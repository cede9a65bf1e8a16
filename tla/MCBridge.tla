------------------------------- MODULE MCBridge -------------------------------
(* Model checking of Bridge: a page, one that redirects to it, one that    *)
(* redirects to itself and one of another origin.                          *)
EXTENDS Bridge

Site == {"page", "moved", "loop", "other"}
SiteLocation ==
  [url \in Site |-> CASE url = "moved" -> {"page"} [] url = "loop" -> {"loop"} [] OTHER -> {}]
SiteOrigin == [url \in Site |-> IF url = "other" THEN "b" ELSE "a"]
=============================================================================
