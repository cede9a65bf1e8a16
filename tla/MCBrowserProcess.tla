-------------------------- MODULE MCBrowserProcess --------------------------
(* Model checking of BrowserProcess: two helpers, which may outlive the    *)
(* leader, with and without a runtime that shuts down.                     *)
EXTENDS BrowserProcess
=============================================================================
