---------------------------- MODULE MCTtlCache ----------------------------
(* Model checking of TtlCache: three keys for two places, two values, and  *)
(* a clock that outruns the lifetime of an entry.                          *)
EXTENDS TtlCache

(* Retain is the library's SelectSeq on every queue of up to four keys. *)
ASSUME RetainIsSelectSeq ==
  \A s \in UNION {[1 .. n -> Keys] : n \in 0 .. 4}, K \in SUBSET Keys :
    Retain(s, K) = SelectSeq(s, LAMBDA k : k \in K)
=============================================================================
