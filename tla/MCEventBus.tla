----------------------------- MODULE MCEventBus -----------------------------
(* EventBus on a small instance.  Writers of one kind, and tabs, are        *)
(* interchangeable.                                                         *)
EXTENDS EventBus, TLC

Symmetry ==
  Permutations(Inserts) \cup Permutations(Patches) \cup Permutations(Tabs)
=============================================================================
