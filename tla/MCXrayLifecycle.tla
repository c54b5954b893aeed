--------------------------- MODULE MCXrayLifecycle ---------------------------
(* Instances of XrayLifecycle for TLC.                                      *)
EXTENDS XrayLifecycle, TLC

(* Users, processes, checkers and editors are interchangeable.              *)
LifecycleSymmetry ==
  Permutations(Users) \cup Permutations(Slots) \cup Permutations(Checkers)
    \cup Permutations(Editors) \cup Permutations(Admins)

=============================================================================
