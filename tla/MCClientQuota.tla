---------------------------- MODULE MCClientQuota ----------------------------
(* Instances of ClientQuota for TLC: client "shared" has two inbounds, its   *)
(* row belongs to the first; client "single" is in the second only.         *)
EXTENDS ClientQuota

MCClients == {"shared", "single"}
MCInbounds == {1, 2}
MCAttached == [c \in MCClients |-> IF c = "shared" THEN {1, 2} ELSE {2}]
MCOwner == [c \in MCClients |-> IF c = "shared" THEN 1 ELSE 2]

(* One client with two inbounds.                                            *)
MCSharedOnly == {"shared"}
MCBoth == [c \in MCSharedOnly |-> {1, 2}]
MCOwnerFirst == [c \in MCSharedOnly |-> 1]

=============================================================================
