------------------------------- MODULE MCFabric -------------------------------
(* Instances of Fabric for TLC. *)
EXTENDS FabricInvariants, TLC

CONSTANTS b1, b2, b3

(* Every boot is the only incarnation of its target. *)
MCTargetOf == [b \in Boot |-> b]

(* Two boots of one target: b3 is the restarted worker of b1. *)
MCRestartedWorker == (b1 :> "t1") @@ (b2 :> "t2") @@ (b3 :> "t1")

(* Attempts are interchangeable, and so are boots with targets of their own. *)
Symmetry == Permutations(Attempt) \cup Permutations(Boot)
===============================================================================
