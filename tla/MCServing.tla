------------------------------ MODULE MCServing -------------------------------
(* Instances of Serving: two targets, the second of which is started twice.   *)
EXTENDS ServingInvariants, TLC

CONSTANTS b1, b2, b3, c1, r1

MCTargetOf == (b1 :> 1) @@ (b2 :> 2) @@ (b3 :> 2)

MCRequestOf == c1 :> r1

(* The deployment once it is up: the workers b1 and b2 and the first gateway *)
(* have connected, as they do in any order; b3 and the other gateway are     *)
(* still to be started.                                                      *)
Deployed ==
    /\ worker = [b \in Boot |-> [life |-> IF b = b3 THEN "new" ELSE "up", active |-> FALSE,
                                 linked |-> b # b3, readiness |-> FALSE, mute |-> b \in Withholds]]
    /\ ctl = [b \in Boot |-> <<>>]
    /\ peer = <<b1, b2>> /\ facts = <<b1, b2>>
    /\ gateway = [boot |-> 2, route |-> None, frames |-> <<>>, verifying |-> None,
                  push |-> [at |-> "done"]]
    /\ gates = {2} /\ pushed = FALSE
    /\ current = None /\ table = None /\ fenced = {}
    /\ record = [r \in Request |-> None]
    /\ att = [k \in Attempt |-> idle]
    /\ calls = 0
    /\ client = [c \in Client |-> [at |-> "start"]]
    /\ sends = [c \in Client |-> 1]
    /\ orphan = {} /\ unknown = {}

DeployedSpec == Deployed /\ [][Next]_vars
DeployedFairSpec == DeployedSpec /\ Fairness
===============================================================================
