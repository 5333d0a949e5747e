-------------------------- MODULE ExclusiveAuthority --------------------------
(***************************************************************************)
(* What the failover fabric promises for every service slot, without       *)
(* attempts, routes or milestones: at any time at most one assignment      *)
(* authorizes new work; authority passes from one assignment to another    *)
(* only through a moment in which nobody has it; and an assignment that    *)
(* was given authority and lost it never gets it back.                     *)
(***************************************************************************)
CONSTANTS
    Slot,       \* the service slots
    Assignment, \* identities of assignments
    Nobody      \* the absence of a holder

VARIABLES
    holder,     \* the assignment that authorizes new work, per slot
    spent       \* the assignments whose one chance of authority is used up

vars == <<holder, spent>>

TypeOK ==
    /\ holder \in [Slot -> Assignment \cup {Nobody}]
    /\ spent \in [Slot -> SUBSET Assignment]

Init ==
    /\ holder = [s \in Slot |-> Nobody]
    /\ spent = [s \in Slot |-> {}]

(* A slot that nobody holds gets a holder that never held it before.       *)
Grant(s, n) ==
    /\ holder[s] = Nobody
    /\ n \notin spent[s]
    /\ holder' = [holder EXCEPT ![s] = n]
    /\ spent' = [spent EXCEPT ![s] = @ \cup {n}]

(* An assignment is recorded as current but was fenced meanwhile: its      *)
(* chance is gone and nobody holds the slot.                               *)
Waste(s, n) ==
    /\ holder[s] = Nobody
    /\ n \notin spent[s]
    /\ spent' = [spent EXCEPT ![s] = @ \cup {n}]
    /\ UNCHANGED holder

(* Fencing a worker takes authority away from every slot it was serving.   *)
Revoke(S) ==
    /\ holder' = [s \in Slot |-> IF s \in S THEN Nobody ELSE holder[s]]
    /\ UNCHANGED spent

Next ==
    \/ \E s \in Slot, n \in Assignment : Grant(s, n) \/ Waste(s, n)
    \/ \E S \in SUBSET Slot : Revoke(S)

Spec == Init /\ [][Next]_vars
===============================================================================
