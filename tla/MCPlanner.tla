------------------------------ MODULE MCPlanner -------------------------------
(* Instances of Planner.                                                    *)
EXTENDS Planner, TLC

CONSTANTS d1, d2, e1

Cpu(n) == <<[class |-> "cpu", amount |-> n, revoked |-> FALSE, conflict |-> FALSE]>>
Published(b, g, ready, bound) ==
    [boot |-> b, generation |-> g, ready |-> ready, compatible |-> TRUE, bound |-> bound]
Plain(b, g, ready, bound) ==
    [facts |-> Published(b, g, ready, bound), state |-> NoState, resources |-> Cpu(1)]
Roomy(b, g) ==
    [facts |-> Published(b, g, TRUE, TRUE), state |-> NoState, resources |-> Cpu(2)]

MCService ==
    [continuity |-> "REPLAY_SAFE_REQUESTS", min_checkpoint |-> None,
     resources |-> Cpu(1), independent |-> TRUE, policy |-> "MANUAL",
     anti_flapping |-> [max_auto_attempts |-> 1, cooldown_ms |-> 1, hysteresis_ms |-> 1]]

(* Selection: a cycle of domains and an unknown membership; two workers of     *)
(* each of two targets that may publish at the same time, with other facts and *)
(* resources; reports that arrive in another order than they were made.        *)
SelectionDeclaration ==
    {<<d1, [parent |-> d2, generation |-> 1]>>, <<d2, [parent |-> d1, generation |-> 1]>>}
SelectionMembership == {<<1, d1, TRUE>>, <<2, d2, TRUE>>, <<2, d2, FALSE>>}
SelectionReadiness(t) ==
    CASE t = 1 -> {}
      [] t = 2 -> {Plain(21, 1, TRUE, TRUE), Roomy(22, 2)}
      [] t = 3 -> {Plain(31, 1, TRUE, TRUE), Roomy(32, 1)}
SelectionEventTarget == [e \in {e1} |-> 3]
SelectionReport ==
    {[status |-> "SUSPECTED", seq |-> 0, wall |-> 0],
     [status |-> "CONFIRMED", seq |-> 1, wall |-> 2],
     [status |-> "CLEARED", seq |-> 1, wall |-> 1]}

(* Failback: the preferred target publishes as the worker it was, and comes    *)
(* back as a new one that is ready or not; another target is ready.            *)
FailbackReadiness(t) ==
    CASE t = 1 -> {Plain(11, 1, TRUE, FALSE), Plain(12, 1, TRUE, FALSE), Plain(12, 1, FALSE, FALSE)}
      [] t = 2 -> {Plain(21, 1, TRUE, FALSE)}
      [] t = 3 -> {}

(* Handlers are interchangeable, and so are connections. *)
Symmetry == Permutations(Handler) \cup Permutations(Publisher)

(* The same with a third target, and the preferred worker still running.       *)
ElsewhereReadiness(t) == {Plain(10 * t + 1, 1, TRUE, FALSE)}
===============================================================================
