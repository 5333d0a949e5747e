------------------------------ MODULE Selection -------------------------------
(***************************************************************************)
(* What the planner computes: the domain registry's queries (domains.cpp),  *)
(* the continuity of a candidate (fabric.cpp) and the selection             *)
(* of a replacement (selection.cpp).  A registry is a pair of functions:    *)
(* the declaration of each domain and the membership of each target.       *)
(* Reasons of an exclusion, factor names and costs that selection does not  *)
(* read are left out.                                                      *)
(***************************************************************************)
EXTENDS Integers, Sequences, FiniteSets

CONSTANTS Target, Domain, None,
          Guard,      \* steps of ancestors_of, 64 in the code
          Service     \* compatibility is in the facts; continuity, min_checkpoint, resources,
                      \* independent (require_domain_independence), policy, anti_flapping

(* A service with one resource requirement, as REGISTER declares it. *)
ASSUME SelectionAssumption ==
    /\ Target \subseteq Nat /\ Guard \in Nat /\ None \notin Domain
    /\ DOMAIN Service.resources = {1} /\ Service.resources[1].amount \in Nat \ {0}

-----------------------------------------------------------------------------
(* DomainRegistry: declarations are None or [parent, generation], and        *)
(* memberships None, "known" or "unknown".                                   *)

NoDomains == [decl |-> [d \in Domain |-> None], memb |-> [p \in Target \X Domain |-> None]]

declare(reg, d, decl) ==
    IF reg.decl[d] # None /\ decl.generation < reg.decl[d].generation THEN reg
    ELSE [reg EXCEPT !.decl[d] = decl]

set_membership(reg, t, d, known) ==
    [reg EXCEPT !.memb[<<t, d>>] = IF known THEN "known" ELSE "unknown"]

domains_of(reg, t) == {d \in Domain : reg.memb[<<t, d>>] = "known"}

(* The chain of parents, as far as they are declared: cur[n] is the loop's    *)
(* variable after n rounds.                                                   *)
parent_of(reg, d) == IF d = None \/ reg.decl[d] = None THEN None ELSE reg.decl[d].parent

rounds(reg, id) ==
    LET cur[n \in 0..Guard] == IF n = 0 THEN id ELSE parent_of(reg, cur[n - 1])
    IN  cur

declared(reg) == {d \in Domain : reg.decl[d] # None}

ancestors_of_itself(reg, id) == {id} \cap declared(reg)

ancestors_of(reg, id) == {rounds(reg, id)[n] : n \in 0..(Guard - 1)} \cap declared(reg)

closure(reg, t) == UNION {ancestors_of(reg, d) : d \in domains_of(reg, t)}

any_unknown(reg, t) == \E d \in Domain : reg.memb[<<t, d>>] = "unknown"

(* None if it cannot be told. *)
overlaps(reg, a, b) ==
    IF a # b /\ closure(reg, a) \cap closure(reg, b) # {} THEN TRUE
    ELSE IF any_unknown(reg, a) \/ any_unknown(reg, b) THEN None ELSE FALSE

in_domain(reg, t, d) ==
    IF reg.memb[<<t, d>>] = "unknown" THEN None ELSE reg.memb[<<t, d>>] = "known"

-----------------------------------------------------------------------------
(* Continuity.  A candidate's state is [available, intact, checkpoint,       *)
(* rebind]: intact stands for the session, tenant, model, format and         *)
(* integrity checks, checkpoint for the generation (or None), rebind for a   *)
(* state generation.                                                         *)

Continuity == <<"STATELESS_RESTART", "REPLAY_SAFE_REQUESTS", "CHECKPOINT_RESTORE",
                "SESSION_STATE_REBIND", "SESSION_RESTART_REQUIRED",
                "MANUAL_RECOVERY_REQUIRED", "UNKNOWN">>

NoState == [available |-> FALSE, intact |-> FALSE, checkpoint |-> None, rebind |-> FALSE]

cls(c) == (CHOOSE i \in DOMAIN Continuity : Continuity[i] = c) - 1

infer_continuity(c) ==
    IF c.state.available /\ c.state.intact /\ c.state.checkpoint # None THEN "CHECKPOINT_RESTORE"
    ELSE IF c.state.available /\ c.state.intact /\ c.state.rebind THEN "SESSION_STATE_REBIND"
    ELSE IF c.ready THEN "REPLAY_SAFE_REQUESTS" ELSE "STATELESS_RESTART"

MaxOf(a, b) == IF a > b THEN a ELSE b
MinOf(a, b) == IF a < b THEN a ELSE b

(* Estimates of a snapshot: preparation, restore, and the fixed stages. *)
crit_path_ms(c) ==
    MaxOf(IF c.ready THEN 0 ELSE 5000, IF c.state.available THEN 200 ELSE 0) + 160

-----------------------------------------------------------------------------
(* SelectionEngine.  A candidate is [target, boot, fresh, ready, compatible, *)
(* state, resources]; a context is [failed_target, confirmed, fenced,        *)
(* failed_domains, preferred].                                               *)

(* The first resource of the class decides. *)
satisfies_at(c, req, i) ==
    LET r == c.resources[i]
    IN  /\ r.class = req.class
        /\ \A j \in 1..(i - 1) : c.resources[j].class # req.class
        /\ ~r.revoked /\ ~r.conflict /\ r.amount >= req.amount

satisfies(c, req) == \E i \in DOMAIN c.resources : satisfies_at(c, req, i)

stateful == Service.continuity \in {"CHECKPOINT_RESTORE", "SESSION_STATE_REBIND"}

state_eligible(c) ==
    stateful =>
       /\ c.state.available /\ c.state.intact
       /\ Service.min_checkpoint # None /\ c.state.checkpoint # None =>
             c.state.checkpoint >= Service.min_checkpoint

domain_eligible(c, reg, ctx) ==
    Service.independent =>
       /\ overlaps(reg, c.target, ctx.failed_target) = FALSE
       /\ \A d \in ctx.failed_domains : in_domain(reg, c.target, d) = FALSE

hard_eligible_if_fenced(c, reg, ctx) ==
    /\ c.target # ctx.failed_target
    /\ c.target \notin ctx.confirmed
    /\ c.fresh /\ c.ready
    /\ c.compatible
    /\ state_eligible(c)
    /\ \A i \in DOMAIN Service.resources : satisfies(c, Service.resources[i])
    /\ domain_eligible(c, reg, ctx)

hard_eligible(c, reg, ctx) ==
    /\ c.target # ctx.failed_target
    /\ c.target \notin ctx.confirmed
    /\ c.boot \notin ctx.fenced
    /\ c.fresh /\ c.ready
    /\ c.compatible
    /\ state_eligible(c)
    /\ \A i \in DOMAIN Service.resources : satisfies(c, Service.resources[i])
    /\ domain_eligible(c, reg, ctx)

(* The score in millionths, rounded, of an eligible candidate for a service   *)
(* with one resource requirement (REGISTER declares one).  The spare capacity *)
(* counts in units of the requirement, at most one; all terms are over 6 * q. *)
rank(c) ==
    LET q == Service.resources[1].amount
        r == CHOOSE i \in DOMAIN c.resources : satisfies_at(c, Service.resources[1], i)
        spare == MinOf(q, c.resources[r].amount - q)
        scaled == 6 * q * (IF c.ready THEN 120000 ELSE 0)
                  + q * (420000 - 14 * MinOf(30000, crit_path_ms(c)))
                  + q * 200000 * cls(infer_continuity(c))
                  + 6 * q * (IF c.state.available THEN 100000 ELSE 0)
                  + 6 * 80000 * spare
                  + 6 * q * (60000 + 250000 + 15000)
    IN  2 * ((2 * scaled + 6 * q) \div (12 * q)) + (crit_path_ms(c) % 1000)

(* The comparator of the sort. *)
before_by_rank(a, b, pref) ==
    \/ a.target = pref /\ b.target # pref
    \/ (a.target = pref) = (b.target = pref) /\ rank(a) >= rank(b)

before(a, b, pref) ==
    \/ a.target = pref /\ b.target # pref
    \/ /\ (a.target = pref) = (b.target = pref)
       /\ \/ rank(a) > rank(b)
          \/ rank(a) = rank(b) /\ (a.target < b.target \/ (a.target = b.target /\ a.boot < b.boot))

(* The front of the eligible ones after a stable sort. *)
select(candidates, reg, ctx) ==
    LET eligible == {i \in DOMAIN candidates : hard_eligible(candidates[i], reg, ctx)}
        front == CHOOSE i \in eligible : \A j \in eligible \ {i} :
                    IF j < i THEN before(candidates[i], candidates[j], ctx.preferred)
                    ELSE ~before(candidates[j], candidates[i], ctx.preferred)
    IN  IF eligible = {} THEN None ELSE candidates[front]
===============================================================================
