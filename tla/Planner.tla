------------------------------- MODULE Planner --------------------------------
(***************************************************************************)
(* What the coordinator decides from what it is told: the publications of   *)
(* workers and operators, failure evidence, the snapshot and the plan, and  *)
(* failback with its anti-flapping rules (fabric.cpp, evidence.cpp).  One   *)
(* service with one slot.  Each action is one region under the fabric's     *)
(* mutex; PUBLISH_READINESS, EXECUTE_FAILOVER and REQUEST_FAILBACK consist  *)
(* of several, and other threads run in between.  Only the domain registry  *)
(* is changed without the mutex: no thread of the coordinator does it, and  *)
(* a program that embeds the fabric may do it only while no thread plans,   *)
(* which makes each declaration a step too.  Of a cutover there is its      *)
(* validation, its fence and its end: module Fabric has the rest.           *)
(***************************************************************************)
EXTENDS Selection, Functions

CONSTANTS
    Home, HomeBoot,  \* target and worker of the initial assignment
    Readiness(_),    \* bound: [facts, state, resources] that may be published for a target
    Declaration,     \* bound: declarations <<domain, [parent, generation]>>
    Membership,      \* bound: memberships <<target, domain, known>>
    Event,           \* failure events
    EventTarget,     \* the target each one is about
    Report,          \* bound: [status, seq, wall] of a report
    Publisher,       \* connections of workers, whose threads handle PUBLISH_READINESS
    Handler,         \* threads that handle EXECUTE_FAILOVER or REQUEST_FAILBACK
    Requests,        \* bound: which of "failover", "failback" and "authorize" they are asked
    MaxTargets, MaxCandidates,   \* max_targets, max_candidates_per_snapshot
    MaxNow,          \* bound: the clock
    MaxReceipts,     \* bound: receipt numbers handed out
    MaxCutovers      \* bound: assignments after the first

Timestamp == [seq : Nat, wall : Nat]
EventRecord == [status : STRING, seq : Nat, wall : Nat, cleared : BOOLEAN]
Decl == [parent : Domain \cup {None}, generation : Nat]
Facts == [boot : Nat, generation : Nat, ready : BOOLEAN, compatible : BOOLEAN, bound : BOOLEAN]
Resource == [class : STRING, amount : Nat, revoked : BOOLEAN, conflict : BOOLEAN]

ASSUME PlannerAssumption ==
    /\ IsFiniteSet(Handler) /\ Handler # {}
    /\ Service.anti_flapping.max_auto_attempts \in Nat
    /\ Report \subseteq [status : STRING, seq : Nat, wall : Nat]
    /\ None \notin EventRecord \cup Timestamp \cup Nat

(* What publications may say. *)
ASSUME PublicationAssumption ==
    /\ Home \in Target /\ MaxCutovers \in Nat
    /\ None \notin Decl \cup Facts
    /\ Declaration \subseteq Domain \X Decl
    /\ Membership \subseteq Target \X Domain \X BOOLEAN
    /\ \A e \in Event : EventTarget[e] \in Target
    /\ \A t \in Target : \A m \in Readiness(t) : m.facts \in Facts /\ m.resources \in Seq(Resource)

(* The boots of a target's workers: a boot is the process of one worker. *)
BootsOf(t) == {m.facts.boot : m \in Readiness(t)} \cup (IF t = Home THEN {HomeBoot} ELSE {})

ASSUME BootAssumption == \A t, u \in Target : t # u => BootsOf(t) \cap BootsOf(u) = {}

VARIABLES
    reg,             \* domains
    targets,         \* in the order of registration: [target, facts, state, resources]
    by_service,      \* targets_by_service of the service
    ready_since,
    confirmed,       \* confirmed_failed_targets_
    publishing,      \* per connection: the rest of its PUBLISH_READINESS handler
    events,          \* EvidenceStore: None or [status, seq, wall, cleared]
    receipt_seq,
    current,         \* current assignment: [id, target, boot]
    fenced,          \* fenced_boots
    ids,             \* assignment ids handed out
    last_transition, failback_attempts,
    manual,          \* manual_failback_authorized
    now,             \* the clock
    h,               \* per handler: its step and local variables
    steady,          \* history: since when the facts of a target have been ready
    newest           \* history: when the newest failure of each event was received, or None

candidates == <<targets, by_service, ready_since, confirmed, steady>>
evidence == <<events, receipt_seq, newest>>
slot == <<current, fenced, ids, last_transition, failback_attempts, manual>>
vars == <<reg, candidates, publishing, evidence, slot, now, h>>

idle == [step |-> "idle"]

(* The state set_initial_assignment leaves in a new coordinator. *)
Init ==
    /\ reg = NoDomains
    /\ targets = <<>> /\ by_service = <<>> /\ confirmed = {}
    /\ ready_since = [t \in Target |-> None] /\ steady = [t \in Target |-> None]
    /\ publishing = [p \in Publisher |-> idle]
    /\ events = [e \in Event |-> None] /\ receipt_seq = 0
    /\ newest = [e \in Event |-> None]
    /\ current = [id |-> 0, target |-> Home, boot |-> HomeBoot]
    /\ fenced = {} /\ ids = 0
    /\ last_transition = 0 /\ failback_attempts = 0 /\ manual = FALSE
    /\ now = 0
    /\ h = [k \in Handler |-> idle]

tick ==
    /\ now < MaxNow
    /\ now' = now + 1
    /\ UNCHANGED <<reg, candidates, publishing, evidence, slot, h>>

-----------------------------------------------------------------------------
(* Publications                                                             *)

declare_domain(d, decl) ==
    /\ reg' = declare(reg, d, decl)
    /\ UNCHANGED <<candidates, publishing, evidence, slot, now, h>>

publish_membership(t, d, known) ==
    /\ reg' = set_membership(reg, t, d, known)
    /\ UNCHANGED <<candidates, publishing, evidence, slot, now, h>>

index(ts, t) == CHOOSE i \in DOMAIN ts : ts[i].target = t

register_target_again(p, t) ==
    /\ publishing[p] = idle
    /\ targets' = Append(targets, [target |-> t, facts |-> None, state |-> NoState,
                                    resources |-> <<>>])
    /\ \E m \in Readiness(t) :
          publishing' = [publishing EXCEPT ![p] = [step |-> "facts", target |-> t, m |-> m]]
    /\ UNCHANGED <<by_service, ready_since, confirmed, steady, reg, evidence, slot, now, h>>

(* Gives up at the limit even for a target it knows. *)
register_target(p, t) ==
    /\ Len(targets) < MaxTargets
    /\ publishing[p] = idle
    /\ targets' = IF \E i \in DOMAIN targets : targets[i].target = t THEN targets
                  ELSE Append(targets, [target |-> t, facts |-> None, state |-> NoState,
                                        resources |-> <<>>])
    /\ \E m \in Readiness(t) :
          publishing' = [publishing EXCEPT ![p] = [step |-> "facts", target |-> t, m |-> m]]
    /\ UNCHANGED <<by_service, ready_since, confirmed, steady, reg, evidence, slot, now, h>>

(* The start of the hysteresis window, set by every ready publication. *)
window_kept(t, ready) == IF ready /\ ready_since[t] = None THEN now ELSE ready_since[t]

window(t, ready) == IF ready THEN now ELSE ready_since[t]

(* Facts of an older readiness generation are ignored; ready ones take back  *)
(* a confirmed failure.                                                      *)
publish_candidate_facts(p) ==
    LET t == publishing[p].target
        i == index(targets, t)
        old == targets[i].facts
        f == publishing[p].m.facts
        same_svc == old # None /\ old.bound
    IN  /\ publishing[p].step = "facts"
        /\ publishing' = [publishing EXCEPT ![p].step = "state"]
        /\ IF old = None \/ f.generation >= old.generation
           THEN /\ targets' = [targets EXCEPT ![i].facts = f]
                /\ by_service' = IF f.bound /\ ~same_svc THEN Append(by_service, t) ELSE by_service
                /\ confirmed' = IF f.ready THEN confirmed \ {t} ELSE confirmed
                /\ ready_since' = [ready_since EXCEPT ![t] = window(t, f.ready)]
                /\ steady' = [steady EXCEPT ![t] =
                                 IF ~f.ready THEN None ELSE IF @ = None THEN now ELSE @]
           ELSE UNCHANGED candidates
        /\ UNCHANGED <<reg, evidence, slot, now, h>>

publish_candidate_state(p) ==
    LET i == index(targets, publishing[p].target)
    IN  /\ publishing[p].step = "state"
        /\ targets' = [targets EXCEPT ![i].state = publishing[p].m.state]
        /\ publishing' = [publishing EXCEPT ![p].step = "resources"]
        /\ UNCHANGED <<by_service, ready_since, confirmed, steady, reg, evidence, slot, now, h>>

publish_candidate_resources(p) ==
    LET i == index(targets, publishing[p].target)
    IN  /\ publishing[p].step = "resources"
        /\ targets' = [targets EXCEPT ![i].resources = publishing[p].m.resources]
        /\ publishing' = [publishing EXCEPT ![p] = idle]
        /\ UNCHANGED <<by_service, ready_since, confirmed, steady, reg, evidence, slot, now, h>>

-----------------------------------------------------------------------------
(* Failure evidence                                                         *)

(* Reports are ordered by number, and by the clock if those are equal. *)
newer_by_number(r, old) == r.seq >= old.seq

newer(r, old) == r.seq > old.seq \/ (r.seq = old.seq /\ r.wall >= old.wall)

(* What the store holds of an event after a report: a report that is not     *)
(* older replaces the one it has, but for a CLEARED one after a CONFIRMED    *)
(* one.                                                                      *)
publish(old, r) ==
    IF old # None /\ (~newer(r, old) \/ (old.status = "CONFIRMED" /\ r.status = "CLEARED"))
    THEN old
    ELSE [status |-> r.status, seq |-> r.seq, wall |-> r.wall, cleared |-> r.status = "CLEARED"]

(* Of two moments the later one. *)
later(n, r) == IF n = None \/ r.seq > n.seq \/ (r.seq = n.seq /\ r.wall > n.wall)
               THEN [seq |-> r.seq, wall |-> r.wall] ELSE n

(* The set of confirmed failures takes the report whatever the store does. *)
publish_failure(e, q) ==
    LET r == [q EXCEPT !.seq = IF @ = 0 THEN receipt_seq + 1 ELSE @]
    IN  /\ q.seq = 0 => receipt_seq < MaxReceipts
        /\ receipt_seq' = IF q.seq = 0 THEN receipt_seq + 1 ELSE receipt_seq
        /\ confirmed' = IF q.status \in {"CONFIRMED", "UNKNOWN"} THEN confirmed \cup {EventTarget[e]}
                        ELSE confirmed
        /\ events' = [events EXCEPT ![e] = publish(@, r)]
        /\ newest' = [newest EXCEPT ![e] = IF q.status = "CLEARED" THEN @ ELSE later(@, r)]
        /\ UNCHANGED <<targets, by_service, ready_since, steady, reg, publishing, slot, now, h>>

clear_failure(e) ==
    /\ events[e] # None
    /\ events' = [events EXCEPT ![e].cleared = TRUE]
    /\ UNCHANGED <<receipt_seq, newest, candidates, reg, publishing, slot, now, h>>

-----------------------------------------------------------------------------
(* Snapshot, context and plan                                               *)

candidate(r) ==
    [target |-> r.target, boot |-> r.facts.boot, fresh |-> TRUE, ready |-> r.facts.ready,
     compatible |-> r.facts.compatible, state |-> r.state, resources |-> r.resources]

(* The targets bound to the service if there are any, else the compatible    *)
(* ones; in their order, and as many as the limit admits.                    *)
snapshot_locked ==
    LET compatible == {i \in DOMAIN targets : targets[i].facts # None /\ targets[i].facts.compatible}
        entry == IF by_service # <<>> THEN [i \in DOMAIN by_service |-> index(targets, by_service[i])]
                 ELSE [i \in compatible |-> i]
        admitted == {i \in DOMAIN entry : Cardinality({j \in DOMAIN entry : j < i}) < MaxCandidates}
    IN  [i \in admitted |-> candidate(targets[entry[i]])]

build_context(preferred) ==
    LET failed == confirmed \cap (Range(by_service) \cup {current.target})
    IN  [failed_target |-> current.target, confirmed |-> failed, fenced |-> fenced,
         failed_domains |-> UNION {domains_of(reg, t) : t \in failed}, preferred |-> preferred]

plan_failover_pref(preferred) == select(snapshot_locked, reg, build_context(preferred))

(* The fresh look at the selected candidate before the cutover begins: the    *)
(* first entry of its target and boot decides.                                *)
revalidated(c) ==
    LET snap == snapshot_locked
        same == {i \in DOMAIN snap : snap[i].target = c.target /\ snap[i].boot = c.boot}
    IN  same # {} /\ hard_eligible(snap[CHOOSE i \in same : \A j \in same : i <= j], reg,
                                   build_context(None))

-----------------------------------------------------------------------------
(* Handlers                                                                 *)

(* EXECUTE_FAILOVER, up to its plan. *)
plan_failover(k) ==
    LET c == plan_failover_pref(None)
    IN  /\ h[k] = idle /\ "failover" \in Requests
        /\ c # None
        /\ h' = [h EXCEPT ![k] = [step |-> "planned", back |-> FALSE, source |-> current, to |-> c]]
        /\ UNCHANGED <<reg, candidates, publishing, evidence, slot, now>>

(* REQUEST_FAILBACK evaluates twice: for itself, and in execute_failback. *)
budget_left_over == failback_attempts <= Service.anti_flapping.max_auto_attempts

budget_left == failback_attempts < Service.anti_flapping.max_auto_attempts

evaluate_failback ==
    LET i == index(targets, Home)
    IN  /\ current.target # Home
        /\ Service.policy # "STAY_ON_CURRENT"
        /\ Service.policy = "MANUAL" => manual
        /\ \E j \in DOMAIN targets : targets[j].target = Home
        /\ targets[i].facts # None /\ targets[i].facts.ready
        /\ now - last_transition >= Service.anti_flapping.cooldown_ms
        /\ Service.anti_flapping.hysteresis_ms > 0 =>
              /\ ready_since[Home] # None
              /\ now - ready_since[Home] >= Service.anti_flapping.hysteresis_ms
        /\ budget_left

authorize_failback(k) ==
    /\ h[k] = idle /\ "authorize" \in Requests
    /\ manual' = TRUE
    /\ h' = [h EXCEPT ![k] = [step |-> "evaluate"]]
    /\ UNCHANGED <<current, fenced, ids, last_transition, failback_attempts, reg, candidates,
                   publishing, evidence, now>>

request_failback(k) ==
    /\ h[k].step \in {"idle", "evaluate"} /\ "failback" \in Requests
    /\ h[k] = idle => evaluate_failback
    /\ h' = [h EXCEPT ![k] = IF evaluate_failback THEN [step |-> "execute"] ELSE idle]
    /\ UNCHANGED <<reg, candidates, publishing, evidence, slot, now>>

execute_failback(k) ==
    /\ h[k].step = "execute"
    /\ h' = [h EXCEPT ![k] = IF evaluate_failback THEN [step |-> "plan"] ELSE idle]
    /\ UNCHANGED <<reg, candidates, publishing, evidence, slot, now>>

plan_failback(k) ==
    LET c == plan_failover_pref(Home)
    IN  /\ h[k].step = "plan"
        /\ h' = [h EXCEPT ![k] = IF c = None THEN idle
                                 ELSE [step |-> "planned", back |-> TRUE, source |-> current, to |-> c]]
        /\ UNCHANGED <<reg, candidates, publishing, evidence, slot, now>>

(* The end of execute_plan: a failback then counts its attempt. *)
ended(k, completed) == IF h[k].back THEN [step |-> "ended", completed |-> completed] ELSE idle

(* execute_plan: validation of the source and of the candidate. *)
begin(k) ==
    LET valid == current.id = h[k].source.id /\ revalidated(h[k].to)
    IN  /\ h[k].step = "planned"
        /\ valid => ids < MaxCutovers
        /\ ids' = IF valid THEN ids + 1 ELSE ids
        /\ h' = [h EXCEPT ![k] = IF ~valid THEN ended(k, FALSE)
                                 ELSE [step |-> "begun", back |-> h[k].back, old |-> current,
                                       new |-> [id |-> ids + 1, target |-> h[k].to.target,
                                                boot |-> h[k].to.boot]]]
        /\ UNCHANGED <<current, fenced, last_transition, failback_attempts, manual, reg, candidates,
                       publishing, evidence, now>>

fence(k) ==
    /\ h[k].step = "begun"
    /\ fenced' = fenced \cup {h[k].old.boot}
    /\ h' = [h EXCEPT ![k].step = "fenced"]
    /\ UNCHANGED <<current, ids, last_transition, failback_attempts, manual, reg, candidates,
                   publishing, evidence, now>>

(* An interruption, a failed operation, or a newer assignment. *)
fails(k) ==
    /\ h[k].step \in {"begun", "fenced"}
    /\ h' = [h EXCEPT ![k] = ended(k, FALSE)]
    /\ UNCHANGED <<reg, candidates, publishing, evidence, slot, now>>

commit(k) ==
    /\ h[k].step = "fenced"
    /\ current.id = h[k].old.id
    /\ current' = h[k].new
    /\ fenced' = fenced \cup {h[k].old.boot}
    /\ last_transition' = now
    /\ h' = [h EXCEPT ![k] = ended(k, TRUE)]
    /\ UNCHANGED <<ids, failback_attempts, manual, reg, candidates, publishing, evidence, now>>

count_attempt(k) ==
    /\ h[k].step = "ended"
    /\ last_transition' = IF h[k].completed THEN now ELSE last_transition
    /\ failback_attempts' = IF h[k].completed THEN 0 ELSE failback_attempts + 1
    /\ h' = [h EXCEPT ![k] = idle]
    /\ UNCHANGED <<current, fenced, ids, manual, reg, candidates, publishing, evidence, now>>

publish_readiness(p) ==
    \/ \E t \in Target : register_target(p, t)
    \/ publish_candidate_facts(p) \/ publish_candidate_state(p) \/ publish_candidate_resources(p)

handler_step(k) ==
    \/ plan_failover(k) \/ authorize_failback(k) \/ request_failback(k) \/ execute_failback(k)
    \/ plan_failback(k) \/ begin(k) \/ fence(k) \/ fails(k) \/ commit(k) \/ count_attempt(k)

Next ==
    \/ tick
    \/ \E d \in Declaration : declare_domain(d[1], d[2])
    \/ \E m \in Membership : publish_membership(m[1], m[2], m[3])
    \/ \E p \in Publisher : publish_readiness(p)
    \/ \E e \in Event, q \in Report : publish_failure(e, q)
    \/ \E e \in Event : clear_failure(e)
    \/ \E k \in Handler : handler_step(k)

Spec == Init /\ [][Next]_vars

-----------------------------------------------------------------------------
(* Properties                                                               *)

(* Types; the index names registered targets, and every target in it has     *)
(* facts.                                                                    *)
TypeOK ==
    /\ current.target \in Target /\ ids \in 0..MaxCutovers
    /\ last_transition \in 0..now
    /\ confirmed \subseteq Target
    /\ \A i \in DOMAIN targets : /\ targets[i].target \in Target
                                 /\ \A j \in DOMAIN targets : targets[i].target = targets[j].target => i = j
    /\ \A i \in DOMAIN by_service :
          \E j \in DOMAIN targets : targets[j].target = by_service[i] /\ targets[j].facts # None
    /\ \A k \in Handler : h[k].step \in {"idle", "evaluate", "execute", "plan", "planned", "begun",
                                         "fenced", "ended"}

(* DomainRegistry::overlaps agrees with its meaning over any declarations,    *)
(* chains and cycles included: two targets overlap if there is a declared     *)
(* domain above both, in every set that has the domains of the target and     *)
(* with a domain its declared parent; and it is told apart from "unknown" as  *)
(* soon as a membership of either is unknown.                                 *)
OverlapsIsSharedAncestor ==
    LET closed(S) == \A d \in S : reg.decl[d].parent \in declared(reg) => reg.decl[d].parent \in S
        above == [t \in Target |-> {d \in declared(reg) : \A S \in SUBSET declared(reg) :
                     domains_of(reg, t) \cap declared(reg) \subseteq S /\ closed(S) => d \in S}]
        unknown(t) == \E d \in Domain : reg.memb[<<t, d>>] = "unknown"
    IN  \A a, b \in Target : a # b =>
           overlaps(reg, a, b) = IF above[a] \cap above[b] # {} THEN TRUE
                                 ELSE IF unknown(a) \/ unknown(b) THEN None ELSE FALSE

(* The choice of a replacement does not depend on the order in which workers  *)
(* registered: any other order of the same candidates gives the same plan.    *)
(* (A map of a finite set onto itself is a permutation.)                      *)
SelectionIgnoresOrder ==
    LET snap == snapshot_locked
        ctx == build_context(None)
        chosen == select(snap, reg, ctx)
    IN  \A p \in Surjection(DOMAIN snap, DOMAIN snap) \ {[i \in DOMAIN snap |-> i]} :
           select([i \in DOMAIN snap |-> snap[p[i]]], reg, ctx) = chosen

(* Reports of one event may arrive in any order: the store never falls back   *)
(* behind a failure it was told of; only a CLEARED report may be newer than   *)
(* what it holds.                                                             *)
NewestFailureKept ==
    \A e \in Event : newest[e] # None =>
       \/ events[e].seq > newest[e].seq
       \/ events[e].seq = newest[e].seq /\ events[e].wall >= newest[e].wall

(* A cutover takes its target when it begins and gives it the slot when it    *)
(* commits; other handlers fence workers in between, from plans of any age.   *)
(* Nevertheless no commit gives the slot to a worker boot that is fenced, to  *)
(* which no dispatch would ever be allowed.                                   *)
CommitsOntoUnfencedWorker ==
    [][current' # current => current'.boot \notin fenced']_vars

(* Concurrent failbacks may each pass the check of the budget before any has  *)
(* counted its attempt, but overrun it by no more than the other handlers.    *)
BudgetOverrun ==
    failback_attempts <= Service.anti_flapping.max_auto_attempts + Cardinality(Handler) - 1

(* The hysteresis window of a ready target never starts before the target     *)
(* became ready for the last time.                                            *)
WindowWithinReadiness ==
    \A i \in DOMAIN targets :
       LET t == targets[i].target
       IN  targets[i].facts # None /\ targets[i].facts.ready => ready_since[t] >= steady[t]

(* failover_fabric.hpp: a failback is "to the recovered preferred target":    *)
(* one that completes has moved the slot there.                               *)
FailbackReachesHome ==
    [][\A k \in Handler :
          h[k].step = "fenced" /\ h'[k].step = "ended" /\ h'[k].completed =>
             current'.target = Home]_vars
===============================================================================
