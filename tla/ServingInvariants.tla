---------------------------- MODULE ServingInvariants -------------------------
(***************************************************************************)
(* The inductive invariants from which ServingProofs derives the           *)
(* properties of Serving: the types of the three processes and of the      *)
(* messages between them, and where routes, activations, verifications and *)
(* results may be on their way.                                            *)
(***************************************************************************)
EXTENDS Serving

-----------------------------------------------------------------------------
(* The types of the whole state.                                           *)

Reply == BOOLEAN \cup {None}

WorkerState ==
    [life : {"new", "up", "dead"}, active : BOOLEAN, linked : BOOLEAN, readiness : BOOLEAN,
     mute : BOOLEAN]

CtlFrame == [type : {"FENCE_ASSIGNMENT"}] \cup [type : {"ACTIVATE_TARGET"}, from : Attempt]

Registering == [step : {"registering"}, boot : Boot, via : Boot, reply : Reply]
RegRouting == [step : {"reg_routing"}, boot : Boot, reply : Reply]
Planned == [step : {"planned", "fencing", "fenced"}, old : Assignment, new : Assignment]
Activating == [step : {"activating"}, old : Assignment, new : Assignment, via : Boot, reply : Reply]
Routing == [step : {"routing", "verifying"}, old : Assignment, new : Assignment, reply : Reply]

Handler == {idle} \cup Registering \cup RegRouting \cup Planned \cup Activating \cup Routing

GatewayFrame ==
    [type : {"INSTALL_ROUTE"}, from : Attempt \cup {None}, route : Route]
    \cup [type : {"VERIFY_SERVICE"}, from : Attempt]

Push == [at : {"registered", "done"}] \cup [at : {"read"}, route : Route]

GatewayState ==
    [boot : Gateways, route : Route \cup {None}, frames : Seq(GatewayFrame),
     verifying : [from : Attempt, route : Route] \cup {None}, push : Push]

ClientState ==
    [at : {"start"}]
    \cup [at : {"asked", "checked", "authorized"}, auth : Assignment]
    \cup [at : {"sent"}, auth : Assignment, route : Route]
    \cup [at : {"returned"}, auth : Assignment, by : Boot, out : {"withheld", "computed", "refused"}]
    \cup [at : {"answered"}, ok : BOOLEAN, auth : Assignment \cup {None}, by : Boot \cup {None}]

ASSUME NoneAssumption ==
    /\ None \notin BOOLEAN /\ None \notin Attempt /\ None \notin Assignment /\ None \notin Route
    /\ None \notin [generation : Nat, boot : Boot] /\ None \notin GatewayState
    /\ None \notin [from : Attempt, route : Route]
    /\ Home \subseteq Boot

(* A worker of the target of b has said HELLO. *)
Known(b) == peer[TargetOf[b]] # None

(* The handler is in execute_plan. *)
InCutover(a) ==
    a.step \in {"planned", "fencing", "fenced", "activating", "routing", "verifying"}

KnownHandler(a) ==
    /\ a.step \in {"registering", "reg_routing"} => Known(a.boot)
    /\ InCutover(a) => Known(a.old.boot) /\ Known(a.new.boot)

WorkersTyped ==
    /\ worker \in [Boot -> WorkerState]
    /\ ctl \in [Boot -> Seq(CtlFrame)]
    /\ \A b \in Boot : worker[b].linked \/ worker[b].active => worker[b].life = "up"
    /\ \A b \in Boot : ~worker[b].linked => ctl[b] = <<>> /\ ~worker[b].readiness

PeersTyped ==
    /\ peer \in [Target -> Boot \cup {None}] /\ facts \in [Target -> Boot \cup {None}]
    /\ \A b \in Boot : worker[b].linked => Known(b)
    /\ \A t \in Target : facts[t] # None => Known(facts[t])

AssignmentsTyped ==
    /\ current \in Assignment \cup {None}
    /\ table \in [generation : Nat, boot : Boot] \cup {None}
    /\ fenced \subseteq Boot
    /\ calls \in Nat
    /\ att \in [Attempt -> Handler]
    /\ current # None => Known(current.boot)
    /\ table # None => Known(table.boot)
    /\ \A k \in Attempt : KnownHandler(att[k])

GatewayTyped ==
    /\ gateway \in GatewayState \cup {None}
    /\ gateway # None => gateway.boot \in gates
    /\ client \in [Client -> ClientState]
    /\ \A c \in Client : client[c].at \in Flight => gateway # None

TypeInv == WorkersTyped /\ PeersTyped /\ AssignmentsTyped /\ GatewayTyped

-----------------------------------------------------------------------------
(* Whose route the gateway and the clients have.                           *)

SoleHandler == \A k, l \in Attempt : k = l

(* Assignments have identities of their own. *)
FreshInv ==
    /\ current # None => current.id <= calls + 1
    /\ \A c \in Client : client[c].at \in Flight =>
          current # None /\ client[c].auth.id <= calls + 1
    /\ \A k \in Attempt : InCutover(att[k]) =>
          /\ att[k].new.id = calls + 1
          /\ current.id <= calls
          /\ \A c \in Client : client[c].at \in Flight =>
                client[c].auth.id <= calls

(* What a handler has established. *)
HandlerInv ==
    \A k \in Attempt :
        /\ att[k].step \in {"registering", "reg_routing"} =>
              current # None /\ att[k].boot = current.boot
        /\ InCutover(att[k]) => current # None
        /\ att[k].step \in {"fencing", "fenced", "activating", "routing", "verifying"} =>
              current = att[k].old
        /\ att[k].step \in {"fenced", "activating", "routing", "verifying"} =>
              att[k].old.boot \in fenced

(* An ACTIVATE on its way has a handler that waits for its acknowledgment. *)
ActivationInv ==
    \A b \in Boot :
        /\ \A i \in DOMAIN ctl[b] :
              ctl[b][i].type = "ACTIVATE_TARGET" =>
                 LET a == att[ctl[b][i].from]
                 IN  a.step \in {"registering", "activating"} /\ a.via = b /\ a.reply = None
        /\ \A i, j \in DOMAIN ctl[b] :
              ctl[b][i].type = "ACTIVATE_TARGET" /\ ctl[b][j].type = "ACTIVATE_TARGET" => i = j

(* A frame on its way to the gateway is from the handler that waits for it. *)
Waited(f) ==
    /\ f.from \in Attempt
    /\ LET a == att[f.from]
       IN  /\ a.reply = None
           /\ f.type = "INSTALL_ROUTE" =>
                 \/ a.step = "reg_routing" /\ f.route.boot = a.boot
                 \/ a.step = "routing" /\ f.route.boot = a.new.boot
           /\ f.type = "VERIFY_SERVICE" => a.step = "verifying"

GatewayInv ==
    gateway # None =>
        /\ gateway.push.at # "read"
        /\ gateway.route # None =>
              current # None /\ (gateway.route.boot = current.boot \/ current.boot \in fenced)
        /\ gateway.frames = <<>> \/ (gateway.frames = <<Head(gateway.frames)>> /\ Waited(Head(gateway.frames)))
        /\ gateway.verifying # None =>
              /\ gateway.frames = <<>>
              /\ att[gateway.verifying.from].step = "verifying"
              /\ att[gateway.verifying.from].reply = None
        /\ \A k \in Attempt :
              \/ att[k].step = "routing" /\ att[k].reply = TRUE
              \/ att[k].step = "verifying"
              => gateway.route = None \/ gateway.route.boot = att[k].new.boot

(* The result of a client whose authorization would be accepted now. *)
ClientInv ==
    \A c \in Client :
        LET x == client[c]
        IN  /\ x.at \in {"sent", "returned"} /\ x.auth = current /\ x.auth.boot \notin fenced =>
                  /\ x.at = "sent" => x.route.boot = x.auth.boot
                  /\ x.at = "returned" /\ x.out = "computed" => x.by = x.auth.boot
            /\ x.at = "answered" /\ x.ok => x.by = x.auth.boot

RouteInv ==
    /\ FreshInv /\ HandlerInv
    /\ ~pushed => ActivationInv /\ GatewayInv /\ ClientInv

-----------------------------------------------------------------------------
OrphanState == [gateway : Gateways, at : {"asked", "checked", "done"}, request : Request]

(* Requests of unknown outcome: no handler is between looking at such a    *)
(* record and replacing it, but for handlers left behind by a gateway.     *)
RecordInv ==
    /\ record \in [Request -> {None, "DISPATCHED", "OUTCOME_UNKNOWN"}]
    /\ unknown \subseteq Request
    /\ orphan \subseteq OrphanState
    /\ \A r \in unknown \ Replayable :
          \/ Orphaned(r)
          \/ /\ record[r] = "OUTCOME_UNKNOWN"
             /\ \A c \in Client : client[c].at = "checked" => RequestOf[c] # r
===============================================================================
