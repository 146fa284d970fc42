----------------------------- MODULE ServerRoutes -----------------------------
(***************************************************************************)
(* The private route of ONE hosted community and its copy in the DHT       *)
(* (subkey 6, SUBKEY_SERVER_ROUTE), through which clients find the server. *)
(*                                                                         *)
(* Four tokio tasks replace the route: host_community, the keepalive loop, *)
(* the handler of Veilid's RouteChange events (inline in the dispatch      *)
(* loop) and retry_failed_routes.  Each of them works in steps that hold   *)
(* no lock from one to the next: allocate a route (await), install it      *)
(* under hosted.write(), publish it (await).  task[t] is the program       *)
(* counter and the locals of task t.                                       *)
(*                                                                         *)
(* A route and the blob that names it in the DHT are one value.  Routes    *)
(* are anonymous, so an allocation takes the least one that nothing refers *)
(* to any more: this loses no behaviour.                                   *)
(***************************************************************************)
EXTENDS Integers, Sequences, SequencesExt

CONSTANTS
    Routes,      \* bound: size of the pool of route identities
    Faults,      \* bound: failed calls, dead routes, restarts and unhostings
    Retries      \* length of delays_secs in retry_failed_routes

Task == {"host", "keepalive", "dispatch", "retry"}

ASSUME RouteBounds == Routes \in Nat \ {0} /\ Faults \in Nat /\ Retries \in Nat

VARIABLES
    hosted, route_id, route_blob,   \* HostedCommunity
    task,
    live,       \* routes that exist at the Veilid node
    events,     \* RouteChange events in the update channel, oldest first
    dht,        \* the route in subkey 6
    freed,      \* observed: routes the server released itself
    faults      \* number of faults so far

state == <<hosted, route_id, route_blob>>
net   == <<live, events, dht, freed>>
vars  == <<state, task, net, faults>>

Route == 1..Routes
NoRoute == 0
Some == Route \cup {NoRoute}

Pc == {"idle", "take", "release", "clear", "alloc", "drop", "install", "publish",
       "announce", "insert", "done"}

\* old is the blob in a keepalive's snapshot, left the attempts of the retry task.
Locals == [pc : Pc, route : Some, old : Some, left : 0..Retries]
Idle == [pc |-> "idle", route |-> NoRoute, old |-> NoRoute, left |-> 0]
Tasks0 == [t \in Task |-> [Idle EXCEPT !.left = IF t = "retry" THEN Retries ELSE 0]]

Init ==
    /\ hosted = FALSE /\ route_id = NoRoute /\ route_blob = NoRoute
    /\ task = Tasks0
    /\ live = {} /\ events = <<>> /\ dht = NoRoute /\ freed = {}
    /\ faults = 0

Fault == faults < Faults /\ faults' = faults + 1

Referred == live \cup ToSet(events) \cup {route_id, route_blob, dht}
                 \cup {task[t].route : t \in Task} \cup {task[t].old : t \in Task}
Unused == Route \ Referred

At(t, pc)   == task[t].pc = pc
Goto(t, pc) == task' = [task EXCEPT ![t].pc = pc]

\* The end of a round: the retry task has used up one of its delays.
Finish(t) == task' = [task EXCEPT ![t] = [Idle EXCEPT !.left = IF t = "retry" THEN task[t].left - 1 ELSE 0]]
Rounds(t) == task[t].left

-----------------------------------------------------------------------------
(* What starts a round.                                                    *)

\* host_community, past its "already hosted" check.
HostBegin ==
    /\ At("host", "idle") /\ ~hosted
    /\ Goto("host", "alloc")
    /\ UNCHANGED <<state, net, faults>>

\* Variant: communities without a route are left to the other tasks.
KeepaliveTickIfRouted ==
    /\ At("keepalive", "idle") /\ hosted /\ route_id # NoRoute
    /\ task' = [task EXCEPT !["keepalive"] = [@ EXCEPT !.pc = "take", !.old = route_blob]]
    /\ UNCHANGED <<state, net, faults>>

\* rewrite_all_communities: the snapshot, and open_record_writable succeeded
\* (after a failure the community is skipped until the next tick).
KeepaliveTick ==
    /\ At("keepalive", "idle") /\ hosted
    /\ task' = [task EXCEPT !["keepalive"] = [@ EXCEPT !.pc = "take", !.old = route_blob]]
    /\ UNCHANGED <<state, net, faults>>

\* Variant: the old route_id is only read.
KeepalivePeek ==
    /\ At("keepalive", "take")
    /\ task' = [task EXCEPT !["keepalive"] = [@ EXCEPT !.pc = "release", !.route = route_id]]
    /\ UNCHANGED <<state, net, faults>>

\* keepalive_refresh_route: route_id.take() ...
KeepaliveTake ==
    /\ At("keepalive", "take")
    /\ IF hosted
       THEN /\ task' = [task EXCEPT !["keepalive"] = [@ EXCEPT !.pc = "release", !.route = route_id]]
            /\ route_id' = NoRoute
       ELSE Goto("keepalive", "alloc") /\ UNCHANGED route_id
    /\ UNCHANGED <<hosted, route_blob, net, faults>>

\* ... and outside the lock its release, whose failure is ignored.
KeepaliveRelease ==
    LET old == task["keepalive"].route IN
    /\ At("keepalive", "release")
    /\ live' = live \ {old}
    /\ freed' = freed \cup ({old} \ {NoRoute})
    /\ task' = [task EXCEPT !["keepalive"] = [@ EXCEPT !.pc = "alloc", !.route = NoRoute]]
    /\ UNCHANGED <<state, events, dht, faults>>

\* handle_server_route_change: is it the route of a hosted community?
RouteChange ==
    /\ At("dispatch", "idle") /\ events # <<>>
    /\ events' = Tail(events)
    /\ IF hosted /\ route_id = Head(events) THEN Goto("dispatch", "clear") ELSE UNCHANGED task
    /\ UNCHANGED <<state, live, dht, freed, faults>>

\* Whatever route_id is by now, it is dropped.
RouteChangeClear ==
    /\ At("dispatch", "clear")
    /\ route_id' = NoRoute
    /\ Goto("dispatch", "alloc")
    /\ UNCHANGED <<hosted, route_blob, net, faults>>

\* retry_failed_routes after one of its delays: the task ends as soon as no
\* hosted community lacks a blob, or when the delays are used up.
RetryScan ==
    /\ At("retry", "idle")
    /\ Goto("retry", IF Rounds("retry") > 0 /\ hosted /\ route_blob = NoRoute THEN "alloc" ELSE "done")
    /\ UNCHANGED <<state, net, faults>>

-----------------------------------------------------------------------------
(* Allocate, install, publish.                                             *)

Allocate(t) ==
    /\ At(t, "alloc")
    /\ \E r \in Unused :
          /\ \A q \in Unused : r <= q
          /\ live' = live \cup {r}
          /\ freed' = freed \ {r}
          /\ task' = [task EXCEPT ![t] = [@ EXCEPT !.pc = IF t = "host" THEN "announce" ELSE "install",
                                                   !.route = r]]
    /\ UNCHANGED <<state, events, dht, faults>>

\* The keepalive falls back on the blob of its snapshot, host_community goes
\* on without a route.
AllocateFails(t) ==
    /\ At(t, "alloc") /\ Fault
    /\ CASE t = "host"      -> Goto(t, "insert")
         [] t = "keepalive" -> IF task[t].old = NoRoute THEN Finish(t)
                               ELSE task' = [task EXCEPT ![t] = [@ EXCEPT !.pc = "publish", !.route = task[t].old]]
         [] t = "dispatch"  -> Goto(t, "drop")
         [] t = "retry"     -> Finish(t)
    /\ UNCHANGED <<state, net>>

Install(t) ==
    /\ At(t, "install")
    /\ IF hosted
       THEN route_id' = task[t].route /\ route_blob' = task[t].route
       ELSE UNCHANGED <<route_id, route_blob>>
    /\ Goto(t, "publish")
    /\ UNCHANGED <<hosted, net, faults>>

RouteChangeDrop ==
    /\ At("dispatch", "drop")
    /\ route_id' = NoRoute /\ route_blob' = NoRoute
    /\ Finish("dispatch")
    /\ UNCHANGED <<hosted, net, faults>>

Publish(t) ==
    /\ At(t, "publish")
    /\ \/ dht' = task[t].route /\ UNCHANGED faults
       \/ Fault /\ UNCHANGED dht
    /\ Finish(t)
    /\ UNCHANGED <<state, live, events, freed>>

\* host_community publishes first, if it could open the record, and inserts
\* the community with its route afterwards.
HostAnnounce ==
    /\ At("host", "announce")
    /\ \/ dht' = task["host"].route /\ UNCHANGED faults
       \/ Fault /\ UNCHANGED dht
    /\ Goto("host", "insert")
    /\ UNCHANGED <<state, live, events, freed>>

HostInsert ==
    /\ At("host", "insert")
    /\ hosted' = TRUE
    /\ route_id' = task["host"].route /\ route_blob' = task["host"].route
    /\ Finish("host")
    /\ UNCHANGED <<net, faults>>

\* unhost_community.
Unhost ==
    /\ hosted /\ Fault
    /\ hosted' = FALSE /\ route_id' = NoRoute /\ route_blob' = NoRoute
    /\ live' = live \ {route_id}
    /\ freed' = freed \cup ({route_id} \ {NoRoute})
    /\ UNCHANGED <<task, events, dht>>

-----------------------------------------------------------------------------
(* The environment.                                                        *)

\* The update callback uses try_send: when the channel is full the event is
\* dropped.
RouteDies(r) ==
    /\ r \in live /\ Fault
    /\ live' = live \ {r}
    /\ events' \in {Append(events, r), events}
    /\ UNCHANGED <<state, task, dht, freed>>

\* The process ends and is started again; its routes end with the node.
Restart ==
    /\ Fault
    /\ hosted' = FALSE /\ route_id' = NoRoute /\ route_blob' = NoRoute
    /\ task' = Tasks0 /\ live' = {} /\ events' = <<>> /\ freed' = {}
    /\ UNCHANGED dht

Round(t) == Allocate(t) \/ AllocateFails(t) \/ Install(t) \/ Publish(t)
HostStep      == HostBegin \/ HostAnnounce \/ HostInsert
KeepaliveStep == KeepaliveTick \/ KeepaliveTake \/ KeepaliveRelease
DispatchStep  == RouteChange \/ RouteChangeClear \/ RouteChangeDrop

Next == \/ \E t \in Task : Round(t)
        \/ HostStep \/ KeepaliveStep \/ DispatchStep \/ RetryScan
        \/ Unhost \/ Restart
        \/ \E r \in Route : RouteDies(r)

Spec == Init /\ [][Next]_vars

\* The runtime polls every task whose await has completed, the interval ticks
\* for ever, and the loader hosts a persisted community when the process starts.
Fairness ==
    /\ \A t \in Task : WF_vars(Round(t))
    /\ WF_vars(HostStep) /\ WF_vars(KeepaliveStep) /\ WF_vars(DispatchStep)
    /\ WF_vars(RetryScan)

FairSpec == Spec /\ Fairness
-----------------------------------------------------------------------------
(* Properties.                                                             *)

TypeOK ==
    /\ hosted \in BOOLEAN /\ route_id \in Some /\ route_blob \in Some
    /\ task \in [Task -> Locals]
    /\ live \subseteq Route /\ freed \subseteq Route
    /\ events \in Seq(Route)
    /\ dht \in Some
    /\ faults \in 0..Faults

Held(t) == IF task[t].pc \in {"release", "announce", "insert", "install"} THEN {task[t].route} \ {NoRoute} ELSE {}

\* A route has one holder: the community, the task that is about to release
\* it, or the task that has just allocated it.  So nobody releases a route
\* twice, or one that is being served (keepalive_refresh_route takes route_id
\* out under the write lock for that).
OneHolder ==
    /\ \A t \in Task : route_id \notin Held(t)
    /\ \A t, u \in Task : t # u => Held(t) \cap Held(u) = {}
    /\ route_id \notin freed

\* Once the faults are over, a hosted community is found through the DHT again
\* and again: the published route is the served one, and it is alive.
Reachable == hosted => dht = route_id /\ route_id \in live
\* (The keepalive loop repairs what overlapping tasks and lost RouteChange
\* events have left; the retry task gives up after a few attempts.)
Recovers == []<>Reachable
=============================================================================
