-------------------------- MODULE ServerRecordProofs --------------------------
(***************************************************************************)
(* What the server puts into the DHT record of a community, for any number *)
(* of routes, handlers, edits, faults and retries.  ServerRoutes: types,   *)
(* and that every route has one holder.  ServerPublication: types, and     *)
(* that the record never runs ahead of the server.                         *)
(***************************************************************************)
EXTENDS ServerRoutes, SequenceTheorems, TLAPS

\* What the program counter says of a task's locals: it has no route before
\* it takes or allocates one, and the retry task is in a round only while it
\* has delays left.
Counted ==
    /\ \A t \in Task : task[t].pc \in {"idle", "take", "clear", "alloc", "drop", "done"}
                          => task[t].route = NoRoute
    /\ task["retry"].pc \notin {"idle", "done"} => task["retry"].left > 0
    /\ task["retry"].pc \in {"idle", "alloc", "install", "publish", "done"}

Typed == TypeOK /\ Counted

\* A route that a task has just allocated was not released since.
Fresh == \A t \in Task : task[t].pc \in {"announce", "insert", "install"} => task[t].route \notin freed

HolderInv == Typed /\ Fresh /\ OneHolder

LEMMA UnusedIsNew ==
    ASSUME NEW r \in Unused
    PROVE  /\ r \in Route /\ r \notin {route_id, route_blob, dht} /\ r # NoRoute
           /\ \A t \in Task : r # task[t].route
BY DEF Unused, Referred, Route, NoRoute

LEMMA LocalsStep ==
    ASSUME Typed, NEW t \in Task, NEW l \in Locals, task' = [task EXCEPT ![t] = l]
    PROVE  task' \in [Task -> Locals] /\ task'[t] = l /\ \A u \in Task \ {t} : task'[u] = task[u]
BY DEF Typed, TypeOK

LEMMA PcStep ==
    ASSUME Typed, NEW t \in Task, NEW pc \in Pc, Goto(t, pc)
    PROVE  /\ task' \in [Task -> Locals]
           /\ task'[t].pc = pc /\ task'[t].route = task[t].route
           /\ task'[t].left = task[t].left
           /\ \A u \in Task \ {t} : task'[u] = task[u]
<1>1. task[t] \in Locals
  BY DEF Typed, TypeOK
<1> DEFINE l == [task[t] EXCEPT !.pc = pc]
<1>2. l \in Locals /\ l.pc = pc /\ l.route = task[t].route /\ l.left = task[t].left
  BY <1>1 DEF Locals
<1>3. task' = [task EXCEPT ![t] = l]
  BY <1>1 DEF Goto, Typed, TypeOK
<1> HIDE DEF l
<1> QED
  BY <1>2, <1>3 DEF Typed, TypeOK

LEMMA FinishStep ==
    ASSUME Typed, NEW t \in Task, Finish(t), task[t].pc \notin {"idle", "done"}
    PROVE  /\ task' \in [Task -> Locals]
           /\ task'[t].pc = "idle" /\ task'[t].route = NoRoute
           /\ \A u \in Task \ {t} : task'[u] = task[u]
<1> DEFINE left == IF t = "retry" THEN task[t].left - 1 ELSE 0
<1>1. left \in 0..Retries
  BY RouteBounds DEF Typed, TypeOK, Counted, Locals
<1>2. [Idle EXCEPT !.left = left] \in Locals
  BY <1>1 DEF Idle, Locals, Pc, Some, NoRoute
<1>3. task' = [task EXCEPT ![t] = [Idle EXCEPT !.left = left]]
  BY DEF Finish
<1> HIDE DEF left
<1> QED
  BY <1>2, <1>3 DEF Typed, TypeOK, Idle

LEMMA ResetTasks == /\ Tasks0 \in [Task -> Locals] /\ <<>> \in Seq(Route)
                    /\ \A t \in Task : Tasks0[t].pc = "idle" /\ Tasks0[t].route = NoRoute
BY RouteBounds DEF Tasks0, Locals, Idle, Pc, Some, NoRoute, Task

-----------------------------------------------------------------------------
LEMMA InitHolder == Init => HolderInv
<1> SUFFICES ASSUME Init PROVE HolderInv
  OBVIOUS
<1>1. Counted
  BY ResetTasks DEF Init, Counted, Task
<1>2. Typed
  <2>1. task \in [Task -> Locals] /\ events \in Seq(Route)
    BY ResetTasks DEF Init
  <2>2. faults \in 0..Faults
    BY RouteBounds DEF Init
  <2> QED
    BY <1>1, <2>1, <2>2 DEF Init, Typed, TypeOK, Some
<1>3. Fresh /\ OneHolder
  BY ResetTasks DEF Init, Fresh, OneHolder, Held
<1> QED
  BY <1>2, <1>3 DEF HolderInv

\* The types.
LEMMA StepTyped == Typed /\ [Next]_vars => Typed'
<1> SUFFICES ASSUME Typed, [Next]_vars PROVE Typed'
  OBVIOUS
<1>0. /\ hosted \in BOOLEAN /\ route_id \in Some /\ route_blob \in Some
      /\ task \in [Task -> Locals]
      /\ live \subseteq Route /\ freed \subseteq Route /\ events \in Seq(Route) /\ dht \in Some
      /\ faults \in 0..Faults /\ Counted
      /\ NoRoute \in Some /\ NoRoute \notin Route /\ Route \subseteq Some
      /\ {"host", "keepalive", "dispatch", "retry"} \subseteq Task
      /\ \A t \in Task : task[t] \in Locals /\ task[t].route \in Some /\ task[t].old \in Some
                           /\ task[t].left \in 0..Retries
  BY DEF Typed, TypeOK, Some, Route, NoRoute, Task, Locals
<1>f. Fault => faults' \in 0..Faults
  BY <1>0, RouteBounds DEF Fault
<1> USE DEF state, net
<1>1. CASE HostBegin
  BY <1>0, <1>1, PcStep DEF HostBegin, At, Typed, TypeOK, Counted, Pc
<1>2. CASE KeepaliveTick
  <2> DEFINE l == [task["keepalive"] EXCEPT !.pc = "take", !.old = route_blob]
  <2>1. l \in Locals /\ l.pc = "take" /\ l.route = NoRoute
    BY <1>0, <1>2 DEF KeepaliveTick, At, Locals, Pc, Counted
  <2>2. task' = [task EXCEPT !["keepalive"] = l]
    BY <1>2 DEF KeepaliveTick
  <2> HIDE DEF l
  <2> QED
    BY <1>0, <1>2, <2>1, <2>2, LocalsStep DEF KeepaliveTick, Typed, TypeOK, Counted
<1>3. CASE KeepaliveTake
  <2>1. CASE hosted
    <3> DEFINE l == [task["keepalive"] EXCEPT !.pc = "release", !.route = route_id]
    <3>1. l \in Locals /\ l.pc = "release"
      BY <1>0 DEF Locals, Pc
    <3>2. task' = [task EXCEPT !["keepalive"] = l] /\ route_id' = NoRoute
      BY <1>3, <2>1 DEF KeepaliveTake
    <3> HIDE DEF l
    <3> QED
      BY <1>0, <1>3, <3>1, <3>2, LocalsStep DEF KeepaliveTake, Typed, TypeOK, Counted
  <2>2. CASE ~hosted
    BY <1>0, <1>3, <2>2, PcStep DEF KeepaliveTake, At, Typed, TypeOK, Counted, Pc
  <2> QED
    BY <2>1, <2>2
<1>4. CASE KeepaliveRelease
  <2> DEFINE l == [task["keepalive"] EXCEPT !.pc = "alloc", !.route = NoRoute]
  <2>1. l \in Locals /\ l.pc = "alloc" /\ l.route = NoRoute
    BY <1>0 DEF Locals, Pc
  <2>2. task' = [task EXCEPT !["keepalive"] = l] /\ freed' \subseteq Route
    BY <1>0, <1>4 DEF KeepaliveRelease, Some
  <2> HIDE DEF l
  <2> QED
    BY <1>0, <1>4, <2>1, <2>2, LocalsStep DEF KeepaliveRelease, Typed, TypeOK, Counted
<1>5. CASE RouteChange
  <2>1. events' \in Seq(Route)
    BY <1>0, <1>5 DEF RouteChange
  <2>2. task' = task \/ Goto("dispatch", "clear")
    BY <1>5 DEF RouteChange
  <2> QED
    BY <1>0, <1>5, <2>1, <2>2, PcStep DEF RouteChange, At, Typed, TypeOK, Counted, Pc
<1>6. CASE RouteChangeClear
  BY <1>0, <1>6, PcStep DEF RouteChangeClear, At, Typed, TypeOK, Counted, Pc
<1>7. CASE RetryScan
  <2> DEFINE pc == IF Rounds("retry") > 0 /\ hosted /\ route_blob = NoRoute THEN "alloc" ELSE "done"
  <2>1. Goto("retry", pc) /\ pc \in Pc /\ pc \in {"alloc", "done"}
        /\ (pc = "alloc" => task["retry"].left > 0)
    BY <1>7 DEF RetryScan, Rounds, Pc
  <2> HIDE DEF pc
  <2> QED
    BY <1>0, <1>7, <2>1, PcStep DEF RetryScan, At, Typed, TypeOK, Counted
<1>8. ASSUME NEW t \in Task, Allocate(t) PROVE Typed'
  <2> PICK r \in Unused :
        /\ live' = live \cup {r} /\ freed' = freed \ {r}
        /\ task' = [task EXCEPT ![t] = [@ EXCEPT
                      !.pc = IF t = "host" THEN "announce" ELSE "install", !.route = r]]
    BY <1>8 DEF Allocate
  <2> DEFINE l == [task[t] EXCEPT !.pc = IF t = "host" THEN "announce" ELSE "install", !.route = r]
  <2>1. r \in Route
    BY UnusedIsNew
  <2>2. l \in Locals /\ l.pc \in {"announce", "install"} /\ l.left = task[t].left
        /\ (t = "retry" => l.pc = "install")
    BY <1>0, <2>1 DEF Locals, Pc
  <2>3. task' = [task EXCEPT ![t] = l]
    OBVIOUS
  <2> HIDE DEF l
  <2> QED
    BY <1>0, <1>8, <2>1, <2>2, <2>3, LocalsStep DEF Allocate, At, Typed, TypeOK, Counted
<1>9. ASSUME NEW t \in Task, AllocateFails(t) PROVE Typed'
  <2>0. At(t, "alloc") /\ faults' \in 0..Faults /\ UNCHANGED <<state, net>>
    BY <1>9, <1>f DEF AllocateFails
  <2>1. CASE t = "host"
    BY <1>0, <1>9, <2>0, <2>1, PcStep DEF AllocateFails, At, Typed, TypeOK, Counted, Pc
  <2>2. CASE t = "keepalive" /\ task[t].old # NoRoute
    <3> DEFINE l == [task[t] EXCEPT !.pc = "publish", !.route = task[t].old]
    <3>1. l \in Locals /\ l.pc = "publish"
      BY <1>0 DEF Locals, Pc
    <3>2. task' = [task EXCEPT ![t] = l]
      BY <1>9, <2>2 DEF AllocateFails
    <3> HIDE DEF l
    <3> QED
      BY <1>0, <2>0, <2>2, <3>1, <3>2, LocalsStep DEF Typed, TypeOK, Counted
  <2>3. CASE t = "retry" \/ (t = "keepalive" /\ task[t].old = NoRoute)
    <3>1. Finish(t)
      BY <1>9, <2>3 DEF AllocateFails
    <3> QED
      BY <1>0, <2>0, <2>3, <3>1, FinishStep DEF At, Typed, TypeOK, Counted
  <2>4. CASE t = "dispatch"
    BY <1>0, <1>9, <2>0, <2>4, PcStep DEF AllocateFails, At, Typed, TypeOK, Counted, Pc
  <2> QED
    BY <2>1, <2>2, <2>3, <2>4 DEF Task
<1>10. ASSUME NEW t \in Task, Install(t) PROVE Typed'
  BY <1>0, <1>10, PcStep DEF Install, At, Typed, TypeOK, Counted, Pc
<1>11. CASE RouteChangeDrop
  BY <1>0, <1>11, FinishStep DEF RouteChangeDrop, At, Typed, TypeOK, Counted
<1>12. ASSUME NEW t \in Task, Publish(t) PROVE Typed'
  BY <1>0, <1>12, <1>f, FinishStep DEF Publish, At, Typed, TypeOK, Counted
<1>13. CASE HostAnnounce
  BY <1>0, <1>13, <1>f, PcStep DEF HostAnnounce, At, Typed, TypeOK, Counted, Pc
<1>14. CASE HostInsert
  BY <1>0, <1>14, FinishStep DEF HostInsert, At, Typed, TypeOK, Counted
<1>15. CASE Unhost
  BY <1>0, <1>15, <1>f DEF Unhost, Typed, TypeOK, Counted, Some
<1>16. CASE Restart
  BY <1>0, <1>16, <1>f, ResetTasks DEF Restart, Typed, TypeOK, Counted
<1>17. ASSUME NEW r \in Route, RouteDies(r) PROVE Typed'
  BY <1>0, <1>17, <1>f DEF RouteDies, Typed, TypeOK, Counted
<1>18. CASE UNCHANGED vars
  BY <1>0, <1>18 DEF vars, Typed, TypeOK, Counted
<1> QED
  BY <1>1, <1>2, <1>3, <1>4, <1>5, <1>6, <1>7, <1>8, <1>9, <1>10, <1>11, <1>12, <1>13, <1>14,
     <1>15, <1>16, <1>17, <1>18
     DEF Next, Round, HostStep, KeepaliveStep, DispatchStep, Task

\* Every reachable state is well typed; no retry begins without a delay left
\* (retry_failed_routes).
THEOREM RouteTypes == Spec => []TypeOK
<1>1. Init => Typed
  BY InitHolder DEF HolderInv
<1>2. Typed => TypeOK
  BY DEF Typed
<1> QED
  BY <1>1, <1>2, StepTyped, PTL DEF Spec

-----------------------------------------------------------------------------
\* The holders.

Holding == {"release", "announce", "insert", "install"}

\* Holders as the prover sees them.
LEMMA HoldersAre ==
    OneHolder <=>
        /\ \A t \in Task : task[t].pc \in Holding /\ task[t].route # NoRoute => task[t].route # route_id
        /\ \A t, u \in Task : t # u /\ {task[t].pc, task[u].pc} \subseteq Holding
                                /\ task[t].route # NoRoute => task[t].route # task[u].route
        /\ route_id \notin freed
BY DEF OneHolder, Held, Holding

\* A step after which every task holds what it held, or nothing any more.
LEMMA HoldsLess ==
    ASSUME HolderInv,
           \A t \in Task : task'[t].pc \in Holding =>
               task'[t].route = NoRoute \/ (task[t].pc \in Holding /\ task'[t].route = task[t].route
                                             /\ (task'[t].pc # "release" => task[t].pc # "release")),
           freed' \subseteq freed, NoRoute \notin freed, route_id' \in {route_id, NoRoute}
    PROVE  (Fresh /\ OneHolder)'
<1>1. Fresh'
  BY DEF HolderInv, Fresh, Holding
<1>2. OneHolder'
  BY HoldersAre DEF HolderInv, OneHolder, Held, Holding
<1> QED
  BY <1>1, <1>2

LEMMA StepHolder == HolderInv /\ [Next]_vars => HolderInv'
<1> SUFFICES ASSUME HolderInv, [Next]_vars PROVE (Fresh /\ OneHolder)'
  BY StepTyped DEF HolderInv
<1>0. /\ Typed /\ Fresh /\ OneHolder /\ Counted /\ NoRoute \notin freed
      /\ task \in [Task -> Locals]
      /\ {"host", "keepalive", "dispatch", "retry"} \subseteq Task
  BY DEF HolderInv, Typed, TypeOK, Route, NoRoute, Task
<1> USE DEF state, net
<1>1. CASE HostBegin \/ RouteChangeClear
  BY <1>0, <1>1, PcStep, HoldsLess DEF HostBegin, RouteChangeClear, Holding, Pc
<1>2. CASE KeepaliveTick
  <2> DEFINE l == [task["keepalive"] EXCEPT !.pc = "take", !.old = route_blob]
  <2>1. l.pc = "take"
    BY <1>0 DEF Locals
  <2>2. task' = [task EXCEPT !["keepalive"] = l]
    BY <1>2 DEF KeepaliveTick
  <2> HIDE DEF l
  <2> QED
    BY <1>0, <1>2, <2>1, <2>2, HoldsLess DEF KeepaliveTick, Holding
<1>3. CASE KeepaliveTake
  <2>1. CASE hosted
    <3> DEFINE l == [task["keepalive"] EXCEPT !.pc = "release", !.route = route_id]
    <3>1. l.pc = "release" /\ l.route = route_id
      BY <1>0 DEF Locals
    <3>2. task' = [task EXCEPT !["keepalive"] = l] /\ route_id' = NoRoute
      BY <1>3, <2>1 DEF KeepaliveTake
    <3> HIDE DEF l
    <3>3. /\ task'["keepalive"] = l /\ \A u \in Task \ {"keepalive"} : task'[u] = task[u]
          /\ freed' = freed
      BY <1>0, <1>3, <3>2 DEF KeepaliveTake
    <3>4. Fresh'
      BY <1>0, <3>1, <3>3 DEF Fresh
    <3>5. OneHolder'
      BY <1>0, <3>1, <3>2, <3>3 DEF OneHolder, Held
    <3> QED
      BY <3>4, <3>5
  <2>2. CASE ~hosted
    BY <1>0, <1>3, <2>2, PcStep, HoldsLess DEF KeepaliveTake, Holding, Pc
  <2> QED
    BY <2>1, <2>2
<1>4. CASE KeepaliveRelease
  <2> DEFINE old == task["keepalive"].route
             l == [task["keepalive"] EXCEPT !.pc = "alloc", !.route = NoRoute]
  <2>1. l.pc = "alloc"
    BY <1>0 DEF Locals
  <2>2. /\ task' = [task EXCEPT !["keepalive"] = l] /\ task["keepalive"].pc = "release"
        /\ freed' = freed \cup ({old} \ {NoRoute}) /\ route_id' = route_id
    BY <1>4 DEF KeepaliveRelease, At
  <2> HIDE DEF l
  <2>3. task'["keepalive"].pc = "alloc" /\ \A u \in Task \ {"keepalive"} : task'[u] = task[u]
    BY <1>0, <2>1, <2>2
  <2>4. Fresh'
    BY <1>0, <2>2, <2>3 DEF Fresh, OneHolder, Held
  <2>5. OneHolder'
    BY <1>0, <2>2, <2>3 DEF OneHolder, Held
  <2> QED
    BY <2>4, <2>5
<1>5. CASE RouteChange
  <2>1. task' = task \/ Goto("dispatch", "clear")
    BY <1>5 DEF RouteChange
  <2> QED
    BY <1>0, <1>5, <2>1, PcStep, HoldsLess DEF RouteChange, Holding, Pc
<1>6. CASE RetryScan
  <2> DEFINE pc == IF Rounds("retry") > 0 /\ hosted /\ route_blob = NoRoute THEN "alloc" ELSE "done"
  <2>1. Goto("retry", pc) /\ pc \in Pc /\ pc \in {"alloc", "done"}
    BY <1>6 DEF RetryScan, Pc
  <2> HIDE DEF pc
  <2> QED
    BY <1>0, <1>6, <2>1, PcStep, HoldsLess DEF RetryScan, Holding
<1>7. ASSUME NEW t \in Task, Allocate(t) PROVE (Fresh /\ OneHolder)'
  <2> PICK r \in Unused :
        /\ freed' = freed \ {r}
        /\ task' = [task EXCEPT ![t] = [@ EXCEPT
                      !.pc = IF t = "host" THEN "announce" ELSE "install", !.route = r]]
    BY <1>7 DEF Allocate
  <2> DEFINE l == [task[t] EXCEPT !.pc = IF t = "host" THEN "announce" ELSE "install", !.route = r]
  <2>1. r # route_id /\ r # NoRoute /\ \A u \in Task : r # task[u].route
    BY UnusedIsNew
  <2>2. l.pc \in {"announce", "install"} /\ l.route = r
    BY <1>0 DEF Locals
  <2>3. task' = [task EXCEPT ![t] = l] /\ route_id' = route_id
    BY <1>7 DEF Allocate
  <2> HIDE DEF l
  <2>4. task'[t] = l /\ \A u \in Task \ {t} : task'[u] = task[u]
    BY <1>0, <2>3
  <2>5. Fresh'
    BY <1>0, <2>2, <2>4 DEF Fresh
  <2>6. OneHolder'
    BY <1>0, <2>1, <2>2, <2>3, <2>4 DEF OneHolder, Held
  <2> QED
    BY <2>5, <2>6
<1>8. ASSUME NEW t \in Task, AllocateFails(t) PROVE (Fresh /\ OneHolder)'
  <2>0. At(t, "alloc") /\ UNCHANGED <<state, net>> /\ task[t].route = NoRoute
    BY <1>0, <1>8 DEF AllocateFails, At, Counted
  <2>1. CASE t = "host"
    BY <1>0, <1>8, <2>0, <2>1, PcStep, HoldsLess DEF AllocateFails, Holding, Pc
  <2>2. CASE t = "keepalive" /\ task[t].old # NoRoute
    <3> DEFINE l == [task[t] EXCEPT !.pc = "publish", !.route = task[t].old]
    <3>1. l.pc = "publish"
      BY <1>0 DEF Locals
    <3>2. task' = [task EXCEPT ![t] = l]
      BY <1>8, <2>2 DEF AllocateFails
    <3> HIDE DEF l
    <3> QED
      BY <1>0, <2>0, <3>1, <3>2, HoldsLess DEF Holding
  <2>3. CASE t = "retry" \/ (t = "keepalive" /\ task[t].old = NoRoute)
    <3>1. Finish(t)
      BY <1>8, <2>3 DEF AllocateFails
    <3> QED
      BY <1>0, <2>0, <3>1, FinishStep, HoldsLess DEF At, Holding
  <2>4. CASE t = "dispatch"
    BY <1>0, <1>8, <2>0, <2>4, PcStep, HoldsLess DEF AllocateFails, Holding, Pc
  <2> QED
    BY <2>1, <2>2, <2>3, <2>4 DEF Task
<1>9. ASSUME NEW t \in Task, Install(t) PROVE (Fresh /\ OneHolder)'
  <2>1. /\ task[t].pc = "install" /\ task'[t].pc = "publish"
        /\ \A u \in Task \ {t} : task'[u] = task[u]
        /\ route_id' \in {route_id, task[t].route} /\ freed' = freed
    BY <1>0, <1>9, PcStep DEF Install, At, Pc
  <2>2. Fresh'
    BY <1>0, <2>1 DEF Fresh
  <2>3. OneHolder'
    BY <1>0, <2>1 DEF OneHolder, Held, Fresh
  <2> QED
    BY <2>2, <2>3
<1>10. CASE RouteChangeDrop \/ \E t \in Task : Publish(t)
  BY <1>0, <1>10, FinishStep, HoldsLess DEF RouteChangeDrop, Publish, At, Holding
<1>11. CASE HostAnnounce
  BY <1>0, <1>11, PcStep, HoldsLess DEF HostAnnounce, At, Holding, Pc
<1>12. CASE HostInsert
  <2>1. /\ task["host"].pc = "insert" /\ task'["host"].pc = "idle"
        /\ \A u \in Task \ {"host"} : task'[u] = task[u]
        /\ route_id' = task["host"].route /\ freed' = freed
    BY <1>0, <1>12, FinishStep DEF HostInsert, At
  <2>2. Fresh'
    BY <1>0, <2>1 DEF Fresh
  <2>3. OneHolder'
    BY <1>0, <2>1 DEF OneHolder, Held, Fresh
  <2> QED
    BY <2>2, <2>3
<1>13. CASE Unhost
  <2>1. /\ task' = task /\ route_id' = NoRoute
        /\ freed' = freed \cup ({route_id} \ {NoRoute})
    BY <1>13 DEF Unhost
  <2>2. \A t \in Task : task[t].pc \in {"announce", "insert", "install"}
                          => task[t].route # route_id \/ task[t].route = NoRoute
    BY <1>0 DEF OneHolder, Held
  <2>3. Fresh'
    BY <1>0, <2>1, <2>2 DEF Fresh
  <2>4. OneHolder'
    BY <1>0, <2>1 DEF OneHolder, Held
  <2> QED
    BY <2>3, <2>4
<1>14. CASE Restart
  BY <1>0, <1>14, ResetTasks, HoldsLess DEF Restart, Holding
<1>15. CASE UNCHANGED vars \/ \E r \in Route : RouteDies(r)
  BY <1>0, <1>15, HoldsLess DEF RouteDies, vars, Holding
<1> QED
  BY <1>1, <1>2, <1>3, <1>4, <1>5, <1>6, <1>7, <1>8, <1>9, <1>10, <1>11, <1>12, <1>13, <1>14, <1>15
     DEF Next, Round, HostStep, KeepaliveStep, DispatchStep

\* However host_community, the keepalive loop, the RouteChange handler and the
\* retry task interleave, fail and restart, a route is held once: no task
\* releases the route that is being served, or one that another task holds.
THEOREM RoutesHeldOnce == Spec => []OneHolder
<1>1. HolderInv => OneHolder
  BY DEF HolderInv
<1> QED
  BY <1>1, InitHolder, StepHolder, PTL DEF Spec

-----------------------------------------------------------------------------
(* What the server publishes of itself (ServerPublication).                *)

CONSTANTS Slot, MaxEdits
VARIABLES memory, record, publishing, edits
Pub == INSTANCE ServerPublication WITH dht <- record, task <- publishing

\* Versions are counted by the requests; what is published has been one.
CountedVersions == \A k \in Pub!Subkey : memory[k] \in 1..edits + 1
Behind ==
    /\ \A k \in Pub!Subkey : record[k] <= memory[k]
    /\ \A t \in Pub!Task :
          /\ publishing[t].name <= memory["metadata"]
          /\ publishing[t].writing /\ ~Pub!AtRest(t)
                => publishing[t].data <= memory[Head(publishing[t].todo)]

RecordInv == Pub!TypeOK /\ CountedVersions /\ Behind

\* The record shows no state of the community that the server has not been in.
NeverAhead == \A k \in Pub!Subkey : record[k] <= memory[k]

LEMMA Subkeys ==
    /\ "metadata" \in Pub!Subkey
    /\ <<>> \in Seq(Pub!Subkey)
    /\ <<"metadata", "channels", "members", "mek">> \in Seq(Pub!Subkey)
    /\ <<"metadata", "channels", "members">> \in Seq(Pub!Subkey)
    /\ \A r \in Pub!Request : Pub!PublishTail(r) \in Seq(Pub!Subkey)
BY DEF Pub!Subkey, Pub!Request, Pub!PublishTail

LEMMA IdleTypes ==
    ASSUME MaxEdits \in Nat
    PROVE  Pub!Idle \in Pub!Locals /\ ~Pub!Idle.writing /\ Pub!Idle.data = 0 /\ Pub!Idle.name = 0
BY Subkeys DEF Pub!Idle, Pub!Locals, Pub!Version

LEMMA StartTypes ==
    ASSUME MaxEdits \in Nat, Pub!TypeOK, NEW t \in Pub!Task,
           NEW subkeys \in Seq(Pub!Subkey), NEW name \in Pub!Version,
           Pub!Start(t, subkeys, name)
    PROVE  /\ publishing' \in [Pub!Task -> Pub!Locals]
           /\ ~publishing'[t].writing /\ publishing'[t].name = name
           /\ \A u \in Pub!Task \ {t} : publishing'[u] = publishing[u]
<1> DEFINE l == [Pub!Idle EXCEPT !.todo = subkeys, !.name = name]
<1>1. l \in Pub!Locals /\ ~l.writing /\ l.name = name
  BY IdleTypes DEF Pub!Idle, Pub!Locals
<1>2. publishing' = [publishing EXCEPT ![t] = l]
  BY DEF Pub!Start
<1> HIDE DEF l
<1> QED
  BY <1>1, <1>2 DEF Pub!TypeOK

LEMMA InitRecord == ASSUME MaxEdits \in Nat, Faults \in Nat PROVE Pub!Init => RecordInv
<1> SUFFICES ASSUME Pub!Init PROVE RecordInv
  OBVIOUS
<1>1. Pub!TypeOK
  <2>1. publishing \in [Pub!Task -> Pub!Locals]
    BY IdleTypes DEF Pub!Init
  <2>2. /\ memory \in [Pub!Subkey -> Pub!Version] /\ record \in [Pub!Subkey -> Pub!Version]
        /\ edits \in 0..MaxEdits /\ faults \in 0..Faults
    BY DEF Pub!Init, Pub!Version
  <2> QED
    BY <2>1, <2>2 DEF Pub!Init, Pub!TypeOK
<1>2. CountedVersions /\ Behind
  BY IdleTypes, Subkeys DEF Pub!Init, CountedVersions, Behind
<1> QED
  BY <1>1, <1>2 DEF RecordInv

LEMMA StepRecord ==
    ASSUME MaxEdits \in Nat, Faults \in Nat
    PROVE  RecordInv /\ [Pub!Next]_Pub!vars => RecordInv'
<1> SUFFICES ASSUME RecordInv, [Pub!Next]_Pub!vars PROVE RecordInv'
  OBVIOUS
<1>0. /\ Pub!TypeOK /\ CountedVersions /\ Behind
      /\ \A k \in Pub!Subkey : memory[k] \in Nat /\ record[k] \in Nat /\ memory[k] \in Pub!Version
      /\ "host" \in Pub!Task /\ "keepalive" \in Pub!Task /\ Slot \subseteq Pub!Task
      /\ "metadata" \in Pub!Subkey /\ record \in [Pub!Subkey -> Pub!Version]
      /\ publishing \in [Pub!Task -> Pub!Locals]
      /\ \A t \in Pub!Task : publishing[t] \in Pub!Locals /\ publishing[t].name \in Nat
                               /\ publishing[t].data \in Nat
                               /\ publishing[t].todo \in Seq(Pub!Subkey)
  BY Subkeys DEF RecordInv, Pub!TypeOK, Pub!Version, Pub!Task, Pub!Locals
<1>f. Pub!Fault => faults' \in 0..Faults
  BY <1>0 DEF Pub!Fault, Pub!TypeOK
<1>1. ASSUME NEW s \in Slot, NEW r \in Pub!Request, Pub!Edit(s, r) PROVE RecordInv'
  <2>1. \A k \in Pub!Subkey : memory'[k] \in {memory[k], memory[k] + 1}
    BY <1>1 DEF Pub!Edit
  <2>2. edits' \in 0..MaxEdits /\ edits' = edits + 1
    BY <1>0, <1>1 DEF Pub!Edit, Pub!TypeOK
  <2>3. CountedVersions' /\ memory' \in [Pub!Subkey -> Pub!Version]
    BY <1>0, <1>1, <2>1, <2>2 DEF Pub!Edit, CountedVersions, Pub!Version, Pub!TypeOK
  <2>4. 0 \in Pub!Version
    BY DEF Pub!Version
  <2>5. /\ publishing' \in [Pub!Task -> Pub!Locals] /\ ~publishing'[s].writing /\ publishing'[s].name = 0
        /\ \A u \in Pub!Task \ {s} : publishing'[u] = publishing[u]
    BY <1>0, <1>1, <2>4, StartTypes, Subkeys DEF Pub!Edit
  <2>6. \A t \in Pub!Task : publishing[t].todo # <<>> => Head(publishing[t].todo) \in Pub!Subkey
    BY <1>0, HeadTailProperties
  <2>7. Behind'
    <3>1. \A k \in Pub!Subkey : record'[k] <= memory'[k]
      BY <1>0, <1>1, <2>1 DEF Pub!Edit, Behind
    <3>2. ASSUME NEW t \in Pub!Task
          PROVE  /\ publishing'[t].name <= memory'["metadata"]
                 /\ publishing'[t].writing /\ publishing'[t].todo # <<>>
                       => publishing'[t].data <= memory'[Head(publishing'[t].todo)]
      <4>1. CASE t = s
        <5>1. "metadata" \in Pub!Subkey /\ memory["metadata"] \in Nat
          BY <1>0
        <5>2. memory'["metadata"] \in Nat
          BY <2>1, <5>1
        <5> QED
          BY <2>5, <4>1, <5>2
      <4>2. CASE t # s
        <5>1. publishing'[t] = publishing[t]
          BY <2>5, <4>2
        <5>2. \A k \in Pub!Subkey : memory[k] <= memory'[k] /\ memory'[k] \in Nat
          BY <1>0, <2>1
        <5>3. publishing[t].name <= memory'["metadata"]
          BY <1>0, <5>2 DEF Behind
        <5>4. ASSUME publishing[t].writing, publishing[t].todo # <<>>
              PROVE  publishing[t].data <= memory'[Head(publishing[t].todo)]
          <6>1. /\ publishing[t].data <= memory[Head(publishing[t].todo)]
                /\ Head(publishing[t].todo) \in Pub!Subkey
            BY <1>0, <2>6, <5>4 DEF Behind, Pub!AtRest
          <6> QED
            BY <1>0, <5>2, <6>1
        <5> QED
          BY <5>1, <5>3, <5>4
      <4> QED
        BY <4>1, <4>2
    <3> QED
      BY <3>1, <3>2 DEF Behind, Pub!AtRest
  <2> QED
    BY <1>0, <1>1, <2>2, <2>3, <2>5, <2>7 DEF Pub!Edit, RecordInv, Pub!TypeOK
<1>2. CASE Pub!Host \/ Pub!Keepalive
  <2>0. memory' = memory /\ record' = record /\ edits' = edits /\ hosted' \in BOOLEAN
        /\ faults' \in 0..Faults
    BY <1>0, <1>2, <1>f DEF Pub!Host, Pub!Keepalive, Pub!TypeOK
  <2>1. \/ publishing' = publishing
        \/ \E t \in {"host", "keepalive"}, q \in Seq(Pub!Subkey) : Pub!Start(t, q, memory["metadata"])
    BY <1>2, Subkeys DEF Pub!Host, Pub!Keepalive
  <2>2. CASE publishing' = publishing
    BY <1>0, <2>0, <2>2 DEF RecordInv, Pub!TypeOK, CountedVersions, Behind, Pub!AtRest
  <2>3. ASSUME NEW t \in {"host", "keepalive"}, NEW q \in Seq(Pub!Subkey),
               Pub!Start(t, q, memory["metadata"])
        PROVE  RecordInv'
    <3>1. /\ publishing' \in [Pub!Task -> Pub!Locals] /\ ~publishing'[t].writing
          /\ publishing'[t].name = memory["metadata"]
          /\ \A u \in Pub!Task \ {t} : publishing'[u] = publishing[u]
      BY <1>0, <2>3, StartTypes, Subkeys
    <3>2. memory["metadata"] <= memory["metadata"]
      BY <1>0
    <3>3. Behind'
      BY <1>0, <2>0, <3>1, <3>2 DEF Behind, Pub!AtRest
    <3> QED
      BY <1>0, <2>0, <3>1, <3>3 DEF RecordInv, Pub!TypeOK, CountedVersions
  <2> QED
    BY <2>1, <2>2, <2>3
<1>3. CASE Pub!Restart
  <2>1. /\ publishing' = [t \in Pub!Task |-> Pub!Idle] /\ faults' \in 0..Faults /\ hosted' = FALSE
        /\ memory' = memory /\ record' = record /\ edits' = edits
    BY <1>3, <1>f DEF Pub!Restart
  <2>2. \A t \in Pub!Task : publishing'[t] = Pub!Idle
    BY <2>1
  <2>3. Behind'
    BY <1>0, <2>1, <2>2, IdleTypes DEF Behind, Pub!AtRest
  <2> QED
    BY <1>0, <2>1, <2>3, IdleTypes DEF RecordInv, Pub!TypeOK, CountedVersions
<1>4. ASSUME NEW t \in Pub!Task, Pub!Snapshot(t) PROVE RecordInv'
  <2> DEFINE k == Head(publishing[t].todo)
             d == IF k = "metadata" /\ t \in {"host", "keepalive"} THEN publishing[t].name ELSE memory[k]
             l == [publishing[t] EXCEPT !.writing = TRUE, !.data = d]
  <2>1. publishing[t].todo # <<>> /\ k \in Pub!Subkey
    BY <1>0, <1>4, HeadTailProperties DEF Pub!Snapshot, Pub!AtRest
  <2>2. d \in Pub!Version /\ d <= memory[k]
    BY <1>0, <2>1 DEF Behind, Pub!Locals
  <2>3. l \in Pub!Locals /\ l.todo = publishing[t].todo /\ l.data = d /\ l.name = publishing[t].name
    BY <1>0, <2>2 DEF Pub!Locals
  <2>4. publishing' = [publishing EXCEPT ![t] = l]
    BY <1>0, <1>4 DEF Pub!Snapshot, Pub!TypeOK, Pub!Locals
  <2>5. /\ publishing' \in [Pub!Task -> Pub!Locals] /\ publishing'[t] = l
        /\ \A u \in Pub!Task \ {t} : publishing'[u] = publishing[u]
    BY <1>0, <2>3, <2>4 DEF Pub!TypeOK
  <2>6. hosted' = hosted /\ memory' = memory /\ record' = record /\ edits' = edits /\ faults' = faults
    BY <1>4 DEF Pub!Snapshot
  <2> HIDE DEF d, l
  <2>7. l.name <= memory["metadata"] /\ l.data <= memory[Head(l.todo)]
    BY <1>0, <2>2, <2>3 DEF Behind
  <2>8. Behind'
    BY <1>0, <2>5, <2>6, <2>7 DEF Behind, Pub!AtRest
  <2> QED
    BY <1>0, <2>5, <2>6, <2>8 DEF RecordInv, Pub!TypeOK, CountedVersions
<1>5. ASSUME NEW t \in Pub!Task, Pub!Write(t) PROVE RecordInv'
  <2> DEFINE k == Head(publishing[t].todo)
             l == [publishing[t] EXCEPT !.todo = Tail(publishing[t].todo), !.writing = FALSE]
  <2>1. publishing[t].todo # <<>> /\ k \in Pub!Subkey /\ Tail(publishing[t].todo) \in Seq(Pub!Subkey)
    BY <1>0, <1>5, HeadTailProperties DEF Pub!Write, Pub!AtRest
  <2>2. l \in Pub!Locals /\ ~l.writing /\ l.name = publishing[t].name
    BY <1>0, <2>1 DEF Pub!Locals
  <2>3. publishing' = [publishing EXCEPT ![t] = l]
    BY <1>0, <1>5 DEF Pub!Write, Pub!TypeOK, Pub!Locals
  <2>4. /\ publishing' \in [Pub!Task -> Pub!Locals] /\ publishing'[t] = l
        /\ \A u \in Pub!Task \ {t} : publishing'[u] = publishing[u]
    BY <1>0, <2>2, <2>3 DEF Pub!TypeOK
  <2>5. hosted' = hosted /\ memory' = memory /\ edits' = edits /\ faults' \in 0..Faults
    BY <1>0, <1>5, <1>f DEF Pub!Write, Pub!TypeOK
  <2>6. publishing[t].data \in Pub!Version /\ publishing[t].data <= memory[k]
    BY <1>0, <1>5, <2>1 DEF Pub!Write, Behind, Pub!AtRest, Pub!Locals
  <2>7. record' \in [Pub!Subkey -> Pub!Version] /\ \A q \in Pub!Subkey : record'[q] <= memory[q]
    BY <1>0, <1>5, <2>1, <2>6 DEF Pub!Write, Pub!TypeOK, Behind
  <2>8. Behind'
    BY <1>0, <2>2, <2>4, <2>5, <2>7 DEF Behind, Pub!AtRest
  <2> QED
    BY <1>0, <2>4, <2>5, <2>7, <2>8 DEF RecordInv, Pub!TypeOK, CountedVersions
<1>6. ASSUME NEW k \in Pub!Subkey, Pub!Expire(k) PROVE RecordInv'
  <2>1. record' = [record EXCEPT ![k] = 0] /\ 0 \in Pub!Version /\ faults' \in 0..Faults
    BY <1>6, <1>f DEF Pub!Expire, Pub!Version
  <2> QED
    BY <1>0, <1>6, <2>1 DEF Pub!Expire, RecordInv, Pub!TypeOK, CountedVersions, Behind, Pub!AtRest
<1>7. CASE UNCHANGED Pub!vars
  BY <1>0, <1>7 DEF Pub!vars, RecordInv, Pub!TypeOK, CountedVersions, Behind, Pub!AtRest
<1> QED
  BY <1>1, <1>2, <1>3, <1>4, <1>5, <1>6, <1>7 DEF Pub!Next, Pub!Step

\* Every reachable state is well typed, with any number of handlers that
\* publish at the same time (publish_* and their callers).
THEOREM PublicationTypes == ASSUME MaxEdits \in Nat PROVE Pub!Spec => []Pub!TypeOK
<1>1. RecordInv => Pub!TypeOK
  BY DEF RecordInv
<1>2. Pub!Init => RecordInv
  BY InitRecord, RouteBounds
<1>3. RecordInv /\ [Pub!Next]_Pub!vars => RecordInv'
  BY StepRecord, RouteBounds
<1> QED
  BY <1>1, <1>2, <1>3, PTL DEF Pub!Spec

\* The record never shows what the server has not been: whatever overtakes what,
\* publish_* writes snapshots of memory, and a restart restores memory from SQLite.
THEOREM RecordBehind == ASSUME MaxEdits \in Nat PROVE Pub!Spec => []NeverAhead
<1>1. RecordInv => NeverAhead
  BY DEF RecordInv, Behind, NeverAhead
<1>2. Pub!Init => RecordInv
  BY InitRecord, RouteBounds
<1>3. RecordInv /\ [Pub!Next]_Pub!vars => RecordInv'
  BY StepRecord, RouteBounds
<1> QED
  BY <1>1, <1>2, <1>3, PTL DEF Pub!Spec
=============================================================================
