-------------------------- MODULE ServerPublication --------------------------
(***************************************************************************)
(* How the state of ONE hosted community reaches its DHT record: the       *)
(* publish tail of the request handlers, of host_community and of the      *)
(* keepalive loop.                                                         *)
(*                                                                         *)
(* Every publish_* function takes a snapshot under hosted.read(), drops    *)
(* the lock and awaits set_value, so publications of the same subkey may   *)
(* overtake each other.  What is published is abstracted to a version:     *)
(* memory[k] counts the changes of the part of HostedCommunity that subkey *)
(* k shows; all of it is in SQLite and survives a restart.                 *)
(***************************************************************************)
EXTENDS Integers, Sequences

CONSTANTS
    Slot,      \* handlers that may be publishing at the same time
    MaxEdits,  \* bound: requests that change something
    Faults     \* bound: failed DHT calls, expired subkeys, restarts

ASSUME PublicationBounds == MaxEdits \in Nat /\ Faults \in Nat
ASSUME SlotAssumption == {"host", "keepalive"} \cap Slot = {}

VARIABLES
    hosted, memory,
    dht,       \* subkey -> version in the DHT record, 0 when it has none
    task,      \* publications under way
    edits, faults

vars == <<hosted, memory, dht, task, edits, faults>>

Subkey == {"metadata", "channels", "members", "mek"}
Task == Slot \cup {"host", "keepalive"}
Version == 0..MaxEdits + 1

\* todo: the subkeys still to be published, in order; writing: the snapshot of
\* the first one has been taken; name: the community name the caller passes to
\* publish_metadata.
Idle == [todo |-> <<>>, writing |-> FALSE, data |-> 0, name |-> 0]
Locals == [todo : Seq(Subkey), writing : BOOLEAN, data : Version, name : Version]

Init ==
    /\ hosted = FALSE
    /\ memory = [k \in Subkey |-> 1] /\ dht = [k \in Subkey |-> 0]
    /\ task = [t \in Task |-> Idle]
    /\ edits = 0 /\ faults = 0

Fault == faults < Faults /\ faults' = faults + 1
AtRest(t) == task[t].todo = <<>>

Start(t, subkeys, name) ==
    task' = [task EXCEPT ![t] = [Idle EXCEPT !.todo = subkeys, !.name = name]]

\* Variant: handle_leave publishes the roster only.
PublishTailRoster(request) ==
    CASE request \in {"Join", "Leave"} -> <<"members">>
      [] request = "RotateMEK"       -> <<"mek">>
      [] request = "Channel"         -> <<"channels">>
      [] request = "UpdateCommunity" -> <<"metadata">>
      [] request = "AssignRole"      -> <<>>

\* The publish calls at the end of each handler that changes what is shown.
PublishTail(request) ==
    CASE request = "Join"            -> <<"members">>
      [] request = "Leave"           -> <<"members", "mek">>
      [] request = "RotateMEK"       -> <<"mek">>
      [] request = "Channel"         -> <<"channels">>
      [] request = "UpdateCommunity" -> <<"metadata">>
      [] request = "AssignRole"      -> <<>>

Changes(request) ==
    CASE request = "Join"            -> {"members"}
      [] request = "Leave"           -> {"members", "mek"}
      [] request = "RotateMEK"       -> {"mek"}
      [] request = "Channel"         -> {"channels"}
      [] request = "UpdateCommunity" -> {"metadata"}
      [] request = "AssignRole"      -> {"members"}

Request == {"Join", "Leave", "RotateMEK", "Channel", "UpdateCommunity", "AssignRole"}

\* A handler has changed memory and the database, and goes on to publish.
Edit(s, request) ==
    /\ hosted /\ AtRest(s) /\ edits < MaxEdits
    /\ memory' = [k \in Subkey |-> IF k \in Changes(request) THEN memory[k] + 1 ELSE memory[k]]
    /\ edits' = edits + 1
    /\ Start(s, PublishTail(request), 0)
    /\ UNCHANGED <<hosted, dht, faults>>

\* host_community inserts the community and publishes everything, if it could
\* open the record; the name is the one it was called with.
Host ==
    /\ ~hosted /\ AtRest("host")
    /\ hosted' = TRUE
    /\ \/ Start("host", <<"metadata", "channels", "members", "mek">>, memory["metadata"])
          /\ UNCHANGED faults
       \/ Fault /\ UNCHANGED task
    /\ UNCHANGED <<memory, dht, edits>>

\* Variant: the roster is left to the handlers that change it.
KeepaliveWithoutMembers ==
    /\ hosted /\ AtRest("keepalive")
    /\ Start("keepalive", <<"metadata", "channels">>, memory["metadata"])
    /\ UNCHANGED <<hosted, memory, dht, edits, faults>>

\* One tick of dht_keepalive_loop with the record opened; the name is read
\* from the database now and published after several awaits.
Keepalive ==
    /\ hosted /\ AtRest("keepalive")
    /\ Start("keepalive", <<"metadata", "channels", "members">>, memory["metadata"])
    /\ UNCHANGED <<hosted, memory, dht, edits, faults>>

\* publish_*: the snapshot.  The handler of UpdateCommunity reads the name it
\* passes in a critical section of its own; the others pass an older one.
Snapshot(t) ==
    LET k == Head(task[t].todo) IN
    /\ ~AtRest(t) /\ ~task[t].writing
    /\ task' = [task EXCEPT ![t].writing = TRUE,
                            ![t].data = IF k = "metadata" /\ t \in {"host", "keepalive"}
                                        THEN task[t].name ELSE memory[k]]
    /\ UNCHANGED <<hosted, memory, dht, edits, faults>>

\* publish_*: set_value has been carried out, or has failed and was logged.
Write(t) ==
    LET k == Head(task[t].todo) IN
    /\ ~AtRest(t) /\ task[t].writing
    /\ \/ dht' = [dht EXCEPT ![k] = task[t].data] /\ UNCHANGED faults
       \/ Fault /\ UNCHANGED dht
    /\ task' = [task EXCEPT ![t].todo = Tail(@), ![t].writing = FALSE]
    /\ UNCHANGED <<hosted, memory, edits>>

\* A subkey that nobody has refreshed for long is forgotten by the network.
Expire(k) ==
    /\ dht[k] # 0 /\ Fault
    /\ dht' = [dht EXCEPT ![k] = 0]
    /\ UNCHANGED <<hosted, memory, task, edits>>

\* The process ends and is started again.
Restart ==
    /\ hosted /\ Fault
    /\ hosted' = FALSE
    /\ task' = [t \in Task |-> Idle]
    /\ UNCHANGED <<memory, dht, edits>>

Step(t) == Snapshot(t) \/ Write(t)

Next == \/ \E s \in Slot, r \in Request : Edit(s, r)
        \/ Host \/ Keepalive \/ Restart
        \/ \E t \in Task : Step(t)
        \/ \E k \in Subkey : Expire(k)

Spec == Init /\ [][Next]_vars

\* Every await completes, the keepalive interval ticks for ever, a persisted
\* community is hosted when the process starts.
Fairness == /\ \A t \in Task : WF_vars(Step(t))
            /\ WF_vars(Keepalive) /\ WF_vars(Host)
FairSpec == Spec /\ Fairness
-----------------------------------------------------------------------------
(* Properties.                                                             *)

TypeOK ==
    /\ hosted \in BOOLEAN
    /\ memory \in [Subkey -> Version] /\ dht \in [Subkey -> Version]
    /\ task \in [Task -> Locals]
    /\ edits \in 0..MaxEdits /\ faults \in 0..Faults

\* After the last change the record shows the name, the channels and the
\* roster of the server, whatever was overtaken, lost or forgotten before, and
\* stays so: the keepalive loop rewrites these subkeys.
RecordCatchesUp ==
    <>[](\A k \in {"metadata", "channels", "members"} : dht[k] = memory[k])

\* The subkey through which clients learn of a rotation is left to the handlers:
\* it catches up as long as no call fails and no two publications of it overlap.
Publishes(t, k) == \E i \in DOMAIN task[t].todo : task[t].todo[i] = k
Overlapping(k) == \E t, u \in Task : t # u /\ Publishes(t, k) /\ Publishes(u, k)
GenerationCatchesUp ==
    [](faults = 0 /\ ~Overlapping("mek")) => <>[](dht["mek"] = memory["mek"])
=============================================================================
