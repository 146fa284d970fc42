--------------------------- MODULE CommunityCache ---------------------------
(***************************************************************************)
(* What the client of one member keeps of ONE community - role             *)
(* definitions, its own role ids, channels, and the rows of the members -  *)
(* against the server's state (src-tauri: commands/community.rs,           *)
(* veilid_service.rs, presence_service.rs, sync_service.rs, auth.rs).      *)
(*                                                                         *)
(* Memory (CommunityState) and the tables are both written, one after the  *)
(* other, by two tasks: a command of the user, once the server has         *)
(* answered, and the dispatch loop, for broadcasts and for changes of the  *)
(* watched DHT record.  A third, the sync loop, replaces the channels in   *)
(* memory.  Both read the record with get_value, which does not force a    *)
(* refresh: they see the copy that the client's own Veilid node has, and   *)
(* only a watch brings that up to date.  Broadcasts carry no version.  The *)
(* server serves each request in one step, as CommunityRoles does in       *)
(* detail.                                                                 *)
(***************************************************************************)
EXTENDS Integers, Sequences, FiniteSets, SequencesExt

CONSTANTS
    Channel,      \* channel ids that may be drawn, here or on the server
    MaxRole, MaxPosition,   \* bounds on role ids and positions
    MaxChanges,   \* bound on requests and restarts
    MaxAir,       \* bound on broadcasts in flight
    Upsets,       \* kinds of upset that happen
    MaxUpsets     \* bound: how many of these kinds happen in one behaviour

\* lost: a broadcast or a change of the record does not arrive, or the watch ends;
\* overtaken: broadcasts arrive out of order, or before the roster is published;
\* crossed: a broadcast or change is handled while a
\* command is under way; failed: a call fails; restart; reused: a new role gets
\* the id of a deleted one.
UpsetKinds == {"lost", "overtaken", "crossed", "failed", "restart", "reused"}

ASSUME CacheBounds ==
    /\ Channel # {} /\ MaxRole \in Nat \ {0} /\ MaxPosition \in Nat \ {0}
    /\ MaxChanges \in Nat /\ MaxAir \in Nat /\ MaxUpsets \in Nat
    /\ Upsets \subseteq UpsetKinds

VARIABLES
    \* --- the server
    server,     \* HostedCommunity: roles, role ids, timeouts, channels, roster;
                \* top is the highest role id ever given
    published,  \* its DHT record: the channel list and the roster
    air,        \* broadcasts on their way to this client, oldest first
    \* --- the client
    node,       \* its Veilid node: the copy it has of the record; does it watch it,
                \* did it create it (communities.is_hosted)?
    changed,    \* subkeys whose change the node has reported, not handled yet
    memory,     \* CommunityState
    table,      \* community_roles, communities.my_role_ids, channels, community_members
    command,    \* the command under way
    task,       \* what the dispatch loop is doing
    changes, upsets

client == <<memory, table, command, task>>
vars == <<server, published, air, node, changed, client, changes, upsets>>

-----------------------------------------------------------------------------
(* Types.                                                                  *)

RoleId == 0..MaxRole
Position == 0..MaxPosition
Person == {"me", "you"}
Placed == UNION {[S -> Position] : S \in SUBSET RoleId}   \* id -> position

\* Of a definition, id and position are kept: names, colours and permissions
\* are replaced and edited along with the position.  A list of definitions is
\* read by id, so it is kept as, for each id, the positions of the definitions
\* with that id in the order of the list: one, unless something went wrong.
RoleList == [RoleId -> Seq(Position)]

\* Of my_role: is it still the label "owner" of create_community, or the name
\* of a definition?
NoRow == [kept |-> FALSE, ids |-> {}, timed |-> FALSE]
RowOf(ids) == [kept |-> TRUE, ids |-> ids, timed |-> FALSE]
DefaultIds == {0, 1}
General == CHOOSE c \in Channel : TRUE   \* create_community makes it, without the server

Idle == [pc |-> "idle", of |-> [kind |-> "none"]]

\* The list that a table or a broadcast with these positions becomes.
Listed(placed) == [r \in RoleId |-> IF r \in DOMAIN placed THEN <<placed[r]>> ELSE <<>>]

\* What iter().find finds in a list: the first definition with the id.
Found(list) == [r \in {r \in RoleId : list[r] # <<>>} |-> Head(list[r])]

\* The roster that a server state publishes: it has no timeouts.
Roster(s) == [p \in s.members |-> s.held[p]]
Current == [channels |-> server.channels, members |-> Roster(server)]

\* The community has just been created, with this client as its only member, or
\* this client has just joined the one who created it.  Only join_community asks
\* for a watch, and it does not mind if there is none.  The server has no channel:
\* the first one is in the record that the creator made until the server publishes
\* its own list.
Init ==
    /\ \E members \in {{"me"}, Person} :
          server = [roles |-> [r \in {0, 1} |-> r], top |-> 1,
                    held |-> [p \in Person |-> IF p \in members THEN DefaultIds ELSE {}],
                    timed |-> {}, channels |-> {}, members |-> members]
    /\ published \in [channels : {{}, {General}}, members : {Roster(server)}]
    /\ \E watching \in BOOLEAN :
          LET created == server.members = {"me"} IN
          /\ created => ~watching
          /\ node = [copy |-> [published EXCEPT !.channels = IF created THEN {General} ELSE @],
                     watching |-> watching, created |-> created]
    /\ air = <<>> /\ changed = {}
    /\ memory = [roles |-> Listed(server.roles), ids |-> DefaultIds,
                 channels |-> node.copy.channels,
                 my_role |-> IF node.created THEN "owner" ELSE "name"]
    /\ table = [roles |-> server.roles, ids |-> DefaultIds, channels |-> node.copy.channels,
                rows |-> [p \in Person |-> IF p = "me" THEN RowOf(DefaultIds) ELSE NoRow]]
    /\ command = Idle /\ task = Idle
    \* Bound: joining, and the publication still to come, count as changes.
    /\ changes = Cardinality(server.members) - 1 + Cardinality(published.channels)
    /\ upsets = {}

Upset(kinds) ==
    /\ kinds \subseteq Upsets /\ upsets' = upsets \cup kinds
    /\ Cardinality(upsets') <= MaxUpsets

When(condition, kind) == IF condition THEN {kind} ELSE {}

-----------------------------------------------------------------------------
(* The server.  Request: what a client may ask, with the choices the       *)
(* server makes (the place of a new role, the id of a new channel).        *)

Fresh(c) == c \notin server.channels \cup published.channels \cup node.copy.channels
                     \cup memory.channels \cup table.channels

NewRole == 1 + CHOOSE m \in DOMAIN server.roles : \A r \in DOMAIN server.roles : r <= m

Request ==
    [kind : {"CreateRole"}, role : {NewRole} \cap RoleId, at : 1..MaxPosition]
      \cup [kind : {"EditRole"}, role : DOMAIN server.roles, at : Position]
      \cup [kind : {"DeleteRole"}, role : DOMAIN server.roles \ {0}]
      \cup {q \in [kind : {"AssignRole"}, who : server.members, role : DOMAIN server.roles] :
               q.role \notin server.held[q.who]}
      \cup [kind : {"UnassignRole"}, who : server.members, role : RoleId \ {0}]
      \cup [kind : {"TimeoutMember", "RemoveTimeout"}, who : server.members]
      \cup [kind : {"CreateChannel"}, channel : {c \in Channel : Fresh(c)}]
      \cup [kind : {"DeleteChannel"}, channel : server.channels]

\* What it does to HostedCommunity.
Served(q) ==
    CASE q.kind \in {"CreateRole", "EditRole"} ->
            [server EXCEPT !.roles = [r \in DOMAIN @ \cup {q.role} |->
                                         IF r = q.role THEN q.at ELSE @[r]],
                           !.top = IF q.role > @ THEN q.role ELSE @]
      [] q.kind = "DeleteRole" ->
            [server EXCEPT !.roles = [r \in DOMAIN @ \ {q.role} |-> @[r]],
                           !.held = [p \in Person |-> @[p] \ {q.role}]]
      [] q.kind = "AssignRole" -> [server EXCEPT !.held[q.who] = @ \cup {q.role}]
      [] q.kind = "UnassignRole" -> [server EXCEPT !.held[q.who] = @ \ {q.role}]
      [] q.kind = "TimeoutMember" -> [server EXCEPT !.timed = @ \cup {q.who}]
      [] q.kind = "RemoveTimeout" -> [server EXCEPT !.timed = @ \ {q.who}]
      [] q.kind = "CreateChannel" -> [server EXCEPT !.channels = @ \cup {q.channel}]
      [] q.kind = "DeleteChannel" -> [server EXCEPT !.channels = @ \ {q.channel}]

\* What it tells the members, the sender of the request included.
Told(q) ==
    CASE q.kind \in {"CreateRole", "EditRole", "DeleteRole"} ->
            <<[kind |-> "RolesChanged", roles |-> server'.roles]>>
      [] q.kind \in {"AssignRole", "UnassignRole"} ->
            <<[kind |-> "MemberRolesChanged", who |-> q.who, ids |-> server'.held[q.who]]>>
      [] q.kind \in {"TimeoutMember", "RemoveTimeout"} ->
            <<[kind |-> "MemberTimedOut", who |-> q.who, timed |-> q.who \in server'.timed]>>
      [] OTHER -> <<>>

\* rpc.rs calls the handler, broadcasts, and answers.
Serve(q) ==
    /\ changes < MaxChanges /\ changes' = changes + 1
    /\ server' = Served(q)
    /\ air' = air \o Told(q) /\ Len(air') <= MaxAir
    /\ UNCHANGED <<published, node, changed>>

Recycles(q) == When(q.kind = "CreateRole" /\ q.role <= server.top, "reused")

\* A request of somebody else, or one of this client whose answer is lost.
OthersDo ==
    /\ \E q \in Request : Serve(q) /\ Upset(Recycles(q))
    /\ UNCHANGED client

\* publish_channels, publish_member_roster.  A watching node stores the new value
\* and reports the change.
Put(subkey, value) ==
    /\ published' = [published EXCEPT ![subkey] = value]
    /\ IF node.watching THEN /\ node' = [node EXCEPT !.copy[subkey] = value]
                             /\ changed' = changed \cup {subkey}
                        ELSE UNCHANGED <<node, changed>>

\* handle_join, handle_leave (and handle_kick): the roster is published, then the
\* other members are told.
Admits(p) ==
    /\ p \notin server.members
    /\ server' = [server EXCEPT !.members = @ \cup {p}, !.held[p] = DefaultIds]
    /\ air' = Append(air, [kind |-> "MemberJoined", who |-> p, ids |-> DefaultIds])

Removes(p) ==
    /\ p \in server.members
    /\ server' = [server EXCEPT !.members = @ \ {p}, !.held[p] = {}, !.timed = @ \ {p}]
    /\ air' = Append(air, [kind |-> "MemberRemoved", who |-> p])

MembersChange(step, kinds) ==
    /\ changes < MaxChanges /\ changes' = changes + 1
    /\ step /\ Len(air') <= MaxAir
    /\ \/ Put("members", Roster(server')) /\ Upset(kinds)
       \/ UNCHANGED <<published, node, changed>> /\ Upset(kinds \cup {"overtaken"})

ComesOrGoes ==
    /\ MembersChange(Admits("you") \/ Removes("you"), {})
    /\ UNCHANGED client

\* Would the client change anything if it were told?
Outdated(subkey) ==
    \/ node.copy[subkey] # Current[subkey]
    \/ subkey = "channels" /\ {memory.channels, table.channels} # {server.channels}
    \/ subkey = "members" /\ \E p \in server.members : table.rows[p] # RowOf(server.held[p])

\* publish_channels, a task of its own, and the keepalive of the server, which
\* publishes both lists with a new time whether they have changed or not.  A
\* report that tells a client only what it has is left out.
Publish(subkey) ==
    /\ published[subkey] # Current[subkey] \/ (node.watching /\ Outdated(subkey))
    /\ Put(subkey, Current[subkey])
    /\ UNCHANGED <<server, air, client, changes, upsets>>

\* The client does not learn of a broadcast, or of a change of the record: not
\* delivered, or not handled as the node is detached.  Or the watch ends: nobody
\* asks for it again, as try_rewatch_friend does for friends.
Lose ==
    /\ \/ \E i \in DOMAIN air : air' = RemoveAt(air, i) /\ UNCHANGED <<published, node, changed>>
       \/ \E subkey \in changed : changed' = changed \ {subkey}
                                 /\ UNCHANGED <<published, air, node>>
       \/ published' = Current /\ published' # published /\ UNCHANGED <<air, node, changed>>
       \/ /\ node.watching /\ node' = [node EXCEPT !.watching = FALSE]
          /\ UNCHANGED <<published, air, changed>>
    /\ Upset({"lost"})
    /\ UNCHANGED <<server, client, changes>>

-----------------------------------------------------------------------------
(* Commands of the user.  The server has served the request when the       *)
(* client acts on the answer: memory first, then the table.                *)

\* Variant: edit_role updates the table only.
InMemoryButEdit == {"CreateRole", "DeleteRole", "AssignRole", "UnassignRole",
                    "CreateChannel", "DeleteChannel", "GetRoles"}

InMemory == {"CreateRole", "EditRole", "DeleteRole", "AssignRole", "UnassignRole",
             "CreateChannel", "DeleteChannel", "GetRoles"}
Answered(q) ==
    command' = [pc |-> IF q.kind \in InMemory THEN "memory" ELSE "table", of |-> q]

\* A command begins while the dispatch loop is at work.
Crosses == When(task.pc # "idle", "crossed")

Command ==
    /\ command.pc = "idle"
    /\ \E q \in Request : Serve(q) /\ Answered(q) /\ Upset(Recycles(q) \cup Crosses)
    /\ UNCHANGED <<memory, table, task>>

\* remove_community_member looks at the label, which no role of the server has:
\* its names are capitalised.
Kick ==
    /\ command.pc = "idle" /\ memory.my_role = "owner"
    /\ MembersChange(Removes("you"), Crosses)
    /\ Answered([kind |-> "Kick", who |-> "you"])
    /\ UNCHANGED <<memory, table, task>>

GetRoles ==
    /\ command.pc = "idle"
    /\ changes < MaxChanges /\ changes' = changes + 1
    /\ Answered([kind |-> "GetRoles", roles |-> server.roles]) /\ Upset(Crosses)
    /\ UNCHANGED <<server, published, air, node, changed, memory, table, task>>

\* create_channel makes the channel itself when the server cannot be reached.
CreateLocally ==
    /\ command.pc = "idle"
    /\ changes < MaxChanges /\ changes' = changes + 1
    /\ \E c \in Channel :
          /\ Fresh(c)
          /\ memory' = [memory EXCEPT !.channels = @ \cup {c}]
          /\ command' = [pc |-> "table", of |-> [kind |-> "CreateChannel", channel |-> c]]
    /\ Upset({"failed"} \cup Crosses)
    /\ UNCHANGED <<server, published, air, node, changed, table, task>>

\* iter_mut().find: the first definition with the id, if there is one.
Moved(list, r, at) ==
    [list EXCEPT ![r] = IF @ = <<>> THEN @ ELSE <<at>> \o Tail(@)]

\* The steps of a command that has its answer.
Store(inTable) ==
    /\ command.pc = "table" /\ table' = inTable
    /\ command' = Idle /\ UNCHANGED memory

Apply(inMemory, inTable) ==
    \/ /\ command.pc = "memory" /\ memory' = inMemory
       /\ command' = [command EXCEPT !.pc = "table"] /\ UNCHANGED table
    \/ Store(inTable)

\* Variant: the row is written whether there is one or not.
UpdatedAnyway(who, row) == [table EXCEPT !.rows[who] = row]

\* An UPDATE of the row of somebody who has none changes nothing.
Updated(who, row) ==
    [table EXCEPT !.rows[who] = IF @.kept THEN row ELSE @]

\* "position: 0, // server will assign real position via broadcast".
CreateRole(q) ==
    /\ q.kind = "CreateRole"
    /\ Apply([memory EXCEPT !.roles[q.role] = Append(@, 0)],
             [table EXCEPT !.roles = [r \in DOMAIN @ \cup {q.role} |->
                                         IF r = q.role THEN 0 ELSE @[r]]])

\* display_role_name: my_role is a name from now on.
EditRole(q) ==
    /\ q.kind = "EditRole"
    /\ Apply([memory EXCEPT !.roles = Moved(@, q.role, q.at), !.my_role = "name"],
             [table EXCEPT !.roles = [r \in DOMAIN @ |-> IF r = q.role THEN q.at ELSE @[r]]])

\* The only place where a deleted role is taken from those who are listed with it.
DeleteRole(q) ==
    /\ q.kind = "DeleteRole"
    /\ Apply([memory EXCEPT !.roles[q.role] = <<>>, !.ids = @ \ {q.role}, !.my_role = "name"],
             [table EXCEPT !.roles = [r \in DOMAIN @ \ {q.role} |-> @[r]],
                           !.rows = [p \in Person |-> [table.rows[p] EXCEPT !.ids = @ \ {q.role}]],
                           !.ids = @ \ {q.role}])

\* These two do not touch communities.my_role_ids.
AssignRole(q) ==
    /\ q.kind = "AssignRole"
    /\ Apply(IF q.who = "me" THEN [memory EXCEPT !.ids = @ \cup {q.role}, !.my_role = "name"]
                             ELSE memory,
             Updated(q.who, [table.rows[q.who] EXCEPT !.ids = @ \cup {q.role}]))

UnassignRole(q) ==
    /\ q.kind = "UnassignRole"
    /\ Apply(IF q.who = "me" THEN [memory EXCEPT !.ids = @ \ {q.role}, !.my_role = "name"]
                             ELSE memory,
             Updated(q.who, [table.rows[q.who] EXCEPT !.ids = @ \ {q.role}]))

TimeoutMember(q) ==
    /\ q.kind = "TimeoutMember"
    /\ Store(Updated(q.who, [table.rows[q.who] EXCEPT !.timed = TRUE]))

RemoveTimeout(q) ==
    /\ q.kind = "RemoveTimeout"
    /\ Store(Updated(q.who, [table.rows[q.who] EXCEPT !.timed = FALSE]))

RemoveMember(q) ==
    /\ q.kind = "Kick"
    /\ Store([table EXCEPT !.rows[q.who] = NoRow])

CacheRoles(q) ==
    /\ q.kind = "GetRoles"
    /\ Apply([memory EXCEPT !.roles = Listed(q.roles), !.my_role = "name"],
             [table EXCEPT !.roles = q.roles])

CreateChannel(q) ==
    /\ q.kind = "CreateChannel"
    /\ Apply([memory EXCEPT !.channels = @ \cup {q.channel}],
             [table EXCEPT !.channels = @ \cup {q.channel}])

DeleteChannel(q) ==
    /\ q.kind = "DeleteChannel"
    /\ Apply([memory EXCEPT !.channels = @ \ {q.channel}],
             [table EXCEPT !.channels = @ \ {q.channel}])

Finish ==
    LET q == command.of IN
    /\ \/ CreateRole(q) \/ EditRole(q) \/ DeleteRole(q) \/ AssignRole(q) \/ UnassignRole(q)
       \/ TimeoutMember(q) \/ RemoveTimeout(q) \/ RemoveMember(q) \/ CacheRoles(q)
       \/ CreateChannel(q) \/ DeleteChannel(q)
    /\ UNCHANGED <<server, published, air, node, changed, task, changes, upsets>>

-----------------------------------------------------------------------------
(* The dispatch loop: one broadcast or change after the other.             *)

\* It comes to a command under way.
Meets == When(command.pc # "idle", "crossed")

\* Variant: the definitions that are listed are added to those in memory.
HandleRolesChangedAdding(b) ==
    /\ b.kind = "RolesChanged"
    /\ memory' = [memory EXCEPT
          !.roles = [r \in RoleId |-> IF r \in DOMAIN b.roles THEN <<b.roles[r]>> ELSE @[r]],
          !.my_role = "name"]
    /\ task' = [pc |-> "table", of |-> b]
    /\ UNCHANGED table

HandleRolesChanged(b) ==
    /\ b.kind = "RolesChanged"
    /\ memory' = [memory EXCEPT !.roles = Listed(b.roles), !.my_role = "name"]
    /\ task' = [pc |-> "table", of |-> b]
    /\ UNCHANGED table

\* Variant: nothing is written to the tables.
HandleMemberRolesChangedMemory(b) ==
    /\ b.kind = "MemberRolesChanged"
    /\ memory' = IF b.who = "me" THEN [memory EXCEPT !.ids = b.ids, !.my_role = "name"]
                                ELSE memory
    /\ UNCHANGED <<table, task>>

HandleMemberRolesChanged(b) ==
    /\ b.kind = "MemberRolesChanged"
    /\ memory' = IF b.who = "me" THEN [memory EXCEPT !.ids = b.ids, !.my_role = "name"]
                                ELSE memory
    /\ task' = [pc |-> "table", of |-> b]
    /\ UNCHANGED table

\* The others only write a row.
HandleMemberTimedOut(b) ==
    /\ b.kind = "MemberTimedOut"
    /\ table' = Updated(b.who, [table.rows[b.who] EXCEPT !.timed = b.timed])
    /\ UNCHANGED <<memory, task>>

HandleMemberJoined(b) ==   \* INSERT OR IGNORE
    /\ b.kind = "MemberJoined"
    /\ table' = [table EXCEPT !.rows[b.who] = IF @.kept THEN @ ELSE RowOf(b.ids)]
    /\ UNCHANGED <<memory, task>>

\* Variant: the row of the member who is removed stays.
HandleMemberRemovedNote(b) ==
    /\ b.kind = "MemberRemoved"
    /\ UNCHANGED <<memory, table, task>>

HandleMemberRemoved(b) ==
    /\ b.kind = "MemberRemoved"
    /\ table' = [table EXCEPT !.rows[b.who] = NoRow]
    /\ UNCHANGED <<memory, task>>

Dispatch(i) ==
    LET b == air[i] IN
    /\ task.pc = "idle"
    /\ air' = RemoveAt(air, i)
    /\ Upset(Meets \cup When(i > 1, "overtaken"))
    /\ \/ HandleRolesChanged(b) \/ HandleMemberRolesChanged(b) \/ HandleMemberTimedOut(b)
       \/ HandleMemberJoined(b) \/ HandleMemberRemoved(b)
    /\ UNCHANGED <<server, published, node, changed, command, changes>>

\* handle_community_channel_list_change: reads the record, its copy here.
HandleChannelList ==
    /\ task.pc = "idle" /\ "channels" \in changed
    /\ changed' = changed \ {"channels"}
    /\ memory' = [memory EXCEPT !.channels = node.copy.channels]
    /\ task' = [pc |-> "table", of |-> [kind |-> "Channels", channels |-> node.copy.channels]]
    /\ Upset(Meets)
    /\ UNCHANGED <<server, published, air, node, table, command, changes>>

\* handle_community_member_list_change: INSERT OR REPLACE for everybody listed,
\* which clears timeout_until; nobody is deleted.
HandleMemberList ==
    /\ task.pc = "idle" /\ "members" \in changed
    /\ changed' = changed \ {"members"}
    /\ table' = [table EXCEPT !.rows = [p \in Person |->
                    IF p \in DOMAIN node.copy.members THEN RowOf(node.copy.members[p]) ELSE @[p]]]
    /\ Upset(Meets)
    /\ UNCHANGED <<server, published, air, node, memory, command, task, changes>>

TaskTable ==
    LET b == task.of IN
    /\ task.pc = "table"
    /\ table' = CASE b.kind = "RolesChanged" -> [table EXCEPT !.roles = b.roles]
                  [] b.kind = "MemberRolesChanged" ->
                        Updated(b.who, [table.rows[b.who] EXCEPT !.ids = b.ids])
                  [] b.kind = "Channels" -> [table EXCEPT !.channels = b.channels]
    /\ task' = IF b.kind = "MemberRolesChanged" /\ b.who = "me"
               THEN [task EXCEPT !.pc = "mine"] ELSE Idle
    /\ UNCHANGED <<server, published, air, node, changed, memory, command, changes, upsets>>

\* UPDATE communities SET my_role_ids.
TaskMine ==
    /\ task.pc = "mine"
    /\ table' = [table EXCEPT !.ids = task.of.ids]
    /\ task' = Idle
    /\ UNCHANGED <<server, published, air, node, changed, memory, command, changes, upsets>>

-----------------------------------------------------------------------------
(* The sync loop, and a restart.                                           *)

\* Variant: a channel list is taken over only where there is none yet.
SyncOnce ==
    /\ node.copy.channels # {} /\ memory.channels = {}
    /\ memory' = [memory EXCEPT !.channels = node.copy.channels]
    /\ UNCHANGED <<server, published, air, node, changed, table, command, task, changes, upsets>>

\* sync_communities reads the copy, does not write the table, and ignores an
\* empty list.
Sync ==
    /\ node.copy.channels # {}
    /\ memory' = [memory EXCEPT !.channels = node.copy.channels]
    /\ UNCHANGED <<server, published, air, node, changed, table, command, task, changes, upsets>>

\* load_communities_from_db.  What was on its way or under way is lost; the node
\* has its copy on disk, but nobody asks for the watch again.
Restart ==
    /\ memory' = [roles |-> Listed(table.roles), ids |-> table.ids,
                  channels |-> table.channels, my_role |-> "name"]
    /\ air' = <<>> /\ changed' = {} /\ command' = Idle /\ task' = Idle
    /\ Upset(IF <<air, changed, command, task>> = <<<<>>, {}, Idle, Idle>>
             THEN {"restart"} ELSE {"lost"})
    /\ changes < MaxChanges /\ changes' = changes + 1
    /\ node' = [node EXCEPT !.watching = FALSE]
    /\ UNCHANGED <<server, published, table>>

Server == OthersDo \/ ComesOrGoes \/ Publish("channels") \/ Publish("members")
User == Command \/ Kick \/ GetRoles \/ CreateLocally \/ Finish
Loop == \/ \E i \in DOMAIN air : Dispatch(i)
        \/ HandleChannelList \/ HandleMemberList \/ TaskTable \/ TaskMine
Next == Server \/ Lose \/ User \/ Loop \/ Sync \/ Restart

\* A command and a handler run to their end, broadcasts in flight and reported
\* changes are taken in order, the server publishes again and again what it has,
\* and the sync loop ticks every thirty seconds.
Fairness ==
    /\ WF_vars(Publish("channels")) /\ WF_vars(Publish("members")) /\ WF_vars(Sync)
    /\ WF_vars(Finish) /\ WF_vars(TaskTable) /\ WF_vars(TaskMine)
    /\ WF_vars(air # <<>> /\ Dispatch(1)) /\ WF_vars(HandleChannelList)
    /\ WF_vars(HandleMemberList)

Spec == Init /\ [][Next]_vars /\ Fairness

-----------------------------------------------------------------------------
(* Properties.                                                             *)

Ids == SUBSET RoleId
Met(kinds) == kinds \cap upsets # {}

TypeOK ==
    /\ server.roles \in Placed /\ server.held \in [Person -> Ids]
    /\ server.timed \subseteq server.members /\ server.members \subseteq Person
    /\ \A r \in {published, node.copy} :
          r.channels \subseteq Channel /\ DOMAIN r.members \subseteq Person
    /\ memory.roles \in RoleList
    /\ memory.ids \in Ids /\ memory.channels \subseteq Channel
    /\ table.roles \in Placed /\ table.ids \in Ids /\ table.channels \subseteq Channel
    /\ \A p \in Person : table.rows[p] = NoRow \/ table.rows[p].kept
    /\ command.pc \in {"idle", "memory", "table"}
    /\ task.pc \in {"idle", "table", "mine"}
    /\ upsets \subseteq UpsetKinds

AtRest == command.pc = "idle" /\ task.pc = "idle"

\* What is in memory is what load_communities_from_db would find, as long as
\* commands and handlers take turns: the roles, each of them once, whatever is
\* lost, overtaken, or interrupted by a restart; this member's role ids once it
\* has been told of the changes, as assign_role and unassign_role leave the row
\* to the broadcast.
RestartKeepsRoles ==
    AtRest /\ ~Met({"crossed"}) =>
        /\ ~Met({"reused"}) => memory.roles = Listed(table.roles)
        /\ air = <<>> /\ ~Met({"lost"}) => memory.ids = table.ids

Faithful == ~Met({"lost", "overtaken", "crossed"})

\* Role definitions end up as the server's, in memory and in the table, if
\* broadcasts arrive in order and between commands.
RolesCatchUp ==
    <>[](Faithful => Found(memory.roles) = server.roles /\ table.roles = server.roles)

\* This member's ids end up as those the server has, except for roles that do not
\* exist: nobody is told whom a deleted role is taken from.  So do those listed
\* for others, for the creator, who hears of everything, and for whoever watches:
\* a roster read late puts back older ids, and without a watch they stay.
Existing(ids) == ids \cap DOMAIN server.roles
Informed == node.watching \/ node.created
ListedIds ==
    \A p \in server.members :
        table.rows[p].kept => Existing(table.rows[p].ids) = Existing(server.held[p])

IdsCatchUp ==
    <>[](Faithful /\ ~Met({"reused"}) =>
            /\ Existing(memory.ids) = Existing(server.held["me"])
            /\ Existing(table.ids) = Existing(server.held["me"])
            /\ Informed => ListedIds)

\* So do the members, likewise, and for the creator who of them is timed out: the
\* roster does not tell, and clears it.
MembersCatchUp ==
    <>[](Faithful /\ Informed =>
            /\ {p \in Person : table.rows[p].kept} = server.members
            /\ node.created => {p \in Person : table.rows[p].timed} = server.timed)

\* The channels shown end up as the server's if the watch lasts: in memory, unless
\* the last one was deleted, whatever is lost, crossed, created locally or
\* interrupted; in the table and after the last one too if no change is lost.
ChannelsCatchUp ==
    <>[](node.watching =>
            /\ server.channels # {} => memory.channels = server.channels
            /\ ~Met({"lost"}) => /\ memory.channels = server.channels
                                 /\ table.channels = server.channels)
=============================================================================
