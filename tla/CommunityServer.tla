--------------------------- MODULE CommunityServer ---------------------------
(***************************************************************************)
(* Membership, bans and the media encryption key (MEK) of ONE community    *)
(* hosted by rekindle-server (crates/rekindle-server/src/{rpc,             *)
(* community_host,mek}.rs).                                                *)
(*                                                                         *)
(* Every request runs in a tokio task of its own.  Tasks share the map     *)
(* `hosted` (an RwLock) and one SQLite connection (a Mutex, autocommit     *)
(* per statement), and hold neither lock from one critical section to the  *)
(* next, so a handler is modelled as one action per critical section:      *)
(* op[s] is the program counter and the locals of the request in slot s,   *)
(* host[h] those of a running host_community.  Handlers that hold          *)
(* hosted.write() from the first check to the last write are one action.   *)
(*                                                                         *)
(* The roster is a Vec<ServerMember> that join pushes to without looking   *)
(* for an earlier copy: members[p] is the sequence of the role sets of the *)
(* copies of p, in push order (find() yields the first one).               *)
(*                                                                         *)
(* The five default roles may be edited; that roles are created and        *)
(* deleted, and what the tables do with odd values, is CommunityRoles'     *)
(* subject.  The publish and broadcast tail of a handler changes nothing   *)
(* modelled here; ServerPublication models it.                             *)
(***************************************************************************)
EXTENDS Integers, FiniteSets, Sequences

CONSTANTS
    Pseudonym,   \* pseudonym keys of everyone who talks to the server
    Creator,     \* the pseudonym the owner's client passes to HostCommunity
    NoOne,       \* the empty creator_pseudonym_hex
    Slot,        \* requests that may be in flight at the same time
    Requests,    \* the kinds of request that are sent
    Named,       \* the role ids that AssignRole and UnassignRole requests name
    Edits,       \* what EditRole requests ask for: an id and its new definition
    MaxKeys,     \* bound: MEKs generated in a behaviour
    Crashes,     \* may the server process die at any moment?
    HostRace     \* may two host_community calls overlap?

RequestKinds == {"Join", "Leave", "LeaveUnhosted", "Kick", "Ban", "Unban",
                 "RequestMEK", "RotateMEK", "AssignRole", "UnassignRole", "EditRole"}

ASSUME PseudonymAssumption == Creator \in Pseudonym /\ NoOne \notin Pseudonym
ASSUME RequestsAssumption == Requests \subseteq RequestKinds

\* The bits that the handlers here ask for; a mask is the set of its bits.
Permission == {"ADMINISTRATOR", "VIEW_CHANNEL", "KICK_MEMBERS", "BAN_MEMBERS",
               "MANAGE_ROLES", "MANAGE_COMMUNITY"}

\* ROLE_EVERYONE_ID = 0, then Member, Moderator, Admin, Owner.
RoleId == 0..4
Definition == [permissions : SUBSET Permission, position : Int]

ASSUME EditsAssumption == Named \subseteq RoleId /\ Edits \subseteq RoleId \X Definition
ASSUME BoundAssumption == MaxKeys \in Nat
ASSUME SwitchAssumption == Crashes \in BOOLEAN /\ HostRace \in BOOLEAN

VARIABLES
    \* --- HostedCommunity, in memory, lost in a crash
    hosted,              \* is the community in ServerState.hosted?
    members,             \* roster: pseudonym -> sequence of role_ids
    creator,             \* creator_pseudonym_hex
    mek,                 \* current key
    \* --- SQLite, survives a crash
    row,                 \* the hosted_communities row exists
    creator_pseudonym,   \* its creator_pseudonym column
    server_members, server_member_roles, banned_members,
    server_roles,        \* role definitions; memory holds the same ones
    server_mek,
    \* --- tasks in flight
    op, host,
    \* --- observed: what left the server
    known,               \* pseudonym -> keys handed to it
    founders,            \* everyone who was ever installed as creator
    raced,               \* whose last ban was stored in the middle of a join
    keys                 \* number of keys generated

memory   == <<hosted, members, creator, mek>>
roster_db == <<server_members, server_member_roles>>
database == <<row, creator_pseudonym, server_members, server_member_roles,
              banned_members, server_roles, server_mek>>
observed == <<known, founders, raced, keys>>
vars == <<memory, database, op, host, observed>>

-----------------------------------------------------------------------------
(* Types.                                                                  *)

INSTANCE Permissions WITH EveryoneId <- 0

DefaultRoleIds == {0, 1}
OwnerRoleIds   == RoleId

\* create_default_roles.
DefaultRoles ==
    LET mod      == {"VIEW_CHANNEL", "KICK_MEMBERS"}
        admin    == mod \cup {"BAN_MEMBERS", "MANAGE_ROLES", "MANAGE_COMMUNITY"}
        perms(r) == CASE r \in {0, 1} -> {"VIEW_CHANNEL"} [] r = 2 -> mod [] r = 3 -> admin
                      [] r = 4 -> Permission
    IN  [r \in RoleId |-> [permissions |-> perms(r), position |-> r]]

Mek == [generation : Nat, key : Nat]
NoMek == [generation |-> 0, key |-> 0]

OpPc == {"idle", "rejoin", "first", "insert", "push",
         "ban", "verify", "delete", "remove"}
Op == [pc : OpPc, who : Pseudonym \cup {NoOne}, first : BOOLEAN]
IdleOp == [pc |-> "idle", who |-> NoOne, first |-> FALSE]

Hosts == {"loader", "ipc"}
HostPc == {"idle", "check", "mek", "create", "load", "setup", "insert"}
Roster == [Pseudonym -> Seq(SUBSET RoleId)]
EmptyRoster == [p \in Pseudonym |-> <<>>]
Host == [pc : HostPc, key : Pseudonym \cup {NoOne}, mek : Mek,
         members : Roster, creator : Pseudonym \cup {NoOne}]
IdleHost == [pc |-> "idle", key |-> NoOne, mek |-> NoMek,
             members |-> EmptyRoster, creator |-> NoOne]

Init ==
    /\ hosted = FALSE /\ members = EmptyRoster /\ creator = NoOne /\ mek = NoMek
    /\ row = FALSE /\ creator_pseudonym = NoOne
    /\ server_members = {} /\ server_member_roles = {} /\ banned_members = {}
    /\ server_roles = DefaultRoles
    /\ server_mek = {}
    /\ op = [s \in Slot |-> IdleOp]
    /\ host = [h \in Hosts |-> IdleHost]
    /\ known = [p \in Pseudonym |-> {}] /\ founders = {} /\ raced = {} /\ keys = 0

-----------------------------------------------------------------------------
(* Membership and permission checks.                                       *)

InRoster(p) == members[p] # <<>>
RosterIsEmpty == \A p \in Pseudonym : ~InRoster(p)
RoleIds(p) == IF InRoster(p) THEN Head(members[p]) ELSE {}

\* verify_membership: the creator passes even when it is not in the roster.
IsMember(p) == creator = p \/ InRoster(p)

\* member_base_permissions: no overwrites; a timeout takes none of these bits.
PermissionsOf(p) ==
    IF InRoster(p) THEN Calculate(RoleIds(p), server_roles, {}, p, FALSE) ELSE {}

\* check_permission.
HasPermission(p, perm) == creator = p \/ perm \in PermissionsOf(p)

\* highest_role_position: -1 for a stranger, or without roles.
Positions(p) == {server_roles[r].position : r \in RoleIds(p)}
HighestPosition(p) ==
    IF Positions(p) = {} THEN -1 ELSE CHOOSE m \in Positions(p) : \A n \in Positions(p) : n <= m

\* check_hierarchy.
Outranks(p, t) == creator = p \/ HighestPosition(p) > HighestPosition(t)

\* May p act on t with permission perm?  (self-targeting is refused)
MayModerate(p, t, perm) ==
    hosted /\ p # t /\ HasPermission(p, perm) /\ Outranks(p, t)

(* Task bookkeeping and key delivery.                                      *)

\* A join of p is past its ban check.
Joining(p) ==
    \E s \in Slot : op[s].who = p /\ op[s].pc \in {"rejoin", "first", "insert", "push"}

Begin(s, pc, p) == op' = [op EXCEPT ![s] = [IdleOp EXCEPT !.pc = pc, !.who = p]]
Goto(s, pc) == op' = [op EXCEPT ![s].pc = pc]
Reply(s)    == op' = [op EXCEPT ![s] = IdleOp]

Deliver(p, k) == known' = [known EXCEPT ![p] = @ \cup {k}]

\* Bound: a removal that has been accepted will generate one key.
Removing == {s \in Slot : op[s].pc \in {"ban", "verify", "delete", "remove"}}
KeysLeft == keys + Cardinality(Removing) < MaxKeys

\* Variant: the INSERT is forgotten.
RotateMekUnsaved ==
    /\ mek' = [generation |-> mek.generation + 1, key |-> keys + 1]
    /\ keys' = keys + 1
    /\ UNCHANGED server_mek

\* rotate_mek: next generation, fresh bytes, a plain INSERT whose failure on
\* the primary key (community_id, generation) is only logged.
RotateMek ==
    LET new == [generation |-> mek.generation + 1, key |-> keys + 1] IN
    /\ mek' = new
    /\ keys' = keys + 1
    /\ server_mek' = IF \E k \in server_mek : k.generation = new.generation
                     THEN server_mek ELSE server_mek \cup {new}

-----------------------------------------------------------------------------
(* Join: handle_join, handle_rejoin, add_new_member.                       *)

\* Variant: banned_members is not consulted.
JoinUnchecked(s, p) ==
    /\ "Join" \in Requests /\ op[s].pc = "idle" /\ hosted
    /\ Begin(s, "rejoin", p)
    /\ UNCHANGED <<memory, database, host, observed>>

JoinCheckBan(s, p) ==
    /\ "Join" \in Requests /\ op[s].pc = "idle" /\ hosted
    /\ p \notin banned_members
    /\ Begin(s, "rejoin", p)
    /\ UNCHANGED <<memory, database, host, observed>>

\* Already in the roster: the current key is returned, nothing else changes.
JoinRejoin(s) ==
    /\ op[s].pc = "rejoin"
    /\ IF hosted /\ InRoster(op[s].who)
       THEN Deliver(op[s].who, mek) /\ Reply(s)
       ELSE Goto(s, "first") /\ UNCHANGED known
    /\ UNCHANGED <<memory, database, host, founders, raced, keys>>

JoinReadFirst(s) ==
    /\ op[s].pc = "first"
    /\ op' = [op EXCEPT ![s].pc = "insert",
                        ![s].first = hosted /\ RosterIsEmpty]
    /\ UNCHANGED <<memory, database, host, observed>>

JoinRoleIds(s) == IF op[s].first THEN OwnerRoleIds ELSE DefaultRoleIds

\* The INSERT OR IGNOREs of the member row and of its role rows.
InsertMember(p, roleIds) ==
    /\ server_members' = server_members \cup {p}
    /\ server_member_roles' = server_member_roles \cup ({p} \X roleIds)

JoinInsert(s) ==
    /\ op[s].pc = "insert"
    /\ InsertMember(op[s].who, JoinRoleIds(s))
    /\ Goto(s, "push")
    /\ UNCHANGED <<memory, row, creator_pseudonym, banned_members, server_roles,
                   server_mek, host, observed>>

JoinPush(s) ==
    LET p == op[s].who IN
    /\ op[s].pc = "push"
    /\ Reply(s)
    /\ IF hosted
       THEN /\ members' = [members EXCEPT ![p] = Append(@, JoinRoleIds(s))]
            /\ Deliver(p, mek)
            /\ IF op[s].first
               THEN /\ creator' = p /\ creator_pseudonym' = p
                    /\ founders' = founders \cup {p}
               ELSE UNCHANGED <<creator, creator_pseudonym, founders>>
       ELSE UNCHANGED <<members, known, creator, creator_pseudonym, founders>>
    /\ UNCHANGED <<hosted, mek, row, roster_db, banned_members, server_roles,
                   server_mek, host, raced, keys>>

-----------------------------------------------------------------------------
(* Leave, Kick and Ban all end in handle_leave.                            *)

Leave(s, p) ==
    /\ op[s].pc = "idle" /\ KeysLeft
    /\ \/ "Leave" \in Requests /\ hosted /\ IsMember(p)
       \* Over IPC the owner's client names the community itself; while it is
       \* not hosted the membership check is skipped.
       \/ "LeaveUnhosted" \in Requests /\ ~hosted /\ p = Creator
    /\ Begin(s, "delete", p)
    /\ UNCHANGED <<memory, database, host, observed>>

Kick(s, p, t) ==
    /\ "Kick" \in Requests /\ op[s].pc = "idle" /\ KeysLeft
    /\ MayModerate(p, t, "KICK_MEMBERS")
    /\ Begin(s, "verify", t)
    /\ UNCHANGED <<memory, database, host, observed>>

Ban(s, p, t) ==
    /\ "Ban" \in Requests /\ op[s].pc = "idle" /\ KeysLeft
    /\ IsMember(p) /\ MayModerate(p, t, "BAN_MEMBERS")
    /\ Begin(s, "ban", t)
    /\ UNCHANGED <<memory, database, host, observed>>

BanInsert(s) ==
    /\ op[s].pc = "ban"
    /\ banned_members' = banned_members \cup {op[s].who}
    /\ Goto(s, "verify")
    /\ raced' = IF Joining(op[s].who) THEN raced \cup {op[s].who} ELSE raced \ {op[s].who}
    /\ UNCHANGED <<memory, row, creator_pseudonym, roster_db, server_roles,
                   server_mek, host, known, founders, keys>>

\* handle_leave called for the target of a kick or a ban.
RemoveVerify(s) ==
    /\ op[s].pc = "verify"
    /\ IF hosted /\ ~IsMember(op[s].who) THEN Reply(s) ELSE Goto(s, "delete")
    /\ UNCHANGED <<memory, database, host, observed>>

\* Variant: foreign keys are not enabled, the role rows stay.
RemoveDeleteNoCascade(s) ==
    /\ op[s].pc = "delete"
    /\ server_members' = server_members \ {op[s].who}
    /\ Goto(s, "remove")
    /\ UNCHANGED <<memory, row, creator_pseudonym, server_member_roles,
                   banned_members, server_roles, server_mek, host, observed>>

\* One DELETE; the foreign key cascades to the role rows.
RemoveDelete(s) ==
    LET p == op[s].who IN
    /\ op[s].pc = "delete"
    /\ server_members' = server_members \ {p}
    /\ server_member_roles' = {m \in server_member_roles : m[1] # p}
    /\ Goto(s, "remove")
    /\ UNCHANGED <<memory, row, creator_pseudonym, banned_members, server_roles,
                   server_mek, host, observed>>

\* Variant: the key survives the removal.
RemoveWithoutRotation(s) ==
    /\ op[s].pc = "remove"
    /\ IF hosted
       THEN members' = [members EXCEPT ![op[s].who] = <<>>]
       ELSE UNCHANGED members
    /\ Reply(s)
    /\ UNCHANGED <<hosted, creator, mek, database, host, observed>>

RemoveRetain(s) ==
    /\ op[s].pc = "remove"
    /\ IF hosted
       THEN members' = [members EXCEPT ![op[s].who] = <<>>] /\ RotateMek
       ELSE UNCHANGED <<members, mek, server_mek, keys>>
    /\ Reply(s)
    /\ UNCHANGED <<hosted, creator, row, creator_pseudonym, roster_db,
                   banned_members, server_roles, host, known, founders, raced>>

-----------------------------------------------------------------------------
(* Handlers that are one critical section.                                 *)

Unban(p, t) ==
    /\ "Unban" \in Requests /\ hosted /\ IsMember(p)
    /\ HasPermission(p, "BAN_MEMBERS")
    /\ banned_members' = banned_members \ {t}
    /\ UNCHANGED <<memory, row, creator_pseudonym, roster_db, server_roles,
                   server_mek, op, host, observed>>

\* Variant: without verify_membership.
RequestMekUnverified(p) ==
    /\ "RequestMEK" \in Requests /\ hosted
    /\ Deliver(p, mek)
    /\ UNCHANGED <<memory, database, op, host, founders, raced, keys>>

RequestMek(p) ==
    /\ "RequestMEK" \in Requests /\ hosted /\ IsMember(p)
    /\ Deliver(p, mek)
    /\ UNCHANGED <<memory, database, op, host, founders, raced, keys>>

RotateMekRequest(p) ==
    /\ "RotateMEK" \in Requests /\ hosted /\ IsMember(p) /\ KeysLeft
    /\ HasPermission(p, "MANAGE_COMMUNITY")
    /\ RotateMek
    /\ UNCHANGED <<hosted, members, creator, row, creator_pseudonym, roster_db,
                   banned_members, server_roles, op, host, known, founders, raced>>

AssignRole(p, t, r) ==
    /\ "AssignRole" \in Requests /\ hosted /\ IsMember(p)
    /\ HasPermission(p, "MANAGE_ROLES") /\ Outranks(p, t)
    /\ server_roles[r].position < HighestPosition(p)
    /\ InRoster(t) /\ r \notin RoleIds(t)
    /\ members' = [members EXCEPT ![t][1] = @ \cup {r}]
    \* INSERT OR IGNORE fails on the foreign key when t has no member row.
    /\ server_member_roles' = IF t \in server_members
                              THEN server_member_roles \cup {<<t, r>>}
                              ELSE server_member_roles
    /\ UNCHANGED <<hosted, creator, mek, row, creator_pseudonym, server_members,
                   banned_members, server_roles, server_mek, op, host, observed>>

UnassignRole(p, t, r) ==
    /\ "UnassignRole" \in Requests /\ hosted /\ IsMember(p)
    /\ r # 0 /\ HasPermission(p, "MANAGE_ROLES") /\ Outranks(p, t) /\ InRoster(t)
    /\ members' = [members EXCEPT ![t][1] = @ \ {r}]
    /\ server_member_roles' = server_member_roles \ {<<t, r>>}
    /\ UNCHANGED <<hosted, creator, mek, row, creator_pseudonym, server_members,
                   banned_members, server_roles, server_mek, op, host, observed>>

\* The definition is replaced by whatever is asked for, above one's own
\* position included.
EditRole(p, r, new) ==
    /\ "EditRole" \in Requests /\ hosted /\ IsMember(p)
    /\ HasPermission(p, "MANAGE_ROLES")
    /\ \/ server_roles[r].position < HighestPosition(p)
       \/ Administrator \in PermissionsOf(p)
    /\ server_roles' = [server_roles EXCEPT ![r] = new]
    /\ UNCHANGED <<memory, row, creator_pseudonym, roster_db, banned_members,
                   server_mek, op, host, observed>>

-----------------------------------------------------------------------------
(* host_community, called by the IPC request HostCommunity (with the       *)
(* owner's pseudonym) and by load_persisted_communities (with the          *)
(* persisted creator, possibly empty) when the process starts.             *)

HostBegin(h) ==
    /\ host[h].pc = "idle"
    /\ HostRace \/ \A g \in Hosts : host[g].pc = "idle"
    /\ h = "loader" => row /\ ~hosted
    /\ host' = [host EXCEPT ![h].pc = "check",
                            ![h].key = IF h = "loader" THEN creator_pseudonym ELSE Creator]
    /\ UNCHANGED <<memory, database, op, observed>>

HostCheck(h) ==
    /\ host[h].pc = "check"
    /\ IF hosted
       THEN host' = [host EXCEPT ![h] = IdleHost] /\ UNCHANGED row
       ELSE host' = [host EXCEPT ![h].pc = "mek"] /\ row' = TRUE
    /\ UNCHANGED <<memory, creator_pseudonym, roster_db, banned_members,
                   server_roles, server_mek, op, observed>>

\* Variant: the sort order is ascending.
HostLoadOldestMek(h) ==
    /\ host[h].pc = "mek"
    /\ IF server_mek = {}
       THEN host' = [host EXCEPT ![h].pc = "create"]
       ELSE \E k \in server_mek :
              /\ \A j \in server_mek : j.generation >= k.generation
              /\ host' = [host EXCEPT ![h].pc = "load", ![h].mek = k]
    /\ UNCHANGED <<memory, database, op, observed>>

\* Variant: a stored key is never looked for.
HostLoadNoMek(h) ==
    /\ host[h].pc = "mek"
    /\ host' = [host EXCEPT ![h].pc = "create"]
    /\ UNCHANGED <<memory, database, op, observed>>

\* load_latest_mek: ORDER BY generation DESC LIMIT 1.
HostLoadMek(h) ==
    /\ host[h].pc = "mek"
    /\ IF server_mek = {}
       THEN host' = [host EXCEPT ![h].pc = "create"]
       ELSE \E k \in server_mek :
              /\ \A j \in server_mek : j.generation <= k.generation
              /\ host' = [host EXCEPT ![h].pc = "load", ![h].mek = k]
    /\ UNCHANGED <<memory, database, op, observed>>

\* create_initial_mek: INSERT OR REPLACE of generation 1.
HostCreateMek(h) ==
    LET new == [generation |-> 1, key |-> keys + 1] IN
    /\ host[h].pc = "create"
    /\ server_mek' = {k \in server_mek : k.generation # 1} \cup {new}
    /\ keys' = keys + 1
    /\ host' = [host EXCEPT ![h].pc = "load", ![h].mek = new]
    /\ UNCHANGED <<memory, row, creator_pseudonym, roster_db, banned_members,
                   server_roles, op, known, founders, raced>>

\* load_members_from_db.
PersistedRoster ==
    [p \in Pseudonym |->
        IF p \in server_members
        THEN << {r \in RoleId : <<p, r>> \in server_member_roles} >>
        ELSE <<>>]

\* The snapshot is taken before the await on the DHT record and the route,
\* which may last a minute.
HostLoadMembers(h) ==
    /\ host[h].pc = "load"
    /\ host' = [host EXCEPT ![h].pc = "setup", ![h].members = PersistedRoster]
    /\ UNCHANGED <<memory, database, op, observed>>

\* Variant: the creator is left to join like everybody else.
MustNotRegister(h) == FALSE /\ h \in Hosts

MustRegister(h) ==
    /\ host[h].key # NoOne /\ creator_pseudonym = NoOne
    /\ host[h].members[host[h].key] = <<>>

HostRegisterCreator(h) ==
    LET p == host[h].key IN
    /\ host[h].pc = "setup"
    /\ IF MustRegister(h)
       THEN /\ InsertMember(p, OwnerRoleIds)
            /\ creator_pseudonym' = p
            /\ founders' = founders \cup {p}
            /\ host' = [host EXCEPT ![h].pc = "insert", ![h].creator = p,
                           ![h].members[p] = Append(@, OwnerRoleIds)]
       ELSE /\ host' = [host EXCEPT ![h].pc = "insert",
                                    ![h].creator = creator_pseudonym]
            /\ UNCHANGED <<roster_db, creator_pseudonym, founders>>
    /\ UNCHANGED <<memory, row, banned_members, server_roles, server_mek, op, known,
                   raced, keys>>

\* hosted.write().insert replaces whatever is there.
HostInsert(h) ==
    /\ host[h].pc = "insert"
    /\ hosted' = TRUE
    /\ members' = host[h].members
    /\ creator' = host[h].creator
    /\ mek' = host[h].mek
    /\ host' = [host EXCEPT ![h] = IdleHost]
    /\ UNCHANGED <<database, op, observed>>

-----------------------------------------------------------------------------
(* The process dies: memory and tasks are gone, committed statements stay. *)

LoseMemory ==
    /\ Crashes
    /\ hosted' = FALSE /\ members' = EmptyRoster /\ creator' = NoOne /\ mek' = NoMek
    /\ op' = [s \in Slot |-> IdleOp]
    /\ host' = [h \in Hosts |-> IdleHost]

Crash ==
    /\ LoseMemory
    /\ UNCHANGED <<database, observed>>

\* Inside a run of autocommitted INSERTs: the member row is there, and only
\* the role rows below n.
TornInsert(p, roleIds) ==
    /\ \E n \in RoleId : InsertMember(p, {r \in roleIds : r < n})
    /\ LoseMemory
    /\ UNCHANGED <<row, creator_pseudonym, banned_members, server_roles, server_mek,
                   observed>>

CrashInJoin(s) == op[s].pc = "insert" /\ TornInsert(op[s].who, JoinRoleIds(s))

\* In host_community the UPDATE of creator_pseudonym comes last.
CrashInRegister(h) ==
    /\ host[h].pc = "setup" /\ MustRegister(h)
    /\ \/ TornInsert(host[h].key, OwnerRoleIds)
       \/ /\ InsertMember(host[h].key, OwnerRoleIds)
          /\ LoseMemory
          /\ UNCHANGED <<row, creator_pseudonym, banned_members, server_roles,
                         server_mek, observed>>

-----------------------------------------------------------------------------
JoinStep(s) == \/ \E p \in Pseudonym : JoinCheckBan(s, p)
               \/ JoinRejoin(s) \/ JoinReadFirst(s) \/ JoinInsert(s) \/ JoinPush(s)

RemoveStep(s) ==
    \/ \E p \in Pseudonym : Leave(s, p)
    \/ \E p, t \in Pseudonym : Kick(s, p, t) \/ Ban(s, p, t)
    \/ BanInsert(s) \/ RemoveVerify(s) \/ RemoveDelete(s) \/ RemoveRetain(s)

AtomicStep ==
    \/ \E p \in Pseudonym : RequestMek(p) \/ RotateMekRequest(p)
    \/ \E p, t \in Pseudonym : Unban(p, t)
    \/ \E p, t \in Pseudonym, r \in Named : AssignRole(p, t, r) \/ UnassignRole(p, t, r)
    \/ \E p \in Pseudonym : \E e \in Edits : EditRole(p, e[1], e[2])

HostStep(h) == \/ HostBegin(h) \/ HostCheck(h) \/ HostLoadMek(h) \/ HostCreateMek(h)
               \/ HostLoadMembers(h) \/ HostRegisterCreator(h) \/ HostInsert(h)

CrashStep == \/ Crash
             \/ \E s \in Slot : CrashInJoin(s)
             \/ \E h \in Hosts : CrashInRegister(h)

Next == \/ \E s \in Slot : JoinStep(s) \/ RemoveStep(s)
        \/ AtomicStep
        \/ \E h \in Hosts : HostStep(h)
        \/ CrashStep

Spec == Init /\ [][Next]_vars
-----------------------------------------------------------------------------
(* Properties.                                                             *)

TypeOK ==
    /\ hosted \in BOOLEAN
    /\ members \in Roster
    /\ creator \in Pseudonym \cup {NoOne}
    /\ mek \in Mek
    /\ row \in BOOLEAN
    /\ creator_pseudonym \in Pseudonym \cup {NoOne}
    /\ server_members \subseteq Pseudonym
    /\ server_member_roles \subseteq Pseudonym \X RoleId
    /\ banned_members \subseteq Pseudonym
    /\ server_roles \in [RoleId -> Definition]
    /\ server_mek \subseteq Mek
    /\ op \in [Slot -> Op]
    /\ \A s \in Slot : op[s].pc # "idle" => op[s].who \in Pseudonym
    /\ host \in [Hosts -> Host]
    /\ known \in [Pseudonym -> SUBSET Mek]
    /\ founders \subseteq Pseudonym
    /\ raced \subseteq Pseudonym
    /\ keys \in Nat

\* Every key that ever left the server is still in server_mek: whatever was
\* encrypted with it can be read again after any number of restarts.
\* (rotate_mek stores a key before the write lock that protects it is
\* released, load_latest_mek brings the newest one back.)
DeliveredKeysPersisted ==
    \A p \in Pseudonym : known[p] \subseteq server_mek

\* A generation number names one key for ever, on the server and at every
\* member: the 409 check of handle_send_message compares numbers only, so two
\* keys under one number would make accepted messages unreadable.
GenerationNamesOneKey ==
    \A j, k \in server_mek \cup {mek} \cup UNION {known[p] : p \in Pseudonym} :
        hosted /\ j.generation = k.generation => j = k

\* The served key is the newest one in the database, so that a restart
\* continues where the server stopped.
ServedKeyIsNewest ==
    hosted => /\ mek \in server_mek
              /\ \A k \in server_mek : k.generation <= mek.generation

\* The key that protects new messages is known only to people in the roster,
\* or who have been installed as creator (verify_membership lets the creator
\* fetch it from outside the roster).
CurrentKeyHoldersBelong ==
    hosted => \A p \in Pseudonym :
                  mek \in known[p] => InRoster(p) \/ p \in founders

AtRest == \A s \in Slot : op[s].pc = "idle"

\* Whatever a restart would load is what the server is working with.
RosterMatchesDatabase ==
    hosted /\ AtRest => members = PersistedRoster

\* A kick or a ban that has been accepted and will take p out of the roster.
Expelled(p) == \E s \in Slot : op[s].who = p /\ op[s].pc \in {"verify", "delete", "remove"}

\* With any number of requests in flight, a banned pseudonym is out of the
\* roster, or a request is about to take it out.  Only a ban stored between the
\* ban check of a join and its end (raced) may be outrun by that join.
BannedAreOut ==
    hosted => \A p \in banned_members \ raced : InRoster(p) => Expelled(p)

\* The creator handed over by the owner's client is registered before anybody
\* else can get in: nobody is a member of a community it does not own yet.
CreatorFoundsFirst ==
    \A p \in Pseudonym : InRoster(p) => Creator \in founders

\* Inductive strengthening of the key properties when host_community calls do
\* not overlap: while one is under way nothing rotates the key it has loaded.
Newest(k) == k \in server_mek /\ \A j \in server_mek : j.generation <= k.generation

KeyInv ==
    /\ \A g, h \in Hosts : host[g].pc # "idle" /\ host[h].pc # "idle" => g = h
    /\ hosted => \A h \in Hosts : host[h].pc \in {"idle", "check"}
    /\ \A j, k \in server_mek : j.generation = k.generation => j = k
    /\ hosted => Newest(mek)
    /\ \A h \in Hosts : /\ host[h].pc = "create" => server_mek = {}
                        /\ host[h].pc \in {"load", "setup", "insert"} => Newest(host[h].mek)
    /\ DeliveredKeysPersisted

\* And of CurrentKeyHoldersBelong when the process does not die: nothing has
\* left the server before it first hosts the community, and whoever passes as
\* creator has been installed.
Installed(p) == p \in founders \cup {NoOne}

HolderInv ==
    /\ Installed(creator) /\ Installed(creator_pseudonym)
    /\ \A h \in Hosts : Installed(host[h].creator)
    /\ ~hosted => /\ \A p \in Pseudonym : known[p] = {}
                  /\ mek = NoMek /\ \A k \in server_mek : k.generation = 1
    /\ CurrentKeyHoldersBelong

Promise == INSTANCE MembershipKeys WITH
    Person  <- Pseudonym,
    open    <- hosted,
    inside  <- {p \in Pseudonym : InRoster(p)},
    owners  <- founders,
    epoch   <- mek.generation,
    holders <- {p \in Pseudonym : hosted /\ mek \in known[p]}

\* The handlers implement the abstract server of MembershipKeys.
KeepsPromise == Promise!ASpec
=============================================================================
