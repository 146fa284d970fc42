---------------------------- MODULE CommunityRoles ----------------------------
(***************************************************************************)
(* Roles, channel overwrites and timeouts of ONE hosted community          *)
(* (rekindle-server/src/rpc.rs).  Every handler here holds hosted.write()  *)
(* from its first check to its last statement, so each is one action; what *)
(* is hard is the state that sequences of legal requests lead to, and what *)
(* a restart makes of it: statements whose errors are ignored, and rows    *)
(* that cannot be read back.  Join and leave, whose critical sections      *)
(* CommunityServer interleaves, are one action here.                       *)
(*                                                                         *)
(* A mask is stored as i64 and read back as u64, so a row whose mask has   *)
(* the top bit (TopBit, which no permission uses) is skipped when it is    *)
(* loaded.  The same happens to a time of 2^63 seconds or more (Endless).  *)
(***************************************************************************)
EXTENDS Integers

CONSTANTS
    Person,       \* pseudonyms
    Creator,      \* the first creator
    Channel,      \* ids that handle_create_channel may draw
    Grant, Place, \* the permission masks and the positions requests carry
    LastCreated,  \* the default roles that exist end with one of these
    MaxRole,      \* bound on role ids
    MaxNow,       \* bound on time
    MaxChanges    \* bound on the number of requests

Permission == {"ADMINISTRATOR", "MANAGE_ROLES", "MANAGE_CHANNELS",
               "MODERATE_MEMBERS", "VIEW_CHANNEL", "SEND_MESSAGES"}

TopBit == "TOP_BIT"

ASSUME RolesAssumption ==
    /\ Creator \in Person
    /\ Grant \subseteq SUBSET (Permission \cup {TopBit})
    /\ LastCreated \subseteq 0..4
    /\ Place \subseteq Int /\ MaxRole \in Nat /\ MaxRole >= 4
    /\ MaxNow \in Nat /\ MaxChanges \in Nat

VARIABLES
    \* --- HostedCommunity, in memory
    creator,         \* creator_pseudonym_hex, and its column
    members,         \* who is in the roster
    role_ids, timeout_until, roles,
    channels,
    overwrites,      \* channel -> its permission_overwrites
    \* --- SQLite
    server_member_roles, server_member_timeouts, server_roles,
    server_channel_overwrites,
    refused,         \* <<channel, target>> whose last request the table refused
    now, changes

memory   == <<creator, members, role_ids, timeout_until, roles, channels, overwrites>>
database == <<server_member_roles, server_member_timeouts, server_roles,
              server_channel_overwrites>>
vars == <<memory, database, refused, now, changes>>

INSTANCE Permissions WITH EveryoneId <- 0

RoleId == 0..MaxRole
Definition == [permissions : SUBSET (Permission \cup {TopBit}), position : Int]
Target == {RoleTarget(r) : r \in RoleId} \cup {MemberTarget(p) : p \in Person}

\* now + duration_seconds is a u64: it may pass 2^63, or wrap around.
NoTimeout == -1
Endless   == MaxNow + 2
Until     == 0..Endless

Loadable(mask) == TopBit \notin mask

\* create_default_roles: @everyone, Member, Moderator, Admin, Owner.
DefaultRoles ==
    LET everyone == {"VIEW_CHANNEL", "SEND_MESSAGES"}
        mod      == everyone \cup {"MODERATE_MEMBERS"}
        admin    == mod \cup {"MANAGE_CHANNELS", "MANAGE_ROLES"}
        perms(r) == CASE r \in {0, 1} -> everyone [] r = 2 -> mod [] r = 3 -> admin
                      [] r = 4 -> Permission
    IN  [r \in 0..4 |-> [permissions |-> perms(r), position |-> r]]

\* Just hosted, and some may have joined.  A crash between the INSERTs of the
\* default roles leaves the first ones only, and for good: what a later start
\* loads is not empty.
Init ==
    /\ creator = Creator
    /\ members \in {S \in SUBSET Person : Creator \in S}
    /\ role_ids = [p \in Person |-> IF p = Creator THEN 0..4
                                   ELSE IF p \in members THEN {0, 1} ELSE {}]
    /\ timeout_until = [p \in Person |-> NoTimeout]
    /\ \E last \in LastCreated : roles = [r \in 0..last |-> DefaultRoles[r]]
    /\ channels = {}
    /\ overwrites = [c \in Channel |-> {}]
    /\ server_member_roles = UNION {{p} \X role_ids[p] : p \in members}
    /\ server_member_timeouts = timeout_until
    /\ server_roles = roles
    /\ server_channel_overwrites = {} /\ refused = {}
    /\ now = 1 /\ changes = 0

-----------------------------------------------------------------------------
TimedOut(p) == now < timeout_until[p]

\* member_base_permissions, and the permissions in a channel that
\* handle_send_message calculates.
PermissionsOf(p) ==
    IF p \in members THEN Calculate(role_ids[p], roles, {}, p, TimedOut(p)) ELSE {}
PermissionsIn(p, c) == Calculate(role_ids[p], roles, overwrites[c], p, TimedOut(p))

\* check_permission.
HasPermission(p, perm) == p = creator \/ {perm, Administrator} \cap PermissionsOf(p) # {}

Positions(p) == {roles[r].position : r \in role_ids[p] \cap DOMAIN roles}
\* highest_role_position: -1 for a stranger, or without an existing role.
HighestPosition(p) ==
    IF Positions(p) = {} THEN -1 ELSE CHOOSE m \in Positions(p) : \A n \in Positions(p) : n <= m

\* check_hierarchy.
Outranks(p, t) == p = creator \/ HighestPosition(p) > HighestPosition(t)

\* verify_membership and check_permission; bound: MaxChanges requests.
Accepted(p, perm) ==
    /\ changes < MaxChanges
    /\ p = creator \/ p \in members
    /\ HasPermission(p, perm)
    /\ changes' = changes + 1

Below(p, r) == r \in DOMAIN roles /\ roles[r].position < HighestPosition(p)

-----------------------------------------------------------------------------
(* Roles.                                                                  *)

CreateRole(p) ==
    LET id == 1 + CHOOSE m \in DOMAIN roles : \A r \in DOMAIN roles : r <= m
        at == IF HighestPosition(p) - 1 > 1 THEN HighestPosition(p) - 1 ELSE 1
    IN
    /\ Accepted(p, "MANAGE_ROLES")
    \* The INSERT meets the row of a role that could not be loaded: error 500.
    /\ id \in RoleId \ DOMAIN server_roles
    /\ \E perms \in Grant :
          roles' = [r \in DOMAIN roles \cup {id} |->
                       IF r = id THEN [permissions |-> perms, position |-> at] ELSE roles[r]]
    /\ server_roles' = [r \in DOMAIN server_roles \cup {id} |->
                           IF r = id THEN roles'[id] ELSE server_roles[r]]
    /\ UNCHANGED <<creator, members, role_ids, timeout_until, channels, overwrites,
                   server_member_roles, server_member_timeouts,
                   server_channel_overwrites, refused, now>>

EditRole(p, r) ==
    /\ Accepted(p, "MANAGE_ROLES")
    /\ r \in DOMAIN roles
    /\ roles[r].position < HighestPosition(p) \/ Administrator \in PermissionsOf(p)
    /\ \E perms \in Grant \cup {roles[r].permissions}, at \in Place \cup {roles[r].position} :
          roles' = [roles EXCEPT ![r] = [permissions |-> perms, position |-> at]]
    /\ server_roles' = [server_roles EXCEPT ![r] = roles'[r]]
    /\ UNCHANGED <<creator, members, role_ids, timeout_until, channels, overwrites,
                   server_member_roles, server_member_timeouts,
                   server_channel_overwrites, refused, now>>

\* Variant: the members keep the id of the deleted role.
DeleteRoleOnly(p, r) ==
    /\ Accepted(p, "MANAGE_ROLES")
    /\ r # 0 /\ Below(p, r)
    /\ roles' = [q \in DOMAIN roles \ {r} |-> roles[q]]
    /\ server_roles' = [q \in DOMAIN server_roles \ {r} |-> server_roles[q]]
    /\ UNCHANGED <<creator, members, role_ids, timeout_until, channels, overwrites,
                   server_member_roles, server_member_timeouts,
                   server_channel_overwrites, refused, now>>

DeleteRole(p, r) ==
    /\ Accepted(p, "MANAGE_ROLES")
    /\ r # 0 /\ Below(p, r)
    /\ roles' = [q \in DOMAIN roles \ {r} |-> roles[q]]
    /\ role_ids' = [q \in Person |-> role_ids[q] \ {r}]
    /\ server_roles' = [q \in DOMAIN server_roles \ {r} |-> server_roles[q]]
    /\ server_member_roles' = {m \in server_member_roles : m[2] # r}
    /\ UNCHANGED <<creator, members, timeout_until, channels, overwrites, server_member_timeouts,
                   server_channel_overwrites, refused, now>>

AssignRole(p, t, r) ==
    /\ Accepted(p, "MANAGE_ROLES") /\ Outranks(p, t) /\ Below(p, r)
    /\ t \in members /\ r \notin role_ids[t]
    /\ role_ids' = [role_ids EXCEPT ![t] = @ \cup {r}]
    /\ server_member_roles' = server_member_roles \cup {<<t, r>>}
    /\ UNCHANGED <<creator, members, timeout_until, roles, channels, overwrites, server_roles,
                   server_member_timeouts, server_channel_overwrites, refused, now>>

UnassignRole(p, t, r) ==
    /\ Accepted(p, "MANAGE_ROLES") /\ Outranks(p, t)
    /\ t \in members /\ r # 0
    /\ role_ids' = [role_ids EXCEPT ![t] = @ \ {r}]
    /\ server_member_roles' = server_member_roles \ {<<t, r>>}
    /\ UNCHANGED <<creator, members, timeout_until, roles, channels, overwrites, server_roles,
                   server_member_timeouts, server_channel_overwrites, refused, now>>

-----------------------------------------------------------------------------
(* Channels and overwrites.                                                *)

CreateChannel(p, c) ==
    /\ Accepted(p, "MANAGE_CHANNELS")
    /\ c \notin channels
    /\ channels' = channels \cup {c}
    /\ UNCHANGED <<creator, members, role_ids, timeout_until, roles, overwrites, database,
                   refused, now>>

\* In SQLite the foreign key cascades to the overwrites.
DeleteChannel(p, c) ==
    /\ Accepted(p, "MANAGE_CHANNELS")
    /\ c \in channels
    /\ channels' = channels \ {c}
    /\ overwrites' = [overwrites EXCEPT ![c] = {}]
    /\ server_channel_overwrites' = {o \in server_channel_overwrites : o[1] # c}
    /\ refused' = {o \in refused : o[1] # c}
    /\ UNCHANGED <<creator, members, role_ids, timeout_until, roles, server_member_roles,
                   server_member_timeouts, server_roles, now>>

KeptInMemory(c, new) ==
    overwrites' = [overwrites EXCEPT ![c] = {o \in @ : o.target # new.target} \cup {new}]

Others(c, t) == {o \in server_channel_overwrites : ~(o[1] = c /\ o[2].target = t)}

\* Variant: an INSERT instead of INSERT OR REPLACE.
SetOverwriteInsert(p, c, t) ==
    /\ Accepted(p, "MANAGE_ROLES") /\ c \in channels
    /\ \E allow, deny \in Grant :
          LET new == [target |-> t, allow |-> allow, deny |-> deny] IN
          /\ KeptInMemory(c, new)
          /\ server_channel_overwrites' =
                IF \E o \in server_channel_overwrites : o[1] = c /\ o[2].target = t
                THEN server_channel_overwrites ELSE server_channel_overwrites \cup {<<c, new>>}
    /\ refused' = refused \ {<<c, t>>}
    /\ UNCHANGED <<creator, members, role_ids, timeout_until, roles, channels,
                   server_member_roles, server_member_timeouts, server_roles, now>>

\* Nothing is asked about the target.
SetOverwrite(p, c, t) ==
    /\ Accepted(p, "MANAGE_ROLES") /\ c \in channels
    /\ \E allow, deny \in Grant :
          LET new == [target |-> t, allow |-> allow, deny |-> deny] IN
          /\ KeptInMemory(c, new)
          /\ server_channel_overwrites' = Others(c, t) \cup {<<c, new>>}
    /\ refused' = refused \ {<<c, t>>}
    /\ UNCHANGED <<creator, members, role_ids, timeout_until, roles, channels,
                   server_member_roles, server_member_timeouts, server_roles, now>>

DeleteOverwrite(p, c, t) ==
    /\ Accepted(p, "MANAGE_ROLES")
    /\ overwrites' = [overwrites EXCEPT ![c] = {o \in @ : o.target # t}]
    /\ server_channel_overwrites' = Others(c, t)
    /\ refused' = refused \ {<<c, t>>}
    /\ UNCHANGED <<creator, members, role_ids, timeout_until, roles, channels,
                   server_member_roles, server_member_timeouts, server_roles, now>>

\* The two requests with a target_type other than "role" and "member": memory
\* takes it for a role, the CHECK of the table refuses the row (the error is
\* ignored), and the DELETE finds no row of that type.
MisnamedOverwrite(p, c, r) ==
    LET t == RoleTarget(r) IN
    /\ Accepted(p, "MANAGE_ROLES")
    /\ \/ /\ c \in channels
          /\ \E allow, deny \in Grant :
                KeptInMemory(c, [target |-> t, allow |-> allow, deny |-> deny])
       \/ overwrites' = [overwrites EXCEPT ![c] = {o \in @ : o.target # t}]
    /\ refused' = refused \cup {<<c, t>>}
    /\ UNCHANGED <<creator, members, role_ids, timeout_until, roles, channels, database, now>>

-----------------------------------------------------------------------------
(* Timeouts.                                                               *)

TimeoutMember(p, t) ==
    /\ Accepted(p, "MODERATE_MEMBERS") /\ Outranks(p, t)
    /\ t \in members
    /\ \E until \in Until :
          /\ timeout_until' = [timeout_until EXCEPT ![t] = until]
          /\ server_member_timeouts' = [server_member_timeouts EXCEPT ![t] = until]
    /\ UNCHANGED <<creator, members, role_ids, roles, channels, overwrites,
                   server_member_roles, server_roles, server_channel_overwrites, refused, now>>

\* No check_hierarchy here.
RemoveTimeout(p, t) ==
    /\ Accepted(p, "MODERATE_MEMBERS")
    /\ timeout_until' = [timeout_until EXCEPT ![t] = NoTimeout]
    /\ server_member_timeouts' = [server_member_timeouts EXCEPT ![t] = NoTimeout]
    /\ UNCHANGED <<creator, members, role_ids, roles, channels, overwrites,
                   server_member_roles, server_roles, server_channel_overwrites, refused, now>>

-----------------------------------------------------------------------------
(* The roster.                                                             *)

\* The ids are given whatever roles exist by now; the first in an empty roster
\* becomes the creator.
Join(p) ==
    LET first == members = {} IN
    /\ changes < MaxChanges /\ changes' = changes + 1
    /\ p \notin members
    /\ members' = members \cup {p}
    /\ creator' = IF first THEN p ELSE creator
    /\ role_ids' = [role_ids EXCEPT ![p] = IF first THEN 0..4 ELSE {0, 1}]
    /\ server_member_roles' = server_member_roles \cup ({p} \X role_ids'[p])
    /\ UNCHANGED <<timeout_until, roles, channels, overwrites, server_member_timeouts,
                   server_roles, server_channel_overwrites, refused, now>>

\* The creator may leave like everybody else, and stays the creator.  The
\* cascade takes the role and timeout rows along.
Leave(p) ==
    /\ changes < MaxChanges /\ changes' = changes + 1
    /\ p \in members \/ p = creator
    /\ members' = members \ {p}
    /\ role_ids' = [role_ids EXCEPT ![p] = {}]
    /\ timeout_until' = [timeout_until EXCEPT ![p] = NoTimeout]
    /\ server_member_roles' = {m \in server_member_roles : m[1] # p}
    /\ server_member_timeouts' = [server_member_timeouts EXCEPT ![p] = NoTimeout]
    /\ UNCHANGED <<creator, roles, channels, overwrites, server_roles,
                   server_channel_overwrites, refused, now>>

-----------------------------------------------------------------------------
(* The process ends between two requests and hosts the community again.    *)

\* load_roles_from_db; create_default_roles (INSERT OR IGNORE) when nothing
\* could be loaded.
LoadRoles ==
    LET loaded == {r \in DOMAIN server_roles : Loadable(server_roles[r].permissions)} IN
    IF loaded # {}
    THEN roles' = [r \in loaded |-> server_roles[r]] /\ UNCHANGED server_roles
    ELSE /\ roles' = DefaultRoles
         /\ server_roles' = [r \in DOMAIN server_roles \cup 0..4 |->
                                IF r \in DOMAIN server_roles THEN server_roles[r]
                                ELSE DefaultRoles[r]]

\* load_channels_from_db.
LoadOverwrites ==
    overwrites' = [c \in Channel |->
        {o[2] : o \in {x \in server_channel_overwrites :
                          x[1] = c /\ Loadable(x[2].allow) /\ Loadable(x[2].deny)}}]

\* load_members_from_db.
LoadMembers ==
    /\ role_ids' = [p \in Person |-> {r \in RoleId : <<p, r>> \in server_member_roles}]
    /\ timeout_until' = [p \in Person |->
           LET until == server_member_timeouts[p] IN
           IF until > now /\ until # Endless THEN until ELSE NoTimeout]

Restart ==
    /\ changes < MaxChanges /\ changes' = changes + 1
    /\ LoadMembers /\ LoadRoles /\ LoadOverwrites
    /\ refused' = {}
    /\ UNCHANGED <<creator, members, channels, server_member_roles, server_member_timeouts,
                   server_channel_overwrites, now>>

Tick == /\ now < MaxNow
        /\ now' = now + 1
        /\ UNCHANGED <<memory, database, refused, changes>>

Next ==
    \/ \E p \in Person :
          \/ Join(p) \/ Leave(p) \/ CreateRole(p)
          \/ \E r \in RoleId : EditRole(p, r) \/ DeleteRole(p, r)
          \/ \E t \in Person, r \in RoleId : AssignRole(p, t, r) \/ UnassignRole(p, t, r)
          \/ \E c \in Channel : CreateChannel(p, c) \/ DeleteChannel(p, c)
          \/ \E c \in Channel, t \in Target : SetOverwrite(p, c, t) \/ DeleteOverwrite(p, c, t)
          \/ \E c \in Channel, r \in RoleId : MisnamedOverwrite(p, c, r)
          \/ \E t \in Person : TimeoutMember(p, t) \/ RemoveTimeout(p, t)
    \/ Restart
    \/ Tick

Spec == Init /\ [][Next]_vars
-----------------------------------------------------------------------------
(* Properties.                                                             *)

Overwrite == [target : Target, allow : Grant, deny : Grant]

TypeOK ==
    /\ creator \in Person
    /\ members \subseteq Person
    /\ role_ids \in [Person -> SUBSET RoleId]
    /\ timeout_until \in [Person -> Until \cup {NoTimeout}]
    /\ DOMAIN roles \subseteq RoleId /\ \A r \in DOMAIN roles : roles[r] \in Definition
    /\ channels \subseteq Channel
    /\ \A c \in Channel : overwrites[c] \subseteq Overwrite

Rows(c, t) == {o[2] : o \in {x \in server_channel_overwrites : x[1] = c /\ x[2].target = t}}

\* A restart finds in SQLite what the server works with, and brings back
\* nothing else.  Exempt is only what the tables do not take or give back: an
\* overwrite whose last request named neither a role nor a member (refused),
\* and rows that cannot be loaded.
RestartChangesNothing ==
    /\ DOMAIN roles \subseteq DOMAIN server_roles
    /\ \A r \in DOMAIN server_roles :
          Loadable(server_roles[r].permissions) => r \in DOMAIN roles /\ roles[r] = server_roles[r]
    /\ server_member_roles = UNION {{p} \X role_ids[p] : p \in members}
    /\ \A c \in Channel, t \in Target : <<c, t>> \notin refused =>
          LET kept == Aimed(overwrites[c], {t}) IN
          /\ kept \subseteq Rows(c, t)
          /\ \A o \in Rows(c, t) : Loadable(o.allow) /\ Loadable(o.deny) => o \in kept
    /\ \A p \in Person : server_member_timeouts[p] # Endless =>
          (TimedOut(p) <=> server_member_timeouts[p] > now)

\* Apart from the ids that a newcomer is always given, a member never holds
\* the id of a role that has been deleted, however often the server restarts:
\* ids are reused (largest + 1), so a stale one would pick up a later role.
GivenIds(p) == IF p = creator THEN 0..4 ELSE {0, 1}

HeldRolesExist ==
    \A p \in members : role_ids[p] \ GivenIds(p) \subseteq DOMAIN server_roles

\* Whoever is timed out writes in no channel, whatever overwrites say, unless
\* it is an administrator.
TimedOutAreSilent ==
    \A p \in members, c \in channels :
        TimedOut(p) /\ "SEND_MESSAGES" \in PermissionsIn(p, c)
            => Administrator \in BasePermissions(role_ids[p], roles)

\* calculate_permissions follows the eight steps of its doc comment.
FollowsDocumentation ==
    \A p \in members, c \in channels :
        PermissionsIn(p, c) = AsDocumented(role_ids[p], roles, overwrites[c], p, TimedOut(p))
=============================================================================
