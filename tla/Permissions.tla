------------------------------ MODULE Permissions ------------------------------
(***************************************************************************)
(* permissions::calculate_permissions of rekindle-protocol                 *)
(* (dht/community.rs).  A u64 mask is the set of its bits: | is \cup,      *)
(* & !x is \ x.  Role definitions are a function from the existing role    *)
(* ids to records, the overwrites of a channel a set of records with at    *)
(* most one per target.                                                    *)
(***************************************************************************)
CONSTANTS Permission, EveryoneId

\* Bits the code names; the instance may leave out those no property tells
\* apart.
Administrator == "ADMINISTRATOR"
ViewChannel   == "VIEW_CHANNEL"
MutedBits == {"SEND_MESSAGES", "ADD_REACTIONS", "SPEAK", "STREAM", "CREATE_INSTANT_INVITE"}

RoleTarget(r)   == [type |-> "role", id |-> r]
MemberTarget(p) == [type |-> "member", id |-> p]

Holds(role_ids, roles) == (role_ids \cup {EveryoneId}) \cap DOMAIN roles

\* Steps 1 and 2.
BasePermissions(role_ids, roles) ==
    UNION {roles[r].permissions : r \in Holds(role_ids, roles)}

\* Deny first, then allow.
Apply(permissions, ows) ==
    (permissions \ UNION {ow.deny : ow \in ows}) \cup UNION {ow.allow : ow \in ows}

Aimed(overwrites, targets) == {ow \in overwrites : ow.target \in targets}

ForRoles(overwrites, role_ids) ==
    Aimed(overwrites, {RoleTarget(r) : r \in role_ids \ {EveryoneId}})

\* Steps 4 to 6.
ApplyOverwrites(permissions, overwrites, role_ids, p) ==
    Apply(Apply(Apply(permissions, Aimed(overwrites, {RoleTarget(EveryoneId)})),
                ForRoles(overwrites, role_ids)),
          Aimed(overwrites, {MemberTarget(p)}))

\* Steps 7 and 8.
Mute(permissions, timedOut) == IF timedOut THEN permissions \ MutedBits ELSE permissions
Hide(permissions) == IF ViewChannel \in permissions THEN permissions ELSE {}

\* Variant: the timeout is applied before the overwrites.
CalculateMuteFirst(role_ids, roles, overwrites, p, timedOut) ==
    LET base == BasePermissions(role_ids, roles) IN
    IF Administrator \in base THEN Permission
    ELSE Hide(ApplyOverwrites(Mute(base, timedOut), overwrites, role_ids, p))

Calculate(role_ids, roles, overwrites, p, timedOut) ==
    LET base == BasePermissions(role_ids, roles) IN
    IF Administrator \in base THEN Permission  \* step 3
    ELSE Hide(Mute(ApplyOverwrites(base, overwrites, role_ids, p), timedOut))

-----------------------------------------------------------------------------
(* The doc comment of calculate_permissions, read as a definition: its step 5 *)
(* is "OR allow, then AND NOT deny", so a deny has the last word among the    *)
(* overwrites for roles.  The code does it the other way round.               *)

ApplyAsDocumented(permissions, ows) ==
    (permissions \cup UNION {ow.allow : ow \in ows}) \ UNION {ow.deny : ow \in ows}

AsDocumented(role_ids, roles, overwrites, p, timedOut) ==
    LET base  == BasePermissions(role_ids, roles)
        every == Apply(base, Aimed(overwrites, {RoleTarget(EveryoneId)}))
        role  == ApplyAsDocumented(every, ForRoles(overwrites, role_ids))
        mine  == Apply(role, Aimed(overwrites, {MemberTarget(p)}))
    IN  IF Administrator \in base THEN Permission ELSE Hide(Mute(mine, timedOut))

-----------------------------------------------------------------------------
(* What the code decides, permission by permission: the most specific      *)
(* overwrite that mentions it counts, an allow beats a deny of the same    *)
(* rank, and without any the roles decide.                                 *)

Mentions(ows, perm) == \E ow \in ows : perm \in ow.allow \cup ow.deny
Allows(ows, perm)   == \E ow \in ows : perm \in ow.allow

Granted(role_ids, roles, overwrites, p, perm) ==
    LET mine  == Aimed(overwrites, {MemberTarget(p)})
        role  == ForRoles(overwrites, role_ids)
        every == Aimed(overwrites, {RoleTarget(EveryoneId)})
    IN  \/ Mentions(mine, perm) /\ Allows(mine, perm)
        \/ ~Mentions(mine, perm) /\ Mentions(role, perm) /\ Allows(role, perm)
        \/ ~Mentions(mine, perm) /\ ~Mentions(role, perm) /\ Mentions(every, perm)
              /\ Allows(every, perm)
        \/ ~Mentions(mine \cup role \cup every, perm)
              /\ perm \in BasePermissions(role_ids, roles)

Effective(role_ids, roles, overwrites, p, timedOut, perm) ==
    \/ Administrator \in BasePermissions(role_ids, roles)
    \/ /\ Granted(role_ids, roles, overwrites, p, ViewChannel)
       /\ Granted(role_ids, roles, overwrites, p, perm)
       /\ timedOut => perm \notin MutedBits
=============================================================================
