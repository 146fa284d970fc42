-------------------------- MODULE CommunityRolesProofs --------------------------
(***************************************************************************)
(* What calculate_permissions decides, for all roles, overwrites and       *)
(* timeouts, and when that is what its comment says; what the handlers and *)
(* restarts keep about roles, overwrites and timeouts after any number of  *)
(* requests.                                                               *)
(***************************************************************************)
EXTENDS CommunityRoles, TLAPS

\* One round of overwrites: who is allowed has it, who is denied and not
\* allowed loses it, the rest is as before.
LEMMA ApplyDecides ==
    ASSUME NEW permissions, NEW ows, NEW perm
    PROVE  perm \in Apply(permissions, ows)
             <=> Allows(ows, perm) \/ (perm \in permissions /\ ~Mentions(ows, perm))
<1>1. perm \in UNION {ow.allow : ow \in ows} <=> \E ow \in ows : perm \in ow.allow
  OBVIOUS
<1>2. perm \in UNION {ow.deny : ow \in ows} <=> \E ow \in ows : perm \in ow.deny
  OBVIOUS
<1> QED
  BY <1>1, <1>2 DEF Apply, Allows, Mentions

LEMMA OverwritesDecide ==
    ASSUME NEW ids, NEW defs, NEW ows, NEW p, NEW perm
    PROVE  perm \in ApplyOverwrites(BasePermissions(ids, defs), ows, ids, p)
             <=> Granted(ids, defs, ows, p, perm)
<1> DEFINE mine  == Aimed(ows, {MemberTarget(p)})
           role  == ForRoles(ows, ids)
           every == Aimed(ows, {RoleTarget(0)})
           base  == BasePermissions(ids, defs)
<1> HIDE DEF mine, role, every, base
<1>1. perm \in Apply(base, every)
        <=> Allows(every, perm) \/ (perm \in base /\ ~Mentions(every, perm))
  BY ApplyDecides
<1>2. perm \in Apply(Apply(base, every), role)
        <=> Allows(role, perm) \/ (perm \in Apply(base, every) /\ ~Mentions(role, perm))
  BY ApplyDecides
<1>3. perm \in Apply(Apply(Apply(base, every), role), mine)
        <=> Allows(mine, perm)
              \/ (perm \in Apply(Apply(base, every), role) /\ ~Mentions(mine, perm))
  BY ApplyDecides
<1>4. \A s : Allows(s, perm) => Mentions(s, perm)
  BY DEF Allows, Mentions
<1>5. Mentions(mine \cup role \cup every, perm)
        <=> Mentions(mine, perm) \/ Mentions(role, perm) \/ Mentions(every, perm)
  BY DEF Mentions
<1>6. ApplyOverwrites(base, ows, ids, p) = Apply(Apply(Apply(base, every), role), mine)
  BY DEF ApplyOverwrites, mine, role, every
<1>7. Granted(ids, defs, ows, p, perm) <=>
          \/ Mentions(mine, perm) /\ Allows(mine, perm)
          \/ ~Mentions(mine, perm) /\ Mentions(role, perm) /\ Allows(role, perm)
          \/ ~Mentions(mine, perm) /\ ~Mentions(role, perm) /\ Mentions(every, perm)
                /\ Allows(every, perm)
          \/ ~Mentions(mine \cup role \cup every, perm) /\ perm \in base
  BY DEF Granted, mine, role, every, base
<1>8. perm \in ApplyOverwrites(base, ows, ids, p) <=> Granted(ids, defs, ows, p, perm)
  BY <1>1, <1>2, <1>3, <1>4, <1>5, <1>6, <1>7
<1> QED
  BY <1>8 DEF base

\* The eight steps of calculate_permissions amount to one decision per
\* permission: administrators may everything; for others the most specific
\* overwrite that mentions it counts, nothing is left without VIEW_CHANNEL,
\* and a timeout takes the writing permissions whatever overwrites say.
THEOREM CalculationDecides ==
    ASSUME NEW ids, NEW defs, NEW ows, NEW p, NEW timedOut \in BOOLEAN,
           NEW perm \in Permission
    PROVE  perm \in Calculate(ids, defs, ows, p, timedOut)
             <=> Effective(ids, defs, ows, p, timedOut, perm)
<1> DEFINE after == ApplyOverwrites(BasePermissions(ids, defs), ows, ids, p)
<1>1. CASE Administrator \in BasePermissions(ids, defs)
  BY <1>1 DEF Calculate, Effective
<1>2. CASE Administrator \notin BasePermissions(ids, defs)
  <2>1. Calculate(ids, defs, ows, p, timedOut) = Hide(Mute(after, timedOut))
    BY <1>2 DEF Calculate
  <2>2. \A q : q \in Mute(after, timedOut) <=> q \in after /\ (timedOut => q \notin MutedBits)
    BY DEF Mute
  <2>3. perm \in Hide(Mute(after, timedOut))
          <=> ViewChannel \in Mute(after, timedOut) /\ perm \in Mute(after, timedOut)
    BY DEF Hide
  <2>4. ViewChannel \notin MutedBits
    BY DEF ViewChannel, MutedBits
  <2>5. \A q : q \in after <=> Granted(ids, defs, ows, p, q)
    BY OverwritesDecide
  <2> QED
    BY <1>2, <2>1, <2>2, <2>3, <2>4, <2>5 DEF Effective
<1> QED
  BY <1>1, <1>2

\* Where the code and its comment agree: step 5 of the comment lets a deny for
\* a role have the last word, the code an allow, and the two are one unless an
\* overwrite for one of the member's roles denies what one of them allows.
THEOREM AgreesUnlessContradictory ==
    ASSUME NEW ids, NEW defs, NEW ows, NEW p, NEW timedOut \in BOOLEAN,
           \A o1, o2 \in ForRoles(ows, ids) : o1.allow \cap o2.deny = {}
    PROVE  Calculate(ids, defs, ows, p, timedOut) = AsDocumented(ids, defs, ows, p, timedOut)
<1> DEFINE role  == ForRoles(ows, ids)
           every == Apply(BasePermissions(ids, defs), Aimed(ows, {RoleTarget(0)}))
<1> HIDE DEF role, every
<1>1. (UNION {ow.allow : ow \in role}) \cap (UNION {ow.deny : ow \in role}) = {}
  <2> SUFFICES ASSUME NEW q, q \in UNION {ow.allow : ow \in role},
                      q \in UNION {ow.deny : ow \in role}
               PROVE  FALSE
    OBVIOUS
  <2>1. PICK o1 \in role : q \in o1.allow
    OBVIOUS
  <2>2. PICK o2 \in role : q \in o2.deny
    OBVIOUS
  <2> QED
    BY <2>1, <2>2 DEF role
<1>2. Apply(every, role) = ApplyAsDocumented(every, role)
  BY <1>1 DEF Apply, ApplyAsDocumented
<1>3. ApplyOverwrites(BasePermissions(ids, defs), ows, ids, p)
        = Apply(ApplyAsDocumented(every, role), Aimed(ows, {MemberTarget(p)}))
  BY <1>2 DEF ApplyOverwrites, role, every
<1> QED
  BY <1>3 DEF Calculate, AsDocumented, role, every

\* A timeout outweighs every overwrite: whoever may write in a channel during
\* one is an administrator (calculate_permissions, handle_timeout_member).
THEOREM TimeoutSilences == Spec => []TimedOutAreSilent
<1>1. TimedOutAreSilent
  <2> SUFFICES ASSUME NEW p \in members, NEW c \in channels, TimedOut(p),
                      "SEND_MESSAGES" \in PermissionsIn(p, c)
               PROVE  Administrator \in BasePermissions(role_ids[p], roles)
    BY DEF TimedOutAreSilent
  <2>1. TimedOut(p) \in BOOLEAN /\ "SEND_MESSAGES" \in Permission
    BY DEF TimedOut, Permission
  <2>2. Effective(role_ids[p], roles, overwrites[c], p, TimedOut(p), "SEND_MESSAGES")
    BY <2>1, CalculationDecides DEF PermissionsIn
  <2>3. "SEND_MESSAGES" \in MutedBits
    BY DEF MutedBits
  <2> QED
    BY <2>2, <2>3 DEF Effective
<1> QED
  BY <1>1, PTL

-----------------------------------------------------------------------------
(* Memory and database.                                                    *)

Times == Until \cup {NoTimeout}
RoleRows == {x \in Person \X RoleId : x[1] \in members /\ x[2] \in role_ids[x[1]]}

Shapes ==
    /\ creator \in Person /\ members \subseteq Person
    /\ role_ids \in [Person -> SUBSET RoleId]
    /\ timeout_until \in [Person -> Times] /\ server_member_timeouts \in [Person -> Times]
    /\ DOMAIN server_roles \subseteq RoleId
    /\ overwrites \in [Channel -> SUBSET Overwrite]
    /\ server_channel_overwrites \subseteq Channel \X Overwrite
    /\ now \in Nat

RolesMatch ==
    /\ DOMAIN roles \subseteq DOMAIN server_roles
    /\ \A r \in DOMAIN server_roles :
          Loadable(server_roles[r].permissions) => r \in DOMAIN roles /\ roles[r] = server_roles[r]

\* One overwrite of a channel, in memory and in its table.
Settled(c, o) ==
    /\ o \in overwrites[c] => <<c, o>> \in server_channel_overwrites
    /\ <<c, o>> \in server_channel_overwrites /\ Loadable(o.allow) /\ Loadable(o.deny)
          => o \in overwrites[c]

OverwritesMatch ==
    \A c \in Channel, o \in Overwrite : <<c, o.target>> \notin refused => Settled(c, o)

\* A row is what memory has, or is over, or cannot be loaded.
TimeoutsMatch ==
    \A p \in Person :
        \/ timeout_until[p] = server_member_timeouts[p]
        \/ /\ timeout_until[p] = NoTimeout
           /\ server_member_timeouts[p] <= now \/ server_member_timeouts[p] = Endless

RolesInv ==
    /\ Shapes
    /\ server_member_roles = RoleRows
    /\ RolesMatch /\ OverwritesMatch /\ TimeoutsMatch /\ HeldRolesExist

LEMMA RowsAsPairs ==
    ASSUME Shapes PROVE RoleRows = UNION {{p} \X role_ids[p] : p \in members}
<1>1. ASSUME NEW x \in RoleRows PROVE x \in UNION {{p} \X role_ids[p] : p \in members}
  <2>1. x \in {x[1]} \X role_ids[x[1]] /\ x[1] \in members
    BY <1>1 DEF RoleRows
  <2> QED
    BY <2>1
<1>2. ASSUME NEW p \in members, NEW x \in {p} \X role_ids[p] PROVE x \in RoleRows
  BY <1>2 DEF RoleRows, Shapes
<1> QED
  BY <1>1, <1>2

LEMMA TimesAreInts == Times \subseteq Int /\ NoTimeout = -1 /\ NoTimeout \in Times
                      /\ Endless \in Nat /\ Until \subseteq Nat
BY RolesAssumption DEF Times, Until, Endless, NoTimeout

LEMMA RowsSuffice == RolesInv => RestartChangesNothing
<1> SUFFICES ASSUME RolesInv PROVE RestartChangesNothing
  OBVIOUS
<1>1. server_member_roles = UNION {{p} \X role_ids[p] : p \in members}
  BY RowsAsPairs DEF RolesInv
<1>2. ASSUME NEW c \in Channel, NEW t \in Target, <<c, t>> \notin refused
      PROVE  LET kept == Aimed(overwrites[c], {t}) IN
             /\ kept \subseteq Rows(c, t)
             /\ \A o \in Rows(c, t) : Loadable(o.allow) /\ Loadable(o.deny) => o \in kept
  <2>1. ASSUME NEW o \in overwrites[c], o.target = t PROVE o \in Rows(c, t)
    <3>1. o \in Overwrite /\ <<c, o>> \in server_channel_overwrites
      BY <1>2, <2>1 DEF RolesInv, Shapes, OverwritesMatch, Settled
    <3>2. <<c, o>> \in {x \in server_channel_overwrites : x[1] = c /\ x[2].target = t}
      BY <2>1, <3>1
    <3>3. o = <<c, o>>[2]
      OBVIOUS
    <3> QED
      BY <3>2, <3>3 DEF Rows
  <2>2. ASSUME NEW o \in Rows(c, t), Loadable(o.allow), Loadable(o.deny)
        PROVE  o \in overwrites[c] /\ o.target = t
    <3>1. PICK x \in server_channel_overwrites : x[1] = c /\ x[2].target = t /\ o = x[2]
      BY <2>2 DEF Rows
    <3>2. x = <<c, o>> /\ o \in Overwrite
      BY <3>1 DEF RolesInv, Shapes
    <3> QED
      BY <1>2, <2>2, <3>1, <3>2 DEF RolesInv, OverwritesMatch, Settled
  <2> QED
    BY <2>1, <2>2 DEF Aimed
<1>3. ASSUME NEW p \in Person, server_member_timeouts[p] # Endless
      PROVE  TimedOut(p) <=> server_member_timeouts[p] > now
  <2>1. timeout_until[p] \in Int /\ server_member_timeouts[p] \in Int /\ now \in Nat
    BY TimesAreInts DEF RolesInv, Shapes
  <2> QED
    BY <1>3, <2>1, TimesAreInts DEF RolesInv, TimeoutsMatch, TimedOut
<1> QED
  BY <1>1, <1>2, <1>3 DEF RolesInv, RolesMatch, RestartChangesNothing

LEMMA DefaultIds ==
    /\ 0..4 \in SUBSET RoleId /\ {0, 1} \in SUBSET RoleId /\ {} \in SUBSET RoleId
    /\ DOMAIN DefaultRoles = 0..4
    /\ \A last \in LastCreated : 0..last \subseteq 0..4
<1>1. 0..4 \subseteq RoleId /\ DOMAIN DefaultRoles = 0..4
  BY RolesAssumption DEF RoleId, DefaultRoles
<1>2. 0 \in 0..4 /\ 1 \in 0..4
  OBVIOUS
<1>3. ASSUME NEW last \in 0..4 PROVE 0..last \subseteq 0..4
  OBVIOUS
<1> QED
  BY <1>1, <1>2, <1>3, RolesAssumption

LEMMA InitRoles == Init => RolesInv
<1> SUFFICES ASSUME Init PROVE RolesInv
  OBVIOUS
<1> USE DEF Init
<1>1. Shapes
  <2>1. role_ids \in [Person -> SUBSET RoleId]
    <3>1. role_ids = [p \in Person |-> IF p = Creator THEN 0..4
                                      ELSE IF p \in members THEN {0, 1} ELSE {}]
      OBVIOUS
    <3> QED
      BY <3>1, DefaultIds, Zenon
  <2>2. DOMAIN roles \subseteq RoleId
    <3>1. PICK last \in LastCreated : roles = [r \in 0..last |-> DefaultRoles[r]]
      OBVIOUS
    <3> QED
      BY <3>1, DefaultIds
  <2> QED
    BY <2>1, <2>2, TimesAreInts, RolesAssumption DEF Shapes
<1>2. HeldRolesExist
  <2> SUFFICES ASSUME NEW p \in members PROVE role_ids[p] \subseteq GivenIds(p)
    BY DEF HeldRolesExist
  <2> QED
    BY DEF GivenIds
<1>3. RolesMatch /\ OverwritesMatch /\ TimeoutsMatch
  BY DEF RolesMatch, OverwritesMatch, Settled, TimeoutsMatch
<1>4. server_member_roles = RoleRows
  BY <1>1, RowsAsPairs
<1> QED
  BY <1>1, <1>2, <1>3, <1>4 DEF RolesInv

-----------------------------------------------------------------------------
(* One lemma for each part of the state.                                   *)

RolesKept     == UNCHANGED <<roles, server_roles>>
RosterKept    == UNCHANGED <<creator, members, role_ids, server_member_roles>>
OverwritesKept == UNCHANGED <<overwrites, server_channel_overwrites, refused>>
TimeoutsKept  == UNCHANGED <<timeout_until, server_member_timeouts, now>>

LEMMA KeptParts ==
    ASSUME RolesInv
    PROVE  /\ RolesKept => RolesMatch'
           /\ OverwritesKept => OverwritesMatch'
           /\ TimeoutsKept => TimeoutsMatch'
           /\ RosterKept => server_member_roles' = RoleRows'
           /\ RosterKept /\ DOMAIN server_roles \subseteq DOMAIN server_roles' => HeldRolesExist'
<1>1. RosterKept /\ DOMAIN server_roles \subseteq DOMAIN server_roles' => HeldRolesExist'
  BY DEF RolesInv, RosterKept, HeldRolesExist, GivenIds
<1> QED
  BY <1>1 DEF RolesInv, RolesKept, OverwritesKept, TimeoutsKept, RosterKept, RolesMatch,
     OverwritesMatch, Settled, TimeoutsMatch, RoleRows

RoleRequest(p) == CreateRole(p) \/ \E r \in RoleId : EditRole(p, r) \/ DeleteRole(p, r)

LEMMA RoleRequests ==
    ASSUME RolesInv, NEW p \in Person, RoleRequest(p)
    PROVE  RolesInv'
<1>0. Shapes /\ RolesMatch /\ HeldRolesExist /\ server_member_roles = RoleRows
  BY DEF RolesInv
<1>1. OverwritesKept /\ TimeoutsKept /\ UNCHANGED <<creator, members>>
  BY DEF RoleRequest, CreateRole, EditRole, DeleteRole, OverwritesKept, TimeoutsKept
<1>2. CASE CreateRole(p)
  <2>1. PICK id \in RoleId \ DOMAIN server_roles :
          /\ DOMAIN roles' = DOMAIN roles \cup {id}
          /\ \A r \in DOMAIN roles \ {id} : roles'[r] = roles[r]
          /\ DOMAIN server_roles' = DOMAIN server_roles \cup {id}
          /\ server_roles'[id] = roles'[id]
          /\ \A r \in DOMAIN server_roles : server_roles'[r] = server_roles[r]
    BY <1>2 DEF CreateRole
  <2>2. RolesMatch' /\ DOMAIN server_roles \subseteq DOMAIN server_roles'
    BY <1>0, <2>1 DEF RolesMatch
  <2>3. RosterKept
    BY <1>2 DEF CreateRole, RosterKept
  <2>4. Shapes'
    BY <1>0, <1>2, <2>1 DEF CreateRole, Shapes
  <2> QED
    BY <1>1, <2>2, <2>3, <2>4, KeptParts DEF RolesInv
<1>3. ASSUME NEW r \in RoleId, EditRole(p, r) PROVE RolesInv'
  <2>1. /\ r \in DOMAIN roles /\ DOMAIN roles' = DOMAIN roles
        /\ DOMAIN server_roles' = DOMAIN server_roles
        /\ \A q \in DOMAIN roles \ {r} : roles'[q] = roles[q]
        /\ \A q \in DOMAIN server_roles \ {r} : server_roles'[q] = server_roles[q]
        /\ r \in DOMAIN server_roles => server_roles'[r] = roles'[r]
    BY <1>3 DEF EditRole
  <2>2. RolesMatch'
    BY <1>0, <2>1 DEF RolesMatch
  <2>3. RosterKept
    BY <1>3 DEF EditRole, RosterKept
  <2>4. Shapes'
    BY <1>0, <1>3, <2>1 DEF EditRole, Shapes
  <2> QED
    BY <1>1, <2>1, <2>2, <2>3, <2>4, KeptParts DEF RolesInv
<1>4. ASSUME NEW r \in RoleId, DeleteRole(p, r) PROVE RolesInv'
  <2>1. /\ DOMAIN roles' = DOMAIN roles \ {r}
        /\ DOMAIN server_roles' = DOMAIN server_roles \ {r}
        /\ \A q \in DOMAIN roles \ {r} : roles'[q] = roles[q]
        /\ \A q \in DOMAIN server_roles \ {r} : server_roles'[q] = server_roles[q]
        /\ role_ids' = [q \in Person |-> role_ids[q] \ {r}]
        /\ server_member_roles' = {m \in server_member_roles : m[2] # r}
    BY <1>4 DEF DeleteRole
  <2>2. RolesMatch'
    BY <1>0, <2>1 DEF RolesMatch
  <2>3. HeldRolesExist'
    BY <1>0, <1>1, <2>1 DEF HeldRolesExist, GivenIds, Shapes
  <2>4. Shapes'
    BY <1>0, <1>4, <2>1 DEF DeleteRole, Shapes
  <2>5. server_member_roles' = RoleRows'
    BY <1>0, <1>1, <2>1 DEF RoleRows, Shapes
  <2> QED
    BY <1>1, <2>2, <2>3, <2>4, <2>5, KeptParts DEF RolesInv
<1> QED
  BY <1>2, <1>3, <1>4 DEF RoleRequest

MemberRequest(p) ==
    \/ Join(p) \/ Leave(p)
    \/ \E t \in Person, r \in RoleId : AssignRole(p, t, r) \/ UnassignRole(p, t, r)

LEMMA MemberRequests ==
    ASSUME RolesInv, NEW p \in Person, MemberRequest(p)
    PROVE  RolesInv'
<1>0. /\ Shapes /\ RolesMatch /\ HeldRolesExist /\ TimeoutsMatch /\ server_member_roles = RoleRows
      /\ NoTimeout \in Times
  BY TimesAreInts DEF RolesInv
<1>1. RolesKept /\ OverwritesKept
  BY DEF MemberRequest, Join, Leave, AssignRole, UnassignRole, RolesKept, OverwritesKept
<1>2. ASSUME Shapes', HeldRolesExist', TimeoutsMatch', server_member_roles' = RoleRows'
      PROVE  RolesInv'
  BY <1>1, <1>2, KeptParts DEF RolesInv
<1>3. CASE Join(p)
  <2>1. PICK ids \in SUBSET RoleId :
          /\ ids = IF members = {} THEN 0..4 ELSE {0, 1}
          /\ role_ids' = [role_ids EXCEPT ![p] = ids]
          /\ server_member_roles' = server_member_roles \cup ({p} \X ids)
    <3>1. (IF members = {} THEN 0..4 ELSE {0, 1}) \in SUBSET RoleId
      BY DefaultIds
    <3>2. role_ids'[p] = IF members = {} THEN 0..4 ELSE {0, 1}
      BY <1>0, <1>3 DEF Join, Shapes
    <3> QED
      BY <1>3, <3>1, <3>2 DEF Join
  <2>2. /\ members' = members \cup {p} /\ p \notin members
        /\ creator' = IF members = {} THEN p ELSE creator
    BY <1>3 DEF Join
  <2>3. HeldRolesExist'
    <3> SUFFICES ASSUME NEW q \in members'
                 PROVE  role_ids'[q] \ GivenIds(q)' \subseteq DOMAIN server_roles'
      BY DEF HeldRolesExist
    <3>1. CASE q = p
      BY <1>0, <2>1, <2>2, <3>1 DEF GivenIds, Shapes
    <3>2. CASE q # p
      <4>1. q \in members /\ creator' = creator /\ role_ids'[q] = role_ids[q]
        BY <1>0, <2>1, <2>2, <3>2 DEF Shapes
      <4> QED
        BY <1>0, <1>1, <4>1 DEF HeldRolesExist, GivenIds, RolesKept
    <3> QED
      BY <3>1, <3>2
  <2>4. Shapes'
    BY <1>0, <1>3, <2>1, <2>2 DEF Join, Shapes
  <2>5. server_member_roles' = RoleRows'
    BY <1>0, <2>1, <2>2 DEF RoleRows, Shapes
  <2>6. TimeoutsMatch'
    BY <1>3, KeptParts DEF Join, TimeoutsKept
  <2> QED
    BY <1>2, <2>3, <2>4, <2>5, <2>6
<1>4. CASE Leave(p)
  <2>1. Shapes'
    BY <1>0, <1>4 DEF Leave, Shapes
  <2>2. HeldRolesExist'
    BY <1>0, <1>4 DEF Leave, HeldRolesExist, GivenIds, Shapes
  <2>3. server_member_roles' = RoleRows'
    BY <1>0, <1>4 DEF Leave, Shapes, RoleRows
  <2>4. TimeoutsMatch'
    BY <1>0, <1>4 DEF Leave, TimeoutsMatch, Shapes
  <2> QED
    BY <1>2, <2>1, <2>2, <2>3, <2>4
<1>5. ASSUME NEW t \in Person, NEW r \in RoleId, AssignRole(p, t, r) PROVE RolesInv'
  <2>1. Shapes' /\ TimeoutsMatch'
    BY <1>0, <1>5, KeptParts DEF AssignRole, Shapes, TimeoutsKept
  <2>2. HeldRolesExist'
    BY <1>0, <1>5 DEF AssignRole, Below, Shapes, HeldRolesExist, GivenIds, RolesMatch
  <2>3. server_member_roles' = RoleRows'
    BY <1>0, <1>5 DEF AssignRole, Shapes, RoleRows
  <2> QED
    BY <1>2, <2>1, <2>2, <2>3
<1>6. ASSUME NEW t \in Person, NEW r \in RoleId, UnassignRole(p, t, r) PROVE RolesInv'
  <2>1. Shapes' /\ TimeoutsMatch'
    BY <1>0, <1>6, KeptParts DEF UnassignRole, Shapes, TimeoutsKept
  <2>2. HeldRolesExist'
    BY <1>0, <1>6 DEF UnassignRole, Shapes, HeldRolesExist, GivenIds
  <2>3. server_member_roles' = RoleRows'
    BY <1>0, <1>6 DEF UnassignRole, Shapes, RoleRows
  <2> QED
    BY <1>2, <2>1, <2>2, <2>3
<1> QED
  BY <1>3, <1>4, <1>5, <1>6 DEF MemberRequest

ChannelRequest(p, c) ==
    \/ CreateChannel(p, c) \/ DeleteChannel(p, c)
    \/ \E t \in Target : SetOverwrite(p, c, t) \/ DeleteOverwrite(p, c, t)
    \/ \E r \in RoleId : MisnamedOverwrite(p, c, r)

\* What is asked of one target leaves the overwrites of the others alone.
LEMMA OneTarget ==
    ASSUME RolesInv, NEW c \in Channel, NEW t \in Target,
           overwrites' \in [Channel -> SUBSET Overwrite],
           \A d \in Channel, o \in Overwrite : d # c \/ o.target # t =>
              /\ o \in overwrites'[d] <=> o \in overwrites[d]
              /\ <<d, o>> \in server_channel_overwrites' <=> <<d, o>> \in server_channel_overwrites
              /\ <<d, o.target>> \in refused => <<d, o.target>> \in refused',
           <<c, t>> \notin refused' => \A o \in Overwrite : o.target = t => Settled(c, o)'
    PROVE  OverwritesMatch'
<1> SUFFICES ASSUME NEW d \in Channel, NEW o \in Overwrite, <<d, o.target>> \notin refused'
             PROVE  Settled(d, o)'
  BY DEF OverwritesMatch
<1>1. CASE d = c /\ o.target = t
  BY <1>1
<1>2. CASE d # c \/ o.target # t
  <2>1. Settled(d, o)
    BY <1>2 DEF RolesInv, OverwritesMatch
  <2> QED
    BY <1>2, <2>1 DEF Settled
<1> QED
  BY <1>1, <1>2

LEMMA ChannelRequests ==
    ASSUME RolesInv, NEW p \in Person, NEW c \in Channel, ChannelRequest(p, c)
    PROVE  RolesInv'
<1>0. Shapes /\ OverwritesMatch
  BY DEF RolesInv
<1>1. RolesKept /\ RosterKept /\ TimeoutsKept
  BY DEF ChannelRequest, CreateChannel, DeleteChannel, SetOverwrite, DeleteOverwrite,
     MisnamedOverwrite, RolesKept, RosterKept, TimeoutsKept, database
<1>2. ASSUME overwrites' \in [Channel -> SUBSET Overwrite],
             server_channel_overwrites' \subseteq Channel \X Overwrite, OverwritesMatch'
      PROVE  RolesInv'
  <2>1. Shapes' /\ DOMAIN server_roles' = DOMAIN server_roles
    BY <1>0, <1>1, <1>2 DEF Shapes, RolesKept, RosterKept, TimeoutsKept
  <2> QED
    BY <1>1, <1>2, <2>1, KeptParts DEF RolesInv
<1>3. CASE CreateChannel(p, c)
  BY <1>0, <1>2, <1>3, KeptParts DEF CreateChannel, OverwritesKept, Shapes, database
<1>4. CASE DeleteChannel(p, c)
  <2>1. /\ overwrites' = [overwrites EXCEPT ![c] = {}]
        /\ server_channel_overwrites' = {o \in server_channel_overwrites : o[1] # c}
        /\ refused' = {o \in refused : o[1] # c}
    BY <1>4 DEF DeleteChannel
  <2>2. OverwritesMatch'
    BY <1>0, <2>1 DEF OverwritesMatch, Settled, Shapes
  <2> QED
    BY <1>0, <1>2, <2>1, <2>2 DEF Shapes
<1>5. ASSUME NEW t \in Target, SetOverwrite(p, c, t) PROVE RolesInv'
  <2>1. PICK new \in Overwrite :
          /\ new.target = t /\ KeptInMemory(c, new)
          /\ server_channel_overwrites' = Others(c, t) \cup {<<c, new>>}
    BY <1>5 DEF SetOverwrite, Overwrite
  <2>2. /\ overwrites' = [overwrites EXCEPT ![c] = {o \in @ : o.target # t} \cup {new}]
        /\ server_channel_overwrites' =
              {o \in server_channel_overwrites : ~(o[1] = c /\ o[2].target = t)} \cup {<<c, new>>}
        /\ refused' = refused \ {<<c, t>>}
    BY <1>5, <2>1 DEF SetOverwrite, KeptInMemory, Others
  <2>3. /\ overwrites' \in [Channel -> SUBSET Overwrite]
        /\ server_channel_overwrites' \subseteq Channel \X Overwrite
    BY <1>0, <2>2 DEF Shapes
  <2>4. \A o \in Overwrite : o.target = t => Settled(c, o)'
    BY <1>0, <2>2 DEF Settled, Shapes
  <2>5. \A d \in Channel, o \in Overwrite : d # c \/ o.target # t =>
          /\ o \in overwrites'[d] <=> o \in overwrites[d]
          /\ <<d, o>> \in server_channel_overwrites' <=> <<d, o>> \in server_channel_overwrites
          /\ <<d, o.target>> \in refused => <<d, o.target>> \in refused'
    BY <1>0, <2>1, <2>2 DEF Shapes
  <2> QED
    BY <1>2, <2>3, <2>4, <2>5, OneTarget
<1>6. ASSUME NEW t \in Target, DeleteOverwrite(p, c, t) PROVE RolesInv'
  <2>2. /\ overwrites' = [overwrites EXCEPT ![c] = {o \in @ : o.target # t}]
        /\ server_channel_overwrites' =
              {o \in server_channel_overwrites : ~(o[1] = c /\ o[2].target = t)}
        /\ refused' = refused \ {<<c, t>>}
    BY <1>6 DEF DeleteOverwrite, Others
  <2>3. /\ overwrites' \in [Channel -> SUBSET Overwrite]
        /\ server_channel_overwrites' \subseteq Channel \X Overwrite
    BY <1>0, <2>2 DEF Shapes
  <2>4. \A o \in Overwrite : o.target = t => Settled(c, o)'
    BY <1>0, <2>2 DEF Settled, Shapes
  <2>5. \A d \in Channel, o \in Overwrite : d # c \/ o.target # t =>
          /\ o \in overwrites'[d] <=> o \in overwrites[d]
          /\ <<d, o>> \in server_channel_overwrites' <=> <<d, o>> \in server_channel_overwrites
          /\ <<d, o.target>> \in refused => <<d, o.target>> \in refused'
    BY <1>0, <2>2 DEF Shapes
  <2> QED
    BY <1>2, <2>3, <2>4, <2>5, OneTarget
<1>7. ASSUME NEW r \in RoleId, MisnamedOverwrite(p, c, r) PROVE RolesInv'
  <2>1. PICK t \in Target : t = RoleTarget(r)
    BY DEF Target
  <2>2. /\ UNCHANGED server_channel_overwrites /\ refused' = refused \cup {<<c, t>>}
        /\ \/ \E new \in Overwrite :
                 /\ new.target = t
                 /\ overwrites' = [overwrites EXCEPT ![c] = {o \in @ : o.target # t} \cup {new}]
           \/ overwrites' = [overwrites EXCEPT ![c] = {o \in @ : o.target # t}]
    BY <1>7, <2>1 DEF MisnamedOverwrite, KeptInMemory, Overwrite, database
  <2>3. overwrites' \in [Channel -> SUBSET Overwrite]
    BY <1>0, <2>2 DEF Shapes
  <2>4. \A d \in Channel, o \in Overwrite : d # c \/ o.target # t =>
          (o \in overwrites'[d] <=> o \in overwrites[d])
    BY <1>0, <2>2 DEF Shapes
  <2>5. OverwritesMatch'
    BY <2>2, <2>3, <2>4, OneTarget
  <2> QED
    BY <1>0, <1>2, <2>2, <2>3, <2>5 DEF Shapes
<1> QED
  BY <1>3, <1>4, <1>5, <1>6, <1>7 DEF ChannelRequest

LEMMA TimeoutRequests ==
    ASSUME RolesInv, NEW p \in Person, NEW t \in Person, TimeoutMember(p, t) \/ RemoveTimeout(p, t)
    PROVE  RolesInv'
<1>1. PICK until \in Times :
        /\ timeout_until' = [timeout_until EXCEPT ![t] = until]
        /\ server_member_timeouts' = [server_member_timeouts EXCEPT ![t] = until]
  BY DEF TimeoutMember, RemoveTimeout, Times
<1>2. RolesKept /\ RosterKept /\ OverwritesKept /\ now' = now
  BY DEF TimeoutMember, RemoveTimeout, RolesKept, RosterKept, OverwritesKept
<1>3. TimeoutsMatch'
  BY <1>1, <1>2 DEF RolesInv, TimeoutsMatch, Shapes
<1>4. Shapes'
  BY <1>1, <1>2 DEF RolesInv, Shapes, RolesKept, RosterKept, OverwritesKept
<1> QED
  BY <1>2, <1>3, <1>4, KeptParts DEF RolesInv, RolesKept

\* A restart drops what cannot be loaded, and from then on memory and tables
\* agree about the rest.
LEMMA Restarts ==
    ASSUME RolesInv, Restart PROVE RolesInv'
<1>0. /\ Shapes /\ RolesMatch /\ HeldRolesExist /\ server_member_roles = RoleRows
      /\ UNCHANGED <<creator, members, server_member_roles, server_member_timeouts,
                     server_channel_overwrites, now>>
  BY DEF RolesInv, Restart
<1>1. RolesMatch' /\ DOMAIN server_roles \subseteq DOMAIN server_roles' /\ DOMAIN server_roles' \subseteq RoleId
  <2> DEFINE loaded == {r \in DOMAIN server_roles : Loadable(server_roles[r].permissions)}
  <2>1. CASE loaded # {}
    <3>1. roles' = [r \in loaded |-> server_roles[r]] /\ server_roles' = server_roles
      BY <2>1 DEF Restart, LoadRoles
    <3> QED
      BY <1>0, <3>1 DEF RolesMatch, Shapes
  <2>2. CASE loaded = {}
    <3>1. /\ roles' = DefaultRoles
          /\ DOMAIN server_roles' = DOMAIN server_roles \cup 0..4
          /\ \A r \in DOMAIN server_roles : server_roles'[r] = server_roles[r]
          /\ \A r \in 0..4 \ DOMAIN server_roles : server_roles'[r] = DefaultRoles[r]
      BY <2>2 DEF Restart, LoadRoles
    <3>2. \A r \in DOMAIN server_roles : ~Loadable(server_roles[r].permissions)
      BY <2>2
    <3> QED
      BY <1>0, <3>1, <3>2, DefaultIds DEF RolesMatch, Shapes
  <2> QED
    BY <2>1, <2>2
<1>2. role_ids' \in [Person -> SUBSET RoleId] /\ \A q \in members : role_ids'[q] = role_ids[q]
  <2>1. role_ids' = [q \in Person |-> {r \in RoleId : <<q, r>> \in RoleRows}]
    BY <1>0 DEF Restart, LoadMembers
  <2>2. ASSUME NEW q \in members PROVE {r \in RoleId : <<q, r>> \in RoleRows} = role_ids[q]
    BY <1>0 DEF RoleRows, Shapes
  <2> QED
    BY <1>0, <2>1, <2>2 DEF Shapes
<1>3. HeldRolesExist' /\ server_member_roles' = RoleRows'
  <2>1. HeldRolesExist'
    BY <1>0, <1>1, <1>2 DEF HeldRolesExist, GivenIds
  <2> QED
    BY <1>0, <1>2, <2>1 DEF RoleRows
<1>4. /\ timeout_until' \in [Person -> Times]
      /\ TimeoutsMatch'
  <2>1. ASSUME NEW q \in Person
        PROVE  /\ timeout_until'[q] \in Times
               /\ \/ timeout_until'[q] = server_member_timeouts[q]
                  \/ /\ timeout_until'[q] = NoTimeout
                     /\ server_member_timeouts[q] <= now \/ server_member_timeouts[q] = Endless
    <3>1. timeout_until'[q] = IF server_member_timeouts[q] > now
                                 /\ server_member_timeouts[q] # Endless
                              THEN server_member_timeouts[q] ELSE NoTimeout
      BY DEF Restart, LoadMembers
    <3>2. server_member_timeouts[q] \in Times /\ NoTimeout \in Times
      BY <1>0, TimesAreInts DEF Shapes
    <3>3. server_member_timeouts[q] > now \/ server_member_timeouts[q] <= now
      <4>1. server_member_timeouts[q] \in Int
        BY <3>2, TimesAreInts
      <4>2. now \in Int
        BY <1>0, RolesAssumption DEF Shapes
      <4> QED
        BY <4>1, <4>2
    <3> QED
      BY <3>1, <3>2, <3>3
  <2> QED
    BY <1>0, <2>1 DEF TimeoutsMatch, Restart, LoadMembers
<1>5. /\ overwrites' \in [Channel -> SUBSET Overwrite]
      /\ OverwritesMatch'
  <2> DEFINE read(d) == {x \in server_channel_overwrites :
                           x[1] = d /\ Loadable(x[2].allow) /\ Loadable(x[2].deny)}
  <2>1. ASSUME NEW d \in Channel, NEW o
        PROVE  o \in {x[2] : x \in read(d)}
                 <=> <<d, o>> \in server_channel_overwrites /\ Loadable(o.allow) /\ Loadable(o.deny)
    <3>1. ASSUME <<d, o>> \in server_channel_overwrites, Loadable(o.allow), Loadable(o.deny)
          PROVE  o \in {x[2] : x \in read(d)}
      <4>1. <<d, o>> \in read(d) /\ <<d, o>>[2] = o
        BY <3>1
      <4> QED
        BY <4>1
    <3>2. ASSUME NEW x \in read(d), o = x[2]
          PROVE  <<d, o>> \in server_channel_overwrites /\ Loadable(o.allow) /\ Loadable(o.deny)
      <4>1. x = <<d, o>>
        BY <1>0, <3>2 DEF Shapes
      <4> QED
        BY <3>2, <4>1
    <3> QED
      BY <3>1, <3>2
  <2>2. overwrites' = [d \in Channel |-> {x[2] : x \in read(d)}]
    BY DEF Restart, LoadOverwrites
  <2> HIDE DEF read
  <2>3. ASSUME NEW d \in Channel, NEW o
        PROVE  o \in overwrites'[d]
                 <=> <<d, o>> \in server_channel_overwrites /\ Loadable(o.allow) /\ Loadable(o.deny)
    BY <2>1, <2>2
  <2>4. ASSUME NEW d \in Channel, NEW o \in overwrites'[d] PROVE o \in Overwrite
    <3>1. <<d, o>> \in Channel \X Overwrite
      BY <1>0, <2>3, <2>4 DEF Shapes
    <3> QED
      BY <3>1
  <2> QED
    BY <1>0, <2>2, <2>3, <2>4 DEF OverwritesMatch, Settled
<1>6. Shapes'
  BY <1>0, <1>1, <1>2, <1>4, <1>5 DEF Shapes
<1> QED
  BY <1>1, <1>3, <1>4, <1>5, <1>6 DEF RolesInv

LEMMA StepRoles == RolesInv /\ [Next]_vars => RolesInv'
<1> SUFFICES ASSUME RolesInv, [Next]_vars PROVE RolesInv'
  OBVIOUS
<1>1. ASSUME NEW p \in Person,
             RoleRequest(p) \/ MemberRequest(p) \/ \E c \in Channel : ChannelRequest(p, c)
      PROVE  RolesInv'
  BY <1>1, RoleRequests, MemberRequests, ChannelRequests
<1>2. ASSUME NEW p \in Person, NEW t \in Person, TimeoutMember(p, t) \/ RemoveTimeout(p, t)
      PROVE  RolesInv'
  BY <1>2, TimeoutRequests
<1>3. CASE Tick \/ UNCHANGED vars
  <2>1. /\ RolesKept /\ RosterKept /\ OverwritesKept
        /\ UNCHANGED <<timeout_until, server_member_timeouts>>
        /\ now \in Nat /\ now' \in Nat /\ now' >= now
    BY <1>3 DEF Tick, vars, memory, database, RolesKept, RosterKept, OverwritesKept, RolesInv, Shapes
  <2>2. TimeoutsMatch'
    <3>1. ASSUME NEW p \in Person PROVE server_member_timeouts[p] \in Int
      BY TimesAreInts DEF RolesInv, Shapes
    <3> QED
      BY <2>1, <3>1 DEF RolesInv, TimeoutsMatch
  <2>3. Shapes' /\ DOMAIN server_roles' = DOMAIN server_roles
    BY <2>1 DEF RolesInv, Shapes, RolesKept, RosterKept, OverwritesKept
  <2> QED
    BY <2>1, <2>2, <2>3, KeptParts DEF RolesInv
<1> QED
  BY <1>1, <1>2, <1>3, Restarts DEF Next, RoleRequest, MemberRequest, ChannelRequest

\* After any sequence of requests and restarts, SQLite holds what the server
\* works with and a restart brings back nothing else (the load_*_from_db
\* functions against what each handler writes to both places), for every row
\* that the table accepts and the loading functions can read.
THEOREM RestartRebuilds == Spec => []RestartChangesNothing
BY InitRoles, StepRoles, RowsSuffice, PTL DEF Spec

\* Whoever leaves, the creator included, and however often the server restarts:
\* no member holds a deleted role's id, which a later role may be given
\* (handle_delete_role removes it from every member; handle_assign_role asks
\* for the role), but for the ids a newcomer gets.
THEOREM HeldExist == Spec => []HeldRolesExist
<1>1. RolesInv => HeldRolesExist
  BY DEF RolesInv
<1> QED
  BY <1>1, InitRoles, StepRoles, PTL DEF Spec
=============================================================================
