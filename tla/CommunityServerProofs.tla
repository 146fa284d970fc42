------------------------ MODULE CommunityServerProofs ------------------------
(***************************************************************************)
(* Proofs about CommunityServer, for every set of pseudonyms, every number *)
(* of requests in flight and every bound.                                  *)
(***************************************************************************)
EXTENDS CommunityServer, SequenceTheorems, TLAPS

\* Assigning and unassigning a role touches the first copy of a member in
\* place: a non-empty sequence of role sets stays one.
LEMMA FirstCopy ==
    ASSUME NEW S, NEW q \in Seq(S), q # <<>>, NEW e \in S
    PROVE  [q EXCEPT ![1] = e] \in Seq(S) /\ [q EXCEPT ![1] = e] # <<>> /\ q[1] \in S
<1>1. Len(q) \in Nat /\ Len(q) # 0 /\ 1 \in 1..Len(q)
  BY EmptySeq, LenProperties
<1>2. [q EXCEPT ![1] = e] \in Seq(S) /\ Len([q EXCEPT ![1] = e]) = Len(q)
  BY <1>1, ExceptSeq
<1>3. q[1] \in S
  BY <1>1, ElementOfSeq
<1> QED
  BY <1>1, <1>2, <1>3, EmptySeq

\* A role set read from the roster is a set of roles.
LEMMA RoleIdsType ==
    ASSUME members \in Roster, NEW p \in Pseudonym
    PROVE  RoleIds(p) \subseteq RoleId
<1>1. CASE InRoster(p)
  <2>1. members[p] \in Seq(SUBSET RoleId) /\ members[p] # <<>>
    BY <1>1 DEF Roster, InRoster
  <2>2. Head(members[p]) \in SUBSET RoleId
    BY <2>1, HeadTailProperties
  <2> QED
    BY <1>1, <2>2 DEF RoleIds
<1>2. CASE ~InRoster(p)
  BY <1>2 DEF RoleIds
<1> QED
  BY <1>1, <1>2

\* The roster that load_members_from_db builds is a roster.
LEMMA PersistedRosterType == PersistedRoster \in Roster
<1> DEFINE copies(p) == IF p \in server_members
                        THEN << {r \in RoleId : <<p, r>> \in server_member_roles} >>
                        ELSE <<>>
<1>1. ASSUME NEW p \in Pseudonym
      PROVE  copies(p) \in Seq(SUBSET RoleId)
  <2>1. {r \in RoleId : <<p, r>> \in server_member_roles} \in SUBSET RoleId
    OBVIOUS
  <2>2. ASSUME NEW R \in SUBSET RoleId
        PROVE  << R >> \in Seq(SUBSET RoleId)
    OBVIOUS
  <2>3. << >> \in Seq(SUBSET RoleId)
    OBVIOUS
  <2>4. << {r \in RoleId : <<p, r>> \in server_member_roles} >> \in Seq(SUBSET RoleId)
    BY <2>1, <2>2
  <2> QED
    BY <2>3, <2>4, Zenon
<1>2. PersistedRoster = [p \in Pseudonym |-> copies(p)]
  BY DEF PersistedRoster
<1> HIDE DEF copies
<1> QED
  BY <1>1, <1>2 DEF Roster

-----------------------------------------------------------------------------
(* Type correctness, one lemma for each group of actions.                  *)

USE PseudonymAssumption

LEMMA IdleTypes == IdleOp \in Op /\ IdleHost \in Host /\ NoMek \in Mek
                   /\ EmptyRoster \in Roster
BY DEF IdleOp, Op, OpPc, IdleHost, Host, HostPc, NoMek, Mek, EmptyRoster, Roster

LEMMA DefaultRolesType == DefaultRoles \in [RoleId -> Definition]
<1> DEFINE mod   == {"VIEW_CHANNEL", "KICK_MEMBERS"}
           admin == mod \cup {"BAN_MEMBERS", "MANAGE_ROLES", "MANAGE_COMMUNITY"}
           perms(r) == CASE r \in {0, 1} -> {"VIEW_CHANNEL"} [] r = 2 -> mod [] r = 3 -> admin
                         [] r = 4 -> Permission
<1>1. ASSUME NEW r \in RoleId
      PROVE  [permissions |-> perms(r), position |-> r] \in Definition
  <2>1. r \in Int /\ perms(r) \in SUBSET Permission
    BY DEF RoleId, Permission
  <2> QED
    BY <2>1 DEF Definition
<1>2. DefaultRoles = [r \in RoleId |-> [permissions |-> perms(r), position |-> r]]
  BY DEF DefaultRoles
<1> HIDE DEF perms
<1> QED
  BY <1>1, <1>2

LEMMA TypeInit == Init => TypeOK
<1> SUFFICES ASSUME Init PROVE TypeOK
  OBVIOUS
<1>1. /\ hosted \in BOOLEAN /\ members \in Roster /\ mek \in Mek
      /\ creator \in Pseudonym \cup {NoOne}
  BY IdleTypes DEF Init
<1>2. /\ row \in BOOLEAN /\ creator_pseudonym \in Pseudonym \cup {NoOne}
      /\ server_members \subseteq Pseudonym
      /\ server_member_roles \subseteq Pseudonym \X RoleId
      /\ banned_members \subseteq Pseudonym /\ server_mek \subseteq Mek
      /\ server_roles \in [RoleId -> Definition]
  BY DefaultRolesType DEF Init
<1>3. op \in [Slot -> Op] /\ host \in [Hosts -> Host]
      /\ \A s \in Slot : op[s].pc = "idle"
  BY IdleTypes DEF Init, IdleOp
<1>4. /\ known \in [Pseudonym -> SUBSET Mek] /\ founders \subseteq Pseudonym
      /\ raced \subseteq Pseudonym /\ keys \in Nat
  BY DEF Init
<1> QED
  BY <1>1, <1>2, <1>3, <1>4 DEF TypeOK

\* A role set appended to someone's copies keeps the roster a roster.
LEMMA PushType ==
    ASSUME NEW m \in Roster, NEW p \in Pseudonym, NEW R \in SUBSET RoleId
    PROVE  [m EXCEPT ![p] = Append(@, R)] \in Roster
<1>1. Append(m[p], R) \in Seq(SUBSET RoleId)
  BY DEF Roster
<1> QED
  BY <1>1 DEF Roster

\* What op may become: idle, advanced, or a new request.
OpOK == /\ op \in [Slot -> Op]
        /\ \A s \in Slot : op[s].pc # "idle" => op[s].who \in Pseudonym

LEMMA OpTypes ==
    ASSUME OpOK, NEW s \in Slot
    PROVE  /\ \A pc \in OpPc : op[s].pc # "idle" /\ Goto(s, pc) => OpOK'
           /\ Reply(s) => OpOK'
           /\ \A pc \in OpPc, p \in Pseudonym : Begin(s, pc, p) => OpOK'
<1>1. ASSUME NEW pc \in OpPc, op[s].pc # "idle", Goto(s, pc)
      PROVE  OpOK'
  BY <1>1 DEF OpOK, Goto, Op
<1>2. Reply(s) => OpOK'
  BY IdleTypes DEF OpOK, Reply, IdleOp
<1>3. ASSUME NEW pc \in OpPc, NEW p \in Pseudonym, Begin(s, pc, p)
      PROVE  OpOK'
  BY <1>3, IdleTypes DEF OpOK, Begin, Op, IdleOp
<1> QED
  BY <1>1, <1>2, <1>3

\* The member and role rows written for p.
LEMMA InsertTypes ==
    ASSUME server_members \subseteq Pseudonym,
           server_member_roles \subseteq Pseudonym \X RoleId,
           NEW p \in Pseudonym, NEW R \in SUBSET RoleId, InsertMember(p, R)
    PROVE  /\ server_members' \subseteq Pseudonym
           /\ server_member_roles' \subseteq Pseudonym \X RoleId
BY DEF InsertMember

LEMMA JoinRoleTypes == \A s : JoinRoleIds(s) \in SUBSET RoleId
BY DEF JoinRoleIds, OwnerRoleIds, DefaultRoleIds, RoleId

LEMMA JoinTypes ==
    ASSUME TypeOK, NEW s \in Slot, JoinStep(s)
    PROVE  TypeOK'
<1>0. OpOK /\ (op[s].pc # "idle" => op[s].who \in Pseudonym)
  BY DEF TypeOK, OpOK
<1>1. CASE \E p \in Pseudonym : JoinCheckBan(s, p)
  <2>1. OpOK'
    BY <1>0, <1>1, OpTypes DEF JoinCheckBan, OpPc
  <2> QED
    BY <1>1, <2>1 DEF JoinCheckBan, TypeOK, OpOK, memory, database, observed
<1>2. CASE JoinRejoin(s)
  <2>1. OpOK'
    BY <1>0, <1>2, OpTypes DEF JoinRejoin, OpPc
  <2>2. known' \in [Pseudonym -> SUBSET Mek]
    BY <1>0, <1>2 DEF JoinRejoin, Deliver, TypeOK
  <2> QED
    BY <1>2, <2>1, <2>2 DEF JoinRejoin, TypeOK, OpOK, memory, database
<1>3. CASE JoinReadFirst(s)
  <2>1. op' = [op EXCEPT ![s] = [op[s] EXCEPT !.pc = "insert",
                                 !.first = hosted /\ RosterIsEmpty]]
    BY <1>0, <1>3 DEF JoinReadFirst, OpOK
  <2>2. (hosted /\ RosterIsEmpty) \in BOOLEAN
    BY DEF RosterIsEmpty, TypeOK
  <2>3. [op[s] EXCEPT !.pc = "insert", !.first = hosted /\ RosterIsEmpty] \in Op
    BY <1>0, <2>2 DEF OpOK, Op, OpPc
  <2>4. OpOK'
    BY <1>0, <1>3, <2>1, <2>3 DEF JoinReadFirst, OpOK
  <2> QED
    BY <1>3, <2>4 DEF JoinReadFirst, TypeOK, OpOK, memory, database, observed
<1>4. CASE JoinInsert(s)
  <2>1. OpOK'
    BY <1>0, <1>4, OpTypes DEF JoinInsert, OpPc
  <2>2. /\ server_members' \subseteq Pseudonym
        /\ server_member_roles' \subseteq Pseudonym \X RoleId
    BY <1>0, <1>4, InsertTypes, JoinRoleTypes DEF JoinInsert, TypeOK
  <2> QED
    BY <1>4, <2>1, <2>2 DEF JoinInsert, TypeOK, OpOK, memory, observed
<1>5. CASE JoinPush(s)
  <2> DEFINE p == op[s].who
  <2>1. OpOK' /\ p \in Pseudonym
    BY <1>0, <1>5, OpTypes DEF JoinPush
  <2>2. members' \in Roster
    <3>1. [members EXCEPT ![p] = Append(members[p], JoinRoleIds(s))] \in Roster
      BY <2>1, PushType, JoinRoleTypes, Zenon DEF TypeOK
    <3> QED
      BY <1>5, <3>1 DEF JoinPush, TypeOK
  <2>3. known' \in [Pseudonym -> SUBSET Mek]
    BY <1>5, <2>1 DEF JoinPush, Deliver, TypeOK
  <2>4. /\ creator' \in Pseudonym \cup {NoOne}
        /\ creator_pseudonym' \in Pseudonym \cup {NoOne}
        /\ founders' \subseteq Pseudonym
    BY <1>5, <2>1 DEF JoinPush, TypeOK
  <2> QED
    BY <1>5, <2>1, <2>2, <2>3, <2>4 DEF JoinPush, TypeOK, OpOK, roster_db
<1> QED
  BY <1>1, <1>2, <1>3, <1>4, <1>5 DEF JoinStep

\* rotate_mek keeps the key and the key table well-typed.
LEMMA RotateTypes ==
    ASSUME TypeOK, RotateMek
    PROVE  mek' \in Mek /\ server_mek' \subseteq Mek /\ keys' \in Nat
BY DEF RotateMek, TypeOK, Mek

LEMMA RemoveTypes ==
    ASSUME TypeOK, NEW s \in Slot, RemoveStep(s)
    PROVE  TypeOK'
<1>0. OpOK /\ (op[s].pc # "idle" => op[s].who \in Pseudonym)
  BY DEF TypeOK, OpOK
<1>1. CASE \E p \in Pseudonym : Leave(s, p)
  <2>1. OpOK'
    BY <1>0, <1>1, OpTypes DEF Leave, OpPc
  <2> QED
    BY <1>1, <2>1 DEF Leave, TypeOK, OpOK, memory, database, observed
<1>2. CASE \E p, t \in Pseudonym : Kick(s, p, t)
  <2>1. OpOK'
    BY <1>0, <1>2, OpTypes DEF Kick, OpPc
  <2> QED
    BY <1>2, <2>1 DEF Kick, TypeOK, OpOK, memory, database, observed
<1>3. CASE \E p, t \in Pseudonym : Ban(s, p, t)
  <2>1. OpOK'
    BY <1>0, <1>3, OpTypes DEF Ban, OpPc
  <2> QED
    BY <1>3, <2>1 DEF Ban, TypeOK, OpOK, memory, database, observed
<1>4. CASE BanInsert(s)
  <2>1. OpOK'
    BY <1>0, <1>4, OpTypes DEF BanInsert, OpPc
  <2> QED
    BY <1>0, <1>4, <2>1 DEF BanInsert, TypeOK, OpOK, memory, roster_db, observed
<1>5. CASE RemoveVerify(s)
  <2>1. OpOK'
    BY <1>0, <1>5, OpTypes DEF RemoveVerify, OpPc
  <2> QED
    BY <1>5, <2>1 DEF RemoveVerify, TypeOK, OpOK, memory, database, observed
<1>6. CASE RemoveDelete(s)
  <2>1. OpOK'
    BY <1>0, <1>6, OpTypes DEF RemoveDelete, OpPc
  <2> QED
    BY <1>6, <2>1 DEF RemoveDelete, TypeOK, OpOK, memory, observed
<1>7. CASE RemoveRetain(s)
  <2>1. OpOK' /\ op[s].who \in Pseudonym
    BY <1>0, <1>7, OpTypes DEF RemoveRetain
  <2>2. members' \in Roster
    <3>1. << >> \in Seq(SUBSET RoleId)
      OBVIOUS
    <3>2. [members EXCEPT ![op[s].who] = << >>] \in Roster
      BY <3>1, <2>1, Zenon DEF TypeOK, Roster
    <3> QED
      BY <1>7, <3>2 DEF RemoveRetain, TypeOK
  <2>3. mek' \in Mek /\ server_mek' \subseteq Mek /\ keys' \in Nat
    BY <1>7, RotateTypes DEF RemoveRetain, TypeOK
  <2> QED
    BY <1>7, <2>1, <2>2, <2>3 DEF RemoveRetain, TypeOK, OpOK, roster_db
<1> QED
  BY <1>1, <1>2, <1>3, <1>4, <1>5, <1>6, <1>7 DEF RemoveStep

\* A roster in which the first copy of t has other roles is a roster, and
\* lists the same people.
LEMMA EditType ==
    ASSUME members \in Roster, NEW t \in Pseudonym, InRoster(t),
           NEW e \in SUBSET RoleId
    PROVE  /\ [members EXCEPT ![t][1] = e] \in Roster
           /\ \A p \in Pseudonym : [members EXCEPT ![t][1] = e][p] # <<>> <=> InRoster(p)
<1>1. members[t] \in Seq(SUBSET RoleId) /\ members[t] # <<>>
  BY DEF Roster, InRoster
<1>2. /\ [members[t] EXCEPT ![1] = e] \in Seq(SUBSET RoleId)
      /\ [members[t] EXCEPT ![1] = e] # <<>>
  BY <1>1, FirstCopy
<1> QED
  BY <1>1, <1>2 DEF Roster, InRoster

\* The roster after assigning or unassigning a role, in the form of EditType.
LEMMA RoleEdit ==
    ASSUME TypeOK, NEW p \in Pseudonym, NEW t \in Pseudonym, NEW r \in RoleId,
           AssignRole(p, t, r) \/ UnassignRole(p, t, r)
    PROVE  /\ members' \in Roster
           /\ \A x \in Pseudonym : InRoster(x)' <=> InRoster(x)
<1>0. members \in Roster /\ InRoster(t)
  BY DEF TypeOK, AssignRole, UnassignRole
<1>1. members[t] \in Seq(SUBSET RoleId) /\ members[t] # <<>>
  BY <1>0 DEF Roster, InRoster
<1>2. members[t][1] \in SUBSET RoleId
  BY <1>1, FirstCopy
<1>3. CASE AssignRole(p, t, r)
  <2> DEFINE e == members[t][1] \cup {r}
  <2>1. members' = [members EXCEPT ![t][1] = e] /\ e \in SUBSET RoleId
    BY <1>2, <1>3 DEF AssignRole
  <2> HIDE DEF e
  <2> QED
    BY <1>0, <2>1, EditType DEF InRoster
<1>4. CASE UnassignRole(p, t, r)
  <2> DEFINE e == members[t][1] \ {r}
  <2>1. members' = [members EXCEPT ![t][1] = e] /\ e \in SUBSET RoleId
    BY <1>2, <1>4 DEF UnassignRole
  <2> HIDE DEF e
  <2> QED
    BY <1>0, <2>1, EditType DEF InRoster
<1> QED
  BY <1>3, <1>4

LEMMA AtomicTypes ==
    ASSUME TypeOK, AtomicStep
    PROVE  TypeOK'
<1>1. ASSUME NEW p \in Pseudonym, RequestMek(p) PROVE TypeOK'
  BY <1>1 DEF RequestMek, Deliver, TypeOK, memory, database
<1>2. ASSUME NEW p \in Pseudonym, RotateMekRequest(p) PROVE TypeOK'
  <2>1. mek' \in Mek /\ server_mek' \subseteq Mek /\ keys' \in Nat
    BY <1>2, RotateTypes DEF RotateMekRequest
  <2> QED
    BY <1>2, <2>1 DEF RotateMekRequest, TypeOK, roster_db
<1>3. ASSUME NEW p \in Pseudonym, NEW t \in Pseudonym, Unban(p, t) PROVE TypeOK'
  BY <1>3 DEF Unban, TypeOK, memory, roster_db, observed
<1>4. ASSUME NEW p \in Pseudonym, NEW t \in Pseudonym, NEW r \in RoleId,
             AssignRole(p, t, r) \/ UnassignRole(p, t, r)
      PROVE  TypeOK'
  <2>1. members' \in Roster
    BY <1>4, RoleEdit
  <2>2. server_member_roles' \subseteq Pseudonym \X RoleId
    BY <1>4 DEF AssignRole, UnassignRole, TypeOK
  <2> QED
    BY <1>4, <2>1, <2>2 DEF AssignRole, UnassignRole, TypeOK, observed
<1>5. ASSUME NEW p \in Pseudonym, NEW e \in Edits, EditRole(p, e[1], e[2]) PROVE TypeOK'
  <2>1. e[1] \in RoleId /\ e[2] \in Definition
    BY EditsAssumption
  <2>2. server_roles' \in [RoleId -> Definition]
    BY <1>5, <2>1 DEF EditRole, TypeOK
  <2> QED
    BY <1>5, <2>2 DEF EditRole, TypeOK, memory, roster_db, observed
<1> QED
  BY <1>1, <1>2, <1>3, <1>4, <1>5, EditsAssumption DEF AtomicStep

LEMMA HostTypes ==
    ASSUME TypeOK, NEW h \in Hosts, HostStep(h)
    PROVE  TypeOK'
<1>0. host[h] \in Host /\ host[h].members \in Roster
  BY DEF TypeOK, Host
<1>1. CASE HostBegin(h)
  <2>1. host' \in [Hosts -> Host]
    BY <1>0, <1>1 DEF HostBegin, TypeOK, Host, HostPc
  <2> QED
    BY <1>1, <2>1 DEF HostBegin, TypeOK, memory, database, observed
<1>2. CASE HostCheck(h)
  <2>1. host' \in [Hosts -> Host] /\ row' \in BOOLEAN
    <3>1. [host EXCEPT ![h] = IdleHost] \in [Hosts -> Host]
      BY IdleTypes DEF TypeOK
    <3>2. [host EXCEPT ![h].pc = "mek"] \in [Hosts -> Host]
      BY <1>0 DEF TypeOK, Host, HostPc
    <3> QED
      BY <1>2, <3>1, <3>2 DEF HostCheck, TypeOK
  <2> QED
    BY <1>2, <2>1 DEF HostCheck, TypeOK, memory, roster_db, observed
<1>3. CASE HostLoadMek(h)
  <2>1. host' \in [Hosts -> Host]
    BY <1>0, <1>3 DEF HostLoadMek, TypeOK, Host, HostPc
  <2> QED
    BY <1>3, <2>1 DEF HostLoadMek, TypeOK, memory, database, observed
<1>4. CASE HostCreateMek(h)
  <2>1. [generation |-> 1, key |-> keys + 1] \in Mek
    BY DEF Mek, TypeOK
  <2>2. host' \in [Hosts -> Host] /\ server_mek' \subseteq Mek /\ keys' \in Nat
    <3> DEFINE new == [generation |-> 1, key |-> keys + 1]
    <3>1. [host EXCEPT ![h].pc = "load", ![h].mek = new] \in [Hosts -> Host]
      <4> HIDE DEF new
      <4> QED
        BY <1>0, <2>1 DEF new, TypeOK, Host, HostPc
    <3>2. {k \in server_mek : k.generation # 1} \cup {new} \subseteq Mek
      BY <2>1 DEF TypeOK
    <3> QED
      BY <1>4, <3>1, <3>2 DEF HostCreateMek, TypeOK
  <2> QED
    BY <1>4, <2>2 DEF HostCreateMek, TypeOK, memory, roster_db
<1>5. CASE HostLoadMembers(h)
  <2>1. host' \in [Hosts -> Host]
    BY <1>0, <1>5, PersistedRosterType DEF HostLoadMembers, TypeOK, Host, HostPc
  <2> QED
    BY <1>5, <2>1 DEF HostLoadMembers, TypeOK, memory, database, observed
<1>6. CASE HostRegisterCreator(h)
  <2> DEFINE p == host[h].key
  <2>1. CASE MustRegister(h)
    <3>1. p \in Pseudonym /\ OwnerRoleIds \in SUBSET RoleId
      BY <1>0, <2>1 DEF MustRegister, Host, OwnerRoleIds
    <3>2. [host[h].members EXCEPT ![p] = Append(@, OwnerRoleIds)] \in Roster
      BY <1>0, <3>1, PushType, Zenon
    <3>3. host' \in [Hosts -> Host]
      BY <1>0, <1>6, <2>1, <3>1, <3>2 DEF HostRegisterCreator, TypeOK, Host, HostPc
    <3>4. /\ server_members' \subseteq Pseudonym
          /\ server_member_roles' \subseteq Pseudonym \X RoleId
      BY <1>6, <2>1, <3>1, InsertTypes DEF HostRegisterCreator, TypeOK
    <3> QED
      BY <1>6, <2>1, <3>1, <3>3, <3>4 DEF HostRegisterCreator, TypeOK, memory
  <2>2. CASE ~MustRegister(h)
    <3>1. host' \in [Hosts -> Host]
      BY <1>0, <1>6, <2>2 DEF HostRegisterCreator, TypeOK, Host, HostPc
    <3> QED
      BY <1>6, <2>2, <3>1 DEF HostRegisterCreator, TypeOK, memory, roster_db
  <2> QED
    BY <2>1, <2>2
<1>7. CASE HostInsert(h)
  <2>1. host' \in [Hosts -> Host] /\ members' \in Roster
    BY <1>0, <1>7, IdleTypes DEF HostInsert, TypeOK
  <2>2. creator' \in Pseudonym \cup {NoOne} /\ mek' \in Mek
    BY <1>0, <1>7 DEF HostInsert, Host
  <2> QED
    BY <1>7, <2>1, <2>2 DEF HostInsert, TypeOK, database, observed
<1> QED
  BY <1>1, <1>2, <1>3, <1>4, <1>5, <1>6, <1>7 DEF HostStep

LEMMA LoseMemoryTypes ==
    ASSUME LoseMemory
    PROVE  /\ hosted' \in BOOLEAN /\ members' \in Roster /\ mek' \in Mek
           /\ creator' \in Pseudonym \cup {NoOne}
           /\ OpOK' /\ host' \in [Hosts -> Host]
<1>1. OpOK' /\ host' \in [Hosts -> Host]
  BY IdleTypes DEF LoseMemory, OpOK, IdleOp
<1> QED
  BY <1>1, IdleTypes DEF LoseMemory

LEMMA CrashTypes ==
    ASSUME TypeOK, CrashStep
    PROVE  TypeOK'
<1>1. CASE Crash
  BY <1>1, LoseMemoryTypes DEF Crash, TypeOK, OpOK, database, observed
<1>2. ASSUME NEW p \in Pseudonym, NEW R \in SUBSET RoleId, InsertMember(p, R), LoseMemory,
             UNCHANGED <<row, banned_members, server_roles, server_mek, observed>>,
             UNCHANGED creator_pseudonym
      PROVE  TypeOK'
  <2>1. /\ server_members' \subseteq Pseudonym
        /\ server_member_roles' \subseteq Pseudonym \X RoleId
    BY <1>2, InsertTypes DEF TypeOK
  <2> QED
    BY <1>2, <2>1, LoseMemoryTypes DEF TypeOK, OpOK, observed
<1>3. ASSUME NEW p \in Pseudonym, NEW Q \in SUBSET RoleId, TornInsert(p, Q)
      PROVE  TypeOK'
  <2>1. PICK n \in RoleId : InsertMember(p, {r \in Q : r < n})
    BY <1>3 DEF TornInsert
  <2>2. {r \in Q : r < n} \in SUBSET RoleId
    OBVIOUS
  <2> QED
    BY <1>2, <1>3, <2>1, <2>2 DEF TornInsert
<1>4. ASSUME NEW s \in Slot, CrashInJoin(s) PROVE TypeOK'
  BY <1>3, <1>4, JoinRoleTypes DEF CrashInJoin, TypeOK
<1>5. ASSUME NEW h \in Hosts, CrashInRegister(h) PROVE TypeOK'
  <2>1. host[h].key \in Pseudonym /\ OwnerRoleIds \in SUBSET RoleId
    BY <1>5 DEF CrashInRegister, MustRegister, TypeOK, Host, OwnerRoleIds
  <2>2. CASE TornInsert(host[h].key, OwnerRoleIds)
    BY <1>3, <2>1, <2>2
  <2>3. CASE ~TornInsert(host[h].key, OwnerRoleIds)
    BY <1>2, <1>5, <2>1, <2>3 DEF CrashInRegister
  <2> QED
    BY <2>2, <2>3
<1> QED
  BY <1>1, <1>4, <1>5 DEF CrashStep

LEMMA TypeNext ==
    ASSUME TypeOK, [Next]_vars
    PROVE  TypeOK'
<1>1. CASE UNCHANGED vars
  BY <1>1 DEF TypeOK, vars, memory, database, observed
<1>2. CASE Next
  BY <1>2, JoinTypes, RemoveTypes, AtomicTypes, HostTypes, CrashTypes
     DEF Next
<1> QED
  BY <1>1, <1>2

\* Every handler, host_community and every crash keep the server's state, its
\* database and the tasks in flight well-formed: in particular a request past
\* its first check always names a pseudonym to act on.
THEOREM TypeCorrect == Spec => []TypeOK
<1> QED
  BY TypeInit, TypeNext, PTL DEF Spec

-----------------------------------------------------------------------------
(* The keys, when host_community calls do not overlap.                     *)

LEMMA KeyInit == Init => KeyInv
BY DEF Init, KeyInv, IdleHost, DeliveredKeysPersisted

\* Whatever leaves hosting, the key table and the served key alone may still
\* hand the served key out.
LEMMA KeyDelivery ==
    ASSUME KeyInv, UNCHANGED <<hosted, mek, server_mek, host>>,
           \A p \in Pseudonym : known'[p] \subseteq known[p] \cup (IF hosted THEN {mek} ELSE {})
    PROVE  KeyInv'
<1>1. DeliveredKeysPersisted'
  BY DEF KeyInv, DeliveredKeysPersisted, Newest
<1> QED
  BY <1>1 DEF KeyInv, Newest

\* A rotation stores a generation that was never used.
LEMMA RotationIsNew ==
    ASSUME TypeOK, KeyInv, hosted, RotateMek
    PROVE  /\ mek' \notin server_mek /\ mek'.generation = mek.generation + 1
           /\ server_mek' = server_mek \cup {mek'}
           /\ \A k \in server_mek : k.generation < mek'.generation
<1> DEFINE new == [generation |-> mek.generation + 1, key |-> keys + 1]
<1>1. \A k \in server_mek : k.generation <= mek.generation
  BY DEF KeyInv, Newest
<1>2. mek.generation \in Nat /\ \A k \in server_mek : k.generation \in Nat
  BY DEF TypeOK, Mek
<1>3. new.generation = mek.generation + 1
  OBVIOUS
<1>4. \A k \in server_mek : k.generation < new.generation
  BY <1>1, <1>2
<1>5. mek' = new /\ server_mek' = server_mek \cup {new}
  BY <1>2, <1>4 DEF RotateMek
<1> QED
  BY <1>2, <1>3, <1>4, <1>5

LEMMA KeyRotation ==
    ASSUME TypeOK, KeyInv, hosted, RotateMek, UNCHANGED <<hosted, host, known>>
    PROVE  KeyInv'
<1> USE RotationIsNew
<1>1. DeliveredKeysPersisted'
  BY DEF KeyInv, DeliveredKeysPersisted
<1>2. \A j, k \in server_mek' : j.generation = k.generation => j = k
  BY DEF KeyInv, TypeOK, Mek
<1>3. Newest(mek)'
  BY DEF KeyInv, Newest, TypeOK, Mek
<1>4. \A h \in Hosts : host[h].pc \in {"idle", "check"}
  BY DEF KeyInv
<1> QED
  BY <1>1, <1>2, <1>3, <1>4 DEF KeyInv

LEMMA KeyHost ==
    ASSUME HostRace = FALSE, TypeOK, KeyInv, NEW h \in Hosts, HostStep(h)
    PROVE  KeyInv'
<1>0. host \in [Hosts -> Host]
  BY DEF TypeOK
<1>1. CASE HostBegin(h)
  <2>1. \A g \in Hosts : host[g].pc = "idle"
    BY <1>1 DEF HostBegin
  <2>2. host'[h].pc = "check" /\ \A g \in Hosts \ {h} : host'[g] = host[g]
    BY <1>0, <1>1 DEF HostBegin
  <2>3. UNCHANGED <<hosted, mek, server_mek, known>>
    BY <1>1 DEF HostBegin, memory, database, observed
  <2> QED
    BY <2>1, <2>2, <2>3 DEF KeyInv, Newest, DeliveredKeysPersisted
<1>2. CASE HostCheck(h)
  <2>1. /\ \A g \in Hosts \ {h} : host'[g] = host[g] /\ host[g].pc = "idle"
        /\ hosted => host'[h].pc = "idle"
        /\ ~hosted => host'[h].pc = "mek"
    <3>1. \A g \in Hosts \ {h} : host[g].pc = "idle"
      BY <1>2 DEF HostCheck, KeyInv
    <3>2. IdleHost.pc = "idle"
      BY DEF IdleHost
    <3>3. CASE hosted
      BY <1>0, <1>2, <3>1, <3>2, <3>3 DEF HostCheck
    <3>4. CASE ~hosted
      <4>1. host' = [host EXCEPT ![h].pc = "mek"] /\ host[h] \in Host
        BY <1>0, <1>2, <3>4 DEF HostCheck
      <4>2. host'[h] = [host[h] EXCEPT !.pc = "mek"]
        BY <1>0, <4>1
      <4> QED
        BY <1>0, <3>1, <3>4, <4>1, <4>2 DEF Host
    <3> QED
      BY <3>3, <3>4
  <2>2. UNCHANGED <<hosted, mek, server_mek, known>>
    BY <1>2 DEF HostCheck, memory, observed
  <2> QED
    BY <2>1, <2>2 DEF KeyInv, Newest, DeliveredKeysPersisted
<1>3. CASE HostLoadMek(h)
  <2>1. /\ \A g \in Hosts \ {h} : host'[g] = host[g] /\ host[g].pc = "idle"
        /\ ~hosted
    BY <1>0, <1>3 DEF HostLoadMek, KeyInv
  <2>2. UNCHANGED <<hosted, mek, server_mek, known>>
    BY <1>3 DEF HostLoadMek, memory, database, observed
  <2>3. \/ server_mek = {} /\ host'[h].pc = "create"
        \/ host'[h].pc = "load" /\ Newest(host'[h].mek)
    <3>1. CASE server_mek = {}
      <4>1. host' = [host EXCEPT ![h].pc = "create"] /\ host[h] \in Host
        BY <1>0, <1>3, <3>1 DEF HostLoadMek
      <4>2. host'[h] = [host[h] EXCEPT !.pc = "create"]
        BY <1>0, <4>1
      <4> QED
        BY <3>1, <4>1, <4>2 DEF Host
    <3>2. CASE server_mek # {}
      <4>1. PICK k \in server_mek :
               /\ \A j \in server_mek : j.generation <= k.generation
               /\ host' = [host EXCEPT ![h].pc = "load", ![h].mek = k]
        BY <1>3, <3>2 DEF HostLoadMek
      <4>2. host'[h] = [host[h] EXCEPT !.pc = "load", !.mek = k]
        BY <1>0, <4>1
      <4>3. host[h] \in Host
        BY <1>0
      <4>4. host'[h].pc = "load" /\ host'[h].mek = k
        BY <4>2, <4>3 DEF Host
      <4> QED
        BY <4>1, <4>4 DEF Newest
    <3> QED
      BY <3>1, <3>2
  <2> QED
    BY <2>1, <2>2, <2>3 DEF KeyInv, Newest, DeliveredKeysPersisted
<1>4. CASE HostCreateMek(h)
  <2> DEFINE new == [generation |-> 1, key |-> keys + 1]
  <2>1. /\ \A g \in Hosts \ {h} : host'[g] = host[g] /\ host[g].pc = "idle"
        /\ ~hosted /\ server_mek = {}
    BY <1>0, <1>4 DEF HostCreateMek, KeyInv
  <2>2. UNCHANGED <<hosted, mek, known>> /\ server_mek' = {new}
    BY <1>4, <2>1 DEF HostCreateMek, memory
  <2>3. host'[h].pc = "load" /\ host'[h].mek = new
    BY <1>0, <1>4 DEF HostCreateMek, Host
  <2>4. \A p \in Pseudonym : known[p] = {}
    BY <2>1 DEF KeyInv, DeliveredKeysPersisted, TypeOK
  <2>5. new.generation \in Nat
    OBVIOUS
  <2> HIDE DEF new
  <2> QED
    BY <2>1, <2>2, <2>3, <2>4, <2>5 DEF KeyInv, Newest, DeliveredKeysPersisted
<1>5. CASE HostLoadMembers(h) \/ HostRegisterCreator(h)
  <2>1. /\ \A g \in Hosts \ {h} : host'[g] = host[g] /\ host[g].pc = "idle"
        /\ ~hosted /\ host[h].pc \in {"load", "setup"}
    BY <1>0, <1>5 DEF HostLoadMembers, HostRegisterCreator, KeyInv
  <2>2. UNCHANGED <<hosted, mek, server_mek, known>>
    BY <1>5 DEF HostLoadMembers, HostRegisterCreator, memory, database, observed
  <2>3. host'[h].pc \in {"setup", "insert"} /\ host'[h].mek = host[h].mek
    <3>1. host[h] \in Host
      BY <1>0
    <3>2. CASE HostLoadMembers(h)
      BY <1>0, <3>1, <3>2 DEF HostLoadMembers, Host
    <3>3. CASE HostRegisterCreator(h) /\ MustRegister(h)
      <4> DEFINE p == host[h].key
      <4>1. host' = [host EXCEPT ![h].pc = "insert", ![h].creator = p,
                                 ![h].members[p] = Append(@, OwnerRoleIds)]
        BY <3>3 DEF HostRegisterCreator
      <4> QED
        BY <1>0, <3>1, <4>1 DEF Host
    <3>4. CASE HostRegisterCreator(h) /\ ~MustRegister(h)
      BY <1>0, <3>1, <3>4 DEF HostRegisterCreator, Host
    <3> QED
      BY <1>5, <3>2, <3>3, <3>4
  <2> QED
    BY <2>1, <2>2, <2>3 DEF KeyInv, Newest, DeliveredKeysPersisted
<1>6. CASE HostInsert(h)
  <2>1. /\ \A g \in Hosts : host'[g].pc = "idle"
        /\ hosted' /\ mek' = host[h].mek /\ Newest(host[h].mek)
    BY <1>0, <1>6 DEF HostInsert, IdleHost, KeyInv
  <2>2. UNCHANGED <<server_mek, known>>
    BY <1>6 DEF HostInsert, database, observed
  <2> QED
    BY <2>1, <2>2 DEF KeyInv, Newest, DeliveredKeysPersisted
<1> QED
  BY <1>1, <1>2, <1>3, <1>4, <1>5, <1>6 DEF HostStep

LEMMA KeyCrash ==
    ASSUME KeyInv, CrashStep
    PROVE  KeyInv'
<1>1. LoseMemory /\ UNCHANGED <<server_mek, known>>
  BY DEF CrashStep, Crash, CrashInJoin, CrashInRegister, TornInsert, database, observed
<1>2. ~hosted' /\ \A h \in Hosts : host'[h].pc = "idle"
  BY <1>1 DEF LoseMemory, IdleHost
<1> QED
  BY <1>1, <1>2 DEF KeyInv, Newest, DeliveredKeysPersisted

LEMMA KeyNext ==
    ASSUME HostRace = FALSE, TypeOK, KeyInv, [Next]_vars
    PROVE  KeyInv'
<1>1. CASE UNCHANGED vars
  BY <1>1, KeyDelivery DEF vars, memory, database, observed
<1>2. ASSUME NEW s \in Slot, JoinStep(s) PROVE KeyInv'
  <2>1. op[s].pc # "idle" => op[s].who \in Pseudonym
    BY DEF TypeOK
  <2>2. UNCHANGED <<hosted, mek, server_mek, host>>
    BY <1>2 DEF JoinStep, JoinCheckBan, JoinRejoin, JoinReadFirst, JoinInsert, JoinPush,
                memory, database
  <2>3. \A p \in Pseudonym : known'[p] \subseteq known[p] \cup (IF hosted THEN {mek} ELSE {})
    BY <1>2, <2>1 DEF JoinStep, JoinCheckBan, JoinRejoin, JoinReadFirst, JoinInsert,
                JoinPush, Deliver, observed, TypeOK
  <2> QED
    BY <2>2, <2>3, KeyDelivery
<1>3. ASSUME NEW s \in Slot, RemoveStep(s) PROVE KeyInv'
  <2>1. CASE hosted /\ RemoveRetain(s)
    BY <2>1, KeyRotation DEF RemoveRetain
  <2>2. CASE ~(hosted /\ RemoveRetain(s))
    <3>1. UNCHANGED <<hosted, mek, server_mek, host, known>>
      BY <1>3, <2>2 DEF RemoveStep, Leave, Kick, Ban, BanInsert, RemoveVerify, RemoveDelete,
                  RemoveRetain, memory, database, observed
    <3> QED
      BY <3>1, KeyDelivery
  <2> QED
    BY <2>1, <2>2
<1>5. CASE AtomicStep
  <2>1. ASSUME NEW p \in Pseudonym, RequestMek(p) PROVE KeyInv'
    <3>1. UNCHANGED <<hosted, mek, server_mek, host>> /\ hosted
      BY <2>1 DEF RequestMek, memory, database
    <3>2. \A q \in Pseudonym : known'[q] \subseteq known[q] \cup {mek}
      BY <2>1 DEF RequestMek, Deliver, TypeOK
    <3> QED
      BY <3>1, <3>2, KeyDelivery
  <2>2. ASSUME NEW p \in Pseudonym, RotateMekRequest(p) PROVE KeyInv'
    BY <2>2, KeyRotation DEF RotateMekRequest
  <2>3. ASSUME NEW p \in Pseudonym, NEW t \in Pseudonym, NEW r \in RoleId,
               Unban(p, t) \/ AssignRole(p, t, r) \/ UnassignRole(p, t, r)
        PROVE  KeyInv'
    <3>1. UNCHANGED <<hosted, mek, server_mek, host, known>>
      BY <2>3 DEF Unban, AssignRole, UnassignRole, memory, observed
    <3> QED
      BY <3>1, KeyDelivery
  <2>4. ASSUME NEW p \in Pseudonym, NEW e \in Edits, EditRole(p, e[1], e[2]) PROVE KeyInv'
    <3>1. UNCHANGED <<hosted, mek, server_mek, host, known>>
      BY <2>4 DEF EditRole, memory, observed
    <3> QED
      BY <3>1, KeyDelivery
  <2>5. 0 \in RoleId /\ Named \subseteq RoleId
    BY EditsAssumption DEF RoleId
  <2> QED
    BY <1>5, <2>1, <2>2, <2>3, <2>4, <2>5 DEF AtomicStep
<1> QED
  BY <1>1, <1>2, <1>3, <1>5, KeyHost, KeyCrash DEF Next

LEMMA KeyInvariant ==
    ASSUME HostRace = FALSE
    PROVE  Spec => [](TypeOK /\ KeyInv)
<1>1. Init => TypeOK /\ KeyInv
  BY TypeInit, KeyInit
<1>2. TypeOK /\ KeyInv /\ [Next]_vars => (TypeOK /\ KeyInv)'
  BY TypeNext, KeyNext
<1> QED
  BY <1>1, <1>2, PTL DEF Spec

LEMMA KeyFacts ==
    TypeOK /\ KeyInv => DeliveredKeysPersisted /\ GenerationNamesOneKey /\ ServedKeyIsNewest
BY DEF KeyInv, Newest, DeliveredKeysPersisted, GenerationNamesOneKey, ServedKeyIsNewest

\* As long as two host_community calls never overlap, and however often the
\* process dies: no key that was handed out is lost.
THEOREM KeysSurviveRestarts ==
    ASSUME HostRace = FALSE
    PROVE  Spec => []DeliveredKeysPersisted
BY KeyFacts, KeyInvariant, PTL

\* Nor does rotate_mek or create_initial_mek ever use a generation number for
\* a second key, after a restart either.
THEOREM GenerationsAreUnique ==
    ASSUME HostRace = FALSE
    PROVE  Spec => []GenerationNamesOneKey
BY KeyFacts, KeyInvariant, PTL

\* And load_latest_mek continues with the newest key: the one served.
THEOREM ServesTheNewestKey ==
    ASSUME HostRace = FALSE
    PROVE  Spec => []ServedKeyIsNewest
BY KeyFacts, KeyInvariant, PTL

-----------------------------------------------------------------------------
(* Who holds the served key, when the process does not die either.         *)

LEMMA HolderInit == Init => HolderInv
BY DEF Init, HolderInv, Installed, IdleHost, CurrentKeyHoldersBelong

\* Nothing that HolderInv speaks about changes, except that someone may gain
\* a place in the roster or be installed.
LEMMA HolderQuiet ==
    ASSUME HolderInv, UNCHANGED <<hosted, creator, creator_pseudonym, mek, server_mek, host, known, founders>>,
           \A p \in Pseudonym : InRoster(p) => InRoster(p)'
    PROVE  HolderInv'
BY DEF HolderInv, Installed, CurrentKeyHoldersBelong

\* The served key is handed to someone who belongs.
LEMMA HolderDelivery ==
    ASSUME TypeOK, HolderInv, NEW p \in Pseudonym, hosted, Deliver(p, mek),
           InRoster(p)' \/ p \in founders',
           UNCHANGED <<hosted, mek, server_mek, host>>,
           founders \subseteq founders',
           Installed(creator)', Installed(creator_pseudonym)',
           \A q \in Pseudonym : InRoster(q) => InRoster(q)'
    PROVE  HolderInv'
<1>1. \A q \in Pseudonym : mek \in known'[q] => mek \in known[q] \/ q = p
  BY DEF Deliver, TypeOK
<1>2. CurrentKeyHoldersBelong'
  BY <1>1 DEF HolderInv, CurrentKeyHoldersBelong
<1> QED
  BY <1>2 DEF HolderInv, Installed

\* A push puts its subject into the roster and takes nobody out.
LEMMA PushEnters ==
    ASSUME TypeOK, NEW p \in Pseudonym, NEW R \in SUBSET RoleId,
           members' = [members EXCEPT ![p] = Append(@, R)]
    PROVE  InRoster(p)' /\ \A q \in Pseudonym : InRoster(q) => InRoster(q)'
<1>1. members \in [Pseudonym -> Seq(SUBSET RoleId)]
  BY DEF TypeOK, Roster
<1>2. members[p] \in Seq(SUBSET RoleId)
  BY <1>1
<1>3. Append(members[p], R) # << >>
  BY <1>2, AppendProperties
<1>4. members'[p] = Append(members[p], R) /\ \A q \in Pseudonym \ {p} : members'[q] = members[q]
  BY <1>1
<1> QED
  BY <1>3, <1>4 DEF InRoster

\* After a rotation nobody holds the served key.
LEMMA HolderRotation ==
    ASSUME TypeOK, KeyInv, HolderInv, hosted, RotateMek,
           UNCHANGED <<hosted, creator, creator_pseudonym, host, known, founders>>
    PROVE  HolderInv' /\ \A p \in Pseudonym : mek' \notin known'[p]
<1>1. \A p \in Pseudonym : mek' \notin known'[p]
  BY RotationIsNew DEF KeyInv, DeliveredKeysPersisted
<1> QED
  BY <1>1 DEF HolderInv, Installed, CurrentKeyHoldersBelong

LEMMA HolderHost ==
    ASSUME TypeOK, KeyInv, HolderInv, NEW h \in Hosts, HostStep(h)
    PROVE  HolderInv'
<1>0. host \in [Hosts -> Host] /\ host[h] \in Host
  BY DEF TypeOK
<1>1. ASSUME UNCHANGED <<hosted, creator, mek, known>>,
             server_mek' = server_mek \/ (~hosted /\ \A k \in server_mek' : k.generation = 1),
             founders \subseteq founders', Installed(creator_pseudonym)',
             \A g \in Hosts : Installed(host[g].creator) => Installed(host[g].creator)',
             UNCHANGED members
      PROVE  HolderInv'
  BY <1>1 DEF HolderInv, Installed, CurrentKeyHoldersBelong, InRoster
<1>2. CASE HostBegin(h) \/ HostCheck(h) \/ HostLoadMek(h) \/ HostLoadMembers(h)
  <2>1. UNCHANGED <<hosted, members, creator, creator_pseudonym, mek, server_mek, known, founders>>
    BY <1>2 DEF HostBegin, HostCheck, HostLoadMek, HostLoadMembers, memory, database, observed
  <2>2. \A g \in Hosts : host'[g].creator \in {host[g].creator, NoOne}
    <3>1. CASE HostBegin(h) \/ HostLoadMembers(h)
      BY <1>0, <3>1 DEF HostBegin, HostLoadMembers, Host
    <3>2. CASE HostCheck(h)
      <4>1. host' = [host EXCEPT ![h] = IdleHost] \/ host' = [host EXCEPT ![h].pc = "mek"]
        BY <3>2 DEF HostCheck
      <4>2. IdleHost.creator = NoOne
        BY DEF IdleHost
      <4>3. CASE host' = [host EXCEPT ![h] = IdleHost]
        BY <1>0, <4>2, <4>3
      <4>4. CASE host' = [host EXCEPT ![h].pc = "mek"]
        BY <1>0, <4>4 DEF Host
      <4> QED
        BY <4>1, <4>3, <4>4
    <3>3. CASE HostLoadMek(h)
      <4>1. \/ host' = [host EXCEPT ![h].pc = "create"]
            \/ \E k : host' = [host EXCEPT ![h].pc = "load", ![h].mek = k]
        BY <3>3 DEF HostLoadMek
      <4> QED
        BY <1>0, <4>1 DEF Host
    <3> QED
      BY <1>2, <3>1, <3>2, <3>3
  <2>3. Installed(creator_pseudonym)'
    BY <2>1 DEF HolderInv, Installed
  <2>4. \A g \in Hosts : Installed(host[g].creator) => Installed(host[g].creator)'
    BY <2>1, <2>2 DEF Installed
  <2> QED
    BY <1>1, <2>1, <2>3, <2>4
<1>3. CASE HostCreateMek(h)
  <2>1. ~hosted /\ server_mek = {}
    BY <1>3 DEF HostCreateMek, KeyInv
  <2>2. \A k \in server_mek' : k.generation = 1
    BY <1>3, <2>1 DEF HostCreateMek
  <2>3. UNCHANGED <<hosted, members, creator, creator_pseudonym, mek, known, founders>>
    BY <1>3 DEF HostCreateMek, memory
  <2>4. \A g \in Hosts : host'[g].creator = host[g].creator
    BY <1>0, <1>3 DEF HostCreateMek, Host
  <2> QED
    BY <1>1, <2>1, <2>2, <2>3, <2>4 DEF HolderInv, Installed
<1>4. CASE HostRegisterCreator(h)
  <2>1. UNCHANGED <<hosted, members, creator, mek, server_mek, known>>
    BY <1>4 DEF HostRegisterCreator, memory
  <2>2. founders \subseteq founders' /\ Installed(creator_pseudonym)'
    BY <1>4 DEF HostRegisterCreator, HolderInv, Installed
  <2>3. \A g \in Hosts : Installed(host[g].creator) => Installed(host[g].creator)'
    <3>1. CASE MustRegister(h)
      <4> DEFINE p == host[h].key
      <4>1. host' = [host EXCEPT ![h].pc = "insert", ![h].creator = p,
                                 ![h].members[p] = Append(@, OwnerRoleIds)]
        BY <1>4, <3>1 DEF HostRegisterCreator
      <4>2. host'[h].creator = p /\ \A g \in Hosts \ {h} : host'[g] = host[g]
        BY <1>0, <4>1 DEF Host
      <4>3. p \in founders'
        BY <1>4, <3>1 DEF HostRegisterCreator
      <4> QED
        BY <2>2, <4>2, <4>3 DEF Installed
    <3>2. CASE ~MustRegister(h)
      <4>1. host'[h].creator = creator_pseudonym /\ \A g \in Hosts \ {h} : host'[g] = host[g]
        BY <1>0, <1>4, <3>2 DEF HostRegisterCreator, Host
      <4> QED
        BY <2>2, <4>1, <1>4, <3>2 DEF Installed, HolderInv, HostRegisterCreator
    <3> QED
      BY <3>1, <3>2
  <2> QED
    BY <1>1, <2>1, <2>2, <2>3
<1>5. CASE HostInsert(h)
  <2>1. ~hosted /\ hosted'
    BY <1>5 DEF HostInsert, KeyInv
  <2>2. \A p \in Pseudonym : known'[p] = {}
    BY <1>5, <2>1 DEF HostInsert, HolderInv, observed
  <2>3. UNCHANGED <<creator_pseudonym, founders>> /\ creator' = host[h].creator
    BY <1>5 DEF HostInsert, database, observed
  <2>4. \A g \in Hosts : host'[g].creator \in {host[g].creator, NoOne}
    BY <1>0, <1>5 DEF HostInsert, IdleHost
  <2> QED
    BY <2>1, <2>2, <2>3, <2>4 DEF HolderInv, Installed, CurrentKeyHoldersBelong
<1> QED
  BY <1>2, <1>3, <1>4, <1>5 DEF HostStep

LEMMA HolderNext ==
    ASSUME Crashes = FALSE, TypeOK, KeyInv, HolderInv, [Next]_vars
    PROVE  HolderInv'
<1>1. CASE UNCHANGED vars
  BY <1>1, HolderQuiet DEF vars, memory, database, observed, InRoster
<1>2. ASSUME NEW s \in Slot, JoinStep(s) PROVE HolderInv'
  <2>0. op[s].pc # "idle" => op[s].who \in Pseudonym
    BY DEF TypeOK
  <2>1. CASE JoinRejoin(s) /\ hosted /\ InRoster(op[s].who)
    <3>1. op[s].who \in Pseudonym /\ Deliver(op[s].who, mek) /\ UNCHANGED <<memory, database, host, founders>>
      BY <2>0, <2>1 DEF JoinRejoin
    <3> QED
      BY <2>1, <3>1, HolderDelivery DEF memory, database, InRoster, HolderInv, Installed
  <2>2. CASE JoinPush(s) /\ hosted
    <3>0. PICK p \in Pseudonym : p = op[s].who
      BY <2>0, <2>2 DEF JoinPush
    <3>1. /\ Deliver(p, mek) /\ UNCHANGED <<hosted, mek, server_mek, host>>
          /\ members' = [members EXCEPT ![p] = Append(@, JoinRoleIds(s))]
      BY <2>2, <3>0 DEF JoinPush
    <3>2. founders \subseteq founders' /\ Installed(creator)' /\ Installed(creator_pseudonym)'
      BY <2>2 DEF JoinPush, HolderInv, Installed
    <3>3. JoinRoleIds(s) \in SUBSET RoleId
      BY JoinRoleTypes
    <3>4. InRoster(p)' /\ \A q \in Pseudonym : InRoster(q) => InRoster(q)'
      BY <3>1, <3>3, PushEnters
    <3>5. InRoster(p)' \/ p \in founders'
      BY <3>4
    <3>6. /\ Deliver(p, mek) /\ UNCHANGED <<hosted, mek, server_mek, host>>
          /\ \A q \in Pseudonym : InRoster(q) => InRoster(q)'
      BY <3>1, <3>4
    <3> QED
      BY <2>2, <3>1, <3>2, <3>5, <3>6, HolderDelivery
  <2>3. CASE ~(JoinRejoin(s) /\ hosted /\ InRoster(op[s].who)) /\ ~(JoinPush(s) /\ hosted)
    <3>1. UNCHANGED <<hosted, creator, creator_pseudonym, mek, server_mek, host, known, founders, members>>
      BY <1>2, <2>3 DEF JoinStep, JoinCheckBan, JoinRejoin, JoinReadFirst, JoinInsert, JoinPush,
                  memory, database, observed
    <3> QED
      BY <3>1, HolderQuiet DEF InRoster
  <2> QED
    BY <2>1, <2>2, <2>3
<1>3. ASSUME NEW s \in Slot, RemoveStep(s) PROVE HolderInv'
  <2>1. CASE hosted /\ RemoveRetain(s)
    BY <2>1, HolderRotation DEF RemoveRetain
  <2>2. CASE ~(hosted /\ RemoveRetain(s))
    <3>1. UNCHANGED <<hosted, creator, creator_pseudonym, mek, server_mek, host, known, founders, members>>
      BY <1>3, <2>2 DEF RemoveStep, Leave, Kick, Ban, BanInsert, RemoveVerify, RemoveDelete,
                  RemoveRetain, memory, database, observed
    <3> QED
      BY <3>1, HolderQuiet DEF InRoster
  <2> QED
    BY <2>1, <2>2
<1>5. CASE AtomicStep
  <2>1. ASSUME NEW p \in Pseudonym, RequestMek(p) PROVE HolderInv'
    <3>1. Deliver(p, mek) /\ hosted /\ UNCHANGED <<memory, database, host, founders>>
      BY <2>1 DEF RequestMek
    <3>2. InRoster(p) \/ p \in founders
      BY <2>1 DEF RequestMek, IsMember, HolderInv, Installed
    <3> QED
      BY <3>1, <3>2, HolderDelivery DEF memory, database, InRoster, HolderInv, Installed
  <2>2. ASSUME NEW p \in Pseudonym, RotateMekRequest(p) PROVE HolderInv'
    BY <2>2, HolderRotation DEF RotateMekRequest
  <2>3. ASSUME NEW p \in Pseudonym, NEW t \in Pseudonym, Unban(p, t) PROVE HolderInv'
    BY <2>3, HolderQuiet DEF Unban, memory, observed, InRoster
  <2>4. ASSUME NEW p \in Pseudonym, NEW t \in Pseudonym, NEW r \in RoleId,
               AssignRole(p, t, r) \/ UnassignRole(p, t, r)
        PROVE  HolderInv'
    <3>1. UNCHANGED <<hosted, creator, creator_pseudonym, mek, server_mek, host, known, founders>>
      BY <2>4 DEF AssignRole, UnassignRole, observed
    <3> QED
      BY <2>4, <3>1, RoleEdit, HolderQuiet
  <2>5. ASSUME NEW p \in Pseudonym, NEW e \in Edits, EditRole(p, e[1], e[2]) PROVE HolderInv'
    BY <2>5, HolderQuiet DEF EditRole, memory, observed, InRoster
  <2> QED
    BY <1>5, <2>1, <2>2, <2>3, <2>4, <2>5, EditsAssumption DEF AtomicStep
<1>6. ~CrashStep
  BY DEF CrashStep, Crash, CrashInJoin, CrashInRegister, TornInsert, LoseMemory
<1> QED
  BY <1>1, <1>2, <1>3, <1>5, <1>6, HolderHost DEF Next

LEMMA HolderInvariant ==
    ASSUME HostRace = FALSE, Crashes = FALSE
    PROVE  Spec => [](TypeOK /\ KeyInv /\ HolderInv)
<1>1. Init => TypeOK /\ KeyInv /\ HolderInv
  BY TypeInit, KeyInit, HolderInit
<1>2. TypeOK /\ KeyInv /\ HolderInv /\ [Next]_vars => (TypeOK /\ KeyInv /\ HolderInv)'
  BY TypeNext, KeyNext, HolderNext
<1> QED
  BY <1>1, <1>2, PTL DEF Spec

\* In a run of the process without a crash, with any number of requests in
\* flight: whoever knows the key that protects new messages is in the roster
\* or has been the creator.
THEOREM HoldersBelong ==
    ASSUME HostRace = FALSE, Crashes = FALSE
    PROVE  Spec => []CurrentKeyHoldersBelong
<1>1. HolderInv => CurrentKeyHoldersBelong
  BY DEF HolderInv
<1> QED
  BY <1>1, HolderInvariant, PTL
-----------------------------------------------------------------------------
(* The handlers implement MembershipKeys.                                  *)

Inside  == {p \in Pseudonym : InRoster(p)}
Holders == {p \in Pseudonym : hosted /\ mek \in known[p]}

\* A step of the abstract server, in terms of the state of this one.
AbstractStep == [Promise!ANext]_Promise!avars

\* What the abstract server does not see.
LEMMA Unseen ==
    ASSUME UNCHANGED <<hosted, founders, mek, known>>,
           \A p \in Pseudonym : InRoster(p)' <=> InRoster(p)
    PROVE  AbstractStep
<1>1. Inside' = Inside /\ Holders' = Holders
  BY DEF Inside, Holders
<1> QED
  BY <1>1 DEF AbstractStep, Promise!avars, Inside, Holders

LEMMA HandsKey ==
    ASSUME TypeOK, NEW p \in Pseudonym, hosted, InRoster(p) \/ p \in founders, Deliver(p, mek),
           UNCHANGED <<hosted, members, founders, mek>>
    PROVE  AbstractStep
<1>1. Inside' = Inside /\ p \in Inside \cup founders
  BY DEF Inside, InRoster
<1>2. Holders' = Holders \cup {p}
  BY DEF Holders, Deliver, TypeOK
<1>3. Promise!HandKey(p)
  BY <1>1, <1>2 DEF Promise!HandKey, Inside, Holders
<1> QED
  BY <1>3 DEF AbstractStep, Promise!ANext

LEMMA Admits ==
    ASSUME TypeOK, NEW p \in Pseudonym, NEW R \in SUBSET RoleId, hosted, Deliver(p, mek),
           members' = [members EXCEPT ![p] = Append(@, R)],
           founders' \in {founders, founders \cup {p}},
           UNCHANGED <<hosted, mek>>
    PROVE  AbstractStep
<1>1. InRoster(p)' /\ \A q \in Pseudonym : InRoster(q) => InRoster(q)'
  BY PushEnters
<1>2. \A q \in Pseudonym \ {p} : InRoster(q)' => InRoster(q)
  BY DEF TypeOK, Roster, InRoster
<1>3. Inside' = Inside \cup {p}
  BY <1>1, <1>2 DEF Inside
<1>4. Holders' = Holders \cup {p}
  BY DEF Holders, Deliver, TypeOK
<1>5. Promise!Admit(p)
  BY <1>3, <1>4 DEF Promise!Admit, Inside, Holders
<1> QED
  BY <1>5 DEF AbstractStep, Promise!ANext

\* A rotation leaves a key that nobody holds.
LEMMA Replaces ==
    ASSUME TypeOK, KeyInv, HolderInv, hosted, RotateMek, NEW out \in SUBSET Pseudonym,
           \A q \in Pseudonym : InRoster(q)' <=> InRoster(q) /\ q \notin out,
           out = {} \/ \E p \in Pseudonym : out = {p},
           UNCHANGED <<hosted, creator, creator_pseudonym, host, known, founders>>
    PROVE  AbstractStep
<1>1. Holders' = {}
  BY HolderRotation DEF Holders
<1>2. Inside' = Inside \ out
  BY DEF Inside
<1>3. mek'.generation = mek.generation + 1
  BY DEF RotateMek
<1>4. Promise!Replace(out)
  BY <1>1, <1>2, <1>3 DEF Promise!Replace, Inside, Holders
<1> QED
  BY <1>4 DEF AbstractStep, Promise!ANext

LEMMA HostMaps ==
    ASSUME TypeOK, KeyInv, HolderInv, NEW h \in Hosts, HostStep(h)
    PROVE  AbstractStep
<1>0. host[h] \in Host
  BY DEF TypeOK
<1>1. CASE HostRegisterCreator(h) /\ MustRegister(h)
  <2>1. ~hosted /\ UNCHANGED hosted
    BY <1>1 DEF HostRegisterCreator, KeyInv, memory
  <2>2. PICK p \in Pseudonym : founders' = founders \cup {p}
    BY <1>0, <1>1 DEF HostRegisterCreator, MustRegister, Host
  <2>3. Inside' = Inside /\ Holders' = Holders /\ UNCHANGED mek
    BY <1>1, <2>1 DEF HostRegisterCreator, memory, Inside, Holders, InRoster
  <2>4. Promise!Install(p)
    BY <2>1, <2>2, <2>3 DEF Promise!Install, Inside, Holders
  <2> QED
    BY <2>4 DEF AbstractStep, Promise!ANext
<1>2. CASE HostInsert(h)
  <2>1. ~hosted /\ hosted' /\ UNCHANGED <<known, founders>>
    BY <1>2 DEF HostInsert, KeyInv, observed
  <2>2. Holders' = {}
    BY <2>1 DEF HolderInv, Holders
  <2>3. mek'.generation = 1
    BY <1>2, <2>1 DEF HostInsert, KeyInv, Newest, HolderInv
  <2>4. Promise!Open
    BY <2>1, <2>2, <2>3 DEF Promise!Open, Holders
  <2> QED
    BY <2>4 DEF AbstractStep, Promise!ANext
<1>3. CASE ~HostInsert(h) /\ ~(HostRegisterCreator(h) /\ MustRegister(h))
  <2>1. UNCHANGED <<hosted, founders, mek, known, members>>
    BY <1>3 DEF HostStep, HostBegin, HostCheck, HostLoadMek, HostCreateMek, HostLoadMembers,
       HostRegisterCreator, memory, observed
  <2> QED
    BY <2>1, Unseen DEF InRoster
<1> QED
  BY <1>1, <1>2, <1>3

LEMMA StepMaps ==
    ASSUME Crashes = FALSE, TypeOK, KeyInv, HolderInv, [Next]_vars
    PROVE  AbstractStep
<1>1. CASE UNCHANGED vars
  BY <1>1, Unseen DEF vars, memory, observed, InRoster
<1>2. ASSUME NEW s \in Slot, JoinStep(s) PROVE AbstractStep
  <2>0. op[s].pc # "idle" => op[s].who \in Pseudonym
    BY DEF TypeOK
  <2>1. CASE JoinRejoin(s) /\ hosted /\ InRoster(op[s].who)
    <3>1. op[s].who \in Pseudonym /\ Deliver(op[s].who, mek) /\ UNCHANGED <<memory, founders>>
      BY <2>0, <2>1 DEF JoinRejoin
    <3> QED
      BY <2>1, <3>1, HandsKey DEF memory
  <2>2. CASE JoinPush(s) /\ hosted
    <3>1. PICK p \in Pseudonym : p = op[s].who
      BY <2>0, <2>2 DEF JoinPush
    <3>2. /\ Deliver(p, mek) /\ UNCHANGED <<hosted, mek>>
          /\ members' = [members EXCEPT ![p] = Append(@, JoinRoleIds(s))]
          /\ founders' \in {founders, founders \cup {p}}
      BY <2>2, <3>1 DEF JoinPush
    <3>3. JoinRoleIds(s) \in SUBSET RoleId
      BY JoinRoleTypes
    <3> QED
      BY <2>2, <3>2, <3>3, Admits
  <2>3. CASE ~(JoinRejoin(s) /\ hosted /\ InRoster(op[s].who)) /\ ~(JoinPush(s) /\ hosted)
    <3>1. UNCHANGED <<hosted, founders, mek, known, members>>
      BY <1>2, <2>3 DEF JoinStep, JoinCheckBan, JoinRejoin, JoinReadFirst, JoinInsert, JoinPush,
                  memory, observed
    <3> QED
      BY <3>1, Unseen DEF InRoster
  <2> QED
    BY <2>1, <2>2, <2>3
<1>3. ASSUME NEW s \in Slot, RemoveStep(s) PROVE AbstractStep
  <2>1. CASE hosted /\ RemoveRetain(s)
    <3>1. PICK p \in Pseudonym : p = op[s].who
      BY <2>1 DEF RemoveRetain, TypeOK
    <3>2. RotateMek /\ members' = [members EXCEPT ![p] = <<>>]
          /\ UNCHANGED <<hosted, creator, creator_pseudonym, host, known, founders>>
      BY <2>1, <3>1 DEF RemoveRetain
    <3>3. \A q \in Pseudonym : InRoster(q)' <=> InRoster(q) /\ q \notin {p}
      BY <3>2 DEF TypeOK, Roster, InRoster
    <3> QED
      BY <2>1, <3>2, <3>3, Replaces
  <2>2. CASE ~(hosted /\ RemoveRetain(s))
    <3>1. UNCHANGED <<hosted, founders, mek, known, members>>
      BY <1>3, <2>2 DEF RemoveStep, Leave, Kick, Ban, BanInsert, RemoveVerify, RemoveDelete,
                  RemoveRetain, memory, observed
    <3> QED
      BY <3>1, Unseen DEF InRoster
  <2> QED
    BY <2>1, <2>2
<1>5. CASE AtomicStep
  <2>1. ASSUME NEW p \in Pseudonym, RequestMek(p) PROVE AbstractStep
    <3>1. Deliver(p, mek) /\ hosted /\ UNCHANGED <<hosted, members, founders, mek>>
      BY <2>1 DEF RequestMek, memory
    <3>2. InRoster(p) \/ p \in founders
      BY <2>1, PseudonymAssumption DEF RequestMek, IsMember, HolderInv, Installed
    <3> QED
      BY <3>1, <3>2, HandsKey
  <2>2. ASSUME NEW p \in Pseudonym, RotateMekRequest(p) PROVE AbstractStep
    <3>1. \A q \in Pseudonym : InRoster(q)' <=> InRoster(q) /\ q \notin {}
      BY <2>2 DEF RotateMekRequest, InRoster
    <3>2. hosted /\ RotateMek /\ {} \in SUBSET Pseudonym
          /\ UNCHANGED <<hosted, creator, creator_pseudonym, host, known, founders>>
      BY <2>2 DEF RotateMekRequest
    <3> QED
      BY <3>1, <3>2, Replaces
  <2>3. ASSUME NEW p \in Pseudonym, NEW t \in Pseudonym, Unban(p, t) PROVE AbstractStep
    BY <2>3, Unseen DEF Unban, memory, observed, InRoster
  <2>4. ASSUME NEW p \in Pseudonym, NEW t \in Pseudonym, NEW r \in RoleId,
               AssignRole(p, t, r) \/ UnassignRole(p, t, r)
        PROVE  AbstractStep
    <3>1. UNCHANGED <<hosted, mek, known, founders>>
      BY <2>4 DEF AssignRole, UnassignRole, observed
    <3> QED
      BY <2>4, <3>1, RoleEdit, Unseen
  <2>5. ASSUME NEW p \in Pseudonym, NEW e \in Edits, EditRole(p, e[1], e[2]) PROVE AbstractStep
    BY <2>5, Unseen DEF EditRole, memory, observed, InRoster
  <2> QED
    BY <1>5, <2>1, <2>2, <2>3, <2>4, <2>5, EditsAssumption DEF AtomicStep
<1>6. ~CrashStep
  BY DEF CrashStep, Crash, CrashInJoin, CrashInRegister, TornInsert, LoseMemory
<1> QED
  BY <1>1, <1>2, <1>3, <1>5, <1>6, HostMaps DEF Next

\* In a run without a crash and with any number of requests in flight, the
\* handlers behave like the abstract key server: removal and the change of the
\* key are one step, and only insiders and owners are given the key.
THEOREM KeepsThePromise ==
    ASSUME HostRace = FALSE, Crashes = FALSE
    PROVE  Spec => KeepsPromise
<1>1. Init => Promise!AInit
  BY DEF Init, Promise!AInit, EmptyRoster, InRoster, NoMek
<1>2. TypeOK /\ KeyInv /\ HolderInv /\ [Next]_vars => [Promise!ANext]_Promise!avars
  BY StepMaps DEF AbstractStep
<1> QED
  BY <1>1, <1>2, HolderInvariant, PTL DEF Spec, KeepsPromise, Promise!ASpec
-----------------------------------------------------------------------------
(* What single steps leave behind.                                         *)

\* What a step of host_community leaves in its locals.
LEMMA HostRecords ==
    ASSUME TypeOK, NEW h \in Hosts, HostStep(h)
    PROVE  /\ \A g \in Hosts \ {h} : host'[g] = host[g]
           /\ HostBegin(h) => /\ host'[h].pc = "check"
                              /\ host'[h].key = IF h = "loader" THEN creator_pseudonym ELSE Creator
           /\ HostCheck(h) => IF hosted THEN host'[h] = IdleHost
                              ELSE host'[h].pc = "mek" /\ host'[h].key = host[h].key
           /\ HostLoadMek(h) \/ HostCreateMek(h) =>
                 host'[h].pc \in {"create", "load"} /\ host'[h].key = host[h].key
           /\ HostLoadMembers(h) => /\ host'[h].pc = "setup" /\ host'[h].key = host[h].key
                                    /\ host'[h].members = PersistedRoster
           /\ HostRegisterCreator(h) =>
                 /\ host'[h].pc = "insert" /\ host'[h].key = host[h].key
                 /\ host'[h].members =
                      IF MustRegister(h)
                      THEN [host[h].members EXCEPT ![host[h].key] = Append(@, OwnerRoleIds)]
                      ELSE host[h].members
           /\ HostInsert(h) => host'[h] = IdleHost
<1>0. host \in [Hosts -> Host] /\ host[h] \in Host
  BY DEF TypeOK
<1>1. \A g \in Hosts \ {h} : host'[g] = host[g]
  BY <1>0 DEF HostStep, HostBegin, HostCheck, HostLoadMek, HostCreateMek, HostLoadMembers,
              HostRegisterCreator, HostInsert
<1>2. ASSUME HostBegin(h)
      PROVE  /\ host'[h].pc = "check"
             /\ host'[h].key = IF h = "loader" THEN creator_pseudonym ELSE Creator
  BY <1>0, <1>2 DEF HostBegin, Host
<1>3. ASSUME HostCheck(h)
      PROVE  IF hosted THEN host'[h] = IdleHost
             ELSE host'[h].pc = "mek" /\ host'[h].key = host[h].key
  BY <1>0, <1>3 DEF HostCheck, Host
<1>4. ASSUME HostLoadMek(h) \/ HostCreateMek(h)
      PROVE  host'[h].pc \in {"create", "load"} /\ host'[h].key = host[h].key
  BY <1>0, <1>4 DEF HostLoadMek, HostCreateMek, Host
<1>5. ASSUME HostLoadMembers(h)
      PROVE  /\ host'[h].pc = "setup" /\ host'[h].key = host[h].key
             /\ host'[h].members = PersistedRoster
  BY <1>0, <1>5 DEF HostLoadMembers, Host
<1>6. ASSUME HostRegisterCreator(h), MustRegister(h)
      PROVE  /\ host'[h].pc = "insert" /\ host'[h].key = host[h].key
             /\ host'[h].members =
                  [host[h].members EXCEPT ![host[h].key] = Append(@, OwnerRoleIds)]
  <2> DEFINE p == host[h].key
  <2>1. host' = [host EXCEPT ![h].pc = "insert", ![h].creator = p,
                             ![h].members[p] = Append(@, OwnerRoleIds)]
    BY <1>6 DEF HostRegisterCreator
  <2> QED
    BY <1>0, <2>1 DEF Host
<1>7. ASSUME HostRegisterCreator(h), ~MustRegister(h)
      PROVE  /\ host'[h].pc = "insert" /\ host'[h].key = host[h].key
             /\ host'[h].members = host[h].members
  BY <1>0, <1>7 DEF HostRegisterCreator, Host
<1>8. ASSUME HostInsert(h) PROVE host'[h] = IdleHost
  BY <1>0, <1>8 DEF HostInsert
<1> QED
  BY <1>1, <1>2, <1>3, <1>4, <1>5, <1>6, <1>7, <1>8

\* What starting, advancing and answering a request leave in its slot.
LEMMA OpRecords ==
    ASSUME TypeOK, NEW s \in Slot
    PROVE  /\ \A pc, p : Begin(s, pc, p) =>
                 /\ op'[s].pc = pc /\ op'[s].who = p /\ op'[s].first = FALSE
                 /\ \A t \in Slot \ {s} : op'[t] = op[t]
           /\ \A pc : Goto(s, pc) =>
                 /\ op'[s].pc = pc /\ op'[s].who = op[s].who /\ op'[s].first = op[s].first
                 /\ \A t \in Slot \ {s} : op'[t] = op[t]
           /\ Reply(s) => op'[s].pc = "idle" /\ \A t \in Slot \ {s} : op'[t] = op[t]
<1>0. op \in [Slot -> Op] /\ op[s] \in Op
  BY DEF TypeOK
<1>1. ASSUME NEW pc, NEW p, Begin(s, pc, p)
      PROVE  /\ op'[s].pc = pc /\ op'[s].who = p /\ op'[s].first = FALSE
             /\ \A t \in Slot \ {s} : op'[t] = op[t]
  BY <1>0, <1>1 DEF Begin, IdleOp
<1>2. ASSUME NEW pc, Goto(s, pc)
      PROVE  /\ op'[s].pc = pc /\ op'[s].who = op[s].who /\ op'[s].first = op[s].first
             /\ \A t \in Slot \ {s} : op'[t] = op[t]
  BY <1>0, <1>2 DEF Goto, Op
<1>3. ASSUME Reply(s)
      PROVE  op'[s].pc = "idle" /\ \A t \in Slot \ {s} : op'[t] = op[t]
  BY <1>0, <1>3 DEF Reply, IdleOp
<1> QED
  BY <1>1, <1>2, <1>3

\* retain() takes out every copy of p and touches nobody else.
LEMMA Removed ==
    ASSUME members \in Roster, NEW p \in Pseudonym, members' = [members EXCEPT ![p] = <<>>]
    PROVE  ~InRoster(p)' /\ \A q \in Pseudonym \ {p} : InRoster(q)' <=> InRoster(q)
<1>1. members'[p] = << >> /\ \A q \in Pseudonym \ {p} : members'[q] = members[q]
  BY DEF Roster
<1> QED
  BY <1>1 DEF InRoster

-----------------------------------------------------------------------------
(* The creator comes first, when neither crashes nor overlapping           *)
(* host_community calls disturb the founding.                              *)

\* Until the community is hosted for the first time nothing but the founding
\* call moves: nobody is listed anywhere before it registers the creator, and
\* only the creator is when it publishes the roster it has prepared.
FoundingInv ==
    /\ hosted => Creator \in founders
    /\ ~hosted =>
         /\ members = EmptyRoster /\ banned_members = {}
         /\ \A s \in Slot : op[s].pc \in {"idle", "delete", "remove"}
         /\ (\A h \in Hosts : host[h].pc \in {"idle", "check"}) => ~row
         /\ (\A h \in Hosts : host[h].pc # "insert") =>
               server_members = {} /\ creator_pseudonym = NoOne
         /\ \A h \in Hosts :
               /\ host[h].pc # "idle" => host[h].key = Creator
               /\ host[h].pc = "setup" => host[h].members = EmptyRoster
               /\ host[h].pc = "insert" =>
                    /\ Creator \in founders
                    /\ \A p \in Pseudonym \ {Creator} : host[h].members[p] = <<>>

LEMMA FoundingInit == Init => FoundingInv
BY DEF Init, FoundingInv, IdleOp, IdleHost

\* One host_community call at a time: h's locals are the ones that count.
LEMMA OneFounding ==
    ASSUME TypeOK, NEW h \in Hosts, HostStep(h), ~hosted, KeyInv, host[h].pc # "idle", FoundingInv
    PROVE  /\ \A g \in Hosts \ {h} : host'[g].pc = "idle" /\ host[g].pc = "idle"
           /\ host[h].key = Creator
<1>1. \A g \in Hosts \ {h} : host[g].pc = "idle"
  BY DEF KeyInv
<1>2. \A g \in Hosts \ {h} : host'[g] = host[g]
  BY HostRecords
<1> QED
  BY <1>1, <1>2 DEF FoundingInv

LEMMA FoundingHost ==
    ASSUME HostRace = FALSE, TypeOK, KeyInv, FoundingInv, NEW h \in Hosts, HostStep(h)
    PROVE  FoundingInv'
<1>1. CASE hosted
  <2>1. hosted' /\ founders \subseteq founders'
    BY <1>1 DEF HostStep, HostBegin, HostCheck, HostLoadMek, HostCreateMek, HostLoadMembers,
            HostRegisterCreator, HostInsert, memory, observed
  <2> QED
    BY <1>1, <2>1 DEF FoundingInv
<1>2. CASE ~hosted /\ HostBegin(h)
  <2>1. \A g \in Hosts : host[g].pc = "idle"
    BY <1>2 DEF HostBegin
  <2>2. h # "loader"
    BY <1>2, <2>1 DEF HostBegin, FoundingInv
  <2>3. UNCHANGED <<memory, database, op, founders>>
    BY <1>2 DEF HostBegin, observed
  <2>4. /\ host'[h].pc = "check" /\ host'[h].key = Creator
        /\ \A g \in Hosts \ {h} : host'[g].pc = "idle"
    BY <1>2, <2>1, <2>2, HostRecords
  <2> QED
    BY <1>2, <2>1, <2>3, <2>4 DEF FoundingInv, memory, database
<1>3. CASE ~hosted /\ (HostCheck(h) \/ HostLoadMek(h) \/ HostCreateMek(h))
  <2>1. host[h].pc \in {"check", "mek", "create"}
    BY <1>3 DEF HostCheck, HostLoadMek, HostCreateMek
  <2>2. host'[h].pc \in {"mek", "create", "load"} /\ host'[h].key = host[h].key
    BY <1>3, HostRecords
  <2>3. UNCHANGED <<memory, creator_pseudonym, server_members, banned_members, op, founders>>
    BY <1>3 DEF HostCheck, HostLoadMek, HostCreateMek, database, observed, roster_db
  <2>4. /\ \A g \in Hosts \ {h} : host'[g].pc = "idle" /\ host[g].pc = "idle"
        /\ host[h].key = Creator
    BY <1>3, <2>1, OneFounding
  <2>5. server_members = {} /\ creator_pseudonym = NoOne
    BY <1>3, <2>1, <2>4 DEF FoundingInv
  <2> QED
    BY <1>3, <2>1, <2>2, <2>3, <2>4, <2>5 DEF FoundingInv, memory
<1>4. CASE ~hosted /\ HostLoadMembers(h)
  <2>1. host[h].pc = "load" /\ UNCHANGED <<memory, database, op, founders>>
    BY <1>4 DEF HostLoadMembers, observed
  <2>2. /\ \A g \in Hosts \ {h} : host'[g].pc = "idle" /\ host[g].pc = "idle"
        /\ host[h].key = Creator
    BY <1>4, <2>1, OneFounding
  <2>3. server_members = {} /\ creator_pseudonym = NoOne
    BY <1>4, <2>1, <2>2 DEF FoundingInv
  <2>4. PersistedRoster = EmptyRoster
    BY <2>3 DEF PersistedRoster, EmptyRoster
  <2>5. host'[h].pc = "setup" /\ host'[h].key = Creator /\ host'[h].members = EmptyRoster
    BY <1>4, <2>2, <2>4, HostRecords
  <2> QED
    BY <1>4, <2>1, <2>2, <2>3, <2>5 DEF FoundingInv, memory, database
<1>5. CASE ~hosted /\ HostRegisterCreator(h)
  <2>1. host[h].pc = "setup" /\ UNCHANGED <<memory, banned_members, op>>
    BY <1>5 DEF HostRegisterCreator
  <2>2. /\ \A g \in Hosts \ {h} : host'[g].pc = "idle" /\ host[g].pc = "idle"
        /\ host[h].key = Creator
    BY <1>5, <2>1, OneFounding
  <2>3. host[h].members = EmptyRoster /\ creator_pseudonym = NoOne
    BY <1>5, <2>1, <2>2 DEF FoundingInv
  <2>4. MustRegister(h)
    BY <2>2, <2>3 DEF MustRegister, EmptyRoster
  <2>5. founders' = founders \cup {Creator}
    BY <1>5, <2>2, <2>4 DEF HostRegisterCreator
  <2>6. /\ host'[h].pc = "insert" /\ host'[h].key = Creator
        /\ host'[h].members = [EmptyRoster EXCEPT ![Creator] = Append(@, OwnerRoleIds)]
    BY <1>5, <2>2, <2>3, <2>4, HostRecords
  <2>7. \A p \in Pseudonym \ {Creator} : host'[h].members[p] = <<>>
    BY <2>6 DEF EmptyRoster
  <2> QED
    BY <1>5, <2>1, <2>2, <2>5, <2>6, <2>7 DEF FoundingInv, memory
<1>6. CASE ~hosted /\ HostInsert(h)
  BY <1>6 DEF HostInsert, FoundingInv, observed
<1> QED
  BY <1>1, <1>2, <1>3, <1>4, <1>5, <1>6 DEF HostStep

LEMMA FoundingNext ==
    ASSUME HostRace = FALSE, Crashes = FALSE, TypeOK, KeyInv, FoundingInv, [Next]_vars
    PROVE  FoundingInv'
<1>1. CASE UNCHANGED vars
  BY <1>1 DEF FoundingInv, vars, memory, database, observed
\* No request gets in before the community is hosted, except the owner's Leave.
<1>2. ASSUME NEW s \in Slot, JoinStep(s) \/ RemoveStep(s)
      PROVE  FoundingInv'
  <2>1. UNCHANGED <<hosted, host>> /\ founders \subseteq founders'
    BY <1>2 DEF JoinStep, JoinCheckBan, JoinRejoin, JoinReadFirst, JoinInsert, JoinPush,
       RemoveStep, Leave, Kick, Ban, BanInsert, RemoveVerify, RemoveDelete, RemoveRetain,
       memory, observed
  <2>2. CASE hosted
    BY <2>1, <2>2 DEF FoundingInv
  <2>3. CASE ~hosted
    <3>1. op[s].pc \in {"idle", "delete", "remove"}
      BY <2>3 DEF FoundingInv
    <3>2. (\E p \in Pseudonym : Leave(s, p)) \/ RemoveDelete(s) \/ RemoveRetain(s)
      BY <1>2, <2>3, <3>1 DEF JoinStep, JoinCheckBan, JoinRejoin, JoinReadFirst, JoinInsert,
         JoinPush, RemoveStep, Kick, Ban, BanInsert, RemoveVerify, MayModerate
    <3>3. /\ UNCHANGED <<members, row, creator_pseudonym, banned_members, founders>>
          /\ server_members' \subseteq server_members
      BY <2>3, <3>2 DEF Leave, RemoveDelete, RemoveRetain, memory, database, observed, roster_db
    <3>4. \A t \in Slot : op'[t].pc \in {"idle", "delete", "remove"}
      <4>1. op \in [Slot -> Op] /\ op[s] \in Op
        BY DEF TypeOK
      <4>2. op'[s].pc \in {"idle", "delete", "remove"}
        <5>1. CASE \E p \in Pseudonym : Leave(s, p)
          BY <4>1, <5>1 DEF Leave, Begin, IdleOp
        <5>2. CASE RemoveDelete(s)
          BY <4>1, <5>2 DEF RemoveDelete, Goto, Op
        <5>3. CASE RemoveRetain(s)
          BY <4>1, <5>3 DEF RemoveRetain, Reply, IdleOp
        <5> QED
          BY <3>2, <5>1, <5>2, <5>3
      <4>3. \A t \in Slot \ {s} : op'[t] = op[t]
        BY <3>2, <4>1 DEF Leave, RemoveDelete, RemoveRetain, Begin, Goto, Reply
      <4> QED
        BY <2>3, <4>2, <4>3 DEF FoundingInv
    <3> QED
      BY <2>1, <2>3, <3>3, <3>4 DEF FoundingInv
  <2> QED
    BY <2>2, <2>3
<1>3. CASE AtomicStep
  BY <1>3 DEF AtomicStep, RequestMek, RotateMekRequest, Unban, AssignRole, UnassignRole,
     EditRole, FoundingInv, memory, observed
<1>4. ~CrashStep
  BY DEF CrashStep, Crash, CrashInJoin, CrashInRegister, TornInsert, LoseMemory
<1> QED
  BY <1>1, <1>2, <1>3, <1>4, FoundingHost DEF Next

LEMMA FoundingInvariant ==
    ASSUME HostRace = FALSE, Crashes = FALSE
    PROVE  Spec => [](TypeOK /\ KeyInv /\ FoundingInv)
<1>1. Init => TypeOK /\ KeyInv /\ FoundingInv
  BY TypeInit, KeyInit, FoundingInit
<1>2. TypeOK /\ KeyInv /\ FoundingInv /\ [Next]_vars => (TypeOK /\ KeyInv /\ FoundingInv)'
  BY TypeNext, KeyNext, FoundingNext
<1> QED
  BY <1>1, <1>2, PTL DEF Spec

\* In a run of the process without a crash and with any number of requests in
\* flight: nobody gets into a community before its creator is registered.
THEOREM CreatorIsFirst ==
    ASSUME HostRace = FALSE, Crashes = FALSE
    PROVE  Spec => []CreatorFoundsFirst
<1>1. FoundingInv => CreatorFoundsFirst
  BY DEF FoundingInv, CreatorFoundsFirst, InRoster, EmptyRoster
<1> QED
  BY <1>1, FoundingInvariant, PTL

-----------------------------------------------------------------------------
(* Bans.                                                                   *)

(* Bans, with any number of requests in flight, when neither crashes nor   *)
(* overlapping host_community calls disturb the server.                    *)

\* A join that is past its ban check is one of somebody who is not banned, or
\* whose ban was stored after that check.
Checked(s) == op[s].pc \in {"rejoin", "first", "insert", "push"} /\ op[s].who \in banned_members
              => op[s].who \in raced

\* Whoever is banned is out of the roster or about to be taken out.
OutOrExpelled == \A p \in banned_members \ raced : InRoster(p) => Expelled(p)

BanInv == (\A s \in Slot : Checked(s)) /\ OutOrExpelled

\* Steps that add nobody and ban nobody.
LEMMA BanQuiet ==
    ASSUME TypeOK, BanInv, UNCHANGED <<op, raced>>, banned_members' \subseteq banned_members,
           \A p \in Pseudonym : InRoster(p)' => InRoster(p)
    PROVE  BanInv'
<1>1. ASSUME NEW s \in Slot PROVE Checked(s)'
  BY DEF BanInv, Checked
<1>2. OutOrExpelled'
  <2> SUFFICES ASSUME NEW p \in banned_members' \ raced', InRoster(p)' PROVE Expelled(p)'
    BY DEF OutOrExpelled
  <2>1. Expelled(p)
    BY DEF BanInv, OutOrExpelled, TypeOK
  <2> QED
    BY <2>1 DEF Expelled
<1> QED
  BY <1>1, <1>2 DEF BanInv

\* A request that moves on and leaves the roster alone.
LEMMA BanMove ==
    ASSUME TypeOK, BanInv, UNCHANGED <<members, banned_members, raced>>,
           NEW s \in Slot, \A t \in Slot \ {s} : op'[t] = op[t],
           Checked(s)',
           \A p \in Pseudonym : InRoster(p) /\ op[s].who = p
                                /\ op[s].pc \in {"verify", "delete", "remove"}
              => op'[s].who = p /\ op'[s].pc \in {"verify", "delete", "remove"}
    PROVE  BanInv'
<1>1. ASSUME NEW t \in Slot PROVE Checked(t)'
  BY DEF BanInv, Checked
<1>2. ASSUME NEW p \in banned_members \ raced, InRoster(p) PROVE Expelled(p)'
  <2>1. p \in Pseudonym
    BY DEF TypeOK
  <2>2. PICK t \in Slot : op[t].who = p /\ op[t].pc \in {"verify", "delete", "remove"}
    BY <1>2 DEF BanInv, OutOrExpelled, Expelled
  <2> QED
    BY <1>2, <2>1, <2>2 DEF Expelled
<1> QED
  BY <1>1, <1>2 DEF BanInv, OutOrExpelled, InRoster

LEMMA BanJoin ==
    ASSUME TypeOK, BanInv, NEW s \in Slot, JoinStep(s)
    PROVE  BanInv'
<1>1. op[s].pc \in {"idle", "rejoin", "first", "insert", "push"} /\ UNCHANGED <<banned_members, raced>>
  BY DEF JoinStep, JoinCheckBan, JoinRejoin, JoinReadFirst, JoinInsert, JoinPush, database, observed
<1>2. CASE JoinPush(s)
  <2>1. PICK p \in Pseudonym : p = op[s].who
    BY <1>2 DEF JoinPush, TypeOK
  <2>2. /\ op[s].pc = "push" /\ op'[s].pc = "idle" /\ \A t \in Slot \ {s} : op'[t] = op[t]
        /\ \A q \in Pseudonym \ {p} : members'[q] = members[q]
    BY <1>2, <2>1, OpRecords DEF JoinPush, TypeOK, Roster
  <2>3. p \in banned_members => p \in raced
    BY <2>1, <2>2 DEF BanInv, Checked
  <2>4. ASSUME NEW t \in Slot PROVE Checked(t)'
    BY <1>1, <2>2 DEF BanInv, Checked
  <2>5. ASSUME NEW q \in banned_members \ raced, InRoster(q)' PROVE Expelled(q)'
    <3>1. q \in Pseudonym \ {p} /\ InRoster(q)
      BY <2>2, <2>3, <2>5 DEF InRoster, TypeOK
    <3>2. PICK t \in Slot : op[t].who = q /\ op[t].pc \in {"verify", "delete", "remove"}
      BY <2>5, <3>1 DEF BanInv, OutOrExpelled, Expelled
    <3>3. op'[t] = op[t]
      BY <2>2, <3>2
    <3> QED
      BY <3>2, <3>3 DEF Expelled
  <2> QED
    BY <1>1, <2>4, <2>5 DEF BanInv, OutOrExpelled
<1>3. CASE ~JoinPush(s)
  <2>1. members' = members
    BY <1>3 DEF JoinStep, JoinCheckBan, JoinRejoin, JoinReadFirst, JoinInsert, memory
  <2>2. /\ \A t \in Slot \ {s} : op'[t] = op[t]
        /\ Checked(s)'
    <3>1. CASE \E p \in Pseudonym : JoinCheckBan(s, p)
      <4>1. PICK p \in Pseudonym : JoinCheckBan(s, p)
        BY <3>1
      <4>2. p \notin banned_members /\ op'[s].who = p /\ \A t \in Slot \ {s} : op'[t] = op[t]
        BY <4>1, OpRecords DEF JoinCheckBan
      <4> QED
        BY <1>1, <4>2 DEF Checked
    <3>2. CASE JoinReadFirst(s)
      <4>1. op \in [Slot -> Op] /\ op[s] \in Op
        BY DEF TypeOK
      <4>2. op'[s].who = op[s].who /\ op[s].pc = "first" /\ \A t \in Slot \ {s} : op'[t] = op[t]
        BY <3>2, <4>1 DEF JoinReadFirst, Op
      <4> QED
        BY <1>1, <4>2 DEF BanInv, Checked
    <3>3. CASE JoinRejoin(s) \/ JoinInsert(s)
      <4>1. /\ op[s].pc \in {"rejoin", "insert"}
            /\ op'[s].pc = "idle" \/ op'[s].who = op[s].who
            /\ \A t \in Slot \ {s} : op'[t] = op[t]
        BY <3>3, OpRecords DEF JoinRejoin, JoinInsert
      <4> QED
        BY <1>1, <4>1 DEF BanInv, Checked
    <3> QED
      BY <1>3, <3>1, <3>2, <3>3 DEF JoinStep
  <2> QED
    BY <1>1, <2>1, <2>2, BanMove
<1> QED
  BY <1>2, <1>3

LEMMA BanRemove ==
    ASSUME TypeOK, FoundingInv, BanInv, NEW s \in Slot, RemoveStep(s)
    PROVE  BanInv'
<1>1. CASE RemoveRetain(s)
  <2>1. PICK p \in Pseudonym : p = op[s].who
    BY <1>1 DEF RemoveRetain, TypeOK
  <2>2. /\ op'[s].pc = "idle" /\ \A t \in Slot \ {s} : op'[t] = op[t]
        /\ UNCHANGED <<banned_members, raced>>
    BY <1>1, OpRecords DEF RemoveRetain
  <2>3. ~InRoster(p)' /\ \A q \in Pseudonym \ {p} : InRoster(q)' <=> InRoster(q)
    <3>1. CASE hosted
      BY <1>1, <2>1, <3>1, Removed DEF RemoveRetain, TypeOK
    <3>2. CASE ~hosted
      BY <1>1, <3>2 DEF RemoveRetain, FoundingInv, EmptyRoster, InRoster
    <3> QED
      BY <3>1, <3>2
  <2>4. ASSUME NEW t \in Slot PROVE Checked(t)'
    BY <2>2 DEF BanInv, Checked
  <2>5. ASSUME NEW q \in banned_members \ raced, InRoster(q)' PROVE Expelled(q)'
    <3>1. q \in Pseudonym \ {p} /\ InRoster(q)
      BY <2>3, <2>5 DEF TypeOK
    <3>2. PICK t \in Slot : op[t].who = q /\ op[t].pc \in {"verify", "delete", "remove"}
      BY <2>5, <3>1 DEF BanInv, OutOrExpelled, Expelled
    <3>3. op'[t] = op[t]
      BY <2>1, <2>2, <3>1, <3>2
    <3> QED
      BY <3>2, <3>3 DEF Expelled
  <2> QED
    BY <2>2, <2>4, <2>5 DEF BanInv, OutOrExpelled
<1>2. CASE BanInsert(s)
  <2>1. PICK p \in Pseudonym : p = op[s].who
    BY <1>2 DEF BanInsert, TypeOK
  <2>2. /\ op[s].pc = "ban" /\ op'[s].pc = "verify" /\ op'[s].who = p
        /\ \A t \in Slot \ {s} : op'[t] = op[t]
        /\ banned_members' = banned_members \cup {p} /\ members' = members
        /\ raced' = IF Joining(p) THEN raced \cup {p} ELSE raced \ {p}
    BY <1>2, <2>1, OpRecords DEF BanInsert, memory
  <2>3. ASSUME NEW t \in Slot, op'[t].pc \in {"rejoin", "first", "insert", "push"},
               op'[t].who \in banned_members'
        PROVE  op'[t].who \in raced'
    <3>1. t # s /\ op'[t] = op[t]
      BY <2>2, <2>3
    <3>2. CASE op[t].who = p
      <4>1. Joining(p)
        BY <2>3, <3>1, <3>2 DEF Joining
      <4> QED
        BY <2>2, <3>1, <3>2, <4>1
    <3>3. CASE op[t].who # p
      <4>1. op[t].who \in raced
        BY <2>2, <2>3, <3>1, <3>3 DEF BanInv, Checked
      <4> QED
        BY <2>2, <3>1, <3>3, <4>1
    <3> QED
      BY <3>2, <3>3
  <2>4. ASSUME NEW q \in banned_members' \ raced', InRoster(q)' PROVE Expelled(q)'
    <3>1. CASE q = p
      BY <2>2, <3>1 DEF Expelled
    <3>2. CASE q # p
      <4>1. q \in banned_members \ raced /\ InRoster(q)
        BY <2>2, <2>4, <3>2 DEF InRoster
      <4>2. PICK t \in Slot : op[t].who = q /\ op[t].pc \in {"verify", "delete", "remove"}
        BY <4>1 DEF BanInv, OutOrExpelled, Expelled
      <4>3. op'[t] = op[t]
        BY <2>2, <4>2
      <4> QED
        BY <4>2, <4>3 DEF Expelled
    <3> QED
      BY <3>1, <3>2
  <2> QED
    BY <2>3, <2>4 DEF BanInv, Checked, OutOrExpelled
<1>3. CASE ~RemoveRetain(s) /\ ~BanInsert(s)
  <2>1. UNCHANGED <<members, banned_members, raced>>
    BY <1>3 DEF RemoveStep, Leave, Kick, Ban, RemoveVerify, RemoveDelete, memory, database, observed
  <2>2. /\ \A t \in Slot \ {s} : op'[t] = op[t]
        /\ op'[s].pc \notin {"rejoin", "first", "insert", "push"}
        /\ op[s].pc \in {"verify", "delete", "remove"} /\ InRoster(op[s].who)
              => op'[s].who = op[s].who /\ op'[s].pc \in {"verify", "delete", "remove"}
    <3>1. CASE \E p \in Pseudonym : Leave(s, p)
      BY <3>1, OpRecords DEF Leave
    <3>2. CASE \E p, t \in Pseudonym : Kick(s, p, t) \/ Ban(s, p, t)
      <4>1. op[s].pc = "idle" /\ \E pc \in {"verify", "ban"}, t \in Pseudonym : Begin(s, pc, t)
        BY <3>2 DEF Kick, Ban
      <4> QED
        BY <4>1, OpRecords
    <3>3. CASE RemoveVerify(s)
      <4>1. CASE hosted /\ ~IsMember(op[s].who)
        <5>1. Reply(s) /\ ~InRoster(op[s].who)
          BY <3>3, <4>1 DEF RemoveVerify, IsMember
        <5> QED
          BY <5>1, OpRecords
      <4>2. CASE ~(hosted /\ ~IsMember(op[s].who))
        <5>1. Goto(s, "delete")
          BY <3>3, <4>2 DEF RemoveVerify
        <5>2. /\ op'[s].pc = "delete" /\ op'[s].who = op[s].who
              /\ \A t \in Slot \ {s} : op'[t] = op[t]
          BY <5>1, OpRecords
        <5> QED
          BY <5>2
      <4> QED
        BY <4>1, <4>2
    <3>4. CASE RemoveDelete(s)
      <4>1. Goto(s, "remove")
        BY <3>4 DEF RemoveDelete
      <4>2. /\ op'[s].pc = "remove" /\ op'[s].who = op[s].who
            /\ \A t \in Slot \ {s} : op'[t] = op[t]
        BY <4>1, OpRecords
      <4> QED
        BY <4>2
    <3> QED
      BY <1>3, <3>1, <3>2, <3>3, <3>4 DEF RemoveStep
  <2>3. Checked(s)'
    BY <2>2 DEF Checked
  <2> QED
    BY <2>1, <2>2, <2>3, BanMove
<1> QED
  BY <1>1, <1>2, <1>3

LEMMA BanNext ==
    ASSUME HostRace = FALSE, Crashes = FALSE, TypeOK, KeyInv, FoundingInv, BanInv, [Next]_vars
    PROVE  BanInv'
<1>1. CASE UNCHANGED vars
  BY <1>1, BanQuiet DEF vars, memory, database, observed, InRoster
<1>2. ASSUME NEW p \in Pseudonym, RequestMek(p) \/ RotateMekRequest(p) PROVE BanInv'
  BY <1>2, BanQuiet DEF RequestMek, RotateMekRequest, memory, database, InRoster
<1>3. ASSUME NEW p \in Pseudonym, NEW t \in Pseudonym, Unban(p, t) PROVE BanInv'
  BY <1>3, BanQuiet DEF Unban, memory, observed, InRoster
<1>4. ASSUME NEW p \in Pseudonym, NEW t \in Pseudonym, NEW r \in RoleId,
             AssignRole(p, t, r) \/ UnassignRole(p, t, r)
      PROVE  BanInv'
  <2>1. UNCHANGED <<op, banned_members, raced>>
    BY <1>4 DEF AssignRole, UnassignRole, observed
  <2> QED
    BY <1>4, <2>1, RoleEdit, BanQuiet
<1>5. ASSUME NEW p \in Pseudonym, NEW e \in Edits, EditRole(p, e[1], e[2]) PROVE BanInv'
  BY <1>5, BanQuiet DEF EditRole, memory, observed, InRoster
<1>6. ASSUME NEW h \in Hosts, HostStep(h) PROVE BanInv'
  <2>1. UNCHANGED <<op, banned_members, raced>>
    BY <1>6 DEF HostStep, HostBegin, HostCheck, HostLoadMek, HostCreateMek, HostLoadMembers,
            HostRegisterCreator, HostInsert, database, observed
  <2>2. CASE HostInsert(h)
    <3>1. banned_members = {}
      BY <2>2 DEF HostInsert, KeyInv, FoundingInv
    <3> QED
      BY <2>1, <3>1 DEF BanInv, Checked, OutOrExpelled
  <2>3. CASE ~HostInsert(h)
    <3>1. members' = members
      BY <1>6, <2>3 DEF HostStep, HostBegin, HostCheck, HostLoadMek, HostCreateMek,
         HostLoadMembers, HostRegisterCreator, memory
    <3> QED
      BY <2>1, <3>1, BanQuiet DEF InRoster
  <2> QED
    BY <2>2, <2>3
<1>7. ~CrashStep
  BY DEF CrashStep, Crash, CrashInJoin, CrashInRegister, TornInsert, LoseMemory
<1> QED
  BY <1>1, <1>2, <1>3, <1>4, <1>5, <1>6, <1>7, BanJoin, BanRemove, EditsAssumption
     DEF Next, AtomicStep

\* With any number of requests in flight, in a run without a crash: a banned
\* pseudonym is out of the roster or is about to be taken out of it, and no
\* join that asks after the ban was stored brings it back.
THEOREM BansHold ==
    ASSUME HostRace = FALSE, Crashes = FALSE
    PROVE  Spec => []BannedAreOut
<1> DEFINE IInv == TypeOK /\ KeyInv /\ FoundingInv /\ BanInv
<1>1. Init => IInv
  BY TypeInit, KeyInit, FoundingInit DEF Init, BanInv, Checked, OutOrExpelled
<1>2. IInv /\ [Next]_vars => IInv'
  BY TypeNext, KeyNext, FoundingNext, BanNext
<1>3. IInv => BannedAreOut
  BY DEF BanInv, OutOrExpelled, BannedAreOut
<1> HIDE DEF IInv
<1> QED
  BY <1>1, <1>2, <1>3, PTL DEF Spec

-----------------------------------------------------------------------------
(* Memory and database, when requests are served one at a time and the     *)
(* owner leaves only while the community is hosted; the process may die.   *)

OneRequest == \A s, t \in Slot : s = t

\* p's row and p's place in the roster are written by two steps: in between
\* they differ.
InDoubt(p) == \E s \in Slot : op[s].pc \in {"push", "remove"} /\ op[s].who = p

\* What the step that is still to come will find.
HalfDone(s) ==
    /\ op[s].pc \in {"first", "insert", "push"} => ~InRoster(op[s].who)
    /\ op[s].pc = "push" => PersistedRoster[op[s].who] = << JoinRoleIds(s) >>
    /\ op[s].pc = "remove" => PersistedRoster[op[s].who] = <<>>

StoredInv ==
    /\ server_member_roles \subseteq server_members \X RoleId
    /\ ~hosted => AtRest
    /\ hosted => \A p \in Pseudonym : InDoubt(p) \/ members[p] = PersistedRoster[p]
    /\ \A s \in Slot : HalfDone(s)
    /\ \A h \in Hosts : host[h].pc \in {"setup", "insert"} => host[h].members = PersistedRoster

LEMMA StoredInit == Init => StoredInv
BY DEF Init, StoredInv, HalfDone, AtRest, IdleOp, IdleHost

\* The roster of the database, one person at a time.
StoredRoles(p) == {r \in RoleId : <<p, r>> \in server_member_roles}

LEMMA PersistedOf ==
    \A p \in Pseudonym :
        PersistedRoster[p] = IF p \in server_members THEN << StoredRoles(p) >> ELSE <<>>
BY DEF PersistedRoster, StoredRoles

\* The rows that a join or the registration of the creator writes.
LEMMA InsertStores ==
    ASSUME server_member_roles \subseteq server_members \X RoleId,
           NEW p \in Pseudonym, NEW R \in SUBSET RoleId, InsertMember(p, R)
    PROVE  /\ server_member_roles' \subseteq server_members' \X RoleId
           /\ \A q \in Pseudonym \ {p} : PersistedRoster'[q] = PersistedRoster[q]
           /\ PersistedRoster[p] = <<>> => PersistedRoster'[p] = << R >>
<1>1. /\ server_members' = server_members \cup {p}
      /\ server_member_roles' = server_member_roles \cup ({p} \X R)
  BY DEF InsertMember
<1>2. server_member_roles' \subseteq server_members' \X RoleId
  BY <1>1
<1>3. \A q \in Pseudonym :
         PersistedRoster'[q] = IF q \in server_members' THEN << StoredRoles(q)' >> ELSE <<>>
  BY DEF PersistedRoster, StoredRoles
<1>4. \A q \in Pseudonym \ {p} : StoredRoles(q)' = StoredRoles(q)
  BY <1>1 DEF StoredRoles
<1>5. \A q \in Pseudonym \ {p} : PersistedRoster'[q] = PersistedRoster[q]
  BY <1>1, <1>3, <1>4, PersistedOf
<1>6. ASSUME PersistedRoster[p] = <<>> PROVE PersistedRoster'[p] = << R >>
  <2>1. << StoredRoles(p) >> # << >>
    OBVIOUS
  <2>2. p \notin server_members
    BY <1>6, <2>1, PersistedOf
  <2>3. StoredRoles(p)' = R
    BY <1>1, <2>2 DEF StoredRoles
  <2> QED
    BY <1>1, <1>3, <2>3
<1> QED
  BY <1>2, <1>5, <1>6

\* The rows that a removal deletes.
LEMMA DeleteStores ==
    ASSUME server_member_roles \subseteq server_members \X RoleId, NEW p \in Pseudonym,
           server_members' = server_members \ {p},
           server_member_roles' = {m \in server_member_roles : m[1] # p}
    PROVE  /\ server_member_roles' \subseteq server_members' \X RoleId
           /\ \A q \in Pseudonym \ {p} : PersistedRoster'[q] = PersistedRoster[q]
           /\ PersistedRoster'[p] = <<>>
<1>1. server_member_roles' \subseteq server_members' \X RoleId
  OBVIOUS
<1>2. \A q \in Pseudonym :
         PersistedRoster'[q] = IF q \in server_members' THEN << StoredRoles(q)' >> ELSE <<>>
  BY DEF PersistedRoster, StoredRoles
<1>3. \A q \in Pseudonym \ {p} : StoredRoles(q)' = StoredRoles(q)
  BY DEF StoredRoles
<1> QED
  BY <1>1, <1>2, <1>3, PersistedOf

\* Assigning and unassigning change the stored roles exactly as they change
\* the first copy, and a person without a row is left without one.
LEMMA EditStores ==
    ASSUME TypeOK, StoredInv, NEW p \in Pseudonym, NEW t \in Pseudonym, NEW r \in RoleId,
           AssignRole(p, t, r) \/ UnassignRole(p, t, r)
    PROVE  /\ server_member_roles' \subseteq server_members' \X RoleId
           /\ \A q \in Pseudonym \ {t} : PersistedRoster'[q] = PersistedRoster[q]
                                         /\ members'[q] = members[q]
           /\ PersistedRoster[t] = <<>> => PersistedRoster'[t] = <<>>
           /\ members[t] = PersistedRoster[t] => members'[t] = PersistedRoster'[t]
<1>0. /\ server_members' = server_members /\ InRoster(t) /\ members \in Roster
      /\ server_member_roles \subseteq server_members \X RoleId
  BY DEF AssignRole, UnassignRole, StoredInv, TypeOK
<1> DEFINE e == IF AssignRole(p, t, r) THEN members[t][1] \cup {r} ELSE members[t][1] \ {r}
<1>1. members' = [members EXCEPT ![t][1] = e]
  BY DEF AssignRole, UnassignRole
<1>2. \/ t \in server_members /\ server_member_roles' = server_member_roles \cup {<<t, r>>}
      \/ server_member_roles' = server_member_roles
      \/ server_member_roles' = server_member_roles \ {<<t, r>>}
  BY DEF AssignRole, UnassignRole
<1>3. server_member_roles' \subseteq server_members' \X RoleId
  BY <1>0, <1>2
<1>4. \A q \in Pseudonym :
         PersistedRoster'[q] = IF q \in server_members' THEN << StoredRoles(q)' >> ELSE <<>>
  BY DEF PersistedRoster, StoredRoles
<1>5. \A q \in Pseudonym \ {t} : StoredRoles(q)' = StoredRoles(q)
  BY <1>2 DEF StoredRoles
<1>6. \A q \in Pseudonym \ {t} : members'[q] = members[q]
  BY <1>0, <1>1 DEF Roster
<1>7. ASSUME PersistedRoster[t] = <<>> PROVE PersistedRoster'[t] = <<>>
  <2>1. << StoredRoles(t) >> # << >>
    OBVIOUS
  <2> QED
    BY <1>0, <1>4, <1>7, <2>1, PersistedOf
<1>8. ASSUME members[t] = PersistedRoster[t] PROVE members'[t] = PersistedRoster'[t]
  <2>1. t \in server_members /\ members[t] = << StoredRoles(t) >>
    BY <1>0, <1>8, PersistedOf DEF InRoster
  <2>2. members[t][1] = StoredRoles(t)
    BY <2>1
  <2>3. StoredRoles(t)' = e
    BY <2>1, <2>2 DEF StoredRoles, AssignRole, UnassignRole
  <2>4. members'[t] = [members[t] EXCEPT ![1] = e]
    BY <1>0, <1>1 DEF Roster
  <2> HIDE DEF e
  <2>5. [<< StoredRoles(t) >> EXCEPT ![1] = e] = << e >>
    OBVIOUS
  <2> QED
    BY <1>0, <1>4, <2>1, <2>3, <2>4, <2>5
<1> QED
  BY <1>0, <1>3, <1>4, <1>5, <1>6, <1>7, <1>8, PersistedOf

\* A request step that leaves the two rosters as they are.
LEMMA StoredQuiet ==
    ASSUME OneRequest, StoredInv, NEW s \in Slot, hosted,
           \A h \in Hosts : host[h].pc \notin {"setup", "insert"},
           UNCHANGED <<hosted, members, server_members, server_member_roles, host>>,
           op[s].pc \notin {"push", "remove"}, op'[s].pc \notin {"push", "remove"},
           op'[s].pc \in {"first", "insert"} => members[op'[s].who] = <<>>
    PROVE  StoredInv'
<1>0. \A t \in Slot : t = s
  BY DEF OneRequest
<1>1. PersistedRoster' = PersistedRoster
  BY DEF PersistedRoster
<1>2. \A p \in Pseudonym : members[p] = PersistedRoster[p]
  BY <1>0 DEF StoredInv, InDoubt
<1>3. HalfDone(s)'
  BY DEF HalfDone, InRoster
<1> QED
  BY <1>0, <1>1, <1>2, <1>3 DEF StoredInv

\* Requests run only while the community is hosted, and then no
\* host_community call holds a roster of its own.
LEMMA RequestsWhileHosted ==
    ASSUME "LeaveUnhosted" \notin Requests, TypeOK, KeyInv, StoredInv, NEW s \in Slot,
           JoinStep(s) \/ RemoveStep(s)
    PROVE  /\ hosted /\ UNCHANGED <<hosted, host>>
           /\ \A h \in Hosts : host[h].pc \notin {"setup", "insert"}
<1>1. hosted
  BY DEF StoredInv, AtRest, JoinStep, JoinCheckBan, JoinRejoin, JoinReadFirst, JoinInsert,
     JoinPush, RemoveStep, Leave, Kick, Ban, BanInsert, RemoveVerify, RemoveDelete, RemoveRetain, MayModerate
<1>2. UNCHANGED <<hosted, host>>
  BY DEF JoinStep, JoinCheckBan, JoinRejoin, JoinReadFirst, JoinInsert,
     JoinPush, RemoveStep, Leave, Kick, Ban, BanInsert, RemoveVerify, RemoveDelete, RemoveRetain, memory
<1> QED
  BY <1>1, <1>2 DEF KeyInv

LEMMA StoredJoin ==
    ASSUME OneRequest, "LeaveUnhosted" \notin Requests,
           TypeOK, KeyInv, StoredInv, NEW s \in Slot, JoinStep(s)
    PROVE  StoredInv'
<1>0. /\ \A t \in Slot : t = s
      /\ op[s].pc # "idle" => op[s].who \in Pseudonym
      /\ members \in Roster
  BY DEF OneRequest, TypeOK
<1>1. /\ hosted /\ UNCHANGED <<hosted, host>>
      /\ \A h \in Hosts : host[h].pc \notin {"setup", "insert"}
  BY RequestsWhileHosted
<1>2. CASE \E p \in Pseudonym : JoinCheckBan(s, p)
  <2>1. /\ op[s].pc = "idle" /\ op'[s].pc = "rejoin"
        /\ UNCHANGED <<members, server_members, server_member_roles>>
    BY <1>2, OpRecords DEF JoinCheckBan, memory, database
  <2> QED
    BY <1>1, <2>1, StoredQuiet
<1>3. CASE JoinRejoin(s)
  <2>1. /\ op[s].pc = "rejoin"
        /\ UNCHANGED <<members, server_members, server_member_roles>>
        /\ \/ op'[s].pc = "idle"
           \/ op'[s].pc = "first" /\ op'[s].who = op[s].who /\ ~InRoster(op[s].who)
    BY <1>1, <1>3, OpRecords DEF JoinRejoin, memory, database
  <2> QED
    BY <1>1, <2>1, StoredQuiet DEF InRoster
<1>4. CASE JoinReadFirst(s)
  <2>1. op \in [Slot -> Op] /\ op[s] \in Op
    BY DEF TypeOK
  <2>2. /\ op[s].pc = "first" /\ op'[s].pc = "insert" /\ op'[s].who = op[s].who
        /\ UNCHANGED <<members, server_members, server_member_roles>>
    BY <1>4, <2>1 DEF JoinReadFirst, Op, memory, database
  <2>3. ~InRoster(op[s].who)
    BY <2>2 DEF StoredInv, HalfDone
  <2> QED
    BY <1>1, <2>2, <2>3, StoredQuiet DEF InRoster
<1>5. CASE JoinInsert(s)
  <2>1. PICK p \in Pseudonym, R \in SUBSET RoleId : p = op[s].who /\ R = JoinRoleIds(s)
    BY <1>0, <1>5, JoinRoleTypes DEF JoinInsert
  <2>2. /\ op[s].pc = "insert" /\ op'[s].pc = "push" /\ op'[s].who = p
        /\ op'[s].first = op[s].first /\ InsertMember(p, R) /\ members' = members
    BY <1>5, <2>1, OpRecords DEF JoinInsert, memory
  <2>3. members[p] = <<>> /\ \A q \in Pseudonym : members[q] = PersistedRoster[q]
    BY <1>0, <1>1, <2>1, <2>2 DEF StoredInv, HalfDone, InDoubt, InRoster
  <2>4. /\ server_member_roles' \subseteq server_members' \X RoleId
        /\ \A q \in Pseudonym \ {p} : PersistedRoster'[q] = PersistedRoster[q]
        /\ PersistedRoster'[p] = << R >>
    BY <2>2, <2>3, InsertStores DEF StoredInv
  <2>5. JoinRoleIds(s)' = R
    BY <2>1, <2>2 DEF JoinRoleIds
  <2>6. HalfDone(s)'
    BY <2>2, <2>3, <2>4, <2>5 DEF HalfDone, InRoster
  <2>7. \A q \in Pseudonym : InDoubt(q)' \/ members'[q] = PersistedRoster'[q]
    BY <2>2, <2>3, <2>4 DEF InDoubt
  <2> QED
    BY <1>0, <1>1, <2>4, <2>6, <2>7 DEF StoredInv
<1>6. CASE JoinPush(s)
  <2>1. PICK p \in Pseudonym, R \in SUBSET RoleId : p = op[s].who /\ R = JoinRoleIds(s)
    BY <1>0, <1>6, JoinRoleTypes DEF JoinPush
  <2>2. /\ op[s].pc = "push" /\ op'[s].pc = "idle"
        /\ members' = [members EXCEPT ![p] = Append(@, R)]
        /\ UNCHANGED <<server_members, server_member_roles>>
    BY <1>1, <1>6, <2>1, OpRecords DEF JoinPush, roster_db
  <2>3. /\ members[p] = <<>> /\ PersistedRoster[p] = << R >>
        /\ \A q \in Pseudonym \ {p} : members[q] = PersistedRoster[q]
    BY <1>0, <1>1, <2>1, <2>2 DEF StoredInv, HalfDone, InDoubt, InRoster
  <2>4. members'[p] = << R >> /\ \A q \in Pseudonym \ {p} : members'[q] = members[q]
    BY <1>0, <2>2, <2>3 DEF Roster
  <2>5. PersistedRoster' = PersistedRoster
    BY <2>2 DEF PersistedRoster
  <2> QED
    BY <1>0, <1>1, <2>2, <2>3, <2>4, <2>5 DEF StoredInv, HalfDone
<1> QED
  BY <1>2, <1>3, <1>4, <1>5, <1>6 DEF JoinStep

LEMMA StoredRemove ==
    ASSUME OneRequest, "LeaveUnhosted" \notin Requests,
           TypeOK, KeyInv, StoredInv, NEW s \in Slot, RemoveStep(s)
    PROVE  StoredInv'
<1>0. /\ \A t \in Slot : t = s
      /\ op[s].pc # "idle" => op[s].who \in Pseudonym
      /\ members \in Roster
  BY DEF OneRequest, TypeOK
<1>1. /\ hosted /\ UNCHANGED <<hosted, host>>
      /\ \A h \in Hosts : host[h].pc \notin {"setup", "insert"}
  BY RequestsWhileHosted
<1>2. CASE RemoveDelete(s)
  <2>1. PICK p \in Pseudonym : p = op[s].who
    BY <1>0, <1>2 DEF RemoveDelete
  <2>2. /\ op[s].pc = "delete" /\ op'[s].pc = "remove" /\ op'[s].who = p /\ members' = members
        /\ server_members' = server_members \ {p}
        /\ server_member_roles' = {m \in server_member_roles : m[1] # p}
    BY <1>2, <2>1, OpRecords DEF RemoveDelete, memory
  <2>3. /\ server_member_roles' \subseteq server_members' \X RoleId
        /\ \A q \in Pseudonym \ {p} : PersistedRoster'[q] = PersistedRoster[q]
        /\ PersistedRoster'[p] = <<>>
    BY <2>2, DeleteStores DEF StoredInv
  <2>4. \A q \in Pseudonym : members[q] = PersistedRoster[q]
    BY <1>0, <1>1, <2>2 DEF StoredInv, InDoubt
  <2>5. HalfDone(s)' /\ InDoubt(p)'
    BY <2>2, <2>3 DEF HalfDone, InDoubt
  <2> QED
    BY <1>0, <1>1, <2>2, <2>3, <2>4, <2>5 DEF StoredInv
<1>3. CASE RemoveRetain(s)
  <2>1. PICK p \in Pseudonym : p = op[s].who
    BY <1>0, <1>3 DEF RemoveRetain
  <2>2. /\ op[s].pc = "remove" /\ op'[s].pc = "idle"
        /\ members' = [members EXCEPT ![p] = <<>>]
        /\ UNCHANGED <<server_members, server_member_roles>>
    BY <1>1, <1>3, <2>1, OpRecords DEF RemoveRetain, roster_db
  <2>3. /\ PersistedRoster[p] = <<>>
        /\ \A q \in Pseudonym \ {p} : members[q] = PersistedRoster[q]
    BY <1>0, <1>1, <2>1, <2>2 DEF StoredInv, HalfDone, InDoubt
  <2>4. members'[p] = <<>> /\ \A q \in Pseudonym \ {p} : members'[q] = members[q]
    BY <1>0, <2>2 DEF Roster
  <2>5. PersistedRoster' = PersistedRoster
    BY <2>2 DEF PersistedRoster
  <2> QED
    BY <1>0, <1>1, <2>2, <2>3, <2>4, <2>5 DEF StoredInv, HalfDone
<1>4. CASE ~RemoveDelete(s) /\ ~RemoveRetain(s)
  <2>1. UNCHANGED <<members, server_members, server_member_roles>>
    BY <1>4 DEF RemoveStep, Leave, Kick, Ban, BanInsert, RemoveVerify, memory, database, roster_db
  <2>2. /\ op[s].pc \notin {"push", "remove"}
        /\ op'[s].pc \notin {"push", "remove", "first", "insert"}
    <3>1. CASE \E p \in Pseudonym : Leave(s, p)
      <4>1. op[s].pc = "idle" /\ \E p \in Pseudonym : Begin(s, "delete", p)
        BY <3>1 DEF Leave
      <4> QED
        BY <4>1, OpRecords
    <3>2. CASE \E p, t \in Pseudonym : Kick(s, p, t) \/ Ban(s, p, t)
      <4>1. op[s].pc = "idle" /\ \E pc \in {"verify", "ban"}, t \in Pseudonym : Begin(s, pc, t)
        BY <3>2 DEF Kick, Ban
      <4>2. op'[s].pc \in {"verify", "ban"}
        BY <4>1, OpRecords
      <4> QED
        BY <4>1, <4>2
    <3>3. CASE BanInsert(s) \/ RemoveVerify(s)
      <4>1. op[s].pc \in {"ban", "verify"} /\ (Reply(s) \/ \E pc \in {"verify", "delete"} : Goto(s, pc))
        BY <3>3 DEF BanInsert, RemoveVerify
      <4>2. op'[s].pc \in {"idle", "verify", "delete"}
        BY <4>1, OpRecords
      <4> QED
        BY <4>1, <4>2
    <3> QED
      BY <1>4, <3>1, <3>2, <3>3 DEF RemoveStep
  <2> QED
    BY <1>1, <2>1, <2>2, StoredQuiet
<1> QED
  BY <1>2, <1>3, <1>4

LEMMA StoredAtomic ==
    ASSUME OneRequest, TypeOK, KeyInv, StoredInv, AtomicStep
    PROVE  StoredInv'
<1>1. hosted /\ UNCHANGED <<hosted, host, op>>
  BY DEF AtomicStep, RequestMek, RotateMekRequest, Unban, AssignRole, UnassignRole, EditRole, memory
<1>2. \A h \in Hosts : host[h].pc \notin {"setup", "insert"}
  BY <1>1 DEF KeyInv
<1>3. \A s \in Slot : op[s].pc # "idle" => op[s].who \in Pseudonym
  BY DEF TypeOK
<1>4. ASSUME UNCHANGED <<members, server_members, server_member_roles>>
      PROVE  StoredInv'
  <2>1. PersistedRoster' = PersistedRoster
    BY <1>4 DEF PersistedRoster
  <2>2. \A s \in Slot : HalfDone(s)'
    BY <1>1, <1>4, <2>1 DEF StoredInv, HalfDone, InRoster, JoinRoleIds
  <2> QED
    BY <1>1, <1>2, <1>4, <2>1, <2>2 DEF StoredInv, InDoubt
<1>5. ASSUME NEW p \in Pseudonym,
             RequestMek(p) \/ RotateMekRequest(p) \/ \E t \in Pseudonym : Unban(p, t)
      PROVE  StoredInv'
  BY <1>4, <1>5 DEF RequestMek, RotateMekRequest, Unban, memory, database, roster_db
<1>6. ASSUME NEW p \in Pseudonym, NEW t \in Pseudonym, NEW r \in RoleId,
             AssignRole(p, t, r) \/ UnassignRole(p, t, r)
      PROVE  StoredInv'
  <2>1. /\ server_member_roles' \subseteq server_members' \X RoleId
        /\ \A q \in Pseudonym \ {t} : PersistedRoster'[q] = PersistedRoster[q]
                                      /\ members'[q] = members[q]
        /\ PersistedRoster[t] = <<>> => PersistedRoster'[t] = <<>>
        /\ members[t] = PersistedRoster[t] => members'[t] = PersistedRoster'[t]
    BY <1>6, EditStores
  <2>2. InRoster(t) /\ \A q \in Pseudonym : InRoster(q)' <=> InRoster(q)
    BY <1>6, RoleEdit DEF AssignRole, UnassignRole
  <2>3. \A q \in Pseudonym : InDoubt(q)' \/ members'[q] = PersistedRoster'[q]
    BY <1>1, <2>1 DEF StoredInv, InDoubt
  <2>4. ASSUME NEW s \in Slot PROVE HalfDone(s)'
    <3>1. HalfDone(s) /\ JoinRoleIds(s)' = JoinRoleIds(s)
      BY <1>1 DEF StoredInv, JoinRoleIds
    <3>2. CASE op[s].pc \in {"first", "insert", "push", "remove"}
      <4>1. PICK q \in Pseudonym : q = op[s].who
        BY <1>3, <3>2
      <4>2. op[s].pc \in {"first", "insert", "push"} => ~InRoster(q)' /\ q # t
        BY <2>2, <3>1, <4>1 DEF HalfDone
      <4>3. op[s].pc = "push" => PersistedRoster'[q] = << JoinRoleIds(s) >>
        BY <2>1, <3>1, <4>1, <4>2 DEF HalfDone
      <4>4. op[s].pc = "remove" => PersistedRoster'[q] = <<>>
        BY <2>1, <3>1, <4>1 DEF HalfDone
      <4> QED
        BY <1>1, <3>1, <4>1, <4>2, <4>3, <4>4 DEF HalfDone, InRoster
    <3>3. CASE op[s].pc \notin {"first", "insert", "push", "remove"}
      BY <1>1, <3>3 DEF HalfDone
    <3> QED
      BY <3>2, <3>3
  <2> QED
    BY <1>1, <1>2, <2>1, <2>3, <2>4 DEF StoredInv
<1>7. ASSUME NEW p \in Pseudonym, NEW e \in Edits, EditRole(p, e[1], e[2])
      PROVE  StoredInv'
  BY <1>4, <1>7 DEF EditRole, memory, roster_db
<1> QED
  BY <1>5, <1>6, <1>7, EditsAssumption DEF AtomicStep

LEMMA StoredHost ==
    ASSUME HostRace = FALSE, TypeOK, KeyInv, StoredInv, NEW h \in Hosts, HostStep(h)
    PROVE  StoredInv'
<1>0. host[h] \in Host /\ op' = op
  BY DEF TypeOK, HostStep, HostBegin, HostCheck, HostLoadMek, HostCreateMek, HostLoadMembers,
         HostRegisterCreator, HostInsert
<1>1. \A g \in Hosts \ {h} : host'[g] = host[g]
  BY HostRecords
<1>2. CASE HostBegin(h) \/ HostCheck(h) \/ HostLoadMek(h) \/ HostCreateMek(h) \/ HostLoadMembers(h)
  <2>1. UNCHANGED <<hosted, members, server_members, server_member_roles>>
    BY <1>2 DEF HostBegin, HostCheck, HostLoadMek, HostCreateMek, HostLoadMembers, memory, database,
       roster_db
  <2>2. PersistedRoster' = PersistedRoster
    BY <2>1 DEF PersistedRoster
  <2>3. \/ host'[h].pc \in {"idle", "check", "mek", "create", "load"}
        \/ host'[h].pc = "setup" /\ host'[h].members = PersistedRoster
    <3>1. IdleHost.pc = "idle"
      BY DEF IdleHost
    <3>2. CASE HostLoadMembers(h)
      BY <3>2, HostRecords
    <3>3. CASE HostBegin(h)
      BY <3>3, HostRecords
    <3>4. CASE HostCheck(h)
      BY <3>1, <3>4, HostRecords
    <3>5. CASE HostLoadMek(h) \/ HostCreateMek(h)
      BY <3>5, HostRecords
    <3> QED
      BY <1>2, <3>2, <3>3, <3>4, <3>5
  <2>4. \A s \in Slot : HalfDone(s)'
    BY <1>0, <2>1, <2>2 DEF StoredInv, HalfDone, InRoster, JoinRoleIds
  <2> QED
    BY <1>0, <1>1, <2>1, <2>2, <2>3, <2>4 DEF StoredInv, InDoubt, AtRest
<1>3. ASSUME HostRegisterCreator(h) \/ HostInsert(h)
      PROVE  /\ host[h].pc \in {"setup", "insert"} /\ ~hosted
             /\ \A s \in Slot : op[s].pc = "idle"
             /\ host[h].members = PersistedRoster
             /\ \A g \in Hosts \ {h} : host[g].pc = "idle" /\ host'[g].pc = "idle"
  BY <1>1, <1>3 DEF HostRegisterCreator, HostInsert, KeyInv, StoredInv, AtRest
<1>4. CASE HostRegisterCreator(h)
  <2>1. UNCHANGED <<hosted, members>> /\ host'[h].pc = "insert"
    BY <1>4, HostRecords DEF HostRegisterCreator, memory
  <2>2. /\ server_member_roles' \subseteq server_members' \X RoleId
        /\ host'[h].members = PersistedRoster'
    <3>1. CASE MustRegister(h)
      <4>1. PICK p \in Pseudonym : p = host[h].key
        BY <1>0, <3>1 DEF MustRegister, Host
      <4>2. InsertMember(p, OwnerRoleIds) /\ OwnerRoleIds \in SUBSET RoleId
        BY <1>4, <3>1, <4>1 DEF HostRegisterCreator, OwnerRoleIds
      <4>3. PersistedRoster[p] = <<>>
        BY <1>3, <1>4, <3>1, <4>1 DEF MustRegister
      <4>4. /\ server_member_roles' \subseteq server_members' \X RoleId
            /\ \A q \in Pseudonym \ {p} : PersistedRoster'[q] = PersistedRoster[q]
            /\ PersistedRoster'[p] = << OwnerRoleIds >>
        BY <4>2, <4>3, InsertStores DEF StoredInv
      <4>5. host'[h].members = [PersistedRoster EXCEPT ![p] = Append(@, OwnerRoleIds)]
        BY <1>3, <1>4, <3>1, <4>1, HostRecords
      <4>6. Append(<<>>, OwnerRoleIds) = << OwnerRoleIds >>
        OBVIOUS
      <4>7. host'[h].members = [PersistedRoster EXCEPT ![p] = << OwnerRoleIds >>]
        BY <4>3, <4>5, <4>6
      <4>8. /\ PersistedRoster' = [q \in Pseudonym |-> PersistedRoster'[q]]
            /\ PersistedRoster = [q \in Pseudonym |-> PersistedRoster[q]]
        BY DEF PersistedRoster
      <4> QED
        BY <4>4, <4>7, <4>8
    <3>2. CASE ~MustRegister(h)
      <4>1. UNCHANGED <<server_members, server_member_roles>>
        BY <1>4, <3>2 DEF HostRegisterCreator, roster_db
      <4>2. PersistedRoster' = PersistedRoster
        BY <4>1 DEF PersistedRoster
      <4> QED
        BY <1>3, <1>4, <3>2, <4>1, <4>2, HostRecords DEF StoredInv
    <3> QED
      BY <3>1, <3>2
  <2>3. \A s \in Slot : HalfDone(s)' /\ op'[s].pc = "idle"
    BY <1>0, <1>3, <1>4 DEF HalfDone
  <2>4. \A g \in Hosts : host'[g].pc \in {"setup", "insert"} => host'[g].members = PersistedRoster'
    BY <1>3, <1>4, <2>2
  <2> QED
    BY <1>3, <1>4, <2>1, <2>2, <2>3, <2>4 DEF StoredInv, AtRest
<1>5. CASE HostInsert(h)
  <2>1. hosted' /\ members' = PersistedRoster /\ UNCHANGED <<server_members, server_member_roles>>
    BY <1>3, <1>5 DEF HostInsert, database
  <2>2. PersistedRoster' = PersistedRoster
    BY <2>1 DEF PersistedRoster
  <2>3. \A g \in Hosts : host'[g].pc = "idle"
    <3>1. host'[h] = IdleHost /\ IdleHost.pc = "idle"
      BY <1>5, HostRecords DEF IdleHost
    <3> QED
      BY <1>3, <1>5, <3>1
  <2>4. \A s \in Slot : HalfDone(s)'
    BY <1>0, <1>3, <1>5 DEF HalfDone
  <2> QED
    BY <2>1, <2>2, <2>3, <2>4 DEF StoredInv
<1> QED
  BY <1>2, <1>4, <1>5 DEF HostStep

\* Whatever the process is doing when it dies, a role row never outlives or
\* precedes its member row.
LEMMA StoredCrash ==
    ASSUME TypeOK, StoredInv, CrashStep
    PROVE  StoredInv'
<1>1. LoseMemory /\ ~hosted' /\ (\A s \in Slot : op'[s].pc = "idle")
                 /\ \A h \in Hosts : host'[h].pc = "idle"
  BY DEF CrashStep, Crash, CrashInJoin, CrashInRegister, TornInsert, LoseMemory, IdleOp, IdleHost
<1>2. server_member_roles' \subseteq server_members' \X RoleId
  <2>1. ASSUME NEW p, NEW Q \in SUBSET RoleId, InsertMember(p, Q)
        PROVE  server_member_roles' \subseteq server_members' \X RoleId
    BY <2>1 DEF InsertMember, StoredInv
  <2>2. ASSUME NEW p, NEW Q \in SUBSET RoleId, TornInsert(p, Q)
        PROVE  server_member_roles' \subseteq server_members' \X RoleId
    <3>1. PICK n \in RoleId : InsertMember(p, {r \in Q : r < n})
      BY <2>2 DEF TornInsert
    <3> QED
      BY <2>1, <3>1
  <2>3. OwnerRoleIds \in SUBSET RoleId
    BY DEF OwnerRoleIds
  <2>4. CASE Crash
    BY <2>4 DEF Crash, database, StoredInv
  <2>5. CASE \E s \in Slot : CrashInJoin(s)
    BY <2>2, <2>5, JoinRoleTypes DEF CrashInJoin
  <2>6. CASE \E h \in Hosts : CrashInRegister(h)
    BY <2>1, <2>2, <2>3, <2>6 DEF CrashInRegister
  <2> QED
    BY <2>4, <2>5, <2>6 DEF CrashStep
<1> QED
  BY <1>1, <1>2 DEF StoredInv, HalfDone, AtRest

LEMMA StoredNext ==
    ASSUME OneRequest, HostRace = FALSE, "LeaveUnhosted" \notin Requests,
           TypeOK, KeyInv, StoredInv, [Next]_vars
    PROVE  StoredInv'
<1>1. CASE UNCHANGED vars
  <2>1. PersistedRoster' = PersistedRoster
    BY <1>1 DEF PersistedRoster, vars, database
  <2> QED
    BY <1>1, <2>1 DEF vars, memory, database, StoredInv, HalfDone, InDoubt, AtRest, InRoster, JoinRoleIds
<1> QED
  BY <1>1, StoredJoin, StoredRemove, StoredAtomic, StoredHost, StoredCrash DEF Next

\* When requests are served one at a time and nobody removes the owner while
\* the community is not hosted: however often the process dies, also in the
\* middle of a run of INSERTs, the roster the server works with at rest is the
\* one a restart would load.
THEOREM RestartLoadsTheRoster ==
    ASSUME OneRequest, HostRace = FALSE, "LeaveUnhosted" \notin Requests
    PROVE  Spec => []RosterMatchesDatabase
<1> DEFINE IInv == TypeOK /\ KeyInv /\ StoredInv
<1>1. Init => IInv
  BY TypeInit, KeyInit, StoredInit
<1>2. IInv /\ [Next]_vars => IInv'
  BY TypeNext, KeyNext, StoredNext
<1>3. IInv => RosterMatchesDatabase
  <2> SUFFICES ASSUME IInv, hosted, AtRest PROVE members = PersistedRoster
    BY DEF RosterMatchesDatabase
  <2>1. \A p \in Pseudonym : members[p] = PersistedRoster[p]
    BY DEF StoredInv, InDoubt, AtRest
  <2>2. members \in Roster /\ PersistedRoster \in Roster
    BY PersistedRosterType DEF TypeOK
  <2> QED
    BY <2>1, <2>2 DEF Roster
<1> HIDE DEF IInv
<1> QED
  BY <1>1, <1>2, <1>3, PTL DEF Spec
=============================================================================
