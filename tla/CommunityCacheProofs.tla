------------------------- MODULE CommunityCacheProofs -------------------------
(***************************************************************************)
(* CommunityCache for any number of requests, roles, channels, broadcasts  *)
(* in flight and upsets of any kinds: types; and that what a restart would *)
(* load is what is in memory, when commands and handlers take turns.       *)
(***************************************************************************)
EXTENDS CommunityCache, SequenceTheorems, TLAPS

Message == [kind : {"RolesChanged"}, roles : Placed]
      \cup [kind : {"MemberRolesChanged"}, who : Person, ids : Ids]
      \cup [kind : {"MemberTimedOut"}, who : Person, timed : BOOLEAN]
      \cup [kind : {"MemberJoined"}, who : Person, ids : Ids]
      \cup [kind : {"MemberRemoved"}, who : Person]
Order == [kind : {"CreateRole", "EditRole"}, role : RoleId, at : Position]
      \cup [kind : {"DeleteRole"}, role : RoleId]
      \cup [kind : {"AssignRole", "UnassignRole"}, who : Person, role : RoleId]
      \cup [kind : {"TimeoutMember", "RemoveTimeout", "Kick"}, who : Person]
      \cup [kind : {"CreateChannel", "DeleteChannel"}, channel : Channel]
      \cup [kind : {"GetRoles"}, roles : Placed]
Work == {b \in Message : b.kind \in {"RolesChanged", "MemberRolesChanged"}}
      \cup [kind : {"Channels"}, channels : SUBSET Channel]

Row == [kept : BOOLEAN, ids : Ids, timed : BOOLEAN]
ServerState == [roles : Placed, top : RoleId, held : [Person -> Ids],
                timed : SUBSET Person, channels : SUBSET Channel, members : SUBSET Person]
Record == [channels : SUBSET Channel, members : UNION {[S -> Ids] : S \in SUBSET Person}]
NodeState == [copy : Record, watching : BOOLEAN, created : BOOLEAN]
MemoryState == [roles : RoleList, ids : Ids, channels : SUBSET Channel,
                my_role : {"owner", "name"}]
TableState == [roles : Placed, ids : Ids, channels : SUBSET Channel, rows : [Person -> Row]]

\* What is on its way, and what is under way.
Shapes ==
    /\ server \in ServerState /\ published \in Record /\ node \in NodeState
    /\ air \in Seq(Message) /\ changed \subseteq {"channels", "members"}
    /\ memory \in MemoryState /\ table \in TableState
    /\ command.pc # "idle" => command.of \in Order
    /\ command.pc = "memory" => command.of.kind \in InMemory
    /\ task.pc # "idle" => task.of \in Work
    /\ task.pc = "mine" => task.of.kind = "MemberRolesChanged" /\ task.of.who = "me"
    /\ command = [pc |-> command.pc, of |-> command.of]
    /\ task = [pc |-> task.pc, of |-> task.of]

Typed == TypeOK /\ Shapes

-----------------------------------------------------------------------------
(* Types.                                                                  *)

LEMMA PlacedParts ==
    ASSUME NEW f \in Placed
    PROVE  /\ DOMAIN f \subseteq RoleId /\ \A r \in DOMAIN f : f[r] \in Position
           /\ f = [r \in DOMAIN f |-> f[r]]
BY DEF Placed

LEMMA PlacedBuilt ==
    ASSUME NEW S \in SUBSET RoleId, NEW f \in [S -> Position]
    PROVE  f \in Placed
BY DEF Placed

LEMMA Numbers ==
    /\ 0 \in RoleId /\ 1 \in RoleId /\ RoleId \subseteq Nat
    /\ 0 \in Position /\ 1 \in Position /\ 1..MaxPosition \subseteq Position
    /\ DefaultIds \in Ids /\ {} \in Ids
    /\ "me" \in Person /\ "you" \in Person
BY CacheBounds DEF RoleId, Position, DefaultIds, Ids, Person

LEMMA RowTypes == NoRow \in Row /\ \A ids \in Ids : RowOf(ids) \in Row /\ RowOf(ids).kept
BY Numbers DEF NoRow, RowOf, Row

LEMMA ListedTypes == ASSUME NEW f \in Placed PROVE Listed(f) \in RoleList
BY PlacedParts, CacheBounds DEF Listed, RoleList

LEMMA EditedTypes ==
    ASSUME NEW f \in Placed, NEW r \in RoleId, NEW at \in Position
    PROVE  /\ [x \in DOMAIN f \cup {r} |-> IF x = r THEN at ELSE f[x]] \in Placed
           /\ [x \in DOMAIN f |-> IF x = r THEN at ELSE f[x]] \in Placed
           /\ [x \in DOMAIN f \ {r} |-> f[x]] \in Placed
<1>1. [x \in DOMAIN f \cup {r} |-> IF x = r THEN at ELSE f[x]] \in [DOMAIN f \cup {r} -> Position]
  BY PlacedParts
<1>2. [x \in DOMAIN f |-> IF x = r THEN at ELSE f[x]] \in [DOMAIN f -> Position]
  BY PlacedParts
<1>3. [x \in DOMAIN f \ {r} |-> f[x]] \in [DOMAIN f \ {r} -> Position]
  BY PlacedParts
<1>4. DOMAIN f \in SUBSET RoleId /\ DOMAIN f \cup {r} \in SUBSET RoleId
      /\ DOMAIN f \ {r} \in SUBSET RoleId
  BY PlacedParts
<1> QED
  BY <1>1, <1>2, <1>3, <1>4, PlacedBuilt

LEMMA StateParts ==
    /\ server \in ServerState =>
          /\ server.roles \in Placed /\ server.top \in RoleId /\ server.held \in [Person -> Ids]
          /\ server.timed \subseteq Person /\ server.channels \subseteq Channel
          /\ server.members \subseteq Person
    /\ published \in Record =>
          /\ published.channels \subseteq Channel /\ DOMAIN published.members \subseteq Person
          /\ \A p \in DOMAIN published.members : published.members[p] \in Ids
    /\ node \in NodeState =>
          /\ node.copy \in Record /\ node.copy.channels \subseteq Channel
          /\ DOMAIN node.copy.members \subseteq Person
          /\ \A p \in DOMAIN node.copy.members : node.copy.members[p] \in Ids
    /\ memory \in MemoryState =>
          /\ memory.roles \in RoleList /\ memory.ids \in Ids
          /\ memory.channels \subseteq Channel /\ memory.my_role \in {"owner", "name"}
    /\ table \in TableState =>
          /\ table.roles \in Placed /\ table.ids \in Ids /\ table.channels \subseteq Channel
          /\ table.rows \in [Person -> Row]
BY DEF ServerState, Record, NodeState, MemoryState, TableState

\* Shapes leaves this of TypeOK.
Rest ==
    /\ server.timed \subseteq server.members
    /\ \A p \in Person : table.rows[p] = NoRow \/ table.rows[p].kept
    /\ command.pc \in {"idle", "memory", "table"}
    /\ task.pc \in {"idle", "table", "mine"}
    /\ upsets \subseteq UpsetKinds

LEMMA TypedParts == Typed <=> Shapes /\ Rest
BY StateParts DEF Typed, Shapes, Rest, TypeOK

LEMMA RosterTypes ==
    ASSUME NEW s \in ServerState
    PROVE  Roster(s) \in UNION {[S -> Ids] : S \in SUBSET Person}
<1>1. s.members \in SUBSET Person /\ s.held \in [Person -> Ids]
  BY DEF ServerState
<1>2. Roster(s) \in [s.members -> Ids]
  BY <1>1 DEF Roster
<1> QED
  BY <1>1, <1>2

LEMMA InitTyped == Init => Typed
<1> SUFFICES ASSUME Init PROVE Typed
  OBVIOUS
<1> DEFINE roles == [r \in {0, 1} |-> r]
           rows == [p \in Person |-> IF p = "me" THEN RowOf(DefaultIds) ELSE NoRow]
<1>1. roles \in Placed
  <2>1. roles \in [{0, 1} -> Position] /\ {0, 1} \in SUBSET RoleId
    BY Numbers
  <2> QED
    BY <2>1, PlacedBuilt
<1>2. rows \in [Person -> Row] /\ General \in Channel
  BY Numbers, RowTypes, CacheBounds DEF General
<1>3. /\ server \in ServerState /\ server.timed = {} /\ server.roles = roles
      /\ server.members \in {{"me"}, Person}
  <2>1. PICK members \in {{"me"}, Person} :
           server = [roles |-> roles, top |-> 1,
                     held |-> [p \in Person |-> IF p \in members THEN DefaultIds ELSE {}],
                     timed |-> {}, channels |-> {}, members |-> members]
    BY DEF Init
  <2>2. /\ [p \in Person |-> IF p \in members THEN DefaultIds ELSE {}] \in [Person -> Ids]
        /\ members \in SUBSET Person
    BY Numbers DEF Person
  <2> HIDE DEF roles
  <2> QED
    BY <1>1, <1>2, <2>1, <2>2, Numbers DEF ServerState
<1>4. published \in Record
  <2>1. Roster(server) \in UNION {[S -> Ids] : S \in SUBSET Person}
    BY <1>3, RosterTypes DEF ServerState
  <2> QED
    BY <1>2, <2>1 DEF Init, Record
<1>5. node \in NodeState /\ node.copy.channels \subseteq Channel
  <2>1. PICK watching \in BOOLEAN :
           LET created == server.members = {"me"} IN
           node = [copy |-> [published EXCEPT !.channels = IF created THEN {General} ELSE @],
                   watching |-> watching, created |-> created]
    BY DEF Init
  <2>2. /\ published = [channels |-> published.channels, members |-> published.members]
        /\ published.channels \subseteq Channel
    BY <1>4 DEF Record
  <2>3. /\ [published EXCEPT !.channels = {General}] \in Record
        /\ [published EXCEPT !.channels = @] \in Record
    BY <1>2, <1>4, <2>2 DEF Record
  <2> QED
    BY <1>2, <2>1, <2>2, <2>3 DEF NodeState, Record
<1>6. memory \in MemoryState
  <2>1. Listed(server.roles) \in RoleList
    BY <1>3, StateParts, ListedTypes
  <2> QED
    BY <1>5, <2>1, Numbers DEF Init, MemoryState
<1>7. table \in TableState
  BY <1>2, <1>3, <1>5, Numbers DEF Init, TableState, ServerState
<1>8. command = Idle /\ task = Idle /\ air = <<>> /\ changed = {} /\ upsets = {}
  BY DEF Init
<1>9. \A p \in Person : table.rows[p] = NoRow \/ table.rows[p].kept
  BY RowTypes, Numbers DEF Init
<1>10. Shapes
  BY <1>3, <1>4, <1>5, <1>6, <1>7, <1>8 DEF Shapes, Idle
<1>11. Rest
  BY <1>3, <1>8, <1>9 DEF Rest, Idle
<1> QED
  BY <1>10, <1>11, TypedParts

LEMMA RequestTypes ==
    ASSUME Typed, NEW q \in Request
    PROVE  /\ q \in Order /\ q.kind \notin {"Kick", "GetRoles"}
           /\ q.kind = "TimeoutMember" => q.who \in server.members
           /\ q.kind = "CreateRole" => q.role = NewRole
<1>1. /\ DOMAIN server.roles \subseteq RoleId /\ server.members \subseteq Person
      /\ server.channels \subseteq Channel
  BY PlacedParts, StateParts, TypedParts DEF Shapes
<1> QED
  BY <1>1, Numbers DEF Request, Order

LEMMA ServedTypes ==
    ASSUME Typed, NEW q \in Request
    PROVE  Served(q) \in ServerState /\ Served(q).timed \subseteq Served(q).members
<1>0. /\ server \in ServerState /\ server.timed \subseteq server.members /\ q \in Order
      /\ server.roles \in Placed /\ server.held \in [Person -> Ids]
  BY TypedParts, StateParts, RequestTypes DEF Shapes, Rest
<1>1. CASE q.kind \in {"CreateRole", "EditRole"}
  <2> DEFINE roles == [r \in DOMAIN server.roles \cup {q.role} |->
                         IF r = q.role THEN q.at ELSE server.roles[r]]
  <2>1. roles \in Placed /\ q.role \in RoleId
    BY <1>0, <1>1, EditedTypes DEF Order
  <2>2. Served(q) = [server EXCEPT !.roles = roles,
                                   !.top = IF q.role > @ THEN q.role ELSE @]
    BY <1>1 DEF Served
  <2> HIDE DEF roles
  <2> QED
    BY <1>0, <2>1, <2>2 DEF ServerState
<1>2. CASE q.kind = "DeleteRole"
  <2> DEFINE roles == [r \in DOMAIN server.roles \ {q.role} |-> server.roles[r]]
             held == [p \in Person |-> server.held[p] \ {q.role}]
  <2>0. q.role \in RoleId
    BY <1>0, <1>2 DEF Order
  <2>1. roles \in Placed
    <3> HIDE DEF held
    <3> QED
      BY <1>0, <2>0, EditedTypes, Numbers
  <2>h. held \in [Person -> Ids]
    BY <1>0 DEF Ids
  <2>2. Served(q) = [server EXCEPT !.roles = roles, !.held = held]
    BY <1>2 DEF Served
  <2> HIDE DEF roles, held
  <2> QED
    BY <1>0, <2>1, <2>h, <2>2 DEF ServerState
<1>3. CASE q.kind \in {"AssignRole", "UnassignRole"}
  <2>1. q.who \in Person /\ q.role \in RoleId
    BY <1>0, <1>3 DEF Order
  <2>2. \E ids \in Ids : Served(q) = [server EXCEPT !.held[q.who] = ids]
    BY <1>0, <1>3, <2>1 DEF Served, Ids
  <2> QED
    BY <1>0, <2>1, <2>2 DEF ServerState
<1>4. CASE q.kind \in {"TimeoutMember", "RemoveTimeout"}
  <2>1. \E timed \in SUBSET server.members : Served(q) = [server EXCEPT !.timed = timed]
    BY <1>0, <1>4, RequestTypes DEF Served
  <2> QED
    BY <1>0, <2>1 DEF ServerState
<1>5. CASE q.kind \in {"CreateChannel", "DeleteChannel"}
  <2>1. q.channel \in Channel /\ server.channels \subseteq Channel
    BY <1>0, <1>5, StateParts DEF Order
  <2>2. \E chans \in SUBSET Channel : Served(q) = [server EXCEPT !.channels = chans]
    BY <1>5, <2>1 DEF Served
  <2> QED
    BY <1>0, <2>2 DEF ServerState
<1>6. q.kind \in {"CreateRole", "EditRole", "DeleteRole", "AssignRole", "UnassignRole",
                  "TimeoutMember", "RemoveTimeout", "CreateChannel", "DeleteChannel"}
  BY <1>0, RequestTypes DEF Order
<1> QED
  BY <1>1, <1>2, <1>3, <1>4, <1>5, <1>6

LEMMA ToldTypes ==
    ASSUME server' \in ServerState, NEW q \in Order
    PROVE  Told(q) \in Seq(Message)
<1>0. server'.roles \in Placed /\ server'.held \in [Person -> Ids]
  BY DEF ServerState
<1>1. CASE q.kind \in {"CreateRole", "EditRole", "DeleteRole"}
  <2>1. [kind |-> "RolesChanged", roles |-> server'.roles] \in Message
    BY <1>0 DEF Message
  <2> QED
    BY <1>1, <2>1 DEF Told
<1>2. CASE q.kind \in {"AssignRole", "UnassignRole"}
  <2>1. q.who \in Person
    BY <1>2 DEF Order
  <2>2. [kind |-> "MemberRolesChanged", who |-> q.who, ids |-> server'.held[q.who]] \in Message
    BY <1>0, <2>1 DEF Message
  <2> QED
    BY <1>2, <2>2 DEF Told
<1>3. CASE q.kind \in {"TimeoutMember", "RemoveTimeout"}
  <2>1. q.who \in Person
    BY <1>3 DEF Order
  <2>2. [kind |-> "MemberTimedOut", who |-> q.who, timed |-> q.who \in server'.timed] \in Message
    BY <2>1 DEF Message
  <2> QED
    BY <1>3, <2>2 DEF Told
<1>4. CASE q.kind \notin {"CreateRole", "EditRole", "DeleteRole", "AssignRole", "UnassignRole",
                          "TimeoutMember", "RemoveTimeout"}
  BY <1>4 DEF Told
<1> QED
  BY <1>1, <1>2, <1>3, <1>4

\* What Serve makes of the server.
LEMMA ServeTypes ==
    ASSUME Typed, NEW q \in Request, Serve(q)
    PROVE  /\ server' \in ServerState /\ server'.timed \subseteq server'.members
           /\ air' \in Seq(Message) /\ published' = published /\ node' = node /\ changed' = changed
<1>1. server' \in ServerState /\ server'.timed \subseteq server'.members
  BY ServedTypes DEF Serve
<1>2. Told(q) \in Seq(Message) /\ air \in Seq(Message)
  BY <1>1, ToldTypes, RequestTypes, TypedParts DEF Shapes
<1> QED
  BY <1>1, <1>2 DEF Serve

LEMMA UpsetTypes ==
    ASSUME Typed, NEW kinds, Upset(kinds)
    PROVE  upsets' \subseteq UpsetKinds /\ upsets \subseteq upsets' /\ kinds \subseteq upsets'
BY CacheBounds, TypedParts DEF Upset, Rest

\* What a publication makes of the record and of the client's node.
LEMMA PutTypes ==
    ASSUME Typed, NEW subkey \in {"channels", "members"}, NEW value, Put(subkey, value),
           subkey = "channels" => value \in SUBSET Channel,
           subkey = "members" => value \in UNION {[S -> Ids] : S \in SUBSET Person}
    PROVE  published' \in Record /\ node' \in NodeState /\ changed' \subseteq {"channels", "members"}
<1>0. published \in Record /\ node \in NodeState /\ changed \subseteq {"channels", "members"}
  BY TypedParts DEF Shapes
<1>1. ASSUME NEW r \in Record PROVE [r EXCEPT ![subkey] = value] \in Record
  <2>1. CASE subkey = "channels"
    BY <2>1 DEF Record
  <2>2. CASE subkey = "members"
    BY <2>2 DEF Record
  <2> QED
    BY <2>1, <2>2
<1>2. published' \in Record
  BY <1>0, <1>1 DEF Put
<1>3. CASE node.watching
  <2>1. [node.copy EXCEPT ![subkey] = value] \in Record
    BY <1>0, <1>1 DEF NodeState
  <2>2. node' = [node EXCEPT !.copy = [node.copy EXCEPT ![subkey] = value]]
    BY <1>3 DEF Put
  <2>3. node' \in NodeState
    BY <1>0, <2>1, <2>2 DEF NodeState
  <2> QED
    BY <1>0, <1>2, <1>3, <2>3 DEF Put
<1>4. CASE ~node.watching
  BY <1>0, <1>2, <1>4 DEF Put
<1> QED
  BY <1>3, <1>4

LEMMA MembersTypes ==
    ASSUME Typed, NEW kinds,
           MembersChange(Admits("you") \/ Removes("you"), kinds)
    PROVE  /\ server' \in ServerState /\ server'.timed \subseteq server'.members
           /\ air' \in Seq(Message) /\ published' \in Record /\ node' \in NodeState
           /\ changed' \subseteq {"channels", "members"}
           /\ server'.roles = server.roles /\ server'.top = server.top
           /\ \E b \in Message : b.kind \in {"MemberJoined", "MemberRemoved"} /\ air' = Append(air, b)
           /\ upsets' \subseteq UpsetKinds /\ upsets \subseteq upsets' /\ kinds \subseteq upsets'
<1>0. /\ server \in ServerState /\ server.timed \subseteq server.members
      /\ air \in Seq(Message) /\ published \in Record /\ node \in NodeState
      /\ changed \subseteq {"channels", "members"}
  BY TypedParts DEF Shapes, Rest
<1>1. /\ server' \in ServerState /\ server'.timed \subseteq server'.members
      /\ server'.roles = server.roles /\ server'.top = server.top
  <2>1. CASE Admits("you")
    BY <1>0, <2>1, Numbers DEF Admits, ServerState
  <2>2. CASE Removes("you")
    BY <1>0, <2>2, Numbers DEF Removes, ServerState
  <2> QED
    BY <2>1, <2>2 DEF MembersChange
<1>2. \E b \in Message : b.kind \in {"MemberJoined", "MemberRemoved"} /\ air' = Append(air, b)
  <2>1. /\ [kind |-> "MemberJoined", who |-> "you", ids |-> DefaultIds] \in Message
        /\ [kind |-> "MemberRemoved", who |-> "you"] \in Message
    BY Numbers DEF Message
  <2> QED
    BY <2>1 DEF MembersChange, Admits, Removes
<1>3. published' \in Record /\ node' \in NodeState /\ changed' \subseteq {"channels", "members"}
  <2>1. CASE Put("members", Roster(server'))
    BY <1>1, <2>1, RosterTypes, PutTypes
  <2>2. CASE UNCHANGED <<published, node, changed>>
    BY <1>0, <2>2
  <2> QED
    BY <2>1, <2>2 DEF MembersChange
<1>4. upsets' \subseteq UpsetKinds /\ upsets \subseteq upsets' /\ kinds \subseteq upsets'
  BY UpsetTypes DEF MembersChange
<1> QED
  BY <1>0, <1>1, <1>2, <1>3, <1>4

LEMMA Shift ==
    \A i, j, n, k \in Int : ~(j < i) /\ 1 <= j /\ j <= n - 1 /\ k = i - 1 =>
        j - k \in 1..(n - i) /\ ~(j <= k) /\ i + (j - k) = j + 1
OBVIOUS

LEMMA RemovedTypes ==
    ASSUME NEW T, NEW s \in Seq(T), NEW i \in DOMAIN s
    PROVE  /\ RemoveAt(s, i) \in Seq(T)
           /\ \A j \in DOMAIN RemoveAt(s, i) :
                 \E k \in DOMAIN s : k # i /\ RemoveAt(s, i)[j] = s[k]
           /\ \A k \in DOMAIN s \ {i} :
                 \E j \in DOMAIN RemoveAt(s, i) : RemoveAt(s, i)[j] = s[k]
<1> DEFINE n == Len(s)
           r == RemoveAt(s, i)
<1>0. n \in Nat /\ i \in 1..n /\ DOMAIN s = 1..n
  OBVIOUS
<1>1. /\ r \in Seq(T) /\ Len(r) = n - 1
      /\ \A j \in 1..(n - 1) : r[j] = IF j < i THEN s[j] ELSE s[j + 1]
  <2>1. /\ SubSeq(s, 1, i - 1) \in Seq(T) /\ Len(SubSeq(s, 1, i - 1)) = i - 1
        /\ \A j \in 1..(i - 1) : SubSeq(s, 1, i - 1)[j] = s[j]
    BY <1>0, SubSeqProperties
  <2>2. /\ SubSeq(s, i + 1, n) \in Seq(T) /\ Len(SubSeq(s, i + 1, n)) = n - i
        /\ \A j \in 1..(n - i) : SubSeq(s, i + 1, n)[j] = s[i + j]
    BY <1>0, SubSeqProperties
  <2>3. r = SubSeq(s, 1, i - 1) \o SubSeq(s, i + 1, n)
    BY DEF RemoveAt
  <2> DEFINE a == SubSeq(s, 1, i - 1)
             b == SubSeq(s, i + 1, n)
             k == Len(a)
             m == Len(b)
  <2>4. a \in Seq(T) /\ b \in Seq(T) /\ r = a \o b
    BY <2>1, <2>2, <2>3
  <2>5. /\ k = i - 1 /\ m = n - i
        /\ \A j \in 1..(i - 1) : a[j] = s[j]
        /\ \A j \in 1..(n - i) : b[j] = s[i + j]
    BY <2>1, <2>2
  <2> HIDE DEF a, b, r
  <2>6. /\ r \in Seq(T) /\ Len(r) = k + m
        /\ \A j \in 1..(k + m) : r[j] = IF j <= k THEN a[j] ELSE b[j - k]
    BY <2>4, ConcatProperties
  <2> HIDE DEF k, m, n
  <2>7. i \in Int /\ n \in Nat /\ k \in Int /\ m \in Int /\ k = i - 1 /\ m = n - i /\ k + m = n - 1
    BY <1>0, <2>5
  <2>8. ASSUME NEW j \in 1..(n - 1) PROVE r[j] = IF j < i THEN s[j] ELSE s[j + 1]
    <3>0. j \in 1..(k + m) /\ j \in Int /\ 1 <= j /\ j <= n - 1
      BY <2>7
    <3>1. CASE j < i
      <4>1. j <= k /\ j \in 1..(i - 1)
        BY <2>5, <2>7, <3>0, <3>1
      <4> QED
        BY <2>5, <2>6, <3>0, <3>1, <4>1
    <3>2. CASE ~(j < i)
      <4>a. i \in Int
        BY <2>7
      <4>b. j \in Int
        BY <3>0
      <4>c. ~(j < i)
        BY <3>2
      <4>d. k = i - 1 /\ k \in Int /\ n \in Int
        BY <2>7
      <4>e. 1 <= j /\ j <= n - 1
        BY <3>0
      <4>1. j - k \in 1..(n - i) /\ ~(j <= k) /\ i + (j - k) = j + 1
        BY <4>a, <4>b, <4>c, <4>d, <4>e, Shift
      <4>2. r[j] = b[j - k]
        BY <2>6, <3>0, <4>1
      <4> QED
        BY <2>5, <3>2, <4>1, <4>2
    <3> QED
      BY <3>1, <3>2
  <2> QED
    BY <2>6, <2>7, <2>8
<1>2. DOMAIN r = 1..(n - 1)
  BY <1>1
<1> HIDE DEF r, n
<1>3. \A j \in 1..(n - 1) : \E k \in 1..n : k # i /\ r[j] = s[k]
  BY <1>0, <1>1
<1>4. ASSUME NEW k \in 1..n, k # i PROVE \E j \in 1..(n - 1) : r[j] = s[k]
  <2>1. CASE k < i
    BY <1>0, <1>1, <2>1
  <2>2. CASE k > i
    <3>1. k - 1 \in 1..(n - 1) /\ ~(k - 1 < i)
      BY <1>0, <2>2
    <3>2. r[k - 1] = s[(k - 1) + 1]
      BY <1>1, <3>1
    <3> QED
      BY <3>1, <3>2
  <2> QED
    BY <1>0, <1>4, <2>1, <2>2
<1> QED
  BY <1>0, <1>1, <1>2, <1>3, <1>4 DEF r

\* The fields of the states, which every step may use.
LEMMA Parts ==
    ASSUME Typed
    PROVE  /\ server \in ServerState /\ published \in Record /\ air \in Seq(Message)
           /\ node \in NodeState /\ node.copy \in Record /\ node.copy.channels \subseteq Channel
           /\ changed \subseteq {"channels", "members"}
           /\ memory \in MemoryState /\ table \in TableState
           /\ table.roles \in Placed /\ table.ids \in Ids /\ table.channels \subseteq Channel
           /\ table.rows \in [Person -> Row]
           /\ memory.roles \in RoleList /\ memory.ids \in Ids /\ memory.channels \subseteq Channel
           /\ server.roles \in Placed /\ server.channels \subseteq Channel
           /\ published.channels \subseteq Channel
           /\ \A p \in Person : table.rows[p] = NoRow \/ table.rows[p].kept
BY TypedParts, StateParts DEF Shapes, Rest

\* A step of a command: memory and table are well typed if what it writes is.
Sound(t) == t \in TableState /\ \A p \in Person : t.rows[p] = NoRow \/ t.rows[p].kept

LEMMA ApplyTypes ==
    ASSUME Typed, NEW m \in MemoryState, NEW t, Sound(t), Apply(m, t)
    PROVE  /\ memory' \in MemoryState /\ Sound(table')
           /\ command'.pc \in {"idle", "table"}
           /\ command' = [pc |-> command'.pc, of |-> command'.of]
           /\ command'.pc # "idle" => command'.of = command.of /\ command.pc = "memory"
<1>1. command = [pc |-> command.pc, of |-> command.of]
  BY TypedParts DEF Shapes
<1>2. memory \in MemoryState /\ Sound(table)
  BY Parts DEF Sound
<1>3. CASE command.pc = "memory" /\ memory' = m /\ command' = [command EXCEPT !.pc = "table"]
           /\ UNCHANGED table
  BY <1>1, <1>2, <1>3
<1>4. CASE Store(t)
  BY <1>2, <1>4 DEF Store, Idle
<1> QED
  BY <1>3, <1>4 DEF Apply

LEMMA UpdatedTypes ==
    ASSUME Typed, NEW who \in Person, NEW row \in Row, table.rows[who].kept => row.kept
    PROVE  Sound(Updated(who, row))
<1> DEFINE new == IF table.rows[who].kept THEN row ELSE table.rows[who]
<1>1. new \in Row /\ (new = NoRow \/ new.kept)
  BY Parts
<1>2. Updated(who, row) = [table EXCEPT !.rows[who] = new]
  BY Parts DEF Updated, TableState
<1> HIDE DEF new
<1> QED
  BY <1>1, <1>2, Parts DEF Sound, TableState

LEMMA RowEdits ==
    ASSUME Typed, NEW p \in Person, NEW ids \in Ids, NEW timed \in BOOLEAN
    PROVE  /\ [table.rows[p] EXCEPT !.ids = ids] \in Row
           /\ [table.rows[p] EXCEPT !.timed = timed] \in Row
           /\ [table.rows[p] EXCEPT !.ids = ids].kept = table.rows[p].kept
           /\ [table.rows[p] EXCEPT !.timed = timed].kept = table.rows[p].kept
<1>1. table.rows[p] \in Row
  BY Parts
<1> QED
  BY <1>1 DEF Row

LEMMA FinishTypes ==
    ASSUME Typed, Finish
    PROVE  /\ memory' \in MemoryState /\ Sound(table')
           /\ command'.pc \in {"idle", "table"}
           /\ command' = [pc |-> command'.pc, of |-> command'.of]
           /\ command'.pc # "idle" => command'.of = command.of /\ command.pc = "memory"
<1> DEFINE q == command.of
           G == /\ memory' \in MemoryState /\ Sound(table')
                /\ command'.pc \in {"idle", "table"}
                /\ command' = [pc |-> command'.pc, of |-> command'.of]
                /\ command'.pc # "idle" => command'.of = command.of /\ command.pc = "memory"
<1>a. \A m \in MemoryState : \A t : Sound(t) /\ Apply(m, t) => G
  BY ApplyTypes
<1>b. \A t : Sound(t) /\ Store(t) => G
  BY <1>a, Parts DEF Apply
<1>o. q \in Order
  BY TypedParts DEF Finish, Shapes, Rest, CreateRole, EditRole, DeleteRole, AssignRole, UnassignRole,
     TimeoutMember, RemoveTimeout, RemoveMember, CacheRoles, CreateChannel, DeleteChannel, Apply, Store
<1> SUFFICES G
  OBVIOUS
<1> HIDE DEF G
<1>1. CASE CreateRole(q)
  <2> DEFINE m == [memory EXCEPT !.roles[q.role] = Append(@, 0)]
             f == [r \in DOMAIN table.roles \cup {q.role} |-> IF r = q.role THEN 0 ELSE table.roles[r]]
             t == [table EXCEPT !.roles = f]
  <2>0. q.role \in RoleId
    BY <1>o, <1>1 DEF CreateRole, Order
  <2>1. f \in Placed
    BY <2>0, Parts, EditedTypes, Numbers
  <2>2. Append(memory.roles[q.role], 0) \in Seq(Position)
    <3>1. memory.roles[q.role] \in Seq(Position) /\ 0 \in Position
      BY <2>0, Parts, Numbers DEF RoleList
    <3> QED
      BY <3>1
  <2>3. m \in MemoryState
    BY <2>0, <2>2, Parts DEF MemoryState, RoleList
  <2>4. Apply(m, t)
    BY <1>1 DEF CreateRole, Apply, Store
  <2> HIDE DEF f, m
  <2>5. Sound(t)
    BY <2>1, Parts DEF Sound, TableState
  <2> QED
    BY <1>a, <2>3, <2>4, <2>5 DEF Apply, Store
<1>2. CASE EditRole(q)
  <2> DEFINE l == Moved(memory.roles, q.role, q.at)
             m == [memory EXCEPT !.roles = l, !.my_role = "name"]
             f == [r \in DOMAIN table.roles |-> IF r = q.role THEN q.at ELSE table.roles[r]]
             t == [table EXCEPT !.roles = f]
  <2>0. q.role \in RoleId /\ q.at \in Position
    BY <1>o, <1>2 DEF EditRole, Order
  <2>1. f \in Placed
    BY <2>0, Parts, EditedTypes
  <2>2. l \in RoleList
    <3>1. memory.roles[q.role] \in Seq(Position) /\ memory.roles \in [RoleId -> Seq(Position)]
      BY <2>0, Parts DEF RoleList
    <3>2. memory.roles[q.role] # <<>> => <<q.at>> \o Tail(memory.roles[q.role]) \in Seq(Position)
      BY <2>0, <3>1
    <3> QED
      BY <2>0, <3>1, <3>2 DEF Moved, RoleList
  <2>4. Apply(m, t)
    BY <1>2 DEF EditRole, Apply, Store
  <2> HIDE DEF f, l
  <2>3. m \in MemoryState
    BY <2>2, Parts DEF MemoryState
  <2>5. Sound(t)
    BY <2>1, Parts DEF Sound, TableState
  <2> QED
    BY <1>a, <2>3, <2>4, <2>5 DEF Apply, Store
<1>3. CASE DeleteRole(q)
  <2> DEFINE m == [memory EXCEPT !.roles[q.role] = <<>>, !.ids = @ \ {q.role}, !.my_role = "name"]
             f == [r \in DOMAIN table.roles \ {q.role} |-> table.roles[r]]
             rows == [p \in Person |-> [table.rows[p] EXCEPT !.ids = @ \ {q.role}]]
             t == [table EXCEPT !.roles = f, !.rows = rows, !.ids = @ \ {q.role}]
  <2>0. q.role \in RoleId
    BY <1>o, <1>3 DEF DeleteRole, Order
  <2>1. f \in Placed
    <3> HIDE DEF rows
    <3> QED
      BY <2>0, Parts, EditedTypes, Numbers
  <2>2. memory.ids \ {q.role} \in Ids /\ table.ids \ {q.role} \in Ids
    BY Parts DEF Ids
  <2>3. m \in MemoryState
    <3>1. [memory.roles EXCEPT ![q.role] = <<>>] \in RoleList
      BY <2>0, Parts DEF RoleList
    <3> QED
      BY <2>2, <3>1, Parts DEF MemoryState
  <2>r. ASSUME NEW p \in Person
        PROVE  rows[p] \in Row /\ (rows[p] = NoRow \/ rows[p].kept)
    <3>1. table.rows[p] \in Row /\ (table.rows[p] = NoRow \/ table.rows[p].kept)
      BY Parts
    <3>2. table.rows[p].ids \ {q.role} \in Ids
      BY <3>1 DEF Row, Ids
    <3> QED
      BY <3>1, <3>2 DEF Row, NoRow
  <2>4. Apply(m, t)
    BY <1>3 DEF DeleteRole
  <2>rr. rows \in [Person -> Row] /\ \A p \in Person : rows[p] = NoRow \/ rows[p].kept
    BY <2>r
  <2> HIDE DEF f, m, rows
  <2>5. Sound(t)
    BY <2>1, <2>2, <2>rr, Parts DEF Sound, TableState
  <2> QED
    BY <1>a, <2>3, <2>4, <2>5 DEF Apply, Store
<1>4. CASE AssignRole(q) \/ UnassignRole(q)
  <2>0. q.role \in RoleId /\ q.who \in Person
    BY <1>o, <1>4 DEF AssignRole, UnassignRole, Order
  <2>1. PICK mine \in Ids, ids \in Ids :
           Apply(IF q.who = "me" THEN [memory EXCEPT !.ids = mine, !.my_role = "name"] ELSE memory,
                 Updated(q.who, [table.rows[q.who] EXCEPT !.ids = ids]))
    <3>1. memory.ids \in Ids /\ table.rows[q.who] \in Row /\ table.rows[q.who].ids \in Ids
      BY <2>0, Parts DEF Row
    <3>2. /\ memory.ids \cup {q.role} \in Ids /\ memory.ids \ {q.role} \in Ids
          /\ table.rows[q.who].ids \cup {q.role} \in Ids /\ table.rows[q.who].ids \ {q.role} \in Ids
      BY <2>0, <3>1 DEF Ids
    <3> QED
      BY <1>4, <3>2 DEF AssignRole, UnassignRole
  <2>2. [memory EXCEPT !.ids = mine, !.my_role = "name"] \in MemoryState /\ memory \in MemoryState
    BY Parts DEF MemoryState
  <2>3. Sound(Updated(q.who, [table.rows[q.who] EXCEPT !.ids = ids]))
    BY <2>0, RowEdits, UpdatedTypes
  <2> QED
    BY <1>a, <2>1, <2>2, <2>3 DEF Apply, Store
<1>5. CASE TimeoutMember(q) \/ RemoveTimeout(q)
  <2>0. q.who \in Person
    BY <1>o, <1>5 DEF TimeoutMember, RemoveTimeout, Order
  <2>1. PICK timed \in BOOLEAN : Store(Updated(q.who, [table.rows[q.who] EXCEPT !.timed = timed]))
    BY <1>5 DEF TimeoutMember, RemoveTimeout
  <2>2. Sound(Updated(q.who, [table.rows[q.who] EXCEPT !.timed = timed]))
    BY <2>0, RowEdits, UpdatedTypes, Numbers
  <2> QED
    BY <1>b, <2>1, <2>2 DEF Store
<1>6. CASE RemoveMember(q)
  <2>0. q.who \in Person
    BY <1>o, <1>6 DEF RemoveMember, Order
  <2>1. Sound([table EXCEPT !.rows[q.who] = NoRow])
    BY <2>0, Parts, RowTypes DEF Sound, TableState
  <2> QED
    BY <1>b, <1>6, <2>1 DEF RemoveMember, Store
<1>7. CASE CacheRoles(q)
  <2>0. q.roles \in Placed /\ Listed(q.roles) \in RoleList
    BY <1>o, <1>7, ListedTypes DEF CacheRoles, Order
  <2>1. [memory EXCEPT !.roles = Listed(q.roles), !.my_role = "name"] \in MemoryState
    BY <2>0, Parts DEF MemoryState
  <2>2. Sound([table EXCEPT !.roles = q.roles])
    BY <2>0, Parts DEF Sound, TableState
  <2> QED
    BY <1>a, <1>7, <2>1, <2>2 DEF CacheRoles, Apply, Store
<1>8. CASE CreateChannel(q) \/ DeleteChannel(q)
  <2>0. q.channel \in Channel
    BY <1>o, <1>8 DEF CreateChannel, DeleteChannel, Order
  <2>1. PICK shown \in SUBSET Channel, kept \in SUBSET Channel :
           Apply([memory EXCEPT !.channels = shown], [table EXCEPT !.channels = kept])
    BY <1>8, <2>0, Parts DEF CreateChannel, DeleteChannel
  <2>2. [memory EXCEPT !.channels = shown] \in MemoryState
    BY Parts DEF MemoryState
  <2>3. Sound([table EXCEPT !.channels = kept])
    BY Parts DEF Sound, TableState
  <2> QED
    BY <1>a, <2>1, <2>2, <2>3 DEF Apply, Store
<1> QED
  BY <1>1, <1>2, <1>3, <1>4, <1>5, <1>6, <1>7, <1>8 DEF Finish

\* What a handler of the dispatch loop leaves.
LEMMA HandledTypes ==
    ASSUME Typed, NEW b \in Message,
           \/ HandleRolesChanged(b) \/ HandleMemberRolesChanged(b) \/ HandleMemberTimedOut(b)
           \/ HandleMemberJoined(b) \/ HandleMemberRemoved(b)
    PROVE  /\ memory' \in MemoryState /\ Sound(table')
           /\ task' = task \/ (b \in Work /\ task' = [pc |-> "table", of |-> b])
<1>0. memory \in MemoryState /\ Sound(table)
  BY Parts DEF Sound
<1>1. CASE HandleRolesChanged(b)
  <2>1. b.roles \in Placed /\ Listed(b.roles) \in RoleList /\ b \in Work
    BY <1>1, ListedTypes DEF HandleRolesChanged, Message, Work
  <2>2. memory' \in MemoryState
    BY <1>0, <1>1, <2>1 DEF HandleRolesChanged, MemoryState
  <2> QED
    BY <1>0, <1>1, <2>1, <2>2 DEF HandleRolesChanged
<1>2. CASE HandleMemberRolesChanged(b)
  <2>1. b.ids \in Ids /\ b \in Work
    BY <1>2 DEF HandleMemberRolesChanged, Message, Work
  <2>2. memory' \in MemoryState
    BY <1>0, <1>2, <2>1 DEF HandleMemberRolesChanged, MemoryState
  <2> QED
    BY <1>0, <1>2, <2>1, <2>2 DEF HandleMemberRolesChanged
<1>3. CASE HandleMemberTimedOut(b)
  <2>1. b.who \in Person /\ b.timed \in BOOLEAN
    BY <1>3 DEF HandleMemberTimedOut, Message
  <2>2. Sound(Updated(b.who, [table.rows[b.who] EXCEPT !.timed = b.timed]))
    BY <2>1, RowEdits, UpdatedTypes, Numbers
  <2> QED
    BY <1>0, <1>3, <2>2 DEF HandleMemberTimedOut
<1>4. CASE HandleMemberJoined(b)
  <2> DEFINE new == IF table.rows[b.who].kept THEN table.rows[b.who] ELSE RowOf(b.ids)
  <2>1. b.who \in Person /\ b.ids \in Ids
    BY <1>4 DEF HandleMemberJoined, Message
  <2>2. new \in Row /\ new.kept
    BY <2>1, Parts, RowTypes
  <2>3. table' = [table EXCEPT !.rows[b.who] = new]
    BY <1>4 DEF HandleMemberJoined
  <2> HIDE DEF new
  <2>4. Sound(table')
    BY <2>1, <2>2, <2>3, Parts DEF Sound, TableState
  <2> QED
    BY <1>0, <1>4, <2>4 DEF HandleMemberJoined
<1>5. CASE HandleMemberRemoved(b)
  <2>1. b.who \in Person
    BY <1>5 DEF HandleMemberRemoved, Message
  <2>2. Sound([table EXCEPT !.rows[b.who] = NoRow])
    BY <2>1, Parts, RowTypes DEF Sound, TableState
  <2> QED
    BY <1>0, <1>5, <2>2 DEF HandleMemberRemoved
<1> QED
  BY <1>1, <1>2, <1>3, <1>4, <1>5

\* What the two later steps of a handler leave.
LEMMA TaskTypes ==
    ASSUME Typed, TaskTable \/ TaskMine
    PROVE  /\ Sound(table')
           /\ task' = Idle \/ (/\ task.pc = "table" /\ task.of.kind = "MemberRolesChanged"
                              /\ task.of.who = "me" /\ task' = [task EXCEPT !.pc = "mine"])
<1>0. task.of \in Work /\ table \in TableState /\ (task.pc = "mine" => task.of.kind = "MemberRolesChanged")
  BY TypedParts DEF Shapes, TaskTable, TaskMine
<1>1. CASE TaskTable /\ task.of.kind = "RolesChanged"
  <2>1. task.of.roles \in Placed
    BY <1>0, <1>1 DEF Work, Message
  <2>2. Sound([table EXCEPT !.roles = task.of.roles])
    BY <2>1, Parts DEF Sound, TableState
  <2> QED
    BY <1>1, <2>2 DEF TaskTable
<1>2. CASE TaskTable /\ task.of.kind = "MemberRolesChanged"
  <2>1. task.of.who \in Person /\ task.of.ids \in Ids
    BY <1>0, <1>2 DEF Work, Message
  <2>2. Sound(Updated(task.of.who, [table.rows[task.of.who] EXCEPT !.ids = task.of.ids]))
    BY <2>1, RowEdits, UpdatedTypes
  <2> QED
    BY <1>2, <2>2 DEF TaskTable
<1>3. CASE TaskTable /\ task.of.kind = "Channels"
  <2>1. task.of.channels \subseteq Channel
    BY <1>0, <1>3 DEF Work, Message
  <2>2. Sound([table EXCEPT !.channels = task.of.channels])
    BY <2>1, Parts DEF Sound, TableState
  <2> QED
    BY <1>3, <2>2 DEF TaskTable
<1>4. CASE TaskMine
  <2>1. task.of.ids \in Ids
    BY <1>0, <1>4 DEF TaskMine, Work, Message
  <2>2. Sound([table EXCEPT !.ids = task.of.ids])
    BY <2>1, Parts DEF Sound, TableState
  <2> QED
    BY <1>4, <2>2 DEF TaskMine
<1>5. task.of.kind \in {"RolesChanged", "MemberRolesChanged", "Channels"}
  BY <1>0 DEF Work
<1> QED
  BY <1>1, <1>2, <1>3, <1>4, <1>5

LEMMA StepTyped == Typed /\ [Next]_vars => Typed'
<1> SUFFICES ASSUME Typed, [Next]_vars PROVE Typed'
  OBVIOUS
<1> USE DEF client
<1>0. /\ Shapes /\ Rest /\ Sound(table)
  BY TypedParts, Parts DEF Sound
<1>g. ASSUME Shapes', Rest' PROVE Typed'
  BY <1>g, TypedParts, PTL
<1>1. CASE OthersDo
  <2>1. PICK q \in Request : Serve(q) /\ Upset(Recycles(q))
    BY <1>1 DEF OthersDo
  <2>2. /\ server' \in ServerState /\ server'.timed \subseteq server'.members
        /\ air' \in Seq(Message) /\ published' = published /\ node' = node /\ changed' = changed
        /\ upsets' \subseteq UpsetKinds
    BY <2>1, ServeTypes, UpsetTypes
  <2> QED
    BY <1>0, <1>1, <1>g, <2>2 DEF OthersDo, Shapes, Rest
<1>2. CASE ComesOrGoes
  <2>1. MembersChange(Admits("you") \/ Removes("you"), {})
    BY <1>2 DEF ComesOrGoes
  <2> QED
    BY <1>0, <1>2, <1>g, <2>1, MembersTypes DEF ComesOrGoes, Shapes, Rest
<1>3. ASSUME NEW subkey \in {"channels", "members"}, Publish(subkey) PROVE Typed'
  <2>1. /\ Current.channels \in SUBSET Channel
        /\ Current.members \in UNION {[S -> Ids] : S \in SUBSET Person}
    BY <1>0, Parts, RosterTypes DEF Current
  <2>2. Put(subkey, Current[subkey])
    BY <1>3 DEF Publish
  <2>3. published' \in Record /\ node' \in NodeState /\ changed' \subseteq {"channels", "members"}
    BY <2>1, <2>2, PutTypes
  <2>4. UNCHANGED <<server, air, client, upsets>>
    BY <1>3 DEF Publish
  <2> QED
    BY <1>0, <1>g, <2>3, <2>4 DEF Shapes, Rest
<1>4. CASE Lose
  <2>1. air' \in Seq(Message) /\ changed' \subseteq {"channels", "members"}
    BY <1>4, Parts, RemovedTypes DEF Lose
  <2>2. upsets' \subseteq UpsetKinds
    BY <1>4, UpsetTypes DEF Lose
  <2>3. Current \in Record
    BY <1>0, Parts, RosterTypes DEF Current, Record
  <2>4. [node EXCEPT !.watching = FALSE] \in NodeState
    BY Parts DEF NodeState
  <2>5. published' \in Record /\ node' \in NodeState
    BY <1>4, <2>3, <2>4, Parts DEF Lose
  <2> QED
    BY <1>0, <1>4, <1>g, <2>1, <2>2, <2>5 DEF Lose, Shapes, Rest
<1>5. CASE Command
  <2>1. PICK q \in Request : Serve(q) /\ Answered(q) /\ Upset(Recycles(q) \cup Crosses)
    BY <1>5 DEF Command
  <2>2. /\ server' \in ServerState /\ server'.timed \subseteq server'.members
        /\ air' \in Seq(Message) /\ published' = published /\ node' = node /\ changed' = changed
        /\ upsets' \subseteq UpsetKinds /\ q \in Order
    BY <2>1, ServeTypes, UpsetTypes, RequestTypes
  <2>3. command' = [pc |-> IF q.kind \in InMemory THEN "memory" ELSE "table", of |-> q]
    BY <2>1 DEF Answered
  <2> QED
    BY <1>0, <1>5, <1>g, <2>2, <2>3 DEF Command, Shapes, Rest
<1>6. CASE Kick
  <2>1. MembersChange(Admits("you") \/ Removes("you"), Crosses)
    BY <1>6 DEF Kick, MembersChange
  <2>2. command' = [pc |-> "table", of |-> [kind |-> "Kick", who |-> "you"]]
    BY <1>6 DEF Kick, Answered, InMemory
  <2>3. [kind |-> "Kick", who |-> "you"] \in Order
    BY Numbers DEF Order
  <2> QED
    BY <1>0, <1>6, <1>g, <2>1, <2>2, <2>3, MembersTypes DEF Kick, Shapes, Rest
<1>7. CASE GetRoles
  <2>1. /\ command' = [pc |-> "memory", of |-> [kind |-> "GetRoles", roles |-> server.roles]]
        /\ "GetRoles" \in InMemory
    BY <1>7 DEF GetRoles, Answered, InMemory
  <2>2. [kind |-> "GetRoles", roles |-> server.roles] \in Order /\ upsets' \subseteq UpsetKinds
    BY <1>7, Parts, UpsetTypes DEF GetRoles, Order
  <2> QED
    BY <1>0, <1>7, <1>g, <2>1, <2>2 DEF GetRoles, Shapes, Rest
<1>8. CASE CreateLocally
  <2>1. PICK c \in Channel :
           /\ memory' = [memory EXCEPT !.channels = @ \cup {c}]
           /\ command' = [pc |-> "table", of |-> [kind |-> "CreateChannel", channel |-> c]]
    BY <1>8 DEF CreateLocally
  <2>2. memory' \in MemoryState
    BY <2>1, Parts DEF MemoryState
  <2>3. [kind |-> "CreateChannel", channel |-> c] \in Order /\ upsets' \subseteq UpsetKinds
    BY <1>8, UpsetTypes DEF CreateLocally, Order
  <2> QED
    BY <1>0, <1>8, <1>g, <2>1, <2>2, <2>3 DEF CreateLocally, Shapes, Rest
<1>9. CASE Finish
  <2>1. /\ memory' \in MemoryState /\ Sound(table')
        /\ command'.pc \in {"idle", "table"}
        /\ command' = [pc |-> command'.pc, of |-> command'.of]
        /\ command'.pc # "idle" => command'.of = command.of /\ command.pc = "memory"
    BY <1>9, FinishTypes
  <2> QED
    BY <1>0, <1>9, <1>g, <2>1 DEF Finish, Shapes, Rest, Sound
<1>10. ASSUME NEW i \in DOMAIN air, Dispatch(i) PROVE Typed'
  <2> DEFINE b == air[i]
  <2>1. b \in Message
    BY Parts
  <2>2. \/ HandleRolesChanged(b) \/ HandleMemberRolesChanged(b) \/ HandleMemberTimedOut(b)
        \/ HandleMemberJoined(b) \/ HandleMemberRemoved(b)
    BY <1>10 DEF Dispatch
  <2> HIDE DEF b
  <2>3. /\ memory' \in MemoryState /\ Sound(table')
        /\ task' = task \/ (b \in Work /\ task' = [pc |-> "table", of |-> b])
    BY <2>1, <2>2, HandledTypes
  <2>4. air' \in Seq(Message)
    BY <1>10, Parts, RemovedTypes DEF Dispatch
  <2>5. upsets' \subseteq UpsetKinds
    BY <1>10, UpsetTypes DEF Dispatch
  <2> QED
    BY <1>0, <1>10, <1>g, <2>3, <2>4, <2>5 DEF Dispatch, Shapes, Rest, Sound
<1>11. CASE HandleChannelList
  <2>1. memory' \in MemoryState
    BY <1>11, Parts DEF HandleChannelList, MemoryState
  <2>2. [kind |-> "Channels", channels |-> node.copy.channels] \in Work
    BY Parts DEF Work
  <2>3. upsets' \subseteq UpsetKinds
    BY <1>11, UpsetTypes DEF HandleChannelList
  <2> QED
    BY <1>0, <1>11, <1>g, <2>1, <2>2, <2>3 DEF HandleChannelList, Shapes, Rest
<1>12. CASE HandleMemberList
  <2> DEFINE rows == [p \in Person |-> IF p \in DOMAIN node.copy.members
                                      THEN RowOf(node.copy.members[p]) ELSE table.rows[p]]
  <2>1. rows \in [Person -> Row] /\ \A p \in Person : rows[p] = NoRow \/ rows[p].kept
    BY <1>0, Parts, StateParts, RowTypes
  <2>2. table' = [table EXCEPT !.rows = rows]
    BY <1>12 DEF HandleMemberList
  <2> HIDE DEF rows
  <2>3. Sound(table')
    BY <2>1, <2>2, Parts DEF Sound, TableState
  <2>4. upsets' \subseteq UpsetKinds
    BY <1>12, UpsetTypes DEF HandleMemberList
  <2> QED
    BY <1>0, <1>12, <1>g, <2>3, <2>4 DEF HandleMemberList, Shapes, Rest, Sound
<1>13. CASE TaskTable \/ TaskMine
  <2>1. /\ Sound(table')
        /\ task' = Idle \/ (/\ task.pc = "table" /\ task.of.kind = "MemberRolesChanged"
                           /\ task.of.who = "me" /\ task' = [task EXCEPT !.pc = "mine"])
    BY <1>13, TaskTypes
  <2>2. UNCHANGED <<server, published, air, node, changed, memory, command, upsets>>
    BY <1>13 DEF TaskTable, TaskMine
  <2> QED
    BY <1>0, <1>g, <2>1, <2>2 DEF Shapes, Rest, Sound, Idle
<1>14. CASE Sync
  <2>1. memory' \in MemoryState
    BY <1>14, Parts DEF Sync, MemoryState
  <2> QED
    BY <1>0, <1>14, <1>g, <2>1 DEF Sync, Shapes, Rest
<1>15. CASE Restart
  <2>1. memory' \in MemoryState
    BY <1>15, Parts, ListedTypes DEF Restart, MemoryState
  <2>2. upsets' \subseteq UpsetKinds
    BY <1>15, UpsetTypes DEF Restart
  <2>3. <<>> \in Seq(Message)
    OBVIOUS
  <2>4. node \in NodeState /\ node' = [node EXCEPT !.watching = FALSE]
    BY <1>15, Parts DEF Restart
  <2>5. node' \in NodeState
    BY <2>4 DEF NodeState
  <2> QED
    BY <1>0, <1>15, <1>g, <2>1, <2>2, <2>3, <2>5 DEF Restart, Shapes, Rest, Idle
<1>16. CASE UNCHANGED vars
  BY <1>0, <1>16, <1>g DEF vars, Shapes, Rest
<1> QED
  BY <1>1, <1>2, <1>3, <1>4, <1>5, <1>6, <1>7, <1>8, <1>9, <1>10, <1>11, <1>12, <1>13,
     <1>14, <1>15, <1>16 DEF Next, Server, User, Loop

\* Every reachable state is well typed: the row of somebody who is not listed
\* stays empty whatever an UPDATE of it says (community.rs, assign_role), and who
\* is timed out is a member.
THEOREM CacheTypes == Spec => []TypeOK
<1>1. Typed => TypeOK
  BY DEF Typed
<1> QED
  BY <1>1, InitTyped, StepTyped, PTL DEF Spec

-----------------------------------------------------------------------------
(* What a command makes of memory and of the table.                        *)

RolesAfter(q, f) ==
    CASE q.kind = "CreateRole" ->
            [r \in DOMAIN f \cup {q.role} |-> IF r = q.role THEN 0 ELSE f[r]]
      [] q.kind = "EditRole"   -> [r \in DOMAIN f |-> IF r = q.role THEN q.at ELSE f[r]]
      [] q.kind = "DeleteRole" -> [r \in DOMAIN f \ {q.role} |-> f[r]]
      [] q.kind = "GetRoles"   -> q.roles
      [] OTHER -> f

ListAfter(q, list) ==
    CASE q.kind = "CreateRole" -> [list EXCEPT ![q.role] = Append(@, 0)]
      [] q.kind = "EditRole"   -> Moved(list, q.role, q.at)
      [] q.kind = "DeleteRole" -> [list EXCEPT ![q.role] = <<>>]
      [] q.kind = "GetRoles"   -> Listed(q.roles)
      [] OTHER -> list

IdsAfter(q, ids) == IF q.kind = "DeleteRole" THEN ids \ {q.role} ELSE ids
AboutMe(q) == q.kind \in {"AssignRole", "UnassignRole"} /\ q.who = "me"

\* A list in memory that shows the table still shows it when a command has
\* changed both, unless create_role adds a role that is listed already.
LEMMA ListShowsTable ==
    ASSUME NEW q \in Order, NEW f \in Placed, q.kind = "CreateRole" => q.role \notin DOMAIN f
    PROVE  ListAfter(q, Listed(f)) = Listed(RolesAfter(q, f))
<1>0. DOMAIN f \subseteq RoleId /\ DOMAIN Listed(f) = RoleId
  BY PlacedParts DEF Listed
<1>1. CASE q.kind = "CreateRole"
  <2>1. q.role \in RoleId /\ q.role \notin DOMAIN f
    BY <1>1 DEF Order
  <2>2. ListAfter(q, Listed(f)) = [Listed(f) EXCEPT ![q.role] = Append(@, 0)]
    BY <1>1 DEF ListAfter
  <2>3. Listed(f)[q.role] = <<>> /\ Append(<<>>, 0) = <<0>>
    BY <2>1 DEF Listed
  <2>4. RolesAfter(q, f) = [r \in DOMAIN f \cup {q.role} |-> IF r = q.role THEN 0 ELSE f[r]]
    BY <1>1 DEF RolesAfter
  <2> QED
    BY <2>1, <2>2, <2>3, <2>4 DEF Listed
<1>2. CASE q.kind = "EditRole"
  <2>1. q.role \in RoleId
    BY <1>2 DEF Order
  <2>2. RolesAfter(q, f) = [r \in DOMAIN f |-> IF r = q.role THEN q.at ELSE f[r]]
    BY <1>2 DEF RolesAfter
  <2>3. ListAfter(q, Listed(f))
          = [Listed(f) EXCEPT ![q.role] = IF @ = <<>> THEN @ ELSE <<q.at>> \o Tail(@)]
    BY <1>2 DEF ListAfter, Moved
  <2>4. CASE q.role \in DOMAIN f
    <3>1. /\ Listed(f)[q.role] = <<f[q.role]>> /\ <<f[q.role]>> # <<>>
          /\ Tail(<<f[q.role]>>) = <<>> /\ <<q.at>> \o <<>> = <<q.at>>
      BY <2>1, <2>4 DEF Listed
    <3>2. ListAfter(q, Listed(f)) = [Listed(f) EXCEPT ![q.role] = <<q.at>>]
      BY <2>3, <3>1
    <3> QED
      BY <1>0, <2>1, <2>2, <2>4, <3>2 DEF Listed
  <2>5. CASE q.role \notin DOMAIN f
    <3>1. Listed(f)[q.role] = <<>>
      BY <2>1, <2>5 DEF Listed
    <3>2. ListAfter(q, Listed(f)) = Listed(f)
      BY <1>0, <2>3, <3>1 DEF Listed
    <3>3. RolesAfter(q, f) = f
      BY <2>2, <2>5, PlacedParts
    <3> QED
      BY <3>2, <3>3
  <2> QED
    BY <2>4, <2>5
<1>3. CASE q.kind = "DeleteRole"
  <2>1. q.role \in RoleId
    BY <1>3 DEF Order
  <2>2. ListAfter(q, Listed(f)) = [Listed(f) EXCEPT ![q.role] = <<>>]
    BY <1>3 DEF ListAfter
  <2>3. RolesAfter(q, f) = [r \in DOMAIN f \ {q.role} |-> f[r]]
    BY <1>3 DEF RolesAfter
  <2> QED
    BY <2>1, <2>2, <2>3 DEF Listed
<1>4. CASE q.kind \notin {"CreateRole", "EditRole", "DeleteRole"}
  BY <1>4 DEF ListAfter, RolesAfter
<1> QED
  BY <1>1, <1>2, <1>3, <1>4

InMemoryStep ==
    /\ command.pc = "memory" /\ command' = [pc |-> "table", of |-> command.of] /\ table' = table
    /\ task' = task
    /\ memory'.roles = ListAfter(command.of, memory.roles)
    /\ AboutMe(command.of) \/ memory'.ids = IdsAfter(command.of, memory.ids)
InTableStep ==
    /\ command.pc = "table" /\ command' = Idle /\ memory' = memory /\ task' = task
    /\ table'.roles = RolesAfter(command.of, table.roles)
    /\ table'.ids = IdsAfter(command.of, table.ids)

LEMMA FinishEffect == ASSUME Typed, Finish PROVE InMemoryStep \/ InTableStep
<1> DEFINE q == command.of
<1>0. /\ command = [pc |-> command.pc, of |-> q] /\ memory \in MemoryState /\ table \in TableState
      /\ task' = task
  BY TypedParts DEF Shapes, Finish
<1>a. ASSUME NEW m, NEW t, Apply(m, t),
             m.roles = ListAfter(q, memory.roles),
             AboutMe(q) \/ m.ids = IdsAfter(q, memory.ids),
             t.roles = RolesAfter(q, table.roles), t.ids = IdsAfter(q, table.ids)
      PROVE  InMemoryStep \/ InTableStep
  <2>1. CASE command.pc = "memory" /\ memory' = m /\ command' = [command EXCEPT !.pc = "table"]
            /\ UNCHANGED table
    <3>1. command' = [pc |-> "table", of |-> q]
      BY <1>0, <2>1
    <3> QED
      BY <1>0, <1>a, <2>1, <3>1 DEF InMemoryStep
  <2>2. CASE Store(t)
    BY <1>0, <1>a, <2>2 DEF InTableStep, Store
  <2> QED
    BY <1>a, <2>1, <2>2 DEF Apply
<1>b. ASSUME NEW t, Store(t), t.roles = RolesAfter(q, table.roles), t.ids = IdsAfter(q, table.ids)
      PROVE  InMemoryStep \/ InTableStep
  BY <1>0, <1>b DEF InTableStep, Store
<1>1. CASE CreateRole(q)
  <2> DEFINE m == [memory EXCEPT !.roles[q.role] = Append(@, 0)]
             t == [table EXCEPT !.roles = [r \in DOMAIN @ \cup {q.role} |->
                                              IF r = q.role THEN 0 ELSE @[r]]]
  <2>1. Apply(m, t) /\ q.kind = "CreateRole"
    BY <1>1 DEF CreateRole
  <2>2. m.roles = ListAfter(q, memory.roles) /\ m.ids = IdsAfter(q, memory.ids)
    BY <1>0, <2>1 DEF ListAfter, IdsAfter, MemoryState
  <2>3. t.roles = RolesAfter(q, table.roles) /\ t.ids = IdsAfter(q, table.ids)
    BY <1>0, <2>1 DEF RolesAfter, IdsAfter, TableState
  <2> HIDE DEF m, t
  <2> QED
    BY <1>a, <2>1, <2>2, <2>3
<1>2. CASE EditRole(q)
  <2> DEFINE m == [memory EXCEPT !.roles = Moved(@, q.role, q.at), !.my_role = "name"]
             t == [table EXCEPT !.roles = [r \in DOMAIN @ |-> IF r = q.role THEN q.at ELSE @[r]]]
  <2>1. Apply(m, t) /\ q.kind = "EditRole"
    BY <1>2 DEF EditRole
  <2>2. m.roles = ListAfter(q, memory.roles) /\ m.ids = IdsAfter(q, memory.ids)
    BY <1>0, <2>1 DEF ListAfter, IdsAfter, MemoryState
  <2>3. t.roles = RolesAfter(q, table.roles) /\ t.ids = IdsAfter(q, table.ids)
    BY <1>0, <2>1 DEF RolesAfter, IdsAfter, TableState
  <2> HIDE DEF m, t
  <2> QED
    BY <1>a, <2>1, <2>2, <2>3
<1>3. CASE DeleteRole(q)
  <2> DEFINE m == [memory EXCEPT !.roles[q.role] = <<>>, !.ids = @ \ {q.role}, !.my_role = "name"]
             rows == [p \in Person |-> [table.rows[p] EXCEPT !.ids = @ \ {q.role}]]
             t == [table EXCEPT !.roles = [r \in DOMAIN @ \ {q.role} |-> @[r]],
                                !.rows = rows, !.ids = @ \ {q.role}]
  <2>1. Apply(m, t) /\ q.kind = "DeleteRole"
    BY <1>3 DEF DeleteRole
  <2>2. m.roles = ListAfter(q, memory.roles) /\ m.ids = IdsAfter(q, memory.ids)
    BY <1>0, <2>1 DEF ListAfter, IdsAfter, MemoryState
  <2> HIDE DEF rows
  <2>3. t.roles = RolesAfter(q, table.roles) /\ t.ids = IdsAfter(q, table.ids)
    BY <1>0, <2>1 DEF RolesAfter, IdsAfter, TableState
  <2> HIDE DEF m, t
  <2> QED
    BY <1>a, <2>1, <2>2, <2>3
<1>u. ASSUME NEW who, NEW row
      PROVE  Updated(who, row).roles = table.roles /\ Updated(who, row).ids = table.ids
  BY <1>0 DEF Updated, TableState
<1>4. CASE AssignRole(q) \/ UnassignRole(q)
  <2>1. q.kind \in {"AssignRole", "UnassignRole"}
    BY <1>4 DEF AssignRole, UnassignRole
  <2>2. \A f, l, ids : RolesAfter(q, f) = f /\ ListAfter(q, l) = l /\ IdsAfter(q, ids) = ids
    BY <2>1 DEF RolesAfter, ListAfter, IdsAfter
  <2>3. PICK mine, row :
           Apply(IF q.who = "me" THEN [memory EXCEPT !.ids = mine, !.my_role = "name"] ELSE memory,
                 Updated(q.who, row))
    BY <1>4 DEF AssignRole, UnassignRole
  <2> DEFINE m == IF q.who = "me" THEN [memory EXCEPT !.ids = mine, !.my_role = "name"] ELSE memory
             t == Updated(q.who, row)
  <2>4. m.roles = memory.roles /\ (AboutMe(q) \/ m.ids = memory.ids)
    BY <1>0, <2>1 DEF MemoryState, AboutMe
  <2>5. t.roles = table.roles /\ t.ids = table.ids
    BY <1>u
  <2>6. Apply(m, t)
    BY <2>3
  <2> HIDE DEF m, t
  <2> QED
    BY <1>a, <2>2, <2>4, <2>5, <2>6
<1>5. CASE TimeoutMember(q) \/ RemoveTimeout(q)
  <2>1. PICK row : Store(Updated(q.who, row))
    BY <1>5 DEF TimeoutMember, RemoveTimeout
  <2>2. \A f, ids : RolesAfter(q, f) = f /\ IdsAfter(q, ids) = ids
    BY <1>5 DEF TimeoutMember, RemoveTimeout, RolesAfter, IdsAfter
  <2> QED
    BY <1>b, <1>u, <2>1, <2>2
<1>6. CASE RemoveMember(q)
  <2> DEFINE t == [table EXCEPT !.rows[q.who] = NoRow]
  <2>1. Store(t)
    BY <1>6 DEF RemoveMember
  <2>2. RolesAfter(q, table.roles) = table.roles /\ IdsAfter(q, table.ids) = table.ids
    BY <1>6 DEF RemoveMember, RolesAfter, IdsAfter
  <2>3. t.roles = table.roles /\ t.ids = table.ids
    BY <1>0 DEF TableState
  <2> HIDE DEF t
  <2> QED
    BY <1>b, <2>1, <2>2, <2>3
<1>7. CASE CacheRoles(q)
  <2> DEFINE m == [memory EXCEPT !.roles = Listed(q.roles), !.my_role = "name"]
             t == [table EXCEPT !.roles = q.roles]
  <2>1. Apply(m, t) /\ q.kind = "GetRoles"
    BY <1>7 DEF CacheRoles
  <2>2. m.roles = ListAfter(q, memory.roles) /\ m.ids = IdsAfter(q, memory.ids)
    BY <1>0, <2>1 DEF ListAfter, IdsAfter, MemoryState
  <2>3. t.roles = RolesAfter(q, table.roles) /\ t.ids = IdsAfter(q, table.ids)
    BY <1>0, <2>1 DEF RolesAfter, IdsAfter, TableState
  <2> HIDE DEF m, t
  <2> QED
    BY <1>a, <2>1, <2>2, <2>3
<1>8. CASE CreateChannel(q) \/ DeleteChannel(q)
  <2>1. PICK shown, kept : Apply([memory EXCEPT !.channels = shown], [table EXCEPT !.channels = kept])
    BY <1>8 DEF CreateChannel, DeleteChannel
  <2> DEFINE m == [memory EXCEPT !.channels = shown]
             t == [table EXCEPT !.channels = kept]
  <2>2. \A f, l, ids : RolesAfter(q, f) = f /\ ListAfter(q, l) = l /\ IdsAfter(q, ids) = ids
    BY <1>8 DEF CreateChannel, DeleteChannel, RolesAfter, ListAfter, IdsAfter
  <2>3. m.roles = memory.roles /\ m.ids = memory.ids /\ t.roles = table.roles /\ t.ids = table.ids
    BY <1>0 DEF MemoryState, TableState
  <2> HIDE DEF m, t
  <2> QED
    BY <1>a, <2>1, <2>2, <2>3 DEF m, t
<1> QED
  BY <1>1, <1>2, <1>3, <1>4, <1>5, <1>6, <1>7, <1>8 DEF Finish

-----------------------------------------------------------------------------
(* The inductive invariant.                                                *)

\* No role has an id above the highest that the server has given, wherever it
\* is listed.
Known(f, top) == \A r \in DOMAIN f : r <= top
TopInv ==
    /\ Known(server.roles, server.top) /\ Known(table.roles, server.top)
    /\ \A i \in DOMAIN air : air[i].kind = "RolesChanged" => Known(air[i].roles, server.top)
    /\ command.pc # "idle" /\ command.of.kind = "GetRoles" => Known(command.of.roles, server.top)
    /\ command.pc # "idle" /\ command.of.kind = "CreateRole" => command.of.role <= server.top
    /\ task.pc # "idle" /\ task.of.kind = "RolesChanged" => Known(task.of.roles, server.top)

\* What the table will have when the command or the handler under way is done.
RolesThen ==
    IF command.pc = "table" THEN RolesAfter(command.of, table.roles)
    ELSE IF task.pc = "table" /\ task.of.kind = "RolesChanged" THEN task.of.roles ELSE table.roles

Mine(b) == b.kind = "MemberRolesChanged" /\ b.who = "me"
IdsThen ==
    IF command.pc = "table" THEN IdsAfter(command.of, table.ids)
    ELSE IF task.pc # "idle" /\ Mine(task.of) THEN task.of.ids ELSE table.ids

TurnInv == "crossed" \notin upsets => command.pc = "idle" \/ task.pc = "idle"

\* Memory is one step ahead of the table, and no more.
RolesInv ==
    "crossed" \notin upsets /\ "reused" \notin upsets =>
        /\ memory.roles = Listed(RolesThen)
        /\ command.pc # "idle" /\ command.of.kind = "CreateRole"
              => command.of.role \notin DOMAIN table.roles

\* A change of this member's role ids by assign_role and unassign_role is still
\* to be reported.
MineAhead == \E i \in DOMAIN air : Mine(air[i])
IdsInv ==
    "crossed" \notin upsets /\ "lost" \notin upsets =>
        \/ MineAhead
        \/ /\ memory.ids = IdsThen
           /\ command.pc # "idle" => ~AboutMe(command.of)

CacheInv == Typed /\ TopInv /\ TurnInv /\ RolesInv /\ IdsInv

LEMMA InitCache == Init => CacheInv
<1> SUFFICES ASSUME Init PROVE CacheInv
  OBVIOUS
<1>1. Typed
  BY InitTyped
<1>2. /\ server.roles = [r \in {0, 1} |-> r] /\ server.top = 1 /\ table.roles = server.roles
      /\ memory.roles = Listed(server.roles) /\ memory.ids = table.ids
      /\ air = <<>> /\ command.pc = "idle" /\ task.pc = "idle"
  BY DEF Init, Idle
<1>3. TopInv
  BY <1>2 DEF TopInv, Known
<1> QED
  BY <1>1, <1>2, <1>3 DEF CacheInv, TurnInv, RolesInv, IdsInv, RolesThen, IdsThen

LEMMA KnownGrows ==
    ASSUME NEW f \in Placed, NEW m \in RoleId, NEW n \in RoleId, m <= n, Known(f, m)
    PROVE  Known(f, n)
<1>1. \A r \in DOMAIN f : r \in Nat
  BY PlacedParts, Numbers
<1>2. m \in Nat /\ n \in Nat
  BY Numbers
<1> QED
  BY <1>1, <1>2 DEF Known

\* The highest id only grows, and what the server has and says is below it.
LEMMA ServeEffect ==
    ASSUME Typed, TopInv, NEW q \in Request, Serve(q)
    PROVE  /\ server.top <= server'.top /\ Known(server'.roles, server'.top)
           /\ q.kind = "CreateRole" => q.role <= server'.top
           /\ \E told \in Seq(Message) :
                 /\ air' = air \o told
                 /\ \A i \in DOMAIN told : told[i].kind = "RolesChanged" => told[i].roles = server'.roles
                 /\ AboutMe(q) => \E i \in DOMAIN told : Mine(told[i])
<1>0. /\ server \in ServerState /\ server.roles \in Placed /\ q \in Order /\ server.top \in Nat
      /\ DOMAIN server.roles \subseteq Nat /\ server' = Served(q)
      /\ \A r \in DOMAIN server.roles : r <= server.top
  BY Parts, StateParts, RequestTypes, PlacedParts, Numbers DEF Serve, TopInv, Known
<1>1. server.top <= server'.top /\ Known(server'.roles, server'.top)
      /\ (q.kind = "CreateRole" => q.role <= server'.top)
  <2>1. CASE q.kind \in {"CreateRole", "EditRole"}
    <3>1. q.role \in Nat
      BY <1>0, <2>1, Numbers DEF Order
    <3>2. /\ server'.top = (IF q.role > server.top THEN q.role ELSE server.top)
          /\ DOMAIN server'.roles = DOMAIN server.roles \cup {q.role}
      BY <1>0, <2>1 DEF Served, ServerState
    <3> QED
      BY <1>0, <3>1, <3>2 DEF Known
  <2>2. CASE q.kind = "DeleteRole"
    <3>1. server'.top = server.top /\ DOMAIN server'.roles = DOMAIN server.roles \ {q.role}
      BY <1>0, <2>2 DEF Served, ServerState
    <3> QED
      BY <1>0, <2>2, <3>1 DEF Known
  <2>3. CASE q.kind \notin {"CreateRole", "EditRole", "DeleteRole"}
    <3>1. server'.top = server.top /\ server'.roles = server.roles
      BY <1>0, <2>3, RequestTypes DEF Served, ServerState, Order
    <3> QED
      BY <1>0, <2>3, <3>1 DEF Known
  <2> QED
    BY <2>1, <2>2, <2>3
<1>2. Told(q) \in Seq(Message)
  BY <1>0, ServeTypes, ToldTypes
<1>3. \A i \in DOMAIN Told(q) : Told(q)[i].kind = "RolesChanged" => Told(q)[i].roles = server'.roles
  <2>1. CASE q.kind \in {"CreateRole", "EditRole", "DeleteRole"}
    BY <2>1 DEF Told
  <2>2. CASE q.kind \in {"AssignRole", "UnassignRole"}
    BY <2>2 DEF Told
  <2>3. CASE q.kind \in {"TimeoutMember", "RemoveTimeout"}
    BY <2>3 DEF Told
  <2>4. CASE q.kind \in {"CreateChannel", "DeleteChannel"}
    BY <2>4 DEF Told
  <2> QED
    BY <1>0, <2>1, <2>2, <2>3, <2>4, RequestTypes DEF Order
<1>4. AboutMe(q) => \E i \in DOMAIN Told(q) : Mine(Told(q)[i])
  <2> SUFFICES ASSUME AboutMe(q) PROVE \E i \in DOMAIN Told(q) : Mine(Told(q)[i])
    OBVIOUS
  <2>1. Told(q) = <<[kind |-> "MemberRolesChanged", who |-> q.who, ids |-> server'.held[q.who]]>>
    BY DEF AboutMe, Told
  <2>2. 1 \in DOMAIN Told(q) /\ Mine(Told(q)[1])
    BY <2>1 DEF Mine, AboutMe
  <2> QED
    BY <2>2
<1>5. air' = air \o Told(q)
  BY DEF Serve
<1> QED
  BY <1>1, <1>2, <1>3, <1>4, <1>5

LEMMA ConcatParts ==
    ASSUME NEW T, NEW s \in Seq(T), NEW t \in Seq(T)
    PROVE  /\ \A j \in DOMAIN s : j \in DOMAIN (s \o t) /\ (s \o t)[j] = s[j]
           /\ \A j \in DOMAIN t : \E i \in DOMAIN (s \o t) : (s \o t)[i] = t[j]
<1> DEFINE m == Len(s)
           n == Len(t)
           c == s \o t
<1>1. /\ m \in Nat /\ n \in Nat /\ DOMAIN s = 1..m /\ DOMAIN t = 1..n /\ DOMAIN c = 1..(m + n)
      /\ \A i \in 1..(m + n) : c[i] = IF i <= m THEN s[i] ELSE t[i - m]
  BY ConcatProperties
<1> HIDE DEF m, n, c
<1>4. \A j \in 1..m : j \in 1..(m + n) /\ c[j] = s[j]
  BY <1>1
<1>5. ASSUME NEW j \in 1..n PROVE \E i \in 1..(m + n) : c[i] = t[j]
  <2>1. m + j \in 1..(m + n) /\ ~(m + j <= m) /\ (m + j) - m = j
    BY <1>1
  <2>2. c[m + j] = t[(m + j) - m]
    BY <1>1, <2>1
  <2> QED
    BY <2>1, <2>2
<1> QED
  BY <1>1, <1>4, <1>5 DEF c

LEMMA AirAppended ==
    ASSUME air \in Seq(Message), NEW t \in Seq(Message), air' = air \o t
    PROVE  \A i \in DOMAIN air' : (\E j \in DOMAIN air : air'[i] = air[j])
          \/ (\E j \in DOMAIN t : air'[i] = t[j])
<1> DEFINE m == Len(air)
           n == Len(t)
<1>1. /\ m \in Nat /\ n \in Nat /\ DOMAIN air = 1..m /\ DOMAIN t = 1..n /\ DOMAIN air' = 1..(m + n)
      /\ \A k \in 1..(m + n) : air'[k] = IF k <= m THEN air[k] ELSE t[k - m]
  BY ConcatProperties
<1> HIDE DEF m, n
<1> SUFFICES ASSUME NEW i \in 1..(m + n)
             PROVE  (\E j \in 1..m : air'[i] = air[j]) \/ (\E j \in 1..n : air'[i] = t[j])
  BY <1>1
<1>2. CASE i <= m
  BY <1>1, <1>2
<1>3. CASE ~(i <= m)
  <2>1. i - m \in 1..n
    BY <1>1, <1>3
  <2>2. air'[i] = t[i - m]
    BY <1>1, <1>3
  <2> QED
    BY <2>1, <2>2
<1> QED
  BY <1>2, <1>3

\* A step, as far as roles and role ids are concerned, is one of these.
SameRoles == /\ memory'.roles = memory.roles /\ memory'.ids = memory.ids
             /\ table'.roles = table.roles /\ table'.ids = table.ids
Quiet == SameRoles /\ command' = command /\ task' = task

Local == {"CreateRole", "EditRole", "DeleteRole", "GetRoles", "AssignRole", "UnassignRole"}
Begin(q) ==
    /\ command.pc = "idle" /\ SameRoles /\ task' = task
    /\ \E pc \in {"memory", "table"} :
          command' = [pc |-> pc, of |-> q] /\ (pc = "table" => q.kind \notin Local)
    /\ task.pc # "idle" => "crossed" \in upsets'
    /\ q.kind = "CreateRole" => q.role <= server'.top /\ (q.role <= server.top => "reused" \in upsets')
    /\ q.kind = "GetRoles" => q.roles = server.roles
    /\ AboutMe(q) => MineAhead'

Take(b) ==
    /\ task.pc = "idle" /\ task' = [pc |-> "table", of |-> b] /\ command' = command
    /\ table' = table
    /\ memory'.roles = IF b.kind = "RolesChanged" THEN Listed(b.roles) ELSE memory.roles
    /\ memory'.ids = IF Mine(b) THEN b.ids ELSE memory.ids
    /\ b.kind = "RolesChanged" => \E i \in DOMAIN air : b = air[i]
    /\ command.pc # "idle" => "crossed" \in upsets'

Written ==
    /\ memory' = memory /\ command' = command
    /\ \/ /\ task.pc = "table"
          /\ table'.roles = IF task.of.kind = "RolesChanged" THEN task.of.roles ELSE table.roles
          /\ table'.ids = table.ids
          /\ task' = IF Mine(task.of) THEN [pc |-> "mine", of |-> task.of] ELSE Idle
       \/ /\ task.pc = "mine" /\ Mine(task.of) /\ task' = Idle
          /\ table'.roles = table.roles /\ table'.ids = task.of.ids

Reload ==
    /\ memory'.roles = Listed(table.roles) /\ memory'.ids = table.ids /\ table' = table
    /\ command' = Idle /\ task' = Idle

StepKind ==
    \/ Quiet \/ InMemoryStep \/ InTableStep \/ Written \/ Reload
    \/ \E q \in Order : Begin(q)
    \/ \E b \in Work : Take(b)

LEMMA BeginKinds ==
    ASSUME NEW q, Answered(q)
    PROVE  \E pc \in {"memory", "table"} :
              command' = [pc |-> pc, of |-> q] /\ (pc = "table" => q.kind \notin Local)
<1>1. CASE q.kind \in InMemory
  BY <1>1 DEF Answered
<1>2. CASE q.kind \notin InMemory
  <2>1. q.kind \notin Local
    BY <1>2 DEF InMemory, Local
  <2> QED
    BY <1>2, <2>1 DEF Answered
<1> QED
  BY <1>1, <1>2

LEMMA Steps ==
    ASSUME Typed, TopInv, [Next]_vars
    PROVE  StepKind /\ upsets \subseteq upsets'
<1> USE DEF client
<1>0. memory \in MemoryState /\ table \in TableState /\ air \in Seq(Message)
  BY Parts
<1>1. CASE \/ OthersDo \/ ComesOrGoes \/ Publish("channels") \/ Publish("members") \/ Lose
           \/ UNCHANGED vars
  <2>1. Quiet
    BY <1>1 DEF OthersDo, ComesOrGoes, Publish, Lose, vars, Quiet, SameRoles
  <2>2. upsets \subseteq upsets'
    BY <1>1, UpsetTypes DEF OthersDo, ComesOrGoes, MembersChange, Publish, Lose, vars
  <2> QED
    BY <2>1, <2>2 DEF StepKind
<1>2. CASE HandleMemberList \/ Sync
  <2>1. Quiet
    BY <1>0, <1>2 DEF HandleMemberList, Sync, Quiet, SameRoles, MemoryState, TableState
  <2>2. upsets \subseteq upsets'
    BY <1>2, UpsetTypes DEF HandleMemberList, Sync
  <2> QED
    BY <2>1, <2>2 DEF StepKind
<1>3. CASE Command
  <2>1. PICK q \in Request : Serve(q) /\ Answered(q) /\ Upset(Recycles(q) \cup Crosses)
    BY <1>3 DEF Command
  <2>2. /\ q \in Order /\ q.kind # "GetRoles"
        /\ Recycles(q) \cup Crosses \subseteq upsets' /\ upsets \subseteq upsets'
    BY <2>1, RequestTypes, UpsetTypes
  <2>3. /\ task.pc # "idle" => "crossed" \in upsets'
        /\ q.kind = "CreateRole" /\ q.role <= server.top => "reused" \in upsets'
    BY <2>2 DEF Recycles, Crosses, When
  <2>4. /\ q.kind = "CreateRole" => q.role <= server'.top
        /\ AboutMe(q) => MineAhead'
    <3>1. PICK told \in Seq(Message) :
             /\ air' = air \o told
             /\ AboutMe(q) => \E i \in DOMAIN told : Mine(told[i])
      BY <2>1, ServeEffect
    <3>2. ASSUME AboutMe(q) PROVE \E i \in DOMAIN (air \o told) : Mine((air \o told)[i])
      <4>1. PICK j \in DOMAIN told : Mine(told[j])
        BY <3>1, <3>2
      <4>2. PICK i \in DOMAIN (air \o told) : (air \o told)[i] = told[j]
        BY <1>0, <3>1, ConcatParts
      <4>3. Mine((air \o told)[i])
        BY <4>1, <4>2
      <4> QED
        BY <4>3
    <3> QED
      BY <2>1, <3>1, <3>2, ServeEffect DEF MineAhead
  <2>5. Begin(q)
    BY <1>3, <2>1, <2>2, <2>3, <2>4, BeginKinds DEF Command, Begin, SameRoles
  <2> QED
    BY <2>2, <2>5 DEF StepKind
<1>4. CASE Kick
  <2> DEFINE q == [kind |-> "Kick", who |-> "you"]
  <2>1. q \in Order /\ ~AboutMe(q) /\ q.kind \notin {"CreateRole", "GetRoles"}
    BY Numbers DEF Order, AboutMe
  <2>2. Answered(q) /\ command.pc = "idle" /\ UNCHANGED <<memory, table, task>>
    BY <1>4 DEF Kick
  <2> HIDE DEF q
  <2>3. upsets \subseteq upsets' /\ (task.pc # "idle" => "crossed" \in upsets')
    <3>1. MembersChange(Admits("you") \/ Removes("you"), Crosses)
      BY <1>4 DEF Kick, MembersChange
    <3> QED
      BY <3>1, MembersTypes DEF Crosses, When
  <2>4. Begin(q)
    BY <2>1, <2>2, <2>3, BeginKinds DEF Begin, SameRoles
  <2> QED
    BY <2>1, <2>3, <2>4 DEF StepKind
<1>5. CASE GetRoles
  <2> DEFINE q == [kind |-> "GetRoles", roles |-> server.roles]
  <2>1. q \in Order /\ ~AboutMe(q) /\ q.kind = "GetRoles" /\ q.roles = server.roles
    BY Parts DEF Order, AboutMe
  <2>2. Answered(q) /\ Upset(Crosses) /\ command.pc = "idle" /\ UNCHANGED <<memory, table, task>>
    BY <1>5 DEF GetRoles
  <2> HIDE DEF q
  <2>3. upsets \subseteq upsets' /\ (task.pc # "idle" => "crossed" \in upsets')
    BY <2>2, UpsetTypes DEF Crosses, When
  <2>4. Begin(q)
    BY <2>1, <2>2, <2>3, BeginKinds DEF Begin, SameRoles
  <2> QED
    BY <2>1, <2>3, <2>4 DEF StepKind
<1>6. CASE CreateLocally
  <2>1. PICK c \in Channel :
           /\ memory' = [memory EXCEPT !.channels = @ \cup {c}]
           /\ command' = [pc |-> "table", of |-> [kind |-> "CreateChannel", channel |-> c]]
    BY <1>6 DEF CreateLocally
  <2> DEFINE q == [kind |-> "CreateChannel", channel |-> c]
  <2>2. q \in Order /\ ~AboutMe(q) /\ q.kind \notin Local /\ q.kind \notin {"CreateRole", "GetRoles"}
    BY DEF Order, AboutMe, Local
  <2>3. command' = [pc |-> "table", of |-> q] /\ SameRoles /\ command.pc = "idle" /\ task' = task
    BY <1>0, <1>6, <2>1 DEF CreateLocally, SameRoles, MemoryState
  <2>4. Upset({"failed"} \cup Crosses)
    BY <1>6 DEF CreateLocally
  <2> HIDE DEF q
  <2>5. upsets \subseteq upsets' /\ {"failed"} \cup Crosses \subseteq upsets'
    BY <2>4, UpsetTypes
  <2>6. task.pc # "idle" => "crossed" \in upsets'
    BY <2>5 DEF Crosses, When
  <2>7. Begin(q)
    BY <2>2, <2>3, <2>6 DEF Begin
  <2> QED
    BY <2>2, <2>5, <2>7 DEF StepKind
<1>7. CASE Finish
  BY <1>7, FinishEffect DEF Finish, StepKind
<1>8. ASSUME NEW i \in DOMAIN air, Dispatch(i) PROVE StepKind /\ upsets \subseteq upsets'
  <2> DEFINE b == air[i]
  <2>1. b \in Message
    BY <1>0
  <2>2. task.pc = "idle" /\ command' = command /\ Upset(Meets \cup When(i > 1, "overtaken"))
    BY <1>8 DEF Dispatch
  <2>3. upsets \subseteq upsets' /\ (command.pc # "idle" => "crossed" \in upsets')
    <3>1. upsets \subseteq upsets' /\ Meets \cup When(i > 1, "overtaken") \subseteq upsets'
      BY <2>2, UpsetTypes
    <3> QED
      BY <3>1 DEF Meets, When
  <2>4. \/ HandleRolesChanged(b) \/ HandleMemberRolesChanged(b) \/ HandleMemberTimedOut(b)
        \/ HandleMemberJoined(b) \/ HandleMemberRemoved(b)
    BY <1>8 DEF Dispatch
  <2>5. \E k \in DOMAIN air : b = air[k]
    OBVIOUS
  <2> HIDE DEF b
  <2>6. CASE HandleRolesChanged(b)
    <3>1. b \in Work /\ ~Mine(b) /\ b.kind = "RolesChanged"
      BY <2>1, <2>6 DEF HandleRolesChanged, Work, Mine
    <3>2. memory'.roles = Listed(b.roles) /\ memory'.ids = memory.ids
      BY <1>0, <2>6 DEF HandleRolesChanged, MemoryState
    <3>3. task' = [pc |-> "table", of |-> b] /\ table' = table
      BY <2>6 DEF HandleRolesChanged
    <3>4. Take(b)
      BY <2>2, <2>3, <2>5, <3>1, <3>2, <3>3 DEF Take
    <3> QED
      BY <2>3, <3>1, <3>4 DEF StepKind
  <2>7. CASE HandleMemberRolesChanged(b)
    <3>1. b \in Work /\ b.kind = "MemberRolesChanged"
      BY <2>1, <2>7 DEF HandleMemberRolesChanged, Work
    <3>2. memory'.roles = memory.roles /\ memory'.ids = IF Mine(b) THEN b.ids ELSE memory.ids
      BY <1>0, <2>7, <3>1 DEF HandleMemberRolesChanged, MemoryState, Mine
    <3>3. task' = [pc |-> "table", of |-> b] /\ table' = table
      BY <2>7 DEF HandleMemberRolesChanged
    <3>4. Take(b)
      BY <2>2, <2>3, <3>1, <3>2, <3>3 DEF Take
    <3> QED
      BY <2>3, <3>1, <3>4 DEF StepKind
  <2>8. CASE HandleMemberTimedOut(b) \/ HandleMemberJoined(b) \/ HandleMemberRemoved(b)
    <3>1. Quiet
      BY <1>0, <2>2, <2>8 DEF HandleMemberTimedOut, HandleMemberJoined, HandleMemberRemoved,
         Updated, Quiet, SameRoles, TableState
    <3> QED
      BY <2>3, <3>1 DEF StepKind
  <2> QED
    BY <2>4, <2>6, <2>7, <2>8
<1>9. CASE HandleChannelList
  <2> DEFINE b == [kind |-> "Channels", channels |-> node.copy.channels]
  <2>1. b \in Work /\ ~Mine(b) /\ b.kind # "RolesChanged"
    BY Parts DEF Work, Mine
  <2>2. /\ task.pc = "idle" /\ task' = [pc |-> "table", of |-> b] /\ command' = command
        /\ table' = table /\ memory'.roles = memory.roles /\ memory'.ids = memory.ids
    BY <1>0, <1>9 DEF HandleChannelList, MemoryState
  <2> HIDE DEF b
  <2>3. upsets \subseteq upsets' /\ (command.pc # "idle" => "crossed" \in upsets')
    BY <1>9, UpsetTypes DEF HandleChannelList, Meets, When
  <2>4. Take(b)
    BY <2>1, <2>2, <2>3 DEF Take
  <2> QED
    BY <2>1, <2>3, <2>4 DEF StepKind
<1>10. CASE TaskTable \/ TaskMine
  <2>1. task = [pc |-> task.pc, of |-> task.of] /\ task.of \in Work /\ (task.pc = "mine" => Mine(task.of))
    BY <1>10, TypedParts DEF Shapes, TaskTable, TaskMine, Mine
  <2>2. memory' = memory /\ command' = command /\ upsets' = upsets
    BY <1>10 DEF TaskTable, TaskMine
  <2>3. CASE TaskTable
    <3>1. task' = IF Mine(task.of) THEN [pc |-> "mine", of |-> task.of] ELSE Idle
      BY <2>1, <2>3 DEF TaskTable, Mine
    <3>2. /\ table'.roles = IF task.of.kind = "RolesChanged" THEN task.of.roles ELSE table.roles
          /\ table'.ids = table.ids
      <4>1. CASE task.of.kind = "RolesChanged"
        BY <1>0, <2>3, <4>1 DEF TaskTable, TableState
      <4>2. CASE task.of.kind = "MemberRolesChanged"
        BY <1>0, <2>3, <4>2 DEF TaskTable, Updated, TableState
      <4>3. CASE task.of.kind = "Channels"
        BY <1>0, <2>3, <4>3 DEF TaskTable, TableState
      <4> QED
        BY <2>1, <4>1, <4>2, <4>3 DEF Work
    <3> QED
      BY <2>2, <2>3, <3>1, <3>2 DEF TaskTable, Written, StepKind
  <2>4. CASE TaskMine
    <3>1. table'.roles = table.roles /\ table'.ids = task.of.ids
      BY <1>0, <2>4 DEF TaskMine, TableState
    <3> QED
      BY <2>1, <2>2, <2>4, <3>1 DEF TaskMine, Written, StepKind
  <2> QED
    BY <1>10, <2>3, <2>4
<1>11. CASE Restart
  <2>1. Reload
    BY <1>11 DEF Restart, Reload
  <2>2. upsets \subseteq upsets'
    BY <1>11, UpsetTypes DEF Restart
  <2> QED
    BY <2>1, <2>2 DEF StepKind
<1> QED
  BY <1>1, <1>2, <1>3, <1>4, <1>5, <1>6, <1>7, <1>8, <1>9, <1>10, <1>11 DEF Next, Server, User, Loop

\* What is in flight was in flight before, or is what the server has now.
LEMMA AirStep ==
    ASSUME Typed, TopInv, [Next]_vars
    PROVE  /\ server.top <= server'.top /\ Known(server'.roles, server'.top)
           /\ \A i \in DOMAIN air' : air'[i].kind = "RolesChanged" =>
                 (\E j \in DOMAIN air : air'[i] = air[j]) \/ air'[i].roles = server'.roles
<1> USE DEF client
<1>0. /\ air \in Seq(Message) /\ server.top \in Nat /\ Known(server.roles, server.top)
  BY Parts, StateParts, Numbers DEF TopInv
<1>1. CASE OthersDo \/ Command
  <2>1. PICK q \in Request : Serve(q)
    BY <1>1 DEF OthersDo, Command
  <2>2. PICK told \in Seq(Message) :
           /\ air' = air \o told
           /\ \A i \in DOMAIN told : told[i].kind = "RolesChanged" => told[i].roles = server'.roles
    BY <2>1, ServeEffect
  <2>3. \A i \in DOMAIN air' : (\E j \in DOMAIN air : air'[i] = air[j])
          \/ (\E j \in DOMAIN told : air'[i] = told[j])
    BY <1>0, <2>2, AirAppended
  <2> QED
    BY <2>1, <2>2, <2>3, ServeEffect
<1>2. CASE ComesOrGoes \/ Kick
  <2>1. \E kinds : MembersChange(Admits("you") \/ Removes("you"), kinds)
    BY <1>2 DEF ComesOrGoes, Kick, MembersChange
  <2>2. PICK b \in Message : b.kind \in {"MemberJoined", "MemberRemoved"} /\ air' = Append(air, b)
    BY <2>1, MembersTypes
  <2>3. server'.roles = server.roles /\ server'.top = server.top
    BY <2>1, MembersTypes
  <2>4. \A i \in DOMAIN air' : (i \in DOMAIN air /\ air'[i] = air[i]) \/ air'[i] = b
    BY <1>0, <2>2
  <2> QED
    BY <1>0, <2>2, <2>3, <2>4
<1>3. CASE Lose \/ \E i \in DOMAIN air : Dispatch(i)
  <2>1. server' = server /\ (air' = air \/ \E i \in DOMAIN air : air' = RemoveAt(air, i))
    BY <1>3 DEF Lose, Dispatch
  <2>2. \A k \in DOMAIN air' : \E j \in DOMAIN air : air'[k] = air[j]
    BY <1>0, <2>1, RemovedTypes
  <2> QED
    BY <1>0, <2>1, <2>2
<1>4. CASE Restart
  <2>1. server' = server /\ air' = <<>>
    BY <1>4 DEF Restart
  <2> QED
    BY <1>0, <2>1
<1>5. CASE \/ Publish("channels") \/ Publish("members") \/ GetRoles \/ CreateLocally \/ Finish
           \/ HandleChannelList \/ HandleMemberList \/ TaskTable \/ TaskMine \/ Sync \/ UNCHANGED vars
  <2>1. server' = server /\ air' = air
    BY <1>5 DEF Publish, GetRoles, CreateLocally, Finish, HandleChannelList, HandleMemberList,
       TaskTable, TaskMine, Sync, vars
  <2> QED
    BY <1>0, <2>1
<1> QED
  BY <1>1, <1>2, <1>3, <1>4, <1>5 DEF Next, Server, User, Loop

\* A report of this member's role ids stays in flight until it is handled.
LEMMA AheadStays ==
    ASSUME Typed, TopInv, [Next]_vars, MineAhead, "lost" \notin upsets'
    PROVE  MineAhead' \/ \E b \in Work : Mine(b) /\ Take(b)
<1> USE DEF client
<1>0. air \in Seq(Message)
  BY Parts
<1>m. PICK k \in DOMAIN air : Mine(air[k])
  BY DEF MineAhead
<1>1. CASE OthersDo \/ Command
  <2>1. PICK q \in Request : Serve(q)
    BY <1>1 DEF OthersDo, Command
  <2>2. PICK told \in Seq(Message) : air' = air \o told
    BY <2>1, ServeEffect
  <2>3. k \in DOMAIN air' /\ air'[k] = air[k]
    BY <1>0, <2>2, ConcatParts
  <2> QED
    BY <1>m, <2>3 DEF MineAhead
<1>2. CASE ComesOrGoes \/ Kick
  <2>1. \E kinds : MembersChange(Admits("you") \/ Removes("you"), kinds)
    BY <1>2 DEF ComesOrGoes, Kick, MembersChange
  <2>2. PICK b \in Message : air' = Append(air, b)
    BY <2>1, MembersTypes
  <2>3. k \in DOMAIN air' /\ air'[k] = air[k]
    BY <1>0, <2>2
  <2> QED
    BY <1>m, <2>3 DEF MineAhead
<1>3. CASE Lose
  BY <1>3, UpsetTypes DEF Lose
<1>4. ASSUME NEW i \in DOMAIN air, Dispatch(i)
      PROVE  MineAhead' \/ \E b \in Work : Mine(b) /\ Take(b)
  <2>1. CASE k # i
    <3>1. PICK j \in DOMAIN RemoveAt(air, i) : RemoveAt(air, i)[j] = air[k]
      BY <1>0, <2>1, RemovedTypes
    <3>2. air' = RemoveAt(air, i)
      BY <1>4 DEF Dispatch
    <3>3. j \in DOMAIN air' /\ Mine(air'[j])
      BY <1>m, <3>1, <3>2
    <3> QED
      BY <3>3 DEF MineAhead
  <2>2. CASE k = i
    <3> DEFINE b == air[i]
    <3>1. b \in Message /\ Mine(b) /\ b \in Work
      BY <1>0, <1>m, <2>2 DEF Mine, Work
    <3>2. HandleMemberRolesChanged(b)
      BY <1>4, <3>1 DEF Dispatch, Mine, HandleRolesChanged, HandleMemberTimedOut,
         HandleMemberJoined, HandleMemberRemoved
    <3>3. task.pc = "idle" /\ command' = command /\ Upset(Meets \cup When(i > 1, "overtaken"))
      BY <1>4 DEF Dispatch
    <3> HIDE DEF b
    <3>4. Meets \cup When(i > 1, "overtaken") \subseteq upsets'
      BY <3>3, UpsetTypes
    <3>5. command.pc # "idle" => "crossed" \in upsets'
      BY <3>4 DEF Meets, When
    <3>6. memory'.roles = memory.roles /\ memory'.ids = b.ids
      BY <3>1, <3>2, Parts DEF HandleMemberRolesChanged, MemoryState, Mine
    <3>7. Take(b)
      BY <3>1, <3>2, <3>3, <3>5, <3>6 DEF Take, HandleMemberRolesChanged, Mine
    <3> QED
      BY <3>1, <3>7
  <2> QED
    BY <2>1, <2>2
<1>5. CASE Restart
  <2>1. air # <<>>
    BY <1>0, <1>m
  <2>2. Upset({"lost"})
    BY <1>5, <2>1 DEF Restart
  <2> QED
    BY <2>2, UpsetTypes
<1>6. CASE \/ Publish("channels") \/ Publish("members") \/ GetRoles \/ CreateLocally \/ Finish
           \/ HandleChannelList \/ HandleMemberList \/ TaskTable \/ TaskMine \/ Sync \/ UNCHANGED vars
  <2>1. air' = air
    BY <1>6 DEF Publish, GetRoles, CreateLocally, Finish, HandleChannelList, HandleMemberList,
       TaskTable, TaskMine, Sync, vars
  <2> QED
    BY <1>m, <2>1 DEF MineAhead
<1> QED
  BY <1>1, <1>2, <1>3, <1>4, <1>5, <1>6 DEF Next, Server, User, Loop

LEMMA RolesAfterTypes ==
    ASSUME NEW q \in Order, NEW f \in Placed, NEW top \in RoleId, Known(f, top),
           q.kind = "CreateRole" => q.role <= top,
           q.kind = "GetRoles" => Known(q.roles, top)
    PROVE  Known(RolesAfter(q, f), top)
<1>1. CASE q.kind = "CreateRole"
  BY <1>1 DEF Known, RolesAfter
<1>2. CASE q.kind = "EditRole"
  BY <1>2 DEF Known, RolesAfter
<1>3. CASE q.kind = "DeleteRole"
  BY <1>3 DEF Known, RolesAfter
<1>4. CASE q.kind = "GetRoles"
  BY <1>4 DEF RolesAfter
<1>5. CASE q.kind \notin {"CreateRole", "EditRole", "DeleteRole", "GetRoles"}
  BY <1>5 DEF RolesAfter
<1> QED
  BY <1>1, <1>2, <1>3, <1>4, <1>5

LEMMA StepTop ==
    ASSUME Typed, TopInv, [Next]_vars, Typed'
    PROVE  TopInv'
<1>0. /\ server.top \in RoleId /\ server'.top \in RoleId /\ server.top <= server'.top
      /\ table.roles \in Placed /\ server.roles \in Placed /\ air \in Seq(Message)
      /\ command.pc # "idle" => command.of \in Order
      /\ task.pc # "idle" => task.of \in Work
  BY Parts, StateParts, TypedParts, AirStep DEF Shapes, Typed, ServerState
<1>k. \A f \in Placed : Known(f, server.top) => Known(f, server'.top)
  BY <1>0, KnownGrows
<1>1. \A i \in DOMAIN air' : air'[i].kind = "RolesChanged" => Known(air'[i].roles, server'.top)
  <2> SUFFICES ASSUME NEW i \in DOMAIN air', air'[i].kind = "RolesChanged"
               PROVE  Known(air'[i].roles, server'.top)
    OBVIOUS
  <2>1. CASE air'[i].roles = server'.roles
    BY <2>1, AirStep
  <2>2. CASE \E j \in DOMAIN air : air'[i] = air[j]
    <3>1. PICK j \in DOMAIN air : air'[i] = air[j]
      BY <2>2
    <3>2. air[j] \in Message /\ air[j].roles \in Placed /\ Known(air[j].roles, server.top)
      BY <1>0, <3>1 DEF TopInv, Message
    <3> QED
      BY <1>k, <3>1, <3>2
  <2> QED
    BY <2>1, <2>2, AirStep
<1>2. Known(server'.roles, server'.top)
  BY AirStep
<1>t. Known(table.roles, server'.top)
  BY <1>0, <1>k DEF TopInv
<1>c. /\ command.pc # "idle" /\ command.of.kind = "GetRoles" => Known(command.of.roles, server'.top)
      /\ command.pc # "idle" /\ command.of.kind = "CreateRole" => command.of.role <= server'.top
  <2>1. command.pc # "idle" /\ command.of.kind = "GetRoles" => command.of.roles \in Placed
    BY <1>0 DEF Order
  <2>2. /\ command.pc # "idle" /\ command.of.kind = "CreateRole" => command.of.role \in Nat
        /\ server.top \in Nat /\ server'.top \in Nat
    BY <1>0, Numbers DEF Order
  <2> QED
    BY <1>0, <1>k, <2>1, <2>2 DEF TopInv
<1>w. task.pc # "idle" /\ task.of.kind = "RolesChanged" => Known(task.of.roles, server'.top)
  <2>1. task.pc # "idle" /\ task.of.kind = "RolesChanged" => task.of.roles \in Placed
    BY <1>0 DEF Work, Message
  <2> QED
    BY <1>k, <2>1 DEF TopInv
<1>3. CASE Quiet
  BY <1>1, <1>2, <1>3, <1>t, <1>c, <1>w DEF TopInv, Quiet, SameRoles
<1>4. CASE InMemoryStep
  BY <1>1, <1>2, <1>4, <1>t, <1>c, <1>w DEF TopInv, InMemoryStep
<1>5. CASE InTableStep
  <2>1. Known(table'.roles, server'.top)
    BY <1>0, <1>5, <1>t, <1>c, RolesAfterTypes DEF InTableStep
  <2> QED
    BY <1>1, <1>2, <1>5, <1>w, <2>1 DEF TopInv, InTableStep, Idle
<1>6. CASE Written
  <2>1. Known(table'.roles, server'.top)
    BY <1>6, <1>t, <1>w DEF Written
  <2>2. task'.pc # "idle" => task'.of = task.of /\ task.pc # "idle"
    BY <1>6 DEF Written, Idle
  <2>3. command' = command
    BY <1>6 DEF Written
  <2> QED
    BY <1>1, <1>2, <1>c, <1>w, <2>1, <2>2, <2>3 DEF TopInv
<1>7. CASE Reload
  BY <1>1, <1>2, <1>7, <1>t DEF TopInv, Reload, Idle
<1>8. ASSUME NEW q \in Order, Begin(q) PROVE TopInv'
  <2>1. table'.roles = table.roles /\ task' = task /\ command'.of = q
    BY <1>8 DEF Begin, SameRoles
  <2>2. q.kind = "GetRoles" => Known(q.roles, server'.top)
    BY <1>0, <1>8, <1>k DEF Begin, TopInv
  <2>3. q.kind = "CreateRole" => q.role <= server'.top
    BY <1>8 DEF Begin
  <2> QED
    BY <1>1, <1>2, <1>t, <1>w, <2>1, <2>2, <2>3 DEF TopInv
<1>9. ASSUME NEW b \in Work, Take(b) PROVE TopInv'
  <2>1. table' = table /\ command' = command /\ task'.of = b
    BY <1>9 DEF Take
  <2>2. ASSUME b.kind = "RolesChanged" PROVE Known(b.roles, server'.top)
    <3>1. PICK i \in DOMAIN air : b = air[i]
      BY <1>9, <2>2 DEF Take
    <3>2. Known(b.roles, server.top) /\ b.roles \in Placed
      BY <2>2, <3>1 DEF TopInv, Work, Message
    <3> QED
      BY <1>k, <3>2
  <2> QED
    BY <1>1, <1>2, <1>t, <1>c, <2>1, <2>2 DEF TopInv
<1> QED
  BY <1>3, <1>4, <1>5, <1>6, <1>7, <1>8, <1>9, Steps DEF StepKind

LEMMA StepTurn ==
    ASSUME Typed, TopInv, TurnInv, [Next]_vars
    PROVE  TurnInv'
<1>0. upsets \subseteq upsets' /\ StepKind
  BY Steps
<1> SUFFICES ASSUME "crossed" \notin upsets' PROVE command'.pc = "idle" \/ task'.pc = "idle"
  BY DEF TurnInv
<1>1. command.pc = "idle" \/ task.pc = "idle"
  BY <1>0 DEF TurnInv
<1>2. CASE Quiet \/ InMemoryStep \/ InTableStep \/ Written \/ Reload
  BY <1>1, <1>2 DEF Quiet, InMemoryStep, InTableStep, Written, Reload, Idle
<1>3. ASSUME NEW q \in Order, Begin(q) PROVE task'.pc = "idle"
  BY <1>3 DEF Begin
<1>4. ASSUME NEW b \in Work, Take(b) PROVE command'.pc = "idle"
  BY <1>4 DEF Take
<1> QED
  BY <1>0, <1>2, <1>3, <1>4 DEF StepKind

LEMMA StepRoles ==
    ASSUME Typed, TopInv, TurnInv, RolesInv, [Next]_vars
    PROVE  RolesInv'
<1>0. upsets \subseteq upsets' /\ StepKind
  BY Steps
<1> SUFFICES ASSUME "crossed" \notin upsets', "reused" \notin upsets'
             PROVE  /\ memory'.roles = Listed(RolesThen')
                    /\ command'.pc # "idle" /\ command'.of.kind = "CreateRole"
                          => command'.of.role \notin DOMAIN table'.roles
  BY DEF RolesInv
<1>1. /\ memory.roles = Listed(RolesThen)
      /\ command.pc = "idle" \/ task.pc = "idle"
      /\ command.pc # "idle" /\ command.of.kind = "CreateRole"
              => command.of.role \notin DOMAIN table.roles
      /\ table.roles \in Placed /\ (command.pc # "idle" => command.of \in Order)
  BY <1>0, Parts, TypedParts DEF RolesInv, TurnInv, Shapes
<1>2. CASE Quiet
  BY <1>1, <1>2 DEF Quiet, SameRoles, RolesThen
<1>3. CASE InMemoryStep
  <2>1. memory.roles = Listed(table.roles) /\ command.of \in Order
    BY <1>1, <1>3 DEF InMemoryStep, RolesThen
  <2>2. ListAfter(command.of, Listed(table.roles)) = Listed(RolesAfter(command.of, table.roles))
    BY <1>1, <1>3, <2>1, ListShowsTable DEF InMemoryStep
  <2>3. RolesThen' = RolesAfter(command.of, table.roles)
    BY <1>3 DEF InMemoryStep, RolesThen
  <2> QED
    BY <1>1, <1>3, <2>1, <2>2, <2>3 DEF InMemoryStep
<1>4. CASE InTableStep
  <2>1. memory.roles = Listed(RolesAfter(command.of, table.roles))
    BY <1>1, <1>4 DEF InTableStep, RolesThen
  <2>2. command'.pc = "idle" /\ task'.pc = "idle"
    BY <1>1, <1>4 DEF InTableStep, Idle
  <2>3. RolesThen' = table'.roles
    BY <2>2 DEF RolesThen
  <2> QED
    BY <1>4, <2>1, <2>2, <2>3 DEF InTableStep
<1>5. CASE Written
  <2>1. command.pc = "idle" /\ command' = command /\ memory' = memory /\ task'.pc # "table"
    BY <1>1, <1>5 DEF Written, Idle
  <2>2. RolesThen' = table'.roles
    BY <2>1 DEF RolesThen
  <2>3. RolesThen = table'.roles
    BY <1>5, <2>1 DEF Written, RolesThen
  <2> QED
    BY <1>1, <2>1, <2>2, <2>3
<1>6. CASE Reload
  BY <1>6 DEF Reload, Idle, RolesThen
<1>7. ASSUME NEW q \in Order, Begin(q)
      PROVE  /\ memory'.roles = Listed(RolesThen')
             /\ command'.pc # "idle" /\ command'.of.kind = "CreateRole"
                   => command'.of.role \notin DOMAIN table'.roles
  <2>1. /\ command.pc = "idle" /\ task.pc = "idle" /\ task' = task /\ command'.of = q
        /\ memory'.roles = memory.roles /\ table'.roles = table.roles
        /\ command'.pc = "table" => q.kind \notin Local
    BY <1>7 DEF Begin, SameRoles
  <2>2. q.kind \notin Local => RolesAfter(q, table.roles) = table.roles
    BY DEF Local, RolesAfter
  <2>3. RolesThen = table.roles /\ RolesThen' = table.roles
    BY <2>1, <2>2 DEF RolesThen
  <2>4. ASSUME q.kind = "CreateRole" PROVE q.role \notin DOMAIN table.roles
    <3>1. ~(q.role <= server.top)
      BY <1>7, <2>4 DEF Begin
    <3> QED
      BY <3>1 DEF TopInv, Known
  <2> QED
    BY <1>1, <2>1, <2>3, <2>4
<1>8. ASSUME NEW b \in Work, Take(b)
      PROVE  /\ memory'.roles = Listed(RolesThen')
             /\ command'.pc # "idle" /\ command'.of.kind = "CreateRole"
                   => command'.of.role \notin DOMAIN table'.roles
  <2>1. /\ command.pc = "idle" /\ command' = command /\ table' = table
        /\ task.pc = "idle" /\ task' = [pc |-> "table", of |-> b]
    BY <1>8 DEF Take
  <2>2. /\ RolesThen = table.roles
        /\ RolesThen' = IF b.kind = "RolesChanged" THEN b.roles ELSE table.roles
    BY <2>1 DEF RolesThen
  <2> QED
    BY <1>1, <1>8, <2>1, <2>2 DEF Take
<1> QED
  BY <1>0, <1>2, <1>3, <1>4, <1>5, <1>6, <1>7, <1>8 DEF StepKind

LEMMA StepIds ==
    ASSUME Typed, TopInv, TurnInv, IdsInv, [Next]_vars
    PROVE  IdsInv'
<1>0. upsets \subseteq upsets' /\ StepKind
  BY Steps
<1> DEFINE Agree == memory.ids = IdsThen /\ (command.pc # "idle" => ~AboutMe(command.of))
<1> SUFFICES ASSUME "crossed" \notin upsets', "lost" \notin upsets', ~MineAhead'
             PROVE  Agree'
  BY DEF IdsInv
<1>1. command.pc = "idle" \/ task.pc = "idle"
  BY <1>0 DEF TurnInv
<1>3. ASSUME NEW b \in Work, Take(b), Mine(b) PROVE Agree'
  <2>1. /\ command.pc = "idle" /\ command' = command /\ task' = [pc |-> "table", of |-> b]
        /\ memory'.ids = b.ids
    BY <1>3 DEF Take
  <2> QED
    BY <1>3, <2>1 DEF IdsThen
<1>4. MineAhead => \E b \in Work : Mine(b) /\ Take(b)
  BY AheadStays
<1> SUFFICES ASSUME ~MineAhead PROVE Agree'
  BY <1>3, <1>4
<1>5. memory.ids = IdsThen /\ (command.pc # "idle" => ~AboutMe(command.of))
  BY <1>0 DEF IdsInv
<1>6. CASE Quiet
  BY <1>5, <1>6 DEF Quiet, SameRoles, IdsThen
<1>7. CASE InMemoryStep
  <2>1. ~AboutMe(command.of) /\ memory'.ids = IdsAfter(command.of, memory.ids)
    BY <1>5, <1>7 DEF InMemoryStep
  <2>2. memory.ids = table.ids
    BY <1>1, <1>5, <1>7 DEF InMemoryStep, IdsThen
  <2>3. IdsThen' = IdsAfter(command.of, table.ids) /\ command'.of = command.of
    BY <1>7 DEF InMemoryStep, IdsThen
  <2> QED
    BY <2>1, <2>2, <2>3
<1>8. CASE InTableStep
  <2>1. command'.pc = "idle" /\ task'.pc = "idle" /\ memory' = memory
    BY <1>1, <1>8 DEF InTableStep, Idle
  <2>2. IdsThen' = table'.ids
    BY <2>1 DEF IdsThen
  <2>3. memory.ids = IdsAfter(command.of, table.ids) /\ table'.ids = IdsAfter(command.of, table.ids)
    BY <1>5, <1>8 DEF InTableStep, IdsThen
  <2> QED
    BY <2>1, <2>2, <2>3
<1>9. CASE Written
  <2>1. command.pc = "idle" /\ command' = command /\ memory' = memory
    BY <1>1, <1>9 DEF Written
  <2>2. IdsThen' = IdsThen
    BY <1>9, <2>1 DEF Written, IdsThen, Idle
  <2> QED
    BY <1>5, <2>1, <2>2
<1>10. CASE Reload
  BY <1>10 DEF Reload, Idle, IdsThen
<1>11. ASSUME NEW q \in Order, Begin(q) PROVE Agree'
  <2>1. /\ command.pc = "idle" /\ task.pc = "idle" /\ task' = task /\ command'.of = q
        /\ memory'.ids = memory.ids /\ table'.ids = table.ids
        /\ command'.pc = "table" => q.kind \notin Local
    BY <1>11 DEF Begin, SameRoles
  <2>2. q.kind \notin Local => IdsAfter(q, table.ids) = table.ids
    BY DEF Local, IdsAfter
  <2>3. IdsThen = table.ids /\ IdsThen' = table.ids
    BY <2>1, <2>2 DEF IdsThen
  <2>4. ~AboutMe(q)
    BY <1>11 DEF Begin
  <2> QED
    BY <1>5, <2>1, <2>3, <2>4
<1>12. ASSUME NEW b \in Work, Take(b), ~Mine(b) PROVE Agree'
  <2>1. /\ command.pc = "idle" /\ command' = command /\ task' = [pc |-> "table", of |-> b]
        /\ task.pc = "idle" /\ memory'.ids = memory.ids /\ table' = table
    BY <1>12 DEF Take
  <2>2. IdsThen = table.ids /\ IdsThen' = table.ids
    BY <1>12, <2>1 DEF IdsThen
  <2> QED
    BY <1>5, <2>1, <2>2
<1> QED
  BY <1>0, <1>3, <1>6, <1>7, <1>8, <1>9, <1>10, <1>11, <1>12 DEF StepKind

\* What is in memory is what a restart would load (load_communities_from_db), as
\* long as commands and handlers take turns: the role definitions whatever is
\* lost, overtaken or interrupted by a restart, this member's role ids once it
\* has been told of the changes.
THEOREM RestartLoadsTheRoles == Spec => []RestartKeepsRoles
<1>1. CacheInv /\ [Next]_vars => CacheInv'
  <2> SUFFICES ASSUME CacheInv, [Next]_vars PROVE CacheInv'
    OBVIOUS
  <2>1. Typed'
    BY StepTyped DEF CacheInv
  <2> QED
    BY <2>1, StepTop, StepTurn, StepRoles, StepIds DEF CacheInv
<1>2. CacheInv => RestartKeepsRoles
  <2> SUFFICES ASSUME CacheInv, AtRest, ~Met({"crossed"})
               PROVE  /\ ~Met({"reused"}) => memory.roles = Listed(table.roles)
                      /\ air = <<>> /\ ~Met({"lost"}) => memory.ids = table.ids
    BY DEF RestartKeepsRoles
  <2>1. RolesThen = table.roles /\ IdsThen = table.ids
    BY DEF AtRest, RolesThen, IdsThen
  <2>2. "crossed" \notin upsets
    BY DEF Met
  <2>3. ~Met({"reused"}) => "reused" \notin upsets
    BY DEF Met
  <2>4. ~Met({"lost"}) => "lost" \notin upsets
    BY DEF Met
  <2>5. air = <<>> => ~MineAhead
    BY DEF MineAhead
  <2> QED
    BY <2>1, <2>2, <2>3, <2>4, <2>5 DEF CacheInv, RolesInv, IdsInv
<1> QED
  BY <1>1, <1>2, InitCache, PTL DEF Spec
=============================================================================
