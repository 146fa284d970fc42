------------------------- MODULE CommunityClientProofs -------------------------
(***************************************************************************)
(* CommunityClient for any number of messages, generations and mishaps of  *)
(* any kinds: types; that messages are not lost; and, as long as the user  *)
(* does not join or leave while a key is fetched (Overlap = FALSE), that   *)
(* keys are not replaced by older ones, match the messages the server      *)
(* accepts, and are forgotten with the community.                          *)
(***************************************************************************)
EXTENDS CommunityClient, TLAPS

JoinState == [pc : {"idle", "answered", "persist", "row"}, key : Key, label : Nat,
              place : Place, route : BOOLEAN]
FetchState == [pc : {"idle", "ask", "answered", "row"}, gen : Nat]
RowType == [kept : BOOLEAN, gen : Nat, place : Place, hosted : BOOLEAN]
Entry == [msg : Message, key : Key, label : Nat]
Queued == [msg : Message, key : Key, label : Nat, tries : Nat]

LEMMA Values ==
    /\ NoKey \in Key /\ ClientKey \in Key /\ \A g \in Nat : ServerKey(g) \in Key
    /\ NotSending \in Task /\ NotJoining \in JoinState /\ NotFetching \in FetchState
    /\ NoRow \in RowType
BY DEF NoKey, ClientKey, ServerKey, Key, NotSending, Task, NotJoining, JoinState, Place,
   NotFetching, FetchState, NoRow, RowType

LEMMA MishapTypes ==
    ASSUME mishaps \subseteq MishapKinds
    PROVE  \A kind : Mishap(kind) =>
              mishaps' \subseteq MishapKinds /\ mishaps \subseteq mishaps' /\ kind \in mishaps'
BY ClientMishaps DEF Mishap

-----------------------------------------------------------------------------
(* Types.                                                                  *)

LEMMA InitTyped == Init => TypeOK
<1> SUFFICES ASSUME Init PROVE TypeOK
  OBVIOUS
<1>1. srvGen \in Nat /\ label \in Nat /\ here \in Place /\ sending \in [Message -> Task]
  BY Values DEF Init, Place
<1>2. row \in RowType /\ fetch \in FetchState /\ joining \in JoinState
  BY Values DEF Init
<1>3. cache \in Key /\ snapshot \in Key
  BY Values DEF Init
<1> QED
  BY <1>1, <1>2, <1>3 DEF Init, TypeOK, JoinState, FetchState, RowType

LEMMA StepTyped == TypeOK /\ [Next]_vars => TypeOK'
<1> SUFFICES ASSUME TypeOK, [Next]_vars PROVE TypeOK'
  OBVIOUS
<1>0. /\ mishaps \subseteq MishapKinds /\ srvGen \in Nat /\ label \in Nat /\ cache \in Key
      /\ sending \in [Message -> Task] /\ row \in RowType /\ joining \in JoinState
      /\ fetch \in FetchState /\ log \subseteq Entry /\ queue \subseteq Queued
  BY DEF TypeOK, JoinState, FetchState, RowType, Entry, Queued
<1>c. /\ watching \in BOOLEAN /\ hosted \in BOOLEAN /\ route \in BOOLEAN /\ here \in Place
      /\ member \in {"no", "banned", "deaf", "reachable"} /\ snapshot \in Key
      /\ "absent" \in Place
  BY DEF TypeOK, Place
<1>a. /\ row.place \in Place /\ row.hosted \in BOOLEAN /\ row.kept \in BOOLEAN /\ row.gen \in Nat
      /\ joining.key.gen \in Nat /\ joining.key \in Key /\ joining.label \in Nat
      /\ joining.place \in Place /\ joining.route \in BOOLEAN /\ fetch.gen \in Nat
  BY <1>0 DEF RowType, JoinState, FetchState, Key
<1>b. /\ MEKRotated \in [kind : {"MEKRotated", "NewMessage"}, gen : Nat]
      /\ \A g \in Nat : NewMessage(g) \in [kind : {"MEKRotated", "NewMessage"}, gen : Nat]
  BY DEF MEKRotated, NewMessage
<1>l. ASSUME NEW m \in Message, NEW p, p.key \in Key, p.label \in Nat
      PROVE  Logged(m, p) \subseteq Entry
  BY <1>0, <1>l DEF Logged, Entry
<1> USE DEF server, radio, keys, place, mail
<1>1. CASE Rotate \/ Remove \/ OthersSend
  <2>1. /\ srvGen' \in Nat /\ dht' \in BOOLEAN
        /\ air' \subseteq [kind : {"MEKRotated", "NewMessage"}, gen : Nat]
        /\ member' \in {"no", "banned", "deaf", "reachable"}
    BY <1>0, <1>1, <1>b DEF Rotate, Remove, OthersSend, Rotates, Broadcast, TypeOK
  <2> QED
    BY <1>1, <2>1 DEF Rotate, Remove, OthersSend, TypeOK
<1>2. CASE (\E b \in air : Lose(b)) \/ Detach \/ Attach \/ RefreshOwnRoute \/ SyncRoute \/ HealRoute
           \/ HostCommunity
  <2>1. /\ mishaps' \subseteq MishapKinds /\ air' \subseteq air /\ srvGen' \in {srvGen, 1}
        /\ member' \in {member, "deaf"} /\ watching' \in BOOLEAN
        /\ route' \in BOOLEAN /\ attached' \in BOOLEAN
        /\ UNCHANGED <<log, dht, keys, place, mail, fetch, joining, leaving>>
    BY <1>0, <1>2, MishapTypes
       DEF Lose, Detach, Attach, RefreshOwnRoute, SyncRoute, HealRoute, HostCommunity, TypeOK
  <2>2. srvGen' \in Nat /\ member' \in {"no", "banned", "deaf", "reachable"}
    BY <1>0, <1>c, <2>1
  <2> QED
    BY <2>1, <2>2 DEF TypeOK
<1>3. CASE Restart
  <2>1. /\ mishaps' \subseteq MishapKinds
        /\ here' \in Place /\ hosted' \in BOOLEAN /\ route' \in BOOLEAN
        /\ cache' \in Key /\ snapshot' \in Key /\ label' \in Nat
    <3>1. mishaps' \subseteq MishapKinds /\ Restore
      BY <1>0, <1>3, MishapTypes DEF Restart
    <3>0. here' \in Place /\ hosted' \in BOOLEAN
      BY <1>a, <3>1 DEF Restore
    <3>2. ASSUME row.hosted, snapshot = NoKey
          PROVE  cache' \in Key /\ snapshot' \in Key /\ label' \in Nat
      BY <1>a, <3>1, <3>2, Values DEF Restore
    <3>3. ASSUME ~(row.hosted /\ snapshot = NoKey)
          PROVE  cache' \in Key /\ snapshot' \in Key /\ label' \in Nat
      BY <1>a, <1>c, <3>1, <3>3, Values DEF Restore
    <3>4. route' \in BOOLEAN
      BY <1>a, <3>1, Zenon DEF Restore
    <3> QED
      BY <3>0, <3>1, <3>2, <3>3, <3>4
  <2> QED
    BY <1>3, <2>1, Values DEF Restart, TypeOK, JoinState, FetchState
<1>4. CASE JoinAsk
  <2>1. mishaps' \subseteq MishapKinds /\ watching' \in BOOLEAN
        /\ member' \in {"no", "banned", "deaf", "reachable"}
    BY <1>0, <1>4, MishapTypes DEF JoinAsk, TypeOK
  <2>2. joining' \in JoinState
    <3>1. ASSUME NEW pl \in Place, NEW k \in Key, NEW r \in BOOLEAN, Asks(pl, k, r)
          PROVE  joining' \in JoinState
      BY <3>1, Values DEF Asks, NotJoining, JoinState
    <3>2. \/ joining' = joining
          \/ \E pl \in Place, k \in Key, r \in BOOLEAN : Asks(pl, k, r)
      BY <1>0, <1>4, Values DEF JoinAsk, Place
    <3> QED
      BY <1>0, <3>1, <3>2
  <2> QED
    BY <1>4, <2>1, <2>2 DEF JoinAsk, TypeOK, JoinState
<1>5. CASE JoinInstall \/ JoinPersist
  <2>1. /\ joining' \in JoinState /\ cache' \in Key /\ snapshot' \in Key /\ label' \in Nat
        /\ here' \in Place /\ mishaps' \subseteq MishapKinds
    <3>1. CASE JoinInstall
      <4>1. joining' \in JoinState
        BY <1>a, <3>1, Values DEF JoinInstall, NotJoining, JoinState
      <4> QED
        BY <1>0, <1>a, <3>1, <4>1 DEF JoinInstall, TypeOK
    <3>2. CASE JoinPersist
      <4>1. joining' \in JoinState
        BY <1>0, <3>2 DEF JoinPersist, JoinState
      <4>2. snapshot' \in Key /\ mishaps' \subseteq MishapKinds
        BY <1>0, <3>2, MishapTypes DEF JoinPersist, Saves, TypeOK
      <4> QED
        BY <1>0, <3>2, <4>1, <4>2 DEF JoinPersist, TypeOK
    <3> QED
      BY <1>5, <3>1, <3>2
  <2> QED
    BY <1>0, <1>5, <2>1 DEF JoinInstall, JoinPersist, TypeOK, JoinState
<1>6. CASE Create
  <2>1. joining' \in JoinState /\ cache' \in Key /\ here' \in Place
    BY <1>6, Values DEF Create, NotJoining, JoinState, Place
  <2> QED
    BY <1>6, <2>1 DEF Create, TypeOK, JoinState
<1>7. CASE JoinRow \/ LeaveRow \/ FetchRow
  <2>1. row' \in RowType
    <3>1. CASE JoinRow
      <4>1. hosted \in BOOLEAN
        BY DEF TypeOK
      <4> QED
        BY <1>0, <1>a, <3>1, <4>1 DEF JoinRow, RowType
    <3>2. CASE FetchRow
      BY <1>0, <1>a, <3>2 DEF FetchRow, RowType
    <3> QED
      BY <1>7, <3>1, <3>2, Values DEF LeaveRow
  <2> QED
    BY <1>7, <2>1, Values DEF JoinRow, LeaveRow, FetchRow, TypeOK, RowType, JoinState, FetchState
<1>8. CASE LeaveAsk \/ LeaveForget
  <2>1. /\ mishaps' \subseteq MishapKinds /\ srvGen' \in Nat /\ dht' \in BOOLEAN
        /\ member' \in {"no", "banned", "deaf", "reachable"}
        /\ cache' \in Key
    BY <1>0, <1>8, MishapTypes, Values DEF LeaveAsk, LeaveForget, Rotates, TypeOK
  <2>2. /\ leaving' \in {"forget", "row"} /\ label' \in Nat /\ here' \in Place
        /\ UNCHANGED <<log, air, watching, snapshot, row, attached, mail, fetch, joining>>
    BY <1>0, <1>c, <1>8 DEF LeaveAsk, LeaveForget
  <2>3. route' \in BOOLEAN /\ hosted' \in BOOLEAN
    BY <1>c, <1>8, Zenon DEF LeaveAsk, LeaveForget
  <2> QED
    BY <2>1, <2>2, <2>3 DEF TypeOK
<1>9. CASE HandleBroadcast \/ HandleMekChange \/ FetchCall \/ FetchInstall
  <2>1. fetch' \in FetchState
    BY <1>0, <1>9, Values
       DEF HandleBroadcast, HandleMEKRotated, HandleNewMessage, HandleMekChange, Ask, FetchCall,
           FetchInstall, FetchState, NotFetching
  <2>2. /\ mishaps' \subseteq MishapKinds /\ cache' \in Key /\ snapshot' \in Key /\ label' \in Nat
        /\ dht' \in BOOLEAN /\ air' \subseteq air
    BY <1>0, <1>9, MishapTypes, Values
       DEF HandleBroadcast, HandleMEKRotated, HandleNewMessage, HandleMekChange, FetchCall,
           FetchInstall, FetchState, Saves, TypeOK
  <2> QED
    BY <1>9, <2>1, <2>2
       DEF HandleBroadcast, HandleMEKRotated, HandleNewMessage, HandleMekChange, FetchCall,
           FetchInstall, TypeOK, FetchState
<1>10. ASSUME NEW m \in Message, SendRead(m) \/ SendEncrypt(m) PROVE TypeOK'
  <2>1. sending' \in [Message -> Task] /\ own' \subseteq Message
    BY <1>0, <1>10, Values DEF SendRead, SendEncrypt, Task, TypeOK
  <2> QED
    BY <1>10, <2>1 DEF SendRead, SendEncrypt, TypeOK
<1>11. ASSUME NEW m \in Message, SendCall(m) PROVE TypeOK'
  <2>1. sending[m].key \in Key /\ sending[m].label \in Nat
    BY <1>0 DEF Task
  <2>2. Row(m, sending[m], 0) \in Queued /\ Logged(m, sending[m]) \subseteq Entry
    BY <1>l, <2>1 DEF Row, Queued
  <2>3. queue' \subseteq Queued /\ log' \subseteq Entry /\ route' \in BOOLEAN
        /\ mishaps' \subseteq MishapKinds
    BY <1>0, <1>11, <2>2, MishapTypes DEF SendCall, Delivers, Fails, TypeOK
  <2>4. sending' \in [Message -> Task]
    BY <1>0, <1>11, Values DEF SendCall
  <2> QED
    BY <1>11, <2>3, <2>4 DEF SendCall, TypeOK, Entry, Queued
<1>12. ASSUME NEW q \in queue, Retry(q) PROVE TypeOK'
  <2>1. q \in Queued /\ q.msg \in Message /\ q.key \in Key /\ q.label \in Nat /\ q.tries + 1 \in Nat
    BY <1>0 DEF Queued
  <2>2. Row(q.msg, q, q.tries + 1) \in Queued /\ Logged(q.msg, q) \subseteq Entry
    BY <1>l, <2>1 DEF Row, Queued
  <2>3. queue' \subseteq Queued /\ log' \subseteq Entry /\ route' \in BOOLEAN
        /\ mishaps' \subseteq MishapKinds /\ dropped' \subseteq Message
    BY <1>0, <1>12, <2>1, <2>2, MishapTypes DEF Retry, Delivers, Fails, TypeOK
  <2> QED
    BY <1>12, <2>3 DEF Retry, TypeOK, Entry, Queued
<1>13. CASE UNCHANGED vars
  BY <1>13 DEF vars, TypeOK
<1> QED
  BY <1>1, <1>2, <1>3, <1>4, <1>5, <1>6, <1>7, <1>8, <1>9, <1>10, <1>11, <1>12, <1>13
     DEF Next, User, Command, Dispatch, Fetch, Sync, Environment

\* Every reachable state is well typed, whatever the four tasks interleave.
THEOREM ClientTypes == Spec => []TypeOK
BY InitTyped, StepTyped, PTL DEF Spec

-----------------------------------------------------------------------------
(* Messages.                                                               *)

MailInv ==
    /\ "detached" \notin mishaps => attached
    /\ \A m \in Message : sending[m].pc = "encrypt" => m \notin own
    /\ SentIsKept

LEMMA InitMail == Init => MailInv
BY DEF Init, MailInv, SentIsKept, NotSending

LEMMA StepMail == TypeOK /\ MailInv /\ [Next]_vars => MailInv'
<1> SUFFICES ASSUME TypeOK, MailInv, [Next]_vars PROVE MailInv'
  OBVIOUS
<1>0. mishaps \subseteq MishapKinds /\ sending \in [Message -> Task] /\ own \subseteq Message
  BY DEF TypeOK
<1> USE DEF server, radio, keys, place, mail, MailInv, SentIsKept
<1>1. CASE \/ Rotate \/ Remove \/ OthersSend \/ HostCommunity \/ RefreshOwnRoute \/ HealRoute
           \/ SyncRoute \/ \E b \in air : Lose(b)
  BY <1>0, <1>1, MishapTypes DEF Rotate, Remove, OthersSend, HostCommunity, RefreshOwnRoute, HealRoute,
     SyncRoute, Lose
<1>2. CASE JoinAsk \/ JoinInstall \/ JoinPersist \/ JoinRow \/ Create
  BY <1>0, <1>2, MishapTypes DEF JoinAsk, JoinInstall, JoinPersist, Saves, JoinRow, Create
<1>3. CASE LeaveAsk \/ LeaveForget \/ LeaveRow
  BY <1>0, <1>3, MishapTypes DEF LeaveAsk, LeaveForget, LeaveRow
<1>4. CASE HandleBroadcast \/ HandleMekChange \/ Fetch
  BY <1>0, <1>4, MishapTypes DEF HandleBroadcast, HandleMEKRotated, HandleNewMessage, HandleMekChange,
     Fetch, FetchCall, FetchInstall, FetchRow, Saves
<1>5. CASE Attach \/ Detach
  BY <1>0, <1>5, MishapTypes DEF Attach, Detach
<1>6. CASE Restart
  BY <1>0, <1>6, MishapTypes DEF Restart, NotSending
<1>7. ASSUME NEW m \in Message, SendRead(m) PROVE MailInv'
  BY <1>0, <1>7 DEF SendRead
<1>8. ASSUME NEW m \in Message, SendEncrypt(m) PROVE MailInv'
  <2>1. CASE cache = NoKey
    BY <1>0, <1>8, <2>1 DEF SendEncrypt, NotSending
  <2>2. CASE cache # NoKey
    <3>1. sending' = [sending EXCEPT ![m] = [sending[m] EXCEPT !.pc = "call", !.key = cache]]
      BY <1>0, <1>8, <2>2 DEF SendEncrypt, Task
    <3>2. sending'[m].pc = "call" /\ \A n \in Message \ {m} : sending'[n] = sending[n]
      BY <1>0, <3>1 DEF Task
    <3> QED
      BY <1>0, <1>8, <2>2, <3>2 DEF SendEncrypt
  <2> QED
    BY <2>1, <2>2
<1>9. ASSUME NEW m \in Message, SendCall(m) PROVE MailInv'
  <2>1. mishaps \subseteq mishaps'
    BY <1>0, <1>9, MishapTypes DEF SendCall, Delivers, Fails
  <2>2. log \subseteq log' /\ queue \subseteq queue'
    BY <1>9 DEF Logged, SendCall, Delivers, Fails
  <2>3. attached => \E e \in log' \cup queue' : e.msg = m
    <3> DEFINE e == [msg |-> m, key |-> sending[m].key, label |-> sending[m].label]
               r == Row(m, sending[m], 0)
    <3>1. e.msg = m /\ r.msg = m
      BY DEF Row
    <3>2. attached => e \in log' \/ r \in queue'
      BY <1>9 DEF SendCall, Delivers, Fails, Logged
    <3> QED
      BY <3>1, <3>2
  <2>4. /\ sending' = [sending EXCEPT ![m] = NotSending] /\ NotSending.pc = "idle"
        /\ UNCHANGED <<own, dropped, attached>>
    BY <1>9 DEF SendCall, NotSending
  <2> QED
    BY <1>0, <2>1, <2>2, <2>3, <2>4
<1>10. ASSUME NEW q \in queue, Retry(q) PROVE MailInv'
  <2>1. mishaps \subseteq mishaps'
    BY <1>0, <1>10, MishapTypes DEF Retry, Delivers, Fails
  <2>2. log \subseteq log' /\ queue \ {q} \subseteq queue' /\ dropped \subseteq dropped'
    BY <1>10 DEF Logged, Retry, Delivers, Fails
  <2>3. attached => q.msg \in dropped' \/ \E e \in log' \cup queue' : e.msg = q.msg
    <3> DEFINE e == [msg |-> q.msg, key |-> q.key, label |-> q.label]
               r == Row(q.msg, q, q.tries + 1)
    <3>1. e.msg = q.msg /\ r.msg = q.msg
      BY DEF Row
    <3>2. attached => q.msg \in dropped' \/ e \in log' \/ r \in queue'
      BY <1>10 DEF Retry, Delivers, Fails, Logged
    <3> QED
      BY <3>1, <3>2
  <2>4. UNCHANGED <<own, sending, attached>>
    BY <1>10 DEF Retry
  <2> QED
    BY <1>0, <2>1, <2>2, <2>3, <2>4
<1>11. CASE UNCHANGED vars
  BY <1>11 DEF vars
<1> QED
  BY <1>1, <1>2, <1>3, <1>4, <1>5, <1>6, <1>7, <1>8, <1>9, <1>10, <1>11
     DEF Next, User, Command, Dispatch, Sync, Environment

\* Of any number of messages none that the user was told is sent is forgotten by
\* the client: it is with the server, queued, on its way or given up
\* (send_channel_message, retry_pending_messages).
THEOREM SentAreKept == Spec => []SentIsKept
<1>1. MailInv => SentIsKept
  BY DEF MailInv
<1> QED
  BY <1>1, InitTyped, StepTyped, InitMail, StepMail, PTL DEF Spec

-----------------------------------------------------------------------------
(* Keys, as long as no key is fetched while the user joins or leaves.      *)

\* The tasks that replace the key exclude each other, and a community that is
\* not there has no key.
Serial ==
    /\ fetch.pc # "idle" => here # "absent" /\ joining.pc = "idle" /\ leaving = "no"
    /\ joining.pc # "idle" => leaving = "no" /\ joining.place # "absent"
    /\ here = "absent" => cache = NoKey
    /\ row.kept <=> row.place # "absent"
    /\ row.hosted => row.kept

LEMMA InitSerial == Init => Serial
BY DEF Init, Serial, NotFetching, NotJoining, NoRow

LEMMA StepSerial == ASSUME ~Overlap, TypeOK, Serial, [Next]_vars PROVE Serial'
<1>0. row \in RowType /\ joining \in JoinState /\ fetch \in FetchState
  BY DEF TypeOK, RowType, JoinState, FetchState
<1> USE DEF server, radio, keys, place, mail, Serial
<1>1. CASE \/ Rotate \/ Remove \/ OthersSend \/ HostCommunity \/ RefreshOwnRoute \/ HealRoute
           \/ SyncRoute \/ Attach \/ Detach \/ \E b \in air : Lose(b)
  BY <1>1 DEF Rotate, Remove, OthersSend, HostCommunity, RefreshOwnRoute, HealRoute,
     SyncRoute, Attach, Detach, Lose
<1>2. CASE Restart
  BY <1>0, <1>2 DEF Restart, Restore, NotFetching, NotJoining, RowType
<1>3. CASE JoinAsk
  <2>1. fetch.pc = "idle" /\ leaving = "no" /\ UNCHANGED <<keys, place, fetch, leaving>>
    BY <1>3 DEF JoinAsk, FetchAside
  <2>2. \/ joining' = joining
        \/ \E pl \in {"local", "listed"} : \E k, r : Asks(pl, k, r)
    BY <1>3 DEF JoinAsk
  <2>3. joining' = joining \/ joining'.place # "absent"
    BY <2>2 DEF Asks, NotJoining
  <2> QED
    BY <2>1, <2>3
<1>4. CASE JoinInstall
  <2>1. joining'.pc = "persist" /\ joining'.place = joining.place
    BY <1>4 DEF JoinInstall, NotJoining
  <2> QED
    BY <1>4, <2>1 DEF JoinInstall
<1>5. CASE JoinPersist
  <2>1. joining'.pc = "row" /\ joining'.place = joining.place
    BY <1>0, <1>5 DEF JoinPersist, JoinState
  <2> QED
    BY <1>5, <2>1 DEF JoinPersist
<1>6. CASE JoinRow
  <2>1. joining.pc = "row" /\ joining'.pc = "idle" /\ UNCHANGED <<keys, here, fetch, leaving>>
    BY <1>6 DEF JoinRow, NotJoining
  <2>2. row' = row \/ (row'.kept /\ row'.place = joining.place)
    BY <1>6 DEF JoinRow
  <2> QED
    BY <2>1, <2>2
<1>7. CASE Create
  <2>1. joining'.pc = "persist" /\ joining'.place = here' /\ here' # "absent"
    BY <1>7 DEF Create, NotJoining
  <2> QED
    BY <1>7, <2>1 DEF Create
<1>8. CASE LeaveAsk \/ LeaveForget \/ LeaveRow
  BY <1>8 DEF LeaveAsk, LeaveForget, LeaveRow, FetchAside, NoRow
<1>9. CASE HandleBroadcast \/ HandleMekChange
  <2>1. /\ joining.pc = "idle" /\ leaving = "no"
        /\ UNCHANGED <<keys, place, joining, leaving>>
    BY <1>9 DEF HandleBroadcast, HandleMEKRotated, HandleNewMessage, HandleMekChange, UserAside
  <2>2. fetch'.pc # "idle" => here # "absent"
    BY <1>9 DEF HandleBroadcast, HandleMEKRotated, HandleNewMessage, HandleMekChange, Ask, NotFetching
  <2> QED
    BY <2>1, <2>2
<1>10. CASE Fetch
  <2>1. fetch.pc # "idle" /\ UNCHANGED <<here, joining, leaving>>
    BY <1>10 DEF Fetch, FetchCall, FetchInstall, FetchRow
  <2>2. row' = row \/ row' = [row EXCEPT !.gen = fetch.gen]
    BY <1>10 DEF Fetch, FetchCall, FetchInstall, FetchRow
  <2>3. row'.kept = row.kept /\ row'.place = row.place /\ row'.hosted = row.hosted
    BY <1>0, <2>2 DEF RowType
  <2> QED
    BY <1>10, <2>1, <2>3 DEF Fetch, FetchCall, FetchInstall, FetchRow
<1>11. CASE \/ \E m \in Message : SendRead(m) \/ SendEncrypt(m) \/ SendCall(m)
            \/ \E q \in queue : Retry(q)
            \/ UNCHANGED vars
  BY <1>11 DEF SendRead, SendEncrypt, SendCall, Retry, vars
<1> QED
  BY <1>1, <1>2, <1>3, <1>4, <1>5, <1>6, <1>7, <1>8, <1>9, <1>10, <1>11
     DEF Next, User, Command, Dispatch, Sync, Environment

\* Once the user has left a community, no late answer puts its key back, however
\* often it is joined, left and joined again (leave_community, fetch_mek_from_server).
THEOREM LeftForget == ~Overlap => (Spec => []LeftForgets)
<1> SUFFICES ASSUME ~Overlap PROVE Spec => []LeftForgets
  OBVIOUS
<1>1. Serial => LeftForgets
  BY DEF Serial, LeftForgets
<1>2. TypeOK /\ Serial /\ [Next]_vars => Serial'
  BY StepSerial
<1> QED
  BY <1>1, <1>2, InitTyped, StepTyped, InitSerial, PTL DEF Spec

-----------------------------------------------------------------------------
(* Generations.                                                            *)

\* The client has heard of a generation: it is the server's or an earlier one,
\* or that of the first key.
Past(g) == g <= 1 \/ g <= srvGen
AllPast ==
    /\ IsMember => srvGen >= 1
    /\ Past(label) /\ Past(row.gen) /\ Past(cache.gen) /\ Past(snapshot.gen)
    /\ joining.pc = "row" => Past(joining.label)
    /\ \A m \in Message : Past(sending[m].label) /\ Past(sending[m].key.gen)
    /\ \A q \in queue : Past(q.key.gen)

\* Nothing the client has is newer than generation g.
Newest(g) ==
    /\ label <= g /\ row.gen <= g /\ cache.gen <= g /\ snapshot.gen <= g
    /\ \A m \in Message : sending[m].label <= g

\* An answer that is still to be installed is newer than all the client has.
AnswersAreNew ==
    /\ joining.pc = "answered" /\ joining.key # NoKey =>
           joining.key.gen <= srvGen /\ joining.key.by = "server" /\ Newest(joining.key.gen)
    /\ fetch.pc = "answered" => fetch.gen <= srvGen /\ Newest(fetch.gen)
    /\ fetch.pc = "row" => cache = ServerKey(fetch.gen)

SavedIsOlder == cache # NoKey => snapshot.gen <= cache.gen

Known == AllPast /\ AnswersAreNew /\ SavedIsOlder

LEMMA InitKnown == Init => Known
BY DEF Init, Known, AllPast, Past, AnswersAreNew, SavedIsOlder, IsMember, NotFetching, NotJoining,
   NoRow, NotSending, NoKey

\* What TypeOK says about generations.
Numbers ==
    /\ srvGen \in Nat /\ label \in Nat /\ row.gen \in Nat /\ cache.gen \in Nat
    /\ snapshot.gen \in Nat /\ fetch.gen \in Nat /\ joining.key.gen \in Nat
    /\ joining.label \in Nat
    /\ \A m \in Message : sending[m].label \in Nat /\ sending[m].key.gen \in Nat
    /\ \A q \in queue : q.key.gen \in Nat

LEMMA NumbersAre == TypeOK => Numbers
BY DEF TypeOK, Numbers, Key, Task

LEMMA AllAreNewest == AllPast /\ Numbers /\ srvGen >= 1 => Newest(srvGen)
BY DEF AllPast, Past, Newest, Numbers

LEMMA StepKnown == ASSUME ~Overlap, TypeOK, Serial, Known, [Next]_vars PROVE Known'
<1>0. /\ Numbers /\ sending \in [Message -> Task] /\ row \in RowType /\ joining \in JoinState
      /\ fetch \in FetchState
  BY NumbersAre DEF TypeOK, RowType, JoinState, FetchState
<1>k. NoKey.gen = 0 /\ ClientKey.gen = 1 /\ \A g : ServerKey(g).gen = g /\ ServerKey(g).by = "server"
  BY DEF NoKey, ClientKey, ServerKey
<1> USE DEF server, radio, keys, place, mail, Known
\* The server goes on; the client stays as it is.
<1>s. ASSUME srvGen' \in Nat, srvGen <= srvGen', IsMember' => srvGen' >= 1,
             UNCHANGED <<keys, row, sending, queue, joining, fetch>>
      PROVE  Known'
  BY <1>0, <1>s DEF AllPast, Past, AnswersAreNew, Newest, SavedIsOlder, Numbers
<1>1. CASE \/ Rotate \/ Remove \/ OthersSend \/ HostCommunity \/ RefreshOwnRoute \/ HealRoute
           \/ SyncRoute \/ Attach \/ Detach \/ LeaveAsk \/ \E b \in air : Lose(b)
  <2>1. /\ srvGen' \in Nat /\ srvGen <= srvGen' /\ (IsMember' => srvGen' >= 1)
        /\ UNCHANGED <<keys, row, sending, queue, joining, fetch>>
    BY <1>0, <1>1 DEF Rotate, Remove, OthersSend, HostCommunity, RefreshOwnRoute, HealRoute, SyncRoute,
       Attach, Detach, LeaveAsk, Lose, Rotates, IsMember, AllPast, Numbers
  <2> QED
    BY <1>s, <2>1
<1>2. CASE Restart
  <2>1. /\ srvGen' = srvGen /\ row' = row /\ queue' = queue /\ joining' = NotJoining
        /\ fetch' = NotFetching /\ sending' = [m \in Message |-> NotSending]
        /\ IsMember' => srvGen' >= 1
    BY <1>2 DEF Restart, IsMember, AllPast
  <2>2. /\ label' \in {1, row.gen} /\ cache'.gen \in {0, 1, snapshot.gen}
        /\ snapshot' \in {snapshot, ClientKey}
        /\ cache' # NoKey => cache' = snapshot'
    BY <1>2, <1>k DEF Restart, Restore
  <2> QED
    BY <1>0, <1>k, <2>1, <2>2
       DEF AllPast, Past, AnswersAreNew, SavedIsOlder, NotJoining, NotFetching, NotSending, Numbers
<1>3. CASE JoinAsk
  <2>1. /\ srvGen' = srvGen /\ srvGen >= 1 /\ fetch.pc = "idle" /\ (IsMember' => srvGen' >= 1)
        /\ UNCHANGED <<keys, row, sending, queue, fetch>>
    BY <1>0, <1>3 DEF JoinAsk, FetchAside, Numbers
  <2>2. \/ joining' = joining
        \/ \E pl, r : Asks(pl, NoKey, r)
        \/ \E pl, r : Asks(pl, ServerKey(srvGen), r)
    BY <1>3 DEF JoinAsk
  <2>3. \/ joining' = joining
        \/ joining'.pc = "answered" /\ joining'.key \in {NoKey, ServerKey(srvGen)}
    BY <2>2 DEF Asks, NotJoining
  <2>4. AllPast' /\ SavedIsOlder'
    BY <2>1, <2>3 DEF AllPast, Past, SavedIsOlder
  <2>5. Newest(srvGen)
    BY <1>0, <2>1, AllAreNewest
  <2>6. AnswersAreNew'
    <3>1. CASE joining' = joining
      BY <2>1, <3>1 DEF AnswersAreNew, Newest
    <3>2. CASE joining'.pc = "answered" /\ joining'.key \in {NoKey, ServerKey(srvGen)}
      <4>1. joining'.key # NoKey => joining'.key.gen = srvGen /\ joining'.key.by = "server"
        BY <1>k, <3>2
      <4>2. Newest(srvGen)' /\ srvGen' <= srvGen'
        BY <1>0, <2>1, <2>5 DEF Newest, Numbers
      <4> QED
        BY <2>1, <3>2, <4>1, <4>2 DEF AnswersAreNew
    <3> QED
      BY <2>3, <3>1, <3>2
  <2> QED
    BY <2>4, <2>6
<1>4. CASE JoinInstall
  <2>1. /\ joining.pc = "answered" /\ joining'.pc = "persist" /\ fetch.pc = "idle"
        /\ cache' = (IF joining.key = NoKey THEN cache ELSE joining.key)
        /\ label' = joining.key.gen
        /\ UNCHANGED <<srvGen, member, snapshot, row, sending, queue, fetch>>
    BY <1>4 DEF JoinInstall, NotJoining, Serial
  <2>2. joining.key # NoKey => joining.key.gen <= srvGen /\ snapshot.gen <= joining.key.gen
    BY <2>1 DEF AnswersAreNew, Newest
  <2> QED
    BY <1>0, <1>k, <2>1, <2>2
       DEF AllPast, Past, AnswersAreNew, SavedIsOlder, IsMember, Numbers
<1>5. CASE JoinPersist
  <2>1. /\ joining.pc = "persist" /\ joining'.pc = "row" /\ joining'.label = label
        /\ snapshot' = snapshot \/ (cache # NoKey /\ snapshot' = cache)
        /\ UNCHANGED <<srvGen, member, cache, label, row, sending, queue, fetch>>
    BY <1>0, <1>5 DEF JoinPersist, Saves, JoinState
  <2>2. fetch.pc = "idle"
    BY <2>1 DEF Serial
  <2> QED
    BY <1>0, <2>1, <2>2 DEF AllPast, Past, AnswersAreNew, SavedIsOlder, IsMember, Numbers
<1>6. CASE JoinRow
  <2>1. /\ joining.pc = "row" /\ joining'.pc = "idle"
        /\ row'.gen \in {row.gen, joining.label}
        /\ UNCHANGED <<srvGen, member, keys, sending, queue, fetch>>
    BY <1>6 DEF JoinRow, NotJoining
  <2>2. fetch.pc = "idle"
    BY <2>1 DEF Serial
  <2> QED
    BY <1>0, <2>1, <2>2 DEF AllPast, Past, AnswersAreNew, SavedIsOlder, IsMember, Numbers
<1>7. CASE Create
  <2>1. /\ cache' = ClientKey /\ label' = 1 /\ joining'.pc = "persist" /\ srvGen = 0
        /\ UNCHANGED <<srvGen, member, snapshot, row, sending, queue, fetch>> /\ here = "absent"
    BY <1>7 DEF Create, NotJoining
  <2>2. fetch.pc = "idle"
    BY <2>1 DEF Serial
  <2> QED
    BY <1>0, <1>k, <2>1, <2>2 DEF AllPast, Past, AnswersAreNew, SavedIsOlder, IsMember, Numbers
<1>8. CASE LeaveForget \/ LeaveRow
  <2>1. /\ joining.pc = "idle" /\ fetch.pc = "idle" /\ cache' \in {cache, NoKey}
        /\ label' \in {label, 0} /\ row'.gen \in {row.gen, 0}
        /\ UNCHANGED <<srvGen, member, snapshot, sending, queue, fetch, joining>>
    BY <1>8 DEF LeaveForget, LeaveRow, Serial, NoRow
  <2> QED
    BY <1>0, <1>k, <2>1 DEF AllPast, Past, AnswersAreNew, SavedIsOlder, IsMember, Numbers
<1>9. CASE HandleBroadcast \/ HandleMekChange
  <2>1. /\ fetch.pc = "idle" /\ fetch'.pc \in {"idle", "ask"}
        /\ UNCHANGED <<srvGen, member, keys, row, sending, queue, joining>>
    BY <1>9 DEF HandleBroadcast, HandleMEKRotated, HandleNewMessage, HandleMekChange, Ask, NotFetching
  <2> QED
    BY <2>1 DEF AllPast, Past, AnswersAreNew, Newest, SavedIsOlder, IsMember
<1>10. CASE FetchCall
  <2>1. /\ UNCHANGED <<srvGen, member, keys, row, sending, queue, joining>>
        /\ fetch'.pc = "idle" \/ (IsMember /\ fetch'.pc = "answered" /\ fetch'.gen = srvGen)
    BY <1>10 DEF FetchCall, NotFetching
  <2>2. IsMember => Newest(srvGen)
    BY <1>0, AllAreNewest DEF AllPast
  <2>3. IsMember => Newest(srvGen)'
    BY <2>1, <2>2 DEF Newest
  <2>4. srvGen' <= srvGen'
    BY <1>0, <2>1 DEF Numbers
  <2> QED
    BY <2>1, <2>3, <2>4 DEF AllPast, Past, AnswersAreNew, Newest, SavedIsOlder, IsMember
<1>11. CASE FetchInstall
  <2>1. /\ fetch.pc = "answered" /\ fetch'.pc = "row" /\ fetch'.gen = fetch.gen
        /\ cache' = ServerKey(fetch.gen) /\ label' \in {label, fetch.gen}
        /\ snapshot' \in {snapshot, ServerKey(fetch.gen)}
        /\ UNCHANGED <<srvGen, member, row, sending, queue, joining>>
    BY <1>0, <1>11 DEF FetchInstall, Saves, FetchState
  <2>2. fetch.gen <= srvGen /\ snapshot.gen <= fetch.gen /\ joining.pc = "idle"
    BY <2>1 DEF AnswersAreNew, Newest, Serial
  <2> QED
    BY <1>0, <1>k, <2>1, <2>2
       DEF AllPast, Past, AnswersAreNew, SavedIsOlder, IsMember, Numbers
<1>12. CASE FetchRow
  <2>1. /\ fetch.pc = "row" /\ fetch'.pc = "idle" /\ row'.gen \in {row.gen, fetch.gen}
        /\ UNCHANGED <<srvGen, member, keys, sending, queue, joining>>
    BY <1>0, <1>12 DEF FetchRow, NotFetching, RowType
  <2>2. joining.pc = "idle" /\ cache.gen = fetch.gen
    BY <1>k, <2>1 DEF AnswersAreNew, Serial
  <2> QED
    BY <1>0, <2>1, <2>2 DEF AllPast, Past, AnswersAreNew, SavedIsOlder, IsMember, Numbers
<1>13. ASSUME NEW m \in Message, SendRead(m) \/ SendEncrypt(m) PROVE Known'
  <2>1. UNCHANGED <<srvGen, member, keys, row, queue, joining, fetch>>
    BY <1>13 DEF SendRead, SendEncrypt
  <2>2. \A n \in Message : /\ sending'[n].label \in {sending[n].label, label, 0}
                           /\ sending'[n].key.gen \in {sending[n].key.gen, cache.gen, 0}
    BY <1>0, <1>k, <1>13 DEF SendRead, SendEncrypt, Task, NotSending
  <2>3. AllPast' /\ SavedIsOlder'
    BY <1>0, <2>1, <2>2 DEF AllPast, Past, SavedIsOlder, IsMember, Numbers
  <2>4. AnswersAreNew'
    BY <1>0, <2>1, <2>2 DEF AnswersAreNew, Newest, Numbers
  <2> QED
    BY <2>3, <2>4
<1>14. ASSUME NEW m \in Message, SendCall(m) PROVE Known'
  <2>1. UNCHANGED <<srvGen, member, keys, row, joining, fetch>>
    BY <1>14 DEF SendCall
  <2>2. sending' = [sending EXCEPT ![m] = NotSending] /\ queue' \subseteq queue \cup {Row(m, sending[m], 0)}
    BY <1>14 DEF SendCall
  <2>3. \A n \in Message : /\ sending'[n].label \in {sending[n].label, 0}
                           /\ sending'[n].key.gen \in {sending[n].key.gen, 0}
    BY <1>0, <1>k, <2>2 DEF NotSending
  <2>4. \A q \in queue' : Past(q.key.gen)
    BY <2>2 DEF Row, AllPast
  <2>5. AllPast' /\ SavedIsOlder'
    BY <1>0, <2>1, <2>3, <2>4 DEF AllPast, Past, SavedIsOlder, IsMember, Numbers
  <2>6. AnswersAreNew'
    BY <1>0, <2>1, <2>3 DEF AnswersAreNew, Newest, Numbers
  <2> QED
    BY <2>5, <2>6
<1>15. ASSUME NEW q \in queue, Retry(q) PROVE Known'
  <2>1. UNCHANGED <<srvGen, member, keys, row, sending, joining, fetch>>
    BY <1>15 DEF Retry
  <2>2. queue' \subseteq queue \cup {Row(q.msg, q, q.tries + 1)}
    BY <1>15 DEF Retry
  <2>3. \A p \in queue' : Past(p.key.gen)
    BY <2>2 DEF Row, AllPast
  <2> QED
    BY <2>1, <2>3 DEF AllPast, Past, AnswersAreNew, Newest, SavedIsOlder, IsMember
<1>16. CASE UNCHANGED vars
  BY <1>16 DEF vars, AllPast, Past, AnswersAreNew, Newest, SavedIsOlder, IsMember
<1> QED
  BY <1>1, <1>2, <1>3, <1>4, <1>5, <1>6, <1>7, <1>8, <1>9, <1>10, <1>11, <1>12, <1>13, <1>14,
     <1>15, <1>16 DEF Next, User, Command, Dispatch, Fetch, Sync, Environment

LEMMA KeysGrow ==
    ASSUME ~Overlap, TypeOK, Serial, Known, [Next]_vars
    PROVE  /\ snapshot'.gen >= snapshot.gen
           /\ Restart \/ cache' = NoKey \/ cache'.gen >= cache.gen
<1>0. Numbers
  BY NumbersAre
<1>k. NoKey.gen = 0 /\ ClientKey.gen = 1 /\ \A g : ServerKey(g).gen = g
  BY DEF NoKey, ClientKey, ServerKey
<1> USE DEF server, radio, keys, place, mail
<1>1. CASE JoinInstall
  <2>1. joining.key # NoKey => cache.gen <= joining.key.gen
    BY <1>1 DEF JoinInstall, Known, AnswersAreNew, Newest
  <2> QED
    BY <1>0, <1>1, <2>1 DEF JoinInstall, Numbers
<1>2. CASE JoinPersist
  BY <1>0, <1>2 DEF JoinPersist, Saves, Known, SavedIsOlder, Numbers
<1>3. CASE Create
  <2>1. cache = NoKey
    BY <1>3 DEF Create, Serial
  <2> QED
    BY <1>0, <1>k, <1>3, <2>1 DEF Create, Numbers
<1>4. CASE FetchInstall
  <2>1. cache.gen <= fetch.gen /\ snapshot.gen <= fetch.gen
    BY <1>4 DEF FetchInstall, Known, AnswersAreNew, Newest
  <2> QED
    BY <1>0, <1>k, <1>4, <2>1 DEF FetchInstall, Saves, Numbers
<1>5. CASE Restart
  <2>1. snapshot' = snapshot \/ (snapshot = NoKey /\ snapshot' = ClientKey)
    BY <1>5 DEF Restart, Restore
  <2> QED
    BY <1>0, <1>k, <1>5, <2>1 DEF Numbers
<1>6. CASE LeaveForget
  BY <1>0, <1>6 DEF LeaveForget, Numbers
<1>7. ASSUME UNCHANGED <<cache, snapshot>>
      PROVE  snapshot'.gen >= snapshot.gen /\ cache'.gen >= cache.gen
  BY <1>0, <1>7 DEF Numbers
<1>8. \/ JoinInstall \/ JoinPersist \/ Create \/ FetchInstall \/ Restart \/ LeaveForget
      \/ UNCHANGED <<cache, snapshot>>
  BY DEF Next, User, Command, Dispatch, HandleBroadcast, Fetch, Sync, Environment, vars,
     JoinAsk, LeaveAsk, SendRead, JoinRow, LeaveRow, HandleMEKRotated, HandleNewMessage,
     HandleMekChange, FetchCall, FetchRow, SyncRoute, Retry, Rotate, Remove, OthersSend,
     HostCommunity, Detach, Attach, RefreshOwnRoute, HealRoute, Lose, SendEncrypt, SendCall
<1> QED
  BY <1>1, <1>2, <1>3, <1>4, <1>5, <1>6, <1>7, <1>8

\* No late answer replaces a key by an older one, in the cache or in the vault,
\* though neither store compares generations (mek_cache.insert, store_key).
THEOREM KeysNeverOlder == ~Overlap => (Spec => NeverOlder)
<1> SUFFICES ASSUME ~Overlap PROVE Spec => NeverOlder
  OBVIOUS
<1>1. TypeOK /\ Serial /\ [Next]_vars => Serial'
  BY StepSerial
<1>2. TypeOK /\ Serial /\ Known /\ [Next]_vars => Known'
  BY StepKnown
<1>3. TypeOK /\ Serial /\ Known /\ [Next]_vars =>
        [/\ snapshot'.gen >= snapshot.gen
         /\ Restart \/ cache' = NoKey \/ cache'.gen >= cache.gen]_vars
  BY KeysGrow
<1> QED
  BY <1>1, <1>2, <1>3, InitTyped, StepTyped, InitSerial, InitKnown, PTL DEF Spec, NeverOlder

-----------------------------------------------------------------------------
(* What the server accepts.                                                *)

\* A key of the server is never behind the generation that goes with it: the
\* label is read before the key and written after it, in memory and on disk.
Labelled(l, k) == k.by = "server" => l <= k.gen
Matched ==
    /\ Labelled(label, cache) /\ Labelled(row.gen, cache) /\ Labelled(row.gen, snapshot)
    /\ \A m \in Message : /\ sending[m].pc = "encrypt" => Labelled(sending[m].label, cache)
                          /\ sending[m].pc = "call" => Labelled(sending[m].label, sending[m].key)
    /\ \A q \in queue : Labelled(q.label, q.key)
    /\ \A e \in log : e.key.by = "server" => e.key.gen = e.label
    /\ fetch.pc = "row" => snapshot = ServerKey(fetch.gen)
    /\ joining.pc \in {"persist", "row"} /\ cache = NoKey => label = 0
    /\ joining.pc = "row" => joining.label = label /\ (cache # NoKey => snapshot = cache)

Saved == "unsaved" \notin mishaps => Matched

LEMMA InitSaved == Init => Saved
BY DEF Init, Saved, Matched, Labelled, NoKey, NoRow, NotSending, NotFetching, NotJoining

\* The check of handle_send_message makes the generations equal.
LEMMA AcceptedMatch ==
    ASSUME TypeOK, Known, NEW m, NEW p, Labelled(p.label, p.key), Past(p.key.gen), p.key.gen \in Nat,
           Accepts(p), NEW e \in Logged(m, p) \ log, e.key.by = "server"
    PROVE  e.key.gen = e.label
<1>1. e.key = p.key /\ e.label = p.label
  BY DEF Logged
<1>2. srvGen \in Nat /\ srvGen >= 1 /\ p.label = srvGen
  BY DEF Accepts, Known, AllPast, TypeOK
<1> QED
  BY <1>1, <1>2 DEF Labelled, Past

LEMMA StepSaved == ASSUME ~Overlap, TypeOK, Serial, Known, Saved, [Next]_vars PROVE Saved'
<1>0. /\ Numbers /\ sending \in [Message -> Task] /\ row \in RowType /\ joining \in JoinState
      /\ fetch \in FetchState /\ mishaps \subseteq MishapKinds
  BY NumbersAre DEF TypeOK, RowType, JoinState, FetchState
<1>k. /\ NoKey.by = "nobody" /\ ClientKey.by = "client"
      /\ \A g : ServerKey(g).gen = g /\ ServerKey(g).by = "server"
  BY DEF NoKey, ClientKey, ServerKey
<1> USE DEF server, radio, keys, place, mail
<1>m. mishaps \subseteq mishaps'
  BY <1>0, MishapTypes DEF Next, User, Command, Dispatch, HandleBroadcast, Fetch, Sync, Environment, vars,
     JoinAsk, Create, LeaveAsk, SendRead, JoinInstall, JoinPersist, Saves, JoinRow, LeaveForget, LeaveRow,
     HandleMEKRotated, HandleNewMessage, HandleMekChange, FetchCall, FetchInstall, FetchRow,
     SyncRoute, Retry, Delivers, Fails, Rotate, Remove, OthersSend, HostCommunity, Detach, Attach,
     RefreshOwnRoute, Restart, HealRoute, Lose, SendEncrypt, SendCall
<1> SUFFICES ASSUME "unsaved" \notin mishaps' PROVE Matched'
  BY DEF Saved
<1>n. Matched /\ ~Mishap("unsaved")
  BY <1>0, <1>m, MishapTypes DEF Saved
<1>1. CASE \/ Rotate \/ Remove \/ OthersSend \/ HostCommunity \/ RefreshOwnRoute \/ HealRoute
           \/ SyncRoute \/ Attach \/ Detach \/ LeaveAsk \/ \E b \in air : Lose(b)
  <2>1. UNCHANGED <<log, keys, row, sending, queue, joining, fetch>>
    BY <1>1 DEF Rotate, Remove, OthersSend, HostCommunity, RefreshOwnRoute, HealRoute, SyncRoute,
       Attach, Detach, LeaveAsk, Lose
  <2> QED
    BY <1>n, <2>1 DEF Matched, Labelled
<1>2. CASE Restart
  <2>1. /\ UNCHANGED <<log, row, queue>> /\ joining' = NotJoining
        /\ fetch' = NotFetching /\ sending' = [m \in Message |-> NotSending]
    BY <1>2 DEF Restart
  <2>2. \/ cache' = ClientKey /\ snapshot' = ClientKey
        \/ cache' \in {snapshot, NoKey} /\ snapshot' = snapshot /\ label' = row.gen
    BY <1>2 DEF Restart, Restore
  <2> QED
    BY <1>n, <1>k, <2>1, <2>2 DEF Matched, Labelled, NotJoining, NotFetching, NotSending
<1>3. CASE JoinAsk
  <2>1. /\ joining.pc = "idle" /\ UNCHANGED <<log, keys, row, sending, queue, fetch>>
        /\ joining' = joining \/ joining'.pc = "answered"
    BY <1>3 DEF JoinAsk, Asks, NotJoining
  <2> QED
    BY <1>n, <2>1 DEF Matched, Labelled
<1>4. CASE JoinInstall
  <2>1. /\ joining.pc = "answered" /\ joining'.pc = "persist" /\ fetch.pc = "idle"
        /\ cache' = (IF joining.key = NoKey THEN cache ELSE joining.key)
        /\ label' = joining.key.gen
        /\ UNCHANGED <<log, snapshot, row, sending, queue, fetch>>
    BY <1>4 DEF JoinInstall, NotJoining, Serial
  <2>2. CASE joining.key = NoKey
    <3>1. label' = 0 /\ cache' = cache
      BY <2>1, <2>2 DEF NoKey
    <3> QED
      BY <1>0, <1>n, <2>1, <3>1 DEF Matched, Labelled, Numbers
  <2>3. CASE joining.key # NoKey
    <3>1. Newest(joining.key.gen) /\ cache' = joining.key
      BY <2>1, <2>3 DEF Known, AnswersAreNew
    <3> QED
      BY <1>0, <1>n, <2>1, <2>3, <3>1 DEF Matched, Labelled, Newest, Numbers
  <2> QED
    BY <2>2, <2>3
<1>5. CASE JoinPersist
  <2>1. /\ joining.pc = "persist" /\ joining'.pc = "row" /\ joining'.label = label
        /\ snapshot' = (IF cache = NoKey THEN snapshot ELSE cache) /\ fetch.pc = "idle"
        /\ UNCHANGED <<log, cache, label, row, sending, queue, fetch>>
    BY <1>0, <1>n, <1>5 DEF JoinPersist, Saves, JoinState, Serial
  <2> QED
    BY <1>n, <2>1 DEF Matched, Labelled
<1>6. CASE JoinRow
  <2>1. /\ joining.pc = "row" /\ joining'.pc = "idle" /\ fetch.pc = "idle"
        /\ row'.gen \in {row.gen, label}
        /\ UNCHANGED <<log, keys, sending, queue, fetch>>
    BY <1>n, <1>6 DEF JoinRow, NotJoining, Serial, Matched
  <2>2. Labelled(label, snapshot)
    <3>1. CASE cache = NoKey
      BY <1>0, <1>n, <2>1, <3>1 DEF Matched, Labelled, Numbers
    <3>2. CASE cache # NoKey
      BY <1>n, <2>1, <3>2 DEF Matched
    <3> QED
      BY <3>1, <3>2
  <2> QED
    BY <1>n, <2>1, <2>2 DEF Matched, Labelled
<1>7. CASE Create
  <2>1. /\ cache' = ClientKey /\ label' = 1 /\ joining'.pc = "persist" /\ fetch.pc = "idle"
        /\ UNCHANGED <<log, snapshot, row, sending, queue, fetch>>
    BY <1>7 DEF Create, NotJoining, Serial
  <2>2. cache' # NoKey
    BY <1>k, <2>1
  <2> QED
    BY <1>n, <1>k, <2>1, <2>2 DEF Matched, Labelled
<1>8. CASE LeaveForget
  <2>1. /\ joining.pc = "idle" /\ cache' = NoKey
        /\ UNCHANGED <<log, snapshot, row, sending, queue, fetch, joining>>
    BY <1>8 DEF LeaveForget, Serial
  <2> QED
    BY <1>n, <1>k, <2>1 DEF Matched, Labelled
<1>9. CASE LeaveRow
  <2>1. joining.pc = "idle" /\ row'.gen = 0 /\ UNCHANGED <<log, keys, sending, queue, fetch, joining>>
    BY <1>9 DEF LeaveRow, Serial, NoRow
  <2> QED
    BY <1>0, <1>n, <2>1 DEF Matched, Labelled, Numbers
<1>10. CASE HandleBroadcast \/ HandleMekChange \/ FetchCall
  <2>1. /\ fetch'.pc # "row" /\ UNCHANGED <<log, keys, row, sending, queue, joining>>
    BY <1>10 DEF HandleBroadcast, HandleMEKRotated, HandleNewMessage, HandleMekChange, FetchCall, Ask,
       NotFetching
  <2> QED
    BY <1>n, <2>1 DEF Matched, Labelled
<1>11. CASE FetchInstall
  <2>1. /\ fetch.pc = "answered" /\ fetch'.pc = "row" /\ fetch'.gen = fetch.gen
        /\ cache' = ServerKey(fetch.gen) /\ label' = fetch.gen
        /\ snapshot' = ServerKey(fetch.gen) /\ joining.pc = "idle"
        /\ UNCHANGED <<log, row, sending, queue, joining>>
    BY <1>0, <1>n, <1>11 DEF FetchInstall, Saves, FetchState, Serial
  <2>2. Newest(fetch.gen)
    BY <2>1 DEF Known, AnswersAreNew
  <2> QED
    BY <1>0, <1>n, <1>k, <2>1, <2>2 DEF Matched, Labelled, Newest, Numbers
<1>12. CASE FetchRow
  <2>1. /\ fetch.pc = "row" /\ fetch'.pc = "idle" /\ row'.gen \in {row.gen, fetch.gen}
        /\ UNCHANGED <<log, keys, sending, queue, joining>> /\ joining.pc = "idle"
    BY <1>0, <1>12 DEF FetchRow, NotFetching, RowType, Serial
  <2>2. cache.gen = fetch.gen /\ snapshot.gen = fetch.gen
    BY <1>n, <1>k, <2>1 DEF Known, AnswersAreNew, Matched
  <2> QED
    BY <1>0, <1>n, <2>1, <2>2 DEF Matched, Labelled, Numbers
<1>13. ASSUME NEW m \in Message, SendRead(m) PROVE Matched'
  <2>1. UNCHANGED <<log, keys, row, queue, joining, fetch>>
    BY <1>13 DEF SendRead
  <2>2. /\ sending'[m].pc = "encrypt" /\ sending'[m].label = label
        /\ \A n \in Message \ {m} : sending'[n] = sending[n]
    BY <1>0, <1>13 DEF SendRead
  <2> QED
    BY <1>n, <2>1, <2>2 DEF Matched, Labelled
<1>14. ASSUME NEW m \in Message, SendEncrypt(m) PROVE Matched'
  <2>1. UNCHANGED <<log, keys, row, queue, joining, fetch>> /\ sending[m].pc = "encrypt"
    BY <1>14 DEF SendEncrypt
  <2>2. /\ sending'[m].pc = "idle"
           \/ /\ sending'[m].pc = "call" /\ sending'[m].label = sending[m].label
              /\ sending'[m].key = cache
        /\ \A n \in Message \ {m} : sending'[n] = sending[n]
    BY <1>0, <1>14 DEF SendEncrypt, NotSending, Task
  <2> QED
    BY <1>n, <2>1, <2>2 DEF Matched, Labelled
<1>15. ASSUME NEW m \in Message, SendCall(m) PROVE Matched'
  <2>1. UNCHANGED <<keys, row, joining, fetch>> /\ sending[m].pc = "call"
    BY <1>15 DEF SendCall
  <2>2. sending'[m].pc = "idle" /\ \A n \in Message \ {m} : sending'[n] = sending[n]
    BY <1>0, <1>15 DEF SendCall, NotSending
  <2>3. \A q \in queue' : Labelled(q.label, q.key)
    BY <1>n, <1>15, <2>1 DEF SendCall, Row, Matched, Labelled
  <2>4. \/ log' = log
        \/ Accepts(sending[m]) /\ log' = Logged(m, sending[m])
    BY <1>15 DEF SendCall, Delivers, Fails
  <2>5. \A e \in log' : e.key.by = "server" => e.key.gen = e.label
    <3>1. Labelled(sending[m].label, sending[m].key) /\ Past(sending[m].key.gen)
          /\ sending[m].key.gen \in Nat
      BY <1>0, <1>n, <2>1 DEF Matched, Known, AllPast, Numbers
    <3> QED
      BY <1>n, <2>4, <3>1, AcceptedMatch DEF Matched
  <2> QED
    BY <1>n, <2>1, <2>2, <2>3, <2>5 DEF Matched, Labelled
<1>16. ASSUME NEW q \in queue, Retry(q) PROVE Matched'
  <2>1. UNCHANGED <<keys, row, sending, joining, fetch>>
    BY <1>16 DEF Retry
  <2>2. \A p \in queue' : Labelled(p.label, p.key)
    <3>1. queue' \subseteq queue \cup {Row(q.msg, q, q.tries + 1)}
      BY <1>16 DEF Retry
    <3> QED
      BY <1>n, <3>1 DEF Row, Matched
  <2>3. log' = log \/ (Accepts(q) /\ log' = Logged(q.msg, q))
    BY <1>16 DEF Retry, Delivers, Fails
  <2>4. \A e \in log' : e.key.by = "server" => e.key.gen = e.label
    <3>1. Labelled(q.label, q.key) /\ Past(q.key.gen) /\ q.key.gen \in Nat
      BY <1>0, <1>n DEF Matched, Known, AllPast, Numbers
    <3> QED
      BY <1>n, <2>3, <3>1, AcceptedMatch DEF Matched
  <2> QED
    BY <1>n, <2>1, <2>2, <2>4 DEF Matched, Labelled
<1>17. CASE UNCHANGED vars
  BY <1>n, <1>17 DEF vars, Matched, Labelled
<1> QED
  BY <1>1, <1>2, <1>3, <1>4, <1>5, <1>6, <1>7, <1>8, <1>9, <1>10, <1>11, <1>12, <1>13, <1>14,
     <1>15, <1>16, <1>17 DEF Next, User, Command, Dispatch, Fetch, Sync, Environment

\* What the server accepts under generation g is encrypted with key g, through
\* any number of rotations, restarts, rejoins and retries, as long as every key
\* could be saved (handle_send_message, send_channel_message, persist_mek).
THEOREM AcceptedReadable == ~Overlap => (Spec => []AcceptedIsReadable)
<1> SUFFICES ASSUME ~Overlap PROVE Spec => []AcceptedIsReadable
  OBVIOUS
<1>1. TypeOK /\ Serial /\ [Next]_vars => Serial'
  BY StepSerial
<1>2. TypeOK /\ Serial /\ Known /\ [Next]_vars => Known'
  BY StepKnown
<1>3. TypeOK /\ Serial /\ Known /\ Saved /\ [Next]_vars => Saved'
  BY StepSaved
<1>4. Saved => AcceptedIsReadable
  BY DEF Saved, Matched, AcceptedIsReadable
<1> QED
  BY <1>1, <1>2, <1>3, <1>4, InitTyped, StepTyped, InitSerial, InitKnown, InitSaved, PTL DEF Spec
=============================================================================
