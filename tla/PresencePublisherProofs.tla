----------------------- MODULE PresencePublisherProofs -----------------------
(***************************************************************************)
(* PresencePublisher for any number of logins, records and mishaps: types, *)
(* the private key of an identity on disk, and the user's choice of        *)
(* status against the idle service.                                        *)
(***************************************************************************)
EXTENDS PresencePublisher, TLAPS

-----------------------------------------------------------------------------
(* Strengthenings.                                                         *)

\* Whoever may write a record has one.
WriterHasRecord ==
    /\ handle.writer => handle.rec \in Record
    /\ publish.pc \in {"install", "row"} => publish.rec \in Record

\* Creating and deleting an identity are between the key and the row.
OnTheWay ==
    /\ session = "creating" => snapshot
    /\ session = "deleting" => ~row.kept

\* As long as nothing comes between the locks of one idle tick, the idle
\* service knows what it decides upon, and does nothing outside a session.
TicksInOnePiece ==
    "midtick" \notin mishaps =>
        /\ session # "in" => ~preAway /\ idling = "no"
        /\ session = "in" => /\ identity # "none"
                             /\ ~preAway => identity = chosen
                             /\ preAway => identity = "away" /\ chosen = "online"
                             /\ idling = "away" => identity = "online" /\ ~preAway
                             /\ idling = "back" => preAway

-----------------------------------------------------------------------------
(* Values.                                                                 *)

Stamp == [status : Profile!Statuses, ts : Profile!Ages]
Calls == [Writers -> {NotWriting} \cup [status : Profile!Statuses, rec : Record]]

LEMMA StatusWords ==
    /\ Profile!Announced \in Stamp /\ Unset \in Stamp
    /\ \A s \in Profile!Statuses : Profile!Stamped(s) \in Stamp
    /\ {"online", "away", "offline"} \subseteq Profile!Statuses
    /\ Choices \subseteq Profile!Statuses
BY PublisherChoices
   DEF Profile!Announced, Profile!Stamped, Unset, Stamp, Profile!Statuses, Profile!Ages

LEMMA AgedWords == \A v \in Stamp : Profile!Aged(v) \in Stamp
<1> SUFFICES ASSUME NEW v \in Stamp PROVE Profile!Aged(v) \in Stamp
  OBVIOUS
<1>1. CASE v.ts = "fresh"
  BY <1>1 DEF Profile!Aged, Stamp, Profile!Ages
<1>2. CASE v.ts # "fresh"
  BY <1>2 DEF Profile!Aged, Stamp
<1> QED
  BY <1>1, <1>2

Typed == TypeOK /\ WriterHasRecord

LEMMA MishapTypes ==
    ASSUME mishaps \subseteq MishapKinds
    PROVE  \A kind : Mishap(kind) =>
              mishaps' \subseteq MishapKinds /\ mishaps \subseteq mishaps' /\ kind \in mishaps'
BY PublisherChoices DEF Mishap

LEMMA MidTickTypes ==
    ASSUME mishaps \subseteq MishapKinds, MidTick
    PROVE  /\ mishaps' \subseteq MishapKinds /\ mishaps \subseteq mishaps'
           /\ "midtick" \notin mishaps' => idling = "no"
BY MishapTypes DEF MidTick

\* A call of publish_status that begins has a record to write.
LEMMA BeginsTypes ==
    ASSUME Typed
    PROVE  \A w \in Writers : \A s \in Profile!Statuses : Begins(w, s) => writing' \in Calls
<1> SUFFICES ASSUME NEW w \in Writers, NEW s \in Profile!Statuses, Begins(w, s)
             PROVE  writing' \in Calls
  OBVIOUS
<1>1. handle.writer => [status |-> s, rec |-> handle.rec] \in [status : Profile!Statuses, rec : Record]
  BY DEF Typed, WriterHasRecord
<1>2. writing \in Calls
  BY DEF Typed, TypeOK, Calls
<1> QED
  BY <1>1, <1>2 DEF Begins, Calls

-----------------------------------------------------------------------------
(* Types.                                                                  *)

LEMMA InitTyped == Init => Typed
<1> SUFFICES ASSUME Init PROVE Typed
  OBVIOUS
<1>1. records \in [Record -> Stamp] /\ writing \in Calls
  BY StatusWords DEF Init, Calls
<1>2. WriterHasRecord
  BY DEF Init, WriterHasRecord, NoHandle, NotPublishing
<1>3. row \in [kept : BOOLEAN, rec : 0..MaxRecords] /\ handle \in [rec : 0..MaxRecords, writer : BOOLEAN]
      /\ publish \in [pc : {"idle", "wait", "create", "install", "row"}, rec : 0..MaxRecords]
  BY PublisherBounds DEF Init, NoRow, NoHandle, NotPublishing
<1>4. /\ records \in [Record -> [status : Profile!Statuses, ts : Profile!Ages]]
      /\ writing \in [Writers -> {NotWriting} \cup [status : Profile!Statuses, rec : Record]]
  BY <1>1 DEF Stamp, Calls
<1>5. "none" \in Status /\ 0 \in 0..MaxLogins /\ {} \subseteq MishapKinds
  BY PublisherBounds DEF Status
<1>6. /\ snapshot \in BOOLEAN /\ preAway \in BOOLEAN /\ active \in BOOLEAN
      /\ session \in {"out", "creating", "in", "leaving", "deleting"}
      /\ idling \in {"no", "away", "back"} /\ mishaps \subseteq MishapKinds
      /\ identity \in Status /\ chosen \in Status /\ logins \in 0..MaxLogins
  BY <1>5 DEF Init
<1> QED
  BY <1>2, <1>3, <1>4, <1>6 DEF Typed, TypeOK

LEMMA StepTyped == Typed /\ [Next]_vars => Typed'
<1> SUFFICES ASSUME Typed, [Next]_vars PROVE Typed'
  OBVIOUS
<1>0. /\ TypeOK /\ WriterHasRecord
      /\ records \in [Record -> Stamp] /\ writing \in Calls /\ mishaps \subseteq MishapKinds
      /\ \A r \in Record : r \in 0..MaxRecords /\ r # 0
  BY PublisherBounds DEF Typed, TypeOK, Stamp, Calls, Record
<1> USE DEF disk, here, tasks, seen
<1> DEFINE Kept == /\ records' \in [Record -> Stamp] /\ writing' \in Calls
                   /\ mishaps' \subseteq MishapKinds
<1>1. CASE CreateKey
  BY <1>0, <1>1 DEF CreateKey, Typed, TypeOK, WriterHasRecord
<1>2. CASE CreateRow
  BY <1>0, <1>2, StatusWords, PublisherBounds
     DEF CreateRow, StartSession, Typed, TypeOK, WriterHasRecord, Status
<1>3. CASE Login
  BY <1>0, <1>3, StatusWords, PublisherBounds
     DEF Login, StartSession, Typed, TypeOK, WriterHasRecord, Status
<1>4. CASE DeleteRow \/ DeleteSnapshot
  <2>1. NoRow \in [kept : BOOLEAN, rec : 0..MaxRecords]
    BY PublisherBounds DEF NoRow
  <2>2. CASE DeleteRow
    BY <1>0, <2>1, <2>2 DEF DeleteRow, Typed, TypeOK, WriterHasRecord
  <2>3. CASE DeleteSnapshot
    BY <1>0, <2>3 DEF DeleteSnapshot, Typed, TypeOK, WriterHasRecord
  <2> QED
    BY <1>4, <2>2, <2>3
<1>5. CASE PublishTooLate \/ PublishUpdate
  <2>1. Kept
    BY <1>0, <1>5, MishapTypes, StatusWords DEF PublishTooLate, PublishUpdate
  <2>2. /\ publish' \in [pc : {"idle", "wait", "create", "install", "row"}, rec : 0..MaxRecords]
        /\ publish'.pc \in {"install", "row"} => publish'.rec \in Record
    BY <1>0, <1>5, PublisherBounds
       DEF PublishTooLate, PublishUpdate, TypeOK, NotPublishing, Record
  <2> QED
    BY <1>0, <1>5, <2>1, <2>2
       DEF PublishTooLate, PublishUpdate, Typed, TypeOK, WriterHasRecord, Stamp, Calls
<1>6. CASE PublishCreate
  <2>1. Kept
    BY <1>0, <1>6, MishapTypes, StatusWords DEF PublishCreate
  <2>2. /\ publish' \in [pc : {"idle", "wait", "create", "install", "row"}, rec : 0..MaxRecords]
        /\ publish'.pc \in {"install", "row"} => publish'.rec \in Record
    BY <1>0, <1>6, PublisherBounds DEF PublishCreate, TypeOK, NotPublishing
  <2> QED
    BY <1>0, <1>6, <2>1, <2>2
       DEF PublishCreate, Typed, TypeOK, WriterHasRecord, Stamp, Calls
<1>7. CASE PublishInstall \/ PublishRow
  <2>1. CASE PublishInstall
    BY <1>0, <2>1 DEF PublishInstall, Typed, TypeOK, WriterHasRecord
  <2>2. CASE PublishRow
    <3>1. row' \in [kept : BOOLEAN, rec : 0..MaxRecords]
      BY <1>0, <2>2 DEF PublishRow, TypeOK
    <3>2. publish' \in [pc : {"idle", "wait", "create", "install", "row"}, rec : 0..MaxRecords]
          /\ publish'.pc = "idle"
      BY <2>2, PublisherBounds DEF PublishRow, NotPublishing
    <3> QED
      BY <1>0, <2>2, <3>1, <3>2 DEF PublishRow, Typed, TypeOK, WriterHasRecord
  <2> QED
    BY <1>7, <2>1, <2>2
<1>8. ASSUME NEW w \in Writers, WriteStatus(w) PROVE Typed'
  <2>1. writing[w] \in [status : Profile!Statuses, rec : Record]
    BY <1>0, <1>8 DEF WriteStatus, Calls
  <2>2. Kept
    BY <1>0, <1>8, <2>1, MishapTypes, StatusWords DEF WriteStatus, Calls
  <2> QED
    BY <1>0, <1>8, <2>2 DEF WriteStatus, Typed, TypeOK, WriterHasRecord, Stamp, Calls
<1>9. CASE IdleRead
  BY <1>0, <1>9 DEF IdleRead, Typed, TypeOK, WriterHasRecord
<1>10. CASE IdleSet
  <2>1. writing' \in Calls
    BY <1>0, <1>10, BeginsTypes, StatusWords DEF IdleSet, Writers
  <2> QED
    BY <1>0, <1>10, <2>1, StatusWords
       DEF IdleSet, Typed, TypeOK, WriterHasRecord, Stamp, Calls, Status
<1>11. CASE Heartbeat
  <2>1. writing' \in Calls
    BY <1>0, <1>11, BeginsTypes DEF Heartbeat, Writers, TypeOK, Status
  <2> QED
    BY <1>0, <1>11, <2>1 DEF Heartbeat, Typed, TypeOK, WriterHasRecord, Stamp, Calls
<1>12. ASSUME NEW s \in Choices, SetStatus(s) PROVE Typed'
  <2>1. writing' \in Calls /\ mishaps' \subseteq MishapKinds
    BY <1>0, <1>12, BeginsTypes, StatusWords, MidTickTypes DEF SetStatus, Writers
  <2> QED
    BY <1>0, <1>12, <2>1, StatusWords
       DEF SetStatus, Typed, TypeOK, WriterHasRecord, Stamp, Calls, Status
<1>13. CASE LogoutBegin
  <2>1. writing' \in Calls /\ mishaps' \subseteq MishapKinds
    BY <1>0, <1>13, BeginsTypes, StatusWords, MidTickTypes DEF LogoutBegin, Writers
  <2> QED
    BY <1>0, <1>13, <2>1 DEF LogoutBegin, Typed, TypeOK, WriterHasRecord, Stamp, Calls
<1>14. CASE LogoutEnd \/ Crash
  <2>1. writing' \in Calls /\ mishaps' \subseteq MishapKinds
    BY <1>0, <1>14, MishapTypes, MidTickTypes DEF LogoutEnd, Crash, TasksEnd, Calls
  <2>2. /\ NotPublishing \in [pc : {"idle", "wait", "create", "install", "row"}, rec : 0..MaxRecords]
        /\ NoHandle \in [rec : 0..MaxRecords, writer : BOOLEAN]
        /\ ~NoHandle.writer /\ NotPublishing.pc = "idle"
    BY PublisherBounds DEF NotPublishing, NoHandle
  <2> QED
    BY <1>0, <1>14, <2>1, <2>2
       DEF LogoutEnd, Crash, TasksEnd, Typed, TypeOK, WriterHasRecord, Stamp, Calls, Status
<1>15. CASE Rest \/ Mute
  <2>1. mishaps' \subseteq MishapKinds
    BY <1>0, <1>15, MishapTypes DEF Rest, Mute
  <2> QED
    BY <1>0, <1>15, <2>1 DEF Rest, Mute, Typed, TypeOK, WriterHasRecord
<1>16. CASE ExpireRecord
  <2>1. records' \in [Record -> Stamp]
    BY <1>0, <1>16, AgedWords DEF ExpireRecord
  <2> QED
    BY <1>0, <1>16, <2>1 DEF ExpireRecord, Typed, TypeOK, WriterHasRecord, Stamp
<1>17. CASE UNCHANGED vars
  BY <1>0, <1>17 DEF vars, Typed, TypeOK, WriterHasRecord
<1> QED
  BY <1>1, <1>2, <1>3, <1>4, <1>5, <1>6, <1>7, <1>8, <1>9, <1>10, <1>11, <1>12, <1>13, <1>14,
     <1>15, <1>16, <1>17 DEF Next, Publish, Idle, Beat, Leave, Writers

\* Every reachable state is well typed: no task of the client begins to write
\* a status without a record (publish_status).
THEOREM PublisherTypes == Spec => []TypeOK
<1>1. Typed => TypeOK
  BY DEF Typed
<1> QED
  BY <1>1, InitTyped, StepTyped, PTL DEF Spec

-----------------------------------------------------------------------------
(* The private key.                                                        *)

LEMMA KeyStep == RowHasKey /\ OnTheWay /\ [Next]_vars => (RowHasKey /\ OnTheWay)'
<1> SUFFICES ASSUME RowHasKey, OnTheWay, [Next]_vars PROVE (RowHasKey /\ OnTheWay)'
  OBVIOUS
<1> USE DEF RowHasKey, OnTheWay, disk, here, tasks, seen
<1>1. CASE CreateKey \/ CreateRow \/ Login
  BY <1>1 DEF CreateKey, CreateRow, Login, StartSession
<1>2. CASE DeleteRow \/ DeleteSnapshot
  BY <1>2 DEF DeleteRow, DeleteSnapshot, NoRow
<1>3. CASE PublishRow
  <2>1. row'.kept => row.kept
    BY <1>3 DEF PublishRow
  <2> QED
    BY <1>3, <2>1 DEF PublishRow
<1>4. CASE PublishTooLate \/ PublishUpdate \/ PublishCreate \/ PublishInstall
  BY <1>4 DEF PublishTooLate, PublishUpdate, PublishCreate, PublishInstall
<1>5. ASSUME NEW w \in Writers, WriteStatus(w) PROVE (RowHasKey /\ OnTheWay)'
  BY <1>5 DEF WriteStatus
<1>6. CASE IdleRead \/ IdleSet \/ Heartbeat \/ \E s \in Choices : SetStatus(s)
  BY <1>6 DEF IdleRead, IdleSet, Heartbeat, SetStatus
<1>7. CASE LogoutBegin \/ LogoutEnd \/ Crash
  BY <1>7 DEF LogoutBegin, LogoutEnd, Crash
<1>8. CASE Rest \/ Mute \/ ExpireRecord \/ UNCHANGED vars
  BY <1>8 DEF Rest, Mute, ExpireRecord, vars
<1> QED
  BY <1>1, <1>2, <1>3, <1>4, <1>5, <1>6, <1>7, <1>8
     DEF Next, Publish, Idle, Beat, Leave, Writers

\* However often identities are created and deleted, and whenever the process
\* ends in between, a row of the table identity has its private key on disk
\* (create_identity_core saves the key first, delete_identity deletes it last).
THEOREM RowKeepsKey == Spec => []RowHasKey
<1>1. Init => RowHasKey /\ OnTheWay
  BY DEF Init, RowHasKey, OnTheWay, NoRow
<1> QED
  BY <1>1, KeyStep, PTL DEF Spec

-----------------------------------------------------------------------------
(* The user's choice.                                                      *)

LEMMA TickStep == Typed /\ TicksInOnePiece /\ [Next]_vars => TicksInOnePiece'
<1> SUFFICES ASSUME Typed, TicksInOnePiece, [Next]_vars PROVE TicksInOnePiece'
  OBVIOUS
<1>0. mishaps \subseteq MishapKinds
  BY DEF Typed, TypeOK
<1> USE DEF TicksInOnePiece, disk, here, tasks, seen
<1>1. CASE CreateKey
  BY <1>1 DEF CreateKey
<1>2. CASE CreateRow \/ Login
  BY <1>2 DEF CreateRow, Login, StartSession
<1>3. CASE DeleteRow \/ DeleteSnapshot
  BY <1>3 DEF DeleteRow, DeleteSnapshot
<1>4. CASE PublishTooLate \/ PublishUpdate \/ PublishCreate
  <2>1. mishaps \subseteq mishaps'
    BY <1>0, <1>4, MishapTypes DEF PublishTooLate, PublishUpdate, PublishCreate
  <2> QED
    BY <1>4, <2>1 DEF PublishTooLate, PublishUpdate, PublishCreate
<1>5. CASE PublishInstall \/ PublishRow
  BY <1>5 DEF PublishInstall, PublishRow
<1>6. ASSUME NEW w \in Writers, WriteStatus(w) PROVE TicksInOnePiece'
  <2>1. mishaps \subseteq mishaps'
    BY <1>0, <1>6, MishapTypes DEF WriteStatus
  <2> QED
    BY <1>6, <2>1 DEF WriteStatus
<1>7. CASE IdleRead
  BY <1>7 DEF IdleRead
<1>8. CASE IdleSet
  BY <1>8 DEF IdleSet, Typed, TypeOK
<1>9. CASE Heartbeat
  BY <1>9 DEF Heartbeat
<1>10. ASSUME NEW s \in Choices, SetStatus(s) PROVE TicksInOnePiece'
  <2>1. s # "none"
    BY PublisherChoices
  <2> QED
    BY <1>0, <1>10, <2>1, MidTickTypes DEF SetStatus
<1>11. CASE LogoutBegin
  BY <1>0, <1>11, MidTickTypes DEF LogoutBegin
<1>12. CASE LogoutEnd
  BY <1>0, <1>12, MidTickTypes DEF LogoutEnd, TasksEnd
<1>13. CASE Crash
  BY <1>0, <1>13, MishapTypes DEF Crash, TasksEnd
<1>14. CASE Rest \/ ExpireRecord \/ UNCHANGED vars
  BY <1>14 DEF Rest, ExpireRecord, vars
<1>15. CASE Mute
  BY <1>0, <1>15, MishapTypes DEF Mute
<1> QED
  BY <1>1, <1>2, <1>3, <1>4, <1>5, <1>6, <1>7, <1>8, <1>9, <1>10, <1>11, <1>12, <1>13, <1>14,
     <1>15 DEF Next, Publish, Idle, Beat, Leave, Writers

\* The status shown is the one the user chose, or Away remembered as Online,
\* whatever heartbeats, publications, failures and logouts go on (set_status,
\* start_idle_service, logout), as long as no choice and no logout falls
\* between the locks of one idle tick.
THEOREM ChoiceKept == Spec => []ChoiceIsKept
<1>1. Init => TicksInOnePiece
  BY DEF Init, TicksInOnePiece
<1>2. TicksInOnePiece => ChoiceIsKept
  BY DEF TicksInOnePiece, ChoiceIsKept
<1> QED
  BY <1>1, <1>2, InitTyped, StepTyped, TickStep, PTL DEF Spec

-----------------------------------------------------------------------------
(* The promise to the watchers.                                            *)

\* Without a logged-in user nothing can be published.
Signed ==
    /\ identity = "none" => ~handle.writer /\ publish = NotPublishing
    /\ session = "in" => identity # "none"

LEMMA SignedStep == Typed /\ Signed /\ [Next]_vars => Signed'
<1> SUFFICES ASSUME Typed, Signed, [Next]_vars PROVE Signed'
  OBVIOUS
<1> USE DEF Signed, disk, here, tasks, seen
<1>1. CASE CreateKey \/ CreateRow \/ Login \/ DeleteRow \/ DeleteSnapshot
  BY <1>1 DEF CreateKey, CreateRow, Login, StartSession, DeleteRow, DeleteSnapshot
<1>2. CASE PublishTooLate \/ PublishUpdate \/ PublishCreate \/ PublishInstall \/ PublishRow
  <2>1. publish # NotPublishing
    BY <1>2 DEF PublishTooLate, PublishUpdate, PublishCreate, PublishInstall, PublishRow, NotPublishing
  <2> QED
    BY <1>2, <2>1 DEF PublishTooLate, PublishUpdate, PublishCreate, PublishInstall, PublishRow
<1>3. ASSUME NEW w \in Writers, WriteStatus(w) PROVE Signed'
  BY <1>3 DEF WriteStatus
<1>4. CASE IdleRead \/ IdleSet \/ Heartbeat
  BY <1>4 DEF IdleRead, IdleSet, Heartbeat
<1>5. ASSUME NEW s \in Choices, SetStatus(s) PROVE Signed'
  BY <1>5, PublisherChoices DEF SetStatus
<1>6. CASE LogoutBegin \/ LogoutEnd \/ Crash
  BY <1>6 DEF LogoutBegin, LogoutEnd, Crash, NoHandle
<1>7. CASE Rest \/ Mute \/ ExpireRecord \/ UNCHANGED vars
  BY <1>7 DEF Rest, Mute, ExpireRecord, vars
<1> QED
  BY <1>1, <1>2, <1>3, <1>4, <1>5, <1>6, <1>7 DEF Next, Publish, Idle, Beat, Leave, Writers

LEMMA GoneMeans ==
    /\ Owner(1) \in Profile!Owners
    /\ Owner(1) = "gone" <=> identity = "none" /\ ~UnderWay
    /\ ~HeartbeatWorks(1) => Owner(1) # "kept"
    /\ identity # "none" /\ ~handle.writer => Owner(1) = "here"
BY DEF Owner, HeartbeatWorks, Profile!Owners

\* Who is gone comes back by logging in only.
LEMMA GoneMoves ==
    ASSUME Typed, Signed, [Next]_vars, identity = "none", ~UnderWay
    PROVE  Owner(1)' \in {"gone", "here"}
<1>0. /\ publish = NotPublishing /\ session # "in" /\ ~handle.writer
      /\ \A w \in Writers : writing[w] = NotWriting
  BY DEF Signed, UnderWay
<1>1. ASSUME identity' = "none", publish' = publish, writing' = writing PROVE Owner(1)' = "gone"
  BY <1>1 DEF Owner, HeartbeatWorks, UnderWay
<1>2. ASSUME identity' # "none", ~handle'.writer PROVE Owner(1)' = "here"
  BY <1>2 DEF Owner, HeartbeatWorks
<1> USE DEF disk, here, tasks, seen
<1>3. CASE CreateKey \/ DeleteRow \/ DeleteSnapshot \/ IdleRead \/ Rest \/ Mute \/ ExpireRecord
           \/ UNCHANGED vars
  BY <1>1, <1>3 DEF CreateKey, DeleteRow, DeleteSnapshot, IdleRead, Rest, Mute, ExpireRecord, vars
<1>4. CASE CreateRow \/ Login
  <2>1. identity' = "online" /\ ~handle'.writer
    BY <1>4 DEF CreateRow, Login, StartSession
  <2> QED
    BY <1>2, <2>1
<1>5. CASE IdleSet
  BY <1>0, <1>1, <1>5 DEF IdleSet, Begins
<1>6. CASE Crash
  <2>1. \A w \in Writers : writing'[w] = NotWriting
    BY <1>6 DEF Crash, TasksEnd
  <2> QED
    BY <1>6, <2>1 DEF Crash, Owner, HeartbeatWorks, UnderWay
<1>7. CASE LogoutEnd
  <2>1. \A w \in Writers : writing'[w] = NotWriting
    BY <1>0, <1>7 DEF LogoutEnd, TasksEnd, Typed, TypeOK
  <2> QED
    BY <1>7, <2>1 DEF LogoutEnd, Owner, HeartbeatWorks, UnderWay
<1>8. ~(\/ PublishTooLate \/ PublishUpdate \/ PublishCreate \/ PublishInstall \/ PublishRow
        \/ Heartbeat \/ LogoutBegin \/ (\E w \in Writers : WriteStatus(w))
        \/ \E s \in Choices : SetStatus(s))
  BY <1>0 DEF PublishTooLate, PublishUpdate, PublishCreate, PublishInstall, PublishRow, NotPublishing,
     Heartbeat, LogoutBegin, WriteStatus, SetStatus
<1> QED
  BY <1>3, <1>4, <1>5, <1>6, <1>7, <1>8 DEF Next, Publish, Idle, Beat, Leave, Writers

\* The watched record changes by a write of the user's own client or by age.
LEMMA FirstRecordChanges ==
    ASSUME Typed, Signed, [Next]_vars, FirstRecord' # FirstRecord
    PROVE  \/ /\ Owner(1) # "gone"
              /\ \/ FirstRecord' = Profile!Announced
                 \/ \E s \in Profile!Statuses : FirstRecord' = Profile!Stamped(s)
           \/ /\ Owner(1) # "kept" /\ FirstRecord.ts = "fresh"
              /\ FirstRecord' = Profile!Aged(FirstRecord) /\ UNCHANGED Owner(1)
<1>0. /\ 1 \in Record /\ FirstRecord = records[1] /\ FirstRecord' = records'[1]
      /\ records \in [Record -> Stamp]
  BY PublisherBounds DEF FirstRecord, Record, Typed, TypeOK, Stamp
<1> USE DEF disk, here, tasks, seen
<1>1. CASE PublishUpdate \/ PublishCreate
  <2>1. Owner(1) # "gone"
    BY <1>1, GoneMeans DEF PublishUpdate, PublishCreate, UnderWay, NotPublishing
  <2>2. records'[1] \in {Profile!Announced, Profile!Stamped("online")}
    BY <1>0, <1>1 DEF PublishUpdate, PublishCreate
  <2> QED
    BY <1>0, <2>1, <2>2, StatusWords
<1>2. ASSUME NEW w \in Writers, WriteStatus(w)
      PROVE  Owner(1) # "gone" /\ \E s \in Profile!Statuses : FirstRecord' = Profile!Stamped(s)
  <2>1. Owner(1) # "gone" /\ writing[w].status \in Profile!Statuses
    BY <1>2, GoneMeans DEF WriteStatus, UnderWay, Typed, TypeOK
  <2>2. records'[1] = Profile!Stamped(writing[w].status)
    BY <1>0, <1>2 DEF WriteStatus
  <2> QED
    BY <1>0, <2>1, <2>2
<1>3. CASE ExpireRecord
  <2>1. ~HeartbeatWorks(1) /\ records[1].ts = "fresh" /\ records'[1] = Profile!Aged(records[1])
    BY <1>0, <1>3 DEF ExpireRecord
  <2>2. UNCHANGED Owner(1)
    BY <1>3 DEF ExpireRecord, Owner, HeartbeatWorks, UnderWay
  <2> QED
    BY <1>0, <2>1, <2>2, GoneMeans
<1>4. CASE records' = records
  BY <1>0, <1>4
<1>5. \/ records' = records \/ PublishUpdate \/ PublishCreate \/ ExpireRecord
      \/ \E w \in Writers : WriteStatus(w)
  BY DEF Next, Publish, Idle, Beat, Leave, Writers, CreateKey, CreateRow, Login, DeleteRow,
     DeleteSnapshot, PublishTooLate, PublishInstall, PublishRow, IdleRead, IdleSet, Heartbeat,
     SetStatus, LogoutBegin, LogoutEnd, Crash, Rest, Mute, vars
<1> QED
  BY <1>1, <1>2, <1>3, <1>4, <1>5

\* The first record of a user, whichever of the five tasks write it and however
\* late, changes as ProfileStatus promises to friends: while the user's client
\* is there, or by growing old while the heartbeat does not keep it fresh.
\* (The fairness of the promise is checked by TLC, see KeepsPromise.)
THEOREM PublisherImplements ==
    Spec => Profile!Init /\ [][Profile!Next]_<<FirstRecord, Owner(1)>>
<1>1. Init => Profile!Init /\ Signed
  <2> SUFFICES ASSUME Init PROVE Profile!Init /\ Signed
    OBVIOUS
  <2>1. FirstRecord = Unset
    BY PublisherBounds DEF Init, FirstRecord, Record
  <2>2. Owner(1) = "gone"
    BY DEF Init, Owner, HeartbeatWorks, UnderWay
  <2> QED
    BY <2>1, <2>2 DEF Init, Signed, NoHandle, Unset, Profile!Init, Profile!Unset
<1>2. Typed /\ Signed /\ [Next]_vars => [Profile!Next]_<<FirstRecord, Owner(1)>>
  <2> SUFFICES ASSUME Typed, Signed, [Next]_vars, ~(UNCHANGED <<FirstRecord, Owner(1)>>)
               PROVE  Profile!Next
    OBVIOUS
  <2>1. Profile!Moves
    <3>1. Owner(1)' \in Profile!Owners
      BY DEF Owner, Profile!Owners
    <3> QED
      BY <3>1, GoneMeans, GoneMoves DEF Profile!Moves
  <2>2. CASE FirstRecord' = FirstRecord
    BY <2>1, <2>2 DEF Profile!Next, Profile!Move
  <2>3. CASE FirstRecord' # FirstRecord
    BY <2>1, <2>3, FirstRecordChanges DEF Profile!Next, Profile!Write, Profile!Expire
  <2> QED
    BY <2>2, <2>3
<1> QED
  BY <1>1, <1>2, InitTyped, StepTyped, SignedStep, PTL DEF Spec
=============================================================================
