-------------------------- MODULE PresencePublisher --------------------------
(***************************************************************************)
(* One user's client: its account on disk, logging in and out, and the     *)
(* status it publishes in subkey 2 of the user's profile record (src-tauri: *)
(* commands/auth.rs, commands/status.rs, services/presence_service.rs,     *)
(* services/idle_service.rs, services/veilid_service.rs, lib.rs).          *)
(*                                                                         *)
(* Five tasks write the same subkey: the command set_status, the idle      *)
(* service, the heartbeat, the publication started by the login, and the   *)
(* logout.  Each reads what it publishes, then awaits opening the record,  *)
(* then writes: what it writes may no longer be so.  The logout aborts two *)
(* of them; the others finish when they finish.                            *)
(***************************************************************************)
EXTENDS Integers, FiniteSets

CONSTANTS
    Choices,     \* statuses the user picks
    MaxLogins,   \* bound: logins
    MaxRecords,  \* bound: profile records created
    Mishaps,     \* kinds of mishap that happen
    MaxMishaps   \* bound: how many of these kinds happen in one behaviour

MishapKinds == {"failed", "late", "crash", "midtick", "muted"}

ASSUME PublisherBounds == MaxLogins \in Nat /\ MaxRecords \in Nat /\ MaxMishaps \in Nat
ASSUME PublisherChoices == /\ Choices \subseteq {"online", "away", "busy", "offline"}
                           /\ Mishaps \subseteq MishapKinds

VARIABLES
    \* --- disk
    snapshot,  \* is there a Stronghold snapshot with the private key?
    row,       \* identity
    \* --- the network
    records,   \* subkey 2 of each profile record ever created
    \* --- AppState
    session,   \* "out", "creating", "in", "leaving", "deleting"
    identity,  \* identity.status; "none": nobody is logged in
    preAway,   \* pre_away_status: is there one?  It is always Online
    handle,    \* profile_dht_key and profile_owner_keypair of the NodeHandle
    \* --- tasks
    publish,   \* spawn_dht_publish
    writing,   \* calls of publish_status under way
    idling,    \* the idle service: "no", or what it has decided
    \* --- the user
    active,    \* at the keyboard?  TRUE while there is no session
    \* --- observed
    chosen,    \* the status the user asked for last in this session
    logins, mishaps

disk  == <<snapshot, row>>
here  == <<session, identity, preAway, handle>>
tasks == <<publish, writing, idling>>
seen  == <<chosen, logins, mishaps>>
vars  == <<disk, records, here, tasks, active, seen>>

-----------------------------------------------------------------------------
Record == 1..MaxRecords
Writers == {"user", "idle", "beat", "leave"}

NoRow == [kept |-> FALSE, rec |-> 0]
NoHandle == [rec |-> 0, writer |-> FALSE]
NotPublishing == [pc |-> "idle", rec |-> 0]
NotWriting == [status |-> "none", rec |-> 0]

\* What the profile's watchers are promised of record r.
HeartbeatWorks(r) ==
    /\ session = "in" /\ identity \notin {"none", "offline"}
    /\ handle = [rec |-> r, writer |-> TRUE] /\ "failed" \notin mishaps
UnderWay == publish # NotPublishing \/ \E w \in Writers : writing[w] # NotWriting
Owner(r) == IF HeartbeatWorks(r) THEN "kept"
            ELSE IF identity # "none" THEN "here"
            ELSE IF UnderWay THEN "leaving" ELSE "gone"
Unset == [status |-> "offline", ts |-> "none"]
FirstRecord == IF MaxRecords > 0 THEN records[1] ELSE Unset
Profile == INSTANCE ProfileStatus WITH record <- FirstRecord, owner <- Owner(1)

Init ==
    /\ snapshot = FALSE /\ row = NoRow
    /\ records = [r \in Record |-> Unset]
    /\ session = "out" /\ identity = "none" /\ preAway = FALSE /\ handle = NoHandle
    /\ publish = NotPublishing /\ writing = [w \in Writers |-> NotWriting] /\ idling = "no"
    /\ active = TRUE
    /\ chosen = "none" /\ logins = 0 /\ mishaps = {}

Mishap(kind) ==
    /\ kind \in Mishaps /\ mishaps' = mishaps \cup {kind}
    /\ Cardinality(mishaps') <= MaxMishaps

\* Something happens between two locks of an idle tick.
MidTick == IF idling = "no" THEN UNCHANGED mishaps ELSE Mishap("midtick")

-----------------------------------------------------------------------------
(* The account.                                                            *)

\* start_background_services, spawn_login_services: the row's record is known
\* at once, the right to write it when the profile has been published.
StartSession(rec) ==
    /\ session' = "in" /\ identity' = "online" /\ chosen' = "online"
    /\ handle' = [rec |-> rec, writer |-> FALSE]
    /\ publish' = [pc |-> "wait", rec |-> rec]
    /\ logins < MaxLogins /\ logins' = logins + 1
    /\ UNCHANGED <<preAway, writing, idling>>

\* create_identity_core: the key is saved ...
CreateKey ==
    /\ session = "out" /\ ~snapshot /\ ~row.kept
    /\ snapshot' = TRUE /\ session' = "creating"
    /\ UNCHANGED <<row, records, identity, preAway, handle, tasks, active, seen>>

\* ... then the row, then the session starts.
CreateRow ==
    /\ session = "creating"
    /\ row' = [kept |-> TRUE, rec |-> 0]
    /\ StartSession(0)
    /\ UNCHANGED <<snapshot, records, active, mishaps>>

\* login_core: without the private key the login is refused.
Login ==
    /\ session = "out" /\ row.kept /\ snapshot
    /\ StartSession(row.rec)
    /\ UNCHANGED <<disk, records, active, mishaps>>

\* Variant: the snapshot goes first.
DeleteSnapshotFirst ==
    /\ session = "out" /\ row.kept /\ snapshot
    /\ snapshot' = FALSE /\ session' = "deleting"
    /\ UNCHANGED <<row, records, identity, preAway, handle, tasks, active, seen>>

\* delete_identity; the session of an active identity is ended first.
DeleteRow ==
    /\ session = "out" /\ row.kept /\ snapshot
    /\ row' = NoRow /\ session' = "deleting"
    /\ UNCHANGED <<snapshot, records, identity, preAway, handle, tasks, active, seen>>

DeleteSnapshot ==
    /\ session = "deleting"
    /\ snapshot' = FALSE /\ session' = "out"
    /\ UNCHANGED <<row, records, identity, preAway, handle, tasks, active, seen>>

-----------------------------------------------------------------------------
(* publish_status.                                                         *)

\* It takes record and key pair from the NodeHandle; without both it fails.
Begins(w, s) ==
    writing' = IF handle.writer
               THEN [writing EXCEPT ![w] = [status |-> s, rec |-> handle.rec]]
               ELSE writing

\* Open, then set_dht_value with the time of now.  It fails when the network
\* does, or on a record the logout has closed.
WriteStatus(w) ==
    LET p == writing[w] IN
    /\ p # NotWriting
    /\ \/ /\ records' = [records EXCEPT ![p.rec] = Profile!Stamped(p.status)]
          /\ UNCHANGED mishaps
       \/ session # "in" /\ w # "leave" /\ UNCHANGED <<records, mishaps>>
       \/ Mishap("failed") /\ UNCHANGED records
    /\ writing' = [writing EXCEPT ![w] = NotWriting]
    /\ UNCHANGED <<disk, here, publish, idling, active, chosen, logins>>

\* Time passes; nothing but a newer write makes a timestamp fresh again.
ExpireRecord ==
    /\ \E r \in Record :
          /\ records[r].ts = "fresh" /\ ~HeartbeatWorks(r)
          /\ records' = [records EXCEPT ![r] = Profile!Aged(@)]
    /\ UNCHANGED <<disk, here, tasks, active, seen>>

-----------------------------------------------------------------------------
(* spawn_dht_publish.                                                      *)

\* The network is not ready in 60 seconds: the task ends.
PublishTooLate ==
    /\ publish.pc = "wait" /\ Mishap("late")
    /\ publish' = NotPublishing
    /\ UNCHANGED <<disk, records, here, writing, idling, active, chosen, logins>>

\* try_update_existing_profile writes a status of one byte.  If any of its
\* writes fails, a new record is created.
PublishUpdate ==
    /\ publish.pc = "wait"
    /\ \/ publish.rec = 0 /\ UNCHANGED <<records, mishaps>> /\ publish' = [publish EXCEPT !.pc = "create"]
       \/ /\ publish.rec # 0 /\ UNCHANGED mishaps
          /\ records' = [records EXCEPT ![publish.rec] = Profile!Announced]
          /\ publish' = [publish EXCEPT !.pc = "install"]
       \/ /\ publish.rec # 0 /\ Mishap("failed")
          /\ records' \in {records, [records EXCEPT ![publish.rec] = Profile!Announced]}
          /\ publish' = [publish EXCEPT !.pc = "create"]
    /\ UNCHANGED <<disk, here, writing, idling, active, chosen, logins>>

\* create_profile: a record of its own, which no friend has been told of.
PublishCreate ==
    /\ publish.pc = "create"
    /\ \/ /\ \E r \in Record :
                /\ records[r] = Unset /\ \A q \in Record : q < r => records[q] # Unset
                /\ records' = [records EXCEPT ![r] = Profile!Stamped("online")]
                /\ publish' = [pc |-> "install", rec |-> r]
          /\ UNCHANGED mishaps
       \/ Mishap("failed") /\ publish' = NotPublishing /\ UNCHANGED records
    /\ UNCHANGED <<disk, here, writing, idling, active, chosen, logins>>

PublishInstall ==
    /\ publish.pc = "install"
    /\ handle' = [rec |-> publish.rec, writer |-> TRUE]
    /\ publish' = [publish EXCEPT !.pc = "row"]
    /\ UNCHANGED <<disk, records, session, identity, preAway, writing, idling, active, seen>>

\* UPDATE identity SET dht_record_key.
PublishRow ==
    /\ publish.pc = "row"
    /\ row' = IF row.kept THEN [row EXCEPT !.rec = publish.rec] ELSE row
    /\ publish' = NotPublishing
    /\ UNCHANGED <<snapshot, records, here, writing, idling, active, seen>>

Publish == PublishUpdate \/ PublishCreate \/ PublishInstall \/ PublishRow

-----------------------------------------------------------------------------
(* The status.                                                             *)

\* Variant: the remembered status survives the user's choice.
SetStatusOnly(s) ==
    /\ identity # "none" /\ writing["user"] = NotWriting
    /\ identity' = s /\ chosen' = s /\ MidTick
    /\ Begins("user", s)
    /\ UNCHANGED <<disk, records, session, preAway, handle, publish, idling, active, logins>>

\* set_status.
SetStatus(s) ==
    /\ identity # "none" /\ writing["user"] = NotWriting
    /\ identity' = s /\ preAway' = FALSE /\ chosen' = s /\ MidTick
    /\ Begins("user", s)
    /\ UNCHANGED <<disk, records, session, handle, publish, idling, active, logins>>

\* Variant: the heartbeat repeats what was published last.
RepeatRecord ==
    /\ session = "in" /\ identity \notin {"none", "offline"} /\ handle.writer
    /\ writing["beat"] = NotWriting
    /\ Begins("beat", records[handle.rec].status)
    /\ UNCHANGED <<disk, records, here, publish, idling, active, seen>>

\* Variant: the heartbeat does not look whether anybody is logged in.
HeartbeatForever ==
    /\ row.rec # 0 /\ writing["beat"] = NotWriting
    /\ writing' = [writing EXCEPT !["beat"] = [status |-> "online", rec |-> row.rec]]
    /\ UNCHANGED <<disk, records, here, publish, idling, active, seen>>

\* start_heartbeat_loop; its task is told to stop when the session ends.
Heartbeat ==
    /\ session = "in" /\ identity \notin {"none", "offline"}
    /\ writing["beat"] = NotWriting /\ handle.writer
    /\ Begins("beat", identity)
    /\ UNCHANGED <<disk, records, here, publish, idling, active, seen>>

\* start_idle_service: one tick reads the idle time and the status ...
IdleRead ==
    /\ session = "in" /\ idling = "no" /\ writing["idle"] = NotWriting /\ "muted" \notin mishaps
    /\ \/ ~active /\ identity = "online" /\ ~preAway /\ idling' = "away"
       \/ active /\ preAway /\ idling' = "back"
    /\ UNCHANGED <<disk, records, here, publish, writing, active, seen>>

\* Variant: the way back forgets to take the remembered status.
IdleSetKeep ==
    /\ idling # "no" /\ idling' = "no"
    /\ preAway' = TRUE
    /\ LET s == IF idling = "away" THEN "away" ELSE "online" IN
          /\ identity' = IF identity = "none" THEN identity ELSE s
          /\ Begins("idle", s)
    /\ UNCHANGED <<disk, records, session, handle, publish, active, seen>>

\* ... and sets and publishes under other locks.
IdleSet ==
    /\ idling # "no" /\ idling' = "no"
    /\ preAway' = (idling = "away")
    /\ LET s == IF idling = "away" THEN "away" ELSE "online" IN
          /\ identity' = IF identity = "none" THEN identity ELSE s
          /\ Begins("idle", s)
    /\ UNCHANGED <<disk, records, session, handle, publish, active, seen>>

-----------------------------------------------------------------------------
(* Logging out.                                                            *)

\* logout, and graceful_shutdown up to here: the services are told to stop,
\* Offline is published.
LogoutBegin ==
    /\ session = "in" /\ session' = "leaving"
    /\ preAway' = FALSE /\ MidTick
    /\ IF identity = "offline" THEN UNCHANGED writing ELSE Begins("leave", "offline")
    /\ UNCHANGED <<disk, records, identity, handle, publish, idling, active, chosen, logins>>

\* shutdown_app, or the end of the process.
TasksEnd == writing' = [w \in Writers |-> NotWriting] /\ idling' = "no"

\* logout_cleanup aborts publication and heartbeat, not the idle service or a
\* command; the end of the process ends them too.
LogoutEnd ==
    /\ session = "leaving" /\ writing["leave"] = NotWriting /\ MidTick
    /\ session' = "out" /\ identity' = "none" /\ preAway' = FALSE /\ handle' = NoHandle
    /\ publish' = NotPublishing
    /\ \/ writing' = [writing EXCEPT !["beat"] = NotWriting] /\ UNCHANGED idling
       \/ TasksEnd
    /\ active' = TRUE /\ chosen' = "none"
    /\ UNCHANGED <<disk, records, logins>>

Crash ==
    /\ Mishap("crash")
    /\ session' = "out" /\ identity' = "none" /\ preAway' = FALSE /\ handle' = NoHandle
    /\ publish' = NotPublishing /\ TasksEnd
    /\ active' = TRUE /\ chosen' = "none"
    /\ UNCHANGED <<disk, records, logins>>

-----------------------------------------------------------------------------
(* The user.                                                               *)

Rest == session = "in" /\ active' = ~active /\ UNCHANGED <<disk, records, here, tasks, seen>>

\* preferences: autoAwayMinutes is set to 0; the idle service does nothing more.
Mute ==
    /\ active /\ Mishap("muted")
    /\ UNCHANGED <<disk, records, here, tasks, active, chosen, logins>>

Idle == IdleRead \/ IdleSet \/ WriteStatus("idle")
Beat == Heartbeat \/ WriteStatus("beat")
Leave == WriteStatus("leave") \/ LogoutEnd

Next ==
    \/ CreateKey \/ CreateRow \/ Login \/ DeleteRow \/ DeleteSnapshot
    \/ Publish \/ PublishTooLate
    \/ Idle \/ Beat \/ Leave \/ WriteStatus("user")
    \/ \E s \in Choices : SetStatus(s)
    \/ LogoutBegin \/ Crash \/ Rest \/ Mute \/ ExpireRecord

\* Tasks go on and time passes; the user owes nothing.
Fairness ==
    /\ WF_vars(Publish) /\ WF_vars(Idle) /\ WF_vars(Beat) /\ WF_vars(Leave)
    /\ WF_vars(WriteStatus("user")) /\ WF_vars(ExpireRecord)

Spec == Init /\ [][Next]_vars /\ Fairness

-----------------------------------------------------------------------------
(* Properties.                                                             *)

Status == Profile!Statuses \cup {"none"}

TypeOK ==
    /\ snapshot \in BOOLEAN /\ row \in [kept : BOOLEAN, rec : 0..MaxRecords]
    /\ records \in [Record -> [status : Profile!Statuses, ts : Profile!Ages]]
    /\ session \in {"out", "creating", "in", "leaving", "deleting"}
    /\ identity \in Status /\ preAway \in BOOLEAN
    /\ handle \in [rec : 0..MaxRecords, writer : BOOLEAN]
    /\ publish \in [pc : {"idle", "wait", "create", "install", "row"}, rec : 0..MaxRecords]
    /\ writing \in [Writers -> {NotWriting} \cup [status : Profile!Statuses, rec : Record]]
    /\ idling \in {"no", "away", "back"}
    /\ active \in BOOLEAN
    /\ chosen \in Status /\ logins \in 0..MaxLogins /\ mishaps \subseteq MishapKinds

\* An identity in the database can be unlocked: the private key is on disk
\* before the row and until after it, whenever the process ends
\* (create_identity_core, delete_identity).
RowHasKey == row.kept => snapshot

\* The status is the one the user asked for last, but that an idle user's
\* Online becomes Away and is remembered (set_status, start_idle_service).  A
\* choice or a logout between the locks of one tick is lost.
ChoiceIsKept ==
    "midtick" \notin mishaps /\ session = "in" =>
        /\ identity = chosen \/ (preAway /\ chosen = "online")
        /\ preAway => identity = "away"

\* A session that may write its record ends up publishing the status it shows,
\* whatever late writes of an earlier status were still under way.
StatusCatchesUp ==
    \A s \in {"online", "away", "busy"} :
        <>[](identity = s /\ handle.writer /\ session = "in" /\ "failed" \notin mishaps)
            => <>[](handle.rec \in Record /\ records[handle.rec] = Profile!Stamped(s))

\* Who is back at the keyboard does not stay Away, as long as the feature is
\* not switched off meanwhile.
AutoAwayEnds == <>[](active /\ "muted" \notin mishaps /\ session = "in") => <>[]~preAway

\* The record keeps what ProfileStatus promises to friends.
KeepsPromise == Profile!Spec
=============================================================================
