---------------------------- MODULE FriendPresence ----------------------------
(***************************************************************************)
(* A friend's client and the status it shows for one user: the watch on    *)
(* the user's profile record, the polling of the sync loop and the check   *)
(* of stale timestamps (src-tauri: services/presence_service.rs,           *)
(* services/sync_service.rs, services/veilid_service.rs).                  *)
(*                                                                         *)
(* The user is whoever keeps the promise of module ProfileStatus, which    *)
(* module PresencePublisher shows the user's client to do.  The watch, the *)
(* dispatch loop and the sync loop all bring values of the same subkey,    *)
(* and each puts what it brought, however old, into the same FriendState.  *)
(***************************************************************************)
EXTENDS Integers, FiniteSets

CONSTANTS
    Published,   \* bound: statuses the user publishes
    ForceEvery,  \* every ForceEvery-th tick reads from the network (10 in the code)
    Mishaps,     \* kinds of mishap that happen
    MaxMishaps   \* bound: how many of these kinds happen in one behaviour

MishapKinds == {"silent", "refused", "unopened", "detached", "unready", "restart", "failed"}

ASSUME FriendBounds == ForceEvery \in Nat \ {0} /\ MaxMishaps \in Nat
                       /\ Mishaps \subseteq MishapKinds /\ "offline" \in Published

VARIABLES
    \* --- the user: ProfileStatus
    record, owner,
    \* --- the friend's node
    attached,   \* is_attached
    watch,      \* is the watch alive in the network?
    copy,       \* the local copy of subkey 2
    news,       \* is there a change still to be reported?
    ended,      \* is the end of the watch still to be reported?
    \* --- AppState and the sync loop
    status,     \* FriendState.status
    heard,      \* FriendState.last_heartbeat_at
    unwatched,  \* is the user in unwatched_friends?
    keyed,      \* is the record in watched_keys of the loop?
    tick,       \* ticks until the next forced one
    \* --- tasks
    handling,   \* the value handle_value_change is about to apply
    syncing,    \* sync_friends: how far, and the value read
    \* --- observed
    mishaps

user  == <<record, owner>>
node  == <<attached, watch, copy, news, ended>>
state == <<status, heard>>
loop  == <<unwatched, keyed, tick>>
tasks == <<handling, syncing>>
vars  == <<user, node, state, loop, tasks, mishaps>>

Profile == INSTANCE ProfileStatus

-----------------------------------------------------------------------------
Nothing == [status |-> "none", ts |-> "none"]
Quiet == [pc |-> "idle", value |-> Nothing]

Init ==
    /\ Profile!Init
    /\ attached = TRUE /\ watch = FALSE /\ copy = Nothing /\ news = FALSE /\ ended = FALSE
    /\ status = "offline" /\ heard = "none"
    /\ unwatched = FALSE /\ keyed = FALSE /\ tick = 0
    /\ handling = Nothing /\ syncing = Quiet /\ mishaps = {}

Mishap(kind) ==
    /\ kind \in Mishaps /\ mishaps' = mishaps \cup {kind}
    /\ Cardinality(mishaps') <= MaxMishaps

-----------------------------------------------------------------------------
(* The user and time.                                                      *)

\* A watched record that is written is reported.  To a friend, "leaving" does
\* not differ from "here".
UserActs ==
    /\ Profile!Move \/ Profile!Write
    /\ record'.status \in Published /\ owner' # "leaving"
    /\ news' = (news \/ (watch /\ record' # record))
    /\ UNCHANGED <<attached, watch, copy, ended, state, loop, tasks, mishaps>>

AgedSync == [syncing EXCEPT !.value = Profile!Aged(@)]

\* What the friend has of an expired record is at least as old.
UserExpires ==
    /\ Profile!Expire
    /\ copy' = Profile!Aged(copy) /\ handling' = Profile!Aged(handling)
    /\ syncing' = AgedSync
    /\ heard' = IF heard = "fresh" THEN "stale" ELSE heard
    /\ UNCHANGED <<attached, watch, news, ended, status, loop, mishaps>>

\* A change is reported, or the record polled, well within the threshold.
Follows == attached /\ (watch \/ unwatched)

\* What the friend has gets old while the record does not: nobody tells it, or
\* the newest value has no timestamp.
FriendExpires ==
    /\ ~Follows \/ record.ts # "fresh"
    /\ copy' = Profile!Aged(copy) /\ handling' = Profile!Aged(handling)
    /\ syncing' = AgedSync
    /\ heard' = IF heard = "fresh" THEN "stale" ELSE heard
    /\ UNCHANGED <<user, attached, watch, news, ended, status, loop, mishaps>>

-----------------------------------------------------------------------------
(* Watching.                                                               *)

\* watch_friend: refused, the friend is polled; if the record cannot be opened
\* nothing changes, and that counts as success, too.
WatchFriend ==
    \/ watch' = TRUE /\ unwatched' = FALSE /\ UNCHANGED mishaps
    \/ Mishap("refused") /\ unwatched' = TRUE /\ UNCHANGED watch
    \/ Mishap("unopened") /\ UNCHANGED <<watch, unwatched>>

\* The network ends a watch and says so, or not.
WatchEnds ==
    /\ watch /\ watch' = FALSE /\ news' = FALSE
    /\ \/ ended' = TRUE /\ UNCHANGED mishaps
       \/ UNCHANGED ended /\ Mishap("silent")
    /\ UNCHANGED <<user, attached, copy, state, loop, tasks>>

\* handle_value_change without subkeys: try_rewatch_friend.
HandleEnd ==
    /\ ended /\ ended' = FALSE /\ handling = Nothing
    /\ WatchFriend
    /\ UNCHANGED <<user, attached, copy, news, state, keyed, tick, tasks>>

\* handle_value_change: the value comes with the report or is fetched.
HandleNews ==
    /\ news /\ news' = FALSE /\ handling = Nothing
    /\ \/ handling' = record /\ copy' = record /\ UNCHANGED mishaps
       \/ Mishap("failed") /\ UNCHANGED <<handling, copy>>
    /\ UNCHANGED <<user, attached, watch, ended, state, loop, syncing>>

\* Variant: the age of the timestamp is not looked at.
ShownAsIs(v) == v.status

Shown(v) == IF v.status # "offline" /\ v.ts = "stale" THEN "offline" ELSE v.status
Heard(v) == IF v.ts = "none" THEN heard ELSE v.ts

\* handle_status_change.
HandleStatus ==
    /\ handling # Nothing /\ handling' = Nothing
    /\ status' = Shown(handling) /\ heard' = Heard(handling)
    /\ UNCHANGED <<user, node, loop, syncing, mishaps>>

-----------------------------------------------------------------------------
(* The sync loop.                                                          *)

NextTick == IF tick = 0 THEN ForceEvery - 1 ELSE tick - 1

\* sync_friends: a friend not watched yet, or no longer, is watched first.
SyncWatch ==
    /\ attached /\ syncing.pc = "idle"
    /\ IF keyed /\ ~unwatched THEN UNCHANGED <<watch, unwatched, mishaps>> ELSE WatchFriend
    /\ keyed' = TRUE
    /\ syncing' = [pc |-> IF tick = 0 \/ unwatched THEN "force" ELSE "read", value |-> Nothing]
    /\ tick' = NextTick
    /\ UNCHANGED <<user, attached, copy, news, ended, state, handling>>

\* Variant: what is there is good enough.
SyncReadCopy ==
    /\ syncing.pc \in {"force", "read"}
    /\ copy' = IF copy = Nothing THEN record ELSE copy
    /\ syncing' = [pc |-> "apply", value |-> copy']
    /\ UNCHANGED <<user, attached, watch, news, ended, state, loop, handling, mishaps>>

\* get_dht_value: from the network if forced or if there is no local copy.
SyncRead ==
    /\ syncing.pc \in {"force", "read"}
    /\ \/ /\ copy' = IF syncing.pc = "force" \/ copy = Nothing THEN record ELSE copy
          /\ attached \/ copy' = copy
          /\ syncing' = [pc |-> "apply", value |-> copy']
          /\ UNCHANGED mishaps
       \/ /\ ~attached /\ UNCHANGED <<copy, mishaps>>
          /\ syncing' = [pc |-> "check", value |-> Nothing]
       \/ /\ Mishap("failed") /\ UNCHANGED copy
          /\ syncing' = [pc |-> "check", value |-> Nothing]
    /\ UNCHANGED <<user, attached, watch, news, ended, state, loop, handling>>

\* sync_friend_status.
SyncStatus ==
    /\ syncing.pc = "apply"
    /\ status' = Shown(syncing.value) /\ heard' = Heard(syncing.value)
    /\ syncing' = [pc |-> "check", value |-> Nothing]
    /\ UNCHANGED <<user, node, loop, handling, mishaps>>

\* check_stale_presences.
SyncCheck ==
    /\ syncing.pc = "check" /\ syncing' = Quiet
    /\ status' = IF heard = "stale" THEN "offline" ELSE status
    /\ UNCHANGED <<user, node, heard, loop, handling, mishaps>>

Sync == SyncWatch \/ SyncRead \/ SyncStatus \/ SyncCheck

-----------------------------------------------------------------------------
(* The network and the process.                                            *)

Detach ==
    /\ attached /\ Mishap("detached")
    /\ attached' = FALSE /\ watch' = FALSE /\ news' = FALSE /\ ended' = FALSE
    /\ UNCHANGED <<user, copy, state, loop, tasks>>

\* Variant: the watches are thought to have survived.
AttachOnly ==
    /\ ~attached /\ attached' = TRUE
    /\ UNCHANGED <<user, watch, copy, news, ended, state, loop, tasks, mishaps>>

\* handle_attachment: invalidate_all_watches and sync_friends_now, if the DHT
\* can be used by then; that it can be used a moment later changes nothing.
Attach ==
    /\ ~attached /\ attached' = TRUE
    /\ \/ unwatched' = TRUE /\ UNCHANGED mishaps
       \/ UNCHANGED unwatched /\ Mishap("unready")
    /\ UNCHANGED <<user, watch, copy, news, ended, state, keyed, tick, tasks>>

\* The process ends and the friend logs in again (load_friends_from_db).
Restart ==
    /\ Mishap("restart")
    /\ watch' = FALSE /\ news' = FALSE /\ ended' = FALSE
    /\ status' = "offline" /\ heard' = "none"
    /\ unwatched' = FALSE /\ keyed' = FALSE /\ tick' = 0
    /\ handling' = Nothing /\ syncing' = Quiet
    /\ UNCHANGED <<user, attached, copy>>

Dispatch == HandleEnd \/ HandleNews \/ HandleStatus

Next ==
    \/ UserActs \/ UserExpires \/ FriendExpires
    \/ Dispatch \/ Sync
    \/ WatchEnds \/ Detach \/ Attach \/ Restart

\* The loops run, time passes, and the network does not fail every forced read.
Fairness ==
    /\ WF_vars(Dispatch) /\ WF_vars(Sync)
    /\ SF_vars(syncing.pc = "force" /\ SyncRead /\ syncing'.pc = "apply")
    /\ WF_vars(owner = "gone" /\ UserExpires)
    /\ WF_vars(FriendExpires)

Spec == Init /\ [][Next]_vars /\ Fairness

-----------------------------------------------------------------------------
(* Properties.                                                             *)

Value == [status : Profile!Statuses, ts : Profile!Ages] \cup {Nothing}

TypeOK ==
    /\ record \in Value /\ owner \in Profile!Owners
    /\ attached \in BOOLEAN /\ watch \in BOOLEAN /\ copy \in Value
    /\ news \in BOOLEAN /\ ended \in BOOLEAN
    /\ status \in Profile!Statuses /\ heard \in Profile!Ages
    /\ unwatched \in BOOLEAN /\ keyed \in BOOLEAN /\ tick \in 0..(ForceEvery - 1)
    /\ handling \in Value
    /\ syncing \in [pc : {"idle", "force", "read", "apply", "check"}, value : Value]
    /\ mishaps \subseteq MishapKinds

\* A user who is gone is seen to be offline in the end, whatever was lost on
\* the way, but for a status without a timestamp.
GoneIsSeen ==
    <>[](owner = "gone" /\ attached /\ record.ts # "none")
        => <>[](status = "offline")

\* A status that is kept fresh is shown in the end by a friend that follows.
StatusIsSeen ==
    \A s \in Published \ {"offline"} :
        <>[](record = Profile!Stamped(s) /\ owner = "kept" /\ Follows)
            => <>[](status = s)

\* A watch that ends does not stay so: the record is watched again or polled,
\* unless its end was not noticed.
WatchReturns ==
    <>[](attached /\ {"silent", "unopened", "unready"} \cap mishaps = {})
        => []<>(watch \/ unwatched)
=============================================================================
