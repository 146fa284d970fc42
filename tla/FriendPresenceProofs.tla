------------------------ MODULE FriendPresenceProofs ------------------------
(***************************************************************************)
(* FriendPresence for any user that keeps the promise of ProfileStatus,    *)
(* any number of mishaps and any interval between forced reads: types, and *)
(* no watch that ends is forgotten.                                        *)
(***************************************************************************)
EXTENDS FriendPresence, TLAPS

-----------------------------------------------------------------------------
(* Values.                                                                 *)

Stamp == [status : Profile!Statuses, ts : Profile!Ages]

\* What the record holds and what is about to be applied is a real value.
Typed ==
    /\ TypeOK
    /\ record \in Stamp
    /\ syncing.pc = "apply" => syncing.value \in Stamp

LEMMA Words ==
    /\ Profile!Unset \in Stamp /\ Profile!Announced \in Stamp
    /\ \A s \in Profile!Statuses : Profile!Stamped(s) \in Stamp
    /\ Nothing \notin Stamp /\ Value = Stamp \cup {Nothing}
    /\ "offline" \in Profile!Statuses /\ {"none", "fresh", "stale"} = Profile!Ages
BY DEF Stamp, Value, Nothing, Profile!Unset, Profile!Announced, Profile!Stamped,
       Profile!Statuses, Profile!Ages

LEMMA AgedWords ==
    /\ \A v \in Stamp : Profile!Aged(v) \in Stamp
    /\ \A v \in Value : Profile!Aged(v) \in Value
<1>1. ASSUME NEW v \in Stamp PROVE Profile!Aged(v) \in Stamp
  <2>1. CASE v.ts = "fresh"
    BY <2>1 DEF Profile!Aged, Stamp, Profile!Ages
  <2>2. CASE v.ts # "fresh"
    BY <2>2 DEF Profile!Aged, Stamp
  <2> QED
    BY <2>1, <2>2
<1>2. Profile!Aged(Nothing) = Nothing
  BY DEF Profile!Aged, Nothing
<1> QED
  BY <1>1, <1>2, Words

LEMMA MishapTypes ==
    ASSUME mishaps \subseteq MishapKinds
    PROVE  \A kind : Mishap(kind) =>
              mishaps' \subseteq MishapKinds /\ mishaps \subseteq mishaps' /\ kind \in mishaps'
BY FriendBounds DEF Mishap

\* What handle_status_change and sync_friend_status show.
LEMMA ShownTypes ==
    ASSUME NEW v \in Stamp, heard \in Profile!Ages
    PROVE  Shown(v) \in Profile!Statuses /\ Heard(v) \in Profile!Ages
BY Words DEF Stamp, Shown, Heard

LEMMA WatchTypes ==
    ASSUME TypeOK, WatchFriend
    PROVE  /\ watch' \in BOOLEAN /\ unwatched' \in BOOLEAN /\ mishaps' \subseteq MishapKinds
           /\ mishaps \subseteq mishaps'
           /\ watch' \/ unwatched' \/ "unopened" \in mishaps'
BY MishapTypes DEF WatchFriend, TypeOK

-----------------------------------------------------------------------------
(* Types.                                                                  *)

LEMMA InitTyped == Init => Typed
<1> SUFFICES ASSUME Init PROVE Typed
  OBVIOUS
<1>1. record \in Stamp /\ owner \in Profile!Owners
  BY Words DEF Init, Profile!Init, Profile!Owners
<1>2. Nothing \in Value /\ 0 \in 0..(ForceEvery - 1) /\ "none" \in Profile!Ages
  BY Words, FriendBounds
<1> QED
  BY <1>1, <1>2, Words DEF Init, Typed, TypeOK, Quiet

LEMMA StepTyped == Typed /\ [Next]_vars => Typed'
<1> SUFFICES ASSUME Typed, [Next]_vars PROVE Typed'
  OBVIOUS
<1>0. /\ TypeOK /\ record \in Stamp /\ mishaps \subseteq MishapKinds
      /\ syncing.pc = "apply" => syncing.value \in Stamp
      /\ Nothing \in Value /\ Stamp \subseteq Value
  BY Words DEF Typed, TypeOK
<1> USE DEF user, node, state, loop, tasks
<1>1. CASE UserActs
  <2>1. record' \in Stamp /\ owner' \in Profile!Owners
    <3>1. owner' \in Profile!Owners
      BY <1>1 DEF UserActs, Profile!Move, Profile!Write, Profile!Moves, Profile!Owners
    <3>2. CASE Profile!Move
      BY <3>1, <3>2, <1>0 DEF Profile!Move
    <3>3. CASE Profile!Write
      BY <3>1, <3>3, Words DEF Profile!Write
    <3> QED
      BY <1>1, <3>2, <3>3 DEF UserActs
  <2> QED
    BY <1>0, <1>1, <2>1 DEF UserActs, Typed, TypeOK
<1>2. CASE UserExpires \/ FriendExpires
  <2>1. /\ record' \in Stamp /\ owner' = owner
        /\ copy' \in Value /\ handling' \in Value /\ heard' \in Profile!Ages
    BY <1>0, <1>2, AgedWords, Words DEF UserExpires, FriendExpires, Profile!Expire, TypeOK
  <2>2. syncing' = AgedSync
    BY <1>2 DEF UserExpires, FriendExpires
  <2>3. /\ AgedSync \in [pc : {"idle", "force", "read", "apply", "check"}, value : Value]
        /\ AgedSync.pc = syncing.pc /\ AgedSync.value = Profile!Aged(syncing.value)
    BY <1>0, AgedWords DEF AgedSync, TypeOK
  <2>4. syncing'.pc = "apply" => syncing'.value \in Stamp
    BY <1>0, <2>2, <2>3, AgedWords
  <2> QED
    BY <1>0, <1>2, <2>1, <2>2, <2>3, <2>4 DEF UserExpires, FriendExpires, Typed, TypeOK
<1>3. CASE HandleEnd
  BY <1>0, <1>3, WatchTypes DEF HandleEnd, Typed, TypeOK
<1>4. CASE HandleNews
  BY <1>0, <1>4, MishapTypes DEF HandleNews, Typed, TypeOK
<1>5. CASE HandleStatus
  <2>1. handling \in Stamp
    BY <1>0, <1>5, Words DEF HandleStatus, TypeOK
  <2>2. status' \in Profile!Statuses /\ heard' \in Profile!Ages
    BY <1>0, <1>5, <2>1, ShownTypes DEF HandleStatus, TypeOK
  <2> QED
    BY <1>0, <1>5, <2>2 DEF HandleStatus, Typed, TypeOK
<1>6. CASE SyncWatch
  <2>1. /\ watch' \in BOOLEAN /\ unwatched' \in BOOLEAN /\ mishaps' \subseteq MishapKinds
    BY <1>0, <1>6, WatchTypes DEF SyncWatch, TypeOK
  <2>2. tick' \in 0..(ForceEvery - 1)
    BY <1>0, <1>6, FriendBounds DEF SyncWatch, NextTick, TypeOK
  <2> QED
    BY <1>0, <1>6, <2>1, <2>2 DEF SyncWatch, Typed, TypeOK
<1>7. CASE SyncRead
  <2>1. copy' \in Value /\ mishaps' \subseteq MishapKinds
    BY <1>0, <1>7, MishapTypes DEF SyncRead, TypeOK
  <2>2. CASE syncing' = [pc |-> "check", value |-> Nothing]
    BY <1>0, <1>7, <2>1, <2>2 DEF SyncRead, Typed, TypeOK
  <2>3. CASE syncing' = [pc |-> "apply", value |-> copy']
    <3>1. copy' \in Stamp
      BY <1>0, <1>7, <2>3, Words DEF SyncRead, TypeOK
    <3> QED
      BY <1>0, <1>7, <2>1, <2>3, <3>1 DEF SyncRead, Typed, TypeOK
  <2> QED
    BY <1>7, <2>2, <2>3 DEF SyncRead
<1>8. CASE SyncStatus
  <2>1. status' \in Profile!Statuses /\ heard' \in Profile!Ages
    BY <1>0, <1>8, ShownTypes DEF SyncStatus, TypeOK
  <2> QED
    BY <1>0, <1>8, <2>1 DEF SyncStatus, Typed, TypeOK
<1>9. CASE SyncCheck
  BY <1>0, <1>9, Words DEF SyncCheck, Quiet, Typed, TypeOK
<1>10. CASE WatchEnds \/ Detach \/ Attach
  BY <1>0, <1>10, MishapTypes DEF WatchEnds, Detach, Attach, Typed, TypeOK
<1>11. CASE Restart
  <2>1. 0 \in 0..(ForceEvery - 1) /\ "none" \in Profile!Ages /\ "offline" \in Profile!Statuses
    BY Words, FriendBounds
  <2>2. mishaps' \subseteq MishapKinds
    BY <1>0, <1>11, MishapTypes DEF Restart
  <2> QED
    BY <1>0, <1>11, <2>1, <2>2 DEF Restart, Quiet, Typed, TypeOK
<1>12. CASE UNCHANGED vars
  BY <1>0, <1>12 DEF vars, Typed, TypeOK
<1> QED
  BY <1>1, <1>2, <1>3, <1>4, <1>5, <1>6, <1>7, <1>8, <1>9, <1>10, <1>11, <1>12
     DEF Next, Dispatch, Sync

\* Every variable of the friend's client keeps its type, and what it shows is
\* a status that a user can have, whatever order values arrive in.
THEOREM PresenceTypes == Spec => []TypeOK
<1>1. Typed => TypeOK
  BY DEF Typed
<1> QED
  BY <1>1, InitTyped, StepTyped, PTL DEF Spec

-----------------------------------------------------------------------------
(* Watches.                                                                *)

\* A record that is not watched is polled, about to be dealt with by the
\* dispatch loop, or taken for new by the sync loop.
NotForgotten ==
    attached /\ {"silent", "unopened", "unready"} \cap mishaps = {}
        => watch \/ unwatched \/ ended \/ ~keyed

\* The safety half of WatchReturns: no watch is forgotten, in whatever order the
\* network ends and refuses watches, the node detaches and attaches, the client
\* restarts, and the two loops set watches up (watch_friend, try_rewatch_friend,
\* invalidate_all_watches, sync_friends).
THEOREM NoWatchForgotten == Spec => []NotForgotten
<1>1. Init => NotForgotten
  BY DEF Init, NotForgotten
<1>2. Typed /\ NotForgotten /\ [Next]_vars => NotForgotten'
  <2> SUFFICES ASSUME Typed, NotForgotten, [Next]_vars PROVE NotForgotten'
    OBVIOUS
  <2>0. TypeOK /\ mishaps \subseteq MishapKinds
    BY DEF Typed, TypeOK
  <2> USE DEF user, node, state, loop, tasks, NotForgotten
  <2>1. CASE HandleEnd
    BY <2>0, <2>1, WatchTypes DEF HandleEnd
  <2>2. CASE SyncWatch
    <3>1. CASE keyed /\ ~unwatched
      BY <2>2, <3>1 DEF SyncWatch
    <3>2. CASE ~(keyed /\ ~unwatched)
      BY <2>0, <2>2, <3>2, WatchTypes DEF SyncWatch
    <3> QED
      BY <3>1, <3>2
  <2>3. CASE WatchEnds \/ Detach \/ Attach \/ Restart
    BY <2>0, <2>3, MishapTypes DEF WatchEnds, Detach, Attach, Restart
  <2>4. CASE HandleNews \/ SyncRead
    BY <2>0, <2>4, MishapTypes DEF HandleNews, SyncRead
  <2>5. CASE UserActs \/ UserExpires \/ FriendExpires \/ HandleStatus \/ SyncStatus \/ SyncCheck
    BY <2>5 DEF UserActs, UserExpires, FriendExpires, HandleStatus, SyncStatus, SyncCheck
  <2>6. CASE UNCHANGED vars
    BY <2>6 DEF vars
  <2> QED
    BY <2>1, <2>2, <2>3, <2>4, <2>5, <2>6 DEF Next, Dispatch, Sync
<1> QED
  BY <1>1, <1>2, InitTyped, StepTyped, PTL DEF Spec
=============================================================================
