---------------------------- MODULE ProfileStatus ----------------------------
(***************************************************************************)
(* What a user's client promises to those who watch its profile: the       *)
(* status in subkey 2 of ONE profile record and the age of its timestamp.  *)
(* Module PresencePublisher implements it, and in module FriendPresence it *)
(* is all that a friend's client knows of the user.                        *)
(*                                                                         *)
(* A status comes with a timestamp that is "fresh" or, after               *)
(* STALE_PRESENCE_THRESHOLD_MS, "stale"; the one byte written at login has *)
(* none.                                                                   *)
(***************************************************************************)

VARIABLES
    record,  \* subkey 2 of the profile
    owner    \* "gone", "here", "leaving", or "kept": here, and its heartbeat goes through

Statuses == {"online", "away", "busy", "offline"}
Ages == {"none", "fresh", "stale"}
Owners == {"gone", "here", "kept", "leaving"}

Unset == [status |-> "offline", ts |-> "none"]
Announced == [status |-> "online", ts |-> "none"]
Stamped(s) == [status |-> s, ts |-> "fresh"]
Aged(v) == IF v.ts = "fresh" THEN [v EXCEPT !.ts = "stale"] ELSE v

Init == record = Unset /\ owner = "gone"

\* One comes back by logging in, and in no other way.
Moves == owner' \in IF owner = "gone" THEN {"gone", "here"} ELSE Owners

Move == Moves /\ UNCHANGED record

\* Only the client of a present user writes, always a state of that user.
Write ==
    /\ owner # "gone" /\ Moves
    /\ \/ record' = Announced
       \/ \E s \in Statuses : record' = Stamped(s)

\* Time passes; the heartbeat keeps the timestamp fresh.
Expire ==
    /\ owner # "kept" /\ record.ts = "fresh"
    /\ record' = Aged(record) /\ UNCHANGED owner

Next == Move \/ Write \/ Expire

Spec == Init /\ [][Next]_<<record, owner>>
        /\ WF_<<record, owner>>(owner = "gone" /\ Expire)
=============================================================================
