----------------------------- MODULE Friendship -----------------------------
(***************************************************************************)
(* Two clients of Rekindle that become friends, stop being friends, block  *)
(* each other, and the Signal session that comes with a friendship         *)
(* (src-tauri: commands/friends.rs, services/message_service.rs, the retry *)
(* loop of services/sync_service.rs; rekindle-crypto: signal/session.rs).  *)
(*                                                                         *)
(* friend[c], row[c], ... are what client c keeps about its peer.  The     *)
(* dispatch loop of a client handles one message after the other; where a  *)
(* handler awaits between reading friend[c] and acting on it, commands of  *)
(* the user may come in between: task[c] is the handler that is under way. *)
(*                                                                         *)
(* Keys are terms.  X3DH of an initiator with bundle number n of its peer  *)
(* and its nth ephemeral key is [by, bundle, nth]; the responder computes  *)
(* it with the prekeys it holds NOW: generate_prekey_bundle(1, Some(1))    *)
(* stores every new bundle under the same ids.                             *)
(*                                                                         *)
(* Messages in flight and rows of pending_messages are sets: a message may *)
(* be lost, doubled or overtaken.  The ratchet is not modelled.            *)
(***************************************************************************)
EXTENDS Integers

CONSTANTS
    Client,       \* the two clients
    Commands,     \* kinds of command the users give
    Overlap,      \* may a command come between the two steps of a handler?
    MaxCommands,  \* bound: commands given
    Mishaps,      \* kinds of mishap that happen
    MaxMishaps    \* bound: mishaps

CommandKinds == {"AddFriend", "GenerateInvite", "AddFriendFromInvite", "AcceptRequest",
                 "RejectRequest", "CancelRequest", "RemoveFriend", "BlockUser", "UnblockUser"}
MishapKinds == {"lost", "doubled", "misreported", "given up", "expired", "restart"}

ASSUME ClientAssumption == \E a, b \in Client : a # b /\ Client = {a, b}
ASSUME KindAssumption == Commands \subseteq CommandKinds /\ Mishaps \subseteq MishapKinds
ASSUME OverlapAssumption == Overlap \in BOOLEAN
ASSUME FriendshipBounds == MaxCommands \in Nat /\ MaxMishaps \in Nat

VARIABLES
    \* --- AppState, in memory, lost at a restart
    friend,      \* friends[peer].friendship_state
    task,        \* the handler under way in the dispatch loop
    prekey,      \* number of the bundle whose keys are in the prekey store
    one_time,    \* is its one-time prekey still there?
    session,     \* root key of the Signal session with the peer
    ephemerals,  \* ephemeral keys made so far
    \* --- SQLite
    row,         \* friends.friendship_state
    request,     \* pending_friend_requests: the bundle that came with it
    blocked,     \* blocked_users
    queue,       \* pending_messages
    \* --- the network and the users
    net,         \* messages in flight to the client
    invite,      \* bundle in the invite link of the client
    asked,       \* observed: clients whose user has ever asked for or accepted the friendship
    willing,     \* observed: those of them who have not ended it since
    commands, mishaps

keys  == <<prekey, one_time, session, ephemerals>>
disk  == <<row, request, blocked, queue>>
links == <<net, invite>>
users == <<asked, willing>>
vars  == <<friend, task, keys, disk, links, users, commands, mishaps>>

Peer(c) == CHOOSE p \in Client : p # c

-----------------------------------------------------------------------------
(* Types.                                                                  *)

FriendshipState == {"none", "pending_out", "accepted", "removing"}
NoBundle == 0
Key == [by : Client \cup {"nobody"}, bundle : Nat, nth : Nat]
NoKey == [by |-> "nobody", bundle |-> NoBundle, nth |-> 0]

Plain(kind)      == [kind |-> kind, bundle |-> NoBundle, key |-> NoKey]
FriendRequest(n) == [kind |-> "FriendRequest", bundle |-> n, key |-> NoKey]
FriendAccept(k)  == [kind |-> "FriendAccept", bundle |-> NoBundle, key |-> k]
MessageKind == {"FriendRequest", "FriendAccept", "FriendReject", "Unfriended", "UnfriendedAck"}
Message == [kind : MessageKind, bundle : Nat, key : Key]

Pc == {"idle", "cross", "persist", "readd", "reject", "unfriend"}
Idle == [pc |-> "idle", bundle |-> NoBundle]

Init ==
    /\ friend = [c \in Client |-> "none"] /\ task = [c \in Client |-> Idle]
    /\ prekey = [c \in Client |-> 1] /\ one_time = [c \in Client |-> TRUE]
    /\ session = [c \in Client |-> NoKey] /\ ephemerals = [c \in Client |-> 0]
    /\ row = [c \in Client |-> "none"] /\ request = [c \in Client |-> NoBundle]
    /\ blocked = [c \in Client |-> FALSE] /\ queue = [c \in Client |-> {}]
    /\ net = [c \in Client |-> {}] /\ invite = [c \in Client |-> NoBundle]
    /\ asked = {} /\ willing = {}
    /\ commands = 0 /\ mishaps = 0

Mishap(kind) == kind \in Mishaps /\ mishaps < MaxMishaps /\ mishaps' = mishaps + 1

Command(c, kind) ==
    /\ kind \in Commands
    /\ Overlap \/ task[c].pc = "idle"
    /\ commands < MaxCommands /\ commands' = commands + 1

Consent(c)  == asked' = asked \cup {c} /\ willing' = willing \cup {c}
Withdraw(c) == asked' = asked /\ willing' = willing \ {c}

-----------------------------------------------------------------------------
(* Sending.                                                                *)

Flies(c, m) == net' = [net EXCEPT ![Peer(c)] = @ \cup {m}]

\* send_envelope_to_peer, rows being the client's queue otherwise: without a
\* route or with a failed send the message is queued; a send may be reported
\* as failed although it was carried out.
Send(c, m, rows) ==
    \/ Flies(c, m) /\ queue' = [queue EXCEPT ![c] = rows] /\ UNCHANGED mishaps
    \/ queue' = [queue EXCEPT ![c] = rows \cup {m}] /\ UNCHANGED <<net, mishaps>>
    \/ Flies(c, m) /\ queue' = [queue EXCEPT ![c] = rows \cup {m}] /\ Mishap("misreported")

\* generate_prekey_bundle(1, Some(1)).
NewBundle(c) ==
    /\ prekey' = [prekey EXCEPT ![c] = @ + 1]
    /\ one_time' = [one_time EXCEPT ![c] = TRUE]

SendFriendRequest(c) ==
    /\ NewBundle(c)
    /\ Send(c, FriendRequest(prekey[c] + 1), queue[c])

\* delete_session and establish_session with the peer's bundle n.
NextKey(c, n) == [by |-> c, bundle |-> n, nth |-> ephemerals[c] + 1]
Establish(c, n) ==
    /\ session' = [session EXCEPT ![c] = NextKey(c, n)]
    /\ ephemerals' = [ephemerals EXCEPT ![c] = @ + 1]

\* The FriendAccept carries the ephemeral key, and a bundle of which only the
\* identity key is used.
SendFriendAccept(c, n) ==
    /\ Establish(c, n)
    /\ NewBundle(c)
    /\ Send(c, FriendAccept(NextKey(c, n)), queue[c])

-----------------------------------------------------------------------------
(* Commands of the user (commands/friends.rs).                             *)

\* Variant: the row is inserted with the column's default.
AddFriendByDefault(c) ==
    /\ Command(c, "AddFriend") /\ ~blocked[c]
    /\ row' = [row EXCEPT ![c] = IF @ = "none" THEN "accepted" ELSE @]
    /\ friend' = [friend EXCEPT ![c] = "pending_out"]
    /\ SendFriendRequest(c)
    /\ Consent(c)
    /\ UNCHANGED <<task, session, ephemerals, request, blocked, invite>>

\* An existing row is left alone (INSERT OR IGNORE), the entry in memory is
\* replaced.
AddFriend(c) ==
    /\ Command(c, "AddFriend") /\ ~blocked[c]
    /\ row' = [row EXCEPT ![c] = IF @ = "none" THEN "pending_out" ELSE @]
    /\ friend' = [friend EXCEPT ![c] = "pending_out"]
    /\ SendFriendRequest(c)
    /\ Consent(c)
    /\ UNCHANGED <<task, session, ephemerals, request, blocked, invite>>

GenerateInvite(c) ==
    /\ Command(c, "GenerateInvite")
    /\ NewBundle(c)
    /\ invite' = [invite EXCEPT ![c] = prekey[c] + 1]
    /\ UNCHANGED <<friend, task, session, ephemerals, disk, net, users, mishaps>>

\* The session is established at once, its ephemeral key is not sent.
AddFriendFromInvite(c) ==
    /\ Command(c, "AddFriendFromInvite") /\ ~blocked[c] /\ invite[Peer(c)] # NoBundle
    /\ row' = [row EXCEPT ![c] = "pending_out"]
    /\ friend' = [friend EXCEPT ![c] = "pending_out"]
    /\ Establish(c, invite[Peer(c)])
    /\ SendFriendRequest(c)
    /\ Consent(c)
    /\ UNCHANGED <<task, request, blocked, invite>>

\* The user answers a request that is shown.  Again INSERT OR IGNORE; a new
\* row is 'accepted'.
AcceptRequest(c) ==
    /\ Command(c, "AcceptRequest") /\ request[c] # NoBundle
    /\ row' = [row EXCEPT ![c] = IF @ = "none" THEN "accepted" ELSE @]
    /\ request' = [request EXCEPT ![c] = NoBundle]
    /\ friend' = [friend EXCEPT ![c] = "accepted"]
    /\ SendFriendAccept(c, request[c])
    /\ Consent(c)
    /\ UNCHANGED <<task, blocked, invite>>

RejectRequest(c) ==
    /\ Command(c, "RejectRequest") /\ request[c] # NoBundle
    /\ request' = [request EXCEPT ![c] = NoBundle]
    /\ Send(c, Plain("FriendReject"), queue[c])
    /\ UNCHANGED <<friend, task, keys, row, blocked, invite, users>>

CancelRequest(c) ==
    /\ Command(c, "CancelRequest") /\ friend[c] = "pending_out"
    /\ row' = [row EXCEPT ![c] = "none"]
    /\ friend' = [friend EXCEPT ![c] = "none"]
    /\ Withdraw(c)
    /\ UNCHANGED <<task, keys, request, blocked, queue, links, mishaps>>

\* Common to remove_friend and its variants: an entry that is Removing is not
\* shown; whether or not the first send succeeds, the message is queued too.
SendUnfriended(c) ==
    /\ Command(c, "RemoveFriend") /\ friend[c] \in {"pending_out", "accepted"}
    /\ Send(c, Plain("Unfriended"), queue[c] \cup {Plain("Unfriended")})
    /\ friend' = [friend EXCEPT ![c] = "removing"]
    /\ Withdraw(c)
    /\ UNCHANGED <<task, keys, blocked, invite>>

\* Variant: the row is left to the task that ends the grace period.
RemoveFriendInMemory(c) ==
    /\ SendUnfriended(c)
    /\ UNCHANGED <<row, request>>

RemoveFriend(c) ==
    /\ SendUnfriended(c)
    /\ row' = [row EXCEPT ![c] = "none"]
    /\ request' = [request EXCEPT ![c] = NoBundle]

\* The end of the grace period of remove_friend.
GraceEnds(c) ==
    /\ friend[c] = "removing"
    /\ friend' = [friend EXCEPT ![c] = "none"]
    /\ session' = [session EXCEPT ![c] = NoKey]
    /\ UNCHANGED <<task, prekey, one_time, ephemerals, disk, links, users, commands, mishaps>>

\* Variant: a request that is waiting for an answer is kept.
BlockFriendOnly(c) ==
    /\ Command(c, "BlockUser")
    /\ row' = [row EXCEPT ![c] = "none"] /\ blocked' = [blocked EXCEPT ![c] = TRUE]
    /\ queue' = [queue EXCEPT ![c] = {}]
    /\ friend' = [friend EXCEPT ![c] = "none"] /\ session' = [session EXCEPT ![c] = NoKey]
    /\ NewBundle(c) /\ Withdraw(c)
    /\ UNCHANGED <<task, ephemerals, request, links, mishaps>>

\* rotate_profile_key generates a bundle, too.
BlockUser(c) ==
    /\ Command(c, "BlockUser")
    /\ row' = [row EXCEPT ![c] = "none"] /\ request' = [request EXCEPT ![c] = NoBundle]
    /\ blocked' = [blocked EXCEPT ![c] = TRUE]
    /\ queue' = [queue EXCEPT ![c] = {}]
    /\ friend' = [friend EXCEPT ![c] = "none"] /\ session' = [session EXCEPT ![c] = NoKey]
    /\ NewBundle(c) /\ Withdraw(c)
    /\ UNCHANGED <<task, ephemerals, links, mishaps>>

UnblockUser(c) ==
    /\ Command(c, "UnblockUser") /\ blocked[c]
    /\ blocked' = [blocked EXCEPT ![c] = FALSE]
    /\ UNCHANGED <<friend, task, keys, row, request, queue, links, users, mishaps>>

-----------------------------------------------------------------------------
(* The dispatch loop (handle_incoming_message).                            *)

Goto(c, pc, n) == task' = [task EXCEPT ![c] = [pc |-> pc, bundle |-> n]]
Done(c) == task' = [task EXCEPT ![c] = Idle]

\* A message leaves the network; it may be delivered a second time.
Take(c, m) ==
    /\ task[c].pc = "idle" /\ m \in net[c]
    /\ \/ net' = [net EXCEPT ![c] = @ \ {m}] /\ UNCHANGED mishaps
       \/ Mishap("doubled") /\ UNCHANGED net
    /\ UNCHANGED <<invite, users, commands>>

\* is_blocked, and the filter: of a non-friend only some kinds are accepted.
Passes(c, m) == ~blocked[c] /\ (m.kind = "FriendAccept" => friend[c] # "none")

ReceiveNothing(c, m) ==
    /\ Take(c, m) /\ ~Passes(c, m)
    /\ UNCHANGED <<friend, task, keys, disk>>

\* handle_friend_request_full up to its first await.
ReceiveFriendRequest(c, m) ==
    /\ m.kind = "FriendRequest" /\ Take(c, m) /\ Passes(c, m)
    /\ \/ friend[c] = "none" /\ Goto(c, "persist", m.bundle) /\ UNCHANGED friend
       \/ friend[c] = "pending_out" /\ Goto(c, "cross", m.bundle) /\ UNCHANGED friend
       \/ /\ friend[c] \in {"accepted", "removing"}
          /\ Goto(c, "readd", m.bundle) /\ friend' = [friend EXCEPT ![c] = "none"]
    /\ UNCHANGED <<keys, disk>>

\* persist_friend_request; the FriendRequestReceived that is sent back only
\* shows a notification.
PersistRequest(c) ==
    /\ task[c].pc \in {"persist", "readd"}
    /\ row' = IF task[c].pc = "readd" THEN [row EXCEPT ![c] = "none"] ELSE row
    /\ request' = [request EXCEPT ![c] = task[c].bundle]
    /\ Done(c)
    /\ UNCHANGED <<friend, keys, blocked, queue, links, users, commands, mishaps>>

\* auto_accept_cross_request.
AutoAccept(c) ==
    /\ task[c].pc = "cross"
    /\ request' = [request EXCEPT ![c] = NoBundle]
    /\ friend' = [friend EXCEPT ![c] = IF @ = "none" THEN @ ELSE "accepted"]
    /\ row' = [row EXCEPT ![c] = IF @ = "none" THEN @ ELSE "accepted"]
    /\ SendFriendAccept(c, task[c].bundle)
    /\ Done(c)
    /\ UNCHANGED <<blocked, invite, users, commands>>

\* handle_friend_accept: without the one-time prekey the session that was
\* there is deleted and no other one takes its place.
Respond(c, k) ==
    /\ session' = [session EXCEPT ![c] = IF one_time[c] THEN [k EXCEPT !.bundle = prekey[c]] ELSE NoKey]
    /\ one_time' = [one_time EXCEPT ![c] = FALSE]

BecomeFriends(c, m) ==
    /\ Respond(c, m.key)
    /\ friend' = [friend EXCEPT ![c] = "accepted"]
    /\ row' = [row EXCEPT ![c] = IF @ = "none" THEN @ ELSE "accepted"]

\* Variant: a friend who is being removed may still accept.
ReceiveFriendAcceptAnyway(c, m) ==
    /\ m.kind = "FriendAccept" /\ Take(c, m) /\ Passes(c, m)
    /\ BecomeFriends(c, m)
    /\ UNCHANGED <<task, prekey, ephemerals, request, blocked, queue>>

\* handle_friend_accept_full.
ReceiveFriendAccept(c, m) ==
    /\ m.kind = "FriendAccept" /\ Take(c, m) /\ Passes(c, m)
    /\ \/ friend[c] = "removing" /\ UNCHANGED <<friend, row, session, one_time>>
       \/ friend[c] # "removing" /\ BecomeFriends(c, m)
    /\ UNCHANGED <<task, prekey, ephemerals, request, blocked, queue>>

\* handle_friend_reject: the row first, the entry in memory after an await.
ReceiveFriendReject(c, m) ==
    /\ m.kind = "FriendReject" /\ Take(c, m) /\ Passes(c, m)
    /\ \/ friend[c] = "pending_out" /\ Goto(c, "reject", NoBundle) /\ row' = [row EXCEPT ![c] = "none"]
       \/ friend[c] # "pending_out" /\ UNCHANGED <<task, row>>
    /\ UNCHANGED <<friend, keys, request, blocked, queue>>

ForgetRejected(c) ==
    /\ task[c].pc = "reject"
    /\ friend' = [friend EXCEPT ![c] = "none"]
    /\ Done(c)
    /\ UNCHANGED <<keys, disk, links, users, commands, mishaps>>

\* handle_unfriended up to the acknowledgement ...
ReceiveUnfriended(c, m) ==
    /\ m.kind = "Unfriended" /\ Take(c, m) /\ Passes(c, m)
    /\ \/ /\ friend[c] \in {"pending_out", "accepted"}
          /\ Goto(c, "unfriend", NoBundle)
          /\ row' = [row EXCEPT ![c] = "none"] /\ request' = [request EXCEPT ![c] = NoBundle]
          /\ queue' = [queue EXCEPT ![c] = {}]
       \/ friend[c] \in {"none", "removing"} /\ UNCHANGED <<task, row, request, queue>>
    /\ UNCHANGED <<friend, keys, blocked>>

\* ... and from there on.
ForgetUnfriended(c) ==
    /\ task[c].pc = "unfriend"
    /\ Send(c, Plain("UnfriendedAck"), queue[c])
    /\ friend' = [friend EXCEPT ![c] = "none"]
    /\ Done(c)
    /\ UNCHANGED <<keys, row, request, blocked, invite, users, commands>>

\* handle_unfriended_ack deletes every queued message to that peer.
ReceiveUnfriendedAck(c, m) ==
    /\ m.kind = "UnfriendedAck" /\ Take(c, m) /\ Passes(c, m)
    /\ queue' = [queue EXCEPT ![c] = {}]
    /\ UNCHANGED <<friend, task, keys, row, request, blocked>>

-----------------------------------------------------------------------------
(* sync_service, the network, restarts.                                    *)

\* retry_pending_dm: a send that succeeds ends the row; if its deletion fails
\* or the send is reported as failed, the row stays.
Retry(c, m) ==
    /\ m \in queue[c] /\ Flies(c, m)
    /\ \/ queue' = [queue EXCEPT ![c] = @ \ {m}] /\ UNCHANGED mishaps
       \/ Mishap("misreported") /\ UNCHANGED queue
    /\ UNCHANGED <<friend, task, keys, row, request, blocked, invite, users, commands>>

\* The row has reached its twentieth retry.
GiveUp(c, m) ==
    /\ m \in queue[c] /\ Mishap("given up")
    /\ queue' = [queue EXCEPT ![c] = @ \ {m}]
    /\ UNCHANGED <<friend, task, keys, row, request, blocked, links, users, commands>>

\* app_message does not arrive.
Lose(c, m) ==
    /\ m \in net[c] /\ Mishap("lost")
    /\ net' = [net EXCEPT ![c] = @ \ {m}]
    /\ UNCHANGED <<friend, task, keys, disk, invite, users, commands>>

\* expire_stale_requests: what is thirty days old, the incoming request or the
\* outgoing one.
ExpireStaleRequests(c) ==
    /\ Mishap("expired")
    /\ request' \in {request, [request EXCEPT ![c] = NoBundle]}
    /\ \/ row[c] = "pending_out" /\ row' = [row EXCEPT ![c] = "none"] /\ friend' = [friend EXCEPT ![c] = "none"]
       \/ UNCHANGED <<row, friend>>
    /\ UNCHANGED <<task, keys, blocked, queue, links, users, commands>>

\* Logout or exit, and login: friends are loaded from SQLite, the Signal
\* stores start empty with a new bundle.
Restart(c) ==
    /\ Mishap("restart")
    /\ friend' = [friend EXCEPT ![c] = row[c]] /\ Done(c)
    /\ session' = [session EXCEPT ![c] = NoKey]
    /\ NewBundle(c)
    /\ UNCHANGED <<ephemerals, disk, links, users, commands>>

UserCommand(c) ==
    \/ AddFriend(c) \/ GenerateInvite(c) \/ AddFriendFromInvite(c) \/ AcceptRequest(c)
    \/ RejectRequest(c) \/ CancelRequest(c) \/ RemoveFriend(c) \/ BlockUser(c) \/ UnblockUser(c)

Receive(c, m) ==
    \/ ReceiveNothing(c, m) \/ ReceiveFriendRequest(c, m) \/ ReceiveFriendAccept(c, m)
    \/ ReceiveFriendReject(c, m) \/ ReceiveUnfriended(c, m) \/ ReceiveUnfriendedAck(c, m)

Handle(c) == PersistRequest(c) \/ AutoAccept(c) \/ ForgetRejected(c) \/ ForgetUnfriended(c)

Deliver(c) == \E m \in net[c] : Receive(c, m)
Resend(c)  == \E m \in queue[c] : Retry(c, m)

Next == \E c \in Client :
    \/ UserCommand(c) \/ GraceEnds(c)
    \/ Deliver(c) \/ Handle(c) \/ Resend(c)
    \/ \E m \in queue[c] : GiveUp(c, m)
    \/ \E m \in net[c] : Lose(c, m)
    \/ ExpireStaleRequests(c) \/ Restart(c)

Spec == Init /\ [][Next]_vars

\* A message that is not lost arrives, the dispatch loop runs its handlers to
\* the end, the sync loop retries what is queued.
Fairness == \A c \in Client : WF_vars(Deliver(c)) /\ WF_vars(Handle(c)) /\ WF_vars(Resend(c))

FairSpec == Spec /\ Fairness
-----------------------------------------------------------------------------
(* Properties.                                                             *)

\* What AppState, the tables and the network hold has the type of the code.
TypeOK ==
    /\ friend \in [Client -> FriendshipState]
    /\ task \in [Client -> [pc : Pc, bundle : Nat]]
    /\ prekey \in [Client -> Nat] /\ one_time \in [Client -> BOOLEAN]
    /\ session \in [Client -> Key] /\ ephemerals \in [Client -> Nat]
    /\ row \in [Client -> FriendshipState \ {"removing"}]
    /\ request \in [Client -> Nat] /\ blocked \in [Client -> BOOLEAN]
    /\ queue \in [Client -> SUBSET Message] /\ net \in [Client -> SUBSET Message]
    /\ invite \in [Client -> Nat]
    /\ asked \subseteq Client /\ willing \subseteq asked
    /\ commands \in 0..MaxCommands /\ mishaps \in 0..MaxMishaps

\* Nobody is a friend, in memory or after a restart, unless both users have
\* asked for it or accepted it, and one's own user has not ended it since: not
\* by a message that was delayed, doubled or crossed another one
\* (handle_friend_accept_full, auto_accept_cross_request, load_friends_from_db).
MutualConsent ==
    \A c \in Client : "accepted" \in {friend[c], row[c]} => asked = Client /\ c \in willing

\* A friend who was removed or blocked, or whose request was rejected or
\* cancelled, does not come back at the next login, and a friend who is shown
\* is still there after it (remove_friend: "permanent - friend won't reappear
\* on restart").
RestartKeepsFriends ==
    \A c \in Client : task[c].pc = "idle" =>
        (row[c] = "none" <=> friend[c] \in {"none", "removing"})

\* Someone who is blocked is neither a friend nor the author of a request that
\* waits for an answer (block_user, is_blocked in the dispatch).
BlockedStaysOut ==
    \A c \in Client : blocked[c] /\ task[c].pc = "idle" =>
        friend[c] = "none" /\ row[c] = "none" /\ request[c] = NoBundle

\* Once a friendship has ended it takes a command of the user, or a login that
\* finds an accepted row, to begin another: no message revives it
\* (handle_friend_accept_full ignores a friend who is being removed).
RemovalSticks ==
    [][\A c \in Client :
         friend[c] \in {"none", "removing"} /\ friend'[c] = "accepted" =>
            commands' # commands \/ row[c] = "accepted"]_vars

Quiet == \A c \in Client : task[c].pc = "idle" /\ net[c] = {} /\ queue[c] = {}

\* When two friends have nothing left to tell each other, they share a key
\* (handle_friend_accept: "derive a matching shared secret").
SessionsMatch ==
    Quiet /\ (\A c \in Client : friend[c] = "accepted")
        => \A c \in Client : session[c] = session[Peer(c)] /\ session[c] # NoKey
-----------------------------------------------------------------------------
(* Inductive strengthening of the invariants, for Overlap = FALSE.         *)

\* Whoever waits or is a friend has agreed, whoever is known to have written
\* has asked, and a message that asks or agrees comes from someone who did.
Consented ==
    \A c \in Client :
        /\ friend[c] \in {"pending_out", "accepted"} \/ row[c] # "none" => c \in willing
        /\ "accepted" \in {friend[c], row[c]} => Peer(c) \in asked
        /\ request[c] # NoBundle => Peer(c) \in asked
        /\ task[c].pc \in {"cross", "persist", "readd"} => Peer(c) \in asked
        /\ task[c].pc = "cross" => c \in asked

Speaks(m) == m.kind \in {"FriendRequest", "FriendAccept"}
Carried ==
    \A c \in Client : /\ \A m \in net[c] : Speaks(m) => Peer(c) \in asked
                      /\ \A m \in queue[c] : Speaks(m) => c \in asked

\* How far memory and row may differ while a handler is under way.
RowFollows ==
    \A c \in Client :
        /\ task[c].pc = "idle" => (row[c] = "none" <=> friend[c] \in {"none", "removing"})
        /\ task[c].pc = "cross" => friend[c] # "removing" /\ (row[c] = "none" <=> friend[c] = "none")
        /\ task[c].pc \in {"persist", "readd"} => friend[c] = "none"
        /\ task[c].pc \in {"persist", "reject", "unfriend"} => row[c] = "none"

\* A client handles no message of someone who is blocked.
BlockedQuiet ==
    \A c \in Client : blocked[c] =>
        task[c].pc = "idle" /\ friend[c] = "none" /\ row[c] = "none" /\ request[c] = NoBundle

FriendInv == Consented /\ Carried /\ RowFollows /\ BlockedQuiet
=============================================================================
