-------------------------- MODULE FriendshipProofs --------------------------
(***************************************************************************)
(* Friendship for any number of commands and mishaps: types, and, when the *)
(* user's commands do not come between the steps of a handler, consent,    *)
(* the agreement of memory and rows, blocking and removal.                 *)
(***************************************************************************)
EXTENDS Friendship, TLAPS

-----------------------------------------------------------------------------
(* Clients, messages, and the parts actions are made of.                   *)

\* There is exactly one other client.
LEMMA PeerIsOther ==
    \A c \in Client : /\ Peer(c) \in Client /\ Peer(c) # c /\ Peer(Peer(c)) = c
                      /\ \A d \in Client : d = c \/ d = Peer(c)
<1> SUFFICES ASSUME NEW c \in Client
             PROVE  /\ Peer(c) \in Client /\ Peer(c) # c /\ Peer(Peer(c)) = c
                    /\ \A d \in Client : d = c \/ d = Peer(c)
  OBVIOUS
<1>1. PICK a, b \in Client : a # b /\ Client = {a, b}
  BY ClientAssumption
<1>2. \A x \in Client : Peer(x) \in Client /\ Peer(x) # x
  BY <1>1 DEF Peer
<1> QED
  BY <1>1, <1>2

LEMMA MessageTypes ==
    /\ NoBundle \in Nat /\ NoKey \in Key /\ Idle \in [pc : Pc, bundle : Nat]
    /\ \A kind \in MessageKind : Plain(kind) \in Message
    /\ \A n \in Nat : FriendRequest(n) \in Message
    /\ \A k \in Key : FriendAccept(k) \in Message
BY DEF NoBundle, NoKey, Key, Plain, FriendRequest, FriendAccept, Message, MessageKind, Idle, Pc

LEMMA CommandTypes ==
    ASSUME TypeOK, NEW c \in Client, NEW kind, Command(c, kind)
    PROVE  commands' \in 0..MaxCommands /\ commands' # commands
BY FriendshipBounds DEF TypeOK, Command

LEMMA MishapTypes ==
    ASSUME TypeOK, NEW kind, Mishap(kind)
    PROVE  mishaps' \in 0..MaxMishaps
BY FriendshipBounds DEF TypeOK, Mishap

\* What a send adds to the network and leaves in the queue.
LEMMA SendTypes ==
    ASSUME TypeOK, NEW c \in Client, NEW m \in Message, NEW rows \in SUBSET Message,
           Send(c, m, rows)
    PROVE  /\ net' \in [Client -> SUBSET Message] /\ queue' \in [Client -> SUBSET Message]
           /\ mishaps' \in 0..MaxMishaps
           /\ \A d \in Client : /\ net'[d] \subseteq IF d = c THEN net[d] ELSE net[d] \cup {m}
                                /\ queue'[d] \subseteq IF d = c THEN rows \cup {m} ELSE queue[d]
<1>1. net \in [Client -> SUBSET Message] /\ queue \in [Client -> SUBSET Message]
      /\ mishaps \in 0..MaxMishaps
  BY DEF TypeOK
<1>2. /\ UNCHANGED net \/ Flies(c, m)
      /\ \/ queue' = [queue EXCEPT ![c] = rows]
         \/ queue' = [queue EXCEPT ![c] = rows \cup {m}]
      /\ UNCHANGED mishaps \/ Mishap("misreported")
  BY DEF Send
<1>3. mishaps' \in 0..MaxMishaps
  BY <1>1, <1>2, MishapTypes
<1>4. /\ net' \in [Client -> SUBSET Message]
      /\ \A d \in Client : net'[d] \subseteq IF d = c THEN net[d] ELSE net[d] \cup {m}
  BY <1>1, <1>2, PeerIsOther DEF Flies
<1>5. /\ queue' \in [Client -> SUBSET Message]
      /\ \A d \in Client : queue'[d] \subseteq IF d = c THEN rows \cup {m} ELSE queue[d]
  <2>1. CASE queue' = [queue EXCEPT ![c] = rows]
    BY <1>1, <2>1
  <2>2. CASE queue' = [queue EXCEPT ![c] = rows \cup {m}]
    BY <1>1, <2>2
  <2> QED
    BY <1>2, <2>1, <2>2
<1> QED
  BY <1>3, <1>4, <1>5

LEMMA BundleTypes ==
    ASSUME TypeOK, NEW c \in Client, NewBundle(c)
    PROVE  prekey' \in [Client -> Nat] /\ one_time' \in [Client -> BOOLEAN]
           /\ prekey[c] + 1 \in Nat
BY DEF TypeOK, NewBundle

LEMMA EstablishTypes ==
    ASSUME TypeOK, NEW c \in Client, NEW n \in Nat, Establish(c, n)
    PROVE  /\ NextKey(c, n) \in Key
           /\ session' \in [Client -> Key] /\ ephemerals' \in [Client -> Nat]
<1>1. NextKey(c, n) \in Key
  BY DEF TypeOK, NextKey, Key
<1> QED
  BY <1>1 DEF TypeOK, Establish

LEMMA ConsentTypes ==
    ASSUME TypeOK, NEW c \in Client, Consent(c) \/ Withdraw(c)
    PROVE  /\ asked' \subseteq Client /\ willing' \subseteq asked'
           /\ asked \subseteq asked' /\ willing \ {c} \subseteq willing'
BY DEF TypeOK, Consent, Withdraw

\* Types of what a client writes when it asks or answers.
LEMMA RequestSent ==
    ASSUME TypeOK, NEW c \in Client, SendFriendRequest(c)
    PROVE  /\ prekey' \in [Client -> Nat] /\ one_time' \in [Client -> BOOLEAN]
           /\ net' \in [Client -> SUBSET Message] /\ queue' \in [Client -> SUBSET Message]
           /\ mishaps' \in 0..MaxMishaps
<1>1. FriendRequest(prekey[c] + 1) \in Message /\ queue[c] \in SUBSET Message
  BY BundleTypes, MessageTypes DEF SendFriendRequest, TypeOK
<1> QED
  BY <1>1, BundleTypes, SendTypes DEF SendFriendRequest

LEMMA AcceptSent ==
    ASSUME TypeOK, NEW c \in Client, NEW n \in Nat, SendFriendAccept(c, n)
    PROVE  /\ prekey' \in [Client -> Nat] /\ one_time' \in [Client -> BOOLEAN]
           /\ session' \in [Client -> Key] /\ ephemerals' \in [Client -> Nat]
           /\ net' \in [Client -> SUBSET Message] /\ queue' \in [Client -> SUBSET Message]
           /\ mishaps' \in 0..MaxMishaps
<1>1. Establish(c, n) /\ NewBundle(c) /\ Send(c, FriendAccept(NextKey(c, n)), queue[c])
  BY DEF SendFriendAccept
<1>2. FriendAccept(NextKey(c, n)) \in Message /\ queue[c] \in SUBSET Message
  BY <1>1, EstablishTypes, MessageTypes DEF TypeOK
<1> QED
  BY <1>1, <1>2, EstablishTypes, BundleTypes, SendTypes
-----------------------------------------------------------------------------
(* Types.                                                                  *)

LEMMA TypeInit == Init => TypeOK
BY FriendshipBounds, MessageTypes DEF Init, TypeOK, FriendshipState

LEMMA RequestCommandTypes ==
    ASSUME TypeOK, NEW c \in Client,
           AddFriend(c) \/ GenerateInvite(c) \/ AddFriendFromInvite(c) \/ AcceptRequest(c)
    PROVE  TypeOK'
<1>1. CASE AddFriend(c)
  BY <1>1, CommandTypes, RequestSent, ConsentTypes DEF AddFriend, TypeOK, FriendshipState
<1>2. CASE GenerateInvite(c)
  BY <1>2, CommandTypes, BundleTypes DEF GenerateInvite, TypeOK, disk, users
<1>3. CASE AddFriendFromInvite(c)
  <2>1. invite[Peer(c)] \in Nat
    BY PeerIsOther DEF TypeOK
  <2> QED
    BY <1>3, <2>1, CommandTypes, EstablishTypes, RequestSent, ConsentTypes
       DEF AddFriendFromInvite, TypeOK, FriendshipState
<1>4. CASE AcceptRequest(c)
  <2>1. request[c] \in Nat
    BY DEF TypeOK
  <2> QED
    BY <1>4, <2>1, CommandTypes, AcceptSent, ConsentTypes, MessageTypes
       DEF AcceptRequest, TypeOK, FriendshipState
<1> QED
  BY <1>1, <1>2, <1>3, <1>4

LEMMA EndCommandTypes ==
    ASSUME TypeOK, NEW c \in Client,
           \/ RejectRequest(c) \/ CancelRequest(c) \/ RemoveFriend(c)
           \/ BlockUser(c) \/ UnblockUser(c) \/ GraceEnds(c)
    PROVE  TypeOK'
<1>0. /\ Plain("FriendReject") \in Message /\ Plain("Unfriended") \in Message
      /\ queue[c] \in SUBSET Message /\ queue[c] \cup {Plain("Unfriended")} \in SUBSET Message
  BY MessageTypes DEF TypeOK, MessageKind
<1>1. CASE RejectRequest(c)
  BY <1>0, <1>1, CommandTypes, SendTypes, MessageTypes DEF RejectRequest, TypeOK, keys, users
<1>2. CASE CancelRequest(c)
  BY <1>2, CommandTypes, ConsentTypes DEF CancelRequest, TypeOK, keys, links, FriendshipState
<1>3. CASE RemoveFriend(c)
  BY <1>0, <1>3, CommandTypes, SendTypes, ConsentTypes, MessageTypes
     DEF RemoveFriend, SendUnfriended, TypeOK, keys, FriendshipState
<1>4. CASE BlockUser(c)
  BY <1>4, CommandTypes, BundleTypes, ConsentTypes, MessageTypes
     DEF BlockUser, TypeOK, links, FriendshipState
<1>5. CASE UnblockUser(c)
  BY <1>5, CommandTypes DEF UnblockUser, TypeOK, keys, links, users
<1>6. CASE GraceEnds(c)
  BY <1>6, MessageTypes DEF GraceEnds, TypeOK, disk, links, users, FriendshipState
<1> QED
  BY <1>1, <1>2, <1>3, <1>4, <1>5, <1>6

LEMMA TakeTypes ==
    ASSUME TypeOK, NEW c \in Client, NEW m, Take(c, m)
    PROVE  /\ m \in Message /\ m.bundle \in Nat /\ m.key \in Key
           /\ net' \in [Client -> SUBSET Message] /\ mishaps' \in 0..MaxMishaps
           /\ \A d \in Client : net'[d] \subseteq net[d]
<1>1. m \in Message
  BY DEF Take, TypeOK
<1>2. UNCHANGED net \/ net' = [net EXCEPT ![c] = @ \ {m}]
  BY DEF Take
<1>3. mishaps' \in 0..MaxMishaps
  BY MishapTypes DEF Take, TypeOK
<1> QED
  BY <1>1, <1>2, <1>3 DEF TypeOK, Message

LEMMA ReceiveTypes ==
    ASSUME TypeOK, NEW c \in Client, NEW m, Receive(c, m)
    PROVE  TypeOK'
<1>0. \A pc \in Pc, n \in Nat : Goto(c, pc, n) => task' \in [Client -> [pc : Pc, bundle : Nat]]
  BY DEF Goto, TypeOK
<1>1. CASE ReceiveNothing(c, m)
  BY <1>1, TakeTypes DEF ReceiveNothing, Take, TypeOK, keys, disk, users
<1>2. CASE ReceiveFriendRequest(c, m)
  <2>1. task' \in [Client -> [pc : Pc, bundle : Nat]] /\ friend' \in [Client -> FriendshipState]
    BY <1>0, <1>2, TakeTypes DEF ReceiveFriendRequest, Pc, TypeOK, FriendshipState
  <2> QED
    BY <1>2, <2>1, TakeTypes DEF ReceiveFriendRequest, Take, TypeOK, keys, disk, users
<1>3. CASE ReceiveFriendAccept(c, m)
  <2>1. /\ session' \in [Client -> Key] /\ one_time' \in [Client -> BOOLEAN]
        /\ friend' \in [Client -> FriendshipState] /\ row' \in [Client -> FriendshipState \ {"removing"}]
    <3>1. [m.key EXCEPT !.bundle = prekey[c]] \in Key
      BY <1>3, TakeTypes DEF ReceiveFriendAccept, TypeOK, Key
    <3>2. CASE BecomeFriends(c, m)
      <4>1. session' \in [Client -> Key] /\ one_time' \in [Client -> BOOLEAN]
        BY <3>1, <3>2, MessageTypes DEF BecomeFriends, Respond, TypeOK
      <4>2. friend' \in [Client -> FriendshipState] /\ row' \in [Client -> FriendshipState \ {"removing"}]
        BY <3>2 DEF BecomeFriends, TypeOK, FriendshipState
      <4> QED
        BY <4>1, <4>2
    <3> QED
      BY <1>3, <3>2 DEF ReceiveFriendAccept, TypeOK
  <2> QED
    BY <1>3, <2>1, TakeTypes DEF ReceiveFriendAccept, Take, TypeOK, users
<1>4. CASE ReceiveFriendReject(c, m)
  <2>1. /\ task' \in [Client -> [pc : Pc, bundle : Nat]]
        /\ row' \in [Client -> FriendshipState \ {"removing"}]
    BY <1>0, <1>4, MessageTypes DEF ReceiveFriendReject, Pc, TypeOK, FriendshipState
  <2> QED
    BY <1>4, <2>1, TakeTypes DEF ReceiveFriendReject, Take, TypeOK, keys, users
<1>5. CASE ReceiveUnfriended(c, m)
  <2>1. /\ task' \in [Client -> [pc : Pc, bundle : Nat]]
        /\ row' \in [Client -> FriendshipState \ {"removing"}]
        /\ request' \in [Client -> Nat] /\ queue' \in [Client -> SUBSET Message]
    <3>1. CASE Goto(c, "unfriend", NoBundle) /\ row' = [row EXCEPT ![c] = "none"]
               /\ request' = [request EXCEPT ![c] = NoBundle] /\ queue' = [queue EXCEPT ![c] = {}]
      <4>1. task' \in [Client -> [pc : Pc, bundle : Nat]]
        BY <1>0, <3>1, MessageTypes DEF Pc
      <4>2. row' \in [Client -> FriendshipState \ {"removing"}]
        BY <3>1 DEF TypeOK, FriendshipState
      <4>3. request' \in [Client -> Nat] /\ queue' \in [Client -> SUBSET Message]
        BY <3>1, MessageTypes DEF TypeOK
      <4> QED
        BY <4>1, <4>2, <4>3
    <3> QED
      BY <1>5, <3>1 DEF ReceiveUnfriended, TypeOK
  <2> QED
    BY <1>5, <2>1, TakeTypes DEF ReceiveUnfriended, Take, TypeOK, keys, users
<1>6. CASE ReceiveUnfriendedAck(c, m)
  BY <1>6, TakeTypes DEF ReceiveUnfriendedAck, Take, TypeOK, keys, users
<1> QED
  BY <1>1, <1>2, <1>3, <1>4, <1>5, <1>6 DEF Receive

LEMMA HandleTypes ==
    ASSUME TypeOK, NEW c \in Client, Handle(c)
    PROVE  TypeOK'
<1>0. /\ task[c].bundle \in Nat /\ task' \in [Client -> [pc : Pc, bundle : Nat]]
      /\ Plain("UnfriendedAck") \in Message /\ queue[c] \in SUBSET Message
  BY MessageTypes DEF Handle, PersistRequest, AutoAccept, ForgetRejected, ForgetUnfriended,
                      Done, TypeOK, MessageKind
<1>1. CASE PersistRequest(c)
  BY <1>0, <1>1 DEF PersistRequest, TypeOK, keys, links, users, FriendshipState
<1>2. CASE AutoAccept(c)
  BY <1>0, <1>2, AcceptSent, MessageTypes DEF AutoAccept, TypeOK, users, FriendshipState
<1>3. CASE ForgetRejected(c)
  BY <1>0, <1>3 DEF ForgetRejected, TypeOK, keys, disk, links, users, FriendshipState
<1>4. CASE ForgetUnfriended(c)
  BY <1>0, <1>4, SendTypes DEF ForgetUnfriended, TypeOK, keys, users, FriendshipState
<1> QED
  BY <1>1, <1>2, <1>3, <1>4 DEF Handle

\* Retry, loss, expiry and restart.
Environment(c) ==
    \/ Resend(c) \/ ExpireStaleRequests(c) \/ Restart(c)
    \/ \E m \in queue[c] : GiveUp(c, m)
    \/ \E m \in net[c] : Lose(c, m)

LEMMA EnvironmentTypes ==
    ASSUME TypeOK, NEW c \in Client, Environment(c)
    PROVE  TypeOK'
<1>1. ASSUME NEW m \in queue[c], Retry(c, m) PROVE TypeOK'
  <2>1. m \in Message
    BY <1>1 DEF TypeOK
  <2>2. net' \in [Client -> SUBSET Message] /\ queue' \in [Client -> SUBSET Message]
    BY <1>1, <2>1, PeerIsOther DEF Retry, Flies, TypeOK
  <2>3. mishaps' \in 0..MaxMishaps
    BY <1>1, MishapTypes DEF Retry, TypeOK
  <2> QED
    BY <1>1, <2>2, <2>3 DEF Retry, TypeOK, keys, users
<1>2. ASSUME NEW m \in queue[c], GiveUp(c, m) PROVE TypeOK'
  BY <1>2, MishapTypes DEF GiveUp, TypeOK, keys, links, users
<1>3. ASSUME NEW m \in net[c], Lose(c, m) PROVE TypeOK'
  BY <1>3, MishapTypes DEF Lose, TypeOK, keys, disk, users
<1>4. CASE ExpireStaleRequests(c)
  <2>1. request' \in [Client -> Nat] /\ mishaps' \in 0..MaxMishaps
    BY <1>4, MishapTypes, MessageTypes DEF ExpireStaleRequests, TypeOK
  <2>2. friend' \in [Client -> FriendshipState] /\ row' \in [Client -> FriendshipState \ {"removing"}]
    BY <1>4 DEF ExpireStaleRequests, TypeOK, FriendshipState
  <2> QED
    BY <1>4, <2>1, <2>2 DEF ExpireStaleRequests, TypeOK, keys, links, users
<1>5. CASE Restart(c)
  BY <1>5, MishapTypes, BundleTypes, MessageTypes
     DEF Restart, Done, TypeOK, disk, links, users, FriendshipState
<1> QED
  BY <1>1, <1>2, <1>3, <1>4, <1>5 DEF Environment, Resend

\* Every step is one of these.
LEMMA StepKinds ==
    ASSUME Next
    PROVE  \E c \in Client :
               \/ UserCommand(c) \/ GraceEnds(c) \/ Handle(c) \/ Environment(c)
               \/ \E m \in net[c] : Receive(c, m)
BY DEF Next, Environment, Deliver

LEMMA TypeNext ==
    ASSUME TypeOK, [Next]_vars
    PROVE  TypeOK'
<1>1. CASE UNCHANGED vars
  BY <1>1 DEF TypeOK, vars, keys, disk, links, users
<1>2. CASE Next
  BY <1>2, StepKinds, RequestCommandTypes, EndCommandTypes, ReceiveTypes, HandleTypes,
     EnvironmentTypes DEF UserCommand
<1> QED
  BY <1>1, <1>2

\* In every reachable state, with any number of commands and mishaps, what the
\* clients keep and the network carries is well-formed.
THEOREM FriendshipTypes == Spec => []TypeOK
<1> QED
  BY TypeInit, TypeNext, PTL DEF Spec
-----------------------------------------------------------------------------
(* The invariants, when commands do not come between the steps of a        *)
(* handler.                                                                *)

LEMMA FriendInit == Init => FriendInv
BY MessageTypes DEF Init, FriendInv, Consented, Carried, RowFollows, BlockedQuiet, Idle

\* Messages that ask or agree come from clients that have asked: enough that
\* the one that is sent does.
LEMMA SendCarries ==
    ASSUME TypeOK, Carried, asked \subseteq asked', NEW c \in Client, NEW m \in Message,
           NEW rows \in SUBSET Message, Send(c, m, rows),
           \A x \in rows \cup {m} : Speaks(x) => c \in asked'
    PROVE  Carried'
<1>1. \A d \in Client : /\ net'[d] \subseteq IF d = c THEN net[d] ELSE net[d] \cup {m}
                        /\ queue'[d] \subseteq IF d = c THEN rows \cup {m} ELSE queue[d]
  BY SendTypes
<1>2. ASSUME NEW d \in Client, NEW x \in net'[d], Speaks(x)
      PROVE  Peer(d) \in asked'
  BY <1>1, <1>2, PeerIsOther DEF Carried
<1>3. ASSUME NEW d \in Client, NEW x \in queue'[d], Speaks(x)
      PROVE  d \in asked'
  BY <1>1, <1>3 DEF Carried
<1> QED
  BY <1>2, <1>3 DEF Carried, Speaks

\* Nor does it hurt when messages disappear.
LEMMA FewerCarried ==
    ASSUME Carried, asked \subseteq asked',
           \A d \in Client : net'[d] \subseteq net[d] /\ queue'[d] \subseteq queue[d]
    PROVE  Carried'
BY DEF Carried, Speaks

\* A step that leaves clients, rows and handlers alone.
LEMMA QuietStep ==
    ASSUME FriendInv, UNCHANGED <<friend, row, task, blocked, users>>,
           \A d \in Client : request'[d] \in {request[d], NoBundle}, Carried'
    PROVE  FriendInv'
<1>0. /\ friend' = friend /\ row' = row /\ task' = task
      /\ asked' = asked /\ willing' = willing
  BY DEF users
<1>1. Consented'
  BY <1>0 DEF FriendInv, Consented
<1>2. RowFollows'
  BY DEF FriendInv, RowFollows
<1>3. BlockedQuiet'
  BY DEF FriendInv, BlockedQuiet
<1> QED
  BY <1>1, <1>2, <1>3 DEF FriendInv

LEMMA SpeakingKinds ==
    /\ ~Speaks(Plain("FriendReject")) /\ ~Speaks(Plain("Unfriended"))
    /\ ~Speaks(Plain("UnfriendedAck"))
BY DEF Speaks, Plain

\* Where the user asks or agrees.
LEMMA AskingKeeps ==
    ASSUME Overlap = FALSE, TypeOK, FriendInv, NEW c \in Client,
           AddFriend(c) \/ AddFriendFromInvite(c) \/ AcceptRequest(c)
    PROVE  FriendInv'
<1>0. /\ task[c].pc = "idle" /\ UNCHANGED <<task, blocked>> /\ Consent(c)
      /\ ~blocked[c]
  BY DEF FriendInv, BlockedQuiet, AddFriend, AddFriendFromInvite, AcceptRequest, Command
<1>1. c \in asked' /\ c \in willing' /\ asked \subseteq asked' /\ willing \subseteq willing'
  BY <1>0 DEF Consent
<1>2. Carried'
  <2>1. \A x \in queue[c] : Speaks(x) => c \in asked'
    BY <1>1
  <2>2. queue[c] \in SUBSET Message
    BY DEF TypeOK
  <2>3. CASE AddFriend(c) \/ AddFriendFromInvite(c)
    <3>1. SendFriendRequest(c) /\ FriendRequest(prekey[c] + 1) \in Message
      BY <2>3, BundleTypes, MessageTypes DEF AddFriend, AddFriendFromInvite, SendFriendRequest
    <3> QED
      BY <1>1, <2>2, <3>1, SendCarries DEF SendFriendRequest, FriendInv
  <2>4. CASE AcceptRequest(c)
    <3>1. request[c] \in Nat /\ SendFriendAccept(c, request[c])
      BY <2>4 DEF AcceptRequest, TypeOK
    <3>2. FriendAccept(NextKey(c, request[c])) \in Message
      BY <3>1, EstablishTypes, MessageTypes DEF SendFriendAccept
    <3> QED
      BY <1>1, <2>2, <3>1, <3>2, SendCarries DEF SendFriendAccept, FriendInv
  <2> QED
    BY <2>3, <2>4
<1>3. Consented'
  <2>1. CASE AddFriend(c) \/ AddFriendFromInvite(c)
    BY <1>0, <1>1, <2>1 DEF AddFriend, AddFriendFromInvite, FriendInv, Consented, TypeOK
  <2>2. CASE AcceptRequest(c)
    BY <1>0, <1>1, <2>2 DEF AcceptRequest, FriendInv, Consented, TypeOK
  <2> QED
    BY <2>1, <2>2
<1>4. RowFollows'
  BY <1>0 DEF AddFriend, AddFriendFromInvite, AcceptRequest, FriendInv, RowFollows, TypeOK
<1>5. BlockedQuiet'
  BY <1>0 DEF AddFriend, AddFriendFromInvite, AcceptRequest, FriendInv, BlockedQuiet, TypeOK
<1> QED
  BY <1>2, <1>3, <1>4, <1>5 DEF FriendInv

\* Where the user ends it, and at the end of the grace period.
LEMMA EndingKeeps ==
    ASSUME Overlap = FALSE, TypeOK, FriendInv, NEW c \in Client,
           CancelRequest(c) \/ RemoveFriend(c) \/ BlockUser(c) \/ GraceEnds(c)
    PROVE  FriendInv'
<1>1. CASE GraceEnds(c)
  <2>1. Carried' /\ BlockedQuiet' /\ RowFollows' /\ Consented'
    BY <1>1 DEF GraceEnds, FriendInv, Consented, Carried, RowFollows, BlockedQuiet, disk, links,
                users, TypeOK
  <2> QED
    BY <2>1 DEF FriendInv
<1>2. CASE CancelRequest(c) \/ RemoveFriend(c) \/ BlockUser(c)
  <2>0. /\ task[c].pc = "idle" /\ UNCHANGED task /\ asked' = asked
        /\ willing' = willing \ {c}
        /\ row' = [row EXCEPT ![c] = "none"]
        /\ friend' = [friend EXCEPT ![c] = IF RemoveFriend(c) THEN "removing" ELSE "none"]
        /\ request' \in {request, [request EXCEPT ![c] = NoBundle]}
    BY <1>2 DEF CancelRequest, RemoveFriend, SendUnfriended, BlockUser, Command, Withdraw
  <2>1. Consented'
    BY <2>0 DEF FriendInv, Consented, TypeOK, NoBundle
  <2>2. RowFollows'
    BY <2>0 DEF FriendInv, RowFollows, TypeOK
  <2>3. BlockedQuiet'
    <3>1. CASE BlockUser(c)
      BY <2>0, <3>1 DEF BlockUser, FriendInv, BlockedQuiet, TypeOK
    <3>2. CASE CancelRequest(c) \/ RemoveFriend(c)
      BY <2>0, <3>2 DEF CancelRequest, RemoveFriend, SendUnfriended, FriendInv, BlockedQuiet, TypeOK
    <3> QED
      BY <1>2, <3>1, <3>2
  <2>4. Carried'
    <3>1. CASE RemoveFriend(c)
      <4>1. /\ Plain("Unfriended") \in Message
            /\ queue[c] \cup {Plain("Unfriended")} \in SUBSET Message
            /\ Send(c, Plain("Unfriended"), queue[c] \cup {Plain("Unfriended")})
        BY <3>1, MessageTypes DEF RemoveFriend, SendUnfriended, MessageKind, TypeOK
      <4>2. \A x \in queue[c] \cup {Plain("Unfriended")} : Speaks(x) => c \in asked'
        BY <2>0, SpeakingKinds DEF FriendInv, Carried
      <4> QED
        BY <2>0, <4>1, <4>2, SendCarries DEF FriendInv
    <3>2. CASE CancelRequest(c) \/ BlockUser(c)
      BY <2>0, <3>2, FewerCarried DEF CancelRequest, BlockUser, links, FriendInv, TypeOK
    <3> QED
      BY <1>2, <3>1, <3>2
  <2> QED
    BY <2>1, <2>2, <2>3, <2>4 DEF FriendInv
<1> QED
  BY <1>1, <1>2

\* The remaining commands.
LEMMA OtherCommandsKeep ==
    ASSUME TypeOK, FriendInv, NEW c \in Client,
           GenerateInvite(c) \/ RejectRequest(c) \/ UnblockUser(c)
    PROVE  FriendInv'
<1>1. CASE GenerateInvite(c)
  BY <1>1, FewerCarried, QuietStep DEF GenerateInvite, disk, users, FriendInv
<1>2. CASE RejectRequest(c)
  <2>1. /\ Plain("FriendReject") \in Message /\ queue[c] \in SUBSET Message
        /\ \A x \in queue[c] \cup {Plain("FriendReject")} : Speaks(x) => c \in asked'
    BY <1>2, MessageTypes, SpeakingKinds DEF RejectRequest, MessageKind, TypeOK, FriendInv, Carried, users
  <2>2. Carried'
    BY <1>2, <2>1, SendCarries DEF RejectRequest, FriendInv, users
  <2> QED
    BY <1>2, <2>2, QuietStep DEF RejectRequest, users, TypeOK
<1>3. CASE UnblockUser(c)
  BY <1>3 DEF UnblockUser, keys, links, users, FriendInv, Consented, Carried, RowFollows,
              BlockedQuiet, TypeOK
<1> QED
  BY <1>1, <1>2, <1>3
\* Messages are handled by a client that is not in the middle of another one.
LEMMA ReceivingKeeps ==
    ASSUME TypeOK, FriendInv, NEW c \in Client, NEW m \in net[c], Receive(c, m)
    PROVE  FriendInv'
<1>0. /\ Take(c, m) /\ task[c].pc = "idle" /\ UNCHANGED <<asked, willing>>
      /\ blocked' = blocked
  BY DEF Receive, ReceiveNothing, ReceiveFriendRequest, ReceiveFriendAccept, ReceiveFriendReject,
         ReceiveUnfriended, ReceiveUnfriendedAck, Take, users, disk
<1>1. ~ReceiveNothing(c, m) => ~blocked[c] /\ (m.kind = "FriendAccept" => friend[c] # "none")
  BY DEF Receive, ReceiveFriendRequest, ReceiveFriendAccept, ReceiveFriendReject,
         ReceiveUnfriended, ReceiveUnfriendedAck, Passes
<1>2. Carried'
  <2>1. \A d \in Client : net'[d] \subseteq net[d]
    BY <1>0, TakeTypes
  <2>2. queue' = queue \/ queue' = [queue EXCEPT ![c] = {}]
    BY DEF Receive, ReceiveNothing, ReceiveFriendRequest, ReceiveFriendAccept,
           ReceiveFriendReject, ReceiveUnfriended, ReceiveUnfriendedAck, disk
  <2> QED
    BY <1>0, <2>1, <2>2, FewerCarried DEF FriendInv, TypeOK
<1>3. CASE ReceiveNothing(c, m) \/ ReceiveUnfriendedAck(c, m)
  <2>1. UNCHANGED <<friend, row, task, request>>
    BY <1>3 DEF ReceiveNothing, ReceiveUnfriendedAck, disk
  <2> QED
    BY <1>0, <1>2, <2>1, QuietStep DEF users
<1>4. CASE ReceiveFriendRequest(c, m)
  <2>1. /\ Peer(c) \in asked /\ UNCHANGED <<row, request>>
    BY <1>4 DEF ReceiveFriendRequest, FriendInv, Carried, Speaks, disk
  <2>2. PICK pc \in {"persist", "cross", "readd"} :
           /\ task' = [task EXCEPT ![c] = [pc |-> pc, bundle |-> m.bundle]]
           /\ pc = "persist" => friend[c] = "none" /\ friend' = friend
           /\ pc = "cross" => friend[c] = "pending_out" /\ friend' = friend
           /\ pc = "readd" => friend' = [friend EXCEPT ![c] = "none"]
    BY <1>4 DEF ReceiveFriendRequest, Goto
  <2>3. Consented'
    BY <1>0, <2>1, <2>2 DEF FriendInv, Consented, TypeOK
  <2>4. RowFollows'
    BY <1>0, <2>1, <2>2 DEF FriendInv, RowFollows, TypeOK
  <2>5. BlockedQuiet'
    BY <1>0, <1>1, <1>4, <2>1, <2>2 DEF FriendInv, BlockedQuiet, TypeOK, ReceiveFriendRequest, Passes
  <2> QED
    BY <1>2, <2>3, <2>4, <2>5 DEF FriendInv
<1>5. CASE ReceiveFriendAccept(c, m)
  <2>1. Peer(c) \in asked /\ UNCHANGED <<task, request>> /\ ~blocked[c] /\ friend[c] # "none"
    BY <1>5 DEF ReceiveFriendAccept, FriendInv, Carried, Speaks, Passes
  <2>2. CASE UNCHANGED <<friend, row>>
    BY <1>0, <1>2, <2>1, <2>2, QuietStep DEF users
  <2>3. CASE friend[c] # "removing" /\ BecomeFriends(c, m)
    <3>1. /\ friend' = [friend EXCEPT ![c] = "accepted"]
          /\ row' = [row EXCEPT ![c] = IF @ = "none" THEN @ ELSE "accepted"]
          /\ friend[c] \in {"pending_out", "accepted"}
      BY <2>1, <2>3 DEF BecomeFriends, TypeOK, FriendshipState
    <3>2. Consented'
      BY <1>0, <2>1, <3>1 DEF FriendInv, Consented, TypeOK
    <3>3. RowFollows'
      BY <1>0, <2>1, <3>1 DEF FriendInv, RowFollows, TypeOK
    <3>4. BlockedQuiet'
      BY <1>0, <2>1, <3>1 DEF FriendInv, BlockedQuiet, TypeOK
    <3> QED
      BY <1>2, <3>2, <3>3, <3>4 DEF FriendInv
  <2> QED
    BY <1>5, <2>2, <2>3 DEF ReceiveFriendAccept
<1>6. CASE ReceiveFriendReject(c, m) \/ ReceiveUnfriended(c, m)
  <2>1. friend' = friend /\ ~blocked[c]
    BY <1>6 DEF ReceiveFriendReject, ReceiveUnfriended, Passes
  <2>2. CASE UNCHANGED <<task, row, request>>
    BY <1>0, <1>2, <2>1, <2>2, QuietStep DEF users
  <2>3. CASE ~UNCHANGED <<task, row, request>>
    <3>1. PICK pc \in {"reject", "unfriend"} :
             /\ task' = [task EXCEPT ![c] = [pc |-> pc, bundle |-> NoBundle]]
             /\ row' = [row EXCEPT ![c] = "none"]
             /\ request' \in {request, [request EXCEPT ![c] = NoBundle]}
      BY <1>6, <2>3 DEF ReceiveFriendReject, ReceiveUnfriended, Goto
    <3>2. Consented'
      BY <1>0, <2>1, <3>1 DEF FriendInv, Consented, TypeOK
    <3>3. RowFollows'
      BY <1>0, <2>1, <3>1 DEF FriendInv, RowFollows, TypeOK
    <3>4. BlockedQuiet'
      BY <1>0, <2>1, <3>1 DEF FriendInv, BlockedQuiet, TypeOK
    <3> QED
      BY <1>2, <3>2, <3>3, <3>4 DEF FriendInv
  <2> QED
    BY <2>2, <2>3
<1> QED
  BY <1>3, <1>4, <1>5, <1>6 DEF Receive

\* The second step of a handler finds the friend as the first one left it, or
\* expired.
LEMMA HandlingKeeps ==
    ASSUME TypeOK, FriendInv, NEW c \in Client, Handle(c)
    PROVE  FriendInv'
<1>0. /\ task' = [task EXCEPT ![c] = Idle] /\ task[c].pc # "idle"
      /\ UNCHANGED <<blocked, asked, willing>> /\ ~blocked[c]
  BY DEF Handle, PersistRequest, AutoAccept, ForgetRejected, ForgetUnfriended, Done, disk, users,
         FriendInv, BlockedQuiet
<1>1. Idle.pc = "idle"
  BY DEF Idle
<1>2. BlockedQuiet'
  BY <1>0, PeerIsOther DEF Handle, PersistRequest, AutoAccept, ForgetRejected, ForgetUnfriended,
         disk, FriendInv, BlockedQuiet, TypeOK
<1>3. CASE PersistRequest(c)
  <2>1. /\ friend' = friend /\ friend[c] = "none" /\ Peer(c) \in asked
        /\ row' = IF task[c].pc = "readd" THEN [row EXCEPT ![c] = "none"] ELSE row
        /\ task[c].pc # "readd" => row[c] = "none"
        /\ request' = [request EXCEPT ![c] = task[c].bundle]
    BY <1>3 DEF PersistRequest, FriendInv, RowFollows, Consented
  <2>2. Consented'
    BY <1>0, <1>1, <2>1 DEF FriendInv, Consented, TypeOK
  <2>3. RowFollows'
    BY <1>0, <1>1, <2>1 DEF FriendInv, RowFollows, TypeOK
  <2>4. Carried'
    BY <1>0, <1>3, FewerCarried DEF PersistRequest, links, FriendInv
  <2> QED
    BY <1>2, <2>2, <2>3, <2>4 DEF FriendInv
<1>4. CASE AutoAccept(c)
  <2>1. /\ friend' = [friend EXCEPT ![c] = IF @ = "none" THEN @ ELSE "accepted"]
        /\ row' = [row EXCEPT ![c] = IF @ = "none" THEN @ ELSE "accepted"]
        /\ request' = [request EXCEPT ![c] = NoBundle]
        /\ friend[c] # "removing" /\ (row[c] = "none" <=> friend[c] = "none")
        /\ c \in asked /\ Peer(c) \in asked
    BY <1>4 DEF AutoAccept, FriendInv, RowFollows, Consented
  <2>2. Consented'
    BY <1>0, <1>1, <2>1 DEF FriendInv, Consented, TypeOK, FriendshipState
  <2>3. RowFollows'
    BY <1>0, <1>1, <2>1 DEF FriendInv, RowFollows, TypeOK
  <2>4. Carried'
    <3>1. task[c].bundle \in Nat /\ queue[c] \in SUBSET Message
      BY DEF TypeOK
    <3>2. /\ Send(c, FriendAccept(NextKey(c, task[c].bundle)), queue[c])
          /\ FriendAccept(NextKey(c, task[c].bundle)) \in Message
      BY <1>4, <3>1, EstablishTypes, MessageTypes DEF AutoAccept, SendFriendAccept
    <3> QED
      BY <1>0, <2>1, <3>1, <3>2, SendCarries DEF FriendInv, Carried
  <2> QED
    BY <1>2, <2>2, <2>3, <2>4 DEF FriendInv
<1>5. CASE ForgetRejected(c) \/ ForgetUnfriended(c)
  <2>1. /\ friend' = [friend EXCEPT ![c] = "none"] /\ UNCHANGED <<row, request>> /\ row[c] = "none"
    BY <1>5 DEF ForgetRejected, ForgetUnfriended, disk, FriendInv, RowFollows
  <2>2. Consented'
    BY <1>0, <1>1, <2>1 DEF FriendInv, Consented, TypeOK
  <2>3. RowFollows'
    BY <1>0, <1>1, <2>1 DEF FriendInv, RowFollows, TypeOK
  <2>4. Carried'
    <3>1. CASE ForgetRejected(c)
      BY <1>0, <3>1, FewerCarried DEF ForgetRejected, links, disk, FriendInv
    <3>2. CASE ForgetUnfriended(c)
      <4>1. /\ Plain("UnfriendedAck") \in Message /\ queue[c] \in SUBSET Message
            /\ \A x \in queue[c] \cup {Plain("UnfriendedAck")} : Speaks(x) => c \in asked'
        BY <1>0, MessageTypes, SpeakingKinds DEF MessageKind, TypeOK, FriendInv, Carried
      <4> QED
        BY <1>0, <3>2, <4>1, SendCarries DEF ForgetUnfriended, FriendInv
    <3> QED
      BY <1>5, <3>1, <3>2
  <2> QED
    BY <1>2, <2>2, <2>3, <2>4 DEF FriendInv
<1> QED
  BY <1>3, <1>4, <1>5 DEF Handle
LEMMA EnvironmentKeeps ==
    ASSUME TypeOK, FriendInv, NEW c \in Client, Environment(c)
    PROVE  FriendInv'
<1>1. ASSUME NEW m \in queue[c], Retry(c, m) PROVE FriendInv'
  <2>1. Carried'
    <3>1. \A d \in Client : /\ net'[d] \subseteq IF d = c THEN net[d] ELSE net[d] \cup {m}
                            /\ queue'[d] \subseteq queue[d]
      BY <1>1, PeerIsOther DEF Retry, Flies, TypeOK
    <3>2. asked' = asked /\ (Speaks(m) => c \in asked)
      BY <1>1 DEF Retry, users, FriendInv, Carried
    <3>3. ASSUME NEW d \in Client, NEW x \in net'[d], Speaks(x)
          PROVE  Peer(d) \in asked'
      BY <3>1, <3>2, <3>3, PeerIsOther DEF FriendInv, Carried
    <3> QED
      BY <3>1, <3>2, <3>3 DEF FriendInv, Carried, Speaks
  <2> QED
    BY <1>1, <2>1, QuietStep DEF Retry
<1>2. ASSUME NEW m \in queue[c], GiveUp(c, m) PROVE FriendInv'
  <2>1. Carried'
    BY <1>2, FewerCarried DEF GiveUp, links, users, FriendInv, TypeOK
  <2> QED
    BY <1>2, <2>1, QuietStep DEF GiveUp
<1>3. ASSUME NEW m \in net[c], Lose(c, m) PROVE FriendInv'
  <2>1. Carried'
    BY <1>3, FewerCarried DEF Lose, disk, users, FriendInv, TypeOK
  <2> QED
    BY <1>3, <2>1, QuietStep DEF Lose, disk
<1>4. CASE ExpireStaleRequests(c)
  <2>0. /\ UNCHANGED <<task, asked, willing, blocked, net, queue>>
        /\ request' \in {request, [request EXCEPT ![c] = NoBundle]}
        /\ \/ UNCHANGED <<friend, row>>
           \/ row[c] = "pending_out" /\ row' = [row EXCEPT ![c] = "none"]
                /\ friend' = [friend EXCEPT ![c] = "none"]
    BY <1>4 DEF ExpireStaleRequests, users, links
  <2>1. Carried'
    BY <2>0, FewerCarried DEF FriendInv
  <2>2. CASE UNCHANGED <<friend, row>>
    BY <2>0, <2>1, <2>2, QuietStep DEF users, TypeOK
  <2>3. CASE /\ row[c] = "pending_out" /\ row' = [row EXCEPT ![c] = "none"]
             /\ friend' = [friend EXCEPT ![c] = "none"]
    <3>1. Consented'
      BY <2>0, <2>3 DEF FriendInv, Consented, TypeOK
    <3>2. RowFollows'
      BY <2>0, <2>3 DEF FriendInv, RowFollows, TypeOK
    <3>3. BlockedQuiet'
      BY <2>0, <2>3 DEF FriendInv, BlockedQuiet, TypeOK
    <3> QED
      BY <2>1, <3>1, <3>2, <3>3 DEF FriendInv
  <2> QED
    BY <2>0, <2>2, <2>3
<1>5. CASE Restart(c)
  <2>0. /\ UNCHANGED <<row, request, blocked, asked, willing, net, queue>>
        /\ friend' = [friend EXCEPT ![c] = row[c]]
        /\ task' = [task EXCEPT ![c] = Idle] /\ Idle.pc = "idle"
        /\ row[c] # "removing"
    BY <1>5 DEF Restart, Done, disk, links, users, Idle, TypeOK
  <2>1. Carried'
    BY <2>0, FewerCarried DEF FriendInv
  <2>2. Consented'
    BY <2>0 DEF FriendInv, Consented, TypeOK
  <2>3. RowFollows'
    BY <2>0 DEF FriendInv, RowFollows, TypeOK
  <2>4. BlockedQuiet'
    BY <2>0 DEF FriendInv, BlockedQuiet, TypeOK
  <2> QED
    BY <2>1, <2>2, <2>3, <2>4 DEF FriendInv
<1> QED
  BY <1>1, <1>2, <1>3, <1>4, <1>5 DEF Environment, Resend

LEMMA FriendNext ==
    ASSUME Overlap = FALSE, TypeOK, FriendInv, [Next]_vars
    PROVE  FriendInv'
<1>1. CASE UNCHANGED vars
  <2>1. Carried'
    BY <1>1, FewerCarried DEF vars, links, disk, users, FriendInv
  <2> QED
    BY <1>1, <2>1, QuietStep DEF vars, disk
<1>2. CASE Next
  BY <1>2, StepKinds, AskingKeeps, EndingKeeps, OtherCommandsKeep, ReceivingKeeps, HandlingKeeps,
     EnvironmentKeeps DEF UserCommand
<1> QED
  BY <1>1, <1>2

LEMMA FriendInvariant ==
    ASSUME Overlap = FALSE
    PROVE  Spec => [](TypeOK /\ FriendInv)
<1>1. Init => TypeOK /\ FriendInv
  BY TypeInit, FriendInit
<1>2. TypeOK /\ FriendInv /\ [Next]_vars => TypeOK' /\ FriendInv'
  BY TypeNext, FriendNext
<1> QED
  BY <1>1, <1>2, PTL DEF Spec

\* However many commands are given and however many messages are lost, doubled
\* or late: a friend is someone with whom both users agreed.
THEOREM FriendsAgreed ==
    ASSUME Overlap = FALSE
    PROVE  Spec => []MutualConsent
<1>1. ASSUME TypeOK, FriendInv PROVE MutualConsent
  <2>1. ASSUME NEW c \in Client, "accepted" \in {friend[c], row[c]}
        PROVE  asked = Client /\ c \in willing
    <3>1. c \in willing /\ Peer(c) \in asked
      BY <1>1, <2>1 DEF FriendInv, Consented
    <3> QED
      BY <1>1, <3>1, PeerIsOther DEF TypeOK
  <2> QED
    BY <2>1 DEF MutualConsent
<1> QED
  BY <1>1, FriendInvariant, PTL

\* Between handlers a friend who is shown has a row, and one who is not has
\* none: the next login (load_friends) finds the friends that were there, and
\* nobody who was removed, rejected, cancelled or blocked.
THEOREM LoginFindsTheFriends ==
    ASSUME Overlap = FALSE
    PROVE  Spec => []RestartKeepsFriends
<1>1. FriendInv => RestartKeepsFriends
  BY DEF FriendInv, RowFollows, RestartKeepsFriends
<1> QED
  BY <1>1, FriendInvariant, PTL

\* Who is blocked stays out of the friends and of the requests that wait for
\* an answer, whatever messages of theirs are still on their way.
THEOREM BlockedAreOut ==
    ASSUME Overlap = FALSE
    PROVE  Spec => []BlockedStaysOut
<1>1. FriendInv => BlockedStaysOut
  BY DEF FriendInv, RowFollows, BlockedQuiet, BlockedStaysOut
<1> QED
  BY <1>1, FriendInvariant, PTL

\* And no message, however late, revives a friendship that has ended.
THEOREM EndedStaysEnded ==
    ASSUME Overlap = FALSE
    PROVE  Spec => RemovalSticks
<1> DEFINE Revived(c) == friend[c] \in {"none", "removing"} /\ friend'[c] = "accepted"
<1>1. ASSUME TypeOK, FriendInv, [Next]_vars, NEW c \in Client, Revived(c)
      PROVE  commands' # commands \/ row[c] = "accepted"
  <2>0. friend \in [Client -> FriendshipState] /\ friend' # friend
    BY <1>1 DEF TypeOK
  <2>1. PICK d \in Client :
           \/ UserCommand(d) \/ GraceEnds(d) \/ Handle(d) \/ Environment(d)
           \/ \E m \in net[d] : Receive(d, m)
    BY <1>1, <2>0, StepKinds DEF vars
  <2>2. CASE UserCommand(d)
    BY <1>1, <2>2, CommandTypes DEF UserCommand, AddFriend, GenerateInvite, AddFriendFromInvite,
       AcceptRequest, RejectRequest, CancelRequest, RemoveFriend, SendUnfriended, BlockUser,
       UnblockUser
  <2>3. CASE GraceEnds(d) \/ PersistRequest(d) \/ ForgetRejected(d) \/ ForgetUnfriended(d)
    BY <1>1, <2>0, <2>3 DEF GraceEnds, PersistRequest, ForgetRejected, ForgetUnfriended
  <2>4. CASE AutoAccept(d)
    <3>1. friend' = [friend EXCEPT ![d] = IF @ = "none" THEN @ ELSE "accepted"]
          /\ friend[d] # "removing"
      BY <1>1, <2>4 DEF AutoAccept, FriendInv, RowFollows
    <3> QED
      BY <1>1, <2>0, <3>1
  <2>5. ASSUME NEW m \in net[d], Receive(d, m) PROVE row[c] = "accepted"
    <3>1. CASE ReceiveFriendAccept(d, m)
      BY <1>1, <2>0, <3>1 DEF ReceiveFriendAccept, BecomeFriends, Passes
    <3>2. CASE ~ReceiveFriendAccept(d, m)
      BY <1>1, <2>0, <2>5, <3>2 DEF Receive, ReceiveNothing, ReceiveFriendRequest,
         ReceiveFriendReject, ReceiveUnfriended, ReceiveUnfriendedAck
    <3> QED
      BY <3>1, <3>2
  <2>6. CASE Environment(d)
    <3>1. CASE Restart(d)
      BY <1>1, <2>0, <3>1 DEF Restart
    <3>2. CASE ~Restart(d)
      BY <1>1, <2>0, <2>6, <3>2 DEF Environment, Resend, Retry, GiveUp, Lose, ExpireStaleRequests
    <3> QED
      BY <3>1, <3>2
  <2> QED
    BY <2>1, <2>2, <2>3, <2>4, <2>5, <2>6 DEF Handle
<1>2. TypeOK /\ FriendInv /\ [Next]_vars =>
        [\A c \in Client : Revived(c) => commands' # commands \/ row[c] = "accepted"]_vars
  BY <1>1
<1> QED
  BY <1>2, FriendInvariant, PTL DEF Spec, RemovalSticks
=============================================================================
