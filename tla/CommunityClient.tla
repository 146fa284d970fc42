--------------------------- MODULE CommunityClient ---------------------------
(***************************************************************************)
(* One client and the media encryption key (MEK) of ONE community: how the *)
(* client gets the key, keeps it, and sends channel messages under it      *)
(* (src-tauri: commands/community.rs, services/community_service.rs,       *)
(* veilid_service.rs, presence_service.rs, sync_service.rs, the restore    *)
(* step of commands/auth.rs).                                              *)
(*                                                                         *)
(* The key is kept in four places: mek_cache and mek_generation in memory, *)
(* the Stronghold snapshot, the row of the table communities.  Four tasks  *)
(* read and write them: the commands join (or create) and leave, the send  *)
(* command, and the dispatch loop with its fetch_mek_from_server.  Each is *)
(* cut where the code awaits or drops a lock another task may take.        *)
(*                                                                         *)
(* The server is the abstraction of module CommunityServer that a client   *)
(* sees: the generation of its key, whether this client is a member and    *)
(* with a live route, and the messages it has stored.                      *)
(***************************************************************************)
EXTENDS Integers, FiniteSets

CONSTANTS
    Message,     \* messages the user sends
    MaxGen,      \* bound: generations of the server's key
    MaxAir,      \* bound: broadcasts in flight
    MaxRetries,  \* MAX_RETRIES of retry_pending_messages (20 in the code)
    Overlap,     \* may a MEK fetch run while the user joins or leaves?
    Mishaps,     \* kinds of mishap that happen
    MaxMishaps   \* bound: how many of these kinds happen in one behaviour

MishapKinds == {"lost", "failed", "detached", "restart", "unsaved"}

ASSUME ClientBounds == MaxGen \in Nat /\ MaxAir \in Nat /\ MaxRetries \in Nat
                       /\ Overlap \in BOOLEAN
ASSUME ClientMishaps == Mishaps \subseteq MishapKinds /\ MaxMishaps \in Nat

VARIABLES
    \* --- the server, as this client meets it
    srvGen,    \* generation of the server's MEK; 0: the community is not hosted yet
    member,    \* "no", "banned", "deaf" (our route there is dead) or "reachable"
    log,       \* server_messages
    \* --- on their way to the client
    air,       \* broadcasts
    dht,       \* is a change of subkey 5 still to be reported?
    watching,  \* does the client watch the community's record?
    \* --- AppState
    here,      \* communities[id]: "absent", "local" (no DHT key) or "listed"
    hosted,    \* is_hosted
    cache,     \* mek_cache[id]
    label,     \* mek_generation
    route,     \* is there a server_route_blob?
    attached,  \* is the node attached?
    \* --- disk
    snapshot,  \* the key in the Stronghold snapshot
    row,       \* communities
    queue,     \* pending_messages
    own,       \* messages: those of this user
    \* --- tasks under way
    sending, fetch, joining, leaving,
    \* --- observed
    dropped,   \* messages given up after MaxRetries
    mishaps    \* kinds of mishap that have happened

server == <<srvGen, member, log>>
radio  == <<air, dht, watching>>
keys   == <<cache, label, snapshot>>
place  == <<here, hosted, row>>
mail   == <<queue, own, sending, dropped>>
vars   == <<server, radio, keys, place, route, attached, mail, fetch, joining, leaving, mishaps>>

-----------------------------------------------------------------------------
(* Types.                                                                  *)

\* A key is known by its generation and by who made it.
Key == [gen : Nat, by : {"nobody", "server", "client"}]
NoKey == [gen |-> 0, by |-> "nobody"]
ServerKey(g) == [gen |-> g, by |-> "server"]
ClientKey == [gen |-> 1, by |-> "client"]

MEKRotated == [kind |-> "MEKRotated", gen |-> 0]
NewMessage(g) == [kind |-> "NewMessage", gen |-> g]

Place == {"absent", "local", "listed"}
NoRow == [kept |-> FALSE, gen |-> 0, place |-> "absent", hosted |-> FALSE]

NotSending == [pc |-> "idle", label |-> 0, key |-> NoKey, route |-> FALSE]
NotJoining == [pc |-> "idle", key |-> NoKey, label |-> 0, place |-> "absent", route |-> FALSE]
NotFetching == [pc |-> "idle", gen |-> 0]

Init ==
    /\ srvGen \in {0, 1} /\ member = "no" /\ log = {}
    /\ air = {} /\ dht = FALSE /\ watching = FALSE
    /\ here = "absent" /\ hosted = FALSE /\ cache = NoKey /\ label = 0
    /\ route = FALSE /\ attached = TRUE
    /\ snapshot = NoKey /\ row = NoRow /\ queue = {} /\ own = {}
    /\ sending = [m \in Message |-> NotSending]
    /\ fetch = NotFetching /\ joining = NotJoining /\ leaving = "no"
    /\ dropped = {} /\ mishaps = {}

Mishap(kind) ==
    /\ kind \in Mishaps /\ mishaps' = mishaps \cup {kind}
    /\ Cardinality(mishaps') <= MaxMishaps

IsMember == member \in {"deaf", "reachable"}

-----------------------------------------------------------------------------
(* The server.                                                             *)

\* A rotation, as far as this client can notice it: MEKRotated if the server
\* has a live route to it, and the change of subkey 5 if it watches the record.
Rotates ==
    /\ srvGen < MaxGen /\ srvGen' = srvGen + 1
    /\ dht' = (dht \/ watching)

Broadcast(b) ==
    IF member = "reachable" THEN /\ air' = air \cup {b}
                                 /\ Cardinality(air') <= MaxAir
                            ELSE UNCHANGED air

Rotate ==
    /\ srvGen > 0 /\ Rotates
    /\ Broadcast(MEKRotated)
    /\ UNCHANGED <<member, log, watching, keys, place, route, attached, mail, fetch, joining, leaving, mishaps>>

\* handle_kick, handle_ban: the broadcasts go to those who remain.
Remove ==
    /\ IsMember /\ ~hosted /\ Rotates
    /\ member' \in {"no", "banned"}
    /\ UNCHANGED <<log, air, watching, keys, place, route, attached, mail, fetch, joining, leaving, mishaps>>

\* Somebody else's message is accepted and broadcast.
OthersSend ==
    /\ member = "reachable"
    /\ Broadcast(NewMessage(srvGen))
    /\ UNCHANGED <<server, dht, watching, keys, place, route, attached, mail, fetch, joining, leaving, mishaps>>

\* Variant: the server does not compare generations.
AcceptsAny(p) == IsMember

\* handle_send_message.
Accepts(p) == IsMember /\ p.label = srvGen
Logged(m, p) == log \cup {[msg |-> m, key |-> p.key, label |-> p.label]}

-----------------------------------------------------------------------------
(* The network and the process.                                            *)

Lose(b) ==
    /\ b \in air /\ Mishap("lost")
    /\ air' = air \ {b}
    /\ UNCHANGED <<server, dht, watching, keys, place, route, attached, mail, fetch, joining, leaving>>

Detach ==
    /\ attached /\ Mishap("detached")
    /\ attached' = FALSE
    /\ UNCHANGED <<server, radio, keys, place, route, mail, fetch, joining, leaving>>

Attach ==
    /\ ~attached /\ attached' = TRUE
    /\ UNCHANGED <<server, radio, keys, place, route, mail, fetch, joining, leaving, mishaps>>

\* route_refresh_loop replaces the client's own route every two minutes, and
\* only a Join request ever tells a community server about it.
RefreshOwnRoute ==
    /\ attached /\ member = "reachable"
    /\ member' = "deaf"
    /\ UNCHANGED <<srvGen, log, radio, keys, place, route, attached, mail, fetch, joining, leaving, mishaps>>

\* restore_community_pseudonyms_and_meks: the key comes from the snapshot, the
\* generation from the row; a hosted community without a key gets a new one.
\* Whether the row has a route, saved whenever one is learnt, is left open.
Restore ==
    /\ here' = row.place /\ hosted' = row.hosted /\ route' \in {FALSE, row.kept}
    /\ IF row.hosted /\ snapshot = NoKey
       THEN cache' = ClientKey /\ snapshot' = ClientKey /\ label' = 1
       ELSE /\ cache' = IF row.kept THEN snapshot ELSE NoKey
            /\ label' = row.gen /\ snapshot' = snapshot

\* The process ends and the user logs in again.  Watches are not set up again.
Restart ==
    /\ Mishap("restart")
    /\ Restore
    /\ member' = IF member = "reachable" THEN "deaf" ELSE member
    /\ air' = {} /\ dht' = FALSE /\ watching' = FALSE
    /\ attached' = TRUE
    /\ sending' = [m \in Message |-> NotSending]
    /\ fetch' = NotFetching /\ joining' = NotJoining /\ leaving' = "no"
    /\ UNCHANGED <<srvGen, log, row, queue, own, dropped>>

-----------------------------------------------------------------------------
(* Routes to the server.                                                   *)

\* sync_community_server_route, handle_community_route_change.
SyncRoute ==
    /\ attached /\ here = "listed" /\ srvGen > 0 /\ ~route
    /\ route' = TRUE
    /\ UNCHANGED <<server, radio, keys, place, attached, mail, fetch, joining, leaving, mishaps>>

\* Any request of the user that finds no route or a dead one: the route is read
\* from the record, which is closed afterwards; that ends the watch.
HealRoute ==
    /\ attached /\ here = "listed" /\ ~hosted /\ srvGen > 0
    /\ \/ ~route /\ UNCHANGED mishaps
       \/ route /\ Mishap("failed")
    /\ route' \in BOOLEAN
    /\ watching' = FALSE
    /\ UNCHANGED <<server, air, dht, keys, place, attached, mail, fetch, joining, leaving>>

-----------------------------------------------------------------------------
(* Joining and creating.                                                   *)

\* With Overlap = FALSE the user does not join or leave while a key is fetched.
FetchAside == Overlap \/ fetch.pc = "idle"
UserAside == Overlap \/ (joining.pc = "idle" /\ leaving = "no")

Asks(pl, k, r) ==
    joining' = [NotJoining EXCEPT !.pc = "answered", !.key = k, !.place = pl, !.route = r]

\* read_community_from_dht and send_join_rpc.  Without the record, the route or
\* an answer the client joins "locally", with no key; only a refusal ends it.
JoinAsk ==
    /\ joining.pc = "idle" /\ leaving = "no" /\ FetchAside /\ srvGen > 0
    /\ \/ /\ \/ ~attached /\ UNCHANGED mishaps
             \/ Mishap("failed")
          /\ Asks("local", NoKey, FALSE) /\ UNCHANGED <<member, watching>>
       \/ /\ attached /\ member # "banned"
          /\ Asks("listed", ServerKey(srvGen), TRUE)
          /\ member' = "reachable" /\ watching' = TRUE /\ UNCHANGED mishaps
       \/ /\ attached /\ member = "banned" /\ watching' = TRUE
          /\ UNCHANGED <<member, joining, mishaps>>
       \/ /\ attached /\ Mishap("failed") /\ watching' = TRUE
          /\ \/ Asks("listed", NoKey, FALSE) /\ UNCHANGED member
             \/ /\ Asks("listed", NoKey, TRUE)
                /\ member' \in {member, IF member = "banned" THEN member ELSE "reachable"}
    /\ UNCHANGED <<srvGen, log, air, dht, keys, place, route, attached, mail, fetch, leaving>>

\* mek_cache.insert and communities.insert.
JoinInstall ==
    /\ joining.pc = "answered"
    /\ cache' = IF joining.key = NoKey THEN cache ELSE joining.key
    /\ label' = joining.key.gen /\ route' = joining.route
    /\ here' = joining.place /\ hosted' = FALSE
    /\ joining' = [NotJoining EXCEPT !.pc = "persist", !.place = joining.place]
    /\ UNCHANGED <<server, radio, snapshot, row, attached, mail, fetch, leaving, mishaps>>

\* create_community_with_dht, create_community_local: the client makes a key.
Create ==
    /\ srvGen = 0 /\ here = "absent" /\ joining.pc = "idle" /\ leaving = "no" /\ ~row.kept
    /\ cache' = ClientKey /\ label' = 1
    /\ here' \in {"listed", "local"} /\ hosted' = TRUE
    /\ joining' = [NotJoining EXCEPT !.pc = "persist", !.place = here']
    /\ UNCHANGED <<server, radio, snapshot, row, route, attached, mail, fetch, leaving, mishaps>>

Saves(k) == \/ snapshot' = k /\ UNCHANGED mishaps
            \/ UNCHANGED snapshot /\ Mishap("unsaved")

\* The cached key goes to the vault, the remembered generation to the row.
JoinPersist ==
    /\ joining.pc = "persist"
    /\ IF cache = NoKey THEN UNCHANGED <<snapshot, mishaps>> ELSE Saves(cache)
    /\ joining' = [joining EXCEPT !.pc = "row", !.label = label]
    /\ UNCHANGED <<server, radio, cache, label, place, route, attached, mail, fetch, leaving>>

\* INSERT OR IGNORE INTO communities.
JoinRow ==
    /\ joining.pc = "row"
    /\ row' = IF row.kept THEN row
              ELSE [kept |-> TRUE, gen |-> joining.label, place |-> joining.place,
                    hosted |-> hosted]
    /\ joining' = NotJoining
    /\ UNCHANGED <<server, radio, keys, here, hosted, route, attached, mail, fetch, leaving, mishaps>>

\* ensure_community_hosted, or the server started at the next login: it makes a
\* key of its own and registers the creator without a route.
HostCommunity ==
    /\ srvGen = 0 /\ row.kept /\ row.hosted /\ row.place = "listed"
    /\ srvGen' = 1 /\ member' = "deaf"
    /\ UNCHANGED <<log, radio, keys, place, route, attached, mail, fetch, joining, leaving, mishaps>>

-----------------------------------------------------------------------------
(* Leaving.                                                                *)

\* leave_community: the request is a courtesy, its outcome is ignored.
LeaveAsk ==
    /\ here # "absent" /\ leaving = "no" /\ joining.pc = "idle" /\ FetchAside
    /\ \/ IsMember /\ (hosted \/ attached) /\ Rotates /\ member' = "no" /\ UNCHANGED mishaps
       \/ /\ ~IsMember \/ ~(hosted \/ attached)
          /\ UNCHANGED <<srvGen, member, dht, mishaps>>
       \/ Mishap("failed") /\ UNCHANGED <<srvGen, member, dht>>
    /\ leaving' = "forget"
    /\ UNCHANGED <<log, air, watching, keys, place, route, attached, mail, fetch, joining>>

\* Variant: the key stays in the cache.
LeaveForgetState ==
    /\ leaving = "forget"
    /\ label' = 0 /\ route' = FALSE /\ here' = "absent" /\ hosted' = FALSE
    /\ leaving' = "row"
    /\ UNCHANGED <<server, radio, cache, snapshot, row, attached, mail, fetch, joining, mishaps>>

\* The key leaves the cache and the vault; the snapshot is not saved.
LeaveForget ==
    /\ leaving = "forget"
    /\ cache' = NoKey /\ label' = 0 /\ route' = FALSE
    /\ here' = "absent" /\ hosted' = FALSE
    /\ leaving' = "row"
    /\ UNCHANGED <<server, radio, snapshot, row, attached, mail, fetch, joining, mishaps>>

LeaveRow ==
    /\ leaving = "row"
    /\ row' = NoRow /\ leaving' = "no"
    /\ UNCHANGED <<server, radio, keys, here, hosted, route, attached, mail, fetch, joining, mishaps>>

-----------------------------------------------------------------------------
(* The dispatch loop and fetch_mek_from_server.                            *)

\* Without a route or a node nothing is asked, and nobody will try again.
Ask == fetch' = IF here # "absent" /\ route /\ attached
                THEN [NotFetching EXCEPT !.pc = "ask"] ELSE NotFetching

HandleMEKRotated ==
    /\ fetch.pc = "idle" /\ UserAside
    /\ MEKRotated \in air /\ air' = air \ {MEKRotated}
    /\ Ask
    /\ UNCHANGED <<server, dht, watching, keys, place, route, attached, mail, joining, leaving, mishaps>>

\* handle_broadcast_new_message: a message under another generation than the
\* cached key's asks for the key; without any key the message is dropped.
HandleNewMessage(g) ==
    /\ fetch.pc = "idle" /\ UserAside
    /\ NewMessage(g) \in air /\ air' = air \ {NewMessage(g)}
    /\ IF cache # NoKey /\ cache.gen # g THEN Ask ELSE UNCHANGED fetch
    /\ UNCHANGED <<server, dht, watching, keys, place, route, attached, mail, joining, leaving, mishaps>>

\* Variant: only the generation is looked at, which the broadcast has announced.
NoteMekChange ==
    /\ fetch.pc = "idle" /\ UserAside
    /\ dht /\ dht' = FALSE
    /\ UNCHANGED <<server, air, watching, keys, place, route, attached, mail, fetch, joining, leaving, mishaps>>

\* handle_community_mek_change.
HandleMekChange ==
    /\ fetch.pc = "idle" /\ UserAside
    /\ dht /\ dht' = FALSE
    /\ IF here = "listed" THEN Ask ELSE UNCHANGED fetch
    /\ UNCHANGED <<server, air, watching, keys, place, route, attached, mail, joining, leaving, mishaps>>

\* Variant: handle_request_mek reads the row of the key before the newest.
FetchCallBefore ==
    /\ fetch.pc = "ask" /\ IsMember
    /\ \E gen \in {srvGen, srvGen - 1} \ {0} : fetch' = [pc |-> "answered", gen |-> gen]
    /\ UNCHANGED <<server, radio, keys, place, route, attached, mail, joining, leaving, mishaps>>

FetchCall ==
    /\ fetch.pc = "ask"
    /\ \/ IsMember /\ fetch' = [pc |-> "answered", gen |-> srvGen] /\ UNCHANGED mishaps
       \/ ~IsMember /\ fetch' = NotFetching /\ UNCHANGED mishaps
       \/ Mishap("failed") /\ fetch' = NotFetching
    /\ UNCHANGED <<server, radio, keys, place, route, attached, mail, joining, leaving>>

\* mek_cache.insert, then persist_mek up to its first await.
FetchInstall ==
    /\ fetch.pc = "answered"
    /\ cache' = ServerKey(fetch.gen)
    /\ label' = IF here = "absent" THEN label ELSE fetch.gen
    /\ Saves(ServerKey(fetch.gen))
    /\ fetch' = [fetch EXCEPT !.pc = "row"]
    /\ UNCHANGED <<server, radio, place, route, attached, mail, joining, leaving>>

FetchRow ==
    /\ fetch.pc = "row"
    /\ row' = IF row.kept THEN [row EXCEPT !.gen = fetch.gen] ELSE row
    /\ fetch' = NotFetching
    /\ UNCHANGED <<server, radio, keys, here, hosted, route, attached, mail, joining, leaving, mishaps>>

-----------------------------------------------------------------------------
(* Sending a channel message.                                              *)

\* send_channel_message reads generation and route under one lock ...
SendRead(m) ==
    /\ here # "absent" /\ m \notin own /\ sending[m].pc = "idle"
    /\ sending' = [sending EXCEPT ![m] = [pc |-> "encrypt", label |-> label,
                                          key |-> NoKey, route |-> route]]
    /\ UNCHANGED <<server, radio, keys, place, route, attached, queue, own, dropped, fetch, joining, leaving, mishaps>>

\* ... and the key under another; the message is then stored locally.
SendEncrypt(m) ==
    /\ sending[m].pc = "encrypt"
    /\ IF cache = NoKey
       THEN sending' = [sending EXCEPT ![m] = NotSending] /\ UNCHANGED own
       ELSE /\ sending' = [sending EXCEPT ![m].pc = "call", ![m].key = cache]
            /\ own' = own \cup {m}
    /\ UNCHANGED <<server, radio, keys, place, route, attached, queue, dropped, fetch, joining, leaving, mishaps>>

\* Variant: any answer of the server counts as success.
DeliversAnyAnswer(m, p) ==
    /\ \/ attached /\ log' = IF Accepts(p) THEN Logged(m, p) ELSE log
       \/ ~attached /\ UNCHANGED log
    /\ UNCHANGED <<route, mishaps>>

\* send_encrypted_to_server reports success: stored, or nothing done at all
\* because the node is not attached.
Delivers(m, p) ==
    /\ \/ attached /\ Accepts(p) /\ log' = Logged(m, p)
       \/ ~attached /\ UNCHANGED log
    /\ UNCHANGED <<route, mishaps>>

\* It reports an error: refused, or no answer came, whatever the server did.
Fails(m, p) ==
    \/ attached /\ ~Accepts(p) /\ UNCHANGED <<log, route, mishaps>>
    \/ /\ attached /\ Mishap("failed") /\ route' = FALSE
       /\ log' \in {log, IF Accepts(p) THEN Logged(m, p) ELSE log}

Row(m, p, n) == [msg |-> m, key |-> p.key, label |-> p.label, tries |-> n]

SendCall(m) ==
    LET p == sending[m] IN
    /\ p.pc = "call"
    /\ \/ p.route /\ Delivers(m, p) /\ UNCHANGED queue
       \/ /\ p.route /\ Fails(m, p)
          /\ queue' = queue \cup {Row(m, p, 0)}
       \/ /\ ~p.route /\ queue' = queue \cup {Row(m, p, 0)}
          /\ UNCHANGED <<log, route, mishaps>>
    /\ sending' = [sending EXCEPT ![m] = NotSending]
    /\ UNCHANGED <<srvGen, member, radio, keys, place, attached, own, dropped, fetch, joining, leaving>>

\* retry_single_pending, for a channel message: it is sent as it was encrypted.
Retry(q) ==
    /\ q \in queue
    /\ \/ /\ q.tries >= MaxRetries
          /\ queue' = queue \ {q} /\ dropped' = dropped \cup {q.msg}
          /\ UNCHANGED <<log, route, mishaps>>
       \/ /\ q.tries < MaxRetries /\ route /\ Delivers(q.msg, q)
          /\ queue' = queue \ {q} /\ UNCHANGED dropped
       \/ /\ q.tries < MaxRetries
          /\ \/ route /\ Fails(q.msg, q)
             \/ ~route /\ UNCHANGED <<log, route, mishaps>>
          /\ queue' = (queue \ {q}) \cup {Row(q.msg, q, q.tries + 1)}
          /\ UNCHANGED dropped
    /\ UNCHANGED <<srvGen, member, radio, keys, place, attached, own, sending, fetch, joining, leaving>>

-----------------------------------------------------------------------------

User == \/ JoinAsk \/ Create \/ LeaveAsk
        \/ \E m \in Message : SendRead(m)

Command == JoinInstall \/ JoinPersist \/ JoinRow \/ LeaveForget \/ LeaveRow

HandleBroadcast == HandleMEKRotated \/ \E g \in 1..MaxGen : HandleNewMessage(g)

Fetch == FetchCall \/ FetchInstall \/ FetchRow

Dispatch == HandleBroadcast \/ HandleMekChange \/ Fetch

Sync == SyncRoute \/ \E q \in queue : Retry(q)

Environment == \/ Rotate \/ Remove \/ OthersSend \/ HostCommunity
               \/ Detach \/ Attach \/ RefreshOwnRoute \/ Restart \/ HealRoute
               \/ \E b \in air : Lose(b)

Next == \/ User \/ Command \/ Dispatch \/ Sync \/ Environment
        \/ \E m \in Message : SendEncrypt(m) \/ SendCall(m)

\* Commands and the dispatch loop run to their end and changes of a watched
\* record are reported; users, rotations and mishaps owe nothing.
Fairness ==
    /\ WF_vars(Command)
    /\ WF_vars(HandleBroadcast) /\ WF_vars(HandleMekChange) /\ WF_vars(Fetch)

Spec == Init /\ [][Next]_vars /\ Fairness

-----------------------------------------------------------------------------
(* Properties.                                                             *)

Task == [pc : {"idle", "encrypt", "call"}, label : Nat, key : Key, route : BOOLEAN]

TypeOK ==
    /\ srvGen \in Nat /\ member \in {"no", "banned", "deaf", "reachable"}
    /\ log \subseteq [msg : Message, key : Key, label : Nat]
    /\ air \subseteq [kind : {"MEKRotated", "NewMessage"}, gen : Nat]
    /\ dht \in BOOLEAN /\ watching \in BOOLEAN
    /\ here \in Place /\ hosted \in BOOLEAN
    /\ cache \in Key /\ label \in Nat /\ snapshot \in Key
    /\ route \in BOOLEAN /\ attached \in BOOLEAN
    /\ row \in [kept : BOOLEAN, gen : Nat, place : Place, hosted : BOOLEAN]
    /\ queue \subseteq [msg : Message, key : Key, label : Nat, tries : Nat]
    /\ own \subseteq Message /\ dropped \subseteq Message
    /\ sending \in [Message -> Task]
    /\ fetch \in [pc : {"idle", "ask", "answered", "row"}, gen : Nat]
    /\ joining \in [pc : {"idle", "answered", "persist", "row"}, key : Key, label : Nat,
                    place : Place, route : BOOLEAN]
    /\ leaving \in {"no", "forget", "row"}
    /\ mishaps \subseteq MishapKinds

\* What the server has accepted from a member under generation g is encrypted
\* with key g.  Generation and key are read under different locks, kept in
\* different stores and retried later as they were; only the order in which
\* they are written, and the check of the server, keep them together
\* (handle_send_message, persist_mek).  A key that could not be saved undoes it.
AcceptedIsReadable ==
    "unsaved" \notin mishaps =>
        \A e \in log : e.key.by = "server" => e.key.gen = e.label

\* Neither the saved key nor, while the process runs, the cached one is ever
\* replaced by an older key, whatever the order of answers, broadcasts and
\* rejoins (mek_cache.insert and store_key are unconditional).
NeverOlder ==
    [][/\ snapshot'.gen >= snapshot.gen
       /\ Restart \/ cache' = NoKey \/ cache'.gen >= cache.gen]_vars

\* A message the user was told is sent is stored by the server, queued, on its
\* way or was given up after MaxRetries; a restart or a detached node loses it.
SentIsKept ==
    {"restart", "detached"} \cap mishaps = {} =>
        \A m \in own : \/ sending[m].pc # "idle" \/ m \in dropped
                       \/ \E e \in log \cup queue : e.msg = m

\* Once the user has left, no handler puts the key back (leave_community).
LeftForgets ==
    (/\ here = "absent" /\ ~row.kept
     /\ joining.pc = "idle" /\ fetch.pc = "idle") => cache = NoKey

\* A member that watches the record, and whose calls work, ends up with the
\* newest key however many broadcasts are lost.
Settled == /\ here = "listed" /\ ~hosted /\ watching /\ IsMember
           /\ mishaps \subseteq {"lost", "unsaved"}
KeyCatchesUp == <>[]Settled => <>[](cache = ServerKey(srvGen) /\ label = srvGen)
=============================================================================
