# Rekindle: specifications and proofs

TLA+ models of Rekindle, a peer-to-peer chat client on Veilid, and of the community
server it starts: what the code keeps in memory, in SQLite and in the DHT, and what
its handlers, loops and commands do to it. TLC checks the models on small instances;
TLAPS proves some of the properties for every value of the constants.

Paths below are relative to `src/`. `rpc.rs`, `community_host.rs`, `mek.rs`, `main.rs`
are those of `crates/rekindle-server/src`; `friends.rs`, `auth.rs` are in
`src-tauri/src/commands`, `message_service.rs` and `sync_service.rs` in
`src-tauri/src/services`.

## 1. The system

Each user runs the Tauri client (`src-tauri`), which keeps its state in `AppState`
(locks, lost at exit) and in SQLite. Clients talk to each other through Veilid
`app_message` to private routes, without a delivery guarantee. A community is hosted by a
`rekindle-server` process that the owner's client starts and controls through a
Unix socket; members call it with `app_call`, and find its current route in subkey 6
of the community's DHT record.

| Component | State | Operations | What is hard | What makes it correct | Model |
|---|---|---|---|---|---|
| Community server: membership, bans, MEK (`rpc.rs`, `community_host.rs`, `mek.rs`) | roster, creator, current media key (MEK) in `ServerState.hosted`; tables `server_members`, `server_member_roles`, `banned_members`, `server_roles`, `server_mek` | join, leave, kick, ban, unban, request and rotate MEK, assign, unassign and edit role, host, load at start | a task per request, several critical sections per handler, autocommitted statements, crash between any two | removed people do not hold the current key; one key per generation; keys survive restarts; roster equals tables; banned people stay out | `CommunityServer`, `MembershipKeys` |
| Community server: roles, overwrites, timeouts (`rpc.rs`, `dht/community.rs`) | role definitions, role ids of members, channel overwrites, timeouts, and their tables | create, edit, delete, assign, unassign; set and delete overwrites; time out; channels | long sequences of legal requests, reused ids, the order of the steps of `calculate_permissions` | permissions as the comment promises (they are not, section 3), no stale role ids, a timeout silences, restart changes nothing that the tables can hold | `CommunityRoles`, `Permissions` |
| Community server: DHT publication (`community_host.rs`) | DHT record: metadata, channels, roster, MEK subkeys | publish tails, keepalive loop | snapshot, unlock, await; overtaking; failed calls; expiry | the record catches up with memory | `ServerPublication` |
| Community server: private routes (`community_host.rs`, `main.rs`) | `route_id`, `route_blob`, update channel, DHT subkey 6 | host, keepalive, RouteChange, retry task, unhost | four tasks replacing one route across awaits, dropped events, failed allocations | a route has one holder; the community becomes reachable again | `ServerRoutes` |
| Friend requests and friendship (`friends.rs`, `message_service.rs`, `sync_service.rs`) | `friends`, tables `friends`, `pending_friend_requests`, `blocked_users`, `pending_messages` | add, invite, accept, reject, cancel, remove, block; handlers of the dispatch loop; retry; expiry; login | crossing requests, lost, doubled, late messages; memory against rows | both users agreed; restarts change nothing; what ended stays ended | `Friendship` |
| Signal sessions (`rekindle-crypto/signal`) | prekeys, sessions (in memory) | X3DH on both sides, ratchet | who initiates, which bundle, consumed prekeys, lost messages | friends share a key | X3DH in `Friendship`; the ratchet is not modelled |
| Direct messages, queue and retry (`message_service.rs`, `sync_service.rs`) | `pending_messages`, route cache | send, queue, retry, drop after 20 | duplicates, errors that stop the loop, stale rows | nothing is lost silently | friendship messages in `Friendship`, channel messages in `CommunityClient`; not the order of several rows |
| A member's client: media key (`commands/community.rs`, `services/community_service.rs`, `veilid_service.rs`) | `mek_cache`, `mek_generation`, Stronghold snapshot, row, `pending_messages` | create, join, leave, send, retry, MEK broadcasts and fetches, restart | key and generation are kept apart, in four places, by four tasks; lost broadcasts | what the server accepts can be read; keys never go back; the newest key arrives | `CommunityClient` |
| A member's client: roles, members, channels (same files, `presence_service.rs`, `sync_service.rs`) | `CommunityState`, tables `community_roles`, `communities`, `channels`, `community_members` | the commands, their broadcasts, changes of the record, sync loop, restart | broadcasts without versions against answers, memory against tables | memory, tables and server agree in the end | `CommunityCache` |
| Login, logout, identity (`auth.rs`) | snapshot, row `identity`, `AppState`, background tasks | create, login, logout, exit, delete | tasks of an old session; crash between key and row | an identity can be unlocked; no state crosses sessions | `PresencePublisher`; restore functions in `Friendship`, `CommunityClient`, `CommunityCache` |
| Presence: the user's side (`status.rs`, `idle_service.rs`, `presence_service.rs`) | status, `pre_away_status`, status subkey | set, idle tick, heartbeat, publication, logout | five writers of one subkey, each awaiting before it writes | the record shows the status; the user's choice stays | `PresencePublisher`, `ProfileStatus` |
| Presence: a friend's side (`presence_service.rs`, `sync_service.rs`, `veilid_service.rs`) | watches, local copies, `FriendState`, unwatched set | watch, value change, poll, staleness, attach | watches end silently, three sources of values | the status shown is recent; a watch is never forgotten | `FriendPresence`, `ProfileStatus` |
| Node, routes and dispatch of the client (`veilid_service.rs`) | own route, attachment | refresh, dispatch | as on the server | - | the dispatch loop and attachment in the three client modules; the client's own routes are not modelled |
| DHT data structures and records (`dht/log.rs`, `dht/short_array.rs`, `dht/account.rs`, ...) | spine, segments, head, slots | append, add, remove | two writes per operation | positions keep their entries | not modelled: the client creates such records and does not append to them yet |
| Voice (`rekindle-voice`, `commands/voice.rs`) | jitter buffer, loops, devices | push, pop, start, stop | loss, reorder, gaps | in order, no stall | not modelled |
| Server process and IPC (`ipc.rs`, `server_health_service.rs`) | child process, socket | start, health check, restart, shutdown | two starters, crash loops | at most one server | broadcasts in the client modules, crash and restart in the server modules; the process itself is not modelled |
| Codec, other cryptography, game detection, settings and windows, frontend, end-to-end test server | none of interest, or mirrors | - | - | - | not modelled: stateless computations, user interface, test code |

The client starts the server and tells it which communities to host (IPC); members
change the server's state by requests and learn of changes by broadcast and by the
DHT record; clients change each other's state only by messages. `PROJECT.json` has
the same list with the sources, and the hazards of the code line by line.

## 2. Modules

| Module | Role |
|---|---|
| `CommunityServer` | membership, bans, MEK of one community; one action per critical section |
| `MembershipKeys` | what a key server promises, abstractly; `CommunityServer!KeepsPromise` is the refinement |
| `MCCommunityServer` | people, slots and role edits for TLC |
| `CommunityServerProofs` | types, keys, holders, founding, bans, roster against tables, and the refinement (9 theorems) |
| `Permissions` | `calculate_permissions` as sets of bits (`Calculate`), what it decides for each of them (`Effective`), and what its doc comment says (`AsDocumented`) |
| `CommunityRoles` | roles, overwrites, timeouts of one community, and what a restart makes of them; uses `Permissions` |
| `MCCommunityRoles` | people, a channel and masks for TLC |
| `CommunityRolesProofs` | `CalculationDecides`, `AgreesUnlessContradictory`, `TimeoutSilences`, `RestartRebuilds`, `HeldExist` |
| `ServerRoutes` | the four tasks that replace the private route |
| `ServerPublication`, `MCServerPublication` | the publish tails and the keepalive loop; instance |
| `ServerRecordProofs` | what the server keeps in its DHT record, route and values: `RouteTypes`, `RoutesHeldOnce`, `PublicationTypes`, `RecordBehind` |
| `Friendship`, `MCFriendship` | two clients, the network between them, their Signal keys; instance |
| `FriendshipProofs` | `FriendshipTypes`, `FriendsAgreed`, `LoginFindsTheFriends`, `BlockedAreOut`, `EndedStaysEnded` |
| `CommunityClient`, `MCCommunityClient` | one member's client and the media key of one community; instance |
| `CommunityClientProofs` | `ClientTypes`, `SentAreKept`, `LeftForget`, `KeysNeverOlder`, `AcceptedReadable` |
| `CommunityCache`, `MCCommunityCache` | roles, members and channels as a member's client keeps them; instance |
| `CommunityCacheProofs` | `CacheTypes`, `RestartLoadsTheRoles` |
| `ProfileStatus` | what a user's client promises to those who watch its profile, abstractly |
| `PresencePublisher`, `MCPresencePublisher` | account, sessions and published status of one user; `KeepsPromise` is the refinement of `ProfileStatus` |
| `PresencePublisherProofs` | `PublisherTypes`, `RowKeepsKey`, `ChoiceKept`, `PublisherImplements` |
| `FriendPresence`, `MCFriendPresence` | the status a friend's client shows, for any user that keeps `ProfileStatus` |
| `FriendPresenceProofs` | `PresenceTypes`, `NoWatchForgotten` |

`ProfileStatus` composes two programs: `PresencePublisher` is shown to implement it,
`FriendPresence` takes it for the user. `MembershipKeys` is the contract of
`CommunityServer`; `CommunityClient` and `CommunityCache` contain a server reduced to
what a client can tell: its generation, whether this client is a member, its roster.

Definitions keep the names of the code: actions are named after handlers and
commands, variables after fields, tables and columns. Operators whose comment begins
with "Variant" are mutated forms that show that a property can fail; they are not
part of any specification.

### CommunityServer

`hosted`, `members`, `creator`, `mek` are `HostedCommunity`; `row` to
`server_mek` the tables; `op[s]` and `host[h]` the program counter and locals of
a request and of a `host_community` call; `known`, `founders`, `keys` observe what
left the server, `raced` whose ban was stored in the middle of a join. A handler that
takes `hosted.write()` once is one action (`Leave`, `RequestMek`, `AssignRole`, ...); `handle_join` is `JoinCheckBan`,
`JoinRejoin`, `JoinReadFirst`, `JoinInsert`, `JoinPush`; removal is `RemoveVerify`,
`RemoveDelete`, `RemoveRetain` (rotation included); `host_community` is `HostBegin`,
`HostCheck`, `HostLoadMek`, `HostCreateMek`, `HostLoadMembers`,
`HostRegisterCreator`, `HostInsert`. `Crash`, `CrashInJoin` and `CrashInRegister` end the
process between two actions, or inside the two runs of autocommitted INSERTs.

Role definitions are data: the five defaults, whose permissions and positions `EditRole`
replaces by whatever is asked for, and `HasPermission`, `Outranks` and `AssignRole` read them.

Abstractions: the first two reads of `handle_join` (`contains_key` and the ban check)
are one step; roles are created and deleted in `CommunityRoles` only; the DELETE of a
member cascades to its roles as the schema says; a failing SQL statement occurs only as
the primary-key conflict of `rotate_mek`; sending a message, which changes nothing here,
is in `CommunityClient`. `KeysLeft` bounds the keys generated, counting those that accepted
removals are going to need.

### ServerRoutes and ServerPublication

Both abstract data to what the tasks compare: a route and its blob are one value, a
published value is a version number. Each await is a step boundary. The faults are
counted together: failed calls, dead routes, dropped events, expired subkeys,
unhosting, restarts.

### CommunityRoles and Permissions

A permission mask is the set of its bits; the instance keeps those that a property
tells apart. Each request is one action, because the handlers hold the write lock from
the check to the last change; the SQL statement that follows is part of the action.
Renaming a channel is left out: no property is about names.

What the statements do with odd values is modelled. `MisnamedOverwrite` is a request whose
`target_type` is neither role nor member: memory takes it for a role, the CHECK of the table
refuses the row, and the error is dropped (`refused`). A mask with the top bit (`TopBit`)
and a time beyond 2^63 (`Endless`) are stored as negative numbers and skipped when they are
loaded. `Restart` is what the `load_*_from_db` functions make of the tables, default roles
included when nothing could be loaded. `RestartChangesNothing` excepts these rows, and
nothing else. The start may follow a crash in the middle of `create_default_roles`
(`LastCreated`), which leaves the first of the five roles for good.

Anybody may leave, the creator included; the next to join an empty roster becomes creator
and is given the ids 0 to 4, everybody else 0 and 1, whatever roles exist by then
(`GivenIds`). Join and leave are one action here; `CommunityServer` interleaves their
critical sections.

### Friendship

`friend[c]` is the entry for the peer in `AppState.friends`, `row[c]` the row of the
table; `request`, `blocked`, `queue` are the other tables. A handler of the dispatch
loop that awaits between reading the state of the friend and acting on it is two
actions, with `task[c]` in between; the loop handles one message after the other.
Commands of the user are one action each. A key is a term `[by, bundle, nth]`: X3DH
of the initiator `by` with bundle `bundle` of its peer and its `nth` ephemeral key.
Because every bundle is stored under the ids (1, 1), the responder computes the term
with the bundle it holds when the FriendAccept arrives.

Abstractions: messages in flight and queued rows are sets; reading a queued row and
sending it is one step; the route cache is a nondeterministic outcome of a send;
accept and reject are given only for a request that is stored, as the window shows
them; the ratchet, display names, mailbox and profile keys are left out.

### CommunityClient

`cache` and `label` are `mek_cache[id]` and `mek_generation`, `snapshot` the key in the
Stronghold snapshot, `row` the row of `communities`, `queue` and `own` the rows of
`pending_messages` and `messages`. A key is its generation and who made it. `join_community`
and `create_community` are `JoinAsk` or `Create`, `JoinInstall`, `JoinPersist`,
`JoinRow`; `leave_community` is `LeaveAsk`, `LeaveForget`, `LeaveRow`;
`fetch_mek_from_server` is `FetchCall`, `FetchInstall`, `FetchRow`;
`send_channel_message` is `SendRead`, `SendEncrypt`, `SendCall`: generation and key are
read under different locks. The dispatch loop starts one fetch at a time. `Overlap`
says whether it may do so while the user joins or leaves.

Mishaps: a lost broadcast, a failed call (the answer may be lost after the server has
acted), a detached node, a restart, a key that cannot be saved.

### CommunityCache

`server` is one state of the hosted community, `published` its record, `air` the
broadcasts to this client in order. `node` is the client's Veilid node: its copy of the
record, whether it watches it, and whether this client created the community. `changed`
are the subkeys whose change the node has reported and nobody has handled yet. Every read of
the record is a read of `node.copy`, because `get_value` does not force a refresh
(`dht/mod.rs:192`); only a watch renews the copy (`Put`). `memory` is `CommunityState`, `table` the four tables. A command is its answer
(`command`) applied to memory, then to the table, then to the member's own role ids; a
broadcast is handled by the dispatch loop in the same steps (`task`). The sync loop
replaces the channels in memory by those of the copy. A definition is its id and its position; the list of
definitions in memory, which the code searches by id, is for each id the sequence of
positions listed under it (`RoleList`), so that a role listed twice shows. The
start is the creator's client (which never watches the record) or that of somebody who has
just joined (whose watch may have failed); the channel that `create_community` makes is in
the record, and unknown to the server. `Publish` is the keepalive, which publishes again and
again; a report that tells a client only what it has is left out (`Outdated`). Bans,
overwrites and names, of which the client keeps nothing that a property tells apart,
are left out. Each kind of upset is counted once, however often it happens.

### ProfileStatus, PresencePublisher, FriendPresence

`ProfileStatus` has the value of the status subkey and whether its owner is gone, here,
here with a working heartbeat, or leaving. Time is the age of the timestamp: fresh, or
stale after `STALE_PRESENCE_THRESHOLD_MS`.

`PresencePublisher` has the account on disk (`snapshot`, `row`), the session, and five
writers of the subkey. `publish_status` is cut between reading the record's key and
writing the value (`writing`); one tick of the idle service between its decision and
its write (`idling`); `spawn_dht_publish` into its four awaits (`publish`).
`create_identity_core` and `delete_identity` are two steps each. The two locks of `set_status`
are one step, and the idle time is always known. A process may die
anywhere.

`FriendPresence` has the watch in the network, the local copy, and the two tasks that
apply values: `handle_value_change` (`handling`) and the sync loop (`syncing`).
`FriendExpires` is the passing of time for a friend that is not told of news.

## 3. Runs

Numbers are distinct states. A passing run explores all of them; actions that one run
leaves out (by `Requests`, `Commands`, `Mishaps` or a switch) occur in another.

| Run | Bounds | States | Shows |
|---|---|---|---|
| `ServerRestart` | 2 people, 1 request at a time, 1 role edited above all others, 3 keys, crashes between any two critical sections and inside a run of INSERTs | 1.1 M | `DeliveredKeysPersisted`, `GenerationNamesOneKey`, `ServedKeyIsNewest`, `RosterMatchesDatabase` |
| `ServerConcurrent` | 2 people, 2 requests in flight, 3 keys, no crash | 792 k | `CurrentKeyHoldersBelong`, `BannedAreOut`, `CreatorFoundsFirst`, and `KeepsPromise`: the handlers implement `MembershipKeys` |
| `RoutesRecover` | 7 routes, 2 faults, 1 delayed retry | 393 k | `OneHolder`, and under fairness `Recovers` |
| `RecordRefresh` | 1 handler, 2 edits, 1 fault | 257 k | under fairness `RecordCatchesUp`, and `GenerationCatchesUp` for the subkey that the keepalive does not rewrite |
| `CommunityAccess` | 2 people, 1 channel, 1 role id beyond the defaults, 3 masks, positions 0 and 4, time to 2, 3 requests or restarts | 347 k | `HeldRolesExist`, `RestartChangesNothing`, `TimedOutAreSilent` |
| `Friendship` | 2 clients (symmetric), every sequence of 4 commands with 1 mishap | 1.6 M | `MutualConsent`, `RestartKeepsFriends`, `BlockedStaysOut`, `RemovalSticks` |
| `CommunityClient` | 1 message, 2 generations, 1 broadcast in flight, 1 retry, 1 kind of mishap any number of times | 1.3 M | `AcceptedIsReadable`, `SentIsKept`, `LeftForgets`, `NeverOlder`, under fairness `KeyCatchesUp` |
| `PresencePublisher` | 2 logins, 2 profile records, 2 choices besides Online, 1 kind of mishap any number of times | 648 k | `RowHasKey`, `ChoiceIsKept`, under fairness `StatusCatchesUp`, `AutoAwayEnds`, and `KeepsPromise`: it implements `ProfileStatus`, fairness included |
| `FriendPresence` | 3 statuses, a forced read every 2nd tick, 1 kind of mishap any number of times | 511 k | under fairness `GoneIsSeen`, `StatusIsSeen`, `WatchReturns` |
| `CommunityCache` | 2 channels, role ids to 2, positions to 1, every sequence of 3 requests, commands and restarts (joining counts as one), 2 broadcasts in flight, 1 kind of upset | 509 k | `TypeOK`, `RestartKeepsRoles`, and under fairness `RolesCatchUp`, `IdsCatchUp`, `MembersCatchUp`, `ChannelsCatchUp` |
| `FindKeysDiffer` | 2 clients, both add each other, a reliable network | 97 | violates `SessionsMatch`, see below |
| `FindDenyYields` | as `CommunityAccess` | 5 k | violates `FollowsDocumentation`, see below |

The passing runs without deadlock check are those whose bounded commands, requests,
generations or logins run out, whereupon a quiet system has nothing left to do:
`CommunityAccess`, `Friendship`, `CommunityClient`, `CommunityCache`,
`PresencePublisher`.

Why these bounds suffice to meet the hazards they are for:

- Server: two people are a creator and a stranger, two slots let every critical section
  of one handler fall between any two of another, three keys are the initial one, one
  rotation and the rotation after it. The theorems hold for any number of people.
- Routes: each task may hold one route of its own while another is served and an old
  one is in the DHT; seven is one more than are ever held at a time. Two faults make
  one happen while another is being repaired.
- Publication: two edits allow an older snapshot to overtake a newer one.
- Roles: with one id beyond the defaults a role is created, deleted or lost in a restart,
  and its id given again; three requests are one that frees an id or leaves a row behind,
  one that reuses it and a restart. The masks are nothing, one that grants the right to go
  on, and one that does not load; the positions are below and above everybody else.
- Friendship: four commands are a friendship made (two), ended (one) and taken up
  again (one); with one mishap every message of it may be lost, doubled or late, or a
  client restarted anywhere.
- A member's key: two generations are enough for a key, a label and a stored message of
  different ages. One message suffices because messages do not interact but through the
  key they are encrypted with; the proofs hold for any number.
- A member's cache: three requests are a thing made, edited or given, and deleted; two
  broadcasts in flight are one that overtakes another; two channels are the first one and
  one that the server makes. Positions tell two definitions
  of one id apart, which takes two values.
- Presence: two logins let a task of the first session write in the second, two records
  let a new profile take the place of one that could not be reused. Interval 2 lets
  forced and unforced reads alternate.

In the last four a mishap may occur any number of times, but only one kind of it in one
behaviour. The theorems about `CommunityClient`, `PresencePublisher`,
`FriendPresence` and `CommunityCache` admit any combination; the liveness properties are
checked for one kind at a time.

### Disagreements found

`FindKeysDiffer` ends with a counterexample to `SessionsMatch`: `message_service.rs:277`
says that the responder derives a "matching shared secret". When two friend requests
cross, both clients initiate, both replace the bundle the other has just used, and both
respond: they end as friends with different keys (`message_service.rs:357`), and no
later message repairs that.

`FindDenyYields` ends with a counterexample to `FollowsDocumentation`: the doc comment of
`calculate_permissions` says "5. Apply role-specific channel overwrites (OR allow, then AND
NOT deny)" (`crates/rekindle-protocol/src/dht/community.rs:469`), by which a deny has the
last word; the code denies first and then allows (lines 531 and 532). The theorem
`AgreesUnlessContradictory` says that this is the only difference.

`RosterMatchesDatabase` is a property of requests served one after the other: with two in
flight it fails (section 6). `BlockedStaysOut`, `RestartKeepsFriends`,
`MutualConsent` and `RemovalSticks` are checked with `Overlap = FALSE`: commands
do not come between the steps of a handler of the dispatch loop. The code does not
exclude that; with `Overlap = TRUE` each of them fails, in a window of a few
awaits.

## 4. Fairness

- `ServerRoutes`, `ServerPublication`: weak fairness of every task that has been started
  (the tokio runtime polls a task whose await has completed, and the modelled awaits
  complete, with success or failure), of the keepalive (its interval ticks for ever), and
  of hosting (the loader hosts a persisted community at start, the owner's client asks
  again). Faults are not fair and are bounded by `Faults`: the properties say what
  happens after the last one.
- `Friendship`: weak fairness of delivery (a message that is not lost arrives), of the
  handlers (the dispatch loop runs one to its end) and of the retry of queued messages
  (`sync_service` every thirty seconds). No user command is fair.
- `CommunityClient`: weak fairness of commands once begun, of the dispatch loop, and of the
  report of a changed subkey to a client that watches it. No user, rotation or mishap is
  fair, and nothing is assumed of broadcasts: `KeyCatchesUp` holds however many are lost,
  for a member that in the end watches the record and whose calls work.
- `CommunityCache`: weak fairness of the tasks of the client, of the publication of each
  subkey by the server (the keepalive ticks for ever), of the handling of reported changes
  and of broadcasts in order, and of the sync loop, which ticks every thirty seconds. The
  watch is not fair: nobody asks for it again.
- `PresencePublisher`: weak fairness of every started task, of the heartbeat and the idle
  service (intervals that a session keeps), and of time.
- `FriendPresence`: weak fairness of the two loops and of time; strong fairness of a
  forced read that goes through: reads may fail, but not every forced one for ever.
- `CommunityServer`, `CommunityRoles`: safety only.

## 5. Proofs

From the named assumptions on constants alone (`Creator` is a pseudonym and `NoOne` is
not, requests and mishaps are known kinds, there are two clients, bounds are naturals,
switches Boolean); pseudonyms, slots, messages and routes need not be finite, bounds not
small.

| Theorem | Statement |
|---|---|
| `TypeCorrect` | `Spec => []TypeOK` of `CommunityServer` |
| `KeysSurviveRestarts`, `GenerationsAreUnique`, `ServesTheNewestKey` | if `host_community` calls do not overlap: `[]DeliveredKeysPersisted`, `[]GenerationNamesOneKey`, `[]ServedKeyIsNewest`, with any number of requests in flight and crashes anywhere |
| `HoldersBelong` | if moreover the process does not die: `[]CurrentKeyHoldersBelong`, with any number of requests in flight |
| `CreatorIsFirst` | under the same two assumptions: `[]CreatorFoundsFirst`, with any number of requests in flight |
| `BansHold` | under the same two assumptions: `[]BannedAreOut`, for any number of people and of requests in flight: whoever is banned is out of the roster or about to be taken out, but for a ban stored in the middle of a join |
| `RestartLoadsTheRoster` | if requests are served one at a time, `host_community` calls do not overlap and the owner leaves only while the community is hosted: `[]RosterMatchesDatabase`, with crashes anywhere |
| `KeepsThePromise` | under the assumptions of `HoldersBelong` `Spec => KeepsPromise`: `CommunityServer` implements `MembershipKeys` |
| `FriendshipTypes` | `Spec => []TypeOK` of `Friendship` |
| `FriendsAgreed`, `LoginFindsTheFriends`, `BlockedAreOut` | if commands do not come between the steps of a handler: `[]MutualConsent`, `[]RestartKeepsFriends`, `[]BlockedStaysOut`, for any number of commands and mishaps, restarts included |
| `EndedStaysEnded` | under the same assumption `Spec => RemovalSticks` |
| `CalculationDecides` | for all roles, overwrites, members and permissions, `calculate_permissions` grants exactly what `Effective` says: the code's own decision, in which an allow beats a deny of the same rank |
| `AgreesUnlessContradictory` | the code computes what its doc comment says, unless one overwrite for a role of the member denies what one allows |
| `TimeoutSilences` | `[]TimedOutAreSilent` of `CommunityRoles` |
| `RestartRebuilds`, `HeldExist` | `[]RestartChangesNothing`, `[]HeldRolesExist` of `CommunityRoles`, for any sequence of requests and restarts, whoever leaves, refused statements and rows that do not load included |
| `RouteTypes`, `RoutesHeldOnce` | `[]TypeOK` and `[]OneHolder` of `ServerRoutes`, for any number of routes, faults and retries |
| `PublicationTypes`, `RecordBehind` | `[]TypeOK` of `ServerPublication`; no snapshot and no subkey is ever ahead of memory |
| `ClientTypes`, `SentAreKept` | `[]TypeOK` and `[]SentIsKept` of `CommunityClient`, `Overlap` or not |
| `LeftForget`, `KeysNeverOlder`, `AcceptedReadable` | `[]LeftForgets`, `NeverOlder`, `[]AcceptedIsReadable`, if no fetch runs while the user joins or leaves |
| `CacheTypes` | `[]TypeOK` of `CommunityCache`, for any channels and bounds |
| `RestartLoadsTheRoles` | `[]RestartKeepsRoles` of `CommunityCache`, for any number of requests, commands and restarts and any combination of upsets |
| `PublisherTypes`, `RowKeepsKey`, `ChoiceKept` | `[]TypeOK`, `[]RowHasKey`, `[]ChoiceIsKept` of `PresencePublisher` |
| `PublisherImplements` | the safety part of `KeepsPromise`: `PresencePublisher` starts and steps as `ProfileStatus` |
| `PresenceTypes`, `NoWatchForgotten` | `[]TypeOK` of `FriendPresence`; a record that is not watched is polled, waits for the dispatch loop or is taken for new |

`TypeCorrect` is inductive with one lemma per group of actions; what takes work is the
roster, a function to sequences of role sets (a pseudonym may be pushed twice).

`KeyInv`: the key properties are not inductive by themselves, because a key on its way
from the database to memory is neither served nor forgotten. `KeyInv` adds that the call
under way holds the newest row, that a call which is going to create a key has seen an
empty table, and that while a call is past its check nothing is hosted, hence nothing
rotates. That last part needs `HostRace = FALSE`; with overlap the first insert makes
rotations possible and the second installs the key it loaded before them.

`HolderInv`: to see that whoever has received the served key belongs, one has to know
that nothing left the server before it hosted anything, that only generation 1 exists
until then, and that whoever passes for the creator, in memory, in the table or in the
locals of `host_community`, has been installed as such. A crash breaks the part about
an unhosted server: a process that dies between the DELETE of a member and the
rotation leaves the key with one who is out (section 6).

`FoundingInv`: before the first `host_community` call ends, nobody is listed or banned
anywhere and the only rows are the ones it writes for the creator; so the creator is
installed before anyone else can join. It is this part, about a community that is not
hosted, that a crash before the registration breaks (section 6).

`BanInv`: a ban that has been stored and a removal that is not done yet are two states in
between, so that nobody banned is listed becomes: whoever is banned and listed is the target
of a removal under way (`Expelled`). The check of the ban and the push are two critical
sections of a join, so the invariant also speaks of every join past its check: it is one
of somebody who is not banned, or whose ban was stored after that check (`Checked`). The
latter are in `raced`, from the ban until a later ban of the same person is stored
with no join under way; they are the only exception, and no request is excluded. It needs
`FoundingInv`: a roster that is loaded must not contain somebody banned, which a
crash between the row of the ban and the removal would leave.

For one request at a time (`OneRequest`), `StoredInv`: row and roster of a person differ only while a request is between writing
the one and the other (`InDoubt`), and then `HalfDone` says by how much; a
`host_community` call that has loaded the roster holds what the tables have. A crash
throws the roster away and changes no row, so it needs no exclusion. The owner's leave
over IPC does (`LeaveUnhosted`): while the community is not hosted `handle_leave` skips the
membership check, and its DELETE may fall before the INSERT of a `host_community` call, or
after the call has loaded the row.
It is excluded by name, in the theorem as in the run `ServerRestart`.

`KeepsThePromise` is a step simulation under `HolderInv`: `JoinRejoin` and
`RequestMek` are `HandKey`, `JoinPush` is `Admit`, `RemoveRetain` and
`RotateMekRequest` are `Replace`, `HostRegisterCreator` is `Install`, `HostInsert` is
`Open`, everything else is invisible. `HolderRotation` gives that a fresh key is held by
nobody; `HolderInv` that the key of a community that opens has generation 1.

`FriendInv`: that both users agreed cannot be read off one client. `Consented` relates
what a client knows to the history of both (`asked`, `willing`); `Carried` says that a
message that asks or agrees, in flight or queued, comes from someone who did;
`RowFollows` says how far row and memory may differ in the middle of each handler;
`BlockedQuiet` that no handler runs for someone who is blocked. `RowFollows` has the
part that `Overlap` breaks: while `auto_accept_cross_request` is under way the friend is
not being removed.

`CalculationDecides` expands the eight steps of the calculation into one decision per
permission: the most specific overwrite that mentions it counts. `AgreesUnlessContradictory`
needs that denying and allowing commute where they do not meet.

`RolesInv` of `CommunityRoles` says for each kind of row how far it may differ from memory:
member roles not at all; a definition in memory has its row, and a row that loads its
definition (`RolesMatch`); so for each overwrite whose target is not `refused`
(`OverwritesMatch`); a timeout is the row's, or over, or cannot be loaded
(`TimeoutsMatch`). That gives `RestartRebuilds`. It also contains `HeldRolesExist`, which is
about `server_roles` and not about `roles`: a role that does not load keeps its row, whose
id a creation cannot take. `TimeoutSilences` follows from `CalculationDecides` in
every state.

`HolderInv` of `ServerRoutes`: that a route has one holder is preserved only because a
route that a task takes from the slot leaves it in the same step, a released route is
never used again, and each task releases exactly what its program counter says it holds.

`CommunityClient`: `MailInv` follows one message through its program counter, the queue
and the log, for each of them apart. `Serial` says how commands and fetches exclude each
other and that an absent community has no cached key; it needs `Overlap = FALSE`. `Known`
adds that every generation anywhere (in answers, in memory, on disk, in the mail) is at
most the server's, and that an answer under way is not older than what it replaces:
hence `NeverOlder`. `Saved` adds that a label never outruns the
key that goes with it, in memory, on disk, in a send under way and in the queue (it is
read before the key and written after it), which fails only when a key could not be
saved; the server's check that the label is its own generation makes the two equal,
which is `AcceptedReadable`.

`PresencePublisher`: `OnTheWay` says which of key and row exists in the middle of
creating and deleting an identity. `TicksInOnePiece` says what the idle service knows
between its locks. For the refinement, `Signed` says that without a logged-in user
nothing can begin to be published; `GoneMoves` that nobody comes back but by login;
`FirstRecordChanges` that every write is one of a user that is there or leaving.

`CacheInv` of `CommunityCache`: a command or handler changes memory first and the table in
a later step, so `RestartKeepsRoles` is about a client at rest and is not inductive.
`RolesInv` and `IdsInv` say for every state that memory is one step ahead of the table and
no more: it has what the table will have once the step under way is done (`RolesThen`,
`IdsThen`), or, for this member's own role ids, a change is still to be reported. That
needs `TurnInv` (commands and handlers take turns), and for `create_role`, which appends
to the list but replaces in the table, that a new id is nowhere in use: `TopInv`, no role
listed in memory, on the way or in a table has an id above the highest one given.

### Model-checked only

Liveness, and the fairness of `ProfileStatus` in `KeepsPromise`, which are beyond the
prover: `Recovers`, `RecordCatchesUp`, `GenerationCatchesUp`, `KeyCatchesUp`,
`StatusCatchesUp`, `AutoAwayEnds`, `GoneIsSeen`, `StatusIsSeen`, `WatchReturns`,
`RolesCatchUp`, `IdsCatchUp`, `MembersCatchUp`, `ChannelsCatchUp`. Every invariant and every
action property that a run checks is stated by a theorem. Types of `CommunityRoles` are not:
its bound on positions is a maximum over a finite set, which takes induction.

## 6. Observations

Behaviours of the models that no run is about, because nothing in the repository says
otherwise or the window is narrow. Each is a behaviour of the module named.

Server:

- A join that has passed its ban check pushes a member whose ban is stored meanwhile
  (`rpc.rs:739`): `raced` in `BannedAreOut`. With two requests in flight two joins of one
  pseudonym list it twice, and two first joiners both become owners (`rpc.rs:591`). A crash
  between the row of a ban and the removal leaves the banned member in.
- A process that dies between the DELETE of a leaving member and the rotation serves, once
  restarted, the key the member knows (`rpc.rs:1022`). `docs/security.md:252` counts on
  rotation on every change of membership.
- `HostRace = TRUE`: of two overlapping `host_community` calls the second inserts the key
  it loaded before a rotation (`community_host.rs:361`).
- A leave of the owner over IPC while `host_community` is loading removes the owner from the
  table and not from memory, or from memory and not from the table, as the steps of the two
  fall (`rpc.rs:1011`): the roster after a restart is another.
- After a crash before the creator is registered the first stranger to join becomes owner
  (`community_host.rs:433`).
- The MEK subkey is published by handlers only: if that call fails, the keepalive, whose
  comment (`community_host.rs:531`) speaks of all subkeys, does not repair it
  (`community_host.rs:683`). `GenerationCatchesUp` is conditional on this.
- A failed allocation of the keepalive publishes the blob of the route it has just released
  (`community_host.rs:611`); a community unhosted in the middle of a cycle gets a published
  route that nobody releases (`community_host.rs:601`); a keepalive overlapping a
  RouteChange can leave a route unreleased.
- `EditRole` accepts any position (`rpc.rs:1661`), so whoever may manage roles can lift its
  own role above the owner's, and assign the Owner role.
- A join gives role ids whether the roles exist or not: a member of an empty roster gets
  0 to 4, a newcomer 1, deleted or never created (`community_host.rs:227`: a crash between
  the INSERTs of the defaults). `CreateRole` takes the id after the largest, so such an id
  may come to mean another role (`rpc.rs:1550`). Overwrites of deleted roles are kept.
- An overwrite with another `target_type` than role or member counts until the next
  restart, one with the top bit set in a mask as well (`rpc.rs:1961`); a role whose mask does
  not load is gone after a restart while its id stays taken.

Friendship:

- The retry loop deletes a queued `Unfriended` after a send that went out and never
  arrived (`sync_service.rs:1038`), although `friends.rs:189` queues it for lack of a
  delivery guarantee.
- A doubled FriendAccept deletes the session; an `UnfriendedAck` deletes everything queued
  for the peer, newer friend requests included; accepting over a row that says
  `pending_out` leaves a row that expires after thirty days.

A member's client:

- The owner's client makes a key of its own with generation 1, and the server another with
  generation 1 (`community_service.rs:78`): what the owner sends under it is accepted and
  nobody else can read it. `AcceptedIsReadable` is about keys that came from the server.
- A member that restarts learns of a newer key only by the next broadcast or change of the
  record; a client that is kicked is not told, because broadcasts go to those who remain.
- `Overlap = TRUE`: a rotation announced while a join is under way is missed, and an
  answer that arrives after a leave puts the key back.
- A key that could not be saved, followed by a restart, leaves a label newer than the key.
- A send from a detached node counts as delivered (`SentIsKept` excludes it); leaving
  deletes the key from the vault without saving the snapshot.
- The member's own route is refreshed every two minutes and the server is told of it only
  by a rejoin: meanwhile the member is deaf.
- The channel that `create_community` makes is never made on the server
  (`community_service.rs:60`, `community_host.rs:385`): the server publishes its own list over
  it, and only the creator's client goes on showing it.
- The creator's client never watches the record (`community_service.rs:280` is reached by
  joining only) and reads its own copy: every thirty seconds the sync loop puts the channels
  of the creation over those in memory, new ones included. After the end of a watch, or a
  restart, the same holds for a member: `try_rewatch_friend` is for friends.
- A joiner learns of the members who are there already only by a report of the roster, whose
  rows replace the timeouts shown; a roster read late brings back older ids and members who
  have left.
- `create_role` crossed by its own broadcast leaves the role twice in memory, once at
  position 0; the label "owner" of a created community becomes the name of the role after
  a restart, and `remove_community_member` compares it with the label
  (`commands/community.rs:1418`).
- `RolesChanged` does not remove the ids of deleted roles from members, whose ids are
  reused; an empty list of channels is ignored by the sync loop; a channel that exists only locally stays in the
  table after it has left memory.

Presence:

- Login writes one byte without a timestamp, which replaces a choice until the heartbeat
  (`auth.rs:1684`); a process that dies before its first heartbeat stays online for friends,
  who have no timestamp to find stale (`presence_service.rs:843`). `GoneIsSeen` excludes
  it.
- If the network is not ready within a minute of login, the profile is not published in
  that session.
- A profile record that could not be reused is replaced by a new one that friends are
  not told of.
- A choice that falls between the locks of an idle tick is lost ("midtick"); switching
  auto-away off while Away leaves the user Away ("muted").
- A heartbeat, an idle write or a choice still under way may follow the Offline of the
  logout.
- An attachment whose DHT is not ready yet does not invalidate the watches; a watch whose
  record cannot be opened counts as set. `WatchReturns` excludes both.
- Between two forced reads (300 s) an unnoticed end of a watch makes a present friend go
  stale (150 s): the status flaps.

## 7. Not modelled

- Stateless computation: codec (Cap'n Proto), AEAD and signatures beyond which key
  is used, key derivation, permission bits that no property tells apart.
- User interface, settings, windows, game detection, the frontend and the test server:
  they mirror state kept elsewhere or are not part of the program.
- SQL errors other than constraint violations, and torn SQLite transactions.
- Veilid itself: attachment, DHT consensus and route maintenance appear as outcomes of
  calls and as events.
- DHT log and short array: nothing in the client appends to them yet, so there is no actor
  to model around them; `append` and `add` are two writes each (`dht/log.rs:218`,
  `dht/short_array.rs:148`).
- Voice, the ratchet without counters, and the server process with its socket: see the
  plan.
- A queue of several rows: `retry_pending_messages` stops at the first error
  (`sync_service.rs:904`); the models have one row, or rows that do not delay each other.

## 8. What is left

1. `SignalSession` and a queue of several rows: the ratchet without counters, the order of
   what a peer reads.
2. `JitterBuffer`, a pure structure against a reference sequence, and the loops of a voice
   session against start and stop.
3. `ServerProcess`: two starters, health check, shutdown.
4. The client's own routes, on the model of `ServerRoutes`.

Theorems: the safety of `MembersCatchUp` and `ChannelsCatchUp` (which rows a handler may
remove), and that what `ServerPublication` has published of a subkey only goes back when an
older snapshot overtakes a newer one.
