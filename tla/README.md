# A TLA+ verification of Orion network

This directory holds TLA+ models of the core of the repository, the TLC
configurations that check them and TLAPS proofs about them. Every definition is
translated from the source; the `map` of `PROJECT.json` names its lines.

## The system

Orion network is a peer-to-peer chat. Clients reach the servers through onion
routes. A chat or a profile (a *topic*) lives on the REPLICATION_FACTOR + 1 servers
whose identities are closest to it; a server that handles a client request runs it
itself, sends it to the others and picks the answer most of them give.

| Part | State | Operations | What makes it correct |
|---|---|---|---|
| Chat members (`chat/server/src/storage/chat.rs`, `chat/spec/src/chat.rs`) | LMDB table identity -> Member (nonce, permissions, rank, cooldown, freeze time) | create, add, kick, update, member part of send | nobody gains authority no member had; the cooldown separates actions |
| Chat log and block voting (`storage/chat.rs`, `api/chat.rs`) | `blocks.bin`, `root.bin` (number, buffer_len, checkpoint, latest_block), votes in memory | send_message, proposal, vote, accept_block, load | replicas make the same messages final in the same order; nothing lost or repeated; buffer and file bounded |
| Replicated requests and recovery (`api.rs`, `main.rs`, `api/*.rs`, `storage.rs`) | topics under recovery, cached streams | Repl, Restore, repl_rpc, recover | a request answered with a majority was applied by one; recovery yields what the majority had |
| Profiles and mail (`storage/profile.rs`, `api/profile.rs`) | `root.bin` with two nonces, mailbox file, vault table, where a user is online | create, send_mail, read_mail, insert_to_vault, recover | a mail reaches its reader or a mailbox; versions only grow |
| Server loop (`main.rs`) | clients, subscriptions, pending streams | swarm events, client sessions, pushes | a subscriber gets every event or loses its subscription |
| Client streams (`chat/client-node/src/node.rs`) | calls of a stream, receivers | requests, subscriptions, answers and events | an answer goes to its request, an event to its subscription |
| Reputation (`chat/server/src/reputation.rs`) | a rating of each node, nodes to report | rate, vote, report_loop | votes alone turn this server against nobody |
| Streaming (`protocols/streaming`) | connections with request counters, queued events, a handler per connection | create_stream, dial, connection events, poll | every request is answered once, and in the end |
| Onion (`protocols/onion`) | path requests, circuits being set up, routes with their buffers, streams being refused | open_path, peel, admit, forward, close | an open path ends at its recipient; circuits are not mixed; a failed one leaves nothing behind |
| Routing table (`protocols/dht`, `chain/api`) | sorted vector of routes | stake events, closest | servers agree on the replication group of a topic |
| Gateway (`protocols/gateway`) | caches of allowed nodes and banned addresses, lookups under way | pending and established connections, answers of the chain | no connection stays open that nobody checks |
| Double ratchet (`crypto/double-ratchet`) | root, sending and receiving chain, kept keys, key pairs | sender, recipient, send, recv | both ends derive the same chains; a key opens one message once |
| Friend messages (`chat/client-node/src/requests.rs`) | vault: friends with their ratchets, session hash -> friend | send_friend_request, send_frined_message, handling of mail | a message that can be read is read, the conversation can go on |
| Encrypted transport (`crypto/opfusk`) | the two upgrades; an Output with a write and a read buffer | handshake, poll_write, poll_flush, poll_close, poll_read | the peer reads what was written; a stream never stands still with nobody to wake it |
| Merkle tree, proofs (`crypto/`) | vector of nodes | from_base, push, root, proof | client and servers compute the same root for the same leaves |
| Storage (`storage/`) | nodes, free space, files, blocks | register, allocate, save, delete, gc | not part of the workspace (see below) |
| Client, chain, utilities | - | user interface, chain calls, codecs | not modelled |

The behaviours that are hard to test are listed under `hazards` in `PROJECT.json` with
the line where each bites. In short: messages reach replicas in different orders;
proposals and votes are sent without an answer, overtake each other and are lost; votes
are forgotten on a restart; mail between friends is reordered, repeated, lost or handled
in the middle of a send; the socket cuts encrypted chunks anywhere; handlers of one chat
run on several threads and share three mutexes; both ends keep streams and give them up
by their own clocks; a server rebuilds a chat from tables that change while it asks for
them; file writes and header writes are separate; where a user is online is known to
each server from what it saw last; connections are dialled by several behaviours of a
node and close under the requests that wait for them; a circuit is set up by nodes that
each know two of its hops.

How the parts fit together: a client opens an onion path to a server of a topic's group
(`Onion`, `RoutingTable`) over streams that `Streaming` provides on connections that
`Opfusk` encrypts and `Gateway` admits; the server runs its session (`Profiles`, `ChatSubscriptions`),
executes requests on its storage (`ProfileStore`, `ChatMembers`, `ChatLog`) and on the
rest of the group (`Profiles`, `ChatBlocks`), again over streams, which `StreamCache`
keeps for the next request; a server that lacks a chat or lost a vote on it rebuilds its
members (`Recovery`), and what the others do counts in their `Reputation`; what friends send each other through mailboxes is protected by
`DoubleRatchet` (`FriendChat`).

## What is modelled

**ChatMembers** is the member table of one replica. Each operation is one LMDB write
transaction, hence one action; an operation that fails leaves the table as it was
and is not a step. A request is the signer, a nonce and the member fields it asks
for; signatures are assumed to verify for their signer only. `overwrite_in_place`
of the LMDB binding is external and modelled as the code uses it: it gives access to
the stored value of the key and fails without one. A smaller rank number is a higher
rank. `lastAction` is a history variable.

**Recovery** is a server that rebuilds the member table of a chat from those of the
other RF servers: `StartRecovery` opens the streams, `Fetch` is an answer (`OnWire`: the
encoding leaves the freeze time out), `Timeout` fails the request as a whole,
`GiveUpChat` is too few answers, `Recreate` and `RecoverMembers` are the two steps of
`recover_chat`, which other recoveries and requests may come between. `Combine` is
`Member::combine`. A table is the entry of one identity, since the reconstruction treats
each by itself. The other servers handle requests meanwhile (`AddOrUpdate`, `Kick`,
`ActAt`), all of them or only some. `base` and `acted` are history.

**ChatLog** defines the log of one replica and the pure computations on it: the
append, compaction and discard of `send_message` (`Appended`), the choice of the
finalizer (`Finalizer`), the block it cuts (`ProposedBlock`), and the two ways a block
becomes final (`AcceptedLocal`, `AcceptedRemote`). Lengths are in bytes as in the
code, all messages have the same length, and the hash of a block is the block. The
order of a group by XOR distance is a constant operator.

**ChatBlocks** puts the logs of a replication group together with the proposals and
votes in flight: `SendMessage`, `Proposal` and `Vote` are the handlers including the
messages they send, `Restart` loses what is only in memory. `poisoned` holds the
replicas whose mutexes a panic has poisoned: `buffer_len -= size` in `accept_block`
can pass zero, which panics in the default (debug) build of `run.sh`; afterwards the
replica only advances nonces (`SendToPoisoned`). `backers` and `accepted` are history
variables. What the environment may do is a parameter: with `Faults = {}` the votes
of a round arrive before the next message and no message is overtaken by more than
`Slack` bytes of others; `"overlap"` and `"lag"` lift these restrictions.

**DoubleRatchet** is the ratchet as operators on a record with the fields of the
struct. Cryptography is symbolic: a secret is the term it was derived from, so two
secrets are equal exactly when the same inputs made them, and a random value is a
name. The root chain is known by the inputs it has taken, a derived chain by the root
it came from. `Guarding` stands for the step u32::MAX of a sending chain that is yet
to be derived, whose seed the code keeps in the chain's root (`seed` here). Opening a
kyber ciphertext with another key gives some other secret, as implicit rejection
does. x25519, kyber and the hash are external.

**FriendChat** is two users and their mail. Sending has an await in its middle, so it
is two steps: up to the await (`SendFriendRequest`, `SendFriendMessage`), and the
update of the vault after it (`FinishSend`), or nothing if the request failed
(`FailSend`). The user interface starts a send for each Enter and waits for none, so
`pending` may have several of a user, which finish in any order; a message sent while another
send awaits counts as the fault `"parallel"`. Handling a mail is synchronous, hence one step. Content decrypts exactly
if the key it was encrypted with is the one recv returns. `Faults` says what may happen
to the mail besides arriving in order, `MaxFaults` how often; `suffered` remembers what
did, so that a property can say which faults it needs to exclude. `sent`, `opened`
and `rejected` are history. The friend request of the model is Alice's only one; the
stored form of the vault, chat invites and the result of a batch of mail are left out.

**ChatSubscriptions** is the stream of a client to a server: `RawSub::run`, which numbers
requests and gives answers and events to the calls they belong to, and `run_client`, which
serves one request at a time and forwards the events of the session's queue. A receiver is
what `subscribe` returned to the user interface, a model of its own user (`Consume`,
`DropReceiver`); `HandOver` and `Unsubscribe` are the two outcomes of handing an event
over. Events of a chat are numbered (`posted`); `call`, `from` and `got` of a receiver are
history. Requests other than subscriptions only have an answer, and profile
subscriptions, whose server side is in `Profiles`, share the client's code. The opening
of the path and the map of streams per server are left out.

**ProfileStore** is what one server stores for a profile and the operations on it: two
nonces, the vault, and the mailbox as a file with a cursor. `read_mail` cuts the file and
leaves the cursor where reading ended, so the next mail is written behind a hole of zero
bytes; `hole` and `cursor` keep this, `Unpacked` is what a client makes of it. Mails are
numbers and have one length. The merkle root of a vault is the vault, so the root of a call
matches exactly if the contents do. The signature on that root is stored, but `insert_to_vault`
verifies neither it nor whose it is, and no handler before it does; so the model lets anybody
ask for a vault.

**Profiles** puts the stores of a replication group together with the user's sessions
and subscriptions, mail from others, and the user's vault. A call is a request at one
server: it runs the handler there, then `Replica` at the others in any order, then
`Finish` picks the answer that more than RF / 2 gave. `send_mail` at a server that knows
the user to be elsewhere has an await in the middle, so it is three steps (`SendMail`,
`DirectMail` or `DirectFails`, `DirectReturns`). A session is live, dead (its task
ended, the entry in `clients` not yet removed) or gone; `Push` tells these apart as
`push_profile_event` does. The client part is `save_vault_components`, split at its
await, `read_mail` and the login. `WriteVault` is a vault written by another client, which
knows what a server has, as anybody can fetch it. `Faults` names what the environment may do, `suffered`
what it did; `received`, `gone`, `asked` and `uneven` are history. `uneven` has the servers
whose mailbox got a mail twice or missed one that the others have. Every server of the group has
the profile from the start (`Created`); `Restore` and the recovery of a profile are left
out, and a recovery that `Repl` starts for a server in the minority changes nothing,
because `recover` accepts only roots whose signatures `insert_to_vault` never updates.

**Streaming** is `streaming::Behaviour` of one node with its connection handlers, and
the server's list of tasks that wait for a stream. `connections` and `events` are the
fields of the struct; events are popped from the end, as in the code. The swarm is
external: it dials unless the peer is connected or being dialled, drops commands to a
connection that is not established, and reports failures and closings. `OtherDial` and
`Inbound` are connections the behaviour did not ask for. **StreamRequests** is what it
promises: each request is answered once, and eventually, unless the peer is *stranded*
by a refused dial. `Streaming` implements it; the requests without an answer are the
senders in `penidng_stream_requests`, and `Ledger` says that the behaviour owes each of
them one answer. **Subsequences** has the helpers these modules share: `At`, what
`retain` leaves of a vector, and the sums and counts of the ledger.

**StreamCache** is what happens to a stream between two servers afterwards: the caller
takes the latest stream of its cache or opens one (`Open`) and holds it until it has a stream to
each member of the group, for which nothing sets a limit (`JoinAll` in `repl_rpc_low`); then it
writes the request (`Write`), reads the answer and keeps the stream (`ReadAnswer`), or keeps it when all
is written if nobody answers (`KeepUnanswered`). The callee handles requests one after the other and
waits for the next for the lifetime of its pool. Each end goes by its own waiting time on a common
clock; `Delay` bounds what the transport takes. `lag` is history: how long calls held the
stream between its last request and this one, while neither waiting time accounts for it.

**Gateway** is `gateway::Behaviour`: the two handlers libp2p calls for an inbound
connection, `poll` with the two answers of the chain, and the clock against which
subscriptions and bans run out. The LRU caches are external. `granted` is history.

**Reputation** is `Rep`: `Rate` for what a node did to this server (any severity the
handlers give), `VoteFor` for a vote of another node the chain reports, and `ReportOne`. A
rating is -1 while the node has none, because `vote` treats such a node differently.
`own` and `grounds` are history: what the rating would be without votes, and its worst
value since the node was last reported.

**Onion** is a client, relays and recipients. Streams come from `StreamRequests`: each
wanted stream is answered with a stream (`StreamReady`) or an error (`StreamFailed`), unless its
peer is stranded by a refused dial (`Strand`): then it, and what is wanted of that peer later, may
stay without an answer. A stream has two directions with the items in flight and two ends; dropping an end lets
the other read what is left and then see the end. Packets are peeled symbolically: the
outer layer is plain, the middle one authenticated, the innermost one not, so a node
with a newer key derives some other secret (0). `Continue` is `poll_outbound` at a relay
with the sweep of idle routes, the admission check and its three outcomes. `Forward` and
`Backward` move one item of a route; how the bytes move is **Channel**: the buffer of
one direction with the compaction, short reads and writes and the end of the source.
**RoutingTable** is the sorted table, the stake events that change it and `closest`,
with ids as numbers.

**Opfusk** is the connection below: the handshake with its three messages, then the stream
from the dialer to the listener, which starts before the listener has read the last of
them. Cryptography is symbolic as in `DoubleRatchet`; a nonce and tag name the message they
were made for, so a chunk that was cut or joined wrongly does not open. `writer` and
`reader` are the two halves of `Output`; one turn of the loop of `poll_write` or
`poll_read` is a step (`PollWrite` starts a call, `ContinueWrite` goes on), because the socket
moves in between. `pending` records that a call has met a Pending of the socket, which is
what will wake it. Lengths are two bytes of base `Byte`.

**MerkleTree** is the tree behind the root of a vault, with hashes that show how they were
made. `Computed` is `comute_recur`, `Climb` the loop of `push`, `Siblings` the iterator of
`proof`; the reference is the recursive tree whose left half is the largest complete one.
That the root determines the leaves is what lets `ProfileStore` use a vault as its root.

A handler of a server is atomic in these models except where it awaits. The mutexes inside
a handler are not modelled, and a crash in the middle of one only for the two writes of a
vault (`Crash`).

## The runs

| Run | Instance | Shows |
|---|---|---|
| `chat_members` | 3 users, nonces to 2, clock to 3, ranks {0, 1}, cooldown 1; 5 servers, 3 requests or recoveries, 2 of them recoveries | `NoAuthorityMinted`, `ActionSpacing`, `RecoversAgreed` |
| `blocks_rounds` | 3 replicas, 2 senders with 4 messages each, no faults | `Agreement`, `RoundsConverge`, `FinalIsAccepted`, `ExactlyOnce` |
| `blocks_lag` | 3 replicas, 3 messages, any loss and order, fair delivery | `QuorumBacked`, `MajorityFinalizes` |
| `blocks_faults` | 2 of 3 replicas up, 6 messages, all faults, a restart | `BufferBounded`, `BufferInSendOrder`, `ProposerRecognised`, `FinalStable` |
| `blocks_history` | 3 replicas, 12 messages, BLOCK_HISTORY 4 | `CheckpointIsFinal` through two compactions |
| `blocks_overlap` | 2 of 3 replicas up, 6 messages, overlapping rounds | violates `Agreement` |
| `blocks_revote` | the same, with late messages | violates `QuorumBacked` |
| `friend_chat` | 3 messages of each user, 1 kept key, period 3, any 2 faults; a stream with 2 chats, 2 subscriptions, a request and 3 events | `RatchetsAgree`, `ReadKeysAreGone`, `KeysAreFresh`, `MajorsAlternate`, `MatchWhenQuiet`, `AnswersArrive`, `NoGaps`, `CallsAgree` |
| `friend_crossing` | 1 message of each user, no faults | violates `AllDelivered` |
| `profiles` | 3 servers, 3 calls, 2 sessions, 2 vault keys, a mailbox for 2 mails, any one fault; trees of up to 9 leaves | `MailNotLost`, `MailOnce`, `VaultIsWhole`, `VaultSaved`, `TreeOfLeaves` |
| `streaming` | 2 peers, 3 connections, 2 requests, 1 incoming stream, fair polling; kept streams; a gateway; ratings of 2 nodes | `Ledger`, `AnswersEachRequest` (refines StreamRequests), `AnswersMatch`, `ReusedInTime`, `NobodyUnchecked`, `PunishedOnGrounds` |
| `onion` | 3 servers; 2 paths with data and a fault and room for both, 2 with data or a fault and room for one, 3 paths for one place; a relay buffer; a routing table; an encrypted connection | `Authentic`, `Delivered`, `RoutesBounded`, `PathsResolve`, `ForwardsAll`, `ClosestAreClosest`, `StreamIntact` |

Bounds. A group of three with RF = 2 is the smallest with a majority that is not
everyone; the code's five with RF = 4 has the same quorum formula. A message of 4 bytes
in blocks of 7 makes the buffer cross the middle of a block at the third and the fifth
message, so blocks of one and of three messages occur and rounds have different
finalizers. In `blocks_rounds` a block has 9 bytes: it is proposed with four messages in the
buffer and has two of them, the other two may still be missing elsewhere or stand before
them (`Slack`), and three rounds follow each other. Six messages are enough for two proposals in flight, the panic and the
repeated proposal; with 12 the file is cut twice. `MCXorOrder` is one arbitrary rotation
per hash; `blocks_rounds` was also run with four other rotations. Two ranks and one
cooldown suffice for the comparisons in ChatMembers; three users give an actor, a target
and a bystander. Identities are symmetric there. A period of 3 is the smallest odd one
above 1 (the code's 35 is odd too): the first answer is major, minor chains follow, and
three messages of each user reach the next major one, at step 6. With one kept key, two
messages overtaken in a chain already push a key out. Two faults give every pair of
kinds in every order. On a client's stream, two subscriptions may be for one chat or for
two, and with queues for one event the third finds one full. Three calls and two sessions let a user be read, mailed and mailed
again, or move to another server between two mails; a queue for one event and a mailbox
for two mails are full early; RF = 2 again gives a majority that is not everyone. Three
connections are enough for one that is refused or lost beside one that survives and one
that comes later; two requests can be on different connections. A lifetime of 3 with
a margin of 2 and a delay of 1, two streams and two requests let a kept stream be held, written to
after its callee gave it up or at the last moment before, with a late answer of an earlier
request possible; caches of one entry make the gateway
forget. A threshold of 6 and votes of 1 let four votes in a row follow an offence of 3. The paths of the onion run share all relays, which is where they could be mixed
or compete; three paths and room for one give a relay several packets passed on before
any was admitted. A buffer of 3 bytes, a source of 5 and transfers of up to 2 make the
buffer full, compacted and drained in every phase; 3-bit ids, all tables and groups of
up to 3 cover tables smaller and larger than the group. The encrypted connection has
headers of 3 bytes, buffers of 9 (messages of up to 3 bytes, the longest a two-byte
length of base 2 can tell), 5 bytes to write and a socket that holds 3: both buffers
fill, are cut in the middle of headers and messages and reclaimed several times.
`Channel`, `RoutingTable` and `Opfusk` share no state with the paths or with each other,
so `MCOnion` explores each completely while the others rest (the variable `part` says
which one moves), `MCStreaming` does so with `StreamCache`, `Gateway` and
`Reputation`, `MCFriendChat` with `ChatSubscriptions`, `MCChatMembers` with `Recovery`, and `MCProfiles` with `MerkleTree`. A recovery has the
code's RF of 4, where "half" and "more than half" of the others differ; two recoveries
can overlap, and three requests and recoveries let one server diverge before or during
one. Nine leaves reach the tree with one leaf beyond a complete half of eight. Servers
and vault keys are symmetric in `profiles`. Deadlock is not checked: an instance stops
when its bounded messages are used up.

Fairness. `ChatBlocks!FairSpec` is weak fairness of `Deliver`: requests in flight are
eventually served, since the server polls its streams for as long as it runs. Client messages
need no fairness. `Streaming!FairSpec` is weak fairness of polling the behaviour, of polling
each handler, and of the end of a dial and of a negotiation: the server drives its swarm in
an endless loop, libp2p bounds dials and negotiations by timeouts, and a connection
that negotiates may close instead. Nothing forces requests, incoming connections or closings.
`PathsResolve` is the onion's progress without fairness: every step of `System` uses up a
packet, an item, a request or a route, so the nodes come to rest, and in every state of
rest each path is answered. Excepted is a path whose client or relay waits for a stream to
a peer that is stranded (`Stuck`), which `streaming` never answers. That a node is polled while it has something to do is assumed:
wakers are not modelled (see the observations).

### What the three violations mean

`blocks_overlap`: the block number that proposals carry never advances
(`accept_block` stores the number the proposal came with, and proposers send the
stored one), so a replica whose votes for block 1 are late accepts block 2 first. The
whitepaper (`whitepaper/src/chat.md`, "Message blocks") asks for an order that nodes
agree on.

`blocks_revote`: `proposal` counts the proposer's yes each time the block arrives and
a rejected block stays in the table. When the finalizer cuts the same block again, a
replica that voted against it makes it final with the proposer's vote counted twice.
The same page says that each hash counts as a vote towards a majority.

`friend_crossing`: when both users write before either has read the other's message,
the root step of the one that answers moves on by sending, and recv then looks for the
message of the step before among the kept keys instead of in the receiving chain it
still holds. The message is refused. The unit test of the ratchet delivers every
message it sends in order and expects each to open (`differned_deliver_orders`); it
never lets two cross.

### Observations no document contradicts

- The message that triggers a compaction is lost: the bytes copied are those of the
  file before the message, and `set_len` cuts it off, while `buffer_len` counts it.
  `ExactlyOnce` is therefore checked below the compaction limit.
- `discarded_bytes` grows by the bytes kept, not by the bytes discarded.
- `kick_member` requires the target's rank number to be smaller than the actor's,
  `update_member` requires it to be larger. The models follow the code.
- `update_member` looks at no permission and no cooldown and resets the target's
  nonce and freeze time; `ActionSpacing` is about an entry between rewrites.
- `send_message` locks root, blocks, voting; `vote` locks voting, root, blocks.
- `add_missing_message` files the keys of the chain that ends under the receiver's own
  step, not the step in the headers of that chain, so a late message of an older chain
  is not found. `AnswersArrive` is therefore about the first message of a chain.
- If the first message of a chain is lost, its receiver knows neither the session of the
  later ones nor the step its own messages should have, and everything is refused in
  both directions. The same happens to an answer that arrives before
  `send_friend_request` has stored the friend.
- Mail handled while a send of the same user awaits is undone in the ratchet when the
  send finishes: the key of a message that was read is back in the vault
  (`ReadKeysAreGone` excepts `"overlap"`).
- Two sends that overlap copy the same ratchet and encrypt under the same key and header
  (`KeysAreFresh` excepts `"parallel"`). If they open a chain, the one read second names a
  session that the first has used up and is refused, so it is lost and the two ends may name
  different sessions (`AnswersArrive` and `MatchWhenQuiet` except it). If mail is handled
  between the ends of the two, the later one undoes what was read, and the chain derived again
  has another secret: the ratchets fork (`RatchetsAgree` excepts `"parallel"` together with
  `"overlap"`).
- A send that is reported as failed although its mail arrived leaves its key to the
  next message (`KeysAreFresh` excepts `"unacked"`).
- A friend request that is handled twice replaces the ratchet of the one asked; the
  ratchet properties except `"replay"`.
- `read_mail` collects a batch with TryJoinAll: one mail that is refused hides the
  others, whose keys are used up.

Client streams:

- `unsubscribe` goes by the chat: sent late, for a receiver that was dropped, it ends a
  newer subscription of the same path to the chat. The client keeps the call and hears
  nothing more.
- A client whose queue is full when an event is pushed loses its subscription without a word.
- Both `select!` loops drop an unfinished `read_exact` when their other branch is ready;
  the part of a header that was read is lost and the stream is out of step. The model has
  headers arrive whole.
- `RawSub::run` stands still while the receiver of an event is full, and with it all other
  calls of the stream.
- A path that cannot be opened leaves its sender in `pending_streams`, so `subscription_for`
  waits forever. It enters the stream into `subs` after its task was spawned, and a task
  that ends removes whatever entry its server has by then.
- A vote for a node without a rating counts once, whoever casts it: from then on the node
  has a rating below half of the threshold.

Profiles:

- `read_mail` leaves the cursor of the mailbox at the old end. The next mail lies behind
  a hole that counts towards MAIL_BOX_CAP, so a mailbox can be full with one mail; after
  a hole of odd length `unpack_mail` reads the lengths one byte off and loses
  everything. Replicas that were restarted have no hole, so their answers to the next
  read differ and there may be no majority.
- Two mails that overlap may be stored in different orders; the next read then has no
  majority, and every mailbox has been cut.
- A mail that another server was asked to push and stored instead arrives there again
  with the replication. The user reads it once, because the answer of the majority is used.
  But the hole behind which that server writes its next mail is larger from then on. When
  the user has been at two servers and was mailed after leaving each, three replicas give
  three answers to the next `read_mail`, no two are the same, and what was in the
  mailboxes is lost, without any fault and with one call at a time. `MailNotLost` excepts
  the time when no majority of the mailboxes is free of this (`uneven`).
- A mail the user sends to itself is refused by the server it is at and stored by the
  others, which forget where the user is and store its later mail too, while its own server
  pushes it: the user gets it twice (`MailOnce` excepts this).
- Mail queued for a session that ends is lost although its sender was told `SentDirectly`
  (`gone`). After an unsubscribe or a restart one server stores what another pushes: the
  user gets the mail twice (`MailOnce` excepts this).
- One late replica fails the whole request after the others have applied it.
- An edit during the await of `insert_to_vault` is dropped from the unsaved changes by
  `clear_changes`; the servers refuse the next save, whose root includes it. Likewise a
  replica that missed one save refuses all later ones, and recovery cannot help it, as
  `Root::is_valid` checks signatures that are never rewritten. `VaultSaved` excepts both.
- `insert_to_vault` does not verify the proof it is given: a vault of any client is
  stored under the next nonce. The user, whose nonce and root are then behind, is refused from
  then on (`VaultSaved` excepts `"other"`). What is left of the check is that a
  stored vault is one that somebody asked for as a whole (`VaultIsWhole`).
- A login takes its nonces from one server. When calls of earlier sessions are still under
  way to the others, the vault saved after it may have a lower nonce than theirs, and a
  late one replaces it at a majority (`VaultSaved` excepts a login together with calls that
  overlap).
- `not_found` is written and never read.

Recovery:

- `ongoing_recovery` is cleared as soon as the recovery is spawned, so several run at once.
- `Handle::create` refuses a directory that exists, so a recovery that `Repl` starts for
  a server in the minority repairs nothing; it can only remove the chat, if too few
  servers answer.
- `remove_chat` leaves the cached handle, so what a later recovery writes may go to the removed
  directory; the table on disk stays empty until the handle leaves the cache.
- `retain_outliers` returns early for up to RF elements and a `ReplVec` holds no more.
- The encoding of a member skips `frozen_until`, so a recovered table has no freeze times
  and the median over them is always 0.
- Members that half of the servers have are kept. With an answer missing, a member that
  was kicked at half of the servers is back; `RecoversAgreed` is about what more than
  half agree on.

Streaming and onion:

- A dial that is refused (`DialPeerConditionFalse`: the peer has just connected, or the onion
  behaviour dials it) leaves its entry behind. Requests counted on it, and later ones that
  the map happens to put there, are not answered until the connection's entry goes,
  which nothing causes; `open_stream_with` waits without a limit and `rpc_timeout`
  ("Rpc request is dropped after ms of delay", `chat/server/src/main.rs:107`) is not used.
  `AnswersEachRequest` excepts stranded peers. A relay keeps such a request among its pending
  connections, where it takes up room, and the client of the path hears nothing, because the
  onion has no timeout for it; `PathsResolve` excepts it.
- `max_streams` admits one route more than it says, and routes whose packet has been passed
  on meanwhile are not counted; `RoutesBounded` states what does hold. The
  recipient of a refused path may have reported an `InboundStream` before it ends.
- `max_error_streams` is not applied to MISSING_PEER answers, and is off by one otherwise.
- The tag is taken with one `read`; a short one fails the path (`ReadReply`).
- `open_path` to the own node returns a path id and no event ever follows; the assertion
  behind "Panics if path contains two equal elements in a row" does not look at the pair of
  entry and middle node.
- `poll` looks at one ended route and one error stream per call and does not ask to be polled
  again for the next.

Stream cache and gateway:

- A request without an answer that the callee refuses leaves the caller with a kept
  stream that is closed; the next request on it fails.
- `repl_rpc_low` looks at the age of a kept stream when it takes it, then waits until it has a
  stream to every other member, and writes only then; one slow dial holds the others, and a
  refused one (see above) holds them for ever. The two seconds `StreamCache::reuse` takes off the
  lifetime cover the ways of an answer and of the next request, not this wait: a request may be
  written to a stream its callee has given up, and is lost. The stream of a request nobody
  answers is kept from the time all is written, which may be later than the callee began to wait.
  `ReusedInTime` says how long a call must have held a stream for that; callers that wait
  for nobody else lose nothing.
- `handle_established_inbound_connection` does not look at the bans again: a connection
  that was pending when its address was banned is checked anew.
- A subscription that runs out closes no connection, and a node in `allowed` is not checked
  again before its validity ends.

Transport:

- `poll_read` reports the end of the socket before it opens the chunks read in the same
  call, and every later call reports it again: what the peer flushed just before it
  closed is lost.
- `with_buffer_size` asks for more than `crypto::TAG_SIZE` bytes (28). A buffer takes no
  byte unless it has more than twice `TAG_SIZE` (30); below that `poll_write` returns
  Pending with nobody to wake it. A message of 2^16 bytes or more, possible in buffers
  above 64 KiB, does not fit its length, and a reader with a smaller buffer than its
  peer's chunks waits forever. `OpfuskAssumption` states what is needed. The comment
  gives 1024 * 32 as the default, the code has 1024 * 64.
- `poll_flush` does not end if the socket takes 0 bytes; `poll_write` reports WriteZero.
- `MerkleTree::proof` does not say on which side a sibling belongs; the test folds it with
  a sum, which does not tell.

## What is proved

The theorems hold for every value of the constants that satisfies the assumptions of the
modules; `theorems` in `PROJECT.json` lists the ones that matter. Every specification
proved about is the one its run checks, without the fairness.

**Recursive definitions.** The provers cannot use an induction theorem that takes an
operator, but they can use that a set of naturals that is not empty has a least element.
`SubsequencesProofs` derives `LeastNumber` from the well-foundedness of `<`, `UpTo` (a set
with 0 that has with each number the next has all up to n) from that, and with it, once
and for all, that a function given by a start and a step exists (`ByRecursion`,
`Recursion`). From there: what `At` leaves of a sequence is a subsequence of it
(`AtEmbeds`), and how `SumTo` and `Tally` change when one number changes, when a sequence
grows at its end, repeatedly, or loses its last element, and what `At` makes of two
sequences in a row. The other proofs cite these.

**ChatBlocksProofs**, from `LengthAssumption`, `FaultsAssumption`, `MsgAssumption` and
`GroupAssumption`: `BuffersAreBounded`, `CheckpointsAreFinal`, `ProposersAreRecognised`
and `FinalStays`, for any faults, any set of replicas that are up and any order of the
group. None of these is inductive. The header counts bytes and the file is a sequence of
messages; `BlocksInv` says that the two fit (`WellFormed`): the buffer and what lies before
the checkpoint are whole numbers of messages that do not overlap. That is what
`FinalStable` needs to read the file at the right place, what keeps compaction out of the
start of the buffer, and what the discarding of an overfull buffer has to preserve. `MessagesFit` is
about the blocks under way: their proposer was the finalizer of its own latest block.
`ProposerRecognised` then is arithmetic: the length of the block and that of the
proposer's buffer are in the same block of `BlockSize`. The history of `LengthAssumption`
has to be longer than the unfinalized blocks, as in the code (`BLOCK_HISTORY`,
`MAX_UNFINALIZED_BLOCKS`), or compaction would cut into the buffer.
`BuffersInSendOrder` is about the contents. `SendOrder`, which is inductive, adds to the
property that a buffer holds nothing of a sender above the nonce the member table has of
it. `send_message` appends a message with a higher one; everything else only thins the
buffer (`Thins`: what is left is a subsequence), as a block takes its messages out of it
and a discard its oldest part. Compaction is the exception: after it the file ends before
the new message, `buffer_len` counts it all the same (see the observations), and the buffer
then begins with a message that belongs to a block. The theorem therefore has the
hypothesis `[][NoCut]_vars`: no step cuts a file down to its history.

The second half of the module is about the group: `LogsAgree`, `RoundsDoConverge`,
`FinalIsVotedOn`, `MessagesKeptOnce` and `FinalHasQuorum` (`Agreement`, `RoundsConverge`,
`FinalIsAccepted`, `ExactlyOnce`, `QuorumBacked`), for every group, every order of it and
every message and block length. None of them is true in general, as the violation runs show;
the hypotheses say what they rest on. `Orderly`, of the constants: `Faults` is empty, all
replicas run, a proposer alone is no majority (`RF > 1`), and what is longer than half a
block is at least `Slack`. `[]Room`: no buffer overflows and no file is cut down, either of
which discards messages. `[][RestartsBetween]_vars`: a replica that restarts does so while
no proposal or vote is in flight. Every behaviour of `blocks_rounds` satisfies all three:
its eight messages fit the buffer and the history and it has no restarts.

The argument turns on `BlockIsEverywhere`: a proposal leaves more than half a block of later
messages in the proposer's buffer, so every replica has taken the messages of the block
(`Timely`), and as all have finalized the same they have them in their buffers. So
nobody ever votes against a block, and what a replica has counted follows from what is
still in flight. `InRound` says just that: `Got` and `Voters` read off `net` who has the
proposal and whose votes n has counted, `Stands` says that the table of n counts exactly
those, and that its log and its accepted blocks are those after the round if that is a
majority (`Done`) and those before it otherwise. `Settled` is the state between two rounds:
nothing in flight, and the same finalized messages, blocks and latest block everywhere.
`History` says that these messages are the blocks one after the other, each with a quorum
behind it. `RoundsInv` joins them with what holds of each log by itself (`Clean`: every
message taken is in it once, final or in the buffer). `ProposalInRound` and `VoteInRound`
are the steps in a round, `SendProposes` begins one and `RoundCloses` ends it: with nothing
in flight everybody has counted `RF + 1`. `CountedAreBackers` bounds the votes counted by
the replicas that backed the block. `LocalFinalizes` and `RemoteFinalizes` are the lemmas
about `accept_block`: the proposer, which cuts the block off its buffer, and a receiver, which
takes it from wherever its messages are, end with the same finalized log and the rest of
their buffers. `FlattenAppend` is what the recursion in `FlattenSeq` does with one more
sequence. TLC checked `RoundsInv` on the bounds of `blocks_rounds` first.

**ChatSubscriptionsProofs**, without any assumption on the constants:
`SubscriptionsHaveNoGaps` and `BothEndsAgree`. `NoGaps` counts the events of a receiver but
does not say why the client still knows the call they carry. What ties the two ends together
is the order of `down`: the answer that grants a subscription is sent before its first event,
so whoever reads an event has read the answer. `CallsInv` says this of each receiver (`Linked`):
either nothing was ever pushed to it (`Silent`: not served yet, or refused) or the task knows
its call, at the latest by the time it reads the next answer to it (`Known`, `Granted`). The
rest of it says that a number is used for one call (`Numbers`), that whatever carries it,
at either end or in between, is of the same chat (`Registered`, `ToServe`, `Pushed`), where a
waiting request is (`UnderWay`) and that a subscription the client has forgotten is
being cancelled (`Subscriptions`). The events of a call move from the server's queue through
`down` and `held` into the receiver; `EventsHead`, `EventsAppend` and `MovedOn` show that
what is on the way stays the same sequence.

**NodeProofs** has four parts. From `GatewayAssumption`: `NobodyStaysUnchecked`. A lookup says
nothing of connections that opened after it was asked, so `NobodyUnchecked` is not inductive;
`GatewayInv` says of each open connection that a lookup asked since it opened is under way
or the subscription known was valid then (`Judged`), and that the cache never grants more
than the chain did. From `ReputationAssumption`, of which the proof uses that a vote weighs no
more than the threshold: `PunishesOnGrounds`. The property only speaks of nodes that were
reported. `Backed` adds what holds of the others: a rating exceeds what the node itself did by
one vote at most, until its own offences were bad enough for more. `RateKeeps` is the step
both kinds of rating share, `WithoutLast` what `report_loop` leaves of the list.
From `CacheAssumption` and `MarginAssumption`: `AnswersAreMatched` and
`StreamsAreReusedInTime`. `MarginAssumption` (the margin is at least two delays of the
transport) is what the two seconds of `StreamCache::reuse` are for. `StreamsAreReusedInTime`
does not say that no request is lost, which is false: it bounds from below for how long calls
held the stream of the first lost one, for any wait. `CacheInv` says for a stream in use where its request
is (on its way, in the callee's hands, answered, or refused), for a kept one that nothing on it
will be answered, and for both how the clocks of the two ends relate.
From `StreamingAssumption` (there is a peer; the bounds are natural
numbers): `NoRequestIsLost` and `StreamsImplementRequests`, the safety part of the
refinement of `StreamRequests`. `Ledger` says nothing about who has a request in hand, so
`StreamInv` adds: an entry of the behaviour belongs to a connection to that peer which is
queued, dialling, established or refused (`Placed`); the pending requests of an
established connection are those its handler has yet to open, is opening or has to
report, and there is no handler otherwise (`Handled`), so that `pending_requests -= 1`
never wraps; and a dial is in the queue once, its connection untouched (`Dials`).
`FrameStep` and `Balance` reduce an action to the connection it touches; there is a lemma
for each kind of change. In the refinement only the poll of a dial strands a peer,
because a refused connection never leaves that state.

**ProfilesProofs**. From no assumption on the constants: `StoredVaultsAreWhole`. A replica may handle
a request long after everybody has forgotten it, so `ProfileInv` says that each call that is
kept for a replica carries a vault and a nonce that were asked for together (`Genuine`), by the
user or by another client. `InsertToVault` does the rest: what it stores is the root it was
given or nothing. Who asked the proof does not say, as the code does not verify it. The other three
results rest on `StoreAssumption` and `GroupAssumption` (capacities and bounds are natural
numbers, the group has RF + 1 servers) and on the types of the state (`ProfileTypes`).

`MailIsNotLost`: `Spec => []MailNotLost` if `RF` is even; it is `REPLICATION_FACTOR`, 4, and with an
odd one two answers of a read may each have a majority. The property counts
mailboxes, but why a mail is in that many of them is that the mailboxes are alike. `MailInv`
says so with one profile, the base: while no call is under way, every server has the mailbox of
the base (`Rest`), except those that are known to have missed a mail or to have one twice
(`uneven`); while one is, the servers that have handled it have what the base becomes by it, and
the others the base (`Spread`), and the answers so far are those the base would give
(`AnswersOf`). So a majority that answers a read is the answer of the base (`MajorityPicked`)
and brings every mail it holds; and a mail whose sender was told it was taken is in the
base unless it was read, pushed to a session or given up by one (`Secured`, `Taken`). Calls
follow one another here, which the property presumes (`InTurn`). Until the server that asks
the one the user is at has its answer, no mailbox has changed but one that is `uneven` from then on
(`Active` is false).

`NoMailComesTwice`: `Spec => []MailOnce` if `RF > 1`; with 0 or 1 a single answer is a majority.
A mail can be in one mailbox twice, because the server where the user was stores it and is then
asked again as a replica. `OnceInv` says why the user does not see it. There is at most one such
mailbox for each mail (`Neat`, `Storing`), so of two answers to a read that are alike none has a mail twice
(`NeatRead`, `PickedAlike`). A mail the user has or that is queued for it is in no mailbox
(`Unsent`), because the servers agree on where the user is whenever a call begins (`Settled`):
either the server that has the user pushes the mail, and nobody stores it, or nobody has the user
from then on (`Away`), and no replica pushes what others store. A read empties every mailbox, or
every server refuses it (`Collecting`, `Refused`), because all have the same nonce (`Level`). TLC
checked `OnceInv` with 5 calls and 2 sessions before it was proved.

`VaultIsSaved`: `Spec => []VaultSaved`. There are two reasons for which all servers take a vault
alike, so there are two invariants. When calls follow one another (`Sequential`), logins
included, every server that has not handled the call yet has the version it started from and
lacks nothing but its changes (`Handing`, `Fits`), so all give the same answer (`Unanimous`) and
all have the vault or none. When calls overlap, by one login (`SameLogin`), the servers may have
different versions, but the nonces of a login grow: the call the user waits for has the
highest one, a server it has not reached yet accepts it, and one it has reached refuses all
earlier ones (`Newest`); a call that is not waited for any more brings nothing the user has since
taken back, or comes too late everywhere (`ByNonce`). With both, a vault of an earlier login
may arrive under a nonce the later one has not passed: the case `VaultSaved` excepts.

**FriendChatProofs**, from `RatchetAssumption`: `RatchetsNeverPart`, `KeysAreNotReused`,
`ReadKeysStayGone`, `MajorsTakeTurns`, `SessionsMatch` and `AnswersGetThrough`, for any number of messages, kept keys and faults,
with the exceptions the properties name. The assumption has the period odd and above 1, as the
comment in `send` wants it (35): with an even one all major messages would come from one user,
with 1 the first of them would have no ciphertext. Five invariants build on each other, and
TLC checked each of them before it was proved. `SoundState`, which no fault disturbs, types
the ratchets and ties each to the number of its inputs: an even number is Alice's turn to
send, an odd one Bob's (`TurnOf`), and a message on its way is one that was sent. Turns are
what `MajorsAlternate` comes from. `Order` says why the ratchets agree although neither knows
the other's state: the inputs of all messages sent lie on one line (`Comparable`); a ratchet
has the inputs of one of them, is at most one chain behind the other end, and if it waits to
derive a chain, whatever was sent later was derived after that very chain (`Aligned`). The
part `Begun` is why a repeated request is excepted: it starts Bob's ratchet anew.
`Freshness` says that the ratchet the next message is made with, which is the pending one while
a send awaits, is past every key its owner used (`Unused`); a failed send goes back behind
one, and of two sends in parallel neither is past the other. `Secrecy`, which sends in parallel do
not disturb, says of the friend and of the pending ratchets that the kept keys differ from
each other and from those of what was read, and that all of them lie behind the receiving chain
(`Spent`). `RecvSound` collects what `recv` keeps in its four branches, with `AddIs`, `FindIs`,
`AdvanceIs` and `TurnedIs` for the operators it calls; `SendSound` does so for `send`.

The other four results are about what must not happen; `SessionsMatch` and `AnswersGetThrough`
(`MatchWhenQuiet`, `AnswersArrive`) say that the conversation goes on while mail is only
reordered and repeated and each send is over before the next, so `Meeting`, the fifth invariant, describes both ends at once. Either
they are `Even`: the same inputs, one sends on the chain the other reads, and every message that
opens a chain was read. Or one is `Ahead`: it derived a chain the other has read nothing of, and
the message that opens it (`Opens`) is still in the mail, under the session the other end looks
up. What is behind or repeated leaves this as it is (`ReadEven`, `ReadAhead`, `AheadFacts`);
only the opening message turns the other end (`OpenerTurns`), and only an even end that has read it
opens the next (`SendEven`). That both then derive the same chain needs the sealed secret a
major chain takes in: `Prepared` says that whoever opens the next one holds the ciphertext for the
key the other end has now, and `NextMajorFacts` that the turns pass between two major chains
as they should because the period is odd. Before Bob has accepted, there is `Alone`.

**ChatMembersProofs** proves, for every set of users, ranks, cooldowns and every bound:

- `TypeCorrect`: `Spec => []TypeOK`. `TypeOK` is inductive; one case per action. The
  other two rest on it; no run repeats it.
- `AuthorityNeverMinted`: `Spec => NoAuthorityMinted`. The lemma `StepMintsNothing`
  shows for each action that every entry after the step is dominated by one before
  it; `CappedFacts` is the fact about the caps of add_member and update_member.
- `CooldownRespected`: `Spec => ActionSpacing`. The property alone is not inductive: it
  relates two actions that may be many steps apart. `FreezeMatchesHistory` carries the
  link (an entry that acted is frozen until its cooldown after that action), and
  `EntriesOfExistingChat` is needed because creating a chat writes an entry.

The assumptions are `BoundsAssumption` and `RankAssumption`: the bounds are natural
numbers and ranks and cooldowns are sets of natural numbers.

From `RecoveryAssumption`: `RecoveryIsRight`, `RF = 4 => (RecoverySpec => []RecoversAgreed)`.
4 is `REPLICATION_FACTOR`; the claim is false for larger and odd numbers. More than half of the answers
and more than half of the grants need not have a majority in common once there are 6
others, and with an odd number the half that has spent a nonce may be the half that did not
answer. `Faithful` says what a recovery may rely on while it collects: servers that have not
granted anything else since it started answer with what they granted then, and enough
servers have spent the nonce, before their answer too. `Overlap`, `MajorityIsMostCommon`,
`ReconstructedGrant` and `ReconstructedAction` are about `reconstruct_chat` alone.

**OnionProofs**, from `OnionAssumption`: `PathsAreAuthentic`, `RelaysAreBounded` and
`PathsDeliver`. `Authentic`
says nothing about replies on their way, through any relay; `Truthful` does: wherever an OK
is, its secret is of a path the recipient has reported, or opens nothing. `RoutesBounded`
counts the routes that forward; an idle one forwards again when something comes, so
`Bounded` counts these as well, and admission closes them first, as `try_close` does.

`PathsDeliver`, `Spec => []Delivered`, is about the contents of a path: what an end has read is
what the other end wrote, from the start and without a gap, and nothing of the handshake.
`Delivered` speaks of the two ends; `CircuitInv` says of every path what its relays and streams
hold in between. While the handshake is under way there is one packet of a path, in one place,
and nothing is ahead of it (`Tip`, `Setup`); a relay that has refused, or whose next hop has,
forwards nothing of what lies behind (`Answers`); once the recipient has answered, the nodes
that still hold the circuit together have the data between them without a gap, the part an end
has not read yet in the streams in between (`Down`, `Up`). The invariant is stated of a `View`
of a path, a record of its hops alone, so that a step is treated in two parts: the `View...`
lemmas prove that a change of a view keeps it, and for each action one lemma shows that it makes
this change to the view of one path and none to the others (`Apart`: a stream belongs to one hop
of one path). It rests on `Authentic` for the moment a path is reported open. TLC checked
`CircuitInv` on the bounds of the run `onion` first. That the client is no server is part of
`OnionAssumption`: a client has no secret and accepts no streams.

The same module proves `ChannelForwardsAll`, `ChannelSpec => []ForwardsAll`, for every
length of buffer and source and every size of a transfer, from `ChannelAssumption` (all
of them are natural numbers, buffer and transfer not 0). `ForwardsAll` neither types the
fields nor bounds what was read, so it is not inductive; `Sound` adds both and says
where every byte of the source is: the first are out, the next in the buffer, the rest
not read. `CompactPlaced`, `FillPlaced` and `PendingPlaced` are about the bytes alone;
`CompactSound`, `FillSound` and `DrainSound` put them into the record, with what each
part of a turn needs to make progress; `TurnSound` combines them.

Only model-checked: everything about RoutingTable, Opfusk and MerkleTree.
Of ChatBlocks, `QuorumBacked` is proved for orderly rounds but also checked by `blocks_lag`, where
messages, proposals and votes may be lost: there it is only checked. `ExactlyOnce` fails when
the file is compacted (see the observations). Liveness and the
fairness in `AnswersEachRequest`, `PathsResolve` (ENABLED), and the modules with RECURSIVE
operators (Opfusk's loops, MerkleTree) are out of the prover's reach and stay with TLC.

## Not modelled

- The storage satellite, node and coding: the crates are commented out of the workspace
  (`Cargo.toml`) and need an `rpc` crate the repository does not have.
- Falcon (`crypto/falcon`, half of all source lines) is a port of third-party code; like
  the other primitives it is arithmetic out of TLC's reach. Signatures, key exchange and
  encryption are assumed to do what they promise where the code uses them; `insert_to_vault`
  verifies no signature, and neither does its model.
- The user interface, the topology tools, codecs, macros and platform glue: no protocol state.
- The chain is external; its events reach `RoutingTable` (`StakeEvent`).
- Not yet: the recovery of a profile, key_share, the three mutexes of a chat, wakers, the
  client's choice of servers and opening of paths.

## Plan

1. Lock order of `send_message`, `vote` and `proposal` (three mutexes, the stale root
   of `proposal`), as a module beside ChatBlocks.
2. The recovery of a profile, beside the replicated requests of Profiles.
3. key_share, composed with the routing table; the client's streams per server.
4. The channel friend messages implement (each message at most once) as an abstract
   specification, and chat invites.
5. A proof that the first proposed block has a quorum behind it when messages are lost
   (`QuorumBacked` in `blocks_lag`).
