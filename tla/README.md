# Chrono-shift: a TLA+ verification of the client core

Chrono-shift is a peer-to-peer messenger. Its Rust core
(`src/client/security/rust_core/src`) sends messages anonymously in DC-Net
rounds over friend edges, keeps the social state in a write-ahead log, and
carries everything over encrypted TCP connections, directly or through relays.
This directory holds TLA+ models of that core, the TLC configurations that check
them, and TLAPS proofs. Paths below are relative to `rust_core/src`.

## The system and its parts

| Part | State | Operations | Module |
|---|---|---|---|
| `dcnet/round_network.rs`, `dcnet/mod.rs` | collectors, round counter, message queue | shares, framing, extraction, `mark_seen` | RoundNetwork |
| `round_engine.rs` | one engine per node | leader start, start, share, result | RoundEngine |
| `dcnet/round_driver.rs` | one driver per node | `initiate`, `handle`, expiry, conflict, retry | RoundDriver |
| `dcnet/f2f.rs` | friends, channels, groups | logged and unlogged operations, snapshot | SocialState |
| `storage.rs`, start and stop in `app.rs` | `wal.log`, `state.json` | append, checkpoint, replay | BridgeStore |
| `dcnet/network.rs` | members, admin, leader, invites | all of `DcNetwork` | DcNetwork |
| `net/connection_manager.rs`, `net/session.rs` | slots, active map, tasks | accept, connect, send, clean-up | ConnectionManager |
| `net/relay.rs`, relay part of `app.rs` | nonces, rates, pins | send, admit, forward | Relay |
| `main.rs`, locks of `app.rs` and `web.rs` | mutexes, event channel | the jobs of each thread | Daemon |
| `pgp/web_of_trust.rs`, `identity.rs`, start in `app.rs` | keys, signatures, overrides, cached levels, two files | edits, the fixpoint computation, save, load | WebOfTrust |
| `ratchet.rs` | two chains, indices and a hash at each end | handshake, encrypt, decrypt | Ratchet |
| `service.rs` | services, proxies, the next port | create, accept, reject, close, allow, deny | ServiceManager |
| `dcnet/group.rs`, `dcnet/round.rs`, `dcnet/reputation.rs`, rounds in `dcnet/f2f.rs` | members and their standing, the open round, reputations | join, leave, reform, rounds, `broadcast_message` | GroupRounds |
| `address_book.rs` | one book per node | merge, gossip, prune | AddressBook |

TrustLevels holds the trust scale of `pgp/mod.rs` that several modules share.
Library puts the six objects that share no state (DcNetwork, WebOfTrust, Ratchet,
ServiceManager, GroupRounds, AddressBook) side by side.

How they interact: the connection manager puts frames into the incoming queue;
`incoming_pump` hands round messages to the round engine and relay messages to
`AppState`; what these want to send goes through the outgoing channel to
`outgoing_pump`, which calls `send_to`. The web console locks the same
`AppState`. Several interfaces have no caller in the daemon itself and are
modelled as the library they are: starting rounds, the mesh driver,
`send_relay`, the relay paths, gossip and `DcNetwork`.

`PROJECT.json` lists every component, including those that are not modelled, and
the hazards with their source lines.

## The models

**RoundNetwork** is the data of a round. A share is the set of pair masks and
the set of texts XORed into it; XOR keeps what occurs an odd number of times. A
string reads as a message exactly when one frame and nothing else is left, which
is the role of the SHA-256 in the frame.

**RoundEngine** is the leader-based protocol: any of `Leaders` may start a round,
messages are delivered in any order and lost if `Lossy`, collectors expire.
`queued`, `opened` and `given` are histories.

**RoundDriver** is the mesh protocol. A node is one record, the methods of the
driver are operators on it, and an action is one call of `initiate` or `handle`.
`initiated`, `announced` and `sent` are histories. Any collector may be the next
to time out, because each has a clock of its own. Signatures of shares verify.

**SocialState** is the data of the bridge and its operations; **BridgeStore**
runs them through the log. A call logs its operations one by one and applies
them at the end, as the code does; the process may die between any two steps.
`Faults` selects what else may go wrong: the checkpoint timer, failing writes,
syncs and truncations (`disk`), torn appends, a rename that fails at first so that
`state.json` is removed and written anew, a crash inside a checkpoint (`gap`), and
the methods that log nothing. `tail` is how `wal.log` ends: with a whole line, with
part of one, or with a line that lacks only its end and still parses. **DurableState** is the abstract
specification of a write-ahead log: the committed state moves by whole
operations, and stops and starts leave it alone. BridgeStore is compared with it
by a refinement mapping that takes what a restart would rebuild as the state.

**DcNetwork** has one action per method.

**ConnectionManager** shows each connection from both ends: dialed, shaken,
entered in the map, read and written by two tasks, removed. Frames are counted.
The handshake is a step that succeeds or fails; an end that has its last message
can complete it although the other has gone, and finds out when it reads. A frame
that is too long, repeated or does not decrypt ends the reader and counts as a
broken connection.

**Relay** has per-link FIFO wires, a clock, admission tables with their limits,
routes as a constant, and restarts that keep the identity or have a new one. A
message that claims more hops than `MAX_HOPS` is dropped. The histories
begin anew with a restart, so `ForwardsOnce` is about what happens between two
starts of a node.

**Daemon** reduces each thread to the sequence of its lock, unlock and channel
operations. The thread of the web console is not one of tokio's, so the connect
request finds no runtime and starts no task.

**WebOfTrust** visits one key per step, in any order, because the code iterates
over a `HashMap`; edits, saving, the end of the process inside a write, a lost
identity file and an altered signature in the saved web surround it. A
signature verifies or does not, and there is at most one per pair, which
`add_signature` ensures; a file that repeats a line, and an identity that states
another fingerprint than its key's, are outside the model.

**Ratchet** has both ends. A key is a secret and a number of steps, a hash is the
sequence of what went into it. Frames arrive in any order, repeatedly, damaged or
never, at the other end or back at the one that sent them, and either end may
generate a new key pair. Both chains of an end start from the same key
(`ratchet.rs:87`), so a frame that is handed back opens, takes its step of the
receiving chain and shuts out the frame of the other end with that index.

**ServiceManager** has one action per method; the port counter wraps at
`LastPort`. Closing one service drops every proxy of its owner
(`service.rs:155`), although other services of that owner stay Active: these
are then listed and out of reach. A rejected service keeps its port.

**GroupRounds** is the group of a channel, its open round and the reputations.
Scores are integers in millionths where the code has `f64`; a lowered score is
rounded down. The two can differ in a comparison only when a score is within a
few millionths of the threshold; the properties relate verdicts that are taken
from one and the same score. A round is opened and finished in two steps, so members join
and leave in between. In `broadcast_message` all members respond, so its eviction
step finds nobody.

**AddressBook** is the books of several nodes with answers that arrive late, in
any order or twice. An age is an unsigned difference that wraps, as in the
release build, so an entry from before the clock was set back is pruned. An
announcement with another key adds its addresses to the entry of the first key.

**Library** starts with the six objects as they are created. The variable `part`
says which of them a behaviour exercises; the group appears twice, as a whole and
as the reputation of one peer (`ReportOnMe`, which is `process_round` for that peer
and allows many rounds).

## Runs

| Run | Shows | Bounds |
|---|---|---|
| engine_round | no forged text, one share per round id, agreement, no repeated report | 3 nodes, 2 leaders, 1 round id, two groups, a missing edge key, losses, expiry |
| driver_expiry | the lower uid wins, one share per round, no text delivered twice | 2 members, losses, expiry, retries, 4 round ids |
| driver_live | every message arrives, a loser retries | 2 members, reliable links, no expiry, users who wait |
| store_durable | a restart rebuilds the memory; refinement of DurableState | 4 calls, 2 crashes, renames that fail at first, no checkpoint due inside a call |
| store_faults | a finished checkpoint is the memory | every fault, 3 calls |
| store_checkpoint | **violated**: the automatic checkpoint loses the operation that caused it | threshold 2 |
| library_objects | the properties of the six objects below | one object per behaviour |
| connections | slots exact, newest connection stays active | 2 nodes, a reconnect, 1 slot, 1 frame each way, failures |
| connections_live | a replaced connection delivers what it accepted and ends; frames arrive | 2 crossing connections, 1 frame each way, no failures |
| relay_replay | a message is forwarded once between restarts | 4 nodes, circular routes, 3 messages |
| daemon_jobs | no thread waits for ever | 2 jobs a thread, room for their events |
| daemon_events | **violated**: `emit` waits with the `AppState` locked | channel of 1 |

`library_objects` checks objects that share no state, so a behaviour exercises
one of them and leaves the others as they were created. Their bounds:

| Object | Shows | Bounds |
|---|---|---|
| DcNetwork | the leader is a member, nobody is both member and invited | 3 users, 4 joins |
| WebOfTrust | a valid cache is the least map the signatures justify, levels only grow, trust has a path, the client knows its own key | 2 own keys, 2 of peers, 2 signatures, 2 edits, 1 stop |
| Ratchet | frames are read in order and once, and the next one opens unless a frame of its own was handed to the end | 3 frames and 1 new key pair at each end |
| ServiceManager | a closed service is out of reach, an open port stays with its service for a full turn of the counter | 2 ports, 3 services, 3 accepted |
| GroupRounds | no malicious member, what an open round will write back is current, one verdict on a peer | 3 members and 3 rounds; a peer reported on 12 times |
| AddressBook | what a book says came along friends who trust each other | 3 books, 2 entries by hand, 2 answers |

Twelve reports are enough because the verdict counts misses only from the tenth
round on; the proof covers any number. With three rounds a member becomes malicious
by three misses in a row; by its score it takes five rounds, which only the theorem
`MaliciousAreOut` covers. The counter starts at the last of two ports, so that it
wraps at once and the third service gets a port again; in the code there are 65536
ports.

Two leaders or initiators make a conflict; two connections cross; two crashes
make a second recovery start from the result of the first. Deadlock checking is
off where the system may stop because the bounded inputs are used up.

Some passing runs exclude a case on purpose, because the code departs there from
what its comments say. `store_durable` has no automatic checkpoint (neither
by count nor by timer), no failed or torn append, none of the unlogged changes and
no crash inside a checkpoint; its checkpoints are those of a stop; `driver_live` has
two members; `daemon_jobs` never fills the event channel. What happens in those
cases is shown by the two violated runs and by the next section.

## Further instances

Configurations to run by hand (`tlc -config X.cfg MC...`). These hold: MCRelayRate
(at most two windows' worth in one window length) and MCRelayLoop (every message
comes to rest).

Larger instances that were checked by changing constants, and hold:

- MCRoundEngine with `MCPair`, `MCOutdated` and `MCKeyRingsPair`: two nodes, two
  rounds, a text that is too long, an outdated key; also `CounterAdvancesByOne`;
- MCRoundDriver with `AllWriters`: three members who may all initiate,
  reliable links, no expiry, 3 round ids: 4,517,214 states;
- MCBridgeStore with `GroupCalls`: five calls;
- MCConnectionManager with `Crossing`, two slots, one frame and `Faults = {"break"}`:
  456,869 states; with `Both`, a crossing and a reconnect, all failures, no frames;
- WebOfTrust with three edits and three signatures: 942,731 states;
- AddressBook with two keys: 181,824 states.

These are violated. The last column names the comment the property is read from.
Some of these comments promise the property outright (`storage.rs:8`,
`round_driver.rs:40`); others only suggest it (`relay.rs:10`, `round_driver.rs:9`,
`f2f.rs:746`), and there the violation describes what the code does without
calling it a defect.

| Configuration | Property | What happens | Comment |
|---|---|---|---|
| MCRoundDriverLoser | LoserRetries | the loser of a conflict throws away a share it will not get again | `round_driver.rs:241` |
| MCRoundDriverOvertake | EveryMessageDelivered | a share that overtakes its start is dropped | `round_driver.rs:9` |
| MCRoundDriverQueue | QueuedUntilDelivered | a second `initiate` replaces the queued message | `round_driver.rs:83` |
| MCRoundDriverRetries | BoundedRetries | a retry resets the count of retries | `round_driver.rs:40` |
| MCBridgeStoreTorn | Durable | an unfinished line swallows the next operation | `storage.rs:151` |
| MCBridgeStoreGap | ImplementsDurableState | an invitation that had been refused succeeds in a replay; with `rename` added, a crash while there is no `state.json` loses what the log does not hold | `storage.rs:189` |
| MCBridgeStoreKeys | KeysDurable | replay generates other edge keys | `storage.rs:23` |
| MCBridgeStoreAppend | FailedAppendChangesNothing | a failed append does not stop the change | `storage.rs:8` |
| MCBridgeStoreSilent | EveryChangeLogged | two methods log nothing | `f2f.rs:135` |
| MCBridgeStoreLeave | GroupsMatch | a restart puts the client back into a group it left | `f2f.rs:746` |
| MCConnectionManagerCap | GlobalCap | outbound connections do not count | `connection_manager.rs:57` |
| MCConnectionManagerCrossing | StaysConnected | simultaneous connects can end both connections | `connection_manager.rs:204` |
| MCRelayRestart | RefusedWereSeen | messages never seen are refused as replays after a restart; with `LateLinks <- Direct` and `MaxStarts = 0` also when they were overtaken | `relay.rs:10` |

## Fairness

- RoundDriver: messages on reliable links are handled. Not assumed: that a user writes.
- ConnectionManager: the tasks of an open connection are scheduled by tokio, and
  a handshake ends because it has a timeout.
- Relay: `incoming_pump` handles what arrives.
- Daemon: threads run, a free mutex goes to a waiting thread, the outgoing pump
  takes what is there. The consumer of events is an assumption about an embedding
  program: the daemon has none, only tests call `poll_events`.

## Proofs

All hold for every value of the constants under the named assumptions of the
modules (finite `Node`, `NoKey` not a key, groups made of nodes, and so on) and
the hypotheses given below. Every safety invariant, action property and
refinement that a passing run checks is proved; what remains is at the end.

| Module | Proves, for all constants | Run |
|---|---|---|
| RoundEngineProofs | `PartialRoundYieldsNothing`, `CleanRoundYieldsTheMessage`, `TypeCorrect`, `OneShareCorrect`, `NoForgeryCorrect`, `AgreementCorrect`, `CounterCorrect`, `AtMostOnceCorrect` | engine_round |
| RoundDriverProofs | `DriverTyped`, `DriverOneShare`, `DriverNoForgery` | driver_expiry (the first two) |
| RoundDeliveryProofs | `LowestUidAlwaysWins`, `NeverDuplicated`, `DriversAgree` | driver_expiry (the first two) |
| BridgeStoreProofs | `StoreTyped`, `CheckpointExact`, `StateDurable`, `StoreImplementsDurableState` | store_durable, store_faults |
| ConnectionManagerProofs | `WithinCapacity`, `SlotsCounted`, `NewestStays`, `NoFrameLeftBehind` | connections, connections_live |
| RelayProofs | `TablesBounded`, `ForwardedOnce` | relay_replay |
| TrustProofs | `InOrder`, `NextOpens`, `HashesAgree`; `CacheLeast`, `LevelsGrow`, `TrustedHasPath`, `OwnKeyKnown` | library_objects |
| LibraryProofs | `LeaderCorrect`, `OrderCorrect`, `InvitesCorrect`; `ClosedUnreachable`, `PortsNeverMove`; `MaliciousAreOut`, `WriteBackCurrent`, `VerdictsAgree`; `BooksFollowTrust`; `GroupTyped`, `LibraryIsItsObjects`, `LibraryTyped` | library_objects |

### Rounds with a leader

`PartialRoundYieldsNothing`: if a participant's share is missing, the mask of an
edge to it is left over, so nothing is read. `CleanRoundYieldsTheMessage`: with
equal keys at both ends of every edge and one message, the masks cancel in pairs
and that message is left.

The safety properties of RoundEngine are not inductive: what a leader will extract
depends on shares under way. The invariant `Inv` therefore adds that queues hold
queued texts, that a leader opens a round id once and not above its counter, that
a contribution belongs to an opened round, that every start on the way is an
opened round, every share on the way or collected is backed by a contribution,
and every result on the way is something a round carried. A report follows from
`PartialRoundYieldsNothing`: what can be read contains the whole group's shares,
which correspond to its contributions, and nobody can contribute again because
the counters have passed the round. `AgreementCorrect` needs that any two groups
have a common member; this is part of the property.

`AtMostOnceCorrect` bounds a count: the reports of a text by the number of nodes
that queued it. The invariant `OnceInv` makes it an injection. A node takes part in
one leader's round per id (`OneLeader`), a result on the way is the only one for
its round and its receiver, and the leader's collector is gone by then
(`ResultInv`); so a round is reported once (`ReportedOnce`). A queued text is in one place
of the queue or in one contribution (`TextInv`). Each report of a text is then of
another round, each such round carries another contribution with the text, and
each of these is of another node that queued it.

### Mesh rounds

A call of `initiate` or `handle` runs the expiry, the handler and the retries one
after the other, so a step is a composition of small updates: begin a round, skip
an id, join, store a share, broadcast the share kept back, note what was
extracted, drop what is over. The lemmas `RetryIn`, `SettleIn`, `OnShareIn` and
`HandleIn` show that a set of driver states closed under the updates is closed
under a call; each invariant is then such a set.

`Sound` is the one for `DriverOneShare`: a node has sent nothing above its
counter, nothing for the round it has pending, and one share per round. It holds
for any participant lists, missing keys, losses and expiry.

`Honest` is the one for `DriverNoForgery`, and needs no more: a share is neutral or
for a text its sender announced for that round, an announced text was handed in,
what a collector holds was sent. A text is extracted only if it is in one of the
shares, so it was handed in and announced, whatever lists the rounds had and
whichever of them the shares in a collector belong to. `NoForgedText` and
`RoundAgreement` of RoundDriver are in no run of their own, because `LowestUidWins`
implies them where it holds; TLC finds both true of the instance of driver_expiry.

`Right` is the one for `LowestUidAlwaysWins`, `DriversAgree` and `NeverDuplicated`. It
relates a driver to the whole history: a message share is the last of its round and
the only one with a message; whoever sent a neutral share in a round it had
announced gave way to a lower uid; a share kept back and a queued text are not
through yet; what a collector holds was sent. A round all have sent for does not
change any more, so its text is through for all or for none. The field `started` of
a driver is a history of the call in progress, from which the action records what
it announced.

These three theorems assume `OneGroup`: all members use the same participant list.
The driver takes the list as an argument of `initiate` and does not compare it with
those of the others. Without the hypothesis each of the properties is false of the
model, by behaviours TLC finds:

- `LowestUidWins`, with the lists {1,2} and {2,3}: 1 announces round 1 to 2, 2
  announces its own round 1 to 3, and the latter completes with the text of 2.
- `NoDuplicateDelivery`, with the lists {3,4}, {1,2,3,4} and {1,2,3} used by 3, 2 and
  1, reliable links and three round ids: 3 announces round 1 and 4 joins it; 3
  gives way to 2, and 2 to 1, whose round has the text. At 3 all masks cancel and the
  text comes out; at 1 the mask between 3 and 4 is left, so 1 repeats the text in
  round 2 and 3 extracts it again.
- `RoundAgreement`, with the disjoint lists {1,2} and {3,4}: each pair has a round 1
  of its own.

### The log

`CheckpointExact` and `StoreTyped` hold with every fault. `StateDurable` assumes
`Faults \subseteq {"timer", "rename", "gap"}`, `StoreImplementsDurableState` assumes
`Faults \subseteq {"timer", "rename"}`, and both assume `[]NoneDue`: no call finds
a checkpoint due after its append, by count or by time. What is excluded is what
makes the property false of the code: TLC finds `Durable` violated with each of
`disk`, `torn` and `silent` alone, and with `timer` where a checkpoint may fall due
inside a call; the refinement with these and with `gap`. store_checkpoint shows the
same for the count. With `gap` alone `Durable` holds although the refinement does
not: a crash may change the state that a restart finds, and memory then is that.
The invariant `LogInv` says that the log on top of the snapshot shows the memory
and the logged part of the call in progress. A replay goes through the log, which
is induction over its length; it is done by taking the shortest prefix for which
the claim fails (`WFMin` on the set of such lengths). Replay generates other edge
keys and other groups than the memory has, so the proof also shows that neither
has a say in what an operation shows.

### Connections

The slot counter is the cardinality of the set of inbound connections that are not
over, so each step is shown to change both by the same amount. `NewestIsActive`
needs that a node's newest connections are its own, and the capacities that queued
frames and frames on the wire are at most those accepted. `NoFrameLeftBehind`
assumes that connections may break but that no handshake is rejected and no
reader gives up on a silent peer. Its invariant `Life` says that a reader ends
only after the peer's writer has, and a writer only with an empty queue.

### Relays

`TablesBounded` holds for whatever arrives. `ForwardedOnce` assumes `Roomy`: there
are fewer identity keys, over all nodes and restarts, than the nonce table has
room for (4096 in the code). The code clears a full table, after which a copy that is still
under way would be admitted again. The invariant says that every copy of a message
on any wire is a replay to the nodes that have forwarded it: a number identifies
a key and a nonce, and the table entry of a key only rises while the table is not
cleared.

### Library objects

*DcNetwork*: the conjunction of the type invariant and the three properties.

*WebOfTrust*, for any number of keys and signatures: while the map is computed,
every level is at most what its signers give it, so the next visit can only raise
it; the map is below every map that grants what the signatures do; and in a pass
without a change the keys already visited are balanced. When a pass ends without
a change these say that the map is a fixpoint and the least one. A path exists
because otherwise the keys without a path could be lowered and the map would not
be the least.

*Ratchet*, for any number of frames: the invariant numbers the frames of an end by
the steps of its chain without a gap and says that what an end has read is one
frame for each of the first so many steps, the other's or its own. `ReadsInOrder`
says so in terms of frames. `NextOpens` has the hypothesis that the end has read
none of its own; without it TLC finds `NextFrameOpens` violated after one frame of
each end. `HashesAgree` needs a second
invariant about what each hash is made of.

*ServiceManager*: every proxy leads to a service that was accepted and not closed,
whoever may use it. Until as many services were accepted as there are ports, the
open ports are behind the counter, with wrap-around counted; this gives
`PortsNeverMove`.

*GroupRounds*: a standing enters the group as a new one or out of a finished round,
which also closes the round; so an open round holds the standings of those who
stayed, and somebody who left and joined again has a new one (`WriteBackCurrent`).
`VerdictsAgree`, for any number of rounds, is not inductive: a reward can bring the
rounds to ten, and then more than half of them missed would make a peer malicious
without a ban. The invariant bounds the score by the misses and rewards so far; six
misses in nine rounds cannot leave a score that avoids the ban.

*AddressBook*, for any number of books, entries and answers: what a book or an
answer on the way says is backed by somebody whose word reaches the node along
friends who trust each other (`Backed`), and backing is passed on by a friend.

*Library*: `LibraryIsItsObjects` shows that a behaviour of the composition is one of
each object's specification (a step of one object is a stutter of the others, and
`ReportOnMe` is a step of the group), so the theorems about the objects hold of what
library_objects runs. `LibraryTyped` follows with the type theorem of each object;
`GroupTyped` adds the round ids and the levels `sync_reputation_to_trust` writes to
the invariant of the group.

### Only model-checked

- Liveness: `EveryMessageDelivered`, `LoserRetries`, `ReplacedConnectionsEnd`,
  `AcceptedFramesArrive`, `JobsFinish`. Fairness and ENABLED are outside the
  prover's reach.
- Absence of deadlock, where a run checks it, and everything about Daemon.

## Not modelled

- The shuffle: commitments and encryption of slots inside one sequential call.
- The exchange inside the session handshake. It is a step that succeeds or fails;
  what makes it succeed is cryptography.
- LAN discovery, transports, HTTP parsing: input and output.
- Wire formats, FFI, parsers, filters: conversions without state.

Within the modelled parts: `switch_channel` (a field that is only displayed),
the 64 MiB limit of replay, changes of relay paths (a constant in Relay), the
address list of `register_peer`, steps of the clock backwards in Relay, and a restart of a
round engine. After such a restart its counter
begins at 0 and `mark_seen` refuses every id but the next one, so the node takes no
part in the rounds of the others; RoundEngine says nothing about that.

Hazards that no run covers are in `PROJECT.json` with the reason.

## Plan

1. Models: the session handshake as an exchange of challenges; a restart action in
   RoundEngine; relay paths as state.
2. Compositions: ConnectionManager under RoundDriver; the group rounds inside the
   log of BridgeStore.
3. Proofs: `RoundAgreement` of RoundDriver for lists that differ but have a common
   member, or a behaviour that violates it; `ForwardsOnce` for a table that is
   cleared, with the age of the copies under way.
