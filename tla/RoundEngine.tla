---------------------------- MODULE RoundEngine ----------------------------
(***************************************************************************)
(* The leader-collected DC-Net rounds of round_engine.rs, run by the daemon *)
(* (main.rs, incoming_pump) on every node: a leader announces a round,      *)
(* every participant answers with one XOR share, the leader XORs the shares *)
(* and publishes what it reads.  Any node may lead, several at once.        *)
(*                                                                          *)
(* Messages between two nodes can overtake each other (a reconnect leaves   *)
(* the old connection's reader running beside the new one) and get lost (no *)
(* connection, or a full writer queue), so the network is a set.            *)
(***************************************************************************)
EXTENDS RoundNetwork

CONSTANTS Groups,        \* the participant lists rounds are started with
          Leaders,       \* the nodes whose client starts rounds
          UnverifiedBy,  \* <<n, p>>: the key n has on file for p is outdated
          KeyRings,      \* the edge-key configurations considered
          Lossy,         \* may the network lose messages?
          MaxRound       \* bound on round ids

ASSUME GroupAssumption == Groups \subseteq SUBSET Node
ASSUME LeaderAssumption == Leaders \subseteq Node
ASSUME UnverifiedAssumption == UnverifiedBy \subseteq Node \X Node
ASSUME KeyRingAssumption == KeyRings \subseteq EdgeKeys
ASSUME BoundAssumption == MaxRound \in Nat

VARIABLES current_round_id,  \* per node: the tracker's counter
          message_queue,     \* per node: texts waiting for a round
          collectors,        \* per node: the rounds it is collecting
          leader_uid,        \* per node: the last leader it answered (Option)
          edge_keys,         \* the edge keys everyone holds; fixed
          msgs,              \* messages on the way
          events,            \* per node: the RoundEvents it has returned
          queued,            \* history: the texts each node ever queued
          opened,            \* history: the rounds started, with their group
          given              \* history: every share a node has contributed

engineVars == <<current_round_id, message_queue, collectors, leader_uid>>
vars == <<engineVars, edge_keys, msgs, events, queued, opened, given>>

StartMsg  == [type : {"DcRoundStart"}, src : Node, dst : Node, round : Nat,
              participants : SUBSET Node]
ShareMsg  == [type : {"DcRoundShare"}, src : Node, dst : Node, round : Nat,
              share : Share]
ResultMsg == [type : {"DcRoundResult"}, src : Node, dst : Node, round : Nat,
              payload : Share]
Message   == StartMsg \cup ShareMsg \cup ResultMsg

Event == [kind : {"Extracted", "Received"}, round : Nat, text : Text]

Opened == [leader : Node, round : Nat, group : SUBSET Node]

Given == [node : Node, round : Nat, leader : Node, group : SUBSET Node,
          texts : SUBSET Text]

\* Every node starts with RoundEngine::new.
Init ==
    /\ current_round_id = [n \in Node |-> 0]
    /\ message_queue = [n \in Node |-> <<>>]
    /\ collectors = [n \in Node |-> {}]
    /\ leader_uid = [n \in Node |-> {}]
    /\ edge_keys \in KeyRings
    /\ msgs = {}
    /\ events = [n \in Node |-> <<>>]
    /\ queued = [n \in Node |-> {}]
    /\ opened = {}
    /\ given = {}

---------------------------------------------------------------------------
\* A user's text enters the tracker's queue; each node queues a text once.
QueueMessage(n, text) ==
    /\ text \notin queued[n]
    /\ message_queue' = [message_queue EXCEPT ![n] = Append(@, text)]
    /\ queued' = [queued EXCEPT ![n] = @ \cup {text}]
    /\ UNCHANGED <<current_round_id, collectors, leader_uid, edge_keys, msgs,
                   events, opened, given>>

\* Mutant: what a node addresses to itself arrives.
Post_Loopback(ms) == ms

\* The connection manager has no connection from a node to itself, so what
\* is addressed to the sender is dropped.
Post(ms) == {m \in ms : m.dst # m.src}

\* The queued text is consumed whether or not a share can be computed.
start_round_as_leader(n, participants) ==
    LET round   == next_round(current_round_id[n])
        message == dequeue_message(message_queue[n])
        able    == CanShare(n, participants, message, edge_keys)
        share   == compute_xor_share_secure(round, n, participants, message,
                                            edge_keys)
        fresh   == NewCollector(round, participants)
    IN  /\ round <= MaxRound
        /\ current_round_id' = [current_round_id EXCEPT ![n] = round]
        /\ message_queue' = [message_queue EXCEPT ![n] = Dequeued(@)]
        /\ collectors' = [collectors EXCEPT ![n] =
               WithCollector(@, IF able THEN submit_share(fresh, n, share)
                                        ELSE fresh)]
        /\ msgs' = msgs \cup
               Post([type : {"DcRoundStart"}, src : {n}, dst : participants,
                     round : {round}, participants : {participants}])
        /\ opened' = opened \cup {[leader |-> n, round |-> round,
                                   group |-> participants]}
        /\ given' = IF able
                    THEN given \cup {[node |-> n, round |-> round, leader |-> n,
                                      group |-> participants,
                                      texts |-> message]}
                    ELSE given
        /\ UNCHANGED <<leader_uid, edge_keys, events, queued>>

\* A participant answers the next round id, and only that one.
handle_round_start(n, m) ==
    LET message == dequeue_message(message_queue[n])
        able    == CanShare(n, m.participants, message, edge_keys)
        share   == compute_xor_share_secure(m.round, n, m.participants,
                                            message, edge_keys)
    IN  /\ m.type = "DcRoundStart" /\ m.dst = n
        /\ IF mark_seen(current_round_id[n], m.round)
           THEN /\ current_round_id' =
                       [current_round_id EXCEPT ![n] = m.round]
                /\ leader_uid' = [leader_uid EXCEPT ![n] = {m.src}]
                /\ message_queue' = [message_queue EXCEPT ![n] = Dequeued(@)]
                /\ msgs' = (msgs \ {m}) \cup
                       IF able THEN {[type |-> "DcRoundShare", src |-> n,
                                      dst |-> m.src, round |-> m.round,
                                      share |-> share]}
                               ELSE {}
                /\ given' = IF able
                            THEN given \cup
                                 {[node |-> n, round |-> m.round,
                                   leader |-> m.src, group |-> m.participants,
                                   texts |-> message]}
                            ELSE given
           ELSE /\ msgs' = msgs \ {m}
                /\ UNCHANGED <<current_round_id, leader_uid, message_queue,
                               given>>
        /\ UNCHANGED <<collectors, edge_keys, events, queued, opened>>

\* A round closes with the last share, or with any share after the deadline.
Finished(c) == is_complete(c) \/ c.expired

\* Mutant: an event is returned even when the frame was broken.
Report_Always(log, kind, round, text) ==
    Append(log, [kind |-> kind, round |-> round, text |-> text])

\* The RoundEvent a handler returns when there is a text to report.
Report(log, kind, round, text) ==
    IF text = {} THEN log
    ELSE Append(log, [kind |-> kind, round |-> round,
                      text |-> CHOOSE t \in text : TRUE])

\* The leader stores a share; when that closes the round and the XOR is an
\* intact frame, the result goes out to the participants.
handle_round_share(n, m) ==
    LET found == {c \in collectors[n] :
                     /\ c.round = m.round
                     /\ Accepts(c, m.src)
                     /\ <<n, m.src>> \notin UnverifiedBy}
    IN  /\ m.type = "DcRoundShare" /\ m.dst = n
        /\ \/ /\ found = {}
              /\ msgs' = msgs \ {m}
              /\ UNCHANGED <<collectors, events>>
           \/ \E c \in found :
              LET full    == submit_share(c, m.src, m.share)
                  payload == extract_message(full)
                  text    == unpad_message(payload)
              IN  IF Finished(full)
                  THEN /\ collectors' = [collectors EXCEPT ![n] =
                                            WithoutCollector(@, m.round)]
                       /\ msgs' = (msgs \ {m}) \cup
                              IF text = {} THEN {}
                              ELSE Post([type : {"DcRoundResult"}, src : {n},
                                         dst : c.participants,
                                         round : {m.round},
                                         payload : {payload}])
                       /\ events' = [events EXCEPT ![n] =
                              Report(@, "Extracted", m.round, text)]
                  ELSE /\ collectors' = [collectors EXCEPT ![n] =
                                            WithCollector(@, full)]
                       /\ msgs' = msgs \ {m}
                       /\ UNCHANGED events
        /\ UNCHANGED <<current_round_id, message_queue, leader_uid, edge_keys,
                       queued, opened, given>>

\* A published result also moves the counter of a node that missed the start.
handle_round_result(n, m) ==
    LET text == unpad_message(m.payload)
    IN  /\ m.type = "DcRoundResult" /\ m.dst = n
        /\ msgs' = msgs \ {m}
        /\ current_round_id' = [current_round_id EXCEPT ![n] =
               IF text # {} /\ mark_seen(@, m.round) THEN m.round ELSE @]
        /\ events' = [events EXCEPT ![n] =
               Report(@, "Received", m.round, text)]
        /\ UNCHANGED <<message_queue, collectors, leader_uid, edge_keys, queued,
                       opened, given>>

\* The deadline of a collector passes; the code looks at it only in
\* handle_round_share.
Expire(n, c) ==
    /\ ~c.expired
    /\ collectors' = [collectors EXCEPT ![n] =
           WithCollector(@, [c EXCEPT !.expired = TRUE])]
    /\ UNCHANGED <<current_round_id, message_queue, leader_uid, edge_keys,
                   msgs, events, queued, opened, given>>

\* send_to fails: no connection, or the peer's writer queue is full.
Lose(m) ==
    /\ Lossy
    /\ msgs' = msgs \ {m}
    /\ UNCHANGED <<engineVars, edge_keys, events, queued, opened, given>>

Deliver(n, m) == \/ handle_round_start(n, m)
                 \/ handle_round_share(n, m)
                 \/ handle_round_result(n, m)

Next ==
    \/ \E n \in Node, text \in Text : QueueMessage(n, text)
    \/ \E n \in Leaders, participants \in Groups :
           start_round_as_leader(n, participants)
    \/ \E n \in Node : \E m \in msgs : Deliver(n, m)
    \/ \E n \in Node : \E c \in collectors[n] : Expire(n, c)
    \/ \E m \in msgs : Lose(m)

Spec == Init /\ [][Next]_vars

---------------------------------------------------------------------------
\* The values every variable ranges over.
TypeOK ==
    /\ current_round_id \in [Node -> Nat]
    /\ message_queue \in [Node -> Seq(Text)]
    /\ collectors \in [Node -> SUBSET Collector]
    /\ leader_uid \in [Node -> SUBSET Node]
    /\ edge_keys \in EdgeKeys
    /\ msgs \subseteq Message
    /\ events \in [Node -> Seq(Event)]
    /\ queued \in [Node -> SUBSET Text]
    /\ opened \subseteq Opened
    /\ given \subseteq Given

\* The contributions to one leader's round.
GivenTo(leader, round) == {g \in given : g.leader = leader /\ g.round = round}

\* What one leader's round really carried: all of its group contributed, each
\* member nothing but what its user had queued, and text is the only one that
\* does not cancel among the contributions.
Carried(leader, group, round, text) ==
    LET gs == GivenTo(leader, round) IN
    /\ \A g \in gs : g.group = group /\ g.texts \subseteq queued[g.node]
    /\ {g.node : g \in gs} = group
    /\ {t \in Text : Cardinality({g \in gs : t \in g.texts}) % 2 = 1} = {text}

Reported(round, text) ==
    \E leader \in Node, group \in Groups : Carried(leader, group, round, text)

\* A text a node reports is what some round really carried, never the residue
\* of a collision, of shares that do not belong together, or of the part that
\* had arrived when the deadline passed (round_engine.rs:11).
NoForgedText ==
    \A n \in Node : \A i \in DOMAIN events[n] :
        Reported(events[n][i].round, events[n][i].text)

\* One counter per node means one share per round id: a node that leads or
\* answers a round never contributes to another round with that id, whatever
\* the other leaders announce (round_network.rs:352, split-brain).
OneSharePerRound ==
    \A g, h \in given : g.node = h.node /\ g.round = h.round => g = h

\* Two leaders that run the same round id over groups with a common member
\* never make two nodes report different texts for it.
RoundAgreement ==
    (\A P, Q \in Groups : P \cap Q # {}) =>
    \A n, m \in Node : \A i \in DOMAIN events[n], j \in DOMAIN events[m] :
        events[n][i].round = events[m][j].round
            => events[n][i].text = events[m][j].text

\* A node reports a text at most once for each time it was queued: neither the
\* leader's own extraction nor a late result repeats it.
AtMostOncePerQueueing ==
    \A n \in Node, t \in Text :
        Cardinality({i \in DOMAIN events[n] : events[n][i].text = t})
            <= Cardinality({q \in Node : t \in queued[q]})

\* The round counter only moves forward, and one step at a time
\* (round_network.rs:394).
CounterAdvancesByOne ==
    [][\A n \in Node : current_round_id'[n] \in
           {current_round_id[n], current_round_id[n] + 1}]_vars
===========================================================================
