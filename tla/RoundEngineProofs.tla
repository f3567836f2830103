------------------------ MODULE RoundEngineProofs ------------------------
(***************************************************************************)
(* Proofs about RoundNetwork and RoundEngine.                               *)
(***************************************************************************)
EXTENDS RoundEngine, FiniteSetTheorems, TLAPS


---------------------------------------------------------------------------
(***************************************************************************)
(* What the XOR of the shares of a round is, for every group, key ring and  *)
(* round: a full clean round yields its message, a partial one yields       *)
(* nothing.                                                                 *)
(***************************************************************************)
\* The entry a participant contributes.
EntryOf(p, round, group, message, keys) ==
    [from |-> p,
     share |-> compute_xor_share_secure(round, p, group, message, keys)]

\* The entries of a collector were computed for this round and group, one per
\* participant.
WellFormed(entries, round, group, keys) ==
    /\ IsFiniteSet(entries)
    /\ \A e \in entries :
        /\ e.from \in group
        /\ \E message \in SUBSET Text :
               e = EntryOf(e.from, round, group, message, keys)
    /\ \A d, e \in entries : d.from = e.from => d = e

\* Two finite sets with a one-to-one correspondence have as many elements.
LEMMA SameSize ==
    ASSUME NEW S, NEW T, IsFiniteSet(S), NEW f \in [S -> T],
           \A x, y \in S : f[x] = f[y] => x = y,
           \A t \in T : \E s \in S : f[s] = t
    PROVE  IsFiniteSet(T) /\ Cardinality(T) = Cardinality(S)
<1>1. f \in Bijection(S, T)
  BY Zenon DEF Bijection, Injection, Surjection, IsInjective
<1>. QED
  BY <1>1, FS_Bijection, Zenon DEF ExistsBijection

\* A two-element set has an even size.
LEMMA PairSize ==
    ASSUME NEW x, NEW y, x # y
    PROVE  Cardinality({x, y}) = 2
<1>1. IsFiniteSet({x}) /\ Cardinality({x}) = 1
  BY FS_Singleton, Zenon
<1>2. {x, y} = {x} \cup {y} /\ y \notin {x}
  BY Zenon
<1>. QED
  BY <1>1, <1>2, FS_AddElement

\* If someone's share is missing, the masks of the edges to that participant
\* do not cancel: whatever part of the shares has arrived, the frame check
\* (unpad_message) reads nothing out of it.
THEOREM PartialRoundYieldsNothing ==
    ASSUME NEW round \in Nat, NEW group \in SUBSET Node, NEW keys \in EdgeKeys,
           NEW c, c.participants = group,
           WellFormed(c.shares_received, round, group, keys),
           unpad_message(extract_message(c)) # {}
    PROVE  Senders(c) = group
<1>. DEFINE E == c.shares_received
<1>1. PICK t \in TextsLeft(E) : MasksLeft(E) = {}
  BY Zenon DEF unpad_message, extract_message
<1>2. PICK ea \in E : t \in ea.share.texts
  BY <1>1, Zenon DEF TextsLeft
<1>3. Senders(c) \subseteq group
  BY DEF Senders, WellFormed
<1>4. SUFFICES ASSUME NEW b \in group, b \notin Senders(c)
               PROVE  FALSE
  BY <1>3, Zenon
<1>. DEFINE a == ea.from
            M == derive_pair_share(keys[a][b], round, a, b)
            H == {e \in E : M \in e.share.masks}
<1>5. a \in group /\ a # b
  BY <1>2, <1>4, Zenon DEF WellFormed, Senders
<1>6. M \in ea.share.masks
  <2>1. PICK message \in SUBSET Text : ea = EntryOf(a, round, group, message, keys)
    BY <1>2, Zenon DEF WellFormed
  <2>2. ea.share.masks = {derive_pair_share(keys[a][other], round, a, other) :
                              other \in group \ {a}}
    BY <2>1 DEF EntryOf, compute_xor_share_secure
  <2>. QED
    BY <2>2, <1>4, <1>5, Zenon
<1>7. \A e \in H : e = ea
  <2>1. SUFFICES ASSUME NEW e \in E, M \in e.share.masks
                 PROVE  e.from = a
    BY <1>2, Zenon DEF WellFormed
  <2>2. PICK message \in SUBSET Text :
            e = EntryOf(e.from, round, group, message, keys)
    BY Zenon DEF WellFormed
  <2>3. e.share.masks = {derive_pair_share(keys[e.from][other], round, e.from, other) :
                             other \in group \ {e.from}}
    BY <2>2 DEF EntryOf, compute_xor_share_secure
  <2>4. PICK other \in group \ {e.from} :
            M = derive_pair_share(keys[e.from][other], round, e.from, other)
    BY <2>1, <2>3, Zenon
  <2>5. {a, b} = {e.from, other}
    BY <2>4, Zenon DEF derive_pair_share
  <2>6. e.from # b
    BY <1>4, Zenon DEF Senders
  <2>. QED
    BY <2>5, <2>6, Zenon
<1>8. H = {ea}
  BY <1>2, <1>6, <1>7, Zenon
<1>9. Cardinality(H) % 2 = 1
  <2>. HIDE DEF H
  <2>1. Cardinality(H) = 1
    BY <1>8, FS_Singleton, Zenon
  <2>. QED
    BY <2>1
<1>10. M \in MasksLeft(E)
  BY <1>2, <1>6, <1>9, Zenon DEF MasksLeft
<1>. QED
  BY <1>1, <1>10, Zenon

\* Masks that all occur an even number of times cancel.
LEMMA NoMasksLeft ==
    ASSUME NEW E, \A e \in E : \A m \in e.share.masks :
                      Cardinality({d \in E : m \in d.share.masks}) % 2 # 1
    PROVE  MasksLeft(E) = {}
<1>. QED
  BY Zenon DEF MasksLeft

\* A full round in which the members hold the same key at both ends of every
\* edge and exactly one member embeds a message yields that message: the masks
\* cancel in pairs and one frame is left.
THEOREM CleanRoundYieldsTheMessage ==
    ASSUME NEW round \in Nat, NEW group \in SUBSET Node, NEW keys \in EdgeKeys,
           \A a, b \in group : keys[a][b] = keys[b][a],
           NEW sender \in group, NEW text \in Text, NEW c,
           c.shares_received =
               {EntryOf(p, round, group, IF p = sender THEN {text} ELSE {}, keys) :
                    p \in group}
    PROVE  unpad_message(extract_message(c)) = {text}
<1>. DEFINE E == c.shares_received
            Of(p) == EntryOf(p, round, group,
                             IF p = sender THEN {text} ELSE {}, keys)
<1>1. \A p \in group :
          /\ Of(p) \in E
          /\ Of(p).from = p
          /\ Of(p).share.texts = IF p = sender THEN {text} ELSE {}
          /\ Of(p).share.masks =
                 {derive_pair_share(keys[p][other], round, p, other) :
                      other \in group \ {p}}
  BY Zenon DEF EntryOf, compute_xor_share_secure
<1>2. \A e \in E : \E p \in group : e = Of(p)
  BY Zenon
<1>. HIDE DEF Of, E
<1>3. MasksLeft(E) = {}
  <2>1. SUFFICES ASSUME NEW e \in E, NEW m \in e.share.masks
                 PROVE  Cardinality({d \in E : m \in d.share.masks}) % 2 # 1
    BY NoMasksLeft, Zenon
  <2>2. PICK a \in group : e = Of(a)
    BY <1>2, Zenon
  <2>3. PICK b \in group \ {a} : m = derive_pair_share(keys[a][b], round, a, b)
    BY <1>1, <2>2
  <2>. DEFINE H == {d \in E : m \in d.share.masks}
  <2>4. Of(a) # Of(b)
    BY <1>1, <2>3
  <2>5. m = derive_pair_share(keys[b][a], round, b, a)
    BY <2>3, Zenon DEF derive_pair_share
  <2>6. Of(a) \in H /\ Of(b) \in H
    <3>1. m \in Of(a).share.masks
      BY <2>2, Zenon
    <3>2. a \in group \ {b}
      BY <2>3, Zenon
    <3>3. m \in Of(b).share.masks
      BY <1>1, <2>5, <3>2
    <3>. QED
      BY <1>1, <3>1, <3>3, Zenon
  <2>7. ASSUME NEW d \in H PROVE d = Of(a) \/ d = Of(b)
    <3>1. PICK p \in group : d = Of(p)
      BY <1>2, Zenon
    <3>2. PICK other \in group \ {p} :
              m = derive_pair_share(keys[p][other], round, p, other)
      BY <1>1, <3>1
    <3>3. {a, b} = {p, other}
      BY <2>3, <3>2 DEF derive_pair_share
    <3>. QED
      BY <3>1, <3>3, Zenon
  <2>8. H = {Of(a), Of(b)}
    BY <2>6, <2>7, Zenon
  <2>. HIDE DEF H
  <2>9. Cardinality(H) = 2
    BY <2>4, <2>8, PairSize, Zenon
  <2>10. Cardinality(H) % 2 # 1
    BY <2>9
  <2>. QED
    BY <2>10, Zenon DEF H
<1>4. TextsLeft(E) = {text}
  <2>. DEFINE H == {e \in E : text \in e.share.texts}
  <2>1. H = {Of(sender)}
    BY <1>1, <1>2
  <2>2. \A e \in E : \A t \in e.share.texts : t = text
    BY <1>1, <1>2
  <2>3. Cardinality(H) % 2 = 1
    <3>. HIDE DEF H
    <3>1. Cardinality(H) = 1
      BY <2>1, FS_Singleton, Zenon
    <3>. QED
      BY <3>1
  <2>4. text \in UNION {e.share.texts : e \in E}
    BY <2>1, Zenon
  <2>5. \A t \in TextsLeft(E) : t = text
    BY <2>2, ZenonT(40) DEF TextsLeft
  <2>. QED
    BY <2>3, <2>4, <2>5, Zenon DEF TextsLeft
<1>. QED
  BY <1>3, <1>4, Zenon DEF unpad_message, extract_message, E

---------------------------------------------------------------------------
(***************************************************************************)
(* RoundEngine, for every set of nodes, groups, key rings and bound: the    *)
(* types, one share per round id, no forged text, agreement of all reports  *)
(* of a round.                                                              *)
(***************************************************************************)
USE GroupAssumption, LeaderAssumption, UnverifiedAssumption,
    KeyRingAssumption, BoundAssumption

\* Taking the head of a queue leaves a queue, and yields at most one text.
LEMMA DequeueType ==
    ASSUME NEW queue \in Seq(Text)
    PROVE  /\ dequeue_message(queue) \in SUBSET Text
           /\ Dequeued(queue) \in Seq(Text)
           /\ \A t \in dequeue_message(queue) : \E i \in 1..Len(queue) : queue[i] = t
           /\ \A i \in 1..Len(Dequeued(queue)) :
                  \E j \in 1..Len(queue) : Dequeued(queue)[i] = queue[j]
<1>1. CASE queue = <<>>
  BY <1>1, Zenon DEF dequeue_message, Dequeued
<1>2. CASE queue # <<>>
  <2>1. Len(queue) \in Nat /\ Len(queue) >= 1 /\ Head(queue) = queue[1]
    BY <1>2
  <2>2. Tail(queue) \in Seq(Text) /\ Len(Tail(queue)) = Len(queue) - 1
    BY <1>2
  <2>3. \A i \in 1..Len(Tail(queue)) : Tail(queue)[i] = queue[i + 1]
    BY <1>2, <2>1, <2>2
  <2>4. Head(queue) \in Text
    BY <1>2
  <2>5. \A i \in 1..Len(Tail(queue)) : i + 1 \in 1..Len(queue)
    BY <2>1, <2>2
  <2>. QED
    BY <1>2, <2>1, <2>2, <2>3, <2>4, <2>5 DEF dequeue_message, Dequeued
<1>. QED
  BY <1>1, <1>2, Zenon

\* A share that can be computed is a share.
LEMMA ShareType ==
    ASSUME NEW round \in Nat, NEW me \in Node, NEW participants \in SUBSET Node,
           NEW message \in SUBSET Text, NEW keys \in EdgeKeys,
           CanShare(me, participants, message, keys)
    PROVE  compute_xor_share_secure(round, me, participants, message, keys) \in Share
<1>1. \A other \in participants \ {me} :
          derive_pair_share(keys[me][other], round, me, other) \in MaskId
  BY DEF CanShare, derive_pair_share, MaskId, EdgeKeys
<1>. QED
  BY <1>1, Zenon DEF compute_xor_share_secure, Share

\* The collector operations keep their types.
LEMMA CollectorType ==
    ASSUME NEW c \in Collector, NEW peer \in Node, NEW share \in Share
    PROVE  /\ submit_share(c, peer, share) \in Collector
           /\ extract_message(c) \in Share
<1>1. [from |-> peer, share |-> share] \in Entry
  BY Zenon DEF Entry
<1>2. submit_share(c, peer, share) \in Collector
  BY <1>1, Zenon DEF submit_share, Collector
<1>4. \A e \in c.shares_received : e.share \in Share
  BY Zenon DEF Collector, Entry
<1>5. MasksLeft(c.shares_received) \subseteq MaskId
  BY <1>4, Zenon DEF MasksLeft, Share
<1>6. TextsLeft(c.shares_received) \subseteq Text
  BY <1>4, Zenon DEF TextsLeft, Share
<1>. QED
  BY <1>2, <1>5, <1>6, Zenon DEF extract_message, Share

\* A collector whose deadline passes changes in nothing else.
LEMMA ExpiredType ==
    ASSUME NEW c \in Collector
    PROVE  LET d == [c EXCEPT !.expired = TRUE]
           IN  /\ d \in Collector
               /\ d.round = c.round
               /\ d.participants = c.participants
               /\ d.shares_received = c.shares_received
BY Zenon DEF Collector

\* Reporting keeps the event log typed, and adds at most one event.
LEMMA ReportType ==
    ASSUME NEW log \in Seq(Event), NEW kind \in {"Extracted", "Received"},
           NEW round \in Nat, NEW text \in SUBSET Text
    PROVE  /\ Report(log, kind, round, text) \in Seq(Event)
           /\ \A i \in DOMAIN Report(log, kind, round, text) :
                  LET e == Report(log, kind, round, text)[i]
                  IN  \/ i \in DOMAIN log /\ e = log[i]
                      \/ e.round = round /\ e.text \in text
<1>1. CASE text = {}
  BY <1>1, Zenon DEF Report
<1>2. CASE text # {}
  <2>. DEFINE t == CHOOSE t \in text : TRUE
              e == [kind |-> kind, round |-> round, text |-> t]
  <2>1. t \in text
    BY <1>2, Zenon
  <2>2. Report(log, kind, round, text) = Append(log, e)
    BY <1>2, Zenon DEF Report
  <2>3. e \in Event /\ e.round = round /\ e.text \in text
    BY <2>1, Zenon DEF Event
  <2>. HIDE DEF e
  <2>. QED
    BY <2>2, <2>3
<1>. QED
  BY <1>1, <1>2, Zenon

\* Every step keeps every variable in its type.
LEMMA TypeStep == TypeOK /\ [Next]_vars => TypeOK'
<1>. SUFFICES ASSUME TypeOK, [Next]_vars PROVE TypeOK'
  BY Zenon
<1>. USE DEF TypeOK
<1>1. ASSUME NEW n \in Node, NEW text \in Text, QueueMessage(n, text)
      PROVE  TypeOK'
  BY <1>1 DEF QueueMessage
<1>2. ASSUME NEW n \in Leaders, NEW participants \in Groups,
             start_round_as_leader(n, participants)
      PROVE  TypeOK'
  <2>. DEFINE round   == next_round(current_round_id[n])
              message == dequeue_message(message_queue[n])
              able    == CanShare(n, participants, message, edge_keys)
              share   == compute_xor_share_secure(round, n, participants,
                                                  message, edge_keys)
              fresh   == NewCollector(round, participants)
              col     == IF able THEN submit_share(fresh, n, share) ELSE fresh
              starts  == [type : {"DcRoundStart"}, src : {n}, dst : participants,
                          round : {round}, participants : {participants}]
  <2>1. n \in Node /\ participants \in SUBSET Node /\ round \in Nat
    BY DEF next_round
  <2>2. message \in SUBSET Text /\ Dequeued(message_queue[n]) \in Seq(Text)
    BY <2>1, DequeueType, Zenon
  <2>3. able => share \in Share
    BY <2>1, <2>2, ShareType, Zenon
  <2>4. fresh \in Collector
    BY <2>1, Zenon DEF NewCollector, Collector
  <2>5. col \in Collector
    BY <2>1, <2>3, <2>4, CollectorType, Zenon
  <2>6. collectors' \in [Node -> SUBSET Collector]
    <3>1. collectors' = [collectors EXCEPT ![n] = WithCollector(@, col)]
      BY <1>2, Zenon DEF start_round_as_leader
    <3>. QED
      BY <2>1, <2>5, <3>1, Zenon DEF WithCollector
  <2>7. msgs' \subseteq Message
    <3>1. starts \subseteq StartMsg
      BY <2>1, Zenon DEF StartMsg
    <3>2. msgs' = msgs \cup Post(starts)
      BY <1>2, Zenon DEF start_round_as_leader
    <3>. QED
      BY <3>1, <3>2, Zenon DEF Post, Message
  <2>8. opened' \subseteq Opened
    BY <1>2, <2>1 DEF start_round_as_leader, Opened
  <2>9. given' \subseteq Given
    <3>1. given' \subseteq given \cup {[node |-> n, round |-> round, leader |-> n,
                                       group |-> participants,
                                       texts |-> message]}
      BY <1>2, Zenon DEF start_round_as_leader
    <3>. QED
      BY <2>1, <2>2, <3>1 DEF Given
  <2>10. current_round_id' \in [Node -> Nat] /\ message_queue' \in [Node -> Seq(Text)]
    BY <1>2, <2>1, <2>2, Zenon DEF start_round_as_leader
  <2>. QED
    BY <1>2, <2>6, <2>7, <2>8, <2>9, <2>10, Zenon DEF start_round_as_leader
<1>3. ASSUME NEW n \in Node, NEW m \in msgs, handle_round_start(n, m)
      PROVE  TypeOK'
  <2>. DEFINE message == dequeue_message(message_queue[n])
              able    == CanShare(n, m.participants, message, edge_keys)
              share   == compute_xor_share_secure(m.round, n, m.participants,
                                                  message, edge_keys)
  <2>1. m \in StartMsg
    BY <1>3, Zenon DEF handle_round_start, Message, ShareMsg, ResultMsg
  <2>2. m.round \in Nat /\ m.src \in Node /\ m.participants \in SUBSET Node
    BY <2>1, Zenon DEF StartMsg
  <2>3. message \in SUBSET Text /\ Dequeued(message_queue[n]) \in Seq(Text)
    BY DequeueType, Zenon
  <2>4. able => share \in Share
    BY <2>2, <2>3, ShareType, Zenon
  <2>5. msgs' \subseteq Message
    <3>1. msgs' \subseteq msgs \cup
              IF able THEN {[type |-> "DcRoundShare", src |-> n,
                             dst |-> m.src, round |-> m.round,
                             share |-> share]}
              ELSE {}
      BY <1>3, Zenon DEF handle_round_start
    <3>2. able => [type |-> "DcRoundShare", src |-> n, dst |-> m.src,
                   round |-> m.round, share |-> share] \in ShareMsg
      BY <2>2, <2>4, Zenon DEF ShareMsg
    <3>. QED
      BY <3>1, <3>2, Zenon DEF Message
  <2>6. given' \subseteq Given
    <3>1. given' \subseteq given \cup
              {[node |-> n, round |-> m.round, leader |-> m.src,
                group |-> m.participants, texts |-> message]}
      BY <1>3, Zenon DEF handle_round_start
    <3>. QED
      BY <2>2, <2>3, <3>1 DEF Given
  <2>7. /\ current_round_id' \in [Node -> Nat]
        /\ message_queue' \in [Node -> Seq(Text)]
        /\ leader_uid' \in [Node -> SUBSET Node]
    <3>1. \/ /\ current_round_id' = [current_round_id EXCEPT ![n] = m.round]
             /\ leader_uid' = [leader_uid EXCEPT ![n] = {m.src}]
             /\ message_queue' = [message_queue EXCEPT ![n] =
                                    Dequeued(message_queue[n])]
          \/ UNCHANGED <<current_round_id, leader_uid, message_queue>>
      BY <1>3, Zenon DEF handle_round_start
    <3>2. current_round_id' \in [Node -> Nat]
      BY <2>2, <3>1, Zenon
    <3>3. leader_uid' \in [Node -> SUBSET Node]
      <4>1. {m.src} \in SUBSET Node
        BY <2>2, Zenon
      <4>2. CASE leader_uid' = [leader_uid EXCEPT ![n] = {m.src}]
        BY <4>1, <4>2, Zenon
      <4>3. CASE leader_uid' = leader_uid
        BY <4>3, Zenon
      <4>. QED
        BY <3>1, <4>2, <4>3, Zenon
    <3>4. message_queue' \in [Node -> Seq(Text)]
      <4>1. CASE message_queue' = [message_queue EXCEPT ![n] = Dequeued(message_queue[n])]
        BY <2>3, <4>1, Zenon
      <4>2. CASE message_queue' = message_queue
        BY <4>2, Zenon
      <4>. QED
        BY <3>1, <4>1, <4>2, Zenon
    <3>. QED
      BY <3>2, <3>3, <3>4, Zenon
  <2>. QED
    BY <1>3, <2>5, <2>6, <2>7, Zenon DEF handle_round_start
<1>4. ASSUME NEW n \in Node, NEW m \in msgs, handle_round_share(n, m)
      PROVE  TypeOK'
  <2>1. m \in ShareMsg
    BY <1>4, Zenon DEF handle_round_share, Message, StartMsg, ResultMsg
  <2>2. m.round \in Nat /\ m.src \in Node /\ m.share \in Share
    BY <2>1, Zenon DEF ShareMsg
  <2>3. /\ collectors' \in [Node -> SUBSET Collector]
        /\ msgs' \subseteq Message
        /\ events' \in [Node -> Seq(Event)]
    <3>1. CASE msgs' = msgs \ {m} /\ UNCHANGED <<collectors, events>>
      BY <3>1, Zenon
    <3>2. ASSUME NEW c \in collectors[n],
                 LET full == submit_share(c, m.src, m.share)
                 IN  /\ collectors' = [collectors EXCEPT ![n] =
                                          WithCollector(@, full)]
                     /\ msgs' = msgs \ {m}
                     /\ UNCHANGED events
          PROVE  <2>3!1 /\ <2>3!2 /\ <2>3!3
      <4>1. submit_share(c, m.src, m.share) \in Collector
        BY <2>2, CollectorType, Zenon
      <4>. QED
        BY <3>2, <4>1, Zenon DEF WithCollector
    <3>3. ASSUME NEW c \in collectors[n],
                 LET full    == submit_share(c, m.src, m.share)
                     payload == extract_message(full)
                     text    == unpad_message(payload)
                 IN  /\ collectors' = [collectors EXCEPT ![n] =
                                          WithoutCollector(@, m.round)]
                     /\ msgs' = (msgs \ {m}) \cup
                            IF text = {} THEN {}
                            ELSE Post([type : {"DcRoundResult"}, src : {n},
                                       dst : c.participants,
                                       round : {m.round},
                                       payload : {payload}])
                     /\ events' = [events EXCEPT ![n] =
                            Report(@, "Extracted", m.round, text)]
          PROVE  <2>3!1 /\ <2>3!2 /\ <2>3!3
      <4>. DEFINE payload == extract_message(submit_share(c, m.src, m.share))
                  text    == unpad_message(payload)
                  results == [type : {"DcRoundResult"}, src : {n},
                              dst : c.participants, round : {m.round},
                              payload : {payload}]
      <4>1. payload \in Share
        BY <2>2, CollectorType, Zenon
      <4>2. text \in SUBSET Text
        BY <4>1, Zenon DEF unpad_message, Share
      <4>3. results \subseteq ResultMsg
        BY <2>2, <4>1 DEF ResultMsg, Collector
      <4>4. msgs' \subseteq msgs \cup results
        BY <3>3, Zenon DEF Post
      <4>5. Report(events[n], "Extracted", m.round, text) \in Seq(Event)
        BY <2>2, <4>2, ReportType, Zenon
      <4>6. events' \in [Node -> Seq(Event)]
        BY <3>3, <4>5, Zenon
      <4>. QED
        BY <3>3, <4>3, <4>4, <4>6, Zenon DEF WithoutCollector, Message
    <3>. QED
      BY <1>4, <3>1, <3>2, <3>3, Zenon DEF handle_round_share
  <2>. QED
    BY <1>4, <2>3, Zenon DEF handle_round_share
<1>5. ASSUME NEW n \in Node, NEW m \in msgs, handle_round_result(n, m)
      PROVE  TypeOK'
  <2>1. m \in ResultMsg
    BY <1>5, Zenon DEF handle_round_result, Message, StartMsg, ShareMsg
  <2>2. m.round \in Nat /\ unpad_message(m.payload) \in SUBSET Text
    BY <2>1, Zenon DEF ResultMsg, unpad_message, Share
  <2>3. Report(events[n], "Received", m.round, unpad_message(m.payload)) \in Seq(Event)
    BY <2>2, ReportType, Zenon
  <2>. QED
    BY <1>5, <2>2, <2>3, Zenon DEF handle_round_result
<1>6. ASSUME NEW n \in Node, NEW c \in collectors[n], Expire(n, c)
      PROVE  TypeOK'
  <2>1. [c EXCEPT !.expired = TRUE] \in Collector
    BY ExpiredType, Zenon
  <2>. QED
    BY <1>6, <2>1, Zenon DEF Expire, WithCollector
<1>7. ASSUME NEW m \in msgs, Lose(m)
      PROVE  TypeOK'
  BY <1>7, Zenon DEF Lose, engineVars
<1>8. CASE UNCHANGED vars
  BY <1>8, Zenon DEF vars, engineVars
<1>. QED
  BY <1>1, <1>2, <1>3, <1>4, <1>5, <1>6, <1>7, <1>8, Zenon DEF Next, Deliver

\* The variables stay in their types.
THEOREM TypeCorrect == Spec => []TypeOK
<1>1. Init => TypeOK
  BY DEF Init, TypeOK
<1>. QED
  BY <1>1, TypeStep, PTL DEF Spec

---------------------------------------------------------------------------
(***************************************************************************)
(* The inductive invariant.  Every start on the way, every collector and    *)
(* every contribution belongs to a round its leader opened; a leader opens  *)
(* a round id once, a node contributes to a round id once, because both     *)
(* move the node's counter up to it; every share on the way or collected is *)
(* the one some contribution computed for the group of that round.          *)
(***************************************************************************)
RoundOf(g) == [leader |-> g.leader, round |-> g.round, group |-> g.group]

Backed(leader, round, group, from, share) ==
    \E g \in given :
        /\ g.node = from /\ g.leader = leader /\ g.round = round /\ g.group = group
        /\ share = compute_xor_share_secure(round, from, group, g.texts, edge_keys)

QueueInv ==
    \A n \in Node : \A i \in 1..Len(message_queue[n]) :
        message_queue[n][i] \in queued[n]

OpenedInv ==
    /\ \A o \in opened : o.group \in Groups /\ o.round <= current_round_id[o.leader]
    /\ \A o, p \in opened : o.leader = p.leader /\ o.round = p.round => o = p

GivenInv ==
    /\ IsFiniteSet(given)
    /\ \A g \in given :
        /\ g.round <= current_round_id[g.node]
        /\ g.node \in g.group
        /\ g.texts \subseteq queued[g.node]
        /\ RoundOf(g) \in opened

MessageInv(m) ==
    /\ m.type = "DcRoundStart" =>
           [leader |-> m.src, round |-> m.round, group |-> m.participants] \in opened
    /\ m.type = "DcRoundShare" =>
           \E group \in Groups : Backed(m.dst, m.round, group, m.src, m.share)
    /\ m.type = "DcRoundResult" =>
           \A t \in unpad_message(m.payload) : Reported(m.round, t)

CollectorInv(n, c) ==
    /\ [leader |-> n, round |-> c.round, group |-> c.participants] \in opened
    /\ IsFiniteSet(c.shares_received)
    /\ \A e \in c.shares_received :
           Backed(n, c.round, c.participants, e.from, e.share)
    /\ \A d, e \in c.shares_received : d.from = e.from => d = e

Inv ==
    /\ TypeOK
    /\ QueueInv
    /\ OpenedInv
    /\ GivenInv
    /\ OneSharePerRound
    /\ \A m \in msgs : MessageInv(m)
    /\ \A n \in Node : \A c \in collectors[n] : CollectorInv(n, c)
    /\ NoForgedText

\* What any step does to the counters and the histories.
Progress ==
    /\ edge_keys' = edge_keys
    /\ \A n \in Node : /\ current_round_id'[n] >= current_round_id[n]
                       /\ queued[n] \subseteq queued'[n]
    /\ \/ opened' = opened
       \/ \E o \in Opened :
              /\ opened' = opened \cup {o}
              /\ o.group \in Groups
              /\ o.round = current_round_id[o.leader] + 1
              /\ o.round = current_round_id'[o.leader]
    /\ \/ given' = given
       \/ \E g \in Given :
              /\ given' = given \cup {g}
              /\ g.round = current_round_id[g.node] + 1
              /\ g.round = current_round_id'[g.node]
              /\ g.node \in g.group
              /\ g.texts \subseteq queued[g.node]
              /\ RoundOf(g) \in opened'

\* A queue of queued texts yields a queued text.
LEMMA DequeuedWasQueued ==
    ASSUME TypeOK, QueueInv, NEW n \in Node
    PROVE  dequeue_message(message_queue[n]) \subseteq queued[n]
<1>1. message_queue[n] \in Seq(Text)
  BY Zenon DEF TypeOK
<1>2. \A t \in dequeue_message(message_queue[n]) :
          \E i \in 1..Len(message_queue[n]) : message_queue[n][i] = t
  BY <1>1, DequeueType, Zenon
<1>3. \A i \in 1..Len(message_queue[n]) : message_queue[n][i] \in queued[n]
  BY Zenon DEF QueueInv
<1>. QED
  BY <1>2, <1>3, Zenon

\* Every step makes progress in that sense.
LEMMA StepIsProgress ==
    ASSUME Inv, [Next]_vars
    PROVE  Progress
<1>. USE DEF Inv
<1>0. ASSUME UNCHANGED <<current_round_id, edge_keys, queued, opened, given>>
      PROVE  Progress
  <2>1. \A p \in Node : current_round_id[p] \in Nat
    BY Zenon DEF TypeOK
  <2>. QED
    BY <1>0, <2>1 DEF Progress
<1>1. ASSUME NEW n \in Node, NEW text \in Text, QueueMessage(n, text)
      PROVE  Progress
  BY <1>1 DEF QueueMessage, Progress, TypeOK
<1>2. ASSUME NEW n \in Leaders, NEW participants \in Groups,
             start_round_as_leader(n, participants)
      PROVE  Progress
  <2>. DEFINE round   == current_round_id[n] + 1
              message == dequeue_message(message_queue[n])
              o == [leader |-> n, round |-> round, group |-> participants]
              g == [node |-> n, round |-> round, leader |-> n,
                    group |-> participants, texts |-> message]
  <2>1. n \in Node /\ participants \in SUBSET Node /\ round \in Nat
    BY DEF TypeOK
  <2>2. message \in SUBSET Text /\ message \subseteq queued[n]
    BY <2>1, DequeuedWasQueued, DequeueType, Zenon DEF TypeOK
  <2>3. o \in Opened /\ g \in Given
    BY <2>1, <2>2, Zenon DEF Opened, Given
  <2>4. /\ opened' = opened \cup {o}
        /\ \/ given' = given
           \/ given' = given \cup {g} /\ n \in participants
        /\ current_round_id' = [current_round_id EXCEPT ![n] = round]
        /\ UNCHANGED <<edge_keys, queued>>
    BY <1>2, Zenon DEF start_round_as_leader, next_round, CanShare
  <2>5. \A p \in Node : current_round_id'[p] >= current_round_id[p]
    BY <2>1, <2>4 DEF TypeOK
  <2>6. current_round_id'[n] = round
    BY <2>1, <2>4, Zenon DEF TypeOK
  <2>7. o \in opened' /\ RoundOf(g) = o
    BY <2>4, Zenon DEF RoundOf
  <2>8. \/ given' = given
        \/ \E h \in Given :
              /\ given' = given \cup {h}
              /\ h.round = current_round_id[h.node] + 1
              /\ h.round = current_round_id'[h.node]
              /\ h.node \in h.group
              /\ h.texts \subseteq queued[h.node]
              /\ RoundOf(h) \in opened'
    BY <2>2, <2>3, <2>4, <2>6, <2>7, Zenon
  <2>9. \E q \in Opened :
              /\ opened' = opened \cup {q}
              /\ q.group \in Groups
              /\ q.round = current_round_id[q.leader] + 1
              /\ q.round = current_round_id'[q.leader]
    BY <2>3, <2>4, <2>6, Zenon
  <2>. QED
    BY <2>4, <2>5, <2>8, <2>9, Zenon DEF Progress
<1>3. ASSUME NEW n \in Node, NEW m \in msgs, handle_round_start(n, m)
      PROVE  Progress
  <2>. DEFINE message == dequeue_message(message_queue[n])
              g == [node |-> n, round |-> m.round, leader |-> m.src,
                    group |-> m.participants, texts |-> message]
  <2>1. m \in StartMsg
    BY <1>3, Zenon DEF handle_round_start, TypeOK, Message, ShareMsg, ResultMsg
  <2>2. /\ m.round \in Nat /\ m.src \in Node /\ m.participants \in SUBSET Node
        /\ current_round_id[n] \in Nat
    BY <2>1, Zenon DEF StartMsg, TypeOK
  <2>3. message \in SUBSET Text /\ message \subseteq queued[n]
    BY DequeuedWasQueued, DequeueType, Zenon DEF TypeOK
  <2>4. g \in Given
    BY <2>2, <2>3, Zenon DEF Given
  <2>5. RoundOf(g) \in opened
    BY <2>1, <1>3, Zenon DEF MessageInv, RoundOf, handle_round_start
  <2>6. /\ UNCHANGED <<opened, edge_keys, queued>>
        /\ \/ /\ m.round = current_round_id[n] + 1
              /\ current_round_id' = [current_round_id EXCEPT ![n] = m.round]
              /\ \/ given' = given
                 \/ given' = given \cup {g} /\ n \in m.participants
           \/ UNCHANGED <<current_round_id, given>>
    <3>1. CASE mark_seen(current_round_id[n], m.round)
      BY <1>3, <3>1, Zenon DEF handle_round_start, mark_seen, CanShare
    <3>2. CASE ~mark_seen(current_round_id[n], m.round)
      BY <1>3, <3>2, Zenon DEF handle_round_start
    <3>. QED
      BY <3>1, <3>2, Zenon
  <2>7. \A p \in Node : current_round_id'[p] >= current_round_id[p]
    <3>1. current_round_id \in [Node -> Nat]
      BY Zenon DEF TypeOK
    <3>2. \/ /\ m.round = current_round_id[n] + 1
             /\ current_round_id' = [current_round_id EXCEPT ![n] = m.round]
          \/ current_round_id' = current_round_id
      BY <2>6, Zenon
    <3>. HIDE DEF Inv
    <3>. QED
      BY <3>1, <3>2
  <2>8. \/ given' = given
        \/ \E h \in Given :
              /\ given' = given \cup {h}
              /\ h.round = current_round_id[h.node] + 1
              /\ h.round = current_round_id'[h.node]
              /\ h.node \in h.group
              /\ h.texts \subseteq queued[h.node]
              /\ RoundOf(h) \in opened'
    <3>1. CASE given' = given
      BY <3>1, Zenon
    <3>2. CASE given' # given
      <4>1. /\ given' = given \cup {g} /\ n \in m.participants
            /\ m.round = current_round_id[n] + 1
            /\ current_round_id'[n] = m.round
        BY <3>2, <2>6, Zenon DEF TypeOK
      <4>2. RoundOf(g) \in opened'
        BY <2>5, <2>6, Zenon
      <4>. QED
        BY <2>3, <2>4, <4>1, <4>2, Zenon
    <3>. QED
      BY <3>1, <3>2, Zenon
  <2>. QED
    BY <2>6, <2>7, <2>8, Zenon DEF Progress
<1>4. ASSUME NEW n \in Node, NEW m \in msgs, handle_round_share(n, m)
      PROVE  Progress
  BY <1>4, <1>0, Zenon DEF handle_round_share
<1>5. ASSUME NEW n \in Node, NEW m \in msgs, handle_round_result(n, m)
      PROVE  Progress
  BY <1>5, SMTT(40) DEF handle_round_result, Progress, TypeOK, mark_seen
<1>6. ASSUME NEW n \in Node, NEW c \in collectors[n], Expire(n, c)
      PROVE  Progress
  BY <1>6, <1>0, Zenon DEF Expire
<1>7. ASSUME NEW m \in msgs, Lose(m)
      PROVE  Progress
  BY <1>7, <1>0, Zenon DEF Lose, engineVars
<1>8. CASE UNCHANGED vars
  BY <1>8, <1>0, Zenon DEF vars, engineVars
<1>. QED
  BY <1>1, <1>2, <1>3, <1>4, <1>5, <1>6, <1>7, <1>8, Zenon DEF Next, Deliver

\* A contribution once made stays behind its share.
LEMMA BackedStable ==
    ASSUME Progress, NEW leader, NEW round, NEW group, NEW from, NEW share,
           Backed(leader, round, group, from, share)
    PROVE  Backed(leader, round, group, from, share)'
BY Zenon DEF Progress, Backed

\* Leaders open, and nodes contribute to, a round id once.
LEMMA HistoriesStep ==
    ASSUME Inv, TypeOK', Progress
    PROVE  OpenedInv' /\ GivenInv' /\ OneSharePerRound'
<1>. USE DEF Inv
<1>1. \A n \in Node : /\ current_round_id[n] \in Nat /\ current_round_id'[n] \in Nat
                       /\ current_round_id'[n] >= current_round_id[n]
                       /\ queued[n] \subseteq queued'[n]
  BY Zenon DEF Progress, TypeOK
<1>2. opened \subseteq opened' /\ given \subseteq given'
  BY Zenon DEF Progress
<1>3. /\ \A o \in opened' : o.leader \in Node /\ o.round \in Nat
      /\ \A g \in given' : g.node \in Node /\ g.round \in Nat
  BY Zenon DEF TypeOK, Opened, Given
<1>4. OpenedInv'
  <2>1. CASE opened' = opened
    BY <1>1, <1>3, <2>1 DEF OpenedInv
  <2>2. ASSUME NEW o \in Opened,
               /\ opened' = opened \cup {o}
               /\ o.group \in Groups
               /\ o.round = current_round_id[o.leader] + 1
               /\ o.round = current_round_id'[o.leader]
        PROVE  OpenedInv'
    <3>1. o.leader \in Node /\ o.round \in Nat
      BY Zenon DEF Opened
    <3>2. \A p \in opened : ~(p.leader = o.leader /\ p.round = o.round)
      BY <1>1, <2>2, <3>1 DEF OpenedInv
    <3>3. \A p \in opened' : p.group \in Groups
                            /\ p.round <= current_round_id'[p.leader]
      BY <1>1, <1>2, <1>3, <2>2, <3>1 DEF OpenedInv
    <3>4. \A p, q \in opened' : p.leader = q.leader /\ p.round = q.round => p = q
      BY <2>2, <3>2, Zenon DEF OpenedInv
    <3>. QED
      BY <3>3, <3>4, Zenon DEF OpenedInv
  <2>. QED
    BY <2>1, <2>2, Zenon DEF Progress
<1>5. GivenInv' /\ OneSharePerRound'
  <2>1. CASE given' = given
    <3>1. OneSharePerRound'
      BY <2>1, Zenon DEF OneSharePerRound
    <3>2. \A g \in given : RoundOf(g)' = RoundOf(g)
      BY Zenon DEF RoundOf
    <3>3. \A g \in given' : g.texts \subseteq queued'[g.node]
      BY <1>1, <1>3, <2>1, Zenon DEF GivenInv
    <3>4. \A g \in given' : g.round <= current_round_id'[g.node]
      BY <1>1, <1>3, <2>1 DEF GivenInv
    <3>. QED
      BY <1>2, <2>1, <3>1, <3>2, <3>3, <3>4, Zenon DEF GivenInv
  <2>2. ASSUME NEW g \in Given,
               /\ given' = given \cup {g}
               /\ g.round = current_round_id[g.node] + 1
               /\ g.round = current_round_id'[g.node]
               /\ g.node \in g.group
               /\ g.texts \subseteq queued[g.node]
               /\ RoundOf(g) \in opened'
        PROVE  GivenInv' /\ OneSharePerRound'
    <3>1. g.node \in Node /\ g.round \in Nat
      BY Zenon DEF Given
    <3>2. \A h \in given : ~(h.node = g.node /\ h.round = g.round)
      BY <1>1, <2>2, <3>1 DEF GivenInv
    <3>3. OneSharePerRound'
      BY <2>2, <3>2, Zenon DEF OneSharePerRound
    <3>4. IsFiniteSet(given')
      BY <2>2, FS_AddElement, Zenon DEF GivenInv
    <3>5. \A h \in given' : h.round <= current_round_id'[h.node]
      BY <1>1, <1>3, <2>2 DEF GivenInv
    <3>6. \A h \in given' : h.texts \subseteq queued'[h.node]
      BY <1>1, <1>3, <2>2, Zenon DEF GivenInv
    <3>7. \A h \in given' : h.node \in h.group /\ RoundOf(h) \in opened'
      BY <1>2, <2>2, Zenon DEF GivenInv
    <3>8. \A h \in given' : RoundOf(h)' = RoundOf(h)
      BY Zenon DEF RoundOf
    <3>. QED
      BY <3>3, <3>4, <3>5, <3>6, <3>7, <3>8, Zenon DEF GivenInv
  <2>. QED
    BY <2>1, <2>2, Zenon DEF Progress
<1>. QED
  BY <1>4, <1>5, Zenon

\* What a finished round carried never changes: nobody can contribute to it
\* any more.
LEMMA ReportedStable ==
    ASSUME Inv, TypeOK', Progress, NEW round, NEW text, Reported(round, text)
    PROVE  Reported(round, text)'
<1>. USE DEF Inv
<1>1. PICK leader \in Node, group \in Groups : Carried(leader, group, round, text)
  BY Zenon DEF Reported
<1>. DEFINE gs == GivenTo(leader, round)
<1>2. /\ \A g \in gs : g.group = group /\ g.texts \subseteq queued[g.node]
      /\ {g.node : g \in gs} = group
      /\ {t \in Text : Cardinality({g \in gs : t \in g.texts}) % 2 = 1} = {text}
  BY <1>1, Zenon DEF Carried
<1>3. PICK g0 \in gs : TRUE
  <2>1. SUFFICES ASSUME gs = {} PROVE FALSE
    BY Zenon
  <2>2. \A t \in Text : {g \in gs : t \in g.texts} = {}
    BY <2>1, Zenon
  <2>3. \A t \in Text : Cardinality({g \in gs : t \in g.texts}) = 0
    BY <2>2, FS_EmptySet, Zenon
  <2>4. \A t \in Text : ~(Cardinality({g \in gs : t \in g.texts}) % 2 = 1)
    BY <2>3
  <2>. QED
    BY <1>2, <2>4, Zenon
<1>4. OpenedInv' /\ GivenInv'
  BY HistoriesStep, Zenon
<1>5. gs' = gs
  <2>1. SUFFICES ASSUME NEW g \in Given,
                        /\ given' = given \cup {g}
                        /\ g.round = current_round_id[g.node] + 1
                        /\ RoundOf(g) \in opened',
                        g.node \in g.group,
                        g.leader = leader, g.round = round
                 PROVE  FALSE
    BY Zenon DEF Progress, GivenTo
  <2>2. g0 \in given /\ g0.leader = leader /\ g0.round = round /\ g0.group = group
    BY <1>2, <1>3, Zenon DEF GivenTo
  <2>3. RoundOf(g0) \in opened'
    BY <2>2, Zenon DEF GivenInv, Progress
  <2>4. RoundOf(g) = RoundOf(g0)
    BY <1>4, <2>1, <2>2, <2>3, Zenon DEF OpenedInv, RoundOf
  <2>5. g.node \in group
    BY <2>1, <2>2, <2>4, Zenon DEF RoundOf
  <2>6. PICK h \in gs : h.node = g.node
    BY <1>2, <2>5, Zenon
  <2>7. h.round <= current_round_id[g.node] /\ h.round = round
    BY <2>6, Zenon DEF GivenInv, GivenTo
  <2>8. current_round_id[g.node] \in Nat
    BY Zenon DEF Given, TypeOK
  <2>. QED
    BY <2>1, <2>7, <2>8
<1>6. \A g \in gs : g.texts \subseteq queued'[g.node]
  BY <1>2, Zenon DEF Progress, GivenTo, TypeOK, Given
<1>7. Carried(leader, group, round, text)'
  BY <1>2, <1>5, <1>6, Zenon DEF Carried
<1>. QED
  BY <1>7, Zenon DEF Reported

\* Messages and collectors that a step does not touch stay as they should be.
LEMMA UntouchedStable ==
    ASSUME Inv, TypeOK', Progress
    PROVE  /\ \A m \in msgs : MessageInv(m)'
           /\ \A n \in Node : \A c \in collectors[n] : CollectorInv(n, c)'
           /\ events' = events => NoForgedText'
<1>. USE DEF Inv
<1>1. opened \subseteq opened'
  BY Zenon DEF Progress
<1>2. ASSUME NEW m \in msgs PROVE MessageInv(m)'
  <2>1. MessageInv(m)
    BY Zenon
  <2>2. ASSUME NEW t \in unpad_message(m.payload), Reported(m.round, t)
        PROVE  Reported(m.round, t)'
    BY <2>2, ReportedStable, Zenon
  <2>3. ASSUME NEW group \in Groups, Backed(m.dst, m.round, group, m.src, m.share)
        PROVE  Backed(m.dst, m.round, group, m.src, m.share)'
    BY <2>3, BackedStable, Zenon
  <2>. QED
    BY <1>1, <2>1, <2>2, <2>3, Zenon DEF MessageInv
<1>3. ASSUME NEW n \in Node, NEW c \in collectors[n] PROVE CollectorInv(n, c)'
  <2>1. CollectorInv(n, c)
    BY Zenon
  <2>2. ASSUME NEW e \in c.shares_received
        PROVE  Backed(n, c.round, c.participants, e.from, e.share)'
    <3>1. Backed(n, c.round, c.participants, e.from, e.share)
      BY <2>1, Zenon DEF CollectorInv
    <3>. QED
      BY <3>1, BackedStable, Zenon
  <2>. QED
    BY <1>1, <2>1, <2>2, Zenon DEF CollectorInv
<1>4. ASSUME events' = events, NEW n \in Node, NEW i \in DOMAIN events'[n]
      PROVE  Reported(events[n][i].round, events[n][i].text)'
  <2>1. Reported(events[n][i].round, events[n][i].text)
    BY <1>4, Zenon DEF NoForgedText
  <2>2. PICK r, t : r = events[n][i].round /\ t = events[n][i].text
    BY Zenon
  <2>3. Reported(r, t)'
    BY <2>1, <2>2, ReportedStable, Zenon
  <2>. QED
    BY <1>4, <2>2, <2>3, Zenon
<1>. QED
  BY <1>2, <1>3, <1>4, Zenon DEF NoForgedText

\* What a leader reads out of a collector is what the round carried: by
\* PartialRoundYieldsNothing the whole group is in, and the collected shares
\* correspond one to one to the contributions.
LEMMA ExtractionReported ==
    ASSUME Inv, NEW n \in Node, NEW c \in Collector, CollectorInv(n, c),
           NEW text \in unpad_message(extract_message(c))
    PROVE  Reported(c.round, text) /\ Carried(n, c.participants, c.round, text)
<1>. USE DEF Inv
<1>. DEFINE E  == c.shares_received
            P  == c.participants
            gs == GivenTo(n, c.round)
<1>1. c.round \in Nat /\ P \in SUBSET Node /\ E \in SUBSET Entry
  BY Zenon DEF Collector
<1>2. P \in Groups
  BY Zenon DEF CollectorInv, OpenedInv
<1>3. \A g \in gs : /\ g.group = P /\ g.node \in P
                    /\ g.texts \subseteq queued[g.node]
                    /\ g.texts \subseteq Text
  <2>1. SUFFICES ASSUME NEW g \in gs
                 PROVE  /\ g.group = P /\ g.node \in P
                        /\ g.texts \subseteq queued[g.node]
                        /\ g.texts \subseteq Text
    BY Zenon
  <2>2. g \in given /\ g.leader = n /\ g.round = c.round
    BY Zenon DEF GivenTo
  <2>3. RoundOf(g) = [leader |-> n, round |-> c.round, group |-> P]
    BY <2>2, Zenon DEF GivenInv, CollectorInv, OpenedInv, RoundOf
  <2>4. g.group = P
    BY <2>3, Zenon DEF RoundOf
  <2>. QED
    BY <2>2, <2>4, Zenon DEF GivenInv, TypeOK, Given
<1>4. \A g, h \in gs : g.node = h.node => g = h
  BY Zenon DEF GivenTo, OneSharePerRound
<1>5. \A e \in E : \E g \in gs :
          /\ g.node = e.from
          /\ e = EntryOf(e.from, c.round, P, g.texts, edge_keys)
  <2>1. SUFFICES ASSUME NEW e \in E
                 PROVE  \E g \in gs :
                            /\ g.node = e.from
                            /\ e = EntryOf(e.from, c.round, P, g.texts, edge_keys)
    BY Zenon
  <2>2. PICK g \in given :
            /\ g.node = e.from /\ g.leader = n /\ g.round = c.round
            /\ e.share = compute_xor_share_secure(c.round, e.from, P, g.texts,
                                                  edge_keys)
    <3>1. Backed(n, c.round, P, e.from, e.share)
      BY Zenon DEF CollectorInv
    <3>. QED
      BY <3>1, Zenon DEF Backed
  <2>3. e = [from |-> e.from, share |-> e.share]
    BY <1>1, Zenon DEF Entry
  <2>. QED
    BY <2>2, <2>3, Zenon DEF GivenTo, EntryOf
<1>6. WellFormed(E, c.round, P, edge_keys)
  BY <1>3, <1>5, Zenon DEF WellFormed, CollectorInv
<1>7. Senders(c) = P
  BY <1>1, <1>6, PartialRoundYieldsNothing, Zenon DEF TypeOK
<1>8. \A g \in gs : \E e \in E : e.from = g.node
  BY <1>3, <1>7 DEF Senders
<1>9. \A e \in E : \E g \in gs : g.node = e.from /\ e.share.texts = g.texts
  BY <1>5 DEF EntryOf, compute_xor_share_secure
<1>10. \A d, e \in E : d.from = e.from => d = e
  BY Zenon DEF CollectorInv
<1>11. {g.node : g \in gs} = P
  <2>1. \A p \in P : \E e \in E : e.from = p
    BY <1>7, Zenon DEF Senders
  <2>2. \A p \in P : \E g \in gs : g.node = p
    BY <1>9, <2>1, Zenon
  <2>3. \A g \in gs : g.node \in P
    BY <1>3, Zenon
  <2>. HIDE DEF E, P, gs, Inv
  <2>. QED
    BY <2>2, <2>3, SMT
<1>. HIDE DEF E, P, gs
<1>12. ASSUME NEW x \in Text
       PROVE  Cardinality({g \in gs : x \in g.texts}) =
              Cardinality({e \in E : x \in e.share.texts})
  <2>. DEFINE S == {e \in E : x \in e.share.texts}
              T == {g \in gs : x \in g.texts}
              f == [e \in S |-> CHOOSE g \in gs : g.node = e.from]
  <2>1. IsFiniteSet(S)
    <3>1. IsFiniteSet(E)
      BY Zenon DEF CollectorInv, E
    <3>2. S \subseteq E
      BY Zenon
    <3>. QED
      BY <3>1, <3>2, FS_Subset, Zenon
  <2>2. ASSUME NEW e \in S
        PROVE  f[e] \in gs /\ f[e].node = e.from /\ f[e].texts = e.share.texts
    <3>1. PICK g \in gs : g.node = e.from /\ e.share.texts = g.texts
      BY <1>9, Zenon
    <3>2. f[e] = g
      BY <1>4, <3>1, Zenon
    <3>. QED
      BY <3>1, <3>2, Zenon
  <2>3. f \in [S -> T]
    BY <2>2, Zenon
  <2>4. ASSUME NEW d \in S, NEW e \in S, f[d] = f[e] PROVE d = e
    <3>. HIDE DEF f
    <3>1. f[d].node = d.from
      BY <2>2, Zenon
    <3>2. f[e].node = e.from
      BY <2>2, Zenon
    <3>. QED
      BY <1>10, <2>4, <3>1, <3>2, Zenon
  <2>5. ASSUME NEW g \in T PROVE \E e \in S : f[e] = g
    <3>1. PICK e \in E : e.from = g.node
      BY <1>8, Zenon
    <3>2. PICK h \in gs : h.node = e.from /\ e.share.texts = h.texts
      BY <1>9, Zenon
    <3>3. h = g
      BY <1>4, <3>1, <3>2, Zenon
    <3>4. e \in S
      BY <3>2, <3>3, Zenon
    <3>5. f[e] = g
      BY <1>4, <2>2, <3>1, <3>4, ZenonT(40)
    <3>. QED
      BY <3>4, <3>5, Zenon
  <2>. HIDE DEF S, T, f
  <2>6. Cardinality(T) = Cardinality(S)
    BY <2>1, <2>3, <2>4, <2>5, SameSize, ZenonT(40)
  <2>. QED
    BY <2>6, Zenon DEF S, T
<1>13. TextsLeft(E) = {text} /\ text \in Text
  <2>1. TextsLeft(E) = {text}
    BY Zenon DEF unpad_message, extract_message, E
  <2>2. PICK e \in E : text \in e.share.texts
    BY <2>1, Zenon DEF TextsLeft
  <2>3. e.share.texts \subseteq Text
    BY <1>1, Zenon DEF Entry, Share, E
  <2>. QED
    BY <2>1, <2>2, <2>3, Zenon
<1>14. ASSUME NEW x \in Text
       PROVE  x \in TextsLeft(E) <=> Cardinality({e \in E : x \in e.share.texts}) % 2 = 1
  <2>. DEFINE S == {e \in E : x \in e.share.texts}
  <2>1. CASE S = {}
    <3>1. Cardinality(S) = 0
      BY <2>1, FS_EmptySet, Zenon
    <3>2. ~(Cardinality(S) % 2 = 1)
      BY <3>1
    <3>. QED
      BY <3>2, Zenon DEF TextsLeft
  <2>2. CASE S # {}
    <3>1. x \in UNION {e.share.texts : e \in E}
      BY <2>2
    <3>. QED
      BY <3>1, Zenon DEF TextsLeft
  <2>. QED
    BY <2>1, <2>2, Zenon
<1>15. {x \in Text : Cardinality({g \in gs : x \in g.texts}) % 2 = 1} = {text}
  BY <1>12, <1>13, <1>14, Zenon
<1>16. Carried(n, P, c.round, text)
  BY <1>3, <1>11, <1>15, Zenon DEF Carried, gs
<1>. QED
  BY <1>2, <1>16, Zenon DEF Reported, P

\* Storing a share the collector accepts keeps the collector as it should be.
LEMMA SubmitKeepsCollector ==
    ASSUME Inv, NEW n \in Node, NEW c \in collectors[n], NEW m \in msgs,
           m.type = "DcRoundShare", m.dst = n, c.round = m.round,
           Accepts(c, m.src)
    PROVE  LET full == submit_share(c, m.src, m.share)
           IN  /\ full \in Collector
               /\ full.round = c.round
               /\ full.participants = c.participants
               /\ CollectorInv(n, full)
<1>. USE DEF Inv
<1>. DEFINE new  == [from |-> m.src, share |-> m.share]
            full == submit_share(c, m.src, m.share)
<1>1. c \in Collector /\ m \in ShareMsg
  BY Zenon DEF TypeOK, Message, StartMsg, ResultMsg
<1>2. full \in Collector
  BY <1>1, CollectorType, Zenon DEF ShareMsg
<1>3. /\ full.round = c.round /\ full.participants = c.participants
      /\ full.shares_received = c.shares_received \cup {new}
  BY <1>1, Zenon DEF submit_share, Collector
<1>4. CollectorInv(n, c) /\ MessageInv(m)
  BY Zenon
<1>5. PICK group \in Groups : Backed(n, c.round, group, m.src, m.share)
  BY <1>4, ZenonT(40) DEF MessageInv
<1>6. PICK g \in given :
          /\ g.node = m.src /\ g.leader = n /\ g.round = c.round /\ g.group = group
          /\ m.share = compute_xor_share_secure(c.round, m.src, group, g.texts,
                                                edge_keys)
  BY <1>5, Zenon DEF Backed
<1>7. group = c.participants
  <2>1. RoundOf(g) = [leader |-> n, round |-> c.round, group |-> c.participants]
    BY <1>4, <1>6, Zenon DEF GivenInv, CollectorInv, OpenedInv, RoundOf
  <2>. QED
    BY <1>6, <2>1, Zenon DEF RoundOf
<1>8. \A e \in full.shares_received :
          Backed(n, c.round, c.participants, e.from, e.share)
  <2>1. \A e \in c.shares_received :
            Backed(n, c.round, c.participants, e.from, e.share)
    BY <1>4, Zenon DEF CollectorInv
  <2>2. Backed(n, c.round, c.participants, new.from, new.share)
    BY <1>5, <1>7, Zenon
  <2>. HIDE DEF full, new, Inv
  <2>. QED
    BY <1>3, <2>1, <2>2, Zenon
<1>9. IsFiniteSet(full.shares_received)
  <2>. HIDE DEF full, new
  <2>1. IsFiniteSet(c.shares_received)
    BY <1>4, Zenon DEF CollectorInv
  <2>2. IsFiniteSet(c.shares_received \cup {new})
    BY <2>1, FS_AddElement, Zenon
  <2>. QED
    BY <1>3, <2>2, Zenon
<1>10. \A d, e \in full.shares_received : d.from = e.from => d = e
  <2>1. \A d, e \in c.shares_received : d.from = e.from => d = e
    BY <1>4, Zenon DEF CollectorInv
  <2>2. \A e \in c.shares_received : e.from # new.from
    BY Zenon DEF Accepts, Senders
  <2>. HIDE DEF full, new, Inv
  <2>. QED
    BY <1>3, <2>1, <2>2, Zenon
<1>11. CollectorInv(n, full)
  <2>. HIDE DEF full
  <2>. QED
    BY <1>3, <1>4, <1>8, <1>9, <1>10, Zenon DEF CollectorInv
<1>. QED
  BY <1>2, <1>3, <1>11, Zenon

\* A report of what a round carried keeps every report true.
LEMMA ReportKeepsReports ==
    ASSUME Inv, TypeOK', Progress, NEW n \in Node, NEW kind \in {"Extracted", "Received"},
           NEW round \in Nat, NEW text \in SUBSET Text,
           events' = [events EXCEPT ![n] = Report(@, kind, round, text)],
           \A t \in text : Reported(round, t)
    PROVE  NoForgedText'
<1>1. SUFFICES ASSUME NEW p \in Node, NEW i \in DOMAIN events'[p]
               PROVE  Reported(events[p][i].round, events[p][i].text)'
  BY Zenon DEF NoForgedText
<1>2. events \in [Node -> Seq(Event)]
  BY Zenon DEF Inv, TypeOK
<1>3. \/ i \in DOMAIN events[p] /\ events'[p][i] = events[p][i]
      \/ events'[p][i].round = round /\ events'[p][i].text \in text
  <2>1. CASE p # n
    BY <1>2, <2>1, Zenon
  <2>2. CASE p = n
    <3>1. events'[n] = Report(events[n], kind, round, text)
      BY <1>2, Zenon
    <3>2. events[n] \in Seq(Event)
      BY <1>2, Zenon
    <3>. QED
      BY <2>2, <3>1, <3>2, ReportType
  <2>. QED
    BY <2>1, <2>2, Zenon
<1>4. PICK r, t : r = events'[p][i].round /\ t = events'[p][i].text
  BY Zenon
<1>5. Reported(r, t)
  BY <1>3, <1>4, Zenon DEF Inv, NoForgedText
<1>6. Reported(r, t)'
  BY <1>5, ReportedStable, Zenon
<1>. QED
  BY <1>4, <1>6, Zenon

\* The invariant is inductive.
LEMMA InvStep == Inv /\ [Next]_vars => Inv'
<1>. SUFFICES ASSUME Inv, [Next]_vars PROVE Inv'
  BY Zenon
<1>1. TypeOK' /\ Progress
  BY TypeStep, StepIsProgress, Zenon DEF Inv
<1>2. OpenedInv' /\ GivenInv' /\ OneSharePerRound'
  BY <1>1, HistoriesStep, Zenon
<1>3. /\ \A m \in msgs : MessageInv(m)'
      /\ \A n \in Node : \A c \in collectors[n] : CollectorInv(n, c)'
      /\ events' = events => NoForgedText'
  BY <1>1, UntouchedStable, Zenon
<1>. DEFINE Messages   == \A m \in msgs' : MessageInv(m)'
            Collectors == \A n \in Node : \A c \in collectors'[n] : CollectorInv(n, c)'
            Goal == QueueInv' /\ Messages /\ Collectors /\ NoForgedText'
<1>4. /\ message_queue \in [Node -> Seq(Text)]
      /\ collectors \in [Node -> SUBSET Collector]
      /\ queued \in [Node -> SUBSET Text]
      /\ msgs \subseteq Message
      /\ QueueInv
  BY Zenon DEF Inv, TypeOK
<1>5. ASSUME NEW n \in Node, NEW text \in Text, QueueMessage(n, text)
      PROVE  Goal
  <2>1. QueueInv'
    <3>1. SUFFICES ASSUME NEW p \in Node, NEW i \in 1..Len(message_queue'[p])
                   PROVE  message_queue'[p][i] \in queued'[p]
      BY Zenon DEF QueueInv
    <3>2. CASE p # n
      BY <1>4, <1>5, <3>2, Zenon DEF QueueMessage, QueueInv
    <3>3. CASE p = n
      <4>1. message_queue'[n] = Append(message_queue[n], text)
            /\ queued'[n] = queued[n] \cup {text}
            /\ message_queue[n] \in Seq(Text)
        BY <1>4, <1>5, Zenon DEF QueueMessage
      <4>2. \A j \in 1..Len(message_queue[n]) : message_queue[n][j] \in queued[n]
        BY <1>4, Zenon DEF QueueInv
      <4>. QED
        BY <3>3, <4>1, <4>2
    <3>. QED
      BY <3>2, <3>3, Zenon
  <2>. QED
    BY <1>3, <1>5, <2>1, Zenon DEF QueueMessage
<1>6. ASSUME NEW n \in Node, queued' = queued,
             \/ message_queue' = message_queue
             \/ message_queue' = [message_queue EXCEPT ![n] = Dequeued(@)]
      PROVE  QueueInv'
  <2>1. SUFFICES ASSUME NEW p \in Node, NEW i \in 1..Len(message_queue'[p])
                 PROVE  message_queue'[p][i] \in queued[p]
    BY <1>6, Zenon DEF QueueInv
  <2>2. CASE message_queue'[p] = message_queue[p]
    BY <1>4, <2>2, Zenon DEF QueueInv
  <2>3. CASE message_queue'[p] = Dequeued(message_queue[p])
    BY <1>4, <2>3, DequeueType DEF QueueInv
  <2>. QED
    BY <1>4, <1>6, <2>2, <2>3, Zenon
<1>7. ASSUME NEW n \in Leaders, NEW participants \in Groups,
             start_round_as_leader(n, participants)
      PROVE  Goal
  <2>. DEFINE round   == current_round_id[n] + 1
              message == dequeue_message(message_queue[n])
              able    == CanShare(n, participants, message, edge_keys)
              share   == compute_xor_share_secure(round, n, participants,
                                                  message, edge_keys)
              fresh   == NewCollector(round, participants)
              col     == IF able THEN submit_share(fresh, n, share) ELSE fresh
              o       == [leader |-> n, round |-> round, group |-> participants]
              g       == [node |-> n, round |-> round, leader |-> n,
                          group |-> participants, texts |-> message]
              starts  == [type : {"DcRoundStart"}, src : {n}, dst : participants,
                          round : {round}, participants : {participants}]
  <2>1. /\ n \in Node
        /\ o \in opened'
        /\ able => g \in given'
        /\ msgs' \subseteq msgs \cup starts
        /\ collectors' = [collectors EXCEPT ![n] = WithCollector(@, col)]
        /\ edge_keys' = edge_keys /\ queued' = queued /\ events' = events
        /\ message_queue' = [message_queue EXCEPT ![n] = Dequeued(@)]
    BY <1>7, Zenon DEF start_round_as_leader, next_round, Post
  <2>2. QueueInv'
    BY <1>6, <2>1, Zenon
  <2>3. Messages
    <3>1. \A m \in starts : MessageInv(m)'
      BY <2>1, Zenon DEF MessageInv
    <3>. QED
      BY <1>3, <2>1, <3>1, Zenon
  <2>4. PICK k, sh, r : k = col /\ sh = share /\ r = round
    BY Zenon
  <2>5. /\ k.round = r /\ k.participants = participants
        /\ \/ k.shares_received = {}
           \/ k.shares_received = {[from |-> n, share |-> sh]} /\ able
    BY <2>4, Zenon DEF NewCollector, submit_share
  <2>6. able => Backed(n, r, participants, n, sh)'
    BY <2>1, <2>4, Zenon DEF Backed
  <2>7. CollectorInv(n, k)'
    <3>1. IsFiniteSet(k.shares_received)
      <4>1. IsFiniteSet({}) /\ IsFiniteSet({[from |-> n, share |-> sh]})
        BY FS_EmptySet, FS_Singleton, Zenon
      <4>. QED
        BY <2>5, <4>1, Zenon
    <3>2. \A e \in k.shares_received :
              Backed(n, k.round, k.participants, e.from, e.share)'
      <4>1. SUFFICES ASSUME NEW e \in k.shares_received
                     PROVE  Backed(n, k.round, k.participants, e.from, e.share)'
        BY Zenon
      <4>2. able /\ e = [from |-> n, share |-> sh]
        BY <2>5, Zenon
      <4>3. e.from = n /\ e.share = sh
        BY <4>2, Zenon
      <4>. QED
        BY <2>5, <2>6, <4>2, <4>3, Zenon
    <3>3. \A d, e \in k.shares_received : d.from = e.from => d = e
      BY <2>5, Zenon
    <3>4. [leader |-> n, round |-> k.round, group |-> k.participants] \in opened'
      BY <2>1, <2>4, <2>5, Zenon
    <3>. QED
      BY <3>1, <3>2, <3>3, <3>4, Zenon DEF CollectorInv
  <2>8. Collectors
    <3>1. SUFFICES ASSUME NEW p \in Node, NEW c \in collectors'[p]
                   PROVE  CollectorInv(p, c)'
      BY Zenon
    <3>2. c \in collectors[p] \/ (p = n /\ c = k)
      BY <1>4, <2>1, <2>4, Zenon DEF WithCollector
    <3>. QED
      BY <1>3, <2>7, <3>2, Zenon
  <2>. QED
    BY <1>3, <2>1, <2>2, <2>3, <2>8, Zenon
<1>8. ASSUME NEW n \in Node, NEW m \in msgs, handle_round_start(n, m)
      PROVE  Goal
  <2>. DEFINE message == dequeue_message(message_queue[n])
              able    == CanShare(n, m.participants, message, edge_keys)
              share   == compute_xor_share_secure(m.round, n, m.participants,
                                                  message, edge_keys)
              g       == [node |-> n, round |-> m.round, leader |-> m.src,
                          group |-> m.participants, texts |-> message]
              answer  == [type |-> "DcRoundShare", src |-> n, dst |-> m.src,
                          round |-> m.round, share |-> share]
  <2>1. /\ m.type = "DcRoundStart"
        /\ UNCHANGED <<collectors, edge_keys, events, queued, opened>>
        /\ \/ /\ message_queue' = [message_queue EXCEPT ![n] = Dequeued(@)]
              /\ msgs' \subseteq msgs \cup IF able THEN {answer} ELSE {}
              /\ able => g \in given'
           \/ /\ message_queue' = message_queue
              /\ msgs' \subseteq msgs
    <3>1. CASE mark_seen(current_round_id[n], m.round)
      BY <1>8, <3>1, Zenon DEF handle_round_start
    <3>2. CASE ~mark_seen(current_round_id[n], m.round)
      BY <1>8, <3>2, Zenon DEF handle_round_start
    <3>. QED
      BY <3>1, <3>2, Zenon
  <2>2. QueueInv'
    BY <1>6, <2>1, Zenon
  <2>3. m.participants \in Groups
    BY <2>1, Zenon DEF Inv, MessageInv, OpenedInv
  <2>4. PICK k, sh : k = answer /\ sh = share
    BY Zenon
  <2>5. able /\ g \in given' => Backed(m.src, m.round, m.participants, n, sh)'
    BY <2>1, <2>4, Zenon DEF Backed
  <2>6. /\ k.type = "DcRoundShare" /\ k.src = n /\ k.dst = m.src
        /\ k.round = m.round /\ k.share = sh
    BY <2>4, Zenon
  <2>7. able /\ g \in given' => MessageInv(k)'
    BY <2>3, <2>5, <2>6, Zenon DEF MessageInv
  <2>8. Messages
    <3>1. SUFFICES ASSUME NEW q \in msgs' PROVE MessageInv(q)'
      BY Zenon
    <3>2. q \in msgs \/ (able /\ g \in given' /\ q = k)
      BY <2>1, <2>4, Zenon
    <3>. QED
      BY <1>3, <2>7, <3>2, Zenon
  <2>. QED
    BY <1>3, <2>1, <2>2, <2>8, Zenon
<1>9. ASSUME NEW n \in Node, NEW m \in msgs, handle_round_share(n, m)
      PROVE  Goal
  <2>1. /\ m.type = "DcRoundShare" /\ m.dst = n
        /\ UNCHANGED <<message_queue, queued, edge_keys, opened, given>>
    BY <1>9, Zenon DEF handle_round_share
  <2>2. QueueInv'
    BY <1>6, <2>1, Zenon
  <2>3. CASE msgs' = msgs \ {m} /\ UNCHANGED <<collectors, events>>
    BY <1>3, <2>2, <2>3, ZenonT(40)
  <2>4. ASSUME NEW c \in collectors[n], c.round = m.round, Accepts(c, m.src),
               collectors' = [collectors EXCEPT ![n] =
                   WithCollector(@, submit_share(c, m.src, m.share))],
               msgs' = msgs \ {m}, events' = events
        PROVE  Goal
    <3>1. PICK full : full = submit_share(c, m.src, m.share)
      BY Zenon
    <3>2. CollectorInv(n, full)
      BY <2>1, <2>4, <3>1, SubmitKeepsCollector, Zenon
    <3>3. CollectorInv(n, full)'
      <4>1. ASSUME NEW e \in full.shares_received
            PROVE  Backed(n, full.round, full.participants, e.from, e.share)'
        <5>1. Backed(n, full.round, full.participants, e.from, e.share)
          BY <3>2, Zenon DEF CollectorInv
        <5>. QED
          BY <1>1, <5>1, BackedStable, Zenon
      <4>. QED
        BY <2>1, <3>2, <4>1, Zenon DEF CollectorInv
    <3>4. Collectors
      <4>1. SUFFICES ASSUME NEW p \in Node, NEW d \in collectors'[p]
                     PROVE  CollectorInv(p, d)'
        BY Zenon
      <4>2. d \in collectors[p] \/ (p = n /\ d = full)
        BY <1>4, <2>4, <3>1, Zenon DEF WithCollector
      <4>. QED
        BY <1>3, <3>3, <4>2, Zenon
    <3>. QED
      BY <1>3, <2>2, <2>4, <3>4, Zenon
  <2>5. ASSUME NEW c \in collectors[n], c.round = m.round, Accepts(c, m.src),
               LET payload == extract_message(submit_share(c, m.src, m.share))
                   text    == unpad_message(payload)
               IN  /\ collectors' = [collectors EXCEPT ![n] =
                                        WithoutCollector(@, m.round)]
                   /\ msgs' = (msgs \ {m}) \cup
                          IF text = {} THEN {}
                          ELSE Post([type : {"DcRoundResult"}, src : {n},
                                     dst : c.participants,
                                     round : {m.round},
                                     payload : {payload}])
                   /\ events' = [events EXCEPT ![n] =
                          Report(@, "Extracted", m.round, text)]
        PROVE  Goal
    <3>. DEFINE full    == submit_share(c, m.src, m.share)
                payload == extract_message(full)
                text    == unpad_message(payload)
                results == [type : {"DcRoundResult"}, src : {n},
                            dst : c.participants, round : {m.round},
                            payload : {payload}]
    <3>1. full \in Collector /\ full.round = m.round /\ CollectorInv(n, full)
      BY <2>1, <2>5, SubmitKeepsCollector, Zenon
    <3>2. \A t \in text : Reported(m.round, t)
      BY <3>1, ExtractionReported, Zenon
    <3>3. m.round \in Nat /\ text \in SUBSET Text
      <4>1. c \in Collector /\ m \in ShareMsg
        BY <1>4, <2>1, Zenon DEF Message, StartMsg, ResultMsg
      <4>2. payload \in Share
        BY <3>1, <4>1, CollectorType, Zenon DEF ShareMsg
      <4>. QED
        BY <4>1, <4>2, Zenon DEF unpad_message, Share, ShareMsg
    <3>4. NoForgedText'
      <4>1. events' = [events EXCEPT ![n] = Report(@, "Extracted", m.round, text)]
        BY <2>5, Zenon
      <4>. HIDE DEF text
      <4>. QED
        BY <1>1, <3>2, <3>3, <4>1, ReportKeepsReports, Zenon
    <3>5. Messages
      <4>1. SUFFICES ASSUME NEW q \in msgs' PROVE MessageInv(q)'
        BY Zenon
      <4>2. q \in msgs \/ q \in results
        BY <2>5, Zenon DEF Post
      <4>3. ASSUME q \in results PROVE MessageInv(q)'
        <5>1. q.type = "DcRoundResult" /\ q.round = m.round /\ q.payload = payload
          BY <4>3, Zenon
        <5>2. ASSUME NEW t \in unpad_message(q.payload) PROVE Reported(q.round, t)'
          <6>1. Reported(q.round, t)
            BY <3>2, <5>1, <5>2, Zenon
          <6>. QED
            BY <1>1, <6>1, ReportedStable, Zenon
        <5>. QED
          BY <5>1, <5>2, Zenon DEF MessageInv
      <4>. QED
        BY <1>3, <4>2, <4>3, Zenon
    <3>6. Collectors
      <4>1. SUFFICES ASSUME NEW p \in Node, NEW d \in collectors'[p]
                     PROVE  CollectorInv(p, d)'
        BY Zenon
      <4>2. d \in collectors[p]
        BY <1>4, <2>5, Zenon DEF WithoutCollector
      <4>. QED
        BY <1>3, <4>2, Zenon
    <3>. QED
      BY <2>2, <3>4, <3>5, <3>6, Zenon
  <2>. QED
    BY <1>9, <2>3, <2>4, <2>5, Zenon DEF handle_round_share
<1>10. ASSUME NEW n \in Node, NEW m \in msgs, handle_round_result(n, m)
       PROVE  Goal
  <2>. DEFINE text == unpad_message(m.payload)
  <2>1. /\ m.type = "DcRoundResult"
        /\ UNCHANGED <<message_queue, queued, collectors>>
        /\ msgs' \subseteq msgs
        /\ events' = [events EXCEPT ![n] = Report(@, "Received", m.round, text)]
    BY <1>10, Zenon DEF handle_round_result
  <2>2. m \in ResultMsg
    BY <1>4, <2>1, Zenon DEF Message, StartMsg, ShareMsg
  <2>3. m.round \in Nat /\ text \in SUBSET Text
    BY <2>2, Zenon DEF ResultMsg, unpad_message, Share
  <2>4. \A t \in text : Reported(m.round, t)
    BY <2>1, Zenon DEF Inv, MessageInv
  <2>5. NoForgedText'
    <3>. HIDE DEF text
    <3>. QED
      BY <1>1, <2>1, <2>3, <2>4, ReportKeepsReports, Zenon
  <2>6. QueueInv'
    BY <1>6, <2>1, Zenon
  <2>. QED
    BY <1>3, <2>1, <2>5, <2>6, Zenon
<1>11. ASSUME NEW n \in Node, NEW c \in collectors[n], Expire(n, c)
       PROVE  Goal
  <2>1. PICK k : k = [c EXCEPT !.expired = TRUE]
    BY Zenon
  <2>2. /\ k.round = c.round /\ k.participants = c.participants
        /\ k.shares_received = c.shares_received
    BY <1>4, <2>1, ExpiredType, Zenon
  <2>3. CollectorInv(n, k)'
    BY <1>3, <2>2, Zenon DEF CollectorInv
  <2>4. Collectors
    <3>1. SUFFICES ASSUME NEW p \in Node, NEW d \in collectors'[p]
                   PROVE  CollectorInv(p, d)'
      BY Zenon
    <3>2. d \in collectors[p] \/ (p = n /\ d = k)
      BY <1>4, <1>11, <2>1, Zenon DEF Expire, WithCollector
    <3>. QED
      BY <1>3, <2>3, <3>2, Zenon
  <2>5. QueueInv'
    BY <1>6, <1>11, Zenon DEF Expire
  <2>. QED
    BY <1>3, <1>11, <2>4, <2>5, Zenon DEF Expire
<1>12. ASSUME NEW m \in msgs, Lose(m)
       PROVE  Goal
  BY <1>3, <1>4, <1>12, Zenon DEF Lose, engineVars, QueueInv
<1>13. ASSUME UNCHANGED vars
       PROVE  Goal
  BY <1>3, <1>4, <1>13, Zenon DEF vars, engineVars, QueueInv
<1>14. Goal
  <2>. HIDE DEF Goal
  <2>. QED
    BY <1>5, <1>7, <1>8, <1>9, <1>10, <1>11, <1>12, <1>13, ZenonT(40) DEF Next, Deliver
<1>15. /\ (\A m \in msgs : MessageInv(m))'
       /\ (\A n \in Node : \A c \in collectors[n] : CollectorInv(n, c))'
  BY <1>14, ZenonT(40)
<1>. QED
  BY <1>1, <1>2, <1>14, <1>15, Zenon DEF Inv

\* The invariant holds initially.
LEMMA InvInit == Init => Inv
<1>1. Init => TypeOK
  BY DEF Init, TypeOK
<1>2. Init => QueueInv
  BY DEF Init, QueueInv
<1>3. Init => OpenedInv
  BY Zenon DEF Init, OpenedInv
<1>4. Init => GivenInv
  BY FS_EmptySet, Zenon DEF Init, GivenInv
<1>5. Init => OneSharePerRound
  BY Zenon DEF Init, OneSharePerRound
<1>6. Init => \A m \in msgs : MessageInv(m)
  BY Zenon DEF Init
<1>7. Init => \A n \in Node : \A c \in collectors[n] : CollectorInv(n, c)
  BY Zenon DEF Init
<1>8. Init => NoForgedText
  BY DEF Init, NoForgedText
<1>. QED
  BY <1>1, <1>2, <1>3, <1>4, <1>5, <1>6, <1>7, <1>8, Zenon DEF Inv

\* The invariant holds in every reachable state.
LEMMA InvCorrect == Spec => []Inv
BY InvInit, InvStep, PTL DEF Spec

\* A node contributes at most one share per round id, whatever leaders
\* announce (the single monotonic counter of RoundTracker).
THEOREM OneShareCorrect == Spec => []OneSharePerRound
BY InvCorrect, PTL DEF Inv

\* No reported text is forged: neither collisions, nor partial rounds at the
\* deadline, nor shares that meet in the wrong collector produce one.
THEOREM NoForgeryCorrect == Spec => []NoForgedText
BY InvCorrect, PTL DEF Inv

\* All reports of a round id agree when groups have a common member: that
\* member's one share ties both reports to the same leader's round.
THEOREM AgreementCorrect == Spec => []RoundAgreement
<1>1. Inv => RoundAgreement
  <2>1. SUFFICES ASSUME Inv, \A P, Q \in Groups : P \cap Q # {},
                        NEW n \in Node, NEW m \in Node,
                        NEW i \in DOMAIN events[n], NEW j \in DOMAIN events[m],
                        events[n][i].round = events[m][j].round
                 PROVE  events[n][i].text = events[m][j].text
    BY Zenon DEF RoundAgreement
  <2>. DEFINE r == events[n][i].round
              t == events[n][i].text
              u == events[m][j].text
  <2>2. Reported(r, t) /\ Reported(r, u)
    BY <2>1, Zenon DEF Inv, NoForgedText
  <2>. HIDE DEF r, t, u
  <2>3. PICK l \in Node, P \in Groups : Carried(l, P, r, t)
    BY <2>2, Zenon DEF Reported
  <2>4. PICK k \in Node, Q \in Groups : Carried(k, Q, r, u)
    BY <2>2, Zenon DEF Reported
  <2>5. PICK p \in P : p \in Q
    BY <2>1, Zenon
  <2>6. PICK g \in GivenTo(l, r) : g.node = p
    BY <2>3, <2>5, Zenon DEF Carried
  <2>7. PICK h \in GivenTo(k, r) : h.node = p
    BY <2>4, <2>5, Zenon DEF Carried
  <2>8. g = h
    BY <2>1, <2>6, <2>7, Zenon DEF GivenTo, Inv, OneSharePerRound
  <2>9. l = k
    BY <2>8, Zenon DEF GivenTo
  <2>10. {t} = {u}
    BY <2>3, <2>4, <2>9, Zenon DEF Carried
  <2>. QED
    BY <2>10, Zenon DEF t, u
<1>. QED
  BY <1>1, InvCorrect, PTL

\* The counter of a node never goes back and never skips a round id.
THEOREM CounterCorrect == Spec => CounterAdvancesByOne
<1>. DEFINE Ahead == \A n \in Node : current_round_id'[n] \in
                        {current_round_id[n], current_round_id[n] + 1}
<1>1. TypeOK /\ [Next]_vars => [Ahead]_vars
  <2>. SUFFICES ASSUME TypeOK, Next PROVE Ahead
    BY Zenon
  <2>1. current_round_id \in [Node -> Nat]
    BY Zenon DEF TypeOK
  <2>2. ASSUME NEW n \in Node, NEW text \in Text, QueueMessage(n, text)
        PROVE  Ahead
    BY <2>1, <2>2, Zenon DEF QueueMessage
  <2>3. ASSUME NEW n \in Leaders, NEW participants \in Groups,
               start_round_as_leader(n, participants)
        PROVE  Ahead
    BY <2>1, <2>3, Zenon DEF start_round_as_leader, next_round
  <2>4. ASSUME NEW n \in Node, NEW m \in msgs, handle_round_start(n, m)
        PROVE  Ahead
    BY <2>1, <2>4, Zenon DEF handle_round_start, mark_seen
  <2>5. ASSUME NEW n \in Node, NEW m \in msgs, handle_round_share(n, m)
        PROVE  Ahead
    BY <2>1, <2>5, Zenon DEF handle_round_share
  <2>6. ASSUME NEW n \in Node, NEW m \in msgs, handle_round_result(n, m)
        PROVE  Ahead
    BY <2>1, <2>6, Zenon DEF handle_round_result, mark_seen
  <2>7. ASSUME NEW n \in Node, NEW c \in collectors[n], Expire(n, c)
        PROVE  Ahead
    BY <2>1, <2>7, Zenon DEF Expire
  <2>8. ASSUME NEW m \in msgs, Lose(m)
        PROVE  Ahead
    BY <2>1, <2>8, Zenon DEF Lose, engineVars
  <2>. HIDE DEF Ahead
  <2>. QED
    BY <2>2, <2>3, <2>4, <2>5, <2>6, <2>7, <2>8, Zenon DEF Next, Deliver
<1>. QED
  BY <1>1, TypeCorrect, PTL DEF Spec, CounterAdvancesByOne
---------------------------------------------------------------------------
(***************************************************************************)
(* A text is reported at most once for each time it was queued.  Two facts  *)
(* make it so.  A queued text goes into one contribution; and a node        *)
(* reports a round once: it takes part in one leader's round per id, the    *)
(* leader's collector is gone once the results are on the way, and there is *)
(* one result per participant.                                              *)
(***************************************************************************)
\* Node n leads the round, or has contributed to it.
Takes(n, leader, round) ==
    \/ leader = n /\ \E o \in opened : o.leader = n /\ o.round = round
    \/ \E g \in given : g.node = n /\ g.leader = leader /\ g.round = round

ResultFor(m, n, leader, round) ==
    /\ m.type = "DcRoundResult" /\ m.src = leader /\ m.dst = n /\ m.round = round

\* Node n may still hear of the round.
Outstanding(n, leader, round) ==
    \/ \E c \in collectors[leader] : c.round = round
    \/ \E m \in msgs : ResultFor(m, n, leader, round)

OneLeader ==
    \A n, l, k \in Node, r \in Nat : Takes(n, l, r) /\ Takes(n, k, r) => l = k

ResultInv ==
    \A n, l \in Node, r \in Nat : \A m \in msgs :
        ResultFor(m, n, l, r) =>
            /\ Takes(n, l, r) /\ n # l
            /\ \A c \in collectors[l] : c.round # r
            /\ \A q \in msgs : ResultFor(q, n, l, r) => q = m

\* A round reported is over, and is reported once.
ReportedOnce(n) ==
    /\ \A i \in DOMAIN events[n] :
           /\ events[n][i].round <= current_round_id[n]
           /\ \A l \in Node : Takes(n, l, events[n][i].round)
                  => ~Outstanding(n, l, events[n][i].round)
    /\ \A i, j \in DOMAIN events[n] : events[n][i].round = events[n][j].round => i = j

\* A queued text is in one place of the queue or in one contribution.
TextInv ==
    /\ \A n \in Node : \A i, j \in 1..Len(message_queue[n]) :
           message_queue[n][i] = message_queue[n][j] => i = j
    /\ \A g \in given : \A i \in 1..Len(message_queue[g.node]) :
           message_queue[g.node][i] \notin g.texts
    /\ \A g, h \in given : g.node = h.node /\ g.texts \cap h.texts # {} => g = h
    /\ \A t \in Text : IsFiniteSet({q \in Node : t \in queued[q]})

OnceInv ==
    /\ Inv /\ OneLeader /\ ResultInv /\ TextInv
    /\ \A n \in Node : ReportedOnce(n)

\* The elements of a sequence, and a bound that only grows.
LEMMA ElementType ==
    ASSUME NEW T, NEW seq \in Seq(T), NEW i \in DOMAIN seq
    PROVE  seq[i] \in T
<1>. QED
  OBVIOUS

LEMMA AppendedElement ==
    ASSUME NEW T, NEW seq \in Seq(T), NEW e \in T, NEW i \in DOMAIN Append(seq, e)
    PROVE  \/ i \in DOMAIN seq /\ Append(seq, e)[i] = seq[i]
           \/ i = Len(seq) + 1 /\ Append(seq, e)[i] = e
<1>. QED
  OBVIOUS

LEMMA StillBound ==
    ASSUME NEW k \in Nat, NEW low \in Nat, NEW high \in Nat, k <= low, high >= low
    PROVE  k <= high
<1>. QED
  OBVIOUS

\* A round somebody takes part in was opened, and the counter has reached it.
LEMMA TakesPast ==
    ASSUME Inv, NEW n \in Node, NEW l \in Node, NEW r \in Nat, Takes(n, l, r)
    PROVE  /\ r <= current_round_id[n]
           /\ r <= current_round_id[l]
<1>1. ASSUME NEW o \in opened, l = n, o.leader = n, o.round = r
      PROVE  r <= current_round_id[n]
  BY <1>1, Zenon DEF Inv, OpenedInv
<1>2. ASSUME NEW g \in given, g.node = n, g.leader = l, g.round = r
      PROVE  r <= current_round_id[n] /\ r <= current_round_id[l]
  <2>1. r <= current_round_id[n] /\ RoundOf(g) \in opened
    BY <1>2, Zenon DEF Inv, GivenInv
  <2>2. RoundOf(g).leader = l /\ RoundOf(g).round = r
    BY <1>2, Zenon DEF RoundOf
  <2>. QED
    BY <2>1, <2>2, Zenon DEF Inv, OpenedInv
<1>. QED
  BY <1>1, <1>2, Zenon DEF Takes

\* A step that reports nothing: at most one node takes part in one more round,
\* with the next id, and starts to collect it if it leads it.
Counting ==
    \A p \in Node : current_round_id'[p] \in Nat /\ current_round_id'[p] >= current_round_id[p]

Quiet(n, l) ==
    /\ Counting
    /\ \A p, k \in Node, r \in Nat :
           Takes(p, k, r) <=> /\ Takes(p, k, r)'
                              /\ ~(p = n /\ k = l /\ r = current_round_id[n] + 1)
    /\ \A p \in Node : \A c \in collectors'[p] :
           \/ \E d \in collectors[p] : d.round = c.round
           \/ p = n /\ l = n /\ c.round = current_round_id[n] + 1
    /\ \A m \in msgs' : m.type = "DcRoundResult" => m \in msgs
    /\ events' = events

LEMMA QuietStep ==
    ASSUME OnceInv, NEW n \in Node, NEW l \in Node, Quiet(n, l)
    PROVE  OneLeader' /\ ResultInv' /\ \A p \in Node : ReportedOnce(p)'
<1>0. /\ \A p \in Node : current_round_id[p] \in Nat
      /\ Inv /\ \A p \in Node : ReportedOnce(p)
  BY Zenon DEF OnceInv, Inv, TypeOK
<1>q. \A p, k \in Node, r \in Nat :
          Takes(p, k, r) <=> /\ Takes(p, k, r)'
                             /\ ~(p = n /\ k = l /\ r = current_round_id[n] + 1)
  BY Zenon DEF Quiet
<1>c. \A p \in Node : \A c \in collectors'[p] :
          \/ \E d \in collectors[p] : d.round = c.round
          \/ p = n /\ l = n /\ c.round = current_round_id[n] + 1
  BY Zenon DEF Quiet
<1>m. \A m, p, k, r : m \in msgs' /\ ResultFor(m, p, k, r) => m \in msgs
  BY Zenon DEF Quiet, ResultFor
<1>e. Counting /\ events' = events
  BY Zenon DEF Quiet
<1>1. OneLeader'
  <2>1. SUFFICES ASSUME NEW p \in Node, NEW j \in Node, NEW k \in Node, NEW r \in Nat,
                        Takes(p, j, r)', Takes(p, k, r)'
                 PROVE  j = k
    BY Zenon DEF OneLeader
  <2>2. CASE p = n /\ r = current_round_id[n] + 1
    <3>1. ~Takes(p, j, r) /\ ~Takes(p, k, r)
      BY <1>0, <2>2, TakesPast
    <3>. QED
      BY <1>q, <2>1, <2>2, <3>1, Zenon
  <2>3. CASE ~(p = n /\ r = current_round_id[n] + 1)
    <3>1. Takes(p, j, r) /\ Takes(p, k, r)
      BY <1>q, <2>1, <2>3, Zenon
    <3>. QED
      BY <3>1, Zenon DEF OnceInv, OneLeader
  <2>. QED
    BY <2>2, <2>3, Zenon
<1>2. ResultInv'
  <2>1. SUFFICES ASSUME NEW p \in Node, NEW k \in Node, NEW r \in Nat, NEW m \in msgs',
                        ResultFor(m, p, k, r)
                 PROVE  /\ Takes(p, k, r)' /\ p # k
                        /\ \A c \in collectors'[k] : c.round # r
                        /\ \A q \in msgs' : ResultFor(q, p, k, r) => q = m
    BY Zenon DEF ResultInv, ResultFor
  <2>2. m \in msgs
    BY <1>m, <2>1, Zenon
  <2>3. /\ Takes(p, k, r) /\ p # k
        /\ \A c \in collectors[k] : c.round # r
        /\ \A q \in msgs : ResultFor(q, p, k, r) => q = m
    BY <2>1, <2>2, Zenon DEF OnceInv, ResultInv
  <2>4. \A q \in msgs' : ResultFor(q, p, k, r) => q = m
    BY <1>m, <2>3, Zenon
  <2>5. r <= current_round_id[k]
    BY <1>0, <2>3, TakesPast, Zenon
  <2>6. \A c \in collectors'[k] : c.round # r
    BY <1>0, <1>c, <2>3, <2>5
  <2>. QED
    BY <1>q, <2>3, <2>4, <2>6, Zenon
<1>3. ASSUME NEW p \in Node PROVE ReportedOnce(p)'
  <2>1. ASSUME NEW i \in DOMAIN events[p], NEW r, r = events[p][i].round
        PROVE  /\ r <= current_round_id'[p]
               /\ \A k \in Node : Takes(p, k, r)' => ~Outstanding(p, k, r)'
    <3>0. r \in Nat
      <4>1. events[p] \in Seq(Event)
        BY Zenon DEF OnceInv, Inv, TypeOK
      <4>2. events[p][i] \in Event
        BY <2>1, <4>1, ElementType, Zenon
      <4>. QED
        BY <2>1, <4>2, Zenon DEF Event
    <3>1. r <= current_round_id[p]
      BY <1>0, <2>1, Zenon DEF ReportedOnce
    <3>2. r <= current_round_id'[p]
      BY <1>0, <1>e, <3>0, <3>1, StillBound, Zenon DEF Counting
    <3>3. ASSUME NEW k \in Node, Takes(p, k, r)'
          PROVE  ~Outstanding(p, k, r)'
      <4>0. ~(p = n /\ r = current_round_id[n] + 1)
        BY <1>0, <3>0, <3>1
      <4>1. Takes(p, k, r)
        BY <1>q, <3>0, <3>3, <4>0, Zenon
      <4>2. ~Outstanding(p, k, r)
        BY <1>0, <2>1, <4>1, Zenon DEF ReportedOnce
      <4>3. r <= current_round_id[k]
        BY <1>0, <3>0, <4>1, TakesPast, Zenon
      <4>4. \A c \in collectors[k] : c.round # r
        BY <4>2, Zenon DEF Outstanding
      <4>5. \A c \in collectors'[k] : c.round # r
        BY <1>0, <1>c, <3>0, <4>3, <4>4
      <4>6. \A m \in msgs' : ~ResultFor(m, p, k, r)
        BY <1>m, <4>2, Zenon DEF Outstanding
      <4>. QED
        BY <4>5, <4>6, Zenon DEF Outstanding, ResultFor
    <3>. QED
      BY <3>2, <3>3, Zenon
  <2>. QED
    BY <1>0, <1>e, <2>1, Zenon DEF ReportedOnce
<1>. QED
  BY <1>1, <1>2, <1>3, Zenon

\* A step that reports a round: it was outstanding for the node and is not any
\* more, and nothing becomes outstanding for anybody.
Reports(n, l, r, e) ==
    /\ Counting /\ UNCHANGED <<opened, given>>
    /\ Takes(n, l, r) /\ Outstanding(n, l, r) /\ ~Outstanding(n, l, r)'
    /\ \A p, k \in Node, s \in Nat :
           Takes(p, k, s) /\ Outstanding(p, k, s)' => Outstanding(p, k, s)
    /\ e.round = r /\ events' = [events EXCEPT ![n] = Append(@, e)]

LEMMA ReportingStep ==
    ASSUME OnceInv, NEW n \in Node, NEW l \in Node, NEW r \in Nat, NEW e \in Event,
           Reports(n, l, r, e)
    PROVE  OneLeader' /\ \A p \in Node : ReportedOnce(p)'
<1>0. /\ \A p \in Node : current_round_id[p] \in Nat /\ events[p] \in Seq(Event)
      /\ events \in [Node -> Seq(Event)]
      /\ Inv /\ OneLeader /\ \A p \in Node : ReportedOnce(p)
  BY Zenon DEF OnceInv, Inv, TypeOK
<1>1. \A p, k, s : Takes(p, k, s)' <=> Takes(p, k, s)
  BY Zenon DEF Reports, Takes
<1>o. \A p, k \in Node, s \in Nat :
          Takes(p, k, s) /\ Outstanding(p, k, s)' => Outstanding(p, k, s)
  BY Zenon DEF Reports
<1>r. Takes(n, l, r) /\ Outstanding(n, l, r) /\ ~Outstanding(n, l, r)'
  BY Zenon DEF Reports
<1>e. Counting /\ e.round = r /\ events' = [events EXCEPT ![n] = Append(@, e)]
  BY Zenon DEF Reports
<1>2. OneLeader'
  BY <1>0, <1>1, Zenon DEF OneLeader
<1>3. ASSUME NEW p \in Node, NEW i \in DOMAIN events'[p]
      PROVE  \/ /\ i \in DOMAIN events[p] /\ events'[p][i] = events[p][i]
                /\ p = n => events[p][i].round # r
             \/ p = n /\ i = Len(events[n]) + 1 /\ events'[p][i] = e
  <2>1. CASE p # n
    <3>1. events'[p] = events[p]
      BY <1>0, <1>e, <2>1, Zenon
    <3>. QED
      BY <1>3, <2>1, <3>1, Zenon
  <2>2. CASE p = n
    <3>1. events'[n] = Append(events[n], e)
      BY <1>0, <1>e, Zenon
    <3>2. \/ i \in DOMAIN events[n] /\ events'[n][i] = events[n][i]
          \/ i = Len(events[n]) + 1 /\ events'[n][i] = e
      <4>1. events[n] \in Seq(Event) /\ i \in DOMAIN Append(events[n], e)
        BY <1>0, <1>3, <2>2, <3>1, Zenon
      <4>2. \/ i \in DOMAIN events[n] /\ Append(events[n], e)[i] = events[n][i]
            \/ i = Len(events[n]) + 1 /\ Append(events[n], e)[i] = e
        BY <4>1, AppendedElement, Zenon
      <4>. QED
        BY <3>1, <4>2, Zenon
    <3>3. ASSUME NEW j \in DOMAIN events[n], events[n][j].round = r PROVE FALSE
      <4>1. Takes(n, l, events[n][j].round) => ~Outstanding(n, l, events[n][j].round)
        BY <1>0, Zenon DEF ReportedOnce
      <4>. QED
        BY <1>r, <3>3, <4>1, Zenon
    <3>. QED
      BY <2>2, <3>2, <3>3, Zenon
  <2>. QED
    BY <2>1, <2>2, Zenon
<1>4. ASSUME NEW p \in Node PROVE ReportedOnce(p)'
  <2>1. ASSUME NEW i \in DOMAIN events'[p], NEW s, s = events'[p][i].round
        PROVE  /\ s <= current_round_id'[p]
               /\ \A k \in Node : Takes(p, k, s)' => ~Outstanding(p, k, s)'
    <3>1. CASE i \in DOMAIN events[p] /\ events'[p][i] = events[p][i]
      <4>0. s = events[p][i].round
        BY <2>1, <3>1, Zenon
      <4>1. /\ s <= current_round_id[p]
            /\ \A k \in Node : Takes(p, k, s) => ~Outstanding(p, k, s)
        BY <1>0, <3>1, <4>0, Zenon DEF ReportedOnce
      <4>2. events[p][i] \in Event
        BY <1>0, <3>1, ElementType, Zenon
      <4>3. s \in Nat
        BY <4>0, <4>2, Zenon DEF Event
      <4>4. s <= current_round_id'[p]
        BY <1>0, <1>e, <4>1, <4>3, StillBound, Zenon DEF Counting
      <4>. QED
        BY <1>1, <1>o, <4>1, <4>3, <4>4, Zenon
    <3>2. CASE p = n /\ events'[p][i] = e
      <4>0. s = r
        BY <1>e, <2>1, <3>2, Zenon
      <4>1. r <= current_round_id[n]
        BY <1>0, <1>r, TakesPast, Zenon
      <4>2. r <= current_round_id'[n]
        BY <1>0, <1>e, <4>1, StillBound, Zenon DEF Counting
      <4>3. \A k \in Node : Takes(n, k, r)' => k = l
        BY <1>0, <1>1, <1>r, Zenon DEF OneLeader
      <4>4. \A k \in Node : Takes(n, k, r)' => ~Outstanding(n, k, r)'
        BY <1>r, <4>3, Zenon
      <4>. QED
        BY <3>2, <4>0, <4>2, <4>4, Zenon
    <3>. QED
      BY <1>3, <2>1, <3>1, <3>2, Zenon
  <2>2. \A i, j \in DOMAIN events'[p] : events'[p][i].round = events'[p][j].round => i = j
    <3>1. \A i, j \in DOMAIN events[p] : events[p][i].round = events[p][j].round => i = j
      BY <1>0, Zenon DEF ReportedOnce
    <3>2. SUFFICES ASSUME NEW i \in DOMAIN events'[p], NEW j \in DOMAIN events'[p],
                          events'[p][i].round = events'[p][j].round
                   PROVE  i = j
      BY Zenon
    <3>3. CASE p # n
      <4>1. /\ i \in DOMAIN events[p] /\ events'[p][i] = events[p][i]
            /\ j \in DOMAIN events[p] /\ events'[p][j] = events[p][j]
        BY <1>3, <3>3, Zenon
      <4>. QED
        BY <3>1, <3>2, <4>1, Zenon
    <3>4. CASE p = n /\ (events'[p][i] = e \/ events'[p][j] = e)
      <4>1. events'[p][i].round = r /\ events'[p][j].round = r
        BY <1>e, <3>2, <3>4, Zenon
      <4>2. i = Len(events[n]) + 1
        <5>1. \/ events'[p][i] = events[p][i] /\ events[p][i].round # r
              \/ i = Len(events[n]) + 1
          BY <1>3, <3>4, Zenon
        <5>. QED
          BY <4>1, <5>1, Zenon
      <4>3. j = Len(events[n]) + 1
        <5>1. \/ events'[p][j] = events[p][j] /\ events[p][j].round # r
              \/ j = Len(events[n]) + 1
          BY <1>3, <3>4, Zenon
        <5>. QED
          BY <4>1, <5>1, Zenon
      <4>. QED
        BY <4>2, <4>3, Zenon
    <3>5. CASE events'[p][i] # e /\ events'[p][j] # e
      <4>1. /\ i \in DOMAIN events[p] /\ events'[p][i] = events[p][i]
            /\ j \in DOMAIN events[p] /\ events'[p][j] = events[p][j]
        BY <1>3, <3>5, Zenon
      <4>. QED
        BY <3>1, <3>2, <4>1, Zenon
    <3>. QED
      BY <3>3, <3>4, <3>5, Zenon
  <2>. QED
    BY <2>1, <2>2, Zenon DEF ReportedOnce
<1>. QED
  BY <1>2, <1>4, Zenon

\* A step that leaves the contributions alone and reports nothing.
Idle ==
    /\ Counting /\ UNCHANGED <<opened, given, events>>
    /\ \A p \in Node : \A c \in collectors'[p] : \E d \in collectors[p] : d.round = c.round
    /\ \A m \in msgs' : m.type = "DcRoundResult" => m \in msgs

LEMMA IdleStep ==
    ASSUME OnceInv, NEW n \in Node, Idle
    PROVE  OneLeader' /\ ResultInv' /\ \A p \in Node : ReportedOnce(p)'
<1>1. \A p, k \in Node, r \in Nat : Takes(p, k, r) <=> Takes(p, k, r)'
  BY Zenon DEF Idle, Takes
<1>2. ~Takes(n, n, current_round_id[n] + 1)
  <2>1. Inv /\ current_round_id[n] \in Nat
    BY Zenon DEF OnceInv, Inv, TypeOK
  <2>2. current_round_id[n] + 1 \in Nat /\ ~(current_round_id[n] + 1 <= current_round_id[n])
    BY <2>1
  <2>. QED
    BY <2>1, <2>2, TakesPast, Zenon
<1>3. \A p, k \in Node, r \in Nat :
          Takes(p, k, r) <=> /\ Takes(p, k, r)'
                             /\ ~(p = n /\ k = n /\ r = current_round_id[n] + 1)
  BY <1>1, <1>2, Zenon
<1>4. Quiet(n, n)
  BY <1>3, Zenon DEF Quiet, Idle
<1>. QED
  BY <1>4, QuietStep, Zenon

\* A queue without repetitions stays so, and has not the text taken from it.
Apart(queue) == \A i, j \in 1..Len(queue) : queue[i] = queue[j] => i = j

Without(queue, texts) == \A i \in 1..Len(queue) : queue[i] \notin texts

LEMMA DequeueOnce ==
    ASSUME NEW queue \in Seq(Text), Apart(queue)
    PROVE  Apart(Dequeued(queue)) /\ Without(Dequeued(queue), dequeue_message(queue))
<1>1. CASE queue = <<>>
  BY <1>1, Zenon DEF dequeue_message, Dequeued, Apart, Without
<1>2. CASE queue # <<>>
  <2>1. Len(queue) \in Nat /\ Len(queue) >= 1 /\ Head(queue) = queue[1]
    BY <1>2
  <2>2. Tail(queue) \in Seq(Text) /\ Len(Tail(queue)) = Len(queue) - 1
    BY <1>2
  <2>3. \A i \in 1..Len(Tail(queue)) : Tail(queue)[i] = queue[i + 1]
    BY <1>2, <2>1, <2>2
  <2>4. \A i \in 1..Len(Tail(queue)) : i + 1 \in 1..Len(queue) /\ i + 1 # 1
    BY <2>1, <2>2
  <2>. QED
    BY <1>2, <2>1, <2>2, <2>3, <2>4 DEF dequeue_message, Dequeued, Apart, Without
<1>. QED
  BY <1>1, <1>2, Zenon

\* Taking the next text for a contribution, or for none, keeps every text in
\* one place.
LEMMA TextTaken ==
    ASSUME Inv, TextInv, NEW n \in Node, queued' = queued,
           message_queue' = [message_queue EXCEPT ![n] = Dequeued(@)],
           NEW g, g.node = n, g.texts = dequeue_message(message_queue[n]),
           given' = given \/ given' = given \cup {g}
    PROVE  TextInv'
<1>. DEFINE old  == message_queue[n]
            rest == Dequeued(old)
<1>0. message_queue \in [Node -> Seq(Text)] /\ old \in Seq(Text)
  BY Zenon DEF Inv, TypeOK
<1>1. /\ message_queue'[n] = rest
      /\ \A p \in Node : p # n => message_queue'[p] = message_queue[p]
  BY <1>0, Zenon
<1>2. /\ \A i, j \in 1..Len(rest) : rest[i] = rest[j] => i = j
      /\ \A i \in 1..Len(rest) : rest[i] \notin g.texts
  <2>1. Apart(old)
    BY Zenon DEF TextInv, Apart
  <2>2. Apart(rest) /\ Without(rest, dequeue_message(old))
    BY <1>0, <2>1, DequeueOnce, Zenon
  <2>. HIDE DEF rest
  <2>. QED
    BY <2>2, Zenon DEF Apart, Without
<1>3. /\ \A t \in g.texts : \E i \in 1..Len(old) : old[i] = t
      /\ \A i \in 1..Len(rest) : \E j \in 1..Len(old) : rest[i] = old[j]
  <2>1. \A t \in dequeue_message(old) : \E i \in 1..Len(old) : old[i] = t
    BY <1>0, DequeueType, Zenon
  <2>2. \A i \in 1..Len(rest) : \E j \in 1..Len(old) : rest[i] = old[j]
    BY <1>0, DequeueType, Zenon
  <2>. QED
    BY <2>1, <2>2, Zenon
<1>. HIDE DEF rest
<1>4. \A p \in Node : \A i, j \in 1..Len(message_queue'[p]) :
          message_queue'[p][i] = message_queue'[p][j] => i = j
  BY <1>1, <1>2 DEF TextInv
<1>5. \A h \in given : h.node \in Node
  BY Zenon DEF Inv, TypeOK, Given
<1>6. ASSUME NEW h \in given', NEW i \in 1..Len(message_queue'[h.node])
      PROVE  message_queue'[h.node][i] \notin h.texts
  <2>1. CASE h \in given /\ h.node # n
    BY <1>1, <1>5, <1>6, <2>1, Zenon DEF TextInv
  <2>2. CASE h \in given /\ h.node = n
    BY <1>1, <1>3, <1>6, <2>2 DEF TextInv
  <2>3. CASE h = g
    BY <1>1, <1>2, <1>6, <2>3, Zenon
  <2>. QED
    BY <1>6, <2>1, <2>2, <2>3, Zenon
<1>7. \A h \in given : h.node = n => h.texts \cap g.texts = {}
  <2>1. SUFFICES ASSUME NEW h \in given, h.node = n, NEW t \in h.texts, t \in g.texts
                 PROVE  FALSE
    BY Zenon
  <2>2. PICK i \in 1..Len(message_queue[h.node]) : message_queue[h.node][i] = t
    BY <1>3, <2>1, Zenon
  <2>. QED
    BY <2>1, <2>2, Zenon DEF TextInv
<1>8. \A h, k \in given' : h.node = k.node /\ h.texts \cap k.texts # {} => h = k
  BY <1>7, Zenon DEF TextInv
<1>9. \A t \in Text : IsFiniteSet({q \in Node : t \in queued'[q]})
  BY Zenon DEF TextInv
<1>. QED
  BY <1>4, <1>6, <1>8, <1>9, Zenon DEF TextInv

\* Every step keeps a queued text in one place.
LEMMA TextStep ==
    ASSUME Inv, TextInv, [Next]_vars
    PROVE  TextInv'
<1>0. ASSUME UNCHANGED <<message_queue, queued, given>> PROVE TextInv'
  BY <1>0, Zenon DEF TextInv
<1>1. ASSUME NEW n \in Node, NEW text \in Text, QueueMessage(n, text)
      PROVE  TextInv'
  <2>. DEFINE old == message_queue[n]
  <2>0. message_queue \in [Node -> Seq(Text)] /\ old \in Seq(Text)
        /\ queued \in [Node -> SUBSET Text]
    BY Zenon DEF Inv, TypeOK
  <2>1. /\ text \notin queued[n] /\ given' = given
        /\ message_queue'[n] = Append(old, text)
        /\ \A p \in Node : p # n => message_queue'[p] = message_queue[p]
        /\ queued' = [queued EXCEPT ![n] = @ \cup {text}]
    BY <1>1, <2>0, Zenon DEF QueueMessage
  <2>2. \A i \in 1..Len(old) : old[i] # text
    BY <2>1, Zenon DEF Inv, QueueInv
  <2>3. \A i, j \in 1..Len(old) : old[i] = old[j] => i = j
    BY Zenon DEF TextInv
  <2>4. \A i, j \in 1..Len(message_queue'[n]) :
            message_queue'[n][i] = message_queue'[n][j] => i = j
    BY <2>0, <2>1, <2>2, <2>3
  <2>5. \A h \in given : h.node \in Node /\ h.texts \subseteq queued[h.node]
    BY Zenon DEF Inv, TypeOK, Given, GivenInv
  <2>6. ASSUME NEW h \in given, NEW i \in 1..Len(message_queue'[h.node])
        PROVE  message_queue'[h.node][i] \notin h.texts
    <3>1. CASE h.node # n
      BY <2>1, <2>5, <2>6, <3>1, Zenon DEF TextInv
    <3>2. CASE h.node = n
      <4>1. text \notin h.texts /\ \A j \in 1..Len(old) : old[j] \notin h.texts
        BY <2>1, <2>5, <3>2, Zenon DEF TextInv
      <4>2. i \in 1..Len(Append(old, text))
        BY <2>1, <2>6, <3>2, Zenon
      <4>3. Append(old, text)[i] = text \/ \E j \in 1..Len(old) : Append(old, text)[i] = old[j]
        BY <2>0, <4>2
      <4>. QED
        BY <2>1, <3>2, <4>1, <4>3, Zenon
    <3>. QED
      BY <3>1, <3>2, Zenon
  <2>7. ASSUME NEW t \in Text PROVE IsFiniteSet({q \in Node : t \in queued'[q]})
    <3>1. IsFiniteSet({q \in Node : t \in queued[q]})
      BY Zenon DEF TextInv
    <3>2. IsFiniteSet({q \in Node : t \in queued[q]} \cup {n})
      BY <3>1, FS_AddElement, Zenon
    <3>3. {q \in Node : t \in queued'[q]} \subseteq {q \in Node : t \in queued[q]} \cup {n}
      BY <2>0, <2>1, Zenon
    <3>. QED
      BY <3>2, <3>3, FS_Subset, Zenon
  <2>. QED
    BY <2>1, <2>4, <2>6, <2>7, Zenon DEF TextInv
<1>2. ASSUME NEW n \in Leaders, NEW participants \in Groups,
             start_round_as_leader(n, participants)
      PROVE  TextInv'
  <2>. DEFINE g == [node |-> n, round |-> next_round(current_round_id[n]),
                    leader |-> n, group |-> participants,
                    texts |-> dequeue_message(message_queue[n])]
  <2>1. /\ n \in Node /\ queued' = queued
        /\ message_queue' = [message_queue EXCEPT ![n] = Dequeued(@)]
        /\ given' = given \/ given' = given \cup {g}
        /\ g.node = n /\ g.texts = dequeue_message(message_queue[n])
    BY <1>2, Zenon DEF start_round_as_leader
  <2>. HIDE DEF g
  <2>. QED
    BY <2>1, TextTaken, Zenon
<1>3. ASSUME NEW n \in Node, NEW m \in msgs, handle_round_start(n, m)
      PROVE  TextInv'
  <2>. DEFINE g == [node |-> n, round |-> m.round, leader |-> m.src,
                    group |-> m.participants,
                    texts |-> dequeue_message(message_queue[n])]
  <2>1. CASE mark_seen(current_round_id[n], m.round)
    <3>1. /\ queued' = queued
          /\ message_queue' = [message_queue EXCEPT ![n] = Dequeued(@)]
          /\ given' = given \/ given' = given \cup {g}
          /\ g.node = n /\ g.texts = dequeue_message(message_queue[n])
      BY <1>3, <2>1, Zenon DEF handle_round_start
    <3>. HIDE DEF g
    <3>. QED
      BY <3>1, TextTaken, ZenonT(40)
  <2>2. CASE ~mark_seen(current_round_id[n], m.round)
    BY <1>0, <1>3, <2>2, Zenon DEF handle_round_start
  <2>. QED
    BY <2>1, <2>2, Zenon
<1>4. ASSUME NEW n \in Node, NEW m \in msgs, handle_round_share(n, m)
      PROVE  TextInv'
  BY <1>0, <1>4, Zenon DEF handle_round_share
<1>5. ASSUME NEW n \in Node, NEW m \in msgs, handle_round_result(n, m)
      PROVE  TextInv'
  BY <1>0, <1>5, Zenon DEF handle_round_result
<1>6. ASSUME NEW n \in Node, NEW c \in collectors[n], Expire(n, c)
      PROVE  TextInv'
  BY <1>0, <1>6, Zenon DEF Expire
<1>7. ASSUME NEW m \in msgs, Lose(m)
      PROVE  TextInv'
  BY <1>0, <1>7, Zenon DEF Lose, engineVars
<1>8. CASE UNCHANGED vars
  BY <1>0, <1>8, Zenon DEF vars, engineVars
<1>. QED
  BY <1>1, <1>2, <1>3, <1>4, <1>5, <1>6, <1>7, <1>8, Zenon DEF Next, Deliver

\* A leader closes a round with a text (round_engine.rs:253): the whole group
\* contributed, the collector goes, every other participant gets a result.
Closes(n, r, results, e) ==
    /\ \E c \in collectors[n] : c.round = r
    /\ UNCHANGED <<opened, given, current_round_id>>
    /\ collectors' = [collectors EXCEPT ![n] = WithoutCollector(@, r)]
    /\ msgs' \subseteq msgs \cup results
    /\ \A q \in results : /\ q.type = "DcRoundResult" /\ q.src = n /\ q.round = r
                          /\ q.dst # n /\ Takes(q.dst, n, r)
    /\ \A q, w \in results : q.dst = w.dst => q = w
    /\ e.round = r /\ events' = [events EXCEPT ![n] = Append(@, e)]

\* One result for everybody else who takes part (round_engine.rs:250).
Outcome(n, r, P, payload) ==
    Post([type : {"DcRoundResult"}, src : {n}, dst : P, round : {r}, payload : {payload}])

EachOne(results, n, r) ==
    /\ \A q \in results : /\ q.type = "DcRoundResult" /\ q.src = n /\ q.round = r
                          /\ q.dst # n /\ Takes(q.dst, n, r)
    /\ \A q, w \in results : q.dst = w.dst => q = w

LEMMA PostedResults ==
    ASSUME NEW n, NEW r, NEW P, NEW payload, NEW results,
           results = Outcome(n, r, P, payload),
           \A p \in P : Takes(p, n, r)
    PROVE  EachOne(results, n, r)
<1>. QED
  BY DEF EachOne, Outcome, Post

\* After that the round is over for the leader, and for the others with the
\* result they get.
LEMMA ClosingStep ==
    ASSUME OnceInv, NEW n \in Node, NEW r \in Nat, NEW results, NEW e \in Event,
           Closes(n, r, results, e)
    PROVE  OneLeader' /\ ResultInv' /\ \A p \in Node : ReportedOnce(p)'
<1>0. /\ collectors \in [Node -> SUBSET Collector]
      /\ \A p \in Node : current_round_id[p] \in Nat
  BY Zenon DEF OnceInv, Inv, TypeOK
<1>1. /\ \A q \in results : /\ q.type = "DcRoundResult" /\ q.src = n /\ q.round = r
                            /\ q.dst # n
      /\ \A q, w \in results : q.dst = w.dst => q = w
  BY Zenon DEF Closes
<1>2. msgs' \subseteq msgs \cup results
  BY Zenon DEF Closes
<1>3. /\ \A q \in results : Takes(q.dst, n, r)
      /\ \E c \in collectors[n] : c.round = r
  BY Zenon DEF Closes
<1>4. Takes(n, n, r)
  <2>1. PICK c \in collectors[n] : c.round = r
    BY Zenon DEF Closes
  <2>2. CollectorInv(n, c)
    BY Zenon DEF OnceInv, Inv
  <2>3. PICK o \in opened : o.leader = n /\ o.round = r
    BY <2>1, <2>2, ZenonT(40) DEF CollectorInv
  <2>. QED
    BY <2>3, Zenon DEF Takes
<1>5. \A p, k, s : Takes(p, k, s)' <=> Takes(p, k, s)
  BY Zenon DEF Takes, Closes
<1>6. /\ \A k \in Node : collectors'[k] \subseteq collectors[k]
      /\ \A d \in collectors'[n] : d.round # r
  BY <1>0, ZenonT(40) DEF WithoutCollector, Closes
<1>7. ASSUME NEW p \in Node, NEW k \in Node, NEW s \in Nat, NEW q \in msgs',
             ResultFor(q, p, k, s)
      PROVE  /\ \/ q \in msgs /\ ~(k = n /\ s = r)
                \/ q \in results /\ k = n /\ s = r
             /\ Takes(p, k, s) /\ p # k
             /\ \A d \in collectors'[k] : d.round # s
  <2>1. CASE q \in msgs
    <3>1. Takes(p, k, s) /\ p # k /\ \A d \in collectors[k] : d.round # s
      BY <1>7, <2>1, ZenonT(40) DEF OnceInv, ResultInv
    <3>. QED
      BY <1>3, <1>6, <2>1, <3>1, ZenonT(40)
  <2>2. CASE q \in results
    <3>1. k = n /\ s = r /\ p = q.dst
      BY <1>1, <1>7, <2>2, Zenon DEF ResultFor
    <3>. QED
      BY <1>1, <1>3, <1>6, <2>2, <3>1, ZenonT(40)
  <2>. QED
    BY <1>2, <1>7, <2>1, <2>2, ZenonT(40)
<1>8. ASSUME NEW p \in Node, NEW k \in Node, NEW s \in Nat,
             NEW q \in msgs', NEW w \in msgs', ResultFor(q, p, k, s), ResultFor(w, p, k, s)
      PROVE  w = q
  <2>1. CASE q \in results
    <3>1. k = n /\ s = r
      BY <1>1, <1>8, <2>1, Zenon DEF ResultFor
    <3>2. w \in results
      BY <1>7, <1>8, <3>1, ZenonT(40)
    <3>. QED
      BY <1>1, <1>8, <2>1, <3>2, Zenon DEF ResultFor
  <2>2. CASE q \notin results
    <3>1. q \in msgs /\ ~(k = n /\ s = r)
      BY <1>7, <1>8, <2>2, ZenonT(40)
    <3>2. w \in msgs
      BY <1>7, <1>8, <3>1, Zenon
    <3>. QED
      BY <1>8, <3>1, <3>2, ZenonT(40) DEF OnceInv, ResultInv
  <2>. QED
    BY <2>1, <2>2, Zenon
<1>9. ResultInv'
  <2>1. SUFFICES ASSUME NEW p \in Node, NEW k \in Node, NEW s \in Nat, NEW q \in msgs',
                        ResultFor(q, p, k, s)
                 PROVE  /\ Takes(p, k, s)' /\ p # k
                        /\ \A d \in collectors'[k] : d.round # s
                        /\ \A w \in msgs' : ResultFor(w, p, k, s) => w = q
    BY Zenon DEF ResultInv, ResultFor
  <2>. QED
    BY <1>5, <1>7, <1>8, <2>1, ZenonT(40)
<1>10. Outstanding(n, n, r) /\ ~Outstanding(n, n, r)'
  <2>1. \A q \in msgs' : ~ResultFor(q, n, n, r)
    BY <1>7, ZenonT(40)
  <2>. QED
    BY <1>6, <2>1, ZenonT(40) DEF Outstanding, ResultFor, Closes
<1>11. ASSUME NEW p \in Node, NEW k \in Node, NEW s \in Nat, Outstanding(p, k, s)'
       PROVE  Outstanding(p, k, s)
  <2>1. CASE \E d \in collectors'[k] : d.round = s
    BY <1>6, <2>1, Zenon DEF Outstanding
  <2>2. CASE \E q \in msgs' : ResultFor(q, p, k, s)
    BY <1>3, <1>7, <2>2, ZenonT(40) DEF Outstanding
  <2>. QED
    BY <1>11, <2>1, <2>2, Zenon DEF Outstanding, ResultFor
<1>12. Counting
  <2>1. current_round_id' = current_round_id
    BY Zenon DEF Closes
  <2>2. \A p \in Node : current_round_id[p] >= current_round_id[p]
    BY <1>0
  <2>. QED
    BY <1>0, <2>1, <2>2, Zenon DEF Counting
<1>13. OneLeader' /\ \A p \in Node : ReportedOnce(p)'
  <2>1. Reports(n, n, r, e)
    BY <1>4, <1>10, <1>11, <1>12, Zenon DEF Closes, Reports
  <2>. QED
    BY <2>1, ReportingStep, Zenon
<1>. QED
  BY <1>9, <1>13, Zenon

\* A participant that reads a result (round_engine.rs:266): it is the only one
\* it will get, and the leader's collector is gone.
Reads(n, r, m, e) ==
    /\ Counting /\ UNCHANGED <<opened, given, collectors>>
    /\ msgs' = msgs \ {m}
    /\ e.round = r /\ events' = [events EXCEPT ![n] = Append(@, e)]

LEMMA ReadingStep ==
    ASSUME OnceInv, NEW n \in Node, NEW l \in Node, NEW r \in Nat, NEW e \in Event,
           NEW m \in msgs, ResultFor(m, n, l, r), Reads(n, r, m, e)
    PROVE  OneLeader' /\ ResultInv' /\ \A p \in Node : ReportedOnce(p)'
<1>0. UNCHANGED <<opened, given, collectors>> /\ msgs' = msgs \ {m}
  BY Zenon DEF Reads
<1>1. /\ Takes(n, l, r) /\ \A c \in collectors[l] : c.round # r
      /\ \A q \in msgs : ResultFor(q, n, l, r) => q = m
  BY Zenon DEF OnceInv, ResultInv
<1>2. \A p, k, s : Takes(p, k, s)' <=> Takes(p, k, s)
  BY <1>0, Zenon DEF Takes
<1>3. ResultInv'
  <2>1. SUFFICES ASSUME NEW p \in Node, NEW k \in Node, NEW s \in Nat, NEW q \in msgs',
                        ResultFor(q, p, k, s)
                 PROVE  /\ Takes(p, k, s)' /\ p # k
                        /\ \A c \in collectors'[k] : c.round # s
                        /\ \A w \in msgs' : ResultFor(w, p, k, s) => w = q
    BY Zenon DEF ResultInv, ResultFor
  <2>2. /\ Takes(p, k, s) /\ p # k /\ \A c \in collectors[k] : c.round # s
        /\ \A w \in msgs : ResultFor(w, p, k, s) => w = q
    BY <1>0, <2>1, Zenon DEF OnceInv, ResultInv
  <2>. QED
    BY <1>0, <1>2, <2>2, Zenon
<1>4. Outstanding(n, l, r) /\ ~Outstanding(n, l, r)'
  BY <1>0, <1>1, Zenon DEF Outstanding, ResultFor
<1>5. \A p, k \in Node, s \in Nat : Outstanding(p, k, s)' => Outstanding(p, k, s)
  BY <1>0, Zenon DEF Outstanding, ResultFor
<1>6. Reports(n, l, r, e)
  BY <1>1, <1>4, <1>5, Zenon DEF Reads, Reports
<1>. QED
  BY <1>3, <1>6, ReportingStep, Zenon

\* The strengthened invariant is inductive.
LEMMA OnceStep == OnceInv /\ [Next]_vars => OnceInv'
<1>. SUFFICES ASSUME OnceInv, [Next]_vars PROVE OnceInv'
  BY Zenon
<1>0. /\ Inv /\ TextInv /\ OneLeader /\ ResultInv /\ \A p \in Node : ReportedOnce(p)
      /\ TypeOK
  BY Zenon DEF OnceInv, Inv
<1>1. Inv' /\ TypeOK'
  BY <1>0, InvStep, Zenon DEF Inv
<1>2. TextInv'
  BY <1>0, TextStep, Zenon
<1>3. /\ collectors \in [Node -> SUBSET Collector] /\ msgs \subseteq Message
      /\ current_round_id \in [Node -> Nat]
      /\ events \in [Node -> Seq(Event)]
      /\ given \subseteq Given /\ opened \subseteq Opened
  BY <1>0, Zenon DEF TypeOK
<1>4. Counting
  <2>1. \A p \in Node : current_round_id'[p] >= current_round_id[p]
    BY <1>0, StepIsProgress, ZenonT(40) DEF Progress
  <2>2. \A p \in Node : current_round_id'[p] \in Nat
    BY <1>1, Zenon DEF TypeOK
  <2>. QED
    BY <2>1, <2>2, Zenon DEF Counting
<1>. DEFINE Goal == OneLeader' /\ ResultInv' /\ \A p \in Node : ReportedOnce(p)'
<1>5. ASSUME NEW n \in Node, UNCHANGED <<opened, given, events>>,
             \A p \in Node : \A c \in collectors'[p] :
                 \E d \in collectors[p] : d.round = c.round,
             msgs' \subseteq msgs
      PROVE  Goal
  <2>1. Idle
    BY <1>4, <1>5, Zenon DEF Idle
  <2>. QED
    BY <2>1, IdleStep, Zenon
<1>6. ASSUME NEW n \in Node, NEW l \in Node,
             opened' = opened \/ (l = n /\ \E o : /\ opened' = opened \cup {o}
                                                  /\ o.leader = n
                                                  /\ o.round = current_round_id[n] + 1),
             given' = given \/ \E g : /\ given' = given \cup {g}
                                      /\ g.node = n /\ g.leader = l
                                      /\ g.round = current_round_id[n] + 1,
             \A p \in Node : \A c \in collectors'[p] :
               \/ \E d \in collectors[p] : d.round = c.round
               \/ p = n /\ l = n /\ c.round = current_round_id[n] + 1,
             \A m \in msgs' : m.type = "DcRoundResult" => m \in msgs,
             events' = events
      PROVE  Goal
  <2>1. ASSUME NEW p \in Node, NEW k \in Node, NEW r \in Nat
        PROVE  Takes(p, k, r) <=> /\ Takes(p, k, r)'
                                  /\ ~(p = n /\ k = l /\ r = current_round_id[n] + 1)
    <3>1. Takes(p, k, r) => Takes(p, k, r)'
      BY <1>6, Zenon DEF Takes
    <3>2. Takes(p, k, r) => ~(p = n /\ r = current_round_id[n] + 1)
      <4>1. current_round_id[n] \in Nat
        BY <1>3, Zenon
      <4>2. ~(current_round_id[n] + 1 <= current_round_id[n])
        BY <4>1
      <4>. QED
        BY <1>0, <4>2, TakesPast, Zenon
    <3>3. Takes(p, k, r)' => \/ Takes(p, k, r)
                             \/ p = n /\ k = l /\ r = current_round_id[n] + 1
      BY <1>6, ZenonT(40) DEF Takes
    <3>. QED
      BY <3>1, <3>2, <3>3, Zenon
  <2>2. Quiet(n, l)
    BY <1>4, <1>6, <2>1, Zenon DEF Quiet
  <2>. QED
    BY <2>2, QuietStep, Zenon
<1>7. ASSUME NEW n \in Node, NEW text \in Text, QueueMessage(n, text)
      PROVE  Goal
  <2>1. UNCHANGED <<opened, given, events, collectors, msgs>>
    BY <1>7, Zenon DEF QueueMessage
  <2>. HIDE DEF Goal
  <2>. QED
    BY <1>5, <2>1, Zenon
<1>8. ASSUME NEW n \in Leaders, NEW participants \in Groups,
             start_round_as_leader(n, participants)
      PROVE  Goal
  <2>. DEFINE round   == current_round_id[n] + 1
              message == dequeue_message(message_queue[n])
              able    == CanShare(n, participants, message, edge_keys)
              share   == compute_xor_share_secure(round, n, participants,
                                                  message, edge_keys)
              fresh   == NewCollector(round, participants)
              col     == IF able THEN submit_share(fresh, n, share) ELSE fresh
              o       == [leader |-> n, round |-> round, group |-> participants]
              g       == [node |-> n, round |-> round, leader |-> n,
                          group |-> participants, texts |-> message]
  <2>1. /\ n \in Node
        /\ opened' = opened \cup {o}
        /\ given' = given \/ given' = given \cup {g}
        /\ msgs' = msgs \cup Post([type : {"DcRoundStart"}, src : {n},
                                   dst : participants, round : {round},
                                   participants : {participants}])
        /\ collectors' = [collectors EXCEPT ![n] = WithCollector(@, col)]
        /\ events' = events
    BY <1>8, Zenon DEF start_round_as_leader, next_round
  <2>2. col.round = round
    BY Zenon DEF NewCollector, submit_share
  <2>3. o.leader = n /\ o.round = round /\ g.node = n /\ g.leader = n /\ g.round = round
    BY ZenonT(40)
  <2>4. \A m \in msgs' : m.type = "DcRoundResult" => m \in msgs
    BY <2>1, Zenon DEF Post
  <2>. HIDE DEF col, o, g, Goal
  <2>5. \A p \in Node : \A c \in collectors'[p] :
            \/ \E d \in collectors[p] : d.round = c.round
            \/ p = n /\ c.round = round
    BY <1>3, <2>1, <2>2, Zenon DEF WithCollector
  <2>6. \E x : opened' = opened \cup {x} /\ x.leader = n /\ x.round = round
    BY <2>1, <2>3, Zenon
  <2>7. given' = given \/ \E x : /\ given' = given \cup {x}
                                 /\ x.node = n /\ x.leader = n /\ x.round = round
    BY <2>1, <2>3, Zenon
  <2>8. \A p \in Node : \A c \in collectors'[p] :
            \/ \E d \in collectors[p] : d.round = c.round
            \/ p = n /\ n = n /\ c.round = round
    BY <2>5, Zenon
  <2>9. opened' = opened \/ (n = n /\ \E x : /\ opened' = opened \cup {x}
                                             /\ x.leader = n
                                             /\ x.round = round)
    BY <2>6, Zenon
  <2>10. n \in Node /\ events' = events
    BY <2>1, Zenon
  <2>. QED
    BY <1>6, <2>4, <2>7, <2>8, <2>9, <2>10, Zenon
<1>9. ASSUME NEW n \in Node, NEW m \in msgs, handle_round_start(n, m)
      PROVE  Goal
  <2>. DEFINE message == dequeue_message(message_queue[n])
              share   == compute_xor_share_secure(m.round, n, m.participants,
                                                  message, edge_keys)
              g       == [node |-> n, round |-> m.round, leader |-> m.src,
                          group |-> m.participants, texts |-> message]
              answer  == [type |-> "DcRoundShare", src |-> n, dst |-> m.src,
                          round |-> m.round, share |-> share]
  <2>1. UNCHANGED <<opened, events, collectors>>
    BY <1>9, Zenon DEF handle_round_start
  <2>2. CASE mark_seen(current_round_id[n], m.round)
    <3>1. /\ m.round = current_round_id[n] + 1
          /\ given' = given \/ given' = given \cup {g}
          /\ msgs' \subseteq msgs \cup {answer}
      BY <1>9, <2>2, ZenonT(40) DEF handle_round_start, mark_seen
    <3>2. /\ answer.type = "DcRoundShare"
          /\ g.node = n /\ g.leader = m.src /\ g.round = m.round
      BY Zenon
    <3>. HIDE DEF answer, g, Goal
    <3>3. \A q \in msgs' : q.type = "DcRoundResult" => q \in msgs
      BY <3>1, <3>2, Zenon
    <3>4. m.src \in Node
      BY <1>3, ZenonT(40) DEF Message, StartMsg, ShareMsg, ResultMsg
    <3>5. given' = given \/ \E x : /\ given' = given \cup {x}
                                   /\ x.node = n /\ x.leader = m.src
                                   /\ x.round = current_round_id[n] + 1
      BY <3>1, <3>2, ZenonT(40)
    <3>. QED
      BY <1>6, <2>1, <3>3, <3>4, <3>5, Zenon
  <2>3. CASE ~mark_seen(current_round_id[n], m.round)
    <3>1. given' = given /\ msgs' \subseteq msgs
      BY <1>9, <2>3, Zenon DEF handle_round_start
    <3>. HIDE DEF Goal
    <3>. QED
      BY <1>5, <2>1, <3>1, Zenon
  <2>. QED
    BY <2>2, <2>3, Zenon
<1>10. ASSUME NEW n \in Node, NEW m \in msgs, handle_round_share(n, m)
       PROVE  Goal
  <2>0. /\ m.type = "DcRoundShare" /\ m.dst = n
        /\ UNCHANGED <<opened, given, current_round_id>>
    BY <1>10, Zenon DEF handle_round_share
  <2>1. CASE msgs' = msgs \ {m} /\ UNCHANGED <<collectors, events>>
    <3>. HIDE DEF Goal
    <3>. QED
      BY <1>5, <2>0, <2>1, Zenon
  <2>2. ASSUME NEW c \in collectors[n], c.round = m.round, Accepts(c, m.src),
               collectors' = [collectors EXCEPT ![n] =
                   WithCollector(@, submit_share(c, m.src, m.share))],
               msgs' = msgs \ {m}, events' = events
        PROVE  Goal
    <3>1. PICK full : full = submit_share(c, m.src, m.share)
      BY Zenon
    <3>2. full.round = c.round
      BY <1>0, <2>0, <2>2, <3>1, SubmitKeepsCollector, ZenonT(40)
    <3>3. \A p \in Node : \A x \in collectors'[p] :
              \E d \in collectors[p] : d.round = x.round
      BY <1>3, <2>2, <3>1, <3>2, ZenonT(40) DEF WithCollector
    <3>. HIDE DEF Goal
    <3>. QED
      BY <1>5, <2>0, <2>2, <3>3, ZenonT(40)
  <2>3. ASSUME NEW c \in collectors[n], c.round = m.round, Accepts(c, m.src),
               LET payload == extract_message(submit_share(c, m.src, m.share))
                   text    == unpad_message(payload)
               IN  /\ collectors' = [collectors EXCEPT ![n] =
                                        WithoutCollector(@, m.round)]
                   /\ msgs' = (msgs \ {m}) \cup
                          IF text = {} THEN {}
                          ELSE Post([type : {"DcRoundResult"}, src : {n},
                                     dst : c.participants,
                                     round : {m.round},
                                     payload : {payload}])
                   /\ events' = [events EXCEPT ![n] =
                          Report(@, "Extracted", m.round, text)]
        PROVE  Goal
    <3>. DEFINE full    == submit_share(c, m.src, m.share)
                payload == extract_message(full)
                text    == unpad_message(payload)
                t       == CHOOSE x \in text : TRUE
                e       == [kind |-> "Extracted", round |-> m.round, text |-> t]
    <3>1. /\ full \in Collector /\ full.round = m.round
          /\ full.participants = c.participants /\ CollectorInv(n, full)
      BY <1>0, <2>0, <2>3, SubmitKeepsCollector, Zenon
    <3>2. \A x \in text : Carried(n, c.participants, m.round, x)
      BY <1>0, <3>1, ExtractionReported, Zenon
    <3>3. m.round \in Nat /\ c.participants \in SUBSET Node /\ text \in SUBSET Text
      <4>1. c \in Collector /\ m \in ShareMsg
        BY <1>3, <2>0, Zenon DEF Message, StartMsg, ResultMsg
      <4>2. payload \in Share
        BY <3>1, <4>1, CollectorType, ZenonT(40) DEF ShareMsg
      <4>. QED
        BY <4>1, <4>2, Zenon DEF unpad_message, Share, ShareMsg, Collector
    <3>. HIDE DEF payload, Goal
    <3>4. CASE text = {}
      <4>1. msgs' \subseteq msgs /\ events' = events
        BY <1>3, <2>3, <3>4, ZenonT(40) DEF Report, payload
      <4>2. \A p \in Node : collectors'[p] \subseteq collectors[p]
        BY <1>3, <2>3, Zenon DEF WithoutCollector
      <4>. QED
        BY <1>5, <2>0, <4>1, <4>2, ZenonT(40)
    <3>5. CASE text # {}
      <4>1. t \in text /\ t \in Text
        BY <3>3, <3>5, Zenon
      <4>2. e \in Event /\ e.round = m.round
        BY <3>3, <4>1, Zenon DEF Event
      <4>3. /\ collectors' = [collectors EXCEPT ![n] = WithoutCollector(@, m.round)]
            /\ msgs' = (msgs \ {m}) \cup
                   Post([type : {"DcRoundResult"}, src : {n}, dst : c.participants,
                         round : {m.round}, payload : {payload}])
            /\ events' = [events EXCEPT ![n] = Append(@, e)]
        BY <2>3, <3>5, Zenon DEF Report, payload
      <4>4. Carried(n, c.participants, m.round, t)
        BY <3>2, <4>1, Zenon
      <4>. HIDE DEF e, t, text
      <4>5. OneLeader' /\ ResultInv' /\ \A p \in Node : ReportedOnce(p)'
        <5>1. PICK r, P, results :
                  /\ r = m.round /\ P = c.participants
                  /\ results = Post([type : {"DcRoundResult"}, src : {n}, dst : P,
                                     round : {r}, payload : {payload}])
          BY Zenon
        <5>2. \A p \in P : Takes(p, n, r)
          BY <4>4, <5>1, Zenon DEF Carried, GivenTo, Takes
        <5>3. /\ \A q \in results :
                     /\ q.type = "DcRoundResult" /\ q.src = n /\ q.round = r
                     /\ q.dst # n /\ Takes(q.dst, n, r)
              /\ \A q, w \in results : q.dst = w.dst => q = w
          <6>1. results = Outcome(n, r, P, payload)
            BY <5>1, Zenon DEF Outcome
          <6>2. EachOne(results, n, r)
            BY <5>2, <6>1, PostedResults, Zenon
          <6>. QED
            BY <6>2, Zenon DEF EachOne
        <5>4. msgs' \subseteq msgs \cup results
          BY <4>3, <5>1, Zenon
        <5>5. /\ r \in Nat /\ \E d \in collectors[n] : d.round = r
              /\ collectors' = [collectors EXCEPT ![n] = WithoutCollector(@, r)]
              /\ e \in Event /\ e.round = r
              /\ events' = [events EXCEPT ![n] = Append(@, e)]
          BY <2>3, <3>3, <4>2, <4>3, <5>1, ZenonT(40)
        <5>6. Closes(n, r, results, e)
          BY <2>0, <5>3, <5>4, <5>5, Zenon DEF Closes
        <5>. QED
          BY <5>5, <5>6, ClosingStep, Zenon
      <4>. QED
        BY <4>5, Zenon DEF Goal
    <3>. QED
      BY <3>4, <3>5, Zenon
  <2>. HIDE DEF Goal
  <2>. QED
    BY <1>10, <2>1, <2>2, <2>3, Zenon DEF handle_round_share
<1>11. ASSUME NEW n \in Node, NEW m \in msgs, handle_round_result(n, m)
       PROVE  Goal
  <2>. DEFINE text == unpad_message(m.payload)
              t    == CHOOSE x \in text : TRUE
              e    == [kind |-> "Received", round |-> m.round, text |-> t]
  <2>1. /\ m.type = "DcRoundResult" /\ m.dst = n
        /\ UNCHANGED <<opened, given, collectors>>
        /\ msgs' = msgs \ {m}
        /\ events' = [events EXCEPT ![n] = Report(@, "Received", m.round, text)]
    BY <1>11, Zenon DEF handle_round_result
  <2>2. m \in ResultMsg
    BY <1>3, <2>1, ZenonT(40) DEF Message, StartMsg, ShareMsg
  <2>3. m.round \in Nat /\ m.src \in Node /\ text \in SUBSET Text
    BY <2>2, Zenon DEF ResultMsg, unpad_message, Share
  <2>. HIDE DEF Goal
  <2>4. CASE text = {}
    <3>1. events' = events
      BY <1>3, <2>1, <2>4, Zenon DEF Report
    <3>. QED
      BY <1>5, <2>1, <3>1, Zenon
  <2>5. CASE text # {}
    <3>1. t \in Text
      BY <2>3, <2>5, Zenon
    <3>2. e \in Event /\ e.round = m.round
      BY <2>3, <3>1, ZenonT(40) DEF Event
    <3>3. events' = [events EXCEPT ![n] = Append(@, e)]
      BY <2>1, <2>5, Zenon DEF Report
    <3>. HIDE DEF e
    <3>4. ResultFor(m, n, m.src, m.round)
      BY <2>1, Zenon DEF ResultFor
    <3>5. OneLeader' /\ ResultInv' /\ \A p \in Node : ReportedOnce(p)'
      <4>1. Reads(n, m.round, m, e)
        BY <1>4, <2>1, <3>2, <3>3, Zenon DEF Reads
      <4>. QED
        BY <2>3, <3>2, <3>4, <4>1, ReadingStep, Zenon
    <3>. QED
      BY <3>5, Zenon DEF Goal
  <2>. QED
    BY <2>4, <2>5, Zenon
<1>12. ASSUME NEW n \in Node, NEW c \in collectors[n], Expire(n, c)
       PROVE  Goal
  <2>1. PICK k : k = [c EXCEPT !.expired = TRUE]
    BY Zenon
  <2>2. k.round = c.round
    BY <1>3, <2>1, ExpiredType, Zenon
  <2>3. /\ UNCHANGED <<opened, given, events, msgs>>
        /\ collectors' = [collectors EXCEPT ![n] = WithCollector(@, k)]
    BY <1>12, <2>1, Zenon DEF Expire
  <2>4. \A p \in Node : \A x \in collectors'[p] :
            \E d \in collectors[p] : d.round = x.round
    BY <1>3, <2>2, <2>3, Zenon DEF WithCollector
  <2>. HIDE DEF Goal
  <2>. QED
    BY <1>5, <2>3, <2>4, Zenon
<1>13. ASSUME NEW m \in msgs, Lose(m)
       PROVE  Goal
  <2>1. UNCHANGED <<opened, given, events, collectors>> /\ msgs' \subseteq msgs
    BY <1>13, Zenon DEF Lose, engineVars
  <2>2. m.src \in Node
    BY <1>3, Zenon DEF Message, StartMsg, ShareMsg, ResultMsg
  <2>. HIDE DEF Goal
  <2>. QED
    BY <1>5, <2>1, <2>2, Zenon
<1>14. ASSUME UNCHANGED vars
       PROVE  Goal
  <2>1. UNCHANGED <<current_round_id, collectors, msgs, events, opened, given>>
    BY <1>14, Zenon DEF vars, engineVars
  <2>2. OneLeader'
    BY <1>0, <2>1 DEF OneLeader, Takes
  <2>3. ResultInv'
    BY <1>0, <2>1 DEF ResultInv, ResultFor, Takes
  <2>4. \A p \in Node : ReportedOnce(p)'
    <3>1. \A p, k, s : (Takes(p, k, s)' <=> Takes(p, k, s))
      BY <2>1, Zenon DEF Takes
    <3>2. \A p, k, s : (Outstanding(p, k, s)' <=> Outstanding(p, k, s))
      BY <2>1, Zenon DEF Outstanding, ResultFor
    <3>. QED
      BY <1>0, <2>1, <3>1, <3>2, Zenon DEF ReportedOnce
  <2>. QED
    BY <2>2, <2>3, <2>4, Zenon
<1>15. Goal
  <2>. HIDE DEF Goal
  <2>. QED
    BY <1>7, <1>8, <1>9, <1>10, <1>11, <1>12, <1>13, <1>14, Zenon DEF Next, Deliver
<1>. QED
  BY <1>1, <1>2, <1>15, Zenon DEF OnceInv

\* No node reports a text more often than texts like it were queued, whoever
\* leads, whatever is lost, late or overtaken: every report of the text is of
\* another round, every such round has another contribution with it, and a
\* node's contribution with it is the one its queueing led to.
THEOREM AtMostOnceCorrect == Spec => []AtMostOncePerQueueing
<1>1. Init => OnceInv
  <2>. SUFFICES ASSUME Init PROVE OnceInv
    BY Zenon
  <2>2. Inv
    BY InvInit, Zenon
  <2>3. \A t \in Text : {q \in Node : t \in queued[q]} = {}
    BY Zenon DEF Init
  <2>4. \A t \in Text : IsFiniteSet({q \in Node : t \in queued[q]})
    BY <2>3, FS_EmptySet, ZenonT(40)
  <2>5. \A n \in Node : Len(message_queue[n]) = 0
    BY Zenon DEF Init
  <2>6. given = {}
    BY Zenon DEF Init
  <2>7. TextInv
    <3>1. \A n \in Node : 1..Len(message_queue[n]) = {}
      BY <2>5
    <3>. QED
      BY <2>4, <2>6, <3>1, Zenon DEF TextInv
  <2>8. OneLeader /\ ResultInv /\ \A n \in Node : ReportedOnce(n)
    <3>1. opened = {} /\ msgs = {} /\ \A n \in Node : events[n] = << >>
      BY Zenon DEF Init
    <3>2. \A n \in Node : DOMAIN events[n] = {}
      BY <3>1
    <3>. QED
      BY <2>6, <3>1, <3>2, Zenon DEF OneLeader, Takes, ResultInv, ReportedOnce
  <2>. QED
    BY <2>2, <2>7, <2>8, Zenon DEF OnceInv
<1>2. OnceInv => AtMostOncePerQueueing
  <2>. SUFFICES ASSUME OnceInv, NEW n \in Node, NEW t \in Text
                PROVE  Cardinality({i \in DOMAIN events[n] : events[n][i].text = t})
                           <= Cardinality({q \in Node : t \in queued[q]})
    BY Zenon DEF AtMostOncePerQueueing
  <2>. DEFINE D == {i \in DOMAIN events[n] : events[n][i].text = t}
              Q == {q \in Node : t \in queued[q]}
              By(i) == CHOOSE g \in given : g.round = events[n][i].round /\ t \in g.texts
              f == [i \in D |-> By(i).node]
  <2>2. ASSUME NEW i \in D
        PROVE  \E g \in given : g.round = events[n][i].round /\ t \in g.texts
    <3>1. PICK l \in Node, P \in Groups : Carried(l, P, events[n][i].round, t)
      <4>1. NoForgedText
        BY Zenon DEF OnceInv, Inv
      <4>2. i \in DOMAIN events[n] /\ events[n][i].text = t
        BY <2>2, Zenon
      <4>. QED
        BY <4>1, <4>2, Zenon DEF NoForgedText, Reported
    <3>. DEFINE gs == GivenTo(l, events[n][i].round)
    <3>2. Cardinality({g \in gs : t \in g.texts}) % 2 = 1
      BY <3>1, Zenon DEF Carried
    <3>3. {g \in gs : t \in g.texts} # {}
      <4>1. SUFFICES ASSUME {g \in gs : t \in g.texts} = {} PROVE FALSE
        BY Zenon
      <4>2. Cardinality({g \in gs : t \in g.texts}) = 0
        BY <4>1, FS_EmptySet, Zenon
      <4>. QED
        BY <3>2, <4>2
    <3>. QED
      BY <3>3, Zenon DEF GivenTo
  <2>3. \A i \in D : /\ By(i) \in given /\ By(i).round = events[n][i].round
                     /\ t \in By(i).texts
    BY <2>2, Zenon
  <2>4. IsFiniteSet(Q)
    BY Zenon DEF OnceInv, TextInv
  <2>5. \A g \in given : g.node \in Node /\ g.texts \subseteq queued[g.node]
    BY Zenon DEF OnceInv, Inv, TypeOK, Given, GivenInv
  <2>. HIDE DEF By
  <2>6. f \in [D -> Q]
    BY <2>3, <2>5, Zenon
  <2>7. ASSUME NEW i \in D, NEW j \in D, f[i] = f[j] PROVE i = j
    <3>1. By(i).node = By(j).node
      BY <2>7, Zenon
    <3>2. By(i) = By(j)
      BY <2>3, <3>1, ZenonT(40) DEF OnceInv, TextInv
    <3>3. events[n][i].round = events[n][j].round
      BY <2>3, <3>2, Zenon
    <3>. QED
      BY <3>3, Zenon DEF OnceInv, ReportedOnce
  <2>8. f \in Injection(D, Q)
    BY <2>6, <2>7, Zenon DEF Injection, IsInjective
  <2>. HIDE DEF D, Q, f
  <2>9. Cardinality(D) <= Cardinality(Q)
    BY <2>4, <2>8, FS_Injection, Zenon DEF ExistsInjection
  <2>. QED
    BY <2>9, Zenon DEF D, Q
<1>. QED
  BY <1>1, <1>2, OnceStep, PTL DEF Spec
===========================================================================
