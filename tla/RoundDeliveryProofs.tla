------------------------ MODULE RoundDeliveryProofs ------------------------
(***************************************************************************)
(* Proofs about what RoundDriver delivers, when the members agree on the    *)
(* participant list: the lowest uid wins a round, everybody extracts the    *)
(* same text, and no text is delivered more often than it was sent.         *)
(*                                                                          *)
(* Right is a set of driver states that is closed under the updates a call  *)
(* is made of, for the shares and announcements made before the call; the   *)
(* invariant RightInv says that every driver is in its set between calls.   *)
(***************************************************************************)
EXTENDS RoundDriverProofs

---------------------------------------------------------------------------
(***************************************************************************)
(* What a round is worth, when the members agree on the participant list.   *)
(* T is the set of the shares sent, B the starts announced, I the drafts    *)
(* handed in.                                                               *)
(***************************************************************************)
Group == CHOOSE g \in Groups : TRUE

OneGroup == Groups = {Group}

RoundOf(r, T) == {s \in T : s.round = r}

AllSent(r, T) == \A p \in Group : \E s \in T : s.node = p /\ s.round = r

\* What a collector with all the shares of a round has received.
EntriesOf(R) == {[from |-> s.node, share |-> s.share] : s \in R}

Success(R) ==
    unpad_message([masks |-> MasksLeft(EntriesOf(R)),
                   texts |-> TextsLeft(EntriesOf(R))]) # {}

\* A round of node n for text t got through.
Done(n, t, T) ==
    \E s \in T : /\ s.node = n /\ s.share.texts = {t}
                 /\ Success(RoundOf(s.round, T))

OneShare(T) == \A s, u \in T : s.node = u.node /\ s.round = u.round => s = u

\* A share comes from a member, and is neutral or for a text announced.
Meant(s, B) ==
    /\ s.node \in Group
    /\ \/ s.share.texts = {}
       \/ \E a \in B : a.node = s.node /\ a.round = s.round /\ s.share.texts = {a.text}

\* Whoever sends a neutral share in a round it announced gave way.
GaveWay(T, B) ==
    \A a \in B : \A s \in T :
        s.node = a.node /\ s.round = a.round /\ s.share.texts = {}
            => \E b \in B : b.round = a.round /\ b.node < a.node

\* A message share is sent last, and is the only one of its round.
SentLast(T) == \A s \in T : s.share.texts # {} => AllSent(s.round, T)

OneMessage(T) ==
    \A s, u \in T : s.round = u.round /\ s.share.texts # {} /\ u.share.texts # {} => s = u

\* No text of a node gets through twice.
OneSuccess(T) ==
    \A s, u \in T :
        /\ s.node = u.node /\ s.share.texts = u.share.texts /\ s.share.texts # {}
        /\ Success(RoundOf(s.round, T)) /\ Success(RoundOf(u.round, T))
        => s = u

History(T, B, I) ==
    /\ OneShare(T)
    /\ \A s \in T : Meant(s, B)
    /\ SentLast(T) /\ OneMessage(T) /\ OneSuccess(T)
    /\ GaveWay(T, B)
    /\ \A a \in B : a.node \in Group /\ <<a.node, a.text>> \in I

\* A round everybody has sent for does not change.
LEMMA RoundStable ==
    ASSUME NEW T, NEW U, T \subseteq U, OneShare(U), \A s \in U : s.node \in Group,
           NEW r, AllSent(r, T)
    PROVE  RoundOf(r, U) = RoundOf(r, T)
<1>1. ASSUME NEW s \in U, s.round = r PROVE s \in T
  <2>1. PICK u \in T : u.node = s.node /\ u.round = r
    BY <1>1, Zenon DEF AllSent
  <2> QED BY <1>1, <2>1, Zenon DEF OneShare
<1> QED BY <1>1, Zenon DEF RoundOf

\* What got through stays through, and the rest does not get through later
\* without a share of its own.
LEMMA DoneStable ==
    ASSUME NEW T, NEW U, T \subseteq U, OneShare(U), \A s \in U : s.node \in Group,
           SentLast(T), NEW n, NEW t,
           \A s \in U : s.node = n /\ s.share.texts = {t} => s \in T
    PROVE  Done(n, t, U) <=> Done(n, t, T)
<1>1. ASSUME NEW s \in T, s.share.texts = {t}
      PROVE  RoundOf(s.round, U) = RoundOf(s.round, T)
  <2>1. AllSent(s.round, T)
    BY <1>1, Zenon DEF SentLast
  <2> QED BY <2>1, RoundStable, Zenon
<1>2. Done(n, t, U) => Done(n, t, T)
  BY <1>1, Zenon DEF Done
<1>3. Done(n, t, T) => Done(n, t, U)
  BY <1>1, Zenon DEF Done
<1> QED BY <1>2, <1>3, Zenon

\* A start is announced for a round its node has sent nothing in.
LEMMA HistoryAnnounced ==
    ASSUME NEW T, NEW B, NEW I, History(T, B, I), NEW a, a.node \in Group,
           <<a.node, a.text>> \in I,
           \A s \in T : s.node = a.node => s.round # a.round
    PROVE  History(T, B \cup {a}, I)
<1>1. \A s \in T : Meant(s, B \cup {a})
  BY Zenon DEF History, Meant
<1>2. GaveWay(T, B \cup {a})
  BY Zenon DEF History, GaveWay
<1> QED BY <1>1, <1>2, Zenon DEF History

\* A neutral share is sent, in a round of its own or in one given up.
LEMMA HistoryNeutral ==
    ASSUME NEW T, NEW B, NEW I, History(T, B, I), NEW x, x.node \in Group,
           x.share.texts = {},
           \A s \in T : s.node = x.node => s.round # x.round,
           \A a \in B : a.node = x.node /\ a.round = x.round
               => \E b \in B : b.round = a.round /\ b.node < a.node
    PROVE  History(T \cup {x}, B, I)
<1> DEFINE U == T \cup {x}
<1>1. OneShare(U)
  BY Zenon DEF History, OneShare
<1>2. \A s \in U : Meant(s, B)
  BY Zenon DEF History, Meant
<1>3. SentLast(U)
  BY DEF History, SentLast, AllSent
<1>4. OneMessage(U)
  BY Zenon DEF History, OneMessage
<1>5. GaveWay(U, B)
  BY Zenon DEF History, GaveWay
<1>6. OneSuccess(U)
  <2>1. ASSUME NEW s \in U, s.share.texts # {}
        PROVE  s \in T /\ RoundOf(s.round, U) = RoundOf(s.round, T)
    <3>1. s \in T
      BY <2>1, Zenon
    <3>2. AllSent(s.round, T)
      BY <2>1, <3>1, Zenon DEF History, SentLast
    <3>3. \A u \in U : u.node \in Group
      BY <1>2, Zenon DEF Meant
    <3> QED BY <1>1, <3>1, <3>2, <3>3, RoundStable, Zenon
  <2> HIDE DEF U
  <2> QED BY <2>1, Zenon DEF History, OneSuccess
<1> QED BY <1>1, <1>2, <1>3, <1>4, <1>5, <1>6, Zenon DEF History

\* A message share is sent after everybody else's.
LEMMA HistoryMessage ==
    ASSUME NEW T, NEW B, NEW I, History(T, B, I), NEW x, x.node \in Group,
           NEW a \in B, a.node = x.node, a.round = x.round, x.share.texts = {a.text},
           \A s \in T : s.node = x.node => s.round # x.round,
           \A p \in Group \ {x.node} : \E s \in T : s.node = p /\ s.round = x.round,
           ~Done(x.node, a.text, T)
    PROVE  History(T \cup {x}, B, I)
<1> DEFINE U == T \cup {x}
<1>1. OneShare(U)
  BY Zenon DEF History, OneShare
<1>2. \A s \in U : Meant(s, B)
  BY Zenon DEF History, Meant
<1>3. SentLast(U)
  <2>1. AllSent(x.round, U)
    BY Zenon DEF AllSent
  <2> QED BY <2>1 DEF History, SentLast, AllSent
<1>4. ASSUME NEW s \in T, s.share.texts # {}
      PROVE  s.round # x.round /\ RoundOf(s.round, U) = RoundOf(s.round, T)
  <2>1. AllSent(s.round, T)
    BY <1>4, Zenon DEF History, SentLast
  <2>2. \A u \in U : u.node \in Group
    BY <1>2, Zenon DEF Meant
  <2>3. s.round # x.round
    BY <2>1 DEF AllSent
  <2> QED BY <1>1, <2>1, <2>2, <2>3, RoundStable
<1>5. OneMessage(U)
  BY <1>4, Zenon DEF History, OneMessage
<1>6. GaveWay(U, B)
  BY Zenon DEF History, GaveWay
<1>7. OneSuccess(U)
  <2>1. ASSUME NEW s \in T, s.node = x.node, s.share.texts = {a.text}
        PROVE  ~Success(RoundOf(s.round, U))
    BY <1>4, <2>1, Zenon DEF Done
  <2> QED BY <1>4, <2>1, ZenonT(40) DEF History, OneSuccess
<1> QED BY <1>1, <1>2, <1>3, <1>5, <1>6, <1>7, ZenonT(40) DEF History

---------------------------------------------------------------------------
\* A collector that misses nobody holds the whole round.
LEMMA HeldAll ==
    ASSUME NEW T, OneShare(T), \A s \in T : s.node \in Group, NEW c, Held(c, T),
           Group \subseteq Senders(c)
    PROVE  /\ AllSent(c.round, T)
           /\ c.shares_received = EntriesOf(RoundOf(c.round, T))
<1>1. ASSUME NEW p \in Group
      PROVE  \E s \in T : /\ s.node = p /\ s.round = c.round
                          /\ [from |-> s.node, share |-> s.share] \in c.shares_received
  <2>1. PICK e \in c.shares_received : e.from = p
    BY <1>1, Zenon DEF Senders
  <2>2. PICK s \in T : s.round = c.round /\ e = [from |-> s.node, share |-> s.share]
    BY <2>1, Zenon DEF Held
  <2>3. e.from = s.node
    BY <2>2, Zenon
  <2> QED BY <2>1, <2>2, <2>3, Zenon
<1>2. AllSent(c.round, T)
  BY <1>1, Zenon DEF AllSent
<1>3. ASSUME NEW s \in T, s.round = c.round
      PROVE  [from |-> s.node, share |-> s.share] \in c.shares_received
  <2>1. PICK u \in T : /\ u.node = s.node /\ u.round = c.round
                       /\ [from |-> u.node, share |-> u.share] \in c.shares_received
    BY <1>1, <1>3, Zenon
  <2>2. u = s
    BY <1>3, <2>1, Zenon DEF OneShare
  <2> QED BY <2>1, <2>2, Zenon
<1>4. EntriesOf(RoundOf(c.round, T)) \subseteq c.shares_received
  BY <1>3, Zenon DEF EntriesOf, RoundOf
<1>5. c.shares_received \subseteq EntriesOf(RoundOf(c.round, T))
  BY Zenon DEF Held, EntriesOf, RoundOf
<1> QED BY <1>2, <1>4, <1>5, Zenon

\* is_complete counts the shares; as each is from another member, nobody is
\* missing (round_network.rs is_complete).
LEMMA CompleteMissesNobody ==
    ASSUME NEW T, OneShare(T), \A s \in T : s.node \in Group, NEW c, Held(c, T),
           Group \subseteq Node, c.participants = Group, IsFiniteSet(c.shares_received),
           is_complete(c)
    PROVE  Group \subseteq Senders(c)
<1> DEFINE E == c.shares_received
           f == [e \in E |-> e.from]
<1>1. ASSUME NEW e \in E
      PROVE  \E s \in T : /\ s.round = c.round
                          /\ e = [from |-> s.node, share |-> s.share] /\ e.from = s.node
  BY <1>1 DEF Held
<1>2. \A e \in E : e.from \in Group
  BY <1>1, Zenon
<1>3. ASSUME NEW e \in E, NEW g \in E, e.from = g.from PROVE e = g
  <2>1. PICK s \in T : /\ s.round = c.round /\ e.from = s.node
                       /\ e = [from |-> s.node, share |-> s.share]
    BY <1>1, Zenon
  <2>2. PICK u \in T : /\ u.round = c.round /\ g.from = u.node
                       /\ g = [from |-> u.node, share |-> u.share]
    BY <1>1, Zenon
  <2>3. s = u
    BY <1>3, <2>1, <2>2, Zenon DEF OneShare
  <2> QED BY <2>1, <2>2, <2>3, Zenon
<1>4. f \in Injection(E, Senders(c))
  BY <1>3, Zenon DEF Injection, IsInjective, Senders
<1>5. IsFiniteSet(Group)
  BY NodeAssumption, FS_Subset, Zenon
<1>6. Senders(c) \subseteq Group
  BY <1>2, Zenon DEF Senders
<1>7. IsFiniteSet(Senders(c)) /\ Cardinality(Senders(c)) <= Cardinality(Group)
  BY <1>5, <1>6, FS_Subset, Zenon
<1> HIDE DEF f
<1>8. Cardinality(E) <= Cardinality(Senders(c))
  BY <1>4, <1>7, FS_Injection, Zenon
<1>9. Cardinality(E) >= Cardinality(Group)
  BY Zenon DEF is_complete
<1>10. /\ Cardinality(E) \in Nat /\ Cardinality(Senders(c)) \in Nat
       /\ Cardinality(Group) \in Nat
  BY <1>5, <1>7, FS_CardinalityType, Zenon
<1>11. Cardinality(Senders(c)) = Cardinality(Group)
  BY <1>7, <1>8, <1>9, <1>10
<1> QED BY <1>5, <1>6, <1>11, FS_Subset, Zenon

\* The text extracted from a whole round is the one of a message share.
Delivers(e, T) ==
    /\ \E s \in T : s.round = e.round /\ s.share.texts = {e.text}
    /\ Success(RoundOf(e.round, T))

\* What is extracted from a collector with all the shares of its round.
LEMMA ExtractedDelivers ==
    ASSUME NEW T, NEW B, \A s \in T : Meant(s, B), NEW c, Held(c, T),
           c.shares_received = EntriesOf(RoundOf(c.round, T)),
           NEW e \in [round : {c.round}, text : unpad_message(extract_message(c))]
    PROVE  Delivers(e, T)
<1>1. e.round = c.round /\ e.text \in unpad_message(extract_message(c))
  BY Zenon
<1>2. Success(RoundOf(c.round, T))
  BY <1>1, Zenon DEF Success, extract_message
<1>3. e.text \in TextsLeft(c.shares_received)
  BY <1>1, Zenon DEF unpad_message, extract_message
<1>4. PICK g \in c.shares_received : e.text \in g.share.texts
  BY <1>3, Zenon DEF TextsLeft
<1>5. PICK s \in T : s.round = c.round /\ g = [from |-> s.node, share |-> s.share]
  BY <1>4, Zenon DEF Held
<1>6. g.share = s.share
  BY <1>5, Zenon
<1>7. s.share.texts = {e.text}
  BY <1>4, <1>6, Zenon DEF Meant
<1> QED BY <1>1, <1>2, <1>5, <1>7, Zenon DEF Delivers

---------------------------------------------------------------------------
(***************************************************************************)
(* The state of one node against the history.                               *)
(***************************************************************************)
\* Nothing is announced above the round counter.
Counted(n, current, B) == \A a \in B : a.node = n => a.round <= current

\* The share kept back is for a round announced, and its text is not through.
KeptBack(n, pending, mine, T, B) ==
    \A r \in pending, x \in mine :
        \E a \in B : /\ a.node = n /\ a.round = r /\ x.texts = {a.text}
                     /\ ~Done(n, a.text, T)

\* The queued text was handed in, and is not through.
Waits(n, message, T, I) == \A t \in message : ~Done(n, t, T) /\ <<n, t>> \in I

AllWhole(emitted, T) == \A r \in emitted : AllSent(r, T)

\* What a call extracts is new; P are the rounds delivered before.
News(extracted, emitted, T, P) ==
    /\ P \subseteq emitted
    /\ \A e \in extracted : e.round \in emitted \ P /\ Delivers(e, T)

\* What a call returns is in the history.
Posted(n, out, B) ==
    \A m \in out :
        /\ m.src = n
        /\ m.type = "DcRoundStart" => \E a \in B : a.node = n /\ a.round = m.round

Local(n, current, message, pending, cs, emitted, mine, out, extracted, T, B, I, P) ==
    /\ Counted(n, current, B) /\ KeptBack(n, pending, mine, T, B)
    /\ Waits(n, message, T, I) /\ AllHeld(cs, T) /\ AllWhole(emitted, T)
    /\ News(extracted, emitted, T, P) /\ Posted(n, out, B)

\* The drivers of node n when S and A have been sent and announced before the
\* call, the drafts of I handed in and the rounds of P delivered.
Right(n, S, A, I, P) ==
    {d \in Sound(n, S) :
        /\ History(S \cup Out(n, d.outgoing), A \cup Began(n, d.started), I)
        /\ Local(n, d.current_round_id, d.pending_message, d.pending_round_id,
                 d.collectors, d.emitted, d.my_share, d.outgoing, d.extracted,
                 S \cup Out(n, d.outgoing), A \cup Began(n, d.started), I, P)}

\* A driver is right when its fields are.
LEMMA RightBy ==
    ASSUME NEW n, NEW S, NEW A, NEW I, NEW P, NEW e \in Sound(n, S),
           NEW cur, NEW msg, NEW pend, NEW cs, NEW em, NEW sh,
           NEW out, NEW st, NEW ex, Parts(e, cur, msg, pend, cs, em, sh, out, st, ex),
           NEW T, NEW B, S \cup Out(n, out) = T, A \cup Began(n, st) = B,
           History(T, B, I), Local(n, cur, msg, pend, cs, em, sh, out, ex, T, B, I, P)
    PROVE  e \in Right(n, S, A, I, P)
BY Zenon DEF Right, Parts

\* What a right driver offers to the proofs below.
LEMMA RightFacts ==
    ASSUME NEW n \in Node, NEW S \in SUBSET SentShare, NEW A, NEW I, NEW P,
           NEW d \in Right(n, S, A, I, P)
    PROVE  /\ d \in Sound(n, S) /\ d \in Driver
           /\ History(S \cup Out(n, d.outgoing), A \cup Began(n, d.started), I)
           /\ Local(n, d.current_round_id, d.pending_message, d.pending_round_id,
                    d.collectors, d.emitted, d.my_share, d.outgoing, d.extracted,
                    S \cup Out(n, d.outgoing), A \cup Began(n, d.started), I, P)
<1>1. /\ d \in Sound(n, S)
      /\ History(S \cup Out(n, d.outgoing), A \cup Began(n, d.started), I)
      /\ Local(n, d.current_round_id, d.pending_message, d.pending_round_id,
               d.collectors, d.emitted, d.my_share, d.outgoing, d.extracted,
               S \cup Out(n, d.outgoing), A \cup Began(n, d.started), I, P)
  BY Zenon DEF Right
<1> QED BY <1>1, SoundFacts, Zenon

Announcement == [node : Node, round : Nat, text : Text]

\* Round ids announced are naturals.
LEMMA BeganType ==
    ASSUME NEW n \in Node, NEW A \in SUBSET Announcement, NEW d \in Driver
    PROVE  \A a \in A \cup Began(n, d.started) : a.round \in Nat
<1>1. d.started \subseteq [round : Nat, text : Text]
  BY Zenon DEF Driver
<1> QED BY <1>1 DEF Began, Announcement

\* Beginning a round for a text that did not get through keeps a driver right
\* (round_driver.rs:123).
LEMMA RightBegin ==
    ASSUME OneGroup, NEW n \in Node, NEW S \in SUBSET SentShare,
           NEW A \in SUBSET Announcement, NEW I, NEW P,
           NEW d \in Right(n, S, A, I, P), NEW text \in Text, NEW participants \in Groups,
           CanShare(n, participants, {text}, EdgeKey),
           ~Done(n, text, S \cup Out(n, d.outgoing)), <<n, text>> \in I
    PROVE  Begin(d, n, text, participants) \in Right(n, S, A, I, P)
<1> DEFINE r == d.current_round_id + 1
           c == NewCollector(r, participants)
           x == compute_xor_share_secure(r, n, participants, {text}, EdgeKey)
           a == [node |-> n, round |-> r, text |-> text]
           T == S \cup Out(n, d.outgoing)
           B == A \cup Began(n, d.started)
           out == d.outgoing \cup Starts(n, r, participants)
           st == d.started \cup {[round |-> r, text |-> text]}
           e == Begin(d, n, text, participants)
<1>1. /\ d \in Driver /\ d \in Sound(n, S) /\ History(T, B, I)
      /\ Local(n, d.current_round_id, d.pending_message, d.pending_round_id,
               d.collectors, d.emitted, d.my_share, d.outgoing, d.extracted, T, B, I, P)
  BY RightFacts, Zenon
<1>2. /\ d.current_round_id \in Nat /\ T \in SUBSET SentShare
      /\ Fresh(n, d.current_round_id, d.pending_round_id, T)
  BY <1>1, SoundFacts, Zenon
<1>3. participants \in SUBSET Node /\ \A b \in B : b.round \in Nat
  BY <1>1, GroupAssumption, BeganType, Zenon
<1>4. e \in Sound(n, S)
  BY <1>1, SoundBegin, Zenon
<1>5. S \cup Out(n, out) = T
  BY OutStarts
<1>6. A \cup Began(n, st) = B \cup {a}
  <2>1. Began(n, st) = Began(n, d.started) \cup {a}
    BY BeganMore, Zenon
  <2> QED BY <2>1, Zenon
<1>7. Parts(e, r, {text}, {r}, WithCollector(d.collectors, c), d.emitted, {x}, out, st,
            d.extracted)
  BY <1>1, <1>3, BeginParts, Zenon
<1>8. c.shares_received = {} /\ x.texts = {text}
  BY Zenon DEF NewCollector, compute_xor_share_secure
<1>9. History(T, B \cup {a}, I)
  <2>1. \A s \in T : s.node = n => s.round # r
    BY <1>2 DEF Fresh, SentShare
  <2>2. a.node = n /\ a.round = r /\ a.text = text /\ n \in Group
    BY Zenon DEF CanShare, OneGroup
  <2> HIDE DEF T, B, a, r
  <2> QED BY <1>1, <2>1, <2>2, HistoryAnnounced, Zenon
<1> HIDE DEF c, x, T, B, st, e
<1>10. Local(n, r, {text}, {r}, WithCollector(d.collectors, c), d.emitted, {x}, out,
             d.extracted, T, B \cup {a}, I, P)
  <2>0. a.node = n /\ a.round = r /\ a.text = text /\ ~Done(n, text, T)
    BY Zenon DEF T
  <2>1. Counted(n, r, B \cup {a})
    BY <1>1, <1>2, <1>3, <2>0 DEF Local, Counted
  <2> HIDE DEF a, r
  <2>2. KeptBack(n, {r}, {x}, T, B \cup {a})
    BY <1>8, <2>0, Zenon DEF KeptBack
  <2>3. Waits(n, {text}, T, I)
    BY <2>0, Zenon DEF Waits
  <2>4. AllHeld(WithCollector(d.collectors, c), T)
    BY <1>1, <1>8, Zenon DEF Local, AllHeld, WithCollector, Held
  <2>5. Posted(n, out, B \cup {a})
    <3>1. \A m \in Starts(n, r, participants) : m.src = n /\ m.round = r
      BY Zenon DEF Starts
    <3> QED BY <1>1, <2>0, <3>1, Zenon DEF Local, Posted
  <2> HIDE DEF out
  <2> QED BY <1>1, <2>1, <2>2, <2>3, <2>4, <2>5, Zenon DEF Local
<1> HIDE DEF out, a, r
<1> QED BY <1>4, <1>5, <1>6, <1>7, <1>9, <1>10, RightBy, Zenon DEF e

\* The end of a round, expired or complete, keeps a driver right: the message
\* is repeated only when no round of it got through (round_driver.rs:362).
LEMMA RightEndable ==
    ASSUME OneGroup, NEW n \in Node, NEW S \in SUBSET SentShare,
           NEW A \in SUBSET Announcement, NEW I, NEW P
    PROVE  Endable(Right(n, S, A, I, P), n)
<1> DEFINE K == Right(n, S, A, I, P)
           T(d) == S \cup Out(n, d.outgoing)
           B(d) == A \cup Began(n, d.started)
           L(d, cur, msg, pend, cs, sh) ==
               Local(n, cur, msg, pend, cs, d.emitted, sh, d.outgoing, d.extracted,
                     T(d), B(d), I, P)
<1>1. ASSUME NEW d \in K
      PROVE  /\ d \in Driver /\ d \in Sound(n, S) /\ History(T(d), B(d), I)
             /\ L(d, d.current_round_id, d.pending_message, d.pending_round_id,
                  d.collectors, d.my_share)
             /\ d.current_round_id \in Nat /\ d.pending_message \in SUBSET Text
             /\ \A b \in B(d) : b.round \in Nat
  <2>1. /\ d \in Driver /\ d \in Sound(n, S) /\ History(T(d), B(d), I)
        /\ L(d, d.current_round_id, d.pending_message, d.pending_round_id,
             d.collectors, d.my_share)
    BY <1>1, RightFacts, Zenon
  <2>2. d.current_round_id \in Nat /\ d.pending_message \in SUBSET Text
    BY <2>1, SoundFacts, Zenon
  <2>3. \A b \in B(d) : b.round \in Nat
    BY <2>1, BeganType, Zenon
  <2> QED BY <2>1, <2>2, <2>3, Zenon
<1>2. Endable(Sound(n, S), n)
  BY SoundEndable, Zenon
<1>3. ASSUME NEW d \in K, NEW e \in Sound(n, S), NEW cur, NEW msg, NEW pend, NEW cs,
             NEW sh, L(d, cur, msg, pend, cs, sh),
             Parts(e, cur, msg, pend, cs, d.emitted, sh, d.outgoing, d.started,
                   d.extracted)
      PROVE  e \in K
  BY <1>1, <1>3, RightBy, Zenon
<1>4. ASSUME NEW d \in K
      PROVE  /\ Skip(d) \in K /\ DropMessage(d) \in K /\ Recount(d) \in K
             /\ Forget(d) \in K /\ Waited(d) \in K
  <2>1. /\ Skip(d) \in Sound(n, S) /\ DropMessage(d) \in Sound(n, S)
        /\ Recount(d) \in Sound(n, S) /\ Forget(d) \in Sound(n, S)
        /\ Waited(d) \in Sound(n, S)
    BY <1>1, <1>2, <1>4, Zenon DEF Endable, Retriable
  <2>2. /\ L(d, d.current_round_id, d.pending_message, d.pending_round_id,
             d.collectors, d.my_share)
        /\ d \in Driver /\ d.current_round_id \in Nat /\ \A b \in B(d) : b.round \in Nat
    BY <1>1, <1>4, ZenonT(40)
  <2>3. L(d, d.current_round_id + 1, d.pending_message, d.pending_round_id,
          d.collectors, d.my_share)
    BY <2>2 DEF Local, Counted
  <2>4. L(d, d.current_round_id, {}, d.pending_round_id, d.collectors, d.my_share)
    BY <2>2, Zenon DEF Local, Waits
  <2>5. L(d, d.current_round_id, d.pending_message, {}, d.collectors, {})
    BY <2>2, Zenon DEF Local, KeptBack
  <2> HIDE DEF K, L
  <2>6. Skip(d) \in K
    BY <1>3, <1>4, <2>1, <2>2, <2>3, SmallUpdates, Zenon
  <2>7. DropMessage(d) \in K
    BY <1>3, <1>4, <2>1, <2>2, <2>4, SmallUpdates, Zenon
  <2>8. Recount(d) \in K
    BY <1>3, <1>4, <2>1, <2>2, SmallUpdates, Zenon
  <2>9. Waited(d) \in K
    BY <1>3, <1>4, <2>1, <2>2, SmallUpdates, Zenon
  <2>10. Forget(d) \in K
    BY <1>3, <1>4, <2>1, <2>2, <2>5, SmallUpdates, Zenon
  <2> QED BY <2>6, <2>7, <2>8, <2>9, <2>10, Zenon
<1>5. ASSUME NEW d \in K, NEW text \in d.pending_message, NEW participants \in Groups,
             CanShare(n, participants, {text}, EdgeKey)
      PROVE  Begin(d, n, text, participants) \in K
  <2>1. text \in Text
    BY <1>1, <1>5, Zenon
  <2>2. ~Done(n, text, T(d)) /\ <<n, text>> \in I
    BY <1>1, <1>5, Zenon DEF Local, Waits
  <2> QED BY <1>5, <2>1, <2>2, RightBegin, Zenon
<1>6. ASSUME NEW d \in K, NEW gone \in SUBSET d.collectors
      PROVE  DropCollectors(d, gone) \in K
  <2>1. DropCollectors(d, gone) \in Sound(n, S)
    BY <1>1, <1>2, <1>6, Zenon DEF Endable
  <2>2. L(d, d.current_round_id, d.pending_message, d.pending_round_id,
          d.collectors, d.my_share) /\ d \in Driver
    BY <1>1, <1>6, Zenon
  <2>3. L(d, d.current_round_id, d.pending_message, d.pending_round_id,
          d.collectors \ gone, d.my_share)
    BY <2>2, Zenon DEF Local, AllHeld
  <2> HIDE DEF K, L
  <2> QED BY <1>3, <1>6, <2>1, <2>2, <2>3, CollectorUpdates, ZenonT(40)
<1> HIDE DEF K
<1>7. K \subseteq Driver /\ \A d \in K : \A c \in d.collectors : c.participants \in Groups
  BY <1>1, <1>2, Zenon DEF Endable
<1>8. Retriable(K, n)
  BY <1>4, <1>5, <1>7, Zenon DEF Retriable
<1>9. Endable(K, n)
  BY <1>4, <1>6, <1>7, <1>8, Zenon DEF Endable
<1> QED BY <1>9, Zenon DEF K

---------------------------------------------------------------------------
\* A longer history.
Longer(T, B, I, U, C, J) ==
    /\ T \subseteq U /\ B \subseteq C /\ I \subseteq J
    /\ History(T, B, I) /\ History(U, C, J)

\* What a round delivered it also delivers in a longer history.
LEMMA DeliversStays ==
    ASSUME NEW T, NEW B, NEW I, NEW U, NEW C, NEW J, Longer(T, B, I, U, C, J),
           NEW e, Delivers(e, T)
    PROVE  Delivers(e, U)
<1>1. PICK s \in T : s.round = e.round /\ s.share.texts = {e.text}
  BY Zenon DEF Delivers
<1>2. AllSent(e.round, T)
  BY <1>1, Zenon DEF Longer, History, SentLast
<1>3. \A u \in U : u.node \in Group
  BY Zenon DEF Longer, History, Meant
<1>4. RoundOf(e.round, U) = RoundOf(e.round, T)
  BY <1>2, <1>3, RoundStable, Zenon DEF Longer, History
<1>5. s \in U
  BY <1>1, Zenon DEF Longer
<1> QED BY <1>1, <1>4, <1>5, Zenon DEF Delivers

\* What is held, complete or new stays so.
LEMMA StaysHeld ==
    ASSUME NEW T, NEW B, NEW I, NEW U, NEW C, NEW J, Longer(T, B, I, U, C, J)
    PROVE  /\ \A cs : AllHeld(cs, T) => AllHeld(cs, U)
           /\ \A em : AllWhole(em, T) => AllWhole(em, U)
           /\ \A ex, em, P : News(ex, em, T, P) => News(ex, em, U, P)
<1>1. \A cs : AllHeld(cs, T) => AllHeld(cs, U)
  BY Zenon DEF Longer, AllHeld, Held
<1>2. \A em : AllWhole(em, T) => AllWhole(em, U)
  BY ZenonT(40) DEF Longer, AllWhole, AllSent
<1>3. \A ex, em, P : News(ex, em, T, P) => News(ex, em, U, P)
  BY DeliversStays, Zenon DEF News
<1> QED BY <1>1, <1>2, <1>3, Zenon

\* A node that has not sent a message share keeps waiting.
LEMMA StaysWaiting ==
    ASSUME NEW T, NEW B, NEW I, NEW U, NEW C, NEW J, Longer(T, B, I, U, C, J),
           NEW n, \A s \in U : s.node = n /\ s.share.texts # {} => s \in T
    PROVE  /\ \A pend, sh : KeptBack(n, pend, sh, T, B) => KeptBack(n, pend, sh, U, C)
           /\ \A msg : Waits(n, msg, T, I) => Waits(n, msg, U, J)
<1>1. ASSUME NEW t PROVE Done(n, t, U) <=> Done(n, t, T)
  <2>1. \A s \in U : s.node \in Group
    BY Zenon DEF Longer, History, Meant
  <2>2. \A s \in U : s.node = n /\ s.share.texts = {t} => s \in T
    BY Zenon
  <2> QED BY <2>1, <2>2, DoneStable, Zenon DEF Longer, History
<1>2. B \subseteq C /\ I \subseteq J
  BY Zenon DEF Longer
<1>3. \A pend, sh : KeptBack(n, pend, sh, T, B) => KeptBack(n, pend, sh, U, C)
  BY <1>1, <1>2 DEF KeptBack
<1>4. \A msg : Waits(n, msg, T, I) => Waits(n, msg, U, J)
  BY <1>1, <1>2, Zenon DEF Waits
<1> QED BY <1>3, <1>4, Zenon

\* A start keeps the drivers right: a node that has announced the round itself
\* sends its neutral share to a lower uid.
LEMMA RightJoins ==
    ASSUME OneGroup, NEW n \in Node, NEW S \in SUBSET SentShare,
           NEW A, NEW I, NEW P, NEW m \in StartMsg, m.participants \in Groups,
           NEW d \in Right(n, S, A, I, P), Participate(d, n, m) \in Sound(n, S),
           Participate(d, n, m) # d =>
               /\ \A s \in S \cup Out(n, d.outgoing) : s.node = n => s.round # m.round
               /\ \A a \in A \cup Began(n, d.started) : a.node = n /\ a.round = m.round
                      => \E b \in A \cup Began(n, d.started) :
                             b.round = a.round /\ b.node < a.node
    PROVE  Participate(d, n, m) \in Right(n, S, A, I, P)
<1> DEFINE share == compute_xor_share_secure(m.round, n, m.participants, {}, EdgeKey)
           x == [node |-> n, round |-> m.round, share |-> share]
           T == S \cup Out(n, d.outgoing)
           U == T \cup {x}
           B == A \cup Began(n, d.started)
           out == d.outgoing \cup Shares(n, m.round, m.participants, share)
           c == Joined(n, m, share)
           e == Participate(d, n, m)
           cs == WithCollector(d.collectors, c)
<1>1. /\ d \in Driver /\ d \in Sound(n, S) /\ History(T, B, I)
      /\ Local(n, d.current_round_id, d.pending_message, d.pending_round_id,
               d.collectors, d.emitted, d.my_share, d.outgoing, d.extracted, T, B, I, P)
  BY RightFacts, Zenon
<1>2. CASE e = d
  BY <1>2, Zenon
<1>3. CASE e # d
  <2>1. /\ CanShare(n, m.participants, {}, EdgeKey)
        /\ Parts(e, d.current_round_id, d.pending_message, d.pending_round_id,
                 cs, d.emitted, d.my_share, out, d.started, d.extracted)
    BY <1>1, <1>3, ParticipateParts, Zenon
  <2>2. /\ m.round \in Nat /\ m.participants \in SUBSET Node /\ m.participants = Group
    BY Zenon DEF StartMsg, OneGroup
  <2>3. S \cup Out(n, out) = U
    <3>1. m.participants \ {n} # {}
      BY <2>1, <2>2, SomebodyElse, ZenonT(40)
    <3>2. Out(n, out) = Out(n, d.outgoing) \cup {x}
      BY <3>1, OutShares
    <3> QED BY <3>2, Zenon
  <2>4. /\ x.node = n /\ x.round = m.round /\ x.share = share /\ share.texts = {}
        /\ n \in Group
    BY <2>1, <2>2, ZenonT(40) DEF compute_xor_share_secure, CanShare
  <2>5. /\ c.round = m.round /\ c.shares_received = {[from |-> n, share |-> share]}
    <3>1. m.round \in Nat /\ m.participants \in SUBSET Node
      BY <2>2, Zenon
    <3>2. OnlyOwn(c, n, m.round, share)
      BY <3>1, JoinedParts, Zenon
    <3> HIDE DEF c, share
    <3> QED BY <3>2, Zenon DEF OnlyOwn
  <2>6. /\ \A s \in T : s.node = n => s.round # m.round
        /\ \A a \in B : a.node = n /\ a.round = m.round
               => \E b \in B : b.round = a.round /\ b.node < a.node
    BY <1>3, Zenon
  <2> HIDE DEF x, share, T, B, c, e
  <2>7. History(U, B, I)
    BY <1>1, <2>4, <2>6, HistoryNeutral, Zenon
  <2>8. Longer(T, B, I, U, B, I)
    BY <1>1, <2>7, Zenon DEF Longer
  <2>9. /\ KeptBack(n, d.pending_round_id, d.my_share, U, B)
        /\ Waits(n, d.pending_message, U, I)
    <3>1. \A s \in U : s.node = n /\ s.share.texts # {} => s \in T
      BY <2>4, Zenon
    <3> HIDE DEF U
    <3> QED BY <1>1, <2>8, <3>1, StaysWaiting, ZenonT(40) DEF Local
  <2>10. /\ AllHeld(d.collectors, U) /\ AllWhole(d.emitted, U)
         /\ News(d.extracted, d.emitted, U, P)
    BY <1>1, <2>8, StaysHeld, ZenonT(40) DEF Local
  <2>11. Held(c, U)
    BY <2>4, <2>5, Zenon DEF Held
  <2>12. AllHeld(cs, U)
    BY <2>10, <2>11, Zenon DEF AllHeld, WithCollector
  <2>13. Posted(n, out, B)
    <3>1. \A q \in Shares(n, m.round, m.participants, share) :
              q.src = n /\ q.type = "DcRoundShare"
      BY Zenon DEF Shares
    <3> QED BY <1>1, <3>1, ZenonT(40) DEF Local, Posted
  <2> HIDE DEF out, U, cs
  <2>14. Local(n, d.current_round_id, d.pending_message, d.pending_round_id,
               cs, d.emitted, d.my_share, out, d.extracted, U, B, I, P)
    BY <1>1, <2>9, <2>10, <2>12, <2>13, ZenonT(40) DEF Local
  <2>15. e \in Sound(n, S) /\ A \cup Began(n, d.started) = B
    BY Zenon DEF e, B
  <2>16. e \in Right(n, S, A, I, P)
    BY <2>1, <2>3, <2>7, <2>14, <2>15, RightBy, ZenonT(40)
  <2> QED BY <2>16, Zenon DEF e
<1> QED BY <1>2, <1>3, Zenon

\* Joining a peer's round, or giving way to it, keeps a driver right
\* (round_driver.rs:243, :255).
LEMMA RightJoinable ==
    ASSUME OneGroup, NEW n \in Node, NEW S \in SUBSET SentShare,
           NEW A \in SUBSET Announcement, NEW I, NEW P,
           NEW m \in StartMsg, m.participants \in Groups,
           \E a \in A : a.node = m.src /\ a.round = m.round
    PROVE  Joinable(Right(n, S, A, I, P), n, m)
<1> DEFINE K == Right(n, S, A, I, P)
<1>0. m.round \in Nat /\ Joinable(Sound(n, S), n, m)
  BY SoundJoinable, Zenon DEF StartMsg
<1>1. ASSUME NEW d \in K
      PROVE  /\ d \in Driver /\ d \in Sound(n, S)
             /\ d.current_round_id \in Nat
             /\ Collected(d.collectors) /\ Listed(d.outgoing)
             /\ Fresh(n, d.current_round_id, d.pending_round_id, S \cup Out(n, d.outgoing))
             /\ \A s \in S \cup Out(n, d.outgoing) : s.round \in Nat
             /\ \A b \in A \cup Began(n, d.started) : b.round \in Nat
             /\ History(S \cup Out(n, d.outgoing), A \cup Began(n, d.started), I)
             /\ Local(n, d.current_round_id, d.pending_message, d.pending_round_id,
                      d.collectors, d.emitted, d.my_share, d.outgoing, d.extracted,
                      S \cup Out(n, d.outgoing), A \cup Began(n, d.started), I, P)
  <2>1. /\ d \in Driver /\ d \in Sound(n, S)
        /\ History(S \cup Out(n, d.outgoing), A \cup Began(n, d.started), I)
        /\ Local(n, d.current_round_id, d.pending_message, d.pending_round_id,
                 d.collectors, d.emitted, d.my_share, d.outgoing, d.extracted,
                 S \cup Out(n, d.outgoing), A \cup Began(n, d.started), I, P)
    BY <1>1, RightFacts, ZenonT(40)
  <2>2. /\ d.current_round_id \in Nat
        /\ Collected(d.collectors) /\ Listed(d.outgoing)
        /\ Fresh(n, d.current_round_id, d.pending_round_id, S \cup Out(n, d.outgoing))
        /\ S \cup Out(n, d.outgoing) \in SUBSET SentShare
    BY <2>1, SoundFacts, ZenonT(40)
  <2>3. \A s \in S \cup Out(n, d.outgoing) : s.round \in Nat
    BY <2>2, Zenon DEF SentShare
  <2>4. \A b \in A \cup Began(n, d.started) : b.round \in Nat
    BY <2>1, BeganType, Zenon
  <2> QED BY <2>1, <2>2, <2>3, <2>4, ZenonT(40)
<1>2. ASSUME NEW d \in K, mark_seen(d.current_round_id, m.round)
      PROVE  Participate([d EXCEPT !.current_round_id = m.round], n, m) \in K
  <2> DEFINE e == [d EXCEPT !.current_round_id = m.round]
             T == S \cup Out(n, d.outgoing)
             B == A \cup Began(n, d.started)
  <2>1. e = Skip(d) /\ m.round = d.current_round_id + 1
    BY <1>2, Zenon DEF mark_seen, Skip, next_round
  <2>2. e \in K
    <3>1. Endable(K, n)
      BY RightEndable, Zenon
    <3> HIDE DEF K, e
    <3> QED BY <1>2, <2>1, <3>1, Zenon DEF Endable, Retriable
  <2>3. e.outgoing = d.outgoing /\ e.started = d.started
    BY <1>1, <1>2, Zenon DEF Driver
  <2>4. Participate(e, n, m) \in Sound(n, S)
    BY <1>0, <1>1, <1>2, Zenon DEF Joinable
  <2>5. \A s \in T : s.node = n => s.round # m.round
    <3>1. /\ d.current_round_id \in Nat
          /\ Fresh(n, d.current_round_id, d.pending_round_id, T)
          /\ \A s \in T : s.round \in Nat
      BY <1>1, <1>2, Zenon
    <3> HIDE DEF T
    <3> QED BY <2>1, <3>1 DEF Fresh
  <2>6. \A a \in B : a.node = n => a.round # m.round
    <3>1. /\ d.current_round_id \in Nat /\ Counted(n, d.current_round_id, B)
          /\ \A b \in B : b.round \in Nat
      BY <1>1, <1>2, ZenonT(40) DEF Local
    <3> HIDE DEF B
    <3> QED BY <2>1, <3>1 DEF Counted
  <2> HIDE DEF e
  <2>7. /\ \A s \in S \cup Out(n, e.outgoing) : s.node = n => s.round # m.round
        /\ \A a \in A \cup Began(n, e.started) : a.node = n => a.round # m.round
    BY <2>3, <2>5, <2>6, Zenon
  <2> HIDE DEF T, B
  <2>8. Participate(e, n, m) \in K
    BY <2>2, <2>4, <2>7, RightJoins, Zenon
  <2> QED BY <2>8, Zenon DEF e
<1>3. ASSUME NEW d \in K, d.pending_round_id = {m.round}, YieldsTo(n, m.src)
      PROVE  Participate([abort_pending_round(d) EXCEPT !.retry_after_peer = {m.round}],
                         n, m) \in K
  <2> DEFINE e == [abort_pending_round(d) EXCEPT !.retry_after_peer = {m.round}]
             T == S \cup Out(n, d.outgoing)
             B == A \cup Began(n, d.started)
             cs == {c \in d.collectors : c.round \notin d.pending_round_id}
  <2>1. Parts(e, d.current_round_id, d.pending_message, {}, cs,
              d.emitted, {}, d.outgoing, d.started, d.extracted)
    BY <1>0, <1>1, <1>3, JoiningParts, Zenon
  <2>2. Collected(cs) /\ Fresh(n, d.current_round_id, {}, T)
    BY <1>1, <1>3, FreshLess, Zenon DEF Collected
  <2>3. e.outgoing = d.outgoing /\ e.started = d.started
    BY <2>1, Zenon DEF Parts
  <2>4. Participate(e, n, m) \in Sound(n, S)
    BY <1>0, <1>1, <1>3, Zenon DEF Joinable
  <2>5. \A s \in T : s.node = n => s.round # m.round
    BY <1>1, <1>3, Zenon DEF Fresh
  <2>6. \E b \in B : b.round = m.round /\ b.node < n
    BY <1>3, Zenon DEF YieldsTo
  <2>7. KeptBack(n, {}, {}, T, B) /\ AllHeld(cs, T)
    BY <1>1, <1>3, Zenon DEF Local, KeptBack, AllHeld
  <2> HIDE DEF e, cs
  <2>8. /\ \A s \in S \cup Out(n, e.outgoing) : s.node = n => s.round # m.round
        /\ \A a \in A \cup Began(n, e.started) : a.node = n /\ a.round = m.round
               => \E b \in A \cup Began(n, e.started) :
                      b.round = a.round /\ b.node < a.node
    BY <2>3, <2>5, <2>6, Zenon
  <2>9. /\ History(T, B, I)
        /\ Local(n, d.current_round_id, d.pending_message, {}, cs, d.emitted, {},
                 d.outgoing, d.extracted, T, B, I, P)
    BY <1>1, <1>3, <2>7, ZenonT(40) DEF Local
  <2>10. e \in Sound(n, S)
    BY <1>1, <1>3, <2>1, <2>2, SoundBy, ZenonT(40)
  <2>11. e \in K
    BY <2>1, <2>9, <2>10, RightBy, ZenonT(40)
  <2> HIDE DEF T, B
  <2>12. Participate(e, n, m) \in K
    BY <2>4, <2>8, <2>11, RightJoins, Zenon
  <2> QED BY <2>12, Zenon DEF e
<1> HIDE DEF K
<1>4. Joinable(K, n, m)
  BY <1>2, <1>3, Zenon DEF Joinable
<1> QED BY <1>4, Zenon DEF K

\* What a whole round adds is new, and is what the round is worth.
LEMMA NotedNews ==
    ASSUME NEW T, NEW B, NEW I, History(T, B, I), NEW P, NEW d, NEW c, Held(c, T),
           AllSent(c.round, T), c.shares_received = EntriesOf(RoundOf(c.round, T)),
           AllWhole(d.emitted, T), News(d.extracted, d.emitted, T, P)
    PROVE  AllWhole(Emits(d, c), T) /\ News(Extracts(d, c), Emits(d, c), T, P)
<1>1. CASE ~ExtractedOk(d, c)
  BY <1>1, Zenon DEF Emits, Extracts
<1>2. CASE ExtractedOk(d, c)
  <2> DEFINE new == [round : {c.round}, text : unpad_message(extract_message(c))]
  <2>1. /\ Emits(d, c) = d.emitted \cup {c.round}
        /\ Extracts(d, c) = d.extracted \cup new
    BY <1>2, Zenon DEF Emits, Extracts
  <2>2. c.round \notin d.emitted
    BY <1>2, Zenon DEF ExtractedOk
  <2>3. \A e \in new : e.round = c.round /\ Delivers(e, T)
    BY ExtractedDelivers, ZenonT(40) DEF History
  <2> HIDE DEF new
  <2>4. AllWhole(Emits(d, c), T)
    BY <2>1, Zenon DEF AllWhole
  <2>5. News(Extracts(d, c), Emits(d, c), T, P)
    BY <2>1, <2>2, <2>3, Zenon DEF News
  <2> QED BY <2>4, <2>5, Zenon
<1> QED BY <1>1, <1>2, Zenon

\* Extracting from a complete round keeps a driver right.
LEMMA RightNoted ==
    ASSUME OneGroup, NEW n \in Node, NEW S \in SUBSET SentShare, NEW A, NEW I, NEW P,
           NEW d \in Right(n, S, A, I, P), NEW c \in d.collectors, is_complete(c),
           Noted(d, c) \in Sound(n, S)
    PROVE  Noted(d, c) \in Right(n, S, A, I, P)
<1> DEFINE T == S \cup Out(n, d.outgoing)
           B == A \cup Began(n, d.started)
           cs == WithoutCollector(d.collectors, c.round)
           e == Noted(d, c)
<1>1. /\ d \in Driver /\ d \in Sound(n, S) /\ History(T, B, I)
      /\ Local(n, d.current_round_id, d.pending_message, d.pending_round_id,
               d.collectors, d.emitted, d.my_share, d.outgoing, d.extracted, T, B, I, P)
  BY RightFacts, Zenon
<1>2. c \in Collector /\ IsFiniteSet(c.shares_received) /\ c.participants = Group
  <2>1. c \in Collector
    BY <1>1, Zenon DEF Driver
  <2>2. Collected(d.collectors)
    BY <1>1, SoundFacts, Zenon
  <2> QED BY <2>1, <2>2, Zenon DEF Collected, OneGroup
<1>3. Group \subseteq Node
  BY GroupAssumption, Zenon DEF OneGroup
<1>4. Parts(e, d.current_round_id, d.pending_message, d.pending_round_id, cs,
            Emits(d, c), d.my_share, d.outgoing, d.started, Extracts(d, c))
  BY <1>1, <1>2, NotedParts, ZenonT(40)
<1> HIDE DEF T, B, e
<1>5. Held(c, T) /\ OneShare(T) /\ \A s \in T : s.node \in Group
  BY <1>1, ZenonT(40) DEF Local, AllHeld, History, Meant
<1>6. Group \subseteq Senders(c)
  BY <1>2, <1>3, <1>5, CompleteMissesNobody, ZenonT(40)
<1>7. AllSent(c.round, T) /\ c.shares_received = EntriesOf(RoundOf(c.round, T))
  BY <1>5, <1>6, HeldAll, Zenon
<1>8. AllWhole(d.emitted, T) /\ News(d.extracted, d.emitted, T, P)
  BY <1>1, ZenonT(40) DEF Local
<1>9. AllWhole(Emits(d, c), T) /\ News(Extracts(d, c), Emits(d, c), T, P)
  BY <1>1, <1>5, <1>7, <1>8, NotedNews, ZenonT(40)
<1>10. AllHeld(cs, T)
  BY <1>1, ZenonT(40) DEF Local, AllHeld, WithoutCollector
<1> HIDE DEF cs
<1>11. Local(n, d.current_round_id, d.pending_message, d.pending_round_id, cs,
             Emits(d, c), d.my_share, d.outgoing, Extracts(d, c), T, B, I, P)
  BY <1>1, <1>9, <1>10, ZenonT(40) DEF Local
<1>12. e \in Sound(n, S) /\ S \cup Out(n, d.outgoing) = T /\ A \cup Began(n, d.started) = B
  BY Zenon DEF e, T, B
<1>13. e \in Right(n, S, A, I, P)
  BY <1>1, <1>4, <1>11, <1>12, RightBy, ZenonT(40)
<1> QED BY <1>13, Zenon DEF e

\* Putting such a collector back keeps a driver right.
LEMMA RightStored ==
    ASSUME OneGroup, NEW n \in Node, NEW S \in SUBSET SentShare, NEW A, NEW I, NEW P,
           NEW d \in Right(n, S, A, I, P), NEW x \in Collector,
           Held(x, S \cup Out(n, d.outgoing)), Store(d, x) \in Sound(n, S)
    PROVE  Store(d, x) \in Right(n, S, A, I, P)
<1> DEFINE T == S \cup Out(n, d.outgoing)
           B == A \cup Began(n, d.started)
           cs == WithCollector(d.collectors, x)
           e == Store(d, x)
<1>1. /\ d \in Driver /\ History(T, B, I)
      /\ Local(n, d.current_round_id, d.pending_message, d.pending_round_id,
               d.collectors, d.emitted, d.my_share, d.outgoing, d.extracted, T, B, I, P)
  BY RightFacts, Zenon
<1>2. Parts(e, d.current_round_id, d.pending_message, d.pending_round_id, cs,
            d.emitted, d.my_share, d.outgoing, d.started, d.extracted)
  BY <1>1, CollectorUpdates, Zenon
<1>3. Held(x, T) /\ e \in Sound(n, S)
  BY Zenon
<1> HIDE DEF e
<1>4. AllHeld(cs, T)
  BY <1>1, <1>3, ZenonT(40) DEF Local, AllHeld, WithCollector
<1> HIDE DEF cs
<1>5. Local(n, d.current_round_id, d.pending_message, d.pending_round_id, cs,
            d.emitted, d.my_share, d.outgoing, d.extracted, T, B, I, P)
  BY <1>1, <1>4, Zenon DEF Local
<1>6. e \in Right(n, S, A, I, P)
  BY <1>1, <1>2, <1>3, <1>5, RightBy, ZenonT(40)
<1> QED BY <1>6, Zenon DEF e

\* Our message share completes our round: either its text is through and is
\* dropped, or it is not and may be repeated.
LEMMA RightFinished ==
    ASSUME OneGroup, NEW n \in Node, NEW S \in SUBSET SentShare, NEW A, NEW I, NEW P,
           NEW d \in Right(n, S, A, I, P), NEW x \in Collector,
           Held(x, S \cup Out(n, d.outgoing)), x.participants = Group,
           NEW mine \in d.my_share, d.pending_round_id = {x.round},
           missing_participants(x) = {n}, x.participants \ {n} # {},
           Finished(d, n, x, mine) \in Sound(n, S)
    PROVE  Finished(d, n, x, mine) \in Right(n, S, A, I, P)
<1> DEFINE T == S \cup Out(n, d.outgoing)
           B == A \cup Began(n, d.started)
           new == [node |-> n, round |-> x.round, share |-> mine]
           U == T \cup {new}
           full == submit_share(x, n, mine)
           ok == ExtractedOk(d, full)
           out == d.outgoing \cup Shares(n, x.round, x.participants, mine)
           cs == WithoutCollector(d.collectors, x.round)
           msg == IF ok THEN {} ELSE d.pending_message
           e == Finished(d, n, x, mine)
<1>1. /\ d \in Driver /\ d \in Sound(n, S) /\ History(T, B, I)
      /\ Local(n, d.current_round_id, d.pending_message, d.pending_round_id,
               d.collectors, d.emitted, d.my_share, d.outgoing, d.extracted, T, B, I, P)
  BY RightFacts, ZenonT(40)
<1>2. mine \in Share /\ Fresh(n, d.current_round_id, d.pending_round_id, T)
  <2>1. d.my_share \in SUBSET Share
    BY <1>1, ZenonT(40) DEF Driver
  <2> QED BY <1>1, <2>1, SoundFacts, ZenonT(40)
<1>3. Parts(e, d.current_round_id, msg, {}, cs, Emits(d, full), {}, out, d.started,
            Extracts(d, full))
  BY <1>1, <1>2, FinishedParts, ZenonT(40)
<1>4. /\ full \in Collector /\ full.round = x.round /\ full.participants = Group
      /\ Senders(full) = Senders(x) \cup {n}
      /\ full.shares_received = x.shares_received \cup {[from |-> n, share |-> mine]}
  <2>1. mine \in Share
    BY <1>2, Zenon
  <2>2. OneMore(full, x, n, mine)
    BY <2>1, SubmittedParts, Zenon
  <2> HIDE DEF full
  <2> QED BY <2>2, Zenon DEF OneMore
<1>5. new.node = n /\ new.round = x.round /\ new.share = mine
  BY Zenon
<1>6. S \cup Out(n, out) = U
  <2>1. Out(n, out) = Out(n, d.outgoing) \cup {new}
    BY OutShares
  <2> QED BY <2>1, ZenonT(40)
<1>7. Held(x, T) /\ e \in Sound(n, S) /\ A \cup Began(n, d.started) = B
  BY Zenon
<1> HIDE DEF T, B, new, full, e
<1>8. n \in Group /\ Group \subseteq Senders(full)
  BY <1>4, Zenon DEF missing_participants
<1>9. \A s \in T : s.node = n => s.round # x.round
  BY <1>2, Zenon DEF Fresh
<1>10. PICK a \in B : /\ a.node = n /\ a.round = x.round /\ mine.texts = {a.text}
                      /\ ~Done(n, a.text, T)
  <2>1. KeptBack(n, {x.round}, d.my_share, T, B)
    BY <1>1, Zenon DEF Local
  <2> QED BY <2>1, Zenon DEF KeptBack
<1>11. \A p \in Group \ {n} : \E s \in T : s.node = p /\ s.round = x.round
  <2> SUFFICES ASSUME NEW p \in Group \ {n}
               PROVE  \E s \in T : s.node = p /\ s.round = x.round
    BY Zenon
  <2>1. PICK g \in x.shares_received : g.from = p
    BY Zenon DEF missing_participants, Senders
  <2>2. PICK s \in T : s.round = x.round /\ g = [from |-> s.node, share |-> s.share]
    BY <1>7, <2>1, ZenonT(40) DEF Held
  <2>3. g.from = s.node
    BY <2>2, Zenon
  <2> QED BY <2>1, <2>2, <2>3, Zenon
<1>12. History(U, B, I)
  <2>1. /\ new.node \in Group /\ a.node = new.node /\ a.round = new.round
        /\ new.share.texts = {a.text} /\ ~Done(new.node, a.text, T)
    BY <1>5, <1>8, <1>10, Zenon
  <2>2. /\ \A s \in T : s.node = new.node => s.round # new.round
        /\ \A p \in Group \ {new.node} : \E s \in T : s.node = p /\ s.round = new.round
    BY <1>5, <1>9, <1>11, Zenon
  <2> QED BY <1>1, <1>10, <2>1, <2>2, HistoryMessage, ZenonT(40)
<1>13. Longer(T, B, I, U, B, I)
  BY <1>1, <1>12, Zenon DEF Longer
<1>14. Held(full, U)
  <2>1. Held(x, U)
    BY <1>7, Zenon DEF Held
  <2>2. new \in U
    BY Zenon
  <2> QED BY <1>5, <2>1, <2>2, HeldMore, Zenon DEF full
<1>15. AllSent(x.round, U) /\ full.shares_received = EntriesOf(RoundOf(x.round, U))
  <2>1. OneShare(U) /\ \A s \in U : s.node \in Group
    BY <1>12, ZenonT(40) DEF History, Meant
  <2> HIDE DEF U
  <2> QED BY <1>4, <1>8, <1>14, <2>1, HeldAll, Zenon
<1> HIDE DEF U
<1>16. /\ AllHeld(d.collectors, U) /\ AllWhole(d.emitted, U)
       /\ News(d.extracted, d.emitted, U, P)
  BY <1>1, <1>13, StaysHeld, ZenonT(40) DEF Local
<1>17. AllWhole(Emits(d, full), U) /\ News(Extracts(d, full), Emits(d, full), U, P)
  BY <1>4, <1>12, <1>14, <1>15, <1>16, NotedNews, ZenonT(40)
<1>18. Waits(n, msg, U, I)
  <2> SUFFICES ASSUME ~ok, NEW t \in d.pending_message
               PROVE  ~Done(n, t, U) /\ <<n, t>> \in I
    BY Zenon DEF Waits
  <2>1. ~Done(n, t, T) /\ <<n, t>> \in I
    BY <1>1, ZenonT(40) DEF Local, Waits
  <2>2. x.round \notin d.emitted
    BY <1>1, <1>8, <1>9, ZenonT(40) DEF Local, AllWhole, AllSent
  <2>3. ~Success(RoundOf(x.round, U))
    BY <1>4, <1>15, <2>2, ZenonT(40) DEF ExtractedOk, Success, extract_message
  <2>4. ASSUME NEW s \in T, s.share.texts = {t}
        PROVE  RoundOf(s.round, U) = RoundOf(s.round, T)
    <3>1. AllSent(s.round, T)
      BY <1>1, <2>4, ZenonT(40) DEF History, SentLast
    <3>2. OneShare(U) /\ T \subseteq U /\ \A u \in U : u.node \in Group
      BY <1>13, ZenonT(40) DEF Longer, History, Meant
    <3> QED BY <3>1, <3>2, RoundStable, Zenon
  <2>5. ~Done(n, t, U)
    BY <1>5, <2>1, <2>3, <2>4, ZenonT(40) DEF Done, U
  <2> QED BY <2>1, <2>5, ZenonT(40)
<1>19. AllHeld(cs, U)
  BY <1>16, ZenonT(40) DEF AllHeld, WithoutCollector
<1>20. Posted(n, out, B)
  <2>1. \A q \in Shares(n, x.round, x.participants, mine) :
            q.src = n /\ q.type = "DcRoundShare"
    BY Zenon DEF Shares
  <2> QED BY <1>1, <2>1, ZenonT(40) DEF Local, Posted
<1>21. KeptBack(n, {}, {}, U, B)
  BY Zenon DEF KeptBack
<1> HIDE DEF msg, cs, out
<1>22. Local(n, d.current_round_id, msg, {}, cs, Emits(d, full), {}, out,
             Extracts(d, full), U, B, I, P)
  BY <1>1, <1>17, <1>18, <1>19, <1>20, <1>21, ZenonT(40) DEF Local
<1>23. e \in Right(n, S, A, I, P)
  BY <1>3, <1>6, <1>7, <1>12, <1>22, RightBy, ZenonT(40)
<1> QED BY <1>23, Zenon DEF e

\* Taking in a share keeps a driver right, also when the share kept back for
\* the round goes out with it (round_driver.rs:287, :327).
LEMMA RightSharable ==
    ASSUME OneGroup, NEW n \in Node, NEW S \in SUBSET SentShare,
           NEW A \in SUBSET Announcement, NEW I, NEW P, NEW m \in ShareMsg,
           NEW s \in S, s.node = m.src, s.round = m.round, s.share = m.share
    PROVE  Sharable(Right(n, S, A, I, P), n, m)
<1> DEFINE K == Right(n, S, A, I, P)
<1>1. Sharable(Sound(n, S), n, m)
  BY SoundSharable, Zenon
<1>2. Endable(K, n)
  BY RightEndable, Zenon
<1>3. ASSUME NEW d \in K
      PROVE  /\ d \in Sound(n, S) /\ d \in Driver /\ d.collectors \subseteq Collector
             /\ AllHeld(d.collectors, S \cup Out(n, d.outgoing))
             /\ \A c \in d.collectors : c.participants = Group
  <2>1. /\ d \in Sound(n, S) /\ d \in Driver
        /\ AllHeld(d.collectors, S \cup Out(n, d.outgoing))
    BY <1>3, RightFacts, ZenonT(40) DEF Local
  <2>2. \A c \in d.collectors : c.participants = Group
    BY <2>1, SoundFacts, ZenonT(40) DEF Collected, OneGroup
  <2>3. d.collectors \subseteq Collector
    BY <2>1, Zenon DEF Driver
  <2> QED BY <2>1, <2>2, <2>3, Zenon
<1>4. ASSUME NEW d \in K, NEW c \in d.collectors
      PROVE  /\ IsFiniteSet(c.shares_received) /\ IsFiniteSet(c.participants)
             /\ is_complete(c) => Noted(d, c) \in K
  <2>1. /\ IsFiniteSet(c.shares_received) /\ IsFiniteSet(c.participants)
        /\ is_complete(c) => Noted(d, c) \in Sound(n, S)
    BY <1>1, <1>3, <1>4, ZenonT(40) DEF Sharable
  <2> QED BY <1>4, <2>1, RightNoted, Zenon
<1>5. ASSUME NEW d \in K, NEW c \in d.collectors, c.round = m.round, Accepts(c, m.src)
      PROVE  LET x == submit_share(c, m.src, m.share) IN
             /\ x \in Collector /\ Held(x, S \cup Out(n, d.outgoing))
             /\ x.participants = Group /\ m.src \in Senders(x) /\ m.src \in Group
  <2>1. m.src \in Node /\ m.share \in Share
    BY Zenon DEF ShareMsg
  <2>2. c \in Collector /\ c.participants = Group
    BY <1>3, <1>5, ZenonT(40)
  <2>3. Held(submit_share(c, m.src, m.share), S \cup Out(n, d.outgoing))
    <3>1. Held(c, S \cup Out(n, d.outgoing))
      BY <1>3, <1>5, Zenon DEF AllHeld
    <3> QED BY <1>5, <2>2, <3>1, HeldMore, Zenon
  <2>4. m.src \in Group
    BY <1>5, <2>2, Zenon DEF Accepts
  <2>5. /\ m.src \in Senders(submit_share(c, m.src, m.share))
        /\ submit_share(c, m.src, m.share) \in Collector
        /\ submit_share(c, m.src, m.share).participants = Group
    <3>1. OneMore(submit_share(c, m.src, m.share), c, m.src, m.share)
      BY <2>1, <2>2, SubmittedParts, Zenon
    <3> QED BY <2>2, <3>1, Zenon DEF OneMore
  <2> QED BY <2>3, <2>4, <2>5, Zenon
<1>6. ASSUME NEW d \in K, NEW c \in d.collectors, c.round = m.round, Accepts(c, m.src),
             ~MineIsDue(d, n, submit_share(c, m.src, m.share))
      PROVE  Store(d, submit_share(c, m.src, m.share)) \in K
  <2> DEFINE x == submit_share(c, m.src, m.share)
  <2>1. Store(d, x) \in Sound(n, S)
    BY <1>1, <1>3, <1>6, ZenonT(40) DEF Sharable
  <2>2. x \in Collector /\ Held(x, S \cup Out(n, d.outgoing))
    BY <1>5, <1>6, ZenonT(40)
  <2> HIDE DEF x
  <2>3. Store(d, x) \in K
    BY <1>6, <2>1, <2>2, RightStored, ZenonT(40)
  <2> QED BY <2>3, Zenon DEF x
<1>7. ASSUME NEW d \in K, NEW c \in d.collectors, c.round = m.round, Accepts(c, m.src),
             MineIsDue(d, n, submit_share(c, m.src, m.share)), NEW mine \in d.my_share
      PROVE  Finished(d, n, submit_share(c, m.src, m.share), mine) \in K
  <2> DEFINE x == submit_share(c, m.src, m.share)
  <2>1. Finished(d, n, x, mine) \in Sound(n, S)
    BY <1>1, <1>3, <1>7, ZenonT(40) DEF Sharable
  <2>2. /\ x \in Collector /\ Held(x, S \cup Out(n, d.outgoing))
        /\ x.participants = Group /\ m.src \in Senders(x) /\ m.src \in Group
    BY <1>5, <1>7, ZenonT(40)
  <2>3. d.pending_round_id = {x.round} /\ missing_participants(x) = {n}
    BY <1>7, ZenonT(40) DEF MineIsDue
  <2> HIDE DEF x
  <2>4. x.participants \ {n} # {}
    BY <2>2, <2>3, Zenon DEF missing_participants
  <2>5. Finished(d, n, x, mine) \in K
    BY <1>7, <2>1, <2>2, <2>3, <2>4, RightFinished, ZenonT(40)
  <2> QED BY <2>5, ZenonT(40) DEF x
<1> HIDE DEF K
<1>8. Sharable(K, n, m)
  BY <1>2, <1>4, <1>6, <1>7, ZenonT(40) DEF Sharable
<1> QED BY <1>8, Zenon DEF K

---------------------------------------------------------------------------
RoundsOf(seq) == {seq[i].round : i \in DOMAIN seq}

\* Every round is delivered once, and for what it is worth.
Rightly(seq, T) ==
    /\ \A i \in DOMAIN seq : Delivers(seq[i], T)
    /\ \A i, j \in DOMAIN seq : seq[i].round = seq[j].round => i = j

\* What is on the way was sent.
OnTheWay(m, T, B) ==
    /\ m.type = "DcRoundStart" => \E a \in B : a.node = m.src /\ a.round = m.round
    /\ m.type = "DcRoundShare" =>
           \E s \in T : s.node = m.src /\ s.round = m.round /\ s.share = m.share

\* Local, for the driver of a node between calls.
NodeRight(n, d, T, B, I, P) ==
    Local(n, d.current_round_id, d.pending_message, d.pending_round_id, d.collectors,
          d.emitted, d.my_share, {}, {}, T, B, I, P)

\* The invariant behind LowestUidWins and NoDuplicateDelivery.
RightInv ==
    /\ SoundInv
    /\ History(sent, announced, initiated)
    /\ \A m \in msgs : OnTheWay(m, sent, announced)
    /\ \A n \in Node :
           /\ NodeRight(n, driver[n], sent, announced, initiated, RoundsOf(delivered[n]))
           /\ Rightly(delivered[n], sent)

\* Between calls the driver of every node is right.
LEMMA RightBetween ==
    ASSUME RightInv, NEW n \in Node, NEW I, initiated \subseteq I
    PROVE  /\ driver[n] \in Right(n, sent, announced, I, RoundsOf(delivered[n]))
           /\ sent \in SUBSET SentShare /\ announced \in SUBSET Announcement
<1> DEFINE d == driver[n]
           P == RoundsOf(delivered[n])
<1>1. d \in Sound(n, sent) /\ sent \in SUBSET SentShare
  BY SoundBetween, Zenon DEF RightInv
<1>2. announced \in SUBSET Announcement
  BY ZenonT(40) DEF RightInv, SoundInv, TypeOK, Announcement
<1>3. d.outgoing = {} /\ d.started = {} /\ d.extracted = {}
  BY Zenon DEF RightInv, SoundInv
<1>4. sent \cup Out(n, d.outgoing) = sent /\ announced \cup Began(n, d.started) = announced
  BY <1>3, Zenon DEF Out, Began
<1>5. History(sent, announced, I)
  BY ZenonT(40) DEF RightInv, History
<1>6. NodeRight(n, d, sent, announced, I, P)
  BY ZenonT(40) DEF RightInv, NodeRight, Local, Waits
<1> HIDE DEF d, P
<1>7. d \in Right(n, sent, announced, I, P)
  BY <1>1, <1>3, <1>4, <1>5, <1>6, ZenonT(40) DEF Right, NodeRight
<1> QED BY <1>1, <1>2, <1>7, Zenon DEF d, P

\* A call that leaves a right driver preserves the invariant RightInv.
LEMMA RightReturn ==
    ASSUME RightInv, NEW n \in Node, NEW consumed,
           NEW d \in Right(n, sent, announced, initiated', RoundsOf(delivered[n])),
           Return(n, d, consumed), initiated \subseteq initiated',
           initiated' \subseteq Drafts
    PROVE  RightInv'
<1> DEFINE back == [d EXCEPT !.outgoing = {}, !.started = {}, !.extracted = {}]
           P == RoundsOf(delivered[n])
           x == CHOOSE e \in d.extracted : TRUE
<1>0. sent \in SUBSET SentShare /\ driver \in [Node -> Driver] /\ DOMAIN delivered = Node
  BY Zenon DEF RightInv, SoundInv, TypeOK, SentShare
<1>1. /\ sent' = sent \cup Out(n, d.outgoing)
      /\ announced' = announced \cup Began(n, d.started)
      /\ driver' = [driver EXCEPT ![n] = back]
      /\ msgs' = (msgs \ consumed) \cup d.outgoing
      /\ delivered' = [delivered EXCEPT ![n] =
             IF d.extracted = {} THEN @ ELSE Append(@, x)]
  BY Zenon DEF Return, Out, Began
<1>2. /\ d \in Driver /\ d \in Sound(n, sent) /\ History(sent', announced', initiated')
      /\ Local(n, d.current_round_id, d.pending_message, d.pending_round_id,
               d.collectors, d.emitted, d.my_share, d.outgoing, d.extracted,
               sent', announced', initiated', P)
  BY <1>0, <1>1, RightFacts, Zenon
<1>3. SoundInv'
  BY <1>2, SoundReturn, Zenon DEF RightInv
<1>4. Longer(sent, announced, initiated, sent', announced', initiated')
  BY <1>1, <1>2, Zenon DEF RightInv, Longer
<1>5. /\ back.current_round_id = d.current_round_id
      /\ back.pending_message = d.pending_message
      /\ back.pending_round_id = d.pending_round_id /\ back.collectors = d.collectors
      /\ back.emitted = d.emitted /\ back.my_share = d.my_share
  BY <1>2, Zenon DEF Driver
<1> HIDE DEF back
<1>6. ASSUME NEW m \in msgs' PROVE OnTheWay(m, sent', announced')
  <2>1. CASE m \in msgs
    BY <1>1, <2>1, Zenon DEF RightInv, OnTheWay
  <2>2. CASE m \in d.outgoing
    <3>1. m.src = n /\ (m.type = "DcRoundStart" =>
              \E a \in announced' : a.node = n /\ a.round = m.round)
      BY <1>2, <2>2, ZenonT(40) DEF Local, Posted
    <3>2. ASSUME m.type = "DcRoundShare"
          PROVE  \E s \in sent' : s.node = n /\ s.round = m.round /\ s.share = m.share
      <4>1. [node |-> n, round |-> m.round, share |-> m.share] \in Out(n, d.outgoing)
        BY <2>2, <3>2, Zenon DEF Out
      <4> QED BY <1>1, <4>1
    <3> QED BY <3>1, <3>2, Zenon DEF OnTheWay
  <2> QED BY <1>1, <1>6, <2>1, <2>2, Zenon
<1>7. /\ P \subseteq d.emitted
      /\ \A e \in d.extracted : e.round \in d.emitted \ P /\ Delivers(e, sent')
  BY <1>2, ZenonT(40) DEF Local, News
<1>8. \A p \in Node : \A i \in DOMAIN delivered[p] : Delivers(delivered[p][i], sent')
  BY <1>4, DeliversStays, ZenonT(40) DEF RightInv, Rightly
<1>9. /\ Rightly(delivered'[n], sent') /\ RoundsOf(delivered'[n]) \subseteq d.emitted
  <2> DEFINE q == delivered[n]
  <2>1. /\ q \in Seq([round : Nat, text : Text])
        /\ \A i, j \in DOMAIN q : q[i].round = q[j].round => i = j
    BY ZenonT(40) DEF RightInv, Rightly, SoundInv, TypeOK
  <2>2. \A i \in DOMAIN q : Delivers(q[i], sent') /\ q[i].round \in P
    BY <1>8, ZenonT(40) DEF RoundsOf
  <2> HIDE DEF P
  <2>3. CASE d.extracted = {}
    <3>1. delivered'[n] = q
      BY <1>0, <1>1, <2>3, Zenon
    <3> HIDE DEF q
    <3> QED BY <1>7, <2>1, <2>2, <3>1, ZenonT(40) DEF Rightly, RoundsOf
  <2>4. CASE d.extracted # {}
    <3>1. delivered'[n] = Append(q, x)
      BY <1>0, <1>1, <2>4, Zenon
    <3>2. x.round \in d.emitted \ P /\ Delivers(x, sent')
      BY <1>7, <2>4, Zenon
    <3> HIDE DEF q, x
    <3>3. /\ Len(q) \in Nat /\ DOMAIN q = 1 .. Len(q)
          /\ DOMAIN Append(q, x) = 1 .. Len(q) + 1
          /\ \A i \in 1 .. Len(q) : Append(q, x)[i] = q[i]
          /\ Append(q, x)[Len(q) + 1] = x
      BY <2>1
    <3>4. \A i \in 1 .. Len(q) + 1 : i \in 1 .. Len(q) \/ i = Len(q) + 1
      BY <3>3
    <3>5. \A i \in DOMAIN Append(q, x) :
              \/ i \in DOMAIN q /\ Append(q, x)[i] = q[i]
              \/ i = Len(q) + 1 /\ Append(q, x)[i] = x
      BY <3>3, <3>4, Zenon
    <3>6. Rightly(Append(q, x), sent')
      BY <2>1, <2>2, <3>2, <3>5, Zenon DEF Rightly
    <3>7. RoundsOf(Append(q, x)) \subseteq d.emitted
      BY <1>7, <2>2, <3>2, <3>5, Zenon DEF RoundsOf
    <3> QED BY <3>1, <3>6, <3>7, Zenon
  <2> QED BY <2>3, <2>4, Zenon
<1>10. NodeRight(n, driver'[n], sent', announced', initiated', RoundsOf(delivered'[n]))
  <2>1. driver'[n] = back
    BY <1>0, <1>1, Zenon
  <2>2. News({}, d.emitted, sent', RoundsOf(delivered'[n])) /\ Posted(n, {}, announced')
    BY <1>9, ZenonT(40) DEF News, Posted
  <2>3. NodeRight(n, back, sent', announced', initiated', RoundsOf(delivered'[n]))
    BY <1>2, <1>5, <2>2, ZenonT(40) DEF Local, NodeRight
  <2> QED BY <2>1, <2>3, Zenon
<1>11. ASSUME NEW p \in Node, p # n
       PROVE  /\ NodeRight(p, driver'[p], sent', announced', initiated',
                           RoundsOf(delivered'[p]))
              /\ Rightly(delivered'[p], sent')
  <2>1. driver'[p] = driver[p] /\ delivered'[p] = delivered[p]
    BY <1>0, <1>1, <1>11, Zenon
  <2>2. /\ \A s \in sent' : s.node = p /\ s.share.texts # {} => s \in sent
        /\ \A a \in announced' : a.node = p => a \in announced
    BY <1>1, <1>11 DEF Out, Began
  <2> DEFINE b == driver[p]
             Q == RoundsOf(delivered[p])
  <2>3. NodeRight(p, b, sent, announced, initiated, Q) /\ Rightly(delivered[p], sent)
    BY ZenonT(40) DEF RightInv
  <2> HIDE DEF b, Q
  <2>4. Counted(p, b.current_round_id, announced') /\ Posted(p, {}, announced')
    BY <2>2, <2>3, ZenonT(40) DEF NodeRight, Local, Counted, Posted
  <2>5. /\ KeptBack(p, b.pending_round_id, b.my_share, sent', announced')
        /\ Waits(p, b.pending_message, sent', initiated')
    BY <1>4, <2>2, <2>3, StaysWaiting, ZenonT(40) DEF NodeRight, Local
  <2>6. /\ AllHeld(b.collectors, sent') /\ AllWhole(b.emitted, sent')
        /\ News({}, b.emitted, sent', Q)
    BY <1>4, <2>3, StaysHeld, Zenon DEF NodeRight, Local
  <2>7. NodeRight(p, b, sent', announced', initiated', Q)
    BY <2>4, <2>5, <2>6, Zenon DEF NodeRight, Local
  <2>8. Rightly(delivered[p], sent')
    BY <1>8, <2>3, Zenon DEF Rightly
  <2> QED BY <2>1, <2>7, <2>8, Zenon DEF b, Q
<1> QED BY <1>2, <1>3, <1>6, <1>9, <1>10, <1>11, ZenonT(40) DEF RightInv

\* RightInv holds initially.
LEMMA RightInit == ASSUME Init PROVE RightInv
<1>1. SoundInv
  BY SoundInit, Zenon
<1>2. History(sent, announced, initiated)
  BY ZenonT(40) DEF Init, History, OneShare, SentLast, OneMessage, OneSuccess, GaveWay
<1>3. ASSUME NEW n \in Node
      PROVE  /\ NodeRight(n, driver[n], sent, announced, initiated, RoundsOf(delivered[n]))
             /\ Rightly(delivered[n], sent)
  <2>1. /\ driver[n].pending_message = {} /\ driver[n].pending_round_id = {}
        /\ driver[n].collectors = {} /\ driver[n].emitted = {}
        /\ announced = {} /\ delivered[n] = <<>>
    BY <1>3, Zenon DEF Init, NewDriver
  <2>2. DOMAIN delivered[n] = {}
    BY <2>1
  <2>3. RoundsOf(delivered[n]) = {} /\ Rightly(delivered[n], sent)
    BY <2>2, Zenon DEF RoundsOf, Rightly
  <2>4. NodeRight(n, driver[n], sent, announced, initiated, RoundsOf(delivered[n]))
    BY <2>1, <2>3, ZenonT(40) DEF NodeRight, Local, Counted, KeptBack, Waits, AllHeld,
        AllWhole, News, Posted
  <2> QED BY <2>3, <2>4, Zenon
<1> QED BY <1>1, <1>2, <1>3, Zenon DEF RightInv, Init

\* Every step preserves RightInv, when the members agree on one list.
LEMMA RightStep == ASSUME OneGroup, RightInv, [Next]_vars PROVE RightInv'
<1>1. ASSUME NEW n \in Node, NEW text \in Text, NEW participants \in Groups,
             Initiate(n, text, participants)
      PROVE  RightInv'
  <2> DEFINE d == driver[n]
             e == initiate(d, n, text, participants)
             K == Right(n, sent, announced, initiated', RoundsOf(delivered[n]))
  <2>1. /\ initiated \subseteq initiated' /\ initiated' \subseteq Drafts
        /\ <<n, text>> \in initiated' /\ <<n, text>> \notin initiated
        /\ Return(n, e, {})
    BY <1>1, ZenonT(40) DEF Initiate, RightInv, SoundInv, TypeOK
  <2>2. d \in K /\ sent \in SUBSET SentShare /\ announced \in SUBSET Announcement
    BY <2>1, RightBetween, ZenonT(40)
  <2>3. Skip(d) \in K
    <3>1. Endable(K, n)
      BY <2>2, RightEndable, Zenon
    <3> HIDE DEF K, d
    <3> QED BY <2>2, <3>1, Zenon DEF Endable, Retriable
  <2>4. ~Done(n, text, sent \cup Out(n, d.outgoing))
    <3>1. sent \cup Out(n, d.outgoing) = sent
      BY ZenonT(40) DEF RightInv, SoundInv, Out
    <3>2. ASSUME NEW s \in sent, s.node = n, s.share.texts = {text} PROVE FALSE
      <4>1. PICK a \in announced : a.node = n /\ {text} = {a.text}
        BY <3>2, ZenonT(40) DEF RightInv, History, Meant
      <4>2. <<a.node, a.text>> \in initiated /\ a.text = text
        BY <4>1, ZenonT(40) DEF RightInv, History
      <4> QED BY <2>1, <4>1, <4>2, Zenon
    <3>3. ~Done(n, text, sent)
      BY <3>2, Zenon DEF Done
    <3> QED BY <3>1, <3>3, Zenon
  <2>5. CanShare(n, participants, {text}, EdgeKey) => Begin(d, n, text, participants) \in K
    BY <2>1, <2>2, <2>4, RightBegin, ZenonT(40)
  <2> HIDE DEF d
  <2>6. e \in K
    BY <2>2, <2>3, <2>5, InitiateCases, Zenon
  <2> HIDE DEF e
  <2> QED BY <2>1, <2>6, RightReturn, Zenon
<1>2. ASSUME NEW n \in Node, NEW m \in msgs, Handle(n, m)
      PROVE  RightInv'
  <2> DEFINE e == handle(drop_expired(driver[n], n), n, m)
             K == Right(n, sent, announced, initiated', RoundsOf(delivered[n]))
  <2>1. /\ initiated \subseteq initiated' /\ initiated' \subseteq Drafts
        /\ Return(n, e, {m})
    BY <1>2, ZenonT(40) DEF Handle, RightInv, SoundInv, TypeOK
  <2>2. driver[n] \in K /\ sent \in SUBSET SentShare /\ announced \in SUBSET Announcement
    BY <2>1, RightBetween, ZenonT(40)
  <2>3. Endable(K, n)
    BY <2>2, RightEndable, ZenonT(40)
  <2>4. \/ m \in StartMsg /\ Joinable(K, n, m)
        \/ m \in ShareMsg /\ Sharable(K, n, m)
    <3>0. OnTheWay(m, sent, announced)
      BY Zenon DEF RightInv
    <3>1. CASE m \in StartMsg
      <4>1. m.type = "DcRoundStart"
        BY <3>1, Zenon DEF StartMsg
      <4>2. m.participants \in Groups
        BY <4>1, ZenonT(40) DEF RightInv, SoundInv, Listed
      <4>3. \E a \in announced : a.node = m.src /\ a.round = m.round
        BY <3>0, <4>1, Zenon DEF OnTheWay
      <4> QED BY <2>2, <3>1, <4>2, <4>3, RightJoinable, ZenonT(40)
    <3>2. CASE m \in ShareMsg
      <4>1. m.type = "DcRoundShare"
        BY <3>2, Zenon DEF ShareMsg
      <4>2. \E s \in sent : s.node = m.src /\ s.round = m.round /\ s.share = m.share
        BY <3>0, <4>1, Zenon DEF OnTheWay
      <4> QED BY <2>2, <3>2, <4>2, RightSharable, Zenon
    <3> QED BY <3>1, <3>2, ZenonT(40) DEF RightInv, SoundInv, TypeOK
  <2> HIDE DEF K
  <2>5. e \in K
    BY <2>2, <2>3, <2>4, HandleIn, Zenon
  <2> HIDE DEF e
  <2> QED BY <2>1, <2>5, RightReturn, Zenon DEF K
<1>3. ASSUME NEW n \in Node, NEW c \in driver[n].collectors, Expire(n, c)
      PROVE  RightInv'
  <2> DEFINE x == [c EXCEPT !.expired = TRUE]
             d == driver[n]
             cs == WithCollector(d.collectors, x)
             b == [d EXCEPT !.collectors = cs]
  <2>1. SoundInv'
    BY <1>3, SoundStep, Zenon DEF RightInv, Next
  <2>2. d \in Driver /\ driver \in [Node -> Driver] /\ c \in Collector
    <3>1. d \in Driver /\ driver \in [Node -> Driver]
      BY Zenon DEF RightInv, SoundInv, TypeOK
    <3> QED BY <3>1, Zenon DEF Driver
  <2>3. x.round = c.round /\ x.shares_received = c.shares_received
    BY <2>2, Zenon DEF Collector
  <2>4. /\ driver' = [driver EXCEPT ![n] = b]
        /\ UNCHANGED <<msgs, delivered, initiated, announced, sent>>
    BY <1>3, <2>2, Zenon DEF Expire
  <2>5. NodeRight(n, d, sent, announced, initiated, RoundsOf(delivered[n]))
    BY ZenonT(40) DEF RightInv
  <2> HIDE DEF x
  <2>6. AllHeld(cs, sent)
    <3>1. AllHeld(d.collectors, sent)
      BY <2>5, Zenon DEF NodeRight, Local
    <3>2. Held(c, sent)
      BY <3>1, Zenon DEF AllHeld
    <3> HIDE DEF d
    <3>3. Held(x, sent)
      BY <2>3, <3>2, Zenon DEF Held
    <3> QED BY <3>1, <3>3, Zenon DEF AllHeld, WithCollector
  <2> HIDE DEF cs
  <2>7. /\ b.current_round_id = d.current_round_id
        /\ b.pending_message = d.pending_message
        /\ b.pending_round_id = d.pending_round_id /\ b.collectors = cs
        /\ b.emitted = d.emitted /\ b.my_share = d.my_share
    BY <2>2, Zenon DEF Driver
  <2> HIDE DEF b, d
  <2>8. NodeRight(n, b, sent, announced, initiated, RoundsOf(delivered[n]))
    BY <2>5, <2>6, <2>7, Zenon DEF NodeRight, Local
  <2>9. \A p \in Node : driver'[p] = IF p = n THEN b ELSE driver[p]
    BY <2>2, <2>4, Zenon
  <2>10. \A p \in Node :
             /\ NodeRight(p, driver'[p], sent, announced, initiated, RoundsOf(delivered[p]))
             /\ Rightly(delivered[p], sent)
    BY <2>8, <2>9, ZenonT(40) DEF RightInv
  <2> QED BY <2>1, <2>4, <2>10, ZenonT(40) DEF RightInv
<1>4. ASSUME NEW m \in msgs, Lose(m) PROVE RightInv'
  <2>1. SoundInv'
    BY <1>4, SoundStep, ZenonT(40) DEF RightInv, Next
  <2> QED BY <1>4, <2>1, ZenonT(40) DEF Lose, RightInv
<1>5. CASE UNCHANGED vars
  <2>1. SoundInv'
    BY <1>5, SoundStep, Zenon DEF RightInv
  <2> QED BY <1>5, <2>1, Zenon DEF vars, RightInv
<1> QED BY <1>1, <1>2, <1>3, <1>4, <1>5, ZenonT(40) DEF Next

\* RightInv holds in every reachable state.
LEMMA RightAlways == ASSUME OneGroup PROVE Spec => []RightInv
<1>1. Init => RightInv
  BY RightInit, Zenon
<1>2. RightInv /\ [Next]_vars => RightInv'
  BY RightStep, Zenon
<1> QED BY <1>1, <1>2, PTL DEF Spec

\* The text extracted from a round is the one its lowest-uid initiator
\* announced it for (round_driver.rs:13), for any number of nodes that agree on
\* the participant list, whatever is lost or times out.  The initiators that
\* sent a neutral share gave way to a lower uid, so the lowest one sent its
\* message share, and no other is in the round.
THEOREM LowestUidAlwaysWins == ASSUME OneGroup PROVE Spec => []LowestUidWins
<1>1. RightInv => LowestUidWins
  <2> SUFFICES ASSUME RightInv, NEW n \in Node, NEW i \in DOMAIN delivered[n]
               PROVE  \E a \in announced :
                          /\ a.round = delivered[n][i].round
                          /\ a.text = delivered[n][i].text
                          /\ \A b \in announced : b.round = a.round => b.node >= a.node
    BY Zenon DEF LowestUidWins
  <2> DEFINE e == delivered[n][i]
             C == {b \in announced : b.round = e.round}
             M == {b.node : b \in C}
  <2>1. History(sent, announced, initiated) /\ Delivers(e, sent)
    BY Zenon DEF RightInv, Rightly
  <2>2. \A b \in announced : b.node \in Nat
    BY UidAssumption, Zenon DEF RightInv, SoundInv, TypeOK
  <2> HIDE DEF e
  <2>3. PICK s \in sent : s.round = e.round /\ s.share.texts = {e.text}
    BY <2>1, Zenon DEF Delivers
  <2>4. PICK a \in announced : a.node = s.node /\ a.round = e.round /\ {e.text} = {a.text}
    BY <2>1, <2>3, Zenon DEF History, Meant
  <2>5. PICK k \in M : \A y \in M : ~(<<y, k>> \in OpToRel(<, Nat))
    <3>1. M \subseteq Nat /\ M # {}
      BY <2>2, <2>4, Zenon
    <3> HIDE DEF M
    <3> QED BY <3>1, NatLessThanWellFounded, WFMin, ZenonT(40)
  <2>6. PICK b0 \in C : b0.node = k
    BY Zenon
  <2>7. \A b \in announced : b.round = e.round => b.node >= k /\ ~(b.node < k)
    <3> SUFFICES ASSUME NEW b \in announced, b.round = e.round
                 PROVE  b.node >= k /\ ~(b.node < k)
      BY Zenon
    <3>1. b.node \in M /\ b.node \in Nat /\ k \in Nat
      BY <2>2, <2>6, Zenon
    <3>2. ~(<<b.node, k>> \in OpToRel(<, Nat))
      BY <2>5, <3>1, Zenon
    <3>3. ~(b.node < k)
      BY <3>1, <3>2, Zenon DEF OpToRel
    <3> QED BY <3>1, <3>3
  <2>8. PICK u \in sent : u.node = k /\ u.round = e.round
    <3>1. AllSent(e.round, sent)
      BY <2>1, <2>3, Zenon DEF History, SentLast
    <3>2. k \in Group
      BY <2>1, <2>6, Zenon DEF History
    <3> QED BY <3>1, <3>2, Zenon DEF AllSent
  <2>9. u.share.texts # {}
    BY <2>1, <2>6, <2>7, <2>8, ZenonT(40) DEF History, GaveWay
  <2>10. u = s
    BY <2>1, <2>3, <2>8, <2>9, Zenon DEF History, OneMessage
  <2>11. a.node = k /\ a.text = e.text
    BY <2>4, <2>8, <2>10, Zenon
  <2> QED BY <2>4, <2>7, <2>11, Zenon DEF e
<1> QED BY <1>1, RightAlways, PTL

\* A node extracts no text more often than users sent it, however many rounds
\* were expired, aborted or repeated, for any number of nodes that agree on the
\* participant list.  Every extraction of a text belongs to another user's
\* draft: a node whose round got through does not repeat it.
THEOREM NeverDuplicated == ASSUME OneGroup PROVE Spec => []NoDuplicateDelivery
<1>1. RightInv => NoDuplicateDelivery
  <2> SUFFICES ASSUME RightInv, NEW n \in Node, NEW t \in Text
               PROVE  Cardinality({i \in DOMAIN delivered[n] : delivered[n][i].text = t})
                          <= Cardinality({w \in initiated : w[2] = t})
    BY Zenon DEF NoDuplicateDelivery
  <2> DEFINE q == delivered[n]
             D == {i \in DOMAIN q : q[i].text = t}
             W == {w \in initiated : w[2] = t}
             By(i) == CHOOSE s \in sent : s.round = q[i].round /\ s.share.texts = {t}
             f == [i \in D |-> <<By(i).node, t>>]
  <2>1. History(sent, announced, initiated) /\ Rightly(q, sent)
    BY Zenon DEF RightInv
  <2>2. initiated \subseteq Node \X Text
    BY DraftAssumption, ZenonT(40) DEF RightInv, SoundInv, TypeOK
  <2> HIDE DEF q
  <2>3. ASSUME NEW i \in D
        PROVE  /\ By(i) \in sent /\ By(i).round = q[i].round /\ By(i).share.texts = {t}
               /\ Success(RoundOf(By(i).round, sent))
    <3>1. Delivers(q[i], sent) /\ q[i].text = t
      BY <2>1, <2>3, Zenon DEF Rightly
    <3>2. \E s \in sent : s.round = q[i].round /\ s.share.texts = {t}
      BY <3>1, Zenon DEF Delivers
    <3>3. By(i) \in sent /\ By(i).round = q[i].round /\ By(i).share.texts = {t}
      BY <3>2, Zenon
    <3> QED BY <3>1, <3>3, Zenon DEF Delivers
  <2> HIDE DEF By
  <2>4. ASSUME NEW i \in D PROVE <<By(i).node, t>> \in W
    <3>1. PICK a \in announced : a.node = By(i).node /\ {t} = {a.text}
      BY <2>1, <2>3, <2>4, ZenonT(40) DEF History, Meant
    <3>2. <<a.node, a.text>> \in initiated /\ a.text = t
      BY <2>1, <3>1, Zenon DEF History
    <3> QED BY <3>1, <3>2, Zenon
  <2>5. ASSUME NEW i \in D, NEW j \in D, By(i).node = By(j).node PROVE i = j
    <3>1. By(i) = By(j)
      BY <2>1, <2>3, <2>5, ZenonT(40) DEF History, OneSuccess
    <3>2. q[i].round = q[j].round
      BY <2>3, <2>5, <3>1, Zenon
    <3> QED BY <2>1, <2>5, <3>2, Zenon DEF Rightly
  <2> HIDE DEF D, W
  <2>6. f \in Injection(D, W)
    <3>1. f \in [D -> W]
      BY <2>4, Zenon
    <3>2. ASSUME NEW i \in D, NEW j \in D, f[i] = f[j] PROVE i = j
      <4>1. By(i).node = By(j).node
        BY <3>2, Zenon
      <4> QED BY <2>5, <3>2, <4>1, Zenon
    <3> HIDE DEF f
    <3> QED BY <3>1, <3>2, Zenon DEF Injection, IsInjective
  <2>7. IsFiniteSet(W)
    <3>1. IsFiniteSet(Node \X {t})
      BY NodeAssumption, FS_Singleton, FS_Product, Zenon
    <3>2. W \subseteq Node \X {t}
      BY <2>2, Zenon DEF W
    <3> QED BY <3>1, <3>2, FS_Subset, Zenon
  <2> HIDE DEF f
  <2>8. Cardinality(D) <= Cardinality(W)
    BY <2>6, <2>7, FS_Injection, Zenon
  <2> QED BY <2>8, Zenon DEF D, W, q
<1> QED BY <1>1, RightAlways, PTL

\* All the nodes that extract a text from a round extract the same one
\* (round_driver.rs:13), for any number of nodes that agree on the participant
\* list, whatever is lost or times out: there is one message share in a round
\* that anything was extracted from.
THEOREM DriversAgree == ASSUME OneGroup PROVE Spec => []RoundAgreement
<1>1. RightInv => RoundAgreement
  <2> SUFFICES ASSUME RightInv, NEW n \in Node, NEW m \in Node,
                      NEW i \in DOMAIN delivered[n], NEW j \in DOMAIN delivered[m],
                      delivered[n][i].round = delivered[m][j].round
               PROVE  delivered[n][i].text = delivered[m][j].text
    BY Zenon DEF RoundAgreement
  <2> DEFINE e == delivered[n][i]
             f == delivered[m][j]
  <2>1. /\ OneMessage(sent) /\ Delivers(e, sent) /\ Delivers(f, sent)
        /\ e.round = f.round
    BY Zenon DEF RightInv, Rightly, History
  <2> HIDE DEF e, f
  <2>2. PICK s \in sent : s.round = e.round /\ s.share.texts = {e.text}
    BY <2>1, Zenon DEF Delivers
  <2>3. PICK u \in sent : u.round = f.round /\ u.share.texts = {f.text}
    BY <2>1, Zenon DEF Delivers
  <2>4. s = u
    BY <2>1, <2>2, <2>3, Zenon DEF OneMessage
  <2>5. e.text = f.text
    BY <2>2, <2>3, <2>4, Zenon
  <2> QED BY <2>5, Zenon DEF e, f
<1> QED BY <1>1, RightAlways, PTL
===========================================================================
