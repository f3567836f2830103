--------------------------- MODULE RoundNetwork ---------------------------
(***************************************************************************)
(* The data of a DC-Net round, dcnet/round_network.rs: shares, the framed   *)
(* message inside them, the collector that XORs them, the round counter.    *)
(*                                                                          *)
(* A share is a byte string.  What the protocol depends on is which pair    *)
(* masks and which framed messages have been XORed into it, so a share is   *)
(* the pair of those two sets.  XOR is then "occurs an odd number of        *)
(* times", and a string reads as a message exactly when nothing but one     *)
(* frame is left in it: the SHA-256 of the frame rejects the rest.          *)
(*                                                                          *)
(* An Option<T> is a set with at most one element.                          *)
(***************************************************************************)
EXTENDS Integers, FiniteSets, Sequences

CONSTANTS Node,      \* the uids
          Text,      \* the messages users queue
          LongText,  \* the ones that do not fit into the payload
          Key,       \* friend-edge pre-shared keys
          NoKey      \* "no key for this friend"

ASSUME NodeAssumption == IsFiniteSet(Node)
ASSUME TextAssumption == LongText \subseteq Text
ASSUME KeyAssumption  == NoKey \notin Key

\* What an edge key, a round id and the two (sorted) peer ids are hashed to.
MaskId == (SUBSET Node) \X Key \X Nat

Share == [masks : SUBSET MaskId, texts : SUBSET Text]

\* The edge keys every node holds for its friends (RoundContext::edge_keys).
EdgeKeys == [Node -> [Node -> Key \cup {NoKey}]]

Option(S) == {{}} \cup {{x} : x \in S}

---------------------------------------------------------------------------
\* Both ends of an edge derive the same mask because the ids are sorted.
derive_pair_share(key, round, a, b) == <<{a, b}, key, round>>

\* pad_message returns None for a message longer than the payload.
Fits(message) == message \cap LongText = {}

\* The cases in which compute_xor_share_secure does not return None.
CanShare(me, participants, message, keys) ==
    /\ Cardinality(participants) >= 2
    /\ me \in participants
    /\ \A other \in participants \ {me} : keys[me][other] # NoKey
    /\ Fits(message)

compute_xor_share_secure(round, me, participants, message, keys) ==
    [masks |-> {derive_pair_share(keys[me][other], round, me, other) :
                    other \in participants \ {me}},
     texts |-> message]

\* Mutant: the frame is read without its checksum.
unpad_message_Unchecked(payload) == {t \in payload.texts : payload.texts = {t}}

\* Frame checksum: the message if the XOR is one intact frame, else nothing.
unpad_message(payload) ==
    {t \in payload.texts : payload.masks = {} /\ payload.texts = {t}}

---------------------------------------------------------------------------
(***************************************************************************)
(* RoundCollector.  shares_received, a HashMap, is the set of its entries.  *)
(***************************************************************************)
Entry == [from : Node, share : Share]

Collector == [round : Nat, participants : SUBSET Node,
              shares_received : SUBSET Entry, expired : BOOLEAN]

NewCollector(round, participants) ==
    [round |-> round, participants |-> participants,
     shares_received |-> {}, expired |-> FALSE]

Senders(c) == {e.from : e \in c.shares_received}

\* submit_share returns Ok: a participant, and its first share.
Accepts(c, peer) == peer \in c.participants /\ peer \notin Senders(c)

submit_share(c, peer, share) ==
    [c EXCEPT !.shares_received = @ \cup {[from |-> peer, share |-> share]}]

is_complete(c) ==
    Cardinality(c.shares_received) >= Cardinality(c.participants)

missing_participants(c) == c.participants \ Senders(c)

MasksLeft(entries) ==
    {m \in UNION {e.share.masks : e \in entries} :
        Cardinality({e \in entries : m \in e.share.masks}) % 2 = 1}

TextsLeft(entries) ==
    {t \in UNION {e.share.texts : e \in entries} :
        Cardinality({e \in entries : t \in e.share.texts}) % 2 = 1}

\* The XOR of everything received.
extract_message(c) == [masks |-> MasksLeft(c.shares_received),
                       texts |-> TextsLeft(c.shares_received)]

---------------------------------------------------------------------------
(***************************************************************************)
(* RoundTracker: one counter, a round id is taken up only if it is the next *)
(* one.                                                                     *)
(***************************************************************************)
next_round(current) == current + 1

\* Mutant: a round id the node already took part in is accepted again.
mark_seen_Again(current, round) == round \in {current, current + 1}

\* Mutant: any newer round id is accepted.
mark_seen_Newer(current, round) == round > current

mark_seen(current, round) == round = current + 1

dequeue_message(queue) == IF queue = <<>> THEN {} ELSE {Head(queue)}

Dequeued(queue) == IF queue = <<>> THEN <<>> ELSE Tail(queue)

\* HashMap::insert and ::remove on the collectors, keyed by round id.
WithCollector(cs, c) == {d \in cs : d.round # c.round} \cup {c}

WithoutCollector(cs, round) == {d \in cs : d.round # round}
===========================================================================
