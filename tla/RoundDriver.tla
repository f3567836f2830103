---------------------------- MODULE RoundDriver ----------------------------
(***************************************************************************)
(* The mesh DC-Net rounds of dcnet/round_driver.rs.  There is no collector  *)
(* everybody trusts: the initiator announces a round, everybody else        *)
(* broadcasts a neutral share, the initiator broadcasts its message share   *)
(* last, and every node extracts.  Two initiators of the same round id are  *)
(* resolved by uid.                                                         *)
(*                                                                          *)
(* A node is one RoundDriver record; its operations are operators on that   *)
(* record, so that an action is the composition the code runs in one call   *)
(* of initiate() or handle().  Uids are numbers because the tie-break       *)
(* compares them.                                                           *)
(***************************************************************************)
EXTENDS RoundNetwork

CONSTANTS Groups,      \* the participant lists of the channel
          EdgeKey,     \* the edge keys everyone holds
          Drafts,      \* <<n, t>>: node n's user sends text t, once
          MaxRetries,  \* MAX_CONFLICT_RETRIES
          Patient,     \* does a user wait for its message to get through?
          Lossy,       \* may the network lose messages?
          Timely,      \* does every round finish before its deadline?
          MaxRound     \* bound on round ids

ASSUME UidAssumption   == Node \subseteq Nat
ASSUME GroupAssumption == Groups \subseteq SUBSET Node
ASSUME EdgeAssumption  == EdgeKey \in EdgeKeys
ASSUME DraftAssumption == Drafts \subseteq Node \X Text
ASSUME RetryAssumption == MaxRetries \in Nat /\ MaxRound \in Nat

VARIABLES driver,     \* per node: its RoundDriver
          msgs,       \* messages on the way
          delivered,  \* per node: the ExtractedMessages it returned
          initiated,  \* history: the drafts handed to initiate()
          announced,  \* history: the starts sent, with the text they are for
          sent        \* history: the shares sent

vars == <<driver, msgs, delivered, initiated, announced, sent>>

StartMsg == [type : {"DcRoundStart"}, src : Node, dst : Node, round : Nat,
             participants : SUBSET Node]
ShareMsg == [type : {"DcRoundShare"}, src : Node, dst : Node, round : Nat,
             share : Share]

\* pending_outgoing is emptied at the end of every call that fills it, and is
\* here, with the extracted text, the part of the record a call returns.
\* started is history: the rounds the call announced, and for which text.
Driver == [current_round_id : Nat, pending_message : SUBSET Text,
           pending_round_id : SUBSET Nat, retries : Nat,
           collectors : SUBSET Collector, emitted : SUBSET Nat,
           my_share : SUBSET Share, my_share_broadcast : BOOLEAN,
           retry_after_peer : SUBSET Nat,
           outgoing : SUBSET (StartMsg \cup ShareMsg),
           started : SUBSET [round : Nat, text : Text],
           extracted : SUBSET [round : Nat, text : Text]]

NewDriver == [current_round_id |-> 0, pending_message |-> {},
              pending_round_id |-> {}, retries |-> 0, collectors |-> {},
              emitted |-> {}, my_share |-> {}, my_share_broadcast |-> FALSE,
              retry_after_peer |-> {}, outgoing |-> {}, started |-> {},
              extracted |-> {}]

Init ==
    /\ driver = [n \in Node |-> NewDriver]
    /\ msgs = {}
    /\ delivered = [n \in Node |-> <<>>]
    /\ initiated = {}
    /\ announced = {}
    /\ sent = {}

---------------------------------------------------------------------------
Starts(n, round, participants) ==
    [type : {"DcRoundStart"}, src : {n}, dst : participants \ {n},
     round : {round}, participants : {participants}]

Shares(n, round, participants, share) ==
    [type : {"DcRoundShare"}, src : {n}, dst : participants \ {n},
     round : {round}, share : {share}]

\* The id is taken from the tracker before the share is known to be
\* computable: a missing edge key costs a round id.
initiate(d, n, text, participants) ==
    LET round == next_round(d.current_round_id) IN
    IF \/ ~Fits({text})
       \/ Cardinality(participants) < 2
       \/ n \notin participants
    THEN d
    ELSE IF ~CanShare(n, participants, {text}, EdgeKey)
    THEN [d EXCEPT !.current_round_id = round]
    ELSE [d EXCEPT
            !.current_round_id = round,
            !.collectors = WithCollector(@, NewCollector(round, participants)),
            !.pending_message = {text},
            !.pending_round_id = {round},
            !.my_share = {compute_xor_share_secure(round, n, participants,
                                                   {text}, EdgeKey)},
            !.my_share_broadcast = FALSE,
            !.retries = 0,
            !.outgoing = @ \cup Starts(n, round, participants),
            !.started = @ \cup {[round |-> round, text |-> text]}]

\* Our round is over: nothing of it is kept but the queued message.
Forget(d) == [d EXCEPT !.pending_round_id = {}, !.my_share = {},
                       !.my_share_broadcast = FALSE]

\* Mutant: the message goes with the aborted round.
abort_pending_round_Drop(d) ==
    Forget([d EXCEPT !.collectors =
               {c \in @ : c.round \notin d.pending_round_id},
                     !.pending_message = {}])

abort_pending_round(d) ==
    Forget([d EXCEPT !.collectors =
               {c \in @ : c.round \notin d.pending_round_id}])

retry_pending(d, n, participants) ==
    IF d.retries >= MaxRetries
    THEN [d EXCEPT !.pending_message = {}]
    ELSE LET again == [d EXCEPT !.retries = @ + 1] IN
         IF d.pending_message = {} THEN again
         ELSE initiate(again, n, CHOOSE t \in d.pending_message : TRUE,
                       participants)

\* Only one expired collector can be ours, so their order does not matter.
drop_expired(d, n) ==
    LET expired == {c \in d.collectors : c.expired}
        mine    == {c \in expired : d.pending_round_id = {c.round}}
        kept    == [d EXCEPT !.collectors = @ \ expired]
    IN  IF mine = {} THEN kept
        ELSE retry_pending(Forget(kept), n,
                           (CHOOSE c \in mine : TRUE).participants)

\* Take part in a round with a neutral share.
Participate(d, n, m) ==
    IF ~CanShare(n, m.participants, {}, EdgeKey) THEN d
    ELSE LET share == compute_xor_share_secure(m.round, n, m.participants, {},
                                               EdgeKey)
         IN  [d EXCEPT
                !.collectors = WithCollector(@,
                    submit_share(NewCollector(m.round, m.participants), n, share)),
                !.outgoing = @ \cup Shares(n, m.round, m.participants, share)]

\* Mutant: the tie-break the other way round.
YieldsTo_Higher(n, leader) == leader > n

\* The tie-break: the lower uid keeps the round id.
YieldsTo(n, leader) == leader < n

\* Anything but the next round id is ignored, unless it is the id of our own
\* pending round and its initiator's uid is lower: then we abort ours.
on_round_start(d, n, m) ==
    IF mark_seen(d.current_round_id, m.round)
    THEN Participate([d EXCEPT !.current_round_id = m.round], n, m)
    ELSE IF d.pending_round_id = {m.round} /\ YieldsTo(n, m.src)
    THEN Participate([abort_pending_round(d) EXCEPT
                          !.retry_after_peer = {m.round}], n, m)
    ELSE d

\* Mutant: our message share does not wait for the others.
MineIsDue_AtOnce(d, n, c) ==
    /\ d.pending_round_id = {c.round}
    /\ ~d.my_share_broadcast
    /\ d.my_share # {}

MineIsDue(d, n, c) ==
    /\ d.pending_round_id = {c.round}
    /\ ~d.my_share_broadcast
    /\ missing_participants(c) = {n}
    /\ d.my_share # {}

\* The initiator's message share goes out when every other share is in.
BroadcastMine(d, n, c) ==
    IF MineIsDue(d, n, c)
    THEN LET mine == CHOOSE s \in d.my_share : TRUE
             full == submit_share(c, n, mine)
         IN  [d EXCEPT !.collectors = WithCollector(@, full),
                       !.my_share_broadcast = TRUE,
                       !.outgoing = @ \cup Shares(n, c.round, c.participants,
                                                  mine)]
    ELSE [d EXCEPT !.collectors = WithCollector(@, c)]

\* extracted_ok: the XOR is an intact frame of a round not emitted before.
ExtractedOk(d, c) ==
    unpad_message(extract_message(c)) # {} /\ c.round \notin d.emitted

\* Mutant: the XOR is shown without looking at the frame.
Emit_Unframed(d, c) ==
    [d EXCEPT !.extracted = @ \cup {[round |-> c.round,
                                     text |-> extract_message(c)]},
              !.emitted = @ \cup {c.round}]

Emit(d, c) ==
    IF ~ExtractedOk(d, c) THEN d
    ELSE [d EXCEPT !.extracted = @ \cup
                       [round : {c.round},
                        text : unpad_message(extract_message(c))],
                   !.emitted = @ \cup {c.round}]

\* Mutant: our round is repeated although its message got through.
Settle_Again(d, n, c, ok) ==
    IF d.pending_round_id # {c.round} THEN d
    ELSE retry_pending(Forget(d), n, c.participants)

\* Our own round is over: its message is done, or retried.
Settle(d, n, c, ok) ==
    IF d.pending_round_id # {c.round} THEN d
    ELSE IF ok THEN [Forget(d) EXCEPT !.pending_message = {}]
    ELSE retry_pending(Forget(d), n, c.participants)

\* Mutant: whoever gave way to this round keeps waiting.
RetryAfterPeer_Never(d, n, c) == d

\* The round we gave way to is over: our message has its turn.
RetryAfterPeer(d, n, c) ==
    LET waited == [d EXCEPT !.retry_after_peer = {}] IN
    IF d.retry_after_peer # {c.round} THEN d
    ELSE IF d.pending_message = {} THEN waited
    ELSE retry_pending(waited, n, c.participants)

\* Every share is in.
Complete(d, n, c) ==
    LET noted == [Emit(d, c) EXCEPT !.collectors = WithoutCollector(@, c.round)]
    IN  RetryAfterPeer(Settle(noted, n, c, ExtractedOk(d, c)), n, c)

CollectorOf(d, round) == CHOOSE c \in d.collectors : c.round = round

\* Members sign what they send with the identity key that the others know, so
\* the check of the signature, which comes first, passes.
on_round_share(d, n, m) ==
    IF \/ \A c \in d.collectors : c.round # m.round
       \/ ~Accepts(CollectorOf(d, m.round), m.src)
    THEN d
    ELSE LET stored == submit_share(CollectorOf(d, m.round), m.src, m.share)
             after  == BroadcastMine(d, n, stored)
             c      == CollectorOf(after, m.round)
         IN  IF is_complete(c) THEN Complete(after, n, c) ELSE after

\* live is the driver after drop_expired.
handle(live, n, m) ==
    IF m.type = "DcRoundStart" THEN on_round_start(live, n, m)
                               ELSE on_round_share(live, n, m)

---------------------------------------------------------------------------
\* Hand what a call returned to the connection manager and the event bus.
Return(n, d, consumed) ==
    /\ driver' = [driver EXCEPT ![n] =
           [d EXCEPT !.outgoing = {}, !.started = {}, !.extracted = {}]]
    /\ msgs' = (msgs \ consumed) \cup d.outgoing
    /\ delivered' = [delivered EXCEPT ![n] =
           IF d.extracted = {} THEN @
           ELSE Append(@, CHOOSE e \in d.extracted : TRUE)]
    /\ announced' = announced \cup
           {[node |-> n, round |-> a.round, text |-> a.text] : a \in d.started}
    /\ sent' = sent \cup
           {[node |-> n, round |-> m.round, share |-> m.share] :
               m \in {s \in d.outgoing : s.type = "DcRoundShare"}}

\* The user sends a channel message.
Initiate(n, text, participants) ==
    /\ <<n, text>> \in Drafts \ initiated
    /\ Patient => driver[n].pending_message = {}
    /\ driver[n].current_round_id < MaxRound
    /\ Return(n, initiate(driver[n], n, text, participants), {})
    /\ initiated' = initiated \cup {<<n, text>>}

\* A round message arrives.
Handle(n, m) ==
    /\ m.dst = n
    /\ \E live \in {drop_expired(driver[n], n)} :
       \E d \in {handle(live, n, m)} :
           /\ d.current_round_id <= MaxRound
           /\ Return(n, d, {m})
    /\ UNCHANGED initiated

\* The deadline of a round passes.  All deadlines are equally long and run from
\* the making of the collector; the order in which collectors were made is left
\* out (a round that is given up is made again after later ones), so any may be
\* the next to expire.
Expire(n, c) ==
    /\ ~Timely
    /\ ~c.expired
    /\ driver' = [driver EXCEPT ![n].collectors =
           WithCollector(@, [c EXCEPT !.expired = TRUE])]
    /\ UNCHANGED <<msgs, delivered, initiated, announced, sent>>

\* The connection manager could not queue the message.
Lose(m) ==
    /\ Lossy
    /\ msgs' = msgs \ {m}
    /\ UNCHANGED <<driver, delivered, initiated, announced, sent>>

Next ==
    \/ \E n \in Node, text \in Text, participants \in Groups :
           Initiate(n, text, participants)
    \/ \E n \in Node : \E m \in msgs : Handle(n, m)
    \/ \E n \in Node : \E c \in driver[n].collectors : Expire(n, c)
    \/ \E m \in msgs : Lose(m)

Spec == Init /\ [][Next]_vars

\* Connections deliver what they accepted.  A behaviour sends finitely many
\* messages, so fairness for all of them together reaches each.
FairSpec == Spec /\ WF_vars(\E m \in msgs : Handle(m.dst, m))

---------------------------------------------------------------------------
\* The values every variable ranges over.
TypeOK ==
    /\ driver \in [Node -> Driver]
    /\ msgs \subseteq StartMsg \cup ShareMsg
    /\ delivered \in [Node -> Seq([round : Nat, text : Text])]
    /\ initiated \subseteq Drafts
    /\ announced \subseteq [node : Node, round : Nat, text : Text]
    /\ sent \subseteq [node : Node, round : Nat, share : Share]

\* A node never sends two different shares for one round id: whoever loses the
\* tie-break had not sent its message share yet, so the neutral share it sends
\* instead is its only one (round_driver.rs:11).
OneSharePerRound ==
    \A s, t \in sent : s.node = t.node /\ s.round = t.round => s = t

\* The text extracted from a round is the one its lowest-uid initiator
\* announced it for: the winner's round stays clean, and a loser's text never
\* appears in it, nor does the residue of both (round_driver.rs:13).
LowestUidWins ==
    \A n \in Node : \A i \in DOMAIN delivered[n] :
        \E a \in announced :
            /\ a.round = delivered[n][i].round
            /\ a.text = delivered[n][i].text
            /\ \A b \in announced : b.round = a.round => b.node >= a.node

\* Whatever lists the users pass, a text that is extracted from a round was
\* handed in by a user and announced for that round: no collision, late share
\* or round that was given up produces one (round_driver.rs:13).
NoForgedText ==
    \A n \in Node : \A i \in DOMAIN delivered[n] :
        \E a \in announced :
            /\ a.round = delivered[n][i].round
            /\ a.text = delivered[n][i].text
            /\ <<a.node, a.text>> \in initiated

\* Everyone who extracts a text from a round extracts the same one, whichever
\* of the conflicting rounds a node had joined first (round_driver.rs:13).
\* This is about one participant list: disjoint groups count rounds separately.
RoundAgreement ==
    \A n, m \in Node : \A i \in DOMAIN delivered[n], j \in DOMAIN delivered[m] :
        delivered[n][i].round = delivered[m][j].round
            => delivered[n][i].text = delivered[m][j].text

\* Retries do not duplicate: a node extracts no text more often than users
\* sent it, however many rounds were expired, aborted or repeated.
NoDuplicateDelivery ==
    \A n \in Node, t \in Text :
        Cardinality({i \in DOMAIN delivered[n] : delivered[n][i].text = t})
            <= Cardinality({w \in initiated : w[2] = t})

\* The queued message stays until a round delivers it (round_driver.rs:83).
QueuedUntilDelivered ==
    [][\A n \in Node :
           driver[n].pending_message # {}
               => \/ driver[n].pending_message = driver'[n].pending_message
                  \/ delivered[n] # delivered'[n]]_vars

\* Every message a user sends is extracted by every node of the channel in the
\* end, when nothing is lost and no round times out.
EveryMessageDelivered ==
    \A w \in Drafts : \A n \in Node :
        w \in initiated ~>
            \E i \in DOMAIN delivered[n] : delivered[n][i].text = w[2]

\* A node that gave way to another initiator takes its message up again once
\* that round is over (round_driver.rs:241).
LoserRetries ==
    \A n \in Node :
        driver[n].retry_after_peer # {} ~> driver[n].retry_after_peer = {}

\* A message is given up after MAX_CONFLICT_RETRIES repetitions
\* (round_driver.rs:40).
BoundedRetries ==
    \A n \in Node, t \in Text :
        Cardinality({a \in announced : a.node = n /\ a.text = t})
            <= 1 + MaxRetries
===========================================================================
