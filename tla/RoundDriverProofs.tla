------------------------- MODULE RoundDriverProofs -------------------------
(***************************************************************************)
(* Proofs about RoundDriver, whatever participant lists the members use:    *)
(* the types, one share per node and round, and no text that was not handed *)
(* in and announced.                                                        *)
(*                                                                          *)
(* A call of initiate() or handle() runs drop_expired, the handler proper   *)
(* and retry_pending one after the other, so its effect is a composition of *)
(* small updates of the driver.  What a call preserves is therefore stated  *)
(* of a SET of driver states that is closed under these updates.  Sound is  *)
(* such a set, for the shares sent before the call, and SoundInv says that  *)
(* every driver is in its set between calls; Honest and HonestInv add what  *)
(* the shares and the collectors hold.                                      *)
(***************************************************************************)
EXTENDS RoundDriver, FiniteSetTheorems, WellFoundedInduction, TLAPS

---------------------------------------------------------------------------
(***************************************************************************)
(* A call of initiate() or handle() is made of a few kinds of updates.  A   *)
(* set of driver states that is closed under them is closed under calls.    *)
(***************************************************************************)
\* initiate when there is no share to compute: a round id is used up.
Skip(d) == [d EXCEPT !.current_round_id = next_round(d.current_round_id)]

\* initiate when there is.
Begin(d, n, text, participants) ==
    [d EXCEPT
        !.current_round_id = next_round(d.current_round_id),
        !.collectors = WithCollector(@,
            NewCollector(next_round(d.current_round_id), participants)),
        !.pending_message = {text},
        !.pending_round_id = {next_round(d.current_round_id)},
        !.my_share = {compute_xor_share_secure(next_round(d.current_round_id), n,
                                               participants, {text}, EdgeKey)},
        !.my_share_broadcast = FALSE,
        !.retries = 0,
        !.outgoing = @ \cup Starts(n, next_round(d.current_round_id), participants),
        !.started = @ \cup {[round |-> next_round(d.current_round_id),
                             text |-> text]}]

DropMessage(d) == [d EXCEPT !.pending_message = {}]

Recount(d) == [d EXCEPT !.retries = @ + 1]

DropCollectors(d, gone) == [d EXCEPT !.collectors = @ \ gone]

\* initiate (round_driver.rs:123) fails, uses up a round id, or begins a round.
LEMMA InitiateCases ==
    ASSUME NEW d, NEW n, NEW text, NEW participants
    PROVE  \/ initiate(d, n, text, participants) = d
           \/ initiate(d, n, text, participants) = Skip(d)
           \/ /\ initiate(d, n, text, participants) = Begin(d, n, text, participants)
              /\ CanShare(n, participants, {text}, EdgeKey)
<1>1. CASE \/ ~Fits({text}) \/ Cardinality(participants) < 2 \/ n \notin participants
  BY <1>1, Zenon DEF initiate
<1>2. CASE /\ ~(\/ ~Fits({text}) \/ Cardinality(participants) < 2
                \/ n \notin participants)
           /\ ~CanShare(n, participants, {text}, EdgeKey)
  BY <1>2, Zenon DEF initiate, Skip
<1>3. CASE /\ ~(\/ ~Fits({text}) \/ Cardinality(participants) < 2
                \/ n \notin participants)
           /\ CanShare(n, participants, {text}, EdgeKey)
  BY <1>3, Zenon DEF initiate, Begin
<1> QED BY <1>1, <1>2, <1>3, Zenon

\* The sets of drivers that retrying does not leave.
Retriable(K, n) ==
    /\ K \subseteq Driver
    /\ \A d \in K : Skip(d) \in K /\ DropMessage(d) \in K /\ Recount(d) \in K
    /\ \A d \in K : \A text \in d.pending_message, participants \in Groups :
           CanShare(n, participants, {text}, EdgeKey)
               => Begin(d, n, text, participants) \in K

\* retry_pending stays inside (round_driver.rs:390).
LEMMA RetryIn ==
    ASSUME NEW K, NEW n, Retriable(K, n), NEW d \in K, NEW participants \in Groups
    PROVE  retry_pending(d, n, participants) \in K
<1> DEFINE again == Recount(d)
           text == CHOOSE t \in d.pending_message : TRUE
<1>1. again \in K /\ DropMessage(d) \in K /\ d \in Driver
  BY Zenon DEF Retriable
<1>2. again.pending_message = d.pending_message
  BY <1>1, Zenon DEF Recount, Driver
<1>3. CASE d.retries >= MaxRetries
  BY <1>1, <1>3, Zenon DEF retry_pending, DropMessage
<1>4. CASE ~(d.retries >= MaxRetries) /\ d.pending_message = {}
  BY <1>1, <1>4, Zenon DEF retry_pending, Recount
<1>5. CASE ~(d.retries >= MaxRetries) /\ d.pending_message # {}
  <2>1. retry_pending(d, n, participants) = initiate(again, n, text, participants)
    BY <1>5, Zenon DEF retry_pending, Recount
  <2>2. text \in again.pending_message
    BY <1>2, <1>5, Zenon
  <2> HIDE DEF again, text
  <2>3. Skip(again) \in K
    BY <1>1, Zenon DEF Retriable
  <2>4. CanShare(n, participants, {text}, EdgeKey)
            => Begin(again, n, text, participants) \in K
    BY <1>1, <2>2, Zenon DEF Retriable
  <2> QED BY <1>1, <2>1, <2>3, <2>4, InitiateCases, Zenon
<1> QED BY <1>3, <1>4, <1>5, Zenon

\* The sets of drivers that the end of a round, expired or complete, does not
\* leave.
Waited(d) == [d EXCEPT !.retry_after_peer = {}]

Endable(K, n) ==
    /\ Retriable(K, n)
    /\ \A d \in K : Forget(d) \in K /\ Waited(d) \in K
    /\ \A d \in K : \A gone \in SUBSET d.collectors : DropCollectors(d, gone) \in K
    /\ \A d \in K : \A c \in d.collectors : c.participants \in Groups

\* drop_expired stays inside (round_driver.rs:410).
LEMMA DropExpiredIn ==
    ASSUME NEW K, NEW n, Endable(K, n), NEW d \in K
    PROVE  drop_expired(d, n) \in K
<1> DEFINE expired == {c \in d.collectors : c.expired}
           mine == {c \in expired : d.pending_round_id = {c.round}}
           kept == DropCollectors(d, expired)
           participants == (CHOOSE c \in mine : TRUE).participants
<1>1. drop_expired(d, n) =
          IF mine = {} THEN kept ELSE retry_pending(Forget(kept), n, participants)
  BY Zenon DEF drop_expired, DropCollectors
<1>2. kept \in K
  BY Zenon DEF Endable
<1>3. mine # {} => participants \in Groups
  BY Zenon DEF Endable
<1> HIDE DEF mine, kept, participants
<1>4. Forget(kept) \in K /\ Retriable(K, n)
  BY <1>2, Zenon DEF Endable
<1> QED BY <1>1, <1>2, <1>3, <1>4, RetryIn, Zenon

\* The end of on_round_share: our round is settled, and a message that waited
\* for this round has its turn (round_driver.rs:358, :369).
LEMMA AfterPeerIn ==
    ASSUME NEW K, NEW n, Endable(K, n), NEW d \in K, NEW c, c.participants \in Groups
    PROVE  RetryAfterPeer(d, n, c) \in K
<1>1. Waited(d) \in K /\ Retriable(K, n)
  BY Zenon DEF Endable
<1>2. retry_pending(Waited(d), n, c.participants) \in K
  BY <1>1, RetryIn, Zenon
<1> QED BY <1>1, <1>2, Zenon DEF RetryAfterPeer, Waited

\* What follows the end of the own round, got through or not, stays inside.
LEMMA SettleIn ==
    ASSUME NEW K, NEW n, Endable(K, n), NEW d \in K, NEW c, c.participants \in Groups,
           NEW ok
    PROVE  Settle(d, n, c, ok) \in K
<1>1. Forget(d) \in K /\ Retriable(K, n)
  BY Zenon DEF Endable
<1>2. DropMessage(Forget(d)) \in K
  BY <1>1, Zenon DEF Retriable
<1>3. retry_pending(Forget(d), n, c.participants) \in K
  BY <1>1, RetryIn, Zenon
<1> QED BY <1>1, <1>2, <1>3, Zenon DEF Settle, DropMessage

---------------------------------------------------------------------------
\* What on_round_share does with a collector.
Store(d, c) == [d EXCEPT !.collectors = WithCollector(@, c)]

Broadcast(d, n, c, mine) ==
    [d EXCEPT !.collectors = WithCollector(@, submit_share(c, n, mine)),
              !.my_share_broadcast = TRUE,
              !.outgoing = @ \cup Shares(n, c.round, c.participants, mine)]

Noted(d, c) == [Emit(d, c) EXCEPT !.collectors = WithoutCollector(@, c.round)]

\* The driver after our own round is complete and before any retry.
Finished(d, n, c, mine) ==
    LET after == Broadcast(d, n, c, mine)
        full  == submit_share(c, n, mine)
    IN  IF ExtractedOk(after, full) THEN DropMessage(Forget(Noted(after, full)))
                                    ELSE Forget(Noted(after, full))

\* The sets of drivers that a share does not leave.
Sharable(K, n, m) ==
    /\ Endable(K, n)
    /\ \A d \in K : \A c \in d.collectors :
           /\ IsFiniteSet(c.shares_received) /\ IsFiniteSet(c.participants)
           /\ is_complete(c) => Noted(d, c) \in K
           /\ c.round = m.round /\ Accepts(c, m.src) =>
                  /\ ~MineIsDue(d, n, submit_share(c, m.src, m.share))
                         => Store(d, submit_share(c, m.src, m.share)) \in K
                  /\ MineIsDue(d, n, submit_share(c, m.src, m.share)) =>
                         \A mine \in d.my_share :
                             Finished(d, n, submit_share(c, m.src, m.share), mine) \in K

\* A collector with an entry from every participant is complete
\* (round_network.rs is_complete).
LEMMA FullIsComplete ==
    ASSUME NEW c, IsFiniteSet(c.shares_received), c.participants \subseteq Senders(c)
    PROVE  is_complete(c)
<1> DEFINE S == c.shares_received
           f == [e \in S |-> e.from]
<1>1. f \in Surjection(S, Senders(c))
  BY Zenon DEF Senders, Surjection
<1>2. IsFiniteSet(S)
  BY Zenon
<1> HIDE DEF f, S
<1>3. IsFiniteSet(Senders(c)) /\ Cardinality(Senders(c)) <= Cardinality(c.shares_received)
  BY <1>1, <1>2, FS_Surjection, Zenon DEF S
<1>4. /\ IsFiniteSet(c.participants)
      /\ Cardinality(c.participants) <= Cardinality(Senders(c))
  BY <1>3, FS_Subset, Zenon
<1>5. /\ Cardinality(c.participants) \in Nat /\ Cardinality(Senders(c)) \in Nat
      /\ Cardinality(c.shares_received) \in Nat
  BY <1>2, <1>3, <1>4, FS_CardinalityType, Zenon DEF S
<1> QED BY <1>3, <1>4, <1>5 DEF is_complete

\* A share put into a collector.
LEMMA Submitted ==
    ASSUME NEW c \in Collector, NEW peer, NEW share
    PROVE  LET x == submit_share(c, peer, share) IN
           /\ x.round = c.round /\ x.participants = c.participants
           /\ x.expired = c.expired
           /\ x.shares_received = c.shares_received \cup {[from |-> peer, share |-> share]}
           /\ Senders(x) = Senders(c) \cup {peer}
           /\ IsFiniteSet(c.shares_received) => IsFiniteSet(x.shares_received)
           /\ peer \in Node /\ share \in Share => x \in Collector
<1> DEFINE x == submit_share(c, peer, share)
           e == [from |-> peer, share |-> share]
<1>1. /\ x.round = c.round /\ x.participants = c.participants
      /\ x.expired = c.expired /\ x.shares_received = c.shares_received \cup {e}
      /\ x = [round |-> c.round, participants |-> c.participants,
              shares_received |-> c.shares_received \cup {e}, expired |-> c.expired]
  BY DEF submit_share, Collector
<1>2. e.from = peer
  BY Zenon
<1>3. peer \in Node /\ share \in Share => x \in Collector
  <2>1. peer \in Node /\ share \in Share => e \in Entry
    BY Zenon DEF Entry
  <2> HIDE DEF e
  <2> QED BY <1>1, <2>1, Zenon DEF Collector
<1> HIDE DEF x, e
<1>4. Senders(x) = Senders(c) \cup {peer}
  BY <1>1, <1>2, Zenon DEF Senders
<1>5. IsFiniteSet(c.shares_received) => IsFiniteSet(x.shares_received)
  BY <1>1, FS_AddElement, Zenon
<1> QED BY <1>1, <1>3, <1>4, <1>5, Zenon DEF x, e

\* What is found under a round id after an insertion.
LEMMA FoundAfter ==
    ASSUME NEW cs, NEW c, NEW d, d.collectors = WithCollector(cs, c)
    PROVE  CollectorOf(d, c.round) = c /\ c \in d.collectors
BY Zenon DEF CollectorOf, WithCollector

\* on_round_share stays inside (round_driver.rs:287).
LEMMA OnShareIn ==
    ASSUME NEW K, NEW n, NEW m \in ShareMsg, Sharable(K, n, m), NEW d \in K
    PROVE  on_round_share(d, n, m) \in K
<1>1. /\ Endable(K, n) /\ K \subseteq Driver /\ d \in Driver
      /\ d.collectors \subseteq Collector
  BY Zenon DEF Sharable, Endable, Retriable, Driver
<1>2. CASE \/ \A c \in d.collectors : c.round # m.round
           \/ ~Accepts(CollectorOf(d, m.round), m.src)
  BY <1>2, Zenon DEF on_round_share
<1>3. CASE ~(\/ \A c \in d.collectors : c.round # m.round
             \/ ~Accepts(CollectorOf(d, m.round), m.src))
  <2> DEFINE old == CollectorOf(d, m.round)
             stored == submit_share(old, m.src, m.share)
             after == BroadcastMine(d, n, stored)
             c == CollectorOf(after, m.round)
  <2>1. old \in d.collectors /\ old.round = m.round /\ Accepts(old, m.src)
    BY <1>3, Zenon DEF CollectorOf
  <2>2. on_round_share(d, n, m) =
            IF is_complete(c) THEN Complete(after, n, c) ELSE after
    BY <1>3, Zenon DEF on_round_share
  <2> HIDE DEF old
  <2>3. /\ old \in Collector /\ IsFiniteSet(old.shares_received)
        /\ old.participants \in Groups
    BY <1>1, <2>1, Zenon DEF Sharable, Endable
  <2>4. /\ stored.round = m.round /\ stored.participants \in Groups
        /\ IsFiniteSet(stored.shares_received)
    BY <2>1, <2>3, Submitted
  <2>5. CASE ~MineIsDue(d, n, stored)
    <3>1. after = Store(d, stored) /\ after \in K
      BY <2>1, <2>5, Zenon DEF BroadcastMine, Store, Sharable
    <3>2. after.collectors = WithCollector(d.collectors, stored)
      BY <1>1, <3>1, Zenon DEF Store, Driver
    <3> HIDE DEF stored, after
    <3>3. c = stored /\ stored \in after.collectors
      BY <2>4, <3>2, FoundAfter, Zenon
    <3>4. CASE is_complete(c)
      <4>1. Noted(after, c) \in K
        BY <3>1, <3>3, <3>4, Zenon DEF Sharable
      <4>2. Complete(after, n, c) =
                RetryAfterPeer(Settle(Noted(after, c), n, c, ExtractedOk(after, c)), n, c)
        BY Zenon DEF Complete, Noted
      <4>3. c.participants \in Groups
        BY <2>4, <3>3, Zenon
      <4> HIDE DEF c
      <4> QED BY <1>1, <2>2, <3>4, <4>1, <4>2, <4>3, SettleIn, AfterPeerIn, Zenon
    <3> QED BY <2>2, <3>1, <3>4, Zenon
  <2>6. CASE MineIsDue(d, n, stored)
    <3> DEFINE mine == CHOOSE s \in d.my_share : TRUE
               full == submit_share(stored, n, mine)
               noted == Noted(after, full)
               ok == ExtractedOk(after, full)
    <3>1. after = Broadcast(d, n, stored, mine)
      BY <2>6, Zenon DEF BroadcastMine, Broadcast
    <3>2. mine \in d.my_share /\ d.pending_round_id = {stored.round}
      BY <2>6, Zenon DEF MineIsDue
    <3>3. after.collectors = WithCollector(d.collectors, full)
      BY <1>1, <3>1, Zenon DEF Broadcast, Driver
    <3>4. after.pending_round_id = d.pending_round_id
      BY <1>1, <3>1, Zenon DEF Broadcast, Driver
    <3>5. Finished(d, n, stored, mine) \in K
      BY <2>1, <2>6, <3>2, Zenon DEF Sharable
    <3>6. stored \in Collector
      BY <2>3, Submitted, Zenon DEF ShareMsg
    <3>7. missing_participants(stored) = {n}
      BY <2>6, Zenon DEF MineIsDue
    <3> HIDE DEF stored, mine, after
    <3>8. /\ full.round = m.round /\ full.participants \in Groups
          /\ IsFiniteSet(full.shares_received)
          /\ Senders(full) = Senders(stored) \cup {n}
          /\ full.participants = stored.participants
      BY <2>4, <3>6, Submitted
    <3> HIDE DEF full
    <3>9. is_complete(full)
      <4>1. full.participants \subseteq Senders(full)
        BY <3>7, <3>8, Zenon DEF missing_participants
      <4> QED BY <3>8, <4>1, FullIsComplete, Zenon
    <3>10. c = full
      BY <3>3, <3>8, FoundAfter, Zenon
    <3>11. "pending_round_id" \in DOMAIN after => noted.pending_round_id = {full.round}
      BY <2>4, <3>2, <3>4, <3>8, Zenon DEF Noted, Emit
    <3>12. "pending_round_id" \in DOMAIN after
      BY <1>1, <3>1, Zenon DEF Broadcast, Driver
    <3>14. Settle(noted, n, full, ok) =
              IF ok THEN DropMessage(Forget(noted))
              ELSE retry_pending(Forget(noted), n, full.participants)
      BY <3>11, <3>12, Zenon DEF Settle, DropMessage
    <3>15. IF ok THEN DropMessage(Forget(noted)) \in K ELSE Forget(noted) \in K
      BY <3>1, <3>5, Zenon DEF Finished, full
    <3> HIDE DEF noted, ok
    <3>16. Settle(noted, n, full, ok) \in K
      <4>1. CASE ok
        BY <3>14, <3>15, <4>1, Zenon
      <4>2. CASE ~ok
        <5>1. Retriable(K, n) /\ Forget(noted) \in K
          BY <1>1, <3>15, <4>2, Zenon DEF Endable
        <5> QED BY <3>8, <3>14, <4>2, <5>1, RetryIn, Zenon
      <4> QED BY <4>1, <4>2, Zenon
    <3>17. Complete(after, n, full) = RetryAfterPeer(Settle(noted, n, full, ok), n, full)
      BY Zenon DEF Complete, Noted, noted, ok
    <3>18. Complete(after, n, full) \in K
      BY <1>1, <3>8, <3>16, <3>17, AfterPeerIn, Zenon
    <3> QED BY <2>2, <3>9, <3>10, <3>18, Zenon
  <2> QED BY <2>5, <2>6, Zenon
<1> QED BY <1>2, <1>3, Zenon

\* The sets of drivers that the start of somebody's round does not leave.
Joinable(K, n, m) ==
    \A d \in K :
        /\ mark_seen(d.current_round_id, m.round)
               => Participate([d EXCEPT !.current_round_id = m.round], n, m) \in K
        /\ d.pending_round_id = {m.round} /\ YieldsTo(n, m.src)
               => Participate([abort_pending_round(d) EXCEPT
                                   !.retry_after_peer = {m.round}], n, m) \in K

\* handle stays inside (round_driver.rs:186).
LEMMA HandleIn ==
    ASSUME NEW K, NEW n, NEW m, Endable(K, n), NEW d \in K,
           \/ m \in StartMsg /\ Joinable(K, n, m)
           \/ m \in ShareMsg /\ Sharable(K, n, m)
    PROVE  handle(drop_expired(d, n), n, m) \in K
<1> DEFINE live == drop_expired(d, n)
<1>1. live \in K
  BY DropExpiredIn, Zenon
<1> HIDE DEF live
<1>2. CASE m \in StartMsg /\ Joinable(K, n, m)
  <2>1. handle(live, n, m) = on_round_start(live, n, m)
    BY <1>2, Zenon DEF handle, StartMsg
  <2>2. on_round_start(live, n, m) \in K
    BY <1>1, <1>2, Zenon DEF on_round_start, Joinable
  <2> QED BY <2>1, <2>2, Zenon DEF live
<1>3. CASE m \in ShareMsg /\ Sharable(K, n, m)
  <2>1. handle(live, n, m) = on_round_share(live, n, m)
    BY <1>3, Zenon DEF handle, ShareMsg
  <2>2. on_round_share(live, n, m) \in K
    BY <1>1, <1>3, OnShareIn, Zenon
  <2> QED BY <2>1, <2>2, Zenon DEF live
<1> QED BY <1>2, <1>3, Zenon

---------------------------------------------------------------------------
(***************************************************************************)
(* The updates, field by field.                                             *)
(***************************************************************************)
\* Everything of a driver but the flags retries, my_share_broadcast and
\* retry_after_peer.
Parts(d, current, message, pending, collectors, emitted, share, out, started,
      extracted) ==
    /\ d \in Driver
    /\ d.current_round_id = current /\ d.pending_message = message
    /\ d.pending_round_id = pending /\ d.collectors = collectors
    /\ d.emitted = emitted /\ d.my_share = share
    /\ d.outgoing = out /\ d.started = started /\ d.extracted = extracted

\* The updates of the flags alone, and the ones that forget something.
LEMMA SmallUpdates ==
    ASSUME NEW d \in Driver
    PROVE  /\ Parts(Skip(d), d.current_round_id + 1, d.pending_message,
                    d.pending_round_id, d.collectors, d.emitted, d.my_share,
                    d.outgoing, d.started, d.extracted)
           /\ Parts(DropMessage(d), d.current_round_id, {},
                    d.pending_round_id, d.collectors, d.emitted, d.my_share,
                    d.outgoing, d.started, d.extracted)
           /\ Parts(Recount(d), d.current_round_id, d.pending_message,
                    d.pending_round_id, d.collectors, d.emitted, d.my_share,
                    d.outgoing, d.started, d.extracted)
           /\ Parts(Waited(d), d.current_round_id, d.pending_message,
                    d.pending_round_id, d.collectors, d.emitted, d.my_share,
                    d.outgoing, d.started, d.extracted)
           /\ Parts(Forget(d), d.current_round_id, d.pending_message,
                    {}, d.collectors, d.emitted, {},
                    d.outgoing, d.started, d.extracted)
<1>1. /\ Skip(d) \in Driver /\ DropMessage(d) \in Driver /\ Recount(d) \in Driver
      /\ Waited(d) \in Driver /\ Forget(d) \in Driver
  <2>1. Skip(d) \in Driver
    BY DEF Skip, Driver, next_round
  <2>2. DropMessage(d) \in Driver
    BY Zenon DEF DropMessage, Driver
  <2>3. Recount(d) \in Driver
    BY DEF Recount, Driver
  <2>4. Waited(d) \in Driver
    BY Zenon DEF Waited, Driver
  <2>5. Forget(d) \in Driver
    BY Zenon DEF Forget, Driver
  <2> QED BY <2>1, <2>2, <2>3, <2>4, <2>5, Zenon
<1>2. Parts(Skip(d), d.current_round_id + 1, d.pending_message,
            d.pending_round_id, d.collectors, d.emitted, d.my_share,
            d.outgoing, d.started, d.extracted)
  BY <1>1, Zenon DEF Skip, Driver, Parts, next_round
<1>3. Parts(DropMessage(d), d.current_round_id, {},
            d.pending_round_id, d.collectors, d.emitted, d.my_share,
            d.outgoing, d.started, d.extracted)
  BY <1>1, Zenon DEF DropMessage, Driver, Parts
<1>4. Parts(Recount(d), d.current_round_id, d.pending_message,
            d.pending_round_id, d.collectors, d.emitted, d.my_share,
            d.outgoing, d.started, d.extracted)
  BY <1>1, Zenon DEF Recount, Driver, Parts
<1>5. Parts(Waited(d), d.current_round_id, d.pending_message,
            d.pending_round_id, d.collectors, d.emitted, d.my_share,
            d.outgoing, d.started, d.extracted)
  BY <1>1, Zenon DEF Waited, Driver, Parts
<1>6. Parts(Forget(d), d.current_round_id, d.pending_message,
            {}, d.collectors, d.emitted, {},
            d.outgoing, d.started, d.extracted)
  BY <1>1, Zenon DEF Forget, Driver, Parts
<1> QED BY <1>2, <1>3, <1>4, <1>5, <1>6, Zenon

\* The updates of the collectors alone.
LEMMA CollectorUpdates ==
    ASSUME NEW d \in Driver
    PROVE  /\ \A gone :
                  Parts(DropCollectors(d, gone), d.current_round_id,
                        d.pending_message, d.pending_round_id,
                        d.collectors \ gone, d.emitted, d.my_share,
                        d.outgoing, d.started, d.extracted)
           /\ \A c \in Collector :
                  Parts(Store(d, c), d.current_round_id,
                        d.pending_message, d.pending_round_id,
                        WithCollector(d.collectors, c), d.emitted, d.my_share,
                        d.outgoing, d.started, d.extracted)
<1>1. ASSUME NEW gone
      PROVE  Parts(DropCollectors(d, gone), d.current_round_id,
                   d.pending_message, d.pending_round_id,
                   d.collectors \ gone, d.emitted, d.my_share,
                   d.outgoing, d.started, d.extracted)
  <2>1. DropCollectors(d, gone) \in Driver
    BY Zenon DEF DropCollectors, Driver
  <2> QED BY <2>1, Zenon DEF DropCollectors, Driver, Parts
<1>2. ASSUME NEW c \in Collector
      PROVE  Parts(Store(d, c), d.current_round_id,
                   d.pending_message, d.pending_round_id,
                   WithCollector(d.collectors, c), d.emitted, d.my_share,
                   d.outgoing, d.started, d.extracted)
  <2>1. WithCollector(d.collectors, c) \subseteq Collector
    BY Zenon DEF Driver, WithCollector
  <2>2. Store(d, c) \in Driver
    BY <2>1, Zenon DEF Store, Driver
  <2> QED BY <2>2, Zenon DEF Store, Driver, Parts
<1> QED BY <1>1, <1>2, Zenon

\* A share that can be computed is one (round_network.rs).
LEMMA ShareType ==
    ASSUME NEW round \in Nat, NEW n \in Node, NEW participants \in SUBSET Node,
           NEW message \in SUBSET Text, CanShare(n, participants, message, EdgeKey)
    PROVE  compute_xor_share_secure(round, n, participants, message, EdgeKey) \in Share
<1> DEFINE M == {derive_pair_share(EdgeKey[n][other], round, n, other) :
                    other \in participants \ {n}}
<1>1. ASSUME NEW other \in participants \ {n}
      PROVE  derive_pair_share(EdgeKey[n][other], round, n, other) \in MaskId
  <2>1. EdgeKey[n][other] \in Key
    BY EdgeAssumption, Zenon DEF EdgeKeys, CanShare
  <2>2. {n, other} \in SUBSET Node
    BY Zenon
  <2> QED BY <2>1, <2>2, Zenon DEF derive_pair_share, MaskId
<1>2. M \in SUBSET MaskId
  BY <1>1, Zenon
<1>3. compute_xor_share_secure(round, n, participants, message, EdgeKey) =
          [masks |-> M, texts |-> message]
  BY Zenon DEF compute_xor_share_secure
<1> HIDE DEF M
<1> QED BY <1>2, <1>3 DEF Share

\* Starts and shares are messages of their kinds.
LEMMA MessageTypes ==
    ASSUME NEW round \in Nat, NEW n \in Node, NEW participants \in SUBSET Node
    PROVE  /\ Starts(n, round, participants) \subseteq StartMsg
           /\ \A share \in Share : Shares(n, round, participants, share) \subseteq ShareMsg
BY Zenon DEF Starts, Shares, StartMsg, ShareMsg

\* A new collector is for its round and its participants, and empty.
LEMMA NewCollectorType ==
    ASSUME NEW round \in Nat, NEW participants \in SUBSET Node
    PROVE  /\ NewCollector(round, participants) \in Collector
           /\ NewCollector(round, participants).round = round
           /\ NewCollector(round, participants).participants = participants
           /\ NewCollector(round, participants).shares_received = {}
           /\ IsFiniteSet(NewCollector(round, participants).shares_received)
<1>1. /\ NewCollector(round, participants) \in Collector
      /\ NewCollector(round, participants).round = round
      /\ NewCollector(round, participants).participants = participants
      /\ NewCollector(round, participants).shares_received = {}
  BY Zenon DEF NewCollector, Collector
<1> QED BY <1>1, FS_EmptySet, Zenon

\* initiate, field by field (round_driver.rs:149).
LEMMA BeginParts ==
    ASSUME NEW d \in Driver, NEW n \in Node, NEW text \in Text,
           NEW participants \in SUBSET Node,
           CanShare(n, participants, {text}, EdgeKey)
    PROVE  Parts(Begin(d, n, text, participants), d.current_round_id + 1, {text},
                 {d.current_round_id + 1},
                 WithCollector(d.collectors,
                     NewCollector(d.current_round_id + 1, participants)),
                 d.emitted,
                 {compute_xor_share_secure(d.current_round_id + 1, n,
                                           participants, {text}, EdgeKey)},
                 d.outgoing \cup Starts(n, d.current_round_id + 1, participants),
                 d.started \cup {[round |-> d.current_round_id + 1, text |-> text]},
                 d.extracted)
<1> DEFINE r == d.current_round_id + 1
           share == compute_xor_share_secure(r, n, participants, {text}, EdgeKey)
           cs == WithCollector(d.collectors, NewCollector(r, participants))
           out == d.outgoing \cup Starts(n, r, participants)
           st == d.started \cup {[round |-> r, text |-> text]}
           e == Begin(d, n, text, participants)
<1>1. r \in Nat
  BY DEF Driver
<1>2. share \in Share
  BY <1>1, ShareType, Zenon
<1>3. cs \subseteq Collector
  <2>1. NewCollector(r, participants) \in Collector
    BY <1>1, NewCollectorType, Zenon
  <2> QED BY <2>1, Zenon DEF Driver, WithCollector
<1>4. out \subseteq StartMsg \cup ShareMsg
  <2>1. Starts(n, r, participants) \subseteq StartMsg
    BY <1>1, MessageTypes, Zenon
  <2> QED BY <2>1, Zenon DEF Driver
<1>5. st \subseteq [round : Nat, text : Text]
  BY <1>1 DEF Driver
<1>6. e = [d EXCEPT !.current_round_id = r, !.collectors = cs,
                    !.pending_message = {text}, !.pending_round_id = {r},
                    !.my_share = {share}, !.my_share_broadcast = FALSE,
                    !.retries = 0, !.outgoing = out, !.started = st]
  BY Zenon DEF Begin, next_round, Driver
<1> HIDE DEF r, share, cs, out, st, e
<1>7. e \in Driver
  BY <1>1, <1>2, <1>3, <1>4, <1>5, <1>6, Zenon DEF Driver
<1>8. Parts(e, r, {text}, {r}, cs, d.emitted, {share}, out, st, d.extracted)
  BY <1>6, <1>7, Zenon DEF Driver, Parts
<1> QED BY <1>8, Zenon DEF r, share, cs, out, st, e

\* The collector of a round joined with a neutral share.
Joined(n, m, share) == submit_share(NewCollector(m.round, m.participants), n, share)

\* Taking part, field by field (round_driver.rs:255).
LEMMA ParticipateParts ==
    ASSUME NEW d \in Driver, NEW n \in Node, NEW m \in StartMsg,
           NEW share,
           share = compute_xor_share_secure(m.round, n, m.participants, {}, EdgeKey)
    PROVE  \/ Participate(d, n, m) = d
           \/ /\ CanShare(n, m.participants, {}, EdgeKey)
              /\ share \in Share
              /\ Joined(n, m, share) \in Collector
              /\ Parts(Participate(d, n, m), d.current_round_id, d.pending_message,
                       d.pending_round_id,
                       WithCollector(d.collectors, Joined(n, m, share)),
                       d.emitted, d.my_share,
                       d.outgoing \cup Shares(n, m.round, m.participants, share),
                       d.started, d.extracted)
<1>1. CASE ~CanShare(n, m.participants, {}, EdgeKey)
  BY <1>1, Zenon DEF Participate
<1>2. CASE CanShare(n, m.participants, {}, EdgeKey)
  <2> DEFINE cs == WithCollector(d.collectors, Joined(n, m, share))
             out == d.outgoing \cup Shares(n, m.round, m.participants, share)
             e == Participate(d, n, m)
  <2>1. m.round \in Nat /\ m.participants \in SUBSET Node
    BY Zenon DEF StartMsg
  <2>2. share \in Share
    BY <1>2, <2>1, ShareType, Zenon
  <2>3. Joined(n, m, share) \in Collector
    BY <2>1, <2>2, NewCollectorType, Submitted, Zenon DEF Joined
  <2>4. cs \subseteq Collector
    BY <2>3, Zenon DEF Driver, WithCollector
  <2>5. out \subseteq StartMsg \cup ShareMsg
    <3>1. Shares(n, m.round, m.participants, share) \subseteq ShareMsg
      BY <2>1, <2>2, MessageTypes, Zenon
    <3> QED BY <3>1, Zenon DEF Driver
  <2>6. e = [d EXCEPT !.collectors = cs, !.outgoing = out]
    BY <1>2, Zenon DEF Participate, Joined, Driver
  <2> HIDE DEF cs, out, e
  <2>7. e \in Driver
    BY <2>4, <2>5, <2>6, Zenon DEF Driver
  <2>8. Parts(e, d.current_round_id, d.pending_message, d.pending_round_id, cs,
              d.emitted, d.my_share, out, d.started, d.extracted)
    BY <2>6, <2>7, Zenon DEF Driver, Parts
  <2> QED BY <1>2, <2>2, <2>3, <2>8, Zenon DEF cs, out, e
<1> QED BY <1>1, <1>2, Zenon

\* The driver that takes up the next round id, and the one that gives way.
LEMMA JoiningParts ==
    ASSUME NEW d \in Driver, NEW round \in Nat
    PROVE  /\ Parts([d EXCEPT !.current_round_id = round], round,
                    d.pending_message, d.pending_round_id, d.collectors, d.emitted,
                    d.my_share, d.outgoing, d.started, d.extracted)
           /\ Parts([abort_pending_round(d) EXCEPT !.retry_after_peer = {round}],
                    d.current_round_id, d.pending_message, {},
                    {c \in d.collectors : c.round \notin d.pending_round_id},
                    d.emitted, {}, d.outgoing, d.started, d.extracted)
<1> DEFINE a == [d EXCEPT !.current_round_id = round]
           b == [abort_pending_round(d) EXCEPT !.retry_after_peer = {round}]
           cs == {c \in d.collectors : c.round \notin d.pending_round_id}
<1>1. a \in Driver
  BY Zenon DEF Driver
<1>2. Parts(a, round, d.pending_message, d.pending_round_id, d.collectors, d.emitted,
            d.my_share, d.outgoing, d.started, d.extracted)
  BY <1>1, Zenon DEF Driver, Parts
<1>3. b = [d EXCEPT !.collectors = cs, !.pending_round_id = {}, !.my_share = {},
                    !.my_share_broadcast = FALSE, !.retry_after_peer = {round}]
  BY Zenon DEF abort_pending_round, Forget, Driver
<1>4. cs \subseteq Collector
  BY Zenon DEF Driver
<1> HIDE DEF a, b, cs
<1>5. b \in Driver
  BY <1>3, <1>4, Zenon DEF Driver
<1>6. Parts(b, d.current_round_id, d.pending_message, {}, cs, d.emitted, {},
            d.outgoing, d.started, d.extracted)
  BY <1>3, <1>5, Zenon DEF Driver, Parts
<1> QED BY <1>2, <1>6, Zenon DEF a, b, cs

\* What a complete round adds to the emitted ids and to the result.
Emits(d, c) == IF ExtractedOk(d, c) THEN d.emitted \cup {c.round} ELSE d.emitted
Extracts(d, c) ==
    IF ExtractedOk(d, c)
    THEN d.extracted \cup [round : {c.round}, text : unpad_message(extract_message(c))]
    ELSE d.extracted

\* What is extracted from a collector is a text.
LEMMA ExtractType ==
    ASSUME NEW c \in Collector
    PROVE  unpad_message(extract_message(c)) \subseteq Text
<1>1. \A e \in c.shares_received : e.share.texts \subseteq Text
  BY Zenon DEF Collector, Entry, Share
<1> QED BY <1>1, ZenonT(40) DEF unpad_message, extract_message, TextsLeft

\* What noting a complete round changes in the driver, field by field.
LEMMA NotedParts ==
    ASSUME NEW d \in Driver, NEW c \in Collector
    PROVE  Parts(Noted(d, c), d.current_round_id, d.pending_message,
                 d.pending_round_id, WithoutCollector(d.collectors, c.round),
                 Emits(d, c), d.my_share, d.outgoing, d.started, Extracts(d, c))
<1> DEFINE e == Noted(d, c)
           cs == WithoutCollector(d.collectors, c.round)
           em == Emits(d, c)
           ex == Extracts(d, c)
<1>1. cs \subseteq Collector
  BY Zenon DEF Driver, WithoutCollector
<1>2. em \subseteq Nat
  BY Zenon DEF Driver, Emits, Collector
<1>3. ex \subseteq [round : Nat, text : Text]
  <2>1. c.round \in Nat
    BY Zenon DEF Collector
  <2>2. [round : {c.round}, text : unpad_message(extract_message(c))]
            \subseteq [round : Nat, text : Text]
    BY <2>1, ExtractType, Zenon
  <2> QED BY <2>2, Zenon DEF Driver, Extracts
<1>4. e = [d EXCEPT !.collectors = cs, !.emitted = em, !.extracted = ex]
  <2>1. CASE ExtractedOk(d, c)
    BY <2>1, Zenon DEF Noted, Emit, Emits, Extracts, Driver
  <2>2. CASE ~ExtractedOk(d, c)
    BY <2>2, Zenon DEF Noted, Emit, Emits, Extracts, Driver
  <2> QED BY <2>1, <2>2, Zenon
<1> HIDE DEF e, cs, em, ex
<1>5. e \in Driver
  BY <1>1, <1>2, <1>3, <1>4, Zenon DEF Driver
<1>6. Parts(e, d.current_round_id, d.pending_message, d.pending_round_id, cs, em,
            d.my_share, d.outgoing, d.started, ex)
  BY <1>4, <1>5, Zenon DEF Driver, Parts
<1> QED BY <1>6, Zenon DEF e, cs, em, ex

\* Our message share goes out and completes our round, field by field
\* (round_driver.rs:327).
LEMMA FinishedParts ==
    ASSUME NEW d \in Driver, NEW n \in Node, NEW c \in Collector, NEW mine \in Share,
           NEW full, full = submit_share(c, n, mine)
    PROVE  Parts(Finished(d, n, c, mine), d.current_round_id,
                 IF ExtractedOk(d, full) THEN {} ELSE d.pending_message,
                 {}, WithoutCollector(d.collectors, c.round),
                 Emits(d, full), {},
                 d.outgoing \cup Shares(n, c.round, c.participants, mine),
                 d.started, Extracts(d, full))
<1> DEFINE after == Broadcast(d, n, c, mine)
           cs == WithCollector(d.collectors, full)
           out == d.outgoing \cup Shares(n, c.round, c.participants, mine)
           noted == Noted(after, full)
           forgot == Forget(noted)
<1>1. full \in Collector /\ full.round = c.round
  BY Submitted
<1>2. cs \subseteq Collector
  BY <1>1, Zenon DEF Driver, WithCollector
<1>3. out \subseteq StartMsg \cup ShareMsg
  <2>1. c.round \in Nat /\ c.participants \in SUBSET Node
    BY Zenon DEF Collector
  <2>2. Shares(n, c.round, c.participants, mine) \subseteq ShareMsg
    BY <2>1, MessageTypes, Zenon
  <2> QED BY <2>2, Zenon DEF Driver
<1>4. after = [d EXCEPT !.collectors = cs, !.my_share_broadcast = TRUE, !.outgoing = out]
  BY Zenon DEF Broadcast, Driver
<1>5. Finished(d, n, c, mine) =
          IF ExtractedOk(after, full) THEN DropMessage(forgot) ELSE forgot
  BY Zenon DEF Finished
<1> HIDE DEF after, cs, out
<1>6. after \in Driver
  BY <1>2, <1>3, <1>4, Zenon DEF Driver
<1>7. Parts(after, d.current_round_id, d.pending_message, d.pending_round_id, cs,
            d.emitted, d.my_share, out, d.started, d.extracted)
  BY <1>4, <1>6, Zenon DEF Driver, Parts
<1>8. /\ ExtractedOk(after, full) = ExtractedOk(d, full)
      /\ Emits(after, full) = Emits(d, full) /\ Extracts(after, full) = Extracts(d, full)
  BY <1>7, Zenon DEF Parts, ExtractedOk, Emits, Extracts
<1>9. Parts(noted, d.current_round_id, d.pending_message, d.pending_round_id,
            WithoutCollector(cs, full.round), Emits(d, full), d.my_share, out,
            d.started, Extracts(d, full))
  <2>1. Parts(noted, after.current_round_id, after.pending_message,
              after.pending_round_id, WithoutCollector(after.collectors, full.round),
              Emits(after, full), after.my_share, after.outgoing, after.started,
              Extracts(after, full))
    BY <1>1, <1>6, NotedParts, Zenon
  <2> QED BY <1>7, <1>8, <2>1, Zenon DEF Parts
<1>10. WithoutCollector(cs, full.round) = WithoutCollector(d.collectors, c.round)
  BY <1>1, Zenon DEF cs, WithCollector, WithoutCollector
<1> HIDE DEF noted
<1>11. Parts(forgot, d.current_round_id, d.pending_message, {},
             WithoutCollector(d.collectors, c.round), Emits(d, full), {}, out,
             d.started, Extracts(d, full))
  <2>1. noted \in Driver
    BY <1>9, Zenon DEF Parts
  <2>2. Parts(forgot, noted.current_round_id, noted.pending_message, {},
              noted.collectors, noted.emitted, {}, noted.outgoing, noted.started,
              noted.extracted)
    BY <2>1, SmallUpdates, Zenon
  <2> QED BY <1>9, <1>10, <2>2, Zenon DEF Parts
<1> HIDE DEF forgot
<1>12. Parts(DropMessage(forgot), d.current_round_id, {}, {},
             WithoutCollector(d.collectors, c.round), Emits(d, full), {}, out,
             d.started, Extracts(d, full))
  <2>1. forgot \in Driver
    BY <1>11, Zenon DEF Parts
  <2>2. Parts(DropMessage(forgot), forgot.current_round_id, {},
              forgot.pending_round_id, forgot.collectors, forgot.emitted,
              forgot.my_share, forgot.outgoing, forgot.started, forgot.extracted)
    BY <2>1, SmallUpdates, Zenon
  <2> QED BY <1>11, <2>2, Zenon DEF Parts
<1>13. CASE ExtractedOk(d, full)
  BY <1>5, <1>8, <1>12, <1>13, Zenon DEF out
<1>14. CASE ~ExtractedOk(d, full)
  BY <1>5, <1>8, <1>11, <1>14, Zenon DEF out
<1> QED BY <1>13, <1>14, Zenon

---------------------------------------------------------------------------
(***************************************************************************)
(* Types, and one share per node and round, for all participant lists.      *)
(***************************************************************************)
SentShare == [node : Node, round : Nat, share : Share]

\* The shares among the messages a call returns.
Out(n, out) ==
    {[node |-> n, round |-> m.round, share |-> m.share] :
        m \in {s \in out : s.type = "DcRoundShare"}}

\* The shares a call returns are shares of the node.
LEMMA OutType ==
    ASSUME NEW n \in Node, NEW out \in SUBSET (StartMsg \cup ShareMsg)
    PROVE  Out(n, out) \subseteq SentShare
<1>1. ASSUME NEW m \in out, m.type = "DcRoundShare" PROVE m \in ShareMsg
  BY <1>1, Zenon DEF StartMsg
<1>2. \A m \in ShareMsg : m.round \in Nat /\ m.share \in Share
  BY Zenon DEF ShareMsg
<1> QED BY <1>1, <1>2 DEF Out, SentShare

\* Returning starts returns no share.
LEMMA OutStarts ==
    ASSUME NEW n, NEW out, NEW round, NEW participants
    PROVE  Out(n, out \cup Starts(n, round, participants)) = Out(n, out)
<1>1. \A m \in Starts(n, round, participants) : m.type = "DcRoundStart"
  BY Zenon DEF Starts
<1>2. {s \in out \cup Starts(n, round, participants) : s.type = "DcRoundShare"} =
          {s \in out : s.type = "DcRoundShare"}
  BY <1>1, Zenon
<1> QED BY <1>2, Zenon DEF Out

\* Returning a round's shares returns one share, the same for every peer.
LEMMA OutShares ==
    ASSUME NEW n, NEW out, NEW round, NEW participants, NEW share,
           participants \ {n} # {}
    PROVE  Out(n, out \cup Shares(n, round, participants, share)) =
               Out(n, out) \cup {[node |-> n, round |-> round, share |-> share]}
<1> DEFINE S == Shares(n, round, participants, share)
           x(m) == [node |-> n, round |-> m.round, share |-> m.share]
           y == [node |-> n, round |-> round, share |-> share]
<1>1. \A m \in S : m.type = "DcRoundShare" /\ x(m) = y
  BY Zenon DEF Shares
<1>2. S # {}
  <2>1. PICK q \in participants \ {n} : TRUE
    BY Zenon
  <2>2. [type |-> "DcRoundShare", src |-> n, dst |-> q, round |-> round,
         share |-> share] \in S
    BY Zenon DEF Shares
  <2> QED BY <2>2, Zenon
<1>3. \A z : Out(n, z) = {x(m) : m \in {s \in z : s.type = "DcRoundShare"}}
  BY Zenon DEF Out
<1> HIDE DEF S, x, y
<1>4. Out(n, out \cup S) = Out(n, out) \cup {y}
  BY <1>1, <1>2, <1>3
<1> QED BY <1>4, Zenon DEF S, y

\* A node that can compute a share has somebody to send it to.
LEMMA SomebodyElse ==
    ASSUME NEW n, NEW participants \in SUBSET Node, NEW message,
           CanShare(n, participants, message, EdgeKey)
    PROVE  participants \ {n} # {}
<1> SUFFICES ASSUME participants \ {n} = {} PROVE FALSE
  BY Zenon
<1>1. participants = {n}
  BY Zenon DEF CanShare
<1>2. Cardinality(participants) = 1
  BY <1>1, FS_Singleton, Zenon
<1> QED BY <1>2 DEF CanShare

\* A node has sent nothing above its round counter, nothing for the round it
\* initiated, and one share per round; T is the set of the shares sent.
Fresh(n, current, pending, T) ==
    /\ \A s \in T : s.node = n => s.round <= current
    /\ \A r \in pending :
           r <= current /\ \A s \in T : s.node = n => s.round # r
    /\ \A s, t \in T : s.node = n /\ t.node = n /\ s.round = t.round => s = t

\* How Fresh changes.
LEMMA FreshLess ==
    ASSUME NEW n, NEW current, NEW pending, NEW T, Fresh(n, current, pending, T),
           NEW less \in SUBSET pending
    PROVE  Fresh(n, current, less, T)
BY Zenon DEF Fresh

\* A round id above the counter is fresh for a new round or a share.
LEMMA FreshNext ==
    ASSUME NEW n, NEW current \in Nat, NEW pending \in SUBSET Nat,
           NEW T \in SUBSET SentShare, Fresh(n, current, pending, T)
    PROVE  /\ Fresh(n, current + 1, {current + 1}, T)
           /\ Fresh(n, current + 1, pending, T)
           /\ \A share : Fresh(n, current + 1, pending,
                  T \cup {[node |-> n, round |-> current + 1, share |-> share]})
<1>1. \A s \in T : s.round \in Nat
  BY Zenon DEF SentShare
<1>2. Fresh(n, current + 1, {current + 1}, T) /\ Fresh(n, current + 1, pending, T)
  BY <1>1 DEF Fresh
<1>3. ASSUME NEW share
      PROVE  Fresh(n, current + 1, pending,
                 T \cup {[node |-> n, round |-> current + 1, share |-> share]})
  <2> DEFINE x == [node |-> n, round |-> current + 1, share |-> share]
  <2>1. x.node = n /\ x.round = current + 1
    BY Zenon
  <2> HIDE DEF x
  <2>2. Fresh(n, current + 1, pending, T \cup {x})
    BY <1>1, <2>1 DEF Fresh
  <2> QED BY <2>2, Zenon DEF x
<1> QED BY <1>2, <1>3, Zenon

\* The share kept back for the pending round can be sent once.
LEMMA FreshSent ==
    ASSUME NEW n, NEW current \in Nat, NEW r, NEW T, NEW share,
           Fresh(n, current, {r}, T)
    PROVE  Fresh(n, current, {}, T \cup {[node |-> n, round |-> r, share |-> share]})
<1> DEFINE x == [node |-> n, round |-> r, share |-> share]
<1>1. x.node = n /\ x.round = r
  BY Zenon
<1> HIDE DEF x
<1>2. Fresh(n, current, {}, T \cup {x})
  BY <1>1, Zenon DEF Fresh
<1> QED BY <1>2, Zenon DEF x

Collected(cs) ==
    \A c \in cs : IsFiniteSet(c.shares_received) /\ c.participants \in Groups

\* The starts among the messages a call returns name a list of the channel.
Listed(out) == \A m \in out : m.type = "DcRoundStart" => m.participants \in Groups

\* Starts for a list of the channel, and any shares, keep the messages listed.
LEMMA ListedKept ==
    ASSUME NEW out, Listed(out), NEW n, NEW round, NEW participants
    PROVE  /\ participants \in Groups => Listed(out \cup Starts(n, round, participants))
           /\ \A share : Listed(out \cup Shares(n, round, participants, share))
<1>1. \A m \in Starts(n, round, participants) : m.participants = participants
  BY Zenon DEF Starts
<1>2. \A share : \A m \in Shares(n, round, participants, share) : m.type = "DcRoundShare"
  BY Zenon DEF Shares
<1> QED BY <1>1, <1>2, Zenon DEF Listed

\* The drivers of node n when S has been sent before the call.
Sound(n, S) ==
    {d \in Driver :
        /\ Collected(d.collectors)
        /\ Listed(d.outgoing)
        /\ Fresh(n, d.current_round_id, d.pending_round_id, S \cup Out(n, d.outgoing))}

\* A driver is sound when its fields are.
LEMMA SoundBy ==
    ASSUME NEW n, NEW S, NEW e, NEW cur, NEW msg, NEW pend, NEW cs, NEW em, NEW sh,
           NEW out, NEW st, NEW ex, Parts(e, cur, msg, pend, cs, em, sh, out, st, ex),
           Collected(cs), Listed(out), Fresh(n, cur, pend, S \cup Out(n, out))
    PROVE  e \in Sound(n, S)
BY Zenon DEF Sound, Parts

\* Collectors stay as they should be when one is dropped or replaced.
LEMMA CollectedKept ==
    ASSUME NEW cs, Collected(cs)
    PROVE  /\ \A gone : Collected(cs \ gone)
           /\ \A round : Collected(WithoutCollector(cs, round))
           /\ \A c : /\ IsFiniteSet(c.shares_received)
                     /\ c.participants \in Groups
                     => Collected(WithCollector(cs, c))
BY Zenon DEF Collected, WithoutCollector, WithCollector

\* What a sound driver offers to the proofs below.
LEMMA SoundFacts ==
    ASSUME NEW n \in Node, NEW S \in SUBSET SentShare, NEW d \in Sound(n, S)
    PROVE  /\ d \in Driver /\ Collected(d.collectors) /\ Listed(d.outgoing)
           /\ Fresh(n, d.current_round_id, d.pending_round_id, S \cup Out(n, d.outgoing))
           /\ d.current_round_id \in Nat /\ d.pending_round_id \in SUBSET Nat
           /\ d.pending_message \in SUBSET Text
           /\ S \cup Out(n, d.outgoing) \in SUBSET SentShare
<1>1. /\ d \in Driver /\ Collected(d.collectors) /\ Listed(d.outgoing)
      /\ Fresh(n, d.current_round_id, d.pending_round_id, S \cup Out(n, d.outgoing))
  BY Zenon DEF Sound
<1>2. /\ d.current_round_id \in Nat /\ d.pending_round_id \in SUBSET Nat
      /\ d.pending_message \in SUBSET Text
      /\ d.outgoing \in SUBSET (StartMsg \cup ShareMsg)
  BY <1>1, Zenon DEF Driver
<1>3. Out(n, d.outgoing) \subseteq SentShare
  BY <1>2, OutType, Zenon
<1> QED BY <1>1, <1>2, <1>3, Zenon

\* A round begun is above everything its node has sent.
LEMMA SoundBegin ==
    ASSUME NEW n \in Node, NEW S \in SUBSET SentShare, NEW d \in Sound(n, S),
           NEW text \in Text, NEW participants \in Groups,
           CanShare(n, participants, {text}, EdgeKey)
    PROVE  Begin(d, n, text, participants) \in Sound(n, S)
<1> DEFINE r == d.current_round_id + 1
           c == NewCollector(r, participants)
<1>1. d \in Driver /\ participants \in SUBSET Node /\ r \in Nat
  <2>1. participants \in SUBSET Node
    BY GroupAssumption, Zenon
  <2>2. d \in Driver /\ d.current_round_id \in Nat
    BY SoundFacts, Zenon
  <2>3. r \in Nat
    BY <2>2
  <2> QED BY <2>1, <2>2, <2>3, Zenon
<1>2. IsFiniteSet(c.shares_received) /\ c.participants \in Groups
  BY <1>1, NewCollectorType, Zenon
<1>3. Collected(WithCollector(d.collectors, c))
  <2> HIDE DEF c
  <2> QED BY <1>2, SoundFacts, CollectedKept, Zenon
<1>4. Fresh(n, r, {r}, S \cup Out(n, d.outgoing \cup Starts(n, r, participants)))
  <2>1. Fresh(n, r, {r}, S \cup Out(n, d.outgoing))
    BY SoundFacts, FreshNext, ZenonT(40)
  <2>2. Out(n, d.outgoing \cup Starts(n, r, participants)) = Out(n, d.outgoing)
    BY OutStarts, ZenonT(40)
  <2> QED BY <2>1, <2>2, Zenon
<1>5. Parts(Begin(d, n, text, participants), r, {text}, {r},
            WithCollector(d.collectors, c), d.emitted,
            {compute_xor_share_secure(r, n, participants, {text}, EdgeKey)},
            d.outgoing \cup Starts(n, r, participants),
            d.started \cup {[round |-> r, text |-> text]}, d.extracted)
  BY <1>1, BeginParts, Zenon
<1>6. Listed(d.outgoing \cup Starts(n, r, participants))
  BY SoundFacts, ListedKept, Zenon
<1> HIDE DEF r, c
<1> QED BY <1>3, <1>4, <1>5, <1>6, SoundBy, Zenon

\* The drivers stay sound at the end of a round.
LEMMA SoundEndable ==
    ASSUME NEW n \in Node, NEW S \in SUBSET SentShare
    PROVE  Endable(Sound(n, S), n)
<1> DEFINE K == Sound(n, S)
<1>1. ASSUME NEW d \in K
      PROVE  /\ d \in Driver /\ Collected(d.collectors) /\ Listed(d.outgoing)
             /\ Fresh(n, d.current_round_id, d.pending_round_id, S \cup Out(n, d.outgoing))
             /\ d.current_round_id \in Nat /\ d.pending_round_id \in SUBSET Nat
             /\ d.pending_message \in SUBSET Text
             /\ S \cup Out(n, d.outgoing) \in SUBSET SentShare
  BY <1>1, SoundFacts, Zenon
<1> HIDE DEF K
<1>2. ASSUME NEW d \in K
      PROVE  /\ Skip(d) \in K /\ DropMessage(d) \in K /\ Recount(d) \in K
             /\ Forget(d) \in K /\ Waited(d) \in K
  <2>1. Fresh(n, d.current_round_id + 1, d.pending_round_id, S \cup Out(n, d.outgoing))
    BY <1>1, <1>2, FreshNext, Zenon
  <2>2. Fresh(n, d.current_round_id, {}, S \cup Out(n, d.outgoing))
    BY <1>1, <1>2, FreshLess, Zenon
  <2>3. Skip(d) \in K
    BY <1>1, <1>2, <2>1, SmallUpdates, SoundBy, Zenon DEF K
  <2>4. DropMessage(d) \in K
    BY <1>1, <1>2, SmallUpdates, SoundBy, Zenon DEF K
  <2>5. Recount(d) \in K
    BY <1>1, <1>2, SmallUpdates, SoundBy, Zenon DEF K
  <2>6. Waited(d) \in K
    BY <1>1, <1>2, SmallUpdates, SoundBy, Zenon DEF K
  <2>7. Forget(d) \in K
    BY <1>1, <1>2, <2>2, SmallUpdates, SoundBy, Zenon DEF K
  <2> QED BY <2>3, <2>4, <2>5, <2>6, <2>7, Zenon
<1>3. ASSUME NEW d \in K, NEW text \in d.pending_message, NEW participants \in Groups,
             CanShare(n, participants, {text}, EdgeKey)
      PROVE  Begin(d, n, text, participants) \in K
  <2>1. text \in Text
    BY <1>1, <1>3, Zenon
  <2> QED BY <1>3, <2>1, SoundBegin, Zenon DEF K
<1>4. ASSUME NEW d \in K, NEW gone \in SUBSET d.collectors
      PROVE  DropCollectors(d, gone) \in K
  <2>1. Collected(d.collectors \ gone)
    BY <1>1, <1>4, CollectedKept, Zenon
  <2>2. Parts(DropCollectors(d, gone), d.current_round_id,
                   d.pending_message, d.pending_round_id,
                   d.collectors \ gone, d.emitted, d.my_share,
                   d.outgoing, d.started, d.extracted)
    BY <1>1, <1>4, CollectorUpdates, Zenon
  <2> QED BY <1>1, <1>4, <2>1, <2>2, SoundBy, Zenon DEF K
<1>5. Retriable(K, n)
  BY <1>1, <1>2, <1>3, Zenon DEF Retriable
<1>6. \A d \in K : \A c \in d.collectors : c.participants \in Groups
  BY <1>1, ZenonT(40) DEF Collected
<1>7. Endable(K, n)
  BY <1>2, <1>4, <1>5, <1>6, Zenon DEF Endable
<1> QED BY <1>7, Zenon DEF K

\* A start keeps the drivers sound: the share for it is the first of its round.
LEMMA SoundJoinable ==
    ASSUME NEW n \in Node, NEW S \in SUBSET SentShare, NEW m \in StartMsg,
           m.participants \in Groups
    PROVE  Joinable(Sound(n, S), n, m)
<1> DEFINE share == compute_xor_share_secure(m.round, n, m.participants, {}, EdgeKey)
           sent0 == [node |-> n, round |-> m.round, share |-> share]
<1>0. m.round \in Nat /\ m.participants \in SUBSET Node
  BY Zenon DEF StartMsg
<1>1. ASSUME NEW d \in Driver, Collected(d.collectors), Listed(d.outgoing),
             CanShare(n, m.participants, {}, EdgeKey),
             Joined(n, m, share) \in Collector,
             Fresh(n, d.current_round_id, d.pending_round_id,
                   (S \cup Out(n, d.outgoing)) \cup {sent0}),
             Parts(Participate(d, n, m), d.current_round_id, d.pending_message,
                   d.pending_round_id,
                   WithCollector(d.collectors, Joined(n, m, share)),
                   d.emitted, d.my_share,
                   d.outgoing \cup Shares(n, m.round, m.participants, share),
                   d.started, d.extracted)
      PROVE  Participate(d, n, m) \in Sound(n, S)
  <2>1. Out(n, d.outgoing \cup Shares(n, m.round, m.participants, share)) =
            Out(n, d.outgoing) \cup {sent0}
    <3>1. m.participants \ {n} # {}
      BY <1>0, <1>1, SomebodyElse, ZenonT(40)
    <3> QED BY <3>1, OutShares
  <2>2. /\ IsFiniteSet(Joined(n, m, share).shares_received)
        /\ Joined(n, m, share).participants = m.participants
    BY <1>0, NewCollectorType, Submitted DEF Joined
  <2>3. Collected(WithCollector(d.collectors, Joined(n, m, share)))
    BY <1>1, <2>2, CollectedKept, ZenonT(40)
  <2>4. Fresh(n, d.current_round_id, d.pending_round_id,
              S \cup Out(n, d.outgoing \cup Shares(n, m.round, m.participants, share)))
    <3>1. (S \cup Out(n, d.outgoing)) \cup {sent0} =
              S \cup (Out(n, d.outgoing) \cup {sent0})
      BY Zenon
    <3> QED BY <1>1, <2>1, <3>1, Zenon
  <2> HIDE DEF share, sent0
  <2>5. Listed(d.outgoing \cup Shares(n, m.round, m.participants, share))
    BY <1>1, ListedKept, Zenon
  <2> QED BY <1>1, <2>3, <2>4, <2>5, SoundBy, ZenonT(40)
<1>2. ASSUME NEW d \in Sound(n, S), mark_seen(d.current_round_id, m.round)
      PROVE  Participate([d EXCEPT !.current_round_id = m.round], n, m) \in Sound(n, S)
  <2> DEFINE e == [d EXCEPT !.current_round_id = m.round]
             T == S \cup Out(n, d.outgoing)
  <2>1. /\ d \in Driver /\ Collected(d.collectors) /\ Listed(d.outgoing)
        /\ Fresh(n, d.current_round_id, d.pending_round_id, T)
    BY <1>2, Zenon DEF Sound
  <2>2. /\ d.current_round_id \in Nat /\ d.pending_round_id \in SUBSET Nat
        /\ m.round = d.current_round_id + 1 /\ T \in SUBSET SentShare
    <3>1. /\ d.current_round_id \in Nat /\ d.pending_round_id \in SUBSET Nat
          /\ d.outgoing \in SUBSET (StartMsg \cup ShareMsg)
      BY <2>1, Zenon DEF Driver
    <3>2. Out(n, d.outgoing) \in SUBSET SentShare
      BY <3>1, OutType, Zenon
    <3> QED BY <1>2, <3>1, <3>2, Zenon DEF mark_seen
  <2>3. Parts(e, m.round, d.pending_message, d.pending_round_id, d.collectors,
              d.emitted, d.my_share, d.outgoing, d.started, d.extracted)
    BY <1>0, <2>1, JoiningParts, Zenon
  <2>4. /\ e \in Driver /\ Collected(e.collectors) /\ Listed(e.outgoing)
        /\ e.current_round_id = m.round /\ e.pending_round_id = d.pending_round_id
        /\ S \cup Out(n, e.outgoing) = T
    BY <2>1, <2>3, Zenon DEF Parts
  <2>5. Fresh(n, m.round, d.pending_round_id, T)
    BY <2>1, <2>2, FreshNext, Zenon
  <2>6. Fresh(n, m.round, d.pending_round_id, T \cup {sent0})
    <3> HIDE DEF T, share
    <3>1. Fresh(n, d.current_round_id + 1, d.pending_round_id,
                T \cup {[node |-> n, round |-> d.current_round_id + 1, share |-> share]})
      BY <2>1, <2>2, FreshNext, ZenonT(40)
    <3> QED BY <2>2, <3>1, Zenon
  <2> HIDE DEF e, T, share, sent0
  <2>7. e \in Sound(n, S)
    BY <2>4, <2>5, Zenon DEF Sound
  <2>8. \/ Participate(e, n, m) = e
        \/ /\ CanShare(n, m.participants, {}, EdgeKey)
           /\ Joined(n, m, share) \in Collector
           /\ Parts(Participate(e, n, m), e.current_round_id, e.pending_message,
                    e.pending_round_id,
                    WithCollector(e.collectors, Joined(n, m, share)),
                    e.emitted, e.my_share,
                    e.outgoing \cup Shares(n, m.round, m.participants, share),
                    e.started, e.extracted)
    BY <2>4, ParticipateParts, Zenon DEF share
  <2>9. Participate(e, n, m) \in Sound(n, S)
    BY <1>1, <2>4, <2>6, <2>7, <2>8, Zenon
  <2> QED BY <2>9, Zenon DEF e
<1>3. ASSUME NEW d \in Sound(n, S), d.pending_round_id = {m.round}
      PROVE  Participate([abort_pending_round(d) EXCEPT !.retry_after_peer = {m.round}],
                         n, m) \in Sound(n, S)
  <2> DEFINE e == [abort_pending_round(d) EXCEPT !.retry_after_peer = {m.round}]
             T == S \cup Out(n, d.outgoing)
             cs == {c \in d.collectors : c.round \notin d.pending_round_id}
  <2>1. /\ d \in Driver /\ Collected(d.collectors) /\ Listed(d.outgoing)
        /\ d.current_round_id \in Nat
        /\ Fresh(n, d.current_round_id, {m.round}, T)
    BY <1>3, Zenon DEF Sound, Driver
  <2>2. Parts(e, d.current_round_id, d.pending_message, {}, cs,
              d.emitted, {}, d.outgoing, d.started, d.extracted)
    BY <1>0, <2>1, JoiningParts, ZenonT(40)
  <2>3. Collected(cs)
    BY <2>1, Zenon DEF Collected
  <2>4. /\ e \in Driver /\ Collected(e.collectors) /\ Listed(e.outgoing)
        /\ e.current_round_id = d.current_round_id /\ e.pending_round_id = {}
        /\ S \cup Out(n, e.outgoing) = T
    BY <2>1, <2>2, <2>3, Zenon DEF Parts
  <2>5. Fresh(n, d.current_round_id, {}, T)
    BY <2>1, FreshLess, Zenon
  <2>6. Fresh(n, d.current_round_id, {}, T \cup {sent0})
    BY <2>1, FreshSent, ZenonT(40)
  <2> HIDE DEF e, T, share, sent0
  <2>7. e \in Sound(n, S)
    BY <2>4, <2>5, Zenon DEF Sound
  <2>8. \/ Participate(e, n, m) = e
        \/ /\ CanShare(n, m.participants, {}, EdgeKey)
           /\ Joined(n, m, share) \in Collector
           /\ Parts(Participate(e, n, m), e.current_round_id, e.pending_message,
                    e.pending_round_id,
                    WithCollector(e.collectors, Joined(n, m, share)),
                    e.emitted, e.my_share,
                    e.outgoing \cup Shares(n, m.round, m.participants, share),
                    e.started, e.extracted)
    BY <2>4, ParticipateParts, Zenon DEF share
  <2>9. Participate(e, n, m) \in Sound(n, S)
    BY <1>1, <2>4, <2>6, <2>7, <2>8, Zenon
  <2> QED BY <2>9, Zenon DEF e
<1> QED BY <1>2, <1>3, Zenon DEF Joinable

\* A share keeps the drivers sound: our own share goes out once, when every
\* other one is in.
LEMMA SoundSharable ==
    ASSUME NEW n \in Node, NEW S \in SUBSET SentShare, NEW m \in ShareMsg
    PROVE  Sharable(Sound(n, S), n, m)
<1> DEFINE K == Sound(n, S)
<1>1. ASSUME NEW d \in K, NEW c \in d.collectors
      PROVE  /\ d \in Driver /\ Collected(d.collectors) /\ Listed(d.outgoing)
             /\ c \in Collector
             /\ Fresh(n, d.current_round_id, d.pending_round_id, S \cup Out(n, d.outgoing))
             /\ d.current_round_id \in Nat /\ d.my_share \in SUBSET Share
             /\ IsFiniteSet(c.shares_received) /\ c.participants \in Groups
             /\ IsFiniteSet(c.participants)
  <2>1. /\ d \in Driver /\ Collected(d.collectors) /\ Listed(d.outgoing)
        /\ Fresh(n, d.current_round_id, d.pending_round_id, S \cup Out(n, d.outgoing))
    BY <1>1, Zenon DEF Sound
  <2>2. d.current_round_id \in Nat /\ d.my_share \in SUBSET Share /\ c \in Collector
    BY <1>1, <2>1, Zenon DEF Driver
  <2>3. IsFiniteSet(c.shares_received) /\ c.participants \in Groups
    BY <1>1, <2>1, Zenon DEF Collected
  <2>4. IsFiniteSet(c.participants)
    <3>1. c.participants \in SUBSET Node
      BY <2>3, GroupAssumption, Zenon
    <3> QED BY <3>1, NodeAssumption, FS_Subset, Zenon
  <2> QED BY <2>1, <2>2, <2>3, <2>4, Zenon
<1>2. Endable(K, n)
  BY SoundEndable, Zenon
<1> HIDE DEF K
<1>3. ASSUME NEW d \in K, NEW c \in d.collectors
      PROVE  Noted(d, c) \in K
  <2>1. Collected(WithoutCollector(d.collectors, c.round))
    BY <1>1, <1>3, CollectedKept, Zenon
  <2>2. Parts(Noted(d, c), d.current_round_id, d.pending_message,
              d.pending_round_id, WithoutCollector(d.collectors, c.round),
              Emits(d, c), d.my_share, d.outgoing, d.started, Extracts(d, c))
    BY <1>1, <1>3, NotedParts, Zenon
  <2> QED BY <1>1, <1>3, <2>1, <2>2, SoundBy, Zenon DEF K
<1>4. ASSUME NEW d \in K, NEW c \in d.collectors, Accepts(c, m.src)
      PROVE  LET x == submit_share(c, m.src, m.share) IN
             /\ x \in Collector /\ IsFiniteSet(x.shares_received)
             /\ x.participants = c.participants /\ x.round = c.round
             /\ m.src \in Senders(x) /\ m.src \in x.participants
  <2>1. c \in Collector /\ IsFiniteSet(c.shares_received)
    BY <1>1, <1>4, Zenon
  <2>2. m.src \in Node /\ m.share \in Share
    BY Zenon DEF ShareMsg
  <2>3. m.src \in c.participants
    BY <1>4, Zenon DEF Accepts
  <2> QED BY <2>1, <2>2, <2>3, Submitted
<1>5. ASSUME NEW d \in K, NEW c \in d.collectors, Accepts(c, m.src)
      PROVE  Store(d, submit_share(c, m.src, m.share)) \in K
  <2> DEFINE x == submit_share(c, m.src, m.share)
  <2>1. x \in Collector /\ IsFiniteSet(x.shares_received) /\ x.participants \in Groups
    BY <1>1, <1>4, <1>5, Zenon
  <2> HIDE DEF x
  <2>2. Collected(WithCollector(d.collectors, x))
    BY <1>1, <1>5, <2>1, CollectedKept, Zenon
  <2>3. Parts(Store(d, x), d.current_round_id,
              d.pending_message, d.pending_round_id,
              WithCollector(d.collectors, x), d.emitted, d.my_share,
              d.outgoing, d.started, d.extracted)
    BY <1>1, <1>5, <2>1, CollectorUpdates, Zenon
  <2>4. Store(d, x) \in K
    BY <1>1, <1>5, <2>2, <2>3, SoundBy, Zenon DEF K
  <2> QED BY <2>4, Zenon DEF x
<1>6. ASSUME NEW d \in K, NEW c \in d.collectors, Accepts(c, m.src),
             MineIsDue(d, n, submit_share(c, m.src, m.share)), NEW mine \in d.my_share
      PROVE  Finished(d, n, submit_share(c, m.src, m.share), mine) \in K
  <2> DEFINE x == submit_share(c, m.src, m.share)
             full == submit_share(x, n, mine)
             out == d.outgoing \cup Shares(n, x.round, x.participants, mine)
             T == S \cup Out(n, d.outgoing)
             new == [node |-> n, round |-> x.round, share |-> mine]
  <2>1. /\ x \in Collector /\ m.src \in Senders(x) /\ m.src \in x.participants
    BY <1>4, <1>6, Zenon
  <2>2. d.pending_round_id = {x.round} /\ missing_participants(x) = {n}
    BY <1>6, Zenon DEF MineIsDue
  <2> HIDE DEF x
  <2>3. x.participants \ {n} # {}
    BY <2>1, <2>2, Zenon DEF missing_participants
  <2>4. Out(n, out) = Out(n, d.outgoing) \cup {new}
    BY <2>3, OutShares
  <2>5. Fresh(n, d.current_round_id, {}, T \cup {new})
    BY <1>1, <1>6, <2>2, FreshSent, ZenonT(40)
  <2>6. Fresh(n, d.current_round_id, {}, S \cup Out(n, out))
    <3>1. T \cup {new} = S \cup (Out(n, d.outgoing) \cup {new})
      BY Zenon
    <3> QED BY <2>4, <2>5, <3>1, Zenon
  <2>7. Collected(WithoutCollector(d.collectors, x.round))
    BY <1>1, <1>6, CollectedKept, ZenonT(40)
  <2>8. Parts(Finished(d, n, x, mine), d.current_round_id,
              IF ExtractedOk(d, full) THEN {} ELSE d.pending_message,
              {}, WithoutCollector(d.collectors, x.round),
              Emits(d, full), {}, out, d.started, Extracts(d, full))
    BY <1>1, <1>6, <2>1, FinishedParts, Zenon
  <2>9. Listed(out)
    BY <1>1, <1>6, ListedKept, ZenonT(40)
  <2> HIDE DEF full, out
  <2>10. Finished(d, n, x, mine) \in K
    BY <2>6, <2>7, <2>8, <2>9, SoundBy, ZenonT(40) DEF K
  <2> QED BY <2>10, Zenon DEF x
<1>7. Sharable(K, n, m)
  BY <1>1, <1>2, <1>3, <1>5, <1>6, Zenon DEF Sharable
<1> QED BY <1>7, Zenon DEF K

---------------------------------------------------------------------------
\* Between calls: nothing is waiting to be returned, and every node is fresh.
SoundInv ==
    /\ TypeOK
    /\ Listed(msgs)
    /\ \A n \in Node :
           /\ Collected(driver[n].collectors)
           /\ driver[n].outgoing = {} /\ driver[n].started = {}
           /\ driver[n].extracted = {}
           /\ Fresh(n, driver[n].current_round_id, driver[n].pending_round_id, sent)

\* Another node's shares do not matter.
LEMMA FreshOthers ==
    ASSUME NEW n, NEW current, NEW pending, NEW T, Fresh(n, current, pending, T),
           NEW U, \A s \in U : s.node # n
    PROVE  Fresh(n, current, pending, T \cup U)
BY Zenon DEF Fresh

\* A call that returns a sound driver.
LEMMA SoundReturn ==
    ASSUME SoundInv, NEW n \in Node, NEW d \in Sound(n, sent), NEW consumed,
           Return(n, d, consumed), initiated' \subseteq Drafts
    PROVE  SoundInv'
<1> DEFINE back == [d EXCEPT !.outgoing = {}, !.started = {}, !.extracted = {}]
<1>1. /\ d \in Driver /\ Collected(d.collectors) /\ Listed(d.outgoing)
      /\ Fresh(n, d.current_round_id, d.pending_round_id, sent \cup Out(n, d.outgoing))
  BY Zenon DEF Sound
<1>2. /\ d.outgoing \in SUBSET (StartMsg \cup ShareMsg)
      /\ d.started \subseteq [round : Nat, text : Text]
      /\ d.extracted \subseteq [round : Nat, text : Text]
  BY <1>1, Zenon DEF Driver
<1>3. /\ back \in Driver /\ back.collectors = d.collectors
      /\ back.outgoing = {} /\ back.started = {} /\ back.extracted = {}
      /\ back.current_round_id = d.current_round_id
      /\ back.pending_round_id = d.pending_round_id
  BY <1>1, Zenon DEF Driver
<1>4. sent' = sent \cup Out(n, d.outgoing)
  BY Zenon DEF Return, Out
<1>5. driver' = [driver EXCEPT ![n] = back]
  BY Zenon DEF Return
<1>6. driver \in [Node -> Driver]
  BY Zenon DEF SoundInv, TypeOK
<1> HIDE DEF back
<1>7. driver' \in [Node -> Driver]
  BY <1>3, <1>5, <1>6, Zenon
<1>8. msgs' \subseteq StartMsg \cup ShareMsg /\ Listed(msgs')
  BY <1>1, <1>2, Zenon DEF Return, SoundInv, TypeOK, Listed
<1>9. delivered' \in [Node -> Seq([round : Nat, text : Text])]
  <2> DEFINE E == [round : Nat, text : Text]
             e == CHOOSE x \in d.extracted : TRUE
  <2>1. d.extracted # {} => e \in E
    BY <1>2, Zenon
  <2>2. delivered \in [Node -> Seq(E)]
    BY Zenon DEF SoundInv, TypeOK
  <2>3. delivered' = [delivered EXCEPT ![n] =
            IF d.extracted = {} THEN @ ELSE Append(@, e)]
    BY Zenon DEF Return
  <2> HIDE DEF E, e
  <2>4. d.extracted # {} => Append(delivered[n], e) \in Seq(E)
    BY <2>1, <2>2
  <2>5. delivered' \in [Node -> Seq(E)]
    BY <2>2, <2>3, <2>4, Zenon
  <2> QED BY <2>5, Zenon DEF E
<1>10. announced' \subseteq [node : Node, round : Nat, text : Text]
  BY <1>2 DEF Return, SoundInv, TypeOK
<1>11. sent' \subseteq [node : Node, round : Nat, share : Share]
  BY <1>2, <1>4, OutType, Zenon DEF SentShare, SoundInv, TypeOK
<1>12. TypeOK'
  BY <1>7, <1>8, <1>9, <1>10, <1>11, ZenonT(40) DEF TypeOK
<1>13. ASSUME NEW p \in Node
       PROVE  /\ Collected(driver'[p].collectors)
              /\ driver'[p].outgoing = {} /\ driver'[p].started = {}
              /\ driver'[p].extracted = {}
              /\ Fresh(p, driver'[p].current_round_id, driver'[p].pending_round_id, sent')
  <2>1. CASE p = n
    BY <1>1, <1>3, <1>4, <1>5, <1>6, <2>1, Zenon
  <2>2. CASE p # n
    <3>1. driver'[p] = driver[p]
      BY <1>5, <1>6, <2>2, Zenon
    <3>2. \A s \in Out(n, d.outgoing) : s.node # p
      BY <2>2 DEF Out
    <3>3. Fresh(p, driver[p].current_round_id, driver[p].pending_round_id, sent')
      BY <1>4, <1>13, <3>2, FreshOthers, Zenon DEF SoundInv
    <3> QED BY <1>13, <3>1, <3>3, Zenon DEF SoundInv
  <2> QED BY <2>1, <2>2, Zenon
<1> QED BY <1>8, <1>12, <1>13, Zenon DEF SoundInv

\* Between calls the driver of every node is sound.
LEMMA SoundBetween ==
    ASSUME SoundInv, NEW n \in Node
    PROVE  driver[n] \in Sound(n, sent) /\ sent \in SUBSET SentShare
<1>1. driver[n] \in Driver /\ sent \in SUBSET SentShare
  BY Zenon DEF SoundInv, TypeOK, SentShare
<1>2. Out(n, driver[n].outgoing) = {} /\ Listed(driver[n].outgoing)
  BY Zenon DEF SoundInv, Out, Listed
<1>3. sent \cup Out(n, driver[n].outgoing) = sent
  BY <1>2, Zenon
<1> QED BY <1>1, <1>2, <1>3, Zenon DEF SoundInv, Sound

\* The invariant SoundInv holds initially.
LEMMA SoundInit == ASSUME Init PROVE SoundInv
<1>1. NewDriver \in Driver
  BY Zenon DEF NewDriver, Driver
<1>2. TypeOK
  BY <1>1 DEF Init, TypeOK
<1>3. ASSUME NEW n \in Node
      PROVE  /\ Collected(driver[n].collectors)
             /\ driver[n].outgoing = {} /\ driver[n].started = {}
             /\ driver[n].extracted = {}
             /\ Fresh(n, driver[n].current_round_id, driver[n].pending_round_id, sent)
  <2>1. /\ driver[n].collectors = {} /\ driver[n].pending_round_id = {} /\ sent = {}
        /\ driver[n].outgoing = {} /\ driver[n].started = {} /\ driver[n].extracted = {}
    BY <1>3, Zenon DEF Init, NewDriver
  <2> QED BY <2>1, Zenon DEF Collected, Fresh
<1> QED BY <1>2, <1>3, Zenon DEF SoundInv, Init, Listed

\* Every step preserves it, whatever is lost or expires.
LEMMA SoundStep == ASSUME SoundInv, [Next]_vars PROVE SoundInv'
<1>1. ASSUME NEW n \in Node, NEW text \in Text, NEW participants \in Groups,
             Initiate(n, text, participants)
      PROVE  SoundInv'
  <2> DEFINE d == driver[n]
             e == initiate(d, n, text, participants)
  <2>1. d \in Sound(n, sent) /\ sent \in SUBSET SentShare
    BY <1>1, SoundBetween, Zenon
  <2>2. Endable(Sound(n, sent), n)
    BY <2>1, SoundEndable, Zenon
  <2>3. Return(n, e, {}) /\ initiated' \subseteq Drafts
    BY <1>1, ZenonT(40) DEF Initiate, SoundInv, TypeOK
  <2> HIDE DEF d
  <2>4. Skip(d) \in Sound(n, sent)
    BY <2>1, <2>2, Zenon DEF Endable, Retriable
  <2>5. CanShare(n, participants, {text}, EdgeKey)
            => Begin(d, n, text, participants) \in Sound(n, sent)
    BY <2>1, SoundBegin, Zenon
  <2>6. e \in Sound(n, sent)
    BY <2>1, <2>4, <2>5, InitiateCases, Zenon
  <2> HIDE DEF e
  <2> QED BY <2>3, <2>6, SoundReturn, Zenon
<1>2. ASSUME NEW n \in Node, NEW m \in msgs, Handle(n, m)
      PROVE  SoundInv'
  <2> DEFINE e == handle(drop_expired(driver[n], n), n, m)
  <2>1. driver[n] \in Sound(n, sent) /\ sent \in SUBSET SentShare
    BY SoundBetween, Zenon
  <2>2. Endable(Sound(n, sent), n)
    BY <2>1, SoundEndable, Zenon
  <2>3. \/ m \in StartMsg /\ Joinable(Sound(n, sent), n, m)
        \/ m \in ShareMsg /\ Sharable(Sound(n, sent), n, m)
    <3>1. CASE m \in StartMsg
      <4>1. m.participants \in Groups
        BY <3>1, Zenon DEF StartMsg, SoundInv, Listed
      <4> QED BY <2>1, <3>1, <4>1, SoundJoinable, Zenon
    <3>2. CASE m \in ShareMsg
      BY <2>1, <3>2, SoundSharable, Zenon
    <3> QED BY <3>1, <3>2, Zenon DEF SoundInv, TypeOK
  <2>4. e \in Sound(n, sent)
    BY <2>1, <2>2, <2>3, HandleIn, Zenon
  <2>5. Return(n, e, {m}) /\ initiated' \subseteq Drafts
    BY <1>2, ZenonT(40) DEF Handle, SoundInv, TypeOK
  <2> HIDE DEF e
  <2> QED BY <2>4, <2>5, SoundReturn, Zenon
<1>3. ASSUME NEW n \in Node, NEW c \in driver[n].collectors, Expire(n, c)
      PROVE  SoundInv'
  <2> DEFINE x == [c EXCEPT !.expired = TRUE]
             cs == WithCollector(driver[n].collectors, x)
             b == [driver[n] EXCEPT !.collectors = cs]
  <2>1. /\ driver[n] \in Driver /\ driver \in [Node -> Driver]
        /\ Collected(driver[n].collectors)
    BY Zenon DEF SoundInv, TypeOK
  <2>2. c \in Collector
    BY <2>1, Zenon DEF Driver
  <2>3. /\ x \in Collector /\ x.shares_received = c.shares_received
        /\ x.participants = c.participants
    BY <2>2, Zenon DEF Collector
  <2>4. IsFiniteSet(x.shares_received) /\ x.participants \in Groups
    BY <2>1, <2>3, Zenon DEF Collected
  <2> HIDE DEF x
  <2>5. cs \subseteq Collector
    BY <2>1, <2>3, Zenon DEF Driver, WithCollector
  <2>6. Collected(cs)
    BY <2>1, <2>4, CollectedKept, Zenon
  <2>7. driver' = [driver EXCEPT ![n] = b]
    BY <1>3, <2>1, Zenon DEF Expire, x
  <2> HIDE DEF cs
  <2>8. /\ b \in Driver /\ b.collectors = cs
        /\ b.outgoing = driver[n].outgoing /\ b.started = driver[n].started
        /\ b.extracted = driver[n].extracted
        /\ b.current_round_id = driver[n].current_round_id
        /\ b.pending_round_id = driver[n].pending_round_id
    BY <2>1, <2>5, Zenon DEF Driver
  <2> HIDE DEF b
  <2>9. TypeOK' /\ msgs' = msgs /\ sent' = sent
    BY <1>3, <2>7, <2>8, ZenonT(40) DEF Expire, SoundInv, TypeOK
  <2>10. ASSUME NEW p \in Node
         PROVE  /\ Collected(driver'[p].collectors)
                /\ driver'[p].outgoing = {} /\ driver'[p].started = {}
                /\ driver'[p].extracted = {}
                /\ Fresh(p, driver'[p].current_round_id, driver'[p].pending_round_id, sent')
    <3>1. CASE p = n
      BY <2>1, <2>6, <2>7, <2>8, <2>9, <3>1, Zenon DEF SoundInv
    <3>2. CASE p # n
      BY <2>1, <2>7, <2>9, <2>10, <3>2, Zenon DEF SoundInv
    <3> QED BY <3>1, <3>2, Zenon
  <2> QED BY <2>9, <2>10, Zenon DEF SoundInv
<1>4. ASSUME NEW m \in msgs, Lose(m) PROVE SoundInv'
  BY <1>4, Zenon DEF Lose, SoundInv, TypeOK, Listed
<1>5. CASE UNCHANGED vars
  BY <1>5, Zenon DEF vars, SoundInv, TypeOK
<1> QED BY <1>1, <1>2, <1>3, <1>4, <1>5, Zenon DEF Next

\* SoundInv holds in every reachable state.
LEMMA SoundAlways == Spec => []SoundInv
<1>1. Init => SoundInv
  BY SoundInit, Zenon
<1>2. SoundInv /\ [Next]_vars => SoundInv'
  BY SoundStep, Zenon
<1> QED BY <1>1, <1>2, PTL DEF Spec

\* Every variable stays in its set, whatever the participant lists, the edge
\* keys, and what is lost or times out.
THEOREM DriverTyped == Spec => []TypeOK
<1>1. SoundInv => TypeOK
  BY Zenon DEF SoundInv
<1> QED BY <1>1, SoundAlways, PTL

\* A node never sends two different shares for one round id (round_driver.rs:11),
\* for any number of nodes, overlapping participant lists, missing edge keys,
\* lost messages and expired rounds.
THEOREM DriverOneShare == Spec => []OneSharePerRound
<1>1. SoundInv => OneSharePerRound
  <2> SUFFICES ASSUME SoundInv, NEW s \in sent, NEW t \in sent,
                      s.node = t.node, s.round = t.round
               PROVE  s = t
    BY Zenon DEF OneSharePerRound
  <2>1. s.node \in Node
    BY Zenon DEF SoundInv, TypeOK
  <2> QED BY <2>1, ZenonT(40) DEF SoundInv, Fresh
<1> QED BY <1>1, SoundAlways, PTL

---------------------------------------------------------------------------
(***************************************************************************)
(* What holds for any participant lists: nobody extracts a text that was    *)
(* not announced for the round by a user who handed it in.                  *)
(***************************************************************************)

\* A collector holds shares that were sent for its round.
Held(c, T) ==
    \A e \in c.shares_received :
        \E s \in T : s.round = c.round /\ e = [from |-> s.node, share |-> s.share]

\* Collector x is c with the share of one more peer.
OneMore(x, c, peer, share) ==
    /\ x \in Collector /\ x.round = c.round /\ x.participants = c.participants
    /\ Senders(x) = Senders(c) \cup {peer}
    /\ x.shares_received = c.shares_received \cup {[from |-> peer, share |-> share]}

LEMMA SubmittedParts ==
    ASSUME NEW c \in Collector, NEW peer \in Node, NEW share \in Share
    PROVE  OneMore(submit_share(c, peer, share), c, peer, share)
<1> QED BY Submitted DEF OneMore

\* The collector of a round just joined holds the own share.
OnlyOwn(c, n, round, share) ==
    c.round = round /\ c.shares_received = {[from |-> n, share |-> share]}

LEMMA JoinedParts ==
    ASSUME NEW m, m.round \in Nat, m.participants \in SUBSET Node, NEW n, NEW share
    PROVE  OnlyOwn(Joined(n, m, share), n, m.round, share)
<1> DEFINE c == NewCollector(m.round, m.participants)
<1>1. c \in Collector /\ c.round = m.round /\ c.shares_received = {}
  BY NewCollectorType, Zenon
<1> HIDE DEF c
<1>2. /\ submit_share(c, n, share).round = c.round
      /\ submit_share(c, n, share).shares_received
           = c.shares_received \cup {[from |-> n, share |-> share]}
  BY <1>1, Submitted
<1>3. Joined(n, m, share) = submit_share(c, n, share)
  BY Zenon DEF c, Joined
<1> QED BY <1>1, <1>2, <1>3, Zenon DEF OnlyOwn

\* A collector that takes a share that was sent holds only such shares.
LEMMA HeldMore ==
    ASSUME NEW T, NEW c \in Collector, Held(c, T), NEW s \in T, s.round = c.round
    PROVE  Held(submit_share(c, s.node, s.share), T)
<1> DEFINE x == submit_share(c, s.node, s.share)
<1>1. /\ x.round = c.round
      /\ x.shares_received = c.shares_received \cup {[from |-> s.node, share |-> s.share]}
  BY Submitted
<1> HIDE DEF x
<1>2. Held(x, T)
  BY <1>1, Zenon DEF Held
<1> QED BY <1>2, Zenon DEF x

AllHeld(cs, T) == \A c \in cs : Held(c, T)

Began(n, started) ==
    {[node |-> n, round |-> a.round, text |-> a.text] : a \in started}

\* Starting one more round announces one more start.
LEMMA BeganMore ==
    ASSUME NEW n, NEW st, NEW round, NEW text
    PROVE  Began(n, st \cup {[round |-> round, text |-> text]}) =
               Began(n, st) \cup {[node |-> n, round |-> round, text |-> text]}
<1> DEFINE x(a) == [node |-> n, round |-> a.round, text |-> a.text]
           z == [round |-> round, text |-> text]
<1>1. x(z) = [node |-> n, round |-> round, text |-> text]
  BY Zenon
<1>2. \A q : Began(n, q) = {x(a) : a \in q}
  BY Zenon DEF Began
<1> HIDE DEF x, z
<1>3. Began(n, st \cup {z}) = Began(n, st) \cup {x(z)}
  BY <1>2
<1> QED BY <1>1, <1>3, Zenon DEF z

\* A share is neutral or for a text announced.
Told(s, B) ==
    \/ s.share.texts = {}
    \/ \E a \in B : a.node = s.node /\ a.round = s.round /\ s.share.texts = {a.text}

AllTold(T, B, I) ==
    /\ \A s \in T : Told(s, B)
    /\ \A a \in B : <<a.node, a.text>> \in I

\* The queued text was handed in, and the share kept back is for an announcement.
Intended(n, message, pending, mine, B, I) ==
    /\ \A t \in message : <<n, t>> \in I
    /\ \A r \in pending, x \in mine :
           \E a \in B : a.node = n /\ a.round = r /\ x.texts = {a.text}

\* What was extracted was announced for the round.
AllAnnounced(extracted, B) ==
    \A e \in extracted : \E a \in B : a.round = e.round /\ a.text = e.text

Kept(n, message, pending, cs, mine, extracted, T, B, I) ==
    /\ AllTold(T, B, I) /\ Intended(n, message, pending, mine, B, I)
    /\ AllHeld(cs, T) /\ AllAnnounced(extracted, B)

\* What a call returns is from the node itself.
FromMe(n, out) == \A m \in out : m.src = n

LEMMA FromMeMore ==
    ASSUME NEW n, NEW out, FromMe(n, out), NEW round, NEW participants
    PROVE  /\ FromMe(n, out \cup Starts(n, round, participants))
           /\ \A share : FromMe(n, out \cup Shares(n, round, participants, share))
<1>1. \A m \in Starts(n, round, participants) : m.src = n
  BY Zenon DEF Starts
<1>2. \A share : \A m \in Shares(n, round, participants, share) : m.src = n
  BY Zenon DEF Shares
<1> QED BY <1>1, <1>2, Zenon DEF FromMe

\* The drivers of node n that only pass on what was handed in.
Honest(n, S, A, I) ==
    {d \in Sound(n, S) :
        /\ Kept(n, d.pending_message, d.pending_round_id, d.collectors, d.my_share,
                d.extracted, S \cup Out(n, d.outgoing), A \cup Began(n, d.started), I)
        /\ FromMe(n, d.outgoing)}

LEMMA HonestBy ==
    ASSUME NEW n, NEW S, NEW A, NEW I, NEW e \in Sound(n, S),
           NEW cur, NEW msg, NEW pend, NEW cs, NEW em, NEW sh,
           NEW out, NEW st, NEW ex, Parts(e, cur, msg, pend, cs, em, sh, out, st, ex),
           NEW T, NEW B, S \cup Out(n, out) = T, A \cup Began(n, st) = B,
           Kept(n, msg, pend, cs, sh, ex, T, B, I), FromMe(n, out)
    PROVE  e \in Honest(n, S, A, I)
BY Zenon DEF Honest, Parts

LEMMA HonestFacts ==
    ASSUME NEW n \in Node, NEW S \in SUBSET SentShare, NEW A, NEW I,
           NEW d \in Honest(n, S, A, I)
    PROVE  /\ d \in Sound(n, S) /\ d \in Driver /\ FromMe(n, d.outgoing)
           /\ Kept(n, d.pending_message, d.pending_round_id, d.collectors, d.my_share,
                   d.extracted, S \cup Out(n, d.outgoing), A \cup Began(n, d.started), I)
<1>1. /\ d \in Sound(n, S) /\ FromMe(n, d.outgoing)
      /\ Kept(n, d.pending_message, d.pending_round_id, d.collectors, d.my_share,
              d.extracted, S \cup Out(n, d.outgoing), A \cup Began(n, d.started), I)
  BY Zenon DEF Honest
<1> QED BY <1>1, SoundFacts, Zenon

\* What is held stays so when more is sent.
LEMMA HeldStays ==
    ASSUME NEW T, NEW U, T \subseteq U, NEW cs, AllHeld(cs, T)
    PROVE  AllHeld(cs, U)
BY Zenon DEF AllHeld, Held

\* Beginning a round announces the text its share is for (round_driver.rs:123).
LEMMA HonestBegin ==
    ASSUME NEW n \in Node, NEW S \in SUBSET SentShare, NEW A, NEW I,
           NEW d \in Honest(n, S, A, I), NEW text \in Text, NEW participants \in Groups,
           CanShare(n, participants, {text}, EdgeKey), <<n, text>> \in I
    PROVE  Begin(d, n, text, participants) \in Honest(n, S, A, I)
<1> DEFINE r == d.current_round_id + 1
           c == NewCollector(r, participants)
           x == compute_xor_share_secure(r, n, participants, {text}, EdgeKey)
           a == [node |-> n, round |-> r, text |-> text]
           T == S \cup Out(n, d.outgoing)
           B == A \cup Began(n, d.started)
           out == d.outgoing \cup Starts(n, r, participants)
           st == d.started \cup {[round |-> r, text |-> text]}
           e == Begin(d, n, text, participants)
<1>1. /\ d \in Driver /\ d \in Sound(n, S) /\ FromMe(n, d.outgoing)
      /\ Kept(n, d.pending_message, d.pending_round_id, d.collectors, d.my_share,
              d.extracted, T, B, I)
  BY HonestFacts, Zenon
<1>2. participants \in SUBSET Node
  BY GroupAssumption, Zenon
<1>3. e \in Sound(n, S)
  BY <1>1, SoundBegin, Zenon
<1>4. S \cup Out(n, out) = T
  BY OutStarts
<1>5. A \cup Began(n, st) = B \cup {a}
  <2>1. Began(n, st) = Began(n, d.started) \cup {a}
    BY BeganMore, Zenon
  <2> QED BY <2>1, Zenon
<1>6. Parts(e, r, {text}, {r}, WithCollector(d.collectors, c), d.emitted, {x}, out, st,
            d.extracted)
  BY <1>1, <1>2, BeginParts, Zenon
<1>7. FromMe(n, out)
  BY <1>1, FromMeMore, Zenon
<1>8. /\ c.shares_received = {} /\ x.texts = {text}
      /\ a.node = n /\ a.round = r /\ a.text = text
  BY Zenon DEF NewCollector, compute_xor_share_secure
<1> HIDE DEF c, x, T, B, st, e, out, a, r
<1>9. AllTold(T, B \cup {a}, I)
  BY <1>1, <1>8, Zenon DEF Kept, AllTold, Told
<1>10. Intended(n, {text}, {r}, {x}, B \cup {a}, I)
  BY <1>8, Zenon DEF Intended
<1>11. AllHeld(WithCollector(d.collectors, c), T)
  BY <1>1, <1>8, Zenon DEF Kept, AllHeld, WithCollector, Held
<1>12. AllAnnounced(d.extracted, B \cup {a})
  BY <1>1, Zenon DEF Kept, AllAnnounced
<1>13. Kept(n, {text}, {r}, WithCollector(d.collectors, c), {x}, d.extracted, T,
            B \cup {a}, I)
  BY <1>9, <1>10, <1>11, <1>12, Zenon DEF Kept
<1>14. e \in Honest(n, S, A, I)
  BY <1>3, <1>4, <1>5, <1>6, <1>7, <1>13, HonestBy, Zenon
<1> QED BY <1>14, Zenon DEF e

\* The end of a round passes on nothing (round_driver.rs:362, :390).
LEMMA HonestEndable ==
    ASSUME NEW n \in Node, NEW S \in SUBSET SentShare, NEW A, NEW I
    PROVE  Endable(Honest(n, S, A, I), n)
<1> DEFINE K == Honest(n, S, A, I)
           T(d) == S \cup Out(n, d.outgoing)
           B(d) == A \cup Began(n, d.started)
           L(d, msg, pend, cs, sh) ==
               Kept(n, msg, pend, cs, sh, d.extracted, T(d), B(d), I)
<1>1. ASSUME NEW d \in K
      PROVE  /\ d \in Driver /\ d \in Sound(n, S) /\ d.pending_message \in SUBSET Text
             /\ FromMe(n, d.outgoing)
             /\ L(d, d.pending_message, d.pending_round_id, d.collectors, d.my_share)
  <2>1. /\ d \in Driver /\ d \in Sound(n, S) /\ FromMe(n, d.outgoing)
        /\ L(d, d.pending_message, d.pending_round_id, d.collectors, d.my_share)
    BY <1>1, HonestFacts, Zenon
  <2> QED BY <2>1, SoundFacts, Zenon
<1>2. Endable(Sound(n, S), n)
  BY SoundEndable, Zenon
<1>3. ASSUME NEW d \in K, NEW e \in Sound(n, S), NEW cur, NEW msg, NEW pend, NEW cs,
             NEW sh, L(d, msg, pend, cs, sh),
             Parts(e, cur, msg, pend, cs, d.emitted, sh, d.outgoing, d.started,
                   d.extracted)
      PROVE  e \in K
  BY <1>1, <1>3, HonestBy, Zenon
<1>4. ASSUME NEW d \in K
      PROVE  /\ Skip(d) \in K /\ DropMessage(d) \in K /\ Recount(d) \in K
             /\ Forget(d) \in K /\ Waited(d) \in K
  <2>1. /\ Skip(d) \in Sound(n, S) /\ DropMessage(d) \in Sound(n, S)
        /\ Recount(d) \in Sound(n, S) /\ Forget(d) \in Sound(n, S)
        /\ Waited(d) \in Sound(n, S)
    BY <1>1, <1>2, <1>4, Zenon DEF Endable, Retriable
  <2>2. /\ L(d, d.pending_message, d.pending_round_id, d.collectors, d.my_share)
        /\ d \in Driver
    BY <1>1, <1>4, Zenon
  <2>3. L(d, {}, d.pending_round_id, d.collectors, d.my_share)
    BY <2>2, Zenon DEF Kept, Intended
  <2>4. L(d, d.pending_message, {}, d.collectors, {})
    BY <2>2, Zenon DEF Kept, Intended
  <2> HIDE DEF K, L
  <2>5. Skip(d) \in K
    BY <1>3, <1>4, <2>1, <2>2, SmallUpdates, Zenon
  <2>6. DropMessage(d) \in K
    BY <1>3, <1>4, <2>1, <2>2, <2>3, SmallUpdates, Zenon
  <2>7. Recount(d) \in K
    BY <1>3, <1>4, <2>1, <2>2, SmallUpdates, Zenon
  <2>8. Waited(d) \in K
    BY <1>3, <1>4, <2>1, <2>2, SmallUpdates, Zenon
  <2>9. Forget(d) \in K
    BY <1>3, <1>4, <2>1, <2>2, <2>4, SmallUpdates, Zenon
  <2> QED BY <2>5, <2>6, <2>7, <2>8, <2>9, Zenon
<1>5. ASSUME NEW d \in K, NEW text \in d.pending_message, NEW participants \in Groups,
             CanShare(n, participants, {text}, EdgeKey)
      PROVE  Begin(d, n, text, participants) \in K
  <2>1. text \in Text
    BY <1>1, <1>5, Zenon
  <2>2. <<n, text>> \in I
    BY <1>1, <1>5, Zenon DEF Kept, Intended
  <2> QED BY <1>5, <2>1, <2>2, HonestBegin, Zenon
<1>6. ASSUME NEW d \in K, NEW gone \in SUBSET d.collectors
      PROVE  DropCollectors(d, gone) \in K
  <2>1. DropCollectors(d, gone) \in Sound(n, S)
    BY <1>1, <1>2, <1>6, Zenon DEF Endable
  <2>2. /\ L(d, d.pending_message, d.pending_round_id, d.collectors, d.my_share)
        /\ d \in Driver
    BY <1>1, <1>6, Zenon
  <2>3. L(d, d.pending_message, d.pending_round_id, d.collectors \ gone, d.my_share)
    BY <2>2, Zenon DEF Kept, AllHeld
  <2> HIDE DEF K, L
  <2> QED BY <1>3, <1>6, <2>1, <2>2, <2>3, CollectorUpdates, ZenonT(40)
<1> HIDE DEF K
<1>7. K \subseteq Driver /\ \A d \in K : \A c \in d.collectors : c.participants \in Groups
  BY <1>1, <1>2, Zenon DEF Endable
<1>8. Retriable(K, n)
  BY <1>4, <1>5, <1>7, Zenon DEF Retriable
<1>9. Endable(K, n)
  BY <1>4, <1>6, <1>7, <1>8, Zenon DEF Endable
<1> QED BY <1>9, Zenon DEF K

\* A peer's round is joined with a neutral share (round_driver.rs:243, :255).
LEMMA HonestJoins ==
    ASSUME NEW n \in Node, NEW S \in SUBSET SentShare, NEW A, NEW I,
           NEW m \in StartMsg, m.participants \in Groups,
           NEW d \in Honest(n, S, A, I), Participate(d, n, m) \in Sound(n, S)
    PROVE  Participate(d, n, m) \in Honest(n, S, A, I)
<1> DEFINE share == compute_xor_share_secure(m.round, n, m.participants, {}, EdgeKey)
           x == [node |-> n, round |-> m.round, share |-> share]
           T == S \cup Out(n, d.outgoing)
           U == T \cup {x}
           B == A \cup Began(n, d.started)
           out == d.outgoing \cup Shares(n, m.round, m.participants, share)
           c == Joined(n, m, share)
           e == Participate(d, n, m)
           cs == WithCollector(d.collectors, c)
<1>1. /\ d \in Driver /\ FromMe(n, d.outgoing)
      /\ Kept(n, d.pending_message, d.pending_round_id, d.collectors, d.my_share,
              d.extracted, T, B, I)
  BY HonestFacts, Zenon
<1>2. CASE e = d
  BY <1>2, Zenon
<1>3. CASE e # d
  <2>1. /\ CanShare(n, m.participants, {}, EdgeKey)
        /\ Parts(e, d.current_round_id, d.pending_message, d.pending_round_id,
                 cs, d.emitted, d.my_share, out, d.started, d.extracted)
    BY <1>1, <1>3, ParticipateParts, Zenon
  <2>2. m.round \in Nat /\ m.participants \in SUBSET Node
    BY Zenon DEF StartMsg
  <2>3. S \cup Out(n, out) = U
    <3>1. m.participants \ {n} # {}
      BY <2>1, <2>2, SomebodyElse, ZenonT(40)
    <3>2. Out(n, out) = Out(n, d.outgoing) \cup {x}
      BY <3>1, OutShares
    <3> QED BY <3>2, Zenon
  <2>4. x.node = n /\ x.round = m.round /\ x.share = share /\ share.texts = {}
    BY ZenonT(40) DEF compute_xor_share_secure
  <2>5. c.round = m.round /\ c.shares_received = {[from |-> n, share |-> share]}
    <3>1. OnlyOwn(c, n, m.round, share)
      BY <2>2, JoinedParts, Zenon
    <3> HIDE DEF c, share
    <3> QED BY <3>1, Zenon DEF OnlyOwn
  <2> HIDE DEF x, share, T, B, c, e
  <2>6. FromMe(n, out)
    BY <1>1, FromMeMore, Zenon
  <2>7. AllTold(U, B, I)
    BY <1>1, <2>4, Zenon DEF Kept, AllTold, Told
  <2>8. Held(c, U)
    BY <2>4, <2>5, Zenon DEF Held
  <2>9. AllHeld(cs, U)
    <3>1. AllHeld(d.collectors, U)
      BY <1>1, HeldStays, Zenon DEF Kept
    <3> QED BY <2>8, <3>1, Zenon DEF AllHeld, WithCollector
  <2> HIDE DEF out, U, cs
  <2>10. Kept(n, d.pending_message, d.pending_round_id, cs, d.my_share, d.extracted,
             U, B, I)
    BY <1>1, <2>7, <2>9, Zenon DEF Kept
  <2>11. e \in Sound(n, S) /\ A \cup Began(n, d.started) = B
    BY Zenon DEF e, B
  <2>12. e \in Honest(n, S, A, I)
    BY <2>1, <2>3, <2>10, <2>11, <2>6, HonestBy, ZenonT(40)
  <2> QED BY <2>12, Zenon DEF e
<1> QED BY <1>2, <1>3, Zenon

LEMMA HonestJoinable ==
    ASSUME NEW n \in Node, NEW S \in SUBSET SentShare, NEW A, NEW I,
           NEW m \in StartMsg, m.participants \in Groups
    PROVE  Joinable(Honest(n, S, A, I), n, m)
<1> DEFINE K == Honest(n, S, A, I)
<1>0. m.round \in Nat /\ Joinable(Sound(n, S), n, m)
  BY SoundJoinable, Zenon DEF StartMsg
<1>1. ASSUME NEW d \in K
      PROVE  /\ d \in Driver /\ d \in Sound(n, S) /\ Collected(d.collectors)
             /\ Listed(d.outgoing) /\ FromMe(n, d.outgoing)
             /\ Fresh(n, d.current_round_id, d.pending_round_id, S \cup Out(n, d.outgoing))
             /\ Kept(n, d.pending_message, d.pending_round_id, d.collectors, d.my_share,
                     d.extracted, S \cup Out(n, d.outgoing), A \cup Began(n, d.started), I)
  BY <1>1, HonestFacts, SoundFacts, ZenonT(40)
<1>2. ASSUME NEW d \in K, mark_seen(d.current_round_id, m.round)
      PROVE  Participate([d EXCEPT !.current_round_id = m.round], n, m) \in K
  <2> DEFINE e == [d EXCEPT !.current_round_id = m.round]
  <2>1. e = Skip(d)
    BY <1>2, Zenon DEF mark_seen, Skip, next_round
  <2>2. e \in K
    <3>1. Endable(K, n)
      BY HonestEndable, Zenon
    <3> HIDE DEF K, e
    <3> QED BY <1>2, <2>1, <3>1, Zenon DEF Endable, Retriable
  <2>3. Participate(e, n, m) \in Sound(n, S)
    BY <1>0, <1>1, <1>2, Zenon DEF Joinable
  <2> HIDE DEF e
  <2>4. Participate(e, n, m) \in K
    BY <2>2, <2>3, HonestJoins, Zenon
  <2> QED BY <2>4, Zenon DEF e
<1>3. ASSUME NEW d \in K, d.pending_round_id = {m.round}, YieldsTo(n, m.src)
      PROVE  Participate([abort_pending_round(d) EXCEPT !.retry_after_peer = {m.round}],
                         n, m) \in K
  <2> DEFINE e == [abort_pending_round(d) EXCEPT !.retry_after_peer = {m.round}]
             cs == {c \in d.collectors : c.round \notin d.pending_round_id}
             T == S \cup Out(n, d.outgoing)
             B == A \cup Began(n, d.started)
  <2>1. Parts(e, d.current_round_id, d.pending_message, {}, cs,
              d.emitted, {}, d.outgoing, d.started, d.extracted)
    BY <1>0, <1>1, <1>3, JoiningParts, Zenon
  <2>2. Collected(cs) /\ Fresh(n, d.current_round_id, {}, T)
    BY <1>1, <1>3, FreshLess, Zenon DEF Collected
  <2>3. Participate(e, n, m) \in Sound(n, S)
    BY <1>0, <1>1, <1>3, Zenon DEF Joinable
  <2>4. Kept(n, d.pending_message, {}, cs, {}, d.extracted, T, B, I)
    BY <1>1, <1>3, ZenonT(40) DEF Kept, Intended, AllHeld
  <2> HIDE DEF e, cs
  <2>5. e \in Sound(n, S)
    BY <1>1, <1>3, <2>1, <2>2, SoundBy, ZenonT(40)
  <2>6. e \in K
    BY <1>1, <1>3, <2>1, <2>4, <2>5, HonestBy, ZenonT(40)
  <2>7. Participate(e, n, m) \in K
    BY <2>3, <2>6, HonestJoins, Zenon
  <2> QED BY <2>7, Zenon DEF e
<1> HIDE DEF K
<1>4. Joinable(K, n, m)
  BY <1>2, <1>3, Zenon DEF Joinable
<1> QED BY <1>4, Zenon DEF K

\* What is extracted from a collector was announced for its round.
LEMMA ExtractedAnnounced ==
    ASSUME NEW T, NEW B, NEW I, AllTold(T, B, I), NEW d, NEW c, Held(c, T),
           AllAnnounced(d.extracted, B)
    PROVE  AllAnnounced(Extracts(d, c), B)
<1> DEFINE new == [round : {c.round}, text : unpad_message(extract_message(c))]
<1>1. ASSUME NEW e \in new PROVE \E a \in B : a.round = e.round /\ a.text = e.text
  <2>1. e.round = c.round /\ e.text \in unpad_message(extract_message(c))
    BY <1>1, Zenon
  <2>2. e.text \in TextsLeft(c.shares_received)
    BY <2>1, Zenon DEF unpad_message, extract_message
  <2>3. PICK g \in c.shares_received : e.text \in g.share.texts
    BY <2>2, Zenon DEF TextsLeft
  <2>4. PICK s \in T : s.round = c.round /\ g = [from |-> s.node, share |-> s.share]
    BY <2>3, Zenon DEF Held
  <2>5. g.share = s.share
    BY <2>4, Zenon
  <2>6. PICK a \in B : a.round = s.round /\ s.share.texts = {a.text}
    BY <2>3, <2>5, Zenon DEF AllTold, Told
  <2> QED BY <2>1, <2>3, <2>4, <2>5, <2>6, Zenon
<1>2. Extracts(d, c) = d.extracted \/ Extracts(d, c) = d.extracted \cup new
  BY Zenon DEF Extracts
<1> HIDE DEF new
<1> QED BY <1>1, <1>2, Zenon DEF AllAnnounced

LEMMA HonestNoted ==
    ASSUME NEW n \in Node, NEW S \in SUBSET SentShare, NEW A, NEW I,
           NEW d \in Honest(n, S, A, I), NEW c \in d.collectors, Noted(d, c) \in Sound(n, S)
    PROVE  Noted(d, c) \in Honest(n, S, A, I)
<1> DEFINE T == S \cup Out(n, d.outgoing)
           B == A \cup Began(n, d.started)
           cs == WithoutCollector(d.collectors, c.round)
           e == Noted(d, c)
<1>1. /\ d \in Driver /\ FromMe(n, d.outgoing)
      /\ Kept(n, d.pending_message, d.pending_round_id, d.collectors, d.my_share,
              d.extracted, T, B, I)
  BY HonestFacts, Zenon
<1>2. c \in Collector
  BY <1>1, Zenon DEF Driver
<1>3. Parts(e, d.current_round_id, d.pending_message, d.pending_round_id, cs,
            Emits(d, c), d.my_share, d.outgoing, d.started, Extracts(d, c))
  BY <1>1, <1>2, NotedParts, ZenonT(40)
<1> HIDE DEF T, B, e
<1>4. AllHeld(cs, T) /\ Held(c, T)
  BY <1>1, ZenonT(40) DEF Kept, AllHeld, WithoutCollector
<1>5. AllAnnounced(Extracts(d, c), B)
  BY <1>1, <1>4, ExtractedAnnounced, Zenon DEF Kept
<1> HIDE DEF cs
<1>6. Kept(n, d.pending_message, d.pending_round_id, cs, d.my_share, Extracts(d, c),
           T, B, I)
  BY <1>1, <1>4, <1>5, Zenon DEF Kept
<1>7. e \in Sound(n, S) /\ S \cup Out(n, d.outgoing) = T /\ A \cup Began(n, d.started) = B
  BY Zenon DEF e, T, B
<1>8. e \in Honest(n, S, A, I)
  BY <1>1, <1>3, <1>6, <1>7, HonestBy, ZenonT(40)
<1> QED BY <1>8, Zenon DEF e

LEMMA HonestStored ==
    ASSUME NEW n \in Node, NEW S \in SUBSET SentShare, NEW A, NEW I,
           NEW d \in Honest(n, S, A, I), NEW x \in Collector,
           Held(x, S \cup Out(n, d.outgoing)), Store(d, x) \in Sound(n, S)
    PROVE  Store(d, x) \in Honest(n, S, A, I)
<1> DEFINE T == S \cup Out(n, d.outgoing)
           B == A \cup Began(n, d.started)
           cs == WithCollector(d.collectors, x)
           e == Store(d, x)
<1>1. /\ d \in Driver /\ FromMe(n, d.outgoing)
      /\ Kept(n, d.pending_message, d.pending_round_id, d.collectors, d.my_share,
              d.extracted, T, B, I)
  BY HonestFacts, Zenon
<1>2. Parts(e, d.current_round_id, d.pending_message, d.pending_round_id, cs,
            d.emitted, d.my_share, d.outgoing, d.started, d.extracted)
  BY <1>1, CollectorUpdates, Zenon
<1>3. Held(x, T) /\ e \in Sound(n, S)
  BY Zenon
<1> HIDE DEF e
<1>4. AllHeld(cs, T)
  BY <1>1, <1>3, ZenonT(40) DEF Kept, AllHeld, WithCollector
<1> HIDE DEF cs
<1>5. Kept(n, d.pending_message, d.pending_round_id, cs, d.my_share, d.extracted, T, B, I)
  BY <1>1, <1>4, Zenon DEF Kept
<1>6. e \in Honest(n, S, A, I)
  BY <1>1, <1>2, <1>3, <1>5, HonestBy, ZenonT(40)
<1> QED BY <1>6, Zenon DEF e

\* The share kept back is sent for the round announced (round_driver.rs:327).
LEMMA HonestFinished ==
    ASSUME NEW n \in Node, NEW S \in SUBSET SentShare, NEW A, NEW I,
           NEW d \in Honest(n, S, A, I), NEW x \in Collector,
           Held(x, S \cup Out(n, d.outgoing)), NEW mine \in d.my_share,
           d.pending_round_id = {x.round}, x.participants \ {n} # {},
           Finished(d, n, x, mine) \in Sound(n, S)
    PROVE  Finished(d, n, x, mine) \in Honest(n, S, A, I)
<1> DEFINE T == S \cup Out(n, d.outgoing)
           B == A \cup Began(n, d.started)
           new == [node |-> n, round |-> x.round, share |-> mine]
           U == T \cup {new}
           full == submit_share(x, n, mine)
           out == d.outgoing \cup Shares(n, x.round, x.participants, mine)
           cs == WithoutCollector(d.collectors, x.round)
           msg == IF ExtractedOk(d, full) THEN {} ELSE d.pending_message
           e == Finished(d, n, x, mine)
<1>1. /\ d \in Driver /\ FromMe(n, d.outgoing)
      /\ Kept(n, d.pending_message, d.pending_round_id, d.collectors, d.my_share,
              d.extracted, T, B, I)
  BY HonestFacts, Zenon
<1>2. mine \in Share
  BY <1>1, ZenonT(40) DEF Driver
<1>3. Parts(e, d.current_round_id, msg, {}, cs, Emits(d, full), {}, out, d.started,
            Extracts(d, full))
  BY <1>1, <1>2, FinishedParts, ZenonT(40)
<1>4. new.node = n /\ new.round = x.round /\ new.share = mine
  BY Zenon
<1>5. S \cup Out(n, out) = U
  <2>1. Out(n, out) = Out(n, d.outgoing) \cup {new}
    BY OutShares
  <2> QED BY <2>1, ZenonT(40)
<1>6. Held(x, T) /\ e \in Sound(n, S) /\ A \cup Began(n, d.started) = B
  BY Zenon
<1>7. msg \subseteq d.pending_message /\ FromMe(n, out)
  BY <1>1, FromMeMore, Zenon
<1> HIDE DEF T, B, new, e, msg
<1>8. Told(new, B)
  <2>1. \E a \in B : a.node = n /\ a.round = x.round /\ mine.texts = {a.text}
    BY <1>1, ZenonT(40) DEF Kept, Intended
  <2> QED BY <1>4, <2>1, Zenon DEF Told
<1>9. AllTold(U, B, I)
  BY <1>1, <1>8, Zenon DEF Kept, AllTold
<1>10. Held(full, U)
  <2>1. Held(x, U)
    BY <1>6, Zenon DEF Held
  <2>2. new \in U
    BY Zenon
  <2> QED BY <1>4, <2>1, <2>2, HeldMore, Zenon
<1>11. AllHeld(cs, U)
  <2>1. AllHeld(d.collectors, U)
    BY <1>1, HeldStays, Zenon DEF Kept
  <2> QED BY <2>1, Zenon DEF AllHeld, WithoutCollector
<1> HIDE DEF full, U, out, cs
<1>12. AllAnnounced(Extracts(d, full), B)
  BY <1>1, <1>9, <1>10, ExtractedAnnounced, Zenon DEF Kept
<1>13. Intended(n, msg, {}, {}, B, I)
  BY <1>1, <1>7, Zenon DEF Kept, Intended
<1>14. Kept(n, msg, {}, cs, {}, Extracts(d, full), U, B, I)
  BY <1>9, <1>11, <1>12, <1>13, Zenon DEF Kept
<1>15. e \in Honest(n, S, A, I)
  BY <1>3, <1>5, <1>6, <1>7, <1>14, HonestBy, ZenonT(40)
<1> QED BY <1>15, Zenon DEF e

\* A share taken in was sent, so a driver only passes on what was handed in
\* (round_driver.rs:287).
LEMMA HonestSharable ==
    ASSUME NEW n \in Node, NEW S \in SUBSET SentShare, NEW A, NEW I, NEW m \in ShareMsg,
           NEW s \in S, s.node = m.src, s.round = m.round, s.share = m.share
    PROVE  Sharable(Honest(n, S, A, I), n, m)
<1> DEFINE K == Honest(n, S, A, I)
<1>1. Sharable(Sound(n, S), n, m)
  BY SoundSharable, Zenon
<1>2. Endable(K, n)
  BY HonestEndable, Zenon
<1>3. ASSUME NEW d \in K
      PROVE  /\ d \in Sound(n, S) /\ d.collectors \subseteq Collector
             /\ AllHeld(d.collectors, S \cup Out(n, d.outgoing))
  <2>1. /\ d \in Sound(n, S) /\ d \in Driver
        /\ AllHeld(d.collectors, S \cup Out(n, d.outgoing))
    BY <1>3, HonestFacts, ZenonT(40) DEF Kept
  <2> QED BY <2>1, Zenon DEF Driver
<1>4. ASSUME NEW d \in K, NEW c \in d.collectors
      PROVE  /\ IsFiniteSet(c.shares_received) /\ IsFiniteSet(c.participants)
             /\ is_complete(c) => Noted(d, c) \in K
  <2>1. /\ IsFiniteSet(c.shares_received) /\ IsFiniteSet(c.participants)
        /\ is_complete(c) => Noted(d, c) \in Sound(n, S)
    BY <1>1, <1>3, <1>4, ZenonT(40) DEF Sharable
  <2> QED BY <1>4, <2>1, HonestNoted, Zenon
<1>5. ASSUME NEW d \in K, NEW c \in d.collectors, c.round = m.round, Accepts(c, m.src)
      PROVE  LET x == submit_share(c, m.src, m.share) IN
             /\ x \in Collector /\ Held(x, S \cup Out(n, d.outgoing))
             /\ m.src \in Senders(x) /\ m.src \in x.participants
  <2>1. m.src \in Node /\ m.share \in Share
    BY Zenon DEF ShareMsg
  <2>2. c \in Collector
    BY <1>3, <1>5, ZenonT(40)
  <2>3. Held(submit_share(c, m.src, m.share), S \cup Out(n, d.outgoing))
    <3>1. Held(c, S \cup Out(n, d.outgoing))
      BY <1>3, <1>5, Zenon DEF AllHeld
    <3> QED BY <1>5, <2>2, <3>1, HeldMore, Zenon
  <2>4. m.src \in c.participants
    BY <1>5, Zenon DEF Accepts
  <2>5. /\ m.src \in Senders(submit_share(c, m.src, m.share))
        /\ submit_share(c, m.src, m.share) \in Collector
        /\ submit_share(c, m.src, m.share).participants = c.participants
    <3>1. OneMore(submit_share(c, m.src, m.share), c, m.src, m.share)
      BY <2>1, <2>2, SubmittedParts, Zenon
    <3> QED BY <3>1, Zenon DEF OneMore
  <2> QED BY <2>3, <2>4, <2>5, Zenon
<1>6. ASSUME NEW d \in K, NEW c \in d.collectors, c.round = m.round, Accepts(c, m.src),
             ~MineIsDue(d, n, submit_share(c, m.src, m.share))
      PROVE  Store(d, submit_share(c, m.src, m.share)) \in K
  <2> DEFINE x == submit_share(c, m.src, m.share)
  <2>1. Store(d, x) \in Sound(n, S)
    BY <1>1, <1>3, <1>6, ZenonT(40) DEF Sharable
  <2>2. x \in Collector /\ Held(x, S \cup Out(n, d.outgoing))
    BY <1>5, <1>6, ZenonT(40)
  <2> HIDE DEF x
  <2>3. Store(d, x) \in K
    BY <1>6, <2>1, <2>2, HonestStored, ZenonT(40)
  <2> QED BY <2>3, Zenon DEF x
<1>7. ASSUME NEW d \in K, NEW c \in d.collectors, c.round = m.round, Accepts(c, m.src),
             MineIsDue(d, n, submit_share(c, m.src, m.share)), NEW mine \in d.my_share
      PROVE  Finished(d, n, submit_share(c, m.src, m.share), mine) \in K
  <2> DEFINE x == submit_share(c, m.src, m.share)
  <2>1. Finished(d, n, x, mine) \in Sound(n, S)
    BY <1>1, <1>3, <1>7, ZenonT(40) DEF Sharable
  <2>2. /\ x \in Collector /\ Held(x, S \cup Out(n, d.outgoing))
        /\ m.src \in Senders(x) /\ m.src \in x.participants
    BY <1>5, <1>7, ZenonT(40)
  <2>3. d.pending_round_id = {x.round} /\ missing_participants(x) = {n}
    BY <1>7, ZenonT(40) DEF MineIsDue
  <2> HIDE DEF x
  <2>4. x.participants \ {n} # {}
    BY <2>2, <2>3, Zenon DEF missing_participants
  <2>5. Finished(d, n, x, mine) \in K
    BY <1>7, <2>1, <2>2, <2>3, <2>4, HonestFinished, ZenonT(40)
  <2> QED BY <2>5, ZenonT(40) DEF x
<1> HIDE DEF K
<1>8. Sharable(K, n, m)
  BY <1>2, <1>4, <1>6, <1>7, ZenonT(40) DEF Sharable
<1> QED BY <1>8, Zenon DEF K

\* A share on the way was sent.
ShareSent(m, T) ==
    m.type = "DcRoundShare" =>
        \E s \in T : s.node = m.src /\ s.round = m.round /\ s.share = m.share

\* The invariant behind NoForgedText.
HonestInv ==
    /\ SoundInv
    /\ AllTold(sent, announced, initiated)
    /\ \A m \in msgs : ShareSent(m, sent)
    /\ \A n \in Node :
           /\ Intended(n, driver[n].pending_message, driver[n].pending_round_id,
                       driver[n].my_share, announced, initiated)
           /\ AllHeld(driver[n].collectors, sent)
           /\ \A i \in DOMAIN delivered[n] :
                  \E a \in announced : /\ a.round = delivered[n][i].round
                                       /\ a.text = delivered[n][i].text

\* Between calls the driver of every node is honest.
LEMMA HonestBetween ==
    ASSUME HonestInv, NEW n \in Node, NEW I, initiated \subseteq I
    PROVE  driver[n] \in Honest(n, sent, announced, I) /\ sent \in SUBSET SentShare
<1> DEFINE d == driver[n]
<1>1. d \in Sound(n, sent) /\ sent \in SUBSET SentShare
  BY SoundBetween, Zenon DEF HonestInv
<1>2. /\ d.outgoing = {} /\ d.started = {} /\ d.extracted = {}
      /\ FromMe(n, d.outgoing)
  BY Zenon DEF HonestInv, SoundInv, FromMe
<1>3. sent \cup Out(n, d.outgoing) = sent /\ announced \cup Began(n, d.started) = announced
  BY <1>2, Zenon DEF Out, Began
<1>4. Kept(n, d.pending_message, d.pending_round_id, d.collectors, d.my_share, {}, sent,
           announced, I)
  <2>1. AllTold(sent, announced, I)
    BY Zenon DEF HonestInv, AllTold
  <2>2. Intended(n, d.pending_message, d.pending_round_id, d.my_share, announced, I)
    BY ZenonT(40) DEF HonestInv, Intended
  <2>3. AllHeld(d.collectors, sent) /\ AllAnnounced({}, announced)
    BY Zenon DEF HonestInv, AllAnnounced
  <2> QED BY <2>1, <2>2, <2>3, Zenon DEF Kept
<1> HIDE DEF d
<1>5. d \in Honest(n, sent, announced, I)
  BY <1>1, <1>2, <1>3, <1>4, ZenonT(40) DEF Honest
<1> QED BY <1>1, <1>5, Zenon DEF d

\* A call that leaves an honest driver preserves the invariant HonestInv.
LEMMA HonestReturn ==
    ASSUME HonestInv, NEW n \in Node, NEW consumed,
           NEW d \in Honest(n, sent, announced, initiated'),
           Return(n, d, consumed), initiated \subseteq initiated',
           initiated' \subseteq Drafts
    PROVE  HonestInv'
<1> DEFINE back == [d EXCEPT !.outgoing = {}, !.started = {}, !.extracted = {}]
           x == CHOOSE e \in d.extracted : TRUE
<1>0. sent \in SUBSET SentShare /\ driver \in [Node -> Driver] /\ DOMAIN delivered = Node
  BY Zenon DEF HonestInv, SoundInv, TypeOK, SentShare
<1>1. /\ sent' = sent \cup Out(n, d.outgoing)
      /\ announced' = announced \cup Began(n, d.started)
      /\ driver' = [driver EXCEPT ![n] = back]
      /\ msgs' = (msgs \ consumed) \cup d.outgoing
      /\ delivered' = [delivered EXCEPT ![n] =
             IF d.extracted = {} THEN @ ELSE Append(@, x)]
  BY Zenon DEF Return, Out, Began
<1>2. /\ d \in Driver /\ d \in Sound(n, sent) /\ FromMe(n, d.outgoing)
      /\ Kept(n, d.pending_message, d.pending_round_id, d.collectors, d.my_share,
              d.extracted, sent', announced', initiated')
  BY <1>0, <1>1, HonestFacts, Zenon
<1>3. SoundInv'
  BY <1>2, SoundReturn, Zenon DEF HonestInv
<1>4. sent \subseteq sent' /\ announced \subseteq announced'
  BY <1>1, Zenon
<1>5. /\ back.pending_message = d.pending_message
      /\ back.pending_round_id = d.pending_round_id /\ back.collectors = d.collectors
      /\ back.my_share = d.my_share
  BY <1>2, Zenon DEF Driver
<1> HIDE DEF back
<1>6. ASSUME NEW m \in msgs' PROVE ShareSent(m, sent')
  <2>1. CASE m \in msgs
    BY <1>4, <2>1, Zenon DEF HonestInv, ShareSent
  <2>2. CASE m \in d.outgoing
    <3> SUFFICES ASSUME m.type = "DcRoundShare"
                 PROVE  \E s \in sent' : s.node = m.src /\ s.round = m.round
                                         /\ s.share = m.share
      BY Zenon DEF ShareSent
    <3>1. m.src = n
      BY <1>2, <2>2, Zenon DEF FromMe
    <3>2. [node |-> n, round |-> m.round, share |-> m.share] \in Out(n, d.outgoing)
      BY <2>2, Zenon DEF Out
    <3> QED BY <1>1, <3>1, <3>2
  <2> QED BY <1>1, <1>6, <2>1, <2>2, Zenon
<1>7. ASSUME NEW p \in Node
      PROVE  /\ Intended(p, driver'[p].pending_message, driver'[p].pending_round_id,
                         driver'[p].my_share, announced', initiated')
             /\ AllHeld(driver'[p].collectors, sent')
  <2>1. CASE p = n
    <3>1. driver'[p] = back
      BY <1>0, <1>1, <2>1, Zenon
    <3> QED BY <1>2, <1>5, <2>1, <3>1, Zenon DEF Kept
  <2>2. CASE p # n
    <3> DEFINE b == driver[p]
    <3>1. driver'[p] = b
      BY <1>0, <1>1, <2>2, Zenon
    <3>2. /\ Intended(p, b.pending_message, b.pending_round_id, b.my_share, announced,
                      initiated)
          /\ AllHeld(b.collectors, sent)
      BY <1>7, ZenonT(40) DEF HonestInv
    <3> HIDE DEF b
    <3>3. Intended(p, b.pending_message, b.pending_round_id, b.my_share, announced',
                   initiated')
      BY <1>4, <3>2, ZenonT(40) DEF Intended
    <3>4. AllHeld(b.collectors, sent')
      BY <1>4, <3>2, HeldStays, Zenon
    <3> QED BY <3>1, <3>3, <3>4, Zenon
  <2> QED BY <2>1, <2>2, Zenon
<1>8. ASSUME NEW p \in Node, NEW i \in DOMAIN delivered'[p]
      PROVE  \E a \in announced' : /\ a.round = delivered'[p][i].round
                                   /\ a.text = delivered'[p][i].text
  <2>1. CASE i \in DOMAIN delivered[p] /\ delivered'[p][i] = delivered[p][i]
    <3>1. \E a \in announced : /\ a.round = delivered[p][i].round
                              /\ a.text = delivered[p][i].text
      BY <2>1, Zenon DEF HonestInv
    <3> QED BY <1>4, <2>1, <3>1, Zenon
  <2>2. CASE d.extracted # {} /\ delivered'[p][i] = x
    <3>1. x \in d.extracted
      BY <2>2, Zenon
    <3> HIDE DEF x
    <3> QED BY <1>2, <2>2, <3>1, Zenon DEF Kept, AllAnnounced
  <2>3. \/ i \in DOMAIN delivered[p] /\ delivered'[p][i] = delivered[p][i]
        \/ d.extracted # {} /\ delivered'[p][i] = x
    <3>1. CASE p # n \/ d.extracted = {}
      <4>1. delivered'[p] = delivered[p]
        BY <1>0, <1>1, <3>1, Zenon
      <4> QED BY <1>8, <4>1, Zenon
    <3>2. CASE p = n /\ d.extracted # {}
      <4> DEFINE q == delivered[n]
      <4>1. delivered'[p] = Append(q, x)
        BY <1>0, <1>1, <3>2, Zenon
      <4>2. q \in Seq([round : Nat, text : Text])
        BY ZenonT(40) DEF HonestInv, SoundInv, TypeOK
      <4> HIDE DEF q, x
      <4>3. /\ Len(q) \in Nat /\ DOMAIN q = 1 .. Len(q)
            /\ DOMAIN Append(q, x) = 1 .. Len(q) + 1
            /\ \A j \in 1 .. Len(q) : Append(q, x)[j] = q[j]
            /\ Append(q, x)[Len(q) + 1] = x
        BY <4>2
      <4>4. \A j \in 1 .. Len(q) + 1 : j \in 1 .. Len(q) \/ j = Len(q) + 1
        BY <4>3
      <4>5. \/ i \in DOMAIN q /\ Append(q, x)[i] = q[i]
            \/ Append(q, x)[i] = x
        BY <1>8, <4>1, <4>3, <4>4, Zenon
      <4> QED BY <3>2, <4>1, <4>5, Zenon DEF q
    <3> QED BY <3>1, <3>2, Zenon
  <2> QED BY <2>1, <2>2, <2>3, Zenon
<1>9. AllTold(sent', announced', initiated')
  BY <1>2, Zenon DEF Kept
<1> QED BY <1>3, <1>6, <1>7, <1>8, <1>9, ZenonT(40) DEF HonestInv

\* HonestInv holds initially.
LEMMA HonestInit == ASSUME Init PROVE HonestInv
<1>1. SoundInv
  BY SoundInit, Zenon
<1>2. AllTold(sent, announced, initiated)
  BY Zenon DEF Init, AllTold
<1>3. ASSUME NEW n \in Node
      PROVE  /\ Intended(n, driver[n].pending_message, driver[n].pending_round_id,
                         driver[n].my_share, announced, initiated)
             /\ AllHeld(driver[n].collectors, sent) /\ DOMAIN delivered[n] = {}
  <2>1. /\ driver[n].pending_message = {} /\ driver[n].pending_round_id = {}
        /\ driver[n].collectors = {} /\ delivered[n] = <<>>
    BY <1>3, Zenon DEF Init, NewDriver
  <2>2. DOMAIN delivered[n] = {}
    BY <2>1
  <2> QED BY <2>1, <2>2, Zenon DEF Intended, AllHeld
<1> QED BY <1>1, <1>2, <1>3, Zenon DEF HonestInv, Init

\* Every step preserves HonestInv.
LEMMA HonestStep == ASSUME HonestInv, [Next]_vars PROVE HonestInv'
<1>1. ASSUME NEW n \in Node, NEW text \in Text, NEW participants \in Groups,
             Initiate(n, text, participants)
      PROVE  HonestInv'
  <2> DEFINE d == driver[n]
             e == initiate(d, n, text, participants)
             K == Honest(n, sent, announced, initiated')
  <2>1. /\ initiated \subseteq initiated' /\ initiated' \subseteq Drafts
        /\ <<n, text>> \in initiated' /\ Return(n, e, {})
    BY <1>1, ZenonT(40) DEF Initiate, HonestInv, SoundInv, TypeOK
  <2>2. d \in K /\ sent \in SUBSET SentShare
    BY <2>1, HonestBetween, ZenonT(40)
  <2>3. Skip(d) \in K
    <3>1. Endable(K, n)
      BY <2>2, HonestEndable, Zenon
    <3> HIDE DEF K, d
    <3> QED BY <2>2, <3>1, Zenon DEF Endable, Retriable
  <2>4. CanShare(n, participants, {text}, EdgeKey) => Begin(d, n, text, participants) \in K
    BY <2>1, <2>2, HonestBegin, ZenonT(40)
  <2> HIDE DEF d
  <2>5. e \in K
    BY <2>2, <2>3, <2>4, InitiateCases, Zenon
  <2> HIDE DEF e
  <2> QED BY <2>1, <2>5, HonestReturn, Zenon
<1>2. ASSUME NEW n \in Node, NEW m \in msgs, Handle(n, m)
      PROVE  HonestInv'
  <2> DEFINE e == handle(drop_expired(driver[n], n), n, m)
             K == Honest(n, sent, announced, initiated')
  <2>1. /\ initiated \subseteq initiated' /\ initiated' \subseteq Drafts
        /\ Return(n, e, {m})
    BY <1>2, ZenonT(40) DEF Handle, HonestInv, SoundInv, TypeOK
  <2>2. driver[n] \in K /\ sent \in SUBSET SentShare
    BY <2>1, HonestBetween, ZenonT(40)
  <2>3. Endable(K, n)
    BY <2>2, HonestEndable, ZenonT(40)
  <2>4. \/ m \in StartMsg /\ Joinable(K, n, m)
        \/ m \in ShareMsg /\ Sharable(K, n, m)
    <3>1. CASE m \in StartMsg
      <4>1. m.participants \in Groups
        BY <3>1, ZenonT(40) DEF HonestInv, SoundInv, Listed, StartMsg
      <4> QED BY <2>2, <3>1, <4>1, HonestJoinable, ZenonT(40)
    <3>2. CASE m \in ShareMsg
      <4>1. \E s \in sent : s.node = m.src /\ s.round = m.round /\ s.share = m.share
        BY <3>2, Zenon DEF HonestInv, ShareSent, ShareMsg
      <4> QED BY <2>2, <3>2, <4>1, HonestSharable, Zenon
    <3> QED BY <3>1, <3>2, ZenonT(40) DEF HonestInv, SoundInv, TypeOK
  <2> HIDE DEF K
  <2>5. e \in K
    BY <2>2, <2>3, <2>4, HandleIn, Zenon
  <2> HIDE DEF e
  <2> QED BY <2>1, <2>5, HonestReturn, Zenon DEF K
<1>3. ASSUME NEW n \in Node, NEW c \in driver[n].collectors, Expire(n, c)
      PROVE  HonestInv'
  <2> DEFINE x == [c EXCEPT !.expired = TRUE]
             d == driver[n]
             cs == WithCollector(d.collectors, x)
             b == [d EXCEPT !.collectors = cs]
  <2>1. SoundInv'
    BY <1>3, SoundStep, Zenon DEF HonestInv, Next
  <2>2. d \in Driver /\ driver \in [Node -> Driver] /\ c \in Collector
    <3>1. d \in Driver /\ driver \in [Node -> Driver]
      BY Zenon DEF HonestInv, SoundInv, TypeOK
    <3> QED BY <3>1, Zenon DEF Driver
  <2>3. x.round = c.round /\ x.shares_received = c.shares_received
    BY <2>2, Zenon DEF Collector
  <2>4. /\ driver' = [driver EXCEPT ![n] = b]
        /\ UNCHANGED <<msgs, delivered, initiated, announced, sent>>
    BY <1>3, <2>2, Zenon DEF Expire
  <2> HIDE DEF x
  <2>5. AllHeld(cs, sent)
    <3>1. AllHeld(d.collectors, sent)
      BY ZenonT(40) DEF HonestInv
    <3>2. Held(c, sent)
      BY <3>1, Zenon DEF AllHeld
    <3> HIDE DEF d
    <3>3. Held(x, sent)
      BY <2>3, <3>2, Zenon DEF Held
    <3> QED BY <3>1, <3>3, Zenon DEF AllHeld, WithCollector
  <2> HIDE DEF cs
  <2>6. /\ b.pending_message = d.pending_message
        /\ b.pending_round_id = d.pending_round_id /\ b.collectors = cs
        /\ b.my_share = d.my_share
    BY <2>2, Zenon DEF Driver
  <2> HIDE DEF b
  <2>7. ASSUME NEW p \in Node
        PROVE  /\ Intended(p, driver'[p].pending_message, driver'[p].pending_round_id,
                           driver'[p].my_share, announced, initiated)
               /\ AllHeld(driver'[p].collectors, sent)
    <3>1. CASE p = n
      <4>1. driver'[p] = b
        BY <2>2, <2>4, <3>1, Zenon
      <4>2. Intended(n, d.pending_message, d.pending_round_id, d.my_share, announced,
                     initiated)
        BY ZenonT(40) DEF HonestInv
      <4> QED BY <2>5, <2>6, <3>1, <4>1, <4>2, Zenon
    <3>2. CASE p # n
      <4>1. driver'[p] = driver[p]
        BY <2>2, <2>4, <3>2, Zenon
      <4> QED BY <2>7, <4>1, ZenonT(40) DEF HonestInv
    <3> QED BY <3>1, <3>2, Zenon
  <2> QED BY <2>1, <2>4, <2>7, ZenonT(40) DEF HonestInv
<1>4. ASSUME NEW m \in msgs, Lose(m) PROVE HonestInv'
  <2>1. SoundInv'
    BY <1>4, SoundStep, ZenonT(40) DEF HonestInv, Next
  <2> QED BY <1>4, <2>1, ZenonT(40) DEF Lose, HonestInv
<1>5. CASE UNCHANGED vars
  <2>1. SoundInv'
    BY <1>5, SoundStep, Zenon DEF HonestInv
  <2> QED BY <1>5, <2>1, Zenon DEF vars, HonestInv
<1> QED BY <1>1, <1>2, <1>3, <1>4, <1>5, ZenonT(40) DEF Next

\* Nobody extracts a text that no user handed in, or that its sender did not
\* announce for the round it comes out of: for any number of nodes, and also
\* when they have started rounds with different participant lists, so that a
\* node may combine the shares of one round with those of another.
THEOREM DriverNoForgery == Spec => []NoForgedText
<1>1. Init => HonestInv
  BY HonestInit, Zenon
<1>2. HonestInv /\ [Next]_vars => HonestInv'
  BY HonestStep, Zenon
<1>3. HonestInv => NoForgedText
  BY ZenonT(40) DEF HonestInv, AllTold, NoForgedText
<1> QED BY <1>1, <1>2, <1>3, PTL DEF Spec
===========================================================================
