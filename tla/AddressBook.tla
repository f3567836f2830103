---------------------------- MODULE AddressBook ----------------------------
(***************************************************************************)
(* The address books of several nodes and the gossip between them           *)
(* (address_book.rs).  Nothing in the daemon sends gossip yet: who answers  *)
(* whom, and when an answer arrives, is left open.  An answer may arrive    *)
(* late, in any order and more than once.                                   *)
(*                                                                          *)
(* The time is that of the system's clock, which can be set.  An age is an  *)
(* unsigned difference that wraps around, as in the release build.          *)
(* Confidences are in tenths.  Where an entry came from is left out:        *)
(* nothing reads it.                                                        *)
(***************************************************************************)
EXTENDS Integers, FiniteSets, TrustLevels

CONSTANTS Keeper,       \* nodes that keep a book
          Stranger,     \* uids that keep none
          SocketAddr,
          PublicKey,
          Confidence,   \* of what is entered by hand or heard on the LAN
          KeeperTrust,  \* [Keeper -> [Keeper -> TrustLevel]]: whom each trusts
          AgeModulus,   \* 2^64
          MaxAgeSecs,   \* what prune_stale is called with
          MaxNow,       \* bound on the time
          MaxEntered,   \* bound on the addresses entered by hand or heard on the LAN
          MaxAnswers    \* bound on the gossip sent

Known == Keeper \cup Stranger

ASSUME KeeperAssumption == KeeperTrust \in [Keeper -> [Keeper -> TrustLevel]]
ASSUME ConfidenceAssumption == Confidence \subseteq 0 .. 10
ASSUME AgeAssumption    == /\ MaxAgeSecs \in Nat /\ MaxNow \in Nat
                           /\ AgeModulus \in Nat /\ AgeModulus > MaxNow
ASSUME GossipAssumption == MaxEntered \in Nat /\ MaxAnswers \in Nat

VARIABLES entries,  \* per keeper: its book, a function from the uids it lists
          now,
          answers,  \* gossip responses sent
          entered   \* history: <<keeper, uid, address, key>> entered directly

bookVars == <<entries, now, answers, entered>>

AddressEntry == [addresses : SUBSET SocketAddr, public_key : PublicKey,
                 last_seen : 0 .. MaxNow, confidence : 0 .. 10]

PeerAnnounce == [uid : Known, addresses : SUBSET SocketAddr,
                 public_key : PublicKey]

BookInit ==
    /\ entries = [n \in Keeper |-> [u \in {} |-> 0]]
    /\ now = 0
    /\ answers = {}
    /\ entered = {}

---------------------------------------------------------------------------
\* An entry stays the entry of the key it was made with; addresses are only
\* added.  The rest is that of the latest report, or within one second of the
\* one with the highest confidence.
Merged(e, addresses, confidence) ==
    LET all == [e EXCEPT !.addresses = @ \cup addresses]
    IN  IF confidence > e.confidence \/ now > e.last_seen
        THEN [all EXCEPT !.last_seen = now, !.confidence = confidence]
        ELSE all

\* A book with a report entered.
add_or_update(book, uid, addresses, key, confidence) ==
    [u \in DOMAIN book \cup {uid} |->
        IF u # uid THEN book[u]
        ELSE IF uid \in DOMAIN book
        THEN Merged(book[uid], addresses, confidence)
        ELSE [addresses |-> addresses, public_key |-> key, last_seen |-> now,
              confidence |-> confidence]]

\* The user names a peer, or it is heard on the LAN.
Enter(n, uid, address, key, confidence) ==
    /\ Cardinality(entered) < MaxEntered
    /\ entered' = entered \cup {<<n, uid, address, key>>}
    /\ entries' = [entries EXCEPT ![n] =
           add_or_update(@, uid, {address}, key, confidence)]
    /\ UNCHANGED <<now, answers>>

\* Mutant: the peer is told about itself.
build_gossip_response_All(book, exclude_uid) ==
    {[uid |-> u, addresses |-> book[u].addresses,
      public_key |-> book[u].public_key] : u \in DOMAIN book}

build_gossip_response(book, exclude_uid) ==
    {[uid |-> u, addresses |-> book[u].addresses,
      public_key |-> book[u].public_key] : u \in DOMAIN book \ {exclude_uid}}

\* A node shares what it knows with another one.
Answer(n, to) ==
    /\ Cardinality(answers) < MaxAnswers
    /\ answers' = answers \cup
           {[from |-> n, to |-> to, peers |-> build_gossip_response(entries[n], to)]}
    /\ UNCHANGED <<entries, now, entered>>

Weight(level) == CASE level = Ultimate -> 10
                   [] level = Full     -> 8
                   [] level = Marginal -> 4
                   [] OTHER            -> 0

\* Every announcement is entered in turn; there is one per uid.
WithAll(book, peers, confidence) ==
    [u \in DOMAIN book \cup {r.uid : r \in peers} |->
        IF \E r \in peers : r.uid = u
        THEN LET announce == CHOOSE r \in peers : r.uid = u
             IN  add_or_update(book, u, announce.addresses,
                               announce.public_key, confidence)[u]
        ELSE book[u]]

\* Mutant: an unknown source is believed.
Believed_Unknown(level) == level >= Unknown

Believed(level) == level >= Marginal

handle_gossip_response(r) ==
    LET level == KeeperTrust[r.to][r.from]
    IN  /\ entries' = IF Believed(level)
                      THEN [entries EXCEPT ![r.to] =
                               WithAll(@, r.peers, Weight(level))]
                      ELSE entries
        /\ UNCHANGED <<now, answers, entered>>

\* The age wraps around when the clock was set back: the entry then goes.
prune_stale(n) ==
    /\ entries' = [entries EXCEPT ![n] =
           [u \in {v \in DOMAIN @ :
                      (now - @[v].last_seen) % AgeModulus < MaxAgeSecs} |-> @[u]]]
    /\ UNCHANGED <<now, answers, entered>>

\* Time passes, or the clock is set.
SetClock(t) ==
    /\ now' = t
    /\ UNCHANGED <<entries, answers, entered>>

BookNext ==
    \/ \E n \in Keeper, uid \in Known, address \in SocketAddr,
          key \in PublicKey, confidence \in Confidence :
           Enter(n, uid, address, key, confidence)
    \/ \E n, to \in Keeper : n # to /\ Answer(n, to)
    \/ \E r \in answers : handle_gossip_response(r)
    \/ \E n \in Keeper : prune_stale(n)
    \/ \E t \in (0 .. MaxNow) \ {now} : SetClock(t)

BookSpec == BookInit /\ [][BookNext]_bookVars

---------------------------------------------------------------------------
\* Every book lists uids with an entry each.
BookTypeOK ==
    /\ \A n \in Keeper : /\ DOMAIN entries[n] \subseteq Known
                         /\ \A u \in DOMAIN entries[n] :
                                entries[n][u] \in AddressEntry
    /\ now \in 0 .. MaxNow
    /\ answers \subseteq [from : Keeper, to : Keeper, peers : SUBSET PeerAnnounce]

\* The nodes whose word reaches n, from friend to friend, each of whom the next
\* one trusts at least marginally: they are in every set that n is in and that
\* holds whoever its members trust.
Heard(n) ==
    {m \in Keeper : \A S \in SUBSET Keeper :
        (/\ n \in S
         /\ \A s \in S, t \in Keeper :
                KeeperTrust[s][t] >= Marginal => t \in S) => m \in S}

\* What reaches n about u: of n itself, only what was entered there.
Sources(n, u, reports) ==
    {e \in reports : e[2] = u /\ e[1] \in IF u = n THEN {n} ELSE Heard(n)}

Backed(n, u, addresses, key, reports) ==
    /\ addresses \subseteq {e[3] : e \in Sources(n, u, reports)}
    /\ key \in {e[4] : e \in Sources(n, u, reports)}

\* What a book says of a peer, some node entered by hand or heard on its LAN
\* whose word comes here along friends that trust each other, however late and
\* in whatever order the answers arrive and whatever was pruned meanwhile; and
\* nobody is told about itself (address_book.rs:8, :172).
GossipFollowsTrust ==
    \A n \in Keeper : \A u \in DOMAIN entries[n] :
        Backed(n, u, entries[n][u].addresses, entries[n][u].public_key, entered)
===========================================================================
