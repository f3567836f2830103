---------------------------- MODULE GroupRounds ----------------------------
(***************************************************************************)
(* The group of a channel, its rounds and what they do to the standing of   *)
(* its members: dcnet/group.rs, dcnet/round.rs, Participant in dcnet/mod.rs, *)
(* dcnet/reputation.rs, and F2fDcNetBridge::broadcast_message, which runs a  *)
(* round on both.                                                           *)
(*                                                                          *)
(* Scores are f64; here they count millionths.  A Vec<Participant> with one *)
(* entry per peer is a function.  drop_timing_pct is kept as its last three *)
(* entries, each the answer to "> 80", which is all that is read of it.     *)
(***************************************************************************)
EXTENDS Integers, Sequences, FiniteSets

CONSTANTS Peer,
          Me,         \* this client
          MaxRounds,  \* bound on the rounds started
          MaxReports  \* bound on the rounds a peer is reported on

ASSUME MeAssumption         == Me \in Peer /\ IsFiniteSet(Peer)
ASSUME RoundBoundAssumption == MaxRounds \in Nat /\ MaxReports \in Nat

Thousandth == 1000
One        == 1000 * Thousandth
Reward     == 50 * Thousandth

min_participants == 2

VARIABLES participants,   \* the group's members, with their standing
          current_round,  \* NoRound, or the members it was started with
          rounds,         \* rounds started so far
          round_id,       \* of the channel
          reputation,     \* ReputationManager::peers
          friend_trust    \* trust_level of the friends, as the user set it at first

groupVars == <<participants, current_round, rounds, round_id, reputation, friend_trust>>

Friends == Peer \ {Me}

---------------------------------------------------------------------------
(* Participant (dcnet/mod.rs).                                              *)

Participant == [reputation : 0 .. One, consecutive_drops : Nat]

NewParticipant == [reputation |-> One, consecutive_drops |-> 0]

Raised(score) == IF score + Reward > One THEN One ELSE score + Reward

Lowered(score) == (score * 7) \div 10

penalize(p) == [reputation |-> Lowered(p.reputation),
                consecutive_drops |-> p.consecutive_drops + 1]

reward(p) == [reputation |-> Raised(p.reputation), consecutive_drops |-> 0]

is_malicious(p) == p.consecutive_drops >= 3 \/ p.reputation < 300 * Thousandth

---------------------------------------------------------------------------
(* Reputation (dcnet/reputation.rs).                                        *)

Reputation == [score : 0 .. One, rounds_total : Nat, rounds_dropped : Nat,
               consecutive_drops : Nat, late : Seq(BOOLEAN), banned : BOOLEAN]

NewReputation == [score |-> One \div 2, rounds_total |-> 0, rounds_dropped |-> 0,
                  consecutive_drops |-> 0, late |-> <<>>, banned |-> FALSE]

LastThree(s) == IF Len(s) > 3 THEN Tail(s) ELSE s

Rewarded(r) == [r EXCEPT !.rounds_total = @ + 1, !.consecutive_drops = 0,
                         !.score = Raised(@)]

Penalized(r, late) == [r EXCEPT !.rounds_total = @ + 1, !.rounds_dropped = @ + 1,
                                !.consecutive_drops = @ + 1, !.score = Lowered(@),
                                !.late = LastThree(Append(@, late))]

LateDrops(r) == Cardinality({i \in DOMAIN r.late : r.late[i]})

Malicious(r) ==
    \/ r.banned
    \/ r.consecutive_drops >= 3 /\ LateDrops(r) >= 2
    \/ r.rounds_total >= 10 /\ 2 * r.rounds_dropped > r.rounds_total
    \/ r.score < 300 * Thousandth

ban(r) == [r EXCEPT !.banned = TRUE, !.score = 0]

Level(score) == IF score >= 800 * Thousandth THEN 2 ELSE IF score >= 500 * Thousandth THEN 1 ELSE 0

trust_level(r) == IF r.banned THEN 0 ELSE Level(r.score)

\* The level sync_reputation_to_trust gives the friend.
SyncedLevel(r) == IF Malicious(r) THEN 0 ELSE Level(r.score)

---------------------------------------------------------------------------
NoRound == <<>>

GroupInit ==
    /\ participants = [p \in {Me} |-> NewParticipant]
    /\ current_round = NoRound
    /\ rounds = 0
    /\ round_id = 0
    /\ reputation = [p \in {} |-> NewReputation]
    /\ friend_trust \in [Friends -> 1 .. 2]

Without(group, gone) == [p \in DOMAIN group \ gone |-> group[p]]

MaliciousOf(group) == {p \in DOMAIN group : is_malicious(group[p])}

join(peer) ==
    /\ peer \notin DOMAIN participants
    /\ participants' = [p \in DOMAIN participants \cup {peer} |->
                           IF p = peer THEN NewParticipant ELSE participants[p]]
    /\ UNCHANGED <<current_round, rounds, round_id, reputation, friend_trust>>

leave(peer) ==
    /\ peer \in DOMAIN participants
    /\ participants' = Without(participants, {peer})
    /\ UNCHANGED <<current_round, rounds, round_id, reputation, friend_trust>>

reform(dropouts) ==
    /\ participants' = Without(participants, dropouts)
    /\ UNCHANGED <<current_round, rounds, round_id, reputation, friend_trust>>

\* The members that start_round keeps, whether or not it then starts a round.
Fit == Without(participants, MaliciousOf(participants))

start_round ==
    /\ rounds < MaxRounds
    /\ participants' = Fit
    /\ IF Cardinality(DOMAIN Fit) < min_participants
       THEN UNCHANGED <<current_round, rounds>>
       ELSE current_round' = Fit /\ rounds' = rounds + 1
    /\ UNCHANGED <<round_id, reputation, friend_trust>>

finish_round ==
    /\ current_round # NoRound
    /\ current_round' = NoRound
    /\ participants' = Fit
    /\ UNCHANGED <<rounds, round_id, reputation, friend_trust>>

mark_dropouts(round, responded) ==
    [p \in DOMAIN round |-> IF p \in responded THEN reward(round[p]) ELSE penalize(round[p])]

\* Mutant: the members that have turned malicious stay.
Finished_KeepsMalicious(group, round, responded) ==
    LET after == mark_dropouts(round, responded)
    IN [p \in DOMAIN group |-> IF p \in DOMAIN after THEN after[p] ELSE group[p]]

\* The group after a round: what became of its members is written back to
\* those who are still, or again, in the group.
Finished(group, round, responded) ==
    LET after == mark_dropouts(round, responded)
    IN [p \in DOMAIN group \ MaliciousOf(after) |->
           IF p \in DOMAIN after THEN after[p] ELSE group[p]]

\* Mutant: the round stays the current one.
finish_round_with_StillOpen(responded) ==
    /\ current_round # NoRound
    /\ participants' = Finished(participants, current_round, responded)
    /\ UNCHANGED <<current_round, rounds, round_id, reputation, friend_trust>>

finish_round_with(responded) ==
    /\ current_round # NoRound
    /\ participants' = Finished(participants, current_round, responded)
    /\ current_round' = NoRound
    /\ UNCHANGED <<rounds, round_id, reputation, friend_trust>>

---------------------------------------------------------------------------
get_or_create(peer) ==
    IF peer \in DOMAIN reputation THEN reputation[peer] ELSE NewReputation

\* Mutant: nobody is banned.
Dropped_NotBanned(r, late) == Penalized(r, late)

\* The standing of a peer that did not respond.
Dropped(r, late) ==
    LET s == Penalized(r, late) IN IF Malicious(s) THEN ban(s) ELSE s

Processed(all, responded, late) ==
    [p \in DOMAIN reputation \cup all |->
        IF p \notin all THEN reputation[p]
        ELSE IF p \in responded THEN Rewarded(get_or_create(p))
        ELSE Dropped(get_or_create(p), late)]

\* late: more than 80 % of the round had passed
process_round(all, responded, late) ==
    /\ \A p \in all : get_or_create(p).rounds_total < MaxReports
    /\ reputation' = Processed(all, responded, late)
    /\ UNCHANGED <<participants, current_round, rounds, round_id, friend_trust>>

\* The friends have an entry each, and the level it stands for.
SyncedWith(peers) ==
    /\ reputation' = [p \in DOMAIN peers \cup Friends |->
                         IF p \in DOMAIN peers THEN peers[p] ELSE NewReputation]
    /\ friend_trust' = [p \in Friends |-> SyncedLevel(reputation'[p])]

sync_reputation_to_trust ==
    /\ SyncedWith(reputation)
    /\ UNCHANGED <<participants, current_round, rounds, round_id>>

\* A round with every member, all of whom respond, so that nobody is evicted.
\* When this client is not a member itself, the round stays open.
broadcast_message ==
    /\ rounds < MaxRounds
    /\ \A p \in DOMAIN participants : get_or_create(p).rounds_total < MaxReports
    /\ Cardinality(DOMAIN participants) >= 2
    /\ IF Cardinality(DOMAIN Fit) < min_participants
       THEN /\ participants' = Fit
            /\ UNCHANGED <<current_round, rounds, round_id, reputation, friend_trust>>
       ELSE /\ rounds' = rounds + 1
            /\ IF Me \notin DOMAIN participants
               THEN /\ participants' = Fit /\ current_round' = Fit
                    /\ UNCHANGED <<round_id, reputation, friend_trust>>
               ELSE /\ participants' = Finished(Fit, Fit, DOMAIN participants)
                    /\ current_round' = NoRound
                    /\ SyncedWith(Processed(DOMAIN participants, DOMAIN participants, TRUE))
                    /\ round_id' = round_id + 1

RoundNext ==
    \/ \E p \in Peer : join(p) \/ leave(p)
    \/ \E dropouts \in SUBSET Peer : reform(dropouts)
    \/ start_round \/ finish_round
    \/ \E responded \in SUBSET Peer : finish_round_with(responded)
    \/ broadcast_message \/ sync_reputation_to_trust

ReportNext ==
    \E all \in SUBSET Peer, responded \in SUBSET Peer, late \in BOOLEAN :
        process_round(all, responded, late)

GroupNext == RoundNext \/ ReportNext

GroupSpec == GroupInit /\ [][GroupNext]_groupVars

---------------------------------------------------------------------------
\* The fields of DcGroup and ReputationManager.
GroupTypeOK ==
    /\ DOMAIN participants \subseteq Peer
    /\ \A p \in DOMAIN participants : participants[p] \in Participant
    /\ DOMAIN current_round \subseteq Peer
    /\ \A p \in DOMAIN current_round : current_round[p] \in Participant
    /\ rounds \in 0 .. MaxRounds /\ round_id \in 0 .. rounds
    /\ friend_trust \in [Friends -> 0 .. 2]
    /\ DOMAIN reputation \subseteq Peer
    /\ \A p \in DOMAIN reputation : reputation[p] \in Reputation

\* Three missed rounds, or a score that fell too low, and a member is out,
\* also when it left and joined again while the round ran: no member is
\* malicious, and a round has two members or more, none of them malicious
\* (group.rs:31-34, 60-84).
NoMaliciousMember ==
    /\ MaliciousOf(participants) = {}
    /\ current_round # NoRound =>
          /\ Cardinality(DOMAIN current_round) >= min_participants
          /\ MaliciousOf(current_round) = {}

\* What a round writes back when it ends is not out of date, however long it was
\* left open and whoever came and went: until then a member stands as it did
\* when the round was started, or as a newcomer if it left and joined again, so
\* no penalty given in the meantime is overwritten (group.rs:66-84, f2f.rs:559).
WriteBackIsCurrent ==
    \A p \in DOMAIN participants \cap DOMAIN current_round :
        participants[p] \in {current_round[p], NewParticipant}

\* There is one verdict on a peer, whoever asks: is_malicious says of no peer
\* what banned, which top_trusted and banned_count go by, does not, also when a
\* reward brings its rounds to ten; and trust_level and
\* sync_reputation_to_trust put it on the same level (reputation.rs:69-74).
OneVerdict ==
    \A p \in DOMAIN reputation :
        /\ Malicious(reputation[p]) <=> reputation[p].banned
        /\ trust_level(reputation[p]) = SyncedLevel(reputation[p])
===========================================================================
