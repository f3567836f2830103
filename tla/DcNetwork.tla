----------------------------- MODULE DcNetwork -----------------------------
(***************************************************************************)
(* Membership and leadership of one DC-Net network, dcnet/network.rs.       *)
(*                                                                          *)
(* The Vec member_join_order is the function from its elements to numbers   *)
(* that grow with every join: kicking removes an entry and leaves the order *)
(* of the others alone, and positions are only ever compared.  A refused    *)
(* operation returns Err and changes nothing.                               *)
(***************************************************************************)
EXTENDS Integers, FiniteSets, TrustLevels

CONSTANTS Uid,      \* uids
          Founder,  \* who creates the network
          Topic,    \* topics
          MaxJoins  \* bound on the number of joins

ASSUME FounderAssumption == Founder \in Uid
ASSUME JoinsAssumption   == MaxJoins \in Nat

VARIABLES admin_uid, topic, members,
          pending_invites,    \* HashMap: records [uid, by], one per uid
          min_trust, current_leader,
          member_join_order,
          joins               \* joins so far

vars == <<admin_uid, topic, members, pending_invites, min_trust,
          current_leader, member_join_order, joins>>

Init ==
    /\ admin_uid = Founder
    /\ topic \in Topic
    /\ members = {Founder}
    /\ pending_invites = {}
    /\ min_trust = Marginal
    /\ current_leader = Founder
    /\ member_join_order = [u \in {Founder} |-> 0]
    /\ joins = 0

---------------------------------------------------------------------------
has_pending_invite(uid) == \E i \in pending_invites : i.uid = uid

\* The one of candidates that joined first.
Earliest(order, candidates) ==
    CHOOSE u \in candidates : \A v \in candidates : order[u] <= order[v]

invite_member(uid, invited_by) ==
    /\ invited_by = admin_uid
    /\ uid \notin members
    /\ pending_invites' = {i \in pending_invites : i.uid # uid}
                              \cup {[uid |-> uid, by |-> invited_by]}
    /\ UNCHANGED <<admin_uid, topic, members, min_trust, current_leader,
                   member_join_order, joins>>

\* Mutant: the invitation stays.
accept_join_KeepsInvite(uid, trust_level) ==
    /\ joins < MaxJoins
    /\ has_pending_invite(uid)
    /\ trust_level >= min_trust
    /\ members' = members \cup {uid}
    /\ member_join_order' = [u \in DOMAIN member_join_order \cup {uid} |->
           IF u = uid THEN joins + 1 ELSE member_join_order[u]]
    /\ joins' = joins + 1
    /\ UNCHANGED <<admin_uid, topic, pending_invites, min_trust,
                   current_leader>>

accept_join(uid, trust_level) ==
    /\ joins < MaxJoins
    /\ has_pending_invite(uid)
    /\ trust_level >= min_trust
    /\ pending_invites' = {i \in pending_invites : i.uid # uid}
    /\ IF uid \in members
       THEN UNCHANGED <<members, member_join_order, joins>>
       ELSE /\ members' = members \cup {uid}
            /\ member_join_order' =
                   [u \in DOMAIN member_join_order \cup {uid} |->
                       IF u = uid THEN joins + 1 ELSE member_join_order[u]]
            /\ joins' = joins + 1
    /\ UNCHANGED <<admin_uid, topic, min_trust, current_leader>>

\* Mutant: the leader's seat stays empty.
Failover_Empty(uid, order) ==
    IF uid = current_leader THEN "" ELSE current_leader

\* Mutant: a kicked leader stays leader.
Failover_None(uid, order) == current_leader

\* Kicking the leader makes the first member in join order the leader.
Failover(uid, order) ==
    IF uid = current_leader THEN Earliest(order, DOMAIN order)
                            ELSE current_leader

\* The join order without uid.
Unlisted(uid) ==
    [u \in DOMAIN member_join_order \ {uid} |-> member_join_order[u]]

kick_member(uid, kicked_by) ==
    /\ kicked_by = admin_uid
    /\ uid # admin_uid
    /\ members' = members \ {uid}
    /\ member_join_order' = Unlisted(uid)
    /\ pending_invites' = {i \in pending_invites : i.uid # uid}
    /\ current_leader' = Failover(uid, Unlisted(uid))
    /\ UNCHANGED <<admin_uid, topic, min_trust, joins>>

transfer_admin(new_admin, current_admin) ==
    /\ current_admin = admin_uid
    /\ new_admin \in members
    /\ admin_uid' = new_admin
    /\ current_leader' = new_admin
    /\ UNCHANGED <<topic, members, pending_invites, min_trust,
                   member_join_order, joins>>

set_topic(t, setter) ==
    /\ setter = admin_uid
    /\ topic' = t
    /\ UNCHANGED <<admin_uid, members, pending_invites, min_trust,
                   current_leader, member_join_order, joins>>

set_min_trust(level, setter) ==
    /\ setter = admin_uid
    /\ min_trust' = level
    /\ UNCHANGED <<admin_uid, topic, members, pending_invites, current_leader,
                   member_join_order, joins>>

\* The next member in join order, the first one after the last.
next_leader ==
    LET later == {u \in DOMAIN member_join_order :
                     member_join_order[u] > member_join_order[current_leader]}
    IN  Earliest(member_join_order,
                 IF later = {} THEN DOMAIN member_join_order ELSE later)

rotate_leader ==
    /\ current_leader \in DOMAIN member_join_order
    /\ current_leader' = next_leader
    /\ UNCHANGED <<admin_uid, topic, members, pending_invites, min_trust,
                   member_join_order, joins>>

set_leader(uid) ==
    /\ uid \in members
    /\ current_leader' = uid
    /\ UNCHANGED <<admin_uid, topic, members, pending_invites, min_trust,
                   member_join_order, joins>>

Next ==
    \/ \E u, by \in Uid : \/ invite_member(u, by)
                          \/ kick_member(u, by)
                          \/ transfer_admin(u, by)
    \/ \E u \in Uid, t \in TrustLevel : accept_join(u, t)
    \/ \E t \in Topic, by \in Uid : set_topic(t, by)
    \/ \E t \in TrustLevel, by \in Uid : set_min_trust(t, by)
    \/ rotate_leader
    \/ \E u \in Uid : set_leader(u)

Spec == Init /\ [][Next]_vars

---------------------------------------------------------------------------
Invite == [uid : Uid, by : Uid]

\* The values every variable ranges over.
TypeOK ==
    /\ admin_uid \in Uid /\ current_leader \in Uid
    /\ topic \in Topic
    /\ members \subseteq Uid
    /\ pending_invites \subseteq Invite
    /\ min_trust \in TrustLevel
    /\ DOMAIN member_join_order \subseteq Uid
    /\ member_join_order \in [DOMAIN member_join_order -> 0 .. joins]
    /\ joins \in Nat

\* Whatever is invited, kicked, transferred or rotated, the leader and the
\* admin are members, so that leader rotation never fails (network.rs:148).
LeaderIsMember == current_leader \in members /\ admin_uid \in members

\* The join order lists the members and nobody else, each once: a rotation
\* passes through all of them before it repeats one (network.rs:38).
OrderListsMembers ==
    /\ DOMAIN member_join_order = members
    /\ \A u, v \in members :
           member_join_order[u] = member_join_order[v] => u = v

\* No member has an invitation open: a kicked member cannot come back on an
\* old one (network.rs:146).
InvitesAreForOutsiders == \A u \in members : ~has_pending_invite(u)
===========================================================================
