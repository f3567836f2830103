---------------------------- MODULE SocialState ----------------------------
(***************************************************************************)
(* The social state of one client, F2fDcNetBridge of dcnet/f2f.rs: its uid, *)
(* its friends and its channels, and what each logged operation does to it. *)
(*                                                                          *)
(* friends and channels are HashMaps: sets of records with distinct keys.   *)
(* channels and groups have the same keys (they are created and cleared     *)
(* together), so a channel record also holds the members of its DcGroup.    *)
(***************************************************************************)
EXTENDS Integers, FiniteSets, Sequences

CONSTANTS Uid,      \* uids: ours and those of friends
          Channel,  \* channel names
          Topic,    \* channel topics
          NoTopic   \* String::new()

ASSUME TopicAssumption == NoTopic \in Topic

MaxTrust == 2
MinTrust == 1

\* Edge keys are numbered in the order in which they are generated.
Friend == [uid : Uid, trust : 0 .. MaxTrust, edge_key : Nat]

ChannelInfo == [name : Channel, topic : Topic, participants : SUBSET Uid,
                group : SUBSET Uid]

Bridge == [my_uid : Uid, friends : SUBSET Friend,
           channels : SUBSET ChannelInfo]

NewBridge(uid) == [my_uid |-> uid, friends |-> {}, channels |-> {}]

Op == [op : {"add_friend", "update_trust"}, uid : Uid, trust : Nat]
          \cup [op : {"remove_friend", "set_uid"}, uid : Uid]
          \cup [op : {"update_edge_key"}, uid : Uid, key : Nat]
          \cup [op : {"create_channel"}, channel : Channel]
          \cup [op : {"join_channel", "leave_channel"}, channel : Channel,
                uid : Uid]

---------------------------------------------------------------------------
\* Mutant: trust levels are stored as they are.
Capped_Not(trust) == trust

Capped(trust) == IF trust > MaxTrust THEN MaxTrust ELSE trust

Uids(b) == {f.uid : f \in b.friends}

ChannelNames(b) == {c.name : c \in b.channels}

\* Replace what is stored under a key.
WithFriend(b, friend) ==
    [b EXCEPT !.friends = {f \in @ : f.uid # friend.uid} \cup {friend}]

\* Change the entries of one channel.
InChannel(b, name, Change(_)) ==
    [b EXCEPT !.channels = {IF c.name = name THEN Change(c) ELSE c : c \in @}]

\* Change the entry of one friend, if there is one.
UpdateFriend(b, uid, Change(_)) ==
    [b EXCEPT !.friends = {IF f.uid = uid THEN Change(f) ELSE f : f \in @}]

update_trust(b, uid, trust) ==
    UpdateFriend(b, uid, LAMBDA f : [f EXCEPT !.trust = Capped(trust)])

set_edge_key(b, uid, key) ==
    UpdateFriend(b, uid, LAMBDA f : [f EXCEPT !.edge_key = key])

create_channel_no_log(b, name) ==
    IF name \in ChannelNames(b) THEN b
    ELSE [b EXCEPT !.channels = @ \cup
             {[name |-> name, topic |-> NoTopic,
               participants |-> {b.my_uid}, group |-> {b.my_uid}]}]

\* Friends of at least min_trust may be added to a channel.
MayJoin(b, uid) ==
    /\ uid # b.my_uid
    /\ \E f \in b.friends : f.uid = uid /\ f.trust >= MinTrust

join_channel_no_log(b, name, uid) ==
    LET Join(c) == IF MayJoin(b, uid) /\ uid \notin c.participants
                   THEN [c EXCEPT !.participants = @ \cup {uid},
                                  !.group = @ \cup {uid}]
                   ELSE c
    IN  InChannel(b, name, Join)

\* Leaving takes a uid off the participants and out of the group.
Leave(b, name, uid) ==
    LET Without(c) == [c EXCEPT !.participants = @ \ {uid},
                                !.group = @ \ {uid}]
    IN  InChannel(b, name, Without)

\* What a logged operation does, live or replayed.  key is the edge key
\* generated if it makes a friend.
apply_op_no_log(b, o, key) ==
    CASE o.op = "add_friend" ->
             WithFriend(b, [uid |-> o.uid, trust |-> Capped(o.trust),
                            edge_key |-> key])
      [] o.op = "remove_friend" ->
             [b EXCEPT !.friends = {f \in @ : f.uid # o.uid}]
      [] o.op = "update_trust" -> update_trust(b, o.uid, o.trust)
      [] o.op = "update_edge_key" -> set_edge_key(b, o.uid, o.key)
      [] o.op = "create_channel" -> create_channel_no_log(b, o.channel)
      [] o.op = "join_channel" -> join_channel_no_log(b, o.channel, o.uid)
      [] o.op = "leave_channel" -> Leave(b, o.channel, o.uid)
      [] o.op = "set_uid" -> [b EXCEPT !.my_uid = o.uid]

---------------------------------------------------------------------------
(***************************************************************************)
(* The methods that log nothing.                                            *)
(***************************************************************************)
set_topic(b, name, topic) ==
    InChannel(b, name, LAMBDA c : [c EXCEPT !.topic = topic])

\* level[uid] is the trust level the friend's reputation maps to.
sync_reputation_to_trust(b, level) ==
    [b EXCEPT !.friends = {[f EXCEPT !.trust = level[f.uid]] : f \in @}]

---------------------------------------------------------------------------
(***************************************************************************)
(* Snapshots.  A SocialSnapshot is the bridge without the groups; restoring *)
(* one puts its owner into every group again.                               *)
(***************************************************************************)
snapshot_bridge(b) ==
    [uid |-> b.my_uid, friends |-> b.friends,
     channels |-> {[name |-> c.name, topic |-> c.topic,
                    participants |-> c.participants] : c \in b.channels}]

\* Mutant: the topics are not restored.
apply_snapshot_NoTopic(s) ==
    [my_uid |-> s.uid, friends |-> s.friends,
     channels |-> {[name |-> c.name, topic |-> NoTopic,
                    participants |-> c.participants,
                    group |-> {s.uid} \cup c.participants] :
                       c \in s.channels}]

apply_snapshot(s) ==
    [my_uid |-> s.uid, friends |-> s.friends,
     channels |-> {[name |-> c.name, topic |-> c.topic,
                    participants |-> c.participants,
                    group |-> {s.uid} \cup c.participants] :
                       c \in s.channels}]

Snapshot == [uid : Uid, friends : SUBSET Friend,
             channels : SUBSET [name : Channel, topic : Topic,
                                participants : SUBSET Uid]]
===========================================================================
