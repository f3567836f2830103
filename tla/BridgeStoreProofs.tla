------------------------- MODULE BridgeStoreProofs -------------------------
(***************************************************************************)
(* Proofs about SocialState and BridgeStore.                                *)
(***************************************************************************)
EXTENDS BridgeStore, FiniteSetTheorems, WellFoundedInduction, TLAPS

---------------------------------------------------------------------------
(***************************************************************************)
(* Operations on the social state: they keep to the types.                  *)
(***************************************************************************)
\* The operations and their fields.
LEMMA OpKinds ==
    ASSUME NEW o \in Op
    PROVE  \/ o.op = "add_friend" /\ o.uid \in Uid /\ o.trust \in Nat
           \/ o.op = "update_trust" /\ o.uid \in Uid /\ o.trust \in Nat
           \/ o.op = "remove_friend" /\ o.uid \in Uid
           \/ o.op = "set_uid" /\ o.uid \in Uid
           \/ o.op = "update_edge_key" /\ o.uid \in Uid /\ o.key \in Nat
           \/ o.op = "create_channel" /\ o.channel \in Channel
           \/ o.op = "join_channel" /\ o.channel \in Channel /\ o.uid \in Uid
           \/ o.op = "leave_channel" /\ o.channel \in Channel /\ o.uid \in Uid
BY Zenon DEF Op

\* Trust levels are capped (f2f.rs:87).
LEMMA CappedType ==
    ASSUME NEW trust \in Nat PROVE Capped(trust) \in 0 .. MaxTrust
BY DEF Capped, MaxTrust

\* Every operation takes a social state to one.
LEMMA AppliedType ==
    ASSUME NEW b \in Bridge, NEW o \in Op, NEW key \in Nat
    PROVE  apply_op_no_log(b, o, key) \in Bridge
<1>1. /\ b.friends \subseteq Friend /\ b.channels \subseteq ChannelInfo
      /\ b.my_uid \in Uid
  BY Zenon DEF Bridge
<1>2. ASSUME NEW F \in SUBSET Friend PROVE [b EXCEPT !.friends = F] \in Bridge
  BY <1>2, Zenon DEF Bridge
<1>3. ASSUME NEW C \in SUBSET ChannelInfo PROVE [b EXCEPT !.channels = C] \in Bridge
  BY <1>3, Zenon DEF Bridge
<1>4. CASE o.op = "add_friend" /\ o.uid \in Uid /\ o.trust \in Nat
  <2> DEFINE new == [uid |-> o.uid, trust |-> Capped(o.trust), edge_key |-> key]
  <2>1. new \in Friend
    BY <1>4, CappedType, Zenon DEF Friend
  <2> HIDE DEF new
  <2>2. {f \in b.friends : f.uid # new.uid} \cup {new} \in SUBSET Friend
    BY <1>1, <2>1, Zenon
  <2>3. WithFriend(b, new) \in Bridge
    BY <1>2, <2>2, Zenon DEF WithFriend, Bridge
  <2>4. apply_op_no_log(b, o, key) = WithFriend(b, new)
    BY <1>4, Zenon DEF apply_op_no_log, new
  <2> QED BY <2>3, <2>4, Zenon
<1>5. CASE o.op = "remove_friend"
  <2> DEFINE F == {f \in b.friends : f.uid # o.uid}
  <2>1. F \in SUBSET Friend
    BY <1>1, Zenon
  <2>2. apply_op_no_log(b, o, key) = [b EXCEPT !.friends = F]
    BY <1>5, Zenon DEF apply_op_no_log, Bridge
  <2> HIDE DEF F
  <2> QED BY <1>2, <2>1, <2>2, Zenon
<1>6. CASE o.op = "update_trust" /\ o.uid \in Uid /\ o.trust \in Nat
  <2> DEFINE F == {IF f.uid = o.uid THEN [f EXCEPT !.trust = Capped(o.trust)] ELSE f :
                      f \in b.friends}
  <2>1. F \in SUBSET Friend
    BY <1>1, <1>6, CappedType, Zenon DEF Friend
  <2>2. update_trust(b, o.uid, o.trust) = [b EXCEPT !.friends = F]
    BY Zenon DEF update_trust, UpdateFriend, Bridge
  <2> HIDE DEF F
  <2>4. apply_op_no_log(b, o, key) = update_trust(b, o.uid, o.trust)
    BY <1>6, Zenon DEF apply_op_no_log
  <2> QED BY <1>2, <2>1, <2>2, <2>4, Zenon
<1>7. CASE o.op = "update_edge_key" /\ o.uid \in Uid /\ o.key \in Nat
  <2> DEFINE F == {IF f.uid = o.uid THEN [f EXCEPT !.edge_key = o.key] ELSE f :
                      f \in b.friends}
  <2>1. F \in SUBSET Friend
    BY <1>1, <1>7, Zenon DEF Friend
  <2>2. set_edge_key(b, o.uid, o.key) = [b EXCEPT !.friends = F]
    BY Zenon DEF set_edge_key, UpdateFriend, Bridge
  <2> HIDE DEF F
  <2>4. apply_op_no_log(b, o, key) = set_edge_key(b, o.uid, o.key)
    BY <1>7, Zenon DEF apply_op_no_log
  <2> QED BY <1>2, <2>1, <2>2, <2>4, Zenon
<1>8. CASE o.op = "create_channel" /\ o.channel \in Channel
  <2> DEFINE new == [name |-> o.channel, topic |-> NoTopic,
                     participants |-> {b.my_uid}, group |-> {b.my_uid}]
  <2>1. new \in ChannelInfo
    BY <1>1, <1>8, TopicAssumption, Zenon DEF ChannelInfo
  <2>2. \/ create_channel_no_log(b, o.channel) = b
        \/ create_channel_no_log(b, o.channel) =
               [b EXCEPT !.channels = b.channels \cup {new}]
    BY Zenon DEF create_channel_no_log, Bridge
  <2> HIDE DEF new
  <2>3. b.channels \cup {new} \in SUBSET ChannelInfo
    BY <1>1, <2>1, Zenon
  <2>4. apply_op_no_log(b, o, key) = create_channel_no_log(b, o.channel)
    BY <1>8, Zenon DEF apply_op_no_log
  <2> QED BY <1>3, <2>2, <2>3, <2>4, Zenon
<1>9. CASE o.op = "join_channel" /\ o.uid \in Uid
  <2> DEFINE C == {IF c.name = o.channel
                   THEN IF MayJoin(b, o.uid) /\ o.uid \notin c.participants
                        THEN [c EXCEPT !.participants = @ \cup {o.uid},
                                       !.group = @ \cup {o.uid}]
                        ELSE c
                   ELSE c : c \in b.channels}
  <2>0. \A c \in ChannelInfo : [c EXCEPT !.participants = @ \cup {o.uid},
                                        !.group = @ \cup {o.uid}] \in ChannelInfo
    BY <1>9, Zenon DEF ChannelInfo
  <2>1. C \in SUBSET ChannelInfo
    BY <1>1, <2>0, Zenon
  <2>2. join_channel_no_log(b, o.channel, o.uid) = [b EXCEPT !.channels = C]
    BY Zenon DEF join_channel_no_log, InChannel, Bridge
  <2> HIDE DEF C
  <2>4. apply_op_no_log(b, o, key) = join_channel_no_log(b, o.channel, o.uid)
    BY <1>9, Zenon DEF apply_op_no_log
  <2> QED BY <1>3, <2>1, <2>2, <2>4, Zenon
<1>10. CASE o.op = "leave_channel" /\ o.uid \in Uid
  <2> DEFINE C == {IF c.name = o.channel
                   THEN [c EXCEPT !.participants = @ \ {o.uid},
                                  !.group = @ \ {o.uid}]
                   ELSE c : c \in b.channels}
  <2>1. C \in SUBSET ChannelInfo
    BY <1>1, <1>10 DEF ChannelInfo
  <2>2. Leave(b, o.channel, o.uid) = [b EXCEPT !.channels = C]
    BY Zenon DEF Leave, InChannel, Bridge
  <2> HIDE DEF C
  <2>4. apply_op_no_log(b, o, key) = Leave(b, o.channel, o.uid)
    BY <1>10, Zenon DEF apply_op_no_log
  <2> QED BY <1>3, <2>1, <2>2, <2>4, Zenon
<1>11. CASE o.op = "set_uid" /\ o.uid \in Uid
  <2>1. [b EXCEPT !.my_uid = o.uid] \in Bridge
    BY <1>11, Zenon DEF Bridge
  <2>2. apply_op_no_log(b, o, key) = [b EXCEPT !.my_uid = o.uid]
    BY <1>11, Zenon DEF apply_op_no_log
  <2> QED BY <2>1, <2>2, Zenon
<1> QED BY <1>4, <1>5, <1>6, <1>7, <1>8, <1>9, <1>10, <1>11, OpKinds, Zenon

---------------------------------------------------------------------------
(***************************************************************************)
(* What an operation shows depends on what showed before: neither the edge  *)
(* keys nor the groups have a say.                                          *)
(***************************************************************************)
\* Two sets of friends, or of channels, that show the same.
FriendsAlike(F, G) ==
    /\ \A f \in F : \E g \in G : g.uid = f.uid /\ g.trust = f.trust
    /\ \A g \in G : \E f \in F : g.uid = f.uid /\ g.trust = f.trust

SameChannel(c, d) ==
    c.name = d.name /\ c.topic = d.topic /\ c.participants = d.participants

ChannelsAlike(C, D) ==
    /\ \A c \in C : \E d \in D : SameChannel(c, d)
    /\ \A d \in D : \E c \in C : SameChannel(c, d)

Alike(b, c) == /\ b.my_uid = c.my_uid
               /\ FriendsAlike(b.friends, c.friends)
               /\ ChannelsAlike(b.channels, c.channels)

\* Being alike is having the same view.
LEMMA AlikeIsSameView ==
    ASSUME NEW b, NEW c
    PROVE  Alike(b, c) <=> View(b) = View(c)
<1> DEFINE FV(f) == [uid |-> f.uid, trust |-> f.trust]
           CV(d) == [name |-> d.name, topic |-> d.topic,
                     participants |-> d.participants]
           VF(F) == {FV(f) : f \in F}
           VC(C) == {CV(d) : d \in C}
<1>1. ASSUME NEW F, NEW G PROVE FriendsAlike(F, G) <=> VF(F) = VF(G)
  <2>1. \A f, g : FV(f) = FV(g) <=> f.uid = g.uid /\ f.trust = g.trust
    BY Zenon
  <2> HIDE DEF FV
  <2> QED BY <2>1 DEF FriendsAlike
<1>2. ASSUME NEW C, NEW D PROVE ChannelsAlike(C, D) <=> VC(C) = VC(D)
  <2>1. \A d, e : CV(d) = CV(e) <=> SameChannel(d, e)
    BY Zenon DEF SameChannel
  <2> HIDE DEF CV
  <2> QED BY <2>1 DEF ChannelsAlike
<1>3. /\ View(b) = [my_uid |-> b.my_uid, friends |-> VF(b.friends),
                    channels |-> VC(b.channels)]
      /\ View(c) = [my_uid |-> c.my_uid, friends |-> VF(c.friends),
                    channels |-> VC(c.channels)]
  BY Zenon DEF View
<1> HIDE DEF VF, VC
<1>4. View(b) = View(c) <=> /\ b.my_uid = c.my_uid
                            /\ VF(b.friends) = VF(c.friends)
                            /\ VC(b.channels) = VC(c.channels)
  BY <1>3
<1> QED BY <1>1, <1>2, <1>4, Zenon DEF Alike

\* The fields of a changed bridge.
LEMMA Fields ==
    ASSUME NEW b \in Bridge, NEW x
    PROVE  /\ [b EXCEPT !.friends = x].friends = x
           /\ [b EXCEPT !.friends = x].channels = b.channels
           /\ [b EXCEPT !.friends = x].my_uid = b.my_uid
           /\ [b EXCEPT !.channels = x].channels = x
           /\ [b EXCEPT !.channels = x].friends = b.friends
           /\ [b EXCEPT !.channels = x].my_uid = b.my_uid
           /\ [b EXCEPT !.my_uid = x].my_uid = x
           /\ [b EXCEPT !.my_uid = x].friends = b.friends
           /\ [b EXCEPT !.my_uid = x].channels = b.channels
BY Zenon DEF Bridge

\* Operations on the friends keep bridges alike.
LEMMA AlikeFriends ==
    ASSUME NEW b \in Bridge, NEW c \in Bridge, Alike(b, c), NEW o \in Op,
           NEW k \in Nat, NEW l \in Nat,
           o.op \in {"add_friend", "remove_friend", "update_trust", "update_edge_key"}
    PROVE  Alike(apply_op_no_log(b, o, k), apply_op_no_log(c, o, l))
<1>1. /\ b.friends \subseteq Friend /\ c.friends \subseteq Friend
      /\ b.my_uid = c.my_uid /\ FriendsAlike(b.friends, c.friends)
      /\ ChannelsAlike(b.channels, c.channels)
  BY Zenon DEF Bridge, Alike
<1>2. ASSUME NEW F, NEW G, FriendsAlike(F, G)
      PROVE  Alike([b EXCEPT !.friends = F], [c EXCEPT !.friends = G])
  BY <1>1, <1>2, Fields DEF Alike
<1>3. CASE o.op = "add_friend"
  <2> DEFINE new(j) == [uid |-> o.uid, trust |-> Capped(o.trust), edge_key |-> j]
             F == {f \in b.friends : f.uid # o.uid} \cup {new(k)}
             G == {f \in c.friends : f.uid # o.uid} \cup {new(l)}
  <2>1. /\ apply_op_no_log(b, o, k) = [b EXCEPT !.friends = F]
        /\ apply_op_no_log(c, o, l) = [c EXCEPT !.friends = G]
    BY <1>3, Zenon DEF apply_op_no_log, WithFriend, Bridge
  <2>2. \A j : new(j).uid = o.uid /\ new(j).trust = Capped(o.trust)
    BY Zenon
  <2> HIDE DEF new
  <2>3. FriendsAlike(F, G)
    BY <1>1, <2>2 DEF FriendsAlike
  <2> HIDE DEF F, G
  <2> QED BY <1>2, <2>1, <2>3
<1>4. CASE o.op = "remove_friend"
  <2> DEFINE F == {f \in b.friends : f.uid # o.uid}
             G == {f \in c.friends : f.uid # o.uid}
  <2>1. /\ apply_op_no_log(b, o, k) = [b EXCEPT !.friends = F]
        /\ apply_op_no_log(c, o, l) = [c EXCEPT !.friends = G]
    BY <1>4, Zenon DEF apply_op_no_log, Bridge
  <2>3. FriendsAlike(F, G)
    BY <1>1, Zenon DEF FriendsAlike
  <2> HIDE DEF F, G
  <2> QED BY <1>2, <2>1, <2>3
<1>5. CASE o.op = "update_trust"
  <2> DEFINE t == Capped(o.trust)
             new(f) == IF f.uid = o.uid THEN [f EXCEPT !.trust = t] ELSE f
             F == {new(f) : f \in b.friends}
             G == {new(f) : f \in c.friends}
  <2>1. /\ apply_op_no_log(b, o, k) = [b EXCEPT !.friends = F]
        /\ apply_op_no_log(c, o, l) = [c EXCEPT !.friends = G]
    BY <1>5, Zenon DEF apply_op_no_log, update_trust, UpdateFriend, Bridge
  <2>2. \A f \in Friend : /\ new(f).uid = f.uid
                          /\ new(f).trust = IF f.uid = o.uid THEN t ELSE f.trust
    BY Zenon DEF Friend
  <2> HIDE DEF new, t
  <2>3. FriendsAlike(F, G)
    BY <1>1, <2>2 DEF FriendsAlike
  <2> HIDE DEF F, G
  <2> QED BY <1>2, <2>1, <2>3
<1>6. CASE o.op = "update_edge_key"
  <2> DEFINE new(f) == IF f.uid = o.uid THEN [f EXCEPT !.edge_key = o.key] ELSE f
             F == {new(f) : f \in b.friends}
             G == {new(f) : f \in c.friends}
  <2>1. /\ apply_op_no_log(b, o, k) = [b EXCEPT !.friends = F]
        /\ apply_op_no_log(c, o, l) = [c EXCEPT !.friends = G]
    BY <1>6, Zenon DEF apply_op_no_log, set_edge_key, UpdateFriend, Bridge
  <2>2. \A f \in Friend : new(f).uid = f.uid /\ new(f).trust = f.trust
    BY Zenon DEF Friend
  <2> HIDE DEF new
  <2>3. FriendsAlike(F, G)
    BY <1>1, <2>2 DEF FriendsAlike
  <2> HIDE DEF F, G
  <2> QED BY <1>2, <2>1, <2>3
<1> QED BY <1>3, <1>4, <1>5, <1>6, Zenon

\* So do operations on the channels, and a new uid.
LEMMA AlikeChannels ==
    ASSUME NEW b \in Bridge, NEW c \in Bridge, Alike(b, c), NEW o \in Op,
           NEW k \in Nat, NEW l \in Nat,
           o.op \in {"create_channel", "join_channel", "leave_channel", "set_uid"}
    PROVE  Alike(apply_op_no_log(b, o, k), apply_op_no_log(c, o, l))
<1>1. /\ b.channels \subseteq ChannelInfo /\ c.channels \subseteq ChannelInfo
      /\ b.my_uid = c.my_uid /\ FriendsAlike(b.friends, c.friends)
      /\ ChannelsAlike(b.channels, c.channels)
  BY Zenon DEF Bridge, Alike
<1>2. ASSUME NEW C, NEW D, ChannelsAlike(C, D)
      PROVE  Alike([b EXCEPT !.channels = C], [c EXCEPT !.channels = D])
  BY <1>1, <1>2, Fields DEF Alike
<1>3. CASE o.op = "create_channel"
  <2> DEFINE new == [name |-> o.channel, topic |-> NoTopic,
                     participants |-> {b.my_uid}, group |-> {b.my_uid}]
             C == b.channels \cup {new}
             D == c.channels \cup {new}
  <2>1. ChannelNames(b) = ChannelNames(c)
    BY <1>1 DEF ChannelNames, ChannelsAlike, SameChannel
  <2>2. CASE o.channel \in ChannelNames(b)
    BY <1>3, <2>1, <2>2, Zenon DEF apply_op_no_log, create_channel_no_log
  <2>3. CASE o.channel \notin ChannelNames(b)
    <3>1. /\ apply_op_no_log(b, o, k) = [b EXCEPT !.channels = C]
          /\ apply_op_no_log(c, o, l) = [c EXCEPT !.channels = D]
      BY <1>1, <1>3, <2>1, <2>3, Zenon DEF apply_op_no_log, create_channel_no_log, Bridge
    <3> HIDE DEF new
    <3>2. ChannelsAlike(C, D)
      BY <1>1, Zenon DEF ChannelsAlike, SameChannel
    <3> HIDE DEF C, D
    <3> QED BY <1>2, <3>1, <3>2
  <2> QED BY <2>2, <2>3, Zenon
<1>4. CASE o.op = "join_channel"
  <2> DEFINE joined(d) == [d EXCEPT !.participants = @ \cup {o.uid},
                                    !.group = @ \cup {o.uid}]
             new(d, may) == IF d.name = o.channel
                            THEN IF may /\ o.uid \notin d.participants
                                 THEN joined(d) ELSE d
                            ELSE d
             C == {new(d, MayJoin(b, o.uid)) : d \in b.channels}
             D == {new(d, MayJoin(c, o.uid)) : d \in c.channels}
  <2>1. MayJoin(b, o.uid) = MayJoin(c, o.uid)
    BY <1>1 DEF MayJoin, FriendsAlike
  <2>2. /\ apply_op_no_log(b, o, k) = [b EXCEPT !.channels = C]
        /\ apply_op_no_log(c, o, l) = [c EXCEPT !.channels = D]
    BY <1>4, Zenon DEF apply_op_no_log, join_channel_no_log, InChannel, Bridge
  <2>3. \A d \in ChannelInfo :
            /\ joined(d).name = d.name /\ joined(d).topic = d.topic
            /\ joined(d).participants = d.participants \cup {o.uid}
    BY Zenon DEF ChannelInfo
  <2> HIDE DEF joined
  <2>4. \A d, e \in ChannelInfo : SameChannel(d, e) =>
            SameChannel(new(d, MayJoin(b, o.uid)), new(e, MayJoin(c, o.uid)))
    BY <2>1, <2>3, Zenon DEF SameChannel
  <2> HIDE DEF new
  <2>5. ChannelsAlike(C, D)
    BY <1>1, <2>4 DEF ChannelsAlike
  <2> HIDE DEF C, D
  <2> QED BY <1>2, <2>2, <2>5
<1>5. CASE o.op = "leave_channel"
  <2> DEFINE new(d) == IF d.name = o.channel
                       THEN [d EXCEPT !.participants = @ \ {o.uid},
                                      !.group = @ \ {o.uid}]
                       ELSE d
             C == {new(d) : d \in b.channels}
             D == {new(d) : d \in c.channels}
  <2>1. /\ apply_op_no_log(b, o, k) = [b EXCEPT !.channels = C]
        /\ apply_op_no_log(c, o, l) = [c EXCEPT !.channels = D]
    BY <1>5, Zenon DEF apply_op_no_log, Leave, InChannel, Bridge
  <2>2. \A d \in ChannelInfo :
            /\ new(d).name = d.name /\ new(d).topic = d.topic
            /\ new(d).participants = IF d.name = o.channel
                                     THEN d.participants \ {o.uid}
                                     ELSE d.participants
    BY Zenon DEF ChannelInfo
  <2> HIDE DEF new
  <2>3. \A d, e \in ChannelInfo : SameChannel(d, e) => SameChannel(new(d), new(e))
    BY <2>2, Zenon DEF SameChannel
  <2>4. ChannelsAlike(C, D)
    BY <1>1, <2>3 DEF ChannelsAlike
  <2> HIDE DEF C, D
  <2> QED BY <1>2, <2>1, <2>4
<1>6. CASE o.op = "set_uid"
  <2>1. /\ apply_op_no_log(b, o, k) = [b EXCEPT !.my_uid = o.uid]
        /\ apply_op_no_log(c, o, l) = [c EXCEPT !.my_uid = o.uid]
    BY <1>6, Zenon DEF apply_op_no_log
  <2> QED BY <1>1, <2>1, Fields DEF Alike
<1> QED BY <1>3, <1>4, <1>5, <1>6, Zenon

\* An operation on bridges with the same view leaves bridges with the same view.
LEMMA SameView ==
    ASSUME NEW b \in Bridge, NEW c \in Bridge, View(b) = View(c), NEW o \in Op,
           NEW k \in Nat, NEW l \in Nat
    PROVE  View(apply_op_no_log(b, o, k)) = View(apply_op_no_log(c, o, l))
<1>1. Alike(b, c)
  BY AlikeIsSameView, Zenon
<1>2. \/ o.op \in {"add_friend", "remove_friend", "update_trust", "update_edge_key"}
      \/ o.op \in {"create_channel", "join_channel", "leave_channel", "set_uid"}
  BY OpKinds, Zenon
<1>3. Alike(apply_op_no_log(b, o, k), apply_op_no_log(c, o, l))
  BY <1>1, <1>2, AlikeFriends, AlikeChannels, Zenon
<1> QED BY <1>3, AlikeIsSameView, Zenon

\* A view, taken for a bridge, has that view.
LEMMA ViewAsBridge ==
    ASSUME NEW b \in Bridge
    PROVE  AsBridge(View(b)) \in Bridge /\ View(AsBridge(View(b))) = View(b)
<1> DEFINE v == View(b)
           a == AsBridge(v)
<1>1. /\ b.friends \subseteq Friend /\ b.channels \subseteq ChannelInfo
      /\ b.my_uid \in Uid
  BY Zenon DEF Bridge
<1>2. /\ v.my_uid = b.my_uid
      /\ v.friends = {[uid |-> f.uid, trust |-> f.trust] : f \in b.friends}
      /\ v.channels = {[name |-> c.name, topic |-> c.topic,
                        participants |-> c.participants] : c \in b.channels}
  BY Zenon DEF View
<1> HIDE DEF v
<1>3. /\ a.my_uid = v.my_uid
      /\ a.friends = {[uid |-> f.uid, trust |-> f.trust, edge_key |-> 0] :
                         f \in v.friends}
      /\ a.channels = {[name |-> c.name, topic |-> c.topic,
                        participants |-> c.participants, group |-> {}] :
                          c \in v.channels}
  BY Zenon DEF AsBridge
<1>4. a.friends \subseteq Friend
  BY <1>1, <1>2, <1>3 DEF Friend
<1>5. a.channels \subseteq ChannelInfo
  BY <1>1, <1>2, <1>3 DEF ChannelInfo
<1>6. a \in Bridge
  <2>1. a = [my_uid |-> a.my_uid, friends |-> a.friends, channels |-> a.channels]
    BY Zenon DEF AsBridge
  <2> HIDE DEF a
  <2> QED BY <1>1, <1>2, <1>3, <1>4, <1>5, <2>1, Zenon DEF Bridge
<1> HIDE DEF a
<1>7. FriendsAlike(a.friends, b.friends)
  <2> DEFINE x(f) == [uid |-> f.uid, trust |-> f.trust]
             y(f) == [uid |-> f.uid, trust |-> f.trust, edge_key |-> 0]
  <2>1. \A f : y(x(f)).uid = f.uid /\ y(x(f)).trust = f.trust
    BY Zenon
  <2>2. a.friends = {y(g) : g \in v.friends} /\ v.friends = {x(f) : f \in b.friends}
    BY <1>2, <1>3, Zenon
  <2> HIDE DEF x, y
  <2>3. a.friends = {y(x(f)) : f \in b.friends}
    BY <2>2, Zenon
  <2> QED BY <2>1, <2>3, Zenon DEF FriendsAlike
<1>8. ChannelsAlike(a.channels, b.channels)
  <2> DEFINE x(c) == [name |-> c.name, topic |-> c.topic,
                      participants |-> c.participants]
             y(c) == [name |-> c.name, topic |-> c.topic,
                      participants |-> c.participants, group |-> {}]
  <2>1. \A c : SameChannel(y(x(c)), c)
    BY Zenon DEF SameChannel
  <2>2. /\ a.channels = {y(d) : d \in v.channels}
        /\ v.channels = {x(c) : c \in b.channels}
    BY <1>2, <1>3, Zenon
  <2> HIDE DEF x, y
  <2>3. a.channels = {y(x(c)) : c \in b.channels}
    BY <2>2, Zenon
  <2> QED BY <2>1, <2>3, Zenon DEF ChannelsAlike
<1>9. View(a) = View(b)
  <2>1. Alike(a, b)
    BY <1>2, <1>3, <1>7, <1>8, Zenon DEF Alike
  <2> QED BY <2>1, AlikeIsSameView, Zenon
<1> QED BY <1>6, <1>9, Zenon DEF a, v

\* Restoring a snapshot brings back what showed, with its owner in every group
\* (f2f.rs:722).
LEMMA SnapshotKeepsView ==
    ASSUME NEW b \in Bridge
    PROVE  /\ snapshot_bridge(b) \in Snapshot
           /\ View(apply_snapshot(snapshot_bridge(b))) = View(b)
<1> DEFINE s == snapshot_bridge(b)
           a == apply_snapshot(s)
           x(c) == [name |-> c.name, topic |-> c.topic,
                    participants |-> c.participants]
           y(c) == [name |-> c.name, topic |-> c.topic,
                    participants |-> c.participants,
                    group |-> {b.my_uid} \cup c.participants]
<1>1. /\ s = [uid |-> b.my_uid, friends |-> b.friends,
              channels |-> {x(c) : c \in b.channels}]
      /\ b.friends \subseteq Friend /\ b.channels \subseteq ChannelInfo
      /\ b.my_uid \in Uid
  BY Zenon DEF snapshot_bridge, Bridge
<1>2. {x(c) : c \in b.channels} \subseteq
          [name : Channel, topic : Topic, participants : SUBSET Uid]
  BY <1>1 DEF ChannelInfo
<1>3. s \in Snapshot
  <2> HIDE DEF x
  <2> QED BY <1>1, <1>2 DEF Snapshot
<1>4. s.uid = b.my_uid /\ s.friends = b.friends /\ s.channels = {x(c) : c \in b.channels}
  BY <1>1
<1> HIDE DEF s
<1>5. a.my_uid = b.my_uid /\ a.friends = b.friends
          /\ a.channels = {y(d) : d \in s.channels}
  BY <1>4, Zenon DEF apply_snapshot
<1>6. \A c : SameChannel(y(x(c)), c)
  BY Zenon DEF SameChannel
<1> HIDE DEF a, x, y
<1>7. a.channels = {y(x(c)) : c \in b.channels}
  BY <1>4, <1>5, Zenon
<1>8. ChannelsAlike(a.channels, b.channels)
  BY <1>6, <1>7, Zenon DEF ChannelsAlike
<1>9. Alike(a, b)
  BY <1>5, <1>8, Zenon DEF Alike, FriendsAlike
<1> QED BY <1>3, <1>9, AlikeIsSameView, Zenon DEF a, s

\* What a snapshot restores is a social state.
LEMMA RestoredType ==
    ASSUME NEW s \in Snapshot
    PROVE  apply_snapshot(s) \in Bridge
<1> DEFINE C == {[name |-> c.name, topic |-> c.topic,
                  participants |-> c.participants,
                  group |-> {s.uid} \cup c.participants] : c \in s.channels}
<1>1. C \subseteq ChannelInfo
  BY DEF Snapshot, ChannelInfo
<1>2. apply_snapshot(s) = [my_uid |-> s.uid, friends |-> s.friends, channels |-> C]
  BY Zenon DEF apply_snapshot
<1> HIDE DEF C
<1> QED BY <1>1, <1>2 DEF Snapshot, Bridge

---------------------------------------------------------------------------
(***************************************************************************)
(* Replaying a log, operation by operation.                                 *)
(***************************************************************************)
\* A set of numbers with 0 in it, and with each of its members the next one.
LEMMA NatIn ==
    ASSUME NEW S, 0 \in S, \A i \in Nat : i \in S => i + 1 \in S
    PROVE  \A i \in Nat : i \in S
<1> DEFINE T == Nat \ S
<1>1. SUFFICES ASSUME T # {} PROVE FALSE
  BY Zenon
<1>2. PICK x \in T : \A y \in T : ~(<<y, x>> \in OpToRel(<, Nat))
  <2>1. T \subseteq Nat
    BY Zenon
  <2> HIDE DEF T
  <2> QED BY <1>1, <2>1, NatLessThanWellFounded, WFMin, Zenon
<1>3. x \in Nat /\ x # 0
  BY Zenon
<1>4. x - 1 \in Nat /\ x - 1 < x /\ (x - 1) + 1 = x
  BY <1>3
<1>5. <<x - 1, x>> \in OpToRel(<, Nat)
  BY <1>3, <1>4, Zenon DEF OpToRel
<1>6. x - 1 \in S
  BY <1>2, <1>4, <1>5, Zenon
<1> QED BY <1>4, <1>6, Zenon

\* f lists the states while the first n operations are applied.
Run(b, ops, k, n, f) ==
    f = [i \in 0 .. n |-> IF i = 0 THEN b
                          ELSE apply_op_no_log(f[i - 1], ops[i], k + i)]

\* There is such a list.
LEMMA RunExists ==
    ASSUME NEW b, NEW ops, NEW k
    PROVE  \A n \in Nat : \E f : Run(b, ops, k, n, f)
<1> DEFINE S == {n \in Nat : \E f : Run(b, ops, k, n, f)}
<1>1. 0 \in S
  <2> DEFINE f == [i \in 0 .. 0 |-> b]
  <2>1. Run(b, ops, k, 0, f)
    BY DEF Run
  <2> QED BY <2>1, Zenon
<1>2. ASSUME NEW n \in Nat, n \in S PROVE n + 1 \in S
  <2>1. PICK g : Run(b, ops, k, n, g)
    BY <1>2, Zenon
  <2> DEFINE f == [i \in 0 .. n + 1 |-> IF i = n + 1
                      THEN apply_op_no_log(g[n], ops[n + 1], k + (n + 1)) ELSE g[i]]
  <2>2. /\ DOMAIN g = 0 .. n
        /\ \A i \in 0 .. n : g[i] = IF i = 0 THEN b
                                    ELSE apply_op_no_log(g[i - 1], ops[i], k + i)
    BY <2>1, Zenon DEF Run
  <2>3. \A i \in 0 .. n + 1 : f[i] = IF i = 0 THEN b
                                ELSE apply_op_no_log(f[i - 1], ops[i], k + i)
    <3> TAKE i \in 0 .. n + 1
    <3>1. CASE i = n + 1
      <4>1. f[i] = apply_op_no_log(g[n], ops[n + 1], k + (n + 1))
        BY <3>1, Zenon
      <4>2. i - 1 = n /\ i # 0 /\ n \in 0 .. n + 1 /\ n # n + 1
        BY <3>1
      <4>3. f[i - 1] = g[n]
        BY <4>2, Zenon
      <4> QED BY <3>1, <4>1, <4>2, <4>3, Zenon
    <3>2. CASE i \in 0 .. n /\ i # 0
      <4>1. f[i] = g[i] /\ i - 1 \in 0 .. n /\ i - 1 # n + 1 /\ i # n + 1
        BY <3>2
      <4>2. f[i - 1] = g[i - 1]
        BY <4>1
      <4> QED BY <2>2, <3>2, <4>1, <4>2, Zenon
    <3>3. CASE i = 0
      BY <2>2, <3>3
    <3> QED BY <3>1, <3>2, <3>3
  <2>4. Run(b, ops, k, n + 1, f)
    <3>1. f = [i \in 0 .. n + 1 |-> f[i]]
      BY Zenon
    <3> HIDE DEF f
    <3> QED BY <2>3, <3>1, Zenon DEF Run
  <2> QED BY <2>4
<1> HIDE DEF S
<1>3. \A n \in Nat : n \in S
  BY <1>1, <1>2, NatIn, Zenon
<1> QED BY <1>3, Zenon DEF S

RunOf(b, ops, k) == CHOOSE f : Run(b, ops, k, Len(ops), f)

\* ApplyAll is the last state of a run.
LEMMA ApplyAllIsRun ==
    ASSUME NEW b, NEW ops \in Seq(Op), NEW k
    PROVE  /\ ApplyAll(b, ops, k) = RunOf(b, ops, k)[Len(ops)]
           /\ Run(b, ops, k, Len(ops), RunOf(b, ops, k))
<1>1. Len(ops) \in Nat
  OBVIOUS
<1>2. \E f : Run(b, ops, k, Len(ops), f)
  BY <1>1, RunExists, Zenon
<1>3. Run(b, ops, k, Len(ops), RunOf(b, ops, k))
  BY <1>2, Zenon DEF RunOf
<1>4. ApplyAll(b, ops, k) = RunOf(b, ops, k)[Len(ops)]
  BY Zenon DEF ApplyAll, RunOf, Run
<1> QED BY <1>3, <1>4, Zenon

\* The equations of a run.
Steps(b, ops, k, n, f) ==
    /\ f[0] = b
    /\ \A i \in 0 .. n - 1 :
           f[i + 1] = apply_op_no_log(f[i], ops[i + 1], k + (i + 1))

\* The run that ApplyAll computes satisfies them.
LEMMA RunSteps ==
    ASSUME NEW b, NEW ops \in Seq(Op), NEW k
    PROVE  Steps(b, ops, k, Len(ops), RunOf(b, ops, k))
<1> DEFINE n == Len(ops)
           f == RunOf(b, ops, k)
<1>0. n \in Nat /\ Run(b, ops, k, n, f)
  BY ApplyAllIsRun
<1> HIDE DEF n, f
<1>1. \A i \in 0 .. n : f[i] = IF i = 0 THEN b
                               ELSE apply_op_no_log(f[i - 1], ops[i], k + i)
  BY <1>0, Zenon DEF Run
<1>2. f[0] = b
  BY <1>0, <1>1
<1>3. ASSUME NEW i \in 0 .. n - 1
      PROVE  f[i + 1] = apply_op_no_log(f[i], ops[i + 1], k + (i + 1))
  <2>1. i + 1 \in 0 .. n /\ i + 1 # 0 /\ (i + 1) - 1 = i
    BY <1>0
  <2> QED BY <1>1, <2>1, Zenon
<1>4. Steps(b, ops, k, n, f)
  BY <1>2, <1>3, Zenon DEF Steps
<1> QED BY <1>4, Zenon DEF n, f

\* No operations change nothing.
LEMMA ApplyNone ==
    ASSUME NEW b, NEW k
    PROVE  ApplyAll(b, <<>>, k) = b
<1>1. <<>> \in Seq(Op) /\ Len(<<>>) = 0
  OBVIOUS
<1>2. Steps(b, <<>>, k, Len(<<>>), RunOf(b, <<>>, k))
  BY <1>1, RunSteps, Zenon
<1>3. RunOf(b, <<>>, k)[0] = b
  BY <1>2, Zenon DEF Steps
<1> QED BY <1>1, <1>3, ApplyAllIsRun, Zenon

\* One more operation is applied last.
LEMMA ApplyAppend ==
    ASSUME NEW b, NEW ops \in Seq(Op), NEW o \in Op, NEW k
    PROVE  ApplyAll(b, Append(ops, o), k) =
               apply_op_no_log(ApplyAll(b, ops, k), o, k + (Len(ops) + 1))
<1> DEFINE n == Len(ops)
           more == Append(ops, o)
           f == RunOf(b, ops, k)
           g == RunOf(b, more, k)
           S == {i \in Nat : i <= n => f[i] = g[i]}
<1>1. /\ n \in Nat /\ more \in Seq(Op) /\ Len(more) = n + 1
      /\ more[n + 1] = o /\ \A i \in 1 .. n : more[i] = ops[i]
  OBVIOUS
<1>2. Steps(b, ops, k, n, f) /\ Steps(b, more, k, n + 1, g)
  <2>1. Steps(b, ops, k, n, f)
    BY RunSteps, Zenon
  <2>2. Steps(b, more, k, Len(more), g)
    <3> HIDE DEF more
    <3> QED BY <1>1, RunSteps, Zenon
  <2> QED BY <1>1, <2>1, <2>2, Zenon
<1> HIDE DEF n, more, f, g
<1>3. /\ f[0] = b
      /\ \A i \in 0 .. n - 1 :
             f[i + 1] = apply_op_no_log(f[i], ops[i + 1], k + (i + 1))
  BY <1>1, <1>2, Zenon DEF Steps
<1>4. /\ g[0] = b
      /\ \A i \in 0 .. n :
             g[i + 1] = apply_op_no_log(g[i], more[i + 1], k + (i + 1))
  <2>1. n + 1 \in Nat /\ (n + 1) - 1 = n
    BY <1>1
  <2> QED BY <1>2, <2>1, Zenon DEF Steps
<1>5. 0 \in S
  BY <1>3, <1>4, Zenon
<1>6. ASSUME NEW i \in Nat, i \in S PROVE i + 1 \in S
  <2> SUFFICES ASSUME i + 1 <= n PROVE f[i + 1] = g[i + 1]
    BY <1>1
  <2>1. i \in 0 .. n - 1 /\ i \in 0 .. n /\ i <= n /\ i + 1 \in 1 .. n
    BY <1>1
  <2>2. f[i] = g[i] /\ more[i + 1] = ops[i + 1]
    BY <1>1, <1>6, <2>1, Zenon
  <2> QED BY <1>3, <1>4, <2>1, <2>2, Zenon
<1>7. n \in S
  <2> HIDE DEF S
  <2> QED BY <1>1, <1>5, <1>6, NatIn, Zenon
<1>8. f[n] = g[n]
  BY <1>1, <1>7
<1>9. g[n + 1] = apply_op_no_log(f[n], o, k + (n + 1))
  BY <1>1, <1>4, <1>8
<1>10. ApplyAll(b, ops, k) = f[n] /\ ApplyAll(b, more, k) = g[n + 1]
  BY <1>1, ApplyAllIsRun, Zenon DEF f, g, n
<1> QED BY <1>9, <1>10, Zenon DEF n, more

\* Replaying keeps to the types.
LEMMA ApplyAllType ==
    ASSUME NEW b \in Bridge, NEW ops \in Seq(Op), NEW k \in Nat
    PROVE  ApplyAll(b, ops, k) \in Bridge
<1> DEFINE n == Len(ops)
           f == RunOf(b, ops, k)
           S == {i \in Nat : i <= n => f[i] \in Bridge}
<1>1. n \in Nat /\ \A i \in 1 .. n : ops[i] \in Op
  OBVIOUS
<1>2. Steps(b, ops, k, n, f) /\ ApplyAll(b, ops, k) = f[n]
  BY ApplyAllIsRun, RunSteps, Zenon
<1> HIDE DEF n, f
<1>3. /\ f[0] = b
      /\ \A i \in 0 .. n - 1 :
             f[i + 1] = apply_op_no_log(f[i], ops[i + 1], k + (i + 1))
  BY <1>1, <1>2, Zenon DEF Steps
<1>4. 0 \in S
  BY <1>3, Zenon
<1>5. ASSUME NEW i \in Nat, i \in S PROVE i + 1 \in S
  <2> SUFFICES ASSUME i + 1 <= n PROVE f[i + 1] \in Bridge
    BY <1>1
  <2>1. i \in 0 .. n - 1 /\ i <= n /\ i + 1 \in 1 .. n /\ k + (i + 1) \in Nat
    BY <1>1
  <2>2. f[i] \in Bridge /\ ops[i + 1] \in Op
    BY <1>1, <1>5, <2>1, Zenon
  <2> QED BY <1>3, <2>1, <2>2, AppliedType, Zenon
<1>6. n \in S
  <2> HIDE DEF S
  <2> QED BY <1>1, <1>4, <1>5, NatIn, Zenon
<1> QED BY <1>1, <1>2, <1>6

\* What shows after a replay depends on what showed before it and on nothing
\* else: the keys that are drawn make no difference.
LEMMA ApplyAllSameView ==
    ASSUME NEW b \in Bridge, NEW c \in Bridge, NEW ops \in Seq(Op),
           NEW k \in Nat, NEW l \in Nat, View(b) = View(c)
    PROVE  View(ApplyAll(b, ops, k)) = View(ApplyAll(c, ops, l))
<1> DEFINE n == Len(ops)
           f == RunOf(b, ops, k)
           g == RunOf(c, ops, l)
           S == {i \in Nat : i <= n =>
                    f[i] \in Bridge /\ g[i] \in Bridge /\ View(f[i]) = View(g[i])}
<1>1. n \in Nat /\ \A i \in 1 .. n : ops[i] \in Op
  OBVIOUS
<1>2. /\ Steps(b, ops, k, n, f) /\ ApplyAll(b, ops, k) = f[n]
      /\ Steps(c, ops, l, n, g) /\ ApplyAll(c, ops, l) = g[n]
  BY ApplyAllIsRun, RunSteps, Zenon
<1> HIDE DEF n, f, g
<1>3. /\ f[0] = b
      /\ \A i \in 0 .. n - 1 :
             f[i + 1] = apply_op_no_log(f[i], ops[i + 1], k + (i + 1))
  BY <1>1, <1>2, Zenon DEF Steps
<1>4. /\ g[0] = c
      /\ \A i \in 0 .. n - 1 :
             g[i + 1] = apply_op_no_log(g[i], ops[i + 1], l + (i + 1))
  BY <1>1, <1>2, Zenon DEF Steps
<1>5. 0 \in S
  BY <1>3, <1>4, Zenon
<1>6. ASSUME NEW i \in Nat, i \in S PROVE i + 1 \in S
  <2> SUFFICES ASSUME i + 1 <= n
               PROVE  f[i + 1] \in Bridge /\ g[i + 1] \in Bridge
                          /\ View(f[i + 1]) = View(g[i + 1])
    BY <1>1
  <2>1. /\ i \in 0 .. n - 1 /\ i <= n /\ i + 1 \in 1 .. n
        /\ k + (i + 1) \in Nat /\ l + (i + 1) \in Nat
    BY <1>1
  <2>2. /\ f[i] \in Bridge /\ g[i] \in Bridge /\ View(f[i]) = View(g[i])
        /\ ops[i + 1] \in Op
    BY <1>1, <1>6, <2>1, Zenon
  <2>3. /\ f[i + 1] = apply_op_no_log(f[i], ops[i + 1], k + (i + 1))
        /\ g[i + 1] = apply_op_no_log(g[i], ops[i + 1], l + (i + 1))
    BY <1>3, <1>4, <2>1, Zenon
  <2>4. f[i + 1] \in Bridge /\ g[i + 1] \in Bridge
    BY <2>1, <2>2, <2>3, AppliedType, Zenon
  <2>5. View(f[i + 1]) = View(g[i + 1])
    BY <2>1, <2>2, <2>3, SameView
  <2> QED BY <2>4, <2>5, Zenon
<1>7. n \in S
  <2> HIDE DEF S
  <2> QED BY <1>1, <1>5, <1>6, NatIn, Zenon
<1> QED BY <1>1, <1>2, <1>7

---------------------------------------------------------------------------
(***************************************************************************)
(* The data directory: what a restart rebuilds.                             *)
(***************************************************************************)
Base(file) == IF file = {} THEN NewBridge(Me)
              ELSE apply_snapshot(CHOOSE s \in file : TRUE)

\* What shows after a restart from a snapshot file and a log.
Shown(file, log) == View(ApplyAll(Base(file), log, 0))

SnapFile(file) == file = {} \/ \E s \in Snapshot : file = {s}

\* A fresh client has a state of the right type (f2f.rs:122).
LEMMA NewBridgeType == NewBridge(Me) \in Bridge
BY MeAssumption, Zenon DEF NewBridge, Bridge

\* What is restored from a snapshot file is a bridge.
LEMMA BaseType ==
    ASSUME NEW file, SnapFile(file)
    PROVE  Base(file) \in Bridge
<1>1. CASE file = {}
  BY <1>1, NewBridgeType, Zenon DEF Base
<1>2. CASE \E s \in Snapshot : file = {s}
  <2>1. PICK s \in Snapshot : file = {s}
    BY <1>2, Zenon
  <2>2. (CHOOSE x \in file : TRUE) = s /\ file # {}
    BY <2>1, Zenon
  <2> QED BY <2>1, <2>2, RestoredType, Zenon DEF Base
<1> QED BY <1>1, <1>2, Zenon DEF SnapFile

\* The keys a restart draws do not show.
LEMMA ShownWhateverKeys ==
    ASSUME NEW file, SnapFile(file), NEW log \in Seq(Op), NEW k \in Nat
    PROVE  /\ ApplyAll(Base(file), log, k) \in Bridge
           /\ View(ApplyAll(Base(file), log, k)) = Shown(file, log)
<1>1. Base(file) \in Bridge
  BY BaseType, Zenon
<1> QED BY <1>1, ApplyAllType, ApplyAllSameView DEF Shown

\* After a checkpoint a restart shows the memory it was taken from.
LEMMA ShownAfterCheckpoint ==
    ASSUME NEW b \in Bridge
    PROVE  Shown({snapshot_bridge(b)}, <<>>) = View(b)
<1> DEFINE s == snapshot_bridge(b)
<1> HIDE DEF s
<1>1. Base({s}) = apply_snapshot(s)
  <2>1. (CHOOSE x \in {s} : TRUE) = s /\ {s} # {}
    BY Zenon
  <2> QED BY <2>1, Zenon DEF Base
<1>2. Shown({s}, <<>>) = View(apply_snapshot(s))
  BY <1>1, ApplyNone, Zenon DEF Shown
<1> QED BY <1>2, SnapshotKeepsView, Zenon DEF s

\* One more line of the log shows as one more operation.
LEMMA ShownAfterLine ==
    ASSUME NEW file, SnapFile(file), NEW log \in Seq(Op), NEW o \in Op,
           NEW b \in Bridge, Shown(file, log) = View(b), NEW k \in Nat
    PROVE  Shown(file, Append(log, o)) = View(apply_op_no_log(b, o, k))
<1> DEFINE r == ApplyAll(Base(file), log, 0)
<1>1. r \in Bridge /\ View(r) = View(b)
  BY ShownWhateverKeys, Zenon DEF Shown
<1>2. ApplyAll(Base(file), Append(log, o), 0) =
          apply_op_no_log(r, o, 0 + (Len(log) + 1))
  BY ApplyAppend, Zenon
<1>3. 0 + (Len(log) + 1) \in Nat
  OBVIOUS
<1> HIDE DEF r
<1>4. View(apply_op_no_log(r, o, 0 + (Len(log) + 1))) = View(apply_op_no_log(b, o, k))
  BY <1>1, <1>3, SameView
<1> QED BY <1>2, <1>4, Zenon DEF Shown

---------------------------------------------------------------------------
(***************************************************************************)
(* Types, with all the faults.                                              *)
(***************************************************************************)
\* A call is one of the user's or none; while an operation is to be logged
\* there is one left; between calls there is no call.
CallOk(phase, ops, n) ==
    /\ ops \in Calls \cup {<<>>}
    /\ n \in 0 .. Len(ops)
    /\ phase = "log" => n < Len(ops)
    /\ phase = "check" => ops # <<>>
    /\ phase \in {"idle", "close", "down"} => ops = <<>>

\* The inductive form of TypeOK.  While state.json has been replaced and the log
\* not emptied yet, state.json is the snapshot of the memory.
StoreInv ==
    /\ pc \in Phases
    /\ bridge \in Bridge
    /\ CallOk(pc, call, logged)
    /\ ops_since_checkpoint \in Nat /\ elapsed \in BOOLEAN
    /\ wal \in Seq(Op) /\ tail \in Tails
    /\ SnapFile(snap)
    /\ keys \in Nat /\ calls \in Nat /\ crashes \in Nat
    /\ pc = "renamed" => snap = {snapshot_bridge(bridge)}

\* A call is a sequence of operations.
LEMMA CallsAreOps ==
    ASSUME NEW ops \in Calls \cup {<<>>}
    PROVE  ops \in Seq(Op) /\ Len(ops) \in Nat
<1>1. CASE ops \in Calls
  <2>1. ops \in Seq(Op)
    BY <1>1, CallsAssumption, Zenon
  <2> QED BY <2>1
<1>2. CASE ops = <<>>
  BY <1>2
<1> QED BY <1>1, <1>2, Zenon

\* What Proceed leaves behind.
LEMMA ProceedType ==
    ASSUME StoreInv, Proceed
    PROVE  /\ pc' \in Phases /\ pc' # "renamed"
           /\ bridge' \in Bridge
           /\ CallOk(pc', call', logged')
           /\ keys' \in Nat
<1>1. /\ bridge \in Bridge /\ keys \in Nat /\ CallOk(pc, call, logged)
      /\ call \in Seq(Op) /\ Len(call) \in Nat /\ logged \in 0 .. Len(call)
  BY CallsAreOps, Zenon DEF StoreInv, CallOk
<1>2. CASE call = <<>>
  <2>1. /\ pc' = "down" /\ bridge' = NewBridge(Me) /\ call' = call
        /\ logged' = logged /\ keys' = keys
    BY <1>2, Zenon DEF Proceed
  <2> QED BY <1>1, <1>2, <2>1, NewBridgeType, Zenon DEF CallOk, Phases
<1>3. CASE call # <<>> /\ logged < Len(call)
  <2>1. /\ pc' = "log" /\ bridge' = bridge /\ call' = call
        /\ logged' = logged /\ keys' = keys
    BY <1>3, Zenon DEF Proceed
  <2> QED BY <1>1, <1>3, <2>1, Zenon DEF CallOk, Phases
<1>4. CASE call # <<>> /\ ~(logged < Len(call))
  <2>1. /\ pc' = "idle" /\ bridge' = ApplyAll(bridge, call, keys) /\ call' = <<>>
        /\ logged' = 0 /\ keys' = keys + Len(call)
    BY <1>4, Zenon DEF Proceed
  <2>2. bridge' \in Bridge
    BY <1>1, <2>1, ApplyAllType, Zenon
  <2>3. CallOk(pc', call', logged')
    BY <2>1 DEF CallOk
  <2> QED BY <1>1, <2>1, <2>2, <2>3 DEF Phases
<1> QED BY <1>2, <1>3, <1>4, Zenon

\* Whatever part of a line reaches the file, what parses in it is a sequence of
\* operations.
LEMMA WriteType ==
    ASSUME wal \in Seq(Op), tail \in Tails, NEW o \in Op, NEW upto \in Tails,
           Write(o, upto)
    PROVE  wal' \in Seq(Op) /\ tail' \in Tails
<1>1. Append(wal, o) \in Seq(Op) /\ SubSeq(wal, 1, Len(wal) - 1) \in Seq(Op)
  OBVIOUS
<1>2. wal' \in {wal, Append(wal, o), SubSeq(wal, 1, Len(wal) - 1)}
  BY Zenon DEF Write
<1>3. tail' \in {"part", upto}
  BY Zenon DEF Write
<1> QED BY <1>1, <1>2, <1>3, Zenon DEF Tails

\* A change that is not logged leaves a bridge.
LEMMA SilentType ==
    ASSUME StoreInv, Silent
    PROVE  bridge' \in Bridge
<1>1. /\ bridge \in Bridge /\ bridge.friends \subseteq Friend
      /\ bridge.channels \subseteq ChannelInfo
  BY Zenon DEF StoreInv, Bridge
<1>2. ASSUME NEW name \in ChannelNames(bridge), NEW topic \in Topic,
             bridge' = set_topic(bridge, name, topic)
      PROVE  bridge' \in Bridge
  <2> DEFINE C == {IF c.name = name THEN [c EXCEPT !.topic = topic] ELSE c :
                      c \in bridge.channels}
  <2>1. C \subseteq ChannelInfo
    BY <1>1, Zenon DEF ChannelInfo
  <2>2. set_topic(bridge, name, topic) = [bridge EXCEPT !.channels = C]
    BY Zenon DEF set_topic, InChannel, Bridge
  <2> HIDE DEF C
  <2> QED BY <1>1, <1>2, <2>1, <2>2, Zenon DEF Bridge
<1>3. ASSUME NEW level \in [Uids(bridge) -> 0 .. MaxTrust],
             bridge' = sync_reputation_to_trust(bridge, level)
      PROVE  bridge' \in Bridge
  <2> DEFINE F == {[f EXCEPT !.trust = level[f.uid]] : f \in bridge.friends}
  <2>1. F \subseteq Friend
    BY <1>1, Zenon DEF Friend, Uids
  <2>2. sync_reputation_to_trust(bridge, level) = [bridge EXCEPT !.friends = F]
    BY <1>1, Zenon DEF sync_reputation_to_trust, Bridge
  <2> HIDE DEF F
  <2> QED BY <1>1, <1>3, <2>1, <2>2, Zenon DEF Bridge
<1> QED BY <1>2, <1>3, Zenon DEF Silent

\* The invariant StoreInv holds initially.
LEMMA StoreInvInit == Init => StoreInv
<1> SUFFICES ASSUME Init PROVE StoreInv
  BY Zenon
<1>1. CallOk(pc, call, logged)
  BY DEF Init, CallOk
<1>2. bridge \in Bridge
  BY NewBridgeType, Zenon DEF Init
<1>3. /\ wal \in Seq(Op) /\ SnapFile(snap) /\ pc \in Phases
      /\ tail \in Tails
  BY DEF Init, SnapFile, Phases, Tails
<1> QED BY <1>1, <1>2, <1>3, Zenon DEF Init, StoreInv

\* Every step preserves it, whatever fails.
LEMMA StoreInvStep == StoreInv /\ [Next]_vars => StoreInv'
<1> SUFFICES ASSUME StoreInv, [Next]_vars PROVE StoreInv'
  BY Zenon
<1>0. /\ pc \in Phases /\ bridge \in Bridge /\ CallOk(pc, call, logged)
      /\ call \in Seq(Op) /\ Len(call) \in Nat /\ logged \in 0 .. Len(call)
      /\ ops_since_checkpoint \in Nat /\ elapsed \in BOOLEAN
      /\ wal \in Seq(Op) /\ tail \in Tails
      /\ SnapFile(snap) /\ keys \in Nat /\ calls \in Nat /\ crashes \in Nat
      /\ pc = "renamed" => snap = {snapshot_bridge(bridge)}
  BY CallsAreOps, Zenon DEF StoreInv, CallOk
<1>n. ASSUME pc = "log"
      PROVE  /\ call[logged + 1] \in Op
             /\ \A upto \in Tails : Write(call[logged + 1], upto) =>
                    wal' \in Seq(Op) /\ tail' \in Tails
             /\ CallOk("check", call, logged + 1)
  <2>1. logged + 1 \in 1 .. Len(call) /\ call # <<>> /\ call \in Calls \cup {<<>>}
    BY <1>0, <1>n DEF CallOk
  <2>2. call[logged + 1] \in Op
    BY <1>0, <2>1
  <2>3. CallOk("check", call, logged + 1)
    BY <2>1 DEF CallOk
  <2> QED BY <1>0, <2>2, <2>3, WriteType, Zenon
<1>1. CASE \E ops \in Calls : Call(ops)
  <2>1. PICK ops \in Calls : Call(ops)
    BY <1>1, Zenon
  <2>2. ops \in Seq(Op) /\ Len(ops) \in Nat /\ ops # <<>>
    BY CallsAssumption, CallsAreOps, Zenon
  <2>3. /\ logged = 0 /\ pc' = "log" /\ call' = ops /\ logged' = logged
        /\ calls' = calls + 1
    BY <1>0, <2>1 DEF Call, CallOk
  <2>4. 0 < Len(ops)
    BY <2>2
  <2>5. CallOk(pc', call', logged')
    BY <2>2, <2>3, <2>4 DEF CallOk
  <2> QED BY <1>0, <2>1, <2>3, <2>5 DEF Call, StoreInv, Phases, disk, due
<1>2. CASE append
  <2>1. wal' \in Seq(Op) /\ tail' \in Tails
    BY <1>n, <1>2, Zenon DEF append, Tails
  <2>2. CallOk(pc', call', logged')
    BY <1>n, <1>2, Zenon DEF append
  <2>3. /\ pc' = "check"
        /\ UNCHANGED <<bridge, elapsed, snap, keys, counters>>
        /\ ops_since_checkpoint' = ops_since_checkpoint + 1
    BY <1>2, Zenon DEF append
  <2>5. pc' \in Phases /\ pc' # "renamed" /\ ops_since_checkpoint' \in Nat
    BY <1>0, <2>3 DEF Phases
  <2>6. /\ bridge' = bridge /\ elapsed' = elapsed /\ snap' = snap /\ keys' = keys
        /\ calls' = calls /\ crashes' = crashes
    BY <2>3, Zenon DEF counters
  <2> QED BY <1>0, <2>1, <2>2, <2>5, <2>6, Zenon DEF StoreInv
<1>3. CASE AppendFails
  <2>1. wal' \in Seq(Op) /\ tail' \in Tails
    BY <1>0, <1>n, <1>3, Zenon DEF AppendFails
  <2>2. CallOk(pc', call', logged')
    BY <1>n, <1>3, Zenon DEF AppendFails
  <2> QED BY <1>0, <1>3, <2>1, <2>2, Zenon DEF AppendFails, StoreInv, Phases, counters,
              due
<1>4. CASE NoCheckpoint
  BY <1>0, <1>4, ProceedType, Zenon DEF NoCheckpoint, StoreInv, disk, counters,
      due
<1>5. CASE CheckpointFails
  BY <1>0, <1>5, ProceedType, Zenon DEF CheckpointFails, StoreInv, disk,
      counters, due
<1>6. CASE Remove
  <2>1. SnapFile(snap')
    BY <1>6, Zenon DEF Remove, SnapFile
  <2>2. CallOk(pc', call', logged')
    BY <1>0, <1>6, Zenon DEF Remove, CallOk
  <2> QED BY <1>0, <1>6, <2>1, <2>2, Zenon DEF Remove, StoreInv, Phases, counters, due
<1>7. CASE Rename
  <2>1. snap' = {snapshot_bridge(bridge)} /\ bridge' = bridge
    BY <1>7, Zenon DEF Rename
  <2>2. SnapFile(snap')
    BY <1>0, <2>1, SnapshotKeepsView, Zenon DEF SnapFile
  <2>3. CallOk(pc', call', logged')
    BY <1>0, <1>7, Zenon DEF Rename, CallOk
  <2> QED BY <1>0, <1>7, <2>1, <2>2, <2>3, Zenon DEF Rename, StoreInv, Phases,
              counters, due
<1>8. CASE Truncate
  <2>1. <<>> \in Seq(Op)
    OBVIOUS
  <2> QED BY <1>0, <1>8, <2>1, ProceedType, Zenon DEF Truncate, StoreInv, Tails, counters
<1>14. CASE TruncateFails
  <2>1. wal' \in Seq(Op) /\ tail' \in Tails
    <3>1. <<>> \in Seq(Op)
      OBVIOUS
    <3> QED BY <1>0, <1>14, <3>1, Zenon DEF TruncateFails, Tails
  <2> QED BY <1>0, <1>14, <2>1, ProceedType, Zenon DEF TruncateFails, StoreInv, counters,
              due
<1>15. CASE Tick
  BY <1>0, <1>15, Zenon DEF Tick, StoreInv, disk, counters
<1>9. CASE Close
  <2>1. CallOk(pc', call', logged')
    BY <1>0, <1>9, Zenon DEF Close, CallOk
  <2> QED BY <1>0, <1>9, <2>1 DEF Close, StoreInv, Phases, disk, due
<1>10. CASE Crash
  <2>1. CallOk(pc', call', logged')
    BY <1>10 DEF Crash, CallOk
  <2>2. wal' \in Seq(Op) /\ tail' \in Tails
    BY <1>0, <1>n, <1>10, Zenon DEF Crash, Tails
  <2> QED BY <1>0, <1>10, <2>1, <2>2, NewBridgeType DEF Crash, StoreInv, Phases, due
<1>11. CASE Start
  <2>1. CallOk(pc', call', logged')
    BY <1>0, <1>11, Zenon DEF Start, CallOk
  <2>2. bridge' \in Bridge
    <3>1. bridge' = ApplyAll(Base(snap), wal, keys)
      BY <1>11, Zenon DEF Start, Restored, Base
    <3> QED BY <1>0, <3>1, ShownWhateverKeys, Zenon
  <2>3. keys + Len(wal) \in Nat
    BY <1>0
  <2> QED BY <1>0, <1>11, <2>1, <2>2, <2>3, Zenon DEF Start, StoreInv, Phases, disk,
              counters
<1>12. CASE Silent
  <2>1. bridge' \in Bridge
    BY <1>12, SilentType, Zenon
  <2> QED BY <1>0, <1>12, <2>1 DEF Silent, StoreInv, disk, due
<1>13. CASE UNCHANGED vars
  BY <1>0, <1>13, Zenon DEF vars, disk, counters, due, StoreInv
<1> QED BY <1>1, <1>2, <1>3, <1>4, <1>5, <1>6, <1>7, <1>8, <1>9, <1>10, <1>11, <1>12,
           <1>13, <1>14, <1>15, Zenon DEF Next

\* StoreInv holds in every reachable state.
LEMMA StoreInvAlways == Spec => []StoreInv
<1> QED BY StoreInvInit, StoreInvStep, PTL DEF Spec

\* TypeOK of BridgeStore: whatever fails or crashes, the bridge, the log and the
\* snapshot stay what f2f.rs:109 and storage.rs:26 declare, and a call never logs
\* more operations than it has.
THEOREM StoreTyped == Spec => []TypeOK
<1>1. StoreInv => TypeOK
  <2> SUFFICES ASSUME StoreInv PROVE TypeOK
    BY Zenon
  <2>1. call \in Seq(Op) /\ logged \in 0 .. Len(call)
    BY CallsAreOps, Zenon DEF StoreInv, CallOk
  <2>2. snap \subseteq Snapshot /\ Cardinality(snap) <= 1
    <3>1. CASE snap = {}
      <4>1. Cardinality(snap) = 0
        BY <3>1, FS_EmptySet, Zenon
      <4> QED BY <3>1, <4>1
    <3>2. CASE \E s \in Snapshot : snap = {s}
      <4>1. PICK s \in Snapshot : snap = {s}
        BY <3>2, Zenon
      <4>2. Cardinality(snap) = 1
        BY <4>1, FS_Singleton, Zenon
      <4> QED BY <4>1, <4>2
    <3> QED BY <3>1, <3>2, Zenon DEF StoreInv, SnapFile
  <2> QED BY <2>1, <2>2, Zenon DEF StoreInv, TypeOK
<1> QED BY <1>1, StoreInvAlways, PTL

\* Recoverable, now and after a step, in terms of the files.
LEMMA RecoverableShown ==
    ASSUME StoreInv
    PROVE  Recoverable = Shown(snap, wal)
<1>1. SnapFile(snap) /\ wal \in Seq(Op) /\ keys \in Nat
  BY Zenon DEF StoreInv
<1>2. Restored(keys) = ApplyAll(Base(snap), wal, keys)
  BY Zenon DEF Restored, Base
<1> QED BY <1>1, <1>2, ShownWhateverKeys, Zenon DEF Recoverable

\* The same after a step.
LEMMA RecoverableShownNext ==
    ASSUME StoreInv'
    PROVE  Recoverable' = Shown(snap', wal')
<1>1. SnapFile(snap') /\ wal' \in Seq(Op) /\ keys' \in Nat
  BY Zenon DEF StoreInv
<1>2. Restored(keys)' = ApplyAll(Base(snap'), wal', keys')
  BY Zenon DEF Restored, Base
<1> QED BY <1>1, <1>2, ShownWhateverKeys, Zenon DEF Recoverable

\* CheckpointIsMemory: whatever failed before, a checkpoint that has replaced
\* state.json and emptied the log leaves on disk exactly the memory
\* (storage.rs:186).
THEOREM CheckpointExact == Spec => CheckpointIsMemory
<1> DEFINE A == pc = "renamed" /\ pc' # "renamed" /\ wal' = <<>>
                    => Recoverable' = View(bridge)
<1>1. StoreInv /\ StoreInv' /\ [Next]_vars => [A]_vars
  <2> SUFFICES ASSUME StoreInv, StoreInv', Next, pc = "renamed",
                      pc' # "renamed", wal' = <<>>
               PROVE  Recoverable' = View(bridge)
    BY Zenon
  <2>1. snap' = snap
    BY DEF Next, Call, append, AppendFails, NoCheckpoint, CheckpointFails,
           CheckpointDue, Remove, Rename, Truncate, TruncateFails, Tick, Close,
           Crash, Start, Silent, disk
  <2>2. snap' = {snapshot_bridge(bridge)} /\ bridge \in Bridge
    BY <2>1, Zenon DEF StoreInv
  <2> QED BY <2>2, RecoverableShownNext, ShownAfterCheckpoint, Zenon
<1>2. Spec => [][A]_vars
  BY <1>1, StoreInvAlways, PTL DEF Spec
<1> QED BY <1>2, Zenon DEF CheckpointIsMemory

---------------------------------------------------------------------------
(***************************************************************************)
(* Durability, when nothing fails but a checkpoint and no checkpoint falls  *)
(* due inside a call.                                                       *)
(***************************************************************************)
\* No call finds a checkpoint due, neither by the number of operations nor by
\* the time since the last one.
NoneDue == pc = "check" => ~should_checkpoint

\* The log holds, on top of the snapshot, the memory and the logged part of the
\* call in progress; checkpoints are taken between calls.
LogInv ==
    /\ tail = "clean"
    /\ pc \in {"idle", "close"} => Shown(snap, wal) = View(bridge)
    /\ pc \in {"log", "check"} =>
           Shown(snap, wal) = View(ApplyAll(bridge, SubSeq(call, 1, logged), 0))
    /\ pc \in {"removed", "renamed"} => call = <<>>

\* The part of a call that is logged grows by the operation at its end.
LEMMA LoggedPart ==
    ASSUME NEW ops \in Seq(Op), NEW n \in 0 .. Len(ops)
    PROVE  /\ SubSeq(ops, 1, n) \in Seq(Op)
           /\ SubSeq(ops, 1, 0) = <<>>
           /\ SubSeq(ops, 1, Len(ops)) = ops
           /\ n < Len(ops) =>
                  SubSeq(ops, 1, n + 1) = Append(SubSeq(ops, 1, n), ops[n + 1])
OBVIOUS

\* The log and the snapshot show the memory initially.
LEMMA LogInvInit == Init => LogInv
<1> SUFFICES ASSUME Init PROVE LogInv
  BY Zenon
<1>1. Shown(snap, wal) = View(bridge)
  <2>1. Base(snap) = bridge /\ wal = <<>>
    BY Zenon DEF Init, Base
  <2> QED BY <2>1, ApplyNone, Zenon DEF Shown
<1> QED BY <1>1, Zenon DEF Init, LogInv

\* append adds one operation to both sides.
LEMMA AppendShows ==
    ASSUME StoreInv, LogInv, append
    PROVE  /\ call \in Calls /\ logged + 1 \in DOMAIN call
           /\ wal' = Append(wal, call[logged + 1]) /\ snap' = snap
           /\ Shown(snap', wal') =
                  View(ApplyAll(bridge, SubSeq(call, 1, logged + 1), 0))
<1> DEFINE o == call[logged + 1]
           part == SubSeq(call, 1, logged)
<1>1. /\ pc = "log" /\ bridge \in Bridge /\ SnapFile(snap) /\ wal \in Seq(Op)
      /\ call \in Seq(Op) /\ logged \in 0 .. Len(call) /\ logged < Len(call)
      /\ call \in Calls \cup {<<>>}
  BY CallsAreOps, Zenon DEF StoreInv, CallOk, append
<1>2. call \in Calls /\ logged + 1 \in DOMAIN call /\ o \in Op
  <2>1. Len(<<>>) = 0
    BY Zenon
  <2>2. call # <<>>
    BY <1>1, <2>1
  <2> QED BY <1>1, <2>2
<1>3. wal' = Append(wal, o) /\ snap' = snap
  BY Zenon DEF append, Write, LogInv
<1>4. /\ part \in Seq(Op) /\ Len(part) \in Nat
      /\ SubSeq(call, 1, logged + 1) = Append(part, o)
  BY <1>1, LoggedPart
<1>5. Shown(snap, wal) = View(ApplyAll(bridge, part, 0))
  BY <1>1, Zenon DEF LogInv
<1> HIDE DEF o, part
<1>6. ApplyAll(bridge, part, 0) \in Bridge
  BY <1>1, <1>4, ApplyAllType, Zenon
<1>7. 0 + (Len(part) + 1) \in Nat
  BY <1>4
<1>8. Shown(snap, Append(wal, o)) =
          View(apply_op_no_log(ApplyAll(bridge, part, 0), o, 0 + (Len(part) + 1)))
  BY <1>1, <1>2, <1>5, <1>6, <1>7, ShownAfterLine
<1>9. ApplyAll(bridge, Append(part, o), 0) =
          apply_op_no_log(ApplyAll(bridge, part, 0), o, 0 + (Len(part) + 1))
  BY <1>2, <1>4, ApplyAppend, Zenon
<1> QED BY <1>2, <1>3, <1>4, <1>8, <1>9, Zenon DEF o

\* What the fault hypotheses rule out.
LEMMA OnlyCheckpoints ==
    ASSUME Faults \subseteq {"timer", "rename", "gap"}
    PROVE  /\ ~AppendFails /\ ~CheckpointFails /\ ~TruncateFails /\ ~Silent
           /\ NoneDue /\ CheckpointDue => pc = "close"
           /\ Crash => wal' = wal /\ tail' = tail
<1>1. "disk" \notin Faults /\ "silent" \notin Faults /\ "torn" \notin Faults
  BY Zenon
<1> QED BY <1>1, Zenon DEF AppendFails, CheckpointFails, TruncateFails, Silent, NoneDue,
            CheckpointDue, Crash

LEMMA OnlyRename ==
    ASSUME Faults \subseteq {"timer", "rename"}
    PROVE  /\ ~AppendFails /\ ~CheckpointFails /\ ~TruncateFails /\ ~Silent
           /\ NoneDue /\ CheckpointDue => pc = "close"
           /\ Crash => pc \notin {"removed", "renamed"} /\ wal' = wal /\ tail' = tail
<1>1. "gap" \notin Faults /\ Faults \subseteq {"timer", "rename", "gap"}
  BY Zenon
<1>2. Crash => pc \notin {"removed", "renamed"}
  BY <1>1, Zenon DEF Crash
<1> QED BY <1>1, <1>2, OnlyCheckpoints, Zenon

\* Every step preserves LogInv when only a checkpoint may fail, or be cut short,
\* and none is due inside a call.
LEMMA LogInvStep ==
    ASSUME Faults \subseteq {"timer", "rename", "gap"}
    PROVE  StoreInv /\ NoneDue /\ LogInv /\ [Next]_vars => LogInv'
<1> SUFFICES ASSUME StoreInv, NoneDue, LogInv, [Next]_vars PROVE LogInv'
  BY Zenon
<1>0. /\ bridge \in Bridge /\ SnapFile(snap) /\ wal \in Seq(Op) /\ keys \in Nat
      /\ call \in Seq(Op) /\ logged \in 0 .. Len(call) /\ tail = "clean"
  BY CallsAreOps, Zenon DEF StoreInv, CallOk, LogInv
<1>1. CASE \E ops \in Calls : Call(ops)
  <2>1. PICK ops \in Calls : Call(ops)
    BY <1>1, Zenon
  <2>2. /\ logged = 0 /\ logged' = 0 /\ call' = ops /\ bridge' = bridge
        /\ snap' = snap /\ wal' = wal /\ tail' = tail /\ pc' = "log"
        /\ Shown(snap, wal) = View(bridge)
    BY <2>1 DEF Call, StoreInv, CallOk, LogInv, disk
  <2>3. SubSeq(call', 1, logged') = <<>>
    <3>1. ops \in Seq(Op) /\ 0 \in 0 .. Len(ops)
      BY CallsAreOps
    <3> QED BY <2>2, <3>1, LoggedPart, Zenon
  <2>4. View(ApplyAll(bridge', SubSeq(call', 1, logged'), 0)) = View(bridge)
    BY <2>2, <2>3, ApplyNone, Zenon
  <2> QED BY <1>0, <2>2, <2>4, Zenon DEF LogInv
<1>2. CASE append
  <2>1. Shown(snap', wal') = View(ApplyAll(bridge, SubSeq(call, 1, logged + 1), 0))
    BY <1>2, AppendShows, Zenon
  <2>2. /\ tail' = "clean" /\ pc' = "check" /\ bridge' = bridge /\ call' = call
        /\ logged' = logged + 1
    BY <1>2, Zenon DEF append, Write, LogInv
  <2> QED BY <2>1, <2>2, Zenon DEF LogInv
<1>3. CASE NoCheckpoint
  <2>1. /\ snap' = snap /\ wal' = wal /\ tail' = tail /\ pc = "check" /\ Proceed
        /\ call # <<>>
        /\ Shown(snap, wal) = View(ApplyAll(bridge, SubSeq(call, 1, logged), 0))
    BY <1>3, Zenon DEF NoCheckpoint, disk, StoreInv, CallOk, LogInv
  <2>2. CASE logged < Len(call)
    <3>1. pc' = "log" /\ bridge' = bridge /\ call' = call /\ logged' = logged
      BY <2>1, <2>2, Zenon DEF Proceed
    <3> QED BY <1>0, <2>1, <3>1, Zenon DEF LogInv
  <2>3. CASE ~(logged < Len(call))
    <3>1. pc' = "idle" /\ bridge' = ApplyAll(bridge, call, keys)
      BY <2>1, <2>3, Zenon DEF Proceed
    <3>2. SubSeq(call, 1, logged) = call
      <4>1. logged = Len(call)
        BY <1>0, <2>3
      <4> QED BY <1>0, <4>1, LoggedPart, Zenon
    <3>3. View(ApplyAll(bridge, call, 0)) = View(ApplyAll(bridge, call, keys))
      BY <1>0, ApplyAllSameView
    <3> QED BY <1>0, <2>1, <3>1, <3>2, <3>3, Zenon DEF LogInv
  <2> QED BY <2>2, <2>3, Zenon
<1>4. CASE Remove \/ Rename
  <2>1. pc \in {"close", "removed"}
    BY <1>4, OnlyCheckpoints, Zenon DEF Remove, Rename
  <2>2. call = <<>>
    BY <2>1, Zenon DEF StoreInv, CallOk, LogInv
  <2>3. pc' \in {"removed", "renamed"} /\ call' = call /\ tail' = tail
    BY <1>4, Zenon DEF Remove, Rename
  <2> QED BY <1>0, <2>2, <2>3, Zenon DEF LogInv
<1>5. CASE Truncate
  <2>1. call = <<>> /\ pc' = "down" /\ tail' = "clean"
    BY <1>5, Zenon DEF Truncate, Proceed, LogInv
  <2> QED BY <2>1, Zenon DEF LogInv
<1>6. CASE Close
  BY <1>0, <1>6, Zenon DEF Close, LogInv, disk
<1>7. CASE Crash
  <2>1. pc' = "down" /\ tail' = tail
    BY <1>7, OnlyCheckpoints, Zenon DEF Crash
  <2> QED BY <1>0, <2>1, Zenon DEF LogInv
<1>8. CASE Start
  <2>1. /\ pc' = "idle" /\ snap' = snap /\ wal' = wal /\ tail' = tail
        /\ bridge' = ApplyAll(Base(snap), wal, keys)
    BY <1>8, Zenon DEF Start, Restored, Base, disk
  <2>2. View(bridge') = Shown(snap, wal)
    BY <1>0, <2>1, ShownWhateverKeys, Zenon
  <2> QED BY <1>0, <2>1, <2>2, Zenon DEF LogInv
<1>10. CASE Tick
  BY <1>0, <1>10, Zenon DEF Tick, LogInv, disk
<1>9. CASE UNCHANGED vars
  BY <1>9, Zenon DEF vars, disk, counters, LogInv
<1> QED BY <1>1, <1>2, <1>3, <1>4, <1>5, <1>6, <1>7, <1>8, <1>9, <1>10, OnlyCheckpoints, Zenon
            DEF Next

\* Durable: in a run in which no call finds a checkpoint due, by the number of its
\* operations or by the 60 seconds (storage.rs:256), and whose appends neither
\* fail nor tear, the data directory restores between calls what the client has
\* in memory, through any number of crashes, shutdowns and restarts
\* (storage.rs:3, :189).
THEOREM StateDurable ==
    ASSUME Faults \subseteq {"timer", "rename", "gap"}
    PROVE  Spec /\ []NoneDue => []Durable
<1>1. StoreInv /\ LogInv => Durable
  BY RecoverableShown, Zenon DEF LogInv, Durable
<1> QED BY <1>1, LogInvInit, LogInvStep, StoreInvAlways, PTL DEF Spec

---------------------------------------------------------------------------
(***************************************************************************)
(* The store implements DurableState.                                       *)
(***************************************************************************)
\* The steps of the store, as seen by DurableState.
StateStays == Committed' = Committed /\ (pc' # "down") = (pc # "down")
StateSteps == pc # "down" /\ pc' # "down" /\ StepOf(Committed, Committed')
StopsOrStarts == Committed' = Committed /\ (pc' # "down") = (pc = "down")

\* An appended line commits one operation of a call.
LEMMA AppendCommits ==
    ASSUME StoreInv, StoreInv', LogInv, append
    PROVE  StateSteps
<1>1. /\ call \in Calls /\ logged + 1 \in DOMAIN call /\ snap' = snap
      /\ wal' = Append(wal, call[logged + 1])
  BY AppendShows, Zenon
<1>2. pc = "log" /\ pc' = "check"
  BY Zenon DEF append
<1>3. Committed = Shown(snap, wal) /\ Committed' = Shown(snap', wal')
  <2>1. Committed = Recoverable /\ Committed' = Recoverable'
    BY <1>2, Zenon DEF Committed
  <2> QED BY <2>1, RecoverableShown, RecoverableShownNext, Zenon
<1> DEFINE r == ApplyAll(Base(snap), wal, 0)
           o == call[logged + 1]
<1>4. /\ SnapFile(snap) /\ wal \in Seq(Op) /\ o \in Op
  <2>1. call \in Seq(Op)
    BY <1>1, CallsAreOps, Zenon
  <2> QED BY <1>1, <2>1 DEF StoreInv
<1>5. r \in Bridge /\ Shown(snap, wal) = View(r)
  BY <1>4, ShownWhateverKeys, Zenon DEF Shown
<1> HIDE DEF r, o
<1>6. /\ AsBridge(View(r)) \in Bridge
      /\ Shown(snap, wal) = View(AsBridge(View(r)))
  BY <1>5, ViewAsBridge, Zenon
<1>7. Shown(snap, Append(wal, o)) = View(apply_op_no_log(AsBridge(View(r)), o, 0))
  BY <1>4, <1>6, ShownAfterLine
<1>8. Committed' = View(apply_op_no_log(AsBridge(Committed), call[logged + 1], 0))
  BY <1>1, <1>3, <1>5, <1>7, Zenon DEF o
<1>9. StepOf(Committed, Committed')
  BY <1>1, <1>8, Zenon DEF StepOf
<1> QED BY <1>2, <1>9, Zenon DEF StateSteps

\* Every step of the store is one of the three.
LEMMA StepsMap ==
    ASSUME Faults \subseteq {"timer", "rename"}, StoreInv, StoreInv', NoneDue, LogInv, LogInv',
           Next
    PROVE  StateStays \/ StateSteps \/ StopsOrStarts
<1>0. /\ Recoverable = Shown(snap, wal) /\ Recoverable' = Shown(snap', wal')
      /\ bridge \in Bridge
  BY RecoverableShown, RecoverableShownNext, Zenon DEF StoreInv
<1>1. CASE \E ops \in Calls : Call(ops)
  <2>1. pc = "idle" /\ pc' = "log" /\ snap' = snap /\ wal' = wal
    BY <1>1, Zenon DEF Call, disk
  <2> QED BY <1>0, <2>1, Zenon DEF StateStays, Committed
<1>2. CASE append
  BY <1>2, AppendCommits, Zenon
<1>3. CASE NoCheckpoint
  <2>1. pc = "check" /\ pc' \in {"log", "idle"} /\ snap' = snap /\ wal' = wal
    BY <1>3, Zenon DEF NoCheckpoint, disk, Proceed, StoreInv, CallOk
  <2> QED BY <1>0, <2>1, Zenon DEF StateStays, Committed
<1>4. CASE Remove \/ Rename
  <2>1. pc \in {"close", "removed"}
    BY <1>4, OnlyRename, Zenon DEF Remove, Rename
  <2>2. Committed = View(bridge)
    BY <1>0, <2>1, Zenon DEF Committed, LogInv
  <2>3. pc' \in {"removed", "renamed"} /\ bridge' = bridge
    BY <1>4, Zenon DEF Remove, Rename
  <2>4. Committed' = View(bridge)
    BY <2>3, Zenon DEF Committed
  <2> QED BY <2>1, <2>2, <2>3, <2>4, Zenon DEF StateStays
<1>5. CASE Truncate
  <2>1. /\ pc = "renamed" /\ pc' = "down" /\ wal' = <<>>
        /\ snap' = {snapshot_bridge(bridge)}
    BY <1>5, Zenon DEF Truncate, Proceed, LogInv, StoreInv
  <2>2. Committed = View(bridge)
    BY <2>1, Zenon DEF Committed
  <2>3. Committed' = View(bridge)
    BY <1>0, <2>1, ShownAfterCheckpoint, Zenon DEF Committed
  <2> QED BY <2>1, <2>2, <2>3, Zenon DEF StopsOrStarts
<1>6. CASE Close
  <2>1. pc = "idle" /\ pc' = "close" /\ snap' = snap /\ wal' = wal
    BY <1>6, Zenon DEF Close, disk
  <2> QED BY <1>0, <2>1, Zenon DEF StateStays, Committed
<1>7. CASE Crash
  <2>1. /\ pc # "down" /\ pc' = "down" /\ snap' = snap /\ wal' = wal
        /\ pc \notin {"removed", "renamed"}
    BY <1>7, OnlyRename, Zenon DEF Crash
  <2> QED BY <1>0, <2>1, Zenon DEF StopsOrStarts, Committed
<1>8. CASE Start
  <2>1. pc = "down" /\ pc' = "idle" /\ snap' = snap /\ wal' = wal
    BY <1>8, Zenon DEF Start, disk
  <2> QED BY <1>0, <2>1, Zenon DEF StopsOrStarts, Committed
<1>9. CASE Tick
  <2>1. pc' = pc /\ bridge' = bridge /\ snap' = snap /\ wal' = wal
    BY <1>9, Zenon DEF Tick, disk
  <2> QED BY <1>0, <2>1, Zenon DEF StateStays, Committed
<1> QED BY <1>1, <1>2, <1>3, <1>4, <1>5, <1>6, <1>7, <1>8, <1>9, OnlyRename, Zenon DEF Next

\* ImplementsDurableState: if moreover no crash falls between the two halves of a
\* checkpoint (storage.rs:240), the committed state changes by one whole operation
\* of a call at a time; no crash, restart or checkpoint touches it
\* (storage.rs:3, :189).
THEOREM StoreImplementsDurableState ==
    ASSUME Faults \subseteq {"timer", "rename"}
    PROVE  Spec /\ []NoneDue => ImplementsDurableState
<1> DEFINE AbstractStep == [Abstract!Operate \/ Abstract!StopOrStart]_<<Committed, pc # "down">>
<1>1. Init => Abstract!Init
  <2> SUFFICES ASSUME Init PROVE Abstract!Init
    BY Zenon
  <2>1. Recoverable = View(NewBridge(Me))
    <3>1. Recoverable = Shown(snap, wal)
      BY StoreInvInit, RecoverableShown, Zenon
    <3> QED BY <3>1, LogInvInit, Zenon DEF LogInv, Init
  <2> QED BY <2>1, Zenon DEF Init, Abstract!Init, Committed
<1>2. StoreInv /\ StoreInv' /\ NoneDue /\ LogInv /\ LogInv' /\ [Next]_vars
          => AbstractStep
  <2> SUFFICES ASSUME StoreInv, StoreInv', NoneDue, LogInv, LogInv', [Next]_vars
               PROVE  AbstractStep
    BY Zenon
  <2>1. CASE Next
    <3>1. CASE StateStays
      BY <3>1, Zenon DEF StateStays
    <3>2. CASE StateSteps
      BY <3>2, Zenon DEF StateSteps, Abstract!Operate
    <3>3. CASE StopsOrStarts
      BY <3>3, Zenon DEF StopsOrStarts, Abstract!StopOrStart
    <3> QED BY <2>1, <3>1, <3>2, <3>3, StepsMap, Zenon
  <2>2. CASE UNCHANGED vars
    <3>1. /\ pc' = pc /\ bridge' = bridge /\ snap' = snap /\ wal' = wal
      BY <2>2, Zenon DEF vars, disk
    <3>2. Recoverable' = Recoverable
      BY <3>1, RecoverableShown, RecoverableShownNext, Zenon
    <3> QED BY <3>1, <3>2, Zenon DEF Committed
  <2> QED BY <2>1, <2>2, Zenon
<1>3. Spec /\ []NoneDue => [](StoreInv /\ LogInv /\ NoneDue)
  <2>1. StoreInv /\ NoneDue /\ LogInv /\ [Next]_vars => LogInv'
    BY LogInvStep, Zenon
  <2> QED BY <2>1, LogInvInit, StoreInvAlways, PTL DEF Spec
<1>4. Spec /\ []NoneDue => Abstract!Spec
  BY <1>1, <1>2, <1>3, PTL DEF Spec, Abstract!Spec
<1> QED BY <1>4, Zenon DEF ImplementsDurableState
===========================================================================
