--------------------------- MODULE MCBridgeStore ---------------------------
(***************************************************************************)
(* Small instances of BridgeStore for TLC.                                  *)
(***************************************************************************)
EXTENDS BridgeStore, TLC

CONSTANTS me, nick, bob, carol, main, plan

AddFriend(u, t)   == [op |-> "add_friend", uid |-> u, trust |-> t]
RemoveFriend(u)   == [op |-> "remove_friend", uid |-> u]
UpdateTrust(u, t) == [op |-> "update_trust", uid |-> u, trust |-> t]
UpdateKey(u, n)   == [op |-> "update_edge_key", uid |-> u, key |-> n]
CreateChannel(c)  == [op |-> "create_channel", channel |-> c]
JoinChannel(c, u) == [op |-> "join_channel", channel |-> c, uid |-> u]
LeaveChannel(c, u) == [op |-> "leave_channel", channel |-> c, uid |-> u]
SetUid(u)         == [op |-> "set_uid", uid |-> u]

\* One call of every kind, an invitation of two friends in one call among them;
\* trust 3 is above the scale.
AllCalls ==
    {<<AddFriend(bob, 0)>>, <<AddFriend(bob, 3)>>, <<RemoveFriend(bob)>>,
     <<UpdateTrust(bob, 1)>>, <<UpdateKey(bob, 100)>>,
     <<AddFriend(carol, 1)>>, <<CreateChannel(main)>>, <<JoinChannel(main, bob)>>,
     <<JoinChannel(main, bob), JoinChannel(main, carol)>>,
     <<LeaveChannel(main, me)>>, <<LeaveChannel(main, nick)>>,
     <<SetUid(nick)>>}

\* Two friends join a channel in one call.
GroupCalls ==
    {<<AddFriend(bob, 1)>>, <<AddFriend(carol, 1)>>, <<CreateChannel(main)>>,
     <<JoinChannel(main, bob), JoinChannel(main, carol)>>}

\* A friend who is not trusted yet is invited, then trusted.
InviteCalls ==
    {<<AddFriend(bob, 0)>>, <<UpdateTrust(bob, 1)>>, <<CreateChannel(main)>>,
     <<JoinChannel(main, bob)>>}

FriendCalls == {<<AddFriend(bob, 1)>>, <<RemoveFriend(bob)>>}

ChannelCalls == {<<CreateChannel(main)>>, <<LeaveChannel(main, me)>>}
===========================================================================
