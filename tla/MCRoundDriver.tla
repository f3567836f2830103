-------------------------- MODULE MCRoundDriver --------------------------
(***************************************************************************)
(* Small instances of RoundDriver for TLC.                                  *)
(***************************************************************************)
EXTENDS RoundDriver, TLC

CONSTANTS k, hello, bye, later

\* Everybody is everybody's friend and both ends hold the same key.
FriendKeys == [a \in Node |-> [b \in Node |-> k]]

WholeChannel == {Node}

OneWriter  == {<<1, hello>>}
TwoWriters == {<<1, hello>>, <<2, bye>>}
Eager      == {<<1, hello>>, <<1, bye>>}
Chatty     == {<<1, hello>>, <<1, later>>, <<2, bye>>}
AllWriters == {<<1, hello>>, <<2, bye>>, <<3, later>>}
===========================================================================
