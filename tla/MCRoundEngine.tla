-------------------------- MODULE MCRoundEngine --------------------------
(***************************************************************************)
(* Small instances of RoundEngine for TLC.                                  *)
(***************************************************************************)
EXTENDS RoundEngine, TLC

CONSTANTS A, B, C, k, hello, bye, long

\* Everybody is everybody's friend and both ends hold the same key.
FriendKeys == [a \in Node |-> [b \in Node |-> k]]

\* B has not imported the key C generated for their edge.
MissingKey == [FriendKeys EXCEPT ![B][C] = NoKey]

MCNode == {A, B, C}
MCKeyRings == {FriendKeys}
MCKeyRingsMixed == {FriendKeys, MissingKey}
\* The same for two nodes: B lacks the key of its only edge.
MCKeyRingsPair == {FriendKeys, [FriendKeys EXCEPT ![B][A] = NoKey]}
MCPair == {{A, B}}
MCOutdated == {<<B, A>>}
MCGroupsMixed == {{A, B, C}, {A, B}}
===========================================================================
