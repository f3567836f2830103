----------------------- MODULE MCConnectionManager -----------------------
(***************************************************************************)
(* Small instances of ConnectionManager for TLC.                            *)
(***************************************************************************)
EXTENDS ConnectionManager, TLC

CONSTANTS A, B

\* A reconnects.
Reconnect == {<<A, B, 1>>, <<A, B, 2>>}

\* Both dial each other.
Crossing == {<<A, B, 1>>, <<B, A, 1>>}

\* Both, and A reconnects.
Both == {<<A, B, 1>>, <<A, B, 2>>, <<B, A, 1>>}

\* B has A's key, A does not have B's.
OneKnows == {<<B, A>>}
===========================================================================
