------------------------------ MODULE MCRelay ------------------------------
(***************************************************************************)
(* Small instances of Relay for TLC.                                        *)
(***************************************************************************)
EXTENDS Relay, TLC

CONSTANTS A, B, C, D

\* A and D are relayed by B and by C; B and C take each other for the way to D.
Circular == {<<A, D, B>>, <<B, D, C>>, <<C, D, B>>}
Chain    == {{A, B}, {B, C}}
Shortcut == {{A, D}, {C, D}}

\* A reaches D through B until it is connected to D itself.
ViaB   == {<<A, D, B>>}
Line   == {{A, B}, {B, D}}
Direct == {{A, D}}

\* B has A's key on record.
OnRecord == {<<B, A, <<A, 0>>>>}

FromA    == {<<A, D>>}
FromBoth == {<<A, D>>, <<B, D>>}
===========================================================================
