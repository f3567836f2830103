---------------------------- MODULE TrustLevels ----------------------------
(***************************************************************************)
(* pgp::TrustLevel (pgp/mod.rs): the five levels, in the order the code      *)
(* derives for them.                                                        *)
(***************************************************************************)
EXTENDS Integers

Never    == -1
Unknown  == 0
Marginal == 1
Full     == 2
Ultimate == 3

TrustLevel == Never .. Ultimate

\* The level a stored number stands for: one out of range is Unknown.
from_i32(v) == IF v \in TrustLevel THEN v ELSE Unknown
===========================================================================
