----------------------------- MODULE MCLibrary -----------------------------
(***************************************************************************)
(* Small instances of the library's objects for TLC.                        *)
(***************************************************************************)
EXTENDS Library, TLC

CONSTANTS alice, bob, carol, plan,  \* the network
          k1, k2, a, b,             \* the web of trust
          o1, o2, c1, n1,           \* the services
          me, p, q,                 \* the group
          n2, n3, n4                \* the address books

\* n2 trusts n3 fully and n3 trusts n4 marginally; the others are unknown to
\* each other.
TrustInARow ==
    [n \in Keeper |-> [m \in Keeper |->
        CASE n = n2 /\ m = n3 -> Full
          [] n = n3 /\ m = n4 -> Marginal
          [] OTHER            -> Unknown]]

Symmetry == Permutations({k1, k2}) \cup Permutations({a, b}) \cup Permutations({p, q})
===========================================================================
