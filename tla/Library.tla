------------------------------ MODULE Library ------------------------------
(***************************************************************************)
(* The objects of the library that share no state, side by side: a network, *)
(* the web of trust with its files, the two ends of a ratchet, the service  *)
(* registry, a channel's group, the reputation of its members, and the      *)
(* address books of several nodes.                                          *)
(* Each behaviour exercises one of them and leaves the others as they were  *)
(* created.                                                                 *)
(***************************************************************************)
EXTENDS DcNetwork, WebOfTrust, Ratchet, ServiceManager, GroupRounds, AddressBook

VARIABLE part  \* the object this behaviour exercises

libraryVars == <<part, vars, trustVars, ratchetVars, serviceVars, groupVars,
                 bookVars>>

Parts == {"network", "trust", "ratchet", "services", "group", "reputation",
          "books"}

LibraryInit ==
    /\ part \in Parts
    /\ Init /\ TrustInit /\ RatchetInit /\ ServiceInit /\ GroupInit
    /\ BookInit
    /\ part = "group" \/ friend_trust = [f \in Friends |-> 1]

\* The standing of a peer depends on the rounds it is reported on itself: one
\* peer shows what many do.
ReportOnMe ==
    \E responded \in SUBSET {Me}, late \in BOOLEAN : process_round({Me}, responded, late)

LibraryNext ==
    \/ part = "network" /\ Next
       /\ UNCHANGED <<part, trustVars, ratchetVars, serviceVars, groupVars, bookVars>>
    \/ part = "trust" /\ TrustNext
       /\ UNCHANGED <<part, vars, ratchetVars, serviceVars, groupVars, bookVars>>
    \/ part = "ratchet" /\ RatchetNext
       /\ UNCHANGED <<part, vars, trustVars, serviceVars, groupVars, bookVars>>
    \/ part = "services" /\ ServiceNext
       /\ UNCHANGED <<part, vars, trustVars, ratchetVars, groupVars, bookVars>>
    \/ part = "group" /\ RoundNext
       /\ UNCHANGED <<part, vars, trustVars, ratchetVars, serviceVars, bookVars>>
    \/ part = "reputation" /\ ReportOnMe
       /\ UNCHANGED <<part, vars, trustVars, ratchetVars, serviceVars, bookVars>>
    \/ part = "books" /\ BookNext
       /\ UNCHANGED <<part, vars, trustVars, ratchetVars, serviceVars, groupVars>>

LibrarySpec == LibraryInit /\ [][LibraryNext]_libraryVars

---------------------------------------------------------------------------
\* The types of all the objects: each holds what its struct declares, within
\* the bounds of the instance.
LibraryTypeOK ==
    TypeOK /\ TrustTypeOK /\ RatchetTypeOK /\ ServiceTypeOK /\ GroupTypeOK
    /\ BookTypeOK
===========================================================================
