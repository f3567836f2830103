--------------------------- MODULE DurableState ---------------------------
(***************************************************************************)
(* What a write-ahead log promises (storage.rs:3): while the client runs,   *)
(* the committed state changes by whole operations, one at a time; stopping *)
(* and starting the client, orderly or not, leaves it alone.                *)
(***************************************************************************)
CONSTANTS Empty,          \* the state of an empty data directory
          Step(_, _)      \* Step(s, t): some operation takes s to t

VARIABLES state,  \* the committed state
          up      \* is the client running?

Init == state = Empty /\ up = TRUE

Operate == /\ up
           /\ Step(state, state')
           /\ UNCHANGED up

StopOrStart == /\ up' = ~up
               /\ UNCHANGED state

Spec == Init /\ [][Operate \/ StopOrStart]_<<state, up>>
===========================================================================
