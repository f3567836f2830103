---------------------------- MODULE BridgeStore ----------------------------
(***************************************************************************)
(* Persistence of the social state: the write-ahead log and the checkpoints *)
(* of storage.rs, driven by F2fDcNetBridge (dcnet/f2f.rs), with the startup *)
(* and the shutdown of AppState (app.rs).                                   *)
(*                                                                          *)
(* A call of the bridge logs its operations one by one and applies them at  *)
(* the end; the log is where checkpoints are taken.  The process can die    *)
(* between any two steps.                                                   *)
(***************************************************************************)
EXTENDS SocialState

CONSTANTS Me,             \* the uid of a fresh identity
          Calls,          \* the operations the user performs: a set of <<op, ...>>
          CheckpointOps,  \* WalStore::checkpoint_ops (100)
          Faults,         \* which of AllFaults can happen
          MaxCalls,       \* bound on the calls
          MaxCrashes      \* bound on the crashes

\* "timer":  the 60 s checkpoint interval passes
\* "disk":   a write, a sync or a rename in the data directory fails
\* "torn":   power fails inside an append
\* "gap":    the process dies inside a checkpoint, between removing or replacing
\*           state.json and emptying the log
\* "rename": state.json cannot be replaced in one step (Windows)
\* "silent": the methods that log nothing are used
AllFaults == {"timer", "disk", "torn", "gap", "rename", "silent"}

ASSUME MeAssumption    == Me \in Uid
ASSUME CallsAssumption == Calls \subseteq Seq(Op) \ {<<>>}
ASSUME FaultAssumption == Faults \subseteq AllFaults
ASSUME BoundAssumption == CheckpointOps \in Nat /\ MaxCalls \in Nat
                              /\ MaxCrashes \in Nat

VARIABLES pc,         \* what the process is doing
          bridge,     \* the social state in memory
          call,       \* the operations of the call in progress
          logged,     \* how many of them are logged
          ops_since_checkpoint,
          elapsed,    \* last_checkpoint is checkpoint_interval or more ago
          wal,        \* wal.log: the lines that parse
          tail,       \* how wal.log ends
          snap,       \* state.json (Option)
          keys,       \* how many edge keys were ever generated
          calls, crashes

due == <<ops_since_checkpoint, elapsed>>
disk == <<wal, tail, snap>>
counters == <<calls, crashes>>
vars == <<pc, bridge, call, logged, due, disk, keys, counters>>

\* down: not running.  idle: between calls.  log: an operation is to be logged.
\* check: it has been, is a checkpoint due?  close: the client shuts down.
\* removed, renamed: inside checkpoint().
Phases == {"down", "idle", "log", "check", "close", "removed", "renamed"}

\* clean: with the end of a line.  part: with a part of a line that does not
\* parse.  whole: with a line that parses and lacks only its end.
Tails == {"clean", "part", "whole"}

Init ==
    /\ pc = "idle"
    /\ bridge = NewBridge(Me)
    /\ call = <<>>
    /\ logged = 0
    /\ ops_since_checkpoint = 0
    /\ elapsed = FALSE
    /\ wal = <<>>
    /\ tail = "clean"
    /\ snap = {}
    /\ keys = 0
    /\ calls = 0
    /\ crashes = 0

---------------------------------------------------------------------------
\* Apply operations in order; the i-th one may generate key number k + i.
ApplyAll(b, ops, k) ==
    LET after[i \in 0 .. Len(ops)] ==
            IF i = 0 THEN b ELSE apply_op_no_log(after[i - 1], ops[i], k + i)
    IN  after[Len(ops)]

\* The bridge AppState::new builds from the data directory.
Restored(k) ==
    ApplyAll(IF snap = {} THEN NewBridge(Me)
             ELSE apply_snapshot(CHOOSE s \in snap : TRUE), wal, k)

\* The early returns of the logged methods.
Permitted(o) ==
    CASE o.op = "update_edge_key" -> o.uid \in Uids(bridge)
      [] o.op = "create_channel" -> o.channel \notin ChannelNames(bridge)
      [] o.op = "join_channel" ->
             /\ o.uid \in Uids(bridge)
             /\ \E c \in bridge.channels :
                    c.name = o.channel /\ o.uid \notin c.participants
      [] o.op = "leave_channel" -> o.uid = bridge.my_uid
      [] OTHER -> TRUE

\* A method of the bridge is called.
Call(ops) ==
    /\ pc = "idle"
    /\ calls < MaxCalls
    /\ \A i \in DOMAIN ops : Permitted(ops[i])
    /\ pc' = "log"
    /\ call' = ops
    /\ calls' = calls + 1
    /\ UNCHANGED <<bridge, logged, due, disk, keys, crashes>>

\* last_checkpoint.elapsed() reaches checkpoint_interval.
Tick ==
    /\ "timer" \in Faults
    /\ pc # "down"
    /\ ~elapsed
    /\ elapsed' = TRUE
    /\ UNCHANGED <<pc, bridge, call, logged, ops_since_checkpoint, disk, keys,
                   counters>>

\* Mutant: the line stays in a buffer.
append_Buffered ==
    /\ pc = "log"
    /\ ops_since_checkpoint' = ops_since_checkpoint + 1
    /\ logged' = logged + 1
    /\ pc' = "check"
    /\ UNCHANGED <<bridge, call, elapsed, disk, keys, counters>>

\* The line of o goes to the end of the file, up to a point that leaves the end
\* as `upto` says.  After an unfinished line it becomes a part of that line, and
\* the two together do not parse.
Write(o, upto) ==
    /\ wal' = IF tail = "whole" THEN SubSeq(wal, 1, Len(wal) - 1)
              ELSE IF tail = "clean" /\ upto # "part" THEN Append(wal, o)
              ELSE wal
    /\ tail' = IF tail # "clean" /\ upto = "whole" THEN "part" ELSE upto

append ==
    /\ pc = "log"
    /\ Write(call[logged + 1], "clean")
    /\ ops_since_checkpoint' = ops_since_checkpoint + 1
    /\ logged' = logged + 1
    /\ pc' = "check"
    /\ UNCHANGED <<bridge, call, elapsed, snap, keys, counters>>

\* append returns Err: nothing, a part, or the whole line is in the file.
\* log_wal writes an error message and goes on.
AppendFails ==
    /\ "disk" \in Faults
    /\ pc = "log"
    /\ \/ UNCHANGED <<wal, tail>>
       \/ \E upto \in Tails : Write(call[logged + 1], upto)
    /\ logged' = logged + 1
    /\ pc' = "check"
    /\ UNCHANGED <<bridge, call, due, snap, keys, counters>>

\* log_wal (or the checkpoint of Drop) returns.  The call goes on with its
\* next operation, or changes the memory now that all of them are logged.
Proceed ==
    IF call = <<>> THEN
        /\ pc' = "down"
        /\ bridge' = NewBridge(Me)
        /\ UNCHANGED <<call, logged, keys>>
    ELSE IF logged < Len(call) THEN
        /\ pc' = "log"
        /\ UNCHANGED <<bridge, call, logged, keys>>
    ELSE
        /\ pc' = "idle"
        /\ bridge' = ApplyAll(bridge, call, keys)
        /\ keys' = keys + Len(call)
        /\ call' = <<>>
        /\ logged' = 0

should_checkpoint == ops_since_checkpoint >= CheckpointOps \/ elapsed

NoCheckpoint ==
    /\ pc = "check"
    /\ ~should_checkpoint
    /\ Proceed
    /\ UNCHANGED <<due, disk, counters>>

\* checkpoint is called by log_wal, or by Drop.
CheckpointDue == (pc = "check" /\ should_checkpoint) \/ pc = "close"

\* The snapshot could not be written, or, once state.json had been removed, not
\* put in its place either; checkpoint's result is ignored.
CheckpointFails ==
    /\ "disk" \in Faults
    /\ CheckpointDue \/ pc = "removed"
    /\ Proceed
    /\ UNCHANGED <<due, disk, counters>>

\* Rename over an existing file failed: remove it, then rename again or write
\* the file in place.
Remove ==
    /\ "rename" \in Faults
    /\ CheckpointDue
    /\ snap' = {}
    /\ pc' = "removed"
    /\ UNCHANGED <<bridge, call, logged, due, wal, tail, keys, counters>>

\* Mutant: the log is emptied although there is no snapshot.
Rename_Forgotten ==
    /\ CheckpointDue \/ pc = "removed"
    /\ pc' = "renamed"
    /\ UNCHANGED <<bridge, call, logged, due, disk, keys, counters>>

\* state.json.tmp, written and synced, becomes state.json.
Rename ==
    /\ CheckpointDue \/ pc = "removed"
    /\ snap' = {snapshot_bridge(bridge)}
    /\ pc' = "renamed"
    /\ UNCHANGED <<bridge, call, logged, due, wal, tail, keys, counters>>

\* The last step of checkpoint.
Truncate ==
    /\ pc = "renamed"
    /\ wal' = <<>>
    /\ tail' = "clean"
    /\ ops_since_checkpoint' = 0
    /\ elapsed' = FALSE
    /\ Proceed
    /\ UNCHANGED <<snap, counters>>

\* The log could not be opened, or not be synced after it was emptied:
\* checkpoint returns Err before it starts to count again.
TruncateFails ==
    /\ "disk" \in Faults
    /\ pc = "renamed"
    /\ \/ UNCHANGED <<wal, tail>>
       \/ wal' = <<>> /\ tail' = "clean"
    /\ Proceed
    /\ UNCHANGED <<due, snap, counters>>

Close ==
    /\ pc = "idle"
    /\ crashes < MaxCrashes
    /\ pc' = "close"
    /\ crashes' = crashes + 1
    /\ UNCHANGED <<bridge, call, logged, due, disk, keys, calls>>

\* The process dies; inside an append it can leave part of a line behind.
Crash ==
    /\ pc # "down"
    /\ pc \in {"removed", "renamed"} => "gap" \in Faults
    /\ crashes < MaxCrashes
    /\ \/ UNCHANGED <<wal, tail>>
       \/ /\ "torn" \in Faults
          /\ pc = "log"
          /\ \E upto \in {"part", "whole"} : Write(call[logged + 1], upto)
    /\ pc' = "down"
    /\ bridge' = NewBridge(Me)
    /\ call' = <<>>
    /\ logged' = 0
    /\ crashes' = crashes + 1
    /\ UNCHANGED <<due, snap, keys, calls>>

\* AppState::new: snapshot, then the log.
Start ==
    /\ pc = "down"
    /\ pc' = "idle"
    /\ bridge' = Restored(keys)
    /\ keys' = keys + Len(wal)
    /\ ops_since_checkpoint' = 0
    /\ elapsed' = FALSE
    /\ UNCHANGED <<call, logged, disk, counters>>

\* set_topic and sync_reputation_to_trust change the memory alone.
Silent ==
    /\ "silent" \in Faults
    /\ pc = "idle"
    /\ calls < MaxCalls
    /\ \/ \E name \in ChannelNames(bridge), topic \in Topic :
              bridge' = set_topic(bridge, name, topic)
       \/ \E level \in [Uids(bridge) -> 0 .. MaxTrust] :
              bridge' = sync_reputation_to_trust(bridge, level)
    /\ calls' = calls + 1
    /\ UNCHANGED <<pc, call, logged, due, disk, keys, crashes>>

Next ==
    \/ \E ops \in Calls : Call(ops)
    \/ append \/ AppendFails \/ NoCheckpoint
    \/ CheckpointFails \/ Remove \/ Rename \/ Truncate \/ TruncateFails
    \/ Tick \/ Close \/ Crash \/ Start \/ Silent

Spec == Init /\ [][Next]_vars

---------------------------------------------------------------------------
\* The values every variable ranges over.
TypeOK ==
    /\ pc \in Phases
    /\ bridge \in Bridge
    /\ call \in Seq(Op) /\ logged \in 0 .. Len(call)
    /\ ops_since_checkpoint \in Nat /\ elapsed \in BOOLEAN
    /\ wal \in Seq(Op) /\ tail \in Tails
    /\ snap \subseteq Snapshot /\ Cardinality(snap) <= 1
    /\ keys \in Nat /\ calls \in Nat /\ crashes \in Nat

\* What is compared before and after a restart: everything but the edge keys
\* and the groups, which have properties of their own.
View(b) ==
    [my_uid |-> b.my_uid,
     friends |-> {[uid |-> f.uid, trust |-> f.trust] : f \in b.friends},
     channels |-> {[name |-> c.name, topic |-> c.topic,
                    participants |-> c.participants] : c \in b.channels}]

\* A view as a bridge, to apply operations to it.
AsBridge(v) ==
    [my_uid |-> v.my_uid,
     friends |-> {[uid |-> f.uid, trust |-> f.trust, edge_key |-> 0] :
                     f \in v.friends},
     channels |-> {[name |-> c.name, topic |-> c.topic,
                    participants |-> c.participants, group |-> {}] :
                      c \in v.channels}]

Recoverable == View(Restored(keys))

\* Between calls a crash loses nothing: the data directory restores the state
\* the client has in memory (storage.rs:3).
Durable == pc = "idle" => Recoverable = View(bridge)

\* The same for the edge keys (storage.rs:23).
KeysDurable == pc = "idle" =>
    \A f \in bridge.friends, g \in Restored(keys).friends :
        f.uid = g.uid => f.edge_key = g.edge_key

\* A checkpoint that has emptied the log leaves on disk the memory it was taken
\* from, no more and no less, whatever failed or was lost before
\* (storage.rs:186).
CheckpointIsMemory ==
    [][pc = "renamed" /\ pc' # "renamed" /\ wal' = <<>>
           => Recoverable' = View(bridge)]_vars

\* A call whose operation could not be logged leaves the memory alone
\* (storage.rs:8, :132).
FailedAppendChangesNothing ==
    [][bridge' # bridge /\ pc = "check" => Recoverable = View(bridge')]_vars

\* While the client runs, its memory changes only by a call that went through
\* the log (f2f.rs:135).
EveryChangeLogged ==
    [][pc = "idle" /\ pc' = "idle" => bridge' = bridge]_vars

\* The DC-Net group of a channel and its participant list have the same
\* members (f2f.rs:746).
GroupsMatch ==
    \A c \in bridge.channels : c.group = c.participants

\* What the data directory stands for: the state a restart would rebuild, or,
\* while a checkpoint is being written, the memory it is taken from.
Committed ==
    IF pc \in {"removed", "renamed"} THEN View(bridge) ELSE Recoverable

\* The steps of DurableState.
StepOf(s, t) == \E ops \in Calls : \E i \in DOMAIN ops :
    t = View(apply_op_no_log(AsBridge(s), ops[i], 0))

Abstract == INSTANCE DurableState
                WITH Empty <- View(NewBridge(Me)), Step <- StepOf,
                     state <- Committed, up <- pc # "down"

\* The committed state changes by one whole operation at a time: no crash, no
\* restart and no checkpoint touches it (storage.rs:3, :189).
ImplementsDurableState == Abstract!Spec
===========================================================================
