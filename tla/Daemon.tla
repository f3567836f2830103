------------------------------- MODULE Daemon -------------------------------
(***************************************************************************)
(* The threads of the daemon (main.rs) and what they wait for: the mutexes  *)
(* they share and the bounded event channel of AppState (app.rs).           *)
(*                                                                          *)
(* A thread works off jobs.  A job is the sequence of the lock, unlock and  *)
(* channel operations its code performs; everything else it does, which the *)
(* other modules describe, lies between two of them.                        *)
(***************************************************************************)
EXTENDS Integers, Sequences

CONSTANTS EventCap,  \* EVENT_CHANNEL_CAP
          Consumer,  \* does anything call poll_events?
          MaxJobs    \* bound on the jobs of each thread but the consumer

ASSUME CapAssumption      == EventCap \in Nat /\ MaxJobs \in Nat
ASSUME ConsumerAssumption == Consumer \in BOOLEAN

Thread == {"incoming_pump", "outgoing_pump", "web", "connection"}
              \cup (IF Consumer THEN {"consumer"} ELSE {})

\* AppState, its ConnectionManager, the two maps inside it, incoming_rx.
Mutex == {"shared", "connection_manager", "active_connections",
          "known_peer_keys", "incoming_rx"}

Lock(m)   == <<"lock", m>>
Unlock(m) == <<"unlock", m>>
Emit      == <<"emit">>
Poll      == <<"poll">>
Push      == <<"push">>

\* A thread inside the mutexes ms, from the outermost.
Nested(ms, body) ==
    [i \in 1 .. Len(ms) |-> Lock(ms[i])] \o body \o
    [i \in 1 .. Len(ms) |-> Unlock(ms[Len(ms) + 1 - i])]

VARIABLES holder,    \* per mutex: who holds it (Option)
          todo,      \* per thread: the rest of its job
          jobs,      \* per thread: jobs begun
          events,    \* length of the event channel
          outgoing   \* length of the outgoing channel, which has no bound

vars == <<holder, todo, jobs, events, outgoing>>

Init ==
    /\ holder = [m \in Mutex |-> {}]
    /\ todo = [t \in Thread |-> <<>>]
    /\ jobs = [t \in Thread |-> 0]
    /\ events = 0
    /\ outgoing = 0

---------------------------------------------------------------------------
drain_incoming == Nested(<<"incoming_rx">>, <<>>)

\* is_connected, asked with the AppState locked.
is_connected == Nested(<<"connection_manager", "active_connections">>, <<>>)

known_keys == Nested(<<"connection_manager", "known_peer_keys">>, <<>>)

\* handle_relay_message for a message to us, then its event.
deliver_relay == Nested(<<"shared">>, known_keys) \o Nested(<<"shared">>, <<Emit>>)

\* handle_relay_message for a message to somebody else.
forward_relay == Nested(<<"shared">>, known_keys \o is_connected \o <<Push>>)

\* A round message, then what the engine has to send.
handle_round ==
    Nested(<<"shared">>, known_keys) \o Nested(<<"shared">>, <<Push>>)

\* Mutant: the pump reaches its connections through the AppState.
outgoing_job_Shared ==
    Nested(<<"connection_manager", "shared", "active_connections">>, <<>>)

outgoing_job == Nested(<<"connection_manager", "active_connections">>, <<>>)

\* /api/status and /api/peers.
web_job ==
    Nested(<<"shared", "connection_manager", "active_connections">>, <<>>)

\* /api/connect: the console's threads are not the runtime's, so the handler finds
\* no runtime for the task that would connect, and answers so.
web_connect == Nested(<<"shared">>, <<>>)

\* A handshake, the entry of a new connection, the removal of a dead one.
connection_job ==
    Nested(<<"known_peer_keys">>, <<>>) \o Nested(<<"active_connections">>, <<>>)

poll_job == Nested(<<"shared">>, <<Poll>>)

\* The jobs each thread may be given.
JobsOf(t) ==
    CASE t = "incoming_pump" -> {drain_incoming \o deliver_relay,
                                 drain_incoming \o forward_relay,
                                 drain_incoming \o handle_round}
      [] t = "outgoing_pump" -> {outgoing_job}
      [] t = "web" -> {web_job, web_connect}
      [] t = "connection" -> {connection_job}
      [] t = "consumer" -> {poll_job}

\* The outgoing pump waits for a message, the others for the outside world.  A
\* poll that finds nothing is left out.
Begin(t, job) ==
    /\ todo[t] = <<>>
    /\ t # "consumer" => jobs[t] < MaxJobs
    /\ t = "outgoing_pump" => outgoing > 0
    /\ t = "consumer" => events > 0
    /\ todo' = [todo EXCEPT ![t] = job]
    /\ jobs' = [jobs EXCEPT ![t] = IF t = "consumer" THEN 0 ELSE @ + 1]
    /\ outgoing' = IF t = "outgoing_pump" THEN outgoing - 1 ELSE outgoing
    /\ UNCHANGED <<holder, events>>

AtOp(t, op) == todo[t] # <<>> /\ Head(todo[t])[1] = op

Advance(t) == /\ todo' = [todo EXCEPT ![t] = Tail(@)]
              /\ UNCHANGED jobs

Acquire(t) ==
    /\ AtOp(t, "lock")
    /\ holder[Head(todo[t])[2]] = {}
    /\ holder' = [holder EXCEPT ![Head(todo[t])[2]] = {t}]
    /\ Advance(t)
    /\ UNCHANGED <<events, outgoing>>

Release(t) ==
    /\ AtOp(t, "unlock")
    /\ holder' = [holder EXCEPT ![Head(todo[t])[2]] = {}]
    /\ Advance(t)
    /\ UNCHANGED <<events, outgoing>>

\* SyncSender::send waits while the channel is full.
emit(t) ==
    /\ AtOp(t, "emit")
    /\ events < EventCap
    /\ events' = events + 1
    /\ Advance(t)
    /\ UNCHANGED <<holder, outgoing>>

poll_events(t) ==
    /\ AtOp(t, "poll")
    /\ events' = 0
    /\ Advance(t)
    /\ UNCHANGED <<holder, outgoing>>

\* outgoing_tx.send.
SendOut(t) ==
    /\ AtOp(t, "push")
    /\ outgoing' = outgoing + 1
    /\ Advance(t)
    /\ UNCHANGED <<holder, events>>

Step(t) == Acquire(t) \/ Release(t) \/ emit(t) \/ poll_events(t) \/ SendOut(t)

Next == \E t \in Thread : Step(t) \/ \E job \in JobsOf(t) : Begin(t, job)

Spec == Init /\ [][Next]_vars

\* Threads are scheduled, a free mutex is given to a thread that waits for it,
\* the outgoing pump takes what is in its channel, a consumer keeps polling.
FairSpec ==
    /\ Spec
    /\ \A t \in Thread : WF_vars(Step(t))
    /\ WF_vars(Begin("outgoing_pump", outgoing_job))
    /\ Consumer => WF_vars(Begin("consumer", poll_job))

---------------------------------------------------------------------------
\* Every job is finished: nobody waits for ever for a mutex or for room in a
\* channel while holding what the others need (main.rs:65, app.rs:156).
JobsFinish == \A t \in Thread : todo[t] # <<>> ~> todo[t] = <<>>
===========================================================================
