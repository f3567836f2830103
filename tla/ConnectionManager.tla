------------------------- MODULE ConnectionManager -------------------------
(***************************************************************************)
(* The connections of net/connection_manager.rs, seen from both ends: the   *)
(* listener with its slots, the outbound connect, the map of active         *)
(* connections, and the reader and the writer task of each end.             *)
(*                                                                          *)
(* A connection is <<dialer, target, k>>, the k-th one the first node opens *)
(* to the second.  Frames are counted, not told apart: what the properties  *)
(* are about is whether they arrive.                                        *)
(***************************************************************************)
EXTENDS Integers, FiniteSets

CONSTANTS Node,       \* the uids
          Conn,       \* the connections that may be opened
          Known,      \* <<n, m>>: n has m's identity key on record
          MaxSlots,   \* MAX_CONNECTIONS
          QueueCap,   \* WRITER_QUEUE_CAP
          InboxCap,   \* capacity of the incoming queue
          Faults,     \* which of AllFaults can happen
          MaxFrames   \* bound on the frames each end accepts per connection

\* "reject": a handshake fails or times out
\* "break":  a connection breaks without either end being told
\* "idle":   a peer is silent for READ_IDLE_TIMEOUT_SECS
AllFaults == {"reject", "break", "idle"}

ASSUME ConnAssumption  == \A c \in Conn : /\ c \in Node \X Node \X Nat
                                          /\ c[1] # c[2]
ASSUME FiniteAssumption == IsFiniteSet(Conn)
ASSUME KnownAssumption == Known \subseteq Node \X Node
ASSUME CapAssumption   == /\ MaxSlots \in Nat /\ QueueCap \in Nat
                          /\ InboxCap \in Nat /\ MaxFrames \in Nat
ASSUME FaultAssumption == Faults \subseteq AllFaults

VARIABLES active,      \* per node: active_connections, one per peer
          conn_count,  \* per node: slots the listener has given out
          end,         \* per connection and node: the state of that end
          queue,       \* per connection and node: frames waiting for the writer
          wire,        \* per connection and node: frames it has written
          incoming,    \* per node: frames waiting for incoming_pump
          broken,      \* connections that broke
          accepted,    \* history: frames send_to accepted
          newest       \* history: per node, the last connection per peer

net  == <<queue, wire, incoming, accepted>>
vars == <<active, conn_count, end, net, broken, newest>>

\* new: not yet dialed.  hello: dialed and accepted, before the handshake.
\* shaken: the handshake succeeded at this end.  gone: over.  An open end has
\* its reader, its writer or both running.
EndState == {"new", "hello", "shaken", "both", "reader", "writer", "gone"}

Ends(c) == {c[1], c[2]}

Peer(n, c) == IF n = c[1] THEN c[2] ELSE c[1]

Reading(n, c) == end[c][n] \in {"both", "reader"}
Writing(n, c) == end[c][n] \in {"both", "writer"}

Init ==
    /\ active = [n \in Node |-> {}]
    /\ conn_count = [n \in Node |-> 0]
    /\ end = [c \in Conn |-> [n \in Ends(c) |-> "new"]]
    /\ queue = [c \in Conn |-> [n \in Ends(c) |-> 0]]
    /\ wire = [c \in Conn |-> [n \in Ends(c) |-> 0]]
    /\ incoming = [n \in Node |-> 0]
    /\ broken = {}
    /\ accepted = [c \in Conn |-> [n \in Ends(c) |-> 0]]
    /\ newest = [n \in Node |-> {}]

---------------------------------------------------------------------------
\* Mutant: one connection too many.
HasSlot_OneMore(n) == conn_count[n] <= MaxSlots

HasSlot(n) == conn_count[n] < MaxSlots

\* The listener accepts and takes a slot, or refuses before the handshake.
Dial(c) ==
    /\ \A n \in Ends(c) : end[c][n] = "new"
    /\ IF HasSlot(c[2])
       THEN /\ end' = [end EXCEPT ![c] = [n \in Ends(c) |-> "hello"]]
            /\ conn_count' = [conn_count EXCEPT ![c[2]] = @ + 1]
       ELSE /\ end' = [end EXCEPT ![c] = [n \in Ends(c) |-> "gone"]]
            /\ UNCHANGED conn_count
    /\ UNCHANGED <<active, net, broken, newest>>

\* Replace what a map keyed by the peer's uid holds for this peer.
Inserted(map, n, c) == {d \in map : Peer(n, d) # Peer(n, c)} \cup {c}

\* The target's end answers the challenge; the dialer's end checks the answer.
\* What is needed may have arrived before the connection broke.  Until then a
\* target that answered is still there: it waits for ninety seconds, the dialer
\* for ten.
Handshake(n, c) ==
    /\ end[c][n] = "hello"
    /\ n = c[1] => \/ end[c][c[2]] \notin {"hello", "gone"}
                   \/ end[c][c[2]] = "gone" /\ c \in broken
    /\ end' = [end EXCEPT ![c][n] = "shaken"]
    /\ UNCHANGED <<active, conn_count, net, broken, newest>>

\* Both tasks start; a PeerWriter the map held for the peer is dropped.
Open(n, c) ==
    /\ end[c][n] = "shaken"
    /\ active' = [active EXCEPT ![n] = Inserted(@, n, c)]
    /\ newest' = [newest EXCEPT ![n] = Inserted(@, n, c)]
    /\ end' = [end EXCEPT ![c][n] = "both"]
    /\ UNCHANGED <<conn_count, net, broken>>

\* Mutant: the slot is given back when the first half finishes.
Release_Early(n, c, after) ==
    conn_count' = [conn_count EXCEPT ![n] =
        IF n = c[2] /\ end[c][n] \in {"hello", "both"} THEN @ - 1 ELSE @]

\* The guard of an inbound connection is dropped when its task ends.
Release(n, c, after) ==
    conn_count' = [conn_count EXCEPT ![n] =
        IF n = c[2] /\ after = "gone" THEN @ - 1 ELSE @]

\* Mutant: whatever connection the peer has is removed.
remove_connection_Any(n, c) ==
    active' = [active EXCEPT ![n] = {d \in @ : Peer(n, d) # Peer(n, c)}]

\* Mutant: the entry stays.
remove_connection_Not(n, c) == UNCHANGED active

\* Only the entry of this very connection.
remove_connection(n, c) == active' = [active EXCEPT ![n] = @ \ {c}]

\* The handshake fails here: no session, a rejected key, another uid than the
\* one asked for, or ten seconds passed.  The stream is dropped.
HandshakeFails(n, c) ==
    /\ end[c][n] = "hello"
    /\ \/ "reject" \in Faults
       \/ end[c][Peer(n, c)] = "gone"
       \/ c \in broken
    /\ end' = [end EXCEPT ![c][n] = "gone"]
    /\ Release(n, c, "gone")
    /\ UNCHANGED <<active, net, broken, newest>>

---------------------------------------------------------------------------
\* send_to, and broadcast_to for one peer: try_send on the connection the map
\* holds.  Without one, or when its queue is full, the frame is not taken.
send_to(n, c) ==
    /\ c \in active[n]
    /\ Writing(n, c)
    /\ accepted[c][n] < MaxFrames
    /\ queue[c][n] < QueueCap
    /\ queue' = [queue EXCEPT ![c][n] = @ + 1]
    /\ accepted' = [accepted EXCEPT ![c][n] = @ + 1]
    /\ UNCHANGED <<active, conn_count, end, wire, incoming, broken, newest>>

WriteFrame(n, c) ==
    /\ Writing(n, c)
    /\ queue[c][n] > 0
    /\ end[c][Peer(n, c)] # "gone"
    /\ c \notin broken
    /\ queue' = [queue EXCEPT ![c][n] = @ - 1]
    /\ wire' = [wire EXCEPT ![c][n] = @ + 1]
    /\ UNCHANGED <<active, conn_count, end, incoming, broken, accepted, newest>>

\* One task of an end returns: it cleans the map up, and with the second one
\* the connection's task ends.
Finish(n, c, half) ==
    LET after == IF end[c][n] = half THEN "gone"
                 ELSE IF half = "reader" THEN "writer" ELSE "reader"
    IN  /\ end' = [end EXCEPT ![c][n] = after]
        /\ Release(n, c, after)
        /\ remove_connection(n, c)

\* A write fails or times out; what is still queued is dropped.
WriteFails(n, c) ==
    /\ Writing(n, c)
    /\ queue[c][n] > 0
    /\ end[c][Peer(n, c)] = "gone" \/ c \in broken
    /\ Finish(n, c, "writer")
    /\ queue' = [queue EXCEPT ![c][n] = 0]
    /\ UNCHANGED <<wire, incoming, broken, accepted, newest>>

\* Mutant: what is queued when the handle is dropped is not sent.
Drained_Not(n, c) == TRUE

Drained(n, c) == queue[c][n] = 0

\* rx.recv returns None: the map no longer holds the only sender.
WriterDone(n, c) ==
    /\ Writing(n, c)
    /\ c \notin active[n]
    /\ Drained(n, c)
    /\ Finish(n, c, "writer")
    /\ UNCHANGED <<net, broken, newest>>

\* A frame is read, and forwarded if the session may send it and the queue has
\* room.  keepalive: it is a Ping or a Pong.  valid: it names the session's uid.
ReadFrame(n, c) ==
    /\ Reading(n, c)
    /\ wire[c][Peer(n, c)] > 0
    /\ c \notin broken
    /\ wire' = [wire EXCEPT ![c][Peer(n, c)] = @ - 1]
    /\ \E keepalive, valid \in BOOLEAN :
           incoming' = [incoming EXCEPT ![n] =
               IF /\ valid
                  /\ <<n, Peer(n, c)>> \in Known \/ keepalive
                  /\ @ < InboxCap
               THEN @ + 1 ELSE @]
    /\ UNCHANGED <<active, conn_count, end, queue, broken, accepted, newest>>

\* Nothing more can come: the peer's write half is closed.
AtEof(n, c) == /\ wire[c][Peer(n, c)] = 0
               /\ end[c][Peer(n, c)] \in {"reader", "gone"}
               /\ c \notin broken

\* The reader's loop ends: end of stream, or silence for too long.  A frame that
\* is too long, does not decrypt or repeats a number ends it too; between two
\* clients that takes a stream that is damaged, and it counts as broken.
ReaderDone(n, c) ==
    /\ Reading(n, c)
    /\ \/ AtEof(n, c)
       \/ c \in broken
       \/ "idle" \in Faults /\ wire[c][Peer(n, c)] = 0
    /\ Finish(n, c, "reader")
    /\ UNCHANGED <<net, broken, newest>>

\* incoming_pump drains the queue.
Drain(n) ==
    /\ incoming[n] > 0
    /\ incoming' = [incoming EXCEPT ![n] = 0]
    /\ UNCHANGED <<active, conn_count, end, queue, wire, broken, accepted,
                   newest>>

\* The network stops carrying this connection.
Break(c) ==
    /\ "break" \in Faults
    /\ c \notin broken
    /\ \E n \in Ends(c) : end[c][n] \notin {"new", "gone"}
    /\ broken' = broken \cup {c}
    /\ UNCHANGED <<active, conn_count, end, net, newest>>

Task(n, c) == \/ Handshake(n, c) \/ Open(n, c)
              \/ WriteFrame(n, c) \/ WriteFails(n, c) \/ WriterDone(n, c)
              \/ ReadFrame(n, c) \/ ReaderDone(n, c)

Next ==
    \/ \E c \in Conn : Dial(c) \/ Break(c)
    \/ \E c \in Conn : \E n \in Ends(c) :
           Task(n, c) \/ HandshakeFails(n, c) \/ send_to(n, c)
    \/ \E n \in Node : Drain(n)

Spec == Init /\ [][Next]_vars

\* The runtime keeps polling the tasks, and every wait in them has a timeout.
FairSpec ==
    /\ Spec
    /\ \A c \in Conn : \A n \in Ends(c) :
           /\ WF_vars(Handshake(n, c) \/ HandshakeFails(n, c))
           /\ WF_vars(Open(n, c))
           /\ WF_vars(WriteFrame(n, c) \/ WriteFails(n, c) \/ WriterDone(n, c))
           /\ WF_vars(ReadFrame(n, c) \/ ReaderDone(n, c))

---------------------------------------------------------------------------
\* The values every variable ranges over.
TypeOK ==
    /\ active \in [Node -> SUBSET Conn]
    /\ conn_count \in [Node -> 0 .. MaxSlots]
    /\ \A c \in Conn : /\ end[c] \in [Ends(c) -> EndState]
                       /\ queue[c] \in [Ends(c) -> 0 .. QueueCap]
                       /\ wire[c] \in [Ends(c) -> 0 .. MaxFrames]
                       /\ accepted[c] \in [Ends(c) -> 0 .. MaxFrames]
    /\ incoming \in [Node -> 0 .. InboxCap]
    /\ broken \subseteq Conn
    /\ newest \in [Node -> SUBSET Conn]

Alive(n, c) == end[c][n] \notin {"new", "gone"}

\* The listener's counter is the number of inbound connections that are not
\* over, handshakes included: no path through a connection's life releases its
\* slot twice or never (connection_manager.rs:81).
SlotsExact ==
    \A n \in Node : conn_count[n] =
        Cardinality({c \in Conn : c[2] = n /\ Alive(n, c)})

\* The newest connection to a peer is the one send_to uses as long as both its
\* tasks run, whatever older connections to that peer are being cleaned up
\* (connection_manager.rs:204).
NewestIsActive ==
    \A n \in Node : \A c \in newest[n] : end[c][n] = "both" => c \in active[n]

\* The end of a connection's reader means that nothing the peer's send_to
\* accepted for it is still under way, unless the connection failed: replacing
\* a connection loses no frame.
NothingLeftBehind ==
    \A c \in Conn : \A n \in Ends(c) :
        end[c][n] \in {"writer", "gone"} /\ c \notin broken
            => queue[c][Peer(n, c)] = 0 /\ wire[c][Peer(n, c)] = 0

\* A connection that was replaced, or whose peer is gone, is over in the end
\* at both ends: it does not hold its slot for ever (connection_manager.rs:82).
ReplacedConnectionsEnd ==
    \A c \in Conn : \A n \in Ends(c) :
        (Alive(n, c) /\ (\/ end[c][Peer(n, c)] = "gone"
                         \/ end[c][n] = "both" /\ c \notin active[n]))
            ~> end[c][n] = "gone"

\* Every frame send_to accepts is read by the peer or its connection fails.
AcceptedFramesArrive ==
    \A c \in Conn : \A n \in Ends(c) :
        queue[c][n] > 0 ~> (c \in broken \/ (queue[c][n] = 0 /\ wire[c][n] = 0))

\* At no time are more than MAX_CONNECTIONS connections established at a node
\* (connection_manager.rs:57).
GlobalCap ==
    \A n \in Node :
        Cardinality({c \in Conn : n \in Ends(c) /\ end[c][n] = "both"})
            <= MaxSlots

\* From some time on a node that has opened a connection to a peer has one it
\* can use, if none fails: a newer connection with the same uid is not taken
\* down with the older one (connection_manager.rs:204).
StaysConnected ==
    \A n \in Node : <>[](newest[n] # {} => active[n] # {})
===========================================================================
