---------------------- MODULE ConnectionManagerProofs ----------------------
(***************************************************************************)
(* The safety of the connections, for every set of nodes and connections,   *)
(* every capacity and every combination of faults.                          *)
(*                                                                          *)
(* The counter of the listener stays between zero and MAX_CONNECTIONS only  *)
(* because it is exact: the type of conn_count and SlotsExact are proved    *)
(* together.  The bound on the frames on the wire needs that what is queued *)
(* or written was accepted.                                                 *)
(***************************************************************************)
EXTENDS ConnectionManager, FiniteSetTheorems, TLAPS

\* What is queued at an end or written by it was accepted there.
FramesCounted ==
    \A c \in Conn : \A n \in Ends(c) :
        queue[c][n] + wire[c][n] <= accepted[c][n]

\* The shape of the state of the ends: every connection has exactly two.
Shape ==
    /\ end = [c \in Conn |-> [n \in Ends(c) |-> end[c][n]]]
    /\ queue = [c \in Conn |-> [n \in Ends(c) |-> queue[c][n]]]
    /\ wire = [c \in Conn |-> [n \in Ends(c) |-> wire[c][n]]]
    /\ accepted = [c \in Conn |-> [n \in Ends(c) |-> accepted[c][n]]]

\* A node's map of newest connections holds connections of its own.
NewestOwn == \A n \in Node : \A c \in newest[n] : n \in Ends(c)

ConnectionInv ==
    /\ Shape
    /\ TypeOK
    /\ FramesCounted
    /\ NewestOwn
    /\ SlotsExact
    /\ NewestIsActive

---------------------------------------------------------------------------
\* The two ends of a connection are different nodes, each the other's peer.
LEMMA EndFacts ==
    ASSUME NEW c \in Conn
    PROVE  /\ c[1] \in Node /\ c[2] \in Node /\ c[1] # c[2]
           /\ Ends(c) \subseteq Node
           /\ \A n \in Ends(c) : /\ Peer(n, c) \in Ends(c)
                                 /\ Peer(n, c) # n
BY ConnAssumption, Zenon DEF Ends, Peer

\* The inbound connections of a node that are not over.
Inbound(n) == {c \in Conn : c[2] = n /\ Alive(n, c)}

\* Both tables start out empty and nobody holds a slot.
LEMMA InitOK == Init => ConnectionInv
<1> SUFFICES ASSUME Init PROVE ConnectionInv
  BY Zenon
<1> USE DEF Init
<1>1. Shape
  BY Zenon DEF Shape
<1>2. TypeOK
  BY CapAssumption DEF TypeOK, EndState
<1>3. FramesCounted
  BY DEF FramesCounted
<1>4. SlotsExact
  <2> SUFFICES ASSUME NEW n \in Node
               PROVE  conn_count[n] = Cardinality(Inbound(n))
    BY Zenon DEF SlotsExact, Inbound
  <2>1. Inbound(n) = {}
    BY Zenon DEF Inbound, Alive, Ends
  <2> QED BY <2>1, FS_EmptySet, Zenon
<1>5. NewestIsActive
  BY Zenon DEF NewestIsActive
<1>6. NewestOwn
  BY Zenon DEF NewestOwn
<1> QED BY <1>1, <1>2, <1>3, <1>4, <1>5, <1>6, Zenon DEF ConnectionInv

\* The set the counter is compared with is finite.
LEMMA InboundFinite ==
    ASSUME NEW n \in Node
    PROVE  /\ IsFiniteSet(Inbound(n))
           /\ Cardinality(Inbound(n)) \in Nat
BY FiniteAssumption, FS_Subset, FS_CardinalityType, Zenon DEF Inbound

\* One end of a connection moves on: the slot is given back exactly when it is
\* the listener's end and it is over.
LEMMA SlotFollowsEnd ==
    ASSUME ConnectionInv, NEW c \in Conn, NEW n \in Ends(c),
           NEW s \in EndState, s # "new", Alive(n, c),
           end' = [end EXCEPT ![c][n] = s], Release(n, c, s)
    PROVE  SlotsExact' /\ conn_count' \in [Node -> 0 .. MaxSlots]
<1> USE DEF ConnectionInv
<1>1. n \in Node /\ Ends(c) \subseteq Node
  BY EndFacts, Zenon
<1>2. /\ conn_count \in [Node -> 0 .. MaxSlots]
      /\ end[c] \in [Ends(c) -> EndState]
  BY Zenon DEF TypeOK
<1>3. \A d \in Conn : \A m \in Ends(d) :
          end'[d][m] = IF d = c /\ m = n THEN s ELSE end[d][m]
  BY <1>2, Zenon DEF Shape
<1>4. ASSUME NEW m \in Node
      PROVE  /\ conn_count'[m] = Cardinality(Inbound(m)')
             /\ conn_count'[m] \in 0 .. MaxSlots
  <2>1. conn_count[m] = Cardinality(Inbound(m))
    BY Zenon DEF SlotsExact, Inbound
  <2>2. \A d \in Conn : d[2] = m =>
            (Alive(m, d)' <=> IF d = c /\ m = n THEN s # "gone" ELSE Alive(m, d))
    BY <1>3, ZenonT(40) DEF Alive, Ends
  <2>3. CASE m = n /\ n = c[2] /\ s = "gone"
    <3>1. Inbound(m)' = Inbound(m) \ {c}
      BY <2>2, <2>3, Zenon DEF Inbound
    <3>2. c \in Inbound(m)
      BY <2>3, Zenon DEF Inbound
    <3>3. Cardinality(Inbound(m)') = Cardinality(Inbound(m)) - 1
      BY <3>1, <3>2, InboundFinite, FS_RemoveElement, ZenonT(40)
    <3>4. conn_count'[m] = conn_count[m] - 1
      BY <2>3, <1>1, <1>2, Zenon DEF Release
    <3>5. Cardinality(Inbound(m)') \in Nat
      BY <3>1, InboundFinite, FS_Subset, FS_CardinalityType, Zenon
    <3>6. conn_count[m] \in 0 .. MaxSlots
      BY <1>2, Zenon
    <3> QED BY <2>1, <3>3, <3>4, <3>5, <3>6, CapAssumption
  <2>4. CASE ~(m = n /\ n = c[2] /\ s = "gone")
    <3>1. Inbound(m)' = Inbound(m)
      BY <2>2, <2>4, Zenon DEF Inbound
    <3>2. conn_count'[m] = conn_count[m]
      BY <2>4, <1>1, <1>2, Zenon DEF Release
    <3> QED BY <2>1, <3>1, <3>2, <1>2, Zenon
  <2> QED BY <2>3, <2>4, Zenon
<1>5. conn_count' \in [Node -> 0 .. MaxSlots]
  <2>1. conn_count' = [m \in Node |-> conn_count'[m]]
    BY <1>2, Zenon DEF Release
  <2> QED BY <2>1, <1>4, Zenon
<1> QED BY <1>4, <1>5, Zenon DEF SlotsExact, Inbound

\* A table with a value of S per connection and end.
Table(f, S) ==
    /\ f = [d \in Conn |-> [m \in Ends(d) |-> f[d][m]]]
    /\ \A d \in Conn : f[d] \in [Ends(d) -> S]

\* g is the table f with the value v at one end.
Changed(f, g, c, n, v) ==
    \A d \in Conn : \A m \in Ends(d) :
        g[d][m] = IF d = c /\ m = n THEN v ELSE f[d][m]

\* It stays one when the value of one end changes.
LEMMA PointSet ==
    ASSUME NEW f, NEW S, NEW c \in Conn, NEW n \in Ends(c), NEW v \in S,
           Table(f, S)
    PROVE  /\ Table([f EXCEPT ![c][n] = v], S)
           /\ Changed(f, [f EXCEPT ![c][n] = v], c, n, v)
<1> DEFINE g == [f EXCEPT ![c][n] = v]
<1>1. g = [d \in Conn |-> IF d = c THEN [f[c] EXCEPT ![n] = v] ELSE f[d]]
  BY Zenon DEF Table
<1> HIDE DEF g
<1>2. \A d \in Conn : g[d] \in [Ends(d) -> S]
  BY <1>1, Zenon DEF Table
<1>3. \A d \in Conn : g[d] = [m \in Ends(d) |-> g[d][m]]
  BY <1>2, Zenon
<1>4. g = [d \in Conn |-> g[d]]
  BY <1>1, Zenon
<1>5. g = [d \in Conn |-> [m \in Ends(d) |-> g[d][m]]]
  BY <1>3, <1>4, Zenon
<1>6. ASSUME NEW d \in Conn, NEW m \in Ends(d)
      PROVE  g[d][m] = IF d = c /\ m = n THEN v ELSE f[d][m]
  <2>1. CASE d = c
    <3>1. g[d] = [f[c] EXCEPT ![n] = v] /\ f[c] \in [Ends(c) -> S]
      BY <1>1, <2>1, Zenon DEF Table
    <3> QED BY <3>1, <2>1, Zenon
  <2>2. CASE d # c
    BY <1>1, <2>2, Zenon
  <2> QED BY <2>1, <2>2, Zenon
<1>7. Table(g, S)
  BY <1>2, <1>5, Zenon DEF Table
<1>8. Changed(f, g, c, n, v)
  BY <1>6, Zenon DEF Changed
<1> QED BY <1>7, <1>8, Zenon DEF g

\* The parts of the invariant about frames, as one predicate of the tables.
NetOK ==
    /\ Table(queue, 0 .. QueueCap)
    /\ Table(wire, 0 .. MaxFrames)
    /\ Table(accepted, 0 .. MaxFrames)
    /\ incoming \in [Node -> 0 .. InboxCap]
    /\ FramesCounted

\* The part about the ends, the slots and the two maps.
EndsOK ==
    /\ Table(end, EndState)
    /\ active \in [Node -> SUBSET Conn]
    /\ conn_count \in [Node -> 0 .. MaxSlots]
    /\ broken \subseteq Conn
    /\ newest \in [Node -> SUBSET Conn]
    /\ NewestOwn
    /\ SlotsExact
    /\ NewestIsActive

\* The two parts together are the invariant, before a step and after it.
LEMMA Parts == ConnectionInv <=> NetOK /\ EndsOK
BY Zenon DEF ConnectionInv, Shape, TypeOK, NetOK, EndsOK, Table

\* The same of the next state.
LEMMA PartsAfter == NetOK' /\ EndsOK' => ConnectionInv'
BY Zenon DEF ConnectionInv, Shape, TypeOK, NetOK, EndsOK, Table

\* A step that leaves a part of the state alone leaves its invariant alone.
LEMMA NetUntouched == NetOK /\ UNCHANGED net => NetOK'
BY Zenon DEF NetOK, net, FramesCounted, Table

\* The same for the other part.
LEMMA EndsUntouched ==
    EndsOK /\ UNCHANGED <<active, conn_count, end, broken, newest>> => EndsOK'
BY Zenon DEF EndsOK, NewestOwn, SlotsExact, NewestIsActive, Alive, Table

---------------------------------------------------------------------------
\* An end of a connection that moves on, but does not open, leaves every other
\* end and every other connection in the maps as they are.
LEMMA EndMovesOn ==
    ASSUME ConnectionInv, NEW c \in Conn, NEW n \in Ends(c),
           NEW s \in EndState, s # "new", s # "both", Alive(n, c),
           end' = [end EXCEPT ![c][n] = s], Release(n, c, s),
           active' = active \/ remove_connection(n, c),
           UNCHANGED <<broken, newest>>
    PROVE  EndsOK'
<1> USE DEF EndsOK
<1>1. EndsOK /\ n \in Node
  BY Parts, EndFacts, Zenon
<1>2. SlotsExact' /\ conn_count' \in [Node -> 0 .. MaxSlots]
  BY SlotFollowsEnd, Zenon
<1>3. Table(end', EndState) /\ Changed(end, end', c, n, s)
  BY <1>1, PointSet, Zenon
<1>4. /\ active' \in [Node -> SUBSET Conn]
      /\ \A m \in Node : \A d \in active[m] :
             (d # c \/ m # n) => d \in active'[m]
  BY <1>1, Zenon DEF remove_connection
<1>5. NewestIsActive'
  <2> SUFFICES ASSUME NEW m \in Node, NEW d \in newest[m], end'[d][m] = "both"
               PROVE  d \in active'[m]
    BY Zenon DEF NewestIsActive
  <2>1. d \in Conn /\ m \in Ends(d)
    BY <1>1, Zenon DEF NewestOwn
  <2>2. end[d][m] = "both" /\ (d # c \/ m # n)
    BY <2>1, <1>3 DEF Changed
  <2>3. d \in active[m]
    BY <1>1, <2>2, Zenon DEF NewestIsActive
  <2> QED BY <2>2, <2>3, <1>4, Zenon
<1>6. NewestOwn'
  BY <1>1, Zenon DEF NewestOwn
<1> QED BY <1>1, <1>2, <1>3, <1>4, <1>5, <1>6, Zenon

\* A task of an end that returns.
LEMMA FinishOK ==
    ASSUME ConnectionInv, NEW c \in Conn, NEW n \in Ends(c),
           NEW half \in {"reader", "writer"}, end[c][n] \in {"both", half},
           Finish(n, c, half), UNCHANGED <<broken, newest>>
    PROVE  EndsOK'
<1> DEFINE s == IF end[c][n] = half THEN "gone"
                ELSE IF half = "reader" THEN "writer" ELSE "reader"
<1>1. /\ end' = [end EXCEPT ![c][n] = s]
      /\ Release(n, c, s)
      /\ remove_connection(n, c)
  BY Zenon DEF Finish
<1>2. s \in EndState /\ s # "new" /\ s # "both"
  BY Zenon DEF EndState
<1>3. Alive(n, c)
  BY Zenon DEF Alive
<1> HIDE DEF s
<1> QED BY <1>1, <1>2, <1>3, EndMovesOn, Zenon

---------------------------------------------------------------------------
\* The listener takes a slot together with the connection, or neither.
LEMMA DialOK ==
    ASSUME ConnectionInv, NEW c \in Conn, Dial(c)
    PROVE  ConnectionInv'
<1> DEFINE s == IF HasSlot(c[2]) THEN "hello" ELSE "gone"
<1>1. NetOK /\ EndsOK /\ c[2] \in Node /\ c[2] \in Ends(c)
  BY Parts, EndFacts, Zenon DEF Ends
<1>2. /\ \A n \in Ends(c) : end[c][n] = "new"
      /\ end' = [end EXCEPT ![c] = [n \in Ends(c) |-> s]]
      /\ UNCHANGED <<active, net, broken, newest>>
  BY Zenon DEF Dial
<1>3. conn_count' = IF HasSlot(c[2])
                    THEN [conn_count EXCEPT ![c[2]] = @ + 1] ELSE conn_count
  BY Zenon DEF Dial
<1>s. s \in {"hello", "gone"} /\ s \in EndState
  BY Zenon DEF EndState
<1>h. s = "hello" <=> HasSlot(c[2])
  BY Zenon
<1> HIDE DEF s
<1>4. Table(end, EndState) /\ conn_count \in [Node -> 0 .. MaxSlots]
  BY <1>1, Zenon DEF EndsOK
<1>5. end' = [d \in Conn |-> IF d = c THEN [n \in Ends(c) |-> s] ELSE end[d]]
  BY <1>2, <1>4, Zenon DEF Table
<1>6. Table(end', EndState)
  <2>1. \A d \in Conn : end'[d] \in [Ends(d) -> EndState]
    BY <1>4, <1>5, <1>s, Zenon DEF Table
  <2>2. \A d \in Conn : end'[d] = [m \in Ends(d) |-> end'[d][m]]
    BY <2>1, Zenon
  <2>3. end' = [d \in Conn |-> end'[d]]
    BY <1>5, Zenon
  <2> QED BY <2>1, <2>2, <2>3, Zenon DEF Table
<1>7. \A d \in Conn : \A m \in Ends(d) :
          end'[d][m] = IF d = c THEN s ELSE end[d][m]
  BY <1>5, Zenon
<1>8. ASSUME NEW m \in Node
      PROVE  /\ conn_count'[m] = Cardinality(Inbound(m)')
             /\ conn_count'[m] \in 0 .. MaxSlots
  <2>1. conn_count[m] = Cardinality(Inbound(m)) /\ conn_count[m] \in 0 .. MaxSlots
    BY <1>1, <1>4, Zenon DEF EndsOK, SlotsExact, Inbound
  <2>2. \A d \in Conn : d[2] = m =>
            (Alive(m, d)' <=> IF d = c THEN s = "hello" ELSE Alive(m, d))
    BY <1>7, <1>s, Zenon DEF Alive, Ends
  <2>3. CASE m = c[2] /\ HasSlot(c[2])
    <3>1. Inbound(m)' = Inbound(m) \cup {c} /\ c \notin Inbound(m)
      BY <2>2, <2>3, <1>1, <1>2, <1>h, Zenon DEF Inbound, Alive
    <3>2. Cardinality(Inbound(m)') = Cardinality(Inbound(m)) + 1
      BY <3>1, InboundFinite, FS_AddElement, Zenon
    <3>3. conn_count'[m] = conn_count[m] + 1 /\ conn_count[m] < MaxSlots
      BY <2>3, <1>3, <1>4, Zenon DEF HasSlot
    <3> QED BY <2>1, <3>2, <3>3, CapAssumption
  <2>4. CASE ~(m = c[2] /\ HasSlot(c[2]))
    <3>1. Inbound(m)' = Inbound(m)
      BY <2>2, <2>4, <1>1, <1>2, <1>h, Zenon DEF Inbound, Alive
    <3>2. conn_count'[m] = conn_count[m]
      BY <2>4, <1>3, <1>4, Zenon
    <3> QED BY <2>1, <3>1, <3>2, Zenon
  <2> QED BY <2>3, <2>4, Zenon
<1>9. conn_count' \in [Node -> 0 .. MaxSlots]
  <2>1. conn_count' = [m \in Node |-> conn_count'[m]]
    BY <1>3, <1>4, Zenon
  <2> QED BY <2>1, <1>8, Zenon
<1>10. SlotsExact'
  BY <1>8, Zenon DEF SlotsExact, Inbound
<1>11. NewestIsActive'
  <2> SUFFICES ASSUME NEW m \in Node, NEW d \in newest[m], end'[d][m] = "both"
               PROVE  d \in active'[m]
    BY <1>2, Zenon DEF NewestIsActive
  <2>1. d \in Conn /\ m \in Ends(d)
    BY <1>1, Zenon DEF EndsOK, NewestOwn
  <2>2. end[d][m] = "both"
    BY <2>1, <1>7, <1>s, Zenon
  <2> QED BY <1>1, <1>2, <2>2, Zenon DEF EndsOK, NewestIsActive
<1>12. NewestOwn'
  BY <1>1, <1>2, Zenon DEF EndsOK, NewestOwn
<1>13. EndsOK'
  BY <1>1, <1>2, <1>6, <1>9, <1>10, <1>11, <1>12, Zenon DEF EndsOK
<1>14. NetOK'
  BY <1>1, <1>2, NetUntouched, Zenon
<1>15. QED BY <1>13, <1>14, PartsAfter, Zenon

\* A connection that opens takes its peer's place in both maps; the other peers
\* keep theirs.
LEMMA OpenOK ==
    ASSUME ConnectionInv, NEW c \in Conn, NEW n \in Ends(c), Open(n, c)
    PROVE  ConnectionInv'
<1>1. NetOK /\ EndsOK /\ n \in Node
  BY Parts, EndFacts, Zenon
<1>2. /\ end[c][n] = "shaken"
      /\ end' = [end EXCEPT ![c][n] = "both"]
      /\ active' = [active EXCEPT ![n] = Inserted(@, n, c)]
      /\ newest' = [newest EXCEPT ![n] = Inserted(@, n, c)]
      /\ UNCHANGED <<conn_count, net, broken>>
  BY Zenon DEF Open
<1>3. "both" \in EndState
  BY Zenon DEF EndState
<1>4. Table(end', EndState) /\ Changed(end, end', c, n, "both")
  BY <1>1, <1>2, <1>3, PointSet, Zenon DEF EndsOK
<1>5. Release(n, c, "both") /\ Alive(n, c)
  BY <1>1, <1>2, Zenon DEF Release, EndsOK, Alive
<1>6. SlotsExact' /\ conn_count' \in [Node -> 0 .. MaxSlots]
  BY <1>2, <1>3, <1>5, SlotFollowsEnd, Zenon
<1>7. /\ active' \in [Node -> SUBSET Conn]
      /\ newest' \in [Node -> SUBSET Conn]
  BY <1>1, <1>2, Zenon DEF EndsOK, Inserted
<1>8. NewestOwn'
  BY <1>1, <1>2, Zenon DEF EndsOK, NewestOwn, Inserted
<1>9. NewestIsActive'
  <2> SUFFICES ASSUME NEW m \in Node, NEW d \in newest'[m], end'[d][m] = "both"
               PROVE  d \in active'[m]
    BY Zenon DEF NewestIsActive
  <2>1. d \in Conn /\ m \in Ends(d)
    BY <1>7, <1>8, Zenon DEF NewestOwn
  <2>2. CASE m = n /\ d = c
    BY <2>2, <1>1, <1>2, Zenon DEF EndsOK, Inserted
  <2>3. CASE m = n /\ d # c
    <3>1. d \in newest[m] /\ Peer(n, d) # Peer(n, c)
      BY <2>3, <1>1, <1>2, Zenon DEF EndsOK, Inserted
    <3>2. end[d][m] = "both"
      BY <2>1, <2>3, <1>4, Zenon DEF Changed
    <3>3. d \in active[m]
      BY <3>1, <3>2, <1>1, Zenon DEF EndsOK, NewestIsActive
    <3> QED BY <3>1, <3>3, <2>3, <1>1, <1>2, Zenon DEF EndsOK, Inserted
  <2>4. CASE m # n
    <3>1. d \in newest[m] /\ active'[m] = active[m]
      BY <2>4, <1>1, <1>2, Zenon DEF EndsOK
    <3>2. end[d][m] = "both"
      BY <2>1, <2>4, <1>4, Zenon DEF Changed
    <3> QED BY <3>1, <3>2, <1>1, Zenon DEF EndsOK, NewestIsActive
  <2> QED BY <2>2, <2>3, <2>4, Zenon
<1>10. EndsOK'
  BY <1>1, <1>2, <1>4, <1>6, <1>7, <1>8, <1>9, Zenon DEF EndsOK
<1> QED BY <1>1, <1>2, <1>10, NetUntouched, PartsAfter, Zenon

---------------------------------------------------------------------------
\* Frames move from the queue to the wire and off it; only send_to adds one,
\* and counts it as accepted.
LEMMA FramesOK ==
    ASSUME ConnectionInv, NEW c \in Conn, NEW n \in Ends(c),
           \/ send_to(n, c)
           \/ WriteFrame(n, c)
           \/ ReadFrame(n, c)
           \/ WriteFails(n, c)
    PROVE  NetOK'
<1> DEFINE o == Peer(n, c)
<1>1. /\ Table(queue, 0 .. QueueCap) /\ Table(wire, 0 .. MaxFrames)
      /\ Table(accepted, 0 .. MaxFrames)
      /\ incoming \in [Node -> 0 .. InboxCap]
      /\ FramesCounted /\ n \in Node /\ o \in Ends(c)
  BY Parts, EndFacts, Zenon DEF NetOK
<1> HIDE DEF o
<1>2. \A d \in Conn : \A m \in Ends(d) :
          /\ queue[d][m] \in 0 .. QueueCap
          /\ wire[d][m] \in 0 .. MaxFrames
          /\ accepted[d][m] \in 0 .. MaxFrames
          /\ queue[d][m] + wire[d][m] <= accepted[d][m]
  BY <1>1, Zenon DEF Table, FramesCounted
<1>3. CASE send_to(n, c)
  <2>1. /\ queue' = [queue EXCEPT ![c][n] = queue[c][n] + 1]
        /\ accepted' = [accepted EXCEPT ![c][n] = accepted[c][n] + 1]
        /\ UNCHANGED <<wire, incoming>>
        /\ queue[c][n] < QueueCap /\ accepted[c][n] < MaxFrames
    BY <1>3, Zenon DEF send_to
  <2>2. /\ queue[c][n] + 1 \in 0 .. QueueCap
        /\ accepted[c][n] + 1 \in 0 .. MaxFrames
    BY <2>1, <1>2, CapAssumption
  <2>3. Table(queue', 0 .. QueueCap)
        /\ Changed(queue, queue', c, n, queue[c][n] + 1)
    BY <1>1, <2>1, <2>2, PointSet, Zenon
  <2>4. Table(accepted', 0 .. MaxFrames)
        /\ Changed(accepted, accepted', c, n, accepted[c][n] + 1)
    BY <1>1, <2>1, <2>2, PointSet, Zenon
  <2>5. FramesCounted'
    <3> SUFFICES ASSUME NEW d \in Conn, NEW m \in Ends(d)
                 PROVE  queue'[d][m] + wire'[d][m] <= accepted'[d][m]
      BY Zenon DEF FramesCounted
    <3>1. /\ queue[d][m] \in Nat /\ wire[d][m] \in Nat
          /\ accepted[d][m] \in Nat
          /\ queue[d][m] + wire[d][m] <= accepted[d][m]
      BY <1>2, CapAssumption
    <3>2. /\ queue'[d][m] = IF d = c /\ m = n THEN queue[d][m] + 1 ELSE queue[d][m]
          /\ accepted'[d][m] = IF d = c /\ m = n THEN accepted[d][m] + 1
                               ELSE accepted[d][m]
          /\ wire'[d][m] = wire[d][m]
      BY <2>1, <2>3, <2>4 DEF Changed
    <3> QED BY <3>1, <3>2
  <2> QED BY <1>1, <2>1, <2>3, <2>4, <2>5, Zenon DEF NetOK
<1>4. CASE WriteFrame(n, c)
  <2>1. /\ queue' = [queue EXCEPT ![c][n] = queue[c][n] - 1]
        /\ wire' = [wire EXCEPT ![c][n] = wire[c][n] + 1]
        /\ UNCHANGED <<accepted, incoming>>
        /\ queue[c][n] > 0
    BY <1>4, Zenon DEF WriteFrame
  <2>2. /\ queue[c][n] - 1 \in 0 .. QueueCap
        /\ wire[c][n] + 1 \in 0 .. MaxFrames
    BY <2>1, <1>2, CapAssumption
  <2>3. Table(queue', 0 .. QueueCap)
        /\ Changed(queue, queue', c, n, queue[c][n] - 1)
    BY <1>1, <2>1, <2>2, PointSet, Zenon
  <2>4. Table(wire', 0 .. MaxFrames)
        /\ Changed(wire, wire', c, n, wire[c][n] + 1)
    BY <1>1, <2>1, <2>2, PointSet, Zenon
  <2>5. FramesCounted'
    <3> SUFFICES ASSUME NEW d \in Conn, NEW m \in Ends(d)
                 PROVE  queue'[d][m] + wire'[d][m] <= accepted'[d][m]
      BY Zenon DEF FramesCounted
    <3>1. /\ queue[d][m] \in Nat /\ wire[d][m] \in Nat
          /\ accepted[d][m] \in Nat
          /\ queue[d][m] + wire[d][m] <= accepted[d][m]
      BY <1>2, CapAssumption
    <3>2. /\ queue'[d][m] = IF d = c /\ m = n THEN queue[d][m] - 1 ELSE queue[d][m]
          /\ wire'[d][m] = IF d = c /\ m = n THEN wire[d][m] + 1 ELSE wire[d][m]
          /\ accepted'[d][m] = accepted[d][m]
      BY <2>1, <2>3, <2>4 DEF Changed
    <3> QED BY <3>1, <3>2
  <2> QED BY <1>1, <2>1, <2>3, <2>4, <2>5, Zenon DEF NetOK
<1>5. CASE ReadFrame(n, c)
  <2>1. /\ wire' = [wire EXCEPT ![c][o] = wire[c][o] - 1]
        /\ UNCHANGED <<accepted, queue>>
        /\ wire[c][o] > 0
    BY <1>5, Zenon DEF ReadFrame, o
  <2>2. incoming' \in [Node -> 0 .. InboxCap]
    <3>1. PICK k \in BOOLEAN, v \in BOOLEAN :
              incoming' = [incoming EXCEPT ![n] =
                  IF /\ v
                     /\ <<n, Peer(n, c)>> \in Known \/ k
                     /\ incoming[n] < InboxCap
                  THEN incoming[n] + 1 ELSE incoming[n]]
      BY <1>5, Zenon DEF ReadFrame
    <3>2. incoming[n] < InboxCap => incoming[n] + 1 \in 0 .. InboxCap
      BY <1>1, CapAssumption
    <3> QED BY <1>1, <3>1, <3>2, Zenon
  <2>3. wire[c][o] - 1 \in 0 .. MaxFrames
    BY <2>1, <1>1, <1>2, CapAssumption
  <2>4. Table(wire', 0 .. MaxFrames)
        /\ Changed(wire, wire', c, o, wire[c][o] - 1)
    BY <1>1, <2>1, <2>3, PointSet, Zenon
  <2>5. FramesCounted'
    <3> SUFFICES ASSUME NEW d \in Conn, NEW m \in Ends(d)
                 PROVE  queue'[d][m] + wire'[d][m] <= accepted'[d][m]
      BY Zenon DEF FramesCounted
    <3>1. /\ queue[d][m] \in Nat /\ wire[d][m] \in Nat
          /\ accepted[d][m] \in Nat
          /\ queue[d][m] + wire[d][m] <= accepted[d][m]
      BY <1>2, CapAssumption
    <3>2. /\ wire'[d][m] = IF d = c /\ m = o THEN wire[d][m] - 1 ELSE wire[d][m]
          /\ queue'[d][m] = queue[d][m]
          /\ accepted'[d][m] = accepted[d][m]
      BY <2>1, <2>4, Zenon DEF Changed
    <3> QED BY <3>1, <3>2
  <2> QED BY <1>1, <2>1, <2>2, <2>4, <2>5, Zenon DEF NetOK
<1>6. CASE WriteFails(n, c)
  <2>1. /\ queue' = [queue EXCEPT ![c][n] = 0]
        /\ UNCHANGED <<wire, incoming, accepted>>
    BY <1>6, Zenon DEF WriteFails
  <2>2. 0 \in 0 .. QueueCap
    BY CapAssumption
  <2>3. Table(queue', 0 .. QueueCap) /\ Changed(queue, queue', c, n, 0)
    BY <1>1, <2>1, <2>2, PointSet, Zenon
  <2>4. FramesCounted'
    <3> SUFFICES ASSUME NEW d \in Conn, NEW m \in Ends(d)
                 PROVE  queue'[d][m] + wire'[d][m] <= accepted'[d][m]
      BY Zenon DEF FramesCounted
    <3>1. /\ queue[d][m] \in Nat /\ wire[d][m] \in Nat
          /\ accepted[d][m] \in Nat
          /\ queue[d][m] + wire[d][m] <= accepted[d][m]
      BY <1>2, CapAssumption
    <3>2. /\ queue'[d][m] = IF d = c /\ m = n THEN 0 ELSE queue[d][m]
          /\ wire'[d][m] = wire[d][m]
          /\ accepted'[d][m] = accepted[d][m]
      BY <2>1, <2>3, Zenon DEF Changed
    <3> QED BY <3>1, <3>2
  <2> QED BY <1>1, <2>1, <2>3, <2>4, Zenon DEF NetOK
<1> QED BY <1>3, <1>4, <1>5, <1>6, Zenon

---------------------------------------------------------------------------
\* Every step keeps the invariant.
LEMMA StepOK == ConnectionInv /\ [Next]_vars => ConnectionInv'
<1> SUFFICES ASSUME ConnectionInv, [Next]_vars PROVE ConnectionInv'
  BY Zenon
<1>1. NetOK /\ EndsOK
  BY Parts, Zenon
<1>2. ASSUME NEW c \in Conn, Dial(c) PROVE ConnectionInv'
  BY <1>2, DialOK, Zenon
<1>3. ASSUME NEW c \in Conn, Break(c) PROVE ConnectionInv'
  <2>1. UNCHANGED <<active, conn_count, end, net, newest>>
        /\ broken' = broken \cup {c}
    BY <1>3, Zenon DEF Break
  <2>2. Table(end', EndState) /\ broken' \subseteq Conn
    BY <1>1, <2>1, Zenon DEF EndsOK
  <2>3. NewestOwn' /\ NewestIsActive'
    BY <1>1, <2>1, Zenon DEF EndsOK, NewestOwn, NewestIsActive
  <2>4. SlotsExact'
    BY <1>1, <2>1, Zenon DEF EndsOK, SlotsExact, Alive
  <2>5. EndsOK'
    BY <1>1, <2>1, <2>2, <2>3, <2>4, Zenon DEF EndsOK
  <2> QED BY <1>1, <2>1, <2>5, NetUntouched, PartsAfter, Zenon
<1>4. ASSUME NEW c \in Conn, NEW n \in Ends(c), Handshake(n, c)
      PROVE  ConnectionInv'
  <2>1. end[c][n] = "hello" /\ end' = [end EXCEPT ![c][n] = "shaken"]
        /\ UNCHANGED <<active, conn_count, net, broken, newest>>
    BY <1>4, Zenon DEF Handshake
  <2>2. Release(n, c, "shaken") /\ Alive(n, c) /\ "shaken" \in EndState
    BY <1>1, <2>1, EndFacts, Zenon DEF Release, Alive, EndState, EndsOK
  <2>3. EndsOK'
    BY <2>1, <2>2, EndMovesOn, Zenon
  <2> QED BY <1>1, <2>1, <2>3, NetUntouched, PartsAfter, Zenon
<1>5. ASSUME NEW c \in Conn, NEW n \in Ends(c), HandshakeFails(n, c)
      PROVE  ConnectionInv'
  <2>1. end[c][n] = "hello" /\ end' = [end EXCEPT ![c][n] = "gone"]
        /\ Release(n, c, "gone") /\ UNCHANGED <<active, net, broken, newest>>
    BY <1>5, Zenon DEF HandshakeFails
  <2>2. Alive(n, c) /\ "gone" \in EndState
    BY <2>1, Zenon DEF Alive, EndState
  <2>3. EndsOK'
    BY <2>1, <2>2, EndMovesOn, Zenon
  <2> QED BY <1>1, <2>1, <2>3, NetUntouched, PartsAfter, Zenon
<1>6. ASSUME NEW c \in Conn, NEW n \in Ends(c), Open(n, c)
      PROVE  ConnectionInv'
  BY <1>6, OpenOK, Zenon
<1>7. ASSUME NEW c \in Conn, NEW n \in Ends(c),
             send_to(n, c) \/ WriteFrame(n, c) \/ ReadFrame(n, c)
      PROVE  ConnectionInv'
  <2>1. NetOK'
    BY <1>7, FramesOK, Zenon
  <2>2. UNCHANGED <<active, conn_count, end, broken, newest>>
    BY <1>7, Zenon DEF send_to, WriteFrame, ReadFrame
  <2> QED BY <1>1, <2>1, <2>2, EndsUntouched, PartsAfter, Zenon
<1>8. ASSUME NEW c \in Conn, NEW n \in Ends(c), WriteFails(n, c)
      PROVE  ConnectionInv'
  <2>1. NetOK'
    BY <1>8, FramesOK, Zenon
  <2>2. end[c][n] \in {"both", "writer"} /\ Finish(n, c, "writer")
        /\ UNCHANGED <<broken, newest>>
    BY <1>8, Zenon DEF WriteFails, Writing
  <2> QED BY <2>1, <2>2, FinishOK, PartsAfter, Zenon
<1>9. ASSUME NEW c \in Conn, NEW n \in Ends(c), WriterDone(n, c)
      PROVE  ConnectionInv'
  <2>1. end[c][n] \in {"both", "writer"} /\ Finish(n, c, "writer")
        /\ UNCHANGED <<net, broken, newest>>
    BY <1>9, Zenon DEF WriterDone, Writing
  <2> QED BY <1>1, <2>1, FinishOK, NetUntouched, PartsAfter, Zenon
<1>10. ASSUME NEW c \in Conn, NEW n \in Ends(c), ReaderDone(n, c)
       PROVE  ConnectionInv'
  <2>1. end[c][n] \in {"both", "reader"} /\ Finish(n, c, "reader")
        /\ UNCHANGED <<net, broken, newest>>
    BY <1>10, Zenon DEF ReaderDone, Reading
  <2> QED BY <1>1, <2>1, FinishOK, NetUntouched, PartsAfter, Zenon
<1>11. ASSUME NEW n \in Node, Drain(n) PROVE ConnectionInv'
  <2>1. UNCHANGED <<active, conn_count, end, queue, wire, broken, accepted,
                    newest>>
        /\ incoming' = [incoming EXCEPT ![n] = 0]
    BY <1>11, Zenon DEF Drain
  <2>2. NetOK'
    BY <1>1, <2>1, CapAssumption DEF NetOK, FramesCounted, Table
  <2> QED BY <1>1, <2>1, <2>2, EndsUntouched, PartsAfter, Zenon
<1>12. CASE UNCHANGED vars
  <2>1. UNCHANGED net /\ UNCHANGED <<active, conn_count, end, broken, newest>>
    BY <1>12, Zenon DEF vars, net
  <2> QED BY <1>1, <2>1, NetUntouched, EndsUntouched, PartsAfter, Zenon
<1> QED BY <1>2, <1>3, <1>4, <1>5, <1>6, <1>7, <1>8, <1>9, <1>10, <1>11, <1>12, Zenon DEF
            Next, Task

\* The invariant holds in every reachable state.
THEOREM ConnectionsInvariant == Spec => []ConnectionInv
BY InitOK, StepOK, PTL DEF Spec

\* Queues, wires, inboxes and the listener's counter keep within their
\* capacities, for every number of nodes, connections and frames.
THEOREM WithinCapacity == Spec => []TypeOK
<1>1. ConnectionInv => TypeOK
  BY Zenon DEF ConnectionInv
<1> QED BY <1>1, ConnectionsInvariant, PTL

\* No path through a connection's life releases its slot twice or never: the
\* listener's counter is the number of inbound connections that are not over
\* (connection_manager.rs:81).
THEOREM SlotsCounted == Spec => []SlotsExact
<1>1. ConnectionInv => SlotsExact
  BY Zenon DEF ConnectionInv
<1> QED BY <1>1, ConnectionsInvariant, PTL

\* The clean-up of an old connection never takes the newest one out of the map
\* while both its tasks run (connection_manager.rs:204).
THEOREM NewestStays == Spec => []NewestIsActive
<1>1. ConnectionInv => NewestIsActive
  BY Zenon DEF ConnectionInv
<1> QED BY <1>1, ConnectionsInvariant, PTL

---------------------------------------------------------------------------
(***************************************************************************)
(* Frames are not left behind, where connections may break but no handshake *)
(* is rejected and no reader gives up on a silent peer.  A reader then ends *)
(* only after the peer's writer has, and that one ends with an empty queue. *)
(***************************************************************************)

\* The order in which the halves of one end, and of its peer's, finish.
LifeOf(c, n) ==
    /\ end[c][n] \in {"new", "hello", "shaken"} => wire[c][n] = 0
    /\ ~Writing(n, c) => queue[c][n] = 0
    /\ end[c][n] \in {"writer", "gone"} /\ c \notin broken
           => /\ end[c][Peer(n, c)] \in {"reader", "gone"}
              /\ wire[c][Peer(n, c)] = 0

Life == \A c \in Conn : \A n \in Ends(c) : LifeOf(c, n)

\* It implies that no frame is left behind.
LEMMA LifeIsEnough == ConnectionInv /\ Life => NothingLeftBehind
<1> SUFFICES ASSUME Life, NEW c \in Conn, NEW n \in Ends(c),
                    end[c][n] \in {"writer", "gone"}, c \notin broken
             PROVE  queue[c][Peer(n, c)] = 0 /\ wire[c][Peer(n, c)] = 0
  BY Zenon DEF NothingLeftBehind
<1>1. Peer(n, c) \in Ends(c)
  BY EndFacts, Zenon
<1>2. LifeOf(c, n) /\ LifeOf(c, Peer(n, c))
  BY <1>1, Zenon DEF Life
<1> QED BY <1>2, Zenon DEF LifeOf, Writing

\* A step that concerns one end of one connection: it is enough to look at
\* the two ends of that connection.
LEMMA LifeOfOthers ==
    ASSUME Life, NEW c \in Conn, NEW n \in Ends(c),
           \A d \in Conn \ {c} : \A m \in Ends(d) :
               /\ end'[d][m] = end[d][m] /\ queue'[d][m] = queue[d][m]
               /\ wire'[d][m] = wire[d][m] /\ (d \in broken' <=> d \in broken),
           LifeOf(c, n)', LifeOf(c, Peer(n, c))'
    PROVE  Life'
<1> SUFFICES ASSUME NEW d \in Conn, NEW m \in Ends(d) PROVE LifeOf(d, m)'
  BY Zenon DEF Life
<1>1. CASE d = c
  <2>1. m \in {n, Peer(n, c)}
    BY <1>1, Zenon DEF Ends, Peer
  <2> QED BY <1>1, <2>1, Zenon
<1>2. CASE d # c
  <2>1. Peer(m, d) \in Ends(d)
    BY EndFacts, Zenon
  <2> QED BY <1>2, <2>1 DEF Life, LifeOf, Writing
<1> QED BY <1>1, <1>2, Zenon

\* What a step on one end of a connection does, end by end: the table of
\* the states.
LEMMA EndChanged ==
    ASSUME ConnectionInv, NEW c \in Conn, NEW n \in Ends(c), NEW s \in EndState,
           end' = [end EXCEPT ![c][n] = s]
    PROVE  Changed(end, end', c, n, s)
BY Parts, PointSet, Zenon DEF EndsOK

\* The table of the queues.
LEMMA QueueChanged ==
    ASSUME ConnectionInv, NEW c \in Conn, NEW n \in Ends(c),
           NEW q \in 0 .. QueueCap, queue' = [queue EXCEPT ![c][n] = q]
    PROVE  Changed(queue, queue', c, n, q)
BY Parts, PointSet, Zenon DEF NetOK

\* The table of the wires.
LEMMA WireChanged ==
    ASSUME ConnectionInv, NEW c \in Conn, NEW n \in Ends(c),
           NEW w \in 0 .. MaxFrames, wire' = [wire EXCEPT ![c][n] = w]
    PROVE  Changed(wire, wire', c, n, w)
BY Parts, PointSet, Zenon DEF NetOK

\* Without rejected handshakes and idle timeouts every step keeps the order.
LEMMA LifeStep ==
    ASSUME Faults \subseteq {"break"}, ConnectionInv, Life, [Next]_vars
    PROVE  Life'
<1>1. /\ Table(end, EndState)
      /\ Table(queue, 0 .. QueueCap) /\ Table(wire, 0 .. MaxFrames)
  BY Parts, Zenon DEF NetOK, EndsOK
<1>2. \A c \in Conn : \A n \in Ends(c) :
          /\ end[c][n] \in EndState
          /\ queue[c][n] \in 0 .. QueueCap /\ wire[c][n] \in 0 .. MaxFrames
  BY <1>1, Zenon DEF Table
<1>3. ASSUME NEW c \in Conn, Dial(c) PROVE Life'
  <2>1. PICK s \in {"hello", "gone"} :
            end' = [end EXCEPT ![c] = [n \in Ends(c) |-> s]]
    BY <1>3, Zenon DEF Dial
  <2>2. \A d \in Conn : \A m \in Ends(d) :
            end'[d][m] = IF d = c THEN s ELSE end[d][m]
    BY <1>1, <2>1, Zenon DEF Table
  <2>3. (\A m \in Ends(c) : end[c][m] = "new")
        /\ UNCHANGED <<queue, wire, broken>>
    BY <1>3, Zenon DEF Dial, net
  <2>4. ASSUME NEW d \in Conn, NEW m \in Ends(d) PROVE LifeOf(d, m)'
    <3>1. Peer(m, d) \in Ends(d)
      BY EndFacts, Zenon
    <3>2. LifeOf(d, m) /\ LifeOf(d, Peer(m, d))
      BY <3>1, Zenon DEF Life
    <3> QED BY <2>2, <2>3, <3>1, <3>2, Zenon DEF LifeOf, Writing
  <2> QED BY <2>4, Zenon DEF Life
<1>4. ASSUME NEW c \in Conn, Break(c) PROVE Life'
  BY <1>4, ZenonT(40) DEF Break, net, Life, LifeOf, Writing
<1>5. ASSUME NEW c \in Conn, NEW n \in Ends(c),
             Task(n, c) \/ HandshakeFails(n, c) \/ send_to(n, c)
      PROVE  Life'
  <2> DEFINE o == Peer(n, c)
  <2>1. o \in Ends(c) /\ o # n /\ Peer(o, c) = n
    BY EndFacts, Zenon DEF Ends, Peer
  <2>2. LifeOf(c, n) /\ LifeOf(c, o)
    BY <2>1, Zenon DEF Life
  <2>3. /\ end[c][n] \in EndState /\ end[c][o] \in EndState
        /\ queue[c][n] \in 0 .. QueueCap /\ wire[c][n] \in 0 .. MaxFrames
        /\ wire[c][o] \in 0 .. MaxFrames
    BY <1>2, <2>1, Zenon
  <2>4. CASE Handshake(n, c)
    <3>1. end[c][n] = "hello" /\ Changed(end, end', c, n, "shaken")
          /\ UNCHANGED <<queue, wire, broken>>
      BY <2>4, EndChanged, Zenon DEF Handshake, net, EndState
    <3>2. LifeOf(c, n)' /\ LifeOf(c, o)'
      BY <2>1, <2>2, <3>1, Zenon DEF LifeOf, Changed, Writing
    <3> QED BY <3>1, <3>2, LifeOfOthers, Zenon DEF Changed
  <2>5. CASE HandshakeFails(n, c)
    <3>1. /\ end[c][n] = "hello" /\ Changed(end, end', c, n, "gone")
          /\ end[c][o] = "gone" \/ c \in broken
          /\ UNCHANGED <<queue, wire, broken>>
      BY <2>5, EndChanged, Zenon DEF HandshakeFails, net, EndState
    <3>2. LifeOf(c, n)' /\ LifeOf(c, o)'
      BY <2>1, <2>2, <3>1, Zenon DEF LifeOf, Changed, Writing
    <3> QED BY <3>1, <3>2, LifeOfOthers, Zenon DEF Changed
  <2>6. CASE Open(n, c)
    <3>1. end[c][n] = "shaken" /\ Changed(end, end', c, n, "both")
          /\ UNCHANGED <<queue, wire, broken>>
      BY <2>6, EndChanged, Zenon DEF Open, net, EndState
    <3>2. LifeOf(c, n)' /\ LifeOf(c, o)'
      BY <2>1, <2>2, <3>1, Zenon DEF LifeOf, Changed, Writing
    <3> QED BY <3>1, <3>2, LifeOfOthers, Zenon DEF Changed
  <2>7. CASE send_to(n, c)
    <3>1. queue[c][n] + 1 \in 0 .. QueueCap
      BY <2>3, <2>7, CapAssumption DEF send_to
    <3>2. Writing(n, c) /\ Changed(queue, queue', c, n, queue[c][n] + 1)
          /\ UNCHANGED <<end, wire, broken>>
      BY <2>7, <3>1, QueueChanged, Zenon DEF send_to
    <3>3. LifeOf(c, n)' /\ LifeOf(c, o)'
      BY <2>1, <2>2, <3>2, Zenon DEF LifeOf, Changed, Writing
    <3> QED BY <3>2, <3>3, LifeOfOthers, Zenon DEF Changed
  <2>8. CASE WriteFrame(n, c)
    <3>1. queue[c][n] - 1 \in 0 .. QueueCap
      BY <2>3, <2>8, CapAssumption DEF WriteFrame
    <3>2. wire[c][n] + 1 \in 0 .. MaxFrames
      BY <2>8, FramesOK, <2>3, <1>1, Zenon DEF NetOK, Table, WriteFrame
    <3>3. Writing(n, c) /\ Changed(queue, queue', c, n, queue[c][n] - 1)
          /\ Changed(wire, wire', c, n, wire[c][n] + 1)
          /\ UNCHANGED <<end, broken>>
      BY <2>8, <3>1, <3>2, QueueChanged, WireChanged, Zenon DEF WriteFrame
    <3>4. LifeOf(c, n)' /\ LifeOf(c, o)'
      BY <2>1, <2>2, <3>3, Zenon DEF LifeOf, Changed, Writing
    <3> QED BY <3>3, <3>4, LifeOfOthers, Zenon DEF Changed
  <2>9. CASE WriteFails(n, c)
    <3>1. 0 \in 0 .. QueueCap
      BY CapAssumption
    <3>2. PICK s \in {"gone", "reader"} :
              end' = [end EXCEPT ![c][n] = s]
              /\ (s = "gone" <=> end[c][n] = "writer")
      BY <2>9, Zenon DEF WriteFails, Finish, Writing
    <3>3. /\ Writing(n, c) /\ (end[c][o] = "gone" \/ c \in broken)
          /\ Changed(end, end', c, n, s) /\ Changed(queue, queue', c, n, 0)
          /\ UNCHANGED <<wire, broken>>
      BY <2>9, <3>1, <3>2, EndChanged, QueueChanged, Zenon DEF WriteFails, EndState
    <3>4. LifeOf(c, n)' /\ LifeOf(c, o)'
      BY <2>1, <2>2, <3>2, <3>3 DEF LifeOf, Changed, Writing
    <3> QED BY <3>3, <3>4, LifeOfOthers, Zenon DEF Changed
  <2>10. CASE WriterDone(n, c)
    <3>1. PICK s \in {"gone", "reader"} :
              end' = [end EXCEPT ![c][n] = s]
              /\ (s = "gone" <=> end[c][n] = "writer")
      BY <2>10, Zenon DEF WriterDone, Finish, Writing
    <3>2. /\ Writing(n, c) /\ queue[c][n] = 0
          /\ Changed(end, end', c, n, s) /\ UNCHANGED <<queue, wire, broken>>
      BY <2>10, <3>1, EndChanged, Zenon DEF WriterDone, Drained, EndState, net
    <3>3. LifeOf(c, n)' /\ LifeOf(c, o)'
      BY <2>1, <2>2, <3>1, <3>2 DEF LifeOf, Changed, Writing
    <3> QED BY <3>2, <3>3, LifeOfOthers, Zenon DEF Changed
  <2>11. CASE ReadFrame(n, c)
    <3>1. wire[c][o] - 1 \in 0 .. MaxFrames /\ wire[c][o] > 0
      BY <2>3, <2>11, CapAssumption DEF ReadFrame
    <3>2. /\ Reading(n, c) /\ c \notin broken
          /\ Changed(wire, wire', c, o, wire[c][o] - 1)
          /\ UNCHANGED <<end, queue, broken>>
      BY <2>1, <2>11, <3>1, WireChanged, Zenon DEF ReadFrame
    <3>3. /\ UNCHANGED <<end, queue, broken>>
          /\ wire'[c][n] = wire[c][n]
          /\ end[c][n] \in {"both", "reader"}
          /\ end[c][o] \notin {"new", "hello", "shaken"}
      BY <2>1, <2>2, <3>1, <3>2 DEF LifeOf, Changed, Reading
    <3>4. LifeOf(c, n)'
      BY <2>2, <3>3, Zenon DEF LifeOf, Writing
    <3>5. LifeOf(c, o)'
      BY <2>1, <2>2, <3>3, Zenon DEF LifeOf, Writing
    <3> QED BY <3>2, <3>4, <3>5, LifeOfOthers, <2>1, Zenon DEF Changed
  <2>12. CASE ReaderDone(n, c)
    <3>1. PICK s \in {"gone", "writer"} :
              end' = [end EXCEPT ![c][n] = s]
              /\ (s = "gone" <=> end[c][n] = "reader")
      BY <2>12, Zenon DEF ReaderDone, Finish, Reading
    <3>2. /\ Reading(n, c) /\ (AtEof(n, c) \/ c \in broken)
          /\ Changed(end, end', c, n, s) /\ UNCHANGED <<queue, wire, broken>>
      BY <2>12, <3>1, EndChanged, Zenon DEF ReaderDone, EndState, net
    <3>3. /\ UNCHANGED <<queue, wire, broken>>
          /\ end'[c][n] = s /\ end'[c][o] = end[c][o]
          /\ end[c][n] \in {"both", "reader"}
      BY <2>1, <3>2, Zenon DEF Changed, Reading
    <3>4. c \notin broken => wire[c][o] = 0 /\ end[c][o] \in {"reader", "gone"}
      BY <3>2, Zenon DEF AtEof
    <3>5. LifeOf(c, n)'
      BY <2>2, <3>1, <3>3, <3>4, Zenon DEF LifeOf, Writing
    <3>6. LifeOf(c, o)'
      BY <2>1, <2>2, <3>1, <3>3, Zenon DEF LifeOf, Writing
    <3> QED BY <3>2, <3>5, <3>6, LifeOfOthers, Zenon DEF Changed
  <2> QED BY <1>5, <2>4, <2>5, <2>6, <2>7, <2>8, <2>9, <2>10, <2>11, <2>12, Zenon DEF Task
<1>6. ASSUME NEW n \in Node, Drain(n) PROVE Life'
  BY <1>6, Zenon DEF Drain, Life, LifeOf, Writing
<1>7. CASE UNCHANGED vars
  BY <1>7, Zenon DEF vars, net, Life, LifeOf, Writing
<1> QED BY <1>3, <1>4, <1>5, <1>6, <1>7, Zenon DEF Next

\* Where connections may break but handshakes are not rejected and no reader
\* gives up on a silent peer, the end of a connection's reader means that
\* nothing the peer accepted for it is under way: replacing a connection loses
\* no frame (connection_manager.rs:525).
THEOREM NoFrameLeftBehind ==
    ASSUME Faults \subseteq {"break"}
    PROVE  Spec => []NothingLeftBehind
<1>1. Init => Life
  BY DEF Init, Life, LifeOf
<1>2. ConnectionInv /\ Life /\ [Next]_vars => Life'
  BY LifeStep, Zenon
<1> QED BY <1>1, <1>2, ConnectionsInvariant, LifeIsEnough, PTL DEF Spec
===========================================================================
