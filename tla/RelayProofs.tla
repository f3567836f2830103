---------------------------- MODULE RelayProofs ----------------------------
(***************************************************************************)
(* Proofs about Relay, for any nodes, routes and connections: the tables of *)
(* a verifier keep within their caps, and a relay forwards a message at     *)
(* most once although routes may be circular.                               *)
(*                                                                          *)
(* The second is not inductive: why the second visit is refused is in the   *)
(* verifier.  The invariant says that a copy, still on the way, of what a   *)
(* node forwarded is a replay to that node; that copies of a message share  *)
(* key and nonce; and that the nonce table holds one entry for each of the  *)
(* identity keys there can be, so that it is never full and never cleared.  *)
(***************************************************************************)
EXTENDS Relay, FiniteSetTheorems, TLAPS

USE DEF Key

RateRecord == [key : Key, start : Nat, count : 0 .. MaxPerWindow]

Verifier == [last_nonce : SUBSET [key : Key, nonce : Nat],
             rate : SUBSET RateRecord,
             key_pins : SUBSET [uid : Node, key : Key]]

\* The tables are within their caps.
Sized(v) ==
    /\ IsFiniteSet(v.last_nonce) /\ Cardinality(v.last_nonce) <= MaxTracked
    /\ IsFiniteSet(v.rate) /\ Cardinality(v.rate) <= MaxTracked
    /\ IsFiniteSet(v.key_pins) /\ Cardinality(v.key_pins) <= MaxPins

RelayType ==
    /\ TypeOK
    /\ sends \in Nat
    /\ verifier \in [Node -> Verifier]
    /\ \A n \in Node : Sized(verifier[n])

---------------------------------------------------------------------------
\* The caps and bounds are natural numbers.
LEMMA Bounds ==
    /\ MaxHops \in Nat /\ MaxPerWindow \in Nat /\ MaxClock \in Nat
    /\ MaxSends \in Nat /\ MaxStarts \in Nat
    /\ MaxTracked \in Nat /\ MaxTracked > 0 /\ MaxPins \in Nat /\ MaxPins > 0
BY BoundAssumption, TableAssumption

\* A full table is cleared: there is room afterwards (relay.rs:222).
LEMMA RoomLeft ==
    ASSUME NEW T, IsFiniteSet(T), NEW cap \in Nat, cap > 0
    PROVE  /\ Room(T, cap) \subseteq T
           /\ IsFiniteSet(Room(T, cap))
           /\ Cardinality(Room(T, cap)) < cap
<1>1. Cardinality(T) \in Nat
  BY FS_CardinalityType, Zenon
<1>2. IsFiniteSet({}) /\ Cardinality({}) = 0
  BY FS_EmptySet, Zenon
<1> QED BY <1>1, <1>2 DEF Room

\* Replacing an entry of a table with room does not exceed the cap.
LEMMA Replaced ==
    ASSUME NEW T, IsFiniteSet(T), NEW cap \in Nat, Cardinality(T) < cap,
           NEW R \in SUBSET T, NEW x
    PROVE  /\ IsFiniteSet(R \cup {x})
           /\ Cardinality(R \cup {x}) <= cap
<1>1. IsFiniteSet(R) /\ Cardinality(R) <= Cardinality(T)
  BY FS_Subset, Zenon
<1>2. Cardinality(R) \in Nat /\ Cardinality(T) \in Nat
  BY <1>1, FS_CardinalityType, Zenon
<1>3. /\ IsFiniteSet(R \cup {x})
      /\ \/ Cardinality(R \cup {x}) = Cardinality(R)
         \/ Cardinality(R \cup {x}) = Cardinality(R) + 1
  BY <1>1, FS_AddElement, Zenon
<1> QED BY <1>1, <1>2, <1>3

\* Pinning a key keeps to the types and the caps, and to the nonces.
LEMMA PinnedType ==
    ASSUME NEW v \in Verifier, Sized(v), NEW uid \in Node, NEW key \in Key
    PROVE  /\ Pinned(v, uid, key) \in Verifier
           /\ Sized(Pinned(v, uid, key))
           /\ Pinned(v, uid, key).last_nonce = v.last_nonce
<1> DEFINE room == Room(v.key_pins, MaxPins)
           entry == [uid |-> uid, key |-> key]
<1>1. IsFiniteSet(v.key_pins)
  BY Zenon DEF Sized
<1>2. room \subseteq v.key_pins /\ IsFiniteSet(room) /\ Cardinality(room) < MaxPins
  BY <1>1, RoomLeft, Bounds, Zenon
<1>3. IsFiniteSet(room \cup {entry}) /\ Cardinality(room \cup {entry}) <= MaxPins
  BY <1>2, Replaced, Bounds, Zenon
<1>4. CASE \E p \in v.key_pins : p.uid = uid
  BY <1>4, Zenon DEF Pinned
<1>5. CASE ~ \E p \in v.key_pins : p.uid = uid
  <2>1. Pinned(v, uid, key) = [v EXCEPT !.key_pins = room \cup {entry}]
    BY <1>5, Zenon DEF Pinned
  <2> HIDE DEF room
  <2> QED BY <2>1, <1>2, <1>3 DEF Verifier, Sized
<1> QED BY <1>4, <1>5, Zenon

\* The sender's entry of the rate table counts at most a window's worth.
LEMMA RateEntryType ==
    ASSUME NEW v \in Verifier, Sized(v), NEW key \in Key, NEW now \in Nat
    PROVE  /\ RateEntry(v, key, now) \in RateRecord
           /\ RateEntry(v, key, now).key = key
<1> DEFINE current == {r \in Room(v.rate, MaxTracked) :
                          r.key = key /\ now - r.start < RateWindow}
<1>1. Room(v.rate, MaxTracked) \subseteq v.rate
  BY RoomLeft, Bounds, Zenon DEF Sized
<1>2. current \subseteq v.rate /\ \A r \in current : r.key = key
  BY <1>1, Zenon
<1>3. v.rate \subseteq RateRecord
  BY Zenon DEF Verifier
<1>4. RateEntry(v, key, now) =
          IF current = {} THEN [key |-> key, start |-> now, count |-> 0]
          ELSE CHOOSE r \in current : TRUE
  BY Zenon DEF RateEntry
<1> HIDE DEF current
<1>5. CASE current = {}
  BY <1>4, <1>5, Bounds DEF RateRecord
<1>6. CASE current # {}
  <2>1. RateEntry(v, key, now) \in current
    BY <1>4, <1>6, Zenon
  <2> QED BY <2>1, <1>2, <1>3, Zenon
<1> QED BY <1>5, <1>6, Zenon

\* Storing a rate entry keeps to the types and the caps, and to the nonces.
LEMMA WithRateType ==
    ASSUME NEW v \in Verifier, Sized(v),
           NEW r \in RateRecord
    PROVE  /\ WithRate(v, r) \in Verifier
           /\ Sized(WithRate(v, r))
           /\ WithRate(v, r).last_nonce = v.last_nonce
<1> DEFINE room == Room(v.rate, MaxTracked)
           others == {s \in room : s.key # r.key}
<1>1. room \subseteq v.rate /\ IsFiniteSet(room) /\ Cardinality(room) < MaxTracked
  BY RoomLeft, Bounds, Zenon DEF Sized
<1>2. others \subseteq room
  BY Zenon
<1>3. WithRate(v, r) = [v EXCEPT !.rate = others \cup {r}]
  BY Zenon DEF WithRate
<1> HIDE DEF room, others
<1>4. IsFiniteSet(others \cup {r}) /\ Cardinality(others \cup {r}) <= MaxTracked
  BY <1>1, <1>2, Replaced, Bounds, Zenon
<1> QED BY <1>1, <1>2, <1>3, <1>4 DEF Verifier, Sized

\* The nonce table after a message under this key and nonce was admitted.
Noted(table, key, nonce) ==
    {e \in Room(table, MaxTracked) : e.key # key} \cup {[key |-> key, nonce |-> nonce]}

\* Admitting a message keeps to the types and the caps.
LEMMA AdmitType ==
    ASSUME NEW v \in Verifier, Sized(v), NEW key \in Key, NEW nonce \in Nat,
           NEW r \in RateRecord,
           ~Exhausted(r)
    PROVE  /\ Admit(v, key, nonce, r) \in Verifier
           /\ Sized(Admit(v, key, nonce, r))
           /\ Admit(v, key, nonce, r).last_nonce = Noted(v.last_nonce, key, nonce)
<1> DEFINE more  == [r EXCEPT !.count = @ + 1]
           w     == WithRate(v, more)
           room  == Room(v.last_nonce, MaxTracked)
           kept  == {e \in room : e.key # key}
           entry == [key |-> key, nonce |-> nonce]
<1>1. more \in RateRecord
  BY Bounds DEF Exhausted, RateRecord
<1>2. w \in Verifier /\ Sized(w) /\ w.last_nonce = v.last_nonce
  <2> HIDE DEF more
  <2> QED BY <1>1, WithRateType, Zenon
<1>3. room \subseteq v.last_nonce /\ IsFiniteSet(room)
          /\ Cardinality(room) < MaxTracked
  BY RoomLeft, Bounds, Zenon DEF Sized
<1>4. Admit(v, key, nonce, r) = [w EXCEPT !.last_nonce = kept \cup {entry}]
  <2>1. Admit(v, key, nonce, r) =
          [w EXCEPT !.last_nonce = {e \in Room(w.last_nonce, MaxTracked) :
                                       e.key # key} \cup {entry}]
    <3> HIDE DEF entry, more
    <3> QED BY <1>2, Zenon DEF Admit, Verifier, more, entry
  <2> QED BY <2>1, <1>2, Zenon
<1>5. entry \in [key : Key, nonce : Nat] /\ kept \subseteq room
  BY Zenon
<1> HIDE DEF w, room, kept, entry
<1>6. IsFiniteSet(kept \cup {entry}) /\ Cardinality(kept \cup {entry}) <= MaxTracked
  BY <1>3, <1>5, Replaced, Bounds, Zenon
<1>7. kept \cup {entry} \subseteq [key : Key, nonce : Nat]
  BY <1>3, <1>5, Zenon DEF Verifier
<1> QED BY <1>2, <1>4, <1>6, <1>7 DEF Verifier, Sized, kept, room, entry, Noted

---------------------------------------------------------------------------
\* Some copy of the message m is on its way.
Carries(w, m) ==
    \E s, d \in Node : \E i \in 1 .. Len(w[s][d]) : w[s][d][i] = m

Wire == [Node -> [Node -> Seq(Message)]]

\* Taking a message off the wire adds none.
LEMMA TakenOff ==
    ASSUME NEW w \in Wire, NEW src \in Node, NEW n \in Node, w[src][n] # <<>>
    PROVE  LET rest == [w EXCEPT ![src][n] = Tail(@)] IN
           /\ rest \in Wire
           /\ Head(w[src][n]) \in Message
           /\ Carries(w, Head(w[src][n]))
           /\ \A m : Carries(rest, m) => Carries(w, m)
<1> DEFINE rest == [w EXCEPT ![src][n] = Tail(@)]
           q == w[src][n]
<1>1. q \in Seq(Message) /\ q # <<>>
  BY Zenon DEF Wire
<1>2. /\ Tail(q) \in Seq(Message) /\ Head(q) \in Message
      /\ Len(q) \in Nat /\ Len(q) >= 1 /\ Head(q) = q[1]
      /\ Len(Tail(q)) = Len(q) - 1
      /\ \A i \in 1 .. Len(Tail(q)) : Tail(q)[i] = q[i + 1]
  <2> HIDE DEF q
  <2> QED BY <1>1
<1>3. \A s, d \in Node : rest[s][d] = IF s = src /\ d = n THEN Tail(q) ELSE w[s][d]
  BY Zenon DEF Wire
<1>4. rest \in Wire
  BY <1>2, Zenon DEF Wire
<1>5. Carries(w, Head(q))
  BY <1>2 DEF Carries
<1>6. ASSUME NEW m, Carries(rest, m) PROVE Carries(w, m)
  <2>0. PICK s \in Node, d \in Node :
            \E i \in 1 .. Len(rest[s][d]) : rest[s][d][i] = m
    BY <1>6, Zenon DEF Carries
  <2>1. PICK i \in 1 .. Len(rest[s][d]) : rest[s][d][i] = m
    BY <2>0, Zenon
  <2>2. CASE s = src /\ d = n
    <3>1. rest[s][d] = Tail(q)
      BY <2>2, <1>3, Zenon
    <3> HIDE DEF rest, q
    <3>2. i + 1 \in 1 .. Len(q) /\ q[i + 1] = m
      BY <2>1, <3>1, <1>2
    <3> QED BY <3>2, <2>2, Zenon DEF Carries, q
  <2>3. CASE ~(s = src /\ d = n)
    BY <2>1, <2>3, <1>3 DEF Carries
  <2> QED BY <2>2, <2>3, Zenon
<1> QED BY <1>2, <1>4, <1>5, <1>6, Zenon

\* Sending a message adds that one only.
LEMMA SentOn ==
    ASSUME NEW w \in Wire, NEW n \in Node, NEW m0 \in Message
    PROVE  /\ Sent(w, n, m0) \in Wire
           /\ \A m : Carries(Sent(w, n, m0), m) => Carries(w, m) \/ m = m0
<1> DEFINE z == Sent(w, n, m0)
<1>1. z = [w EXCEPT ![n] = [h \in Node |->
               IF h \in next_hop(n, m0.to) /\ {n, h} \in links
               THEN Append(w[n][h], m0) ELSE w[n][h]]]
  BY Zenon DEF Sent, Wire
<1>2. \A s, d \in Node : z[s][d] = w[s][d] \/ z[s][d] = Append(w[s][d], m0)
  BY <1>1 DEF Wire
<1>3. \A s, d \in Node : w[s][d] \in Seq(Message)
  BY Zenon DEF Wire
<1>4. z \in Wire
  <2>1. \A h \in Node : w[n][h] \in Seq(Message) /\ Append(w[n][h], m0) \in Seq(Message)
    BY <1>3
  <2> QED BY <1>1, <2>1 DEF Wire
<1> HIDE DEF z
<1>5. ASSUME NEW m, Carries(z, m) PROVE Carries(w, m) \/ m = m0
  <2>0. PICK s \in Node, d \in Node :
            \E i \in 1 .. Len(z[s][d]) : z[s][d][i] = m
    BY <1>5, Zenon DEF Carries
  <2>1. PICK i \in 1 .. Len(z[s][d]) : z[s][d][i] = m
    BY <2>0, Zenon
  <2>2. CASE z[s][d] = w[s][d]
    BY <2>1, <2>2, Zenon DEF Carries
  <2>3. CASE z[s][d] = Append(w[s][d], m0)
    <3> DEFINE q == w[s][d]
    <3>1. q \in Seq(Message) /\ i \in 1 .. Len(Append(q, m0)) /\ Append(q, m0)[i] = m
      BY <2>1, <2>3, <1>3, Zenon
    <3> HIDE DEF q
    <3>2. (i \in 1 .. Len(q) /\ q[i] = m) \/ m = m0
      BY <3>1
    <3> QED BY <3>2, Zenon DEF Carries, q
  <2> QED BY <2>2, <2>3, <1>2, Zenon
<1> QED BY <1>4, <1>5, Zenon DEF z

\* A restart takes messages off the wire.
LEMMA CutOff ==
    ASSUME NEW w \in Wire, NEW n \in Node
    PROVE  LET z == [s \in Node |-> [d \in Node |->
                        IF n \in {s, d} THEN <<>> ELSE w[s][d]]] IN
           /\ z \in Wire
           /\ \A m : Carries(z, m) => Carries(w, m)
<1> DEFINE z == [s \in Node |-> [d \in Node |->
                    IF n \in {s, d} THEN <<>> ELSE w[s][d]]]
<1>1. \A s, d \in Node : z[s][d] = <<>> \/ z[s][d] = w[s][d]
  BY Zenon
<1>2. z \in Wire
  <2>1. \A s, d \in Node : w[s][d] \in Seq(Message)
    BY Zenon DEF Wire
  <2> QED BY <2>1 DEF Wire
<1> HIDE DEF z
<1>3. ASSUME NEW m, Carries(z, m) PROVE Carries(w, m)
  <2>0. PICK s \in Node, d \in Node :
            \E i \in 1 .. Len(z[s][d]) : z[s][d][i] = m
    BY <1>3, Zenon DEF Carries
  <2>1. PICK i \in 1 .. Len(z[s][d]) : z[s][d][i] = m
    BY <2>0, Zenon
  <2>2. z[s][d] # <<>>
    BY <2>1
  <2> QED BY <2>1, <2>2, <1>1, ZenonT(40) DEF Carries
<1> QED BY <1>2, <1>3, Zenon DEF z

---------------------------------------------------------------------------
\* Copies of one message: they differ in the hops left.
Like(x, y) == x.id = y.id /\ x.key = y.key /\ x.nonce = y.nonce

\* What is on the way in w is a copy of what is on the way in u.
From(w, u) ==
    \A x \in Message : Carries(w, x) =>
        \E y \in Message : Carries(u, y) /\ Like(x, y)

\* A handled message was refused, leaving the nonces and what was forwarded
\* alone, or it was no replay, is noted, and may have been forwarded.
Outcome(n, m, v) ==
    \/ /\ v.last_nonce = verifier[n].last_nonce
       /\ forwarded' = forwarded
    \/ /\ ~IsReplay(verifier[n], m.key, m.nonce)
       /\ v.last_nonce = Noted(verifier[n].last_nonce, m.key, m.nonce)
       /\ \/ forwarded' = forwarded
          \/ forwarded' = [forwarded EXCEPT ![n] = @ \cup
                               {[id |-> m.id, hops |-> m.hops_left]}]

\* check, whatever it decides, keeps to the types and has one of the outcomes
\* (relay.rs:240).
LEMMA CheckOutcome ==
    ASSUME RelayType, NEW n \in Node, NEW m \in Message, NEW v \in Verifier,
           Sized(v), v.last_nonce = verifier[n].last_nonce, Carries(wire, m),
           NEW rest \in Wire, \A x : Carries(rest, x) => Carries(wire, x),
           Check(n, m, v, m.key, rest)
    PROVE  /\ wire' \in Wire /\ From(wire', wire)
           /\ \E w \in Verifier : /\ Sized(w)
                                  /\ verifier' = [verifier EXCEPT ![n] = w]
                                  /\ Outcome(n, m, w)
<1> DEFINE r == RateEntry(v, m.key, clock)
<1>1. m.key \in Key /\ m.nonce \in Nat /\ m.hops_left \in 0 .. MaxHops
  BY Zenon DEF Message
<1>2. clock \in Nat
  BY Bounds DEF RelayType, TypeOK
<1>3. r \in RateRecord
  BY <1>1, <1>2, RateEntryType, Zenon
<1>4. IsReplay(v, m.key, m.nonce) = IsReplay(verifier[n], m.key, m.nonce)
  BY Zenon DEF IsReplay
<1>5. From(rest, wire)
  BY Zenon DEF From, Like
<1> HIDE DEF r
<1>6. CASE IsReplay(v, m.key, m.nonce)
  BY <1>6, <1>5, Zenon DEF Check, Outcome
<1>7. CASE ~IsReplay(v, m.key, m.nonce) /\ ~IsFresh(m.timestamp, clock)
  BY <1>7, <1>5, Zenon DEF Check, Outcome
<1>8. CASE ~IsReplay(v, m.key, m.nonce) /\ IsFresh(m.timestamp, clock) /\ Exhausted(r)
  <2>1. WithRate(v, r) \in Verifier /\ Sized(WithRate(v, r))
            /\ WithRate(v, r).last_nonce = v.last_nonce
    BY <1>3, WithRateType, Zenon
  <2>2. verifier' = [verifier EXCEPT ![n] = WithRate(v, r)] /\ wire' = rest
            /\ forwarded' = forwarded
    BY <1>8, Zenon DEF Check, r
  <2> QED BY <2>1, <2>2, <1>5, Zenon DEF Outcome
<1>9. CASE ~IsReplay(v, m.key, m.nonce) /\ IsFresh(m.timestamp, clock) /\ ~Exhausted(r)
  <2> DEFINE w == Admit(v, m.key, m.nonce, r)
  <2>1. /\ w \in Verifier /\ Sized(w)
        /\ w.last_nonce = Noted(verifier[n].last_nonce, m.key, m.nonce)
    BY <1>1, <1>3, <1>9, AdmitType
  <2>2. /\ verifier' = [verifier EXCEPT ![n] = w]
        /\ \/ wire' = rest /\ forwarded' = forwarded
           \/ /\ m.hops_left # 0
              /\ wire' = Sent(rest, n, OneHopLess(m))
              /\ forwarded' = [forwarded EXCEPT ![n] = @ \cup
                                   {[id |-> m.id, hops |-> m.hops_left]}]
    <3>1. ~Exhausted(RateEntry(v, m.key, clock))
      BY <1>9, Zenon DEF r
    <3>2. /\ verifier' = [verifier EXCEPT ![n] =
                             Admit(v, m.key, m.nonce, RateEntry(v, m.key, clock))]
          /\ IF \/ m.to = n \/ ~valid_inbound_hops(m.hops_left)
                \/ m.hops_left = 0 \/ next_hop(n, m.to) = {}
             THEN wire' = rest /\ UNCHANGED forwarded
             ELSE /\ wire' = Sent(rest, n, OneHopLess(m))
                  /\ forwarded' = [forwarded EXCEPT ![n] = @ \cup
                                      {[id |-> m.id, hops |-> m.hops_left]}]
      BY <3>1, <1>9, Zenon DEF Check
    <3> QED BY <3>2, Zenon DEF r
  <2> HIDE DEF w
  <2>3. Outcome(n, m, w)
    BY <2>1, <2>2, <1>9, <1>4, Zenon DEF Outcome
  <2>4. CASE wire' = rest
    BY <2>1, <2>2, <2>3, <2>4, <1>5, Zenon
  <2>5. CASE m.hops_left # 0 /\ wire' = Sent(rest, n, OneHopLess(m))
    <3>1. OneHopLess(m) \in Message /\ Like(OneHopLess(m), m)
      BY <2>5, <1>1, Bounds DEF OneHopLess, Message, Like
    <3>2. /\ wire' \in Wire
          /\ \A x : Carries(wire', x) => Carries(rest, x) \/ x = OneHopLess(m)
      BY <3>1, <2>5, SentOn, Zenon
    <3>3. From(wire', wire)
      BY <3>1, <3>2, Zenon DEF From, Like
    <3> QED BY <2>1, <2>2, <2>3, <3>2, <3>3, Zenon
  <2> QED BY <2>2, <2>4, <2>5, Zenon
<1> QED BY <1>6, <1>7, <1>8, <1>9, Zenon

\* So does the handling of a message that arrives.
LEMMA Handled ==
    ASSUME RelayType, NEW n \in Node, NEW src \in Node,
           handle_relay_message(n, src)
    PROVE  /\ wire' \in Wire /\ From(wire', wire)
           /\ \E m \in Message, w \in Verifier :
                  /\ Carries(wire, m)
                  /\ Sized(w)
                  /\ verifier' = [verifier EXCEPT ![n] = w]
                  /\ Outcome(n, m, w)
<1> DEFINE m        == Head(wire[src][n])
           rest     == [wire EXCEPT ![src][n] = Tail(@)]
           onRecord == {e[3] : e \in {f \in KnownKeys :
                                         f[1] = n /\ f[2] = m.from}}
           v        == IF onRecord # {} THEN verifier[n]
                       ELSE Pinned(verifier[n], m.from, m.key)
<1>1. wire \in Wire /\ verifier \in [Node -> Verifier] /\ Sized(verifier[n])
  BY Zenon DEF RelayType, TypeOK, Wire
<1>2. wire[src][n] # <<>>
  BY Zenon DEF handle_relay_message
<1>3. rest \in Wire /\ m \in Message /\ Carries(wire, m)
          /\ \A x : Carries(rest, x) => Carries(wire, x)
  BY <1>1, <1>2, TakenOff, Zenon
<1>4. \/ wire' = rest /\ verifier' = verifier /\ forwarded' = forwarded
      \/ Check(n, m, v, m.key, rest)
  BY Zenon DEF handle_relay_message
<1> HIDE DEF m, rest, onRecord
<1>5. CASE wire' = rest /\ verifier' = verifier /\ forwarded' = forwarded
  <2>1. From(wire', wire)
    BY <1>3, <1>5, Zenon DEF From, Like
  <2>2. verifier' = [verifier EXCEPT ![n] = verifier[n]]
    BY <1>1, <1>5, Zenon
  <2> QED BY <1>1, <1>3, <1>5, <2>1, <2>2, Zenon DEF Outcome
<1>6. CASE Check(n, m, v, m.key, rest)
  <2>1. m.from \in Node /\ m.key \in Key
    BY <1>3, Zenon DEF Message
  <2>2. v \in Verifier /\ Sized(v) /\ v.last_nonce = verifier[n].last_nonce
    BY <1>1, <2>1, PinnedType, Zenon
  <2> HIDE DEF v
  <2> QED BY <1>3, <1>6, <2>2, CheckOutcome, Zenon
<1> QED BY <1>4, <1>5, <1>6, Zenon

---------------------------------------------------------------------------
\* The identity keys there can be: a node has at most one more with each restart.
Keys == Node \X (0 .. MaxStarts)

\* At most one entry for each of them.
OnePerKey(table) ==
    \A d, e \in table : d.key \in Keys /\ (d.key = e.key => d = e)

KeysCounted ==
    /\ starts \in 0 .. MaxStarts
    /\ \A n \in Node : identity[n] <= starts
    /\ \A x \in Message : Carries(wire, x) => x.key \in Keys
    /\ \A n \in Node : OnePerKey(verifier[n].last_nonce)

\* A number identifies a message, and new ones get new numbers.
Identified ==
    /\ \A x \in Message : Carries(wire, x) => x.id <= sends
    /\ \A x, y \in Message :
           Carries(wire, x) /\ Carries(wire, y) /\ x.id = y.id => Like(x, y)

\* Every copy of a message is a replay to the nodes that forwarded it.
Seen(fs, w, v, count) ==
    \A f \in fs :
        /\ f.id \in Nat /\ f.id <= count
        /\ \A x \in Message : Carries(w, x) /\ x.id = f.id
                                  => IsReplay(v, x.key, x.nonce)

RelayInv ==
    /\ RelayType
    /\ KeysCounted
    /\ Identified
    /\ DOMAIN forwarded = Node
    /\ \A n \in Node : Seen(forwarded[n], wire, verifier[n], sends)
    /\ ForwardsOnce

\* The first state has the types.
LEMMA RelayTypeInit == Init => RelayType
<1> SUFFICES ASSUME Init PROVE RelayType
  BY Zenon
<1>1. IsFiniteSet({}) /\ Cardinality({}) = 0
  BY FS_EmptySet, Zenon
<1>2. NewVerifier \in Verifier /\ Sized(NewVerifier)
  BY <1>1, Bounds DEF NewVerifier, Verifier, Sized
<1>3. verifier \in [Node -> Verifier] /\ \A n \in Node : verifier[n] = NewVerifier
  BY <1>2, Zenon DEF Init
<1>4. sends \in Nat /\ wire \in [Node -> [Node -> Seq(Message)]]
  BY DEF Init
<1>5. TypeOK
  BY <1>1, <1>2, <1>3, <1>4, Bounds DEF Init, TypeOK, Verifier, Sized, RateRecord
<1> QED BY <1>2, <1>3, <1>4, <1>5, Zenon DEF RelayType

\* The verifiers and the wires of a state have their types; the rest is counted.
LEMMA RelayTypeFrom ==
    ASSUME verifier' \in [Node -> Verifier], \A n \in Node : Sized(verifier'[n]),
           wire' \in Wire, clock' \in 0 .. MaxClock,
           links' \subseteq Links \cup LateLinks,
           identity' \in [Node -> Nat], relay_nonce' \in [Node -> Nat],
           sends' \in Nat
    PROVE  RelayType'
BY Zenon DEF RelayType, TypeOK, Wire, Verifier, Sized, RateRecord

\* The message send_relay makes (app.rs:183).
NewMessage(n, to) ==
    [id |-> sends + 1, from |-> n, to |-> to, key |-> <<n, identity[n]>>,
     nonce |-> relay_nonce[n] + 1, timestamp |-> clock, hops_left |-> MaxHops]

\* It is a message, and the only one that is new on the wires.
LEMMA NewIsSent ==
    ASSUME RelayType, NEW n \in Node, NEW to \in Node, send_relay(n, to)
    PROVE  /\ NewMessage(n, to) \in Message
           /\ wire' \in Wire
           /\ \A x : Carries(wire', x) => Carries(wire, x) \/ x = NewMessage(n, to)
<1>1. NewMessage(n, to) \in Message
  BY Bounds DEF NewMessage, Message, RelayType, TypeOK
<1>2. wire \in Wire /\ wire' = Sent(wire, n, NewMessage(n, to))
  BY Zenon DEF send_relay, NewMessage, RelayType, TypeOK, Wire
<1> QED BY <1>1, <1>2, SentOn, Zenon

\* Every step keeps to the types and the caps.
LEMMA RelayTypeStep == RelayType /\ [Next]_vars => RelayType'
<1> SUFFICES ASSUME RelayType, [Next]_vars PROVE RelayType'
  BY Zenon
<1>1. /\ verifier \in [Node -> Verifier] /\ \A n \in Node : Sized(verifier[n])
      /\ wire \in Wire /\ clock \in 0 .. MaxClock
      /\ links \subseteq Links \cup LateLinks
      /\ identity \in [Node -> Nat] /\ relay_nonce \in [Node -> Nat]
      /\ sends \in Nat
  BY Zenon DEF RelayType, TypeOK, Wire
<1>2. CASE Tick
  BY <1>1, <1>2, Bounds, RelayTypeFrom DEF Tick
<1>3. ASSUME NEW l \in LateLinks, Connect(l) PROVE RelayType'
  BY <1>1, <1>3, RelayTypeFrom, Zenon DEF Connect
<1>4. ASSUME NEW n \in Node, NEW to \in Node, send_relay(n, to) PROVE RelayType'
  <2>1. wire' \in Wire
    BY <1>4, NewIsSent, Zenon
  <2>2. /\ verifier' = verifier /\ clock' = clock /\ links' = links
        /\ identity' = identity /\ relay_nonce' \in [Node -> Nat] /\ sends' \in Nat
    BY <1>1, <1>4 DEF send_relay
  <2> QED BY <1>1, <2>1, <2>2, RelayTypeFrom, Zenon
<1>5. ASSUME NEW n \in Node, NEW src \in Node, handle_relay_message(n, src)
      PROVE  RelayType'
  <2>1. wire' \in Wire
    BY <1>5, Handled, Zenon
  <2>2. PICK w \in Verifier : Sized(w) /\ verifier' = [verifier EXCEPT ![n] = w]
    BY <1>5, Handled, Zenon
  <2>3. /\ clock' = clock /\ links' = links /\ identity' = identity
        /\ relay_nonce' = relay_nonce /\ sends' = sends
    BY <1>5, Zenon DEF handle_relay_message
  <2>4. verifier' \in [Node -> Verifier] /\ \A o \in Node : Sized(verifier'[o])
    BY <1>1, <2>2, Zenon
  <2> QED BY <1>1, <2>1, <2>3, <2>4, RelayTypeFrom, Zenon
<1>6. ASSUME NEW n \in Node, NEW key \in {identity[n], identity[n] + 1},
             Restart(n, key)
      PROVE  RelayType'
  <2>1. wire' \in Wire
    BY <1>1, <1>6, CutOff, Zenon DEF Restart
  <2>2. IsFiniteSet({}) /\ Cardinality({}) = 0
    BY FS_EmptySet, Zenon
  <2>3. NewVerifier \in Verifier /\ Sized(NewVerifier)
    BY <2>2, Bounds DEF NewVerifier, Verifier, Sized
  <2>4. verifier' \in [Node -> Verifier] /\ \A o \in Node : Sized(verifier'[o])
    BY <1>1, <1>6, <2>3, Zenon DEF Restart
  <2>5. /\ clock' = clock /\ links' = links /\ sends' = sends
        /\ identity' \in [Node -> Nat] /\ relay_nonce' \in [Node -> Nat]
    BY <1>1, <1>6 DEF Restart
  <2> QED BY <1>1, <2>1, <2>4, <2>5, RelayTypeFrom, Zenon
<1>7. CASE UNCHANGED vars
  BY <1>1, <1>7, RelayTypeFrom, Zenon DEF vars
<1>8. \A d \in Drafts : d[1] \in Node /\ d[2] \in Node
  BY DraftAssumption, Zenon
<1> QED BY <1>2, <1>3, <1>4, <1>5, <1>6, <1>7, <1>8, Zenon DEF Next

\* The tables of every verifier keep within MAX_RELAY_TRACKED and MAX_RELAY_PINS
\* entries, its rate counters within RELAY_MAX_PER_WINDOW, and hop counts within
\* RELAY_MAX_HOPS, whatever arrives (relay.rs:24, :38).
THEOREM TablesBounded == Spec => []TypeOK
<1>1. Spec => []RelayType
  BY RelayTypeInit, RelayTypeStep, PTL DEF Spec
<1>2. RelayType => TypeOK
  BY Zenon DEF RelayType
<1> QED BY <1>1, <1>2, PTL

---------------------------------------------------------------------------
\* The nonce table has room for more identity keys than there can be.
Roomy == IsFiniteSet(Node) /\ Cardinality(Node) * (MaxStarts + 1) < MaxTracked

\* Then it is never cleared.
LEMMA NeverCleared ==
    ASSUME Roomy, NEW table, OnePerKey(table)
    PROVE  Room(table, MaxTracked) = table
<1> DEFINE f == [e \in table |-> e.key]
<1>1. f \in Injection(table, Keys)
  BY Zenon DEF Injection, IsInjective, OnePerKey
<1>2. IsFiniteSet(0 .. MaxStarts) /\ Cardinality(0 .. MaxStarts) = MaxStarts + 1
  BY FS_Interval, Bounds
<1>3. /\ IsFiniteSet(Keys)
      /\ Cardinality(Keys) = Cardinality(Node) * Cardinality(0 .. MaxStarts)
  BY <1>2, FS_Product, Zenon DEF Keys, Roomy
<1>4. IsFiniteSet(table) /\ Cardinality(table) <= Cardinality(Keys)
  BY <1>1, <1>3, FS_Injection, Zenon
<1>5. Cardinality(table) \in Nat /\ Cardinality(Keys) \in Nat
  BY <1>3, <1>4, FS_CardinalityType, Zenon
<1>6. Cardinality(Keys) < MaxTracked
  BY <1>2, <1>3, Zenon DEF Roomy
<1>7. ~(Cardinality(table) >= MaxTracked)
  BY <1>4, <1>5, <1>6, Bounds
<1> QED BY <1>7, Zenon DEF Room

\* Noting a nonce keeps one entry per key, and what was a replay stays one.
LEMMA NotedKeeps ==
    ASSUME Roomy, NEW v \in Verifier, OnePerKey(v.last_nonce), NEW w \in Verifier,
           NEW m \in Message, m.key \in Keys, ~IsReplay(v, m.key, m.nonce),
           w.last_nonce = Noted(v.last_nonce, m.key, m.nonce)
    PROVE  /\ OnePerKey(w.last_nonce)
           /\ IsReplay(w, m.key, m.nonce)
           /\ \A key \in Key, nonce \in Nat :
                  IsReplay(v, key, nonce) => IsReplay(w, key, nonce)
<1>1. Room(v.last_nonce, MaxTracked) = v.last_nonce
  BY NeverCleared, Zenon
<1>2. w.last_nonce = {e \in v.last_nonce : e.key # m.key}
                         \cup {[key |-> m.key, nonce |-> m.nonce]}
  BY <1>1, Zenon DEF Noted
<1>3. v.last_nonce \subseteq [key : Key, nonce : Nat] /\ m.nonce \in Nat
  BY Zenon DEF Verifier, Message
<1> DEFINE entry == [key |-> m.key, nonce |-> m.nonce]
<1>0. /\ entry.key = m.key /\ entry.nonce = m.nonce /\ entry \in w.last_nonce
      /\ \A e \in w.last_nonce : e = entry \/ (e \in v.last_nonce /\ e.key # m.key)
      /\ \A e \in v.last_nonce : e.key # m.key => e \in w.last_nonce
  BY <1>2, Zenon
<1> HIDE DEF entry
<1>4. OnePerKey(w.last_nonce)
  <2>1. \A d \in w.last_nonce : d.key \in Keys
    BY <1>0, Zenon DEF OnePerKey
  <2>2. ASSUME NEW d \in w.last_nonce, NEW e \in w.last_nonce, d.key = e.key
        PROVE  d = e
    BY <2>2, <1>0, Zenon DEF OnePerKey
  <2> QED BY <2>1, <2>2, Zenon DEF OnePerKey
<1>5. IsReplay(w, m.key, m.nonce)
  BY <1>0, <1>3 DEF IsReplay
<1>6. ASSUME NEW key \in Key, NEW nonce \in Nat, IsReplay(v, key, nonce)
      PROVE  IsReplay(w, key, nonce)
  <2>1. PICK e \in v.last_nonce : e.key = key /\ nonce <= e.nonce
    BY <1>6, Zenon DEF IsReplay
  <2>2. CASE key # m.key
    BY <2>1, <2>2, <1>0, Zenon DEF IsReplay
  <2>3. CASE key = m.key
    <3>1. ~(m.nonce <= e.nonce)
      BY <2>1, <2>3, Zenon DEF IsReplay
    <3>2. nonce <= m.nonce
      BY <2>1, <3>1, <1>3
    <3> QED BY <3>2, <2>3, <1>0, Zenon DEF IsReplay
  <2> QED BY <2>2, <2>3, Zenon
<1> QED BY <1>4, <1>5, <1>6, Zenon

\* Fewer messages on the way, or copies of them, keep what a node has seen.
LEMMA SeenFrom ==
    ASSUME NEW fs, NEW w, NEW u, NEW v, NEW count, Seen(fs, w, v, count), From(u, w)
    PROVE  Seen(fs, u, v, count)
BY DEF Seen, From, Like

\* So does a verifier that takes at least as much for a replay.
LEMMA SeenStays ==
    ASSUME NEW fs, NEW w, NEW v, NEW z, NEW count, Seen(fs, w, v, count),
           \A key \in Key, nonce \in Nat : IsReplay(v, key, nonce) => IsReplay(z, key, nonce)
    PROVE  Seen(fs, w, z, count)
BY Zenon DEF Seen, Message

\* The invariant holds at first.
LEMMA RelayInvInit == Init => RelayInv
<1> SUFFICES ASSUME Init PROVE RelayInv
  BY Zenon
<1>1. RelayType
  BY RelayTypeInit, Zenon
<1>2. \A s, d \in Node : wire[s][d] = <<>>
  BY Zenon DEF Init
<1>3. \A x : ~Carries(wire, x)
  BY <1>2 DEF Carries
<1>4. \A n \in Node : verifier[n].last_nonce = {} /\ forwarded[n] = {}
  BY Zenon DEF Init, NewVerifier
<1>5. KeysCounted
  BY <1>3, <1>4, Bounds DEF Init, KeysCounted, OnePerKey
<1> QED BY <1>1, <1>3, <1>4, <1>5, Zenon DEF RelayInv, Identified, Seen, ForwardsOnce,
            Init

\* A message handled keeps the invariant: it was no replay, so the node had
\* not forwarded it; and from now on its copies are.
LEMMA HandleKeeps ==
    ASSUME Roomy, RelayInv, RelayType', NEW n \in Node, NEW src \in Node,
           handle_relay_message(n, src)
    PROVE  RelayInv'
<1>1. /\ RelayType /\ KeysCounted /\ Identified /\ DOMAIN forwarded = Node
      /\ \A o \in Node : Seen(forwarded[o], wire, verifier[o], sends)
      /\ \A o \in Node : verifier[o] \in Verifier
  BY Zenon DEF RelayInv, RelayType
<1>2. PICK m \in Message, w \in Verifier :
          /\ Carries(wire, m) /\ Sized(w)
          /\ verifier' = [verifier EXCEPT ![n] = w]
          /\ Outcome(n, m, w)
  BY <1>1, Handled, Zenon
<1>3. From(wire', wire)
  BY <1>1, Handled, Zenon
<1>4. sends' = sends /\ starts' = starts /\ identity' = identity
  BY Zenon DEF handle_relay_message
<1>5. m.key \in Keys /\ m.key \in Key /\ m.nonce \in Nat /\ m.id \in Nat /\ m.id <= sends
  BY <1>1, <1>2, Zenon DEF KeysCounted, Identified, Message
<1>6. \A o \in Node : verifier'[o] = IF o = n THEN w ELSE verifier[o]
  BY <1>1, <1>2, Zenon DEF RelayType
<1>7. OnePerKey(verifier[n].last_nonce)
  BY <1>1, Zenon DEF KeysCounted
<1>8. \/ w.last_nonce = verifier[n].last_nonce
      \/ /\ ~IsReplay(verifier[n], m.key, m.nonce)
         /\ w.last_nonce = Noted(verifier[n].last_nonce, m.key, m.nonce)
  BY <1>2, Zenon DEF Outcome
<1>9. /\ OnePerKey(w.last_nonce)
      /\ \A key \in Key, nonce \in Nat :
             IsReplay(verifier[n], key, nonce) => IsReplay(w, key, nonce)
  <2>1. CASE w.last_nonce = verifier[n].last_nonce
    BY <2>1, <1>7, Zenon DEF IsReplay
  <2>2. CASE /\ ~IsReplay(verifier[n], m.key, m.nonce)
             /\ w.last_nonce = Noted(verifier[n].last_nonce, m.key, m.nonce)
    BY <2>2, <1>1, <1>2, <1>5, <1>7, NotedKeeps, Zenon
  <2> QED BY <1>8, <2>1, <2>2, Zenon
<1>10. KeysCounted'
  <2>1. \A x \in Message : Carries(wire', x) => x.key \in Keys
    BY <1>1, <1>3, Zenon DEF KeysCounted, From, Like
  <2>2. \A o \in Node : OnePerKey(verifier'[o].last_nonce)
    BY <1>1, <1>6, <1>9, Zenon DEF KeysCounted
  <2> QED BY <1>1, <1>4, <2>1, <2>2, Zenon DEF KeysCounted
<1>11. Identified'
  <2>1. \A x \in Message : Carries(wire', x) => x.id <= sends
    BY <1>1, <1>3, Zenon DEF Identified, From, Like
  <2>2. ASSUME NEW x \in Message, NEW y \in Message, Carries(wire', x),
               Carries(wire', y), x.id = y.id
        PROVE  Like(x, y)
    <3>1. PICK a \in Message : Carries(wire, a) /\ Like(x, a)
      BY <1>3, <2>2, Zenon DEF From
    <3>2. PICK b \in Message : Carries(wire, b) /\ Like(y, b)
      BY <1>3, <2>2, Zenon DEF From
    <3>3. Like(a, b)
      BY <1>1, <2>2, <3>1, <3>2, Zenon DEF Identified, Like
    <3> QED BY <3>1, <3>2, <3>3, Zenon DEF Like
  <2> QED BY <1>4, <2>1, <2>2, Zenon DEF Identified
<1>12. \A o \in Node : Seen(forwarded[o], wire', verifier'[o], sends)
  <2>1. \A o \in Node : Seen(forwarded[o], wire, verifier'[o], sends)
    BY <1>1, <1>6, <1>9, SeenStays, Zenon
  <2> QED BY <2>1, <1>3, SeenFrom, Zenon
<1>13. CASE forwarded' = forwarded
  <2>1. ForwardsOnce'
    BY <1>13, Zenon DEF RelayInv, ForwardsOnce
  <2> QED BY <1>1, <1>4, <1>10, <1>11, <1>12, <1>13, <2>1, Zenon DEF RelayInv
<1>14. CASE /\ ~IsReplay(verifier[n], m.key, m.nonce)
            /\ w.last_nonce = Noted(verifier[n].last_nonce, m.key, m.nonce)
            /\ forwarded' = [forwarded EXCEPT ![n] = @ \cup
                                 {[id |-> m.id, hops |-> m.hops_left]}]
  <2> DEFINE new == [id |-> m.id, hops |-> m.hops_left]
  <2>1. new.id = m.id
    BY Zenon
  <2>2. /\ DOMAIN forwarded' = Node
        /\ \A o \in Node : forwarded'[o] =
               IF o = n THEN forwarded[n] \cup {new} ELSE forwarded[o]
    BY <1>1, <1>14, Zenon
  <2> HIDE DEF new
  <2>3. IsReplay(w, m.key, m.nonce)
    BY <1>1, <1>2, <1>5, <1>7, <1>14, NotedKeeps, Zenon
  <2>4. ASSUME NEW x \in Message, Carries(wire', x), x.id = m.id
        PROVE  IsReplay(w, x.key, x.nonce)
    <3>1. PICK a \in Message : Carries(wire, a) /\ Like(x, a)
      BY <1>3, <2>4, Zenon DEF From
    <3>2. Like(a, m)
      BY <1>1, <1>2, <2>4, <3>1, Zenon DEF Identified, Like
    <3> QED BY <3>1, <3>2, <2>3, Zenon DEF Like
  <2>5. Seen(forwarded[n] \cup {new}, wire', w, sends)
    <3>1. Seen(forwarded[n], wire', w, sends)
      BY <1>6, <1>12, Zenon
    <3> QED BY <3>1, <2>1, <2>4, <1>5, Zenon DEF Seen
  <2>6. \A o \in Node : Seen(forwarded'[o], wire', verifier'[o], sends)
    BY <1>6, <1>12, <2>2, <2>5, Zenon
  <2>7. \A f \in forwarded[n] : f.id # m.id
    BY <1>1, <1>2, <1>14, Zenon DEF Seen
  <2>8. ForwardsOnce'
    BY <2>1, <2>2, <2>7, ZenonT(40) DEF RelayInv, ForwardsOnce
  <2> QED BY <1>4, <1>10, <1>11, <2>2, <2>6, <2>8, Zenon DEF RelayInv
<1> QED BY <1>2, <1>13, <1>14, Zenon DEF Outcome

\* A new message has a number no node has forwarded.
LEMMA SendKeeps ==
    ASSUME RelayInv, RelayType', NEW n \in Node, NEW to \in Node, send_relay(n, to)
    PROVE  RelayInv'
<1> DEFINE new == NewMessage(n, to)
<1>1. /\ RelayType /\ KeysCounted /\ Identified /\ DOMAIN forwarded = Node
      /\ \A o \in Node : Seen(forwarded[o], wire, verifier[o], sends)
      /\ ForwardsOnce
  BY Zenon DEF RelayInv
<1>2. /\ new \in Message
      /\ \A x : Carries(wire', x) => Carries(wire, x) \/ x = new
  BY <1>1, NewIsSent, Zenon
<1>3. /\ sends' = sends + 1 /\ starts' = starts /\ identity' = identity
      /\ verifier' = verifier /\ forwarded' = forwarded
  BY Zenon DEF send_relay
<1>4. sends \in Nat /\ identity[n] \in Nat /\ \A x \in Message : x.id \in Nat
  BY <1>1, Zenon DEF RelayType, TypeOK, Message
<1>5. new.id = sends + 1 /\ new.key = <<n, identity[n]>>
  BY Zenon DEF NewMessage
<1> HIDE DEF new
<1>6. new.key \in Keys
  BY <1>1, <1>4, <1>5, Bounds DEF KeysCounted, Keys
<1>7. KeysCounted'
  BY <1>1, <1>2, <1>3, <1>6, Zenon DEF KeysCounted
<1>8. \A x \in Message : Carries(wire, x) => x.id <= sends
  BY <1>1, Zenon DEF Identified
<1>9. Identified'
  <2>1. \A x \in Message : Carries(wire', x) => x.id <= sends'
    BY <1>2, <1>3, <1>4, <1>5, <1>8
  <2>2. ASSUME NEW x \in Message, NEW y \in Message, Carries(wire', x),
               Carries(wire', y), x.id = y.id
        PROVE  Like(x, y)
    <3>1. CASE x = new /\ y = new
      BY <3>1, Zenon DEF Like
    <3>2. CASE Carries(wire, x) /\ Carries(wire, y)
      BY <3>2, <2>2, <1>1, Zenon DEF Identified
    <3>3. ~(x = new /\ Carries(wire, y)) /\ ~(y = new /\ Carries(wire, x))
      BY <2>2, <1>4, <1>5, <1>8
    <3> QED BY <3>1, <3>2, <3>3, <2>2, <1>2, Zenon
  <2> QED BY <2>1, <2>2, Zenon DEF Identified
<1>10. ASSUME NEW o \in Node PROVE Seen(forwarded'[o], wire', verifier'[o], sends')
  <2>1. \A f \in forwarded[o] : f.id \in Nat /\ f.id <= sends
    BY <1>1, Zenon DEF Seen
  <2>2. ASSUME NEW f \in forwarded[o], NEW x \in Message, Carries(wire', x),
               x.id = f.id
        PROVE  IsReplay(verifier[o], x.key, x.nonce)
    <3>1. x # new
      BY <2>1, <2>2, <1>4, <1>5
    <3> QED BY <3>1, <2>2, <1>1, <1>2, Zenon DEF Seen
  <2> QED BY <2>1, <2>2, <1>3, <1>4 DEF Seen
<1>11. ForwardsOnce' /\ DOMAIN forwarded' = Node
  BY <1>1, <1>3, Zenon DEF ForwardsOnce
<1> QED BY <1>7, <1>9, <1>10, <1>11, Zenon DEF RelayInv

\* A restarted node has forwarded nothing and may have one more key.
LEMMA RestartKeeps ==
    ASSUME RelayInv, RelayType', NEW n \in Node,
           NEW key \in {identity[n], identity[n] + 1}, Restart(n, key)
    PROVE  RelayInv'
<1>1. /\ RelayType /\ KeysCounted /\ Identified /\ DOMAIN forwarded = Node
      /\ \A o \in Node : Seen(forwarded[o], wire, verifier[o], sends)
      /\ ForwardsOnce /\ wire \in Wire
      /\ verifier \in [Node -> Verifier] /\ identity \in [Node -> Nat]
  BY Zenon DEF RelayInv, RelayType, TypeOK, Wire
<1>2. \A x : Carries(wire', x) => Carries(wire, x)
  BY <1>1, CutOff, Zenon DEF Restart
<1>3. /\ sends' = sends /\ starts' = starts + 1 /\ starts < MaxStarts
      /\ DOMAIN forwarded' = Node
      /\ \A o \in Node :
             /\ identity'[o] = IF o = n THEN key ELSE identity[o]
             /\ verifier'[o] = IF o = n THEN NewVerifier ELSE verifier[o]
             /\ forwarded'[o] = IF o = n THEN {} ELSE forwarded[o]
  BY <1>1, Zenon DEF Restart
<1>4. From(wire', wire)
  BY <1>2, Zenon DEF From, Like
<1>5. KeysCounted'
  <2>1. starts' \in 0 .. MaxStarts /\ \A o \in Node : identity'[o] <= starts'
    BY <1>1, <1>3, Bounds DEF KeysCounted
  <2>2. OnePerKey(NewVerifier.last_nonce)
    BY Zenon DEF NewVerifier, OnePerKey
  <2>3. \A o \in Node : OnePerKey(verifier'[o].last_nonce)
    BY <1>1, <1>3, <2>2, Zenon DEF KeysCounted
  <2> QED BY <1>1, <1>2, <2>1, <2>3, Zenon DEF KeysCounted
<1>6. Identified'
  BY <1>1, <1>2, <1>3, Zenon DEF Identified
<1>7. ASSUME NEW o \in Node PROVE Seen(forwarded'[o], wire', verifier'[o], sends')
  <2>1. CASE o = n
    BY <2>1, <1>3, Zenon DEF Seen
  <2>2. CASE o # n
    BY <2>2, <1>1, <1>3, <1>4, SeenFrom, Zenon
  <2> QED BY <2>1, <2>2, Zenon
<1>8. ForwardsOnce'
  BY <1>1, <1>3, Zenon DEF ForwardsOnce
<1> QED BY <1>3, <1>5, <1>6, <1>7, <1>8, Zenon DEF RelayInv

\* The invariant is inductive.
LEMMA RelayInvStep == Roomy /\ RelayInv /\ [Next]_vars => RelayInv'
<1> SUFFICES ASSUME Roomy, RelayInv, [Next]_vars PROVE RelayInv'
  BY Zenon
<1>1. RelayType'
  BY RelayTypeStep, Zenon DEF RelayInv
<1>2. ASSUME UNCHANGED <<identity, verifier, wire, sends, starts, forwarded>>
      PROVE  RelayInv'
  BY <1>1, <1>2, Zenon DEF RelayInv, KeysCounted, Identified, ForwardsOnce
<1>3. \A d \in Drafts : d[1] \in Node /\ d[2] \in Node
  BY DraftAssumption, Zenon
<1>4. CASE Tick
  BY <1>2, <1>4, Zenon DEF Tick
<1>5. ASSUME NEW l \in LateLinks, Connect(l) PROVE RelayInv'
  BY <1>2, <1>5, Zenon DEF Connect
<1>6. CASE \E d \in Drafts : send_relay(d[1], d[2])
  BY <1>1, <1>3, <1>6, SendKeeps, Zenon
<1>7. CASE \E n, src \in Node : handle_relay_message(n, src)
  BY <1>1, <1>7, HandleKeeps, Zenon
<1>8. CASE \E n \in Node : \E key \in {identity[n], identity[n] + 1} : Restart(n, key)
  BY <1>1, <1>8, RestartKeeps, Zenon
<1>9. CASE UNCHANGED vars
  BY <1>2, <1>9, Zenon DEF vars
<1> QED BY <1>4, <1>5, <1>6, <1>7, <1>8, <1>9, Zenon DEF Next

\* Wherever the routes lead, a relay forwards a message at most once, as long as
\* its nonce table is not filled by the identity keys of all nodes together
\* (relay.rs:247; a full table is cleared, relay.rs:275).
THEOREM ForwardedOnce == ASSUME Roomy PROVE Spec => []ForwardsOnce
<1>1. Init => RelayInv
  BY RelayInvInit, Zenon
<1>2. RelayInv /\ [Next]_vars => RelayInv'
  BY RelayInvStep, Zenon
<1>3. RelayInv => ForwardsOnce
  BY Zenon DEF RelayInv
<1> QED BY <1>1, <1>2, <1>3, PTL DEF Spec
===========================================================================
