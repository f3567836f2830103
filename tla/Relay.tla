------------------------------- MODULE Relay -------------------------------
(***************************************************************************)
(* Relayed messages: AppState::send_relay and ::handle_relay_message of     *)
(* app.rs with the router and the admission control of net/relay.rs.        *)
(*                                                                          *)
(* A message is signed by its originator's identity key; its hop count is   *)
(* not signed.  Verification under a key succeeds when the message was      *)
(* signed with it.  Requests and responses are treated alike.  Every        *)
(* message carries, besides what is sent, a number that identifies it.      *)
(***************************************************************************)
EXTENDS Integers, FiniteSets, Sequences

CONSTANTS Node,          \* the uids
          Route,         \* RelayRouter: <<n, target, hop>>, one per n and target
          Links,         \* {n, m}: connected from the start
          LateLinks,     \* {n, m}: connected at some time
          KnownKeys,     \* <<n, uid, key>>: known_peer_keys of n
          Drafts,        \* <<from, to>>: what users send
          MaxHops,       \* RELAY_MAX_HOPS
          MaxAge,        \* RELAY_MAX_AGE_SECS
          RateWindow,    \* RELAY_RATE_WINDOW_SECS
          MaxPerWindow,  \* RELAY_MAX_PER_WINDOW
          MaxTracked,    \* MAX_RELAY_TRACKED
          MaxPins,       \* MAX_RELAY_PINS
          MaxSends,      \* bound on the messages sent
          MaxClock,      \* bound on the time
          MaxStarts      \* bound on the restarts of all nodes together

ASSUME RouteAssumption == Route \subseteq Node \X Node \X Node
ASSUME LinkAssumption  == Links \cup LateLinks \subseteq SUBSET Node
ASSUME DraftAssumption == Drafts \subseteq Node \X Node
ASSUME BoundAssumption ==
    \A b \in {MaxHops, MaxAge, RateWindow, MaxPerWindow, MaxTracked, MaxPins,
              MaxSends, MaxClock, MaxStarts} : b \in Nat
ASSUME TableAssumption == MaxTracked # 0 /\ MaxPins # 0

VARIABLES clock,
          links,        \* the connections
          identity,     \* per node: the number of its identity key
          relay_nonce,  \* per node
          verifier,     \* per node: its RelayVerifier
          wire,         \* per pair of nodes: the messages on the way, in order
          sends,        \* messages sent so far
          starts,       \* restarts so far
          admitted,     \* history: per node, who was admitted and when
          replayed,     \* history: messages rejected as replayed, with the node
          forwarded     \* history: per node, what it forwarded, with the hops left

vars == <<clock, links, identity, relay_nonce, verifier, wire, sends, starts,
          admitted, replayed, forwarded>>

\* Identity keys: the i-th one a node generated.
Key == Node \X Nat

Message == [id : Nat, from : Node, to : Node, key : Key,
            nonce : Nat, timestamp : Nat, hops_left : 0 .. MaxHops]

NewVerifier == [last_nonce |-> {}, rate |-> {}, key_pins |-> {}]

Init ==
    /\ clock = 0
    /\ links = Links
    /\ identity = [n \in Node |-> 0]
    /\ relay_nonce = [n \in Node |-> 0]
    /\ verifier = [n \in Node |-> NewVerifier]
    /\ wire = [n \in Node |-> [m \in Node |-> <<>>]]
    /\ sends = 0
    /\ starts = 0
    /\ admitted = [n \in Node |-> {}]
    /\ replayed = {}
    /\ forwarded = [n \in Node |-> {}]

---------------------------------------------------------------------------
\* The direct connection if there is one, else the first relay (Option).
next_hop(n, to) ==
    IF {n, to} \in links THEN {to}
    ELSE {hop \in Node : <<n, to, hop>> \in Route}

\* A message goes to the next hop; the connection manager drops it when there
\* is no connection to that node.
Sent(w, n, m) ==
    [w EXCEPT ![n] = [h \in Node |->
        IF h \in next_hop(n, m.to) /\ {n, h} \in links THEN Append(@[h], m)
                                                      ELSE @[h]]]

\* The nonce is consumed whether or not there is a route.
send_relay(n, to) ==
    /\ sends < MaxSends
    /\ sends' = sends + 1
    /\ relay_nonce' = [relay_nonce EXCEPT ![n] = @ + 1]
    /\ wire' = Sent(wire, n,
           [id |-> sends + 1, from |-> n, to |-> to,
            key |-> <<n, identity[n]>>, nonce |-> relay_nonce[n] + 1,
            timestamp |-> clock, hops_left |-> MaxHops])
    /\ UNCHANGED <<clock, links, identity, verifier, starts, admitted, replayed,
                   forwarded>>

\* A table that is full is cleared before the next insertion.
Room(table, cap) == IF Cardinality(table) >= cap THEN {} ELSE table

\* pin_key: the key becomes the sender's, or must be it.
PinConflict(v, uid, key) == \E p \in v.key_pins : p.uid = uid /\ p.key # key

Pinned(v, uid, key) ==
    IF \E p \in v.key_pins : p.uid = uid THEN v
    ELSE [v EXCEPT !.key_pins = Room(@, MaxPins)
                                    \cup {[uid |-> uid, key |-> key]}]

\* Mutant: the last nonce is admitted once more.
IsReplay_Off(v, key, nonce) ==
    \E e \in v.last_nonce : e.key = key /\ nonce < e.nonce

\* Nonces must grow, per identity key.
IsReplay(v, key, nonce) ==
    \E e \in v.last_nonce : e.key = key /\ nonce <= e.nonce

IsFresh(timestamp, now) == now - timestamp <= MaxAge

\* The sender's entry of the rate table, its window restarted if it is over.
\* A full table is cleared first, the sender's own entry with it.
RateEntry(v, key, now) ==
    LET current == {r \in Room(v.rate, MaxTracked) :
                       r.key = key /\ now - r.start < RateWindow}
    IN  IF current = {} THEN [key |-> key, start |-> now, count |-> 0]
        ELSE CHOOSE r \in current : TRUE

\* Mutant: one message too many in a window.
Exhausted_Off(r) == r.count > MaxPerWindow

Exhausted(r) == r.count >= MaxPerWindow

\* The rate table with an entry stored.
WithRate(v, r) ==
    [v EXCEPT !.rate = {s \in Room(@, MaxTracked) : s.key # r.key} \cup {r}]

\* The verifier after it admitted a message.
Admit(v, key, nonce, r) ==
    [WithRate(v, [r EXCEPT !.count = @ + 1]) EXCEPT
        !.last_nonce = {e \in Room(@, MaxTracked) : e.key # key}
                           \cup {[key |-> key, nonce |-> nonce]}]

\* The hop count is not signed: one above the limit is not passed on.
valid_inbound_hops(hops_left) == hops_left <= MaxHops

\* Mutant: the hop count stays.
OneHopLess_Not(m) == m

OneHopLess(m) == [m EXCEPT !.hops_left = @ - 1]

\* check, then deliver or forward.  v is the verifier after pinning, key the key
\* the message was verified with, rest the wire without the message.
Check(n, m, v, key, rest) ==
    LET r == RateEntry(v, key, clock) IN
    IF IsReplay(v, key, m.nonce) THEN
        /\ verifier' = [verifier EXCEPT ![n] = v]
        /\ replayed' = replayed \cup {<<n, m.id>>}
        /\ wire' = rest
        /\ UNCHANGED <<admitted, forwarded>>
    ELSE IF ~IsFresh(m.timestamp, clock) THEN
        /\ verifier' = [verifier EXCEPT ![n] = v]
        /\ wire' = rest
        /\ UNCHANGED <<admitted, replayed, forwarded>>
    ELSE IF Exhausted(r) THEN
        /\ verifier' = [verifier EXCEPT ![n] = WithRate(v, r)]
        /\ wire' = rest
        /\ UNCHANGED <<admitted, replayed, forwarded>>
    ELSE
        /\ verifier' = [verifier EXCEPT ![n] = Admit(v, key, m.nonce, r)]
        /\ admitted' = [admitted EXCEPT ![n] = @ \cup
               {[id |-> m.id, hops |-> m.hops_left, key |-> key,
                 time |-> clock]}]
        /\ IF \/ m.to = n
              \/ ~valid_inbound_hops(m.hops_left)
              \/ m.hops_left = 0
              \/ next_hop(n, m.to) = {}
           THEN /\ wire' = rest
                /\ UNCHANGED forwarded
           ELSE /\ wire' = Sent(rest, n, OneHopLess(m))
                /\ forwarded' = [forwarded EXCEPT ![n] = @ \cup
                                    {[id |-> m.id, hops |-> m.hops_left]}]
        /\ UNCHANGED replayed

\* The key on record for the sender, or else the one it is pinned to.  A
\* message under another key is dropped.
handle_relay_message(n, src) ==
    /\ wire[src][n] # <<>>
    /\ LET m        == Head(wire[src][n])
           rest     == [wire EXCEPT ![src][n] = Tail(@)]
           onRecord == {e[3] : e \in {f \in KnownKeys :
                                         f[1] = n /\ f[2] = m.from}}
       IN  IF \/ onRecord # {} /\ m.key \notin onRecord
              \/ onRecord = {} /\ PinConflict(verifier[n], m.from, m.key)
           THEN /\ wire' = rest
                /\ UNCHANGED <<verifier, admitted, replayed, forwarded>>
           ELSE Check(n, m, IF onRecord # {} THEN verifier[n]
                            ELSE Pinned(verifier[n], m.from, m.key),
                      m.key, rest)
    /\ UNCHANGED <<clock, links, identity, relay_nonce, sends, starts>>

---------------------------------------------------------------------------
Tick ==
    /\ clock < MaxClock
    /\ clock' = clock + 1
    /\ UNCHANGED <<links, identity, relay_nonce, verifier, wire, sends, starts,
                   admitted, replayed, forwarded>>

\* Two nodes connect.
Connect(l) ==
    /\ links' = links \cup {l}
    /\ UNCHANGED <<clock, identity, relay_nonce, verifier, wire, sends, starts,
                   admitted, replayed, forwarded>>

\* The client is restarted: AppState::new starts with nonce 0 and an empty
\* verifier.  key: its identity file is still there, or it was lost.  What
\* was on the way from or to it is lost with its connections.  The histories
\* admitted and forwarded are those since the last start.
Restart(n, key) ==
    /\ starts < MaxStarts
    /\ starts' = starts + 1
    /\ identity' = [identity EXCEPT ![n] = key]
    /\ relay_nonce' = [relay_nonce EXCEPT ![n] = 0]
    /\ verifier' = [verifier EXCEPT ![n] = NewVerifier]
    /\ wire' = [s \in Node |-> [d \in Node |->
                   IF n \in {s, d} THEN <<>> ELSE wire[s][d]]]
    /\ admitted' = [admitted EXCEPT ![n] = {}]
    /\ forwarded' = [forwarded EXCEPT ![n] = {}]
    /\ UNCHANGED <<clock, links, sends, replayed>>

Next ==
    \/ Tick
    \/ \E l \in LateLinks \ links : Connect(l)
    \/ \E d \in Drafts : send_relay(d[1], d[2])
    \/ \E n, src \in Node : handle_relay_message(n, src)
    \/ \E n \in Node : \E key \in {identity[n], identity[n] + 1} :
           Restart(n, key)

Spec == Init /\ [][Next]_vars

\* The pumps handle what arrives.
FairSpec == Spec /\ WF_vars(\E n, src \in Node : handle_relay_message(n, src))

---------------------------------------------------------------------------
\* The values every variable ranges over, and the sizes of the tables.
TypeOK ==
    /\ clock \in 0 .. MaxClock
    /\ links \subseteq Links \cup LateLinks
    /\ identity \in [Node -> Nat]
    /\ relay_nonce \in [Node -> Nat]
    /\ wire \in [Node -> [Node -> Seq(Message)]]
    /\ \A n \in Node :
           /\ verifier[n].last_nonce \subseteq [key : Key, nonce : Nat]
           /\ verifier[n].rate \subseteq
                  [key : Key, start : Nat, count : 0 .. MaxPerWindow]
           /\ verifier[n].key_pins \subseteq [uid : Node, key : Key]
           /\ Cardinality(verifier[n].last_nonce) <= MaxTracked
           /\ Cardinality(verifier[n].rate) <= MaxTracked
           /\ Cardinality(verifier[n].key_pins) <= MaxPins

\* Routing tables may point in circles: between two starts, a relay still
\* forwards a message at most once, because its second visit looks like a replay
\* (relay.rs:247).  This needs tables large enough not to be cleared; a restart
\* clears them, and a message that returns after it is forwarded again.
ForwardsOnce ==
    \A n \in Node : \A f, g \in forwarded[n] : f.id = g.id => f = g

\* Every message is off the network in the end, delivered or dropped, even
\* where routes are circular and the tables have forgotten it (relay.rs:13).
\* There are at most MaxSends of them.
RelaysSettle ==
    \A n, src \in Node : <>[](wire[src][n] = <<>>)

\* No sender gets more than two windows' worth of messages past a relay in the
\* length of one window, wherever the window borders fall (relay.rs:29).
RateBounded ==
    \A n \in Node, t \in 0 .. MaxClock : \A a \in admitted[n] :
        Cardinality({b \in admitted[n] : b.key = a.key
                         /\ b.time \in t .. t + RateWindow - 1})
            <= 2 * MaxPerWindow

\* What is refused as a replayed nonce has been here before (relay.rs:10, :247).
RefusedWereSeen ==
    \A r \in replayed : \E a \in admitted[r[1]] : a.id = r[2]
===========================================================================
