------------------------------ MODULE Ratchet ------------------------------
(***************************************************************************)
(* The message ratchet of ratchet.rs: Alice and Bob, and a network between  *)
(* them that loses, repeats, reorders and damages frames, and hands some    *)
(* back to the end they come from.                                          *)
(*                                                                          *)
(* A key pair is its owner's n-th; the secret of an exchange is the pair of *)
(* key pairs it was computed from, whichever side computes it.  A chain key *)
(* is the secret it started from and how often it was advanced, a message   *)
(* key the chain key and the index, and a frame opens under no other key.   *)
(* Frames of the two ends differ, also under one key: their nonces do.      *)
(* The hash of a hash and a frame is the sequence with the frame appended.  *)
(***************************************************************************)
EXTENDS Integers, Sequences

CONSTANTS MaxFrames,  \* bound on the frames each end encrypts
          MaxTurns    \* bound on the key pairs each end generates anew

ASSUME RatchetBoundAssumption == MaxFrames \in Nat /\ MaxTurns \in Nat

End == {"alice", "bob"}
Other(n) == IF n = "alice" THEN "bob" ELSE "alice"

VARIABLES
    bob_created,         \* new_bob was called
    dh,                  \* which key pair the end has
    send_chain, recv_chain,
    send_idx, recv_idx, expected_recv_idx,
    prev_hash, handshake_done,
    sent,                \* frames each end encrypted: the network may deliver
                         \* any of them, any number of times
    read                 \* frames each end decrypted, in order

ratchetVars == <<bob_created, dh, send_chain, recv_chain, send_idx, recv_idx,
                 expected_recv_idx, prev_hash, handshake_done, sent, read>>

\* No secret: the all-zero chain key; and the key of a damaged frame.
ZeroKey == <<-1, -1>>
NoKey   == <<-2, -2>>

Secret == (0 .. MaxTurns) \X (0 .. MaxTurns)
Chain  == [secret : Secret \cup {ZeroKey}, steps : Nat]
Frame  == [from : End, idx : 1 .. MaxFrames, key : Chain]

StartOf(s) == [secret |-> s, steps |-> 0]
Advanced(c) == [c EXCEPT !.steps = @ + 1]

\* new_alice: also what new_bob starts from.
RatchetInit ==
    /\ bob_created = FALSE
    /\ dh = [n \in End |-> 0]
    /\ send_chain = [n \in End |-> StartOf(ZeroKey)]
    /\ recv_chain = [n \in End |-> StartOf(ZeroKey)]
    /\ send_idx = [n \in End |-> 0]
    /\ recv_idx = [n \in End |-> 0]
    /\ expected_recv_idx = [n \in End |-> 1]
    /\ prev_hash = [n \in End |-> <<>>]
    /\ handshake_done = [n \in End |-> FALSE]
    /\ sent = [n \in End |-> {}]
    /\ read = [n \in End |-> <<>>]

---------------------------------------------------------------------------
\* A second handshake returns at once.
complete_handshake(n, secret) ==
    /\ ~handshake_done[n]
    /\ send_chain' = [send_chain EXCEPT ![n] = StartOf(secret)]
    /\ recv_chain' = [recv_chain EXCEPT ![n] = StartOf(secret)]
    /\ handshake_done' = [handshake_done EXCEPT ![n] = TRUE]
    /\ UNCHANGED <<dh, send_idx, recv_idx, expected_recv_idx, prev_hash, sent, read>>

\* Bob has a public key of Alice's, her newest or one she replaced since.
new_bob ==
    /\ ~bob_created
    /\ bob_created' = TRUE
    /\ \E k \in 0 .. dh["alice"] : complete_handshake("bob", <<k, dh["bob"]>>)

AliceHandshake ==
    /\ bob_created
    /\ \E k \in 0 .. dh["bob"] : complete_handshake("alice", <<dh["alice"], k>>)
    /\ UNCHANGED bob_created

Exists(n) == n = "alice" \/ bob_created

\* Mutant: the sending chain stands still.
encrypt_ChainKept(n) ==
    LET frame == [from |-> n, idx |-> send_idx[n] + 1, key |-> send_chain[n]]
    IN  /\ Exists(n)
        /\ send_idx[n] < MaxFrames
        /\ send_idx' = [send_idx EXCEPT ![n] = @ + 1]
        /\ prev_hash' = [prev_hash EXCEPT ![n] = Append(@, frame)]
        /\ sent' = [sent EXCEPT ![n] = @ \cup {frame}]
        /\ UNCHANGED <<bob_created, dh, send_chain, recv_chain, recv_idx,
                       expected_recv_idx, handshake_done, read>>

encrypt(n) ==
    LET frame == [from |-> n, idx |-> send_idx[n] + 1, key |-> send_chain[n]]
    IN  /\ Exists(n)
        /\ send_idx[n] < MaxFrames
        /\ send_idx' = [send_idx EXCEPT ![n] = @ + 1]
        /\ send_chain' = [send_chain EXCEPT ![n] = Advanced(@)]
        /\ prev_hash' = [prev_hash EXCEPT ![n] = Append(@, frame)]
        /\ sent' = [sent EXCEPT ![n] = @ \cup {frame}]
        /\ UNCHANGED <<bob_created, dh, recv_chain, recv_idx, expected_recv_idx,
                       handshake_done, read>>

\* The index is not an old one and the message key is the frame's.
Opens(n, frame) == /\ Exists(n)
                   /\ frame.idx >= expected_recv_idx[n]
                   /\ frame.key = recv_chain[n]

\* Frames that decrypt may be called with: the other end's, the end's own and
\* damaged ones.
Arriving(n) ==
    sent[Other(n)] \cup sent[n]
    \cup [from : {Other(n)}, idx : 1 .. MaxFrames, key : {StartOf(NoKey)}]

\* Mutant: the window moves before the frame is authenticated.
decrypt_WindowFirst(n, frame) ==
    /\ Exists(n)
    /\ frame.idx >= expected_recv_idx[n]
    /\ expected_recv_idx' = [expected_recv_idx EXCEPT ![n] = frame.idx + 1]
    /\ IF frame.key = recv_chain[n]
       THEN /\ recv_chain' = [recv_chain EXCEPT ![n] = Advanced(@)]
            /\ prev_hash' = [prev_hash EXCEPT ![n] = Append(@, frame)]
            /\ recv_idx' = [recv_idx EXCEPT ![n] = frame.idx]
            /\ read' = [read EXCEPT ![n] = Append(@, frame)]
       ELSE UNCHANGED <<recv_chain, prev_hash, recv_idx, read>>
    /\ UNCHANGED <<bob_created, dh, send_chain, send_idx, handshake_done, sent>>

\* A frame that does not open returns None and changes nothing.
decrypt(n, frame) ==
    /\ Opens(n, frame)
    /\ expected_recv_idx' = [expected_recv_idx EXCEPT ![n] = frame.idx + 1]
    /\ recv_chain' = [recv_chain EXCEPT ![n] = Advanced(@)]
    /\ prev_hash' = [prev_hash EXCEPT ![n] = Append(@, frame)]
    /\ recv_idx' = [recv_idx EXCEPT ![n] = frame.idx]
    /\ read' = [read EXCEPT ![n] = Append(@, frame)]
    /\ UNCHANGED <<bob_created, dh, send_chain, send_idx, handshake_done, sent>>

\* A new key pair, and a root key that nothing reads afterwards.
dh_ratchet_advance(n) ==
    /\ Exists(n)
    /\ dh[n] < MaxTurns
    /\ dh' = [dh EXCEPT ![n] = @ + 1]
    /\ UNCHANGED <<bob_created, send_chain, recv_chain, send_idx, recv_idx,
                   expected_recv_idx, prev_hash, handshake_done, sent, read>>

RatchetNext ==
    \/ new_bob
    \/ AliceHandshake
    \/ \E n \in End :
          \/ encrypt(n)
          \/ dh_ratchet_advance(n)
          \/ \E frame \in Arriving(n) : decrypt(n, frame)

RatchetSpec == RatchetInit /\ [][RatchetNext]_ratchetVars

---------------------------------------------------------------------------
\* The fields of RatchetState, and frames that were encrypted.
RatchetTypeOK ==
    /\ bob_created \in BOOLEAN
    /\ dh \in [End -> 0 .. MaxTurns]
    /\ send_chain \in [End -> Chain] /\ recv_chain \in [End -> Chain]
    /\ send_idx \in [End -> 0 .. MaxFrames] /\ recv_idx \in [End -> 0 .. MaxFrames]
    /\ expected_recv_idx \in [End -> 1 .. MaxFrames + 1]
    /\ prev_hash \in [End -> Seq(Frame)]
    /\ handshake_done \in [End -> BOOLEAN]
    /\ sent \in [End -> SUBSET Frame]
    /\ read \in [End -> Seq(Frame)]

\* Frames that n encrypted after its handshake.
Keyed(n) == {f \in sent[n] : f.key.secret # ZeroKey}

Read(n, f) == \E i \in 1 .. Len(read[n]) : read[n][i] = f

\* However frames are repeated, reordered, damaged or handed back on the way, an
\* end reads by increasing index, so no frame twice, and it reads a frame of the
\* other's only after all that were sent before it: one that is missing was
\* kept out by a frame of the end's own, which took its step of the chain
\* (ratchet.rs:130-166; both chains start from one key, :87-88).
ReadsInOrder ==
    \A n \in End : \A i \in 1 .. Len(read[n]) :
        /\ \A j \in 1 .. i - 1 : read[n][j].idx < read[n][i].idx
        /\ read[n][i].from = Other(n) =>
              \A f \in Keyed(Other(n)) : f.idx < read[n][i].idx =>
                  \E j \in 1 .. i - 1 :
                      \/ read[n][j] = f
                      \/ read[n][j].from = n /\ read[n][j].key = f.key

\* The ends agree on the secret their chains started from.
Agree == /\ handshake_done["alice"] /\ handshake_done["bob"]
         /\ send_chain["alice"].secret = send_chain["bob"].secret

\* None of its own frames was handed back to n and read.
NoneReturned(n) == \A i \in 1 .. Len(read[n]) : read[n][i].from = Other(n)

\* No repeated, reordered or damaged frame and no new key pair shuts the
\* session: the first frame that an end has not read can be opened, unless the
\* end has read a frame of its own (ratchet.rs:146-152, the window moves "only
\* AFTER the frame authenticated"; an own frame does authenticate, :87-88).
NextFrameOpens ==
    Agree => \A n \in End : \A f \in Keyed(Other(n)) :
        /\ NoneReturned(n)
        /\ ~Read(n, f)
        /\ \A g \in Keyed(Other(n)) : g.idx < f.idx => Read(n, g)
        => Opens(n, f)

\* When one end only writes, the other only reads and has read everything, the
\* chain hashes are the same (ratchet.rs:117-119).
HashesMatch ==
    \A n \in End :
        /\ sent[n] = {} /\ read[Other(n)] = <<>>
        /\ \A f \in sent[Other(n)] : Read(n, f)
        => prev_hash[n] = prev_hash[Other(n)]
===========================================================================
