---------------------------- MODULE TrustProofs ----------------------------
(***************************************************************************)
(* Proofs about Ratchet and about WebOfTrust, one part each.                *)
(***************************************************************************)
EXTENDS Ratchet, WebOfTrust, TLAPS

---------------------------------------------------------------------------
(***************************************************************************)
(* Proofs about Ratchet, for any number of frames and of key pairs.         *)
(***************************************************************************)

\* The inductive invariant.  Both chains of an end start from its secret; the
\* frames of an end number its sending chain's steps without a gap, in the
\* order of their indices; an end has read a frame for every step of its
\* receiving chain, the other's or its own, and its window is just past the
\* last one.
ChainsStart ==
    /\ handshake_done["bob"] = bob_created
    /\ handshake_done["alice"] => bob_created
    /\ ~bob_created => sent["bob"] = {}
    /\ \A f \in sent["bob"] : f.key.secret # ZeroKey
    /\ \A n \in End : ~handshake_done[n] => /\ send_chain[n].secret = ZeroKey
                                            /\ recv_chain[n].secret = ZeroKey
                                            /\ Keyed(n) = {}
    /\ \A n \in End : \A f \in sent[n] : f.from = n
    /\ \A n \in End : handshake_done[n] => /\ send_chain[n].secret = recv_chain[n].secret
                                           /\ send_chain[n].secret # ZeroKey

Numbered(frames, keyed, idx, chain, done) ==
    /\ \A f \in frames : f.idx <= idx
    /\ \A f \in keyed : f.key.secret = chain.secret /\ f.key.steps < chain.steps
    /\ \A f, g \in keyed : f.idx < g.idx <=> f.key.steps < g.key.steps
    /\ done => \A k \in 0 .. chain.steps - 1 : \E f \in keyed : f.key.steps = k

FramesNumber ==
    \A n \in End :
        Numbered(sent[n], Keyed(n), send_idx[n], send_chain[n], handshake_done[n])

\* The frames that were read: keys by the steps of the chain, since the handshake
\* and before it, without a gap; indices that grow, up to the window.
Taken(frames, own, keyed, chain, expected) ==
    /\ \A i \in 1 .. Len(frames) :
          /\ frames[i] \in own \cup keyed
          /\ frames[i].key.secret \in {ZeroKey, chain.secret}
          /\ frames[i].key.secret = chain.secret => frames[i].key.steps < chain.steps
          /\ frames[i].idx < expected
    /\ \A i, j \in 1 .. Len(frames) : j < i =>
          /\ frames[j].idx < frames[i].idx
          /\ frames[j].key.secret = frames[i].key.secret
                => frames[j].key.steps < frames[i].key.steps
    /\ \A k \in 0 .. chain.steps - 1 : \E i \in 1 .. Len(frames) :
          frames[i].key.secret = chain.secret /\ frames[i].key.steps = k
    /\ expected = 1 \/ \E i \in 1 .. Len(frames) : expected = frames[i].idx + 1

\* As long as all of them are the other's, their places are their steps.
InStep(frames, chain) ==
    /\ Len(frames) = chain.steps
    /\ \A i \in 1 .. Len(frames) : frames[i].key.steps = i - 1

ReadsFollow ==
    \A n \in End :
        /\ Taken(read[n], sent[n], Keyed(Other(n)), recv_chain[n], expected_recv_idx[n])
        /\ NoneReturned(n) => InStep(read[n], recv_chain[n])

RatchetInv == RatchetTypeOK /\ ChainsStart /\ FramesNumber /\ ReadsFollow

\* There are two ends.
LEMMA OtherEnd == \A n \in End : Other(n) \in End /\ Other(n) # n /\ Other(Other(n)) = n
  BY Zenon DEF End, Other

\* The elements of a sequence with one more appended.
LEMMA AppendFacts ==
    ASSUME NEW S, NEW s \in Seq(S), NEW x \in S
    PROVE  /\ Len(Append(s, x)) = Len(s) + 1
           /\ Append(s, x)[Len(s) + 1] = x
           /\ \A i \in 1 .. Len(s) : Append(s, x)[i] = s[i]
           /\ Append(s, x) # <<>>
<1>1. Len(Append(s, x)) = Len(s) + 1 /\ Len(s) \in Nat /\ Len(<<>>) = 0
  OBVIOUS
<1>2. /\ Append(s, x)[Len(s) + 1] = x
      /\ \A i \in 1 .. Len(s) : Append(s, x)[i] = s[i]
  OBVIOUS
<1>3. Append(s, x) # <<>>
  BY <1>1
<1>4. QED
  BY <1>1, <1>2, <1>3, Zenon

\* Two new ends satisfy the invariant.
LEMMA RatchetInvInit == RatchetInit => RatchetInv
<1> SUFFICES ASSUME RatchetInit PROVE RatchetInv
  BY Zenon
<1>1. StartOf(ZeroKey) \in Chain
  BY Zenon DEF StartOf, Chain
<1>2. RatchetTypeOK
  <2>1. /\ 0 \in 0 .. MaxTurns /\ 0 \in 0 .. MaxFrames /\ 1 \in 1 .. MaxFrames + 1
        /\ <<>> \in Seq(Frame)
    BY RatchetBoundAssumption
  <2> QED BY <1>1, <2>1, Zenon DEF RatchetInit, RatchetTypeOK
<1>3. ChainsStart
  BY ZenonT(40) DEF RatchetInit, ChainsStart, Keyed, StartOf, End
<1>4. FramesNumber
  BY Zenon DEF RatchetInit, FramesNumber, Numbered, Keyed
<1>5. ReadsFollow
  BY DEF RatchetInit, ReadsFollow, Taken, InStep, StartOf
<1>6. QED
  BY <1>2, <1>3, <1>4, <1>5, Zenon DEF RatchetInv

\* The secrets of handshakes are not the all-zero key.
LEMMA SecretNotZero == ZeroKey \notin Secret /\ NoKey \notin Secret /\ NoKey # ZeroKey
  BY DEF ZeroKey, NoKey, Secret

\* One more frame, of the step whose turn it is.
LEMMA TakenMore ==
    ASSUME NEW frames \in Seq(Frame), NEW own, NEW keyed, NEW chain \in Chain,
           NEW expected \in Nat, NEW frame \in Frame, frame \in own \cup keyed,
           frame.key = chain, frame.idx >= expected,
           Taken(frames, own, keyed, chain, expected)
    PROVE  Taken(Append(frames, frame), own, keyed, Advanced(chain), frame.idx + 1)
<1> DEFINE more == Append(frames, frame)
           len == Len(frames)
           next == Advanced(chain)
<1>1. /\ next.secret = chain.secret /\ next.steps = chain.steps + 1
      /\ chain.steps \in Nat /\ frame.idx \in Nat
  BY DEF Advanced, Chain, Frame
<1>2. /\ len \in Nat /\ Len(more) = len + 1 /\ more[len + 1] = frame
      /\ \A i \in 1 .. len : more[i] = frames[i] /\ frames[i] \in Frame
  BY AppendFacts
<1>3. \A i \in 1 .. len : /\ frames[i].idx \in Nat /\ frames[i].key.steps \in Nat
                          /\ frames[i].idx < frame.idx
  BY <1>1, <1>2 DEF Taken, Frame, Chain
<1> HIDE DEF more, len, next
<1>4. ASSUME NEW i \in 1 .. Len(more)
      PROVE  /\ more[i] \in own \cup keyed
             /\ more[i].key.secret \in {ZeroKey, next.secret}
             /\ more[i].key.secret = next.secret => more[i].key.steps < next.steps
             /\ more[i].idx < frame.idx + 1
  <2>1. CASE i \in 1 .. len
    <3>1. /\ frames[i] \in own \cup keyed
          /\ frames[i].key.secret \in {ZeroKey, chain.secret}
          /\ frames[i].key.secret = chain.secret => frames[i].key.steps < chain.steps
      BY <2>1, Zenon DEF Taken, len
    <3>2. more[i] = frames[i]
      BY <1>2, <2>1, Zenon
    <3> QED BY <1>1, <1>3, <2>1, <3>1, <3>2
  <2>2. CASE i = len + 1
    <3>1. more[i] = frame
      BY <1>2, <2>2, Zenon
    <3> QED BY <1>1, <3>1
  <2> QED BY <1>2, <2>1, <2>2
<1>5. ASSUME NEW i \in 1 .. Len(more), NEW j \in 1 .. Len(more), j < i
      PROVE  /\ more[j].idx < more[i].idx
             /\ more[j].key.secret = more[i].key.secret
                   => more[j].key.steps < more[i].key.steps
  <2>1. CASE i \in 1 .. len
    <3>1. j \in 1 .. len
      BY <1>2, <1>5, <2>1
    <3> QED BY <1>2, <1>5, <2>1, <3>1, Zenon DEF Taken, len
  <2>2. CASE i = len + 1
    <3>1. j \in 1 .. len /\ more[i] = frame
      BY <1>2, <1>5, <2>2
    <3>2. /\ more[j] = frames[j]
          /\ frames[j].key.secret = chain.secret => frames[j].key.steps < chain.steps
      BY <1>2, <3>1, Zenon DEF Taken, len
    <3> QED BY <1>3, <3>1, <3>2, Zenon
  <2> QED BY <1>2, <2>1, <2>2
<1>6. ASSUME NEW k \in 0 .. next.steps - 1
      PROVE  \E i \in 1 .. Len(more) :
                more[i].key.secret = next.secret /\ more[i].key.steps = k
  <2>1. CASE k = chain.steps
    <3>1. len + 1 \in 1 .. Len(more)
      BY <1>2
    <3> QED BY <1>1, <1>2, <2>1, <3>1, Zenon
  <2>2. CASE k # chain.steps
    <3>1. k \in 0 .. chain.steps - 1
      BY <1>1, <2>2
    <3>2. PICK i \in 1 .. len :
             frames[i].key.secret = chain.secret /\ frames[i].key.steps = k
      BY <3>1, Zenon DEF Taken, len
    <3>3. i \in 1 .. Len(more) /\ more[i] = frames[i]
      BY <1>2
    <3> QED BY <1>1, <3>2, <3>3, Zenon
  <2> QED BY <2>1, <2>2, Zenon
<1>7. \E i \in 1 .. Len(more) : frame.idx + 1 = more[i].idx + 1
  <2>1. len + 1 \in 1 .. Len(more)
    BY <1>2
  <2> QED BY <1>2, <2>1, Zenon
<1> QED BY <1>4, <1>5, <1>6, <1>7, Zenon DEF Taken, more, next

\* Completing the handshake at an end keeps it.
LEMMA HandshakeKeeps ==
    ASSUME RatchetInv, NEW n \in End, NEW s \in Secret, complete_handshake(n, s),
           bob_created', bob_created \/ n = "bob"
    PROVE  RatchetInv'
<1> USE DEF RatchetInv
<1>1. StartOf(s) \in Chain /\ StartOf(s).secret = s /\ StartOf(s).steps = 0
  BY Zenon DEF StartOf, Chain
<1>2. /\ send_chain' = [send_chain EXCEPT ![n] = StartOf(s)]
      /\ recv_chain' = [recv_chain EXCEPT ![n] = StartOf(s)]
      /\ handshake_done' = [handshake_done EXCEPT ![n] = TRUE]
      /\ sent' = sent /\ read' = read /\ expected_recv_idx' = expected_recv_idx
      /\ send_idx' = send_idx
  BY Zenon DEF complete_handshake
<1>3. ~handshake_done[n] /\ Keyed(n) = {} /\ recv_chain[n].secret = ZeroKey
  BY Zenon DEF complete_handshake, ChainsStart
<1>4. NoneReturned(n) => Len(read[n]) = 0
  <2> SUFFICES ASSUME NoneReturned(n), Len(read[n]) # 0 PROVE FALSE
    BY Zenon
  <2>1. 1 \in 1 .. Len(read[n])
    BY DEF RatchetTypeOK
  <2>2. /\ read[n][1] \in sent[n] \cup Keyed(Other(n))
        /\ read[n][1].key.secret = ZeroKey /\ read[n][1].from = Other(n)
    BY <1>3, <2>1, Zenon DEF ReadsFollow, Taken, NoneReturned
  <2> QED BY <2>2, OtherEnd, Zenon DEF Keyed, ChainsStart
<1>5. \A m \in End : Keyed(m)' = Keyed(m)
  BY <1>2, Zenon DEF Keyed
<1>6. RatchetTypeOK'
  BY <1>1, <1>2 DEF RatchetTypeOK, complete_handshake
<1>7. ChainsStart'
  <2>1. handshake_done'["bob"] = bob_created'
    BY <1>2, Zenon DEF ChainsStart, RatchetTypeOK, End
  <2>2. \A f \in sent'["bob"] : f.key.secret # ZeroKey
    BY <1>2, Zenon DEF ChainsStart
  <2>3. \A m \in End : ~handshake_done'[m] => /\ send_chain'[m].secret = ZeroKey
                                               /\ recv_chain'[m].secret = ZeroKey
                                               /\ Keyed(m)' = {}
    BY <1>2, <1>5, ZenonT(40) DEF ChainsStart, RatchetTypeOK
  <2>4. \A m \in End : handshake_done'[m] => /\ send_chain'[m].secret = recv_chain'[m].secret
                                              /\ send_chain'[m].secret # ZeroKey
    BY <1>1, <1>2, SecretNotZero, ZenonT(40) DEF ChainsStart, RatchetTypeOK
  <2>5. \A m \in End : \A f \in sent'[m] : f.from = m
    BY <1>2, Zenon DEF ChainsStart
  <2> QED BY <2>1, <2>2, <2>3, <2>4, <2>5, Zenon DEF ChainsStart
<1>8. FramesNumber'
  <2>1. \A m \in End : m # n => /\ send_chain'[m] = send_chain[m]
                               /\ handshake_done'[m] = handshake_done[m]
    BY <1>2, Zenon DEF RatchetTypeOK
  <2>2. \A m \in End : m # n => Numbered(sent'[m], Keyed(m)', send_idx'[m], send_chain'[m],
                                        handshake_done'[m])
    BY <1>2, <1>5, <2>1, Zenon DEF FramesNumber
  <2>3. send_chain'[n].steps = 0
    BY <1>1, <1>2, Zenon DEF RatchetTypeOK
  <2>4. Numbered(sent'[n], Keyed(n)', send_idx'[n], send_chain'[n], handshake_done'[n])
    BY <1>2, <1>3, <1>5, <2>3 DEF FramesNumber, Numbered
  <2> QED BY <2>2, <2>4, Zenon DEF FramesNumber
<1>9. ReadsFollow'
  <2> SUFFICES ASSUME NEW m \in End
               PROVE  /\ Taken(read[m], sent[m], Keyed(Other(m)), recv_chain'[m],
                               expected_recv_idx[m])
                      /\ NoneReturned(m) => InStep(read[m], recv_chain'[m])
    <3>1. \A m \in End : /\ Keyed(Other(m))' = Keyed(Other(m))
                         /\ NoneReturned(m)' = NoneReturned(m)
      BY <1>2, Zenon DEF Keyed, NoneReturned
    <3> QED BY <1>2, <3>1, Zenon DEF ReadsFollow
  <2>1. CASE m = n
    <3>1. recv_chain'[n].secret = s /\ recv_chain'[n].steps = 0
      BY <1>1, <1>2, Zenon DEF RatchetTypeOK
    <3>2. Taken(read[n], sent[n], Keyed(Other(n)), recv_chain[n], expected_recv_idx[n])
      BY Zenon DEF ReadsFollow
    <3>3. Taken(read[n], sent[n], Keyed(Other(n)), recv_chain'[n], expected_recv_idx[n])
      <4>1. ZeroKey # s
        BY SecretNotZero, Zenon
      <4>2. 0 .. recv_chain'[n].steps - 1 = {}
        BY <3>1
      <4> QED BY <1>3, <3>1, <3>2, <4>1, <4>2, ZenonT(40) DEF Taken
    <3>4. NoneReturned(n) => InStep(read[n], recv_chain'[n])
      BY <1>4, <3>1 DEF InStep
    <3> QED BY <2>1, <3>3, <3>4, Zenon
  <2>2. CASE m # n
    <3>1. recv_chain'[m] = recv_chain[m]
      BY <1>2, <2>2, Zenon DEF RatchetTypeOK
    <3> QED BY <3>1, Zenon DEF ReadsFollow
  <2> QED BY <2>1, <2>2, Zenon
<1>10. QED
  BY <1>6, <1>7, <1>8, <1>9, Zenon

\* Encrypting adds a frame past all others, with the next step of the chain.
LEMMA EncryptKeeps ==
    ASSUME RatchetInv, NEW n \in End, encrypt(n)
    PROVE  RatchetInv'
<1> USE DEF RatchetInv
<1> DEFINE frame == [from |-> n, idx |-> send_idx[n] + 1, key |-> send_chain[n]]
<1>1. /\ send_idx' = [send_idx EXCEPT ![n] = @ + 1]
      /\ send_chain' = [send_chain EXCEPT ![n] = Advanced(@)]
      /\ sent' = [sent EXCEPT ![n] = @ \cup {frame}]
      /\ prev_hash' = [prev_hash EXCEPT ![n] = Append(@, frame)]
      /\ UNCHANGED <<bob_created, dh, recv_chain, recv_idx, expected_recv_idx,
                     handshake_done, read>>
      /\ Exists(n) /\ send_idx[n] < MaxFrames
  BY Zenon DEF encrypt
<1>2. send_chain[n] \in Chain /\ send_idx[n] \in 0 .. MaxFrames
  BY Zenon DEF RatchetTypeOK
<1>3. frame \in Frame
  BY <1>1, <1>2, RatchetBoundAssumption DEF Frame
<1>4. /\ Advanced(send_chain[n]) \in Chain
      /\ Advanced(send_chain[n]).secret = send_chain[n].secret
      /\ Advanced(send_chain[n]).steps = send_chain[n].steps + 1
  BY <1>2 DEF Advanced, Chain
<1>5. frame.idx = send_idx[n] + 1 /\ frame.key = send_chain[n] /\ frame.from = n
  BY Zenon
<1> HIDE DEF frame
<1>6. RatchetTypeOK'
  <2>1. send_idx' \in [End -> 0 .. MaxFrames]
    BY <1>1, <1>2, RatchetBoundAssumption DEF RatchetTypeOK
  <2>2. prev_hash' \in [End -> Seq(Frame)]
    BY <1>1, <1>3 DEF RatchetTypeOK
  <2> QED BY <1>1, <1>3, <1>4, <2>1, <2>2, ZenonT(40) DEF RatchetTypeOK
<1>7. /\ sent'[n] = sent[n] \cup {frame}
      /\ \A m \in End : m # n => sent'[m] = sent[m] /\ send_chain'[m] = send_chain[m]
                                   /\ send_idx'[m] = send_idx[m]
      /\ send_chain'[n] = Advanced(send_chain[n]) /\ send_idx'[n] = send_idx[n] + 1
  BY <1>1, Zenon DEF RatchetTypeOK
<1>8. /\ \A m \in End : m # n => Keyed(m)' = Keyed(m)
      /\ Keyed(n)' = Keyed(n) \cup (IF send_chain[n].secret = ZeroKey THEN {} ELSE {frame})
  BY <1>5, <1>7, ZenonT(40) DEF Keyed
<1>9. ChainsStart'
  <2>1. n = "bob" => handshake_done["bob"] /\ bob_created
    BY <1>1, ZenonT(40) DEF Exists, ChainsStart
  <2>2. \A f \in sent'["bob"] : f.key.secret # ZeroKey
    BY <1>5, <1>7, <2>1, ZenonT(40) DEF ChainsStart, End
  <2>3. ~bob_created' => sent'["bob"] = {}
    BY <1>1, <1>7, <2>1, ZenonT(40) DEF ChainsStart, End
  <2>4. \A m \in End : ~handshake_done'[m] => /\ send_chain'[m].secret = ZeroKey
                                               /\ recv_chain'[m].secret = ZeroKey
                                               /\ Keyed(m)' = {}
    BY <1>1, <1>4, <1>7, <1>8, ZenonT(40) DEF ChainsStart
  <2>5. \A m \in End : handshake_done'[m] => /\ send_chain'[m].secret = recv_chain'[m].secret
                                              /\ send_chain'[m].secret # ZeroKey
    BY <1>1, <1>4, <1>7 DEF ChainsStart
  <2>6. \A m \in End : \A f \in sent'[m] : f.from = m
    <3>1. \A f \in sent'[n] : f.from = n
      BY <1>5, <1>7 DEF ChainsStart
    <3>2. \A m \in End : m # n => \A f \in sent'[m] : f.from = m
      BY <1>7, Zenon DEF ChainsStart
    <3> QED BY <3>1, <3>2, Zenon
  <2> QED BY <1>1, <2>2, <2>3, <2>4, <2>5, <2>6, ZenonT(40) DEF ChainsStart
<1>10. FramesNumber'
  <2> SUFFICES ASSUME NEW m \in End
               PROVE  /\ \A f \in sent'[m] : f.idx <= send_idx'[m]
                      /\ \A f \in Keyed(m)' : /\ f.key.secret = send_chain'[m].secret
                                              /\ f.key.steps < send_chain'[m].steps
                      /\ \A f, g \in Keyed(m)' : f.idx < g.idx <=> f.key.steps < g.key.steps
                      /\ handshake_done'[m] => \A k \in 0 .. send_chain'[m].steps - 1 :
                                                  \E f \in Keyed(m)' : f.key.steps = k
    BY Zenon DEF FramesNumber, Numbered
  <2>1. CASE m # n
    BY <1>1, <1>7, <1>8, <2>1 DEF FramesNumber, Numbered
  <2>2. CASE m = n
    <3>1. \A f \in sent[n] : f.idx \in Int /\ f.idx < frame.idx /\ f.idx <= send_idx'[n]
      BY <1>2, <1>5, <1>7, SMTT(40) DEF FramesNumber, Numbered, RatchetTypeOK, Frame
    <3>2. \A f \in Keyed(n) : /\ f.key.steps \in Nat /\ f.key.steps < frame.key.steps
                              /\ f.key.secret = send_chain[n].secret /\ f \in sent[n]
      <4> SUFFICES ASSUME NEW f \in Keyed(n)
                   PROVE  /\ f.key.steps \in Nat /\ f.key.steps < frame.key.steps
                          /\ f.key.secret = send_chain[n].secret /\ f \in sent[n]
        BY Zenon
      <4>1. f \in sent[n] /\ f \in Frame
        BY Zenon DEF Keyed, RatchetTypeOK
      <4>2. f.key.steps \in Nat
        BY <4>1, Zenon DEF Frame, Chain
      <4> QED BY <1>5, <4>1, <4>2, Zenon DEF FramesNumber, Numbered
    <3>3. frame.key.steps = send_chain[n].steps /\ send_chain[n].steps \in Nat
          /\ frame.key.secret = send_chain[n].secret /\ frame.idx \in Int
      BY <1>2, <1>5 DEF Chain
    <3>4. Keyed(n)' \subseteq Keyed(n) \cup {frame}
      BY <1>8, Zenon
    <3>5. \A f \in sent'[n] : f.idx <= send_idx'[n]
      BY <1>5, <1>7, <3>1, <3>3
    <3>6. \A f \in Keyed(n)' : f.key.secret = send_chain'[n].secret
                                 /\ f.key.steps < send_chain'[n].steps
      BY <1>4, <1>7, <3>2, <3>3, <3>4
    <3>7. \A f, g \in Keyed(n)' : f.idx < g.idx <=> f.key.steps < g.key.steps
      BY <3>1, <3>2, <3>3, <3>4 DEF FramesNumber, Numbered
    <3>8. handshake_done'[n] => \A k \in 0 .. send_chain'[n].steps - 1 :
                                    \E f \in Keyed(n)' : f.key.steps = k
      <4> SUFFICES ASSUME handshake_done[n], NEW k \in 0 .. send_chain'[n].steps - 1
                   PROVE  \E f \in Keyed(n)' : f.key.steps = k
        BY <1>1, Zenon
      <4>1. send_chain'[n].steps = send_chain[n].steps + 1 /\ Keyed(n)' = Keyed(n) \cup {frame}
        BY <1>4, <1>7, <1>8, Zenon DEF ChainsStart
      <4>2. CASE k = send_chain[n].steps
        BY <3>3, <4>1, <4>2, Zenon
      <4>3. CASE k # send_chain[n].steps
        <5>1. k \in 0 .. send_chain[n].steps - 1
          BY <3>3, <4>1, <4>3
        <5> QED BY <4>1, <5>1, Zenon DEF FramesNumber, Numbered
      <4> QED BY <4>2, <4>3, Zenon
    <3> QED BY <2>2, <3>5, <3>6, <3>7, <3>8, Zenon
  <2> QED BY <2>1, <2>2, Zenon
<1>11. ReadsFollow'
  <2> SUFFICES ASSUME NEW m \in End
               PROVE  /\ Taken(read[m], sent'[m], Keyed(Other(m))', recv_chain[m],
                               expected_recv_idx[m])
                      /\ NoneReturned(m) => InStep(read[m], recv_chain[m])
    <3>1. \A m \in End : NoneReturned(m)' = NoneReturned(m)
      BY <1>1, Zenon DEF NoneReturned
    <3> QED BY <1>1, <3>1, Zenon DEF ReadsFollow
  <2>1. /\ Taken(read[m], sent[m], Keyed(Other(m)), recv_chain[m], expected_recv_idx[m])
        /\ NoneReturned(m) => InStep(read[m], recv_chain[m])
    BY Zenon DEF ReadsFollow
  <2>2. Keyed(Other(m)) \subseteq Keyed(Other(m))'
    <3>1. CASE Other(m) = n BY <1>8, <3>1, Zenon
    <3>2. CASE Other(m) # n BY <1>8, <3>2, OtherEnd, Zenon
    <3> QED BY <3>1, <3>2, Zenon
  <2>3. sent[m] \subseteq sent'[m]
    BY <1>7, Zenon
  <2> QED BY <2>1, <2>2, <2>3, Zenon DEF Taken
<1>12. QED
  BY <1>6, <1>9, <1>10, <1>11, Zenon

\* A frame that opens is an end's own or one that the other sent after its
\* handshake, and it is the one whose turn it is.
LEMMA OpenedIsNext ==
    ASSUME RatchetInv, NEW n \in End, NEW frame \in Arriving(n), Opens(n, frame)
    PROVE  /\ frame \in sent[n] \cup Keyed(Other(n)) /\ frame \in Frame
           /\ frame.key = recv_chain[n] /\ frame.idx >= expected_recv_idx[n]
<1> USE DEF RatchetInv
<1>1. /\ frame.key = recv_chain[n] /\ recv_chain[n].secret \in Secret \cup {ZeroKey}
      /\ frame.idx >= expected_recv_idx[n]
  BY Zenon DEF Opens, RatchetTypeOK, Chain
<1>2. frame \in sent[n] \cup sent[Other(n)]
  <2>1. StartOf(NoKey).secret = NoKey
    BY Zenon DEF StartOf
  <2> QED BY <1>1, <2>1, SecretNotZero, Zenon DEF Arriving
<1>3. frame \in Frame
  BY <1>2, OtherEnd, Zenon DEF RatchetTypeOK
<1>4. frame \in sent[Other(n)] => frame.key.secret # ZeroKey
  <2>1. CASE handshake_done[n]
    <3>1. recv_chain[n].secret # ZeroKey
      BY <2>1 DEF ChainsStart
    <3> QED BY <1>1, <3>1, Zenon
  <2>2. CASE ~handshake_done[n]
    <3>1. n = "alice"
      BY <2>2, Zenon DEF Opens, Exists, ChainsStart, End
    <3> QED BY <3>1, Zenon DEF ChainsStart, Other
  <2> QED BY <2>1, <2>2, Zenon
<1>5. QED
  BY <1>1, <1>2, <1>3, <1>4, Zenon DEF Keyed

\* So does reading a frame: the one that opens is the one whose turn it is.
LEMMA DecryptKeeps ==
    ASSUME RatchetInv, NEW n \in End, NEW frame \in Arriving(n), decrypt(n, frame)
    PROVE  RatchetInv'
<1> USE DEF RatchetInv
<1>1. /\ expected_recv_idx' = [expected_recv_idx EXCEPT ![n] = frame.idx + 1]
      /\ recv_chain' = [recv_chain EXCEPT ![n] = Advanced(@)]
      /\ prev_hash' = [prev_hash EXCEPT ![n] = Append(@, frame)]
      /\ recv_idx' = [recv_idx EXCEPT ![n] = frame.idx]
      /\ read' = [read EXCEPT ![n] = Append(@, frame)]
      /\ UNCHANGED <<bob_created, dh, send_chain, send_idx, handshake_done, sent>>
      /\ Opens(n, frame)
  BY Zenon DEF decrypt
<1>2. /\ frame \in sent[n] \cup Keyed(Other(n)) /\ frame \in Frame
      /\ frame.key = recv_chain[n] /\ frame.idx >= expected_recv_idx[n]
  BY <1>1, OpenedIsNext, Zenon
<1>3. recv_chain[n] \in Chain /\ frame.idx \in 1 .. MaxFrames
  BY <1>2, Zenon DEF RatchetTypeOK, Frame
<1>4. /\ Advanced(recv_chain[n]) \in Chain
      /\ Advanced(recv_chain[n]).secret = recv_chain[n].secret
      /\ Advanced(recv_chain[n]).steps = recv_chain[n].steps + 1
  BY <1>3 DEF Advanced, Chain
<1>5. RatchetTypeOK'
  <2>1. /\ prev_hash' \in [End -> Seq(Frame)]
        /\ read' \in [End -> Seq(Frame)]
    BY <1>1, <1>2 DEF RatchetTypeOK
  <2>2. frame.idx + 1 \in 1 .. MaxFrames + 1 /\ frame.idx \in 0 .. MaxFrames
    BY <1>3, RatchetBoundAssumption
  <2> QED BY <1>1, <1>4, <2>1, <2>2, Zenon DEF RatchetTypeOK
<1>6. \A m \in End : Keyed(m)' = Keyed(m)
  BY <1>1, Zenon DEF Keyed
<1>7. /\ recv_chain'[n] = Advanced(recv_chain[n])
      /\ \A m \in End : m # n => recv_chain'[m] = recv_chain[m] /\ read'[m] = read[m]
                                   /\ expected_recv_idx'[m] = expected_recv_idx[m]
      /\ read'[n] = Append(read[n], frame)
      /\ expected_recv_idx'[n] = frame.idx + 1
  BY <1>1, Zenon DEF RatchetTypeOK
<1>9. ChainsStart'
  <2>1. \A m \in End : ~handshake_done'[m] => /\ send_chain'[m].secret = ZeroKey
                                               /\ recv_chain'[m].secret = ZeroKey
                                               /\ Keyed(m)' = {}
    BY <1>1, <1>4, <1>6, <1>7, ZenonT(40) DEF ChainsStart
  <2>2. \A m \in End : handshake_done'[m] => /\ send_chain'[m].secret = recv_chain'[m].secret
                                              /\ send_chain'[m].secret # ZeroKey
    BY <1>1, <1>4, <1>7, ZenonT(40) DEF ChainsStart
  <2> QED BY <1>1, <2>1, <2>2, ZenonT(40) DEF ChainsStart
<1>10. FramesNumber'
  BY <1>1, <1>6, Zenon DEF FramesNumber
<1>11. ReadsFollow'
  <2> SUFFICES ASSUME NEW m \in End
               PROVE  /\ Taken(read'[m], sent[m], Keyed(Other(m)), recv_chain'[m],
                               expected_recv_idx'[m])
                      /\ NoneReturned(m)' => InStep(read'[m], recv_chain'[m])
    BY <1>1, <1>6, OtherEnd, ZenonT(40) DEF ReadsFollow
  <2>1. /\ Taken(read[m], sent[m], Keyed(Other(m)), recv_chain[m], expected_recv_idx[m])
        /\ NoneReturned(m) => InStep(read[m], recv_chain[m])
    BY Zenon DEF ReadsFollow
  <2>2. CASE m # n
    <3>1. NoneReturned(m)' = NoneReturned(m)
      BY <1>7, <2>2, Zenon DEF NoneReturned
    <3> QED BY <1>7, <2>1, <2>2, <3>1, Zenon
  <2>3. CASE m = n
    <3>1. read[n] \in Seq(Frame) /\ expected_recv_idx[n] \in Nat
      BY RatchetBoundAssumption DEF RatchetTypeOK
    <3>2. /\ Len(read'[n]) = Len(read[n]) + 1
          /\ read'[n][Len(read[n]) + 1] = frame
          /\ \A i \in 1 .. Len(read[n]) : read'[n][i] = read[n][i]
      BY <1>2, <1>7, <3>1, AppendFacts
    <3>3. Taken(read'[n], sent[n], Keyed(Other(n)), recv_chain'[n], expected_recv_idx'[n])
      BY <1>2, <1>3, <1>7, <2>1, <2>3, <3>1, TakenMore, Zenon
    <3>4. ASSUME NoneReturned(n)' PROVE InStep(read'[n], recv_chain'[n])
      <4>0. Len(read[n]) \in Nat
        BY <3>1
      <4>1. \A i \in 1 .. Len(read[n]) : i \in 1 .. Len(read'[n])
        BY <3>2, <4>0
      <4>2. NoneReturned(n)
        BY <3>2, <3>4, <4>1, Zenon DEF NoneReturned
      <4>3. Len(read[n]) = recv_chain[n].steps
            /\ \A i \in 1 .. Len(read[n]) : read[n][i].key.steps = i - 1
        BY <2>1, <2>3, <4>2, Zenon DEF InStep
      <4>4. frame.key.steps = (Len(read[n]) + 1) - 1
        BY <1>2, <4>0, <4>3
      <4>5. ASSUME NEW i \in 1 .. Len(read'[n]) PROVE read'[n][i].key.steps = i - 1
        <5>1. CASE i = Len(read[n]) + 1
          BY <3>2, <4>4, <5>1, Zenon
        <5>2. CASE i \in 1 .. Len(read[n])
          BY <3>2, <4>3, <5>2, Zenon
        <5> QED BY <3>2, <4>0, <5>1, <5>2
      <4> QED BY <1>4, <1>7, <3>2, <4>3, <4>5, Zenon DEF InStep
    <3> QED BY <2>3, <3>3, <3>4, Zenon
  <2> QED BY <2>2, <2>3, Zenon
<1>12. QED
  BY <1>5, <1>9, <1>10, <1>11, Zenon

\* A step that leaves chains, indices and frames alone keeps what relates them.
LEMMA RatchetKept ==
    ASSUME RatchetInv,
           UNCHANGED <<bob_created, send_chain, recv_chain, send_idx, recv_idx,
                       expected_recv_idx, prev_hash, handshake_done, sent, read>>
    PROVE  ChainsStart' /\ FramesNumber' /\ ReadsFollow'
<1>1. \A m : Keyed(m)' = Keyed(m)
  BY Zenon DEF Keyed
<1>2. ChainsStart'
  BY <1>1, ZenonT(40) DEF RatchetInv, ChainsStart
<1>3. FramesNumber'
  BY <1>1, Zenon DEF RatchetInv, FramesNumber
<1>4. ReadsFollow'
  BY <1>1, Zenon DEF RatchetInv, ReadsFollow, NoneReturned
<1>5. QED
  BY <1>2, <1>3, <1>4, Zenon

\* Every step keeps it.
LEMMA RatchetInvStep == RatchetInv /\ [RatchetNext]_ratchetVars => RatchetInv'
<1> SUFFICES ASSUME RatchetInv, [RatchetNext]_ratchetVars PROVE RatchetInv'
  BY Zenon
<1>1. CASE new_bob
  <2>1. PICK k \in 0 .. dh["alice"] : complete_handshake("bob", <<k, dh["bob"]>>)
    BY <1>1, Zenon DEF new_bob
  <2>2. <<k, dh["bob"]>> \in Secret
    BY RatchetBoundAssumption, SMTT(40) DEF Secret, RatchetInv, RatchetTypeOK, End
  <2> QED BY <1>1, <2>1, <2>2, HandshakeKeeps, Zenon DEF new_bob, End
<1>2. CASE AliceHandshake
  <2>1. PICK k \in 0 .. dh["bob"] : complete_handshake("alice", <<dh["alice"], k>>)
    BY <1>2, Zenon DEF AliceHandshake
  <2>2. <<dh["alice"], k>> \in Secret
    BY RatchetBoundAssumption, SMTT(40) DEF Secret, RatchetInv, RatchetTypeOK, End
  <2>3. bob_created /\ bob_created'
    BY <1>2, Zenon DEF AliceHandshake
  <2> QED BY <2>1, <2>2, <2>3, HandshakeKeeps, Zenon DEF End
<1>3. ASSUME NEW n \in End, dh_ratchet_advance(n) PROVE RatchetInv'
  <2>1. dh' \in [End -> 0 .. MaxTurns]
    BY <1>3, RatchetBoundAssumption DEF dh_ratchet_advance, RatchetInv, RatchetTypeOK
  <2>2. UNCHANGED <<bob_created, send_chain, recv_chain, send_idx, recv_idx,
                    expected_recv_idx, prev_hash, handshake_done, sent, read>>
    BY <1>3, Zenon DEF dh_ratchet_advance
  <2>3. RatchetTypeOK'
    BY <2>1, <2>2, Zenon DEF RatchetInv, RatchetTypeOK
  <2> QED BY <2>2, <2>3, RatchetKept, Zenon DEF RatchetInv
<1>4. CASE UNCHANGED ratchetVars
  <2>1. RatchetTypeOK'
    BY <1>4, Zenon DEF ratchetVars, RatchetInv, RatchetTypeOK
  <2>2. UNCHANGED <<bob_created, send_chain, recv_chain, send_idx, recv_idx,
                    expected_recv_idx, prev_hash, handshake_done, sent, read>>
    BY <1>4, Zenon DEF ratchetVars
  <2> QED BY <2>1, <2>2, RatchetKept, Zenon DEF RatchetInv
<1>5. QED
  BY <1>1, <1>2, <1>3, <1>4, EncryptKeeps, DecryptKeeps, Zenon DEF RatchetNext

\* The chains, indices and frames of the two ends are in step at all times.
THEOREM RatchetInvariant == RatchetSpec => []RatchetInv
  BY RatchetInvInit, RatchetInvStep, PTL DEF RatchetSpec

\* Frames of a handshake are frames.
LEMMA KeyedType ==
    ASSUME RatchetTypeOK, NEW n \in End, NEW f \in Keyed(n)
    PROVE  f \in Frame /\ f.idx \in Nat /\ f.key.steps \in Nat
<1>1. f \in Frame
  BY Zenon DEF Keyed, RatchetTypeOK
<1>2. QED
  BY <1>1 DEF Frame, Chain

\* Two frames of an end with the same step of the chain are the same frame.
LEMMA StepIsFrame ==
    ASSUME RatchetInv, NEW n \in End, NEW f \in Keyed(n), NEW g \in Keyed(n),
           f.key.steps = g.key.steps
    PROVE  f = g
<1>1. f \in Frame /\ g \in Frame
  BY Zenon DEF RatchetInv, RatchetTypeOK, Keyed
<1>2. f.key = g.key
  <2>1. f.key \in Chain /\ g.key \in Chain
    BY <1>1, Zenon DEF Frame
  <2>2. f.key.secret = g.key.secret
    BY DEF RatchetInv, FramesNumber, Numbered
  <2> QED BY <2>1, <2>2 DEF Chain
<1>3. f.idx \in Int /\ g.idx \in Int /\ f.key.steps \in Int
  BY <1>1 DEF Frame, Chain
<1>4. ~(f.idx < g.idx) /\ ~(g.idx < f.idx)
  BY <1>3 DEF RatchetInv, FramesNumber, Numbered
<1>5. f.from = g.from
  BY Zenon DEF RatchetInv, ChainsStart, Keyed
<1>6. QED
  BY <1>1, <1>2, <1>3, <1>4, <1>5 DEF Frame

\* An end that read none of its own frames has read the other's, step by step.
LEMMA ReadsInStep ==
    ASSUME RatchetInv, NEW n \in End, NoneReturned(n)
    PROVE  /\ Len(read[n]) = recv_chain[n].steps
           /\ \A j \in 1 .. Len(read[n]) : /\ read[n][j] \in Keyed(Other(n))
                                          /\ read[n][j].key.steps = j - 1
<1>1. /\ InStep(read[n], recv_chain[n])
      /\ \A j \in 1 .. Len(read[n]) : read[n][j] \in sent[n] \cup Keyed(Other(n))
  BY Zenon DEF RatchetInv, ReadsFollow, Taken
<1>2. \A f \in sent[n] : f.from # Other(n)
  BY OtherEnd, Zenon DEF RatchetInv, ChainsStart
<1> QED BY <1>1, <1>2, Zenon DEF InStep, NoneReturned

\* An end reads by increasing index, and a frame of the other's only after all
\* that were sent before it, save those whose step of the chain a frame of its
\* own took (ratchet.rs:130-166).
THEOREM InOrder == RatchetSpec => []ReadsInOrder
<1>1. RatchetInv => ReadsInOrder
  <2> SUFFICES ASSUME RatchetInv, NEW n \in End, NEW i \in 1 .. Len(read[n])
               PROVE  /\ \A j \in 1 .. i - 1 : read[n][j].idx < read[n][i].idx
                      /\ read[n][i].from = Other(n) =>
                            \A f \in Keyed(Other(n)) : f.idx < read[n][i].idx =>
                                \E j \in 1 .. i - 1 :
                                    \/ read[n][j] = f
                                    \/ read[n][j].from = n /\ read[n][j].key = f.key
    BY Zenon DEF ReadsInOrder
  <2> DEFINE m == Other(n)
             r == read[n]
  <2>1. Taken(r, sent[n], Keyed(m), recv_chain[n], expected_recv_idx[n])
    BY Zenon DEF RatchetInv, ReadsFollow
  <2>2. m \in End /\ m # n /\ Len(r) \in Nat /\ r \in Seq(Frame)
    BY OtherEnd DEF RatchetInv, RatchetTypeOK
  <2>3. \A f, g \in Keyed(m) : /\ f.idx < g.idx <=> f.key.steps < g.key.steps
                               /\ f.key.secret = g.key.secret
    BY <2>2, ZenonT(40) DEF RatchetInv, FramesNumber, Numbered
  <2> HIDE DEF m, r
  <2>4. ASSUME NEW j \in 1 .. i - 1
        PROVE  j \in 1 .. Len(r) /\ j < i
    BY <2>2 DEF r
  <2>5. \A j \in 1 .. i - 1 : r[j].idx < r[i].idx
    BY <2>1, <2>4, Zenon DEF Taken, r
  <2>6. ASSUME r[i].from = m, NEW f \in Keyed(m), f.idx < r[i].idx
        PROVE  \E j \in 1 .. i - 1 : r[j] = f \/ (r[j].from = n /\ r[j].key = f.key)
    <3>1. r[i] \in Keyed(m)
      <4>1. \A g \in sent[n] : g.from = n
        BY Zenon DEF RatchetInv, ChainsStart
      <4>2. r[i] \in sent[n] \cup Keyed(m)
        BY <2>1, Zenon DEF Taken, r
      <4> QED BY <2>2, <2>6, <4>1, <4>2, Zenon
    <3>2. f.key.steps < r[i].key.steps /\ f.key.secret = r[i].key.secret
      BY <2>3, <2>6, <3>1, Zenon
    <3>3. f.key.secret # ZeroKey /\ f \in Frame /\ f.key.steps \in Nat
      BY <2>2, KeyedType, Zenon DEF Keyed, RatchetInv
    <3>4. f.key.secret = recv_chain[n].secret /\ r[i].key.steps < recv_chain[n].steps
      BY <2>1, <3>2, <3>3, Zenon DEF Taken, r
    <3>5. f.key.steps \in 0 .. recv_chain[n].steps - 1
      <4>1. recv_chain[n].steps \in Nat /\ r[i].key.steps \in Nat
        BY <2>2, <3>1, KeyedType, Zenon DEF RatchetInv, RatchetTypeOK, Chain
      <4> QED BY <3>2, <3>3, <3>4, <4>1
    <3>6. PICK j \in 1 .. Len(r) :
             r[j].key.secret = recv_chain[n].secret /\ r[j].key.steps = f.key.steps
      BY <2>1, <3>5, Zenon DEF Taken
    <3>7. r[j] \in Frame /\ r[j].key \in Chain /\ f.key \in Chain
      <4>1. r[j] \in Frame
        BY <2>2
      <4> QED BY <3>3, <4>1, Zenon DEF Frame
    <3>8. r[j].key = f.key
      BY <3>4, <3>6, <3>7 DEF Chain
    <3>9. j \in 1 .. i - 1
      <4>1. j # i
        BY <3>1, <3>2, <3>3, <3>6, KeyedType DEF RatchetInv
      <4>2. ~(i < j)
        <5> SUFFICES ASSUME i < j PROVE FALSE
          BY Zenon
        <5>1. r[i].key.steps < r[j].key.steps
          BY <2>1, <3>2, <3>4, <3>6, Zenon DEF Taken, r
        <5>2. r[i].key.steps \in Nat
          BY <2>2, <3>1, KeyedType, Zenon DEF RatchetInv
        <5> QED BY <3>2, <3>3, <3>6, <5>1, <5>2
      <4> QED BY <2>2, <4>1, <4>2 DEF r
    <3>10. r[j] = f \/ r[j].from = n
      <4>1. CASE r[j] \in sent[n]
        BY <4>1, Zenon DEF RatchetInv, ChainsStart
      <4>2. CASE r[j] \in Keyed(m)
        BY <2>2, <3>6, <4>2, StepIsFrame, Zenon
      <4> QED BY <2>1, <4>1, <4>2, Zenon DEF Taken
    <3> QED BY <3>8, <3>9, <3>10, Zenon
  <2> QED BY <2>5, <2>6, Zenon DEF m, r
<1>2. QED
  BY <1>1, RatchetInvariant, PTL

\* The first frame that an end has not read can be opened, as long as the end
\* has read none of its own: the window and the chain move with the frames that
\* authenticate and with nothing else (ratchet.rs:145-149).
THEOREM NextOpens == RatchetSpec => []NextFrameOpens
<1>1. RatchetInv => NextFrameOpens
  <2> SUFFICES ASSUME RatchetInv, Agree, NEW n \in End, NEW f \in Keyed(Other(n)),
                      NoneReturned(n), ~Read(n, f),
                      \A g \in Keyed(Other(n)) : g.idx < f.idx => Read(n, g)
               PROVE  Opens(n, f)
    BY Zenon DEF NextFrameOpens
  <2> DEFINE m == Other(n)
             r == Len(read[n])
  <2>1. m \in End /\ r \in Nat /\ r = recv_chain[n].steps
    <3>1. r = recv_chain[n].steps
      BY ReadsInStep, Zenon
    <3> QED BY <3>1, OtherEnd DEF RatchetInv, RatchetTypeOK
  <2>2. \A j \in 1 .. r : read[n][j] \in Keyed(m) /\ read[n][j].key.steps = j - 1
    BY ReadsInStep, Zenon
  <2>3. \A g, h \in Keyed(m) : g.idx < h.idx <=> g.key.steps < h.key.steps
    BY <2>1, Zenon DEF RatchetInv, FramesNumber, Numbered
  <2>4. \A g \in Keyed(m) : g \in Frame /\ g.idx \in Nat /\ g.key.steps \in Nat
    BY <2>1, KeyedType, Zenon DEF RatchetInv
  <2> HIDE DEF m, r
  <2>5. f \in Keyed(m)
    BY Zenon DEF m
  <2>6. ~(f.key.steps < r)
    <3> SUFFICES ASSUME f.key.steps < r PROVE FALSE
      BY Zenon
    <3>1. f.key.steps + 1 \in 1 .. r
      BY <2>1, <2>4, <2>5
    <3>2. read[n][f.key.steps + 1] = f
      BY <2>1, <2>2, <2>4, <2>5, <3>1, StepIsFrame
    <3> QED BY <3>1, <3>2, ZenonT(40) DEF Read, r
  <2>7. ~(r < f.key.steps)
    <3> SUFFICES ASSUME r < f.key.steps PROVE FALSE
      BY Zenon
    <3>1. handshake_done[m] /\ send_chain[m].steps \in Nat /\ f.key.steps < send_chain[m].steps
      BY <2>1, <2>5, ZenonT(40) DEF Agree, End, RatchetInv, RatchetTypeOK, Chain,
          FramesNumber, Numbered
    <3>2. r \in 0 .. send_chain[m].steps - 1
      BY <2>1, <2>4, <2>5, <3>1
    <3>3. PICK g \in Keyed(m) : g.key.steps = r
      BY <2>1, <3>1, <3>2, ZenonT(40) DEF RatchetInv, FramesNumber, Numbered
    <3>4. g.idx < f.idx
      BY <2>3, <2>5, <3>3, Zenon
    <3>5. PICK i \in 1 .. r : read[n][i] = g
      BY <3>3, <3>4, Zenon DEF Read, m, r
    <3> QED BY <2>1, <2>2, <3>3, <3>5
  <2>8. f.key.steps = r
    BY <2>1, <2>4, <2>5, <2>6, <2>7
  <2>9. f.key = recv_chain[n]
    <3>1. f.key \in Chain /\ recv_chain[n] \in Chain
      BY <2>4, <2>5, Zenon DEF Frame, RatchetInv, RatchetTypeOK
    <3>2. f.key.secret = send_chain[m].secret
      BY <2>1, <2>5, Zenon DEF RatchetInv, FramesNumber, Numbered
    <3>3. send_chain[m].secret = recv_chain[n].secret
      <4>1. send_chain[n].secret = recv_chain[n].secret
        BY Zenon DEF Agree, RatchetInv, ChainsStart, End
      <4>2. send_chain[m].secret = send_chain[n].secret
        BY Zenon DEF Agree, m, Other, End
      <4> QED BY <4>1, <4>2, Zenon
    <3> QED BY <2>1, <2>8, <3>1, <3>2, <3>3 DEF Chain
  <2>10. f.idx >= expected_recv_idx[n]
    <3>1. f.idx \in Nat /\ f.idx >= 1
      BY <2>4, <2>5 DEF Frame
    <3>2. CASE expected_recv_idx[n] = 1
      BY <3>1, <3>2
    <3>3. CASE \E i \in 1 .. r : expected_recv_idx[n] = read[n][i].idx + 1
      <4>1. PICK i \in 1 .. r : expected_recv_idx[n] = read[n][i].idx + 1
        BY <3>3, Zenon
      <4>2. read[n][i].key.steps < f.key.steps
        BY <2>1, <2>2, <2>8, SMTT(40)
      <4>3. read[n][i].idx < f.idx /\ read[n][i].idx \in Nat
        BY <2>2, <2>3, <2>4, <2>5, <4>2, Zenon
      <4> QED BY <3>1, <4>1, <4>3
    <3> QED BY <3>2, <3>3, Zenon DEF RatchetInv, ReadsFollow, Taken, r
  <2>11. Exists(n)
    BY Zenon DEF Agree, Exists, RatchetInv, ChainsStart
  <2> QED BY <2>9, <2>10, <2>11, Zenon DEF Opens
<1>2. QED
  BY <1>1, RatchetInvariant, PTL
---------------------------------------------------------------------------
(* The chain hashes.  An end that never wrote has hashed what it read; one  *)
(* that never read has hashed its frames, numbered by their indices.        *)

Hashes(hash, frames, keyed, idx, chain, frames_read) ==
    /\ frames = {} => hash = frames_read
    /\ frames_read = <<>> => /\ Len(hash) = idx
                             /\ \A i \in 1 .. idx : hash[i] \in frames /\ hash[i].idx = i
    /\ chain.steps <= idx
    /\ \A f \in keyed : f.idx - f.key.steps = idx + 1 - chain.steps

Hashed(n) == Hashes(prev_hash[n], sent[n], Keyed(n), send_idx[n], send_chain[n], read[n])

HashInv == \A n \in End : Hashed(n)

\* Two new ends have hashed nothing.
LEMMA HashInvInit == RatchetInit => HashInv
  BY DEF RatchetInit, HashInv, Hashed, Hashes, Keyed, StartOf

\* A frame that is encrypted extends the writer's hash.
LEMMA HashEncrypt ==
    ASSUME RatchetInv, HashInv, NEW n \in End, encrypt(n)
    PROVE  HashInv'
<1> DEFINE frame == [from |-> n, idx |-> send_idx[n] + 1, key |-> send_chain[n]]
<1>1. /\ send_chain[n] \in Chain /\ send_chain[n].steps \in Nat /\ send_idx[n] \in Nat
      /\ prev_hash[n] \in Seq(Frame) /\ sent[n] \subseteq Frame
  BY DEF RatchetInv, RatchetTypeOK, Chain
<1>2. /\ send_idx'[n] = send_idx[n] + 1
      /\ send_chain'[n] = Advanced(send_chain[n])
      /\ sent'[n] = sent[n] \cup {frame}
      /\ prev_hash'[n] = Append(prev_hash[n], frame)
      /\ read' = read
      /\ \A m \in End : m # n => /\ sent'[m] = sent[m] /\ send_chain'[m] = send_chain[m]
                                 /\ send_idx'[m] = send_idx[m] /\ prev_hash'[m] = prev_hash[m]
  BY Zenon DEF encrypt, RatchetInv, RatchetTypeOK
<1>3. frame \in Frame
  BY <1>1, RatchetBoundAssumption DEF encrypt, Frame
<1>4. frame.idx = send_idx[n] + 1 /\ frame.key = send_chain[n]
  BY Zenon
<1> HIDE DEF frame
<1>5. send_chain'[n].steps = send_chain[n].steps + 1
  BY <1>1, <1>2, Zenon DEF Advanced, Chain
<1>6. ASSUME NEW m \in End, m # n PROVE Hashed(m)'
  BY <1>2, <1>6 DEF HashInv, Hashed, Hashes, Keyed
<1>7. Hashed(n)'
  <2>1. read[n] = <<>> => /\ Len(prev_hash'[n]) = send_idx'[n]
                          /\ \A i \in 1 .. send_idx'[n] : /\ prev_hash'[n][i] \in sent'[n]
                                                          /\ prev_hash'[n][i].idx = i
    <3> SUFFICES ASSUME read[n] = <<>>, NEW i \in 1 .. send_idx[n] + 1
                 PROVE  /\ Len(prev_hash'[n]) = send_idx'[n]
                        /\ prev_hash'[n][i] \in sent'[n]
                        /\ prev_hash'[n][i].idx = i
      BY <1>1, <1>2, <1>3, AppendFacts, SMTT(40) DEF HashInv, Hashed, Hashes
    <3>1. Len(prev_hash[n]) = send_idx[n]
      BY ZenonT(40) DEF HashInv, Hashed, Hashes
    <3>2. Len(prev_hash'[n]) = send_idx'[n]
      BY <1>1, <1>2, <1>3, <3>1, AppendFacts
    <3>3. CASE i \in 1 .. send_idx[n]
      <4>1. prev_hash'[n][i] = prev_hash[n][i]
        BY <1>1, <1>2, <1>3, <3>1, <3>3, AppendFacts
      <4> QED BY <1>2, <3>2, <3>3, <4>1, SMTT(40) DEF HashInv, Hashed, Hashes
    <3>4. CASE i = send_idx[n] + 1
      <4>1. prev_hash'[n][i] = frame
        BY <1>1, <1>2, <1>3, <3>1, <3>4, AppendFacts
      <4> QED BY <1>2, <1>4, <3>2, <3>4, <4>1, Zenon
    <3> QED BY <1>1, <3>3, <3>4
  <2>2. \A f \in Keyed(n)' : f.idx - f.key.steps = send_idx'[n] + 1 - send_chain'[n].steps
    <3>1. Keyed(n)' \subseteq Keyed(n) \cup {frame}
      BY <1>2, Zenon DEF Keyed
    <3>2. \A f \in Keyed(n) : f.idx - f.key.steps = send_idx[n] + 1 - send_chain[n].steps
      BY Zenon DEF HashInv, Hashed, Hashes
    <3>3. send_idx'[n] + 1 - send_chain'[n].steps = send_idx[n] + 1 - send_chain[n].steps
      <4>1. \A a, b \in Nat : (a + 1) + 1 - (b + 1) = a + 1 - b
        OBVIOUS
      <4> QED BY <1>1, <1>2, <1>5, <4>1, Zenon
    <3>4. frame.idx - frame.key.steps = send_idx[n] + 1 - send_chain[n].steps
      BY <1>1, <1>4
    <3> QED BY <3>1, <3>2, <3>3, <3>4, Zenon
  <2>3. send_chain'[n].steps <= send_idx'[n]
    BY <1>1, <1>2, <1>5 DEF HashInv, Hashed, Hashes
  <2> QED BY <1>2, <2>1, <2>2, <2>3, ZenonT(40) DEF Hashed, Hashes
<1>8. QED
  BY <1>6, <1>7, Zenon DEF HashInv

\* Every step keeps the relation of the hashes.
LEMMA HashInvStep == RatchetInv /\ HashInv /\ [RatchetNext]_ratchetVars => HashInv'
<1> SUFFICES ASSUME RatchetInv, HashInv, [RatchetNext]_ratchetVars PROVE HashInv'
  BY Zenon
<1>1. ASSUME NEW n \in End, NEW s, complete_handshake(n, s) PROVE HashInv'
  <2>1. /\ send_chain'[n].steps = 0
        /\ \A m \in End : m # n => send_chain'[m] = send_chain[m]
        /\ UNCHANGED <<send_idx, prev_hash, sent, read>>
    BY <1>1, Zenon DEF complete_handshake, StartOf, RatchetInv, RatchetTypeOK
  <2>2. \A m \in End : Keyed(m)' = Keyed(m)
    BY <2>1, Zenon DEF Keyed
  <2>3. Keyed(n) = {} /\ send_idx[n] \in Nat
    BY <1>1 DEF complete_handshake, RatchetInv, RatchetTypeOK, ChainsStart
  <2>4. Hashed(n)'
    BY <2>1, <2>2, <2>3 DEF HashInv, Hashed, Hashes
  <2>5. \A m \in End : m # n => Hashed(m)'
    BY <2>1, <2>2 DEF HashInv, Hashed, Hashes
  <2> QED BY <2>4, <2>5, Zenon DEF HashInv
<1>2. ASSUME NEW n \in End, NEW frame \in Arriving(n), decrypt(n, frame) PROVE HashInv'
  <2>1. frame \in Frame
    BY <1>2, OpenedIsNext, Zenon DEF decrypt
  <2>2. /\ prev_hash'[n] = Append(prev_hash[n], frame)
        /\ read'[n] = Append(read[n], frame)
        /\ \A m \in End : m # n => prev_hash'[m] = prev_hash[m] /\ read'[m] = read[m]
        /\ UNCHANGED <<send_chain, send_idx, sent>>
    BY <1>2, Zenon DEF decrypt, RatchetInv, RatchetTypeOK
  <2>3. read'[n] # <<>>
    <3>1. read[n] \in Seq(Frame)
      BY Zenon DEF RatchetInv, RatchetTypeOK
    <3> QED BY <2>1, <2>2, <3>1, AppendFacts
  <2>4. \A m \in End : Keyed(m)' = Keyed(m)
    BY <2>2, Zenon DEF Keyed
  <2>5. Hashed(n)'
    BY <2>2, <2>3, <2>4, Zenon DEF HashInv, Hashed, Hashes
  <2>6. \A m \in End : m # n => Hashed(m)'
    BY <2>2, <2>4, Zenon DEF HashInv, Hashed
  <2> QED BY <2>5, <2>6, Zenon DEF HashInv
<1>3. CASE UNCHANGED <<send_chain, send_idx, prev_hash, sent, read>>
  BY <1>3, Zenon DEF HashInv, Hashed, Hashes, Keyed
<1>4. QED
  BY <1>1, <1>2, <1>3, HashEncrypt, Zenon DEF RatchetNext, new_bob, AliceHandshake,
      dh_ratchet_advance, ratchetVars, End

\* An end that only reads and has read everything has the chain hash of one that
\* only writes (ratchet.rs:117-119): both hashed the same frames in the same
\* order.
THEOREM HashesAgree == RatchetSpec => []HashesMatch
<1>1. RatchetInv /\ HashInv => HashesMatch
  <2> SUFFICES ASSUME RatchetInv, HashInv, NEW n \in End, sent[n] = {}, read[Other(n)] = <<>>,
                      \A f \in sent[Other(n)] : Read(n, f)
               PROVE  prev_hash[n] = prev_hash[Other(n)]
    BY Zenon DEF HashesMatch
  <2> DEFINE m == Other(n)
             h == prev_hash[m]
             r == read[n]
  <2>1. m \in End /\ Other(m) = n /\ r \in Seq(Frame) /\ h \in Seq(Frame)
        /\ send_idx[m] \in Nat /\ send_chain[m].steps \in Nat /\ Len(r) \in Nat
    BY OtherEnd DEF RatchetInv, RatchetTypeOK, Chain
  <2>2. prev_hash[n] = r
    BY Zenon DEF HashInv, Hashed, Hashes
  <2>3. NoneReturned(n)
    <3>1. \A i \in 1 .. Len(r) : r[i] \in sent[n] \cup Keyed(m)
      BY Zenon DEF RatchetInv, ReadsFollow, Taken
    <3> QED BY <2>1, <3>1, Zenon DEF NoneReturned, Keyed, RatchetInv, ChainsStart
  <2>4. Len(h) = send_idx[m] /\ \A i \in 1 .. Len(h) : h[i] \in sent[m] /\ h[i].idx = i
    BY <2>1, Zenon DEF HashInv, Hashed, Hashes
  <2>5. \A i \in 1 .. Len(r) : r[i] \in Keyed(m) /\ r[i].key.steps = i - 1
    BY <2>3, ReadsInStep, Zenon
  <2>6. \A f \in sent[m] : /\ f \in Keyed(m)
                           /\ \E i \in 1 .. Len(r) : r[i] = f
    BY <2>5, Zenon DEF Read
  <2>7. \A f \in Keyed(m) : /\ f.idx \in Nat /\ f.key.steps \in Nat /\ f \in sent[m]
                            /\ f.idx <= send_idx[m]
                            /\ f.idx - f.key.steps = send_idx[m] + 1 - send_chain[m].steps
    BY <2>1, KeyedType, ZenonT(40) DEF RatchetInv, FramesNumber, Numbered, HashInv,
        Hashed, Hashes, Keyed
  <2>8. send_chain[m].steps <= send_idx[m]
    BY <2>1, Zenon DEF HashInv, Hashed, Hashes
  <2> HIDE DEF m, h, r
  <2>9. \A f \in Keyed(m) : f.idx = f.key.steps + 1
    <3> SUFFICES ASSUME NEW f \in Keyed(m) PROVE f.idx = f.key.steps + 1
      BY Zenon
    <3>1. 1 \in 1 .. Len(h)
      <4>1. f.idx <= Len(h) /\ f.idx - f.key.steps >= 1
        BY <2>1, <2>4, <2>7, <2>8
      <4> QED BY <2>1, <2>4, <2>7, <4>1
    <3>2. h[1] \in Keyed(m) /\ h[1].idx = 1
      BY <2>4, <2>6, <3>1, Zenon
    <3>3. send_idx[m] + 1 - send_chain[m].steps = 1
      <4>1. 1 - h[1].key.steps = send_idx[m] + 1 - send_chain[m].steps
        BY <2>7, <3>2, Zenon
      <4>2. h[1].key.steps \in Nat
        BY <2>7, <3>2, Zenon
      <4>3. \A a, b, k \in Nat : b <= a /\ 1 - k = a + 1 - b => a + 1 - b = 1
        OBVIOUS
      <4> QED BY <2>1, <2>8, <4>1, <4>2, <4>3, Zenon
    <3>4. f.idx \in Nat /\ f.key.steps \in Nat /\ f.idx - f.key.steps = 1
      BY <2>7, <3>3, Zenon
    <3>5. \A a, b \in Nat : a - b = 1 => a = b + 1
      OBVIOUS
    <3> QED BY <3>4, <3>5, Zenon
  <2>10. Len(r) = Len(h)
    <3>1. ~(Len(r) > Len(h))
      <4> SUFFICES ASSUME Len(r) > Len(h) PROVE FALSE
        BY Zenon
      <4>1. Len(r) \in 1 .. Len(r)
        BY <2>1, <2>4
      <4>2. r[Len(r)].idx = Len(r)
        BY <2>1, <2>5, <2>9, <4>1
      <4> QED BY <2>1, <2>4, <2>5, <2>7, <4>1, <4>2
    <3>2. ~(Len(h) > Len(r))
      <4> SUFFICES ASSUME Len(h) > Len(r) PROVE FALSE
        BY Zenon
      <4>1. Len(h) \in 1 .. Len(h)
        BY <2>1, <2>4
      <4>2. PICK i \in 1 .. Len(r) : r[i] = h[Len(h)]
        BY <2>4, <2>6, <4>1, Zenon
      <4>3. r[i].idx = i
        BY <2>1, <2>5, <2>9
      <4> QED BY <2>1, <2>4, <4>1, <4>2, <4>3
    <3> QED BY <2>1, <2>4, <3>1, <3>2
  <2>11. \A i \in 1 .. Len(h) : r[i] = h[i]
    <3> SUFFICES ASSUME NEW i \in 1 .. Len(h) PROVE r[i] = h[i]
      BY Zenon
    <3>1. r[i] \in Keyed(m) /\ r[i].key.steps = i - 1
      BY <2>5, <2>10, Zenon
    <3>2. h[i] \in Keyed(m) /\ h[i].idx = i
      BY <2>4, <2>6, Zenon
    <3>3. h[i].key.steps = i - 1
      BY <2>7, <2>9, <3>2
    <3> QED BY <2>1, <3>1, <3>2, <3>3, StepIsFrame, Zenon
  <2>12. r = h
    BY <2>1, <2>10, <2>11
  <2> QED BY <2>2, <2>12, Zenon DEF h, m
<1>2. QED
  BY <1>1, RatchetInvariant, HashInvInit, HashInvStep, PTL DEF RatchetSpec

---------------------------------------------------------------------------
(***************************************************************************)
(* Proofs about WebOfTrust, for any keys, any signatures and any number of  *)
(* edits and restarts: whatever order compute_trust_map visits the keys in, *)
(* its levels only grow and end in the least map that agrees with the       *)
(* signatures.                                                              *)
(***************************************************************************)
\* t is nowhere above u.
Below(t, u) == \A fp \in Fingerprint : t[fp] <= u[fp]

\* Signatures earn a key one of three levels.
LEMMA NewLevelRange ==
    ASSUME NEW sigs, NEW t, NEW fp
    PROVE  NewLevel(sigs, t, fp) \in {Unknown, Marginal, Full}
  BY Zenon DEF NewLevel

\* A signature gives at least as much when its signer's level is higher.
LEMMA GivesMonotone ==
    ASSUME NEW t \in TrustMap, NEW u \in TrustMap, Below(t, u),
           NEW s \in TrustSignature, NEW l \in TrustLevel, Gives(t, s, l)
    PROVE  Gives(u, s, l)
<1>1. t[s.signer] <= u[s.signer] /\ t[s.signer] \in Int /\ u[s.signer] \in Int
  BY DEF Below, TrustSignature, TrustMap, TrustLevel, Never, Ultimate
<1>2. t[s.signer] >= l /\ from_i32(s.trust_level) >= l /\ l \in Int
  BY DEF Gives, TrustLevel, Never, Ultimate
<1>3. QED
  BY <1>1, <1>2 DEF Gives

\* So levels computed from higher levels are higher.
LEMMA NewLevelMonotone ==
    ASSUME NEW t \in TrustMap, NEW u \in TrustMap, Below(t, u),
           NEW sigs \in SUBSET TrustSignature, NEW fp
    PROVE  NewLevel(sigs, t, fp) <= NewLevel(sigs, u, fp)
<1> DEFINE some(m) == {s \in sigs : s.subject = fp /\ Gives(m, s, Marginal)}
           full(m) == \/ \E s \in some(m) : Gives(m, s, Full)
                      \/ \E s1, s2 \in some(m) : s1 # s2
<1>1. some(t) \subseteq some(u)
  BY GivesMonotone DEF TrustLevel, Never, Marginal, Ultimate
<1>2. full(t) => full(u)
  <2>1. \A s \in some(t) : Gives(t, s, Full) => Gives(u, s, Full)
    BY GivesMonotone DEF TrustLevel, Never, Full, Ultimate
  <2> HIDE DEF some
  <2> QED BY <1>1, <2>1, Zenon
<1>3. /\ NewLevel(sigs, t, fp) = IF full(t) THEN Full ELSE IF some(t) # {} THEN Marginal ELSE Unknown
      /\ NewLevel(sigs, u, fp) = IF full(u) THEN Full ELSE IF some(u) # {} THEN Marginal ELSE Unknown
  BY Zenon DEF NewLevel
<1> HIDE DEF some, full
<1>4. QED
  BY <1>1, <1>2, <1>3 DEF Full, Marginal, Unknown
---------------------------------------------------------------------------
(* The inductive invariant.  While the map is computed every level is at    *)
(* most what its signers give it (so the next visit can only raise it), the *)
(* map is below every granting one, and in a pass without a change the keys *)
(* already visited are balanced.                                            *)

SignersKnown(K, sigs) == \A s \in sigs : s.signer \in K

ComputingInv ==
    /\ identity # Missing
    /\ ~cache_valid
    /\ todo \subseteq Computed
    /\ \A fp \in Fingerprint \ Computed : trust[fp] = Seed[fp]
    /\ \A fp \in Computed : trust[fp] \in {Unknown, Marginal, Full}
    /\ \A fp \in Computed : trust[fp] <= NewLevel(Verified, trust, fp)
    /\ \A t \in Assignments : Granting(t) => Below(trust, t)
    /\ ~changed => \A fp \in Computed \ todo : trust[fp] = NewLevel(Verified, trust, fp)

TrustInv ==
    /\ TrustTypeOK
    /\ SignersKnown(keys, signatures)
    /\ wot_file # Missing => SignersKnown(wot_file.keys, wot_file.signatures)
    /\ computing => ComputingInv
    /\ CacheIsLeast
    /\ OwnKeyRecognised

\* The signatures the loop filters are the ones the properties count.
LEMMA ValidIsVerified ==
    ASSUME SignersKnown(keys, signatures)
    PROVE  {s \in signatures : signature_is_valid(s)} = Verified
  BY Zenon DEF SignersKnown, signature_is_valid, Verified

\* The computation starts from a map of levels.
LEMMA SeedType ==
    ASSUME TrustTypeOK
    PROVE  Seed \in TrustMap
<1>1. \A fp \in DOMAIN manual_overrides : manual_overrides[fp] \in TrustLevel
  BY Zenon DEF TrustTypeOK, Overrides
<1>2. QED
  BY <1>1 DEF Seed, TrustMap, TrustLevel, Never, Unknown, Ultimate

\* The maps the cache is compared with are maps of levels.
LEMMA AssignmentType ==
    ASSUME TrustTypeOK, NEW t \in Assignments
    PROVE  t \in TrustMap
  BY SeedType DEF Assignments, TrustMap, TrustLevel, Never, Unknown, Full, Ultimate

\* So is the map in which everything is Unknown.
LEMMA UnsetType == Unset \in TrustMap
  BY DEF Unset, TrustMap, TrustLevel, Never, Unknown, Ultimate

\* The count of edits stays within its bound.
LEMMA EditCounted ==
    ASSUME TrustTypeOK, Edit
    PROVE  edits' \in 0 .. MaxEdits
<1>1. edits \in Nat /\ MaxEdits \in Nat
  BY WebBoundAssumption DEF TrustTypeOK
<1>2. edits < MaxEdits /\ edits' = edits + 1
  BY Zenon DEF Edit
<1>3. QED
  BY <1>1, <1>2

\* A new client satisfies the invariant.
LEMMA TrustInvInit == TrustInit => TrustInv
<1> SUFFICES ASSUME TrustInit PROVE TrustInv
  BY Zenon
<1>1. NoOverrides \in Overrides
  <2>1. NoOverrides \in [{} -> TrustLevel]
    BY Zenon DEF NoOverrides
  <2> QED BY <2>1, Zenon DEF Overrides
<1>2. 0 \in 0 .. MaxEdits /\ 0 \in 0 .. MaxStops
  BY WebBoundAssumption
<1>3. TrustTypeOK
  BY <1>1, <1>2, UnsetType, Zenon DEF TrustInit, TrustTypeOK
<1>4. QED
  BY <1>3, Zenon DEF TrustInit, TrustInv, SignersKnown, CacheIsLeast, OwnKeyRecognised

\* The computation starts from the map that is below all others.
LEMMA StartOfComputation ==
    ASSUME TrustInv, NEW fp \in Fingerprint, calculate_trust(fp)
    PROVE  TrustInv'
<1> USE DEF TrustInv
<1>1. TrustTypeOK'
  BY SeedType, Zenon DEF calculate_trust, TrustTypeOK, web, files, Computed
<1>2. /\ Computed' = Computed /\ Seed' = Seed /\ Verified' = Verified
      /\ Assignments' = Assignments
  BY DEF calculate_trust, web, Computed, Fixed, Seed, Verified, Assignments
<1>3. \A t : Granting(t)' = Granting(t)
  BY Zenon DEF calculate_trust, web, Granting, Fixed, Verified
<1>4. \A k \in Computed : Seed[k] = Unknown
  BY Zenon DEF Computed, Fixed, Seed, TrustTypeOK
<1>5. \A t \in Assignments : Below(Seed, t)
  <2> SUFFICES ASSUME NEW t \in Assignments, NEW k \in Fingerprint PROVE Seed[k] <= t[k]
    BY Zenon DEF Below
  <2>1. PICK u \in [Fingerprint -> Unknown .. Full] :
           t = [f \in Fingerprint |-> IF f \in keys \ Fixed THEN u[f] ELSE Seed[f]]
    BY Zenon DEF Assignments
  <2>2. Seed[k] \in Int
    BY SeedType DEF TrustMap, TrustLevel, Never, Ultimate
  <2>3. CASE k \in keys \ Fixed
    BY <1>4, <2>1, <2>3 DEF Computed, Unknown, Full
  <2>4. CASE k \notin keys \ Fixed
    BY <2>1, <2>2, <2>4
  <2> QED BY <2>3, <2>4, Zenon
<1>6. \A k \in Computed : Seed[k] <= NewLevel(Verified, Seed, k)
  BY <1>4, NewLevelRange DEF Unknown, Marginal, Full
<1>7. ComputingInv'
  BY <1>2, <1>3, <1>4, <1>5, <1>6, Zenon DEF ComputingInv, calculate_trust, Running, Below
<1>8. QED
  BY <1>1, <1>7, Zenon DEF calculate_trust, web, files, SignersKnown, CacheIsLeast,
      OwnKeyRecognised
\* A visit raises the key's level to what its signers give it, or leaves it.
LEMMA Visit ==
    ASSUME TrustInv, NEW fp \in Fingerprint, VisitKey(fp)
    PROVE  TrustInv' /\ Below(trust, trust')
<1> USE DEF TrustInv
<1> DEFINE L == NewLevel(Verified, trust, fp)
<1>1. ComputingInv /\ fp \in Computed /\ todo' = todo \ {fp} /\ trust \in TrustMap
      /\ Verified \subseteq TrustSignature
  BY Zenon DEF VisitKey, ComputingInv, TrustTypeOK, Verified
<1>2. trust' = [trust EXCEPT ![fp] = L] /\ changed' = (changed \/ trust' # trust)
  BY ValidIsVerified, Zenon DEF VisitKey
<1>3. L \in {Unknown, Marginal, Full}
  BY NewLevelRange, Zenon
<1>4. trust' \in TrustMap
  BY <1>1, <1>2, <1>3 DEF TrustMap, TrustLevel, Never, Unknown, Marginal, Full, Ultimate
<1>5. trust[fp] <= L
  BY <1>1, Zenon DEF ComputingInv
<1>6. Below(trust, trust')
  <2> SUFFICES ASSUME NEW k \in Fingerprint PROVE trust[k] <= trust'[k]
    BY Zenon DEF Below
  <2>1. trust[k] \in Int
    BY <1>1 DEF TrustMap, TrustLevel, Never, Ultimate
  <2> QED BY <1>1, <1>2, <1>5, <2>1 DEF TrustMap
<1>7. TrustTypeOK'
  BY <1>2, <1>4, Zenon DEF VisitKey, TrustTypeOK, web, files
<1>8. /\ Computed' = Computed /\ Seed' = Seed /\ Verified' = Verified
      /\ Assignments' = Assignments
  <2>1. UNCHANGED <<keys, signatures, own_fingerprints, manual_overrides>>
    BY Zenon DEF VisitKey, web
  <2>2. Fixed' = Fixed /\ Seed' = Seed
    BY <2>1, Zenon DEF Fixed, Seed
  <2>3. Computed' = Computed /\ Verified' = Verified
    BY <2>1, <2>2, Zenon DEF Computed, Verified
  <2> QED BY <2>1, <2>2, <2>3, Zenon DEF Assignments
<1>9. \A t : Granting(t)' = Granting(t)
  BY Zenon DEF VisitKey, web, Granting, Fixed, Verified
<1>10. \A k \in Fingerprint : k # fp => trust'[k] = trust[k]
  BY <1>1, <1>2, Zenon DEF TrustMap
<1>11. trust'[fp] = L
  BY <1>1, <1>2, Zenon DEF TrustMap
<1>12. \A k \in Computed : trust'[k] \in {Unknown, Marginal, Full}
  BY <1>1, <1>3, <1>10, <1>11, Zenon DEF ComputingInv, Computed, TrustTypeOK
<1>13. \A k \in Computed : trust'[k] <= NewLevel(Verified, trust', k)
  <2> SUFFICES ASSUME NEW k \in Computed PROVE trust'[k] <= NewLevel(Verified, trust', k)
    BY Zenon
  <2>1. k \in Fingerprint
    BY Zenon DEF Computed, TrustTypeOK
  <2>2. trust'[k] <= NewLevel(Verified, trust, k)
    <3>1. CASE k = fp
      BY <1>3, <1>11, <3>1 DEF Unknown, Marginal, Full
    <3>2. CASE k # fp
      BY <1>1, <1>10, <2>1, <3>2, Zenon DEF ComputingInv
    <3> QED BY <3>1, <3>2, Zenon
  <2>3. NewLevel(Verified, trust, k) <= NewLevel(Verified, trust', k)
    BY <1>1, <1>4, <1>6, NewLevelMonotone, Zenon
  <2>4. /\ trust'[k] \in {Unknown, Marginal, Full}
        /\ NewLevel(Verified, trust, k) \in {Unknown, Marginal, Full}
        /\ NewLevel(Verified, trust', k) \in {Unknown, Marginal, Full}
    BY <1>12, NewLevelRange, Zenon
  <2> QED BY <2>2, <2>3, <2>4 DEF Unknown, Marginal, Full
<1>14. \A t \in Assignments : Granting(t) => Below(trust', t)
  <2> SUFFICES ASSUME NEW t \in Assignments, Granting(t), NEW k \in Fingerprint
               PROVE  trust'[k] <= t[k]
    BY Zenon DEF Below
  <2>1. Below(trust, t) /\ t \in TrustMap
    BY <1>1, AssignmentType, Zenon DEF ComputingInv
  <2>2. CASE k = fp
    <3>1. L <= NewLevel(Verified, t, fp)
      BY <1>1, <2>1, NewLevelMonotone, Zenon
    <3>2. NewLevel(Verified, t, fp) <= t[fp]
      BY <1>1, Zenon DEF Granting, Computed
    <3>3. L \in Int /\ NewLevel(Verified, t, fp) \in Int /\ t[fp] \in Int
      BY <1>3, <2>1, NewLevelRange
         DEF Unknown, Marginal, Full, TrustMap, TrustLevel, Never, Ultimate
    <3>4. \A a, b, c \in Int : a <= b /\ b <= c => a <= c
      OBVIOUS
    <3>5. L <= t[fp]
      BY <3>1, <3>2, <3>3, <3>4, Zenon
    <3> QED BY <1>11, <2>2, <3>5, Zenon
  <2>3. CASE k # fp
    BY <1>10, <2>1, <2>3, Zenon DEF Below
  <2> QED BY <2>2, <2>3, Zenon
<1>15. ~changed' => \A k \in Computed \ todo' : trust'[k] = NewLevel(Verified, trust', k)
  <2> SUFFICES ASSUME ~changed', NEW k \in Computed \ todo'
               PROVE  trust'[k] = NewLevel(Verified, trust', k)
    BY Zenon
  <2>1. trust' = trust /\ ~changed
    BY <1>2, Zenon
  <2>2. CASE k = fp
    BY <1>11, <2>1, <2>2, Zenon
  <2>3. CASE k # fp
    BY <1>1, <2>1, <2>3, Zenon DEF ComputingInv
  <2> QED BY <2>2, <2>3, Zenon
<1>16. \A k \in Fingerprint \ Computed : trust'[k] = Seed[k]
  BY <1>1, <1>10, Zenon DEF ComputingInv
<1>17. ComputingInv'
  <2>1. identity' # Missing /\ ~cache_valid' /\ todo' \subseteq Computed
    BY <1>1, Zenon DEF ComputingInv, VisitKey
  <2>2. \A t : Below(trust, t)' <=> \A k \in Fingerprint : trust'[k] <= t[k]
    BY Zenon DEF Below
  <2> QED BY <1>8, <1>9, <1>12, <1>13, <1>14, <1>15, <1>16, <2>1, Zenon DEF ComputingInv,
              Below
<1>18. QED
  BY <1>1, <1>6, <1>7, <1>17, Zenon DEF VisitKey, web, files, ComputingInv, SignersKnown,
      CacheIsLeast, OwnKeyRecognised
\* What the computation is about changes only with the web.
LEMMA WebKept ==
    ASSUME UNCHANGED web
    PROVE  /\ Fixed' = Fixed /\ Computed' = Computed /\ Seed' = Seed
           /\ Verified' = Verified /\ Assignments' = Assignments
           /\ \A t : Granting(t)' = Granting(t)
<1>1. /\ keys' = keys /\ signatures' = signatures
      /\ own_fingerprints' = own_fingerprints /\ manual_overrides' = manual_overrides
  BY Zenon DEF web
<1>2. Fixed' = Fixed
  BY <1>1, Zenon DEF Fixed
<1>3. Computed' = Computed
  BY <1>1, <1>2, Zenon DEF Computed
<1>4. Seed' = Seed
  BY <1>1, Zenon DEF Seed
<1>5. Verified' = Verified
  BY <1>1, Zenon DEF Verified
<1>6. Assignments' = Assignments
  BY <1>1, <1>2, <1>4, ZenonT(40) DEF Assignments
<1>7. \A t : Granting(t)' = Granting(t)
  BY <1>1, <1>2, <1>5, Zenon DEF Granting
<1>8. QED
  BY <1>2, <1>3, <1>4, <1>5, <1>6, <1>7, Zenon

\* Another pass over the keys keeps it.
LEMMA PassAgain == TrustInv /\ NextPass => TrustInv'
<1> SUFFICES ASSUME TrustInv, NextPass PROVE TrustInv'
  BY Zenon
<1> USE DEF TrustInv
<1>1. ComputingInv
  BY Zenon DEF NextPass
<1>2. /\ Computed' = Computed /\ Seed' = Seed /\ Verified' = Verified
      /\ Assignments' = Assignments
  BY WebKept, Zenon DEF NextPass
<1>3. \A t : Granting(t)' = Granting(t)
  BY WebKept, Zenon DEF NextPass
<1>4. ComputingInv'
  BY <1>1, <1>2, <1>3, Zenon DEF ComputingInv, NextPass, Below
<1>5. TrustTypeOK'
  BY Zenon DEF TrustTypeOK, NextPass, web, files, Computed
<1>6. QED
  BY <1>1, <1>4, <1>5, Zenon DEF NextPass, web, files, ComputingInv, SignersKnown,
      CacheIsLeast, OwnKeyRecognised

\* A pass without a change ends in a balanced map, and it is the least.
LEMMA ComputationEnds == TrustInv /\ EndOfComputation => TrustInv'
<1> SUFFICES ASSUME TrustInv, EndOfComputation PROVE TrustInv'
  BY Zenon
<1> USE DEF TrustInv
<1>1. ComputingInv /\ todo = {} /\ ~changed
  BY Zenon DEF EndOfComputation
<1>2. Balanced(trust)
  BY <1>1, Zenon DEF Balanced, ComputingInv, Computed
<1>3. \A t : Granting(t)' = Granting(t)
  BY Zenon DEF EndOfComputation, web, Granting, Fixed, Verified
<1>4. Assignments' = Assignments
  BY DEF EndOfComputation, web, Fixed, Seed, Assignments
<1>5. CacheIsLeast'
  <2>1. trust_cache' = trust
    BY Zenon DEF EndOfComputation
  <2>2. Balanced(trust_cache)'
    BY <1>2, <2>1, Zenon DEF EndOfComputation, web, Balanced, Fixed, Seed, Verified
  <2>3. \A t \in Assignments : Granting(t) => \A fp \in Fingerprint : trust[fp] <= t[fp]
    BY <1>1, Zenon DEF ComputingInv, Below
  <2> QED BY <1>3, <1>4, <2>1, <2>2, <2>3, Zenon DEF CacheIsLeast
<1>6. TrustTypeOK'
  BY UnsetType, Zenon DEF TrustTypeOK, EndOfComputation, web, files
<1>7. QED
  BY <1>5, <1>6, Zenon DEF EndOfComputation, web, files, SignersKnown, OwnKeyRecognised

\* An edit drops the cache, so only the fields it writes are at stake.
LEMMA Edits ==
    ASSUME TrustInv,
           \/ \E fp \in PeerKey : add_key(fp)
           \/ \E fp \in Fingerprint, l \in ManualLevel : set_manual_trust(fp, l)
           \/ \E sig \in TrustSignature : add_signature(sig)
           \/ \E a, b \in Fingerprint : remove_signature(a, b)
    PROVE  TrustInv'
<1> USE DEF TrustInv
<1>1. ASSUME NEW fp \in PeerKey, add_key(fp) PROVE TrustInv'
  BY <1>1, UnsetType, Zenon DEF add_key, invalidate_cache, locals, files, Running,
      TrustTypeOK, Fingerprint, SignersKnown, CacheIsLeast, OwnKeyRecognised
<1>2. ASSUME NEW fp \in Fingerprint, NEW l \in ManualLevel, set_manual_trust(fp, l)
      PROVE  TrustInv'
  <2>1. manual_overrides' \in Overrides
    <3>1. PICK K \in SUBSET Fingerprint : manual_overrides \in [K -> TrustLevel]
      BY Zenon DEF TrustTypeOK, Overrides
    <3>2. manual_overrides' \in [K \cup {fp} -> TrustLevel]
      BY <1>2, <3>1, LevelAssumption, Zenon DEF set_manual_trust
    <3>3. K \cup {fp} \in SUBSET Fingerprint
      BY Zenon
    <3> QED BY <3>2, <3>3, Zenon DEF Overrides
  <2>2. edits' \in 0 .. MaxEdits
    BY <1>2, EditCounted, Zenon DEF set_manual_trust
  <2> QED
    BY <1>2, <2>1, <2>2, UnsetType, Zenon DEF set_manual_trust, Edit, invalidate_cache,
        locals, files, Running, TrustTypeOK, SignersKnown, CacheIsLeast, OwnKeyRecognised
<1>3. ASSUME NEW sig \in TrustSignature, add_signature(sig) PROVE TrustInv'
  <2>1. edits' \in 0 .. MaxEdits
    BY <1>3, EditCounted, ZenonT(40) DEF add_signature
  <2> QED
    BY <1>3, <2>1, UnsetType, ZenonT(40) DEF add_signature, Edit, invalidate_cache,
        locals, files, Running, TrustTypeOK, SignersKnown, CacheIsLeast, OwnKeyRecognised
<1>4. ASSUME NEW a \in Fingerprint, NEW b \in Fingerprint, remove_signature(a, b)
      PROVE  TrustInv'
  <2>1. edits' \in 0 .. MaxEdits
    BY <1>4, EditCounted, Zenon DEF remove_signature
  <2> QED
    BY <1>4, <2>1, UnsetType, ZenonT(40) DEF remove_signature, Edit, invalidate_cache,
        locals, files, Running, TrustTypeOK, SignersKnown, CacheIsLeast, OwnKeyRecognised
<1>5. QED
  BY <1>1, <1>2, <1>3, <1>4, Zenon
\* A new web can be saved.
LEMMA NewWebSaved == NewWeb \in Saved
<1>1. NoOverrides \in [{} -> TrustLevel]
  BY Zenon DEF NoOverrides
<1>2. NoOverrides \in Overrides
  BY <1>1, Zenon DEF Overrides
<1>3. QED
  BY <1>2, Zenon DEF NewWeb, Saved

\* Whatever was saved, the key the process starts with is among its own.
LEMMA Started == TrustInv /\ Start => TrustInv'
<1> SUFFICES ASSUME TrustInv, Start PROVE TrustInv'
  BY Zenon
<1> USE DEF TrustInv
<1> DEFINE w == IF wot_file = Missing THEN NewWeb ELSE wot_file
<1>1. /\ identity' \in OwnKey
      /\ identity_file' \in OwnKey \cup {Missing}
      /\ generated' \subseteq OwnKey
  BY Zenon DEF Start, TrustTypeOK, write_private_file
<1>2. w \in Saved /\ SignersKnown(w.keys, w.signatures) /\ w.own_fingerprints \subseteq OwnKey
  <2>1. w \in Saved
    BY NewWebSaved, Zenon DEF TrustTypeOK
  <2>2. SignersKnown(NewWeb.keys, NewWeb.signatures)
    BY Zenon DEF NewWeb, SignersKnown
  <2> QED BY <2>1, <2>2, Zenon DEF Saved
<1>3. /\ keys' = w.keys \cup {identity'}
      /\ own_fingerprints' = w.own_fingerprints \cup {identity'}
      /\ signatures' = w.signatures
      /\ manual_overrides' = w.manual_overrides
      /\ trust_cache' = Unset /\ cache_valid' = FALSE
  <2> HIDE DEF w
  <2>1. WithOwnKey(w, identity') = [w EXCEPT !.own_fingerprints = @ \cup {identity'},
                                            !.keys = @ \cup {identity'}]
    BY Zenon DEF WithOwnKey
  <2>2. Loaded(WithOwnKey(w, identity'))
    BY Zenon DEF Start, w
  <2> QED BY <1>2, <2>1, <2>2, Zenon DEF Loaded, invalidate_cache, Saved
<1>4. ~computing
  BY Zenon DEF Start, ComputingInv
<1>5. TrustTypeOK'
  <2>1. keys' \subseteq Fingerprint /\ own_fingerprints' \subseteq OwnKey
        /\ signatures' \subseteq TrustSignature /\ manual_overrides' \in Overrides
    BY <1>1, <1>2, <1>3, Zenon DEF Saved, Fingerprint
  <2> QED BY <1>1, <1>3, <2>1, UnsetType, Zenon DEF Start, TrustTypeOK, locals
<1>6. SignersKnown(keys, signatures)'
  BY <1>2, <1>3, Zenon DEF SignersKnown
<1>7. QED
  BY <1>3, <1>4, <1>5, <1>6, Zenon DEF Start, SignersKnown, CacheIsLeast, OwnKeyRecognised

\* A process that ends leaves in the file what it knew, what was there, or
\* nothing that can be read.
LEMMA Stopped == TrustInv /\ Stop => TrustInv'
<1> SUFFICES ASSUME TrustInv, Stop PROVE TrustInv'
  BY Zenon
<1> USE DEF TrustInv
<1> DEFINE w == [keys |-> keys, signatures |-> signatures,
                 own_fingerprints |-> own_fingerprints,
                 manual_overrides |-> manual_overrides]
<1>1. w \in Saved /\ SignersKnown(w.keys, w.signatures)
  BY Zenon DEF TrustTypeOK, Saved
<1>2. wot_file' \in {wot_file, Missing, w} /\ identity_file' \in {identity_file, Missing, identity}
  BY Zenon DEF Stop, write_private_file
<1>3. wot_file' \in Saved \cup {Missing}
  BY <1>1, <1>2, Zenon DEF TrustTypeOK
<1>4. wot_file' # Missing => SignersKnown(wot_file'.keys, wot_file'.signatures)
  <2> HIDE DEF w
  <2> QED BY <1>1, <1>2, Zenon
<1>5. stops' \in 0 .. MaxStops
  <2>1. stops \in Nat /\ MaxStops \in Nat /\ stops < MaxStops /\ stops' = stops + 1
    BY WebBoundAssumption DEF TrustTypeOK, Stop
  <2> QED BY <2>1
<1>6. /\ keys' = {} /\ signatures' = {} /\ own_fingerprints' = {}
      /\ manual_overrides' = NoOverrides /\ NoOverrides \in Overrides
      /\ trust_cache' = Unset /\ cache_valid' = FALSE
  BY NewWebSaved, Zenon DEF Stop, Loaded, NewWeb, invalidate_cache, Saved
<1>7. TrustTypeOK'
  BY <1>2, <1>3, <1>5, <1>6, UnsetType, Zenon DEF Stop, TrustTypeOK
<1>8. QED
  BY <1>4, <1>6, <1>7, Zenon DEF Stop, SignersKnown, CacheIsLeast, OwnKeyRecognised

\* Altering a saved signature keeps it: the signature no longer verifies.
LEMMA Altered ==
    ASSUME TrustInv, NEW s \in TrustSignature, NEW l \in SigLevel, AlterFile(s, l)
    PROVE  TrustInv'
<1> USE DEF TrustInv
<1> DEFINE r == [s EXCEPT !.trust_level = l, !.good = FALSE]
<1>1. r \in TrustSignature /\ r.signer = s.signer
  BY Zenon DEF TrustSignature
<1>2. /\ wot_file \in Saved /\ s \in wot_file.signatures
      /\ wot_file' = [wot_file EXCEPT !.signatures = (@ \ {s}) \cup {r}]
  BY Zenon DEF AlterFile, TrustTypeOK
<1> HIDE DEF r
<1>3. /\ wot_file' \in Saved
      /\ wot_file'.keys = wot_file.keys
      /\ wot_file'.signatures = (wot_file.signatures \ {s}) \cup {r}
  BY <1>1, <1>2, Zenon DEF Saved
<1>4. SignersKnown(wot_file'.keys, wot_file'.signatures)
  BY <1>1, <1>2, <1>3, Zenon DEF AlterFile, SignersKnown
<1>5. edits' \in 0 .. MaxEdits
  <2>1. edits \in Nat /\ MaxEdits \in Nat /\ edits < MaxEdits /\ edits' = edits + 1
    BY WebBoundAssumption DEF TrustTypeOK, AlterFile
  <2> QED BY <2>1
<1>6. TrustTypeOK'
  BY <1>3, <1>5, Zenon DEF AlterFile, TrustTypeOK, web, locals
<1>7. ~computing
  BY Zenon DEF AlterFile, ComputingInv
<1>8. CacheIsLeast'
  BY DEF AlterFile, web, CacheIsLeast, Balanced, Granting, Assignments, Fixed, Seed, Verified
<1>9. QED
  BY <1>4, <1>6, <1>7, <1>8, Zenon DEF AlterFile, web, SignersKnown, OwnKeyRecognised
\* Every call, every step of the computation and every restart preserves the
\* invariant.
LEMMA TrustInvStep == TrustInv /\ [TrustNext]_trustVars => TrustInv'
<1> SUFFICES ASSUME TrustInv, [TrustNext]_trustVars PROVE TrustInv'
  BY Zenon
<1>1. CASE UNCHANGED trustVars
  <2>1. TrustTypeOK'
    BY <1>1, Zenon DEF trustVars, TrustInv, TrustTypeOK
  <2>2. /\ SignersKnown(keys', signatures')
        /\ wot_file' # Missing => SignersKnown(wot_file'.keys, wot_file'.signatures)
        /\ OwnKeyRecognised'
    BY <1>1, Zenon DEF trustVars, TrustInv, SignersKnown, OwnKeyRecognised
  <2>3. UNCHANGED web
    BY <1>1, Zenon DEF trustVars, web
  <2>4. computing' => ComputingInv'
    BY <1>1, <2>3, WebKept, Zenon DEF trustVars, TrustInv, ComputingInv, Below
  <2>5. CacheIsLeast'
    BY <1>1, <2>3, WebKept, Zenon DEF trustVars, TrustInv, CacheIsLeast, Balanced
  <2> QED BY <2>1, <2>2, <2>4, <2>5, Zenon DEF TrustInv, SignersKnown
<1>2. CASE TrustNext
  BY <1>2, Started, Stopped, PassAgain, ComputationEnds, StartOfComputation, Visit, Edits,
      Altered, Zenon DEF TrustNext
<1>3. QED
  BY <1>1, <1>2, Zenon

\* While compute_trust_levels runs, its map stays below every map that grants what the
\* signatures do, through edits, stops and starts.
THEOREM TrustInvariant == TrustSpec => []TrustInv
  BY TrustInvInit, TrustInvStep, PTL DEF TrustSpec

\* compute_trust_map yields the least map that agrees with the signatures that
\* verify, whatever order the HashMap is walked in, and a valid cache is that
\* map however the web was edited, saved, altered and loaded before
\* (web_of_trust.rs:209-299).
THEOREM CacheLeast == TrustSpec => []CacheIsLeast
<1>1. TrustInv => CacheIsLeast
  BY Zenon DEF TrustInv
<1>2. QED
  BY <1>1, TrustInvariant, PTL

\* "Levels only grow" (web_of_trust.rs:254-256): no visit lowers a level.
THEOREM LevelsGrow == TrustSpec => LevelsOnlyGrow
<1>1. TrustInv /\ [TrustNext]_trustVars =>
          [computing /\ computing' => \A fp \in Fingerprint : trust[fp] <= trust'[fp]]_trustVars
  <2> SUFFICES ASSUME TrustInv, TrustNext, computing, computing', NEW fp \in Fingerprint
               PROVE  trust[fp] <= trust'[fp]
    BY Zenon
  <2>1. trust[fp] \in Int
    BY DEF TrustInv, TrustTypeOK, TrustMap, TrustLevel, Never, Ultimate
  <2>2. CASE \E k \in Fingerprint : VisitKey(k)
    BY <2>2, Visit, Zenon DEF Below
  <2>3. CASE ~\E k \in Fingerprint : VisitKey(k)
    <3>1. trust' = trust
      BY <2>3, Zenon DEF TrustNext, Start, Stop, NextPass, EndOfComputation,
          calculate_trust, Running, add_key, set_manual_trust, add_signature,
          remove_signature, Edit, AlterFile, locals
    <3> QED BY <2>1, <3>1
  <2> QED BY <2>2, <2>3, Zenon
<1>2. QED
  BY <1>1, TrustInvariant, PTL DEF TrustSpec, LevelsOnlyGrow

\* The key the process runs with is always one of its own, also when the
\* identity was lost and generated anew beside a saved web (app.rs:99-109).
THEOREM OwnKeyKnown == TrustSpec => []OwnKeyRecognised
<1>1. TrustInv => OwnKeyRecognised
  BY Zenon DEF TrustInv
<1>2. QED
  BY <1>1, TrustInvariant, PTL

\* Trust that the user did not set by hand rests on a path of signatures from
\* our own keys: the levels outside a set that is closed under signing could
\* all be Unknown, and the cache is the least map (web_of_trust.rs:302-336).
THEOREM TrustedHasPath == TrustSpec => []TrustHasPath
<1>1. TrustInv => TrustHasPath
  <2> SUFFICES ASSUME TrustInv, cache_valid, DOMAIN manual_overrides = {},
                      NEW fp \in Fingerprint, trust_cache[fp] >= Marginal,
                      NEW R \in SUBSET Fingerprint, own_fingerprints \subseteq R,
                      \A s \in signatures : signature_is_valid(s) /\ s.signer \in R
                                                => s.subject \in R,
                      fp \notin R
               PROVE  FALSE
    BY Zenon DEF TrustHasPath, has_trust_path
  <2> DEFINE u == [k \in Fingerprint |-> IF k \in R THEN trust_cache[k] ELSE Unknown]
  <2>1. trust_cache \in TrustMap /\ Verified \subseteq TrustSignature
        /\ Balanced(trust_cache) /\ Fixed = own_fingerprints
    BY Zenon DEF TrustInv, TrustTypeOK, Verified, CacheIsLeast, Fixed
  <2>2. \A k \in Fingerprint : trust_cache[k] \in Unknown .. Ultimate
    <3> SUFFICES ASSUME NEW k \in Fingerprint PROVE trust_cache[k] \in Unknown .. Ultimate
      BY Zenon
    <3>1. CASE k \in keys \ Fixed
      BY <2>1, <3>1, NewLevelRange DEF Balanced, Unknown, Marginal, Full, Ultimate
    <3>2. CASE k \notin keys \ Fixed
      BY <2>1, <3>2 DEF Balanced, Seed, Unknown, Ultimate
    <3> QED BY <3>1, <3>2, Zenon
  <2>3. u \in TrustMap /\ Below(u, trust_cache)
    BY <2>2 DEF TrustMap, TrustLevel, Never, Unknown, Ultimate, Below
  <2>4. u \in Assignments
    <3> DEFINE v == [k \in Fingerprint |-> IF k \in keys \ Fixed THEN u[k] ELSE Unknown]
    <3>1. \A k \in Fingerprint : k \notin keys \ Fixed => u[k] = Seed[k]
      BY <2>1, Zenon DEF Balanced, Seed
    <3>2. v \in [Fingerprint -> Unknown .. Full]
      BY <2>1, NewLevelRange DEF Balanced, Unknown, Marginal, Full
    <3>3. u = [k \in Fingerprint |-> IF k \in keys \ Fixed THEN v[k] ELSE Seed[k]]
      BY <3>1, Zenon
    <3> HIDE DEF u, v
    <3> QED BY <3>2, <3>3, Zenon DEF Assignments
  <2>5. Granting(u)
    <3> SUFFICES ASSUME NEW k \in Fingerprint, k \in keys \ Fixed
                 PROVE  NewLevel(Verified, u, k) <= u[k]
      BY Zenon DEF Granting
    <3>1. CASE k \in R
      <4>1. NewLevel(Verified, u, k) <= NewLevel(Verified, trust_cache, k)
        BY <2>1, <2>3, NewLevelMonotone, Zenon
      <4> QED BY <2>1, <3>1, <4>1, Zenon DEF Balanced
    <3>2. CASE k \notin R
      <4>1. \A s \in Verified : s.subject = k => ~Gives(u, s, Marginal)
        <5> SUFFICES ASSUME NEW s \in Verified, s.subject = k PROVE ~Gives(u, s, Marginal)
          BY Zenon
        <5>1. s.signer \notin R
          BY <3>2, Zenon DEF Verified, TrustInv, SignersKnown, signature_is_valid
        <5>2. u[s.signer] = Unknown
          BY <2>1, <5>1, Zenon DEF TrustSignature
        <5> QED BY <5>2 DEF Gives, Unknown, Marginal
      <4>2. NewLevel(Verified, u, k) = Unknown
        <5> HIDE DEF u
        <5> QED BY <4>1, Zenon DEF NewLevel
      <4>3. u[k] = Unknown
        BY <3>2, Zenon
      <4> HIDE DEF u
      <4> QED BY <4>2, <4>3 DEF Unknown
    <3> QED BY <3>1, <3>2, Zenon
  <2>6. trust_cache[fp] <= u[fp]
    <3> HIDE DEF u
    <3> QED BY <2>4, <2>5, Zenon DEF TrustInv, CacheIsLeast
  <2> QED BY <2>2, <2>6 DEF Unknown, Marginal, Ultimate
<1>2. QED
  BY <1>1, TrustInvariant, PTL
===========================================================================
