------------------------- MODULE TcpTransfer_proofs --------------------------
(***************************************************************************)
(* Theorems about TcpTransfer, for all values of its constants.            *)
(***************************************************************************)
EXTENDS TcpTransfer, SequenceTheorems, TLAPS

-----------------------------------------------------------------------------
(* Sequences of blocks.                                                    *)

\* A piece of a sequence: its type, its length, its elements.
LEMMA Piece ==
  ASSUME NEW S, NEW s \in Seq(S), NEW a \in Nat \ {0}, NEW b \in Nat,
         b <= Len(s), a <= b + 1
  PROVE  /\ SubSeq(s, a, b) \in Seq(S)
         /\ Len(SubSeq(s, a, b)) = b - a + 1
         /\ \A i \in 1 .. b - a + 1 : SubSeq(s, a, b)[i] = s[a + i - 1]
<1>1. \A i \in a .. b : s[i] \in S
  BY ElementOfSeq
<1>2. QED
  BY <1>1, SubSeqProperties

\* Appending a piece of one sequence to another one.
LEMMA AppendPiece ==
  ASSUME NEW S, NEW s \in Seq(S), NEW t \in Seq(S),
         NEW a \in Nat \ {0}, NEW b \in Nat, b <= Len(t), a <= b + 1
  PROVE  LET u == s \o SubSeq(t, a, b)
         IN  /\ u \in Seq(S)
             /\ Len(u) = Len(s) + (b - a + 1)
             /\ \A i \in 1 .. Len(s) : u[i] = s[i]
             /\ \A i \in Len(s) + 1 .. Len(u) : u[i] = t[a + (i - Len(s)) - 1]
<1> DEFINE p == SubSeq(t, a, b)
<1>1. /\ p \in Seq(S)
      /\ Len(p) = b - a + 1
      /\ \A i \in 1 .. b - a + 1 : p[i] = t[a + i - 1]
  BY Piece
<1>2. /\ s \o p \in Seq(S)
      /\ Len(s \o p) = Len(s) + Len(p)
      /\ \A i \in 1 .. Len(s) + Len(p) :
           (s \o p)[i] = IF i <= Len(s) THEN s[i] ELSE p[i - Len(s)]
  BY <1>1, ConcatProperties
<1>3. Len(s) \in Nat /\ Len(p) \in Nat
  BY <1>1
<1> HIDE DEF p
<1>4. \A i \in 1 .. Len(s) : (s \o p)[i] = s[i]
  BY <1>2, <1>3
<1>5. ASSUME NEW i \in Len(s) + 1 .. Len(s \o p)
      PROVE  (s \o p)[i] = t[a + (i - Len(s)) - 1]
  <2>1. i - Len(s) \in 1 .. b - a + 1
    BY <1>1, <1>2, <1>3
  <2>2. (s \o p)[i] = p[i - Len(s)]
    BY <1>2, <1>3
  <2>3. QED
    BY <1>1, <2>1, <2>2
<1>6. QED
  BY <1>1, <1>2, <1>4, <1>5 DEF p

\* Prefix is transitive.
LEMMA PrefixTransitive ==
  ASSUME NEW r \in Seq(Block), NEW s \in Seq(Block), NEW t \in Seq(Block),
         Prefix(r, s), Prefix(s, t)
  PROVE  Prefix(r, t)
BY DEF Prefix

\* Of two prefixes of one sequence the shorter is a prefix of the longer.
LEMMA PrefixShorter ==
  ASSUME NEW r \in Seq(Block), NEW s \in Seq(Block), NEW t \in Seq(Block),
         Prefix(r, t), Prefix(s, t), Len(r) <= Len(s)
  PROVE  Prefix(r, s)
BY DEF Prefix

\* A prefix of full length is the sequence.
LEMMA PrefixFull ==
  ASSUME NEW s \in Seq(Block), NEW t \in Seq(Block),
         Prefix(s, t), Len(s) = Len(t)
  PROVE  s = t
BY SeqEqual DEF Prefix

-----------------------------------------------------------------------------
(* Type correctness.                                                       *)

USE DEF NoMsg, BadMagic

\* The types alone are not inductive: fwrite appends to a file, so the path that
\* was opened must still hold one.
FileOpen == rPc = "recv" => disk[final] # NoFile

TInv == TypeOK /\ FileOpen

\* The types hold, and no file is open, before the first session.
LEMMA InitTInv == Init => TInv
BY ContentAssumption, LimitAssumption DEF Init, TInv, TypeOK, FileOpen, Paths, Root

\* Each step keeps the types.
LEMMA StepTInv == TInv /\ [Next]_vars => TInv'
<1> SUFFICES ASSUME TInv, [Next]_vars
             PROVE  TInv'
  OBVIOUS
<1> USE ContentAssumption, LimitAssumption
<1>a. CASE UNCHANGED vars
  BY <1>a DEF TInv, FileOpen, TypeOK, vars, senderVars, receiverVars, netVars, fsVars
<1> USE DEF TInv, FileOpen, TypeOK, senderVars, receiverVars, netVars, fsVars
<1>1. CASE SendMeta
  BY <1>1 DEF SendMeta
<1>2. CASE SendMetaFails
  BY <1>2 DEF SendMetaFails, SenderReturns
<1>3. CASE GetResponse
  BY <1>3 DEF GetResponse, SenderReturns
<1>4. CASE NoResponse
  BY <1>4 DEF NoResponse, SenderReturns, Fault
<1>5. CASE SendData
  <2> PICK n \in 1 .. BufferSize :
        /\ sent + n <= Len(src)
        /\ sent' = sent + n
        /\ stream' = IF link = "lost" THEN stream
                     ELSE stream \o SubSeq(src, sent + 1, sent + n)
    BY <1>5 DEF SendData
  <2>1. src \in Seq(Block) /\ sent + 1 \in Nat \ {0} /\ sent + n \in Nat
    OBVIOUS
  <2>2. stream \o SubSeq(src, sent + 1, sent + n) \in Seq(Block)
    BY <2>1, AppendPiece
  <2>3. stream' \in Seq(Block) /\ sent' \in Nat
    BY <2>2
  <2>4. QED
    BY <1>5, <2>3 DEF SendData
<1>6. CASE SendFails
  BY <1>6 DEF SendFails, SenderReturns
<1>7. CASE SendDone
  BY <1>7 DEF SendDone, SenderReturns
<1>8. CASE Accept
  BY <1>8 DEF Accept
<1>9. CASE RecvMeta
  <2>1. ResumeOffset(meta) \in Nat
    BY DEF ResumeOffset, FileSize, Root, Paths
  <2>2. meta \in Nat
    BY <1>9 DEF RecvMeta
  <2>3. QED
    BY <1>9, <2>1, <2>2 DEF RecvMeta
<1>10. CASE NoMeta
  BY <1>10 DEF NoMeta, ReceiverReturns
<1>11. CASE ProtocolMismatch
  BY <1>11 DEF ProtocolMismatch, ReceiverReturns
<1>12. CASE Respond
  BY <1>12 DEF Respond
<1>13. CASE RespondFails
  BY <1>13 DEF RespondFails, ReceiverReturns
<1>14. CASE SkipExisting
  BY <1>14 DEF SkipExisting, ReceiverReturns
<1>15. CASE OpenFile
  <2> PICK p \in OpenTargets :
        final' = p /\ disk' = [disk EXCEPT ![p] = OpenedContent(p)]
    BY <1>15 DEF OpenFile
  <2>1. p \in Paths
    BY DEF OpenTargets, Copies, Paths, Root
  <2>2. OpenedContent(p) \in Seq(Block)
    BY <2>1 DEF OpenedContent
  <2>3. disk' \in [Paths -> Seq(Block) \union {NoFile}] /\ disk'[final'] # NoFile
    BY <2>1, <2>2
  <2>4. /\ rPc' = "recv" /\ final' \in Paths
        /\ UNCHANGED <<conf, sPc, src, sent, sEv, rTotal, resume, received, rEv,
                       link, meta, resp, stream, unpacked, faults>>
    BY <1>15, <2>1 DEF OpenFile
  <2>5. QED
    BY <2>3, <2>4
<1>16. CASE RecvData
  <2> PICK n \in 1 .. BufferSize : \E k \in Stored(n) :
        /\ n <= Len(stream)
        /\ received' = received + n
        /\ disk' = [disk EXCEPT ![final] = @ \o SubSeq(stream, 1, k)]
        /\ stream' = SubSeq(stream, n + 1, Len(stream))
    BY <1>16 DEF RecvData
  <2> PICK k \in Stored(n) :
        /\ n <= Len(stream)
        /\ received' = received + n
        /\ disk' = [disk EXCEPT ![final] = @ \o SubSeq(stream, 1, k)]
        /\ stream' = SubSeq(stream, n + 1, Len(stream))
    OBVIOUS
  <2>1. k \in Nat /\ k <= n /\ Len(stream) \in Nat
    BY DEF Stored
  <2>2. stream' \in Seq(Block)
    BY <2>1, Piece
  <2>3. disk[final] \in Seq(Block)
    BY <1>16 DEF RecvData
  <2>4. disk[final] \o SubSeq(stream, 1, k) \in Seq(Block)
    BY <2>1, <2>3, AppendPiece
  <2>5. /\ disk' \in [Paths -> Seq(Block) \union {NoFile}]
        /\ disk'[final] # NoFile
    BY <2>4
  <2>6. UNCHANGED <<conf, sPc, src, sent, sEv, rPc, rTotal, resume, final, rEv,
                    link, meta, resp, unpacked, faults>>
    BY <1>16 DEF RecvData
  <2>7. received' \in Nat
    OBVIOUS
  <2>8. TypeOK'
    <3>1. TypeOK
      OBVIOUS
    <3>2. QED
      BY ONLY <3>1, <2>2, <2>5, <2>6, <2>7 DEF TypeOK
  <2>9. FileOpen'
    BY <2>5, <2>6
  <2>10. QED
    BY <2>8, <2>9
<1>17. CASE RecvFails
  BY <1>17 DEF RecvFails, ReceiverReturns
<1>18. CASE RecvDone
  BY <1>18 DEF RecvDone, ReceiverReturns
<1>19. CASE Extract
  BY <1>19 DEF Extract, ReceiverReturns
<1>20. CASE StartSession
  BY <1>20 DEF StartSession
<1>21. CASE OtherClient
  BY <1>21 DEF OtherClient, Fault
<1>22. CASE UserDelete
  BY <1>22 DEF UserDelete
<1>23. CASE UserAccepts
  BY <1>23 DEF UserAccepts
<1>24. CASE UserRejects
  BY <1>24 DEF UserRejects, ReceiverReturns, Fault
<1>25. CASE Break
  BY <1>25 DEF Break, Fault
<1>26. CASE CannotOpenSource
  BY <1>26 DEF CannotOpenSource, SenderReturns, Fault
<1>27. CASE SourceEndsEarly
  BY <1>27 DEF SourceEndsEarly, SenderReturns, Fault
<1>28. CASE CannotCreate
  BY <1>28 DEF CannotCreate, ReceiverReturns, Fault
<1>29. CASE ExtractFails
  BY <1>29 DEF ExtractFails, ReceiverReturns, Fault
<1> HIDE DEF TInv
<1> QED
  BY <1>a, <1>1, <1>2, <1>3, <1>4, <1>5, <1>6, <1>7, <1>8, <1>9, <1>10, <1>11,
     <1>12, <1>13, <1>14, <1>15, <1>16, <1>17, <1>18, <1>19, <1>20, <1>21, <1>22,
     <1>23, <1>24, <1>25, <1>26, <1>27, <1>28, <1>29
     DEF Next, SenderStep, ReceiverStep, UserStep, FaultStep

\* The variables of TcpTransfer keep their types, whatever the constants are.
THEOREM TypeCorrect == Spec => []TypeOK
<1>1. TInv => TypeOK
  BY DEF TInv
<1>2. QED
  BY InitTInv, StepTInv, <1>1, PTL DEF Spec

-----------------------------------------------------------------------------
(* The two ends agree.                                                     *)

\* What the handshake establishes: who may still be connected, which records
\* have gone out, and that the receiver works with this sender's size.
HandshakeInv ==
  /\ link = "none" => sPc = "idle" /\ rPc = "idle"
  /\ link = "queued" => rPc = "idle" /\ resp = NoMsg /\ stream = <<>> /\ rEv = "none"
  /\ link = "open" => rPc # "idle"
  /\ rPc # "idle" => rEv = "none"
  /\ sPc # "idle" => sEv = "none"
  /\ sPc = "send" \/ sEv = "done" => resp # NoMsg
  /\ meta \in {NoMsg, BadMagic, Len(src)}
  /\ rPc \in {"meta", "prompt", "respond"} => resp = NoMsg /\ stream = <<>>
  /\ rPc \in {"prompt", "respond", "open", "recv"} =>
       rTotal = Len(src) /\ (resume = 0 \/ resume < rTotal)
  /\ rPc \in {"open", "recv"} => resp \in {NoMsg, resume}

\* Each step keeps what the handshake has established.
LEMMA HandshakeStep ==
  ASSUME TInv, HandshakeInv, [Next]_vars
  PROVE  HandshakeInv'
<1>a. CASE UNCHANGED vars
  BY <1>a DEF HandshakeInv, vars, senderVars, receiverVars, netVars
<1>b. TypeOK
  BY DEF TInv
<1> USE ContentAssumption DEF HandshakeInv, senderVars, receiverVars, netVars
<1>1. CASE SendMeta
  BY <1>1, <1>b DEF SendMeta, TypeOK
<1>2. CASE SendMetaFails
  BY <1>2 DEF SendMetaFails, SenderReturns
<1>3. CASE GetResponse
  BY <1>3 DEF GetResponse, SenderReturns
<1>4. CASE NoResponse
  BY <1>4 DEF NoResponse, SenderReturns
<1>5. CASE SendData
  BY <1>5 DEF SendData
<1>6. CASE SendFails
  BY <1>6 DEF SendFails, SenderReturns
<1>7. CASE SendDone
  BY <1>7 DEF SendDone, SenderReturns
<1>8. CASE Accept
  BY <1>8 DEF Accept
<1>9. CASE RecvMeta
  <2>1. ResumeOffset(meta) = 0 \/ ResumeOffset(meta) < meta
    BY DEF ResumeOffset
  <2>2. QED
    BY <1>9, <2>1 DEF RecvMeta
<1>10. CASE NoMeta
  BY <1>10 DEF NoMeta, ReceiverReturns
<1>11. CASE ProtocolMismatch
  BY <1>11 DEF ProtocolMismatch, ReceiverReturns
<1>12. CASE Respond
  BY <1>12 DEF Respond
<1>13. CASE RespondFails
  BY <1>13 DEF RespondFails, ReceiverReturns
<1>14. CASE SkipExisting
  BY <1>14 DEF SkipExisting, ReceiverReturns
<1>15. CASE OpenFile
  BY <1>15 DEF OpenFile
<1>16. CASE RecvData
  BY <1>16 DEF RecvData
<1>17. CASE RecvFails
  BY <1>17 DEF RecvFails, ReceiverReturns
<1>18. CASE RecvDone
  BY <1>18 DEF RecvDone, ReceiverReturns
<1>19. CASE Extract
  BY <1>19 DEF Extract, ReceiverReturns
<1>20. CASE StartSession
  BY <1>20 DEF StartSession
<1>21. CASE OtherClient
  BY <1>21 DEF OtherClient
<1>22. CASE UserDelete
  BY <1>22 DEF UserDelete
<1>23. CASE UserAccepts
  BY <1>23 DEF UserAccepts
<1>24. CASE UserRejects
  BY <1>24 DEF UserRejects, ReceiverReturns
<1>25. CASE Break
  BY <1>25 DEF Break
<1>26. CASE CannotOpenSource
  BY <1>26 DEF CannotOpenSource, SenderReturns
<1>27. CASE SourceEndsEarly
  BY <1>27 DEF SourceEndsEarly, SenderReturns
<1>28. CASE CannotCreate
  BY <1>28 DEF CannotCreate, ReceiverReturns
<1>29. CASE ExtractFails
  BY <1>29 DEF ExtractFails, ReceiverReturns
<1> HIDE DEF HandshakeInv
<1> QED
  BY <1>a, <1>1, <1>2, <1>3, <1>4, <1>5, <1>6, <1>7, <1>8, <1>9, <1>10, <1>11,
     <1>12, <1>13, <1>14, <1>15, <1>16, <1>17, <1>18, <1>19, <1>20, <1>21, <1>22,
     <1>23, <1>24, <1>25, <1>26, <1>27, <1>28, <1>29
     DEF Next, SenderStep, ReceiverStep, UserStep, FaultStep

\* Where the two ends stand in the file, and that what lies between them are
\* just the blocks between the two positions.
StreamInv ==
  /\ sPc \in {"meta", "wait"} => stream = <<>>
  /\ sPc \in {"meta", "wait"} /\ rPc = "recv" => received = resume
  /\ rPc = "open" => received = resume
  /\ sPc = "send" /\ link = "open" => sent = received + Len(stream)
  /\ sEv = "done" /\ link = "open" => received + Len(stream) = rTotal
  /\ rPc \in {"open", "recv"} =>
       /\ received + Len(stream) <= Len(src)
       /\ \A i \in 1 .. Len(stream) : stream[i] = src[received + i]

\* Each step keeps the two positions and the bytes between them in line.
LEMMA StreamStep ==
  ASSUME TInv, HandshakeInv, StreamInv, [Next]_vars
  PROVE  StreamInv'
<1>a. CASE UNCHANGED vars
  BY <1>a DEF StreamInv, vars, senderVars, receiverVars, netVars
<1>b. TypeOK
  BY DEF TInv
<1> USE <1>b, ContentAssumption, LimitAssumption
    DEF StreamInv, TypeOK, senderVars, receiverVars, netVars
<1>1. CASE SendMeta
  BY <1>1 DEF SendMeta, HandshakeInv
<1>2. CASE SendMetaFails
  BY <1>2 DEF SendMetaFails, SenderReturns, HandshakeInv
<1>3. CASE GetResponse
  BY <1>3 DEF GetResponse, SenderReturns, HandshakeInv
<1>4. CASE NoResponse
  BY <1>4 DEF NoResponse, SenderReturns, HandshakeInv
<1>5. CASE SendData
  <2> PICK n \in 1 .. BufferSize :
        /\ sent + n <= Len(src)
        /\ sent' = sent + n
        /\ stream' = IF link = "lost" THEN stream
                     ELSE stream \o SubSeq(src, sent + 1, sent + n)
    BY <1>5 DEF SendData
  <2>1. UNCHANGED <<sPc, src, sEv, rPc, rTotal, resume, received, link>> /\ sPc = "send"
    BY <1>5 DEF SendData
  <2>2. CASE link = "lost"
    BY <2>1, <2>2
  <2>3. CASE link # "lost"
    <3>1. link = "open" /\ sent = received + Len(stream) /\ rPc \in {"open", "recv"}
      BY <2>1, <2>3 DEF HandshakeInv
    <3>2. stream' = stream \o SubSeq(src, sent + 1, sent + n)
      BY <2>3
    <3>3. /\ Len(stream') = Len(stream) + n
          /\ \A j \in 1 .. Len(stream) : stream'[j] = stream[j]
          /\ \A j \in Len(stream) + 1 .. Len(stream') :
               stream'[j] = src[sent + (j - Len(stream))]
      <4>1. sent + 1 \in Nat \ {0} /\ sent + n \in Nat /\ sent + 1 <= sent + n + 1
        OBVIOUS
      <4>2. src \in Seq(Block)
        OBVIOUS
      <4>3. /\ Len(stream') = Len(stream) + ((sent + n) - (sent + 1) + 1)
            /\ \A j \in 1 .. Len(stream) : stream'[j] = stream[j]
            /\ \A j \in Len(stream) + 1 .. Len(stream') :
                 stream'[j] = src[(sent + 1) + (j - Len(stream)) - 1]
        BY <3>2, <4>1, <4>2, AppendPiece
      <4>4. (sent + n) - (sent + 1) + 1 = n
        OBVIOUS
      <4>5. ASSUME NEW j \in Len(stream) + 1 .. Len(stream')
            PROVE  (sent + 1) + (j - Len(stream)) - 1 = sent + (j - Len(stream))
        BY <4>3, <4>4
      <4>6. QED
        BY <4>3, <4>4, <4>5
    <3>4. \A j \in 1 .. Len(stream') : stream'[j] = src[received + j]
      <4> TAKE j \in 1 .. Len(stream')
      <4>1. CASE j <= Len(stream)
        BY <3>1, <3>3, <4>1
      <4>2. CASE j > Len(stream)
        <5>1. stream'[j] = src[sent + (j - Len(stream))]
          BY <3>3, <4>2
        <5>2. sent + (j - Len(stream)) = received + j
          BY <3>1, <3>3
        <5>3. QED
          BY <5>1, <5>2
      <4>3. QED
        BY <3>3, <4>1, <4>2
    <3>5. sent' = received + Len(stream') /\ received + Len(stream') <= Len(src)
      BY <3>1, <3>3
    <3>6. QED
      BY <2>1, <3>1, <3>4, <3>5 DEF HandshakeInv
  <2>4. QED
    BY <2>2, <2>3
<1>6. CASE SendFails
  BY <1>6 DEF SendFails, SenderReturns, HandshakeInv
<1>7. CASE SendDone
  BY <1>7 DEF SendDone, SenderReturns, HandshakeInv
<1>8. CASE Accept
  BY <1>8 DEF Accept, HandshakeInv
<1>9. CASE RecvMeta
  BY <1>9 DEF RecvMeta, HandshakeInv
<1>10. CASE NoMeta
  BY <1>10 DEF NoMeta, ReceiverReturns, HandshakeInv
<1>11. CASE ProtocolMismatch
  BY <1>11 DEF ProtocolMismatch, ReceiverReturns, HandshakeInv
<1>12. CASE Respond
  <2>1. stream = <<>> /\ stream' = stream /\ resp = NoMsg /\ rTotal = Len(src)
    BY <1>12 DEF Respond, HandshakeInv
  <2>2. sPc # "send" /\ sEv # "done" /\ (resume = 0 \/ resume < Len(src))
    BY <1>12, <2>1 DEF Respond, HandshakeInv
  <2>3. /\ received' = resume /\ rPc' = "open"
        /\ UNCHANGED <<sPc, src, sent, sEv, resume, rTotal, link>>
    BY <1>12 DEF Respond
  <2>4. Len(stream') = 0 /\ resume <= Len(src)
    BY <2>1, <2>2
  <2>5. QED
    BY <2>1, <2>2, <2>3, <2>4
<1>13. CASE RespondFails
  BY <1>13 DEF RespondFails, ReceiverReturns, HandshakeInv
<1>14. CASE SkipExisting
  BY <1>14 DEF SkipExisting, ReceiverReturns, HandshakeInv
<1>15. CASE OpenFile
  BY <1>15 DEF OpenFile, HandshakeInv
<1>16. CASE RecvData
  <2> PICK n \in 1 .. BufferSize :
        /\ n <= Len(stream) /\ received' = received + n
        /\ stream' = SubSeq(stream, n + 1, Len(stream))
    BY <1>16 DEF RecvData
  <2>1. /\ UNCHANGED <<sPc, src, sent, sEv, rPc, rTotal, resume, link>>
        /\ rPc = "recv"
    BY <1>16 DEF RecvData
  <2>2. /\ Len(stream') = Len(stream) - n
        /\ \A j \in 1 .. Len(stream') : stream'[j] = stream[n + j]
    <3>1. Len(stream) \in Nat /\ n + 1 \in Nat \ {0} /\ n + 1 <= Len(stream) + 1
      OBVIOUS
    <3>2. /\ Len(stream') = Len(stream) - (n + 1) + 1
          /\ \A j \in 1 .. Len(stream) - (n + 1) + 1 : stream'[j] = stream[(n + 1) + j - 1]
      BY <3>1, Piece
    <3>3. \A j \in 1 .. Len(stream') : (n + 1) + j - 1 = n + j
      OBVIOUS
    <3>4. QED
      BY <3>1, <3>2, <3>3
  <2>3. received' + Len(stream') = received + Len(stream)
    <3>1. Len(stream) \in Int /\ received \in Int /\ n \in Int
      OBVIOUS
    <3>2. received' = received + n /\ Len(stream') = Len(stream) - n
      BY <2>2
    <3>3. \A x, y : x = received + n /\ y = Len(stream) - n => x + y = received + Len(stream)
      BY <3>1
    <3>4. QED
      BY <3>2, <3>3, Zenon
  <2>4. \A j \in 1 .. Len(stream') : stream'[j] = src[received' + j]
    <3> TAKE j \in 1 .. Len(stream')
    <3>1. stream[n + j] = src[received + (n + j)]
      BY <2>1, <2>2
    <3>2. received + (n + j) = received' + j
      OBVIOUS
    <3>3. QED
      BY <2>2, <3>1, <3>2
  <2>5. stream # <<>>
    OBVIOUS
  <2>6. sPc \notin {"meta", "wait"}
    BY <2>5
  <2>7. QED
    BY <2>1, <2>3, <2>4, <2>6
<1>17. CASE RecvFails
  BY <1>17 DEF RecvFails, ReceiverReturns, HandshakeInv
<1>18. CASE RecvDone
  BY <1>18 DEF RecvDone, ReceiverReturns, HandshakeInv
<1>19. CASE Extract
  BY <1>19 DEF Extract, ReceiverReturns, HandshakeInv
<1>20. CASE StartSession
  BY <1>20 DEF StartSession, HandshakeInv
<1>21. CASE OtherClient
  BY <1>21 DEF OtherClient, HandshakeInv
<1>22. CASE UserDelete
  BY <1>22 DEF UserDelete, HandshakeInv
<1>23. CASE UserAccepts
  BY <1>23 DEF UserAccepts, HandshakeInv
<1>24. CASE UserRejects
  BY <1>24 DEF UserRejects, ReceiverReturns, HandshakeInv
<1>25. CASE Break
  BY <1>25 DEF Break, HandshakeInv
<1>26. CASE CannotOpenSource
  BY <1>26 DEF CannotOpenSource, SenderReturns, HandshakeInv
<1>27. CASE SourceEndsEarly
  BY <1>27 DEF SourceEndsEarly, SenderReturns, HandshakeInv
<1>28. CASE CannotCreate
  BY <1>28 DEF CannotCreate, ReceiverReturns, HandshakeInv
<1>29. CASE ExtractFails
  BY <1>29 DEF ExtractFails, ReceiverReturns, HandshakeInv
<1> HIDE DEF StreamInv
<1> QED
  BY <1>a, <1>1, <1>2, <1>3, <1>4, <1>5, <1>6, <1>7, <1>8, <1>9, <1>10, <1>11,
     <1>12, <1>13, <1>14, <1>15, <1>16, <1>17, <1>18, <1>19, <1>20, <1>21, <1>22,
     <1>23, <1>24, <1>25, <1>26, <1>27, <1>28, <1>29
     DEF Next, SenderStep, ReceiverStep, UserStep, FaultStep

\* What is in the save directory: what the receiver resumes is the beginning of
\* what is sent, and so is what it has written.
FilesInv ==
  /\ PartialIsPrefix
  /\ DoneMeansStored
  /\ rPc \in {"prompt", "respond", "open"} /\ resume > 0 =>
       disk[Root] # NoFile /\ Len(disk[Root]) = resume /\ Prefix(disk[Root], src)
  /\ rPc = "recv" => Len(disk[final]) = received /\ Prefix(disk[final], src)

\* Under the assumptions on the environment a step keeps the files sound.
LEMMA FilesStep ==
  ASSUME ResumeIsSafe, TInv, HandshakeInv, StreamInv, FilesInv, [Next]_vars
  PROVE  FilesInv'
<1>a. CASE UNCHANGED vars
  BY <1>a DEF FilesInv, PartialIsPrefix, DoneMeansStored, vars, senderVars,
              receiverVars, netVars, fsVars
<1>b. TypeOK
  BY DEF TInv
<1> USE <1>b, ContentAssumption, LimitAssumption
    DEF FilesInv, TypeOK, ResumeIsSafe, senderVars, receiverVars, netVars, fsVars
<1>1. CASE SendMeta
  BY <1>1 DEF SendMeta, HandshakeInv, PartialIsPrefix, DoneMeansStored
<1>2. CASE SendMetaFails
  BY <1>2 DEF SendMetaFails, SenderReturns, HandshakeInv, PartialIsPrefix, DoneMeansStored
<1>3. CASE GetResponse
  BY <1>3 DEF GetResponse, SenderReturns, HandshakeInv, PartialIsPrefix, DoneMeansStored
<1>4. CASE NoResponse
  BY <1>4 DEF NoResponse, SenderReturns, HandshakeInv, PartialIsPrefix, DoneMeansStored
<1>5. CASE SendData
  BY <1>5 DEF SendData, HandshakeInv, PartialIsPrefix, DoneMeansStored
<1>6. CASE SendFails
  BY <1>6 DEF SendFails, SenderReturns, HandshakeInv, PartialIsPrefix, DoneMeansStored
<1>7. CASE SendDone
  BY <1>7 DEF SendDone, SenderReturns, HandshakeInv, PartialIsPrefix, DoneMeansStored
<1>8. CASE Accept
  BY <1>8 DEF Accept, HandshakeInv, PartialIsPrefix, DoneMeansStored
<1>9. CASE RecvMeta
  <2>1. /\ meta = Len(src) /\ rPc = "meta" /\ resume' = ResumeOffset(meta)
        /\ rPc' \in {"prompt", "respond"}
        /\ UNCHANGED <<conf, src, rEv, final, received, disk, unpacked>>
    BY <1>9 DEF RecvMeta, HandshakeInv
  <2>2. ASSUME resume' > 0
        PROVE  disk[Root] # NoFile /\ Len(disk[Root]) = resume' /\ Prefix(disk[Root], src)
    <3>1. /\ disk[Root] # NoFile /\ Len(disk[Root]) = resume'
          /\ Len(disk[Root]) < Len(src)
      BY <2>1, <2>2 DEF ResumeOffset, FileSize
    <3>2. Root \in Paths /\ disk[Root] \in Seq(Block)
      BY <3>1 DEF Root, Paths
    <3>3. disk[Root] \notin InitialFiles
      BY <3>1, <3>2 DEF ForeignNotShorter
    <3>4. PICK s \in Sources : Prefix(disk[Root], s)
      BY <3>1, <3>2, <3>3 DEF PartialIsPrefix
    <3>5. s \in Seq(Block) /\ src \in Seq(Block)
      OBVIOUS
    <3>6. CASE Prefix(s, src)
      BY <3>1, <3>2, <3>4, <3>5, <3>6, PrefixTransitive
    <3>7. CASE Prefix(src, s)
      BY <3>1, <3>2, <3>4, <3>5, <3>7, PrefixShorter
    <3>8. QED
      BY <3>1, <3>6, <3>7 DEF SourcesGrow
  <2>3. QED
    BY <2>1, <2>2 DEF PartialIsPrefix, DoneMeansStored
<1>10. CASE NoMeta
  BY <1>10 DEF NoMeta, ReceiverReturns, HandshakeInv, PartialIsPrefix, DoneMeansStored
<1>11. CASE ProtocolMismatch
  BY <1>11 DEF ProtocolMismatch, ReceiverReturns, HandshakeInv, PartialIsPrefix, DoneMeansStored
<1>12. CASE Respond
  BY <1>12 DEF Respond, HandshakeInv, PartialIsPrefix, DoneMeansStored
<1>13. CASE RespondFails
  BY <1>13 DEF RespondFails, ReceiverReturns, HandshakeInv, PartialIsPrefix, DoneMeansStored
<1>14. CASE SkipExisting
  BY <1>14 DEF SkipExisting, ReceiverReturns, HandshakeInv, PartialIsPrefix, DoneMeansStored
<1>15. CASE OpenFile
  <2> PICK p \in OpenTargets :
        final' = p /\ disk' = [disk EXCEPT ![p] = OpenedContent(p)]
    BY <1>15 DEF OpenFile
  <2>1. /\ rPc = "open" /\ rPc' = "recv" /\ rEv = "none"
        /\ UNCHANGED <<conf, src, rEv, received, resume, unpacked>>
    BY <1>15 DEF OpenFile, HandshakeInv
  <2>2. p \in Paths
    BY DEF OpenTargets, Copies, Paths, Root
  <2>3. received = resume /\ resume \in Nat
    BY <2>1 DEF StreamInv
  <2>4. /\ OpenedContent(p) \in Seq(Block)
        /\ Len(OpenedContent(p)) = received /\ Prefix(OpenedContent(p), src)
    <3>1. CASE resume > 0
      <4>1. p = Root
        BY <3>1 DEF OpenTargets, RootTaken
      <4>2. OpenedContent(p) = disk[Root] /\ disk[Root] # NoFile
        BY <2>1, <3>1, <4>1 DEF OpenedContent
      <4>3. QED
        BY <2>1, <2>2, <2>3, <3>1, <4>1, <4>2
    <3>2. CASE resume = 0
      <4>1. OpenedContent(p) = <<>>
        BY <3>2 DEF OpenedContent
      <4>2. QED
        BY <2>3, <3>2, <4>1 DEF Prefix
    <3>3. QED
      BY <2>3, <3>1, <3>2
  <2>5. disk'[p] = OpenedContent(p) /\ \A q \in Paths \ {p} : disk'[q] = disk[q]
    BY <2>2
  <2>6. PartialIsPrefix'
    BY <2>1, <2>4, <2>5 DEF PartialIsPrefix
  <2>7. QED
    BY <2>1, <2>4, <2>5, <2>6 DEF DoneMeansStored
<1>16. CASE RecvData
  <2> PICK n \in 1 .. BufferSize : \E k \in Stored(n) :
        /\ n <= Len(stream) /\ received' = received + n
        /\ disk' = [disk EXCEPT ![final] = @ \o SubSeq(stream, 1, k)]
    BY <1>16 DEF RecvData
  <2>1. disk' = [disk EXCEPT ![final] = @ \o SubSeq(stream, 1, n)]
    BY DEF Stored
  <2>2. /\ rPc = "recv" /\ rPc' = "recv" /\ rEv = "none"
        /\ UNCHANGED <<conf, src, rEv, resume, final, unpacked>>
    BY <1>16 DEF RecvData, HandshakeInv
  <2>3. /\ disk[final] # NoFile /\ disk[final] \in Seq(Block)
        /\ Len(disk[final]) = received /\ Prefix(disk[final], src)
    BY <2>2 DEF TInv, FileOpen
  <2>4. /\ received + Len(stream) <= Len(src)
        /\ \A i \in 1 .. Len(stream) : stream[i] = src[received + i]
    BY <2>2 DEF StreamInv
  <2> DEFINE new == disk[final] \o SubSeq(stream, 1, n)
  <2>5. /\ new \in Seq(Block)
        /\ Len(new) = received + n
        /\ \A i \in 1 .. received : new[i] = disk[final][i]
        /\ \A i \in received + 1 .. received + n : new[i] = stream[i - received]
    <3>1. n \in Nat /\ n <= Len(stream) /\ 1 <= n + 1 /\ 1 \in Nat \ {0}
      OBVIOUS
    <3>2. ASSUME NEW f \in Seq(Block)
          PROVE  LET u == f \o SubSeq(stream, 1, n)
                 IN  /\ u \in Seq(Block)
                     /\ Len(u) = Len(f) + (n - 1 + 1)
                     /\ \A i \in 1 .. Len(f) : u[i] = f[i]
                     /\ \A i \in Len(f) + 1 .. Len(u) :
                          u[i] = stream[1 + (i - Len(f)) - 1]
      BY <3>1, AppendPiece
    <3>3. /\ new \in Seq(Block)
          /\ Len(new) = received + (n - 1 + 1)
          /\ \A i \in 1 .. received : new[i] = disk[final][i]
          /\ \A i \in received + 1 .. Len(new) :
               new[i] = stream[1 + (i - received) - 1]
      BY <2>3, <3>2
    <3> HIDE DEF new
    <3>4. Len(new) = received + n
      BY <3>3
    <3>5. \A i \in received + 1 .. received + n : 1 + (i - received) - 1 = i - received
      OBVIOUS
    <3>6. QED
      BY <3>3, <3>4, <3>5
  <2> HIDE DEF new
  <2>6. Prefix(new, src)
    <3>1. Len(new) <= Len(src)
      BY <2>4, <2>5
    <3>2. ASSUME NEW i \in 1 .. Len(new)
          PROVE  new[i] = src[i]
      <4>1. CASE i <= received
        BY <2>3, <2>5, <3>2, <4>1 DEF Prefix
      <4>2. CASE i > received
        <5>1. i - received \in 1 .. Len(stream) /\ received + (i - received) = i
          BY <2>5, <3>2, <4>2
        <5>2. new[i] = stream[i - received]
          BY <2>5, <3>2, <4>2
        <5>3. QED
          BY <2>4, <5>1, <5>2
      <4>3. QED
        BY <4>1, <4>2
    <3>3. QED
      BY <3>1, <3>2 DEF Prefix
  <2>7. disk'[final] = new /\ \A q \in Paths \ {final} : disk'[q] = disk[q]
    BY <2>1 DEF new
  <2>8. PartialIsPrefix'
    BY <2>2, <2>6, <2>7 DEF PartialIsPrefix
  <2>9. Len(disk'[final]) = received' /\ Prefix(disk'[final], src)
    BY <2>5, <2>6, <2>7
  <2>10. QED
    BY <2>2, <2>8, <2>9 DEF DoneMeansStored
<1>17. CASE RecvFails
  BY <1>17 DEF RecvFails, ReceiverReturns, HandshakeInv, PartialIsPrefix, DoneMeansStored
<1>18. CASE RecvDone
  <2>1. disk[final] = src
    <3>1. /\ disk[final] \in Seq(Block) /\ src \in Seq(Block)
          /\ Prefix(disk[final], src)
          /\ Len(disk[final]) = received /\ received >= Len(src)
      BY <1>18 DEF RecvDone, TInv, FileOpen, HandshakeInv
    <3>2. Len(disk[final]) = Len(src)
      BY <3>1 DEF Prefix
    <3>3. QED
      BY <3>1, <3>2, PrefixFull
  <2>2. QED
    BY <1>18, <2>1 DEF RecvDone, ReceiverReturns, PartialIsPrefix, DoneMeansStored
<1>19. CASE Extract
  <2>1. disk[final] = src
    <3>1. /\ disk[final] \in Seq(Block) /\ src \in Seq(Block)
          /\ Prefix(disk[final], src)
          /\ Len(disk[final]) = received /\ received >= Len(src)
      BY <1>19 DEF Extract, TInv, FileOpen, HandshakeInv
    <3>2. Len(disk[final]) = Len(src)
      BY <3>1 DEF Prefix
    <3>3. QED
      BY <3>1, <3>2, PrefixFull
  <2>2. /\ src \in unpacked' /\ conf.isDir /\ rPc' = "idle"
        /\ disk' = [disk EXCEPT ![final] = NoFile]
        /\ UNCHANGED <<conf, src>>
    BY <1>19, <2>1 DEF Extract, ReceiverReturns
  <2>3. QED
    BY <2>2 DEF PartialIsPrefix, DoneMeansStored
<1>20. CASE StartSession
  BY <1>20 DEF StartSession, HandshakeInv, PartialIsPrefix, DoneMeansStored
<1>21. CASE OtherClient
  BY <1>21 DEF OtherClient, HandshakeInv, PartialIsPrefix, DoneMeansStored
<1>22. CASE UserDelete
  BY <1>22 DEF UserDelete, HandshakeInv, PartialIsPrefix, DoneMeansStored
<1>23. CASE UserAccepts
  BY <1>23 DEF UserAccepts, HandshakeInv, PartialIsPrefix, DoneMeansStored
<1>24. CASE UserRejects
  BY <1>24 DEF UserRejects, ReceiverReturns, HandshakeInv, PartialIsPrefix, DoneMeansStored
<1>25. CASE Break
  BY <1>25 DEF Break, HandshakeInv, PartialIsPrefix, DoneMeansStored
<1>26. CASE CannotOpenSource
  BY <1>26 DEF CannotOpenSource, SenderReturns, HandshakeInv, PartialIsPrefix, DoneMeansStored
<1>27. CASE SourceEndsEarly
  BY <1>27 DEF SourceEndsEarly, SenderReturns, HandshakeInv, PartialIsPrefix, DoneMeansStored
<1>28. CASE CannotCreate
  BY <1>28 DEF CannotCreate, ReceiverReturns, HandshakeInv, PartialIsPrefix, DoneMeansStored
<1>29. CASE ExtractFails
  BY <1>29 DEF ExtractFails, ReceiverReturns, HandshakeInv, PartialIsPrefix, DoneMeansStored
<1> HIDE DEF FilesInv
<1> QED
  BY <1>a, <1>1, <1>2, <1>3, <1>4, <1>5, <1>6, <1>7, <1>8, <1>9, <1>10, <1>11,
     <1>12, <1>13, <1>14, <1>15, <1>16, <1>17, <1>18, <1>19, <1>20, <1>21, <1>22,
     <1>23, <1>24, <1>25, <1>26, <1>27, <1>28, <1>29
     DEF Next, SenderStep, ReceiverStep, UserStep, FaultStep

\* The invariants hold initially.
LEMMA InitInvariants == Init => HandshakeInv /\ StreamInv
BY ContentAssumption DEF Init, HandshakeInv, StreamInv

\* The files are sound initially.
LEMMA InitFiles == Init => FilesInv
<1> SUFFICES ASSUME Init
             PROVE  FilesInv
  OBVIOUS
<1>1. PICK f \in InitialFiles : disk = [p \in Paths |-> IF p = Root THEN f ELSE NoFile]
  BY DEF Init
<1>2. PartialIsPrefix
  BY <1>1 DEF PartialIsPrefix
<1>3. QED
  BY <1>2 DEF Init, FilesInv, DoneMeansStored

-----------------------------------------------------------------------------
(* The theorems.                                                           *)

\* A done event of the sender over a standing connection means that receiver and
\* wire hold the whole file, for all contents, sizes, buffers and policies.
THEOREM DoneIsInFlight == Spec => []DoneMeansInFlight
<1>1. TInv /\ HandshakeInv /\ StreamInv /\ [Next]_vars => (TInv /\ HandshakeInv /\ StreamInv)'
  BY StepTInv, HandshakeStep, StreamStep
<1>2. Init => TInv /\ HandshakeInv /\ StreamInv
  BY InitTInv, InitInvariants
<1>3. StreamInv => DoneMeansInFlight
  BY DEF StreamInv, DoneMeansInFlight
<1>4. QED
  BY <1>1, <1>2, <1>3, PTL DEF Spec

\* If the sent file only grows, no shorter foreign file has its name and every
\* fwrite succeeds, then FilesInv is an invariant.
LEMMA FilesCorrect ==
  ASSUME ResumeIsSafe
  PROVE  Spec => []FilesInv
<1> DEFINE Inv == TInv /\ HandshakeInv /\ StreamInv /\ FilesInv
<1>1. Inv /\ [Next]_vars => Inv'
  BY StepTInv, HandshakeStep, StreamStep, FilesStep
<1>2. Init => Inv
  BY InitTInv, InitInvariants, InitFiles
<1>3. Inv => FilesInv
  OBVIOUS
<1> HIDE DEF Inv
<1>4. QED
  BY <1>1, <1>2, <1>3, PTL DEF Spec

\* Under the same assumptions every file the receiver leaves behind, after any
\* sequence of interrupted, retried and resumed sessions, is a prefix of the sent
\* one or a file that was there before.
THEOREM PartialsArePrefixes ==
  ASSUME ResumeIsSafe
  PROVE  Spec => []PartialIsPrefix
<1>1. FilesInv => PartialIsPrefix
  BY DEF FilesInv
<1>2. QED
  BY <1>1, FilesCorrect, PTL

\* Under the same assumptions a transfer the receiver reports done is stored, or
\* unpacked, complete and unchanged.
THEOREM DoneIsStored ==
  ASSUME ResumeIsSafe
  PROVE  Spec => []DoneMeansStored
<1>1. FilesInv => DoneMeansStored
  BY DEF FilesInv
<1>2. QED
  BY <1>1, FilesCorrect, PTL

\* With no assumption at all: no step of the receiver shortens or rewrites a file,
\* save what FilesOnlyGrow names.
THEOREM FilesGrow == Spec => FilesOnlyGrow
<1> DEFINE Grows(p) ==
      disk[p] # NoFile /\ disk'[p] # disk[p] =>
         \/ conf.policy = "overwrite" /\ p = Root
         \/ conf.policy = "rename" /\ p = CopyLimit - 1
         \/ disk'[p] = NoFile /\ (rPc = "idle" \/ conf.isDir)
         \/ disk'[p] # NoFile /\ Prefix(disk[p], disk'[p])
<1>1. ASSUME TInv, [Next]_vars, NEW p \in Paths
      PROVE  Grows(p)
  <2>a. CASE UNCHANGED vars
    BY <2>a DEF vars, fsVars
  <2>b. TypeOK
    BY <1>1 DEF TInv
  <2> USE <1>1, <2>b, ContentAssumption, LimitAssumption DEF TypeOK, fsVars
  <2>1. CASE SendMeta
    BY <2>1 DEF SendMeta
  <2>2. CASE SendMetaFails
    BY <2>2 DEF SendMetaFails, SenderReturns
  <2>3. CASE GetResponse
    BY <2>3 DEF GetResponse, SenderReturns
  <2>4. CASE NoResponse
    BY <2>4 DEF NoResponse, SenderReturns
  <2>5. CASE SendData
    BY <2>5 DEF SendData
  <2>6. CASE SendFails
    BY <2>6 DEF SendFails, SenderReturns
  <2>7. CASE SendDone
    BY <2>7 DEF SendDone, SenderReturns
  <2>8. CASE Accept
    BY <2>8 DEF Accept
  <2>9. CASE RecvMeta
    BY <2>9 DEF RecvMeta
  <2>10. CASE NoMeta
    BY <2>10 DEF NoMeta, ReceiverReturns
  <2>11. CASE ProtocolMismatch
    BY <2>11 DEF ProtocolMismatch, ReceiverReturns
  <2>12. CASE Respond
    BY <2>12 DEF Respond
  <2>13. CASE RespondFails
    BY <2>13 DEF RespondFails, ReceiverReturns
  <2>14. CASE SkipExisting
    BY <2>14 DEF SkipExisting, ReceiverReturns
  <2>15. CASE OpenFile
    <3> PICK q \in OpenTargets : disk' = [disk EXCEPT ![q] = OpenedContent(q)]
      BY <2>15 DEF OpenFile
    <3>1. CASE p # q
      BY <3>1
    <3>2. CASE p = q
      <4>1. disk'[p] = OpenedContent(p)
        BY <3>2
      <4>2. ~(RootTaken /\ conf.policy = "skip") /\ conf.policy \in Policy
        BY <2>15, LimitAssumption DEF OpenFile, ConfigType
      <4>3. CASE resume > 0
        BY <4>1, <4>3 DEF OpenedContent
      <4>4. CASE ~RootTaken /\ ~(resume > 0)
        <5>1. p = Root /\ disk[Root] = NoFile
          BY <3>2, <4>4 DEF OpenTargets, RootTaken
        <5>2. QED
          BY <5>1
      <4>5. CASE RootTaken /\ conf.policy = "rename"
        <5>1. p \in Copies
          BY <3>2, <4>5 DEF OpenTargets
        <5>2. disk[p] = NoFile \/ p = CopyLimit - 1
          BY <5>1 DEF Copies
        <5>3. QED
          BY <4>5, <5>2
      <4>6. CASE RootTaken /\ conf.policy = "overwrite"
        <5>1. p = Root
          BY <3>2, <4>6 DEF OpenTargets
        <5>2. QED
          BY <4>6, <5>1
      <4>7. QED
        BY <4>2, <4>3, <4>4, <4>5, <4>6 DEF Policy
    <3>3. QED
      BY <3>1, <3>2
  <2>16. CASE RecvData
    <3> PICK n \in 1 .. BufferSize : \E k \in Stored(n) :
          /\ n <= Len(stream)
          /\ disk' = [disk EXCEPT ![final] = @ \o SubSeq(stream, 1, k)]
      BY <2>16 DEF RecvData
    <3> PICK k \in Stored(n) :
          disk' = [disk EXCEPT ![final] = @ \o SubSeq(stream, 1, k)]
      OBVIOUS
    <3>1. k \in Nat /\ k <= Len(stream) /\ 1 <= k + 1 /\ 1 \in Nat \ {0}
      BY DEF Stored
    <3>2. CASE p = final
      <4>1. disk'[p] = disk[p] \o SubSeq(stream, 1, k)
        BY <3>2
      <4>2. ASSUME NEW f \in Seq(Block)
            PROVE  LET u == f \o SubSeq(stream, 1, k)
                   IN  /\ u \in Seq(Block)
                       /\ Len(u) = Len(f) + (k - 1 + 1)
                       /\ \A i \in 1 .. Len(f) : u[i] = f[i]
        BY <3>1, AppendPiece
      <4>3. disk[p] \in Seq(Block)
        BY <2>16, <3>2 DEF RecvData, TInv, FileOpen
      <4>4. /\ disk'[p] \in Seq(Block)
            /\ Len(disk'[p]) = Len(disk[p]) + (k - 1 + 1)
            /\ \A i \in 1 .. Len(disk[p]) : disk'[p][i] = disk[p][i]
        BY <4>1, <4>2, <4>3
      <4>5. Len(disk[p]) <= Len(disk'[p])
        BY <3>1, <4>3, <4>4
      <4>6. disk'[p] # NoFile /\ Prefix(disk[p], disk'[p])
        BY <4>4, <4>5 DEF Prefix
      <4>7. QED
        BY <4>6
    <3>3. CASE p # final
      BY <3>3
    <3>4. QED
      BY <3>2, <3>3
  <2>17. CASE RecvFails
    BY <2>17 DEF RecvFails, ReceiverReturns
  <2>18. CASE RecvDone
    BY <2>18 DEF RecvDone, ReceiverReturns
  <2>19. CASE Extract
    BY <2>19 DEF Extract, ReceiverReturns
  <2>20. CASE StartSession
    BY <2>20 DEF StartSession
  <2>21. CASE OtherClient
    BY <2>21 DEF OtherClient
  <2>22. CASE UserDelete
    BY <2>22 DEF UserDelete
  <2>23. CASE UserAccepts
    BY <2>23 DEF UserAccepts
  <2>24. CASE UserRejects
    BY <2>24 DEF UserRejects, ReceiverReturns
  <2>25. CASE Break
    BY <2>25 DEF Break
  <2>26. CASE CannotOpenSource
    BY <2>26 DEF CannotOpenSource, SenderReturns
  <2>27. CASE SourceEndsEarly
    BY <2>27 DEF SourceEndsEarly, SenderReturns
  <2>28. CASE CannotCreate
    BY <2>28 DEF CannotCreate, ReceiverReturns
  <2>29. CASE ExtractFails
    BY <2>29 DEF ExtractFails, ReceiverReturns
  <2> QED
    BY <2>a, <2>1, <2>2, <2>3, <2>4, <2>5, <2>6, <2>7, <2>8, <2>9, <2>10, <2>11,
       <2>12, <2>13, <2>14, <2>15, <2>16, <2>17, <2>18, <2>19, <2>20, <2>21, <2>22,
       <2>23, <2>24, <2>25, <2>26, <2>27, <2>28, <2>29
       DEF Next, SenderStep, ReceiverStep, UserStep, FaultStep
<1>2. TInv /\ [Next]_vars => [\A p \in Paths : Grows(p)]_vars
  BY <1>1
<1>3. TInv /\ [Next]_vars => TInv'
  BY StepTInv
<1> HIDE DEF Grows
<1>4. Spec => [][\A p \in Paths : Grows(p)]_vars
  BY <1>2, <1>3, InitTInv, PTL DEF Spec
<1>5. QED
  BY <1>4 DEF FilesOnlyGrow, Grows
-----------------------------------------------------------------------------
(* The protocol implements the service of FileDelivery.                    *)

\* A prefix of the offered content is its beginning, as FileDelivery writes it.
LEMMA PrefixIsBeginning ==
  ASSUME NEW s \in Seq(Block), NEW t \in Seq(Block), Prefix(s, t)
  PROVE  s = SubSeq(t, 1, Len(s))
<1>1. Len(s) \in Nat /\ Len(s) <= Len(t) /\ \A i \in 1 .. Len(s) : s[i] = t[i]
  BY DEF Prefix
<1>2. /\ SubSeq(t, 1, Len(s)) \in Seq(Block)
      /\ Len(SubSeq(t, 1, Len(s))) = Len(s) - 1 + 1
      /\ \A i \in 1 .. Len(s) - 1 + 1 : SubSeq(t, 1, Len(s))[i] = t[1 + i - 1]
  BY <1>1, Piece
<1>3. \A i \in 1 .. Len(s) : 1 + i - 1 = i
  OBVIOUS
<1>4. Len(SubSeq(t, 1, Len(s))) = Len(s)
  BY <1>1, <1>2
<1>5. \A i \in 1 .. Len(s) : s[i] = SubSeq(t, 1, Len(s))[i]
  BY <1>1, <1>2, <1>3
<1>6. QED
  BY <1>2, <1>4, <1>5, SeqEqual

\* Every step is a step of the service or leaves its variables alone.
LEMMA StepDelivers ==
  ASSUME ResumeIsSafe, TInv, HandshakeInv, StreamInv, FilesInv, [Next]_vars
  PROVE  [Delivery!Next]_Delivery!vars
<1>a. CASE UNCHANGED vars
  BY <1>a DEF vars, senderVars, receiverVars, fsVars, Delivery!vars
<1>b. TypeOK
  BY DEF TInv
<1> USE <1>b, ContentAssumption, LimitAssumption
    DEF TypeOK, senderVars, receiverVars, netVars, fsVars
<1>1. CASE SendMeta
  BY <1>1 DEF SendMeta, HandshakeInv, Delivery!Next, Delivery!Offer, Delivery!GiveUp, Delivery!vars
<1>2. CASE SendMetaFails
  BY <1>2 DEF SendMetaFails, SenderReturns, HandshakeInv, Delivery!Next, Delivery!Offer, Delivery!GiveUp, Delivery!vars
<1>3. CASE GetResponse
  BY <1>3 DEF GetResponse, SenderReturns, HandshakeInv, Delivery!Next, Delivery!Offer, Delivery!GiveUp, Delivery!vars
<1>4. CASE NoResponse
  BY <1>4 DEF NoResponse, SenderReturns, HandshakeInv, Delivery!Next, Delivery!Offer, Delivery!GiveUp, Delivery!vars
<1>5. CASE SendData
  BY <1>5 DEF SendData, HandshakeInv, Delivery!Next, Delivery!Offer, Delivery!GiveUp, Delivery!vars
<1>6. CASE SendFails
  BY <1>6 DEF SendFails, SenderReturns, HandshakeInv, Delivery!Next, Delivery!Offer, Delivery!GiveUp, Delivery!vars
<1>7. CASE SendDone
  BY <1>7 DEF SendDone, SenderReturns, HandshakeInv, Delivery!Next, Delivery!Offer, Delivery!GiveUp, Delivery!vars
<1>8. CASE Accept
  BY <1>8 DEF Accept, HandshakeInv, Delivery!Next, Delivery!Offer, Delivery!GiveUp, Delivery!vars
<1>9. CASE RecvMeta
  BY <1>9 DEF RecvMeta, HandshakeInv, Delivery!Next, Delivery!Offer, Delivery!GiveUp, Delivery!vars
<1>10. CASE NoMeta
  BY <1>10 DEF NoMeta, ReceiverReturns, HandshakeInv, Delivery!Next, Delivery!Offer, Delivery!GiveUp, Delivery!vars
<1>11. CASE ProtocolMismatch
  BY <1>11 DEF ProtocolMismatch, ReceiverReturns, HandshakeInv, Delivery!Next, Delivery!Offer, Delivery!GiveUp, Delivery!vars
<1>12. CASE Respond
  BY <1>12 DEF Respond, HandshakeInv, Delivery!Next, Delivery!Offer, Delivery!GiveUp, Delivery!vars
<1>13. CASE RespondFails
  BY <1>13 DEF RespondFails, ReceiverReturns, HandshakeInv, Delivery!Next, Delivery!Offer, Delivery!GiveUp, Delivery!vars
<1>14. CASE SkipExisting
  BY <1>14 DEF SkipExisting, ReceiverReturns, HandshakeInv, Delivery!Next, Delivery!Offer, Delivery!GiveUp, Delivery!vars
<1>15. CASE OpenFile
  <2> PICK p \in OpenTargets : disk' = [disk EXCEPT ![p] = OpenedContent(p)]
    BY <1>15 DEF OpenFile
  <2>1. /\ rPc = "open" /\ rEv = "none"
        /\ UNCHANGED <<src, rEv, unpacked>>
    BY <1>15 DEF OpenFile, HandshakeInv
  <2>2. p \in Paths
    BY DEF OpenTargets, Copies, Paths, Root
  <2>3. CASE OpenedContent(p) = disk[p]
    <3>1. UNCHANGED Delivery!vars
      BY <2>1, <2>2, <2>3 DEF Delivery!vars
    <3>2. QED
      BY <3>1
  <2>4. CASE OpenedContent(p) = <<>>
    <3>1. Delivery!Beginning(0) = <<>>
      BY SubSeqEmpty DEF Delivery!Beginning
    <3>2. 0 \in 0 .. Len(src)
      OBVIOUS
    <3>3. Delivery!Copy(p)
      BY <2>1, <2>4, <3>1, <3>2 DEF Delivery!Copy
    <3>4. QED
      BY <2>2, <3>3 DEF Delivery!Next
  <2>5. QED
    BY <2>3, <2>4 DEF OpenedContent
<1>16. CASE RecvData
  <2>1. /\ rPc = "recv" /\ rPc' = "recv" /\ rEv = "none" /\ final \in Paths
        /\ UNCHANGED <<src, rEv, unpacked, final>>
    BY <1>16 DEF RecvData, HandshakeInv
  <2>2. /\ disk[final] \in Seq(Block) /\ Prefix(disk[final], src)
        /\ Len(disk[final]) = received
    BY <2>1 DEF TInv, FileOpen, FilesInv
  <2>3. disk'[final] \in Seq(Block) /\ Prefix(disk'[final], src)
        /\ Len(disk'[final]) = received'
    <3>1. TInv' /\ FilesInv' /\ TypeOK'
      BY StepTInv, FilesStep DEF TInv
    <3>2. QED
      BY <2>1, <3>1 DEF TInv, TypeOK, FileOpen, FilesInv
  <2>4. \E n \in Nat : received' = received + n
    BY <1>16 DEF RecvData
  <2>5. /\ received \in 0 .. received' /\ received' \in 0 .. Len(src)
    BY <2>2, <2>3, <2>4 DEF Prefix
  <2>6. /\ disk[final] = Delivery!Beginning(received)
        /\ disk'[final] = Delivery!Beginning(received')
    BY <2>2, <2>3, PrefixIsBeginning DEF Delivery!Beginning
  <2>7. disk' = [disk EXCEPT ![final] = disk'[final]]
    BY <1>16 DEF RecvData
  <2>8. Delivery!Copy(final)
    BY <2>1, <2>5, <2>6, <2>7 DEF Delivery!Copy
  <2>9. QED
    BY <2>1, <2>8 DEF Delivery!Next
<1>17. CASE RecvFails
  BY <1>17 DEF RecvFails, ReceiverReturns, HandshakeInv, Delivery!Next, Delivery!Offer, Delivery!GiveUp, Delivery!vars
<1>18. CASE RecvDone
  <2>1. /\ rEv = "none" /\ rEv' = "done" /\ final \in Paths
        /\ UNCHANGED <<src, disk, unpacked, final, conf>> /\ ~conf.isDir
    BY <1>18 DEF RecvDone, ReceiverReturns, HandshakeInv
  <2>2. disk[final] = src
    <3>1. FilesInv'
      BY FilesStep
    <3>2. QED
      BY <2>1, <3>1 DEF FilesInv, DoneMeansStored
  <2>3. Delivery!Deliver(final)
    BY <2>1, <2>2 DEF Delivery!Deliver
  <2>4. QED
    BY <2>1, <2>3 DEF Delivery!Next
<1>19. CASE Extract
  <2>1. /\ rEv = "none" /\ rEv' = "done" /\ final \in Paths
        /\ UNCHANGED src
        /\ disk' = [disk EXCEPT ![final] = NoFile]
        /\ unpacked' = unpacked \union {s \in Sources : s = disk[final]}
    BY <1>19 DEF Extract, ReceiverReturns, HandshakeInv
  <2>2. disk[final] = src
    <3>1. /\ disk[final] \in Seq(Block) /\ src \in Seq(Block)
          /\ Prefix(disk[final], src)
          /\ Len(disk[final]) = received /\ received >= Len(src)
      BY <1>19 DEF Extract, TInv, FileOpen, HandshakeInv, FilesInv
    <3>2. Len(disk[final]) = Len(src)
      BY <3>1 DEF Prefix
    <3>3. QED
      BY <3>1, <3>2, PrefixFull
  <2>3. unpacked' = unpacked \union {src}
    BY <2>1, <2>2
  <2>4. Delivery!Deliver(final)
    BY <2>1, <2>2, <2>3 DEF Delivery!Deliver
  <2>5. QED
    BY <2>1, <2>4 DEF Delivery!Next
<1>20. CASE StartSession
  BY <1>20 DEF StartSession, HandshakeInv, Delivery!Next, Delivery!Offer, Delivery!GiveUp, Delivery!vars
<1>21. CASE OtherClient
  <2>1. Delivery!Offer
    BY <1>21 DEF OtherClient, Delivery!Offer
  <2>2. QED
    BY <2>1 DEF Delivery!Next
<1>22. CASE UserDelete
  <2>1. PICK p \in Paths : disk' = [disk EXCEPT ![p] = NoFile]
    BY <1>22 DEF UserDelete
  <2>2. Delivery!Remove(p)
    BY <1>22, <2>1 DEF UserDelete, Delivery!Remove
  <2>3. QED
    BY <2>2 DEF Delivery!Next
<1>23. CASE UserAccepts
  BY <1>23 DEF UserAccepts, HandshakeInv, Delivery!Next, Delivery!Offer, Delivery!GiveUp, Delivery!vars
<1>24. CASE UserRejects
  BY <1>24 DEF UserRejects, ReceiverReturns, HandshakeInv, Delivery!Next, Delivery!Offer, Delivery!GiveUp, Delivery!vars
<1>25. CASE Break
  BY <1>25 DEF Break, HandshakeInv, Delivery!Next, Delivery!Offer, Delivery!GiveUp, Delivery!vars
<1>26. CASE CannotOpenSource
  BY <1>26 DEF CannotOpenSource, SenderReturns, HandshakeInv, Delivery!Next, Delivery!Offer, Delivery!GiveUp, Delivery!vars
<1>27. CASE SourceEndsEarly
  BY <1>27 DEF SourceEndsEarly, SenderReturns, HandshakeInv, Delivery!Next, Delivery!Offer, Delivery!GiveUp, Delivery!vars
<1>28. CASE CannotCreate
  BY <1>28 DEF CannotCreate, ReceiverReturns, HandshakeInv, Delivery!Next, Delivery!Offer, Delivery!GiveUp, Delivery!vars
<1>29. CASE ExtractFails
  BY <1>29 DEF ExtractFails, ReceiverReturns, HandshakeInv, Delivery!Next, Delivery!Offer, Delivery!GiveUp, Delivery!vars
<1> QED
  BY <1>a, <1>1, <1>2, <1>3, <1>4, <1>5, <1>6, <1>7, <1>8, <1>9, <1>10, <1>11,
     <1>12, <1>13, <1>14, <1>15, <1>16, <1>17, <1>18, <1>19, <1>20, <1>21, <1>22,
     <1>23, <1>24, <1>25, <1>26, <1>27, <1>28, <1>29
     DEF Next, SenderStep, ReceiverStep, UserStep, FaultStep

\* Whenever resuming is safe the protocol implements the abstract service: users
\* see only copies that grow with the offered content and complete deliveries.
THEOREM ImplementsFileDelivery ==
  ASSUME ResumeIsSafe
  PROVE  Spec => IsFileDelivery
<1> DEFINE Inv == TInv /\ HandshakeInv /\ StreamInv /\ FilesInv
<1>1. Inv /\ [Next]_vars => Inv'
  BY StepTInv, HandshakeStep, StreamStep, FilesStep
<1>2. Init => Inv
  BY InitTInv, InitInvariants, InitFiles
<1>3. Inv /\ [Next]_vars => [Delivery!Next]_Delivery!vars
  BY StepDelivers
<1>4. Init => Delivery!Init
  BY DEF Init, Delivery!Init
<1> HIDE DEF Inv
<1>5. QED
  BY <1>1, <1>2, <1>3, <1>4, PTL DEF Spec, IsFileDelivery, Delivery!Spec
==============================================================================
