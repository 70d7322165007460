-------------------------- MODULE UdpTransfer_proofs --------------------------
(***************************************************************************)
(* Theorems about UdpTransfer, for any number of chunks, leftovers, copies, *)
(* retries, buffers and faults.                                            *)
(***************************************************************************)
EXTENDS UdpTransfer, FiniteSetTheorems, TLAPS

-----------------------------------------------------------------------------
(* Buffers.                                                                *)

RMsg == {Meta, Eof} \union {Pkt(s, n, c) : s \in 0 .. Chunks, n \in 0 .. Huge, c \in Int}
SMsg == {Resp(b, p) : b \in 0 .. Chunks, p \in {0, Huge}} \union {Ack(s) : s \in 0 .. Huge}

Elems(buf) == {buf[i] : i \in DOMAIN buf}

LEMMA ElemsInto ==
  ASSUME NEW S, NEW buf \in Seq(S), NEW m \in S, Len(buf) <= SockBuf
  PROVE  /\ Into(buf, m) \in Seq(S) /\ Len(Into(buf, m)) <= SockBuf
         /\ Elems(Into(buf, m)) \subseteq Elems(buf) \union {m}
BY SizesAssumption DEF Into, Elems

LEMMA ElemsTail ==
  ASSUME NEW S, NEW buf \in Seq(S), buf # <<>>, Len(buf) <= SockBuf
  PROVE  /\ Tail(buf) \in Seq(S) /\ Len(Tail(buf)) <= SockBuf
         /\ Elems(Tail(buf)) \subseteq Elems(buf)
         /\ Head(buf) \in Elems(buf) /\ Head(buf) \in S
BY SizesAssumption DEF Elems

LEMMA ElemsWithout ==
  ASSUME NEW S, NEW buf \in Seq(S), NEW i \in DOMAIN buf, Len(buf) <= SockBuf
  PROVE  /\ Without(buf, i) \in Seq(S) /\ Len(Without(buf, i)) <= SockBuf
         /\ Elems(Without(buf, i)) \subseteq Elems(buf)
<1> DEFINE front == SubSeq(buf, 1, i - 1)
           back  == SubSeq(buf, i + 1, Len(buf))
<1>1. i \in 1 .. Len(buf) /\ Len(buf) \in Nat
  OBVIOUS
<1>2. front \in Seq(S) /\ Len(front) = i - 1 /\ \A j \in 1 .. i - 1 : front[j] = buf[j]
  BY <1>1
<1>3. /\ back \in Seq(S) /\ Len(back) = Len(buf) - i
      /\ \A j \in 1 .. Len(buf) - i : back[j] = buf[i + j]
  BY <1>1
<1> HIDE DEF front, back
<1>4. /\ front \o back \in Seq(S) /\ Len(front \o back) = Len(buf) - 1
      /\ \A j \in 1 .. Len(buf) - 1 :
           (front \o back)[j] = IF j < i THEN buf[j] ELSE buf[j + 1]
  BY <1>1, <1>2, <1>3
<1>5. Without(buf, i) = front \o back
  BY DEF Without, front, back
<1>6. ASSUME NEW j \in DOMAIN (front \o back)
      PROVE  \E k \in DOMAIN buf : (front \o back)[j] = buf[k]
  <2>1. j \in 1 .. Len(buf) - 1
    BY <1>1, <1>4
  <2>2. (IF j < i THEN j ELSE j + 1) \in DOMAIN buf
    BY <1>1, <2>1
  <2>3. (front \o back)[j] = buf[IF j < i THEN j ELSE j + 1]
    BY <1>1, <1>4, <2>1
  <2>4. QED
    BY <2>2, <2>3
<1>7. QED
  BY <1>1, <1>4, <1>5, <1>6, SizesAssumption DEF Elems

LEMMA ElemsDelay ==
  ASSUME NEW S, NEW buf \in Seq(S), Len(buf) > 1, Len(buf) <= SockBuf
  PROVE  /\ Append(Tail(buf), Head(buf)) \in Seq(S)
         /\ Len(Append(Tail(buf), Head(buf))) <= SockBuf
         /\ Elems(Append(Tail(buf), Head(buf))) \subseteq Elems(buf)
BY SizesAssumption DEF Elems
-----------------------------------------------------------------------------
(* The inductive invariant, in layers.  First the types of each side's     *)
(* variables with what else is known of them at each place.                *)

EnvT ==
  /\ peerSet \in PeerSets /\ reading \in MetaReadings /\ skips \in BOOLEAN
  /\ faults \in 0 .. MaxFaults

BufT ==
  /\ toR \in Seq(RMsg) /\ Len(toR) <= SockBuf
  /\ toS \in Seq(SMsg) /\ Len(toS) <= SockBuf

SndT ==
  /\ sPc \in {"meta", "resp", "send", "acks", "eof", "idle"}
  /\ copies \in 0 .. MetaCopies + EofCopies
  /\ sPc = "meta" => copies < MetaCopies
  /\ sPc \in {"resp", "send", "acks"} => copies = 0
  /\ sPc = "eof" => copies < EofCopies
  /\ sBase \in 0 .. Chunks
  /\ seq \in 0 .. Pkts
  /\ sPc \in {"send", "acks"} => seq < Pkts
  /\ acked \subseteq 0 .. Chunks
  /\ fpos \in 0 .. Chunks
  /\ sEv \in {"none", "done", "error"}
  /\ sPc \in {"meta", "resp"} =>
       seq = 0 /\ sBase = 0 /\ fpos = 0 /\ acked = {} /\ retries = [s \in 0 .. Chunks |-> 0]

RetriesT ==
  /\ retries \in [0 .. Chunks -> 0 .. MaxRetries + 1]
  /\ sPc # "idle" => \A s \in 0 .. Chunks : retries[s] <= MaxRetries

RcvT ==
  /\ rPc \in {"meta", "asked", "respond", "complete", "recv", "idle"}
  /\ resps \in 0 .. MetaCopies
  /\ rBase \in 0 .. Chunks
  /\ rPkts \in 0 .. Huge
  /\ got \subseteq {Far} \union 0 .. Chunks /\ IsFiniteSet(got)
  /\ received \in Nat
  /\ rEv \in {"none", "done", "error"}
  /\ rPc \in {"meta", "asked"} => resps = 0 /\ rBase = 0 /\ rPkts = 0 /\ got = {} /\ received = 0
  /\ rPc \in {"respond", "complete"} => resps < MetaCopies /\ rPkts = 0 /\ got = {}
  /\ rPc = "respond" => received = rBase

FileT == DOMAIN file \subseteq {Far} \union Nat /\ IsFiniteSet(DOMAIN file)

TInv == EnvT /\ BufT /\ SndT /\ RetriesT /\ RcvT /\ FileT

-----------------------------------------------------------------------------
(* Numbers and messages.                                                   *)

LEMMA Numbers ==
  /\ Chunks \in Nat /\ Huge = Chunks + 1 /\ Huge \in Nat /\ Far = -1 /\ Zeros = -1
  /\ MetaCopies \in Nat \ {0} /\ EofCopies \in Nat \ {0} /\ MetaLen \in Nat \ {0}
  /\ MaxRetries \in Nat /\ SockBuf \in Nat \ {0} /\ MaxFaults \in Nat
BY SizesAssumption DEF Huge, Far, Zeros

LEMMA PktsRange ==
  ASSUME SndT
  PROVE  Pkts \in 1 .. Huge /\ (Chunks > 0 => Pkts <= Chunks)
         /\ (sBase = 0 /\ Chunks > 0 => Pkts = Chunks)
BY Numbers DEF SndT, Pkts

LEMMA PktsAfter == ASSUME sBase' \in 0 .. Chunks PROVE Pkts' \in 1 .. Huge
<1>1. \A b \in 0 .. Chunks : (IF b = Chunks THEN 1 ELSE Chunks - b) \in 1 .. Huge
  BY Numbers
<1>2. QED
  BY <1>1 DEF Pkts

LEMMA RKinds ==
  /\ Meta \in RMsg /\ Eof \in RMsg /\ Meta.kind = "meta" /\ Eof.kind = "eof"
  /\ \A m \in RMsg : /\ m.kind \in {"meta", "eof", "pkt"}
                      /\ m.kind = "pkt" =>
                           /\ m.seq \in 0 .. Chunks /\ m.total \in 0 .. Huge /\ m.data \in Int
                           /\ m = Pkt(m.seq, m.total, m.data)
BY DEF RMsg, Meta, Eof, Pkt

LEMMA SKinds ==
  \A m \in SMsg : /\ m.kind \in {"resp", "ack"}
                  /\ m.kind = "resp" => m.base \in 0 .. Chunks /\ m.pad \in {0, Huge}
                  /\ m.kind = "ack" => m.seq \in 0 .. Huge
BY DEF SMsg, Resp, Ack

LEMMA EmptyBuffer ==
  /\ <<>> \in Seq(RMsg) /\ <<>> \in Seq(SMsg)
  /\ Len(<<>>) = 0 /\ Elems(<<>>) = {}
BY DEF Elems

\* The buffers when one of them, or none, has been emptied.
LEMMA Emptied ==
  ASSUME BufT, toR' = toR \/ toR' = <<>>, toS' = toS \/ toS' = <<>>
  PROVE  BufT'
<1>1. toR' \in Seq(RMsg) /\ Len(toR') <= SockBuf
  <2>1. CASE toR' = toR
    BY <2>1 DEF BufT
  <2>2. CASE toR' = <<>>
    BY <2>2, EmptyBuffer, Numbers
  <2>3. QED
    BY <2>1, <2>2
<1>2. toS' \in Seq(SMsg) /\ Len(toS') <= SockBuf
  <2>1. CASE toS' = toS
    BY <2>1 DEF BufT
  <2>2. CASE toS' = <<>>
    BY <2>2, EmptyBuffer, Numbers
  <2>3. QED
    BY <2>1, <2>2
<1>3. QED
  BY <1>1, <1>2 DEF BufT

LEMMA SentToR ==
  ASSUME BufT, NEW m \in RMsg, SendToR(m)
  PROVE  /\ toR' \in Seq(RMsg) /\ Len(toR') <= SockBuf
         /\ Elems(toR') \subseteq Elems(toR) \union {m}
BY ElemsInto DEF SendToR, BufT

LEMMA SentToS ==
  ASSUME BufT, NEW m \in SMsg, SendToS(m)
  PROVE  /\ toS' \in Seq(SMsg) /\ Len(toS') <= SockBuf
         /\ Elems(toS') \subseteq Elems(toS) \union {m}
BY ElemsInto DEF SendToS, BufT

\* What is sent has the right form.
LEMMA PacketSent ==
  ASSUME SndT, sPc = "send"
  PROVE  (IF sBase = Chunks THEN Eof ELSE Pkt(seq, Pkts, NextChunk)) \in RMsg
<1>1. CASE sBase = Chunks
  BY <1>1, RKinds
<1>2. CASE sBase # Chunks
  <2>1. seq \in 0 .. Chunks /\ Pkts \in 0 .. Huge /\ NextChunk \in Int
    BY <1>2, Numbers, PktsRange DEF SndT, NextChunk
  <2>2. QED
    BY <1>2, <2>1 DEF RMsg
<1>3. QED
  BY <1>1, <1>2

-----------------------------------------------------------------------------
(* Types.                                                                  *)

LEMMA InitTInv == Init => TInv
<1> SUFFICES ASSUME Init PROVE TInv
  OBVIOUS
<1>1. PICK n \in Partials : file = [i \in 0 .. n - 1 |-> i]
  BY DEF Init
<1>2. n \in Nat /\ DOMAIN file = 0 .. n - 1 /\ IsFiniteSet(DOMAIN file)
  BY <1>1, SizesAssumption, FS_Interval
<1>3. IsFiniteSet(got)
  BY FS_EmptySet DEF Init
<1>4. EnvT
  BY Numbers DEF Init, EnvT
<1>5. BufT
  BY Numbers, EmptyBuffer DEF Init, BufT
<1>6. SndT
  <2>1. Pkts \in Nat /\ 0 \in 0 .. Pkts
    BY Numbers DEF Init, Pkts
  <2>2. QED
    BY <2>1, Numbers DEF Init, SndT
<1>7. RetriesT
  BY Numbers DEF Init, RetriesT
<1>8. RcvT
  BY <1>3, Numbers DEF Init, RcvT
<1>9. FileT
  BY <1>2 DEF FileT
<1>10. QED
  BY <1>4, <1>5, <1>6, <1>7, <1>8, <1>9 DEF TInv

\* A step that leaves one side alone.
LEMMA SenderAlone == ASSUME SndT, RetriesT, UNCHANGED senderVars PROVE SndT' /\ RetriesT'
BY DEF SndT, RetriesT, senderVars, Pkts

LEMMA ReceiverAlone == ASSUME RcvT, FileT, UNCHANGED receiverVars PROVE RcvT' /\ FileT'
BY DEF RcvT, FileT, receiverVars

LEMMA EnvStep == ASSUME TInv, Next PROVE EnvT'
<1> USE Numbers DEF EnvT, conf
<1>1. EnvT
  BY DEF TInv
<1>2. CASE SenderStep
  BY <1>1, <1>2 DEF SenderStep, SendMeta, GetResponse, NoResponse, SendPacket, GetAck, NoMoreAcks,
                    SendEof
<1>3. CASE ReceiverStep
  BY <1>1, <1>3 DEF ReceiverStep, RecvMeta, Accepted, SkipExisting, AlreadyComplete, Respond,
                    RecvPacket, RecvMetaAgain, RecvEof
<1>4. CASE FaultStep
  BY <1>1, <1>4 DEF FaultStep, Fault, Lose, Delay, CannotOpenSource, NoMeta, UserRejects,
                    CannotCreate, OutOfMemory
<1>5. QED
  BY <1>2, <1>3, <1>4 DEF Next

\* What the sender's steps do to its own variables.
LEMMA SenderSndT == ASSUME TInv, SenderStep \/ CannotOpenSource PROVE SndT'
<1>0. SndT /\ BufT
  BY DEF TInv
<1>1. sBase' = sBase => Pkts' = Pkts
  BY DEF Pkts
<1>2. Pkts \in 1 .. Huge
  BY <1>0, PktsRange
<1> USE <1>0, <1>1, <1>2, Numbers
<1>3. CASE SendMeta
  BY <1>3 DEF SendMeta, SndT
<1>4. CASE GetResponse
  <2>1. Head(toS) \in SMsg
    BY <1>4, ElemsTail DEF GetResponse, BufT
  <2>2. CASE Head(toS).kind = "resp"
    <3>1. sBase' \in 0 .. Chunks /\ sPc' = "send" /\ sPc = "resp"
      BY <1>4, <2>1, <2>2, SKinds DEF GetResponse
    <3>2. Pkts' \in 1 .. Huge
      BY <3>1, PktsAfter
    <3>3. UNCHANGED <<copies, seq, acked, retries, fpos, sEv>>
      BY <1>4 DEF GetResponse
    <3>4. QED
      BY <3>1, <3>2, <3>3 DEF SndT
  <2>3. CASE Head(toS).kind # "resp"
    BY <1>4, <2>3 DEF GetResponse, SndT
  <2>4. QED
    BY <2>2, <2>3
<1>5. CASE NoResponse
  <2>1. Pkts' \in 1 .. Huge
    BY <1>5 DEF NoResponse, Pkts
  <2>2. QED
    BY <1>5, <2>1 DEF NoResponse, SndT
<1>6. CASE SendPacket
  BY <1>6 DEF SendPacket, SndT
<1>7. CASE GetAck
  <2>1. 0 .. Pkts - 1 \subseteq 0 .. Chunks /\ acked \subseteq 0 .. Chunks
    BY DEF SndT
  <2>2. acked' = acked \/ \E s \in 0 .. Pkts - 1 : acked' = acked \union {s}
    BY <1>7 DEF GetAck
  <2>3. acked' \subseteq 0 .. Chunks
    BY <2>1, <2>2
  <2>4. QED
    BY <1>7, <2>3 DEF GetAck, SndT
<1>8. CASE NoMoreAcks
  <2>1. /\ seq' \in 0 .. Pkts /\ copies = 0
        /\ sPc' = "eof" \/ (seq' < Pkts /\ sPc' \in {"idle", "send"})
        /\ sEv' \in {"none", "done", "error"}
    BY <1>8 DEF NoMoreAcks, SenderReturns, SndT
  <2>2. QED
    BY <1>8, <2>1 DEF NoMoreAcks, SndT
<1>9. CASE SendEof
  BY <1>9 DEF SendEof, SenderReturns, SndT
<1>10. CASE CannotOpenSource
  BY <1>10 DEF CannotOpenSource, SenderReturns, SndT
<1>11. QED
  BY <1>3, <1>4, <1>5, <1>6, <1>7, <1>8, <1>9, <1>10 DEF SenderStep

LEMMA SenderRetriesT == ASSUME TInv, SenderStep \/ CannotOpenSource PROVE RetriesT'
<1>0. SndT /\ RetriesT
  BY DEF TInv
<1> USE <1>0, Numbers
<1>1. CASE NoMoreAcks
  <2>1. CASE UNCHANGED retries
    BY <1>1, <2>1 DEF NoMoreAcks, RetriesT
  <2>2. CASE ~UNCHANGED retries
    <3>1. PICK next \in 0 .. Pkts :
            /\ next < Pkts
            /\ retries' = [retries EXCEPT ![next] = @ + 1]
            /\ IF retries[next] + 1 > MaxRetries THEN sPc' = "idle" ELSE sPc' = "send"
      BY <1>1, <2>2 DEF NoMoreAcks, SenderReturns
    <3>2. next \in 0 .. Chunks /\ sPc # "idle"
      BY <1>1, <3>1, PktsRange DEF NoMoreAcks
    <3>3. QED
      BY <3>1, <3>2 DEF RetriesT
  <2>3. QED
    BY <2>1, <2>2
<1>2. CASE ~NoMoreAcks
  <2>1. UNCHANGED retries /\ sPc # "idle"
    BY <1>2 DEF SenderStep, SendMeta, GetResponse, NoResponse, SendPacket, GetAck, SendEof,
                CannotOpenSource
  <2>2. QED
    BY <2>1 DEF RetriesT
<1>3. QED
  BY <1>1, <1>2

LEMMA SenderBufT == ASSUME TInv, SenderStep \/ CannotOpenSource PROVE BufT'
<1>0. SndT /\ BufT
  BY DEF TInv
<1> USE <1>0
<1>1. CASE SendMeta
  BY <1>1, SentToR, RKinds DEF SendMeta, BufT
<1>2. CASE GetResponse \/ GetAck
  BY <1>2, ElemsTail DEF GetResponse, GetAck, BufT
<1>3. CASE NoResponse
  BY <1>3 DEF NoResponse, BufT
<1>4. CASE SendPacket
  BY <1>4, PacketSent, SentToR DEF SendPacket, BufT
<1>5. CASE NoMoreAcks
  <2>1. UNCHANGED toR /\ (UNCHANGED toS \/ toS' = <<>>)
    BY <1>5 DEF NoMoreAcks, SenderReturns
  <2>2. QED
    BY <2>1, Emptied
<1>6. CASE SendEof
  <2>1. SendToR(Eof) /\ (UNCHANGED toS \/ toS' = <<>>)
    BY <1>6 DEF SendEof, SenderReturns
  <2>2. toR' \in Seq(RMsg) /\ Len(toR') <= SockBuf
    BY <2>1, SentToR, RKinds
  <2>3. toS' \in Seq(SMsg) /\ Len(toS') <= SockBuf
    <3>1. CASE UNCHANGED toS
      BY <3>1 DEF BufT
    <3>2. CASE toS' = <<>>
      BY <3>2, EmptyBuffer, Numbers
    <3>3. QED
      BY <2>1, <3>1, <3>2
  <2>4. QED
    BY <2>2, <2>3 DEF BufT
<1>7. CASE CannotOpenSource
  <2>1. UNCHANGED toR /\ toS' = <<>>
    BY <1>7 DEF CannotOpenSource, SenderReturns
  <2>2. QED
    BY <2>1, Emptied
<1>8. QED
  BY <1>1, <1>2, <1>3, <1>4, <1>5, <1>6, <1>7 DEF SenderStep

LEMMA SenderTInv == ASSUME TInv, SenderStep \/ CannotOpenSource PROVE TInv'
<1>1. UNCHANGED receiverVars
  BY DEF SenderStep, SendMeta, GetResponse, NoResponse, SendPacket, GetAck, NoMoreAcks, SendEof,
         CannotOpenSource
<1>2. EnvT'
  BY EnvStep DEF Next, FaultStep
<1>3. QED
  BY <1>1, <1>2, SenderSndT, SenderRetriesT, SenderBufT, ReceiverAlone DEF TInv

\* A packet stored: at most one more position and one more mark.
LEMMA WrittenIs ==
  ASSUME NEW pos, NEW c
  PROVE  \E at \in {pos, Local} :
           /\ DOMAIN Written(pos, c) = DOMAIN file \union {at}
           /\ Written(pos, c)[at] = c
           /\ \A i \in DOMAIN file \ {at} : Written(pos, c)[i] = file[i]
           /\ ~(rBase > 0) => at = pos
<1> DEFINE at == IF rBase > 0 THEN Local ELSE pos
<1>1. Written(pos, c) = [i \in DOMAIN file \union {at} |-> IF i = at THEN c ELSE file[i]]
  BY DEF Written
<1>2. at \in {pos, Local} /\ (~(rBase > 0) => at = pos)
  OBVIOUS
<1> HIDE DEF at
<1>3. QED
  BY <1>1, <1>2

\* Into a new file a packet goes where it says.
LEMMA WrittenAt ==
  ASSUME NEW pos, NEW c, ~(rBase > 0)
  PROVE  /\ DOMAIN Written(pos, c) = DOMAIN file \union {pos}
         /\ Written(pos, c)[pos] = c
         /\ \A i \in DOMAIN file \ {pos} : Written(pos, c)[i] = file[i]
<1>1. Written(pos, c) = [i \in DOMAIN file \union {pos} |-> IF i = pos THEN c ELSE file[i]]
  BY DEF Written
<1>2. QED
  BY <1>1

LEMMA LocalIsNat == ASSUME FileT PROVE Local \in Nat
BY FS_CardinalityType DEF FileT, Local

LEMMA StoredTypes ==
  ASSUME RcvT, FileT, NEW s \in {Far} \union 0 .. Chunks, NEW pos \in {Far} \union Nat, NEW c,
         Store(s, pos, c)
  PROVE  /\ got' \subseteq {Far} \union 0 .. Chunks /\ IsFiniteSet(got')
         /\ received' \in Nat /\ FileT'
<1>1. CASE s \in got
  <2>1. UNCHANGED <<got, received, file>>
    BY <1>1 DEF Store
  <2>2. QED
    BY <2>1 DEF RcvT, FileT
<1>2. CASE s \notin got
  <2>1. got' = got \union {s} /\ received' = received + Weight(s) /\ file' = Written(pos, c)
    BY <1>2 DEF Store
  <2>2. IsFiniteSet(got') /\ got' \subseteq {Far} \union 0 .. Chunks
    BY <2>1, FS_AddElement DEF RcvT
  <2>3. received' \in Nat
    BY <2>1, Numbers DEF RcvT, Weight
  <2>4. PICK q \in {pos, Local} : DOMAIN file' = DOMAIN file \union {q}
    BY <2>1, WrittenIs
  <2>5. IsFiniteSet(DOMAIN file') /\ DOMAIN file' \subseteq {Far} \union Nat
    BY <2>4, FS_AddElement, LocalIsNat DEF FileT
  <2>6. QED
    BY <2>2, <2>3, <2>5 DEF FileT
<1>3. QED
  BY <1>1, <1>2

\* What the receiver finds at the front of its buffer.
LEMMA HeadOfToR ==
  ASSUME BufT, toR # <<>>
  PROVE  /\ Head(toR) \in RMsg /\ Head(toR) \in Elems(toR)
         /\ Tail(toR) \in Seq(RMsg) /\ Len(Tail(toR)) <= SockBuf
         /\ Elems(Tail(toR)) \subseteq Elems(toR)
         /\ Head(toR).kind = "pkt" =>
              Head(toR).seq \in 0 .. Chunks /\ Head(toR).total \in 0 .. Huge
BY ElemsTail, RKinds DEF BufT

LEMMA ReceiverRcvT ==
  ASSUME TInv, ReceiverStep \/ NoMeta \/ UserRejects \/ CannotCreate \/ OutOfMemory
  PROVE  RcvT' /\ FileT'
<1>0. RcvT /\ FileT /\ BufT
  BY DEF TInv
<1> USE <1>0, Numbers
<1>1. CASE RecvMeta
  BY <1>1 DEF RecvMeta, RcvT, FileT
<1>2. CASE Accepted
  BY <1>2, LocalIsNat DEF Accepted, RcvT, FileT
<1>3. CASE AlreadyComplete
  BY <1>3 DEF AlreadyComplete, RcvT, FileT
<1>4. CASE Respond
  <2>1. /\ rPc \in {"respond", "complete"} /\ resps' = resps + 1
        /\ \/ resps + 1 < MetaCopies /\ UNCHANGED <<rPc, rEv>>
           \/ rPc' = "idle" /\ rEv' = "done"
           \/ rPc' = "recv" /\ UNCHANGED rEv
        /\ UNCHANGED <<rBase, rPkts, got, received, file>>
    BY <1>4 DEF Respond, ReceiverReturns
  <2>2. resps + 1 \in 0 .. MetaCopies
    BY <2>1 DEF RcvT
  <2>3. QED
    BY <2>1, <2>2 DEF RcvT, FileT
<1>5. CASE RecvPacket
  <2>1. /\ rPkts' \in 0 .. Huge
        /\ UNCHANGED <<got, received, file>> \/ Store(Head(toR).seq, Head(toR).seq, Head(toR).data)
        /\ rPc = "recv" /\ UNCHANGED <<rPc, resps, rBase, rEv>>
    BY <1>5, HeadOfToR DEF RecvPacket, RcvT
  <2>2. Head(toR).seq \in 0 .. Chunks
    BY <1>5, HeadOfToR DEF RecvPacket
  <2>3. /\ got' \subseteq {Far} \union 0 .. Chunks /\ IsFiniteSet(got')
        /\ received' \in Nat /\ FileT'
    <3>1. CASE UNCHANGED <<got, received, file>>
      BY <3>1 DEF RcvT, FileT
    <3>2. CASE Store(Head(toR).seq, Head(toR).seq, Head(toR).data)
      BY <2>2, <3>2, StoredTypes
    <3>3. QED
      BY <2>1, <3>1, <3>2
  <2>4. QED
    BY <2>1, <2>3 DEF RcvT
<1>6. CASE RecvMetaAgain
  <2>1. /\ rPkts' \in 0 .. Huge
        /\ UNCHANGED <<got, received, file>> \/ Store(Far, Far, Zeros)
        /\ rPc = "recv" /\ UNCHANGED <<rPc, resps, rBase, rEv>>
    BY <1>6 DEF RecvMetaAgain, RcvT
  <2>2. /\ got' \subseteq {Far} \union 0 .. Chunks /\ IsFiniteSet(got')
        /\ received' \in Nat /\ FileT'
    <3>1. CASE UNCHANGED <<got, received, file>>
      BY <3>1 DEF RcvT, FileT
    <3>2. CASE Store(Far, Far, Zeros)
      BY <3>2, StoredTypes
    <3>3. QED
      BY <2>1, <3>1, <3>2
  <2>3. QED
    BY <2>1, <2>2 DEF RcvT
<1>7. CASE SkipExisting \/ RecvEof \/ NoMeta \/ UserRejects \/ CannotCreate \/ OutOfMemory
  <2>1. /\ rPc' = "idle" /\ rEv' \in {"done", "error"}
        /\ UNCHANGED <<resps, rBase, rPkts, got, received, file>>
    BY <1>7 DEF SkipExisting, RecvEof, NoMeta, UserRejects, CannotCreate, OutOfMemory,
                ReceiverReturns
  <2>2. QED
    BY <2>1 DEF RcvT, FileT
<1>8. QED
  BY <1>1, <1>2, <1>3, <1>4, <1>5, <1>6, <1>7 DEF ReceiverStep

LEMMA ReceiverBufT ==
  ASSUME TInv, ReceiverStep \/ NoMeta \/ UserRejects \/ CannotCreate \/ OutOfMemory
  PROVE  BufT'
<1>0. BufT /\ RcvT
  BY DEF TInv
<1> USE <1>0
<1>1. CASE RecvMeta
  BY <1>1, HeadOfToR DEF RecvMeta, BufT
<1>2. CASE Accepted \/ AlreadyComplete
  BY <1>2, Emptied DEF Accepted, AlreadyComplete
<1>3. CASE Respond
  <2>1. \E pad \in {0, Huge} : SendToS(Resp(rBase, pad))
    BY <1>3 DEF Respond
  <2>2. \A pad \in {0, Huge} : Resp(rBase, pad) \in SMsg
    BY DEF RcvT, SMsg
  <2>3. toS' \in Seq(SMsg) /\ Len(toS') <= SockBuf
    BY <2>1, <2>2, SentToS
  <2>4. toR' = toR \/ toR' = <<>>
    BY <1>3 DEF Respond, ReceiverReturns
  <2>5. toR' \in Seq(RMsg) /\ Len(toR') <= SockBuf
    <3>1. CASE toR' = toR
      BY <3>1 DEF BufT
    <3>2. CASE toR' = <<>>
      BY <3>2, EmptyBuffer, Numbers
    <3>3. QED
      BY <2>4, <3>1, <3>2
  <2>6. QED
    BY <2>3, <2>5 DEF BufT
<1>4. CASE RecvPacket \/ RecvMetaAgain
  <2>1. toR' = Tail(toR) /\ toR # <<>> /\ \E s \in 0 .. Huge : SendToS(Ack(s))
    BY <1>4, HeadOfToR, Numbers DEF RecvPacket, RecvMetaAgain
  <2>2. \A s \in 0 .. Huge : Ack(s) \in SMsg
    BY DEF SMsg
  <2>3. toS' \in Seq(SMsg) /\ Len(toS') <= SockBuf
    BY <2>1, <2>2, SentToS
  <2>4. QED
    BY <2>1, <2>3, HeadOfToR DEF BufT
<1>5. CASE SkipExisting \/ RecvEof \/ NoMeta \/ UserRejects \/ CannotCreate \/ OutOfMemory
  BY <1>5, Emptied DEF SkipExisting, RecvEof, NoMeta, UserRejects, CannotCreate, OutOfMemory,
                ReceiverReturns
<1>6. QED
  BY <1>1, <1>2, <1>3, <1>4, <1>5 DEF ReceiverStep

LEMMA ReceiverTInv ==
  ASSUME TInv, ReceiverStep \/ NoMeta \/ UserRejects \/ CannotCreate \/ OutOfMemory
  PROVE  TInv'
<1>1. UNCHANGED senderVars
  BY DEF ReceiverStep, RecvMeta, Accepted, SkipExisting, AlreadyComplete, Respond, RecvPacket,
         RecvMetaAgain, RecvEof, NoMeta, UserRejects, CannotCreate, OutOfMemory
<1>2. EnvT'
  BY EnvStep DEF Next, FaultStep
<1>3. QED
  BY <1>1, <1>2, ReceiverRcvT, ReceiverBufT, SenderAlone DEF TInv

\* The network only takes datagrams away, or changes their order.
LEMMA NetworkBuffers ==
  ASSUME BufT, Lose \/ Delay
  PROVE  BufT' /\ Elems(toR') \subseteq Elems(toR) /\ Elems(toS') \subseteq Elems(toS)
<1>1. CASE Delay
  BY <1>1, ElemsDelay DEF Delay, BufT
<1>2. CASE Lose
  <2>1. CASE \E i \in DOMAIN toR : toR' = Without(toR, i) /\ UNCHANGED toS
    BY <2>1, ElemsWithout DEF BufT
  <2>2. CASE \E i \in DOMAIN toS : toS' = Without(toS, i) /\ UNCHANGED toR
    BY <2>2, ElemsWithout DEF BufT
  <2>3. QED
    BY <1>2, <2>1, <2>2 DEF Lose
<1>3. QED
  BY <1>1, <1>2

LEMMA NetworkTInv == ASSUME TInv, Lose \/ Delay PROVE TInv'
<1>1. UNCHANGED <<senderVars, receiverVars>>
  BY DEF Lose, Delay
<1>2. EnvT'
  BY EnvStep DEF Next, FaultStep
<1>3. QED
  BY <1>1, <1>2, NetworkBuffers, SenderAlone, ReceiverAlone DEF TInv

LEMMA StepTInv == TInv /\ [Next]_vars => TInv'
<1> SUFFICES ASSUME TInv, [Next]_vars PROVE TInv'
  OBVIOUS
<1>1. CASE Next
  BY <1>1, SenderTInv, ReceiverTInv, NetworkTInv DEF Next, FaultStep
<1>2. CASE UNCHANGED vars
  <2>1. UNCHANGED <<conf, senderVars, receiverVars, toR, toS, faults>>
    BY <1>2 DEF vars
  <2>2. EnvT' /\ BufT'
    BY <2>1 DEF TInv, EnvT, BufT, conf
  <2>3. QED
    BY <2>1, <2>2, SenderAlone, ReceiverAlone DEF TInv
<1>3. QED
  BY <1>1, <1>2

LEMMA TInvType == TInv => TypeOK
BY DEF TInv, EnvT, BufT, SndT, RetriesT, RcvT, FileT, TypeOK

\* Every variable keeps its type and every buffer its limit, whatever is sent, lost, delayed or
\* repeated (656-946).
THEOREM TypeCorrect == Spec => []TypeOK
<1>1. Spec => []TInv
  BY InitTInv, StepTInv, PTL DEF Spec
<1>2. QED
  BY <1>1, TInvType, PTL

-----------------------------------------------------------------------------
(* Every packet is counted once.                                           *)

\* What a packet stored does to the marks and to the count.
LEMMA StoredCount ==
  ASSUME RcvT, NEW s \in {Far} \union 0 .. Chunks, NEW pos, NEW c, Store(s, pos, c),
         received = rBase + Cardinality(got \ {Far}) + (IF Far \in got THEN MetaLen ELSE 0)
  PROVE  received' = rBase + Cardinality(got' \ {Far}) + (IF Far \in got' THEN MetaLen ELSE 0)
<1>1. IsFiniteSet(got \ {Far}) /\ Cardinality(got \ {Far}) \in Nat /\ rBase \in Nat
  BY FS_RemoveElement, FS_Difference, FS_CardinalityType, Numbers DEF RcvT
<1>2. CASE s \in got
  BY <1>2 DEF Store
<1>3. CASE s \notin got /\ s = Far
  <2>1. got' = got \union {Far} /\ received' = received + MetaLen
    BY <1>3 DEF Store, Weight
  <2>2. got' \ {Far} = got \ {Far} /\ Far \in got' /\ Far \notin got
    BY <1>3, <2>1
  <2>3. QED
    BY <1>1, <2>1, <2>2, Numbers
<1>4. CASE s \notin got /\ s # Far
  <2>1. got' = got \union {s} /\ received' = received + 1
    BY <1>4 DEF Store, Weight
  <2>2. got' \ {Far} = (got \ {Far}) \union {s} /\ s \notin got \ {Far}
        /\ (Far \in got' <=> Far \in got)
    BY <1>4, <2>1
  <2>3. Cardinality(got' \ {Far}) = Cardinality(got \ {Far}) + 1
    BY <1>1, <2>2, FS_AddElement
  <2>4. QED
    BY <1>1, <2>1, <2>2, <2>3, Numbers
<1>5. QED
  BY <1>2, <1>3, <1>4

LEMMA StepCounted ==
  ASSUME TInv, EachPacketCountedOnce, [Next]_vars
  PROVE  EachPacketCountedOnce'
<1> SUFFICES ASSUME rPc' = "recv"
             PROVE  received' = rBase' + Cardinality(got' \ {Far})
                                  + (IF Far \in got' THEN MetaLen ELSE 0)
  BY DEF EachPacketCountedOnce
<1>0. RcvT /\ BufT
  BY DEF TInv
<1>1. CASE UNCHANGED receiverVars
  BY <1>1 DEF receiverVars, EachPacketCountedOnce
<1>2. CASE RecvPacket
  <2>1. /\ UNCHANGED <<got, received, file>> \/ Store(Head(toR).seq, Head(toR).seq, Head(toR).data)
        /\ rPc = "recv" /\ rBase' = rBase /\ Head(toR).seq \in 0 .. Chunks
    BY <1>0, <1>2, HeadOfToR DEF RecvPacket
  <2>2. CASE UNCHANGED <<got, received, file>>
    BY <2>1, <2>2 DEF EachPacketCountedOnce
  <2>3. CASE Store(Head(toR).seq, Head(toR).seq, Head(toR).data)
    BY <1>0, <2>1, <2>3, StoredCount DEF EachPacketCountedOnce
  <2>4. QED
    BY <2>1, <2>2, <2>3
<1>3. CASE RecvMetaAgain
  <2>1. /\ UNCHANGED <<got, received, file>> \/ Store(Far, Far, Zeros)
        /\ rPc = "recv" /\ rBase' = rBase
    BY <1>3 DEF RecvMetaAgain
  <2>2. CASE UNCHANGED <<got, received, file>>
    BY <2>1, <2>2 DEF EachPacketCountedOnce
  <2>3. CASE Store(Far, Far, Zeros)
    BY <1>0, <2>1, <2>3, StoredCount DEF EachPacketCountedOnce
  <2>4. QED
    BY <2>1, <2>2, <2>3
<1>4. CASE Respond
  <2>1. rPc = "respond" /\ UNCHANGED <<rBase, received, got>>
    BY <1>4 DEF Respond, ReceiverReturns
  <2>2. received = rBase /\ got = {} /\ rBase \in Nat
    BY <1>0, <2>1, Numbers DEF RcvT
  <2>3. got' \ {Far} = {} /\ Cardinality(got' \ {Far}) = 0
    BY <2>1, <2>2, FS_EmptySet
  <2>4. QED
    BY <2>1, <2>2, <2>3
<1>5. QED
  <2>1. CASE SenderStep \/ CannotOpenSource \/ Lose \/ Delay \/ UNCHANGED vars
    <3>1. UNCHANGED receiverVars
      BY <2>1 DEF SenderStep, SendMeta, GetResponse, NoResponse, SendPacket, GetAck, NoMoreAcks,
                  SendEof, CannotOpenSource, Lose, Delay, vars
    <3>2. QED
      BY <1>1, <3>1
  <2>2. CASE \/ RecvMeta \/ Accepted \/ SkipExisting \/ AlreadyComplete \/ RecvEof
             \/ NoMeta \/ UserRejects \/ CannotCreate \/ OutOfMemory
    BY <2>2 DEF RecvMeta, Accepted, SkipExisting, AlreadyComplete, RecvEof, NoMeta, UserRejects,
                CannotCreate, OutOfMemory, ReceiverReturns
  <2>3. QED
    BY <1>2, <1>3, <1>4, <2>1, <2>2 DEF Next, SenderStep, ReceiverStep, FaultStep

\* However often packets are sent, repeated and acknowledged, the receiver counts each of them
\* once (922-929).
THEOREM CountedOnce == Spec => []EachPacketCountedOnce
<1>1. Init => EachPacketCountedOnce
  BY DEF Init, EachPacketCountedOnce
<1>2. TInv /\ EachPacketCountedOnce /\ [Next]_vars => TInv' /\ EachPacketCountedOnce'
  BY StepTInv, StepCounted
<1>3. QED
  BY <1>1, <1>2, InitTInv, PTL DEF Spec

-----------------------------------------------------------------------------
(* What is on its way was sent.                                            *)

\* Packets are the sender's, numbered up to the present one and with its total; acks are of
\* packets sent, or of a meta record.
PacketsAreSent ==
  \A p \in Elems(toR) : p.kind = "pkt" =>
    sPc \notin {"meta", "resp"} /\ p.seq < Pkts /\ p.seq <= seq /\ p.total = Pkts

TotalIsSent == rPkts \in {0, Huge} \/ (rPkts = Pkts /\ sPc \notin {"meta", "resp"})

AcksAreOfSent == \A a \in Elems(toS) : a.kind = "ack" => a.seq <= seq \/ a.seq = Huge

AckedAreSent == \A s \in acked : s <= seq

SentInv == PacketsAreSent /\ TotalIsSent /\ AcksAreOfSent /\ AckedAreSent

\* The sender's steps seen from the two buffers and from its numbers.
LEMMA SenderMoves ==
  ASSUME TInv, SenderStep \/ CannotOpenSource
  PROVE  /\ seq <= seq'
         /\ sPc \notin {"meta", "resp"} => Pkts' = Pkts /\ sPc' \notin {"meta", "resp"}
         /\ \A m \in Elems(toR') : m.kind = "pkt" =>
              \/ m \in Elems(toR)
              \/ /\ SendPacket /\ sBase # Chunks
                 /\ m = Pkt(seq, Pkts, NextChunk) /\ seq < Pkts
         /\ Elems(toS') \subseteq Elems(toS)
<1>0. SndT /\ BufT /\ Pkts \in 1 .. Huge
  BY PktsRange DEF TInv
<1>1. seq <= seq'
  <2>1. CASE NoMoreAcks
    BY <1>0, <2>1, Numbers DEF NoMoreAcks, NextSeq, SndT
  <2>2. CASE ~NoMoreAcks
    <3>1. UNCHANGED seq
      BY <2>2 DEF SenderStep, SendMeta, GetResponse, NoResponse, SendPacket, GetAck, SendEof,
                  CannotOpenSource
    <3>2. QED
      BY <1>0, <3>1, Numbers DEF SndT
  <2>3. QED
    BY <2>1, <2>2
<1>2. ASSUME sPc \notin {"meta", "resp"}
      PROVE  Pkts' = Pkts /\ sPc' \notin {"meta", "resp"}
  <2>1. UNCHANGED sBase /\ sPc' \notin {"meta", "resp"}
    BY <1>2 DEF SenderStep, SendMeta, GetResponse, NoResponse, SendPacket, GetAck, NoMoreAcks,
                SendEof, CannotOpenSource, SenderReturns
  <2>2. QED
    BY <2>1 DEF Pkts
<1>3. ASSUME NEW m \in Elems(toR'), m.kind = "pkt"
      PROVE  \/ m \in Elems(toR)
             \/ SendPacket /\ sBase # Chunks /\ m = Pkt(seq, Pkts, NextChunk) /\ seq < Pkts
  <2>1. CASE SendMeta \/ SendEof
    <3>1. Elems(toR') \subseteq Elems(toR) \union {Meta, Eof}
      BY <1>0, <2>1, SentToR, RKinds DEF SendMeta, SendEof
    <3>2. QED
      BY <1>3, <3>1, RKinds
  <2>2. CASE SendPacket
    <3> DEFINE sent == IF sBase = Chunks THEN Eof ELSE Pkt(seq, Pkts, NextChunk)
    <3>1. sent \in RMsg /\ SendToR(sent) /\ seq < Pkts
      BY <1>0, <2>2, PacketSent DEF SendPacket
    <3>2. m \in Elems(toR) \union {sent}
      BY <1>0, <1>3, <3>1, SentToR
    <3>3. CASE sBase = Chunks
      BY <1>3, <3>2, <3>3, RKinds
    <3>4. CASE sBase # Chunks
      BY <2>2, <3>1, <3>2, <3>4
    <3>5. QED
      BY <3>3, <3>4
  <2>3. CASE ~(SendMeta \/ SendEof \/ SendPacket)
    <3>1. UNCHANGED toR
      BY <2>3 DEF SenderStep, GetResponse, NoResponse, GetAck, NoMoreAcks, CannotOpenSource
    <3>2. QED
      BY <1>3, <3>1
  <2>4. QED
    BY <2>1, <2>2, <2>3
<1>4. Elems(toS') \subseteq Elems(toS)
  <2>1. CASE GetResponse \/ GetAck
    BY <1>0, <2>1, ElemsTail DEF GetResponse, GetAck, BufT
  <2>2. CASE ~(GetResponse \/ GetAck)
    <3>1. UNCHANGED toS \/ toS' = <<>>
      BY <2>2 DEF SenderStep, SendMeta, NoResponse, SendPacket, NoMoreAcks, SendEof,
                  CannotOpenSource, SenderReturns
    <3>2. QED
      BY <3>1, EmptyBuffer
  <2>3. QED
    BY <2>1, <2>2
<1>5. QED
  BY <1>1, <1>2, <1>3, <1>4

LEMMA AckedMoves ==
  ASSUME TInv, SenderStep \/ CannotOpenSource
  PROVE  \/ acked' = acked
         \/ \E a \in Elems(toS) : /\ acked' = acked \union {AckedSeq(a)}
                                  /\ AckedSeq(a) \in 0 .. Pkts - 1
<1>1. CASE GetAck
  <2>1. Head(toS) \in Elems(toS)
    BY <1>1, ElemsTail DEF GetAck, TInv, BufT
  <2>2. QED
    BY <1>1, <2>1 DEF GetAck
<1>2. CASE ~GetAck
  BY <1>2 DEF SenderStep, SendMeta, GetResponse, NoResponse, SendPacket, NoMoreAcks, SendEof,
              CannotOpenSource
<1>3. QED
  BY <1>1, <1>2

\* What AckedSeq makes of what is on its way.
LEMMA AckedSeqOf ==
  ASSUME TInv, NEW a \in Elems(toS), AckedSeq(a) \in 0 .. Pkts - 1
  PROVE  (a.kind = "ack" /\ AckedSeq(a) = a.seq /\ a.seq # Huge) \/ AckedSeq(a) = 0
<1>1. a \in SMsg
  BY DEF TInv, BufT, Elems
<1>2. Huge \notin 0 .. Pkts - 1
  BY PktsRange, Numbers DEF TInv
<1>3. QED
  BY <1>1, <1>2, SKinds DEF AckedSeq

\* The receiver's steps seen from the two buffers.
LEMMA ReceiverMoves ==
  ASSUME TInv, ReceiverStep \/ NoMeta \/ UserRejects \/ CannotCreate \/ OutOfMemory
  PROVE  /\ UNCHANGED senderVars
         /\ Elems(toR') \subseteq Elems(toR)
         /\ \/ rPkts' \in {rPkts, Huge}
            \/ \E p \in Elems(toR) : p.kind = "pkt" /\ rPkts' = p.total
         /\ \A a \in Elems(toS') : a.kind = "ack" =>
              \/ a \in Elems(toS)
              \/ a.seq = Huge /\ rPc = "recv"
              \/ RecvPacket /\ a.seq = Head(toR).seq
<1>0. BufT /\ RcvT
  BY DEF TInv
<1> USE <1>0
<1>1. UNCHANGED senderVars
  BY DEF ReceiverStep, RecvMeta, Accepted, SkipExisting, AlreadyComplete, Respond, RecvPacket,
         RecvMetaAgain, RecvEof, NoMeta, UserRejects, CannotCreate, OutOfMemory
<1>2. Elems(toR') \subseteq Elems(toR)
  <2>1. toR' \in {toR, <<>>} \/ (toR # <<>> /\ toR' = Tail(toR))
    BY DEF ReceiverStep, RecvMeta, Accepted, SkipExisting, AlreadyComplete, Respond, RecvPacket,
           RecvMetaAgain, RecvEof, NoMeta, UserRejects, CannotCreate, OutOfMemory, ReceiverReturns
  <2>2. QED
    BY <2>1, HeadOfToR, EmptyBuffer
<1>3. CASE RecvPacket
  <2>1. SendToS(Ack(Head(toR).seq)) /\ Head(toR) \in Elems(toR) /\ Head(toR).kind = "pkt"
        /\ Head(toR).seq \in 0 .. Huge /\ rPkts' \in {rPkts, Head(toR).total}
    BY <1>3, HeadOfToR, Numbers DEF RecvPacket
  <2>2. Ack(Head(toR).seq) \in SMsg /\ Ack(Head(toR).seq).seq = Head(toR).seq
    BY <2>1 DEF SMsg, Ack
  <2>3. Elems(toS') \subseteq Elems(toS) \union {Ack(Head(toR).seq)}
    BY <2>1, <2>2, SentToS
  <2>4. QED
    BY <1>1, <1>2, <1>3, <2>1, <2>2, <2>3
<1>4. CASE RecvMetaAgain
  <2>1. SendToS(Ack(Huge)) /\ rPkts' \in {rPkts, Huge} /\ rPc = "recv"
    BY <1>4 DEF RecvMetaAgain
  <2>2. Ack(Huge) \in SMsg /\ Ack(Huge).seq = Huge
    BY Numbers DEF SMsg, Ack
  <2>3. Elems(toS') \subseteq Elems(toS) \union {Ack(Huge)}
    BY <2>1, <2>2, SentToS
  <2>4. QED
    BY <1>1, <1>2, <2>1, <2>2, <2>3
<1>5. CASE Respond
  <2>1. PICK pad \in {0, Huge} : SendToS(Resp(rBase, pad))
    BY <1>5 DEF Respond
  <2>2. Resp(rBase, pad) \in SMsg /\ Resp(rBase, pad).kind = "resp"
    BY DEF RcvT, SMsg, Resp
  <2>3. Elems(toS') \subseteq Elems(toS) \union {Resp(rBase, pad)}
    BY <2>1, <2>2, SentToS
  <2>4. UNCHANGED rPkts
    BY <1>5 DEF Respond
  <2>5. QED
    BY <1>1, <1>2, <2>2, <2>3, <2>4
<1>6. CASE ~(RecvPacket \/ RecvMetaAgain \/ Respond)
  <2>1. UNCHANGED <<toS, rPkts>>
    BY <1>6 DEF ReceiverStep, RecvMeta, Accepted, SkipExisting, AlreadyComplete, RecvEof, NoMeta,
                UserRejects, CannotCreate, OutOfMemory
  <2>2. QED
    BY <1>1, <1>2, <2>1
<1>7. QED
  BY <1>3, <1>4, <1>5, <1>6

LEMMA StepSent == ASSUME TInv, SentInv, [Next]_vars PROVE SentInv'
<1>0. /\ SndT /\ BufT /\ RcvT /\ Pkts \in 1 .. Huge
      /\ PacketsAreSent /\ TotalIsSent /\ AcksAreOfSent /\ AckedAreSent
  BY PktsRange DEF TInv, SentInv
<1> USE <1>0
<1>1. CASE SenderStep \/ CannotOpenSource
  <2>1. UNCHANGED rPkts
    BY <1>1 DEF SenderStep, SendMeta, GetResponse, NoResponse, SendPacket, GetAck, NoMoreAcks,
                SendEof, CannotOpenSource, receiverVars
  <2>2. PacketsAreSent'
    <3> SUFFICES ASSUME NEW p \in Elems(toR'), p.kind = "pkt"
                 PROVE  /\ sPc' \notin {"meta", "resp"}
                        /\ p.seq < Pkts' /\ p.seq <= seq' /\ p.total = Pkts'
      BY DEF PacketsAreSent
    <3>1. seq <= seq' /\ seq \in Nat /\ seq' \in Nat
      <4>1. SndT'
        BY <1>1, SenderSndT
      <4>2. Pkts' \in Nat
        BY <4>1, PktsAfter, Numbers DEF SndT
      <4>3. QED
        BY <1>1, <4>1, <4>2, SenderMoves, Numbers DEF SndT
    <3>2. CASE p \in Elems(toR)
      <4>1. sPc \notin {"meta", "resp"} /\ p.seq < Pkts /\ p.seq <= seq /\ p.total = Pkts
        BY <3>2 DEF PacketsAreSent
      <4>2. p.seq \in Nat
        BY <3>2, RKinds, Numbers DEF BufT, Elems
      <4>3. QED
        BY <1>1, <3>1, <4>1, <4>2, SenderMoves
    <3>3. CASE SendPacket /\ p = Pkt(seq, Pkts, NextChunk) /\ seq < Pkts
      <4>1. p.seq = seq /\ p.total = Pkts
        BY <3>3 DEF Pkt
      <4>2. sPc = "send" /\ UNCHANGED seq
        BY <3>3 DEF SendPacket
      <4>3. QED
        BY <1>1, <3>1, <3>3, <4>1, <4>2, SenderMoves
    <3>4. QED
      BY <1>1, <3>2, <3>3, SenderMoves
  <2>3. TotalIsSent'
    BY <1>1, <2>1, SenderMoves DEF TotalIsSent
  <2>4. SndT' /\ Pkts' \in Nat
    BY <1>1, SenderSndT, PktsAfter, Numbers DEF SndT
  <2>5. seq <= seq' /\ seq \in Nat /\ seq' \in Nat
    BY <1>1, <2>4, SenderMoves, Numbers DEF SndT
  <2>6. AcksAreOfSent'
    <3> SUFFICES ASSUME NEW a \in Elems(toS'), a.kind = "ack"
                 PROVE  a.seq <= seq' \/ a.seq = Huge
      BY DEF AcksAreOfSent
    <3>1. a \in Elems(toS)
      BY <1>1, SenderMoves
    <3>2. a.seq \in Nat /\ (a.seq <= seq \/ a.seq = Huge)
      BY <3>1, SKinds, Numbers DEF BufT, Elems, AcksAreOfSent
    <3>3. QED
      BY <2>5, <3>2
  <2>7. AckedAreSent'
    <3> SUFFICES ASSUME NEW s \in acked' PROVE s <= seq'
      BY DEF AckedAreSent
    <3>1. CASE s \in acked
      BY <2>5, <3>1, Numbers DEF AckedAreSent, SndT
    <3>2. CASE s \notin acked
      <4>1. PICK a \in Elems(toS) : s = AckedSeq(a) /\ AckedSeq(a) \in 0 .. Pkts - 1
        BY <1>1, <3>2, AckedMoves
      <4>2. s = 0 \/ s <= seq
        BY <4>1, AckedSeqOf DEF AcksAreOfSent
      <4>3. QED
        BY <2>5, <4>1, <4>2
    <3>3. QED
      BY <3>1, <3>2
  <2>8. QED
    BY <2>2, <2>3, <2>6, <2>7 DEF SentInv
<1>2. CASE ReceiverStep \/ NoMeta \/ UserRejects \/ CannotCreate \/ OutOfMemory
  <2>1. UNCHANGED <<sPc, seq, acked>> /\ Pkts' = Pkts
    BY <1>2, ReceiverMoves DEF senderVars, Pkts
  <2>2. PacketsAreSent'
    BY <1>2, <2>1, ReceiverMoves DEF SentInv, PacketsAreSent
  <2>3. TotalIsSent'
    BY <1>2, <2>1, ReceiverMoves DEF SentInv, PacketsAreSent, TotalIsSent
  <2>4. AcksAreOfSent'
    <3> SUFFICES ASSUME NEW a \in Elems(toS'), a.kind = "ack"
                 PROVE  a.seq <= seq \/ a.seq = Huge
      BY <2>1 DEF AcksAreOfSent
    <3>1. CASE a \in Elems(toS)
      BY <3>1 DEF SentInv, AcksAreOfSent
    <3>2. CASE RecvPacket /\ a.seq = Head(toR).seq
      BY <3>2, HeadOfToR DEF RecvPacket, SentInv, PacketsAreSent
    <3>3. QED
      BY <1>2, <3>1, <3>2, ReceiverMoves
  <2>5. QED
    BY <2>1, <2>2, <2>3, <2>4 DEF SentInv, AckedAreSent
<1>3. CASE Lose \/ Delay
  <2>1. UNCHANGED <<sPc, seq, acked, rPkts>> /\ Pkts' = Pkts
    BY <1>3 DEF Lose, Delay, senderVars, receiverVars, Pkts
  <2>2. QED
    BY <1>3, <2>1, NetworkBuffers
       DEF SentInv, PacketsAreSent, TotalIsSent, AcksAreOfSent, AckedAreSent
<1>4. CASE UNCHANGED vars
  <2>1. UNCHANGED <<sPc, seq, acked, rPkts, toR, toS>> /\ Pkts' = Pkts
    BY <1>4 DEF vars, senderVars, receiverVars, Pkts
  <2>2. QED
    BY <2>1 DEF SentInv, PacketsAreSent, TotalIsSent, AcksAreOfSent, AckedAreSent
<1>5. QED
  BY <1>1, <1>2, <1>3, <1>4 DEF Next, FaultStep

-----------------------------------------------------------------------------
(* What is acknowledged is stored.                                         *)

\* Before the file is open no ack but the response's is about; then every ack is of a packet
\* stored, or of a meta record.
AcksAreTrue ==
  /\ rPc \in {"meta", "asked", "respond", "complete"} =>
       acked \subseteq {0} /\ \A a \in Elems(toS) : a.kind # "ack"
  /\ rPc = "recv" =>
       /\ acked \ {0} \subseteq got
       /\ \A a \in Elems(toS) : a.kind = "ack" => a.seq \in got \/ a.seq = Huge

\* A packet of the sender is below the receiver's total, so it is stored before it is
\* acknowledged.
LEMMA PacketIsStored ==
  ASSUME TInv, SentInv, RecvPacket
  PROVE  Head(toR).seq \in got' /\ got \subseteq got'
<1>1. Head(toR) \in Elems(toR) /\ Head(toR).kind = "pkt" /\ Head(toR).seq \in 0 .. Chunks
  BY HeadOfToR DEF TInv, RecvPacket
<1>2. Head(toR).seq < Pkts /\ Head(toR).total = Pkts /\ rPkts \in {0, Huge, Pkts}
  BY <1>1 DEF SentInv, PacketsAreSent, TotalIsSent
<1>3. rPkts' \in {Huge, Pkts}
  BY <1>2 DEF RecvPacket
<1>4. Head(toR).seq < rPkts'
  BY <1>1, <1>2, <1>3, Numbers
<1>5. Store(Head(toR).seq, Head(toR).seq, Head(toR).data)
  BY <1>4 DEF RecvPacket
<1>6. QED
  BY <1>5 DEF Store

LEMMA StepTrue == ASSUME TInv, SentInv, AcksAreTrue, [Next]_vars PROVE AcksAreTrue'
<1>1. CASE SenderStep \/ CannotOpenSource
  <2>1. UNCHANGED <<rPc, got>>
    BY <1>1 DEF SenderStep, SendMeta, GetResponse, NoResponse, SendPacket, GetAck, NoMoreAcks,
                SendEof, CannotOpenSource, receiverVars
  <2>2. Elems(toS') \subseteq Elems(toS)
    BY <1>1, SenderMoves
  <2>3. \/ acked' = acked
        \/ acked' = acked \union {0}
        \/ \E a \in Elems(toS) : a.kind = "ack" /\ a.seq # Huge /\ acked' = acked \union {a.seq}
    BY <1>1, AckedMoves, AckedSeqOf
  <2>4. QED
    BY <2>1, <2>2, <2>3 DEF AcksAreTrue
<1>2. CASE RecvPacket
  <2>1. rPc = "recv" /\ rPc' = "recv" /\ UNCHANGED acked
    BY <1>2 DEF RecvPacket, senderVars
  <2>2. \A a \in Elems(toS') : a.kind = "ack" =>
          a \in Elems(toS) \/ a.seq = Huge \/ a.seq = Head(toR).seq
    BY <1>2, ReceiverMoves DEF ReceiverStep
  <2>3. QED
    BY <1>2, <2>1, <2>2, PacketIsStored DEF AcksAreTrue
<1>3. CASE RecvMetaAgain
  <2>1. rPc = "recv" /\ rPc' = "recv" /\ UNCHANGED acked
    BY <1>3 DEF RecvMetaAgain, senderVars
  <2>2. got \subseteq got'
    BY <1>3 DEF RecvMetaAgain, Store
  <2>3. \A a \in Elems(toS') : a.kind = "ack" => a \in Elems(toS) \/ a.seq = Huge
    BY <1>3, ReceiverMoves DEF ReceiverStep, RecvPacket, RecvMetaAgain
  <2>4. QED
    BY <2>1, <2>2, <2>3 DEF AcksAreTrue
<1>4. CASE Respond
  <2>1. /\ rPc \in {"respond", "complete"} /\ rPc' \in {"respond", "complete", "recv", "idle"}
        /\ UNCHANGED acked
    BY <1>4 DEF Respond, ReceiverReturns, senderVars
  <2>2. \A a \in Elems(toS') : a.kind = "ack" => a \in Elems(toS)
    BY <1>4, <2>1, ReceiverMoves DEF ReceiverStep, RecvPacket
  <2>3. QED
    BY <2>1, <2>2 DEF AcksAreTrue
<1>5. CASE \/ RecvMeta \/ Accepted \/ SkipExisting \/ AlreadyComplete \/ RecvEof
           \/ NoMeta \/ UserRejects \/ CannotCreate \/ OutOfMemory
  <2>1. /\ UNCHANGED <<acked, got, toS>>
        /\ \/ rPc' = "idle"
           \/ rPc \in {"meta", "asked"} /\ rPc' \in {"meta", "asked", "respond", "complete"}
    BY <1>5 DEF RecvMeta, Accepted, SkipExisting, AlreadyComplete, RecvEof, NoMeta, UserRejects,
                CannotCreate, OutOfMemory, ReceiverReturns, senderVars
  <2>2. QED
    BY <2>1 DEF AcksAreTrue
<1>6. CASE Lose \/ Delay
  <2>1. UNCHANGED <<rPc, acked, got>> /\ Elems(toS') \subseteq Elems(toS)
    BY <1>6, NetworkBuffers DEF Lose, Delay, senderVars, receiverVars, TInv
  <2>2. QED
    BY <2>1 DEF AcksAreTrue
<1>7. CASE UNCHANGED vars
  BY <1>7 DEF vars, senderVars, receiverVars, AcksAreTrue
<1>8. QED
  BY <1>1, <1>2, <1>3, <1>4, <1>5, <1>6, <1>7 DEF Next, ReceiverStep, FaultStep

LEMMA InitSent == Init => SentInv /\ AcksAreTrue
BY EmptyBuffer DEF Init, SentInv, PacketsAreSent, TotalIsSent, AcksAreOfSent, AckedAreSent,
                   AcksAreTrue

\* A packet the sender holds for acknowledged is on the receiver's disk while the receiver runs,
\* but for packet 0, which a late response confirms (746-762 against 922-934).
THEOREM AcksMeanStored == Spec => []AckedWasStored
<1>1. AcksAreTrue => AckedWasStored
  BY DEF AcksAreTrue, AckedWasStored
<1>2. TInv /\ SentInv /\ AcksAreTrue /\ [Next]_vars => TInv' /\ SentInv' /\ AcksAreTrue'
  BY StepTInv, StepSent, StepTrue
<1>3. QED
  BY <1>1, <1>2, InitTInv, InitSent, PTL DEF Spec

-----------------------------------------------------------------------------
(* First tries are written where they belong.                              *)

Fresh == sBase = 0 /\ NothingRepeated

\* As long as nothing is repeated the source is read in step with seq, and every packet carries
\* the chunk of its own number.
ReadInStep ==
  /\ sPc \in {"send", "acks"} /\ seq > 0 => retries[seq] >= 1
  /\ Fresh /\ sPc = "send" => fpos = seq
  /\ Fresh /\ sPc = "acks" /\ Chunks > 0 => fpos = seq + 1
  /\ Fresh => \A p \in Elems(toR) : p.kind = "pkt" => p.data = p.seq

FileInPlace ==
  /\ rPc \in {"meta", "asked"} => \A i \in DOMAIN file : file[i] = i
  /\ FirstTriesAreInPlace

\* Tries are never taken back.
LEMMA RetriesGrow ==
  ASSUME TInv, [Next]_vars
  PROVE  /\ retries' = retries
            \/ \E s \in 0 .. Chunks : retries' = [retries EXCEPT ![s] = @ + 1]
         /\ NothingRepeated' => NothingRepeated
<1>0. RetriesT /\ Pkts \in 1 .. Huge /\ (Pkts <= Chunks + 1)
  BY PktsRange, Numbers DEF TInv
<1>1. \/ retries' = retries
      \/ \E s \in 0 .. Chunks : retries' = [retries EXCEPT ![s] = @ + 1]
  <2>1. CASE NoMoreAcks
    <3>1. \/ retries' = retries
          \/ \E s \in 0 .. Pkts : s < Pkts /\ retries' = [retries EXCEPT ![s] = @ + 1]
      BY <2>1 DEF NoMoreAcks
    <3>2. \A s \in 0 .. Pkts : s < Pkts => s \in 0 .. Chunks
      BY <1>0, Numbers
    <3>3. QED
      BY <3>1, <3>2
  <2>2. CASE ~NoMoreAcks
    BY <2>2 DEF Next, SenderStep, SendMeta, GetResponse, NoResponse, SendPacket, GetAck, SendEof,
                ReceiverStep, RecvMeta, Accepted, SkipExisting, AlreadyComplete, Respond,
                RecvPacket, RecvMetaAgain, RecvEof, FaultStep, NoMeta, UserRejects, CannotCreate,
                OutOfMemory, Lose, Delay, CannotOpenSource, senderVars, vars
  <2>3. QED
    BY <2>1, <2>2
<1>2. ASSUME NothingRepeated' PROVE NothingRepeated
  <2>1. CASE retries' = retries
    BY <1>2, <2>1 DEF NothingRepeated
  <2>2. CASE \E s \in 0 .. Chunks : retries' = [retries EXCEPT ![s] = @ + 1]
    <3>1. PICK s \in 0 .. Chunks : retries' = [retries EXCEPT ![s] = @ + 1]
      BY <2>2
    <3>2. \A t \in 0 .. Chunks : retries[t] \in Nat /\ retries'[t] \in Nat /\ retries[t] <= retries'[t]
      BY <1>0, <3>1, Numbers DEF RetriesT
    <3>3. DOMAIN retries = 0 .. Chunks /\ DOMAIN retries' = 0 .. Chunks
      BY <1>0, <3>1 DEF RetriesT
    <3>4. QED
      BY <1>2, <3>2, <3>3 DEF NothingRepeated
  <2>3. QED
    BY <1>1, <2>1, <2>2
<1>3. QED
  BY <1>1, <1>2

\* After the polls for acks: the end, the same packet once more, or the very next one.
LEMMA NextOne ==
  ASSUME TInv, SentInv, ReadInStep, NoMoreAcks, sPc' = "send"
  PROVE  /\ seq' \in 0 .. Chunks
         /\ seq' > 0 => retries'[seq'] >= 1
         /\ Fresh' => seq' = seq + 1
<1>0. /\ SndT /\ RetriesT /\ Pkts \in 1 .. Huge /\ AckedAreSent /\ sPc = "acks" /\ seq < Pkts
      /\ seq \in Nat
  BY PktsRange, Numbers DEF TInv, SentInv, NoMoreAcks, SndT
<1>1. PICK next \in 0 .. Pkts : /\ NextSeq(next) /\ seq' = next /\ next < Pkts
                                /\ retries' = [retries EXCEPT ![next] = @ + 1]
  BY DEF NoMoreAcks
<1>2. next \in 0 .. Chunks /\ DOMAIN retries = 0 .. Chunks
  BY <1>0, <1>1, Numbers DEF RetriesT
<1>3. retries[next] \in Nat /\ retries'[next] = retries[next] + 1 /\ next \in DOMAIN retries'
  BY <1>0, <1>1, <1>2, Numbers DEF RetriesT
<1>4. next = seq \/ next = seq + 1
  <2>1. seq <= next
    BY <1>0, <1>1 DEF NextSeq
  <2>2. ASSUME next > seq + 1 PROVE FALSE
    <3>1. seq + 1 \in seq .. next - 1
      BY <1>0, <1>1, <2>2, Numbers
    <3>2. seq + 1 \in acked
      BY <1>1, <3>1 DEF NextSeq
    <3>3. QED
      BY <1>0, <3>2 DEF AckedAreSent
  <2>3. QED
    BY <1>0, <1>1, <2>1, <2>2, Numbers
<1>5. ASSUME Fresh', next = seq PROVE FALSE
  <2>1. retries'[next] <= IF next = 0 THEN 0 ELSE 1
    BY <1>3, <1>5 DEF Fresh, NothingRepeated
  <2>2. next > 0 => retries[next] >= 1
    BY <1>0, <1>5 DEF ReadInStep
  <2>3. QED
    BY <1>2, <1>3, <2>1, <2>2
<1>6. QED
  BY <1>1, <1>2, <1>3, <1>4, <1>5

LEMMA StepInStep == ASSUME TInv, SentInv, ReadInStep, [Next]_vars PROVE ReadInStep'
<1>0. SndT /\ BufT /\ RetriesT /\ Pkts \in 1 .. Huge /\ PacketsAreSent
      /\ (NothingRepeated' => NothingRepeated)
  BY PktsRange, RetriesGrow DEF TInv, SentInv
<1>1. CASE SendPacket
  <2>1. /\ sPc = "send" /\ sPc' = "acks" /\ UNCHANGED <<seq, sBase, retries>> /\ seq < Pkts
        /\ fpos' = IF fpos < Chunks THEN fpos + 1 ELSE fpos
    BY <1>1 DEF SendPacket
  <2>2. Fresh' => Fresh
    BY <1>0, <2>1 DEF Fresh
  <2>3. Fresh /\ Chunks > 0 => fpos = seq /\ seq < Chunks /\ NextChunk = seq /\ fpos' = seq + 1
    BY <1>0, <2>1, PktsRange, Numbers DEF ReadInStep, Fresh, NextChunk, SndT
  <2>4. ASSUME Fresh', NEW p \in Elems(toR'), p.kind = "pkt" PROVE p.data = p.seq
    <3>1. CASE p \in Elems(toR)
      BY <2>2, <2>4, <3>1 DEF ReadInStep
    <3>2. CASE p = Pkt(seq, Pkts, NextChunk) /\ sBase # Chunks
      BY <2>2, <2>3, <2>4, <3>2, Numbers DEF Pkt, Fresh
    <3>3. QED
      BY <1>1, <2>4, <3>1, <3>2, SenderMoves DEF SenderStep
  <2>5. QED
    BY <2>1, <2>2, <2>3, <2>4 DEF ReadInStep
<1>2. CASE NoMoreAcks
  <2>1. UNCHANGED <<sBase, fpos, toR>> /\ sPc = "acks" /\ sPc' \in {"send", "eof", "idle"}
    BY <1>2 DEF NoMoreAcks, SenderReturns
  <2>2. Fresh' => Fresh
    BY <1>0, <2>1 DEF Fresh
  <2>3. ASSUME Fresh', sPc' = "send" PROVE fpos' = seq'
    <3>1. seq' = seq + 1 /\ seq' \in 0 .. Chunks
      BY <1>2, <2>3, NextOne
    <3>2. Chunks > 0
      BY <1>0, <3>1, Numbers DEF SndT
    <3>3. QED
      BY <2>1, <2>2, <2>3, <3>1, <3>2 DEF ReadInStep
  <2>4. sPc' = "send" /\ seq' > 0 => retries'[seq'] >= 1
    BY <1>2, NextOne
  <2>5. QED
    BY <2>1, <2>2, <2>3, <2>4 DEF ReadInStep
<1>3. CASE GetResponse \/ NoResponse
  <2>1. /\ sPc = "resp" /\ UNCHANGED <<seq, fpos, toR, retries>> /\ sPc' \in {"resp", "send"}
    BY <1>3 DEF GetResponse, NoResponse
  <2>2. seq = 0 /\ fpos = 0 /\ \A p \in Elems(toR) : p.kind # "pkt"
    BY <1>0, <2>1 DEF SndT, PacketsAreSent
  <2>3. QED
    BY <2>1, <2>2 DEF ReadInStep
<1>4. CASE SendMeta \/ SendEof \/ CannotOpenSource
  <2>1. /\ sPc' \notin {"send", "acks"} /\ UNCHANGED <<sBase, retries>>
    BY <1>4 DEF SendMeta, SendEof, CannotOpenSource, SenderReturns
  <2>2. \A p \in Elems(toR') : p.kind = "pkt" => p \in Elems(toR)
    <3>1. CASE SendMeta \/ SendEof
      BY <1>0, <3>1, SentToR, RKinds DEF SendMeta, SendEof
    <3>2. CASE CannotOpenSource
      BY <3>2 DEF CannotOpenSource
    <3>3. QED
      BY <1>4, <3>1, <3>2
  <2>3. QED
    BY <1>0, <2>1, <2>2 DEF ReadInStep, Fresh
<1>5. CASE GetAck
  BY <1>0, <1>5 DEF GetAck, ReadInStep, Fresh
<1>6. CASE \/ ReceiverStep \/ NoMeta \/ UserRejects \/ CannotCreate \/ OutOfMemory
           \/ Lose \/ Delay \/ UNCHANGED vars
  <2>1. UNCHANGED senderVars /\ Elems(toR') \subseteq Elems(toR)
    <3>1. CASE ReceiverStep \/ NoMeta \/ UserRejects \/ CannotCreate \/ OutOfMemory
      BY <3>1, ReceiverMoves
    <3>2. CASE Lose \/ Delay
      BY <1>0, <3>2, NetworkBuffers DEF Lose, Delay
    <3>3. CASE UNCHANGED vars
      BY <3>3 DEF vars
    <3>4. QED
      BY <1>6, <3>1, <3>2, <3>3
  <2>2. UNCHANGED <<sPc, sBase, seq, fpos, retries>>
    BY <2>1 DEF senderVars
  <2>3. QED
    BY <1>0, <2>1, <2>2 DEF ReadInStep, Fresh
<1>7. QED
  BY <1>1, <1>2, <1>3, <1>4, <1>5, <1>6 DEF Next, SenderStep, FaultStep

LEMMA StepInPlace ==
  ASSUME TInv, SentInv, ReadInStep, FileInPlace, [Next]_vars
  PROVE  FileInPlace'
<1>0. /\ SndT /\ BufT /\ RcvT /\ (NothingRepeated' => NothingRepeated)
      /\ (rPc \in {"meta", "asked"} => \A i \in DOMAIN file : file[i] = i)
      /\ (rBase = 0 /\ Fresh => \A i \in DOMAIN file \ {Far} : file[i] = i)
  BY RetriesGrow DEF TInv, FileInPlace, FirstTriesAreInPlace, Fresh
<1>1. Fresh' => Fresh
  <2>1. CASE GetResponse \/ NoResponse
    <3>1. sBase = 0
      BY <1>0, <2>1 DEF GetResponse, NoResponse, SndT
    <3>2. QED
      BY <1>0, <3>1 DEF Fresh
  <2>2. CASE ~(GetResponse \/ NoResponse)
    <3>1. UNCHANGED sBase
      BY <2>2 DEF Next, SenderStep, SendMeta, SendPacket, GetAck, NoMoreAcks, SendEof,
                ReceiverStep, RecvMeta, Accepted, SkipExisting, AlreadyComplete, Respond,
                RecvPacket, RecvMetaAgain, RecvEof, FaultStep, NoMeta, UserRejects, CannotCreate,
                OutOfMemory, Lose, Delay, CannotOpenSource, senderVars, vars
    <3>2. QED
      BY <1>0, <3>1 DEF Fresh
  <2>3. QED
    BY <2>1, <2>2
<1>2. CASE RecvPacket
  <2>1. /\ rPc = "recv" /\ rPc' = "recv" /\ rBase' = rBase
        /\ UNCHANGED file \/ file' = Written(Head(toR).seq, Head(toR).data)
        /\ Head(toR) \in Elems(toR) /\ Head(toR).kind = "pkt"
    BY <1>0, <1>2, HeadOfToR DEF RecvPacket, Store
  <2>2. ASSUME rBase' = 0, Fresh', NEW i \in DOMAIN file' \ {Far} PROVE file'[i] = i
    <3>1. Head(toR).data = Head(toR).seq
      BY <1>1, <2>1, <2>2 DEF ReadInStep
    <3>2. CASE UNCHANGED file
      BY <1>0, <1>1, <2>1, <2>2, <3>2
    <3>3. CASE file' = Written(Head(toR).seq, Head(toR).data)
      <4> DEFINE at == Head(toR).seq
      <4>1. ~(rBase > 0)
        BY <2>1, <2>2
      <4>2. /\ DOMAIN file' = DOMAIN file \union {at}
            /\ file'[at] = Head(toR).data
            /\ \A j \in DOMAIN file \ {at} : file'[j] = file[j]
        BY <3>3, <4>1, WrittenAt
      <4>3. \A j \in DOMAIN file \ {Far} : file[j] = j
        BY <1>0, <1>1, <2>1, <2>2
      <4>4. QED
        BY <2>2, <3>1, <4>2, <4>3
    <3>4. QED
      BY <2>1, <3>2, <3>3
  <2>3. QED
    BY <2>1, <2>2 DEF FileInPlace, FirstTriesAreInPlace, Fresh
<1>3. CASE RecvMetaAgain
  <2>1. /\ rPc = "recv" /\ rPc' = "recv" /\ rBase' = rBase
        /\ UNCHANGED file \/ file' = Written(Far, Zeros)
    BY <1>3 DEF RecvMetaAgain, Store
  <2>2. ASSUME rBase' = 0, Fresh', NEW i \in DOMAIN file' \ {Far} PROVE file'[i] = i
    <3>1. CASE UNCHANGED file
      BY <1>0, <1>1, <2>1, <2>2, <3>1
    <3>2. CASE file' = Written(Far, Zeros)
      <4>1. ~(rBase > 0)
        BY <2>1, <2>2
      <4>2. /\ DOMAIN file' = DOMAIN file \union {Far}
            /\ \A j \in DOMAIN file \ {Far} : file'[j] = file[j]
        <5>1. /\ DOMAIN Written(Far, Zeros) = DOMAIN file \union {Far}
              /\ \A j \in DOMAIN file \ {Far} : Written(Far, Zeros)[j] = file[j]
          BY <4>1, WrittenAt, Zenon
        <5>2. QED
          BY <3>2, <5>1
      <4>3. QED
        BY <1>0, <1>1, <2>1, <2>2, <4>2
    <3>3. QED
      BY <2>1, <3>1, <3>2
  <2>3. QED
    BY <2>1, <2>2 DEF FileInPlace, FirstTriesAreInPlace, Fresh
<1>4. CASE RecvMeta \/ Accepted \/ AlreadyComplete
  <2>1. rPc \in {"meta", "asked"} /\ UNCHANGED file
    BY <1>4 DEF RecvMeta, Accepted, AlreadyComplete
  <2>2. \A i \in DOMAIN file : file[i] = i
    BY <1>0, <2>1
  <2>3. QED
    BY <2>1, <2>2 DEF FileInPlace, FirstTriesAreInPlace
<1>5. CASE ~(RecvPacket \/ RecvMetaAgain \/ RecvMeta \/ Accepted \/ AlreadyComplete)
  <2>1. UNCHANGED <<file, rBase>> /\ (rPc' \in {"meta", "asked"} => rPc' = rPc)
    BY <1>5 DEF Next, SenderStep, SendMeta, GetResponse, NoResponse, SendPacket, GetAck, NoMoreAcks,
                SendEof, ReceiverStep, SkipExisting, Respond, RecvEof, FaultStep, NoMeta,
                UserRejects, CannotCreate, OutOfMemory, Lose, Delay, CannotOpenSource,
                ReceiverReturns, receiverVars, vars
  <2>2. QED
    BY <1>0, <1>1, <2>1 DEF FileInPlace, FirstTriesAreInPlace, Fresh
<1>6. QED
  BY <1>2, <1>3, <1>4, <1>5

LEMMA InitInStep == Init => ReadInStep /\ FileInPlace
<1> SUFFICES ASSUME Init PROVE ReadInStep /\ FileInPlace
  OBVIOUS
<1>1. PICK n \in Partials : file = [i \in 0 .. n - 1 |-> i]
  BY DEF Init
<1>2. \A i \in DOMAIN file : file[i] = i
  BY <1>1
<1>3. QED
  BY <1>2, EmptyBuffer DEF Init, ReadInStep, FileInPlace, FirstTriesAreInPlace

\* Of a new file that is sent without repeating a packet every chunk lands at its own place, in
\* whatever order and however often lost the datagrams are (735-744 against 922-926).
THEOREM InPlace == Spec => []FirstTriesAreInPlace
<1> DEFINE I == TInv /\ SentInv /\ ReadInStep /\ FileInPlace
<1>1. Init => I
  BY InitTInv, InitSent, InitInStep
<1>2. I /\ [Next]_vars => I'
  BY StepTInv, StepSent, StepInStep, StepInPlace
<1>3. I => FirstTriesAreInPlace
  BY DEF FileInPlace
<1>4. QED
  BY <1>1, <1>2, <1>3, PTL DEF Spec
=============================================================================
