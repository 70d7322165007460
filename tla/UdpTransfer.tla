----------------------------- MODULE UdpTransfer -----------------------------
(***************************************************************************)
(* One file sent over UDP: udp_send_file on one host, udp_recv_file on the *)
(* other (src/src/transfer.c), and the two sockets' receive buffers, which *)
(* lose, delay and, when full, drop datagrams.                             *)
(*                                                                         *)
(* The file is counted in chunks of FT_CHUNK_SIZE bytes and the content of *)
(* its chunk i is written i.  A file at the receiver is a function from    *)
(* chunk positions to contents.                                            *)
(***************************************************************************)
EXTENDS Integers, Sequences, FiniteSets

CONSTANTS
  Chunks,       \* number of chunks of the sent file, 0 for an empty file
  Partials,     \* how many chunks of it the receiver may hold already
  PeerSets,     \* may the receiver's context have a peer (net_udp_set_peer)?
  MetaReadings, \* how a meta record may read as a data packet, see RecvMetaAgain
  MetaCopies,   \* 3 in the code: copies of the meta record and of the response
  EofCopies,    \* 5 in the code
  MetaLen,      \* chunks a meta record counts for when it is read as a packet
  MaxRetries,   \* FT_MAX_RETRIES, 10 in the code
  SockBuf,      \* datagrams a socket's receive buffer holds
  MaxFaults     \* bound on lost and delayed datagrams and other faults

ASSUME SizesAssumption ==
  /\ Chunks \in Nat
  /\ Partials \subseteq Nat
  /\ {MetaCopies, EofCopies, MetaLen} \subseteq Nat \ {0}
  /\ MaxRetries \in Nat
  /\ SockBuf \in Nat \ {0}
  /\ MaxFaults \in Nat

ASSUME ChoicesAssumption ==
  /\ PeerSets \subseteq BOOLEAN
  /\ MetaReadings \subseteq {"stored", "ignored", "eof"}

Zeros == -1   \* what a packet carries when fread finds no more data
Far   == -1   \* position, and number, of a packet that lies far behind the others

VARIABLES
  peerSet, reading, skips, \* environment of the receiver, see Init
  sPc,      \* where udp_send_file is; "idle" when it has returned
  copies,   \* copies sent so far of the meta record, then of the end marker
  sBase,    \* resp.resume_offset, in chunks
  seq,      \* local variable seq
  acked,    \* packets marked in acked[]
  retries,  \* retries_arr[]
  fpos,     \* chunks the source file was read since fseek
  sEv,      \* last event the sender's user got
  rPc,      \* where udp_recv_file is; "idle" when it has returned
  resps,    \* copies of the response sent so far
  rBase,    \* resume_offset, in chunks
  rPkts,    \* total_pkts: 0 before the first packet, Huge after a meta record
  got,      \* packets marked in received_pkts[]
  received, \* local variable received, in chunks
  file,     \* the file at final_path
  rEv,      \* last event the receiver's user got
  toR, toS, \* receive buffers of the receiver's and the sender's socket
  faults

conf         == <<peerSet, reading, skips>>
senderVars   == <<sPc, copies, sBase, seq, acked, retries, fpos, sEv>>
receiverVars == <<rPc, resps, rBase, rPkts, got, received, file, rEv>>
vars == <<conf, senderVars, receiverVars, toR, toS, faults>>

Meta       == [kind |-> "meta"]
Eof        == [kind |-> "eof"]
\* pad is what the response has at the place of an ack's seq.
Resp(n, pad) == [kind |-> "resp", base |-> n, pad |-> pad]
Ack(s)     == [kind |-> "ack", seq |-> s]
Pkt(s, n, c) == [kind |-> "pkt", seq |-> s, total |-> n, data |-> c]

Huge == Chunks + 1   \* total_pkts read out of a meta record: above every seq

\* total_pkts of the sender: one empty packet when nothing remains.
Pkts == IF sBase = Chunks THEN 1 ELSE Chunks - sBase

\* The values each variable may take (656-946).
TypeOK ==
  /\ peerSet \in PeerSets /\ reading \in MetaReadings /\ skips \in BOOLEAN
  /\ sPc \in {"meta", "resp", "send", "acks", "eof", "idle"}
  /\ copies \in 0 .. MetaCopies + EofCopies
  /\ sBase \in 0 .. Chunks
  /\ seq \in 0 .. Pkts
  /\ acked \subseteq 0 .. Chunks
  /\ retries \in [0 .. Chunks -> 0 .. MaxRetries + 1]
  /\ fpos \in 0 .. Chunks
  /\ sEv \in {"none", "done", "error"} /\ rEv \in {"none", "done", "error"}
  /\ rPc \in {"meta", "asked", "respond", "complete", "recv", "idle"}
  /\ resps \in 0 .. MetaCopies
  /\ rBase \in 0 .. Chunks
  /\ rPkts \in 0 .. Huge
  /\ got \subseteq {Far} \union 0 .. Chunks
  /\ received \in Nat
  /\ DOMAIN file \subseteq {Far} \union Nat
  /\ Len(toR) <= SockBuf /\ Len(toS) <= SockBuf
  /\ faults \in 0 .. MaxFaults

Init ==
  /\ peerSet \in PeerSets    \* net_udp_set_peer called on the receiver's context
  /\ reading \in MetaReadings
  /\ skips \in BOOLEAN       \* policy skip, and a file of no bytes is there
  /\ sPc = "meta" /\ copies = 0 /\ sBase = 0 /\ seq = 0 /\ acked = {}
  /\ retries = [s \in 0 .. Chunks |-> 0] /\ fpos = 0 /\ sEv = "none"
  /\ rPc = "meta" /\ resps = 0 /\ rBase = 0 /\ rPkts = 0 /\ got = {}
  /\ received = 0 /\ rEv = "none"
  /\ \E n \in Partials : file = [i \in 0 .. n - 1 |-> i]
  /\ toR = <<>> /\ toS = <<>> /\ faults = 0

-----------------------------------------------------------------------------
(* Sockets.                                                                *)

Fault == faults < MaxFaults /\ faults' = faults + 1

\* A full buffer drops the datagram; so does a socket that is closed.
Into(buf, m) == IF Len(buf) < SockBuf THEN Append(buf, m) ELSE buf

SendToR(m) == toR' = IF rPc = "idle" THEN toR ELSE Into(toR, m)

\* net_send of the receiver: with no peer set sendto fails, and nobody looks.
SendToS(m) == toS' = IF peerSet /\ sPc # "idle" THEN Into(toS, m) ELSE toS

Without(buf, i) == SubSeq(buf, 1, i - 1) \o SubSeq(buf, i + 1, Len(buf))

Lose ==
  /\ Fault
  /\ \/ \E i \in DOMAIN toR : toR' = Without(toR, i) /\ UNCHANGED toS
     \/ \E i \in DOMAIN toS : toS' = Without(toS, i) /\ UNCHANGED toR
  /\ UNCHANGED <<conf, senderVars, receiverVars>>

\* A datagram is overtaken by all that are in the buffer behind it.
Delay ==
  /\ Fault
  /\ Len(toR) > 1
  /\ toR' = Append(Tail(toR), Head(toR))
  /\ UNCHANGED <<conf, senderVars, receiverVars, toS>>

-----------------------------------------------------------------------------
(* udp_send_file                                                           *)

SenderReturns(event) ==
  /\ sPc' = "idle" /\ sEv' = event
  /\ toS' = <<>>

CannotOpenSource ==
  /\ sPc = "meta" /\ copies = 0 /\ Fault
  /\ SenderReturns("error")
  /\ UNCHANGED <<conf, copies, sBase, seq, acked, retries, fpos, receiverVars, toR>>

SendMeta ==
  /\ sPc = "meta"
  /\ SendToR(Meta)
  /\ copies' = IF copies + 1 < MetaCopies THEN copies + 1 ELSE 0
  /\ sPc' = IF copies + 1 < MetaCopies THEN "meta" ELSE "resp"
  /\ UNCHANGED <<conf, sBase, seq, acked, retries, fpos, sEv, receiverVars, toS, faults>>

\* A datagram of another size than a response counts as a poll and is dropped.
GetResponse ==
  /\ sPc = "resp" /\ toS # <<>>
  /\ IF Head(toS).kind = "resp"
     THEN sPc' = "send" /\ sBase' = Head(toS).base
     ELSE UNCHANGED <<sPc, sBase>>
  /\ toS' = Tail(toS)
  /\ UNCHANGED <<conf, copies, seq, acked, retries, fpos, sEv, receiverVars, toR, faults>>

\* After 20 polls the sender goes on without a response, from the beginning.
NoResponse ==
  /\ sPc = "resp" /\ toS = <<>>
  /\ sPc' = "send" /\ sBase' = 0
  /\ UNCHANGED <<conf, copies, seq, acked, retries, fpos, sEv, receiverVars, toR, toS, faults>>

\* What fread delivers next: it goes on from where the last packet ended,
\* whatever seq this packet has.
NextChunk == IF sBase + fpos < Chunks THEN sBase + fpos ELSE Zeros

\* A packet without data is what the receiver takes for the end marker.
SendPacket ==
  /\ sPc = "send" /\ seq < Pkts
  /\ SendToR(IF sBase = Chunks THEN Eof ELSE Pkt(seq, Pkts, NextChunk))
  /\ fpos' = IF fpos < Chunks THEN fpos + 1 ELSE fpos
  /\ sPc' = "acks"
  /\ UNCHANGED <<conf, copies, sBase, seq, acked, retries, sEv, receiverVars, toS, faults>>

\* Seeded fault: an ack is taken to confirm the packet after its own.
AckedSeqOffByOne(m) == IF m.kind = "ack" THEN m.seq + 1 ELSE m.pad

\* A response has the magic of an ack; cut to an ack's size it has a seq too.
AckedSeq(m) == IF m.kind = "ack" THEN m.seq ELSE m.pad

\* Seeded fault: an ack of a packet that does not exist is marked too.
GetAckUnchecked ==
  /\ sPc = "acks" /\ toS # <<>>
  /\ acked' = acked \union {AckedSeq(Head(toS))}
  /\ toS' = Tail(toS)
  /\ UNCHANGED <<conf, sPc, copies, sBase, seq, retries, fpos, sEv, receiverVars, toR, faults>>

GetAck ==
  /\ sPc = "acks" /\ toS # <<>>
  /\ LET s == AckedSeq(Head(toS))
     IN  acked' = IF s \in 0 .. Pkts - 1 THEN acked \union {s} ELSE acked
  /\ toS' = Tail(toS)
  /\ UNCHANGED <<conf, sPc, copies, sBase, seq, retries, fpos, sEv, receiverVars, toR, faults>>

\* The first packet from seq on that is not acked, Pkts if there is none.
NextSeq(next) ==
  /\ next \in seq .. Pkts /\ next \notin acked
  /\ \A s \in seq .. next - 1 : s \in acked

\* Seeded fault: the tries of a packet are not counted.
NoMoreAcksUncounted ==
  /\ sPc = "acks" /\ toS = <<>>
  /\ \E next \in 0 .. Pkts :
       NextSeq(next) /\ seq' = next /\ sPc' = IF next < Pkts THEN "send" ELSE "eof"
  /\ UNCHANGED <<conf, copies, sBase, acked, retries, fpos, sEv, receiverVars, toR, toS, faults>>

\* The polls of 10 ms and 5 ms for acks are over: next packet, the same packet
\* again, or, with too many tries, the end.
NoMoreAcks ==
  /\ sPc = "acks" /\ toS = <<>>
  /\ \E next \in 0 .. Pkts :
       /\ NextSeq(next) /\ seq' = next
       /\ \/ next = Pkts /\ sPc' = "eof" /\ UNCHANGED <<retries, sEv, toS>>
          \/ /\ next < Pkts
             /\ retries' = [retries EXCEPT ![next] = @ + 1]
             /\ IF retries[next] + 1 > MaxRetries
                THEN SenderReturns("error")
                ELSE sPc' = "send" /\ UNCHANGED <<sEv, toS>>
  /\ UNCHANGED <<conf, copies, sBase, acked, fpos, receiverVars, toR, faults>>

SendEof ==
  /\ sPc = "eof"
  /\ SendToR(Eof)
  /\ copies' = copies + 1
  /\ IF copies + 1 = EofCopies THEN SenderReturns("done") ELSE UNCHANGED <<sPc, sEv, toS>>
  /\ UNCHANGED <<conf, sBase, seq, acked, retries, fpos, receiverVars, faults>>

-----------------------------------------------------------------------------
(* udp_recv_file                                                           *)

ReceiverReturns(event) ==
  /\ rPc' = "idle" /\ rEv' = event
  /\ toR' = <<>>

\* Datagrams that are no meta record are polls that found nothing.
RecvMeta ==
  /\ rPc = "meta" /\ toR # <<>>
  /\ toR' = Tail(toR)
  /\ rPc' = IF Head(toR).kind = "meta" THEN "asked" ELSE "meta"
  /\ UNCHANGED <<conf, senderVars, resps, rBase, rPkts, got, received, file, rEv, toS, faults>>

\* 30 polls found no meta record.
NoMeta ==
  /\ rPc = "meta" /\ toR = <<>> /\ Fault
  /\ ReceiverReturns("error")
  /\ UNCHANGED <<conf, senderVars, resps, rBase, rPkts, got, received, file, toS>>

UserRejects ==
  /\ rPc = "asked" /\ Fault
  /\ ReceiverReturns("error")
  /\ UNCHANGED <<conf, senderVars, resps, rBase, rPkts, got, received, file, toS>>

Local == Cardinality(DOMAIN file)

\* Accepted by the user or by auto_accept, and a partial or no file is there.
\* A file of no bytes counts as existing for the policy (and is replaced, or a
\* new name is found, which makes no difference here).
Accepted ==
  /\ rPc = "asked" /\ Local < Chunks
  /\ ~(Local = 0 /\ skips)
  /\ rBase' = Local /\ received' = Local
  /\ rPc' = "respond"
  /\ UNCHANGED <<conf, senderVars, resps, rPkts, got, file, rEv, toR, toS, faults>>

SkipExisting ==
  /\ rPc = "asked" /\ Local = 0 /\ Chunks > 0 /\ skips
  /\ ReceiverReturns("error")
  /\ UNCHANGED <<conf, senderVars, resps, rBase, rPkts, got, received, file, toS, faults>>

\* A file that is long enough is complete: it is said so, if anybody can hear.
AlreadyComplete ==
  /\ rPc = "asked" /\ Local >= Chunks
  /\ rBase' = Chunks
  /\ rPc' = "complete"
  /\ UNCHANGED <<conf, senderVars, resps, rPkts, got, received, file, rEv, toR, toS, faults>>

\* The response that says complete is not cleared before its fields are set, so its
\* padding is whatever the stack held.
Respond ==
  /\ rPc \in {"respond", "complete"}
  /\ \E pad \in IF rPc = "complete" THEN {0, Huge} ELSE {0} : SendToS(Resp(rBase, pad))
  /\ resps' = resps + 1
  /\ IF resps + 1 < MetaCopies THEN UNCHANGED <<rPc, rEv, toR>>
     ELSE IF rPc = "complete" THEN ReceiverReturns("done")
     ELSE rPc' = "recv" /\ UNCHANGED <<rEv, toR>>
  /\ UNCHANGED <<conf, senderVars, rBase, rPkts, got, received, file, faults>>

CannotCreate ==
  /\ rPc = "recv" /\ rPkts = 0 /\ got = {} /\ Fault
  /\ ReceiverReturns("error")
  /\ UNCHANGED <<conf, senderVars, resps, rBase, rPkts, got, received, file, toS>>

\* fseek and fwrite: a file opened with "ab" grows at its end whatever fseek says.
Written(pos, c) ==
  LET at == IF rBase > 0 THEN Local ELSE pos
  IN  [i \in DOMAIN file \union {at} |-> IF i = at THEN c ELSE file[i]]

\* data_len in chunks.
Weight(s) == IF s = Far THEN MetaLen ELSE 1

\* Seeded fault: a packet that is in already is stored and counted again.
StoreAlways(s, pos, c) ==
  /\ got' = got \union {s}
  /\ received' = received + Weight(s)
  /\ file' = Written(pos, c)

\* A packet that is new is written and counted once.
Store(s, pos, c) ==
  IF s \in got
  THEN UNCHANGED <<got, received, file>>
  ELSE /\ got' = got \union {s}
       /\ received' = received + Weight(s)
       /\ file' = Written(pos, c)

\* Seeded fault: packets are written one chunk too far into the file.
RecvPacketOneFurther ==
  /\ rPc = "recv" /\ toR # <<>> /\ Head(toR).kind = "pkt"
  /\ LET p == Head(toR)
     IN  /\ rPkts' = IF rPkts = 0 THEN p.total ELSE rPkts
         /\ IF p.seq < rPkts' THEN Store(p.seq, p.seq + 1, p.data)
            ELSE UNCHANGED <<got, received, file>>
         /\ SendToS(Ack(p.seq))
  /\ toR' = Tail(toR)
  /\ UNCHANGED <<conf, senderVars, rPc, resps, rBase, rEv, faults>>

RecvPacket ==
  /\ rPc = "recv" /\ toR # <<>> /\ Head(toR).kind = "pkt"
  /\ LET p == Head(toR)
     IN  /\ rPkts' = IF rPkts = 0 THEN p.total ELSE rPkts
         /\ IF p.seq < rPkts' THEN Store(p.seq, p.seq, p.data)
            ELSE UNCHANGED <<got, received, file>>
         /\ SendToS(Ack(p.seq))
  /\ toR' = Tail(toR)
  /\ UNCHANGED <<conf, senderVars, rPc, resps, rBase, rEv, faults>>

\* The second or third copy of the meta record, read as a data packet: its seq is
\* FT_MAGIC, total and data_len are made of the length and the first letters of the
\* file name.  total is above every real seq; whether FT_MAGIC is below it, or
\* data_len is 0, depends on the name.  Else data_len is two letters: some 30000.
RecvMetaAgain ==
  /\ rPc = "recv" /\ toR # <<>> /\ Head(toR).kind = "meta" /\ reading # "eof"
  /\ rPkts' = IF rPkts = 0 THEN Huge ELSE rPkts
  /\ IF reading = "stored" /\ rPkts' = Huge THEN Store(Far, Far, Zeros)
     ELSE UNCHANGED <<got, received, file>>
  /\ SendToS(Ack(Huge))
  /\ toR' = Tail(toR)
  /\ UNCHANGED <<conf, senderVars, rPc, resps, rBase, rEv, faults>>

\* calloc of received_pkts fails, which a Huge one may.
OutOfMemory ==
  /\ rPc = "recv" /\ toR # <<>> /\ Head(toR).kind \in {"pkt", "meta"} /\ rPkts = 0
  /\ Fault
  /\ ReceiverReturns("error")
  /\ UNCHANGED <<conf, senderVars, resps, rBase, rPkts, got, received, file, toS>>

\* The end marker, or what reads like one, is believed without an ack.
RecvEof ==
  /\ rPc = "recv" /\ toR # <<>>
  /\ \/ Head(toR).kind = "eof"
     \/ Head(toR).kind = "meta" /\ reading = "eof"
  /\ ReceiverReturns(IF received >= Chunks THEN "done" ELSE "error")
  /\ UNCHANGED <<conf, senderVars, resps, rBase, rPkts, got, received, file, toS, faults>>

-----------------------------------------------------------------------------
SenderStep ==
  \/ SendMeta \/ GetResponse \/ NoResponse \/ SendPacket \/ GetAck \/ NoMoreAcks
  \/ SendEof

ReceiverStep ==
  \/ RecvMeta \/ Accepted \/ SkipExisting \/ AlreadyComplete \/ Respond
  \/ RecvPacket \/ RecvMetaAgain \/ RecvEof

FaultStep ==
  \/ Lose \/ Delay \/ CannotOpenSource \/ NoMeta \/ UserRejects \/ CannotCreate
  \/ OutOfMemory

Next == SenderStep \/ ReceiverStep \/ FaultStep

Spec == Init /\ [][Next]_vars

\* Both programs run: all their waits are polls with a timeout.
FairSpec == Spec /\ WF_vars(SenderStep) /\ WF_vars(ReceiverStep)

-----------------------------------------------------------------------------
(* What holds.                                                             *)

\* However often packets are repeated, the receiver counts each of them once: what
\* it compares with total_size is what it had at first plus the packets it marked
\* (transfer.c:922-929).
EachPacketCountedOnce ==
  rPc = "recv" => received = rBase + Cardinality(got \ {Far}) + (IF Far \in got THEN MetaLen ELSE 0)

\* A packet the sender believes acknowledged has been stored by the receiver, or
\* the receiver is done for; except packet 0, which a late copy of the meta response
\* acknowledges as well (746-762 against 922-934).
AckedWasStored ==
  rPc = "recv" => acked \ {0} \subseteq got

\* No packet is sent a second time: the tries of a packet are counted before each sending
\* but the one of packet 0 (761-768).
NothingRepeated == \A s \in DOMAIN retries : retries[s] <= IF s = 0 THEN 0 ELSE 1

\* A fresh file: as long as no packet is sent twice, what is written is where it
\* belongs, in whatever order datagrams arrive (735-744 against 922-926).
FirstTriesAreInPlace ==
  rBase = 0 /\ sBase = 0 /\ NothingRepeated =>
    \A i \in DOMAIN file \ {Far} : file[i] = i

\* The sender returns, whatever the receiver and the network do (703-709, 763-767).
SenderReturnsInTheEnd == <>(sPc = "idle")

-----------------------------------------------------------------------------
(* What the documentation says.                                            *)

\* README.md:17, "TCP & UDP: Reliable streaming or custom ACK-based UDP with
\* retransmission": a transfer without faults succeeds.
UdpDelivers == <>(sEv = "done")
=============================================================================
