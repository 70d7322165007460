----------------------------- MODULE TcpTransfer -----------------------------
(***************************************************************************)
(* One file sent over TCP by lanft: tcp_send_file on one host,             *)
(* tcp_recv_file on the other, and the connection between them             *)
(* (src/src/transfer.c).  A user may send the same file name again and     *)
(* again; what the receiver's disk holds survives from one session to the  *)
(* next, which is what "resume" works from.                                *)
(*                                                                         *)
(* File contents are sequences of blocks; the two ends' byte counters      *)
(* count blocks.  A connection carries one meta record, one meta response  *)
(* and then the data stream.  The receiver serves one connection at a      *)
(* time, and so does the model.                                            *)
(***************************************************************************)
EXTENDS Integers, Sequences

CONSTANTS
  Block,         \* the units of file content
  Sources,       \* contents the sent file may have, session by session
  InitialFiles,  \* what the receiver's disk may hold under that name at first
  NoFile,        \* "no such file" (stat fails)
  Configs,       \* receiver configurations the user may have chosen
  BufferSize,    \* buffer_size: most blocks one read or one write moves
  SockBuf,       \* blocks the two socket buffers hold together
  CopyLimit,     \* 1000 in the code: "name (n)" is tried for n < CopyLimit
  DiskMayFill,   \* may the disk of the receiver run full?
  MaxFaults      \* bound on the faults of one behaviour

Policy == {"overwrite", "skip", "rename"}

ConfigType == [policy : Policy, isDir : BOOLEAN, autoAccept : BOOLEAN]

ASSUME ContentAssumption ==
  /\ Sources \subseteq Seq(Block)
  /\ NoFile \notin Seq(Block)
  /\ InitialFiles \subseteq Seq(Block) \union {NoFile}

ASSUME LimitAssumption ==
  /\ Configs \subseteq ConfigType
  /\ BufferSize \in Nat \ {0}
  /\ SockBuf \in Nat \ {0}
  /\ CopyLimit \in Nat /\ CopyLimit >= 2
  /\ DiskMayFill \in BOOLEAN
  /\ MaxFaults \in Nat

NoMsg    == -1     \* nothing (yet) to read where a record is expected
BadMagic == -2     \* a record of some other program: its magic is not FT_MAGIC
Root     == 0      \* rootpath; path n > 0 is "base (n)ext"
Paths    == 0 .. CopyLimit - 1

VARIABLES
  conf,      \* overwrite policy, directory flag of the name, auto_accept
  sPc,       \* where tcp_send_file is; "idle" when it has returned
  src,       \* content of the file being sent (kept until the next session)
  sent,      \* local variable sent
  sEv,       \* last event the sender's user got: none, done or error
  rPc,       \* where tcp_recv_file is; "idle" while in net_accept
  rTotal,    \* meta.total_size
  resume,    \* resume_offset
  received,  \* local variable received
  final,     \* final_path
  rEv,       \* last event the receiver's user got
  link,      \* none, queued (not yet accepted), open, lost
  meta,      \* total_size of the meta record in flight
  resp,      \* resume_offset of the response in flight
  stream,    \* data written and not yet read
  disk,      \* the receiver's save directory: content by path
  unpacked,  \* archives extract_archive has unpacked
  faults     \* faults so far

senderVars   == <<sPc, src, sent, sEv>>
receiverVars == <<rPc, rTotal, resume, received, final, rEv>>
netVars      == <<link, meta, resp, stream>>
fsVars       == <<disk, unpacked>>
vars == <<conf, senderVars, receiverVars, netVars, fsVars, faults>>

TypeOK ==
  /\ conf \in Configs
  /\ sPc \in {"idle", "meta", "wait", "send"}
  /\ src \in Sources
  /\ sent \in Nat
  /\ sEv \in {"none", "done", "error"}
  /\ rPc \in {"idle", "meta", "prompt", "respond", "open", "recv"}
  /\ rTotal \in Nat /\ resume \in Nat /\ received \in Nat
  /\ final \in Paths
  /\ rEv \in {"none", "done", "error"}
  /\ link \in {"none", "queued", "open", "lost"}
  /\ meta \in Nat \union {NoMsg, BadMagic}
  /\ resp \in Nat \union {NoMsg}
  /\ stream \in Seq(Block)
  /\ disk \in [Paths -> Seq(Block) \union {NoFile}]
  /\ unpacked \subseteq Sources
  /\ faults \in 0 .. MaxFaults

Init ==
  /\ conf \in Configs
  /\ sPc = "idle" /\ src \in Sources /\ sent = 0 /\ sEv = "none"
  /\ rPc = "idle" /\ rTotal = 0 /\ resume = 0 /\ received = 0
  /\ final = Root /\ rEv = "none"
  /\ link = "none" /\ meta = NoMsg /\ resp = NoMsg /\ stream = <<>>
  /\ \E f \in InitialFiles :
       disk = [p \in Paths |-> IF p = Root THEN f ELSE NoFile]
  /\ unpacked = {}
  /\ faults = 0

-----------------------------------------------------------------------------
(* Helpers.                                                                *)

Fault == faults < MaxFaults /\ faults' = faults + 1

\* The function returns: its caller closes the socket (net_destroy).
SenderReturns(event) ==
  /\ sPc' = "idle" /\ sEv' = event
  /\ link' = IF rPc = "idle" /\ link # "queued" THEN "none" ELSE link
  /\ UNCHANGED <<src, sent>>

ReceiverReturns(event) ==
  /\ rPc' = "idle" /\ rEv' = event
  /\ link' = IF sPc = "idle" THEN "none" ELSE "lost"

\* file_size: a missing file counts as empty.
FileSize(f) == IF f = NoFile THEN 0 ELSE Len(f)

\* Seeded fault: a longer local file is resumed, too.
ResumeAnySize(total) ==
  IF ~conf.isDir /\ FileSize(disk[Root]) > 0 THEN FileSize(disk[Root]) ELSE 0

ResumeOffset(total) ==
  LET local == FileSize(disk[Root])
  IN  IF ~conf.isDir /\ local > 0 /\ local < total THEN local ELSE 0

RootTaken == resume = 0 /\ disk[Root] # NoFile

\* Seeded fault: the loop's counter is used although no name was free.
CopiesPastLimit ==
  {n \in 1 .. CopyLimit :
     (n = CopyLimit \/ disk[n] = NoFile) /\ \A m \in 1 .. n - 1 : disk[m] # NoFile}

\* The first n < CopyLimit with no "base (n)ext", the last one if all exist.
Copies ==
  {n \in Paths \ {Root} :
     /\ disk[n] = NoFile \/ n = CopyLimit - 1
     /\ \A m \in 1 .. n - 1 : disk[m] # NoFile}

\* Seeded fault: the new name is computed but the file opened is rootpath.
OpenRoot == {Root}

OpenTargets == IF RootTaken /\ conf.policy = "rename" THEN Copies ELSE {Root}

\* Seeded fault: a resumed file is opened with "wb".
OpenTruncating(p) == <<>>

\* fopen: "ab" keeps what a resumed file holds, "wb" truncates.
OpenedContent(p) == IF resume > 0 /\ disk[p] # NoFile THEN disk[p] ELSE <<>>

\* How many of n blocks fwrite stores; its result is not looked at.
Stored(n) == IF DiskMayFill THEN 0 .. n ELSE {n}

-----------------------------------------------------------------------------
(* The users and the network.                                              *)

\* A user sends the file: net_connect succeeds (backlog of the listener).
StartSession ==
  /\ sPc = "idle" /\ rPc = "idle" /\ link = "none"
  /\ src' \in Sources
  /\ sPc' = "meta" /\ sent' = 0 /\ sEv' = "none" /\ rEv' = "none"
  /\ link' = "queued" /\ meta' = NoMsg /\ resp' = NoMsg /\ stream' = <<>>
  /\ UNCHANGED <<conf, rPc, rTotal, resume, received, final, fsVars, faults>>

\* Someone else connects: a scanner's probe that says nothing and closes, or
\* another program whose bytes are no meta record.
OtherClient ==
  /\ sPc = "idle" /\ rPc = "idle" /\ link = "none"
  /\ Fault
  /\ link' = "queued" /\ meta' \in {NoMsg, BadMagic}
  /\ resp' = NoMsg /\ stream' = <<>>
  /\ sEv' = "none" /\ rEv' = "none"
  /\ UNCHANGED <<conf, sPc, src, sent, rPc, rTotal, resume, received, final, fsVars>>

\* The connection breaks, or stalls longer than an end's timeout.
Break ==
  /\ link = "open" \/ (link = "queued" /\ sPc # "idle")
  /\ Fault
  /\ link' = "lost"
  /\ UNCHANGED <<conf, senderVars, receiverVars, meta, resp, stream, fsVars>>

\* The receiving user removes a file between two sessions.
UserDelete ==
  /\ sPc = "idle" /\ rPc = "idle" /\ link = "none"
  /\ \E p \in Paths :
       disk[p] # NoFile /\ disk' = [disk EXCEPT ![p] = NoFile]
  /\ sEv' = "none" /\ rEv' = "none"
  /\ UNCHANGED <<conf, sPc, src, sent, rPc, rTotal, resume, received, final, netVars,
                 unpacked, faults>>

-----------------------------------------------------------------------------
(* tcp_send_file                                                           *)

\* fopen of the source fails, for its length or after a response that asks for data:
\* "Cannot open".
CannotOpenSource ==
  /\ \/ sPc = "meta"
     \/ sPc = "wait" /\ resp # NoMsg /\ (resp < Len(src) \/ Len(src) = 0)
  /\ Fault
  /\ SenderReturns("error")
  /\ UNCHANGED <<conf, receiverVars, meta, resp, stream, fsVars>>

SendMeta ==
  /\ sPc = "meta"
  /\ sPc' = "wait"
  /\ meta' = IF link = "lost" THEN meta ELSE Len(src)
  /\ UNCHANGED <<conf, src, sent, sEv, receiverVars, link, resp, stream, fsVars, faults>>

SendMetaFails ==
  /\ sPc = "meta" /\ link = "lost"
  /\ SenderReturns("error")
  /\ UNCHANGED <<conf, receiverVars, meta, resp, stream, fsVars, faults>>

\* The response says where to start; a complete receiver needs nothing.
GetResponse ==
  /\ sPc = "wait" /\ resp # NoMsg
  /\ IF resp >= Len(src) /\ Len(src) > 0
     THEN SenderReturns("done")
     ELSE sPc' = "send" /\ sent' = resp /\ UNCHANGED <<src, sEv, link>>
  /\ UNCHANGED <<conf, receiverVars, meta, resp, stream, fsVars, faults>>

\* Seeded fault: the wait for the response has no timeout.
NoResponseUntilLost ==
  /\ sPc = "wait" /\ link = "lost"
  /\ SenderReturns("none")
  /\ UNCHANGED <<conf, receiverVars, meta, resp, stream, fsVars, faults>>

\* No response in time, or end of file: the function returns -1 and tells the
\* user nothing.  A prompt may keep the sender waiting for any length of time.
NoResponse ==
  /\ sPc = "wait"
  /\ \/ link = "lost" /\ UNCHANGED faults
     \/ link # "lost" /\ resp = NoMsg /\ rPc = "prompt" /\ UNCHANGED faults
     \/ link # "lost" /\ resp = NoMsg /\ rPc # "prompt" /\ Fault
  /\ SenderReturns("none")
  /\ UNCHANGED <<conf, receiverVars, meta, resp, stream, fsVars>>

\* fread and sock_write_full move at most a buffer; on a dead link the local
\* socket buffer still takes the bytes.
SendData ==
  /\ sPc = "send"
  /\ \E n \in 1 .. BufferSize :
       /\ sent + n <= Len(src)
       /\ link # "lost" => Len(stream) + n <= SockBuf
       /\ sent' = sent + n
       /\ stream' = IF link = "lost" THEN stream
                    ELSE stream \o SubSeq(src, sent + 1, sent + n)
  /\ UNCHANGED <<conf, sPc, src, sEv, receiverVars, link, meta, resp, fsVars, faults>>

SendFails ==
  /\ sPc = "send" /\ sent < Len(src) /\ link = "lost"
  /\ SenderReturns("error")
  /\ UNCHANGED <<conf, receiverVars, meta, resp, stream, fsVars, faults>>

\* fread comes up empty (the file shrank): returns -2 and tells nobody.
SourceEndsEarly ==
  /\ sPc = "send" /\ sent < Len(src) /\ Fault
  /\ SenderReturns("none")
  /\ UNCHANGED <<conf, receiverVars, meta, resp, stream, fsVars>>

\* Seeded fault: done is reported without comparing sent with the total.
SendDoneUnchecked ==
  /\ sPc = "send"
  /\ SenderReturns("done")
  /\ UNCHANGED <<conf, receiverVars, meta, resp, stream, fsVars, faults>>

SendDone ==
  /\ sPc = "send" /\ sent >= Len(src)
  /\ SenderReturns("done")
  /\ UNCHANGED <<conf, receiverVars, meta, resp, stream, fsVars, faults>>

-----------------------------------------------------------------------------
(* tcp_recv_file                                                           *)

Accept ==
  /\ rPc = "idle" /\ link = "queued"
  /\ rPc' = "meta" /\ link' = "open"
  /\ UNCHANGED <<conf, senderVars, rTotal, resume, received, final, rEv,
                 meta, resp, stream, fsVars, faults>>

RecvMeta ==
  /\ rPc = "meta" /\ meta \notin {NoMsg, BadMagic}
  /\ rTotal' = meta
  /\ resume' = ResumeOffset(meta)
  /\ rPc' = IF conf.autoAccept THEN "respond" ELSE "prompt"
  /\ UNCHANGED <<conf, senderVars, received, final, rEv, netVars, fsVars, faults>>

\* End of file or timeout: nobody is told.
NoMeta ==
  /\ rPc = "meta" /\ meta = NoMsg /\ (sPc = "idle" \/ link = "lost")
  /\ ReceiverReturns("none")
  /\ UNCHANGED <<conf, senderVars, rTotal, resume, received, final, meta, resp, stream,
                 fsVars, faults>>

ProtocolMismatch ==
  /\ rPc = "meta" /\ meta = BadMagic
  /\ ReceiverReturns("error")
  /\ UNCHANGED <<conf, senderVars, rTotal, resume, received, final, meta, resp, stream,
                 fsVars, faults>>

UserAccepts ==
  /\ rPc = "prompt"
  /\ rPc' = "respond"
  /\ UNCHANGED <<conf, senderVars, rTotal, resume, received, final, rEv, netVars, fsVars,
                 faults>>

UserRejects ==
  /\ rPc = "prompt" /\ Fault
  /\ ReceiverReturns("error")
  /\ UNCHANGED <<conf, senderVars, rTotal, resume, received, final, meta, resp, stream, fsVars>>

\* The response goes out before the overwrite policy is looked at.
Respond ==
  /\ rPc = "respond"
  /\ rPc' = "open" /\ received' = resume
  /\ resp' = IF link = "lost" THEN resp ELSE resume
  /\ UNCHANGED <<conf, senderVars, rTotal, resume, final, rEv, link, meta, stream, fsVars,
                 faults>>

RespondFails ==
  /\ rPc = "respond" /\ (link = "lost" \/ sPc = "idle")
  /\ ReceiverReturns("error")
  /\ UNCHANGED <<conf, senderVars, rTotal, resume, received, final, meta, resp, stream,
                 fsVars, faults>>

SkipExisting ==
  /\ rPc = "open" /\ RootTaken /\ conf.policy = "skip"
  /\ ReceiverReturns("error")
  /\ UNCHANGED <<conf, senderVars, rTotal, resume, received, final, meta, resp, stream,
                 fsVars, faults>>

OpenFile ==
  /\ rPc = "open" /\ ~(RootTaken /\ conf.policy = "skip")
  /\ \E p \in OpenTargets :
       final' = p /\ disk' = [disk EXCEPT ![p] = OpenedContent(p)]
  /\ rPc' = "recv"
  /\ UNCHANGED <<conf, senderVars, rTotal, resume, received, rEv, netVars, unpacked, faults>>

CannotCreate ==
  /\ rPc = "open" /\ ~(RootTaken /\ conf.policy = "skip") /\ Fault
  /\ ReceiverReturns("error")
  /\ UNCHANGED <<conf, senderVars, rTotal, resume, received, final, meta, resp, stream, fsVars>>

RecvData ==
  /\ rPc = "recv"
  /\ \E n \in 1 .. BufferSize : \E k \in Stored(n) :
       /\ n <= Len(stream) /\ received + n <= rTotal
       /\ received' = received + n
       /\ disk' = [disk EXCEPT ![final] = @ \o SubSeq(stream, 1, k)]
       /\ stream' = SubSeq(stream, n + 1, Len(stream))
  /\ UNCHANGED <<conf, senderVars, rPc, rTotal, resume, final, rEv, link, meta, resp,
                 unpacked, faults>>

\* Seeded fault: a read of 0 bytes (end of file) is not an error.
RecvIgnoresEof ==
  /\ rPc = "recv" /\ received < rTotal /\ link = "lost"
  /\ ReceiverReturns("error")
  /\ UNCHANGED <<conf, senderVars, rTotal, resume, received, final, meta, resp, stream,
                 fsVars, faults>>

\* "Receive timeout" or "Receive failed": the partial file stays.
RecvFails ==
  /\ rPc = "recv" /\ received < rTotal
  /\ link = "lost" \/ (sPc = "idle" /\ stream = <<>>)
  /\ ReceiverReturns("error")
  /\ UNCHANGED <<conf, senderVars, rTotal, resume, received, final, meta, resp, stream,
                 fsVars, faults>>

\* Seeded fault: the receive loop waits for one byte more than the total.
RecvDoneOffByOne ==
  /\ rPc = "recv" /\ received > rTotal /\ ~conf.isDir
  /\ ReceiverReturns("done")
  /\ UNCHANGED <<conf, senderVars, rTotal, resume, received, final, meta, resp, stream,
                 fsVars, faults>>

RecvDone ==
  /\ rPc = "recv" /\ received >= rTotal /\ ~conf.isDir
  /\ ReceiverReturns("done")
  /\ UNCHANGED <<conf, senderVars, rTotal, resume, received, final, meta, resp, stream,
                 fsVars, faults>>

\* extract_archive, then unlink of the archive.
Extract ==
  /\ rPc = "recv" /\ received >= rTotal /\ conf.isDir
  /\ unpacked' = unpacked \union {s \in Sources : s = disk[final]}
  /\ disk' = [disk EXCEPT ![final] = NoFile]
  /\ ReceiverReturns("done")
  /\ UNCHANGED <<conf, senderVars, rTotal, resume, received, final, meta, resp, stream, faults>>

\* The archive cannot be opened: it stays in the save directory.
ExtractFails ==
  /\ rPc = "recv" /\ received >= rTotal /\ conf.isDir /\ Fault
  /\ ReceiverReturns("error")
  /\ UNCHANGED <<conf, senderVars, rTotal, resume, received, final, meta, resp, stream, fsVars>>

-----------------------------------------------------------------------------
SenderStep ==
  \/ SendMeta \/ SendMetaFails \/ GetResponse \/ NoResponse
  \/ SendData \/ SendFails \/ SendDone

ReceiverStep ==
  \/ Accept \/ RecvMeta \/ NoMeta \/ ProtocolMismatch
  \/ Respond \/ RespondFails \/ SkipExisting \/ OpenFile
  \/ RecvData \/ RecvFails \/ RecvDone \/ Extract

UserStep == StartSession \/ OtherClient \/ UserDelete \/ UserAccepts \/ UserRejects

FaultStep == Break \/ CannotOpenSource \/ SourceEndsEarly \/ CannotCreate \/ ExtractFails

Next == SenderStep \/ ReceiverStep \/ UserStep \/ FaultStep

Spec == Init /\ [][Next]_vars

(***************************************************************************)
(* Fairness.  Both programs run: a step one of them can take, select's     *)
(* timeout included, is taken in the end.  Users and faults owe nothing,   *)
(* except in RetrySpec, whose user sends the file again after a failure.   *)
(***************************************************************************)
FairSpec == Spec /\ WF_vars(SenderStep)
                 /\ WF_vars(ReceiverStep)

RetrySpec == FairSpec /\ WF_vars(StartSession)

-----------------------------------------------------------------------------
(***************************************************************************)
(* Assumptions on the environment under which resuming is sound.  The code *)
(* compares lengths only, so it has to be that the sent file changes, if   *)
(* at all, by growing at its end, that a foreign file of the same name is  *)
(* not shorter than the sent one, and that every fwrite succeeds.          *)
(***************************************************************************)
Prefix(s, t) == Len(s) <= Len(t) /\ \A i \in 1 .. Len(s) : s[i] = t[i]

SourcesGrow == \A a, b \in Sources : Prefix(a, b) \/ Prefix(b, a)

ForeignNotShorter ==
  \A f \in InitialFiles \ {NoFile}, s \in Sources : Len(f) >= Len(s)

ResumeIsSafe == SourcesGrow /\ ForeignNotShorter /\ ~DiskMayFill

-----------------------------------------------------------------------------
(* Safety.                                                                 *)

\* Whatever was interrupted, retried and resumed, every file in the save
\* directory is what was there at first or a prefix of the sent file: no block
\* is skipped, doubled or out of order (transfer.c:526-530, 617-647).
PartialIsPrefix ==
  \A p \in Paths :
    disk[p] # NoFile =>
      disk[p] \in InitialFiles \/ \E s \in Sources : Prefix(disk[p], s)

\* When the receiver reports the transfer done, the file sent in this session
\* is in its save directory, or unpacked there (transfer.c:651-663).
DoneMeansStored ==
  rEv = "done" => IF conf.isDir THEN src \in unpacked ELSE disk[final] = src

\* When the sender reports done over a connection that still stands, the
\* receiver's count and the bytes on their way make up the whole file: the
\* offsets the two ends agreed on in the handshake match (transfer.c:441-491).
DoneMeansInFlight ==
  sEv = "done" /\ link = "open" /\ rPc = "recv"
    => received + Len(stream) = rTotal

\* A file is never shortened or rewritten in place, except by the policy that
\* says so, by the user, by unpacking an archive, or when all CopyLimit - 1
\* names "base (n)ext" are taken and the last one is reused (586-647).
FilesOnlyGrow ==
  [][\A p \in Paths :
       disk[p] # NoFile /\ disk'[p] # disk[p] =>
         \/ conf.policy = "overwrite" /\ p = Root
         \/ conf.policy = "rename" /\ p = CopyLimit - 1
         \/ disk'[p] = NoFile /\ (rPc = "idle" \/ conf.isDir)
         \/ disk'[p] # NoFile /\ Prefix(disk[p], disk'[p])]_vars

-----------------------------------------------------------------------------
(* Refinement.                                                             *)

Delivery == INSTANCE FileDelivery WITH
              dir <- disk, offered <- src, report <- rEv

\* Seen from the save directory and the receiving user the protocol is the simple
\* service of FileDelivery: a copy is only ever started afresh or continued at its
\* end with the offered content, and only a complete one is reported done
\* (tcp_recv_file, 497-664).
IsFileDelivery == Delivery!Spec

-----------------------------------------------------------------------------
(* Liveness.                                                               *)

\* A sender never hangs: it returns from tcp_send_file, whatever the receiver,
\* its user and the network do (the timeouts of sock_read_full and
\* sock_write_full).
SenderReturnsInTheEnd == sPc # "idle" ~> sPc = "idle"

\* A receiver that is not waiting for its user returns to net_accept.
ReceiverReturnsInTheEnd ==
  rPc \notin {"idle", "prompt"} ~> rPc \in {"idle", "prompt"}

\* With finitely many faults and a user who tries again the file arrives, if
\* nobody is asked and the policy is rename or overwrite: no leftover of a broken
\* session stands in the way of the next one (transfer.c:523-613).
RetryDelivers ==
  conf.autoAccept /\ conf.policy # "skip" => <>(rEv = "done")

-----------------------------------------------------------------------------
(* What the documentation says of the program.                             *)

\* README.md:328: exit code 0 is "Transfer completed successfully".  For the receiver: done
\* means the content is there.
ReceiverDoneMeansStored == DoneMeansStored
=============================================================================
