------------------------------- MODULE Listener -------------------------------
(***************************************************************************)
(* The command line program's persistent TCP listener (cli_main,           *)
(* src/src/cli.c:553-600, with net_listen_ip, net_accept and net_destroy   *)
(* of src/src/network.c), the sending programs that connect to it          *)
(* (cli.c:504-551), and scanners' probes.                                  *)
(*                                                                         *)
(* The listener makes one listening socket per connection it accepts and   *)
(* closes it after that connection's transfer; meanwhile the kernel keeps  *)
(* completing connections up to the backlog.  The transfer itself is one   *)
(* step here: TcpTransfer models it.                                       *)
(***************************************************************************)
EXTENDS Integers, Sequences, FiniteSets

CONSTANTS
  Senders,        \* sending programs; each is run once
  Probe,          \* a connection that is closed at once and says nothing
  NoClient,
  Backlog,        \* listen's second argument, 1 in the code
  MaxTries,       \* 60 in the code: connection attempts of a sender
  MaxConnections, \* cfg.max_connections, 0 is no limit
  MaxFaults       \* bound on system errors, broken transfers, rejections

ASSUME ClientsAssumption ==
  /\ IsFiniteSet(Senders)
  /\ Probe \notin Senders /\ NoClient \notin Senders \union {Probe}

ASSUME NumbersAssumption ==
  /\ {Backlog, MaxConnections, MaxFaults} \subseteq Nat
  /\ MaxTries \in Nat \ {0}

VARIABLES
  asks,     \* auto_accept is off and the user answers on stdin
  rPc,      \* where the receive loop is; the port is open unless "loop" or "ended"
  count,    \* transfer_count
  queue,    \* connections the kernel has completed and accept has not taken
  client,   \* the connection being served
  sender,   \* of each sender: idle, trying, waiting, or its exit: ok, failed
  tries,    \* local variable tries of each sender
  arrivals, \* history: connections the kernel completed
  accepted, \* history: connections accept returned
  faults

receiverVars == <<rPc, count, client>>
senderVars   == <<sender, tries>>
history      == <<arrivals, accepted>>
listenerVars == <<asks, receiverVars, queue, senderVars, history, faults>>

\* The values each variable may take (cli.c:504-600).
TypeOK ==
  /\ asks \in BOOLEAN
  /\ rPc \in {"loop", "accept", "meta", "prompt", "data", "close", "ended"}
  /\ count \in Nat /\ (MaxConnections > 0 => count <= MaxConnections)
  /\ queue \in Seq(Senders \union {Probe}) /\ Len(queue) <= Backlog + 1
  /\ client \in Senders \union {Probe, NoClient}
  /\ sender \in [Senders -> {"idle", "trying", "waiting", "ok", "failed"}]
  /\ tries \in [Senders -> 0 .. MaxTries]
  /\ arrivals \in Nat /\ accepted \in Nat
  /\ faults \in 0 .. MaxFaults

Init ==
  /\ asks \in BOOLEAN
  /\ rPc = "loop" /\ count = 0 /\ client = NoClient /\ queue = <<>>
  /\ sender = [s \in Senders |-> "idle"] /\ tries = [s \in Senders |-> 0]
  /\ arrivals = 0 /\ accepted = 0 /\ faults = 0

-----------------------------------------------------------------------------
Fault == faults < MaxFaults /\ faults' = faults + 1

\* Linux completes one connection more than the backlog says.
Reachable == rPc \notin {"loop", "ended"} /\ Len(queue) <= Backlog

Arrive(c) ==
  /\ Reachable
  /\ queue' = Append(queue, c) /\ arrivals' = arrivals + 1

Goto(pc) == rPc' = pc /\ UNCHANGED <<count, client>>

-----------------------------------------------------------------------------
(* The receive loop.                                                       *)

\* The function then ends without a return statement: its exit code is whatever
\* happens to be there, and is left out.
LimitReached ==
  /\ rPc = "loop" /\ MaxConnections > 0 /\ count >= MaxConnections
  /\ Goto("ended")
  /\ UNCHANGED <<asks, queue, senderVars, history, faults>>

\* Seeded fault: the limit is compared with > instead of >=.
GoesOnPastLimit == rPc = "loop" /\ (MaxConnections = 0 \/ count <= MaxConnections)

GoesOn == rPc = "loop" /\ (MaxConnections = 0 \/ count < MaxConnections)

\* net_create or net_listen_ip fails: the program ends.
CannotListen ==
  /\ GoesOn /\ Fault
  /\ Goto("ended")
  /\ UNCHANGED <<asks, queue, senderVars, history>>

\* transfer_count is raised before anybody has connected.
Listen ==
  /\ GoesOn
  /\ rPc' = "accept" /\ count' = count + 1
  /\ UNCHANGED <<asks, client, queue, senderVars, history, faults>>

Accept ==
  /\ rPc = "accept" /\ queue # <<>>
  /\ rPc' = "meta" /\ client' = Head(queue)
  /\ queue' = Tail(queue) /\ accepted' = accepted + 1
  /\ UNCHANGED <<asks, count, senderVars, arrivals, faults>>

AcceptFails ==
  /\ rPc = "accept" /\ Fault
  /\ Goto("close")
  /\ UNCHANGED <<asks, queue, senderVars, history>>

\* Seeded fault: the end of a probe's connection is not noticed.
NoMetaUnlessBroken ==
  /\ rPc = "meta" /\ client # Probe /\ Fault
  /\ Goto("close")
  /\ UNCHANGED <<asks, queue, senderVars, history>>

\* Seeded fault: the wait for the meta record is too short for a slow sender.
NoMetaInTime ==
  /\ rPc = "meta"
  /\ Goto("close")
  /\ UNCHANGED <<asks, queue, senderVars, history, faults>>

\* End of file or a time-out instead of a meta record.
NoMeta ==
  /\ rPc = "meta"
  /\ \/ client = Probe /\ UNCHANGED faults
     \/ client # Probe /\ Fault
  /\ Goto("close")
  /\ UNCHANGED <<asks, queue, senderVars, history>>

\* A sender writes its meta record as soon as it is connected; it is there even if
\* the sender has given up since.
GetMeta ==
  /\ rPc = "meta" /\ client \in Senders
  /\ Goto(IF asks THEN "prompt" ELSE "data")
  /\ UNCHANGED <<asks, queue, senderVars, history, faults>>

UserAccepts ==
  /\ rPc = "prompt"
  /\ Goto("data")
  /\ UNCHANGED <<asks, queue, senderVars, history, faults>>

UserRejects ==
  /\ rPc = "prompt" /\ Fault
  /\ Goto("close")
  /\ UNCHANGED <<asks, queue, senderVars, history>>

\* Seeded fault: a complete transfer is counted a second time.
TransferDoneCounted ==
  /\ rPc = "data" /\ sender[client] = "waiting"
  /\ sender' = [sender EXCEPT ![client] = "ok"]
  /\ rPc' = "close" /\ count' = count + 1
  /\ UNCHANGED <<asks, client, queue, tries, history, faults>>

TransferDone ==
  /\ rPc = "data" /\ sender[client] = "waiting"
  /\ sender' = [sender EXCEPT ![client] = "ok"]
  /\ Goto("close")
  /\ UNCHANGED <<asks, queue, tries, history, faults>>

\* The sender has given up, or the connection breaks; a sender whose last bytes
\* were in flight thinks that it is done.
TransferFails ==
  /\ rPc = "data"
  /\ \/ sender[client] = "failed" /\ UNCHANGED <<sender, faults>>
     \/ /\ sender[client] = "waiting" /\ Fault
        /\ \E r \in {"ok", "failed"} : sender' = [sender EXCEPT ![client] = r]
  /\ Goto("close")
  /\ UNCHANGED <<asks, queue, tries, history>>

\* net_destroy closes the listening socket, too: the kernel resets what is queued.
Close ==
  /\ rPc = "close"
  /\ rPc' = "loop" /\ client' = NoClient /\ queue' = <<>>
  /\ LET cut == {client} \union {queue[i] : i \in DOMAIN queue}
     IN  sender' = [s \in Senders |->
                      IF s \in cut /\ sender[s] = "waiting" THEN "failed" ELSE sender[s]]
  /\ UNCHANGED <<asks, count, tries, history, faults>>

-----------------------------------------------------------------------------
(* The senders, and scanners.                                              *)

RunSender(s) ==
  /\ sender[s] = "idle"
  /\ sender' = [sender EXCEPT ![s] = "trying"]
  /\ UNCHANGED <<asks, receiverVars, queue, tries, history, faults>>

CannotPrepare(s) ==
  /\ sender[s] = "trying" /\ tries[s] = 0 /\ Fault
  /\ sender' = [sender EXCEPT ![s] = "failed"]
  /\ UNCHANGED <<asks, receiverVars, queue, tries, history>>

Connect(s) ==
  /\ sender[s] = "trying"
  /\ Arrive(s)
  /\ sender' = [sender EXCEPT ![s] = "waiting"]
  /\ UNCHANGED <<asks, receiverVars, tries, accepted, faults>>

\* Seeded fault: attempts are not counted.
ConnectFailsUncounted(s) ==
  /\ sender[s] = "trying" /\ ~Reachable
  /\ UNCHANGED <<asks, receiverVars, queue, senderVars, history, faults>>

\* Refused, or not answered because the backlog is full.
ConnectFails(s) ==
  /\ sender[s] = "trying" /\ ~Reachable
  /\ tries' = [tries EXCEPT ![s] = @ + 1]
  /\ sender' = [sender EXCEPT ![s] = IF tries[s] + 1 = MaxTries THEN "failed" ELSE @]
  /\ UNCHANGED <<asks, receiverVars, queue, history, faults>>

Queued(s) == \E i \in DOMAIN queue : queue[i] = s

\* sock_read_full's time-out for the response: behind another transfer, or while
\* the user reads the prompt.
ResponseTimesOut(s) ==
  /\ sender[s] = "waiting"
  /\ \/ Queued(s) /\ client # NoClient
     \/ client = s /\ rPc = "prompt"
  /\ sender' = [sender EXCEPT ![s] = "failed"]
  /\ UNCHANGED <<asks, receiverVars, queue, tries, history, faults>>

ProbeArrives ==
  /\ Arrive(Probe)
  /\ UNCHANGED <<asks, receiverVars, senderVars, accepted, faults>>

-----------------------------------------------------------------------------
ReceiverStep ==
  \/ LimitReached \/ Listen \/ Accept \/ NoMeta \/ GetMeta
  \/ TransferDone \/ TransferFails \/ Close

SenderStep(s) == Connect(s) \/ ConnectFails(s) \/ ResponseTimesOut(s)

EnvironmentStep ==
  \/ CannotListen \/ AcceptFails \/ UserAccepts \/ UserRejects
  \/ \E s \in Senders : RunSender(s) \/ CannotPrepare(s)

ListenerNext == ReceiverStep \/ EnvironmentStep \/ \E s \in Senders : SenderStep(s)

\* By itself: probes come at any time.
Next == ListenerNext \/ ProbeArrives

\* Programs run; users owe nothing.
ListenerFairness ==
  /\ WF_listenerVars(ReceiverStep)
  /\ \A s \in Senders : WF_listenerVars(SenderStep(s))

Spec == Init /\ [][Next]_listenerVars /\ ListenerFairness

-----------------------------------------------------------------------------
(* What holds.                                                             *)

\* A listener that met no error ends only when max_connections connections have
\* been accepted, no slot is lost or used twice (cli.c:558-580); a scanner's probes
\* are among them.
EachSlotIsUsed ==
  rPc = "ended" /\ faults = 0 => accepted = MaxConnections

\* A sender that has the listener for itself, without errors and prompts, fails
\* only if the port was never open when it tried: who is dropped after "Connected!"
\* (cli.c:543) was dropped because of another connection (net_destroy 618).
LoneSenderIsServed ==
  arrivals <= 1 /\ faults = 0 /\ ~asks =>
    \A s \in Senders : sender[s] = "failed" => tries[s] = MaxTries

\* A sending program comes to an end, with exit code 0 or 1, whatever the listener
\* does: refused, queued behind others, or kept by a prompt (cli.c:521-551).
SendersEnd ==
  \A s \in Senders : sender[s] = "trying" ~> sender[s] \in {"ok", "failed"}

\* A probe never keeps the listener (scanner.c:148-149).
ProbesPassThrough == client = Probe ~> client # Probe
=============================================================================
