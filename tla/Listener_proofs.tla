--------------------------- MODULE Listener_proofs ---------------------------
(***************************************************************************)
(* Theorems about Listener, for any senders, backlog, limit and faults.    *)
(***************************************************************************)
EXTENDS Listener, TLAPS

-----------------------------------------------------------------------------
(* Type correctness.                                                       *)

\* A sender has tries left as long as it tries, and none used before it is run.
TriesLeft ==
  \A s \in Senders :
    /\ sender[s] = "idle" => tries[s] = 0
    /\ sender[s] = "trying" => tries[s] < MaxTries

TInv == TypeOK /\ TriesLeft

LEMMA InitTInv == Init => TInv
BY NumbersAssumption DEF Init, TInv, TypeOK, TriesLeft

\* The receive loop's steps, and those of the system under it.
LEMMA ReceiverTInv ==
  ASSUME TInv,
         LimitReached \/ Listen \/ Accept \/ NoMeta \/ GetMeta \/ TransferDone
           \/ TransferFails \/ Close \/ CannotListen \/ AcceptFails \/ UserAccepts
           \/ UserRejects \/ ProbeArrives
  PROVE  TInv'
<1> USE NumbersAssumption, ClientsAssumption
<1> USE DEF TInv, TypeOK, TriesLeft, Goto, Fault, receiverVars, senderVars, history
<1>1. CASE LimitReached  BY <1>1 DEF LimitReached
<1>2. CASE Listen        BY <1>2 DEF Listen, GoesOn
<1>3. CASE Accept
  <2>1. /\ Head(queue) \in Senders \union {Probe}
        /\ Tail(queue) \in Seq(Senders \union {Probe})
        /\ Len(Tail(queue)) <= Backlog + 1
    BY <1>3 DEF Accept
  <2>2. QED
    BY <1>3, <2>1 DEF Accept
<1>4. CASE NoMeta        BY <1>4 DEF NoMeta
<1>5. CASE GetMeta       BY <1>5 DEF GetMeta
<1>6. CASE TransferDone  BY <1>6 DEF TransferDone
<1>7. CASE TransferFails BY <1>7 DEF TransferFails
<1>8. CASE Close
  <2>1. /\ queue' = <<>> /\ rPc' = "loop" /\ client' = NoClient
        /\ UNCHANGED <<asks, count, tries, arrivals, accepted, faults>>
    BY <1>8 DEF Close
  <2>2. /\ sender' \in [Senders -> {"idle", "trying", "waiting", "ok", "failed"}]
        /\ \A s \in Senders : sender'[s] \in {"idle", "trying"} => sender'[s] = sender[s]
    BY <1>8 DEF Close
  <2>3. QED
    BY <2>1, <2>2
<1>9. CASE CannotListen  BY <1>9 DEF CannotListen
<1>10. CASE AcceptFails  BY <1>10 DEF AcceptFails
<1>11. CASE UserAccepts  BY <1>11 DEF UserAccepts
<1>12. CASE UserRejects  BY <1>12 DEF UserRejects
<1>13. CASE ProbeArrives BY <1>13 DEF ProbeArrives, Arrive, Reachable
<1>14. QED
  BY <1>1, <1>2, <1>3, <1>4, <1>5, <1>6, <1>7, <1>8, <1>9, <1>10, <1>11, <1>12, <1>13

\* A sender's steps.
LEMMA SenderTInv ==
  ASSUME TInv, NEW s \in Senders,
         RunSender(s) \/ CannotPrepare(s) \/ SenderStep(s)
  PROVE  TInv'
<1> USE NumbersAssumption, ClientsAssumption
<1> USE DEF TInv, TypeOK, TriesLeft, Fault, receiverVars, senderVars, history
<1>1. CASE RunSender(s)        BY <1>1 DEF RunSender
<1>2. CASE CannotPrepare(s)    BY <1>2 DEF CannotPrepare
<1>3. CASE Connect(s)          BY <1>3 DEF Connect, Arrive, Reachable
<1>4. CASE ConnectFails(s)     BY <1>4 DEF ConnectFails
<1>5. CASE ResponseTimesOut(s) BY <1>5 DEF ResponseTimesOut
<1>6. QED
  BY <1>1, <1>2, <1>3, <1>4, <1>5 DEF SenderStep

LEMMA StepTInv == TInv /\ [Next]_listenerVars => TInv'
<1> SUFFICES ASSUME TInv, [Next]_listenerVars PROVE TInv'
  OBVIOUS
<1>1. CASE UNCHANGED listenerVars
  BY <1>1 DEF TInv, TypeOK, TriesLeft, listenerVars, receiverVars, senderVars, history
<1>2. CASE Next
  BY <1>2, ReceiverTInv, SenderTInv DEF Next, ListenerNext, ReceiverStep, EnvironmentStep
<1>3. QED
  BY <1>1, <1>2

LEMMA AlwaysTInv == Spec => []TInv
BY InitTInv, StepTInv, PTL DEF Spec

\* The listener's variables keep their types, its count never passes max_connections
\* and a sender's tries never pass their limit (cli.c:504-600).
THEOREM TypeCorrect == Spec => []TypeOK
<1>1. TInv => TypeOK
  BY DEF TInv
<1>2. QED
  BY AlwaysTInv, <1>1, PTL

-----------------------------------------------------------------------------
(* The slots of max_connections.                                           *)

\* Without faults the count is that of the accepted connections, one ahead while the
\* loop waits in accept; and the program ends only at the limit.
SlotsInv ==
  faults = 0 =>
    /\ count = IF rPc = "accept" THEN accepted + 1 ELSE accepted
    /\ rPc = "ended" => MaxConnections > 0 /\ count >= MaxConnections

LEMMA InitSlots == Init => SlotsInv
BY DEF Init, SlotsInv

LEMMA StepSlots == TInv /\ SlotsInv /\ [Next]_listenerVars => SlotsInv'
<1> SUFFICES ASSUME TInv, SlotsInv, [Next]_listenerVars PROVE SlotsInv'
  OBVIOUS
<1> faults \in Nat /\ accepted \in Nat /\ count \in Nat
  BY NumbersAssumption DEF TInv, TypeOK
<1> USE NumbersAssumption
<1> USE DEF SlotsInv, Goto, Fault, receiverVars, senderVars, history
<1>1. CASE UNCHANGED listenerVars BY <1>1 DEF listenerVars
<1>2. CASE LimitReached           BY <1>2 DEF LimitReached
<1>3. CASE Listen                 BY <1>3 DEF Listen, GoesOn
<1>4. CASE Accept                 BY <1>4 DEF Accept
<1>5. CASE NoMeta                 BY <1>5 DEF NoMeta
<1>6. CASE GetMeta                BY <1>6 DEF GetMeta
<1>7. CASE TransferDone           BY <1>7 DEF TransferDone
<1>8. CASE TransferFails          BY <1>8 DEF TransferFails
<1>9. CASE Close                  BY <1>9 DEF Close
<1>10. CASE CannotListen \/ AcceptFails \/ UserRejects
  BY <1>10 DEF CannotListen, AcceptFails, UserRejects
<1>11. CASE UserAccepts           BY <1>11 DEF UserAccepts
<1>12. CASE ProbeArrives          BY <1>12 DEF ProbeArrives, Arrive
<1>13. ASSUME NEW s \in Senders, RunSender(s) \/ CannotPrepare(s) \/ SenderStep(s)
       PROVE  SlotsInv'
  <2>1. CASE RunSender(s)        BY <2>1 DEF RunSender
  <2>2. CASE CannotPrepare(s)    BY <2>2 DEF CannotPrepare
  <2>3. CASE Connect(s)          BY <2>3 DEF Connect, Arrive
  <2>4. CASE ConnectFails(s)     BY <2>4 DEF ConnectFails
  <2>5. CASE ResponseTimesOut(s) BY <2>5 DEF ResponseTimesOut
  <2>6. QED
    BY <1>13, <2>1, <2>2, <2>3, <2>4, <2>5 DEF SenderStep
<1>14. QED
  BY <1>1, <1>2, <1>3, <1>4, <1>5, <1>6, <1>7, <1>8, <1>9, <1>10, <1>11, <1>12, <1>13
     DEF Next, ListenerNext, ReceiverStep, EnvironmentStep

\* A listener that met no error has accepted max_connections connections when it
\* ends, neither more nor fewer, whoever connects and whatever becomes of the
\* transfers (cli.c:557-600).
THEOREM SlotsAreUsed == Spec => []EachSlotIsUsed
<1>1. TInv /\ SlotsInv => EachSlotIsUsed
  BY NumbersAssumption DEF TInv, TypeOK, SlotsInv, EachSlotIsUsed
<1>2. Spec => []SlotsInv
  BY InitSlots, StepSlots, AlwaysTInv, PTL DEF Spec
<1>3. QED
  BY AlwaysTInv, <1>1, <1>2, PTL

-----------------------------------------------------------------------------
(* A lone sender.                                                          *)

Alone == arrivals <= 1 /\ faults = 0 /\ ~asks

\* The one connection is queued or served, and who is served waits until it is done.
Served ==
  /\ rPc # "prompt" /\ Len(queue) <= 1
  /\ client # NoClient => arrivals = 1 /\ queue = <<>>
  /\ queue # <<>> => arrivals = 1
  /\ rPc \in {"meta", "data", "close"} => client # NoClient
  /\ rPc \in {"loop", "accept", "ended"} => client = NoClient
  /\ rPc \in {"loop", "ended"} => queue = <<>>
  /\ rPc = "data" => client \in Senders

Waits ==
  \A s \in Senders :
    /\ Queued(s) \/ (client = s /\ rPc \in {"meta", "data"}) => sender[s] = "waiting"
    /\ client = s /\ rPc = "close" => sender[s] = "ok"
    /\ sender[s] = "failed" => tries[s] = MaxTries

LoneInv == Alone => Served /\ Waits

LEMMA ZeroOrOne == \A n \in Nat : n <= 1 /\ n # 0 => n = 1
OBVIOUS

LEMMA NoneLeft ==
  ASSUME NEW S, NEW q \in Seq(S), Len(q) = 0
  PROVE  q = <<>>
OBVIOUS

LEMMA InitLone == Init => LoneInv
BY DEF Init, LoneInv, Served, Waits, Queued

LEMMA StepLone == TInv /\ LoneInv /\ [Next]_listenerVars => LoneInv'
<1> SUFFICES ASSUME TInv, LoneInv, [Next]_listenerVars, Alone' PROVE Served' /\ Waits'
  BY DEF LoneInv
<1> USE ClientsAssumption, NumbersAssumption
<1>t. /\ arrivals \in Nat /\ faults \in Nat /\ queue \in Seq(Senders \union {Probe})
      /\ sender \in [Senders -> {"idle", "trying", "waiting", "ok", "failed"}]
      /\ tries \in [Senders -> 0 .. MaxTries]
      /\ client \in Senders \union {Probe, NoClient}
      /\ rPc \in {"loop", "accept", "meta", "prompt", "data", "close", "ended"}
  BY DEF TInv, TypeOK
<1>f. ~Fault
  BY <1>t DEF Fault, Alone
<1>k. ASSUME UNCHANGED <<asks, arrivals, faults>>
      PROVE  Alone /\ Served /\ Waits
  BY <1>k DEF Alone, LoneInv
<1> USE DEF Goto, receiverVars, senderVars, history
<1>1. CASE UNCHANGED listenerVars
  BY <1>1, <1>k DEF listenerVars, Served, Waits, Queued
<1>2. CASE LimitReached
  BY <1>2, <1>k DEF LimitReached, Served, Waits, Queued
<1>3. CASE Listen
  BY <1>3, <1>k DEF Listen, GoesOn, Served, Waits, Queued
<1>4. CASE Accept
  <2>1. Served /\ Waits /\ Alone
    BY <1>4, <1>k DEF Accept
  <2>2. queue # <<>> /\ Len(queue) = 1 /\ 1 \in DOMAIN queue /\ Head(queue) = queue[1]
        /\ Tail(queue) = <<>> /\ Head(queue) \in Senders \union {Probe}
    <3>1. queue # <<>> /\ Len(queue) = 1
      <4>1. queue # <<>> /\ Len(queue) <= 1
        BY <1>4, <2>1 DEF Accept, Served
      <4>2. Len(queue) \in Nat /\ Len(queue) # 0
        BY <1>t, <4>1
      <4> QED
        BY <4>1, <4>2, ZeroOrOne
    <3>2. Tail(queue) \in Seq(Senders \union {Probe}) /\ Len(Tail(queue)) = 0
      BY <1>t, <3>1
    <3>3. Tail(queue) = <<>>
      BY <3>2, NoneLeft
    <3>4. 1 \in DOMAIN queue /\ Head(queue) = queue[1] /\ queue[1] \in Senders \union {Probe}
      BY <1>t, <3>1
    <3> QED
      BY <3>1, <3>3, <3>4
  <2>3. queue' = <<>> /\ client' = Head(queue) /\ rPc' = "meta" /\ UNCHANGED <<sender, tries, arrivals>>
    BY <1>4, <2>2 DEF Accept
  <2>4. Served'
    BY <2>1, <2>2, <2>3 DEF Served
  <2>5. \A s \in Senders : client' = s => Queued(s)
    BY <2>2, <2>3 DEF Queued
  <2>6. Waits'
    BY <2>1, <2>3, <2>5 DEF Waits, Queued
  <2> QED
    BY <2>4, <2>6
<1>5. CASE NoMeta
  BY <1>5, <1>f, <1>k DEF NoMeta, Served, Waits, Queued
<1>6. CASE GetMeta
  BY <1>6, <1>k DEF GetMeta, Served, Waits, Queued, Alone
<1>7. CASE TransferDone
  <2>1. Served /\ Waits
    BY <1>7, <1>k DEF TransferDone
  <2>2. queue = <<>>
    BY <1>7, <2>1 DEF TransferDone, Served
  <2>3. Served'
    BY <1>7, <2>1, <2>2 DEF TransferDone, Served
  <2> QED
    BY <1>7, <1>t, <2>1, <2>2, <2>3 DEF TransferDone, Waits, Queued
<1>8. CASE TransferFails
  <2>1. sender[client] = "failed" /\ rPc = "data" /\ UNCHANGED <<asks, arrivals, faults>>
    BY <1>8, <1>f DEF TransferFails
  <2>2. Served /\ Waits
    BY <1>k, <2>1
  <2>3. client \in Senders
    BY <2>1, <2>2 DEF Served
  <2> QED
    BY <2>1, <2>2, <2>3 DEF Waits
<1>9. CASE Close
  <2>1. Served /\ Waits
    BY <1>9, <1>k DEF Close
  <2>2. queue = <<>> /\ rPc = "close"
    BY <1>9, <2>1 DEF Close, Served
  <2>3. sender' = sender
    <3>1. \A s \in Senders : client = s => sender[s] = "ok"
      BY <2>1, <2>2 DEF Waits
    <3>2. DOMAIN queue = {}
      BY <2>2
    <3>3. sender' = [s \in Senders |->
                      IF s \in {client} \union {queue[i] : i \in DOMAIN queue} /\ sender[s] = "waiting"
                      THEN "failed" ELSE sender[s]]
      BY <1>9 DEF Close
    <3>4. sender' = [s \in Senders |-> sender[s]]
      BY <3>1, <3>2, <3>3
    <3> QED
      BY <1>t, <3>4
  <2>4. rPc' = "loop" /\ client' = NoClient /\ queue' = <<>> /\ UNCHANGED <<tries, arrivals>>
    BY <1>9 DEF Close
  <2> QED
    BY <2>1, <2>3, <2>4 DEF Served, Waits, Queued
<1>10. CASE CannotListen \/ AcceptFails \/ UserRejects
  BY <1>10, <1>f DEF CannotListen, AcceptFails, UserRejects
<1>11. CASE UserAccepts
  BY <1>11, <1>k DEF UserAccepts, Served
<1>a. ASSUME NEW c \in Senders \union {Probe}, Arrive(c), UNCHANGED <<asks, faults>>
      PROVE  /\ Served /\ Waits /\ queue = <<>> /\ client = NoClient /\ arrivals = 0
             /\ arrivals' = 1 /\ queue' = <<c>> /\ rPc \notin {"loop", "ended"}
  <2>1. arrivals' = arrivals + 1 /\ rPc \notin {"loop", "ended"} /\ queue' = Append(queue, c)
    BY <1>a DEF Arrive, Reachable
  <2>2. Alone /\ arrivals = 0
    BY <1>a, <1>t, <2>1 DEF Alone
  <2>3. Served /\ Waits
    BY <2>2 DEF LoneInv
  <2>4. queue = <<>> /\ client = NoClient
    BY <2>2, <2>3 DEF Served
  <2> QED
    BY <2>1, <2>2, <2>3, <2>4
<1>12. CASE ProbeArrives
  <2>1. /\ Served /\ Waits /\ queue = <<>> /\ client = NoClient
        /\ arrivals' = 1 /\ queue' = <<Probe>> /\ rPc \notin {"loop", "ended"}
        /\ UNCHANGED <<rPc, client, sender, tries>>
    BY <1>12, <1>a DEF ProbeArrives
  <2>2. \A s \in Senders : ~Queued(s)'
    BY <2>1 DEF Queued
  <2> QED
    BY <2>1, <2>2 DEF Served, Waits
<1>13. ASSUME NEW s \in Senders, RunSender(s) \/ CannotPrepare(s) \/ SenderStep(s)
       PROVE  Served' /\ Waits'
  <2>1. CASE RunSender(s)
    BY <1>k, <1>t, <2>1 DEF RunSender, Served, Waits, Queued
  <2>2. CASE CannotPrepare(s)
    BY <1>f, <2>2 DEF CannotPrepare
  <2>3. CASE Connect(s)
    <3>1. /\ Served /\ Waits /\ queue = <<>> /\ client = NoClient
          /\ arrivals' = 1 /\ queue' = <<s>> /\ rPc \notin {"loop", "ended"}
          /\ UNCHANGED <<rPc, client, tries>> /\ sender' = [sender EXCEPT ![s] = "waiting"]
      BY <1>a, <2>3 DEF Connect
    <3>2. Served'
      BY <3>1 DEF Served
    <3>3. \A r \in Senders : Queued(r)' => r = s
      BY <3>1 DEF Queued
    <3>4. \A r \in Senders : r # s => sender'[r] = sender[r]
      BY <1>t, <3>1
    <3>5. sender'[s] = "waiting"
      BY <1>t, <3>1
    <3> QED
      BY <3>1, <3>2, <3>3, <3>4, <3>5 DEF Waits
  <2>4. CASE ConnectFails(s)
    <3>1. Served /\ Waits /\ sender[s] = "trying"
      BY <1>k, <2>4 DEF ConnectFails
    <3>2. Served'
      BY <2>4, <3>1 DEF ConnectFails, Served
    <3>3. \A r \in Senders : r # s => sender'[r] = sender[r] /\ tries'[r] = tries[r]
      BY <1>t, <2>4 DEF ConnectFails
    <3>4. sender'[s] = "failed" => tries'[s] = MaxTries
      BY <1>t, <2>4 DEF ConnectFails
    <3>5. ~Queued(s) /\ (client = s => rPc \notin {"meta", "data", "close"})
      BY <3>1 DEF Waits
    <3> QED
      BY <2>4, <3>1, <3>2, <3>3, <3>4, <3>5 DEF ConnectFails, Waits, Queued
  <2>5. CASE ResponseTimesOut(s)
    <3>1. Served /\ Queued(s) => queue # <<>>
      BY DEF Queued
    <3> QED
      BY <1>k, <2>5, <3>1 DEF ResponseTimesOut, Served
  <2>6. QED
    BY <1>13, <2>1, <2>2, <2>3, <2>4, <2>5 DEF SenderStep
<1>14. QED
  BY <1>1, <1>2, <1>3, <1>4, <1>5, <1>6, <1>7, <1>8, <1>9, <1>10, <1>11, <1>12, <1>13
     DEF Next, ListenerNext, ReceiverStep, EnvironmentStep

\* Whoever else runs: a sender whose connection is the only one, without errors and prompts, fails
\* only if the port was closed at each of its tries, however few or many the code allows
\* (cli.c:521-551; network.c:618).
THEOREM LoneSenderServed == Spec => []LoneSenderIsServed
<1>1. LoneInv => LoneSenderIsServed
  BY DEF LoneInv, Alone, Waits, LoneSenderIsServed
<1>2. Spec => []LoneInv
  BY InitLone, StepLone, AlwaysTInv, PTL DEF Spec
<1>3. QED
  BY <1>1, <1>2, PTL
=============================================================================
