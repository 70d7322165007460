-------------------------- MODULE GuiControl_proofs --------------------------
(***************************************************************************)
(* Theorems about GuiControl, for any threads, contexts, ports, limits and *)
(* inputs.                                                                 *)
(***************************************************************************)
EXTENDS GuiControl, TLAPS

-----------------------------------------------------------------------------
(* Types.  A thread owns its context: no other thread has it, it is live   *)
(* until the thread frees it, and every live one has its thread.           *)

Pcs == SendPcs \union RecvPcs \union {"none"}

ThreadRec == [kind : {"none", "send", "recv"}, pc : Pcs, nc : Contexts \union {None},
              port : Ports \union {None}, count : Nat]

ThreadOK(r) ==
  /\ r \in ThreadRec
  /\ r.kind = "none" => r = NoThread
  /\ r.kind = "send" => r.pc \in SendPcs /\ r.nc # None
  /\ r.kind = "recv" => r.pc \in RecvPcs /\ (r.nc = None <=> r.pc \in {"loop", "clear"})

ThreadsT ==
  /\ th \in [Threads -> ThreadRec]
  /\ \A t \in Threads : ThreadOK(th[t]) /\ th[t].nc \in live \union {None}
  /\ \A t, u \in Threads : th[t].nc = th[u].nc /\ th[t].nc # None => t = u
  /\ \A c \in live : \E t \in Threads : th[t].nc = c

ContextsT == live \subseteq Contexts /\ cancelled \subseteq live

Events == {"progress", "done", "error", "incoming"}

MainT ==
  /\ uiPc \in {"events", "answer"} \union Checks
  /\ sendRunning \in BOOLEAN /\ recvRunning \in BOOLEAN
  /\ pendingSend \in BOOLEAN /\ pendingRecv \in BOOLEAN
  /\ sendTotal \in BOOLEAN /\ recvTotal \in BOOLEAN /\ modal \in BOOLEAN /\ incoming \in BOOLEAN
  /\ stopAsked \in BOOLEAN
  /\ recvPort \in Ports
  /\ target \in Contexts \union {None}
  /\ inputs \in 0 .. MaxInputs
  /\ sendCredit \in Int
  /\ clicked \in {"none", "accept", "reject"}

SharedT ==
  /\ queue \in Seq(Events)
  /\ activeNc \in Contexts \union {None}
  /\ recvStop \in BOOLEAN /\ acceptPending \in BOOLEAN
  /\ acceptResponse \in {-1, 0, 1}

TInv == ThreadsT /\ ContextsT /\ MainT /\ SharedT

LEMMA TInvType == TInv => TypeOK
<1> SUFFICES ASSUME TInv PROVE TypeOK
  OBVIOUS
<1>1. OneOwner
  BY ContextsAssumption DEF TInv, ThreadsT, ContextsT, OneOwner
<1>2. QED
  BY <1>1 DEF TInv, ThreadsT, ThreadOK, ThreadRec, ContextsT, MainT, SharedT, Events, TypeOK, flags

LEMMA InitTInv == Init => TInv
<1> SUFFICES ASSUME Init PROVE TInv
  OBVIOUS
<1>1. NoThread \in ThreadRec /\ NoThread.kind = "none" /\ NoThread.nc = None
  BY DEF NoThread, ThreadRec, Pcs
<1>2. ThreadsT
  BY <1>1 DEF Init, ThreadsT, ThreadOK
<1>3. ContextsT /\ SharedT
  <2>1. ContextsT
    BY DEF Init, ContextsT
  <2>2. queue \in Seq(Events)
    BY DEF Init
  <2>3. activeNc \in Contexts \union {None} /\ acceptResponse \in {-1, 0, 1}
        /\ recvStop \in BOOLEAN /\ acceptPending \in BOOLEAN
    BY DEF Init
  <2>4. QED
    BY <2>1, <2>2, <2>3 DEF SharedT
<1>4. MainT
  <2>1. inputs \in 0 .. MaxInputs /\ sendCredit \in Int
    BY BoundsAssumption DEF Init
  <2>2. QED
    BY <2>1 DEF Init, MainT
<1>5. QED
  BY <1>2, <1>3, <1>4 DEF TInv

\* One thread moves: it keeps its context, frees it, or gets a new one.
LEMMA ThreadMoves ==
  ASSUME ThreadsT, ContextsT, NEW t \in Threads, NEW r, ThreadOK(r), th' = [th EXCEPT ![t] = r],
         \/ r.nc = th[t].nc /\ UNCHANGED live
         \/ r.nc = None /\ live' = live \ {th[t].nc}
         \/ r.nc \in Contexts \ live /\ live' = live \union {r.nc} /\ th[t].nc = None
  PROVE  ThreadsT'
<1>1. th' \in [Threads -> ThreadRec]
  BY DEF ThreadsT, ThreadOK
<1>2. th'[t] = r /\ \A u \in Threads \ {t} : th'[u] = th[u]
  BY DEF ThreadsT
<1>3. ASSUME NEW u \in Threads \ {t}
      PROVE  ThreadOK(th'[u]) /\ th'[u].nc \in live' \union {None}
             /\ (th'[u].nc # None => th'[u].nc # r.nc)
  <2>1. ThreadOK(th[u]) /\ th[u].nc \in live \union {None}
        /\ (th[u].nc # None => th[u].nc # th[t].nc)
    BY DEF ThreadsT
  <2>2. QED
    BY <1>2, <2>1, ContextsAssumption
<1>4. ThreadOK(th'[t]) /\ th'[t].nc \in live' \union {None}
  BY <1>2 DEF ThreadsT
<1>5. ASSUME NEW c \in live'
      PROVE  \E u \in Threads : th'[u].nc = c
  <2>1. CASE c \in live
    <3>1. PICK u \in Threads : th[u].nc = c
      BY <2>1 DEF ThreadsT
    <3>2. c # None
      BY <2>1, ContextsAssumption DEF ContextsT
    <3>3. QED
      BY <1>2, <1>5, <2>1, <3>1, <3>2
  <2>2. CASE c \notin live
    BY <1>2, <1>5, <2>2
  <2>3. QED
    BY <2>1, <2>2
<1>6. QED
  BY <1>1, <1>2, <1>3, <1>4, <1>5 DEF ThreadsT

\* ... or only goes on.
LEMMA ThreadGoes ==
  ASSUME ThreadsT, ContextsT, NEW t \in Threads, NEW pc, UNCHANGED live, Goto(t, pc),
         \/ th[t].kind = "send" /\ pc \in SendPcs
         \/ th[t].kind = "recv" /\ pc \in RecvPcs \ {"loop", "clear"}
              /\ th[t].pc \notin {"loop", "clear"}
         \/ th[t].kind = "recv" /\ pc = "loop" /\ th[t].pc = "clear"
  PROVE  ThreadsT'
<1> DEFINE r == [th[t] EXCEPT !.pc = pc]
<1>1. th[t] \in ThreadRec /\ ThreadOK(th[t])
  BY DEF ThreadsT
<1>2. r \in ThreadRec /\ r.kind = th[t].kind /\ r.nc = th[t].nc /\ r.pc = pc
  BY <1>1 DEF ThreadRec, Pcs, RecvPcs
<1>3. th' = [th EXCEPT ![t] = r]
  BY DEF Goto
<1> HIDE DEF r
<1>4. ThreadOK(r)
  BY <1>1, <1>2 DEF ThreadOK, RecvPcs
<1>5. QED
  BY <1>2, <1>3, <1>4, ThreadMoves

\* The steps of the workers, as one disjunction.
Worker(t) == SendStep(t) \/ RecvStep(t) \/ XferStep(t) \/ Accept(t)

\* What a worker leaves alone.
LEMMA WorkerLeaves ==
  ASSUME NEW t \in Threads, Worker(t)
  PROVE  UNCHANGED main
BY DEF Worker, SendStep, RecvStep, XferStep, Prepare, Connect, Connected, CloseSend, LeaveLoop,
       Listen, ListenFails, Publish, AcceptCancelled, Ask, PushQuestion, HearAnswer, ActOnAnswer,
       CloseRecv, ClearActive, Progress, Finish, Accept

LEMMA WorkerInputs ==
  ASSUME NEW t \in Threads, Worker(t)
  PROVE  UNCHANGED inputs \/ Input
BY DEF Worker, SendStep, RecvStep, XferStep, Prepare, Connect, Connected, CloseSend, LeaveLoop,
       Listen, ListenFails, Publish, AcceptCancelled, Ask, PushQuestion, HearAnswer, ActOnAnswer,
       CloseRecv, ClearActive, Progress, Finish, Accept

LEMMA WorkerMainT == ASSUME MainT, NEW t \in Threads, Worker(t) PROVE MainT'
<1>1. inputs' \in 0 .. MaxInputs
  BY WorkerInputs, BoundsAssumption DEF MainT, Input
<1>2. UNCHANGED <<uiPc, sendRunning, recvRunning, pendingSend, pendingRecv, sendTotal, recvTotal,
                  modal, incoming, recvPort, target, stopAsked, sendCredit, clicked>>
  BY WorkerLeaves DEF main, flags, shown
<1>3. QED
  BY <1>1, <1>2 DEF MainT

\* The events in the queue stay events.
LEMMA Pushed == ASSUME queue \in Seq(Events), NEW e \in Events, PushEvent(e) PROVE queue' \in Seq(Events)
BY DEF PushEvent

LEMMA Popped == ASSUME queue \in Seq(Events), NEW e, Event(e) PROVE queue' \in Seq(Events)
BY DEF Event

LEMMA WorkerQueue == ASSUME SharedT, NEW t \in Threads, Worker(t) PROVE queue' \in Seq(Events)
<1>1. UNCHANGED queue \/ \E e \in Events : PushEvent(e)
  <2>1. {"progress", "done", "error", "incoming"} = Events
    BY DEF Events
  <2>2. QED
    BY <2>1 DEF Worker, SendStep, RecvStep, XferStep, Prepare, Connect, Connected, CloseSend,
                LeaveLoop, Listen, ListenFails, Publish, AcceptCancelled, Ask, PushQuestion,
                HearAnswer, ActOnAnswer, CloseRecv, ClearActive, Progress, Finish, Accept
<1>2. QED
  BY <1>1, Pushed DEF SharedT

LEMMA WorkerSharedT == ASSUME TInv, NEW t \in Threads, Worker(t) PROVE SharedT'
<1>1. activeNc' \in {activeNc, None, th[t].nc}
  BY DEF Worker, SendStep, RecvStep, XferStep, Prepare, Connect, Connected, CloseSend, LeaveLoop,
         Listen, ListenFails, Publish, AcceptCancelled, Ask, PushQuestion, HearAnswer,
         ActOnAnswer, CloseRecv, ClearActive, Progress, Finish, Accept
<1>2. th[t].nc \in Contexts \union {None}
  BY DEF TInv, ThreadsT, ContextsT
<1>3. recvStop' \in {recvStop, TRUE} /\ acceptPending' \in {acceptPending, TRUE}
      /\ acceptResponse' \in {acceptResponse, 0}
  BY DEF Worker, SendStep, RecvStep, XferStep, Prepare, Connect, Connected, CloseSend, LeaveLoop,
         Listen, ListenFails, Publish, AcceptCancelled, Ask, PushQuestion, HearAnswer,
         ActOnAnswer, CloseRecv, ClearActive, Progress, Finish, Accept, question
<1>4. SharedT
  BY DEF TInv
<1>5. queue' \in Seq(Events)
  BY <1>4, WorkerQueue
<1>6. QED
  BY <1>1, <1>2, <1>3, <1>4, <1>5 DEF SharedT

LEMMA Destroyed ==
  ASSUME ThreadsT, ContextsT, NEW t \in Threads, Destroy(th[t].nc),
         \/ Ends(t)
         \/ th[t].kind = "recv" /\ th' = [th EXCEPT ![t].pc = "clear", ![t].nc = None]
  PROVE  ThreadsT' /\ ContextsT'
<1>1. ContextsT'
  BY DEF Destroy, ContextsT
<1>2. live' = live \ {th[t].nc}
  BY DEF Destroy
<1>3. CASE Ends(t)
  <2>1. ThreadOK(NoThread) /\ NoThread.nc = None
    BY DEF ThreadOK, NoThread, ThreadRec, Pcs
  <2>2. th' = [th EXCEPT ![t] = NoThread]
    BY <1>3 DEF Ends
  <2>3. QED
    BY <1>1, <1>2, <2>1, <2>2, ThreadMoves
<1>4. CASE th[t].kind = "recv" /\ th' = [th EXCEPT ![t].pc = "clear", ![t].nc = None]
  <2> DEFINE r == [th[t] EXCEPT !.pc = "clear", !.nc = None]
  <2>1. th[t] \in ThreadRec
    BY DEF ThreadsT
  <2>2. r \in ThreadRec /\ r.kind = "recv" /\ r.pc = "clear" /\ r.nc = None
    BY <1>4, <2>1 DEF ThreadRec, Pcs, RecvPcs
  <2>3. th' = [th EXCEPT ![t] = r]
    BY <1>4
  <2> HIDE DEF r
  <2>4. ThreadOK(r)
    BY <2>2 DEF ThreadOK, RecvPcs
  <2>5. QED
    BY <1>1, <1>2, <2>2, <2>3, <2>4, ThreadMoves
<1>5. QED
  BY <1>3, <1>4

LEMMA WorkerThreadsT == ASSUME TInv, NEW t \in Threads, Worker(t) PROVE ThreadsT' /\ ContextsT'
<1>0. ThreadsT /\ ContextsT /\ ThreadOK(th[t])
  BY DEF TInv, ThreadsT
<1> USE <1>0
<1>1. CASE Destroy(th[t].nc) /\ Ends(t)
  BY <1>1, Destroyed
<1>2. CASE CloseRecv(t)
  BY <1>2, Destroyed DEF CloseRecv, At
<1>3. CASE UNCHANGED contexts /\ Ends(t) /\ At(t, "recv", "loop")
  <2>1. ThreadOK(NoThread) /\ NoThread.nc = None /\ th[t].nc = None
    BY <1>3 DEF ThreadOK, NoThread, ThreadRec, Pcs, At
  <2>2. th' = [th EXCEPT ![t] = NoThread] /\ UNCHANGED live /\ ContextsT'
    BY <1>3 DEF Ends, contexts, ContextsT
  <2>3. QED
    BY <2>1, <2>2, ThreadMoves
<1>4. CASE Listen(t)
  <2>1. PICK c \in Contexts \ live :
          Create(c) /\ th' = [th EXCEPT ![t].nc = c, ![t].pc = "publish"]
    BY <1>4 DEF Listen
  <2> DEFINE r == [th[t] EXCEPT !.nc = c, !.pc = "publish"]
  <2>2. th[t] \in ThreadRec /\ th[t].kind = "recv"
    BY <1>4 DEF ThreadsT, Listen, At
  <2>3. r \in ThreadRec /\ r.kind = "recv" /\ r.pc = "publish" /\ r.nc = c
    BY <2>2 DEF ThreadRec, Pcs, RecvPcs
  <2>4. th' = [th EXCEPT ![t] = r]
    BY <2>1
  <2> HIDE DEF r
  <2>5. c # None
    BY ContextsAssumption
  <2>6. ThreadOK(r)
    BY <2>3, <2>5 DEF ThreadOK, RecvPcs
  <2>7. live' = live \union {r.nc} /\ r.nc \in Contexts \ live /\ ContextsT'
    BY <2>1, <2>3 DEF Create, ContextsT
  <2>8. th[t].nc = None
    BY <1>4, <2>2 DEF Listen, At, ThreadOK
  <2>9. QED
    BY <2>4, <2>6, <2>7, <2>8, ThreadMoves
<1>5. CASE Publish(t)
  <2> DEFINE n == IF MaxConnections > 0 THEN th[t].count + 1 ELSE th[t].count
             r == [th[t] EXCEPT !.pc = "accept", !.count = n]
  <2>1. th[t] \in ThreadRec /\ th[t].kind = "recv" /\ th[t].pc = "publish"
    BY <1>5 DEF ThreadsT, Publish, At
  <2>2. th[t].count \in Nat
    BY <2>1 DEF ThreadRec
  <2>3. n \in Nat
    BY <2>2
  <2>4. th' = [th EXCEPT ![t] = r]
    BY <1>5 DEF Publish
  <2> HIDE DEF n
  <2>5. r \in ThreadRec /\ r.kind = "recv" /\ r.pc = "accept" /\ r.nc = th[t].nc
    BY <2>1, <2>3 DEF ThreadRec, Pcs, RecvPcs
  <2> HIDE DEF r
  <2>6. ThreadOK(r) /\ UNCHANGED live /\ ContextsT'
    BY <1>5, <2>1, <2>5 DEF ThreadOK, RecvPcs, Publish, contexts, ContextsT
  <2>7. QED
    BY <2>4, <2>5, <2>6, ThreadMoves
<1>6. ASSUME NEW pc, UNCHANGED contexts, Goto(t, pc),
             \/ th[t].kind = "send" /\ pc \in SendPcs
             \/ th[t].kind = "recv" /\ pc \in RecvPcs \ {"loop", "clear"}
                  /\ th[t].pc \notin {"loop", "clear"}
             \/ th[t].kind = "recv" /\ pc = "loop" /\ th[t].pc = "clear"
      PROVE  ThreadsT' /\ ContextsT'
  BY <1>6, ThreadGoes DEF contexts, ContextsT
<1>7. CASE SendStep(t)
  <2>1. \/ Destroy(th[t].nc) /\ Ends(t)
        \/ /\ UNCHANGED contexts /\ th[t].kind = "send"
           /\ \E pc \in {"connect", "connected", "close", "xfer"} : Goto(t, pc)
    BY <1>7 DEF SendStep, Prepare, Connect, Connected, CloseSend, At
  <2>2. {"connect", "connected", "close", "xfer"} \subseteq SendPcs
    BY DEF SendPcs
  <2>3. QED
    BY <1>1, <1>6, <2>1, <2>2
<1>8. CASE XferStep(t)
  <2>1. /\ UNCHANGED contexts /\ th[t].pc \in {"xfer", "end"}
        /\ \E pc \in {"end", "close"} : Goto(t, pc)
    BY <1>8 DEF XferStep, Progress, Finish
  <2>2. th[t].kind \in {"send", "recv"}
    BY <2>1 DEF ThreadOK, ThreadRec, NoThread
  <2>3. {"end", "close"} \subseteq SendPcs /\ {"end", "close"} \subseteq RecvPcs \ {"loop", "clear"}
    BY DEF SendPcs, RecvPcs
  <2>4. QED
    BY <1>6, <2>1, <2>2, <2>3
<1>9. CASE RecvStep(t) \/ Accept(t)
  <2>1. CASE LeaveLoop(t) \/ ListenFails(t)
    BY <1>3, <2>1 DEF LeaveLoop, ListenFails
  <2>2. CASE ClearActive(t)
    <3>1. UNCHANGED contexts /\ Goto(t, "loop") /\ th[t].kind = "recv" /\ th[t].pc = "clear"
      BY <2>2 DEF ClearActive, At
    <3>2. QED
      BY <1>6, <3>1
  <2>3. CASE \/ AcceptCancelled(t) \/ Ask(t) \/ PushQuestion(t) \/ HearAnswer(t)
             \/ ActOnAnswer(t) \/ Accept(t)
    <3>1. /\ UNCHANGED contexts
          /\ th[t].pc \in {"accept", "ask", "push", "wait", "answered", "rejected"}
          /\ \E pc \in {"close", "push", "wait", "answered", "rejected", "xfer", "ask"} : Goto(t, pc)
      BY <2>3 DEF AcceptCancelled, Ask, PushQuestion, HearAnswer, ActOnAnswer, Accept, At
    <3>2. th[t].kind = "recv"
      BY <3>1 DEF ThreadOK, ThreadRec, NoThread, SendPcs
    <3>3. {"close", "push", "wait", "answered", "rejected", "xfer", "ask"}
             \subseteq RecvPcs \ {"loop", "clear"}
      BY DEF RecvPcs
    <3>4. QED
      BY <1>6, <3>1, <3>2, <3>3
  <2>4. QED
    BY <1>2, <1>4, <1>5, <1>9, <2>1, <2>2, <2>3 DEF RecvStep
<1>10. QED
  BY <1>7, <1>8, <1>9 DEF Worker

LEMMA WorkerTInv == ASSUME TInv, NEW t \in Threads, Worker(t) PROVE TInv'
BY WorkerThreadsT, WorkerMainT, WorkerSharedT DEF TInv

-----------------------------------------------------------------------------
(* The main thread.                                                        *)

MainThread == UserStep \/ ClickModal \/ ClickAnswer \/ MainStep

LEMMA NextIs == Next <=> MainThread \/ \E t \in Threads : Worker(t)
BY DEF Next, MainThread, Worker

LEMMA MainThreadsT == ASSUME TInv, MainThread PROVE ThreadsT' /\ ContextsT'
<1>0. ThreadsT /\ ContextsT
  BY DEF TInv
<1> USE <1>0
<1>1. CASE StartSend
  <2>1. CASE UNCHANGED <<th, contexts>>
    BY <2>1 DEF ThreadsT, ContextsT, contexts
  <2>2. CASE ~UNCHANGED <<th, contexts>>
    <3>1. PICK t \in Threads, c \in Contexts \ live :
            Idle(t) /\ Spawn(t, "send", "prepare", c) /\ Create(c)
      BY <1>1, <2>2 DEF StartSend
    <3> DEFINE r == [kind |-> "send", pc |-> "prepare", nc |-> c, port |-> recvPort, count |-> 0]
    <3>2. r \in ThreadRec /\ r.kind = "send" /\ r.pc = "prepare" /\ r.nc = c
      BY DEF ThreadRec, Pcs, SendPcs, TInv, MainT
    <3>3. th' = [th EXCEPT ![t] = r] /\ c # None
      BY <3>1, ContextsAssumption DEF Spawn
    <3> HIDE DEF r
    <3>4. ThreadOK(r)
      BY <3>2, <3>3 DEF ThreadOK, SendPcs
    <3>5. r.nc \in Contexts \ live /\ live' = live \union {r.nc} /\ ContextsT'
      BY <3>1, <3>2 DEF Create, ContextsT
    <3>6. th[t].nc = None
      BY <3>1 DEF Idle, ThreadsT, ThreadOK, NoThread
    <3>7. QED
      BY <3>3, <3>4, <3>5, <3>6, ThreadMoves
  <2>3. QED
    BY <2>1, <2>2
<1>2. CASE StartRecv
  <2>1. CASE UNCHANGED th
    BY <1>2, <2>1 DEF StartRecv, ThreadsT, ContextsT, contexts
  <2>2. CASE ~UNCHANGED th
    <3>1. PICK t \in Threads : Idle(t) /\ Spawn(t, "recv", "loop", None)
      BY <1>2, <2>2 DEF StartRecv
    <3> DEFINE r == [kind |-> "recv", pc |-> "loop", nc |-> None, port |-> recvPort, count |-> 0]
    <3>2. r \in ThreadRec /\ r.kind = "recv" /\ r.pc = "loop" /\ r.nc = None
      BY DEF ThreadRec, Pcs, RecvPcs, TInv, MainT
    <3>3. th' = [th EXCEPT ![t] = r]
      BY <3>1 DEF Spawn
    <3> HIDE DEF r
    <3>4. ThreadOK(r)
      BY <3>2 DEF ThreadOK, RecvPcs
    <3>5. th[t].nc = None /\ UNCHANGED live /\ ContextsT'
      BY <1>2, <3>1 DEF StartRecv, contexts, ContextsT, Idle, ThreadsT, ThreadOK, NoThread
    <3>6. QED
      BY <3>2, <3>3, <3>4, <3>5, ThreadMoves
  <2>3. QED
    BY <2>1, <2>2
<1>3. CASE ~(StartSend \/ StartRecv)
  <2>1. UNCHANGED <<th, live>> /\ (UNCHANGED cancelled \/ \E c : Cancel(c))
    BY <1>3 DEF MainThread, UserStep, MainStep, ClickStart, ClickStop, Escape, ClickModal,
                ClickAnswer, FinishAnswer, OnProgress, OnDone, OnError, OnIncoming, BeginChecks,
                CheckStopSend, CheckStopRecv, CancelTested, contexts
  <2>2. QED
    BY <2>1 DEF ThreadsT, ContextsT, Cancel
<1>4. QED
  BY <1>1, <1>2, <1>3

LEMMA MainSharedT == ASSUME TInv, MainThread PROVE SharedT'
<1>0. SharedT /\ live \subseteq Contexts
  BY DEF TInv, ContextsT
<1>1. queue' \in Seq(Events)
  <2>1. UNCHANGED queue \/ (\E e \in Events : PushEvent(e)) \/ \E e \in Events : Event(e)
    <3>1. {"progress", "done", "error", "incoming"} = Events
      BY DEF Events
    <3>2. QED
      BY <3>1 DEF MainThread, UserStep, MainStep, ClickStart, ClickStop, Escape, ClickModal,
                  ClickAnswer, FinishAnswer, OnProgress, OnDone, OnError, OnIncoming, BeginChecks,
                  CheckStopSend, CheckStopRecv, CancelTested, StartSend, StartRecv
  <2>2. QED
    BY <1>0, <2>1, Pushed, Popped DEF SharedT
<1>2. activeNc' \in Contexts \union {None}
  <2>1. activeNc' \in {activeNc, None} \/ activeNc' \in Contexts
    BY DEF MainThread, UserStep, MainStep, ClickStart, ClickStop, Escape, ClickModal, ClickAnswer,
           FinishAnswer, OnProgress, OnDone, OnError, OnIncoming, BeginChecks, CheckStopSend,
           CheckStopRecv, CancelTested, StartSend, StartRecv, SendIsOver
  <2>2. QED
    BY <1>0, <2>1 DEF SharedT
<1>3. recvStop' \in {recvStop, TRUE, FALSE} /\ acceptPending' \in {acceptPending, FALSE}
  BY DEF MainThread, UserStep, MainStep, ClickStart, ClickStop, Escape, ClickModal, ClickAnswer,
         FinishAnswer, OnProgress, OnDone, OnError, OnIncoming, BeginChecks, CheckStopSend,
         CheckStopRecv, CancelTested, StartSend, StartRecv, question
<1>4. acceptResponse' \in {acceptResponse, 1, -1}
  BY DEF MainThread, UserStep, MainStep, ClickStart, ClickStop, Escape, ClickModal, ClickAnswer,
         FinishAnswer, OnProgress, OnDone, OnError, OnIncoming, BeginChecks, CheckStopSend,
         CheckStopRecv, CancelTested, StartSend, StartRecv, question
<1>5. QED
  BY <1>0, <1>1, <1>2, <1>3, <1>4 DEF SharedT

LEMMA MainMainT == ASSUME TInv, MainThread PROVE MainT'
<1>0. MainT /\ SharedT
  BY DEF TInv
<1> USE <1>0
<1>1. inputs' \in 0 .. MaxInputs
  <2>1. UNCHANGED inputs \/ Input
    BY DEF MainThread, UserStep, MainStep, ClickStart, ClickStop, Escape, ClickModal, ClickAnswer,
           FinishAnswer, OnProgress, OnDone, OnError, OnIncoming, BeginChecks, CheckStopSend,
           CheckStopRecv, CancelTested, StartSend, StartRecv, Clickable
  <2>2. QED
    BY <2>1, BoundsAssumption DEF Input, MainT
<1> USE <1>1
<1>2. CASE ClickStart
  <2>1. /\ sendRunning' \in BOOLEAN /\ sendTotal' \in BOOLEAN
        /\ recvRunning' \in BOOLEAN /\ recvTotal' \in BOOLEAN
    BY <1>2 DEF ClickStart, MainT
  <2>2. sendCredit' \in Int /\ recvPort' \in Ports
    BY <1>2 DEF ClickStart, MainT
  <2>3. UNCHANGED <<uiPc, pendingSend, pendingRecv, modal, incoming, target, stopAsked, clicked>>
    BY <1>2 DEF ClickStart
  <2>4. QED
    BY <2>1, <2>2, <2>3 DEF MainT
<1>3. CASE ClickStop
  BY <1>3 DEF ClickStop, shown, MainT
<1>4. CASE Escape
  BY <1>4 DEF Escape, shown, MainT
<1>5. CASE ClickModal
  BY <1>5 DEF ClickModal, flags, ghosts, MainT
<1>6. CASE ClickAnswer
  BY <1>6 DEF ClickAnswer, flags, MainT
<1>7. CASE FinishAnswer
  BY <1>7 DEF FinishAnswer, flags, shown, ghosts, MainT
<1>8. CASE OnProgress
  BY <1>8 DEF OnProgress, Event, flags, ghosts, MainT
<1>9. CASE OnDone
  BY <1>9 DEF OnDone, SendIsOver, Event, ghosts, MainT
<1>10. CASE OnError
  BY <1>10 DEF OnError, SendIsOver, Event, ghosts, MainT
<1>11. CASE OnIncoming
  BY <1>11 DEF OnIncoming, Event, flags, ghosts, MainT
<1>12. CASE BeginChecks
  BY <1>12 DEF BeginChecks, flags, shown, ghosts, MainT, Checks
<1>13. CASE CheckStopSend
  BY <1>13 DEF CheckStopSend, flags, shown, ghosts, MainT, SharedT, Checks
<1>14. CASE CheckStopRecv
  BY <1>14 DEF CheckStopRecv, flags, shown, ghosts, MainT, SharedT, Checks
<1>15. CASE CancelTested
  BY <1>15 DEF CancelTested, shown, ghosts, MainT, Checks
<1>16. CASE StartSend
  <2>1. pendingSend' \in BOOLEAN
    BY <1>16 DEF StartSend, MainT
  <2>2. sendCredit' \in Int /\ uiPc' \in Checks
    BY <1>16 DEF StartSend, MainT, Checks
  <2>3. UNCHANGED <<sendRunning, recvRunning, pendingRecv, shown, target, stopAsked, clicked>>
    BY <1>16 DEF StartSend
  <2>4. QED
    BY <2>1, <2>2, <2>3 DEF MainT, shown
<1>17. CASE StartRecv
  BY <1>17 DEF StartRecv, shown, ghosts, MainT, Checks
<1>18. QED
  BY <1>2, <1>3, <1>4, <1>5, <1>6, <1>7, <1>8, <1>9, <1>10, <1>11, <1>12, <1>13, <1>14, <1>15,
     <1>16, <1>17 DEF MainThread, UserStep, MainStep

LEMMA StutterTInv == ASSUME TInv, UNCHANGED vars PROVE TInv'
<1>1. UNCHANGED <<th, live, cancelled>> /\ UNCHANGED <<queue, activeNc, recvStop>>
      /\ UNCHANGED <<acceptPending, acceptResponse>>
  BY DEF vars, contexts, question
<1>2. UNCHANGED <<uiPc, sendRunning, recvRunning, pendingSend, pendingRecv, sendTotal, recvTotal,
                  modal, incoming, recvPort, target, inputs, stopAsked, sendCredit, clicked>>
  BY DEF vars, flags, shown, ghosts
<1>3. ThreadsT' /\ ContextsT' /\ SharedT'
  BY <1>1 DEF TInv, ThreadsT, ContextsT, SharedT
<1>4. MainT'
  BY <1>2 DEF TInv, MainT
<1>5. QED
  BY <1>3, <1>4 DEF TInv

LEMMA StepTInv == TInv /\ [Next]_vars => TInv'
<1> SUFFICES ASSUME TInv, [Next]_vars PROVE TInv'
  OBVIOUS
<1>1. CASE MainThread
  BY <1>1, MainThreadsT, MainSharedT, MainMainT DEF TInv
<1>2. QED
  BY <1>1, NextIs, WorkerTInv, StutterTInv

\* Types, and ownership: a context that a thread uses is allocated, and no other thread frees it
\* (main.c:120-216, 297-349).
THEOREM TypeCorrect == Spec => []TypeOK
<1>1. Spec => []TInv
  BY InitTInv, StepTInv, PTL DEF Spec
<1>2. QED
  BY <1>1, TInvType, PTL

-----------------------------------------------------------------------------
(* Nothing is cancelled before the user asks for a stop, and no send thread *)
(* starts without a click.                                                 *)

\* A flag that was taken down while its thread was pending was taken down by the user.
StopInv ==
  /\ NothingCancelledUnasked
  /\ uiPc \in {"cancelSend", "cancelRecv"} => stopAsked
  /\ ~sendRunning /\ pendingSend => stopAsked
  /\ ~recvRunning /\ pendingRecv => stopAsked

\* A send that runs and is not pending has a click to its credit.
CreditInv ==
  /\ OneSendPerStart
  /\ sendRunning /\ ~pendingSend => sendCredit >= 1
  /\ uiPc = "cancelSend" => ~sendRunning

LEMMA WorkerCancels == ASSUME NEW t \in Threads, Worker(t) PROVE cancelled' \subseteq cancelled
BY DEF Worker, SendStep, RecvStep, XferStep, Prepare, Connect, Connected, CloseSend, LeaveLoop,
       Listen, ListenFails, Publish, AcceptCancelled, Ask, PushQuestion, HearAnswer, ActOnAnswer,
       CloseRecv, ClearActive, Progress, Finish, Accept, contexts, Create, Destroy

LEMMA StepStop == ASSUME TInv, StopInv, [Next]_vars PROVE StopInv'
<1> USE DEF StopInv, NothingCancelledUnasked
<1>0. MainT
  BY DEF TInv
<1>1. CASE \E t \in Threads : Worker(t)
  <2>1. UNCHANGED main /\ cancelled' \subseteq cancelled
    BY <1>1, WorkerLeaves, WorkerCancels
  <2>2. QED
    BY <2>1 DEF main, flags
<1>2. CASE ClickStop \/ Escape
  <2>1. stopAsked'
    BY <1>2 DEF ClickStop, Escape
  <2>2. QED
    BY <2>1
<1>3. CASE CancelTested
  <2>1. stopAsked /\ UNCHANGED stopAsked
    BY <1>3 DEF CancelTested, ghosts
  <2>2. QED
    BY <2>1
<1>4. CASE ClickStart
  BY <1>4 DEF ClickStart, Clickable, contexts
<1>5. CASE OnDone \/ OnError
  <2>1. UNCHANGED <<uiPc, cancelled, stopAsked, recvRunning, pendingRecv>>
    BY <1>5 DEF OnDone, OnError, SendIsOver, contexts, ghosts
  <2>2. pendingSend' => ~sendRunning /\ pendingSend
    BY <1>5 DEF OnDone, OnError, SendIsOver
  <2>3. QED
    BY <2>1, <2>2
<1>6. CASE CheckStopSend
  BY <1>6 DEF CheckStopSend, flags, contexts, ghosts
<1>7. CASE CheckStopRecv
  BY <1>7 DEF CheckStopRecv, flags, contexts, ghosts
<1>8. CASE StartSend
  <2>1. cancelled' = cancelled /\ uiPc' = "startRecv"
        /\ UNCHANGED <<sendRunning, recvRunning, pendingRecv, stopAsked>>
    BY <1>8 DEF StartSend, Create, contexts
  <2>2. ~sendRunning => (pendingSend' => pendingSend)
    BY <1>8 DEF StartSend
  <2>3. QED
    BY <2>1, <2>2
<1>9. CASE StartRecv
  BY <1>9 DEF StartRecv, contexts, ghosts
<1>10. CASE ClickModal \/ ClickAnswer \/ FinishAnswer \/ OnProgress \/ OnIncoming \/ BeginChecks
  BY <1>10 DEF ClickModal, ClickAnswer, FinishAnswer, OnProgress, OnIncoming, BeginChecks, Event,
               flags, contexts, ghosts
<1>11. CASE UNCHANGED vars
  BY <1>11 DEF vars, flags, contexts, ghosts
<1>12. QED
  BY <1>1, <1>2, <1>3, <1>4, <1>5, <1>6, <1>7, <1>8, <1>9, <1>10, <1>11, NextIs
     DEF MainThread, UserStep, MainStep

LEMMA StepCredit == ASSUME TInv, CreditInv, [Next]_vars PROVE CreditInv'
<1> USE DEF CreditInv, OneSendPerStart
<1>0. sendCredit \in Int /\ MainT
  BY DEF TInv, MainT
<1>1. CASE \E t \in Threads : Worker(t)
  <2>1. UNCHANGED main
    BY <1>1, WorkerLeaves
  <2>2. QED
    BY <2>1 DEF main, flags
<1>2. CASE ClickStop \/ Escape
  BY <1>2 DEF ClickStop, Escape, Clickable
<1>3. CASE CancelTested
  BY <1>3 DEF CancelTested, ghosts
<1>4. CASE ClickStart
  <2>1. /\ uiPc' = "events" /\ UNCHANGED pendingSend
        /\ \/ sendCredit' = sendCredit + 1
           \/ UNCHANGED <<sendRunning, sendCredit>>
    BY <1>4 DEF ClickStart, Clickable
  <2>2. QED
    BY <1>0, <2>1
<1>5. CASE OnDone \/ OnError
  BY <1>5 DEF OnDone, OnError, SendIsOver, Event, ghosts
<1>6. CASE CheckStopSend
  BY <1>6 DEF CheckStopSend, flags, ghosts
<1>7. CASE CheckStopRecv
  BY <1>7 DEF CheckStopRecv, flags, ghosts
<1>8. CASE StartSend
  <2>1. UNCHANGED sendRunning /\ uiPc' = "startRecv"
    BY <1>8 DEF StartSend
  <2>2. CASE sendRunning /\ ~pendingSend /\ ~sendTotal
    <3>1. pendingSend' = TRUE /\ sendCredit' \in {sendCredit - 1, sendCredit} /\ sendCredit >= 1
      BY <1>8, <2>2 DEF StartSend
    <3>2. QED
      BY <1>0, <2>1, <3>1
  <2>3. CASE ~(sendRunning /\ ~pendingSend /\ ~sendTotal)
    <3>1. UNCHANGED sendCredit /\ (sendRunning /\ ~pendingSend' => ~pendingSend)
      BY <1>8, <2>3 DEF StartSend
    <3>2. QED
      BY <2>1, <3>1
  <2>4. QED
    BY <2>2, <2>3
<1>9. CASE StartRecv
  BY <1>9 DEF StartRecv, ghosts
<1>10. CASE ClickModal \/ ClickAnswer \/ FinishAnswer \/ OnProgress \/ OnIncoming \/ BeginChecks
  BY <1>10 DEF ClickModal, ClickAnswer, FinishAnswer, OnProgress, OnIncoming, BeginChecks, Event,
               flags, ghosts
<1>11. CASE UNCHANGED vars
  BY <1>11 DEF vars, flags, ghosts
<1>12. QED
  BY <1>1, <1>2, <1>3, <1>4, <1>5, <1>6, <1>7, <1>8, <1>9, <1>10, <1>11, NextIs
     DEF MainThread, UserStep, MainStep

\* Whatever the events of one transfer do to the flags of the other, no context is cancelled
\* before the user has pressed Stop or ESC (main.c:495-534, 571-610, 618-629).
THEOREM StopsAreAsked == Spec => []NothingCancelledUnasked
<1>1. Init => StopInv
  BY DEF Init, StopInv, NothingCancelledUnasked
<1>2. StopInv => NothingCancelledUnasked
  BY DEF StopInv
<1>3. TInv /\ StopInv /\ [Next]_vars => TInv' /\ StopInv'
  BY StepTInv, StepStop
<1>4. QED
  BY <1>1, <1>2, <1>3, InitTInv, PTL DEF Spec

\* However Start, Stop, late events and checks are interleaved, there are never more send threads
\* than Start clicks (main.c:631-651).
THEOREM SendsAreAsked == Spec => []OneSendPerStart
<1>1. Init => CreditInv
  BY DEF Init, CreditInv, OneSendPerStart
<1>2. CreditInv => OneSendPerStart
  BY DEF CreditInv
<1>3. TInv /\ CreditInv /\ [Next]_vars => TInv' /\ CreditInv'
  BY StepTInv, StepCredit
<1>4. QED
  BY <1>1, <1>2, <1>3, InitTInv, PTL DEF Spec

-----------------------------------------------------------------------------
(* The question about an incoming transfer.                                *)

Asked(q) == \E i \in DOMAIN q : q[i] = "incoming"

LEMMA AskedAppend ==
  ASSUME NEW q \in Seq(Events), NEW e \in Events
  PROVE  Asked(Append(q, e)) <=> Asked(q) \/ e = "incoming"
<1>1. CASE Asked(q)
  BY <1>1 DEF Asked
<1>2. CASE e = "incoming"
  <2>1. Len(q) + 1 \in DOMAIN Append(q, e) /\ Append(q, e)[Len(q) + 1] = e
    OBVIOUS
  <2>2. QED
    BY <1>2, <2>1 DEF Asked
<1>3. CASE ~Asked(q) /\ e # "incoming"
  BY <1>3 DEF Asked
<1>4. QED
  BY <1>1, <1>2, <1>3

LEMMA AskedTail ==
  ASSUME NEW q \in Seq(Events), q # <<>>
  PROVE  Asked(q) <=> Head(q) = "incoming" \/ Asked(Tail(q))
<1>1. /\ Len(q) \in Nat \ {0} /\ Tail(q) \in Seq(Events) /\ Len(Tail(q)) = Len(q) - 1
      /\ Head(q) = q[1] /\ \A i \in 1 .. Len(q) - 1 : Tail(q)[i] = q[i + 1]
      /\ DOMAIN q = 1 .. Len(q) /\ DOMAIN Tail(q) = 1 .. Len(q) - 1
  OBVIOUS
<1>2. ASSUME Asked(q), Head(q) # "incoming" PROVE Asked(Tail(q))
  <2>1. PICK i \in 1 .. Len(q) : q[i] = "incoming"
    BY <1>2 DEF Asked
  <2>2. i - 1 \in 1 .. Len(q) - 1 /\ Tail(q)[i - 1] = "incoming"
    BY <1>1, <1>2, <2>1
  <2>3. QED
    BY <1>1, <2>2 DEF Asked
<1>3. ASSUME Asked(Tail(q)) PROVE Asked(q)
  <2>1. PICK i \in 1 .. Len(q) - 1 : Tail(q)[i] = "incoming"
    BY <1>1, <1>3 DEF Asked
  <2>2. i + 1 \in 1 .. Len(q) /\ q[i + 1] = "incoming"
    BY <1>1, <2>1
  <2>3. QED
    BY <1>1, <2>2 DEF Asked
<1>4. ASSUME Head(q) = "incoming" PROVE Asked(q)
  BY <1>1, <1>4 DEF Asked
<1>5. QED
  BY <1>2, <1>3, <1>4

\* A worker's step moves no thread but its own.
LEMMA OthersStay ==
  ASSUME ThreadsT, NEW t \in Threads, Worker(t), NEW u \in Threads, u # t
  PROVE  th'[u] = th[u]
BY DEF ThreadsT, Worker, SendStep, RecvStep, XferStep, Prepare, Connect, Connected, CloseSend,
       LeaveLoop, Listen, ListenFails, Publish, AcceptCancelled, Ask, PushQuestion, HearAnswer,
       ActOnAnswer, CloseRecv, ClearActive, Progress, Finish, Accept, Goto, Ends

\* The main thread moves none that is running.
LEMMA RunningStay ==
  ASSUME ThreadsT, MainThread, NEW u \in Threads, th[u].kind # "none"
  PROVE  th'[u] = th[u]
<1>1. UNCHANGED th \/ \E t \in Threads : \E k, p, c : Idle(t) /\ Spawn(t, k, p, c)
  BY DEF MainThread, UserStep, MainStep, ClickStart, ClickStop, Escape, ClickModal, ClickAnswer,
         FinishAnswer, OnProgress, OnDone, OnError, OnIncoming, BeginChecks, CheckStopSend,
         CheckStopRecv, CancelTested, StartSend, StartRecv
<1>2. QED
  BY <1>1 DEF Idle, Spawn, ThreadsT

\* What a worker's step does to the question.
LEMMA WorkerAsks ==
  ASSUME TInv, NEW t \in Threads, Worker(t)
  PROVE  \/ /\ Ask(t) /\ acceptPending' = TRUE /\ acceptResponse' = 0 /\ UNCHANGED queue
            /\ At(t, "recv", "ask") /\ At(t, "recv", "push")'
         \/ /\ PushQuestion(t) /\ UNCHANGED question /\ queue' = Append(queue, "incoming")
            /\ At(t, "recv", "push") /\ At(t, "recv", "wait")'
         \/ /\ UNCHANGED question /\ ~At(t, "recv", "push") /\ ~At(t, "recv", "push")'
            /\ (Asked(queue') <=> Asked(queue))
<1>0. ThreadsT /\ th[t] \in ThreadRec /\ queue \in Seq(Events)
  BY DEF TInv, ThreadsT, SharedT
<1>1. CASE Ask(t)
  BY <1>0, <1>1 DEF Ask, At, Goto, ThreadsT, ThreadRec
<1>2. CASE PushQuestion(t)
  BY <1>0, <1>2 DEF PushQuestion, At, Goto, PushEvent, ThreadsT, ThreadRec
<1>3. CASE ~(Ask(t) \/ PushQuestion(t))
  <2>1. UNCHANGED question
    BY <1>3 DEF Worker, SendStep, RecvStep, XferStep, Prepare, Connect, Connected, CloseSend,
                LeaveLoop, Listen, ListenFails, Publish, AcceptCancelled, HearAnswer,
                ActOnAnswer, CloseRecv, ClearActive, Progress, Finish, Accept
  <2>2. UNCHANGED queue \/ \E e \in {"progress", "done", "error"} : PushEvent(e)
    BY <1>3 DEF Worker, SendStep, RecvStep, XferStep, Prepare, Connect, Connected, CloseSend,
                LeaveLoop, Listen, ListenFails, Publish, AcceptCancelled, HearAnswer,
                ActOnAnswer, CloseRecv, ClearActive, Progress, Finish, Accept
  <2>3. Asked(queue') <=> Asked(queue)
    <3>1. CASE UNCHANGED queue
      BY <3>1
    <3>2. CASE \E e \in {"progress", "done", "error"} : PushEvent(e)
      <4>1. PICK e \in Events : e # "incoming" /\ queue' = Append(queue, e)
        BY <3>2 DEF PushEvent, Events
      <4>2. QED
        BY <1>0, <4>1, AskedAppend
    <3>3. QED
      BY <2>2, <3>1, <3>2
  <2>4. th[t].pc # "push"
    BY <1>3 DEF Worker, SendStep, RecvStep, XferStep, Prepare, Connect, Connected, CloseSend,
                LeaveLoop, Listen, ListenFails, Publish, AcceptCancelled, HearAnswer,
                ActOnAnswer, CloseRecv, ClearActive, Progress, Finish, Accept, At
  <2>5. th'[t].pc # "push"
    <3>1. \/ Ends(t)
          \/ \E pc \in Pcs \ {"push"} : Goto(t, pc)
          \/ \E c : th' = [th EXCEPT ![t].nc = c, ![t].pc = "publish"]
          \/ \E n : th' = [th EXCEPT ![t].pc = "accept", ![t].count = n]
          \/ th' = [th EXCEPT ![t].pc = "clear", ![t].nc = None]
      <4>1. CASE SendStep(t) \/ XferStep(t)
        BY <4>1 DEF SendStep, XferStep, Prepare, Connect, Connected, CloseSend, Progress, Finish,
                    Pcs, SendPcs
      <4>2. CASE Listen(t)
        BY <4>2 DEF Listen
      <4>3. CASE Publish(t)
        BY <1>0, <4>3 DEF Publish, ThreadsT
      <4>4. CASE CloseRecv(t)
        BY <4>4 DEF CloseRecv
      <4>5. CASE LeaveLoop(t) \/ ListenFails(t)
        BY <4>5 DEF LeaveLoop, ListenFails
      <4>6. CASE \/ AcceptCancelled(t) \/ HearAnswer(t) \/ ActOnAnswer(t) \/ ClearActive(t)
                 \/ Accept(t)
        BY <4>6 DEF AcceptCancelled, HearAnswer, ActOnAnswer, ClearActive, Accept, Pcs, RecvPcs
      <4>7. QED
        BY <1>3, <4>1, <4>2, <4>3, <4>4, <4>5, <4>6 DEF Worker, RecvStep
    <3>2. CASE Ends(t)
      BY <1>0, <3>2 DEF Ends, NoThread, ThreadsT
    <3>3. CASE \E pc \in Pcs \ {"push"} : Goto(t, pc)
      BY <1>0, <3>3 DEF Goto, ThreadsT, ThreadRec
    <3>4. CASE \E c : th' = [th EXCEPT ![t].nc = c, ![t].pc = "publish"]
      BY <1>0, <3>4 DEF ThreadsT, ThreadRec
    <3>5. CASE \E n : th' = [th EXCEPT ![t].pc = "accept", ![t].count = n]
      BY <1>0, <3>5 DEF ThreadsT, ThreadRec
    <3>6. CASE th' = [th EXCEPT ![t].pc = "clear", ![t].nc = None]
      BY <1>0, <3>6 DEF ThreadsT, ThreadRec
    <3>7. QED
      BY <3>1, <3>2, <3>3, <3>4, <3>5, <3>6
  <2>6. QED
    BY <2>1, <2>3, <2>4, <2>5 DEF At
<1>4. QED
  BY <1>1, <1>2, <1>3

\* Every step of the main thread but those about the question leaves it alone.
LEMMA MainAsks ==
  ASSUME TInv, MainThread
  PROVE  \/ ClickAnswer
         \/ FinishAnswer
         \/ OnIncoming
         \/ /\ UNCHANGED <<question, incoming, clicked>> /\ (Asked(queue') <=> Asked(queue))
            /\ uiPc # "answer" /\ uiPc' # "answer"
<1>0. queue \in Seq(Events)
  BY DEF TInv, SharedT
<1>1. CASE ~(ClickAnswer \/ FinishAnswer \/ OnIncoming)
  <2>1. /\ UNCHANGED <<question, incoming, clicked>>
        /\ uiPc # "answer" /\ uiPc' # "answer"
    BY <1>1 DEF MainThread, UserStep, MainStep, ClickStart, ClickStop, Escape, ClickModal,
                OnProgress, OnDone, OnError, BeginChecks, CheckStopSend, CheckStopRecv,
                CancelTested, StartSend, StartRecv, Clickable, Event, shown, ghosts
  <2>2. \/ UNCHANGED queue
        \/ PushEvent("error")
        \/ \E e \in {"progress", "done", "error"} : Event(e)
    BY <1>1 DEF MainThread, UserStep, MainStep, ClickStart, ClickStop, Escape, ClickModal,
                OnProgress, OnDone, OnError, BeginChecks, CheckStopSend, CheckStopRecv,
                CancelTested, StartSend, StartRecv
  <2>3. Asked(queue') <=> Asked(queue)
    <3>1. CASE UNCHANGED queue
      BY <3>1
    <3>2. CASE PushEvent("error")
      BY <1>0, <3>2, AskedAppend DEF PushEvent, Events
    <3>3. CASE \E e \in {"progress", "done", "error"} : Event(e)
      <4>1. queue # <<>> /\ Head(queue) # "incoming" /\ queue' = Tail(queue)
        BY <3>3 DEF Event
      <4>2. QED
        BY <1>0, <4>1, AskedTail
    <3>4. QED
      BY <2>2, <3>1, <3>2, <3>3
  <2>4. QED
    BY <2>1, <2>3
<1>2. QED
  BY <1>1

LEMMA StepShown == ASSUME TInv, QuestionIsShown, [Next]_vars PROVE QuestionIsShown'
<1>0. ThreadsT /\ queue \in Seq(Events)
  BY DEF TInv, SharedT
<1> USE DEF QuestionIsShown
<1> SUFFICES ASSUME acceptPending'
             PROVE  \/ incoming' \/ uiPc' = "answer" \/ Asked(queue')
                    \/ \E u \in Threads : At(u, "recv", "push")'
  BY DEF Asked
<1>1. ASSUME acceptPending
      PROVE  \/ incoming \/ uiPc = "answer" \/ Asked(queue)
             \/ \E u \in Threads : At(u, "recv", "push")
  BY <1>1 DEF Asked
<1>2. CASE \E t \in Threads : Worker(t)
  <2>1. PICK t \in Threads : Worker(t)
    BY <1>2
  <2>2. UNCHANGED <<incoming, uiPc>>
    BY <2>1, WorkerLeaves DEF main, shown
  <2>3. CASE Ask(t) /\ At(t, "recv", "push")'
    BY <2>3
  <2>4. CASE queue' = Append(queue, "incoming")
    BY <1>0, <2>4, AskedAppend DEF Events
  <2>5. CASE UNCHANGED question /\ ~At(t, "recv", "push") /\ (Asked(queue') <=> Asked(queue))
    <3>1. acceptPending
      BY <2>5 DEF question
    <3>2. CASE \E u \in Threads : At(u, "recv", "push")
      <4>1. PICK u \in Threads : At(u, "recv", "push")
        BY <3>2
      <4>2. th'[u] = th[u]
        BY <1>0, <2>1, <2>5, <4>1, OthersStay
      <4>3. QED
        BY <4>1, <4>2 DEF At
    <3>3. QED
      BY <1>1, <2>2, <2>5, <3>1, <3>2
  <2>6. QED
    BY <2>1, <2>3, <2>4, <2>5, WorkerAsks
<1>3. CASE MainThread
  <2>1. CASE ClickAnswer
    BY <2>1 DEF ClickAnswer
  <2>2. CASE FinishAnswer
    BY <2>2 DEF FinishAnswer
  <2>3. CASE OnIncoming
    BY <2>3 DEF OnIncoming
  <2>4. CASE /\ UNCHANGED <<question, incoming, clicked>> /\ (Asked(queue') <=> Asked(queue))
             /\ uiPc # "answer" /\ uiPc' # "answer"
    <3>1. acceptPending
      BY <2>4 DEF question
    <3>2. CASE \E u \in Threads : At(u, "recv", "push")
      <4>1. PICK u \in Threads : At(u, "recv", "push")
        BY <3>2
      <4>2. th'[u] = th[u]
        BY <1>0, <1>3, <4>1, RunningStay DEF At
      <4>3. QED
        BY <4>1, <4>2 DEF At
    <3>3. QED
      BY <1>1, <2>4, <3>1, <3>2
  <2>5. QED
    BY <1>3, <2>1, <2>2, <2>3, <2>4, MainAsks
<1>4. CASE UNCHANGED vars
  BY <1>1, <1>4 DEF vars, question, shown, At
<1>5. QED
  BY <1>2, <1>3, <1>4, NextIs

\* A receive thread that waits for an answer can get one: its question is on the screen, or on
\* its way there (main.c:267-292, 553-569).
THEOREM QuestionsAreShown == Spec => []QuestionIsShown
<1>1. Init => QuestionIsShown
  BY DEF Init, QuestionIsShown
<1>2. TInv /\ QuestionIsShown /\ [Next]_vars => TInv' /\ QuestionIsShown'
  BY StepTInv, StepShown
<1>3. QED
  BY <1>1, <1>2, InitTInv, PTL DEF Spec

-----------------------------------------------------------------------------
(* One port, one listener: the answer that is heard was given to this       *)
(* question.                                                               *)

OnePort == \A p, q \in Ports : p = q

\* A receive thread whose socket is open.
Busy(t) == th[t].kind = "recv" /\ th[t].nc # None

PortsInv ==
  /\ \A t \in Threads : th[t].kind = "recv" => th[t].port \in Ports
  /\ \A t, u \in Threads : Busy(t) /\ Busy(u) /\ th[t].port = th[u].port => t = u

\* What a worker's step does to its own port.
LEMMA WorkerPort ==
  ASSUME ThreadsT, NEW t \in Threads, Worker(t), th'[t].kind = "recv"
  PROVE  /\ th[t].kind = "recv" /\ th'[t].port = th[t].port
         /\ Busy(t)' => Busy(t) \/ PortFree(th[t].port)
<1>0. th[t] \in ThreadRec
  BY DEF ThreadsT
<1>1. \/ Ends(t)
      \/ \E pc : Goto(t, pc) /\ (th[t].pc \in {"xfer", "end", "answered", "rejected"}
                                   \/ th[t].kind \in {"send", "recv"})
      \/ Listen(t) \/ Publish(t) \/ CloseRecv(t)
  BY DEF Worker, SendStep, RecvStep, XferStep, Prepare, Connect, Connected, CloseSend, LeaveLoop,
         ListenFails, AcceptCancelled, Ask, PushQuestion, HearAnswer, ActOnAnswer, ClearActive,
         Progress, Finish, Accept, At
<1>2. CASE Ends(t)
  BY <1>2 DEF Ends, NoThread, ThreadsT
<1>3. CASE \E pc : Goto(t, pc)
  BY <1>0, <1>3 DEF Goto, ThreadsT, ThreadRec, Busy
<1>4. CASE Listen(t)
  <2>1. PICK c : th' = [th EXCEPT ![t].nc = c, ![t].pc = "publish"]
    BY <1>4 DEF Listen
  <2>2. th'[t].kind = th[t].kind /\ th'[t].port = th[t].port
    BY <1>0, <2>1 DEF ThreadsT, ThreadRec
  <2>3. PortFree(th[t].port)
    BY <1>4 DEF Listen
  <2>4. QED
    BY <2>2, <2>3
<1>5. CASE Publish(t)
  <2>1. PICK n : th' = [th EXCEPT ![t].pc = "accept", ![t].count = n]
    BY <1>0, <1>5 DEF Publish, ThreadsT
  <2>2. QED
    BY <1>0, <2>1 DEF ThreadsT, ThreadRec, Busy
<1>6. CASE CloseRecv(t)
  <2>1. th' = [th EXCEPT ![t].pc = "clear", ![t].nc = None]
    BY <1>6 DEF CloseRecv
  <2>2. QED
    BY <1>0, <2>1 DEF ThreadsT, ThreadRec, Busy
<1>7. QED
  BY <1>1, <1>2, <1>3, <1>4, <1>5, <1>6

LEMMA FreePort ==
  ASSUME ThreadsT, NEW u \in Threads, Busy(u), NEW p, PortFree(p)
  PROVE  th[u].port # p
BY DEF ThreadsT, Busy, PortFree

LEMMA StepPorts == ASSUME TInv, PortsInv, [Next]_vars PROVE PortsInv'
<1>0. ThreadsT /\ recvPort \in Ports
  BY DEF TInv, MainT
<1>1. CASE \E t \in Threads : Worker(t)
  <2>1. PICK t \in Threads : Worker(t)
    BY <1>1
  <2>2. \A u \in Threads \ {t} : th'[u] = th[u] /\ (Busy(u)' <=> Busy(u))
    BY <1>0, <2>1, OthersStay DEF Busy
  <2>3. th'[t].kind = "recv" => th'[t].port \in Ports
    BY <1>0, <2>1, WorkerPort DEF PortsInv
  <2>4. ASSUME Busy(t)', NEW u \in Threads \ {t}, Busy(u) PROVE th'[t].port # th[u].port
    <3>1. th'[t].kind = "recv"
      BY <2>4 DEF Busy
    <3>2. th'[t].port = th[t].port /\ (Busy(t) \/ PortFree(th[t].port))
      BY <1>0, <2>1, <2>4, <3>1, WorkerPort
    <3>3. CASE Busy(t)
      BY <2>4, <3>2, <3>3 DEF PortsInv
    <3>4. CASE PortFree(th[t].port)
      BY <1>0, <2>4, <3>2, <3>4, FreePort
    <3>5. QED
      BY <3>2, <3>3, <3>4
  <2>5. QED
    BY <2>2, <2>3, <2>4 DEF PortsInv
<1>2. CASE MainThread
  <2>1. \A u \in Threads : th'[u] = th[u] \/ (th[u].kind = "none")
    BY <1>0, <1>2, RunningStay
  <2>2. UNCHANGED th \/ \E t \in Threads : \E k, p, c : Idle(t) /\ Spawn(t, k, p, c) /\ (k = "recv" => c = None)
    BY <1>2 DEF MainThread, UserStep, MainStep, ClickStart, ClickStop, Escape, ClickModal,
                ClickAnswer, FinishAnswer, OnProgress, OnDone, OnError, OnIncoming, BeginChecks,
                CheckStopSend, CheckStopRecv, CancelTested, StartSend, StartRecv
  <2>3. CASE UNCHANGED th
    BY <2>3 DEF PortsInv, Busy
  <2>4. CASE ~UNCHANGED th
    <3>1. PICK t \in Threads : \E k, p, c : Idle(t) /\ Spawn(t, k, p, c) /\ (k = "recv" => c = None)
      BY <2>2, <2>4
    <3> PICK k, p, c : Idle(t) /\ Spawn(t, k, p, c) /\ (k = "recv" => c = None)
      BY <3>1
    <3>2. th'[t] = [kind |-> k, pc |-> p, nc |-> c, port |-> recvPort, count |-> 0]
          /\ \A u \in Threads \ {t} : th'[u] = th[u]
      BY <1>0, <3>1 DEF Spawn, ThreadsT
    <3>3. ~Busy(t)' /\ (th'[t].kind = "recv" => th'[t].port \in Ports)
      BY <1>0, <3>1, <3>2 DEF Busy
    <3>4. QED
      BY <3>2, <3>3 DEF PortsInv, Busy
  <2>5. QED
    BY <2>3, <2>4
<1>3. CASE UNCHANGED vars
  BY <1>3 DEF vars, PortsInv, Busy
<1>4. QED
  BY <1>1, <1>2, <1>3, NextIs

\* With one port no two threads are between Listen and CloseRecv.
InRecv == RecvPcs \ {"loop", "clear"}

LEMMA OneBusy ==
  ASSUME OnePort, TInv, PortsInv, NEW t \in Threads, NEW u \in Threads,
         th[t].kind = "recv", th[t].pc \in InRecv, th[u].kind = "recv", th[u].pc \in InRecv
  PROVE  t = u
<1>1. Busy(t) /\ Busy(u)
  BY DEF TInv, ThreadsT, ThreadOK, Busy, InRecv
<1>2. th[t].port = th[u].port
  BY DEF PortsInv, OnePort
<1>3. QED
  BY <1>1, <1>2 DEF PortsInv

Once(q) == \A i, j \in DOMAIN q : q[i] = "incoming" /\ q[j] = "incoming" => i = j

\* acceptResponse is what was clicked.
Matches == \/ acceptResponse = 1 /\ clicked = "accept"
           \/ acceptResponse = -1 /\ clicked = "reject"

Asking(t) == At(t, "recv", "push")
Waiting(t) == At(t, "recv", "wait")

\* A pending question is in one place only: with its thread, in the queue, on the screen, or being
\* answered; without one there is nothing in any of them.
AnswerInv ==
  /\ ~acceptPending => ~incoming /\ uiPc # "answer" /\ ~Asked(queue) /\ \A t \in Threads : ~Asking(t)
  /\ (\E t \in Threads : Asking(t)) => ~incoming /\ uiPc # "answer" /\ ~Asked(queue)
  /\ Asked(queue) => ~incoming /\ uiPc # "answer"
  /\ Once(queue)
  /\ incoming => uiPc # "answer"
  /\ uiPc = "answer" => Matches
  /\ ~acceptPending => \A t \in Threads : Waiting(t) => Matches
  /\ acceptPending => \E t \in Threads : Asking(t) \/ Waiting(t)
  /\ AnswerIsHeard

LEMMA OnceAppend ==
  ASSUME NEW q \in Seq(Events), NEW e \in Events, Once(q), e # "incoming" \/ ~Asked(q)
  PROVE  Once(Append(q, e))
<1>1. /\ DOMAIN Append(q, e) = 1 .. Len(q) + 1 /\ DOMAIN q = 1 .. Len(q) /\ Len(q) \in Nat
      /\ Append(q, e)[Len(q) + 1] = e /\ \A i \in 1 .. Len(q) : Append(q, e)[i] = q[i]
  OBVIOUS
<1>2. QED
  BY <1>1 DEF Once, Asked

LEMMA OnceTail ==
  ASSUME NEW q \in Seq(Events), q # <<>>, Once(q)
  PROVE  Once(Tail(q)) /\ (Head(q) = "incoming" => ~Asked(Tail(q)))
<1>1. /\ Len(q) \in Nat \ {0} /\ DOMAIN q = 1 .. Len(q) /\ DOMAIN Tail(q) = 1 .. Len(q) - 1
      /\ Head(q) = q[1] /\ \A i \in 1 .. Len(q) - 1 : Tail(q)[i] = q[i + 1]
  OBVIOUS
<1>2. \A i \in 1 .. Len(q) - 1 : i + 1 \in 1 .. Len(q) /\ i + 1 # 1
  BY <1>1
<1>3. ASSUME NEW i \in 1 .. Len(q) - 1, NEW j \in 1 .. Len(q) - 1,
             Tail(q)[i] = "incoming", Tail(q)[j] = "incoming"
      PROVE  i = j
  <2>1. i + 1 = j + 1
    BY <1>1, <1>2, <1>3 DEF Once
  <2>2. QED
    BY <2>1
<1>4. ASSUME Head(q) = "incoming", NEW i \in 1 .. Len(q) - 1, Tail(q)[i] = "incoming"
      PROVE  FALSE
  <2>1. 1 \in DOMAIN q /\ i + 1 \in DOMAIN q /\ q[i + 1] = "incoming" /\ q[1] = "incoming"
    BY <1>1, <1>2, <1>4
  <2>2. i + 1 = 1
    BY <2>1 DEF Once
  <2>3. QED
    BY <1>2, <2>2
<1>5. QED
  BY <1>1, <1>3, <1>4 DEF Once, Asked

LEMMA StepOnce == ASSUME TInv, AnswerInv, [Next]_vars PROVE Once(queue')
<1>0. queue \in Seq(Events) /\ Once(queue)
  BY DEF TInv, SharedT, AnswerInv
<1>1. \/ UNCHANGED queue
      \/ \E e \in Events : Event(e)
      \/ \E e \in Events \ {"incoming"} : PushEvent(e)
      \/ \E t \in Threads : PushQuestion(t)
  <2>1. Events = {"progress", "done", "error", "incoming"}
    BY DEF Events
  <2>2. QED
    BY <2>1 DEF Next, vars, UserStep, MainStep, ClickStart, ClickStop, Escape, ClickModal,
                ClickAnswer, FinishAnswer, OnProgress, OnDone, OnError, OnIncoming, BeginChecks,
                CheckStopSend, CheckStopRecv, CancelTested, StartSend, StartRecv, SendStep,
                RecvStep, XferStep, Prepare, Connect, Connected, CloseSend, LeaveLoop, Listen,
                ListenFails, Publish, AcceptCancelled, Ask, HearAnswer, ActOnAnswer, CloseRecv,
                ClearActive, Progress, Finish, Accept
<1>2. CASE UNCHANGED queue
  BY <1>0, <1>2
<1>3. CASE \E e \in Events : Event(e)
  BY <1>0, <1>3, OnceTail DEF Event
<1>4. CASE \E e \in Events \ {"incoming"} : PushEvent(e)
  BY <1>0, <1>4, OnceAppend DEF PushEvent
<1>5. CASE \E t \in Threads : PushQuestion(t)
  <2>1. ~Asked(queue) /\ queue' = Append(queue, "incoming") /\ "incoming" \in Events
    BY <1>5 DEF PushQuestion, AnswerInv, Asking, PushEvent, Events
  <2>2. QED
    BY <1>0, <2>1, OnceAppend
<1>6. QED
  BY <1>1, <1>2, <1>3, <1>4, <1>5

\* How a worker comes to the places about the question.
LEMMA WorkerPlaces ==
  ASSUME TInv, NEW t \in Threads, Worker(t)
  PROVE  /\ Waiting(t)' => PushQuestion(t)
         /\ Waiting(t) => HearAnswer(t)
         /\ At(t, "recv", "answered")' => HearAnswer(t) /\ acceptResponse > 0
         /\ At(t, "recv", "rejected")' => HearAnswer(t) /\ ~(acceptResponse > 0)
<1>0. th[t] \in ThreadRec /\ ThreadsT
  BY DEF TInv, ThreadsT
<1>1. \/ PushQuestion(t) /\ Goto(t, "wait") /\ ~Waiting(t)
      \/ HearAnswer(t) /\ Goto(t, IF acceptResponse > 0 THEN "answered" ELSE "rejected")
      \/ ~Waiting(t) /\ \E pc \in Pcs \ {"wait", "answered", "rejected"} : Goto(t, pc)
      \/ ~Waiting(t) /\ Ends(t)
      \/ ~Waiting(t) /\ \E c : th' = [th EXCEPT ![t].nc = c, ![t].pc = "publish"]
      \/ ~Waiting(t) /\ \E n : th' = [th EXCEPT ![t].pc = "accept", ![t].count = n]
      \/ ~Waiting(t) /\ th' = [th EXCEPT ![t].pc = "clear", ![t].nc = None]
  <2>1. CASE SendStep(t) \/ XferStep(t)
    BY <2>1 DEF SendStep, XferStep, Prepare, Connect, Connected, CloseSend, Progress, Finish,
                Pcs, SendPcs, At, Waiting
  <2>2. CASE Listen(t)
    BY <2>2 DEF Listen, At, Waiting
  <2>3. CASE Publish(t)
    BY <1>0, <2>3 DEF Publish, ThreadsT, At, Waiting
  <2>4. CASE CloseRecv(t)
    BY <2>4 DEF CloseRecv, At, Waiting
  <2>5. CASE LeaveLoop(t) \/ ListenFails(t)
    BY <2>5 DEF LeaveLoop, ListenFails, At, Waiting
  <2>6. CASE AcceptCancelled(t) \/ Ask(t) \/ ActOnAnswer(t) \/ ClearActive(t) \/ Accept(t)
    BY <2>6 DEF AcceptCancelled, Ask, ActOnAnswer, ClearActive, Accept, Pcs, RecvPcs, At, Waiting
  <2>7. CASE PushQuestion(t) \/ HearAnswer(t)
    BY <2>7 DEF PushQuestion, HearAnswer, At, Waiting
  <2>8. QED
    BY <2>1, <2>2, <2>3, <2>4, <2>5, <2>6, <2>7 DEF Worker, RecvStep
<1>2. \A pc : Goto(t, pc) => th'[t].pc = pc
  BY <1>0 DEF Goto, ThreadsT, ThreadRec
<1>3. CASE \E pc \in Pcs \ {"wait", "answered", "rejected"} : ~Waiting(t) /\ Goto(t, pc)
  BY <1>2, <1>3 DEF At, Waiting
<1>4. CASE ~Waiting(t) /\ Ends(t)
  BY <1>0, <1>4 DEF Ends, NoThread, ThreadsT, At, Waiting
<1>5. CASE ~Waiting(t) /\ \E c : th' = [th EXCEPT ![t].nc = c, ![t].pc = "publish"]
  BY <1>0, <1>5 DEF ThreadsT, ThreadRec, At, Waiting
<1>6. CASE ~Waiting(t) /\ \E n : th' = [th EXCEPT ![t].pc = "accept", ![t].count = n]
  BY <1>0, <1>6 DEF ThreadsT, ThreadRec, At, Waiting
<1>7. CASE ~Waiting(t) /\ th' = [th EXCEPT ![t].pc = "clear", ![t].nc = None]
  BY <1>0, <1>7 DEF ThreadsT, ThreadRec, At, Waiting
<1>8. CASE PushQuestion(t) /\ Goto(t, "wait") /\ ~Waiting(t)
  BY <1>2, <1>8 DEF At, Waiting
<1>9. CASE HearAnswer(t) /\ Goto(t, IF acceptResponse > 0 THEN "answered" ELSE "rejected")
  BY <1>2, <1>9 DEF At, Waiting
<1>10. QED
  BY <1>1, <1>3, <1>4, <1>5, <1>6, <1>7, <1>8, <1>9

\* With one port, the threads that are not at t's place are at none of these places.
LEMMA OnlyOne ==
  ASSUME OnePort, TInv, PortsInv, NEW t \in Threads, th[t].kind = "recv", th[t].pc \in InRecv
  PROVE  \A u \in Threads \ {t} : /\ ~Asking(u) /\ ~Waiting(u)
                                  /\ ~At(u, "recv", "answered") /\ ~At(u, "recv", "rejected")
<1>1. {"push", "wait", "answered", "rejected"} \subseteq InRecv
  BY DEF InRecv, RecvPcs
<1>2. QED
  BY <1>1, OneBusy DEF At, Asking, Waiting

LEMMA WorkerAnswer ==
  ASSUME OnePort, TInv, PortsInv, AnswerInv, NEW t \in Threads, Worker(t), Once(queue')
  PROVE  AnswerInv'
<1>0. ThreadsT /\ queue \in Seq(Events)
  BY DEF TInv, SharedT
<1>1. UNCHANGED <<incoming, uiPc, clicked>>
  BY WorkerLeaves DEF main, shown
<1>2. \A u \in Threads \ {t} :
        /\ th'[u] = th[u]
        /\ (Asking(u)' <=> Asking(u)) /\ (Waiting(u)' <=> Waiting(u))
        /\ (At(u, "recv", "answered")' <=> At(u, "recv", "answered"))
        /\ (At(u, "recv", "rejected")' <=> At(u, "recv", "rejected"))
  BY <1>0, OthersStay DEF At, Asking, Waiting
<1>3. AnswerIsHeard'
  <2>1. ASSUME At(t, "recv", "answered")' PROVE clicked = "accept"
    <3>1. HearAnswer(t) /\ acceptResponse > 0
      BY <2>1, WorkerPlaces
    <3>2. Matches
      BY <3>1 DEF HearAnswer, AnswerInv, Waiting
    <3>3. QED
      BY <3>1, <3>2 DEF Matches
  <2>2. ASSUME At(t, "recv", "rejected")' PROVE clicked = "reject"
    <3>1. HearAnswer(t) /\ ~(acceptResponse > 0)
      BY <2>2, WorkerPlaces
    <3>2. Matches
      BY <3>1 DEF HearAnswer, AnswerInv, Waiting
    <3>3. QED
      BY <3>1, <3>2 DEF Matches
  <2>3. QED
    BY <1>1, <1>2, <2>1, <2>2 DEF AnswerInv, AnswerIsHeard
<1>4. CASE /\ Ask(t) /\ acceptPending' = TRUE /\ acceptResponse' = 0 /\ UNCHANGED queue
           /\ At(t, "recv", "ask") /\ At(t, "recv", "push")'
  <2>1. \A u \in Threads \ {t} : ~Asking(u) /\ ~Waiting(u)
    BY <1>4, OnlyOne DEF At, InRecv, RecvPcs
  <2>2. ~Asking(t) /\ ~Waiting(t)
    BY <1>4 DEF At, Asking, Waiting
  <2>3. ~acceptPending
    BY <2>1, <2>2 DEF AnswerInv
  <2>4. ~incoming /\ uiPc # "answer" /\ ~Asked(queue)
    BY <2>3 DEF AnswerInv
  <2>5. Asking(t)'
    BY <1>4 DEF Asking
  <2>6. QED
    BY <1>1, <1>3, <1>4, <2>4, <2>5 DEF AnswerInv
<1>5. CASE /\ PushQuestion(t) /\ UNCHANGED question /\ queue' = Append(queue, "incoming")
           /\ At(t, "recv", "push") /\ At(t, "recv", "wait")'
  <2>1. \A u \in Threads \ {t} : ~Asking(u)
    BY <1>5, OnlyOne DEF At, InRecv, RecvPcs
  <2>2. Asking(t) /\ ~Asking(t)' /\ Waiting(t)'
    BY <1>5 DEF Asking, Waiting, At
  <2>3. acceptPending /\ ~incoming /\ uiPc # "answer"
    BY <2>2 DEF AnswerInv
  <2>4. acceptPending' /\ \A u \in Threads : ~Asking(u)'
    BY <1>2, <1>5, <2>1, <2>2, <2>3 DEF question
  <2>5. QED
    BY <1>1, <1>3, <2>2, <2>3, <2>4 DEF AnswerInv
<1>6. CASE /\ UNCHANGED question /\ ~At(t, "recv", "push") /\ ~At(t, "recv", "push")'
           /\ (Asked(queue') <=> Asked(queue))
  <2>1. ~Asking(t) /\ ~Asking(t)' /\ ~Waiting(t)'
    <3>1. ~PushQuestion(t)
      BY <1>6 DEF PushQuestion
    <3>2. QED
      BY <1>6, <3>1, WorkerPlaces DEF Asking
  <2>2. \A u \in Threads : (Asking(u)' <=> Asking(u)) /\ (Waiting(u)' => Waiting(u))
    BY <1>2, <2>1
  <2>3. acceptPending' = acceptPending /\ acceptResponse' = acceptResponse
    BY <1>6 DEF question
  <2>4. (Matches' <=> Matches)
    BY <1>1, <2>3 DEF Matches
  <2>5. acceptPending => \E u \in Threads : Asking(u)' \/ Waiting(u)'
    <3>1. SUFFICES ASSUME acceptPending PROVE \E u \in Threads : Asking(u)' \/ Waiting(u)'
      OBVIOUS
    <3>2. ~Waiting(t)
      BY <3>1, WorkerPlaces DEF HearAnswer
    <3>3. PICK u \in Threads : Asking(u) \/ Waiting(u)
      BY <3>1 DEF AnswerInv
    <3>4. u # t
      BY <2>1, <3>2, <3>3
    <3>5. QED
      BY <1>2, <3>3, <3>4
  <2>6. QED
    BY <1>1, <1>3, <1>6, <2>2, <2>3, <2>4, <2>5 DEF AnswerInv
<1>7. QED
  BY <1>4, <1>5, <1>6, WorkerAsks

LEMMA MainAnswer ==
  ASSUME OnePort, TInv, PortsInv, AnswerInv, MainThread, Once(queue')
  PROVE  AnswerInv'
<1>0. ThreadsT /\ queue \in Seq(Events)
  BY DEF TInv, SharedT
<1>1. \A u \in Threads :
        /\ (Asking(u)' <=> Asking(u)) /\ (Waiting(u)' <=> Waiting(u))
        /\ (At(u, "recv", "answered")' <=> At(u, "recv", "answered"))
        /\ (At(u, "recv", "rejected")' <=> At(u, "recv", "rejected"))
  <2>1. CASE UNCHANGED th
    BY <2>1 DEF At, Asking, Waiting
  <2>2. CASE ~UNCHANGED th
    <3>1. PICK t \in Threads : \E k, p, c :
            Idle(t) /\ Spawn(t, k, p, c) /\ p \in {"loop", "prepare"}
      BY <2>2 DEF MainThread, UserStep, MainStep, ClickStart, ClickStop, Escape, ClickModal,
                  ClickAnswer, FinishAnswer, OnProgress, OnDone, OnError, OnIncoming, BeginChecks,
                  CheckStopSend, CheckStopRecv, CancelTested, StartSend, StartRecv
    <3>2. th'[t].pc \in {"loop", "prepare"} /\ \A u \in Threads \ {t} : th'[u] = th[u]
      BY <1>0, <3>1 DEF Spawn, ThreadsT
    <3>3. th[t].kind = "none"
      BY <3>1 DEF Idle
    <3>4. QED
      BY <3>2, <3>3 DEF At, Asking, Waiting
  <2>3. QED
    BY <2>1, <2>2
<1>2. CASE ClickAnswer
  <2>1. /\ incoming /\ incoming' = FALSE /\ uiPc # "answer" /\ uiPc' = "answer"
        /\ UNCHANGED <<queue, acceptPending>>
    BY <1>2 DEF ClickAnswer
  <2>2. Matches'
    BY <1>2 DEF ClickAnswer, Matches
  <2>3. acceptPending /\ ~Asked(queue) /\ \A u \in Threads : ~Asking(u)
    BY <2>1 DEF AnswerInv
  <2>4. PICK t \in Threads : Waiting(t)
    BY <2>3 DEF AnswerInv
  <2>5. \A u \in Threads : ~At(u, "recv", "answered") /\ ~At(u, "recv", "rejected")
    <3>1. th[t].kind = "recv" /\ th[t].pc = "wait" /\ "wait" \in InRecv
      BY <2>4 DEF Waiting, At, InRecv, RecvPcs
    <3>2. QED
      BY <3>1, OnlyOne DEF At
  <2>6. AnswerIsHeard'
    BY <1>1, <2>5 DEF AnswerIsHeard
  <2>7. acceptPending' /\ ~Asked(queue') /\ (\A u \in Threads : ~Asking(u)') /\ Waiting(t)'
    BY <1>1, <2>1, <2>3, <2>4
  <2>8. QED
    BY <2>1, <2>2, <2>6, <2>7 DEF AnswerInv
<1>3. CASE FinishAnswer
  <2>1. /\ uiPc = "answer" /\ uiPc' = "events" /\ acceptPending' = FALSE
        /\ UNCHANGED <<queue, incoming, clicked, acceptResponse>>
    BY <1>3 DEF FinishAnswer, shown, ghosts
  <2>2. Matches' /\ ~incoming /\ ~Asked(queue) /\ \A u \in Threads : ~Asking(u)
    BY <2>1 DEF AnswerInv, Matches
  <2>3. AnswerIsHeard'
    BY <1>1, <2>1 DEF AnswerInv, AnswerIsHeard
  <2>4. ~incoming' /\ ~Asked(queue') /\ (\A u \in Threads : ~Asking(u)') /\ uiPc' # "answer"
    BY <1>1, <2>1, <2>2
  <2>5. QED
    BY <2>1, <2>2, <2>3, <2>4 DEF AnswerInv
<1>4. CASE OnIncoming
  <2>1. /\ queue # <<>> /\ Head(queue) = "incoming" /\ queue' = Tail(queue) /\ incoming' = TRUE
        /\ uiPc = "events" /\ UNCHANGED <<uiPc, acceptPending, acceptResponse, clicked>>
    BY <1>4 DEF OnIncoming, Event, question, ghosts
  <2>2. Asked(queue) /\ ~Asked(queue')
    BY <1>0, <2>1, AskedTail, OnceTail DEF AnswerInv
  <2>3. acceptPending /\ \A u \in Threads : ~Asking(u)
    BY <2>2 DEF AnswerInv
  <2>4. AnswerIsHeard'
    BY <1>1, <2>1 DEF AnswerInv, AnswerIsHeard
  <2>5. \E u \in Threads : Waiting(u)'
    BY <1>1, <2>3 DEF AnswerInv
  <2>6. acceptPending' /\ ~Asked(queue') /\ (\A u \in Threads : ~Asking(u)') /\ uiPc' # "answer"
    BY <1>1, <2>1, <2>2, <2>3
  <2>7. QED
    BY <2>4, <2>5, <2>6 DEF AnswerInv
<1>5. CASE /\ UNCHANGED <<question, incoming, clicked>> /\ (Asked(queue') <=> Asked(queue))
           /\ uiPc # "answer" /\ uiPc' # "answer"
  <2>1. UNCHANGED <<acceptPending, acceptResponse, incoming, clicked>>
    BY <1>5 DEF question
  <2>2. AnswerIsHeard' /\ (Matches' <=> Matches)
    BY <1>1, <2>1 DEF AnswerInv, AnswerIsHeard, Matches
  <2>3. QED
    BY <1>1, <1>5, <2>1, <2>2 DEF AnswerInv
<1>6. QED
  BY <1>2, <1>3, <1>4, <1>5, MainAsks

LEMMA StepAnswer ==
  ASSUME OnePort, TInv, PortsInv, AnswerInv, [Next]_vars
  PROVE  AnswerInv'
<1>1. Once(queue')
  BY StepOnce
<1>2. CASE \E t \in Threads : Worker(t)
  BY <1>1, <1>2, WorkerAnswer
<1>3. CASE MainThread
  BY <1>1, <1>3, MainAnswer
<1>4. CASE UNCHANGED vars
  <2>1. UNCHANGED <<th, queue, acceptPending, acceptResponse, incoming, clicked, uiPc>>
    BY <1>4 DEF vars, question, shown, ghosts
  <2>2. QED
    BY <2>1 DEF AnswerInv, Asking, Waiting, At, Matches, AnswerIsHeard
<1>5. QED
  BY <1>2, <1>3, <1>4, NextIs

LEMMA InitAnswer == Init => PortsInv /\ AnswerInv
<1> SUFFICES ASSUME Init PROVE PortsInv /\ AnswerInv
  OBVIOUS
<1>1. \A t \in Threads : th[t].kind = "none"
  BY DEF Init, NoThread
<1>2. ~Asked(queue) /\ Once(queue)
  BY DEF Init, Asked, Once
<1>3. QED
  BY <1>1, <1>2 DEF Init, PortsInv, Busy, AnswerInv, AnswerIsHeard, At, Asking, Waiting

\* Where the user listens on one port, a receive thread takes for its answer what the user clicked
\* for its own question, with any number of threads and transfers (main.c:279-291; transfer.c:36-46).
THEOREM AnswersAreHeard == ASSUME OnePort PROVE Spec => []AnswerIsHeard
<1>1. AnswerInv => AnswerIsHeard
  BY DEF AnswerInv
<1>2. TInv /\ PortsInv /\ AnswerInv /\ [Next]_vars => TInv' /\ PortsInv' /\ AnswerInv'
  BY StepTInv, StepPorts, StepAnswer
<1>3. QED
  BY <1>1, <1>2, InitTInv, InitAnswer, PTL DEF Spec
=============================================================================
