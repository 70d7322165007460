------------------------------ MODULE GuiControl ------------------------------
(***************************************************************************)
(* The GUI program's threads (src/src/main.c): the main thread, which      *)
(* handles events and once per frame looks at its flags, the send threads  *)
(* and receive threads it spawns, and what they share without a lock: the  *)
(* pointer active_nc, the flag recv_stop_requested and the question about  *)
(* an incoming transfer.  Transfers use TCP, and a transfer itself is one  *)
(* step or two here: TcpTransfer models it.                                *)
(***************************************************************************)
EXTENDS Integers, Sequences, FiniteSets

CONSTANTS
  Contexts,  \* addresses malloc can give to a network context
  Threads,   \* slots for threads, free again when the thread ends; when all are
             \* taken the main thread waits for one: a bound, not the program
  None,      \* the NULL pointer
  MaxConnections, \* gui_cfg.max_connections, 0 is no limit
  Ports,     \* ports the user may choose to listen on
  MaxInputs  \* bound on clicks, incoming connections and faults

ASSUME ContextsAssumption == None \notin Contexts /\ Cardinality(Threads) <= Cardinality(Contexts)
ASSUME BoundsAssumption == MaxConnections \in Nat /\ MaxInputs \in Nat

VARIABLES
  uiPc,        \* "events": in SDL_PollEvent's loop; else the check it is at
  sendRunning, recvRunning, pendingSend, pendingRecv,
  sendTotal, recvTotal,         \* send_progress_total > 0, recv_progress_total > 0
  modal, incoming, recvPort,    \* modal_visible, incoming_active, recv_port
  target,      \* the active_nc that a check has tested
  queue,       \* events of worker threads that SDL holds
  activeNc, recvStop,           \* active_nc, recv_stop_requested
  acceptPending, acceptResponse, \* g_accept_pending, g_accept_response
  live, cancelled,              \* allocated contexts, and those with cancelled set
  th,          \* what each thread is and does
  inputs,      \* environment steps so far
  stopAsked, sendCredit, clicked \* history: has the user ever pressed Stop or ESC;
               \* Start clicks less send threads; the last answer clicked

flags == <<sendRunning, recvRunning, pendingSend, pendingRecv>>
shown == <<sendTotal, recvTotal, modal, incoming, recvPort>>
question == <<acceptPending, acceptResponse>>
contexts == <<live, cancelled>>
ghosts == <<stopAsked, sendCredit, clicked>>
vars == <<uiPc, flags, shown, target, queue, activeNc, recvStop, question, contexts,
          th, inputs, ghosts>>

Checks == {"stopSend", "cancelSend", "stopRecv", "cancelRecv", "startSend", "startRecv"}
SendPcs == {"prepare", "connect", "connected", "xfer", "end", "close"}
RecvPcs == {"loop", "publish", "accept", "ask", "push", "wait", "answered", "rejected",
            "xfer", "end", "close", "clear"}
NoThread == [kind |-> "none", pc |-> "none", nc |-> None, port |-> None, count |-> 0]

\* Each allocated context is in the hands of exactly one thread.
OneOwner ==
  \A c \in live : \E t \in Threads : th[t].nc = c /\ \A u \in Threads \ {t} : th[u].nc # c

\* The values each variable may take, and who owns a context: a thread uses only one that
\* is allocated, which no other thread has, and none is leaked (main.c:23-26, 87-263, 352-395).
TypeOK ==
  /\ uiPc \in {"events", "answer"} \union Checks
  /\ flags \in BOOLEAN \X BOOLEAN \X BOOLEAN \X BOOLEAN
  /\ {sendTotal, recvTotal, modal, incoming, recvStop, acceptPending, stopAsked} \subseteq BOOLEAN
  /\ recvPort \in Ports
  /\ {target, activeNc} \subseteq Contexts \union {None}
  /\ \A i \in DOMAIN queue : queue[i] \in {"progress", "done", "error", "incoming"}
  /\ acceptResponse \in {-1, 0, 1}
  /\ live \subseteq Contexts /\ cancelled \subseteq live
  /\ \A t \in Threads :
       /\ th[t].kind \in {"none", "send", "recv"}
       /\ th[t].kind = "send" => th[t].pc \in SendPcs /\ th[t].nc \in live
       /\ th[t].kind = "recv" => th[t].pc \in RecvPcs
       /\ th[t].kind = "recv" /\ th[t].pc \notin {"loop", "clear"} => th[t].nc \in live
  /\ OneOwner
  /\ inputs \in 0 .. MaxInputs
  /\ sendCredit \in Int
  /\ clicked \in {"none", "accept", "reject"}

Init ==
  /\ uiPc = "events"
  /\ sendRunning = FALSE /\ recvRunning = FALSE /\ pendingSend = FALSE /\ pendingRecv = FALSE
  /\ sendTotal = FALSE /\ recvTotal = FALSE /\ modal = FALSE /\ incoming = FALSE /\ recvPort \in Ports
  /\ target = None /\ queue = <<>> /\ activeNc = None /\ recvStop = FALSE
  /\ acceptPending = FALSE /\ acceptResponse = 0
  /\ live = {} /\ cancelled = {}
  /\ th = [t \in Threads |-> NoThread]
  /\ inputs = 0 /\ stopAsked = FALSE /\ sendCredit = 0 /\ clicked = "none"

-----------------------------------------------------------------------------
Input == inputs < MaxInputs /\ inputs' = inputs + 1

PushEvent(e) == queue' = Append(queue, e)

\* net_cancel.  A freed context is written to as well, which nobody notices unless
\* its address has been given to a new one.
Cancel(c) == cancelled' = IF c \in live THEN cancelled \union {c} ELSE cancelled

\* net_create, net_destroy.
Create(c)  == live' = live \union {c} /\ UNCHANGED cancelled
Destroy(c) == live' = live \ {c} /\ cancelled' = cancelled \ {c}

Idle(t) == th[t].kind = "none"

At(t, kind, pc) == th[t].kind = kind /\ th[t].pc = pc

Goto(t, pc) == th' = [th EXCEPT ![t].pc = pc]

Ends(t) == th' = [th EXCEPT ![t] = NoThread]

\* A second listener on a port fails as long as the first one's socket is open.
PortFree(port) ==
  \A t \in Threads : th[t].kind = "recv" /\ th[t].nc \in live => th[t].port # port

-----------------------------------------------------------------------------
(* The main thread: the user's input.  A modal message takes all clicks, and *)
(* a question takes all that are left.                                       *)

Clickable == uiPc = "events" /\ ~modal /\ ~incoming /\ Input

ClickStart ==
  /\ Clickable
  /\ \/ /\ ~sendRunning /\ sendRunning' = TRUE /\ sendTotal' = FALSE
        /\ sendCredit' = sendCredit + 1
        /\ UNCHANGED <<recvRunning, recvTotal, recvPort>>
     \/ /\ ~recvRunning /\ recvRunning' = TRUE /\ recvTotal' = FALSE
        /\ recvPort' \in Ports
        /\ UNCHANGED <<sendRunning, sendTotal, sendCredit>>
  /\ UNCHANGED <<uiPc, pendingSend, pendingRecv, modal, incoming, target, queue,
                 activeNc, recvStop, question, contexts, th, stopAsked, clicked>>

ClickStop ==
  /\ Clickable
  /\ \/ sendRunning /\ sendRunning' = FALSE /\ UNCHANGED recvRunning
     \/ recvRunning /\ recvRunning' = FALSE /\ UNCHANGED sendRunning
  /\ stopAsked' = TRUE
  /\ UNCHANGED <<uiPc, pendingSend, pendingRecv, shown, target, queue, activeNc,
                 recvStop, question, contexts, th, sendCredit, clicked>>

ClickModal ==
  /\ uiPc = "events" /\ modal
  /\ modal' = FALSE
  /\ UNCHANGED <<uiPc, flags, sendTotal, recvTotal, incoming, recvPort, target, queue,
                 activeNc, recvStop, question, contexts, th, inputs, ghosts>>

\* ESC closes a message, or else stops what runs.
Escape ==
  /\ uiPc = "events" /\ ~modal /\ (sendRunning \/ recvRunning) /\ Input
  /\ Cancel(activeNc)
  /\ recvStop' = TRUE
  /\ UNCHANGED live
  /\ sendRunning' = FALSE /\ recvRunning' = FALSE
  /\ pendingSend' = FALSE /\ pendingRecv' = FALSE
  /\ stopAsked' = TRUE
  /\ UNCHANGED <<uiPc, shown, target, queue, activeNc, question, th, sendCredit, clicked>>

\* Seeded fault: the answer is announced before it is written.
ClickAnswerAnnouncedFirst ==
  /\ uiPc = "events" /\ ~modal /\ incoming
  /\ clicked' \in {"accept", "reject"}
  /\ acceptPending' = FALSE
  /\ incoming' = FALSE
  /\ uiPc' = "answer"
  /\ UNCHANGED <<flags, sendTotal, recvTotal, modal, recvPort, target, queue, activeNc,
                 recvStop, acceptResponse, contexts, th, inputs, stopAsked, sendCredit>>

\* transfer_accept and transfer_reject, two writes.
ClickAnswer ==
  /\ uiPc = "events" /\ ~modal /\ incoming
  /\ \E yes \in BOOLEAN :
       /\ acceptResponse' = IF yes THEN 1 ELSE -1
       /\ clicked' = IF yes THEN "accept" ELSE "reject"
  /\ incoming' = FALSE
  /\ uiPc' = "answer"
  /\ UNCHANGED <<flags, sendTotal, recvTotal, modal, recvPort, target, queue, activeNc,
                 recvStop, acceptPending, contexts, th, inputs, stopAsked, sendCredit>>

FinishAnswer ==
  /\ uiPc = "answer"
  /\ acceptPending' = FALSE
  /\ uiPc' = "events"
  /\ UNCHANGED <<flags, shown, target, queue, activeNc, recvStop, acceptResponse,
                 contexts, th, inputs, ghosts>>

-----------------------------------------------------------------------------
(* The main thread: events of the worker threads.                          *)

Event(e) == uiPc = "events" /\ queue # <<>> /\ Head(queue) = e /\ queue' = Tail(queue)

OnProgress ==
  /\ Event("progress")
  /\ sendTotal' = (sendTotal \/ sendRunning)
  /\ recvTotal' = (recvTotal \/ recvRunning)
  /\ UNCHANGED <<uiPc, flags, modal, incoming, recvPort, target, activeNc, recvStop,
                 question, contexts, th, inputs, ghosts>>

\* Seeded fault: pending_send stays set.
SendIsOverPending ==
  /\ sendRunning' = FALSE
  /\ activeNc' = IF sendRunning THEN None ELSE activeNc
  /\ UNCHANGED <<recvRunning, pendingSend, pendingRecv>>

\* Whoever is done or failed: a send that is shown as running is over.
SendIsOver ==
  /\ sendRunning' = FALSE
  /\ pendingSend' = IF sendRunning THEN FALSE ELSE pendingSend
  /\ activeNc' = IF sendRunning THEN None ELSE activeNc
  /\ UNCHANGED <<recvRunning, pendingRecv>>

OnDone ==
  /\ Event("done")
  /\ SendIsOver
  /\ recvTotal' = (recvTotal /\ ~recvRunning)
  /\ UNCHANGED <<uiPc, sendTotal, modal, incoming, recvPort, target, recvStop, question,
                 contexts, th, inputs, ghosts>>

OnError ==
  /\ Event("error")
  /\ SendIsOver
  /\ modal' = TRUE
  /\ UNCHANGED <<uiPc, sendTotal, recvTotal, incoming, recvPort, target, recvStop,
                 question, contexts, th, inputs, ghosts>>

\* Seeded fault: a question is not shown while a message is.
OnIncomingUnlessModal ==
  /\ Event("incoming")
  /\ incoming' = (incoming \/ ~modal)
  /\ UNCHANGED <<uiPc, flags, sendTotal, recvTotal, modal, recvPort, target, activeNc,
                 recvStop, question, contexts, th, inputs, ghosts>>

OnIncoming ==
  /\ Event("incoming")
  /\ incoming' = TRUE
  /\ UNCHANGED <<uiPc, flags, sendTotal, recvTotal, modal, recvPort, target, activeNc,
                 recvStop, question, contexts, th, inputs, ghosts>>

-----------------------------------------------------------------------------
(* The main thread: the checks of each frame, when no event is left.       *)

BeginChecks ==
  /\ uiPc = "events" /\ queue = <<>>
  /\ uiPc' = "stopSend"
  /\ UNCHANGED <<flags, shown, target, queue, activeNc, recvStop, question, contexts,
                 th, inputs, ghosts>>

CheckStopSend ==
  /\ uiPc = "stopSend"
  /\ IF ~sendRunning /\ pendingSend /\ activeNc # None
     THEN uiPc' = "cancelSend" /\ target' = activeNc
     ELSE uiPc' = "stopRecv" /\ UNCHANGED target
  /\ UNCHANGED <<flags, shown, queue, activeNc, recvStop, question, contexts, th,
                 inputs, ghosts>>

CheckStopRecv ==
  /\ uiPc = "stopRecv"
  /\ IF ~recvRunning /\ pendingRecv /\ activeNc # None
     THEN uiPc' = "cancelRecv" /\ target' = activeNc /\ recvStop' = TRUE
     ELSE uiPc' = "startSend" /\ UNCHANGED <<target, recvStop>>
  /\ UNCHANGED <<flags, shown, queue, activeNc, question, contexts, th, inputs, ghosts>>

\* active_nc is read for the test and again for the call, or once for both: a
\* worker thread may have changed it, and neither reading is synchronised.
CancelTested ==
  /\ \E c \in {target, activeNc} : Cancel(c)
  /\ target' = None
  /\ \/ uiPc = "cancelSend" /\ uiPc' = "stopRecv"
        /\ pendingSend' = FALSE /\ UNCHANGED pendingRecv
     \/ uiPc = "cancelRecv" /\ uiPc' = "startSend"
        /\ pendingRecv' = FALSE /\ UNCHANGED pendingSend
  /\ UNCHANGED <<sendRunning, recvRunning, shown, queue, activeNc, recvStop, question,
                 live, th, inputs, ghosts>>

Spawn(t, kind, pc, c) ==
  th' = [th EXCEPT ![t] = [kind |-> kind, pc |-> pc, nc |-> c, port |-> recvPort, count |-> 0]]

\* Seeded fault: that the send has been started is not remembered.
StartSendForgotten ==
  /\ uiPc = "startSend"
  /\ IF sendRunning /\ ~sendTotal
     THEN \E t \in Threads, c \in Contexts \ live :
            /\ Idle(t)
            /\ Spawn(t, "send", "prepare", c) /\ Create(c) /\ activeNc' = c
            /\ sendCredit' = sendCredit - 1
     ELSE UNCHANGED <<th, contexts, activeNc, sendCredit>>
  /\ uiPc' = "startRecv"
  /\ UNCHANGED <<flags, shown, target, queue, recvStop, question, inputs, stopAsked, clicked>>

StartSend ==
  /\ uiPc = "startSend"
  /\ IF sendRunning /\ ~pendingSend /\ ~sendTotal
     THEN /\ pendingSend' = TRUE
          /\ \/ \E t \in Threads, c \in Contexts \ live :
                  /\ Idle(t)
                  /\ Spawn(t, "send", "prepare", c) /\ Create(c) /\ activeNc' = c
                  /\ sendCredit' = sendCredit - 1
                  /\ UNCHANGED <<queue, inputs>>
             \/ /\ Input                         \* net_create fails
                /\ PushEvent("error")
                /\ UNCHANGED <<th, contexts, activeNc, sendCredit>>
     ELSE /\ pendingSend' = (pendingSend /\ sendRunning)
          /\ UNCHANGED <<queue, th, contexts, activeNc, sendCredit, inputs>>
  /\ uiPc' = "startRecv"
  /\ UNCHANGED <<sendRunning, recvRunning, pendingRecv, shown, target, recvStop, question,
                 stopAsked, clicked>>

StartRecv ==
  /\ uiPc = "startRecv"
  /\ IF recvRunning /\ ~pendingRecv /\ ~recvTotal
     THEN /\ pendingRecv' = TRUE /\ recvStop' = FALSE
          /\ \E t \in Threads : Idle(t) /\ Spawn(t, "recv", "loop", None)
     ELSE /\ pendingRecv' = (pendingRecv /\ recvRunning)
          /\ UNCHANGED <<recvStop, th>>
  /\ uiPc' = "events"
  /\ UNCHANGED <<sendRunning, recvRunning, pendingSend, shown, target, queue, activeNc,
                 question, contexts, inputs, ghosts>>

-----------------------------------------------------------------------------
(* send_thread_func                                                        *)

main == <<uiPc, flags, shown, target, stopAsked, sendCredit, clicked>>

\* Seeded fault: a failed preparation does not end the thread.
PrepareGoesOn(t) ==
  /\ At(t, "send", "prepare")
  /\ \/ Goto(t, "connect") /\ (UNCHANGED queue \/ PushEvent("progress"))
        /\ UNCHANGED <<contexts, inputs>>
     \/ Input /\ Destroy(th[t].nc) /\ Goto(t, "connect") /\ UNCHANGED queue
  /\ UNCHANGED <<main, activeNc, recvStop, question>>

\* transfer_prepare_send.  Compressing a directory shows progress first; a failure
\* shows nothing.
Prepare(t) ==
  /\ At(t, "send", "prepare")
  /\ \/ Goto(t, "connect") /\ (UNCHANGED queue \/ PushEvent("progress"))
        /\ UNCHANGED <<contexts, inputs>>
     \/ Input /\ Destroy(th[t].nc) /\ Ends(t) /\ UNCHANGED queue
  /\ UNCHANGED <<main, activeNc, recvStop, question>>

\* The loop around net_connect ends when a receiver answers or when it is cancelled.
Connect(t) ==
  /\ At(t, "send", "connect")
  /\ \/ th[t].nc \notin cancelled /\ Input /\ Goto(t, "connected")
     \/ th[t].nc \in cancelled /\ Goto(t, "close") /\ UNCHANGED inputs
  /\ UNCHANGED <<main, queue, activeNc, recvStop, question, contexts>>

Connected(t) ==
  /\ At(t, "send", "connected")
  /\ Goto(t, IF th[t].nc \in cancelled THEN "close" ELSE "xfer")
  /\ UNCHANGED <<main, queue, activeNc, recvStop, question, contexts, inputs>>

\* Bytes flow: progress is shown.  Nothing in a transfer looks at cancelled.
Progress(t) ==
  /\ th[t].pc = "xfer"
  /\ PushEvent("progress")
  /\ Goto(t, "end")
  /\ UNCHANGED <<main, activeNc, recvStop, question, contexts, inputs>>

\* A transfer returns with one event, or, on a lost connection, with none.
Finish(t) ==
  /\ th[t].pc \in {"xfer", "end"}
  /\ PushEvent("done") \/ PushEvent("error") \/ UNCHANGED queue
  /\ Goto(t, "close")
  /\ UNCHANGED <<main, activeNc, recvStop, question, contexts, inputs>>

CloseSend(t) ==
  /\ At(t, "send", "close")
  /\ Destroy(th[t].nc)
  /\ Ends(t)
  /\ UNCHANGED <<main, queue, activeNc, recvStop, question, inputs>>

-----------------------------------------------------------------------------
(* recv_thread_func                                                        *)

Exhausted(t) == MaxConnections > 0 /\ th[t].count >= MaxConnections

LeaveLoop(t) ==
  /\ At(t, "recv", "loop") /\ (recvStop \/ Exhausted(t))
  /\ Ends(t)
  /\ UNCHANGED <<main, queue, activeNc, recvStop, question, contexts, inputs>>

Listen(t) ==
  /\ At(t, "recv", "loop") /\ ~recvStop /\ ~Exhausted(t)
  /\ PortFree(th[t].port)
  /\ \E c \in Contexts \ live :
       Create(c) /\ th' = [th EXCEPT ![t].nc = c, ![t].pc = "publish"]
  /\ UNCHANGED <<main, queue, activeNc, recvStop, question, inputs>>

\* net_create or net_listen_ip fails: every receive thread is told to stop.
ListenFails(t) ==
  /\ At(t, "recv", "loop") /\ ~recvStop /\ ~Exhausted(t)
  /\ PortFree(th[t].port) => Input
  /\ ~PortFree(th[t].port) => UNCHANGED inputs
  /\ recvStop' = TRUE
  /\ PushEvent("error")
  /\ Ends(t)
  /\ UNCHANGED <<main, activeNc, question, contexts>>

Publish(t) ==
  /\ At(t, "recv", "publish")
  /\ activeNc' = th[t].nc
  /\ th' = [th EXCEPT ![t].pc = "accept", ![t].count = IF MaxConnections > 0 THEN @ + 1 ELSE @]
  /\ UNCHANGED <<main, queue, recvStop, question, contexts, inputs>>

\* A sender connects; the transfer asks first unless auto_accept is set.
Accept(t) ==
  /\ At(t, "recv", "accept") /\ Input
  /\ Goto(t, "ask") \/ Goto(t, "xfer")
  /\ UNCHANGED <<main, queue, activeNc, recvStop, question, contexts>>

\* net_accept returns -2 and transfer_recv reports a transfer done.
AcceptCancelled(t) ==
  /\ At(t, "recv", "accept") /\ th[t].nc \in cancelled
  /\ PushEvent("done")
  /\ Goto(t, "close")
  /\ UNCHANGED <<main, activeNc, recvStop, question, contexts, inputs>>

\* gui_accept_cb
Ask(t) ==
  /\ At(t, "recv", "ask")
  /\ acceptResponse' = 0 /\ acceptPending' = TRUE
  /\ Goto(t, "push")
  /\ UNCHANGED <<main, queue, activeNc, recvStop, contexts, inputs>>

PushQuestion(t) ==
  /\ At(t, "recv", "push")
  /\ PushEvent("incoming")
  /\ Goto(t, "wait")
  /\ UNCHANGED <<main, activeNc, recvStop, question, contexts, inputs>>

HearAnswer(t) ==
  /\ At(t, "recv", "wait") /\ ~acceptPending
  /\ Goto(t, IF acceptResponse > 0 THEN "answered" ELSE "rejected")
  /\ UNCHANGED <<main, queue, activeNc, recvStop, question, contexts, inputs>>

ActOnAnswer(t) ==
  /\ th[t].pc \in {"answered", "rejected"}
  /\ IF th[t].pc = "answered" THEN Goto(t, "xfer") /\ UNCHANGED queue
     ELSE Goto(t, "close") /\ PushEvent("error")
  /\ UNCHANGED <<main, activeNc, recvStop, question, contexts, inputs>>

CloseRecv(t) ==
  /\ At(t, "recv", "close")
  /\ Destroy(th[t].nc)
  /\ th' = [th EXCEPT ![t].pc = "clear", ![t].nc = None]
  /\ UNCHANGED <<main, queue, activeNc, recvStop, question, inputs>>

\* The pointer is cleared only after what it points to.
ClearActive(t) ==
  /\ At(t, "recv", "clear")
  /\ activeNc' = None
  /\ Goto(t, "loop")
  /\ UNCHANGED <<main, queue, recvStop, question, contexts, inputs>>

-----------------------------------------------------------------------------
UserStep == ClickStart \/ ClickStop \/ Escape

MainStep ==
  \/ FinishAnswer \/ OnProgress \/ OnDone \/ OnError \/ OnIncoming
  \/ BeginChecks \/ CheckStopSend \/ CheckStopRecv \/ CancelTested \/ StartSend \/ StartRecv

SendStep(t) == Prepare(t) \/ Connect(t) \/ Connected(t) \/ CloseSend(t)

RecvStep(t) ==
  \/ LeaveLoop(t) \/ Listen(t) \/ ListenFails(t) \/ Publish(t) \/ AcceptCancelled(t)
  \/ Ask(t) \/ PushQuestion(t) \/ HearAnswer(t) \/ ActOnAnswer(t)
  \/ CloseRecv(t) \/ ClearActive(t)

XferStep(t) == Progress(t) \/ Finish(t)

Next ==
  \/ UserStep \/ ClickModal \/ ClickAnswer \/ MainStep
  \/ \E t \in Threads : SendStep(t) \/ RecvStep(t) \/ XferStep(t) \/ Accept(t)

Spec == Init /\ [][Next]_vars

\* The main loop turns, every thread runs, every transfer ends; the user and other
\* hosts do what they like.
FairSpec ==
  /\ Spec
  /\ WF_vars(MainStep)
  /\ \A t \in Threads : WF_vars(SendStep(t)) /\ WF_vars(RecvStep(t)) /\ WF_vars(XferStep(t))

-----------------------------------------------------------------------------
(* What holds.                                                             *)

\* A receive thread that waits for an answer is not forgotten: as long as the answer
\* is pending the question is on the screen, in the queue or about to be
\* (main.c:267-292, 553-569; ui.c:1231-1249).
QuestionIsShown ==
  acceptPending =>
    \/ incoming \/ uiPc = "answer"
    \/ \E i \in DOMAIN queue : queue[i] = "incoming"
    \/ \E t \in Threads : At(t, "recv", "push")

\* One listener: what the receive thread takes for the answer is what the user
\* clicked for this question, not the answer to an earlier one (transfer.c:36-46;
\* main.c:279-291).
AnswerIsHeard ==
  \A t \in Threads :
    /\ At(t, "recv", "answered") => clicked = "accept"
    /\ At(t, "recv", "rejected") => clicked = "reject"

\* No context is cancelled before the user has asked for a stop, whatever done and
\* error events of one transfer do to the flags of the other (main.c:495-534,
\* 571-610, 618-629).
NothingCancelledUnasked == cancelled # {} => stopAsked

\* Every send thread was asked for by a Start click of its own (main.c:631-651).
OneSendPerStart == sendCredit >= 0

-----------------------------------------------------------------------------
(* What a comment says.                                                    *)

\* main.c:620, "if the user clicks stop, cancel the active transfer": a listener
\* that waits for a sender ends, or is started again.
StopStops ==
  (~recvRunning /\ pendingRecv) ~>
    (recvRunning \/ \A t \in Threads : ~At(t, "recv", "accept"))
=============================================================================
