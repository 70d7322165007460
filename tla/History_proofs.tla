---------------------------- MODULE History_proofs ----------------------------
(***************************************************************************)
(* The history survives, and the process comes home, for any number of     *)
(* threads, names, records and faults.  GuiControl's own steps need not be *)
(* looked into: they leave these variables alone.  And what GuiControl     *)
(* promises of one session holds in each, however the last one ended.      *)
(***************************************************************************)
EXTENDS History, GuiControl_proofs

hvars == <<vars, historyVars>>

-----------------------------------------------------------------------------
\* The places: a thread that unpacks alone has come from home.
Places ==
  /\ cwd \in Dirs /\ curdir \in [Threads -> Dirs \union {None}] /\ overlapped \in BOOLEAN
  /\ ~overlapped =>
       /\ \A t \in Unpacking : curdir[t] = "home" /\ \A u \in Unpacking : u = t
       /\ Unpacking = {} => cwd = "home"

\* The file at home: the list, or what the list was loaded from.
Files ==
  /\ DOMAIN file = Dirs /\ stale \in BOOLEAN
  /\ ~stale => file["home"] = history \/ history = Loaded(file["home"])

IInv == Places /\ Files

-----------------------------------------------------------------------------
LEMMA InitOk == HistoryInit => IInv
<1> SUFFICES ASSUME HistoryInit PROVE IInv
  OBVIOUS
<1>1. Places
  BY NamesAssumption DEF HistoryInit, Places, Unpacking, Dirs
<1>2. Files
  BY DEF HistoryInit, Files, Dirs
<1> QED
  BY <1>1, <1>2 DEF IInv

\* Steps that leave the two halves of the invariant alone.
LEMMA PlacesKept == Places /\ UNCHANGED places => Places'
  BY DEF Places, places, Unpacking

LEMMA FilesKept == Files /\ UNCHANGED <<history, file, stale>> => Files'
  BY DEF Files, Loaded

\* After the list has been saved at home it is in the file there.
LEMMA SaveOk ==
  ASSUME Places, Files, SaveHistory(history')
  PROVE  Files'
<1>1. CASE file' = [file EXCEPT ![cwd] = history'] /\ stale' = (cwd # "home")
  BY <1>1 DEF Places, Files, Dirs
<1>2. CASE stale' = TRUE /\ UNCHANGED file
  BY <1>2 DEF Files
<1>3. CASE stale' = TRUE /\ CutSave(history')
  BY <1>3 DEF Files, CutSave
<1> QED
  BY <1>1, <1>2, <1>3 DEF SaveHistory

LEMMA RecordOk ==
  ASSUME IInv, NEW ok, Record(ok)
  PROVE  IInv'
<1>1. Places'
  BY PlacesKept DEF IInv, Record
<1>2. Files'
  <2>1. CASE Len(history) < MaxHistory
    BY <2>1, SaveOk DEF IInv, Record
  <2>2. CASE ~(Len(history) < MaxHistory)
    BY <2>2, FilesKept DEF IInv, Record
  <2> QED
    BY <2>1, <2>2
<1> QED
  BY <1>1, <1>2 DEF IInv

\* A thread that begins to unpack alone finds the process at home.
LEMMA UnpackOk ==
  ASSUME IInv, NEW t \in Threads, Unpack(t)
  PROVE  IInv'
<1>1. Files'
  BY FilesKept DEF IInv, Unpack, memory
<1>2. cwd' \in Dirs /\ curdir' \in [Threads -> Dirs \union {None}] /\ overlapped' \in BOOLEAN
  BY DEF IInv, Places, Unpack, Dirs
<1>3. ASSUME ~overlapped'
      PROVE  curdir[t] = None /\ cwd = "home" /\ Unpacking = {} /\ curdir' = [curdir EXCEPT ![t] = "home"]
  BY <1>3 DEF IInv, Places, Unpack
<1>4. ASSUME ~overlapped'
      PROVE  Unpacking' = {t} /\ curdir'[t] = "home"
  BY <1>3, <1>4, NamesAssumption DEF IInv, Places, Unpacking, Dirs
<1>5. Places'
  BY <1>2, <1>4 DEF Places
<1> QED
  BY <1>1, <1>5 DEF IInv

\* The one that unpacked alone goes back home.
LEMMA FinishOk ==
  ASSUME IInv, NEW t \in Threads, FinishBack(t)
  PROVE  IInv'
<1>1. Files'
  BY FilesKept DEF IInv, FinishBack, memory
<1>2. cwd' \in Dirs /\ curdir' \in [Threads -> Dirs \union {None}] /\ overlapped' \in BOOLEAN
  BY DEF IInv, Places, FinishBack
<1>3. Unpacking' = Unpacking \ {t}
  BY DEF IInv, Places, FinishBack, Unpacking
<1>4. \A u \in Unpacking' : curdir'[u] = curdir[u]
  BY <1>3 DEF IInv, Places, FinishBack, Unpacking
<1>5. ASSUME ~overlapped', Unpacking' = {}
      PROVE  cwd' = "home"
  <2>1. CASE t \in Unpacking
    BY <1>5, <2>1 DEF IInv, Places, FinishBack, Unpacking
  <2>2. CASE t \notin Unpacking
    BY <1>3, <1>5, <2>2 DEF IInv, Places, FinishBack, Unpacking
  <2> QED
    BY <2>1, <2>2
<1>6. Places'
  BY <1>2, <1>3, <1>4, <1>5 DEF IInv, Places, FinishBack
<1> QED
  BY <1>1, <1>6 DEF IInv

\* Wherever the last session was and whatever it left, the next begins at home with the file.
LEMMA StartOk ==
  ASSUME IInv, StartAgain, DOMAIN file' = Dirs
  PROVE  IInv'
<1>1. Places'
  BY NamesAssumption DEF StartAgain, Places, Unpacking, Dirs
<1>2. Files'
  BY DEF StartAgain, Files, Loaded
<1> QED
  BY <1>1, <1>2 DEF IInv

LEMMA StepOk == IInv /\ [HistoryNext]_hvars => IInv'
<1> SUFFICES ASSUME IInv, [HistoryNext]_hvars PROVE IInv'
  OBVIOUS
<1>1. CASE UNCHANGED historyVars
  BY <1>1, PlacesKept, FilesKept DEF IInv, historyVars, memory
<1>2. CASE RecordDone
  BY <1>2, RecordOk DEF RecordDone
<1>3. CASE RecordError
  BY <1>3, RecordOk DEF RecordError
<1>4. CASE ScanFails
  BY <1>4, PlacesKept, FilesKept DEF IInv, ScanFails, memory
<1>5. CASE PendSend
  BY <1>5, PlacesKept, FilesKept DEF IInv, PendSend
<1>6. CASE PendRecv
  BY <1>6, PlacesKept, FilesKept DEF IInv, PendRecv
<1>7. ASSUME NEW t \in Threads, AcceptNamed(t)
      PROVE  IInv'
  BY <1>7, PlacesKept, FilesKept DEF IInv, AcceptNamed
<1>8. ASSUME NEW t \in Threads, Unpack(t)
      PROVE  IInv'
  BY <1>8, UnpackOk
<1>9. ASSUME NEW t \in Threads, FinishBack(t)
      PROVE  IInv'
  BY <1>9, FinishOk
<1>10. CASE Quit
  BY <1>10, StartOk DEF IInv, Files, Quit, CutSave
<1>11. CASE Crash
  BY <1>11, StartOk DEF IInv, Files, Crash
<1>12. CASE CrashInSave
  <2>1. DOMAIN file' = Dirs
    BY <1>12 DEF IInv, Files, CrashInSave, CutSave
  <2> QED
    BY <1>12, <2>1, StartOk DEF CrashInSave
<1> QED
  BY <1>1, <1>2, <1>3, <1>4, <1>5, <1>6, <1>7, <1>8, <1>9, <1>10, <1>11, <1>12
  DEF HistoryNext, OtherSteps, hvars

\* The inductive invariant holds throughout.
THEOREM Invariance == HistorySpec => []IInv
<1>1. HistoryInit => IInv
  BY InitOk
<1>2. IInv /\ [HistoryNext]_hvars => IInv'
  BY StepOk
<1> QED
  BY <1>1, <1>2, PTL DEF HistorySpec, hvars

\* Whatever threads, events, crashes and restarts do, the list can be loaded again unless the
\* last save went wrong or elsewhere (ui.c:820-857, main.c:495-534, 571-610).
THEOREM Survives == HistorySpec => []HistorySurvives
<1>1. IInv => HistorySurvives
  BY DEF IInv, Files, HistorySurvives, Printed, PrintedLine
<1> QED
  BY <1>1, Invariance, PTL

\* Any number of receivers that unpack one after the other leave the process where it was
\* (transfer.c:368-393).
THEOREM HomeAgain == HistorySpec => []ComesHome
<1>1. IInv => ComesHome
  BY DEF IInv, Places, ComesHome
<1> QED
  BY <1>1, Invariance, PTL

-----------------------------------------------------------------------------
(* GuiControl's safety in every session: what the threads, flags and the    *)
(* question promise holds when scans fail and through every end and start.  *)

ControlInv == TInv /\ StopInv /\ CreditInv /\ QuestionIsShown

AnsweredInv == ControlInv /\ PortsInv /\ AnswerInv

\* Every step is one of GuiControl's, or none for it, but for a failed scan and a new start.
LEMMA StepIs == [HistoryNext]_hvars => [Next]_vars \/ ScanFails \/ StartAgain
<1>1. OtherSteps \/ RecordDone \/ RecordError \/ PendSend \/ PendRecv => Next
  BY DEF OtherSteps, RecordDone, RecordError, PendSend, PendRecv, Next, MainStep, XferStep
<1>2. ASSUME NEW t \in Threads, AcceptNamed(t) \/ FinishBack(t) PROVE Next
  BY <1>2 DEF AcceptNamed, FinishBack, Next, XferStep
<1>3. ASSUME NEW t \in Threads, Unpack(t) PROVE UNCHANGED vars
  BY <1>3 DEF Unpack
<1>4. Quit \/ Crash \/ CrashInSave => StartAgain
  BY DEF Quit, Crash, CrashInSave
<1>5. UNCHANGED hvars => UNCHANGED vars
  BY DEF hvars
<1>6. QED
  BY <1>1, <1>2, <1>3, <1>4, <1>5 DEF HistoryNext

\* A failed scan only puts an error into the queue.
LEMMA ScanQuiet ==
  ASSUME ScanFails
  PROVE  /\ queue' = Append(queue, "error")
         /\ UNCHANGED <<uiPc, flags, shown, target, activeNc, recvStop, question, contexts, th,
                        inputs, ghosts>>
BY DEF ScanFails, PushEvent

LEMMA ScanControl == ASSUME ControlInv, ScanFails PROVE ControlInv'
<1>0. /\ queue \in Seq(Events) /\ "error" \in Events /\ queue' = Append(queue, "error")
      /\ Asked(Append(queue, "error")) <=> Asked(queue)
  <2>1. queue \in Seq(Events) /\ "error" \in Events
    BY DEF ControlInv, TInv, SharedT, Events
  <2>2. "error" # "incoming"
    OBVIOUS
  <2>3. QED
    BY <2>1, <2>2, AskedAppend, ScanQuiet
<1>1. queue' \in Seq(Events)
  BY <1>0
<1>2. TInv'
  <2>1. ThreadsT' /\ ContextsT'
    BY ScanQuiet DEF ControlInv, TInv, ThreadsT, ContextsT, contexts
  <2>2. MainT'
    BY ScanQuiet DEF ControlInv, TInv, MainT, flags, shown, ghosts
  <2>3. SharedT'
    BY <1>1, ScanQuiet DEF ControlInv, TInv, SharedT, question
  <2>4. QED
    BY <2>1, <2>2, <2>3 DEF TInv
<1>3. StopInv' /\ CreditInv'
  BY ScanQuiet DEF ControlInv, StopInv, CreditInv, NothingCancelledUnasked, OneSendPerStart, flags,
                   contexts, ghosts
<1>4. Asked(queue') <=> Asked(queue)
  BY <1>0
<1>5. QuestionIsShown'
  BY <1>4, ScanQuiet DEF ControlInv, QuestionIsShown, Asked, At, shown, question
<1>6. QED
  BY <1>2, <1>3, <1>5 DEF ControlInv

\* A new start finds every flag down, no thread and no context; the clicks of earlier sessions
\* are not its own.
LEMMA StartControl ==
  ASSUME ControlInv, StartAgain
  PROVE  ControlInv' /\ \A t \in Threads : th'[t] = NoThread
<1>1. ThreadsT'
  <2>1. NoThread \in ThreadRec /\ NoThread.kind = "none" /\ NoThread.nc = None
    BY DEF NoThread, ThreadRec, Pcs
  <2>2. QED
    BY <2>1 DEF StartAgain, ThreadsT, ThreadOK
<1>2. ContextsT' /\ SharedT'
  <2>1. ContextsT'
    BY DEF StartAgain, ContextsT
  <2>2. queue' \in Seq(Events)
    BY DEF StartAgain
  <2>3. activeNc' \in Contexts \union {None} /\ acceptResponse' \in {-1, 0, 1}
        /\ recvStop' \in BOOLEAN /\ acceptPending' \in BOOLEAN
    BY DEF StartAgain
  <2>4. QED
    BY <2>1, <2>2, <2>3 DEF SharedT
<1>3. MainT'
  <2>1. inputs' \in 0 .. MaxInputs /\ recvPort' \in Ports /\ sendCredit' \in Int
    BY DEF ControlInv, TInv, MainT, StartAgain
  <2>2. QED
    BY <2>1 DEF StartAgain, MainT
<1>4. StopInv' /\ CreditInv' /\ QuestionIsShown'
  BY DEF StartAgain, StopInv, CreditInv, NothingCancelledUnasked, OneSendPerStart, QuestionIsShown
<1>5. \A t \in Threads : th'[t] = NoThread
  BY DEF StartAgain
<1>6. QED
  BY <1>1, <1>2, <1>3, <1>4, <1>5 DEF ControlInv, TInv

LEMMA ControlStep == ControlInv /\ [HistoryNext]_hvars => ControlInv'
<1> SUFFICES ASSUME ControlInv, [HistoryNext]_hvars PROVE ControlInv'
  OBVIOUS
<1>1. CASE [Next]_vars
  BY <1>1, StepTInv, StepStop, StepCredit, StepShown DEF ControlInv
<1>2. QED
  BY <1>1, StepIs, ScanControl, StartControl

LEMMA AnsweredStep ==
  ASSUME OnePort
  PROVE  AnsweredInv /\ [HistoryNext]_hvars => AnsweredInv'
<1> SUFFICES ASSUME AnsweredInv, [HistoryNext]_hvars PROVE PortsInv' /\ AnswerInv'
  BY ControlStep DEF AnsweredInv
<1>0. ControlInv /\ PortsInv /\ AnswerInv /\ TInv
  BY DEF AnsweredInv, ControlInv
<1>1. CASE [Next]_vars
  BY <1>0, <1>1, StepPorts, StepAnswer
<1>2. CASE ScanFails
  <2>1. queue \in Seq(Events) /\ "error" \in Events /\ "error" # "incoming" /\ Once(queue)
    BY <1>0 DEF TInv, SharedT, Events, AnswerInv
  <2>2. (Asked(queue') <=> Asked(queue)) /\ Once(queue')
    BY <1>2, <2>1, AskedAppend, OnceAppend, ScanQuiet
  <2>3. UNCHANGED <<th, acceptPending, acceptResponse, incoming, clicked, uiPc>>
    BY <1>2, ScanQuiet DEF question, shown, ghosts
  <2>4. PortsInv'
    BY <1>0, <2>3 DEF PortsInv, Busy
  <2>5. AnswerInv'
    BY <1>0, <2>2, <2>3 DEF AnswerInv, Asking, Waiting, At, Matches, AnswerIsHeard
  <2>6. QED
    BY <2>4, <2>5
<1>3. CASE StartAgain
  <2>1. \A t \in Threads : th'[t].kind = "none"
    BY <1>0, <1>3, StartControl DEF NoThread
  <2>2. ~Asked(queue') /\ Once(queue')
    BY <1>3 DEF StartAgain, Asked, Once
  <2>3. uiPc' = "events" /\ ~incoming' /\ ~acceptPending'
    BY <1>3 DEF StartAgain
  <2>4. QED
    BY <2>1, <2>2, <2>3 DEF PortsInv, Busy, AnswerInv, AnswerIsHeard, At, Asking, Waiting
<1>4. QED
  BY <1>1, <1>2, <1>3, StepIs

\* Failed scans, crashes and restarts included, in every session: nothing is cancelled that the
\* user of that session did not stop, no send starts without a click of it, and no receive thread
\* waits for an answer to a question that an earlier session has asked
\* (main.c:351-393, 267-292, 618-651; scanner.c:204-207).
THEOREM EverySessionIsSafe ==
  HistorySpec => [](TypeOK /\ NothingCancelledUnasked /\ OneSendPerStart /\ QuestionIsShown)
<1>1. HistoryInit => ControlInv
  BY InitTInv DEF HistoryInit, Init, ControlInv, StopInv, CreditInv, NothingCancelledUnasked,
                  OneSendPerStart, QuestionIsShown
<1>2. ControlInv => TypeOK /\ NothingCancelledUnasked /\ OneSendPerStart /\ QuestionIsShown
  BY TInvType DEF ControlInv, StopInv, CreditInv
<1>3. QED
  BY <1>1, <1>2, ControlStep, PTL DEF HistorySpec, hvars

\* Where the user listens on one port, the answer that is heard is the one clicked in the same
\* session for the same question (main.c:279-291; transfer.c:36-46).
THEOREM EverySessionHears == ASSUME OnePort PROVE HistorySpec => []AnswerIsHeard
<1>1. HistoryInit => AnsweredInv
  <2>1. HistoryInit => ControlInv
    BY InitTInv DEF HistoryInit, Init, ControlInv, StopInv, CreditInv, NothingCancelledUnasked,
                    OneSendPerStart, QuestionIsShown
  <2>2. QED
    BY <2>1, InitAnswer DEF HistoryInit, AnsweredInv
<1>2. AnsweredInv => AnswerIsHeard
  BY DEF AnsweredInv, AnswerInv
<1>3. QED
  BY <1>1, <1>2, AnsweredStep, PTL DEF HistorySpec, hvars
=============================================================================
