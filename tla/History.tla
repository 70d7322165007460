-------------------------------- MODULE History --------------------------------
(***************************************************************************)
(* What the GUI remembers of its transfers: the history in memory, which   *)
(* the main thread extends on done and error events and saves each time    *)
(* (main.c:495-534, 571-610), its file ./lanft_history.dat, which the next *)
(* start loads and `lanft --history` prints, and the working directory,    *)
(* on which "./" depends and which a receive thread changes while it       *)
(* unpacks a directory (transfer.c:358-395).                               *)
(*                                                                         *)
(* Threads, flags and events are those of GuiControl: each action here is  *)
(* one of its actions with what it does to the history.                    *)
(***************************************************************************)
EXTENDS GuiControl

CONSTANTS
  Names,      \* names of files that are sent and received
  OddNames,   \* those with a '|' in them; the empty name is None
  MaxHistory, \* 256 in the code
  MaxFaults,  \* bound on scans that fail, saves that fail, and ends of the program
  MaxSteps    \* bound on these and GuiControl's inputs together

Dirs == {"home", "away"}

ASSUME NamesAssumption == OddNames \subseteq Names /\ None \notin Names \union Dirs
ASSUME HistoryBounds == {MaxHistory, MaxFaults, MaxSteps} \subseteq Nat

VARIABLES
  history,   \* state.history, up to history_count; a record is its name and status
  pending,   \* history_pending_name, None when empty
  lastName,  \* transfer.c's g_last_recv_name
  file,      \* in each directory, lanft_history.dat
  cwd,       \* the working directory of the process
  curdir,    \* of each thread that unpacks: the directory it goes back to
  faults,
  stale,     \* history: the last save did not reach the file at home
  overlapped \* history: two threads have unpacked at the same time

memory == <<history, pending, lastName>>
places == <<cwd, curdir, overlapped>>
historyVars == <<memory, file, places, faults, stale>>

Records == [name : Names \union {None}, ok : BOOLEAN]

HistoryInit ==
  /\ Init
  /\ history = <<>> /\ pending = None /\ lastName = None
  /\ file = [d \in Dirs |-> <<>>]
  /\ cwd = "home" /\ curdir = [t \in Threads |-> None]
  /\ faults = 0 /\ stale = FALSE /\ overlapped = FALSE

-----------------------------------------------------------------------------
(* The file: one line for each record.                                     *)

Readable(r) == r.name \notin OddNames \union {None}

\* history_load passes over a line that has not nine fields; the file never has more lines
\* than the list has places.
Loaded(f) == SelectSeq(f, Readable)

\* `lanft --history` prints what it has when a line ends too early: the piece of the name before
\* the '|', and zeros, which read as a transfer that went well.
PrintedLine(r) ==
  IF Readable(r) THEN r ELSE [name |-> None, ok |-> TRUE]

Printed(f) == [i \in DOMAIN f |-> PrintedLine(f[i])]

Fault == faults < MaxFaults /\ faults' = faults + 1

\* fopen has emptied the file in the working directory, and not all lines get into it.  The
\* piece of a line at the end is read as none, or, if only its last number is cut, as whole.
CutSave(h) == \E n \in 0 .. Len(h) : file' = [file EXCEPT ![cwd] = SubSeq(h, 1, n)]

\* history_save, in the directory the process happens to be in; the file may not open, or
\* the disk be full.
SaveHistory(h) ==
  \/ file' = [file EXCEPT ![cwd] = h] /\ stale' = (cwd # "home") /\ UNCHANGED faults
  \/ Fault /\ stale' = TRUE /\ (UNCHANGED file \/ CutSave(h))

-----------------------------------------------------------------------------
(* Events of the main thread that make a record.                           *)

\* A record carries the name last received, whatever it is about.
NewRecord(ok) ==
  [name |-> IF lastName = None THEN pending ELSE lastName, ok |-> ok]

\* Seeded fault: the list is saved when the program quits only.
RecordUnsaved(ok) ==
  /\ history' = IF Len(history) < MaxHistory THEN Append(history, NewRecord(ok)) ELSE history
  /\ UNCHANGED <<pending, lastName, file, places, faults, stale>>

Record(ok) ==
  /\ IF Len(history) < MaxHistory
     THEN history' = Append(history, NewRecord(ok)) /\ SaveHistory(history')
     ELSE UNCHANGED <<history, file, faults, stale>>
  /\ UNCHANGED <<pending, lastName, places>>

RecordDone == OnDone /\ Record(TRUE)
RecordError == OnError /\ Record(FALSE)

\* A scan of no network ends with the same event as a failed transfer (scanner.c:204-207).
ScanFails ==
  /\ Fault /\ PushEvent("error")
  /\ UNCHANGED <<uiPc, flags, shown, target, activeNc, recvStop, question, contexts, th,
                 inputs, ghosts, memory, file, places, stale>>

-----------------------------------------------------------------------------
(* Starting a transfer, and what its thread does.                          *)

\* The one pending record is overwritten, whatever it was for.
PendSend ==
  /\ StartSend
  /\ IF sendRunning /\ ~pendingSend /\ ~sendTotal THEN pending' \in Names ELSE UNCHANGED pending
  /\ UNCHANGED <<history, lastName, file, places, faults, stale>>

PendRecv ==
  /\ StartRecv
  /\ IF recvRunning /\ ~pendingRecv /\ ~recvTotal THEN pending' \in Names ELSE UNCHANGED pending
  /\ UNCHANGED <<history, lastName, file, places, faults, stale>>

\* The meta record is read before the user is asked.
AcceptNamed(t) ==
  /\ Accept(t)
  /\ lastName' \in Names
  /\ UNCHANGED <<history, pending, file, places, faults, stale>>

Unpacking == {t \in Threads : curdir[t] # None}

\* extract_archive goes into the save directory, if there is one.
Unpack(t) ==
  /\ At(t, "recv", "end") /\ curdir[t] = None
  /\ curdir' = [curdir EXCEPT ![t] = cwd]
  /\ cwd' \in {cwd, "away"}
  /\ overlapped' = (overlapped \/ Unpacking # {})
  /\ UNCHANGED <<vars, memory, file, faults, stale>>

\* Seeded fault: a receiver that has unpacked stays where it is.
FinishAway(t) ==
  /\ Finish(t)
  /\ curdir' = [curdir EXCEPT ![t] = None]
  /\ UNCHANGED <<memory, file, cwd, overlapped, faults, stale>>

\* ... and back, before it says that it is done.
FinishBack(t) ==
  /\ Finish(t)
  /\ cwd' = IF curdir[t] # None THEN curdir[t] ELSE cwd
  /\ curdir' = [curdir EXCEPT ![t] = None]
  /\ UNCHANGED <<memory, file, overlapped, faults, stale>>

-----------------------------------------------------------------------------
(* The end of the program, and its next start from the same directory.     *)

\* main.c:351-393: everything is as at the first start, but for the file.
StartAgain ==
  /\ uiPc' = "events"
  /\ sendRunning' = FALSE /\ recvRunning' = FALSE /\ pendingSend' = FALSE /\ pendingRecv' = FALSE
  /\ sendTotal' = FALSE /\ recvTotal' = FALSE /\ modal' = FALSE /\ incoming' = FALSE
  /\ target' = None /\ queue' = <<>> /\ activeNc' = None /\ recvStop' = FALSE
  /\ acceptPending' = FALSE /\ acceptResponse' = 0
  /\ live' = {} /\ cancelled' = {} /\ th' = [t \in Threads |-> NoThread]
  /\ stopAsked' = FALSE /\ sendCredit' = 0 /\ clicked' = "none"
  /\ history' = Loaded(file'["home"])
  /\ pending' = None /\ lastName' = None
  /\ cwd' = "home" /\ curdir' = [t \in Threads |-> None]
  /\ stale' = FALSE /\ overlapped' = FALSE
  /\ UNCHANGED <<recvPort, inputs>>

\* The window is closed: the last frame is finished, the history saved (or not, or in part);
\* threads just end.
Quit ==
  /\ uiPc = "events" /\ Fault
  /\ UNCHANGED file \/ CutSave(history)
  /\ StartAgain

Crash == Fault /\ UNCHANGED file /\ StartAgain

\* The program dies in the middle of a save.
CrashInSave ==
  /\ Fault
  /\ \E h \in {history} \union {Append(history, NewRecord(ok)) : ok \in BOOLEAN} :
       /\ h = history \/ Event("done") \/ Event("error")
       /\ h = history => uiPc = "events"
       /\ CutSave(h)
  /\ StartAgain

-----------------------------------------------------------------------------
\* GuiControl's steps that leave the history alone.
OtherSteps ==
  /\ \/ UserStep \/ ClickModal \/ ClickAnswer \/ FinishAnswer \/ OnProgress \/ OnIncoming
     \/ BeginChecks \/ CheckStopSend \/ CheckStopRecv \/ CancelTested
     \/ \E t \in Threads : SendStep(t) \/ RecvStep(t) \/ Progress(t)
  /\ UNCHANGED historyVars

HistoryNext ==
  /\ \/ OtherSteps \/ RecordDone \/ RecordError \/ ScanFails \/ PendSend \/ PendRecv
     \/ \E t \in Threads : AcceptNamed(t) \/ Unpack(t) \/ FinishBack(t)
     \/ Quit \/ Crash \/ CrashInSave
  /\ inputs' + faults' <= MaxSteps

HistorySpec == HistoryInit /\ [][HistoryNext]_<<vars, historyVars>>

-----------------------------------------------------------------------------
(* What holds.                                                             *)

\* If the program died now, its next start would find every record whose name can be read, and
\* --history would print them: nothing waits for a save, in no thread and no session, unless
\* the last save failed or was made while a directory was unpacked (main.c:518, 597, 681;
\* ui.c:820-857; cli.c:282-312).
HistorySurvives ==
  ~stale =>
    /\ Loaded(file["home"]) \in {history, Loaded(history)}
    /\ \A i \in DOMAIN file["home"] :
         Readable(file["home"][i]) => Printed(file["home"])[i] = file["home"][i]

\* As long as no two threads unpack at once, the process is at home whenever none does
\* (transfer.c:368-393): "./lanft_history.dat" is always the same file.
ComesHome == ~overlapped /\ Unpacking = {} => cwd = "home"
=============================================================================
