# Verification of lanft (lan-file-transfer)

TLA+ models of the program under `src/`, checked with TLC, and proofs about its TCP
and UDP transfer protocols, directory archives, GUI thread control, command line listener,
LAN scanner, configuration and history, checked with TLAPS. References such as `transfer.c:616` are to
files under `src/src/`; `README.md:18` is the program's own README.

## 1. The system

lanft is one C program with two faces: a GUI (SDL3) and a command line. Either one sends a
file or directory to another host of the LAN, or receives one into a save directory. The
receiver is the server: it listens, and *accept* is followed by *meta record, response,
data*. There is a TCP and a UDP protocol, a scanner that finds receivers, a responder that
lets itself be found, and a configuration file.

| component | code | state it keeps | operations | interacts with |
|---|---|---|---|---|
| TCP transfer | `transfer.c` 397-664 | locals of one send or receive; files of the save directory | send, receive: handshake, resume, overwrite policy, prompt, data loop, unpack | network layer; file system; progress, error, done events to its caller |
| UDP transfer | `transfer.c` 656-946 | `acked[]`, `retries_arr[]`, `received_pkts[]`, counters | the same with numbered packets, acks, retries, repeated records | network layer; file system |
| directory archives | `transfer.c` 245-395, 996-1055 | a temporary `lanft_<pid>.tar.gz`; the working directory | pack before connecting, unpack on the last byte | TCP transfer |
| network layer | `network.c` | sockets, `cancelled`, peer of a UDP context | create, listen, accept, connect, cancel, destroy | kernel |
| GUI thread control | `main.c`, `ui.c` | `pending_*`, `*_running`, `active_nc`, `recv_stop_requested`, the prompt's two variables, SDL's event queue | clicks, end-of-frame checks, send and receive threads | transfer callbacks, scanner |
| command line program | `cli.c` | `transfer_count`, `cli_ret` | send with up to 60 tries; persistent listener with `max_connections` | all of the above |
| LAN scanner | `scanner.c` | shared counter, static host buffer, device list | broadcast, 32 connecting threads, events | every listener it reaches |
| discovery responder | `discovery.c` | `g_disc_running`, `g_disc_fd` | start, answer, stop | scanner; shares the UDP port with transfers |
| configuration | `config.c`, `ui.c` 1262-1549 | `struct lanft_config` in every program; three files | copy, load, apply, save, print; options; the settings page | all; other programs through the files |
| history | `main.c` 495-610, `ui.c` 818-857 | 256 records, one pending record, `lanft_history.dat` | record at done and error, save, load, print | GUI events; the working directory |
| log | `log.c` | file and level | init, write | configuration |
| drawing, platform layer, TOML parser | `ui.c`, `compat*.h`, `tomlc17/` | - | layout; wrappers; vendored | - |

What makes the code hard:

* **Several sessions share one disk.** Resume works from whatever an earlier, broken
  session (or somebody else) left behind, and compares lengths only.
* **Two ends disagree.** The sender is done when its last byte is in a socket buffer; the
  response leaves before the overwrite policy is looked at.
* **Lost, repeated and delayed datagrams**, and records that are sent several times and
  then read as something else.
* **Threads without locks.** The GUI's main thread and its send and receive threads share
  `active_nc`, stop flags and the prompt's answer; events carry no transfer.
* **A server socket per connection.** The command line listener closes and reopens its port
  around each transfer while the kernel goes on completing connections.
* **Partial failure.** fwrite, mkdir, fopen, fclose, unlink and archive errors are mostly
  ignored.
* **Files rewritten in place.** Configuration and history are emptied and written again, by any
  program at any time and, for the history, in whatever directory the process is in.

Correctness of each: a transfer reported done is stored, leftovers are prefixes of what was
sent, both ends return (TCP); each packet is counted once and acknowledged only when stored
(UDP); a directory is packed completely and unpacking touches nothing else (archives); a
question is shown and gets its own answer, nothing is cancelled unasked (GUI); no slot of the
listener is lost, no sender hangs (command line); the scan's end comes after its results,
and who answers its broadcast in time is listed (scanner, discovery); every program runs under
the last word on each setting, and what was saved comes back (configuration); the list of
transfers is what the next start finds (history). `PROJECT.json` lists every hazard at its line with
the properties for it, and notes where those do not reach.

## 2. Modules

| module | models | variables and actions against the code |
|---|---|---|
| `TcpTransfer` | `tcp_send_file`, `tcp_recv_file`, the connection, the save directory, sessions one after the other | `sPc`, `rPc` are the places between blocking calls; `sent`, `received`, `resume`, `final` the locals; `meta`, `resp`, `stream` what is in flight; `disk` the files by path; one action per blocking step or early return |
| `FileDelivery` | what the receiving user is promised: the abstract specification | offer, copy, deliver, give up |
| `*_proofs` | theorems | see section 5 |
| `UdpTransfer` | `udp_send_file`, `udp_recv_file`, two sockets' receive buffers | the arrays become sets and functions of packet numbers; `toR`, `toS` are sequences of datagrams, with *Lose* and *Delay* |
| `GuiControl` | main loop, its flags, `active_nc`, threads, the prompt | `uiPc` is the check of the frame the main thread is at; `th` holds each thread's place, context and connection count; the check and the use of `active_nc` are two steps; a context is an address that may be reused, and has exactly one thread that will free it (`OneOwner`) |
| `Listener` | the command line's receive loop and the sending programs; the backlog | `rPc`, `count`, `queue`; *Close* is `net_destroy`, which resets everything in the queue; the transfer itself is one step |
| `Discovery` | the subnets of the host's interfaces; the responder thread of `discovery.c`; the question both scanners ask in each subnet | `Subnets` has the net of each usable interface whose net no earlier one has (`Firsts`), at its `Rank`; `responder` is `g_disc_running` and its thread; `inbox` and `buffer` the datagrams that wait at the two ends' sockets; `reads` is the loop's `r`: an answer, a foreign datagram and a time-out each use up one |
| `Scanner` | extends `Discovery`: a scan's thread, its workers subnet by subnet, the main thread's list, and `lanft --scan` | `subnets` is the local array from the present one on, `counter`, `worker`, the static `host`, the event queue |
| `Lan` | extends `Listener` and `Scanner`, which share no variable; refines `Listener` | a worker's connect to the listener's address is one joint step that puts a silent connection into the backlog; *TimedOut* is its 800 ms running out, before the connection is made or after |
| `Settings` | `config.c`, the options of `cli.c`, the settings page and dialogs of `ui.c`, what `main.c` and `cli.c` tell the setters of `transfer.c`, `log.c` and `discovery.c` | `cfg` is each program's `struct lanft_config`, `used` the static variables behind the setters, `sys`, `usr`, `profile` the files as tables; opening a file for writing and writing it are two steps; `layers` is a history variable |
| `History` | extends `GuiControl`: each event with its record and its save; unpacking threads with the working directory; crash, quit and restart | `history`, `pending`, `lastName` are the code's; `file` has one file for each directory, of which "./" is one |
| `DirArchive` | `walk_and_add`, `add_to_archive`, `extract_archive` | `stack` is the recursion over directories in any order of readdir; `archive` its entries; `files`, `dirs` the save directory; *mkdir* makes one level; `before` is what was there when unpacking began |
| `MC*` | values of the constants for TLC | - |

`TcpTransfer` is the core; `History` extends `GuiControl`, `Scanner` extends `Discovery`, and
`Lan` composes `Listener` and `Scanner`; `GuiControl` and `Listener` have a transfer as one or two steps,
which rests on what `TcpTransfer` shows of it (both ends return; one event at most).
Some definitions are marked *seeded fault*: no specification uses them. Each replaces a
definition the way a plausible bug would, and `PROJECT.json` says which property then fails.

### Abstractions that matter

* File contents are sequences of blocks (TCP) or functions from chunk positions to chunk
  numbers (UDP); the program's byte counters count those. In UDP the leftover at the
  receiver and the file are whole chunks.
* The receiving function serves one connection at a time, as in the code. Users change the
  save directory between sessions only; a change while the prompt is open is not modelled.
* Paths in an archive are sequences of names; a path that begins with a slash, which is what
  `docs/` with its slash at the end gives (`transfer.c:1027`), is followed no further.
* The bandwidth limit only delays and is left out, as are progress numbers and texts.
* A configuration file is what the TOML parser makes of it: a table, or broken. A text with a quote
  or backslash is written as it is (`config.c:325-351`) and makes the file unreadable, or is read back as
  another text; `OddTexts` are those, `Misread` the other text. Texts have one line. A save that breaks off
  leaves some whole lines and perhaps a cut one (`Torn`): a cut text or switch is no TOML, but a number
  whose last digits are missing is a number, and is taken for one. Two programs that have the file open together write over each other: what is left is
  one's text, or no TOML.
* `Settings` allows the send and receive pages to be edited while a transfer runs, which
  the code partly forbids; it therefore shows a little more than the code does.
* A record of the history is its name and whether it went well; times, speeds, ports are left out. A
  save that breaks off leaves its first records; the piece of a line behind them is read as none.
* A scan's worker waits 800 ms for a connection. Whether it is made in that time is the network's
  choice, counted with the system errors (`TimedOut`, `NotReached`).
* An address is its subnet and its last byte; a host's name stands for its address.
* `transfer.c`'s own `g_max_connections` is set and never read; the loops of `main.c` and
  `cli.c` hold the limit, and the models follow them.

## 3. Runs

| run | asks | bounds |
|---|---|---|
| `tcp` | types; leftovers are prefixes; done means stored; both ends' counters agree; files only grow; implements `FileDelivery`; both ends return; a retrying user gets the file unless the policy is skip; no deadlock | a file of 2 blocks that may grow to 3; disk empty or with a foreign file of 3; every policy, directory or not, prompting or not; buffer 2, socket buffers 2, 1 or 2 copies, 2 faults |
| `tcp_foreign_resume` | **violated**: the receiver's done means that the file is there | policy rename, a shorter foreign file, no fault |
| `udp_protocol` | types; packets counted once; ack means stored; first tries in place; the sender returns | 3 chunks, leftovers of 0, 1, 3, 3 meta copies, 2 end markers, 2 retries, buffers of 3 datagrams, 2 faults, with and without a peer at the receiver |
| `udp_delivers` | **violated**: a transfer without faults succeeds | the receiver as the program sets it up: no peer |
| `gui_control` | types; questions are shown and get their own answer; nothing cancelled unasked; one send per click | 3 threads, 3 contexts, 5 clicks, connections or faults, `max_connections` 2 |
| `gui_stop` | **violated**: Stop ends a waiting listener | one thread, 2 inputs |
| `listener` | types; each slot of `max_connections` used once; a lone sender is served; senders end; probes do not keep the listener | 2 senders, backlog 1, 2 tries, limit 3, 1 fault, any number of probes |
| `lan` | types; a scan's done event is its last and no address is left out; a quiet listener is found if the connection to it is made in time; who answers the broadcast in time is listed | 2 subnets of 2 addresses over 5 interfaces, one of them twice; 2 responders that start, stop and lose datagrams; 2 attempts a subnet; 2 workers; a GUI's or a command line's scan; 1 sender; list of 2; 1 error or connection that takes too long |
| `archive` | types; packed once under its own path; a file is lost only when something was in its way before, or below a directory whose parent neither was there nor was made for an earlier file; others' files untouched | 2 trees of depth 3, with unreadable files and directories, links; with and without the slash; 3 save directories; 2 sends; 1 damage |
| `archive_arrives` | **violated**: a directory arrives as it was sent | `docs/c` and `docs/a/c`, an empty save directory |
| `settings` | types, and no part of a program gets a block size it cannot use; the command line program runs as told, the GUI as started; a saved configuration comes back, of a torn one the first lines come back and nothing of the one it replaced, a printed one works as a profile | a GUI and a command line program, 2 starts, 2 inputs, 1 crash or full disk; 2 administrator's files and 3 user's; one field of each kind changes |
| `history` | what the list shows is what the next start finds; the process comes home | 2 threads, 2 contexts, 2 ports, a list of 2, 5 inputs and faults together, 2 of them faults |

Why the bounds are enough: two blocks and a buffer of two let a read be partial, a session
break after 0, 1 or 2 blocks, and a second session resume at 1; a file that grows lets the
second session offer more than the first. Two copies let the rename loop find a free name or
run out of names (1000 in the code). Three chunks and two retries let acks overtake each
other and a packet be given up. Three GUI threads are a send and two overlapping receives;
when all slots are taken the main thread waits, which is a bound of the model. Linux completes
one connection more than the backlog of 1, so two queue behind the one served. The `lan` run's
list of 2 is shorter than its 4 addresses, so that its limit is met, and its 2 attempts are
as many as a subnet's responders, so that a foreign datagram may crowd an answer out; when every
scan is past its broadcasts the responders stop, since nobody can notice them.
In `settings` two starts let one program save and the other load, or both run at once; one field
of each kind (a text, a list, a switch, the log file, a path, a field of another page) stands for the
others, which the same code treats alike. In `history` a list of 2 meets its limit after two records, and 2 faults
are a crash in a save and a save before it that failed or was cut short; its files have one name, and a record of a failed
scan has none. Deadlock is checked in `tcp` alone: elsewhere programs end and users may stop.

### Fairness

`TcpTransfer!FairSpec` and `UdpTransfer!FairSpec` let each program take a step it can take: every
wait of the code is a select or poll with a time limit that is itself a step. Nothing is owed by users or
faults, except in `RetrySpec`, whose user sends again after a failure. `GuiControl!FairSpec`
lets the main loop and every thread run and every transfer end (`tcp` justifies it).
`Listener!Spec` has the receive loop and each sender run; a user at the prompt owes nothing.

## 4. What the violated runs show

1. **`tcp_foreign_resume`**: a shorter file of the same name is taken for a partial copy (528)
   and continued; the policy is not consulted; the mixture is reported done.
2. **`udp_delivers`**: the receiver's UDP context has no peer, so its responses and acks go
   nowhere; every transfer ends with "max retries" at the sender and an endless loop at the receiver.
3. **`gui_stop`**: the check of the Stop request needs `active_nc` (`main.c:625`), which is NULL
   between two listening sockets; the request is then cleared (670) and the listener goes on.
4. **`archive_arrives`**: only the immediate parent of an entry is made, once (379). When a
   subdirectory is read before the first file of its parent, its files are dropped, and the
   transfer is reported done.

Known besides, from the same models:

* The sender's done says nothing about the receiver's policy: the response (`transfer.c:559-571`)
  precedes the policy (583-589), so under skip the sender may report done, and exit with 0, for
  a file that is not stored. `DoneMeansInFlight` is what its done does mean.
* A save that is cut in the middle of a number, `port = 98` of `port = 9876`, is read as that number at every
  later start (`config.c:325`): a value nobody chose. `NothingOldComesBack` says what a torn save may hold.
* A scanner gives an address 800 ms (`scanner.c:141-145`); on a slow network, or when the first packet is lost and sent
  again after a second, it passes over a listener that waits. `QuietListenerIsFound` exempts that.
* `config_load` returns 0 whatever it met (`config.c:287`), although `config.h:52` promises non-zero for a syntax
  error; an empty `log_file` of the user's does not hide the administrator's; `--show-config` prints
  "(stderr)", which as a profile is the name of a file; a GUI that quits overwrites what the command line
  program saved meanwhile; without a mode the command line program prints its help and
  exits with 0. `SavedComesBack` and `PrintedComesBack` state the exceptions.
* `--mode=receive` sends: the option knows R alone (`cli.c:220`), the configuration file `receive` too (`config.c:165`).
* The settings page takes effect at the next start, but for auto_accept (`main.c:673`).
* Two file dialogs share one buffer (`ui.c:122`): the second answer may go to both places.
* A record of the history carries the name last received, also for a send; a cancelled accept and a failed scan make
  records too; `--history` prints a line it cannot read as a transfer that went well.
* Two receivers that unpack at once may leave the process in the save directory, and the history
  is then written there (`ComesHome` needs `overlapped`).
* The responder answers any datagram that begins with the magic number, a UDP sender's meta record
  too, although `discovery.c:1-3` speaks of probes; a host found by broadcast is found again by connect.

Under policy skip the empty file of a session that broke before
its first byte refuses every later one (`RetryDelivers` therefore excludes skip); with a disk that runs full
(`DiskMayFill`) the receiver reports done for what fwrite did not store (644), which no run sets.
`EachSlotIsUsed` counts a scanner's probes as connections, as the code does: a scan uses up slots
of `max_connections` (`cli.c:584`). `LoneSenderIsServed` is as strong as it can be: with a second
client, a sender that was told "Connected!" may be reset when the listener closes its socket.

## 5. Proofs

`TcpTransfer_proofs` proves, for all contents, buffer sizes, copy limits and numbers of faults:

| theorem | of | needs |
|---|---|---|
| `TypeCorrect` | `TypeOK` | - |
| `DoneIsInFlight` | `DoneMeansInFlight` | - |
| `FilesGrow` | `FilesOnlyGrow` | - |
| `PartialsArePrefixes` | `PartialIsPrefix` | `ResumeIsSafe` |
| `DoneIsStored` | `DoneMeansStored` | `ResumeIsSafe` |
| `ImplementsFileDelivery` | `IsFileDelivery` | `ResumeIsSafe` |

`ResumeIsSafe` is what the code takes for granted by comparing lengths: the sent file changes
only by growing at its end, a foreign file of the same name is not shorter than the sent one,
and fwrite stores what it is given. `tcp_foreign_resume` shows that it cannot be dropped.

The argument. None of the properties is inductive. The invariant has four layers:
`TInv` (types, and that the file being received exists), `HandshakeInv` (which records can be in flight at which pair
of places, and that the response in flight or read is the receiver's offset), `StreamInv` (what the receiver
has, plus what is in the stream, is the source up to the sender's counter), and `FilesInv` (the file
being received is the beginning of the source of length `received`; every other file is a prefix or
was there at first). Each is preserved under the ones before it, one step per action; the refinement
maps the save directory, the source and the receiver's event to `FileDelivery`, and each action to
a step of it or a stutter. The lemmas about pieces of sequences and prefixes stand at the beginning of the module.

`Listener_proofs` proves, for any finite set of senders, any backlog, limit and number of faults,
`TypeCorrect` (`TypeOK`) and `SlotsAreUsed` (`EachSlotIsUsed`). The type invariant needs `TriesLeft`: a
sender that tries has tries left. `SlotsInv` says that without faults `transfer_count` is the number of accepted
connections, one ahead while the loop waits in accept, and that the loop ends only at the limit.
`LoneSenderServed` (`LoneSenderIsServed`) follows from `LoneInv`: of a single connection without faults
it says that it is queued or served, in one place only (`Served`), and that the sender it belongs to
waits until it is served (`Waits`).

`UdpTransfer_proofs` proves, for any number of chunks, leftovers, copies of a record, retries, buffer
sizes and faults, `TypeCorrect` (`TypeOK`), `CountedOnce` (`EachPacketCountedOnce`), `AcksMeanStored`
(`AckedWasStored`) and `InPlace` (`FirstTriesAreInPlace`). `TInv` gives types to the two
sides and to what is on its way; `SentInv` says that packets and acks on their way are of
numbers the sender has reached, and that the receiver's total is the sender's or not known;
`AcksAreTrue`, that what is acknowledged, on its way or read, is stored, or is a meta record. For `InPlace`,
`ReadInStep` says that, while nothing is repeated and nothing was left over, the source is read in step with
the packet number, so that every packet on its way carries its own chunk; `FileInPlace`, that it is then written there.

`GuiControl_proofs` proves, for any threads, contexts, ports, limits and inputs, `TypeCorrect` (`TypeOK`),
`StopsAreAsked` (`NothingCancelledUnasked`), `SendsAreAsked` (`OneSendPerStart`) and
`QuestionsAreShown` (`QuestionIsShown`). `TypeOK` says that each allocated context is in exactly one
thread's hands (`OneOwner`) and that a thread uses none that is not allocated; inductive is `ThreadsT`, with which a thread
takes a context only when it has none. `AnswersAreHeard` (`AnswerIsHeard`) needs `OnePort`: the user listens on
one port, so that one thread at most is past its bind (`PortsInv`); `AnswerInv` then says that a pending question
is in one place only: with its thread, in the queue, on the screen, or being answered, and that the
answer a thread finds is what was clicked.

`DirArchive_proofs` proves `TypeCorrect` (`TypeOK`), `EachPackedOnce` (`PackedOnce`), `LossesAreExplained`
(`LostOnlyBelowMissing`) and `OthersAreUntouched` (`OthersUntouched`), for any trees,
save directories, sends and faults; what is sent and what is there at first are trees: every path's
parents are directories (`TreesAssumption`, `BeforesAssumption`). `PackInv`
says that the stack's frames are the open directories that lead to the last one, and that each file to which
an open way leads is packed or still to be read, never both; `LostInv`, that each entry
already unpacked is there or one of the reasons for its loss holds. The reasons are about what was there before: `Grew` says
that what is there now and was not came out of the archive, and `EntryNotAbove` that no entry of an archive is the directory
of another one, so that the directory's own files are never in each other's way.

`Lan_proofs` proves, for any listener, senders, responders, interfaces, limits and any number of
scans at once, of the GUI and of other programs:

| theorem | of | inductive invariant |
|---|---|---|
| `ListenerIsListener` | `LanSpec => Spec` of `Listener` | - |
| `LanTypeCorrect` | `LanTypeOK` | `ScanInv` |
| `ScanDoneIsLast` | `DoneIsLast` | `ScanInv` |
| `WhoAnswersIsListed` | `RespondersAreListed` | `ScanInv` |
| `QuietIsFound` | `QuietListenerIsFound` | `ScanInv`, `QuietInv` |
| `EveryNetIsScanned` | what `get_all_subnets` collects | - |

The first is a refinement: each step of `Lan` is one of `Listener`'s or leaves its variables alone, a worker's
connect being the probe of `ProbeArrives`; so the theorems of `Listener_proofs` hold among scanners,
and `Lan_proofs` uses them. `ScanInv` has three parts beside the types of the question and the subnets. `TakeInv` is about the
workers: they are at work only while their scan connects, end only when the subnet's numbers are used up
(`WorkersInv`), and each address has been tried, or is at or above the counter in the present subnet, or lies in a
later one (`TriedInv`). `ListInv` is about events: a scan whose done event is queued is done, has tried every address,
and has nothing behind that event (`DoneInv`). `AskInv` is about the question: no subnet is asked twice,
so nobody of the remaining ones has been asked (`AskedOnce`); each answer that is owed is listed, in the socket's buffer or
still to come (`AnswersInv`); and unless a time-out was early each attempt has read an answer or a stranger's datagram (`ReadsInv`).
`QuietInv` follows an undisturbed scan: one at most is under way; the listener is in the list, in an event or in a worker's
hands (`HomeIsNoted`), or it is still to be tried, and waits (`HomeIsAhead`). A connection to
it that takes longer than the 800 ms ends the scan's being undisturbed, as a system error does: such a scan may miss it. That `Subnets`, which the code
collects in a loop, has each net once is a lemma (`SubnetsAre`); `EveryNetIsScanned` adds that nothing is left out where all
nets fit. That every rank is reached follows from
the least one that is not, since induction is out of the provers' reach.

`Settings_proofs` proves, for any values users choose, any files and any numbers of starts, inputs and faults:

| theorem | of | inductive invariant |
|---|---|---|
| `SettingsTypeCorrect` | `TypeOK` | `TypeInv` |
| `CliRunsUnderTheLastWord` | `CliRunsAsTold` | `RunsInv` |
| `GuiRunsAsItStarted` | `GuiRunsAsStarted` | `RunsInv` |
| `SavesComeBack` | `SavedComesBack` | `IInv` |
| `TornSavesMixNothing` | `NothingOldComesBack` | `IInv` |
| `PrintsComeBack` | `PrintedComesBack` | `PrintInv` |

The assumptions are that what users type has its field's type (`WrongAssumption`) and that a switch in a
file is a boolean or of a wrong type (`SwitchAssumption`), which is what the parser's types are. `IInv` says that every
program's configuration is sound, that is, could be written and read back (`AllSound`); that a file which is being
saved undisturbed is empty and in one program's hands (`SavingAlone`); and that what is in the
user's file since the last undisturbed save is what that save may leave: the whole table when
it was finished, else its first lines, the last one perhaps with a cut number (`FileIsSaved`, `Torn`). The lemmas say what `Apply` makes of a table written by `config_save`, whole or
torn, or by `config_print`. `PrintInv` adds that the profile is the print of what was shown; an option cannot be
mistaken for it, since a print has every field. `RunsInv` says of each program that its configuration is
`Effective` of the layers it has read (`Fresh`, `CliInv`), and that before the options are all read nothing but the log has
been told of them (`OnlyLogSet`); its step is `EffectiveAppend`: one more layer changes the last word as `Apply` does, which
needs the largest of a set of positions. `TypeInv` follows the switches through files, options and pages, and the block size
and timeout through the setters (`Usable`).

`History_proofs` proves `Survives` (`HistorySurvives`) and `HomeAgain` (`ComesHome`) for any threads, names,
lengths of the list and faults. `Places` says where each unpacking thread goes back to: the one that
unpacks alone came from home. `Files` says that the file at home is the list, or what the list was loaded from. The
steps that only `GuiControl` knows are not looked into: they leave these variables alone.
`EverySessionIsSafe` goes the other way: `GuiControl`'s `TypeOK`, `NothingCancelledUnasked`, `OneSendPerStart` and
`QuestionIsShown` hold under `HistorySpec` too, which is no refinement of `GuiControl`, since scans that fail push an error
of their own and programs end and start again. Each step is one of `GuiControl`'s, or a failed scan, or a new start (`StepIs`);
the first are taken from `GuiControl_proofs`, the other two keep its inductive invariants (`ScanControl`, `StartControl`).
`EverySessionHears` does the same for `AnswerIsHeard` with one port.

Every invariant and every action property that a passing run checks is proved, under the assumptions named above. Only model-checked are the
liveness properties (`SenderReturnsInTheEnd` of both protocols, `ReceiverReturnsInTheEnd`, `RetryDelivers`, `SendersEnd`,
`ProbesPassThrough`), which are out of the prover's reach, as is ENABLED, and the absence of deadlock in `tcp`.

## 6. Not modelled

The bandwidth limit, which only delays; two transfers of one GUI
process that share `g_chunk_buf` (`transfer.c:50`) and the temporary archive's name (326); the UDP port
that the responder shares with a UDP transfer of its own process (`discovery.c:51`); a user
who changes the save directory while the prompt is open (`transfer.c:526`); a source that shrinks (713);
UDP in the GUI and in the command line loop; the Windows branches; drawing, layout, the times and speeds of the
history; `raw_callback`, `net_service` and the output buffer of `network.c`,
which have no caller; the TOML parser, which is vendored; the platform layer, which is wrappers.

## 7. What is left

1. Two transfers in one process: `g_chunk_buf` and the temporary archive, as a module that refines two
   copies of `FileDelivery` where they do not meet.
2. The shared UDP port: `Discovery` composed with `UdpTransfer`.
3. `total - resume_offset` over 64-bit and 32-bit numbers, with a source that shrinks.
4. Two scans at once in a run of `Lan`: the theorems have them, TLC checks one.
