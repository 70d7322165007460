------------------------------- MODULE Scanner -------------------------------
(***************************************************************************)
(* The LAN scanner of the GUI program (src/src/scanner.c): for each click  *)
(* on Scan a thread that first asks by broadcast (Discovery) and then      *)
(* starts worker threads, which share a counter of addresses and one       *)
(* static buffer for host names; and the main thread's handling of the     *)
(* click and of the scan's events (ui.c:1255-1261, main.c:452-471).  The   *)
(* command line's scan, `lanft --scan`, only asks (cli.c:314-434).         *)
(*                                                                         *)
(* A host's name is written as its address.                                *)
(***************************************************************************)
EXTENDS Discovery

CONSTANTS
  Last,        \* 254 in the code: 1 .. Last are tried in each subnet
  Workers,     \* the SCANNER_THREADS threads of one scan
  MaxDevices   \* 256 in the code

VARIABLES
  phase,     \* of each scan: idle, collect, broadcast, connect, done; or idle, cli, done
  counter,   \* of each scan: the atomic counter of its present subnet
  worker,    \* of each scan and worker: where it is, and its idx
  tried,     \* history: of each scan, addresses it tried to reach
  host,      \* reverse_dns's static buffer
  events,    \* SDL's event queue; "of" is the scan, which the code does not record
  devices,   \* state.devices
  status     \* scan_status: "", scanning, complete

scannerVars == <<discoveryVars, phase, counter, worker, tried, host, events, devices, status>>

Numbers == 1 .. Last
Addresses == {Subnets[i] : i \in DOMAIN Subnets} \X Numbers
Unknown == <<>> \* an empty host name

ASSUME ScannerAssumption ==
  {Last, MaxDevices} \subseteq Nat \ {0} /\ Workers # {} /\ Responders \subseteq Addresses

\* The address a worker has composed.
AddressOf(s, w) == <<Head(subnets[s]), worker[<<s, w>>].idx>>

Found(s, ip, name) == [kind |-> "found", of |-> s, ip |-> ip, host |-> name]
Done(s)            == [kind |-> "done", of |-> s]

ScannerInit ==
  /\ DiscoveryInit
  /\ phase = [s \in Scans |-> "idle"]
  /\ counter = [s \in Scans |-> 0]
  /\ worker = [k \in Scans \X Workers |-> [pc |-> "none", idx |-> 0]]
  /\ tried = [s \in Scans |-> {}] /\ host = Unknown
  /\ events = <<>> /\ devices = <<>> /\ status = ""

-----------------------------------------------------------------------------
DiscoveryAlone(A) == A /\ UNCHANGED <<phase, counter, worker, tried, host, events, devices, status>>

AnError ==
  /\ Error
  /\ UNCHANGED <<responder, inbox, subnets, asking, buffer, reads, listed, due, strangers, late>>

Push(e) == events' = Append(events, e)

At(s, w, pc) == worker[<<s, w>>].pc = pc
Proceed(s, w, pc) == worker' = [worker EXCEPT ![<<s, w>>].pc = pc]

-----------------------------------------------------------------------------
(* The scan's own thread.                                                  *)

ButSubnets == <<responder, inbox, asking, buffer, reads, listed, errors, due, strangers, late>>

\* get_all_subnets.
Collect(s) ==
  /\ phase[s] = "collect" /\ Subnets # <<>>
  /\ phase' = [phase EXCEPT ![s] = "broadcast"] /\ subnets' = [subnets EXCEPT ![s] = Subnets]
  /\ UNCHANGED <<ButSubnets, counter, worker, tried, host, events, devices, status>>

\* None, or getifaddrs fails: an error event, the same one transfers use, and no done event.
NoSubnets(s) ==
  /\ phase[s] = "collect"
  /\ IF Subnets = <<>> THEN UNCHANGED discoveryVars ELSE AnError
  /\ phase' = [phase EXCEPT ![s] = "done"]
  /\ Push([kind |-> "error", of |-> s])
  /\ UNCHANGED <<counter, worker, tried, host, devices, status>>

Broadcasting(s) == phase[s] \in {"broadcast", "cli"}

\* Each answer is an event with the host name it carries, or a printed line.
BroadcastAnswer(s) ==
  /\ Broadcasting(s)
  /\ \E h \in Responders :
       /\ ReadAnswer(s, h)
       /\ IF phase[s] = "broadcast" THEN Push(Found(s, h, h)) ELSE UNCHANGED events
  /\ UNCHANGED <<phase, counter, worker, tried, host, devices, status>>

BroadcastOther(s) ==
  /\ Broadcasting(s)
  /\ DiscoveryAlone(Ask(s) \/ AskNobody(s) \/ ReadStranger(s) \/ ReadNothing(s) \/ StopAsking(s))

\* scan_subnet starts its threads with a new counter.
Scan(s) ==
  /\ counter' = [counter EXCEPT ![s] = 1]
  /\ worker' = [k \in DOMAIN worker |->
                  IF k[1] = s THEN [pc |-> "take", idx |-> 0] ELSE worker[k]]

StartWorkers(s) ==
  /\ phase[s] = "broadcast" /\ HasAsked(s) /\ Scan(s)
  /\ phase' = [phase EXCEPT ![s] = "connect"] /\ subnets' = [subnets EXCEPT ![s] = Subnets]
  /\ UNCHANGED <<ButSubnets, tried, host, events, devices, status>>

\* The threads are joined, and the next subnet's started.
ScanNext(s) ==
  /\ phase[s] = "connect" /\ \A w \in Workers : At(s, w, "ended")
  /\ Len(subnets[s]) > 1 /\ NextSubnet(s) /\ Scan(s)
  /\ UNCHANGED <<ButSubnets, phase, tried, host, events, devices, status>>

\* `lanft --scan` prints "Scan complete." and ends.
CliScanEnds(s) ==
  /\ phase[s] = "cli" /\ HasAsked(s)
  /\ phase' = [phase EXCEPT ![s] = "done"]
  /\ UNCHANGED <<discoveryVars, counter, worker, tried, host, events, devices, status>>

\* Seeded fault: the threads are not joined.
FinishUnjoined(s) ==
  /\ phase[s] = "connect" /\ Len(subnets[s]) = 1 /\ \E w \in Workers : At(s, w, "ended")
  /\ phase' = [phase EXCEPT ![s] = "done"]
  /\ Push(Done(s))
  /\ UNCHANGED <<discoveryVars, counter, worker, tried, host, devices, status>>

Finish(s) ==
  /\ phase[s] = "connect" /\ Len(subnets[s]) = 1 /\ \A w \in Workers : At(s, w, "ended")
  /\ phase' = [phase EXCEPT ![s] = "done"]
  /\ Push(Done(s))
  /\ UNCHANGED <<discoveryVars, counter, worker, tried, host, devices, status>>

-----------------------------------------------------------------------------
(* scan_ip_thread                                                          *)

\* atomic_fetch_add
Take(s, w) ==
  /\ At(s, w, "take")
  /\ counter' = [counter EXCEPT ![s] = @ + 1]
  /\ worker' = [worker EXCEPT ![<<s, w>>] =
                  [pc |-> IF counter[s] \in Numbers THEN "connect" ELSE "ended",
                   idx |-> counter[s]]]
  /\ tried' = [tried EXCEPT ![s] = @ \union
                ({<<Head(subnets[s]), counter[s]>>} \intersect Addresses)]
  /\ UNCHANGED <<discoveryVars, phase, host, events, devices, status>>

\* socket fails: the address is passed over.
NoSocket(s, w) ==
  /\ At(s, w, "connect") /\ AnError
  /\ Proceed(s, w, "take")
  /\ UNCHANGED <<phase, counter, tried, host, events, devices, status>>

\* Refused, or no answer within 800 ms.
Unreached(s, w) ==
  /\ At(s, w, "connect")
  /\ Proceed(s, w, "take")
  /\ UNCHANGED <<discoveryVars, phase, counter, tried, host, events, devices, status>>

\* Connected: the socket is closed before the name is looked up.
Reached(s, w) ==
  /\ At(s, w, "connect")
  /\ Proceed(s, w, "resolve")
  /\ UNCHANGED <<discoveryVars, phase, counter, tried, host, events, devices, status>>

Resolve(s, w) ==
  /\ At(s, w, "resolve")
  /\ host' = AddressOf(s, w)
  /\ Proceed(s, w, "push")
  /\ UNCHANGED <<discoveryVars, phase, counter, tried, events, devices, status>>

\* The name pushed is the one in the static buffer now.
PushFound(s, w) ==
  /\ At(s, w, "push")
  /\ Push(Found(s, AddressOf(s, w), host))
  /\ Proceed(s, w, "take")
  /\ UNCHANGED <<discoveryVars, phase, counter, tried, host, devices, status>>

-----------------------------------------------------------------------------
(* The main thread.                                                        *)

\* Nothing asks whether a scan is running.
ClickScan(s) ==
  /\ phase[s] = "idle" /\ \A r \in Scans : r < s => phase[r] # "idle"
  /\ phase' = [phase EXCEPT ![s] = "collect"]
  /\ devices' = <<>> /\ status' = "scanning"
  /\ UNCHANGED <<discoveryVars, counter, worker, tried, host, events>>

\* Another program, started to scan; it collects the subnets like the scanner, or none.
CliScan(s) ==
  /\ phase[s] = "idle" /\ \A r \in Scans : r < s => phase[r] # "idle"
  /\ phase' = [phase EXCEPT ![s] = "cli"]
  /\ \/ subnets' = [subnets EXCEPT ![s] = Subnets] /\ UNCHANGED ButSubnets
     \/ AnError
  /\ UNCHANGED <<counter, worker, tried, host, events, devices, status>>

\* Seeded fault: the list's limit is not looked at.
OnFoundUnlimited ==
  /\ events # <<>> /\ Head(events).kind = "found" /\ events' = Tail(events)
  /\ devices' = Append(devices, [ip |-> Head(events).ip, host |-> Head(events).host])
  /\ UNCHANGED <<discoveryVars, phase, counter, worker, tried, host, status>>

\* Seeded fault: the list's last place is left empty.
OnFoundOneShort ==
  /\ events # <<>> /\ Head(events).kind = "found" /\ events' = Tail(events)
  /\ devices' = IF Len(devices) < MaxDevices - 1
                THEN Append(devices, [ip |-> Head(events).ip, host |-> Head(events).host])
                ELSE devices
  /\ UNCHANGED <<discoveryVars, phase, counter, worker, tried, host, status>>

\* The list is not searched for the same device.
OnFound ==
  /\ events # <<>> /\ Head(events).kind = "found" /\ events' = Tail(events)
  /\ devices' = IF Len(devices) < MaxDevices
                THEN Append(devices, [ip |-> Head(events).ip, host |-> Head(events).host])
                ELSE devices
  /\ UNCHANGED <<discoveryVars, phase, counter, worker, tried, host, status>>

OnScanDone ==
  /\ events # <<>> /\ Head(events).kind = "done" /\ events' = Tail(events)
  /\ status' = "complete"
  /\ UNCHANGED <<discoveryVars, phase, counter, worker, tried, host, devices>>

\* An error event is about the transfers' state, see GuiControl.
OnScanError ==
  /\ events # <<>> /\ Head(events).kind = "error" /\ events' = Tail(events)
  /\ UNCHANGED <<discoveryVars, phase, counter, worker, tried, host, devices, status>>

-----------------------------------------------------------------------------
\* The responders, and strangers on their port; when every scan has closed its sockets
\* nobody notices them any more, a bound.
Surroundings ==
  /\ \E s \in Scans : phase[s] \notin {"connect", "done"}
  /\ \/ \E h \in Responders :
          \/ StartResponder(h) \/ BindResponder(h) \/ StopResponder(h)
          \/ \E s \in Scans : Answer(h, s)
     \/ \E s \in Scans : StrangerAnswers(s)

\* The steps that do not reach out to another host's port.
ScannerStep ==
  \/ DiscoveryAlone(Surroundings)
  \/ OnFound \/ OnScanDone \/ OnScanError
  \/ \E s \in Scans :
       \/ ClickScan(s) \/ Collect(s) \/ NoSubnets(s) \/ BroadcastAnswer(s) \/ BroadcastOther(s)
       \/ StartWorkers(s) \/ ScanNext(s) \/ Finish(s) \/ CliScan(s) \/ CliScanEnds(s)
       \/ \E w \in Workers :
            Take(s, w) \/ NoSocket(s, w) \/ Resolve(s, w) \/ PushFound(s, w)
=============================================================================
