--------------------------------- MODULE Lan ---------------------------------
(***************************************************************************)
(* A local network with one lanft listener (Listener), senders, and a GUI  *)
(* user who scans it (Scanner).  The two components meet in one place: a   *)
(* scanner's worker connects to the listener's port, which takes a slot of *)
(* the listener's backlog, one of its connections and its attention.       *)
(***************************************************************************)
EXTENDS Listener, Scanner

CONSTANTS
  Home,      \* the listener's address
  OpenPorts  \* other addresses where some program accepts connections

VARIABLE undisturbed  \* history: the listener waited for a client when the user
                      \* clicked on Scan, and since then nobody but one scan's
                      \* workers and no error has come between, nor has a
                      \* connection to the listener itself taken too long

lanVars == <<listenerVars, scannerVars, undisturbed>>

ASSUME AddressAssumption == Home \in Addresses /\ OpenPorts \subseteq Addresses \ {Home}

LanInit == Init /\ ScannerInit /\ undisturbed = FALSE

-----------------------------------------------------------------------------
\* What connect finds behind an address.
ReachedHome(s, w) ==
  /\ At(s, w, "connect") /\ AddressOf(s, w) = Home
  /\ Reached(s, w) /\ ProbeArrives
  /\ UNCHANGED undisturbed

ReachedOther(s, w) ==
  /\ At(s, w, "connect") /\ AddressOf(s, w) \in OpenPorts
  /\ Reached(s, w)
  /\ UNCHANGED <<listenerVars, undisturbed>>

NotReached(s, w) ==
  /\ At(s, w, "connect") /\ AddressOf(s, w) \notin OpenPorts
  /\ AddressOf(s, w) = Home => ~Reachable
  /\ Unreached(s, w)
  /\ UNCHANGED <<listenerVars, undisturbed>>

\* A connection that is not made within 800 ms: the network is slow, or a lost packet is sent
\* again only after a second.  It may still be made before the worker closes its socket.
TimedOut(s, w) ==
  /\ At(s, w, "connect") /\ AddressOf(s, w) \in OpenPorts \union {Home}
  /\ AnError
  /\ Proceed(s, w, "take")
  /\ UNCHANGED listenerVars \/ (AddressOf(s, w) = Home /\ ProbeArrives)
  /\ undisturbed' = (undisturbed /\ AddressOf(s, w) # Home)
  /\ UNCHANGED <<phase, counter, tried, host, events, devices, status>>

ScannerAlone ==
  /\ ScannerStep
  /\ undisturbed' = IF phase' # phase /\ \E s \in Scans : phase'[s] = "collect" /\ phase[s] = "idle"
                    THEN /\ rPc = "accept" /\ queue = <<>>
                         /\ \A s \in Scans : phase[s] \in {"idle", "done"}
                         /\ events = <<>>
                         /\ \A s \in Senders : sender[s] # "trying"
                    ELSE undisturbed /\ errors' = errors
  /\ UNCHANGED listenerVars

ListenerAlone ==
  /\ ListenerNext
  /\ undisturbed' = (undisturbed /\ faults' = faults /\ \A s \in Senders : sender'[s] # "trying")
  /\ UNCHANGED scannerVars

LanNext ==
  \/ ListenerAlone
  \/ ScannerAlone
  \/ \E s \in Scans, w \in Workers :
       ReachedHome(s, w) \/ ReachedOther(s, w) \/ NotReached(s, w) \/ TimedOut(s, w)

LanSpec == LanInit /\ [][LanNext]_lanVars /\ ListenerFairness

-----------------------------------------------------------------------------
\* The values the scanner's variables may take, and the listener's.
LanTypeOK ==
  /\ TypeOK
  /\ DiscoveryTypeOK
  /\ phase \in [Scans -> {"idle", "collect", "broadcast", "connect", "done", "cli"}]
  /\ \A s \in Scans : \A a \in tried[s] : a[2] \in Numbers
  /\ \A s \in Scans, w \in Workers :
       worker[<<s, w>>].pc \in {"none", "take", "connect", "resolve", "push", "ended"}
  /\ host # Unknown => host[2] \in Numbers
  /\ Len(devices) <= MaxDevices
  /\ status \in {"", "scanning", "complete"}

\* When a scan says that it is done each of its addresses has been tried, and none
\* of its results comes after: its threads share out the numbers of each subnet without a
\* gap and are joined before the next and before the event (scanner.c:117-188, 263-277).
DoneIsLast ==
  \A i \in DOMAIN events : events[i].kind = "done" =>
    /\ tried[events[i].of] = Addresses
    /\ \A j \in i + 1 .. Len(events) : events[j].of # events[i].of

\* A listener that waits when the user clicks on Scan, and whom nobody else visits,
\* is in the list when the scan says "complete", unless a system error or more than 800 ms
\* for the one connection to it came between (scanner.c:138-166, main.c:452-464): it is
\* not busy with another worker of the same scan, nor between two sockets.
QuietListenerIsFound ==
  undisturbed /\ status = "complete" /\ (\A s \in Scans : phase[s] \in {"idle", "done"}) =>
    \/ Len(devices) = MaxDevices
    \/ \E i \in DOMAIN devices : devices[i].ip = Home
=============================================================================
