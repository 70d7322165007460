------------------------------ MODULE Discovery ------------------------------
(***************************************************************************)
(* How running programs are found by broadcast: the responder thread of    *)
(* each program (src/src/discovery.c) and the question both scanners ask   *)
(* in a subnet, the GUI's (scanner.c:209-261) and `lanft --scan`           *)
(* (cli.c:379-430): one datagram to everybody, then Reads attempts to read *)
(* an answer, of which whatever arrives, and every time-out, uses up one.  *)
(*                                                                         *)
(* An address is a pair of its subnet, the first three bytes, and a        *)
(* number, the fourth.                                                     *)
(***************************************************************************)
EXTENDS Integers, Sequences, FiniteSets

CONSTANTS
  Scans,       \* the scans that ask, 1 .. n
  Interfaces,  \* of the host that scans, in getifaddrs' order
  MaxSubnets,  \* 16 in the code
  Responders,  \* addresses of hosts that may run a program with a responder
  Reads,       \* 4 in the code
  MaxErrors    \* bound on errors, lost datagrams, strangers' datagrams and ends of programs

ASSUME DiscoveryAssumption ==
  /\ Interfaces \in Seq({Interfaces[i] : i \in DOMAIN Interfaces})
  /\ IsFiniteSet(Responders) /\ Scans \subseteq Nat
  /\ {MaxSubnets, Reads} \subseteq Nat \ {0} /\ MaxErrors \in Nat

VARIABLES
  responder, \* of each host: off, starting, running (g_disc_running)
  inbox,     \* of each host: the scans whose question waits at its socket
  subnets,   \* of each scan: its subnets, from the present one on
  asking,    \* of each scan: the last subnet's socket, no, open or closed
  buffer,    \* of each scan: the datagrams that wait in it
  reads,     \* of each scan: r, how many attempts it has made
  listed,    \* of each scan: the hosts it has listed
  errors,
  due,       \* history: of each scan, the hosts it asked that owe it an answer or gave one
  strangers, \* history: of each scan, how many strangers answered it
  late       \* history: a time-out passed while an answer was on its way

discoveryVars ==
  <<responder, inbox, subnets, asking, buffer, reads, listed, errors, due, strangers, late>>

Usable(i) == Interfaces[i].name # "lo" /\ Interfaces[i].family = "IPv4"

\* The interfaces that carry IPv4, but for the loopback interface, each the first of its subnet.
Firsts ==
  {i \in DOMAIN Interfaces :
     /\ Usable(i)
     /\ \A j \in 1 .. i - 1 : Usable(j) => Interfaces[j].net # Interfaces[i].net}

Rank(i) == Cardinality({j \in Firsts : j <= i})

\* Their subnets, in their order, as many as there is room for.
Subnets ==
  [n \in 1 .. (IF Cardinality(Firsts) < MaxSubnets THEN Cardinality(Firsts) ELSE MaxSubnets) |->
     Interfaces[CHOOSE i \in Firsts : Rank(i) = n].net]

Stranger == <<>> \* the sender of a datagram that is too short or has no FT_MAGIC

DiscoveryInit ==
  /\ responder \in [Responders -> {"off", "running"}]
  /\ inbox = [h \in Responders |-> {}]
  /\ subnets = [s \in Scans |-> <<>>]
  /\ asking = [s \in Scans |-> "no"] /\ buffer = [s \in Scans |-> <<>>]
  /\ reads = [s \in Scans |-> 0] /\ listed = [s \in Scans |-> {}]
  /\ errors = 0
  /\ due = [s \in Scans |-> {}] /\ strangers = [s \in Scans |-> 0]
  /\ late = [s \in Scans |-> FALSE]

Error == errors < MaxErrors /\ errors' = errors + 1

-----------------------------------------------------------------------------
(* The responder.                                                          *)

\* discovery_start: a thread.
StartResponder(h) ==
  /\ responder[h] = "off"
  /\ responder' = [responder EXCEPT ![h] = "starting"]
  /\ UNCHANGED <<inbox, subnets, asking, buffer, reads, listed, errors, due, strangers, late>>

\* The thread has its socket, or ends without one.
BindResponder(h) ==
  /\ responder[h] = "starting"
  /\ \/ responder' = [responder EXCEPT ![h] = "running"] /\ UNCHANGED errors
     \/ responder' = [responder EXCEPT ![h] = "off"] /\ Error
  /\ UNCHANGED <<inbox, subnets, asking, buffer, reads, listed, due, strangers, late>>

\* discovery_stop closes the socket under the thread; the program ends.
StopResponder(h) ==
  /\ responder[h] # "off" /\ Error
  /\ responder' = [responder EXCEPT ![h] = "off"]
  /\ due' = [s \in Scans |-> due[s] \ (IF s \in inbox[h] THEN {h} ELSE {})]
  /\ inbox' = [inbox EXCEPT ![h] = {}]
  /\ UNCHANGED <<subnets, asking, buffer, reads, listed, strangers, late>>

\* Each subnet is asked from a socket of its own, which is closed before the next.
Hears(s, h) == asking[s] = "open" /\ Head(subnets[s]) = h[1]

\* A datagram for the scan's socket.
Deliver(s, from) == buffer' = [buffer EXCEPT ![s] = Append(@, from)]

\* The responder answers whoever asked; the socket it asked from may be closed by then.
Answer(h, s) ==
  /\ responder[h] = "running" /\ s \in inbox[h]
  /\ inbox' = [inbox EXCEPT ![h] = @ \ {s}]
  /\ \/ Hears(s, h) /\ Deliver(s, h) /\ UNCHANGED <<errors, due>>
     \/ Hears(s, h) /\ Error /\ due' = [due EXCEPT ![s] = @ \ {h}]
        /\ UNCHANGED buffer
     \/ ~Hears(s, h) /\ UNCHANGED <<buffer, errors, due>>
  /\ UNCHANGED <<responder, subnets, asking, reads, listed, strangers, late>>

\* Some other program on the port answers in its own way.
StrangerAnswers(s) ==
  /\ asking[s] = "open" /\ Error /\ Deliver(s, Stranger)
  /\ strangers' = [strangers EXCEPT ![s] = @ + 1]
  /\ UNCHANGED <<responder, inbox, subnets, asking, reads, listed, due, late>>

-----------------------------------------------------------------------------
(* The scan's side; the scanner says when.                                 *)

SubnetsLeft(s) == asking[s] # "open" /\ subnets[s] # <<>>
NextSubnet(s) == subnets' = [subnets EXCEPT ![s] = Tail(@)]

\* The question reaches every responder that runs in the subnet, but for some that it is lost to.
Ask(s) ==
  /\ SubnetsLeft(s) /\ asking' = [asking EXCEPT ![s] = "open"]
  /\ LET running == {h \in Responders : responder[h] = "running" /\ h[1] = Head(subnets[s])} IN
       \E reached \in SUBSET running :
         /\ IF reached = running THEN UNCHANGED errors ELSE Error
         /\ inbox' = [h \in Responders |-> inbox[h] \union (IF h \in reached THEN {s} ELSE {})]
         /\ due' = [due EXCEPT ![s] = reached]
  /\ reads' = [reads EXCEPT ![s] = 0]
  /\ strangers' = [strangers EXCEPT ![s] = 0] /\ late' = [late EXCEPT ![s] = FALSE]
  /\ UNCHANGED <<responder, subnets, buffer, listed>>

\* socket fails: the subnet is passed over.
AskNobody(s) ==
  /\ SubnetsLeft(s) /\ asking' = [asking EXCEPT ![s] = "no"] /\ Error /\ NextSubnet(s)
  /\ UNCHANGED <<responder, inbox, buffer, reads, listed, due, strangers, late>>

HasAsked(s) == asking[s] # "open" /\ subnets[s] = <<>>

Reading(s) == asking[s] = "open" /\ reads[s] < Reads
Attempt(s) == reads' = [reads EXCEPT ![s] = @ + 1]

\* recvfrom, and what a scan makes of the datagram.
ReadAnswer(s, h) ==
  /\ Reading(s) /\ buffer[s] # <<>> /\ Head(buffer[s]) = h /\ h # Stranger
  /\ buffer' = [buffer EXCEPT ![s] = Tail(@)] /\ Attempt(s)
  /\ listed' = [listed EXCEPT ![s] = @ \union {h}]
  /\ UNCHANGED <<responder, inbox, subnets, asking, errors, due, strangers, late>>

\* Seeded fault: what is no answer ends the loop.
ReadStrangerEnds(s) ==
  /\ Reading(s) /\ buffer[s] # <<>> /\ Head(buffer[s]) = Stranger
  /\ buffer' = [buffer EXCEPT ![s] = Tail(@)] /\ reads' = [reads EXCEPT ![s] = Reads]
  /\ UNCHANGED <<responder, inbox, subnets, asking, listed, errors, due, strangers, late>>

\* What is no answer is passed over.
ReadStranger(s) ==
  /\ Reading(s) /\ buffer[s] # <<>> /\ Head(buffer[s]) = Stranger
  /\ buffer' = [buffer EXCEPT ![s] = Tail(@)] /\ Attempt(s)
  /\ UNCHANGED <<responder, inbox, subnets, asking, listed, errors, due, strangers, late>>

\* Nothing for half a second.
ReadNothing(s) ==
  /\ Reading(s) /\ buffer[s] = <<>> /\ Attempt(s)
  /\ late' = [late EXCEPT ![s] = @ \/ \E h \in Responders : s \in inbox[h] /\ Hears(s, h)]
  /\ UNCHANGED <<responder, inbox, subnets, asking, buffer, listed, errors, due, strangers>>

\* The attempts are used up: the socket is closed, with what it still holds.
StopAsking(s) ==
  /\ asking[s] = "open" /\ reads[s] = Reads
  /\ asking' = [asking EXCEPT ![s] = "closed"] /\ buffer' = [buffer EXCEPT ![s] = <<>>]
  /\ NextSubnet(s)
  /\ UNCHANGED <<responder, inbox, reads, listed, errors, due, strangers, late>>

DiscoveryTypeOK ==
  /\ responder \in [Responders -> {"off", "starting", "running"}]
  /\ inbox \in [Responders -> SUBSET Scans]
  /\ asking \in [Scans -> {"no", "open", "closed"}]
  /\ reads \in [Scans -> 0 .. Reads] /\ errors \in 0 .. MaxErrors
  /\ \A s \in Scans : listed[s] \subseteq Responders /\ Len(subnets[s]) <= MaxSubnets

\* When a scan has stopped listening in a subnet it has listed every host it asked whose program
\* ran on and whose answer was not lost, though others answered with rubbish and programs
\* started and stopped meanwhile: unless more answers came than it reads, or one came after a
\* time-out (discovery.c:58-82, scanner.c:233-259, cli.c:412-428).
RespondersAreListed ==
  \A s \in Scans :
    asking[s] = "closed" /\ ~late[s] /\ Cardinality(due[s]) + strangers[s] <= Reads =>
      due[s] \subseteq listed[s]
=============================================================================
