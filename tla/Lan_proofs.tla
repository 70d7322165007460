------------------------------ MODULE Lan_proofs ------------------------------
(***************************************************************************)
(* Theorems about Lan, for any listener, senders, hosts with a responder,  *)
(* interfaces, limits, and any number of scans at once.                    *)
(***************************************************************************)
EXTENDS Lan, Listener_proofs, FiniteSetTheorems, FunctionTheorems, WellFoundedInduction

-----------------------------------------------------------------------------
(* The subnets that a scan collects.                                       *)

LEMMA SmallestOf ==
  ASSUME NEW T \in SUBSET Nat, T # {}
  PROVE  \E m \in T : \A n \in T : m <= n
<1>1. PICK m \in T : \A n \in T : <<n, m>> \notin OpToRel(<, Nat)
  BY WFMin, NatLessThanWellFounded
<1>2. \A n \in T : ~(n < m)
  BY <1>1 DEF OpToRel
<1>3. QED
  BY <1>2

Upto(k) == {j \in Firsts : j <= k}

LEMMA FirstsAre ==
  /\ Len(Interfaces) \in Nat /\ DOMAIN Interfaces = 1 .. Len(Interfaces)
  /\ \A i \in Firsts : i \in Nat /\ 1 <= i /\ i <= Len(Interfaces)
<1>1. Len(Interfaces) \in Nat /\ DOMAIN Interfaces = 1 .. Len(Interfaces)
  BY DiscoveryAssumption
<1>2. QED
  BY <1>1 DEF Firsts

LEMMA FirstsFinite == IsFiniteSet(Firsts) /\ Cardinality(Firsts) \in Nat
<1>1. Firsts \subseteq 1 .. Len(Interfaces)
  BY FirstsAre
<1>2. IsFiniteSet(1 .. Len(Interfaces))
  BY FirstsAre, FS_Interval
<1>3. QED
  BY <1>1, <1>2, FS_Subset, FS_CardinalityType

LEMMA UptoFinite ==
  ASSUME NEW k
  PROVE  IsFiniteSet(Upto(k)) /\ Cardinality(Upto(k)) \in Nat
<1>1. Upto(k) \subseteq Firsts
  BY DEF Upto
<1>2. QED
  BY <1>1, FirstsFinite, FS_Subset, FS_CardinalityType

\* Every rank up to the number of firsts is some first's.
LEMMA RankFound ==
  ASSUME NEW n \in 1 .. Cardinality(Firsts)
  PROVE  \E i \in Firsts : Rank(i) = n
<1> DEFINE Enough == {k \in Nat : Cardinality(Upto(k)) >= n}
<1>1. Upto(Len(Interfaces)) = Firsts
  BY FirstsAre DEF Upto
<1>2. PICK m \in Enough : \A k \in Enough : m <= k
  <2>1. Len(Interfaces) \in Enough
    BY <1>1, FirstsAre, FirstsFinite
  <2>2. QED
    BY <2>1, SmallestOf
<1>3. m # 0
  <2>1. Upto(0) = {}
    BY FirstsAre DEF Upto
  <2>2. QED
    BY <1>2, <2>1, FS_EmptySet
<1>4. m \in Nat /\ m - 1 \in Nat /\ Cardinality(Upto(m - 1)) < n
  <2>1. m \in Nat /\ m - 1 \in Nat /\ ~(m <= m - 1)
    BY <1>2, <1>3
  <2>2. m - 1 \notin Enough
    BY <1>2, <2>1
  <2>3. Cardinality(Upto(m - 1)) \in Nat
    BY UptoFinite
  <2>4. QED
    BY <2>1, <2>2, <2>3
<1>5. m \in Firsts /\ Cardinality(Upto(m)) = Cardinality(Upto(m - 1)) + 1
  <2>1. CASE m \notin Firsts
    <3>1. Upto(m) = Upto(m - 1)
      BY <1>4, <2>1, FirstsAre DEF Upto
    <3>2. Cardinality(Upto(m)) >= n
      BY <1>2
    <3>3. QED
      BY <1>4, <3>1, <3>2, UptoFinite
  <2>2. CASE m \in Firsts
    <3>1. Upto(m) = Upto(m - 1) \union {m} /\ m \notin Upto(m - 1)
      <4>1. \A j \in Firsts : j <= m <=> j <= m - 1 \/ j = m
        BY <1>4, FirstsAre
      <4>2. ~(m <= m - 1)
        BY <1>4
      <4>3. QED
        BY <2>2, <4>1, <4>2 DEF Upto
    <3>2. QED
      BY <2>2, <3>1, FS_AddElement, UptoFinite
  <2>3. QED
    BY <2>1, <2>2
<1>6. Cardinality(Upto(m)) = n
  <2>1. Cardinality(Upto(m)) >= n
    BY <1>2
  <2>2. Cardinality(Upto(m)) \in Nat /\ Cardinality(Upto(m - 1)) \in Nat
    BY UptoFinite
  <2>3. QED
    BY <1>4, <1>5, <2>1, <2>2
<1>7. QED
  BY <1>5, <1>6 DEF Rank, Upto

Nets == {Subnets[i] : i \in DOMAIN Subnets}

\* The subnets are a sequence, in which none comes twice.
LEMMA SubnetsAre ==
  /\ Subnets \in Seq(Nets) /\ Len(Subnets) <= MaxSubnets
  /\ Addresses = Nets \X Numbers
  /\ \A m, n \in DOMAIN Subnets : Subnets[m] = Subnets[n] => m = n
<1> DEFINE size == IF Cardinality(Firsts) < MaxSubnets THEN Cardinality(Firsts) ELSE MaxSubnets
           place(n) == CHOOSE i \in Firsts : Rank(i) = n
<1>1. size \in Nat /\ size <= MaxSubnets /\ size <= Cardinality(Firsts)
  BY FirstsFinite, DiscoveryAssumption
<1>2. DOMAIN Subnets = 1 .. size /\ \A n \in 1 .. size : Subnets[n] = Interfaces[place(n)].net
  BY DEF Subnets
<1>3. Subnets = [n \in 1 .. size |-> Subnets[n]]
  BY DEF Subnets
<1>4. Subnets \in Seq(Nets) /\ Len(Subnets) = size
  <2>1. \A n \in 1 .. size : Subnets[n] \in Nets
    BY <1>2 DEF Nets
  <2>2. Subnets \in [1 .. size -> Nets]
    BY <1>2, <1>3, <2>1
  <2> HIDE DEF size
  <2>3. QED
    BY <1>1, <2>2
<1>5. ASSUME NEW m \in 1 .. size, NEW n \in 1 .. size, Subnets[m] = Subnets[n] PROVE m = n
  <2>1. place(m) \in Firsts /\ Rank(place(m)) = m /\ place(n) \in Firsts /\ Rank(place(n)) = n
    <3>1. m \in 1 .. Cardinality(Firsts) /\ n \in 1 .. Cardinality(Firsts)
      BY <1>1, FirstsFinite
    <3>2. QED
      BY <3>1, RankFound
  <2>2. Interfaces[place(m)].net = Interfaces[place(n)].net
    BY <1>2, <1>5
  <2> HIDE DEF place
  <2>3. place(m) = place(n)
    <3>1. place(m) \in Nat /\ place(n) \in Nat
      BY <2>1, FirstsAre
    <3>2. QED
      BY <2>1, <2>2, <3>1, FirstsAre DEF Firsts
  <2>4. QED
    BY <2>1, <2>3
<1>6. QED
  BY <1>1, <1>2, <1>4, <1>5 DEF Addresses, Nets

\* The nets of all interfaces that can be scanned.
UsableNets == {Interfaces[i].net : i \in {j \in DOMAIN Interfaces : Usable(j)}}

LEMMA FirstOfNet ==
  ASSUME NEW i \in DOMAIN Interfaces, Usable(i)
  PROVE  \E f \in Firsts : Interfaces[f].net = Interfaces[i].net
<1> DEFINE Same == {j \in DOMAIN Interfaces : Usable(j) /\ Interfaces[j].net = Interfaces[i].net}
<1>1. Same \in SUBSET Nat /\ i \in Same
  BY FirstsAre
<1>2. PICK f \in Same : \A j \in Same : f <= j
  BY <1>1, SmallestOf
<1>3. ASSUME NEW j \in 1 .. f - 1, Usable(j), Interfaces[j].net = Interfaces[f].net
      PROVE  FALSE
  <2>1. f \in DOMAIN Interfaces /\ f \in Nat /\ j \in Nat /\ j < f /\ j \in DOMAIN Interfaces
    BY FirstsAre
  <2>2. j \in Same
    BY <1>3, <2>1
  <2>3. QED
    BY <1>2, <2>1, <2>2
<1>4. QED
  BY <1>3 DEF Firsts

LEMMA FirstsCount == IsFiniteSet(UsableNets) /\ Cardinality(UsableNets) = Cardinality(Firsts)
<1> DEFINE f == [i \in Firsts |-> Interfaces[i].net]
<1>1. f \in [Firsts -> UsableNets]
  BY DEF Firsts, UsableNets
<1>2. ASSUME NEW i \in Firsts, NEW j \in Firsts, f[i] = f[j] PROVE i = j
  <2>1. i \in Nat /\ j \in Nat /\ 1 <= i /\ 1 <= j
    BY FirstsAre
  <2>2. Interfaces[i].net = Interfaces[j].net
    BY <1>2
  <2>3. QED
    BY <2>1, <2>2 DEF Firsts
<1>3. \A net \in UsableNets : \E i \in Firsts : f[i] = net
  BY FirstOfNet DEF UsableNets
<1>4. f \in Bijection(Firsts, UsableNets)
  BY <1>1, <1>2, <1>3, Fun_IsBij
<1>5. QED
  BY <1>4, FirstsFinite, FS_Bijection DEF ExistsBijection

\* Two firsts have two ranks.
LEMMA RankGrows ==
  ASSUME NEW i \in Firsts, NEW j \in Firsts, i < j
  PROVE  Rank(i) < Rank(j)
<1>1. i \in Nat /\ j \in Nat
  BY FirstsAre
<1>2. Upto(i) \subseteq Upto(j) /\ j \in Upto(j) /\ j \notin Upto(i)
  <2>1. \A k \in Firsts : k \in Nat
    BY FirstsAre
  <2>2. (\A k \in Firsts : k <= i => k <= j) /\ j <= j /\ ~(j <= i)
    BY <1>1, <2>1
  <2>3. QED
    BY <2>2 DEF Upto
<1>3. Cardinality(Upto(i)) <= Cardinality(Upto(j)) /\ Cardinality(Upto(i)) # Cardinality(Upto(j))
  BY <1>2, FS_Subset, UptoFinite
<1>4. QED
  BY <1>3, UptoFinite DEF Rank, Upto

\* What get_all_subnets collects, loop and duplicates and all: the net of each usable
\* interface once and nothing else, as long as there is room (scanner.c:72-103).
THEOREM EveryNetIsScanned ==
  ASSUME Cardinality(UsableNets) <= MaxSubnets
  PROVE  /\ Nets = UsableNets
         /\ \A m, n \in DOMAIN Subnets : Subnets[m] = Subnets[n] => m = n
<1> DEFINE size == Cardinality(Firsts)
           place(n) == CHOOSE i \in Firsts : Rank(i) = n
<1>1. size \in Nat /\ size <= MaxSubnets /\ MaxSubnets \in Nat
  BY FirstsFinite, FirstsCount, DiscoveryAssumption
<1>2. DOMAIN Subnets = 1 .. size /\ \A n \in 1 .. size : Subnets[n] = Interfaces[place(n)].net
  <2>1. (IF size < MaxSubnets THEN size ELSE MaxSubnets) = size
    BY <1>1
  <2>2. QED
    BY <2>1 DEF Subnets
<1>3. ASSUME NEW net \in Nets PROVE net \in UsableNets
  <2>1. PICK n \in 1 .. size : net = Interfaces[place(n)].net
    BY <1>2 DEF Nets
  <2>2. place(n) \in Firsts
    BY RankFound
  <2>3. QED
    BY <2>1, <2>2 DEF Firsts, UsableNets
<1>4. ASSUME NEW net \in UsableNets PROVE net \in Nets
  <2>1. PICK f \in Firsts : Interfaces[f].net = net
    BY FirstOfNet DEF UsableNets
  <2>2. Rank(f) \in 1 .. size
    <3>1. Upto(f) \subseteq Firsts /\ f \in Upto(f)
      BY FirstsAre DEF Upto
    <3>2. Cardinality(Upto(f)) \in Nat /\ Cardinality(Upto(f)) <= size
      BY <3>1, FirstsFinite, FS_Subset, UptoFinite
    <3>3. Cardinality(Upto(f)) # 0
      BY <3>1, UptoFinite, FS_EmptySet
    <3>4. QED
      BY <1>1, <3>2, <3>3 DEF Rank, Upto
  <2>3. place(Rank(f)) = f
    <3>1. \A i \in Firsts : Rank(i) = Rank(f) => i = f
      <4>1. \A i \in Firsts : Rank(i) \in Nat /\ i \in Nat
        BY UptoFinite, FirstsAre DEF Rank, Upto
      <4>2. ASSUME NEW i \in Firsts, Rank(i) = Rank(f), i # f PROVE FALSE
        <5>1. i < f \/ f < i
          BY <4>1, <4>2
        <5>2. QED
          BY <4>1, <4>2, <5>1, RankGrows
      <4>3. QED
        BY <4>2
    <3>2. QED
      BY <3>1
  <2>4. Subnets[Rank(f)] = net /\ Rank(f) \in DOMAIN Subnets
    BY <1>2, <2>1, <2>2, <2>3
  <2>5. QED
    BY <2>4 DEF Nets
<1>5. QED
  BY <1>3, <1>4, SubnetsAre

-----------------------------------------------------------------------------
(* The inductive invariant.                                                *)

Phases == {"idle", "collect", "broadcast", "connect", "done", "cli"}
Places == {"none", "take", "connect", "resolve", "push", "ended"}
Busy   == {"connect", "resolve", "push"} \* places of a worker that has an address
Names  == Addresses \union {Unknown}

Results == [kind : {"found"}, of : Scans, ip : Addresses, host : Names]
Ends    == [kind : {"done", "error"}, of : Scans]

\* Types: what Discovery keeps, and what Scanner adds.
AskT ==
  /\ responder \in [Responders -> {"off", "starting", "running"}]
  /\ inbox \in [Responders -> SUBSET Scans]
  /\ asking \in [Scans -> {"no", "open", "closed"}]
  /\ buffer \in [Scans -> Seq(Responders \union {Stranger})]
  /\ reads \in [Scans -> 0 .. Reads]
  /\ listed \in [Scans -> SUBSET Responders] /\ due \in [Scans -> SUBSET Responders]
  /\ errors \in 0 .. MaxErrors
  /\ strangers \in [Scans -> Nat] /\ late \in [Scans -> BOOLEAN]

SubnetsT == subnets \in [Scans -> Seq(Nets)] /\ \A s \in Scans : Len(subnets[s]) <= MaxSubnets

ScanT ==
  /\ phase \in [Scans -> Phases] /\ counter \in [Scans -> Nat]
  /\ worker \in [Scans \X Workers -> [pc : Places, idx : Nat]]
  /\ tried \in [Scans -> SUBSET Addresses]

ListT ==
  /\ host \in Names
  /\ events \in Seq(Results \union Ends)
  /\ devices \in Seq([ip : Addresses, host : Names]) /\ Len(devices) <= MaxDevices
  /\ status \in {"", "scanning", "complete"}

\* A worker is at work only while its scan connects, and ends when the numbers are used up.
WorkersInv ==
  \A s \in Scans :
    /\ phase[s] = "connect" => subnets[s] # <<>> /\ counter[s] >= 1
    /\ \A w \in Workers :
         /\ worker[<<s, w>>].pc \in Busy => worker[<<s, w>>].idx \in Numbers
         /\ worker[<<s, w>>].pc \in Busy \union {"take"} => phase[s] = "connect"
         /\ phase[s] = "connect" /\ At(s, w, "ended") => counter[s] > Last
         /\ phase[s] = "connect" => ~At(s, w, "none")

\* An address of a scan that connects was tried, or has its turn in this subnet or a later one.
TriedInv ==
  \A s \in Scans :
    /\ phase[s] \in {"idle", "collect", "broadcast"} => tried[s] = {}
    /\ phase[s] = "connect" => \A a \in Addresses :
         \/ a \in tried[s]
         \/ a[1] = Head(subnets[s]) /\ a[2] >= counter[s]
         \/ \E i \in 2 .. Len(subnets[s]) : subnets[s][i] = a[1]

\* Who says done is done, and has no more to say.
DoneInv ==
  \A i \in DOMAIN events : events[i].kind = "done" =>
    /\ phase[events[i].of] = "done" /\ tried[events[i].of] = Addresses
    /\ \A j \in i + 1 .. Len(events) : events[j].of # events[i].of

-----------------------------------------------------------------------------
Elems(q) == {q[i] : i \in DOMAIN q}

\* The subnets a scan has still to ask.
Remaining(s) ==
  {subnets[s][i] : i \in (IF asking[s] = "open" THEN 2 ELSE 1) .. Len(subnets[s])}

\* Each subnet is asked once, so nobody of the remaining ones has anything to do with the scan.
AskedOnce(s) ==
  /\ Broadcasting(s) => \A i, j \in DOMAIN subnets[s] : subnets[s][i] = subnets[s][j] => i = j
  /\ Broadcasting(s) => \A h \in Responders :
       s \in inbox[h] \/ h \in listed[s] => h[1] \notin Remaining(s)
  /\ phase[s] \in {"idle", "collect"} =>
       /\ asking[s] = "no" /\ subnets[s] = <<>> /\ listed[s] = {}
       /\ \A h \in Responders : s \notin inbox[h]

\* Where the answers are: of the hosts that owe one, each is listed, in the buffer or still to
\* answer; who has answered does not answer again.
AnswersInv(s) ==
  /\ asking[s] = "open" => Broadcasting(s) /\ subnets[s] # <<>>
  /\ asking[s] # "open" => buffer[s] = <<>>
  /\ \A h \in Responders : s \in inbox[h] => h \notin listed[s] /\ h \notin Elems(buffer[s])
  /\ asking[s] = "open" => \A h \in Responders :
       /\ h \in due[s] \/ h \in Elems(buffer[s]) => h[1] = Head(subnets[s])
       /\ h \in due[s] => h \in listed[s] \/ h \in Elems(buffer[s]) \/ s \in inbox[h]
       /\ s \in inbox[h] /\ h[1] = Head(subnets[s]) => h \in due[s]

Answered(s) == {h \in due[s] : s \notin inbox[h]}

\* As long as no time-out was early each attempt has read an answer or a stranger's datagram.
ReadsInv(s) ==
  ~late[s] =>
    /\ asking[s] = "open" =>
         \/ due[s] \subseteq listed[s]
         \/ reads[s] + Len(buffer[s]) <= Cardinality(Answered(s)) + strangers[s]
    /\ asking[s] = "closed" =>
         \/ due[s] \subseteq listed[s]
         \/ Reads <= Cardinality(due[s] \intersect listed[s]) + strangers[s]

AskInv == \A s \in Scans : AskedOnce(s) /\ AnswersInv(s) /\ ReadsInv(s)

-----------------------------------------------------------------------------
Active(s) == phase[s] \in {"collect", "broadcast", "connect"}
Spoken(s) == \E i \in DOMAIN events : events[i].of = s
Heard(s)  == Active(s) \/ Spoken(s)

Expects == rPc = "accept" /\ queue = <<>> /\ \A x \in Senders : sender[x] # "trying"

\* The list has the listener, or will have it: an event or a worker brings it.
InList        == Len(devices) = MaxDevices \/ \E i \in DOMAIN devices : devices[i].ip = Home
Announced     == \E i \in DOMAIN events : events[i].kind = "found" /\ events[i].ip = Home
Passing(s, w) == worker[<<s, w>>].pc \in {"resolve", "push"} /\ AddressOf(s, w) = Home
HomeIsNoted   == InList \/ Announced \/ \E s \in Scans, w \in Workers : Passing(s, w)

\* A scan has still to try the listener, which waits for it.
Trying(s, w) == At(s, w, "connect") /\ AddressOf(s, w) = Home
Ahead(s)     == Active(s) /\ (Home \notin tried[s] \/ \E w \in Workers : Trying(s, w))
HomeIsAhead  == Expects /\ \E s \in Scans : Ahead(s)

\* One scan at most is under way, and the listener waits until it has been found.
QuietInv ==
  undisturbed =>
    /\ \A s, t \in Scans : Heard(s) /\ Heard(t) => s = t
    /\ status = "complete" => \A s \in Scans : ~Heard(s)
    /\ HomeIsNoted \/ HomeIsAhead

-----------------------------------------------------------------------------
(* The steps, as the invariant sees them.                                  *)

\* What goes on in the network and at the scans' sockets.
Network == \/ \E h \in Responders : \/ StartResponder(h) \/ BindResponder(h) \/ StopResponder(h)
                                    \/ \E s \in Scans : Answer(h, s)
           \/ \E s \in Scans : StrangerAnswers(s)

Asks(s) == Ask(s) \/ AskNobody(s) \/ ReadStranger(s) \/ ReadNothing(s) \/ StopAsking(s)

\* The steps that leave Discovery's variables alone, but for errors and subnets.
OfWorker(s, w) ==
  \/ Take(s, w) \/ NoSocket(s, w) \/ Reached(s, w) \/ Unreached(s, w)
  \/ Resolve(s, w) \/ PushFound(s, w)

OfScan(s) ==
  \/ ClickScan(s) \/ CliScan(s) \/ Collect(s) \/ NoSubnets(s) \/ StartWorkers(s) \/ ScanNext(s)
  \/ Finish(s) \/ CliScanEnds(s)

OfList == OnFound \/ OnScanDone \/ OnScanError

ScanStep ==
  \/ DiscoveryAlone(Network)
  \/ \E s \in Scans : Broadcasting(s) /\ DiscoveryAlone(Asks(s))
  \/ \E s \in Scans : BroadcastAnswer(s)
  \/ \E s \in Scans : OfScan(s)
  \/ \E s \in Scans, w \in Workers : OfWorker(s, w)
  \/ OfList

LEMMA StepIs ==
  ASSUME [LanNext]_lanVars
  PROVE  UNCHANGED scannerVars \/ ScanStep
<1>1. CASE UNCHANGED lanVars \/ ListenerAlone
  BY <1>1 DEF lanVars, ListenerAlone
<1>2. CASE ScannerAlone
  <2>1. CASE DiscoveryAlone(Surroundings)
    BY <2>1 DEF DiscoveryAlone, Surroundings, ScanStep, Network
  <2>2. CASE \E s \in Scans : BroadcastOther(s)
    BY <2>2 DEF BroadcastOther, Asks, DiscoveryAlone, ScanStep
  <2>3. CASE OnFound \/ OnScanDone \/ OnScanError
    BY <2>3 DEF ScanStep, OfList
  <2>4. CASE \E s \in Scans :
               \/ ClickScan(s) \/ Collect(s) \/ NoSubnets(s) \/ StartWorkers(s) \/ ScanNext(s)
               \/ Finish(s) \/ CliScan(s) \/ CliScanEnds(s)
    BY <2>4 DEF ScanStep, OfScan
  <2>5. CASE \E s \in Scans : \E w \in Workers :
               Take(s, w) \/ NoSocket(s, w) \/ Resolve(s, w) \/ PushFound(s, w)
    BY <2>5 DEF ScanStep, OfWorker
  <2>6. CASE \E s \in Scans : BroadcastAnswer(s)
    BY <2>6 DEF ScanStep
  <2>7. QED
    BY <1>2, <2>1, <2>2, <2>3, <2>4, <2>5, <2>6 DEF ScannerAlone, ScannerStep
<1>3. CASE \E s \in Scans, w \in Workers :
             ReachedHome(s, w) \/ ReachedOther(s, w) \/ NotReached(s, w) \/ TimedOut(s, w)
  BY <1>3 DEF ReachedHome, ReachedOther, NotReached, TimedOut, NoSocket, ScanStep, OfWorker
<1>4. QED
  BY <1>1, <1>2, <1>3 DEF LanNext

\* The constants' types.
LEMMA Constants ==
  /\ Last \in Nat /\ Last >= 1 /\ MaxDevices \in Nat /\ MaxDevices >= 1
  /\ MaxSubnets \in Nat /\ Reads \in Nat /\ MaxErrors \in Nat
  /\ IsFiniteSet(Responders) /\ Responders \subseteq Addresses
BY DiscoveryAssumption, ScannerAssumption

\* An address is a pair, which neither Unknown nor Stranger is.
LEMMA AddressIs ==
  /\ \A a \in Addresses : a = <<a[1], a[2]>> /\ a[1] \in Nets /\ a[2] \in Numbers
  /\ Unknown \notin Addresses /\ Stranger \notin Responders
<1>1. \A a \in Addresses : a = <<a[1], a[2]>> /\ a[1] \in Nets /\ a[2] \in Numbers
  BY SubnetsAre
<1>2. \A a \in Addresses : a # <<>>
  BY <1>1
<1>3. QED
  BY <1>1, <1>2, Constants DEF Unknown, Stranger

-----------------------------------------------------------------------------
(* Types.                                                                  *)

LEMMA NetworkAskT ==
  ASSUME AskT, Network
  PROVE  AskT'
<1> USE Constants DEF AskT
<1>1. ASSUME NEW h \in Responders, StartResponder(h) PROVE AskT'
  BY <1>1 DEF StartResponder
<1>2. ASSUME NEW h \in Responders, BindResponder(h) PROVE AskT'
  <2>1. responder' \in [Responders -> {"off", "starting", "running"}]
    BY <1>2 DEF BindResponder
  <2>2. errors' \in 0 .. MaxErrors
    BY <1>2 DEF BindResponder, Error
  <2>3. QED
    BY <1>2, <2>1, <2>2 DEF BindResponder
<1>3. ASSUME NEW h \in Responders, StopResponder(h) PROVE AskT'
  BY <1>3 DEF StopResponder, Error
<1>4. ASSUME NEW h \in Responders, NEW s \in Scans, Answer(h, s) PROVE AskT'
  <2>1. buffer' \in [Scans -> Seq(Responders \union {Stranger})]
    <3>1. CASE Deliver(s, h)
      <4>1. Append(buffer[s], h) \in Seq(Responders \union {Stranger})
        OBVIOUS
      <4>2. QED
        BY <3>1, <4>1 DEF Deliver
    <3>2. CASE UNCHANGED buffer
      BY <3>2
    <3>3. QED
      BY <1>4, <3>1, <3>2 DEF Answer
  <2>2. QED
    BY <1>4, <2>1 DEF Answer, Error
<1>5. ASSUME NEW s \in Scans, StrangerAnswers(s) PROVE AskT'
  <2>1. buffer' \in [Scans -> Seq(Responders \union {Stranger})]
    BY <1>5 DEF StrangerAnswers, Deliver
  <2>2. strangers' \in [Scans -> Nat] /\ errors' \in 0 .. MaxErrors
    BY <1>5 DEF StrangerAnswers, Error
  <2>3. QED
    BY <1>5, <2>1, <2>2 DEF StrangerAnswers
<1>6. QED
  BY <1>1, <1>2, <1>3, <1>4, <1>5 DEF Network

LEMMA AsksAskT ==
  ASSUME AskT, NEW s \in Scans, Asks(s) \/ \E h \in Responders : ReadAnswer(s, h)
  PROVE  AskT'
<1> USE Constants DEF AskT
<1>1. CASE Ask(s)
  <2>1. PICK reached \in SUBSET Responders :
          /\ UNCHANGED errors \/ Error
          /\ inbox' = [h \in Responders |-> inbox[h] \union (IF h \in reached THEN {s} ELSE {})]
          /\ due' = [due EXCEPT ![s] = reached]
    BY <1>1 DEF Ask
  <2>2. inbox' \in [Responders -> SUBSET Scans] /\ due' \in [Scans -> SUBSET Responders]
    BY <2>1
  <2>3. QED
    BY <1>1, <2>1, <2>2 DEF Ask, Error
<1>2. CASE AskNobody(s)
  BY <1>2 DEF AskNobody, Error
<1>3. CASE ReadStranger(s)
  BY <1>3 DEF ReadStranger, Reading, Attempt
<1>4. CASE ReadNothing(s)
  BY <1>4 DEF ReadNothing, Reading, Attempt
<1>5. CASE StopAsking(s)
  BY <1>5 DEF StopAsking
<1>6. ASSUME NEW h \in Responders, ReadAnswer(s, h) PROVE AskT'
  BY <1>6 DEF ReadAnswer, Reading, Attempt
<1>7. QED
  BY <1>1, <1>2, <1>3, <1>4, <1>5, <1>6 DEF Asks

LEMMA StepAskT ==
  ASSUME AskT, ScanStep
  PROVE  AskT'
<1>1. CASE DiscoveryAlone(Network)
  BY <1>1, NetworkAskT DEF DiscoveryAlone
<1>2. CASE \E s \in Scans : Broadcasting(s) /\ DiscoveryAlone(Asks(s))
  BY <1>2, AsksAskT DEF DiscoveryAlone
<1>3. CASE \E s \in Scans : BroadcastAnswer(s)
  BY <1>3, AsksAskT DEF BroadcastAnswer
<1>4. CASE \/ \E s \in Scans : OfScan(s)
           \/ \E s \in Scans, w \in Workers : OfWorker(s, w)
           \/ OfList
  <2>1. /\ UNCHANGED <<responder, inbox, asking, buffer, reads, listed, due, strangers, late>>
        /\ UNCHANGED errors \/ Error
    BY <1>4 DEF OfScan, ClickScan, CliScan, Collect, NoSubnets, StartWorkers, ScanNext, Finish,
                CliScanEnds, OfWorker, Take, NoSocket, Reached, Unreached, Resolve, PushFound,
                OfList, OnFound, OnScanDone, OnScanError, AnError, ButSubnets, discoveryVars
  <2>2. QED
    BY <2>1, Constants DEF AskT, Error
<1>5. QED
  BY <1>1, <1>2, <1>3, <1>4 DEF ScanStep

LEMMA TailOf ==
  ASSUME NEW T, NEW q \in Seq(T), q # <<>>
  PROVE  /\ Tail(q) \in Seq(T) /\ Len(Tail(q)) = Len(q) - 1 /\ Len(q) >= 1
         /\ \A i \in 1 .. Len(q) - 1 : Tail(q)[i] = q[i + 1]
         /\ Head(q) = q[1] /\ Head(q) \in T
OBVIOUS

\* Whoever asks has a subnet to ask.
Open == \A s \in Scans : asking[s] = "open" => Broadcasting(s) /\ subnets[s] # <<>>

\* Only a scan that asks, or starts, or goes on to the next subnet changes its subnets.
LEMMA AsksSubnets ==
  ASSUME SubnetsT, Open, NEW s \in Scans, Asks(s) \/ \E h \in Responders : ReadAnswer(s, h)
  PROVE  /\ SubnetsT' /\ \A t \in Scans \ {s} : subnets'[t] = subnets[t]
         /\ subnets'[s] = subnets[s] \/ (subnets[s] # <<>> /\ subnets'[s] = Tail(subnets[s]))
<1>1. CASE UNCHANGED subnets
  BY <1>1 DEF SubnetsT
<1>2. CASE NextSubnet(s) /\ subnets[s] # <<>>
  <2>1. Tail(subnets[s]) \in Seq(Nets) /\ Len(Tail(subnets[s])) <= MaxSubnets
    <3>1. subnets[s] \in Seq(Nets) /\ Len(subnets[s]) <= MaxSubnets
      BY DEF SubnetsT
    <3>2. QED
      BY <1>2, <3>1, TailOf, Constants
  <2>2. QED
    BY <1>2, <2>1 DEF SubnetsT, NextSubnet
<1>3. QED
  BY <1>1, <1>2 DEF Asks, Ask, AskNobody, SubnetsLeft, ReadStranger, ReadNothing, StopAsking,
                    ReadAnswer, Open

LEMMA NetworkSubnets ==
  ASSUME Network
  PROVE  UNCHANGED subnets
BY DEF Network, StartResponder, BindResponder, StopResponder, Answer, StrangerAnswers

\* A scan begins with all subnets, or with none when the command line could not collect them.
LEMMA NewSubnets ==
  ASSUME SubnetsT, NEW s \in Scans, NEW q \in {Subnets, Tail(subnets[s])},
         q = Subnets \/ subnets[s] # <<>>, subnets' = [subnets EXCEPT ![s] = q]
  PROVE  SubnetsT'
<1>1. q \in Seq(Nets) /\ Len(q) <= MaxSubnets
  <2>1. CASE q = Subnets
    BY <2>1, SubnetsAre
  <2>2. CASE q = Tail(subnets[s]) /\ subnets[s] # <<>>
    <3>1. subnets[s] \in Seq(Nets) /\ Len(subnets[s]) <= MaxSubnets
      BY DEF SubnetsT
    <3>2. QED
      BY <2>2, <3>1, TailOf, Constants
  <2>3. QED
    BY <2>1, <2>2
<1>2. QED
  BY <1>1 DEF SubnetsT

LEMMA StepSubnetsT ==
  ASSUME SubnetsT, Open, ScanStep
  PROVE  SubnetsT'
<1>1. CASE DiscoveryAlone(Network)
  BY <1>1, NetworkSubnets DEF DiscoveryAlone, SubnetsT
<1>2. CASE \E s \in Scans : Broadcasting(s) /\ DiscoveryAlone(Asks(s))
  BY <1>2, AsksSubnets DEF DiscoveryAlone
<1>3. CASE \E s \in Scans : BroadcastAnswer(s)
  BY <1>3, AsksSubnets DEF BroadcastAnswer
<1>4. ASSUME NEW s \in Scans, OfScan(s)
      PROVE  SubnetsT'
  <2>1. CASE UNCHANGED subnets
    BY <2>1 DEF SubnetsT
  <2>2. CASE subnets' = [subnets EXCEPT ![s] = Subnets]
    BY <2>2, NewSubnets
  <2>3. CASE NextSubnet(s) /\ Len(subnets[s]) > 1
    <3>1. subnets[s] # <<>>
      BY <2>3
    <3>2. QED
      BY <2>3, <3>1, NewSubnets DEF NextSubnet
  <2>4. QED
    BY <1>4, <2>1, <2>2, <2>3
    DEF OfScan, ClickScan, CliScan, Collect, NoSubnets, StartWorkers, ScanNext, Finish,
        CliScanEnds, AnError, discoveryVars
<1>5. CASE (\E s \in Scans, w \in Workers : OfWorker(s, w)) \/ OfList
  <2>1. UNCHANGED subnets
    BY <1>5 DEF OfWorker, Take, NoSocket, Reached, Unreached, Resolve, PushFound,
                OfList, OnFound, OnScanDone, OnScanError, AnError, discoveryVars
  <2>2. QED
    BY <2>1 DEF SubnetsT
<1>6. QED
  BY <1>1, <1>2, <1>3, <1>4, <1>5 DEF ScanStep

-----------------------------------------------------------------------------
(* The workers share out the addresses.                                    *)

TakeInv == ScanT /\ WorkersInv /\ TriedInv

LEMMA ScanRests ==
  ASSUME TakeInv, UNCHANGED <<phase, counter, worker, tried>>,
         \A s \in Scans : phase[s] = "connect" => subnets'[s] = subnets[s]
  PROVE  TakeInv'
<1> USE DEF TakeInv
<1>1. ScanT'
  BY DEF ScanT
<1>2. WorkersInv'
  BY DEF WorkersInv, At
<1>3. ASSUME NEW s \in Scans
      PROVE  /\ phase'[s] = phase[s] /\ tried'[s] = tried[s] /\ counter'[s] = counter[s]
             /\ phase[s] = "connect" => subnets'[s] = subnets[s]
  OBVIOUS
<1>4. TriedInv'
  <2>1. ASSUME NEW s \in Scans, phase'[s] \in {"idle", "collect", "broadcast"} PROVE tried'[s] = {}
    BY <1>3, <2>1 DEF TriedInv
  <2>2. ASSUME NEW s \in Scans, phase'[s] = "connect", NEW a \in Addresses
        PROVE  \/ a \in tried'[s]
               \/ a[1] = Head(subnets'[s]) /\ a[2] >= counter'[s]
               \/ \E i \in 2 .. Len(subnets'[s]) : subnets'[s][i] = a[1]
    BY <1>3, <2>2 DEF TriedInv
  <2>3. QED
    BY <2>1, <2>2 DEF TriedInv
<1>5. QED
  BY <1>1, <1>2, <1>4

\* A worker that has an address goes on with it, or to the next one.
LEMMA WorkerMoves ==
  ASSUME TakeInv, NEW s \in Scans, NEW w \in Workers, worker[<<s, w>>].pc \in Busy,
         NEW pc \in Busy \union {"take"}, Proceed(s, w, pc),
         UNCHANGED <<phase, counter, tried, subnets>>
  PROVE  TakeInv'
<1> USE DEF TakeInv
<1>1. worker' = [worker EXCEPT ![<<s, w>>] = [pc |-> pc, idx |-> worker[<<s, w>>].idx]]
  <2>1. worker[<<s, w>>] \in [pc : Places, idx : Nat]
    BY DEF ScanT
  <2>2. [worker[<<s, w>>] EXCEPT !.pc = pc] = [pc |-> pc, idx |-> worker[<<s, w>>].idx]
    BY <2>1
  <2>3. worker' = [worker EXCEPT ![<<s, w>>] = [worker[<<s, w>>] EXCEPT !.pc = pc]]
    BY DEF Proceed
  <2>4. QED
    BY <2>2, <2>3
<1>2. pc \in Places
  BY DEF Busy, Places
<1>3. ScanT'
  BY <1>1, <1>2 DEF ScanT
<1>4. \A t \in Scans, v \in Workers :
         worker'[<<t, v>>] = IF t = s /\ v = w THEN [pc |-> pc, idx |-> worker[<<s, w>>].idx]
                                               ELSE worker[<<t, v>>]
  BY <1>1 DEF ScanT
<1>5. pc # "ended" /\ pc # "none" /\ phase[s] = "connect"
  BY DEF Busy, WorkersInv
<1>6. WorkersInv'
  BY <1>4, <1>5 DEF WorkersInv, At
<1>7. TriedInv'
  BY DEF TriedInv
<1>8. QED
  BY <1>3, <1>6, <1>7

LEMMA TakeStep ==
  ASSUME TakeInv, SubnetsT, NEW s \in Scans, NEW w \in Workers, Take(s, w)
  PROVE  TakeInv'
<1> USE DEF TakeInv
<1> DEFINE rec == [pc |-> IF counter[s] \in Numbers THEN "connect" ELSE "ended",
                   idx |-> counter[s]]
<1>1. /\ At(s, w, "take") /\ phase[s] = "connect" /\ counter[s] \in Nat /\ counter[s] >= 1
      /\ subnets[s] # <<>> /\ subnets[s] \in Seq(Nets)
  BY DEF Take, WorkersInv, At, ScanT, SubnetsT
<1>2. /\ UNCHANGED <<subnets, phase>>
      /\ counter' = [counter EXCEPT ![s] = counter[s] + 1]
      /\ worker' = [worker EXCEPT ![<<s, w>>] = rec]
      /\ tried' = [tried EXCEPT ![s] = tried[s] \union
                    ({<<Head(subnets[s]), counter[s]>>} \intersect Addresses)]
  BY DEF Take, discoveryVars
<1>3. rec \in [pc : Places, idx : Nat]
  BY <1>1 DEF Places
<1>4. ScanT'
  BY <1>1, <1>2, <1>3 DEF ScanT
<1>5. \A t \in Scans, v \in Workers :
         worker'[<<t, v>>] = IF t = s /\ v = w THEN rec ELSE worker[<<t, v>>]
  BY <1>2 DEF ScanT
<1>6. \A t \in Scans : counter'[t] = IF t = s THEN counter[s] + 1 ELSE counter[t]
  BY <1>2 DEF ScanT
<1>7. WorkersInv'
  <2>1. counter[s] \in Numbers \/ counter[s] > Last
    BY <1>1, Constants DEF Numbers
  <2>2. Last \in Nat /\ \A t \in Scans : counter[t] \in Nat
    BY Constants DEF ScanT
  <2>3. /\ rec.pc \in Busy => rec.idx \in Numbers
        /\ rec.pc # "none" /\ (rec.pc = "ended" => counter'[s] > Last)
    BY <1>1, <1>6, <2>1, <2>2 DEF Busy
  <2> HIDE DEF rec
  <2>4. ASSUME NEW t \in Scans
        PROVE  phase'[t] = "connect" => subnets'[t] # <<>> /\ counter'[t] >= 1
    BY <1>1, <1>2, <1>6, <2>2 DEF WorkersInv
  <2>5. ASSUME NEW t \in Scans, NEW v \in Workers
        PROVE  /\ worker'[<<t, v>>].pc \in Busy => worker'[<<t, v>>].idx \in Numbers
               /\ worker'[<<t, v>>].pc \in Busy \union {"take"} => phase'[t] = "connect"
               /\ phase'[t] = "connect" /\ worker'[<<t, v>>].pc = "ended" => counter'[t] > Last
               /\ phase'[t] = "connect" => worker'[<<t, v>>].pc # "none"
    <3>1. CASE t = s /\ v = w
      BY <1>1, <1>2, <1>5, <2>3, <3>1
    <3>2. CASE ~(t = s /\ v = w)
      <4>1. worker'[<<t, v>>] = worker[<<t, v>>] /\ phase'[t] = phase[t]
        BY <1>2, <1>5, <3>2
      <4>2. phase[t] = "connect" /\ worker[<<t, v>>].pc = "ended" => counter[t] > Last
        BY DEF WorkersInv, At
      <4>3. counter'[t] >= counter[t]
        BY <1>6, <2>2
      <4>4. counter'[t] \in Nat /\ counter[t] \in Nat
        BY <1>6, <2>2
      <4>5. phase'[t] = "connect" /\ worker'[<<t, v>>].pc = "ended" => counter'[t] > Last
        BY <2>2, <4>1, <4>2, <4>3, <4>4
      <4>6. /\ worker[<<t, v>>].pc \in Busy => worker[<<t, v>>].idx \in Numbers
            /\ worker[<<t, v>>].pc \in Busy \union {"take"} => phase[t] = "connect"
            /\ phase[t] = "connect" => worker[<<t, v>>].pc # "none"
        BY DEF WorkersInv, At
      <4>7. QED
        BY <4>1, <4>5, <4>6
    <3>3. QED
      BY <3>1, <3>2
  <2>6. QED
    BY <2>4, <2>5 DEF WorkersInv, At
<1>8. TriedInv'
  <2>1. ASSUME NEW t \in Scans, phase'[t] \in {"idle", "collect", "broadcast"} PROVE tried'[t] = {}
    BY <1>1, <1>2, <2>1 DEF TriedInv, ScanT
  <2>2. ASSUME NEW t \in Scans, phase'[t] = "connect", NEW a \in Addresses
        PROVE  \/ a \in tried'[t]
               \/ a[1] = Head(subnets'[t]) /\ a[2] >= counter'[t]
               \/ \E i \in 2 .. Len(subnets'[t]) : subnets'[t][i] = a[1]
    <3>1. CASE t # s
      <4>1. /\ tried'[t] = tried[t] /\ counter'[t] = counter[t]
            /\ subnets'[t] = subnets[t] /\ phase[t] = "connect"
        BY <1>2, <1>6, <2>2, <3>1 DEF ScanT
      <4>2. QED
        BY <4>1 DEF TriedInv
    <3>2. CASE t = s
      <4>1. CASE a[1] = Head(subnets[s]) /\ a[2] = counter[s]
        <5>1. a = <<Head(subnets[s]), counter[s]>>
          BY <4>1, AddressIs
        <5>2. QED
          BY <1>2, <3>2, <5>1 DEF ScanT
      <4>2. CASE a[1] = Head(subnets[s]) /\ a[2] >= counter[s] /\ a[2] # counter[s]
        <5>1. a[2] \in Nat
          BY AddressIs DEF Numbers
        <5>2. QED
          BY <1>1, <1>2, <1>6, <3>2, <4>2, <5>1
      <4>3. CASE a \in tried[s] \/ \E i \in 2 .. Len(subnets[s]) : subnets[s][i] = a[1]
        BY <1>2, <3>2, <4>3 DEF ScanT
      <4>4. QED
        BY <1>1, <4>1, <4>2, <4>3 DEF TriedInv
    <3>3. QED
      BY <3>1, <3>2
  <2>3. QED
    BY <2>1, <2>2 DEF TriedInv
<1>9. QED
  BY <1>4, <1>7, <1>8

\* A scan whose workers are not at work changes its phase.
LEMMA PhaseMoves ==
  ASSUME TakeInv, NEW s \in Scans, NEW f \in Phases \ {"connect"},
         phase' = [phase EXCEPT ![s] = f], UNCHANGED <<counter, worker, tried>>,
         \A t \in Scans : phase'[t] = "connect" => subnets'[t] = subnets[t],
         \A w \in Workers : worker[<<s, w>>].pc \notin Busy \union {"take"},
         f \in {"idle", "collect", "broadcast"} => phase[s] \in {"idle", "collect"}
  PROVE  TakeInv'
<1> USE DEF TakeInv
<1>1. ScanT'
  BY DEF ScanT
<1>2. \A t \in Scans : phase'[t] = IF t = s THEN f ELSE phase[t]
  BY DEF ScanT
<1>3. WorkersInv'
  BY <1>2 DEF WorkersInv, At
<1>4. TriedInv'
  BY <1>2 DEF TriedInv
<1>5. QED
  BY <1>1, <1>3, <1>4

\* All of a scan's workers are put to work in a subnet.
LEMMA WorkersStart ==
  ASSUME TakeInv, SubnetsT', NEW s \in Scans, Scan(s), UNCHANGED tried,
         phase' = [phase EXCEPT ![s] = "connect"], subnets'[s] # <<>>,
         \A t \in Scans \ {s} : subnets'[t] = subnets[t],
         \A a \in Addresses : \/ a \in tried[s]
                              \/ \E i \in DOMAIN subnets'[s] : subnets'[s][i] = a[1]
  PROVE  TakeInv'
<1> USE DEF TakeInv
<1>1. \A t \in Scans, w \in Workers :
         worker'[<<t, w>>] = IF t = s THEN [pc |-> "take", idx |-> 0] ELSE worker[<<t, w>>]
  BY DEF Scan, ScanT
<1>2. \A t \in Scans : /\ phase'[t] = IF t = s THEN "connect" ELSE phase[t]
                       /\ counter'[t] = IF t = s THEN 1 ELSE counter[t]
  BY DEF Scan, ScanT
<1>3. ScanT'
  <2>1. phase' \in [Scans -> Phases] /\ counter' \in [Scans -> Nat]
    BY DEF ScanT, Scan, Phases
  <2>2. [pc |-> "take", idx |-> 0] \in [pc : Places, idx : Nat]
    BY DEF Places
  <2>3. worker' \in [Scans \X Workers -> [pc : Places, idx : Nat]]
    BY <2>2 DEF ScanT, Scan
  <2>4. QED
    BY <2>1, <2>3 DEF ScanT
<1>4. WorkersInv'
  <2>1. ASSUME NEW t \in Scans
        PROVE  phase'[t] = "connect" => subnets'[t] # <<>> /\ counter'[t] >= 1
    BY <1>2 DEF WorkersInv
  <2>2. ASSUME NEW t \in Scans, NEW v \in Workers
        PROVE  /\ worker'[<<t, v>>].pc \in Busy => worker'[<<t, v>>].idx \in Numbers
               /\ worker'[<<t, v>>].pc \in Busy \union {"take"} => phase'[t] = "connect"
               /\ phase'[t] = "connect" /\ worker'[<<t, v>>].pc = "ended" => counter'[t] > Last
               /\ phase'[t] = "connect" => worker'[<<t, v>>].pc # "none"
    BY <1>1, <1>2 DEF WorkersInv, At, Busy
  <2>3. QED
    BY <2>1, <2>2 DEF WorkersInv, At
<1>5. TriedInv'
  <2>1. ASSUME NEW t \in Scans, phase'[t] \in {"idle", "collect", "broadcast"} PROVE tried'[t] = {}
    BY <1>2, <2>1 DEF TriedInv
  <2>2. ASSUME NEW t \in Scans, phase'[t] = "connect", NEW a \in Addresses
        PROVE  \/ a \in tried'[t]
               \/ a[1] = Head(subnets'[t]) /\ a[2] >= counter'[t]
               \/ \E i \in 2 .. Len(subnets'[t]) : subnets'[t][i] = a[1]
    <3>1. CASE t # s
      BY <1>2, <2>2, <3>1 DEF TriedInv
    <3>2. CASE t = s
      <4>1. a[2] \in Nat /\ a[2] >= 1
        BY AddressIs DEF Numbers
      <4>2. subnets'[s] \in Seq(Nets)
        BY DEF SubnetsT
      <4>3. CASE a \in tried[s]
        BY <3>2, <4>3
      <4>4. CASE \E i \in DOMAIN subnets'[s] : subnets'[s][i] = a[1]
        <5>1. PICK i \in 1 .. Len(subnets'[s]) : subnets'[s][i] = a[1]
          BY <4>2, <4>4
        <5>2. i = 1 \/ i \in 2 .. Len(subnets'[s])
          BY <4>2
        <5>3. i = 1 => a[1] = Head(subnets'[s])
          BY <4>2, <5>1, TailOf
        <5>4. QED
          BY <1>2, <3>2, <4>1, <5>1, <5>2, <5>3
      <4>5. QED
        BY <4>3, <4>4
    <3>3. QED
      BY <3>1, <3>2
  <2>3. QED
    BY <2>1, <2>2 DEF TriedInv
<1>6. QED
  BY <1>3, <1>4, <1>5

\* When every worker has ended all numbers of the subnet have been tried.
LEMMA SubnetIsTried ==
  ASSUME TakeInv, SubnetsT, NEW s \in Scans, phase[s] = "connect",
         \A w \in Workers : At(s, w, "ended"), NEW a \in Addresses, a \notin tried[s]
  PROVE  \E i \in 2 .. Len(subnets[s]) : subnets[s][i] = a[1]
<1>1. PICK w \in Workers : TRUE
  BY ScannerAssumption
<1>2. counter[s] > Last /\ counter[s] \in Nat
  BY <1>1 DEF TakeInv, WorkersInv, ScanT
<1>3. a[2] \in Nat /\ a[2] <= Last
  BY AddressIs, Constants DEF Numbers
<1>4. ~(a[2] >= counter[s])
  BY <1>2, <1>3, Constants
<1>5. QED
  BY <1>4 DEF TakeInv, TriedInv

LEMMA StepTakeInv ==
  ASSUME TakeInv, SubnetsT, Open, ScanStep
  PROVE  TakeInv'
<1>0. SubnetsT'
  BY StepSubnetsT
<1>1. CASE DiscoveryAlone(Network)
  BY <1>1, ScanRests, NetworkSubnets DEF DiscoveryAlone
<1>2. ASSUME NEW s \in Scans, Broadcasting(s),
             Asks(s) \/ \E h \in Responders : ReadAnswer(s, h),
             UNCHANGED <<phase, counter, worker, tried>>
      PROVE  TakeInv'
  <2>1. \A t \in Scans \ {s} : subnets'[t] = subnets[t]
    BY <1>2, AsksSubnets
  <2>2. phase[s] # "connect"
    BY <1>2 DEF Broadcasting
  <2>3. QED
    BY <1>2, <2>1, <2>2, ScanRests
<1>3. ASSUME NEW s \in Scans, OfScan(s)
      PROVE  TakeInv'
  <2>1. \A w \in Workers : phase[s] # "connect" => worker[<<s, w>>].pc \notin Busy \union {"take"}
    BY DEF TakeInv, WorkersInv
  <2>2. CASE ClickScan(s)
    BY <2>1, <2>2, PhaseMoves DEF ClickScan, Phases, discoveryVars
  <2>3. CASE CliScan(s)
    <3>1. \A t \in Scans \ {s} : subnets'[t] = subnets[t]
      BY <2>3 DEF CliScan, AnError, SubnetsT
    <3>2. phase' = [phase EXCEPT ![s] = "cli"] /\ phase'[s] = "cli" /\ phase[s] = "idle"
      BY <2>3 DEF CliScan, TakeInv, ScanT
    <3>3. QED
      BY <2>1, <2>3, <3>1, <3>2, PhaseMoves DEF CliScan, Phases
  <2>4. CASE Collect(s)
    <3>1. \A t \in Scans \ {s} : subnets'[t] = subnets[t]
      BY <2>4 DEF Collect, SubnetsT
    <3>2. phase' = [phase EXCEPT ![s] = "broadcast"] /\ phase'[s] = "broadcast" /\ phase[s] = "collect"
      BY <2>4 DEF Collect, TakeInv, ScanT
    <3>3. QED
      BY <2>1, <2>4, <3>1, <3>2, PhaseMoves DEF Collect, Phases
  <2>5. CASE NoSubnets(s)
    BY <2>1, <2>5, PhaseMoves DEF NoSubnets, AnError, Phases, discoveryVars
  <2>6. CASE StartWorkers(s)
    <3>1. subnets' = [subnets EXCEPT ![s] = Subnets] /\ Scan(s) /\ UNCHANGED tried
          /\ phase' = [phase EXCEPT ![s] = "connect"] /\ phase[s] = "broadcast"
      BY <2>6 DEF StartWorkers
    <3>2. subnets'[s] = Subnets /\ \A t \in Scans \ {s} : subnets'[t] = subnets[t]
      BY <3>1 DEF SubnetsT
    <3>3. \A a \in Addresses : \E i \in DOMAIN Subnets : Subnets[i] = a[1]
      BY AddressIs DEF Nets
    <3>4. Subnets # <<>>
      <4>1. DOMAIN Subnets # {}
        BY <3>3, AddressAssumption
      <4>2. DOMAIN Subnets = 1 .. Len(Subnets)
        BY SubnetsAre
      <4>3. QED
        BY <4>1, <4>2
    <3>5. QED
      BY <1>0, <3>1, <3>2, <3>3, <3>4, WorkersStart
  <2>7. CASE ScanNext(s)
    <3>1. /\ subnets' = [subnets EXCEPT ![s] = Tail(subnets[s])] /\ Scan(s) /\ UNCHANGED tried
          /\ UNCHANGED phase /\ phase[s] = "connect" /\ \A w \in Workers : At(s, w, "ended")
          /\ Len(subnets[s]) > 1
      BY <2>7 DEF ScanNext, NextSubnet
    <3>2. subnets'[s] = Tail(subnets[s]) /\ \A t \in Scans \ {s} : subnets'[t] = subnets[t]
      BY <3>1 DEF SubnetsT
    <3>3. phase' = [phase EXCEPT ![s] = "connect"]
      BY <3>1 DEF TakeInv, ScanT
    <3>4. /\ subnets[s] \in Seq(Nets) /\ Len(subnets[s]) \in Nat /\ subnets[s] # <<>>
          /\ Len(Tail(subnets[s])) = Len(subnets[s]) - 1 /\ Tail(subnets[s]) \in Seq(Nets)
          /\ \A i \in 1 .. Len(subnets[s]) - 1 : Tail(subnets[s])[i] = subnets[s][i + 1]
      <4>1. subnets[s] \in Seq(Nets) /\ Len(subnets[s]) \in Nat /\ subnets[s] # <<>>
        BY <3>1 DEF SubnetsT
      <4>2. QED
        BY <4>1, TailOf
    <3>5. Tail(subnets[s]) # <<>>
      <4> DEFINE n == Len(subnets[s])
                 m == Len(Tail(subnets[s]))
      <4>1. n \in Nat /\ n > 1 /\ m = n - 1
        BY <3>1, <3>4
      <4> HIDE DEF n, m
      <4>2. m # 0
        BY <4>1
      <4>3. Len(<<>>) = 0
        OBVIOUS
      <4>4. QED
        BY <4>2, <4>3 DEF m
    <3>6. ASSUME NEW a \in Addresses, a \notin tried[s]
          PROVE  \E i \in DOMAIN Tail(subnets[s]) : Tail(subnets[s])[i] = a[1]
      <4>1. PICK i \in 2 .. Len(subnets[s]) : subnets[s][i] = a[1]
        BY <3>1, <3>6, SubnetIsTried
      <4>2. /\ i - 1 \in 1 .. Len(subnets[s]) - 1 /\ (i - 1) + 1 = i
            /\ DOMAIN Tail(subnets[s]) = 1 .. Len(subnets[s]) - 1
        BY <3>4
      <4>3. Tail(subnets[s])[i - 1] = subnets[s][i]
        BY <3>4, <4>2
      <4>4. QED
        BY <4>1, <4>2, <4>3
    <3>7. /\ Scan(s) /\ UNCHANGED tried /\ subnets'[s] # <<>>
          /\ \A t \in Scans \ {s} : subnets'[t] = subnets[t]
      BY <3>1, <3>2, <3>5
    <3>8. \A a \in Addresses : \/ a \in tried[s]
                               \/ \E i \in DOMAIN subnets'[s] : subnets'[s][i] = a[1]
      BY <3>2, <3>6
    <3>9. QED
      BY <1>0, <3>3, <3>7, <3>8, WorkersStart
  <2>8. CASE Finish(s)
    <3>1. \A w \in Workers : worker[<<s, w>>].pc \notin Busy \union {"take"}
      BY <2>8 DEF Finish, At, Busy
    <3>2. QED
      BY <2>8, <3>1, PhaseMoves DEF Finish, Phases, discoveryVars
  <2>9. CASE CliScanEnds(s)
    BY <2>1, <2>9, PhaseMoves DEF CliScanEnds, Phases, discoveryVars
  <2>10. QED
    BY <1>3, <2>2, <2>3, <2>4, <2>5, <2>6, <2>7, <2>8, <2>9 DEF OfScan
<1>4. ASSUME NEW s \in Scans, NEW w \in Workers, OfWorker(s, w)
      PROVE  TakeInv'
  <2>1. CASE Take(s, w)
    BY <2>1, TakeStep
  <2>2. CASE NoSocket(s, w) \/ Unreached(s, w)
    BY <2>2, WorkerMoves DEF NoSocket, Unreached, AnError, At, Busy, discoveryVars
  <2>3. CASE Reached(s, w) \/ Resolve(s, w)
    BY <2>3, WorkerMoves DEF Reached, Resolve, At, Busy, discoveryVars
  <2>4. CASE PushFound(s, w)
    BY <2>4, WorkerMoves DEF PushFound, At, Busy, discoveryVars
  <2>5. QED
    BY <1>4, <2>1, <2>2, <2>3, <2>4 DEF OfWorker
<1>5. CASE OfList
  BY <1>5, ScanRests DEF OfList, OnFound, OnScanDone, OnScanError, discoveryVars
<1>6. QED
  BY <1>1, <1>2, <1>3, <1>4, <1>5 DEF ScanStep, DiscoveryAlone, BroadcastAnswer

-----------------------------------------------------------------------------
(* The events and the list.                                                *)

ListInv == ListT /\ DoneInv

LEMMA EventsAre ==
  ASSUME ListT
  PROVE  /\ events \in Seq(Results \union Ends) /\ Len(events) \in Nat
         /\ DOMAIN events = 1 .. Len(events)
         /\ \A i \in 1 .. Len(events) : events[i] \in Results \union Ends /\ events[i].of \in Scans
<1>1. \A e \in Results \union Ends : e.of \in Scans
  BY DEF Results, Ends
<1>2. events \in Seq(Results \union Ends)
  BY DEF ListT
<1> HIDE DEF Results, Ends
<1>3. QED
  BY <1>1, <1>2

\* A new event is the last one; the others keep their places.
LEMMA AppendOf ==
  ASSUME NEW T, NEW q \in Seq(T), NEW e \in T
  PROVE  /\ Append(q, e) \in Seq(T) /\ Len(Append(q, e)) = Len(q) + 1 /\ Len(q) \in Nat
         /\ \A i \in 1 .. Len(q) : Append(q, e)[i] = q[i]
         /\ Append(q, e)[Len(q) + 1] = e
OBVIOUS

\* Scans and their addresses stay done.
LEMMA ListRests ==
  ASSUME ListInv, UNCHANGED <<host, events, devices, status>>,
         \A s \in Scans : phase[s] = "done" => phase'[s] = "done" /\ tried'[s] = tried[s]
  PROVE  ListInv'
<1>1. ListT'
  BY DEF ListInv, ListT
<1>2. \A i \in DOMAIN events : events[i].of \in Scans
  BY EventsAre DEF ListInv
<1>3. DoneInv'
  BY <1>2 DEF ListInv, DoneInv
<1>4. QED
  BY <1>1, <1>3 DEF ListInv

LEMMA ListPush ==
  ASSUME ListInv, NEW e \in Results \union Ends, Push(e), UNCHANGED <<devices, status>>,
         host' \in Names,
         \A s \in Scans : phase[s] = "done" => phase'[s] = "done" /\ tried'[s] = tried[s],
         phase[e.of] # "done",
         e.kind = "done" => phase'[e.of] = "done" /\ tried'[e.of] = Addresses
  PROVE  ListInv'
<1>1. /\ events \in Seq(Results \union Ends) /\ events' = Append(events, e)
      /\ events' \in Seq(Results \union Ends)
      /\ Len(events') = Len(events) + 1 /\ Len(events) \in Nat
      /\ \A i \in 1 .. Len(events) : events'[i] = events[i]
      /\ events'[Len(events) + 1] = e
  <2>1. events \in Seq(Results \union Ends) /\ events' = Append(events, e)
    BY DEF ListInv, ListT, Push
  <2> HIDE DEF Results, Ends
  <2>2. QED
    BY <2>1, AppendOf
<1>2. ListT'
  BY <1>1 DEF ListInv, ListT
<1>3. \A i \in 1 .. Len(events) : events[i].of \in Scans
  BY EventsAre DEF ListInv
<1>4. ASSUME NEW i \in DOMAIN events', events'[i].kind = "done"
      PROVE  /\ phase'[events'[i].of] = "done" /\ tried'[events'[i].of] = Addresses
             /\ \A j \in i + 1 .. Len(events') : events'[j].of # events'[i].of
  <2>1. i \in 1 .. Len(events) + 1 /\ DOMAIN events = 1 .. Len(events)
    BY <1>1
  <2>2. CASE i = Len(events) + 1
    BY <1>1, <1>4, <2>2
  <2>3. CASE i \in 1 .. Len(events)
    <3>1. events[i].kind = "done" /\ events'[i] = events[i]
      BY <1>1, <1>4, <2>3
    <3>2. /\ phase[events[i].of] = "done" /\ tried[events[i].of] = Addresses
          /\ \A j \in i + 1 .. Len(events) : events[j].of # events[i].of
      BY <2>1, <2>3, <3>1 DEF ListInv, DoneInv
    <3>3. ASSUME NEW j \in i + 1 .. Len(events') PROVE events'[j].of # events'[i].of
      <4>1. CASE j = Len(events) + 1
        BY <1>1, <3>1, <3>2, <4>1
      <4>2. CASE j # Len(events) + 1
        <5>1. j \in i + 1 .. Len(events) /\ j \in 1 .. Len(events)
          BY <1>1, <2>3, <4>2
        <5>2. QED
          BY <1>1, <3>1, <3>2, <5>1
      <4>3. QED
        BY <4>1, <4>2
    <3>4. QED
      BY <1>3, <2>3, <3>1, <3>2, <3>3
  <2>4. QED
    BY <2>1, <2>2, <2>3
<1>5. QED
  BY <1>2, <1>4 DEF ListInv, DoneInv

LEMMA ListPop ==
  ASSUME ListInv, events # <<>>, events' = Tail(events), UNCHANGED <<host, phase, tried>>,
         \/ UNCHANGED devices
         \/ /\ Head(events).kind = "found" /\ Len(devices) < MaxDevices
            /\ devices' = Append(devices, [ip |-> Head(events).ip, host |-> Head(events).host]),
         status' \in {status, "complete"}
  PROVE  ListInv'
<1>1. events \in Seq(Results \union Ends)
  BY DEF ListInv, ListT
<1>2. /\ events' \in Seq(Results \union Ends) /\ Len(events') = Len(events) - 1 /\ Len(events) \in Nat
      /\ \A i \in 1 .. Len(events) - 1 : events'[i] = events[i + 1]
      /\ Head(events) \in Results \union Ends
  BY <1>1, TailOf
<1>3. devices' \in Seq([ip : Addresses, host : Names]) /\ Len(devices') <= MaxDevices
  <2>1. devices \in Seq([ip : Addresses, host : Names]) /\ Len(devices) <= MaxDevices
    BY DEF ListInv, ListT
  <2>2. CASE UNCHANGED devices
    BY <2>1, <2>2
  <2>3. CASE /\ Head(events).kind = "found" /\ Len(devices) < MaxDevices
             /\ devices' = Append(devices, [ip |-> Head(events).ip, host |-> Head(events).host])
    <3>1. Head(events) \in Results
      BY <1>2, <2>3 DEF Ends
    <3>2. [ip |-> Head(events).ip, host |-> Head(events).host] \in [ip : Addresses, host : Names]
      BY <3>1 DEF Results
    <3>3. QED
      BY <2>1, <2>3, <3>2, AppendOf, Constants
  <2>4. QED
    BY <2>2, <2>3
<1>4. ListT'
  BY <1>2, <1>3 DEF ListInv, ListT
<1>5. ASSUME NEW i \in DOMAIN events', events'[i].kind = "done"
      PROVE  /\ phase'[events'[i].of] = "done" /\ tried'[events'[i].of] = Addresses
             /\ \A j \in i + 1 .. Len(events') : events'[j].of # events'[i].of
  <2>1. i \in 1 .. Len(events) - 1 /\ i + 1 \in DOMAIN events
    BY <1>1, <1>2
  <2>2. events'[i] = events[i + 1]
    BY <1>2, <2>1
  <2>3. /\ phase[events[i + 1].of] = "done" /\ tried[events[i + 1].of] = Addresses
        /\ \A j \in (i + 1) + 1 .. Len(events) : events[j].of # events[i + 1].of
    BY <1>5, <2>1, <2>2 DEF ListInv, DoneInv
  <2>4. ASSUME NEW j \in i + 1 .. Len(events') PROVE events'[j].of # events'[i].of
    <3>1. j + 1 \in (i + 1) + 1 .. Len(events) /\ j \in 1 .. Len(events) - 1
      BY <1>2, <2>1
    <3>2. events'[j] = events[j + 1]
      BY <1>2, <3>1
    <3>3. QED
      BY <2>2, <2>3, <3>1, <3>2
  <2>5. QED
    BY <2>2, <2>3, <2>4
<1>6. QED
  BY <1>4, <1>5 DEF ListInv, DoneInv

LEMMA StepListInv ==
  ASSUME TakeInv, SubnetsT, AskT, ListInv, ScanStep
  PROVE  ListInv'
<1>1. CASE DiscoveryAlone(Network) \/ \E s \in Scans : Broadcasting(s) /\ DiscoveryAlone(Asks(s))
  BY <1>1, ListRests DEF DiscoveryAlone
<1>2. ASSUME NEW s \in Scans, BroadcastAnswer(s)
      PROVE  ListInv'
  <2>1. PICK h \in Responders :
           /\ ReadAnswer(s, h)
           /\ IF phase[s] = "broadcast" THEN Push(Found(s, h, h)) ELSE UNCHANGED events
    BY <1>2 DEF BroadcastAnswer
  <2>2. UNCHANGED <<phase, tried, host, devices, status>>
    BY <1>2 DEF BroadcastAnswer
  <2>3. CASE phase[s] = "broadcast"
    <3>1. Found(s, h, h) \in Results
      BY Constants DEF Found, Results, Names
    <3>2. Found(s, h, h).of = s /\ Found(s, h, h).kind = "found"
      BY DEF Found
    <3>3. host' \in Names
      BY <2>2 DEF ListInv, ListT
    <3>4. QED
      BY <2>1, <2>2, <2>3, <3>1, <3>2, <3>3, ListPush
  <2>4. CASE phase[s] # "broadcast"
    BY <2>1, <2>2, <2>4, ListRests
  <2>5. QED
    BY <2>3, <2>4
<1>3. ASSUME NEW s \in Scans, OfScan(s)
      PROVE  ListInv'
  <2> host \in Names
    BY DEF ListInv, ListT
  <2>1. CASE ClickScan(s)
    <3>1. ListT'
      <4>1. UNCHANGED <<host, events>> /\ devices' = <<>> /\ status' = "scanning"
        BY <2>1 DEF ClickScan
      <4>2. devices' \in Seq([ip : Addresses, host : Names]) /\ Len(devices') <= MaxDevices
        BY <4>1, Constants
      <4>3. QED
        BY <4>1, <4>2 DEF ListInv, ListT
    <3>2. \A i \in DOMAIN events : events[i].of \in Scans
      BY EventsAre DEF ListInv
    <3>3. \A t \in Scans : phase[t] = "done" => phase'[t] = "done" /\ tried'[t] = tried[t]
      BY <2>1 DEF ClickScan, TakeInv, ScanT
    <3>4. UNCHANGED events
      BY <2>1 DEF ClickScan
    <3>5. DoneInv'
      BY <3>2, <3>3, <3>4 DEF ListInv, DoneInv
    <3>6. QED
      BY <3>1, <3>5 DEF ListInv
  <2>2. CASE CliScan(s) \/ Collect(s) \/ StartWorkers(s) \/ ScanNext(s) \/ CliScanEnds(s)
    <3>1. \A t \in Scans : phase[t] = "done" => phase'[t] = "done" /\ tried'[t] = tried[t]
      BY <2>2 DEF CliScan, Collect, StartWorkers, ScanNext, CliScanEnds, TakeInv, ScanT
    <3>2. QED
      BY <2>2, <3>1, ListRests DEF CliScan, Collect, StartWorkers, ScanNext, CliScanEnds
  <2>3. CASE NoSubnets(s)
    <3> DEFINE e == [kind |-> "error", of |-> s]
    <3>1. e \in Ends /\ e.of = s /\ e.kind # "done"
      BY DEF Ends
    <3>2. phase[s] = "collect" /\ Push(e)
      BY <2>3 DEF NoSubnets
    <3>3. \A t \in Scans : phase[t] = "done" => phase'[t] = "done" /\ tried'[t] = tried[t]
      BY <2>3 DEF NoSubnets, TakeInv, ScanT
    <3>4. UNCHANGED <<host, devices, status>>
      BY <2>3 DEF NoSubnets
    <3> HIDE DEF e
    <3>5. QED
      BY <3>1, <3>2, <3>3, <3>4, ListPush
  <2>4. CASE Finish(s)
    <3>1. Done(s) \in Ends /\ Done(s).of = s /\ Done(s).kind = "done"
      BY DEF Ends, Done
    <3>2. /\ phase[s] = "connect" /\ Push(Done(s)) /\ UNCHANGED <<tried, host, devices, status>>
          /\ phase' = [phase EXCEPT ![s] = "done"]
          /\ Len(subnets[s]) = 1 /\ \A w \in Workers : At(s, w, "ended")
      BY <2>4 DEF Finish
    <3>3. /\ \A t \in Scans : phase[t] = "done" => phase'[t] = "done" /\ tried'[t] = tried[t]
          /\ phase'[s] = "done"
      BY <3>2 DEF TakeInv, ScanT
    <3>4. tried[s] = Addresses
      <4>1. ASSUME NEW a \in Addresses, a \notin tried[s] PROVE FALSE
        <5>1. \E i \in 2 .. Len(subnets[s]) : subnets[s][i] = a[1]
          BY <3>2, <4>1, SubnetIsTried
        <5>2. QED
          BY <3>2, <5>1
      <4>2. tried[s] \subseteq Addresses
        BY DEF TakeInv, ScanT
      <4>3. QED
        BY <4>1, <4>2
    <3>5. QED
      BY <3>1, <3>2, <3>3, <3>4, ListPush
  <2>5. QED
    BY <1>3, <2>1, <2>2, <2>3, <2>4 DEF OfScan
<1>4. ASSUME NEW s \in Scans, NEW w \in Workers, OfWorker(s, w)
      PROVE  ListInv'
  <2>1. worker[<<s, w>>].pc \in Busy => /\ AddressOf(s, w) \in Addresses /\ phase[s] = "connect"
    <3>1. SUFFICES ASSUME worker[<<s, w>>].pc \in Busy
                   PROVE  AddressOf(s, w) \in Addresses /\ phase[s] = "connect"
      OBVIOUS
    <3>2. /\ worker[<<s, w>>].idx \in Numbers /\ phase[s] = "connect" /\ subnets[s] # <<>>
          /\ subnets[s] \in Seq(Nets)
      BY <3>1 DEF TakeInv, WorkersInv, SubnetsT
    <3>3. Head(subnets[s]) \in Nets
      BY <3>2
    <3>4. QED
      BY <3>2, <3>3, SubnetsAre DEF AddressOf
  <2>2. CASE Take(s, w)
    <3>1. \A t \in Scans : phase[t] = "done" => phase'[t] = "done" /\ tried'[t] = tried[t]
      <4>1. phase[s] = "connect"
        BY <2>2 DEF Take, At, TakeInv, WorkersInv
      <4>2. QED
        BY <2>2, <4>1 DEF Take, TakeInv, ScanT
    <3>2. QED
      BY <2>2, <3>1, ListRests DEF Take
  <2>3. CASE NoSocket(s, w) \/ Unreached(s, w) \/ Reached(s, w)
    BY <2>3, ListRests DEF NoSocket, Unreached, Reached
  <2>4. CASE Resolve(s, w)
    <3>1. host' \in Names
      BY <2>1, <2>4 DEF Resolve, At, Busy, Names
    <3>2. ListT'
      BY <2>4, <3>1 DEF ListInv, ListT, Resolve
    <3>3. DoneInv'
      BY <2>4 DEF ListInv, DoneInv, Resolve
    <3>4. QED
      BY <3>2, <3>3 DEF ListInv
  <2>5. CASE PushFound(s, w)
    <3>1. At(s, w, "push") /\ Push(Found(s, AddressOf(s, w), host))
          /\ UNCHANGED <<phase, tried, host, devices, status>>
      BY <2>5 DEF PushFound
    <3>2. host \in Names
      BY DEF ListInv, ListT
    <3>3. Found(s, AddressOf(s, w), host) \in Results /\ Found(s, AddressOf(s, w), host).of = s
          /\ Found(s, AddressOf(s, w), host).kind = "found"
      BY <2>1, <3>1, <3>2 DEF Found, Results, At, Busy
    <3>4. phase[s] = "connect"
      BY <2>1, <3>1 DEF At, Busy
    <3>5. QED
      BY <3>1, <3>2, <3>3, <3>4, ListPush
  <2>6. QED
    BY <1>4, <2>2, <2>3, <2>4, <2>5 DEF OfWorker
<1>5. CASE OfList
  BY <1>5, ListPop DEF OfList, OnFound, OnScanDone, OnScanError
<1>6. QED
  BY <1>1, <1>2, <1>3, <1>4, <1>5 DEF ScanStep

-----------------------------------------------------------------------------
(* What a scan asks, and who answers.                                      *)

LEMMA ElemsAppend ==
  ASSUME NEW T, NEW q \in Seq(T), NEW e \in T
  PROVE  Elems(Append(q, e)) = Elems(q) \union {e}
<1>1. /\ Append(q, e) \in Seq(T) /\ Len(Append(q, e)) = Len(q) + 1 /\ Len(q) \in Nat
      /\ \A i \in 1 .. Len(q) : Append(q, e)[i] = q[i]
      /\ Append(q, e)[Len(q) + 1] = e
  BY AppendOf
<1>2. DOMAIN q = 1 .. Len(q) /\ DOMAIN Append(q, e) = 1 .. Len(q) + 1
  BY <1>1
<1>3. \A i \in 1 .. Len(q) + 1 : i \in 1 .. Len(q) \/ i = Len(q) + 1
  BY <1>1
<1>4. Len(q) + 1 \in 1 .. Len(q) + 1 /\ 1 .. Len(q) \subseteq 1 .. Len(q) + 1
  BY <1>1
<1>5. QED
  BY <1>1, <1>2, <1>3, <1>4 DEF Elems

LEMMA ElemsTail ==
  ASSUME NEW T, NEW q \in Seq(T), q # <<>>
  PROVE  Elems(q) = Elems(Tail(q)) \union {Head(q)}
<1>1. /\ Tail(q) \in Seq(T) /\ Len(Tail(q)) = Len(q) - 1 /\ Len(q) >= 1 /\ Len(q) \in Nat
      /\ \A i \in 1 .. Len(q) - 1 : Tail(q)[i] = q[i + 1]
      /\ Head(q) = q[1]
  BY TailOf
<1>2. DOMAIN q = 1 .. Len(q) /\ DOMAIN Tail(q) = 1 .. Len(q) - 1
  BY <1>1
<1>3. ASSUME NEW i \in 1 .. Len(q)
      PROVE  q[i] = Head(q) \/ \E j \in 1 .. Len(q) - 1 : q[i] = Tail(q)[j]
  <2>1. i = 1 \/ (i - 1 \in 1 .. Len(q) - 1 /\ (i - 1) + 1 = i)
    BY <1>1
  <2>2. QED
    BY <1>1, <2>1
<1>4. 1 \in 1 .. Len(q) /\ \A j \in 1 .. Len(q) - 1 : j + 1 \in 1 .. Len(q)
  BY <1>1
<1>5. Elems(q) \subseteq Elems(Tail(q)) \union {Head(q)}
  BY <1>2, <1>3 DEF Elems
<1>6. Elems(Tail(q)) \subseteq Elems(q) /\ Head(q) \in Elems(q)
  BY <1>1, <1>2, <1>4 DEF Elems
<1>7. QED
  BY <1>5, <1>6

LEMMA ElemsEmpty == Elems(<<>>) = {}
BY DEF Elems

LEMMA ElemsCount ==
  ASSUME NEW T, NEW q \in Seq(T)
  PROVE  IsFiniteSet(Elems(q)) /\ Cardinality(Elems(q)) <= Len(q)
<1>1. DOMAIN q = 1 .. Len(q) /\ Len(q) \in Nat
  OBVIOUS
<1>2. IsFiniteSet(1 .. Len(q)) /\ Cardinality(1 .. Len(q)) = Len(q)
  BY <1>1, FS_Interval
<1>3. q \in [1 .. Len(q) -> Elems(q)] /\ \A e \in Elems(q) : \E i \in 1 .. Len(q) : q[i] = e
  <2>1. \A i \in 1 .. Len(q) : q[i] \in Elems(q)
    BY <1>1 DEF Elems
  <2>2. q = [i \in 1 .. Len(q) |-> q[i]]
    OBVIOUS
  <2>3. QED
    BY <1>1, <2>1, <2>2 DEF Elems
<1>4. q \in Surjection(1 .. Len(q), Elems(q))
  BY <1>3 DEF Surjection
<1>5. QED
  BY <1>2, <1>4, FS_Surjection

\* A scan whose subnets, questions and answers are as before, but for strangers' datagrams that
\* come and go and for attempts, keeps the first two invariants.
Same(s) ==
  /\ phase'[s] = phase[s] /\ asking'[s] = asking[s] /\ subnets'[s] = subnets[s]
  /\ listed'[s] = listed[s] /\ due'[s] = due[s]
  /\ \A h \in Responders : s \in inbox'[h] <=> s \in inbox[h]

SameReads(s) ==
  buffer'[s] = buffer[s] /\ reads'[s] = reads[s] /\ late'[s] = late[s] /\ strangers'[s] = strangers[s]

LEMMA SameFirst ==
  ASSUME NEW s \in Scans, AskedOnce(s), AnswersInv(s), Same(s),
         asking[s] # "open" => buffer'[s] = <<>>,
         \A h \in Responders : h \in Elems(buffer'[s]) <=> h \in Elems(buffer[s])
  PROVE  AskedOnce(s)' /\ AnswersInv(s)'
<1>1. Remaining(s)' = Remaining(s) /\ (Broadcasting(s)' <=> Broadcasting(s))
  BY DEF Same, Remaining, Broadcasting
<1>2. AskedOnce(s)'
  BY <1>1 DEF AskedOnce, Same
<1>3. AnswersInv(s)'
  <2>1. \A h \in Responders : h \in Elems(buffer[s])' <=> h \in Elems(buffer[s])
    BY DEF Elems
  <2>2. QED
    BY <1>1, <2>1 DEF AnswersInv, Same
<1>4. QED
  BY <1>2, <1>3

LEMMA SameAnswered ==
  ASSUME AskT, NEW s \in Scans, Same(s)
  PROVE  Answered(s)' = Answered(s)
BY DEF Same, Answered, AskT

LEMMA SameAsk ==
  ASSUME AskT, NEW s \in Scans, AskedOnce(s), AnswersInv(s), ReadsInv(s), Same(s), SameReads(s)
  PROVE  AskedOnce(s)' /\ AnswersInv(s)' /\ ReadsInv(s)'
<1>1. AskedOnce(s)' /\ AnswersInv(s)'
  BY SameFirst DEF SameReads, AnswersInv
<1>2. ReadsInv(s)'
  BY SameAnswered DEF ReadsInv, Same, SameReads
<1>3. QED
  BY <1>1, <1>2

\* How many hosts have answered is a number.
LEMMA Counts ==
  ASSUME AskT, NEW s \in Scans
  PROVE  /\ IsFiniteSet(Answered(s)) /\ Cardinality(Answered(s)) \in Nat
         /\ IsFiniteSet(due[s]) /\ Cardinality(due[s] \intersect listed[s]) \in Nat
         /\ reads[s] \in Nat /\ strangers[s] \in Nat
         /\ buffer[s] \in Seq(Responders \union {Stranger}) /\ Len(buffer[s]) \in Nat
<1>1. due[s] \subseteq Responders /\ Answered(s) \subseteq due[s]
  BY DEF AskT, Answered
<1>2. IsFiniteSet(due[s]) /\ IsFiniteSet(Answered(s)) /\ IsFiniteSet(due[s] \intersect listed[s])
  <2>1. IsFiniteSet(due[s])
    BY <1>1, Constants, FS_Subset
  <2>2. due[s] \intersect listed[s] \subseteq due[s]
    OBVIOUS
  <2>3. QED
    BY <1>1, <2>1, <2>2, FS_Subset
<1>3. reads[s] \in Nat /\ strangers[s] \in Nat /\ buffer[s] \in Seq(Responders \union {Stranger})
  BY Constants DEF AskT
<1>4. QED
  BY <1>2, <1>3, FS_CardinalityType

-----------------------------------------------------------------------------
(* The network's steps.                                                    *)

LEMMA StopAsk ==
  ASSUME AskT, AskInv, NEW h \in Responders, StopResponder(h), UNCHANGED phase, NEW s \in Scans
  PROVE  AskedOnce(s)' /\ AnswersInv(s)' /\ ReadsInv(s)'
<1>1. /\ phase'[s] = phase[s] /\ asking'[s] = asking[s] /\ subnets'[s] = subnets[s]
      /\ listed'[s] = listed[s] /\ buffer'[s] = buffer[s] /\ reads'[s] = reads[s]
      /\ strangers'[s] = strangers[s] /\ late'[s] = late[s]
      /\ due'[s] = due[s] \ (IF s \in inbox[h] THEN {h} ELSE {})
      /\ \A x \in Responders : s \in inbox'[x] <=> s \in inbox[x] /\ x # h
  BY DEF StopResponder, AskT
<1>2. AskedOnce(s) /\ AnswersInv(s) /\ ReadsInv(s)
  BY DEF AskInv
<1>3. Remaining(s)' = Remaining(s) /\ (Broadcasting(s)' <=> Broadcasting(s))
  BY <1>1 DEF Remaining, Broadcasting
<1>4. AskedOnce(s)'
  BY <1>1, <1>2, <1>3 DEF AskedOnce
<1>5. AnswersInv(s)'
  <2>1. Elems(buffer[s])' = Elems(buffer[s])
    BY <1>1 DEF Elems
  <2>2. QED
    BY <1>1, <1>2, <1>3, <2>1 DEF AnswersInv
<1>6. ReadsInv(s)'
  <2>1. due[s] \subseteq Responders
    BY DEF AskT
  <2>2. Answered(s)' = Answered(s)
    <3>1. \A x : x \in Answered(s)' <=> x \in Answered(s)
      BY <1>1, <2>1 DEF Answered
    <3>2. QED
      BY <3>1 DEF Answered
  <2>3. (due[s] \intersect listed[s])' = due[s] \intersect listed[s]
    BY <1>1, <1>2 DEF AnswersInv
  <2>4. due[s] \subseteq listed[s] => due'[s] \subseteq listed'[s]
    BY <1>1
  <2>5. QED
    BY <1>1, <1>2, <2>2, <2>3, <2>4 DEF ReadsInv
<1>7. QED
  BY <1>4, <1>5, <1>6

LEMMA OneMore ==
  ASSUME NEW a \in Nat, NEW b \in Nat, NEW c \in Nat, NEW d \in Nat, a + b <= c + d
  PROVE  a + (b + 1) <= (c + 1) + d /\ a + (b + 1) <= c + (d + 1) /\ (a + 1) + (b - 1) <= c + d
OBVIOUS

\* An answer arrives, is lost, or comes to a socket that is closed.
LEMMA AnswerAsk ==
  ASSUME AskT, AskT', AskInv, NEW h \in Responders, NEW s \in Scans, Answer(h, s), UNCHANGED phase
  PROVE  AskedOnce(s)' /\ AnswersInv(s)' /\ ReadsInv(s)'
<1>1. /\ phase'[s] = phase[s] /\ asking'[s] = asking[s] /\ subnets'[s] = subnets[s]
      /\ listed'[s] = listed[s] /\ reads'[s] = reads[s]
      /\ strangers'[s] = strangers[s] /\ late'[s] = late[s] /\ s \in inbox[h]
      /\ \A x \in Responders : s \in inbox'[x] <=> s \in inbox[x] /\ x # h
  BY DEF Answer, AskT
<1>2. AskedOnce(s) /\ AnswersInv(s) /\ ReadsInv(s)
  BY DEF AskInv
<1>3. Remaining(s)' = Remaining(s) /\ (Broadcasting(s)' <=> Broadcasting(s))
  BY <1>1 DEF Remaining, Broadcasting
<1>4. AskedOnce(s)'
  BY <1>1, <1>2, <1>3 DEF AskedOnce
<1>5. due[s] \subseteq Responders
  BY DEF AskT
<1>6. CASE Hears(s, h) /\ Deliver(s, h) /\ UNCHANGED <<errors, due>>
  <2>1. buffer'[s] = Append(buffer[s], h) /\ buffer[s] \in Seq(Responders \union {Stranger})
    BY <1>6 DEF Deliver, AskT
  <2>2. Elems(buffer[s])' = Elems(buffer[s]) \union {h} /\ Len(buffer[s])' = Len(buffer[s]) + 1
    <3>1. Elems(Append(buffer[s], h)) = Elems(buffer[s]) \union {h}
      BY <2>1, ElemsAppend
    <3>2. QED
      BY <2>1, <3>1, AppendOf DEF Elems
  <2>3. asking[s] = "open" /\ h[1] = Head(subnets[s]) /\ due'[s] = due[s] /\ h \in due[s]
    BY <1>1, <1>2, <1>6 DEF Hears, AnswersInv
  <2>4. AnswersInv(s)'
    BY <1>1, <1>2, <1>3, <2>2, <2>3 DEF AnswersInv
  <2>5. Answered(s)' = Answered(s) \union {h} /\ h \notin Answered(s)
    BY <1>1, <1>5, <2>3 DEF Answered
  <2>6. Cardinality(Answered(s)') = Cardinality(Answered(s)) + 1
    BY <2>5, Counts, FS_AddElement
  <2>7. ReadsInv(s)'
    <3>1. ~late[s] => \/ due[s] \subseteq listed[s]
                      \/ reads[s] + Len(buffer[s]) <= Cardinality(Answered(s)) + strangers[s]
      BY <1>2, <2>3 DEF ReadsInv
    <3>2. reads[s] + Len(buffer[s]) <= Cardinality(Answered(s)) + strangers[s] =>
            reads[s] + (Len(buffer[s]) + 1) <= (Cardinality(Answered(s)) + 1) + strangers[s]
      BY Counts, OneMore
    <3>3. asking'[s] # "closed"
      BY <1>1, <2>3
    <3>4. QED
      BY <1>1, <2>2, <2>3, <2>6, <3>1, <3>2, <3>3 DEF ReadsInv
  <2>8. QED
    BY <1>4, <2>4, <2>7
<1>7. CASE Hears(s, h) /\ Error /\ due' = [due EXCEPT ![s] = @ \ {h}] /\ UNCHANGED buffer
  <2>1. due'[s] = due[s] \ {h} /\ Elems(buffer[s])' = Elems(buffer[s]) /\ buffer'[s] = buffer[s]
    BY <1>7 DEF Elems, AskT
  <2>2. AnswersInv(s)'
    BY <1>1, <1>2, <1>3, <2>1 DEF AnswersInv
  <2>3. Answered(s)' = Answered(s)
    BY <1>1, <1>5, <2>1 DEF Answered
  <2>4. asking[s] = "open" /\ (due[s] \subseteq listed[s] => due'[s] \subseteq listed'[s])
    BY <1>1, <1>7, <2>1 DEF Hears
  <2>5. ReadsInv(s)'
    BY <1>1, <1>2, <2>1, <2>3, <2>4 DEF ReadsInv
  <2>6. QED
    BY <1>4, <2>2, <2>5
<1>8. CASE ~Hears(s, h) /\ UNCHANGED <<buffer, errors, due>>
  <2>1. due'[s] = due[s] /\ Elems(buffer[s])' = Elems(buffer[s]) /\ buffer'[s] = buffer[s]
    BY <1>8 DEF Elems, AskT
  <2>2. asking[s] = "open" => h \notin due[s]
    BY <1>2, <1>8 DEF AnswersInv, Hears
  <2>3. AnswersInv(s)'
    BY <1>1, <1>2, <1>3, <2>1, <2>2 DEF AnswersInv
  <2>4. asking[s] = "open" => Answered(s)' = Answered(s)
    BY <1>1, <1>5, <2>1, <2>2 DEF Answered
  <2>5. ReadsInv(s)'
    BY <1>1, <1>2, <2>1, <2>4 DEF ReadsInv
  <2>6. QED
    BY <1>4, <2>3, <2>5
<1>9. QED
  BY <1>6, <1>7, <1>8 DEF Answer

LEMMA StrangerAsk ==
  ASSUME AskT, AskInv, NEW s \in Scans, StrangerAnswers(s), UNCHANGED phase
  PROVE  AskedOnce(s)' /\ AnswersInv(s)' /\ ReadsInv(s)'
<1>1. AskedOnce(s) /\ AnswersInv(s) /\ ReadsInv(s)
  BY DEF AskInv
<1>2. buffer'[s] = Append(buffer[s], Stranger) /\ buffer[s] \in Seq(Responders \union {Stranger})
  BY DEF StrangerAnswers, Deliver, AskT
<1>3. Same(s)
  BY DEF Same, StrangerAnswers
<1>4. /\ asking[s] = "open" /\ strangers'[s] = strangers[s] + 1
      /\ reads'[s] = reads[s] /\ late'[s] = late[s]
  BY DEF StrangerAnswers, AskT
<1>5. Elems(buffer'[s]) = Elems(buffer[s]) \union {Stranger} /\ Len(buffer'[s]) = Len(buffer[s]) + 1
  BY <1>2, ElemsAppend, AppendOf
<1>6. AskedOnce(s)' /\ AnswersInv(s)'
  <2>1. \A h \in Responders : h \in Elems(buffer'[s]) <=> h \in Elems(buffer[s])
    BY <1>5, AddressIs
  <2>2. QED
    BY <1>1, <1>3, <1>4, <2>1, SameFirst
<1>7. ReadsInv(s)'
  <2>1. Answered(s)' = Answered(s) /\ due'[s] = due[s] /\ listed'[s] = listed[s] /\ asking'[s] = "open"
    BY <1>3, <1>4, SameAnswered DEF Same
  <2>2. ~late[s] => \/ due[s] \subseteq listed[s]
                    \/ reads[s] + Len(buffer[s]) <= Cardinality(Answered(s)) + strangers[s]
    BY <1>1, <1>4 DEF ReadsInv
  <2>3. reads[s] + Len(buffer[s]) <= Cardinality(Answered(s)) + strangers[s] =>
          reads[s] + (Len(buffer[s]) + 1) <= Cardinality(Answered(s)) + (strangers[s] + 1)
    BY Counts, OneMore
  <2>4. QED
    BY <1>4, <1>5, <2>1, <2>2, <2>3 DEF ReadsInv
<1>8. QED
  BY <1>6, <1>7

LEMMA NetworkAsk ==
  ASSUME AskT, AskT', AskInv, Network, UNCHANGED phase
  PROVE  AskInv'
<1>1. ASSUME NEW s \in Scans, Same(s), SameReads(s)
      PROVE  AskedOnce(s)' /\ AnswersInv(s)' /\ ReadsInv(s)'
  BY <1>1, SameAsk DEF AskInv
<1>2. ASSUME NEW h \in Responders, StartResponder(h) \/ BindResponder(h) PROVE AskInv'
  <2>1. ASSUME NEW s \in Scans PROVE Same(s) /\ SameReads(s)
    BY <1>2 DEF StartResponder, BindResponder, Same, SameReads
  <2>2. QED
    BY <1>1, <2>1 DEF AskInv
<1>3. ASSUME NEW h \in Responders, StopResponder(h) PROVE AskInv'
  BY <1>3, StopAsk DEF AskInv
<1>4. ASSUME NEW h \in Responders, NEW t \in Scans, Answer(h, t) PROVE AskInv'
  <2>1. ASSUME NEW s \in Scans, s # t PROVE Same(s) /\ SameReads(s)
    BY <1>4, <2>1 DEF Answer, Deliver, Same, SameReads, AskT
  <2>2. QED
    BY <1>1, <1>4, <2>1, AnswerAsk DEF AskInv
<1>5. ASSUME NEW t \in Scans, StrangerAnswers(t) PROVE AskInv'
  <2>1. ASSUME NEW s \in Scans, s # t PROVE Same(s) /\ SameReads(s)
    BY <1>5, <2>1 DEF StrangerAnswers, Deliver, Same, SameReads, AskT
  <2>2. QED
    BY <1>1, <1>5, <2>1, StrangerAsk DEF AskInv
<1>6. QED
  BY <1>2, <1>3, <1>4, <1>5 DEF Network

-----------------------------------------------------------------------------
(* The scan's steps.                                                       *)

LEMMA HeadOnce ==
  ASSUME SubnetsT, NEW s \in Scans, Broadcasting(s), AskedOnce(s), subnets[s] # <<>>
  PROVE  Head(subnets[s]) \notin {subnets[s][i] : i \in 2 .. Len(subnets[s])}
<1>1. subnets[s] \in Seq(Nets)
  BY DEF SubnetsT
<1>2. /\ Len(subnets[s]) \in Nat /\ Len(subnets[s]) >= 1 /\ Head(subnets[s]) = subnets[s][1]
      /\ DOMAIN subnets[s] = 1 .. Len(subnets[s])
  BY <1>1, TailOf
<1>3. \A i \in 2 .. Len(subnets[s]) : i \in DOMAIN subnets[s] /\ 1 \in DOMAIN subnets[s] /\ i # 1
  BY <1>2
<1>4. \A i \in 2 .. Len(subnets[s]) : subnets[s][i] # subnets[s][1]
  BY <1>3 DEF AskedOnce
<1>5. QED
  BY <1>2, <1>4

LEMMA AskAsk ==
  ASSUME AskT, AskInv, SubnetsT, NEW s \in Scans, Broadcasting(s), Ask(s), UNCHANGED phase
  PROVE  AskedOnce(s)' /\ AnswersInv(s)' /\ ReadsInv(s)'
<1>1. AskedOnce(s) /\ AnswersInv(s) /\ ReadsInv(s)
  BY DEF AskInv
<1>2. PICK reached \in SUBSET {h \in Responders : responder[h] = "running" /\ h[1] = Head(subnets[s])} :
         /\ inbox' = [h \in Responders |-> inbox[h] \union (IF h \in reached THEN {s} ELSE {})]
         /\ due' = [due EXCEPT ![s] = reached]
  BY DEF Ask
<1>3. /\ phase'[s] = phase[s] /\ asking'[s] = "open" /\ subnets'[s] = subnets[s]
      /\ listed'[s] = listed[s] /\ buffer'[s] = buffer[s] /\ reads'[s] = 0
      /\ strangers'[s] = 0 /\ due'[s] = reached
      /\ \A x \in Responders : s \in inbox'[x] <=> s \in inbox[x] \/ x \in reached
      /\ \A x \in reached : x \in Responders /\ x[1] = Head(subnets[s])
  BY <1>2 DEF Ask, AskT
<1>4. asking[s] # "open" /\ subnets[s] # <<>> /\ buffer[s] = <<>> /\ Broadcasting(s)'
  BY <1>1, <1>3 DEF Ask, SubnetsLeft, AnswersInv, Broadcasting
<1>5. /\ subnets[s] \in Seq(Nets) /\ Len(subnets[s]) \in Nat /\ Len(subnets[s]) >= 1
      /\ DOMAIN subnets[s] = 1 .. Len(subnets[s]) /\ Head(subnets[s]) = subnets[s][1]
  <2>1. subnets[s] \in Seq(Nets)
    BY DEF SubnetsT
  <2>2. QED
    BY <1>4, <2>1, TailOf
<1>6. /\ Remaining(s) = {subnets[s][i] : i \in 1 .. Len(subnets[s])}
      /\ Remaining(s)' = {subnets[s][i] : i \in 2 .. Len(subnets[s])}
  BY <1>3, <1>4 DEF Remaining
<1>7. Remaining(s)' \subseteq Remaining(s) /\ Head(subnets[s]) \in Remaining(s)
  <2>1. 1 \in 1 .. Len(subnets[s]) /\ 2 .. Len(subnets[s]) \subseteq 1 .. Len(subnets[s])
    BY <1>5
  <2>2. QED
    BY <1>5, <1>6, <2>1
<1>8. Head(subnets[s]) \notin Remaining(s)'
  BY <1>1, <1>4, <1>6, HeadOnce
<1>9. phase'[s] \notin {"idle", "collect"}
  BY <1>4 DEF Broadcasting
<1>10. AskedOnce(s)'
  <2>1. ASSUME NEW h \in Responders, s \in inbox'[h] \/ h \in listed'[s] PROVE h[1] \notin Remaining(s)'
    BY <1>1, <1>3, <1>7, <1>8, <2>1 DEF AskedOnce
  <2>2. \A i, j \in DOMAIN subnets'[s] : subnets'[s][i] = subnets'[s][j] => i = j
    BY <1>1, <1>3 DEF AskedOnce
  <2>3. QED
    BY <1>9, <2>1, <2>2 DEF AskedOnce
<1>11. Elems(buffer[s])' = {}
  BY <1>3, <1>4, ElemsEmpty
<1>12. AnswersInv(s)'
  <2>1. ASSUME NEW h \in Responders, s \in inbox'[h] PROVE h \notin listed'[s]
    <3>1. CASE s \in inbox[h]
      BY <1>1, <1>3, <3>1 DEF AnswersInv
    <3>2. CASE h \in reached
      BY <1>1, <1>3, <1>7, <3>2 DEF AskedOnce
    <3>3. QED
      BY <1>3, <2>1, <3>1, <3>2
  <2>2. ASSUME NEW h \in Responders, s \in inbox'[h], h[1] = Head(subnets[s]) PROVE h \in reached
    BY <1>1, <1>3, <1>7, <2>2 DEF AskedOnce
  <2>3. QED
    BY <1>3, <1>4, <1>11, <2>1, <2>2 DEF AnswersInv
<1>13. ReadsInv(s)'
  <2>1. reads'[s] + Len(buffer'[s]) = 0
    BY <1>3, <1>4
  <2>2. Answered(s)' = {}
    BY <1>3 DEF Answered
  <2>3. Cardinality(Answered(s)') + strangers'[s] = 0
    BY <1>3, <2>2, FS_EmptySet
  <2>4. QED
    BY <1>3, <2>1, <2>3 DEF ReadsInv
<1>14. QED
  BY <1>10, <1>12, <1>13

\* The socket of a subnet is closed, or is never opened: on to the next subnet.
LEMMA Onward ==
  ASSUME SubnetsT, NEW s \in Scans, Broadcasting(s), AskedOnce(s), AnswersInv(s), UNCHANGED phase,
         subnets[s] # <<>>, subnets'[s] = Tail(subnets[s]), asking'[s] \in {"no", "closed"},
         listed'[s] = listed[s], buffer'[s] = <<>>,
         \A h \in Responders : s \in inbox'[h] <=> s \in inbox[h]
  PROVE  AskedOnce(s)' /\ AnswersInv(s)'
<1> DEFINE q == subnets[s]
<1>1. /\ q \in Seq(Nets) /\ Len(q) \in Nat /\ Len(q) >= 1 /\ DOMAIN q = 1 .. Len(q)
      /\ Len(Tail(q)) = Len(q) - 1 /\ DOMAIN Tail(q) = 1 .. Len(q) - 1
      /\ \A i \in 1 .. Len(q) - 1 : Tail(q)[i] = q[i + 1]
  <2>1. q \in Seq(Nets)
    BY DEF SubnetsT
  <2>2. /\ Tail(q) \in Seq(Nets) /\ Len(Tail(q)) = Len(q) - 1 /\ Len(q) >= 1
        /\ \A i \in 1 .. Len(q) - 1 : Tail(q)[i] = q[i + 1]
    BY <2>1, TailOf
  <2>3. QED
    BY <2>1, <2>2
<1>2. Broadcasting(s)' /\ phase'[s] \notin {"idle", "collect"}
  BY DEF Broadcasting
<1>3. Remaining(s)' \subseteq Remaining(s)
  <2>1. Remaining(s)' = {Tail(q)[i] : i \in 1 .. Len(q) - 1}
    BY <1>1 DEF Remaining
  <2>2. \A i \in 1 .. Len(q) - 1 : i + 1 \in 2 .. Len(q) /\ i + 1 \in 1 .. Len(q)
    BY <1>1
  <2>3. \A i \in 1 .. Len(q) - 1 : q[i + 1] \in Remaining(s)
    BY <2>2 DEF Remaining
  <2>4. QED
    BY <1>1, <2>1, <2>3
<1>4. AskedOnce(s)'
  <2>1. ASSUME NEW i \in DOMAIN Tail(q), NEW j \in DOMAIN Tail(q), Tail(q)[i] = Tail(q)[j]
        PROVE  i = j
    <3>1. i + 1 \in DOMAIN q /\ j + 1 \in DOMAIN q /\ q[i + 1] = q[j + 1] /\ i \in Nat /\ j \in Nat
      BY <1>1, <2>1
    <3>2. i + 1 = j + 1
      BY <3>1 DEF AskedOnce
    <3>3. QED
      BY <3>1, <3>2
  <2>2. \A h \in Responders : s \in inbox'[h] \/ h \in listed'[s] => h[1] \notin Remaining(s)'
    BY <1>3 DEF AskedOnce
  <2>3. QED
    BY <1>2, <2>1, <2>2 DEF AskedOnce
<1>5. AnswersInv(s)'
  <2>1. Elems(buffer[s])' = {}
    BY ElemsEmpty
  <2>2. QED
    BY <2>1 DEF AnswersInv
<1>6. QED
  BY <1>4, <1>5

LEMMA AskNobodyAsk ==
  ASSUME AskT, AskInv, SubnetsT, NEW s \in Scans, Broadcasting(s), AskNobody(s), UNCHANGED phase
  PROVE  AskedOnce(s)' /\ AnswersInv(s)' /\ ReadsInv(s)'
<1>1. AskedOnce(s) /\ AnswersInv(s) /\ ReadsInv(s)
  BY DEF AskInv
<1>2. /\ subnets[s] # <<>> /\ subnets'[s] = Tail(subnets[s]) /\ asking'[s] = "no"
      /\ UNCHANGED <<listed, inbox, buffer>> /\ buffer[s] = <<>>
  BY <1>1 DEF AskNobody, SubnetsLeft, NextSubnet, AskT, SubnetsT, AnswersInv
<1>3. AskedOnce(s)' /\ AnswersInv(s)'
  BY <1>1, <1>2, Onward
<1>4. ReadsInv(s)'
  BY <1>2 DEF ReadsInv
<1>5. QED
  BY <1>3, <1>4

\* When the attempts are used up everybody who owes an answer is listed, or as many as there
\* were attempts, but for the strangers', have answered.
LEMMA StopAskingAsk ==
  ASSUME AskT, AskInv, SubnetsT, NEW s \in Scans, Broadcasting(s), StopAsking(s), UNCHANGED phase
  PROVE  AskedOnce(s)' /\ AnswersInv(s)' /\ ReadsInv(s)'
<1>1. AskedOnce(s) /\ AnswersInv(s) /\ ReadsInv(s)
  BY DEF AskInv
<1>2. /\ asking[s] = "open" /\ subnets[s] # <<>> /\ subnets'[s] = Tail(subnets[s])
      /\ asking'[s] = "closed" /\ buffer'[s] = <<>> /\ reads[s] = Reads
      /\ UNCHANGED <<listed, inbox, due, strangers, late>>
  BY <1>1 DEF StopAsking, NextSubnet, AskT, SubnetsT, AnswersInv
<1>3. AskedOnce(s)' /\ AnswersInv(s)'
  BY <1>1, <1>2, Onward
<1>4. ReadsInv(s)'
  <2>1. SUFFICES ASSUME ~late[s], ~(due[s] \subseteq listed[s])
                 PROVE  Reads <= Cardinality(due[s] \intersect listed[s]) + strangers[s]
    BY <1>2 DEF ReadsInv
  <2> DEFINE known == due[s] \intersect listed[s]
  <2>2. reads[s] + Len(buffer[s]) <= Cardinality(Answered(s)) + strangers[s]
    BY <1>1, <1>2, <2>1 DEF ReadsInv
  <2>3. Answered(s) \subseteq known \union Elems(buffer[s])
    BY <1>1, <1>2 DEF Answered, AnswersInv, AskT
  <2>4. IsFiniteSet(Elems(buffer[s])) /\ Cardinality(Elems(buffer[s])) <= Len(buffer[s])
    BY Counts, ElemsCount
  <2>5. IsFiniteSet(known) /\ Cardinality(known) \in Nat
    <3>1. known \subseteq due[s]
      OBVIOUS
    <3>2. QED
      BY <3>1, Counts, FS_Subset
  <2>6. /\ IsFiniteSet(known \union Elems(buffer[s]))
        /\ Cardinality(known \union Elems(buffer[s])) <= Cardinality(known) + Cardinality(Elems(buffer[s]))
    <3>1. /\ IsFiniteSet(known \union Elems(buffer[s]))
          /\ Cardinality(known \union Elems(buffer[s])) =
               Cardinality(known) + Cardinality(Elems(buffer[s]))
                 - Cardinality(known \intersect Elems(buffer[s]))
      BY <2>4, <2>5, FS_Union
    <3>2. known \intersect Elems(buffer[s]) \subseteq known
      OBVIOUS
    <3>3. Cardinality(known \intersect Elems(buffer[s])) \in Nat
      BY <2>5, <3>2, FS_Subset, FS_CardinalityType
    <3>4. Cardinality(Elems(buffer[s])) \in Nat
      BY <2>4, FS_CardinalityType
    <3> HIDE DEF known
    <3>5. QED
      BY <2>5, <3>1, <3>3, <3>4
  <2>7. Cardinality(Answered(s)) <= Cardinality(known \union Elems(buffer[s]))
    BY <2>3, <2>6, FS_Subset
  <2>8. Cardinality(known \union Elems(buffer[s])) \in Nat /\ Cardinality(Elems(buffer[s])) \in Nat
    BY <2>4, <2>6, FS_CardinalityType
  <2>9. Reads + Len(buffer[s]) <= Cardinality(Answered(s)) + strangers[s]
    BY <1>2, <2>2
  <2>10. ASSUME NEW r \in Nat, NEW l \in Nat, NEW a \in Nat, NEW g \in Nat, NEW u \in Nat,
                NEW k \in Nat, NEW e \in Nat, r + l <= a + g, a <= u, u <= k + e, e <= l
         PROVE  r <= k + g
    BY <2>10
  <2>11. QED
    BY <2>4, <2>5, <2>6, <2>7, <2>8, <2>9, <2>10, Counts, Constants
<1>5. QED
  BY <1>3, <1>4

LEMMA ReadAsk ==
  ASSUME AskT, AskInv, SubnetsT, NEW s \in Scans, Broadcasting(s),
         ReadStranger(s) \/ \E h \in Responders : ReadAnswer(s, h), UNCHANGED phase
  PROVE  AskedOnce(s)' /\ AnswersInv(s)' /\ ReadsInv(s)'
<1>1. AskedOnce(s) /\ AnswersInv(s) /\ ReadsInv(s)
  BY DEF AskInv
<1>2. PICK from \in Responders \union {Stranger} :
         /\ Head(buffer[s]) = from
         /\ listed'[s] = listed[s] \union ({from} \intersect Responders)
  <2>1. CASE ReadStranger(s)
    BY <2>1, AddressIs DEF ReadStranger
  <2>2. ASSUME NEW h \in Responders, ReadAnswer(s, h) PROVE listed'[s] = listed[s] \union {h}
    BY <2>2 DEF ReadAnswer, AskT
  <2>3. QED
    BY <2>1, <2>2 DEF ReadAnswer
<1>3. /\ asking[s] = "open" /\ asking'[s] = "open" /\ buffer[s] # <<>>
      /\ buffer'[s] = Tail(buffer[s]) /\ reads'[s] = reads[s] + 1
      /\ UNCHANGED <<inbox, subnets, due, strangers, late, phase>>
  BY DEF ReadStranger, ReadAnswer, Reading, Attempt, AskT
<1>4. /\ Elems(buffer[s]) = Elems(Tail(buffer[s])) \union {from}
      /\ Len(Tail(buffer[s])) = Len(buffer[s]) - 1
  BY <1>2, <1>3, Counts, ElemsTail, TailOf
<1>5. /\ Remaining(s)' = Remaining(s) /\ (Broadcasting(s)' <=> Broadcasting(s))
      /\ Elems(buffer[s])' = Elems(Tail(buffer[s]))
  BY <1>3 DEF Remaining, Broadcasting, Elems
<1>6. from \in Responders => /\ from[1] = Head(subnets[s])
                            /\ \A h \in Responders : s \in inbox[h] => h # from
  BY <1>1, <1>3, <1>4 DEF AnswersInv
<1>7. AskedOnce(s)'
  <2>1. Head(subnets[s]) \notin Remaining(s)
    BY <1>1, <1>3, HeadOnce DEF Remaining, AnswersInv
  <2>2. \A h \in Responders : s \in inbox'[h] \/ h \in listed'[s] => h[1] \notin Remaining(s)
    BY <1>1, <1>2, <1>3, <1>6, <2>1 DEF AskedOnce
  <2>3. phase'[s] \notin {"idle", "collect"}
    BY <1>3 DEF Broadcasting
  <2>4. QED
    BY <1>1, <1>3, <1>5, <2>2, <2>3 DEF AskedOnce
<1>8. AnswersInv(s)'
  <2>1. \A h \in Responders : s \in inbox'[h] => h \notin listed'[s] /\ h \notin Elems(Tail(buffer[s]))
    BY <1>1, <1>2, <1>3, <1>4, <1>6 DEF AnswersInv
  <2>2. ASSUME NEW h \in Responders
        PROVE  /\ h \in due'[s] \/ h \in Elems(Tail(buffer[s])) => h[1] = Head(subnets'[s])
               /\ h \in due'[s] => h \in listed'[s] \/ h \in Elems(Tail(buffer[s])) \/ s \in inbox'[h]
               /\ s \in inbox'[h] /\ h[1] = Head(subnets'[s]) => h \in due'[s]
    BY <1>1, <1>2, <1>3, <1>4 DEF AnswersInv
  <2>3. QED
    BY <1>1, <1>3, <1>5, <2>1, <2>2 DEF AnswersInv
<1>9. ReadsInv(s)'
  <2>1. Answered(s)' = Answered(s)
    BY <1>3 DEF Answered
  <2>2. reads[s] + Len(buffer[s]) <= Cardinality(Answered(s)) + strangers[s] =>
          (reads[s] + 1) + (Len(buffer[s]) - 1) <= Cardinality(Answered(s)) + strangers[s]
    BY Counts, OneMore
  <2>3. QED
    BY <1>1, <1>2, <1>3, <1>4, <2>1, <2>2 DEF ReadsInv
<1>10. QED
  BY <1>7, <1>8, <1>9

\* After a time-out that was not early everybody who owes an answer is listed.
LEMMA NothingAsk ==
  ASSUME AskT, AskInv, NEW s \in Scans, Broadcasting(s), ReadNothing(s), UNCHANGED phase
  PROVE  AskedOnce(s)' /\ AnswersInv(s)' /\ ReadsInv(s)'
<1>1. AskedOnce(s) /\ AnswersInv(s) /\ ReadsInv(s)
  BY DEF AskInv
<1>2. /\ asking[s] = "open" /\ asking'[s] = "open" /\ buffer[s] = <<>> /\ UNCHANGED <<buffer, due, listed>>
      /\ late'[s] = (late[s] \/ \E h \in Responders : s \in inbox[h] /\ Hears(s, h))
  BY DEF ReadNothing, Reading, AskT
<1>3. Same(s)
  BY DEF Same, ReadNothing
<1>4. AskedOnce(s)' /\ AnswersInv(s)'
  BY <1>1, <1>2, <1>3, SameFirst
<1>5. ASSUME ~late'[s] PROVE due[s] \subseteq listed[s]
  <2>1. \A h \in Responders : s \in inbox[h] => h[1] # Head(subnets[s])
    BY <1>2, <1>5 DEF Hears
  <2>2. Elems(buffer[s]) = {} /\ due[s] \subseteq Responders
    BY <1>2, ElemsEmpty DEF AskT
  <2>3. QED
    BY <1>1, <1>2, <2>1, <2>2 DEF AnswersInv
<1>6. ReadsInv(s)'
  BY <1>2, <1>5 DEF ReadsInv
<1>7. QED
  BY <1>4, <1>6

LEMMA AsksAsk ==
  ASSUME AskT, AskInv, SubnetsT, NEW s \in Scans, Broadcasting(s), UNCHANGED phase,
         Asks(s) \/ \E h \in Responders : ReadAnswer(s, h)
  PROVE  AskInv'
<1>1. AskedOnce(s)' /\ AnswersInv(s)' /\ ReadsInv(s)'
  BY AskAsk, AskNobodyAsk, ReadAsk, NothingAsk, StopAskingAsk DEF Asks
<1>2. ASSUME NEW t \in Scans, t # s PROVE Same(t) /\ SameReads(t)
  <2>1. CASE Ask(s)
    <3>1. \A h \in Responders : t \in inbox'[h] <=> t \in inbox[h]
      BY <1>2, <2>1 DEF Ask, AskT
    <3>2. QED
      BY <1>2, <2>1, <3>1 DEF Ask, AskT, Same, SameReads
  <2>2. CASE AskNobody(s) \/ StopAsking(s)
    BY <1>2, <2>2 DEF AskNobody, StopAsking, NextSubnet, AskT, SubnetsT, Same, SameReads
  <2>3. CASE ReadNothing(s) \/ ReadStranger(s) \/ \E h \in Responders : ReadAnswer(s, h)
    BY <1>2, <2>3 DEF ReadNothing, ReadStranger, ReadAnswer, Attempt, AskT, Same, SameReads
  <2>4. QED
    BY <2>1, <2>2, <2>3 DEF Asks
<1>3. QED
  BY <1>1, <1>2, SameAsk DEF AskInv

\* The scan goes on without a socket.
LEMMA PhaseAsk ==
  ASSUME AskT, AskInv, NEW s \in Scans, asking[s] # "open",
         UNCHANGED <<asking, inbox, listed, buffer, due, late, reads, strangers>>,
         \A t \in Scans \ {s} : phase'[t] = phase[t] /\ subnets'[t] = subnets[t],
         \/ phase'[s] \in {"connect", "done"}
         \/ phase[s] = "idle" /\ phase'[s] = "collect" /\ subnets'[s] = subnets[s]
         \/ /\ phase[s] \in {"idle", "collect"} /\ phase'[s] \in {"broadcast", "cli"}
            /\ subnets'[s] \in {Subnets, subnets[s]}
  PROVE  AskInv'
<1>1. AskedOnce(s) /\ AnswersInv(s) /\ ReadsInv(s)
  BY DEF AskInv
<1>2. ASSUME NEW t \in Scans, t # s PROVE Same(t) /\ SameReads(t)
  BY <1>2 DEF Same, SameReads
<1>3. AskedOnce(s)'
  <2>1. CASE phase'[s] \in {"connect", "done"}
    BY <2>1 DEF AskedOnce, Broadcasting
  <2>2. CASE phase[s] = "idle" /\ phase'[s] = "collect" /\ subnets'[s] = subnets[s]
    BY <1>1, <2>2 DEF AskedOnce, Broadcasting
  <2>3. CASE /\ phase[s] \in {"idle", "collect"} /\ phase'[s] \in {"broadcast", "cli"}
             /\ subnets'[s] \in {Subnets, subnets[s]}
    <3>1. listed'[s] = {} /\ \A h \in Responders : s \notin inbox'[h]
      BY <1>1, <2>3 DEF AskedOnce
    <3>2. subnets'[s] \in {Subnets, <<>>}
      BY <1>1, <2>3 DEF AskedOnce
    <3>3. \A i, j \in DOMAIN subnets'[s] : subnets'[s][i] = subnets'[s][j] => i = j
      BY <3>2, SubnetsAre
    <3>4. QED
      BY <2>3, <3>1, <3>3 DEF AskedOnce
  <2>4. QED
    BY <2>1, <2>2, <2>3
<1>4. AnswersInv(s)'
  <2>1. Elems(buffer[s])' = Elems(buffer[s])
    BY DEF Elems
  <2>2. QED
    BY <1>1, <2>1 DEF AnswersInv
<1>5. ReadsInv(s)'
  BY <1>1 DEF ReadsInv
<1>6. QED
  BY <1>2, <1>3, <1>4, <1>5, SameAsk DEF AskInv

LEMMA StepAskInv ==
  ASSUME AskT, SubnetsT, ScanT, AskInv, ScanStep
  PROVE  AskInv'
<1>0. AskT' /\ (\A s \in Scans : AnswersInv(s) /\ AskedOnce(s))
  BY StepAskT DEF AskInv
<1>1. CASE DiscoveryAlone(Network)
  BY <1>0, <1>1, NetworkAsk DEF DiscoveryAlone
<1>2. CASE \E s \in Scans : Broadcasting(s) /\ DiscoveryAlone(Asks(s))
  BY <1>2, AsksAsk DEF DiscoveryAlone
<1>3. CASE \E s \in Scans : BroadcastAnswer(s)
  BY <1>3, AsksAsk DEF BroadcastAnswer
<1>4. ASSUME NEW s \in Scans, OfScan(s)
      PROVE  AskInv'
  <2>1. UNCHANGED <<asking, inbox, listed, buffer, due, late, reads, strangers>>
    BY <1>4 DEF OfScan, ClickScan, CliScan, Collect, NoSubnets, StartWorkers, ScanNext, Finish,
                CliScanEnds, AnError, ButSubnets, discoveryVars
  <2>2. \A t \in Scans \ {s} : phase'[t] = phase[t] /\ subnets'[t] = subnets[t]
    BY <1>4 DEF OfScan, ClickScan, CliScan, Collect, NoSubnets, StartWorkers, ScanNext, Finish,
                CliScanEnds, AnError, NextSubnet, discoveryVars, ScanT, SubnetsT
  <2>3. CASE ClickScan(s) \/ CliScan(s) \/ Collect(s)
    <3>1. asking[s] # "open"
      BY <1>0, <2>3 DEF ClickScan, CliScan, Collect, AskedOnce
    <3>2. \/ phase[s] = "idle" /\ phase'[s] = "collect" /\ subnets'[s] = subnets[s]
          \/ /\ phase[s] \in {"idle", "collect"} /\ phase'[s] \in {"broadcast", "cli"}
             /\ subnets'[s] \in {Subnets, subnets[s]}
      BY <2>3 DEF ClickScan, CliScan, Collect, AnError, discoveryVars, ScanT, SubnetsT
    <3>3. QED
      BY <2>1, <2>2, <3>1, <3>2, PhaseAsk
  <2>4. CASE \/ NoSubnets(s) \/ StartWorkers(s) \/ ScanNext(s) \/ Finish(s) \/ CliScanEnds(s)
    <3>1. asking[s] # "open"
      BY <1>0, <2>4 DEF NoSubnets, StartWorkers, HasAsked, ScanNext, Finish, CliScanEnds,
                        AnswersInv, Broadcasting
    <3>2. phase'[s] \in {"connect", "done"}
      BY <2>4 DEF NoSubnets, StartWorkers, ScanNext, Finish, CliScanEnds, ScanT
    <3>3. QED
      BY <2>1, <2>2, <3>1, <3>2, PhaseAsk
  <2>5. QED
    BY <1>4, <2>3, <2>4 DEF OfScan
<1>5. CASE (\E s \in Scans, w \in Workers : OfWorker(s, w)) \/ OfList
  <2>1. UNCHANGED <<asking, inbox, listed, buffer, due, late, reads, strangers, phase, subnets>>
    BY <1>5 DEF OfWorker, Take, NoSocket, Reached, Unreached, Resolve, PushFound,
                OfList, OnFound, OnScanDone, OnScanError, AnError, discoveryVars
  <2>2. \A s \in Scans : Same(s) /\ SameReads(s)
    BY <2>1 DEF Same, SameReads
  <2>3. QED
    BY <2>2, SameAsk DEF AskInv
<1>6. QED
  BY <1>1, <1>2, <1>3, <1>4, <1>5 DEF ScanStep

\* What the invariant says of a scan that has stopped listening.
LEMMA WhoAnswered ==
  ASSUME AskT, AskInv
  PROVE  RespondersAreListed
<1>1. SUFFICES ASSUME NEW s \in Scans, asking[s] = "closed", ~late[s],
                      Cardinality(due[s]) + strangers[s] <= Reads, ~(due[s] \subseteq listed[s])
               PROVE  FALSE
  BY DEF RespondersAreListed
<1> DEFINE known == due[s] \intersect listed[s]
<1>2. Reads <= Cardinality(known) + strangers[s]
  BY <1>1 DEF AskInv, ReadsInv
<1>3. IsFiniteSet(due[s]) /\ Cardinality(due[s]) \in Nat /\ strangers[s] \in Nat
  BY Counts, FS_CardinalityType
<1>4. known \in SUBSET due[s] /\ known # due[s]
  BY <1>1
<1>5. /\ Cardinality(known) <= Cardinality(due[s]) /\ Cardinality(known) # Cardinality(due[s])
      /\ Cardinality(known) \in Nat
  BY <1>3, <1>4, FS_Subset, FS_CardinalityType
<1>6. ASSUME NEW r \in Nat, NEW k \in Nat, NEW d \in Nat, NEW g \in Nat,
             r <= k + g, k <= d, k # d, d + g <= r
      PROVE  FALSE
  BY <1>6
<1>7. QED
  BY <1>1, <1>2, <1>3, <1>5, <1>6, Constants

-----------------------------------------------------------------------------
(* The listener that waits.                                                *)

\* A worker that rests, or whose scan is at work elsewhere, has the address it had.
LEMMA WorkerStays ==
  ASSUME WorkersInv, NEW s \in Scans, NEW w \in Workers,
         worker'[<<s, w>>] = worker[<<s, w>>], phase[s] = "connect" => subnets'[s] = subnets[s]
  PROVE  (Passing(s, w) => Passing(s, w)') /\ (Trying(s, w) => Trying(s, w)')
<1>1. worker[<<s, w>>].pc \in Busy => AddressOf(s, w)' = AddressOf(s, w)
  BY DEF WorkersInv, AddressOf
<1>2. QED
  BY <1>1 DEF Passing, Trying, At, Busy

LEMMA EventPushed ==
  ASSUME ListT, NEW e \in Results \union Ends, Push(e)
  PROVE  /\ Announced => Announced'
         /\ e.kind = "found" /\ e.ip = Home => Announced'
         /\ \A s : Spoken(s)' => Spoken(s) \/ e.of = s
<1>1. events \in Seq(Results \union Ends) /\ events' = Append(events, e) /\ DOMAIN events = 1 .. Len(events)
  BY EventsAre DEF Push
<1> HIDE DEF Results, Ends
<1>2. /\ Len(events') = Len(events) + 1 /\ Len(events) \in Nat
      /\ \A i \in 1 .. Len(events) : events'[i] = events[i]
      /\ events'[Len(events) + 1] = e
      /\ DOMAIN events' = 1 .. Len(events) + 1
  BY <1>1, AppendOf
<1>3. /\ \A i \in 1 .. Len(events) + 1 : i \in 1 .. Len(events) \/ i = Len(events) + 1
      /\ 1 .. Len(events) \subseteq 1 .. Len(events) + 1 /\ Len(events) + 1 \in 1 .. Len(events) + 1
  BY <1>2
<1>4. Announced => Announced'
  BY <1>1, <1>2, <1>3 DEF Announced
<1>5. e.kind = "found" /\ e.ip = Home => Announced'
  BY <1>2, <1>3 DEF Announced
<1>6. \A s : Spoken(s)' => Spoken(s) \/ e.of = s
  BY <1>1, <1>2, <1>3 DEF Spoken
<1>7. QED
  BY <1>4, <1>5, <1>6

LEMMA EventPopped ==
  ASSUME ListT, events # <<>>, events' = Tail(events)
  PROVE  /\ Announced => Announced' \/ (Head(events).kind = "found" /\ Head(events).ip = Home)
         /\ \A s : Spoken(s)' => Spoken(s)
         /\ Spoken(Head(events).of)
         /\ \A s : Spoken(s)' => \E j \in 2 .. Len(events) : events[j].of = s
<1>1. events \in Seq(Results \union Ends) /\ DOMAIN events = 1 .. Len(events)
  BY EventsAre
<1> HIDE DEF Results, Ends
<1>2. /\ Len(events') = Len(events) - 1 /\ Len(events) \in Nat /\ Len(events) >= 1
      /\ \A i \in 1 .. Len(events) - 1 : events'[i] = events[i + 1]
      /\ Head(events) = events[1]
      /\ DOMAIN events' = 1 .. Len(events) - 1
  BY <1>1, TailOf
<1>3. /\ \A i \in 1 .. Len(events) : i = 1 \/ (i - 1 \in 1 .. Len(events) - 1 /\ (i - 1) + 1 = i)
      /\ 1 \in 1 .. Len(events)
      /\ \A i \in 1 .. Len(events) - 1 : i + 1 \in 2 .. Len(events) /\ i + 1 \in 1 .. Len(events)
  BY <1>2
<1>4. ASSUME Announced PROVE Announced' \/ (Head(events).kind = "found" /\ Head(events).ip = Home)
  <2>1. PICK i \in 1 .. Len(events) : events[i].kind = "found" /\ events[i].ip = Home
    BY <1>1, <1>4 DEF Announced
  <2>2. i # 1 => i - 1 \in DOMAIN events' /\ events'[i - 1] = events[i]
    BY <1>2, <1>3
  <2>3. QED
    BY <1>2, <2>1, <2>2 DEF Announced
<1>5. \A s : Spoken(s)' => \E j \in 2 .. Len(events) : events[j].of = s
  BY <1>2, <1>3 DEF Spoken
<1>6. 2 .. Len(events) \subseteq 1 .. Len(events)
  BY <1>2
<1>7. \A s : Spoken(s)' => Spoken(s)
  BY <1>1, <1>5, <1>6 DEF Spoken
<1>8. Spoken(Head(events).of)
  BY <1>1, <1>2, <1>3 DEF Spoken
<1>9. QED
  BY <1>4, <1>5, <1>7, <1>8

\* What is noted and ahead stays so, or what was ahead is noted.
LEMMA QuietStays ==
  ASSUME QuietInv, undisturbed' => undisturbed,
         \A s \in Scans : Heard(s)' => Heard(s), UNCHANGED status,
         HomeIsNoted => HomeIsNoted',
         undisturbed' /\ HomeIsAhead => HomeIsAhead' \/ HomeIsNoted'
  PROVE  QuietInv'
BY DEF QuietInv

\* Steps of the network, and of a scan that asks.
LEMMA AskingQuiet ==
  ASSUME WorkersInv, ListT, QuietInv, undisturbed' => undisturbed,
         UNCHANGED <<listenerVars, phase, worker, tried, devices, status>>,
         \A s \in Scans : phase[s] = "connect" => subnets'[s] = subnets[s],
         \/ UNCHANGED events
         \/ \E s \in Scans, h \in Responders : phase[s] = "broadcast" /\ Push(Found(s, h, h))
  PROVE  QuietInv'
<1>1. \A s \in Scans, w \in Workers :
         (Passing(s, w) => Passing(s, w)') /\ (Trying(s, w) => Trying(s, w)')
  BY WorkerStays
<1>2. (Announced => Announced') /\ \A s \in Scans : Heard(s)' => Heard(s)
  <2>1. CASE UNCHANGED events
    BY <2>1 DEF Announced, Heard, Spoken, Active
  <2>2. ASSUME NEW s \in Scans, NEW h \in Responders, phase[s] = "broadcast", Push(Found(s, h, h))
        PROVE  (Announced => Announced') /\ \A t \in Scans : Heard(t)' => Heard(t)
    <3>1. Found(s, h, h) \in Results \union Ends /\ Found(s, h, h).of = s
      BY Constants DEF Found, Results, Names
    <3>2. (Announced => Announced') /\ \A t : Spoken(t)' => Spoken(t) \/ t = s
      BY <2>2, <3>1, EventPushed
    <3>3. QED
      BY <2>2, <3>2 DEF Heard, Active
  <2>3. QED
    BY <2>1, <2>2
<1>3. HomeIsNoted => HomeIsNoted'
  BY <1>1, <1>2 DEF HomeIsNoted, InList
<1>4. \A s \in Scans : Ahead(s) => Ahead(s)'
  BY <1>1 DEF Ahead, Active
<1>5. HomeIsAhead => HomeIsAhead'
  BY <1>4 DEF HomeIsAhead, Expects, listenerVars, receiverVars, senderVars
<1>6. QED
  BY <1>2, <1>3, <1>5, QuietStays

\* A click, when nothing else goes on.
LEMMA ClickQuiet ==
  ASSUME ScanT, TriedInv, NEW s \in Scans, ClickScan(s), UNCHANGED listenerVars,
         undisturbed' => /\ Expects /\ events = <<>>
                         /\ \A t \in Scans : phase[t] \in {"idle", "done"}
  PROVE  QuietInv'
<1>1. SUFFICES ASSUME undisturbed'
               PROVE  /\ \A t \in Scans : Heard(t)' => t = s
                      /\ status' # "complete" /\ HomeIsAhead'
  BY DEF QuietInv
<1>2. \A t \in Scans : phase'[t] = IF t = s THEN "collect" ELSE phase[t]
  BY DEF ClickScan, ScanT
<1>3. \A t \in Scans : Heard(t)' => t = s
  BY <1>1, <1>2 DEF Heard, Active, Spoken, ClickScan
<1>4. Home \notin tried'[s]
  BY DEF ClickScan, TriedInv
<1>5. Expects'
  BY <1>1 DEF Expects, listenerVars, receiverVars, senderVars
<1>6. QED
  BY <1>2, <1>3, <1>4, <1>5 DEF ClickScan, HomeIsAhead, Ahead, Active

\* Other steps of a scan's thread; none of its workers is at work.
LEMMA PhaseQuiet ==
  ASSUME ScanT, WorkersInv, ListT, QuietInv, undisturbed' => undisturbed,
         NEW s \in Scans, UNCHANGED <<listenerVars, tried, devices, status>>,
         \A t \in Scans \ {s} : phase'[t] = phase[t] /\ subnets'[t] = subnets[t],
         \A t \in Scans \ {s}, w \in Workers : worker'[<<t, w>>] = worker[<<t, w>>],
         \A w \in Workers : worker[<<s, w>>].pc \notin Busy,
         Active(s)' => Active(s),
         UNCHANGED events \/ (Active(s) /\ Push(Done(s))),
         undisturbed' /\ Active(s) /\ Home \notin tried[s] => Active(s)'
  PROVE  QuietInv'
<1>1. \A t \in Scans, w \in Workers :
         (Passing(t, w) => Passing(t, w)') /\ (t # s /\ Trying(t, w) => Trying(t, w)')
  <2>1. \A w \in Workers : ~Passing(s, w)
    BY DEF Passing, Busy
  <2>2. QED
    BY <2>1, WorkerStays
<1>2. (Announced => Announced') /\ \A t \in Scans : Heard(t)' => Heard(t)
  <2>1. CASE UNCHANGED events
    BY <2>1 DEF Announced, Heard, Spoken, Active
  <2>2. CASE Active(s) /\ Push(Done(s))
    <3>1. Done(s) \in Results \union Ends /\ Done(s).of = s
      BY DEF Done, Ends
    <3>2. (Announced => Announced') /\ \A t : Spoken(t)' => Spoken(t) \/ t = s
      BY <2>2, <3>1, EventPushed
    <3>3. QED
      BY <2>2, <3>2 DEF Heard, Active
  <2>3. QED
    BY <2>1, <2>2
<1>3. HomeIsNoted => HomeIsNoted'
  BY <1>1, <1>2 DEF HomeIsNoted, InList
<1>4. ASSUME undisturbed', NEW t \in Scans, Ahead(t) PROVE Ahead(t)'
  <2>1. CASE t # s
    BY <1>1, <1>4, <2>1 DEF Ahead, Active
  <2>2. CASE t = s
    <3>1. \A w \in Workers : ~Trying(s, w)
      BY DEF Trying, At, Busy
    <3>2. QED
      BY <1>4, <2>2, <3>1 DEF Ahead
  <2>3. QED
    BY <2>1, <2>2
<1>5. undisturbed' /\ HomeIsAhead => HomeIsAhead'
  BY <1>4 DEF HomeIsAhead, Expects, listenerVars, receiverVars, senderVars
<1>6. QED
  BY <1>2, <1>3, <1>5, QuietStays

\* A worker goes from place to place: it takes the listener's address, finds it and tells of it.
LEMMA WorkerQuiet ==
  ASSUME WorkersInv, ListT, QuietInv, undisturbed' => undisturbed,
         NEW s \in Scans, NEW w \in Workers, UNCHANGED <<phase, subnets, devices, status>>,
         \A t \in Scans, v \in Workers :
           <<t, v>> # <<s, w>> => worker'[<<t, v>>] = worker[<<t, v>>],
         phase[s] = "connect",
         \/ UNCHANGED events
         \/ \E ip \in Addresses, name \in Names :
              Push(Found(s, ip, name)) /\ (Passing(s, w) => ip = Home),
         Passing(s, w) => Passing(s, w)' \/ ~UNCHANGED events,
         HomeIsAhead /\ undisturbed' => Expects' \/ Passing(s, w)',
         HomeIsAhead /\ undisturbed' /\ Trying(s, w) => Passing(s, w)',
         \A t \in Scans : Home \notin tried[t] => Home \notin tried'[t] \/ (t = s /\ Trying(s, w)')
  PROVE  QuietInv'
<1>1. \A t \in Scans, v \in Workers : <<t, v>> # <<s, w>> =>
         (Passing(t, v) => Passing(t, v)') /\ (Trying(t, v) => Trying(t, v)')
  BY WorkerStays
<1>2. /\ Announced => Announced'
      /\ \A t \in Scans : Heard(t)' => Heard(t)
      /\ Passing(s, w) => Passing(s, w)' \/ Announced'
  <2>1. CASE UNCHANGED events
    BY <2>1 DEF Announced, Heard, Spoken, Active
  <2>2. ASSUME NEW ip \in Addresses, NEW name \in Names, Push(Found(s, ip, name)),
               Passing(s, w) => ip = Home
        PROVE  /\ Announced => Announced'
               /\ \A t \in Scans : Heard(t)' => Heard(t)
               /\ Passing(s, w) => Passing(s, w)' \/ Announced'
    <3>1. /\ Found(s, ip, name) \in Results \union Ends /\ Found(s, ip, name).of = s
          /\ Found(s, ip, name).kind = "found" /\ Found(s, ip, name).ip = ip
      BY DEF Found, Results
    <3>2. /\ Announced => Announced'
          /\ ip = Home => Announced'
          /\ \A t : Spoken(t)' => Spoken(t) \/ t = s
      BY <2>2, <3>1, EventPushed
    <3>3. QED
      BY <2>2, <3>2 DEF Heard, Active
  <2>3. QED
    BY <2>1, <2>2
<1>3. HomeIsNoted => HomeIsNoted'
  <2>1. InList => InList'
    BY DEF InList
  <2>2. (\E t \in Scans, v \in Workers : Passing(t, v)) =>
          Announced' \/ \E t \in Scans, v \in Workers : Passing(t, v)'
    <3>1. ASSUME NEW t \in Scans, NEW v \in Workers, Passing(t, v)
          PROVE  Announced' \/ Passing(t, v)'
      <4>1. CASE <<t, v>> = <<s, w>>
        BY <1>2, <3>1, <4>1
      <4>2. CASE <<t, v>> # <<s, w>>
        BY <1>1, <3>1, <4>2
      <4>3. QED
        BY <4>1, <4>2
    <3>2. QED
      BY <3>1
  <2>3. QED
    BY <1>2, <2>1, <2>2 DEF HomeIsNoted
<1>4. ASSUME undisturbed', HomeIsAhead PROVE HomeIsAhead' \/ HomeIsNoted'
  <2>1. PICK t \in Scans : Ahead(t)
    BY <1>4 DEF HomeIsAhead
  <2>2. Active(t)'
    BY <2>1 DEF Ahead, Active
  <2>3. Ahead(t)' \/ Passing(s, w)'
    <3>1. CASE Home \notin tried[t]
      BY <2>2, <3>1 DEF Ahead
    <3>2. ASSUME NEW v \in Workers, Trying(t, v)
          PROVE  Ahead(t)' \/ Passing(s, w)'
      <4>1. CASE <<t, v>> = <<s, w>>
        BY <1>4, <3>2, <4>1
      <4>2. CASE <<t, v>> # <<s, w>>
        BY <1>1, <2>2, <3>2, <4>2 DEF Ahead
      <4>3. QED
        BY <4>1, <4>2
    <3>3. QED
      BY <2>1, <3>1, <3>2 DEF Ahead
  <2>4. Expects' \/ Passing(s, w)'
    BY <1>4
  <2>5. QED
    BY <2>3, <2>4 DEF HomeIsAhead, HomeIsNoted
<1>5. QED
  BY <1>2, <1>3, <1>4, QuietStays

LEMMA DevicesAre ==
  ASSUME ListT
  PROVE  /\ devices \in Seq([ip : Addresses, host : Names]) /\ Len(devices) \in Nat
         /\ Len(devices) <= MaxDevices
<1>1. devices \in Seq([ip : Addresses, host : Names]) /\ Len(devices) <= MaxDevices
  BY DEF ListT
<1>2. QED
  BY <1>1

\* The main thread takes an event.
LEMMA ListQuiet ==
  ASSUME TakeInv, ListInv, QuietInv, undisturbed' => undisturbed, OfList, UNCHANGED listenerVars
  PROVE  QuietInv'
<1>1. /\ events # <<>> /\ events' = Tail(events) /\ ListT
      /\ UNCHANGED <<discoveryVars, phase, worker, tried>>
  BY DEF OfList, OnFound, OnScanDone, OnScanError, ListInv
<1>2. /\ Announced => Announced' \/ (Head(events).kind = "found" /\ Head(events).ip = Home)
      /\ \A s : Spoken(s)' => Spoken(s)
      /\ Spoken(Head(events).of)
      /\ \A s : Spoken(s)' => \E j \in 2 .. Len(events) : events[j].of = s
  BY <1>1, EventPopped
<1>3. \A s \in Scans : Heard(s)' => Heard(s)
  BY <1>1, <1>2 DEF Heard, Active
<1>4. /\ \A s \in Scans, w \in Workers : Passing(s, w) => Passing(s, w)'
      /\ \A s \in Scans, w \in Workers : Trying(s, w) => Trying(s, w)'
  <2>1. WorkersInv /\ UNCHANGED <<worker, subnets>>
    BY <1>1 DEF TakeInv, discoveryVars
  <2>2. QED
    BY <2>1, WorkerStays
<1>5. HomeIsAhead => HomeIsAhead'
  <2>1. \A s \in Scans : Ahead(s) => Ahead(s)'
    BY <1>1, <1>4 DEF Ahead, Active
  <2>2. QED
    BY <2>1 DEF HomeIsAhead, Expects, listenerVars, receiverVars, senderVars
<1>6. InList => InList'
  <2>1. CASE UNCHANGED devices
    BY <2>1 DEF InList
  <2>2. CASE OnFound /\ Len(devices) < MaxDevices
    <3>1. devices' = Append(devices, [ip |-> Head(events).ip, host |-> Head(events).host])
      BY <2>2 DEF OnFound
    <3>2. Len(devices) # MaxDevices /\ devices \in Seq([ip : Addresses, host : Names])
      BY <1>1, <2>2, DevicesAre, Constants
    <3>3. \A i \in DOMAIN devices : i \in DOMAIN devices' /\ devices'[i] = devices[i]
      BY <3>1, <3>2
    <3>4. QED
      BY <3>2, <3>3 DEF InList
  <2>3. QED
    BY <2>1, <2>2 DEF OfList, OnFound, OnScanDone, OnScanError
<1>7. CASE OnFound
  <2>1. UNCHANGED status
    BY <1>7 DEF OnFound
  <2>2. ASSUME Head(events).ip = Home PROVE InList'
    <3>1. /\ devices' = IF Len(devices) < MaxDevices
                        THEN Append(devices, [ip |-> Home, host |-> Head(events).host]) ELSE devices
          /\ devices \in Seq([ip : Addresses, host : Names]) /\ Len(devices) \in Nat
          /\ Len(devices) <= MaxDevices
      BY <1>1, <1>7, <2>2, DevicesAre DEF OnFound
    <3>2. CASE Len(devices) < MaxDevices
      <4>1. Len(devices) + 1 \in DOMAIN devices' /\ devices'[Len(devices) + 1].ip = Home
        BY <3>1, <3>2
      <4>2. QED
        BY <4>1 DEF InList
    <3>3. CASE ~(Len(devices) < MaxDevices)
      <4>1. Len(devices') = MaxDevices
        BY <3>1, <3>3, Constants
      <4>2. QED
        BY <4>1 DEF InList
    <3>4. QED
      BY <3>2, <3>3
  <2>3. HomeIsNoted => HomeIsNoted'
    BY <1>2, <1>4, <1>6, <2>2 DEF HomeIsNoted
  <2>4. QED
    BY <1>3, <1>5, <2>1, <2>3, QuietStays
<1>8. CASE OnScanDone \/ OnScanError
  <2>1. Head(events).kind # "found" /\ UNCHANGED devices
    BY <1>8 DEF OnScanDone, OnScanError
  <2>2. HomeIsNoted => HomeIsNoted'
    BY <1>2, <1>4, <1>6, <2>1 DEF HomeIsNoted
  <2>3. CASE OnScanError
    BY <1>3, <1>5, <2>2, <2>3, QuietStays DEF OnScanError
  <2>4. CASE OnScanDone
    <3>1. SUFFICES ASSUME undisturbed' PROVE \A s \in Scans : ~Heard(s)'
      BY <1>3, <1>5, <2>2 DEF QuietInv
    <3>2. /\ DOMAIN events = 1 .. Len(events) /\ 1 \in DOMAIN events /\ Head(events) = events[1]
          /\ events[1].kind = "done" /\ events[1].of \in Scans
      <4>1. /\ events \in Seq(Results \union Ends) /\ DOMAIN events = 1 .. Len(events)
            /\ \A i \in 1 .. Len(events) : events[i].of \in Scans
        BY <1>1, EventsAre
      <4> HIDE DEF Results, Ends
      <4>2. 1 \in 1 .. Len(events) /\ Head(events) = events[1]
        BY <1>1, <4>1, TailOf
      <4>3. QED
        BY <2>4, <4>1, <4>2 DEF OnScanDone
    <3>3. PICK t \in Scans : t = events[1].of
      BY <3>2
    <3>4. phase[t] = "done" /\ \A j \in 2 .. Len(events) : events[j].of # t
      <4>1. phase[t] = "done" /\ \A j \in 1 + 1 .. Len(events) : events[j].of # t
        BY <3>2, <3>3 DEF ListInv, DoneInv
      <4>2. QED
        BY <4>1
    <3>5. ~Heard(t)'
      BY <1>1, <1>2, <3>4 DEF Heard, Active
    <3>6. \A s \in Scans : Heard(s) => s = t
      BY <1>2, <3>1, <3>2, <3>3 DEF QuietInv, Heard
    <3>7. QED
      BY <1>3, <3>5, <3>6
  <2>5. QED
    BY <1>8, <2>3, <2>4
<1>9. QED
  BY <1>7, <1>8 DEF OfList

\* As long as nobody else comes a listener that waits does nothing.
LEMMA ListenerQuiet ==
  ASSUME TInv, QuietInv, ListenerAlone
  PROVE  QuietInv'
<1>1. /\ UNCHANGED <<phase, subnets, worker, tried, devices, status, events>>
      /\ undisturbed' => undisturbed /\ faults' = faults /\ \A x \in Senders : sender'[x] # "trying"
  BY DEF ListenerAlone, scannerVars, discoveryVars
<1>2. /\ \A s \in Scans : (Heard(s)' <=> Heard(s)) /\ (Ahead(s)' <=> Ahead(s))
      /\ HomeIsNoted' <=> HomeIsNoted
  BY <1>1 DEF Heard, Spoken, Active, HomeIsNoted, InList, Announced, Passing, AddressOf, At,
              Ahead, Trying
<1>3. ASSUME undisturbed', Expects PROVE FALSE
  <2>1. rPc = "accept" /\ queue = <<>> /\ \A x \in Senders : sender[x] # "trying"
    BY <1>3 DEF Expects
  <2>2. ~Fault
    BY <1>1, <1>3 DEF Fault, TInv, TypeOK
  <2>3. ~ReceiverStep
    BY <2>1 DEF ReceiverStep, LimitReached, Listen, GoesOn, Accept, NoMeta, GetMeta, TransferDone,
                TransferFails, Close
  <2>4. ~EnvironmentStep
    <3>1. ASSUME NEW x \in Senders, RunSender(x) PROVE FALSE
      BY <1>1, <1>3, <3>1 DEF RunSender, TInv, TypeOK
    <3>2. QED
      BY <2>1, <2>2, <3>1 DEF EnvironmentStep, CannotListen, GoesOn, AcceptFails, UserAccepts,
                              UserRejects, CannotPrepare
  <2>5. ASSUME NEW x \in Senders, SenderStep(x) PROVE FALSE
    <3>1. ~Queued(x)
      BY <2>1 DEF Queued
    <3>2. QED
      BY <2>1, <2>5, <3>1 DEF SenderStep, Connect, ConnectFails, ResponseTimesOut
  <2>6. QED
    BY <2>3, <2>4, <2>5 DEF ListenerAlone, ListenerNext
<1>4. QED
  BY <1>1, <1>2, <1>3, QuietStays DEF HomeIsAhead

\* What holds of the scans alone.
ScanInv == AskT /\ SubnetsT /\ TakeInv /\ ListInv /\ AskInv

LEMMA BusyIs ==
  ASSUME ScanInv, NEW s \in Scans, NEW w \in Workers, worker[<<s, w>>].pc \in Busy
  PROVE  /\ phase[s] = "connect" /\ AddressOf(s, w) \in Addresses
<1>1. /\ worker[<<s, w>>].idx \in Numbers /\ phase[s] = "connect" /\ subnets[s] # <<>>
      /\ subnets[s] \in Seq(Nets)
  BY DEF ScanInv, TakeInv, WorkersInv, SubnetsT
<1>2. Head(subnets[s]) \in Nets
  BY <1>1
<1>3. QED
  BY <1>1, <1>2, SubnetsAre DEF AddressOf

\* A worker's step that is no error.
LEMMA OneWorkerQuiet ==
  ASSUME ScanInv, QuietInv, NEW s \in Scans, NEW w \in Workers,
         Take(s, w) \/ Resolve(s, w) \/ PushFound(s, w), UNCHANGED listenerVars,
         undisturbed' => undisturbed
  PROVE  QuietInv'
<1> USE DEF ScanInv, TakeInv, ListInv
<1>1. /\ UNCHANGED <<phase, subnets, devices, status>>
      /\ \A t \in Scans, v \in Workers : <<t, v>> # <<s, w>> => worker'[<<t, v>>] = worker[<<t, v>>]
  BY DEF Take, Resolve, PushFound, Proceed, discoveryVars, ScanT
<1>2. HomeIsAhead => Expects'
  BY DEF HomeIsAhead, Expects, listenerVars, receiverVars, senderVars
<1>3. CASE Take(s, w)
  <2>1. phase[s] = "connect" /\ ~Passing(s, w) /\ ~Trying(s, w) /\ UNCHANGED events
    BY <1>3 DEF Take, At, WorkersInv, Passing, Trying
  <2>2. /\ worker'[<<s, w>>] = [pc |-> IF counter[s] \in Numbers THEN "connect" ELSE "ended",
                                idx |-> counter[s]]
        /\ tried' = [tried EXCEPT ![s] = tried[s] \union
                       ({<<Head(subnets[s]), counter[s]>>} \intersect Addresses)]
    BY <1>3 DEF Take, ScanT
  <2>3. ASSUME NEW t \in Scans, Home \notin tried[t], Home \in tried'[t]
        PROVE  t = s /\ Trying(s, w)'
    <3>1. t = s /\ Home = <<Head(subnets[s]), counter[s]>> /\ Home \in Addresses
      BY <2>2, <2>3 DEF ScanT
    <3>2. counter[s] \in Numbers
      BY <3>1, AddressIs
    <3>3. QED
      BY <1>1, <2>2, <3>1, <3>2 DEF Trying, At, AddressOf
  <2>4. QED
    BY <1>1, <1>2, <2>1, <2>3, WorkerQuiet
<1>4. CASE Resolve(s, w)
  <2>1. worker[<<s, w>>].pc = "resolve" /\ phase[s] = "connect" /\ ~Trying(s, w)
    BY <1>4 DEF Resolve, At, Busy, WorkersInv, Trying
  <2>2. worker'[<<s, w>>].pc = "push" /\ worker'[<<s, w>>].idx = worker[<<s, w>>].idx
    BY <1>4 DEF Resolve, Proceed, ScanT
  <2>3. Passing(s, w) => Passing(s, w)'
    BY <1>1, <2>1, <2>2 DEF Passing, AddressOf
  <2>4. UNCHANGED <<events, tried>>
    BY <1>4 DEF Resolve
  <2>5. QED
    BY <1>1, <1>2, <2>1, <2>3, <2>4, WorkerQuiet
<1>5. CASE PushFound(s, w)
  <2>1. worker[<<s, w>>].pc = "push" /\ ~Trying(s, w)
    BY <1>5 DEF PushFound, At, Trying
  <2>2. phase[s] = "connect" /\ AddressOf(s, w) \in Addresses
    BY <2>1, BusyIs DEF Busy
  <2>3. /\ host \in Names /\ Push(Found(s, AddressOf(s, w), host)) /\ UNCHANGED tried
        /\ Passing(s, w) => AddressOf(s, w) = Home
    BY <1>5 DEF PushFound, ListT, Passing
  <2>4. ~UNCHANGED events
    <3>1. events' = Append(events, Found(s, AddressOf(s, w), host)) /\ Len(events) \in Nat
      BY <2>3, EventsAre DEF Push
    <3>2. Found(s, AddressOf(s, w), host) \in Results \union Ends
      BY <2>2, <2>3 DEF Found, Results
    <3>3. Len(events') = Len(events) + 1
      <4>1. events \in Seq(Results \union Ends)
        BY EventsAre
      <4> HIDE DEF Results, Ends
      <4>2. QED
        BY <3>1, <3>2, <4>1, AppendOf
    <3>4. QED
      BY <3>1, <3>3
  <2>5. QED
    BY <1>1, <1>2, <2>1, <2>2, <2>3, <2>4, WorkerQuiet
<1>6. QED
  BY <1>3, <1>4, <1>5

\* A worker and the port behind its address.
LEMMA ConnectQuiet ==
  ASSUME ScanInv, QuietInv, NEW s \in Scans, NEW w \in Workers,
         ReachedHome(s, w) \/ ReachedOther(s, w) \/ NotReached(s, w)
  PROVE  QuietInv'
<1> USE DEF ScanInv, TakeInv, ListInv
<1>1. /\ UNCHANGED <<phase, subnets, devices, status, events, tried, undisturbed>>
      /\ \A t \in Scans, v \in Workers : <<t, v>> # <<s, w>> => worker'[<<t, v>>] = worker[<<t, v>>]
      /\ At(s, w, "connect") /\ worker'[<<s, w>>].idx = worker[<<s, w>>].idx
  BY DEF ReachedHome, ReachedOther, NotReached, Reached, Unreached, Proceed, discoveryVars, ScanT
<1>2. phase[s] = "connect" /\ ~Passing(s, w)
  BY <1>1 DEF At, Busy, WorkersInv, Passing
<1>3. CASE ReachedHome(s, w)
  <2>1. worker'[<<s, w>>].pc = "resolve" /\ AddressOf(s, w) = Home
    BY <1>3 DEF ReachedHome, Reached, Proceed, ScanT
  <2>2. Passing(s, w)'
    BY <1>1, <2>1 DEF Passing, AddressOf
  <2>3. QED
    BY <1>1, <1>2, <2>2, WorkerQuiet
<1>4. CASE ReachedOther(s, w) \/ NotReached(s, w)
  <2>1. HomeIsAhead => Expects'
    BY <1>4 DEF ReachedOther, NotReached, HomeIsAhead, Expects, listenerVars, receiverVars, senderVars
  <2>2. HomeIsAhead => Reachable
    <3>1. Backlog \in Nat
      BY NumbersAssumption
    <3>2. QED
      BY <3>1 DEF HomeIsAhead, Expects, Reachable
  <2>3. HomeIsAhead => ~Trying(s, w)
    BY <1>4, <2>2, AddressAssumption DEF ReachedOther, NotReached, Trying
  <2>4. QED
    BY <1>1, <1>2, <2>1, <2>3, WorkerQuiet
<1>5. QED
  BY <1>3, <1>4

\* A worker that gives up too early on some other address than the listener's.
LEMMA TimedOutQuiet ==
  ASSUME ScanInv, QuietInv, NEW s \in Scans, NEW w \in Workers, TimedOut(s, w)
  PROVE  QuietInv'
<1> USE DEF ScanInv, TakeInv, ListInv
<1>1. CASE AddressOf(s, w) = Home
  BY <1>1 DEF TimedOut, QuietInv
<1>2. CASE AddressOf(s, w) # Home
  <2>1. /\ UNCHANGED <<phase, subnets, devices, status, events, tried>>
        /\ undisturbed' => undisturbed
        /\ UNCHANGED listenerVars
        /\ \A t \in Scans, v \in Workers : <<t, v>> # <<s, w>> => worker'[<<t, v>>] = worker[<<t, v>>]
        /\ At(s, w, "connect") /\ worker'[<<s, w>>].idx = worker[<<s, w>>].idx
    BY <1>2 DEF TimedOut, AnError, Proceed, ScanT
  <2>2. phase[s] = "connect" /\ ~Passing(s, w) /\ ~Trying(s, w)
    BY <1>2, <2>1 DEF At, Busy, WorkersInv, Passing, Trying
  <2>3. HomeIsAhead => Expects'
    BY <2>1 DEF HomeIsAhead, Expects, listenerVars, receiverVars, senderVars
  <2>4. QED
    BY <2>1, <2>2, <2>3, WorkerQuiet
<1>3. QED
  BY <1>1, <1>2

LEMMA ScanQuiet ==
  ASSUME ScanInv, QuietInv, NEW s \in Scans, OfScan(s), UNCHANGED listenerVars,
         ~ClickScan(s), undisturbed' => undisturbed /\ errors' = errors
  PROVE  QuietInv'
<1> USE DEF ScanInv, TakeInv, ListInv
<1>1. /\ UNCHANGED <<tried, devices, status>>
      /\ \A t \in Scans \ {s} : phase'[t] = phase[t] /\ subnets'[t] = subnets[t]
  BY DEF OfScan, CliScan, Collect, NoSubnets, StartWorkers, ScanNext, Finish, CliScanEnds,
         AnError, NextSubnet, discoveryVars, ScanT, SubnetsT
<1>2. \A t \in Scans \ {s}, w \in Workers : worker'[<<t, w>>] = worker[<<t, w>>]
  BY DEF OfScan, CliScan, Collect, NoSubnets, StartWorkers, ScanNext, Finish, CliScanEnds, Scan,
         ScanT
<1>3. \A w \in Workers : worker[<<s, w>>].pc \notin Busy
  <2>1. phase[s] # "connect" \/ \A w \in Workers : At(s, w, "ended")
    BY DEF OfScan, CliScan, Collect, NoSubnets, StartWorkers, ScanNext, Finish, CliScanEnds
  <2>2. QED
    BY <2>1 DEF WorkersInv, At, Busy
<1>4. CASE NoSubnets(s)
  <2>1. Subnets # <<>>
    <3>1. Home[1] \in Nets
      BY AddressIs, AddressAssumption
    <3>2. DOMAIN Subnets # {}
      BY <3>1 DEF Nets
    <3>3. DOMAIN <<>> = {}
      OBVIOUS
    <3>4. QED
      BY <3>2, <3>3
  <2>2. Error
    BY <1>4, <2>1 DEF NoSubnets, AnError
  <2>3. ~undisturbed'
    BY <2>2, Constants DEF Error, AskT
  <2>4. QED
    BY <2>3 DEF QuietInv
<1>5. CASE Finish(s)
  <2>1. /\ phase[s] = "connect" /\ phase'[s] = "done" /\ Push(Done(s)) /\ Len(subnets[s]) = 1
        /\ \A w \in Workers : At(s, w, "ended")
    BY <1>5 DEF Finish, ScanT
  <2>2. Home \in tried[s]
    <3>1. 2 .. Len(subnets[s]) = {}
      BY <2>1
    <3>2. QED
      BY <2>1, <3>1, SubnetIsTried, AddressAssumption
  <2>3. QED
    BY <1>1, <1>2, <1>3, <2>1, <2>2, PhaseQuiet DEF Active
<1>6. CASE CliScan(s) \/ CliScanEnds(s) \/ Collect(s) \/ StartWorkers(s) \/ ScanNext(s)
  <2>1. /\ UNCHANGED events
        /\ Active(s)' <=> Active(s)
    BY <1>6 DEF CliScan, CliScanEnds, Collect, StartWorkers, ScanNext, Active, ScanT
  <2>2. QED
    BY <1>1, <1>2, <1>3, <2>1, PhaseQuiet
<1>7. QED
  BY <1>4, <1>5, <1>6 DEF OfScan

LEMMA StepQuietInv ==
  ASSUME TInv, ScanInv, QuietInv, [LanNext]_lanVars
  PROVE  QuietInv'
<1>1. CASE UNCHANGED lanVars
  <2>1. /\ UNCHANGED <<phase, subnets, worker, tried, devices, status, events, undisturbed>>
        /\ UNCHANGED <<rPc, queue, sender>>
    BY <1>1 DEF lanVars, scannerVars, discoveryVars, listenerVars, receiverVars, senderVars
  <2>2. QED
    BY <2>1 DEF QuietInv, Heard, Spoken, Active, HomeIsNoted, InList, Announced, Passing, AddressOf,
                At, HomeIsAhead, Ahead, Trying, Expects
<1>2. CASE ListenerAlone
  BY <1>2, ListenerQuiet
<1>3. CASE ScannerAlone
  <2>1. UNCHANGED listenerVars
    BY <1>3 DEF ScannerAlone
  <2>2. ASSUME NEW s \in Scans, ClickScan(s)
        PROVE  QuietInv'
    <3>1. phase'[s] = "collect" /\ phase[s] = "idle" /\ phase' # phase
      BY <2>2 DEF ClickScan, ScanInv, TakeInv, ScanT
    <3>2. undisturbed' => /\ Expects /\ events = <<>>
                          /\ \A t \in Scans : phase[t] \in {"idle", "done"}
      BY <1>3, <3>1 DEF ScannerAlone, Expects
    <3>3. QED
      BY <2>1, <2>2, <3>2, ClickQuiet DEF ScanInv, TakeInv
  <2>3. CASE \A s \in Scans : phase'[s] = "collect" => phase[s] # "idle"
    <3>1. undisturbed' => undisturbed /\ errors' = errors
      BY <1>3, <2>3 DEF ScannerAlone
    <3>2. ASSUME NEW s \in Scans PROVE ~ClickScan(s)
      <4>1. SUFFICES ASSUME ClickScan(s) PROVE FALSE
        OBVIOUS
      <4>2. phase'[s] = "collect" /\ phase[s] = "idle"
        BY <4>1 DEF ClickScan, ScanInv, TakeInv, ScanT
      <4>3. QED
        BY <2>3, <4>2
    <3>3. CASE \/ DiscoveryAlone(Surroundings)
               \/ \E s \in Scans : BroadcastOther(s) \/ BroadcastAnswer(s)
      <4>1. UNCHANGED <<phase, worker, tried, devices, status>>
        BY <3>3 DEF DiscoveryAlone, BroadcastOther, BroadcastAnswer
      <4>2. \A s \in Scans : phase[s] = "connect" => subnets'[s] = subnets[s]
        <5>1. CASE DiscoveryAlone(Surroundings)
          BY <5>1, NetworkSubnets DEF DiscoveryAlone, Surroundings, Network
        <5>2. ASSUME NEW s \in Scans, BroadcastOther(s) \/ BroadcastAnswer(s)
              PROVE  \A t \in Scans : phase[t] = "connect" => subnets'[t] = subnets[t]
          <6>1. Broadcasting(s) /\ (Asks(s) \/ \E h \in Responders : ReadAnswer(s, h))
            BY <5>2 DEF BroadcastOther, BroadcastAnswer, DiscoveryAlone, Asks
          <6>2. Open
            BY DEF ScanInv, AskInv, AnswersInv, Open
          <6>3. \A t \in Scans \ {s} : subnets'[t] = subnets[t]
            BY <6>1, <6>2, AsksSubnets DEF ScanInv
          <6>4. QED
            BY <6>1, <6>3 DEF Broadcasting
        <5>3. QED
          BY <3>3, <5>1, <5>2
      <4>3. \/ UNCHANGED events
            \/ \E s \in Scans, h \in Responders : phase[s] = "broadcast" /\ Push(Found(s, h, h))
        BY <3>3 DEF DiscoveryAlone, BroadcastOther, BroadcastAnswer
      <4>4. QED
        BY <2>1, <3>1, <4>1, <4>2, <4>3, AskingQuiet DEF ScanInv, TakeInv, ListInv
    <3>4. CASE OnFound \/ OnScanDone \/ OnScanError
      BY <2>1, <3>1, <3>4, ListQuiet DEF ScanInv, OfList
    <3>5. ASSUME NEW s \in Scans,
                 \/ Collect(s) \/ NoSubnets(s) \/ StartWorkers(s) \/ ScanNext(s) \/ Finish(s)
                 \/ CliScan(s) \/ CliScanEnds(s)
          PROVE  QuietInv'
      BY <2>1, <3>1, <3>2, <3>5, ScanQuiet DEF OfScan
    <3>6. ASSUME NEW s \in Scans, NEW w \in Workers,
                 Take(s, w) \/ NoSocket(s, w) \/ Resolve(s, w) \/ PushFound(s, w)
          PROVE  QuietInv'
      <4>1. CASE NoSocket(s, w)
        <5>1. ~undisturbed'
          BY <3>1, <4>1, Constants DEF NoSocket, AnError, Error, ScanInv, AskT
        <5>2. QED
          BY <5>1 DEF QuietInv
      <4>2. QED
        BY <2>1, <3>1, <3>6, <4>1, OneWorkerQuiet
    <3>7. QED
      BY <1>3, <3>2, <3>3, <3>4, <3>5, <3>6 DEF ScannerAlone, ScannerStep
  <2>4. CASE ~\A s \in Scans : phase'[s] = "collect" => phase[s] # "idle"
    <3>1. PICK s \in Scans : phase'[s] = "collect" /\ phase[s] = "idle"
      BY <2>4
    <3>2. \E t \in Scans : ClickScan(t)
      BY <1>3, <3>1
      DEF ScannerAlone, ScannerStep, DiscoveryAlone, OnFound, OnScanDone, OnScanError, BroadcastOther,
          BroadcastAnswer, Collect, NoSubnets, StartWorkers, ScanNext, Finish, CliScan, CliScanEnds,
          Take, NoSocket, Resolve, PushFound, ScanInv, TakeInv, ScanT
    <3>3. QED
      BY <2>2, <3>2
  <2>5. QED
    BY <2>3, <2>4
<1>4. CASE \E s \in Scans, w \in Workers :
             ReachedHome(s, w) \/ ReachedOther(s, w) \/ NotReached(s, w) \/ TimedOut(s, w)
  BY <1>4, ConnectQuiet, TimedOutQuiet
<1>5. QED
  BY <1>1, <1>2, <1>3, <1>4 DEF LanNext

-----------------------------------------------------------------------------
(* The theorems.                                                           *)

\* Every step of the network is a step of the listener or none of its own.
LEMMA StepListener ==
  ASSUME [LanNext]_lanVars
  PROVE  [Next]_listenerVars
<1>1. CASE UNCHANGED lanVars
  BY <1>1 DEF lanVars
<1>2. CASE ListenerAlone
  BY <1>2 DEF ListenerAlone, Next
<1>3. CASE ScannerAlone
  BY <1>3 DEF ScannerAlone
<1>4. CASE \E s \in Scans, w \in Workers :
             ReachedHome(s, w) \/ ReachedOther(s, w) \/ NotReached(s, w) \/ TimedOut(s, w)
  BY <1>4 DEF ReachedHome, ReachedOther, NotReached, TimedOut, Next
<1>5. QED
  BY <1>1, <1>2, <1>3, <1>4 DEF LanNext

\* Among scanners the listener does what Listener says: a scan is to it a probe that comes at
\* some time (scanner.c:138-149), so what is shown of it and its senders holds here, too.
THEOREM ListenerIsListener == LanSpec => Spec
<1>1. LanInit => Init
  BY DEF LanInit
<1>2. [LanNext]_lanVars => [Next]_listenerVars
  BY StepListener
<1>3. QED
  BY <1>1, <1>2, PTL DEF LanSpec, Spec

LEMMA Nothing == (\A T : <<>> \in Seq(T)) /\ DOMAIN <<>> = {} /\ Len(<<>>) = 0
OBVIOUS

LEMMA InitScanInv == LanInit => ScanInv
<1> SUFFICES ASSUME LanInit PROVE ScanInv
  OBVIOUS
<1>1. DiscoveryInit
  BY DEF LanInit, ScannerInit
<1>2. /\ phase = [s \in Scans |-> "idle"] /\ counter = [s \in Scans |-> 0]
      /\ worker = [k \in Scans \X Workers |-> [pc |-> "none", idx |-> 0]]
      /\ tried = [s \in Scans |-> {}]
  BY DEF LanInit, ScannerInit
<1>3. AskT
  BY <1>1, Constants DEF DiscoveryInit, AskT
<1>4. SubnetsT
  BY <1>1, Constants DEF DiscoveryInit, SubnetsT
<1>5. TakeInv
  <2>1. ScanT
    BY <1>2 DEF ScanT, Phases, Places
  <2>2. WorkersInv
    BY <1>2 DEF WorkersInv, At, Busy
  <2>3. TriedInv
    BY <1>2 DEF TriedInv
  <2>4. QED
    BY <2>1, <2>2, <2>3 DEF TakeInv
<1>6. ListInv
  <2>1. events = <<>> /\ devices = <<>> /\ host = Unknown /\ status = ""
    BY DEF LanInit, ScannerInit
  <2>2. events \in Seq(Results \union Ends) /\ DOMAIN events = {}
    BY <2>1, Nothing
  <2>3. devices \in Seq([ip : Addresses, host : Names])
    BY <2>1, Nothing
  <2>4. Len(devices) <= MaxDevices
    <3>1. Len(devices) = 0
      BY <2>1, Nothing
    <3>2. QED
      BY <3>1, Constants
  <2>5. ListT
    BY <2>1, <2>2, <2>3, <2>4 DEF ListT, Names
  <2>6. QED
    BY <2>2, <2>5 DEF ListInv, DoneInv
<1>7. ASSUME NEW s \in Scans PROVE AskedOnce(s) /\ AnswersInv(s) /\ ReadsInv(s)
  <2>1. /\ phase[s] = "idle" /\ asking[s] = "no" /\ subnets[s] = <<>> /\ listed[s] = {}
        /\ buffer[s] = <<>> /\ \A h \in Responders : s \notin inbox[h]
    BY <1>1, <1>2 DEF DiscoveryInit
  <2>2. QED
    BY <2>1 DEF AskedOnce, AnswersInv, ReadsInv, Broadcasting
<1>8. QED
  BY <1>3, <1>4, <1>5, <1>6, <1>7 DEF ScanInv, AskInv

LEMMA StepScanInv ==
  ASSUME ScanInv, [LanNext]_lanVars
  PROVE  ScanInv'
<1>1. CASE UNCHANGED scannerVars
  <2>1. /\ UNCHANGED <<phase, counter, worker, tried, host, events, devices, status>>
        /\ UNCHANGED discoveryVars
    BY <1>1 DEF scannerVars
  <2>2. TakeInv'
    BY <2>1, ScanRests DEF ScanInv, discoveryVars
  <2>3. ListInv'
    BY <2>1, ListRests DEF ScanInv
  <2>4. AskT' /\ SubnetsT'
    BY <2>1 DEF ScanInv, AskT, SubnetsT, discoveryVars
  <2>5. AskInv'
    <3>1. \A s \in Scans : Same(s) /\ SameReads(s)
      BY <2>1 DEF Same, SameReads, discoveryVars
    <3>2. QED
      BY <3>1, SameAsk DEF ScanInv, AskInv
  <2>6. QED
    BY <2>2, <2>3, <2>4, <2>5 DEF ScanInv
<1>2. CASE ScanStep
  <2>1. Open
    BY DEF ScanInv, AskInv, AnswersInv, Open
  <2>2. QED
    BY <1>2, <2>1, StepAskT, StepSubnetsT, StepTakeInv, StepListInv, StepAskInv DEF ScanInv, TakeInv
<1>3. QED
  BY <1>1, <1>2, StepIs

LEMMA AlwaysScanInv == LanSpec => []ScanInv
<1>1. ScanInv /\ [LanNext]_lanVars => ScanInv'
  BY StepScanInv
<1>2. QED
  BY <1>1, InitScanInv, PTL DEF LanSpec

LEMMA AlwaysQuietInv == LanSpec => []QuietInv
<1>1. LanInit => QuietInv
  BY DEF LanInit, QuietInv
<1>2. TInv /\ ScanInv /\ QuietInv /\ [LanNext]_lanVars => QuietInv'
  BY StepQuietInv
<1>3. QED
  BY <1>1, <1>2, AlwaysScanInv, AlwaysTInv, ListenerIsListener, PTL DEF LanSpec

\* The types of the network's variables: in particular no scan tries a number outside of its
\* subnets, whatever the shared counter says, and the list never has more than its 256 places
\* (scanner.c:117-149, main.c:452-464).
THEOREM LanTypeCorrect == LanSpec => []LanTypeOK
<1>1. ScanInv /\ TypeOK => LanTypeOK
  <2> SUFFICES ASSUME ScanInv, TypeOK PROVE LanTypeOK
    OBVIOUS
  <2>1. DiscoveryTypeOK
    BY DEF ScanInv, AskT, SubnetsT, DiscoveryTypeOK
  <2>2. \A s \in Scans : \A a \in tried[s] : a[2] \in Numbers
    BY AddressIs DEF ScanInv, TakeInv, ScanT
  <2>3. \A s \in Scans, w \in Workers :
          worker[<<s, w>>].pc \in {"none", "take", "connect", "resolve", "push", "ended"}
    BY DEF ScanInv, TakeInv, ScanT, Places
  <2>4. host # Unknown => host[2] \in Numbers
    BY AddressIs DEF ScanInv, ListInv, ListT, Names
  <2>5. QED
    BY <2>1, <2>2, <2>3, <2>4
    DEF LanTypeOK, ScanInv, TakeInv, ScanT, Phases, ListInv, ListT
<1>2. QED
  BY <1>1, AlwaysScanInv, TypeCorrect, ListenerIsListener, PTL

\* When a scan says that it is done it has tried all of its addresses, and has no more results.
THEOREM ScanDoneIsLast == LanSpec => []DoneIsLast
<1>1. ScanInv => DoneIsLast
  BY DEF ScanInv, ListInv, DoneInv, DoneIsLast
<1>2. QED
  BY <1>1, AlwaysScanInv, PTL

\* Whoever was asked and answered in time is listed, whatever else was read.
THEOREM WhoAnswersIsListed == LanSpec => []RespondersAreListed
<1>1. ScanInv => RespondersAreListed
  BY WhoAnswered DEF ScanInv
<1>2. QED
  BY <1>1, AlwaysScanInv, PTL

\* A listener that waits is in the list when a scan is complete that nobody disturbed, no system
\* error met, and whose connection to the listener was made within its 800 ms.
THEOREM QuietIsFound == LanSpec => []QuietListenerIsFound
<1>1. ASSUME ScanInv, QuietInv, undisturbed, status = "complete",
             \A s \in Scans : phase[s] \in {"idle", "done"}
      PROVE  InList
  <2>1. /\ \A s \in Scans : ~Heard(s)
        /\ HomeIsNoted \/ HomeIsAhead
    BY <1>1 DEF QuietInv
  <2>2. ~HomeIsAhead
    BY <2>1 DEF HomeIsAhead, Ahead, Heard
  <2>3. ~Announced
    <3>1. \A i \in DOMAIN events : events[i].of \in Scans
      BY <1>1, EventsAre DEF ScanInv, ListInv
    <3>2. QED
      BY <2>1, <3>1 DEF Announced, Heard, Spoken
  <2>4. \A s \in Scans, w \in Workers : ~Passing(s, w)
    BY <1>1 DEF Passing, Busy, ScanInv, TakeInv, WorkersInv
  <2>5. QED
    BY <2>1, <2>2, <2>3, <2>4 DEF HomeIsNoted
<1>2. ScanInv /\ QuietInv => QuietListenerIsFound
  BY <1>1 DEF QuietListenerIsFound, InList
<1>3. QED
  BY <1>2, AlwaysScanInv, AlwaysQuietInv, PTL
=============================================================================
