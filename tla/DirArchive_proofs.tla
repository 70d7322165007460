--------------------------- MODULE DirArchive_proofs ---------------------------
(***************************************************************************)
(* Theorems about DirArchive, for any directories, names, contents of the  *)
(* save directory, and numbers of transfers and faults.                    *)
(***************************************************************************)
EXTENDS DirArchive, SequenceTheorems, TLAPS

-----------------------------------------------------------------------------
(* Paths.                                                                  *)

LEMMA OneOrMore == \A n \in Nat \ {0} : n = 1 \/ (n > 1 /\ n - 1 \in 1 .. n - 1)
OBVIOUS

LEMMA Piece ==
  ASSUME NEW p \in Path, NEW n \in 0 .. Len(p)
  PROVE  /\ SubSeq(p, 1, n) \in Path /\ Len(SubSeq(p, 1, n)) = n
         /\ \A i \in 1 .. n : SubSeq(p, 1, n)[i] = p[i]
<1>1. \A i \in 1 .. n : p[i] \in Name \union {Slash}
  BY ElementOfSeq DEF Path
<1> QED
  BY <1>1, SubSeqProperties DEF Path

LEMMA PieceOfPiece ==
  ASSUME NEW p \in Path, NEW n \in 0 .. Len(p), NEW m \in 0 .. n
  PROVE  SubSeq(SubSeq(p, 1, n), 1, m) = SubSeq(p, 1, m)
<1>1. SubSeq(p, 1, n) \in Path /\ Len(SubSeq(p, 1, n)) = n
  BY Piece
<1>2. m \in 0 .. Len(SubSeq(p, 1, n)) /\ m \in 0 .. Len(p)
  BY <1>1 DEF Path
<1> DEFINE q == SubSeq(p, 1, n)
<1>3. /\ SubSeq(q, 1, m) \in Path /\ Len(SubSeq(q, 1, m)) = m
      /\ \A i \in 1 .. m : SubSeq(q, 1, m)[i] = q[i]
  <2>1. q \in Path /\ m \in 0 .. Len(q)
    BY <1>1, <1>2
  <2> HIDE DEF q
  <2> QED
    BY <2>1, Piece
<1>4. /\ SubSeq(p, 1, m) \in Path /\ Len(SubSeq(p, 1, m)) = m
      /\ \A i \in 1 .. m : SubSeq(p, 1, m)[i] = p[i]
  BY <1>2, Piece
<1>5. \A i \in 1 .. m : q[i] = p[i]
  BY Piece
<1>6. \A i \in 1 .. m : SubSeq(q, 1, m)[i] = SubSeq(p, 1, m)[i]
  BY <1>3, <1>4, <1>5
<1> HIDE DEF q
<1>7. SubSeq(q, 1, m) = SubSeq(p, 1, m)
  BY <1>3, <1>4, <1>6, SeqEqual DEF Path
<1> QED
  BY <1>7 DEF q

LEMMA FrontIsPiece ==
  ASSUME NEW p \in Path, p # <<>>
  PROVE  /\ Len(p) \in Nat \ {0} /\ Front(p) = SubSeq(p, 1, Len(p) - 1)
         /\ Front(p) \in Path /\ Len(Front(p)) = Len(p) - 1
<1>1. Len(p) \in Nat \ {0}
  BY EmptySeq DEF Path
<1>2. Len(p) - 1 \in 0 .. Len(p)
  BY <1>1
<1> QED
  BY <1>1, <1>2, Piece DEF Front

LEMMA WholePiece ==
  ASSUME NEW p \in Path
  PROVE  SubSeq(p, 1, Len(p)) = p /\ SubSeq(p, 1, 0) = <<>> /\ (Len(p) = 0 => p = <<>>)
BY SubSeqFull, SubSeqEmpty, EmptySeq DEF Path

\* Below the base, what is another path stays another one.
LEMMA BelowBase ==
  ASSUME NEW b \in Bases, NEW p \in Path, NEW q \in Path
  PROVE  /\ b \o p \in Path \ {<<>>}
         /\ b \o p = b \o q => p = q
<1>1. b \in Path /\ b # <<>>
  <2>1. PICK n \in Name \union {Slash} : b = <<n>>
    BY BasesAssumption
  <2>2. <<n>> \in Seq(Name \union {Slash}) /\ <<n>> # <<>>
    OBVIOUS
  <2> QED
    BY <2>1, <2>2 DEF Path
<1>2. b \o p \in Path /\ Len(b \o p) = Len(b) + Len(p) /\ Len(b) # 0 /\ Len(p) \in Nat /\ Len(b) \in Nat
  BY <1>1, ConcatProperties, EmptySeq DEF Path
<1>3. b \o p # <<>>
  BY <1>2
<1> QED
  BY <1>1, <1>2, <1>3, ConcatSimplifications DEF Path

-----------------------------------------------------------------------------
(* Types.                                                                  *)

TreePaths(t) == t.files \union t.dirs \union t.others

LEMMA TreeOk ==
  ASSUME NEW t \in Trees
  PROVE  /\ t.version \in Nat \ {0}
         /\ TreePaths(t) \subseteq Path \ {<<>>}
         /\ t.files \intersect t.dirs = {} /\ t.files \intersect t.others = {}
         /\ t.dirs \intersect t.others = {}
         /\ \A p \in TreePaths(t), n \in Nat \ {0} : n < Len(p) => SubSeq(p, 1, n) \in t.dirs
<1>1. t \in TreeType
  BY TreesAssumption
<1>2. \A p \in TreePaths(t) : Len(p) \in Nat
  BY <1>1 DEF TreePaths, TreeType, Path
<1> QED
  BY <1>1, <1>2, TreesAssumption DEF TreePaths, TreeType

LEMMA OpenedOk ==
  ASSUME NEW t \in Trees, NEW d \in Path
  PROVE  /\ Opened(t, d) \in [dir : Path, left : SUBSET Path]
         /\ Opened(t, d).dir = d /\ Opened(t, d).left \subseteq TreePaths(t)
         /\ \A p \in Opened(t, d).left : Front(p) = d /\ d \notin t.closed
BY TreeOk DEF Opened, Children, TreePaths

Frame == [dir : Path, left : SUBSET Path]

LEMMA ReadOk ==
  ASSUME stack \in Seq(Frame), stack # <<>>, NEW p
  PROVE  /\ Read(p) \in Seq(Frame) /\ Len(Read(p)) = Len(stack) /\ Len(stack) \in Nat \ {0}
         /\ DOMAIN stack = 1 .. Len(stack)
         /\ \A i \in 1 .. Len(stack) :
              /\ Read(p)[i].dir = stack[i].dir
              /\ Read(p)[i].left = IF i = Len(stack) THEN stack[i].left \ {p} ELSE stack[i].left
<1>1. Len(stack) \in Nat \ {0}
  BY EmptySeq
<1>2. stack[Len(stack)] \in Frame
  BY <1>1, ElementOfSeq
<1>3. [stack[Len(stack)] EXCEPT !.left = @ \ {p}] \in Frame
  BY <1>2 DEF Frame
<1>4. Read(p) = [stack EXCEPT ![Len(stack)] = [stack[Len(stack)] EXCEPT !.left = @ \ {p}]]
  BY DEF Read
<1>5. /\ Read(p) \in Seq(Frame) /\ Len(Read(p)) = Len(stack)
      /\ \A j \in 1 .. Len(stack) :
           Read(p)[j] = IF j = Len(stack) THEN [stack[Len(stack)] EXCEPT !.left = @ \ {p}] ELSE stack[j]
  BY <1>1, <1>3, <1>4, ExceptSeq
<1>6. DOMAIN stack = 1 .. Len(stack)
  BY LenProperties
<1> QED
  BY <1>1, <1>2, <1>5, <1>6 DEF Frame

\* A file may be added in a directory that is there.
LEMMA FileAdded ==
  ASSUME NEW fs, NEW ds, Rooted(fs, ds), NEW p \in Path \ {<<>>}, p \notin ds,
         Len(p) = 1 \/ Front(p) \in ds
  PROVE  Rooted(fs \union {p}, ds)
<1>1. Len(p) \in Nat \ {0}
  BY FrontIsPiece
<1>2. CASE Len(p) = 1
  <2>1. ~(Len(p) > 1)
    BY <1>2
  <2>2. \A q \in fs \union ds : Len(q) > 1 => Front(q) \in ds
    BY DEF Rooted
  <2>3. \A q \in (fs \union {p}) \union ds : Len(q) > 1 => Front(q) \in ds
    BY <2>1, <2>2
  <2>4. (fs \union {p}) \union ds \subseteq Path \ {<<>>} /\ (fs \union {p}) \intersect ds = {}
    BY DEF Rooted
  <2> QED
    BY <2>3, <2>4 DEF Rooted
<1>3. CASE Front(p) \in ds
  BY <1>1, <1>3 DEF Rooted
<1> QED
  BY <1>2, <1>3

\* Unpacking keeps the save directory a save directory.
LEMMA UnpackOk ==
  ASSUME Rooted(DOMAIN files, dirs), NEW e, e.path \in Path \ {<<>>}, NEW content, Unpack(e, content)
  PROVE  /\ Rooted(DOMAIN files', dirs')
         /\ dirs \subseteq dirs' /\ DOMAIN files \subseteq DOMAIN files'
         /\ DOMAIN files' \subseteq DOMAIN files \union {e.path}
         /\ \A p \in DOMAIN files : p # e.path => files'[p] = files[p]
<1>1. CASE Absolute(e.path)
  BY <1>1 DEF Unpack
<1>2. CASE ~Absolute(e.path)
  <2> DEFINE p == e.path
  <2>1. dirs' = DirsWithParent(p)
    BY <1>2 DEF Unpack
  <2>2. Rooted(DOMAIN files, dirs')
    <3>1. CASE dirs' = dirs
      BY <3>1
    <3>2. CASE dirs' = dirs \union {Front(p)} /\ Front(p) # <<>> /\ Front(p) \notin DOMAIN files
               /\ IsDir(Front(Front(p)))
      <4>1. Front(p) \in Path \ {<<>>} /\ Len(Front(p)) \in Nat
        BY <3>2, FrontIsPiece
      <4>2. Len(Front(p)) > 1 => Front(Front(p)) # <<>>
        <5>1. Len(Front(Front(p))) = Len(Front(p)) - 1
          BY <4>1, FrontIsPiece
        <5> QED
          BY <4>1, <5>1
      <4>3. Len(Front(p)) > 1 => Front(Front(p)) \in dirs
        BY <3>2, <4>2 DEF IsDir
      <4> QED
        BY <3>2, <4>1, <4>3 DEF Rooted
    <3> QED
      BY <2>1, <3>1, <3>2 DEF DirsWithParent
  <2>3. CASE CanOpen(p)
    <3>1. files' = [q \in DOMAIN files \union {p} |-> IF q = p THEN content ELSE files[q]]
      BY <1>2, <2>3 DEF Unpack
    <3>2. Rooted(DOMAIN files', dirs')
      <4>1. DOMAIN files' = DOMAIN files \union {p}
        BY <3>1
      <4>2. p \notin dirs' /\ (Len(p) = 1 \/ Front(p) \in dirs')
        BY <2>3 DEF CanOpen
      <4> QED
        BY <2>2, <4>1, <4>2, FileAdded
    <3> QED
      BY <2>1, <3>1, <3>2 DEF DirsWithParent
  <2>4. CASE ~CanOpen(p)
    BY <1>2, <2>1, <2>2, <2>4 DEF Unpack, DirsWithParent
  <2> QED
    BY <2>3, <2>4
<1> QED
  BY <1>1, <1>2

LEMMA InitType == Init => TypeOK
<1> SUFFICES ASSUME Init PROVE TypeOK
  OBVIOUS
<1>1. PICK b \in Befores : dirs = b.dirs /\ files = [p \in b.files |-> Local]
  BY DEF Init
<1>2. DOMAIN files = b.files /\ Rooted(b.files, b.dirs)
  BY <1>1, BeforesAssumption
<1>3. stack = <<>> /\ archive = <<>> /\ next = 1
  BY DEF Init
<1> QED
  BY <1>1, <1>2, <1>3, TreesAssumption DEF Init, TypeOK

\* A step of the packing keeps the stack's types.
LEMMA ReadTypes ==
  ASSUME TypeOK, Walking, NEW p
  PROVE  /\ stack \in Seq(Frame) /\ stack # <<>> /\ Read(p) \in Seq(Frame)
         /\ Here \in Frame /\ Here.dir \in tree.dirs \union {<<>>} /\ Here.left \subseteq TreePaths(tree)
         /\ Len(stack) \in Nat \ {0}
         /\ \A i \in DOMAIN Read(p) :
              /\ Read(p)[i].dir \in tree.dirs \union {<<>>}
              /\ Read(p)[i].left \subseteq TreePaths(tree)
<1>1. stack \in Seq(Frame) /\ stack # <<>>
  BY DEF TypeOK, Walking, Frame
<1>2. Len(stack) \in DOMAIN stack
  BY <1>1, ReadOk
<1>3. /\ stack[Len(stack)].dir \in tree.dirs \union {<<>>}
      /\ stack[Len(stack)].left \subseteq TreePaths(tree)
  BY <1>2 DEF TypeOK, TreePaths
<1>4. \A i \in DOMAIN stack : /\ stack[i].dir \in tree.dirs \union {<<>>}
                              /\ stack[i].left \subseteq TreePaths(tree)
  BY DEF TypeOK, TreePaths
<1>5. DOMAIN Read(p) = 1 .. Len(Read(p))
  BY <1>1, ReadOk, LenProperties
<1>6. stack[Len(stack)] \in Frame
  BY <1>1, ReadOk, ElementOfSeq
<1> QED
  BY <1>1, <1>3, <1>4, <1>5, <1>6, ReadOk DEF Here

\* Each step keeps the types.
LEMMA StepType == TypeOK /\ [Next]_vars => TypeOK'
<1> SUFFICES ASSUME TypeOK, [Next]_vars PROVE TypeOK'
  OBVIOUS
<1> USE TreesAssumption
<1>0. /\ TreePaths(tree) \subseteq Path \ {<<>>} /\ tree \in Trees /\ base \in Bases
      /\ tree.version \in Nat \ {0}
  BY TreeOk DEF TypeOK
<1>a. CASE UNCHANGED vars
  BY <1>a DEF vars, TypeOK
<1>1. CASE Prepare
  <2> DEFINE f == Opened(tree', <<>>)
  <2>1. tree' \in Trees /\ stack' = <<f>> /\ archive' = <<>> /\ next' = 1 /\ pc' = "walk"
    BY <1>1 DEF Prepare
  <2>2. <<>> \in Path
    BY DEF Path
  <2>3. f \in Frame /\ f.dir = <<>> /\ f.left \subseteq TreePaths(tree')
    BY <2>1, <2>2, OpenedOk DEF Frame
  <2> HIDE DEF f
  <2>4. /\ stack' \in Seq(Frame)
        /\ \A i \in DOMAIN stack' : stack'[i].dir = <<>> /\ stack'[i].left \subseteq TreePaths(tree')
    BY <2>1, <2>3
  <2> QED
    BY <1>1, <2>1, <2>4 DEF Prepare, TypeOK, TreePaths, Frame
<1>2. CASE AddFile
  <2>1. PICK p \in Here.left \intersect tree.files :
          /\ archive' = Append(archive,
               [path |-> base \o p, content |-> IF p \in tree.closed THEN Zeros ELSE tree.version])
          /\ stack' = Read(p)
    BY <1>2 DEF AddFile
  <2>2. p \in Path /\ base \o p \in Path \ {<<>>}
    BY <1>0, <2>1, BelowBase DEF TreePaths
  <2>3. archive' \in Seq([path : Path \ {<<>>}, content : {Zeros, tree.version}])
    BY <2>1, <2>2, AppendProperties DEF TypeOK
  <2>4. Len(archive') = Len(archive) + 1 /\ Len(archive) \in Nat
    BY <2>1, <2>2 DEF TypeOK
  <2> QED
    BY <1>2, <2>1, <2>3, <2>4, ReadTypes DEF AddFile, TypeOK, Frame, TreePaths
<1>3. CASE EnterDir
  <2>1. PICK p \in Here.left \intersect tree.dirs : stack' = Append(Read(p), Opened(tree, p))
    BY <1>3 DEF EnterDir
  <2>2. p \in Path /\ Opened(tree, p) \in Frame /\ Opened(tree, p).dir = p
        /\ Opened(tree, p).left \subseteq TreePaths(tree)
    BY <1>0, <2>1, OpenedOk DEF TreePaths, Frame
  <2>3. Read(p) \in Seq(Frame) /\ DOMAIN Read(p) = 1 .. Len(Read(p))
    BY <1>3, ReadTypes, LenProperties DEF EnterDir
  <2>4. /\ stack' \in Seq(Frame) /\ DOMAIN stack' = 1 .. Len(Read(p)) + 1
        /\ \A i \in 1 .. Len(Read(p)) : stack'[i] = Read(p)[i]
        /\ stack'[Len(Read(p)) + 1] = Opened(tree, p) /\ Len(Read(p)) \in Nat
    BY <2>1, <2>2, <2>3, AppendProperties, LenProperties
  <2>5. \A i \in DOMAIN stack' : /\ stack'[i].dir \in tree.dirs \union {<<>>}
                                 /\ stack'[i].left \subseteq TreePaths(tree)
    BY <1>3, <2>1, <2>2, <2>3, <2>4, ReadTypes DEF EnterDir
  <2> QED
    BY <1>3, <2>4, <2>5 DEF EnterDir, TypeOK, Frame, TreePaths
<1>4. CASE SkipOther
  <2>1. PICK p \in Here.left \intersect tree.others : stack' = Read(p)
    BY <1>4 DEF SkipOther
  <2> QED
    BY <1>4, <2>1, ReadTypes DEF SkipOther, TypeOK, Frame, TreePaths
<1>5. CASE LeaveDir
  <2>1. stack \in Seq(Frame) /\ Len(stack) \in Nat \ {0}
    BY <1>5, ReadTypes DEF LeaveDir
  <2>2. stack' = SubSeq(stack, 1, Len(stack) - 1)
    BY <1>5 DEF LeaveDir, Front
  <2>3. /\ stack' \in Seq(Frame) /\ DOMAIN stack' = 1 .. Len(stack) - 1
        /\ \A i \in 1 .. Len(stack) - 1 : stack'[i] = stack[i]
    BY <2>1, <2>2
  <2>4. \A i \in DOMAIN stack' : i \in DOMAIN stack
    BY <2>1, <2>3, LenProperties
  <2>5. \A i \in DOMAIN stack' : /\ stack'[i].dir \in tree.dirs \union {<<>>}
                                 /\ stack'[i].left \subseteq TreePaths(tree)
    BY <2>3, <2>4 DEF TypeOK, TreePaths
  <2> QED
    BY <1>5, <2>3, <2>5 DEF LeaveDir, TypeOK, Frame, TreePaths
<1>6. CASE Transfer
  BY <1>6 DEF Transfer, TypeOK
<1>e. ASSUME pc = "extract", next <= Len(archive)
      PROVE  /\ next \in DOMAIN archive /\ archive[next].path \in Path \ {<<>>}
             /\ next + 1 \in 1 .. Len(archive) + 1
  <2>1. archive \in Seq([path : Path \ {<<>>}, content : {Zeros, tree.version}])
    BY DEF TypeOK
  <2>2. next \in 1 .. Len(archive) /\ DOMAIN archive = 1 .. Len(archive)
    BY <1>e, <2>1, LenProperties DEF TypeOK
  <2>3. archive[next] \in [path : Path \ {<<>>}, content : {Zeros, tree.version}]
    BY ONLY <2>1, <2>2, ElementOfSeq
  <2>4. Len(archive) \in Nat
    BY ONLY <2>1, LenProperties
  <2>5. next + 1 \in 1 .. Len(archive) + 1
    BY ONLY <2>2, <2>4
  <2>6. archive[next].path \in Path \ {<<>>}
    BY ONLY <2>3
  <2> QED
    BY ONLY <2>2, <2>5, <2>6
<1>7. CASE ExtractEntry
  <2>1. Rooted(DOMAIN files', dirs')
    BY <1>7, <1>e, UnpackOk DEF ExtractEntry, TypeOK
  <2>2. next' \in 1 .. Len(archive) + 1
    BY <1>7, <1>e DEF ExtractEntry
  <2> QED
    BY <1>7, <2>1, <2>2 DEF ExtractEntry, TypeOK
<1>8. CASE ExtractEnds
  BY <1>8 DEF ExtractEnds, TypeOK
<1>9. CASE Damaged
  <2>1. Rooted(DOMAIN files', dirs')
    BY <1>9, <1>e, UnpackOk DEF Damaged, TypeOK
  <2>2. faults + 1 \in 0 .. MaxFaults
    BY <1>9 DEF Damaged, TypeOK
  <2> QED
    BY <1>9, <2>1, <2>2 DEF Damaged, TypeOK
<1> QED
  BY <1>a, <1>1, <1>2, <1>3, <1>4, <1>5, <1>6, <1>7, <1>8, <1>9 DEF Next

\* Whatever is sent and whatever the save directory holds, the variables keep their types: each
\* file and directory of the save directory has a directory above it (269-395, 996-1043).
THEOREM TypeCorrect == Spec => []TypeOK
<1>1. QED
  BY InitType, StepType, PTL DEF Spec

-----------------------------------------------------------------------------
(* Packing: every file to which an open way leads is in the archive or      *)
(* still to come, never both.                                              *)

\* The frames are the directories that lead to the last one, each of them open if anything
\* was or will be read from it; what has been entered is no longer to be read.
Sound(stk) ==
  \A k \in 1 .. Len(stk) :
    /\ Len(stk[k].dir) = k - 1
    /\ \A p \in stk[k].left : Front(p) = stk[k].dir
    /\ stk[k].left # {} \/ k < Len(stk) => stk[k].dir \notin tree.closed
    /\ \A j \in 1 .. k - 1 : /\ SubSeq(stk[k].dir, 1, j - 1) = stk[j].dir
                             /\ SubSeq(stk[k].dir, 1, j) \notin stk[j].left

\* Is q, or a directory on the way to q, still to be read?
Pending(stk, q) == \E k \in 1 .. Len(stk) : k <= Len(q) /\ SubSeq(q, 1, k) \in stk[k].left

Packed(q) == \E i \in DOMAIN archive : archive[i].path = base \o q

\* Each entry is of one file, to which an open way leads.
EntriesAreFiles ==
  \A i \in DOMAIN archive : \E q \in tree.files : Open(q) /\ archive[i].path = base \o q

EntriesDiffer == \A i, j \in DOMAIN archive : archive[i].path = archive[j].path => i = j

PackInv ==
  /\ Sound(stack) /\ EntriesAreFiles /\ EntriesDiffer
  /\ pc # "idle" => \A q \in tree.files : Open(q) => (Packed(q) <=> ~Pending(stack, q))
  /\ pc # "walk" => stack = <<>>

Leads(p, q) == Len(p) <= Len(q) /\ SubSeq(q, 1, Len(p)) = p

LEMMA LeadsOk ==
  ASSUME NEW t \in Trees, NEW p \in TreePaths(t), NEW q \in t.files, Leads(p, q)
  PROVE  p = q \/ (p \in t.dirs /\ Len(p) < Len(q))
<1>1. p \in Path \ {<<>>} /\ q \in Path \ {<<>>} /\ q \in TreePaths(t)
  BY TreeOk DEF TreePaths
<1>2. Len(p) \in Nat \ {0} /\ Len(q) \in Nat \ {0}
  BY <1>1, FrontIsPiece
<1>3. CASE Len(p) = Len(q)
  BY <1>1, <1>3, WholePiece DEF Leads
<1>4. CASE Len(p) < Len(q)
  BY <1>1, <1>2, <1>4, TreeOk DEF Leads
<1> QED
  BY <1>2, <1>3, <1>4 DEF Leads

\* What is read next lies in the directory the last frame is of.
LEMMA HereOk ==
  ASSUME TypeOK, Walking, Sound(stack), NEW p \in Here.left
  PROVE  /\ p \in Path \ {<<>>} /\ p \in TreePaths(tree) /\ Len(p) = Len(stack) /\ Open(p)
         /\ \A j \in 1 .. Len(stack) : SubSeq(p, 1, j - 1) = stack[j].dir
         /\ \A j \in 1 .. Len(stack) - 1 : SubSeq(p, 1, j) \notin stack[j].left
<1> DEFINE K == Len(stack)
<1>1. K \in Nat \ {0} /\ Here = stack[K] /\ p \in TreePaths(tree) /\ p \in Path \ {<<>>}
  BY ReadTypes, TreeOk DEF Here, TypeOK
<1>2. Front(p) = Here.dir /\ Len(Here.dir) = K - 1 /\ Here.dir \notin tree.closed
  BY <1>1 DEF Sound, Here
<1>3. Len(p) = K /\ Here.dir = SubSeq(p, 1, K - 1)
  BY <1>1, <1>2, FrontIsPiece
<1>4. \A j \in 0 .. K - 1 : SubSeq(Here.dir, 1, j) = SubSeq(p, 1, j)
  BY <1>1, <1>3, PieceOfPiece
<1>5. \A j \in 1 .. K - 1 : /\ SubSeq(Here.dir, 1, j - 1) = stack[j].dir
                            /\ SubSeq(Here.dir, 1, j) \notin stack[j].left
                            /\ stack[j].dir \notin tree.closed
  <2> TAKE j \in 1 .. K - 1
  <2>1. K \in 1 .. Len(stack) /\ j \in 1 .. Len(stack) /\ j < Len(stack)
    BY <1>1
  <2>2. stack[j].dir \notin tree.closed
    BY <2>1 DEF Sound
  <2>3. \A i \in 1 .. K - 1 : /\ SubSeq(stack[K].dir, 1, i - 1) = stack[i].dir
                              /\ SubSeq(stack[K].dir, 1, i) \notin stack[i].left
    BY <2>1 DEF Sound
  <2> QED
    BY <1>1, <2>2, <2>3
<1> HIDE DEF K
<1>6. \A j \in 1 .. K - 1 : SubSeq(p, 1, j - 1) = stack[j].dir /\ SubSeq(p, 1, j) \notin stack[j].left
  <2> TAKE j \in 1 .. K - 1
  <2>1. j \in 0 .. K - 1 /\ j - 1 \in 0 .. K - 1
    BY <1>1
  <2> QED
    BY <1>4, <1>5, <2>1
<1>7. \A j \in 1 .. K : SubSeq(p, 1, j - 1) = stack[j].dir /\ stack[j].dir \notin tree.closed
  <2>1. \A j \in 1 .. K : j \in 1 .. K - 1 \/ j = K
    BY <1>1
  <2>2. SubSeq(p, 1, K - 1) = stack[K].dir /\ stack[K].dir \notin tree.closed
    BY <1>1, <1>2, <1>3
  <2> QED
    BY <1>5, <1>6, <2>1, <2>2
<1>8. Open(p)
  <2>1. <<>> \notin tree.closed
    BY <1>1, <1>7, WholePiece
  <2>2. ASSUME NEW n \in 1 .. Len(p) - 1
        PROVE  SubSeq(p, 1, n) \notin tree.closed
    <3>1. n + 1 \in 1 .. K /\ (n + 1) - 1 = n
      BY <1>1, <1>3
    <3> QED
      BY <1>7, <3>1
  <2> QED
    BY <2>1, <2>2 DEF Open
<1> QED
  BY <1>1, <1>3, <1>6, <1>7, <1>8 DEF K

\* After p has been read, whatever p does not lead to is pending as before.
LEMMA ReadPending ==
  ASSUME TypeOK, Walking, Sound(stack), NEW p \in Here.left, NEW q \in Path
  PROVE  /\ Sound(Read(p))
         /\ Pending(Read(p), q) <=> Pending(stack, q) /\ ~Leads(p, q)
         /\ Leads(p, q) => Pending(stack, q)
<1> DEFINE K == Len(stack)
           stk == Read(p)
<1>1. /\ Len(stk) = K /\ K \in Nat \ {0} /\ Here = stack[K]
      /\ \A i \in 1 .. K : /\ stk[i].dir = stack[i].dir
                           /\ stk[i].left = IF i = K THEN stack[i].left \ {p} ELSE stack[i].left
  BY ReadTypes, ReadOk DEF Here
<1>2. p \in Path /\ Len(p) = K /\ (\A j \in 1 .. K - 1 : SubSeq(p, 1, j) \notin stack[j].left)
  BY HereOk
<1>3. Len(q) \in Nat
  BY DEF Path
<1> HIDE DEF K, stk
<1>4. Sound(stk)
  <2>1. /\ \A i \in 1 .. K : stk[i].dir = stack[i].dir /\ stk[i].left \subseteq stack[i].left
        /\ Len(stack) = K /\ Sound(stack)
    BY <1>1 DEF K
  <2> SUFFICES ASSUME NEW k \in 1 .. K
               PROVE  /\ Len(stk[k].dir) = k - 1
                      /\ \A r \in stk[k].left : Front(r) = stk[k].dir
                      /\ stk[k].left # {} \/ k < K => stk[k].dir \notin tree.closed
                      /\ \A j \in 1 .. k - 1 : /\ SubSeq(stk[k].dir, 1, j - 1) = stk[j].dir
                                               /\ SubSeq(stk[k].dir, 1, j) \notin stk[j].left
    BY <1>1 DEF Sound
  <2>2. /\ Len(stack[k].dir) = k - 1
        /\ \A r \in stack[k].left : Front(r) = stack[k].dir
        /\ stack[k].left # {} \/ k < K => stack[k].dir \notin tree.closed
        /\ \A j \in 1 .. k - 1 : /\ SubSeq(stack[k].dir, 1, j - 1) = stack[j].dir
                                 /\ SubSeq(stack[k].dir, 1, j) \notin stack[j].left
    BY <2>1 DEF Sound
  <2>3. \A j \in 1 .. k - 1 : j \in 1 .. K
    BY <1>1
  <2> QED
    BY <2>1, <2>2, <2>3
<1>5. Leads(p, q) => Pending(stack, q)
  <2> SUFFICES ASSUME Leads(p, q) PROVE Pending(stack, q)
    OBVIOUS
  <2>1. K \in 1 .. Len(stack) /\ K <= Len(q) /\ SubSeq(q, 1, K) \in stack[K].left
    <3>1. K <= Len(q) /\ SubSeq(q, 1, K) = p
      BY <1>2 DEF Leads
    <3>2. p \in stack[K].left
      BY <1>1
    <3>3. K = Len(stack)
      BY DEF K
    <3>4. K \in 1 .. Len(stack)
      BY <1>1, <3>3
    <3> QED
      BY <3>1, <3>2, <3>4
  <2> QED
    BY <2>1 DEF Pending
<1>6. ASSUME Pending(stk, q)
      PROVE  Pending(stack, q) /\ ~Leads(p, q)
  <2>1. PICK k \in 1 .. K : k <= Len(q) /\ SubSeq(q, 1, k) \in stk[k].left
    BY <1>1, <1>6 DEF Pending
  <2>2. Pending(stack, q)
    BY <1>1, <2>1 DEF Pending, K
  <2>3. ASSUME Leads(p, q) PROVE FALSE
    <3>1. K <= Len(q) /\ SubSeq(q, 1, K) = p
      BY <1>2, <2>3 DEF Leads
    <3>2. CASE k = K
      BY <1>1, <2>1, <3>1, <3>2
    <3>3. CASE k # K
      <4>1. K \in 0 .. Len(q) /\ k \in 0 .. K /\ k \in 1 .. K - 1
        BY <1>1, <1>3, <2>1, <3>1, <3>3
      <4>2. SubSeq(q, 1, k) = SubSeq(p, 1, k)
        BY <3>1, <4>1, PieceOfPiece
      <4> QED
        BY <1>1, <1>2, <2>1, <3>3, <4>1, <4>2
    <3> QED
      BY <3>2, <3>3
  <2> QED
    BY <2>2, <2>3
<1>7. ASSUME Pending(stack, q), ~Leads(p, q)
      PROVE  Pending(stk, q)
  <2>1. PICK k \in 1 .. K : k <= Len(q) /\ SubSeq(q, 1, k) \in stack[k].left
    BY <1>7 DEF Pending, K
  <2>2. k = K => SubSeq(q, 1, k) # p
    BY <1>2, <1>7, <2>1 DEF Leads
  <2> QED
    BY <1>1, <2>1, <2>2 DEF Pending
<1> QED
  BY <1>4, <1>5, <1>6, <1>7 DEF stk

\* Entering a directory neither adds nor loses anything that is pending.
LEMMA EnterPending ==
  ASSUME TypeOK, Walking, Sound(stack), NEW p \in Here.left, p \in tree.dirs
  PROVE  /\ Sound(Append(Read(p), Opened(tree, p)))
         /\ \A q \in tree.files : Open(q) =>
              (Pending(Append(Read(p), Opened(tree, p)), q) <=> Pending(stack, q))
<1> DEFINE K == Len(stack)
           new == Opened(tree, p)
           stk == Append(Read(p), new)
<1>0. tree \in Trees /\ p \in Path \ {<<>>} /\ Len(p) = K /\ K \in Nat \ {0}
  BY HereOk, ReadTypes DEF TypeOK
<1>1. /\ new \in Frame /\ new.dir = p /\ \A q \in new.left : Front(q) = p /\ p \notin tree.closed
  BY <1>0, OpenedOk DEF Frame
<1>2. Read(p) \in Seq(Frame) /\ Len(Read(p)) = K
  BY ReadTypes, ReadOk
<1>3. /\ Len(stk) = K + 1 /\ stk[K + 1] = new
      /\ \A i \in 1 .. K : stk[i] = Read(p)[i]
  BY <1>1, <1>2, AppendProperties
<1>4. Sound(Read(p))
  <2>1. PICK q : q \in Path
    BY <1>0
  <2> QED
    BY <2>1, ReadPending
<1>5. /\ \A j \in 1 .. K : SubSeq(p, 1, j - 1) = stack[j].dir /\ Read(p)[j].dir = stack[j].dir
      /\ \A j \in 1 .. K - 1 : SubSeq(p, 1, j) \notin Read(p)[j].left
      /\ SubSeq(p, 1, K) = p /\ p \notin Read(p)[K].left
      /\ stack[K].dir \notin tree.closed
  <2>1. /\ \A j \in 1 .. K : SubSeq(p, 1, j - 1) = stack[j].dir
        /\ \A j \in 1 .. K - 1 : SubSeq(p, 1, j) \notin stack[j].left
    BY HereOk
  <2>2. \A i \in 1 .. K : /\ Read(p)[i].dir = stack[i].dir
                          /\ Read(p)[i].left = IF i = K THEN stack[i].left \ {p} ELSE stack[i].left
    BY ReadTypes, ReadOk
  <2>3. stack[K].dir \notin tree.closed
    BY <1>0 DEF Sound, Here
  <2>4. SubSeq(p, 1, K) = p
    BY <1>0, WholePiece
  <2>5. K \in 1 .. K /\ \A j \in 1 .. K - 1 : j \in 1 .. K /\ j # K
    BY <1>0
  <2> HIDE DEF K
  <2>6. p \notin Read(p)[K].left
    BY <2>2, <2>5
  <2>7. \A j \in 1 .. K - 1 : SubSeq(p, 1, j) \notin Read(p)[j].left
    BY <2>1, <2>2, <2>5
  <2> QED
    BY <2>1, <2>2, <2>3, <2>4, <2>6, <2>7
<1> HIDE DEF K, new, stk
<1>6. Sound(stk)
  <2>1. ASSUME NEW k \in 1 .. K
        PROVE  /\ Len(stk[k].dir) = k - 1
               /\ \A q \in stk[k].left : Front(q) = stk[k].dir
               /\ \A j \in 1 .. k - 1 : /\ SubSeq(stk[k].dir, 1, j - 1) = stk[j].dir
                                        /\ SubSeq(stk[k].dir, 1, j) \notin stk[j].left
    <3>1. \A j \in 1 .. k - 1 : stk[j] = Read(p)[j]
      BY <1>0, <1>3
    <3>2. /\ Len(Read(p)[k].dir) = k - 1
          /\ \A q \in Read(p)[k].left : Front(q) = Read(p)[k].dir
          /\ \A j \in 1 .. k - 1 : /\ SubSeq(Read(p)[k].dir, 1, j - 1) = Read(p)[j].dir
                                   /\ SubSeq(Read(p)[k].dir, 1, j) \notin Read(p)[j].left
      BY <1>2, <1>4 DEF Sound
    <3> QED
      BY <1>3, <3>1, <3>2
  <2>2. ASSUME NEW k \in 1 .. K
        PROVE  stk[k].dir \notin tree.closed
    <3>1. CASE k = K
      BY <1>3, <1>5, <3>1
    <3>2. CASE k # K
      <4>1. k < K
        BY <1>0, <3>2
      <4> QED
        BY <1>2, <1>3, <1>4, <4>1 DEF Sound
    <3> QED
      BY <3>1, <3>2
  <2>3. /\ Len(stk[K + 1].dir) = (K + 1) - 1
        /\ \A q \in stk[K + 1].left : Front(q) = stk[K + 1].dir
        /\ stk[K + 1].left # {} => stk[K + 1].dir \notin tree.closed
    BY <1>0, <1>1, <1>3
  <2>4. ASSUME NEW j \in 1 .. K
        PROVE  /\ SubSeq(stk[K + 1].dir, 1, j - 1) = stk[j].dir
               /\ SubSeq(stk[K + 1].dir, 1, j) \notin stk[j].left
    <3>1. stk[j] = Read(p)[j] /\ stk[K + 1].dir = p
      BY <1>1, <1>3
    <3>2. j = K \/ j \in 1 .. K - 1
      BY <1>0
    <3> QED
      BY <1>5, <3>1, <3>2
  <2>5. \A k \in 1 .. K + 1 : k \in 1 .. K \/ k = K + 1
    BY <1>0
  <2>6. (K + 1) - 1 = K /\ ~(K + 1 < K + 1)
    BY <1>0
  <2> QED
    BY <1>3, <2>1, <2>2, <2>3, <2>4, <2>5, <2>6 DEF Sound
<1>7. ASSUME NEW q \in tree.files, Open(q)
      PROVE  Pending(stk, q) <=> Pending(stack, q)
  <2>1. q \in Path \ {<<>>} /\ Len(q) \in Nat \ {0} /\ q \in TreePaths(tree)
    BY <1>0, TreeOk, FrontIsPiece DEF TreePaths
  <2>2. Pending(stk, q) <=>
          Pending(Read(p), q) \/ (K + 1 <= Len(q) /\ SubSeq(q, 1, K + 1) \in new.left)
    <3>1. \A k \in 1 .. K + 1 : k \in 1 .. K \/ k = K + 1
      BY <1>0
    <3>2. K + 1 \in 1 .. K + 1 /\ \A k \in 1 .. K : k \in 1 .. K + 1
      BY <1>0
    <3> QED
      BY <1>2, <1>3, <3>1, <3>2 DEF Pending
  <2>3. ASSUME K + 1 <= Len(q)
        PROVE  /\ Front(SubSeq(q, 1, K + 1)) = SubSeq(q, 1, K)
               /\ SubSeq(q, 1, K + 1) \in TreePaths(tree)
    <3> DEFINE r == SubSeq(q, 1, K + 1)
    <3>1. K + 1 \in 0 .. Len(q) /\ K \in 0 .. K + 1
      BY <1>0, <2>1, <2>3
    <3>2. r \in Path /\ Len(r) = K + 1
      BY <2>1, <3>1, Piece
    <3>3. SubSeq(r, 1, K) = SubSeq(q, 1, K)
      BY <2>1, <3>1, PieceOfPiece
    <3>4. r \in TreePaths(tree)
      <4>1. CASE K + 1 = Len(q)
        BY <2>1, <4>1, WholePiece
      <4>2. CASE K + 1 < Len(q)
        BY <1>0, <2>1, <4>2, TreeOk DEF TreePaths
      <4> QED
        BY <1>0, <2>1, <2>3, <4>1, <4>2
    <3> HIDE DEF r
    <3>5. Front(r) = SubSeq(r, 1, K)
      BY <1>0, <3>2 DEF Front
    <3> QED
      BY <3>3, <3>4, <3>5 DEF r
  <2>4. ASSUME K + 1 <= Len(q), SubSeq(q, 1, K + 1) \in new.left
        PROVE  Leads(p, q)
    BY <1>0, <1>1, <2>1, <2>3, <2>4 DEF Leads
  <2>5. ASSUME Leads(p, q)
        PROVE  K + 1 <= Len(q) /\ SubSeq(q, 1, K + 1) \in new.left
    <3>1. K < Len(q) /\ SubSeq(q, 1, K) = p
      BY <1>0, <2>1, <2>5, LeadsOk, TreeOk DEF TreePaths, Leads
    <3>2. K \in 1 .. Len(q) - 1 /\ K + 1 <= Len(q)
      BY <1>0, <2>1, <3>1
    <3>3. p \notin tree.closed
      BY <1>7, <3>1, <3>2 DEF Open
    <3> QED
      BY <2>3, <3>1, <3>2, <3>3 DEF new, Opened, Children, TreePaths
  <2>6. /\ Pending(Read(p), q) <=> Pending(stack, q) /\ ~Leads(p, q)
        /\ Leads(p, q) => Pending(stack, q)
    BY <2>1, ReadPending
  <2> QED
    BY <2>2, <2>4, <2>5, <2>6
<1> QED
  BY <1>6, <1>7 DEF stk, new

\* Leaving a directory of which nothing is left loses nothing.
LEMMA LeavePending ==
  ASSUME TypeOK, Walking, Sound(stack), Here.left = {}
  PROVE  /\ Sound(Front(stack))
         /\ \A q \in tree.files : Pending(Front(stack), q) <=> Pending(stack, q)
<1> DEFINE K == Len(stack)
           stk == Front(stack)
<1>1. K \in Nat \ {0} /\ stack \in Seq(Frame) /\ Here = stack[K]
  BY ReadTypes DEF Here
<1>2. Len(stk) = K - 1 /\ \A k \in 1 .. K - 1 : stk[k] = stack[k]
  <2>1. stk = SubSeq(stack, 1, K - 1)
    BY DEF Front
  <2> HIDE DEF stk
  <2>2. \A i \in 1 .. K - 1 : stack[i] \in Frame
    BY <1>1, ElementOfSeq
  <2> HIDE DEF K
  <2>3. K - 1 \in Int /\ K - 1 = (IF 1 <= K - 1 THEN (K - 1) - 1 + 1 ELSE 0)
        /\ (K - 1) - 1 + 1 = K - 1 /\ \A i \in 1 .. K - 1 : 1 + i - 1 = i
    BY <1>1
  <2> QED
    BY <2>1, <2>2, <2>3, SubSeqProperties
<1> HIDE DEF stk
<1>3. Sound(stk)
  <2> SUFFICES ASSUME NEW k \in 1 .. K - 1
               PROVE  /\ Len(stk[k].dir) = k - 1
                      /\ \A r \in stk[k].left : Front(r) = stk[k].dir
                      /\ stk[k].dir \notin tree.closed
                      /\ \A j \in 1 .. k - 1 : /\ SubSeq(stk[k].dir, 1, j - 1) = stk[j].dir
                                               /\ SubSeq(stk[k].dir, 1, j) \notin stk[j].left
    BY <1>2 DEF Sound
  <2>1. k \in 1 .. Len(stack) /\ k < Len(stack) /\ \A j \in 1 .. k - 1 : j \in 1 .. K - 1
    BY <1>1
  <2>2. /\ Len(stack[k].dir) = k - 1
        /\ \A r \in stack[k].left : Front(r) = stack[k].dir
        /\ stack[k].dir \notin tree.closed
        /\ \A j \in 1 .. k - 1 : /\ SubSeq(stack[k].dir, 1, j - 1) = stack[j].dir
                                 /\ SubSeq(stack[k].dir, 1, j) \notin stack[j].left
    BY <2>1 DEF Sound
  <2> QED
    BY <1>2, <2>1, <2>2
<1>4. ASSUME NEW q \in tree.files
      PROVE  Pending(stk, q) <=> Pending(stack, q)
  <2>1. \A k \in 1 .. K : k \in 1 .. K - 1 \/ k = K
    BY <1>1
  <2>2. \A k \in 1 .. K - 1 : k \in 1 .. K
    BY <1>1
  <2> QED
    BY <1>1, <1>2, <2>1, <2>2 DEF Pending
<1> QED
  BY <1>3, <1>4 DEF stk

LEMMA InitPack == Init => PackInv
<1> SUFFICES ASSUME Init PROVE PackInv
  OBVIOUS
<1>1. stack = <<>> /\ archive = <<>> /\ pc = "idle" /\ Len(stack) = 0 /\ DOMAIN archive = {}
  BY DEF Init
<1> QED
  BY <1>1 DEF PackInv, Sound, EntriesAreFiles, EntriesDiffer

\* Each step keeps the invariant.
LEMMA StepPack == TypeOK /\ TypeOK' /\ PackInv /\ [Next]_vars => PackInv'
<1> SUFFICES ASSUME TypeOK, TypeOK', PackInv, [Next]_vars PROVE PackInv'
  OBVIOUS
<1>0. tree \in Trees /\ tree' \in Trees /\ base \in Bases /\ Sound(stack)
  BY DEF TypeOK, PackInv
<1>k. ASSUME UNCHANGED <<tree, base, stack, archive>>, pc' = pc \/ pc' \in {"extract", "done"},
             pc # "idle", pc' # "walk" => stack = <<>>
      PROVE  PackInv'
  <2>1. Sound(stack)' /\ EntriesAreFiles' /\ EntriesDiffer'
    BY <1>k DEF PackInv, Sound, EntriesAreFiles, EntriesDiffer, Open
  <2>2. \A q : /\ Pending(stack, q)' <=> Pending(stack, q)
               /\ Packed(q)' <=> Packed(q)
               /\ Open(q)' <=> Open(q)
    <3>1. \A q : Pending(stack, q)' <=> Pending(stack, q)
      BY <1>k DEF Pending
    <3>2. \A q : Packed(q)' <=> Packed(q)
      BY <1>k DEF Packed
    <3>3. \A q : Open(q)' <=> Open(q)
      BY <1>k DEF Open
    <3> QED
      BY <3>1, <3>2, <3>3
  <2>3. pc' # "walk" => stack' = <<>>
    BY <1>k
  <2>4. \A q \in tree.files : Open(q) => (Packed(q) <=> ~Pending(stack, q))
    BY <1>k DEF PackInv
  <2>5. \A q \in tree'.files : Open(q)' => (Packed(q)' <=> ~Pending(stack, q)')
    BY <1>k, <2>2, <2>4
  <2> QED
    BY <2>1, <2>3, <2>5 DEF PackInv
<1>a. CASE UNCHANGED vars
  <2>1. CASE pc = "idle"
    BY <1>a, <2>1 DEF vars, PackInv, Sound, EntriesAreFiles, EntriesDiffer, Open
  <2>2. CASE pc # "idle"
    BY <1>a, <1>k, <2>2 DEF vars, PackInv
  <2> QED
    BY <2>1, <2>2
<1>1. CASE Prepare
  <2> DEFINE f == Opened(tree', <<>>)
  <2>1. /\ stack' = <<f>> /\ archive' = <<>> /\ pc' = "walk"
        /\ Len(stack') = 1 /\ stack'[1] = f /\ DOMAIN archive' = {}
    BY <1>1 DEF Prepare
  <2>2. <<>> \in Path /\ Len(<<>>) = 0
    BY DEF Path
  <2>3. f.dir = <<>> /\ \A p \in f.left : Front(p) = <<>> /\ <<>> \notin tree'.closed
    BY <1>0, <2>2, OpenedOk
  <2> HIDE DEF f
  <2>4. Sound(stack)'
    BY <2>1, <2>2, <2>3 DEF Sound
  <2>5. ASSUME NEW q \in tree'.files, Open(q)'
        PROVE  Pending(stack', q)
    <3>1. q \in TreePaths(tree') /\ q \in Path \ {<<>>} /\ Len(q) \in Nat \ {0}
      BY <1>0, TreeOk, FrontIsPiece DEF TreePaths
    <3> DEFINE r == SubSeq(q, 1, 1)
    <3>2. r \in TreePaths(tree')
      <4>1. CASE Len(q) = 1
        BY <3>1, <4>1, WholePiece
      <4>2. CASE 1 < Len(q)
        BY <1>0, <3>1, <4>2, TreeOk DEF TreePaths
      <4>3. Len(q) = 1 \/ 1 < Len(q)
        <5>1. \A n \in Nat \ {0} : n = 1 \/ 1 < n
          OBVIOUS
        <5> QED
          BY <3>1, <5>1
      <4> QED
        BY <4>1, <4>2, <4>3
    <3>3. Front(r) = <<>>
      <4>1. 1 \in 0 .. Len(q)
        BY <3>1
      <4>2. r \in Path /\ Len(r) = 1
        BY <3>1, <4>1, Piece
      <4> HIDE DEF r
      <4> QED
        BY <4>2, WholePiece DEF Front
    <3>4. <<>> \notin tree'.closed
      BY <2>5 DEF Open
    <3>5. r \in f.left
      BY <3>2, <3>3, <3>4 DEF f, Opened, Children, TreePaths
    <3> QED
      BY <2>1, <3>1, <3>5 DEF Pending
  <2>6. \A q : ~Packed(q)'
    BY <2>1 DEF Packed
  <2> QED
    BY <2>1, <2>4, <2>5, <2>6 DEF PackInv, EntriesAreFiles, EntriesDiffer
<1>2. CASE AddFile
  <2>1. PICK p \in Here.left \intersect tree.files :
          /\ archive' = Append(archive,
               [path |-> base \o p, content |-> IF p \in tree.closed THEN Zeros ELSE tree.version])
          /\ stack' = Read(p)
    BY <1>2 DEF AddFile
  <2>2. Walking /\ UNCHANGED <<pc, tree, base>> /\ pc = "walk"
    BY <1>2 DEF AddFile, Walking
  <2>3. p \in Path /\ p \in TreePaths(tree) /\ Open(p) /\ \A q \in tree.files : q \in Path
    BY <1>0, <2>1, <2>2, HereOk, TreeOk DEF TreePaths
  <2>4. archive \in Seq([path : Path \ {<<>>}, content : {Zeros, tree.version}])
    BY DEF TypeOK
  <2>5. /\ DOMAIN archive' = 1 .. Len(archive) + 1 /\ DOMAIN archive = 1 .. Len(archive)
        /\ Len(archive) \in Nat
        /\ \A i \in 1 .. Len(archive) : archive'[i] = archive[i]
        /\ archive'[Len(archive) + 1].path = base \o p
    <3> DEFINE e == [path |-> base \o p,
                     content |-> IF p \in tree.closed THEN Zeros ELSE tree.version]
    <3>1. e \in [path : Path \ {<<>>}, content : {Zeros, tree.version}] /\ e.path = base \o p
      BY <1>0, <2>3, BelowBase
    <3> HIDE DEF e
    <3>2. archive' = Append(archive, e)
      BY <2>1 DEF e
    <3> QED
      BY <2>4, <3>1, <3>2, AppendProperties, LenProperties
  <2>6. /\ \A i \in DOMAIN archive' : i \in DOMAIN archive \/ i = Len(archive) + 1
        /\ \A i \in DOMAIN archive : i \in DOMAIN archive' /\ i # Len(archive) + 1
        /\ Len(archive) + 1 \in DOMAIN archive'
    BY <2>5
  <2>7. \A q \in tree.files : base \o q = base \o p => q = p
    BY <1>0, <2>3, BelowBase
  <2>8. \A q \in tree.files : Packed(q)' <=> Packed(q) \/ q = p
    BY <2>2, <2>5, <2>6, <2>7 DEF Packed
  <2>9. \A q \in tree.files : Leads(p, q) <=> q = p
    <3>1. \A q \in tree.files : Leads(p, q) => q = p
      BY <1>0, <2>1, <2>3, LeadsOk, TreeOk
    <3>2. Leads(p, p)
      BY <2>3, WholePiece DEF Leads, Path
    <3> QED
      BY <3>1, <3>2
  <2>10. /\ Sound(Read(p))
         /\ \A q \in tree.files : /\ Pending(Read(p), q) <=> Pending(stack, q) /\ ~Leads(p, q)
                                  /\ Leads(p, q) => Pending(stack, q)
    BY <1>0, <2>1, <2>2, <2>3, ReadPending
  <2>11. \A q \in tree.files : Open(q) => (Packed(q) <=> ~Pending(stack, q))
    BY <2>2 DEF PackInv
  <2>12. ~Packed(p)
    BY <2>1, <2>3, <2>9, <2>10, <2>11
  <2>13. Sound(stack)' /\ \A q : Pending(stack, q)' <=> Pending(Read(p), q)
    BY <2>1, <2>2, <2>10 DEF Sound, Pending
  <2>14. \A q : Open(q)' <=> Open(q)
    BY <2>2 DEF Open
  <2>15. EntriesAreFiles'
    BY <2>1, <2>2, <2>3, <2>5, <2>6, <2>14 DEF PackInv, EntriesAreFiles
  <2>16. EntriesDiffer'
    BY <2>5, <2>6, <2>12 DEF PackInv, EntriesDiffer, Packed
  <2> QED
    BY <2>2, <2>8, <2>9, <2>10, <2>11, <2>13, <2>14, <2>15, <2>16 DEF PackInv
<1>s. ASSUME UNCHANGED <<pc, tree, base, archive>>, pc = "walk", Sound(stack'),
             \A q \in tree.files : Open(q) => (Pending(stack', q) <=> Pending(stack, q))
      PROVE  PackInv'
  <2>1. Sound(stack)' /\ \A q : Pending(stack, q)' <=> Pending(stack', q)
    BY <1>s DEF Sound, Pending
  <2>2. \A q : (Open(q)' <=> Open(q)) /\ (Packed(q)' <=> Packed(q))
    BY <1>s DEF Open, Packed
  <2> QED
    BY <1>s, <2>1, <2>2 DEF PackInv, EntriesAreFiles, EntriesDiffer
<1>3. CASE EnterDir
  <2>1. PICK p \in Here.left \intersect tree.dirs : stack' = Append(Read(p), Opened(tree, p))
    BY <1>3 DEF EnterDir
  <2> QED
    BY <1>0, <1>3, <1>s, <2>1, EnterPending DEF EnterDir, Walking
<1>4. CASE SkipOther
  <2>1. PICK p \in Here.left \intersect tree.others : stack' = Read(p)
    BY <1>4 DEF SkipOther
  <2>2. Walking /\ p \in TreePaths(tree) /\ \A q \in tree.files : q \in Path
    BY <1>0, <1>4, <2>1, TreeOk DEF SkipOther, TreePaths
  <2>3. \A q \in tree.files : ~Leads(p, q)
    BY <1>0, <2>1, <2>2, LeadsOk, TreeOk
  <2>4. Sound(Read(p)) /\ \A q \in tree.files : Pending(Read(p), q) <=> Pending(stack, q)
    <3>1. Sound(Read(p))
      <4>1. p \in Path
        BY <1>0, <2>2, TreeOk
      <4> QED
        BY <1>0, <2>1, <2>2, <4>1, ReadPending
    <3>2. \A q \in tree.files : Pending(Read(p), q) <=> Pending(stack, q)
      BY <1>0, <2>1, <2>2, <2>3, ReadPending
    <3> QED
      BY <3>1, <3>2
  <2> QED
    BY <1>4, <1>s, <2>1, <2>4 DEF SkipOther, Walking
<1>5. CASE LeaveDir
  BY <1>0, <1>5, <1>s, LeavePending DEF LeaveDir, Walking
<1>6. CASE Transfer
  BY <1>6, <1>k DEF Transfer
<1>7. CASE ExtractEntry
  BY <1>7, <1>k DEF ExtractEntry, PackInv
<1>8. CASE ExtractEnds
  BY <1>8, <1>k DEF ExtractEnds, PackInv
<1>9. CASE Damaged
  BY <1>9, <1>k DEF Damaged, PackInv
<1> QED
  BY <1>a, <1>1, <1>2, <1>3, <1>4, <1>5, <1>6, <1>7, <1>8, <1>9 DEF Next

LEMMA PackedIsInv == PackInv => PackedOnce
<1> SUFFICES ASSUME PackInv, pc \in {"extract", "done"}
             PROVE  /\ {archive[i].path : i \in DOMAIN archive}
                       = {base \o p : p \in {q \in tree.files : Open(q)}}
                    /\ EntriesDiffer
  BY DEF PackedOnce, EntriesDiffer
<1>1. Len(stack) = 0 /\ \A q : ~Pending(stack, q)
  BY DEF PackInv, Pending
<1>2. \A q \in tree.files : Open(q) => Packed(q)
  BY <1>1 DEF PackInv
<1> QED
  BY <1>2 DEF PackInv, Packed, EntriesAreFiles

\* In whatever order the directories are read, the archive that is sent has each regular file to
\* which an open way leads exactly once, under its own path, for any directory (289-315).
THEOREM EachPackedOnce == Spec => []PackedOnce
<1>1. TypeOK /\ PackInv /\ [Next]_vars => TypeOK' /\ PackInv'
  BY StepType, StepPack
<1>2. QED
  BY <1>1, InitType, InitPack, PackedIsInv, PTL DEF Spec

-----------------------------------------------------------------------------
(* Unpacking.                                                              *)

\* The entry that is unpacked next.
LEMMA NextEntry ==
  ASSUME TypeOK, next <= Len(archive)
  PROVE  /\ next \in 1 .. Len(archive) /\ DOMAIN archive = 1 .. Len(archive) /\ Len(archive) \in Nat
         /\ archive[next].path \in Path \ {<<>>} /\ Rooted(DOMAIN files, dirs)
<1>1. archive \in Seq([path : Path \ {<<>>}, content : {Zeros, tree.version}])
  BY DEF TypeOK
<1>2. next \in 1 .. Len(archive) /\ DOMAIN archive = 1 .. Len(archive) /\ Len(archive) \in Nat
  BY <1>1, LenProperties DEF TypeOK
<1>3. archive[next] \in [path : Path \ {<<>>}, content : {Zeros, tree.version}]
  BY <1>1, <1>2, ElementOfSeq
<1> QED
  BY <1>2, <1>3 DEF TypeOK

\* A step removes no file of the save directory, and changes none but those of the directory sent.
Untouched ==
  \A p \in DOMAIN files :
    /\ p \in DOMAIN files'
    /\ files'[p] # files[p] => \E q \in tree.files : p = base \o q

LEMMA StepUntouched ==
  ASSUME TypeOK, PackInv, [Next]_vars
  PROVE  Untouched
<1>1. CASE UNCHANGED files
  BY <1>1 DEF Untouched
<1>2. ASSUME next <= Len(archive), NEW content, Unpack(archive[next], content)
      PROVE  Untouched
  <2>1. /\ DOMAIN files \subseteq DOMAIN files'
        /\ \A p \in DOMAIN files : p # archive[next].path => files'[p] = files[p]
    BY <1>2, NextEntry, UnpackOk
  <2>2. \E q \in tree.files : archive[next].path = base \o q
    BY <1>2, NextEntry DEF PackInv, EntriesAreFiles
  <2> QED
    BY <2>1, <2>2 DEF Untouched
<1>3. CASE ExtractEntry
  BY <1>2, <1>3 DEF ExtractEntry
<1>4. CASE Damaged
  BY <1>1, <1>2, <1>4 DEF Damaged
<1>5. \/ UNCHANGED files \/ ExtractEntry \/ Damaged
  BY DEF Next, vars, Prepare, AddFile, EnterDir, SkipOther, LeaveDir, Transfer, ExtractEnds
<1> QED
  BY <1>1, <1>3, <1>4, <1>5

\* Whatever is sent, and whatever the save directory holds: unpacking removes no file of the
\* receiver's and changes none but those of the directory sent (382-389).
THEOREM OthersAreUntouched == Spec => OthersUntouched
<1>1. TypeOK /\ PackInv /\ [Next]_vars => TypeOK' /\ PackInv'
  BY StepType, StepPack
<1>2. TypeOK /\ PackInv /\ [Next]_vars =>
        [\A p \in DOMAIN files :
           /\ p \in DOMAIN files'
           /\ files'[p] # files[p] => \E q \in tree.files : p = base \o q]_vars
  BY StepUntouched DEF Untouched
<1>3. QED
  BY <1>1, <1>2, InitType, InitPack, PTL DEF Spec, OthersUntouched

\* A file of the directory sent is not the directory of another one.
LEMMA EntryNotAbove ==
  ASSUME TypeOK, PackInv, NEW i \in DOMAIN archive, NEW j \in DOMAIN archive
  PROVE  archive[i].path # Front(archive[j].path)
<1>1. PICK q \in tree.files : archive[i].path = base \o q
  BY DEF PackInv, EntriesAreFiles
<1>2. PICK r \in tree.files : archive[j].path = base \o r
  BY DEF PackInv, EntriesAreFiles
<1>3. tree \in Trees /\ base \in Bases
  BY DEF TypeOK
<1>4. q \in Path \ {<<>>} /\ r \in Path \ {<<>>} /\ r \in TreePaths(tree)
  BY <1>3, TreeOk DEF TreePaths
<1>5. Len(q) \in Nat \ {0} /\ Len(r) \in Nat \ {0}
  BY <1>4, FrontIsPiece
<1>6. base \in Path /\ Len(base) = 1
  <2>1. PICK m \in Name \union {Slash} : base = <<m>>
    BY <1>3, BasesAssumption
  <2>2. <<m>> \in Seq(Name \union {Slash}) /\ Len(<<m>>) = 1
    OBVIOUS
  <2> QED
    BY <2>1, <2>2 DEF Path
<1> DEFINE bq == base \o q
           br == base \o r
<1>7. /\ Len(bq) = 1 + Len(q) /\ \A k \in 1 .. Len(q) : bq[1 + k] = q[k]
      /\ Len(br) = 1 + Len(r) /\ \A k \in 1 .. Len(r) : br[1 + k] = r[k]
  <2>1. ASSUME NEW w \in Path, Len(w) \in Nat \ {0}
        PROVE  Len(base \o w) = 1 + Len(w) /\ \A k \in 1 .. Len(w) : (base \o w)[1 + k] = w[k]
    <3>1. /\ Len(base \o w) = Len(base) + Len(w)
          /\ \A m \in 1 .. Len(base) + Len(w) :
               (base \o w)[m] = IF m <= Len(base) THEN base[m] ELSE w[m - Len(base)]
      BY <1>6, <2>1, ConcatProperties DEF Path
    <3>2. ASSUME NEW k \in 1 .. Len(w)
          PROVE  (base \o w)[1 + k] = w[k]
      <4>1. 1 + k \in 1 .. Len(base) + Len(w) /\ ~(1 + k <= Len(base)) /\ (1 + k) - Len(base) = k
        BY <1>6, <2>1
      <4>2. (base \o w)[1 + k] = w[(1 + k) - Len(base)]
        BY <3>1, <4>1
      <4> QED
        BY <4>1, <4>2
    <3> QED
      BY <1>6, <3>1, <3>2
  <2> QED
    BY <1>4, <1>5, <2>1
<1>8. br \in Path /\ br # <<>>
  BY <1>3, <1>4, BelowBase
<1> HIDE DEF bq, br
<1>9. ASSUME bq = Front(br)
      PROVE  FALSE
  <2>1. Front(br) = SubSeq(br, 1, Len(r)) /\ Len(r) \in 0 .. Len(br)
    <3>1. Front(br) = SubSeq(br, 1, Len(br) - 1)
      BY <1>8, FrontIsPiece
    <3>2. Len(br) - 1 = Len(r) /\ Len(r) \in 0 .. Len(br)
      BY <1>5, <1>7
    <3> QED
      BY <3>1, <3>2
  <2>2. Len(SubSeq(br, 1, Len(r))) = Len(r) /\ \A k \in 1 .. Len(r) : SubSeq(br, 1, Len(r))[k] = br[k]
    BY <1>8, <2>1, Piece
  <2>3. Len(r) = 1 + Len(q)
    BY <1>7, <1>9, <2>1, <2>2
  <2>4. ASSUME NEW k \in 1 .. Len(q)
        PROVE  q[k] = r[k]
    <3>1. 1 + k \in 1 .. Len(r) /\ k \in 1 .. Len(r)
      BY <1>5, <2>3
    <3>2. bq[1 + k] = br[1 + k]
      BY <1>9, <2>1, <2>2, <3>1
    <3> QED
      BY <1>7, <3>1, <3>2
  <2>5. q = SubSeq(r, 1, Len(q))
    <3>1. Len(q) \in 0 .. Len(r)
      BY <1>5, <2>3
    <3>2. /\ SubSeq(r, 1, Len(q)) \in Path /\ Len(SubSeq(r, 1, Len(q))) = Len(q)
          /\ \A k \in 1 .. Len(q) : SubSeq(r, 1, Len(q))[k] = r[k]
      BY <1>4, <3>1, Piece
    <3> QED
      BY <1>4, <2>4, <3>2, SeqEqual DEF Path
  <2>6. Len(q) < Len(r)
    BY <1>5, <2>3
  <2>7. q \in tree.dirs
    BY <1>3, <1>4, <1>5, <2>5, <2>6, TreeOk
  <2> QED
    BY <1>3, <2>7, TreeOk
<1> QED
  BY <1>1, <1>2, <1>9 DEF bq, br

\* Why entry i is not in the save directory, if it is not.
Explained(i) ==
  LET p     == archive[i].path
      above == Front(Front(p))
  IN  \/ Arrived(i) \/ Absolute(p)
      \/ p \in before.dirs \/ Front(p) \in before.files
      \/ /\ Len(p) > 2 /\ above \notin before.dirs
         /\ \A j \in 1 .. i - 1 : Arrived(j) => Front(archive[j].path) # above

\* What was there is still there; what is new has come out of the archive.
Grew ==
  /\ before.dirs \subseteq dirs
  /\ \A d \in dirs \ before.dirs : \E j \in DOMAIN archive : d = Front(archive[j].path)
  /\ \A p \in DOMAIN files \ before.files : \E j \in DOMAIN archive : p = archive[j].path

LostInv ==
  /\ pc \in {"idle", "walk"} => next = 1
  /\ pc = "done" /\ intact => next = Len(archive) + 1
  /\ pc \in {"extract", "done"} => Grew
  /\ \A i \in 1 .. next - 1 : Explained(i)

\* What can keep a file from being unpacked.
LEMMA UnpackReason ==
  ASSUME Rooted(DOMAIN files, dirs), NEW e, e.path \in Path \ {<<>>}, NEW content, Unpack(e, content)
  PROVE  \/ e.path \in DOMAIN files' /\ files'[e.path] = content
         \/ Absolute(e.path) \/ e.path \in dirs'
         \/ Len(e.path) > 1 /\ Front(e.path) \in DOMAIN files
         \/ Len(e.path) > 2 /\ Front(Front(e.path)) \notin dirs' /\ Front(Front(e.path)) # <<>>
<1> SUFFICES ASSUME ~Absolute(e.path), e.path \notin dirs',
                    ~(Len(e.path) > 1 /\ Front(e.path) \in DOMAIN files)
             PROVE  \/ e.path \in DOMAIN files' /\ files'[e.path] = content
                    \/ Len(e.path) > 2 /\ Front(Front(e.path)) \notin dirs' /\ Front(Front(e.path)) # <<>>
  OBVIOUS
<1>1. dirs' = DirsWithParent(e.path)
  BY DEF Unpack
<1>2. CASE CanOpen(e.path)
  BY <1>2 DEF Unpack
<1>3. CASE ~CanOpen(e.path)
  <2>1. Len(e.path) # 1 /\ Front(e.path) \notin dirs' /\ Len(e.path) \in Nat \ {0}
    BY <1>3, FrontIsPiece DEF CanOpen
  <2>2. Front(e.path) \in Path /\ Len(Front(e.path)) = Len(e.path) - 1 /\ Len(e.path) > 1
    BY <2>1, FrontIsPiece, OneOrMore
  <2>3. Front(e.path) # <<>>
    BY <2>1, <2>2
  <2>4. dirs' = dirs /\ ~IsDir(Front(Front(e.path)))
    BY <1>1, <2>1, <2>2, <2>3 DEF DirsWithParent
  <2>5. Front(Front(e.path)) # <<>> /\ Front(Front(e.path)) \notin dirs'
    BY <2>4 DEF IsDir
  <2>6. Front(Front(e.path)) \in Path /\ Len(Front(Front(e.path))) = Len(e.path) - 1 - 1
    BY <2>2, <2>3, FrontIsPiece
  <2>7. Len(e.path) > 2
    <3>1. Len(Front(Front(e.path))) # 0
      BY <2>5, <2>6, WholePiece
    <3> QED
      BY <2>1, <2>6, <3>1
  <2> QED
    BY <2>5, <2>7
<1> QED
  BY <1>2, <1>3

\* What unpacking an entry adds comes out of the archive.
LEMMA UnpackGrew ==
  ASSUME TypeOK, Grew, next <= Len(archive), NEW content, Unpack(archive[next], content),
         UNCHANGED <<archive, before>>
  PROVE  Grew'
<1> DEFINE p == archive[next].path
<1>1. next \in DOMAIN archive /\ p \in Path \ {<<>>} /\ Rooted(DOMAIN files, dirs)
  BY NextEntry
<1>2. dirs \subseteq dirs' /\ DOMAIN files' \subseteq DOMAIN files \union {p}
  BY <1>1, UnpackOk
<1>3. dirs' \subseteq dirs \union {Front(p)}
  BY DEF Unpack, DirsWithParent
<1> QED
  BY <1>1, <1>2, <1>3 DEF Grew

\* Unpacking one entry explains it and takes no explanation away.
LEMMA UnpackExplains ==
  ASSUME TypeOK, TypeOK', PackInv, LostInv, Grew, NEW n, n = next, n <= Len(archive), NEW content,
         Unpack(archive[n], content), UNCHANGED <<archive, before>>
  PROVE  /\ \A i \in 1 .. n - 1 : Explained(i)'
         /\ content = archive[n].content => Explained(n)'
<1> DEFINE p == archive[n].path
<1>1. /\ n \in 1 .. Len(archive) /\ DOMAIN archive = 1 .. Len(archive) /\ Len(archive) \in Nat
      /\ p \in Path \ {<<>>} /\ Rooted(DOMAIN files, dirs)
  BY NextEntry
<1>2. /\ Rooted(DOMAIN files', dirs')
      /\ dirs \subseteq dirs' /\ DOMAIN files \subseteq DOMAIN files'
      /\ DOMAIN files' \subseteq DOMAIN files \union {p}
      /\ \A q \in DOMAIN files : q # p => files'[q] = files[q]
  BY <1>1, UnpackOk
<1>3. \A j \in 1 .. n - 1 : j \in DOMAIN archive /\ archive[j].path # p
  <2>1. \A j \in 1 .. n - 1 : j \in DOMAIN archive /\ j # n
    BY <1>1
  <2> QED
    BY <1>1, <2>1 DEF PackInv, EntriesDiffer
<1>4. \A j \in 1 .. n - 1 : Arrived(j)' <=> Arrived(j)
  BY <1>2, <1>3 DEF Arrived
<1>5. ASSUME NEW i \in 1 .. n - 1
      PROVE  Explained(i)'
  <2>1. Explained(i) /\ \A j \in 1 .. i - 1 : j \in 1 .. n - 1
    BY <1>1 DEF LostInv
  <2>2. (Arrived(i)' <=> Arrived(i)) /\ \A j \in 1 .. i - 1 : Arrived(j)' <=> Arrived(j)
    BY <1>4, <2>1
  <2> QED
    BY <2>1, <2>2 DEF Explained, Absolute
<1>6. ASSUME content = archive[n].content
      PROVE  Explained(n)'
  <2>1. \/ p \in DOMAIN files' /\ files'[p] = content
        \/ Absolute(p) \/ p \in dirs'
        \/ Len(p) > 1 /\ Front(p) \in DOMAIN files
        \/ Len(p) > 2 /\ Front(Front(p)) \notin dirs' /\ Front(Front(p)) # <<>>
    BY <1>1, UnpackReason
  <2>2. CASE p \in DOMAIN files' /\ files'[p] = content
    BY <1>6, <2>2 DEF Explained, Arrived
  <2>3. CASE Absolute(p)
    BY <2>3 DEF Explained, Absolute
  <2>6. CASE p \in dirs'
    <3>1. Grew'
      BY UnpackGrew
    <3>2. \A j \in DOMAIN archive : p # Front(archive[j].path)
      BY <1>1, EntryNotAbove
    <3>3. p \in before.dirs
      BY <2>6, <3>1, <3>2 DEF Grew
    <3> QED
      BY <3>3 DEF Explained
  <2>4. CASE Len(p) > 1 /\ Front(p) \in DOMAIN files
    <3>1. \A j \in DOMAIN archive : archive[j].path # Front(p)
      BY <1>1, EntryNotAbove
    <3>2. Front(p) \in before.files
      BY <2>4, <3>1 DEF Grew
    <3> QED
      BY <3>2 DEF Explained
  <2>5. CASE Len(p) > 2 /\ Front(Front(p)) \notin dirs' /\ Front(Front(p)) # <<>>
    <3>1. ASSUME NEW j \in 1 .. n - 1, Arrived(j)'
          PROVE  Front(archive[j].path) # Front(Front(p))
      <4> DEFINE q == archive[j].path
      <4>1. q \in DOMAIN files' /\ q \in Path \ {<<>>}
        BY <1>2, <3>1 DEF Arrived, Rooted
      <4>2. Len(q) \in Nat \ {0} /\ Front(q) \in Path /\ Len(Front(q)) = Len(q) - 1
        BY <4>1, FrontIsPiece
      <4>3. CASE Len(q) = 1
        <5>1. Front(q) = <<>>
          BY <4>2, <4>3, WholePiece
        <5> QED
          BY <2>5, <5>1
      <4>4. CASE Len(q) > 1
        BY <1>2, <2>5, <4>1, <4>4 DEF Rooted
      <4> QED
        BY <4>2, <4>3, <4>4, OneOrMore
    <3>2. Front(Front(p)) \notin before.dirs
      BY <1>2, <2>5 DEF Grew
    <3> QED
      BY <2>5, <3>1, <3>2 DEF Explained
  <2> QED
    BY <2>1, <2>2, <2>3, <2>4, <2>5, <2>6
<1> QED
  BY <1>5, <1>6

LEMMA InitLost == Init => LostInv
<1> SUFFICES ASSUME Init PROVE LostInv
  OBVIOUS
<1>1. pc = "idle" /\ next = 1 /\ 1 .. next - 1 = {}
  BY DEF Init
<1> QED
  BY <1>1 DEF LostInv

LEMMA StepLost == TypeOK /\ TypeOK' /\ PackInv /\ LostInv /\ [Next]_vars => LostInv'
<1> SUFFICES ASSUME TypeOK, TypeOK', PackInv, LostInv, [Next]_vars PROVE LostInv'
  OBVIOUS
<1>s. ASSUME UNCHANGED <<archive, next, files, dirs, before>>
      PROVE  (\A i \in 1 .. next' - 1 : Explained(i)') /\ (Grew => Grew')
  BY <1>s DEF LostInv, Explained, Arrived, Grew
<1>n. ASSUME next' = 1
      PROVE  1 .. next' - 1 = {}
  BY <1>n
<1>a. CASE UNCHANGED vars
  BY <1>a, <1>s DEF vars, LostInv
<1>1. CASE Prepare
  BY <1>1, <1>n DEF Prepare, LostInv
<1>2. CASE AddFile
  BY <1>2, <1>n DEF AddFile, Walking, LostInv
<1>3. CASE EnterDir
  BY <1>3, <1>n DEF EnterDir, Walking, LostInv
<1>4. CASE SkipOther
  BY <1>4, <1>n DEF SkipOther, Walking, LostInv
<1>5. CASE LeaveDir
  BY <1>5, <1>n DEF LeaveDir, Walking, LostInv
<1>6. CASE Transfer
  <2>1. Grew'
    BY <1>6 DEF Transfer, Grew
  <2> QED
    BY <1>6, <1>n, <2>1 DEF Transfer, LostInv
<1>7. CASE ExtractEntry
  <2>1. /\ next <= Len(archive) /\ Unpack(archive[next], archive[next].content)
        /\ UNCHANGED <<archive, before>>
        /\ pc = "extract" /\ pc' = "extract" /\ next' = next + 1 /\ next \in Nat /\ Grew
    BY <1>7 DEF ExtractEntry, TypeOK, LostInv
  <2>2. PICK n : n = next
    OBVIOUS
  <2>3. (\A i \in 1 .. n - 1 : Explained(i)') /\ Explained(n)'
    BY <2>1, <2>2, UnpackExplains
  <2>4. \A i \in 1 .. next' - 1 : i \in 1 .. n - 1 \/ i = n
    BY <2>1, <2>2
  <2>5. Grew'
    BY <2>1, UnpackGrew
  <2> QED
    BY <2>1, <2>3, <2>4, <2>5 DEF LostInv
<1>8. CASE ExtractEnds
  BY <1>8, <1>s DEF ExtractEnds, LostInv
<1>9. CASE Damaged
  <2>1. /\ next <= Len(archive) /\ UNCHANGED <<archive, next, before>>
        /\ pc' = "done" /\ intact' = FALSE /\ Grew
    BY <1>9 DEF Damaged, LostInv
  <2>2. CASE UNCHANGED <<files, dirs>>
    BY <1>s, <2>1, <2>2 DEF LostInv
  <2>3. CASE Unpack(archive[next], Part)
    <3>1. PICK n : n = next
      OBVIOUS
    <3>2. \A i \in 1 .. n - 1 : Explained(i)'
      BY <2>1, <2>3, <3>1, UnpackExplains
    <3>3. Grew'
      BY <2>1, <2>3, UnpackGrew
    <3> QED
      BY <2>1, <3>1, <3>2, <3>3 DEF LostInv
  <2> QED
    BY <1>9, <2>2, <2>3 DEF Damaged
<1> QED
  BY <1>a, <1>1, <1>2, <1>3, <1>4, <1>5, <1>6, <1>7, <1>8, <1>9 DEF Next

LEMMA LostIsInv == TypeOK /\ LostInv => LostOnlyBelowMissing
<1> SUFFICES ASSUME TypeOK, LostInv, pc = "done", intact, NEW i \in DOMAIN archive
             PROVE  Explained(i)
  BY DEF LostOnlyBelowMissing, Explained
<1>1. archive \in Seq([path : Path \ {<<>>}, content : {Zeros, tree.version}])
  BY DEF TypeOK
<1>2. DOMAIN archive = 1 .. Len(archive) /\ Len(archive) \in Nat
  BY <1>1, LenProperties
<1> QED
  BY <1>2 DEF LostInv

\* Whatever is sent and whatever the save directory holds: of an undamaged archive a file is lost
\* only when a directory of its name or a file of its directory's name was there before, or when
\* its directory's parent was not there before and was not made for an earlier file (376-382).
THEOREM LossesAreExplained == Spec => []LostOnlyBelowMissing
<1>1. TypeOK /\ PackInv /\ LostInv /\ [Next]_vars => TypeOK' /\ PackInv' /\ LostInv'
  BY StepType, StepPack, StepLost
<1>2. QED
  BY <1>1, InitType, InitPack, InitLost, LostIsInv, PTL DEF Spec
=============================================================================
