------------------------------ MODULE DirArchive ------------------------------
(***************************************************************************)
(* A directory sent by lanft: transfer_prepare_send packs it into an       *)
(* archive (walk_and_add, add_to_archive), extract_archive unpacks it in   *)
(* the receiver's save directory (src/src/transfer.c).  The archive itself *)
(* travels as one file, which TcpTransfer models.                          *)
(*                                                                         *)
(* A path is the sequence of its names; a file's content is the version of *)
(* the directory it was packed from.                                       *)
(***************************************************************************)
EXTENDS Integers, Sequences, FiniteSets, SequencesExt

CONSTANTS
  Trees,     \* directories that may be sent, see TreeType
  Name,      \* names of files and directories
  Slash,     \* first "name" of an absolute path
  Bases,     \* what the paths in the archive begin with
  Befores,   \* what the save directory may hold at first
  MaxSends,  \* bound on the transfers of one behaviour
  MaxFaults  \* bound on damaged archives

Path == Seq(Name \union {Slash})

\* A tree has regular files, directories, and others (links, devices); those in
\* closed cannot be opened.  Its paths are relative to the directory sent.
TreeType ==
  [version : Nat \ {0}, files : SUBSET Path, dirs : SUBSET Path, others : SUBSET Path,
   closed : SUBSET Path]

\* A path's name is either a file's, a directory's, or other; what it leads through are directories.
ASSUME TreesAssumption ==
  /\ Trees \subseteq TreeType
  /\ \A t \in Trees :
       /\ t.files \intersect t.dirs = {} /\ (t.files \union t.dirs) \intersect t.others = {}
       /\ \A p \in t.files \union t.dirs \union t.others :
            p # <<>> /\ \A n \in 1 .. Len(p) - 1 : SubSeq(p, 1, n) \in t.dirs
  /\ MaxSends \in Nat /\ MaxFaults \in Nat /\ Slash \notin Name

\* Bases of the two ways to name a directory: "docs" and "docs/", after whose last
\* slash nothing follows, so that every path in the archive begins with a slash.
ASSUME BasesAssumption == Bases \subseteq {<<n>> : n \in Name \union {Slash}}

\* Is this what a save directory may look like?
Rooted(fs, ds) ==
  /\ fs \union ds \subseteq Path \ {<<>>} /\ fs \intersect ds = {}
  /\ \A p \in fs \union ds : Len(p) > 1 => Front(p) \in ds

ASSUME BeforesAssumption == \A b \in Befores : Rooted(b.files, b.dirs)

Zeros == 0    \* content of a file that could not be read: its size in zeros
Local == -1   \* content the receiver's own files have
Part  == -2   \* content of a file cut off in the middle

VARIABLES
  pc,      \* idle, walk, extract, done
  tree,    \* the directory sent
  base,    \* dirname, as a path
  stack,   \* directories walk_and_add is in: name and entries not yet read
  archive, \* entries written: path and content
  next,    \* entry extract_archive reads next
  files,   \* the save directory: content by path
  dirs,    \* its subdirectories
  intact,  \* was the archive read to its end?
  before,  \* history: the paths of the files and directories when unpacking began
  sends, faults

vars == <<pc, tree, base, stack, archive, next, files, dirs, intact, before, sends, faults>>

\* The values each variable may take (269-395, 996-1043).
TypeOK ==
  /\ pc \in {"idle", "walk", "extract", "done"}
  /\ tree \in Trees /\ base \in Bases
  /\ stack \in Seq([dir : Path, left : SUBSET Path])
  /\ \A i \in DOMAIN stack :
       /\ stack[i].dir \in tree.dirs \union {<<>>}
       /\ stack[i].left \subseteq tree.files \union tree.dirs \union tree.others
  /\ archive \in Seq([path : Path \ {<<>>}, content : {Zeros, tree.version}])
  /\ next \in 1 .. Len(archive) + 1
  /\ Rooted(DOMAIN files, dirs) /\ Rooted(before.files, before.dirs)
  /\ intact \in BOOLEAN
  /\ sends \in 0 .. MaxSends /\ faults \in 0 .. MaxFaults

Init ==
  /\ pc = "idle" /\ tree \in Trees /\ base \in Bases
  /\ stack = <<>> /\ archive = <<>> /\ next = 1 /\ intact = TRUE
  /\ before \in Befores /\ dirs = before.dirs /\ files = [p \in before.files |-> Local]
  /\ sends = 0 /\ faults = 0

-----------------------------------------------------------------------------
(* Packing.                                                                *)

Children(t, d) == {p \in t.files \union t.dirs \union t.others : Front(p) = d}

\* opendir; a directory that cannot be opened is passed over.
Opened(t, d) == [dir |-> d, left |-> IF d \in t.closed THEN {} ELSE Children(t, d)]

Prepare ==
  /\ pc \in {"idle", "done"} /\ sends < MaxSends
  /\ sends' = sends + 1
  /\ tree' \in Trees /\ base' \in Bases
  /\ stack' = <<Opened(tree', <<>>)>> /\ archive' = <<>> /\ next' = 1
  /\ pc' = "walk"
  /\ UNCHANGED <<files, dirs, intact, before, faults>>

Walking == pc = "walk" /\ stack # <<>>
Here    == stack[Len(stack)]

\* The stack after readdir has returned entry p.
Read(p) == [stack EXCEPT ![Len(stack)].left = @ \ {p}]

\* Seeded fault: only the name of the file is put into the archive.
AddFileByName ==
  /\ Walking
  /\ \E p \in Here.left \intersect tree.files :
       /\ archive' = Append(archive,
            [path |-> base \o <<Last(p)>>,
             content |-> IF p \in tree.closed THEN Zeros ELSE tree.version])
       /\ stack' = Read(p)
  /\ UNCHANGED <<pc, tree, base, next, files, dirs, intact, before, sends, faults>>

\* readdir returns entries in any order.  The header is written before the file is
\* opened, so a file that cannot be opened has its size, filled up with zeros.
AddFile ==
  /\ Walking
  /\ \E p \in Here.left \intersect tree.files :
       /\ archive' = Append(archive,
            [path |-> base \o p, content |-> IF p \in tree.closed THEN Zeros ELSE tree.version])
       /\ stack' = Read(p)
  /\ UNCHANGED <<pc, tree, base, next, files, dirs, intact, before, sends, faults>>

\* A directory has no entry of its own in the archive.
EnterDir ==
  /\ Walking
  /\ \E p \in Here.left \intersect tree.dirs : stack' = Append(Read(p), Opened(tree, p))
  /\ UNCHANGED <<pc, tree, base, archive, next, files, dirs, intact, before, sends, faults>>

SkipOther ==
  /\ Walking
  /\ \E p \in Here.left \intersect tree.others : stack' = Read(p)
  /\ UNCHANGED <<pc, tree, base, archive, next, files, dirs, intact, before, sends, faults>>

LeaveDir ==
  /\ Walking /\ Here.left = {}
  /\ stack' = Front(stack)
  /\ UNCHANGED <<pc, tree, base, archive, next, files, dirs, intact, before, sends, faults>>

\* The archive is closed, sent and received.
Transfer ==
  /\ pc = "walk" /\ stack = <<>>
  /\ pc' = "extract" /\ intact' = TRUE
  /\ before' = [files |-> DOMAIN files, dirs |-> dirs]
  /\ UNCHANGED <<tree, base, stack, archive, next, files, dirs, sends, faults>>

-----------------------------------------------------------------------------
(* Unpacking: extract_archive, in the save directory.                      *)

IsDir(p) == p = <<>> \/ p \in dirs

\* The directories after mkdir of p's parent: it succeeds if the parent's own parent
\* is a directory and nothing of that name is there.
DirsWithParent(p) ==
  LET parent == Front(p)
  IN  IF /\ parent # <<>> /\ parent \notin dirs \union DOMAIN files
         /\ IsDir(Front(parent))
      THEN dirs \union {parent}
      ELSE dirs

\* Seeded fault: the file is opened although the path leads through another one.
CanOpenAnyway(p) == p \notin dirs'

\* fopen(path, "wb"), after mkdir.
CanOpen(p) == (Len(p) = 1 \/ Front(p) \in dirs') /\ p \notin dirs'

\* An absolute path does not lie in the save directory; what becomes of it is not
\* followed further.
Absolute(p) == p[1] = Slash

\* mkdir, fopen and fwrite for entry e.  A file that cannot be opened is passed over;
\* one that is there is overwritten, whatever the overwrite policy.
Unpack(e, content) ==
  IF Absolute(e.path)
  THEN UNCHANGED <<files, dirs>>
  ELSE /\ dirs' = DirsWithParent(e.path)
       /\ files' = IF CanOpen(e.path)
                 THEN [p \in DOMAIN files \union {e.path} |->
                        IF p = e.path THEN content ELSE files[p]]
                 ELSE files

\* Seeded fault: the first entry is passed over.
ExtractFromSecond ==
  /\ pc = "extract" /\ next <= Len(archive)
  /\ IF next = 1 THEN UNCHANGED <<files, dirs>> ELSE Unpack(archive[next], archive[next].content)
  /\ next' = next + 1
  /\ UNCHANGED <<pc, tree, base, stack, archive, intact, before, sends, faults>>

ExtractEntry ==
  /\ pc = "extract" /\ next <= Len(archive)
  /\ Unpack(archive[next], archive[next].content)
  /\ next' = next + 1
  /\ UNCHANGED <<pc, tree, base, stack, archive, intact, before, sends, faults>>

\* The archive is removed and the transfer reported done.
ExtractEnds ==
  /\ pc = "extract" /\ next = Len(archive) + 1
  /\ pc' = "done"
  /\ UNCHANGED <<tree, base, stack, archive, next, files, dirs, intact, before, sends, faults>>

\* An entry is damaged in its header, or in its data after a part was written: the
\* loop ends here with the same result 0.
Damaged ==
  /\ pc = "extract" /\ next <= Len(archive)
  /\ faults < MaxFaults /\ faults' = faults + 1
  /\ UNCHANGED <<files, dirs>> \/ Unpack(archive[next], Part)
  /\ pc' = "done" /\ intact' = FALSE
  /\ UNCHANGED <<tree, base, stack, archive, next, before, sends>>

-----------------------------------------------------------------------------
Next ==
  \/ Prepare \/ AddFile \/ EnterDir \/ SkipOther \/ LeaveDir \/ Transfer
  \/ ExtractEntry \/ ExtractEnds \/ Damaged

Spec == Init /\ [][Next]_vars

-----------------------------------------------------------------------------
(* What holds.                                                             *)

\* Can walk_and_add come to p?
Open(p) == <<>> \notin tree.closed /\ \A n \in 1 .. Len(p) - 1 : SubSeq(p, 1, n) \notin tree.closed

\* In whatever order directories are read, the archive has each regular file that
\* can be come to exactly once, under its own path (289-315).
PackedOnce ==
  pc \in {"extract", "done"} =>
    /\ {archive[i].path : i \in DOMAIN archive} = {base \o p : p \in {q \in tree.files : Open(q)}}
    /\ \A i, j \in DOMAIN archive : archive[i].path = archive[j].path => i = j

Arrived(i) ==
  archive[i].path \in DOMAIN files /\ files[archive[i].path] = archive[i].content

\* A file of an undamaged archive is lost only when something was in its way before, a
\* directory of its own name or a file of its directory's name, or when it lies in a directory
\* whose parent directory was not there before, nor made for an earlier file (376-382).
LostOnlyBelowMissing ==
  pc = "done" /\ intact => \A i \in DOMAIN archive :
    LET p     == archive[i].path
        above == Front(Front(p))
    IN  \/ Arrived(i) \/ Absolute(p)
        \/ p \in before.dirs \/ Front(p) \in before.files
        \/ /\ Len(p) > 2 /\ above \notin before.dirs
           /\ \A j \in 1 .. i - 1 : Arrived(j) => Front(archive[j].path) # above

\* Unpacking changes no file of the save directory but those of the directory sent,
\* and removes none (382-389).
OthersUntouched ==
  [][\A p \in DOMAIN files :
       /\ p \in DOMAIN files'
       /\ files'[p] # files[p] => \E q \in tree.files : p = base \o q]_vars

-----------------------------------------------------------------------------
(* What the documentation says.                                            *)

\* README.md:18, "Directory transfer: Auto-compress with libarchive (tar.gz),
\* auto-extract on receive": when the receiver reports done, the directory's
\* readable files are in the save directory.
DirectoryArrives ==
  pc = "done" /\ intact =>
    \A p \in tree.files \ tree.closed : Open(p) =>
      base \o p \in DOMAIN files /\ files[base \o p] = tree.version
=============================================================================
