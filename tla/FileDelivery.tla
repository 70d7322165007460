---------------------------- MODULE FileDelivery -----------------------------
(***************************************************************************)
(* What lanft promises the user who receives a file, without connections,  *)
(* offsets or timeouts: somebody offers a file; the copy in the save       *)
(* directory is built from its beginning; the transfer is reported done    *)
(* only when the copy, or what was unpacked from it, is the offered file.  *)
(* A transfer may be given up at any time and the copy stays as it is.     *)
(***************************************************************************)
EXTENDS Integers, Sequences

CONSTANTS Sources, Paths, NoFile

VARIABLES
  dir,        \* the save directory: content by path
  unpacked,   \* archives that were unpacked
  offered,    \* content of the file offered last
  report      \* what the receiving user was last told of it

vars == <<dir, unpacked, offered, report>>

\* The first n blocks of what is offered.
Beginning(n) == SubSeq(offered, 1, n)

Init == offered \in Sources /\ report = "none" /\ unpacked = {}

Offer ==
  /\ offered' \in Sources /\ report' = "none"
  /\ UNCHANGED <<dir, unpacked>>

\* The copy at path p is started afresh, or continued where it ends.
Copy(p) ==
  /\ report = "none"
  /\ \E n \in 0 .. Len(offered) :
       /\ n = 0 \/ dir[p] \in {Beginning(m) : m \in 0 .. n}
       /\ dir' = [dir EXCEPT ![p] = Beginning(n)]
  /\ UNCHANGED <<unpacked, offered, report>>

Deliver(p) ==
  /\ report = "none" /\ dir[p] = offered
  /\ report' = "done"
  /\ \/ UNCHANGED <<dir, unpacked>>
     \/ dir' = [dir EXCEPT ![p] = NoFile] /\ unpacked' = unpacked \union {offered}
  /\ UNCHANGED offered

GiveUp ==
  /\ report = "none" /\ report' = "error"
  /\ UNCHANGED <<dir, unpacked, offered>>

\* The user removes a file; what was reported no longer concerns it.
Remove(p) ==
  /\ dir' = [dir EXCEPT ![p] = NoFile] /\ report' = "none"
  /\ UNCHANGED <<unpacked, offered>>

Next ==
  \/ Offer
  \/ GiveUp
  \/ \E p \in Paths : Copy(p) \/ Deliver(p) \/ Remove(p)

Spec == Init /\ [][Next]_vars
=============================================================================
