------------------------------ MODULE MCHistory ------------------------------
(***************************************************************************)
(* A GUI with two threads for TLC: files have a name, and a failed scan    *)
(* has none, which cannot be read back.                                    *)
(***************************************************************************)
EXTENDS History, TLC

CONSTANTS c1, c2, t1, t2, p1, p2

MCContexts == {c1, c2}
MCThreads  == {t1, t2}
MCPorts    == {p1, p2}
MCNames    == {"name"}
MCSymmetry == Permutations(MCContexts) \union Permutations(MCThreads)
                \union Permutations(MCPorts)
=============================================================================
