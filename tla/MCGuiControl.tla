----------------------------- MODULE MCGuiControl -----------------------------
(***************************************************************************)
(* Small instances of GuiControl for TLC.                                  *)
(***************************************************************************)
EXTENDS GuiControl, TLC

CONSTANTS c1, c2, c3, t1, t2, t3, p1

MCContexts == {c1, c2, c3}
MCThreads  == {t1, t2, t3}
MCOneContext == {c1}
MCOneThread  == {t1}
MCPort     == {p1}
MCSymmetry == Permutations(MCContexts) \union Permutations(MCThreads)
=============================================================================
