----------------------------- MODULE MCDirArchive -----------------------------
(***************************************************************************)
(* Small directories for TLC.                                              *)
(***************************************************************************)
EXTENDS DirArchive

CONSTANTS a, b, c, docs

MCName == {a, b, c, docs}

\* docs/c, docs/a/c, docs/a/b/c (unreadable) and a link.
MCDeep ==
  [version |-> 1, files |-> {<<c>>, <<a, c>>, <<a, b, c>>}, dirs |-> {<<a>>, <<a, b>>},
   others |-> {<<b>>}, closed |-> {<<a, b, c>>}]

\* docs/a/c, docs/a/b, and directories that are empty or cannot be opened.
MCWide ==
  [version |-> 2, files |-> {<<a, c>>, <<a, b>>, <<c, b>>}, dirs |-> {<<a>>, <<b>>, <<c>>},
   others |-> {}, closed |-> {<<c>>}]

\* docs/c and docs/a/c.
MCPlain ==
  [version |-> 1, files |-> {<<c>>, <<a, c>>}, dirs |-> {<<a>>}, others |-> {}, closed |-> {}]

MCTrees    == {MCDeep, MCWide}
MCOneTree  == {MCPlain}
MCBases    == {<<docs>>, <<Slash>>}
MCOneBase  == {<<docs>>}

\* Nothing, an older docs/a with a file, or a file where docs/a should be.
MCBefores ==
  {[files |-> {<<c>>}, dirs |-> {}],
   [files |-> {<<docs, a, c>>}, dirs |-> {<<docs>>, <<docs, a>>}],
   [files |-> {<<docs, a>>}, dirs |-> {<<docs>>}]}
MCEmpty == {[files |-> {}, dirs |-> {}]}
=============================================================================
