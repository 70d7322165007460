---------------------------- MODULE MCTcpTransfer ----------------------------
(***************************************************************************)
(* Small instances of TcpTransfer for TLC: a file of two blocks that may   *)
(* have grown to three when it is sent again, and a save directory that is *)
(* empty or holds a foreign file of the same name.                         *)
(***************************************************************************)
EXTENDS TcpTransfer

MCBlock   == 1 .. 4
MCSources == {<<1, 2>>, <<1, 2, 3>>}
MCOneSource == {<<1, 2>>}

MCInitial == {NoFile, <<4, 4, 4>>}
MCShortForeign == {<<4>>}

\* A receiver that accepts by itself, with one policy.
MCRenaming == [policy : {"rename"}, isDir : {FALSE}, autoAccept : {TRUE}]
=============================================================================
