---------------------------- MODULE MCUdpTransfer ----------------------------
(***************************************************************************)
(* Small instances of UdpTransfer for TLC.                                 *)
(***************************************************************************)
EXTENDS UdpTransfer

MCPartials == {0, 1, 3}
MCFresh    == {0}
MCReadings == {"stored", "ignored", "eof"}
MCIgnored  == {"ignored"}
MCNoPeer   == {FALSE}
=============================================================================
