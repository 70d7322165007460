-------------------------------- MODULE MCLan --------------------------------
(***************************************************************************)
(* A small network for TLC: the host that scans has interfaces in two      *)
(* subnets, one of them twice.                                             *)
(***************************************************************************)
EXTENDS Lan, TLC

CONSTANTS s1, w1, w2

MCSenders == {s1}
MCWorkers == {w1, w2}
MCSymmetry == Permutations(MCWorkers)

MCInterface(name, family, net) == [name |-> name, family |-> family, net |-> net]
MCInterfaces ==
  <<MCInterface("lo", "IPv4", "127.0.0"), MCInterface("eth0", "IPv4", "10.0.0"),
    MCInterface("eth0", "IPv6", "fe80"), MCInterface("wlan0", "IPv4", "10.0.0"),
    MCInterface("eth1", "IPv4", "10.0.1")>>

MCHome       == <<"10.0.0", 2>>
MCOpenPorts  == {<<"10.0.1", 1>>}
MCResponders == {<<"10.0.0", 1>>, <<"10.0.0", 2>>}
=============================================================================
