--------------------------- MODULE MCProxyTraffic ---------------------------
(***************************************************************************)
(* ProxyTraffic for TLC: the host ports are interchangeable.               *)
(***************************************************************************)
EXTENDS ProxyTraffic

PortSymmetry == Permutations(Ports)
=============================================================================
