-------------------------- MODULE MCContainerHost --------------------------
(***************************************************************************)
(* ContainerHost for TLC: host ports and scrapers are interchangeable.     *)
(***************************************************************************)
EXTENDS ContainerHost

HostSymmetry == Permutations(Ports) \cup Permutations(Scrapers)
=============================================================================
