--------------------------- MODULE RegistryMirror ---------------------------
(***************************************************************************)
(* What the shared registry-result cache promises (registry/cached.go):    *)
(* the nodes see a mirror of the upstream registry that may lag behind it  *)
(* but never goes back, whichever node refreshed it.                       *)
(*                                                                         *)
(* upstream counts the changes of what the upstream registry reports; 0 in *)
(* mirror means that nothing has been published yet.                       *)
(***************************************************************************)
EXTENDS Integers

VARIABLES upstream, mirror

Init == upstream = 1 /\ mirror = 0

Change == upstream' = upstream + 1 /\ UNCHANGED mirror

Refresh == mirror' \in mirror..upstream /\ UNCHANGED upstream

Next == Change \/ Refresh

Spec == Init /\ [][Next]_<<upstream, mirror>>
=============================================================================
