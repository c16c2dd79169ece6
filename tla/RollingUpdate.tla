--------------------------- MODULE RollingUpdate ---------------------------
(***************************************************************************)
(* What a rolling update promises to those who use the load balancer       *)
(* (container/deploy.go): backends of the service leave only after every   *)
(* new replica is in, a new replica is put in once and taken out only by a *)
(* rollback, which takes out nothing else, and after either the load       *)
(* balancer belongs to the service again.                                  *)
(*                                                                         *)
(* The load balancer has service[p] entries of the service for port p and  *)
(* one for each replica of the update.                                     *)
(***************************************************************************)
EXTENDS Integers, FiniteSets

CONSTANTS
    Ports,      \* ports of backends
    Names,      \* names of new replicas
    Replicas    \* how many an update has

VARIABLES
    stage,      \* "down", "steady", "grow", "back" or "shrink"
    service,    \* service[p], see above
    update      \* update[c]: the port of the new replica c

vars == <<stage, service, update>>

Nothing == [p \in Ports |-> 0]
NoReplica == [c \in {} |-> 0]

Init == stage = "steady" /\ service = Nothing /\ update = NoReplica

Begin ==
    /\ stage = "steady"
    /\ stage' = "grow"
    /\ UNCHANGED <<service, update>>

(* A new replica; the last one turns the update.                           *)
Place ==
    /\ stage = "grow"
    /\ \E c \in Names \ DOMAIN update, p \in Ports :
          update' = [d \in DOMAIN update \cup {c} |-> IF d = c THEN p ELSE update[d]]
    /\ stage' = IF Cardinality(DOMAIN update') = Replicas THEN "shrink" ELSE "grow"
    /\ UNCHANGED service

Fail ==
    /\ stage = "grow"
    /\ stage' = "back"
    /\ UNCHANGED <<service, update>>

Withdraw ==
    /\ stage = "back"
    /\ \E c \in DOMAIN update : update' = [d \in DOMAIN update \ {c} |-> update[d]]
    /\ UNCHANGED <<stage, service>>

Abandon ==
    /\ stage = "back"
    /\ update = NoReplica
    /\ stage' = "steady"
    /\ UNCHANGED <<service, update>>

Retire ==
    /\ stage = "shrink"
    /\ \E p \in Ports : service[p] > 0 /\ service' = [service EXCEPT ![p] = @ - 1]
    /\ UNCHANGED <<stage, update>>

(* The new replicas are the service.                                       *)
Finish ==
    /\ stage = "shrink"
    /\ stage' = "steady"
    /\ service' = [p \in Ports |-> service[p] + Cardinality({c \in DOMAIN update : update[c] = p})]
    /\ update' = NoReplica

(* The process ends at any time, and its load balancer with it.            *)
Stop ==
    /\ stage' = "down"
    /\ service' = Nothing
    /\ update' = NoReplica

Start ==
    /\ stage = "down"
    /\ stage' = "steady"
    /\ UNCHANGED <<service, update>>

Next ==
    Begin \/ Place \/ Fail \/ Withdraw \/ Abandon \/ Retire \/ Finish \/ Stop \/ Start

Spec == Init /\ [][Next]_vars
=============================================================================
