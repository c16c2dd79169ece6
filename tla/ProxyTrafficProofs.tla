------------------------- MODULE ProxyTrafficProofs -------------------------
(***************************************************************************)
(* Connections through the proxy during deploys: type correctness for      *)
(* every number of connections and every width of the round-robin counter, *)
(* and that no connection is lost to a deploy but in the window between    *)
(* picking a backend and dialling it.                                      *)
(***************************************************************************)
EXTENDS ProxyTraffic, RollingDeployProofs

(* A step of a connection is none of the deploy.                           *)
LEMMA TrafficStep == [TrafficNext]_allVars => [Next]_vars
BY DEF TrafficNext, DeployStep, Accept, HandleConnection, GetNextBackend, Dial, CloseConnection,
       allVars

(* The invariants of RollingDeploy hold beside the traffic.                *)
LEMMA TrafficTick == TrafficSpec => []TickInv
<1>1. TickInv /\ [TrafficNext]_allVars => TickInv'
  BY TrafficStep, TickInvNext
<1> QED
  BY <1>1, TickInvInit, PTL DEF TrafficSpec, TrafficInit

ConnType ==
    /\ conn \in [Conns -> {"none", "accepted", "picked", "open", "failed"}]
    /\ to \in [Conns -> Ports \cup {NoPort}]
    /\ index \in 0..(Wrap - 1)

LEMMA ConnTypeNext == TickInv /\ ConnType /\ [TrafficNext]_allVars => ConnType'
<1> SUFFICES ASSUME TickInv, ConnType, [TrafficNext]_allVars PROVE ConnType'
  OBVIOUS
<1> USE TrafficAssumption DEF ConnType
<1>1. CASE UNCHANGED allVars
  BY <1>1 DEF allVars, connVars
<1>2. CASE DeployStep
  BY <1>2 DEF DeployStep, connVars
<1>3. ASSUME NEW k \in Conns, Accept(k) PROVE ConnType'
  BY <1>3 DEF Accept
<1>4. ASSUME NEW k \in Conns, GetNextBackend(k) PROVE ConnType'
  <2>1. CASE backends = <<>>
    BY <1>4, <2>1 DEF GetNextBackend
  <2>2. CASE backends # <<>>
    <3>1. backends \in Seq(Ports) /\ Len(backends) \in Nat \ {0}
      BY <2>2, EmptySeq DEF TickInv, TypeOK
    <3>2. (index % Len(backends)) + 1 \in 1..Len(backends)
      BY <3>1
    <3>3. backends[(index % Len(backends)) + 1] \in Ports
      BY <3>1, <3>2, ElementOfSeq
    <3>4. (index + 1) % Wrap \in 0..(Wrap - 1)
      OBVIOUS
    <3> QED
      BY <1>4, <2>2, <3>3, <3>4 DEF GetNextBackend
  <2> QED
    BY <2>1, <2>2
<1>5. ASSUME NEW k \in Conns, Dial(k) PROVE ConnType'
  BY <1>5 DEF Dial
<1>6. ASSUME NEW k \in Conns, CloseConnection(k) PROVE ConnType'
  BY <1>6 DEF CloseConnection
<1> QED
  BY <1>1, <1>2, <1>3, <1>4, <1>5, <1>6 DEF TrafficNext, HandleConnection

(***************************************************************************)
(* Type correctness: with any number of backends the round robin of        *)
(* getNextBackend picks one that is there, whatever the counter is and     *)
(* wherever it wraps.                                                      *)
(***************************************************************************)
THEOREM TrafficTypeTheorem == TrafficSpec => []TrafficTypeOK
<1>1. TrafficInit => ConnType
  BY TrafficAssumption DEF TrafficInit, ConnType
<1>2. TickInv /\ ConnType => TrafficTypeOK
  BY DEF TickInv, ConnType, TrafficTypeOK
<1> QED
  BY <1>1, <1>2, TrafficTick, ConnTypeNext, PTL DEF TrafficSpec

-----------------------------------------------------------------------------
(* A connection that fails: there was no backend, or nobody has the port.  *)
LEMMA FailingStep ==
    ASSUME ConnType, TrafficNext, NEW k \in Conns, conn[k] # "failed", conn'[k] = "failed"
    PROVE  \/ conn[k] = "accepted" /\ backends = <<>>
           \/ conn[k] = "picked" /\ ~Live(to[k])
<1>1. CASE DeployStep
  BY <1>1 DEF DeployStep, connVars
<1>2. ASSUME NEW j \in Conns, Accept(j) \/ CloseConnection(j) PROVE FALSE
  BY <1>2 DEF Accept, CloseConnection, ConnType
<1>3. ASSUME NEW j \in Conns, GetNextBackend(j) PROVE conn[k] = "accepted" /\ backends = <<>>
  BY <1>3 DEF GetNextBackend, ConnType
<1>4. ASSUME NEW j \in Conns, Dial(j) PROVE conn[k] = "picked" /\ ~Live(to[k])
  BY <1>4 DEF Dial, ConnType
<1> QED
  BY <1>1, <1>2, <1>3, <1>4 DEF TrafficNext, HandleConnection

(***************************************************************************)
(* While a service that was up is being updated, a connection fails only   *)
(* when its backend left the load balancer between being picked and being  *)
(* dialled: for any number of replicas and connections, whatever fails in  *)
(* the deploy (under the conditions of OnlyNewServedTheorem).              *)
(***************************************************************************)
THEOREM FailsOnlyIfRemovedTheorem ==
    ASSUME ~Podman, "die" \notin FaultKinds, "port" \notin FaultKinds
    PROVE  TrafficSpec => FailsOnlyIfRemoved
<1> DEFINE Inv == TickInv /\ UniquePorts /\ ServiceOK /\ ExactOK /\ ConnType
<1>1. TrafficInit => Inv
  <2>1. Init => TickInv /\ UniquePorts /\ ServiceOK /\ ExactOK
    BY DeployInvInit
  <2> QED
    BY <2>1, TrafficAssumption DEF TrafficInit, ConnType
<1>2. Inv /\ [TrafficNext]_allVars => Inv'
  BY TrafficStep, TickInvNext, UniquePortsNext, ServiceNext, ExactNext, ConnTypeNext
<1>3. ASSUME Inv, TrafficNext, NEW k \in Conns, conn[k] # "failed", conn'[k] = "failed", served,
             sig = "none"
      PROVE  conn[k] = "picked" /\ ~Contains(backends, to[k])
  <2>1. \E c \in Containers : Balanced(c)
    BY <1>3, ServedIsBalanced
  <2>2. backends # <<>>
    BY <2>1 DEF Balanced, Contains
  <2>3. conn[k] = "picked" /\ ~Live(to[k])
    BY <1>3, <2>2, FailingStep
  <2>4. Contains(backends, to[k]) => to[k] \in Ports
    BY <1>3, ElementOfSeq DEF TickInv, TypeOK, Contains
  <2>5. Contains(backends, to[k]) => Live(to[k])
    BY <1>3, <2>4 DEF ExactOK, ServedBy, Live, Running
  <2> QED
    BY <2>3, <2>5
<1>4. Inv /\ [TrafficNext]_allVars
        => [\A k \in Conns :
              conn[k] # "failed" /\ conn'[k] = "failed" /\ served /\ sig = "none"
                  => conn[k] = "picked" /\ ~Contains(backends, to[k])]_allVars
  BY <1>3
<1> QED
  BY <1>1, <1>2, <1>4, PTL DEF TrafficSpec, FailsOnlyIfRemoved
=============================================================================
