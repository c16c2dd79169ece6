---------------------------- MODULE ProxyTraffic ----------------------------
(***************************************************************************)
(* Client connections through the built-in TCP proxy (proxy.go, connio.go) *)
(* while RollingDeploy changes its backends and stops containers.          *)
(*                                                                         *)
(* Picking a backend and dialling it are separate steps: the backend list  *)
(* is locked only while it is read.                                        *)
(***************************************************************************)
EXTENDS RollingDeploy

CONSTANTS
    Conns,      \* client connections at any one time
    Wrap        \* the round-robin counter is kept modulo Wrap (2^64 in the code)

ASSUME TrafficAssumption == Wrap \in Nat \ {0}

VARIABLES
    conn,       \* conn[k]: how far handleConnection is
    to,         \* to[k]: the backend it picked
    index       \* backendIndex

connVars == <<conn, to, index>>
allVars == <<vars, connVars>>

(* Every variable keeps the kind of value its declaration describes.       *)
TrafficTypeOK ==
    /\ TypeOK
    /\ conn \in [Conns -> {"none", "accepted", "picked", "open", "failed"}]
    /\ to \in [Conns -> Ports \cup {NoPort}]
    /\ index \in 0..(Wrap - 1)

TrafficInit ==
    /\ Init
    /\ conn = [k \in Conns |-> "none"]
    /\ to = [k \in Conns |-> NoPort]
    /\ index = 0

-----------------------------------------------------------------------------
(* acceptLoop: a goroutine for every connection.                           *)
Accept(k) ==
    /\ listening
    /\ conn[k] = "none"
    /\ conn' = [conn EXCEPT ![k] = "accepted"]
    /\ UNCHANGED <<vars, to, index>>

(* getNextBackend: round robin over the backends there are now.            *)
GetNextBackend(k) ==
    /\ conn[k] = "accepted"
    /\ \/ /\ backends = <<>>
          /\ conn' = [conn EXCEPT ![k] = "failed"]
          /\ UNCHANGED <<to, index>>
       \/ /\ backends # <<>>
          /\ conn' = [conn EXCEPT ![k] = "picked"]
          /\ to' = [to EXCEPT ![k] = backends[(index % Len(backends)) + 1]]
          /\ index' = (index + 1) % Wrap
    /\ UNCHANGED vars

(* DialTimeout: the host refuses when no container has the port any more.  *)
Dial(k) ==
    /\ conn[k] = "picked"
    /\ conn' = [conn EXCEPT ![k] = IF Live(to[k]) THEN "open" ELSE "failed"]
    /\ UNCHANGED <<vars, to, index>>

(* The first direction that is done (closed by a peer, stopped with its    *)
(* container, idle for too long) closes both; so does an error.            *)
CloseConnection(k) ==
    /\ conn[k] \in {"open", "failed"}
    /\ conn' = [conn EXCEPT ![k] = "none"]
    /\ to' = [to EXCEPT ![k] = NoPort]
    /\ UNCHANGED <<vars, index>>

HandleConnection(k) == GetNextBackend(k) \/ Dial(k) \/ CloseConnection(k)

(* A step of the deploy; connections and counter die with the process.     *)
DeployStep ==
    /\ Next
    /\ IF pc' = "down"
       THEN /\ conn' = [k \in Conns |-> "none"]
            /\ to' = [k \in Conns |-> NoPort]
            /\ index' = 0
       ELSE UNCHANGED connVars

TrafficNext ==
    \/ DeployStep
    \/ \E k \in Conns : Accept(k) \/ HandleConnection(k)

TrafficSpec == TrafficInit /\ [][TrafficNext]_allVars

-----------------------------------------------------------------------------
(***************************************************************************)
(* While a service that was up is being updated, a connection fails only   *)
(* when the backend it had picked left the load balancer before it was     *)
(* dialled: none is turned away for want of a backend, and none is sent to *)
(* a container that has been stopped (Deploy, getNextBackend).             *)
(***************************************************************************)
FailsOnlyIfRemoved ==
    [][\A k \in Conns :
          conn[k] # "failed" /\ conn'[k] = "failed" /\ served /\ sig = "none"
              => conn[k] = "picked" /\ ~Contains(backends, to[k])]_allVars
=============================================================================
