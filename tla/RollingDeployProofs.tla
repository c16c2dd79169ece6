------------------------ MODULE RollingDeployProofs ------------------------
(***************************************************************************)
(* What RollingDeploy promises for every number of replicas, every set of  *)
(* images, containers and ports and every bound: a failed deploy leaves    *)
(* the load balancer as it was, and, where containers do not die by        *)
(* themselves, no deploy interrupts the service.                           *)
(***************************************************************************)
EXTENDS BackendLemmas

(* Phases before Deploy has found the running containers, ...              *)
Early == {"idle", "check", "pull", "expose", "find"}

(* ... those in which a replica is being started, ...                      *)
Starting == {"port", "health", "discard", "add"}

(* ... and those after all the replicas are in the load balancer.          *)
Replacing == {"drain", "stop", "reap", "prune"}

(* The variables of the tick: which containers they may name.              *)
LocalsOK ==
    /\ pc \in Early \cup {"down"} => old = {} /\ fresh = {}
    /\ pc \in Starting => /\ cur \in Containers \ (old \cup fresh)
                         /\ port[cur] \in Ports /\ image[cur] = img
    /\ pc = "stop" => cur \in old
    /\ pc \notin Starting \cup {"stop"} => cur = NoContainer
    /\ pc # "undo" => undo = {}
    /\ undo \subseteq fresh
    /\ old \cap fresh = {}
    /\ pc \in {"reap", "prune"} => old = {}
    /\ pc \in Replacing => Cardinality(fresh) = Replicas
    /\ \A c \in fresh : port[c] \in Ports /\ image[c] = img

(* The proxy listens from the start of the process until its shutdown.     *)
ProxyOK ==
    /\ listening = (pc # "down" /\ sig # "exit")
    /\ pc = "down" => sig = "none" /\ ~served /\ backends = <<>>

TickInv == TypeOK /\ LocalsOK /\ ProxyOK

-----------------------------------------------------------------------------
(* Stop and Remove change one container, and start none.                   *)
LEMMA StopOne ==
    ASSUME TypeOK, NEW c \in Containers, StopAndRemove(c)
    PROVE  /\ status' \in [Containers -> {"none", "running", "exited"}]
           /\ \A d \in Containers : d # c => status'[d] = status[d]
           /\ status'[c] = "running" => status[c] = "running"
           /\ faults' \in Nat
BY DEF StopAndRemove, TypeOK, Fault, Running

(* A backend that is taken out.                                            *)
LEMMA RemoveBackendType ==
    ASSUME TypeOK, NEW p, RemoveBackend(p)
    PROVE  backends' \in Seq(Ports)
<1>1. backends \in Seq(Ports)
  BY DEF TypeOK
<1>2. Contains(backends, p) => RemoveFirst(backends, p) \in Seq(Ports)
  BY <1>1, RemoveFirstEntries
<1> QED
  BY <1>1, <1>2 DEF RemoveBackend

LEMMA TickInvInit == Init => TickInv
<1> SUFFICES ASSUME Init PROVE TickInv
  OBVIOUS
<1> USE ConstantsAssumption
<1>1. <<>> \in Seq(Ports)
  BY EmptySeq
<1>2. TypeOK
  BY <1>1 DEF Init, TypeOK, Phases
<1> QED
  BY <1>2 DEF Init, TickInv, LocalsOK, ProxyOK, Early, Starting, Replacing

(***************************************************************************)
(* What a step does to the containers: RunNew starts one with a port that  *)
(* no running container has, under an identity nobody names; everything    *)
(* else at most stops some.                                                *)
(***************************************************************************)
Starts(c, p) ==
    /\ pc = "run" /\ pc' = "port"
    /\ c \in Unnamed /\ p \in Ports /\ ~Live(p)
    /\ StartContainer(c, p)
    /\ cur' = c
    /\ UNCHANGED <<backends, listening, old, fresh, undo, before, served, sig, img>>

StopsSome ==
    /\ UNCHANGED <<image, port>>
    /\ status' \in [Containers -> {"none", "running", "exited"}]
    /\ \A c \in Containers : status'[c] = "running" => status[c] = "running"

LEMMA BoxStep ==
    ASSUME TickInv, [Next]_vars
    PROVE  StopsSome \/ \E c \in Containers, p \in Ports : Starts(c, p)
<1> USE DEF TickInv, boxVars, StopsSome
<1>1. status \in [Containers -> {"none", "running", "exited"}]
  BY DEF TypeOK
<1>2. CASE UNCHANGED <<status, image, port>>
  BY <1>1, <1>2
<1>3. CASE RunNew
  <2>1. CASE UNCHANGED <<status, image, port>>
    BY <1>1, <2>1
  <2>2. CASE \E c \in Unnamed, p \in Ports :
                /\ ~Live(p)
                /\ StartContainer(c, p)
                /\ cur' = c
                /\ Goto("port")
                /\ UNCHANGED <<old, fresh, undo, faults>>
    BY <1>3, <2>2 DEF RunNew, Starts, Unnamed, Goto, sigVars
  <2> QED
    BY <1>3, <2>1, <2>2 DEF RunNew
<1>4. CASE GetMappedPort
  BY <1>1, <1>4 DEF GetMappedPort, Running
<1>5. CASE Discard \/ StopOld
  <2>1. cur \in Containers
    BY <1>5 DEF Discard, StopOld, LocalsOK, Starting, TypeOK
  <2>2. StopAndRemove(cur) /\ UNCHANGED <<image, port>>
    BY <1>5 DEF Discard, StopOld
  <2> QED
    BY <2>1, <2>2, StopOne
<1>6. CASE UndoContainer
  <2>1. CASE UNCHANGED status
    BY <1>1, <1>6, <2>1 DEF UndoContainer
  <2>2. ASSUME NEW c \in fresh, StopAndRemove(c)
        PROVE  StopsSome
    <3>1. c \in Containers
      BY DEF TypeOK
    <3> QED
      BY <1>6, <2>2, <3>1, StopOne DEF UndoContainer
  <2> QED
    BY <1>6, <2>1, <2>2 DEF UndoContainer
<1>7. CASE RemoveExited
  BY <1>1, <1>7 DEF RemoveExited
<1>8. CASE CleanupOldImages
  BY <1>1, <1>8 DEF CleanupOldImages, RemoveImages
<1>9. CASE StopManaged
  BY <1>1, <1>9 DEF StopManaged, TypeOK
<1>10. CASE \E c \in Containers : ContainerDies(c)
  BY <1>1, <1>10 DEF ContainerDies
<1> QED
  BY <1>2, <1>3, <1>4, <1>5, <1>6, <1>7, <1>8, <1>9, <1>10
  DEF Next, Undisturbed, RunContainer, Shutdown, Publish, ResolveContainerCurrent,
      ResolveContainerState, PullImage, ResolvePortMappings, FindExisting, CheckHealth, AddBackend,
      UndoBackend, DrainOld, Terminate, ListManaged, StopProxy, Exit, Crash, Gone, Boot, vars

(* The images the host has.                                                *)
LEMMA PulledType == TickInv /\ [Next]_vars => pulled' \subseteq Images
<1> SUFFICES ASSUME TickInv, [Next]_vars PROVE pulled' \subseteq Images
  OBVIOUS
<1>1. pulled \subseteq Images /\ img \in Images
  BY DEF TickInv, TypeOK
<1>2. CASE UNCHANGED pulled
  BY <1>1, <1>2
<1>3. CASE PullImage
  BY <1>1, <1>3 DEF PullImage, Pull
<1>4. CASE CleanupOldImages
  <2>1. pulled' \subseteq pulled
    BY <1>4 DEF CleanupOldImages, RemoveImages
  <2> QED
    BY <1>1, <2>1
<1> QED
  BY <1>2, <1>3, <1>4
  DEF Next, Undisturbed, RunContainer, Shutdown, Publish, ResolveContainerCurrent,
      ResolveContainerState, ResolvePortMappings, FindExisting, RunNew, GetMappedPort, CheckHealth,
      Discard, AddBackend, UndoBackend, UndoContainer, DrainOld, StopOld, RemoveExited, Terminate,
      ListManaged, StopManaged, StopProxy, Exit, Crash, Gone, Boot, ContainerDies, vars, boxVars

(* The backends.                                                           *)
LEMMA BackendsType ==
    TickInv /\ [Next]_vars => backends' \in Seq(Ports) /\ before' \in Seq(Ports)
<1> SUFFICES ASSUME TickInv, [Next]_vars PROVE backends' \in Seq(Ports) /\ before' \in Seq(Ports)
  OBVIOUS
<1>1. backends \in Seq(Ports) /\ before \in Seq(Ports) /\ <<>> \in Seq(Ports)
  BY EmptySeq DEF TickInv, TypeOK
<1>2. CASE UNCHANGED <<backends, before>>
  BY <1>1, <1>2
<1>3. CASE ResolveContainerCurrent
  BY <1>1, <1>3 DEF ResolveContainerCurrent
<1>4. CASE AddBackend
  <2>1. port[cur] \in Ports
    BY <1>4 DEF AddBackend, TickInv, LocalsOK, Starting
  <2>2. Append(backends, port[cur]) \in Seq(Ports)
    BY <1>1, <2>1, AppendProperties
  <2> QED
    BY <1>1, <1>4, <2>2 DEF AddBackend, AddProxyBackend
<1>5. CASE UndoBackend
  BY <1>1, <1>5, RemoveBackendType DEF UndoBackend, TickInv
<1>6. CASE DrainOld
  BY <1>1, <1>6, RemoveBackendType DEF DrainOld, TickInv
<1>7. CASE Exit \/ Crash
  BY <1>1, <1>7 DEF Exit, Crash, Gone
<1> QED
  BY <1>2, <1>3, <1>4, <1>5, <1>6, <1>7
  DEF Next, Undisturbed, RunContainer, Shutdown, Publish, PullImage,
      ResolveContainerState, ResolvePortMappings, FindExisting, RunNew, GetMappedPort, CheckHealth,
      Discard, UndoContainer, StopOld, RemoveExited, CleanupOldImages, Terminate,
      ListManaged, StopManaged, StopProxy, Boot, ContainerDies, vars, tickVars

(* Everything else: the registry and the variables of the process.         *)
ProcessType ==
    /\ latest \in Images
    /\ published \in Nat
    /\ {listening, runtime, served} \subseteq BOOLEAN
    /\ pc \in Phases
    /\ img \in Images
    /\ {old, fresh, undo, todo} \subseteq SUBSET Containers
    /\ cur \in Containers \cup {NoContainer}
    /\ outcome \in {"none", "ok", "skip", "err", "exit"}
    /\ sig \in {"none", "list", "stop", "exit"}
    /\ faults \in Nat

LEMMA StopFaults ==
    ASSUME faults \in Nat, NEW c, StopAndRemove(c)
    PROVE  faults' \in Nat
BY DEF StopAndRemove, Fault

LEMMA ProcessTypeNext == TickInv /\ [Next]_vars => ProcessType'
<1> SUFFICES ASSUME ProcessType, TickInv, [Next]_vars PROVE ProcessType'
  BY DEF TickInv, TypeOK, ProcessType
<1> USE ConstantsAssumption
<1> USE DEF ProcessType, regVars, boxVars, tickVars, sigVars, localVars, Goto, EndTick, Fault,
            Phases
<1>1. CASE \E i \in Images : Publish(i)
  BY <1>1 DEF Publish
<1>2. CASE ResolveContainerCurrent
  BY <1>2 DEF ResolveContainerCurrent, Serving
<1>3. CASE ResolveContainerState
  <2>1. {listening', runtime', served'} \subseteq BOOLEAN
    <3>1. (UNCHANGED runtime \/ runtime' = TRUE) /\ UNCHANGED <<listening, served>>
      BY <1>3, Zenon DEF ResolveContainerState
    <3> QED
      BY <3>1, Zenon
  <2>3. faults' \in Nat
    BY <1>3 DEF ResolveContainerState
  <2>2. /\ pc' \in {"idle", "pull"}
        /\ outcome' \in {outcome, "err", "skip"}
        /\ cur' \in {cur, NoContainer}
        /\ old' \in {old, {}} /\ fresh' \in {fresh, {}} /\ undo' \in {undo, {}}
        /\ UNCHANGED <<latest, published, img, todo, sig>>
    <3>1. EndTick("err") \/ EndTick("skip") \/ (Goto("pull") /\ UNCHANGED localVars)
      BY <1>3 DEF ResolveContainerState
    <3>2. UNCHANGED <<latest, published, img, todo, sig>>
      BY <1>3 DEF ResolveContainerState
    <3> QED
      BY <3>1, <3>2
  <2> QED
    BY <2>1, <2>2, <2>3
<1>4. CASE PullImage
  BY <1>4 DEF PullImage, Pull
<1>5. CASE ResolvePortMappings
  BY <1>5 DEF ResolvePortMappings, GetImageExposedPorts
<1>6. CASE FindExisting
  BY <1>6 DEF FindExisting, Running
<1>7. CASE RunNew
  BY <1>7 DEF RunNew, Rollback, Unnamed, StartContainer, Live
<1>8. CASE GetMappedPort
  BY <1>8 DEF GetMappedPort, Rollback, HasPort, Running
<1>9. CASE CheckHealth
  BY <1>9 DEF CheckHealth
<1>10. CASE Discard
  BY <1>10, StopFaults DEF Discard, Rollback
<1>11. CASE AddBackend
  <2>1. cur \in Containers
    BY <1>11 DEF AddBackend, TickInv, LocalsOK, Starting
  <2> QED
    BY <1>11, <2>1 DEF AddBackend, Rollback
<1>12. CASE UndoBackend
  BY <1>12, RemoveBackendType DEF UndoBackend
<1>13. CASE UndoContainer
  BY <1>13, StopFaults DEF UndoContainer
<1>14. CASE DrainOld
  BY <1>14, RemoveBackendType DEF DrainOld
<1>15. CASE StopOld
  BY <1>15, StopFaults DEF StopOld
<1>16. CASE RemoveExited
  BY <1>16 DEF RemoveExited
<1>17. CASE CleanupOldImages
  BY <1>17 DEF CleanupOldImages, RemoveImages, OldImages
<1>18. CASE Terminate
  BY <1>18 DEF Terminate
<1>19. CASE ListManaged
  BY <1>19 DEF ListManaged, Running
<1>20. CASE StopManaged
  BY <1>20 DEF StopManaged
<1>21. CASE StopProxy
  BY <1>21 DEF StopProxy
<1>22. CASE Exit \/ Crash
  <2>1. Gone("exit") \/ Gone("none")
    BY <1>22 DEF Exit, Crash
  <2>2. faults' \in Nat
    BY <1>22 DEF Exit, Crash
  <2> QED
    BY <2>1, <2>2 DEF Gone
<1>23. CASE Boot
  BY <1>23 DEF Boot
<1>24. CASE \E c \in Containers : ContainerDies(c)
  BY <1>24 DEF ContainerDies
<1>25. CASE UNCHANGED vars
  BY <1>25 DEF vars
<1> QED
  BY <1>1, <1>2, <1>3, <1>4, <1>5, <1>6, <1>7, <1>8, <1>9, <1>10, <1>11, <1>12, <1>13, <1>14,
     <1>15, <1>16, <1>17, <1>18, <1>19, <1>20, <1>21, <1>22, <1>23, <1>24, <1>25
  DEF Next, Undisturbed, RunContainer, Shutdown

LEMMA TypeNext == TickInv /\ [Next]_vars => TypeOK'
<1> SUFFICES ASSUME TickInv, [Next]_vars PROVE TypeOK'
  OBVIOUS
<1>1. /\ status' \in [Containers -> {"none", "running", "exited"}]
      /\ image' \in [Containers -> Images]
      /\ port' \in [Containers -> Ports \cup {NoPort}]
  <2>1. CASE StopsSome
    BY <2>1 DEF StopsSome, TickInv, TypeOK
  <2>2. CASE \E c \in Containers, p \in Ports : Starts(c, p)
    BY <2>2 DEF Starts, StartContainer, TickInv, TypeOK
  <2> QED
    BY <2>1, <2>2, BoxStep
<1>2. pulled' \subseteq Images
  BY PulledType
<1>3. backends' \in Seq(Ports) /\ before' \in Seq(Ports)
  BY BackendsType
<1>4. ProcessType'
  BY ProcessTypeNext
<1> QED
  BY <1>1, <1>2, <1>3, <1>4 DEF TypeOK, ProcessType

LEMMA LocalsNext == TickInv /\ [Next]_vars => LocalsOK'
<1> SUFFICES ASSUME TickInv, [Next]_vars PROVE LocalsOK'
  OBVIOUS
<1> USE ConstantsAssumption
<1> USE DEF TickInv, regVars, boxVars, tickVars, sigVars, localVars, Goto, EndTick, Fault, LocalsOK,
            TypeOK, Early, Starting, Replacing
<1>1. CASE \E i \in Images : Publish(i)
  BY <1>1 DEF Publish
<1>2. CASE ResolveContainerCurrent
  BY <1>2 DEF ResolveContainerCurrent, Serving
<1>3. CASE ResolveContainerState
  BY <1>3 DEF ResolveContainerState
<1>4. CASE PullImage
  BY <1>4 DEF PullImage, Pull
<1>5. CASE ResolvePortMappings
  BY <1>5 DEF ResolvePortMappings, GetImageExposedPorts
<1>6. CASE FindExisting
  BY <1>6 DEF FindExisting, Running
<1>7. CASE RunNew
  <2>1. CASE Rollback(fresh) /\ UNCHANGED <<image, port, img>>
    BY <1>7, <2>1 DEF RunNew, Rollback
  <2>2. ASSUME NEW c \in Containers, NEW p \in Ports, Starts(c, p)
        PROVE  LocalsOK'
    <3>1. port'[c] = p /\ image'[c] = img /\ c \notin old \cup fresh
      BY <2>2 DEF Starts, StartContainer, Unnamed
    <3>2. \A d \in fresh : port'[d] = port[d] /\ image'[d] = image[d]
      BY <2>2, <3>1 DEF Starts, StartContainer
    <3> QED
      BY <2>2, <3>1, <3>2 DEF Starts
  <2> QED
    BY <1>7, <2>1, <2>2 DEF RunNew, Starts, Unnamed
<1>8. CASE GetMappedPort
  BY <1>8 DEF GetMappedPort, Rollback, HasPort, Running
<1>9. CASE CheckHealth
  BY <1>9 DEF CheckHealth
<1>10. CASE Discard
  BY <1>10, StopOne DEF Discard, Rollback
<1>11. CASE AddBackend
  BY <1>11 DEF AddBackend, Rollback, AddProxyBackend
<1>12. CASE UndoBackend
  BY <1>12, RemoveBackendType DEF UndoBackend
<1>13. CASE UndoContainer
  BY <1>13, StopOne DEF UndoContainer
<1>14. CASE DrainOld
  BY <1>14, RemoveBackendType DEF DrainOld
<1>15. CASE StopOld
  BY <1>15, StopOne DEF StopOld
<1>16. CASE RemoveExited
  BY <1>16 DEF RemoveExited
<1>17. CASE CleanupOldImages
  BY <1>17 DEF CleanupOldImages, RemoveImages, OldImages
<1>18. CASE Terminate
  BY <1>18 DEF Terminate
<1>19. CASE ListManaged
  BY <1>19 DEF ListManaged, Running
<1>20. CASE StopManaged
  BY <1>20 DEF StopManaged
<1>21. CASE StopProxy
  BY <1>21 DEF StopProxy
<1>22. CASE Exit \/ Crash
  BY <1>22 DEF Exit, Crash, Gone
<1>23. CASE Boot
  BY <1>23 DEF Boot
<1>24. CASE \E c \in Containers : ContainerDies(c)
  BY <1>24 DEF ContainerDies
<1>25. CASE UNCHANGED vars
  BY <1>25 DEF vars
<1> QED
  BY <1>1, <1>2, <1>3, <1>4, <1>5, <1>6, <1>7, <1>8, <1>9, <1>10, <1>11, <1>12, <1>13, <1>14,
     <1>15, <1>16, <1>17, <1>18, <1>19, <1>20, <1>21, <1>22, <1>23, <1>24, <1>25
  DEF Next, Undisturbed, RunContainer, Shutdown

LEMMA ProxyNext == TickInv /\ [Next]_vars => ProxyOK'
<1> SUFFICES ASSUME TickInv, [Next]_vars PROVE ProxyOK'
  OBVIOUS
<1> USE ConstantsAssumption
<1> USE DEF TickInv, regVars, boxVars, tickVars, sigVars, localVars, Goto, EndTick, Fault,
            ProxyOK
<1>1. CASE \E i \in Images : Publish(i)
  BY <1>1 DEF Publish
<1>2. CASE ResolveContainerCurrent
  BY <1>2 DEF ResolveContainerCurrent, Serving
<1>3. CASE ResolveContainerState
  BY <1>3 DEF ResolveContainerState
<1>4. CASE PullImage
  BY <1>4 DEF PullImage, Pull
<1>5. CASE ResolvePortMappings
  BY <1>5 DEF ResolvePortMappings, GetImageExposedPorts
<1>6. CASE FindExisting
  BY <1>6 DEF FindExisting, Running
<1>7. CASE RunNew
  BY <1>7 DEF RunNew, Rollback, Unnamed, StartContainer, Live
<1>8. CASE GetMappedPort
  BY <1>8 DEF GetMappedPort, Rollback, HasPort, Running
<1>9. CASE CheckHealth
  BY <1>9 DEF CheckHealth
<1>10. CASE Discard
  BY <1>10, StopOne DEF Discard, Rollback
<1>11. CASE AddBackend
  BY <1>11 DEF AddBackend, Rollback, AddProxyBackend
<1>12. CASE UndoBackend
  BY <1>12, RemoveBackendType DEF UndoBackend
<1>13. CASE UndoContainer
  BY <1>13, StopOne DEF UndoContainer
<1>14. CASE DrainOld
  BY <1>14, RemoveBackendType DEF DrainOld
<1>15. CASE StopOld
  BY <1>15, StopOne DEF StopOld
<1>16. CASE RemoveExited
  BY <1>16 DEF RemoveExited
<1>17. CASE CleanupOldImages
  BY <1>17 DEF CleanupOldImages, RemoveImages, OldImages
<1>18. CASE Terminate
  BY <1>18 DEF Terminate
<1>19. CASE ListManaged
  BY <1>19 DEF ListManaged, Running
<1>20. CASE StopManaged
  BY <1>20 DEF StopManaged
<1>21. CASE StopProxy
  BY <1>21 DEF StopProxy
<1>22. CASE Exit \/ Crash
  BY <1>22 DEF Exit, Crash, Gone
<1>23. CASE Boot
  BY <1>23 DEF Boot
<1>24. CASE \E c \in Containers : ContainerDies(c)
  BY <1>24 DEF ContainerDies
<1>25. CASE UNCHANGED vars
  BY <1>25 DEF vars
<1> QED
  BY <1>1, <1>2, <1>3, <1>4, <1>5, <1>6, <1>7, <1>8, <1>9, <1>10, <1>11, <1>12, <1>13, <1>14,
     <1>15, <1>16, <1>17, <1>18, <1>19, <1>20, <1>21, <1>22, <1>23, <1>24, <1>25
  DEF Next, Undisturbed, RunContainer, Shutdown

LEMMA TickInvNext == TickInv /\ [Next]_vars => TickInv'
BY TypeNext, LocalsNext, ProxyNext DEF TickInv

(***************************************************************************)
(* Type correctness of RunContainer and of the shutdown beside it; with it *)
(* which containers the variables of the tick name in which phase, and     *)
(* when the proxy listens.                                                 *)
(***************************************************************************)
THEOREM TickInvariant == Spec => [](TypeOK /\ LocalsOK /\ ProxyOK)
<1>1. Spec => []TickInv
  BY TickInvInit, TickInvNext, PTL DEF Spec
<1> QED
  BY <1>1, PTL DEF TickInv

-----------------------------------------------------------------------------
(* Running containers never share a port of the host.                      *)
UniquePorts ==
    \A c, d \in Containers :
        status[c] = "running" /\ status[d] = "running" /\ port[c] = port[d] => c = d

LEMMA UniquePortsNext == TickInv /\ UniquePorts /\ [Next]_vars => UniquePorts'
<1> SUFFICES ASSUME TickInv, UniquePorts, [Next]_vars PROVE UniquePorts'
  OBVIOUS
<1>1. CASE StopsSome
  BY <1>1 DEF StopsSome, UniquePorts
<1>2. CASE \E c \in Containers, p \in Ports : Starts(c, p)
  <2>1. PICK c \in Containers, p \in Ports : Starts(c, p)
    BY <1>2
  <2>2. /\ status' = [status EXCEPT ![c] = "running"]
        /\ port' = [port EXCEPT ![c] = p]
        /\ \A d \in Containers : status[d] = "running" => port[d] # p
    BY <2>1 DEF Starts, StartContainer, Live, Running
  <2>3. \A d \in Containers : d # c => status'[d] = status[d] /\ port'[d] = port[d]
    BY <2>2 DEF TickInv, TypeOK
  <2>4. port'[c] = p
    BY <2>2 DEF TickInv, TypeOK
  <2> QED
    BY <2>2, <2>3, <2>4 DEF UniquePorts
<1> QED
  BY <1>1, <1>2, BoxStep

-----------------------------------------------------------------------------
(* A failed deploy *)

(* A tick that may still fail, or has failed.                              *)
MayFail ==
    \/ pc \in {"check", "pull", "expose", "find", "run", "undo", "kill"} \cup Starting
    \/ pc = "idle" /\ outcome = "err"

(* The load balancer has what it had, and one entry for each of these.     *)
Surplus(set) ==
    \A p \in Ports : Entries(backends, p)
                        = Entries(before, p) + Cardinality({c \in set : port[c] = p})

EntriesOK == listening /\ MayFail => Surplus(Placed)

(* A set of containers is finite.                                          *)
LEMMA FiniteContainers ==
    ASSUME NEW S \in SUBSET Containers
    PROVE  IsFiniteSet(S) /\ Cardinality(S) \in Nat
BY ConstantsAssumption, FS_Subset, FS_CardinalityType

(* Steps that leave the load balancer and what is placed in it alone.      *)
LEMMA SurplusFrame ==
    ASSUME EntriesOK, UNCHANGED <<backends, before, listening>>, MayFail' => MayFail,
           Placed' = Placed, \A c \in Placed : port'[c] = port[c]
    PROVE  EntriesOK'
<1> SUFFICES ASSUME Surplus(Placed) PROVE Surplus(Placed)'
  BY DEF EntriesOK
<1>1. \A p : {c \in Placed' : port'[c] = p} = {c \in Placed : port[c] = p}
  OBVIOUS
<1> QED
  BY <1>1 DEF Surplus

(* AddBackend: one entry more, for the container that is placed.           *)
LEMMA AddCounts ==
    ASSUME TickInv, pc = "add", AddProxyBackend(port[cur]), UNCHANGED port,
           fresh' = fresh \cup {cur}, NEW p \in Ports
    PROVE  LET placed == {c \in fresh : port[c] = p}
           IN  /\ Entries(backends, p) \in Nat /\ Entries(backends, p)' \in Nat
               /\ Cardinality(placed) \in Nat /\ Cardinality(placed)' \in Nat
               /\ Entries(backends, p)' - Entries(backends, p)
                     = Cardinality(placed)' - Cardinality(placed)
<1> DEFINE F == {c \in fresh : port[c] = p}
           G == {c \in fresh' : port'[c] = p}
<1>1. cur \in Containers \ fresh /\ port[cur] \in Ports
  BY DEF TickInv, LocalsOK, Starting
<1>2. backends \in Seq(Ports) /\ fresh \in SUBSET Containers
  BY DEF TickInv, TypeOK
<1>3. Entries(backends, p)' = IF p = port[cur] THEN Entries(backends, p) + 1
                                               ELSE Entries(backends, p)
  <2>1. backends' = Append(backends, port[cur])
    BY DEF AddProxyBackend
  <2>2. Entries(Append(backends, port[cur]), p)
          = IF p = port[cur] THEN Entries(backends, p) + 1 ELSE Entries(backends, p)
    BY <1>1, <1>2, EntriesAppend
  <2> QED
    BY <2>1, <2>2 DEF Entries
<1>4. G = (IF p = port[cur] THEN F \cup {cur} ELSE F) /\ cur \notin F
  BY <1>1
<1>5. IsFiniteSet(F) /\ Cardinality(F) \in Nat
  BY <1>2, FiniteContainers
<1>6. Cardinality(G) = IF p = port[cur] THEN Cardinality(F) + 1 ELSE Cardinality(F)
  <2> HIDE DEF F, G
  <2> QED
    BY <1>4, <1>5, FS_AddElement
<1>7. Entries(backends, p) \in Nat
  BY <1>2, EntriesNat
<1> HIDE DEF F, G
<1> QED
  BY <1>3, <1>5, <1>6, <1>7 DEF F, G

LEMMA SurplusAdd ==
    ASSUME TickInv, Surplus(fresh), pc = "add", AddProxyBackend(port[cur]),
           UNCHANGED <<before, port>>, fresh' = fresh \cup {cur}
    PROVE  Surplus(fresh)'
<1> SUFFICES ASSUME NEW p \in Ports
             PROVE  Entries(backends, p)'
                      = Entries(before, p)' + Cardinality({c \in fresh' : port'[c] = p})
  BY DEF Surplus
<1>1. Entries(backends, p) = Entries(before, p) + Cardinality({c \in fresh : port[c] = p})
  BY DEF Surplus
<1>2. Entries(before, p) \in Nat /\ Entries(before, p)' = Entries(before, p)
  <2>1. Entries(before, p) \in Nat
    BY EntriesNat DEF TickInv, TypeOK
  <2> QED
    BY <2>1 DEF Entries
<1>3. /\ Cardinality({c \in fresh : port[c] = p}) \in Nat
      /\ Cardinality({c \in fresh' : port'[c] = p}) \in Nat
      /\ Entries(backends, p)' \in Nat
      /\ Entries(backends, p)' - Entries(backends, p)
            = Cardinality({c \in fresh' : port'[c] = p}) - Cardinality({c \in fresh : port[c] = p})
  BY AddCounts
<1> QED
  BY <1>1, <1>2, <1>3

(* One step of rollback: one entry less, for the container that is undone. *)
LEMMA UndoCounts ==
    ASSUME TickInv, listening, NEW d \in undo, RemoveBackend(port[d]), UNCHANGED port,
           undo' = undo \ {d}, Contains(backends, port[d]), NEW p \in Ports
    PROVE  LET placed == {c \in undo : port[c] = p}
           IN  /\ Entries(backends, p) \in Nat /\ Entries(backends, p)' \in Int
               /\ Cardinality(placed) \in Nat /\ Cardinality(placed)' \in Int
               /\ Entries(backends, p)' - Entries(backends, p)
                     = Cardinality(placed)' - Cardinality(placed)
<1> DEFINE F == {c \in undo : port[c] = p}
           G == {c \in undo' : port'[c] = p}
<1>1. backends \in Seq(Ports) /\ undo \in SUBSET Containers
  BY DEF TickInv, TypeOK
<1>2. backends' = RemoveFirst(backends, port[d])
  BY DEF RemoveBackend
<1>3. Entries(backends, p)' = IF p = port[d] THEN Entries(backends, p) - 1
                                             ELSE Entries(backends, p)
  <2>1. Entries(RemoveFirst(backends, port[d]), p)
          = IF p = port[d] THEN Entries(backends, p) - 1 ELSE Entries(backends, p)
    BY <1>1, EntriesRemoveFirst
  <2> QED
    BY <1>2, <2>1 DEF Entries
<1>4. G = (IF p = port[d] THEN F \ {d} ELSE F) /\ (p = port[d] => d \in F)
  OBVIOUS
<1>5. IsFiniteSet(F) /\ Cardinality(F) \in Nat
  BY <1>1, FiniteContainers
<1>6. Cardinality(G) = IF p = port[d] THEN Cardinality(F) - 1 ELSE Cardinality(F)
  <2> HIDE DEF F, G
  <2> QED
    BY <1>4, <1>5, FS_RemoveElement
<1>7. Entries(backends, p) \in Nat
  BY <1>1, EntriesNat
<1> HIDE DEF F, G
<1> QED
  BY <1>3, <1>5, <1>6, <1>7 DEF F, G

(* What is to be undone is in the load balancer.                           *)
LEMMA UndoFinds ==
    ASSUME TickInv, Surplus(undo), NEW d \in undo, port[d] \in Ports
    PROVE  Contains(backends, port[d])
<1> DEFINE F == {c \in undo : port[c] = port[d]}
<1>0. backends \in Seq(Ports) /\ before \in Seq(Ports) /\ undo \in SUBSET Containers
  BY DEF TickInv, TypeOK
<1>1. IsFiniteSet(F) /\ Cardinality(F) \in Nat /\ F # {}
  BY <1>0, FiniteContainers
<1>2. Entries(backends, port[d]) = Entries(before, port[d]) + Cardinality(F)
  BY DEF Surplus
<1> HIDE DEF F
<1>3. Cardinality(F) # 0
  BY <1>1, FS_EmptySet
<1>4. Entries(before, port[d]) \in Nat
  BY <1>0, EntriesNat
<1>5. Entries(backends, port[d]) # 0
  BY <1>1, <1>2, <1>3, <1>4
<1> QED
  BY <1>0, <1>5, EntriesNat

LEMMA SurplusUndo ==
    ASSUME TickInv, Surplus(undo), listening, NEW d \in undo, RemoveBackend(port[d]),
           UNCHANGED <<before, port>>, undo' = undo \ {d}, port[d] \in Ports
    PROVE  Surplus(undo)'
<1> SUFFICES ASSUME NEW p \in Ports
             PROVE  Entries(backends, p)'
                      = Entries(before, p)' + Cardinality({c \in undo' : port'[c] = p})
  BY DEF Surplus
<1>1. Entries(backends, p) = Entries(before, p) + Cardinality({c \in undo : port[c] = p})
  BY DEF Surplus
<1>2. Entries(before, p) \in Nat /\ Entries(before, p)' = Entries(before, p)
  <2>1. Entries(before, p) \in Nat
    BY EntriesNat DEF TickInv, TypeOK
  <2> QED
    BY <2>1 DEF Entries
<1>3. /\ Cardinality({c \in undo : port[c] = p}) \in Nat
      /\ Cardinality({c \in undo' : port'[c] = p}) \in Int
      /\ Entries(backends, p)' \in Int
      /\ Entries(backends, p)' - Entries(backends, p)
            = Cardinality({c \in undo' : port'[c] = p}) - Cardinality({c \in undo : port[c] = p})
  BY UndoFinds, UndoCounts
<1> QED
  BY <1>1, <1>2, <1>3

LEMMA EntriesNext == TickInv /\ EntriesOK /\ [Next]_vars => EntriesOK'
<1> SUFFICES ASSUME TickInv, EntriesOK, [Next]_vars PROVE EntriesOK'
  OBVIOUS
<1>t. TypeOK /\ LocalsOK /\ TypeOK'
  BY TypeNext DEF TickInv
<1> USE DEF Goto, EndTick, tickVars, boxVars, sigVars, localVars
<1>1. CASE ~listening' \/ ~MayFail'
  BY <1>1 DEF EntriesOK
<1>2. CASE /\ UNCHANGED <<backends, before, listening, port>>
           /\ MayFail' => MayFail /\ Placed' = Placed
  BY <1>1, <1>2, SurplusFrame
<1>3. CASE ResolveContainerCurrent
  <2>1. before' = backends /\ UNCHANGED backends /\ (Placed' = {} \/ ~MayFail')
    BY <1>3, <1>t DEF ResolveContainerCurrent, Placed, MayFail, Starting, LocalsOK, Early
  <2>2. \A p \in Ports : Entries(backends, p)' = Entries(before, p)'
    BY <2>1 DEF Entries
  <2>3. Surplus({})'
    <3>1. \A p : {c \in {} : port'[c] = p} = {}
      OBVIOUS
    <3>2. \A p \in Ports : Entries(before, p)' \in Nat
      BY <1>t, EntriesNat DEF TypeOK
    <3> QED
      BY <2>2, <3>1, <3>2, FS_EmptySet DEF Surplus
  <2> QED
    BY <2>1, <2>3 DEF EntriesOK
<1>4. CASE RunNew
  <2>1. UNCHANGED <<backends, before, listening>> /\ (MayFail' => MayFail) /\ Placed' = Placed
    BY <1>4 DEF RunNew, Rollback, Placed, MayFail, Starting
  <2>2. \A c \in Placed : port'[c] = port[c]
    BY <1>4, <1>t DEF RunNew, StartContainer, Unnamed, Placed, TypeOK
  <2> QED
    BY <2>1, <2>2, SurplusFrame
<1>5. CASE AddBackend
  <2>1. CASE ~listening
    BY <1>5, <2>1 DEF AddBackend, EntriesOK
  <2>2. CASE listening
    <3>1. AddProxyBackend(port[cur]) /\ fresh' = fresh \cup {cur} /\ UNCHANGED <<before, port>>
      BY <1>5, <2>2 DEF AddBackend
    <3>2. pc = "add" /\ Surplus(fresh)
      BY <1>5, <2>2 DEF AddBackend, EntriesOK, MayFail, Placed, Starting
    <3>3. Surplus(fresh)'
      BY <3>1, <3>2, SurplusAdd
    <3>4. ~MayFail' \/ Placed' = fresh'
      BY <1>5, <2>2 DEF AddBackend, MayFail, Placed, Starting
    <3> QED
      BY <3>3, <3>4 DEF EntriesOK
  <2> QED
    BY <2>1, <2>2
<1>6. CASE UndoBackend
  <2>1. CASE undo = {}
    BY <1>2, <1>6, <2>1 DEF UndoBackend, MayFail, Placed
  <2>2. ASSUME listening, NEW d \in undo, RemoveBackend(port[d]), undo' = undo \ {d}
        PROVE  EntriesOK'
    <3>1. pc = "undo" /\ pc' = "undo" /\ UNCHANGED <<before, port>>
      BY <1>6 DEF UndoBackend
    <3>2. Surplus(undo)
      BY <2>2, <3>1 DEF EntriesOK, MayFail, Placed
    <3>3. port[d] \in Ports
      BY <1>t DEF LocalsOK
    <3>4. Surplus(undo)'
      BY <2>2, <3>1, <3>2, <3>3, SurplusUndo
    <3> QED
      BY <3>1, <3>4 DEF EntriesOK, Placed
  <2>3. CASE ~listening
    BY <1>6, <2>3 DEF UndoBackend, EntriesOK
  <2> QED
    BY <1>6, <2>1, <2>2, <2>3 DEF UndoBackend
<1>7. CASE FindExisting \/ GetMappedPort \/ CheckHealth \/ Discard \/ UndoContainer
  <2>1. UNCHANGED <<backends, before, listening, port>>
    BY <1>7 DEF FindExisting, GetMappedPort, CheckHealth, Discard, UndoContainer
  <2>2. MayFail' => MayFail /\ Placed' = Placed
    BY <1>7, <1>t DEF FindExisting, GetMappedPort, CheckHealth, Discard, UndoContainer, MayFail,
       Placed, Starting, LocalsOK, Early, Rollback
  <2> QED
    BY <2>1, <2>2, <1>2
<1>8. CASE ResolveContainerState \/ PullImage \/ ResolvePortMappings
  <2>1. UNCHANGED <<backends, before, listening, port>>
    BY <1>8 DEF ResolveContainerState, PullImage, ResolvePortMappings
  <2>2. MayFail' => MayFail /\ Placed' = Placed
    BY <1>8, <1>t DEF ResolveContainerState, PullImage, ResolvePortMappings, Pull, MayFail, Placed,
       Starting, LocalsOK, Early
  <2> QED
    BY <2>1, <2>2, <1>2
<1>9. CASE DrainOld \/ StopOld \/ RemoveExited \/ CleanupOldImages
  <2>1. ~MayFail'
    BY <1>9 DEF DrainOld, StopOld, RemoveExited, CleanupOldImages, MayFail, Starting
  <2> QED
    BY <2>1, <1>1
<1>10. CASE StopProxy \/ Exit \/ Crash \/ Boot
  BY <1>1, <1>10 DEF StopProxy, Exit, Crash, Gone, Boot, MayFail, Starting
<1>11. CASE \/ \E i \in Images : Publish(i)
            \/ Terminate \/ ListManaged \/ StopManaged
            \/ \E c \in Containers : ContainerDies(c)
            \/ UNCHANGED vars
  <2>1. UNCHANGED <<backends, before, listening, port, tickVars>>
    BY <1>11 DEF Publish, Terminate, ListManaged, StopManaged, ContainerDies, vars
  <2> QED
    BY <2>1, <1>2 DEF MayFail, Placed
<1> QED
  BY <1>3, <1>4, <1>5, <1>6, <1>7, <1>8, <1>9, <1>10, <1>11
  DEF Next, Undisturbed, RunContainer, Shutdown

(***************************************************************************)
(* A failed deploy leaves the backends as it found them: for any number of *)
(* replicas, whichever call failed, whatever dies, crashes or is signalled *)
(* meanwhile (rollback in container/deploy.go).  The invariant counts for  *)
(* each port what the tick has put into the load balancer so far.          *)
(***************************************************************************)
THEOREM RollbackRestoresTheorem == Spec => []RollbackRestores
<1>1. Init => EntriesOK
  BY DEF Init, EntriesOK, MayFail, Starting
<1>2. TickInv /\ EntriesOK => RollbackRestores
  <2> SUFFICES ASSUME TickInv, EntriesOK, pc = "idle", outcome = "err", listening,
                      NEW p \in Ports
               PROVE  Entries(backends, p) = Entries(before, p)
    BY DEF RollbackRestores
  <2>1. Surplus({})
    BY DEF EntriesOK, MayFail, Placed
  <2>2. {c \in {} : port[c] = p} = {}
    OBVIOUS
  <2>3. Entries(before, p) \in Nat
    BY EntriesNat DEF TickInv, TypeOK
  <2> QED
    BY <2>1, <2>2, <2>3, FS_EmptySet DEF Surplus
<1> QED
  BY <1>1, <1>2, TickInvInit, TickInvNext, EntriesNext, PTL DEF Spec

-----------------------------------------------------------------------------
(* A deploy while traffic is served *)

(* A container that runs and is in the load balancer.                      *)
Balanced(c) == status[c] = "running" /\ Contains(backends, port[c])

(* The replicas of this deploy are in the load balancer until they are     *)
(* rolled back; as long as there are not enough of them, some container    *)
(* the deploy has not started is there.                                    *)
ServiceOK ==
    sig = "none" =>
        /\ pc \in {"run"} \cup Starting \cup Replacing => \A c \in fresh : Balanced(c)
        /\ pc \in Starting => status[cur] = "running"
        /\ pc = "undo" => \A c \in undo : status[c] = "running"
        /\ served /\ pc \notin Replacing => \E c \in Containers \ (fresh \cup {cur}) : Balanced(c)

LEMMA RemoveBackendKeeps ==
    ASSUME TypeOK, NEW p, RemoveBackend(p), NEW q, q # p, Contains(backends, q)
    PROVE  Contains(backends, q)'
<1>1. backends \in Seq(Ports)
  BY DEF TypeOK
<1>2. CASE listening /\ Contains(backends, p)
  <2>1. backends' = RemoveFirst(backends, p)
    BY <1>2 DEF RemoveBackend
  <2>2. Contains(RemoveFirst(backends, p), q)
    BY <1>1, <1>2, RemoveFirstEntries
  <2> QED
    BY <2>1, <2>2 DEF Contains
<1>3. CASE ~ (listening /\ Contains(backends, p))
  <2>1. UNCHANGED backends
    BY <1>3 DEF RemoveBackend
  <2> QED
    BY <2>1 DEF Contains
<1> QED
  BY <1>2, <1>3

(* A running container stays in the load balancer when another one that    *)
(* runs is taken out.                                                      *)
LEMMA TakeOutOther ==
    ASSUME TypeOK, UniquePorts, NEW c \in Containers, Balanced(c),
           NEW d \in Containers, d # c, status[d] = "running", RemoveBackend(port[d]),
           UNCHANGED <<status, port>>
    PROVE  Balanced(c)'
<1>1. port[c] # port[d]
  BY DEF UniquePorts, Balanced
<1>2. Contains(backends', port[c])
  BY <1>1, RemoveBackendKeeps DEF Balanced
<1> QED
  BY <1>2 DEF Balanced

(* ... and when another one is stopped.                                    *)
LEMMA StopOther ==
    ASSUME TypeOK, NEW c \in Containers, Balanced(c), NEW d \in Containers, d # c,
           StopAndRemove(d), UNCHANGED <<port, backends>>
    PROVE  Balanced(c)'
<1>1. status'[c] = status[c]
  BY StopOne
<1> QED
  BY <1>1 DEF Balanced, Contains

LEMMA SameBalance ==
    ASSUME UNCHANGED <<status, port, backends>>
    PROVE  \A c : Balanced(c)' <=> Balanced(c)
BY DEF Balanced, Contains

(* What traffic is served by.                                              *)
LEMMA ServingBalanced ==
    TypeOK => (Serving <=> listening /\ \E c \in Containers : Balanced(c))
<1> SUFFICES ASSUME TypeOK
             PROVE  (\E i \in DOMAIN backends : Live(backends[i]))
                       <=> \E c \in Containers : Balanced(c)
  BY DEF Serving
<1>1. DOMAIN backends = 1..Len(backends)
  BY LenProperties DEF TypeOK
<1> QED
  BY <1>1 DEF Live, Running, Balanced, Contains

LEMMA ServiceNext ==
    ASSUME ~Podman, "die" \notin FaultKinds,
           TickInv, UniquePorts, ServiceOK, [Next]_vars
    PROVE  ServiceOK'
<1>t. TypeOK /\ LocalsOK /\ ProxyOK
  BY DEF TickInv
<1> USE ConstantsAssumption
<1> USE DEF Goto, EndTick, tickVars, boxVars, sigVars, localVars, Early, Starting, Replacing
<1>1. CASE sig' # "none"
  BY <1>1 DEF ServiceOK
<1>2. CASE Exit \/ Crash
  BY <1>2 DEF Exit, Crash, Gone, ServiceOK
<1> SUFFICES ASSUME sig = "none", sig' = "none", ~ (Exit \/ Crash)
             PROVE  ServiceOK'
  <2>1. sig = "none" \/ sig' # "none" \/ Exit \/ Crash
    BY DEF Next, Undisturbed, RunContainer, Shutdown, Publish, ResolveContainerCurrent,
      ResolveContainerState, PullImage, ResolvePortMappings, FindExisting, RunNew, GetMappedPort,
      CheckHealth, Discard, AddBackend, UndoBackend, UndoContainer, DrainOld, StopOld,
      RemoveExited, CleanupOldImages, Terminate, ListManaged, StopManaged, StopProxy, Boot,
      ContainerDies, vars
  <2> QED
    BY <1>1, <1>2, <2>1
<1>3. CASE UNCHANGED <<status, port, backends, tickVars>>
  BY <1>3, SameBalance DEF ServiceOK
<1>4. CASE ResolveContainerCurrent
  <2>1. \A c : Balanced(c)' <=> Balanced(c)
    BY <1>4, SameBalance DEF ResolveContainerCurrent
  <2>2. served' => \E c \in Containers : Balanced(c)
    <3>1. served' => served \/ Serving
      BY <1>4, Zenon DEF ResolveContainerCurrent
    <3>2. served => \E c \in Containers : Balanced(c)
      BY <1>4 DEF ResolveContainerCurrent, ServiceOK
    <3>3. Serving => \E c \in Containers : Balanced(c)
      BY <1>t, ServingBalanced
    <3> QED
      BY <3>1, <3>2, <3>3
  <2>3. fresh' = {} /\ cur' = NoContainer /\ pc' \in {"idle", "check"}
    BY <1>4, <1>t DEF ResolveContainerCurrent, LocalsOK
  <2> QED
    BY <2>1, <2>2, <2>3 DEF ServiceOK
<1>5. CASE ResolveContainerState \/ PullImage \/ ResolvePortMappings \/ FindExisting \/ Boot
  <2>1. \A c : Balanced(c)' <=> Balanced(c)
    BY <1>5, SameBalance
    DEF ResolveContainerState, PullImage, ResolvePortMappings, FindExisting, Boot
  <2>2. fresh' = {} /\ cur' = NoContainer /\ pc' \in Early \cup {"run"} /\ pc \notin Replacing
    BY <1>5, <1>t
    DEF ResolveContainerState, PullImage, Pull, ResolvePortMappings, FindExisting, Boot, LocalsOK
  <2>3. served' => \E c \in Containers : Balanced(c)
    BY <1>5, <2>2
    DEF ResolveContainerState, PullImage, ResolvePortMappings, FindExisting, Boot, ServiceOK
  <2> QED
    BY <2>1, <2>2, <2>3 DEF ServiceOK
<1>6. CASE RunNew
  <2>1. CASE Rollback(fresh) /\ UNCHANGED <<status, port>>
    <3>1. \A c : Balanced(c)' <=> Balanced(c)
      BY <1>6, <2>1, SameBalance DEF RunNew
    <3> QED
      BY <1>6, <1>t, <2>1, <3>1 DEF RunNew, Rollback, ServiceOK, LocalsOK, Balanced
  <2>2. ASSUME NEW c \in Containers, NEW p \in Ports, Starts(c, p)
        PROVE  ServiceOK'
    <3>1. status[c] # "running" /\ c \notin fresh
      BY <2>2 DEF Starts, Unnamed
    <3>2. \A d \in Containers : d # c => (Balanced(d)' <=> Balanced(d))
      BY <1>t, <2>2 DEF Starts, StartContainer, Balanced, Contains, TypeOK
    <3>3. \A d \in Containers : Balanced(d) => d # c
      BY <3>1 DEF Balanced
    <3>4. /\ pc = "run" /\ pc' = "port" /\ cur' = c /\ fresh' = fresh /\ undo' = undo
          /\ served' = served /\ fresh \subseteq Containers /\ status'[c] = "running"
      BY <2>2, <1>t DEF Starts, StartContainer, TypeOK
    <3> QED
      BY <3>1, <3>2, <3>3, <3>4 DEF ServiceOK
  <2> QED
    <3>1. \/ Rollback(fresh) /\ UNCHANGED <<status, port>>
          \/ \E c \in Containers, p \in Ports : Starts(c, p)
      BY <1>6 DEF RunNew, Starts, Unnamed
    <3> QED
      BY <2>1, <2>2, <3>1
<1>7. CASE GetMappedPort \/ CheckHealth
  <2>1. cur \in Containers \ fresh /\ fresh \subseteq Containers
    BY <1>7, <1>t DEF GetMappedPort, CheckHealth, LocalsOK, TypeOK
  <2>2. \A c \in Containers : status'[c] = "running" <=> status[c] = "running"
    BY <1>7, <1>t DEF GetMappedPort, CheckHealth, Running, TypeOK
  <2>3. \A c \in Containers : Balanced(c)' <=> Balanced(c)
    BY <1>7, <2>2 DEF GetMappedPort, CheckHealth, Balanced, Contains
  <2>4. /\ pc \in {"port", "health"} /\ UNCHANGED <<fresh, served>>
        /\ \/ pc' \in {"health", "add", "discard"} /\ UNCHANGED <<cur, undo>>
           \/ pc' = "undo" /\ undo' = fresh /\ cur' = NoContainer
    BY <1>7 DEF GetMappedPort, CheckHealth, Rollback
  <2> QED
    BY <2>1, <2>2, <2>3, <2>4 DEF ServiceOK, Balanced
<1>8. CASE Discard
  <2>1. cur \in Containers \ fresh /\ fresh \subseteq Containers
    BY <1>8, <1>t DEF Discard, LocalsOK, TypeOK
  <2>2. StopAndRemove(cur) /\ UNCHANGED <<port, backends, fresh, served>>
    BY <1>8 DEF Discard, Rollback
  <2>3. \A c \in Containers : c # cur /\ Balanced(c) => Balanced(c)'
    BY <1>t, <2>1, <2>2, StopOther
  <2>4. pc = "discard" /\ pc' = "undo" /\ undo' = fresh /\ cur' = NoContainer
    BY <1>8 DEF Discard, Rollback
  <2>5. \A c \in fresh : Balanced(c)'
    BY <2>1, <2>3, <2>4 DEF ServiceOK
  <2>6. \A c \in undo' : status'[c] = "running"
    BY <2>4, <2>5 DEF Balanced
  <2>7. served' => \E c \in Containers \ (fresh' \cup {cur'}) : Balanced(c)'
    BY <2>1, <2>2, <2>3, <2>4 DEF ServiceOK
  <2> QED
    BY <2>4, <2>6, <2>7 DEF ServiceOK
<1>9. CASE AddBackend
  <2>1. PICK d \in Containers \ fresh : d = cur /\ port[d] \in Ports
    BY <1>9, <1>t DEF AddBackend, LocalsOK
  <2>2. listening /\ fresh \subseteq Containers
    BY <1>9, <1>t DEF AddBackend, ProxyOK, TypeOK
  <2>3. /\ backends' = Append(backends, port[d])
        /\ pc = "add" /\ fresh' = fresh \cup {d} /\ cur' = NoContainer
        /\ pc' \in {"run", "drain"}
        /\ UNCHANGED <<status, port, served>>
    BY <1>9, <2>1, <2>2 DEF AddBackend, AddProxyBackend
  <2>4. \A q : Contains(backends', q) <=> Contains(backends, q) \/ q = port[d]
    BY <1>t, <2>1, <2>3, AppendEntries DEF TypeOK
  <2>5. \A c : Balanced(c) => Balanced(c)'
    BY <2>3, <2>4 DEF Balanced
  <2>6. Balanced(d)'
    BY <2>1, <2>3, <2>4 DEF Balanced, ServiceOK
  <2>7. \A c \in fresh' : Balanced(c)'
    BY <2>3, <2>5, <2>6 DEF ServiceOK
  <2>8. served' => \E c \in Containers \ (fresh' \cup {cur'}) : Balanced(c)'
    BY <2>1, <2>3, <2>5 DEF ServiceOK
  <2> QED
    BY <2>3, <2>7, <2>8 DEF ServiceOK
<1>10. CASE UndoBackend
  <2>1. CASE undo = {}
    BY <1>10, <2>1, SameBalance DEF UndoBackend, ServiceOK
  <2>2. ASSUME NEW d \in undo, RemoveBackend(port[d]), undo' = undo \ {d}
        PROVE  ServiceOK'
    <3>1. pc = "undo" /\ pc' = "undo" /\ UNCHANGED <<status, port, fresh, cur, served>>
      BY <1>10 DEF UndoBackend
    <3>2. d \in Containers /\ d \in fresh /\ status[d] = "running"
      BY <1>t, <3>1 DEF TypeOK, LocalsOK, ServiceOK
    <3>3. \A c \in Containers : c # d /\ Balanced(c) => Balanced(c)'
      BY <1>t, <2>2, <3>1, <3>2, TakeOutOther
    <3>4. served' => \E c \in Containers \ (fresh' \cup {cur'}) : Balanced(c)'
      BY <3>1, <3>2, <3>3 DEF ServiceOK
    <3> QED
      BY <2>2, <3>1, <3>4 DEF ServiceOK
  <2> QED
    BY <1>10, <2>1, <2>2 DEF UndoBackend
<1>11. CASE UndoContainer
  <2>1. CASE fresh = {} /\ EndTick("err") /\ UNCHANGED status
    BY <1>11, <2>1, SameBalance DEF UndoContainer, ServiceOK
  <2>2. ASSUME NEW d \in fresh, StopAndRemove(d), fresh' = fresh \ {d}, UNCHANGED <<pc, cur>>
        PROVE  ServiceOK'
    <3>1. pc = "kill" /\ UNCHANGED <<port, backends, served>> /\ d \in Containers
      BY <1>11, <1>t DEF UndoContainer, TypeOK
    <3>2. \A c \in Containers : c # d /\ Balanced(c) => Balanced(c)'
      BY <1>t, <2>2, <3>1, StopOther
    <3>3. served' => \E c \in Containers \ (fresh' \cup {cur'}) : Balanced(c)'
      BY <2>2, <3>1, <3>2 DEF ServiceOK
    <3> QED
      BY <2>2, <3>1, <3>3 DEF ServiceOK
  <2> QED
    BY <1>11, <2>1, <2>2 DEF UndoContainer
<1>12. CASE DrainOld
  <2>1. /\ pc = "drain" /\ pc' \in {"stop", "reap"}
        /\ UNCHANGED <<status, port, fresh>> /\ fresh \subseteq Containers
    BY <1>12, <1>t DEF DrainOld, TypeOK
  <2>2. CASE UNCHANGED backends
    BY <2>1, <2>2, SameBalance DEF ServiceOK
  <2>3. ASSUME NEW d \in old, HasPort(d), RemoveBackend(port[d])
        PROVE  ServiceOK'
    <3>1. d \in Containers /\ d \notin fresh /\ status[d] = "running"
      BY <1>t, <2>3 DEF TypeOK, LocalsOK, HasPort, Running
    <3>2. \A c \in fresh : Balanced(c)'
      BY <1>t, <2>1, <2>3, <3>1, TakeOutOther DEF ServiceOK
    <3> QED
      BY <2>1, <3>2 DEF ServiceOK
  <2> QED
    BY <1>12, <2>2, <2>3 DEF DrainOld
<1>13. CASE StopOld
  <2>1. PICK d \in Containers : d = cur /\ d \notin fresh
    BY <1>13, <1>t DEF StopOld, LocalsOK, TypeOK
  <2>2. /\ pc = "stop" /\ pc' = "drain" /\ StopAndRemove(d)
        /\ UNCHANGED <<port, backends, fresh>> /\ fresh \subseteq Containers
    BY <1>13, <1>t, <2>1 DEF StopOld, TypeOK
  <2>3. \A c \in fresh : Balanced(c)'
    BY <1>t, <2>1, <2>2, StopOther DEF ServiceOK
  <2> QED
    BY <2>2, <2>3 DEF ServiceOK
<1>14. CASE RemoveExited
  <2>1. \A c \in Containers : Balanced(c) => Balanced(c)'
    BY <1>14, <1>t DEF RemoveExited, Balanced, Contains, TypeOK
  <2>2. pc = "reap" /\ pc' = "prune" /\ UNCHANGED fresh /\ fresh \subseteq Containers
    BY <1>14, <1>t DEF RemoveExited, TypeOK
  <2> QED
    BY <2>1, <2>2 DEF ServiceOK
<1>15. CASE CleanupOldImages
  <2>1. UNCHANGED <<status, port, backends>> /\ pc = "prune" /\ pc' = "idle"
    BY <1>15 DEF CleanupOldImages, RemoveImages
  <2>2. fresh' = {} /\ cur' = NoContainer
    BY <1>15 DEF CleanupOldImages
  <2>3. fresh \subseteq Containers /\ fresh # {}
    BY <1>t, <2>1, FS_EmptySet DEF LocalsOK, TypeOK
  <2>4. \E c \in Containers : Balanced(c)
    BY <2>1, <2>3 DEF ServiceOK
  <2>5. \E c \in Containers : Balanced(c)'
    BY <2>1, <2>4, SameBalance
  <2> QED
    BY <2>1, <2>2, <2>5 DEF ServiceOK
<1>16. CASE \/ \E i \in Images : Publish(i)
            \/ Terminate \/ ListManaged \/ StopManaged \/ StopProxy
            \/ \E c \in Containers : ContainerDies(c)
            \/ UNCHANGED vars
  BY <1>3, <1>16 DEF Publish, Terminate, ListManaged, StopManaged, StopProxy, ContainerDies,
     Fault, vars
<1> QED
  BY <1>4, <1>5, <1>6, <1>7, <1>8, <1>9, <1>10, <1>11, <1>12, <1>13, <1>14, <1>15, <1>16
  DEF Next, Undisturbed, RunContainer, Shutdown

(* Whatever phase the deploy is in, the service has a container.           *)
LEMMA ServedIsBalanced ==
    ASSUME TickInv, ServiceOK, served, sig = "none"
    PROVE  \E c \in Containers : Balanced(c)
<1>1. CASE pc \in Replacing
  <2>1. fresh \subseteq Containers /\ fresh # {}
    BY <1>1, ConstantsAssumption, FS_EmptySet DEF TickInv, LocalsOK, TypeOK
  <2> QED
    BY <1>1, <2>1 DEF ServiceOK
<1>2. CASE pc \notin Replacing
  BY <1>2 DEF ServiceOK
<1> QED
  BY <1>1, <1>2

(***************************************************************************)
(* No deploy interrupts a service that was up, for any number of replicas  *)
(* and whatever call of the runtime, the registry or the health check      *)
(* fails, crashes of dewy included, as long as containers die neither by   *)
(* themselves nor by podman's removal of their image.                      *)
(***************************************************************************)
THEOREM NoOutageTheorem ==
    ASSUME ~Podman, "die" \notin FaultKinds
    PROVE  Spec => []NoOutage
<1> DEFINE Inv == TickInv /\ UniquePorts /\ ServiceOK
<1>1. Init => Inv
  BY TickInvInit DEF Init, UniquePorts, ServiceOK, Starting, Replacing
<1>2. Inv /\ [Next]_vars => Inv'
  BY TickInvNext, UniquePortsNext, ServiceNext
<1>3. Inv => NoOutage
  <2> SUFFICES ASSUME Inv, served, sig = "none" PROVE Serving
    BY DEF NoOutage
  <2>1. pc # "down" /\ listening
    BY DEF TickInv, ProxyOK
  <2>2. \E c \in Containers : Balanced(c)
    BY ServedIsBalanced
  <2> QED
    BY <2>1, <2>2, ServingBalanced DEF TickInv
<1> QED
  BY <1>1, <1>2, <1>3, PTL DEF Spec

-----------------------------------------------------------------------------
(* After a deploy *)

(* One of these containers runs and has the port.                          *)
ServedBy(set, p) == \E c \in set : status[c] = "running" /\ port[c] = p

(* The load balancer has every port once, and only ports of containers     *)
(* that run; which ones, depends on how far the deploy is.                 *)
ExactOK ==
    sig = "none" =>
        /\ NoDuplicates(backends)
        /\ \A p \in Ports : Contains(backends, p) => ServedBy(Containers, p)
        /\ pc \in {"run"} \cup Starting \cup Replacing =>
              \A p \in Ports : Contains(backends, p) => ServedBy((old \ {cur}) \cup fresh, p)
        /\ pc \in Starting => ~Contains(backends, port[cur])
        /\ pc \in {"undo", "kill"} => \A c \in fresh \ undo : ~Contains(backends, port[c])
        /\ OnlyNewServed

(* As many entries as containers that have them.                           *)
LEMMA ExactLength ==
    ASSUME TypeOK, NoDuplicates(backends), NEW F \in SUBSET Containers,
           \A c \in F : Contains(backends, port[c]),
           \A c, d \in F : port[c] = port[d] => c = d,
           \A i \in 1..Len(backends) : \E c \in F : port[c] = backends[i]
    PROVE  Len(backends) = Cardinality(F)
<1> DEFINE n == Len(backends)
           f == [c \in F |-> CHOOSE i \in 1..n : backends[i] = port[c]]
<1>1. n \in Nat
  BY LenProperties DEF TypeOK
<1>2. \A c \in F : f[c] \in 1..n /\ backends[f[c]] = port[c]
  BY DEF Contains
<1>3. f \in [F -> 1..n]
  <2>1. f = [c \in F |-> f[c]]
    OBVIOUS
  <2> HIDE DEF f, n
  <2> QED
    BY <1>2, <2>1
<1> HIDE DEF f
<1>4. f \in Injection(F, 1..n)
  BY <1>2, <1>3 DEF Injection, IsInjective
<1>5. f \in Surjection(F, 1..n)
  <2>1. \A i \in 1..n : \E c \in F : f[c] = i
    BY <1>2 DEF NoDuplicates
  <2> QED
    BY <1>3, <2>1 DEF Surjection
<1>6. IsFiniteSet(F)
  BY FiniteContainers
<1>7. Cardinality(1..n) = Cardinality(F)
  BY <1>4, <1>5, <1>6, FS_Bijection DEF Bijection, ExistsBijection
<1>8. Cardinality(1..n) = n
  <2> HIDE DEF n
  <2>1. Cardinality(1..n) = IF 1 > n THEN 0 ELSE n - 1 + 1
    BY <1>1, FS_Interval, 1 \in Int, n \in Int
  <2> QED
    BY <1>1, <2>1
<1> QED
  BY <1>7, <1>8

(* RemoveBackend takes the port out altogether, and nothing else.          *)
LEMMA RemoveBackendExact ==
    ASSUME TypeOK, NoDuplicates(backends), listening, NEW p, RemoveBackend(p)
    PROVE  /\ NoDuplicates(backends)'
           /\ ~Contains(backends', p)
           /\ \A q : Contains(backends', q) => Contains(backends, q)
<1>1. backends \in Seq(Ports)
  BY DEF TypeOK
<1>2. CASE Contains(backends, p)
  <2>1. backends' = RemoveFirst(backends, p)
    BY <1>2 DEF RemoveBackend
  <2>2. /\ NoDuplicates(RemoveFirst(backends, p))
        /\ ~Contains(RemoveFirst(backends, p), p)
        /\ \A q : Contains(RemoveFirst(backends, p), q) => Contains(backends, q)
    BY <1>1, <1>2, RemoveFirstEntries
  <2> QED
    BY <2>1, <2>2 DEF NoDuplicates
<1>3. CASE ~Contains(backends, p)
  <2>1. UNCHANGED backends
    BY <1>3 DEF RemoveBackend
  <2> QED
    BY <1>3, <2>1 DEF NoDuplicates
<1> QED
  BY <1>2, <1>3

(* A successful tick ends.                                                 *)
LEMMA ExactEnd ==
    ASSUME TickInv, UniquePorts, ServiceOK, ExactOK, sig = "none", pc = "prune"
    PROVE  /\ Len(backends) = Replicas
           /\ \A i \in DOMAIN backends : \E c \in Running : port[c] = backends[i] /\ image[c] = img
<1>1. /\ old = {} /\ fresh \in SUBSET Containers /\ Cardinality(fresh) = Replicas
      /\ \A c \in fresh : image[c] = img
  BY DEF TickInv, LocalsOK, TypeOK, Replacing
<1>2. \A c \in fresh : status[c] = "running" /\ Contains(backends, port[c])
  BY DEF ServiceOK, Replacing, Balanced
<1>3. \A p \in Ports : Contains(backends, p) => ServedBy(fresh, p)
  BY <1>1 DEF ExactOK, Replacing, ServedBy
<1>4. DOMAIN backends = 1..Len(backends) /\ \A i \in 1..Len(backends) : backends[i] \in Ports
  BY LenProperties, ElementOfSeq DEF TickInv, TypeOK
<1>5. \A i \in 1..Len(backends) : \E c \in fresh : port[c] = backends[i]
  BY <1>3, <1>4 DEF ServedBy, Contains
<1>6. \A c, d \in fresh : port[c] = port[d] => c = d
  BY <1>1, <1>2 DEF UniquePorts
<1>7. Len(backends) = Cardinality(fresh)
  BY <1>1, <1>2, <1>5, <1>6, ExactLength DEF TickInv, ExactOK
<1> QED
  BY <1>1, <1>2, <1>4, <1>5, <1>7 DEF Running

LEMMA ExactNext ==
    ASSUME ~Podman, "die" \notin FaultKinds, "port" \notin FaultKinds,
           TickInv, UniquePorts, ServiceOK, ExactOK, [Next]_vars
    PROVE  ExactOK'
<1>t. TypeOK /\ LocalsOK /\ ProxyOK
  BY DEF TickInv
<1> USE ConstantsAssumption
<1> USE DEF Goto, EndTick, tickVars, boxVars, sigVars, localVars, Early, Starting, Replacing
<1>1. CASE sig' # "none"
  BY <1>1 DEF ExactOK
<1>2. CASE Exit \/ Crash
  <2>1. backends' = <<>> /\ pc' = "down"
    BY <1>2 DEF Exit, Crash, Gone
  <2>2. NoDuplicates(backends)' /\ \A p : ~Contains(backends', p)
    BY <2>1 DEF NoDuplicates, Contains
  <2> QED
    BY <2>1, <2>2 DEF ExactOK, OnlyNewServed
<1> SUFFICES ASSUME sig = "none", sig' = "none", ~ (Exit \/ Crash)
             PROVE  ExactOK'
  <2>1. sig = "none" \/ sig' # "none" \/ Exit \/ Crash
    BY DEF Next, Undisturbed, RunContainer, Shutdown, Publish, ResolveContainerCurrent,
      ResolveContainerState, PullImage, ResolvePortMappings, FindExisting, RunNew, GetMappedPort,
      CheckHealth, Discard, AddBackend, UndoBackend, UndoContainer, DrainOld, StopOld,
      RemoveExited, CleanupOldImages, Terminate, ListManaged, StopManaged, StopProxy, Boot,
      ContainerDies, vars
  <2> QED
    BY <1>1, <1>2, <2>1
<1>e. /\ NoDuplicates(backends)
      /\ \A p \in Ports : Contains(backends, p) => ServedBy(Containers, p)
  BY DEF ExactOK
<1>u. ASSUME UNCHANGED backends
      PROVE  NoDuplicates(backends)' /\ \A p : Contains(backends', p) <=> Contains(backends, p)
  BY <1>u, <1>e DEF NoDuplicates
<1>3. CASE UNCHANGED <<status, image, port, backends, tickVars>>
  <2>1. OnlyNewServed'
    BY <1>3 DEF OnlyNewServed, Running, ExactOK
  <2>2. \A p : ServedBy(Containers, p)' <=> ServedBy(Containers, p)
    BY <1>3 DEF ServedBy
  <2>3. \A p : ServedBy((old \ {cur}) \cup fresh, p)' <=> ServedBy((old \ {cur}) \cup fresh, p)
    BY <1>3 DEF ServedBy
  <2> QED
    BY <1>3, <1>u, <2>1, <2>2, <2>3 DEF ExactOK
<1>4. CASE \/ ResolveContainerCurrent \/ ResolveContainerState \/ PullImage
           \/ ResolvePortMappings \/ FindExisting \/ Boot
  <2>1. UNCHANGED <<status, port, backends>>
    BY <1>4 DEF ResolveContainerCurrent, ResolveContainerState, PullImage, ResolvePortMappings,
                FindExisting, Boot
  <2>2. \A p \in Ports : Contains(backends', p) => ServedBy(Containers, p)'
    BY <1>e, <1>u, <2>1 DEF ServedBy
  <2>3. pc' \in Early \/ (pc' = "run" /\ old' = Running /\ cur' = NoContainer)
    BY <1>4, <1>t DEF ResolveContainerCurrent, ResolveContainerState, PullImage, Pull,
                ResolvePortMappings, FindExisting, Boot, LocalsOK
  <2>4. pc' # "idle" \/ outcome' # "ok"
    BY <1>4 DEF ResolveContainerCurrent, ResolveContainerState, PullImage, Pull,
                ResolvePortMappings, FindExisting, Boot
  <2>5. pc' = "run" => \A p \in Ports : Contains(backends', p)
                                          => ServedBy((old \ {cur}) \cup fresh, p)'
    BY <2>1, <2>2, <2>3 DEF ServedBy, Running
  <2> QED
    BY <1>u, <2>1, <2>2, <2>3, <2>4, <2>5 DEF ExactOK, OnlyNewServed
<1>5. CASE RunNew
  <2>1. CASE Rollback(fresh) /\ UNCHANGED <<status, port>>
    <3>1. pc' = "undo" /\ undo' = fresh' /\ UNCHANGED backends
      BY <1>5, <2>1 DEF RunNew, Rollback
    <3>2. \A p \in Ports : Contains(backends', p) => ServedBy(Containers, p)'
      BY <1>e, <1>u, <2>1, <3>1 DEF ServedBy
    <3> QED
      BY <1>u, <3>1, <3>2 DEF ExactOK, OnlyNewServed
  <2>2. ASSUME NEW c \in Containers, NEW q \in Ports, Starts(c, q)
        PROVE  ExactOK'
    <3>1. /\ pc = "run" /\ pc' = "port" /\ cur' = c /\ UNCHANGED <<old, fresh, backends>>
          /\ cur = NoContainer /\ old \cup fresh \subseteq Containers
      BY <1>t, <2>2 DEF Starts, LocalsOK, TypeOK
    <3>2. /\ status[c] # "running" /\ c \notin old \cup fresh
          /\ port'[c] = q /\ ~ServedBy(Containers, q)
      BY <1>t, <2>2 DEF Starts, StartContainer, Unnamed, Live, Running, ServedBy, TypeOK
    <3>3. \A d \in Containers : d # c => status'[d] = status[d] /\ port'[d] = port[d]
      BY <1>t, <2>2 DEF Starts, StartContainer, TypeOK
    <3>4. ~Contains(backends', port'[cur'])
      BY <1>e, <1>u, <3>1, <3>2
    <3>5. \A p \in Ports : Contains(backends', p) => ServedBy(Containers, p)'
      BY <1>e, <1>u, <3>1, <3>2, <3>3 DEF ServedBy
    <3>6. \A p \in Ports : Contains(backends', p) => ServedBy((old \ {cur}) \cup fresh, p)'
      <4> TAKE p \in Ports
      <4> HAVE Contains(backends', p)
      <4>1. PICK d \in (old \ {cur}) \cup fresh : status[d] = "running" /\ port[d] = p
        BY <1>u, <3>1 DEF ExactOK, ServedBy
      <4>2. d \in (old' \ {cur'}) \cup fresh' /\ status'[d] = "running" /\ port'[d] = p
        BY <3>1, <3>2, <3>3, <4>1
      <4> QED
        BY <4>2 DEF ServedBy
    <3> QED
      BY <1>u, <3>1, <3>4, <3>5, <3>6 DEF ExactOK, OnlyNewServed
  <2> QED
    <3>1. \/ Rollback(fresh) /\ UNCHANGED <<status, port>>
          \/ \E c \in Containers, p \in Ports : Starts(c, p)
      BY <1>5 DEF RunNew, Starts, Unnamed
    <3> QED
      BY <2>1, <2>2, <3>1
<1>6. CASE GetMappedPort \/ CheckHealth
  <2>1. \A c \in Containers : status'[c] = "running" <=> status[c] = "running"
    BY <1>6, <1>t DEF GetMappedPort, CheckHealth, Running, TypeOK
  <2>2. /\ pc \in {"port", "health"} /\ UNCHANGED <<old, fresh, backends, port>>
        /\ \/ pc' \in {"health", "add", "discard"} /\ UNCHANGED <<cur, undo>>
           \/ pc' = "undo" /\ undo' = fresh
        /\ old \cup fresh \subseteq Containers
    BY <1>6, <1>t DEF GetMappedPort, CheckHealth, Rollback, TypeOK
  <2>3. \A p \in Ports : Contains(backends', p) => ServedBy(Containers, p)'
    BY <1>e, <1>u, <2>1, <2>2 DEF ServedBy
  <2>4. pc' # "undo" => \A p \in Ports : Contains(backends', p)
                                           => ServedBy((old \ {cur}) \cup fresh, p)'
    <3>1. \A p \in Ports : Contains(backends, p) => ServedBy((old \ {cur}) \cup fresh, p)
      BY <2>2 DEF ExactOK
    <3>2. pc' # "undo" => UNCHANGED <<old, cur, fresh, port, backends>>
      BY <2>2
    <3> QED
      BY <1>u, <2>1, <2>2, <3>1, <3>2 DEF ServedBy
  <2> QED
    BY <1>u, <2>2, <2>3, <2>4 DEF ExactOK, OnlyNewServed
<1>7. CASE Discard
  <2>1. PICK d \in Containers : d = cur
    BY <1>7, <1>t DEF Discard, LocalsOK
  <2>2. /\ StopAndRemove(d) /\ UNCHANGED <<backends, port>> /\ ~Contains(backends, port[d])
        /\ pc' = "undo" /\ undo' = fresh'
    BY <1>7, <2>1 DEF Discard, Rollback, ExactOK
  <2>3. \A c \in Containers : c # d => status'[c] = status[c]
    BY <1>t, <2>2, StopOne
  <2>4. \A p \in Ports : Contains(backends', p) => ServedBy(Containers, p)'
    BY <1>e, <1>u, <2>2, <2>3 DEF ServedBy
  <2> QED
    BY <1>u, <2>2, <2>4 DEF ExactOK, OnlyNewServed
<1>8. CASE AddBackend
  <2>1. PICK d \in Containers \ (old \cup fresh) : d = cur /\ port[d] \in Ports
    BY <1>8, <1>t DEF AddBackend, LocalsOK
  <2>2. listening /\ old \cup fresh \subseteq Containers
    BY <1>8, <1>t DEF AddBackend, ProxyOK, TypeOK
  <2>3. /\ backends' = Append(backends, port[d])
        /\ pc = "add" /\ fresh' = fresh \cup {d} /\ cur' = NoContainer
        /\ pc' \in {"run", "drain"}
        /\ UNCHANGED <<status, port, old>>
    BY <1>8, <2>1, <2>2 DEF AddBackend, AddProxyBackend
  <2>4. ~Contains(backends, port[d]) /\ status[d] = "running"
    BY <2>1, <2>3 DEF ExactOK, ServiceOK
  <2>5. /\ \A q : Contains(backends', q) <=> Contains(backends, q) \/ q = port[d]
        /\ NoDuplicates(backends')
    BY <1>e, <1>t, <2>1, <2>3, <2>4, AppendEntries DEF TypeOK
  <2>6. \A p \in Ports : Contains(backends', p) => ServedBy((old \ {cur}) \cup fresh, p)'
    <3>1. \A p \in Ports : Contains(backends, p) => ServedBy((old \ {cur}) \cup fresh, p)
      BY <2>3 DEF ExactOK
    <3> QED
      BY <2>1, <2>2, <2>3, <2>4, <2>5, <3>1 DEF ServedBy
  <2>7. \A p \in Ports : Contains(backends', p) => ServedBy(Containers, p)'
    <3>1. (old' \ {cur'}) \cup fresh' \subseteq Containers
      BY <2>1, <2>2, <2>3
    <3> QED
      BY <2>6, <3>1 DEF ServedBy
  <2>8. NoDuplicates(backends)'
    BY <2>5 DEF NoDuplicates
  <2> QED
    BY <2>3, <2>6, <2>7, <2>8 DEF ExactOK, OnlyNewServed
<1>9. CASE UndoBackend
  <2>1. pc = "undo" /\ UNCHANGED <<status, port, fresh>> /\ listening
    BY <1>9, <1>t DEF UndoBackend, ProxyOK
  <2>2. CASE undo = {} /\ pc' = "kill" /\ UNCHANGED <<backends, undo>>
    <3>1. \A p \in Ports : Contains(backends', p) => ServedBy(Containers, p)'
      BY <1>e, <1>u, <2>1, <2>2 DEF ServedBy
    <3> QED
      BY <1>u, <2>1, <2>2, <3>1 DEF ExactOK, OnlyNewServed
  <2>3. ASSUME NEW d \in undo, RemoveBackend(port[d]), undo' = undo \ {d}, pc' = pc
        PROVE  ExactOK'
    <3>1. /\ NoDuplicates(backends)'
          /\ ~Contains(backends', port[d])
          /\ \A q : Contains(backends', q) => Contains(backends, q)
      BY <1>e, <1>t, <2>1, <2>3, RemoveBackendExact
    <3>2. \A p \in Ports : Contains(backends', p) => ServedBy(Containers, p)'
      BY <1>e, <2>1, <3>1 DEF ServedBy
    <3>3. \A c \in fresh' \ undo' : ~Contains(backends', port'[c])
      BY <2>1, <2>3, <3>1 DEF ExactOK
    <3> QED
      BY <2>1, <2>3, <3>1, <3>2, <3>3 DEF ExactOK, OnlyNewServed
  <2> QED
    BY <1>9, <2>2, <2>3 DEF UndoBackend
<1>10. CASE UndoContainer
  <2>1. pc = "kill" /\ UNCHANGED <<port, backends>> /\ undo = {} /\ fresh \subseteq Containers
    BY <1>10, <1>t DEF UndoContainer, LocalsOK, TypeOK
  <2>2. CASE EndTick("err") /\ UNCHANGED status
    <3>1. \A p \in Ports : Contains(backends', p) => ServedBy(Containers, p)'
      BY <1>e, <1>u, <2>1, <2>2 DEF ServedBy
    <3> QED
      BY <1>u, <2>1, <2>2, <3>1 DEF ExactOK, OnlyNewServed
  <2>3. ASSUME NEW d \in fresh, StopAndRemove(d), fresh' = fresh \ {d}, UNCHANGED <<pc, undo>>
        PROVE  ExactOK'
    <3>1. d \in Containers /\ ~Contains(backends, port[d])
      BY <2>1 DEF ExactOK
    <3>2. \A c \in Containers : c # d => status'[c] = status[c]
      BY <1>t, <2>3, <3>1, StopOne
    <3>3. \A p \in Ports : Contains(backends', p) => ServedBy(Containers, p)'
      BY <1>e, <1>u, <2>1, <3>1, <3>2 DEF ServedBy
    <3>4. \A c \in fresh' \ undo' : ~Contains(backends', port'[c])
      BY <1>u, <2>1, <2>3 DEF ExactOK
    <3> QED
      BY <1>u, <2>1, <2>3, <3>3, <3>4 DEF ExactOK, OnlyNewServed
  <2> QED
    BY <1>10, <2>2, <2>3 DEF UndoContainer
<1>11. CASE DrainOld
  <2>1. /\ pc = "drain" /\ UNCHANGED <<status, port, old, fresh>> /\ cur = NoContainer
        /\ listening /\ old \cup fresh \subseteq Containers
    BY <1>11, <1>t DEF DrainOld, LocalsOK, ProxyOK, TypeOK
  <2>2. \A p \in Ports : Contains(backends, p) => ServedBy(old \cup fresh, p)
    BY <2>1 DEF ExactOK, ServedBy
  <2>3. CASE old = {} /\ pc' = "reap" /\ UNCHANGED backends
    <3>1. \A p \in Ports : Contains(backends', p) => ServedBy((old \ {cur}) \cup fresh, p)'
      BY <1>u, <2>1, <2>2, <2>3 DEF ServedBy
    <3>2. \A p \in Ports : Contains(backends', p) => ServedBy(Containers, p)'
      BY <1>e, <1>u, <2>1, <2>3 DEF ServedBy
    <3> QED
      BY <1>u, <2>3, <3>1, <3>2 DEF ExactOK, OnlyNewServed
  <2>4. ASSUME NEW d \in old, cur' = d, pc' = "stop",
               \/ status[d] = "running" /\ RemoveBackend(port[d])
               \/ status[d] # "running" /\ UNCHANGED backends
        PROVE  ExactOK'
    <3>1. /\ NoDuplicates(backends)'
          /\ status[d] = "running" => ~Contains(backends', port[d])
          /\ \A q : Contains(backends', q) => Contains(backends, q)
      BY <1>e, <1>t, <1>u, <2>1, <2>4, RemoveBackendExact
    <3>2. \A p \in Ports : Contains(backends', p) => ServedBy(Containers, p)'
      BY <1>e, <2>1, <3>1 DEF ServedBy
    <3>3. \A p \in Ports : Contains(backends', p) => ServedBy((old \ {cur}) \cup fresh, p)'
      BY <2>1, <2>2, <2>4, <3>1 DEF ServedBy
    <3> QED
      BY <2>4, <3>1, <3>2, <3>3 DEF ExactOK, OnlyNewServed
  <2> QED
    BY <1>11, <1>t, <2>3, <2>4 DEF DrainOld, HasPort, Running, Fault, TypeOK
<1>12. CASE StopOld
  <2>1. PICK d \in old : d = cur
    BY <1>12, <1>t DEF StopOld, LocalsOK
  <2>2. /\ pc = "stop" /\ pc' = "drain" /\ StopAndRemove(d) /\ cur' = NoContainer
        /\ old' = old \ {d} /\ UNCHANGED <<port, backends, fresh>>
        /\ old \cup fresh \subseteq Containers /\ d \notin fresh
    BY <1>12, <1>t, <2>1 DEF StopOld, LocalsOK, TypeOK
  <2>3. \A c \in Containers : c # d => status'[c] = status[c]
    BY <1>t, <2>2, StopOne
  <2>4. \A p \in Ports : Contains(backends, p) => ServedBy((old \ {d}) \cup fresh, p)
    BY <2>1, <2>2 DEF ExactOK
  <2>5. \A p \in Ports : Contains(backends', p) => ServedBy((old \ {cur}) \cup fresh, p)'
    BY <1>u, <2>2, <2>3, <2>4 DEF ServedBy
  <2>6. \A p \in Ports : Contains(backends', p) => ServedBy(Containers, p)'
    BY <2>2, <2>5 DEF ServedBy
  <2> QED
    BY <1>u, <2>2, <2>5, <2>6 DEF ExactOK, OnlyNewServed
<1>13. CASE RemoveExited
  <2>1. /\ pc = "reap" /\ pc' = "prune" /\ UNCHANGED <<port, backends, old, fresh, cur>>
        /\ old \cup fresh \subseteq Containers
    BY <1>13, <1>t DEF RemoveExited, TypeOK
  <2>2. \A c \in Containers : status[c] = "running" => status'[c] = "running"
    BY <1>13, <1>t DEF RemoveExited, TypeOK
  <2>3. \A p \in Ports : Contains(backends', p) => ServedBy((old \ {cur}) \cup fresh, p)'
    BY <1>u, <2>1, <2>2 DEF ExactOK, ServedBy
  <2>4. \A p \in Ports : Contains(backends', p) => ServedBy(Containers, p)'
    BY <2>1, <2>3 DEF ServedBy
  <2> QED
    BY <1>u, <2>1, <2>3, <2>4 DEF ExactOK, OnlyNewServed
<1>14. CASE CleanupOldImages
  <2>1. UNCHANGED <<status, image, port, backends, img>> /\ pc = "prune" /\ pc' = "idle"
    BY <1>14 DEF CleanupOldImages, RemoveImages
  <2>2. \A p \in Ports : Contains(backends', p) => ServedBy(Containers, p)'
    BY <1>e, <1>u, <2>1 DEF ServedBy
  <2>3. /\ Len(backends) = Replicas
        /\ \A i \in DOMAIN backends : \E c \in Running : port[c] = backends[i] /\ image[c] = img
    BY <2>1, ExactEnd
  <2>4. OnlyNewServed'
    BY <2>1, <2>3 DEF OnlyNewServed, Running
  <2> QED
    BY <1>u, <2>1, <2>2, <2>4 DEF ExactOK
<1>15. CASE \/ \E i \in Images : Publish(i)
            \/ Terminate \/ ListManaged \/ StopManaged \/ StopProxy
            \/ \E c \in Containers : ContainerDies(c)
            \/ UNCHANGED vars
  BY <1>3, <1>15 DEF Publish, Terminate, ListManaged, StopManaged, StopProxy, ContainerDies,
     Fault, vars
<1> QED
  BY <1>4, <1>5, <1>6, <1>7, <1>8, <1>9, <1>10, <1>11, <1>12, <1>13, <1>14, <1>15
  DEF Next, Undisturbed, RunContainer, Shutdown

LEMMA DeployInvInit == Init => TickInv /\ UniquePorts /\ ServiceOK /\ ExactOK
<1> SUFFICES ASSUME Init PROVE TickInv /\ UniquePorts /\ ServiceOK /\ ExactOK
  OBVIOUS
<1>1. TickInv /\ UniquePorts /\ ServiceOK
  BY TickInvInit DEF Init, UniquePorts, ServiceOK, Starting, Replacing
<1>2. NoDuplicates(backends) /\ \A p : ~Contains(backends, p)
  BY DEF Init, NoDuplicates, Contains
<1> QED
  BY <1>1, <1>2 DEF Init, ExactOK, OnlyNewServed, Starting, Replacing

(***************************************************************************)
(* After a successful tick the load balancer has exactly the Replicas new  *)
(* containers, for any number of replicas and after any number of failed,  *)
(* crashed or incomplete deploys, if the ports of running containers can   *)
(* be looked up: with a failing lookup, an old backend stays.              *)
(***************************************************************************)
THEOREM OnlyNewServedTheorem ==
    ASSUME ~Podman, "die" \notin FaultKinds, "port" \notin FaultKinds
    PROVE  Spec => []OnlyNewServed
<1> DEFINE Inv == TickInv /\ UniquePorts /\ ServiceOK /\ ExactOK
<1>1. Init => Inv
  BY DeployInvInit
<1>2. Inv /\ [Next]_vars => Inv'
  BY TickInvNext, UniquePortsNext, ServiceNext, ExactNext
<1>3. Inv => OnlyNewServed
  BY DEF ExactOK, OnlyNewServed
<1> QED
  BY <1>1, <1>2, <1>3, PTL DEF Spec

-----------------------------------------------------------------------------
(* A deploy is a rolling update *)

(* The containers this tick has started.                                   *)
Started == fresh \cup (IF pc \in Starting THEN {cur} ELSE {})

(* A container to be replaced that still runs has run since the tick found *)
(* it, so that none of the new ones can have been given its port.          *)
PortsApart ==
    \A c \in old : \A f \in Started : status[c] = "running" => port[c] # port[f]

(* Only RunNew adds to the containers started, ...                         *)
LEMMA StartedStep ==
    ASSUME TickInv, [Next]_vars, ~\E c \in Containers, p \in Ports : Starts(c, p)
    PROVE  Started' = {} \/ (old' \subseteq old /\ Started' \subseteq Started)
<1> USE DEF Started, Starting, Goto, EndTick, Rollback, tickVars, localVars
<1>t. LocalsOK
  BY DEF TickInv
<1>1. CASE ResolveContainerCurrent \/ ResolveContainerState \/ PullImage \/ ResolvePortMappings
  BY <1>1, <1>t DEF ResolveContainerCurrent, ResolveContainerState, PullImage, Pull,
     ResolvePortMappings, LocalsOK, Early
<1>2. CASE FindExisting
  BY <1>2, <1>t DEF FindExisting, LocalsOK, Early
<1>3. CASE RunNew
  <2>1. RunNew => Rollback(fresh) \/ \E c \in Containers, p \in Ports : Starts(c, p)
    BY <1>3 DEF RunNew, Starts, Unnamed, sigVars
  <2> QED
    BY <1>3, <2>1
<1>4. CASE GetMappedPort \/ CheckHealth \/ Discard
  BY <1>4 DEF GetMappedPort, CheckHealth, Discard
<1>5. CASE AddBackend
  BY <1>5 DEF AddBackend
<1>6. CASE UndoBackend \/ UndoContainer
  BY <1>6 DEF UndoBackend, UndoContainer
<1>7. CASE DrainOld \/ StopOld \/ RemoveExited \/ CleanupOldImages
  BY <1>7 DEF DrainOld, StopOld, RemoveExited, CleanupOldImages
<1>8. CASE Exit \/ Crash \/ Boot
  BY <1>8, <1>t DEF Exit, Crash, Gone, Boot, LocalsOK
<1>9. CASE \/ \E i \in Images : Publish(i)
           \/ Terminate \/ ListManaged \/ StopManaged \/ StopProxy
           \/ \E c \in Containers : ContainerDies(c)
           \/ UNCHANGED vars
  <2>1. UNCHANGED tickVars
    BY <1>9 DEF Publish, Terminate, ListManaged, StopManaged, StopProxy, ContainerDies, vars
  <2> QED
    BY <2>1
<1> QED
  BY <1>1, <1>2, <1>3, <1>4, <1>5, <1>6, <1>7, <1>8, <1>9
  DEF Next, Undisturbed, RunContainer, Shutdown

(* ... with a port that no running container has.                          *)
LEMMA PortsApartNext == TickInv /\ PortsApart /\ [Next]_vars => PortsApart'
<1> SUFFICES ASSUME TickInv, PortsApart, [Next]_vars PROVE PortsApart'
  OBVIOUS
<1>t. /\ status \in [Containers -> {"none", "running", "exited"}]
      /\ port \in [Containers -> Ports \cup {NoPort}]
      /\ old \subseteq Containers /\ fresh \subseteq Containers
      /\ old' \subseteq Containers
  BY TypeNext DEF TickInv, TypeOK
<1>1. CASE \E c \in Containers, p \in Ports : Starts(c, p)
  <2>1. PICK c \in Containers, p \in Ports : Starts(c, p)
    BY <1>1
  <2>2. /\ status' = [status EXCEPT ![c] = "running"]
        /\ port' = [port EXCEPT ![c] = p]
        /\ c \notin old /\ c \notin fresh /\ ~Live(p)
        /\ pc = "run" /\ pc' = "port" /\ cur' = c
        /\ UNCHANGED <<old, fresh>>
    BY <2>1 DEF Starts, StartContainer, Unnamed
  <2>3. \A d \in old : status[d] = "running" => port[d] # p
    BY <1>t, <2>2 DEF Live, Running
  <2>4. Started' = fresh \cup {c} /\ Started = fresh
    BY <2>2 DEF Started, Starting
  <2>5. \A d \in old \cup fresh : d # c /\ status'[d] = status[d] /\ port'[d] = port[d]
    BY <1>t, <2>2
  <2>6. port'[c] = p
    BY <1>t, <2>2
  <2> QED
    BY <2>2, <2>3, <2>4, <2>5, <2>6 DEF PortsApart
<1>2. CASE ~\E c \in Containers, p \in Ports : Starts(c, p)
  <2>1. StopsSome
    BY <1>2, BoxStep
  <2>2. Started' = {} \/ (old' \subseteq old /\ Started' \subseteq Started)
    BY <1>2, StartedStep
  <2>3. CASE Started' = {}
    BY <2>3 DEF PortsApart
  <2>4. CASE old' \subseteq old /\ Started' \subseteq Started
    <3>1. \A c \in old' : status'[c] = "running" => c \in old /\ status[c] = "running"
      BY <1>t, <2>1, <2>4 DEF StopsSome
    <3>2. UNCHANGED port
      BY <2>1 DEF StopsSome
    <3> QED
      BY <2>4, <3>1, <3>2 DEF PortsApart
  <2> QED
    BY <2>2, <2>3, <2>4
<1> QED
  BY <1>1, <1>2

(* Nothing is placed before the first replica and after the last.          *)
LEMMA PlacedIs ==
    ASSUME TickInv
    PROVE  /\ Placed \in SUBSET Containers
           /\ pc \in Early \cup {"down", "kill"} => Placed = {}
           /\ pc = "undo" => Placed = undo
           /\ pc \in {"run"} \cup Starting \cup Replacing => Placed = fresh
<1>1. LocalsOK /\ pc \in Phases /\ fresh \subseteq Containers /\ undo \subseteq Containers
  BY DEF TickInv, TypeOK
<1> QED
  BY <1>1 DEF Placed, LocalsOK, Phases, Early, Starting, Replacing

(* A stopped load balancer as the update sees it.                          *)
LEMMA ServiceDown ==
    ASSUME ~listening
    PROVE  /\ UpdateStage = "down"
           /\ ServiceEntries = [p \in Ports |-> 0]
           /\ UpdateReplicas = [c \in {} |-> 0]
<1>1. ServiceEntries = [p \in Ports |-> 0]
  BY DEF ServiceEntries
<1>2. UpdateReplicas = [c \in {} |-> port[c]]
  BY DEF UpdateReplicas
<1>3. [c \in {} |-> port[c]] = [c \in {} |-> 0]
  OBVIOUS
<1> QED
  BY <1>1, <1>2, <1>3 DEF UpdateStage

(* Steps that leave the load balancer and what is placed in it alone.      *)
LEMMA UpdateFrame ==
    ASSUME listening, listening', UNCHANGED backends, Placed' = Placed,
           \A c \in Placed : port'[c] = port[c]
    PROVE  UNCHANGED <<ServiceEntries, UpdateReplicas>>
<1>1. \A p : {c \in Placed' : port'[c] = p} = {c \in Placed : port[c] = p}
  OBVIOUS
<1>2. \A p : Entries(backends, p)' = Entries(backends, p)
  BY DEF Entries
<1>3. UNCHANGED ServiceEntries
  BY <1>1, <1>2 DEF ServiceEntries
<1>4. UNCHANGED UpdateReplicas
  BY DEF UpdateReplicas
<1> QED
  BY <1>3, <1>4

(* AddBackend puts one replica of the update in.                           *)
LEMMA AddPlaces ==
    ASSUME TickInv, TickInv', listening, AddBackend
    PROVE  Update!Place
<1>1. /\ pc = "add" /\ AddProxyBackend(port[cur]) /\ fresh' = fresh \cup {cur}
      /\ pc' = (IF Cardinality(fresh') = Replicas THEN "drain" ELSE "run")
      /\ UNCHANGED <<port, listening>>
  BY DEF AddBackend, Goto, boxVars
<1>2. cur \in Containers \ fresh /\ port[cur] \in Ports
  BY <1>1 DEF TickInv, LocalsOK, Starting
<1>3. Placed = fresh /\ Placed' = fresh'
  BY <1>1, PlacedIs DEF Placed, Starting
<1>4. /\ UpdateReplicas = [c \in fresh |-> port[c]]
      /\ UpdateReplicas' = [c \in fresh \cup {cur} |-> port[c]]
  BY <1>1, <1>3 DEF UpdateReplicas
<1>5. ASSUME NEW p \in Ports
      PROVE  Entries(backends, p)' - Cardinality({c \in fresh' : port'[c] = p})
               = Entries(backends, p) - Cardinality({c \in fresh : port[c] = p})
  <2>1. /\ Entries(backends, p) \in Nat /\ Entries(backends, p)' \in Nat
        /\ Cardinality({c \in fresh : port[c] = p}) \in Nat
        /\ Cardinality({c \in fresh' : port'[c] = p}) \in Nat
        /\ Entries(backends, p)' - Entries(backends, p)
              = Cardinality({c \in fresh' : port'[c] = p})
                - Cardinality({c \in fresh : port[c] = p})
    BY <1>1, AddCounts
  <2> QED
    BY <2>1
<1>6. UNCHANGED ServiceEntries
  BY <1>1, <1>3, <1>5 DEF ServiceEntries
<1>7. UpdateStage = "grow" /\ UpdateStage' = (IF Cardinality(fresh') = Replicas THEN "shrink" ELSE "grow")
  BY <1>1 DEF UpdateStage
<1>8. DOMAIN UpdateReplicas = fresh /\ DOMAIN UpdateReplicas' = fresh'
  BY <1>1, <1>4
<1>9. UpdateReplicas' = [d \in DOMAIN UpdateReplicas \cup {cur} |->
                            IF d = cur THEN port[cur] ELSE UpdateReplicas[d]]
  BY <1>4
<1>10. \E c \in Containers \ DOMAIN UpdateReplicas, p \in Ports :
          UpdateReplicas' = [d \in DOMAIN UpdateReplicas \cup {c} |->
                               IF d = c THEN p ELSE UpdateReplicas[d]]
  <2>1. cur \in Containers \ DOMAIN UpdateReplicas
    BY <1>2, <1>8
  <2> QED
    BY <1>2, <1>9, <2>1, Zenon
<1>11. UpdateStage' = IF Cardinality(DOMAIN UpdateReplicas') = Replicas THEN "shrink" ELSE "grow"
  BY <1>7, <1>8
<1> QED
  BY <1>6, <1>7, <1>10, <1>11, Zenon DEF Update!Place, Update!Cardinality, Cardinality

(* A step of the rollback takes one of them out, and nothing else.         *)
LEMMA UndoWithdraws ==
    ASSUME TickInv, EntriesOK, listening, pc = "undo", pc' = "undo", NEW d \in undo,
           RemoveBackend(port[d]), undo' = undo \ {d}, UNCHANGED <<port, listening>>
    PROVE  Update!Withdraw
<1>1. Surplus(undo) /\ Placed = undo /\ Placed' = undo'
  BY DEF EntriesOK, MayFail, Placed
<1>2. port[d] \in Ports /\ Contains(backends, port[d])
  <2>1. port[d] \in Ports
    BY DEF TickInv, LocalsOK
  <2> QED
    BY <1>1, <2>1, UndoFinds
<1>3. /\ UpdateReplicas = [c \in undo |-> port[c]]
      /\ UpdateReplicas' = [c \in undo \ {d} |-> port[c]]
  BY <1>1 DEF UpdateReplicas
<1>4. ASSUME NEW p \in Ports
      PROVE  Entries(backends, p)' - Cardinality({c \in undo' : port'[c] = p})
               = Entries(backends, p) - Cardinality({c \in undo : port[c] = p})
  <2>1. /\ Entries(backends, p) \in Nat /\ Entries(backends, p)' \in Int
        /\ Cardinality({c \in undo : port[c] = p}) \in Nat
        /\ Cardinality({c \in undo' : port'[c] = p}) \in Int
        /\ Entries(backends, p)' - Entries(backends, p)
              = Cardinality({c \in undo' : port'[c] = p})
                - Cardinality({c \in undo : port[c] = p})
    BY <1>2, UndoCounts
  <2> QED
    BY <2>1
<1>5. UNCHANGED ServiceEntries
  BY <1>1, <1>4 DEF ServiceEntries
<1>6. UpdateStage = "back" /\ UNCHANGED UpdateStage
  BY DEF UpdateStage
<1>7. d \in DOMAIN UpdateReplicas /\ UpdateReplicas' = [c \in DOMAIN UpdateReplicas \ {d} |-> UpdateReplicas[c]]
  BY <1>3
<1> QED
  BY <1>5, <1>6, <1>7 DEF Update!Withdraw

(* An old container that is taken out was not one of the update's.         *)
LEMMA DrainRetires ==
    ASSUME TickInv, PortsApart, listening, pc = "drain", pc' = "stop", NEW c \in old,
           status[c] = "running", Contains(backends, port[c]), RemoveBackend(port[c]),
           UNCHANGED <<port, listening, fresh>>
    PROVE  Update!Retire
<1> DEFINE q == port[c]
<1>1. backends \in Seq(Ports) /\ q \in Ports
  <2>1. backends \in Seq(Ports)
    BY DEF TickInv, TypeOK
  <2> QED
    BY <2>1 DEF Contains
<1>2. Placed = fresh /\ Placed' = fresh
  BY DEF Placed
<1>3. {f \in fresh : port[f] = q} = {}
  BY DEF PortsApart, Started
<1>4. Cardinality({f \in fresh : port[f] = q}) = 0
  BY <1>3, FS_EmptySet
<1>5. \A p : Entries(backends, p)' = IF p = q THEN Entries(backends, p) - 1
                                               ELSE Entries(backends, p)
  <2>1. backends' = RemoveFirst(backends, q)
    BY DEF RemoveBackend
  <2>2. \A p : Entries(RemoveFirst(backends, q), p)
                 = IF p = q THEN Entries(backends, p) - 1 ELSE Entries(backends, p)
    BY <1>1, EntriesRemoveFirst
  <2> QED
    BY <2>1, <2>2 DEF Entries
<1>6. Entries(backends, q) \in Nat /\ Entries(backends, q) # 0
  BY <1>1, EntriesNat
<1> HIDE DEF q
<1>7. /\ ServiceEntries = [p \in Ports |-> Entries(backends, p) - Cardinality({f \in fresh : port[f] = p})]
      /\ ServiceEntries' = [p \in Ports |-> Entries(backends, p)' - Cardinality({f \in fresh : port[f] = p})]
  BY <1>2 DEF ServiceEntries
<1>8. ServiceEntries[q] = Entries(backends, q) /\ ServiceEntries'[q] = Entries(backends, q) - 1
  BY <1>1, <1>4, <1>5, <1>6, <1>7
<1>9. ServiceEntries' = [ServiceEntries EXCEPT ![q] = @ - 1]
  BY <1>1, <1>5, <1>7, <1>8
<1>10. UNCHANGED UpdateReplicas
  BY <1>2 DEF UpdateReplicas
<1>11. UpdateStage = "shrink" /\ UNCHANGED UpdateStage
  BY DEF UpdateStage
<1>12. ServiceEntries[q] > 0
  BY <1>6, <1>8
<1> QED
  BY <1>1, <1>9, <1>10, <1>11, <1>12, Zenon DEF Update!Retire

(* The end of a successful tick.                                           *)
LEMMA CleanupFinishes ==
    ASSUME TickInv, listening, CleanupOldImages
    PROVE  Update!Finish
<1>1. pc = "prune" /\ pc' = "idle" /\ UNCHANGED <<backends, port, listening>>
  BY DEF CleanupOldImages, EndTick
<1>2. Placed = fresh /\ Placed' = {}
  BY <1>1 DEF Placed
<1>3. /\ UpdateReplicas = [c \in fresh |-> port[c]]
      /\ UpdateReplicas' = [c \in {} |-> port[c]]
  BY <1>1, <1>2 DEF UpdateReplicas
<1>4. DOMAIN UpdateReplicas = fresh /\ \A c \in fresh : UpdateReplicas[c] = port[c]
  BY <1>3
<1>5. ASSUME NEW p \in Ports
      PROVE  /\ ServiceEntries[p] = Entries(backends, p) - Cardinality({c \in fresh : port[c] = p})
             /\ ServiceEntries'[p] = Entries(backends, p)
  <2>1. \A c : c \notin {d \in {} : port[d] = p}
    OBVIOUS
  <2>2. Cardinality({d \in {} : port[d] = p}) = 0
    BY <2>1, FS_EmptySet
  <2>3. Entries(backends, p) \in Nat
    BY EntriesNat DEF TickInv, TypeOK
  <2>4. Entries(backends, p)' = Entries(backends, p)
    BY <1>1 DEF Entries
  <2>5. ServiceEntries'[p] = Entries(backends, p)' - Cardinality({d \in {} : port[d] = p})
    BY <1>1, <1>2 DEF ServiceEntries
  <2> QED
    BY <1>2, <2>2, <2>3, <2>4, <2>5 DEF ServiceEntries
<1>6. \A p \in Ports : {c \in DOMAIN UpdateReplicas : UpdateReplicas[c] = p} = {c \in fresh : port[c] = p}
  BY <1>4
<1>7. \A p \in Ports : /\ Entries(backends, p) \in Nat
                        /\ Cardinality({c \in fresh : port[c] = p}) \in Nat
  BY EntriesNat, FiniteContainers DEF TickInv, TypeOK
<1>8. \A p \in Ports : ServiceEntries'[p] = ServiceEntries[p]
                           + Cardinality({c \in DOMAIN UpdateReplicas : UpdateReplicas[c] = p})
  BY <1>5, <1>6, <1>7
<1>9. ServiceEntries' = [p \in Ports |-> ServiceEntries[p]
                           + Cardinality({c \in DOMAIN UpdateReplicas : UpdateReplicas[c] = p})]
  <2>1. ServiceEntries' = [p \in Ports |-> ServiceEntries'[p]]
    BY DEF ServiceEntries
  <2> QED
    BY <1>8, <2>1
<1>10. [c \in {} |-> port[c]] = [c \in {} |-> 0]
  OBVIOUS
<1>11. UpdateStage = "shrink" /\ UpdateStage' = "steady"
  BY <1>1 DEF UpdateStage
<1>12. UpdateReplicas' = Update!NoReplica
  BY <1>3, <1>10, Zenon DEF Update!NoReplica
<1> QED
  BY <1>9, <1>11, <1>12, Zenon DEF Update!Finish, Update!Cardinality, Cardinality

(* The proxy is stopped, or the process ends.                              *)
LEMMA UpdateStops == ASSUME ~listening' PROVE Update!Stop
<1>1. UpdateStage' = "down" /\ ServiceEntries' = [p \in Ports |-> 0]
  BY DEF UpdateStage, ServiceEntries
<1>2. UpdateReplicas' = [c \in {} |-> 0]
  <2>1. UpdateReplicas' = [c \in {} |-> port'[c]]
    BY DEF UpdateReplicas
  <2>2. [c \in {} |-> port'[c]] = [c \in {} |-> 0]
    OBVIOUS
  <2> QED
    BY <2>1, <2>2
<1> QED
  BY <1>1, <1>2, Zenon DEF Update!Stop, Update!Nothing, Update!NoReplica

(* A new process begins with an empty load balancer.                       *)
LEMMA EmptyService ==
    ASSUME listening, backends = <<>>, Placed = {}
    PROVE  ServiceEntries = [p \in Ports |-> 0] /\ UpdateReplicas = [c \in {} |-> 0]
<1>1. \A p : {i \in DOMAIN backends : backends[i] = p} = {} /\ {c \in Placed : port[c] = p} = {}
  OBVIOUS
<1>2. \A p : Entries(backends, p) = 0 /\ Cardinality({c \in Placed : port[c] = p}) = 0
  BY <1>1, FS_EmptySet DEF Entries
<1>3. ServiceEntries = [p \in Ports |-> 0]
  BY <1>2 DEF ServiceEntries
<1>4. UpdateReplicas = [c \in {} |-> port[c]]
  BY DEF UpdateReplicas
<1>5. [c \in {} |-> port[c]] = [c \in {} |-> 0]
  OBVIOUS
<1> QED
  BY <1>3, <1>4, <1>5

LEMMA BootStarts ==
    ASSUME TickInv, TickInv', Boot
    PROVE  Update!Start
<1>1. pc = "down" /\ pc' = "idle" /\ listening' /\ UNCHANGED backends /\ ~listening /\ backends = <<>>
  BY DEF Boot, TickInv, ProxyOK
<1>2. UpdateStage = "down" /\ UpdateStage' = "steady"
  BY <1>1 DEF UpdateStage
<1>3. Placed' = {}
  BY <1>1 DEF Placed
<1>4. ServiceEntries' = [p \in Ports |-> 0] /\ UpdateReplicas' = [c \in {} |-> 0]
  <2>1. \A p : {i \in DOMAIN backends' : backends'[i] = p} = {} /\ {c \in Placed' : port'[c] = p} = {}
    BY <1>1, <1>3
  <2>2. \A p : Entries(backends, p)' = 0 /\ Cardinality({c \in Placed' : port'[c] = p}) = 0
    BY <2>1, FS_EmptySet DEF Entries
  <2>3. ServiceEntries' = [p \in Ports |-> 0]
    <3>1. listening'
      BY <1>1
    <3>2. ServiceEntries' = [p \in Ports |-> Entries(backends, p)'
                                              - Cardinality({c \in Placed' : port'[c] = p})]
      BY <3>1 DEF ServiceEntries
    <3> QED
      BY <2>2, <3>2
  <2>4. UpdateReplicas' = [c \in {} |-> port'[c]]
    BY <1>1, <1>3 DEF UpdateReplicas
  <2>5. [c \in {} |-> port'[c]] = [c \in {} |-> 0]
    OBVIOUS
  <2> QED
    BY <2>3, <2>4, <2>5
<1>5. ServiceEntries = [p \in Ports |-> 0] /\ UpdateReplicas = [c \in {} |-> 0]
  BY <1>1, ServiceDown
<1> QED
  BY <1>2, <1>4, <1>5 DEF Update!Start

(* Steps in which the load balancer keeps its entries: at most the stage   *)
(* of the update moves.                                                    *)
LEMMA QuietStep ==
    ASSUME listening, listening', UNCHANGED backends, Placed' = Placed,
           \A c \in Placed : port'[c] = port[c],
           \/ UNCHANGED UpdateStage
           \/ UpdateStage = "steady" /\ UpdateStage' = "grow"
           \/ UpdateStage = "grow" /\ UpdateStage' = "back"
           \/ UpdateStage = "back" /\ UpdateStage' = "steady" /\ Placed = {}
    PROVE  Update!Next \/ UNCHANGED <<UpdateStage, ServiceEntries, UpdateReplicas>>
<1>1. UNCHANGED <<ServiceEntries, UpdateReplicas>>
  BY UpdateFrame
<1>2. Placed = {} => UpdateReplicas = [c \in {} |-> 0]
  <2>1. Placed = {} => UpdateReplicas = [c \in {} |-> port[c]]
    BY DEF UpdateReplicas
  <2>2. [c \in {} |-> port[c]] = [c \in {} |-> 0]
    OBVIOUS
  <2> QED
    BY <2>1, <2>2
<1> QED
  BY <1>1, <1>2 DEF Update!Next, Update!Begin, Update!Fail, Update!Abandon, Update!NoReplica

(* Every step is a step of the update or leaves it alone.                  *)
LEMMA UpdateStep ==
    ASSUME TickInv, TickInv', EntriesOK, PortsApart, [Next]_vars
    PROVE  Update!Next \/ UNCHANGED <<UpdateStage, ServiceEntries, UpdateReplicas>>
<1>t. LocalsOK /\ ProxyOK
  BY DEF TickInv
<1> USE DEF Goto, EndTick, Rollback, tickVars, boxVars, sigVars, localVars
<1>1. CASE ~listening'
  BY <1>1, UpdateStops DEF Update!Next
<1>2. CASE Boot
  BY <1>2, BootStarts DEF Update!Next
<1> DEFINE Quiet == /\ UNCHANGED <<backends, listening, port>> /\ Placed' = Placed
                    /\ \/ UNCHANGED UpdateStage
                       \/ UpdateStage = "steady" /\ UpdateStage' = "grow"
                       \/ UpdateStage = "grow" /\ UpdateStage' = "back"
                       \/ UpdateStage = "back" /\ UpdateStage' = "steady" /\ Placed = {}
<1>3. CASE listening' /\ Quiet
  BY <1>3, QuietStep
<1> HIDE DEF Quiet
<1>4. ASSUME listening', ResolveContainerCurrent \/ ResolveContainerState \/ PullImage
                           \/ ResolvePortMappings \/ FindExisting
      PROVE  Quiet
  <2>1. UNCHANGED <<backends, listening, port>>
    BY <1>4 DEF ResolveContainerCurrent, ResolveContainerState, PullImage, ResolvePortMappings,
       FindExisting
  <2>2. pc \in Early /\ pc' \in Early \cup {"run"}
    BY <1>4 DEF ResolveContainerCurrent, ResolveContainerState, PullImage, Pull,
       ResolvePortMappings, FindExisting, Early
  <2>3. Placed = {} /\ Placed' = {}
    <3>1. fresh = {} /\ (fresh' = fresh \/ fresh' = {})
      BY <1>4, <1>t, <2>2 DEF LocalsOK, ResolveContainerCurrent, ResolveContainerState, PullImage,
         Pull, ResolvePortMappings, FindExisting
    <3> QED
      BY <2>2, <3>1 DEF Placed, Early
  <2>4. UpdateStage = "steady" /\ UpdateStage' \in {"steady", "grow"}
    BY <1>4, <2>1, <2>2 DEF UpdateStage, Early
  <2> QED
    BY <2>1, <2>3, <2>4 DEF Quiet
<1>5. ASSUME listening', RunNew
      PROVE  Update!Next \/ UNCHANGED <<UpdateStage, ServiceEntries, UpdateReplicas>>
  <2>1. /\ UNCHANGED <<backends, listening, fresh>>
        /\ pc = "run" /\ (pc' = "port" \/ (pc' = "undo" /\ undo' = fresh))
    BY <1>5 DEF RunNew
  <2>2. Placed = fresh /\ Placed' = fresh
    BY <2>1 DEF Placed
  <2>3. \A c \in fresh : port'[c] = port[c]
    BY <1>5, <1>t DEF RunNew, StartContainer, Unnamed, TickInv, TypeOK
  <2>4. UpdateStage = "grow" /\ UpdateStage' \in {"grow", "back"}
    BY <1>5, <2>1 DEF UpdateStage
  <2> QED
    BY <1>5, <2>1, <2>2, <2>3, <2>4, QuietStep
<1>6. ASSUME listening', GetMappedPort \/ CheckHealth \/ Discard
      PROVE  Quiet
  <2>1. /\ UNCHANGED <<backends, listening, port, fresh>>
        /\ pc \in {"port", "health", "discard"}
        /\ pc' \in {"health", "discard", "add"} \/ (pc' = "undo" /\ undo' = fresh)
    BY <1>6 DEF GetMappedPort, CheckHealth, Discard
  <2>2. Placed = fresh /\ Placed' = fresh
    BY <2>1 DEF Placed
  <2>3. UpdateStage = "grow" /\ UpdateStage' \in {"grow", "back"}
    BY <1>6, <2>1 DEF UpdateStage
  <2> QED
    BY <2>1, <2>2, <2>3 DEF Quiet
<1>7. ASSUME listening', AddBackend PROVE Update!Place
  <2>1. listening
    BY <1>7 DEF AddBackend
  <2> QED
    BY <1>7, <2>1, AddPlaces
<1>8. ASSUME listening', UndoBackend PROVE Quiet \/ Update!Withdraw
  <2>1. pc = "undo" /\ UNCHANGED <<listening, port>> /\ listening
    BY <1>8 DEF UndoBackend
  <2>2. CASE undo = {} /\ pc' = "kill" /\ UNCHANGED backends
    <3>1. Placed = {} /\ Placed' = {}
      BY <2>1, <2>2 DEF Placed
    <3>2. UNCHANGED UpdateStage
      BY <2>1, <2>2 DEF UpdateStage
    <3> QED
      BY <2>1, <2>2, <3>1, <3>2 DEF Quiet
  <2>3. ASSUME NEW d \in undo, RemoveBackend(port[d]), undo' = undo \ {d}, pc' = pc
        PROVE  Update!Withdraw
    BY <2>1, <2>3, UndoWithdraws
  <2> QED
    BY <1>8, <2>2, <2>3 DEF UndoBackend
<1>9. ASSUME listening', UndoContainer PROVE Quiet
  <2>1. pc = "kill" /\ pc' \in {"kill", "idle"} /\ UNCHANGED <<backends, listening, port>> /\ listening
    BY <1>9 DEF UndoContainer
  <2>2. Placed = {} /\ Placed' = {}
    BY <2>1 DEF Placed
  <2>3. UpdateStage = "back" /\ UpdateStage' \in {"back", "steady"}
    BY <2>1 DEF UpdateStage
  <2> QED
    BY <2>1, <2>2, <2>3 DEF Quiet
<1>10. ASSUME listening', DrainOld PROVE Quiet \/ Update!Retire
  <2>1. /\ pc = "drain" /\ pc' \in {"stop", "reap"} /\ UNCHANGED <<listening, port, fresh>>
        /\ listening
    BY <1>10 DEF DrainOld
  <2>2. CASE UNCHANGED backends
    BY <2>1, <2>2 DEF Quiet, Placed, UpdateStage
  <2>3. ASSUME backends' # backends PROVE Update!Retire
    <3>1. PICK c \in old : HasPort(c) /\ RemoveBackend(port[c]) /\ pc' = "stop"
      BY <1>10, <2>3 DEF DrainOld
    <3>2. status[c] = "running" /\ Contains(backends, port[c])
      BY <2>3, <3>1 DEF HasPort, Running, RemoveBackend
    <3> QED
      BY <2>1, <3>1, <3>2, DrainRetires
  <2> QED
    BY <2>2, <2>3
<1>11. ASSUME listening', StopOld \/ RemoveExited PROVE Quiet
  <2>1. /\ pc \in {"stop", "reap"} /\ pc' \in {"drain", "prune"}
        /\ UNCHANGED <<backends, listening, port, fresh>>
    BY <1>11 DEF StopOld, RemoveExited
  <2> QED
    BY <1>11, <2>1 DEF Quiet, Placed, UpdateStage
<1>12. ASSUME listening', CleanupOldImages PROVE Update!Finish
  <2>1. listening
    BY <1>12 DEF CleanupOldImages
  <2> QED
    BY <1>12, <2>1, CleanupFinishes
<1>13. CASE StopProxy \/ Exit \/ Crash
  BY <1>1, <1>13 DEF StopProxy, Exit, Crash, Gone
<1>14. ASSUME \/ \E i \in Images : Publish(i)
              \/ Terminate \/ ListManaged \/ StopManaged
              \/ \E c \in Containers : ContainerDies(c)
              \/ UNCHANGED vars
       PROVE  Quiet
  <2>1. UNCHANGED <<backends, listening, port, pc, fresh, undo>>
    BY <1>14 DEF Publish, Terminate, ListManaged, StopManaged, ContainerDies, vars
  <2> QED
    BY <2>1 DEF Quiet, Placed, UpdateStage
<1> QED
  BY <1>1, <1>2, <1>3, <1>4, <1>5, <1>6, <1>7, <1>8, <1>9, <1>10, <1>11, <1>12, <1>13, <1>14
  DEF Next, Undisturbed, RunContainer, Shutdown, Update!Next

(***************************************************************************)
(* RefinesUpdate: deploys implement rolling updates, for any number of     *)
(* replicas, with either runtime, whatever call fails, whichever container *)
(* dies and whenever dewy is signalled, crashes and starts again (Deploy,  *)
(* rollback, addProxyBackend, removeBackend).                              *)
(***************************************************************************)
THEOREM ImplementsUpdate == Spec => RefinesUpdate
<1>1. Init => Update!Init
  <2> SUFFICES ASSUME Init PROVE Update!Init
    OBVIOUS
  <2>1. listening /\ backends = <<>> /\ pc = "idle"
    BY DEF Init
  <2>2. Placed = {} /\ UpdateStage = "steady"
    BY <2>1 DEF Placed, UpdateStage
  <2> QED
    BY <2>1, <2>2, EmptyService DEF Update!Init, Update!Nothing, Update!NoReplica
<1>2. Init => TickInv /\ EntriesOK /\ PortsApart
  BY TickInvInit DEF Init, EntriesOK, MayFail, PortsApart, Starting
<1>3. TickInv /\ EntriesOK /\ PortsApart /\ [Next]_vars => (TickInv /\ EntriesOK /\ PortsApart)'
  BY TickInvNext, EntriesNext, PortsApartNext
<1>4. TickInv /\ TickInv' /\ EntriesOK /\ PortsApart /\ [Next]_vars
         => [Update!Next]_<<UpdateStage, ServiceEntries, UpdateReplicas>>
  BY UpdateStep
<1> QED
  BY <1>1, <1>2, <1>3, <1>4, PTL DEF Spec, RefinesUpdate, Update!Spec, Update!vars

-----------------------------------------------------------------------------
(* How many backends there are *)

(* The last n backends are new ones.                                       *)
LastNew(n) ==
    /\ n \in 0..Len(backends)
    /\ \A i \in 1..Len(backends) :
          i > Len(backends) - n => \E f \in fresh : backends[i] = port[f]

(* New backends come last and stay there: until the tick can fail no more  *)
(* the list is as long as it was and longer by what is placed, and then    *)
(* what is taken out comes before the new ones.                            *)
CapacityInv ==
    /\ pc = "down" => before = <<>>
    /\ listening => /\ CapacityKept
                    /\ MayFail => Len(backends) = Len(before) + Cardinality(Placed)
                    /\ pc \in {"run"} \cup Starting \cup Replacing => LastNew(Cardinality(fresh))

(* Steps that leave the backends alone.                                    *)
LEMMA CapacityFrame ==
    ASSUME CapacityInv, UNCHANGED <<backends, before, listening, fresh>>,
           \A f \in fresh : port'[f] = port[f], pc' = "down" => pc = "down",
           MayFail' => MayFail /\ Placed' = Placed,
           pc' \in {"run"} \cup Starting \cup Replacing
              => pc \in {"run"} \cup Starting \cup Replacing
    PROVE  CapacityInv'
<1>1. LastNew(Cardinality(fresh)) => LastNew(Cardinality(fresh))'
  BY DEF LastNew
<1>2. CapacityKept => CapacityKept'
  BY DEF CapacityKept
<1> QED
  BY <1>1, <1>2 DEF CapacityInv

(* AddBackend.                                                             *)
LEMMA CapacityAdd ==
    ASSUME TickInv, TickInv', CapacityInv, listening, AddBackend
    PROVE  CapacityInv'
<1>1. /\ pc = "add" /\ backends' = Append(backends, port[cur]) /\ fresh' = fresh \cup {cur}
      /\ pc' \in {"run", "drain"} /\ UNCHANGED <<port, listening, before>>
  BY DEF AddBackend, AddProxyBackend, Goto, boxVars
<1>2. /\ cur \notin fresh /\ port[cur] \in Ports /\ fresh \in SUBSET Containers
      /\ backends \in Seq(Ports) /\ before \in Seq(Ports)
  BY <1>1 DEF TickInv, TypeOK, LocalsOK, Starting
<1>3. /\ Placed = fresh /\ MayFail /\ pc \in {"run"} \cup Starting \cup Replacing
      /\ Placed' = fresh'
  BY <1>1 DEF Placed, MayFail, Starting
<1>4. /\ Len(backends) \in Nat /\ Len(before) \in Nat /\ Len(backends') = Len(backends) + 1
      /\ \A i \in 1..Len(backends) : backends'[i] = backends[i]
      /\ backends'[Len(backends) + 1] = port[cur]
  <2>1. Len(backends) \in Nat /\ Len(before) \in Nat
    BY <1>2, LenProperties
  <2> QED
    BY <1>1, <1>2, <2>1, AppendProperties
<1>5. Cardinality(fresh) \in Nat /\ Cardinality(fresh') = Cardinality(fresh) + 1
  BY <1>1, <1>2, FiniteContainers, FS_AddElement
<1>6. Len(backends) = Len(before) + Cardinality(fresh) /\ LastNew(Cardinality(fresh))
  BY <1>3 DEF CapacityInv
<1>7. LastNew(Cardinality(fresh))'
  <2>1. Cardinality(fresh') \in 0..Len(backends')
    BY <1>4, <1>5, <1>6
  <2>2. ASSUME NEW i \in 1..Len(backends'), i > Len(backends') - Cardinality(fresh')
        PROVE  \E f \in fresh' : backends'[i] = port'[f]
    <3>1. CASE i = Len(backends) + 1
      BY <1>1, <1>4, <3>1
    <3>2. CASE i # Len(backends) + 1
      <4>1. i \in 1..Len(backends) /\ i > Len(backends) - Cardinality(fresh)
        BY <1>4, <1>5, <2>2, <3>2
      <4>2. PICK f \in fresh : backends[i] = port[f]
        BY <1>6, <4>1 DEF LastNew
      <4> QED
        BY <1>1, <1>4, <4>1, <4>2
    <3> QED
      BY <3>1, <3>2
  <2> QED
    BY <2>1, <2>2 DEF LastNew
<1>8. Len(backends') = Len(before') + Cardinality(fresh') /\ Len(backends') >= Len(before')
  BY <1>1, <1>4, <1>5, <1>6
<1> QED
  BY <1>1, <1>3, <1>7, <1>8 DEF CapacityInv, CapacityKept

(* One step of rollback.                                                   *)
LEMMA CapacityUndo ==
    ASSUME TickInv, EntriesOK, CapacityInv, listening, pc = "undo", pc' = "undo",
           NEW d \in undo, RemoveBackend(port[d]), undo' = undo \ {d},
           UNCHANGED <<before, listening>>
    PROVE  CapacityInv'
<1>1. Surplus(undo) /\ Placed = undo /\ Placed' = undo' /\ MayFail
  BY DEF EntriesOK, MayFail, Placed
<1>2. backends \in Seq(Ports) /\ before \in Seq(Ports) /\ undo \in SUBSET Containers
  BY DEF TickInv, TypeOK
<1>3. Contains(backends, port[d])
  <2>1. port[d] \in Ports
    BY DEF TickInv, LocalsOK
  <2> QED
    BY <1>1, <2>1, UndoFinds
<1>4. PICK k \in 1..Len(backends) : RemoveFirst(backends, port[d]) = RemoveAt(backends, k)
  BY <1>2, <1>3, RemovesOne
<1>5. Len(backends') = Len(backends) - 1
  BY <1>2, <1>3, <1>4, WithoutOne DEF RemoveBackend
<1>6. Cardinality(undo) \in Nat /\ Cardinality(undo') = Cardinality(undo) - 1
  BY <1>2, FiniteContainers, FS_RemoveElement
<1>7. Cardinality(undo') \in Nat
  <2>1. undo' \in SUBSET Containers
    BY <1>2
  <2> QED
    BY <2>1, FiniteContainers
<1>8. Len(backends) = Len(before) + Cardinality(undo) /\ Len(before) \in Nat
  BY <1>1, <1>2, LenProperties DEF CapacityInv
<1>9. Len(backends') = Len(before') + Cardinality(undo') /\ Len(backends') >= Len(before')
  BY <1>5, <1>6, <1>7, <1>8
<1> QED
  BY <1>1, <1>9 DEF CapacityInv, CapacityKept, Starting, Replacing

(* An old container leaves from before the new ones.                       *)
LEMMA CapacityDrain ==
    ASSUME TickInv, PortsApart, CapacityInv, listening, pc = "drain", pc' = "stop", NEW c \in old,
           status[c] = "running", Contains(backends, port[c]), RemoveBackend(port[c]),
           UNCHANGED <<port, listening, fresh, before>>
    PROVE  CapacityInv'
<1> DEFINE n == Len(backends)
           r == Cardinality(fresh)
<1>1. backends \in Seq(Ports) /\ n \in Nat /\ r \in Nat /\ r = Replicas
  BY LenProperties, FiniteContainers DEF TickInv, TypeOK, LocalsOK, Replacing
<1>2. PICK k \in 1..n : backends[k] = port[c] /\ RemoveFirst(backends, port[c]) = RemoveAt(backends, k)
  BY <1>1, RemovesOne
<1>3. /\ Len(backends') = n - 1
      /\ \A i \in 1..(n - 1) : backends'[i] = IF i < k THEN backends[i] ELSE backends[i + 1]
  BY <1>1, <1>2, WithoutOne DEF RemoveBackend
<1>4. LastNew(r)
  BY DEF CapacityInv, Replacing
<1>5. \A f \in fresh : port[f] # port[c]
  BY DEF PortsApart, Started
<1>6. k <= n - r
  <2>1. ~(k > n - r)
    BY <1>2, <1>4, <1>5 DEF LastNew
  <2> QED
    BY <1>1, <2>1
<1>7. r \in 0..(n - 1)
  BY <1>1, <1>6
<1>8. ASSUME NEW i \in 1..(n - 1), i > (n - 1) - r
      PROVE  \E f \in fresh : backends'[i] = port[f]
  <2>1. i + 1 \in 1..n /\ i + 1 > n - r /\ ~(i < k)
    BY <1>1, <1>6, <1>8
  <2>2. backends'[i] = backends[i + 1]
    BY <1>3, <2>1
  <2> QED
    BY <1>4, <2>1, <2>2 DEF LastNew
<1>9. LastNew(Cardinality(fresh))'
  <2>1. r \in 0..Len(backends') /\ \A i \in 1..Len(backends') :
           i > Len(backends') - r => \E f \in fresh : backends'[i] = port[f]
    BY <1>3, <1>7, <1>8
  <2> QED
    BY <2>1 DEF LastNew
<1>10. Len(backends') >= Replicas
  BY <1>1, <1>3, <1>7
<1> QED
  BY <1>9, <1>10 DEF CapacityInv, CapacityKept, MayFail, Starting

(* Every other step at most changes which phase it is.                     *)
LEMMA CapacityNext ==
    ASSUME TickInv, TickInv', EntriesOK, PortsApart, CapacityInv, [Next]_vars
    PROVE  CapacityInv'
<1>t. LocalsOK /\ ProxyOK /\ TypeOK
  BY DEF TickInv
<1> USE DEF Goto, EndTick, Rollback, tickVars, boxVars, sigVars, localVars
<1>0. CASE pc' # "down" /\ ~listening'
  BY <1>0 DEF CapacityInv
<1> DEFINE Quiet == /\ UNCHANGED <<backends, before, listening, fresh>>
                    /\ \A f \in fresh : port'[f] = port[f]
                    /\ pc' = "down" => pc = "down"
                    /\ MayFail' => MayFail /\ Placed' = Placed
                    /\ pc' \in {"run"} \cup Starting \cup Replacing
                          => pc \in {"run"} \cup Starting \cup Replacing
<1>1. CASE Quiet
  BY <1>1, CapacityFrame
<1> HIDE DEF Quiet
<1>2. CASE Exit \/ Crash
  BY <1>2 DEF Exit, Crash, Gone, CapacityInv
<1>3. CASE Boot
  <2>1. backends' = <<>> /\ before' = <<>> /\ pc' = "idle" /\ outcome' = "none"
    BY <1>3, <1>t DEF Boot, ProxyOK, CapacityInv
  <2> QED
    BY <2>1 DEF CapacityInv, CapacityKept, MayFail, Starting, Replacing
<1>4. ASSUME listening', ResolveContainerCurrent PROVE CapacityInv'
  <2>1. /\ before' = backends /\ UNCHANGED <<backends, listening>> /\ pc' \in {"idle", "check"}
        /\ fresh' = {}
    BY <1>4, <1>t DEF ResolveContainerCurrent, LocalsOK, Early
  <2>2. Placed' = {} /\ Len(backends) \in Nat
    BY <1>t, <2>1, LenProperties DEF Placed, TypeOK
  <2>3. Len(backends') = Len(before') + Cardinality(Placed') /\ Len(backends') >= Len(before')
    BY <2>1, <2>2, FS_EmptySet
  <2> QED
    BY <2>1, <2>3 DEF CapacityInv, CapacityKept, Starting, Replacing
<1>5. ASSUME ResolveContainerState \/ PullImage \/ ResolvePortMappings PROVE Quiet
  <2>1. UNCHANGED <<backends, before, listening, port>>
    BY <1>5 DEF ResolveContainerState, PullImage, ResolvePortMappings
  <2>2. /\ pc \in {"check", "pull", "expose"} /\ pc' \in {"idle", "pull", "expose", "find"}
        /\ fresh = {} /\ fresh' = {}
    BY <1>5, <1>t DEF ResolveContainerState, PullImage, Pull, ResolvePortMappings, LocalsOK, Early
  <2>3. MayFail /\ Placed' = Placed
    BY <2>2 DEF MayFail, Placed
  <2> QED
    BY <2>1, <2>2, <2>3 DEF Quiet, Starting, Replacing
<1>6. ASSUME listening', FindExisting PROVE CapacityInv'
  <2>1. /\ UNCHANGED <<backends, before, listening>> /\ pc = "find" /\ pc' \in {"idle", "run"}
        /\ fresh = {} /\ fresh' = {} /\ listening
    BY <1>6, <1>t DEF FindExisting, LocalsOK, Early
  <2>2. Placed = {} /\ Placed' = {} /\ MayFail
    BY <2>1 DEF Placed, MayFail
  <2>3. Len(backends) = Len(before) + Cardinality(Placed) /\ CapacityKept
    BY <2>1, <2>2 DEF CapacityInv
  <2>4. LastNew(Cardinality(fresh))'
    <3>1. Cardinality(fresh') = 0 /\ Len(backends) \in Nat
      BY <1>t, <2>1, FS_EmptySet, LenProperties DEF TypeOK
    <3> QED
      BY <2>1, <3>1 DEF LastNew
  <2> QED
    BY <2>1, <2>2, <2>3, <2>4 DEF CapacityInv, CapacityKept, Starting, Replacing
<1>7. ASSUME RunNew PROVE Quiet
  <2>1. /\ UNCHANGED <<backends, before, listening, fresh>>
        /\ pc = "run" /\ (pc' = "port" \/ (pc' = "undo" /\ undo' = fresh))
    BY <1>7 DEF RunNew
  <2>2. \A c \in fresh : port'[c] = port[c]
    BY <1>7, <1>t DEF RunNew, StartContainer, Unnamed, TypeOK
  <2>3. MayFail /\ Placed' = Placed
    BY <2>1 DEF MayFail, Placed
  <2> QED
    BY <2>1, <2>2, <2>3 DEF Quiet
<1>8. ASSUME GetMappedPort \/ CheckHealth \/ Discard PROVE Quiet
  <2>1. /\ UNCHANGED <<backends, before, listening, port, fresh>>
        /\ pc \in {"port", "health", "discard"}
        /\ pc' \in {"health", "discard", "add"} \/ (pc' = "undo" /\ undo' = fresh)
    BY <1>8 DEF GetMappedPort, CheckHealth, Discard
  <2>2. MayFail /\ Placed' = Placed
    BY <2>1 DEF MayFail, Placed, Starting
  <2> QED
    BY <2>1, <2>2 DEF Quiet, Starting
<1>9. ASSUME listening', AddBackend PROVE CapacityInv'
  <2>1. listening
    BY <1>9 DEF AddBackend
  <2> QED
    BY <1>9, <2>1, CapacityAdd
<1>10. ASSUME listening', UndoBackend PROVE Quiet \/ CapacityInv'
  <2>1. pc = "undo" /\ UNCHANGED <<listening, port, before, fresh>> /\ listening
    BY <1>10 DEF UndoBackend
  <2>2. CASE undo = {} /\ pc' = "kill" /\ UNCHANGED backends
    BY <2>1, <2>2 DEF Quiet, MayFail, Placed, Starting, Replacing
  <2>3. ASSUME NEW d \in undo, RemoveBackend(port[d]), undo' = undo \ {d}, pc' = pc
        PROVE  CapacityInv'
    BY <2>1, <2>3, CapacityUndo
  <2> QED
    BY <1>10, <2>2, <2>3 DEF UndoBackend
<1>11. ASSUME UndoContainer PROVE CapacityInv'
  <2>1. pc = "kill" /\ pc' \in {"kill", "idle"} /\ UNCHANGED <<backends, before, listening>>
    BY <1>11 DEF UndoContainer
  <2>2. Placed = {} /\ Placed' = {} /\ MayFail
    BY <2>1 DEF Placed, MayFail
  <2> QED
    BY <2>1, <2>2 DEF CapacityInv, CapacityKept, Starting, Replacing
<1>12. ASSUME listening', DrainOld PROVE Quiet \/ CapacityInv'
  <2>1. /\ pc = "drain" /\ pc' \in {"stop", "reap"} /\ UNCHANGED <<listening, port, fresh, before>>
        /\ listening
    BY <1>12 DEF DrainOld
  <2>2. CASE UNCHANGED backends
    BY <2>1, <2>2 DEF Quiet, MayFail, Starting, Replacing
  <2>3. ASSUME backends' # backends PROVE CapacityInv'
    <3>1. PICK c \in old : HasPort(c) /\ RemoveBackend(port[c]) /\ pc' = "stop"
      BY <1>12, <2>3 DEF DrainOld
    <3>2. status[c] = "running" /\ Contains(backends, port[c])
      BY <2>3, <3>1 DEF HasPort, Running, RemoveBackend
    <3> QED
      BY <2>1, <3>1, <3>2, CapacityDrain
  <2> QED
    BY <2>2, <2>3
<1>13. ASSUME StopOld \/ RemoveExited PROVE Quiet
  <2>1. /\ pc \in {"stop", "reap"} /\ pc' \in {"drain", "prune"}
        /\ UNCHANGED <<backends, before, listening, port, fresh>>
    BY <1>13 DEF StopOld, RemoveExited
  <2> QED
    BY <2>1 DEF Quiet, MayFail, Starting, Replacing
<1>14. ASSUME CleanupOldImages PROVE CapacityInv'
  <2>1. /\ pc = "prune" /\ pc' = "idle" /\ outcome' = "ok"
        /\ UNCHANGED <<backends, before, listening>>
    BY <1>14 DEF CleanupOldImages
  <2> QED
    BY <2>1 DEF CapacityInv, CapacityKept, MayFail, Starting, Replacing
<1>15. CASE StopProxy
  <2>1. ~listening' /\ UNCHANGED <<pc, before>>
    BY <1>15 DEF StopProxy
  <2> QED
    BY <2>1 DEF CapacityInv
<1>16. ASSUME \/ \E i \in Images : Publish(i)
              \/ Terminate \/ ListManaged \/ StopManaged
              \/ \E c \in Containers : ContainerDies(c)
              \/ UNCHANGED vars
       PROVE  Quiet
  <2>1. UNCHANGED <<backends, before, listening, port, pc, fresh, undo, outcome>>
    BY <1>16 DEF Publish, Terminate, ListManaged, StopManaged, ContainerDies, vars
  <2> QED
    BY <2>1 DEF Quiet, Placed, MayFail
<1>17. CASE pc' = "down" /\ ~(Exit \/ Crash)
  <2>1. pc = "down" /\ UNCHANGED before
    <3>1. CASE RunContainer \/ Boot
      <4>1. pc' # "down"
        BY <3>1 DEF RunContainer, ResolveContainerCurrent, ResolveContainerState, PullImage, Pull,
           ResolvePortMappings, FindExisting, RunNew, GetMappedPort, CheckHealth, Discard,
           AddBackend, UndoBackend, UndoContainer, DrainOld, StopOld, RemoveExited,
           CleanupOldImages, Boot
      <4> QED
        BY <1>17, <4>1
    <3>2. CASE ~(RunContainer \/ Boot)
      BY <1>17, <3>2 DEF Next, Undisturbed, Shutdown, Publish, Terminate, ListManaged, StopManaged,
         StopProxy, ContainerDies, vars
    <3> QED
      BY <3>1, <3>2
  <2>2. ~listening'
    BY <1>17 DEF TickInv, ProxyOK
  <2> QED
    BY <2>1, <2>2 DEF CapacityInv
<1> QED
  BY <1>0, <1>1, <1>2, <1>3, <1>4, <1>5, <1>6, <1>7, <1>8, <1>9, <1>10, <1>11, <1>12, <1>13,
     <1>14, <1>15, <1>16, <1>17
  DEF Next, Undisturbed, RunContainer, Shutdown

(***************************************************************************)
(* CapacityKept: at no time in a deploy or after it are there fewer        *)
(* backends than there were and than are asked for, for any number of      *)
(* replicas and whatever fails, dies or is signalled (Deploy, rollback,    *)
(* removeBackend).                                                         *)
(***************************************************************************)
THEOREM CapacityTheorem == Spec => []CapacityKept
<1>1. Init => TickInv /\ EntriesOK /\ PortsApart /\ CapacityInv
  BY TickInvInit DEF Init, EntriesOK, MayFail, PortsApart, CapacityInv, CapacityKept, Starting,
     Replacing
<1>2. TickInv /\ EntriesOK /\ PortsApart /\ CapacityInv /\ [Next]_vars
         => (TickInv /\ EntriesOK /\ PortsApart /\ CapacityInv)'
  BY TickInvNext, EntriesNext, PortsApartNext, CapacityNext
<1>3. CapacityInv => CapacityKept
  BY DEF CapacityInv, CapacityKept
<1> QED
  BY <1>1, <1>2, <1>3, PTL DEF Spec

=============================================================================
