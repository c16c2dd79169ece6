------------------------ MODULE ContainerHostProofs ------------------------
(***************************************************************************)
(* The host of `dewy container` for every number of containers, scrapers,  *)
(* faults and every interval: what the metrics report is what runs, and a  *)
(* shutdown stops what it found.                                           *)
(***************************************************************************)
EXTENDS ContainerHost, RollingDeployProofs

(* A collection that fails counts as a fault and leaves the deploy alone.  *)
FaultOnly ==
    /\ UNCHANGED <<regVars, boxVars, backends, listening, runtime, tickVars, sigVars>>
    /\ faults < MaxFaults /\ faults' = faults + 1

LEMMA HostStep == [HostNext]_hostVars => [Next]_vars \/ FaultOnly
<1> SUFFICES ASSUME [HostNext]_hostVars PROVE [Next]_vars \/ FaultOnly
  OBVIOUS
<1>1. CASE UNCHANGED hostVars \/ Deploying \/ Pass
  BY <1>1 DEF hostVars, Deploying, Pass
<1>2. ASSUME NEW s \in Scrapers, Scrape(s) \/ Snapshot(s) \/ InspectManaged(s)
      PROVE  [Next]_vars
  BY <1>2 DEF Scrape, Snapshot, InspectManaged
<1>3. ASSUME NEW s \in Scrapers, ObserveContainers(s)
      PROVE  [Next]_vars \/ FaultOnly
  BY <1>3 DEF ObserveContainers, FaultOnly, Fault, vars
<1> QED
  BY <1>1, <1>2, <1>3 DEF HostNext, Observing

LEMMA FaultOnlyTick == TickInv /\ FaultOnly => TickInv'
<1> SUFFICES ASSUME TickInv, FaultOnly PROVE TickInv'
  OBVIOUS
<1> USE DEF FaultOnly, regVars, boxVars, tickVars, sigVars
<1>1. TypeOK'
  BY DEF TickInv, TypeOK
<1>2. LocalsOK'
  BY DEF TickInv, LocalsOK
<1>3. ProxyOK'
  BY DEF TickInv, ProxyOK
<1> QED
  BY <1>1, <1>2, <1>3 DEF TickInv

LEMMA HostTickNext == TickInv /\ [HostNext]_hostVars => TickInv'
BY HostStep, FaultOnlyTick, TickInvNext

(* A step meets at most one fault, and none beyond the bound.              *)
OneFault == UNCHANGED faults \/ (faults < MaxFaults /\ faults' = faults + 1)

LEMMA NextOneFault == [Next]_vars => OneFault
<1> SUFFICES ASSUME [Next]_vars PROVE OneFault
  OBVIOUS
<1> USE DEF OneFault, Fault
<1>1. CASE \/ ResolveContainerCurrent \/ ResolveContainerState \/ PullImage
           \/ ResolvePortMappings \/ FindExisting \/ RunNew \/ GetMappedPort \/ CheckHealth
  BY <1>1 DEF ResolveContainerCurrent, ResolveContainerState, PullImage, Pull, ResolvePortMappings,
              GetImageExposedPorts, FindExisting, RunNew, GetMappedPort, CheckHealth
<1>2. CASE \/ Discard \/ AddBackend \/ UndoBackend \/ UndoContainer \/ DrainOld \/ StopOld
           \/ RemoveExited \/ CleanupOldImages
  BY <1>2 DEF Discard, AddBackend, UndoBackend, UndoContainer, DrainOld, StopOld, StopAndRemove,
              RemoveExited, CleanupOldImages
<1>3. CASE \/ \E i \in Images : Publish(i)
           \/ Terminate \/ ListManaged \/ StopManaged \/ StopProxy \/ Exit \/ Crash \/ Boot
           \/ \E c \in Containers : ContainerDies(c)
           \/ UNCHANGED vars
  BY <1>3 DEF Publish, Terminate, ListManaged, StopManaged, StopProxy, Exit, Crash, Boot,
              ContainerDies, vars
<1> QED
  BY <1>1, <1>2, <1>3 DEF Next, Undisturbed, RunContainer, Shutdown

-----------------------------------------------------------------------------
(* Types *)

ObsType ==
    /\ scrape \in [Scrapers -> {"idle", "wait", "list", "inspect"}]
    /\ ids \subseteq Containers /\ listed \subseteq Containers
    /\ seen \in 0..Cardinality(Containers)
    /\ age \in 0..TTL
    /\ {ok, calm} \subseteq BOOLEAN
    /\ missed \in Nat /\ missed <= faults /\ faults <= MaxFaults

LEMMA ObserveBound ==
    ASSUME NEW S
    PROVE  Observe(S) \in 0..Cardinality(Containers)
<1>1. S \cap Running \in SUBSET Containers /\ IsFiniteSet(Containers)
  BY ConstantsAssumption DEF Running
<1>2. /\ IsFiniteSet(S \cap Running)
      /\ Cardinality(S \cap Running) <= Cardinality(Containers)
  BY <1>1, FS_Subset
<1> QED
  BY <1>1, <1>2, FS_CardinalityType DEF Observe

LEMMA ObsTypeInit == HostInit => ObsType
<1> SUFFICES ASSUME HostInit PROVE ObsType
  OBVIOUS
<1>1. Cardinality(Containers) \in Nat
  BY ConstantsAssumption, FS_CardinalityType
<1>2. {ok, calm} \subseteq BOOLEAN
  BY DEF HostInit
<1>3. MaxFaults \in Nat /\ TTL \in Nat
  BY ConstantsAssumption, HostAssumption
<1>4. faults = 0
  BY DEF HostInit, Init
<1> QED
  BY <1>1, <1>2, <1>3, <1>4 DEF HostInit, ObsType

LEMMA ObsTypeNext == TickInv /\ ObsType /\ [HostNext]_hostVars => ObsType'
<1> SUFFICES ASSUME TickInv, ObsType, [HostNext]_hostVars PROVE ObsType'
  OBVIOUS
<1>c. Cardinality(Containers) \in Nat
  BY ConstantsAssumption, FS_CardinalityType
<1>f. faults \in Nat /\ MaxFaults \in Nat /\ TTL \in Nat \ {0}
  BY ConstantsAssumption, HostAssumption DEF TickInv, TypeOK
<1> USE DEF ObsType
<1>1. CASE UNCHANGED hostVars
  BY <1>1 DEF hostVars, obsVars, vars
<1>2. CASE Pass
  BY <1>2, <1>f DEF Pass, vars
<1>3. ASSUME NEW s \in Scrapers, Scrape(s) \/ Snapshot(s)
      PROVE  ObsType'
  <2>1. {ok', calm'} \subseteq BOOLEAN
    <3>1. UNCHANGED ok /\ (UNCHANGED calm \/ calm' = TRUE)
      BY <1>3, Zenon DEF Scrape, Snapshot
    <3> QED
      BY <3>1, Zenon
  <2>2. /\ scrape' \in [Scrapers -> {"idle", "wait", "list", "inspect"}]
        /\ UNCHANGED <<ids, seen, listed, missed, faults>> /\ age' \in 0..TTL
    BY <1>3, <1>f DEF Scrape, Snapshot, To, vars
  <2> QED
    BY <2>1, <2>2
<1>4. ASSUME NEW s \in Scrapers, NEW good \in BOOLEAN, NEW S, Collected(s, good, S),
             UNCHANGED <<age, calm, listed, missed>>, OneFault
      PROVE  ObsType'
  <2>1. seen' \in 0..Cardinality(Containers)
    BY <1>4, ObserveBound DEF Collected
  <2>2. ids' \subseteq Containers /\ ok' \in BOOLEAN /\ scrape' = [scrape EXCEPT ![s] = "idle"]
    BY <1>4 DEF Collected, To
  <2> QED
    BY <1>4, <1>f, <2>1, <2>2 DEF OneFault
<1>5. ASSUME NEW s \in Scrapers, InspectManaged(s)
      PROVE  ObsType'
  BY <1>4, <1>5 DEF InspectManaged, InspectFails, OneFault, vars
<1>6. ASSUME NEW s \in Scrapers, ObserveContainers(s)
      PROVE  ObsType'
  <2>1. CASE Collected(s, FALSE, {}) /\ Fault("list")
    BY <1>4, <1>6, <2>1 DEF ObserveContainers, OneFault, Fault
  <2>2. CASE Collected(s, TRUE, {}) /\ UNCHANGED faults
    BY <1>4, <1>6, <2>2 DEF ObserveContainers, OneFault
  <2>3. CASE To(s, "inspect") /\ ids' = Managed /\ UNCHANGED <<seen, ok, faults>>
    BY <1>6, <2>3 DEF ObserveContainers, To, Managed
  <2> QED
    BY <1>6, <2>1, <2>2, <2>3 DEF ObserveContainers
<1>7. CASE Deploying
  <2>1. /\ scrape' \in [Scrapers -> {"idle", "wait", "list", "inspect"}]
        /\ ids' \subseteq Containers
        /\ seen' \in 0..Cardinality(Containers)
        /\ age' \in 0..TTL
    BY <1>7, <1>c, <1>f DEF Deploying
  <2>2. {ok', calm'} \subseteq BOOLEAN
    BY <1>7 DEF Deploying
  <2>3. listed' \subseteq Containers
    <3>1. todo' \subseteq Containers
      BY <1>7, TypeNext DEF Deploying, TypeOK
    <3> QED
      BY <1>7, <3>1 DEF Deploying
  <2>4. OneFault
    BY <1>7, NextOneFault DEF Deploying
  <2>5. missed' \in Nat /\ missed' <= faults' /\ faults' <= MaxFaults
    BY <1>7, <1>f, <2>4 DEF Deploying, OneFault
  <2> QED
    BY <2>1, <2>2, <2>3, <2>5
<1> QED
  BY <1>1, <1>2, <1>3, <1>5, <1>6, <1>7 DEF HostNext, Observing

(***************************************************************************)
(* Type correctness, with the bounds of what is counted: never more        *)
(* replicas than there are containers, never more containers missed than   *)
(* calls that failed.                                                      *)
(***************************************************************************)
THEOREM HostTypeTheorem == HostSpec => []HostTypeOK
<1>1. HostInit => TickInv /\ ObsType
  BY TickInvInit, ObsTypeInit DEF HostInit
<1>2. TickInv /\ ObsType => HostTypeOK
  <2> SUFFICES ASSUME TickInv, ObsType PROVE HostTypeOK
    OBVIOUS
  <2>1. MaxFaults \in Nat
    BY ConstantsAssumption
  <2>2. faults \in Nat /\ TypeOK
    BY DEF TickInv, TypeOK
  <2>3. missed \in 0..MaxFaults
    BY <2>1, <2>2 DEF ObsType
  <2>4. {ids, listed} \subseteq SUBSET Containers
    BY DEF ObsType
  <2> QED
    BY <2>2, <2>3, <2>4 DEF ObsType, HostTypeOK
<1> QED
  BY <1>1, <1>2, HostTickNext, ObsTypeNext, PTL DEF HostSpec

-----------------------------------------------------------------------------
(* The shutdown *)

(* Of what the shutdown has listed, what still runs is what it still has   *)
(* to stop or has failed to stop.                                          *)
ShutdownOK ==
    /\ sig \in {"none", "list"} => listed = {}
    /\ \A c \in listed : status[c] # "none"
    /\ sig \in {"stop", "exit"} => Cardinality((listed \cap Running) \ todo) <= missed
    /\ sig = "exit" => todo = {}

(* What a step of the deploy, or of the signals, does to the shutdown.     *)
LEMMA SignalStep ==
    ASSUME [Next]_vars
    PROVE  \/ sig' = "none"
           \/ sig = "none" /\ sig' = "list"
           \/ sig = "list" /\ sig' = "stop" /\ todo' \subseteq Running /\ UNCHANGED status
           \/ StopManaged
           \/ sig = "stop" /\ sig' = "exit" /\ todo = {} /\ UNCHANGED <<todo, status>>
           \/ UNCHANGED <<sig, todo>>
<1> USE DEF sigVars, boxVars
<1>1. CASE ListManaged
  BY <1>1 DEF ListManaged
<1>2. CASE StopProxy
  BY <1>2 DEF StopProxy
<1>3. CASE Terminate \/ Exit \/ Crash
  BY <1>3 DEF Terminate, Exit, Crash, Gone
<1>4. CASE UNCHANGED sigVars
  BY <1>4
<1> QED
  BY <1>1, <1>2, <1>3, <1>4
  DEF Next, Undisturbed, RunContainer, Shutdown, Publish, ResolveContainerCurrent,
      ResolveContainerState, PullImage, ResolvePortMappings, FindExisting, RunNew, GetMappedPort,
      CheckHealth, Discard, AddBackend, UndoBackend, UndoContainer, DrainOld, StopOld,
      RemoveExited, CleanupOldImages, Boot, ContainerDies, vars

(* No container that was listed starts to run.                             *)
LEMMA ListedRunning ==
    ASSUME TickInv, [Next]_vars, \A c \in listed : status[c] # "none", listed \subseteq Containers
    PROVE  listed \cap Running' \subseteq listed \cap Running
<1>1. CASE StopsSome
  BY <1>1 DEF StopsSome, Running
<1>2. ASSUME NEW c \in Containers, NEW p \in Ports, Starts(c, p)
      PROVE  listed \cap Running' \subseteq listed \cap Running
  <2>1. status' = [status EXCEPT ![c] = "running"] /\ c \notin listed
    BY <1>2 DEF Starts, StartContainer, Unnamed
  <2> QED
    BY <2>1 DEF Running, TickInv, TypeOK
<1> QED
  BY <1>1, <1>2, BoxStep

(* Subsets of the containers, compared by their size.                      *)
LEMMA SmallerSet ==
    ASSUME NEW S \in SUBSET Containers, NEW T \in SUBSET S
    PROVE  Cardinality(T) <= Cardinality(S) /\ Cardinality(T) \in Nat /\ Cardinality(S) \in Nat
<1>1. IsFiniteSet(S) /\ IsFiniteSet(T)
  BY FiniteContainers
<1> QED
  BY <1>1, FS_Subset, FS_CardinalityType

LEMMA ShutdownNext == TickInv /\ ObsType /\ ShutdownOK /\ [HostNext]_hostVars => ShutdownOK'
<1> SUFFICES ASSUME TickInv, ObsType, ShutdownOK, [HostNext]_hostVars PROVE ShutdownOK'
  OBVIOUS
<1>1. CASE UNCHANGED <<status, sig, todo, listed, missed>>
  BY <1>1 DEF ShutdownOK, Running
<1>2. CASE Deploying
  <2>n. Next
    BY <1>2 DEF Deploying
  <2>t. listed \subseteq Containers /\ missed \in Nat
    BY DEF ObsType
  <2>r. listed \cap Running' \subseteq listed \cap Running
    BY <2>n, <2>t, ListedRunning DEF ShutdownOK
  <2>1. CASE sig' = "none"
    <3>1. listed' = {}
      BY <1>2, <2>1 DEF Deploying
    <3> QED
      BY <2>1, <3>1 DEF ShutdownOK
  <2>2. CASE sig = "none" /\ sig' = "list"
    <3>1. listed' = {c \in listed : status'[c] # "none"}
      BY <1>2, <2>2 DEF Deploying
    <3> QED
      BY <2>2, <3>1 DEF ShutdownOK
  <2>3. CASE sig = "list" /\ sig' = "stop" /\ todo' \subseteq Running /\ UNCHANGED status
    <3>1. listed' = todo' /\ missed' = missed
      BY <1>2, <2>3 DEF Deploying
    <3>2. (listed' \cap Running') \ todo' = {} /\ \A c \in listed' : status'[c] # "none"
      BY <2>3, <3>1 DEF Running
    <3> QED
      BY <2>3, <2>t, <3>1, <3>2, FS_EmptySet DEF ShutdownOK
  <2>4. ASSUME sig \in {"stop", "exit"}, sig' \in {"stop", "exit"}, UNCHANGED todo,
               sig' = "exit" => todo = {}
        PROVE  ShutdownOK'
    <3>1. listed' = {c \in listed : status'[c] # "none"} /\ missed' = missed
      BY <1>2, <2>4 DEF Deploying
    <3>2. (listed' \cap Running') \ todo' \subseteq (listed \cap Running) \ todo
      BY <2>4, <2>r, <3>1
    <3>3. Cardinality((listed' \cap Running') \ todo') <= missed'
      BY <2>4, <2>t, <3>1, <3>2, SmallerSet DEF ShutdownOK
    <3> QED
      BY <2>4, <3>1, <3>3 DEF ShutdownOK
  <2>5. CASE StopManaged
    <3> DEFINE S == (listed \cap Running) \ todo
               T == (listed' \cap Running') \ todo'
    <3>1. PICK c \in todo :
             /\ todo' = todo \ {c}
             /\ \/ status[c] # "none" /\ status' = [status EXCEPT ![c] = "none"] /\ UNCHANGED faults
                \/ status[c] = "none" /\ UNCHANGED <<status, faults>>
                \/ Fault("stop") /\ UNCHANGED status
                \/ /\ status[c] # "none" /\ Fault("remove")
                   /\ status' = [status EXCEPT ![c] = "exited"]
      BY <2>5 DEF StopManaged
    <3>2. /\ sig = "stop" /\ sig' = "stop"
          /\ listed' = {d \in listed : status'[d] # "none"}
      BY <1>2, <2>5 DEF Deploying, StopManaged
    <3>3. S \in SUBSET Containers /\ T \subseteq S \cup {c} /\ c \in Containers
      BY <2>t, <2>r, <3>1, <3>2 DEF TickInv, TypeOK
    <3>4. Cardinality(S) <= missed /\ Cardinality(S) \in Nat /\ IsFiniteSet(S)
      BY <3>2, <3>3, FiniteContainers DEF ShutdownOK
    <3>5. CASE Fault("stop")
      <4>1. missed' = missed + 1
        BY <1>2, <3>1, <3>2, <3>5 DEF Deploying, Fault, TickInv, TypeOK
      <4>2. S \cup {c} \in SUBSET Containers
        BY <3>3
      <4>3. Cardinality(S \cup {c}) <= Cardinality(S) + 1 /\ Cardinality(S \cup {c}) \in Nat
        <5> HIDE DEF S
        <5> QED
          BY <3>4, <4>2, FS_AddElement, FiniteContainers
      <4>4. Cardinality(T) <= Cardinality(S \cup {c}) /\ Cardinality(T) \in Nat
        <5> HIDE DEF S, T
        <5> QED
          BY <3>3, <4>2, SmallerSet
      <4>5. Cardinality(T) <= missed'
        <5> HIDE DEF S, T
        <5> QED
          BY <2>t, <3>4, <4>1, <4>3, <4>4
      <4> QED
        BY <3>2, <4>5 DEF ShutdownOK
    <3>6. CASE status'[c] # "running"
      <4>1. T \subseteq S
        BY <3>3, <3>6 DEF Running
      <4>2. missed <= missed' /\ missed' \in Nat
        BY <1>2, <2>t, <3>2 DEF Deploying
      <4>3. Cardinality(T) <= Cardinality(S) /\ Cardinality(T) \in Nat
        <5> HIDE DEF S, T
        <5> QED
          BY <3>3, <4>1, SmallerSet
      <4>4. Cardinality(T) <= missed'
        <5> HIDE DEF S, T
        <5> QED
          BY <2>t, <3>4, <4>2, <4>3
      <4> QED
        BY <3>2, <4>4 DEF ShutdownOK
    <3> QED
      BY <3>1, <3>5, <3>6 DEF TickInv, TypeOK
  <2>6. CASE UNCHANGED <<sig, todo>>
    <3>1. CASE sig \in {"stop", "exit"}
      BY <2>4, <2>6, <3>1 DEF ShutdownOK
    <3>2. CASE sig = "list"
      <4>1. listed' = {c \in listed : status'[c] # "none"}
        BY <1>2, <2>6, <3>2 DEF Deploying
      <4> QED
        BY <2>6, <3>2, <4>1 DEF ShutdownOK
    <3> QED
      BY <2>1, <2>6, <3>1, <3>2 DEF TickInv, TypeOK
  <2> QED
    BY <2>1, <2>2, <2>3, <2>4, <2>5, <2>6, <2>n, SignalStep
<1>3. CASE UNCHANGED hostVars \/ Pass
  BY <1>1, <1>3 DEF hostVars, Pass, vars, boxVars, sigVars
<1>4. ASSUME NEW s \in Scrapers, Observing(s)
      PROVE  UNCHANGED <<status, sig, todo, listed, missed>>
  BY <1>4 DEF Observing, Scrape, Snapshot, ObserveContainers, InspectManaged, vars, boxVars, sigVars
<1> QED
  BY <1>1, <1>2, <1>3, <1>4 DEF HostNext

(***************************************************************************)
(* A shutdown stops every container that ran when it listed them, except   *)
(* as many as calls failed: for any number of containers, and whatever the *)
(* tick that is still under way starts, stops or removes meanwhile         *)
(* (StopManagedContainers in container/deploy.go).                         *)
(***************************************************************************)
THEOREM ShutdownStopsAllTheorem == HostSpec => []ShutdownStopsAll
<1> DEFINE Inv == TickInv /\ ObsType /\ ShutdownOK
<1>1. HostInit => Inv
  BY TickInvInit, ObsTypeInit DEF HostInit, Init, ShutdownOK
<1>2. Inv /\ [HostNext]_hostVars => Inv'
  BY HostTickNext, ObsTypeNext, ShutdownNext
<1>3. Inv => ShutdownStopsAll
  <2> SUFFICES ASSUME ShutdownOK, sig = "exit"
               PROVE  Cardinality(listed \cap Running) <= missed
    BY DEF ShutdownStopsAll
  <2>1. (listed \cap Running) \ todo = listed \cap Running
    BY DEF ShutdownOK
  <2> QED
    BY <2>1 DEF ShutdownOK
<1> QED
  BY <1>1, <1>2, <1>3, PTL DEF HostSpec

-----------------------------------------------------------------------------
(* The metrics *)

(* Whether s has the lock of containerObserverState.                       *)
Holds(s) == scrape[s] \in {"list", "inspect"}

(* One scraper has the lock; as long as the same containers run, they are  *)
(* among those it has listed.                                              *)
ReportOK ==
    /\ \A s, t \in Scrapers : Holds(s) /\ Holds(t) => s = t
    /\ \A s \in Scrapers : scrape[s] = "inspect" /\ calm => Running \subseteq ids
    /\ ReportExact

(* A scraper that moves on.                                                *)
LEMMA Moves ==
    ASSUME ObsType, NEW s \in Scrapers, NEW p \in {"idle", "wait", "list", "inspect"}, To(s, p)
    PROVE  scrape'[s] = p /\ \A t \in Scrapers : t # s => scrape'[t] = scrape[t]
BY DEF ObsType, To

LEMMA ReportNext == TickInv /\ ObsType /\ ReportOK /\ [HostNext]_hostVars => ReportOK'
<1> SUFFICES ASSUME TickInv, ObsType, ReportOK, [HostNext]_hostVars PROVE ReportOK'
  OBVIOUS
<1>1. CASE UNCHANGED <<scrape, ids, seen, ok, calm, status, runtime>>
  BY <1>1 DEF ReportOK, ReportExact, Holds, Managed, Running, Locked
<1>2. CASE UNCHANGED hostVars \/ Pass
  BY <1>1, <1>2 DEF hostVars, obsVars, Pass, vars, boxVars
<1>3. CASE Deploying
  <2>1. CASE pc' = "down"
    <3>1. calm' = FALSE /\ \A s \in Scrapers : scrape'[s] = "idle"
      BY <1>3, <2>1 DEF Deploying
    <3> QED
      BY <3>1 DEF ReportOK, ReportExact, Holds
  <2>2. CASE pc' # "down"
    <3>1. /\ UNCHANGED <<scrape, ids, seen, ok>>
          /\ calm' => calm /\ Running' = Running /\ UNCHANGED runtime
      BY <1>3, <2>2, Zenon DEF Deploying
    <3> QED
      BY <3>1 DEF ReportOK, ReportExact, Holds, Locked
  <2> QED
    BY <2>1, <2>2
<1>4. ASSUME NEW s \in Scrapers, Scrape(s)
      PROVE  ReportOK'
  <2>1. /\ UNCHANGED <<ids, seen, ok, calm, status, runtime>>
        /\ scrape[s] = "idle" /\ scrape'[s] = "wait"
        /\ \A t \in Scrapers : t # s => scrape'[t] = scrape[t]
    BY <1>4, Moves DEF Scrape, vars, boxVars
  <2>2. \A t \in Scrapers : /\ scrape'[t] = "inspect" <=> scrape[t] = "inspect"
                            /\ scrape'[t] = "list" <=> scrape[t] = "list"
    BY <2>1
  <2> QED
    BY <2>1, <2>2 DEF ReportOK, ReportExact, Holds, Managed, Running, Locked
<1>5. ASSUME NEW s \in Scrapers, Snapshot(s)
      PROVE  ReportOK'
  <2>1. /\ UNCHANGED <<ids, seen, ok, status, runtime>>
        /\ \A t \in Scrapers : ~Holds(t)
        /\ \/ scrape'[s] = "idle" /\ UNCHANGED calm
           \/ scrape'[s] = "list"
        /\ \A t \in Scrapers : t # s => scrape'[t] = scrape[t]
    BY <1>5, Moves DEF Snapshot, Locked, Holds, vars, boxVars
  <2> QED
    BY <2>1 DEF ReportOK, ReportExact, Holds, Running, Locked
<1>6. ASSUME NEW s \in Scrapers, NEW good \in BOOLEAN, NEW S, Holds(s), Collected(s, good, S),
             UNCHANGED <<calm, status, runtime>>,
             good /\ calm /\ runtime => S \cap Running = Running
      PROVE  ReportOK'
  <2>1. scrape'[s] = "idle" /\ \A t \in Scrapers : t # s => scrape'[t] = scrape[t]
    BY <1>6, Moves DEF Collected
  <2>2. \A t \in Scrapers : scrape'[t] \notin {"list", "inspect"}
    BY <1>6, <2>1 DEF ReportOK, Holds
  <2>3. ok' = good /\ seen' = Cardinality(S \cap Running)
    BY <1>6 DEF Collected, Observe
  <2>4. runtime' /\ ok' /\ calm' => seen' = Cardinality(Running')
    BY <1>6, <2>3 DEF Running
  <2> QED
    BY <2>2, <2>4 DEF ReportOK, ReportExact, Holds
<1>7. ASSUME NEW s \in Scrapers, ObserveContainers(s)
      PROVE  ReportOK'
  <2>1. Holds(s) /\ UNCHANGED <<calm, status, runtime>>
    BY <1>7 DEF ObserveContainers, Holds, boxVars
  <2>2. CASE Collected(s, FALSE, {})
    BY <1>6, <2>1, <2>2
  <2>3. CASE (~runtime \/ Managed = {}) /\ Collected(s, TRUE, {})
    <3>1. Managed = {} => Running = {}
      BY DEF Managed, Running
    <3>2. runtime => {} \cap Running = Running
      BY <2>3, <3>1
    <3> QED
      BY <1>6, <2>1, <2>3, <3>2
  <2>4. CASE To(s, "inspect") /\ ids' = Managed
    <3>1. scrape'[s] = "inspect" /\ \A t \in Scrapers : t # s => scrape'[t] = scrape[t]
      BY <2>4, Moves
    <3>2. \A t \in Scrapers : Holds(t)' <=> t = s
      BY <2>1, <3>1 DEF ReportOK, Holds
    <3>3. Running' \subseteq ids'
      BY <2>1, <2>4 DEF Managed, Running
    <3> QED
      BY <3>1, <3>2, <3>3 DEF ReportOK, ReportExact, Holds, Locked
  <2> QED
    BY <1>7, <2>2, <2>3, <2>4 DEF ObserveContainers
<1>8. ASSUME NEW s \in Scrapers, InspectManaged(s)
      PROVE  ReportOK'
  <2>1. Holds(s) /\ scrape[s] = "inspect" /\ UNCHANGED <<calm, status, runtime>>
    BY <1>8 DEF InspectManaged, Holds, vars, boxVars
  <2>2. CASE Collected(s, TRUE, ids)
    <3>1. calm => ids \cap Running = Running
      BY <2>1 DEF ReportOK
    <3> QED
      BY <1>6, <2>1, <2>2, <3>1
  <2>3. CASE InspectFails(s)
    BY <1>6, <2>1, <2>3 DEF InspectFails
  <2> QED
    BY <1>8, <2>2, <2>3 DEF InspectManaged
<1> QED
  BY <1>2, <1>3, <1>4, <1>5, <1>7, <1>8 DEF HostNext, Observing

(***************************************************************************)
(* The replicas reported are the ones that run, unless something changed   *)
(* since the collection began: for any number of scrapers and containers,  *)
(* whatever deploys, crashes and failing collections went before           *)
(* (observeContainers in container_metrics.go).                            *)
(***************************************************************************)
THEOREM ReportExactTheorem == HostSpec => []ReportExact
<1> DEFINE Inv == TickInv /\ ObsType /\ ReportOK
<1>1. HostInit => Inv
  BY TickInvInit, ObsTypeInit DEF HostInit, ReportOK, ReportExact, Holds
<1>2. Inv /\ [HostNext]_hostVars => Inv'
  BY HostTickNext, ObsTypeNext, ReportNext
<1>3. Inv => ReportExact
  BY DEF ReportOK
<1> QED
  BY <1>1, <1>2, <1>3, PTL DEF HostSpec
=============================================================================
