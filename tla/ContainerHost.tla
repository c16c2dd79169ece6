--------------------------- MODULE ContainerHost ---------------------------
(***************************************************************************)
(* The host of `dewy container`: RollingDeploy together with the metrics   *)
(* that are collected beside it.  The Prometheus handler and the OTLP      *)
(* reader ask for the same snapshot of the managed containers; collections *)
(* are serialized and a result, also a failed one, is reused for a while   *)
(* (telemetry/container.go, container_metrics.go, container/inspect.go).   *)
(*                                                                         *)
(* listed and missed record what the shutdown of RollingDeploy found and   *)
(* could not stop.                                                         *)
(***************************************************************************)
EXTENDS RollingDeploy

CONSTANTS
    Scrapers,     \* who collects metrics
    TTL           \* observeMinInterval

ASSUME HostAssumption == TTL \in Nat \ {0}

VARIABLES
    scrape,       \* scrape[s]: what scraper s does
    ids,          \* containers listed by the scraper that holds the lock
    age,          \* time since the last collection began (TTL: that or longer, or none)
    seen,         \* the replicas the cached snapshot counts as running
    ok,           \* cachedOK
    calm,         \* the same containers have run since that collection began
    listed,       \* containers found by the shutdown and there ever since
    missed        \* containers it failed to stop

obsVars  == <<scrape, ids, age, seen, ok, calm>>
hostVars == <<vars, obsVars, listed, missed>>

(* Every variable keeps the kind of value its declaration describes.       *)
HostTypeOK ==
    /\ TypeOK
    /\ scrape \in [Scrapers -> {"idle", "wait", "list", "inspect"}]
    /\ {ids, listed} \subseteq SUBSET Containers
    /\ seen \in 0..Cardinality(Containers)
    /\ age \in 0..TTL
    /\ {ok, calm} \subseteq BOOLEAN
    /\ missed \in 0..MaxFaults

HostInit ==
    /\ Init
    /\ scrape = [s \in Scrapers |-> "idle"]
    /\ ids = {}
    /\ age = TTL
    /\ seen = 0
    /\ ok = FALSE
    /\ calm = FALSE
    /\ listed = {}
    /\ missed = 0

(* The containers that existed, running or not: `ps -a`.                   *)
Managed == {c \in Containers : status[c] # "none"}

Locked == \E s \in Scrapers : scrape[s] \in {"list", "inspect"}

To(s, p) == scrape' = [scrape EXCEPT ![s] = p]

(* A scrape: it waits for the lock of containerObserverState.              *)
Scrape(s) ==
    /\ pc # "down"
    /\ scrape[s] = "idle"
    /\ To(s, "wait")
    /\ UNCHANGED <<vars, ids, age, seen, ok, calm, listed, missed>>

(* snapshot: under the lock, the cached result if it is young enough.      *)
Snapshot(s) ==
    /\ scrape[s] = "wait" /\ ~Locked
    /\ \/ age < TTL /\ To(s, "idle") /\ UNCHANGED <<age, calm>>
       \/ age = TTL /\ To(s, "list") /\ age' = 0 /\ calm' = TRUE
    /\ UNCHANGED <<vars, ids, seen, ok, listed, missed>>

(* Mutant: stopped containers are counted as well.                         *)
ObserveAll(containers) == Cardinality(containers)

(* observe: the replicas reported are the running ones.                    *)
Observe(containers) == Cardinality(containers \cap Running)

(* Mutant: the replicas are added to those counted before.                 *)
CollectedDelta(s, good, containers) ==
    /\ To(s, "idle")
    /\ ids' = {}
    /\ ok' = good
    /\ seen' = seen + Observe(containers)

(* The collection of s ends with these containers, or with a failure.      *)
Collected(s, good, containers) ==
    /\ To(s, "idle")
    /\ ids' = {}
    /\ ok' = good
    /\ seen' = Observe(containers)

(* observeContainers: without a runtime, or without containers, there is   *)
(* nothing to inspect.                                                     *)
ObserveContainers(s) ==
    /\ scrape[s] = "list"
    /\ \/ runtime /\ Fault("list") /\ Collected(s, FALSE, {})
       \/ /\ ~runtime \/ Managed = {}
          /\ Collected(s, TRUE, {})
          /\ UNCHANGED faults
       \/ /\ runtime /\ Managed # {}
          /\ To(s, "inspect")
          /\ ids' = Managed
          /\ UNCHANGED <<seen, ok, faults>>
    /\ UNCHANGED <<regVars, boxVars, backends, listening, runtime, tickVars, sigVars, age, calm,
                   listed, missed>>

(* Mutant: it is no failure that a container is gone, and none is counted. *)
InspectFailsIfThere(s) == Collected(s, ~(ids \subseteq Managed), {})

InspectFails(s) == Collected(s, FALSE, {})

(* InspectManaged: `inspect` fails if any of them has been removed since   *)
(* they were listed, and it may run into its deadline.                     *)
InspectManaged(s) ==
    /\ scrape[s] = "inspect"
    /\ \/ ids \subseteq Managed /\ Collected(s, TRUE, ids)
       \/ InspectFails(s)
    /\ UNCHANGED <<vars, age, calm, listed, missed>>

Pass ==
    /\ age < TTL
    /\ age' = age + 1
    /\ UNCHANGED <<vars, scrape, ids, seen, ok, calm, listed, missed>>

(* A step of RollingDeploy.  A process that is gone forgets its snapshot.  *)
Deploying ==
    /\ Next
    /\ IF pc' = "down"
       THEN /\ scrape' = [s \in Scrapers |-> "idle"]
            /\ ids' = {} /\ age' = TTL /\ seen' = 0 /\ ok' = FALSE /\ calm' = FALSE
       ELSE /\ UNCHANGED <<scrape, ids, age, seen, ok>>
            /\ calm' = (calm /\ Running' = Running /\ UNCHANGED runtime)
    /\ listed' = CASE sig' = "none"                -> {}
                   [] sig = "list" /\ sig' = "stop" -> todo'
                   [] OTHER                        -> {c \in listed : status'[c] # "none"}
    /\ missed' = CASE sig' = "none"                             -> 0
                   [] sig = "stop" /\ todo' # todo /\ faults' # faults -> missed + 1
                   [] OTHER                                     -> missed

Observing(s) == Scrape(s) \/ Snapshot(s) \/ ObserveContainers(s) \/ InspectManaged(s)

HostNext == Deploying \/ Pass \/ \E s \in Scrapers : Observing(s)

HostSpec == HostInit /\ [][HostNext]_hostVars

-----------------------------------------------------------------------------
(***************************************************************************)
(* observeContainers (container_metrics.go): the replicas reported are the *)
(* ones that run, however containers died, deploys failed or collections   *)
(* broke off before, and whatever stopped containers were removed between  *)
(* listing and inspection, unless others run since the collection began.   *)
(* Before the first tick of a process nothing is known.                    *)
(***************************************************************************)
ReportExact == runtime /\ ok /\ calm /\ ~Locked => seen = Cardinality(Running)

(***************************************************************************)
(* StopManagedContainers (container/deploy.go): of the containers that ran *)
(* when the shutdown listed them, only those that could not be stopped     *)
(* are running when the process ends, whatever a tick does meanwhile.      *)
(***************************************************************************)
ShutdownStopsAll == sig = "exit" => Cardinality(listed \cap Running) <= missed
=============================================================================
