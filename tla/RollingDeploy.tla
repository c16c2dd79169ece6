---------------------------- MODULE RollingDeploy ----------------------------
(***************************************************************************)
(* `dewy container`: RunContainer of dewy.go with its phases in            *)
(* lifecycle.go, the rolling update of container/deploy.go, the backends   *)
(* of the built-in proxy, and the shutdown of waitSigs, which runs beside  *)
(* a deploy that is still under way.                                       *)
(*                                                                         *)
(* Every command given to the container runtime is a step: containers die, *)
(* signals arrive and dewy itself can be killed in between.  One proxy     *)
(* port is modelled; hooks, notifications and telemetry are left out.      *)
(***************************************************************************)
EXTENDS Integers, FiniteSets, Sequences, SequencesExt

CONSTANTS
    Images,       \* images the registry may report, numbered as they were built
    Backwards,    \* TRUE: the next one reported may have been built earlier
    Slotted,      \* those whose slot passes SlotMatcher
    Containers,   \* bound: container identities (reused after removal)
    Ports,        \* host ports the runtime hands out
    NoPort, NoContainer,
    Replicas,     \* --replicas
    Podman,       \* TRUE: the runtime is podman, else docker
    AutoDetect,   \* FALSE: the container port is given on the command line
    SinglePort,   \* images that expose exactly one TCP port
    KeepImages,   \* keepReleases (7 in the code)
    HealthCheck,  \* TRUE: --health-path is set
    FaultKinds,   \* kinds of fault (and signals) the environment may produce
    MaxFaults,    \* bound: faults in one behaviour
    MaxPublish    \* bound: changes of the registry's latest image

AllFaults == {"registry", "runtime", "check", "pull", "expose", "prune", "list", "run", "port",
              "health", "stop", "remove", "reap", "die", "crash", "signal"}

ASSUME ConstantsAssumption ==
    /\ Slotted \cup SinglePort \subseteq Images /\ Images \subseteq Nat
    /\ Containers \subseteq Nat /\ IsFiniteSet(Containers)
    /\ NoContainer \notin Containers
    /\ NoPort \notin Ports
    /\ {Replicas, KeepImages} \subseteq Nat \ {0}
    /\ {Backwards, HealthCheck, Podman, AutoDetect} \subseteq BOOLEAN
    /\ FaultKinds \subseteq AllFaults
    /\ {MaxFaults, MaxPublish} \subseteq Nat

VARIABLES
    latest,     \* the image the registry reports
    published,  \* changes of latest so far
    status,     \* status[c] of a container
    image,      \* image[c]: the image it was started from
    port,       \* port[c]: the host port it was given
    pulled,     \* images the host has
    backends,   \* backends of the proxy: ports, in order
    listening,  \* whether d.tcpProxies is set
    runtime,    \* whether d.containerRuntime is set
    pc,         \* phase of the running tick
    img,        \* the image the tick deploys
    old,        \* existingContainers still to be removed
    fresh,      \* results: containers of this deploy in the load balancer
    undo,       \* rollback: containers whose backends are still there
    cur,        \* the container being started or removed
    outcome,    \* how the last tick, or the process, ended
    before,     \* the backends when the tick started
    served,     \* whether traffic was served when some tick started
    sig,        \* phase of the shutdown in waitSigs
    todo,       \* containers StopManagedContainers still has to stop
    faults

regVars  == <<latest, published>>
boxVars  == <<status, image, port, pulled>>
tickVars == <<pc, img, old, fresh, undo, cur, outcome, before, served>>
sigVars  == <<sig, todo>>
vars == <<regVars, boxVars, backends, listening, runtime, tickVars, sigVars, faults>>

Phases == {"down", "idle", "check", "pull", "expose", "find", "run", "port", "health", "discard",
           "add", "undo", "kill", "drain", "stop", "reap", "prune"}

(* Every variable keeps the kind of value its declaration describes.       *)
TypeOK ==
    /\ latest \in Images
    /\ published \in Nat
    /\ status \in [Containers -> {"none", "running", "exited"}]
    /\ image \in [Containers -> Images]
    /\ port \in [Containers -> Ports \cup {NoPort}]
    /\ pulled \subseteq Images
    /\ backends \in Seq(Ports)
    /\ {listening, runtime, served} \subseteq BOOLEAN
    /\ pc \in Phases
    /\ img \in Images
    /\ {old, fresh, undo, todo} \subseteq SUBSET Containers
    /\ cur \in Containers \cup {NoContainer}
    /\ outcome \in {"none", "ok", "skip", "err", "exit"}
    /\ before \in Seq(Ports)
    /\ sig \in {"none", "list", "stop", "exit"}
    /\ faults \in Nat

Init ==
    /\ latest \in Images
    /\ published = 0
    /\ status = [c \in Containers |-> "none"]
    /\ image = [c \in Containers |-> latest]
    /\ port = [c \in Containers |-> NoPort]
    /\ pulled = {}
    /\ backends = <<>>
    /\ listening = TRUE
    /\ runtime = FALSE
    /\ pc = "idle"
    /\ img = latest
    /\ old = {} /\ fresh = {} /\ undo = {}
    /\ cur = NoContainer
    /\ outcome = "none"
    /\ before = <<>>
    /\ served = FALSE
    /\ sig = "none"
    /\ todo = {}
    /\ faults = 0

-----------------------------------------------------------------------------
Fault(kind) ==
    /\ kind \in FaultKinds
    /\ faults < MaxFaults
    /\ faults' = faults + 1

Running == {c \in Containers : status[c] = "running"}

(* GetRunningContainerWithImage finds one.                                 *)
RunsImage(i) == \E c \in Running : image[c] = i

(* GetMappedPort: the runtime tells the port of a running container only.  *)
HasPort(c) == c \in Running

Live(p) == \E c \in Running : port[c] = p

(* Traffic reaches some container.                                         *)
Serving == listening /\ \E i \in DOMAIN backends : Live(backends[i])

Goto(p) == pc' = p /\ UNCHANGED outcome

(* A tick ends: its local variables are gone.                              *)
EndTick(o) ==
    /\ pc' = "idle"
    /\ outcome' = o
    /\ old' = {} /\ fresh' = {} /\ undo' = {}
    /\ cur' = NoContainer

localVars == <<old, fresh, undo, cur>>

(* addProxyBackend: an error once the proxy has been stopped.              *)
AddProxyBackend(p) == listening /\ backends' = Append(backends, p)

(* Mutant: the entry is searched for but not taken out.                    *)
RemoveBackendNothing(p) == UNCHANGED backends

(* removeBackend: the first entry with that port, if any.                  *)
RemoveBackend(p) ==
    IF listening /\ Contains(backends, p)
    THEN backends' = RemoveFirst(backends, p)
    ELSE UNCHANGED backends

(* Mutant: containers are removed without having been stopped.             *)
RemoveOnly(c) ==
    /\ status' = [status EXCEPT ![c] = IF c \in Running THEN "running" ELSE "none"]
    /\ UNCHANGED faults

(***************************************************************************)
(* Stop and then Remove of container c: both are tried, their errors only  *)
(* logged.  Without Stop, `rm` refuses a running container.                *)
(***************************************************************************)
StopAndRemove(c) ==
    \/ /\ status' = [status EXCEPT ![c] = "none"]
       /\ UNCHANGED faults
    \/ /\ Fault("stop")
       /\ status' = [status EXCEPT ![c] = IF c \in Running THEN "running" ELSE "none"]
    \/ /\ status[c] # "none"
       /\ Fault("remove")
       /\ status' = [status EXCEPT ![c] = "exited"]

-----------------------------------------------------------------------------
Publish(i) ==
    /\ published < MaxPublish
    /\ i # latest
    /\ Backwards \/ i > latest
    /\ latest' = i
    /\ published' = published + 1
    /\ UNCHANGED <<boxVars, backends, listening, runtime, tickVars, sigVars, faults>>

(***************************************************************************)
(* A tick starts: resolveContainerCurrent.  One still may just after the   *)
(* job has been told to quit.                                              *)
(***************************************************************************)
ResolveContainerCurrent ==
    /\ pc = "idle"
    /\ sig \in {"none", "list"}
    /\ before' = backends
    /\ served' = (served \/ Serving)
    /\ \/ /\ Fault("registry")
          /\ EndTick("err")
          /\ UNCHANGED img
       \/ /\ latest \notin Slotted
          /\ EndTick("skip")
          /\ UNCHANGED <<img, faults>>
       \/ /\ latest \in Slotted
          /\ img' = latest
          /\ Goto("check")
          /\ UNCHANGED <<localVars, faults>>
    /\ UNCHANGED <<regVars, boxVars, backends, listening, runtime, sigVars>>

(* resolveContainerState: one running container of the image is enough to  *)
(* skip the tick; a failed check is not.                                   *)
ResolveContainerState ==
    /\ pc = "check"
    /\ \/ /\ Fault("runtime")
          /\ EndTick("err")
          /\ UNCHANGED runtime
       \/ /\ Fault("check")
          /\ runtime' = TRUE
          /\ Goto("pull")
          /\ UNCHANGED localVars
       \/ /\ RunsImage(img)
          /\ runtime' = TRUE
          /\ EndTick("skip")
          /\ UNCHANGED faults
       \/ /\ ~RunsImage(img)
          /\ runtime' = TRUE
          /\ Goto("pull")
          /\ UNCHANGED <<localVars, faults>>
    /\ UNCHANGED <<regVars, boxVars, backends, listening, img, before, served, sigVars>>

(***************************************************************************)
(* Pull, with its logins and its retry: if it fails in the end, an image   *)
(* that is there already will do.                                          *)
(***************************************************************************)
Pull ==
    \/ /\ pulled' = pulled \cup {img}
       /\ Goto("expose")
       /\ UNCHANGED <<localVars, faults>>
    \/ /\ Fault("pull")
       /\ UNCHANGED pulled
       /\ \/ img \in pulled /\ Goto("expose") /\ UNCHANGED localVars
          \/ img \notin pulled /\ EndTick("err")

(* pullContainerImage.                                                     *)
PullImage ==
    /\ pc = "pull"
    /\ Pull
    /\ UNCHANGED <<regVars, status, image, port, backends, listening, runtime, img, before, served,
                   sigVars>>

(* GetImageExposedPorts: what the image says, or an error of `inspect`.    *)
GetImageExposedPorts(one) ==
    \/ one = (img \in SinglePort) /\ UNCHANGED faults
    \/ one = FALSE /\ Fault("expose")

(* deployContainer begins: a container port that is to be detected must be *)
(* the only one.                                                           *)
ResolvePortMappings ==
    /\ pc = "expose"
    /\ \/ ~AutoDetect /\ Goto("find") /\ UNCHANGED <<localVars, faults>>
       \/ /\ AutoDetect /\ GetImageExposedPorts(TRUE)
          /\ Goto("find") /\ UNCHANGED localVars
       \/ AutoDetect /\ GetImageExposedPorts(FALSE) /\ EndTick("err")
    /\ UNCHANGED <<regVars, boxVars, backends, listening, runtime, img, before, served, sigVars>>

(* Deploy: the containers that are running now are the ones to replace.    *)
FindExisting ==
    /\ pc = "find"
    /\ \/ Fault("list") /\ EndTick("err")
       \/ /\ Goto("run")
          /\ old' = Running
          /\ UNCHANGED <<fresh, undo, cur, faults>>
    /\ UNCHANGED <<regVars, boxVars, backends, listening, runtime, img, before, served, sigVars>>

(* Mutant: the failed replica is rolled back even if there is none.        *)
RollbackCurrent(set) ==
    /\ Goto("undo")
    /\ fresh' = set
    /\ undo' = set \cup {cur}
    /\ cur' = NoContainer
    /\ UNCHANGED old

(* Mutant: everything with the labels of the application is rolled back.   *)
RollbackByLabel(set) ==
    /\ Goto("undo")
    /\ fresh' = set \cup old
    /\ undo' = set \cup old
    /\ cur' = NoContainer
    /\ UNCHANGED old

(* Mutant: only the containers are rolled back, not their backends.        *)
RollbackContainers(set) ==
    /\ Goto("undo")
    /\ fresh' = set
    /\ undo' = {}
    /\ cur' = NoContainer
    /\ UNCHANGED old

(* An error of this replica rolls the earlier ones back.                   *)
Rollback(set) ==
    /\ Goto("undo")
    /\ fresh' = set
    /\ undo' = set
    /\ cur' = NoContainer
    /\ UNCHANGED old

(* Identities no process remembers.                                        *)
Unnamed == {c \in Containers : status[c] = "none"} \ (old \cup fresh \cup undo \cup todo)

(* Run: a new container of the image, published on a port of the host.     *)
StartContainer(c, p) ==
    /\ status' = [status EXCEPT ![c] = "running"]
    /\ image' = [image EXCEPT ![c] = img]
    /\ port' = [port EXCEPT ![c] = p]

(***************************************************************************)
(* startAndCheck: the runtime picks a port that no running container has.  *)
(* `docker run` that fails may leave a container that was created and      *)
(* never started.  It is left out: no listing of the deploy or of the      *)
(* shutdown shows it, metrics count running containers only, and the name  *)
(* of the next one has another time stamp.                                 *)
(***************************************************************************)
RunNew ==
    /\ pc = "run"
    /\ \/ /\ Fault("run")
          /\ Rollback(fresh)
          /\ UNCHANGED <<status, image, port>>
       \/ \E c \in Unnamed, p \in Ports :
             /\ \A d \in Unnamed : c <= d
             /\ ~Live(p)
             /\ StartContainer(c, p)
             /\ cur' = c
             /\ Goto("port")
             /\ UNCHANGED <<old, fresh, undo, faults>>
    /\ UNCHANGED <<regVars, pulled, backends, listening, runtime, img, before, served, sigVars>>

(***************************************************************************)
(* GetMappedPort of the new container; on an error it is removed without   *)
(* being stopped, which only works if it is not running any more.          *)
(***************************************************************************)
GetMappedPort ==
    /\ pc = "port"
    /\ \/ /\ HasPort(cur)
          /\ Goto(IF HealthCheck THEN "health" ELSE "add")
          /\ UNCHANGED <<localVars, status, faults>>
       \/ /\ \/ ~HasPort(cur) /\ UNCHANGED faults
             \/ HasPort(cur) /\ Fault("port")
          /\ status' = [status EXCEPT ![cur] = IF cur \in Running THEN "running" ELSE "none"]
          /\ Rollback(fresh)
    /\ UNCHANGED <<regVars, image, port, pulled, backends, listening, runtime, img, before, served,
                   sigVars>>

(* The health check of the new container, all its retries.                 *)
CheckHealth ==
    /\ pc = "health"
    /\ \/ cur \in Running /\ Goto("add") /\ UNCHANGED faults
       \/ cur \notin Running /\ Goto("discard") /\ UNCHANGED faults
       \/ Fault("health") /\ Goto("discard")
    /\ UNCHANGED <<regVars, boxVars, backends, listening, runtime, img, localVars, before,
                   served, sigVars>>

Discard ==
    /\ pc = "discard"
    /\ StopAndRemove(cur)
    /\ Rollback(fresh)
    /\ UNCHANGED <<regVars, image, port, pulled, backends, listening, runtime, img, before, served,
                   sigVars>>

(* Mutant: the old containers are drained once the first replica is in.    *)
AddFirstBackend ==
    /\ pc = "add"
    /\ \/ /\ AddProxyBackend(port[cur])
          /\ fresh' = fresh \cup {cur}
          /\ cur' = NoContainer
          /\ Goto("drain")
          /\ UNCHANGED <<old, undo>>
       \/ /\ ~listening
          /\ Rollback(fresh \cup {cur})
          /\ UNCHANGED backends
    /\ UNCHANGED <<regVars, boxVars, listening, runtime, img, before, served, sigVars, faults>>

(* AddBackend: it fails only when the proxy has been stopped.              *)
AddBackend ==
    /\ pc = "add"
    /\ \/ /\ AddProxyBackend(port[cur])
          /\ fresh' = fresh \cup {cur}
          /\ cur' = NoContainer
          /\ Goto(IF Cardinality(fresh') = Replicas THEN "drain" ELSE "run")
          /\ UNCHANGED <<old, undo>>
       \/ /\ ~listening
          /\ Rollback(fresh \cup {cur})
          /\ UNCHANGED backends
    /\ UNCHANGED <<regVars, boxVars, listening, runtime, img, before, served, sigVars, faults>>

(* rollback: all backends first, ...                                       *)
UndoBackend ==
    /\ pc = "undo"
    /\ \/ /\ undo = {}
          /\ Goto("kill")
          /\ UNCHANGED <<backends, undo>>
       \/ /\ pc' = pc /\ UNCHANGED outcome
          /\ \E c \in undo : RemoveBackend(port[c]) /\ undo' = undo \ {c}
    /\ UNCHANGED <<regVars, boxVars, listening, runtime, img, old, fresh, cur, before, served,
                   sigVars, faults>>

(* ... then the containers.                                                *)
UndoContainer ==
    /\ pc = "kill"
    /\ \/ /\ fresh = {}
          /\ EndTick("err")
          /\ UNCHANGED <<status, faults>>
       \/ \E c \in fresh : /\ StopAndRemove(c)
                           /\ fresh' = fresh \ {c}
                           /\ UNCHANGED <<pc, outcome, old, undo, cur>>
    /\ UNCHANGED <<regVars, image, port, pulled, backends, listening, runtime, img, before, served,
                   sigVars>>

(***************************************************************************)
(* The old containers, one by one: out of the load balancer, unless the    *)
(* port cannot be looked up (any more), ...                                *)
(***************************************************************************)
DrainOld ==
    /\ pc = "drain"
    /\ \/ /\ old = {}
          /\ Goto("reap")
          /\ UNCHANGED <<backends, cur, faults>>
       \/ /\ Goto("stop")
          /\ \E c \in old :
                /\ cur' = c
                /\ \/ HasPort(c) /\ RemoveBackend(port[c]) /\ UNCHANGED faults
                   \/ ~HasPort(c) /\ UNCHANGED <<backends, faults>>
                   \/ Fault("port") /\ UNCHANGED backends
    /\ UNCHANGED <<regVars, boxVars, listening, runtime, img, old, fresh, undo, before, served,
                   sigVars>>

(* ... then stopped and removed.                                           *)
StopOld ==
    /\ pc = "stop"
    /\ StopAndRemove(cur)
    /\ old' = old \ {cur}
    /\ cur' = NoContainer
    /\ Goto("drain")
    /\ UNCHANGED <<regVars, image, port, pulled, backends, listening, runtime, img, fresh, undo,
                   before, served, sigVars>>

(* RemoveExited: containers that stopped by themselves or were left over.  *)
RemoveExited ==
    /\ pc = "reap"
    /\ \E kept \in SUBSET {c \in Containers : status[c] = "exited"} :
          /\ \/ kept = {} /\ UNCHANGED faults
             \/ kept # {} /\ Fault("reap")
          /\ status' = [c \in Containers |->
                          IF status[c] = "exited" /\ c \notin kept THEN "none" ELSE status[c]]
    /\ Goto("prune")
    /\ UNCHANGED <<regVars, image, port, pulled, backends, listening, runtime, img, localVars,
                   before, served, sigVars>>

(***************************************************************************)
(* RemoveImage (`rmi --force`): docker refuses an image that a container   *)
(* is running from, podman removes its containers first.                   *)
(***************************************************************************)
RemoveImages(gone) ==
    IF Podman
    THEN /\ pulled' = pulled \ gone
         /\ status' = [c \in Containers |-> IF image[c] \in gone THEN "none" ELSE status[c]]
    ELSE /\ pulled' = {i \in pulled : i \in gone => RunsImage(i)}
         /\ UNCHANGED status

(* Images beyond the KeepImages that were built last.                      *)
OldImages == {i \in pulled : Cardinality({j \in pulled : j > i}) >= KeepImages}

(* promoteContainerAndReport: the images are cleaned up, errors are only   *)
(* logged; the rest of the tick changes nothing kept here.                 *)
CleanupOldImages ==
    /\ pc = "prune"
    /\ \/ RemoveImages(OldImages) /\ UNCHANGED faults
       \/ /\ OldImages # {}
          /\ Fault("prune")
          /\ \E gone \in SUBSET OldImages : gone # OldImages /\ RemoveImages(gone)
    /\ EndTick("ok")
    /\ UNCHANGED <<regVars, image, port, backends, listening, runtime, img, before, served, sigVars>>

RunContainer ==
    \/ ResolveContainerCurrent \/ ResolveContainerState \/ PullImage
    \/ ResolvePortMappings \/ FindExisting \/ RunNew \/ GetMappedPort \/ CheckHealth \/ Discard
    \/ AddBackend \/ UndoBackend \/ UndoContainer \/ DrainOld \/ StopOld
    \/ RemoveExited \/ CleanupOldImages

-----------------------------------------------------------------------------
(* waitSigs on SIGINT, SIGTERM, SIGQUIT: the job is told to quit, but a    *)
(* tick that is under way goes on.                                         *)

Terminate ==
    /\ pc # "down"
    /\ sig = "none"
    /\ Fault("signal")
    /\ sig' = "list"
    /\ UNCHANGED <<regVars, boxVars, backends, listening, runtime, tickVars, todo>>

(* stopManagedContainers: nothing without a runtime, else what runs now.   *)
ListManaged ==
    /\ sig = "list"
    /\ sig' = "stop"
    /\ \/ todo' = (IF runtime THEN Running ELSE {}) /\ UNCHANGED faults
       \/ runtime /\ Fault("list") /\ todo' = {}
    /\ UNCHANGED <<regVars, boxVars, backends, listening, runtime, tickVars>>

(* Mutant: the first container that cannot be stopped ends the loop.       *)
StopManagedUntilError ==
    /\ sig = "stop"
    /\ \E c \in todo :
          \/ /\ todo' = todo \ {c}
             /\ status' = [status EXCEPT ![c] = "none"]
             /\ UNCHANGED faults
          \/ Fault("stop") /\ todo' = {} /\ UNCHANGED status
    /\ UNCHANGED <<regVars, image, port, pulled, backends, listening, runtime, tickVars, sig>>

(* A container that cannot be stopped (or is gone) is left alone.          *)
StopManaged ==
    /\ sig = "stop"
    /\ \E c \in todo :
          /\ todo' = todo \ {c}
          /\ \/ status[c] # "none" /\ status' = [status EXCEPT ![c] = "none"] /\ UNCHANGED faults
             \/ status[c] = "none" /\ UNCHANGED <<status, faults>>
             \/ Fault("stop") /\ UNCHANGED status
             \/ status[c] # "none" /\ Fault("remove") /\ status' = [status EXCEPT ![c] = "exited"]
    /\ UNCHANGED <<regVars, image, port, pulled, backends, listening, runtime, tickVars, sig>>

StopProxy ==
    /\ sig = "stop"
    /\ todo = {}
    /\ sig' = "exit"
    /\ listening' = FALSE
    /\ UNCHANGED <<regVars, boxVars, backends, runtime, tickVars, todo, faults>>

(* What a dying process leaves: only the containers.                       *)
Gone(o) ==
    /\ pc' = "down"
    /\ outcome' = o
    /\ old' = {} /\ fresh' = {} /\ undo' = {}
    /\ cur' = NoContainer
    /\ before' = <<>>
    /\ served' = FALSE
    /\ runtime' = FALSE
    /\ listening' = FALSE
    /\ backends' = <<>>
    /\ sig' = "none"
    /\ todo' = {}
    /\ UNCHANGED <<regVars, boxVars, img>>

(* Start returns and the process ends, whatever the tick is doing.         *)
Exit == sig = "exit" /\ Gone("exit") /\ UNCHANGED faults

Crash == pc # "down" /\ Fault("crash") /\ Gone("none")

(* A supervisor starts dewy: a proxy without backends.                     *)
Boot ==
    /\ pc = "down"
    /\ pc' = "idle"
    /\ outcome' = "none"
    /\ listening' = TRUE
    /\ UNCHANGED <<regVars, boxVars, backends, runtime, img, localVars, before, served, sigVars,
                   faults>>

ContainerDies(c) ==
    /\ c \in Running
    /\ Fault("die")
    /\ status' = [status EXCEPT ![c] = "exited"]
    /\ UNCHANGED <<regVars, image, port, pulled, backends, listening, runtime, tickVars, sigVars>>

-----------------------------------------------------------------------------
Shutdown == ListManaged \/ StopManaged \/ StopProxy \/ Exit

(* A process and containers that live on.                                  *)
Undisturbed ==
    \/ \E i \in Images : Publish(i)
    \/ RunContainer

Next ==
    \/ Undisturbed
    \/ Terminate
    \/ Shutdown
    \/ Crash
    \/ Boot
    \/ \E c \in Containers : ContainerDies(c)

Spec == Init /\ [][Next]_vars

(* Ticks are scheduled and go on; a shutdown goes on; dewy is supervised.  *)
FairSpec == Spec /\ WF_vars(RunContainer) /\ WF_vars(Shutdown) /\ WF_vars(Boot)

(* The same without signals, crashes and containers that die.              *)
UndisturbedSpec == Init /\ [][Undisturbed]_vars /\ WF_vars(RunContainer)

-----------------------------------------------------------------------------
(* Properties *)

(***************************************************************************)
(* No deploy interrupts a service that was being served when it started:   *)
(* old containers leave the load balancer only when all the new ones are   *)
(* in it, and a rollback takes out nothing but what the deploy put in      *)
(* (Deploy and rollback in container/deploy.go).                           *)
(***************************************************************************)
NoOutage == served /\ sig = "none" => Serving

(* How many entries of the load balancer have this port.                   *)
Entries(s, p) == Cardinality({i \in DOMAIN s : s[i] = p})

(***************************************************************************)
(* A failed tick leaves the proxy's backends as it found them, whichever   *)
(* replica failed and whatever failed on the way back (rollback).          *)
(***************************************************************************)
RollbackRestores ==
    pc = "idle" /\ outcome = "err" /\ listening
        => \A p \in Ports : Entries(backends, p) = Entries(before, p)

(***************************************************************************)
(* After a successful tick traffic goes to exactly Replicas containers of  *)
(* the deployed image and to no other (Deploy in container/deploy.go).     *)
(***************************************************************************)
OnlyNewServed ==
    pc = "idle" /\ outcome = "ok" /\ sig = "none" =>
        /\ Len(backends) = Replicas
        /\ \A i \in DOMAIN backends :
              \E c \in Running : port[c] = backends[i] /\ image[c] = img

(* The containers this tick has put into the load balancer and that are    *)
(* still there.                                                            *)
Placed == CASE pc = "undo" -> undo
            [] pc \in {"idle", "kill"} -> {}
            [] OTHER -> fresh

UpdateStage ==
    CASE ~listening -> "down"
      [] listening /\ pc \in {"run", "port", "health", "discard", "add"} -> "grow"
      [] listening /\ pc \in {"undo", "kill"} -> "back"
      [] listening /\ pc \in {"drain", "stop", "reap", "prune"} -> "shrink"
      [] OTHER -> "steady"

UpdateReplicas == [c \in (IF listening THEN Placed ELSE {}) |-> port[c]]

(* The entries of the load balancer that the tick has not made.            *)
ServiceEntries ==
    [p \in Ports |-> IF listening
                     THEN Entries(backends, p) - Cardinality({c \in Placed : port[c] = p})
                     ELSE 0]

Update == INSTANCE RollingUpdate WITH
              Names <- Containers, stage <- UpdateStage, service <- ServiceEntries,
              update <- UpdateReplicas

(***************************************************************************)
(* Every deploy, whatever fails in it and whoever dies or is signalled     *)
(* meanwhile, is a rolling update: no backend of the service leaves before *)
(* all the new ones are in, none of the new ones is mistaken for an old    *)
(* one or the other way round, and a failed tick ends with all of the new  *)
(* ones gone, a successful one with all of them in the service (Deploy,    *)
(* rollback and removeBackend).                                            *)
(***************************************************************************)
RefinesUpdate == Update!Spec

(***************************************************************************)
(* In the middle of a deploy and after it the proxy has as many backends   *)
(* as it had or as are asked for, whichever is less (Deploy and rollback   *)
(* in container/deploy.go).                                                *)
(***************************************************************************)
CapacityKept == listening => Len(backends) >= Len(before) \/ Len(backends) >= Replicas

Routed ==
    /\ backends # <<>>
    /\ \A i \in DOMAIN backends :
          \E c \in Running : port[c] = backends[i] /\ image[c] = latest

(***************************************************************************)
(* Once the registry settles, traffic goes to the latest image and only    *)
(* there: a tick that failed is made up for by a later one.                *)
(***************************************************************************)
Converges == <>[](latest \in Slotted => Routed)
=============================================================================
