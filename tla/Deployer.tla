------------------------------ MODULE Deployer ------------------------------
(***************************************************************************)
(* The server/assets deploy loop: Run of dewy.go with its phases in        *)
(* lifecycle.go and release.go, over the artifact cache of cache/.         *)
(*                                                                         *)
(* Every node polls the registry, caches the artifact, extracts it into a  *)
(* timestamped release directory, swaps the "current" symlink to it,       *)
(* (re)starts the server and prunes old releases.  The phases are separate *)
(* actions because the process can die between any two of them, and        *)
(* because the registry, the server goroutine, SIGUSR1 and, with a cloud   *)
(* cache, the other nodes move in between.                                 *)
(*                                                                         *)
(* A key stands for "tag--artifact".  Hooks, notifications, reports and    *)
(* cVer (used in messages only) change nothing this module keeps.          *)
(***************************************************************************)
EXTENDS Integers, FiniteSets

CONSTANTS
    Nodes,        \* hosts running dewy
    Keys,         \* cache keys of the releases the registry may publish
    Slotted,      \* the keys whose slot passes SlotMatcher on these nodes
    Server,       \* TRUE: `dewy server`; FALSE: `dewy assets`
    Cloud,        \* TRUE: S3/GCS cache with local staging; FALSE: file cache
    SameSecond,   \* TRUE: two deploys of a node may start in one second
    FaultKinds,   \* which kinds of fault the environment may produce
    Keep,         \* keepReleases (7 in the code)
    MaxReleases,  \* bound: release directories a node ever creates
    MaxPublish,   \* bound: changes of the registry's latest release
    MaxFaults     \* bound: faults in one behaviour

AllFaults == {"registry", "read", "list", "download", "write", "stage", "extract",
              "link", "start", "signal", "run", "stat", "prune", "crash", "torn"}

ASSUME ConstantsAssumption ==
    /\ Slotted \subseteq Keys
    /\ {"none", "torn", "absent", "partial"} \cap Keys = {}
    /\ {Server, Cloud, SameSecond} \subseteq BOOLEAN
    /\ FaultKinds \subseteq AllFaults
    /\ Keep \in Nat \ {0}
    /\ {MaxReleases, MaxPublish, MaxFaults} \subseteq Nat

VARIABLES
    latest,     \* the release the registry reports as current
    uploaded,   \* releases whose artifact has been uploaded
    overdue,    \* latest's artifact is missing for longer than the grace period
    published,  \* publications so far (bounded by MaxPublish)
    faults,     \* faults so far (bounded by MaxFaults)
    objects,    \* cloud cache: artifacts in the bucket
    shared,     \* cloud cache: the `current` object in the bucket
    local,      \* local[n][k]: the node's cached artifact file
    current,    \* current[n]: the node's cached `current` key file
    dir,        \* dir[n][s]: release directory with timestamp s
    stamp,      \* stamp[n]: timestamp of the newest release directory (0: none)
    link,       \* link[n]: the release the `current` symlink names (0: none)
    pc,         \* pc[n]: phase of the running tick
    res,        \* res[n]: the key the running tick works on
    outcome,    \* outcome[n]: how the last tick ended
    running,    \* running[n]: d.isServerRunning
    spawn,      \* spawn[n]: the starter is about to (re)start a worker
    serving     \* serving[n]: what the server's worker was started from

regVars   == <<latest, uploaded, overdue, published>>
cacheVars == <<objects, shared, local, current>>
relVars   == <<dir, stamp, link>>
srvVars   == <<running, spawn, serving>>
vars == <<regVars, faults, cacheVars, relVars, srvVars, pc, res, outcome>>

Stamps == 1..MaxReleases
Phases == {"down", "idle", "check", "own", "load", "download", "cache", "put",
           "mark", "markput", "extract", "link", "promote", "prune"}

(***************************************************************************)
(* A missing directory, one whose extraction was cut short (or that is     *)
(* being overwritten), or a whole release: then its key.                   *)
(***************************************************************************)
Content == Keys \cup {"absent", "partial"}

(* The `current` key file: absent, cut short by a crash, or naming a key.  *)
CurrentFile == Keys \cup {"none", "torn"}

FileState == {"absent", "partial", "whole"}
Outcomes == {"none", "ok", "skip", "err"}

RegistryTypeOK ==
    /\ latest \in Keys
    /\ uploaded \subseteq Keys
    /\ overdue \in BOOLEAN
    /\ published \in Nat
    /\ faults \in Nat

CacheTypeOK ==
    /\ objects \subseteq Keys
    /\ shared \in CurrentFile
    /\ local \in [Nodes -> [Keys -> FileState]]
    /\ current \in [Nodes -> CurrentFile]

ReleaseTypeOK ==
    /\ dir \in [Nodes -> [Stamps -> Content]]
    /\ stamp \in [Nodes -> 0..MaxReleases]
    /\ link \in [Nodes -> 0..MaxReleases]

TickTypeOK ==
    /\ pc \in [Nodes -> Phases]
    /\ res \in [Nodes -> Keys]
    /\ outcome \in [Nodes -> Outcomes]

ServerTypeOK ==
    /\ running \in [Nodes -> BOOLEAN]
    /\ spawn \in [Nodes -> BOOLEAN]
    /\ serving \in [Nodes -> CurrentFile]

(* Every variable keeps the kind of value its declaration describes.       *)
TypeOK ==
    RegistryTypeOK /\ CacheTypeOK /\ ReleaseTypeOK /\ TickTypeOK /\ ServerTypeOK

(***************************************************************************)
(* A first start on clean hosts.  The bucket of a cloud cache may already  *)
(* have been filled by other hosts that deployed the latest release.       *)
(***************************************************************************)
Init ==
    /\ latest \in Keys
    /\ uploaded = {latest}
    /\ overdue = FALSE
    /\ published = 0
    /\ faults = 0
    /\ \/ objects = {} /\ shared = "none"
       \/ Cloud /\ objects = {latest} /\ shared = latest
    /\ local = [n \in Nodes |-> [k \in Keys |-> "absent"]]
    /\ current = [n \in Nodes |-> "none"]
    /\ dir = [n \in Nodes |-> [s \in Stamps |-> "absent"]]
    /\ stamp = [n \in Nodes |-> 0]
    /\ link = [n \in Nodes |-> 0]
    /\ pc = [n \in Nodes |-> "idle"]
    /\ res = [n \in Nodes |-> latest]
    /\ outcome = [n \in Nodes |-> "none"]
    /\ running = [n \in Nodes |-> FALSE]
    /\ spawn = [n \in Nodes |-> FALSE]
    /\ serving = [n \in Nodes |-> "none"]

-----------------------------------------------------------------------------
Fault(kind) ==
    /\ kind \in FaultKinds
    /\ faults < MaxFaults
    /\ faults' = faults + 1

(* What a write that does not complete leaves of a cached file: files are  *)
(* opened with O_TRUNC and written in place.                               *)
CutShort(old) == {old} \cup (IF "torn" \in FaultKinds THEN {"partial"} ELSE {})

Goto(n, p) == pc' = [pc EXCEPT ![n] = p] /\ UNCHANGED outcome

EndTick(n, o) ==
    /\ pc' = [pc EXCEPT ![n] = "idle"]
    /\ outcome' = [outcome EXCEPT ![n] = o]

-----------------------------------------------------------------------------
(* The registry: a release becomes the latest, its artifact may follow.    *)

Publish(k) ==
    /\ published < MaxPublish
    /\ k # latest
    /\ latest' = k
    /\ uploaded' \in {uploaded, uploaded \cup {k}}
    /\ overdue' = FALSE
    /\ published' = published + 1
    /\ UNCHANGED <<faults, cacheVars, relVars, srvVars, pc, res, outcome>>

Upload ==
    /\ latest \notin uploaded
    /\ uploaded' = uploaded \cup {latest}
    /\ UNCHANGED <<latest, overdue, published, faults, cacheVars, relVars,
                   srvVars, pc, res, outcome>>

GraceEnds ==
    /\ latest \notin uploaded
    /\ ~overdue
    /\ overdue' = TRUE
    /\ UNCHANGED <<latest, uploaded, published, faults, cacheVars, relVars,
                   srvVars, pc, res, outcome>>

-----------------------------------------------------------------------------
(* resolveCurrent: a missing artifact is an error only after the grace     *)
(* period; a slot mismatch skips the tick.                                 *)

ResolveCurrent(n) ==
    /\ pc[n] = "idle"
    /\ \/ /\ Fault("registry")
          /\ EndTick(n, "err")
          /\ UNCHANGED res
       \/ /\ latest \notin uploaded
          /\ EndTick(n, IF overdue THEN "err" ELSE "skip")
          /\ UNCHANGED <<faults, res>>
       \/ /\ latest \in uploaded \ Slotted
          /\ EndTick(n, "skip")
          /\ UNCHANGED <<faults, res>>
       \/ /\ latest \in uploaded \cap Slotted
          /\ res' = [res EXCEPT ![n] = latest]
          /\ Goto(n, "check")
          /\ UNCHANGED faults
    /\ UNCHANGED <<regVars, cacheVars, relVars, srvVars>>

(* Mutant: a missing key file is taken for a value.                        *)
CurrentKeyOfMissing(n) ==
    IF current[n] = "none" THEN "absent" ELSE current[n]

(***************************************************************************)
(* cache.Read("current"): the file backend reads its file; a cloud backend *)
(* prefers its local copy and otherwise fetches and stages the object.     *)
(***************************************************************************)
CurrentKey(n) ==
    IF Cloud /\ current[n] = "none" THEN shared ELSE current[n]

(* cache.List: the bucket for a cloud backend, the directory otherwise.    *)
Listed(n) ==
    IF Cloud THEN objects ELSE {k \in Keys : local[n][k] # "absent"}

(* Mutant: an up-to-date `current` key ends the tick even with no server.  *)
DecideSkipsStopped(n, cur) ==
    \/ res[n] \notin Listed(n) /\ Goto(n, "download")
    \/ res[n] \in Listed(n) /\ cur = res[n] /\ EndTick(n, "skip")
    \/ res[n] \in Listed(n) /\ cur # res[n] /\ Goto(n, "own")

(***************************************************************************)
(* resolveCacheState up to its decision, cur being the `current` key read: *)
(* download, skip the tick, redeploy from the cache, or first take         *)
(* ownership of the `current` key.                                         *)
(***************************************************************************)
Decide(n, cur) ==
    \/ /\ res[n] \notin Listed(n)
       /\ Goto(n, "download")
    \/ /\ res[n] \in Listed(n)
       /\ cur = res[n]
       /\ Server => running[n]
       /\ EndTick(n, "skip")
    \/ /\ res[n] \in Listed(n)
       /\ cur = res[n]
       /\ Server /\ ~running[n]
       /\ Goto(n, "load")
    \/ /\ res[n] \in Listed(n)
       /\ cur # res[n]
       /\ Goto(n, "own")

(* A failure to read `current` is ignored, a failure to list is not.       *)
CheckCache(n) ==
    /\ pc[n] = "check"
    /\ \/ /\ Decide(n, CurrentKey(n))
          /\ current' = [current EXCEPT ![n] = CurrentKey(n)]
          /\ UNCHANGED faults
       \/ /\ Fault("read")
          /\ Decide(n, "none")
          /\ UNCHANGED current
       \/ /\ Fault("list")
          /\ EndTick(n, "err")
          /\ UNCHANGED current
    /\ UNCHANGED <<regVars, objects, shared, local, relVars, srvVars, res>>

(***************************************************************************)
(* cache.Write("current", key): the local file first (truncated, then      *)
(* written: a failure may leave it empty), then the bucket's object.       *)
(* Reached before the deploy when the artifact is already cached ("own")   *)
(* and after downloading it ("mark").                                      *)
(***************************************************************************)
WriteCurrent(n) ==
    /\ pc[n] \in {"own", "mark"}
    /\ \/ /\ Fault("write")
          /\ current' \in {current, [current EXCEPT ![n] = "torn"]}
          /\ EndTick(n, "err")
       \/ /\ current' = [current EXCEPT ![n] = res[n]]
          /\ Goto(n, IF Cloud THEN "markput"
                     ELSE IF pc[n] = "own" THEN "load" ELSE "extract")
          /\ UNCHANGED faults
    /\ UNCHANGED <<regVars, objects, shared, local, relVars, srvVars, res>>

(* A node that came from "own" finds the artifact staged or loads it, one  *)
(* that came from "mark" has just staged it: both continue at "load".      *)
PutCurrent(n) ==
    /\ pc[n] = "markput"
    /\ \/ /\ Fault("write")
          /\ EndTick(n, "err")
          /\ UNCHANGED shared
       \/ /\ shared' = res[n]
          /\ Goto(n, "load")
          /\ UNCHANGED faults
    /\ UNCHANGED <<regVars, objects, local, current, relVars, srvVars, res>>

(***************************************************************************)
(* cache.Read(key) in resolveCacheState: a local file of any kind is taken *)
(* as it is; a cloud backend stages the object, and a failure to stage it  *)
(* is only logged.                                                         *)
(***************************************************************************)
LoadCached(n) ==
    /\ pc[n] = "load"
    /\ \/ /\ local[n][res[n]] # "absent"
          /\ Goto(n, "extract")
          /\ UNCHANGED <<faults, local>>
       \/ /\ local[n][res[n]] = "absent"
          /\ Fault("stage")
          /\ \/ EndTick(n, "err") /\ UNCHANGED local
             \/ /\ Goto(n, "extract")
                /\ \E c \in CutShort("absent") :
                      local' = [local EXCEPT ![n][res[n]] = c]
       \/ /\ local[n][res[n]] = "absent"
          /\ local' = [local EXCEPT ![n][res[n]] = "whole"]
          /\ Goto(n, "extract")
          /\ UNCHANGED faults
    /\ UNCHANGED <<regVars, objects, shared, current, relVars, srvVars, res>>

(* downloadAndCache: the whole artifact is downloaded into memory first.   *)
Download(n) ==
    /\ pc[n] = "download"
    /\ \/ Fault("download") /\ EndTick(n, "err")
       \/ Goto(n, "cache") /\ UNCHANGED faults
    /\ UNCHANGED <<regVars, cacheVars, relVars, srvVars, res>>

(* cache.Write(key, bytes): a failed write leaves a truncated file behind. *)
WriteArtifact(n) ==
    /\ pc[n] = "cache"
    /\ \/ /\ Fault("write")
          /\ \E c \in CutShort(local[n][res[n]]) :
                local' = [local EXCEPT ![n][res[n]] = c]
          /\ EndTick(n, "err")
       \/ /\ local' = [local EXCEPT ![n][res[n]] = "whole"]
          /\ Goto(n, IF Cloud THEN "put" ELSE "mark")
          /\ UNCHANGED faults
    /\ UNCHANGED <<regVars, objects, shared, current, relVars, srvVars, res>>

PutArtifact(n) ==
    /\ pc[n] = "put"
    /\ \/ /\ Fault("write")
          /\ EndTick(n, "err")
          /\ UNCHANGED objects
       \/ /\ objects' = objects \cup {res[n]}
          /\ Goto(n, "mark")
          /\ UNCHANGED faults
    /\ UNCHANGED <<regVars, shared, local, current, relVars, srvVars, res>>

-----------------------------------------------------------------------------
(***************************************************************************)
(* preserve: a directory named after the current second, then the          *)
(* extraction.  In the same second as the previous deploy it is the same   *)
(* directory.  A truncated or missing archive fails to extract.            *)
(***************************************************************************)
Targets(n) ==
    {s \in Stamps : \/ s = stamp[n] + 1
                    \/ SameSecond /\ s = stamp[n]}

(* Mutant: an extraction error is not returned.                            *)
PreserveIgnoresError(n) ==
    /\ pc[n] = "extract"
    /\ \E s \in Targets(n) :
          /\ stamp' = [stamp EXCEPT ![n] = s]
          /\ dir' = [dir EXCEPT ![n][s] =
                       IF local[n][res[n]] = "whole" THEN res[n] ELSE "partial"]
    /\ Goto(n, "link")
    /\ UNCHANGED <<regVars, faults, cacheVars, link, srvVars, res>>

Preserve(n) ==
    /\ pc[n] = "extract"
    /\ \E s \in Targets(n) :
          /\ stamp' = [stamp EXCEPT ![n] = s]
          /\ \/ /\ local[n][res[n]] = "whole"
                /\ dir' = [dir EXCEPT ![n][s] = res[n]]
                /\ Goto(n, "link")
                /\ UNCHANGED faults
             \/ /\ \/ local[n][res[n]] # "whole" /\ UNCHANGED faults
                   \/ local[n][res[n]] = "whole" /\ Fault("extract")
                /\ dir' = [dir EXCEPT ![n][s] = "partial"]
                /\ EndTick(n, "err")
    /\ UNCHANGED <<regVars, cacheVars, link, srvVars, res>>

(* The tail of deploy: a temporary symlink renamed over `current`.         *)
SwapLink(n) ==
    /\ pc[n] = "link"
    /\ \/ /\ Fault("link")
          /\ EndTick(n, "err")
          /\ UNCHANGED link
       \/ /\ link' = [link EXCEPT ![n] = stamp[n]]
          /\ Goto(n, "promote")
          /\ UNCHANGED faults
    /\ UNCHANGED <<regVars, cacheVars, dir, stamp, srvVars, res>>

(***************************************************************************)
(* promoteAndReport: startOrRestartServer; its error ends the tick before  *)
(* keepReleases.  A restart is a SIGHUP to the process itself, which the   *)
(* starter turns into a new worker some time later.                        *)
(***************************************************************************)
Promote(n) ==
    /\ pc[n] = "promote"
    /\ \/ /\ Server
          /\ Fault(IF running[n] THEN "signal" ELSE "start")
          /\ EndTick(n, "err")
          /\ UNCHANGED <<running, spawn>>
       \/ /\ running' = [running EXCEPT ![n] = Server]
          /\ spawn' = [spawn EXCEPT ![n] = Server]
          /\ Goto(n, "prune")
          /\ UNCHANGED faults
    /\ UNCHANGED <<regVars, cacheVars, relVars, serving, res>>

(* Mutant: the sort order is reversed and the oldest releases are kept.    *)
SelectNewestReleases(files) ==
    {s \in files : Cardinality({t \in files : t < s}) >= Keep}

(* Mutant: one release too many is kept.                                   *)
SelectBeyondKeep(files) ==
    {s \in files : Cardinality({t \in files : t > s}) > Keep}

(***************************************************************************)
(* selectStaleReleases: of the directories that could be stat'ed, those    *)
(* with at least Keep newer ones.                                          *)
(***************************************************************************)
SelectStaleReleases(files) ==
    {s \in files : Cardinality({t \in files : t > s}) >= Keep}

Releases(n) == {s \in Stamps : dir[n][s] # "absent"}

RemoveReleases(n, removed, torn) ==
    dir' = [dir EXCEPT ![n] = [s \in Stamps |->
              IF s \in removed THEN "absent"
              ELSE IF s \in torn THEN "partial" ELSE dir[n][s]]]

(***************************************************************************)
(* keepReleases: removes the stale directories from the newest down; an    *)
(* error of RemoveAll stops it, leaving one of them half removed.          *)
(***************************************************************************)
KeepReleases(n) ==
    /\ pc[n] = "prune"
    /\ \/ /\ RemoveReleases(n, SelectStaleReleases(Releases(n)), {})
          /\ UNCHANGED faults
       \/ /\ Fault("stat")
          /\ \E lost \in SUBSET Releases(n) :
                RemoveReleases(n, SelectStaleReleases(Releases(n) \ lost), {})
       \/ /\ Fault("prune")
          /\ \E f \in SelectStaleReleases(Releases(n)) :
                RemoveReleases(n, {s \in SelectStaleReleases(Releases(n)) : s > f}, {f})
    /\ EndTick(n, "ok")
    /\ UNCHANGED <<regVars, cacheVars, stamp, link, srvVars, res>>

-----------------------------------------------------------------------------
(***************************************************************************)
(* The server goroutine of startServer and the starter it runs (external). *)
(* A worker executes whatever the symlink names when it is started; an     *)
(* error of s.Run() clears isServerRunning.                                *)
(***************************************************************************)
StarterSpawn(n) ==
    /\ pc[n] # "down"
    /\ spawn[n]
    /\ spawn' = [spawn EXCEPT ![n] = FALSE]
    /\ serving' = [serving EXCEPT ![n] =
                     IF link[n] # 0 /\ dir[n][link[n]] \in Keys
                     THEN dir[n][link[n]] ELSE "none"]
    /\ UNCHANGED <<regVars, faults, cacheVars, relVars, running, pc, res, outcome>>

ServerRunFails(n) ==
    /\ pc[n] # "down"
    /\ running[n]
    /\ Fault("run")
    /\ running' = [running EXCEPT ![n] = FALSE]
    /\ spawn' = [spawn EXCEPT ![n] = FALSE]
    /\ serving' = [serving EXCEPT ![n] = "none"]
    /\ UNCHANGED <<regVars, cacheVars, relVars, pc, res, outcome>>

(* waitSigs on SIGUSR1: restartServer, whatever the deploy is doing.       *)
Usr1(n) ==
    /\ pc[n] # "down"
    /\ running[n]
    /\ ~spawn[n]
    /\ spawn' = [spawn EXCEPT ![n] = TRUE]
    /\ UNCHANGED <<regVars, faults, cacheVars, relVars, running, serving, pc,
                   res, outcome>>

(***************************************************************************)
(* The process is killed.  The file or directory being written at that     *)
(* moment may be left truncated.  The worker dies with its starter.        *)
(***************************************************************************)
Crash(n) ==
    /\ pc[n] # "down"
    /\ Fault("crash")
    /\ pc' = [pc EXCEPT ![n] = "down"]
    /\ running' = [running EXCEPT ![n] = FALSE]
    /\ spawn' = [spawn EXCEPT ![n] = FALSE]
    /\ serving' = [serving EXCEPT ![n] = "none"]
    /\ IF pc[n] \in {"own", "mark"}
       THEN current' \in {current, [current EXCEPT ![n] = "torn"]}
       ELSE UNCHANGED current
    /\ IF pc[n] \in {"load", "cache"}
       THEN \E c \in IF pc[n] = "cache" \/ local[n][res[n]] = "absent"
                     THEN CutShort(local[n][res[n]])
                     ELSE {local[n][res[n]]} :
               local' = [local EXCEPT ![n][res[n]] = c]
       ELSE UNCHANGED local
    /\ IF pc[n] = "extract"
       THEN \/ UNCHANGED <<stamp, dir>>
            \/ \E s \in Targets(n) :
                  /\ stamp' = [stamp EXCEPT ![n] = s]
                  /\ dir' = [dir EXCEPT ![n][s] = "partial"]
       ELSE UNCHANGED <<stamp, dir>>
    /\ UNCHANGED <<regVars, objects, shared, link, res, outcome>>

(* A supervisor starts dewy again; the first tick follows at once.         *)
Boot(n) ==
    /\ pc[n] = "down"
    /\ pc' = [pc EXCEPT ![n] = "idle"]
    /\ outcome' = [outcome EXCEPT ![n] = "none"]
    /\ UNCHANGED <<regVars, faults, cacheVars, relVars, srvVars, res>>

-----------------------------------------------------------------------------
Run(n) ==
    \/ ResolveCurrent(n) \/ CheckCache(n)    \/ WriteCurrent(n)
    \/ PutCurrent(n)     \/ LoadCached(n)    \/ Download(n)
    \/ WriteArtifact(n)  \/ PutArtifact(n)   \/ Preserve(n)
    \/ SwapLink(n)       \/ Promote(n)       \/ KeepReleases(n)

Next ==
    \/ \E k \in Keys : Publish(k)
    \/ Upload
    \/ GraceEnds
    \/ \E n \in Nodes : \/ Run(n)
                        \/ StarterSpawn(n)
                        \/ ServerRunFails(n)
                        \/ Usr1(n)
                        \/ Crash(n)
                        \/ Boot(n)

Spec == Init /\ [][Next]_vars

(***************************************************************************)
(* The scheduler starts a tick whenever none is running and a tick runs to *)
(* its end; the starter reacts to SIGHUP; a supervisor restarts dewy.      *)
(***************************************************************************)
Fairness ==
    \A n \in Nodes : WF_vars(Run(n)) /\ WF_vars(StarterSpawn(n)) /\ WF_vars(Boot(n))

FairSpec == Spec /\ Fairness

-----------------------------------------------------------------------------
(* Properties *)

(***************************************************************************)
(* The `current` symlink always names a directory that exists and holds a  *)
(* completely extracted release, whatever fails or crashes and whatever    *)
(* keepReleases removes (deploy, preserve, keepReleases in release.go).    *)
(***************************************************************************)
LinkWhole ==
    \A n \in Nodes : link[n] # 0 => dir[n][link[n]] \in Keys

(***************************************************************************)
(* The release the symlink names is never written to or removed while it   *)
(* is live: deploys extract beside it and keepReleases spares it.          *)
(***************************************************************************)
LiveReleaseUntouched ==
    [][\A n \in Nodes : link[n] # 0 /\ link'[n] = link[n]
          => dir'[n][link[n]] = dir[n][link[n]]]_vars

(***************************************************************************)
(* After a tick that ends well at most Keep release directories are left,  *)
(* the failed deploys before it included (keepReleases in release.go).     *)
(***************************************************************************)
PrunedAfterOk ==
    \A n \in Nodes : pc[n] = "idle" /\ outcome[n] = "ok"
                      => Cardinality(Releases(n)) <= Keep

Deployed(n) ==
    /\ link[n] # 0
    /\ dir[n][link[n]] = latest
    /\ Server => serving[n] = latest

(***************************************************************************)
(* Once the registry and the environment settle, every node ends up with   *)
(* the latest release behind its symlink and, for `dewy server`, a worker  *)
(* started from it: a failed tick is made up for by a later one.           *)
(***************************************************************************)
Converges ==
    \A n \in Nodes : <>[](latest \in uploaded \cap Slotted => Deployed(n))
=============================================================================
