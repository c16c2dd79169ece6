# dewy in TLA+

dewy is a pull-based deployment agent. On every tick it asks a registry for the
current release, fetches it through an artifact cache, and then either extracts
it, swaps a symlink and restarts a server (`dewy server`), extracts and swaps
only (`dewy assets`), or replaces containers one by one behind its own TCP proxy
(`dewy container`). Several hosts may share a cloud bucket, both as an artifact
cache and as a cache of registry answers.

These modules model the parts of dewy in which time, failure and concurrency
decide the outcome. TLC checks them on small instances; TLAPS proves the most
important safety properties for every value of the constants. `PROJECT.json`
maps every definition to the lines it stands for.

## 1. Inventory

| component | source | state | operations | what is hard | what makes it correct |
|---|---|---|---|---|---|
| deploy loop | `dewy.go`, `lifecycle.go`, `release.go` | `current` key, release directories, symlink, `isServerRunning` | one tick: resolve, look into the cache, take the key, download, extract, swap, promote, prune | a tick can stop after any step; the key advances before the release is there | the symlink never names half a release; the live release is left alone; a failed tick is made up for |
| artifact cache | `cache/*.go` | files, bucket objects, local staging | Read, Write, List, conditional write | files are written in place; the bucket has several writers | what is listed can be read back; no update is lost |
| registry-result cache | `registry/cached.go` | one entry: answer, refresh time, lock; its version token | Current (read, wait, claim, refresh, publish, release) | the lock expires while its holder still works; answers get lost | answers never go back; one refresher; no caller waits for ever |
| container rolling deploy | `container_deploy.go`, `container/deploy.go`, `container/inspect.go`, `container/runtime.go` | containers, their labels and ports | run, find port, check health, add, remove old, stop, roll back | every runtime command may fail; containers die | no outage; a failed deploy is undone; only the new release serves |
| proxy backends | `proxy.go`, `proxy_backend.go` | list of backends per proxy port | add, remove, stop | in memory only, while containers outlive the process | the list follows the deploy |
| TCP proxy connections | `proxy.go`, `connio.go` | connections, round-robin counter | accept, pick, dial, copy | the backend picked is removed before it is dialled | a connection fails only for that reason |
| signals and shutdown | `dewy.go` | signal channel of capacity one | SIGUSR1 restart, SIGTERM shutdown | a tick goes on while the shutdown runs, and shares the notifier with it | a SIGTERM that is received ends the process; managed containers are cleaned up |
| server starter | `starter.go`, `release.go` | worker process | start, restart on SIGHUP | the restart happens some time later | the worker runs the release the symlink names |
| version selection | `registry/semver.go`, `calver.go`, `version.go`, `slot.go`, `platform.go` | none | parse, compare, find the latest, find the artifact | prereleases, ties, slots | the greatest admissible version is found |
| registry clients | `registry/{registry,ghr,s3,gs,oci,grpc}.go` | bearer token | Current, Report | pages that shift while they are read, page limits, tokens, files still being uploaded | the answer is not lower than what was there; its artifact can be installed |
| artifact downloads | `artifact/*.go`, `lifecycle.go` | `d.artifact` | New, Download | the asset has moved to another page; a failed download is followed by another release | the artifact answered is found, and stored under its own name |
| error notifications | `notifier/*.go` | consecutive-error count and its lock, Slack thread | Send, SendError, SendImportant, SendHookResult, OnDeploy, reset | two goroutines share the count; the lock is held while a message is posted | errors are limited, nothing else is sent meanwhile, messages go to the thread of their release |
| GitHub client | `client/*.go` | installation token | token with early refresh | signatures | no expired token is used |
| image cleanup | `container/image.go`, `release.go` | local images | pull, inspect, remove old images | by build time and by force | the service goes on |
| telemetry, admin API | `telemetry/*.go`, `*_metrics.go`, `admin_api.go` | cached snapshot, port of the admin API | observe, serve, bind | two exporters, containers that vanish between listing and inspection, ports in use | counts agree with the runtime; the admin API is found |
| hooks | `hooks.go` | none | before and after a deploy | failures are posted and ignored | - |
| credentials, health | `container/{credentials,healthcheck,container}.go` | none | login, check | I/O | - |
| command line | `cli.go`, `config.go`, `app_name.go`, `defaults.go`, `cmd/` | configured ports | parse, start, `container list` | ranges, duplicates, ports of one's own | what is asked for is configured; wrong ports are refused before the start |
| generated code, shims | `registry/gen/`, `internal/sysdeps/` | none | - | - | - |

How they interact: the scheduler of `dewy.go` calls `Run` or `RunContainer`; a
tick never overlaps another tick of the same process. `Run` calls the registry
(possibly through `registry/cached.go`), the cache, the downloads, the release
functions, and the starter goroutine, which it reaches by a flag and by SIGHUP
to its own process. `RunContainer` calls the runtime (docker or podman) with
callbacks that add and remove proxy backends. `waitSigs` runs beside both.
Hosts meet only in the bucket.

The hazards these interactions create are listed, each at its line, in
`PROJECT.json`.

## 2. Modules

### Deployer: `Run` over the artifact cache

One node is one dewy process with its disk. `pc[n]` is the phase of the running
tick; every phase is one action, because the process can be killed between any
two and because the registry, the server goroutine, SIGUSR1 and other hosts move
in between.

| action | code |
|---|---|
| `ResolveCurrent` | `resolveCurrent`: grace period of a missing artifact, slot check |
| `CheckCache`, `Decide` | `resolveCacheState` up to its decision |
| `WriteCurrent`, `PutCurrent` | the `current` key, locally and in the bucket |
| `LoadCached` | the staging of a cached object by a cloud backend |
| `Download`, `WriteArtifact`, `PutArtifact` | `downloadAndCache` |
| `Preserve`, `SwapLink` | `preserve` and the tail of `deploy` |
| `Promote`, `KeepReleases` | `promoteAndReport`, `keepReleases` |
| `StarterSpawn`, `ServerRunFails`, `Usr1` | the goroutine of `startServer`, `waitSigs` |
| `Publish`, `Upload`, `GraceEnds`, `Crash`, `Boot` | registry, time, process life cycle |

Abstractions. A key stands for `tag--artifact`. A release directory is named by
its stamp, the order of stamps standing for the second in the name and for the
modification time that pruning sorts by. A file is absent, truncated or whole.
Faults are named after the call that fails (`FaultKinds`) and counted
(`MaxFaults`). `"torn"` lets a write that is cut short leave a truncated file.
Hooks, notifications, reports and telemetry change nothing the loop reads; the
first two are in Process.

### RegistryMirror and CachedRegistry: `registry/cached.go`

`RegistryMirror` is the promise: a mirror of what upstream answered that starts
empty and only moves forward. `CachedRegistry` is the protocol: one action per
read, decision, conditional write and upstream call of `Current`, over one
versioned entry. Releases are numbered in the order upstream publishes them.
Time is relative: the entry keeps the age of its answer and of its lock, a call
the time since it began; `Tick` advances all of them. With `Timely` no step of a
node takes longer than the model's time allows; without it nodes are arbitrarily
slow. `RefinesMirror` is the refinement.

A version token is abstracted to what the conditional write can tell: whether
the entry has changed since it was read. A lost answer to a write that was
applied, a failing upstream, a crash and a failed lock release are faults.

### RollingUpdate and RollingDeploy: `RunContainer` and `Runtime.Deploy`

`RollingUpdate` is the promise to the users of the load balancer: replicas of an
update are put in one by one (`Place`), backends of the service leave
(`Retire`) only when all of them are in, and a failed update takes out its own
replicas, all of them and nothing else (`Withdraw`, `Abandon`). The process may
end at any time, and the load balancer with it (`Stop`). `RollingDeploy`
implements it: `update` is the containers the tick has placed with their ports,
`service` the entries of the load balancer that are not theirs, counted port by
port, and `stage` follows from `pc` and from whether the proxy listens.

One action per runtime command, because containers die, signals arrive and dewy
is killed in between.

| action | code |
|---|---|
| `ResolveContainerCurrent`, `ResolveContainerState` | the phases of the same names in `lifecycle.go`: slot check, already-running check |
| `PullImage` (`Pull`) | `pullContainerImage`, `Runtime.Pull` with its fallback to a local image |
| `ResolvePortMappings` | `Runtime.ResolvePortMappings`, `GetImageExposedPorts` |
| `FindExisting`, `RunNew`, `GetMappedPort`, `CheckHealth`, `Discard`, `AddBackend` | `Runtime.Deploy` and `startAndCheck`, up to the last replica |
| `UndoBackend`, `UndoContainer` | `rollback` |
| `DrainOld`, `StopOld` | the old containers of `Deploy` |
| `RemoveExited`, `CleanupOldImages` | `RemoveExited`, `CleanupOldImages`; the end of the tick |
| `Terminate`, then `ListManaged`, `StopManaged`, `StopProxy`, `Exit` | `waitSigs`, `StopManagedContainers`, `stopProxy` |
| `Crash`, `Boot`, `ContainerDies`, `Publish` | process life cycle, the runtime, the registry |

A container has a status, an image and a host port. Images are numbered in the
order they were built; `Backwards` lets the registry report one that was built
earlier (a rollback by the publisher). Removing an image by force means one
thing to docker, which refuses while a container runs from it, and another to
podman, which removes the containers too (`Podman`). Signals and failing
commands are kinds of faults, counted together. The runtime never hands out the
port of a running container but may reuse any other. One proxy port is
modelled; the code treats the ports of a multi-port application alike.

### ProxyTraffic, MCProxyTraffic: connections

Composes client connections (`acceptLoop`, `handleConnection`,
`getNextBackend`, the dial and the copying until one direction ends) with every
step of RollingDeploy. Picking a backend and dialling it are two steps, as the
list is locked only while it is read. The round-robin counter wraps at `Wrap`
(2^64 in the code; the model keeps the wrap-around reachable). Connections and
the counter die with the process. `MCProxyTraffic` adds the symmetry of host
ports, which nothing orders.

### ContainerHost, MCContainerHost: metrics and shutdown beside a deploy

Composes every step of RollingDeploy with two exporters (Prometheus and OTLP)
that collect container metrics.

| action | code |
|---|---|
| `Scrape`, `Snapshot` | the callback of `RegisterContainerObserver`; `snapshot` takes the lock and reuses a young result |
| `ObserveContainers` | `observeContainers` and the listing of `InspectManaged` |
| `InspectManaged`, `Collected`, `Observe` | the inspection, the cached result, the replicas reported |
| `Deploying` | a step of RollingDeploy; a process that ends forgets its snapshot |
| `Pass` | time |

`calm` remembers whether the same containers have been running since the
collection began: stopped ones may come and go, which makes the inspection fail
but must not change the count;
`listed` and `missed` remember what the shutdown found and what it failed to
stop. They are read by no action.

### CommandLine, Process, MCProcess: one process from its command line to its end

`CommandLine` has no state: the `--port` options of `server` (numbers and
ranges) and of `container` (mappings), as sequences, since the same one may be
given twice, and what they are turned into.

`Process` has two goroutines. `main` runs the command line, telemetry, `Start`
and `waitSigs`; the job runs ticks, reduced to the messages they send and how
they end. They meet in the notifier's `RWMutex`, which is held while a message
is posted, and in the signal channel. A step ends where the lock is taken or
given back, so that a post is an interval during which the other goroutine
moves.

| action | code |
|---|---|
| `Run`, `NewTelemetry` | `cli.run`, `telemetry.New` |
| `Start`, `Hello`, `StartProxy`, `StartAdminAPI`, `StartFails`, `Schedule` | `Dewy.Start`, `startProxy`, `startAdminAPI` |
| `NotifySignals`, `TakeSignal`, `TellRestarted`, `StopProxy`, `StopAdminAPI`, `TellStopped`, `Return` | `waitSigs` and the end of `cli.run` |
| `Send`, `SendError`, `SendImportant`, `SendHookResult`, `ResetErrorCount`, `OnDeploy` | `ErrorLimitingSender`, `Slack.OnDeploy` |
| `Tick`, `Downloaded`, `BeforeHook`, `Deploy`, `AfterHook`, `RestartServer`, `StartServer`, `Promoted`, `TickFailed`, `TickDone` | the job of `Start` and the phases that send messages |
| `ServerFails`, `Signal`, `OthersListen`, `Restart`, `ContainerList` | the starter's error, the operating system, `dewy container list` |

`refused` is the ports on which listening fails at the moment, whatever the
reason: another program has them, or they are privileged. It changes at any time
within `Contested`. Ports beyond `MaxPort` (65535 in the code) are refused
always, and the admin API, which counts up from `adminPort`, may reach them.
`container list` is taken to be given the same `--admin-port`.

A signal that arrives before `signal.Notify` ends the process; one that finds the
channel full is dropped. A configuration that makes the program panic (no
registry, an interval of 0, an unknown notifier) ends it at the place where it
does.

### VersionSelection, RegistryClient, MCRegistryClient: what `Current` answers

`VersionSelection` has no state: comparison of semantic and calendar versions,
their filters, the latest of a list, the slot of a tag and the artifact for a
platform. The tables `Version` and `File` stand for what the regular expressions
see in a name, with numbers that fit `strconv.Atoi` and formats whose literals
are dots; `VersionAssumption` says that these are lists of any length. The
`words` of a file are all the names of architectures and systems that its name
contains somewhere, so that a name with `arm64` in it has `arm` too, and
`platform` is what its contents are made for.
`Lower` is an independent reference, item 11 of the SemVer specification as a
lexicographic order that counts identifiers with a sign as numbers, and `Rank`
counts the names below a name; the properties compare answers with them.

`RegistryClient` makes every HTTP request of `Current` a step against a registry
in which releases, drafts (on GitHub) and files appear meanwhile: pages by
number for GitHub, by continuation for S3, Cloud Storage and OCI. It includes
the OCI page limit and bearer token (the registry is taken to require one: a
request with a token that has expired is refused, another token is fetched and
the request repeated once), the
not-found answer while files are missing, the slot check of `resolveCurrent`,
and `Report`, which adds a text file to the release it later lists again.
The download follows the answer: `d.artifact` is made unless one is left, the
asset of a GitHub release is searched for page by page once more, and what
arrives is recorded in `staged` with the answer it is stored for.
A version directory of a store appears together with some other object.
`PlainNumbers` leaves out directories with leading zeros, which the stores'
clients report under another name (section 4). `NamesTell` says that the names
of the archives tell for which platform they are made, on this host.

### DeployerProofs, CachedRegistryProofs, ProcessProofs, BackendLemmas, RollingDeployProofs, ProxyTrafficProofs, ContainerHostProofs, RegistryClientProofs

The theorems of section 5, one module for each component. `BackendLemmas` has
what is true of the load balancer's list as a sequence; `RollingDeployProofs`
extends it, and the proofs about connections and about the host beside a deploy
extend `RollingDeployProofs`, whose step lemmas they cite.

## 3. Runs

| run | instance | shows |
|---|---|---|
| `deploy_faults` | server, cloud cache, every kind of fault, at most 2 | `LinkWhole`, `LiveReleaseUntouched` |
| `deploy_converges` | server, file cache, failures before the key advances, of the server, and crashes | `Converges`, `PrunedAfterOk` |
| `deploy_retry` | one extraction error | `Converges` is violated (section 4) |
| `cached_faults` | 2 nodes, any two faults of every kind | `RefinesMirror`, `RefreshOnlyWhenStale`, `CurrentReturns` |
| `cached_timely` | 3 prompt nodes, upstream failing | `OneRefresher`, `ReadsNeverGoBack` |
| `roll_traffic` | docker, 2 replicas, 2 of: a failing run, health check or stop, a crash; one connection at a time | `NoOutage`, `OnlyNewServed`, `RollbackRestores`, `CapacityKept`, `FailsOnlyIfRemoved`, `RefinesUpdate` |
| `host_metrics` | podman, 1 replica, 2 exporters, 2 of: a failing listing, inspection, stop or removal, a death, crash or signal; exposed ports read from the image | `ReportExact`, `ShutdownStopsAll` |
| `roll_converges` | docker, 1 replica, 3 images in any order (one of another slot), 1 failing command | `Converges` |
| `roll_restart` | a crash of dewy | `Converges` is violated |
| `registry_latest` | GitHub, S3, Cloud Storage with calendar versions, OCI; archives of two architectures and a report; 1 failing request or download, 1 expired token | `ComparesByPrecedence`, `AnswerCoversCall`, `NoDowngrade`, `AnswerInstallable`, `AssetFoundAgain`, `StagedAsAnswered`, `LatestTaken` |
| `registry_slot` | GitHub, slot `blue` | `LatestTaken` is violated |
| `process_stops` | 9 command lines, 6 ports, of which 1 and 6 may be refused, 2 releases (one with a Slack thread), 2 signals, any number of failing ticks and restarts | `ErrorsLimited`, `SilentWhileFailing`, `MessagesInThread`, `ConfiguredAsAsked`, `StartFailsOnlyIfRefused`, `ListFindsInstance`, `TermStops` |

`deploy_faults`, `cached_faults`, `roll_traffic`, `host_metrics`,
`registry_latest` and `process_stops` check the type invariants as well.
`cached_faults` takes the nodes to be prompt, which `CurrentReturns` needs; that
its safety properties hold for nodes of any speed is proved (section 5).

Bounds. `Keep` is 2 instead of 7 and `MaxReleases` 5, so that pruning has
releases to remove, to keep and to fail on. Two publications are enough for a
release to be overtaken while it is being deployed. Two faults are enough for
one to hit the recovery from the other. Two nodes race for a lock; three are
needed for one to lose it to a second while a third waits. Two replicas are the
least for which a deploy can be half done; the ports suffice for old, new and
one leftover. `KeepImages` is 1, so that the second
image already makes the first one removable. One connection is enough, since
connections meet only in the counter, whose four values give every remainder for
up to four backends. Pages of one name and two publications make the second
page shift under the client; with the OCI limit of one page the limit is met.
The names are chosen where text and version order differ (`v1.9.0`, `v1.10.0`;
`rc.9`, `rc.10`) and where a calendar format does not parse, and for
`registry_slot` where build metadata ties. `host_metrics` has two ports: without
failing health checks at most one other container runs when one is started. In
`process_stops` the limit of errors is 2 (3 in the code) and the cap of the
counter 3 (1000), the admin API tries 2 ports (10), and two signals fill the
channel and find it full. `deploy_faults` does not check for deadlock: an endless series of
redeploys (a crash before every prune) stops at `MaxReleases`.

Fairness. The scheduler starts a tick whenever none is running, a runtime
command or network call ends (with success or an error, all have timeouts or
exit), the starter reacts to SIGHUP, and a supervisor starts dewy again: weak
fairness of `Run`, `StarterSpawn` and `Boot` for the deploy loop, of
`RunContainer`, `Shutdown` and `Boot` for containers (`roll_converges` has
neither signals nor crashes and needs the first only), and of `Current` for the
registry cache and the registry client. Time passes: strong fairness of `Tick`, since the steps of
prompt nodes disable it now and then. In Process the posts, hooks and
deploys end (weak fairness of `InTick`), and main gets the notifier's lock now
and then although the job takes it again and again (strong fairness of `Main`):
`sync.RWMutex` hands the lock to the readers that waited when a writer gives it
back. Nothing is assumed of faults, signals or the publisher.

## 4. Where the code and its documentation part

Three violation runs show it; each is a finding in `PROJECT.json`.

- `deploy_retry`: the current key is written before the release is extracted.
  An extraction that fails once is never tried again, while
  `docs/pages/deployment-workflow.md:212` promises a retry in the next cycle.
- `roll_restart`: after a restart the proxy is empty and every tick skips, while
  `docs/pages/deployment-workflow.md:532` says that it handles all traffic.
- `registry_slot`: the latest version is chosen among all slots and the slot is
  compared afterwards, so a release of another slot hides the one this host
  should deploy (`docs/pages/versioning.md:96`, `README.md:421`).

Further limits of the code were met while modelling. Some can be reproduced by
changing constants of the configurations:

- `"torn"` with `"write"` in `DeployConverges.cfg`: a truncated cache file looks
  cached, and no later tick downloads it again (`cache/file.go:138`).
- `SameSecond = TRUE` in `DeployFaults.cfg`: two deploys in one second share a
  directory; the second writes into the live release (`release.go:79`).
- `"port"` in `RollConverges.cfg`: a container whose port cannot be read is
  removed without being stopped, keeps running, and satisfies the
  already-running check (`container/deploy.go:167`).
- `"stop"` in `RollConverges.cfg`: an old container that is not stopped is out of
  the load balancer but keeps running; when the publisher goes back to its
  image, every tick takes it as deployed (`lifecycle.go:306`). With
  `Backwards = FALSE` the property holds with this fault too.
- `"die"` in place of `"crash"` in `RollRestart.cfg`: one surviving container of the image counts as
  deployed; the dead one stays a backend.
- `Server = FALSE, Cloud = TRUE` with a filled bucket: a fresh host finds the
  shared `current` key up to date and extracts nothing (`lifecycle.go:88`).
- `Podman = TRUE` in `RollConverges.cfg`: when the image just deployed was built
  before the ones that are kept, the cleanup removes it with its running
  containers, and the next tick deploys it again, without end
  (`container/image.go:151`, `container/image.go:244`). The backends grow, so the
  run does not finish.

Others are visible in the model but have no run:

- The deadline for waiting belongs to the call and not to the lock, so a waiter
  that outlived one lock claims over one that was taken just before
  (`registry/cached.go:192`; the comment at line 166 says otherwise).
- `docs/pages/cache.md:78` promises one call to the upstream registry per TTL
  window. `OneRefresher` is weaker, one at a time: a failed call releases the
  lock and the next node calls within the same window.
- A node that cannot read the entry asks upstream directly
  (`registry/cached.go:186`) and may be served an older answer of the cache
  afterwards. `ReadsNeverGoBack` is about reads that do not fail.
- The S3 and Cloud Storage clients report the version they parsed, printed again
  (`registry/s3.go:162`, `registry/gs.go:142`): a directory `v1.02.0` is reported
  and cached as `v1.2.0`.
- `docs/pages/versioning.md:213` says that prereleases are compared as strings.
  The code compares identifiers that are numbers as numbers
  (`registry/version.go:14`, after item 11 of SemVer), so that `rc.10` follows
  `rc.9`. `ComparesByPrecedence` passes because it states what the code and its
  comment say; by the documentation `rc.9` would be the later one.
- Privileged ports are only warned about (`cli.go:523`;
  `docs/pages/multi-port.md:565` says that they need root): without the right to
  listen there the process fails at its start. Of the ten ports of the admin API
  those beyond 65535 cannot be had (`admin_api.go:28`). `StartFailsOnlyIfRefused`
  says that only ports that are refused end the start, not that none are.
- The shutdown lists the containers once, while a tick that is under way can
  start another, which outlives dewy (`dewy.go:246`), while
  `docs/pages/deployment-workflow.md:634` speaks of all managed containers.
  `ShutdownStopsAll` shows that those listed are stopped, or failed to be.
- A SIGTERM that finds the signal channel full is dropped, and one that comes
  before `signal.Notify` kills the process, while `docs/pages/signal-handling.md:27`
  promises a cleanup. `TermStops` shows that one that is received is served.
- The message at the end of the process is sent like any other: not when quiet
  and not after an error (`docs/pages/signal-handling.md:23`).
- `OnDeploy` keeps the old thread when a release has none
  (`notifier/slack.go:101`), while `docs/pages/notifier.md:166` says that
  messages then go to the channel. `MessagesInThread` is stated for releases
  that have one.
- A failing before-hook does not stop the deploy (`release.go:21`), as
  `docs/pages/deployment-workflow.md:117` says, while
  `docs/pages/deployment-hooks.md:241` and `docs/pages/index.md:147` say that it
  aborts.
- `docs/pages/telemetry.md:168` speaks of a limit of one hour for stopped
  containers that `container_metrics.go` does not have.
- Ports are deduplicated as text: `8080` and `08080` are configured both
  (`cli.go`, `validateAndDeduplicatePorts`), and a range may have 101 ports.
- An interval of 0 leaves the job nil, an unknown notifier or a registry that
  cannot be made leaves an interface nil: the process panics later.
- After a restart the replicas are reported as 0 until the first tick has made
  the runtime, while the containers run (`container_metrics.go:21`).
- `drainTime` is stored and never used: a connection that picked a backend just
  before its removal is lost, although `docs/pages/deployment-workflow.md:619`
  says that no requests are. `FailsOnlyIfRemoved` shows that this is the only
  way to lose one during an update.
- `MatchArtifactByPlatform` looks for the names of the architecture and of the
  system anywhere in the file's name (`registry/platform.go:62`), while its
  comment (line 31) speaks of the current OS and architecture. Hosts called
  `arm`, `mips`, `ppc64` or `mips64` take archives for `arm64`, `mips64`,
  `ppc64le` or `mips64le` that come first, and a project name that contains such
  a word matches everywhere. `AnswerInstallable` promises the platform only where
  the names tell it (`NamesTell`).
- A prerelease identifier such as `-5` counts as a number, since `strconv.Atoi`
  takes a sign (`registry/version.go:39`), while SemVer calls it a word;
  `ComparesByPrecedence` leaves such identifiers out.

## 5. Proofs

All proofs are for every set of nodes, keys or command lines and every bound; `tlapm` checks
them to the last leaf.

Deployer. `TypeCorrect` is a conventional induction. `SymlinkWhole` and
`LiveUntouched` assume `~SameSecond`, which the code meets when two deploys of a
process are at least a second apart. `LinkWhole` alone is not inductive: the
step that swaps the link needs to know that the newest directory is whole, and
pruning must be known to spare the live one. `LinkInv` adds what each phase
knows of the newest directory (whole in `"link"`, live in `"promote"` and
`"prune"`), that no directory has a stamp beyond the newest, and that the
symlink is not beyond it either. With these, an extraction never hits the live
directory, and at the time of a prune the live directory is the newest, which
`SelectStaleReleases` spares because `Keep` is positive - also when some
directories cannot be stat'ed, since those that are not listed are not removed.

CachedRegistry. `ImplementsMirror` shows that every step is a step of the mirror
or leaves it alone. The invariant `MirrorInv` says what a version token stands
for: while the entry is unchanged since a node read it, the copy the node holds
is the entry (`ReadIsCurrent`), a claim that still stands is the node's own
(`ClaimIsOwn`), the answer it got from upstream is not older than the entry it
claimed (`AnswerIsNewer`), and it claimed because the entry was due
(`ClaimIsDue`). Locks and time do not occur in the argument: the safety of the
mirror rests on the conditional write alone, whatever the clocks do.
`OnlyStaleRefreshed` follows from the same invariant.

Exclusion needs time, and is proved in two layers, for any number of nodes.
`LockExcludesWhilePatient` allows every fault: with timely nodes and upstream
calls shorter than the lock's life, two nodes refresh at once only if one of them
reads a live lock after its own deadline, the case of section 4. `LockInv` says
that a refreshing node's claim is the object's version and its lock exactly as
old as its call (`OwnsLock`), and that a claim which can still succeed was not
decided on under a live lock (`ClaimIsFree`). `OneRefresherTheorem` then shows
when that deadline is never missed: no write fails or is lost and no process
dies (`CallsOnlyFail`), and the durations fit (`CallsFit`), that is, the entry
outlives one retry interval, and all the failing calls of a behaviour and one
that succeeds, each with the interval in which the lock is found released, fit
in a lock's life. `MaxFaults` is a bound of the model, but here it has a meaning:
how many calls may fail while a node waits. `WaitInv` does the accounting: every
lock has a holder, a node has waited for the failed calls and the one under way,
and it is about to sleep on a fresh entry only at the instant of its publication.
The two layers need each other, so `TimelyInv` is inductive only as a whole.
`CallsFit` is tight at the bounds of `CachedTimely`: with one more failing call, or with
a TTL of one interval and no fault at all, TLC finds two refreshers.
`ReadsNeverGoBackTheorem` adds that reads and claims do not fail either, so that
nobody bypasses the object and every answer is the one it holds
(`KnownIsStored`); with a failing read the property is false.

Process. The constants are assumed to have a limit of errors below the cap of
the counter (3 and 1000 in the code). `ErrorsAreLimited` and
`SilentUnderErrors` share the invariant `NotifierInv`: a goroutine that posts an
error holds the lock alone (`Exclusive`), has counted its error and not yet
posted it, and one that posts anything else holds it for reading, so that
nobody can count in the meantime. Without `Exclusive` the number of posts could
lag behind the count by two. `StartsUnlessRefused` has no assumption on what is
refused or why, nor on how many ports there are. It rests on `MappingsDistinct`
(accepted mappings repeat no proxy port, so a proxy never meets its own port)
and on `LeastPort`, the well-ordering that makes the admin API's choice of the
lowest port it can have exist; `PortInv` says that the mappings are distinct and
their proxy ports exist (`Mapped`) from the command line until the proxies are
started, that only configured proxies are, that the command line stays what it
was, and that the admin API is on one of its ports. `ListFinds` follows from it and `LeastPort`. `TypeCorrect`
adds `RestOK`, the types of what these do not mention.

`ConfiguresAsAsked` is a lemma about each form of a port mapping
(`PartAsAsked`), carried to lists of options (`SpecsAsAsked`) and then along the
start of the process. `MessagesInThreadTheorem` needs `ThreadInv`: before `Start`
looks the thread up there is none and no job runs, and once a release has been
swapped in its thread stays until the tick is over. The thread may move on
before the swap, which is why the invariant speaks of the phases after it only.

Deployer, once more. `AtMostKeepLeft` assumes that neither stat nor removal
fails (with either fault more directories are left, and the code accepts that);
deploys may share a second. The step that matters is `KeptAreFew`: each release
that is kept has fewer than `Keep` newer ones and no two have equally many, so
counting the newer ones is an injection of the kept into `0..Keep-1`.

RollingDeploy. `TickInvariant` is type correctness with what the local variables
of the tick name in each phase (`LocalsOK`) and when the proxy listens
(`ProxyOK`); the other theorems need both, because a port in the load balancer
means something only together with the container that has it.
`RollbackRestoresTheorem` has no assumption on faults: `EntriesOK` counts, port
by port, that the list has what it had before the tick and one entry for each
container the tick has placed, through the deploy and back. Counting is needed
since a port that is in the list twice loses one entry only. `NoOutageTheorem`
assumes Docker and containers that do not die by themselves (`~Podman`,
`"die"` not among the faults): podman's forced removal of an image takes running
containers with it, and a container that dies takes its service with it, so
without these the property is false. `ServiceOK` says that replicas of the
deploy are balanced until they are rolled back and that, as long as old
containers are not being replaced, one the deploy did not start is.
`OnlyNewServedTheorem` further assumes that the ports of running containers can
be looked up: the code logs a failing lookup and goes on, and the old backend
stays. `ExactOK` says that the list has no port twice and only ports of running
containers, and which ones in which phase; that the list is then exactly as long
as there are replicas is a counting argument (`ExactLength`).

`ImplementsUpdate` and `CapacityTheorem` have no assumption on faults or on the
runtime: they are about the list alone, which the deploy controls, and not about
the containers behind it. For the refinement, the count of `EntriesOK` makes
adding a backend a `Place` and undoing one a `Withdraw`. The step that needs an
argument of its own is the removal of an old backend, which the code does by
port: it must be an entry of the service, not of a new replica. `PortsApart`
shows that it is: an old container whose port can be looked up is running, has
been since it was found, so no replica was given its port meanwhile, even if
other replicas died and released theirs. For the capacity, `CapacityInv` adds
that the list has grown by what was placed until the deploy can no longer fail,
and that the new replicas are its last entries (`LastNew`): a removal takes the
first entry with the port, which lies before them.

ProxyTraffic, ContainerHost. Their specifications take a step of RollingDeploy or
one of their own, so the invariants above carry over. `FailsOnlyIfRemovedTheorem`
has the assumptions of `OnlyNewServedTheorem`. `ShutdownOK`: what still runs of the
containers listed by a shutdown is what it has yet to stop or has failed to stop;
a tick cannot start a listed container again, because those exist. `ReportOK`:
one scraper holds the lock, and as long as the same containers run they are among
those it listed.

RegistryClient. `RegistryGrows` says of every step that the registry only gains:
visible releases stay visible, files stay, and a release only moves towards the
end of GitHub's list. `StepKinds` brings the sixteen actions down to nine kinds of
step of the running call. On these, `ClientInvariant` shows that what a call has
collected is in the registry (`NamesOK`, `SeenOK`, `PickOK`, `TakenOK`), that
`d.artifact` is the answer while it is downloaded and gone otherwise
(`ArtifactOK`, which makes `StagedAsAnswered` inductive), and that the release
searched for is beyond the search's cursor (`FindOK`, which makes
`AssetFoundAgain` inductive: publications push it further away, never behind).
`InstallableTheorem` is about every host and any table of files: whichever words a
name contains, what is answered was found in the uploads of the release and is an
archive that matches; `NamesTell` then turns the match into the platform. `AnswerCoversTheorem` and `NoDowngradeTheorem` hold for
versions of any form, by `CompareTheorem` below. Given that order, `Covers` is
inductive: while a call pages, every name that was visible at its
start has been read or is ahead of the cursor - by position in the releases as
they are now, or by position in text order - so nothing is missed however pages
shift; and the answer taken before was visible at the start of the next call.

Versions. `CompareTheorem` shows that `Compare` is a total preorder on names of
any form and that it is `Lower`, with no bound on the count of numbers or
prerelease identifiers. The two are written differently, `Compare` by the first
difference within the shorter list and then by length, as the code does, `Lower`
by a quantifier over positions. The proof reads a version as two infinite
sequences of pairs (`NumberKey`: zero beyond the last number; `PreKey`: a mark
for stable versions, then the kind and the value of each identifier, the kind
being 0 beyond the last), shows that the lexicographic order of such sequences
is total and transitive (`KeyOrder`, from `LeastNatural`), and that both
definitions are that order (`LowerIsBelow`, `CompareIsBelow`). `RankOrders` then
makes the counts of `Rank` agree with `Lower`: what is below the lower of two
versions is strictly less than what is below the higher, in the subset order of
finite sets. `ComparesByPrecedenceTheorem` follows for every instance.

Loops. The library's induction theorems cannot be used here, being about
operators, but their set form can: `LeastNatural` (from well-foundedness) gives
`LoopInvariant` and `LoopHistory`, from which it follows that the recursive
functions of VersionSelection are defined and what they compute for lists of any
length: `OnlyKeeps` for the filters, `FindLatestIs` for `FindLatest` (an admissible
member of the list, no other above it; none only if there is none).

Only model-checked: liveness (`Converges`, `CurrentReturns`, `LatestTaken`,
`TermStops`), which is out of the prover's reach.

## 6. Not modelled

The wording and delivery of messages, usage texts and flags without effect on
the order of steps, the bodies of HTTP answers, archive formats and generated
code have no state whose order matters. The token of a GitHub App is used by the
tick alone, so its refresh is a sequential exchange of signed requests; its
failure is a failing request of RegistryClient. Registry logins and the parsing
of the runtime's output are I/O. The gRPC registry client forwards one call to a
server that is not part of this repository. Host clocks are taken to agree; the
safety theorems of the registry cache do not use them. The cache's `Delete` is
not called by the loop. Releases are never deleted (`docs/pages/faq.md:11`
describes the downgrade that follows), so `NoDowngrade` speaks of registries that
only gain. A container that a failing `docker run` created but did not start is
seen by nothing in the program and left out. Admin ports of 0 (the default) and
below are no case of their own. Server metrics count what the tick reports and are read
by nobody in the program.

## 7. Plan

Done, in the order of importance: the deploy loop over its cache, the shared
registry cache and its mirror, the rolling deploy and the update it implements,
connections through the proxy, version selection, the registry clients and
their downloads, the process with its notifier, signals and ports, and the
metrics of a container host. Left: the gRPC client, if its server's promises are
ever written down here.
