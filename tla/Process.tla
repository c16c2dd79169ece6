------------------------------ MODULE Process ------------------------------
(***************************************************************************)
(* One dewy process: the command line (cli.go), Start and waitSigs         *)
(* (dewy.go), the notifier (notifier/), hooks and the admin API.           *)
(*                                                                         *)
(* Two goroutines matter: main, which starts everything and then handles   *)
(* signals, and the job, which runs the ticks.  They meet in the notifier, *)
(* whose lock is held while a message is being posted, and in the signal   *)
(* channel, which has room for one signal.  What a tick does to releases   *)
(* and containers is modelled in Deployer and RollingDeploy; here it is    *)
(* the messages it sends and how it ends.                                  *)
(***************************************************************************)
EXTENDS CommandLine

CONSTANTS
    Args,             \* command lines: [command, specs, adminPort, interval, registry, quiet,
                      \*                 hooks, telemetry, notifier: [kind, valid, thread]]
    Releases,         \* releases that may be deployed
    Threaded,         \* those with a .slack-thread-ts in their archive
    NoRelease,
    Contested,        \* ports on which listening may fail
    MaxAttempts,      \* 10: ports tried for the admin API
    MaxNotifyErrors,  \* 3
    MaxErrorCount,    \* 1000
    MaxSignals        \* bound: signals sent from outside

ASSUME ProcessAssumption ==
    /\ \A a \in Args :
          /\ a.command \in {"server", "assets", "container"}
          /\ a.adminPort \in Nat \ {0}  \* 17539 unless --admin-port says otherwise
    /\ Threaded \subseteq Releases
    /\ NoRelease \notin Releases
    /\ Contested \subseteq Nat
    /\ MaxAttempts \in Nat \ {0}
    /\ {MaxNotifyErrors, MaxErrorCount} \subseteq Nat \ {0}
    /\ MaxNotifyErrors < MaxErrorCount
    /\ MaxSignals \in Nat

VARIABLES
    args,       \* how the process was called
    ports,      \* the ports or port mappings it is configured with
    main,       \* what the main goroutine does next
    job,        \* what the job does next
    mu,         \* mu[g]: how goroutine g holds or awaits the notifier's lock
    count,      \* errorCount
    posted,     \* error messages posted since errorCount was last 0
    chan,       \* the signal channel
    signals,    \* signals sent so far
    quit,       \* job.Quit: "empty", "sent" or "taken"
    refused,    \* ports on which listening fails at the moment: another program
                \* does, or the system does not let this one (privileged ports, ...)
    started,    \* port mappings whose proxies listen
    admin,      \* port of the admin API (0: none)
    found,      \* where `dewy container list` last got an answer from this process
                \* or its neighbours (0: nowhere)
    running,    \* isServerRunning
    release,    \* the release of the running tick
    link,       \* the release `current` names
    thread      \* the release whose thread threadTS names

lockVars == <<mu, count, posted>>
portVars == <<ports, refused, started, admin, found>>
tickVars == <<release, thread>>
sigVars  == <<chan, signals, quit>>
otherVars == <<args, portVars, sigVars, running, link, tickVars>>
vars == <<main, job, lockVars, otherVars>>

Goroutines == {"main", "job"}

(* Phases after signal.Notify.                                             *)
Notified == {"wait", "usr1", "restarted", "stop", "close", "bye", "exit"}

(* Every variable keeps the kind of value its declaration describes.       *)
TypeOK ==
    /\ args \in Args
    /\ main \in {"cli", "telemetry", "start", "hello", "proxy", "admin", "schedule", "notify",
                 "failed", "return", "ended"} \cup Notified
    /\ job \in {"off", "idle", "downloaded", "before", "deploy", "after", "server", "restart",
                "launch", "promoted", "error", "reset"}
    /\ mu \in [Goroutines -> {"none", "read", "wait", "write"}]
    /\ count \in 0..MaxErrorCount
    /\ posted \in 0..MaxNotifyErrors
    /\ chan = <<>> \/ \E s \in {"HUP", "USR1", "TERM"} : chan = <<s>>
    /\ signals \in 0..MaxSignals
    /\ quit \in {"empty", "sent", "taken"}
    /\ running \in BOOLEAN
    /\ refused \subseteq Contested
    /\ started \subseteq ports
    /\ admin \in Nat /\ found \in Nat
    /\ {release, link, thread} \subseteq Releases \cup {NoRelease}

Init ==
    /\ args \in Args
    /\ main = "cli"
    /\ ports = {}
    /\ job = "off"
    /\ mu = [g \in Goroutines |-> "none"]
    /\ count = 0
    /\ posted = 0
    /\ chan = <<>>
    /\ quit = "empty"
    /\ started = {}
    /\ admin = 0
    /\ running = FALSE
    /\ release = NoRelease
    /\ thread = NoRelease
    /\ refused = {}
    /\ found = 0
    /\ signals = 0
    /\ link = NoRelease

(* A process that is gone, or just called, holds nothing in memory.        *)
Forget ==
    /\ ports' = {}
    /\ job' = "off"
    /\ mu' = [g \in Goroutines |-> "none"]
    /\ count' = 0
    /\ posted' = 0
    /\ chan' = <<>>
    /\ quit' = "empty"
    /\ started' = {}
    /\ admin' = 0
    /\ found' = 0
    /\ running' = FALSE
    /\ release' = NoRelease
    /\ thread' = NoRelease
    /\ UNCHANGED <<refused, link>>

(* The process is gone: Start returned, a panic, or a signal nobody took.  *)
Gone == main' = "ended" /\ Forget /\ UNCHANGED args

MainTo(p) == main' = p /\ UNCHANGED job
JobTo(p)  == job' = p /\ UNCHANGED main

-----------------------------------------------------------------------------
(* The notifier.  A waiting writer keeps new readers out (sync.RWMutex).   *)

MayRead(g) == \A h \in Goroutines \ {g} : mu[h] \in {"none", "read"}

(* Mutant: errors are counted under a read lock.                           *)
MayWriteReading(g) == \A h \in Goroutines \ {g} : mu[h] # "write"

MayWrite(g) == \A h \in Goroutines \ {g} : mu[h] \in {"none", "wait"}

Hold(g, how) == mu' = [mu EXCEPT ![g] = how]

Unlock(g) == Hold(g, "none")

(***************************************************************************)
(* A message under the read lock: it is posted, and the lock kept until it *)
(* has been, only if allowed.  Done is the step that comes after it.       *)
(***************************************************************************)
Post(g, allowed, Done) ==
    /\ \/ mu[g] = "none" /\ MayRead(g) /\ ~allowed /\ Done /\ UNCHANGED mu
       \/ mu[g] = "none" /\ MayRead(g) /\ allowed /\ Hold(g, "read") /\ UNCHANGED <<main, job>>
       \/ mu[g] = "read" /\ Unlock(g) /\ Done
    /\ UNCHANGED <<count, posted>>

Send(g, Done) == Post(g, count = 0 /\ ~args.quiet, Done)

SendImportant(g, Done) == Post(g, count = 0, Done)

SendHookResult(g, success, Done) == Post(g, count = 0 /\ ~(args.quiet /\ success), Done)

(* Mutant: the count stops at the limit of messages.                       *)
IncrementedToLimit == IF count < MaxNotifyErrors THEN count + 1 ELSE count

(* Mutant: the count is not capped.                                        *)
IncrementedAlways == count + 1

Incremented == IF count < MaxErrorCount THEN count + 1 ELSE count

(* SendError: errors are counted, and posted as long as they are few.      *)
SendError(g, Done) ==
    \/ /\ mu[g] = "none"
       /\ Hold(g, "wait")
       /\ UNCHANGED <<main, job, count, posted>>
    \/ /\ mu[g] = "wait" /\ MayWrite(g)
       /\ count' = Incremented
       /\ \/ count' <= MaxNotifyErrors /\ Hold(g, "write") /\ UNCHANGED <<main, job>>
          \/ count' > MaxNotifyErrors /\ Unlock(g) /\ Done
       /\ UNCHANGED posted
    \/ /\ mu[g] = "write"
       /\ posted' = posted + 1
       /\ Unlock(g)
       /\ Done
       /\ UNCHANGED count

ResetErrorCount(g, Done) ==
    \/ /\ mu[g] = "none"
       /\ Hold(g, "wait")
       /\ UNCHANGED <<main, job, count, posted>>
    \/ /\ mu[g] = "wait" /\ MayWrite(g)
       /\ count' = 0 /\ posted' = 0
       /\ Unlock(g)
       /\ Done

(* NewSlack needs a URL it can parse and a token, NewMail a sender and a   *)
(* recipient; a sender that cannot be set up is replaced by a silent one.  *)
NewSlack == IF args.notifier.valid THEN "slack" ELSE "null"
NewMail  == IF args.notifier.valid THEN "mail" ELSE "null"

(* New: an unknown kind of notifier leaves a nil pointer.                  *)
NewNotifier ==
    CASE args.notifier.kind = "slack" -> NewSlack
      [] args.notifier.kind = "mail"  -> NewMail
      [] args.notifier.kind = ""      -> "null"
      [] OTHER                        -> "nil"

(* Mutant: the thread is not looked up.                                    *)
OnDeployForgotten(r) == UNCHANGED thread

(* OnDeploy: a release without a thread of its own keeps the old one.      *)
OnDeploy(r) ==
    thread' = IF NewNotifier = "slack" /\ args.notifier.thread /\ r \in Threaded
              THEN r ELSE thread

-----------------------------------------------------------------------------
(* Starting: run of cli.go and Start of dewy.go *)

(* run: a wrong command line, or a cache that cannot be set up, ends the   *)
(* process.                                                                *)
Run ==
    /\ main = "cli"
    /\ LET conf == Configure(args.command, args.specs)
       IN  \/ Gone /\ UNCHANGED signals
           \/ /\ conf.ok
              /\ ports' = conf.ports
              /\ MainTo(IF args.telemetry THEN "telemetry" ELSE "start")
              /\ UNCHANGED <<args, refused, started, admin, found,
                             lockVars, sigVars, running, link, tickVars>>

(* telemetry.New: so does an exporter that cannot be.                      *)
NewTelemetry ==
    /\ main = "telemetry"
    /\ \/ Gone /\ UNCHANGED signals
       \/ MainTo("start") /\ UNCHANGED <<lockVars, otherVars>>

(* Start: a nil notifier is dereferenced at once, a nil registry by the    *)
(* first tick; the thread of the release that is live is taken up again.   *)
Start ==
    /\ main = "start"
    /\ \/ NewNotifier = "nil" /\ Gone /\ UNCHANGED signals
       \/ /\ NewNotifier # "nil"
          /\ OnDeploy(link)
          /\ MainTo("hello")
          /\ UNCHANGED <<args, portVars, lockVars, sigVars, running, link, release>>

AfterHello ==
    CASE args.command = "container"                     -> "proxy"
      [] args.command # "container" /\ args.telemetry   -> "admin"
      [] args.command # "container" /\ ~args.telemetry  -> "schedule"

Hello ==
    /\ main = "hello"
    /\ Send("main", MainTo(AfterHello))
    /\ UNCHANGED otherVars

ProxyPorts == {m.proxy : m \in started}

(* net.Listen: there are no ports beyond MaxPort.                          *)
CanListen(p) == p \in 1..MaxPort /\ p \notin refused \cup ProxyPorts

(* startProxy: one listener for each mapping, or none at all, whatever the *)
(* reason why one cannot be had.                                           *)
StartProxy ==
    /\ main = "proxy"
    /\ \E m \in ports \ started :
          \/ /\ ~CanListen(m.proxy)
             /\ started' = {}
             /\ MainTo("failed")
          \/ /\ CanListen(m.proxy)
             /\ started' = started \cup {m}
             /\ MainTo(IF started' = ports THEN "admin" ELSE "proxy")
    /\ UNCHANGED <<args, ports, refused, admin, found, lockVars, sigVars, running, link, tickVars>>

Lowest(S) == CHOOSE p \in S : \A q \in S : p <= q

AdminPorts == args.adminPort..(args.adminPort + MaxAttempts - 1)

(* startAdminAPI: the first of its ports it can listen on; what keeps it   *)
(* from the others does not matter.                                        *)
StartAdminAPI ==
    /\ main = "admin"
    /\ LET free == {p \in AdminPorts : CanListen(p)}
       IN  \/ free = {} /\ MainTo("failed") /\ UNCHANGED admin
           \/ free # {} /\ MainTo("schedule") /\ admin' = Lowest(free)
    /\ UNCHANGED <<args, ports, refused, started, found, lockVars, sigVars, running, link, tickVars>>

(* Start gives up, with a message.                                         *)
StartFails ==
    /\ main = "failed"
    /\ SendError("main", MainTo("return"))
    /\ UNCHANGED otherVars

(* The scheduler refuses an interval of 0, which is only logged.           *)
Schedule ==
    /\ main = "schedule"
    /\ main' = "notify"
    /\ job' = IF args.interval = 0 THEN "off" ELSE "idle"
    /\ UNCHANGED <<lockVars, otherVars>>

(* signal.Notify: from now on signals go to the channel.                   *)
NotifySignals ==
    /\ main = "notify"
    /\ MainTo("wait")
    /\ UNCHANGED <<lockVars, otherVars>>

-----------------------------------------------------------------------------
(* Signals: waitSigs *)

(* A signal to this process.  It is lost when the channel is full; before  *)
(* signal.Notify nobody but the starter of the server sees a SIGHUP.       *)
Deliver(s) == chan' = IF main \in Notified /\ chan = <<>> THEN <<s>> ELSE chan

(* The next signal is taken.  Without a job, telling it to quit panics.    *)
TakeSignal ==
    /\ main = "wait"
    /\ chan # <<>>
    /\ \/ /\ Head(chan) = "TERM" /\ args.interval = 0
          /\ Gone /\ UNCHANGED signals
       \/ /\ Head(chan) # "TERM" \/ args.interval # 0
          /\ chan' = <<>>
          /\ main' = CASE Head(chan) = "HUP"  -> "wait"
                       [] Head(chan) = "USR1" -> "usr1"
                       [] OTHER               -> "stop"
          /\ quit' = IF Head(chan) = "TERM" THEN "sent" ELSE quit
          /\ UNCHANGED <<args, portVars, job, lockVars, signals, running, link, tickVars>>

(* SIGUSR1: restartServer sends this very process a SIGHUP.                *)
SignalRestart ==
    /\ main = "usr1"
    /\ Deliver("HUP")
    /\ MainTo("restarted")
    /\ UNCHANGED <<args, portVars, lockVars, signals, quit, running, link, tickVars>>

TellRestarted ==
    /\ main = "restarted"
    /\ Send("main", MainTo("wait"))
    /\ UNCHANGED otherVars

(* stopProxy, after the managed containers have been stopped.              *)
StopProxy ==
    /\ main = "stop"
    /\ started' = {}
    /\ MainTo("close")
    /\ UNCHANGED <<args, ports, refused, admin, found, lockVars, sigVars, running, link, tickVars>>

(* stopAdminAPI, and the telemetry provider is flushed.                    *)
StopAdminAPI ==
    /\ main = "close"
    /\ admin' = 0
    /\ MainTo("bye")
    /\ UNCHANGED <<args, ports, refused, started, found, lockVars, sigVars, running, link, tickVars>>

(* Mutant: the loop over the signals goes on.                              *)
TellStoppedOnly ==
    /\ main = "bye"
    /\ Send("main", MainTo("wait"))
    /\ UNCHANGED otherVars

TellStopped ==
    /\ main = "bye"
    /\ Send("main", MainTo("exit"))
    /\ UNCHANGED otherVars

Return == main \in {"exit", "return"} /\ Gone /\ UNCHANGED signals

Main ==
    \/ Run \/ NewTelemetry \/ Start \/ Hello \/ StartProxy \/ StartAdminAPI \/ StartFails
    \/ Schedule \/ NotifySignals
    \/ TakeSignal \/ SignalRestart \/ TellRestarted \/ StopProxy \/ StopAdminAPI \/ TellStopped
    \/ Return

-----------------------------------------------------------------------------
(* The job: one tick, as far as its messages and its end go *)

(* A tick begins; without a registry it panics.  It fails, finds nothing   *)
(* to do, or has downloaded (or pulled) a release.                         *)
Tick ==
    /\ job = "idle" /\ quit # "taken"
    /\ \/ ~args.registry /\ Gone /\ UNCHANGED signals
       \/ /\ args.registry
          /\ \/ JobTo("error") /\ UNCHANGED release
             \/ JobTo("reset") /\ UNCHANGED release
             \/ JobTo("downloaded") /\ release' \in Releases
          /\ UNCHANGED <<args, portVars, lockVars, sigVars, running, link, thread>>

(* The scheduler's loop takes the quit message; a tick goes on.            *)
QuitJob ==
    /\ quit = "sent"
    /\ quit' = "taken"
    /\ UNCHANGED <<args, portVars, main, job, lockVars, chan, signals, running, link, tickVars>>

Downloaded ==
    /\ job = "downloaded"
    /\ Send("job", JobTo("before"))
    /\ UNCHANGED otherVars

(* execHook and the message about its result.  There is none without a     *)
(* command or without a shell; a hook that fails changes nothing else.     *)
execHook(Done) ==
    \/ mu["job"] = "none" /\ Done /\ UNCHANGED lockVars
    \/ args.hooks /\ \E success \in BOOLEAN : SendHookResult("job", success, Done)

BeforeHook ==
    /\ job = "before"
    /\ execHook(JobTo("deploy"))
    /\ UNCHANGED otherVars

(* deploy: extract, look up the thread, swap the symlink; the rolling      *)
(* deploy in container mode.  Any of it may fail.                          *)
Deploy ==
    /\ job = "deploy"
    /\ \/ JobTo("error") /\ UNCHANGED <<link, thread>>
       \/ args.command = "container" /\ JobTo("after") /\ UNCHANGED <<link, thread>>
       \/ /\ args.command # "container"
          /\ OnDeploy(release)
          /\ \/ JobTo("error") /\ UNCHANGED link
             \/ JobTo("after") /\ link' = release
    /\ UNCHANGED <<args, portVars, lockVars, sigVars, running, release>>

AfterHook ==
    /\ job = "after"
    /\ execHook(JobTo(CASE args.command = "server"    -> "server"
                        [] args.command = "assets"    -> "reset"
                        [] args.command = "container" -> "promoted"))
    /\ UNCHANGED otherVars

(* startOrRestartServer: the flag is read here ...                         *)
startOrRestartServer ==
    /\ job = "server"
    /\ JobTo(IF running THEN "restart" ELSE "launch")
    /\ UNCHANGED <<lockVars, otherVars>>

(* ... and used here: a SIGHUP to this very process, or a new starter.     *)
RestartServer ==
    /\ job = "restart"
    /\ Deliver("HUP")
    /\ JobTo("promoted")
    /\ UNCHANGED <<args, portVars, lockVars, signals, quit, running, link, tickVars>>

StartServer ==
    /\ job = "launch"
    /\ \/ running' = TRUE /\ JobTo("promoted")
       \/ UNCHANGED running /\ JobTo("error")
    /\ UNCHANGED <<args, portVars, lockVars, sigVars, link, tickVars>>

Promoted ==
    /\ job = "promoted"
    /\ SendImportant("job", JobTo("reset"))
    /\ UNCHANGED otherVars

TickFailed ==
    /\ job = "error"
    /\ SendError("job", JobTo("idle"))
    /\ release' = IF job' = "idle" THEN NoRelease ELSE release
    /\ UNCHANGED <<args, portVars, sigVars, running, link, thread>>

TickDone ==
    /\ job = "reset"
    /\ ResetErrorCount("job", JobTo("idle"))
    /\ release' = IF job' = "idle" THEN NoRelease ELSE release
    /\ UNCHANGED <<args, portVars, sigVars, running, link, thread>>

InTick ==
    \/ Downloaded \/ BeforeHook \/ Deploy \/ AfterHook \/ startOrRestartServer
    \/ RestartServer \/ StartServer \/ Promoted \/ TickFailed \/ TickDone

-----------------------------------------------------------------------------
(* Around the process *)

(* The goroutine that runs the starter: the server has failed.             *)
ServerFails ==
    /\ running /\ running' = FALSE
    /\ UNCHANGED <<args, portVars, main, job, lockVars, sigVars, link, tickVars>>

(* Other programs begin and cease to listen, or the system refuses a port  *)
(* for a reason of its own.                                                *)
OthersListen ==
    /\ main \in {"cli", "proxy", "admin"} \* bound: where it matters
    /\ refused' \in {u \in SUBSET Contested : u \cap (ProxyPorts \cup {admin}) = {}}
    /\ UNCHANGED <<args, ports, main, job, started, admin, found,
                   lockVars, sigVars, running, link, tickVars>>

(* A signal from outside; before signal.Notify it kills.                   *)
Signal(s) ==
    /\ main # "ended" /\ signals < MaxSignals
    /\ signals' = signals + 1
    /\ \/ /\ main \in Notified
          /\ Deliver(s)
          /\ UNCHANGED <<args, portVars, main, job, lockVars, quit, running, link, tickVars>>
       \/ /\ main \notin Notified
          /\ Gone

(* A supervisor calls dewy again, maybe with another command line.         *)
Restart ==
    /\ main = "ended"
    /\ main' = "cli"
    /\ args' \in Args
    /\ Forget
    /\ UNCHANGED signals

(* Mutant: the last of the ports is not tried.                             *)
ListPortsOpen == args.adminPort..(args.adminPort + MaxAttempts - 2)

ListPorts == args.adminPort..(args.adminPort + MaxAttempts - 1)

(* `dewy container list` takes the first port that answers: the admin API  *)
(* or whatever of the others speaks HTTP.  It is given the --admin-port of *)
(* this process.                                                           *)
ContainerList ==
    /\ main = "wait"  \* bound: the phase in which nothing else is on its way
    /\ \E http \in SUBSET (refused \cup ProxyPorts) :
          LET answers == ListPorts \cap (http \cup {admin})
          IN  found' = IF answers = {} THEN 0 ELSE Lowest(answers)
    /\ UNCHANGED <<args, ports, refused, started, admin, main, job,
                   lockVars, sigVars, running, link, tickVars>>

Next ==
    \/ Main \/ Tick \/ QuitJob \/ InTick
    \/ ServerFails \/ OthersListen \/ Restart \/ ContainerList
    \/ \E s \in {"USR1", "TERM"} : Signal(s)

Spec == Init /\ [][Next]_vars

(* Posts, hooks and deploys end; a reader that waits for the notifier's    *)
(* lock gets it when the writer gives it back (sync.RWMutex).              *)
FairSpec == Spec /\ SF_vars(Main) /\ WF_vars(InTick)

-----------------------------------------------------------------------------
(***************************************************************************)
(* SendError (notifier.go): of a run of failed ticks exactly the first     *)
(* MaxNotifyErrors are posted, whoever counts and resets meanwhile.        *)
(***************************************************************************)
ErrorsLimited ==
    IF \E g \in Goroutines : mu[g] = "write"
    THEN posted + 1 = count /\ count <= MaxNotifyErrors
    ELSE posted = IF count < MaxNotifyErrors THEN count ELSE MaxNotifyErrors

(***************************************************************************)
(* Send, SendImportant, SendHookResult (notifier.go): while ticks fail     *)
(* nothing but errors is posted, also when the other goroutine counts an   *)
(* error just as a message is on its way.                                  *)
(***************************************************************************)
SilentWhileFailing == (\E g \in Goroutines : mu[g] = "read") => count = 0

(***************************************************************************)
(* OnDeploy (slack.go): the first message after a restart goes to the      *)
(* thread of the release that is live, that of a promoted release to its   *)
(* own.                                                                    *)
(***************************************************************************)
MessagesInThread ==
    NewNotifier = "slack" /\ args.notifier.thread =>
        /\ main = "hello" => thread = IF link \in Threaded THEN link ELSE NoRelease
        /\ job = "promoted" /\ args.command = "server" /\ release \in Threaded
              => thread = release

Asked(spec) == UNION {IF part.range THEN part.lo..part.hi ELSE {part.lo} : part \in spec}

(***************************************************************************)
(* cli.go: a server that is started listens on the ports asked for and on  *)
(* no other, all of them ports, in whichever form they were written.       *)
(***************************************************************************)
ConfiguredAsAsked ==
    main \notin {"cli", "ended"} /\ args.command = "server" =>
        /\ {p.number : p \in ports} = UNION {Asked(args.specs[i]) : i \in DOMAIN args.specs}
        /\ \A p \in ports : p.number \in 1..MaxPort

(***************************************************************************)
(* startProxy (proxy.go), startAdminAPI (admin_api.go): Start gives up     *)
(* only if a proxy port of its own is refused, or every admin port there   *)
(* is one of its own or refused: its proxies are never in each other's     *)
(* way, and not in that of the admin API unless they leave it no port.     *)
(***************************************************************************)
StartFailsOnlyIfRefused ==
    [][main # "failed" /\ main' = "failed" =>
          LET own == {m.proxy : m \in ports}
          IN  \/ main = "proxy" /\ own \cap refused # {}
              \/ main = "admin" /\ AdminPorts \cap 1..MaxPort \subseteq own \cup refused]_vars

(***************************************************************************)
(* runContainerList (cli.go): wherever the admin API ended up, the command *)
(* gets an answer, and never goes past it.                                 *)
(***************************************************************************)
ListFindsInstance == [][ContainerList /\ admin # 0 => found' \in 1..admin]_vars

(***************************************************************************)
(* waitSigs (dewy.go): a SIGTERM that got a place in the channel ends the  *)
(* process, whatever the job does and whoever holds the notifier's lock.   *)
(***************************************************************************)
TermStops == (chan = <<"TERM">>) ~> (main = "ended")
=============================================================================
