--------------------------- MODULE ProcessProofs ---------------------------
(***************************************************************************)
(* What Process promises for every set of command lines, ports, releases   *)
(* and every limit: errors are counted and posted as SendError says, no    *)
(* other message is posted while ticks fail, and Start gives up only when  *)
(* ports are refused to it that are not its own already.                   *)
(***************************************************************************)
EXTENDS Process, WellFoundedInduction, TLAPS

(* Whoever posts an error has the lock for himself, and nobody else reads. *)
Exclusive ==
    \A g, h \in Goroutines :
        g # h /\ mu[g] = "write" => mu[h] \in {"none", "wait"}

(* What the notifier's lock protects.                                      *)
NotifierInv ==
    /\ mu \in [Goroutines -> {"none", "read", "wait", "write"}]
    /\ count \in 0..MaxErrorCount
    /\ posted \in 0..MaxNotifyErrors
    /\ Exclusive
    /\ SilentWhileFailing
    /\ ErrorsLimited

(* What the operations of the notifier do to its lock and its counters,    *)
(* apart from the step of the caller that follows.                         *)
ReadStep(g) ==
    /\ UNCHANGED <<count, posted>>
    /\ \/ UNCHANGED mu
       \/ mu[g] = "none" /\ MayRead(g) /\ count = 0 /\ Hold(g, "read")
       \/ mu[g] = "read" /\ Unlock(g)

WaitStep(g) == mu[g] = "none" /\ Hold(g, "wait") /\ UNCHANGED <<count, posted>>

CountStep(g) ==
    /\ mu[g] = "wait" /\ MayWrite(g)
    /\ count' = Incremented
    /\ \/ count' <= MaxNotifyErrors /\ Hold(g, "write")
       \/ count' > MaxNotifyErrors /\ Unlock(g)
    /\ UNCHANGED posted

PostedStep(g) == mu[g] = "write" /\ posted' = posted + 1 /\ Unlock(g) /\ UNCHANGED count

ResetStep(g) == mu[g] = "wait" /\ MayWrite(g) /\ count' = 0 /\ posted' = 0 /\ Unlock(g)

LockStep(g) == ReadStep(g) \/ WaitStep(g) \/ CountStep(g) \/ PostedStep(g) \/ ResetStep(g)

-----------------------------------------------------------------------------
(* Every such step keeps the invariant, whoever takes it.                  *)

(* The lock is a function of two goroutines: only g's entry changes.       *)
LEMMA HoldOnly ==
    ASSUME mu \in [Goroutines -> {"none", "read", "wait", "write"}],
           NEW g \in Goroutines, NEW how \in {"none", "read", "wait", "write"},
           Hold(g, how)
    PROVE  /\ mu' \in [Goroutines -> {"none", "read", "wait", "write"}]
           /\ mu'[g] = how
           /\ \A h \in Goroutines : h # g => mu'[h] = mu[h]
BY DEF Hold, Goroutines

(* The counters agree as long as nobody posts an error.                    *)
LEMMA LockStepSafe ==
    ASSUME NotifierInv, NEW g \in Goroutines, LockStep(g)
    PROVE  NotifierInv'
<1> USE ProcessAssumption
<1> USE DEF NotifierInv
<1>1. CASE ReadStep(g)
  <2>1. CASE UNCHANGED mu
    BY <1>1, <2>1 DEF ReadStep, Exclusive, SilentWhileFailing, ErrorsLimited
  <2>2. CASE mu[g] = "none" /\ MayRead(g) /\ count = 0 /\ Hold(g, "read")
    BY <1>1, <2>2, HoldOnly DEF ReadStep, Exclusive, SilentWhileFailing, ErrorsLimited, MayRead
  <2>3. CASE mu[g] = "read" /\ Unlock(g)
    BY <1>1, <2>3, HoldOnly DEF ReadStep, Exclusive, SilentWhileFailing, ErrorsLimited, Unlock
  <2> QED
    BY <1>1, <2>1, <2>2, <2>3 DEF ReadStep
<1>2. CASE WaitStep(g)
  BY <1>2, HoldOnly DEF WaitStep, Exclusive, SilentWhileFailing, ErrorsLimited
<1>3. CASE CountStep(g)
  <2>1. CASE count' <= MaxNotifyErrors /\ Hold(g, "write")
    BY <1>3, <2>1, HoldOnly
    DEF CountStep, Exclusive, SilentWhileFailing, ErrorsLimited, MayWrite, Incremented
  <2>2. CASE count' > MaxNotifyErrors /\ Unlock(g)
    BY <1>3, <2>2, HoldOnly
    DEF CountStep, Exclusive, SilentWhileFailing, ErrorsLimited, MayWrite, Incremented, Unlock
  <2> QED
    BY <1>3, <2>1, <2>2 DEF CountStep
<1>4. CASE PostedStep(g)
  <2>1. /\ mu' \in [Goroutines -> {"none", "read", "wait", "write"}]
        /\ mu'[g] = "none"
        /\ \A h \in Goroutines : h # g => mu'[h] = mu[h] /\ mu'[h] \in {"none", "wait"}
    BY <1>4, HoldOnly DEF PostedStep, Exclusive, Unlock
  <2>2. posted' = count /\ count <= MaxNotifyErrors /\ count' = count
    BY <1>4 DEF PostedStep, ErrorsLimited
  <2>3. \A h \in Goroutines : mu'[h] \in {"none", "wait"}
    BY <2>1
  <2>4. Exclusive' /\ SilentWhileFailing'
    BY <2>3 DEF Exclusive, SilentWhileFailing
  <2>5. posted' = IF count' < MaxNotifyErrors THEN count' ELSE MaxNotifyErrors
    BY <2>2
  <2> QED
    BY <2>1, <2>2, <2>3, <2>4, <2>5 DEF ErrorsLimited
<1>5. CASE ResetStep(g)
  BY <1>5, HoldOnly DEF ResetStep, Exclusive, SilentWhileFailing, ErrorsLimited, Unlock, MayWrite
<1> QED
  BY <1>1, <1>2, <1>3, <1>4, <1>5 DEF LockStep

(* A process that is gone, or just called, has counted nothing.            *)
LEMMA ForgetSafe ==
    ASSUME Forget
    PROVE  NotifierInv'
BY ProcessAssumption
DEF Forget, NotifierInv, Exclusive, SilentWhileFailing, ErrorsLimited, Goroutines

(* Every step of the process is one of these.                              *)
LEMMA NextLocks ==
    ASSUME [Next]_vars
    PROVE  LockStep("main") \/ LockStep("job") \/ Forget
<1> USE DEF LockStep
<1>1. CASE UNCHANGED lockVars
  BY <1>1 DEF lockVars, ReadStep
<1>2. CASE Hello \/ TellRestarted \/ TellStopped
  <2>1. ReadStep("main")
    BY <1>2 DEF Hello, TellRestarted, TellStopped, Send, Post, ReadStep
  <2> QED
    BY <2>1
<1>3. CASE StartFails
  <2>1. WaitStep("main") \/ CountStep("main") \/ PostedStep("main")
    BY <1>3 DEF StartFails, SendError, WaitStep, CountStep, PostedStep
  <2> QED
    BY <2>1
<1>4. CASE Downloaded \/ BeforeHook \/ AfterHook \/ Promoted
  <2>1. ReadStep("job")
    BY <1>4 DEF Downloaded, BeforeHook, AfterHook, Promoted, execHook, Send, SendImportant,
                SendHookResult, Post, ReadStep, lockVars
  <2> QED
    BY <2>1
<1>5. CASE TickFailed
  <2>1. WaitStep("job") \/ CountStep("job") \/ PostedStep("job")
    BY <1>5 DEF TickFailed, SendError, WaitStep, CountStep, PostedStep
  <2> QED
    BY <2>1
<1>6. CASE TickDone
  <2>1. WaitStep("job") \/ ResetStep("job")
    BY <1>6 DEF TickDone, ResetErrorCount, WaitStep, ResetStep
  <2> QED
    BY <2>1
<1>7. CASE Run \/ NewTelemetry \/ Start \/ TakeSignal \/ Return \/ Tick \/ Restart
  BY <1>1, <1>7 DEF Run, NewTelemetry, Start, TakeSignal, Return, Tick, Restart, Gone
<1>8. CASE StartProxy \/ StartAdminAPI \/ Schedule \/ NotifySignals \/ SignalRestart
           \/ StopProxy \/ StopAdminAPI
  BY <1>1, <1>8 DEF StartProxy, StartAdminAPI, Schedule, NotifySignals, SignalRestart,
                    StopProxy, StopAdminAPI
<1>9. CASE Deploy \/ startOrRestartServer \/ RestartServer \/ StartServer \/ QuitJob
           \/ ServerFails \/ OthersListen \/ ContainerList
  BY <1>1, <1>9 DEF Deploy, startOrRestartServer, RestartServer, StartServer, QuitJob,
                    ServerFails, OthersListen, ContainerList
<1>10. ASSUME NEW s \in {"USR1", "TERM"}, Signal(s)
       PROVE  UNCHANGED lockVars \/ Forget
  BY <1>10 DEF Signal, Gone
<1>11. CASE UNCHANGED vars
  BY <1>1, <1>11 DEF vars
<1> QED
  BY <1>1, <1>2, <1>3, <1>4, <1>5, <1>6, <1>7, <1>8, <1>9, <1>10, <1>11 DEF Next, Main, InTick

(* What the lock protects is safe in every behaviour.                      *)
LEMMA NotifierSafe == Spec => []NotifierInv
<1>1. Init => NotifierInv
  BY ProcessAssumption
  DEF Init, NotifierInv, Exclusive, SilentWhileFailing, ErrorsLimited, Goroutines
<1>2. NotifierInv /\ [Next]_vars => NotifierInv'
  BY NextLocks, LockStepSafe, ForgetSafe DEF Goroutines
<1> QED
  BY <1>1, <1>2, PTL DEF Spec
-----------------------------------------------------------------------------
(* Ports *)

(* A set of natural numbers that is not empty has a least element.         *)
LEMMA LeastPort ==
    ASSUME NEW S \in SUBSET Nat, S # {}
    PROVE  Lowest(S) \in S /\ \A q \in S : Lowest(S) <= q
<1> DEFINE R == OpToRel(<, Nat)
<1>1. PICK p \in S : \A q \in S : ~ (<<q, p>> \in R)
  <2>1. IsWellFoundedOn(R, Nat)
    BY NatLessThanWellFounded, Zenon
  <2> HIDE DEF R
  <2> QED
    BY <2>1, WFMin, Zenon
<1>2. \A q \in S : ~ (q < p)
  BY <1>1 DEF OpToRel
<1>3. \E x \in S : \A q \in S : x <= q
  BY <1>2
<1> QED
  BY <1>3 DEF Lowest

(* What a container command is configured with.                            *)
Mapped(ms) ==
    /\ \A m \in ms : m.proxy \in 1..MaxPort
    /\ \A m, n \in ms : m.proxy = n.proxy => m = n

(* A container command that is accepted maps ports, none of them twice.    *)
LEMMA MappingsDistinct ==
    ASSUME NEW specs, configureContainerCommand(specs).ok
    PROVE  Mapped(configureContainerCommand(specs).ports)
<1>1. /\ \A i \in DOMAIN specs : specs[i].proxy \in 1..MaxPort
      /\ \A i, j \in DOMAIN specs : specs[i].proxy = specs[j].proxy => i = j
  BY DEF configureContainerCommand, parsePortMappings, ValidMapping, validatePortNumber
<1>2. configureContainerCommand(specs).ports
         = {[proxy |-> specs[i].proxy, container |-> specs[i].container] : i \in DOMAIN specs}
  BY DEF configureContainerCommand, parsePortMappings, Mappings
<1> QED
  BY <1>1, <1>2 DEF Mapped

(* Listeners are configured ones, each port has one, and the admin API is  *)
(* where `dewy container list` looks for it.                               *)
PortInv ==
    /\ args \in Args
    /\ started \subseteq ports
    /\ main = "cli" => started = {}
    /\ main = "proxy" => Mapped(ports)
    /\ main \in {"telemetry", "start", "hello"} /\ args.command = "container" => Mapped(ports)
    /\ admin # 0 => admin \in AdminPorts

(* Another command line takes another process.                             *)
LEMMA ArgsKept ==
    ASSUME [Next]_vars
    PROVE  UNCHANGED args \/ Restart
<1>1. CASE Run \/ NewTelemetry \/ Start \/ Return \/ TakeSignal
  BY <1>1 DEF Run, NewTelemetry, Start, Return, TakeSignal, Gone, otherVars
<1>2. CASE StartProxy \/ StartAdminAPI \/ StopProxy \/ StopAdminAPI \/ SignalRestart
  BY <1>2 DEF StartProxy, StartAdminAPI, StopProxy, StopAdminAPI, SignalRestart
<1>3. CASE Hello \/ TellRestarted \/ TellStopped \/ StartFails \/ Schedule \/ NotifySignals
  BY <1>3 DEF Hello, TellRestarted, TellStopped, StartFails, Schedule, NotifySignals, otherVars
<1>4. CASE Tick \/ Downloaded \/ BeforeHook \/ AfterHook \/ Promoted
  BY <1>4 DEF Tick, Gone, Downloaded, BeforeHook, AfterHook, Promoted, otherVars
<1>5. CASE Deploy \/ startOrRestartServer \/ RestartServer \/ StartServer \/ TickFailed \/ TickDone
  BY <1>5 DEF Deploy, startOrRestartServer, RestartServer, StartServer, TickFailed, TickDone,
              otherVars
<1>6. CASE QuitJob \/ ServerFails \/ OthersListen \/ ContainerList
  BY <1>6 DEF QuitJob, ServerFails, OthersListen, ContainerList
<1>7. ASSUME NEW s \in {"USR1", "TERM"}, Signal(s)
      PROVE  UNCHANGED args
  BY <1>7 DEF Signal, Gone
<1>8. CASE UNCHANGED vars
  BY <1>8 DEF vars, otherVars
<1> QED
  BY <1>1, <1>2, <1>3, <1>4, <1>5, <1>6, <1>7, <1>8 DEF Next, Main, InTick

(* Only Run sets the ports, and only StartAdminAPI the admin port.         *)
LEMMA PortInvSafe ==
    ASSUME PortInv, [Next]_vars
    PROVE  PortInv'
<1> USE DEF PortInv, AdminPorts
<1>1. CASE Forget
  BY <1>1, ArgsKept DEF Forget, Restart, Mapped
<1>2. CASE Run /\ ~Forget
  <2> DEFINE conf == Configure(args.command, args.specs)
  <2>1. /\ conf.ok /\ ports' = conf.ports /\ main' \in {"telemetry", "start"}
        /\ UNCHANGED <<args, started, admin>>
    BY <1>2 DEF Run, Gone, MainTo
  <2>2. args.command = "container" => conf = configureContainerCommand(args.specs)
    BY DEF Configure
  <2>3. args.command = "container" => Mapped(ports')
    BY <2>1, <2>2, MappingsDistinct
  <2>4. started = {}
    BY <1>2 DEF Run
  <2> QED
    BY <2>1, <2>3, <2>4
<1>3. CASE (NewTelemetry \/ Start) /\ ~Forget
  BY <1>3 DEF NewTelemetry, Start, Gone, MainTo, otherVars, portVars
<1>4. CASE Hello
  BY <1>4 DEF Hello, Send, Post, MainTo, AfterHello, otherVars, portVars
<1>5. CASE StartProxy
  BY <1>5 DEF StartProxy, MainTo
<1>6. CASE StartAdminAPI
  <2> DEFINE free == {p \in AdminPorts : CanListen(p)}
  <2>1. free \in SUBSET Nat
    BY ProcessAssumption DEF AdminPorts
  <2>2. free # {} => Lowest(free) \in AdminPorts
    BY <2>1, LeastPort
  <2> QED
    BY <1>6, <2>2 DEF StartAdminAPI, MainTo
<1>7. CASE StartFails \/ Schedule \/ NotifySignals \/ TellRestarted \/ TellStopped
  BY <1>7 DEF StartFails, Schedule, NotifySignals, TellRestarted, TellStopped, Send, Post,
              SendError, MainTo, otherVars, portVars
<1>8. CASE (TakeSignal \/ SignalRestart \/ StopProxy \/ StopAdminAPI \/ Return) /\ ~Forget
  <2>1. CASE TakeSignal
    <3>1. main' \in {"wait", "usr1", "stop"}
      BY <1>8, <2>1 DEF TakeSignal, Gone
    <3> QED
      BY <1>8, <2>1, <3>1 DEF TakeSignal, Gone, portVars
  <2>2. CASE SignalRestart \/ StopProxy \/ StopAdminAPI \/ Return
    BY <1>8, <2>2 DEF SignalRestart, StopProxy, StopAdminAPI, Return, Gone, MainTo, portVars
  <2> QED
    BY <1>8, <2>1, <2>2
<1>9. CASE (Tick \/ Downloaded \/ BeforeHook \/ AfterHook \/ Promoted) /\ ~Forget
  BY <1>9 DEF Tick, Gone, Downloaded, BeforeHook, AfterHook, Promoted, execHook, Send,
              SendImportant, SendHookResult, Post, JobTo, otherVars, portVars
<1>10. CASE Deploy \/ startOrRestartServer \/ RestartServer \/ StartServer \/ TickFailed \/ TickDone
  BY <1>10 DEF Deploy, startOrRestartServer, RestartServer, StartServer, TickFailed, TickDone,
               SendError, ResetErrorCount, JobTo, otherVars, portVars
<1>11. CASE QuitJob \/ ServerFails \/ OthersListen \/ ContainerList
  BY <1>11 DEF QuitJob, ServerFails, OthersListen, ContainerList, portVars
<1>12. CASE Restart
  BY <1>1, <1>12 DEF Restart
<1>13. ASSUME NEW s \in {"USR1", "TERM"}, Signal(s), ~Forget
       PROVE  PortInv'
  BY <1>13 DEF Signal, Gone, portVars
<1>14. CASE UNCHANGED vars
  BY <1>14 DEF vars, otherVars, portVars
<1> QED
  BY <1>1, <1>2, <1>3, <1>4, <1>5, <1>6, <1>7, <1>8, <1>9, <1>10, <1>11, <1>12, <1>13, <1>14
  DEF Next, Main, InTick

(* The ports are safe in every behaviour.                                  *)
LEMMA PortsSafe == Spec => []PortInv
<1>1. Init => PortInv
  BY DEF Init, PortInv
<1>2. PortInv /\ [Next]_vars => PortInv'
  BY PortInvSafe
<1> QED
  BY <1>1, <1>2, PTL DEF Spec

(***************************************************************************)
(* Start (dewy.go, proxy.go, admin_api.go), whatever the command line and  *)
(* the ports refused to it meanwhile: its proxies are never in each        *)
(* other's way, and it gives up on the admin API only when none of the     *)
(* ports to try is left.                                                   *)
(***************************************************************************)
THEOREM StartsUnlessRefused == Spec => StartFailsOnlyIfRefused
<1> DEFINE own == {m.proxy : m \in ports}
           Refused == \/ main = "proxy" /\ own \cap refused # {}
                      \/ main = "admin" /\ AdminPorts \cap 1..MaxPort \subseteq own \cup refused
<1>1. ASSUME PortInv, StartProxy, main' = "failed"
      PROVE  Refused
  <2>1. PICK m \in ports \ started :
           \/ ~CanListen(m.proxy)
           \/ CanListen(m.proxy) /\ main' \in {"admin", "proxy"}
    BY <1>1 DEF StartProxy, MainTo
  <2>2. main = "proxy" /\ Mapped(ports) /\ started \subseteq ports
    BY <1>1 DEF PortInv, StartProxy
  <2>3. m.proxy \notin ProxyPorts /\ m.proxy \in 1..MaxPort
    BY <2>2 DEF Mapped, ProxyPorts
  <2>4. m.proxy \in refused
    BY <1>1, <2>1, <2>3 DEF CanListen
  <2> QED
    BY <2>2, <2>4
<1>2. ASSUME PortInv, StartAdminAPI, main' = "failed"
      PROVE  Refused
  <2>1. \A p \in AdminPorts : ~CanListen(p)
    BY <1>2 DEF StartAdminAPI, MainTo
  <2>2. ProxyPorts \subseteq own
    BY <1>2 DEF PortInv, ProxyPorts
  <2>3. main = "admin"
    BY <1>2 DEF StartAdminAPI
  <2>4. AdminPorts \cap 1..MaxPort \subseteq own \cup refused
    BY <2>1, <2>2 DEF CanListen
  <2> QED
    BY <2>3, <2>4
<1>3. ASSUME [Next]_vars, main # "failed", main' = "failed"
      PROVE  StartProxy \/ StartAdminAPI
  <2> USE <1>3
  <2>2. CASE Run \/ NewTelemetry \/ Start \/ Schedule \/ NotifySignals \/ SignalRestart \/ StopProxy
             \/ StopAdminAPI \/ Return \/ TakeSignal
    BY <2>2 DEF Run, NewTelemetry, Start, Schedule, NotifySignals, SignalRestart, StopProxy,
                StopAdminAPI, Return, TakeSignal, Gone, MainTo
  <2>3. CASE Hello \/ StartFails \/ TellRestarted \/ TellStopped
    BY <2>3 DEF Hello, StartFails, TellRestarted, TellStopped, Send, Post, SendError, MainTo,
                AfterHello
  <2>4. CASE Tick \/ Downloaded \/ BeforeHook \/ AfterHook \/ Promoted
    BY <2>4 DEF Tick, Gone, Downloaded, BeforeHook, AfterHook, Promoted, execHook, Send,
                SendImportant, SendHookResult, Post, JobTo
  <2>5. CASE Deploy \/ startOrRestartServer \/ RestartServer \/ StartServer \/ TickFailed
             \/ TickDone
    BY <2>5 DEF Deploy, startOrRestartServer, RestartServer, StartServer, TickFailed, TickDone,
                SendError, ResetErrorCount, JobTo
  <2>6. CASE QuitJob \/ ServerFails \/ OthersListen \/ ContainerList \/ Restart
    BY <2>6 DEF QuitJob, ServerFails, OthersListen, ContainerList, Restart
  <2>7. ASSUME NEW s \in {"USR1", "TERM"}, Signal(s)
        PROVE  FALSE
    BY <2>7 DEF Signal, Gone
  <2>8. CASE UNCHANGED vars
    BY <2>8 DEF vars
  <2> QED
    BY <2>2, <2>3, <2>4, <2>5, <2>6, <2>7, <2>8 DEF Next, Main, InTick
<1>4. PortInv /\ [Next]_vars
        => [main # "failed" /\ main' = "failed" => Refused]_vars
  BY <1>1, <1>2, <1>3
<1> QED
  BY <1>4, PortsSafe, PTL DEF Spec, StartFailsOnlyIfRefused

(***************************************************************************)
(* `dewy container list` (cli.go) finds the admin API of a process that    *)
(* has one, whichever of its ports it had to take.                         *)
(***************************************************************************)
THEOREM ListFinds == Spec => ListFindsInstance
<1>1. ASSUME PortInv, ContainerList, admin # 0
      PROVE  found' \in 1..admin
  <2>1. PICK http \in SUBSET (refused \cup ProxyPorts) :
           LET answers == ListPorts \cap (http \cup {admin})
           IN  found' = IF answers = {} THEN 0 ELSE Lowest(answers)
    BY <1>1 DEF ContainerList
  <2> DEFINE answers == ListPorts \cap (http \cup {admin})
  <2>2. answers \in SUBSET Nat /\ \A p \in answers : p # 0
    <3>1. args.adminPort \in Nat \ {0}
      BY <1>1, ProcessAssumption DEF PortInv
    <3> QED
      BY <3>1, ProcessAssumption DEF ListPorts
  <2>3. admin \in answers
    BY <1>1 DEF PortInv, ListPorts, AdminPorts
  <2>4. Lowest(answers) \in answers /\ Lowest(answers) <= admin
    BY <2>2, <2>3, LeastPort
  <2> HIDE DEF answers
  <2>5. found' = Lowest(answers)
    BY <2>1, <2>3 DEF answers
  <2>6. found' \in Nat /\ found' # 0 /\ found' <= admin /\ admin \in Nat
    BY <2>2, <2>3, <2>4, <2>5
  <2> QED
    BY <2>6
<1>2. PortInv => [ContainerList /\ admin # 0 => found' \in 1..admin]_vars
  BY <1>1
<1> QED
  BY <1>2, PortsSafe, PTL DEF ListFindsInstance
-----------------------------------------------------------------------------
(* Types *)

Phases == {"cli", "telemetry", "start", "hello", "proxy", "admin", "schedule", "notify",
           "failed", "return", "ended"} \cup Notified

JobPhases == {"off", "idle", "downloaded", "before", "deploy", "after", "server", "restart",
              "launch", "promoted", "error", "reset"}

(* The part of the type invariant that neither lock nor ports guard.       *)
RestOK ==
    /\ args \in Args
    /\ main \in Phases
    /\ job \in JobPhases
    /\ chan = <<>> \/ \E s \in {"HUP", "USR1", "TERM"} : chan = <<s>>
    /\ signals \in 0..MaxSignals
    /\ quit \in {"empty", "sent", "taken"}
    /\ running \in BOOLEAN
    /\ refused \subseteq Contested
    /\ found \in Nat
    /\ {release, link, thread} \subseteq Releases \cup {NoRelease}

(* A process that is gone keeps what lies outside of its memory.           *)
LEMMA ForgetOK ==
    ASSUME RestOK, Forget, args' \in Args, main' \in {"cli", "ended"}, signals' \in 0..MaxSignals
    PROVE  RestOK'
BY DEF RestOK, Forget, Phases, JobPhases

(* A signal finds room or is lost.                                         *)
LEMMA DeliverOK ==
    ASSUME RestOK, NEW s \in {"HUP", "USR1", "TERM"}, Deliver(s)
    PROVE  chan' = <<>> \/ \E t \in {"HUP", "USR1", "TERM"} : chan' = <<t>>
BY DEF RestOK, Deliver

(* Every action keeps the rest of the types.                               *)
LEMMA RestOKSafe ==
    ASSUME RestOK, PortInv, [Next]_vars
    PROVE  RestOK'
<1> USE DEF Phases, JobPhases, Notified
<1>1. CASE Run \/ NewTelemetry \/ Start \/ Return
  <2>1. CASE Run \/ NewTelemetry
    BY <1>1, <2>1, ForgetOK DEF RestOK, Run, NewTelemetry, Gone, MainTo, otherVars, portVars,
                                sigVars, tickVars
  <2>2. CASE Start \/ Return
    BY <1>1, <2>2, ForgetOK DEF RestOK, Start, Return, Gone, OnDeploy, MainTo, portVars, sigVars
  <2> QED
    BY <1>1, <2>1, <2>2
<1>2. CASE Hello \/ TellRestarted \/ TellStopped
  BY <1>2 DEF RestOK, Hello, TellRestarted, TellStopped, Send, Post, MainTo, AfterHello,
              otherVars, portVars, sigVars, tickVars
<1>3. CASE StartProxy \/ StartAdminAPI \/ StopProxy \/ StopAdminAPI
  BY <1>3 DEF RestOK, StartProxy, StartAdminAPI, StopProxy, StopAdminAPI, MainTo, sigVars,
              tickVars
<1>4. CASE StartFails \/ Schedule \/ NotifySignals
  BY <1>4 DEF RestOK, StartFails, Schedule, NotifySignals, SendError, MainTo, otherVars,
              portVars, sigVars, tickVars
<1>5. CASE TakeSignal
  BY <1>5, ForgetOK DEF RestOK, TakeSignal, Gone, portVars, tickVars
<1>6. CASE SignalRestart
  BY <1>6, DeliverOK DEF RestOK, SignalRestart, MainTo, portVars, tickVars
<1>7. CASE Tick
  BY <1>7, ForgetOK DEF RestOK, Tick, Gone, JobTo, portVars, sigVars
<1>8. CASE Downloaded \/ BeforeHook \/ Promoted
  BY <1>8 DEF RestOK, Downloaded, BeforeHook, Promoted, execHook, Send, SendImportant,
              SendHookResult, Post, JobTo, otherVars, portVars, sigVars, tickVars
<1>9. CASE AfterHook
  <2>1. args.command \in {"server", "assets", "container"}
    BY ProcessAssumption DEF RestOK
  <2> QED
    BY <1>9, <2>1 DEF RestOK, AfterHook, execHook, SendHookResult, Post, JobTo, otherVars,
                      portVars, sigVars, tickVars
<1>10. CASE Deploy
  BY <1>10 DEF RestOK, Deploy, OnDeploy, JobTo, portVars, sigVars
<1>11. CASE startOrRestartServer \/ StartServer
  BY <1>11 DEF RestOK, startOrRestartServer, StartServer, JobTo, otherVars, portVars, sigVars,
               tickVars
<1>12. CASE RestartServer
  BY <1>12, DeliverOK DEF RestOK, RestartServer, JobTo, portVars, tickVars
<1>13. CASE TickFailed \/ TickDone
  BY <1>13 DEF RestOK, TickFailed, TickDone, SendError, ResetErrorCount, JobTo, portVars, sigVars
<1>14. CASE QuitJob \/ ServerFails \/ OthersListen
  BY <1>14 DEF RestOK, QuitJob, ServerFails, OthersListen, portVars, sigVars, tickVars
<1>15. CASE Restart
  BY <1>15, ForgetOK DEF RestOK, Restart
<1>16. CASE ContainerList
  <2>1. PICK http \in SUBSET (refused \cup ProxyPorts) :
           LET answers == ListPorts \cap (http \cup {admin})
           IN  found' = IF answers = {} THEN 0 ELSE Lowest(answers)
    BY <1>16 DEF ContainerList
  <2> DEFINE answers == ListPorts \cap (http \cup {admin})
  <2>2. answers \in SUBSET Nat
    <3>1. args.adminPort \in Nat \ {0}
      BY ProcessAssumption DEF RestOK
    <3> QED
      BY <3>1, ProcessAssumption DEF ListPorts
  <2>3. answers # {} => Lowest(answers) \in Nat
    BY <2>2, LeastPort
  <2>4. found' \in Nat
    BY <2>1, <2>3
  <2> QED
    BY <1>16, <2>4 DEF RestOK, ContainerList, sigVars, tickVars
<1>17. ASSUME NEW s \in {"USR1", "TERM"}, Signal(s)
       PROVE  RestOK'
  <2>1. signals' \in 0..MaxSignals
    BY <1>17, ProcessAssumption DEF RestOK, Signal
  <2> QED
    BY <1>17, <2>1, ForgetOK, DeliverOK DEF RestOK, Signal, Gone, portVars, tickVars
<1>18. CASE UNCHANGED vars
  BY <1>18 DEF RestOK, vars, otherVars, portVars, sigVars, tickVars
<1> QED
  BY <1>1, <1>2, <1>3, <1>4, <1>5, <1>6, <1>7, <1>8, <1>9, <1>10, <1>11, <1>12, <1>13, <1>14,
     <1>15, <1>16, <1>17, <1>18
  DEF Next, Main, InTick

(***************************************************************************)
(* Every variable keeps its type: the caps of SendError (notifier.go) hold *)
(* and the signal channel of waitSigs (dewy.go) has one place.             *)
(***************************************************************************)
THEOREM TypeCorrect == Spec => []TypeOK
<1>1. Init => RestOK
  <2> SUFFICES ASSUME Init
               PROVE  RestOK
    OBVIOUS
  <2>1. args \in Args /\ main \in Phases /\ job \in JobPhases /\ chan = <<>>
    BY DEF Init, Phases, JobPhases
  <2>2. signals \in 0..MaxSignals /\ found \in Nat
    BY ProcessAssumption DEF Init
  <2>3. quit = "empty" /\ running = FALSE /\ refused = {}
    BY DEF Init
  <2>4. {release, link, thread} \subseteq Releases \cup {NoRelease}
    BY DEF Init
  <2> QED
    BY <2>1, <2>2, <2>3, <2>4 DEF RestOK
<1>2. RestOK /\ PortInv /\ [Next]_vars => RestOK'
  BY RestOKSafe
<1>3. RestOK /\ PortInv /\ NotifierInv => TypeOK
  BY ProcessAssumption DEF RestOK, PortInv, NotifierInv, TypeOK, AdminPorts, Phases, JobPhases
<1> QED
  BY <1>1, <1>2, <1>3, PortsSafe, NotifierSafe, PTL DEF Spec

(***************************************************************************)
(* SendError (notifier.go): of the errors counted since the last success   *)
(* exactly the first MaxNotifyErrors have been posted.                     *)
(***************************************************************************)
THEOREM ErrorsAreLimited == Spec => []ErrorsLimited
<1>1. NotifierInv => ErrorsLimited
  BY DEF NotifierInv
<1> QED
  BY <1>1, NotifierSafe, PTL

(***************************************************************************)
(* Send, SendImportant, SendHookResult (notifier.go): no message but an    *)
(* error is being posted while errorCount is not 0.                        *)
(***************************************************************************)
THEOREM SilentUnderErrors == Spec => []SilentWhileFailing
<1>1. NotifierInv => SilentWhileFailing
  BY DEF NotifierInv
<1> QED
  BY <1>1, NotifierSafe, PTL

-----------------------------------------------------------------------------
(* The command line *)

(* What one part of an option stands for, and its texts.                   *)
AskedPart(part) == IF part.range THEN part.lo..part.hi ELSE {part.lo}
Texts(part) == IF part.range THEN parsePortRange(part)
               ELSE {[number |-> part.lo, zeros |-> part.zeros]}

LEMMA PartAsAsked ==
    ASSUME NEW part, IF part.range THEN ValidRange(part) ELSE validatePort(part)
    PROVE  /\ \A t \in Texts(part) : t.number \in AskedPart(part)
           /\ \A n \in AskedPart(part) : \E t \in Texts(part) : n = t.number
           /\ \A n \in AskedPart(part) : n \in 1..MaxPort
<1>1. CASE part.range
  <2>1. Texts(part) = {[number |-> i, zeros |-> 0] : i \in part.lo..part.hi}
    BY <1>1 DEF Texts, parsePortRange
  <2>2. AskedPart(part) = part.lo..part.hi
    BY <1>1 DEF AskedPart
  <2>3. \A i \in part.lo..part.hi : i \in 1..MaxPort
    BY <1>1 DEF ValidRange, validatePortNumber
  <2>4. \A t \in Texts(part) : t.number \in part.lo..part.hi
    BY <2>1
  <2>5. ASSUME NEW n \in part.lo..part.hi
        PROVE  \E t \in Texts(part) : n = t.number
    <3>1. [number |-> n, zeros |-> 0] \in Texts(part)
      BY <2>1
    <3>2. n = [number |-> n, zeros |-> 0].number
      OBVIOUS
    <3> QED
      BY <3>1, <3>2
  <2> HIDE DEF AskedPart, Texts
  <2> QED
    BY <2>2, <2>3, <2>4, <2>5
<1>2. CASE ~part.range
  <2>1. Texts(part) = {[number |-> part.lo, zeros |-> part.zeros]}
    BY <1>2 DEF Texts
  <2>2. AskedPart(part) = {part.lo}
    BY <1>2 DEF AskedPart
  <2>3. part.lo \in 1..MaxPort
    BY <1>2 DEF validatePort, validatePortNumber
  <2>4. [number |-> part.lo, zeros |-> part.zeros].number = part.lo
    OBVIOUS
  <2> HIDE DEF AskedPart, Texts
  <2> QED
    BY <2>1, <2>2, <2>3, <2>4
<1> QED
  BY <1>1, <1>2

(* An option of `dewy server` in whichever form: if it is accepted, the    *)
(* ports are those it names, in any order and however often.               *)
LEMMA SpecsAsAsked ==
    ASSUME NEW specs, configureServerCommand(specs).ok
    PROVE  LET ps == configureServerCommand(specs).ports
           IN  /\ {p.number : p \in ps} = UNION {Asked(specs[i]) : i \in DOMAIN specs}
               /\ \A p \in ps : p.number \in 1..MaxPort
<1> DEFINE ps == configureServerCommand(specs).ports
<1>1. \A i \in DOMAIN specs : \A part \in specs[i] :
         IF part.range THEN ValidRange(part) ELSE validatePort(part)
  BY DEF configureServerCommand, parsePorts, parsePortSpec
<1>2. ps = UNION {UNION {Texts(part) : part \in specs[i]} : i \in DOMAIN specs}
  BY DEF configureServerCommand, parsePorts, parsePortSpec, validateAndDeduplicatePorts, Texts
<1>3. \A spec : Asked(spec) = UNION {AskedPart(part) : part \in spec}
  BY DEF Asked, AskedPart
<1> HIDE DEF ps
<1>4. \A p : p \in ps <=> \E i \in DOMAIN specs : \E part \in specs[i] : p \in Texts(part)
  BY <1>2
<1>5. \A n : n \in UNION {Asked(specs[i]) : i \in DOMAIN specs}
                <=> \E i \in DOMAIN specs : \E part \in specs[i] : n \in AskedPart(part)
  BY <1>3
<1>6. \A i \in DOMAIN specs : \A part \in specs[i] :
         /\ \A t \in Texts(part) : t.number \in AskedPart(part)
         /\ \A n \in AskedPart(part) : \E t \in Texts(part) : n = t.number
         /\ \A n \in AskedPart(part) : n \in 1..MaxPort
  BY <1>1, PartAsAsked
<1>7. \A p \in ps : p.number \in 1..MaxPort
  BY <1>4, <1>6
<1>8. \A p \in ps : p.number \in UNION {Asked(specs[i]) : i \in DOMAIN specs}
  BY <1>4, <1>5, <1>6
<1>9. \A n \in UNION {Asked(specs[i]) : i \in DOMAIN specs} : \E p \in ps : n = p.number
  BY <1>4, <1>5, <1>6
<1>10. {p.number : p \in ps} = UNION {Asked(specs[i]) : i \in DOMAIN specs}
  BY <1>8, <1>9
<1> QED
  BY <1>7, <1>10 DEF ps

(* The configuration is made once, by Run, and kept as long as the process *)
(* lives.                                                                  *)
LEMMA ConfigureStep ==
    ASSUME [Next]_vars
    PROVE  \/ main' \in {"cli", "ended"}
           \/ Run
           \/ UNCHANGED <<args, ports>> /\ main \notin {"cli", "ended"}
<1> SUFFICES ASSUME main' \notin {"cli", "ended"}
             PROVE  Run \/ (UNCHANGED <<args, ports>> /\ main \notin {"cli", "ended"})
  OBVIOUS
<1>1. CASE NewTelemetry \/ Start \/ Return \/ TakeSignal
  BY <1>1 DEF NewTelemetry, Start, Return, TakeSignal, Gone, otherVars, portVars
<1>2. CASE StartProxy \/ StartAdminAPI \/ StopProxy \/ StopAdminAPI \/ SignalRestart
  BY <1>2 DEF StartProxy, StartAdminAPI, StopProxy, StopAdminAPI, SignalRestart, portVars
<1>3. CASE Hello \/ TellRestarted \/ TellStopped \/ StartFails \/ Schedule \/ NotifySignals
  BY <1>3 DEF Hello, TellRestarted, TellStopped, StartFails, Schedule, NotifySignals, otherVars,
              portVars
<1>4. CASE Tick \/ Downloaded \/ BeforeHook \/ AfterHook \/ Promoted
  BY <1>4 DEF Tick, Gone, Downloaded, BeforeHook, AfterHook, Promoted, execHook, Send,
              SendImportant, SendHookResult, Post, JobTo, otherVars, portVars
<1>5. CASE Deploy \/ startOrRestartServer \/ RestartServer \/ StartServer \/ TickFailed \/ TickDone
  BY <1>5 DEF Deploy, startOrRestartServer, RestartServer, StartServer, TickFailed, TickDone,
              SendError, ResetErrorCount, JobTo, otherVars, portVars
<1>6. CASE QuitJob \/ ServerFails \/ OthersListen \/ ContainerList \/ Restart
  BY <1>6 DEF QuitJob, ServerFails, OthersListen, ContainerList, Restart, portVars
<1>7. ASSUME NEW s \in {"USR1", "TERM"}, Signal(s)
      PROVE  UNCHANGED <<args, ports>> /\ main \notin {"cli", "ended"}
  BY <1>7 DEF Signal, Gone, portVars
<1>8. CASE UNCHANGED vars
  BY <1>8 DEF vars, otherVars, portVars
<1> QED
  BY <1>1, <1>2, <1>3, <1>4, <1>5, <1>6, <1>7, <1>8 DEF Next, Main, InTick

(***************************************************************************)
(* cli.go: a server listens on the ports asked for and on no other, for    *)
(* every combination of numbers, ranges, lists and repeated options and    *)
(* whatever the limits are.                                                *)
(***************************************************************************)
THEOREM ConfiguresAsAsked == Spec => []ConfiguredAsAsked
<1>1. Init => ConfiguredAsAsked
  BY DEF Init, ConfiguredAsAsked
<1>2. ConfiguredAsAsked /\ [Next]_vars => ConfiguredAsAsked'
  <2> SUFFICES ASSUME ConfiguredAsAsked, [Next]_vars PROVE ConfiguredAsAsked'
    OBVIOUS
  <2>1. CASE main' \in {"cli", "ended"}
    BY <2>1 DEF ConfiguredAsAsked
  <2>2. CASE Run /\ main' \notin {"cli", "ended"}
    <3> DEFINE conf == Configure(args.command, args.specs)
    <3>1. conf.ok /\ ports' = conf.ports /\ UNCHANGED args
      BY <2>2 DEF Run, Gone
    <3>2. args.command = "server" => conf = configureServerCommand(args.specs)
      BY DEF Configure
    <3> HIDE DEF conf
    <3>3. args.command = "server" =>
             /\ {p.number : p \in ports'} = UNION {Asked(args.specs[i]) : i \in DOMAIN args.specs}
             /\ \A p \in ports' : p.number \in 1..MaxPort
      BY <3>1, <3>2, SpecsAsAsked
    <3> QED
      BY <3>1, <3>3 DEF ConfiguredAsAsked
  <2>3. CASE UNCHANGED <<args, ports>> /\ main \notin {"cli", "ended"}
    BY <2>3 DEF ConfiguredAsAsked
  <2> QED
    BY <2>1, <2>2, <2>3, ConfigureStep
<1> QED
  BY <1>1, <1>2, PTL DEF Spec

-----------------------------------------------------------------------------
(* The thread *)

(***************************************************************************)
(* Before Start looks the thread up there is none, and no job runs before  *)
(* Schedule; once a release has been swapped in, its thread has been       *)
(* looked up and stays the thread until the tick is over.                  *)
(***************************************************************************)
InThreads == NewNotifier = "slack" /\ args.notifier.thread
Swapped == {"after", "server", "restart", "launch", "promoted"}
ThreadInv ==
    /\ main \in {"cli", "telemetry", "start"} => thread = NoRelease
    /\ main \in {"cli", "telemetry", "start", "hello", "ended"} => job = "off"
    /\ InThreads /\ main = "hello" => thread = IF link \in Threaded THEN link ELSE NoRelease
    /\ InThreads /\ job \in Swapped /\ args.command # "container" /\ release \in Threaded
          => thread = release

(* A step that leaves the thread alone and swaps nothing in.               *)
Early == {"cli", "telemetry", "start", "hello", "ended"}
Apart ==
    /\ UNCHANGED <<args, link, thread>>
    /\ main' \in Early => \/ main' = main
                          \/ main \in {"cli", "telemetry"} /\ main' \in {"telemetry", "start"}
    /\ job = "off" /\ main' \in Early => job' = "off"
    /\ job' \in Swapped => job \in Swapped /\ UNCHANGED release

(* The process dies or is called again, Start or the job looks a thread    *)
(* up, or the step is apart from all that.                                 *)
LEMMA ThreadStep ==
    ASSUME [Next]_vars
    PROVE  \/ Forget /\ main' \in {"cli", "ended"}
           \/ Start
           \/ Deploy
           \/ Apart
<1> SUFFICES ASSUME ~(Forget /\ main' \in {"cli", "ended"})
             PROVE  Start \/ Deploy \/ Apart
  OBVIOUS
<1> USE DEF Apart, Early, Swapped, tickVars, otherVars
<1>1. CASE Run \/ NewTelemetry \/ Return \/ TakeSignal
  BY <1>1 DEF Run, NewTelemetry, Return, TakeSignal, Gone, MainTo
<1>2. CASE StartProxy \/ StartAdminAPI \/ StopProxy \/ StopAdminAPI \/ SignalRestart
  BY <1>2 DEF StartProxy, StartAdminAPI, StopProxy, StopAdminAPI, SignalRestart, MainTo
<1>3. CASE Hello \/ TellRestarted \/ TellStopped
  BY <1>3 DEF Hello, TellRestarted, TellStopped, AfterHello, Send, Post, MainTo
<1>4. CASE StartFails \/ Schedule \/ NotifySignals
  BY <1>4 DEF StartFails, Schedule, NotifySignals, SendError, MainTo
<1>5. CASE Tick
  BY <1>5 DEF Tick, Gone, JobTo
<1>6. CASE Downloaded \/ BeforeHook \/ AfterHook \/ Promoted
  BY <1>6 DEF Downloaded, BeforeHook, AfterHook, Promoted, execHook, Send, SendImportant,
              SendHookResult, Post, JobTo
<1>7. CASE startOrRestartServer \/ RestartServer \/ StartServer
  BY <1>7 DEF startOrRestartServer, RestartServer, StartServer, JobTo
<1>8. CASE TickFailed \/ TickDone
  BY <1>8 DEF TickFailed, TickDone, SendError, ResetErrorCount, JobTo
<1>9. CASE QuitJob \/ ServerFails \/ OthersListen \/ ContainerList \/ Restart
  BY <1>9 DEF QuitJob, ServerFails, OthersListen, ContainerList, Restart
<1>10. ASSUME NEW s \in {"USR1", "TERM"}, Signal(s)
       PROVE  Apart
  BY <1>10 DEF Signal, Gone
<1>11. CASE UNCHANGED vars
  BY <1>11 DEF vars
<1> QED
  BY <1>1, <1>2, <1>3, <1>4, <1>5, <1>6, <1>7, <1>8, <1>9, <1>10, <1>11 DEF Next, Main, InTick

LEMMA ThreadNext ==
    ASSUME ThreadInv, [Next]_vars
    PROVE  ThreadInv'
<1>1. CASE Forget /\ main' \in {"cli", "ended"}
  BY <1>1 DEF Forget, ThreadInv, Swapped
<1>2. UNCHANGED args => UNCHANGED InThreads
  BY DEF InThreads, NewNotifier, NewSlack, NewMail
<1>3. CASE Start /\ main' = "hello"
  <2>1. /\ main = "start" /\ main' = "hello" /\ job = "off" /\ job' = "off"
        /\ thread = NoRelease
        /\ UNCHANGED <<args, link>>
        /\ OnDeploy(link)
    BY <1>3 DEF Start, Gone, MainTo, ThreadInv
  <2>2. InThreads => thread' = IF link \in Threaded THEN link ELSE NoRelease
    BY <2>1 DEF OnDeploy, InThreads
  <2> QED
    BY <1>2, <2>1, <2>2 DEF ThreadInv, Swapped
<1>4. CASE Deploy
  <2>1. /\ job = "deploy" /\ UNCHANGED <<main, args, release>>
        /\ main \notin {"cli", "telemetry", "start", "hello", "ended"}
    BY <1>4 DEF Deploy, JobTo, ThreadInv
  <2>2. InThreads /\ job' \in Swapped /\ args.command # "container" /\ release \in Threaded
           => thread' = release
    BY <1>4 DEF Deploy, JobTo, OnDeploy, InThreads, Swapped
  <2> QED
    BY <1>2, <2>1, <2>2 DEF ThreadInv
<1>5. CASE Apart
  BY <1>2, <1>5 DEF Apart, Early, ThreadInv, Swapped
<1>6. Start => main' = "hello" \/ (Forget /\ main' \in {"cli", "ended"})
  BY DEF Start, Gone, MainTo
<1> QED
  BY <1>1, <1>3, <1>4, <1>5, <1>6, ThreadStep

(***************************************************************************)
(* OnDeploy (slack.go): the greeting goes to the thread of the release     *)
(* that is live and the message of a promotion to that of the promoted     *)
(* release, whatever the archives hold and however often dewy is called.   *)
(***************************************************************************)
THEOREM MessagesInThreadTheorem == Spec => []MessagesInThread
<1>1. Init => ThreadInv
  BY DEF Init, ThreadInv, Swapped
<1>2. ThreadInv /\ [Next]_vars => ThreadInv'
  BY ThreadNext
<1>3. ThreadInv => MessagesInThread
  BY DEF ThreadInv, MessagesInThread, InThreads, Swapped
<1> QED
  BY <1>1, <1>2, <1>3, PTL DEF Spec
=============================================================================
