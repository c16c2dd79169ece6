--------------------------- MODULE CachedRegistry ---------------------------
(***************************************************************************)
(* The shared registry-result cache of registry/cached.go: nodes that poll *)
(* one upstream registry share its answer through an object in S3 or GCS   *)
(* that is only ever written with a compare-and-swap, and elect the node   *)
(* that refreshes it with a lock stored in the same object.                *)
(*                                                                         *)
(* Time is relative: ages instead of timestamps, saturating where the code *)
(* stops telling values apart.  One unit is the retry interval `wait`.     *)
(* The nodes' clocks are taken to agree.  The context of a tick is not     *)
(* cancelled before the tick ends, so no wait of Current is cut short.     *)
(***************************************************************************)
EXTENDS Integers, FiniteSets

CONSTANTS
    Nodes,       \* dewy processes sharing the cache object
    Tokens,      \* version tokens of the object (ETags or generations)
    NoToken,     \* the version of an object that does not exist
    ETag,        \* TRUE: a token is determined by the content (S3);
                 \* FALSE: every write has a new one (GCS)
    TTL,         \* registry-ttl
    LockFloor,   \* 30 seconds
    LockCeil,    \* 5 minutes
    Timely,      \* TRUE: nodes step promptly, upstream answers within MaxCall
    MaxCall,     \* longest upstream call when Timely
    FaultKinds,  \* kinds of fault the environment may produce
    MaxFaults,   \* bound: faults in one behaviour
    MaxChanges   \* bound: changes of what the upstream registry reports

AllFaults == {"read", "claim", "lost", "publish", "release", "upstream", "crash"}

ASSUME ConstantsAssumption ==
    /\ NoToken \notin Tokens
    /\ Tokens # {}
    /\ {ETag, Timely} \subseteq BOOLEAN
    /\ {TTL, LockFloor, LockCeil} \subseteq Nat \ {0}
    /\ LockFloor <= LockCeil
    /\ {MaxCall, MaxFaults, MaxChanges} \subseteq Nat
    /\ FaultKinds \subseteq AllFaults

(* maxLockTTL: twice the ttl, kept between 30 seconds and 5 minutes.       *)
LockTTL ==
    IF 2 * TTL < LockFloor THEN LockFloor
    ELSE IF 2 * TTL > LockCeil THEN LockCeil ELSE 2 * TTL

Patience == LockTTL + 1   \* the deadline of Current: lockTTL + wait

VARIABLES
    upstream,  \* changes of the upstream registry's answer so far
    response,  \* entry.Response: the answer it holds (0: nil)
    age,       \* time since entry.FetchedAt, up to TTL
    lock,      \* time since entry.LockedAt, up to LockTTL (-1: not locked)
    ver,       \* the object's version token (NoToken: it does not exist)
    base,      \* the token of its content without the lock; before the first
               \* publication: that of an empty entry
    pc,        \* pc[n]: where node n is in Current
    waited,    \* waited[n]: time since Current was called, up to Patience
    token,     \* token[n]: the version n has read, or written with its claim
    prev,      \* prev[n]: the Response n read before its claim
    got,       \* got[n]: the answer n received from upstream
    calling,   \* calling[n]: how long n's upstream call has lasted
    result,    \* result[n]: the last answer Current returned (0: none yet)
    faults     \* faults so far (bounded by MaxFaults)

entryVars == <<response, age, lock, ver, base>>
nodeVars  == <<waited, token, prev, got, calling, result>>
vars == <<upstream, entryVars, pc, nodeVars, faults>>

Phases == {"idle", "read", "sleep", "claim", "upstream", "publish", "release", "direct"}

(* Every variable keeps the kind of value its declaration describes; the   *)
(* ages stay below the caps at which they saturate.                        *)
TypeOK ==
    /\ upstream \in Nat
    /\ response \in Nat
    /\ age \in 0..TTL
    /\ lock \in -1..LockTTL
    /\ ver \in Tokens \cup {NoToken}
    /\ base \in Tokens
    /\ pc \in [Nodes -> Phases]
    /\ waited \in [Nodes -> 0..Patience]
    /\ token \in [Nodes -> Tokens \cup {NoToken}]
    /\ prev \in [Nodes -> Nat]
    /\ got \in [Nodes -> Nat]
    /\ calling \in [Nodes -> 0..LockTTL]
    /\ result \in [Nodes -> Nat]
    /\ faults \in Nat

Init ==
    /\ upstream = 1
    /\ response = 0
    /\ age = TTL
    /\ lock = -1
    /\ ver = NoToken
    /\ base = CHOOSE t \in Tokens : TRUE
    /\ token = [n \in Nodes |-> NoToken]
    /\ pc = [n \in Nodes |-> "idle"]
    /\ waited = [n \in Nodes |-> 0]
    /\ prev = [n \in Nodes |-> 0]
    /\ got = [n \in Nodes |-> 0]
    /\ calling = [n \in Nodes |-> 0]
    /\ result = [n \in Nodes |-> 0]
    /\ faults = 0

-----------------------------------------------------------------------------
Fault(kind) ==
    /\ kind \in FaultKinds
    /\ faults < MaxFaults
    /\ faults' = faults + 1

Goto(n, p) == pc' = [pc EXCEPT ![n] = p]

(* Current returns the answer r, or an error (0); its locals are gone.     *)
Return(n, r) ==
    /\ Goto(n, "idle")
    /\ result' = [result EXCEPT ![n] = IF r = 0 THEN result[n] ELSE r]
    /\ waited' = [waited EXCEPT ![n] = 0]
    /\ prev' = [prev EXCEPT ![n] = 0]
    /\ got' = [got EXCEPT ![n] = 0]
    /\ calling' = [calling EXCEPT ![n] = 0]
    /\ token' = [token EXCEPT ![n] = NoToken]

(***************************************************************************)
(* A write with new content: a token of which nobody remembers a version.  *)
(***************************************************************************)
Unused == Tokens \ ({ver, base} \cup {token[n] : n \in Nodes})

(* Mutant: the version returned by the conditional write is dropped.       *)
NewTokenDropped == NoToken

NewToken == CHOOSE t \in Unused : TRUE

(* Mutant: the lock of a peer is not looked at.                            *)
isLockedIgnored == FALSE

isFresh  == response # 0 /\ age < TTL
isLocked == lock # -1 /\ lock < LockTTL

(* Mutant: the write is unconditional.                                     *)
MatchesAlways(n) == TRUE

(* Mutant: an empty version is not sent as "create if absent".             *)
MatchesExisting(n) == ver # NoToken /\ token[n] = ver

(***************************************************************************)
(* WriteIfMatch applies a write only to the version it names, or creates   *)
(* the object if that version is empty and there is none.                  *)
(***************************************************************************)
Matches(n) == token[n] = ver

-----------------------------------------------------------------------------
(* The scheduler calls Current. *)
Start(n) ==
    /\ pc[n] = "idle"
    /\ Goto(n, "read")
    /\ UNCHANGED <<upstream, entryVars, nodeVars, faults>>

(***************************************************************************)
(* One round of the loop of Current up to its decision: serve a fresh      *)
(* entry, wait for the peer that holds the lock, or go on to claim it.     *)
(***************************************************************************)
ReadEntry(n) ==
    /\ pc[n] = "read"
    /\ \/ /\ isFresh
          /\ Return(n, response)
          /\ UNCHANGED faults
       \/ /\ ~isFresh
          /\ isLocked /\ waited[n] < Patience
          /\ Goto(n, "sleep")
          /\ UNCHANGED <<nodeVars, faults>>
       \/ /\ ~isFresh
          /\ ~(isLocked /\ waited[n] < Patience)
          /\ Goto(n, "claim")
          /\ token' = [token EXCEPT ![n] = ver]
          /\ prev' = [prev EXCEPT ![n] = response]
          /\ UNCHANGED <<waited, got, calling, result, faults>>
       \/ /\ Fault("read")
          /\ Goto(n, "direct")
          /\ UNCHANGED nodeVars
    /\ UNCHANGED <<upstream, entryVars>>

(* The entry of buildClaim is written: locked now, the old answer kept.    *)
WriteClaim ==
    /\ Unused # {}
    /\ ver' = NewToken
    /\ lock' = 0
    /\ UNCHANGED <<response, age, base>>

(* After a claim that failed: a stale answer if there is one.              *)
ServeStale(n) ==
    \/ prev[n] # 0 /\ Return(n, prev[n])
    \/ prev[n] = 0 /\ Goto(n, "direct") /\ UNCHANGED nodeVars

(***************************************************************************)
(* The claim.  A conflict is waited out like a lock.  A write whose answer *)
(* is lost may have been applied: the client then reports an error, or a   *)
(* conflict when it retried the request against its own write.             *)
(***************************************************************************)
Claim(n) ==
    /\ pc[n] = "claim"
    /\ \/ /\ Matches(n)
          /\ WriteClaim
          /\ token' = [token EXCEPT ![n] = NewToken]
          /\ Goto(n, "upstream")
          /\ UNCHANGED <<waited, prev, got, calling, result, faults>>
       \/ /\ ~Matches(n)
          /\ Goto(n, "sleep")
          /\ UNCHANGED <<entryVars, nodeVars, faults>>
       \/ /\ Fault("claim")
          /\ ServeStale(n)
          /\ UNCHANGED entryVars
       \/ /\ Matches(n)
          /\ Fault("lost")
          /\ WriteClaim
          /\ \/ ServeStale(n)
             \/ Goto(n, "sleep") /\ UNCHANGED nodeVars
    /\ UNCHANGED upstream

(* refreshAndPublish: the upstream call, made while holding the lock.      *)
CallUpstream(n) ==
    /\ pc[n] = "upstream"
    /\ \/ /\ got' = [got EXCEPT ![n] = upstream]
          /\ Goto(n, "publish")
          /\ UNCHANGED faults
       \/ /\ Fault("upstream")
          /\ Goto(n, "release")
          /\ UNCHANGED got
    /\ UNCHANGED <<upstream, entryVars, waited, token, prev, calling, result>>

(***************************************************************************)
(* The new entry is published, unlocked, if the claim is still the current *)
(* version.  A failure is only logged, so whether a write whose answer is  *)
(* lost was applied makes no difference to the node.                       *)
(***************************************************************************)
Publish(n) ==
    /\ pc[n] = "publish"
    /\ \/ /\ Matches(n)
          /\ Unused # {}
          /\ ver' = NewToken /\ base' = NewToken
          /\ response' = got[n]
          /\ age' = 0
          /\ lock' = -1
          /\ UNCHANGED faults
       \/ /\ ~Matches(n)
          /\ UNCHANGED <<entryVars, faults>>
       \/ /\ Fault("publish")
          /\ UNCHANGED entryVars
    /\ Return(n, got[n])
    /\ UNCHANGED upstream

(***************************************************************************)
(* releaseLock, after an upstream failure: the previous entry is written   *)
(* back unlocked.  In S3 it then has its former ETag again.                *)
(***************************************************************************)
ReleaseLock(n) ==
    /\ pc[n] = "release"
    /\ \/ /\ Matches(n)
          /\ \/ ETag /\ ver' = base /\ UNCHANGED base
             \/ ~ETag /\ Unused # {} /\ ver' = NewToken /\ base' = NewToken
          /\ response' = prev[n]
          /\ lock' = -1
          /\ UNCHANGED <<age, faults>>
       \/ /\ ~Matches(n)
          /\ UNCHANGED <<entryVars, faults>>
       \/ /\ Fault("release")
          /\ UNCHANGED entryVars
    /\ Return(n, prev[n])
    /\ UNCHANGED upstream

(* The cache is bypassed: the inner registry's answer, or its error.       *)
Direct(n) ==
    /\ pc[n] = "direct"
    /\ \/ Return(n, upstream) /\ UNCHANGED faults
       \/ Fault("upstream") /\ Return(n, 0)
    /\ UNCHANGED <<upstream, entryVars>>

(* The process dies; a new one with another node ID takes its place.       *)
Crash(n) ==
    /\ pc[n] # "idle"
    /\ Fault("crash")
    /\ Return(n, 0)
    /\ UNCHANGED <<upstream, entryVars>>

Current(n) ==
    \/ ReadEntry(n) \/ Claim(n) \/ CallUpstream(n)
    \/ Publish(n) \/ ReleaseLock(n) \/ Direct(n)

-----------------------------------------------------------------------------
UpstreamChanges ==
    /\ upstream <= MaxChanges
    /\ upstream' = upstream + 1
    /\ UNCHANGED <<entryVars, pc, nodeVars, faults>>

Older(x, cap) == IF x < cap THEN x + 1 ELSE x

(***************************************************************************)
(* Time passes; the timers of sleeping nodes fire.  When Timely, no node   *)
(* is kept from its next step and no upstream call outlasts MaxCall.       *)
(***************************************************************************)
Tick ==
    /\ Timely => \A n \in Nodes : /\ pc[n] \in {"idle", "sleep", "upstream"}
                                  /\ pc[n] = "upstream" => calling[n] < MaxCall
    /\ age' = Older(age, TTL)
    /\ lock' = IF lock = -1 THEN lock ELSE Older(lock, LockTTL)
    /\ pc' = [n \in Nodes |-> IF pc[n] = "sleep" THEN "read" ELSE pc[n]]
    /\ waited' = [n \in Nodes |->
                    IF pc[n] = "idle" THEN 0 ELSE Older(waited[n], Patience)]
    /\ calling' = [n \in Nodes |->
                     IF pc[n] = "upstream" THEN Older(calling[n], LockTTL)
                     ELSE calling[n]]
    /\ UNCHANGED <<upstream, response, ver, base, token, prev, got, result, faults>>

Next ==
    \/ \E n \in Nodes : Start(n) \/ Current(n) \/ Crash(n)
    \/ UpstreamChanges
    \/ Tick

Spec == Init /\ [][Next]_vars

(***************************************************************************)
(* A call that can go on does: goroutines are scheduled.  Time passes even *)
(* though, when Timely, a step that is due at once keeps the clock back.   *)
(***************************************************************************)
FairSpec == Spec /\ SF_vars(Tick) /\ \A n \in Nodes : WF_vars(Current(n))

-----------------------------------------------------------------------------
(* Properties *)

Mirror == INSTANCE RegistryMirror WITH mirror <- response

(***************************************************************************)
(* The object implements a mirror of the upstream registry that never goes *)
(* back, although a node that lost its lock may still be about to publish  *)
(* an older answer (the compare-and-swap of refreshAndPublish and          *)
(* releaseLock).                                                           *)
(***************************************************************************)
RefinesMirror == Mirror!Spec

(***************************************************************************)
(* A node takes the lock, and so calls upstream, only while the entry is   *)
(* stale: the entry it read before its claim cannot have been refreshed in *)
(* between (the version passed to writeEntry in Current).                  *)
(***************************************************************************)
RefreshOnlyWhenStale ==
    [][\A n \in Nodes : pc[n] = "claim" /\ pc'[n] = "upstream" => ~isFresh]_vars

Refreshing == {n \in Nodes : pc[n] \in {"upstream", "publish", "release"}}

(***************************************************************************)
(* At most one node at a time is refreshing: the others wait for the lock  *)
(* (isLocked in Current).                                                  *)
(***************************************************************************)
OneRefresher == Cardinality(Refreshing) <= 1

(***************************************************************************)
(* No node is ever told of an older answer after a newer one: it would     *)
(* deploy the old release over the new one (Current in registry/cached.go).*)
(***************************************************************************)
ReadsNeverGoBack == [][\A n \in Nodes : result'[n] >= result[n]]_vars

(***************************************************************************)
(* Every call of Current returns: a lock abandoned by a crashed node, or   *)
(* lost claims, keep nobody waiting for ever.                              *)
(***************************************************************************)
CurrentReturns == \A n \in Nodes : pc[n] # "idle" ~> pc[n] = "idle"
=============================================================================
