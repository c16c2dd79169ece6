------------------------ MODULE CachedRegistryProofs ------------------------
(***************************************************************************)
(* Proofs about the shared registry-result cache, for any number of nodes, *)
(* any TTL and lock bounds.  The first part holds however slow nodes and   *)
(* upstream are; the second, on mutual exclusion, is about timely ones.    *)
(*                                                                         *)
(* The argument: the version a node remembers identifies the content it    *)
(* read.  While that version is the object's, or is the one the object     *)
(* falls back to when the lock is released, the answer it read is the one  *)
(* stored; a claim's version is never fallen back to.                      *)
(***************************************************************************)
EXTENDS CachedRegistry, FiniteSetTheorems, TLAPS

(* The version read before the claim still stands for the stored answer.   *)
ReadIsCurrent ==
    \A n \in Nodes :
        pc[n] \in {"claim", "upstream", "publish", "release"} /\ token[n] \in {ver, base}
            => prev[n] = response

(* The version of a claim is not the one a released object gets back.      *)
ClaimIsOwn ==
    \A n \in Nodes :
        pc[n] \in {"upstream", "publish", "release"} => token[n] # base

(* What a node that still holds the lock will publish is not older.        *)
AnswerIsNewer ==
    \A n \in Nodes : /\ got[n] <= upstream
                     /\ pc[n] = "publish" /\ token[n] = ver => response <= got[n]

(* A claim that can still succeed was decided on a stale entry.            *)
ClaimIsDue ==
    \A n \in Nodes : pc[n] = "claim" /\ token[n] \in {ver, base} => ~isFresh

MirrorInv ==
    /\ TypeOK
    /\ response <= upstream
    /\ ReadIsCurrent
    /\ ClaimIsOwn
    /\ AnswerIsNewer
    /\ ClaimIsDue

-----------------------------------------------------------------------------
(* LockTTL and the deadline are positive whatever the TTL.                 *)
LEMMA Durations == /\ TTL \in Nat \ {0}
                   /\ LockTTL \in Nat \ {0}
                   /\ Patience \in Nat
  BY ConstantsAssumption DEF LockTTL, Patience

(* A new token is nobody's.                                                *)
LEMMA NewTokenIsNew ==
    ASSUME Unused # {}
    PROVE  /\ NewToken \in Tokens
           /\ NewToken # ver /\ NewToken # base
           /\ \A n \in Nodes : NewToken # token[n]
<1>1. NewToken \in Unused
  BY DEF NewToken
<1> QED BY <1>1 DEF Unused

(* Saturating counters stay within their caps.                             *)
LEMMA OlderBounded ==
    ASSUME NEW cap \in Nat, NEW x \in 0..cap
    PROVE  Older(x, cap) \in 0..cap /\ Older(x, cap) >= x
  BY DEF Older

(* What Return leaves behind is well-typed.                                *)
LEMMA ReturnType ==
    ASSUME TypeOK, NEW n \in Nodes, NEW r \in Nat, Return(n, r)
    PROVE  /\ pc' \in [Nodes -> Phases]
           /\ waited' \in [Nodes -> 0..Patience]
           /\ token' \in [Nodes -> Tokens \cup {NoToken}]
           /\ prev' \in [Nodes -> Nat]
           /\ got' \in [Nodes -> Nat]
           /\ calling' \in [Nodes -> 0..LockTTL]
           /\ result' \in [Nodes -> Nat]
  BY Durations DEF TypeOK, Return, Goto, Phases

(* Every step keeps the types.                                             *)
LEMMA TypeStep == TypeOK /\ [Next]_vars => TypeOK'
<1> SUFFICES ASSUME TypeOK, [Next]_vars PROVE TypeOK'
  OBVIOUS
<1> USE Durations
<1>1. ASSUME NEW n \in Nodes, Start(n) PROVE TypeOK'
  BY <1>1 DEF TypeOK, Start, Goto, Phases, entryVars, nodeVars
<1>2. ASSUME NEW n \in Nodes, ReadEntry(n) PROVE TypeOK'
  <2>1. CASE Return(n, response) /\ UNCHANGED faults
    BY <1>2, <2>1, ReturnType DEF ReadEntry, TypeOK, entryVars
  <2>2. CASE Goto(n, "sleep") /\ UNCHANGED <<nodeVars, faults>>
    BY <1>2, <2>2 DEF ReadEntry, TypeOK, Goto, Phases, entryVars, nodeVars
  <2>3. CASE /\ Goto(n, "claim")
             /\ token' = [token EXCEPT ![n] = ver]
             /\ prev' = [prev EXCEPT ![n] = response]
             /\ UNCHANGED <<waited, got, calling, result, faults>>
    BY <1>2, <2>3 DEF ReadEntry, TypeOK, Goto, Phases, entryVars
  <2>4. CASE Fault("read") /\ Goto(n, "direct") /\ UNCHANGED nodeVars
    BY <1>2, <2>4 DEF ReadEntry, TypeOK, Goto, Fault, Phases, entryVars, nodeVars
  <2> QED BY <1>2, <2>1, <2>2, <2>3, <2>4 DEF ReadEntry
<1>3. ASSUME NEW n \in Nodes, Claim(n) PROVE TypeOK'
  <2>0. ASSUME ServeStale(n)
        PROVE  /\ pc' \in [Nodes -> Phases]
               /\ waited' \in [Nodes -> 0..Patience]
               /\ token' \in [Nodes -> Tokens \cup {NoToken}]
               /\ prev' \in [Nodes -> Nat]
               /\ got' \in [Nodes -> Nat]
               /\ calling' \in [Nodes -> 0..LockTTL]
               /\ result' \in [Nodes -> Nat]
    <3>1. CASE Return(n, prev[n])
      <4>1. prev[n] \in Nat
        BY DEF TypeOK
      <4> QED BY <3>1, <4>1, ReturnType
    <3>2. CASE Goto(n, "direct") /\ UNCHANGED nodeVars
      BY <3>2 DEF TypeOK, Goto, Phases, nodeVars
    <3> QED BY <2>0, <3>1, <3>2 DEF ServeStale
  <2>w. ASSUME WriteClaim
        PROVE  /\ response' \in Nat /\ age' \in 0..TTL /\ lock' \in -1..LockTTL
               /\ ver' \in Tokens \cup {NoToken} /\ base' \in Tokens
    BY <2>w, NewTokenIsNew DEF WriteClaim, TypeOK
  <2>1. CASE /\ WriteClaim
             /\ token' = [token EXCEPT ![n] = NewToken]
             /\ Goto(n, "upstream")
             /\ UNCHANGED <<waited, prev, got, calling, result, faults>>
    BY <1>3, <2>1, <2>w, NewTokenIsNew DEF Claim, WriteClaim, TypeOK, Goto, Phases
  <2>2. CASE Goto(n, "sleep") /\ UNCHANGED <<entryVars, nodeVars, faults>>
    BY <1>3, <2>2 DEF Claim, TypeOK, Goto, Phases, entryVars, nodeVars
  <2>3. CASE Fault("claim") /\ ServeStale(n) /\ UNCHANGED entryVars
    BY <1>3, <2>3, <2>0 DEF Claim, TypeOK, Fault, entryVars
  <2>4. CASE /\ Fault("lost") /\ WriteClaim
             /\ ServeStale(n) \/ (Goto(n, "sleep") /\ UNCHANGED nodeVars)
    <3>1. CASE ServeStale(n)
      BY <1>3, <2>4, <3>1, <2>0, <2>w DEF Claim, TypeOK, Fault
    <3>2. CASE Goto(n, "sleep") /\ UNCHANGED nodeVars
      BY <1>3, <2>4, <3>2, <2>w DEF Claim, TypeOK, Fault, Goto, Phases, nodeVars
    <3> QED BY <2>4, <3>1, <3>2
  <2> QED BY <1>3, <2>1, <2>2, <2>3, <2>4 DEF Claim
<1>4. ASSUME NEW n \in Nodes, CallUpstream(n) PROVE TypeOK'
  BY <1>4 DEF CallUpstream, TypeOK, Goto, Fault, Phases, entryVars
<1>5. ASSUME NEW n \in Nodes, Publish(n) PROVE TypeOK'
  <2>1. got[n] \in Nat
    BY DEF TypeOK
  <2>2. Return(n, got[n])
    BY <1>5 DEF Publish
  <2>3. /\ response' \in Nat /\ age' \in 0..TTL /\ lock' \in -1..LockTTL
        /\ ver' \in Tokens \cup {NoToken} /\ base' \in Tokens
        /\ upstream' \in Nat /\ faults' \in Nat
    BY <1>5, <2>1, NewTokenIsNew DEF Publish, TypeOK, entryVars, Fault
  <2> QED BY <2>1, <2>2, <2>3, ReturnType DEF TypeOK
<1>6. ASSUME NEW n \in Nodes, ReleaseLock(n) PROVE TypeOK'
  <2>1. prev[n] \in Nat
    BY DEF TypeOK
  <2>2. Return(n, prev[n])
    BY <1>6 DEF ReleaseLock
  <2>3. /\ response' \in Nat /\ age' \in 0..TTL /\ lock' \in -1..LockTTL
        /\ ver' \in Tokens \cup {NoToken} /\ base' \in Tokens
        /\ upstream' \in Nat /\ faults' \in Nat
    BY <1>6, <2>1, NewTokenIsNew DEF ReleaseLock, TypeOK, entryVars, Fault
  <2> QED BY <2>1, <2>2, <2>3, ReturnType DEF TypeOK
<1>7. ASSUME NEW n \in Nodes, Direct(n) PROVE TypeOK'
  <2>1. CASE Return(n, upstream) /\ UNCHANGED faults
    <3>1. upstream \in Nat
      BY DEF TypeOK
    <3> QED BY <1>7, <2>1, <3>1, ReturnType DEF Direct, TypeOK, entryVars
  <2>2. CASE Fault("upstream") /\ Return(n, 0)
    BY <1>7, <2>2, ReturnType DEF Direct, TypeOK, Fault, entryVars
  <2> QED BY <1>7, <2>1, <2>2 DEF Direct
<1>8. ASSUME NEW n \in Nodes, Crash(n) PROVE TypeOK'
  BY <1>8, ReturnType DEF Crash, TypeOK, Fault, entryVars
<1>9. CASE UpstreamChanges
  BY <1>9 DEF UpstreamChanges, TypeOK, entryVars, nodeVars
<1>10. CASE Tick
  <2>1. age' \in 0..TTL /\ lock' \in -1..LockTTL
    BY <1>10, OlderBounded DEF Tick, TypeOK, Older
  <2>2. pc' \in [Nodes -> Phases]
    BY <1>10 DEF Tick, TypeOK, Phases
  <2>3. waited' \in [Nodes -> 0..Patience] /\ calling' \in [Nodes -> 0..LockTTL]
    BY <1>10, OlderBounded DEF Tick, TypeOK
  <2> QED BY <1>10, <2>1, <2>2, <2>3 DEF Tick, TypeOK
<1>11. CASE UNCHANGED vars
  BY <1>11 DEF vars, entryVars, nodeVars, TypeOK
<1> QED BY <1>1, <1>2, <1>3, <1>4, <1>5, <1>6, <1>7, <1>8, <1>9, <1>10, <1>11
        DEF Next, Current

(* The initial state satisfies the invariant.                              *)
LEMMA MirrorInit == Init => MirrorInv
<1> SUFFICES ASSUME Init PROVE MirrorInv
  OBVIOUS
<1>1. base \in Tokens
  BY ConstantsAssumption DEF Init
<1>2. TypeOK
  BY <1>1, Durations DEF Init, TypeOK, Phases
<1> QED BY <1>2 DEF Init, MirrorInv, ReadIsCurrent, ClaimIsOwn, AnswerIsNewer, ClaimIsDue

(* The phases in which a node remembers the version of an entry.           *)
Remembering == {"claim", "upstream", "publish", "release"}

(***************************************************************************)
(* The invariant survives a step of node n if it holds of n after the step *)
(* and the other nodes' versions have not become the object's again while  *)
(* the object changed.                                                     *)
(***************************************************************************)
LEMMA OtherNodes ==
    ASSUME MirrorInv, TypeOK', NEW n \in Nodes,
           upstream' = upstream,
           response' <= upstream,
           \A m \in Nodes \ {n} : /\ pc'[m] = pc[m] /\ token'[m] = token[m]
                                  /\ prev'[m] = prev[m] /\ got'[m] = got[m],
           \A m \in Nodes \ {n} :
              pc[m] \in Remembering /\ token[m] \in {ver', base'}
                 => /\ token[m] \in {ver, base}
                    /\ response' = response
                    /\ age' = age
                    /\ (token[m] = ver' /\ pc[m] # "claim" => token[m] = ver)
                    /\ (token[m] = base' => token[m] = base \/ pc[m] = "claim"),
           pc'[n] \in Remembering /\ token'[n] \in {ver', base'} => prev'[n] = response',
           pc'[n] \in {"upstream", "publish", "release"} => token'[n] # base',
           got'[n] <= upstream,
           pc'[n] = "publish" /\ token'[n] = ver' => response' <= got'[n],
           pc'[n] = "claim" /\ token'[n] \in {ver', base'} => ~isFresh'
    PROVE  MirrorInv'
<1>1. ReadIsCurrent'
  BY DEF MirrorInv, ReadIsCurrent, Remembering
<1>2. ClaimIsOwn'
  BY DEF MirrorInv, ClaimIsOwn, Remembering
<1>3. AnswerIsNewer'
  BY DEF MirrorInv, AnswerIsNewer, Remembering
<1>4. ClaimIsDue'
  BY DEF MirrorInv, ClaimIsDue, Remembering, isFresh
<1> QED BY <1>1, <1>2, <1>3, <1>4 DEF MirrorInv

(* What Return does to its own node and to the others.                     *)
LEMMA ReturnShape ==
    ASSUME TypeOK, NEW n \in Nodes, NEW r \in Nat, Return(n, r)
    PROVE  /\ pc'[n] = "idle" /\ got'[n] = 0
           /\ \A m \in Nodes \ {n} : /\ pc'[m] = pc[m] /\ token'[m] = token[m]
                                     /\ prev'[m] = prev[m] /\ got'[m] = got[m]
  BY DEF TypeOK, Return, Goto

(* Every step keeps the invariant.                                         *)
LEMMA MirrorStep == MirrorInv /\ [Next]_vars => MirrorInv'
<1> SUFFICES ASSUME MirrorInv, [Next]_vars PROVE MirrorInv'
  OBVIOUS
<1>t. TypeOK /\ TypeOK'
  BY TypeStep DEF MirrorInv
<1>f. ASSUME NEW n \in Nodes
      PROVE  /\ got[n] \in Nat /\ prev[n] \in Nat /\ response \in Nat /\ upstream \in Nat
             /\ got[n] <= upstream /\ response <= upstream
  BY <1>t DEF TypeOK, MirrorInv, AnswerIsNewer
(* A node that only returns, the object being unchanged.                   *)
<1>r. ASSUME NEW n \in Nodes, NEW r \in Nat, Return(n, r), UNCHANGED <<upstream, entryVars>>
      PROVE  MirrorInv'
  BY <1>r, <1>t, <1>f, ReturnShape, OtherNodes DEF entryVars, Remembering
(* A node that only moves to a phase in which no version matters.          *)
<1>g. ASSUME NEW n \in Nodes, NEW p \in {"read", "sleep", "direct"}, Goto(n, p),
             UNCHANGED <<upstream, entryVars, nodeVars>>
      PROVE  MirrorInv'
  <2>1. pc'[n] = p /\ \A m \in Nodes \ {n} : pc'[m] = pc[m]
    BY <1>g, <1>t DEF Goto, TypeOK
  <2> QED BY <1>g, <1>t, <1>f, <2>1, OtherNodes DEF entryVars, nodeVars, Remembering
<1>1. ASSUME NEW n \in Nodes, Start(n) PROVE MirrorInv'
  BY <1>1, <1>g DEF Start
<1>2. ASSUME NEW n \in Nodes, ReadEntry(n) PROVE MirrorInv'
  <2>1. CASE Return(n, response)
    BY <1>2, <2>1, <1>r, <1>f DEF ReadEntry
  <2>2. CASE Goto(n, "sleep") /\ UNCHANGED nodeVars
    BY <1>2, <2>2, <1>g DEF ReadEntry
  <2>3. CASE /\ ~isFresh
             /\ Goto(n, "claim")
             /\ token' = [token EXCEPT ![n] = ver]
             /\ prev' = [prev EXCEPT ![n] = response]
             /\ UNCHANGED <<waited, got, calling, result, faults>>
    <3>1. /\ pc'[n] = "claim" /\ token'[n] = ver /\ prev'[n] = response /\ got' = got
          /\ \A m \in Nodes \ {n} : /\ pc'[m] = pc[m] /\ token'[m] = token[m]
                                    /\ prev'[m] = prev[m]
      BY <2>3, <1>t DEF Goto, TypeOK
    <3>2. UNCHANGED <<upstream, response, age, lock, ver, base>>
      BY <1>2 DEF ReadEntry, entryVars
    <3>3. ~isFresh'
      BY <2>3, <3>2 DEF isFresh
    <3> QED BY <3>1, <3>2, <3>3, <1>t, <1>f, OtherNodes DEF Remembering
  <2>4. CASE Goto(n, "direct") /\ UNCHANGED nodeVars
    BY <1>2, <2>4, <1>g DEF ReadEntry
  <2> QED BY <1>2, <2>1, <2>2, <2>3, <2>4 DEF ReadEntry
<1>3. ASSUME NEW n \in Nodes, Claim(n) PROVE MirrorInv'
  (* The claim is written and n forgets about it.                          *)
  <2>w. ASSUME WriteClaim
        PROVE  /\ ver' \in Tokens /\ ver' # ver /\ ver' # base
               /\ \A m \in Nodes : token[m] # ver'
               /\ ver' = NewToken
               /\ UNCHANGED <<response, age, base>>
    BY <2>w, NewTokenIsNew DEF WriteClaim
  <2>u. upstream' = upstream
    BY <1>3 DEF Claim
  <2>1. CASE /\ Matches(n) /\ WriteClaim
             /\ token' = [token EXCEPT ![n] = NewToken]
             /\ Goto(n, "upstream")
             /\ UNCHANGED <<waited, prev, got, calling, result, faults>>
    <3>1. /\ pc'[n] = "upstream" /\ token'[n] = ver' /\ prev' = prev /\ got' = got
          /\ \A m \in Nodes \ {n} : pc'[m] = pc[m] /\ token'[m] = token[m]
      BY <2>1, <2>w, <1>t DEF Goto, TypeOK
    <3>2. prev[n] = response
      BY <1>3, <2>1 DEF Claim, Matches, MirrorInv, ReadIsCurrent
    <3> QED BY <3>1, <3>2, <2>1, <2>w, <2>u, <1>t, <1>f, OtherNodes DEF Remembering
  <2>2. CASE Goto(n, "sleep") /\ UNCHANGED <<entryVars, nodeVars, faults>>
    BY <2>2, <2>u, <1>g
  <2>3. CASE Fault("claim") /\ ServeStale(n) /\ UNCHANGED entryVars
    <3>1. CASE Return(n, prev[n])
      BY <2>3, <3>1, <2>u, <1>r, <1>f
    <3>2. CASE Goto(n, "direct") /\ UNCHANGED nodeVars
      BY <2>3, <3>2, <2>u, <1>g
    <3> QED BY <2>3, <3>1, <3>2 DEF ServeStale
  <2>4. CASE /\ WriteClaim
             /\ ServeStale(n) \/ (Goto(n, "sleep") /\ UNCHANGED nodeVars)
    <3>1. CASE Return(n, prev[n])
      BY <2>4, <3>1, <2>w, <2>u, <1>t, <1>f, ReturnShape, OtherNodes DEF Remembering
    <3>2. ASSUME NEW p \in {"direct", "sleep"}, Goto(n, p), UNCHANGED nodeVars
          PROVE  MirrorInv'
      <4>1. pc'[n] = p /\ \A m \in Nodes \ {n} : pc'[m] = pc[m]
        BY <3>2, <1>t DEF Goto, TypeOK
      <4> QED BY <2>4, <3>2, <4>1, <2>w, <2>u, <1>t, <1>f, OtherNodes DEF Remembering, nodeVars
    <3> QED BY <2>4, <3>1, <3>2 DEF ServeStale
  <2> QED BY <1>3, <2>1, <2>2, <2>3, <2>4 DEF Claim
<1>4. ASSUME NEW n \in Nodes, CallUpstream(n) PROVE MirrorInv'
  <2>1. /\ pc[n] = "upstream" /\ pc'[n] \in {"publish", "release"}
        /\ pc'[n] = "publish" => got'[n] = upstream
        /\ got'[n] \in {got[n], upstream}
        /\ \A m \in Nodes \ {n} : pc'[m] = pc[m] /\ got'[m] = got[m]
        /\ UNCHANGED <<upstream, response, age, lock, ver, base, token, prev>>
    BY <1>4, <1>t DEF CallUpstream, Goto, TypeOK, entryVars
  <2>2. /\ token[n] # base
        /\ token[n] \in {ver, base} => prev[n] = response
    BY <2>1 DEF MirrorInv, ClaimIsOwn, ReadIsCurrent
  <2> QED BY <2>1, <2>2, <1>t, <1>f, OtherNodes DEF Remembering
<1>5. ASSUME NEW n \in Nodes, Publish(n) PROVE MirrorInv'
  <2>1. pc[n] = "publish" /\ Return(n, got[n]) /\ upstream' = upstream
    BY <1>5 DEF Publish
  <2>2. CASE UNCHANGED entryVars
    BY <2>1, <2>2, <1>r, <1>f
  <2>3. CASE /\ Unused # {}
             /\ ver' = NewToken /\ base' = NewToken /\ response' = got[n]
    BY <2>1, <2>3, NewTokenIsNew, <1>t, <1>f, ReturnShape, OtherNodes DEF Remembering
  <2> QED BY <1>5, <2>2, <2>3 DEF Publish
<1>6. ASSUME NEW n \in Nodes, ReleaseLock(n) PROVE MirrorInv'
  <2>1. pc[n] = "release" /\ Return(n, prev[n]) /\ upstream' = upstream
    BY <1>6 DEF ReleaseLock
  <2>2. CASE UNCHANGED entryVars
    BY <2>1, <2>2, <1>r, <1>f
  <2>3. CASE /\ Matches(n) /\ response' = prev[n] /\ UNCHANGED age
             /\ \/ ETag /\ ver' = base /\ UNCHANGED base
                \/ ~ETag /\ Unused # {} /\ ver' = NewToken /\ base' = NewToken
    <3>1. response' = response
      BY <2>1, <2>3 DEF Matches, MirrorInv, ReadIsCurrent
    <3>2. CASE ver' = base /\ UNCHANGED base
      <4>1. \A m \in Nodes \ {n} : pc[m] \in Remembering /\ token[m] = base => pc[m] = "claim"
        BY DEF MirrorInv, ClaimIsOwn, Remembering
      <4> QED BY <2>1, <2>3, <3>1, <3>2, <4>1, <1>t, <1>f, ReturnShape, OtherNodes
              DEF Remembering
    <3>3. CASE Unused # {} /\ ver' = NewToken /\ base' = NewToken
      BY <2>1, <2>3, <3>1, <3>3, NewTokenIsNew, <1>t, <1>f, ReturnShape, OtherNodes
         DEF Remembering
    <3> QED BY <2>3, <3>2, <3>3
  <2> QED BY <1>6, <2>2, <2>3 DEF ReleaseLock
<1>7. ASSUME NEW n \in Nodes, Direct(n) PROVE MirrorInv'
  BY <1>7, <1>r, <1>f DEF Direct
<1>8. ASSUME NEW n \in Nodes, Crash(n) PROVE MirrorInv'
  BY <1>8, <1>r DEF Crash
<1>9. CASE UpstreamChanges
  BY <1>9, <1>t, <1>f DEF UpstreamChanges, MirrorInv, ReadIsCurrent, ClaimIsOwn, AnswerIsNewer,
     ClaimIsDue, isFresh, entryVars, nodeVars, TypeOK
<1>10. CASE Tick
  <2>1. \A n \in Nodes : pc'[n] \in Remembering => pc'[n] = pc[n]
    BY <1>10, <1>t DEF Tick, TypeOK, Remembering
  <2>2. UNCHANGED <<upstream, response, ver, base, token, prev, got>>
    BY <1>10 DEF Tick
  <2>3. ~isFresh => ~isFresh'
    <3>1. age \in 0..TTL /\ age' >= age
      BY <1>10, <1>t, Durations, OlderBounded DEF Tick, TypeOK
    <3>2. age' \in 0..TTL
      BY <1>t DEF TypeOK
    <3> QED BY <3>1, <3>2, <2>2, Durations DEF isFresh
  <2>4. ReadIsCurrent' /\ ClaimIsOwn' /\ AnswerIsNewer'
    BY <2>1, <2>2 DEF MirrorInv, ReadIsCurrent, ClaimIsOwn, AnswerIsNewer, Remembering
  <2>5. ClaimIsDue'
    BY <2>1, <2>2, <2>3 DEF MirrorInv, ClaimIsDue, Remembering
  <2> QED BY <2>2, <2>4, <2>5, <1>t DEF MirrorInv
<1>11. CASE UNCHANGED vars
  BY <1>11, <1>t DEF vars, entryVars, nodeVars, MirrorInv, ReadIsCurrent, ClaimIsOwn,
     AnswerIsNewer, ClaimIsDue, isFresh
<1> QED BY <1>1, <1>2, <1>3, <1>4, <1>5, <1>6, <1>7, <1>8, <1>9, <1>10, <1>11
        DEF Next, Current

(* The invariant holds in every state.                                     *)
THEOREM CacheInvariant == Spec => []MirrorInv
  BY MirrorInit, MirrorStep, PTL DEF Spec

(***************************************************************************)
(* The variables of the model keep their types.                            *)
(***************************************************************************)
THEOREM CacheTypeCorrect == Spec => []TypeOK
<1>1. MirrorInv => TypeOK
  BY DEF MirrorInv
<1> QED BY <1>1, CacheInvariant, PTL

(***************************************************************************)
(* The cached entry implements the never-going-back mirror: every step of  *)
(* every node is a step of RegistryMirror or leaves it alone.              *)
(***************************************************************************)
THEOREM ImplementsMirror == Spec => RefinesMirror
<1>1. Init => Mirror!Init
  BY DEF Init, Mirror!Init
<1>2. MirrorInv /\ [Next]_vars => [Mirror!Next]_<<upstream, response>>
  <2> SUFFICES ASSUME MirrorInv, Next PROVE [Mirror!Next]_<<upstream, response>>
    BY DEF vars, entryVars
  <2>t. response \in Nat /\ upstream \in Nat /\ response <= upstream
    BY DEF MirrorInv, TypeOK
  <2>1. ASSUME NEW n \in Nodes, Start(n) \/ ReadEntry(n) \/ CallUpstream(n) \/ Direct(n) \/ Crash(n)
        PROVE  UNCHANGED <<upstream, response>>
    BY <2>1 DEF Start, ReadEntry, CallUpstream, Direct, Crash, entryVars
  <2>2. ASSUME NEW n \in Nodes, Claim(n) PROVE UNCHANGED <<upstream, response>>
    BY <2>2 DEF Claim, WriteClaim, entryVars
  <2>3. ASSUME NEW n \in Nodes, Publish(n)
        PROVE  Mirror!Refresh \/ UNCHANGED <<upstream, response>>
    <3>1. got[n] \in Nat /\ got[n] <= upstream
      BY DEF MirrorInv, AnswerIsNewer, TypeOK
    <3>2. Matches(n) => response <= got[n]
      BY <2>3 DEF Publish, Matches, MirrorInv, AnswerIsNewer
    <3> QED BY <2>3, <2>t, <3>1, <3>2 DEF Publish, Mirror!Refresh, entryVars
  <2>4. ASSUME NEW n \in Nodes, ReleaseLock(n) PROVE UNCHANGED <<upstream, response>>
    <3>1. Matches(n) => prev[n] = response
      BY <2>4 DEF ReleaseLock, Matches, MirrorInv, ReadIsCurrent
    <3> QED BY <2>4, <3>1 DEF ReleaseLock, entryVars
  <2>5. CASE UpstreamChanges
    BY <2>5 DEF UpstreamChanges, entryVars, Mirror!Next, Mirror!Change
  <2>6. CASE Tick
    BY <2>6 DEF Tick
  <2> QED BY <2>1, <2>2, <2>3, <2>4, <2>5, <2>6 DEF Next, Current, Mirror!Next
<1> QED BY <1>1, <1>2, CacheInvariant, PTL DEF Spec, RefinesMirror, Mirror!Spec

(***************************************************************************)
(* No node calls upstream through the lock while the entry is fresh.       *)
(***************************************************************************)
THEOREM OnlyStaleRefreshed == Spec => RefreshOnlyWhenStale
<1>1. MirrorInv /\ [Next]_vars
      => [\A n \in Nodes : pc[n] = "claim" /\ pc'[n] = "upstream" => ~isFresh]_vars
  <2> SUFFICES ASSUME MirrorInv, Next, NEW n \in Nodes, pc[n] = "claim", pc'[n] = "upstream"
               PROVE  ~isFresh
    OBVIOUS
  <2>t. pc \in [Nodes -> Phases]
    BY DEF MirrorInv, TypeOK
  <2>1. ASSUME NEW m \in Nodes, NEW p, Goto(m, p), p # "upstream" PROVE FALSE
    BY <2>1, <2>t DEF Goto
  <2>2. ASSUME NEW m \in Nodes, NEW r, Return(m, r) PROVE FALSE
    BY <2>2, <2>1 DEF Return
  <2>3. PICK m \in Nodes : Claim(m)
    <3>1. ~Tick /\ ~UpstreamChanges
      BY <2>t DEF Tick, UpstreamChanges
    <3> QED BY <2>1, <2>2, <3>1
            DEF Next, Current, Start, ReadEntry, CallUpstream, Publish, ReleaseLock, Direct, Crash
  <2>4. Goto(m, "upstream") /\ Matches(m)
    BY <2>1, <2>2, <2>3 DEF Claim, ServeStale
  <2>5. m = n
    BY <2>4, <2>t DEF Goto
  <2> QED BY <2>4, <2>5 DEF Matches, MirrorInv, ClaimIsDue
<1> QED BY <1>1, CacheInvariant, PTL DEF Spec, RefreshOnlyWhenStale

-----------------------------------------------------------------------------
(***************************************************************************)
(* Timely nodes.  The lock excludes other refreshers as long as no node    *)
(* runs out of patience while it is held, whatever faults happen.          *)
(***************************************************************************)
Holding == {"upstream", "publish", "release"}

(* A refreshing node's claim is the object's version and its lock is as    *)
(* old as its call.                                                        *)
OwnsLock ==
    \A n \in Nodes :
        /\ pc[n] \in Holding => /\ token[n] = ver
                                /\ lock = calling[n]
                                /\ lock <= MaxCall
        /\ pc[n] \notin Holding => calling[n] = 0

Alone == \A m, n \in Nodes : pc[m] \in Holding /\ pc[n] \in Holding => m = n

(* A claim that can still succeed was not decided on under a live lock.    *)
ClaimIsFree == \A n \in Nodes : pc[n] = "claim" /\ token[n] = ver => ~isLocked

LockInv == OwnsLock /\ Alone /\ ClaimIsFree

(* No node reads a live lock when its own deadline has passed.             *)
PatienceLasts ==
    \A n \in Nodes : pc[n] = "read" /\ isLocked => waited[n] < Patience

(* The initial state satisfies the invariant: nobody holds the lock.       *)
LEMMA LockInit == Init => LockInv
  BY DEF Init, LockInv, OwnsLock, Alone, ClaimIsFree, Holding

(* While a node holds the lock its claim's lock is live.                   *)
LEMMA HeldIsLive ==
    ASSUME TypeOK, LockInv, MaxCall < LockTTL, NEW n \in Nodes, pc[n] \in Holding
    PROVE  isLocked
<1>1. lock = calling[n] /\ lock <= MaxCall /\ calling[n] \in 0..LockTTL
  BY DEF LockInv, OwnsLock, TypeOK
<1> QED BY <1>1, Durations, ConstantsAssumption DEF isLocked

(***************************************************************************)
(* The lock invariant survives a step of node n that leaves the object     *)
(* alone, or that changes it when no other node holds the lock.            *)
(***************************************************************************)
LEMMA LockOthers ==
    ASSUME TypeOK, TypeOK', LockInv, NEW n \in Nodes,
           \A m \in Nodes \ {n} : /\ pc'[m] = pc[m] /\ token'[m] = token[m]
                                  /\ calling'[m] = calling[m],
           pc'[n] \in Holding => /\ token'[n] = ver' /\ lock' = calling'[n]
                                 /\ lock' <= MaxCall
                                 /\ \A m \in Nodes \ {n} : pc[m] \notin Holding,
           pc'[n] \notin Holding => calling'[n] = 0,
           pc'[n] = "claim" /\ token'[n] = ver' => ~isLocked',
           \/ UNCHANGED <<ver, lock>>
           \/ /\ \A m \in Nodes \ {n} : pc[m] \notin Holding
              /\ lock' = -1 \/ \A m \in Nodes : token[m] # ver'
    PROVE  LockInv'
<1>1. OwnsLock'
  BY DEF LockInv, OwnsLock
<1>2. Alone'
  BY DEF LockInv, Alone
<1>3. ClaimIsFree'
  BY DEF LockInv, ClaimIsFree, isLocked
<1> QED BY <1>1, <1>2, <1>3 DEF LockInv

(* What Return does to the calls.                                          *)
LEMMA ReturnCalls ==
    ASSUME TypeOK, NEW n \in Nodes, NEW r, Return(n, r)
    PROVE  /\ pc'[n] = "idle" /\ calling'[n] = 0 /\ waited'[n] = 0
           /\ \A m \in Nodes \ {n} : /\ pc'[m] = pc[m] /\ token'[m] = token[m]
                                     /\ calling'[m] = calling[m] /\ waited'[m] = waited[m]
                                     /\ got'[m] = got[m] /\ result'[m] = result[m]
           /\ result'[n] = IF r = 0 THEN result[n] ELSE r
  BY DEF TypeOK, Return, Goto

(* Every timely step keeps the lock invariant while patience lasts.        *)
LEMMA LockStep ==
    ASSUME Timely, MaxCall < LockTTL, MirrorInv, LockInv, PatienceLasts, [Next]_vars
    PROVE  LockInv'
<1>t. TypeOK /\ TypeOK'
  BY TypeStep DEF MirrorInv
(* A node that returns, the object being unchanged.                        *)
<1>r. ASSUME NEW n \in Nodes, NEW r, Return(n, r), UNCHANGED entryVars
      PROVE  LockInv'
  BY <1>r, <1>t, ReturnCalls, LockOthers DEF entryVars, Holding
(* A node that does not hold the lock moves to a phase of no consequence.  *)
<1>g. ASSUME NEW n \in Nodes, NEW p \in {"read", "sleep", "direct"}, Goto(n, p),
             pc[n] \notin Holding, UNCHANGED <<entryVars, nodeVars>>
      PROVE  LockInv'
  <2>1. pc'[n] = p /\ \A m \in Nodes \ {n} : pc'[m] = pc[m]
    BY <1>g, <1>t DEF Goto, TypeOK
  <2>2. calling[n] = 0
    BY <1>g DEF LockInv, OwnsLock
  <2> QED BY <1>g, <1>t, <2>1, <2>2, LockOthers DEF entryVars, nodeVars, Holding
<1>1. ASSUME NEW n \in Nodes, Start(n) PROVE LockInv'
  BY <1>1, <1>g DEF Start, Holding
<1>2. ASSUME NEW n \in Nodes, ReadEntry(n) PROVE LockInv'
  <2>0. pc[n] = "read" /\ pc[n] \notin Holding /\ UNCHANGED entryVars
    BY <1>2 DEF ReadEntry, Holding
  <2>1. CASE Return(n, response)
    BY <2>0, <2>1, <1>r
  <2>2. CASE (Goto(n, "sleep") \/ Goto(n, "direct")) /\ UNCHANGED nodeVars
    BY <2>0, <2>2, <1>g
  <2>3. CASE /\ ~(isLocked /\ waited[n] < Patience)
             /\ Goto(n, "claim")
             /\ token' = [token EXCEPT ![n] = ver]
             /\ UNCHANGED calling
    <3>1. /\ pc'[n] = "claim" /\ calling' = calling
          /\ \A m \in Nodes \ {n} : pc'[m] = pc[m] /\ token'[m] = token[m]
      BY <2>3, <1>t DEF Goto, TypeOK
    <3>2. ~isLocked' /\ UNCHANGED <<ver, lock>>
      BY <2>0, <2>3 DEF PatienceLasts, isLocked, entryVars
    <3>3. calling[n] = 0
      BY <2>0 DEF LockInv, OwnsLock
    <3> QED BY <3>1, <3>2, <3>3, <1>t, LockOthers DEF Holding
  <2> QED BY <1>2, <2>1, <2>2, <2>3 DEF ReadEntry
<1>3. ASSUME NEW n \in Nodes, Claim(n) PROVE LockInv'
  <2>0. pc[n] = "claim" /\ pc[n] \notin Holding /\ calling[n] = 0
    BY <1>3 DEF Claim, Holding, LockInv, OwnsLock
  <2>w. ASSUME Matches(n), WriteClaim
        PROVE  /\ \A m \in Nodes : pc[m] \notin Holding
               /\ \A m \in Nodes : token[m] # ver'
               /\ lock' = 0 /\ ver' = NewToken
    <3>1. ~isLocked
      BY <2>0, <2>w DEF Matches, LockInv, ClaimIsFree
    <3>2. \A m \in Nodes : pc[m] \notin Holding
      BY <3>1, <1>t, HeldIsLive
    <3> QED BY <2>w, <3>2, NewTokenIsNew DEF WriteClaim
  <2>1. CASE /\ Matches(n) /\ WriteClaim
             /\ token' = [token EXCEPT ![n] = NewToken]
             /\ Goto(n, "upstream")
             /\ UNCHANGED calling
    <3>1. /\ pc'[n] = "upstream" /\ token'[n] = ver' /\ calling' = calling
          /\ \A m \in Nodes \ {n} : pc'[m] = pc[m] /\ token'[m] = token[m]
      BY <2>1, <2>w, <1>t DEF Goto, TypeOK
    <3>2. 0 <= MaxCall
      BY ConstantsAssumption
    <3> QED BY <3>1, <3>2, <2>0, <2>1, <2>w, <1>t, LockOthers DEF Holding
  <2>2. CASE Goto(n, "sleep") /\ UNCHANGED <<entryVars, nodeVars, faults>>
    BY <2>0, <2>2, <1>g
  <2>3. CASE ServeStale(n) /\ UNCHANGED entryVars
    BY <2>0, <2>3, <1>r, <1>g DEF ServeStale
  <2>4. CASE /\ Matches(n) /\ WriteClaim
             /\ ServeStale(n) \/ (Goto(n, "sleep") /\ UNCHANGED nodeVars)
    <3>1. CASE Return(n, prev[n])
      BY <3>1, <2>4, <2>w, <1>t, ReturnCalls, LockOthers DEF Holding
    <3>2. ASSUME NEW p \in {"direct", "sleep"}, Goto(n, p), UNCHANGED nodeVars
          PROVE  LockInv'
      <4>1. pc'[n] = p /\ \A m \in Nodes \ {n} : pc'[m] = pc[m]
        BY <3>2, <1>t DEF Goto, TypeOK
      <4> QED BY <3>2, <4>1, <2>0, <2>4, <2>w, <1>t, LockOthers DEF Holding, nodeVars
    <3> QED BY <2>4, <3>1, <3>2 DEF ServeStale
  <2> QED BY <1>3, <2>1, <2>2, <2>3, <2>4 DEF Claim
<1>4. ASSUME NEW n \in Nodes, CallUpstream(n) PROVE LockInv'
  <2>1. /\ pc[n] \in Holding /\ pc'[n] \in Holding
        /\ \A m \in Nodes \ {n} : pc'[m] = pc[m]
        /\ UNCHANGED <<lock, ver, token, calling>>
    BY <1>4, <1>t DEF CallUpstream, Goto, TypeOK, entryVars, Holding
  <2>2. /\ token[n] = ver /\ lock = calling[n] /\ lock <= MaxCall
        /\ \A m \in Nodes \ {n} : pc[m] \notin Holding
    BY <2>1 DEF LockInv, OwnsLock, Alone
  <2>3. pc'[n] # "claim"
    BY <2>1 DEF Holding
  <2> QED BY <2>1, <2>2, <2>3, <1>t, LockOthers
<1>5. ASSUME NEW n \in Nodes, Publish(n) \/ ReleaseLock(n) PROVE LockInv'
  <2>1. pc[n] \in Holding /\ \E r : Return(n, r)
    BY <1>5 DEF Publish, ReleaseLock, Holding
  <2>2. UNCHANGED entryVars \/ lock' = -1
    BY <1>5 DEF Publish, ReleaseLock
  <2>3. \A m \in Nodes \ {n} : pc[m] \notin Holding
    BY <2>1 DEF LockInv, Alone
  <2> QED BY <2>1, <2>2, <2>3, <1>t, <1>r, ReturnCalls, LockOthers DEF Holding
<1>6. ASSUME NEW n \in Nodes, Direct(n) \/ Crash(n) PROVE LockInv'
  BY <1>6, <1>r DEF Direct, Crash
<1>7. CASE UpstreamChanges
  BY <1>7 DEF UpstreamChanges, entryVars, nodeVars, LockInv, OwnsLock, Alone, ClaimIsFree, isLocked
<1>8. CASE Tick
  <2>1. \A n \in Nodes : /\ pc[n] \in {"idle", "sleep", "upstream"}
                         /\ pc[n] = "upstream" => calling[n] < MaxCall
    BY <1>8 DEF Tick
  <2>2. \A n \in Nodes : /\ pc'[n] # "claim"
                         /\ pc'[n] \in Holding <=> pc[n] = "upstream"
                         /\ calling'[n] = IF pc[n] = "upstream" THEN Older(calling[n], LockTTL)
                                          ELSE calling[n]
    BY <1>8, <2>1, <1>t DEF Tick, TypeOK, Holding
  <2>3. ASSUME NEW n \in Nodes, pc[n] = "upstream"
        PROVE  lock' = calling'[n] /\ lock' <= MaxCall /\ token'[n] = ver'
    <3>1. lock = calling[n] /\ token[n] = ver /\ calling[n] \in 0..LockTTL /\ calling[n] < MaxCall
      BY <2>1, <2>3, <1>t DEF LockInv, OwnsLock, Holding, TypeOK
    <3>2. lock' = Older(lock, LockTTL) /\ UNCHANGED <<ver, token>>
      BY <1>8, <3>1 DEF Tick
    <3> QED BY <2>2, <2>3, <3>1, <3>2, ConstantsAssumption DEF Older
  <2>4. OwnsLock'
    <3>1. \A n \in Nodes : pc[n] # "upstream" => calling[n] = 0
      BY <2>1 DEF LockInv, OwnsLock, Holding
    <3> QED BY <2>2, <2>3, <3>1 DEF OwnsLock, Holding
  <2> QED BY <2>2, <2>4 DEF LockInv, Alone, ClaimIsFree, Holding
<1>9. CASE UNCHANGED vars
  BY <1>9 DEF vars, entryVars, nodeVars, LockInv, OwnsLock, Alone, ClaimIsFree, isLocked
<1> QED BY <1>1, <1>2, <1>3, <1>4, <1>5, <1>6, <1>7, <1>8, <1>9 DEF Next, Current

(* The lock invariant leaves at most one refreshing node.                  *)
LEMMA LockExcludes == LockInv => OneRefresher
<1> SUFFICES ASSUME LockInv PROVE OneRefresher
  OBVIOUS
<1>1. CASE Refreshing = {}
  BY <1>1, FS_EmptySet DEF OneRefresher
<1>2. CASE Refreshing # {}
  <2>1. PICK n : n \in Refreshing
    BY <1>2
  <2>2. Refreshing = {n}
    BY <2>1 DEF Refreshing, LockInv, Alone, Holding
  <2> QED BY <2>2, FS_Singleton DEF OneRefresher
<1> QED BY <1>1, <1>2

(***************************************************************************)
(* Whatever faults happen, at most one node refreshes at a time while no   *)
(* node runs out of patience with a live lock: when upstream calls are     *)
(* shorter than the lock's life, the lock of Current fails to exclude only *)
(* where Current itself gives up waiting for it.                           *)
(***************************************************************************)
THEOREM LockExcludesWhilePatient ==
    ASSUME Timely, MaxCall < LockTTL
    PROVE  Spec /\ []PatienceLasts => []OneRefresher
<1>1. MirrorInv /\ LockInv /\ PatienceLasts /\ [Next]_vars => LockInv'
  BY LockStep
<1> QED BY <1>1, LockInit, LockExcludes, CacheInvariant, PTL DEF Spec

-----------------------------------------------------------------------------
(***************************************************************************)
(* How long a node can wait.  When the only faults are failing upstream    *)
(* calls, reads and claims, every lock has a holder, and a node waits for  *)
(* one call after another only if the earlier ones failed.                 *)
(***************************************************************************)
Waiting == {"read", "sleep", "claim"}

(* The time all the failed calls so far can have kept a node waiting, each *)
(* with the unit in which the lock is found released.                      *)
Spent == faults * (MaxCall + 1)

NoOrphan == lock # -1 => \E n \in Nodes : pc[n] \in Holding

AnswersAreReal ==
    /\ upstream # 0
    /\ \A n \in Nodes : pc[n] = "publish" => got[n] # 0

ReleaseIsFault == \A n \in Nodes : pc[n] = "release" => faults # 0

WaitFromZero == \A n \in Nodes : pc[n] = "idle" => waited[n] = 0

(* A node waits for the failed calls and the one that is going on; it is   *)
(* about to sleep on a fresh entry only at the instant of the publication, *)
(* and will find it fresh.                                                 *)
WaitOf(n) ==
    /\ lock # -1 => waited[n] <= Spent + lock
    /\ (\E m \in Nodes : pc[m] = "release") => waited[n] < Spent
    /\ lock = -1 /\ ~isFresh =>
          /\ waited[n] <= Spent
          /\ pc[n] = "sleep" \/ (pc[n] = "claim" /\ token[n] # ver) => waited[n] < Spent
    /\ isFresh /\ pc[n] # "read" => age = 0

WaitInv ==
    /\ NoOrphan
    /\ AnswersAreReal
    /\ ReleaseIsFault
    /\ WaitFromZero
    /\ \A n \in Nodes : pc[n] \in Waiting => WaitOf(n)
    /\ faults <= MaxFaults

(* The faults after which the lock is still held by the node that calls.   *)
CallsOnlyFail == FaultKinds \cap {"lost", "publish", "release", "crash"} = {}

(* All the failing calls, and one that succeeds, fit in a lock's life.     *)
CallsFit ==
    /\ TTL > 1
    /\ MaxCall < LockTTL
    /\ MaxFaults * (MaxCall + 1) + MaxCall <= LockTTL

(* Multiples of k are ordered like their factors.                          *)
LEMMA Multiples ==
    ASSUME NEW i \in Nat, NEW j \in Nat, NEW k \in Nat
    PROVE  /\ i * k \in Nat
           /\ (i + 1) * k = i * k + k
           /\ i # 0 => i * k >= k
           /\ i <= j => i * k <= j * k
<1>1. i * k \in Nat
  OBVIOUS
<1>2. (i + 1) * k = i * k + k
  OBVIOUS
<1>3. i # 0 => i * k >= k
  OBVIOUS
<1>4. i <= j => i * k <= j * k
  OBVIOUS
<1> QED BY <1>1, <1>2, <1>3, <1>4

(* One more failed call.                                                   *)
LEMMA SpentGrows ==
    ASSUME TypeOK, TypeOK'
    PROVE  /\ Spent \in Nat /\ Spent' \in Nat
           /\ faults' = faults => Spent' = Spent
           /\ faults' = faults + 1 => Spent' = Spent + MaxCall + 1
           /\ faults # 0 => Spent > MaxCall
           /\ faults <= MaxFaults => Spent <= MaxFaults * (MaxCall + 1)
<1>1. PICK k \in Nat : k = MaxCall + 1
  BY ConstantsAssumption
<1>2. faults \in Nat /\ faults' \in Nat /\ MaxFaults \in Nat /\ MaxCall \in Nat
  BY ConstantsAssumption DEF TypeOK
<1>3. Spent = faults * k /\ Spent' = faults' * k
  BY <1>1 DEF Spent
<1>4. Spent \in Nat /\ Spent' \in Nat
  BY <1>2, <1>3, Multiples
<1>5. faults' = faults + 1 => Spent' = Spent + k
  BY <1>2, <1>3, Multiples
<1>6. faults # 0 => Spent >= k
  BY <1>2, <1>3, Multiples
<1>7. faults <= MaxFaults => Spent <= MaxFaults * k
  BY <1>2, <1>3, Multiples
<1>8. faults' = faults => Spent' = Spent
  BY <1>3
<1>9. Spent' = Spent + k => Spent' = Spent + MaxCall + 1
  BY <1>1, <1>2, <1>4
<1>10. Spent >= k => Spent > MaxCall
  BY <1>1, <1>2, <1>4
<1> QED BY <1>1, <1>4, <1>5, <1>6, <1>7, <1>8, <1>9, <1>10

(* Nobody waits at first.                                                  *)
LEMMA WaitInit == Init => WaitInv
  BY ConstantsAssumption
  DEF Init, WaitInv, NoOrphan, AnswersAreReal, ReleaseIsFault, WaitFromZero, Waiting

(***************************************************************************)
(* The waiting invariant survives a step of node n that leaves the object  *)
(* alone and does not give up the lock.                                    *)
(***************************************************************************)
LEMMA WaitOthers ==
    ASSUME TypeOK, TypeOK', WaitInv, NEW n \in Nodes,
           \A m \in Nodes \ {n} : /\ pc'[m] = pc[m] /\ token'[m] = token[m]
                                  /\ waited'[m] = waited[m] /\ got'[m] = got[m],
           UNCHANGED <<upstream, response, age, lock, ver, base>>,
           faults' \in {faults, faults + 1}, faults' <= MaxFaults,
           pc[n] \in Holding => pc'[n] \in Holding,
           pc'[n] = "publish" => got'[n] # 0,
           pc'[n] = "release" => lock \in 0..MaxCall /\ faults' = faults + 1,
           pc'[n] = "idle" => waited'[n] = 0,
           pc'[n] \in Waiting => WaitOf(n)'
    PROVE  WaitInv'
<1>t. faults \in Nat /\ MaxCall \in Nat /\ lock \in Int
      /\ \A m \in Nodes : waited[m] \in Nat
  BY ConstantsAssumption, Durations DEF TypeOK
<1>1. NoOrphan' /\ AnswersAreReal' /\ ReleaseIsFault' /\ WaitFromZero'
  <2>1. NoOrphan'
    BY DEF WaitInv, NoOrphan
  <2>2. AnswersAreReal'
    BY DEF WaitInv, AnswersAreReal
  <2>3. ReleaseIsFault'
    BY <1>t DEF WaitInv, ReleaseIsFault
  <2>4. WaitFromZero'
    BY DEF WaitInv, WaitFromZero
  <2> QED BY <2>1, <2>2, <2>3, <2>4
<1>2. /\ Spent \in Nat /\ Spent' \in Nat /\ Spent <= Spent'
      /\ faults' = faults + 1 => Spent' = Spent + MaxCall + 1
  BY SpentGrows, <1>t
<1>3. isFresh' <=> isFresh
  BY DEF isFresh
<1>4. ASSUME NEW m \in Nodes \ {n}, pc'[m] \in Waiting PROVE WaitOf(m)'
  <2>1. WaitOf(m) /\ pc'[m] = pc[m] /\ token'[m] = token[m] /\ waited'[m] = waited[m]
    BY <1>4 DEF WaitInv
  <2>2. lock' # -1 => waited'[m] <= Spent' + lock'
    BY <2>1, <1>2, <1>t DEF WaitOf
  <2>3. (\E x \in Nodes : pc'[x] = "release") => waited'[m] < Spent'
    <3>1. CASE pc'[n] = "release"
      <4>1. lock \in 0..MaxCall /\ Spent' = Spent + MaxCall + 1
        BY <3>1, <1>2
      <4>2. waited[m] <= Spent + lock
        BY <4>1, <2>1, <1>t DEF WaitOf
      <4> QED BY <4>1, <4>2, <2>1, <1>2, <1>t
    <3>2. CASE pc'[n] # "release"
      <4>1. (\E x \in Nodes : pc'[x] = "release") => \E x \in Nodes : pc[x] = "release"
        BY <3>2
      <4>2. waited[m] < Spent => waited'[m] < Spent'
        BY <2>1, <1>2, <1>t
      <4> QED BY <4>1, <4>2, <2>1 DEF WaitOf
    <3> QED BY <3>1, <3>2
  <2>4. lock' = -1 /\ ~isFresh' =>
           /\ waited'[m] <= Spent'
           /\ pc'[m] = "sleep" \/ (pc'[m] = "claim" /\ token'[m] # ver') => waited'[m] < Spent'
    BY <2>1, <1>2, <1>3, <1>t DEF WaitOf
  <2>5. isFresh' /\ pc'[m] # "read" => age' = 0
    BY <2>1, <1>3 DEF WaitOf
  <2> QED BY <2>2, <2>3, <2>4, <2>5 DEF WaitOf
<1>5. \A m \in Nodes : pc'[m] \in Waiting => WaitOf(m)'
  BY <1>4
<1> QED BY <1>1, <1>5 DEF WaitInv, Waiting

(* The age of a lock that is held.                                         *)
LEMMA LockAge ==
    ASSUME TypeOK, LockInv, WaitInv, lock # -1
    PROVE  lock \in 0..MaxCall
<1>1. PICK n \in Nodes : pc[n] \in Holding
  BY DEF WaitInv, NoOrphan
<1> QED BY <1>1, ConstantsAssumption, Durations DEF LockInv, OwnsLock, TypeOK

(* Every timely step keeps the waiting invariant.                          *)
LEMMA WaitStep ==
    ASSUME Timely, CallsOnlyFail, CallsFit, MirrorInv, LockInv, WaitInv, [Next]_vars
    PROVE  WaitInv'
<1>t. TypeOK /\ TypeOK'
  BY TypeStep DEF MirrorInv
<1>n. /\ faults \in Nat /\ MaxCall \in Nat /\ MaxFaults \in Nat /\ lock \in Int
      /\ TTL \in Nat /\ age \in Nat /\ upstream \in Nat /\ LockTTL \in Nat /\ Patience \in Nat
      /\ \A m \in Nodes : waited[m] \in Nat
      /\ MaxCall < LockTTL
  BY <1>t, ConstantsAssumption, Durations DEF TypeOK, CallsFit
<1>s. /\ Spent \in Nat
      /\ faults # 0 => Spent > MaxCall
      /\ faults' = faults => Spent' = Spent
  BY <1>t, SpentGrows
<1>f. ASSUME NEW k, Fault(k) PROVE faults' = faults + 1 /\ faults' <= MaxFaults /\ k \in FaultKinds
  BY <1>f, <1>n DEF Fault
(* A node that gives up no lock returns, the object being unchanged.       *)
<1>r. ASSUME NEW n \in Nodes, NEW r, Return(n, r), pc[n] \notin Holding,
             UNCHANGED <<upstream, entryVars>>,
             faults' \in {faults, faults + 1}, faults' <= MaxFaults
      PROVE  WaitInv'
  BY <1>r, <1>t, ReturnCalls, WaitOthers DEF entryVars, Holding, Waiting
<1>d. ASSUME NEW n \in Nodes, Goto(n, "direct"), pc[n] \notin Holding,
             UNCHANGED <<upstream, entryVars, nodeVars>>,
             faults' \in {faults, faults + 1}, faults' <= MaxFaults
      PROVE  WaitInv'
  <2>1. pc'[n] = "direct" /\ \A m \in Nodes \ {n} : pc'[m] = pc[m]
    BY <1>d, <1>t DEF Goto, TypeOK
  <2> QED BY <1>d, <2>1, <1>t, WaitOthers DEF entryVars, nodeVars, Holding, Waiting
<1>m. faults <= MaxFaults
  BY DEF WaitInv
<1>1. ASSUME NEW n \in Nodes, Start(n) PROVE WaitInv'
  <2>1. /\ pc[n] = "idle" /\ pc'[n] = "read" /\ \A m \in Nodes \ {n} : pc'[m] = pc[m]
        /\ UNCHANGED <<upstream, response, age, lock, ver, base, waited, token, got, faults>>
    BY <1>1, <1>t DEF Start, Goto, TypeOK, entryVars, nodeVars
  <2>2. waited[n] = 0
    BY <2>1 DEF WaitInv, WaitFromZero
  <2>3. (\E m \in Nodes : pc'[m] = "release") => faults # 0
    BY <2>1 DEF WaitInv, ReleaseIsFault
  <2>4. lock # -1 => lock >= 0
    BY <1>t, Durations DEF TypeOK
  <2>5. WaitOf(n)'
    BY <2>1, <2>2, <2>3, <2>4, <1>s, <1>n DEF WaitOf
  <2> QED BY <2>1, <2>5, <1>m, <1>t, WaitOthers DEF Holding, Waiting
<1>2. ASSUME NEW n \in Nodes, ReadEntry(n) PROVE WaitInv'
  <2>0. /\ pc[n] = "read" /\ pc[n] \notin Holding
        /\ UNCHANGED <<upstream, entryVars>>
        /\ WaitOf(n)
    BY <1>2 DEF ReadEntry, Holding, Waiting, WaitInv
  <2>1. CASE Return(n, response) /\ UNCHANGED faults
    BY <2>0, <2>1, <1>m, <1>r
  <2>2. CASE /\ ~isFresh /\ isLocked
             /\ Goto(n, "sleep") /\ UNCHANGED <<nodeVars, faults>>
    <3>1. /\ pc'[n] = "sleep" /\ \A m \in Nodes \ {n} : pc'[m] = pc[m]
          /\ UNCHANGED <<upstream, response, age, lock, ver, base, waited, token, got, faults>>
      BY <2>0, <2>2, <1>t DEF Goto, TypeOK, entryVars, nodeVars
    <3>2. (\E m \in Nodes : pc'[m] = "release") => \E m \in Nodes : pc[m] = "release"
      BY <3>1
    <3>3. lock # -1 /\ ~isFresh'
      BY <2>2, <3>1 DEF isLocked, isFresh
    <3>4. WaitOf(n)'
      BY <2>0, <3>1, <3>2, <3>3, <1>s DEF WaitOf
    <3> QED BY <3>1, <3>4, <2>0, <1>m, <1>t, WaitOthers DEF Holding, Waiting
  <2>3. CASE /\ ~isFresh
             /\ Goto(n, "claim")
             /\ token' = [token EXCEPT ![n] = ver]
             /\ UNCHANGED <<waited, got, faults>>
    <3>1. /\ pc'[n] = "claim" /\ token'[n] = ver
          /\ \A m \in Nodes \ {n} : pc'[m] = pc[m] /\ token'[m] = token[m]
          /\ UNCHANGED <<upstream, response, age, lock, ver, base, waited, got, faults>>
      BY <2>0, <2>3, <1>t DEF Goto, TypeOK, entryVars
    <3>2. (\E m \in Nodes : pc'[m] = "release") => \E m \in Nodes : pc[m] = "release"
      BY <3>1
    <3>3. ~isFresh'
      BY <2>3, <3>1 DEF isFresh
    <3>4. WaitOf(n)'
      BY <2>0, <2>3, <3>1, <3>2, <3>3, <1>s DEF WaitOf
    <3> QED BY <3>1, <3>4, <2>0, <1>m, <1>t, WaitOthers DEF Holding, Waiting
  <2>4. CASE Fault("read") /\ Goto(n, "direct") /\ UNCHANGED nodeVars
    BY <2>0, <2>4, <1>f, <1>d
  <2> QED BY <1>2, <2>1, <2>2, <2>3, <2>4 DEF ReadEntry
<1>3. ASSUME NEW n \in Nodes, Claim(n) PROVE WaitInv'
  <2>0. /\ pc[n] = "claim" /\ pc[n] \notin Holding
        /\ UNCHANGED upstream /\ WaitOf(n)
    BY <1>3 DEF Claim, Holding, Waiting, WaitInv
  <2>1. CASE /\ Matches(n) /\ WriteClaim
             /\ token' = [token EXCEPT ![n] = NewToken]
             /\ Goto(n, "upstream")
             /\ UNCHANGED <<waited, got, faults>>
    <3>1. ~isLocked /\ ~isFresh
      BY <2>0, <2>1 DEF Matches, LockInv, ClaimIsFree, MirrorInv, ClaimIsDue
    <3>2. \A m \in Nodes : pc[m] \notin Holding
      BY <3>1, <1>t, <1>n, HeldIsLive
    <3>3. lock = -1
      BY <3>2 DEF WaitInv, NoOrphan
    <3>4. /\ pc'[n] = "upstream" /\ lock' = 0
          /\ \A m \in Nodes \ {n} : pc'[m] = pc[m]
          /\ UNCHANGED <<upstream, response, age, waited, got, faults>>
      BY <2>0, <2>1, <1>t DEF WriteClaim, Goto, TypeOK
    <3>5. \A m \in Nodes : pc'[m] \notin {"release", "publish"} /\ (pc'[m] = "idle" => pc[m] = "idle")
      BY <3>2, <3>4 DEF Holding
    <3>6. ~isFresh'
      BY <3>1, <3>4 DEF isFresh
    <3>7. ASSUME NEW m \in Nodes, pc'[m] \in Waiting PROVE WaitOf(m)'
      <4>1. WaitOf(m) /\ pc'[m] = pc[m]
        BY <3>4, <3>7 DEF WaitInv, Waiting
      <4>2. waited[m] <= Spent
        BY <4>1, <3>1, <3>3 DEF WaitOf
      <4> QED BY <4>2, <3>4, <3>5, <3>6, <1>s, <1>n DEF WaitOf
    <3>8. NoOrphan'
      BY <3>4 DEF NoOrphan, Holding
    <3> QED BY <3>4, <3>5, <3>7, <3>8
            DEF WaitInv, AnswersAreReal, ReleaseIsFault, WaitFromZero
  <2>2. CASE ~Matches(n) /\ Goto(n, "sleep") /\ UNCHANGED <<entryVars, nodeVars, faults>>
    <3>1. /\ pc'[n] = "sleep" /\ \A m \in Nodes \ {n} : pc'[m] = pc[m]
          /\ UNCHANGED <<upstream, response, age, lock, ver, base, waited, token, got, faults>>
      BY <2>0, <2>2, <1>t DEF Goto, TypeOK, entryVars, nodeVars
    <3>2. (\E m \in Nodes : pc'[m] = "release") => \E m \in Nodes : pc[m] = "release"
      BY <3>1
    <3>3. (isFresh' <=> isFresh) /\ token[n] # ver
      BY <2>2, <3>1 DEF isFresh, Matches
    <3>4. WaitOf(n)'
      BY <2>0, <3>1, <3>2, <3>3, <1>s DEF WaitOf
    <3> QED BY <3>1, <3>4, <2>0, <1>m, <1>t, WaitOthers DEF Holding, Waiting
  <2>3. CASE Fault("claim") /\ ServeStale(n) /\ UNCHANGED entryVars
    BY <2>0, <2>3, <1>f, <1>r, <1>d DEF ServeStale
  <2>4. ~Fault("lost")
    BY DEF Fault, CallsOnlyFail
  <2> QED BY <1>3, <2>1, <2>2, <2>3, <2>4 DEF Claim
<1>4. ASSUME NEW n \in Nodes, CallUpstream(n) PROVE WaitInv'
  <2>1. /\ pc[n] = "upstream"
        /\ \A m \in Nodes \ {n} : pc'[m] = pc[m] /\ got'[m] = got[m]
        /\ UNCHANGED <<upstream, response, age, lock, ver, base, waited, token>>
    BY <1>4, <1>t DEF CallUpstream, Goto, TypeOK, entryVars
  <2>2. \/ pc'[n] = "publish" /\ got'[n] = upstream /\ faults' = faults
        \/ pc'[n] = "release" /\ Fault("upstream")
    BY <1>4, <1>t DEF CallUpstream, Goto, TypeOK
  <2>3. upstream # 0
    BY DEF WaitInv, AnswersAreReal
  <2>4. lock \in 0..MaxCall
    <3>1. lock = calling[n] /\ calling[n] \in 0..LockTTL
      BY <2>1, <1>t DEF LockInv, OwnsLock, Holding, TypeOK
    <3> QED BY <3>1, <1>t, <1>n, LockAge
  <2>5. CASE pc'[n] = "publish" /\ got'[n] = upstream /\ faults' = faults
    BY <2>1, <2>3, <2>5, <1>m, <1>t, WaitOthers DEF Holding, Waiting
  <2>6. CASE pc'[n] = "release" /\ Fault("upstream")
    BY <2>1, <2>4, <2>6, <1>f, <1>t, WaitOthers DEF Holding, Waiting
  <2> QED BY <2>2, <2>5, <2>6
<1>5. ASSUME NEW n \in Nodes, Publish(n) PROVE WaitInv'
  <2>1. pc[n] = "publish" /\ Return(n, got[n]) /\ upstream' = upstream /\ got[n] # 0
    BY <1>5 DEF Publish, WaitInv, AnswersAreReal
  <2>2. Matches(n) /\ ~Fault("publish")
    BY <2>1 DEF Matches, LockInv, OwnsLock, Holding, Fault, CallsOnlyFail
  <2>3. response' = got[n] /\ age' = 0 /\ lock' = -1 /\ faults' = faults
    BY <1>5, <2>2 DEF Publish
  <2>4. isFresh'
    BY <2>1, <2>3, <1>n, Durations DEF isFresh
  <2>5. \A m \in Nodes \ {n} : pc[m] \notin Holding
    BY <2>1 DEF LockInv, Alone, Holding
  <2>6. /\ pc'[n] = "idle" /\ waited'[n] = 0
        /\ \A m \in Nodes \ {n} : pc'[m] = pc[m] /\ waited'[m] = waited[m]
    BY <2>1, <1>t, ReturnCalls
  <2>7. \A m \in Nodes : pc'[m] \notin Holding
    BY <2>5, <2>6 DEF Holding
  <2>8. \A m \in Nodes : pc'[m] \in Waiting => WaitOf(m)'
    BY <2>3, <2>4, <2>7 DEF WaitOf, Holding
  <2>9. NoOrphan' /\ AnswersAreReal' /\ ReleaseIsFault' /\ WaitFromZero'
    BY <2>1, <2>3, <2>6, <2>7
       DEF WaitInv, NoOrphan, AnswersAreReal, ReleaseIsFault, WaitFromZero, Holding
  <2> QED BY <2>3, <2>8, <2>9 DEF WaitInv
<1>6. ASSUME NEW n \in Nodes, ReleaseLock(n) PROVE WaitInv'
  <2>1. pc[n] = "release" /\ Return(n, prev[n]) /\ upstream' = upstream
    BY <1>6 DEF ReleaseLock
  <2>2. Matches(n) /\ ~Fault("release")
    BY <2>1 DEF Matches, LockInv, OwnsLock, Holding, Fault, CallsOnlyFail
  <2>3. response' = prev[n] /\ age' = age /\ lock' = -1 /\ faults' = faults
    BY <1>6, <2>2 DEF ReleaseLock
  <2>4. isFresh' <=> isFresh
    <3>1. prev[n] = response
      BY <2>1, <2>2 DEF Matches, MirrorInv, ReadIsCurrent
    <3> QED BY <2>3, <3>1 DEF isFresh
  <2>5. \A m \in Nodes \ {n} : pc[m] \notin Holding
    BY <2>1 DEF LockInv, Alone, Holding
  <2>6. /\ pc'[n] = "idle" /\ waited'[n] = 0
        /\ \A m \in Nodes \ {n} : pc'[m] = pc[m] /\ waited'[m] = waited[m]
    BY <2>1, <1>t, ReturnCalls
  <2>7. \A m \in Nodes : pc'[m] \notin Holding
    BY <2>5, <2>6 DEF Holding
  <2>8. ASSUME NEW m \in Nodes, pc'[m] \in Waiting PROVE WaitOf(m)'
    <3>1. WaitOf(m) /\ pc'[m] = pc[m] /\ waited'[m] = waited[m]
      BY <2>6, <2>8 DEF WaitInv, Waiting
    <3>2. waited[m] < Spent
      BY <3>1, <2>1 DEF WaitOf
    <3>3. waited'[m] < Spent' /\ waited'[m] <= Spent'
      BY <3>1, <3>2, <2>3, <1>s, <1>n
    <3>4. isFresh' /\ pc'[m] # "read" => age' = 0
      BY <2>3, <2>4, <3>1 DEF WaitOf
    <3> QED BY <2>3, <2>7, <3>3, <3>4 DEF WaitOf, Holding
  <2>9. NoOrphan' /\ AnswersAreReal' /\ ReleaseIsFault' /\ WaitFromZero'
    BY <2>1, <2>3, <2>6, <2>7
       DEF WaitInv, NoOrphan, AnswersAreReal, ReleaseIsFault, WaitFromZero, Holding
  <2> QED BY <2>3, <2>8, <2>9 DEF WaitInv
<1>7. ASSUME NEW n \in Nodes, Direct(n) PROVE WaitInv'
  BY <1>7, <1>r, <1>f, <1>m DEF Direct, Holding
<1>8. ASSUME NEW n \in Nodes, Crash(n) PROVE FALSE
  BY <1>8 DEF Crash, Fault, CallsOnlyFail
<1>9. CASE UpstreamChanges
  <2>1. UNCHANGED <<response, age, lock, ver, pc, waited, token, got, faults>> /\ upstream' # 0
    BY <1>9, <1>n DEF UpstreamChanges, entryVars, nodeVars
  <2>2. Spent' = Spent /\ (isFresh' <=> isFresh)
    BY <2>1, <1>s DEF isFresh
  <2>3. \A m \in Nodes : WaitOf(m) => WaitOf(m)'
    BY <2>1, <2>2 DEF WaitOf
  <2> QED BY <2>1, <2>3 DEF WaitInv, NoOrphan, AnswersAreReal, ReleaseIsFault, WaitFromZero
<1>10. CASE Tick
  <2>1. \A m \in Nodes : pc[m] \in {"idle", "sleep", "upstream"}
    BY <1>10 DEF Tick
  <2>2. \A m \in Nodes : /\ pc'[m] = IF pc[m] = "sleep" THEN "read" ELSE pc[m]
                         /\ waited'[m] = IF pc[m] = "idle" THEN 0 ELSE Older(waited[m], Patience)
    BY <1>10 DEF Tick
  <2>3. UNCHANGED <<upstream, response, got, faults>>
    BY <1>10 DEF Tick
  <2>4. \A m \in Nodes : pc'[m] \notin {"release", "publish", "claim", "sleep"}
    BY <2>1, <2>2
  <2>5. lock' = IF lock = -1 THEN -1 ELSE lock + 1
    <3>1. lock # -1 => lock \in 0..MaxCall
      BY <1>t, LockAge
    <3> QED BY <1>10, <3>1, <1>n DEF Tick, Older
  <2>6. ASSUME NEW m \in Nodes, pc'[m] \in Waiting PROVE WaitOf(m)'
    <3>1. pc[m] = "sleep" /\ pc'[m] = "read" /\ WaitOf(m)
      BY <2>1, <2>2, <2>6 DEF WaitInv, Waiting
    <3>2. waited'[m] \in Nat /\ waited'[m] <= waited[m] + 1
      BY <2>2, <3>1, <1>n DEF Older
    <3>3. Spent' = Spent
      BY <2>3, <1>s
    <3>4. lock' # -1 => waited'[m] <= Spent' + lock'
      BY <2>5, <3>1, <3>2, <3>3, <1>s, <1>n DEF WaitOf
    <3>5. lock' = -1 /\ ~isFresh' => waited'[m] <= Spent'
      <4>1. CASE isFresh
        <5>1. age = 0
          BY <3>1, <4>1 DEF WaitOf
        <5>2. age' = 1 /\ 1 < TTL
          BY <1>10, <5>1, <1>n DEF Tick, Older, CallsFit
        <5>3. isFresh'
          BY <4>1, <5>2, <2>3 DEF isFresh
        <5> QED BY <5>3
      <4>2. CASE ~isFresh
        <5>1. lock' = -1 => lock = -1
          BY <2>5, <1>t, <1>n, LockAge
        <5> QED BY <4>2, <5>1, <3>1, <3>2, <3>3, <1>s, <1>n DEF WaitOf
      <4> QED BY <4>1, <4>2
    <3> QED BY <2>4, <3>1, <3>4, <3>5 DEF WaitOf
  <2>7. NoOrphan'
    <3>1. \A m \in Nodes : pc[m] \in Holding => pc'[m] \in Holding
      BY <2>2 DEF Holding
    <3>2. lock' # -1 => lock # -1
      BY <2>5
    <3> QED BY <3>1, <3>2 DEF WaitInv, NoOrphan
  <2>8. AnswersAreReal' /\ ReleaseIsFault' /\ WaitFromZero'
    BY <2>2, <2>3, <2>4 DEF WaitInv, AnswersAreReal, ReleaseIsFault, WaitFromZero
  <2> QED BY <2>3, <2>6, <2>7, <2>8 DEF WaitInv
<1>11. CASE UNCHANGED vars
  <2>1. UNCHANGED <<upstream, response, age, lock, ver, pc, waited, token, got, faults>>
    BY <1>11 DEF vars, entryVars, nodeVars
  <2>2. Spent' = Spent /\ (isFresh' <=> isFresh)
    BY <2>1, <1>s DEF isFresh
  <2>3. \A m \in Nodes : WaitOf(m) => WaitOf(m)'
    BY <2>1, <2>2 DEF WaitOf
  <2> QED BY <2>1, <2>3 DEF WaitInv, NoOrphan, AnswersAreReal, ReleaseIsFault, WaitFromZero
<1> QED BY <1>1, <1>2, <1>3, <1>4, <1>5, <1>6, <1>7, <1>8, <1>9, <1>10, <1>11
        DEF Next, Current

(* Waits that are bounded by the calls end before the deadline.            *)
LEMMA PatienceEnough ==
    ASSUME CallsFit, TypeOK, TypeOK', LockInv, WaitInv
    PROVE  PatienceLasts
<1> SUFFICES ASSUME NEW n \in Nodes, pc[n] = "read", isLocked PROVE waited[n] < Patience
  BY DEF PatienceLasts
<1>1. WaitOf(n) /\ lock # -1
  BY DEF WaitInv, Waiting, isLocked
<1>2. lock \in 0..MaxCall /\ waited[n] <= Spent + lock
  BY <1>1, LockAge DEF WaitOf
<1>3. PICK b \in Int : b = MaxFaults * (MaxCall + 1)
  BY ConstantsAssumption
<1>4. Spent \in Nat /\ Spent <= b /\ b + MaxCall <= LockTTL
  BY <1>3, SpentGrows DEF WaitInv, CallsFit
<1> QED BY <1>2, <1>4, Durations, ConstantsAssumption DEF Patience, TypeOK

(* The invariant of timely nodes whose calls may fail.                     *)
TimelyInv == MirrorInv /\ LockInv /\ WaitInv

(* Together the invariants are inductive: bounded waits keep patience, and *)
(* patience keeps the lock exclusive.                                      *)
LEMMA TimelyHolds ==
    ASSUME Timely, CallsOnlyFail, CallsFit
    PROVE  Spec => []TimelyInv
<1>1. Init => TimelyInv
  BY MirrorInit, LockInit, WaitInit DEF TimelyInv
<1>2. TimelyInv /\ [Next]_vars => TimelyInv'
  <2> SUFFICES ASSUME TimelyInv, [Next]_vars PROVE TimelyInv'
    OBVIOUS
  <2>1. MirrorInv' /\ TypeOK /\ TypeOK'
    BY MirrorStep, TypeStep DEF TimelyInv, MirrorInv
  <2>2. PatienceLasts
    BY <2>1, PatienceEnough DEF TimelyInv
  <2>3. LockInv'
    BY <2>2, LockStep DEF TimelyInv, CallsFit
  <2>4. WaitInv'
    BY WaitStep DEF TimelyInv
  <2> QED BY <2>1, <2>3, <2>4 DEF TimelyInv
<1> QED BY <1>1, <1>2, PTL DEF Spec

(***************************************************************************)
(* At most one node at a time refreshes, for any number of nodes, when     *)
(* nodes are timely, no process dies and no write fails: the failing       *)
(* upstream calls a node can wait for, and one that succeeds, must fit in  *)
(* the lock's life, or Current gives up waiting while another node calls.  *)
(***************************************************************************)
THEOREM OneRefresherTheorem ==
    ASSUME Timely, CallsOnlyFail, CallsFit
    PROVE  Spec => []OneRefresher
<1>1. TimelyInv => OneRefresher
  BY LockExcludes DEF TimelyInv
<1> QED BY <1>1, TimelyHolds, PTL

(* Nobody has been told more than the object holds.                        *)
KnownIsStored == \A n \in Nodes : result[n] <= response /\ pc[n] # "direct"

(***************************************************************************)
(* A step tells a node what the object holds after it, nobody bypasses the *)
(* object, and the object does not go back.                                *)
(***************************************************************************)
LEMMA KnownStep ==
    ASSUME Timely, FaultKinds \subseteq {"upstream"}, TimelyInv, KnownIsStored, [Next]_vars
    PROVE  KnownIsStored' /\ \A n \in Nodes : result'[n] >= result[n]
<1>t. TypeOK /\ TypeOK'
  BY TypeStep DEF TimelyInv, MirrorInv
<1>n. /\ response \in Nat /\ response' \in Nat
      /\ \A n \in Nodes : result[n] \in Nat /\ result'[n] \in Nat /\ prev[n] \in Nat /\ got[n] \in Nat
  BY <1>t DEF TypeOK
(* A node returns what the object then holds.                              *)
<1>r. ASSUME NEW n \in Nodes, NEW r, Return(n, r), r = response', response <= response'
      PROVE  KnownIsStored' /\ \A m \in Nodes : result'[m] >= result[m]
  <2>1. /\ pc'[n] = "idle" /\ (result'[n] = IF r = 0 THEN result[n] ELSE r)
        /\ \A m \in Nodes \ {n} : pc'[m] = pc[m] /\ result'[m] = result[m]
    BY <1>r, <1>t, ReturnCalls
  <2>2. \A m \in Nodes : result[m] <= response /\ pc[m] # "direct"
    BY DEF KnownIsStored
  <2>3. \A m \in Nodes : result'[m] <= response' /\ result'[m] >= result[m]
    BY <1>r, <1>n, <2>1, <2>2
  <2> QED BY <2>1, <2>2, <2>3 DEF KnownIsStored
(* A node moves on and is told nothing.                                    *)
<1>g. ASSUME UNCHANGED <<result, response>>,
             \A n \in Nodes : pc'[n] # "direct"
      PROVE  KnownIsStored' /\ \A m \in Nodes : result'[m] >= result[m]
  BY <1>g, <1>n DEF KnownIsStored
<1>h. ASSUME NEW n \in Nodes, NEW p, p # "direct", Goto(n, p), UNCHANGED <<result, response>>
      PROVE  KnownIsStored' /\ \A m \in Nodes : result'[m] >= result[m]
  <2>1. \A m \in Nodes : pc'[m] # "direct"
    BY <1>h, <1>t DEF Goto, TypeOK, KnownIsStored
  <2> QED BY <1>h, <1>g, <2>1
<1>f. ASSUME NEW k, k # "upstream", Fault(k) PROVE FALSE
  BY <1>f DEF Fault
<1>1. ASSUME NEW n \in Nodes, Start(n) PROVE KnownIsStored' /\ \A m \in Nodes : result'[m] >= result[m]
  BY <1>1, <1>h DEF Start, entryVars, nodeVars
<1>2. ASSUME NEW n \in Nodes, ReadEntry(n)
      PROVE  KnownIsStored' /\ \A m \in Nodes : result'[m] >= result[m]
  <2>1. CASE Return(n, response)
    BY <1>2, <2>1, <1>r, <1>n DEF ReadEntry, entryVars
  <2>2. CASE (Goto(n, "sleep") \/ Goto(n, "claim")) /\ UNCHANGED result
    BY <1>2, <2>2, <1>h DEF ReadEntry, entryVars
  <2> QED BY <1>2, <2>1, <2>2, <1>f DEF ReadEntry, nodeVars
<1>3. ASSUME NEW n \in Nodes, Claim(n)
      PROVE  KnownIsStored' /\ \A m \in Nodes : result'[m] >= result[m]
  <2>1. (Goto(n, "upstream") \/ Goto(n, "sleep")) /\ UNCHANGED <<result, response>>
    BY <1>3, <1>f DEF Claim, WriteClaim, entryVars, nodeVars
  <2> QED BY <2>1, <1>h
<1>4. ASSUME NEW n \in Nodes, CallUpstream(n)
      PROVE  KnownIsStored' /\ \A m \in Nodes : result'[m] >= result[m]
  BY <1>4, <1>h DEF CallUpstream, entryVars
<1>5. ASSUME NEW n \in Nodes, Publish(n)
      PROVE  KnownIsStored' /\ \A m \in Nodes : result'[m] >= result[m]
  <2>1. pc[n] = "publish" /\ Return(n, got[n])
    BY <1>5 DEF Publish
  <2>2. Matches(n)
    BY <2>1 DEF Matches, TimelyInv, LockInv, OwnsLock, Holding
  <2>3. response' = got[n]
    BY <1>5, <2>2, <1>f DEF Publish
  <2>4. response <= got[n]
    BY <2>1, <2>2 DEF Matches, TimelyInv, MirrorInv, AnswerIsNewer
  <2> QED BY <2>1, <2>3, <2>4, <1>r
<1>6. ASSUME NEW n \in Nodes, ReleaseLock(n)
      PROVE  KnownIsStored' /\ \A m \in Nodes : result'[m] >= result[m]
  <2>1. pc[n] = "release" /\ Return(n, prev[n])
    BY <1>6 DEF ReleaseLock
  <2>2. Matches(n)
    BY <2>1 DEF Matches, TimelyInv, LockInv, OwnsLock, Holding
  <2>3. response' = prev[n]
    BY <1>6, <2>2, <1>f DEF ReleaseLock
  <2>4. prev[n] = response
    BY <2>1, <2>2 DEF Matches, TimelyInv, MirrorInv, ReadIsCurrent
  <2> QED BY <2>1, <2>3, <2>4, <1>r, <1>n
<1>7. ASSUME NEW n \in Nodes, Direct(n) \/ Crash(n) PROVE FALSE
  BY <1>7, <1>f DEF Direct, Crash, KnownIsStored
<1>8. CASE UpstreamChanges \/ UNCHANGED vars
  BY <1>8, <1>g DEF UpstreamChanges, vars, entryVars, nodeVars, KnownIsStored
<1>9. CASE Tick
  <2>1. \A n \in Nodes : pc'[n] # "direct"
    BY <1>9 DEF Tick, KnownIsStored
  <2> QED BY <1>9, <2>1, <1>g DEF Tick
<1> QED BY <1>1, <1>2, <1>3, <1>4, <1>5, <1>6, <1>7, <1>8, <1>9 DEF Next, Current

(***************************************************************************)
(* No node is told of an older answer after a newer one when the only      *)
(* faults are failing upstream calls and they fit in the lock's life: every*)
(* answer Current returns is then the one the object holds.                *)
(***************************************************************************)
THEOREM ReadsNeverGoBackTheorem ==
    ASSUME Timely, FaultKinds \subseteq {"upstream"}, CallsFit
    PROVE  Spec => ReadsNeverGoBack
<1>1. CallsOnlyFail
  BY DEF CallsOnlyFail
<1>2. Spec => []TimelyInv
  BY <1>1, TimelyHolds
<1>3. Init => KnownIsStored
  BY DEF Init, KnownIsStored
<1>4. TimelyInv /\ KnownIsStored /\ [Next]_vars
        => KnownIsStored' /\ [\A n \in Nodes : result'[n] >= result[n]]_vars
  BY KnownStep
<1> QED BY <1>2, <1>3, <1>4, PTL DEF Spec, ReadsNeverGoBack
=============================================================================
