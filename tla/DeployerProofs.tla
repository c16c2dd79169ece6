--------------------------- MODULE DeployerProofs ---------------------------
(***************************************************************************)
(* Proofs about the deploy loop of Deployer, for any number of nodes and   *)
(* releases, either command, either kind of cache, any faults and any      *)
(* number of releases to keep.                                             *)
(***************************************************************************)
EXTENDS Deployer, FiniteSetTheorems, FunctionTheorems, TLAPS

(***************************************************************************)
(* What makes LinkWhole inductive.  The symlink never names a directory    *)
(* newer than the newest one; in the phases after the swap it names the    *)
(* newest one, which is why keepReleases cannot prune it; before the swap  *)
(* the newest one is a finished extraction.                                *)
(***************************************************************************)
LinkNotAhead == \A n \in Nodes : link[n] <= stamp[n]

NoneNewer ==
    \A n \in Nodes : \A s \in Stamps : s > stamp[n] => dir[n][s] = "absent"

ReadyToLink ==
    \A n \in Nodes : pc[n] = "link" => stamp[n] # 0 /\ dir[n][stamp[n]] \in Keys

LinkIsNewest ==
    \A n \in Nodes : pc[n] \in {"promote", "prune"} => link[n] = stamp[n]

LinkInv == LinkNotAhead /\ NoneNewer /\ ReadyToLink /\ LinkIsNewest /\ LinkWhole

-----------------------------------------------------------------------------
(* The members of the enumerated sets, so that proofs need not expand them. *)
LEMMA Members ==
    /\ \A p \in {"down", "idle", "check", "own", "load", "download", "cache", "put",
                "mark", "markput", "extract", "link", "promote", "prune"} : p \in Phases
    /\ \A o \in {"none", "ok", "skip", "err"} : o \in Outcomes
    /\ \A f \in {"absent", "partial", "whole"} : f \in FileState
    /\ \A c \in {"none", "torn"} : c \in CurrentFile
    /\ Keys \subseteq CurrentFile
    /\ \A c \in {"absent", "partial"} : c \in Content
    /\ Keys \subseteq Content
BY DEF Phases, Outcomes, FileState, CurrentFile, Content

(* Updating one entry of a table of tables. *)
LEMMA UpdateEntry ==
    ASSUME NEW S, NEW T, NEW U, NEW f \in [S -> [T -> U]],
           NEW a \in S, NEW b \in T, NEW u \in U
    PROVE  [f EXCEPT ![a][b] = u] \in [S -> [T -> U]]
OBVIOUS

(* The files a write that was cut short can leave are cache files. *)
LEMMA CutShortType ==
    ASSUME NEW old \in FileState, NEW c \in CutShort(old) PROVE c \in FileState
BY Members DEF CutShort

(* A release directory is named by one of the timestamps. *)
LEMMA TargetsType ==
    ASSUME ReleaseTypeOK, NEW n \in Nodes, NEW s \in Targets(n)
    PROVE  s \in Stamps /\ s \in 0..MaxReleases
BY DEF Targets, Stamps, ReleaseTypeOK

(***************************************************************************)
(* Whatever keepReleases fails to stat or to remove, it only turns         *)
(* directories of `SelectStaleReleases(files)` into absent or torn ones,   *)
(* files being some of the release directories.                            *)
(***************************************************************************)
LEMMA PruneShape ==
    ASSUME NEW n \in Nodes, KeepReleases(n)
    PROVE  \E files \in SUBSET Releases(n) :
             \E removed, torn \in SUBSET SelectStaleReleases(files) :
                RemoveReleases(n, removed, torn)
<1>1. CASE RemoveReleases(n, SelectStaleReleases(Releases(n)), {})
  <2> WITNESS Releases(n) \in SUBSET Releases(n)
  <2> WITNESS SelectStaleReleases(Releases(n)) \in SUBSET SelectStaleReleases(Releases(n)),
              {} \in SUBSET SelectStaleReleases(Releases(n))
  <2> QED
    BY <1>1
<1>2. ASSUME NEW lost \in SUBSET Releases(n),
             RemoveReleases(n, SelectStaleReleases(Releases(n) \ lost), {})
      PROVE  \E files \in SUBSET Releases(n) :
               \E removed, torn \in SUBSET SelectStaleReleases(files) :
                  RemoveReleases(n, removed, torn)
  <2> DEFINE files == Releases(n) \ lost
  <2> WITNESS files \in SUBSET Releases(n)
  <2> WITNESS SelectStaleReleases(files) \in SUBSET SelectStaleReleases(files),
              {} \in SUBSET SelectStaleReleases(files)
  <2> QED
    BY <1>2
<1>3. ASSUME NEW f \in SelectStaleReleases(Releases(n)),
             RemoveReleases(n, {s \in SelectStaleReleases(Releases(n)) : s > f}, {f})
      PROVE  \E files \in SUBSET Releases(n) :
               \E removed, torn \in SUBSET SelectStaleReleases(files) :
                  RemoveReleases(n, removed, torn)
  <2> DEFINE stale == SelectStaleReleases(Releases(n))
  <2> WITNESS Releases(n) \in SUBSET Releases(n)
  <2> WITNESS {s \in stale : s > f} \in SUBSET stale, {f} \in SUBSET stale
  <2> QED
    BY <1>3
<1> QED
  BY <1>1, <1>2, <1>3 DEF KeepReleases

(***************************************************************************)
(* Type correctness: every action of Deployer keeps each variable in the   *)
(* set its comment names, for every value of the constants.                *)
(***************************************************************************)
THEOREM TypeCorrect == Spec => []TypeOK
<1>1. Init => TypeOK
  <2> SUFFICES ASSUME Init PROVE TypeOK
    OBVIOUS
  <2>1. RegistryTypeOK
    BY DEF Init, RegistryTypeOK
  <2>2. CacheTypeOK
    BY Members DEF Init, CacheTypeOK
  <2>3. ReleaseTypeOK
    <3>1. 0 \in 0..MaxReleases
      BY ConstantsAssumption DEF ConstantsAssumption
    <3> QED
      BY <3>1, Members DEF Init, ReleaseTypeOK
  <2>4. TickTypeOK /\ ServerTypeOK
    BY Members DEF Init, TickTypeOK, ServerTypeOK
  <2> QED
    BY <2>1, <2>2, <2>3, <2>4 DEF TypeOK
<1>2. TypeOK /\ [Next]_vars => TypeOK'
  <2> SUFFICES ASSUME TypeOK, [Next]_vars PROVE TypeOK'
    OBVIOUS
  <2> USE Members DEF TypeOK, regVars, cacheVars, relVars, srvVars
  <2>1. ASSUME NEW k \in Keys, Publish(k) PROVE TypeOK'
    <3>1. (CacheTypeOK /\ ReleaseTypeOK /\ TickTypeOK /\ ServerTypeOK)'
      BY <2>1 DEF Publish, CacheTypeOK, ReleaseTypeOK, TickTypeOK, ServerTypeOK
    <3>2. RegistryTypeOK'
      <4>1. uploaded' \subseteq Keys
        BY <2>1 DEF Publish, RegistryTypeOK
      <4>2. latest' \in Keys /\ overdue' \in BOOLEAN
        BY <2>1 DEF Publish
      <4>3. published' \in Nat /\ faults' \in Nat
        BY <2>1 DEF Publish, RegistryTypeOK
      <4> QED
        BY <4>1, <4>2, <4>3 DEF RegistryTypeOK
    <3> QED
      BY <3>1, <3>2
  <2>2. CASE Upload
    <3>1. (CacheTypeOK /\ ReleaseTypeOK /\ TickTypeOK /\ ServerTypeOK)'
      BY <2>2 DEF Upload, CacheTypeOK, ReleaseTypeOK, TickTypeOK, ServerTypeOK
    <3>2. RegistryTypeOK'
      BY <2>2 DEF Upload, RegistryTypeOK
    <3> QED
      BY <3>1, <3>2
  <2>3. CASE GraceEnds
    <3>1. (CacheTypeOK /\ ReleaseTypeOK /\ TickTypeOK /\ ServerTypeOK)'
      BY <2>3 DEF GraceEnds, CacheTypeOK, ReleaseTypeOK, TickTypeOK, ServerTypeOK
    <3>2. RegistryTypeOK'
      BY <2>3 DEF GraceEnds, RegistryTypeOK
    <3> QED
      BY <3>1, <3>2
  <2>4. ASSUME NEW n \in Nodes, ResolveCurrent(n) PROVE TypeOK'
    <3>1. (CacheTypeOK /\ ReleaseTypeOK /\ ServerTypeOK)'
      BY <2>4 DEF ResolveCurrent, CacheTypeOK, ReleaseTypeOK, ServerTypeOK
    <3>2. RegistryTypeOK'
      BY <2>4 DEF ResolveCurrent, RegistryTypeOK, Fault
    <3>3. TickTypeOK'
      BY <2>4 DEF ResolveCurrent, TickTypeOK, RegistryTypeOK, Goto, EndTick
    <3> QED
      BY <3>1, <3>2, <3>3
  <2>5. ASSUME NEW n \in Nodes, CheckCache(n) PROVE TypeOK'
    <3>1. (ReleaseTypeOK /\ ServerTypeOK)'
      BY <2>5 DEF CheckCache, ReleaseTypeOK, ServerTypeOK
    <3>2. RegistryTypeOK'
      BY <2>5 DEF CheckCache, RegistryTypeOK, Fault
    <3>3. CacheTypeOK'
      BY <2>5 DEF CheckCache, CacheTypeOK, CurrentKey
    <3>4. TickTypeOK'
      BY <2>5 DEF CheckCache, TickTypeOK, Decide, Goto, EndTick
    <3> QED
      BY <3>1, <3>2, <3>3, <3>4
  <2>6. ASSUME NEW n \in Nodes, WriteCurrent(n) PROVE TypeOK'
    <3>1. (ReleaseTypeOK /\ ServerTypeOK)'
      BY <2>6 DEF WriteCurrent, ReleaseTypeOK, ServerTypeOK
    <3>2. RegistryTypeOK'
      BY <2>6 DEF WriteCurrent, RegistryTypeOK, Fault
    <3>3. CacheTypeOK'
      BY <2>6 DEF WriteCurrent, CacheTypeOK, TickTypeOK
    <3>4. TickTypeOK'
      BY <2>6 DEF WriteCurrent, TickTypeOK, Goto, EndTick
    <3> QED
      BY <3>1, <3>2, <3>3, <3>4
  <2>7. ASSUME NEW n \in Nodes, PutCurrent(n) PROVE TypeOK'
    <3>1. (ReleaseTypeOK /\ ServerTypeOK)'
      BY <2>7 DEF PutCurrent, ReleaseTypeOK, ServerTypeOK
    <3>2. RegistryTypeOK'
      BY <2>7 DEF PutCurrent, RegistryTypeOK, Fault
    <3>3. CacheTypeOK'
      BY <2>7 DEF PutCurrent, CacheTypeOK, TickTypeOK
    <3>4. TickTypeOK'
      BY <2>7 DEF PutCurrent, TickTypeOK, Goto, EndTick
    <3> QED
      BY <3>1, <3>2, <3>3, <3>4
  <2>8. ASSUME NEW n \in Nodes, LoadCached(n) PROVE TypeOK'
    <3>1. (ReleaseTypeOK /\ ServerTypeOK)'
      BY <2>8 DEF LoadCached, ReleaseTypeOK, ServerTypeOK
    <3>2. RegistryTypeOK'
      BY <2>8 DEF LoadCached, RegistryTypeOK, Fault
    <3>3. CacheTypeOK'
      <4>1. local' \in [Nodes -> [Keys -> FileState]]
        <5>1. ASSUME NEW c \in FileState
              PROVE  [local EXCEPT ![n][res[n]] = c] \in [Nodes -> [Keys -> FileState]]
          BY UpdateEntry DEF CacheTypeOK, TickTypeOK
        <5>2. local[n][res[n]] \in FileState
          BY DEF CacheTypeOK, TickTypeOK
        <5> QED
          BY <2>8, <5>1, <5>2, CutShortType DEF LoadCached, CacheTypeOK
      <4> QED
        BY <2>8, <4>1 DEF LoadCached, CacheTypeOK
    <3>4. TickTypeOK'
      BY <2>8 DEF LoadCached, TickTypeOK, Goto, EndTick
    <3> QED
      BY <3>1, <3>2, <3>3, <3>4
  <2>9. ASSUME NEW n \in Nodes, Download(n) PROVE TypeOK'
    <3>1. (CacheTypeOK /\ ReleaseTypeOK /\ ServerTypeOK)'
      BY <2>9 DEF Download, CacheTypeOK, ReleaseTypeOK, ServerTypeOK
    <3>2. RegistryTypeOK'
      BY <2>9 DEF Download, RegistryTypeOK, Fault
    <3>3. TickTypeOK'
      BY <2>9 DEF Download, TickTypeOK, Goto, EndTick
    <3> QED
      BY <3>1, <3>2, <3>3
  <2>10. ASSUME NEW n \in Nodes, WriteArtifact(n) PROVE TypeOK'
    <3>1. (ReleaseTypeOK /\ ServerTypeOK)'
      BY <2>10 DEF WriteArtifact, ReleaseTypeOK, ServerTypeOK
    <3>2. RegistryTypeOK'
      BY <2>10 DEF WriteArtifact, RegistryTypeOK, Fault
    <3>3. CacheTypeOK'
      <4>1. local' \in [Nodes -> [Keys -> FileState]]
        <5>1. ASSUME NEW c \in FileState
              PROVE  [local EXCEPT ![n][res[n]] = c] \in [Nodes -> [Keys -> FileState]]
          BY UpdateEntry DEF CacheTypeOK, TickTypeOK
        <5>2. local[n][res[n]] \in FileState
          BY DEF CacheTypeOK, TickTypeOK
        <5> QED
          BY ONLY <2>10, <5>1, <5>2, CutShortType, Members DEF WriteArtifact
      <4> QED
        BY <2>10, <4>1 DEF WriteArtifact, CacheTypeOK
    <3>4. TickTypeOK'
      BY <2>10 DEF WriteArtifact, TickTypeOK, Goto, EndTick
    <3> QED
      BY <3>1, <3>2, <3>3, <3>4
  <2>11. ASSUME NEW n \in Nodes, PutArtifact(n) PROVE TypeOK'
    <3>1. (ReleaseTypeOK /\ ServerTypeOK)'
      BY <2>11 DEF PutArtifact, ReleaseTypeOK, ServerTypeOK
    <3>2. RegistryTypeOK'
      BY <2>11 DEF PutArtifact, RegistryTypeOK, Fault
    <3>3. CacheTypeOK'
      BY <2>11 DEF PutArtifact, CacheTypeOK, TickTypeOK
    <3>4. TickTypeOK'
      BY <2>11 DEF PutArtifact, TickTypeOK, Goto, EndTick
    <3> QED
      BY <3>1, <3>2, <3>3, <3>4
  <2>12. ASSUME NEW n \in Nodes, Preserve(n) PROVE TypeOK'
    <3>1. (CacheTypeOK /\ ServerTypeOK)'
      BY <2>12 DEF Preserve, CacheTypeOK, ServerTypeOK
    <3>2. RegistryTypeOK'
      BY <2>12 DEF Preserve, RegistryTypeOK, Fault
    <3>3. ReleaseTypeOK'
      <4>1. PICK s \in Targets(n) :
              /\ stamp' = [stamp EXCEPT ![n] = s]
              /\ \/ dir' = [dir EXCEPT ![n][s] = res[n]]
                 \/ dir' = [dir EXCEPT ![n][s] = "partial"]
        BY <2>12 DEF Preserve
      <4>2. s \in Stamps /\ s \in 0..MaxReleases
        BY TargetsType
      <4>3. res[n] \in Content /\ "partial" \in Content
        BY DEF TickTypeOK
      <4>4. ASSUME NEW c \in Content
            PROVE  [dir EXCEPT ![n][s] = c] \in [Nodes -> [Stamps -> Content]]
        BY <4>2, UpdateEntry DEF ReleaseTypeOK
      <4>5. dir' \in [Nodes -> [Stamps -> Content]]
        BY <4>1, <4>3, <4>4
      <4>6. stamp' \in [Nodes -> 0..MaxReleases] /\ UNCHANGED link
        BY <2>12, <4>1, <4>2 DEF Preserve, ReleaseTypeOK
      <4> QED
        BY <4>5, <4>6 DEF ReleaseTypeOK
    <3>4. TickTypeOK'
      BY <2>12 DEF Preserve, TickTypeOK, Goto, EndTick
    <3> QED
      BY <3>1, <3>2, <3>3, <3>4
  <2>13. ASSUME NEW n \in Nodes, SwapLink(n) PROVE TypeOK'
    <3>1. (CacheTypeOK /\ ServerTypeOK)'
      BY <2>13 DEF SwapLink, CacheTypeOK, ServerTypeOK
    <3>2. RegistryTypeOK'
      BY <2>13 DEF SwapLink, RegistryTypeOK, Fault
    <3>3. ReleaseTypeOK'
      BY <2>13 DEF SwapLink, ReleaseTypeOK
    <3>4. TickTypeOK'
      BY <2>13 DEF SwapLink, TickTypeOK, Goto, EndTick
    <3> QED
      BY <3>1, <3>2, <3>3, <3>4
  <2>14. ASSUME NEW n \in Nodes, Promote(n) PROVE TypeOK'
    <3>1. (CacheTypeOK /\ ReleaseTypeOK)'
      BY <2>14 DEF Promote, CacheTypeOK, ReleaseTypeOK
    <3>2. RegistryTypeOK'
      BY <2>14 DEF Promote, RegistryTypeOK, Fault
    <3>3. TickTypeOK'
      BY <2>14 DEF Promote, TickTypeOK, Goto, EndTick
    <3>4. ServerTypeOK'
      <4>1. Server \in BOOLEAN
        BY ConstantsAssumption DEF ConstantsAssumption
      <4> QED
        BY <2>14, <4>1 DEF Promote, ServerTypeOK
    <3> QED
      BY <3>1, <3>2, <3>3, <3>4
  <2>15. ASSUME NEW n \in Nodes, KeepReleases(n) PROVE TypeOK'
    <3>1. (CacheTypeOK /\ ServerTypeOK)'
      BY <2>15 DEF KeepReleases, CacheTypeOK, ServerTypeOK
    <3>2. RegistryTypeOK'
      BY <2>15 DEF KeepReleases, RegistryTypeOK, Fault
    <3>3. ReleaseTypeOK'
      <4>1. PICK removed, torn : RemoveReleases(n, removed, torn)
        BY <2>15, PruneShape
      <4>2. dir' \in [Nodes -> [Stamps -> Content]]
        BY <4>1 DEF RemoveReleases, ReleaseTypeOK
      <4> QED
        BY <2>15, <4>2 DEF KeepReleases, ReleaseTypeOK
    <3>4. TickTypeOK'
      BY <2>15 DEF KeepReleases, TickTypeOK, EndTick
    <3> QED
      BY <3>1, <3>2, <3>3, <3>4
  <2>16. ASSUME NEW n \in Nodes, StarterSpawn(n) PROVE TypeOK'
    <3>1. (RegistryTypeOK /\ CacheTypeOK /\ ReleaseTypeOK /\ TickTypeOK)'
      BY <2>16 DEF StarterSpawn, RegistryTypeOK, CacheTypeOK, ReleaseTypeOK, TickTypeOK
    <3>2. ServerTypeOK'
      BY <2>16 DEF StarterSpawn, ServerTypeOK
    <3> QED
      BY <3>1, <3>2
  <2>17. ASSUME NEW n \in Nodes, ServerRunFails(n) PROVE TypeOK'
    <3>1. (CacheTypeOK /\ ReleaseTypeOK /\ TickTypeOK)'
      BY <2>17 DEF ServerRunFails, CacheTypeOK, ReleaseTypeOK, TickTypeOK
    <3>2. RegistryTypeOK'
      BY <2>17 DEF ServerRunFails, RegistryTypeOK, Fault
    <3>3. ServerTypeOK'
      BY <2>17 DEF ServerRunFails, ServerTypeOK
    <3> QED
      BY <3>1, <3>2, <3>3
  <2>18. ASSUME NEW n \in Nodes, Usr1(n) PROVE TypeOK'
    <3>1. (RegistryTypeOK /\ CacheTypeOK /\ ReleaseTypeOK /\ TickTypeOK)'
      BY <2>18 DEF Usr1, RegistryTypeOK, CacheTypeOK, ReleaseTypeOK, TickTypeOK
    <3>2. ServerTypeOK'
      BY <2>18 DEF Usr1, ServerTypeOK
    <3> QED
      BY <3>1, <3>2
  <2>19. ASSUME NEW n \in Nodes, Crash(n) PROVE TypeOK'
    <3>1. RegistryTypeOK'
      BY <2>19 DEF Crash, RegistryTypeOK, Fault
    <3>2. CacheTypeOK'
      <4>1. local' \in [Nodes -> [Keys -> FileState]]
        <5>1. ASSUME NEW c \in FileState
              PROVE  [local EXCEPT ![n][res[n]] = c] \in [Nodes -> [Keys -> FileState]]
          BY UpdateEntry DEF CacheTypeOK, TickTypeOK
        <5>2. local[n][res[n]] \in FileState
          BY DEF CacheTypeOK, TickTypeOK
        <5> QED
          <6>1. CASE UNCHANGED local
            BY <6>1 DEF CacheTypeOK
          <6>2. ASSUME NEW c \in CutShort(local[n][res[n]]),
                       local' = [local EXCEPT ![n][res[n]] = c]
                PROVE  local' \in [Nodes -> [Keys -> FileState]]
            BY <5>1, <5>2, <6>2, CutShortType
          <6>3. CASE local' = [local EXCEPT ![n][res[n]] = local[n][res[n]]]
            BY <5>1, <5>2, <6>3
          <6> QED
            BY ONLY <2>19, <6>1, <6>2, <6>3 DEF Crash
      <4>2. current' \in [Nodes -> CurrentFile]
        BY <2>19 DEF Crash, CacheTypeOK
      <4> QED
        BY <2>19, <4>1, <4>2 DEF Crash, CacheTypeOK
    <3>3. ReleaseTypeOK'
      <4>1. CASE UNCHANGED <<stamp, dir>>
        BY <2>19, <4>1 DEF Crash, ReleaseTypeOK
      <4>2. ASSUME NEW s \in Targets(n),
                   stamp' = [stamp EXCEPT ![n] = s],
                   dir' = [dir EXCEPT ![n][s] = "partial"]
            PROVE  ReleaseTypeOK'
        <5>1. s \in Stamps /\ s \in 0..MaxReleases
          BY TargetsType
        <5>2. dir' \in [Nodes -> [Stamps -> Content]]
          BY <4>2, <5>1, UpdateEntry DEF ReleaseTypeOK
        <5> QED
          BY <2>19, <4>2, <5>1, <5>2 DEF Crash, ReleaseTypeOK
      <4> QED
        BY <2>19, <4>1, <4>2 DEF Crash
    <3>4. TickTypeOK'
      BY <2>19 DEF Crash, TickTypeOK
    <3>5. ServerTypeOK'
      BY <2>19 DEF Crash, ServerTypeOK
    <3> QED
      BY <3>1, <3>2, <3>3, <3>4, <3>5
  <2>20. ASSUME NEW n \in Nodes, Boot(n) PROVE TypeOK'
    <3>1. (RegistryTypeOK /\ CacheTypeOK /\ ReleaseTypeOK /\ ServerTypeOK)'
      BY <2>20 DEF Boot, RegistryTypeOK, CacheTypeOK, ReleaseTypeOK, ServerTypeOK
    <3>2. TickTypeOK'
      BY <2>20 DEF Boot, TickTypeOK
    <3> QED
      BY <3>1, <3>2
  <2>21. CASE UNCHANGED vars
    BY <2>21 DEF vars, RegistryTypeOK, CacheTypeOK, ReleaseTypeOK, TickTypeOK,
                 ServerTypeOK
  <2> QED
    BY <2>1, <2>2, <2>3, <2>4, <2>5, <2>6, <2>7, <2>8, <2>9, <2>10, <2>11, <2>12,
       <2>13, <2>14, <2>15, <2>16, <2>17, <2>18, <2>19, <2>20, <2>21
       DEF Next, Run
<1> QED
  BY <1>1, <1>2, PTL DEF Spec

-----------------------------------------------------------------------------
(***************************************************************************)
(* With every directory named after a second of its own, a stale directory *)
(* is never the newest one: keepReleases keeps at least one.               *)
(***************************************************************************)
LEMMA NewestIsNotStale ==
    ASSUME TypeOK, NoneNewer, NEW n \in Nodes,
           NEW files \in SUBSET Releases(n), NEW s \in SelectStaleReleases(files)
    PROVE  s # stamp[n]
<1> SUFFICES ASSUME s = stamp[n] PROVE FALSE
  OBVIOUS
<1>1. {t \in files : t > s} = {}
  BY DEF Releases, NoneNewer
<1>2. Cardinality({t \in files : t > s}) = 0
  BY <1>1, FS_EmptySet
<1> QED
  BY <1>2, ConstantsAssumption DEF SelectStaleReleases, ConstantsAssumption

(* The phases of the tick that LinkInv speaks about, and the variables it  *)
(* depends on: a step that leaves them alone keeps it.                     *)
LEMMA OtherSteps ==
    ASSUME TypeOK, LinkInv, UNCHANGED relVars,
           \A n \in Nodes : pc'[n] \in {"link", "promote", "prune"} =>
                               \/ pc'[n] = pc[n]
                               \/ pc[n] = "promote" /\ pc'[n] = "prune"
    PROVE  LinkInv'
BY DEF LinkInv, LinkNotAhead, NoneNewer, ReadyToLink, LinkIsNewest, LinkWhole, relVars

(* A fresh extraction goes into a directory newer than all, and only a     *)
(* complete one leads to the swap.                                         *)
LEMMA FreshDirectory ==
    ASSUME ~SameSecond, TypeOK, LinkInv, NEW n \in Nodes,
           NEW s \in Targets(n), NEW c \in Content,
           stamp' = [stamp EXCEPT ![n] = s],
           dir' = [dir EXCEPT ![n][s] = c],
           UNCHANGED link,
           \E p : /\ pc' = [pc EXCEPT ![n] = p]
                  /\ p \notin {"promote", "prune"}
                  /\ p = "link" => c \in Keys
    PROVE  /\ LinkInv'
           /\ \A m \in Nodes : link[m] # 0 => dir'[m][link[m]] = dir[m][link[m]]
<1> USE DEF TypeOK, ReleaseTypeOK, TickTypeOK
<1>1. s = stamp[n] + 1 /\ s \in Stamps
  BY DEF Targets
<1>2. \A m \in Nodes : /\ stamp[m] \in Int /\ link[m] \in Int /\ link[m] >= 0
                       /\ link[m] # 0 => link[m] \in Stamps
  BY ConstantsAssumption DEF ConstantsAssumption, Stamps
<1>3. LinkNotAhead'
  BY <1>1, <1>2 DEF LinkInv, LinkNotAhead
<1>4. \A m \in Nodes : \A t \in Stamps :
         dir'[m][t] = IF m = n /\ t = s THEN c ELSE dir[m][t]
  BY <1>1
<1>5. NoneNewer'
  BY <1>1, <1>2, <1>4 DEF LinkInv, NoneNewer, Stamps
<1>6. ReadyToLink'
  <2>1. \A m \in Nodes : m # n => pc'[m] = pc[m] /\ stamp'[m] = stamp[m] /\ dir'[m] = dir[m]
    OBVIOUS
  <2>2. pc'[n] = "link" => stamp'[n] # 0 /\ dir'[n][stamp'[n]] \in Keys
    BY <1>1, <1>2, <1>4
  <2> QED
    BY <2>1, <2>2 DEF LinkInv, ReadyToLink
<1>7. LinkIsNewest'
  BY DEF LinkInv, LinkIsNewest
<1>8. \A m \in Nodes : link[m] # 0 => dir'[m][link[m]] = dir[m][link[m]]
  BY <1>1, <1>2, <1>4 DEF LinkInv, LinkNotAhead
<1>9. LinkWhole'
  BY <1>8 DEF LinkInv, LinkWhole
<1> QED
  BY <1>3, <1>5, <1>6, <1>7, <1>8, <1>9 DEF LinkInv

(* Pruning spares the directory the symlink names. *)
LEMMA PruneSparesLink ==
    ASSUME TypeOK, LinkInv, NEW n \in Nodes, KeepReleases(n)
    PROVE  /\ LinkInv'
           /\ \A m \in Nodes : link[m] # 0 => dir'[m][link[m]] = dir[m][link[m]]
<1> USE DEF TypeOK, ReleaseTypeOK, TickTypeOK
<1>1. PICK files \in SUBSET Releases(n) :
        \E removed, torn \in SUBSET SelectStaleReleases(files) :
           RemoveReleases(n, removed, torn)
  BY PruneShape
<1>2. PICK removed, torn \in SUBSET SelectStaleReleases(files) :
        RemoveReleases(n, removed, torn)
  BY <1>1
<1>3. link[n] = stamp[n] /\ UNCHANGED <<stamp, link>> /\ pc' = [pc EXCEPT ![n] = "idle"]
  BY DEF KeepReleases, EndTick, LinkInv, LinkIsNewest
<1>4. stamp[n] \notin removed /\ stamp[n] \notin torn
  BY NewestIsNotStale DEF LinkInv
<1>5. \A s \in removed \cup torn : dir[n][s] # "absent" /\ s \in Stamps
  BY DEF SelectStaleReleases, Releases
<1>6. \A m \in Nodes : m # n => dir'[m] = dir[m]
  BY <1>2 DEF RemoveReleases
<1>7. \A s \in Stamps : dir'[n][s] = IF s \in removed THEN "absent"
                                     ELSE IF s \in torn THEN "partial" ELSE dir[n][s]
  BY <1>2 DEF RemoveReleases
<1>8. \A m \in Nodes : link[m] # 0 => link[m] \in Stamps
  BY ConstantsAssumption DEF ConstantsAssumption, Stamps
<1>9. \A m \in Nodes : link[m] # 0 => dir'[m][link[m]] = dir[m][link[m]]
  BY <1>3, <1>4, <1>6, <1>7, <1>8
<1>10. NoneNewer'
  BY <1>3, <1>5, <1>6, <1>7 DEF LinkInv, NoneNewer
<1>11. ReadyToLink'
  BY <1>3, <1>6 DEF LinkInv, ReadyToLink
<1>12. LinkIsNewest' /\ LinkNotAhead'
  BY <1>3 DEF LinkInv, LinkIsNewest, LinkNotAhead
<1>13. LinkWhole'
  BY <1>3, <1>9 DEF LinkInv, LinkWhole
<1> QED
  BY <1>9, <1>10, <1>11, <1>12, <1>13 DEF LinkInv

(* LinkInv is inductive, and no step touches a release that stays live.    *)
LEMMA LinkStep ==
    ASSUME ~SameSecond, TypeOK, LinkInv, [Next]_vars
    PROVE  /\ LinkInv'
           /\ \A m \in Nodes : link[m] # 0 /\ link'[m] = link[m]
                                  => dir'[m][link[m]] = dir[m][link[m]]
<1> DEFINE Untouched == \A m \in Nodes : link[m] # 0 /\ link'[m] = link[m]
                                  => dir'[m][link[m]] = dir[m][link[m]]
<1>1. CASE (\E k \in Keys : Publish(k)) \/ Upload \/ GraceEnds \/ UNCHANGED vars
  <2>1. UNCHANGED <<relVars, pc>>
    BY <1>1 DEF Publish, Upload, GraceEnds, vars
  <2> QED
    BY <2>1, OtherSteps DEF relVars
<1>2. ASSUME NEW n \in Nodes,
             \/ StarterSpawn(n) \/ ServerRunFails(n) \/ Usr1(n)
      PROVE  LinkInv' /\ Untouched
  <2>1. UNCHANGED <<relVars, pc>>
    BY <1>2 DEF StarterSpawn, ServerRunFails, Usr1
  <2> QED
    BY <2>1, OtherSteps DEF relVars
<1>3. ASSUME NEW n \in Nodes,
             \/ ResolveCurrent(n) \/ CheckCache(n) \/ WriteCurrent(n) \/ PutCurrent(n)
             \/ LoadCached(n) \/ Download(n) \/ WriteArtifact(n) \/ PutArtifact(n)
             \/ Promote(n) \/ Boot(n)
      PROVE  LinkInv' /\ Untouched
  <2>1. UNCHANGED relVars
    BY <1>3 DEF ResolveCurrent, CheckCache, WriteCurrent, PutCurrent, LoadCached,
                Download, WriteArtifact, PutArtifact, Promote, Boot
  <2>2. \E p : pc' = [pc EXCEPT ![n] = p] /\ p \notin {"link", "promote"}
                /\ (p = "prune" => pc[n] = "promote")
    BY <1>3 DEF ResolveCurrent, CheckCache, Decide, WriteCurrent, PutCurrent,
                LoadCached, Download, WriteArtifact, PutArtifact, Promote, Boot,
                Goto, EndTick
  <2> QED
    BY <2>1, <2>2, OtherSteps DEF relVars, TypeOK, TickTypeOK
<1>4. ASSUME NEW n \in Nodes, Preserve(n) PROVE LinkInv' /\ Untouched
  <2>1. PICK s \in Targets(n), c \in Content :
          /\ stamp' = [stamp EXCEPT ![n] = s]
          /\ dir' = [dir EXCEPT ![n][s] = c]
          /\ \/ pc' = [pc EXCEPT ![n] = "link"] /\ c \in Keys
             \/ pc' = [pc EXCEPT ![n] = "idle"]
    BY <1>4, Members DEF Preserve, Goto, EndTick, TypeOK, TickTypeOK
  <2>2. UNCHANGED link
    BY <1>4 DEF Preserve
  <2>3. \E p : /\ pc' = [pc EXCEPT ![n] = p]
               /\ p \notin {"promote", "prune"}
               /\ p = "link" => c \in Keys
    BY <2>1
  <2>4. /\ LinkInv'
        /\ \A m \in Nodes : link[m] # 0 => dir'[m][link[m]] = dir[m][link[m]]
    BY <2>1, <2>2, <2>3, FreshDirectory
  <2> QED
    BY <2>4
<1>5. ASSUME NEW n \in Nodes, SwapLink(n) PROVE LinkInv' /\ Untouched
  <2>1. UNCHANGED <<dir, stamp>>
    BY <1>5 DEF SwapLink
  <2>2. CASE UNCHANGED link /\ pc' = [pc EXCEPT ![n] = "idle"]
    BY <2>1, <2>2 DEF LinkInv, LinkNotAhead, NoneNewer, ReadyToLink, LinkIsNewest,
                      LinkWhole, TypeOK, TickTypeOK
  <2>3. CASE link' = [link EXCEPT ![n] = stamp[n]] /\ pc' = [pc EXCEPT ![n] = "promote"]
    <3>1. stamp[n] \in Int /\ stamp[n] # 0 /\ dir[n][stamp[n]] \in Keys
      BY <1>5 DEF SwapLink, LinkInv, ReadyToLink, TypeOK, ReleaseTypeOK
    <3> QED
      BY <2>1, <2>3, <3>1 DEF LinkInv, LinkNotAhead, NoneNewer, ReadyToLink,
         LinkIsNewest, LinkWhole, TypeOK, TickTypeOK, ReleaseTypeOK
  <2> QED
    BY <1>5, <2>2, <2>3 DEF SwapLink, Goto, EndTick
<1>6. ASSUME NEW n \in Nodes, KeepReleases(n) PROVE LinkInv' /\ Untouched
  BY <1>6, PruneSparesLink
<1>7. ASSUME NEW n \in Nodes, Crash(n) PROVE LinkInv' /\ Untouched
  <2>1. pc' = [pc EXCEPT ![n] = "down"] /\ UNCHANGED link
    BY <1>7 DEF Crash
  <2>2. CASE UNCHANGED <<stamp, dir>>
    BY <2>1, <2>2, OtherSteps DEF relVars, TypeOK, TickTypeOK
  <2>3. ASSUME NEW s \in Targets(n),
               stamp' = [stamp EXCEPT ![n] = s],
               dir' = [dir EXCEPT ![n][s] = "partial"]
        PROVE  LinkInv' /\ Untouched
    <3>1. \E p : /\ pc' = [pc EXCEPT ![n] = p]
                 /\ p \notin {"promote", "prune"}
                 /\ p = "link" => "partial" \in Keys
      <4> WITNESS "down"
      <4> QED
        BY <2>1
    <3>2. "partial" \in Content
      BY Members
    <3>3. /\ LinkInv'
          /\ \A m \in Nodes : link[m] # 0 => dir'[m][link[m]] = dir[m][link[m]]
      BY <2>1, <2>3, <3>1, <3>2, FreshDirectory
    <3> QED
      BY <3>3
  <2> QED
    BY <1>7, <2>2, <2>3 DEF Crash
<1> QED
  BY <1>1, <1>2, <1>3, <1>4, <1>5, <1>6, <1>7 DEF Next, Run

(***************************************************************************)
(* The strengthening of LinkWhole holds throughout.                        *)
(***************************************************************************)
THEOREM LinkInvariant == ASSUME ~SameSecond PROVE Spec => []LinkInv
<1>1. Init => LinkInv
  BY DEF Init, LinkInv, LinkNotAhead, NoneNewer, ReadyToLink, LinkIsNewest, LinkWhole
<1>2. TypeOK /\ LinkInv /\ [Next]_vars => LinkInv'
  BY LinkStep
<1> QED
  BY <1>1, <1>2, TypeCorrect, PTL DEF Spec

(***************************************************************************)
(* With one directory per deploy the `current` symlink always names a      *)
(* complete release: extraction failures, crashes at any point, pruning    *)
(* with failing stats and removals included.                               *)
(***************************************************************************)
THEOREM SymlinkWhole == ASSUME ~SameSecond PROVE Spec => []LinkWhole
<1>1. LinkInv => LinkWhole
  BY DEF LinkInv
<1> QED
  BY <1>1, LinkInvariant, PTL

(***************************************************************************)
(* With one directory per deploy no step ever writes to or removes the     *)
(* release that is live before and after it.                               *)
(***************************************************************************)
THEOREM LiveUntouched == ASSUME ~SameSecond PROVE Spec => LiveReleaseUntouched
<1>1. TypeOK /\ LinkInv /\ [Next]_vars =>
        [\A n \in Nodes : link[n] # 0 /\ link'[n] = link[n]
            => dir'[n][link[n]] = dir[n][link[n]]]_vars
  BY LinkStep
<1> QED
  BY <1>1, TypeCorrect, LinkInvariant, PTL DEF Spec, LiveReleaseUntouched

-----------------------------------------------------------------------------
(***************************************************************************)
(* What selectStaleReleases leaves: no two of the releases that are kept   *)
(* have the same number of newer ones, and that number is below Keep.      *)
(***************************************************************************)
LEMMA KeptAreFew ==
    ASSUME NEW files \in SUBSET Stamps
    PROVE  Cardinality(files \ SelectStaleReleases(files)) <= Keep
<1> DEFINE kept == files \ SelectStaleReleases(files)
           newer(s) == {t \in files : t > s}
           rank == [s \in kept |-> Cardinality(newer(s))]
<1>1. Keep \in Nat \ {0} /\ MaxReleases \in Nat
  BY ConstantsAssumption
<1>2. files \subseteq Nat /\ IsFiniteSet(files)
  <2>1. 1 \in Int /\ MaxReleases \in Int
    BY <1>1
  <2>2. IsFiniteSet(Stamps)
    BY <2>1, FS_Interval DEF Stamps
  <2>3. IsFiniteSet(files)
    BY <2>2, FS_Subset
  <2>4. Stamps \subseteq Nat
    BY <1>1 DEF Stamps
  <2> QED
    BY <2>3, <2>4
<1>3. \A s \in kept : s \in Nat /\ s \in files
  BY <1>2
<1>4. \A s \in kept : ~(Cardinality(newer(s)) >= Keep)
  BY DEF SelectStaleReleases
<1>5. \A s : newer(s) \subseteq files /\ IsFiniteSet(newer(s)) /\ Cardinality(newer(s)) \in Nat
  BY <1>2, FS_Subset, FS_CardinalityType
<1>6. ASSUME NEW s \in kept, NEW t \in kept, s < t
      PROVE  Cardinality(newer(s)) # Cardinality(newer(t))
  <2>1. s \in Nat /\ t \in Nat /\ t \in files /\ files \subseteq Nat
    BY <1>2, <1>3
  <2>2. newer(t) \subseteq newer(s) /\ t \in newer(s) /\ t \notin newer(t)
    <3>1. \A u \in files : u > t => u > s
      BY <1>6, <2>1
    <3>2. t > s /\ ~(t > t)
      BY <1>6, <2>1
    <3> QED
      BY <2>1, <3>1, <3>2, Zenon
  <2> HIDE DEF newer
  <2> QED
    <3>1. IsFiniteSet(newer(s)) /\ newer(t) \in SUBSET newer(s)
      BY <1>5, <2>2
    <3>2. Cardinality(newer(s)) = Cardinality(newer(t)) => newer(s) = newer(t)
      BY <3>1, FS_Subset
    <3> QED
      BY <2>2, <3>2
<1> HIDE DEF kept, newer
<1>7. rank \in [kept -> 0..(Keep - 1)]
  BY <1>1, <1>4, <1>5
<1>8. \A s, t \in kept : rank[s] = rank[t] => s = t
  BY <1>3, <1>6
<1> HIDE DEF rank
<1>9. rank \in Injection(kept, 0..(Keep - 1))
  BY <1>7, <1>8, Fun_IsInj
<1>10. IsFiniteSet(0..(Keep - 1)) /\ Cardinality(0..(Keep - 1)) = Keep
  <2>1. 0 \in Int /\ Keep - 1 \in Int /\ ~(0 > Keep - 1) /\ (Keep - 1) - 0 + 1 = Keep
    BY <1>1
  <2> QED
    BY <2>1, FS_Interval
<1>11. Cardinality(kept) <= Cardinality(0..(Keep - 1))
  BY <1>9, <1>10, FS_Injection
<1> QED
  BY <1>10, <1>11 DEF kept

(***************************************************************************)
(* keepReleases (release.go): as long as directories can be stat'ed and    *)
(* removed, at most Keep of them are left by every tick that ends well,    *)
(* however many failed deploys and crashes came before it and also when    *)
(* two deploys shared a second.                                            *)
(***************************************************************************)
THEOREM AtMostKeepLeft ==
    ASSUME {"stat", "prune"} \cap FaultKinds = {}
    PROVE  Spec => []PrunedAfterOk
<1>1. Init => PrunedAfterOk
  BY DEF Init, PrunedAfterOk
<1>2. TypeOK /\ PrunedAfterOk /\ [Next]_vars => PrunedAfterOk'
  <2> SUFFICES ASSUME TypeOK, PrunedAfterOk, [Next]_vars,
                      NEW m \in Nodes, pc'[m] = "idle", outcome'[m] = "ok"
               PROVE  Cardinality(Releases(m)') <= Keep
    BY DEF PrunedAfterOk
  <2> USE DEF TypeOK, TickTypeOK, ReleaseTypeOK
  <2>1. CASE pc[m] = "idle" /\ outcome[m] = "ok" /\ dir'[m] = dir[m]
    BY <2>1 DEF PrunedAfterOk, Releases
  <2>2. CASE (\E k \in Keys : Publish(k)) \/ Upload \/ GraceEnds \/ UNCHANGED vars
    BY <2>1, <2>2 DEF Publish, Upload, GraceEnds, vars, relVars
  <2>3. ASSUME NEW n \in Nodes,
               \/ StarterSpawn(n) \/ ServerRunFails(n) \/ Usr1(n)
        PROVE  Cardinality(Releases(m)') <= Keep
    BY <2>1, <2>3 DEF StarterSpawn, ServerRunFails, Usr1, relVars
  <2>4. ASSUME NEW n \in Nodes,
               \/ ResolveCurrent(n) \/ CheckCache(n) \/ WriteCurrent(n) \/ PutCurrent(n)
               \/ LoadCached(n) \/ Download(n) \/ WriteArtifact(n) \/ PutArtifact(n)
               \/ SwapLink(n) \/ Promote(n) \/ Boot(n)
        PROVE  Cardinality(Releases(m)') <= Keep
    <3>1. UNCHANGED dir
      BY <2>4 DEF ResolveCurrent, CheckCache, WriteCurrent, PutCurrent, LoadCached, Download,
                  WriteArtifact, PutArtifact, SwapLink, Promote, Boot, relVars
    <3>2. \/ pc' = [pc EXCEPT ![n] = "idle"] /\ \E o \in {"none", "skip", "err"} :
                outcome' = [outcome EXCEPT ![n] = o]
          \/ UNCHANGED outcome /\ \E p : p # "idle" /\ pc' = [pc EXCEPT ![n] = p]
      BY <2>4 DEF ResolveCurrent, CheckCache, Decide, WriteCurrent, PutCurrent, LoadCached,
                  Download, WriteArtifact, PutArtifact, SwapLink, Promote, Boot, Goto, EndTick
    <3> QED
      BY <2>1, <3>1, <3>2
  <2>5. ASSUME NEW n \in Nodes, Preserve(n) \/ Crash(n)
        PROVE  Cardinality(Releases(m)') <= Keep
    <3>1. m # n => dir'[m] = dir[m] /\ pc'[m] = pc[m] /\ outcome'[m] = outcome[m]
      BY <2>5 DEF Preserve, Crash, Goto, EndTick
    <3>2. pc'[n] # "idle" \/ outcome'[n] = "err"
      BY <2>5 DEF Preserve, Crash, Goto, EndTick
    <3> QED
      BY <2>1, <3>1, <3>2
  <2>6. ASSUME NEW n \in Nodes, KeepReleases(n)
        PROVE  Cardinality(Releases(m)') <= Keep
    <3>1. RemoveReleases(n, SelectStaleReleases(Releases(n)), {})
      BY <2>6 DEF KeepReleases, Fault
    <3>2. m # n => dir'[m] = dir[m] /\ pc'[m] = pc[m] /\ outcome'[m] = outcome[m]
      BY <2>6, <3>1 DEF KeepReleases, EndTick, RemoveReleases
    <3>3. CASE m = n
      <4> DEFINE stale == SelectStaleReleases(Releases(n))
      <4>1. \A s \in Stamps : dir'[n][s] = IF s \in stale THEN "absent" ELSE dir[n][s]
        BY <3>1 DEF RemoveReleases
      <4> HIDE DEF stale
      <4>2. Releases(n)' = Releases(n) \ stale
        BY <4>1 DEF Releases
      <4>3. Releases(n) \in SUBSET Stamps
        BY DEF Releases
      <4>4. Cardinality(Releases(n) \ stale) <= Keep
        BY <4>3, KeptAreFew DEF stale
      <4> QED
        BY <3>3, <4>2, <4>4
    <3> QED
      BY <2>1, <3>2, <3>3
  <2> QED
    BY <2>2, <2>3, <2>4, <2>5, <2>6 DEF Next, Run
<1> QED
  BY <1>1, <1>2, TypeCorrect, PTL DEF Spec
=============================================================================
