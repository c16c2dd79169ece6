--------------------------- MODULE RegistryClient ---------------------------
(***************************************************************************)
(* Current of the registry clients: GitHub releases (registry/ghr.go), S3  *)
(* and Cloud Storage (s3.go, gs.go) and OCI registries (oci.go), against a *)
(* registry that changes while the client pages through it, the slot check *)
(* of the deploy loop (resolveCurrent in lifecycle.go), and the download   *)
(* of the artifact that was answered (artifact/*.go).                      *)
(*                                                                         *)
(* Every HTTP request is a step.  GitHub pages by number through releases, *)
(* newest first; the stores and OCI registries list names in text order    *)
(* and continue after the last one returned.                               *)
(***************************************************************************)
EXTENDS VersionSelection, FiniteSets

CONSTANTS
    Lexical,      \* the names that may be published, in text order
    Files,        \* the files uploaded to every release, in text order
    ReportFile,   \* the text file Report leaves with a release
    Configs,      \* [kind, format, pre, artifact]: registry URLs to try
    Host,         \* [arch, os] of the host
    Slot,         \* --slot ("": none)
    PageSize,     \* names in a page
    MaxPages,     \* maxPaginationPages of oci.go (100 in the code)
    FaultKinds,
    MaxFaults,    \* bound: failing requests in one behaviour
    MaxPublish,   \* bound: releases published in one behaviour
    MaxExpiries   \* bound: bearer tokens that expire

ASSUME ConstantsAssumption ==
    /\ Lexical \in Seq(Names)
    /\ Len(Lexical) = Cardinality(Names) /\ ToSet(Lexical) = Names
    /\ NoVersion \notin Names
    /\ Files \in Seq(DOMAIN File \ {""})
    /\ ReportFile \in ToSet(Files)
    /\ \A c \in Configs : /\ c.kind \in {"ghr", "s3", "gs", "oci"}
                          /\ c.pre \in BOOLEAN
    /\ FaultKinds \subseteq {"list", "objects", "download"}
    /\ PageSize \in Nat \ {0} /\ MaxPages \in Nat \ {0}
    /\ {MaxFaults, MaxPublish, MaxExpiries} \subseteq Nat

(* The stores answer the semantic version they read, printed again: names  *)
(* with leading zeros would not come back as they are.                     *)
LeadingZero(part) == part.digits > 1 /\ part.value < 10 ^ (part.digits - 1)

ASSUME PlainNumbers ==
    \A c \in Configs, n \in Names :
        c.kind \in {"s3", "gs"} /\ c.format = <<>> =>
            \A i \in DOMAIN Version[n].parts : ~LeadingZero(Version[n].parts[i])

VARIABLES
    cfg,        \* the registry URL this client was made for
    releases,   \* published names, newest first
    drafts,     \* GitHub: releases that are still drafts
    uploads,    \* uploads[t]: files of a release, in the order of upload
    gen,        \* OCI: the bearer token the registry accepts
    faults,
    pc,         \* request the running call of Current is about to make
    cursor,     \* GitHub: releases passed; else position in Lexical
    page,       \* OCI: pages fetched by this call
    names,      \* versionNames, tagNames, allTags
    seen,       \* GitHub: the assets that came with a release
    pick,       \* the version found
    token,      \* o.token (0: none)
    atStart,    \* names that were published when the call started
    outcome,    \* how the last call ended
    taken,      \* the last answer the deploy loop went on with
    artifact,   \* d.artifact: the answer the download was made for
    staged      \* [want, got]: what the local cache holds for an answer

regVars  == <<cfg, releases, drafts, uploads, gen>>
callVars == <<pc, cursor, page, names, seen, pick, atStart>>
loadVars == <<artifact, staged>>
vars == <<regVars, faults, callVars, token, outcome, taken, loadVars>>

NoFile == ""
NoAnswer == [tag |-> NoVersion, file |-> NoFile]

AnswerType == [tag : Names \cup {NoVersion}, file : ToSet(Files) \cup {NoFile}]

(* Every variable keeps the kind of value its declaration describes.       *)
TypeOK ==
    /\ cfg \in Configs
    /\ releases \in Seq(Names)
    /\ drafts \subseteq ToSet(releases)
    /\ {uploads, seen} \subseteq [Names -> Seq(ToSet(Files))]
    /\ {gen, faults, cursor, token} \subseteq Nat
    /\ page \in 0..MaxPages
    /\ pc \in {"idle", "page", "select", "artifact", "find", "fetch", "report"}
    /\ names \in Seq(Names)
    /\ pick \in Names \cup {NoVersion}
    /\ atStart \subseteq Names
    /\ outcome \in {"none", "ok", "missing", "err", "lost"}
    /\ {taken, artifact} \subseteq AnswerType
    /\ staged \subseteq [want : AnswerType, got : AnswerType]

NoFiles == [t \in Names |-> <<>>]

Init ==
    /\ cfg \in Configs
    /\ releases = <<>>
    /\ drafts = {}
    /\ uploads = NoFiles
    /\ gen = 1
    /\ faults = 0
    /\ pc = "idle"
    /\ cursor = 0
    /\ page = 0
    /\ names = <<>>
    /\ seen = NoFiles
    /\ pick = NoVersion
    /\ token = 0
    /\ atStart = {}
    /\ outcome = "none"
    /\ taken = NoAnswer
    /\ artifact = NoAnswer
    /\ staged = {}

-----------------------------------------------------------------------------
(* The registry.  A GitHub release may start as a draft, a directory of a  *)
(* store with some other object in it; the files follow.                   *)

Publish(t) ==
    /\ t \notin ToSet(releases)
    /\ Len(releases) < MaxPublish
    /\ releases' = <<t>> \o releases
    /\ \/ UNCHANGED drafts
       \/ cfg.kind = "ghr" /\ drafts' = drafts \cup {t}
    /\ UNCHANGED <<cfg, uploads, gen, faults, callVars, token, outcome, taken, loadVars>>

Undraft(t) ==
    /\ t \in drafts
    /\ drafts' = drafts \ {t}
    /\ UNCHANGED <<cfg, releases, uploads, gen, faults, callVars, token, outcome, taken, loadVars>>

Upload(t, f) ==
    /\ cfg.kind # "oci"
    /\ t \in ToSet(releases)
    /\ f \in ToSet(Files) \ (ToSet(uploads[t]) \cup {ReportFile})
    /\ uploads' = [uploads EXCEPT ![t] = Append(@, f)]
    /\ UNCHANGED <<cfg, releases, drafts, gen, faults, callVars, token, outcome, taken, loadVars>>

ExpireToken ==
    /\ cfg.kind = "oci"
    /\ gen <= MaxExpiries
    /\ gen' = gen + 1
    /\ UNCHANGED <<cfg, releases, drafts, uploads, faults, callVars, token, outcome, taken, loadVars>>

Registry ==
    \/ \E t \in Names : Publish(t) \/ Undraft(t)
    \/ \E t \in Names, f \in ToSet(Files) : Upload(t, f)
    \/ ExpireToken

-----------------------------------------------------------------------------
Fault(kind) ==
    /\ kind \in FaultKinds
    /\ faults < MaxFaults
    /\ faults' = faults + 1

(* Current returns: its local variables are gone.                          *)
EndCall(o) ==
    /\ outcome' = o
    /\ cursor' = 0 /\ page' = 0 /\ names' = <<>> /\ seen' = NoFiles /\ pick' = NoVersion
    /\ UNCHANGED atStart

(* Current returns an error, and the tick ends.                            *)
Fail(o) == EndCall(o) /\ pc' = "idle" /\ UNCHANGED <<taken, loadVars>>

Visible == ToSet(releases) \ drafts

(***************************************************************************)
(* An artifact is downloaded unless the cache holds one for the answer,    *)
(* and d.artifact is only made when there is none.                         *)
(***************************************************************************)
NewArtifact(answer) ==
    IF \E e \in staged : e.want = answer
    THEN /\ pc' = IF answer # taken THEN "report" ELSE "idle"
         /\ UNCHANGED artifact
    ELSE /\ pc' = IF cfg.kind = "ghr" THEN "find" ELSE "fetch"
         /\ artifact' = IF artifact = NoAnswer THEN answer ELSE artifact

(***************************************************************************)
(* The end of Current and of resolveCurrent: without a file a not-found    *)
(* error, with a slot that does not match the tick is skipped.  The tag    *)
(* answered is the name listed, by PlainNumbers also where the code prints *)
(* the version again.                                                      *)
(***************************************************************************)
Answer(tag, found) ==
    \/ found = {} /\ Fail("missing")
    \/ \E file \in found :
       /\ EndCall("ok")
       /\ IF SlotMatches(Slot, ExtractSlot(Version[tag], cfg.format))
          THEN /\ taken' = [tag |-> tag, file |-> file]
               /\ NewArtifact([tag |-> tag, file |-> file])
          ELSE pc' = "idle" /\ UNCHANGED <<taken, artifact>>
       /\ UNCHANGED staged

(* The artifact named in the URL, or else the first for this platform.     *)
Candidates(files) ==
    IF cfg.artifact # "" THEN FirstIn(files, {cfg.artifact})
    ELSE MatchArtifactByPlatform(files, Host)

BeginCurrent ==
    /\ pc = "idle"
    /\ pc' = "page"
    /\ atStart' = Visible
    /\ UNCHANGED <<regVars, faults, cursor, page, names, seen, pick, token, outcome, taken, loadVars>>

(* Mutant: the limit is checked one page too late.                         *)
LimitPassed == page > MaxPages

(* listTags asks for no page beyond maxPaginationPages.                    *)
LimitReached == page >= MaxPages

(* A failed listing ends the call, whatever was listed before.             *)
ListFails ==
    /\ pc = "page"
    /\ cfg.kind = "oci" => ~LimitReached
    /\ Fault("list")
    /\ Fail("err")
    /\ token' \in {token} \cup (IF cfg.kind = "oci" THEN {gen} ELSE {})
    /\ UNCHANGED regVars

(* What a page brings: names, the next cursor, whether there are more.     *)
TurnPage(found, next, more) ==
    /\ names' = names \o found
    /\ cursor' = next
    /\ pc' = IF more THEN "page" ELSE "select"

(* Mutant: only the first page is looked at.                               *)
ReleasePageFirst ==
    [part |-> SubSeq(releases, 1, Min({PageSize, Len(releases)})), more |-> FALSE]

(* Page number cursor / PageSize + 1 of the releases, as they are now.     *)
ReleasePage ==
    [part |-> SubSeq(releases, cursor + 1, Min({cursor + PageSize, Len(releases)})),
     more |-> cursor + PageSize < Len(releases)]

(***************************************************************************)
(* latest of ghr.go: a page of ListReleases.  Drafts are left out; assets  *)
(* are those at the time of the request.                                   *)
(***************************************************************************)
ListReleases ==
    /\ cfg.kind = "ghr"
    /\ pc = "page"
    /\ LET got == Only(ReleasePage.part, Names \ drafts)
       IN  /\ TurnPage(got, cursor + PageSize, ReleasePage.more)
           /\ seen' = [t \in Names |-> IF t \in ToSet(got) THEN uploads[t] ELSE seen[t]]
    /\ UNCHANGED <<regVars, faults, page, pick, atStart, token, outcome, taken, loadVars>>

(* A page of names in text order, continuing after position cursor.        *)
NamePage ==
    LET rest == {i \in (cursor + 1)..Len(Lexical) : Lexical[i] \in Visible}
        part == {i \in rest : Cardinality({j \in rest : j < i}) < PageSize}
        last == IF part = {} THEN cursor ELSE Max(part)
    IN  [part |-> Only(SubSeq(Lexical, cursor + 1, last), Visible),
         next |-> last,
         more |-> rest # part]

(* LatestVersion of s3.go: a page of the version directories.              *)
ListPrefixes ==
    /\ cfg.kind = "s3"
    /\ pc = "page"
    /\ TurnPage(NamePage.part, NamePage.next, NamePage.more)
    /\ UNCHANGED <<regVars, faults, page, seen, pick, atStart, token, outcome, taken, loadVars>>

(* LatestVersion of gs.go: the iterator fetches its pages by itself.       *)
IteratePrefixes ==
    /\ cfg.kind = "gs"
    /\ pc = "page"
    /\ TurnPage(NamePage.part, NamePage.next, NamePage.more)
    /\ UNCHANGED <<regVars, faults, page, seen, pick, atStart, token, outcome, taken, loadVars>>

(* Mutant: a token is only fetched when there is none.                     *)
GetBearerTokenOnce == token' = IF token = 0 THEN gen ELSE token

GetBearerToken == token' = gen

(***************************************************************************)
(* A request to an OCI registry.  When it does not accept the token (401   *)
(* Unauthorized) a new one is fetched and the request repeated once; if it *)
(* is refused again the call fails.                                        *)
(***************************************************************************)
Authorize(Done) ==
    /\ IF token = gen THEN UNCHANGED token ELSE GetBearerToken
    /\ IF token' = gen THEN Done ELSE Fail("err")

(* Mutant: at the limit of pages the call goes on with what it has.        *)
TooManyPagesKept ==
    /\ pc' = "select"
    /\ UNCHANGED <<cursor, page, names, seen, pick, atStart, outcome, taken, loadVars>>

(* listTags: more pages than maxPaginationPages are an error.              *)
TooManyPages == Fail("err")

TurnTagsPage ==
    /\ TurnPage(NamePage.part, NamePage.next, NamePage.more)
    /\ page' = page + 1
    /\ UNCHANGED <<seen, pick, atStart, outcome, taken, loadVars>>

(* listTags and fetchTagsPage of oci.go.                                   *)
ListTags ==
    /\ cfg.kind = "oci"
    /\ pc = "page"
    /\ \/ /\ LimitReached
          /\ TooManyPages
          /\ UNCHANGED token
       \/ /\ ~LimitReached
          /\ Authorize(TurnTagsPage)
    /\ UNCHANGED <<regVars, faults>>

(* The latest of the names; GitHub's assets are at hand, others are asked. *)
Select ==
    /\ pc = "select"
    /\ LET best == FindLatest(names, cfg.format, cfg.pre)
       IN  \/ /\ best = NoVersion
              /\ Fail("err")
           \/ /\ best # NoVersion
              /\ cfg.kind = "ghr"
              /\ Answer(best, Candidates(seen[best]))
           \/ /\ best # NoVersion
              /\ cfg.kind # "ghr"
              /\ pick' = best
              /\ pc' = "artifact"
              /\ UNCHANGED <<cursor, page, names, seen, atStart, outcome, taken, loadVars>>
    /\ UNCHANGED <<regVars, faults, token>>

InTextOrder(files) == Only(Files, ToSet(files))

(* The objects of the version's directory; the time of the release that a  *)
(* not-found error carries is looked up without effect on the outcome.     *)
AnswerFromObjects ==
    /\ pc = "artifact"
    /\ \/ Fault("objects") /\ Fail("err")
       \/ Answer(pick, Candidates(InTextOrder(uploads[pick]))) /\ UNCHANGED faults
    /\ UNCHANGED <<regVars, token>>

(* The second half of Current of s3.go, and of gs.go.                      *)
ListObjects == cfg.kind = "s3" /\ AnswerFromObjects

IterateObjects == cfg.kind = "gs" /\ AnswerFromObjects

(* getImageDigest of oci.go: the manifest of the tag.                      *)
GetImageDigest ==
    /\ cfg.kind = "oci"
    /\ pc = "artifact"
    /\ \/ /\ Fault("objects")
          /\ Fail("err")
          /\ token' \in {token, gen}
       \/ /\ Authorize(Answer(pick, {NoFile}))
          /\ UNCHANGED faults
    /\ UNCHANGED regVars

(* Mutant: a failed download leaves d.artifact to the next tick.           *)
DropArtifactIfDone(done) == artifact' = IF done THEN NoAnswer ELSE artifact

(* downloadAndCache and pullContainerImage clear d.artifact in any case.   *)
DropArtifact(done) == artifact' = NoAnswer

(* The download fails and with it the tick.                                *)
DownloadFails(o) ==
    /\ EndCall(o)
    /\ pc' = "idle"
    /\ DropArtifact(FALSE)
    /\ UNCHANGED <<taken, staged>>

(* Mutant: the download looks at the first page of releases only.          *)
AssetPageFirst == ReleasePageFirst

(* The page of releases the download of a GitHub asset looks at.           *)
AssetPage == ReleasePage

(***************************************************************************)
(* The search of Download in artifact/ghr.go for the asset's number: page  *)
(* by page, drafts included.  One that is not found is asked for with the  *)
(* number 0, which GitHub refuses.                                         *)
(***************************************************************************)
FindAsset ==
    /\ cfg.kind = "ghr"
    /\ pc = "find"
    /\ LET found == /\ artifact.tag \in ToSet(AssetPage.part)
                    /\ artifact.file \in ToSet(uploads[artifact.tag])
       IN  \/ /\ Fault("download")
              /\ DownloadFails("err")
           \/ /\ ~found /\ ~AssetPage.more
              /\ DownloadFails("lost")
              /\ UNCHANGED faults
           \/ /\ found \/ AssetPage.more
              /\ cursor' = IF found THEN 0 ELSE cursor + PageSize
              /\ pc' = IF found THEN "fetch" ELSE "find"
              /\ UNCHANGED <<faults, page, names, seen, pick, atStart, outcome, taken, loadVars>>
    /\ UNCHANGED <<regVars, token>>

(* The artifact arrives, and is kept under the name of the answer; images  *)
(* are kept by the runtime, and pulled again whenever the answer changes.  *)
Fetch(kind) ==
    /\ cfg.kind = kind
    /\ pc = "fetch"
    /\ \/ /\ Fault("download")
          /\ DownloadFails("err")
       \/ /\ staged' = {[want |-> taken, got |-> artifact]}
                        \cup (IF kind = "oci" THEN {} ELSE staged)
          /\ DropArtifact(TRUE)
          /\ pc' = "report"
          /\ UNCHANGED <<faults, cursor, page, names, seen, pick, atStart, outcome, taken>>
    /\ UNCHANGED <<regVars, token>>

(* Download of artifact/ghr.go (its last half), s3.go, gs.go and oci.go.   *)
DownloadReleaseAsset == Fetch("ghr")

GetObject == Fetch("s3")

NewReader == Fetch("gs")

Pull == Fetch("oci")

(* The text file is put beside the artifact.                               *)
PutTextObject(t) ==
    /\ ReportFile \notin ToSet(uploads[t])
    /\ uploads' = [uploads EXCEPT ![t] = Append(@, ReportFile)]

(***************************************************************************)
(* A new answer has been deployed: Report puts a text file named after the *)
(* host into the release.  Nothing is put when the deploy or the request   *)
(* failed (only logged), and OCI registries take no report.                *)
(***************************************************************************)
Report ==
    /\ pc = "report"
    /\ pc' = "idle"
    /\ \/ UNCHANGED uploads
       \/ cfg.kind # "oci" /\ PutTextObject(taken.tag)
    /\ UNCHANGED <<cfg, releases, drafts, gen, faults, cursor, page, names, seen, pick, atStart,
                   token, outcome, taken, loadVars>>

Current ==
    \/ BeginCurrent \/ ListFails \/ ListReleases \/ ListPrefixes \/ IteratePrefixes
    \/ ListTags \/ Select \/ ListObjects \/ IterateObjects \/ GetImageDigest
    \/ FindAsset \/ DownloadReleaseAsset \/ GetObject \/ NewReader \/ Pull
    \/ Report

Next == Registry \/ Current

Spec == Init /\ [][Next]_vars

(* The scheduler keeps calling Current and every request ends.             *)
FairSpec == Spec /\ WF_vars(Current)

-----------------------------------------------------------------------------
(* Properties *)

Eligible(t) == Admissible(cfg.format, cfg.pre, Version[t])

(***************************************************************************)
(* Precedence by item 11 of SemVer, as a lexicographic order: of the       *)
(* numbers, a missing one being zero, and then of the prereleases, in      *)
(* which nothing is below a number and a number below a word.  A signed    *)
(* identifier is a word to SemVer; here it is a number, as in the code.    *)
(***************************************************************************)
NumberAt(s, i) == IF i \in DOMAIN s THEN s[i].value ELSE 0

KindAt(s, i) == IF i \notin DOMAIN s THEN 0 ELSE IF s[i].numeric THEN 1 ELSE 2

LowerNumbers(a, b) ==
    \E i \in DOMAIN a \cup DOMAIN b :
        /\ NumberAt(a, i) < NumberAt(b, i)
        /\ \A j \in 1..(i - 1) : NumberAt(a, j) = NumberAt(b, j)

LowerPreRelease(a, b) ==
    \E i \in DOMAIN a \cup DOMAIN b :
        /\ \/ KindAt(a, i) < KindAt(b, i)
           \/ KindAt(a, i) = KindAt(b, i) /\ NumberAt(a, i) < NumberAt(b, i)
        /\ \A j \in 1..(i - 1) :
              KindAt(a, j) = KindAt(b, j) /\ NumberAt(a, j) = NumberAt(b, j)

Lower(v, w) ==
    \/ LowerNumbers(v.parts, w.parts)
    \/ /\ ~LowerNumbers(w.parts, v.parts)
       /\ v.pre # <<>>
       /\ w.pre = <<>> \/ LowerPreRelease(v.pre, w.pre)

(* How many names are below a name: names of equal precedence have the     *)
(* same rank.                                                              *)
Rank == [n \in Names |-> Cardinality({m \in Names : Lower(Version[m], Version[n])})]

Unsigned(t) == \A i \in DOMAIN Version[t].pre : ~Version[t].pre[i].signed

(***************************************************************************)
(* The comparison of semantic and of calendar versions (Compare of         *)
(* semver.go and calver.go) orders what a URL admits by item 11 of SemVer, *)
(* as comparePreRelease of version.go says it does: rc.10 after rc.9, while*)
(* docs/pages/versioning.md:213 says that they are compared as strings.    *)
(***************************************************************************)
ComparesByPrecedence ==
    \A n, m \in {t \in Names : Eligible(t) /\ Unsigned(t)} :
        Precedence[n][m] > 0 <=> Rank[n] > Rank[m]

(***************************************************************************)
(* What the client goes on with after a call that succeeded is no lower    *)
(* than any admissible version that had been published when the call       *)
(* started, however the pages shift under it (LatestVersion, latest,       *)
(* listTags), unless the slot check refused the answer.                    *)
(***************************************************************************)
AnswerCoversCall ==
    pc = "idle" /\ outcome = "ok" /\ Slot = "" =>
        /\ Eligible(taken.tag)
        /\ \A t \in atStart : Eligible(t) => Rank[t] <= Rank[taken.tag]

(***************************************************************************)
(* As long as releases are only added, the deploy loop is never sent back  *)
(* to a lower version (Current of each client, resolveCurrent).            *)
(***************************************************************************)
NoDowngrade ==
    [][taken # NoAnswer => Rank[taken'.tag] >= Rank[taken.tag]]_vars

(***************************************************************************)
(* The publisher names archives so that the words of this host are found   *)
(* in none for another platform.  A host called arm (or mips, ppc64, ...)  *)
(* asks more of him than others: its name is part of arm64.                *)
(***************************************************************************)
NamesTell ==
    \A f \in {g \in ToSet(Files) : File[g].archive} :
        /\ ArchPatterns(Host.arch) \cap File[f].words # {} => File[f].platform.arch = Host.arch
        /\ OSPatterns(Host.os) \cap File[f].words # {} => File[f].platform.os = Host.os

(***************************************************************************)
(* The artifact answered has been uploaded to the release it is answered   *)
(* for, and it is the one the URL names or an archive made for this host,  *)
(* if NamesTell (MatchArtifactByPlatform, and the assets kept while        *)
(* paging).                                                                *)
(***************************************************************************)
AnswerInstallable ==
    taken # NoAnswer /\ cfg.kind # "oci" =>
        /\ taken.file \in ToSet(uploads[taken.tag])
        /\ \/ taken.file = cfg.artifact
           \/ /\ File[taken.file].archive
              /\ NamesTell => /\ File[taken.file].platform.arch = Host.arch
                              /\ File[taken.file].platform.os = Host.os

(***************************************************************************)
(* The asset that was answered is found again by the download, although    *)
(* releases published in between push it to a later page (Download of      *)
(* artifact/ghr.go against latest of registry/ghr.go).                     *)
(***************************************************************************)
AssetFoundAgain == outcome # "lost"

(***************************************************************************)
(* The cache never holds the bytes of one release under the name of        *)
(* another, although d.artifact outlives the tick that made it and a newer *)
(* release may be answered after a failed download (downloadAndCache).     *)
(***************************************************************************)
StagedAsAnswered == \A e \in staged : e.got = e.want

(* Files of a release as Current gets to see them.                         *)
HasArtifact(t) == cfg.kind = "oci" \/ Candidates(InTextOrder(uploads[t])) # {}

Tops(S) == {t \in S : Eligible(t) /\ \A u \in S : Eligible(u) => Rank[u] <= Rank[t]}

Answerable ==
    /\ \A t \in Tops(Visible) : HasArtifact(t)
    /\ cfg.kind = "oci" => Cardinality(Visible) <= PageSize * MaxPages

(***************************************************************************)
(* Once the registry settles, the deploy loop goes on with the greatest    *)
(* version of its slot and has downloaded it, whatever requests failed and *)
(* tokens expired before (Current of each client, resolveCurrent).         *)
(***************************************************************************)
LatestTaken ==
    <>[](Answerable => \A t \in Tops({u \in Visible : SlotMatches(Slot, Version[u].build)}) :
                          /\ taken # NoAnswer /\ Rank[t] <= Rank[taken.tag]
                          /\ \E e \in staged : e.want = taken)
=============================================================================
