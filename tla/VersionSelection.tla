-------------------------- MODULE VersionSelection --------------------------
(***************************************************************************)
(* How a registry client picks the release to deploy from a list of names: *)
(* registry/semver.go, calver.go, version.go, slot.go and platform.go.     *)
(*                                                                         *)
(* Version[n] is what the regular expressions see of a name n (a tag or a  *)
(* version directory):                                                     *)
(*   parts   the numbers before "-" and "+", each with its count of digits *)
(*           (<<>> when the name is no version at all, such as "latest"),  *)
(*   pre     the dot-separated prerelease identifiers (<<>>: none),        *)
(*   build   the build metadata, which dewy uses as the slot ("": none).   *)
(* Numbers are small enough for strconv.Atoi.  A format's literals are the *)
(* dots between its specifiers.                                            *)
(***************************************************************************)
EXTENDS Integers, Sequences, SequencesExt, FiniteSetsExt

CONSTANTS
    Version,    \* what a name says, see above
    File        \* File[f]: [archive, words, platform], see Artifacts below

Names == DOMAIN Version

(* An identifier is numeric if strconv.Atoi takes it, signed if that is    *)
(* for a leading "-"; the value of a word is its rank in text order.       *)
ASSUME VersionAssumption ==
    \A n \in Names :
        /\ Version[n].parts \in Seq([value : Nat, digits : Nat])
        /\ Version[n].pre \in Seq([numeric : BOOLEAN, signed : BOOLEAN,
                                   value : Int, digits : Nat])

(* No version found: the nil of FindLatest.                                *)
NoVersion == ""

(* The members of S in a list, in the order of the list.                   *)
Only(list, S) ==
    LET kept[i \in 0..Len(list)] ==
          IF i = 0 THEN <<>>
          ELSE IF list[i] \in S THEN Append(kept[i - 1], list[i]) ELSE kept[i - 1]
    IN  kept[Len(list)]

(* The first member of S in a list: a set of one or none.                  *)
FirstIn(list, S) ==
    {list[i] : i \in {j \in DOMAIN list : /\ list[j] \in S
                                         /\ \A k \in 1..(j - 1) : list[k] \notin S}}

-----------------------------------------------------------------------------
(* Mutant: identifiers are compared as text, so that rc.10 precedes rc.9.  *)
CompareIdentifierText(x, y) ==
    IF x.numeric /\ y.numeric /\ x.digits # y.digits
    THEN y.digits - x.digits
    ELSE x.value - y.value

(***************************************************************************)
(* One step of the loop of comparePreRelease: numbers as integers, words   *)
(* lexically (value is a word's rank), numbers below words.                *)
(***************************************************************************)
CompareIdentifier(x, y) ==
    IF x.numeric = y.numeric THEN x.value - y.value
    ELSE IF x.numeric THEN -1 ELSE 1

(* comparePreRelease: the first difference decides, a prefix is lower.     *)
ComparePreRelease(a, b) ==
    LET common == 1..Min({Len(a), Len(b)})
        differ == {i \in common : CompareIdentifier(a[i], b[i]) # 0}
    IN  IF differ # {} THEN CompareIdentifier(a[Min(differ)], b[Min(differ)])
        ELSE Len(a) - Len(b)

(* Compare of CalVer: missing numbers count as zero.                       *)
CompareSegments(a, b) ==
    LET At(s, i) == IF i \in DOMAIN s THEN s[i].value ELSE 0
        differ == {i \in DOMAIN a \cup DOMAIN b : At(a, i) # At(b, i)}
    IN  IF differ = {} THEN 0 ELSE At(a, Min(differ)) - At(b, Min(differ))

(***************************************************************************)
(* Compare of SemVer, and of CalVer after its numbers: a stable version is *)
(* above its prereleases, and build metadata does not count.               *)
(***************************************************************************)
Compare(v, w) ==
    LET numbers == CompareSegments(v.parts, w.parts)
    IN  IF numbers # 0 THEN numbers
        ELSE IF v.pre = <<>> /\ w.pre # <<>> THEN 1
        ELSE IF v.pre # <<>> /\ w.pre = <<>> THEN -1
        ELSE ComparePreRelease(v.pre, w.pre)

-----------------------------------------------------------------------------
(* matchSemVerPattern: three numbers; a prerelease only where allowed.     *)
MatchSemVerPattern(v, allowPreRelease) ==
    /\ Len(v.parts) = 3
    /\ v.pre # <<>> => allowPreRelease

(***************************************************************************)
(* calverSpecifiers: what each specifier of a format accepts.              *)
(***************************************************************************)
Accepts(spec, part) ==
    LET Plain(hi)  == part.value \in 1..hi /\ part.digits = (IF part.value < 10 THEN 1 ELSE 2)
        Padded(hi) == part.value \in 1..hi /\ part.digits = 2
    IN  CASE spec = "YYYY"  -> part.digits = 4
          [] spec = "YY"    -> part.digits \in 1..3
          [] spec = "0Y"    -> part.digits \in 2..3
          [] spec = "MM"    -> Plain(12)
          [] spec = "0M"    -> Padded(12)
          [] spec = "WW"    -> Plain(53)
          [] spec = "0W"    -> Padded(53)
          [] spec = "DD"    -> Plain(31)
          [] spec = "0D"    -> Padded(31)
          [] spec = "MICRO" -> TRUE

(* CalVerFormat.Parse, for a format given by its specifiers: whether the   *)
(* name has the format at all.                                             *)
ParsesAs(format, v) ==
    /\ Len(v.parts) = Len(format)
    /\ \A i \in DOMAIN format : Accepts(format[i], v.parts[i])

(* The filters of FindLatestCalVerWithSlot and FindLatestSemVerWithSlot    *)
(* (format <<>>: no --calver), called without a slot by every registry.    *)
Admissible(format, allowPreRelease, v) ==
    IF format = <<>> THEN MatchSemVerPattern(v, allowPreRelease)
    ELSE ParsesAs(format, v) /\ (v.pre # <<>> => allowPreRelease)

(* The comparison of every two names, worked out once.                     *)
Precedence == [n \in Names |-> [m \in Names |-> Compare(Version[n], Version[m])]]

(* The body of the loop: a strictly greater version replaces the best.     *)
GreaterOf(best, n) ==
    IF best = NoVersion THEN n ELSE IF Precedence[n][best] > 0 THEN n ELSE best

FindLatest(names, format, allowPreRelease) ==
    LET latest[i \in 0..Len(names)] ==
          IF i = 0 THEN NoVersion
          ELSE IF Admissible(format, allowPreRelease, Version[names[i]])
               THEN GreaterOf(latest[i - 1], names[i])
               ELSE latest[i - 1]
    IN  latest[Len(names)]

(* SlotMatcher.Matches: an empty expected slot matches anything.           *)
SlotMatches(expected, actual) == expected = "" \/ expected = actual

(***************************************************************************)
(* extractSlot: the build metadata of a tag that parses in the configured  *)
(* format or, failing that, as a semantic version.                         *)
(***************************************************************************)
ExtractSlot(v, format) ==
    IF (format # <<>> /\ ParsesAs(format, v)) \/ Len(v.parts) = 3 THEN v.build ELSE ""

-----------------------------------------------------------------------------
(***************************************************************************)
(* Artifacts.  Of the file f,                                              *)
(*   archive   says whether its name ends like one of an archive,          *)
(*   words     are the names of architectures and systems that its name    *)
(*             contains in lower case, in any place, such as "arm" and     *)
(*             "arm64" in "tool_linux_arm64.zip" (strings.Contains),       *)
(*   platform  is the [arch, os] its contents are made for.                *)
(***************************************************************************)
ArchPatterns(arch) == IF arch = "amd64" THEN {"amd64", "x86_64"} ELSE {arch}
OSPatterns(os) == IF os = "darwin" THEN {"darwin", "macos"} ELSE {os}

(* Mutant: the architecture is not looked for.                             *)
MatchesSystem(file, host) == OSPatterns(host.os) \cap File[file].words # {}

(* matchesPlatform: one name of the architecture and one of the system.    *)
MatchesPlatform(file, host) ==
    /\ ArchPatterns(host.arch) \cap File[file].words # {}
    /\ OSPatterns(host.os) \cap File[file].words # {}

(* isArchiveFile: the suffix is one of those ExtractArchive unpacks.       *)
IsArchive(file) == File[file].archive

(* Mutant: any file for the platform will do, checksums included.          *)
MatchWithoutArchive(files, host) ==
    FirstIn(files, {f \in DOMAIN File : MatchesPlatform(f, host)})

(* MatchArtifactByPlatform: the first archive for the platform, if any.    *)
MatchArtifactByPlatform(files, host) ==
    FirstIn(files, {f \in DOMAIN File : IsArchive(f) /\ MatchesPlatform(f, host)})
=============================================================================
