-------------------------- MODULE MCRegistryClient --------------------------
(* Names, files and registry URLs for model checking RegistryClient.       *)
EXTENDS RegistryClient

LOCAL N(v) == [value |-> v, digits |-> IF v < 10 THEN 1 ELSE IF v < 100 THEN 2 ELSE 4]
LOCAL Num(v) == [numeric |-> TRUE, signed |-> FALSE, value |-> v, digits |-> N(v).digits]
LOCAL Word(rank) == [numeric |-> FALSE, signed |-> FALSE, value |-> rank, digits |-> 0]

LOCAL Ver(a, b, c, pre, build) ==
    [parts |-> <<N(a), N(b), N(c)>>, pre |-> pre, build |-> build]

(* In text order.  v1.9.0 and v1.10.0 order differently as text and as     *)
(* versions, and so do rc.10 and rc.9.                                     *)
MCLexical == <<"v1.10.0+blue", "v1.11.0-rc.10", "v1.11.0-rc.9", "v1.9.0+blue">>

MCVersion == [n \in ToSet(MCLexical) |->
    CASE n = "v1.10.0+blue"  -> Ver(1, 10, 0, <<>>, "blue")
      [] n = "v1.11.0-rc.10" -> Ver(1, 11, 0, <<Word(2), Num(10)>>, "")
      [] n = "v1.11.0-rc.9"  -> Ver(1, 11, 0, <<Word(2), Num(9)>>, "")
      [] n = "v1.9.0+blue"   -> Ver(1, 9, 0, <<>>, "blue")]

(* For the question of slots: two builds that are a tie, and one below.    *)
MCBuilds == <<"v1.10.0+blue", "v1.10.0+green", "v1.9.0+blue">>

MCBuildVersion == [n \in ToSet(MCBuilds) |->
    CASE n = "v1.10.0+blue"  -> Ver(1, 10, 0, <<>>, "blue")
      [] n = "v1.10.0+green" -> Ver(1, 10, 0, <<>>, "green")
      [] n = "v1.9.0+blue"   -> Ver(1, 9, 0, <<>>, "blue")]

MCReport == "shipped_to_linux_amd64_1.txt"

(* In text order: the report, which names this host, an archive for it and *)
(* one for another architecture.                                           *)
MCFiles == << MCReport, "tool_linux_amd64.tar.gz", "tool_linux_arm64.tar.gz" >>

MCHost == [arch |-> "amd64", os |-> "linux"]

MCFile == [f \in ToSet(MCFiles) |->
    IF f = "tool_linux_arm64.tar.gz"
    THEN [archive |-> TRUE, words |-> {"linux", "arm", "arm64"},
          platform |-> [arch |-> "arm64", os |-> "linux"]]
    ELSE [archive |-> f # MCReport, words |-> {"linux", "amd64"}, platform |-> MCHost]]

LOCAL Url(kind, format, pre, name) ==
    [kind |-> kind, format |-> format, pre |-> pre, artifact |-> name]

(* As calendar versions, v1.9.0+blue is malformed: 0M takes two digits.    *)
MCConfigs == {Url("ghr", <<>>, TRUE, ""),
              Url("s3", <<>>, TRUE, "tool_linux_amd64.tar.gz"),
              Url("gs", <<"YY", "0M", "MICRO">>, FALSE, ""),
              Url("oci", <<>>, TRUE, "")}

(* One registry, for the question of slots.                                *)
MCGitHub == {Url("ghr", <<>>, FALSE, "")}
=============================================================================
