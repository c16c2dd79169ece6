---------------------------- MODULE CommandLine ----------------------------
(***************************************************************************)
(* The --port options of `dewy server` and `dewy container` (cli.go).      *)
(*                                                                         *)
(* A part of an option of `server` is a number or a range; it is a record  *)
(* [range, lo, hi, zeros, numeric], where zeros counts the zeros written   *)
(* in front of a single number.  An option of `container` is a record      *)
(* [proxy, container, numeric], container being 0 when it is left out.     *)
(* specs are the options in the order they are given, maybe repeated.      *)
(***************************************************************************)
EXTENDS Integers, Sequences

CONSTANTS
    MaxPort,    \* 65535
    MaxSpan     \* 100: the largest difference of the ends of a range

ASSUME PortAssumption == {MaxPort, MaxSpan} \subseteq Nat \ {0}

validatePortNumber(port) == port \in 1..MaxPort

(* strconv.Atoi takes leading zeros.                                       *)
validatePort(part) == part.numeric /\ validatePortNumber(part.lo)

ValidRange(part) ==
    /\ part.numeric
    /\ part.lo <= part.hi
    /\ part.hi - part.lo <= MaxSpan
    /\ \A i \in part.lo..part.hi : validatePortNumber(i)

(* Mutant: the end of the range is left out.                               *)
parsePortRangeOpen(part) == {[number |-> i, zeros |-> 0] : i \in part.lo..(part.hi - 1)}

(* The texts of the numbers of a valid range.                              *)
parsePortRange(part) == {[number |-> i, zeros |-> 0] : i \in part.lo..part.hi}

(* One option: its parts, which commas separate.                           *)
parsePortSpec(spec) ==
    [ok    |-> \A part \in spec : IF part.range THEN ValidRange(part) ELSE validatePort(part),
     ports |-> UNION {IF part.range THEN parsePortRange(part)
                      ELSE {[number |-> part.lo, zeros |-> part.zeros]} : part \in spec}]

(* Each text once, whichever options it came from; 8080 and 08080 are two. *)
validateAndDeduplicatePorts(found) == UNION found

parsePorts(specs) ==
    [ok    |-> \A i \in DOMAIN specs : parsePortSpec(specs[i]).ok,
     ports |-> validateAndDeduplicatePorts({parsePortSpec(specs[i]).ports : i \in DOMAIN specs})]

ValidMapping(spec) ==
    /\ spec.numeric
    /\ validatePortNumber(spec.proxy)
    /\ spec.container # 0 => validatePortNumber(spec.container)

Mappings(specs) ==
    {[proxy |-> specs[i].proxy, container |-> specs[i].container] : i \in DOMAIN specs}

(* Mutant: mappings that repeat a proxy port are let through.              *)
parsePortMappingsTwice(specs) ==
    [ok |-> \A i \in DOMAIN specs : ValidMapping(specs[i]), ports |-> Mappings(specs)]

(* Mappings from proxy ports to container ports, no proxy port twice, be   *)
(* it in the very same mapping.                                            *)
parsePortMappings(specs) ==
    [ok |-> /\ \A i \in DOMAIN specs : ValidMapping(specs[i])
            /\ \A i, j \in DOMAIN specs : specs[i].proxy = specs[j].proxy => i = j,
     ports |-> Mappings(specs)]

(* Ports are optional for a server ...                                     *)
configureServerCommand(specs) == parsePorts(specs)

(* ... and needed for containers.                                          *)
configureContainerCommand(specs) ==
    [parsePortMappings(specs) EXCEPT !.ok = @ /\ specs # <<>>]

(* run: what the command is configured with, if it is started at all.      *)
Configure(command, specs) ==
    CASE command = "server"    -> configureServerCommand(specs)
      [] command = "container" -> configureContainerCommand(specs)
      [] command = "assets"    -> [ok |-> TRUE, ports |-> {}]
=============================================================================
