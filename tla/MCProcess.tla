----------------------------- MODULE MCProcess -----------------------------
(* Command lines for Process: what a small instance is called with.        *)
EXTENDS Process

Single(n, z) == [range |-> FALSE, lo |-> n, hi |-> n, zeros |-> z, numeric |-> TRUE]
Between(a, b) == [range |-> TRUE, lo |-> a, hi |-> b, zeros |-> 0, numeric |-> TRUE]
Mapping(p, c) == [proxy |-> p, container |-> c, numeric |-> TRUE]

Notifier(k, v) == [kind |-> k, valid |-> v, thread |-> TRUE]

Base == [command |-> "assets", specs |-> <<>>, adminPort |-> 5, interval |-> 1, registry |-> TRUE,
         notifier |-> Notifier("", TRUE), quiet |-> FALSE, hooks |-> FALSE, telemetry |-> FALSE]

(* Ports are 1..6, the admin API tries 5 and 6 (6 and 7, which is none).   *)
MCArgs ==
    {[Base EXCEPT !.command = "server", !.notifier = Notifier("slack", TRUE), !.hooks = TRUE,
                  !.specs = << {Single(2, 0), Single(2, 1)}, {Between(2, 4)} >>],
     [Base EXCEPT !.notifier = Notifier("mail", TRUE), !.quiet = TRUE, !.hooks = TRUE, !.telemetry = TRUE],
     [Base EXCEPT !.command = "container", !.notifier = Notifier("mail", FALSE),
                  !.specs = << Mapping(1, 3), Mapping(5, 0) >>],
     [Base EXCEPT !.command = "container", !.specs = << Mapping(1, 3), Mapping(1, 0) >>],
     [Base EXCEPT !.command = "container", !.specs = << Mapping(1, 3), Mapping(1, 3) >>],
     [Base EXCEPT !.command = "server", !.specs = << {Between(4, 7)} >>],
     [Base EXCEPT !.interval = 0, !.notifier = Notifier("slack", FALSE), !.telemetry = TRUE,
                  !.adminPort = 6],
     [Base EXCEPT !.registry = FALSE],
     [Base EXCEPT !.notifier = Notifier("http", TRUE)]}
=============================================================================
