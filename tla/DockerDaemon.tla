---------------------------- MODULE DockerDaemon ----------------------------
(***************************************************************************)
(* External: the one container of a sandbox run, as the three runners of    *)
(* app/sandbox see it through the Docker command line.  A call either is    *)
(* answered (the daemon did it and the client says so) or fails, in which   *)
(* case the daemon may have done it nevertheless.  What the container went  *)
(* through is kept after its removal, so that a result can be compared with *)
(* what really happened.                                                    *)
(***************************************************************************)
EXTENDS Integers

None == "None"
NoCode == -1

CONSTANT ExitCodes      \* the exit codes of the tests that are told apart

ASSUME ExitCodesAssumption == ExitCodes \subseteq 0..255

VARIABLE container

StartFailure == 128     \* recorded by the daemon for a start it could not do
KillCode == 137

Container == [ state : { "absent", "created", "running", "exited" },
               code : ExitCodes \cup { 0, StartFailure, KillCode },
               oom : BOOLEAN, ran : BOOLEAN, killed : BOOLEAN ]

NoContainer == [ state |-> "absent", code |-> 0, oom |-> FALSE, ran |-> FALSE, killed |-> FALSE ]

\* The daemon can answer the call.  A wait blocks while the container runs, and
\* answers at once, with exit code 0, for a container that never started.
Possible(call) ==
    /\ call = "create" => container.state = "absent"
    /\ call = "start" => container.state = "created"
    /\ call = "kill" => container.state = "running"
    /\ call = "wait" => container.state \in { "created", "exited" }
    /\ call = "inspect" => container.state # "absent"

\* rm --force kills a running container.
Effect(call) ==
    IF call = "create" THEN [container EXCEPT !.state = "created"]
    ELSE IF call = "start" THEN [container EXCEPT !.state = "running", !.ran = TRUE]
    ELSE IF call = "kill" THEN [container EXCEPT !.state = "exited", !.code = KillCode, !.killed = TRUE]
    ELSE IF call = "rm" THEN [container EXCEPT !.state = "absent",
                                               !.killed = @ \/ container.state = "running"]
    ELSE container

Answered(call) == Possible(call) /\ container' = Effect(call)
Unanswered(call) == container' = container \/ Answered(call)

\* A start that does not start: the client did not get to ask, or the daemon could not.
StartRefused ==
    /\ container.state = "created"
    /\ \E code \in { 0, StartFailure } : container' = [container EXCEPT !.code = code]

\* The tests end, or the kernel ends them for want of memory.
Ends ==
    /\ container.state = "running"
    /\ \E code \in ExitCodes, oom \in BOOLEAN :
           container' = [container EXCEPT !.state = "exited", !.code = code, !.oom = oom]
=============================================================================
