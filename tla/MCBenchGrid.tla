---------------------------- MODULE MCBenchGrid ----------------------------
(* Bursts above the window, writes below it, one and two connections, and   *)
(* the command lines that differ in what the arms do.                       *)
EXTENDS BenchGrid
MCBurstBytes == <<3>>
MCWriteBytes == <<1>>
MCCounts == <<1, 2>>
Command == [workload |-> "maxtp", stacks |-> <<"dpdk_net">>, strict |-> FALSE, obs |-> FALSE,
            fstack |-> FALSE, warm |-> 0, filter |-> TRUE]
Burst == [Command EXCEPT !.workload = "burst"]
MCCommands == {
    Command, [Command EXCEPT !.obs = TRUE], [Command EXCEPT !.filter = FALSE],
    [Command EXCEPT !.stacks = <<"linux">>], [Burst EXCEPT !.stacks = <<"linux">>],
    [Command EXCEPT !.stacks = <<"fstack">>], [Command EXCEPT !.stacks = <<"fstack">>, !.fstack = TRUE],
    [Command EXCEPT !.stacks = <<"mtcp">>], [Command EXCEPT !.stacks = <<"mtcp">>, !.strict = TRUE],
    [Burst EXCEPT !.stacks = <<"mtcp">>, !.strict = TRUE],
    Burst, [Burst EXCEPT !.obs = TRUE], [Burst EXCEPT !.obs = TRUE, !.warm = 1],
    [Burst EXCEPT !.stacks = <<"fstack">>, !.fstack = TRUE],
    [Burst EXCEPT !.stacks = <<"dpdk_net", "fstack">>, !.fstack = TRUE, !.warm = 1]}
=============================================================================
