----------------------------- MODULE MCCampaign -----------------------------
(* A netem scenario, a fault-injector one, one with both, a placeholder and *)
(* a plain one; the command lines that differ in what the tools do.         *)
EXTENDS Campaign
Plain == [netem |-> FALSE, fi |-> "none", all |-> {}, any |-> {}, stage2 |-> FALSE]
MCMatrix == <<
    [Plain EXCEPT !.netem = TRUE, !.all = {[counter |-> "tx_retrans", relation |-> ">0"]}],
    [Plain EXCEPT !.fi = "drop", !.any = {[counters |-> {"tx_retrans", "tx_rto"}, relation |-> ">0"]}],
    [Plain EXCEPT !.netem = TRUE, !.fi = "corrupt"],
    [Plain EXCEPT !.stage2 = TRUE], Plain>>
MCSmokeSet == <<1, 2>>
Once == [tool |-> "e2e", names |-> <<>>, plan |-> <<>>, fi |-> "none", strict |-> FALSE, list |-> FALSE,
         smoke |-> FALSE, external |-> FALSE, stacks |-> <<>>, fstack |-> FALSE,
         ssh |-> TRUE, task18 |-> FALSE, counters |-> {},
         warm |-> 1, iters |-> 2, request |-> 2, response |-> 2]
Linux == [Once EXCEPT !.tool = "rtt", !.names = <<"dpdk_net", "linux_kernel", "dpdk_net">>]
Stress == [Once EXCEPT !.tool = "stress", !.warm = 0, !.iters = 1]
LayerH == [Stress EXCEPT !.tool = "layer_h", !.warm = 1]
MCCommands == {
    Once, [Once EXCEPT !.task18 = TRUE, !.strict = TRUE], [Once EXCEPT !.tool = "ab"],
    [Once EXCEPT !.tool = "ab", !.response = 1, !.iters = 3], [Once EXCEPT !.warm = 0, !.iters = 0],
    Linux, [Linux EXCEPT !.names = <<"fstack">>, !.fstack = TRUE, !.response = 1],
    [Linux EXCEPT !.names = <<"afpacket", "fstack">>], [Linux EXCEPT !.names = <<"tap">>],
    [Linux EXCEPT !.names = <<"linux_kernel", "afpacket", "fstack">>, !.strict = TRUE, !.warm = 0],
    Stress, [Stress EXCEPT !.names = <<1, 5, 1>>], [Stress EXCEPT !.names = <<1, 2>>],
    [Stress EXCEPT !.names = <<1, 4>>], [Stress EXCEPT !.names = <<1>>, !.iters = 0],
    [Stress EXCEPT !.list = TRUE], [Stress EXCEPT !.names = <<1, 5>>, !.external = TRUE],
    [LayerH EXCEPT !.request = 1, !.response = 1], [LayerH EXCEPT !.names = <<5>>],
    [LayerH EXCEPT !.smoke = TRUE, !.request = 1, !.response = 1],
    [LayerH EXCEPT !.names = <<1, 1>>, !.request = 1, !.response = 1],
    [LayerH EXCEPT !.names = <<2, 3>>], [LayerH EXCEPT !.names = <<6>>],
    [LayerH EXCEPT !.list = TRUE], [LayerH EXCEPT !.names = <<1>>, !.ssh = FALSE]}
=============================================================================
