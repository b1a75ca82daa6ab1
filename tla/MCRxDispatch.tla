---------------------------- MODULE MCRxDispatch ----------------------------
(***************************************************************************)
(* Frames for RxDispatch: one that is in order for every kind of payload,  *)
(* and frames that fail two checks at once, so that the order of the       *)
(* checks shows.                                                           *)
(***************************************************************************)
EXTENDS RxDispatch

Plain == [eth |-> "ipv4", fails |-> {}, proto |-> "tcp", dst |-> LocalIp, nic |-> "none",
          segs |-> 1, huge |-> FALSE, syn |-> FALSE, damaged |-> FALSE,
          op |-> "reply", sender |-> GatewayIp, target |-> LocalIp, mac |-> "gw",
          about |-> GatewayIp, mtu |-> 0]

Second == CHOOSE ip \in OtherIps : TRUE

MCFrames ==
    { [Plain EXCEPT !.syn = TRUE],
      [Plain EXCEPT !.nic = "good"],
      [Plain EXCEPT !.segs = 2],
      [Plain EXCEPT !.huge = TRUE, !.fails = {"frag", "ip_csum"}, !.nic = "bad"],
      [Plain EXCEPT !.dst = Second, !.fails = {"tcp_csum"}],
      [Plain EXCEPT !.fails = {"flags", "tcp_csum"}, !.nic = "bad_l4"],
      [Plain EXCEPT !.proto = "icmp", !.mtu = 3],
      [Plain EXCEPT !.proto = "icmp", !.mtu = 1, !.nic = "good"],
      [Plain EXCEPT !.eth = "arp", !.mac = "other"],
      [Plain EXCEPT !.eth = "arp", !.op = "request", !.sender = Second, !.mac = "other"] }

=============================================================================
