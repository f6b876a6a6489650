---------------------------- MODULE MCGatewayTx ----------------------------
(* Instances of GatewayTx for TLC: how often the environment acts in each run. *)
EXTENDS GatewayTx, TLC

Times(select, write, restart, ioFail, tcs, status) ==
  ("select" :> select) @@ ("write" :> write) @@ ("restart" :> restart)
    @@ ("ioFail" :> ioFail) @@ ("tc" :> tcs) @@ ("status" :> status)

SafetyLimit   == Times(1, 1, 1, 1, 1, 0)
LiveLimit     == Times(1, 1, 1, 0, 1, 1)
SelectLimit   == Times(1, 0, 0, 0, 0, 0)
SendFailLimit == Times(0, 0, 0, 1, 2, 0)
=============================================================================
