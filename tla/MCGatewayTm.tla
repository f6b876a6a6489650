---------------------------- MODULE MCGatewayTm ----------------------------
(* An instance of GatewayTm for TLC: two satellites and one unknown id. *)
EXTENDS GatewayTm, TLC

CONSTANTS f1, f2, stray, sat1, sat2

TwoSatellites == (f1 :> sat1) @@ (f2 :> sat2) @@ (stray :> None)
SmallLimit == ("copy" :> 4) @@ ("restart" :> 1) @@ ("ioFail" :> 1)
=============================================================================
