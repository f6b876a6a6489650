----------------------------- MODULE MCPrepare -----------------------------
(* An instance of Prepare for TLC: a file whose second deployment moves when the *)
(* first is removed, one with the reserved name, and one with a port twice.      *)
EXTENDS Prepare, TLC

CONSTANTS sat, eng, ground

Line(n, port) == [name |-> n, tm_port |-> port]

DeploymentFiles ==
  {<<Line(sat, None)>>,
   <<Line(eng, None), Line(sat, None)>>,
   <<Line(sat, None), Line(ground, None)>>,
   <<Line(eng, 2), Line(sat, None)>>}

SmallLimit == ("prepare" :> 2) @@ ("stop" :> 1) @@ ("edit" :> 1) @@ ("run" :> 2)
                @@ ("reload" :> 1)
=============================================================================
