---------------------------- MODULE MCRadioSync ----------------------------
(* Instances of RadioSync for TLC: a grc board with one stored parameter beside *)
(* its frequency, and a circuitpython board.                                    *)
EXTENDS RadioSync, TLC

CONSTANTS grc, circuitpython, g1, g2, c1

BoardOf == (g1 :> grc) @@ (g2 :> grc) @@ (c1 :> circuitpython)
WritesOf == (grc :> 2) @@ (circuitpython :> 1)

Times(requests, timeouts, fails, clients, gateways) ==
  ("request" :> requests) @@ ("timeout" :> timeouts) @@ ("ioFail" :> fails)
    @@ ("clientRestart" :> clients) @@ ("gatewayRestart" :> gateways)

SyncLimit == Times(3, 2, 2, 1, 1)
WriteErrorLimit == Times(3, 0, 1, 0, 0)
=============================================================================
