---------------------------- MODULE MCSupervisor ----------------------------
(* Instances of Supervisor for TLC. *)
EXTENDS Supervisor, TLC

Times(interrupts, fails, exits) ==
  ("interrupt" :> interrupts) @@ ("fail" :> fails) @@ ("exit" :> exits)

OneOfEach == Times(1, 1, 1)
NoFailure == Times(0, 0, 0)
=============================================================================
