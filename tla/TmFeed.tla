------------------------------- MODULE TmFeed -------------------------------
(***************************************************************************)
(* What the telemetry path promises to Yamcs (server/README.md:21): of the *)
(* copies of one frame that several stations deliver, one is passed on;    *)
(* the same content is passed on again only when more than Window ticks    *)
(* have gone by.  Nothing is remembered across a restart of the gateway.   *)
(***************************************************************************)
EXTENDS Naturals

CONSTANTS Frames, Window

VARIABLES
  since,  \* ticks since a frame's content was last passed on, capped
  count   \* how often it was passed on

Long == Window + 1

Init == /\ since = [f \in Frames |-> Long]
        /\ count = [f \in Frames |-> 0]

Tick == /\ since' = [f \in Frames |-> IF since[f] < Long THEN since[f] + 1 ELSE Long]
        /\ UNCHANGED count

PassOn(f) == /\ since[f] > Window
             /\ since' = [since EXCEPT ![f] = 0]
             /\ count' = [count EXCEPT ![f] = @ + 1]

Forget == /\ since' = [f \in Frames |-> Long]
          /\ UNCHANGED count

Next == Tick \/ Forget \/ \E f \in Frames : PassOn(f)

Spec == Init /\ [][Next]_<<since, count>>
=============================================================================
