---------------------------- MODULE FreshNumbers ----------------------------
(***************************************************************************)
(* What the anti-replay check of a satellite needs of the numbers a ground *)
(* station authenticates telecommands with: of the numbers taken from one  *)
(* counter, each one on the air is larger than those before it, until the  *)
(* counter wraps and a new era begins.                                     *)
(***************************************************************************)
EXTENDS Integers

CONSTANTS Counters, MaxNumber

VARIABLES
  air,   \* air[c]: [era, num] radioed last with a number of counter c
  count  \* count[c]: frames radioed so far with numbers of counter c

Stamp == [era : Nat, num : -1..MaxNumber]

Before(a, b) == a.era < b.era \/ (a.era = b.era /\ a.num < b.num)

Init ==
  /\ air = [c \in Counters |-> [era |-> 0, num |-> -1]]
  /\ count = [c \in Counters |-> 0]

Transmit(c) ==
  /\ air' \in [Counters -> Stamp]
  /\ Before(air[c], air'[c])
  /\ \A d \in Counters \ {c} : air'[d] = air[d]
  /\ count' = [count EXCEPT ![c] = @ + 1]

Next == \E c \in Counters : Transmit(c)

Spec == Init /\ [][Next]_<<air, count>>
=============================================================================
