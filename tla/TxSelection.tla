----------------------------- MODULE TxSelection -----------------------------
(***************************************************************************)
(* What the gateway promises of the active TX station, the one selection   *)
(* that server/README.md describes: operators choose it, by the UI or by   *)
(* the Yamcs parameter of an instance, and the first station is selected   *)
(* by default.  Nothing else brings a name into play: the selection, and   *)
(* the parameter of an instance, are set to a name that is still around,   *)
(* which is to say selected, in a parameter or on its way between them.    *)
(* A restart forgets everything but the parameters and what is already on  *)
(* its way to them.                                                        *)
(***************************************************************************)
EXTENDS Naturals

CONSTANTS Names, Insts, None

VARIABLES
  known,   \* stations that may be selected
  active,  \* the selection, or None
  mirror,  \* the parameter of each instance, or None
  around,  \* names that may still be selected or mirrored without a new choice
  acts     \* how often operators chose and wrote, and the gateway was restarted

selectionVars == <<known, active, mirror, around, acts>>

Mirrored == {mirror[i] : i \in Insts} \ {None}

Init ==
  /\ known = {}
  /\ active = None
  /\ mirror = [i \in Insts |-> None]
  /\ around = {}
  /\ acts = [select |-> 0, write |-> 0, restart |-> 0]

\* Of the names around some may get lost in this step, and new ones are added.
Circulates(new) ==
  /\ around' \subseteq around \cup new
  /\ ({active'} \cup Mirrored') \subseteq around' \cup {None}

\* A station is heard for the first time; by default it is selected.
Join(n) ==
  /\ n \notin known
  /\ known' = known \cup {n}
  /\ active' = IF active = None THEN n ELSE active
  /\ Circulates(IF active = None THEN {n} ELSE {})
  /\ UNCHANGED <<mirror, acts>>

\* An operator selects a station.
Choose(n) ==
  /\ n \in known
  /\ active' = n
  /\ Circulates({n})
  /\ acts' = [acts EXCEPT !.select = @ + 1]
  /\ UNCHANGED <<known, mirror>>

\* An operator writes a name into the parameter of an instance.
Write(i, n) ==
  /\ mirror' = [mirror EXCEPT ![i] = n]
  /\ Circulates({n})
  /\ acts' = [acts EXCEPT !.write = @ + 1]
  /\ UNCHANGED <<known, active>>

\* A name that is around reaches the parameter of an instance ...
Spread(i, n) ==
  /\ n \in around
  /\ mirror' = [mirror EXCEPT ![i] = n]
  /\ Circulates({})
  /\ UNCHANGED <<known, active, acts>>

\* ... or becomes the selection, if it is that of a station ...
Adopt(n) ==
  /\ n \in around \cap known
  /\ active' = n
  /\ Circulates({})
  /\ UNCHANGED <<known, mirror, acts>>

\* ... or gets lost on its way.
Fade ==
  /\ Circulates({})
  /\ UNCHANGED <<known, active, mirror, acts>>

Restart ==
  /\ known' = {}
  /\ active' = None
  /\ Circulates({})
  /\ acts' = [acts EXCEPT !.restart = @ + 1]
  /\ UNCHANGED mirror

Next == \/ \E n \in Names : Join(n) \/ Choose(n) \/ Adopt(n)
        \/ \E i \in Insts, n \in Names : Write(i, n) \/ Spread(i, n)
        \/ Fade
        \/ Restart

Spec == Init /\ [][Next]_selectionVars
=============================================================================
