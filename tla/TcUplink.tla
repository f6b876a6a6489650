------------------------------ MODULE TcUplink ------------------------------
(***************************************************************************)
(* The telecommand thread of a ground station: _forward_tc of              *)
(* client/src/proves_gs/client.py with SequenceStore and                   *)
(* AuthenticateFramer of authentication.py.  Frames from the gateway are   *)
(* matched to a satellite by spacecraft id, numbered and authenticated,    *)
(* framed and written to the radio.  The authentication number is kept in  *)
(* a file, which several satellites of the station may share.              *)
(*                                                                         *)
(* The thread may be stopped between any two steps and the client started  *)
(* again, and a file may be damaged or deleted at any time.  The count in  *)
(* the space packet header, private to the process, and the bytes of the   *)
(* frames are left out.                                                    *)
(***************************************************************************)
EXTENDS Integers

CONSTANTS
  Sats,       \* [[satellite]] tables
  Signed,     \* those without skip_auth
  Files,      \* sequence number files
  FileOf,     \* sequence_number_file of each satellite that signs
  MaxNumber,  \* 0xFFFFFFFF in authentication.py
  Limit,      \* bound: how many events of each kind the environment makes
  None        \* Python's None

Kinds == {"tc", "ioFail", "damage", "delete", "restart"}

ASSUME TcUplinkAssumption ==
  /\ Signed \subseteq Sats
  /\ FileOf \in [Signed -> Files]
  /\ MaxNumber \in Nat
  /\ Limit \in [Kinds -> Nat]
  /\ None \notin Sats

VARIABLES
  file,     \* number in each sequence file, or Unreadable or Missing
  temp,     \* number in the temporary file beside it, written before the rename
  alive,    \* is the _forward_tc thread running?
  tc,       \* [pc, sat, num, era]: the frame in hand and where the thread is
  written,  \* stats["tc_frames"]
  used,     \* how much of Limit has been used
  era,      \* history: how often the counter of each file wrapped or began anew
  onAir,    \* history: [era, num] radioed last with each file's numbers
  radioed,  \* history: how many frames were radioed with each file's numbers
  issued    \* history: [era, num] returned last by SequenceStore.next, per file

vars == <<file, temp, alive, tc, written, used, era, onAir, radioed, issued>>
onAirVars == <<onAir, radioed>>
history == <<era, onAirVars, issued>>

Unreadable == -1
Missing == -2
Waiting == [pc |-> "recv", sat |-> None, num |-> 0, era |-> 0]
Nothing == [era |-> 0, num |-> -1]

Spend(kind) ==
  /\ used[kind] < Limit[kind]
  /\ used' = [used EXCEPT ![kind] = @ + 1]

\* Mutant: the counter does not wrap.
MutSuccessor(n) == n + 1

Successor(n) == IF n = MaxNumber THEN 0 ELSE n + 1

-----------------------------------------------------------------------------
\* recvfrom and select_satellite_for_tc.  A frame for no satellite, or too short
\* for a space packet, is dropped before a number is taken for it.
DropFrame ==
  /\ alive /\ tc = Waiting
  /\ Spend("tc")
  /\ UNCHANGED <<file, temp, alive, tc, written, history>>

Receive(s) ==
  /\ alive /\ tc = Waiting
  /\ Spend("tc")
  /\ tc' = [tc EXCEPT !.sat = s, !.pc = IF s \in Signed THEN "read" ELSE "write"]
  /\ UNCHANGED <<file, temp, alive, written, history>>

-----------------------------------------------------------------------------
\* SequenceStore.next, under the lock of the store.

TheFile == FileOf[tc.sat]

\* _read: a file that does not exist stands for 0.
Number(f) == IF file[f] = Missing THEN 0 ELSE file[f]

Read ==
  /\ tc.pc = "read"
  /\ file[TheFile] # Unreadable
  /\ tc' = [tc EXCEPT !.pc = "store", !.num = Number(TheFile), !.era = era[TheFile]]
  /\ UNCHANGED <<file, temp, alive, written, used, history>>

\* _read raises ValueError, for a damaged file or after a failed read: the frame
\* is dropped, the thread goes on.
ReadInvalid ==
  /\ tc.pc = "read"
  /\ \/ file[TheFile] = Unreadable /\ UNCHANGED used
     \/ Spend("ioFail")
  /\ tc' = Waiting
  /\ UNCHANGED <<file, temp, alive, written, history>>

\* Mutant: the number read is stored, not its successor.
MutWriteTemp ==
  /\ tc.pc = "store"
  /\ temp' = [temp EXCEPT ![TheFile] = tc.num]
  /\ tc' = [tc EXCEPT !.pc = "replace"]
  /\ UNCHANGED <<file, alive, written, used, history>>

\* temporary.write_text(successor)
WriteTemp ==
  /\ tc.pc = "store"
  /\ temp' = [temp EXCEPT ![TheFile] = Successor(tc.num)]
  /\ tc' = [tc EXCEPT !.pc = "replace"]
  /\ UNCHANGED <<file, alive, written, used, history>>

\* Mutant: the successor stays in the temporary file.
MutReplace ==
  /\ tc.pc = "replace"
  /\ issued' = [issued EXCEPT ![TheFile] = [era |-> tc.era, num |-> tc.num]]
  /\ tc' = [tc EXCEPT !.pc = "write"]
  /\ UNCHANGED <<file, temp, alive, written, used, era, onAirVars>>

\* os.replace(temporary, path), and the return of the number read.  If the file was
\* deleted meanwhile, its counter goes on after all.
Replace ==
  /\ tc.pc = "replace"
  /\ file' = [file EXCEPT ![TheFile] = temp[TheFile]]
  /\ era' = [era EXCEPT ![TheFile] = IF tc.num = MaxNumber THEN tc.era + 1 ELSE tc.era]
  /\ issued' = [issued EXCEPT ![TheFile] = [era |-> tc.era, num |-> tc.num]]
  /\ tc' = [tc EXCEPT !.pc = "write"]
  /\ UNCHANGED <<temp, alive, written, used, onAirVars>>

-----------------------------------------------------------------------------
\* writer(output): the signed frame goes on the air.
Write ==
  /\ tc.pc = "write"
  /\ IF tc.sat \in Signed
       THEN /\ onAir' = [onAir EXCEPT ![TheFile] = [era |-> tc.era, num |-> tc.num]]
            /\ radioed' = [radioed EXCEPT ![TheFile] = @ + 1]
       ELSE UNCHANGED onAirVars
  /\ written' = written + 1
  /\ tc' = Waiting
  /\ UNCHANGED <<file, temp, alive, used, era, issued>>

\* The data link framer raises ValueError: the frame is dropped, and with it the number
\* that was taken for it; the thread goes on.
FramerRejects ==
  /\ tc.pc = "write"
  /\ tc' = Waiting
  /\ UNCHANGED <<file, temp, alive, written, used, history>>

\* OSError from the store's file system calls or from the writer: only ValueError
\* is caught, so the thread ends, while the heartbeats go on.
ThreadEnds ==
  /\ tc.pc \in {"store", "replace", "write"}
  /\ Spend("ioFail")
  /\ alive' = FALSE
  /\ tc' = Waiting
  /\ UNCHANGED <<file, temp, written, history>>

\* The client stops, wherever the thread is, and is started again.
Restart ==
  /\ Spend("restart")
  /\ alive' = TRUE
  /\ tc' = Waiting
  /\ written' = 0
  /\ UNCHANGED <<file, temp, history>>

\* A sequence file is damaged so that it cannot be read as a number, and stays so.
Damage(f) ==
  /\ Spend("damage")
  /\ file' = [file EXCEPT ![f] = Unreadable]
  /\ UNCHANGED <<temp, alive, tc, written, history>>

\* A sequence file loses digits, or is replaced by an older copy, and still holds a
\* number in the range: nothing tells it from an intact one, its counter begins anew.
Truncate(f) ==
  /\ Spend("damage")
  /\ \E n \in 0..MaxNumber : n < file[f] /\ file' = [file EXCEPT ![f] = n]
  /\ era' = [era EXCEPT ![f] = @ + 1]
  /\ UNCHANGED <<temp, alive, tc, written, onAirVars, issued>>

\* A sequence file is deleted, say because it was damaged: its counter begins anew.
Delete(f) ==
  /\ Spend("delete")
  /\ file[f] # Missing
  /\ file' = [file EXCEPT ![f] = Missing]
  /\ era' = [era EXCEPT ![f] = @ + 1]
  /\ UNCHANGED <<temp, alive, tc, written, onAirVars, issued>>

Init ==
  /\ file \in [Files -> 0..MaxNumber \cup {Missing}]
  /\ temp = [f \in Files |-> 0]
  /\ alive = TRUE
  /\ tc = Waiting
  /\ written = 0
  /\ used = [k \in Kinds |-> 0]
  /\ era = [f \in Files |-> 0]
  /\ onAir = [f \in Files |-> Nothing]
  /\ radioed = [f \in Files |-> 0]
  /\ issued = [f \in Files |-> Nothing]

Next == \/ DropFrame \/ \E s \in Sats : Receive(s)
        \/ Read \/ ReadInvalid \/ WriteTemp \/ Replace
        \/ Write \/ FramerRejects \/ ThreadEnds
        \/ Restart
        \/ \E f \in Files : Damage(f) \/ Truncate(f) \/ Delete(f)

Spec == Init /\ [][Next]_vars

-----------------------------------------------------------------------------
Fresh == INSTANCE FreshNumbers WITH Counters <- Files, air <- onAir, count <- radioed

TypeOK ==
  /\ file \in [Files -> -2..MaxNumber]
  /\ temp \in [Files -> 0..MaxNumber]
  /\ alive \in BOOLEAN
  /\ tc \in [pc : {"recv", "read", "store", "replace", "write"},
             sat : Sats \cup {None}, num : 0..MaxNumber, era : Nat]
  /\ tc.pc # "recv" => tc.sat \in Sats
  /\ tc.pc \in {"read", "store", "replace"} => tc.sat \in Signed
  /\ written \in Nat
  /\ used \in [Kinds -> Nat]
  /\ era \in [Files -> Nat]
  /\ onAir \in [Files -> Fresh!Stamp]
  /\ radioed \in [Files -> Nat]
  /\ issued \in [Files -> Fresh!Stamp]

\* Wherever the client may be stopped, the file is ahead of every number issued
\* and every number on the air: the next run can reuse none of them
\* (SequenceStore.next persists the successor before it returns).  Only a counter
\* that wraps, or whose file was deleted or truncated, begins anew: then a new era does.
FileAhead ==
  \A f \in Files : file[f] # Unreadable =>
    LET next == [era |-> era[f], num |-> Number(f)]
    IN  Fresh!Before(issued[f], next) /\ Fresh!Before(onAir[f], next)

\* With whatever restarts, failures, files deleted or truncated in the middle of a step
\* and satellites that share a file, the numbers on the air only grow within an era.
NumbersFresh == Fresh!Spec
=============================================================================
