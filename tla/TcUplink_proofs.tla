--------------------------- MODULE TcUplink_proofs ---------------------------
(***************************************************************************)
(* Proofs about TcUplink, for any satellites, any sharing of sequence      *)
(* files, any number width and any number of restarts and failures: the    *)
(* file is always ahead of the air, and the uplink implements FreshNumbers.*)
(***************************************************************************)
EXTENDS TcUplink, TLAPS

-----------------------------------------------------------------------------
\* The facts about the constants that the proofs below use, by themselves.
LEMMA ConstantFacts ==
  /\ Signed \subseteq Sats
  /\ FileOf \in [Signed -> Files]
  /\ MaxNumber \in Nat
  /\ None \notin Sats
BY TcUplinkAssumption DEF TcUplinkAssumption

\* Spending one event of a kind leaves every count a natural number.
LEMMA SpendType ==
  ASSUME used \in [Kinds -> Nat], NEW kind \in Kinds, Spend(kind)
  PROVE  used' \in [Kinds -> Nat]
  BY DEF Spend

\* The next number stays within the width of the counter.
LEMMA SuccessorType ==
  ASSUME NEW n \in 0..MaxNumber
  PROVE  Successor(n) \in 0..MaxNumber
  BY ConstantFacts DEF Successor

\* A frame that is being numbered belongs to a satellite that signs, so TheFile
\* is one of the files.
LEMMA TheFileType ==
  ASSUME TypeOK, tc.sat \in Signed
  PROVE  TheFile \in Files
  BY ConstantFacts DEF TheFile

\* The number that a file stands for: one of the counter's, or none if it cannot be
\* read.
LEMMA NumberType ==
  ASSUME file \in [Files -> -2..MaxNumber], NEW f \in Files
  PROVE  /\ Number(f) \in -1..MaxNumber
         /\ file[f] # Unreadable => Number(f) \in 0..MaxNumber
  BY ConstantFacts DEF Number, Missing, Unreadable

\* The record that the thread waits with is well typed.
LEMMA WaitingType ==
  /\ Waiting \in [pc : {"recv", "read", "store", "replace", "write"},
                  sat : Sats \cup {None}, num : 0..MaxNumber, era : Nat]
  /\ Waiting.pc = "recv"
  BY ConstantFacts DEF Waiting

\* The number of the frame in hand, with its era.
InHand == [era |-> tc.era, num |-> tc.num]

\* It may be recorded as a stamp.
LEMMA InHandType == ASSUME TypeOK PROVE InHand \in Fresh!Stamp
  BY ConstantFacts DEF InHand, TypeOK, Fresh!Stamp

-----------------------------------------------------------------------------
\* Type correctness: through restarts, failures and damaged files the numbers stay
\* within the width of the counter and a frame in hand names its satellite.
THEOREM TypeCorrect == Spec => []TypeOK
<1>1. Init => TypeOK
  BY ConstantFacts, WaitingType DEF Init, TypeOK, Nothing, Fresh!Stamp, Waiting, Missing
<1>2. TypeOK /\ [Next]_vars => TypeOK'
  <2> SUFFICES ASSUME TypeOK, [Next]_vars PROVE TypeOK'
    OBVIOUS
  <2>1. CASE DropFrame
    <3>1. used' \in [Kinds -> Nat]
      BY <2>1, SpendType DEF DropFrame, Kinds, TypeOK
    <3> QED
      BY <2>1, <3>1 DEF DropFrame, TypeOK, history, onAirVars
  <2>2. ASSUME NEW s \in Sats, Receive(s) PROVE TypeOK'
    <3>1. used' \in [Kinds -> Nat]
      BY <2>2, SpendType DEF Receive, Kinds, TypeOK
    <3>2. /\ tc' = [pc |-> IF s \in Signed THEN "read" ELSE "write",
                    sat |-> s, num |-> 0, era |-> 0]
      BY <2>2 DEF Receive, Waiting
    <3> QED
      BY <2>2, <3>1, <3>2, ConstantFacts DEF Receive, TypeOK, history, onAirVars
  <2>3. CASE Read
    <3>1. /\ TheFile \in Files /\ tc.sat \in Signed
      BY <2>3, TheFileType DEF Read, TypeOK
    <3>2. Number(TheFile) \in 0..MaxNumber /\ era[TheFile] \in Nat
      BY <2>3, <3>1, NumberType DEF Read, TypeOK
    <3>3. /\ tc' \in [pc : {"recv", "read", "store", "replace", "write"},
                      sat : Sats \cup {None}, num : 0..MaxNumber, era : Nat]
          /\ tc'.pc = "store" /\ tc'.sat = tc.sat
      BY <2>3, <3>2 DEF Read, TypeOK
    <3> QED
      BY <2>3, <3>1, <3>3, ConstantFacts DEF Read, TypeOK, history, onAirVars
  <2>4. CASE ReadInvalid
    <3>1. used' \in [Kinds -> Nat]
      BY <2>4, SpendType DEF ReadInvalid, Kinds, TypeOK
    <3> QED
      BY <2>4, <3>1, WaitingType DEF ReadInvalid, TypeOK, history, onAirVars
  <2>5. CASE WriteTemp
    <3>1. temp' \in [Files -> 0..MaxNumber]
      BY <2>5, SuccessorType DEF WriteTemp, TypeOK
    <3>2. /\ tc' \in [pc : {"recv", "read", "store", "replace", "write"},
                      sat : Sats \cup {None}, num : 0..MaxNumber, era : Nat]
          /\ tc'.pc = "replace" /\ tc'.sat = tc.sat /\ tc.sat \in Signed
      BY <2>5 DEF WriteTemp, TypeOK
    <3> QED
      BY <2>5, <3>1, <3>2, ConstantFacts DEF WriteTemp, TypeOK, history, onAirVars
  <2>6. CASE Replace
    <3>1. TheFile \in Files /\ tc.sat \in Sats
      BY <2>6, TheFileType, ConstantFacts DEF Replace, TypeOK
    <3>2. file' \in [Files -> -2..MaxNumber]
      BY <2>6, <3>1, ConstantFacts DEF Replace, TypeOK
    <3>3. era' \in [Files -> Nat]
      <4>1. \/ era' = [era EXCEPT ![TheFile] = tc.era + 1]
            \/ era' = [era EXCEPT ![TheFile] = tc.era]
        BY <2>6 DEF Replace
      <4>2. era \in [Files -> Nat] /\ tc.era \in Nat /\ tc.era + 1 \in Nat
        BY DEF TypeOK
      <4> QED
        BY <4>1, <4>2
    <3>4. issued' \in [Files -> Fresh!Stamp]
      BY <2>6, InHandType DEF Replace, TypeOK, InHand
    <3>5. /\ tc' \in [pc : {"recv", "read", "store", "replace", "write"},
                      sat : Sats \cup {None}, num : 0..MaxNumber, era : Nat]
          /\ tc'.pc = "write" /\ tc'.sat = tc.sat
      BY <2>6 DEF Replace, TypeOK
    <3> QED
      BY <2>6, <3>1, <3>2, <3>3, <3>4, <3>5 DEF Replace, TypeOK, onAirVars
  <2>7. CASE Write
    <3>1. onAir' \in [Files -> Fresh!Stamp]
      <4>1. CASE tc.sat \in Signed
        BY <2>7, <4>1, InHandType DEF Write, TypeOK, InHand
      <4>2. CASE tc.sat \notin Signed
        BY <2>7, <4>2 DEF Write, TypeOK, onAirVars
      <4> QED
        BY <4>1, <4>2
    <3>2. radioed' \in [Files -> Nat]
      <4>1. CASE tc.sat \in Signed
        <5>1. radioed' = [radioed EXCEPT ![TheFile] = @ + 1]
          BY <2>7, <4>1 DEF Write
        <5> QED
          BY <4>1, <5>1, TheFileType DEF TypeOK
      <4>2. CASE tc.sat \notin Signed
        BY <2>7, <4>2 DEF Write, TypeOK, onAirVars
      <4> QED
        BY <4>1, <4>2
    <3> QED
      BY <2>7, <3>1, <3>2, WaitingType DEF Write, TypeOK
  <2>8. CASE ThreadEnds
    <3>1. used' \in [Kinds -> Nat]
      BY <2>8, SpendType DEF ThreadEnds, Kinds, TypeOK
    <3> QED
      BY <2>8, <3>1, WaitingType DEF ThreadEnds, TypeOK, history, onAirVars
  <2>9. CASE Restart
    <3>1. used' \in [Kinds -> Nat]
      BY <2>9, SpendType DEF Restart, Kinds, TypeOK
    <3> QED
      BY <2>9, <3>1, WaitingType DEF Restart, TypeOK, history, onAirVars
  <2>10. ASSUME NEW f \in Files, Damage(f) PROVE TypeOK'
    <3>1. used' \in [Kinds -> Nat]
      BY <2>10, SpendType DEF Damage, Kinds, TypeOK
    <3>2. file' \in [Files -> -2..MaxNumber]
      BY <2>10, ConstantFacts DEF Damage, TypeOK, Unreadable
    <3> QED
      BY <2>10, <3>1, <3>2 DEF Damage, TypeOK, history, onAirVars
  <2>11. ASSUME NEW f \in Files, Delete(f) PROVE TypeOK'
    <3>1. used' \in [Kinds -> Nat]
      BY <2>11, SpendType DEF Delete, Kinds, TypeOK
    <3>2. file' \in [Files -> -2..MaxNumber]
      BY <2>11, ConstantFacts DEF Delete, TypeOK, Missing
    <3>3. era' \in [Files -> Nat]
      BY <2>11 DEF Delete, TypeOK
    <3> QED
      BY <2>11, <3>1, <3>2, <3>3 DEF Delete, TypeOK, onAirVars
  <2>12. ASSUME NEW f \in Files, Truncate(f) PROVE TypeOK'
    <3>1. used' \in [Kinds -> Nat]
      BY <2>12, SpendType DEF Truncate, Kinds, TypeOK
    <3>2. file' \in [Files -> -2..MaxNumber]
      BY <2>12, ConstantFacts DEF Truncate, TypeOK
    <3>3. era' \in [Files -> Nat]
      BY <2>12 DEF Truncate, TypeOK
    <3> QED
      BY <2>12, <3>1, <3>2, <3>3 DEF Truncate, TypeOK, onAirVars
  <2>13. CASE FramerRejects
    BY <2>13, WaitingType DEF FramerRejects, TypeOK, history, onAirVars
  <2>14. CASE UNCHANGED vars
    BY <2>14 DEF vars, TypeOK
  <2> QED
    BY <2>1, <2>2, <2>3, <2>4, <2>5, <2>6, <2>7, <2>8, <2>9, <2>10, <2>11, <2>12,
       <2>13, <2>14 DEF Next
<1> QED
  BY <1>1, <1>2, PTL DEF Spec

-----------------------------------------------------------------------------
(***************************************************************************)
(* FileAhead is not inductive: Replace makes the file follow a number that *)
(* was read some steps before, whatever has become of the file meanwhile.  *)
(* NumberInHand relates that number to the history while                   *)
(* SequenceStore.next runs, and to the number issued until it is written   *)
(* to the radio.                                                           *)
(***************************************************************************)

NumberInHand ==
  /\ tc.pc \in {"store", "replace"} =>
       /\ Fresh!Before(issued[TheFile], InHand)
       /\ Fresh!Before(onAir[TheFile], InHand)
  /\ tc.pc = "replace" => temp[TheFile] = Successor(tc.num)
  /\ tc.pc = "write" /\ tc.sat \in Signed =>
       /\ issued[TheFile] = InHand
       /\ Fresh!Before(onAir[TheFile], InHand)

\* Also while the file cannot be read, its era has been reached.
ErasPass == \A f \in Files : issued[f].era <= era[f] /\ onAir[f].era <= era[f]

UplinkInv == FileAhead /\ NumberInHand

\* Numbers are ordered by era, then by value.
LEMMA BeforeTransitive ==
  ASSUME NEW a \in Fresh!Stamp, NEW b \in Fresh!Stamp, NEW c \in Fresh!Stamp,
         Fresh!Before(a, b), Fresh!Before(b, c)
  PROVE  Fresh!Before(a, c)
  BY ConstantFacts DEF Fresh!Before, Fresh!Stamp

\* A step that touches neither the files nor the history, and leaves the thread
\* waiting, keeps the invariant.
LEMMA BackToWaiting ==
  ASSUME UplinkInv, UNCHANGED <<file, history>>, tc' = Waiting
  PROVE  UplinkInv'
  BY DEF UplinkInv, FileAhead, Number, NumberInHand, history, onAirVars, Waiting,
     Fresh!Before

\* The invariant holds initially: no frame is in hand and nothing was issued.
LEMMA UplinkInvInit == ASSUME Init PROVE UplinkInv
<1>1. FileAhead
  BY ConstantFacts DEF Init, FileAhead, Number, Missing, Nothing, Fresh!Before
<1>2. NumberInHand
  BY DEF Init, NumberInHand, Waiting
<1> QED
  BY <1>1, <1>2 DEF UplinkInv

\* Every step preserves it: the rename puts the file ahead of the number that is
\* then issued, and only a number issued by it is radioed.
LEMMA UplinkInvNext ==
  ASSUME TypeOK, TypeOK', ErasPass, UplinkInv, [Next]_vars
  PROVE  UplinkInv'
<1> USE DEF UplinkInv
<1>1. CASE DropFrame
  BY <1>1 DEF DropFrame, history, onAirVars, FileAhead, Number,
     NumberInHand, TheFile, InHand
<1>2. ASSUME NEW s \in Sats, Receive(s) PROVE UplinkInv'
  <2>1. /\ tc'.sat = s
        /\ tc'.pc = IF s \in Signed THEN "read" ELSE "write"
    BY <1>2 DEF Receive, Waiting
  <2>2. FileAhead'
    BY <1>2 DEF Receive, history, onAirVars, FileAhead, Number
  <2> QED
    BY <2>1, <2>2 DEF NumberInHand
<1>3. CASE Read
  <2>1. TheFile \in Files
    BY <1>3, TheFileType DEF Read, TypeOK
  <2>2. /\ tc'.pc = "store" /\ tc'.sat = tc.sat
        /\ tc'.num = Number(TheFile) /\ tc'.era = era[TheFile]
    BY <1>3 DEF Read, TypeOK
  <2>3. /\ Fresh!Before(issued[TheFile], [era |-> era[TheFile], num |-> Number(TheFile)])
        /\ Fresh!Before(onAir[TheFile], [era |-> era[TheFile], num |-> Number(TheFile)])
    BY <1>3, <2>1 DEF Read, FileAhead
  <2>4. FileAhead'
    BY <1>3 DEF Read, history, onAirVars, FileAhead, Number
  <2>5. NumberInHand'
    BY <1>3, <2>2, <2>3 DEF Read, history, onAirVars, NumberInHand, TheFile, InHand
  <2> QED
    BY <2>4, <2>5
<1>4. CASE ReadInvalid
  BY <1>4, BackToWaiting DEF ReadInvalid
<1>5. CASE WriteTemp
  <2>1. TheFile \in Files
    BY <1>5, TheFileType DEF WriteTemp, TypeOK
  <2>2. /\ tc'.pc = "replace" /\ tc'.sat = tc.sat
        /\ tc'.num = tc.num /\ tc'.era = tc.era
    BY <1>5 DEF WriteTemp, TypeOK
  <2>3. temp'[TheFile] = Successor(tc.num)
    BY <1>5, <2>1 DEF WriteTemp, TypeOK
  <2>4. FileAhead'
    BY <1>5 DEF WriteTemp, history, onAirVars, FileAhead, Number
  <2>5. NumberInHand'
    BY <1>5, <2>2, <2>3 DEF WriteTemp, history, onAirVars, NumberInHand, TheFile, InHand
  <2> QED
    BY <2>4, <2>5
<1>6. CASE Replace
  <2> DEFINE F == TheFile
             next == [era |-> era'[F], num |-> file'[F]]
  <2>1. F \in Files /\ tc.sat \in Signed
    BY <1>6, TheFileType DEF Replace, TypeOK
  <2>2. /\ tc'.pc = "write" /\ tc'.sat = tc.sat /\ TheFile' = F
        /\ tc'.num = tc.num /\ tc'.era = tc.era /\ InHand' = InHand
    BY <1>6 DEF Replace, TypeOK, TheFile, InHand
  <2>3. issued'[F] = InHand /\ onAir'[F] = onAir[F]
    BY <1>6, <2>1 DEF Replace, TypeOK, InHand, onAirVars
  <2>4. Fresh!Before(onAir[F], InHand)
    BY <1>6 DEF Replace, NumberInHand
  <2>5. Fresh!Before(InHand, next)
    <3>1. file'[F] = Successor(tc.num)
      BY <1>6, <2>1 DEF Replace, NumberInHand, TypeOK
    <3>2. tc.num \in 0..MaxNumber /\ tc.era \in Nat
      BY <1>6 DEF Replace, TypeOK
    <3>3. era'[F] = IF tc.num = MaxNumber THEN tc.era + 1 ELSE tc.era
      BY <1>6, <2>1, <3>2 DEF Replace, TypeOK
    <3> QED
      BY <3>1, <3>2, <3>3, ConstantFacts DEF Successor, InHand, Fresh!Before
  <2>f. file'[F] \in 0..MaxNumber
    BY <1>6, <2>1, SuccessorType DEF Replace, NumberInHand, TypeOK
  <2>6. Fresh!Before(onAir[F], next)
    <3>1. next \in Fresh!Stamp
      BY <2>1, <2>f, ConstantFacts DEF TypeOK, Fresh!Stamp
    <3>2. onAir[F] \in Fresh!Stamp
      BY <2>1 DEF TypeOK
    <3> HIDE DEF next, F
    <3> QED
      BY <2>4, <2>5, <3>1, <3>2, InHandType, BeforeTransitive
  <2>7. ASSUME NEW f \in Files, f # F
        PROVE  /\ file'[f] = file[f] /\ era'[f] = era[f]
               /\ issued'[f] = issued[f] /\ onAir'[f] = onAir[f]
    BY <1>6, <2>1, <2>7 DEF Replace, TypeOK, onAirVars
  <2>8. FileAhead'
    <3>1. ASSUME NEW f \in Files, file'[f] # Unreadable
          PROVE  /\ Fresh!Before(issued'[f], [era |-> era'[f], num |-> Number(f)'])
                 /\ Fresh!Before(onAir'[f], [era |-> era'[f], num |-> Number(f)'])
      <4>1. CASE f = F
        <5>1. Number(f)' = file'[F]
          BY <2>f, <4>1 DEF Number, Missing
        <5> QED
          BY <2>3, <2>5, <2>6, <4>1, <5>1
      <4>2. CASE f # F
        BY <2>7, <3>1, <4>2 DEF FileAhead, Number
      <4> QED
        BY <4>1, <4>2
    <3> QED
      BY <3>1 DEF FileAhead, Number, Fresh!Before, Unreadable
  <2>9. NumberInHand'
    BY <2>2, <2>3, <2>4 DEF NumberInHand, Fresh!Before
  <2> QED
    BY <2>8, <2>9
<1>7. CASE Write
  <2>1. tc' = Waiting
    BY <1>7 DEF Write
  <2>2. FileAhead'
    <3>1. CASE tc.sat \in Signed
      <4>1. TheFile \in Files /\ onAir'[TheFile] = InHand /\ issued[TheFile] = InHand
        BY <1>7, <3>1, TheFileType DEF Write, TypeOK, InHand, NumberInHand
      <4>2. \A f \in Files : f # TheFile => onAir'[f] = onAir[f]
        BY <1>7, <3>1 DEF Write, TypeOK
      <4> QED
        BY <1>7, <4>1, <4>2 DEF Write, FileAhead, Number, Fresh!Before
    <3>2. CASE tc.sat \notin Signed
      BY <1>7, <3>2 DEF Write, FileAhead, Number, onAirVars
    <3> QED
      BY <3>1, <3>2
  <2> QED
    BY <2>1, <2>2 DEF NumberInHand, Waiting
<1>8. CASE ThreadEnds
  BY <1>8, BackToWaiting DEF ThreadEnds
<1>9. CASE Restart
  BY <1>9, BackToWaiting DEF Restart
<1>10. ASSUME NEW f \in Files, Damage(f) PROVE UplinkInv'
  <2>1. \A g \in Files : file'[g] # Unreadable => file'[g] = file[g]
    BY <1>10 DEF Damage, TypeOK
  <2> QED
    BY <1>10, <2>1 DEF Damage, history, onAirVars, FileAhead, Number,
     NumberInHand, TheFile, InHand
<1>11. ASSUME NEW f \in Files, Delete(f) PROVE UplinkInv'
  <2>1. \A g \in Files : g # f => file'[g] = file[g] /\ era'[g] = era[g]
    BY <1>11 DEF Delete, TypeOK
  <2>2. /\ Number(f)' = 0 /\ era'[f] = era[f] + 1 /\ era[f] \in Nat
        /\ issued' = issued /\ onAir' = onAir
    BY <1>11 DEF Delete, TypeOK, Number, onAirVars
  <2>e. /\ issued[f].era <= era[f] /\ onAir[f].era <= era[f]
        /\ issued[f].era \in Nat /\ onAir[f].era \in Nat
    BY DEF ErasPass, TypeOK, Fresh!Stamp
  <2>3. /\ Fresh!Before(issued'[f], [era |-> era'[f], num |-> Number(f)'])
        /\ Fresh!Before(onAir'[f], [era |-> era'[f], num |-> Number(f)'])
    BY <2>2, <2>e DEF Fresh!Before
  <2>4. FileAhead'
    BY <2>1, <2>2, <2>3 DEF FileAhead, Number, Fresh!Before
  <2>5. NumberInHand'
    BY <1>11 DEF Delete, onAirVars, NumberInHand, TheFile, InHand
  <2> QED
    BY <2>4, <2>5
<1>12. ASSUME NEW f \in Files, Truncate(f) PROVE UplinkInv'
  <2>1. \A g \in Files : g # f => file'[g] = file[g] /\ era'[g] = era[g]
    BY <1>12 DEF Truncate, TypeOK
  <2>2. /\ Number(f)' \in Nat /\ era'[f] = era[f] + 1 /\ era[f] \in Nat
        /\ issued' = issued /\ onAir' = onAir
    BY <1>12 DEF Truncate, TypeOK, Number, Missing, onAirVars
  <2>e. /\ issued[f].era <= era[f] /\ onAir[f].era <= era[f]
        /\ issued[f].era \in Nat /\ onAir[f].era \in Nat
    BY DEF ErasPass, TypeOK, Fresh!Stamp
  <2>3. /\ Fresh!Before(issued'[f], [era |-> era'[f], num |-> Number(f)'])
        /\ Fresh!Before(onAir'[f], [era |-> era'[f], num |-> Number(f)'])
    BY <2>2, <2>e DEF Fresh!Before
  <2>4. FileAhead'
    BY <2>1, <2>2, <2>3 DEF FileAhead, Number, Fresh!Before
  <2>5. NumberInHand'
    BY <1>12 DEF Truncate, onAirVars, NumberInHand, TheFile, InHand
  <2> QED
    BY <2>4, <2>5
<1>13. CASE FramerRejects
  BY <1>13, BackToWaiting DEF FramerRejects
<1>14. CASE UNCHANGED vars
  BY <1>14 DEF vars, FileAhead, Number, NumberInHand, TheFile, InHand
<1> QED
  BY <1>1, <1>2, <1>3, <1>4, <1>5, <1>6, <1>7, <1>8, <1>9, <1>10, <1>11, <1>12,
     <1>13, <1>14 DEF Next

\* No step numbers or radios a frame in an era that its file has not reached.
LEMMA ErasPassNext ==
  ASSUME TypeOK, TypeOK', ErasPass, UplinkInv, [Next]_vars
  PROVE  ErasPass'
<1>1. CASE Replace
  <2>1. TheFile \in Files /\ tc.num \in 0..MaxNumber /\ tc.era \in Nat
    BY <1>1, TheFileType DEF Replace, TypeOK
  <2>2. /\ issued'[TheFile].era = tc.era
        /\ era'[TheFile] \in {tc.era, tc.era + 1}
        /\ onAir' = onAir
    BY <1>1, <2>1 DEF Replace, TypeOK, onAirVars
  <2>3. onAir[TheFile].era <= tc.era
    <3>1. Fresh!Before(onAir[TheFile], InHand) /\ onAir[TheFile].era \in Nat
      BY <1>1, <2>1 DEF Replace, UplinkInv, NumberInHand, TypeOK, Fresh!Stamp
    <3> QED
      BY <2>1, <3>1 DEF Fresh!Before, InHand
  <2>4. \A f \in Files : f # TheFile => era'[f] = era[f] /\ issued'[f] = issued[f]
    BY <1>1 DEF Replace, TypeOK
  <2>5. ASSUME NEW f \in Files
        PROVE  issued'[f].era <= era'[f] /\ onAir'[f].era <= era'[f]
    <3>1. CASE f = TheFile
      <4>1. onAir[TheFile].era \in Nat
        BY <2>1 DEF TypeOK, Fresh!Stamp
      <4> QED
        BY <2>1, <2>2, <2>3, <3>1, <4>1
    <3>2. CASE f # TheFile
      BY <2>2, <2>4, <3>2 DEF ErasPass
    <3> QED
      BY <3>1, <3>2
  <2> QED
    BY <2>5 DEF ErasPass
<1>2. CASE Write
  <2>1. \A f \in Files : onAir'[f] = onAir[f] \/ onAir'[f] = issued[f]
    <3>1. CASE tc.sat \in Signed
      BY <1>2, <3>1, TheFileType DEF Write, TypeOK, UplinkInv, NumberInHand, InHand
    <3>2. CASE tc.sat \notin Signed
      BY <1>2, <3>2 DEF Write, onAirVars
    <3> QED
      BY <3>1, <3>2
  <2> QED
    BY <1>2, <2>1 DEF Write, ErasPass
<1>3. ASSUME NEW f \in Files, Delete(f) \/ Truncate(f) PROVE ErasPass'
  <2>1. \A g \in Files : era[g] <= era'[g]
    BY <1>3 DEF Delete, Truncate, TypeOK
  <2>2. \A g \in Files : /\ issued[g].era \in Nat /\ onAir[g].era \in Nat
                        /\ era[g] \in Nat /\ era'[g] \in Nat
    BY DEF TypeOK, Fresh!Stamp
  <2> QED
    BY <1>3, <2>1, <2>2 DEF Delete, Truncate, ErasPass, onAirVars
<1>4. CASE \/ DropFrame \/ (\E s \in Sats : Receive(s)) \/ Read \/ ReadInvalid
           \/ WriteTemp \/ FramerRejects \/ ThreadEnds \/ Restart
           \/ (\E f \in Files : Damage(f)) \/ UNCHANGED vars
  BY <1>4 DEF DropFrame, Receive, Read, ReadInvalid, WriteTemp, FramerRejects,
     ThreadEnds, Restart, Damage, vars, history, onAirVars, ErasPass
<1> QED
  BY <1>1, <1>2, <1>3, <1>4 DEF Next

-----------------------------------------------------------------------------
\* Wherever the client stops, each sequence file that can be read is ahead of all
\* numbers issued from it and all numbers on the air.
THEOREM FileIsAhead == Spec => []FileAhead
<1>1. Init => UplinkInv /\ ErasPass
  BY UplinkInvInit DEF Init, ErasPass, Nothing
<1>2. TypeOK /\ TypeOK' /\ ErasPass /\ UplinkInv /\ [Next]_vars => UplinkInv' /\ ErasPass'
  BY UplinkInvNext, ErasPassNext
<1>3. UplinkInv => FileAhead
  BY DEF UplinkInv
<1> QED
  BY <1>1, <1>2, <1>3, TypeCorrect, PTL DEF Spec

\* The uplink implements FreshNumbers: only Write transmits, and the number it
\* transmits is larger than those before it, across restarts and failures.
THEOREM ImplementsFresh == Spec => NumbersFresh
<1>1. Init => Fresh!Init /\ UplinkInv /\ ErasPass
  BY UplinkInvInit DEF Init, Nothing, Fresh!Init, ErasPass
<1>2. TypeOK /\ TypeOK' /\ ErasPass /\ UplinkInv /\ [Next]_vars => UplinkInv' /\ ErasPass'
  BY UplinkInvNext, ErasPassNext
<1>3. TypeOK /\ TypeOK' /\ UplinkInv /\ [Next]_vars => [Fresh!Next]_<<onAir, radioed>>
  <2> SUFFICES ASSUME TypeOK, TypeOK', UplinkInv, [Next]_vars
               PROVE  [Fresh!Next]_<<onAir, radioed>>
    OBVIOUS
  <2>1. CASE Write /\ tc.sat \in Signed
    <3>1. TheFile \in Files
      BY <2>1, TheFileType
    <3>2. /\ onAir'[TheFile] = InHand
          /\ \A f \in Files \ {TheFile} : onAir'[f] = onAir[f]
      BY <2>1, <3>1 DEF Write, TypeOK, InHand
    <3>3. Fresh!Before(onAir[TheFile], InHand)
      BY <2>1 DEF Write, UplinkInv, NumberInHand
    <3>4. onAir' \in [Files -> Fresh!Stamp]
      BY DEF TypeOK
    <3>5. radioed' = [radioed EXCEPT ![TheFile] = @ + 1]
      BY <2>1 DEF Write
    <3>6. Fresh!Transmit(TheFile)
      BY <3>2, <3>3, <3>4, <3>5 DEF Fresh!Transmit
    <3> QED
      BY <3>1, <3>6 DEF Fresh!Next
  <2>2. CASE ~(Write /\ tc.sat \in Signed)
    BY <2>2 DEF Next, DropFrame, Receive, Read, ReadInvalid, WriteTemp, Replace, Write,
       FramerRejects, ThreadEnds, Restart, Damage, Truncate, Delete, vars, history, onAirVars
  <2> QED
    BY <2>1, <2>2
<1> QED
  BY <1>1, <1>2, <1>3, TypeCorrect, PTL DEF Spec, NumbersFresh, Fresh!Spec
=============================================================================
