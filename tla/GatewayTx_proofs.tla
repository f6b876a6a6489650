-------------------------- MODULE GatewayTx_proofs --------------------------
(***************************************************************************)
(* Proofs about GatewayTx, for every number of stations, instances, push   *)
(* threads and events.  Type correctness comes first; the safety           *)
(* invariants are then proved one after the other, each from those before. *)
(***************************************************************************)
EXTENDS GatewayTx, TLAPS

-----------------------------------------------------------------------------
(***************************************************************************)
(* Facts about the constants and the helpers of the actions.               *)
(***************************************************************************)

\* The facts about the constants that the proofs below use, by themselves.
LEMMA ConstantFacts ==
  /\ NumInst \in Nat /\ NumInst > 0
  /\ StaleAfter \in Nat /\ Lags \subseteq 0..StaleAfter
  /\ None \notin Names
<1>1. /\ NumInst \in Nat /\ NumInst > 0
      /\ StaleAfter \in Nat /\ Lags \subseteq 0..StaleAfter
  BY GatewayTxAssumption DEF GatewayTxAssumption
<1>2. None \notin Names
  BY GatewayTxAssumption DEF GatewayTxAssumption
<1> QED
  BY <1>1, <1>2

\* A registered station is told from an absent one.
LEMMA StationIsNotNone == None \notin Station
  BY GatewayTxAssumption, Zenon DEF GatewayTxAssumption, Station, Ages, MaxAge

\* Likewise a destination that forward_tc copied.
LEMMA DestinationIsNotNone == None \notin [name : Names, ep : Endpoints]
  BY GatewayTxAssumption, Zenon DEF GatewayTxAssumption

\* Spending one event of a kind leaves every count a natural number.
LEMMA SpendType ==
  ASSUME used \in [Kinds -> Nat], NEW kind \in Kinds, Spend(kind)
  PROVE  used' \in [Kinds -> Nat]
  BY DEF Spend

\* Starting a push thread does too, for the counts of threads.
LEMMA StartPushType ==
  ASSUME TypeOK, NEW n \in Names, StartPush(n)
  PROVE  pushing' \in [Names -> [Insts -> Nat]]
<1>1. pushing' = [pushing EXCEPT ![n][1] = @ + 1]
  BY DEF StartPush
<1>2. 1 \in Insts
  BY ConstantFacts DEF Insts
<1>3. pushing \in [Names -> [Insts -> Nat]]
  BY DEF TypeOK
<1> QED
  BY <1>1, <1>2, <1>3

\* A thread that moves on leaves every count a natural number.
LEMMA AdvancePushType ==
  ASSUME TypeOK, NEW n \in Names, NEW i \in Insts, pushing[n][i] > 0, AdvancePush(n, i)
  PROVE  pushing' \in [Names -> [Insts -> Nat]]
<1> DEFINE row == [j \in Insts |-> IF j = i THEN pushing[n][j] - 1
                                   ELSE IF j = i + 1 THEN pushing[n][j] + 1
                                   ELSE pushing[n][j]]
<1>1. pushing' = [pushing EXCEPT ![n] = row]
  BY DEF AdvancePush
<1>2. row \in [Insts -> Nat]
  BY DEF TypeOK
<1>3. pushing \in [Names -> [Insts -> Nat]]
  BY DEF TypeOK
<1> HIDE DEF row
<1> QED
  BY <1>1, <1>2, <1>3

\* A thread that ends too.
LEMMA EndPushType ==
  ASSUME TypeOK, NEW n \in Names, NEW i \in Insts, pushing[n][i] > 0,
         pushing' = [pushing EXCEPT ![n][i] = @ - 1]
  PROVE  pushing' \in [Names -> [Insts -> Nat]]
  BY DEF TypeOK

\* The poll thread goes on to an instance of the manifest, or to sleep.
LEMMA AfterType ==
  ASSUME NEW i \in Insts
  PROVE  After(i) \in [alive : BOOLEAN, at : 0..NumInst, value : Names \cup {None}]
  BY ConstantFacts DEF After, At, Insts

-----------------------------------------------------------------------------
\* Type correctness: after any sequence of heartbeats, selections, push and poll
\* steps, telecommands and restarts the gateway's state has its declared shape.
THEOREM TypeCorrect == Spec => []TypeOK
<1>1. Init => TypeOK
  BY ConstantFacts DEF Init, TypeOK, Idle, At, NoSnap
<1>2. TypeOK /\ [Next]_vars => TypeOK'
  <2> SUFFICES ASSUME TypeOK, [Next]_vars PROVE TypeOK'
    OBVIOUS
  <2>1. CASE Tick
    <3>1. ASSUME NEW n \in Names, station[n] \in Station, station[n].age < MaxAge
          PROVE  [station[n] EXCEPT !.age = @ + 1] \in Station
      BY <3>1, ConstantFacts DEF Station, Ages, MaxAge
    <3>2. station' \in [Names -> Station \cup {None}]
      BY <2>1, <3>1 DEF Tick, TypeOK
    <3> QED
      BY <2>1, <3>2 DEF Tick, TypeOK, mirrorVars, tcVars
  <2>2. ASSUME NEW n \in Names, NEW ep \in Endpoints, NEW lag \in Lags,
               Register(n, ep, lag)
        PROVE  TypeOK'
    <3>1. [ep |-> ep, age |-> lag] \in Station
      BY ConstantFacts DEF Station, Ages, MaxAge
    <3>2. station' \in [Names -> Station \cup {None}]
      BY <2>2, <3>1 DEF Register, TypeOK
    <3>3. pushing' \in [Names -> [Insts -> Nat]]
      BY <2>2, StartPushType DEF Register, TypeOK
    <3> QED
      BY <2>2, <3>2, <3>3 DEF Register, TypeOK, tcVars
  <2>3. ASSUME NEW n \in Names, NEW ep \in Endpoints, NEW lag \in Lags,
               Refresh(n, ep, lag)
        PROVE  TypeOK'
    <3>1. [ep |-> ep, age |-> lag] \in Station
      BY ConstantFacts DEF Station, Ages, MaxAge
    <3>2. station' \in [Names -> Station \cup {None}]
      BY <2>3, <3>1 DEF Refresh, TypeOK
    <3> QED
      BY <2>3, <3>2 DEF Refresh, TypeOK, mirrorVars, tcVars
  <2>4. ASSUME NEW n \in Names, SetActiveTx(n) PROVE TypeOK'
    <3>1. pushing' \in [Names -> [Insts -> Nat]] /\ used' \in [Kinds -> Nat]
      BY <2>4, StartPushType, SpendType DEF Kinds, SetActiveTx, TypeOK
    <3> QED
      BY <2>4, <3>1 DEF SetActiveTx, TypeOK, tcVars
  <2>5. ASSUME NEW i \in Insts, NEW n \in Names, YamcsWrite(i, n) PROVE TypeOK'
    <3>1. param' \in [Insts -> Names \cup {None}] /\ used' \in [Kinds -> Nat]
      BY <2>5, SpendType DEF Kinds, YamcsWrite, TypeOK
    <3> QED
      BY <2>5, <3>1 DEF YamcsWrite, TypeOK, stationVars, tcVars
  <2>6. ASSUME NEW n \in Names, NEW i \in Insts, PushPut(n, i) PROVE TypeOK'
    <3>1. pushing' \in [Names -> [Insts -> Nat]]
      BY <2>6, AdvancePushType DEF PushPut
    <3>2. param' \in [Insts -> Names \cup {None}]
      BY <2>6 DEF PushPut, TypeOK
    <3> QED
      BY <2>6, <3>1, <3>2 DEF PushPut, TypeOK, stationVars, tcVars
  <2>7. ASSUME NEW n \in Names, NEW i \in Insts, PushFail(n, i) PROVE TypeOK'
    <3>1. pushing' \in [Names -> [Insts -> Nat]]
      BY <2>7, AdvancePushType DEF PushFail
    <3>2. used' \in [Kinds -> Nat]
      BY <2>7, SpendType DEF Kinds, PushFail, TypeOK
    <3>3. late' \in [Names -> [Insts -> Nat]]
      <4>1. late \in [Names -> [Insts -> Nat]]
        BY DEF TypeOK
      <4>2. late' = late \/ late' = [late EXCEPT ![n][i] = @ + 1]
        BY <2>7 DEF PushFail
      <4> QED
        BY <4>1, <4>2
    <3> QED
      BY <2>7, <3>1, <3>2, <3>3 DEF PushFail, TypeOK, stationVars, tcVars
  <2>8. ASSUME NEW n \in Names, NEW i \in Insts, PushBreaks(n, i) PROVE TypeOK'
    <3>1. pushing' \in [Names -> [Insts -> Nat]]
      BY <2>8, EndPushType DEF PushBreaks
    <3>2. used' \in [Kinds -> Nat]
      BY <2>8, SpendType DEF Kinds, PushBreaks, TypeOK
    <3>3. param' \in [Insts -> Names \cup {None}]
      BY <2>8 DEF PushBreaks, TypeOK
    <3> QED
      BY <2>8, <3>1, <3>2, <3>3 DEF PushBreaks, TypeOK, stationVars, tcVars
  <2>9. CASE PollWake
    <3>1. poll' \in [alive : BOOLEAN, at : 0..NumInst, value : Names \cup {None}]
      BY <2>9, ConstantFacts DEF PollWake, At
    <3> QED
      BY <2>9, <3>1 DEF PollWake, TypeOK, stationVars, tcVars
  <2>10. CASE PollRead
    <3>1. poll.at \in Insts
      BY <2>10, ConstantFacts DEF PollRead, TypeOK, Insts
    <3>2. poll' \in [alive : BOOLEAN, at : 0..NumInst, value : Names \cup {None}]
      BY <2>10, <3>1, AfterType DEF PollRead, TypeOK
    <3> QED
      BY <2>10, <3>2 DEF PollRead, TypeOK, stationVars, tcVars
  <2>11. CASE PollReadFail
    <3>1. poll.at \in Insts
      BY <2>11, ConstantFacts DEF PollReadFail, TypeOK, Insts
    <3>2. poll' \in [alive : BOOLEAN, at : 0..NumInst, value : Names \cup {None}]
      BY <2>11, <3>1, AfterType DEF PollReadFail
    <3>3. used' \in [Kinds -> Nat]
      BY <2>11, SpendType DEF Kinds, PollReadFail, TypeOK
    <3> QED
      BY <2>11, <3>2, <3>3 DEF PollReadFail, TypeOK, stationVars, tcVars
  <2>12. CASE PollBreaks
    <3>1. poll' \in [alive : BOOLEAN, at : 0..NumInst, value : Names \cup {None}]
      BY <2>12, ConstantFacts DEF PollBreaks
    <3>2. used' \in [Kinds -> Nat]
      BY <2>12, SpendType DEF Kinds, PollBreaks, TypeOK
    <3> QED
      BY <2>12, <3>1, <3>2 DEF PollBreaks, TypeOK, stationVars, tcVars
  <2>13. CASE PollSkip
    <3>1. poll' \in [alive : BOOLEAN, at : 0..NumInst, value : Names \cup {None}]
      BY <2>13, ConstantFacts DEF PollSkip, After, At, TypeOK
    <3> QED
      BY <2>13, <3>1 DEF PollSkip, TypeOK, stationVars, tcVars
  <2>14. CASE PollAdopt
    <3>1. poll.value \in Names
      BY <2>14 DEF PollAdopt, Registered
    <3>2. pushing' \in [Names -> [Insts -> Nat]]
      BY <2>14, <3>1, StartPushType DEF PollAdopt
    <3> QED
      BY <2>14, <3>1, <3>2, ConstantFacts DEF PollAdopt, Idle, At, TypeOK, tcVars
  <2>15. CASE TcArrive
    <3>1. used' \in [Kinds -> Nat]
      BY <2>15, SpendType DEF Kinds, TcArrive, TypeOK
    <3> QED
      BY <2>15, <3>1 DEF TcArrive, TypeOK, stationVars, mirrorVars
  <2>16. CASE TcRoute
    <3>1. activeTx \in Names /\ station[activeTx] \in Station
      BY <2>16 DEF TcRoute, ActiveOnline, Registered, TypeOK
    <3>2. tc' \in [name : Names, ep : Endpoints]
      BY <2>16, <3>1 DEF TcRoute, Station
    <3> QED
      BY <2>16, <3>2 DEF TcRoute, TcReceived, TypeOK, stationVars, mirrorVars
  <2>17. CASE TcDrop
    BY <2>17 DEF TcDrop, TcReceived, TypeOK, stationVars, mirrorVars
  <2>18. CASE TcSend
    BY <2>18 DEF TcSend, TypeOK, stationVars, mirrorVars
  <2>19. CASE TcSendError
    <3>1. used' \in [Kinds -> Nat]
      BY <2>19, SpendType DEF Kinds, TcSendError, TypeOK
    <3> QED
      BY <2>19, <3>1 DEF TcSendError, TypeOK, stationVars, mirrorVars
  <2>20. CASE StatusActive
    <3>1. used' \in [Kinds -> Nat]
      BY <2>20, SpendType DEF Kinds, StatusActive, TypeOK
    <3>2. snap' \in [pc : {"idle", "list", "done"}, active : Names \cup {None},
                     listed : SUBSET Names, flagged : SUBSET Names]
      BY <2>20 DEF StatusActive, NoSnap, TypeOK
    <3> QED
      BY <2>20, <3>1, <3>2 DEF StatusActive, TypeOK, stationVars, mirrorVars, tcVars
  <2>21. CASE StatusList
    BY <2>21 DEF StatusList, Registered, TypeOK, stationVars, mirrorVars, tcVars
  <2>22. CASE StatusReply
    BY <2>22 DEF StatusReply, NoSnap, TypeOK, stationVars, mirrorVars, tcVars
  <2>23. CASE Restart
    <3>1. used' \in [Kinds -> Nat]
      BY <2>23, SpendType DEF Kinds, Restart, TypeOK
    <3> QED
      BY <2>23, <3>1, ConstantFacts DEF Restart, Idle, At, NoSnap, TypeOK
  <2>24. ASSUME NEW n \in Names, NEW i \in Insts, LatePut(n, i) PROVE TypeOK'
    <3>1. late' \in [Names -> [Insts -> Nat]]
      BY <2>24 DEF LatePut, TypeOK
    <3>2. param' \in [Insts -> Names \cup {None}]
      BY <2>24 DEF LatePut, TypeOK
    <3> QED
      BY <2>24, <3>1, <3>2 DEF LatePut, TypeOK, stationVars, tcVars
  <2>25. CASE UNCHANGED vars
    BY <2>25 DEF vars, stationVars, mirrorVars, tcVars, TypeOK
  <2> QED
    BY <2>1, <2>2, <2>3, <2>4, <2>5, <2>6, <2>7, <2>8, <2>9, <2>10, <2>11, <2>12,
       <2>13, <2>14, <2>15, <2>16, <2>17, <2>18, <2>19, <2>20, <2>21, <2>22, <2>23,
       <2>24, <2>25
       DEF Next, HeartbeatStep, Heartbeat, OperatorStep, PushStep, PollStep,
           TcStep, StatusStep
<1> QED
  BY <1>1, <1>2, PTL DEF Spec

-----------------------------------------------------------------------------
(***************************************************************************)
(* The registry and the selection.  A step leaves both alone, registers a  *)
(* station, moves the selection to a registered station, or is a restart.  *)
(***************************************************************************)

SameRegistry == Registered' = Registered /\ activeTx' = activeTx

Registers(n) ==
  /\ Registered' = Registered \cup {n}
  /\ activeTx' = IF activeTx = None THEN n ELSE activeTx

Selects == Registered' = Registered /\ activeTx' \in Registered

\* A step that leaves the variable station alone leaves the registry alone.
LEMMA SameStation == ASSUME UNCHANGED station PROVE Registered' = Registered
  BY DEF Registered

\* Time, a first and a later heartbeat: only the second changes the registry.
LEMMA TickKeeps ==
  ASSUME TypeOK, Tick
  PROVE  SameRegistry
<1>1. ASSUME NEW n \in Names PROVE station[n] # None <=> station'[n] # None
  <2>1. [station[n] EXCEPT !.age = @ + 1] # None
        \/ station[n] = None \/ ~(station[n].age < MaxAge)
    <3>1. ASSUME station[n] \in Station, station[n].age < MaxAge
          PROVE  [station[n] EXCEPT !.age = @ + 1] \in Station
      BY <3>1, ConstantFacts DEF Station, Ages, MaxAge
    <3> QED
      BY <3>1, StationIsNotNone DEF TypeOK
  <2> QED
    BY <2>1 DEF Tick
<1> QED
  BY <1>1 DEF Tick, Registered, SameRegistry

LEMMA RegisterAdds ==
  ASSUME TypeOK, NEW n \in Names, NEW ep \in Endpoints, NEW lag \in Lags,
         Register(n, ep, lag)
  PROVE  Registers(n)
<1>1. [ep |-> ep, age |-> lag] # None
  BY StationIsNotNone, ConstantFacts DEF Station, Ages, MaxAge
<1>2. Registered' = Registered \cup {n}
  BY <1>1 DEF Register, Registered, TypeOK
<1> QED
  BY <1>2 DEF Register, Registers

LEMMA RefreshKeeps ==
  ASSUME TypeOK, NEW n \in Names, NEW ep \in Endpoints, NEW lag \in Lags,
         Refresh(n, ep, lag)
  PROVE  SameRegistry
<1>1. [ep |-> ep, age |-> lag] # None
  BY StationIsNotNone, ConstantFacts DEF Station, Ages, MaxAge
<1>2. Registered' = Registered
  BY <1>1 DEF Refresh, Registered, TypeOK
<1> QED
  BY <1>2 DEF Refresh, SameRegistry

\* Every step is one of the four kinds named above.
LEMMA RegistryStep ==
  ASSUME TypeOK, [Next]_vars
  PROVE  SameRegistry \/ (\E n \in Names : Registers(n)) \/ Selects \/ Restart
<1>1. CASE Tick
  BY <1>1, TickKeeps
<1>2. ASSUME NEW n \in Names, NEW ep \in Endpoints, NEW lag \in Lags,
             Register(n, ep, lag)
      PROVE  Registers(n)
  BY <1>2, RegisterAdds
<1>3. ASSUME NEW n \in Names, NEW ep \in Endpoints, NEW lag \in Lags,
             Refresh(n, ep, lag)
      PROVE  SameRegistry
  BY <1>3, RefreshKeeps
<1>4. ASSUME NEW n \in Names, SetActiveTx(n) PROVE Selects
  BY <1>4, SameStation DEF SetActiveTx, Selects
<1>5. ASSUME NEW i \in Insts, NEW n \in Names, YamcsWrite(i, n) PROVE SameRegistry
  BY <1>5, SameStation DEF YamcsWrite, stationVars, SameRegistry
<1>6. ASSUME NEW n \in Names, NEW i \in Insts,
             PushPut(n, i) \/ PushFail(n, i) \/ PushBreaks(n, i) \/ LatePut(n, i)
      PROVE  SameRegistry
  BY <1>6, SameStation
     DEF PushPut, PushFail, PushBreaks, LatePut, stationVars, SameRegistry
<1>7. CASE PollWake \/ PollRead \/ PollReadFail \/ PollBreaks \/ PollSkip
  BY <1>7, SameStation
     DEF PollWake, PollRead, PollReadFail, PollBreaks, PollSkip, stationVars,
        SameRegistry
<1>8. CASE PollAdopt
  BY <1>8, SameStation DEF PollAdopt, Selects
<1>9. CASE TcStep
  BY <1>9, SameStation
     DEF TcStep, TcArrive, TcRoute, TcDrop, TcSend, TcSendError, stationVars,
         SameRegistry
<1>10. CASE StatusStep
  BY <1>10, SameStation
     DEF StatusStep, StatusActive, StatusList, StatusReply, stationVars, SameRegistry
<1>11. CASE UNCHANGED vars
  BY <1>11, SameStation DEF vars, stationVars, SameRegistry
<1> QED
  BY <1>1, <1>2, <1>3, <1>4, <1>5, <1>6, <1>7, <1>8, <1>9, <1>10, <1>11
     DEF Next, HeartbeatStep, Heartbeat, OperatorStep, PushStep, PollStep

\* After a restart no station is registered, no push runs and no frame is in hand.
LEMMA RestartEmpties ==
  ASSUME Restart
  PROVE  /\ Registered' = {} /\ activeTx' = None
         /\ \A n \in Names, i \in Insts : pushing'[n][i] = 0
         /\ late' = late
         /\ poll' = Idle /\ tc' = None /\ snap' = NoSnap /\ param' = param
         /\ chosen' = chosen
  BY DEF Restart, Registered

\* Stations are never forgotten while the gateway runs.
LEMMA RegisteredGrows ==
  ASSUME TypeOK, [Next]_vars, ~Restart
  PROVE  Registered \subseteq Registered'
  BY RegistryStep DEF SameRegistry, Registers, Selects

-----------------------------------------------------------------------------
\* The selected station is a registered one, and one is selected as soon as one is
\* registered, whichever of heartbeats, the UI and the poll thread act in which order.
THEOREM SelectionIsRegistered == Spec => []SelectionRegistered
<1>1. Init => SelectionRegistered
  BY DEF Init, SelectionRegistered, Registered
<1>2. TypeOK /\ SelectionRegistered /\ [Next]_vars => SelectionRegistered'
  <2> SUFFICES ASSUME TypeOK, SelectionRegistered, [Next]_vars
               PROVE  SelectionRegistered'
    OBVIOUS
  <2>1. CASE SameRegistry
    BY <2>1 DEF SameRegistry, SelectionRegistered
  <2>2. ASSUME NEW n \in Names, Registers(n) PROVE SelectionRegistered'
    BY <2>2, ConstantFacts DEF Registers, SelectionRegistered, Registered
  <2>3. CASE Selects
    BY <2>3 DEF Selects, SelectionRegistered
  <2>4. CASE Restart
    BY <2>4, RestartEmpties DEF SelectionRegistered
  <2> QED
    BY <2>1, <2>2, <2>3, <2>4, RegistryStep
<1> QED
  BY <1>1, <1>2, TypeCorrect, PTL DEF Spec

-----------------------------------------------------------------------------
(***************************************************************************)
(* Push threads.  A step moves a thread to another instance or starts one  *)
(* for the station that is selected after the step.                        *)
(***************************************************************************)

Pushing(n) == \E i \in Insts : pushing[n][i] > 0

\* _push_active_tx_unlocked starts a thread for the name it is given, no other.
LEMMA StartPushSource ==
  ASSUME TypeOK, NEW m \in Names, StartPush(m), NEW n \in Names, Pushing(n)'
  PROVE  n = m \/ Pushing(n)
  BY DEF TypeOK, StartPush, Pushing

\* A thread that moves on keeps pushing the name it was started with.
LEMMA AdvancePushSource ==
  ASSUME TypeOK, NEW m \in Names, NEW i \in Insts, pushing[m][i] > 0,
         AdvancePush(m, i), NEW n \in Names, Pushing(n)'
  PROVE  Pushing(n)
<1>1. CASE n = m
  BY <1>1 DEF Pushing
<1>2. CASE n # m
  BY <1>2 DEF TypeOK, AdvancePush, Pushing
<1> QED
  BY <1>1, <1>2

\* A thread that ends leaves the others as they were.
LEMMA EndPushSource ==
  ASSUME TypeOK, NEW m \in Names, NEW i \in Insts, pushing[m][i] > 0,
         pushing' = [pushing EXCEPT ![m][i] = @ - 1], NEW n \in Names, Pushing(n)'
  PROVE  Pushing(n)
  BY DEF TypeOK, Pushing

\* So a thread either ran before the step or pushes the selection made by it.
LEMMA PushSource ==
  ASSUME TypeOK, [Next]_vars, ~Restart, NEW n \in Names, Pushing(n)'
  PROVE  Pushing(n) \/ n = activeTx'
<1>1. CASE UNCHANGED pushing
  BY <1>1 DEF Pushing
<1>2. ASSUME NEW m \in Names, NEW ep \in Endpoints, NEW lag \in Lags,
             Register(m, ep, lag)
      PROVE  Pushing(n) \/ n = activeTx'
  <2>1. CASE activeTx = None
    BY <1>2, <2>1, StartPushSource DEF Register
  <2> QED
    BY <1>1, <1>2, <2>1 DEF Register
<1>3. ASSUME NEW m \in Names, SetActiveTx(m) PROVE Pushing(n) \/ n = activeTx'
  BY <1>3, StartPushSource DEF SetActiveTx
<1>4. ASSUME NEW m \in Names, NEW i \in Insts, PushPut(m, i) \/ PushFail(m, i)
      PROVE  Pushing(n)
  BY <1>4, AdvancePushSource DEF PushPut, PushFail
<1>5. ASSUME NEW m \in Names, NEW i \in Insts, PushBreaks(m, i) PROVE Pushing(n)
  BY <1>5, EndPushSource DEF PushBreaks
<1>6. CASE PollAdopt
  BY <1>6, StartPushSource DEF PollAdopt, Registered
<1>7. ASSUME NEW m \in Names, NEW ep \in Endpoints, NEW lag \in Lags,
             Refresh(m, ep, lag)
      PROVE  UNCHANGED pushing
  BY <1>7 DEF Refresh, mirrorVars
<1>8. ASSUME NEW i \in Insts, NEW m \in Names, YamcsWrite(i, m)
      PROVE  UNCHANGED pushing
  BY <1>8 DEF YamcsWrite
<1>9. ASSUME NEW m \in Names, NEW i \in Insts, LatePut(m, i)
      PROVE  UNCHANGED pushing
  BY <1>9 DEF LatePut
<1>10. CASE Tick \/ PollWake \/ PollRead \/ PollReadFail \/ PollBreaks \/ PollSkip
  BY <1>1, <1>10 DEF Tick, PollWake, PollRead, PollReadFail, PollBreaks, PollSkip,
     mirrorVars
<1>11. CASE TcStep \/ StatusStep \/ UNCHANGED vars
  BY <1>1, <1>11
     DEF TcStep, TcArrive, TcRoute, TcDrop, TcSend, TcSendError, StatusStep,
         StatusActive, StatusList, StatusReply, vars, mirrorVars
<1> QED
  BY <1>1, <1>2, <1>3, <1>4, <1>5, <1>6, <1>7, <1>8, <1>9, <1>10, <1>11
     DEF Next, HeartbeatStep, Heartbeat, OperatorStep, PushStep, PollStep

\* A PUT that Yamcs may still apply is one that a push thread gave up.
Late(n) == \E i \in Insts : late[n][i] > 0

LEMMA LateSource ==
  ASSUME TypeOK, [Next]_vars, NEW n \in Names, Late(n)'
  PROVE  Late(n) \/ Pushing(n)
<1>1. CASE UNCHANGED late
  BY <1>1 DEF Late
<1>2. ASSUME NEW m \in Names, NEW i \in Insts, PushFail(m, i)
      PROVE  Late(n) \/ Pushing(n)
  <2>1. CASE n = m
    BY <1>2, <2>1 DEF PushFail, Pushing
  <2>2. CASE n # m
    BY <1>2, <2>2 DEF PushFail, TypeOK, Late
  <2> QED
    BY <2>1, <2>2
<1>3. ASSUME NEW m \in Names, NEW i \in Insts, LatePut(m, i) PROVE Late(n)
  <2>1. CASE n = m
    BY <1>3, <2>1 DEF LatePut, Late
  <2>2. CASE n # m
    BY <1>3, <2>2 DEF LatePut, TypeOK, Late
  <2> QED
    BY <2>1, <2>2
<1> QED
  BY <1>1, <1>2, <1>3
  DEF Next, Tick, HeartbeatStep, Heartbeat, Register, Refresh, OperatorStep,
      SetActiveTx, YamcsWrite, PushStep, PushPut, PushBreaks, PollStep, PollWake,
      PollRead, PollReadFail, PollBreaks, PollSkip, PollAdopt, TcStep, TcArrive,
      TcRoute, TcDrop, TcSend, TcSendError, StatusStep, StatusActive, StatusList,
      StatusReply, Restart, vars, mirrorVars

\* A parameter is set by an operator, or to a name that was being pushed or was late.
LEMMA ParamSource ==
  ASSUME TypeOK, [Next]_vars
  PROVE  \/ param' = param
         \/ \E j \in Insts, n \in Names : YamcsWrite(j, n)
         \/ \E j \in Insts, n \in Names :
              param' = [param EXCEPT ![j] = n] /\ (Pushing(n) \/ Late(n))
<1>1. ASSUME NEW n \in Names, NEW j \in Insts, PushPut(n, j)
      PROVE  param' = [param EXCEPT ![j] = n] /\ Pushing(n)
  BY <1>1 DEF PushPut, Pushing
<1>2. ASSUME NEW n \in Names, NEW j \in Insts, PushBreaks(n, j)
      PROVE  param' = param \/ (param' = [param EXCEPT ![j] = n] /\ Pushing(n))
  BY <1>2 DEF PushBreaks, Pushing
<1>3. ASSUME NEW n \in Names, NEW j \in Insts, LatePut(n, j)
      PROVE  param' = [param EXCEPT ![j] = n] /\ Late(n)
  BY <1>3 DEF LatePut, Late
<1> QED
  BY <1>1, <1>2, <1>3
  DEF Next, Tick, HeartbeatStep, Heartbeat, Register, Refresh, OperatorStep,
      SetActiveTx, PushStep, PushFail, PollStep, PollWake, PollRead, PollReadFail,
      PollBreaks, PollSkip, PollAdopt, TcStep, TcArrive, TcRoute, TcDrop, TcSend,
      TcSendError, StatusStep, StatusActive, StatusList, StatusReply, Restart, vars,
      mirrorVars

\* The TC thread takes the selected station from the registry, or keeps its own.
LEMMA TcSource ==
  ASSUME TypeOK, [Next]_vars
  PROVE  tc' = tc \/ tc' = None \/ (tc'.name = activeTx /\ activeTx \in Registered)
<1>1. CASE TcStep
  BY <1>1 DEF TcStep, TcArrive, TcRoute, TcDrop, TcSend, TcSendError, ActiveOnline
<1>2. CASE ~TcStep
  BY <1>2 DEF Next, Tick, HeartbeatStep, Heartbeat, Register, Refresh, OperatorStep,
     SetActiveTx, YamcsWrite, PushStep, PushPut, PushFail, PushBreaks, LatePut, PollStep,
     PollWake, PollRead, PollReadFail, PollBreaks, PollSkip, PollAdopt, StatusStep,
     StatusActive, StatusList, StatusReply, Restart, vars, tcVars
<1> QED
  BY <1>1, <1>2

\* No push thread and no telecommand on its way belongs to a station the gateway
\* does not know: stations stay registered while work for them is in progress.
THEOREM WorkIsRegistered == Spec => []WorkRegistered
<1>1. Init => WorkRegistered
  BY DEF Init, WorkRegistered
<1>2. TypeOK /\ SelectionRegistered /\ SelectionRegistered' /\ WorkRegistered /\ [Next]_vars
        => WorkRegistered'
  <2> SUFFICES ASSUME TypeOK, SelectionRegistered, SelectionRegistered', WorkRegistered,
                      [Next]_vars
               PROVE  WorkRegistered'
    OBVIOUS
  <2>1. CASE Restart
    BY <2>1, RestartEmpties DEF WorkRegistered
  <2>2. CASE ~Restart
    <3>1. Registered \subseteq Registered'
      BY <2>2, RegisteredGrows
    <3>2. ASSUME NEW n \in Names, Pushing(n)' PROVE n \in Registered'
      <4>1. CASE Pushing(n)
        BY <3>1, <4>1 DEF Pushing, WorkRegistered
      <4>2. CASE n = activeTx'
        BY <4>2, ConstantFacts DEF SelectionRegistered
      <4> QED
        BY <2>2, <3>2, <4>1, <4>2, PushSource
    <3>3. tc' # None => tc'.name \in Registered'
      BY <3>1, TcSource DEF WorkRegistered
    <3> QED
      BY <3>2, <3>3 DEF WorkRegistered, Pushing
  <2> QED
    BY <2>1, <2>2
<1> QED
  BY <1>1, <1>2, TypeCorrect, SelectionIsRegistered, PTL DEF Spec

-----------------------------------------------------------------------------
\* The gateway never selects, mirrors or is about to adopt a name that nobody
\* asked for, whatever its threads, Yamcs and restarts do in between.
THEOREM NamesAreChosen == Spec => []OnlyChosenNames
<1>1. Init => OnlyChosenNames
  BY DEF Init, OnlyChosenNames, Idle, At
<1>2. TypeOK /\ TypeOK' /\ OnlyChosenNames /\ [Next]_vars => OnlyChosenNames'
  <2> SUFFICES ASSUME TypeOK, TypeOK', OnlyChosenNames, [Next]_vars
               PROVE  OnlyChosenNames'
    OBVIOUS
  <2>1. chosen \subseteq chosen'
    BY DEF Next, Tick, HeartbeatStep, Heartbeat, Register, Refresh, OperatorStep,
       SetActiveTx, YamcsWrite, PushStep, PushPut, PushFail, PushBreaks, LatePut, PollStep,
       PollWake, PollRead, PollReadFail, PollBreaks, PollSkip, PollAdopt, TcStep,
       TcArrive, TcRoute, TcDrop, TcSend, TcSendError, StatusStep, StatusActive,
       StatusList, StatusReply, Restart, vars
  <2>2. activeTx' \in chosen' \cup {None}
    <3>1. ASSUME NEW n \in Names, NEW ep \in Endpoints, NEW lag \in Lags,
                 Register(n, ep, lag)
          PROVE  activeTx' \in chosen' \cup {None}
      BY <3>1 DEF Register, OnlyChosenNames
    <3>2. ASSUME NEW n \in Names, SetActiveTx(n) PROVE activeTx' \in chosen'
      BY <3>2 DEF SetActiveTx
    <3>3. CASE PollAdopt
      BY <3>3 DEF PollAdopt, OnlyChosenNames
    <3>4. CASE Restart
      BY <3>4, RestartEmpties
    <3>5. CASE activeTx' = activeTx
      BY <2>1, <3>5 DEF OnlyChosenNames
    <3> QED
      BY <3>1, <3>2, <3>3, <3>4, <3>5
      DEF Next, Tick, HeartbeatStep, Heartbeat, Refresh, OperatorStep, YamcsWrite,
          PushStep, PushPut, PushFail, PushBreaks, LatePut, PollStep, PollWake, PollRead,
          PollReadFail, PollBreaks, PollSkip, TcStep, TcArrive, TcRoute, TcDrop,
          TcSend, TcSendError, StatusStep, StatusActive, StatusList, StatusReply,
          vars, stationVars
  <2>3. \A i \in Insts : param'[i] \in chosen' \cup {None}
    <3>1. ASSUME NEW j \in Insts, NEW n \in Names, YamcsWrite(j, n)
          PROVE  \A i \in Insts : param'[i] \in chosen' \cup {None}
      BY <3>1 DEF YamcsWrite, OnlyChosenNames, TypeOK
    <3>2. ASSUME NEW j \in Insts, NEW n \in Names, Pushing(n) \/ Late(n),
                 param' = [param EXCEPT ![j] = n]
          PROVE  \A i \in Insts : param'[i] \in chosen' \cup {None}
      <4>1. n \in chosen
        BY <3>2 DEF Pushing, Late, OnlyChosenNames
      <4> QED
        BY <2>1, <3>2, <4>1 DEF OnlyChosenNames, TypeOK
    <3>3. CASE param' = param
      BY <2>1, <3>3 DEF OnlyChosenNames
    <3> QED
      BY <3>1, <3>2, <3>3, ParamSource
  <2>4. \A n \in Names \ chosen', i \in Insts : pushing'[n][i] = 0
    <3>1. CASE Restart
      BY <3>1, RestartEmpties
    <3>2. CASE ~Restart
      <4>1. ASSUME NEW n \in Names \ chosen', NEW i \in Insts, pushing'[n][i] # 0
            PROVE  FALSE
        <5>1. Pushing(n)'
          BY <4>1 DEF TypeOK, Pushing
        <5>2. ~Pushing(n)
          BY <2>1, <4>1 DEF Pushing, OnlyChosenNames
        <5>3. n # activeTx'
          BY <2>2, <4>1, ConstantFacts
        <5> QED
          BY <3>2, <5>1, <5>2, <5>3, PushSource
      <4> QED
        BY <4>1
    <3> QED
      BY <3>1, <3>2
  <2>5. poll'.value \in chosen' \cup {None}
    <3>1. CASE PollRead
      <4>1. poll.at \in Insts
        BY <3>1, ConstantFacts DEF PollRead, TypeOK, Insts
      <4> QED
        BY <2>1, <3>1, <4>1 DEF PollRead, After, At, OnlyChosenNames, TypeOK
    <3>2. CASE PollWake \/ PollReadFail \/ PollBreaks \/ PollSkip \/ PollAdopt \/
       Restart
      BY <3>2 DEF PollWake, PollReadFail, PollBreaks, PollSkip, PollAdopt, Restart,
         After, Idle, At
    <3>3. CASE poll' = poll
      BY <2>1, <3>3 DEF OnlyChosenNames
    <3> QED
      BY <3>1, <3>2, <3>3
      DEF Next, Tick, HeartbeatStep, Heartbeat, Register, Refresh, OperatorStep,
          SetActiveTx, YamcsWrite, PushStep, PushPut, PushFail, PushBreaks, LatePut, PollStep,
          TcStep, TcArrive, TcRoute, TcDrop, TcSend, TcSendError, StatusStep,
          StatusActive, StatusList, StatusReply, vars, mirrorVars
  <2>6. \A n \in Names \ chosen', i \in Insts : late'[n][i] = 0
    <3>1. ASSUME NEW n \in Names \ chosen', NEW i \in Insts, late'[n][i] # 0
          PROVE  FALSE
      <4>1. Late(n)'
        BY <3>1 DEF TypeOK, Late
      <4>2. ~Late(n) /\ ~Pushing(n)
        BY <2>1, <3>1 DEF Late, Pushing, OnlyChosenNames
      <4> QED
        BY <4>1, <4>2, LateSource
    <3> QED
      BY <3>1
  <2>7. tc' # None => tc'.name \in chosen'
    BY <2>1, TcSource, ConstantFacts DEF OnlyChosenNames, Registered
  <2> QED
    BY <2>2, <2>3, <2>4, <2>5, <2>6, <2>7 DEF OnlyChosenNames
<1> QED
  BY <1>1, <1>2, TypeCorrect, PTL DEF Spec

-----------------------------------------------------------------------------
(***************************************************************************)
(* The status snapshot.  SnapshotConsistent speaks of the finished answer  *)
(* only; between the two lock sections the selection already read must     *)
(* stay registered, which SnapshotHeld adds.                               *)
(***************************************************************************)

SnapshotHeld ==
  snap.pc = "list" /\ snap.active # None => snap.active \in Registered

SnapshotInv == SnapshotHeld /\ SnapshotConsistent

\* Only the three steps of status() and a restart touch the snapshot.
LEMMA SnapSource ==
  ASSUME [Next]_vars
  PROVE  snap' = snap \/ StatusActive \/ StatusList \/ snap' = NoSnap
  BY DEF Next, Tick, HeartbeatStep, Heartbeat, Register, Refresh, OperatorStep,
     SetActiveTx, YamcsWrite, PushStep, PushPut, PushFail, PushBreaks, LatePut, PollStep,
     PollWake, PollRead, PollReadFail, PollBreaks, PollSkip, PollAdopt, TcStep,
     TcArrive, TcRoute, TcDrop, TcSend, TcSendError, StatusStep, StatusReply,
     Restart, vars

\* Whatever happens between the two lock sections of status(), the active station
\* of the answer is among its stations and exactly one of them is flagged.
THEOREM SnapshotIsConsistent == Spec => []SnapshotConsistent
<1>1. Init => SnapshotInv
  BY DEF Init, NoSnap, SnapshotInv, SnapshotHeld, SnapshotConsistent
<1>2. TypeOK /\ SelectionRegistered /\ SnapshotInv /\ [Next]_vars => SnapshotInv'
  <2> SUFFICES ASSUME TypeOK, SelectionRegistered, SnapshotInv, [Next]_vars
               PROVE  SnapshotInv'
    OBVIOUS
  <2>1. CASE snap' = snap /\ ~Restart
    BY <2>1, RegisteredGrows DEF SnapshotInv, SnapshotHeld, SnapshotConsistent
  <2>2. CASE StatusActive
    <3>1. Registered' = Registered
      BY <2>2, SameStation DEF StatusActive, stationVars
    <3>2. snap'.pc = "list" /\ snap'.active = activeTx
      BY <2>2 DEF StatusActive, NoSnap
    <3> QED
      BY <3>1, <3>2 DEF SelectionRegistered, SnapshotInv, SnapshotHeld, SnapshotConsistent
  <2>3. CASE StatusList
    <3>1. /\ snap'.pc = "done" /\ snap'.active = snap.active
          /\ snap'.listed = Registered
          /\ snap'.flagged = {n \in Registered : n = activeTx}
      BY <2>3 DEF StatusList, TypeOK
    <3>2. snap'.active # None => snap'.active \in Registered
      BY <2>3, <3>1 DEF StatusList, SnapshotInv, SnapshotHeld
    <3>3. Registered # {} => snap'.flagged = {activeTx} /\ activeTx \in Registered
      BY <3>1 DEF SelectionRegistered
    <3> QED
      BY <3>1, <3>2, <3>3 DEF SnapshotInv, SnapshotHeld, SnapshotConsistent
  <2>4. CASE snap' = NoSnap
    BY <2>4 DEF NoSnap, SnapshotInv, SnapshotHeld, SnapshotConsistent
  <2>5. Restart => snap' = NoSnap
    BY RestartEmpties
  <2> QED
    BY <2>1, <2>2, <2>3, <2>4, <2>5, SnapSource
<1>3. SnapshotInv => SnapshotConsistent
  BY DEF SnapshotInv
<1> QED
  BY <1>1, <1>2, <1>3, TypeCorrect, SelectionIsRegistered, PTL DEF Spec

-----------------------------------------------------------------------------
(***************************************************************************)
(* Stability of a settled gateway, an action property.                     *)
(***************************************************************************)

\* An operator's action and a restart are visible in the history variable used.
LEMMA UndisturbedSteps ==
  ASSUME TypeOK, Undisturbed
  PROVE  /\ ~Restart
         /\ \A n \in Names : ~SetActiveTx(n)
         /\ \A i \in Insts, n \in Names : ~YamcsWrite(i, n)
<1>1. ASSUME NEW kind \in {"select", "write", "restart"} PROVE ~Spend(kind)
  <2>1. used[kind] \in Nat
    BY DEF TypeOK, Kinds
  <2> QED
    BY <2>1 DEF Spend, Undisturbed, TypeOK, Kinds
<1> QED
  BY <1>1 DEF Restart, SetActiveTx, YamcsWrite

\* In a settled gateway the poll thread has nothing to adopt, so the selection
\* changes only when a first station is selected by default.
LEMMA SettledSelection ==
  ASSUME TypeOK, Settled, Undisturbed, [Next]_vars
  PROVE  activeTx # None => activeTx' = activeTx
<1>1. ~PollAdopt
  BY DEF PollAdopt, Settled
<1> QED
  BY <1>1, UndisturbedSteps
  DEF Next, Tick, HeartbeatStep, Heartbeat, Register, Refresh, OperatorStep,
      PushStep, PushPut, PushFail, PushBreaks, LatePut, PollStep, PollWake, PollRead,
      PollReadFail, PollBreaks, PollSkip, TcStep, TcArrive, TcRoute, TcDrop, TcSend,
      TcSendError, StatusStep, StatusActive, StatusList, StatusReply, vars,
      stationVars

\* Heartbeats, new stations, failed PUTs, pushes and poll rounds, in any order,
\* leave a settled gateway settled and its selection in place.
THEOREM SettledStays == Spec => SettledIsStable
<1> DEFINE Stays == Settled /\ Undisturbed =>
                      Settled' /\ (activeTx # None => activeTx' = activeTx)
<1>1. TypeOK /\ TypeOK' /\ [Next]_vars => Stays
  <2> SUFFICES ASSUME TypeOK, TypeOK', [Next]_vars, Settled, Undisturbed
               PROVE  Settled' /\ (activeTx # None => activeTx' = activeTx)
    OBVIOUS
  <2>1. activeTx # None => activeTx' = activeTx
    BY SettledSelection
  <2>2. \A i \in Insts : param'[i] \in {activeTx', None}
    <3>1. ASSUME NEW j \in Insts, NEW n \in Names, Pushing(n) \/ Late(n),
                 param' = [param EXCEPT ![j] = n]
          PROVE  \A i \in Insts : param'[i] \in {activeTx', None}
      <4>1. n = activeTx
        BY <3>1 DEF Pushing, Late, Settled
      <4>2. activeTx' = activeTx
        BY <2>1, <4>1, ConstantFacts
      <4> QED
        BY <3>1, <4>1, <4>2 DEF Settled, TypeOK
    <3>2. CASE param' = param
      BY <2>1, <3>2 DEF Settled
    <3> QED
      BY <3>1, <3>2, UndisturbedSteps, ParamSource
  <2>3. \A n \in Names \ {activeTx'}, i \in Insts : pushing'[n][i] = 0
    <3>1. ASSUME NEW n \in Names \ {activeTx'}, NEW i \in Insts, pushing'[n][i] # 0
          PROVE  FALSE
      <4>1. Pushing(n)'
        BY <3>1 DEF TypeOK, Pushing
      <4>2. Pushing(n)
        BY <3>1, <4>1, PushSource, UndisturbedSteps
      <4>3. n = activeTx
        BY <4>2 DEF Pushing, Settled
      <4> QED
        BY <2>1, <3>1, <4>3, ConstantFacts
    <3> QED
      BY <3>1
  <2>4. poll'.value \in {activeTx', None}
    <3>1. CASE PollRead
      <4>1. poll.at \in Insts
        BY <3>1, ConstantFacts DEF PollRead, TypeOK, Insts
      <4> QED
        BY <2>1, <3>1, <4>1 DEF PollRead, After, At, Settled, TypeOK
    <3>2. CASE PollWake \/ PollReadFail \/ PollBreaks \/ PollSkip \/ PollAdopt
      BY <3>2 DEF PollWake, PollReadFail, PollBreaks, PollSkip, PollAdopt, After,
         Idle, At
    <3>3. CASE poll' = poll
      BY <2>1, <3>3 DEF Settled
    <3> QED
      BY <3>1, <3>2, <3>3, UndisturbedSteps
      DEF Next, Tick, HeartbeatStep, Heartbeat, Register, Refresh, OperatorStep,
          PushStep, PushPut, PushFail, PushBreaks, LatePut, PollStep, TcStep, TcArrive,
          TcRoute, TcDrop, TcSend, TcSendError, StatusStep, StatusActive, StatusList,
          StatusReply, vars, mirrorVars
  <2>5. \A n \in Names \ {activeTx'}, i \in Insts : late'[n][i] = 0
    <3>1. ASSUME NEW n \in Names \ {activeTx'}, NEW i \in Insts, late'[n][i] # 0
          PROVE  FALSE
      <4>1. Late(n)'
        BY <3>1 DEF TypeOK, Late
      <4>2. n = activeTx
        BY <3>1, <4>1, LateSource DEF Late, Pushing, Settled
      <4> QED
        BY <2>1, <3>1, <4>2, ConstantFacts
    <3> QED
      BY <3>1
  <2> QED
    BY <2>1, <2>2, <2>3, <2>4, <2>5 DEF Settled
<1> QED
  BY <1>1, TypeCorrect, PTL DEF Spec, SettledIsStable

-----------------------------------------------------------------------------
(***************************************************************************)
(* The refinement of TxSelection.  What a step adds to the names that are  *)
(* around is looked up per variable: the selection and the parameters are  *)
(* set by few actions, push threads have their name from before or from    *)
(* the selection (PushSource), the poll thread from a parameter.           *)
(***************************************************************************)

\* What is around: all that is selected, mirrored, pushed or read.
LEMMA AroundFacts ==
  ASSUME TypeOK
  PROVE  /\ Around \subseteq Names /\ None \notin Around
         /\ activeTx \in Around \cup {None} /\ poll.value \in Around \cup {None}
         /\ \A i \in Insts : param[i] \in Around \cup {None}
         /\ \A n \in Names : Pushing(n) \/ Late(n) => n \in Around
         /\ Selection!Mirrored \subseteq Around
<1>1. /\ activeTx \in Names \cup {None} /\ poll.value \in Names \cup {None}
      /\ \A i \in Insts : param[i] \in Names \cup {None}
  BY DEF TypeOK
<1>2. Around \subseteq Names /\ None \notin Around
  BY <1>1 DEF Around
<1>3. activeTx \in Around \cup {None} /\ poll.value \in Around \cup {None}
  BY DEF Around
<1>4. \A i \in Insts : param[i] \in Around \cup {None}
  BY DEF Around
<1>5. \A n \in Names : Pushing(n) \/ Late(n) => n \in Around
  BY ConstantFacts DEF Around, Pushing, Late
<1>6. Selection!Mirrored \subseteq Around
  BY DEF Around, Selection!Mirrored
<1> QED BY <1>2, <1>3, <1>4, <1>5, <1>6

\* New names apart, a step moves only names that are around.
LEMMA CirculatesIf ==
  ASSUME TypeOK, TypeOK', NEW new \in SUBSET Names,
         activeTx' \in Around \cup new \cup {None},
         poll'.value \in Around \cup new \cup {None},
         \A i \in Insts : param'[i] \in Around \cup new \cup {None},
         \A n \in Names : Pushing(n)' \/ Late(n)' => n \in Around \cup new
  PROVE  Selection!Circulates(new)
<1>1. Around' \subseteq Around \cup new
  BY DEF Around, Pushing, Late
<1>2. {activeTx'} \cup Selection!Mirrored' \subseteq Around' \cup {None}
  BY DEF Around, Selection!Mirrored
<1> QED BY <1>1, <1>2 DEF Selection!Circulates

\* The value that the poll thread holds was read from an instance, or it holds none.
LEMMA PollSource ==
  ASSUME TypeOK, [Next]_vars
  PROVE  poll'.value \in Around \cup {None}
<1>0. /\ poll.value \in Around \cup {None}
      /\ \A i \in Insts : param[i] \in Around \cup {None}
  BY AroundFacts
<1>1. CASE PollRead
  <2>1. poll.at \in Insts
    BY <1>1, ConstantFacts DEF PollRead, TypeOK, Insts
  <2> QED
    BY <1>0, <1>1, <2>1 DEF PollRead, After, At, TypeOK
<1>2. CASE PollWake \/ PollReadFail \/ PollBreaks \/ PollSkip \/ PollAdopt \/ Restart
  BY <1>2 DEF PollWake, PollReadFail, PollBreaks, PollSkip, PollAdopt, Restart,
     After, Idle, At
<1>3. CASE poll' = poll
  BY <1>0, <1>3
<1> QED
  BY <1>1, <1>2, <1>3
  DEF Next, Tick, HeartbeatStep, Heartbeat, Register, Refresh, OperatorStep,
      SetActiveTx, YamcsWrite, PushStep, PushPut, PushFail, PushBreaks, LatePut, PollStep,
      TcStep, TcArrive, TcRoute, TcDrop, TcSend, TcSendError, StatusStep,
      StatusActive, StatusList, StatusReply, vars, mirrorVars

\* Whatever the gateway does, the names that are around afterwards were so before or
\* are that of the selection or of a parameter that the step sets.
LEMMA StepCirculates ==
  ASSUME TypeOK, TypeOK', [Next]_vars, ~Restart, NEW new \in SUBSET Names,
         activeTx' \in Around \cup new \cup {None},
         \A i \in Insts : param'[i] \in Around \cup new \cup {None}
  PROVE  Selection!Circulates(new)
<1>1. poll'.value \in Around \cup new \cup {None}
  BY PollSource
<1>2. ASSUME NEW n \in Names, Pushing(n)' PROVE n \in Around \cup new
  <2>1. Pushing(n) \/ n = activeTx'
    BY <1>2, PushSource
  <2> QED BY <2>1, AroundFacts, ConstantFacts
<1>3. ASSUME NEW n \in Names, Late(n)' PROVE n \in Around
  BY <1>3, LateSource, AroundFacts
<1> QED BY <1>1, <1>2, <1>3, CirculatesIf

\* The steps that touch neither the registry, the selection nor a parameter.
Inner == \/ Tick
         \/ \E n \in Names, ep \in Endpoints, lag \in Lags : Refresh(n, ep, lag)
         \/ \E n \in Names, i \in Insts : PushFail(n, i)
         \/ PollWake \/ PollRead \/ PollReadFail \/ PollBreaks \/ PollSkip
         \/ TcStep \/ StatusStep
         \/ UNCHANGED vars

\* The acts that TxSelection counts.
Acts == [select |-> used["select"], write |-> used["write"],
         restart |-> used["restart"]]

\* In TxSelection a name gets lost at most.
LEMMA InnerIsFade ==
  ASSUME TypeOK, TypeOK', [Next]_vars, Inner
  PROVE  Selection!Fade
<1>1. activeTx' = activeTx /\ param' = param
  BY DEF Inner, Tick, Refresh, PushFail, PollWake, PollRead, PollReadFail, PollBreaks,
     PollSkip, TcStep, TcArrive, TcRoute, TcDrop, TcSend, TcSendError, StatusStep,
     StatusActive, StatusList, StatusReply, vars, stationVars, mirrorVars
<1>2. Acts' = Acts
  BY DEF Inner, Tick, Refresh, PushFail, PollWake, PollRead, PollReadFail, PollBreaks,
     PollSkip, TcStep, TcArrive, TcRoute, TcDrop, TcSend, TcSendError, StatusStep,
     StatusActive, StatusList, StatusReply, vars, Spend, TypeOK, Kinds, Acts
<1>3. ~Restart
  <2>1. used'["restart"] = used["restart"]
    BY <1>2 DEF Acts
  <2>2. used["restart"] \in Nat
    BY DEF TypeOK, Kinds
  <2> QED BY <2>1, <2>2 DEF Restart, Spend, TypeOK, Kinds
<1>4. Registered' = Registered
  <2>1. CASE Tick \/ \E n \in Names, ep \in Endpoints, lag \in Lags : Refresh(n, ep, lag)
    BY <2>1, TickKeeps, RefreshKeeps DEF SameRegistry
  <2>2. CASE station' = station
    BY <2>2, SameStation
  <2> QED
    BY <2>1, <2>2
    DEF Inner, PushFail, PollWake, PollRead, PollReadFail, PollBreaks,
        PollSkip, TcStep, TcArrive, TcRoute, TcDrop, TcSend, TcSendError, StatusStep,
        StatusActive, StatusList, StatusReply, vars, stationVars
<1>5. Selection!Circulates({})
  BY <1>1, <1>3, AroundFacts, StepCirculates
<1> QED BY <1>1, <1>2, <1>4, <1>5 DEF Selection!Fade, Acts

\* The operators' acts, and a restart, as they are counted.
LEMMA ActsCount ==
  ASSUME TypeOK
  PROVE  /\ Spend("select") => Acts' = [Acts EXCEPT !.select = @ + 1]
         /\ Spend("write") => Acts' = [Acts EXCEPT !.write = @ + 1]
         /\ Spend("restart") => Acts' = [Acts EXCEPT !.restart = @ + 1]
         /\ Spend("ioFail") \/ used' = used => Acts' = Acts
BY DEF TypeOK, Kinds, Spend, Acts

\* A restart is one of these acts, so no other step is a restart too.
LEMMA NoRestart ==
  ASSUME TypeOK, Acts' = Acts \/ Spend("select") \/ Spend("write")
  PROVE  ~Restart
<1>1. used["restart"] \in Nat /\ used \in [Kinds -> Nat]
  BY DEF TypeOK, Kinds
<1>2. used'["restart"] = used["restart"]
  BY <1>1 DEF Acts, Spend, Kinds
<1>3. Spend("restart") => used'["restart"] = used["restart"] + 1
  BY <1>1 DEF Spend, Kinds
<1> QED BY <1>1, <1>2, <1>3 DEF Restart

\* The transmit side implements TxSelection: whatever heartbeats, operators, push
\* threads and the poll thread do, a name that is nowhere any more comes back only when
\* an operator chooses it again or it is selected by default.
THEOREM ImplementsSelection == Spec => SelectionSpec
<1>1. Init => Selection!Init
  BY DEF Init, Selection!Init, Registered, Around, Idle, At, Kinds
<1>2. TypeOK /\ TypeOK' /\ [Next]_vars => [Selection!Next]_(Selection!selectionVars)
  <2> SUFFICES ASSUME TypeOK, TypeOK', [Next]_vars
               PROVE  Selection!Next
    OBVIOUS
  <2>0. /\ activeTx \in Around \cup {None}
        /\ \A i \in Insts : param[i] \in Around \cup {None}
        /\ param \in [Insts -> Names \cup {None}]
    BY AroundFacts DEF TypeOK
  <2>1. CASE Restart
    <3>1. Registered' = {} /\ activeTx' = None /\ param' = param
      BY <2>1, RestartEmpties
    <3>2. Selection!Circulates({})
      <4>1. poll'.value = None /\ \A n \in Names : ~Pushing(n)'
        BY <2>1, RestartEmpties DEF Idle, At, Pushing
      <4>2. \A n \in Names : Late(n)' => n \in Around
        BY <2>1, RestartEmpties, AroundFacts DEF Late
      <4> QED BY <2>0, <3>1, <4>1, <4>2, CirculatesIf
    <3>3. Acts' = [Acts EXCEPT !.restart = @ + 1]
      BY <2>1, ActsCount DEF Restart
    <3> QED BY <3>1, <3>2, <3>3 DEF Selection!Next, Selection!Restart, Acts
  <2>2. ASSUME NEW n \in Names, NEW ep \in Endpoints, NEW lag \in Lags,
               Register(n, ep, lag)
        PROVE  Selection!Join(n)
    <3>1. /\ n \notin Registered /\ Registered' = Registered \cup {n}
          /\ activeTx' = IF activeTx = None THEN n ELSE activeTx
          /\ param' = param /\ used' = used
      BY <2>2, RegisterAdds DEF Register, Registers, Registered
    <3>2. Acts' = Acts /\ ~Restart
      BY <3>1, ActsCount, NoRestart
    <3>3. Selection!Circulates(IF activeTx = None THEN {n} ELSE {})
      BY <2>0, <3>1, <3>2, StepCirculates
    <3> QED BY <3>1, <3>2, <3>3 DEF Selection!Join, Acts
  <2>3. ASSUME NEW n \in Names, SetActiveTx(n) PROVE Selection!Choose(n)
    <3>1. /\ n \in Registered /\ Registered' = Registered /\ activeTx' = n
          /\ param' = param /\ Spend("select")
      BY <2>3, SameStation DEF SetActiveTx
    <3>2. Acts' = [Acts EXCEPT !.select = @ + 1] /\ ~Restart
      BY <3>1, ActsCount, NoRestart
    <3>3. Selection!Circulates({n})
      BY <2>0, <3>1, <3>2, StepCirculates
    <3> QED BY <3>1, <3>2, <3>3 DEF Selection!Choose, Acts
  <2>4. ASSUME NEW i \in Insts, NEW n \in Names, YamcsWrite(i, n)
        PROVE  Selection!Write(i, n)
    <3>1. /\ Registered' = Registered /\ activeTx' = activeTx
          /\ param' = [param EXCEPT ![i] = n] /\ Spend("write")
      BY <2>4, SameStation DEF YamcsWrite, stationVars
    <3>2. Acts' = [Acts EXCEPT !.write = @ + 1] /\ ~Restart
      BY <3>1, ActsCount, NoRestart
    <3>3. \A j \in Insts : param'[j] \in Around \cup {n} \cup {None}
      BY <2>0, <3>1
    <3>4. Selection!Circulates({n})
      BY <2>0, <3>1, <3>2, <3>3, StepCirculates
    <3> QED BY <3>1, <3>2, <3>4 DEF Selection!Write, Acts
  <2>5. ASSUME NEW n \in Names, NEW i \in Insts,
               PushPut(n, i) \/ PushBreaks(n, i) \/ LatePut(n, i)
        PROVE  Selection!Spread(i, n) \/ Selection!Fade
    <3>1. /\ Registered' = Registered /\ activeTx' = activeTx
          /\ Pushing(n) \/ Late(n)
          /\ param' = param \/ param' = [param EXCEPT ![i] = n]
          /\ used' = used \/ Spend("ioFail")
      BY <2>5, SameStation DEF PushPut, PushBreaks, LatePut, stationVars, Pushing, Late
    <3>2. Acts' = Acts /\ ~Restart /\ n \in Around
      BY <3>1, ActsCount, NoRestart, AroundFacts
    <3>3. \A j \in Insts : param'[j] \in Around \cup {None}
      BY <2>0, <3>1, <3>2
    <3>4. Selection!Circulates({})
      BY <2>0, <3>1, <3>2, <3>3, StepCirculates
    <3> QED BY <3>1, <3>2, <3>4 DEF Selection!Spread, Selection!Fade, Acts
  <2>6. CASE PollAdopt
    <3>1. /\ Registered' = Registered /\ activeTx' = poll.value /\ param' = param
          /\ poll.value \in Registered /\ poll.value # None /\ used' = used
      BY <2>6, SameStation DEF PollAdopt
    <3>2. Acts' = Acts /\ ~Restart /\ poll.value \in Around
      BY <3>1, ActsCount, NoRestart, AroundFacts
    <3>3. Selection!Circulates({})
      BY <2>0, <3>1, <3>2, StepCirculates
    <3>4. Selection!Adopt(poll.value) /\ poll.value \in Names
      BY <3>1, <3>2, <3>3 DEF Selection!Adopt, Acts, Registered
    <3> QED BY <3>4 DEF Selection!Next
  <2>7. CASE Inner
    BY <2>7, InnerIsFade DEF Selection!Next
  <2>8. \/ Inner \/ Restart \/ PollAdopt
        \/ \E n \in Names, ep \in Endpoints, lag \in Lags : Register(n, ep, lag)
        \/ \E n \in Names : SetActiveTx(n)
        \/ \E i \in Insts, n \in Names : YamcsWrite(i, n)
        \/ \E n \in Names, i \in Insts :
             PushPut(n, i) \/ PushBreaks(n, i) \/ LatePut(n, i)
    BY DEF Next, HeartbeatStep, Heartbeat, OperatorStep, PushStep, PollStep, Inner
  <2> QED
    BY <2>1, <2>2, <2>3, <2>4, <2>5, <2>6, <2>7, <2>8 DEF Selection!Next
<1> QED
  BY <1>1, <1>2, TypeCorrect, PTL DEF Spec, SelectionSpec, Selection!Spec
=============================================================================
