--------------------------- MODULE RadioSync_proofs ---------------------------
(***************************************************************************)
(* Proofs about RadioSync, for any radio types, settings and numbers of    *)
(* writes, and any number of requests, failures and restarts: what a       *)
(* client reports is true of its board, settings stay with their type, and *)
(* the gateway forgets a request for a true report, an error or a report   *)
(* that comes late.                                                        *)
(***************************************************************************)
EXTENDS RadioSync, TLAPS

-----------------------------------------------------------------------------
\* The facts about the constants that the proofs below use, by themselves.
LEMMA ConstantFacts ==
  /\ TypeOf \in [Settings -> Types]
  /\ Writes \in [Types -> Nat \ {0}]
  /\ Empty \notin Settings /\ None \notin Settings /\ Empty # None
  /\ None \notin Types
BY RadioSyncAssumption DEF RadioSyncAssumption

\* Spending one event of a kind leaves every count a natural number.
LEMMA SpendType ==
  ASSUME used \in [Kinds -> Nat], NEW kind \in Kinds, Spend(kind)
  PROVE  used' \in [Kinds -> Nat]
  BY DEF Spend

\* Reports are counted as late only from the thread's hands.
LEMMA LateType ==
  ASSUME late \in [Report -> Nat], hb.pc = "sent" => hb.req \in Report, GiveUp
  PROVE  late' \in [Report -> Nat]
  BY DEF GiveUp

\* The shape of the heartbeat thread, and its state between two heartbeats.
Hb == [pc : {"sleep", "sent", "handled", "replied", "write", "dead"},
       req : Report \cup {None}, body : Settings \cup {Empty, None}, n : Nat]

\* Asleep and dead threads have that shape.
LEMMA AsleepType == /\ Asleep \in Hb /\ Asleep.pc = "sleep" /\ Asleep.n = 0
                    /\ Dead \in Hb /\ Dead.pc = "dead" /\ Dead.n = 0
  BY DEF Asleep, Dead, Hb

(***************************************************************************)
(* TypeOK is not inductive: what the gateway stores and what the client    *)
(* ends with come from the request and the body in the thread's hands.     *)
(***************************************************************************)

InHand ==
  /\ hb.pc \in {"sent", "handled"} =>
       /\ hb.req \in Report
       /\ hb.req.type = cType /\ hb.req.applied = applied /\ hb.req.error = cError
  /\ hb.pc = "replied" => hb.body \in Settings \cup {Empty}
  /\ hb.pc = "write" => hb.body \in Settings

\* Only the heartbeat thread's own steps and restarts of the client change what
\* the thread has in hand.
LEMMA SameInHand ==
  ASSUME InHand, UNCHANGED <<cType, applied, cError, hb>>
  PROVE  InHand'
  BY DEF InHand

\* Types and what is in hand hold initially.
LEMMA TypeInit == ASSUME Init PROVE TypeOK /\ InHand
  BY ConstantFacts, AsleepType DEF Init, TypeOK, InHand, Factory, Hb, Asleep

\* Every step keeps them.
LEMMA TypeNext ==
  ASSUME TypeOK, InHand, [Next]_vars
  PROVE  TypeOK' /\ InHand'
<1> USE DEF vars, clientVars, board, station
<1>1. CASE SendHeartbeat
  <2>1. /\ hb'.req = [type |-> cType, applied |-> applied, error |-> cError]
        /\ hb'.pc = "sent" /\ hb'.req \in Report
    BY <1>1 DEF SendHeartbeat, TypeOK, Report
  <2>2. hb' \in Hb
    BY <1>1, <2>1 DEF SendHeartbeat, TypeOK, Hb
  <2>3. InHand'
    BY <1>1, <2>1 DEF SendHeartbeat, InHand
  <2> QED
    BY <1>1, <2>2, <2>3 DEF SendHeartbeat, TypeOK, Hb
<1>2. CASE HandleHeartbeat
  <2>1. /\ hb' \in Hb /\ hb'.pc = "handled" /\ hb'.req = hb.req
        /\ hb.req \in Report
    BY <1>2 DEF HandleHeartbeat, TypeOK, InHand, Hb
  <2>2. /\ gType' \in Types \cup {None} /\ gApplied' \in Settings \cup {Empty}
        /\ gError' \in BOOLEAN
    BY <1>2, <2>1 DEF HandleHeartbeat, UpdateRadio, Report
  <2>3. gDesired' \in Settings \cup {None} /\ wanted' \in Settings \cup {None}
    BY <1>2 DEF HandleHeartbeat, UpdateRadio, TypeOK
  <2>4. InHand'
    BY <1>2, <2>1 DEF HandleHeartbeat, InHand
  <2> QED
    BY <1>2, <2>1, <2>2, <2>3, <2>4 DEF HandleHeartbeat, TypeOK, Hb
<1>3. CASE RejectHeartbeat \/ IgnoreReply
  BY <1>3, AsleepType DEF RejectHeartbeat, IgnoreReply, TypeOK, InHand, Hb
<1>4. CASE ReplyHeartbeat
  <2>1. hb' \in Hb /\ hb'.pc = "replied" /\ hb'.body \in Settings \cup {Empty}
    BY <1>4 DEF ReplyHeartbeat, TypeOK, Hb
  <2> QED
    BY <1>4, <2>1 DEF ReplyHeartbeat, TypeOK, InHand, Hb
<1>5. CASE StartApply
  <2>1. hb' \in Hb /\ hb'.pc = "write" /\ hb'.body \in Settings
    BY <1>5 DEF StartApply, TypeOK, InHand, Hb
  <2> QED
    BY <1>5, <2>1 DEF StartApply, TypeOK, InHand, Hb
<1>6. CASE WriteFrame
  <2>1. hb.body \in Settings
    BY <1>6 DEF WriteFrame, InHand
  <2>2. hb' \in Hb /\ hb'.pc = "write" /\ hb'.body = hb.body
    BY <1>6 DEF WriteFrame, TypeOK, Hb
  <2>3. stored' \in [Params -> Settings \cup {None}]
    BY <1>6, <2>1 DEF WriteFrame, TypeOK
  <2>4. running' \in [Params -> Settings \cup {None}]
    BY <1>6, <2>3 DEF WriteFrame, TypeOK
  <2> QED
    BY <1>6, <2>1, <2>2, <2>3, <2>4 DEF WriteFrame, TypeOK, InHand, Hb
<1>7. CASE FinishApply
  BY <1>7, AsleepType DEF FinishApply, TypeOK, InHand, Hb
<1>8. ASSUME NEW s \in Settings, SetRadioSettings(s) PROVE TypeOK' /\ InHand'
  <2>1. used' \in [Kinds -> Nat]
    BY <1>8, SpendType DEF SetRadioSettings, Kinds, TypeOK
  <2>2. InHand'
    BY <1>8, SameInHand DEF SetRadioSettings
  <2> QED
    BY <1>8, <2>1, <2>2 DEF SetRadioSettings, TypeOK
<1>9. CASE HeartbeatFails
  <2>1. used' \in [Kinds -> Nat]
    BY <1>9, SpendType DEF HeartbeatFails, Kinds, TypeOK
  <2>2. late' \in [Report -> Nat]
    BY <1>9, LateType DEF HeartbeatFails, TypeOK, InHand
  <2> QED
    BY <1>9, <2>1, <2>2, AsleepType DEF HeartbeatFails, TypeOK, InHand, Hb
<1>10. CASE WriteError
  <2>1. used' \in [Kinds -> Nat]
    BY <1>10, SpendType DEF WriteError, Kinds, TypeOK
  <2> QED
    BY <1>10, <2>1, AsleepType DEF WriteError, TypeOK, InHand, Hb
<1>11. ASSUME NEW t \in Types, ClientRestart(t) PROVE TypeOK' /\ InHand'
  <2>1. used' \in [Kinds -> Nat]
    BY <1>11, SpendType DEF ClientRestart, Kinds, TypeOK
  <2>2. /\ stored' \in [Params -> Settings \cup {None}]
        /\ running' \in [Params -> Settings \cup {None}]
    BY <1>11 DEF ClientRestart, Factory, TypeOK
  <2>3. late' \in [Report -> Nat]
    BY <1>11, LateType DEF ClientRestart, TypeOK, InHand
  <2> QED
    BY <1>11, <2>1, <2>2, <2>3, AsleepType DEF ClientRestart, TypeOK, InHand, Hb
<1>12. CASE GatewayRestart
  <2>1. used' \in [Kinds -> Nat]
    BY <1>12, SpendType DEF GatewayRestart, Kinds, TypeOK
  <2>2. hb' = Asleep \/ hb' = Dead \/ hb' = hb
    BY <1>12 DEF GatewayRestart
  <2>3. hb' \in Hb /\ InHand'
    BY <1>12, <2>2, AsleepType DEF GatewayRestart, TypeOK, InHand, Hb
  <2> QED
    BY <1>12, <2>1, <2>3 DEF GatewayRestart, TypeOK, Hb
<1>13. ASSUME NEW r \in Report, LateHeartbeat(r) PROVE TypeOK' /\ InHand'
  <2>1. /\ gType' \in Types \cup {None} /\ gApplied' \in Settings \cup {Empty}
        /\ gError' \in BOOLEAN
    BY <1>13 DEF LateHeartbeat, UpdateRadio, Report
  <2>2. gDesired' \in Settings \cup {None} /\ wanted' \in Settings \cup {None}
    BY <1>13 DEF LateHeartbeat, UpdateRadio, TypeOK
  <2>3. late' \in [Report -> Nat]
    BY <1>13 DEF LateHeartbeat, TypeOK
  <2>4. InHand'
    BY <1>13, SameInHand DEF LateHeartbeat
  <2> QED
    BY <1>13, <2>1, <2>2, <2>3, <2>4 DEF LateHeartbeat, TypeOK
<1>14. CASE UNCHANGED vars
  BY <1>14 DEF TypeOK, InHand
<1> QED
  BY <1>1, <1>2, <1>3, <1>4, <1>5, <1>6, <1>7, <1>8, <1>9, <1>10, <1>11, <1>12, <1>13,
     <1>14
     DEF Next, Exchange

\* Type correctness: requests, reports and settings stay what they are declared to be
\* on both sides of the exchange, and in the board.
THEOREM TypeCorrect == Spec => []TypeOK
<1>1. Init => TypeOK /\ InHand
  BY TypeInit
<1>2. TypeOK /\ InHand /\ [Next]_vars => TypeOK' /\ InHand'
  BY TypeNext
<1> QED
  BY <1>1, <1>2, PTL DEF Spec

-----------------------------------------------------------------------------
(***************************************************************************)
(* Settings and radio types.  The settings of a reply are of the client's  *)
(* type because the gateway pins the type with the first report and checks *)
(* requests and later reports against it, and because the client reports   *)
(* its own settings with its own type, also in a report that comes late.   *)
(***************************************************************************)

\* The settings of a report are of its type.
OwnReport(r) == r.applied # Empty => TypeOf[r.applied] = r.type

OwnTypes ==
  /\ gApplied # Empty => TypeOf[gApplied] = gType
  /\ applied # Empty => TypeOf[applied] = cType
  /\ hb.pc = "handled" => gType = cType
  /\ \A r \in Report : late[r] > 0 => OwnReport(r)

OwnInv == OnlyOwnSettings /\ OwnTypes

\* What the client reports is its own, so what it gives up on is.
LEMMA OwnLate ==
  ASSUME TypeOK, InHand, OwnTypes, GiveUp
  PROVE  \A r \in Report : late'[r] > 0 => OwnReport(r)
<1>1. CASE hb.pc = "sent"
  <2>1. hb.req \in Report /\ OwnReport(hb.req)
    BY <1>1 DEF InHand, OwnTypes, OwnReport
  <2>2. \A r \in Report : r # hb.req => late'[r] = late[r]
    BY <1>1 DEF GiveUp, TypeOK
  <2> QED
    BY <2>1, <2>2 DEF OwnTypes
<1> QED
  BY <1>1 DEF GiveUp, OwnTypes

\* The invariant holds initially and every step keeps it.
LEMMA OwnInvariant ==
  /\ Init => OwnInv
  /\ TypeOK /\ InHand /\ OwnInv /\ [Next]_vars => OwnInv'
<1> USE DEF OwnInv, OnlyOwnSettings, OwnTypes, vars, clientVars, board, station
<1>1. Init => OwnInv
  BY DEF Init, Asleep
<1>2. ASSUME TypeOK, InHand, OwnInv, [Next]_vars PROVE OwnInv'
  <2>0. /\ Asleep.pc = "sleep" /\ Dead.pc = "dead" /\ None \notin Types
        /\ \A s \in Settings : s # None /\ s # Empty /\ TypeOf[s] \in Types
    BY ConstantFacts, AsleepType
  <2>1. CASE SendHeartbeat
    <3>1. hb'.pc = "sent"
      BY <1>2, <2>1 DEF SendHeartbeat, TypeOK
    <3> QED
      BY <1>2, <2>1, <3>1 DEF SendHeartbeat
  <2>2. CASE HandleHeartbeat
    <3>1. /\ hb'.pc = "handled" /\ gType' = cType /\ gApplied' = applied
      BY <1>2, <2>2 DEF HandleHeartbeat, UpdateRadio, TypeOK, InHand
    <3>2. gDesired' # None => gDesired' = gDesired /\ gDesired \in Settings
      BY <1>2, <2>2 DEF HandleHeartbeat, UpdateRadio, TypeOK
    <3>3. gDesired' # None => gType = cType
      BY <1>2, <2>0, <2>2, <3>2 DEF HandleHeartbeat, UpdateRadio, InHand
    <3> QED
      BY <1>2, <2>2, <3>1, <3>2, <3>3 DEF HandleHeartbeat
  <2>3. CASE RejectHeartbeat \/ IgnoreReply \/ WriteError
    BY <1>2, <2>0, <2>3 DEF RejectHeartbeat, IgnoreReply, WriteError
  <2>4. CASE ReplyHeartbeat
    <3>1. /\ hb'.pc = "replied" /\ gType = cType
          /\ hb'.body = IF gDesired # None THEN gDesired ELSE gApplied
      BY <1>2, <2>4 DEF ReplyHeartbeat, TypeOK
    <3> QED
      BY <1>2, <2>4, <3>1 DEF ReplyHeartbeat
  <2>5. CASE StartApply \/ WriteFrame
    <3>1. hb'.pc = "write" /\ hb'.body = hb.body
      BY <1>2, <2>5 DEF StartApply, WriteFrame, TypeOK
    <3> QED
      BY <1>2, <2>5, <3>1 DEF StartApply, WriteFrame
  <2>6. CASE FinishApply
    BY <1>2, <2>0, <2>6 DEF FinishApply
  <2>7. ASSUME NEW s \in Settings, SetRadioSettings(s) PROVE OwnInv'
    BY <1>2, <2>7 DEF SetRadioSettings
  <2>8. ASSUME NEW t \in Types, ClientRestart(t) PROVE OwnInv'
    BY <1>2, <2>0, <2>8, OwnLate DEF ClientRestart
  <2>9. CASE GatewayRestart
    BY <1>2, <2>0, <2>9 DEF GatewayRestart
  <2>10. CASE HeartbeatFails
    BY <1>2, <2>0, <2>10, OwnLate DEF HeartbeatFails
  <2>11. ASSUME NEW r \in Report, LateHeartbeat(r) PROVE OwnInv'
    <3>1. OwnReport(r)
      BY <1>2, <2>11 DEF LateHeartbeat
    <3>2. gType' = r.type /\ gApplied' = r.applied /\ r.type # None
      BY <2>0, <2>11 DEF LateHeartbeat, UpdateRadio, Report
    <3>3. gApplied' # Empty => TypeOf[gApplied'] = gType'
      BY <3>1, <3>2 DEF OwnReport
    \* The type was pinned already when a request is queued or a reply is due.
    <3>4. gType # None => gType' = gType
      BY <2>11 DEF LateHeartbeat, UpdateRadio
    <3>5. gDesired' # None => TypeOf[gDesired'] = gType'
      <4> SUFFICES ASSUME gDesired' # None PROVE TypeOf[gDesired'] = gType'
        OBVIOUS
      <4>1. gDesired' = gDesired /\ gDesired \in Settings
        BY <1>2, <2>11 DEF LateHeartbeat, UpdateRadio, TypeOK
      <4>2. TypeOf[gDesired] = gType /\ gType # None
        BY <1>2, <2>0, <4>1
      <4> QED
        BY <3>4, <4>1, <4>2
    <3>6. hb.pc = "handled" => gType' = cType
      BY <1>2, <2>0, <3>4 DEF TypeOK
    <3>7. \A q \in Report : late'[q] > 0 => late[q] > 0
      BY <1>2, <2>11 DEF LateHeartbeat, TypeOK
    <3> QED
      BY <1>2, <2>11, <3>3, <3>5, <3>6, <3>7 DEF LateHeartbeat
  <2>12. CASE UNCHANGED vars
    BY <1>2, <2>12
  <2> QED
    BY <1>2, <2>1, <2>2, <2>3, <2>4, <2>5, <2>6, <2>7, <2>8, <2>9, <2>10, <2>11, <2>12
       DEF Next, Exchange
<1> QED
  BY <1>1, <1>2

\* Across restarts, reconfigured clients and lost exchanges no client is handed, and
\* no request is kept for, settings of another radio type.
THEOREM SettingsStayOwn == Spec => []OnlyOwnSettings
<1>1. Init => TypeOK /\ InHand /\ OwnInv
  BY TypeInit, OwnInvariant
<1>2. TypeOK /\ InHand /\ OwnInv /\ [Next]_vars => TypeOK' /\ InHand' /\ OwnInv'
  BY TypeNext, OwnInvariant
<1>3. OwnInv => OnlyOwnSettings
  BY DEF OwnInv
<1> QED
  BY <1>1, <1>2, <1>3, PTL DEF Spec

-----------------------------------------------------------------------------
(***************************************************************************)
(* The board.  While settings are being written, the parameters written so *)
(* far are stored from them, and the last write programs all of them.      *)
(***************************************************************************)

Progress ==
  /\ hb.pc # "write" => hb.n = 0
  /\ hb.pc = "write" =>
       /\ hb.n <= Writes[cType]
       /\ \A k \in 1..hb.n : stored[k] = hb.body
       /\ hb.n = Writes[cType] => \A k \in 1..hb.n : running[k] = hb.body

BoardInv == AppliedIsRunning /\ Progress

\* The parameters of one radio type are among all parameters.
LEMMA ParamsOf ==
  ASSUME NEW t \in Types
  PROVE  1..Writes[t] \subseteq Params /\ Writes[t] \in Nat /\ Writes[t] > 0
  BY ConstantFacts DEF Params

\* A write advances the parameters by one; the last one programs the radio.
LEMMA WriteProgress ==
  ASSUME TypeOK, Progress, WriteFrame
  PROVE  Progress'
<1>1. /\ hb'.pc = "write" /\ hb'.n = hb.n + 1 /\ hb'.body = hb.body
      /\ hb.pc = "write" /\ hb.n \in Nat /\ cType' = cType
  BY DEF WriteFrame, TypeOK
<1>2. hb.n + 1 \in 1..Writes[cType] /\ Writes[cType] \in Nat
  BY <1>1, ParamsOf DEF WriteFrame, TypeOK
<1>3. hb.n + 1 \in Params
  BY <1>2, ParamsOf DEF TypeOK
<1>4. stored' = [stored EXCEPT ![hb.n + 1] = hb.body]
  BY DEF WriteFrame, NextParam
<1>5. /\ stored'[hb.n + 1] = hb.body
      /\ \A k \in Params : k # hb.n + 1 => stored'[k] = stored[k]
  BY <1>3, <1>4 DEF TypeOK
<1>6. \A k \in 1..hb.n : k \in Params /\ k # hb.n + 1
  BY <1>1, <1>2, ParamsOf DEF TypeOK
<1>7. \A k \in 1..hb'.n : stored'[k] = hb'.body
  BY <1>1, <1>5, <1>6 DEF Progress
<1>8. hb'.n = Writes[cType] => running' = stored'
  BY <1>1 DEF WriteFrame, ProgramsRadio, NextParam
<1> QED
  BY <1>1, <1>2, <1>7, <1>8 DEF Progress

\* The invariant holds initially and every step keeps it.
LEMMA BoardInvariant ==
  /\ Init => BoardInv
  /\ TypeOK /\ InHand /\ OwnInv /\ BoardInv /\ [Next]_vars => BoardInv'
<1> USE DEF BoardInv, vars, clientVars, board, station
<1>1. Init => BoardInv
  BY AsleepType DEF Init, AppliedIsRunning, Progress
<1>2. ASSUME TypeOK, InHand, OwnInv, BoardInv, [Next]_vars PROVE BoardInv'
  <2>0. Asleep.pc = "sleep" /\ Asleep.n = 0 /\ Dead.pc = "dead" /\ Dead.n = 0
    BY AsleepType
  \* A step of the thread outside the writes.
  <2>1. ASSUME UNCHANGED <<cType, applied, cError, board>>, hb.pc # "write",
               hb'.pc # "write", hb'.n = 0
        PROVE  BoardInv'
    BY <1>2, <2>1 DEF AppliedIsRunning, Progress, Runs
  <2>2. CASE SendHeartbeat \/ HandleHeartbeat \/ ReplyHeartbeat
    <3>1. hb.pc # "write" /\ hb'.pc # "write" /\ hb'.n = hb.n
      BY <1>2, <2>2 DEF SendHeartbeat, HandleHeartbeat, ReplyHeartbeat, TypeOK
    <3> QED
      BY <1>2, <2>1, <2>2, <3>1 DEF SendHeartbeat, HandleHeartbeat, ReplyHeartbeat, Progress
  <2>3. CASE RejectHeartbeat \/ IgnoreReply \/ HeartbeatFails
    BY <2>0, <2>1, <2>3 DEF RejectHeartbeat, IgnoreReply, HeartbeatFails
  <2>4. CASE StartApply
    <3>1. hb'.pc = "write" /\ hb'.n = 0 /\ cType' = cType
      BY <1>2, <2>4 DEF StartApply, TypeOK, Progress
    <3>2. Writes[cType] \in Nat /\ Writes[cType] > 0
      BY <1>2, ParamsOf DEF TypeOK
    <3> QED
      BY <3>1, <3>2 DEF AppliedIsRunning, Progress
  <2>5. CASE WriteFrame
    <3>1. Progress' /\ hb'.pc = "write"
      BY <1>2, <2>5, WriteProgress DEF WriteFrame, TypeOK
    <3> QED
      BY <3>1 DEF AppliedIsRunning
  <2>6. CASE FinishApply
    <3>1. \A k \in 1..Writes[cType] : running[k] = hb.body
      BY <1>2, <2>6 DEF FinishApply, Progress
    <3>2. TypeOf[hb.body] = cType
      BY <1>2, <2>6, ConstantFacts DEF FinishApply, InHand, OwnInv, OnlyOwnSettings
    <3> QED
      BY <2>0, <2>6, <3>1, <3>2 DEF FinishApply, AppliedIsRunning, Progress, Runs
  <2>7. CASE WriteError
    BY <2>0, <2>7 DEF WriteError, AppliedIsRunning, Progress
  <2>8. ASSUME NEW s \in Settings, SetRadioSettings(s) PROVE BoardInv'
    BY <1>2, <2>8 DEF SetRadioSettings, AppliedIsRunning, Progress, Runs
  <2>9. ASSUME NEW t \in Types, ClientRestart(t) PROVE BoardInv'
    BY <2>0, <2>9 DEF ClientRestart, AppliedIsRunning, Progress
  <2>10. CASE GatewayRestart
    <3>1. CASE hb.pc # "write"
      BY <1>2, <2>0, <2>1, <2>10, <3>1 DEF GatewayRestart, Progress
    <3>2. CASE hb.pc = "write"
      BY <1>2, <2>10, <3>2 DEF GatewayRestart, AppliedIsRunning, Progress
    <3> QED
      BY <3>1, <3>2
  <2>11. CASE UNCHANGED vars \/ \E r \in Report : LateHeartbeat(r)
    <3>1. UNCHANGED <<clientVars, board>>
      BY <2>11 DEF LateHeartbeat
    <3> QED
      BY <1>2, <3>1 DEF AppliedIsRunning, Progress, Runs
  <2> QED
    BY <1>2, <2>2, <2>3, <2>4, <2>5, <2>6, <2>7, <2>8, <2>9, <2>10, <2>11 DEF Next, Exchange
<1> QED
  BY <1>1, <1>2

\* However many writes were cut short before, a client that reports settings without
\* an error does so of a radio that uses every one of them.
THEOREM ReportsAreTrue == Spec => []AppliedIsRunning
<1>1. Init => TypeOK /\ InHand /\ OwnInv /\ BoardInv
  BY TypeInit, OwnInvariant, BoardInvariant
<1>2. TypeOK /\ InHand /\ OwnInv /\ BoardInv /\ [Next]_vars
        => TypeOK' /\ InHand' /\ OwnInv' /\ BoardInv'
  BY TypeNext, OwnInvariant, BoardInvariant
<1>3. BoardInv => AppliedIsRunning
  BY DEF BoardInv
<1> QED
  BY <1>1, <1>2, <1>3, PTL DEF Spec

\* The gateway forgets a request only for a report of a client whose radio uses it,
\* for one that carries an error, or for one that the client has given up on.
THEOREM ForgottenForAReason == Spec => ForgetsWithCause
<1>1. Init => TypeOK /\ InHand /\ OwnInv /\ BoardInv
  BY TypeInit, OwnInvariant, BoardInvariant
<1>2. TypeOK /\ InHand /\ OwnInv /\ BoardInv /\ [Next]_vars
        => TypeOK' /\ InHand' /\ OwnInv' /\ BoardInv'
  BY TypeNext, OwnInvariant, BoardInvariant
<1>3. TypeOK /\ InHand /\ BoardInv /\ [Next]_vars
        => (Forgets => Runs(gDesired) \/ gError' \/ \E r \in Report : LateHeartbeat(r))
  <2> SUFFICES ASSUME TypeOK, InHand, BoardInv, [Next]_vars, Forgets,
                      ~ \E r \in Report : LateHeartbeat(r)
               PROVE  Runs(gDesired) \/ gError'
    OBVIOUS
  <2>1. ~GatewayRestart
    BY DEF GatewayRestart, Spend, Forgets, TypeOK, Kinds
  <2>2. HandleHeartbeat
    BY <2>1, ConstantFacts
    DEF Forgets, Next, Exchange, SendHeartbeat, RejectHeartbeat, ReplyHeartbeat,
        IgnoreReply, StartApply, WriteFrame, FinishApply, SetRadioSettings, HeartbeatFails, WriteError,
        ClientRestart, vars, station
  <2>3. gDesired = applied /\ gError' = cError /\ hb.pc # "write"
    BY <2>2 DEF HandleHeartbeat, UpdateRadio, Forgets, InHand
  <2>4. applied # Empty
    BY <2>3, ConstantFacts DEF Forgets, TypeOK
  <2> QED
    BY <2>3, <2>4 DEF BoardInv, AppliedIsRunning
<1> QED
  BY <1>1, <1>2, <1>3, PTL DEF Spec, ForgetsWithCause
=============================================================================
