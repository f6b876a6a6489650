------------------------------ MODULE GatewayTx ------------------------------
(***************************************************************************)
(* The transmit side of server/src/proves_yamcs/gateway.py: the station    *)
(* registry kept by heartbeats, the one active TX station, its mirror in   *)
(* the Yamcs local parameter of every instance (daemon push threads one    *)
(* way, a poll thread the other), the UDP thread that forwards             *)
(* telecommands, and the two-step status snapshot of the HTTP API.         *)
(*                                                                         *)
(* A step is a block executed under Gateway._lock, or one network exchange *)
(* made outside of it.  The clock appears as ages: station[n].age is       *)
(* monotonic() - last_seen, capped just above stale_after, the only value  *)
(* it is ever compared with.                                               *)
(***************************************************************************)
EXTENDS Naturals

CONSTANTS
  Names,       \* station names: those that heartbeat and those typed in Yamcs
  Endpoints,   \* (tc_host, tc_port) pairs a station may advertise
  NumInst,     \* number of Yamcs instances, visited in manifest order
  StaleAfter,  \* --stale-after, in ticks
  Lags,        \* ticks a handler may wait for the lock after reading the clock
  SlowPush,    \* may a push to the instances outlast the 2 s poll interval?
  MaxPush,     \* bound: push threads of one name at one instance
  Limit,       \* bound: how many events of each kind the environment makes
  None         \* Python's None

\* What the environment may do only Limit[kind] times in a behaviour.
Kinds == {"select", "write", "restart", "ioFail", "tc", "status"}

Insts == 1..NumInst

ASSUME GatewayTxAssumption ==
  /\ NumInst \in Nat \ {0}
  /\ StaleAfter \in Nat
  /\ Lags \subseteq 0..StaleAfter
  /\ SlowPush \in BOOLEAN
  /\ MaxPush \in Nat
  /\ Limit \in [Kinds -> Nat]
  /\ None \notin Names
  /\ None \notin [name : Names, ep : Endpoints]
  /\ None \notin [ep : Endpoints, age : 0..(StaleAfter + 1)]

VARIABLES
  station,   \* Gateway._stations: name -> [ep, age], None if never heard
  activeTx,  \* Gateway._active_tx
  param,     \* /Ground/ActiveTxStation in each Yamcs instance (persisted there)
  pushing,   \* push threads: pushing[n][i] threads are about to PUT n to i
  late,      \* late[n][i]: PUTs of n given up after 5 s that Yamcs i may still apply
  poll,      \* poll thread: alive?, at which instance (0 asleep), value read or None
  tcAlive,   \* is the thread of the TC _udp_loop still running?
  tcWaiting, \* datagrams waiting in the TC socket
  tc,        \* destination copied under the lock and not yet sent to, or None
  tcCount,   \* [forwarded, dropped]: the counters tc_forwarded and tc_dropped
  snap,      \* the latest Gateway.status() call, see StatusActive
  used,      \* how much of Limit has been used
  chosen     \* history: names ever selected by an operator or by default

stationVars == <<station, activeTx>>
mirrorVars  == <<param, pushing, late, poll>>
tcVars      == <<tcAlive, tcWaiting, tc, tcCount>>
vars == <<stationVars, mirrorVars, tcVars, snap, used, chosen>>

MaxAge == StaleAfter + 1
Ages == 0..MaxAge
Station == [ep : Endpoints, age : Ages]
Registered == {n \in Names : station[n] # None}
At(i) == [alive |-> TRUE, at |-> i, value |-> None]
Idle == At(0)

\* time.monotonic() - station.last_seen <= self.stale_after
Online(n) == station[n].age <= StaleAfter

Spend(kind) ==
  /\ used[kind] < Limit[kind]
  /\ used' = [used EXCEPT ![kind] = @ + 1]

-----------------------------------------------------------------------------
\* Push threads.  Threads that push the same name and have reached the same
\* instance are interchangeable, so they are counted.

PushRunning == \E n \in Names, i \in Insts : pushing[n][i] > 0

\* No thread is started for n beyond the bound MaxPush; those of other names may run.
MayPush(n) == \A i \in Insts : pushing[n][i] < MaxPush

\* _push_active_tx_unlocked: a new thread, about to PUT to the first instance.
StartPush(n) ==
  /\ MayPush(n)
  /\ pushing' = [pushing EXCEPT ![n][1] = @ + 1]

\* The thread moves on to the next instance, or ends after the last.
AdvancePush(n, i) ==
  pushing' = [pushing EXCEPT ![n] =
                [j \in Insts |-> IF j = i THEN @[j] - 1
                                 ELSE IF j = i + 1 THEN @[j] + 1 ELSE @[j]]]

\* _set_yamcs_active_tx: one PUT that Yamcs answers.
PushPut(n, i) ==
  /\ pushing[n][i] > 0
  /\ param' = [param EXCEPT ![i] = n]
  /\ AdvancePush(n, i)
  /\ UNCHANGED <<stationVars, late, poll, tcVars, snap, used, chosen>>

\* One PUT that raises OSError or URLError: logged, not retried.  Where it is a
\* timeout Yamcs may have the request and apply it at any time from now on.
PushFail(n, i) ==
  /\ pushing[n][i] > 0
  /\ Spend("ioFail")
  /\ AdvancePush(n, i)
  /\ late' \in {late, [late EXCEPT ![n][i] = @ + 1]}
  /\ UNCHANGED <<stationVars, param, poll, tcVars, snap, chosen>>

\* An answer that breaks off raises HTTPException, which is neither: the thread ends
\* before the remaining instances.  Yamcs may have set the parameter.
PushBreaks(n, i) ==
  /\ pushing[n][i] > 0
  /\ Spend("ioFail")
  /\ pushing' = [pushing EXCEPT ![n][i] = @ - 1]
  /\ param' \in {param, [param EXCEPT ![i] = n]}
  /\ UNCHANGED <<stationVars, late, poll, tcVars, snap, chosen>>

\* Yamcs applies a PUT that its sender gave up, even after a restart of the gateway.
LatePut(n, i) ==
  /\ late[n][i] > 0
  /\ param' = [param EXCEPT ![i] = n]
  /\ late' = [late EXCEPT ![n][i] = @ - 1]
  /\ UNCHANGED <<stationVars, pushing, poll, tcVars, snap, used, chosen>>

-----------------------------------------------------------------------------
\* Station registry.

Tick ==
  /\ station' = [n \in Names |->
       IF station[n] # None /\ station[n].age < MaxAge
       THEN [station[n] EXCEPT !.age = @ + 1] ELSE station[n]]
  /\ UNCHANGED <<activeTx, mirrorVars, tcVars, snap, used, chosen>>

\* Mutant: the newest station is always selected.
MutRegister(n, ep, lag) ==
  /\ station[n] = None
  /\ station' = [station EXCEPT ![n] = [ep |-> ep, age |-> lag]]
  /\ activeTx' = n
  /\ StartPush(n)
  /\ chosen' = IF activeTx = None THEN chosen \cup {n} ELSE chosen
  /\ UNCHANGED <<param, late, poll, tcVars, snap, used>>

\* A first heartbeat registers the station, and selects it if none is selected.
Register(n, ep, lag) ==
  /\ station[n] = None
  /\ station' = [station EXCEPT ![n] = [ep |-> ep, age |-> lag]]
  /\ IF activeTx = None
       THEN /\ activeTx' = n
            /\ StartPush(n)
            /\ chosen' = chosen \cup {n}
       ELSE UNCHANGED <<activeTx, pushing, chosen>>
  /\ UNCHANGED <<param, late, poll, tcVars, snap, used>>

\* Mutant: a heartbeat takes the selection over from a station that is offline.
MutRefresh(n, ep, lag) ==
  /\ station[n] # None
  /\ station' = [station EXCEPT ![n] = [ep |-> ep, age |-> lag]]
  /\ IF ~Online(activeTx)
       THEN activeTx' = n /\ StartPush(n)
       ELSE UNCHANGED <<activeTx, pushing>>
  /\ UNCHANGED <<param, late, poll, tcVars, snap, used, chosen>>

\* A later heartbeat.  lag is the time the handler spent between reading the
\* clock and taking the lock: a slow handler may bring last_seen back.
Refresh(n, ep, lag) ==
  /\ station[n] # None
  /\ station' = [station EXCEPT ![n] = [ep |-> ep, age |-> lag]]
  /\ UNCHANGED <<activeTx, mirrorVars, tcVars, snap, used, chosen>>

Heartbeat(n, ep, lag) == Register(n, ep, lag) \/ Refresh(n, ep, lag)

\* Mutant: the name is not looked up in the registry.
MutSetActiveTx(n) ==
  /\ Spend("select")
  /\ activeTx' = n
  /\ StartPush(n)
  /\ chosen' = chosen \cup {n}
  /\ UNCHANGED <<station, param, late, poll, tcVars, snap>>

\* set_active_tx, from PUT /api/active-tx (which answers 404 to an unknown name).
SetActiveTx(n) ==
  /\ n \in Registered
  /\ Spend("select")
  /\ activeTx' = n
  /\ StartPush(n)
  /\ chosen' = chosen \cup {n}
  /\ UNCHANGED <<station, param, late, poll, tcVars, snap>>

\* An operator sets the parameter in the Yamcs UI of instance i, to any name.
YamcsWrite(i, n) ==
  /\ Spend("write")
  /\ param' = [param EXCEPT ![i] = n]
  /\ chosen' = chosen \cup {n}
  /\ UNCHANGED <<stationVars, pushing, late, poll, tcVars, snap>>

-----------------------------------------------------------------------------
\* poll_yamcs_active_tx.

\* Mutant: the round runs past the last instance.
MutAfter(i) == At(i + 1)

\* The next instance of the round, or back to stop.wait(interval).
After(i) == At(IF i < NumInst THEN i + 1 ELSE 0)

PollWake ==
  /\ poll = Idle
  /\ SlowPush \/ ~PushRunning
  /\ poll' = At(1)
  /\ UNCHANGED <<stationVars, param, pushing, late, tcVars, snap, used, chosen>>

\* The GET, outside the lock.  An unset parameter is skipped.
PollRead ==
  /\ poll.at # 0
  /\ poll.value = None
  /\ poll' = IF param[poll.at] = None THEN After(poll.at)
             ELSE [poll EXCEPT !.value = param[poll.at]]
  /\ UNCHANGED <<stationVars, param, pushing, late, tcVars, snap, used, chosen>>

PollReadFail ==
  /\ poll.at # 0
  /\ poll.value = None
  /\ Spend("ioFail")
  /\ poll' = After(poll.at)
  /\ UNCHANGED <<stationVars, param, pushing, late, tcVars, snap, chosen>>

\* HTTPException again, or an answer of another shape: the poll thread ends.
PollBreaks ==
  /\ poll.at # 0
  /\ poll.value = None
  /\ Spend("ioFail")
  /\ poll' = [alive |-> FALSE, at |-> 0, value |-> None]
  /\ UNCHANGED <<stationVars, param, pushing, late, tcVars, snap, chosen>>

\* Under the lock the value read is known already, or names no station ...
PollSkip ==
  /\ poll.value # None
  /\ poll.value = activeTx \/ poll.value \notin Registered
  /\ poll' = After(poll.at)
  /\ UNCHANGED <<stationVars, param, pushing, late, tcVars, snap, used, chosen>>

\* Mutant: the value read is adopted though it names no station.
MutPollAdopt ==
  /\ poll.value # None
  /\ poll.value # activeTx
  /\ activeTx' = poll.value
  /\ StartPush(poll.value)
  /\ poll' = Idle
  /\ UNCHANGED <<station, param, late, tcVars, snap, used, chosen>>

\* Mutant: the value is adopted but not pushed to the other instances.
MutPollAdoptSilently ==
  /\ poll.value # None
  /\ poll.value # activeTx
  /\ poll.value \in Registered
  /\ activeTx' = poll.value
  /\ poll' = Idle
  /\ UNCHANGED <<station, param, pushing, late, tcVars, snap, used, chosen>>

\* ... or is adopted and pushed to every instance, which ends the round.
PollAdopt ==
  /\ poll.value # None
  /\ poll.value # activeTx
  /\ poll.value \in Registered
  /\ activeTx' = poll.value
  /\ StartPush(poll.value)
  /\ poll' = Idle
  /\ UNCHANGED <<station, param, late, tcVars, snap, used, chosen>>

-----------------------------------------------------------------------------
\* Telecommands: Yamcs sends datagrams, one thread receives and forwards them.

TcArrive ==
  /\ Spend("tc")
  /\ tcWaiting' = tcWaiting + 1
  /\ UNCHANGED <<stationVars, mirrorVars, tcAlive, tc, tcCount, snap, chosen>>

TcReceived ==
  /\ tcAlive
  /\ tc = None
  /\ tcWaiting > 0
  /\ tcWaiting' = tcWaiting - 1

ActiveOnline == activeTx \in Registered /\ Online(activeTx)

\* forward_tc under the lock: the destination is copied ...
TcRoute ==
  /\ TcReceived
  /\ ActiveOnline
  /\ tc' = [name |-> activeTx, ep |-> station[activeTx].ep]
  /\ UNCHANGED <<stationVars, mirrorVars, tcAlive, tcCount, snap, used, chosen>>

\* Mutant: a frame for an active station that is offline is kept for later.
MutTcDrop ==
  /\ TcReceived
  /\ activeTx = None
  /\ tcCount' = [tcCount EXCEPT !.dropped = @ + 1]
  /\ UNCHANGED <<stationVars, mirrorVars, tcAlive, tc, snap, used, chosen>>

\* ... or there is no online active station.
TcDrop ==
  /\ TcReceived
  /\ ~ActiveOnline
  /\ tcCount' = [tcCount EXCEPT !.dropped = @ + 1]
  /\ UNCHANGED <<stationVars, mirrorVars, tcAlive, tc, snap, used, chosen>>

\* sendto, after the lock was released.
TcSend ==
  /\ tcAlive
  /\ tc # None
  /\ tc' = None
  /\ tcCount' = [tcCount EXCEPT !.forwarded = @ + 1]
  /\ UNCHANGED <<stationVars, mirrorVars, tcAlive, tcWaiting, snap, used, chosen>>

\* sendto raises OSError: nothing catches it, the _udp_loop thread ends.
TcSendError ==
  /\ tcAlive
  /\ tc # None
  /\ Spend("ioFail")
  /\ tc' = None
  /\ tcAlive' = FALSE
  /\ UNCHANGED <<stationVars, mirrorVars, tcWaiting, tcCount, snap, chosen>>

-----------------------------------------------------------------------------
\* status(): get_active_tx(), then list_stations(), each under the lock.

NoSnap == [pc |-> "idle", active |-> None, listed |-> {}, flagged |-> {}]

StatusActive ==
  /\ snap.pc = "idle"
  /\ Spend("status")
  /\ snap' = [NoSnap EXCEPT !.pc = "list", !.active = activeTx]
  /\ UNCHANGED <<stationVars, mirrorVars, tcVars, chosen>>

\* Mutant: the answer lists the online stations only.
MutStatusList ==
  /\ snap.pc = "list"
  /\ snap' = [snap EXCEPT !.pc = "done",
                          !.listed = {n \in Registered : Online(n)},
                          !.flagged = {n \in Registered : n = activeTx /\ Online(n)}]
  /\ UNCHANGED <<stationVars, mirrorVars, tcVars, used, chosen>>

\* flagged: the stations whose "active_tx" is true in the answer.
StatusList ==
  /\ snap.pc = "list"
  /\ snap' = [snap EXCEPT !.pc = "done", !.listed = Registered,
                          !.flagged = {n \in Registered : n = activeTx}]
  /\ UNCHANGED <<stationVars, mirrorVars, tcVars, used, chosen>>

StatusReply ==
  /\ snap.pc = "done"
  /\ snap' = NoSnap
  /\ UNCHANGED <<stationVars, mirrorVars, tcVars, used, chosen>>

-----------------------------------------------------------------------------
\* The gateway process ends and is started again: the registry, the selection,
\* every thread and the socket's datagrams are gone, the parameters and the PUTs
\* that Yamcs may still apply stay.
Restart ==
  /\ Spend("restart")
  /\ station' = [n \in Names |-> None]
  /\ activeTx' = None
  /\ pushing' = [n \in Names |-> [i \in Insts |-> 0]]
  /\ poll' = Idle
  /\ tcAlive' = TRUE
  /\ tcWaiting' = 0
  /\ tc' = None
  /\ tcCount' = [forwarded |-> 0, dropped |-> 0]
  /\ snap' = NoSnap
  /\ UNCHANGED <<param, late, chosen>>

Init ==
  /\ station = [n \in Names |-> None]
  /\ activeTx = None
  /\ param = [i \in Insts |-> None]
  /\ pushing = [n \in Names |-> [i \in Insts |-> 0]]
  /\ late = [n \in Names |-> [i \in Insts |-> 0]]
  /\ poll = Idle
  /\ tcAlive = TRUE
  /\ tcWaiting = 0
  /\ tc = None
  /\ tcCount = [forwarded |-> 0, dropped |-> 0]
  /\ snap = NoSnap
  /\ used = [k \in Kinds |-> 0]
  /\ chosen = {}

PollStep ==
  PollWake \/ PollRead \/ PollReadFail \/ PollBreaks \/ PollSkip \/ PollAdopt
PushStep ==
  \E n \in Names, i \in Insts :
    PushPut(n, i) \/ PushFail(n, i) \/ PushBreaks(n, i) \/ LatePut(n, i)
TcStep == TcArrive \/ TcRoute \/ TcDrop \/ TcSend \/ TcSendError
StatusStep == StatusActive \/ StatusList \/ StatusReply
OperatorStep == \/ \E n \in Names : SetActiveTx(n)
                \/ \E i \in Insts, n \in Names : YamcsWrite(i, n)
HeartbeatStep ==
  \E n \in Names, ep \in Endpoints, lag \in Lags : Heartbeat(n, ep, lag)

Next == \/ Tick
        \/ HeartbeatStep
        \/ OperatorStep
        \/ PushStep
        \/ PollStep
        \/ TcStep
        \/ StatusStep
        \/ Restart

\* A running thread keeps running; operators, stations and time owe nothing.
Fairness ==
  /\ \A n \in Names, i \in Insts : WF_vars(PushPut(n, i))
  /\ WF_vars(PollWake \/ PollRead \/ PollSkip \/ PollAdopt)
  /\ WF_vars(TcRoute \/ TcDrop \/ TcSend)

Spec == Init /\ [][Next]_vars
FairSpec == Spec /\ Fairness

-----------------------------------------------------------------------------
TypeOK ==
  /\ station \in [Names -> Station \cup {None}]
  /\ activeTx \in Names \cup {None}
  /\ param \in [Insts -> Names \cup {None}]
  /\ pushing \in [Names -> [Insts -> Nat]]
  /\ late \in [Names -> [Insts -> Nat]]
  /\ poll \in [alive : BOOLEAN, at : 0..NumInst, value : Names \cup {None}]
  /\ tcAlive \in BOOLEAN
  /\ tcWaiting \in Nat
  /\ tc \in [name : Names, ep : Endpoints] \cup {None}
  /\ tcCount \in [forwarded : Nat, dropped : Nat]
  /\ snap \in [pc : {"idle", "list", "done"}, active : Names \cup {None},
               listed : SUBSET Names, flagged : SUBSET Names]
  /\ used \in [Kinds -> Nat]
  /\ chosen \subseteq Names
-----------------------------------------------------------------------------
(***************************************************************************)
(* Safety.                                                                 *)
(***************************************************************************)

\* Some station is selected exactly when some station is registered, and it is
\* a registered one: whichever of heartbeats, the UI and the poll thread moved
\* the selection last, forward_tc finds the selected name in the registry.
SelectionRegistered ==
  IF Registered = {} THEN activeTx = None ELSE activeTx \in Registered

\* Nothing runs on behalf of an unregistered station: neither a push thread nor
\* a telecommand that left forward_tc's lock but is not sent yet.
WorkRegistered ==
  /\ \A n \in Names, i \in Insts : pushing[n][i] > 0 => n \in Registered
  /\ tc # None => tc.name \in Registered

\* The selection, its mirror, every value on the way between them (in a PUT that timed
\* out too) and the destination of a telecommand is a name that an operator chose, or
\* that was selected by default when none was.
OnlyChosenNames ==
  /\ activeTx \in chosen \cup {None}
  /\ \A i \in Insts : param[i] \in chosen \cup {None}
  /\ \A n \in Names \ chosen, i \in Insts : pushing[n][i] = 0 /\ late[n][i] = 0
  /\ poll.value \in chosen \cup {None}
  /\ tc # None => tc.name \in chosen

\* status() takes the lock once for "active_tx" and again for "stations".  The
\* answer may mix two selections, but the active station it names is among the
\* stations it lists, and exactly one listed station is flagged active.
SnapshotConsistent ==
  snap.pc = "done" =>
    /\ snap.active # None => snap.active \in snap.listed
    /\ snap.listed # {} => \E n \in snap.listed : snap.flagged = {n}

\* The mirror agrees with the selection, and no push, no PUT that Yamcs may still apply
\* and no value read by the poll thread says otherwise.
Settled ==
  /\ \A i \in Insts : param[i] \in {activeTx, None}
  /\ \A n \in Names \ {activeTx}, i \in Insts : pushing[n][i] = 0 /\ late[n][i] = 0
  /\ poll.value \in {activeTx, None}

\* No operator acts and the gateway is not restarted in this step.
Undisturbed == \A k \in {"select", "write", "restart"} : used'[k] = used[k]

\* Once settled, the selection stays until an operator acts or the gateway is
\* restarted: heartbeats, new stations, failed PUTs and poll rounds keep it.
SettledIsStable ==
  [][Settled /\ Undisturbed =>
       /\ Settled'
       /\ activeTx # None => activeTx' = activeTx]_vars

\* What README.md:19 promises where nobody writes the Yamcs parameter (no "write"
\* in Limit): the selected station changes only by a selection in the UI.
SelectionKept ==
  [][activeTx # None /\ activeTx' \notin {activeTx, None}
       => \E n \in Names : SetActiveTx(n)]_vars

\* Names that are selected, in the parameter of an instance, being pushed to one, in a
\* PUT that it may still apply, or read from one by the poll thread.
Around ==
  ({activeTx, poll.value} \cup {param[i] : i \in Insts}
    \cup {n \in Names : \E i \in Insts : pushing[n][i] > 0 \/ late[n][i] > 0}) \ {None}

Selection == INSTANCE TxSelection
             WITH known <- Registered, active <- activeTx, mirror <- param,
                  around <- Around,
                  acts <- [select |-> used["select"], write |-> used["write"],
                           restart |-> used["restart"]]

\* Heartbeats, push threads and the poll thread, in any order and failing anywhere,
\* implement one selection: a name that is no longer selected, mirrored or on its way
\* does not come back, to either side, unless an operator chooses it again.
SelectionSpec == Selection!Spec

(***************************************************************************)
(* Liveness.                                                               *)
(***************************************************************************)

\* When operators are done, every instance ends with the selection for good
\* (or with a name written there that belongs to no registered station): the
\* mirroring that server/README.md:24 describes.
EventuallyMirrored ==
  <>[](\A i \in Insts : param[i] \in {activeTx} \cup (Names \ Registered))

\* Telecommands that reached the gateway do not wait for ever in its socket.
TcHandled == (tcWaiting > 0) ~> (tcWaiting = 0)
=============================================================================
