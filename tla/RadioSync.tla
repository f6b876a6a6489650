------------------------------ MODULE RadioSync ------------------------------
(***************************************************************************)
(* How the radio settings an operator picks in the gateway UI reach the    *)
(* board of a station.  The gateway (gateway.py) keeps a desired and an    *)
(* applied value; the client's heartbeat thread (client.py, radio.py)      *)
(* reports what it applied, learns the desired value from the reply and    *)
(* writes it to the control port, one frame per parameter, the frame that  *)
(* makes the board use them last.                                          *)
(*                                                                         *)
(* One station.  A settings object is normalised already (both sides run   *)
(* the same validate_radio_settings on it) and belongs to one radio type.  *)
(* A heartbeat the client gave up on may still be handled, at any time     *)
(* later: nothing orders it with those that follow.                        *)
(***************************************************************************)
EXTENDS Naturals

CONSTANTS
  Types,     \* radio types a client may be configured with
  Settings,  \* normalised settings objects
  TypeOf,    \* the radio type a settings object is valid for
  Writes,    \* control-port writes per type: 5 for grc, 1 for circuitpython
  Limit,     \* bound: how many events of each kind the environment makes
  Empty,     \* {}: no settings
  None       \* Python's None, and radio type "none"

Kinds == {"request", "timeout", "ioFail", "clientRestart", "gatewayRestart"}

ASSUME RadioSyncAssumption ==
  /\ TypeOf \in [Settings -> Types]
  /\ Writes \in [Types -> Nat \ {0}]
  /\ Empty \notin Settings /\ None \notin Settings /\ Empty # None
  /\ None \notin Types
  /\ Limit \in [Kinds -> Nat]

VARIABLES
  \* the client process: RadioController and its heartbeat thread
  cType,    \* RadioController.radio_type
  applied,  \* RadioController.applied, Empty for None
  cError,   \* is RadioController.last_error set?
  hb,       \* heartbeat thread: [pc, req, body, n], see Asleep and below
  \* the board behind the control port
  stored,   \* stored[k]: the settings object parameter k was last written from
  running,  \* running[k]: the parameter value the radio was programmed with
  late,     \* late[r]: reports r that the client gave up on and the gateway may still handle
  \* the Station record of the gateway
  gType, gApplied, gDesired, gError,
  used,     \* how much of Limit has been used
  wanted    \* history: the latest settings asked of this gateway process, or None
            \* once a report with an error or a late one has undone the request

clientVars == <<cType, applied, cError, hb>>
board      == <<stored, running>>
station    == <<gType, gApplied, gDesired, gError>>
vars == <<clientVars, board, late, station, used, wanted>>

Report == [type : Types, applied : Settings \cup {Empty}, error : BOOLEAN]
Asleep == [pc |-> "sleep", req |-> None, body |-> None, n |-> 0]
Dead == [Asleep EXCEPT !.pc = "dead"]
Params == UNION {1..Writes[t] : t \in Types}
Factory == [k \in Params |-> None]

Spend(kind) ==
  /\ used[kind] < Limit[kind]
  /\ used' = [used EXCEPT ![kind] = @ + 1]

\* The client no longer waits for the answer; a report that has not been handled
\* is on its way, or waits in the gateway.
GiveUp == late' = IF hb.pc = "sent" THEN [late EXCEPT ![hb.req] = @ + 1] ELSE late

\* The radio uses every parameter of s.
Runs(s) == \A k \in 1..Writes[TypeOf[s]] : running[k] = s

-----------------------------------------------------------------------------
\* PUT /api/stations/<name>/radio: set_radio_settings, under the lock.
SetRadioSettings(s) ==
  /\ gType = TypeOf[s]
  /\ Spend("request")
  /\ gDesired' = s
  /\ gError' = FALSE
  /\ wanted' = s
  /\ UNCHANGED <<clientVars, board, late, gType, gApplied>>

\* _heartbeat_loop: the POST, carrying RadioController.status().
SendHeartbeat ==
  /\ hb.pc = "sleep"
  /\ hb' = [hb EXCEPT !.pc = "sent",
                      !.req = [type |-> cType, applied |-> applied, error |-> cError]]
  /\ UNCHANGED <<cType, applied, cError, board, late, station, used, wanted>>

\* Mutant: the radio type follows the report.
MutUpdateRadio(r) ==
  /\ gType' = r.type
  /\ gApplied' = r.applied
  /\ gError' = r.error
  /\ gDesired' = IF gDesired = r.applied THEN None ELSE gDesired

\* Mutant: any report that carries settings clears the request.
MutClearDesired(r) ==
  /\ gType \in {None, r.type}
  /\ gType' = r.type
  /\ gApplied' = r.applied
  /\ gError' = r.error
  /\ gDesired' = IF r.applied # Empty THEN None ELSE gDesired

\* _update_radio_unlocked on report r, under the lock.  The type is pinned.
UpdateRadio(r) ==
  /\ gType \in {None, r.type}
  /\ gType' = r.type
  /\ gApplied' = r.applied
  /\ gError' = r.error
  /\ gDesired' = IF gDesired = r.applied THEN None ELSE gDesired

\* heartbeat(), for a client that waits for the answer.
HandleHeartbeat ==
  /\ hb.pc = "sent"
  /\ UpdateRadio(hb.req)
  /\ wanted' = IF gDesired = hb.req.applied /\ hb.req.error THEN None ELSE wanted
  /\ hb' = [hb EXCEPT !.pc = "handled"]
  /\ UNCHANGED <<cType, applied, cError, board, late, used>>

\* heartbeat(), for a report the client has given up on: its answer goes nowhere.
\* It does harm when it clears the request, or comes between a heartbeat and its
\* reply, which then carries the old settings.  A report of another type is refused.
LateHeartbeat(r) ==
  /\ late[r] > 0
  /\ UpdateRadio(r)
  /\ late' = [late EXCEPT ![r] = @ - 1]
  /\ wanted' = IF \/ gDesired = r.applied
                  \/ gDesired = None /\ hb.pc = "handled" /\ r.applied # gApplied
               THEN None ELSE wanted
  /\ UNCHANGED <<clientVars, board, used>>

\* "cannot change": the client gets a 400, an HTTPError it logs.
RejectHeartbeat ==
  /\ hb.pc = "sent"
  /\ gType \notin {None, hb.req.type}
  /\ hb' = Asleep
  /\ UNCHANGED <<cType, applied, cError, board, late, station, used, wanted>>

\* Mutant: the reply carries the settings applied, never the request.
MutReplyHeartbeat ==
  /\ hb.pc = "handled"
  /\ hb' = [hb EXCEPT !.pc = "replied", !.body = gApplied]
  /\ UNCHANGED <<cType, applied, cError, board, late, station, used, wanted>>

\* The handler builds the reply after the lock was released (as_dict).
ReplyHeartbeat ==
  /\ hb.pc = "handled"
  /\ hb' = [hb EXCEPT !.pc = "replied",
                      !.body = IF gDesired # None THEN gDesired ELSE gApplied]
  /\ UNCHANGED <<cType, applied, cError, board, late, station, used, wanted>>

\* urlopen fails or times out: the request, or its reply, is late or lost.
HeartbeatFails ==
  /\ hb.pc \in {"sent", "handled", "replied"}
  /\ Spend("timeout")
  /\ GiveUp
  /\ hb' = Asleep
  /\ UNCHANGED <<cType, applied, cError, board, station, wanted>>

-----------------------------------------------------------------------------
\* _apply_desired_radio: nothing to do ...
IgnoreReply ==
  /\ hb.pc = "replied"
  /\ hb.body \in {Empty, applied}
  /\ hb' = Asleep
  /\ UNCHANGED <<cType, applied, cError, board, late, station, used, wanted>>

\* ... or RadioController.apply starts.
StartApply ==
  /\ hb.pc = "replied"
  /\ hb.body \notin {Empty, applied}
  /\ hb' = [hb EXCEPT !.pc = "write"]
  /\ UNCHANGED <<cType, applied, cError, board, late, station, used, wanted>>

\* Which parameter the next write carries: SET_FREQ is encoded last.
NextParam == hb.n + 1

\* Mutant: SET_FREQ is encoded first.
MutProgramsRadio(k) == k = 1

ProgramsRadio(k) == k = Writes[cType]

\* One write to the control port.  A parameter frame only stores its value;
\* SET_FREQ (or the single line of a circuitpython board) programs the radio.
WriteFrame ==
  /\ hb.pc = "write"
  /\ hb.n < Writes[cType]
  /\ stored' = [stored EXCEPT ![NextParam] = hb.body]
  /\ running' = IF ProgramsRadio(NextParam) THEN stored' ELSE running
  /\ hb' = [hb EXCEPT !.n = @ + 1]
  /\ UNCHANGED <<cType, applied, cError, late, station, used, wanted>>

\* flush() returned.
FinishApply ==
  /\ hb.pc = "write"
  /\ hb.n = Writes[cType]
  /\ applied' = hb.body
  /\ cError' = FALSE
  /\ hb' = Asleep
  /\ UNCHANGED <<cType, board, late, station, used, wanted>>

\* A write or the flush raises OSError: some frames, or all, have reached the board.
WriteError ==
  /\ hb.pc = "write"
  /\ Spend("ioFail")
  /\ cError' = TRUE
  /\ hb' = Asleep
  /\ UNCHANGED <<cType, applied, board, late, station, wanted>>

-----------------------------------------------------------------------------
\* Mutant: a client that has applied nothing reports null.
MutClientRestart(t) ==
  /\ Spend("clientRestart")
  /\ cType' = t
  /\ applied' = None
  /\ cError' = FALSE
  /\ GiveUp
  /\ hb' = Asleep
  /\ IF t = cType THEN UNCHANGED board
     ELSE stored' = Factory /\ running' = Factory
  /\ UNCHANGED <<station, wanted>>

\* The client process is started again, perhaps for another kind of board.
ClientRestart(t) ==
  /\ Spend("clientRestart")
  /\ cType' = t
  /\ applied' = Empty
  /\ cError' = FALSE
  /\ GiveUp
  /\ hb' = Asleep
  /\ IF t = cType THEN UNCHANGED board
     ELSE stored' = Factory /\ running' = Factory
  /\ UNCHANGED <<station, wanted>>

\* The gateway process is started again with an empty registry.  A client that
\* waits for its answer sees the connection fail; one whose answer breaks off
\* inside the body gets IncompleteRead, which ends its heartbeat thread.
GatewayRestart ==
  /\ Spend("gatewayRestart")
  /\ gType' = None
  /\ gApplied' = Empty
  /\ gDesired' = None
  /\ gError' = FALSE
  /\ late' = [r \in Report |-> 0]
  /\ wanted' = None
  /\ \/ hb.pc \in {"sent", "handled"} /\ hb' = Asleep
     \/ hb.pc = "handled" /\ hb' = Dead
     \/ hb.pc \notin {"sent", "handled"} /\ UNCHANGED hb
  /\ UNCHANGED <<cType, applied, cError, board>>

Init ==
  /\ cType \in Types
  /\ applied = Empty
  /\ cError = FALSE
  /\ hb = Asleep
  /\ stored = Factory
  /\ running = Factory
  /\ late = [r \in Report |-> 0]
  /\ gType = None
  /\ gApplied = Empty
  /\ gDesired = None
  /\ gError = FALSE
  /\ used = [k \in Kinds |-> 0]
  /\ wanted = None

\* The exchange between the heartbeat thread, the handler and the board.
Exchange == \/ SendHeartbeat \/ HandleHeartbeat \/ RejectHeartbeat \/ ReplyHeartbeat
            \/ IgnoreReply \/ StartApply \/ WriteFrame \/ FinishApply

Next == \/ Exchange
        \/ \E s \in Settings : SetRadioSettings(s)
        \/ HeartbeatFails \/ WriteError
        \/ \E r \in Report : LateHeartbeat(r)
        \/ \E t \in Types : ClientRestart(t)
        \/ GatewayRestart

Spec == Init /\ [][Next]_vars

\* The heartbeat thread loops for ever and the HTTP server answers.
FairSpec == Spec /\ WF_vars(Exchange)

-----------------------------------------------------------------------------
TypeOK ==
  /\ cType \in Types
  /\ applied \in Settings \cup {Empty}
  /\ cError \in BOOLEAN
  /\ hb \in [pc : {"sleep", "sent", "handled", "replied", "write", "dead"},
             req : Report \cup {None}, body : Settings \cup {Empty, None}, n : Nat]
  /\ stored \in [Params -> Settings \cup {None}]
  /\ running \in [Params -> Settings \cup {None}]
  /\ late \in [Report -> Nat]
  /\ gType \in Types \cup {None}
  /\ gApplied \in Settings \cup {Empty}
  /\ gDesired \in Settings \cup {None}
  /\ gError \in BOOLEAN
  /\ used \in [Kinds -> Nat]
  /\ wanted \in Settings \cup {None}

\* A client that reports settings and no error does so of a radio that uses every
\* one of them, however many writes were cut short before: RadioController.apply
\* and the order of its frames (radio.py:302).
AppliedIsRunning ==
  applied # Empty /\ ~cError /\ hb.pc # "write" => Runs(applied)

\* No client is ever handed settings of another radio type, across restarts and
\* changes of configuration: its own validation never has to refuse any.
OnlyOwnSettings ==
  /\ gDesired # None => TypeOf[gDesired] = gType
  /\ hb.pc \in {"replied", "write"} /\ hb.body # Empty => TypeOf[hb.body] = cType

\* A running gateway forgets a request only for a report ...
Forgets ==
  /\ gDesired # None /\ gDesired' = None
  /\ used'["gatewayRestart"] = used["gatewayRestart"]

\* ... of a client whose radio does use those settings, or that reports an error,
\* whatever late reports were handled before; or for one that comes late itself.
ForgetsWithCause ==
  [][Forgets => Runs(gDesired) \/ gError' \/ \E r \in Report : LateHeartbeat(r)]_vars

\* client/README.md:26: settings queued by the gateway are written by the client.
ForgottenIsRunning == [][Forgets => Runs(gDesired)]_vars

\* The latest request ends up in the radio and stays there, in spite of writes
\* that fail, lost replies, restarts of the client and late reports, unless the
\* gateway forgot it for a report with an error or a late one, or a late report put
\* older settings into a reply (wanted = None), the heartbeat thread ended, or the
\* gateway refuses the heartbeats of a client whose radio type changed.
BoardFollowsOperator ==
  <>[](\/ wanted = None
       \/ wanted # None /\ Runs(wanted)
       \/ hb.pc = "dead"
       \/ gType # cType)
=============================================================================
