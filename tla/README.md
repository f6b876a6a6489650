# A TLA+ verification of yamcs-stack

yamcs-stack connects satellites to a central Yamcs server through several ground
stations. These modules model the programs in which threads, processes and
machines meet: the gateway, the ground-station client, the server supervisor, the
preparation of the server's files and the simulator bridge. TLC checks them on
small instances; TLAPS proves the main results about each of the eight parts for
every size. Source lines are given as `file:line`; `PROJECT.json` maps every definition to the lines it stands for.

    cd tla
    tlc -config gateway_tx.cfg MCGatewayTx     # any run: its cfg and MC module
    tlapm TcUplink_proofs.tla                  # any *_proofs module

## The system

| Component | State | Operations | Interacts by |
|---|---|---|---|
| Gateway, transmit side (`gateway.py`) | station registry, active TX station, counters | heartbeat, selection (UI, Yamcs), poll round, push threads, forward_tc, status | HTTP from clients and UI, HTTP to Yamcs, UDP from Yamcs and to clients; one lock |
| Gateway, telemetry side | deduper, per-deployment counters | ingest_tm | UDP from clients, UDP to Yamcs; the deduper's own lock |
| Radio settings (`gateway.py`, `client.py`, `radio.py`) | desired and applied settings on both sides, parameters in the board | PUT radio, heartbeat, RadioController.apply | heartbeat and its reply; control port |
| Telecommand uplink (`client.py`, `authentication.py`) | sequence number files | _forward_tc, SequenceStore.next | UDP from the gateway, file system, radio |
| Telemetry scanner (`client.py`) | byte buffer, statistics | feed | radio bytes in, UDP to the gateway |
| Client process in tcp mode, simulator bridge (`client.py`, `udp_tcp_bridge.py`) | TCP streams, reassembly buffers, threads | the forwarding loops, sessions | TCP between them, UDP at both ends |
| Supervisor (`supervisor.py`) | PID file, compose stack, children | run, stop | signals, files, Docker Compose |
| prepare and its readers (`prepare.py`, `deployments.py`, `bundle.py`, `grafana.py`) | the runtime directory | render twice with the mission databases in between; what supervisor, gateway and containers load | files |
| Client configuration (`config.py`, `bundle.py`) | none | validation at start-up | not modelled |
| Yamcs, Grafana, UI page, event bridge | - | - | external: environment actions |

What is hard here: the gateway runs one thread per HTTP request, two UDP threads,
a poll thread and an unbounded number of push threads around one lock, and sends
after releasing it; the mirror of the selection is written in two directions; a
heartbeat and its reply carry two versions of the radio settings; the client may
be stopped inside the update of a sequence number; streams are cut anywhere;
prepare writes its files one by one while a server may be reading them; and
supervisor commands overlap. `PROJECT.json` lists these hazards at their lines
with the properties that watch them.

## Modules

`MC<Module>` holds only constants for TLC, `<Module>_proofs` only proofs.
Operators named `Mut...` are plausible faults of the definition that follows them;
they are used in no specification and show that a property can fail.

### GatewayTx and TxSelection - selection, mirror, telecommands

A step is a block under `Gateway._lock` or one network exchange outside it.
`station`, `activeTx` are `_stations`, `_active_tx`; `param[i]` is the parameter
`/Ground/ActiveTxStation` of instance i, which Yamcs keeps when the gateway dies.
`pushing[n][i]` counts the daemon threads of `_push_active_tx_unlocked` that are
about to PUT name n to instance i; threads of different names, and several of one
name, run at the same time in any order. `late[n][i]` counts PUTs that timed out after
5 s (`gateway.py:388`) and that Yamcs may still apply, at any time, even when the gateway
has been restarted (`LatePut`). `poll` is the poll thread: its place in the
round and the value it read without the lock (`PollRead`), which it adopts under
the lock (`PollAdopt`) or not (`PollSkip`). A failed request is logged and passed
over (`PushFail`, `PollReadFail`); an answer that breaks off raises an exception
nobody catches and ends the thread (`PushBreaks`, `PollBreaks`). `tc` is the destination that
`forward_tc` copied under the lock (`TcRoute`) and sends to after releasing it
(`TcSend`). `snap` is a status request between its lock sections. The clock
appears as each station's age, capped above `stale_after`; the `lag` of a
heartbeat is its wait for the lock after reading the clock (`gateway.py:190`).

- `SelectionRegistered`, `WorkRegistered`: the selection, push threads and
  telecommands in flight name registered stations, so `forward_tc` never looks up
  a name in vain, across polls of a parameter that outlived a restart.
- `OnlyChosenNames`: nothing but a name an operator chose (or the default)
  circulates between selection, pushes, late PUTs, mirror and poll thread, and
  telecommands go to no other. A frame in hand still goes to the station selected
  when it was routed; that is what the code does, and no property claims otherwise.
- `SnapshotConsistent`: the status answer names an active station that it lists
  and flags exactly one, though it takes the lock once per part.
- `SettledIsStable`: once selection, mirror and everything on its way between
  them agree, only an operator or a restart changes the selection.
- `TxSelection` is the promise: one selection, set by operators and by default, and a
  set of names that are `around`, which loses names and gains none unless an operator
  acts or a first station is selected. `SelectionSpec` is the refinement. The names
  around are mapped to those selected, mirrored, being pushed, in a late PUT or read by
  the poll thread (`Around`), without history, and the operators' acts are counted, so that
  no other step can pass for one: it says of every step, settled or not, that a name
  that is nowhere any more does not come back by itself.
- `EventuallyMirrored`, `TcHandled`: liveness, see below.
- `SelectionKept` is violated (run `gateway_tx_poll_race`): the poll thread
  undoes a UI selection made between its GET and its lock.

### GatewayTm and TmFeed - telemetry and deduplication

`GatewayTm` runs `ingest_tm` on copies of frames that arrive in any order, are
lost or repeated; `seen` holds the age of each deduper entry. `SeenIsSince` says
that the entries are the true times since a content was last accepted (the history
variable `since`), `SeenWasSent` that no copy is dropped in favour of one that did
not get through, `AcceptedAccounted` that the deduper's counter is the sum of those of
the deployments (`Total`, a fold over the finite set of instances) and the frame in
hand. `TmFeed` is the promise to Yamcs: no
content twice within the window. `FeedSpec` is the refinement, with the same
`since`; the count of acceptances (`passed`) tells a second acceptance in the same
tick from no step at all.

### RadioSync - radio settings

One station. `gDesired`, `gApplied` are the Station record, `applied`, `cError`
the RadioController; `hb` is the heartbeat thread with the report it sent, the
reply it got and how many control-port writes it has made; `stored`, `running`
are what the board has stored per parameter and what its radio was programmed
with when the last frame, SET_FREQ, came (`radio.py:302`). `AppliedIsRunning`: a
client that reports settings without an error has a radio that uses all of them.
`OnlyOwnSettings`: settings never cross radio types.

The client waits 5 s for an answer (`client.py:346`), the gateway's handler for as
long as it takes: `late` counts the reports the client has given up on, also by ending,
and `LateHeartbeat` may handle them at any time later, after newer ones. Such a report
can do two kinds of harm: it may equal the latest request and clear it, though the radio
has moved on, or it may come between a newer report and its reply and put older settings
into that reply. Both are what the code does. `ForgetsWithCause`: a request is forgotten
only when the radio uses it, the report carries an error, or the report is a late one.
`BoardFollowsOperator`: the latest request ends up in the radio, unless a report with an
error or a late one of these two kinds undid it (`wanted` is None then). A late report of
any other kind leaves the latest request wanted, and the property shows that it is
written in spite of it. The violated `ForgottenIsRunning` (run `radio_write_error`) has
none of these exceptions; in its trace no report is late, and the flush after the last
frame fails.

### TcUplink and FreshNumbers - authentication numbers

`TcUplink` cuts `SequenceStore.next` at its file system calls: read, write of the
temporary file, rename; the thread may be stopped, or raise, between any two.
A frame that the data link framer rejects after it was numbered is dropped with its
number (`FramerRejects`). Satellites may share a file; a file may become unreadable
(`Damage`), lose digits and hold a smaller number (`Truncate`), or be deleted at any
moment, also between the read and the rename, which then brings the counter back. A
number is paired with an era (history): a new one begins when the counter wraps or its
file is deleted or truncated, since a missing file counts as 0, any number in the range
is accepted, and no program can be expected to remember more. `FileAhead`: the file
is ahead of every number issued and every number on the air, in its era.
`FreshNumbers` is what a satellite's anti-replay check needs, `NumbersFresh` the
refinement; there too the count of frames on the air (`radioed`) makes a repeated
number a step.

### Supervisor - run and stop

Several run and stop processes around one PID file and one stack. `pc` follows
`stop()` and `run()` call by call, the event bridges one Popen at a time; a signal
before the handlers are installed, and an exception before the try block, end the
process at once (`Die`). Compose commands may fail: `compose down` runs with
`check=False` (`supervisor.py:139`, `235`), so that neither command notices when it does
not do its work (`DownFails`), it is hit by the Ctrl-C that asked for it (`Interrupt`), or
Docker is not found (`DownRaises`); `compose up` may leave a part of the stack
(`StartFails`). `left` (history) is the set of runs that ended early or whose own
`compose down` did not do its work, since the stack was last taken down.
`NoLateOrphans`: children outlive their supervisor only if it died between the
first Popen and the handlers. `StackOwned`: what is up of the stack has a live run, or
one of `left`: failed commands leave it behind, overlapping ones do not. `StopReaches`: a signalled supervisor and its children
end. `StopStops` is violated (run `supervisor_stop`): before the PID file is
written, stop does not find the run.

### TmScanner - frames in a byte stream

The loop of `_forward_tm_serial` and, inside it, each pass of the loop in `feed` as
an action (`NoSync`, `Incomplete`, `FalseSync`, `TakeFrame`), over concrete bytes;
frame lengths, sync words and the CRC are parameters. `FramesGenuine`: a frame
passed on was delivered by the radio in one piece, has a satellite's length, sync
word and a good CRC, and shares no byte with another; history keeps where it began.
`BytesAccounted`: the bytes delivered are as many as the places of the stream that are
in a frame (`InFrames`), the junk counted and the bytes in the buffer together.
`BufferBounded`: between calls the buffer is shorter than the longest frame.
`CleanStreamDelivered`: two valid frames with which a stream begins are both found and
sent; it says nothing of frames further on, which `BytesAccounted` covers.
After a false sync the scanner skips two bytes and may miss a sync word that starts
at the second; the model does so too, and the properties only claim that the bytes
are counted as junk. A `sendto` that raises ends the thread (`SendError`).

A pass is written twice: as the four actions, and as a function of the scanner
(`Pass`), of which `Returned` makes as many as the loop in `feed` can need.
`CuttingIrrelevant` compares the scanner after every cutting of a stream with one call
of `feed` for all of it - frames, remaining bytes and statistics. `Returned` is a
recursive function on the naturals and no RECURSIVE operator, so that it can be proved
about.

### TcpLink - tcp client and simulator bridge

The client (main, telemetry and telecommand threads) and the bridge composed over
numbered TCP connections, a step for each frame or read: `ReceiveTm`, `ForwardTm`
are the loop of `_forward_tm_tcp`, `ReceiveTc`, `PopFrame`, `PopEnds`, `SendTc` one
round of `_serve` with `pop_tc_frames`; reads cut the streams anywhere. The bridge's
socket does not block, so a full buffer ends a session inside a frame (`RelayTm`).
History keeps, per connection, the frames of each direction with the place they
begin (`relayed`, `written`) and all their bytes (`downstream`, `upstream`), and how
many frames the latest client and session have taken (`cuts`, `pops`).
`TmFaithful`, `TcFaithful`: whole frames only, in order, at the right satellite,
with the right id, and no byte carried from one session to the next.
`CloseIsNoticed`: each side notices the other's end. The client never reconnects
and keeps heartbeating until its telecommand thread ends as well; the model shows
this, no property claims otherwise.

### ClientTm - both modes of a client

`main` starts the serial loop or the tcp loop, as `config.mode` says (`Serial`,
`Tcp`); their steps are those of TmScanner and TcpLink.

### Prepare - the runtime directory and its readers

A file is what its readers tell apart: `main` (yamcs.yaml) its secret and its list
of instances, `inst[n]` the ids, port and whether the root container is still a
placeholder, `mdb[n]` the dictionary it was generated from, `manifest` the
deployments, or `Partial` between truncation and write, as `write_runtime_manifest`
writes in place. `prep.pc` follows `render_configuration` write by write, through
the first pass (`rooted = FALSE`), `generate_xtce`, which reads the dictionary a
second time, and the second pass, which clears nothing. `Stop` ends it anywhere, in
`fprime-to-xtce` also with half a file. Meanwhile the operator edits the deployments
file and the dictionaries, the supervisor reads the manifest and creates the
containers, the gateway reads the manifest again, and Docker restarts the container
(`ContainerRestarts`). A run starts only after a prepare that returned (`pending`):
`make yamcs` goes on only then. It takes the server of an earlier run down, which may
fail unnoticed (`server.kept`): the old container then lives on with what it loaded. `loads` and `seen` (history) are the loads that the
files on disk, or those a run saw, may come from.

- `CompleteIsExact`: when prepare has returned, the runtime directory is exactly
  that of its input; nothing is left of earlier inputs or stopped attempts and no
  placeholder remains. Two exceptions follow the code: a deployment called
  `ground-control` shares its database file with the ground database, which is
  copied over it (`prepare.py:141`), and a database made from a dictionary edited
  since it was loaded may have other contents.
- `OneKey`: the configurations on disk and in Yamcs have the key in the secrets
  file, across attempts that stopped between drawing and using it.
- `ServedAgree`: while all prepares since the one before a run loaded the same,
  supervisor, gateway, published ports and Yamcs agree on deployments, ids and
  ports, whatever a prepare in progress or broken off has left on disk; Yamcs only
  unless its container was kept. With
  other inputs they may disagree until the next run, and nothing claims otherwise.

## Runs and bounds

Every event of the environment (a selection, a write in Yamcs, a failed exchange,
a restart, a datagram) may occur at any moment, at most `Limit[kind]` times in a
behaviour. Program steps are not bounded, except by `MaxPush`, the number of push
threads of one name at one instance, which the theorems leave open: with 1, as in the
safety run, threads of both stations run at the same time, one of each; with 2, as in the
liveness run, two of each at every instance.

| Run | Instance | Shows |
|---|---|---|
| gateway_tx | 2 stations, 2 instances, `MaxPush` 1, one of each event but status | the safety properties of GatewayTx and the refinement of `TxSelection`; two instances are the least for which pushes can disagree, two stations the least for a wrong choice |
| gateway_tx_live | the same with `MaxPush` 2, one status request, no lag, requests never fail | `EventuallyMirrored`, `TcHandled`, and `SnapshotConsistent`, which no failure touches |
| gateway_tx_poll_race | 2 stations, 1 instance, one UI selection | violates `SelectionKept` |
| gateway_tx_send_error | 2 telecommands, one failing send | violates `TcHandled` |
| gateway_tm | 2 satellites, an unknown id, 4 copies, window 2 | safety and refinement of `TmFeed` |
| radio_sync | a two-parameter grc board, a circuitpython board, 3 requests, 2 heartbeats lost or late, 2 failed writes, a restart of each side | the radio properties; three requests let an old one return, two late reports come after newer ones and between a report and its reply, two parameters are the least that can be mixed |
| radio_write_error | 3 requests, one failed write | violates `ForgottenIsRunning` |
| tc_uplink | 4 satellites, 2 files, numbers 0..2, 4 frames, 2 restarts, a failed write, a damaged or truncated file and a deleted one | numbers; four frames wrap the counter and use a number again after it |
| supervisor | 2 runs, 1 stop, 2 event bridges, one interrupt, failure and exit | overlap of commands, each failing at any of its compose commands |
| supervisor_stop | 1 run, 1 stop, no failure | violates `StopStops` |
| client_tm, serial | all streams of up to 9 bytes of 3 values, all cuttings, frames of 4 and 5 bytes, sync words that overlap | scanner; nine bytes hold a frame of each satellite |
| client_tm, tcp | 2 satellites, 2 client processes, 2 frames each way, one failing send, one interrupt | streams; the second client meets what the first left |
| prepare | 3 names, one of them reserved, 2 ids, 4 deployments files (a moved default port, a port twice), 2 prepares and runs, 1 stop, edit and container restart each | files and readers; a second prepare meets what a stopped or a different one left |

`CHECK_DEADLOCK FALSE` is set where the system may really stop: a dead heartbeat
thread, all processes ended, or nothing left to arrive.

## Fairness

- `gateway_tx_live`: push, poll and TC threads keep running (the operating system
  schedules them; each request has a timeout of 5 s). `SlowPush = FALSE` also
  assumes that a push to all instances ends before the next poll round 2 s later;
  with slower pushes two of them can chase each other through the mirror for ever,
  so `EventuallyMirrored` is only claimed under this timing; pushes of both stations
  still overlap in any order and leave the instances with different values, which the
  next poll round has to resolve. A failed PUT is not retried, so it is claimed only
  while requests succeed. The other runs allow slow pushes or have one instance.
- `radio_sync`: the heartbeat thread loops for ever and the gateway answers
  (`Exchange`); operators, failures and restarts owe nothing.
- `supervisor`: a started process takes its next step; its waits have timeouts, and
  compose commands are assumed to return.
- `client_tm`: the bridge's select loop and the client's telemetry thread go on.

A temporal property is checked only under these; violation runs of temporal
properties use them too, so that none of them is refuted by a system that stops.

## Proofs

For any number of stations, instances, frames, files and events, from the named
assumption of each module about its constants (naturals where numbers are meant,
`None` outside the sets it is distinguished from, finitely many instances where they are
counted up):

- `GatewayTx_proofs`: `TypeCorrect`; `SelectionIsRegistered` is inductive with the
  types; `WorkIsRegistered` and `NamesAreChosen` rest on it, because a push starts
  only for a name that was selected or read and looked up; `SnapshotIsConsistent`
  needs the strengthening that a request between its two lock sections holds a
  registered name, and that the registry only grows while it runs;
  `SettledStays` is an action property, proved per action from the first two.
  `ImplementsSelection` maps every step to one of `TxSelection` (Register to Join,
  PollAdopt to Adopt, a PUT, also a late one, to Spread or, when it breaks off, Fade,
  ...). That no step brings a name back (`StepCirculates`) is put together from where
  selection, parameters (`ParamSource`), push threads (`PushSource`), late PUTs
  (`LateSource`) and poll thread (`PollSource`) have their names from.
- `GatewayTm_proofs`: `AcceptedIsAccounted` needs what a fold over a set computes. It is
  proved by counting: `Units(f, S)`, the pairs of an element and a number from 1 to f of
  it, is a finite set, and `SumIsUnits` shows that the fold is its cardinality, by taking
  the least number of elements for which it would not be. `SumIncreased`: one more at
  one element is one more in all. The invariant needs the strengthening `InHand`: only a
  running thread has a frame in hand, and it is one that a deployment is known for.
  `SeenIsTheTruth` (inductive: `Tick` and `_expire` treat entry
  and history alike), `SeenWasSentAlways` from it, and `ImplementsFeed`: every step
  is a tick, a restart, an acceptance of content that is older than the window, or
  a stutter.
- `TcUplink_proofs`: the inductive invariant is `UplinkInv`, `FileAhead` together
  with `NumberInHand`: the number in hand is, depending on where the thread is, the
  file's, about to be replaced, or issued and not yet on the air. `FileAhead` alone is
  not inductive, since it says nothing of the number a step is about to issue.
  `ImplementsFresh` follows, as `Write` puts a number on the air that is above the
  last one. `ErasPass` keeps eras growing while a file cannot be read, when `FileAhead`
  says nothing of it.
- `RadioSync_proofs`: `TypeOK` needs `InHand` (the report on its way is what the
  client still has, settings being written are settings). `SettingsStayOwn` needs
  `OwnTypes`: what either side keeps is of the type it has pinned or configured.
  `ReportsAreTrue` needs `Progress`: the first `hb.n` parameters are stored from
  the settings being written, and the last write programs the radio with all of
  them. `ForgottenForAReason` (`ForgetsWithCause`) is an action property and follows from
  these: the gateway forgets on a report; one that is not late is what the client has, and
  what the client has without an error is in the radio.
- `Supervisor_proofs`: `TypeOK` needs `Roles` (stop commands stay in `stop()`, a
  signalled PID was read). `RunEffect` sums up what any step of any command may do
  to a run: take children from it, take it further, or end it where it has no
  handlers. `OrphansAreEarly` and `StackIsOwned` follow from that lemma: a run stops
  holding the stack only by taking it down or by entering `left`, and `left` is emptied
  only where the stack is taken down.

- `TmScanner_proofs`: `BufferIsBounded` needs only the types and what each pass leaves
  in the buffer; `FramesAreGenuine` is inductive with the types: the
  buffer always is the end of the stream, so a frame cut from its front was delivered
  where history says, behind the frames before it. `BytesAreAccounted` follows it: a
  frame taken adds as many places to `InFrames` as it has bytes, because it overlaps no
  other, and chunks fed add none.

  `CuttingIsIrrelevant` is not inductive, as the buffer alone does not say what a call
  with all bytes would do. `AnyMore` is: for every sequence of bytes still to come, one
  call with the stream and those bytes leaves what a call with the buffer and those
  bytes leaves from here. Feeding a chunk is associativity of concatenation. A false sync
  word or a frame taken is the first pass of any later call, as it does not look at
  the bytes behind (`PassConcat`); bytes dropped before the earliest sync word
  there is, or before the last byte, may be dropped before any later call (`SkipThenPass`).
  Once `feed` has returned another pass changes nothing (`NothingLeft`, from
  `BufferIsBounded`), and with no bytes to come that is the property. What this needs of
  the recursion in `Returned` is `PassesFacts`: the function exists and obeys its
  equation, by induction stated for sets of numbers (`AllNumbers`, from the least
  element of a set), and that a pass takes bytes from the buffer or is the last
  (`PassesContinue`). `CleanStreamIsDelivered` is a corollary: two passes of one call with
  all the bytes take the two frames, later passes keep what was found, and cutting is
  irrelevant.
- `Prepare_proofs`: `KeyInv` (the key in hand is the one in the file) gives `KeyIsOne`.
  `ExactInv` says per stage of prepare what has been written: `NothingElse` (once
  cleared, no file of another deployment), `Databases`, `MainWritten`,
  `InstancesWritten`, `ListsWritten`, and `SameDictionaries` (unless edited, the
  dictionaries are those loaded); at `Finish` the parts add up to `CompleteIsExact`,
  which alone says nothing of a prepare in progress. `ServedInv`: while there is only
  one load the disk can be from, every file on it is missing, half written or that
  load's (`Consistent`), so that whatever is read is too.
- `TcpLink_proofs`: for both directions the argument is the same. `TcStream` and
  `TmStream` say where a stream is: what is in the buffer and on its way is exactly
  what was sent from the frame after the last one taken (`Held`). So a header that has
  arrived is that of the next frame, and as many bytes as its length are that frame
  (`NextFrame`, `NextTm`). `TcOrder` and `TmOrder` follow the frames from there: popped
  and delivered, queued, relayed and forwarded, each with its number. They are
  inductive only together with the streams; `TcFaithfulHolds` and `TmFaithfulHolds`
  follow, the claim that no telecommand is missing because a parser that found nothing
  more in a stream that has arrived has taken every frame (`NothingLeft`). Last,
  `ClientIsBoth`: a step of a client in either mode is a step of `TmScanner`, of
  `TcpLink` or of neither, so what is proved of the two holds of the `ClientSpec` that
  run client_tm checks (`ClientIsFaithful` for the frames of the link).

Every invariant and action property that the passing runs check is proved, and so are
the three refinements.
Model-checked only is liveness, which depends on fairness and ENABLED:
`EventuallyMirrored`, `TcHandled`, `BoardFollowsOperator`, `StopReaches`,
`CloseIsNoticed`. That the hypotheses of the theorems can be met is shown by the runs:
each module's assumption is evaluated for the constants of its run.

## Findings

Four places where the program does other than what its documentation says, each
with a run that shows it: a poll that undoes a UI selection; a failed `sendto`
that ends telecommand forwarding; a radio request forgotten although the board runs
other settings, after a `flush` that failed when all frames had been written;
a stop that misses a run that is starting. `PROJECT.json` quotes the documents.

## Not modelled

Contents and CRCs of frames (except in `TmScanner`), HTTP syntax and validation,
texts and logs, the UI page, `Station.source_addrs` (written, never read), the count
in the space packet header (restarts with each process, used by no other part),
`supervisor check` (assertions about a stack of its own), configuration loading of
the client (sequential validation with no state after it), the text of templates and
dashboards and the files of prepare that are the same for all inputs, `tc_port` of a
deployment (written to files, used by no modelled program), two prepares at once,
power loss, two clients sharing a sequence file, reuse of PIDs, signals to the
supervisor other than SIGINT and SIGTERM (SIGKILL or SIGHUP of a serving run would orphan
its children), compose commands that never return (they have no timeout; `StopReaches`
assumes that they do). `run` skips the wait
for Grafana in `Prepare`, which reads nothing there; `Supervisor` has it.

## Plan

Done, in this order: GatewayTx with TxSelection, GatewayTm with TmFeed, RadioSync, TcUplink with
FreshNumbers, Supervisor, TmScanner, TcpLink, ClientTm, Prepare, and proofs about each part.
Left:

1. A composition of GatewayTx, the heartbeat of RadioSync and the client's threads,
   where a station is online and cannot transmit.
