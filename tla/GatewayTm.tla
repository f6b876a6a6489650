------------------------------ MODULE GatewayTm ------------------------------
(***************************************************************************)
(* The telemetry side of server/src/proves_yamcs/gateway.py: copies of a   *)
(* frame heard by several stations reach one UDP socket in any order; the  *)
(* thread of its _udp_loop runs ingest_tm on each: look up the deployment  *)
(* by spacecraft id, drop repeated content (FrameDeduper), send the frame  *)
(* to the TM port of the deployment's Yamcs instance, count it.            *)
(*                                                                         *)
(* FrameDeduper stamps are kept as ages, capped just above the window.     *)
(* Station.source_addrs, which ingest_tm fills and nothing reads, is left  *)
(* out.                                                                    *)
(***************************************************************************)
EXTENDS Naturals, FiniteSets, Functions

CONSTANTS
  Frames,     \* frame contents (a digest stands for its content)
  Instances,  \* Yamcs instances of the runtime manifest, a finite list
  Route,      \* Gateway._by_scid composed with extract_tm_spacecraft_id
  Window,     \* --dedup-window, in ticks
  Limit,      \* bound: how many events of each kind the environment makes
  None        \* Python's None

Kinds == {"copy", "restart", "ioFail"}

ASSUME GatewayTmAssumption ==
  /\ Window \in Nat
  /\ IsFiniteSet(Instances)
  /\ None \notin Instances /\ None \notin Frames /\ None \notin Nat
  /\ None \notin [f : Frames, pc : {"send", "count"}]
  /\ Route \in [Frames -> Instances \cup {None}]
  /\ Limit \in [Kinds -> Nat]

VARIABLES
  copies,      \* datagrams on the network or in the socket, per content
  tmAlive,     \* is the thread of the TM _udp_loop still running?
  tm,          \* the frame ingest_tm is working on after accept, or None
  seen,        \* FrameDeduper._seen: content -> age of its stamp, or None
  accepted,    \* FrameDeduper.accepted
  duplicates,  \* FrameDeduper.duplicates
  tmUnknown,   \* Gateway.tm_unknown
  tmAccepted,  \* DeploymentStats.tm_accepted of each instance
  used,        \* how much of Limit has been used
  since,       \* history: ticks since the content was last accepted, capped
  passed,      \* history: how often each content was accepted
  sent         \* history: contents whose latest accepted copy went to Yamcs

dedupVars == <<seen, accepted, duplicates>>
countVars == <<tmUnknown, tmAccepted>>
feedVars == <<since, passed>>
vars == <<copies, tmAlive, tm, dedupVars, countVars, used, feedVars, sent>>

Long == Window + 1
Ages == 0..Long
Older(age) == IF age < Long THEN age + 1 ELSE Long

Spend(kind) ==
  /\ used[kind] < Limit[kind]
  /\ used' = [used EXCEPT ![kind] = @ + 1]

Tick ==
  /\ seen' = [f \in Frames |-> IF seen[f] = None THEN None ELSE Older(seen[f])]
  /\ since' = [f \in Frames |-> Older(since[f])]
  /\ UNCHANGED <<copies, tmAlive, tm, accepted, duplicates, countVars, used, passed, sent>>

-----------------------------------------------------------------------------
\* A station sends the frame it decoded to the gateway (client.py, TM threads).
StationSends(f) ==
  /\ Spend("copy")
  /\ copies' = [copies EXCEPT ![f] = @ + 1]
  /\ UNCHANGED <<tmAlive, tm, dedupVars, countVars, feedVars, sent>>

\* UDP: a copy may be lost on its way.
CopyLost(f) ==
  /\ copies[f] > 0
  /\ copies' = [copies EXCEPT ![f] = @ - 1]
  /\ UNCHANGED <<tmAlive, tm, dedupVars, countVars, used, feedVars, sent>>

\* Mutant: the thread goes on though nothing was received.
MutReceived(f) ==
  /\ tmAlive
  /\ tm = None
  /\ copies' = [copies EXCEPT ![f] = @ - 1]

\* recvfrom: the thread, done with the previous frame, takes a copy.
Received(f) ==
  /\ tmAlive
  /\ tm = None
  /\ copies[f] > 0
  /\ copies' = [copies EXCEPT ![f] = @ - 1]

\* A short frame or the id of no deployment.
DropUnknown(f) ==
  /\ Received(f)
  /\ Route[f] = None
  /\ tmUnknown' = tmUnknown + 1
  /\ UNCHANGED <<tmAlive, tm, dedupVars, tmAccepted, used, feedVars, sent>>

-----------------------------------------------------------------------------
\* FrameDeduper.accept, under its lock.

\* _expire: entries with now - stamp > window_seconds are deleted ...
Expired ==
  [f \in Frames |-> IF seen[f] = None \/ seen[f] > Window THEN None ELSE seen[f]]

\* Mutant: a copy just at the end of the window counts as new.
MutWithin(f) == Expired[f] # None /\ Expired[f] < Window

\* ... before the content is looked up: now - previous <= window_seconds.
Within(f) == Expired[f] # None /\ Expired[f] <= Window

\* Mutant: a duplicate renews the stamp.
MutDropDuplicate(f) ==
  /\ Received(f)
  /\ Route[f] # None
  /\ Within(f)
  /\ seen' = [Expired EXCEPT ![f] = 0]
  /\ duplicates' = duplicates + 1
  /\ UNCHANGED <<tmAlive, tm, accepted, countVars, used, feedVars, sent>>

\* Mutant: a duplicate is counted as accepted too.
MutCountDuplicate(f) ==
  /\ Received(f)
  /\ Route[f] # None
  /\ Within(f)
  /\ seen' = Expired
  /\ duplicates' = duplicates + 1
  /\ accepted' = accepted + 1
  /\ UNCHANGED <<tmAlive, tm, countVars, used, feedVars, sent>>

\* The stamp of the first copy stays: duplicates do not extend the window.
DropDuplicate(f) ==
  /\ Received(f)
  /\ Route[f] # None
  /\ Within(f)
  /\ seen' = Expired
  /\ duplicates' = duplicates + 1
  /\ UNCHANGED <<tmAlive, tm, accepted, countVars, used, feedVars, sent>>

Accept(f) ==
  /\ Received(f)
  /\ Route[f] # None
  /\ ~Within(f)
  /\ seen' = [Expired EXCEPT ![f] = 0]
  /\ accepted' = accepted + 1
  /\ tm' = [f |-> f, pc |-> "send"]
  /\ since' = [since EXCEPT ![f] = 0]
  /\ passed' = [passed EXCEPT ![f] = @ + 1]
  /\ sent' = sent \ {f}
  /\ UNCHANGED <<tmAlive, duplicates, countVars, used>>

-----------------------------------------------------------------------------
\* The rest of ingest_tm: sendto outside any lock, then the count under _lock.

Send ==
  /\ tm # None /\ tm.pc = "send"
  /\ tm' = [tm EXCEPT !.pc = "count"]
  /\ sent' = sent \cup {tm.f}
  /\ UNCHANGED <<copies, tmAlive, dedupVars, countVars, used, feedVars>>

\* Mutant: the thread survives, with the frame still in the deduper.
MutSendError ==
  /\ tm # None /\ tm.pc = "send"
  /\ Spend("ioFail")
  /\ tm' = None
  /\ UNCHANGED <<copies, tmAlive, dedupVars, countVars, feedVars, sent>>

\* sendto raises OSError: nothing catches it, the thread ends.
SendError ==
  /\ tm # None /\ tm.pc = "send"
  /\ Spend("ioFail")
  /\ tm' = None
  /\ tmAlive' = FALSE
  /\ UNCHANGED <<copies, dedupVars, countVars, feedVars, sent>>

Count ==
  /\ tm # None /\ tm.pc = "count"
  /\ tm' = None
  /\ tmAccepted' = [tmAccepted EXCEPT ![Route[tm.f]] = @ + 1]
  /\ UNCHANGED <<copies, tmAlive, dedupVars, tmUnknown, used, feedVars, sent>>

\* The gateway process is started again, with an empty FrameDeduper.
Restart ==
  /\ Spend("restart")
  /\ copies' = [f \in Frames |-> 0]
  /\ tmAlive' = TRUE
  /\ tm' = None
  /\ seen' = [f \in Frames |-> None]
  /\ accepted' = 0
  /\ duplicates' = 0
  /\ tmUnknown' = 0
  /\ tmAccepted' = [i \in Instances |-> 0]
  /\ since' = [f \in Frames |-> Long]
  /\ sent' = {}
  /\ UNCHANGED passed

Init ==
  /\ copies = [f \in Frames |-> 0]
  /\ tmAlive = TRUE
  /\ tm = None
  /\ seen = [f \in Frames |-> None]
  /\ accepted = 0
  /\ duplicates = 0
  /\ tmUnknown = 0
  /\ tmAccepted = [i \in Instances |-> 0]
  /\ used = [k \in Kinds |-> 0]
  /\ since = [f \in Frames |-> Long]
  /\ passed = [f \in Frames |-> 0]
  /\ sent = {}

Network == \E f \in Frames : StationSends(f) \/ CopyLost(f)
Ingest == \/ \E f \in Frames : DropUnknown(f) \/ DropDuplicate(f) \/ Accept(f)
          \/ Send \/ SendError \/ Count

Next == Tick \/ Network \/ Ingest \/ Restart

Spec == Init /\ [][Next]_vars

-----------------------------------------------------------------------------
TypeOK ==
  /\ copies \in [Frames -> Nat]
  /\ tmAlive \in BOOLEAN
  /\ tm \in [f : Frames, pc : {"send", "count"}] \cup {None}
  /\ seen \in [Frames -> Ages \cup {None}]
  /\ accepted \in Nat /\ duplicates \in Nat /\ tmUnknown \in Nat
  /\ tmAccepted \in [Instances -> Nat]
  /\ used \in [Kinds -> Nat]
  /\ since \in [Frames -> Ages]
  /\ passed \in [Frames -> Nat]
  /\ sent \subseteq Frames

\* While the thread runs, content that would be dropped as a duplicate really is
\* at Yamcs, or is the frame being sent: no copy is dropped in favour of one that
\* never got through.  accept records the content before sendto is tried, so
\* this rests on a failed sendto ending the thread.
SeenWasSent ==
  tmAlive => \A f \in Frames :
    Within(f) => f \in sent \/ tm = [f |-> f, pc |-> "send"]

\* The sum of the numbers of a function.
Total(f) == FoldFunction(LAMBDA a, b : a + b, 0, f)

\* Every frame the deduper accepted is counted for its instance, except one that
\* is being handled, or else one that was lost with the thread.
AcceptedAccounted ==
  accepted = Total(tmAccepted) + (IF tm # None \/ ~tmAlive THEN 1 ELSE 0)

\* What the deduper remembers is the time since each content was last accepted,
\* and what it has forgotten was accepted more than a window ago.
SeenIsSince ==
  \A f \in Frames : IF seen[f] = None THEN since[f] > Window
                                      ELSE seen[f] = since[f]

Feed == INSTANCE TmFeed WITH count <- passed

\* The telemetry path is a TmFeed: over all interleavings of stations' copies no
\* content is accepted twice within the window (server/README.md:20).
FeedSpec == Feed!Spec
=============================================================================
