----------------------------- MODULE Supervisor -----------------------------
(***************************************************************************)
(* server/src/proves_yamcs/supervisor.py: several invocations of its run   *)
(* and stop commands share a PID file and a Docker Compose stack.  A run   *)
(* first does what stop does, then starts the stack, waits for it, spawns  *)
(* the event bridges and the gateway, records its PID and watches its      *)
(* children until one of them exits or a signal asks it to stop.           *)
(*                                                                         *)
(* A process dies at once from a signal that comes before its handlers are *)
(* installed, and from an exception raised before the try block.  A compose*)
(* command takes effect at one instant, whole or, when it fails or Ctrl-C  *)
(* reaches it, in part.  PIDs are not reused.                              *)
(***************************************************************************)
EXTENDS Naturals

CONSTANTS
  Runs,    \* processes of the run command
  Stops,   \* processes of the stop command
  Bridges, \* how many event bridges there are, one per deployment
  Limit,   \* bound: how many events of each kind the environment makes
  None     \* no process

Kinds == {"interrupt", "fail", "exit"}
Procs == Runs \cup Stops

\* The gateway and the event bridges, in the order in which they are ended.
Gateway == 0
Children == Gateway..Bridges

VARIABLES
  pc,        \* where each process is, see Stopping, Starting and Serving
  target,    \* the PID that stop() read and means to end, or None
  stopping,  \* the flag that request_stop sets in a run
  kids,      \* children of each run that are alive
  spawned,   \* how many event bridges each run has spawned
  died,      \* where a process was when it died early, or None
  pidFile,   \* runtime/pids/supervisor.json: a run, or None if absent
  stack,     \* the compose stack: "none", "part" or "all" of it is up
  left,      \* history: runs that ended early, or whose last compose down did not
             \* do its work, since the stack was last taken down
  used       \* how much of Limit has been used

vars == <<pc, target, stopping, kids, spawned, died, pidFile, stack, left, used>>

\* In stop(); up to the end of compose up; between that and the handlers; after.
Stopping == {"read", "kill", "wait", "down", "unlink"}
StackUp  == {"instances", "grafana", "events", "gateway", "write", "handlers"}
Serving  == {"loop", "term", "finalDown", "finalUnlink"}
Ended    == {"done", "dead"}
PCs == {"idle", "up"} \cup Stopping \cup StackUp \cup Serving \cup Ended

ASSUME SupervisorAssumption ==
  /\ Runs \cap Stops = {}
  /\ None \notin Procs /\ None \notin PCs
  /\ Bridges \in Nat \ {0}
  /\ Limit \in [Kinds -> Nat]

\* Where a run may have children and has no signal handlers yet.
Unprotected == {"events", "gateway", "write", "handlers"}

\* Where the stack is, or may be, up on behalf of a run.
Holding == {"up"} \cup StackUp \cup {"loop", "term", "finalDown"}

Alive(p) == pc[p] \notin Ended \cup {"idle"}

Goto(p, label) == pc' = [pc EXCEPT ![p] = label]

Spend(kind) ==
  /\ used[kind] < Limit[kind]
  /\ used' = [used EXCEPT ![kind] = @ + 1]

\* Where p is now, a run may leave the stack behind.
LeaveStack(p) == left' = IF pc[p] \in Holding THEN left \cup {p} ELSE left

Leave(p) == died' = [died EXCEPT ![p] = pc[p]] /\ LeaveStack(p)

Die(p) == Goto(p, "dead") /\ Leave(p)

\* What a compose down that fails or breaks off may leave of the stack.
Broken(before) == {before, "part"}

Start(p) ==
  /\ pc[p] = "idle"
  /\ Goto(p, "read")
  /\ UNCHANGED <<target, stopping, kids, spawned, died, pidFile, stack, left, used>>

-----------------------------------------------------------------------------
\* stop()

\* A PID file that is absent, or still being written, names nobody.
ReadPid(p) ==
  /\ pc[p] = "read"
  /\ target' = [target EXCEPT ![p] = pidFile]
  /\ Goto(p, IF pidFile = None THEN "down" ELSE "kill")
  /\ UNCHANGED <<stopping, kids, spawned, died, pidFile, stack, left, used>>

\* A signal reaches run r, which has installed its handlers or has not.
Signalled(r) ==
  /\ pc[r] \in Serving
  /\ stopping' = [stopping EXCEPT ![r] = TRUE]
  /\ UNCHANGED <<died, left>>

\* os.kill(supervisor_pid, SIGTERM)
Kill(p) ==
  LET r == target[p] IN
  /\ pc[p] = "kill"
  /\ \/ ~Alive(r) /\ Goto(p, "down") /\ UNCHANGED <<stopping, died, left>>
     \/ Signalled(r) /\ Goto(p, "wait")
     \/ /\ Alive(r) /\ pc[r] \notin Serving
        /\ pc' = [pc EXCEPT ![p] = "wait", ![r] = "dead"]
        /\ Leave(r)
        /\ UNCHANGED stopping
  /\ UNCHANGED <<target, kids, spawned, pidFile, stack, used>>

\* The wait for the process ends after 5 s, whether it has ended or not.
Wait(p) ==
  /\ pc[p] = "wait"
  /\ Goto(p, "down")
  /\ UNCHANGED <<target, stopping, kids, spawned, died, pidFile, stack, left, used>>

\* docker compose down, check=False ...
Down(p) ==
  /\ pc[p] = "down"
  /\ stack' = "none"
  /\ left' = {}
  /\ Goto(p, "unlink")
  /\ UNCHANGED <<target, stopping, kids, spawned, died, pidFile, used>>

\* ... so that nobody notices when it fails, here or in run's finally block.
DownFails(p) ==
  /\ stack # "none"
  /\ Spend("fail")
  /\ stack' \in Broken(stack)
  /\ \/ pc[p] = "down" /\ Goto(p, "unlink")
     \/ pc[p] = "finalDown" /\ Goto(p, "finalUnlink")
  /\ LeaveStack(p)
  /\ UNCHANGED <<target, stopping, kids, spawned, died, pidFile>>

\* Mutant: stop() leaves its own PID in the file.
MutUnlink(p) ==
  /\ pc[p] = "unlink"
  /\ pidFile' = p
  /\ Goto(p, IF p \in Runs THEN "up" ELSE "done")
  /\ UNCHANGED <<target, stopping, kids, spawned, died, stack, left, used>>

Unlink(p) ==
  /\ pc[p] = "unlink"
  /\ pidFile' = None
  /\ Goto(p, IF p \in Runs THEN "up" ELSE "done")
  /\ UNCHANGED <<target, stopping, kids, spawned, died, stack, left, used>>

-----------------------------------------------------------------------------
\* run(), until it serves.

ComposeUp(p) ==
  /\ pc[p] = "up"
  /\ stack' = "all"
  /\ Goto(p, "instances")
  /\ UNCHANGED <<target, stopping, kids, spawned, died, pidFile, left, used>>

\* wait_until_instances_ready, then wait_until_grafana_ready.
Ready(p) ==
  /\ stack # "none"
  /\ \/ pc[p] = "instances" /\ Goto(p, "grafana")
     \/ pc[p] = "grafana" /\ Goto(p, "events")
  /\ UNCHANGED <<target, stopping, kids, spawned, died, pidFile, stack, left, used>>

\* TimeoutError when the stack, or the part that is asked, is not up.
NotReady(p) ==
  /\ pc[p] \in {"instances", "grafana"}
  /\ stack # "all"
  /\ Die(p)
  /\ UNCHANGED <<target, stopping, kids, spawned, pidFile, stack, used>>

\* Popen of the event bridges, one after the other, then of the gateway.
SpawnBridge(p) ==
  /\ pc[p] = "events" /\ spawned[p] < Bridges
  /\ spawned' = [spawned EXCEPT ![p] = @ + 1]
  /\ kids' = [kids EXCEPT ![p] = @ \cup {spawned[p] + 1}]
  /\ Goto(p, IF spawned[p] + 1 = Bridges THEN "gateway" ELSE "events")
  /\ UNCHANGED <<target, stopping, died, pidFile, stack, left, used>>

SpawnGateway(p) ==
  /\ pc[p] = "gateway"
  /\ kids' = [kids EXCEPT ![p] = @ \cup {Gateway}]
  /\ Goto(p, "write")
  /\ UNCHANGED <<target, stopping, spawned, died, pidFile, stack, left, used>>

WritePidFile(p) ==
  /\ pc[p] = "write"
  /\ pidFile' = p
  /\ Goto(p, "handlers")
  /\ UNCHANGED <<target, stopping, kids, spawned, died, stack, left, used>>

InstallHandlers(p) ==
  /\ pc[p] = "handlers"
  /\ Goto(p, "loop")
  /\ UNCHANGED <<target, stopping, kids, spawned, died, pidFile, stack, left, used>>

-----------------------------------------------------------------------------
\* run(), the loop and the finally block.

\* Mutant: the flag that request_stop sets is never looked at.
MutLeaveLoop(p) ==
  /\ pc[p] = "loop"
  /\ kids[p] # Children
  /\ Goto(p, "term")
  /\ UNCHANGED <<target, stopping, kids, spawned, died, pidFile, stack, left, used>>

LeaveLoop(p) ==
  /\ pc[p] = "loop"
  /\ stopping[p] \/ kids[p] # Children
  /\ Goto(p, "term")
  /\ UNCHANGED <<target, stopping, kids, spawned, died, pidFile, stack, left, used>>

NextKid(p) == CHOOSE c \in kids[p] : \A d \in kids[p] : c <= d

\* Mutant: the last event bridge is forgotten.
MutTerminate(p) ==
  /\ pc[p] = "term"
  /\ IF kids[p] \subseteq {Bridges}
       THEN Goto(p, "finalDown") /\ UNCHANGED kids
       ELSE kids' = [kids EXCEPT ![p] = @ \ {NextKid(p)}] /\ UNCHANGED pc
  /\ UNCHANGED <<target, stopping, spawned, died, pidFile, stack, left, used>>

\* _terminate, which kills a child that has not ended 10 s after SIGTERM.
Terminate(p) ==
  /\ pc[p] = "term"
  /\ IF kids[p] = {}
       THEN Goto(p, "finalDown") /\ UNCHANGED kids
       ELSE kids' = [kids EXCEPT ![p] = @ \ {NextKid(p)}] /\ UNCHANGED pc
  /\ UNCHANGED <<target, stopping, spawned, died, pidFile, stack, left, used>>

\* Mutant: the stack is left to the next stop().
MutFinalDown(p) ==
  /\ pc[p] = "finalDown"
  /\ Goto(p, "finalUnlink")
  /\ UNCHANGED <<target, stopping, kids, spawned, died, pidFile, stack, left, used>>

FinalDown(p) ==
  /\ pc[p] = "finalDown"
  /\ stack' = "none"
  /\ left' = {}
  /\ Goto(p, "finalUnlink")
  /\ UNCHANGED <<target, stopping, kids, spawned, died, pidFile, used>>

\* Whoever wrote the PID file, it is removed.
FinalUnlink(p) ==
  /\ pc[p] = "finalUnlink"
  /\ pidFile' = None
  /\ Goto(p, "done")
  /\ UNCHANGED <<target, stopping, kids, spawned, died, stack, left, used>>

-----------------------------------------------------------------------------
\* The environment.

\* Ctrl-C: KeyboardInterrupt, or request_stop once the handlers are installed.  A
\* compose command that is running gets it too.
Interrupt(p) ==
  /\ Alive(p)
  /\ Spend("interrupt")
  /\ \/ p \in Runs /\ Signalled(p) /\ UNCHANGED <<pc, stack>>
     \/ /\ pc[p] = "finalDown" /\ Goto(p, "finalUnlink")
        /\ stopping' = [stopping EXCEPT ![p] = TRUE]
        /\ stack # "none" /\ stack' \in Broken(stack)
        /\ LeaveStack(p)
        /\ UNCHANGED died
     \/ /\ pc[p] \notin Serving /\ Die(p)
        /\ \/ UNCHANGED stack
           \/ pc[p] = "up" /\ stack' = "part"
           \/ pc[p] = "down" /\ stack # "none" /\ stack' = "part"
        /\ UNCHANGED stopping
  /\ UNCHANGED <<target, kids, spawned, pidFile>>

\* Compose, a wait, a Popen or the write of the PID file raises; compose up may
\* have started a part.
StartFails(p) ==
  /\ pc[p] \in {"up"} \cup (StackUp \ {"handlers"})
  /\ Spend("fail")
  /\ Die(p)
  /\ \/ UNCHANGED stack
     \/ pc[p] = "up" /\ stack' = "part"
  /\ UNCHANGED <<target, stopping, kids, spawned, pidFile>>

\* _compose raises before it runs compose down: Docker Compose is not found.
DownRaises(p) ==
  /\ pc[p] \in {"down", "finalDown"}
  /\ Spend("fail")
  /\ Die(p)
  /\ UNCHANGED <<target, stopping, kids, spawned, pidFile, stack>>

ChildExits(p, c) ==
  /\ c \in kids[p]
  /\ Spend("exit")
  /\ kids' = [kids EXCEPT ![p] = @ \ {c}]
  /\ UNCHANGED <<pc, target, stopping, spawned, died, pidFile, stack, left>>

Init ==
  /\ pc = [p \in Procs |-> "idle"]
  /\ target = [p \in Procs |-> None]
  /\ stopping = [p \in Runs |-> FALSE]
  /\ kids = [p \in Runs |-> {}]
  /\ spawned = [p \in Runs |-> 0]
  /\ died = [p \in Procs |-> None]
  /\ pidFile = None
  /\ stack = "none"
  /\ left = {}
  /\ used = [k \in Kinds |-> 0]

StopSteps(p) == ReadPid(p) \/ Kill(p) \/ Wait(p) \/ Down(p) \/ Unlink(p)
RunSteps(p) ==
  \/ ComposeUp(p) \/ Ready(p) \/ NotReady(p)
  \/ SpawnBridge(p) \/ SpawnGateway(p)
  \/ WritePidFile(p) \/ InstallHandlers(p)
  \/ LeaveLoop(p) \/ Terminate(p) \/ FinalDown(p) \/ FinalUnlink(p)

Next == \/ \E p \in Procs : Start(p) \/ StopSteps(p) \/ RunSteps(p)
        \/ \E p \in Procs : Interrupt(p) \/ DownFails(p) \/ DownRaises(p)
        \/ \E p \in Runs : StartFails(p)
        \/ \E p \in Runs, c \in Children : ChildExits(p, c)

Spec == Init /\ [][Next]_vars

\* A process that was started is scheduled; its own waits are bounded, and the compose
\* commands, which have no timeout, are assumed to return.
FairSpec == Spec /\ \A p \in Procs : WF_vars(StopSteps(p) \/ RunSteps(p))

-----------------------------------------------------------------------------
TypeOK ==
  /\ pc \in [Procs -> PCs]
  /\ target \in [Procs -> Runs \cup {None}]
  /\ stopping \in [Runs -> BOOLEAN]
  /\ kids \in [Runs -> SUBSET Children]
  /\ spawned \in [Runs -> 0..Bridges]
  /\ died \in [Procs -> PCs \cup {None}]
  /\ pidFile \in Runs \cup {None}
  /\ stack \in {"none", "part", "all"}
  /\ left \subseteq Runs
  /\ used \in [Kinds -> Nat]

\* Event bridges and gateways run without their supervisor only if it died after
\* it had spawned some of them and before it had installed its signal handlers:
\* no order of signals, exits and concurrent commands orphans them later.
NoLateOrphans ==
  \A p \in Runs : kids[p] # {} /\ pc[p] \in Ended => died[p] \in Unprotected

\* Whatever is up of the stack is up on behalf of a run that is alive, or was left,
\* since the stack was last taken down, by one that ended before it served or whose
\* own compose down failed, raised or was broken off: no order of concurrent runs
\* and stops leaves it behind otherwise.
StackOwned ==
  stack # "none" => left # {} \/ \E p \in Runs : pc[p] \in Holding

\* Once stop() has signalled a supervisor, it and its children end, even if stop()
\* no longer waits for them, unless the signal found it without handlers.
StopReaches ==
  \A p \in Procs, r \in Runs :
    pc[p] = "wait" /\ target[p] = r
      ~> pc[r] \in Ended /\ (kids[r] = {} \/ died[r] \in Unprotected)

\* server/Makefile:91, "Stop only this project's stack and owned processes": a run
\* that has brought the stack up when the stop command starts ends, and its children
\* with it.
StopStops ==
  \A s \in Stops, r \in Runs :
    pc[s] = "read" /\ pc[r] \in StackUp ~> pc[r] \in Ended /\ kids[r] = {}
=============================================================================
