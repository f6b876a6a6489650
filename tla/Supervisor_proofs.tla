-------------------------- MODULE Supervisor_proofs --------------------------
(***************************************************************************)
(* Proofs about Supervisor, for any number of run and stop commands and of *)
(* signals, failures and exits: which processes may be left without their  *)
(* supervisor, and on whose behalf the stack is up.                        *)
(***************************************************************************)
EXTENDS Supervisor, TLAPS

-----------------------------------------------------------------------------
\* The facts about the constants that the proofs below use, by themselves.
LEMMA ConstantFacts ==
  Runs \cap Stops = {} /\ None \notin Procs /\ None \notin PCs /\ Bridges \in Nat \ {0}
BY SupervisorAssumption DEF SupervisorAssumption

\* Spending one event of a kind leaves every count a natural number.
LEMMA SpendType ==
  ASSUME used \in [Kinds -> Nat], NEW kind \in Kinds, Spend(kind)
  PROVE  used' \in [Kinds -> Nat]
  BY DEF Spend

(***************************************************************************)
(* TypeOK is not inductive: that the PID file names a run rests on stop    *)
(* commands never getting beyond stop(), and that a run is signalled, on a *)
(* PID having been read before.                                            *)
(***************************************************************************)

Roles ==
  /\ \A s \in Stops : pc[s] \in {"idle"} \cup Ended \cup Stopping
  /\ \A p \in Procs : pc[p] \in {"kill", "wait"} => target[p] \in Runs

\* Initially no process has been started.
LEMMA InitRoles == ASSUME Init PROVE TypeOK /\ Roles
  BY ConstantFacts DEF Init, TypeOK, Roles, PCs, Procs, Stopping, StackUp, Serving, Ended

\* A process that goes on keeps the roles apart, and the labels known.
LEMMA GotoRoles ==
  ASSUME TypeOK, Roles, NEW p \in Procs, NEW label \in PCs, Goto(p, label),
         p \in Stops => label \in {"idle"} \cup Ended \cup Stopping,
         label \in {"kill", "wait"} => target'[p] \in Runs,
         \A q \in Procs \ {p} : target'[q] = target[q]
  PROVE  pc' \in [Procs -> PCs] /\ Roles'
  BY DEF TypeOK, Roles, Goto, Procs

\* Whoever leaves is remembered; only runs are, as having left the stack.
LEMMA LeaveType ==
  ASSUME TypeOK, Roles, NEW p \in Procs, LeaveStack(p)
  PROVE  /\ left' \subseteq Runs
         /\ Leave(p) => died' \in [Procs -> PCs \cup {None}]
<1>1. Leave(p) => died' \in [Procs -> PCs \cup {None}]
  BY DEF Leave, TypeOK
<1>2. pc[p] \in Holding => p \in Runs
  BY DEF Roles, Procs, Holding, StackUp, Stopping, Ended
<1> QED
  BY <1>1, <1>2 DEF LeaveStack, TypeOK

\* So does one that dies.
LEMMA DieRoles ==
  ASSUME TypeOK, Roles, NEW p \in Procs, Die(p), UNCHANGED target
  PROVE  /\ pc' \in [Procs -> PCs] /\ Roles'
         /\ died' \in [Procs -> PCs \cup {None}] /\ left' \subseteq Runs
<1>1. "dead" \in PCs /\ "dead" \in Ended
  BY DEF PCs, Ended
<1>2. pc' \in [Procs -> PCs] /\ Roles'
  BY <1>1, GotoRoles DEF Die
<1> QED
  BY <1>2, LeaveType DEF Die, Leave

\* Type correctness and the roles, together: a stop command is only ever in stop(),
\* so the PID file names a run, and so does every PID that stop() read.
LEMMA TypeNext ==
  ASSUME TypeOK, Roles, [Next]_vars
  PROVE  TypeOK' /\ Roles'
<1> USE DEF PCs, Stopping, StackUp, Serving, Ended
<1>1. ASSUME NEW p \in Procs, Start(p) PROVE TypeOK' /\ Roles'
  BY <1>1, GotoRoles DEF Start, TypeOK
<1>2. ASSUME NEW p \in Procs, ReadPid(p) PROVE TypeOK' /\ Roles'
  <2>1. /\ target' \in [Procs -> Runs \cup {None}]
        /\ target'[p] = pidFile
        /\ \A q \in Procs \ {p} : target'[q] = target[q]
    BY <1>2 DEF ReadPid, TypeOK
  <2>2. pidFile # None => target'[p] \in Runs
    BY <2>1 DEF TypeOK
  <2>3. pc' \in [Procs -> PCs] /\ Roles'
    <3>1. CASE pidFile = None
      BY <1>2, <2>1, <3>1, GotoRoles DEF ReadPid
    <3>2. CASE pidFile # None
      BY <1>2, <2>1, <2>2, <3>2, GotoRoles DEF ReadPid
    <3> QED
      BY <3>1, <3>2
  <2> QED
    BY <1>2, <2>1, <2>3 DEF ReadPid, TypeOK
<1>3. ASSUME NEW p \in Procs, Kill(p) PROVE TypeOK' /\ Roles'
  <2> DEFINE r == target[p]
  <2>1. r \in Runs /\ r \in Procs
    BY <1>3 DEF Kill, Roles, Procs
  <2> HIDE DEF r
  <2>2. CASE ~Alive(r) /\ Goto(p, "down") /\ UNCHANGED <<stopping, died, left>>
    BY <1>3, <2>2, GotoRoles DEF Kill, TypeOK
  <2>3. CASE Signalled(r) /\ Goto(p, "wait")
    <3>1. stopping' \in [Runs -> BOOLEAN] /\ UNCHANGED <<died, left>>
      BY <2>3 DEF Signalled, TypeOK
    <3>2. target'[p] \in Runs
      BY <1>3, <2>1 DEF Kill, r
    <3> QED
      BY <1>3, <2>3, <3>1, <3>2, GotoRoles DEF Kill, TypeOK
  <2>4. CASE /\ Alive(r) /\ pc[r] \notin Serving
             /\ pc' = [pc EXCEPT ![p] = "wait", ![r] = "dead"]
             /\ Leave(r)
             /\ UNCHANGED stopping
    <3>1. pc' \in [Procs -> PCs]
      BY <2>1, <2>4 DEF TypeOK, Procs
    <3>2. Roles'
      BY <1>3, <2>1, <2>4, ConstantFacts DEF Kill, TypeOK, Roles, Procs, r
    <3>3. died' \in [Procs -> PCs \cup {None}] /\ left' \subseteq Runs
      BY <2>1, <2>4, LeaveType DEF Leave
    <3> QED
      BY <1>3, <2>4, <3>1, <3>2, <3>3 DEF Kill, TypeOK
  <2> QED
    BY <1>3, <2>2, <2>3, <2>4 DEF Kill, r
<1>4. ASSUME NEW p \in Procs, Wait(p) PROVE TypeOK' /\ Roles'
  BY <1>4, GotoRoles DEF Wait, TypeOK
<1>5. ASSUME NEW p \in Procs, Down(p) PROVE TypeOK' /\ Roles'
  BY <1>5, GotoRoles DEF Down, TypeOK
\* What a compose command that breaks off leaves of the stack.
<1>0. Broken(stack) \subseteq {"none", "part", "all"}
  BY DEF TypeOK, Broken
<1>6. ASSUME NEW p \in Procs, Unlink(p) PROVE TypeOK' /\ Roles'
  <2>1. CASE p \in Runs
    BY <1>6, <2>1, GotoRoles, ConstantFacts DEF Unlink, TypeOK
  <2>2. CASE p \notin Runs
    BY <1>6, <2>2, GotoRoles DEF Unlink, TypeOK
  <2> QED
    BY <2>1, <2>2
\* The rest of run() is not for stop commands.
<1>7. ASSUME NEW p \in Procs, pc[p] \notin {"idle"} \cup Ended \cup Stopping
      PROVE  p \in Runs /\ p \notin Stops
  BY <1>7, ConstantFacts DEF Roles, Procs
<1>8. ASSUME NEW p \in Procs, RunSteps(p) PROVE TypeOK' /\ Roles'
  <2>1. p \in Runs /\ p \notin Stops
    BY <1>7, <1>8
    DEF RunSteps, ComposeUp, Ready, NotReady, SpawnBridge, SpawnGateway, WritePidFile,
        InstallHandlers, LeaveLoop, Terminate, FinalDown, FinalUnlink
  <2>2. CASE ComposeUp(p) \/ FinalDown(p)
    BY <2>1, <2>2, GotoRoles DEF ComposeUp, FinalDown, TypeOK
  <2>3. CASE Ready(p) \/ InstallHandlers(p) \/ LeaveLoop(p)
    BY <2>1, <2>3, GotoRoles DEF Ready, InstallHandlers, LeaveLoop, TypeOK
  <2>4. CASE NotReady(p)
    BY <2>1, <2>4, DieRoles DEF NotReady, TypeOK
  <2>5. CASE SpawnBridge(p)
    <3>1. spawned[p] + 1 \in 0..Bridges /\ spawned[p] + 1 \in Children
      BY <2>1, <2>5, ConstantFacts DEF SpawnBridge, TypeOK, Children, Gateway
    <3>2. kids' \in [Runs -> SUBSET Children] /\ spawned' \in [Runs -> 0..Bridges]
      BY <2>1, <2>5, <3>1 DEF SpawnBridge, TypeOK
    <3>3. pc' \in [Procs -> PCs] /\ Roles'
      <4>1. CASE spawned[p] + 1 = Bridges
        BY <2>1, <2>5, <4>1, GotoRoles DEF SpawnBridge, TypeOK
      <4>2. CASE spawned[p] + 1 # Bridges
        BY <2>1, <2>5, <4>2, GotoRoles DEF SpawnBridge, TypeOK
      <4> QED
        BY <4>1, <4>2
    <3> QED
      BY <2>5, <3>2, <3>3 DEF SpawnBridge, TypeOK
  <2>6. CASE SpawnGateway(p)
    <3>1. kids' \in [Runs -> SUBSET Children]
      BY <2>1, <2>6, ConstantFacts DEF SpawnGateway, TypeOK, Children, Gateway
    <3> QED
      BY <2>1, <2>6, <3>1, GotoRoles DEF SpawnGateway, TypeOK
  <2>7. CASE WritePidFile(p) \/ FinalUnlink(p)
    BY <2>1, <2>7, GotoRoles DEF WritePidFile, FinalUnlink, TypeOK
  <2>8. CASE Terminate(p)
    <3>1. CASE kids[p] = {}
      BY <2>1, <2>8, <3>1, GotoRoles DEF Terminate, TypeOK
    <3>2. CASE kids[p] # {}
      <4>1. kids' \in [Runs -> SUBSET Children]
        BY <2>1, <2>8, <3>2 DEF Terminate, TypeOK
      <4> QED
        BY <2>8, <3>2, <4>1 DEF Terminate, TypeOK, Roles
    <3> QED
      BY <3>1, <3>2
  <2> QED
    BY <1>8, <2>2, <2>3, <2>4, <2>5, <2>6, <2>7, <2>8 DEF RunSteps
<1>9. ASSUME NEW p \in Procs, Interrupt(p) PROVE TypeOK' /\ Roles'
  <2>1. used' \in [Kinds -> Nat]
    BY <1>9, SpendType DEF Interrupt, Kinds, TypeOK
  <2>2. CASE p \in Runs /\ Signalled(p) /\ UNCHANGED <<pc, stack>>
    BY <1>9, <2>1, <2>2 DEF Interrupt, Signalled, TypeOK, Roles
  <2>3. CASE /\ pc[p] = "finalDown" /\ Goto(p, "finalUnlink")
             /\ stopping' = [stopping EXCEPT ![p] = TRUE]
             /\ stack' \in Broken(stack)
             /\ LeaveStack(p)
             /\ UNCHANGED died
    <3>1. p \in Runs /\ p \notin Stops
      BY <1>7, <2>3
    <3>2. stopping' \in [Runs -> BOOLEAN] /\ left' \subseteq Runs
      BY <2>3, <3>1, LeaveType DEF TypeOK
    <3>3. pc' \in [Procs -> PCs] /\ Roles'
      BY <1>9, <2>3, <3>1, GotoRoles DEF Interrupt
    <3> QED
      BY <1>9, <1>0, <2>1, <2>3, <3>2, <3>3 DEF Interrupt, TypeOK
  <2>4. CASE Die(p) /\ stack' \in {stack, "part"} /\ UNCHANGED stopping
    BY <1>9, <2>1, <2>4, DieRoles DEF Interrupt, TypeOK
  <2> QED
    BY <1>9, <2>2, <2>3, <2>4 DEF Interrupt
<1>10. ASSUME NEW p \in Procs, DownFails(p) \/ DownRaises(p) PROVE TypeOK' /\ Roles'
  <2>1. used' \in [Kinds -> Nat]
    BY <1>10, SpendType DEF DownFails, DownRaises, Kinds, TypeOK
  <2>2. CASE DownFails(p)
    <3>1. pc' \in [Procs -> PCs] /\ Roles' /\ left' \subseteq Runs
      BY <1>7, <2>2, GotoRoles, LeaveType DEF DownFails
    <3> QED
      BY <1>0, <2>1, <2>2, <3>1 DEF DownFails, TypeOK
  <2>3. CASE DownRaises(p)
    BY <2>1, <2>3, DieRoles DEF DownRaises, TypeOK
  <2> QED
    BY <1>10, <2>2, <2>3
<1>11. ASSUME NEW p \in Runs, StartFails(p) PROVE TypeOK' /\ Roles'
  <2>1. used' \in [Kinds -> Nat] /\ p \in Procs
    BY <1>11, SpendType DEF StartFails, Kinds, TypeOK, Procs
  <2> QED
    BY <1>11, <2>1, DieRoles DEF StartFails, TypeOK
<1>12. ASSUME NEW p \in Runs, NEW c \in Children, ChildExits(p, c)
       PROVE  TypeOK' /\ Roles'
  <2>1. used' \in [Kinds -> Nat] /\ kids' \in [Runs -> SUBSET Children]
    BY <1>12, SpendType DEF ChildExits, Kinds, TypeOK
  <2> QED
    BY <1>12, <2>1 DEF ChildExits, TypeOK, Roles
<1>13. CASE UNCHANGED vars
  BY <1>13 DEF vars, TypeOK, Roles
<1> QED
  BY <1>1, <1>2, <1>3, <1>4, <1>5, <1>6, <1>8, <1>9, <1>10, <1>11, <1>12, <1>13
     DEF Next, StopSteps

\* Whatever commands overlap, the PID file names a run and every process is at a
\* place of the code of its own command.
THEOREM TypeCorrect == Spec => []TypeOK
<1>1. Init => TypeOK /\ Roles
  BY InitRoles
<1>2. TypeOK /\ Roles /\ [Next]_vars => TypeOK' /\ Roles'
  BY TypeNext
<1> QED
  BY <1>1, <1>2, PTL DEF Spec

-----------------------------------------------------------------------------
(***************************************************************************)
(* What a step may do to a run: nothing but take children from it, take it *)
(* further, or end it where it does not catch signals and exceptions.  The *)
(* two invariants follow from this alone, with the fact that a run is      *)
(* marked as died only then, and has no children at its last compose down. *)
(***************************************************************************)

\* Where a run may have children.
Parent == Unprotected \cup {"loop", "term"}

Stays(q) == pc'[q] = pc[q] /\ died'[q] = died[q] /\ kids'[q] \subseteq kids[q]

Moves(q) ==
  /\ pc[q] # "dead" /\ pc'[q] # "dead" /\ died'[q] = died[q]
  /\ pc[q] \in Holding => pc'[q] \in Holding \/ stack' = "none" \/ q \in left'
  /\ kids'[q] # {} => pc'[q] \in Parent \/ (pc[q] \notin Parent /\ kids'[q] = kids[q])

Dies(q) ==
  /\ pc[q] \notin {"loop", "term", "finalUnlink"} \cup Ended /\ pc'[q] = "dead"
  /\ died'[q] = pc[q] /\ kids'[q] = kids[q]
  /\ pc[q] \in Holding => q \in left'

\* A process that leaves early does so to itself alone.
LEMMA DieEffect ==
  ASSUME TypeOK, NEW p \in Procs, Die(p), pc[p] \notin {"loop", "term", "finalUnlink"} \cup Ended,
         UNCHANGED kids, NEW q \in Runs
  PROVE  Stays(q) \/ Dies(q)
<1>0. q \in Procs
  BY DEF Procs
<1>1. CASE q = p
  BY <1>0, <1>1 DEF Die, Leave, LeaveStack, Goto, TypeOK, Dies
<1>2. CASE q # p
  BY <1>0, <1>2 DEF Die, Leave, Goto, TypeOK, Stays
<1> QED
  BY <1>1, <1>2

\* Every step does one of the three to each run.
LEMMA RunEffect ==
  ASSUME TypeOK, Roles, [Next]_vars, NEW q \in Runs
  PROVE  Stays(q) \/ Moves(q) \/ Dies(q)
<1> USE DEF Parent, Holding, Unprotected, Stopping, StackUp, Serving, Ended
<1>0. q \in Procs
  BY DEF Procs
<1>1. ASSUME NEW p \in Procs,
             Start(p) \/ Wait(p) \/ Down(p) \/ DownFails(p) \/ Unlink(p) \/ ReadPid(p)
      PROVE  Stays(q) \/ Moves(q)
  BY <1>0, <1>1
  DEF Start, Wait, Down, DownFails, LeaveStack, Unlink, ReadPid, Goto, TypeOK, Stays, Moves
<1>2. ASSUME NEW p \in Procs, Kill(p) PROVE Stays(q) \/ Moves(q) \/ Dies(q)
  <2> DEFINE r == target[p]
  <2>1. r \in Runs /\ r \in Procs
    BY <1>2 DEF Kill, Roles, Procs
  <2> HIDE DEF r
  <2>2. CASE /\ Goto(p, "down") \/ Goto(p, "wait")
             /\ UNCHANGED died
    BY <1>0, <1>2, <2>2 DEF Kill, Goto, TypeOK, Stays, Moves
  <2>3. CASE /\ Alive(r) /\ pc[r] \notin Serving
             /\ pc' = [pc EXCEPT ![p] = "wait", ![r] = "dead"]
             /\ Leave(r)
    <3>1. CASE q = r
      BY <1>0, <1>2, <2>1, <2>3, <3>1 DEF Kill, Alive, Leave, LeaveStack, TypeOK, Dies
    <3>2. CASE q # r
      BY <1>0, <1>2, <2>1, <2>3, <3>2 DEF Kill, Leave, TypeOK, Stays, Moves
    <3> QED
      BY <3>1, <3>2
  <2> QED
    BY <1>2, <2>2, <2>3 DEF Kill, Signalled, r
<1>3. ASSUME NEW p \in Procs,
             ComposeUp(p) \/ Ready(p) \/ WritePidFile(p) \/ InstallHandlers(p)
      PROVE  Stays(q) \/ Moves(q)
  BY <1>0, <1>3
  DEF ComposeUp, Ready, WritePidFile, InstallHandlers, Goto, TypeOK, Stays, Moves
<1>4. ASSUME NEW p \in Procs, SpawnBridge(p) \/ SpawnGateway(p) PROVE Stays(q) \/ Moves(q)
  <2>1. CASE q = p
    BY <1>0, <1>4, <2>1 DEF SpawnBridge, SpawnGateway, Goto, TypeOK, Moves
  <2>2. CASE q # p
    BY <1>0, <1>4, <2>2 DEF SpawnBridge, SpawnGateway, Goto, TypeOK, Stays
  <2> QED
    BY <2>1, <2>2
<1>5. ASSUME NEW p \in Procs, Terminate(p) PROVE Stays(q) \/ Moves(q)
  <2>1. CASE kids[p] = {}
    BY <1>0, <1>5, <2>1 DEF Terminate, Goto, TypeOK, Stays, Moves
  <2>2. CASE kids[p] # {}
    BY <1>0, <1>5, <2>2 DEF Terminate, TypeOK, Stays
  <2> QED
    BY <2>1, <2>2
<1>6. ASSUME NEW p \in Procs, LeaveLoop(p) \/ FinalDown(p) \/ FinalUnlink(p)
      PROVE  Stays(q) \/ Moves(q)
  BY <1>0, <1>6
  DEF LeaveLoop, FinalDown, FinalUnlink, Goto, TypeOK, Stays, Moves
<1>7. ASSUME NEW p \in Procs, NotReady(p) \/ DownRaises(p) \/ StartFails(p)
      PROVE  Stays(q) \/ Dies(q)
  BY <1>7, DieEffect DEF NotReady, DownRaises, StartFails
<1>8. ASSUME NEW p \in Procs, Interrupt(p) PROVE Stays(q) \/ Moves(q) \/ Dies(q)
  <2>1. CASE Signalled(p) /\ UNCHANGED pc
    BY <1>8, <2>1 DEF Interrupt, Signalled, Stays
  <2>2. CASE /\ pc[p] = "finalDown" /\ Goto(p, "finalUnlink")
             /\ LeaveStack(p)
             /\ UNCHANGED died
    BY <1>0, <1>8, <2>2 DEF Interrupt, LeaveStack, Goto, TypeOK, Stays, Moves
  <2>3. CASE pc[p] \notin Serving /\ Die(p)
    BY <1>8, <2>3, DieEffect DEF Interrupt, Alive
  <2> QED
    BY <1>8, <2>1, <2>2, <2>3 DEF Interrupt
<1>9. ASSUME NEW p \in Runs, NEW c \in Children, ChildExits(p, c) PROVE Stays(q)
  BY <1>9 DEF ChildExits, TypeOK, Stays
<1>10. CASE UNCHANGED vars
  BY <1>10 DEF vars, Stays
<1> QED
  BY <1>1, <1>2, <1>3, <1>4, <1>5, <1>6, <1>7, <1>8, <1>9, <1>10
     DEF Next, StopSteps, RunSteps, Procs

\* A run is marked as died only when it is dead, and has children only where it
\* serves or is about to, or if it died there.
Mourned == \A p \in Runs : died[p] # None => pc[p] = "dead"
KidsCaredFor ==
  \A p \in Runs : kids[p] # {} => pc[p] \in Parent \/ died[p] \in Unprotected

\* Both hold initially and are kept by every step.
LEMMA KidsInvariant ==
  /\ Init => Mourned /\ KidsCaredFor
  /\ TypeOK /\ Roles /\ Mourned /\ KidsCaredFor /\ [Next]_vars => Mourned' /\ KidsCaredFor'
<1>1. Init => Mourned /\ KidsCaredFor
  BY DEF Init, Mourned, KidsCaredFor, Procs
<1>2. ASSUME TypeOK, Roles, Mourned, KidsCaredFor, [Next]_vars, NEW q \in Runs
      PROVE  /\ died'[q] # None => pc'[q] = "dead"
             /\ kids'[q] # {} => pc'[q] \in Parent \/ died'[q] \in Unprotected
  <2>1. CASE Stays(q)
    BY <1>2, <2>1 DEF Stays, Mourned, KidsCaredFor
  <2>2. CASE Moves(q)
    BY <1>2, <2>2 DEF Moves, Mourned, KidsCaredFor
  <2>3. CASE Dies(q)
    <3>1. died[q] = None
      BY <1>2, <2>3 DEF Dies, Mourned, Ended
    <3>2. kids[q] # {} => pc[q] \in Parent
      BY <1>2, <3>1, ConstantFacts DEF KidsCaredFor, PCs, StackUp, Unprotected
    <3> QED
      BY <2>3, <3>2 DEF Dies, Parent
  <2> QED
    BY <1>2, <2>1, <2>2, <2>3, RunEffect
<1> QED
  BY <1>1, <1>2 DEF Mourned, KidsCaredFor

\* For any number of commands, bridges, signals and failures, only a supervisor that
\* died between its first Popen and its signal handlers leaves children behind.
THEOREM OrphansAreEarly == Spec => []NoLateOrphans
<1>1. Init => TypeOK /\ Roles /\ Mourned /\ KidsCaredFor
  BY InitRoles, KidsInvariant
<1>2. TypeOK /\ Roles /\ Mourned /\ KidsCaredFor /\ [Next]_vars
        => TypeOK' /\ Roles' /\ Mourned' /\ KidsCaredFor'
  BY TypeNext, KidsInvariant
<1>3. KidsCaredFor => NoLateOrphans
  BY DEF KidsCaredFor, NoLateOrphans, Parent, Unprotected, Ended
<1> QED
  BY <1>1, <1>2, <1>3, PTL DEF Spec

\* Only a compose down that does its work makes the program forget who left the
\* stack, and a stack that comes up has a run that brings it up or fails at it.
LEMMA StackEffect ==
  ASSUME TypeOK, Roles, [Next]_vars, stack' # "none"
  PROVE  /\ left \subseteq left'
         /\ stack # "none" \/ left' # {} \/ \E p \in Runs : pc'[p] \in Holding
<1>1. ASSUME NEW p \in Procs, Die(p)
      PROVE  left \subseteq left' /\ (pc[p] = "up" => left' # {})
  BY <1>1 DEF Die, Leave, LeaveStack, Holding
<1>2. ASSUME NEW p \in Procs, ComposeUp(p)
      PROVE  left \subseteq left' /\ \E q \in Runs : pc'[q] \in Holding
  <2>1. p \in Runs /\ pc'[p] = "instances"
    BY <1>2 DEF ComposeUp, Goto, TypeOK, Roles, Procs, Stopping, Ended
  <2> QED
    BY <1>2, <2>1 DEF ComposeUp, Holding, StackUp
<1>3. ASSUME NEW p \in Procs, Kill(p)
      PROVE  left \subseteq left' /\ stack' = stack
  BY <1>3 DEF Kill, Signalled, Leave, LeaveStack
<1>4. ASSUME NEW p \in Procs,
             Start(p) \/ ReadPid(p) \/ Wait(p) \/ Unlink(p) \/ Ready(p) \/ SpawnBridge(p)
               \/ SpawnGateway(p) \/ WritePidFile(p) \/ InstallHandlers(p) \/ LeaveLoop(p)
               \/ Terminate(p) \/ FinalUnlink(p)
      PROVE  left' = left /\ stack' = stack
  BY <1>4
  DEF Start, ReadPid, Wait, Unlink, Ready, SpawnBridge, SpawnGateway, WritePidFile,
      InstallHandlers, LeaveLoop, Terminate, FinalUnlink
<1>5. ASSUME NEW p \in Procs, Down(p) \/ FinalDown(p) PROVE FALSE
  BY <1>5 DEF Down, FinalDown
<1>6. ASSUME NEW p \in Procs, DownFails(p)
      PROVE  left \subseteq left' /\ stack # "none"
  BY <1>6 DEF DownFails, LeaveStack
<1>7. ASSUME NEW p \in Procs, NotReady(p) \/ DownRaises(p) \/ StartFails(p)
      PROVE  left \subseteq left' /\ (stack # "none" \/ left' # {})
  BY <1>1, <1>7 DEF NotReady, DownRaises, StartFails
<1>8. ASSUME NEW p \in Procs, Interrupt(p)
      PROVE  left \subseteq left' /\ (stack # "none" \/ left' # {})
  BY <1>1, <1>8 DEF Interrupt, Signalled, LeaveStack
<1> QED
  BY <1>2, <1>3, <1>4, <1>5, <1>6, <1>7, <1>8
     DEF Next, StopSteps, RunSteps, ChildExits, vars, Procs

\* Whatever is up of the stack has a run that is alive or that is known to have left
\* it, for any number of commands, signals and compose commands that fail.
THEOREM StackIsOwned == Spec => []StackOwned
<1> DEFINE Inv == TypeOK /\ Roles /\ Mourned /\ KidsCaredFor /\ StackOwned
<1>1. Init => Inv
  BY InitRoles, KidsInvariant DEF Init, StackOwned
<1>2. Inv /\ [Next]_vars => Inv'
  <2> SUFFICES ASSUME Inv, [Next]_vars PROVE Inv'
    OBVIOUS
  <2>1. TypeOK' /\ Roles' /\ Mourned' /\ KidsCaredFor'
    BY TypeNext, KidsInvariant
  <2>2. ASSUME stack' # "none" PROVE left' # {} \/ \E q \in Runs : pc'[q] \in Holding
    <3>1. CASE stack = "none" \/ left # {}
      BY <2>2, <3>1, StackEffect
    <3>2. CASE stack # "none" /\ left = {}
      <4>1. PICK q \in Runs : pc[q] \in Holding
        BY <3>2 DEF StackOwned
      <4>2. CASE Stays(q)
        BY <4>1, <4>2 DEF Stays
      <4>3. CASE Moves(q)
        BY <2>2, <4>1, <4>3 DEF Moves
      <4>4. CASE Dies(q)
        BY <4>1, <4>4 DEF Dies
      <4> QED
        BY <4>2, <4>3, <4>4, RunEffect
    <3> QED
      BY <3>1, <3>2
  <2> QED
    BY <2>1, <2>2 DEF StackOwned
<1> QED
  <2>1. Inv => StackOwned
    OBVIOUS
  <2> QED
    BY <1>1, <1>2, <2>1, PTL DEF Spec
=============================================================================
