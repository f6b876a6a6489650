---------------------------- MODULE Prepare_proofs ----------------------------
(***************************************************************************)
(* Proofs about Prepare, for any names, dictionaries, deployments files and *)
(* numbers of attempts: the types, one secret key, what a prepare that     *)
(* returned has left on disk, and what the server makes of it.             *)
(***************************************************************************)
EXTENDS Prepare, TLAPS

LEMMA ConstantFacts ==
  /\ GroundName \in Names /\ Base \in Nat /\ Files \subseteq Seq(Entry)
  /\ Limit \in [Kinds -> Nat]
  /\ None \notin Scids /\ None \notin Keys /\ None \notin Nat
  /\ Ground \notin Scids /\ Broken \notin Scids /\ Ground # None /\ Broken # None
BY PrepareAssumption DEF PrepareAssumption

LEMMA NothingFacts == Nothing \in Manifests /\ DOMAIN Nothing = {}
<1>1. Nothing \in [{} -> Deployment] /\ DOMAIN Nothing = {}
  BY DEF Nothing
<1>2. {} \in SUBSET Names
  OBVIOUS
<1> QED BY <1>1, <1>2 DEF Manifests

LEMMA ManifestFacts ==
  ASSUME NEW d \in Manifests
  PROVE  /\ DOMAIN d \subseteq Names
         /\ \A n \in DOMAIN d : /\ d[n] \in Deployment
                                /\ d[n].scid \in Scids /\ d[n].port \in Ports
         /\ PortsOf(d) \subseteq Ports
<1>1. PICK S \in SUBSET Names : d \in [S -> Deployment]
  BY DEF Manifests
<1>2. \A n \in DOMAIN d : d[n] \in Deployment /\ d[n].scid \in Scids /\ d[n].port \in Ports
  BY <1>1 DEF Deployment
<1> QED BY <1>1, <1>2 DEF PortsOf

\* What load_deployment_specs and resolve_deployments return.
LEMMA ResolvedFacts ==
  ASSUME TypeOK, Accepted(toml)
  PROVE  /\ Resolved(toml) \in Manifests
         /\ \A n \in DOMAIN Resolved(toml) : Resolved(toml)[n].scid = dict[n]
<1>1. toml \in Files /\ dict \in [Names -> Scids \cup {None}]
  BY DEF TypeOK
<1>2. toml \in Seq(Entry)
  BY <1>1, ConstantFacts
<1>3. NamesIn(toml) \in SUBSET Names
  <2>1. \A i \in DOMAIN toml : toml[i] \in Entry
    BY <1>2
  <2>2. \A i \in DOMAIN toml : toml[i].name \in Names
    BY <2>1 DEF Entry
  <2> QED BY <2>2 DEF NamesIn
<1>4. ASSUME NEW n \in NamesIn(toml)
      PROVE  [scid |-> dict[n],
              port |-> TmPort(toml, CHOOSE i \in DOMAIN toml : toml[i].name = n)] \in Deployment
  <2> DEFINE i == CHOOSE i \in DOMAIN toml : toml[i].name = n
  <2>1. \E j \in DOMAIN toml : toml[j].name = n
    BY DEF NamesIn
  <2>2. i \in DOMAIN toml
    BY <2>1
  <2> HIDE DEF i
  <2>3. TmPort(toml, i) \in Ports
    BY <1>1, <2>2 DEF Ports
  <2>4. dict[n] \in Scids
    BY <1>1, <1>3 DEF Accepted
  <2> QED BY <2>3, <2>4 DEF Deployment, i
<1>5. Resolved(toml) \in [NamesIn(toml) -> Deployment]
  BY <1>4 DEF Resolved
<1>6. Resolved(toml) \in Manifests
  BY <1>3, <1>5 DEF Manifests
<1>7. \A n \in DOMAIN Resolved(toml) : Resolved(toml)[n].scid = dict[n]
  BY DEF Resolved
<1> QED BY <1>6, <1>7

\* What Yamcs loads from the files.
LEMMA LoadedFacts ==
  ASSUME TypeOK
  PROVE  /\ Loaded \in [key : Keys \cup {None}, up : Manifests]
         /\ Loaded.key = IF main = None THEN None ELSE main.key
         /\ \A n \in DOMAIN Loaded.up :
              /\ n \in Names /\ inst[n] # None
              /\ Loaded.up[n] = [scid |-> inst[n].scid, port |-> inst[n].port]
<1> DEFINE S == {m \in Names : Startable(m)}
           up == [n \in S |-> [scid |-> inst[n].scid, port |-> inst[n].port]]
           k == IF main = None THEN None ELSE main.key
<1>1. Loaded = [key |-> k, up |-> up]
  BY DEF Loaded
<1>2. k \in Keys \cup {None}
  BY DEF TypeOK
<1>3. ASSUME NEW n \in S
      PROVE  /\ n \in Names /\ inst[n] # None
             /\ [scid |-> inst[n].scid, port |-> inst[n].port] \in Deployment
  <2>1. n \in Names /\ inst[n] # None
    BY DEF Startable
  <2>2. inst[n] \in Instance
    BY <2>1 DEF TypeOK
  <2> QED BY <2>1, <2>2 DEF Instance, Deployment
<1>4. up \in [S -> Deployment]
  BY <1>3
<1>5. S \in SUBSET Names
  OBVIOUS
<1>6. up \in Manifests
  BY <1>4, <1>5 DEF Manifests
<1> HIDE DEF k
<1>7. Loaded \in [key : Keys \cup {None}, up : Manifests]
  BY <1>1, <1>2, <1>6
<1> QED BY <1>1, <1>3, <1>7 DEF k

\* prep after one of its steps.
LEMMA PrepFacts ==
  ASSUME prep \in Preparation, NEW pc \in PrepPCs, NEW todo \in SUBSET Names
  PROVE  /\ Goto(pc, todo) \in Preparation
         /\ Goto(pc, todo).pc = pc /\ Goto(pc, todo).todo = todo
         /\ Goto(pc, todo).deps = prep.deps /\ Goto(pc, todo).rooted = prep.rooted
         /\ Goto(pc, todo).key = prep.key
BY DEF Goto, Preparation

LEMMA DoneFacts ==
  ASSUME prep \in Preparation, NEW n \in Names
  PROVE  /\ Done(n) \in Preparation
         /\ Done(n).pc = prep.pc /\ Done(n).todo = prep.todo \ {n}
         /\ Done(n).deps = prep.deps /\ Done(n).rooted = prep.rooted
         /\ Done(n).key = prep.key
BY DEF Done, Preparation

LEMMA IdleFacts ==
  /\ Idle \in Preparation
  /\ Idle.pc = "idle" /\ Idle.todo = {} /\ Idle.rooted = FALSE
  /\ \A d \in Manifests :
       LET p == [Idle EXCEPT !.pc = "clear", !.deps = d]
       IN  /\ p \in Preparation /\ p.pc = "clear" /\ p.deps = d /\ p.todo = {}
           /\ p.rooted = FALSE
BY NothingFacts DEF Idle, Preparation, PrepPCs

-----------------------------------------------------------------------------
\* What every write of prepare leaves alone.
LEMMA WritingFacts ==
  ASSUME NEW pc, Writing(pc)
  PROVE  /\ prep.pc = pc /\ toml' = toml /\ dict' = dict
         /\ pending' = pending /\ server' = server /\ yamcs' = yamcs /\ seen' = seen
         /\ used' = used /\ complete' = complete /\ edited' = edited /\ loads' = loads
BY DEF Writing, inputs, stack, history

LEMMA SpendFacts ==
  ASSUME TypeOK, NEW kind \in Kinds, Spend(kind)
  PROVE  used' \in [Kinds -> Nat]
BY DEF TypeOK, Spend

\* What the types say of the progress of prepare.
Progress ==
  /\ prep \in Preparation
  /\ prep.todo \subseteq DOMAIN prep.deps
  /\ prep.todo # {} => prep.pc \in Looping
  /\ prep.pc = "main" => prep.key # None

LEMMA PCFacts ==
  /\ {"idle", "clear", "key", "main", "inst", "overlay", "truncate", "manifest",
      "dashboards", "sources", "folders", "xtce"} \subseteq PrepPCs
  /\ Looping = {"inst", "folders", "xtce"}
BY DEF PrepPCs, Looping

\* Going on to the next write, or doing one of several, keeps that.
LEMMA GotoFacts ==
  ASSUME TypeOK
  PROVE  /\ Progress
         /\ prep.deps \in Manifests /\ Deployed \in SUBSET Names
         /\ PortsOf(prep.deps) \in SUBSET Ports
         /\ \A n \in Deployed : prep.deps[n].scid \in Scids /\ prep.deps[n].port \in Ports
         /\ \A pc \in PrepPCs \ {"main"} :
              prep' = Goto(pc, {}) => Progress'
         /\ \A pc \in Looping : prep' = Goto(pc, Deployed) => Progress'
         /\ \A n \in prep.todo : prep' = Done(n) => Progress'
<1>1. Progress
  BY DEF TypeOK, Progress, Deployed
<1>2. prep.deps \in Manifests /\ prep.todo \in SUBSET Names /\ prep.pc \in PrepPCs
  BY <1>1 DEF Progress, Preparation
<1>3. /\ Deployed \in SUBSET Names /\ PortsOf(prep.deps) \in SUBSET Ports
      /\ \A n \in Deployed : prep.deps[n].scid \in Scids /\ prep.deps[n].port \in Ports
  BY <1>2, ManifestFacts DEF Deployed
<1>4. ASSUME NEW pc \in PrepPCs \ {"main"}, prep' = Goto(pc, {})
      PROVE  Progress'
  BY <1>1, <1>4, PrepFacts DEF Progress
<1>5. ASSUME NEW pc \in Looping, prep' = Goto(pc, Deployed)
      PROVE  Progress'
  <2>1. pc \in PrepPCs /\ pc # "main"
    BY PCFacts
  <2> QED BY <1>1, <1>3, <1>5, <2>1, PrepFacts DEF Progress, Deployed
<1>6. ASSUME NEW n \in prep.todo, prep' = Done(n)
      PROVE  Progress'
  <2>1. n \in Names
    BY <1>2
  <2>2. prep.pc \in Looping
    BY <1>1 DEF Progress
  <2> QED BY <1>1, <1>6, <2>1, <2>2, DoneFacts, PCFacts DEF Progress
<1> QED BY <1>1, <1>2, <1>3, <1>4, <1>5, <1>6

\* The state is the files, the progress of prepare, and the rest.
LEMMA WriteKeepsTypes ==
  ASSUME TypeOK, NEW pc, Writing(pc), Progress',
         key' \in Keys \cup {None},
         main' \in [key : Keys, names : SUBSET Names] \cup {None},
         inst' \in [Names -> Instance \cup {None}],
         mdb' \in [Names -> Scids \cup {Ground, Broken, None}],
         published' \in SUBSET Ports,
         manifest' \in Manifests \cup {Partial, None},
         sources' \in SUBSET Names, folders' \in SUBSET Names
  PROVE  TypeOK'
BY WritingFacts DEF TypeOK, Deployed, Progress

\* Each write of prepare keeps the types.
LEMMA StepKeepsTypes ==
  ASSUME TypeOK, PrepareStep
  PROVE  TypeOK'
<1>t. /\ key \in Keys \cup {None}
      /\ main \in [key : Keys, names : SUBSET Names] \cup {None}
      /\ inst \in [Names -> Instance \cup {None}]
      /\ mdb \in [Names -> Scids \cup {Ground, Broken, None}]
      /\ published \in SUBSET Ports
      /\ manifest \in Manifests \cup {Partial, None}
      /\ sources \in SUBSET Names /\ folders \in SUBSET Names
      /\ dict \in [Names -> Scids \cup {None}]
  BY DEF TypeOK
<1>p. Progress /\ prep.todo \in SUBSET Names
  BY GotoFacts DEF Progress, Preparation
<1>1. CASE Clear
  <2>1. Writing("clear")
    BY <1>1 DEF Clear
  <2>2. /\ key' = key /\ published' = published /\ manifest' = manifest
        /\ sources' = sources /\ folders' = folders
        /\ main' \in {main, None}
        /\ \/ inst' = inst
           \/ \E n \in Names : inst' = [inst EXCEPT ![n] = None]
        /\ \/ mdb' = mdb
           \/ \E n \in Names : mdb' = [mdb EXCEPT ![n] = None]
        /\ prep' \in {prep, Goto("key", {})}
    BY <1>1 DEF Clear, etc, grafana
  <2>3. inst' \in [Names -> Instance \cup {None}]
    BY <1>t, <2>2
  <2>4. mdb' \in [Names -> Scids \cup {Ground, Broken, None}]
    BY <1>t, <2>2
  <2>5. Progress'
    BY <1>p, GotoFacts, PCFacts, <2>2 DEF Progress
  <2> QED BY <1>t, <2>1, <2>2, <2>3, <2>4, <2>5, WriteKeepsTypes
<1>2. CASE ServerSecret
  <2>1. /\ Writing("key") /\ key' \in Keys
        /\ prep' = [Goto("main", {}) EXCEPT !.key = key']
    BY <1>2, <1>t DEF ServerSecret
  <2>2. /\ Goto("main", {}) \in Preparation /\ Goto("main", {}).todo = {}
        /\ Goto("main", {}).pc = "main"
    BY <1>p, PCFacts, PrepFacts DEF Progress
  <2>3. Progress'
    BY <2>1, <2>2, ConstantFacts DEF Preparation, Progress
  <2>4. UNCHANGED <<main, inst, mdb, published, manifest, sources, folders>>
    BY <1>2 DEF ServerSecret, grafana
  <2> QED BY <1>t, <2>1, <2>3, <2>4, WriteKeepsTypes
<1>3. CASE WriteMain
  <2>1. /\ Writing("main") /\ prep' = Goto("inst", Deployed)
        /\ main' = [key |-> prep.key, names |-> Deployed]
        /\ UNCHANGED <<key, inst, mdb, published, manifest, sources, folders>>
    BY <1>3 DEF WriteMain, grafana
  <2>2. prep.key \in Keys /\ Progress' /\ Deployed \in SUBSET Names
    BY <1>p, <2>1, GotoFacts, PCFacts DEF Progress, Preparation, Writing
  <2>3. main' \in [key : Keys, names : SUBSET Names]
    BY <2>1, <2>2
  <2> QED BY <1>t, <2>1, <2>2, <2>3, WriteKeepsTypes
<1>4. ASSUME NEW n \in Names, WriteInst(n)
      PROVE  TypeOK'
  <2>1. /\ Writing("inst") /\ n \in prep.todo /\ prep' = Done(n)
        /\ inst' = [inst EXCEPT ![n] = [scid |-> prep.deps[n].scid,
                                        port |-> prep.deps[n].port, root |-> prep.rooted]]
        /\ UNCHANGED <<key, main, mdb, published, manifest, sources, folders>>
    BY <1>4 DEF WriteInst, grafana
  <2>2. Progress' /\ prep.deps[n].scid \in Scids /\ prep.deps[n].port \in Ports
    BY <1>p, <2>1, GotoFacts DEF Progress, Deployed
  <2>3. prep.rooted \in BOOLEAN
    BY <1>p DEF Progress, Preparation
  <2>4. inst' \in [Names -> Instance \cup {None}]
    BY <1>t, <2>1, <2>2, <2>3 DEF Instance
  <2> QED BY <1>t, <2>1, <2>2, <2>4, WriteKeepsTypes
<1>5. CASE CopyGround
  <2>1. /\ Writing("inst") /\ prep' = Goto("overlay", {})
        /\ mdb' = [mdb EXCEPT ![GroundName] = Ground]
        /\ UNCHANGED <<key, main, inst, published, manifest, sources, folders>>
    BY <1>5 DEF CopyGround, grafana, etc
  <2>2. Progress'
    BY <2>1, GotoFacts, PCFacts
  <2> QED BY <1>t, <2>1, <2>2, WriteKeepsTypes
<1>6. CASE WriteOverlay
  <2>1. /\ Writing("overlay") /\ prep' = Goto("truncate", {})
        /\ published' = PortsOf(prep.deps)
        /\ UNCHANGED <<key, main, inst, mdb, manifest, sources, folders>>
    BY <1>6 DEF WriteOverlay, grafana, etc
  <2>2. Progress' /\ PortsOf(prep.deps) \in SUBSET Ports
    BY <2>1, GotoFacts, PCFacts
  <2> QED BY <1>t, <2>1, <2>2, WriteKeepsTypes
<1>7. CASE TruncateManifest
  <2>1. /\ Writing("truncate") /\ prep' = Goto("manifest", {})
        /\ manifest' = Partial
        /\ UNCHANGED <<key, main, inst, mdb, published, sources, folders>>
    BY <1>7 DEF TruncateManifest, grafana, etc
  <2>2. Progress'
    BY <2>1, GotoFacts, PCFacts
  <2> QED BY <1>t, <2>1, <2>2, WriteKeepsTypes
<1>8. CASE WriteManifest
  <2>1. /\ Writing("manifest") /\ prep' = Goto("dashboards", {})
        /\ manifest' = prep.deps
        /\ UNCHANGED <<key, main, inst, mdb, published, sources, folders>>
    BY <1>8 DEF WriteManifest, grafana, etc
  <2>2. Progress' /\ prep.deps \in Manifests
    BY <2>1, GotoFacts, PCFacts
  <2> QED BY <1>t, <2>1, <2>2, WriteKeepsTypes
<1>9. CASE ClearDashboards
  <2>1. /\ Writing("dashboards") /\ prep' = Goto("sources", {})
        /\ folders' = {}
        /\ UNCHANGED <<key, main, inst, mdb, published, manifest, sources>>
    BY <1>9 DEF ClearDashboards, etc
  <2>2. Progress'
    BY <2>1, GotoFacts, PCFacts
  <2> QED BY <1>t, <2>1, <2>2, WriteKeepsTypes
<1>10. CASE WriteSources
  <2>1. /\ Writing("sources") /\ prep' = Goto("folders", Deployed)
        /\ sources' = Deployed
        /\ UNCHANGED <<key, main, inst, mdb, published, manifest, folders>>
    BY <1>10 DEF WriteSources, etc
  <2>2. Progress' /\ Deployed \in SUBSET Names
    BY <2>1, GotoFacts, PCFacts
  <2> QED BY <1>t, <2>1, <2>2, WriteKeepsTypes
<1>11. ASSUME NEW n \in Names, WriteFolder(n)
       PROVE  TypeOK'
  <2>1. /\ Writing("folders") /\ n \in prep.todo /\ prep' = Done(n)
        /\ folders' = folders \cup {n}
        /\ UNCHANGED <<key, main, inst, mdb, published, manifest, sources>>
    BY <1>11 DEF WriteFolder, etc
  <2>2. Progress'
    BY <2>1, GotoFacts
  <2> QED BY <1>t, <2>1, <2>2, WriteKeepsTypes
<1>12. CASE FirstPass
  <2>1. /\ Writing("folders") /\ prep' = Goto("xtce", Deployed)
        /\ UNCHANGED <<key, main, inst, mdb, published, manifest, sources, folders>>
    BY <1>12 DEF FirstPass, disk, etc, grafana
  <2>2. Progress'
    BY <2>1, GotoFacts, PCFacts
  <2> QED BY <1>t, <2>1, <2>2, WriteKeepsTypes
<1>13. ASSUME NEW n \in Names, GenerateXtce(n)
       PROVE  TypeOK'
  <2>1. /\ Writing("xtce") /\ n \in prep.todo /\ prep' = Done(n)
        /\ mdb' = [mdb EXCEPT ![n] = dict[n]]
        /\ UNCHANGED <<key, main, inst, published, manifest, sources, folders>>
    BY <1>13 DEF GenerateXtce, etc, grafana
  <2>2. Progress'
    BY <2>1, GotoFacts
  <2>3. mdb' \in [Names -> Scids \cup {Ground, Broken, None}]
    BY <1>t, <2>1
  <2> QED BY <1>t, <2>1, <2>2, <2>3, WriteKeepsTypes
<1>14. CASE SecondPass
  <2>1. /\ Writing("xtce") /\ prep' = [Goto("key", {}) EXCEPT !.rooted = TRUE]
        /\ UNCHANGED <<key, main, inst, mdb, published, manifest, sources, folders>>
    BY <1>14 DEF SecondPass, disk, etc, grafana
  <2>2. /\ Goto("key", {}) \in Preparation /\ Goto("key", {}).todo = {}
        /\ Goto("key", {}).pc = "key"
    BY <1>p, PCFacts, PrepFacts DEF Progress
  <2>3. Progress'
    BY <2>1, <2>2 DEF Preparation, Progress
  <2> QED BY <1>t, <2>1, <2>3, WriteKeepsTypes
<1>15. CASE Finish
  <2>1. /\ prep' = Idle /\ complete' = TRUE /\ loads' = {prep.deps} /\ pending' = TRUE
        /\ UNCHANGED <<toml, dict, key, main, inst, mdb, published, manifest, sources,
                       folders, server, yamcs, seen, used, edited>>
    BY <1>15 DEF Finish, inputs, disk, etc, grafana
  <2>2. Idle \in Preparation /\ Idle.todo = {} /\ Idle.pc = "idle"
    BY IdleFacts
  <2>3. prep.deps \in Manifests
    BY GotoFacts
  <2> QED BY <2>1, <2>2, <2>3 DEF TypeOK, Deployed
<1> QED BY <1>1, <1>2, <1>3, <1>4, <1>5, <1>6, <1>7, <1>8, <1>9, <1>10, <1>11, <1>12,
           <1>13, <1>14, <1>15 DEF PrepareStep

\* The supervisor, the gateway and Yamcs keep the types.
LEMMA ServerKeepsTypes ==
  ASSUME TypeOK, ServerStep
  PROVE  TypeOK'
<1>t. /\ server \in ServerState /\ published \in SUBSET Ports
      /\ manifest \in Manifests \cup {Partial, None}
      /\ yamcs \in [key : Keys \cup {None}, up : Manifests]
      /\ loads \in SUBSET Manifests /\ seen \in SUBSET Manifests
      /\ pending \in BOOLEAN /\ used \in [Kinds -> Nat]
  BY DEF TypeOK
<1>k. /\ Off \in ServerState /\ Gone \in [key : Keys \cup {None}, up : Manifests]
      /\ \A b \in BOOLEAN : [Off EXCEPT !.pc = "stopped", !.kept = b] \in ServerState
  BY NothingFacts DEF Off, Gone, ServerState
<1>l. Loaded \in [key : Keys \cup {None}, up : Manifests]
  BY LoadedFacts
\* What the server side may change.
<1>u. ASSUME UNCHANGED <<inputs, disk, prep, history>>,
             pending' \in BOOLEAN, used' \in [Kinds -> Nat], seen' \in SUBSET Manifests,
             server' \in ServerState, yamcs' \in [key : Keys \cup {None}, up : Manifests]
      PROVE  TypeOK'
  BY <1>u DEF TypeOK, inputs, disk, etc, grafana, history, Deployed
<1>1. CASE StartRun
  <2>1. used' \in [Kinds -> Nat]
    BY <1>1, SpendFacts DEF StartRun, Kinds
  <2>2. server' \in ServerState
    BY <1>1, <1>k DEF StartRun
  <2> QED BY <1>1, <1>t, <1>k, <1>u, <2>1, <2>2 DEF StartRun
<1>2. CASE LoadManifest
  <2>1. /\ UNCHANGED <<inputs, disk, prep, pending, used, history, seen, yamcs>>
        /\ manifest \in Manifests
        /\ server' = [server EXCEPT !.pc = "loaded", !.manifest = manifest]
    BY <1>2, <1>t DEF LoadManifest, Serving, Readable
  <2>2. server' \in ServerState
    BY <1>t, <2>1 DEF ServerState
  <2> QED BY <1>t, <1>u, <2>1, <2>2 DEF history
<1>3. CASE ComposeUp
  <2>1. /\ UNCHANGED <<inputs, disk, prep, pending, used, history, seen>>
        /\ yamcs' \in {yamcs, Loaded}
        /\ server' = [server EXCEPT !.pc = "up", !.ports = published]
    BY <1>3 DEF ComposeUp, Serving
  <2>2. server' \in ServerState
    BY <1>t, <2>1 DEF ServerState
  <2> QED BY <1>t, <1>u, <1>l, <2>1, <2>2 DEF history
<1>4. CASE Ready
  <2>1. /\ UNCHANGED <<inputs, disk, prep, pending, used, history, seen, yamcs>>
        /\ server' = [server EXCEPT !.pc = "spawned"]
    BY <1>4 DEF Ready, Serving
  <2>2. server' \in ServerState
    BY <1>t, <2>1 DEF ServerState
  <2> QED BY <1>t, <1>u, <2>1, <2>2 DEF history
<1>5. CASE GatewayLoads
  <2>1. /\ UNCHANGED <<inputs, disk, prep, pending, used, history, seen, yamcs>>
        /\ manifest \in Manifests
        /\ server' = [server EXCEPT !.pc = "serving", !.gateway = manifest]
    BY <1>5, <1>t DEF GatewayLoads, Serving, Readable
  <2>2. server' \in ServerState
    BY <1>t, <2>1 DEF ServerState
  <2> QED BY <1>t, <1>u, <2>1, <2>2 DEF history
<1>6. CASE EndRun
  BY <1>6, <1>t, <1>k, <1>u DEF EndRun, history
<1>7. CASE ContainerRestarts
  <2>1. used' \in [Kinds -> Nat]
    BY <1>7, SpendFacts DEF ContainerRestarts, Kinds
  <2> QED BY <1>7, <1>t, <1>l, <1>u, <2>1 DEF ContainerRestarts, history
<1> QED BY <1>1, <1>2, <1>3, <1>4, <1>5, <1>6, <1>7 DEF ServerStep

\* Loading the deployments, being refused, being stopped, and the operator's edits.
LEMMA OtherKeepsTypes ==
  ASSUME TypeOK,
         \/ Load \/ Refuse \/ Stop
         \/ \E file \in Files : EditFile(file)
         \/ \E n \in Names, content \in Scids \cup {None} : EditDictionary(n, content)
  PROVE  TypeOK'
<1>1. CASE Load
  <2>1. used' \in [Kinds -> Nat]
    BY <1>1, SpendFacts DEF Load, Kinds
  <2>2. Resolved(toml) \in Manifests
    BY <1>1, ResolvedFacts DEF Load
  <2>3. /\ prep' \in Preparation /\ prep'.todo = {} /\ prep'.pc = "clear"
    BY <1>1, <2>2, IdleFacts DEF Load
  <2> QED BY <1>1, <2>1, <2>2, <2>3 DEF Load, TypeOK, inputs, disk, etc, grafana, Deployed
<1>2. CASE Refuse
  <2>1. used' \in [Kinds -> Nat]
    BY <1>2, SpendFacts DEF Refuse, Kinds
  <2> QED BY <1>2, <2>1 DEF Refuse, TypeOK, inputs, disk, etc, grafana, stack, history,
                           Deployed
<1>3. CASE Stop
  <2>1. used' \in [Kinds -> Nat]
    BY <1>3, SpendFacts DEF Stop, Kinds
  <2>2. /\ prep' = Idle /\ Idle \in Preparation /\ Idle.todo = {} /\ Idle.pc = "idle"
    BY <1>3, IdleFacts DEF Stop
  <2>3. mdb' \in [Names -> Scids \cup {Ground, Broken, None}]
    BY <1>3 DEF Stop, TypeOK
  <2>4. UNCHANGED <<toml, dict, key, main, inst, published, manifest, sources, folders,
                    pending, server, yamcs, seen, complete, edited, loads>>
    BY <1>3 DEF Stop, inputs, etc, grafana, stack, history
  <2> QED BY <2>1, <2>2, <2>3, <2>4 DEF TypeOK, Deployed
<1>4. ASSUME NEW file \in Files, EditFile(file)
      PROVE  TypeOK'
  <2>1. used' \in [Kinds -> Nat]
    BY <1>4, SpendFacts DEF EditFile, Kinds
  <2> QED BY <1>4, <2>1 DEF EditFile, TypeOK, disk, etc, grafana, stack, history, Deployed
<1>5. ASSUME NEW n \in Names, NEW content \in Scids \cup {None}, EditDictionary(n, content)
      PROVE  TypeOK'
  <2>1. used' \in [Kinds -> Nat]
    BY <1>5, SpendFacts DEF EditDictionary, Kinds
  <2>2. dict' \in [Names -> Scids \cup {None}]
    BY <1>5 DEF EditDictionary, TypeOK
  <2> QED BY <1>5, <2>1, <2>2 DEF EditDictionary, TypeOK, disk, etc, grafana, stack, Deployed
<1> QED BY <1>1, <1>2, <1>3, <1>4, <1>5

\* The runtime directory, the progress of prepare and the server keep their types
\* (prepare.py, supervisor.py).
THEOREM TypeCorrect == Spec => []TypeOK
<1>1. ASSUME Init
      PROVE  TypeOK
  <2>1. Off \in ServerState /\ Gone \in [key : Keys \cup {None}, up : Manifests]
    BY NothingFacts DEF Off, Gone, ServerState
  <2>2. used \in [Kinds -> Nat]
    BY <1>1 DEF Init
  <2>3. inst \in [Names -> Instance \cup {None}]
    BY <1>1 DEF Init
  <2>4. mdb \in [Names -> Scids \cup {Ground, Broken, None}]
    BY <1>1 DEF Init
  <2> QED BY <1>1, <2>1, <2>2, <2>3, <2>4, IdleFacts DEF Init, TypeOK, Deployed
<1>2. TypeOK /\ [Next]_vars => TypeOK'
  <2>1. ASSUME TypeOK, UNCHANGED vars
        PROVE  TypeOK'
    BY <2>1 DEF TypeOK, vars, inputs, disk, etc, grafana, stack, history, Deployed
  <2>2. ASSUME TypeOK, Next
        PROVE  TypeOK'
    BY <2>2, StepKeepsTypes, ServerKeepsTypes, OtherKeepsTypes DEF Next
  <2> QED BY <2>1, <2>2
<1> QED BY <1>1, <1>2, PTL DEF Spec
-----------------------------------------------------------------------------
\* One secret key: while it is in hand, the key in hand is the one in the file.
KeyInv ==
  /\ OneKey
  /\ prep.pc = "main" => prep.key = key

LEMMA KeyStep ==
  ASSUME TypeOK, KeyInv, Next
  PROVE  KeyInv'
<1>t. /\ key \in Keys \cup {None}
      /\ main \in [key : Keys, names : SUBSET Names] \cup {None}
      /\ prep \in Preparation
      /\ yamcs \in [key : Keys \cup {None}, up : Manifests]
  BY DEF TypeOK
<1>g. \A pc \in PrepPCs, todo \in SUBSET Names : Goto(pc, todo).pc = pc
  BY <1>t, PrepFacts
\* Most steps leave keys alone and do not go to "main".
<1>u. ASSUME UNCHANGED <<key, yamcs>>, main' \in {main, None},
             prep' = prep \/ prep'.pc # "main"
      PROVE  KeyInv'
  BY <1>u DEF KeyInv, OneKey
<1>r. ASSUME UNCHANGED <<key, main, prep>>,
             yamcs' \in {yamcs, Gone, Loaded}
      PROVE  KeyInv'
  BY <1>r, LoadedFacts DEF KeyInv, OneKey, Gone
<1>1. CASE Clear
  BY <1>1, <1>u, <1>g, PCFacts DEF Clear, Writing, stack, etc
<1>2. CASE ServerSecret
  <2>1. /\ key' = key \/ key = None
        /\ prep' = [Goto("main", {}) EXCEPT !.key = key']
        /\ UNCHANGED <<main, yamcs>>
    BY <1>2 DEF ServerSecret, Writing, stack
  <2>2. Goto("main", {}) \in Preparation
    BY <1>t, PCFacts, PrepFacts
  <2>3. prep'.key = key'
    BY <2>1, <2>2 DEF Preparation
  <2>4. main = None \/ key' = key
    BY <1>t, <2>1, ConstantFacts DEF KeyInv, OneKey
  <2> QED BY <2>1, <2>3, <2>4 DEF KeyInv, OneKey
<1>3. CASE WriteMain
  <2>1. /\ prep' = Goto("inst", Deployed) /\ prep.pc = "main"
        /\ main' = [key |-> prep.key, names |-> Deployed]
        /\ UNCHANGED <<key, yamcs>>
    BY <1>3 DEF WriteMain, Writing, stack
  <2>2. prep'.pc = "inst"
    BY <2>1, <1>g, GotoFacts, PCFacts
  <2> QED BY <2>1, <2>2 DEF KeyInv, OneKey
<1>4. CASE \E n \in Names : WriteInst(n) \/ WriteFolder(n) \/ GenerateXtce(n)
  <2>1. PICK n \in Names : WriteInst(n) \/ WriteFolder(n) \/ GenerateXtce(n)
    BY <1>4
  <2>2. prep' = Done(n) /\ prep.pc # "main" /\ UNCHANGED <<key, main, yamcs>>
    BY <2>1 DEF WriteInst, WriteFolder, GenerateXtce, Writing, stack, etc
  <2> QED BY <2>2, <1>t, <1>u, DoneFacts
<1>5. CASE \/ CopyGround \/ WriteOverlay \/ TruncateManifest \/ WriteManifest
           \/ ClearDashboards \/ WriteSources \/ FirstPass \/ SecondPass \/ Finish
  <2>1. UNCHANGED <<key, main, yamcs>>
    BY <1>5 DEF CopyGround, WriteOverlay, TruncateManifest, WriteManifest, ClearDashboards,
       WriteSources, FirstPass, SecondPass, Finish, Writing, stack, etc, disk
  <2>2. CASE SecondPass
    <3>1. /\ prep' = [Goto("key", {}) EXCEPT !.rooted = TRUE]
          /\ Goto("key", {}) \in Preparation /\ Goto("key", {}).pc = "key"
      BY <2>2, <1>t, PCFacts, PrepFacts DEF SecondPass
    <3>2. prep'.pc # "main"
      BY <3>1 DEF Preparation
    <3> QED BY <2>1, <3>2, <1>u
  <2>3. CASE Finish
    BY <2>1, <2>3, <1>u, IdleFacts DEF Finish
  <2>4. ASSUME ~SecondPass, ~Finish
        PROVE  prep'.pc # "main"
    BY <1>5, <2>4, <1>g, GotoFacts, PCFacts
    DEF CopyGround, WriteOverlay, TruncateManifest, WriteManifest, ClearDashboards,
        WriteSources, FirstPass
  <2> QED BY <2>1, <2>2, <2>3, <2>4, <1>u
<1>6. CASE Load
  BY <1>6, <1>u, ResolvedFacts, IdleFacts DEF Load, disk, etc
<1>7. CASE Stop
  BY <1>7, <1>u, IdleFacts DEF Stop, etc, stack
<1>8. CASE Refuse \/ (\E file \in Files : EditFile(file))
           \/ (\E n \in Names, content \in Scids \cup {None} : EditDictionary(n, content))
  BY <1>8, <1>u DEF Refuse, EditFile, EditDictionary, disk, etc, stack
<1>9. CASE ServerStep
  BY <1>9, <1>r DEF ServerStep, StartRun, LoadManifest, ComposeUp, Ready, GatewayLoads,
     EndRun, ContainerRestarts, Serving, disk, etc
<1> QED BY <1>1, <1>2, <1>3, <1>4, <1>5, <1>6, <1>7, <1>8, <1>9 DEF Next, PrepareStep

LEMMA KeyCorrect == Spec => []KeyInv
<1>1. ASSUME Init
      PROVE  KeyInv
  <2>1. main = None /\ yamcs.key = None /\ prep.pc = "idle"
    BY <1>1, IdleFacts DEF Init, Gone
  <2> QED BY <2>1 DEF KeyInv, OneKey
<1>2. TypeOK /\ KeyInv /\ [Next]_vars => KeyInv'
  <2>1. ASSUME KeyInv, UNCHANGED vars
        PROVE  KeyInv'
    BY <2>1 DEF KeyInv, OneKey, vars, disk, etc, stack
  <2> QED BY <2>1, KeyStep
<1> QED BY <1>1, <1>2, TypeCorrect, PTL DEF Spec

\* The key in the configuration on disk, and the one Yamcs runs with, is the key in
\* the secrets file (_server_secret, prepare.py).
THEOREM KeyIsOne == Spec => []OneKey
BY KeyCorrect, PTL DEF KeyInv
-----------------------------------------------------------------------------
\* What a prepare in progress has already made exact: the files left of other inputs
\* are gone once it has cleared, and each later stage finds what the stages before it
\* wrote in this pass; in the second pass the mission databases of the first are there.
Cleared == PrepPCs \ {"idle", "clear"}
FromTruncate == {"truncate", "manifest", "dashboards", "sources", "folders", "xtce"}
FromInst == FromTruncate \cup {"inst", "overlay"}
FromDashboards == {"dashboards", "sources", "folders", "xtce"}

Left(pc) == IF prep.pc = pc THEN prep.todo ELSE {}

NothingElse ==
  prep.pc \in Cleared =>
    /\ \A n \in Names \ Deployed : inst[n] = None
    /\ \A n \in Names \ (Deployed \cup {GroundName}) : mdb[n] = None

SameDictionaries ==
  prep.pc # "idle" /\ ~edited => \A n \in Deployed : dict[n] = prep.deps[n].scid

Databases ==
  /\ prep.pc \in {"clear", "xtce"} => ~prep.rooted
  /\ prep.pc = "xtce" \/ (prep.pc # "idle" /\ prep.rooted) =>
       \A n \in Deployed \ (Left("xtce") \cup {GroundName}) : Converted(n, prep.deps)

MainWritten ==
  prep.pc \in FromInst => main = [key |-> key, names |-> Deployed]

InstancesWritten ==
  prep.pc \in FromInst =>
    \A n \in Deployed \ Left("inst") :
      inst[n] = [scid |-> prep.deps[n].scid, port |-> prep.deps[n].port,
                 root |-> prep.rooted]

ListsWritten ==
  /\ prep.pc \in FromTruncate => published = PortsOf(prep.deps)
  /\ prep.pc \in FromDashboards => manifest = prep.deps
  /\ prep.pc = "sources" => folders = {}
  /\ prep.pc = "folders" => sources = Deployed /\ folders = Deployed \ prep.todo

ExactInv ==
  /\ complete => prep.pc = "idle"
  /\ CompleteIsExact
  /\ NothingElse /\ SameDictionaries /\ Databases
  /\ MainWritten /\ InstancesWritten /\ ListsWritten
\* What the writes of prepare do to its progress: they leave deps, dictionaries and
\* history alone, and go on to the next stage.
Onward(pc, next, todo, rooted) ==
  /\ prep.pc = pc /\ prep'.pc = next /\ prep'.todo = todo /\ prep'.rooted = rooted
  /\ prep'.deps = prep.deps /\ prep'.key = prep.key
  /\ dict' = dict /\ edited' = edited /\ complete' = complete /\ loads' = loads

LEMMA OnwardFacts ==
  ASSUME TypeOK, NEW pc, Writing(pc)
  PROVE  /\ \A next \in PrepPCs :
              prep' = Goto(next, {}) => Onward(pc, next, {}, prep.rooted)
         /\ \A next \in PrepPCs :
              prep' = Goto(next, Deployed) => Onward(pc, next, Deployed, prep.rooted)
         /\ \A n \in prep.todo :
              prep' = Done(n) => Onward(pc, pc, prep.todo \ {n}, prep.rooted)
         /\ Deployed \in SUBSET Names
<1>1. /\ prep \in Preparation /\ prep.todo \in SUBSET Names /\ Deployed \in SUBSET Names
  BY GotoFacts DEF Progress, Preparation
<1>2. /\ prep.pc = pc /\ dict' = dict /\ edited' = edited /\ complete' = complete
      /\ loads' = loads
  BY WritingFacts
<1> QED BY <1>1, <1>2, PrepFacts, DoneFacts DEF Onward

\* Whatever is true of a file that a step leaves alone stays true.
LEMMA OnwardIsIncomplete ==
  ASSUME ExactInv, NEW pc, NEW next, NEW todo, NEW rooted, Onward(pc, next, todo, rooted),
         pc # "idle"
  PROVE  (complete => prep.pc = "idle")' /\ CompleteIsExact'
BY DEF ExactInv, Onward, CompleteIsExact

\* Each write of prepare keeps the progress exact.
LEMMA ExactWrites ==
  ASSUME TypeOK, KeyInv, ExactInv, PrepareStep, ~Finish
  PROVE  ExactInv'
<1>p. /\ Deployed \in SUBSET Names /\ prep.todo \subseteq Deployed
  BY GotoFacts DEF Progress, Deployed
<1>f. /\ inst \in [Names -> Instance \cup {None}]
      /\ mdb \in [Names -> Scids \cup {Ground, Broken, None}]
      /\ dict \in [Names -> Scids \cup {None}]
  BY DEF TypeOK
<1>c. Cleared = {"key", "main", "inst", "overlay", "truncate", "manifest", "dashboards",
                 "sources", "folders", "xtce"}
  BY DEF Cleared, PrepPCs, Looping
<1>1. CASE WriteMain
  <2>1. /\ Writing("main") /\ prep' = Goto("inst", Deployed)
        /\ main' = [key |-> prep.key, names |-> Deployed]
        /\ UNCHANGED <<key, inst, mdb, published, manifest, sources, folders>>
    BY <1>1 DEF WriteMain, disk, etc, grafana
  <2>2. Onward("main", "inst", Deployed, prep.rooted)
    BY <2>1, OnwardFacts, PCFacts
  <2>3. (complete => prep.pc = "idle")' /\ CompleteIsExact'
    BY <2>2, OnwardIsIncomplete
  <2>4. NothingElse'
    BY <1>p, <1>c, <2>1, <2>2
    DEF ExactInv, Onward, Deployed, NothingElse
  <2>5. SameDictionaries'
    BY <1>p, <2>1, <2>2
    DEF ExactInv, Onward, Deployed, SameDictionaries
  <2>6. Databases'
    BY <1>p, <2>1, <2>2
    DEF ExactInv, Onward, Deployed, Databases, Converted, Left
  <2>7. MainWritten'
    BY <1>p, <2>1, <2>2
    DEF KeyInv, ExactInv, Onward, Deployed, FromInst, FromTruncate, MainWritten
  <2>8. InstancesWritten'
    BY <1>p, <2>1, <2>2
    DEF ExactInv, Onward, Deployed, FromInst, FromTruncate, InstancesWritten, Left
  <2>9. ListsWritten'
    BY <1>p, <2>1, <2>2
    DEF ExactInv, Onward, Deployed, FromTruncate, FromDashboards, ListsWritten
  <2> QED BY <2>3, <2>4, <2>5, <2>6, <2>7, <2>8, <2>9 DEF ExactInv
<1>2. CASE CopyGround
  <2>1. /\ Writing("inst") /\ prep' = Goto("overlay", {})
        /\ prep.todo = {} /\ mdb' = [mdb EXCEPT ![GroundName] = Ground]
        /\ UNCHANGED <<key, main, inst, published, manifest, sources, folders>>
    BY <1>2 DEF CopyGround, disk, etc, grafana
  <2>2. Onward("inst", "overlay", {}, prep.rooted)
    BY <2>1, OnwardFacts, PCFacts
  <2>3. (complete => prep.pc = "idle")' /\ CompleteIsExact'
    BY <2>2, OnwardIsIncomplete
  <2>4. NothingElse'
    BY <1>p, <1>c, <2>1, <2>2
    DEF ExactInv, Onward, Deployed, NothingElse
  <2>5. SameDictionaries'
    BY <1>p, <2>1, <2>2
    DEF ExactInv, Onward, Deployed, SameDictionaries
  <2>6. Databases'
    BY <1>p, <2>1, <2>2
    DEF ExactInv, Onward, Deployed, Databases, Converted, Left
  <2>7. MainWritten'
    BY <1>p, <2>1, <2>2
    DEF ExactInv, Onward, Deployed, FromInst, FromTruncate, MainWritten
  <2>8. InstancesWritten'
    BY <1>p, <2>1, <2>2
    DEF ExactInv, Onward, Deployed, FromInst, FromTruncate, InstancesWritten, Left
  <2>9. ListsWritten'
    BY <1>p, <2>1, <2>2
    DEF ExactInv, Onward, Deployed, FromTruncate, FromDashboards, ListsWritten
  <2> QED BY <2>3, <2>4, <2>5, <2>6, <2>7, <2>8, <2>9 DEF ExactInv
<1>3. CASE WriteOverlay
  <2>1. /\ Writing("overlay") /\ prep' = Goto("truncate", {})
        /\ published' = PortsOf(prep.deps)
        /\ UNCHANGED <<key, main, inst, mdb, manifest, sources, folders>>
    BY <1>3 DEF WriteOverlay, disk, etc, grafana
  <2>2. Onward("overlay", "truncate", {}, prep.rooted)
    BY <2>1, OnwardFacts, PCFacts
  <2>3. (complete => prep.pc = "idle")' /\ CompleteIsExact'
    BY <2>2, OnwardIsIncomplete
  <2>4. NothingElse'
    BY <1>p, <1>c, <2>1, <2>2
    DEF ExactInv, Onward, Deployed, NothingElse
  <2>5. SameDictionaries'
    BY <1>p, <2>1, <2>2
    DEF ExactInv, Onward, Deployed, SameDictionaries
  <2>6. Databases'
    BY <1>p, <2>1, <2>2
    DEF ExactInv, Onward, Deployed, Databases, Converted, Left
  <2>7. MainWritten'
    BY <1>p, <2>1, <2>2
    DEF ExactInv, Onward, Deployed, FromInst, FromTruncate, MainWritten
  <2>8. InstancesWritten'
    BY <1>p, <2>1, <2>2
    DEF ExactInv, Onward, Deployed, FromInst, FromTruncate, InstancesWritten, Left
  <2>9. ListsWritten'
    BY <1>p, <2>1, <2>2
    DEF ExactInv, Onward, Deployed, FromTruncate, FromDashboards, ListsWritten
  <2> QED BY <2>3, <2>4, <2>5, <2>6, <2>7, <2>8, <2>9 DEF ExactInv
<1>4. CASE TruncateManifest
  <2>1. /\ Writing("truncate") /\ prep' = Goto("manifest", {})
        /\ manifest' = Partial
        /\ UNCHANGED <<key, main, inst, mdb, published, sources, folders>>
    BY <1>4 DEF TruncateManifest, disk, etc, grafana
  <2>2. Onward("truncate", "manifest", {}, prep.rooted)
    BY <2>1, OnwardFacts, PCFacts
  <2>3. (complete => prep.pc = "idle")' /\ CompleteIsExact'
    BY <2>2, OnwardIsIncomplete
  <2>4. NothingElse'
    BY <1>p, <1>c, <2>1, <2>2
    DEF ExactInv, Onward, Deployed, NothingElse
  <2>5. SameDictionaries'
    BY <1>p, <2>1, <2>2
    DEF ExactInv, Onward, Deployed, SameDictionaries
  <2>6. Databases'
    BY <1>p, <2>1, <2>2
    DEF ExactInv, Onward, Deployed, Databases, Converted, Left
  <2>7. MainWritten'
    BY <1>p, <2>1, <2>2
    DEF ExactInv, Onward, Deployed, FromInst, FromTruncate, MainWritten
  <2>8. InstancesWritten'
    BY <1>p, <2>1, <2>2
    DEF ExactInv, Onward, Deployed, FromInst, FromTruncate, InstancesWritten, Left
  <2>9. ListsWritten'
    BY <1>p, <2>1, <2>2
    DEF ExactInv, Onward, Deployed, FromTruncate, FromDashboards, ListsWritten
  <2> QED BY <2>3, <2>4, <2>5, <2>6, <2>7, <2>8, <2>9 DEF ExactInv
<1>5. CASE WriteManifest
  <2>1. /\ Writing("manifest") /\ prep' = Goto("dashboards", {})
        /\ manifest' = prep.deps
        /\ UNCHANGED <<key, main, inst, mdb, published, sources, folders>>
    BY <1>5 DEF WriteManifest, disk, etc, grafana
  <2>2. Onward("manifest", "dashboards", {}, prep.rooted)
    BY <2>1, OnwardFacts, PCFacts
  <2>3. (complete => prep.pc = "idle")' /\ CompleteIsExact'
    BY <2>2, OnwardIsIncomplete
  <2>4. NothingElse'
    BY <1>p, <1>c, <2>1, <2>2
    DEF ExactInv, Onward, Deployed, NothingElse
  <2>5. SameDictionaries'
    BY <1>p, <2>1, <2>2
    DEF ExactInv, Onward, Deployed, SameDictionaries
  <2>6. Databases'
    BY <1>p, <2>1, <2>2
    DEF ExactInv, Onward, Deployed, Databases, Converted, Left
  <2>7. MainWritten'
    BY <1>p, <2>1, <2>2
    DEF ExactInv, Onward, Deployed, FromInst, FromTruncate, MainWritten
  <2>8. InstancesWritten'
    BY <1>p, <2>1, <2>2
    DEF ExactInv, Onward, Deployed, FromInst, FromTruncate, InstancesWritten, Left
  <2>9. ListsWritten'
    BY <1>p, <2>1, <2>2
    DEF ExactInv, Onward, Deployed, FromTruncate, FromDashboards, ListsWritten
  <2> QED BY <2>3, <2>4, <2>5, <2>6, <2>7, <2>8, <2>9 DEF ExactInv
<1>6. CASE ClearDashboards
  <2>1. /\ Writing("dashboards") /\ prep' = Goto("sources", {})
        /\ folders' = {}
        /\ UNCHANGED <<key, main, inst, mdb, published, manifest, sources>>
    BY <1>6 DEF ClearDashboards, disk, etc, grafana
  <2>2. Onward("dashboards", "sources", {}, prep.rooted)
    BY <2>1, OnwardFacts, PCFacts
  <2>3. (complete => prep.pc = "idle")' /\ CompleteIsExact'
    BY <2>2, OnwardIsIncomplete
  <2>4. NothingElse'
    BY <1>p, <1>c, <2>1, <2>2
    DEF ExactInv, Onward, Deployed, NothingElse
  <2>5. SameDictionaries'
    BY <1>p, <2>1, <2>2
    DEF ExactInv, Onward, Deployed, SameDictionaries
  <2>6. Databases'
    BY <1>p, <2>1, <2>2
    DEF ExactInv, Onward, Deployed, Databases, Converted, Left
  <2>7. MainWritten'
    BY <1>p, <2>1, <2>2
    DEF ExactInv, Onward, Deployed, FromInst, FromTruncate, MainWritten
  <2>8. InstancesWritten'
    BY <1>p, <2>1, <2>2
    DEF ExactInv, Onward, Deployed, FromInst, FromTruncate, InstancesWritten, Left
  <2>9. ListsWritten'
    BY <1>p, <2>1, <2>2
    DEF ExactInv, Onward, Deployed, FromTruncate, FromDashboards, ListsWritten
  <2> QED BY <2>3, <2>4, <2>5, <2>6, <2>7, <2>8, <2>9 DEF ExactInv
<1>7. CASE WriteSources
  <2>1. /\ Writing("sources") /\ prep' = Goto("folders", Deployed)
        /\ sources' = Deployed
        /\ UNCHANGED <<key, main, inst, mdb, published, manifest, folders>>
    BY <1>7 DEF WriteSources, disk, etc, grafana
  <2>2. Onward("sources", "folders", Deployed, prep.rooted)
    BY <2>1, OnwardFacts, PCFacts
  <2>3. (complete => prep.pc = "idle")' /\ CompleteIsExact'
    BY <2>2, OnwardIsIncomplete
  <2>4. NothingElse'
    BY <1>p, <1>c, <2>1, <2>2
    DEF ExactInv, Onward, Deployed, NothingElse
  <2>5. SameDictionaries'
    BY <1>p, <2>1, <2>2
    DEF ExactInv, Onward, Deployed, SameDictionaries
  <2>6. Databases'
    BY <1>p, <2>1, <2>2
    DEF ExactInv, Onward, Deployed, Databases, Converted, Left
  <2>7. MainWritten'
    BY <1>p, <2>1, <2>2
    DEF ExactInv, Onward, Deployed, FromInst, FromTruncate, MainWritten
  <2>8. InstancesWritten'
    BY <1>p, <2>1, <2>2
    DEF ExactInv, Onward, Deployed, FromInst, FromTruncate, InstancesWritten, Left
  <2>9. ListsWritten'
    BY <1>p, <2>1, <2>2
    DEF ExactInv, Onward, Deployed, FromTruncate, FromDashboards, ListsWritten
  <2> QED BY <2>3, <2>4, <2>5, <2>6, <2>7, <2>8, <2>9 DEF ExactInv
<1>8. CASE FirstPass
  <2>1. /\ Writing("folders") /\ prep' = Goto("xtce", Deployed)
        /\ prep.todo = {} /\ ~prep.rooted
        /\ UNCHANGED <<key, main, inst, mdb, published, manifest, sources, folders>>
    BY <1>8 DEF FirstPass, disk, etc, grafana
  <2>2. Onward("folders", "xtce", Deployed, prep.rooted)
    BY <2>1, OnwardFacts, PCFacts
  <2>3. (complete => prep.pc = "idle")' /\ CompleteIsExact'
    BY <2>2, OnwardIsIncomplete
  <2>4. NothingElse'
    BY <1>p, <1>c, <2>1, <2>2
    DEF ExactInv, Onward, Deployed, NothingElse
  <2>5. SameDictionaries'
    BY <1>p, <2>1, <2>2
    DEF ExactInv, Onward, Deployed, SameDictionaries
  <2>6. Databases'
    BY <1>p, <2>1, <2>2
    DEF ExactInv, Onward, Deployed, Databases, Converted, Left
  <2>7. MainWritten'
    BY <1>p, <2>1, <2>2
    DEF ExactInv, Onward, Deployed, FromInst, FromTruncate, MainWritten
  <2>8. InstancesWritten'
    BY <1>p, <2>1, <2>2
    DEF ExactInv, Onward, Deployed, FromInst, FromTruncate, InstancesWritten, Left
  <2>9. ListsWritten'
    BY <1>p, <2>1, <2>2
    DEF ExactInv, Onward, Deployed, FromTruncate, FromDashboards, ListsWritten
  <2> QED BY <2>3, <2>4, <2>5, <2>6, <2>7, <2>8, <2>9 DEF ExactInv
<1>9. ASSUME NEW n \in Names, WriteInst(n)
      PROVE  ExactInv'
  <2>1. /\ Writing("inst") /\ n \in prep.todo /\ prep' = Done(n)
        /\ inst' = [inst EXCEPT ![n] = [scid |-> prep.deps[n].scid,
                                        port |-> prep.deps[n].port, root |-> prep.rooted]]
        /\ UNCHANGED <<key, main, mdb, published, manifest, sources, folders>>
    BY <1>9 DEF WriteInst, disk, etc, grafana
  <2>2. Onward("inst", "inst", prep.todo \ {n}, prep.rooted)
    BY <2>1, OnwardFacts
  <2>3. (complete => prep.pc = "idle")' /\ CompleteIsExact'
    BY <2>2, OnwardIsIncomplete
  <2>4. NothingElse'
    BY <1>p, <1>c, <2>1, <2>2
    DEF ExactInv, Onward, Deployed, NothingElse
  <2>5. SameDictionaries'
    BY <1>p, <2>1, <2>2
    DEF ExactInv, Onward, Deployed, SameDictionaries
  <2>6. Databases'
    BY <1>p, <1>f, <2>1, <2>2
    DEF ExactInv, Onward, Deployed, Databases, Converted, Left
  <2>7. MainWritten'
    BY <1>p, <2>1, <2>2
    DEF ExactInv, Onward, Deployed, FromInst, FromTruncate, MainWritten
  <2>8. InstancesWritten'
    BY <1>p, <1>f, <2>1, <2>2
    DEF ExactInv, Onward, Deployed, FromInst, FromTruncate, InstancesWritten, Left
  <2>9. ListsWritten'
    BY <1>p, <2>1, <2>2
    DEF ExactInv, Onward, Deployed, FromTruncate, FromDashboards, ListsWritten
  <2> QED BY <2>3, <2>4, <2>5, <2>6, <2>7, <2>8, <2>9 DEF ExactInv
<1>10. ASSUME NEW n \in Names, WriteFolder(n)
      PROVE  ExactInv'
  <2>1. /\ Writing("folders") /\ n \in prep.todo /\ prep' = Done(n)
        /\ folders' = folders \cup {n}
        /\ UNCHANGED <<key, main, inst, mdb, published, manifest, sources>>
    BY <1>10 DEF WriteFolder, disk, etc, grafana
  <2>2. Onward("folders", "folders", prep.todo \ {n}, prep.rooted)
    BY <2>1, OnwardFacts
  <2>3. (complete => prep.pc = "idle")' /\ CompleteIsExact'
    BY <2>2, OnwardIsIncomplete
  <2>4. NothingElse'
    BY <1>p, <1>c, <2>1, <2>2
    DEF ExactInv, Onward, Deployed, NothingElse
  <2>5. SameDictionaries'
    BY <1>p, <2>1, <2>2
    DEF ExactInv, Onward, Deployed, SameDictionaries
  <2>6. Databases'
    BY <1>p, <2>1, <2>2
    DEF ExactInv, Onward, Deployed, Databases, Converted, Left
  <2>7. MainWritten'
    BY <1>p, <2>1, <2>2
    DEF ExactInv, Onward, Deployed, FromInst, FromTruncate, MainWritten
  <2>8. InstancesWritten'
    BY <1>p, <2>1, <2>2
    DEF ExactInv, Onward, Deployed, FromInst, FromTruncate, InstancesWritten, Left
  <2>9. ListsWritten'
    BY <1>p, <2>1, <2>2
    DEF ExactInv, Onward, Deployed, FromTruncate, FromDashboards, ListsWritten
  <2> QED BY <2>3, <2>4, <2>5, <2>6, <2>7, <2>8, <2>9 DEF ExactInv
<1>11. ASSUME NEW n \in Names, GenerateXtce(n)
      PROVE  ExactInv'
  <2>1. /\ Writing("xtce") /\ n \in prep.todo /\ prep' = Done(n)
        /\ mdb' = [mdb EXCEPT ![n] = dict[n]] /\ dict[n] # None
        /\ UNCHANGED <<key, main, inst, published, manifest, sources, folders>>
    BY <1>11 DEF GenerateXtce, disk, etc, grafana
  <2>2. Onward("xtce", "xtce", prep.todo \ {n}, prep.rooted)
    BY <2>1, OnwardFacts
  <2>3. (complete => prep.pc = "idle")' /\ CompleteIsExact'
    BY <2>2, OnwardIsIncomplete
  <2>4. NothingElse'
    BY <1>p, <1>c, <2>1, <2>2
    DEF ExactInv, Onward, Deployed, NothingElse
  <2>5. SameDictionaries'
    BY <1>p, <2>1, <2>2
    DEF ExactInv, Onward, Deployed, SameDictionaries
  <2>6. Databases'
    BY <1>p, <1>f, <2>1, <2>2
    DEF SameDictionaries, ExactInv, Onward, Deployed, Databases, Converted, Left
  <2>7. MainWritten'
    BY <1>p, <2>1, <2>2
    DEF ExactInv, Onward, Deployed, FromInst, FromTruncate, MainWritten
  <2>8. InstancesWritten'
    BY <1>p, <1>f, <2>1, <2>2
    DEF ExactInv, Onward, Deployed, FromInst, FromTruncate, InstancesWritten, Left
  <2>9. ListsWritten'
    BY <1>p, <2>1, <2>2
    DEF ExactInv, Onward, Deployed, FromTruncate, FromDashboards, ListsWritten
  <2> QED BY <2>3, <2>4, <2>5, <2>6, <2>7, <2>8, <2>9 DEF ExactInv
<1>12. CASE ServerSecret
  <2>1. /\ Writing("key") /\ prep' = [Goto("main", {}) EXCEPT !.key = key']
        /\ UNCHANGED <<main, inst, mdb, published, manifest, sources, folders>>
    BY <1>12 DEF ServerSecret, disk, etc, grafana
  <2>0. prep'.pc = "main" /\ prep'.todo = {} /\ prep'.deps = prep.deps
        /\ prep'.rooted = prep.rooted
    <3>1. prep \in Preparation /\ Goto("main", {}) \in Preparation
      BY PCFacts, PrepFacts, GotoFacts DEF Progress
    <3> QED BY <2>1, <3>1, PCFacts, PrepFacts DEF Preparation
  <2>2. /\ prep.pc = "key" /\ prep'.pc = "main" /\ prep'.todo = {}
        /\ prep'.rooted = prep.rooted /\ prep'.deps = prep.deps
        /\ dict' = dict /\ edited' = edited /\ complete' = complete /\ loads' = loads
    BY <2>0, <2>1, WritingFacts
  <2>3. (complete => prep.pc = "idle")' /\ CompleteIsExact'
    BY <2>2 DEF ExactInv, CompleteIsExact
  <2>4. NothingElse'
    BY <1>p, <1>c, <2>1, <2>2
    DEF ExactInv, Onward, Deployed, NothingElse
  <2>5. SameDictionaries'
    BY <1>p, <2>1, <2>2
    DEF ExactInv, Onward, Deployed, SameDictionaries
  <2>6. Databases'
    BY <1>p, <2>1, <2>2
    DEF ExactInv, Onward, Deployed, Databases, Converted, Left
  <2>7. MainWritten'
    BY <1>p, <2>1, <2>2
    DEF ExactInv, Onward, Deployed, FromInst, FromTruncate, MainWritten
  <2>8. InstancesWritten'
    BY <1>p, <2>1, <2>2
    DEF ExactInv, Onward, Deployed, FromInst, FromTruncate, InstancesWritten, Left
  <2>9. ListsWritten'
    BY <1>p, <2>1, <2>2
    DEF ExactInv, Onward, Deployed, FromTruncate, FromDashboards, ListsWritten
  <2> QED BY <2>3, <2>4, <2>5, <2>6, <2>7, <2>8, <2>9 DEF ExactInv
<1>13. CASE SecondPass
  <2>1. /\ Writing("xtce") /\ prep' = [Goto("key", {}) EXCEPT !.rooted = TRUE]
        /\ prep.todo = {}
        /\ UNCHANGED <<key, main, inst, mdb, published, manifest, sources, folders>>
    BY <1>13 DEF SecondPass, disk, etc, grafana
  <2>0. prep'.pc = "key" /\ prep'.todo = {} /\ prep'.deps = prep.deps
        /\ prep'.rooted = TRUE
    <3>1. prep \in Preparation /\ Goto("key", {}) \in Preparation
      BY PCFacts, PrepFacts, GotoFacts DEF Progress
    <3> QED BY <2>1, <3>1, PCFacts, PrepFacts DEF Preparation
  <2>2. /\ prep.pc = "xtce" /\ prep'.pc = "key" /\ prep'.todo = {}
        /\ prep'.rooted /\ prep'.deps = prep.deps
        /\ dict' = dict /\ edited' = edited /\ complete' = complete /\ loads' = loads
    BY <2>0, <2>1, WritingFacts
  <2>3. (complete => prep.pc = "idle")' /\ CompleteIsExact'
    BY <2>2 DEF ExactInv, CompleteIsExact
  <2>4. NothingElse'
    BY <1>p, <1>c, <2>1, <2>2
    DEF ExactInv, Onward, Deployed, NothingElse
  <2>5. SameDictionaries'
    BY <1>p, <2>1, <2>2
    DEF ExactInv, Onward, Deployed, SameDictionaries
  <2>6. Databases'
    BY <1>p, <2>1, <2>2
    DEF ExactInv, Onward, Deployed, Databases, Converted, Left
  <2>7. MainWritten'
    BY <1>p, <2>1, <2>2
    DEF ExactInv, Onward, Deployed, FromInst, FromTruncate, MainWritten
  <2>8. InstancesWritten'
    BY <1>p, <2>1, <2>2
    DEF ExactInv, Onward, Deployed, FromInst, FromTruncate, InstancesWritten, Left
  <2>9. ListsWritten'
    BY <1>p, <2>1, <2>2
    DEF ExactInv, Onward, Deployed, FromTruncate, FromDashboards, ListsWritten
  <2> QED BY <2>3, <2>4, <2>5, <2>6, <2>7, <2>8, <2>9 DEF ExactInv
<1>14. CASE Clear
  <2>1. /\ Writing("clear") /\ UNCHANGED <<key, published, manifest, sources, folders>>
        /\ \/ prep' = prep
           \/ /\ prep' = Goto("key", {}) /\ UNCHANGED <<inst, mdb>>
              /\ \A n \in Names : inst[n] = None
              /\ \A n \in Names \ {GroundName} : mdb[n] = None
    BY <1>14 DEF Clear, disk, etc, grafana
  <2>2. /\ prep.pc = "clear" /\ prep'.pc \in {"clear", "key"}
        /\ prep'.pc = "key" => \A n \in Names : /\ inst'[n] = None
                                              /\ n # GroundName => mdb'[n] = None
        /\ prep'.rooted = prep.rooted /\ prep'.deps = prep.deps
        /\ dict' = dict /\ edited' = edited /\ complete' = complete /\ loads' = loads
    BY <2>1, WritingFacts, PrepFacts, PCFacts, GotoFacts DEF Progress
  <2>3. (complete => prep.pc = "idle")' /\ CompleteIsExact'
    BY <2>2 DEF ExactInv, CompleteIsExact
  <2>4. NothingElse'
    BY <1>p, <1>c, <2>1, <2>2
    DEF ExactInv, Onward, Deployed, NothingElse
  <2>5. SameDictionaries'
    BY <1>p, <2>1, <2>2
    DEF ExactInv, Onward, Deployed, SameDictionaries
  <2>6. Databases'
    BY <1>p, <2>1, <2>2
    DEF ExactInv, Onward, Deployed, Databases, Converted, Left
  <2>7. MainWritten'
    BY <1>p, <2>1, <2>2
    DEF ExactInv, Onward, Deployed, FromInst, FromTruncate, MainWritten
  <2>8. InstancesWritten'
    BY <1>p, <2>1, <2>2
    DEF ExactInv, Onward, Deployed, FromInst, FromTruncate, InstancesWritten, Left
  <2>9. ListsWritten'
    BY <1>p, <2>1, <2>2
    DEF ExactInv, Onward, Deployed, FromTruncate, FromDashboards, ListsWritten
  <2> QED BY <2>3, <2>4, <2>5, <2>6, <2>7, <2>8, <2>9 DEF ExactInv
<1> QED BY <1>1, <1>2, <1>3, <1>4, <1>5, <1>6, <1>7, <1>8, <1>9, <1>10, <1>11, <1>12, <1>13, <1>14
       DEF PrepareStep
\* At the end of the second pass everything is exact.
LEMMA ExactFinish ==
  ASSUME TypeOK, ExactInv, Finish
  PROVE  ExactInv'
<1>1. /\ prep.pc = "folders" /\ prep.todo = {} /\ prep.rooted
      /\ prep'.pc = "idle" /\ complete' = TRUE /\ loads' = {prep.deps}
      /\ UNCHANGED <<dict, key, main, inst, mdb, published, manifest, sources, folders,
                     edited>>
  BY IdleFacts DEF Finish, inputs, disk, etc, grafana
<1>2. /\ main = [key |-> key, names |-> Deployed]
      /\ published = PortsOf(prep.deps) /\ manifest = prep.deps
      /\ sources = Deployed /\ folders = Deployed
  BY <1>1 DEF ExactInv, MainWritten, ListsWritten, FromInst, FromTruncate, FromDashboards
<1>3. \A n \in Deployed : inst[n] = [scid |-> prep.deps[n].scid, port |-> prep.deps[n].port,
                                     root |-> TRUE]
  <2>1. prep.rooted = TRUE
    BY <1>1, GotoFacts DEF Progress, Preparation
  <2> QED BY <1>1, <2>1 DEF ExactInv, InstancesWritten, Left, FromInst, FromTruncate
<1>4. /\ \A n \in Names \ Deployed : inst[n] = None
      /\ \A n \in Names \ (Deployed \cup {GroundName}) : mdb[n] = None
  BY <1>1 DEF ExactInv, NothingElse, Cleared, PrepPCs, Looping
<1>5. \A n \in Deployed \ {GroundName} : Converted(n, prep.deps)
  BY <1>1 DEF ExactInv, Databases, Left
<1>6. CompleteIsExact'
  <2> DEFINE deps == prep.deps
  <2>1. deps \in loads'
    BY <1>1
  <2>2. LET deployed == DOMAIN deps
        IN  /\ main' = [key |-> key', names |-> deployed]
            /\ sources' = deployed /\ folders' = deployed
            /\ published' = PortsOf(deps)
            /\ manifest' = deps
            /\ \A n \in deployed : inst'[n] = [scid |-> deps[n].scid, port |-> deps[n].port,
                                              root |-> TRUE]
            /\ \A n \in Names \ deployed : inst'[n] = None
            /\ \A n \in deployed \ {GroundName} :
                  IF edited' THEN mdb'[n] \in Scids ELSE mdb'[n] = deps[n].scid
            /\ \A n \in Names \ (deployed \cup {GroundName}) : mdb'[n] = None
    BY <1>1, <1>2, <1>3, <1>4, <1>5 DEF Deployed, Converted
  <2> HIDE DEF deps
  <2> QED BY <2>1, <2>2 DEF CompleteIsExact, Converted
<1> QED BY <1>1, <1>6
    DEF ExactInv, NothingElse, SameDictionaries, Databases, MainWritten, InstancesWritten,
        ListsWritten, Cleared, FromInst, FromTruncate, FromDashboards

\* The operator and the server do not write to the runtime directory.
LEMMA ExactElsewhere ==
  ASSUME TypeOK, ExactInv, UNCHANGED <<disk, prep, complete, loads>>,
         \/ UNCHANGED <<dict, edited>>
         \/ edited'
  PROVE  ExactInv'
<1>1. UNCHANGED <<key, main, inst, mdb, published, manifest, sources, folders>>
  BY DEF disk, etc, grafana
<1>2. /\ prep.deps \in Manifests /\ Deployed \subseteq Names
      /\ \A n \in Deployed : prep.deps[n].scid \in Scids
  BY GotoFacts
<1>3. ASSUME NEW d \in Manifests, NEW n \in DOMAIN d, Converted(n, d)
      PROVE  Converted(n, d)'
  BY <1>1, <1>3, ManifestFacts DEF Converted
<1>4. CompleteIsExact'
  <2>1. loads \in SUBSET Manifests
    BY DEF TypeOK
  <2> SUFFICES ASSUME complete
               PROVE  CompleteIsExact'
    BY DEF CompleteIsExact
  <2>2. PICK d \in loads :
          LET deployed == DOMAIN d
          IN  /\ main = [key |-> key, names |-> deployed]
              /\ sources = deployed /\ folders = deployed
              /\ published = PortsOf(d)
              /\ manifest = d
              /\ \A n \in deployed : inst[n] = [scid |-> d[n].scid, port |-> d[n].port,
                                               root |-> TRUE]
              /\ \A n \in Names \ deployed : inst[n] = None
              /\ \A n \in deployed \ {GroundName} : Converted(n, d)
              /\ \A n \in Names \ (deployed \cup {GroundName}) : mdb[n] = None
    BY DEF ExactInv, CompleteIsExact
  <2>3. \A n \in DOMAIN d \ {GroundName} : Converted(n, d)'
    BY <1>3, <2>1, <2>2
  <2> QED BY <1>1, <2>1, <2>2, <2>3 DEF CompleteIsExact, PortsOf
<1>5. Databases'
  <2>1. \A n \in Deployed : Converted(n, prep.deps) => Converted(n, prep.deps)'
    BY <1>1, <1>2 DEF Converted
  <2> QED BY <1>1, <2>1 DEF ExactInv, Databases, Deployed, Left
<1>6. SameDictionaries'
  BY <1>1 DEF ExactInv, SameDictionaries, Deployed
<1> QED BY <1>1, <1>4, <1>5, <1>6
    DEF ExactInv, NothingElse, MainWritten, InstancesWritten, ListsWritten, Deployed, Left

LEMMA ExactStep ==
  ASSUME TypeOK, KeyInv, ExactInv, Next
  PROVE  ExactInv'
<1>1. CASE PrepareStep
  BY <1>1, ExactWrites, ExactFinish
<1>2. CASE Load
  <2>1. /\ prep'.pc = "clear" /\ prep'.deps = Resolved(toml) /\ prep'.todo = {}
        /\ prep'.rooted = FALSE
    BY <1>2, ResolvedFacts, IdleFacts DEF Load
  <2>2. complete' = FALSE /\ dict' = dict
    BY <1>2 DEF Load, inputs
  <2>3. \A n \in DOMAIN Resolved(toml) : dict[n] = Resolved(toml)[n].scid
    BY <1>2, ResolvedFacts DEF Load
  <2>4. SameDictionaries'
    BY <2>1, <2>2, <2>3 DEF SameDictionaries, Deployed
  <2> QED BY <2>1, <2>2, <2>4
      DEF ExactInv, CompleteIsExact, NothingElse, Databases, MainWritten, InstancesWritten,
          ListsWritten, Cleared, FromInst, FromTruncate, FromDashboards
<1>3. CASE Stop
  <2>1. ~complete' /\ prep'.pc = "idle"
    BY <1>3, IdleFacts DEF Stop, history, ExactInv
  <2> QED BY <2>1
      DEF ExactInv, CompleteIsExact, NothingElse, SameDictionaries, Databases, MainWritten,
          InstancesWritten, ListsWritten, Cleared, FromInst, FromTruncate, FromDashboards
<1>4. CASE Refuse \/ (\E file \in Files : EditFile(file)) \/ ServerStep
  <2>1. UNCHANGED <<disk, prep, complete, loads, dict, edited>>
    BY <1>4 DEF Refuse, EditFile, ServerStep, StartRun, LoadManifest, ComposeUp, Ready,
       GatewayLoads, EndRun, ContainerRestarts, Serving, history, inputs
  <2> QED BY <2>1, ExactElsewhere
<1>5. CASE \E n \in Names, content \in Scids \cup {None} : EditDictionary(n, content)
  <2>1. UNCHANGED <<disk, prep, complete, loads>> /\ edited'
    BY <1>5 DEF EditDictionary
  <2> QED BY <2>1, ExactElsewhere
<1> QED BY <1>1, <1>2, <1>3, <1>4, <1>5 DEF Next

LEMMA ExactCorrect == Spec => []ExactInv
<1>1. ASSUME Init
      PROVE  ExactInv
  <2>1. ~complete /\ prep.pc = "idle"
    BY <1>1, IdleFacts DEF Init
  <2> QED BY <2>1
      DEF ExactInv, CompleteIsExact, NothingElse, SameDictionaries, Databases, MainWritten,
          InstancesWritten, ListsWritten, Cleared, FromInst, FromTruncate, FromDashboards
<1>2. TypeOK /\ KeyInv /\ ExactInv /\ [Next]_vars => ExactInv'
  <2>1. ASSUME TypeOK, ExactInv, UNCHANGED vars
        PROVE  ExactInv'
    BY <2>1, ExactElsewhere DEF vars, inputs, history
  <2> QED BY <2>1, ExactStep
<1> QED BY <1>1, <1>2, TypeCorrect, KeyCorrect, PTL DEF Spec

\* A prepare that returned has left exactly the files of its input, whatever earlier
\* inputs and attempts left behind (_clear_generated, render_configuration, prepare).
THEOREM CompletePrepareIsExact == Spec => []CompleteIsExact
BY ExactCorrect, PTL DEF ExactInv
-----------------------------------------------------------------------------
\* What is on disk is what deps writes, or part of it.
Consistent(deps) ==
  /\ manifest \in {Partial, deps}
  /\ published = PortsOf(deps)
  /\ \A n \in Names : inst[n] # None =>
       n \in DOMAIN deps /\ inst[n].scid = deps[n].scid /\ inst[n].port = deps[n].port

\* Of the loads that the disk can be from, a prepare in progress is one, and when there
\* is only one, all that the disk, Yamcs, the supervisor and the gateway have is its.
ServedInv ==
  /\ prep.pc # "idle" => prep.deps \in loads \cap seen
  /\ pending => loads # {} /\ \A deps \in loads : loads = {deps} => Consistent(deps)
  /\ server.pc # "off" =>
       seen # {} /\ \A deps \in seen : seen = {deps} =>
         /\ Consistent(deps)
         /\ server.pc # "stopped" => server.manifest = deps
         /\ server.pc \in {"up", "spawned", "serving"} =>
              /\ server.ports = PortsOf(deps)
              /\ ~server.kept =>
                   \A n \in DOMAIN yamcs.up : n \in DOMAIN deps /\ yamcs.up[n] = deps[n]
         /\ server.pc = "serving" => server.gateway = deps

\* While Yamcs reads files that are consistent with deps, it works with deps.
LEMMA LoadedAgrees ==
  ASSUME TypeOK, NEW deps \in Manifests, Consistent(deps)
  PROVE  \A n \in DOMAIN Loaded.up : n \in DOMAIN deps /\ Loaded.up[n] = deps[n]
<1> SUFFICES ASSUME NEW n \in DOMAIN Loaded.up
             PROVE  n \in DOMAIN deps /\ Loaded.up[n] = deps[n]
  OBVIOUS
<1>1. /\ n \in Names /\ inst[n] # None
      /\ Loaded.up[n] = [scid |-> inst[n].scid, port |-> inst[n].port]
  BY LoadedFacts
<1>2. n \in DOMAIN deps /\ inst[n].scid = deps[n].scid /\ inst[n].port = deps[n].port
  BY <1>1 DEF Consistent
<1>3. deps[n] = [scid |-> deps[n].scid, port |-> deps[n].port]
  BY <1>2, ManifestFacts DEF Deployment
<1> QED BY <1>1, <1>2, <1>3

\* What prepare has loaded stays the same until it returns.
LEMMA PrepareKeeps ==
  ASSUME TypeOK, PrepareStep, ~Finish
  PROVE  prep'.deps = prep.deps /\ prep.pc # "idle"
<1>p. prep \in Preparation /\ Deployed \in SUBSET Names /\ prep.todo \subseteq Deployed
  BY GotoFacts DEF Progress, Deployed
<1>g. /\ \A pc \in PrepPCs : Goto(pc, {}).deps = prep.deps
      /\ \A pc \in PrepPCs : Goto(pc, Deployed).deps = prep.deps
      /\ \A n \in Names : Done(n).deps = prep.deps
  BY <1>p, PrepFacts, DoneFacts
<1>1. CASE Clear
  BY <1>1, <1>g, PCFacts DEF Clear, Writing
<1>2. CASE ServerSecret \/ SecondPass
  <2>1. /\ prep.pc # "idle"
        /\ \/ prep' = [Goto("main", {}) EXCEPT !.key = key']
           \/ prep' = [Goto("key", {}) EXCEPT !.rooted = TRUE]
    BY <1>2 DEF ServerSecret, SecondPass, Writing
  <2>2. Goto("main", {}) \in Preparation /\ Goto("key", {}) \in Preparation
    BY <1>p, PrepFacts, PCFacts
  <2> QED BY <1>g, <2>1, <2>2, PCFacts DEF Preparation
<1>3. CASE \E n \in Names : WriteInst(n) \/ WriteFolder(n) \/ GenerateXtce(n)
  BY <1>3, <1>g DEF WriteInst, WriteFolder, GenerateXtce, Writing
<1>4. CASE \/ WriteMain \/ CopyGround \/ WriteOverlay \/ TruncateManifest
           \/ WriteManifest \/ ClearDashboards \/ WriteSources \/ FirstPass
  BY <1>4, <1>g, PCFacts
  DEF WriteMain, CopyGround, WriteOverlay, TruncateManifest, WriteManifest,
      ClearDashboards, WriteSources, FirstPass, Writing
<1> QED BY <1>1, <1>2, <1>3, <1>4 DEF PrepareStep

\* The writes of prepare keep the disk consistent with what prepare has loaded.
LEMMA WritesAreConsistent ==
  ASSUME TypeOK, PrepareStep, ~Finish, NEW deps \in Manifests, deps = prep.deps,
         Consistent(deps)
  PROVE  Consistent(deps)'
<1>p. prep.todo \subseteq Deployed /\ inst \in [Names -> Instance \cup {None}]
  BY GotoFacts DEF Progress, Deployed, TypeOK
\* What a write may leave in the three files.
<1>c. ASSUME manifest' \in {manifest, Partial, deps},
             published' \in {published, PortsOf(deps)},
             \A n \in Names : \/ inst'[n] \in {inst[n], None}
                              \/ /\ n \in DOMAIN deps
                                 /\ inst'[n].scid = deps[n].scid
                                 /\ inst'[n].port = deps[n].port
      PROVE  Consistent(deps)'
  BY <1>c DEF Consistent, PortsOf
<1>1. CASE Clear
  <2>1. /\ manifest' = manifest /\ published' = published
        /\ inst' = inst \/ \E n \in Names : inst' = [inst EXCEPT ![n] = None]
    BY <1>1 DEF Clear, etc
  <2>2. \A n \in Names : inst'[n] \in {inst[n], None}
    BY <1>p, <2>1
  <2> QED BY <1>c, <2>1, <2>2
<1>2. ASSUME NEW n \in Names, WriteInst(n)
      PROVE  Consistent(deps)'
  <2>1. /\ manifest' = manifest /\ published' = published /\ n \in DOMAIN deps
        /\ inst' = [inst EXCEPT ![n] = [scid |-> deps[n].scid, port |-> deps[n].port,
                                        root |-> prep.rooted]]
    BY <1>2, <1>p DEF WriteInst, Deployed
  <2>2. \A m \in Names : \/ inst'[m] \in {inst[m], None}
                         \/ /\ m \in DOMAIN deps
                            /\ inst'[m].scid = deps[m].scid
                            /\ inst'[m].port = deps[m].port
    BY <1>p, <2>1
  <2> QED BY <1>c, <2>1, <2>2
<1>3. CASE \/ ServerSecret \/ WriteMain \/ CopyGround \/ WriteOverlay \/ TruncateManifest
           \/ WriteManifest \/ ClearDashboards \/ WriteSources \/ FirstPass \/ SecondPass
           \/ \E n \in Names : WriteFolder(n) \/ GenerateXtce(n)
  <2>1. /\ inst' = inst
        /\ manifest' \in {manifest, Partial, deps}
        /\ published' \in {published, PortsOf(deps)}
    BY <1>3 DEF ServerSecret, WriteMain, CopyGround, WriteOverlay, TruncateManifest,
       WriteManifest, ClearDashboards, WriteSources, FirstPass, SecondPass, WriteFolder,
       GenerateXtce, disk, etc
  <2> QED BY <1>c, <2>1
<1> QED BY <1>1, <1>2, <1>3 DEF PrepareStep

\* A state in which the disk and the server are as they were, and prepare has not loaded.
LEMMA ServedElsewhere ==
  ASSUME ServedInv,
         UNCHANGED <<inst, published, manifest, loads, seen, pending, server, yamcs>>,
         prep' = prep \/ prep'.pc = "idle"
  PROVE  ServedInv'
BY DEF ServedInv, Consistent, PortsOf

LEMMA ServedWrites ==
  ASSUME TypeOK, ServedInv, PrepareStep, ~Finish
  PROVE  ServedInv'
<1>1. /\ prep.deps \in Manifests
      /\ UNCHANGED <<loads, seen, pending, server, yamcs>>
  <2>1. \E pc : Writing(pc)
    BY DEF PrepareStep, Clear, ServerSecret, WriteMain, CopyGround, WriteOverlay,
       TruncateManifest, WriteManifest, ClearDashboards, WriteSources, WriteInst,
       WriteFolder, GenerateXtce, FirstPass, SecondPass
  <2> QED BY <2>1, WritingFacts, GotoFacts
<1>2. prep'.deps = prep.deps /\ prep.pc # "idle"
  BY PrepareKeeps
<1>3. prep.deps \in loads \cap seen
  BY <1>2 DEF ServedInv
<1>4. ASSUME NEW d \in loads \cup seen, d = prep.deps, Consistent(d)
      PROVE  Consistent(d)'
  BY <1>1, <1>4, WritesAreConsistent
<1>5. pending => loads # {} /\ \A d \in loads : loads = {d} => Consistent(d)'
  BY <1>3, <1>4 DEF ServedInv
<1>6. server.pc # "off" => \A d \in seen : seen = {d} => Consistent(d)'
  BY <1>3, <1>4 DEF ServedInv
<1> QED BY <1>1, <1>2, <1>3, <1>5, <1>6 DEF ServedInv
LEMMA ServedStep ==
  ASSUME TypeOK, ExactInv', ServedInv, Next
  PROVE  ServedInv'
<1>t. loads \in SUBSET Manifests /\ seen \in SUBSET Manifests
  BY DEF TypeOK
<1>1. CASE PrepareStep /\ ~Finish
  BY <1>1, ServedWrites
<1>2. CASE Finish
  <2>1. PICK deps : deps = prep.deps
    OBVIOUS
  <2>2. /\ prep'.pc = "idle" /\ complete' = TRUE /\ loads' = {deps} /\ prep.pc # "idle"
        /\ UNCHANGED <<inst, published, manifest, seen, server, yamcs>>
    BY <1>2, <2>1, IdleFacts DEF Finish, disk, etc
  <2>3. Consistent(deps)'
    <3>1. /\ published' = PortsOf(deps) /\ manifest' = deps
          /\ \A n \in DOMAIN deps : inst'[n] = [scid |-> deps[n].scid,
                                               port |-> deps[n].port, root |-> TRUE]
          /\ \A n \in Names \ DOMAIN deps : inst'[n] = None
      BY <2>2 DEF ExactInv, CompleteIsExact, PortsOf
    <3>2. \A n \in Names : inst'[n] # None =>
            n \in DOMAIN deps /\ inst'[n].scid = deps[n].scid /\ inst'[n].port = deps[n].port
      <4> SUFFICES ASSUME NEW n \in Names, inst'[n] # None
                   PROVE  /\ n \in DOMAIN deps /\ inst'[n].scid = deps[n].scid
                          /\ inst'[n].port = deps[n].port
        OBVIOUS
      <4>1. n \in DOMAIN deps
        BY <3>1
      <4>2. inst'[n] = [scid |-> deps[n].scid, port |-> deps[n].port, root |-> TRUE]
        BY <3>1, <4>1
      <4> QED BY <4>1, <4>2
    <3>3. (published = PortsOf(deps))' /\ (manifest \in {Partial, deps})'
      BY <3>1 DEF PortsOf
    <3> QED BY <3>2, <3>3 DEF Consistent
  <2>4. deps \in loads \cap seen
    BY <2>1, <2>2 DEF ServedInv
  <2> QED BY <2>2, <2>3, <2>4 DEF ServedInv
<1>3. CASE Load
  <2>1. /\ prep'.pc = "clear" /\ prep'.deps = Resolved(toml)
        /\ loads' = loads \cup {Resolved(toml)} /\ seen' = seen \cup {Resolved(toml)}
        /\ UNCHANGED <<inst, published, manifest, pending, server, yamcs>>
    BY <1>3, ResolvedFacts, IdleFacts DEF Load, disk, etc
  <2>2. \A d : (loads # {} /\ loads' = {d} => loads = {d})
            /\ (seen # {} /\ seen' = {d} => seen = {d})
    BY <2>1
  <2> QED BY <2>1, <2>2 DEF ServedInv, Consistent, PortsOf
<1>4. CASE \/ Refuse \/ Stop \/ (\E file \in Files : EditFile(file))
  <2>1. /\ UNCHANGED <<inst, published, manifest, loads, seen, pending, server, yamcs>>
        /\ prep' = prep \/ prep'.pc = "idle"
    BY <1>4, IdleFacts DEF Refuse, Stop, EditFile, disk, etc, stack, history
  <2> QED BY <2>1, ServedElsewhere
<1>5. CASE \E n \in Names, content \in Scids \cup {None} : EditDictionary(n, content)
  <2>1. UNCHANGED <<inst, published, manifest, loads, seen, pending, server, yamcs, prep>>
    BY <1>5 DEF EditDictionary, disk, etc, stack
  <2> QED BY <2>1, ServedElsewhere
<1>6. CASE StartRun
  <2>1. /\ pending /\ ~pending' /\ seen' = loads
        /\ UNCHANGED <<inst, published, manifest, loads, prep>>
    BY <1>6 DEF StartRun, disk, etc, history
  <2>2. server'.pc = "stopped"
    BY <1>6 DEF StartRun, Off
  <2> QED BY <2>1, <2>2 DEF ServedInv, Consistent, PortsOf
<1>7. CASE EndRun
  <2>1. /\ server'.pc = "off"
        /\ UNCHANGED <<inst, published, manifest, loads, prep, pending, seen>>
    BY <1>7 DEF EndRun, Off, disk, etc, history
  <2> QED BY <2>1 DEF ServedInv, Consistent, PortsOf
<1>8. CASE LoadManifest \/ ComposeUp \/ Ready \/ GatewayLoads \/ ContainerRestarts
  <2>1. UNCHANGED <<inst, published, manifest, loads, prep, pending, seen>>
    BY <1>8 DEF LoadManifest, ComposeUp, Ready, GatewayLoads, ContainerRestarts, Serving,
       disk, etc, history
  <2>2. /\ server.pc # "off" /\ server'.pc # "off" /\ server' \in ServerState
        /\ server \in ServerState
    BY <1>8, ServerKeepsTypes
    DEF LoadManifest, ComposeUp, Ready, GatewayLoads, ContainerRestarts, Serving, TypeOK,
        ServerState, ServerStep
  <2>3. ASSUME NEW d \in seen, seen = {d}
        PROVE  /\ server'.pc # "stopped" => server'.manifest = d
               /\ server'.pc \in {"up", "spawned", "serving"} =>
                    /\ server'.ports = PortsOf(d)
                    /\ ~server'.kept =>
                         \A n \in DOMAIN yamcs'.up : n \in DOMAIN d /\ yamcs'.up[n] = d[n]
               /\ server'.pc = "serving" => server'.gateway = d
    <3>1. Consistent(d) /\ d \in Manifests
      BY <1>t, <2>2, <2>3 DEF ServedInv
    <3>2. /\ published = PortsOf(d)
          /\ Readable => manifest = d
          /\ \A n \in DOMAIN Loaded.up : n \in DOMAIN d /\ Loaded.up[n] = d[n]
      BY <3>1, LoadedAgrees DEF Consistent, Readable
    <3>3. CASE LoadManifest
      <4>1. /\ Readable /\ server' = [server EXCEPT !.pc = "loaded", !.manifest = manifest]
        BY <3>3 DEF LoadManifest
      <4>2. server'.pc = "loaded" /\ server'.manifest = manifest
        BY <2>2, <4>1 DEF ServerState
      <4> QED BY <3>2, <4>1, <4>2
    <3>4. CASE ComposeUp
      <4>1. /\ server.pc = "loaded" /\ (yamcs' = Loaded \/ server.kept)
            /\ server' = [server EXCEPT !.pc = "up", !.ports = published]
        BY <3>4 DEF ComposeUp, Serving
      <4>2. server'.pc = "up" /\ server'.ports = published
            /\ server'.manifest = server.manifest /\ server'.kept = server.kept
        BY <2>2, <4>1 DEF ServerState
      <4> QED BY <2>3, <3>2, <4>1, <4>2 DEF ServedInv
    <3>5. CASE Ready
      <4>1. /\ server.pc = "up" /\ yamcs' = yamcs
            /\ server' = [server EXCEPT !.pc = "spawned"]
        BY <3>5 DEF Ready, Serving
      <4>2. server'.pc = "spawned" /\ server'.ports = server.ports
            /\ server'.manifest = server.manifest /\ server'.kept = server.kept
        BY <2>2, <4>1 DEF ServerState
      <4> QED BY <2>3, <4>1, <4>2 DEF ServedInv
    <3>6. CASE GatewayLoads
      <4>1. /\ server.pc = "spawned" /\ yamcs' = yamcs /\ Readable
            /\ server' = [server EXCEPT !.pc = "serving", !.gateway = manifest]
        BY <3>6 DEF GatewayLoads, Serving
      <4>2. server'.pc = "serving" /\ server'.ports = server.ports
            /\ server'.manifest = server.manifest /\ server'.gateway = manifest
            /\ server'.kept = server.kept
        BY <2>2, <4>1 DEF ServerState
      <4> QED BY <2>3, <3>2, <4>1, <4>2 DEF ServedInv
    <3>7. CASE ContainerRestarts
      <4>1. /\ server.pc \in {"up", "spawned", "serving"} /\ yamcs' = Loaded
            /\ server' = server
        BY <3>7 DEF ContainerRestarts
      <4> QED BY <2>3, <3>2, <4>1 DEF ServedInv
    <3> QED BY <1>8, <3>3, <3>4, <3>5, <3>6, <3>7
  <2> QED BY <2>1, <2>2, <2>3 DEF ServedInv, Consistent, PortsOf
<1> QED BY <1>1, <1>2, <1>3, <1>4, <1>5, <1>6, <1>7, <1>8 DEF Next, ServerStep

\* While all the prepares a run may see have loaded the same, gateway, bridges and Yamcs
\* agree (supervisor.py run, gateway.py main, deployments.py load_runtime_manifest).
THEOREM ServedStateAgrees == Spec => []ServedAgree
<1>1. ASSUME Init
      PROVE  ServedInv
  <2>1. prep.pc = "idle" /\ ~pending /\ server.pc = "off"
    BY <1>1, IdleFacts DEF Init, Off
  <2> QED BY <2>1 DEF ServedInv
<1>2. TypeOK /\ ExactInv' /\ ServedInv /\ [Next]_vars => ServedInv'
  <2>1. ASSUME ServedInv, UNCHANGED vars
        PROVE  ServedInv'
    BY <2>1, ServedElsewhere DEF vars, disk, etc, stack, history
  <2> QED BY <2>1, ServedStep
<1>3. ServedInv => ServedAgree
  BY DEF ServedInv, ServedAgree
<1> QED BY <1>1, <1>2, <1>3, TypeCorrect, ExactCorrect, PTL DEF Spec
=============================================================================
