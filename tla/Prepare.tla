------------------------------- MODULE Prepare -------------------------------
(***************************************************************************)
(* proves-yamcs-prepare and its readers.  prepare (prepare.py) turns the   *)
(* deployments file and the dictionaries (deployments.py, bundle.py) into  *)
(* the files the server runs from: it renders everything, generates the    *)
(* mission databases, and renders everything again with the containers it  *)
(* found in them.  It may stop between any two writes, and it may run      *)
(* while a server is up: the supervisor reads the manifest when a run      *)
(* starts, the gateway reads it again minutes later, and the Yamcs         *)
(* container reads its configuration whenever it is started or restarted.  *)
(*                                                                         *)
(* One prepare at a time.  A dictionary is known by the spacecraft id it   *)
(* declares, and so is the mission database generated from it.  Loops over *)
(* the deployments take them in any order.  Texts, templates and files     *)
(* that are the same for all inputs are left out.                          *)
(***************************************************************************)
EXTENDS Integers, Sequences

CONSTANTS
  Names,      \* names a deployment may have
  GroundName, \* the name whose mdb_file is GROUND_XTCE_NAME
  Scids,      \* spacecraft ids
  Base,       \* DEFAULT_TM_PORT_BASE
  Files,      \* contents the deployments file may have
  Keys,       \* values of secrets.token_hex
  Limit,      \* bound: how many events of each kind there are
  Ground,     \* the content of ground-control.xtce.xml
  Broken,     \* an XTCE file that fprime-to-xtce did not finish
  Partial,    \* a manifest truncated and not yet written
  None        \* no such file; a tm_port that is not given

Kinds == {"prepare", "stop", "edit", "run", "reload"}

Entry == [name : Names, tm_port : Nat \cup {None}]

ASSUME PrepareAssumption ==
  /\ GroundName \in Names
  /\ Base \in Nat
  /\ Files \subseteq Seq(Entry)
  /\ Limit \in [Kinds -> Nat]
  /\ None \notin Scids /\ None \notin Keys /\ None \notin Nat
  /\ {Ground, Broken} \cap (Scids \cup {None}) = {}

NamesIn(file) == {file[i].name : i \in DOMAIN file}

\* A port that is not given depends on the place in the file.
TmPort(file, i) ==
  IF file[i].tm_port # None THEN file[i].tm_port ELSE Base + 2 * (i - 1)

Ports == UNION {{TmPort(f, i) : i \in DOMAIN f} : f \in Files}
Deployment == [scid : Scids, port : Ports]
Manifests == UNION {[S -> Deployment] : S \in SUBSET Names}

VARIABLES
  \* what the operator edits
  toml,      \* deployments.toml
  dict,      \* spacecraft id in each dictionary
  \* the runtime directory
  key,       \* secrets/yamcs-secret-key
  main,      \* etc/yamcs.yaml: its secretKey and its instances
  inst,      \* etc/yamcs.<name>.yaml: ids, port, and is the root container real?
  mdb,       \* mdb/<name>.xtce.xml
  published, \* ports in compose.udp.yaml
  manifest,  \* deployments.json
  sources,   \* deployments that the Grafana data source has endpoints for
  folders,   \* deployments with dashboards
  \* the processes
  prep,      \* prepare: [pc, rooted, deps, todo, key]
  pending,   \* has a `make yamcs` been through prepare and not yet called run?
  server,    \* supervisor run and its gateway: [pc, manifest, gateway, ports], and kept:
             \* did the container survive the compose down it began with?
  yamcs,     \* what the container has loaded: [key, up]
  used,      \* how much of Limit has been used
  \* history
  complete,  \* the latest prepare that wrote anything has come to its end ...
  edited,    \* ... and a dictionary was changed after it was loaded
  loads,     \* what the latest complete prepare loaded, and those after it
  seen       \* the same for the prepare of the run in `server`

etc     == <<key, main, inst>>
grafana == <<sources, folders>>
disk    == <<etc, mdb, published, manifest, grafana>>
inputs  == <<toml, dict>>
stack   == <<pending, server, yamcs, seen>>
history == <<complete, edited, loads>>
vars == <<inputs, disk, prep, stack, used, history>>

Spend(kind) ==
  /\ used[kind] < Limit[kind]
  /\ used' = [used EXCEPT ![kind] = @ + 1]

-----------------------------------------------------------------------------
\* load_deployment_specs and resolve_deployments

Nothing == [n \in {} |-> None]

\* _unique on names, ports and spacecraft ids; load_bundle needs a dictionary.
Accepted(file) ==
  /\ file # <<>>
  /\ \A i, j \in DOMAIN file : i # j =>
       /\ file[i].name # file[j].name
       /\ TmPort(file, i) # TmPort(file, j)
       /\ dict[file[i].name] # dict[file[j].name]
  /\ \A n \in NamesIn(file) : dict[n] # None

Resolved(file) ==
  [n \in NamesIn(file) |->
     [scid |-> dict[n], port |-> TmPort(file, CHOOSE i \in DOMAIN file : file[i].name = n)]]

Idle == [pc |-> "idle", rooted |-> FALSE, deps |-> Nothing, todo |-> {}, key |-> None]
Goto(pc, todo) == [prep EXCEPT !.pc = pc, !.todo = todo]
Done(n) == [prep EXCEPT !.todo = @ \ {n}]
Deployed == DOMAIN prep.deps
PortsOf(deps) == {deps[n].port : n \in DOMAIN deps}

Load ==
  /\ prep.pc = "idle"
  /\ Spend("prepare")
  /\ Accepted(toml)
  /\ prep' = [Idle EXCEPT !.pc = "clear", !.deps = Resolved(toml)]
  /\ complete' = FALSE
  /\ edited' = FALSE
  /\ loads' = loads \cup {Resolved(toml)}
  /\ seen' = seen \cup {Resolved(toml)}
  /\ UNCHANGED <<inputs, disk, pending, server, yamcs>>

\* DeploymentError or BundleError: nothing has been written.
Refuse ==
  /\ prep.pc = "idle"
  /\ Spend("prepare")
  /\ ~Accepted(toml)
  /\ UNCHANGED <<inputs, disk, prep, stack, history>>

-----------------------------------------------------------------------------
\* render_configuration and prepare, write by write.

Writing(pc) ==
  /\ prep.pc = pc
  /\ UNCHANGED <<inputs, stack, used, history>>

\* Mutant: mission databases are not cleared.
MutClear ==
  /\ Writing("clear")
  /\ \/ /\ main # None
        /\ main' = None
        /\ UNCHANGED <<key, inst, mdb, prep>>
     \/ \E n \in Names :
          /\ inst[n] # None
          /\ inst' = [inst EXCEPT ![n] = None]
          /\ UNCHANGED <<key, main, mdb, prep>>
     \/ /\ main = None /\ \A n \in Names : inst[n] = None
        /\ prep' = Goto("key", {})
        /\ UNCHANGED <<etc, mdb>>
  /\ UNCHANGED <<published, manifest, grafana>>

\* _clear_generated unlinks one file after the other, those under etc first.
Clear ==
  /\ Writing("clear")
  /\ \/ /\ main # None
        /\ main' = None
        /\ UNCHANGED <<key, inst, mdb, prep>>
     \/ \E n \in Names :
          /\ inst[n] # None
          /\ inst' = [inst EXCEPT ![n] = None]
          /\ UNCHANGED <<key, main, mdb, prep>>
     \/ /\ main = None /\ \A n \in Names : inst[n] = None
        /\ \/ \E n \in Names \ {GroundName} :
                /\ mdb[n] # None
                /\ mdb' = [mdb EXCEPT ![n] = None]
                /\ UNCHANGED prep
           \/ /\ \A n \in Names \ {GroundName} : mdb[n] = None
              /\ prep' = Goto("key", {})
              /\ UNCHANGED mdb
        /\ UNCHANGED etc
  /\ UNCHANGED <<published, manifest, grafana>>

\* Mutant: every pass draws a key.
MutServerSecret ==
  /\ Writing("key")
  /\ key' \in Keys
  /\ prep' = [Goto("main", {}) EXCEPT !.key = key']
  /\ UNCHANGED <<main, inst, mdb, published, manifest, grafana>>

\* _server_secret: drawn once, kept from then on.
ServerSecret ==
  /\ Writing("key")
  /\ key' \in IF key = None THEN Keys ELSE {key}
  /\ prep' = [Goto("main", {}) EXCEPT !.key = key']
  /\ UNCHANGED <<main, inst, mdb, published, manifest, grafana>>

WriteMain ==
  /\ Writing("main")
  /\ main' = [key |-> prep.key, names |-> Deployed]
  /\ prep' = Goto("inst", Deployed)
  /\ UNCHANGED <<key, inst, mdb, published, manifest, grafana>>

\* Until the mission databases exist the root container is a placeholder.
WriteInst(n) ==
  /\ Writing("inst")
  /\ n \in prep.todo
  /\ inst' = [inst EXCEPT ![n] = [scid |-> prep.deps[n].scid, port |-> prep.deps[n].port,
                                  root |-> prep.rooted]]
  /\ prep' = Done(n)
  /\ UNCHANGED <<key, main, mdb, published, manifest, grafana>>

\* The copy of ground-control.xtce.xml.
CopyGround ==
  /\ Writing("inst")
  /\ prep.todo = {}
  /\ mdb' = [mdb EXCEPT ![GroundName] = Ground]
  /\ prep' = Goto("overlay", {})
  /\ UNCHANGED <<etc, published, manifest, grafana>>

\* render_compose_overlay
WriteOverlay ==
  /\ Writing("overlay")
  /\ published' = PortsOf(prep.deps)
  /\ prep' = Goto("truncate", {})
  /\ UNCHANGED <<etc, mdb, manifest, grafana>>

\* write_runtime_manifest writes in place.
TruncateManifest ==
  /\ Writing("truncate")
  /\ manifest' = Partial
  /\ prep' = Goto("manifest", {})
  /\ UNCHANGED <<etc, mdb, published, grafana>>

\* Mutant: ports are numbered anew.
MutWriteManifest ==
  /\ Writing("manifest")
  /\ manifest' = [n \in Deployed |-> [prep.deps[n] EXCEPT !.port = Base]]
  /\ prep' = Goto("dashboards", {})
  /\ UNCHANGED <<etc, mdb, published, grafana>>

WriteManifest ==
  /\ Writing("manifest")
  /\ manifest' = prep.deps
  /\ prep' = Goto("dashboards", {})
  /\ UNCHANGED <<etc, mdb, published, grafana>>

\* render_grafana: the old dashboards go, then come data source and dashboards.
ClearDashboards ==
  /\ Writing("dashboards")
  /\ folders' = {}
  /\ prep' = Goto("sources", {})
  /\ UNCHANGED <<etc, mdb, published, manifest, sources>>

WriteSources ==
  /\ Writing("sources")
  /\ sources' = Deployed
  /\ prep' = Goto("folders", Deployed)
  /\ UNCHANGED <<etc, mdb, published, manifest, folders>>

WriteFolder(n) ==
  /\ Writing("folders")
  /\ n \in prep.todo
  /\ folders' = folders \cup {n}
  /\ prep' = Done(n)
  /\ UNCHANGED <<etc, mdb, published, manifest, sources>>

\* The first pass is over: everything is written, but with placeholders.
FirstPass ==
  /\ Writing("folders")
  /\ prep.todo = {} /\ ~prep.rooted
  /\ prep' = Goto("xtce", Deployed)
  /\ UNCHANGED disk

\* generate_xtce reads the dictionary a second time.
GenerateXtce(n) ==
  /\ Writing("xtce")
  /\ n \in prep.todo
  /\ dict[n] # None
  /\ mdb' = [mdb EXCEPT ![n] = dict[n]]
  /\ prep' = Done(n)
  /\ UNCHANGED <<etc, published, manifest, grafana>>

\* Mutant: the second pass does not wait for the last root container.
MutSecondPass ==
  /\ Writing("xtce")
  /\ prep' = [prep EXCEPT !.pc = "key", !.rooted = TRUE]
  /\ UNCHANGED disk

\* All root containers are known: the second pass, which clears nothing.
SecondPass ==
  /\ Writing("xtce")
  /\ prep.todo = {}
  /\ prep' = [Goto("key", {}) EXCEPT !.rooted = TRUE]
  /\ UNCHANGED disk

\* prepare returns: make goes on to the next target.
Finish ==
  /\ prep.pc = "folders"
  /\ prep.todo = {} /\ prep.rooted
  /\ prep' = Idle
  /\ complete' = TRUE
  /\ loads' = {prep.deps}
  /\ pending' = TRUE
  /\ UNCHANGED <<inputs, disk, server, yamcs, seen, used, edited>>

\* prepare is killed or an exception ends it, in fprime-to-xtce or anywhere else.
Stop ==
  /\ prep.pc # "idle"
  /\ Spend("stop")
  /\ prep' = Idle
  /\ \/ UNCHANGED mdb
     \/ \E n \in prep.todo : prep.pc = "xtce" /\ mdb' = [mdb EXCEPT ![n] = Broken]
  /\ UNCHANGED <<inputs, etc, published, manifest, grafana, stack, history>>

PrepareStep ==
  \/ Clear \/ ServerSecret \/ WriteMain \/ CopyGround \/ WriteOverlay
  \/ TruncateManifest \/ WriteManifest \/ ClearDashboards \/ WriteSources
  \/ \E n \in Names : WriteInst(n) \/ WriteFolder(n) \/ GenerateXtce(n)
  \/ FirstPass \/ SecondPass \/ Finish

-----------------------------------------------------------------------------
\* The operator edits the deployments file, or replaces or removes a dictionary.
EditFile(file) ==
  /\ Spend("edit")
  /\ toml' = file
  /\ UNCHANGED <<dict, disk, prep, stack, history>>

EditDictionary(n, content) ==
  /\ Spend("edit")
  /\ dict' = [dict EXCEPT ![n] = content]
  /\ edited' = TRUE
  /\ UNCHANGED <<toml, disk, prep, stack, complete, loads>>

-----------------------------------------------------------------------------
\* The readers.

Off == [pc |-> "off", manifest |-> Nothing, gateway |-> Nothing, ports |-> {},
        kept |-> FALSE]
Gone == [key |-> None, up |-> Nothing]
Readable == manifest \notin {None, Partial}

\* What Yamcs makes of the files: an instance comes up when it has a configuration,
\* a mission database and a root container in it.
Startable(n) ==
  /\ main # None /\ n \in main.names
  /\ inst[n] # None /\ inst[n].root
  /\ mdb[n] \in Scids

Loaded ==
  [key |-> IF main = None THEN None ELSE main.key,
   up  |-> [n \in {m \in Names : Startable(m)} |-> [scid |-> inst[n].scid, port |-> inst[n].port]]]

\* make calls `supervisor run`, which stops the one before it.  That a compose down
\* failed, and the container is still there, nobody notices.
StartRun ==
  /\ pending
  /\ Spend("run")
  /\ pending' = FALSE
  /\ yamcs' \in {Gone, yamcs}
  /\ server' = [Off EXCEPT !.pc = "stopped", !.kept = yamcs' # Gone]
  /\ seen' = loads
  /\ UNCHANGED <<inputs, disk, prep, history>>

Serving(from) ==
  /\ server.pc = from
  /\ UNCHANGED <<inputs, disk, prep, pending, used, history, seen>>

LoadManifest ==
  /\ Serving("stopped")
  /\ Readable
  /\ server' = [server EXCEPT !.pc = "loaded", !.manifest = manifest]
  /\ UNCHANGED yamcs

\* The container is created with the ports of the overlay and reads its files; one
\* that is still there may go on with what it has read.
ComposeUp ==
  /\ Serving("loaded")
  /\ server' = [server EXCEPT !.pc = "up", !.ports = published]
  /\ \/ yamcs' = Loaded
     \/ server.kept /\ UNCHANGED yamcs

\* wait_until_instances_ready, and the start of the bridges and the gateway.
Ready ==
  /\ Serving("up")
  /\ DOMAIN server.manifest \subseteq DOMAIN yamcs.up
  /\ server' = [server EXCEPT !.pc = "spawned"]
  /\ UNCHANGED yamcs

\* main of the gateway reads the manifest for itself.
GatewayLoads ==
  /\ Serving("spawned")
  /\ Readable
  /\ server' = [server EXCEPT !.pc = "serving", !.gateway = manifest]
  /\ UNCHANGED yamcs

\* The run ends: a manifest that cannot be read, a wait that times out, or stop.
EndRun ==
  /\ server.pc # "off"
  /\ server' = Off
  /\ UNCHANGED <<inputs, disk, prep, pending, yamcs, used, history, seen>>

\* restart: unless-stopped
ContainerRestarts ==
  /\ server.pc \in {"up", "spawned", "serving"}
  /\ Spend("reload")
  /\ yamcs' = Loaded
  /\ UNCHANGED <<inputs, disk, prep, pending, server, history, seen>>

ServerStep == \/ StartRun \/ LoadManifest \/ ComposeUp \/ Ready \/ GatewayLoads
              \/ EndRun \/ ContainerRestarts

-----------------------------------------------------------------------------
Init ==
  /\ toml \in Files
  /\ dict \in [Names -> Scids \cup {None}]
  /\ key = None
  /\ main = None
  /\ inst = [n \in Names |-> None]
  /\ mdb = [n \in Names |-> None]
  /\ published = {}
  /\ manifest = None
  /\ sources = {} /\ folders = {}
  /\ prep = Idle
  /\ pending = FALSE
  /\ server = Off
  /\ yamcs = Gone
  /\ used = [k \in Kinds |-> 0]
  /\ complete = FALSE
  /\ edited = FALSE
  /\ loads = {}
  /\ seen = {}

Next == \/ Load \/ Refuse \/ PrepareStep \/ Stop
        \/ \E file \in Files : EditFile(file)
        \/ \E n \in Names, content \in Scids \cup {None} : EditDictionary(n, content)
        \/ ServerStep

Spec == Init /\ [][Next]_vars

-----------------------------------------------------------------------------
Looping == {"inst", "folders", "xtce"}
PrepPCs == {"idle", "clear", "key", "main", "overlay", "truncate", "manifest",
            "dashboards", "sources"} \cup Looping

Preparation == [pc : PrepPCs, rooted : BOOLEAN, deps : Manifests, todo : SUBSET Names,
                key : Keys \cup {None}]
Instance == [scid : Scids, port : Ports, root : BOOLEAN]
ServerState == [pc : {"off", "stopped", "loaded", "up", "spawned", "serving"},
                manifest : Manifests, gateway : Manifests, ports : SUBSET Ports,
                kept : BOOLEAN]

TypeOK ==
  /\ toml \in Files
  /\ dict \in [Names -> Scids \cup {None}]
  /\ key \in Keys \cup {None}
  /\ main \in [key : Keys, names : SUBSET Names] \cup {None}
  /\ inst \in [Names -> Instance \cup {None}]
  /\ mdb \in [Names -> Scids \cup {Ground, Broken, None}]
  /\ published \in SUBSET Ports
  /\ manifest \in Manifests \cup {Partial, None}
  /\ sources \in SUBSET Names /\ folders \in SUBSET Names
  /\ prep \in Preparation
  /\ prep.todo \subseteq Deployed /\ (prep.todo # {} => prep.pc \in Looping)
  /\ prep.pc = "main" => prep.key # None
  /\ pending \in BOOLEAN
  /\ server \in ServerState
  /\ yamcs \in [key : Keys \cup {None}, up : Manifests]
  /\ used \in [Kinds -> Nat]
  /\ complete \in BOOLEAN /\ edited \in BOOLEAN
  /\ loads \in SUBSET Manifests /\ seen \in SUBSET Manifests

\* Is the mission database of n that of the dictionary that was loaded?
Converted(n, deps) == IF edited THEN mdb[n] \in Scids ELSE mdb[n] = deps[n].scid

\* When prepare has returned, the runtime directory is exactly that of its input:
\* nothing is left of earlier inputs or of attempts that stopped half way, no
\* placeholder remains, and the files agree.  A deployment called like the ground
\* database shares a file with it and gets the wrong one (prepare.py:141), so its
\* database is left out.
CompleteIsExact ==
  complete => \E deps \in loads :
    LET deployed == DOMAIN deps
    IN  /\ main = [key |-> key, names |-> deployed]
        /\ sources = deployed /\ folders = deployed
        /\ published = PortsOf(deps)
        /\ manifest = deps
        /\ \A n \in deployed : inst[n] = [scid |-> deps[n].scid, port |-> deps[n].port,
                                         root |-> TRUE]
        /\ \A n \in Names \ deployed : inst[n] = None
        /\ \A n \in deployed \ {GroundName} : Converted(n, deps)
        /\ \A n \in Names \ (deployed \cup {GroundName}) : mdb[n] = None

\* Every configuration on disk and in Yamcs has the key in the secrets file, across
\* attempts that stopped between drawing it and using it (_server_secret).
OneKey ==
  /\ main # None => main.key = key
  /\ yamcs.key \in {None, key}

\* As long as every prepare since the one before this run loaded the same, the
\* gateway, the event bridges and Yamcs work with the same deployments, ids and
\* ports, whatever a prepare in progress or broken off has left on disk when the
\* gateway reads the manifest or the container is restarted; Yamcs unless its container
\* survived the compose down of this run's start (supervisor.py:139).
ServedAgree ==
  \A deps \in seen : seen = {deps} /\ server.pc = "serving" =>
    /\ server.manifest = deps /\ server.gateway = deps
    /\ server.ports = PortsOf(deps)
    /\ ~server.kept =>
         \A n \in DOMAIN yamcs.up : n \in DOMAIN deps /\ yamcs.up[n] = deps[n]
=============================================================================
