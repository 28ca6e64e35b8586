------------------------------- MODULE Cluster --------------------------------
(***************************************************************************)
(* pkg/cluster/cluster.go: the controller that reconciles a cluster with    *)
(* the spec it is given, as ctlptl apply, create cluster and delete cluster *)
(* call it. Its state is spread over the user's kubeconfig, the cluster     *)
(* tool (kind, k3d or Docker Desktop), config maps in the cluster itself    *)
(* and the registry container. Nothing locks them together: several        *)
(* processes can be at work, and each can be killed between two steps.      *)
(*                                                                         *)
(* The Docker daemon is local and ctlptl runs outside of a container, so    *)
(* that no port forwarder is needed and no kubeconfig is rewritten. The     *)
(* registry is its port: what Registry does to keep a registry with this    *)
(* port running is another module. minikube is left out.                   *)
(***************************************************************************)
EXTENDS Integers

CONSTANTS
  Names,         \* cluster names, which are kubeconfig contexts too
  Procs,         \* the processes
  Daemon,        \* the maker of what was there before every process
  ProductOf,     \* the product whose clusters have that name
  Requests,      \* what a process may be asked: records of kind and spec
  Ports,         \* the host ports a new registry may get
  LocalDesktop,  \* the Docker daemon is a local Docker Desktop
  DefaultVersion,\* the Kubernetes version a tool installs by itself
  Versions,      \* the Kubernetes versions kind has node images of
  Worlds,        \* the clusters, contexts and registries there may be at first
  Faulty         \* bound: the names where requests fail and outsiders interfere

-------------------------------------------------------------------------------
(***************************************************************************)
(* Data, and what the constants have to be.                                *)
(***************************************************************************)

Products == {"kind", "k3d", "docker-desktop"}

NoVersion == [minor |-> 0, patch |-> 0]
AllVersions == Versions \cup {DefaultVersion, NoVersion}

\* The tool's own configuration: a kind or k3d config in the spec.
NoConfig == "none"
Configs == {r.spec.config : r \in Requests} \cup {NoConfig}

\* saved is the config in the cluster's spec config map, hosting the port in its
\* local-registry-hosting config map, wired the port its nodes were set up for.
Missing == "missing"

Clusters ==
  [state: {"absent", "booting", "up", "down"}, by: Procs \cup {Daemon}, version: AllVersions,
   saved: Configs \cup {Missing}, hosting: Ports \cup {0}, wired: Ports \cup {0}]

NoCluster ==
  [state |-> "absent", by |-> Daemon, version |-> NoVersion, saved |-> Missing,
   hosting |-> 0, wired |-> 0]

Entries == [product: Products \cup {""}, by: Procs \cup {Daemon}]

NoContext == [product |-> "", by |-> Daemon]

\* A cluster that announces a registry has its nodes set up for it.
Sound(c) == c.hosting # 0 => c.wired = c.hosting

\* Clusters, contexts and a registry of somebody else's, or of an earlier ctlptl. The
\* product of a context is what its name says.
IsWorld(w) ==
  /\ w.cluster \in [Names -> Clusters]
  /\ w.context \in [Names -> Entries]
  /\ w.current \in Names \cup {""}
  /\ w.reg \in Ports \cup {0} /\ w.joined \in BOOLEAN
  /\ w.cpus \in Nat
  /\ \A n \in Names :
       /\ w.cluster[n].by = Daemon /\ Sound(w.cluster[n])
       /\ w.context[n] \in {NoContext, [product |-> ProductOf[n], by |-> Daemon]}

IsRequest(r) ==
  /\ r.kind \in {"apply", "create", "delete"}
  /\ r.spec.name \in Names
  /\ r.spec.product \in Products \cup {""}
  /\ r.spec.product = "docker-desktop" => ProductOf[r.spec.name] = "docker-desktop"
  /\ r.spec.registry \in BOOLEAN
  /\ r.spec.config # Missing
  /\ r.spec.cpus \in Nat

ASSUME ClusterAssumption ==
  /\ Daemon \notin Procs
  /\ 0 \notin Ports
  /\ LocalDesktop \in BOOLEAN
  /\ ProductOf \in [Names -> Products]
  /\ \A r \in Requests : IsRequest(r)
  /\ \A w \in Worlds : IsWorld(w)

VARIABLES
  cluster,    \* what the tools run, by name
  context,    \* the kubeconfig: a product and whose credentials, by name
  current,    \* the kubeconfig's current context
  reg,        \* the port of the registry container, 0 when none is running
  joined,     \* the registry container is in the network of kind
  cpus,       \* the CPUs the Docker daemon has
  req,        \* what each process was asked
  at,         \* where each process is
  mem,        \* what each process remembers
  alone,      \* history: nobody else has done anything since the process
              \* began, and none of its own requests has failed
  disturbed   \* history: the names hit by a fault, a timeout, an outsider or a
              \* restart of Docker's engine

world == <<cluster, context, current, reg, joined, cpus>>
vars == <<world, req, at, mem, alone, disturbed>>

-------------------------------------------------------------------------------
(***************************************************************************)
(* What a process knows and decides.                                        *)
(***************************************************************************)

\* A cluster as Get reports it, in the parts that Apply looks at.
NotFound ==
  [found |-> FALSE, product |-> "", created |-> FALSE, version |-> NoVersion,
   registry |-> FALSE, config |-> NoConfig, cpus |-> 0]

Reports ==
  [found: BOOLEAN, product: Products \cup {""}, created: BOOLEAN, version: AllVersions,
   registry: BOOLEAN, config: Configs, cpus: Nat]

Listed(product) == [NotFound EXCEPT !.found = TRUE, !.product = product]

Parts == {"nodes", "hosting", "machine", "spec"}

Target(p) == req[p].spec.name
Wanted(p) == req[p].spec

Exists(n) == cluster[n].state # "absent"

SupportsRegistry(product) == product \in {"kind", "k3d"}
SupportsVersion(product) == product = "kind"

\* What Apply refuses before it looks at anything.
Valid(spec) ==
  /\ spec.product # ""
  /\ spec.registry => SupportsRegistry(spec.product)
  /\ spec.version # NoVersion => SupportsVersion(spec.product)
  /\ spec.config # NoConfig => spec.product \in {"kind", "k3d"}

\* kind has node images of one patch release for every minor one.
CanReconcileVersion(spec, old) ==
  \/ spec.version = NoVersion
  \/ spec.version = old.version
  \/ spec.product = "kind" /\ spec.version.minor = old.version.minor

\* Mutant: a cluster stays without a registry that it had not from the start.
AnyRegistryDoes(spec, old) == FALSE

RegistryDiffers(spec, old) == spec.registry /\ ~old.registry

\* Mutant: a spec without a config differs from a cluster with one.
ConfigDiffersAlways(spec, old) == spec.config # old.config

ConfigDiffers(spec, old) == spec.config # NoConfig /\ spec.config # old.config

\* The cluster has to be deleted before the spec can hold.
Irreconcilable(spec, old) ==
  /\ old.found
  /\ \/ old.product # "" /\ old.product # spec.product
     \/ RegistryDiffers(spec, old)
     \/ ~CanReconcileVersion(spec, old)
     \/ ConfigDiffers(spec, old)

NeedsRestart(spec, old) == ~old.created \/ old.cpus < spec.cpus

NeedsCreate(spec, old) == ~old.created \/ ~old.found \/ spec.product # old.product

-------------------------------------------------------------------------------

InFlight ==
  {"check", "lookup", "machine", "get", "populate", "decide", "delget", "admindel", "reload", "delctx",
   "restart", "registry", "orphan", "create", "connect", "waitctx", "setctx", "waithealth",
   "delspec", "newspec", "hosting", "final"}
\* A command ends as the code has it, or by a fault.
Over == {"done", "failed", "timedout", "panicked", "broken"}

Goto(p, place) == at' = [at EXCEPT ![p] = place]

\* A process's memory: the kubeconfig it has loaded, the cluster found, the parts
\* of its status still being read, the registry's port and whether it was in kind's
\* network, whether the machine of Docker has been set up, and, as history, what there was when it began.
Memories ==
  [config: [Names -> Entries], old: Reports, todo: SUBSET Parts, port: Ports \cup {0},
   joined: BOOLEAN, machine: BOOLEAN,
   was: [cluster: Clusters, entry: Entries, reg: Ports \cup {0}]]

Blank ==
  [config |-> [n \in Names |-> NoContext], old |-> NotFound, todo |-> {}, port |-> 0,
   joined |-> FALSE, machine |-> FALSE, was |-> [cluster |-> NoCluster, entry |-> NoContext, reg |-> 0]]

Return(p, result) == Goto(p, result) /\ mem' = [mem EXCEPT ![p] = Blank]

Disturb(n) == disturbed' = disturbed \cup {n}

Entry(p) == mem[p].config[Target(p)]

\* The API server answers, with the credentials that p has loaded.
Reachable(p) ==
  /\ Entry(p) # NoContext
  /\ cluster[Target(p)].state = "up"
  /\ cluster[Target(p)].by = Entry(p).by

Update(n, c) == cluster' = [cluster EXCEPT ![n] = c]

SetEntry(n, e) == context' = [context EXCEPT ![n] = e]

Init ==
  /\ \E w \in Worlds :
       /\ cluster = w.cluster /\ context = w.context /\ current = w.current /\ reg = w.reg
       /\ joined = w.joined /\ cpus = w.cpus
  /\ req \in [Procs -> Requests]
  /\ at = [p \in Procs |-> "idle"]
  /\ mem = [p \in Procs |-> Blank]
  /\ alone = [p \in Procs |-> TRUE]
  /\ disturbed = {}

-------------------------------------------------------------------------------
(***************************************************************************)
(* The start of a command, and Get.                                        *)
(***************************************************************************)

\* A process starts, and its controller loads the kubeconfig.
Begin(p) ==
  /\ at[p] = "idle"
  /\ Goto(p, CASE req[p].kind = "create" -> "check"
               [] req[p].kind = "delete" -> "lookup"
               [] OTHER                  -> "machine")
  /\ mem' = [mem EXCEPT ![p].config = context,
                        ![p].was = [cluster |-> cluster[Target(p)], entry |-> context[Target(p)], reg |-> reg]]
  /\ UNCHANGED <<world, req, disturbed>>

\* ctlptl create cluster stops at a cluster that exists.
CheckNew(p) ==
  /\ at[p] = "check"
  /\ \/ Entry(p) # NoContext /\ Return(p, "failed")
     \/ Entry(p) = NoContext /\ Goto(p, "machine") /\ UNCHANGED mem
  /\ UNCHANGED <<world, req, disturbed>>

\* Apply checks the spec, sets up the machine, and loads the kubeconfig again.
EnsureMachine(p) ==
  /\ at[p] = "machine"
  /\ \/ ~Valid(Wanted(p)) /\ Return(p, "failed")
     \/ /\ Valid(Wanted(p))
        /\ Goto(p, "get")
        /\ mem' = [mem EXCEPT ![p].config = context, ![p].machine = TRUE]
  /\ UNCHANGED <<world, req, disturbed>>

\* The lookup in the kubeconfig, and the health check.
Get(p) ==
  /\ at[p] = "get"
  /\ \/ /\ Entry(p) = NoContext
        /\ Goto(p, "decide")
        /\ mem' = [mem EXCEPT ![p].old = NotFound]
     \/ /\ Reachable(p)
        /\ Goto(p, "populate")
        /\ mem' = [mem EXCEPT ![p].todo = Parts,
                     ![p].old = [Listed(Entry(p).product) EXCEPT !.version = cluster[Target(p)].version]]
     \/ /\ Entry(p) # NoContext /\ ~Reachable(p)
        /\ Goto(p, "decide")
        /\ mem' = [mem EXCEPT ![p].old = Listed(Entry(p).product)]
  /\ UNCHANGED <<world, req, disturbed>>

\* Mutant: a config map that is missing is parsed all the same.
LearnMissing(old, part, c) ==
  CASE part = "nodes"   -> [old EXCEPT !.created = TRUE]
    [] part = "hosting" -> [old EXCEPT !.registry = c.hosting # 0 /\ c.hosting = reg]
    [] part = "machine" -> [old EXCEPT !.cpus = cpus]
    [] part = "spec"    -> [old EXCEPT !.config = c.saved]

\* One part of the status as it is read: the creation time of the nodes, the
\* registry that has the port in the hosting config map, the CPUs of the
\* machine, and the config in the spec config map.
Learn(old, part, c) ==
  CASE part = "nodes"   -> [old EXCEPT !.created = TRUE]
    [] part = "hosting" -> [old EXCEPT !.registry = c.hosting # 0 /\ c.hosting = reg]
    [] part = "machine" -> [old EXCEPT !.cpus = cpus]
    [] part = "spec"    -> [old EXCEPT !.config = IF c.saved = Missing THEN NoConfig ELSE c.saved]

\* The goroutines of populateCluster, in any order.
ReadPart(p) ==
  /\ at[p] = "populate"
  /\ \E part \in mem[p].todo :
       /\ part = "machine" \/ Reachable(p)
       /\ mem' = [mem EXCEPT ![p].todo = @ \ {part},
                             ![p].old = Learn(@, part, cluster[Target(p)])]
  /\ UNCHANGED <<world, req, at, disturbed>>

\* The first that fails cancels the others, and Get reports what there is.
GiveUpReading(p) ==
  /\ at[p] = "populate" /\ mem[p].todo \ {"machine"} # {}
  /\ ~Reachable(p)
  /\ mem' = [mem EXCEPT ![p].todo = {}]
  /\ UNCHANGED <<world, req, at, disturbed>>

Populated(p) ==
  /\ at[p] = "populate" /\ mem[p].todo = {}
  /\ Goto(p, "decide")
  /\ UNCHANGED <<world, req, mem, disturbed>>

-------------------------------------------------------------------------------
(***************************************************************************)
(* Deleting.                                                               *)
(***************************************************************************)

Decide(p) ==
  /\ at[p] = "decide"
  /\ Goto(p, IF Irreconcilable(Wanted(p), mem[p].old) THEN "delget" ELSE "restart")
  /\ UNCHANGED <<world, req, mem, disturbed>>

\* ctlptl delete cluster looks the cluster up, to have its full name, and goes on
\* whether or not it is found.
Lookup(p) ==
  /\ at[p] = "lookup"
  /\ Goto(p, "delget")
  /\ mem' = [mem EXCEPT ![p].machine = Reachable(p)]
  /\ UNCHANGED <<world, req, disturbed>>

\* The Get inside Delete, which sets up the machine on the way if the cluster is
\* healthy, and the choice of an admin: that of Docker Desktop is made from a
\* machine that may not have been set up.
FindDoomed(p) ==
  /\ at[p] = "delget"
  /\ LET ready == mem[p].machine \/ Reachable(p) IN
     \/ Entry(p) = NoContext /\ Return(p, "failed")
     \/ Entry(p).product = "docker-desktop" /\ ~LocalDesktop /\ Return(p, "failed")
     \/ Entry(p).product = "docker-desktop" /\ LocalDesktop /\ ~ready /\ Return(p, "panicked")
     \/ /\ Entry(p) # NoContext
        /\ Entry(p).product = "docker-desktop" => LocalDesktop /\ ready
        /\ Goto(p, "admindel")
        /\ mem' = [mem EXCEPT ![p].machine = ready]
  /\ UNCHANGED <<world, req, disturbed>>

\* kind and k3d take their context along, Docker Desktop leaves it behind.
RemoveCluster(n) ==
  /\ Update(n, NoCluster)
  /\ IF ProductOf[n] = "docker-desktop" THEN UNCHANGED context ELSE SetEntry(n, NoContext)

\* Docker Desktop restarts its engine for new settings, and every cluster goes down
\* with it. Those that were up may come up again; the registry has a restart policy.
Stopped(c) == IF c.state = "up" THEN [c EXCEPT !.state = "booting"] ELSE c

EngineRestarts(clusters) ==
  /\ cluster' = [n \in Names |-> Stopped(clusters[n])]
  /\ disturbed' = disturbed \cup {n \in Names : clusters[n].state = "up"}

\* Docker Desktop switches Kubernetes off, in its settings.
AdminDelete(p) ==
  /\ at[p] = "admindel"
  /\ IF ProductOf[Target(p)] = "docker-desktop" /\ Exists(Target(p))
       THEN EngineRestarts([cluster EXCEPT ![Target(p)] = NoCluster]) /\ UNCHANGED context
       ELSE RemoveCluster(Target(p)) /\ UNCHANGED disturbed
  /\ Goto(p, "reload")
  /\ UNCHANGED <<current, reg, joined, cpus, req, mem>>

\* After a Delete: the command is over, and Apply goes on without a cluster.
Deleted(p, m) ==
  IF req[p].kind = "delete"
    THEN Return(p, "done")
    ELSE Goto(p, "restart") /\ mem' = [mem EXCEPT ![p] = [m EXCEPT !.old = NotFound]]

\* Mutant: the context is left to the tool.
ReloadOnly(p) ==
  /\ at[p] = "reload"
  /\ Deleted(p, [mem[p] EXCEPT !.config = context])
  /\ UNCHANGED <<world, req, disturbed>>

Reload(p) ==
  /\ at[p] = "reload"
  /\ LET m == [mem[p] EXCEPT !.config = context] IN
     \/ context[Target(p)] # NoContext /\ Goto(p, "delctx") /\ mem' = [mem EXCEPT ![p] = m]
     \/ context[Target(p)] = NoContext /\ Deleted(p, m)
  /\ UNCHANGED <<world, req, disturbed>>

DeleteContext(p) ==
  /\ at[p] = "delctx"
  /\ \/ context[Target(p)] = NoContext /\ Return(p, "failed")
     \/ context[Target(p)] # NoContext /\ Deleted(p, mem[p])
  /\ SetEntry(Target(p), NoContext)
  /\ UNCHANGED <<cluster, current, reg, joined, cpus, req, disturbed>>

-------------------------------------------------------------------------------
(***************************************************************************)
(* Creating.                                                               *)
(***************************************************************************)

\* A cluster as the tool of the product makes it, up or still booting. k3d
\* connects it to the registry itself, and says so in the cluster.
Fresh(p, version, state) ==
  LET port == IF ProductOf[Target(p)] = "k3d" THEN mem[p].port ELSE 0 IN
  [NoCluster EXCEPT !.state = state, !.by = p, !.version = version, !.hosting = port, !.wired = port]

\* There is an admin for the product, and the machine can have the CPUs: only
\* Docker Desktop's can get more, and those of a cluster that was not found, or
\* not reached, count as none.
CanRestart(p) ==
  /\ Wanted(p).product = "docker-desktop" => LocalDesktop
  /\ mem[p].old.cpus < Wanted(p).cpus => LocalDesktop

\* The settings of a local Docker Desktop are looked at only if the cluster is not
\* there, or there are too few CPUs. They need not change even then.
MoreCPUs(p) == NeedsRestart(Wanted(p), mem[p].old) /\ LocalDesktop /\ cpus < Wanted(p).cpus

SwitchesOn(p) ==
  /\ NeedsRestart(Wanted(p), mem[p].old)
  /\ Wanted(p).product = "docker-desktop" /\ ~Exists(Target(p))

\* Docker Desktop starts its own cluster when Kubernetes is switched on. Restart waits
\* for the engine to answer again, and for no cluster.
Restart(p) ==
  /\ at[p] = "restart"
  /\ \/ ~CanRestart(p) /\ Return(p, "failed") /\ UNCHANGED <<cluster, cpus, disturbed>>
     \/ /\ CanRestart(p)
        /\ Goto(p, "registry")
        /\ cpus' = IF MoreCPUs(p) THEN Wanted(p).cpus ELSE cpus
        /\ \/ /\ SwitchesOn(p)
              /\ EngineRestarts([cluster EXCEPT ![Target(p)] = Fresh(p, DefaultVersion, "booting")])
           \/ ~SwitchesOn(p) /\ MoreCPUs(p) /\ EngineRestarts(cluster)
           \/ ~SwitchesOn(p) /\ ~MoreCPUs(p) /\ UNCHANGED <<cluster, disturbed>>
        /\ UNCHANGED mem
  /\ UNCHANGED <<context, current, reg, joined, req>>

\* The registry is started if there is none, and whatever its port is. A new one
\* is not in the network of kind yet.
EnsureRegistry(p) ==
  /\ at[p] = "registry"
  /\ Goto(p, IF NeedsCreate(Wanted(p), mem[p].old) THEN "orphan" ELSE "setctx")
  /\ IF Wanted(p).registry
       THEN /\ reg' \in IF reg # 0 THEN {reg} ELSE Ports
            /\ joined' = (joined /\ reg # 0)
            /\ mem' = [mem EXCEPT ![p].port = reg', ![p].joined = joined']
       ELSE UNCHANGED <<reg, joined, mem>>
  /\ UNCHANGED <<cluster, context, current, cpus, req, disturbed>>

\* Mutant: an orphan is left to the tool.
KeepOrphan(p) ==
  /\ at[p] = "orphan"
  /\ \/ Wanted(p).product # ProductOf[Target(p)] /\ Return(p, "failed")
     \/ Wanted(p).product = ProductOf[Target(p)] /\ Goto(p, "create") /\ UNCHANGED mem
  /\ UNCHANGED <<world, req, disturbed>>

\* kind and k3d insist on a prefix of the name. A cluster that the tool has
\* already is deleted: it is taken for one that the kubeconfig has lost.
ClearOrphan(p) ==
  /\ at[p] = "orphan"
  /\ \/ /\ Wanted(p).product # ProductOf[Target(p)]
        /\ Return(p, "failed")
        /\ UNCHANGED <<cluster, context>>
     \/ /\ Wanted(p).product = ProductOf[Target(p)]
        /\ Goto(p, "create")
        /\ IF SupportsRegistry(Wanted(p).product) /\ Exists(Target(p))
             THEN RemoveCluster(Target(p))
             ELSE UNCHANGED <<cluster, context>>
        /\ UNCHANGED mem
  /\ UNCHANGED <<current, reg, joined, cpus, req, disturbed>>

\* The versions the tool may install: kind, the one patch release it has of the
\* minor version asked for.
Installs(spec) ==
  IF spec.version = NoVersion
    THEN {DefaultVersion}
    ELSE {v \in Versions : v.minor = spec.version.minor}

\* The tool creates the cluster, writes its context and makes it the current one.
\* Docker Desktop resets the cluster it has, and writes the context by and by.
ToolCreates(p, version, state) ==
  /\ Update(Target(p), Fresh(p, version, state))
  /\ IF ProductOf[Target(p)] = "docker-desktop"
       THEN UNCHANGED <<context, current>>
       ELSE /\ SetEntry(Target(p), [product |-> Wanted(p).product, by |-> p])
            /\ current' = Target(p)

CanCreate(p) ==
  /\ Installs(Wanted(p)) # {}
  /\ SupportsRegistry(Wanted(p).product) => ~Exists(Target(p))
  /\ Wanted(p).product = "k3d" /\ Wanted(p).registry => reg # 0

Create(p) ==
  /\ at[p] = "create"
  /\ \/ /\ CanCreate(p)
        /\ \E version \in Installs(Wanted(p)), state \in {"booting", "up"} : ToolCreates(p, version, state)
        /\ Goto(p, IF Wanted(p).registry /\ Wanted(p).product = "kind" THEN "connect" ELSE "waitctx")
        /\ UNCHANGED mem
     \/ ~CanCreate(p) /\ Return(p, "failed") /\ UNCHANGED <<cluster, context, current>>
  /\ UNCHANGED <<reg, joined, cpus, req, disturbed>>

\* The registry joins the network of kind, by name, unless it was in it when it was
\* ensured, and every node is told of it. Docker refuses to connect it twice. A cluster
\* that is gone has no nodes.
Connect(p) ==
  /\ at[p] = "connect"
  /\ joined' = (joined \/ (reg # 0 /\ ~mem[p].joined))
  /\ LET refused == ~mem[p].joined /\ (reg = 0 \/ joined) IN
     \/ /\ ~refused
        /\ IF Exists(Target(p))
             THEN cluster' = [cluster EXCEPT ![Target(p)].wired = mem[p].port]
             ELSE UNCHANGED cluster
        /\ Goto(p, "waitctx")
        /\ UNCHANGED mem
     \/ refused /\ Return(p, "failed") /\ UNCHANGED cluster
  /\ UNCHANGED <<context, current, reg, cpus, req, disturbed>>

-------------------------------------------------------------------------------
(***************************************************************************)
(* Waiting, and configuring.                                               *)
(***************************************************************************)

AwaitContext(p) ==
  /\ at[p] = "waitctx"
  /\ context[Target(p)] # NoContext
  /\ Goto(p, "setctx")
  /\ mem' = [mem EXCEPT ![p].config = context]
  /\ UNCHANGED <<world, req, disturbed>>

\* kubectl config use-context, and the load of the kubeconfig that follows. The
\* clients made from now on have the credentials loaded here.
SetContext(p) ==
  /\ at[p] = "setctx"
  /\ \/ /\ context[Target(p)] # NoContext
        /\ current' = Target(p)
        /\ Goto(p, IF NeedsCreate(Wanted(p), mem[p].old) THEN "waithealth" ELSE "final")
        /\ mem' = [mem EXCEPT ![p].config = context]
     \/ context[Target(p)] = NoContext /\ Return(p, "failed") /\ UNCHANGED current
  /\ UNCHANGED <<cluster, context, reg, joined, cpus, req, disturbed>>

AwaitHealth(p) ==
  /\ at[p] = "waithealth"
  /\ Reachable(p)
  /\ Goto(p, "delspec")
  /\ UNCHANGED <<world, req, mem, disturbed>>

\* Mutant: only the wait for the context ends.
TimeOutContext(p) ==
  /\ at[p] = "waitctx" /\ context[Target(p)] = NoContext
  /\ Return(p, "timedout")
  /\ Disturb(Target(p))
  /\ UNCHANGED <<world, req>>

\* Both waits end after a time.
TimeOut(p) ==
  /\ \/ at[p] = "waitctx" /\ context[Target(p)] = NoContext
     \/ at[p] = "waithealth" /\ ~Reachable(p)
  /\ Return(p, "timedout")
  /\ Disturb(Target(p))
  /\ UNCHANGED <<world, req>>

\* A request to the API server that fails because the server is gone.
Unreachable(p) ==
  /\ at[p] \in {"delspec", "newspec", "hosting"}
  /\ ~Reachable(p)
  /\ Return(p, "failed")
  /\ UNCHANGED <<world, req, disturbed>>

\* writeClusterSpec deletes the old config map, and creates the new one.
DeleteSpec(p) ==
  /\ at[p] = "delspec" /\ Reachable(p)
  /\ cluster' = [cluster EXCEPT ![Target(p)].saved = Missing]
  /\ Goto(p, "newspec")
  /\ UNCHANGED <<context, current, reg, joined, cpus, req, mem, disturbed>>

CreateSpec(p) ==
  /\ at[p] = "newspec" /\ Reachable(p)
  /\ \/ /\ cluster[Target(p)].saved = Missing
        /\ cluster' = [cluster EXCEPT ![Target(p)].saved = Wanted(p).config]
        /\ Goto(p, IF Wanted(p).registry /\ Wanted(p).product = "kind" THEN "hosting" ELSE "final")
        /\ UNCHANGED mem
     \/ cluster[Target(p)].saved # Missing /\ Return(p, "failed") /\ UNCHANGED cluster
  /\ UNCHANGED <<context, current, reg, joined, cpus, req, disturbed>>

CreateHosting(p) ==
  /\ at[p] = "hosting" /\ Reachable(p)
  /\ \/ /\ cluster[Target(p)].hosting = 0
        /\ cluster' = [cluster EXCEPT ![Target(p)].hosting = mem[p].port]
        /\ Goto(p, "final")
        /\ UNCHANGED mem
     \/ cluster[Target(p)].hosting # 0 /\ Return(p, "failed") /\ UNCHANGED cluster
  /\ UNCHANGED <<context, current, reg, joined, cpus, req, disturbed>>

\* Apply answers with the cluster as Get reports it.
Finish(p) ==
  /\ at[p] = "final"
  /\ Return(p, "done")
  /\ UNCHANGED <<world, req, disturbed>>

-------------------------------------------------------------------------------
(***************************************************************************)
(* Faults, and what goes on outside.                                       *)
(***************************************************************************)

\* A request fails, or the process is killed.
Fail(p) ==
  /\ at[p] \in InFlight
  /\ Return(p, "broken")
  /\ UNCHANGED <<world, req>>

\* The process is killed while the tool works, which may come to its end.
DieCreating(p) ==
  /\ at[p] = "create" /\ CanCreate(p)
  /\ \E version \in Installs(Wanted(p)) : ToolCreates(p, version, "booting")
  /\ Return(p, "broken")
  /\ UNCHANGED <<reg, joined, cpus, req>>

\* A healthy API server takes longer than the health check allows.
SlowHealthCheck(p) ==
  /\ at[p] = "get" /\ Reachable(p)
  /\ Goto(p, "decide")
  /\ mem' = [mem EXCEPT ![p].old = Listed(Entry(p).product)]
  /\ UNCHANGED <<world, req>>

\* One of the reads of populateCluster fails for a reason of its own.
ReadFails(p) ==
  /\ at[p] = "populate" /\ mem[p].todo # {}
  /\ mem' = [mem EXCEPT ![p].todo = {}]
  /\ UNCHANGED <<world, req, at>>

Fault(p) ==
  /\ Target(p) \in Faulty
  /\ Fail(p) \/ DieCreating(p) \/ SlowHealthCheck(p) \/ ReadFails(p)
  /\ Disturb(Target(p))

\* The cluster comes up.
Boot(n) ==
  /\ cluster[n].state = "booting"
  /\ cluster' = [cluster EXCEPT ![n].state = "up"]
  /\ UNCHANGED <<context, current, reg, joined, cpus, req, at, mem, alone, disturbed>>

\* Docker Desktop writes the context of its cluster.
WriteContext(n) ==
  /\ ProductOf[n] = "docker-desktop" /\ Exists(n)
  /\ context[n] # [product |-> "docker-desktop", by |-> cluster[n].by]
  /\ SetEntry(n, [product |-> "docker-desktop", by |-> cluster[n].by])
  /\ UNCHANGED <<cluster, current, reg, joined, cpus, req, at, mem, alone, disturbed>>

\* The nodes of the cluster stop, or start again.
Flip(n) ==
  /\ n \in Faulty
  /\ cluster[n].state \in {"up", "down"}
  /\ cluster' = [cluster EXCEPT ![n].state = IF @ = "up" THEN "down" ELSE "up"]
  /\ Disturb(n)
  /\ UNCHANGED <<context, current, reg, joined, cpus, req, at, mem>>

\* The steps the code takes by itself.
Step(p) ==
  \/ Begin(p) \/ CheckNew(p) \/ EnsureMachine(p)
  \/ Get(p) \/ ReadPart(p) \/ GiveUpReading(p) \/ Populated(p)
  \/ Decide(p) \/ Lookup(p) \/ FindDoomed(p) \/ AdminDelete(p) \/ Reload(p) \/ DeleteContext(p)
  \/ Restart(p) \/ EnsureRegistry(p) \/ ClearOrphan(p) \/ Create(p) \/ Connect(p)
  \/ AwaitContext(p) \/ SetContext(p) \/ AwaitHealth(p) \/ TimeOut(p) \/ Unreachable(p)
  \/ DeleteSpec(p) \/ CreateSpec(p) \/ CreateHosting(p) \/ Finish(p)

\* After a step of q, no other process at work is alone, and after a fault or a
\* step of an outsider, none is.
Interrupt(q) == alone' = [p \in Procs |-> at'[p] \in InFlight => p = q /\ alone[p]]

Act(p) == Step(p) /\ Interrupt(p)

Next ==
  \/ \E p \in Procs : Act(p) \/ (Fault(p) /\ Interrupt(Daemon))
  \/ \E n \in Names : Boot(n) \/ WriteContext(n) \/ (Flip(n) /\ Interrupt(Daemon))

Spec == Init /\ [][Next]_vars

\* Every request is answered or times out, so a process goes on.
Fairness == \A p \in Procs : WF_vars(Act(p))

FairSpec == Spec /\ Fairness

-------------------------------------------------------------------------------
(***************************************************************************)
(* Properties.                                                             *)
(***************************************************************************)

TypeOK ==
  /\ cluster \in [Names -> Clusters]
  /\ context \in [Names -> Entries]
  /\ current \in Names \cup {""}
  /\ reg \in Ports \cup {0} /\ joined \in BOOLEAN
  /\ cpus \in Nat
  /\ req \in [Procs -> Requests]
  /\ at \in [Procs -> {"idle"} \cup InFlight \cup Over]
  /\ mem \in [Procs -> Memories]
  /\ alone \in [Procs -> BOOLEAN]
  /\ disturbed \subseteq Names

Ends(p, place) == at[p] # place /\ at'[p] = place /\ alone[p]

Applies(p) == req[p].kind # "delete"

\* The cluster is what the spec asks for, and the kubeconfig has its credentials.
Fulfils(c, entry, port, spec) ==
  /\ entry = [product |-> spec.product, by |-> c.by]
  /\ spec.version # NoVersion => c.version.minor = spec.version.minor
  /\ spec.registry => port # 0 /\ c.hosting = port /\ c.wired = port
  /\ spec.config # NoConfig => c.saved = spec.config

Holds(c, entry, port, spec) == c.state = "up" /\ Fulfils(c, entry, port, spec)

HoldsNow(n, spec) == Holds(cluster[n], context[n], reg, spec)

\* Apply has restarted Docker's engine under a cluster that it found and keeps. Only
\* after a creation does it wait for the cluster's health.
RestartedUnder(p) ==
  /\ NeedsRestart(Wanted(p), mem[p].old) /\ ~NeedsCreate(Wanted(p), mem[p].old)
  /\ LocalDesktop

(***************************************************************************)
(* An Apply that nobody interferes with and that reports success leaves a   *)
(* cluster that has the version, the registry and the config asked for, is  *)
(* the current context, and is up, whatever cluster it found. There are two *)
(* exceptions. A cluster that announces a registry its nodes were not set   *)
(* up for is kept: Apply looks at what is announced only. And a cluster that *)
(* Apply kept, and only raised the CPUs of Docker Desktop for, may still be  *)
(* on its way up after the restart of the engine, or never come up.         *)
(***************************************************************************)
AppliedHolds ==
  [][\A p \in Procs :
       Applies(p) /\ Ends(p, "done") /\ Sound(mem[p].was.cluster)
         => /\ Fulfils(cluster[Target(p)], context[Target(p)], reg, Wanted(p))'
            /\ cluster'[Target(p)].state = "up" \/ RestartedUnder(p)
            /\ current' = Target(p)]_vars

(***************************************************************************)
(* A cluster that satisfies the spec already is not created again: Apply    *)
(* deletes no cluster without need, and writes to none. All it may do to it *)
(* is restart Docker's engine under it.                                    *)
(***************************************************************************)
MatchIsKept ==
  [][\A p \in Procs :
       /\ Applies(p) /\ at[p] \in InFlight /\ alone[p]
       /\ at'[p] \in InFlight => alone'[p]
       /\ Holds(mem[p].was.cluster, mem[p].was.entry, mem[p].was.reg, Wanted(p))
       => \/ cluster'[Target(p)] = mem[p].was.cluster
          \/ RestartedUnder(p) /\ cluster'[Target(p)] = Stopped(mem[p].was.cluster)]_vars

(***************************************************************************)
(* From whatever an earlier call left behind when it failed or was killed,  *)
(* an Apply of a valid spec that nobody interferes with succeeds, if the    *)
(* Docker daemon can have the CPUs and, for Docker Desktop, is one.         *)
(***************************************************************************)
RetrySucceeds ==
  [][\A p \in Procs :
       /\ req[p].kind = "apply" /\ Ends(p, "failed")
       /\ Valid(Wanted(p)) /\ Wanted(p).product = ProductOf[Target(p)] /\ Installs(Wanted(p)) # {}
       => /\ ~LocalDesktop
          /\ Wanted(p).cpus > mem[p].old.cpus \/ Wanted(p).product = "docker-desktop"]_vars

(***************************************************************************)
(* A Delete that reports success leaves neither the cluster nor its context.*)
(***************************************************************************)
DeletedIsGone ==
  [][\A p \in Procs :
       req[p].kind = "delete" /\ Ends(p, "done")
         => cluster'[Target(p)] = NoCluster /\ context'[Target(p)] = NoContext]_vars

CallsFor(n) == {p \in Procs : Target(p) = n /\ at[p] # "idle"}

(***************************************************************************)
(* Processes that apply the same spec to a cluster at once delete each      *)
(* other's clusters. When they are through without a fault or a timeout, or a *)
(* restart of Docker's engine under the cluster, and                       *)
(* all of them reported success, the spec holds. (When one of them failed it *)
(* may not: Docker refuses to connect the registry for the second cluster.)  *)
(***************************************************************************)
SameSpecHolds ==
  \A n \in Names : \A p \in CallsFor(n) :
    /\ n \notin disturbed
    /\ \A q \in CallsFor(n) : Applies(q) /\ at[q] = "done" /\ Wanted(q) = Wanted(p)
    => HoldsNow(n, Wanted(p))

(***************************************************************************)
(* Every command comes to an end, even if the cluster never comes up.       *)
(***************************************************************************)
EveryCallReturns == \A p \in Procs : at[p] # "idle" ~> at[p] \in Over

-------------------------------------------------------------------------------
(***************************************************************************)
(* What docs and comments say of a command and the code does not do.        *)
(***************************************************************************)

(***************************************************************************)
(* README.md:86 resets Docker Desktop with ctlptl delete cluster. Delete    *)
(* takes Docker Desktop's client out of a machine that only a successful    *)
(* health check of the cluster sets up: with the cluster not answering, it  *)
(* dereferences a nil pointer.                                             *)
(***************************************************************************)
DeleteNeverPanics == \A p \in Procs : at[p] # "panicked"

==============================================================================
