------------------------------- MODULE Commands -------------------------------
(***************************************************************************)
(* pkg/cmd: ctlptl apply, delete and get, the commands that take several    *)
(* resources, with pkg/visitor and pkg/encoding, which read their files. A  *)
(* command goes through its clusters and registries one by one, with the    *)
(* controllers of Registry and Cluster: what those do is here in the few    *)
(* steps in which the resources depend on one another. A cluster knows its  *)
(* registry by the port in its hosting config map, its nodes reach it by    *)
(* name in a Docker network, and a registry whose spec has changed is       *)
(* another container, on the same port or not.                             *)
(***************************************************************************)
EXTENDS Naturals, Sequences, Functions

CONSTANTS
  None,             \* the empty string: no name, or no product
  Clusters,         \* cluster names
  Registries,       \* registry names
  ProductOf,        \* the product of a cluster, by name
  DefaultCluster,   \* clusterid's DefaultClusterName, by product
  AliasOf,          \* the cluster normalizedGet tries for a name, or None
  DefaultRegistry,  \* the name of a registry that is given none
  Ports,            \* host ports
  Procs,            \* the processes
  Requests,         \* what a process may be asked: records
  Worlds,           \* the clusters and registries there may be at first
  Faults            \* bound: the processes that may be killed or fail

-------------------------------------------------------------------------------
(***************************************************************************)
(* Data.                                                                   *)
(***************************************************************************)

\* hosting is the port in the hosting config map, mirror the registry that the
\* nodes pull from.
NoCluster == [state |-> "absent", hosting |-> 0, mirror |-> None]
NoRegistry == [state |-> "absent", port |-> 0, k3d |-> FALSE, nets |-> {}]

\* A resource of a file or of the command line. Other is a document that is
\* neither a cluster nor a registry.
Cluster(name, product, registry) ==
  [kind |-> "Cluster", name |-> name, product |-> product, registry |-> registry, port |-> 0]
Registry(name, port) ==
  [kind |-> "Registry", name |-> name, product |-> None, registry |-> None, port |-> port]
Other == [kind |-> "Other", name |-> None, product |-> None, registry |-> None, port |-> 0]

\* The clusters of kind share a network, one of k3d has its own.
NetworkOf(c) == IF ProductOf[c] = "kind" THEN "kind" ELSE c

\* FillDefaults of the cluster package, and of the registry package.
FullName(r) ==
  IF r.name # None THEN r.name
  ELSE IF r.kind = "Registry" THEN DefaultRegistry ELSE DefaultCluster[r.product]

PortOrNone == Ports \cup {0}
Networks == {"kind"} \cup Clusters

\* The states of clusters and of registries; one that runs has published a port.
ClusterStates ==
  [state: {"absent", "up", "down"}, hosting: PortOrNone, mirror: Registries \cup {None}]
RegistryStates ==
  {r \in [state: {"absent", "up", "dead"}, port: PortOrNone, k3d: BOOLEAN, nets: SUBSET Networks] :
     (r.port # 0) <=> (r.state = "up")}

\* What the documents and the arguments of the command line are decoded to.
IsResource(r) ==
  \/ r = Other
  \/ \E name \in Registries \cup {None}, port \in PortOrNone : r = Registry(name, port)
  \/ /\ r = Cluster(r.name, r.product, r.registry)
     /\ r.product \in {None, "kind", "k3d"} /\ r.registry \in Registries \cup {None}

\* Only a delete cascades. The controllers refuse to create a cluster whose name is
\* not one of its product's.
IsRequest(q) ==
  /\ q.kind \in {"apply", "delete", "get"} /\ q.cascade \in BOOLEAN /\ q.ignoreNotFound \in BOOLEAN
  /\ q.cascade => q.kind = "delete"
  /\ q.resources \in Seq(Range(q.resources))
  /\ \A r \in Range(q.resources) :
       /\ IsResource(r)
       /\ q.kind = "apply" /\ r.kind = "Cluster" /\ r.product # None => FullName(r) \in Clusters

\* The names of products are no names of clusters, and two containers do not have
\* one port of the host.
ASSUME CommandsAssumption ==
  /\ None \notin Clusters \cup Registries \cup {"kind", "k3d"}
  /\ 0 \notin Ports
  /\ DefaultRegistry \in Registries
  /\ \A c \in Clusters : ProductOf[c] \in {"kind", "k3d"} /\ AliasOf[c] \notin Clusters
  /\ \A q \in Requests : IsRequest(q)
  /\ \A w \in Worlds :
       /\ w.cluster \in [Clusters -> ClusterStates] /\ w.reg \in [Registries -> RegistryStates]
       /\ \A r, s \in Registries : w.reg[r].port # 0 /\ w.reg[r].port = w.reg[s].port => r = s

VARIABLES
  cluster,  \* the clusters, by name
  reg,      \* the registry containers, by name
  req,      \* what each process was asked
  at,       \* where each process is
  mem,      \* what each process remembers
  alone,    \* history: nobody else has done anything since the process began
  owed      \* history: the registries a cascading delete was to delete

world == <<cluster, reg>>
vars == <<world, req, at, mem, alone, owed>>

-------------------------------------------------------------------------------

Exists(name) == name \in Clusters /\ cluster[name].state # "absent"
HasContainer(name) == name \in Registries /\ reg[name].state # "absent"
Up(name) == name \in Registries /\ reg[name].state = "up"

\* Mutant: only the name itself is tried.
ExactName(name) == name

\* The name under which normalizedGet finds a cluster, or the name itself.
Normalize(name) ==
  IF ~Exists(name) /\ Exists(AliasOf[name]) THEN AliasOf[name] ELSE name

\* The registry in the status of a cluster: the running one with the port.
StatusRegistry(name) ==
  IF Exists(name) /\ cluster[name].state = "up" /\ cluster[name].hosting # 0
    THEN LET hosts == {r \in Registries : Up(r) /\ reg[r].port = cluster[name].hosting} IN
         IF hosts = {} THEN None ELSE CHOOSE r \in hosts : TRUE
    ELSE None

\* The registry that a cluster leads to: that of the spec or, failing that, the one
\* in the status, the name of the cluster being looked up as it is given.
RegistryOf(r) ==
  IF r.kind = "Cluster" /\ r.registry = None THEN StatusRegistry(Normalize(r.name)) ELSE r.registry

-------------------------------------------------------------------------------

InFlight ==
  {"regs", "look", "drop", "run", "clusters", "inspect", "remove", "create", "join", "hosting",
   "cascade", "delete", "get"}
Over == {"done", "failed", "broken"}

Goto(p, place) == at' = [at EXCEPT ![p] = place]

\* A process's memory: the resources to do, those of the next phase, the registry
\* being applied, where to go on after it, and the registry that came of it.
NoAsk == [name |-> None, port |-> 0, k3d |-> FALSE]
Blank ==
  [todo |-> <<>>, later |-> <<>>, ask |-> NoAsk, back |-> None, port |-> 0, nets |-> {}]

Return(p, result) == Goto(p, result) /\ mem' = [mem EXCEPT ![p] = Blank]

Item(p) == Head(mem[p].todo)
Finished(p) == mem[p].todo = <<>>
Advance(p, place) ==
  Goto(p, place) /\ mem' = [mem EXCEPT ![p].todo = Tail(@), ![p].ask = NoAsk]

Init ==
  /\ \E w \in Worlds : cluster = w.cluster /\ reg = w.reg
  /\ req \in [Procs -> Requests]
  /\ at = [p \in Procs |-> "idle"]
  /\ mem = [p \in Procs |-> Blank]
  /\ alone = [p \in Procs |-> TRUE]
  /\ owed = [p \in Procs |-> {}]

-------------------------------------------------------------------------------
(***************************************************************************)
(* Reading the command.                                                    *)
(***************************************************************************)

Asked(p) == Range(req[p].resources)

Malformed(p) == Other \in Asked(p)

\* What a cascading delete is to delete besides the clusters: the registries it
\* names, and those of the clusters it names that can be asked.
Owed(p) ==
  LET registryOf(r) == IF r.kind = "Registry" THEN FullName(r) ELSE RegistryOf(r) IN
  IF req[p].kind = "delete" /\ req[p].cascade
    THEN {registryOf(r) : r \in Asked(p)} \ {None}
    ELSE {}

\* Every document is decoded before the first resource is touched.
Begin(p) ==
  /\ at[p] = "idle"
  /\ \/ Malformed(p) /\ Return(p, "failed")
     \/ /\ ~Malformed(p)
        /\ Goto(p, CASE req[p].kind = "apply" -> "regs"
                     [] req[p].cascade        -> "cascade"
                     [] OTHER                 -> req[p].kind)
        /\ mem' = [mem EXCEPT ![p].todo = req[p].resources]
  /\ owed' = [owed EXCEPT ![p] = IF Malformed(p) THEN {} ELSE Owed(p)]
  /\ UNCHANGED <<world, req>>

-------------------------------------------------------------------------------
(***************************************************************************)
(* Applying a registry.                                                    *)
(***************************************************************************)

\* Look goes on at back, once there is a registry that suits ask.
Ask(p, ask, back, todo) ==
  Goto(p, "look") /\ mem' = [mem EXCEPT ![p].ask = ask, ![p].back = back, ![p].todo = todo]

\* Of all resources first the registries, then, from the beginning again, the
\* clusters.
NextRegistry(p) ==
  /\ at[p] = "regs"
  /\ \/ /\ Finished(p)
        /\ Goto(p, "clusters")
        /\ mem' = [mem EXCEPT ![p].todo = req[p].resources]
     \/ ~Finished(p) /\ Item(p).kind # "Registry" /\ Advance(p, "regs")
     \/ /\ ~Finished(p) /\ Item(p).kind = "Registry"
        /\ Ask(p, [name |-> FullName(Item(p)), port |-> Item(p).port, k3d |-> FALSE], "regs", Tail(mem[p].todo))
  /\ UNCHANGED <<world, req, owed>>

\* Mutant: any port will do.
SuitsAnyPort(old, ask) == old.state = "up" /\ (ask.k3d => old.k3d)

\* Mutant: a registry that does not run will do.
SuitsDead(old, ask) ==
  /\ old.state # "absent"
  /\ old.port # 0 /\ ask.port # 0 => old.port = ask.port
  /\ ask.k3d => old.k3d

Suits(old, ask) ==
  /\ old.state = "up"
  /\ ask.port # 0 => old.port = ask.port
  /\ ask.k3d => old.k3d

\* A registry that does not suit is made anew, with the port and the labels that
\* it has now unless others are asked for.
Look(p) ==
  /\ at[p] = "look"
  /\ \E ask \in {mem[p].ask} : \E old \in {reg[ask.name]} :
     \/ /\ Suits(old, ask)
        /\ Goto(p, mem[p].back)
        /\ mem' = [mem EXCEPT ![p].port = old.port, ![p].nets = old.nets]
     \/ /\ ~Suits(old, ask)
        /\ Goto(p, IF old.state = "absent" THEN "run" ELSE "drop")
        /\ mem' = [mem EXCEPT ![p].ask.port = IF ask.port # 0 THEN ask.port ELSE old.port,
                              ![p].ask.k3d = ask.k3d \/ old.k3d]
  /\ UNCHANGED <<world, req, owed>>

Drop(p) ==
  /\ at[p] = "drop"
  /\ \E name \in {mem[p].ask.name} :
     \/ ~HasContainer(name) /\ Return(p, "failed") /\ UNCHANGED reg
     \/ HasContainer(name) /\ Goto(p, "run") /\ reg' = [reg EXCEPT ![name] = NoRegistry] /\ UNCHANGED mem
  /\ UNCHANGED <<cluster, req, owed>>

Taken(name, port) == \E r \in Registries \ {name} : Up(r) /\ reg[r].port = port

\* Whatever has the name is removed, and a container is made and started. It is
\* in no network of a cluster. If another has the port, it is made and not started.
Run(p) ==
  /\ at[p] = "run"
  /\ \E ask \in {mem[p].ask} :
     \E port \in IF ask.port # 0 THEN {ask.port} ELSE {q \in Ports : ~Taken(ask.name, q)} :
     \E made \in {[state |-> "up", port |-> port, k3d |-> ask.k3d, nets |-> {}]} :
     \/ /\ ~Taken(ask.name, port)
        /\ reg' = [reg EXCEPT ![ask.name] = made]
        /\ Goto(p, mem[p].back)
        /\ mem' = [mem EXCEPT ![p].port = port, ![p].nets = {}]
     \/ /\ Taken(ask.name, port)
        /\ reg' = [reg EXCEPT ![ask.name] = [made EXCEPT !.state = "dead", !.port = 0]]
        /\ Return(p, "failed")
  /\ UNCHANGED <<cluster, req, owed>>

-------------------------------------------------------------------------------
(***************************************************************************)
(* Applying a cluster.                                                     *)
(***************************************************************************)

NextCluster(p) ==
  /\ at[p] = "clusters"
  /\ \/ Finished(p) /\ Return(p, "done")
     \/ /\ ~Finished(p)
        /\ \/ Item(p).kind # "Cluster" /\ Advance(p, "clusters")
           \/ Item(p).kind = "Cluster" /\ Item(p).product = None /\ Return(p, "failed")
           \/ Item(p).kind = "Cluster" /\ Item(p).product # None /\ Goto(p, "inspect") /\ UNCHANGED mem
  /\ UNCHANGED <<world, req, owed>>

\* A registry for the cluster is ensured, whatever its port.
Ensure(p, back, todo) ==
  Ask(p, [name |-> Item(p).registry, port |-> 0, k3d |-> Item(p).product = "k3d"], back, todo)

BeforeCreate(p) ==
  \/ Item(p).registry # None /\ Ensure(p, "create", mem[p].todo)
  \/ Item(p).registry = None /\ Goto(p, "create") /\ UNCHANGED mem

\* A cluster without the registry asked for is deleted, and one that does not
\* answer seems to have none.
Inspect(p) ==
  /\ at[p] = "inspect"
  /\ LET name == FullName(Item(p))
         differs == Exists(name) /\ Item(p).registry \notin {None, StatusRegistry(name)}
         up == cluster[name].state = "up" IN
     \/ differs /\ Goto(p, "remove") /\ UNCHANGED mem
     \/ ~differs /\ ~up /\ BeforeCreate(p)
     \/ ~differs /\ up /\ Item(p).registry # None /\ Ensure(p, "clusters", Tail(mem[p].todo))
     \/ ~differs /\ up /\ Item(p).registry = None /\ Advance(p, "clusters")
  /\ UNCHANGED <<world, req, owed>>

\* k3d removes the network of the cluster, kind leaves its own.
RemoveCluster(name) ==
  /\ cluster' = [cluster EXCEPT ![name] = NoCluster]
  /\ reg' = [r \in Registries |-> [reg[r] EXCEPT !.nets = @ \ {name}]]

RemoveOld(p) ==
  /\ at[p] = "remove"
  /\ \E name \in {FullName(Item(p))} :
     \/ ~Exists(name) /\ Return(p, "failed") /\ UNCHANGED world
     \/ Exists(name) /\ RemoveCluster(name) /\ Ensure(p, "create", mem[p].todo)
  /\ UNCHANGED <<req, owed>>

\* A cluster in the tool's way is deleted. k3d looks for the registry and puts it
\* into its network, and says so in the cluster.
Create(p) ==
  /\ at[p] = "create"
  /\ \E r \in {Item(p)} : \E name \in {FullName(r)} :
     \/ /\ r.product = "k3d" /\ r.registry # None /\ ~Up(r.registry)
        /\ RemoveCluster(name)
        /\ Return(p, "failed")
     \/ /\ r.product = "k3d"
        /\ r.registry # None => Up(r.registry)
        /\ cluster' = [cluster EXCEPT ![name] =
                         [state |-> "up", hosting |-> IF r.registry # None THEN mem[p].port ELSE 0,
                          mirror |-> r.registry]]
        /\ reg' = [n \in Registries |->
                     [reg[n] EXCEPT !.nets = IF n = r.registry THEN @ \cup {name} ELSE @ \ {name}]]
        /\ Advance(p, "clusters")
     \/ /\ r.product = "kind"
        /\ cluster' = [cluster EXCEPT ![name] = [state |-> "up", hosting |-> 0, mirror |-> r.registry]]
        /\ IF r.registry # None THEN Goto(p, "join") /\ UNCHANGED mem ELSE Advance(p, "clusters")
        /\ UNCHANGED reg
  /\ UNCHANGED <<req, owed>>

\* The registry joins the network of kind, unless it was in it when it was ensured.
Join(p) ==
  /\ at[p] = "join"
  /\ \E name \in {Item(p).registry} :
     \/ "kind" \in mem[p].nets /\ Goto(p, "hosting") /\ UNCHANGED <<reg, mem>>
     \/ /\ "kind" \notin mem[p].nets
        /\ HasContainer(name) /\ "kind" \notin reg[name].nets
        /\ reg' = [reg EXCEPT ![name].nets = @ \cup {"kind"}]
        /\ Goto(p, "hosting")
        /\ UNCHANGED mem
     \/ /\ "kind" \notin mem[p].nets
        /\ ~HasContainer(name) \/ "kind" \in reg[name].nets
        /\ Return(p, "failed")
        /\ UNCHANGED reg
  /\ UNCHANGED <<cluster, req, owed>>

Hosting(p) ==
  /\ at[p] = "hosting"
  /\ \E name \in {FullName(Item(p))} : \E c \in {cluster[name]} :
     \/ /\ c.state = "up" /\ c.hosting = 0
        /\ cluster' = [cluster EXCEPT ![name].hosting = mem[p].port]
        /\ Advance(p, "clusters")
     \/ /\ c.state # "up" \/ c.hosting # 0
        /\ Return(p, "failed")
        /\ UNCHANGED cluster
  /\ UNCHANGED <<reg, req, owed>>

-------------------------------------------------------------------------------
(***************************************************************************)
(* Deleting, and getting.                                                  *)
(***************************************************************************)

\* Mutant: a registry is listed as often as something leads to it.
CascadeTwice(r, registry, result) ==
  (IF r.kind = "Cluster" /\ registry # None THEN <<Registry(registry, 0)>> ELSE <<>>) \o <<r>>

\* Mutant: a cluster is deleted before its registry.
CascadeAfter(r, registry, result) ==
  LET seen(name) == \E i \in DOMAIN result : result[i].kind = "Registry" /\ result[i].name = name IN
  IF r.kind = "Cluster"
    THEN <<r>> \o (IF registry = None \/ seen(registry) THEN <<>> ELSE <<Registry(registry, 0)>>)
    ELSE IF seen(r.name) THEN <<>> ELSE <<r>>

\* What a resource adds to the list: a registry that is not listed yet, by the
\* name it is given, goes before the cluster that leads to it.
Cascade(r, registry, result) ==
  LET seen(name) == \E i \in DOMAIN result : result[i].kind = "Registry" /\ result[i].name = name IN
  IF r.kind = "Cluster"
    THEN (IF registry = None \/ seen(registry) THEN <<>> ELSE <<Registry(registry, 0)>>) \o <<r>>
    ELSE IF seen(r.name) THEN <<>> ELSE <<r>>

NextCascade(p) ==
  /\ at[p] = "cascade"
  /\ \/ /\ Finished(p)
        /\ Goto(p, "delete")
        /\ mem' = [mem EXCEPT ![p].todo = mem[p].later, ![p].later = <<>>]
     \/ /\ ~Finished(p)
        /\ \E r \in {Item(p)} :
           \E registry \in {RegistryOf(r)} :
             mem' = [mem EXCEPT ![p].todo = Tail(@), ![p].later = @ \o Cascade(r, registry, @)]
        /\ UNCHANGED at
  /\ UNCHANGED <<world, req, owed>>

\* What is there is deleted, and what is not found fails the command, unless it
\* was told to ignore that.
NextDelete(p) ==
  /\ at[p] = "delete"
  /\ \/ Finished(p) /\ Return(p, "done") /\ UNCHANGED world
     \/ /\ ~Finished(p)
        /\ \E r \in {Item(p)} :
           \/ /\ r.kind = "Cluster" /\ Exists(Normalize(FullName(r)))
              /\ RemoveCluster(Normalize(FullName(r)))
              /\ Advance(p, "delete")
           \/ /\ r.kind = "Registry" /\ HasContainer(FullName(r))
              /\ reg' = [reg EXCEPT ![FullName(r)] = NoRegistry]
              /\ Advance(p, "delete")
              /\ UNCHANGED cluster
           \/ /\ IF r.kind = "Cluster" THEN ~Exists(Normalize(FullName(r))) ELSE ~HasContainer(FullName(r))
              /\ IF req[p].ignoreNotFound THEN Advance(p, "delete") ELSE Return(p, "failed")
              /\ UNCHANGED world
  /\ UNCHANGED <<req, owed>>

Get(p) ==
  /\ at[p] = "get"
  /\ LET r == Item(p)
         found == IF r.kind = "Cluster" THEN Exists(Normalize(r.name)) ELSE HasContainer(r.name) IN
     Return(p, IF found \/ req[p].ignoreNotFound THEN "done" ELSE "failed")
  /\ UNCHANGED <<world, req, owed>>

-------------------------------------------------------------------------------

\* A request fails, or the process is killed.
Fail(p) ==
  /\ p \in Faults /\ at[p] \in InFlight
  /\ Return(p, "broken")
  /\ UNCHANGED <<world, req, owed>>

\* No other process at work is alone after a step of q.
Interrupt(q) == alone' = [p \in Procs |-> at'[p] \in InFlight => p = q /\ alone[p]]

Step(p) ==
  \/ Begin(p) \/ NextRegistry(p) \/ Look(p) \/ Drop(p) \/ Run(p)
  \/ NextCluster(p) \/ Inspect(p) \/ RemoveOld(p) \/ Create(p) \/ Join(p) \/ Hosting(p)
  \/ NextCascade(p) \/ NextDelete(p) \/ Get(p) \/ Fail(p)

Next == \E p \in Procs : Step(p) /\ Interrupt(p)

Spec == Init /\ [][Next]_vars

-------------------------------------------------------------------------------
(***************************************************************************)
(* Properties.                                                             *)
(***************************************************************************)

Listed == (UNION {Range(q.resources) : q \in Requests}) \cup {Registry(name, 0) : name \in Registries}

Memories ==
  [todo: Seq(Listed), later: Seq(Listed),
   ask: [name: Registries \cup {None}, port: PortOrNone, k3d: BOOLEAN],
   back: {None, "regs", "create", "clusters"}, port: PortOrNone, nets: SUBSET Networks]

\* A list of resources to delete has no registry twice.
NoRegistryTwice(list) ==
  \A i, j \in DOMAIN list :
    list[i].kind = "Registry" /\ list[j].kind = "Registry" /\ list[i].name = list[j].name => i = j

TypeOK ==
  /\ cluster \in [Clusters -> ClusterStates]
  /\ reg \in [Registries -> RegistryStates]
  /\ req \in [Procs -> Requests]
  /\ at \in [Procs -> {"idle"} \cup InFlight \cup Over]
  /\ mem \in [Procs -> Memories]
  /\ \A p \in Procs : NoRegistryTwice(mem[p].later)
  /\ alone \in [Procs -> BOOLEAN]
  /\ owed \in [Procs -> SUBSET Registries]

Ends(p, place) == at[p] # place /\ at'[p] = place /\ alone[p]

\* What an apply promises of one resource: a registry that runs, on the port asked
\* for, or a cluster that is up and names the registry's port as its host.
Holds(r) ==
  IF r.kind = "Registry"
    THEN Up(FullName(r)) /\ (r.port # 0 => reg[FullName(r)].port = r.port)
    ELSE LET c == cluster[FullName(r)] IN
         c.state = "up" /\ (r.registry # None => Up(r.registry) /\ c.hosting = reg[r.registry].port)

AllHold(p) == \A r \in Asked(p) : Holds(r)

\* No name is given twice: of two specs the second would undo the first.
NamedOnce(p) ==
  \A r, s \in Asked(p) : r.kind = s.kind /\ FullName(r) = FullName(s) => r = s

(***************************************************************************)
(* An apply that nobody interferes with and that reports success leaves     *)
(* every registry of its file running, on its port, and every cluster       *)
(* hosted at the port that its registry has then, wherever in the file the  *)
(* registry is, and whatever an earlier command left when it was killed.    *)
(***************************************************************************)
AppliedFileHolds ==
  [][\A p \in Procs : req[p].kind = "apply" /\ NamedOnce(p) /\ Ends(p, "done") => AllHold(p)']_vars

(***************************************************************************)
(* Processes that apply the same file at once remake each other's           *)
(* registries and clusters. When they are all through and reported success, *)
(* every registry runs and every cluster is up. (The ports need not hold: a *)
(* registry that one process has just deleted to give it its port is made   *)
(* on another port for the cluster of the other process.)                   *)
(***************************************************************************)
SameFileIsUp ==
  \A p \in Procs :
    (\A q \in Procs : req[q] = req[p] /\ req[q].kind = "apply" /\ at[q] = "done")
      => \A r \in Asked(p) :
           IF r.kind = "Registry" THEN Up(FullName(r)) ELSE cluster[FullName(r)].state = "up"

Deleted(r) ==
  LET name == FullName(r) IN
  IF r.kind = "Registry"
    THEN ~HasContainer(name)
    ELSE ~Exists(name) /\ (name \notin Clusters => ~Exists(AliasOf[name]))

(***************************************************************************)
(* A delete that nobody interferes with and that reports success leaves     *)
(* none of its resources, be they given by name, by the name of a product   *)
(* for that product's default cluster, or by product alone.                 *)
(***************************************************************************)
DeletedIsGone ==
  [][\A p \in Procs :
       req[p].kind = "delete" /\ Ends(p, "done") =>
         \A r \in Asked(p) : Deleted(r)']_vars

\* The cluster that a delete of the resource is about.
TargetOf(r) == IF FullName(r) \in Clusters THEN FullName(r) ELSE AliasOf[FullName(r)]

\* The command can be repeated: every cluster is named, and named once, or its registry
\* is.
Repeatable(p) ==
  \A r, s \in Asked(p) :
    r.kind = "Cluster" /\ s.kind = "Cluster" /\ r.registry = None
      => r.name # None /\ (TargetOf(r) = TargetOf(s) => r = s)

\* All there has been are q and others that were asked the same as p.
Repeats(p, q) ==
  Repeatable(p) /\ at[q] # "idle" /\ \A s \in Procs : at[s] # "idle" => req[s] = req[p]

(***************************************************************************)
(* A cascading delete that nobody interferes with and that reports success  *)
(* has deleted every registry that it set out to delete. And it can be      *)
(* repeated: however often it was killed on the way, or run several times   *)
(* at once, the last of these commands has deleted every registry that any  *)
(* of them set out to delete.                                              *)
(***************************************************************************)
CascadeIsComplete ==
  [][\A p, q \in Procs :
       req[p].kind = "delete" /\ req[p].cascade /\ Ends(p, "done") /\ (q = p \/ Repeats(p, q))
         => \A name \in owed[q] : ~HasContainer(name)']_vars

\* The nodes of the cluster find the registry by name, and it is where the hosting
\* config map has it.
Pullable(c) ==
  /\ Up(cluster[c].mirror)
  /\ NetworkOf(c) \in reg[cluster[c].mirror].nets
  /\ cluster[c].hosting = reg[cluster[c].mirror].port

(***************************************************************************)
(* admin_kind.go:218 wants the image pullable from localhost:port and from  *)
(* the registry's name. An apply that remakes the registry of a cluster     *)
(* which stays leaves the new container outside of the cluster's network,   *)
(* and no later apply puts it back.                                        *)
(***************************************************************************)
AppliedIsPullable ==
  [][\A p \in Procs :
       req[p].kind = "apply" /\ Ends(p, "done") =>
         \A r \in Asked(p) : r.registry # None => Pullable(FullName(r))']_vars

===============================================================================
