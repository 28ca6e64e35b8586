-------------------------------- MODULE Admin ---------------------------------
(***************************************************************************)
(* pkg/cluster/admin_kind.go, admin_k3d.go, admin_minikube.go and           *)
(* admin_helpers.go: how ctlptl has a cluster tool create a cluster and     *)
(* wires every node of it to the local registry, step by step, for every    *)
(* version of the tool. What Cluster takes for one step (Create, Connect)   *)
(* is a dozen requests here, to the tool and to Docker, and each can fail.  *)
(*                                                                         *)
(* There is one registry container. It runs, and a call has read which      *)
(* Docker networks it is attached to some time before the first step here.  *)
(* A minikube cluster has a network of its own, named like the cluster.     *)
(***************************************************************************)
EXTENDS Integers, TLC

CONSTANTS
  Names,     \* cluster names
  Procs,     \* the processes
  PrefixOf,  \* the product whose prefix the name has: kind-, k3d- or none
  Requests,  \* what a process may be asked
  Tools,     \* the versions of kind, k3d and minikube there may be
  Worlds,    \* the clusters there may be at first, and the registry's networks
  Faulty     \* bound: the names where requests fail and outsiders interfere

VARIABLES
  tool,      \* the installed versions of kind, k3d and minikube
  cluster,   \* what the tools have, by name
  attached,  \* the networks that the registry's container is in
  req,       \* what each process was asked
  at,        \* where each process is
  mem,       \* what each process remembers
  alone,     \* history: nobody else has done anything since the process began,
             \* and none of its own requests has failed
  untouched  \* history: the same, but for what concerns other clusters

vars == <<tool, cluster, attached, req, at, mem, alone, untouched>>

-------------------------------------------------------------------------------
(***************************************************************************)
(* Data. Versions are numbers: v0.9.0 of kind is 90, v5.3 of k3d is 53, and *)
(* v1.27 of minikube is 127. 0 is an output that does not parse.            *)
(***************************************************************************)

\* The names by which a node's containerd may find a registry: localhost with
\* the registry's port, the registry's own name, and the host of a registry that
\* needs a login.
Refs == {"localhost", "network", "upstream"}

\* The two that an image in the local registry goes by.
LocalRefs == {"localhost", "network"}

\* The nodes of a cluster, and kind's load balancer before its control plane.
Nodes == {"control-plane", "worker", "external-load-balancer"}

NodesOf(product) == IF product = "kind" THEN Nodes ELSE {"control-plane", "worker"}

\* sed is the nodes whose containerd has a configuration it has not read yet.
NoCluster ==
  [state |-> "absent", minor |-> 0, format |-> "none", wired |-> [m \in Nodes |-> {}], sed |-> {}]

Clusters ==
  [state: {"absent", "half", "up", "stopped", "paused"}, minor: Nat,
   format: {"none", "v1alpha4", "v1alpha5"}, wired: [Nodes -> SUBSET Refs], sed: SUBSET Nodes]

\* Products are k3d, kind and minikube, and no cluster has the name of kind's network.
ASSUME AdminAssumption ==
  /\ "kind" \notin Names
  /\ Tools \subseteq [kind: Nat, k3d: Nat, minikube: Nat]
  /\ Worlds \subseteq [cluster: [Names -> Clusters], attached: SUBSET (Names \cup {"kind"})]
  /\ Requests \subseteq
       [op: {"create", "delete", "ensure"}, name: Names, product: {"kind", "k3d", "minikube"},
        registry: BOOLEAN, minor: Nat, auth: {"none", "good", "bad"},
        format: {"none", "v1alpha4", "v1alpha5", "both"}]

Exists(n) == cluster[n].state # "absent"

Target(p) == req[p].name
Wanted(p) == req[p]

NetworkOf(r) == IF r.product = "kind" THEN "kind" ELSE r.name

\* The minor versions of Kubernetes that a version of kind has a node image for.
RecentImages ==
  310 :> 31..35 @@ 300 :> 31..34 @@ 290 :> 30..33 @@ 280 :> 30..33 @@ 270 :> 29..32 @@
  260 :> 29..32 @@ 250 :> 26..31 @@ 240 :> 25..31 @@ 230 :> 25..30 @@ 220 :> 23..29 @@
  210 :> 23..29 @@ 200 :> 21..28 @@ 190 :> 21..27

OlderImages ==
  180 :> 21..27 @@ 170 :> 19..26 @@ 160 :> 19..25 @@ 150 :> 18..25 @@ 140 :> 18..24 @@
  130 :> 18..24 @@ 120 :> 14..23 @@ 111 :> 14..23 @@ 110 :> 14..21 @@ 100 :> 14..20 @@
   90 :> 13..19 @@  81 :> 12..18 @@  80 :> 12..18 @@  70 :> 11..18

KindK8sNodeTable == RecentImages @@ OlderImages

\* The minor version of the image that kind is told to use, or 0 for kind's own.
CanGetNodeImage(version, minor) ==
  minor # 0 => version \in DOMAIN KindK8sNodeTable /\ minor \in KindK8sNodeTable[version]

KindDefault == 30

\* How containerd learns of a registry: mirrors in its configuration, or since
\* v0.20 of kind and v1.27 of minikube a file of its own for each.
KindAPI == IF tool.kind < 200 THEN "V1" ELSE "V2"

MinikubeAPI ==
  CASE tool.minikube >= 127 -> "V2"
    [] tool.minikube = 126  -> "broken"
    [] OTHER                -> "V1"

\* kind's nodes get files after their creation.
HasConfigPath(r) == r.registry /\ KindAPI = "V2" /\ r.auth = "none"

\* What containerd on a node of kind is configured for when it is created. The
\* files are left for later, but containerd has to read them.
KindClusterConfig(r) ==
  (IF r.registry /\ ~HasConfigPath(r) THEN LocalRefs ELSE {})
  \cup (IF r.auth = "none" THEN {} ELSE {"upstream"})

\* The formats of a k3d config that a version of k3d reads.
K3dReads(format) ==
  \/ format = "none"
  \/ format = "v1alpha4" /\ tool.k3d >= 53
  \/ format = "v1alpha5" /\ tool.k3d >= 55

HasV1Alpha4(r) == r.format \in {"v1alpha4", "both"}

\* The configs that Create refuses. Each test of the version asks for the older
\* format.
K3dRefuses(r) ==
  \/ HasV1Alpha4(r) /\ tool.k3d < 53
  \/ HasV1Alpha4(r) /\ tool.k3d < 55
  \/ r.format = "both"

\* The document that k3d gets, on a version that reads one at all.
K3dClusterConfig(r) == IF tool.k3d < 53 THEN "none" ELSE r.format

\* The address that the cluster's nodes and clients are told to use, where it is
\* ctlptl that tells them.
LocalRegistryHosting(r) == IF r.product = "k3d" THEN {} ELSE LocalRefs

-------------------------------------------------------------------------------

InFlight ==
  {"exists", "orphan", "image", "kindcreate", "kindconnect", "kindnodes", "patch", "patchnet",
   "k3dcheck", "k3dorphan", "k3dcreate",
   "version", "disconnect", "minicreate", "miniconnect", "mininodes", "sed", "restart",
   "delete", "status", "startstopped"}
Over == {"done", "failed", "broken"}

Goto(p, place) == at' = [at EXCEPT ![p] = place]

\* networks is registry.Status.Networks, todo the nodes still to be wired, node
\* the one being wired, and was, as history, the cluster found at the start.
Blank == [networks |-> {}, todo |-> {}, node |-> "", was |-> NoCluster]

Return(p, result) == Goto(p, result) /\ mem' = [mem EXCEPT ![p] = Blank]

Update(n, c) == cluster' = [cluster EXCEPT ![n] = c]

Init ==
  /\ tool \in Tools
  /\ \E w \in Worlds : cluster = w.cluster /\ attached = w.attached
  /\ req \in [Procs -> Requests]
  /\ at = [p \in Procs |-> "idle"]
  /\ mem = [p \in Procs |-> Blank]
  /\ alone = [p \in Procs |-> TRUE]
  /\ untouched = [p \in Procs |-> TRUE]

\* The registry controller has just listed the registry with its networks.
Begin(p) ==
  /\ at[p] = "idle"
  /\ LET r == Wanted(p) IN
     Goto(p, CASE r.op = "delete" -> "delete"
               [] r.op = "ensure" -> "status"
               [] r.op = "create" /\ r.product = "kind" -> "exists"
               [] r.op = "create" /\ r.product = "k3d" -> "k3dcheck"
               [] r.op = "create" /\ r.product = "minikube" -> "version")
  /\ mem' = [mem EXCEPT ![p].networks = attached, ![p].was = cluster[Target(p)]]
  /\ UNCHANGED <<tool, cluster, attached, req>>

-------------------------------------------------------------------------------
(***************************************************************************)
(* kind.                                                                   *)
(***************************************************************************)

\* The name must have the prefix. A cluster of that name that kind has already is
\* one that the kubeconfig has lost.
ClusterExists(p) ==
  /\ at[p] = "exists"
  /\ \/ PrefixOf[Target(p)] # "kind" /\ Return(p, "failed")
     \/ /\ PrefixOf[Target(p)] = "kind"
        /\ Goto(p, IF Exists(Target(p)) THEN "orphan" ELSE "image")
        /\ UNCHANGED mem
  /\ UNCHANGED <<tool, cluster, attached, req>>

\* Mutant: a cluster that exists is left to kind.
KeepOrphan(p) ==
  /\ at[p] = "orphan"
  /\ Goto(p, "image")
  /\ UNCHANGED <<tool, cluster, attached, req, mem>>

DeleteOrphan(p) ==
  /\ at[p] = "orphan"
  /\ Update(Target(p), NoCluster)
  /\ Goto(p, "image")
  /\ UNCHANGED <<tool, attached, req, mem>>

\* kind's version, the node image, and the config: all of it can be refused, and
\* the orphan is gone by then.
GetNodeImage(p) ==
  /\ at[p] = "image"
  /\ LET ok == tool.kind # 0 /\ CanGetNodeImage(tool.kind, Wanted(p).minor) /\ Wanted(p).auth # "bad" IN
     \/ ok /\ Goto(p, "kindcreate") /\ UNCHANGED mem
     \/ ~ok /\ Return(p, "failed")
  /\ UNCHANGED <<tool, cluster, attached, req>>

\* Where a creation goes on once the tool is through.
Created(p, next) ==
  IF Wanted(p).registry THEN Goto(p, next) /\ UNCHANGED mem ELSE Return(p, "done")

\* kind refuses to create a cluster that exists.
KindCreate(p) ==
  /\ at[p] = "kindcreate"
  /\ LET r == Wanted(p) IN
     \/ /\ ~Exists(r.name)
        /\ Update(r.name, [NoCluster EXCEPT !.state = "up",
                             !.minor = IF r.minor = 0 THEN KindDefault ELSE r.minor,
                             !.wired = [m \in Nodes |-> KindClusterConfig(r)]])
        /\ Created(p, "kindconnect")
     \/ Exists(r.name) /\ Return(p, "failed") /\ UNCHANGED cluster
  /\ UNCHANGED <<tool, attached, req>>

\* Docker refuses to connect a container to a network that it is in.
NetworkConnect(p, network, next) ==
  LET known == network \in mem[p].networks
      fails == ~known /\ network \in attached IN
  /\ IF known THEN UNCHANGED attached ELSE attached' = attached \cup {network}
  /\ IF fails THEN Return(p, "failed") ELSE next

KindConnect(p) ==
  /\ at[p] = "kindconnect"
  /\ NetworkConnect(p, "kind",
       IF HasConfigPath(Wanted(p)) THEN Goto(p, "kindnodes") /\ UNCHANGED mem ELSE Return(p, "done"))
  /\ UNCHANGED <<tool, cluster, req>>

\* Mutant: the workers need no configuration.
ControlPlaneNodes(n) == IF Exists(n) THEN {"control-plane"} ELSE {}

\* Mutant: what kind says of a cluster that does not exist is taken for a node.
NodesOrMessage(n) ==
  IF Exists(n) THEN NodesOf("kind") \ {"external-load-balancer"} ELSE {"No kind nodes found"}

\* The nodes of kind but for the load balancers, which need no configuration. A
\* cluster that does not exist has none, and kind does not mind.
KindNodes(n) == IF Exists(n) THEN NodesOf("kind") \ {"external-load-balancer"} ELSE {}

ListNodes(p) ==
  /\ at[p] = "kindnodes"
  /\ Goto(p, "patch")
  /\ mem' = [mem EXCEPT ![p].todo = KindNodes(Target(p))]
  /\ UNCHANGED <<tool, cluster, attached, req>>

-------------------------------------------------------------------------------
(***************************************************************************)
(* applyContainerdPatchRegistryAPIV2: two files on every node.              *)
(***************************************************************************)

Wire(n, node, ref) == cluster' = [cluster EXCEPT ![n].wired[node] = @ \cup {ref}]

PatchLocalhost(p) ==
  /\ at[p] = "patch"
  /\ \/ /\ \E node \in mem[p].todo :
             \/ /\ Exists(Target(p))
                /\ Wire(Target(p), node, "localhost")
                /\ Goto(p, "patchnet")
                /\ mem' = [mem EXCEPT ![p].node = node, ![p].todo = @ \ {node}]
             \/ ~Exists(Target(p)) /\ Return(p, "failed") /\ UNCHANGED cluster
     \/ mem[p].todo = {} /\ Return(p, "done") /\ UNCHANGED cluster
  /\ UNCHANGED <<tool, attached, req>>

PatchNetwork(p) ==
  /\ at[p] = "patchnet"
  /\ \/ Exists(Target(p)) /\ Wire(Target(p), mem[p].node, "network") /\ Goto(p, "patch") /\ UNCHANGED mem
     \/ ~Exists(Target(p)) /\ Return(p, "failed") /\ UNCHANGED cluster
  /\ UNCHANGED <<tool, attached, req>>

-------------------------------------------------------------------------------
(***************************************************************************)
(* k3d, which connects its clusters to the registry by itself.              *)
(***************************************************************************)

\* Mutant: the cluster is deleted before its config is looked at.
K3dCheckLate(p) ==
  /\ at[p] = "k3dcheck"
  /\ LET r == Wanted(p) IN
     IF r.auth # "none" \/ tool.k3d = 0 \/ K3dRefuses(r) \/ PrefixOf[r.name] # "k3d"
       THEN Return(p, "failed") /\ Update(r.name, NoCluster)
       ELSE Goto(p, "k3dorphan") /\ UNCHANGED <<cluster, mem>>
  /\ UNCHANGED <<tool, attached, req>>

\* Everything is checked before anything is deleted.
K3dCheck(p) ==
  /\ at[p] = "k3dcheck"
  /\ LET r == Wanted(p) IN
     IF r.auth # "none" \/ tool.k3d = 0 \/ K3dRefuses(r) \/ PrefixOf[r.name] # "k3d"
       THEN Return(p, "failed")
       ELSE Goto(p, "k3dorphan") /\ UNCHANGED mem
  /\ UNCHANGED <<tool, cluster, attached, req>>

\* The cluster is deleted, if there is one.
K3dDeleteOrphan(p) ==
  /\ at[p] = "k3dorphan"
  /\ Update(Target(p), NoCluster)
  /\ Goto(p, "k3dcreate")
  /\ UNCHANGED <<tool, attached, req, mem>>

K3dCreate(p) ==
  /\ at[p] = "k3dcreate"
  /\ LET r == Wanted(p)  format == K3dClusterConfig(r) IN
     \/ /\ ~Exists(r.name) /\ K3dReads(format)
        /\ Update(r.name, [NoCluster EXCEPT !.state = "up", !.format = format,
                             !.wired = [m \in Nodes |-> IF r.registry THEN LocalRefs ELSE {}]])
        /\ Return(p, "done")
     \/ (Exists(r.name) \/ ~K3dReads(format)) /\ Return(p, "failed") /\ UNCHANGED cluster
  /\ UNCHANGED <<tool, attached, req>>

-------------------------------------------------------------------------------
(***************************************************************************)
(* minikube. Its nodes have addresses of their own in the cluster's network,*)
(* one of which the registry may take while the cluster is down.            *)
(***************************************************************************)

MinikubeVersion(p) ==
  /\ at[p] = "version"
  /\ LET r == Wanted(p) IN
     \/ (r.auth # "none" \/ tool.minikube = 0) /\ Return(p, "failed")
     \/ /\ r.auth = "none" /\ tool.minikube # 0
        /\ Goto(p, IF r.registry THEN "disconnect" ELSE "minicreate")
        /\ UNCHANGED mem
  /\ UNCHANGED <<tool, cluster, attached, req>>

\* Mutant: the registry leaves every network it is in.
LeaveEveryNetwork(p) ==
  /\ at[p] = "disconnect"
  /\ attached' = attached \ mem[p].networks
  /\ Goto(p, "minicreate")
  /\ mem' = [mem EXCEPT ![p].networks = {}]
  /\ UNCHANGED <<tool, cluster, req>>

\* Docker refuses to disconnect a container from a network that it is not in.
EnsureRegistryDisconnected(p) ==
  /\ at[p] = "disconnect"
  /\ LET n == Target(p) IN
     \/ /\ n \notin mem[p].networks
        /\ Goto(p, "minicreate")
        /\ UNCHANGED <<attached, mem>>
     \/ /\ n \in mem[p].networks /\ n \in attached
        /\ attached' = attached \ {n}
        /\ Goto(p, "minicreate")
        /\ mem' = [mem EXCEPT ![p].networks = @ \ {n}]
     \/ n \in mem[p].networks /\ n \notin attached /\ Return(p, "failed") /\ UNCHANGED attached
  /\ UNCHANGED <<tool, cluster, req>>

\* minikube start creates a cluster, or starts the one there is. containerd's
\* configuration is then made anew, but the files stay.
Started(n, registry) ==
  [cluster[n] EXCEPT
     !.state = "up", !.sed = {},
     !.wired = [m \in Nodes |->
                  (IF MinikubeAPI = "V2" THEN @[m] ELSE @[m] \ {"localhost"})
                  \cup (IF registry THEN {"network"} ELSE {})]]

\* An address of the cluster's may have gone to the registry.
MayClash(n) == n \in attached /\ cluster[n].state \notin {"up", "paused"}

MinikubeCreate(p) ==
  /\ at[p] = "minicreate"
  /\ LET n == Target(p)
         broken == Wanted(p).registry /\ MinikubeAPI = "broken" IN
     \/ broken /\ Return(p, "failed") /\ UNCHANGED cluster
     \/ ~broken /\ Update(n, Started(n, Wanted(p).registry)) /\ Created(p, "miniconnect")
     \/ ~broken /\ MayClash(n) /\ Return(p, "failed") /\ UNCHANGED cluster
  /\ UNCHANGED <<tool, attached, req>>

\* The network is taken from the container of the cluster.
MinikubeConnect(p) ==
  /\ at[p] = "miniconnect"
  /\ IF Exists(Target(p))
       THEN NetworkConnect(p, Target(p), Goto(p, "mininodes") /\ UNCHANGED mem)
       ELSE Return(p, "failed") /\ UNCHANGED attached
  /\ UNCHANGED <<tool, cluster, req>>

MinikubeNodes(p) ==
  /\ at[p] = "mininodes"
  /\ \/ /\ Exists(Target(p))
        /\ Goto(p, IF MinikubeAPI = "V2" THEN "patch" ELSE "sed")
        /\ mem' = [mem EXCEPT ![p].todo = NodesOf("minikube")]
     \/ ~Exists(Target(p)) /\ Return(p, "failed")
  /\ UNCHANGED <<tool, cluster, attached, req>>

\* applyContainerdPatchRegistryAPIV1: the mirror of localhost is written into
\* containerd's configuration, and containerd is restarted to read it.
Sed(p) ==
  /\ at[p] = "sed"
  /\ \/ /\ \E node \in mem[p].todo :
             \/ /\ cluster[Target(p)].state = "up"
                /\ cluster' = [cluster EXCEPT ![Target(p)].sed = @ \cup {node}]
                /\ Goto(p, "restart")
                /\ mem' = [mem EXCEPT ![p].node = node, ![p].todo = @ \ {node}]
             \/ cluster[Target(p)].state # "up" /\ Return(p, "failed") /\ UNCHANGED cluster
     \/ mem[p].todo = {} /\ Return(p, "done") /\ UNCHANGED cluster
  /\ UNCHANGED <<tool, attached, req>>

RestartContainerd(p) ==
  /\ at[p] = "restart"
  /\ LET n == Target(p)  node == mem[p].node IN
     \/ /\ cluster[n].state = "up"
        /\ cluster' = [cluster EXCEPT ![n].sed = @ \ {node},
                         ![n].wired[node] = @ \cup (IF node \in cluster[n].sed THEN {"localhost"} ELSE {})]
        /\ Goto(p, "sed") /\ UNCHANGED mem
     \/ cluster[n].state # "up" /\ Return(p, "failed") /\ UNCHANGED cluster
  /\ UNCHANGED <<tool, attached, req>>

-------------------------------------------------------------------------------
(***************************************************************************)
(* minikubeMachine.EnsureExists, and deleting.                              *)
(***************************************************************************)

\* startIfStopped asks minikube how the cluster is, and starts it or not.
Status(p) ==
  /\ at[p] = "status"
  /\ \/ cluster[Target(p)].state \in {"stopped", "paused"} /\ Goto(p, "startstopped") /\ UNCHANGED mem
     \/ cluster[Target(p)].state \notin {"stopped", "paused"} /\ Return(p, "done")
  /\ UNCHANGED <<tool, cluster, attached, req>>

\* minikube start or minikube unpause, whose errors are ignored. The registry
\* stays connected.
StartStopped(p) ==
  /\ at[p] = "startstopped"
  /\ LET n == Target(p) IN
     \/ cluster[n].state = "stopped" /\ Update(n, Started(n, FALSE))
     \/ cluster[n].state = "paused" /\ cluster' = [cluster EXCEPT ![n].state = "up"]
     \/ (cluster[n].state \notin {"stopped", "paused"} \/ MayClash(n)) /\ UNCHANGED cluster
  /\ Return(p, "done")
  /\ UNCHANGED <<tool, attached, req>>

\* The tools delete what there is. The registry stays in the network.
Delete(p) ==
  /\ at[p] = "delete"
  /\ LET r == Wanted(p) IN
     \/ r.product # "minikube" /\ PrefixOf[r.name] # r.product /\ Return(p, "failed") /\ UNCHANGED cluster
     \/ /\ r.product = "minikube" \/ PrefixOf[r.name] = r.product
        /\ Update(r.name, NoCluster)
        /\ Return(p, "done")
  /\ UNCHANGED <<tool, attached, req>>

-------------------------------------------------------------------------------
(***************************************************************************)
(* Faults, and what goes on outside.                                       *)
(***************************************************************************)

\* A request fails, or the process is killed.
Fail(p) ==
  /\ at[p] \in InFlight
  /\ Return(p, "broken")
  /\ UNCHANGED <<tool, cluster, attached, req>>

\* The tool fails, or is killed, with the cluster half made.
FailHalfway(p) ==
  /\ at[p] \in {"kindcreate", "k3dcreate", "minicreate"} /\ ~Exists(Target(p))
  /\ Update(Target(p), [NoCluster EXCEPT !.state = "half"])
  /\ Return(p, "broken")
  /\ UNCHANGED <<tool, attached, req>>

\* k3d does not delete the cluster that is in the way. Create ignores the error, and
\* goes on to have k3d create one.
OrphanStays(p) ==
  /\ at[p] = "k3dorphan" /\ Exists(Target(p))
  /\ Goto(p, "k3dcreate")
  /\ UNCHANGED <<tool, cluster, attached, req, mem>>

Fault(p) == Target(p) \in Faulty /\ (Fail(p) \/ FailHalfway(p) \/ OrphanStays(p))

\* Somebody stops or pauses a minikube cluster.
Stop(n) ==
  /\ n \in Faulty /\ PrefixOf[n] = "" /\ cluster[n].state = "up"
  /\ \E state \in {"stopped", "paused"} : cluster' = [cluster EXCEPT ![n].state = state]
  /\ UNCHANGED <<tool, attached, req, at, mem>>

KindStep(p) ==
  ClusterExists(p) \/ DeleteOrphan(p) \/ GetNodeImage(p) \/ KindCreate(p) \/ KindConnect(p) \/ ListNodes(p)

K3dStep(p) == K3dCheck(p) \/ K3dDeleteOrphan(p) \/ K3dCreate(p)

MinikubeStep(p) ==
  \/ MinikubeVersion(p) \/ EnsureRegistryDisconnected(p) \/ MinikubeCreate(p)
  \/ MinikubeConnect(p) \/ MinikubeNodes(p) \/ Sed(p) \/ RestartContainerd(p)
  \/ Status(p) \/ StartStopped(p)

Step(p) ==
  \/ Begin(p) \/ KindStep(p) \/ K3dStep(p) \/ MinikubeStep(p)
  \/ PatchLocalhost(p) \/ PatchNetwork(p) \/ Delete(p)

\* What a step on the cluster of name n, of a process or of an outsider, is to the
\* others' histories. by is the processes whose own step it is.
Interrupt(n, by) ==
  /\ alone' = [p \in Procs |-> at'[p] \in InFlight => p \in by /\ alone[p]]
  /\ untouched' = [p \in Procs |-> at'[p] \in InFlight => (Target(p) = n => p \in by) /\ untouched[p]]

Next ==
  \/ \E p \in Procs : Step(p) /\ Interrupt(Target(p), {p})
  \/ \E p \in Procs : Fault(p) /\ Interrupt(Target(p), {})
  \/ \E n \in Names : Stop(n) /\ Interrupt(n, {})

Spec == Init /\ [][Next]_vars

-------------------------------------------------------------------------------
(***************************************************************************)
(* Properties.                                                             *)
(***************************************************************************)

TypeOK ==
  /\ tool \in Tools
  /\ cluster \in [Names -> Clusters]
  /\ attached \subseteq Names \cup {"kind"}
  /\ req \in [Procs -> Requests]
  /\ at \in [Procs -> {"idle"} \cup InFlight \cup Over]
  /\ mem \in [Procs -> [networks: SUBSET (Names \cup {"kind"}), todo: SUBSET Nodes,
                        node: Nodes \cup {""}, was: Clusters]]
  /\ alone \in [Procs -> BOOLEAN]
  /\ untouched \in [Procs -> BOOLEAN]

Ends(p, place) == at[p] # place /\ at'[p] = place

Creates(p) == req[p].op = "create"

\* The nodes that run containers.
Workers(product) == NodesOf(product) \ {"external-load-balancer"}

\* Every node of the cluster finds the registry under each name that ctlptl gives
\* for it, and the registry is there to be found.
Pullable(n, r) ==
  /\ NetworkOf(r) \in attached
  /\ \A node \in Workers(r.product) : LocalRegistryHosting(r) \subseteq cluster[n].wired[node]

(***************************************************************************)
(* admin_kind.go:218 and admin_minikube.go:262 want an image to be pullable *)
(* from localhost:[registry-port] and from [registry-name]:5000. When a     *)
(* creation reports success, that holds on every node, those that joined a   *)
(* cluster left half made included, and so do the version asked for and the  *)
(* mirrors of other registries, whatever other clusters with the same        *)
(* registry, and in kind's case the same network, are created or deleted     *)
(* meanwhile.                                                              *)
(***************************************************************************)
CreatedIsWired ==
  [][\A p \in Procs :
       Creates(p) /\ Ends(p, "done") /\ untouched[p] =>
         LET r == Wanted(p)  c == cluster'[r.name] IN
         /\ c.state = "up"
         /\ r.registry /\ r.product # "k3d" => Pullable(r.name, r)'
         /\ r.auth # "none" => \A node \in Workers(r.product) : "upstream" \in c.wired[node]
         /\ r.product = "kind" /\ r.minor # 0 => c.minor = r.minor]_vars

\* What ctlptl and the tools say they cannot do.
Unsupported(r) ==
  \/ r.product # "minikube" /\ PrefixOf[r.name] # r.product
  \/ tool[r.product] = 0
  \/ /\ r.product = "kind"
     /\ r.auth = "bad" \/ ~CanGetNodeImage(tool.kind, r.minor)
  \/ r.product # "kind" /\ r.auth # "none"
  \/ r.product = "k3d" /\ (r.format = "both" \/ ~K3dReads(r.format))
  \/ r.product = "minikube" /\ r.registry /\ tool.minikube = 126

(***************************************************************************)
(* From whatever an earlier creation left when it failed or was killed, and  *)
(* whatever network the registry is still in, a creation that nobody         *)
(* interferes with succeeds if the tool can do it. It never meets a cluster  *)
(* that is in its way, a network that the registry is in already, or an      *)
(* address that the registry has taken: but for a minikube cluster without a  *)
(* registry in whose network the registry of an earlier one has been left.    *)
(* k3d configs in the older format are left out.                            *)
(***************************************************************************)
AloneSucceeds ==
  [][\A p \in Procs :
       LET r == Wanted(p) IN
       /\ Ends(p, "failed") /\ alone[p] /\ ~HasV1Alpha4(r)
       => Unsupported(r) \/ (r.product = "minikube" /\ ~r.registry /\ r.name \in attached)]_vars

\* The configs that nothing looks at until k3d does: the second test of the version
\* at admin_k3d.go:70 asks for the older format again.
SlipsThrough(r) == r.format = "v1alpha5" /\ tool.k3d \in 53..54

(***************************************************************************)
(* A k3d creation that is refused costs nobody a cluster: the versions, the  *)
(* login and the name are checked, and the config is generated for "some     *)
(* useful validation" (admin_k3d.go:78), before the old cluster is deleted.  *)
(* What gets through to k3d, and is refused by it, is a v1alpha5 config on    *)
(* k3d 5.3 or 5.4 and nothing else: there the cluster is gone. kind and       *)
(* minikube have no such order.                                            *)
(***************************************************************************)
RefusedIsHarmless ==
  [][\A p \in Procs :
       /\ Creates(p) /\ Wanted(p).product = "k3d" /\ Ends(p, "failed") /\ untouched[p]
       => \/ cluster'[Target(p)] = mem[p].was
          \/ SlipsThrough(Wanted(p)) /\ ~Exists(Target(p))']_vars

\* A cluster of the name, as the tools see it.
Kept(n) == [name |-> n, product |-> IF PrefixOf[n] = "" THEN "minikube" ELSE PrefixOf[n]]

(***************************************************************************)
(* All kind clusters share a network, and all clusters the registry. A       *)
(* cluster whose images could be pulled is not cut off by what is done to    *)
(* the others, at any step.                                                *)
(***************************************************************************)
NeighboursKeepPulling ==
  [][\A n \in Names :
       /\ Kept(n).product # "k3d" /\ Pullable(n, Kept(n))
       /\ \A p \in Procs : Target(p) = n => at'[p] = at[p]
       => Pullable(n, Kept(n))']_vars

-------------------------------------------------------------------------------
(***************************************************************************)
(* What docs and comments say of a creation and the code does not do.       *)
(***************************************************************************)

(***************************************************************************)
(* admin_k3d.go:71 has "k3d v1alpha5 config file only supported on v5.5+"    *)
(* for a reason to refuse such a config on an older k3d, before anything is  *)
(* deleted. No such config comes to that test: k3d 5.3 and 5.4 are given it   *)
(* when the old cluster is gone.                                           *)
(***************************************************************************)
RefusedCostsNothing ==
  [][\A p \in Procs :
       /\ Creates(p) /\ Wanted(p).product = "k3d" /\ Ends(p, "failed") /\ untouched[p]
       => cluster'[Target(p)] = mem[p].was]_vars

==============================================================================
