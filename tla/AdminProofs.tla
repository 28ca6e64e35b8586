----------------------------- MODULE AdminProofs ------------------------------
(***************************************************************************)
(* Proofs about Admin, for every set of clusters, of processes and of tools. *)
(***************************************************************************)
EXTENDS Admin, TLAPS

(***************************************************************************)
(* What a process is about does not change.                                *)
(***************************************************************************)

\* What is known of a request.
LEMMA RequestType ==
  ASSUME TypeOK, NEW p \in Procs
  PROVE  /\ req[p] \in Requests
         /\ Target(p) \in Names /\ Target(p) = req[p].name
         /\ req[p].product \in {"kind", "k3d", "minikube"}
         /\ req[p].op \in {"create", "delete", "ensure"}
         /\ req[p].registry \in BOOLEAN /\ req[p].minor \in Nat
         /\ req[p].auth \in {"none", "good", "bad"}
         /\ req[p].format \in {"none", "v1alpha4", "v1alpha5", "both"}
<1>1. req[p] \in Requests
  BY DEF TypeOK
<1>2. req[p] \in [op: {"create", "delete", "ensure"}, name: Names, product: {"kind", "k3d", "minikube"},
                  registry: BOOLEAN, minor: Nat, auth: {"none", "good", "bad"},
                  format: {"none", "v1alpha4", "v1alpha5", "both"}]
  BY <1>1, AdminAssumption DEF AdminAssumption
<1> QED
  BY <1>1, <1>2 DEF Target

\* And of the cluster it is for.
LEMMA ClusterType ==
  ASSUME TypeOK, NEW n \in Names
  PROVE  /\ cluster[n] \in Clusters
         /\ cluster[n].wired \in [Nodes -> SUBSET Refs]
         /\ cluster[n].sed \in SUBSET Nodes
         /\ cluster[n].state \in {"absent", "half", "up", "stopped", "paused"}
BY DEF TypeOK, Clusters

(***************************************************************************)
(* What the steps of a process p have in common: the process goes on to      *)
(* another place, only its own cluster changes, and the registry leaves no   *)
(* network but that of this cluster.                                       *)
(***************************************************************************)
Memories ==
  [networks: SUBSET (Names \cup {"kind"}), todo: SUBSET Nodes, node: Nodes \cup {""}, was: Clusters]

GoesOn(p) ==
  /\ at' \in [Procs -> {"idle"} \cup InFlight \cup Over]
  /\ at'[p] # at[p]
  /\ at'[p] \in InFlight \cup Over
  /\ \A q \in Procs \ {p} : at'[q] = at[q]

Remembers(p) ==
  /\ mem' \in [Procs -> Memories]
  /\ \A q \in Procs \ {p} : mem'[q] = mem[q]

KeepsOthers(p) ==
  /\ cluster' \in [Names -> Clusters]
  /\ \A n \in Names \ {Target(p)} : cluster'[n] = cluster[n]

Connects(p) ==
  /\ attached' \subseteq Names \cup {"kind"}
  /\ attached \ {Target(p)} \subseteq attached'

Moves(p) ==
  /\ GoesOn(p) /\ Remembers(p) /\ KeepsOthers(p) /\ Connects(p)
  /\ UNCHANGED <<tool, req>>

LEMMA BlankType == NoCluster \in Clusters /\ Blank \in Memories
<1>1. NoCluster \in Clusters
  BY DEF NoCluster, Clusters, Nodes, Refs
<1> QED
  BY <1>1 DEF Blank, Memories

LEMMA Going ==
  ASSUME TypeOK, NEW p \in Procs, NEW x \in InFlight \cup Over, x # at[p], Goto(p, x)
  PROVE  GoesOn(p) /\ at'[p] = x
BY DEF TypeOK, Goto, GoesOn

LEMMA Resting ==
  ASSUME TypeOK, NEW p \in Procs, UNCHANGED mem
  PROVE  Remembers(p)
BY DEF TypeOK, Remembers, Memories

LEMMA Remembering ==
  ASSUME TypeOK, NEW p \in Procs, NEW m \in Memories, mem' = [mem EXCEPT ![p] = m]
  PROVE  Remembers(p) /\ mem'[p] = m
BY DEF TypeOK, Remembers, Memories

LEMMA Returning ==
  ASSUME TypeOK, NEW p \in Procs, at[p] \notin Over, NEW x \in Over, Return(p, x)
  PROVE  GoesOn(p) /\ at'[p] = x /\ Remembers(p) /\ mem'[p] = Blank
BY Going, Remembering, BlankType DEF Return

LEMMA Keeping ==
  ASSUME TypeOK, NEW p \in Procs, UNCHANGED cluster
  PROVE  KeepsOthers(p)
BY DEF TypeOK, KeepsOthers

LEMMA Updating ==
  ASSUME TypeOK, NEW p \in Procs, NEW c \in Clusters, Update(Target(p), c)
  PROVE  KeepsOthers(p) /\ cluster'[Target(p)] = c
BY RequestType DEF TypeOK, KeepsOthers, Update

LEMMA Staying ==
  ASSUME TypeOK, NEW p \in Procs, UNCHANGED attached
  PROVE  Connects(p)
BY DEF TypeOK, Connects

\* The places of a process that is at work are none at which it is through.
LEMMA Places == \A x \in InFlight : x \notin Over /\ x # "idle"
BY DEF InFlight, Over

LEMMA MemoryType ==
  ASSUME TypeOK, NEW p \in Procs
  PROVE  /\ mem[p] \in Memories
         /\ mem[p].todo \in SUBSET Nodes /\ mem[p].node \in Nodes \cup {""}
         /\ \A S \in SUBSET Nodes : [mem[p] EXCEPT !.todo = S] \in Memories
         /\ [mem[p] EXCEPT !.networks = @ \ {Target(p)}] \in Memories
BY DEF TypeOK, Memories

LEMMA TakingNode ==
  ASSUME TypeOK, NEW p \in Procs, NEW node \in Nodes,
         mem' = [mem EXCEPT ![p].node = node, ![p].todo = @ \ {node}]
  PROVE  Remembers(p) /\ mem'[p].node = node /\ mem'[p].todo = mem[p].todo \ {node}
BY MemoryType DEF TypeOK, Remembers, Memories

LEMMA RewiredType ==
  ASSUME TypeOK, NEW n \in Names
  PROVE  /\ \A node \in Nodes \cup {""}, S \in SUBSET Refs :
              [cluster[n] EXCEPT !.wired[node] = @ \cup S] \in Clusters
         /\ \A state \in {"absent", "half", "up", "stopped", "paused"} :
              [cluster[n] EXCEPT !.state = state] \in Clusters
         /\ \A S \in SUBSET Nodes : [cluster[n] EXCEPT !.sed = S] \in Clusters
<1>1. ASSUME NEW node \in Nodes \cup {""}, NEW S \in SUBSET Refs
      PROVE  [cluster[n] EXCEPT !.wired[node] = @ \cup S] \in Clusters
  <2>1. [cluster[n].wired EXCEPT ![node] = @ \cup S] \in [Nodes -> SUBSET Refs]
    BY ClusterType
  <2> QED
    BY <2>1, ClusterType DEF Clusters
<1> QED
  BY <1>1, ClusterType DEF Clusters

LEMMA Wiring ==
  ASSUME TypeOK, NEW p \in Procs, NEW node \in Nodes \cup {""}, NEW ref \in Refs,
         Wire(Target(p), node, ref)
  PROVE  KeepsOthers(p)
<1> DEFINE c == [cluster[Target(p)] EXCEPT !.wired[node] = @ \cup {ref}]
<1>1. c \in Clusters
  BY RequestType, RewiredType
<1>2. Update(Target(p), c)
  BY DEF Wire, Update
<1> HIDE DEF c
<1> QED
  BY <1>1, <1>2, Updating

LEMMA StartedType ==
  ASSUME TypeOK, NEW n \in Names, NEW b \in BOOLEAN
  PROVE  Started(n, b) \in Clusters
BY ClusterType DEF Started, Clusters, Refs

LEMMA BeginMoves == ASSUME TypeOK, NEW p \in Procs, Begin(p) PROVE Moves(p)
<1> DEFINE place == CASE Wanted(p).op = "delete" -> "delete"
                      [] Wanted(p).op = "ensure" -> "status"
                      [] Wanted(p).op = "create" /\ Wanted(p).product = "kind" -> "exists"
                      [] Wanted(p).op = "create" /\ Wanted(p).product = "k3d" -> "k3dcheck"
                      [] Wanted(p).op = "create" /\ Wanted(p).product = "minikube" -> "version"
           m == [mem[p] EXCEPT !.networks = attached, !.was = cluster[Target(p)]]
<1>1. place \in {"delete", "status", "exists", "k3dcheck", "version"}
  <2>1. Wanted(p).product \in {"kind", "k3d", "minikube"} /\ Wanted(p).op \in {"create", "delete", "ensure"}
    BY RequestType DEF Wanted
  <2> QED
    BY <2>1
<1>2. {"delete", "status", "exists", "k3dcheck", "version"} \subseteq InFlight
  BY DEF InFlight
<1>3. Goto(p, place) /\ at[p] = "idle" /\ UNCHANGED <<tool, cluster, attached, req>>
  BY DEF Begin
<1>4. GoesOn(p)
  BY <1>1, <1>2, <1>3, Going, Places
<1>5. m \in Memories /\ mem' = [mem EXCEPT ![p] = m]
  <2>1. attached \in SUBSET (Names \cup {"kind"}) /\ cluster[Target(p)] \in Clusters
    BY RequestType, ClusterType DEF TypeOK
  <2>2. m \in Memories
    BY <2>1, MemoryType DEF Memories
  <2>3. mem' = [mem EXCEPT ![p] = m]
    BY DEF Begin
  <2> QED
    BY <2>2, <2>3
<1> HIDE DEF m
<1>6. Remembers(p)
  BY <1>5, Remembering
<1> QED
  BY <1>3, <1>4, <1>6, Keeping, Staying DEF Moves

LEMMA ClusterExistsMoves == ASSUME TypeOK, NEW p \in Procs, ClusterExists(p) PROVE Moves(p)
<1>1. {"orphan", "image"} \subseteq InFlight /\ {"failed"} \subseteq Over /\ "exists" \notin Over
  BY DEF Over, InFlight
<1> QED
  BY <1>1, Going, Returning, Resting, Keeping, Staying DEF ClusterExists, Moves

LEMMA DeleteOrphanMoves == ASSUME TypeOK, NEW p \in Procs, DeleteOrphan(p) PROVE Moves(p)
<1>1. {"image"} \subseteq InFlight /\ "orphan" \notin Over
  BY DEF Over, InFlight
<1> QED
  BY <1>1, Going, Resting, Updating, BlankType, RequestType, Staying DEF DeleteOrphan, Moves

LEMMA GetNodeImageMoves == ASSUME TypeOK, NEW p \in Procs, GetNodeImage(p) PROVE Moves(p)
<1>1. {"kindcreate"} \subseteq InFlight /\ {"failed"} \subseteq Over /\ "image" \notin Over
  BY DEF Over, InFlight
<1> QED
  BY <1>1, Going, Returning, Resting, Keeping, Staying DEF GetNodeImage, Moves

LEMMA KindCreateMoves == ASSUME TypeOK, NEW p \in Procs, KindCreate(p) PROVE Moves(p)
<1> DEFINE r == Wanted(p)
           c == [NoCluster EXCEPT !.state = "up", !.minor = IF r.minor = 0 THEN KindDefault ELSE r.minor,
                                  !.wired = [m \in Nodes |-> KindClusterConfig(r)]]
<1>1. "kindconnect" \in InFlight /\ {"done", "failed"} \subseteq Over /\ at[p] = "kindcreate" /\ "kindcreate" \notin Over
  BY DEF InFlight, Over, KindCreate
<1>2. GoesOn(p) /\ Remembers(p)
  BY <1>1, Going, Returning, Resting DEF KindCreate, Created
<1>3. c \in Clusters
  <2>1. KindClusterConfig(r) \in SUBSET Refs
    BY DEF KindClusterConfig, Refs, LocalRefs
  <2>2. r.minor \in Nat
    BY RequestType DEF Wanted
  <2> QED
    BY <2>1, <2>2 DEF NoCluster, Clusters, KindDefault
<1>4. Update(Target(p), c) \/ UNCHANGED cluster
  BY DEF KindCreate, Wanted, Target
<1> HIDE DEF c
<1>5. KeepsOthers(p)
  BY <1>3, <1>4, Updating, Keeping
<1> QED
  BY <1>2, <1>5, Staying DEF KindCreate, Moves

LEMMA KindConnectMoves == ASSUME TypeOK, NEW p \in Procs, KindConnect(p) PROVE Moves(p)
<1>1. "kindnodes" \in InFlight /\ {"done", "failed"} \subseteq Over /\ at[p] = "kindconnect" /\ "kindconnect" \notin Over
  BY DEF InFlight, Over, KindConnect
<1>2. GoesOn(p) /\ Remembers(p)
  BY <1>1, Going, Returning, Resting DEF KindConnect, NetworkConnect
<1>3. Connects(p)
  BY DEF KindConnect, NetworkConnect, Connects, TypeOK
<1> QED
  BY <1>2, <1>3, Keeping DEF KindConnect, Moves

LEMMA ListNodesMoves == ASSUME TypeOK, NEW p \in Procs, ListNodes(p) PROVE Moves(p)
<1>1. "patch" \in InFlight /\ at[p] = "kindnodes"
  BY DEF InFlight, ListNodes
<1>2. KindNodes(Target(p)) \in SUBSET Nodes
  BY DEF KindNodes, NodesOf, Nodes
<1>3. [mem[p] EXCEPT !.todo = KindNodes(Target(p))] \in Memories
  BY <1>2, MemoryType
<1>4. mem' = [mem EXCEPT ![p] = [mem[p] EXCEPT !.todo = KindNodes(Target(p))]]
  BY DEF ListNodes
<1> QED
  BY <1>1, <1>3, <1>4, Going, Remembering, Keeping, Staying DEF ListNodes, Moves

LEMMA PatchLocalhostMoves == ASSUME TypeOK, NEW p \in Procs, PatchLocalhost(p) PROVE Moves(p)
<1>1. "patchnet" \in InFlight /\ {"done", "failed"} \subseteq Over /\ at[p] = "patch" /\ "patch" \notin Over
  BY DEF InFlight, Over, PatchLocalhost
<1>2. UNCHANGED <<tool, attached, req>>
  BY DEF PatchLocalhost
<1>3. ASSUME NEW node \in mem[p].todo, Wire(Target(p), node, "localhost"), Goto(p, "patchnet"),
             mem' = [mem EXCEPT ![p].node = node, ![p].todo = @ \ {node}]
      PROVE  Moves(p)
  <2>1. node \in Nodes /\ "localhost" \in Refs
    BY MemoryType DEF Refs
  <2>2. Remembers(p)
    BY <1>3, <2>1, TakingNode
  <2> QED
    BY <1>1, <1>2, <1>3, <2>1, <2>2, Going, Wiring, Staying DEF Moves
<1>4. ASSUME NEW x \in Over, Return(p, x), UNCHANGED cluster PROVE Moves(p)
  BY <1>1, <1>2, <1>4, Returning, Keeping, Staying DEF Moves
<1> QED
  BY <1>1, <1>3, <1>4 DEF PatchLocalhost

LEMMA PatchNetworkMoves == ASSUME TypeOK, NEW p \in Procs, PatchNetwork(p) PROVE Moves(p)
<1>1. "patch" \in InFlight /\ "failed" \in Over /\ at[p] = "patchnet" /\ "patchnet" \notin Over
  BY DEF InFlight, Over, PatchNetwork
<1>2. CASE Wire(Target(p), mem[p].node, "network") /\ Goto(p, "patch") /\ UNCHANGED mem
  BY <1>1, <1>2, Going, Wiring, Resting, Staying, MemoryType DEF PatchNetwork, Moves, Refs
<1>3. CASE Return(p, "failed") /\ UNCHANGED cluster
  BY <1>1, <1>3, Returning, Keeping, Staying DEF PatchNetwork, Moves
<1> QED
  BY <1>2, <1>3 DEF PatchNetwork

LEMMA K3dCheckMoves == ASSUME TypeOK, NEW p \in Procs, K3dCheck(p) PROVE Moves(p)
<1>1. {"k3dorphan"} \subseteq InFlight /\ {"failed"} \subseteq Over /\ "k3dcheck" \notin Over
  BY DEF Over, InFlight
<1> QED
  BY <1>1, Going, Returning, Resting, Keeping, Staying DEF K3dCheck, Moves

LEMMA K3dDeleteOrphanMoves == ASSUME TypeOK, NEW p \in Procs, K3dDeleteOrphan(p) PROVE Moves(p)
<1>1. {"k3dcreate"} \subseteq InFlight /\ "k3dorphan" \notin Over
  BY DEF Over, InFlight
<1> QED
  BY <1>1, Going, Resting, Updating, BlankType, RequestType, Staying DEF K3dDeleteOrphan, Moves

LEMMA K3dCreateMoves == ASSUME TypeOK, NEW p \in Procs, K3dCreate(p) PROVE Moves(p)
<1> DEFINE r == Wanted(p)
           format == K3dClusterConfig(r)
           c == [NoCluster EXCEPT !.state = "up", !.format = format,
                                  !.wired = [m \in Nodes |-> IF r.registry THEN LocalRefs ELSE {}]]
<1>1. {"done", "failed"} \subseteq Over /\ at[p] = "k3dcreate" /\ "k3dcreate" \notin Over
  BY DEF Over, K3dCreate
<1>2. GoesOn(p) /\ Remembers(p)
  BY <1>1, Returning DEF K3dCreate
<1>3. K3dReads(format) => c \in Clusters
  BY DEF K3dReads, NoCluster, Clusters, LocalRefs, Refs
<1>4. (K3dReads(format) /\ Update(Target(p), c)) \/ UNCHANGED cluster
  BY DEF K3dCreate, Wanted, Target
<1> HIDE DEF c
<1>5. KeepsOthers(p)
  BY <1>3, <1>4, Updating, Keeping
<1> QED
  BY <1>2, <1>5, Staying DEF K3dCreate, Moves

LEMMA MinikubeVersionMoves == ASSUME TypeOK, NEW p \in Procs, MinikubeVersion(p) PROVE Moves(p)
<1>1. {"disconnect", "minicreate"} \subseteq InFlight /\ {"failed"} \subseteq Over /\ "version" \notin Over
  BY DEF Over, InFlight
<1> QED
  BY <1>1, Going, Returning, Resting, Keeping, Staying DEF MinikubeVersion, Moves

LEMMA EnsureRegistryDisconnectedMoves ==
  ASSUME TypeOK, NEW p \in Procs, EnsureRegistryDisconnected(p) PROVE Moves(p)
<1>1. "minicreate" \in InFlight /\ "failed" \in Over /\ at[p] = "disconnect" /\ "disconnect" \notin Over
  BY DEF InFlight, Over, EnsureRegistryDisconnected
<1>2. Connects(p)
  BY DEF EnsureRegistryDisconnected, Connects, TypeOK
<1>3. GoesOn(p)
  BY <1>1, Going, Returning DEF EnsureRegistryDisconnected
<1>4. Remembers(p)
  <2>1. CASE UNCHANGED mem
    BY <2>1, Resting
  <2>2. CASE mem' = [mem EXCEPT ![p].networks = @ \ {Target(p)}]
    <3>1. [mem[p] EXCEPT !.networks = @ \ {Target(p)}] \in Memories
      BY MemoryType
    <3>2. mem' = [mem EXCEPT ![p] = [mem[p] EXCEPT !.networks = @ \ {Target(p)}]]
      BY <2>2
    <3> QED
      BY <3>1, <3>2, Remembering
  <2>3. CASE Return(p, "failed")
    BY <1>1, <2>3, Returning
  <2> QED
    BY <2>1, <2>2, <2>3 DEF EnsureRegistryDisconnected
<1> QED
  BY <1>2, <1>3, <1>4, Keeping DEF EnsureRegistryDisconnected, Moves

LEMMA MinikubeCreateMoves == ASSUME TypeOK, NEW p \in Procs, MinikubeCreate(p) PROVE Moves(p)
<1>1. "miniconnect" \in InFlight /\ {"done", "failed"} \subseteq Over /\ at[p] = "minicreate" /\ "minicreate" \notin Over
  BY DEF InFlight, Over, MinikubeCreate
<1>2. GoesOn(p) /\ Remembers(p)
  BY <1>1, Going, Returning, Resting DEF MinikubeCreate, Created
<1>3. Started(Target(p), Wanted(p).registry) \in Clusters
  BY StartedType, RequestType DEF Wanted
<1>4. Update(Target(p), Started(Target(p), Wanted(p).registry)) \/ UNCHANGED cluster
  BY DEF MinikubeCreate
<1>5. KeepsOthers(p)
  BY <1>3, <1>4, Updating, Keeping
<1> QED
  BY <1>2, <1>5, Staying DEF MinikubeCreate, Moves

LEMMA MinikubeConnectMoves == ASSUME TypeOK, NEW p \in Procs, MinikubeConnect(p) PROVE Moves(p)
<1>1. "mininodes" \in InFlight /\ "failed" \in Over /\ at[p] = "miniconnect" /\ "miniconnect" \notin Over
  BY DEF InFlight, Over, MinikubeConnect
<1>2. Return(p, "failed") \/ (Goto(p, "mininodes") /\ UNCHANGED mem)
  BY DEF MinikubeConnect, NetworkConnect
<1>3. GoesOn(p) /\ Remembers(p)
  BY <1>1, <1>2, Going, Returning, Resting
<1>4. UNCHANGED attached \/ attached' = attached \cup {Target(p)}
  BY DEF MinikubeConnect, NetworkConnect
<1>5. Connects(p)
  BY <1>4, RequestType DEF Connects, TypeOK
<1> QED
  BY <1>3, <1>5, Keeping DEF MinikubeConnect, Moves

LEMMA MinikubeNodesMoves == ASSUME TypeOK, NEW p \in Procs, MinikubeNodes(p) PROVE Moves(p)
<1>1. {"patch", "sed"} \subseteq InFlight /\ "failed" \in Over /\ at[p] = "mininodes" /\ "mininodes" \notin Over
  BY DEF InFlight, Over, MinikubeNodes
<1>2. CASE Return(p, "failed")
  BY <1>1, <1>2, Returning, Keeping, Staying DEF MinikubeNodes, Moves
<1>3. CASE /\ Goto(p, IF MinikubeAPI = "V2" THEN "patch" ELSE "sed")
           /\ mem' = [mem EXCEPT ![p].todo = NodesOf("minikube")]
  <2>1. NodesOf("minikube") \in SUBSET Nodes
    BY DEF NodesOf, Nodes
  <2>2. [mem[p] EXCEPT !.todo = NodesOf("minikube")] \in Memories
    BY <2>1, MemoryType
  <2>3. mem' = [mem EXCEPT ![p] = [mem[p] EXCEPT !.todo = NodesOf("minikube")]]
    BY <1>3
  <2>4. GoesOn(p)
    BY <1>1, <1>3, Going
  <2> QED
    BY <2>2, <2>3, <2>4, Remembering, Keeping, Staying DEF MinikubeNodes, Moves
<1> QED
  BY <1>2, <1>3 DEF MinikubeNodes

LEMMA SedMoves == ASSUME TypeOK, NEW p \in Procs, Sed(p) PROVE Moves(p)
<1>1. "restart" \in InFlight /\ {"done", "failed"} \subseteq Over /\ at[p] = "sed" /\ "sed" \notin Over
  BY DEF InFlight, Over, Sed
<1>2. UNCHANGED <<tool, attached, req>>
  BY DEF Sed
<1>3. ASSUME NEW node \in mem[p].todo, cluster' = [cluster EXCEPT ![Target(p)].sed = @ \cup {node}],
             Goto(p, "restart"), mem' = [mem EXCEPT ![p].node = node, ![p].todo = @ \ {node}]
      PROVE  Moves(p)
  <2> DEFINE c == [cluster[Target(p)] EXCEPT !.sed = @ \cup {node}]
  <2>1. node \in Nodes
    BY MemoryType
  <2>2. c \in Clusters /\ Update(Target(p), c)
    BY <1>3, <2>1, RequestType, ClusterType DEF Clusters, Update
  <2> HIDE DEF c
  <2>3. KeepsOthers(p)
    BY <2>2, Updating
  <2>4. Remembers(p)
    BY <1>3, <2>1, TakingNode
  <2> QED
    BY <1>1, <1>2, <1>3, <2>3, <2>4, Going, Staying DEF Moves
<1>4. ASSUME NEW x \in Over, Return(p, x), UNCHANGED cluster PROVE Moves(p)
  BY <1>1, <1>2, <1>4, Returning, Keeping, Staying DEF Moves
<1> QED
  BY <1>1, <1>3, <1>4 DEF Sed

LEMMA RestartContainerdMoves == ASSUME TypeOK, NEW p \in Procs, RestartContainerd(p) PROVE Moves(p)
<1> DEFINE n == Target(p)
           node == mem[p].node
           c == [cluster[n] EXCEPT !.sed = @ \ {node},
                   !.wired[node] = @ \cup (IF node \in cluster[n].sed THEN {"localhost"} ELSE {})]
<1>1. "sed" \in InFlight /\ "failed" \in Over /\ at[p] = "restart" /\ "restart" \notin Over
  BY DEF InFlight, Over, RestartContainerd
<1>2. c \in Clusters
  <2> DEFINE S == IF node \in cluster[n].sed THEN {"localhost"} ELSE {}
             w == [cluster[n].wired EXCEPT ![node] = @ \cup S]
  <2>1. w \in [Nodes -> SUBSET Refs]
    <3>1. cluster[n].wired \in [Nodes -> SUBSET Refs]
      BY RequestType, ClusterType
    <3>2. S \in SUBSET Refs
      BY DEF Refs
    <3> HIDE DEF S, n, node
    <3> QED
      BY <3>1, <3>2
  <2>2. c = [cluster[n] EXCEPT !.sed = @ \ {node}, !.wired = w]
    OBVIOUS
  <2> HIDE DEF w
  <2>3. cluster[n] \in Clusters /\ cluster[n].sed \ {node} \in SUBSET Nodes
    BY RequestType, ClusterType
  <2>4. [cluster[n] EXCEPT !.sed = @ \ {node}, !.wired = w] \in Clusters
    BY <2>1, <2>3 DEF Clusters
  <2> QED
    BY <2>2, <2>4
<1>3. CASE cluster' = [cluster EXCEPT ![n] = c] /\ Goto(p, "sed") /\ UNCHANGED mem
  <2> HIDE DEF c
  <2> QED
    BY <1>1, <1>2, <1>3, Going, Updating, Resting, Staying DEF RestartContainerd, Moves, Update
<1>4. CASE Return(p, "failed") /\ UNCHANGED cluster
  BY <1>1, <1>4, Returning, Keeping, Staying DEF RestartContainerd, Moves
<1> QED
  BY <1>3, <1>4 DEF RestartContainerd

LEMMA StatusMoves == ASSUME TypeOK, NEW p \in Procs, Status(p) PROVE Moves(p)
<1>1. {"startstopped"} \subseteq InFlight /\ {"done"} \subseteq Over /\ "status" \notin Over
  BY DEF Over, InFlight
<1> QED
  BY <1>1, Going, Returning, Resting, Keeping, Staying DEF Status, Moves

LEMMA StartStoppedMoves == ASSUME TypeOK, NEW p \in Procs, StartStopped(p) PROVE Moves(p)
<1>1. "done" \in Over /\ at[p] = "startstopped" /\ "startstopped" \notin Over
  BY DEF Over, StartStopped
<1>2. GoesOn(p) /\ Remembers(p)
  BY <1>1, Returning DEF StartStopped
<1>3. Started(Target(p), FALSE) \in Clusters /\ [cluster[Target(p)] EXCEPT !.state = "up"] \in Clusters
  BY StartedType, RequestType, RewiredType
<1>4. \/ Update(Target(p), Started(Target(p), FALSE))
      \/ Update(Target(p), [cluster[Target(p)] EXCEPT !.state = "up"])
      \/ UNCHANGED cluster
  BY DEF StartStopped, Update
<1>5. KeepsOthers(p)
  BY <1>3, <1>4, Updating, Keeping
<1> QED
  BY <1>2, <1>5, Staying DEF StartStopped, Moves

LEMMA DeleteMoves == ASSUME TypeOK, NEW p \in Procs, Delete(p) PROVE Moves(p)
<1>1. {"done", "failed"} \subseteq Over /\ "delete" \notin Over
  BY DEF Over, InFlight
<1> QED
  BY <1>1, Returning, Updating, BlankType, RequestType, Keeping, Staying DEF Delete, Moves, Wanted, Target

LEMMA FailMoves == ASSUME TypeOK, NEW p \in Procs, Fail(p) PROVE Moves(p)
<1>1. "broken" \in Over
  BY DEF Over
<1> QED
  BY <1>1, Places, Returning, Keeping, Staying DEF Fail, Moves

LEMMA FailHalfwayMoves == ASSUME TypeOK, NEW p \in Procs, FailHalfway(p) PROVE Moves(p)
<1>1. "broken" \in Over /\ at[p] \notin Over
  BY DEF Over, FailHalfway
<1>2. [NoCluster EXCEPT !.state = "half"] \in Clusters
  BY DEF NoCluster, Clusters, Nodes, Refs
<1> QED
  BY <1>1, <1>2, Returning, Updating, Staying DEF FailHalfway, Moves

LEMMA OrphanStaysMoves == ASSUME TypeOK, NEW p \in Procs, OrphanStays(p) PROVE Moves(p)
<1>1. "k3dcreate" \in InFlight /\ "k3dcreate" # "k3dorphan"
  BY DEF InFlight
<1> QED
  BY <1>1, Going, Resting, Keeping, Staying DEF OrphanStays, Moves

\* Every step of a process, and every fault of one, is such a step.
LEMMA StepMoves ==
  ASSUME TypeOK, NEW p \in Procs, Step(p) \/ Fault(p)
  PROVE  Moves(p)
<1>1. CASE KindStep(p)
  BY <1>1, ClusterExistsMoves, DeleteOrphanMoves, GetNodeImageMoves, KindCreateMoves, KindConnectMoves,
     ListNodesMoves DEF KindStep
<1>2. CASE K3dStep(p)
  BY <1>2, K3dCheckMoves, K3dDeleteOrphanMoves, K3dCreateMoves DEF K3dStep
<1>3. CASE MinikubeStep(p)
  BY <1>3, MinikubeVersionMoves, EnsureRegistryDisconnectedMoves, MinikubeCreateMoves, MinikubeConnectMoves,
     MinikubeNodesMoves, SedMoves, RestartContainerdMoves, StatusMoves, StartStoppedMoves DEF MinikubeStep
<1>4. CASE Fault(p)
  BY <1>4, FailMoves, FailHalfwayMoves, OrphanStaysMoves DEF Fault
<1>5. CASE Begin(p) \/ PatchLocalhost(p) \/ PatchNetwork(p) \/ Delete(p)
  BY <1>5, BeginMoves, PatchLocalhostMoves, PatchNetworkMoves, DeleteMoves
<1> QED
  BY <1>1, <1>2, <1>3, <1>4, <1>5 DEF Step

\* The three kinds of steps there are.
LEMMA NextMoves ==
  ASSUME TypeOK, Next
  PROVE  \/ \E p \in Procs : Step(p) /\ Moves(p) /\ Interrupt(Target(p), {p})
         \/ \E p \in Procs : Fault(p) /\ Moves(p) /\ Interrupt(Target(p), {})
         \/ \E n \in Names : Stop(n) /\ Interrupt(n, {})
BY StepMoves DEF Next

(***************************************************************************)
(* Types.                                                                  *)
(***************************************************************************)

LEMMA InitTypeOK == Init => TypeOK
<1> SUFFICES ASSUME Init PROVE TypeOK
  OBVIOUS
<1>1. cluster \in [Names -> Clusters] /\ attached \subseteq Names \cup {"kind"}
  BY AdminAssumption DEF Init, AdminAssumption
<1>2. mem \in [Procs -> Memories]
  BY BlankType DEF Init
<1> QED
  BY <1>1, <1>2 DEF Init, TypeOK, Memories

\* The history of what was interrupted is one of Booleans.
LEMMA HistoryType ==
  ASSUME NEW n, NEW by, Interrupt(n, by)
  PROVE  alone' \in [Procs -> BOOLEAN] /\ untouched' \in [Procs -> BOOLEAN]
BY DEF Interrupt

LEMMA StopType ==
  ASSUME TypeOK, NEW n \in Names, Stop(n)
  PROVE  cluster' \in [Names -> Clusters]
<1>1. PICK state \in {"stopped", "paused"} : cluster' = [cluster EXCEPT ![n].state = state]
  BY DEF Stop
<1>2. [cluster[n] EXCEPT !.state = state] \in Clusters
  BY RewiredType
<1> QED
  BY <1>1, <1>2 DEF TypeOK

LEMMA StepTypeOK == TypeOK /\ [Next]_vars => TypeOK'
<1> SUFFICES ASSUME TypeOK, [Next]_vars PROVE TypeOK'
  OBVIOUS
<1>1. ASSUME NEW p \in Procs, NEW by, Moves(p), Interrupt(Target(p), by) PROVE TypeOK'
  BY <1>1, HistoryType DEF Moves, GoesOn, Remembers, KeepsOthers, Connects, Memories, TypeOK
<1>2. ASSUME NEW n \in Names, Stop(n), Interrupt(n, {}) PROVE TypeOK'
  BY <1>2, HistoryType, StopType DEF Stop, TypeOK
<1>3. CASE UNCHANGED vars
  BY <1>3 DEF vars, TypeOK
<1> QED
  BY <1>1, <1>2, <1>3, NextMoves

\* The variables of Admin keep their types.
THEOREM TypeCorrect == Spec => []TypeOK
BY InitTypeOK, StepTypeOK, PTL DEF Spec

(***************************************************************************)
(* A step on one cluster leaves the others with what their nodes are wired   *)
(* to and with their networks: the registry leaves no network but that of a  *)
(* minikube cluster that is about to start, and kind's is none of those.     *)
(***************************************************************************)

LEMMA PullableKept ==
  ASSUME TypeOK, NEW n \in Names, Pullable(n, Kept(n)),
         NetworkOf(Kept(n)) \in attached', cluster'[n].wired = cluster[n].wired
  PROVE  Pullable(n, Kept(n))'
BY DEF Pullable, Kept, NetworkOf, LocalRegistryHosting, Workers

LEMMA StopKeepsWires ==
  ASSUME TypeOK, NEW n \in Names, NEW m \in Names, Stop(m)
  PROVE  cluster'[n].wired = cluster[n].wired
<1>1. PICK state : cluster' = [cluster EXCEPT ![m].state = state]
  BY DEF Stop
<1>2. [cluster[m] EXCEPT !.state = state].wired = cluster[m].wired
  BY ClusterType DEF Clusters
<1> QED
  BY <1>1, <1>2 DEF TypeOK

LEMMA StepKeepsPulling ==
  ASSUME TypeOK, [Next]_vars, NEW n \in Names, Pullable(n, Kept(n)),
         \A p \in Procs : Target(p) = n => at'[p] = at[p]
  PROVE  Pullable(n, Kept(n))'
<1>1. NetworkOf(Kept(n)) \in {"kind", n} /\ NetworkOf(Kept(n)) \in attached
  BY DEF Kept, NetworkOf, Pullable
<1>2. ASSUME NEW p \in Procs, Moves(p) PROVE Pullable(n, Kept(n))'
  <2>1. Target(p) # n
    BY <1>2 DEF Moves, GoesOn
  <2>2. Target(p) # "kind"
    BY RequestType, AdminAssumption DEF AdminAssumption
  <2>3. NetworkOf(Kept(n)) \in attached'
    BY <1>1, <1>2, <2>1, <2>2 DEF Moves, Connects
  <2>4. cluster'[n] = cluster[n]
    BY <1>2, <2>1 DEF Moves, KeepsOthers
  <2> QED
    BY <2>3, <2>4, PullableKept
<1>3. ASSUME NEW m \in Names, Stop(m) PROVE Pullable(n, Kept(n))'
  BY <1>1, <1>3, StopKeepsWires, PullableKept DEF Stop
<1>4. CASE UNCHANGED vars
  BY <1>1, <1>4, PullableKept DEF vars
<1> QED
  BY <1>2, <1>3, <1>4, NextMoves

\* Whatever is done to other clusters, a cluster whose images could be pulled is
\* not cut off from the registry.
THEOREM NeighboursKeepPullingHolds == Spec => NeighboursKeepPulling
<1>1. TypeOK /\ [Next]_vars
      => [\A n \in Names :
            /\ Kept(n).product # "k3d" /\ Pullable(n, Kept(n))
            /\ \A p \in Procs : Target(p) = n => at'[p] = at[p]
            => Pullable(n, Kept(n))']_vars
  BY StepKeepsPulling
<1> QED
  BY <1>1, TypeCorrect, PTL DEF Spec, NeighboursKeepPulling

(***************************************************************************)
(* The inductive invariant behind CreatedIsWired. It speaks of a creation    *)
(* that nobody else has touched, at every place it may be at.               *)
(***************************************************************************)

\* Where a creation is before and after the tool has made the cluster.
KindPlaces == {"exists", "orphan", "image", "kindcreate", "kindconnect", "kindnodes"}
K3dPlaces == {"k3dcheck", "k3dorphan", "k3dcreate"}
MinikubePlaces == {"version", "disconnect", "minicreate", "miniconnect", "mininodes", "sed", "restart"}
WiringPlaces == {"patch", "patchnet", "sed", "restart"}
JoinedPlaces == WiringPlaces \cup {"kindnodes", "mininodes"}
BuiltPlaces == JoinedPlaces \cup {"kindconnect", "miniconnect"}

\* A creation is at places of its product, has the registry it is wired to, and
\* has been refused if it needs a login that its product does not support.
Fits(p) ==
  /\ at[p] \notin {"delete", "status", "startstopped"}
  /\ at[p] \in KindPlaces => req[p].product = "kind"
  /\ at[p] \in K3dPlaces => req[p].product = "k3d"
  /\ at[p] \in MinikubePlaces => req[p].product = "minikube"
  /\ at[p] \in {"patch", "patchnet"} => req[p].product # "k3d"
  /\ at[p] \in {"k3dorphan", "k3dcreate"} => req[p].format # "both"
  /\ at[p] \in BuiltPlaces \cup {"disconnect"} => req[p].registry
  /\ at[p] \notin {"idle", "k3dcheck", "version"} \cup Over => req[p].product = "kind" \/ req[p].auth = "none"

\* The list that was read before the creation began is still right about the
\* one network that matters: only the creation itself leaves it.
KnowsNetwork(p) ==
  at[p] \in InFlight /\ NetworkOf(req[p]) \in mem[p].networks => NetworkOf(req[p]) \in attached

\* What the tool has made is there, with what it was configured for.
IsBuilt(p) ==
  at[p] \in BuiltPlaces =>
    LET r == req[p]  c == cluster[r.name] IN
    /\ c.state = "up"
    /\ r.product = "kind" =>
         /\ r.minor # 0 => c.minor = r.minor
         /\ \A node \in Nodes : KindClusterConfig(r) \subseteq c.wired[node]
    /\ r.product = "minikube" => \A node \in Nodes : "network" \in c.wired[node]

IsJoined(p) == at[p] \in JoinedPlaces => NetworkOf(req[p]) \in attached

\* A node is still to be wired, is being wired, or is wired.
WiredSoFar(p) ==
  at[p] \in WiringPlaces =>
    LET c == cluster[req[p].name] IN
    \A node \in Workers(req[p].product) :
      \/ node \in mem[p].todo
      \/ LocalRefs \subseteq c.wired[node]
      \/ node = mem[p].node /\ at[p] = "patchnet" /\ "localhost" \in c.wired[node]
      \/ node = mem[p].node /\ at[p] = "restart" /\ node \in c.sed

Progress(p) == KnowsNetwork(p) /\ IsBuilt(p) /\ IsJoined(p) /\ WiredSoFar(p)

IInv ==
  /\ TypeOK
  /\ \A p \in Procs : Creates(p) => Fits(p) /\ (untouched[p] => Progress(p))


\* A process that is through promises nothing more.
LEMMA ThroughFits ==
  ASSUME NEW p \in Procs, at'[p] \in Over
  PROVE  Fits(p)' /\ Progress(p)'
BY DEF Fits, Progress, KnowsNetwork, IsBuilt, IsJoined, WiredSoFar, Over, InFlight, KindPlaces, K3dPlaces,
       MinikubePlaces, WiringPlaces, JoinedPlaces, BuiltPlaces

LEMMA Goes ==
  ASSUME TypeOK, NEW p \in Procs, NEW x, Goto(p, x)
  PROVE  at'[p] = x
BY DEF TypeOK, Goto

LEMMA Returns ==
  ASSUME TypeOK, NEW p \in Procs, NEW x \in {"done", "failed", "broken"}, Return(p, x)
  PROVE  at'[p] = x /\ at'[p] \in Over
BY Goes DEF Return, Over

LEMMA StepFits ==
  ASSUME TypeOK, NEW p \in Procs, Creates(p), Fits(p), Step(p) \/ Fault(p)
  PROVE  Fits(p)'
<1> USE Goes, Returns, ThroughFits, RequestType
    DEF Fits, Creates, Wanted, Created, NetworkConnect, KindPlaces, K3dPlaces, MinikubePlaces,
        WiringPlaces, JoinedPlaces, BuiltPlaces, Over
<1>1. CASE Begin(p)
  BY <1>1 DEF Begin
<1>2. CASE ClusterExists(p)
  BY <1>2 DEF ClusterExists
<1>3. CASE DeleteOrphan(p)
  BY <1>3 DEF DeleteOrphan
<1>4. CASE GetNodeImage(p)
  BY <1>4 DEF GetNodeImage
<1>5. CASE KindCreate(p)
  BY <1>5 DEF KindCreate
<1>6. CASE KindConnect(p)
  BY <1>6 DEF KindConnect
<1>7. CASE ListNodes(p)
  BY <1>7 DEF ListNodes
<1>8. CASE PatchLocalhost(p)
  BY <1>8 DEF PatchLocalhost
<1>9. CASE PatchNetwork(p)
  BY <1>9 DEF PatchNetwork
<1>10. CASE K3dCheck(p)
  BY <1>10 DEF K3dCheck, K3dRefuses
<1>11. CASE K3dDeleteOrphan(p)
  BY <1>11 DEF K3dDeleteOrphan
<1>12. CASE K3dCreate(p)
  BY <1>12 DEF K3dCreate
<1>13. CASE MinikubeVersion(p)
  BY <1>13 DEF MinikubeVersion
<1>14. CASE EnsureRegistryDisconnected(p)
  BY <1>14 DEF EnsureRegistryDisconnected
<1>15. CASE MinikubeCreate(p)
  BY <1>15 DEF MinikubeCreate
<1>16. CASE MinikubeConnect(p)
  BY <1>16 DEF MinikubeConnect
<1>17. CASE MinikubeNodes(p)
  BY <1>17 DEF MinikubeNodes
<1>18. CASE Sed(p)
  BY <1>18 DEF Sed
<1>19. CASE RestartContainerd(p)
  BY <1>19 DEF RestartContainerd
<1>20. CASE Status(p)
  BY <1>20 DEF Status
<1>21. CASE StartStopped(p)
  BY <1>21 DEF StartStopped
<1>22. CASE Delete(p)
  BY <1>22 DEF Delete
<1>23. CASE Fail(p)
  BY <1>23 DEF Fail
<1>24. CASE FailHalfway(p)
  BY <1>24 DEF FailHalfway
<1>25. CASE OrphanStays(p)
  BY <1>25 DEF OrphanStays
<1> HIDE DEF Fits, Creates, Wanted, Created, NetworkConnect
<1> QED
  BY <1>1, <1>2, <1>3, <1>4, <1>5, <1>6, <1>7, <1>8, <1>9, <1>10, <1>11, <1>12,
     <1>13, <1>14, <1>15, <1>16, <1>17, <1>18, <1>19, <1>20, <1>21, <1>22, <1>23, <1>24, <1>25
     DEF Step, KindStep, K3dStep, MinikubeStep, Fault

(***************************************************************************)
(* A step of the creation itself. Until the cluster is built only what it    *)
(* knows of the network matters.                                           *)
(***************************************************************************)

LEMMA EarlyProgress ==
  ASSUME NEW p \in Procs, at'[p] \notin BuiltPlaces, KnowsNetwork(p)'
  PROVE  Progress(p)'
BY DEF Progress, IsBuilt, IsJoined, WiredSoFar, WiringPlaces, JoinedPlaces, BuiltPlaces

LEMMA NetworkKnown ==
  ASSUME NEW p \in Procs, KnowsNetwork(p), at[p] \in InFlight, UNCHANGED req,
         mem'[p].networks = mem[p].networks, attached \subseteq attached'
  PROVE  KnowsNetwork(p)'
BY DEF KnowsNetwork, NetworkOf

\* The tool's version decides what containerd is configured for, and stays.
LEMMA ConfigKept ==
  ASSUME NEW r, UNCHANGED tool
  PROVE  /\ KindClusterConfig(r)' = KindClusterConfig(r)
         /\ HasConfigPath(r)' = HasConfigPath(r)
BY DEF KindClusterConfig, HasConfigPath, KindAPI

LEMMA BeginProgress ==
  ASSUME TypeOK, NEW p \in Procs, Creates(p), Begin(p)
  PROVE  Progress(p)'
<1>1. at'[p] \notin BuiltPlaces
  <2>1. Wanted(p).product \in {"kind", "k3d", "minikube"} /\ Wanted(p).op = "create"
    BY RequestType DEF Wanted, Creates
  <2>2. at'[p] \in {"exists", "k3dcheck", "version"}
    BY <2>1, Goes DEF Begin
  <2> QED
    BY <2>2 DEF BuiltPlaces, JoinedPlaces, WiringPlaces
<1>2. mem'[p].networks = attached /\ attached' = attached
  BY DEF Begin, TypeOK
<1> QED
  BY <1>1, <1>2, EarlyProgress DEF KnowsNetwork

\* The steps that change neither what is known nor what there is to know.
LEMMA CheckProgress ==
  ASSUME TypeOK, NEW p \in Procs, Progress(p),
         \/ ClusterExists(p) \/ DeleteOrphan(p) \/ GetNodeImage(p)
         \/ K3dCheck(p) \/ K3dDeleteOrphan(p) \/ OrphanStays(p) \/ MinikubeVersion(p)
  PROVE  Progress(p)'
<1>1. UNCHANGED <<req, attached>> /\ at[p] \in InFlight /\ KnowsNetwork(p)
  BY DEF ClusterExists, DeleteOrphan, GetNodeImage, K3dCheck, K3dDeleteOrphan, OrphanStays, MinikubeVersion, InFlight, Progress
<1>2. CASE Return(p, "failed")
  BY <1>2, Returns, ThroughFits
<1>3. CASE UNCHANGED mem /\ \E x \in {"orphan", "image", "kindcreate", "k3dorphan", "k3dcreate",
                                       "disconnect", "minicreate"} : Goto(p, x)
  <2>1. at'[p] \notin BuiltPlaces
    BY <1>3, Goes DEF BuiltPlaces, JoinedPlaces, WiringPlaces
  <2> QED
    BY <1>1, <1>3, <2>1, NetworkKnown, EarlyProgress
<1> QED
  BY <1>2, <1>3 DEF ClusterExists, DeleteOrphan, GetNodeImage, K3dCheck, K3dDeleteOrphan, OrphanStays, MinikubeVersion

\* The registry leaves the network, and the process knows it.
LEMMA DisconnectProgress ==
  ASSUME TypeOK, NEW p \in Procs, Fits(p), Progress(p), EnsureRegistryDisconnected(p)
  PROVE  Progress(p)'
<1>1. at[p] = "disconnect" /\ at[p] \in InFlight /\ UNCHANGED req /\ KnowsNetwork(p)
  BY DEF EnsureRegistryDisconnected, InFlight, Progress
<1>2. CASE Return(p, "failed")
  BY <1>2, Returns, ThroughFits
<1>3. ASSUME Goto(p, "minicreate"), KnowsNetwork(p)' PROVE Progress(p)'
  <2>1. at'[p] \notin BuiltPlaces
    BY <1>3, Goes DEF BuiltPlaces, JoinedPlaces, WiringPlaces
  <2> QED
    BY <1>3, <2>1, EarlyProgress
<1>4. CASE Goto(p, "minicreate") /\ UNCHANGED <<attached, mem>>
  BY <1>1, <1>3, <1>4, NetworkKnown
<1>5. CASE Goto(p, "minicreate") /\ mem' = [mem EXCEPT ![p].networks = @ \ {Target(p)}]
  <2>1. NetworkOf(req[p]) = Target(p)
    BY <1>1 DEF Fits, MinikubePlaces, NetworkOf, Target
  <2>2. Target(p) \notin mem'[p].networks
    BY <1>5 DEF TypeOK
  <2>3. KnowsNetwork(p)'
    BY <1>1, <2>1, <2>2 DEF KnowsNetwork, NetworkOf
  <2> QED
    BY <1>3, <1>5, <2>3
<1> QED
  BY <1>2, <1>4, <1>5 DEF EnsureRegistryDisconnected

LEMMA KindCreateProgress ==
  ASSUME TypeOK, NEW p \in Procs, Fits(p), Progress(p), KindCreate(p)
  PROVE  Progress(p)'
<1> DEFINE r == req[p]
           c == [NoCluster EXCEPT !.state = "up", !.minor = IF r.minor = 0 THEN KindDefault ELSE r.minor,
                                  !.wired = [m \in Nodes |-> KindClusterConfig(r)]]
<1>1. CASE at'[p] \in Over
  BY <1>1, ThroughFits
<1>2. CASE Goto(p, "kindconnect") /\ UNCHANGED mem /\ cluster' = [cluster EXCEPT ![r.name] = c]
  <2>1. at[p] \in InFlight /\ UNCHANGED <<tool, req, attached>> /\ at'[p] = "kindconnect"
    BY <1>2, Goes DEF KindCreate, InFlight
  <2>2. KnowsNetwork(p)'
    BY <1>2, <2>1, NetworkKnown DEF Progress
  <2>3. cluster'[r.name] = c
    BY <1>2, RequestType DEF TypeOK
  <2>4. c.state = "up" /\ (r.minor # 0 => c.minor = r.minor) /\ c.wired = [m \in Nodes |-> KindClusterConfig(r)]
    BY DEF NoCluster
  <2> HIDE DEF c
  <2>5. r.product = "kind"
    BY DEF KindCreate, Fits, KindPlaces
  <2>6. IsBuilt(p)'
    BY <2>1, <2>3, <2>4, <2>5, ConfigKept DEF IsBuilt
  <2>7. at'[p] \notin JoinedPlaces /\ at'[p] \notin WiringPlaces
    BY <2>1 DEF JoinedPlaces, WiringPlaces
  <2> QED
    BY <2>2, <2>6, <2>7 DEF Progress, IsJoined, WiredSoFar
<1> QED
  BY <1>1, <1>2, Returns DEF KindCreate, Created, Wanted, Update

\* What a step of the creation keeps that changes nothing but places and networks.
LEMMA BuiltKept ==
  ASSUME TypeOK, NEW p \in Procs, at[p] \in BuiltPlaces, IsBuilt(p), UNCHANGED <<tool, req>>,
         cluster'[req[p].name].state = cluster[req[p].name].state,
         cluster'[req[p].name].minor = cluster[req[p].name].minor,
         \A node \in Nodes : cluster[req[p].name].wired[node] \subseteq cluster'[req[p].name].wired[node]
  PROVE  IsBuilt(p)'
BY ConfigKept DEF IsBuilt

\* After NetworkConnect the registry is in the network.
LEMMA JoiningNetwork ==
  ASSUME TypeOK, NEW p \in Procs, KnowsNetwork(p), at[p] \in InFlight, UNCHANGED req,
         IF NetworkOf(req[p]) \in mem[p].networks THEN UNCHANGED attached
         ELSE attached' = attached \cup {NetworkOf(req[p])}
  PROVE  NetworkOf(req[p]) \in attached' /\ attached \subseteq attached'
BY DEF KnowsNetwork

LEMMA ConnectProgress ==
  ASSUME TypeOK, NEW p \in Procs, Fits(p), Progress(p), KindConnect(p) \/ MinikubeConnect(p)
  PROVE  Progress(p)'
<1>1. at[p] \in InFlight /\ at[p] \in BuiltPlaces /\ UNCHANGED <<tool, cluster, req>>
  BY DEF KindConnect, MinikubeConnect, InFlight, BuiltPlaces
<1>2. CASE at'[p] \in Over
  BY <1>2, ThroughFits
<1>3. ASSUME NEW x \in {"kindnodes", "mininodes"}, Goto(p, x), UNCHANGED mem,
             IF NetworkOf(req[p]) \in mem[p].networks THEN UNCHANGED attached
             ELSE attached' = attached \cup {NetworkOf(req[p])}
      PROVE  Progress(p)'
  <2>1. NetworkOf(req[p]) \in attached' /\ attached \subseteq attached'
    BY <1>1, <1>3, JoiningNetwork DEF Progress
  <2>2. KnowsNetwork(p)' /\ IsJoined(p)'
    BY <1>1, <1>3, <2>1, NetworkKnown DEF Progress, IsJoined, NetworkOf
  <2>3. IsBuilt(p)'
    BY <1>1, BuiltKept DEF Progress
  <2>4. at'[p] \notin WiringPlaces
    BY <1>3, Goes DEF WiringPlaces
  <2> QED
    BY <2>2, <2>3, <2>4 DEF Progress, WiredSoFar
<1>4. NetworkOf(req[p]) = IF KindConnect(p) THEN "kind" ELSE Target(p)
  BY DEF KindConnect, MinikubeConnect, Fits, KindPlaces, MinikubePlaces, NetworkOf, Target
<1>5. CASE KindConnect(p)
  <2>1. Return(p, "failed") \/ Return(p, "done") \/ (Goto(p, "kindnodes") /\ UNCHANGED mem)
    BY <1>5 DEF KindConnect, NetworkConnect
  <2>2. IF "kind" \in mem[p].networks THEN UNCHANGED attached ELSE attached' = attached \cup {"kind"}
    BY <1>5 DEF KindConnect, NetworkConnect
  <2> QED
    BY <1>2, <1>3, <1>4, <1>5, <2>1, <2>2, Returns
<1>6. CASE MinikubeConnect(p) /\ ~KindConnect(p)
  <2>1. Return(p, "failed") \/ (Goto(p, "mininodes") /\ UNCHANGED mem)
    BY <1>6 DEF MinikubeConnect, NetworkConnect
  <2>2. \/ Return(p, "failed")
        \/ IF Target(p) \in mem[p].networks THEN UNCHANGED attached ELSE attached' = attached \cup {Target(p)}
    BY <1>6 DEF MinikubeConnect, NetworkConnect
  <2> QED
    BY <1>2, <1>3, <1>4, <1>6, <2>1, <2>2, Returns
<1> QED
  BY <1>5, <1>6

\* minikube writes the mirror of the registry's name for every node.
LEMMA MinikubeCreateProgress ==
  ASSUME TypeOK, NEW p \in Procs, Fits(p), Progress(p), MinikubeCreate(p)
  PROVE  Progress(p)'
<1> DEFINE n == Target(p)
           c == Started(n, TRUE)
<1>1. CASE at'[p] \in Over
  BY <1>1, ThroughFits
<1>2. CASE Goto(p, "miniconnect") /\ UNCHANGED mem /\ req[p].registry /\ Update(n, Started(n, req[p].registry))
  <2>1. at[p] \in InFlight /\ UNCHANGED <<tool, req, attached>> /\ at'[p] = "miniconnect"
    BY <1>2, Goes DEF MinikubeCreate, InFlight
  <2>2. KnowsNetwork(p)'
    BY <1>2, <2>1, NetworkKnown DEF Progress
  <2>3. c.state = "up" /\ \A node \in Nodes : "network" \in c.wired[node]
    BY RequestType, ClusterType DEF Started, Clusters
  <2>4. req[p].registry = TRUE
    BY <1>2, RequestType
  <2>5. cluster'[n] = c
    BY <1>2, <2>4, RequestType DEF Update, TypeOK
  <2> HIDE DEF c
  <2>6. req[p].product = "minikube" /\ n = req[p].name
    BY DEF MinikubeCreate, Fits, MinikubePlaces, Target
  <2>7. IsBuilt(p)'
    BY <2>1, <2>3, <2>5, <2>6 DEF IsBuilt
  <2>8. at'[p] \notin JoinedPlaces /\ at'[p] \notin WiringPlaces
    BY <2>1 DEF JoinedPlaces, WiringPlaces
  <2> QED
    BY <2>2, <2>7, <2>8 DEF Progress, IsJoined, WiredSoFar
<1> QED
  BY <1>1, <1>2, Returns DEF MinikubeCreate, Created, Wanted

(***************************************************************************)
(* A step of the creation while its nodes are wired.                        *)
(***************************************************************************)

\* Such a step keeps everything but what the nodes are wired to.
LEMMA WiringStep ==
  ASSUME TypeOK, NEW p \in Procs, Progress(p), at[p] \in JoinedPlaces, at'[p] \in WiringPlaces,
         UNCHANGED <<tool, attached, req>>, mem'[p].networks = mem[p].networks,
         cluster'[req[p].name].state = cluster[req[p].name].state,
         cluster'[req[p].name].minor = cluster[req[p].name].minor,
         \A node \in Nodes : cluster[req[p].name].wired[node] \subseteq cluster'[req[p].name].wired[node],
         WiredSoFar(p)'
  PROVE  Progress(p)'
<1>1. at[p] \in BuiltPlaces /\ at[p] \in InFlight
  BY DEF BuiltPlaces, JoinedPlaces, WiringPlaces, InFlight
<1>2. KnowsNetwork(p)'
  BY <1>1, NetworkKnown DEF Progress
<1>3. IsBuilt(p)'
  BY <1>1, BuiltKept DEF Progress
<1>4. IsJoined(p)'
  BY DEF Progress, IsJoined, NetworkOf
<1> QED
  BY <1>2, <1>3, <1>4 DEF Progress

\* The nodes that are listed are all that run containers.
LEMMA ListedNodes ==
  ASSUME TypeOK, NEW p \in Procs, Fits(p), Progress(p), ListNodes(p) \/ MinikubeNodes(p)
  PROVE  Progress(p)'
<1>1. CASE at'[p] \in Over
  BY <1>1, ThroughFits
<1>2. ASSUME NEW S \in SUBSET Nodes, mem' = [mem EXCEPT ![p].todo = S], Workers(req[p].product) \subseteq S,
             NEW x \in {"patch", "sed"}, Goto(p, x)
      PROVE  Progress(p)'
  <2>1. at[p] \in JoinedPlaces /\ UNCHANGED <<tool, cluster, attached, req>>
    BY DEF ListNodes, MinikubeNodes, JoinedPlaces
  <2>2. at'[p] \in WiringPlaces
    BY <1>2, Goes DEF WiringPlaces
  <2>3. mem'[p].todo = S /\ mem'[p].networks = mem[p].networks
    <3>1. mem'[p] = [mem[p] EXCEPT !.todo = S]
      BY <1>2 DEF TypeOK
    <3> QED
      BY <3>1, MemoryType DEF Memories
  <2>4. \A node \in Workers(req[p].product) : node \in mem'[p].todo
    BY <1>2, <2>3
  <2>5. Workers(req[p].product)' = Workers(req[p].product)
    BY <2>1 DEF Workers
  <2>6. WiredSoFar(p)'
    BY <2>4, <2>5 DEF WiredSoFar
  <2> QED
    BY <2>1, <2>2, <2>3, <2>6, WiringStep
<1>3. CASE ListNodes(p)
  <2>1. req[p].product = "kind" /\ at[p] \in BuiltPlaces
    BY <1>3 DEF ListNodes, Fits, KindPlaces, BuiltPlaces, JoinedPlaces
  <2>2. Exists(Target(p))
    BY <2>1 DEF Progress, IsBuilt, Exists, Target
  <2>3. KindNodes(Target(p)) \in SUBSET Nodes /\ Workers(req[p].product) \subseteq KindNodes(Target(p))
    BY <2>1, <2>2 DEF KindNodes, NodesOf, Nodes, Workers
  <2> QED
    BY <1>2, <1>3, <2>3 DEF ListNodes
<1>4. CASE MinikubeNodes(p) /\ Goto(p, IF MinikubeAPI = "V2" THEN "patch" ELSE "sed")
                            /\ mem' = [mem EXCEPT ![p].todo = NodesOf("minikube")]
  <2>1. req[p].product = "minikube"
    BY <1>4 DEF MinikubeNodes, Fits, MinikubePlaces
  <2>2. NodesOf("minikube") \in SUBSET Nodes /\ Workers(req[p].product) \subseteq NodesOf("minikube")
    BY <2>1 DEF NodesOf, Nodes, Workers
  <2> QED
    BY <1>2, <1>4, <2>2
<1> QED
  BY <1>1, <1>3, <1>4, Returns DEF MinikubeNodes

\* A reference written for one node, which joins those that it has.
LEMMA Wired ==
  ASSUME TypeOK, NEW p \in Procs, NEW node \in Nodes \cup {""}, NEW ref, Wire(Target(p), node, ref)
  PROVE  LET old == cluster[req[p].name]  new == cluster'[req[p].name] IN
         /\ new.state = old.state /\ new.minor = old.minor /\ new.sed = old.sed
         /\ \A m \in Nodes : old.wired[m] \subseteq new.wired[m]
         /\ node \in Nodes => ref \in new.wired[node]
<1> DEFINE old == cluster[req[p].name]
           c == [old EXCEPT !.wired[node] = @ \cup {ref}]
<1>1. cluster'[req[p].name] = c
  BY RequestType DEF Wire, TypeOK
<1>2. old \in Clusters /\ old.wired \in [Nodes -> SUBSET Refs]
  BY RequestType, ClusterType
<1>3. c.wired = [old.wired EXCEPT ![node] = @ \cup {ref}]
  BY <1>2 DEF Clusters
<1>4. c.state = old.state /\ c.minor = old.minor /\ c.sed = old.sed
  BY <1>2 DEF Clusters
<1> HIDE DEF c
<1> QED
  BY <1>1, <1>2, <1>3, <1>4

LEMMA WorkersType == \A product : Workers(product) \subseteq Nodes
BY DEF Workers, NodesOf, Nodes

LEMMA PatchLocalhostProgress ==
  ASSUME TypeOK, NEW p \in Procs, Progress(p), PatchLocalhost(p)
  PROVE  Progress(p)'
<1>1. CASE at'[p] \in Over
  BY <1>1, ThroughFits
<1>2. ASSUME NEW node \in mem[p].todo, Wire(Target(p), node, "localhost"), Goto(p, "patchnet"),
             mem' = [mem EXCEPT ![p].node = node, ![p].todo = @ \ {node}]
      PROVE  Progress(p)'
  <2>1. at[p] = "patch" /\ at'[p] = "patchnet" /\ UNCHANGED <<tool, attached, req>>
    BY <1>2, Goes DEF PatchLocalhost
  <2>2. at[p] \in JoinedPlaces /\ at[p] \in WiringPlaces /\ at'[p] \in WiringPlaces
    BY <2>1 DEF JoinedPlaces, WiringPlaces
  <2>3. node \in Nodes
    BY MemoryType
  <2>4. mem'[p].node = node /\ mem'[p].todo = mem[p].todo \ {node} /\ mem'[p].networks = mem[p].networks
    BY <1>2, <2>3 DEF TypeOK
  <2>5. WiredSoFar(p)'
    BY <1>2, <2>1, <2>2, <2>3, <2>4, Wired, WorkersType DEF Progress, WiredSoFar
  <2> QED
    BY <1>2, <2>1, <2>2, <2>3, <2>4, <2>5, Wired, WiringStep
<1> QED
  BY <1>1, <1>2, Returns DEF PatchLocalhost

LEMMA PatchNetworkProgress ==
  ASSUME TypeOK, NEW p \in Procs, Progress(p), PatchNetwork(p)
  PROVE  Progress(p)'
<1>1. CASE at'[p] \in Over
  BY <1>1, ThroughFits
<1>2. CASE Wire(Target(p), mem[p].node, "network") /\ Goto(p, "patch") /\ UNCHANGED mem
  <2>1. at[p] = "patchnet" /\ at'[p] = "patch" /\ UNCHANGED <<tool, attached, req>>
    BY <1>2, Goes DEF PatchNetwork
  <2>2. at[p] \in JoinedPlaces /\ at[p] \in WiringPlaces /\ at'[p] \in WiringPlaces
    BY <2>1 DEF JoinedPlaces, WiringPlaces
  <2>3. mem[p].node \in Nodes \cup {""}
    BY MemoryType
  <2> DEFINE old == cluster[req[p].name]
             new == cluster'[req[p].name]
  <2>4. /\ \A m \in Nodes : old.wired[m] \subseteq new.wired[m]
        /\ mem[p].node \in Nodes => "network" \in new.wired[mem[p].node]
    BY <1>2, <2>3, Wired
  <2>5. \A m \in Workers(req[p].product) :
          m \in mem[p].todo \/ LocalRefs \subseteq old.wired[m] \/ (m = mem[p].node /\ "localhost" \in old.wired[m])
    BY <2>1, <2>2 DEF Progress, WiredSoFar
  <2> HIDE DEF old, new
  <2>6. \A m \in Workers(req[p].product) : m \in mem[p].todo \/ LocalRefs \subseteq new.wired[m]
    BY <2>4, <2>5, WorkersType DEF LocalRefs
  <2>7. WiredSoFar(p)'
    BY <1>2, <2>1, <2>6 DEF WiredSoFar, Workers, new
  <2> QED
    BY <1>2, <2>1, <2>2, <2>3, <2>7, Wired, WiringStep
<1> QED
  BY <1>1, <1>2, Returns DEF PatchNetwork

LEMMA SedProgress ==
  ASSUME TypeOK, NEW p \in Procs, Progress(p), Sed(p)
  PROVE  Progress(p)'
<1>1. CASE at'[p] \in Over
  BY <1>1, ThroughFits
<1>2. ASSUME NEW node \in mem[p].todo, cluster' = [cluster EXCEPT ![Target(p)].sed = @ \cup {node}],
             Goto(p, "restart"), mem' = [mem EXCEPT ![p].node = node, ![p].todo = @ \ {node}]
      PROVE  Progress(p)'
  <2> DEFINE old == cluster[req[p].name]
             new == cluster'[req[p].name]
  <2>1. at[p] = "sed" /\ at'[p] = "restart" /\ UNCHANGED <<tool, attached, req>>
    BY <1>2, Goes DEF Sed
  <2>2. at[p] \in JoinedPlaces /\ at[p] \in WiringPlaces /\ at'[p] \in WiringPlaces
    BY <2>1 DEF JoinedPlaces, WiringPlaces
  <2>3. new = [old EXCEPT !.sed = @ \cup {node}]
    BY <1>2, RequestType DEF TypeOK
  <2>4. new.state = old.state /\ new.minor = old.minor /\ new.wired = old.wired /\ node \in new.sed
    BY <2>3, RequestType, ClusterType DEF Clusters
  <2>5. mem'[p].node = node /\ mem'[p].todo = mem[p].todo \ {node} /\ mem'[p].networks = mem[p].networks
    <3>1. mem'[p] = [mem[p] EXCEPT !.node = node, !.todo = @ \ {node}]
      BY <1>2 DEF TypeOK
    <3> QED
      BY <3>1, MemoryType DEF Memories
  <2>6. \A m \in Workers(req[p].product) : m \in mem[p].todo \/ LocalRefs \subseteq old.wired[m]
    BY <2>1, <2>2 DEF Progress, WiredSoFar
  <2>7. \A m \in Workers(req[p].product) :
          m \in mem'[p].todo \/ LocalRefs \subseteq new.wired[m] \/ (m = mem'[p].node /\ m \in new.sed)
    BY <2>4, <2>5, <2>6
  <2>8. WiredSoFar(p)'
    BY <2>1, <2>7 DEF WiredSoFar, Workers
  <2> QED
    BY <2>1, <2>2, <2>4, <2>5, <2>8, WiringStep
<1> QED
  BY <1>1, <1>2, Returns DEF Sed

LEMMA RestartProgress ==
  ASSUME TypeOK, NEW p \in Procs, Fits(p), Progress(p), RestartContainerd(p)
  PROVE  Progress(p)'
<1> DEFINE n == Target(p)
           node == mem[p].node
           old == cluster[n]
           S == IF node \in old.sed THEN {"localhost"} ELSE {}
           c == [old EXCEPT !.sed = @ \ {node}, !.wired[node] = @ \cup S]
<1>1. CASE at'[p] \in Over
  BY <1>1, ThroughFits
<1>2. CASE cluster' = [cluster EXCEPT ![n] = c] /\ Goto(p, "sed") /\ UNCHANGED mem
  <2>1. at[p] = "restart" /\ at'[p] = "sed" /\ UNCHANGED <<tool, attached, req>> /\ n = req[p].name
    BY <1>2, Goes DEF RestartContainerd, Target
  <2>2. at[p] \in JoinedPlaces /\ at[p] \in WiringPlaces /\ at'[p] \in WiringPlaces /\ at[p] \in BuiltPlaces
    BY <2>1 DEF JoinedPlaces, WiringPlaces, BuiltPlaces
  <2>3. old \in Clusters /\ old.wired \in [Nodes -> SUBSET Refs]
    BY RequestType, ClusterType
  <2>4. cluster'[n] = c
    BY <1>2, RequestType DEF TypeOK
  <2>5. c.state = old.state /\ c.minor = old.minor /\ c.wired = [old.wired EXCEPT ![node] = @ \cup S]
    BY <2>3 DEF Clusters
  <2>6. \A m \in Nodes : old.wired[m] \subseteq cluster'[n].wired[m]
    <3> HIDE DEF c, S
    <3> QED
      BY <2>3, <2>4, <2>5
  <2>7. node \in Nodes /\ node \in old.sed => "localhost" \in cluster'[n].wired[node]
    <3>1. node \in old.sed => "localhost" \in S
      OBVIOUS
    <3> HIDE DEF c, S
    <3> QED
      BY <2>3, <2>4, <2>5, <3>1
  <2>8. \A m \in Nodes : "network" \in old.wired[m]
    BY <2>1, <2>2 DEF Progress, IsBuilt, Fits, MinikubePlaces
  <2> HIDE DEF c, S
  <2>9. WiredSoFar(p)'
    BY <1>2, <2>1, <2>2, <2>6, <2>7, <2>8, WorkersType DEF Progress, WiredSoFar, LocalRefs
  <2> QED
    BY <1>2, <2>1, <2>2, <2>4, <2>5, <2>6, <2>9, WiringStep
<1> QED
  BY <1>1, <1>2, Returns DEF RestartContainerd

\* Every step of a creation, and every fault of one.
LEMMA StepProgress ==
  ASSUME TypeOK, NEW p \in Procs, Creates(p), Fits(p), Progress(p), Step(p) \/ Fault(p)
  PROVE  Progress(p)'
<1>1. CASE K3dCreate(p) \/ Fail(p) \/ FailHalfway(p)
  <2>1. \E x \in {"done", "failed", "broken"} : Return(p, x)
    BY <1>1 DEF K3dCreate, Fail, FailHalfway
  <2> QED
    BY <2>1, Returns, ThroughFits
<1>2. CASE Status(p) \/ StartStopped(p) \/ Delete(p)
  BY <1>2 DEF Status, StartStopped, Delete, Fits
<1>3. CASE Begin(p)
  BY <1>3, BeginProgress
<1>4. CASE \/ ClusterExists(p) \/ DeleteOrphan(p) \/ GetNodeImage(p)
           \/ K3dCheck(p) \/ K3dDeleteOrphan(p) \/ OrphanStays(p) \/ MinikubeVersion(p)
  BY <1>4, CheckProgress
<1>5. CASE EnsureRegistryDisconnected(p) \/ KindCreate(p) \/ MinikubeCreate(p) \/ KindConnect(p) \/ MinikubeConnect(p)
  BY <1>5, DisconnectProgress, KindCreateProgress, MinikubeCreateProgress, ConnectProgress
<1>6. CASE ListNodes(p) \/ MinikubeNodes(p) \/ PatchLocalhost(p) \/ PatchNetwork(p) \/ Sed(p) \/ RestartContainerd(p)
  BY <1>6, ListedNodes, PatchLocalhostProgress, PatchNetworkProgress, SedProgress, RestartProgress
<1> QED
  BY <1>1, <1>2, <1>3, <1>4, <1>5, <1>6 DEF Step, Fault, KindStep, K3dStep, MinikubeStep

(***************************************************************************)
(* A step of another process, on another cluster.                           *)
(***************************************************************************)

LEMMA OthersProgress ==
  ASSUME TypeOK, NEW p \in Procs, Progress(p), at'[p] = at[p], mem'[p] = mem[p], UNCHANGED <<tool, req>>,
         NEW n \in Names \ {Target(p)}, attached \ {n} \subseteq attached',
         cluster'[Target(p)] = cluster[Target(p)]
  PROVE  Progress(p)'
<1>1. NetworkOf(req[p]) \in attached => NetworkOf(req[p]) \in attached'
  BY AdminAssumption DEF AdminAssumption, NetworkOf, Target
<1>2. KnowsNetwork(p)'
  BY <1>1 DEF Progress, KnowsNetwork, NetworkOf
<1>3. IsJoined(p)'
  BY <1>1 DEF Progress, IsJoined, NetworkOf
<1>4. IsBuilt(p)'
  BY ConfigKept DEF Progress, IsBuilt, Target
<1>5. WiredSoFar(p)'
  BY DEF Progress, WiredSoFar, Target
<1> QED
  BY <1>2, <1>3, <1>4, <1>5 DEF Progress

\* A process that is at no place where it works promises nothing.
LEMMA IdleProgress ==
  ASSUME TypeOK, NEW p \in Procs, at'[p] = at[p], at[p] \notin InFlight
  PROVE  Progress(p)'
BY DEF Progress, KnowsNetwork, IsBuilt, IsJoined, WiredSoFar, InFlight, WiringPlaces, JoinedPlaces, BuiltPlaces

LEMMA OthersFit ==
  ASSUME NEW p \in Procs, Fits(p), at'[p] = at[p], UNCHANGED req
  PROVE  Fits(p)'
BY DEF Fits

\* What an action that is not p's does to p's history: p is untouched only if it
\* is not at work, or the action is on another cluster.
LEMMA OthersInterrupt ==
  ASSUME TypeOK, NEW p \in Procs, NEW n, NEW by, p \notin by, Interrupt(n, by), untouched'[p], at'[p] = at[p]
  PROVE  at[p] \notin InFlight \/ (Target(p) # n /\ untouched[p])
BY DEF Interrupt

\* A creation keeps its part of the invariant whatever the others do.
LEMMA OthersKeepIInv ==
  ASSUME TypeOK, NEW p \in Procs, Fits(p), untouched[p] => Progress(p),
         NEW n \in Names, NEW by, p \notin by, Interrupt(n, by),
         at'[p] = at[p], mem'[p] = mem[p], UNCHANGED <<tool, req>>, attached \ {n} \subseteq attached',
         \A m \in Names \ {n} : cluster'[m] = cluster[m]
  PROVE  Fits(p)' /\ (untouched'[p] => Progress(p)')
<1>1. Fits(p)'
  BY OthersFit
<1>2. ASSUME untouched'[p] PROVE Progress(p)'
  <2>1. CASE at[p] \notin InFlight
    BY <2>1, IdleProgress
  <2>2. CASE Target(p) # n /\ untouched[p]
    BY <2>2, OthersProgress, RequestType
  <2> QED
    BY <1>2, <2>1, <2>2, OthersInterrupt
<1> QED
  BY <1>1, <1>2

LEMMA InitIInv == Init => IInv
<1> SUFFICES ASSUME Init PROVE IInv
  OBVIOUS
<1>1. ASSUME NEW p \in Procs PROVE at[p] = "idle"
  BY DEF Init
<1>2. ASSUME NEW p \in Procs PROVE Fits(p) /\ Progress(p)
  BY <1>1 DEF Fits, Progress, KnowsNetwork, IsBuilt, IsJoined, WiredSoFar, Over, InFlight, KindPlaces, K3dPlaces,
              MinikubePlaces, WiringPlaces, JoinedPlaces, BuiltPlaces
<1> QED
  BY <1>2, InitTypeOK DEF IInv

LEMMA StepIInv == IInv /\ [Next]_vars => IInv'
<1> SUFFICES ASSUME IInv, [Next]_vars PROVE IInv'
  OBVIOUS
<1>0. TypeOK
  BY DEF IInv
<1>1. TypeOK'
  BY <1>0, StepTypeOK
<1> SUFFICES ASSUME NEW p \in Procs, Creates(p)' PROVE (Fits(p) /\ (untouched[p] => Progress(p)))'
  BY <1>1 DEF IInv
<1>2. req' = req
  BY <1>0, NextMoves DEF Moves, Stop, vars
<1>3. Creates(p) /\ Fits(p) /\ (untouched[p] => Progress(p))
  BY <1>2 DEF IInv, Creates
<1>4. ASSUME NEW q \in Procs, Step(q) \/ Fault(q), Moves(q), NEW by, by \subseteq {q}, Interrupt(Target(q), by)
      PROVE  (Fits(p) /\ (untouched[p] => Progress(p)))'
  <2>1. CASE q # p
    <3>1. at'[p] = at[p] /\ mem'[p] = mem[p] /\ UNCHANGED <<tool, req>>
      BY <1>4, <2>1 DEF Moves, GoesOn, Remembers
    <3>2. attached \ {Target(q)} \subseteq attached' /\ \A m \in Names \ {Target(q)} : cluster'[m] = cluster[m]
      BY <1>4 DEF Moves, Connects, KeepsOthers
    <3>3. Target(q) \in Names /\ p \notin by
      BY <1>0, <1>4, <2>1, RequestType
    <3> QED
      BY <1>0, <1>3, <1>4, <3>1, <3>2, <3>3, OthersKeepIInv
  <2>2. CASE q = p
    <3>1. Fits(p)'
      BY <1>0, <1>3, <1>4, <2>2, StepFits
    <3>2. CASE at'[p] \in Over
      BY <3>2, ThroughFits
    <3>3. CASE at'[p] \in InFlight
      <4>1. untouched'[p] => untouched[p]
        BY <1>4, <3>3 DEF Interrupt
      <4> QED
        BY <1>0, <1>3, <1>4, <2>2, <3>1, <4>1, StepProgress
    <3>4. at'[p] \in InFlight \cup Over
      BY <1>4, <2>2 DEF Moves, GoesOn
    <3> QED
      BY <3>2, <3>3, <3>4
  <2> QED
    BY <2>1, <2>2
<1>5. ASSUME NEW n \in Names, Stop(n), Interrupt(n, {}) PROVE (Fits(p) /\ (untouched[p] => Progress(p)))'
  <2>1. UNCHANGED <<tool, attached, req, at, mem>> /\ \A m \in Names \ {n} : cluster'[m] = cluster[m]
    BY <1>0, <1>5 DEF Stop, TypeOK
  <2> QED
    BY <1>0, <1>3, <1>5, <2>1, OthersKeepIInv
<1>6. CASE UNCHANGED vars
  BY <1>3, <1>6 DEF vars, Fits, Progress, KnowsNetwork, IsBuilt, IsJoined, WiredSoFar, NetworkOf, KindClusterConfig,
                    HasConfigPath, KindAPI
<1> QED
  BY <1>0, <1>4, <1>5, <1>6, NextMoves

\* The inductive invariant.
THEOREM IInvHolds == Spec => []IInv
BY InitIInv, StepIInv, PTL DEF Spec

(***************************************************************************)
(* How a creation comes to report success.                                  *)
(***************************************************************************)

\* What CreatedIsWired promises of the step in which p ends.
WiredNow(p) ==
  LET r == Wanted(p)  c == cluster'[r.name] IN
  /\ c.state = "up"
  /\ r.registry /\ r.product # "k3d" => Pullable(r.name, r)'
  /\ r.auth # "none" => \A node \in Workers(r.product) : "upstream" \in c.wired[node]
  /\ r.product = "kind" /\ r.minor # 0 => c.minor = r.minor

\* A cluster that is built, whose network the registry is in, and whose nodes are
\* all wired is what was asked for.
LEMMA BuiltAndWired ==
  ASSUME TypeOK, NEW p \in Procs, Fits(p), Progress(p), at[p] \in BuiltPlaces, UNCHANGED cluster,
         NetworkOf(req[p]) \in attached', UNCHANGED req,
         \A node \in Workers(req[p].product) : LocalRefs \subseteq cluster[req[p].name].wired[node]
  PROVE  WiredNow(p)
<1> DEFINE r == req[p]
           c == cluster[r.name]
<1>1. c.state = "up" /\ (r.product = "kind" /\ r.minor # 0 => c.minor = r.minor)
  BY DEF Progress, IsBuilt
<1>2. Pullable(r.name, r)'
  BY DEF Pullable, LocalRegistryHosting, NetworkOf, LocalRefs, Workers, NodesOf
<1>3. r.auth # "none" => \A node \in Workers(r.product) : "upstream" \in c.wired[node]
  <2>1. at[p] \notin {"idle", "k3dcheck", "version"} \cup Over
    BY DEF BuiltPlaces, JoinedPlaces, WiringPlaces, Over
  <2>2. r.auth # "none" => r.product = "kind" /\ "upstream" \in KindClusterConfig(r)
    BY <2>1 DEF Fits, KindClusterConfig
  <2> QED
    BY <2>2, WorkersType DEF Progress, IsBuilt
<1> QED
  BY <1>1, <1>2, <1>3 DEF WiredNow, Wanted

LEMMA KindCreateDone ==
  ASSUME TypeOK, NEW p \in Procs, KindCreate(p), at'[p] = "done"
  PROVE  WiredNow(p)
<1> DEFINE r == req[p]
           c == [NoCluster EXCEPT !.state = "up", !.minor = IF r.minor = 0 THEN KindDefault ELSE r.minor,
                                  !.wired = [m \in Nodes |-> KindClusterConfig(r)]]
<1>1. ~r.registry /\ cluster' = [cluster EXCEPT ![r.name] = c]
  BY Goes, Returns DEF KindCreate, Created, Wanted, Update
<1>2. cluster'[r.name] = c
  BY <1>1, RequestType DEF TypeOK
<1>3. c.state = "up" /\ (r.minor # 0 => c.minor = r.minor) /\ c.wired = [m \in Nodes |-> KindClusterConfig(r)]
  BY DEF NoCluster
<1> HIDE DEF c
<1>4. r.auth # "none" => "upstream" \in KindClusterConfig(r)
  BY DEF KindClusterConfig
<1> QED
  BY <1>1, <1>2, <1>3, <1>4, WorkersType DEF WiredNow, Wanted

LEMMA K3dCreateDone ==
  ASSUME TypeOK, NEW p \in Procs, Fits(p), K3dCreate(p), at'[p] = "done"
  PROVE  WiredNow(p)
<1>1. req[p].product = "k3d" /\ req[p].auth = "none"
  BY DEF K3dCreate, Fits, K3dPlaces, Over
<1> DEFINE r == req[p]
           c == [NoCluster EXCEPT !.state = "up", !.format = K3dClusterConfig(r),
                                  !.wired = [m \in Nodes |-> IF r.registry THEN LocalRefs ELSE {}]]
<1>2. cluster' = [cluster EXCEPT ![r.name] = c]
  BY Returns DEF K3dCreate, Wanted, Update
<1>3. cluster'[r.name] = c
  BY <1>2, RequestType DEF TypeOK
<1>4. c.state = "up"
  BY DEF NoCluster
<1> HIDE DEF c
<1> QED
  BY <1>1, <1>3, <1>4 DEF WiredNow, Wanted

LEMMA MinikubeCreateDone ==
  ASSUME TypeOK, NEW p \in Procs, Fits(p), MinikubeCreate(p), at'[p] = "done"
  PROVE  WiredNow(p)
<1>1. req[p].product = "minikube" /\ req[p].auth = "none"
  BY DEF MinikubeCreate, Fits, MinikubePlaces, Over
<1>2. ~req[p].registry /\ Update(Target(p), Started(Target(p), req[p].registry))
  BY Goes, Returns DEF MinikubeCreate, Created, Wanted
<1>3. Started(Target(p), req[p].registry).state = "up"
  BY RequestType, ClusterType DEF Started, Clusters
<1>4. cluster'[Target(p)].state = "up"
  BY <1>2, <1>3, RequestType DEF Update, TypeOK
<1> QED
  BY <1>1, <1>2, <1>4 DEF WiredNow, Wanted, Target

LEMMA KindConnectDone ==
  ASSUME TypeOK, NEW p \in Procs, Fits(p), Progress(p), KindConnect(p), at'[p] = "done"
  PROVE  WiredNow(p)
<1>1. at[p] \in BuiltPlaces /\ at[p] \in InFlight /\ UNCHANGED <<cluster, req>>
  BY DEF KindConnect, BuiltPlaces, InFlight
<1>2. req[p].product = "kind" /\ req[p].registry
  BY <1>1 DEF KindConnect, Fits, KindPlaces
<1>3. ~HasConfigPath(req[p])
  BY Goes, Returns DEF KindConnect, NetworkConnect, Wanted
<1>4. IF NetworkOf(req[p]) \in mem[p].networks THEN UNCHANGED attached
      ELSE attached' = attached \cup {NetworkOf(req[p])}
  BY <1>2 DEF KindConnect, NetworkConnect, NetworkOf
<1>5. NetworkOf(req[p]) \in attached'
  BY <1>1, <1>4, JoiningNetwork DEF Progress
<1>6. LocalRefs \subseteq KindClusterConfig(req[p])
  BY <1>2, <1>3 DEF KindClusterConfig
<1>7. \A node \in Workers(req[p].product) : LocalRefs \subseteq cluster[req[p].name].wired[node]
  BY <1>1, <1>2, <1>6, WorkersType DEF Progress, IsBuilt
<1> QED
  BY <1>1, <1>5, <1>7, BuiltAndWired

LEMMA WiringDone ==
  ASSUME TypeOK, NEW p \in Procs, Fits(p), Progress(p), PatchLocalhost(p) \/ Sed(p), at'[p] = "done"
  PROVE  WiredNow(p)
<1>1. at[p] \in {"patch", "sed"} /\ UNCHANGED <<attached, req>>
  BY DEF PatchLocalhost, Sed
<1>2. mem[p].todo = {} /\ UNCHANGED cluster
  BY Goes, Returns DEF PatchLocalhost, Sed
<1>3. at[p] \in WiringPlaces /\ at[p] \in JoinedPlaces /\ at[p] \in BuiltPlaces
  BY <1>1 DEF WiringPlaces, JoinedPlaces, BuiltPlaces
<1>4. \A node \in Workers(req[p].product) : LocalRefs \subseteq cluster[req[p].name].wired[node]
  BY <1>1, <1>2, <1>3 DEF Progress, WiredSoFar
<1>5. NetworkOf(req[p]) \in attached'
  BY <1>1, <1>3 DEF Progress, IsJoined
<1> QED
  BY <1>1, <1>2, <1>3, <1>4, <1>5, BuiltAndWired

\* The other steps do not end well.
LEMMA DoneSteps ==
  ASSUME TypeOK, NEW p \in Procs, Creates(p), Fits(p), Step(p) \/ Fault(p), at'[p] = "done"
  PROVE  \/ KindCreate(p) \/ K3dCreate(p) \/ MinikubeCreate(p)
         \/ KindConnect(p) \/ PatchLocalhost(p) \/ Sed(p)
<1>1. CASE Status(p) \/ StartStopped(p) \/ Delete(p)
  BY <1>1 DEF Status, StartStopped, Delete, Fits
<1>2. CASE Begin(p)
  <2>1. Wanted(p).product \in {"kind", "k3d", "minikube"} /\ Wanted(p).op = "create"
    BY RequestType DEF Wanted, Creates
  <2> QED
    BY <1>2, <2>1, Goes DEF Begin
<1>3. CASE Fault(p)
  BY <1>3, Goes, Returns DEF Fault, Fail, FailHalfway, OrphanStays
<1>4. CASE \/ ClusterExists(p) \/ DeleteOrphan(p) \/ GetNodeImage(p) \/ K3dCheck(p) \/ K3dDeleteOrphan(p)
           \/ MinikubeVersion(p) \/ EnsureRegistryDisconnected(p)
  BY <1>4, Goes, Returns DEF ClusterExists, DeleteOrphan, GetNodeImage, K3dCheck, K3dDeleteOrphan, MinikubeVersion,
                             EnsureRegistryDisconnected
<1>5. CASE ListNodes(p) \/ MinikubeConnect(p) \/ MinikubeNodes(p) \/ PatchNetwork(p) \/ RestartContainerd(p)
  BY <1>5, Goes, Returns DEF ListNodes, MinikubeConnect, NetworkConnect, MinikubeNodes, PatchNetwork, RestartContainerd
<1> QED
  BY <1>1, <1>2, <1>3, <1>4, <1>5 DEF Step, KindStep, K3dStep, MinikubeStep

\* When a creation reports success and nobody has touched its cluster, every node
\* of it is wired to the registry, and the registry is in its network.
THEOREM CreatedIsWiredHolds == Spec => CreatedIsWired
<1>1. IInv /\ [Next]_vars
      => [\A p \in Procs : Creates(p) /\ Ends(p, "done") /\ untouched[p] =>
            LET r == Wanted(p)  c == cluster'[r.name] IN
            /\ c.state = "up"
            /\ r.registry /\ r.product # "k3d" => Pullable(r.name, r)'
            /\ r.auth # "none" => \A node \in Workers(r.product) : "upstream" \in c.wired[node]
            /\ r.product = "kind" /\ r.minor # 0 => c.minor = r.minor]_vars
  <2> SUFFICES ASSUME IInv, [Next]_vars, NEW p \in Procs, Creates(p), Ends(p, "done"), untouched[p]
               PROVE  WiredNow(p)
    BY DEF WiredNow
  <2>1. TypeOK /\ Fits(p) /\ Progress(p)
    BY DEF IInv
  <2>2. at'[p] = "done" /\ at[p] # "done"
    BY DEF Ends
  <2>3. Step(p) \/ Fault(p)
    BY <2>1, <2>2, NextMoves DEF Moves, GoesOn, Stop, vars
  <2> QED
    BY <2>1, <2>2, <2>3, DoneSteps, KindCreateDone, K3dCreateDone, MinikubeCreateDone, KindConnectDone, WiringDone
<1> QED
  BY <1>1, IInvHolds, PTL DEF Spec, CreatedIsWired

(***************************************************************************)
(* How a command comes to fail. What is still needed for that: what a        *)
(* creation has cleared away or not touched yet, and, for one that is alone,  *)
(* that it knows which networks the registry is in.                         *)
(***************************************************************************)

\* A cluster in the way has been deleted, or not even been looked at.
Cleared(p) ==
  /\ at[p] \in {"image", "kindcreate", "k3dcreate"} => ~Exists(Target(p))
  /\ at[p] = "k3dcheck" => cluster[Target(p)] = mem[p].was

\* Where the networks matter that were listed at the start.
NetworkPlaces ==
  {"exists", "orphan", "image", "kindcreate", "kindconnect", "version", "disconnect", "minicreate", "miniconnect"}

KnowsNetworks(p) ==
  /\ at[p] \in NetworkPlaces => mem[p].networks = attached
  /\ at[p] = "minicreate" /\ req[p].registry => Target(p) \notin attached

\* A command that creates nothing.
Elsewhere(p) == at[p] \in {"idle", "delete", "status", "startstopped"} \cup Over

\* What is kept for a process.
ReadyInv(p) ==
  /\ ~Creates(p) => Elsewhere(p)
  /\ Creates(p) /\ untouched[p] => Cleared(p)
  /\ alone[p] => untouched[p] /\ KnowsNetworks(p)

FailInv == IInv /\ \A p \in Procs : ReadyInv(p)

\* A command that has not begun, or is through.
LEMMA AtRest ==
  ASSUME NEW p \in Procs, at'[p] \notin InFlight
  PROVE  Cleared(p)' /\ KnowsNetworks(p)'
BY DEF Cleared, KnowsNetworks, NetworkPlaces, InFlight

\* A step of a command that creates nothing.
LEMMA ElsewhereSteps ==
  ASSUME NEW p \in Procs, Elsewhere(p), Step(p)
  PROVE  Begin(p) \/ Status(p) \/ StartStopped(p) \/ Delete(p)
<1>1. CASE KindStep(p) \/ K3dStep(p) \/ PatchLocalhost(p) \/ PatchNetwork(p)
  BY <1>1 DEF Elsewhere, Over, KindStep, K3dStep, PatchLocalhost, PatchNetwork, ClusterExists, DeleteOrphan,
              GetNodeImage, KindCreate, KindConnect, ListNodes, K3dCheck, K3dDeleteOrphan, K3dCreate
<1>2. CASE MinikubeStep(p) /\ ~Status(p) /\ ~StartStopped(p)
  BY <1>2 DEF Elsewhere, Over, MinikubeStep, MinikubeVersion, EnsureRegistryDisconnected, MinikubeCreate,
              MinikubeConnect, MinikubeNodes, Sed, RestartContainerd
<1> QED
  BY <1>1, <1>2 DEF Step, MinikubeStep

LEMMA BeginElsewhere ==
  ASSUME TypeOK, NEW p \in Procs, ~Creates(p), Begin(p)
  PROVE  at'[p] \in {"delete", "status"}
<1>1. Wanted(p).op \in {"delete", "ensure"}
  BY RequestType DEF Wanted, Creates
<1>2. PICK place : /\ place = IF Wanted(p).op = "delete" THEN "delete" ELSE "status"
                   /\ Goto(p, place)
  BY <1>1 DEF Begin
<1> QED
  BY <1>2, Goes

LEMMA StepElsewhere ==
  ASSUME TypeOK, NEW p \in Procs, ~Creates(p), Elsewhere(p), Step(p) \/ Fault(p)
  PROVE  Elsewhere(p)'
<1>1. CASE Begin(p)
  BY <1>1, BeginElsewhere DEF Elsewhere
<1>2. CASE Status(p) \/ StartStopped(p) \/ Delete(p) \/ Fault(p)
  BY <1>2, Goes, Returns DEF Status, StartStopped, Delete, Fault, Fail, FailHalfway, OrphanStays, Elsewhere, Over
<1> QED
  BY <1>1, <1>2, ElsewhereSteps

\* A step of a creation itself, which goes on.
LEMMA StepCleared ==
  ASSUME TypeOK, NEW p \in Procs, Creates(p), Fits(p), Cleared(p), Step(p), at'[p] \in InFlight
  PROVE  Cleared(p)'
<1> DEFINE later == {"image", "kindcreate", "k3dcreate", "k3dcheck"}
<1>0. Target(p)' = Target(p) /\ Target(p) \in Names
  BY RequestType, StepMoves DEF Moves, Target
<1>1. CASE Begin(p)
  <2>1. cluster' = cluster /\ mem'[p].was = cluster[Target(p)]
    BY <1>1, MemoryType DEF Begin, TypeOK
  <2>2. at'[p] \in {"exists", "k3dcheck", "version"}
    BY <1>1, RequestType, Goes DEF Begin, Creates, Wanted
  <2> QED
    BY <1>0, <2>1, <2>2 DEF Cleared
<1>2. CASE ClusterExists(p)
  <2>1. at'[p] = "image" => ~Exists(Target(p))
    BY <1>2, Goes, Returns DEF ClusterExists
  <2>2. at'[p] \in {"orphan", "image", "failed"} /\ cluster' = cluster
    BY <1>2, Goes, Returns DEF ClusterExists
  <2> QED
    BY <1>0, <2>1, <2>2 DEF Cleared, Exists
<1>3. CASE DeleteOrphan(p) \/ K3dDeleteOrphan(p)
  <2>1. cluster'[Target(p)] = NoCluster
    BY <1>0, <1>3 DEF DeleteOrphan, K3dDeleteOrphan, Update, TypeOK
  <2>2. at'[p] \in {"image", "k3dcreate"}
    BY <1>3, Goes DEF DeleteOrphan, K3dDeleteOrphan
  <2> QED
    BY <1>0, <2>1, <2>2 DEF Cleared, Exists, NoCluster
<1>4. CASE GetNodeImage(p)
  <2>1. at[p] = "image" /\ cluster' = cluster /\ at'[p] \in {"kindcreate", "failed"}
    BY <1>4, Goes, Returns DEF GetNodeImage
  <2> QED
    BY <1>0, <2>1 DEF Cleared, Exists
<1>5. CASE K3dCheck(p)
  <2>1. at'[p] \in {"k3dorphan", "failed"}
    BY <1>5, Goes, Returns DEF K3dCheck
  <2> QED
    BY <2>1 DEF Cleared
<1>6. CASE KindCreate(p) \/ K3dCreate(p) \/ KindConnect(p) \/ ListNodes(p) \/ PatchLocalhost(p) \/ PatchNetwork(p)
  <2>1. at'[p] \notin later
    BY <1>6, Goes, Returns DEF KindCreate, K3dCreate, KindConnect, ListNodes, PatchLocalhost, PatchNetwork, Created,
                               NetworkConnect
  <2> QED
    BY <2>1 DEF Cleared
<1>7. CASE MinikubeStep(p) \/ Delete(p)
  <2>1. at'[p] \notin later
    BY <1>7, Goes, Returns DEF MinikubeStep, MinikubeVersion, EnsureRegistryDisconnected, MinikubeCreate, Created,
                               MinikubeConnect, NetworkConnect, MinikubeNodes, Sed, RestartContainerd, Status,
                               StartStopped, Delete
  <2> QED
    BY <2>1 DEF Cleared
<1> QED
  BY <1>1, <1>2, <1>3, <1>4, <1>5, <1>6, <1>7 DEF Step, KindStep, K3dStep

\* Until the registry is connected, the list is changed with the networks.
LEMMA StepKnows ==
  ASSUME TypeOK, NEW p \in Procs, KnowsNetworks(p), Step(p), at'[p] \in InFlight
  PROVE  KnowsNetworks(p)'
<1>0. Target(p)' = Target(p) /\ req' = req
  BY StepMoves DEF Moves, Target
<1>1. CASE Begin(p)
  <2>1. attached' = attached /\ mem'[p].networks = attached
    BY <1>1, MemoryType DEF Begin, TypeOK, Memories
  <2>2. at'[p] # "minicreate"
    BY <1>1, RequestType, Goes DEF Begin, Wanted
  <2> QED
    BY <2>1, <2>2 DEF KnowsNetworks
<1>2. CASE EnsureRegistryDisconnected(p)
  <2>1. at[p] = "disconnect"
    BY <1>2 DEF EnsureRegistryDisconnected
  <2>2. mem[p].networks = attached
    BY <2>1 DEF KnowsNetworks, NetworkPlaces
  <2>3. CASE Return(p, "failed")
    <3>1. at'[p] = "failed"
      BY <2>3, Returns
    <3> QED
      BY <3>1 DEF KnowsNetworks, NetworkPlaces
  <2>4. CASE Target(p) \notin mem[p].networks /\ UNCHANGED <<attached, mem>>
    BY <1>0, <2>2, <2>4 DEF KnowsNetworks
  <2>5. CASE attached' = attached \ {Target(p)} /\ mem' = [mem EXCEPT ![p].networks = @ \ {Target(p)}]
    <3>1. mem'[p].networks = attached'
      BY <2>2, <2>5 DEF TypeOK
    <3> QED
      BY <1>0, <2>5, <3>1 DEF KnowsNetworks
  <2> QED
    BY <1>2, <2>3, <2>4, <2>5 DEF EnsureRegistryDisconnected
<1>3. CASE \/ ClusterExists(p) \/ DeleteOrphan(p) \/ GetNodeImage(p) \/ KindCreate(p)
           \/ MinikubeVersion(p) \/ MinikubeCreate(p)
  <2>1. at[p] \in NetworkPlaces /\ attached' = attached
    BY <1>3 DEF ClusterExists, DeleteOrphan, GetNodeImage, KindCreate, MinikubeVersion, MinikubeCreate, NetworkPlaces
  <2>2. mem' = mem \/ at'[p] \in Over
    BY <1>3, Returns DEF ClusterExists, DeleteOrphan, GetNodeImage, KindCreate, MinikubeVersion, MinikubeCreate, Created
  <2>3. at'[p] = "minicreate" => ~req[p].registry
    BY <1>3, Goes, Returns DEF ClusterExists, DeleteOrphan, GetNodeImage, KindCreate, MinikubeVersion, MinikubeCreate,
                               Created, Wanted
  <2> QED
    BY <1>0, <2>1, <2>2, <2>3, Places DEF KnowsNetworks
<1>4. CASE K3dStep(p) \/ KindConnect(p) \/ ListNodes(p) \/ PatchLocalhost(p) \/ PatchNetwork(p) \/ Delete(p)
  <2>1. at'[p] \notin NetworkPlaces
    BY <1>4, Goes, Returns DEF K3dStep, K3dCheck, K3dDeleteOrphan, K3dCreate, KindConnect, ListNodes, PatchLocalhost,
                               PatchNetwork, NetworkConnect, Delete, NetworkPlaces
  <2> QED
    BY <2>1 DEF KnowsNetworks, NetworkPlaces
<1>5. CASE \/ MinikubeConnect(p) \/ MinikubeNodes(p) \/ Sed(p) \/ RestartContainerd(p) \/ Status(p)
           \/ StartStopped(p)
  <2>1. at'[p] \notin NetworkPlaces
    BY <1>5, Goes, Returns DEF MinikubeConnect, MinikubeNodes, Sed, RestartContainerd, Status, StartStopped,
                               NetworkConnect, NetworkPlaces
  <2> QED
    BY <2>1 DEF KnowsNetworks, NetworkPlaces
<1> QED
  BY <1>1, <1>2, <1>3, <1>4, <1>5 DEF Step, KindStep, MinikubeStep

\* A step of another process, or of an outsider.
LEMMA OthersReady ==
  ASSUME TypeOK, NEW p \in Procs, ReadyInv(p), NEW n \in Names, NEW by, p \notin by, Interrupt(n, by),
         at'[p] = at[p], mem'[p] = mem[p], UNCHANGED req, \A m \in Names \ {n} : cluster'[m] = cluster[m]
  PROVE  ReadyInv(p)'
<1>1. ~Creates(p)' => Elsewhere(p)'
  BY DEF ReadyInv, Creates, Elsewhere
<1>2. ASSUME Creates(p)', untouched'[p] PROVE Cleared(p)'
  <2>1. CASE at[p] \notin InFlight
    BY <2>1, AtRest
  <2>2. CASE Target(p) # n /\ untouched[p]
    BY <1>2, <2>2, RequestType DEF ReadyInv, Creates, Cleared, Exists, Target
  <2> QED
    BY <1>2, <2>1, <2>2, OthersInterrupt
<1>3. ASSUME alone'[p] PROVE untouched'[p] /\ KnowsNetworks(p)'
  <2>1. at'[p] \notin InFlight
    BY <1>3 DEF Interrupt
  <2> QED
    BY <2>1, AtRest DEF Interrupt
<1> QED
  BY <1>1, <1>2, <1>3 DEF ReadyInv

\* A step of the process itself.
LEMMA OwnReady ==
  ASSUME TypeOK, NEW p \in Procs, Creates(p) => Fits(p), ReadyInv(p), Step(p) \/ Fault(p), UNCHANGED req,
         at'[p] \in InFlight => Step(p), NEW by, by = {p} \/ at'[p] \notin InFlight, Interrupt(Target(p), by)
  PROVE  ReadyInv(p)'
<1>1. ~Creates(p)' => Elsewhere(p)'
  BY StepElsewhere DEF ReadyInv, Creates
<1>2. CASE at'[p] \notin InFlight
  <2>1. untouched'[p]
    BY <1>2 DEF Interrupt
  <2> QED
    BY <1>1, <1>2, <2>1, AtRest DEF ReadyInv
<1>3. CASE at'[p] \in InFlight
  <2>1. by = {p} /\ Step(p) /\ (Creates(p)' => Creates(p))
    BY <1>3 DEF Creates
  <2>2. (untouched'[p] <=> untouched[p]) /\ (alone'[p] <=> alone[p])
    BY <1>3, <2>1 DEF Interrupt, TypeOK
  <2>3. Creates(p)' /\ untouched'[p] => Cleared(p)'
    BY <1>3, <2>1, <2>2, StepCleared DEF ReadyInv
  <2>4. alone'[p] => untouched'[p] /\ KnowsNetworks(p)'
    BY <1>3, <2>1, <2>2, StepKnows DEF ReadyInv
  <2> QED
    BY <1>1, <2>3, <2>4 DEF ReadyInv
<1> QED
  BY <1>2, <1>3

LEMMA InitFailInv == Init => FailInv
<1> SUFFICES ASSUME Init PROVE FailInv
  OBVIOUS
<1>1. ASSUME NEW p \in Procs PROVE ReadyInv(p)
  <2>1. at[p] = "idle" /\ untouched[p]
    BY DEF Init
  <2> QED
    BY <2>1 DEF ReadyInv, Elsewhere, Cleared, KnowsNetworks, NetworkPlaces
<1> QED
  BY <1>1, InitIInv DEF FailInv

\* A fault that a creation survives.
LEMMA FaultInterrupts ==
  ASSUME NEW p \in Procs, Interrupt(Target(p), {}), at'[p] \in InFlight
  PROVE  ~untouched'[p] /\ ~alone'[p]
BY DEF Interrupt

LEMMA StepFailInv == FailInv /\ [Next]_vars => FailInv'
<1> SUFFICES ASSUME FailInv, [Next]_vars PROVE FailInv'
  OBVIOUS
<1>0. IInv /\ TypeOK /\ IInv'
  BY StepIInv DEF FailInv, IInv
<1> SUFFICES ASSUME NEW p \in Procs PROVE ReadyInv(p)'
  BY <1>0 DEF FailInv
<1>1. ReadyInv(p) /\ (Creates(p) => Fits(p))
  BY DEF FailInv, IInv
<1>2. ASSUME NEW q \in Procs, Step(q) \/ Fault(q), Moves(q), NEW by, Interrupt(Target(q), by),
             by \subseteq {q}, by = {} => Fault(q), by # {} => Step(q)
      PROVE  ReadyInv(p)'
  <2>1. CASE q # p
    <3>1. at'[p] = at[p] /\ mem'[p] = mem[p] /\ UNCHANGED req
      BY <1>2, <2>1 DEF Moves, GoesOn, Remembers
    <3>2. \A m \in Names \ {Target(q)} : cluster'[m] = cluster[m]
      BY <1>2 DEF Moves, KeepsOthers
    <3>3. Target(q) \in Names /\ p \notin by
      BY <1>0, <1>2, <2>1, RequestType
    <3> QED
      BY <1>0, <1>1, <1>2, <3>1, <3>2, <3>3, OthersReady
  <2>2. CASE q = p
    <3>1. UNCHANGED req
      BY <1>2 DEF Moves
    <3>2. CASE by = {p} \/ at'[p] \notin InFlight
      BY <1>0, <1>1, <1>2, <2>2, <3>1, <3>2, OwnReady
    <3>3. CASE by = {} /\ at'[p] \in InFlight
      <4>1. ~untouched'[p] /\ ~alone'[p]
        BY <1>2, <2>2, <3>3, FaultInterrupts
      <4>2. ~Creates(p)' => Elsewhere(p)'
        BY <1>0, <1>1, <1>2, <2>2, <3>1, StepElsewhere DEF ReadyInv, Creates
      <4> QED
        BY <4>1, <4>2 DEF ReadyInv
    <3> QED
      BY <1>2, <2>2, <3>2, <3>3
  <2> QED
    BY <2>1, <2>2
<1>3. ASSUME NEW n \in Names, Stop(n), Interrupt(n, {}) PROVE ReadyInv(p)'
  <2>1. UNCHANGED <<req, at, mem>> /\ \A m \in Names \ {n} : cluster'[m] = cluster[m]
    BY <1>0, <1>3 DEF Stop, TypeOK
  <2> QED
    BY <1>0, <1>1, <1>3, <2>1, OthersReady
<1>4. ASSUME NEW q \in Procs, Moves(q), \/ Step(q) /\ Interrupt(Target(q), {q})
                                        \/ Fault(q) /\ Interrupt(Target(q), {})
      PROVE  ReadyInv(p)'
  <2>1. CASE Step(q) /\ Interrupt(Target(q), {q})
    BY <1>2, <1>4, <2>1
  <2>2. CASE Fault(q) /\ Interrupt(Target(q), {})
    BY <1>2, <1>4, <2>2
  <2> QED
    BY <1>4, <2>1, <2>2
<1>5. CASE UNCHANGED vars
  BY <1>1, <1>5 DEF vars, ReadyInv, Elsewhere, Cleared, KnowsNetworks, Creates, Exists, Target
<1> QED
  BY <1>0, <1>3, <1>4, <1>5, NextMoves

LEMMA FailInvHolds == Spec => []FailInv
BY InitFailInv, StepFailInv, PTL DEF Spec

\* A process that ends has made a step of its own.
LEMMA FailedStep ==
  ASSUME TypeOK, [Next]_vars, NEW p \in Procs, Ends(p, "failed")
  PROVE  Step(p) /\ at'[p] = "failed"
<1>1. at'[p] = "failed" /\ at[p] # "failed"
  BY DEF Ends
<1>2. Step(p) \/ Fault(p)
  BY <1>1, NextMoves DEF Moves, GoesOn, Stop, vars
<1>3. ~Fault(p)
  BY <1>1, Goes, Returns DEF Fault, Fail, FailHalfway, OrphanStays
<1> QED
  BY <1>1, <1>2, <1>3

\* A k3d creation fails with its cluster untouched, or because k3d cannot read
\* what it gets, and has deleted the cluster before.
LEMMA K3dFails ==
  ASSUME TypeOK, NEW p \in Procs, Fits(p), req[p].product = "k3d", Creates(p), Step(p), at'[p] = "failed"
  PROVE  K3dCheck(p) \/ K3dCreate(p)
<1>1. CASE Begin(p)
  <2>1. Goto(p, "k3dcheck")
    BY <1>1 DEF Begin, Creates, Wanted
  <2> QED
    BY <2>1, Goes
<1>2. CASE KindStep(p)
  BY <1>2 DEF KindStep, ClusterExists, DeleteOrphan, GetNodeImage, KindCreate, KindConnect, ListNodes, Fits, KindPlaces
<1>3. CASE MinikubeStep(p)
  BY <1>3 DEF MinikubeStep, MinikubeVersion, EnsureRegistryDisconnected, MinikubeCreate, MinikubeConnect,
              MinikubeNodes, Sed, RestartContainerd, Status, StartStopped, Fits, MinikubePlaces
<1>4. CASE PatchLocalhost(p) \/ PatchNetwork(p) \/ Delete(p)
  BY <1>4 DEF PatchLocalhost, PatchNetwork, Delete, Fits
<1>5. CASE K3dDeleteOrphan(p)
  BY <1>5, Goes DEF K3dDeleteOrphan
<1> QED
  BY <1>1, <1>2, <1>3, <1>4, <1>5 DEF Step, K3dStep

\* A k3d creation that is refused costs nobody a cluster: on a cluster that nobody
\* else touches it fails before it has deleted anything, or for a v1alpha5 config
\* that it has let through to a k3d that reads none.
THEOREM RefusedIsHarmlessHolds == Spec => RefusedIsHarmless
<1>1. FailInv /\ [Next]_vars
      => [\A p \in Procs :
            /\ Creates(p) /\ Wanted(p).product = "k3d" /\ Ends(p, "failed") /\ untouched[p]
            => \/ cluster'[Target(p)] = mem[p].was
               \/ SlipsThrough(Wanted(p)) /\ ~Exists(Target(p))']_vars
  <2> SUFFICES ASSUME FailInv, [Next]_vars, NEW p \in Procs, Creates(p), Wanted(p).product = "k3d",
                      Ends(p, "failed"), untouched[p]
               PROVE  \/ cluster'[Target(p)] = mem[p].was
                      \/ SlipsThrough(Wanted(p)) /\ ~Exists(Target(p))'
    OBVIOUS
  <2>1. TypeOK /\ Fits(p) /\ Cleared(p)
    BY DEF FailInv, IInv, ReadyInv
  <2>2. Step(p) /\ at'[p] = "failed"
    BY <2>1, FailedStep
  <2>3. CASE K3dCheck(p)
    <3>1. at[p] = "k3dcheck" /\ cluster' = cluster
      BY <2>3 DEF K3dCheck
    <3> QED
      BY <2>1, <3>1 DEF Cleared
  <2>4. CASE K3dCreate(p)
    <3>1. ~Exists(Target(p)) /\ Wanted(p).format # "both"
      BY <2>1, <2>4 DEF K3dCreate, Cleared, Fits, Wanted
    <3>2. ~K3dReads(K3dClusterConfig(Wanted(p))) /\ cluster' = cluster
      <4>1. CASE Return(p, "done")
        BY <2>1, <2>2, <4>1, Returns
      <4>2. CASE ~Return(p, "done")
        BY <2>4, <3>1, <4>2 DEF K3dCreate, Wanted, Target
      <4> QED
        BY <4>1, <4>2
    <3>3. Wanted(p).format \in {"none", "v1alpha4", "v1alpha5", "both"} /\ tool.k3d \in Nat
      BY <2>1, RequestType, AdminAssumption DEF AdminAssumption, TypeOK, Wanted
    <3>4. SlipsThrough(Wanted(p))
      BY <3>1, <3>2, <3>3 DEF SlipsThrough, K3dReads, K3dClusterConfig
    <3>5. Target(p)' = Target(p)
      BY <2>1, <2>2, StepMoves DEF Moves, Target
    <3> QED
      BY <3>1, <3>2, <3>4, <3>5 DEF Exists
  <2> QED
    BY <2>1, <2>2, <2>3, <2>4, K3dFails DEF Wanted
<1> QED
  BY <1>1, FailInvHolds, PTL DEF Spec, RefusedIsHarmless

\* What a creation that is alone may fail for.
Excused(p) ==
  Unsupported(req[p]) \/ (req[p].product = "minikube" /\ ~req[p].registry /\ req[p].name \in attached)

\* The registry can be connected if the process knows the networks it is in.
LEMMA CanConnect ==
  ASSUME NEW p \in Procs, NEW network, mem[p].networks = attached, NEW next, NetworkConnect(p, network, next)
  PROVE  next
BY DEF NetworkConnect

LEMMA KindFails ==
  ASSUME TypeOK, NEW p \in Procs, Fits(p), Cleared(p), KnowsNetworks(p), KindStep(p), at'[p] = "failed"
  PROVE  Excused(p)
<1>1. CASE ClusterExists(p)
  <2>1. req[p].product = "kind"
    BY <1>1 DEF ClusterExists, Fits, KindPlaces
  <2>2. PrefixOf[req[p].name] # "kind"
    BY <1>1, Goes DEF ClusterExists, Target
  <2> QED
    BY <2>1, <2>2 DEF Excused, Unsupported
<1>2. CASE GetNodeImage(p)
  <2>1. req[p].product = "kind"
    BY <1>2 DEF GetNodeImage, Fits, KindPlaces
  <2>2. ~(tool.kind # 0 /\ CanGetNodeImage(tool.kind, req[p].minor) /\ req[p].auth # "bad")
    BY <1>2, Goes DEF GetNodeImage, Wanted
  <2> QED
    BY <2>1, <2>2 DEF Excused, Unsupported
<1>3. CASE KindCreate(p)
  <2>1. ~Exists(req[p].name)
    BY <1>3 DEF KindCreate, Cleared, Target
  <2>2. Created(p, "kindconnect")
    BY <1>3, <2>1 DEF KindCreate, Wanted
  <2> QED
    BY <2>2, Goes, Returns DEF Created
<1>4. CASE KindConnect(p)
  <2>1. mem[p].networks = attached
    BY <1>4 DEF KindConnect, KnowsNetworks, NetworkPlaces
  <2>2. Goto(p, "kindnodes") \/ Return(p, "done")
    BY <1>4, <2>1 DEF KindConnect, NetworkConnect
  <2> QED
    BY <2>2, Goes, Returns
<1>5. CASE DeleteOrphan(p) \/ ListNodes(p)
  BY <1>5, Goes DEF DeleteOrphan, ListNodes
<1> QED
  BY <1>1, <1>2, <1>3, <1>4, <1>5 DEF KindStep

LEMMA K3dStepFails ==
  ASSUME TypeOK, NEW p \in Procs, Fits(p), Cleared(p), K3dStep(p), at'[p] = "failed", ~HasV1Alpha4(req[p])
  PROVE  Excused(p)
<1>1. CASE K3dCheck(p)
  <2>1. req[p].product = "k3d"
    BY <1>1 DEF K3dCheck, Fits, K3dPlaces
  <2>2. req[p].auth # "none" \/ tool.k3d = 0 \/ PrefixOf[req[p].name] # "k3d"
    BY <1>1, Goes DEF K3dCheck, Wanted, K3dRefuses, HasV1Alpha4
  <2> QED
    BY <2>1, <2>2 DEF Excused, Unsupported
<1>2. CASE K3dCreate(p)
  <2>1. req[p].product = "k3d"
    BY <1>2 DEF K3dCreate, Fits, K3dPlaces
  <2>2. ~Exists(req[p].name)
    BY <1>2 DEF K3dCreate, Cleared, Target
  <2>3. ~K3dReads(K3dClusterConfig(req[p]))
    <3>1. ~Return(p, "done")
      BY Returns
    <3> QED
      BY <1>2, <2>2, <3>1 DEF K3dCreate, Wanted
  <2>4. ~K3dReads(req[p].format)
    BY <2>3 DEF K3dReads, K3dClusterConfig
  <2> QED
    BY <2>1, <2>4 DEF Excused, Unsupported
<1>3. CASE K3dDeleteOrphan(p)
  BY <1>3, Goes DEF K3dDeleteOrphan
<1> QED
  BY <1>1, <1>2, <1>3 DEF K3dStep

LEMMA MinikubeFails ==
  ASSUME TypeOK, NEW p \in Procs, Fits(p), KnowsNetworks(p), Progress(p), MinikubeStep(p), at'[p] = "failed"
  PROVE  Excused(p)
<1>1. CASE MinikubeVersion(p)
  <2>1. req[p].product = "minikube"
    BY <1>1 DEF MinikubeVersion, Fits, MinikubePlaces
  <2>2. req[p].auth # "none" \/ tool.minikube = 0
    BY <1>1, Goes DEF MinikubeVersion, Wanted
  <2> QED
    BY <2>1, <2>2 DEF Excused, Unsupported
<1>2. CASE EnsureRegistryDisconnected(p)
  <2>1. mem[p].networks = attached
    BY <1>2 DEF EnsureRegistryDisconnected, KnowsNetworks, NetworkPlaces
  <2> QED
    BY <1>2, <2>1, Goes DEF EnsureRegistryDisconnected
<1>3. CASE MinikubeCreate(p)
  <2>1. req[p].product = "minikube" /\ at[p] = "minicreate"
    BY <1>3 DEF MinikubeCreate, Fits, MinikubePlaces
  <2>2. ~Created(p, "miniconnect")
    BY Goes, Returns DEF Created
  <2>3. (req[p].registry /\ MinikubeAPI = "broken") \/ req[p].name \in attached
    BY <1>3, <2>2 DEF MinikubeCreate, Wanted, MayClash, Target
  <2>4. MinikubeAPI = "broken" => tool.minikube = 126
    BY DEF MinikubeAPI
  <2>5. req[p].registry => req[p].name \notin attached
    BY <2>1 DEF KnowsNetworks, Target
  <2> QED
    BY <2>1, <2>3, <2>4, <2>5 DEF Excused, Unsupported
<1>4. CASE MinikubeConnect(p)
  <2>1. Exists(Target(p))
    BY <1>4 DEF MinikubeConnect, Progress, IsBuilt, BuiltPlaces, Exists, Target
  <2>2. mem[p].networks = attached
    BY <1>4 DEF MinikubeConnect, KnowsNetworks, NetworkPlaces
  <2>3. Goto(p, "mininodes")
    BY <1>4, <2>1, <2>2 DEF MinikubeConnect, NetworkConnect
  <2> QED
    BY <2>3, Goes
<1>5. CASE MinikubeNodes(p)
  <2>1. Exists(Target(p))
    BY <1>5 DEF MinikubeNodes, Progress, IsBuilt, BuiltPlaces, JoinedPlaces, Exists, Target
  <2> QED
    BY <1>5, <2>1, Goes DEF MinikubeNodes
<1>6. CASE Sed(p) \/ RestartContainerd(p)
  <2>1. cluster[Target(p)].state = "up"
    BY <1>6 DEF Sed, RestartContainerd, Progress, IsBuilt, BuiltPlaces, JoinedPlaces, WiringPlaces, Target
  <2> QED
    BY <1>6, <2>1, Goes, Returns DEF Sed, RestartContainerd
<1>7. CASE Status(p) \/ StartStopped(p)
  BY <1>7 DEF Status, StartStopped, Fits
<1> QED
  BY <1>1, <1>2, <1>3, <1>4, <1>5, <1>6, <1>7 DEF MinikubeStep

LEMMA WiringFails ==
  ASSUME TypeOK, NEW p \in Procs, Progress(p), PatchLocalhost(p) \/ PatchNetwork(p)
  PROVE  at'[p] # "failed"
<1>1. Exists(Target(p))
  BY DEF PatchLocalhost, PatchNetwork, Progress, IsBuilt, BuiltPlaces, JoinedPlaces, WiringPlaces, Exists, Target
<1> QED
  BY <1>1, Goes, Returns DEF PatchLocalhost, PatchNetwork

\* What deletes or starts a cluster fails only for its name.
LEMMA ElsewhereFails ==
  ASSUME TypeOK, NEW p \in Procs, ~Creates(p), Elsewhere(p), Step(p), at'[p] = "failed"
  PROVE  Excused(p)
<1>1. CASE Delete(p)
  <2>1. req[p].product # "minikube" /\ PrefixOf[req[p].name] # req[p].product
    BY <1>1, Returns DEF Delete, Wanted
  <2> QED
    BY <2>1 DEF Excused, Unsupported
<1>2. CASE Status(p) \/ StartStopped(p)
  BY <1>2, Goes, Returns DEF Status, StartStopped
<1>3. CASE Begin(p)
  BY <1>3, BeginElsewhere
<1> QED
  BY <1>1, <1>2, <1>3, ElsewhereSteps

LEMMA CreationFails ==
  ASSUME TypeOK, NEW p \in Procs, Creates(p), Fits(p), Cleared(p), KnowsNetworks(p), Progress(p),
         Step(p), at'[p] = "failed", ~HasV1Alpha4(req[p])
  PROVE  Excused(p)
<1>1. CASE Begin(p)
  <2>1. Wanted(p).product \in {"kind", "k3d", "minikube"} /\ Wanted(p).op = "create"
    BY RequestType DEF Wanted, Creates
  <2> QED
    BY <1>1, <2>1, Goes DEF Begin
<1>2. CASE Delete(p)
  BY <1>2 DEF Delete, Fits
<1> QED
  BY <1>1, <1>2, KindFails, K3dStepFails, MinikubeFails, WiringFails DEF Step

\* Whatever was left by an earlier creation, one that nobody interferes with fails
\* only for what the tool cannot do, or for an address that the registry of an
\* earlier minikube cluster may have taken.
THEOREM AloneSucceedsHolds == Spec => AloneSucceeds
<1>1. FailInv /\ [Next]_vars
      => [\A p \in Procs :
            LET r == Wanted(p) IN
            /\ Ends(p, "failed") /\ alone[p] /\ ~HasV1Alpha4(r)
            => Unsupported(r) \/ (r.product = "minikube" /\ ~r.registry /\ r.name \in attached)]_vars
  <2> SUFFICES ASSUME FailInv, [Next]_vars, NEW p \in Procs, Ends(p, "failed"), alone[p], ~HasV1Alpha4(req[p])
               PROVE  Excused(p)
    BY DEF Excused, Wanted
  <2>1. TypeOK /\ ReadyInv(p) /\ untouched[p] /\ KnowsNetworks(p)
    BY DEF FailInv, IInv, ReadyInv
  <2>2. Step(p) /\ at'[p] = "failed"
    BY <2>1, FailedStep
  <2>3. CASE Creates(p)
    <3>1. Fits(p) /\ Progress(p) /\ Cleared(p)
      BY <2>1, <2>3 DEF FailInv, IInv, ReadyInv
    <3> QED
      BY <2>1, <2>2, <2>3, <3>1, CreationFails
  <2>4. CASE ~Creates(p)
    BY <2>1, <2>2, <2>4, ElsewhereFails DEF ReadyInv
  <2> QED
    BY <2>3, <2>4
<1> QED
  BY <1>1, FailInvHolds, PTL DEF Spec, AloneSucceeds

==============================================================================
