------------------------------ MODULE MCCommands ------------------------------
(***************************************************************************)
(* Instances of Commands for TLC: one command after another, over every     *)
(* fault, and two that apply the same file at once.                         *)
(***************************************************************************)
EXTENDS Commands, TLC

CONSTANTS p1, p2

TwoProcs == {p1, p2}
FaultyFirst == {p1}
Nobody == {}
TwoPorts == {1, 2}

TwoClusters == {"kind-kind", "k3d-k3s-default"}
TwoRegistries == {"ctlptl-registry", "other"}

MCProductOf == ("kind-kind" :> "kind") @@ ("k3d-k3s-default" :> "k3d")
MCDefaultCluster == ("kind" :> "kind-kind") @@ ("k3d" :> "k3d-k3s-default") @@ ("" :> "")
MCAliasOf ==
  ("kind" :> "kind-kind") @@ ("k3d" :> "k3d-k3s-default") @@ [n \in TwoClusters \cup {""} |-> ""]

R == "ctlptl-registry"

\* The registry before its cluster, as in the examples, and after it, under its
\* default name; two clusters that share a registry; a cluster without one; a
\* file with a document that is no resource, and one with a cluster that is of
\* no product.
Kind(registry) == Cluster("", "kind", registry)
K3d(registry) == Cluster("", "k3d", registry)

Files ==
  {<<Registry(R, 2), Kind(R)>>, <<Kind(R), Registry("", 1)>>, <<Kind(R), K3d(R)>>,
   <<Registry("other", 0), K3d("other"), Kind("")>>, <<Registry(R, 0), Other>>,
   <<Registry(R, 2), Cluster("kind-kind", "", R)>>}

Request(kind, resources, cascade, ignore) ==
  [kind |-> kind, resources |-> resources, cascade |-> cascade, ignoreNotFound |-> ignore]

Applies == {Request("apply", f, FALSE, FALSE) : f \in Files}

\* What is deleted, by file or by names.
Doomed ==
  {<<Registry(R, 2), Kind(R)>>, <<Kind("")>>, <<Cluster("kind", "", "")>>,
   <<Cluster("kind-kind", "", ""), Cluster("k3d", "", "")>>, <<Registry(R, 0)>>, <<Registry(R, 0), Other>>}

Deletes == {Request("delete", d, c, i) : d \in Doomed, c \in BOOLEAN, i \in BOOLEAN}

Gets == {Request("get", <<r>>, FALSE, i) : r \in {Cluster("kind", "", ""), Registry(R, 0)}, i \in BOOLEAN}

AllRequests == Applies \cup Deletes \cup Gets

World(kind, k3d, r, other) ==
  [cluster |-> ("kind-kind" :> kind) @@ ("k3d-k3s-default" :> k3d),
   reg |-> (R :> r) @@ ("other" :> other)]

On(state, port, registry) == [state |-> state, hosting |-> port, mirror |-> registry]
Runs(port, k3d, nets) == [state |-> "up", port |-> port, k3d |-> k3d, nets |-> nets]

Dead == [NoRegistry EXCEPT !.state = "dead"]

\* Nothing at all, registries without clusters, and clusters with a registry, of
\* one that is gone or of none, that answer or not.
MCWorlds ==
  {World(NoCluster, NoCluster, r, other) : r \in {NoRegistry, Dead, Runs(1, FALSE, {})}, other \in {NoRegistry, Runs(2, FALSE, {})}}
  \cup {World(On(s, 1, R), NoCluster, r, other) :
          s \in {"up", "down"}, r \in {NoRegistry, Runs(1, FALSE, {"kind"}), Runs(2, FALSE, {})},
          other \in {NoRegistry, Dead}}
  \cup {World(On("up", 0, ""), NoCluster, Runs(1, FALSE, {}), NoRegistry),
        World(On("up", 1, R), On("up", 2, "other"), Runs(1, FALSE, {"kind"}), Runs(2, TRUE, {"k3d-k3s-default"})),
        World(On("up", 1, R), On("up", 1, R), Runs(1, TRUE, {"kind", "k3d-k3s-default"}), NoRegistry)}

\* An action constraint: a command begins when no other is at work, but for two
\* that apply the same file.
Turns ==
  \A p, q \in Procs :
    p # q /\ at[p] = "idle" /\ at'[p] # "idle" /\ at[q] \in InFlight => req[p] = req[q] /\ req[p] \in Applies

===============================================================================
