------------------------------- MODULE MCAdmin --------------------------------
(***************************************************************************)
(* Instances of Admin for TLC.                                             *)
(***************************************************************************)
EXTENDS Admin

CONSTANTS p1, p2, kind1, kind2, k3d1, mini1

MCPrefixOf == kind1 :> "kind" @@ kind2 :> "kind" @@ k3d1 :> "k3d" @@ mini1 :> ""

AllNames == {kind1, kind2, k3d1, mini1}
TwoProcs == {p1, p2}
Nowhere == {}

\* Tools on either side of each change of their ways, and ones whose version does
\* not parse, or that kind's table does not know.
MCTools ==
  {[kind |-> 190, k3d |-> 52, minikube |-> 125], [kind |-> 310, k3d |-> 54, minikube |-> 127],
   [kind |-> 320, k3d |-> 55, minikube |-> 126], [kind |-> 0, k3d |-> 0, minikube |-> 0]}

Asked(op, name, product, registry) ==
  [op |-> op, name |-> name, product |-> product, registry |-> registry,
   minor |-> 0, auth |-> "none", format |-> "none"]

KindRequests ==
  {[Asked("create", kind1, "kind", r) EXCEPT !.minor = m, !.auth = a] :
     r \in BOOLEAN, m \in {0, 27}, a \in {"none", "good", "bad"}}

K3dRequests ==
  {[Asked("create", k3d1, "k3d", r) EXCEPT !.format = f] :
     r \in BOOLEAN, f \in {"none", "v1alpha4", "v1alpha5", "both"}}

MinikubeRequests == {Asked("create", mini1, "minikube", r) : r \in BOOLEAN}

OddRequests ==
  {Asked("create", k3d1, "kind", FALSE), Asked("create", kind1, "k3d", FALSE), Asked("delete", k3d1, "kind", FALSE),
   [Asked("create", mini1, "minikube", TRUE) EXCEPT !.auth = "good"],
   [Asked("create", k3d1, "k3d", FALSE) EXCEPT !.auth = "good"]}

\* What goes on beside each other.
SharedRequests ==
  {Asked("create", kind1, "kind", TRUE), Asked("create", kind2, "kind", TRUE),
   Asked("create", k3d1, "k3d", TRUE), Asked("create", mini1, "minikube", TRUE), Asked("delete", kind1, "kind", FALSE),
   Asked("delete", mini1, "minikube", FALSE), Asked("ensure", mini1, "minikube", FALSE)}

AllRequests == KindRequests \cup K3dRequests \cup MinikubeRequests \cup OddRequests \cup SharedRequests

UpWith(minor, refs) ==
  [NoCluster EXCEPT !.state = "up", !.minor = minor, !.wired = [m \in Nodes |-> refs]]

World(n, c, nets) == [cluster |-> [m \in Names |-> IF m = n THEN c ELSE NoCluster], attached |-> nets]

MCWorlds ==
  {World(kind1, NoCluster, {}), World(kind1, NoCluster, {"kind"}), World(mini1, NoCluster, {mini1}),
   World(kind1, UpWith(30, LocalRefs), {"kind"}), World(kind2, UpWith(30, LocalRefs), {"kind", mini1}),
   World(k3d1, UpWith(0, LocalRefs), {}),
   World(mini1, UpWith(0, LocalRefs), {mini1, "kind"}), World(mini1, [UpWith(0, {"network"}) EXCEPT !.state = "stopped"], {mini1})}

\* An action constraint: two at once only if both share something.
SharedOrInTurn ==
  \A p \in Procs :
    at[p] = "idle" /\ at'[p] # "idle"
      => \A q \in Procs : at[q] \in InFlight => {req[p], req[q]} \subseteq SharedRequests

\* Beside or after a creation that needs the registry, anything that shares it, and
\* after any other call, such a one for the same cluster.
MCInit ==
  /\ Init
  /\ req[p2] \in SharedRequests
  /\ \/ req[p1] \in {Asked("create", kind1, "kind", TRUE), Asked("create", mini1, "minikube", TRUE)}
     \/ req[p1] \notin SharedRequests /\ Target(p1) = Target(p2)

MCSpec == MCInit /\ [][Next]_vars

==============================================================================
