------------------------------ MODULE MCCluster -------------------------------
(***************************************************************************)
(* Instances of Cluster for TLC.                                           *)
(***************************************************************************)
EXTENDS Cluster, TLC

CONSTANTS p1, p2, kind1, k3d1, kind2, k3d2, desktop

MCProductOf ==
  [n \in Names |-> CASE n \in {kind1, kind2} -> "kind"
                     [] n \in {k3d1, k3d2}   -> "k3d"
                     [] n = desktop          -> "docker-desktop"]

V(minor, patch) == [minor |-> minor, patch |-> patch]

\* What kind installs by itself is one patch ahead of its image for 1.31.
MCDefaultVersion == V(31, 2)
MCVersions == {V(31, 1), V(30, 1)}

TwoNodes == "two nodes"

\* On the first three names one command is given by itself, on the other two
\* one after another.
SoloNames == {kind1, k3d1, desktop}
RetryNames == {kind2, k3d2}
AllNames == SoloNames \cup RetryNames
KindOnly == {kind1}
TwoProcs == {p1, p2}
Nowhere == {}
TwoPorts == {1, 2}

SpecOf(name, product, registry, version, config, minCPUs) ==
  [name |-> name, product |-> product, registry |-> registry, version |-> version,
   config |-> config, cpus |-> minCPUs]

Asked(kinds, specs) == {[kind |-> k, spec |-> s] : k \in kinds, s \in specs}

\* The processes are interchangeable.
Symmetry == Permutations(Procs)

\* A cluster of somebody else's, or of an earlier ctlptl, whole or not.
Found(state, version, saved, port) ==
  [state |-> state, by |-> Daemon, version |-> version, saved |-> saved,
   hosting |-> port, wired |-> port]

World(n, c, entry, port) ==
  [cluster |-> [m \in Names |-> IF m = n THEN c ELSE NoCluster],
   context |-> [m \in Names |-> IF m = n THEN entry ELSE NoContext],
   current |-> "", reg |-> port, joined |-> port # 0 /\ c.wired = port, cpus |-> 2]

EntryOf(n) == [product |-> MCProductOf[n], by |-> Daemon]

Start(worlds) ==
  \E w \in worlds :
    cluster = w.cluster /\ context = w.context /\ current = w.current /\ reg = w.reg
    /\ joined = w.joined /\ cpus = w.cpus

-------------------------------------------------------------------------------
\* One command by itself, over every cluster it may find.

KindSpecs ==
  {SpecOf(kind1, "kind", r, v, c, 0) :
     r \in BOOLEAN, v \in {NoVersion, V(31, 5), V(30, 1)}, c \in {NoConfig, TwoNodes}}
  \cup {SpecOf(kind1, "kind", r, NoVersion, NoConfig, 2) : r \in BOOLEAN}

K3dSpecs == {SpecOf(k3d1, "k3d", r, NoVersion, c, 0) : r \in BOOLEAN, c \in {NoConfig, TwoNodes}}

DesktopSpecs == {SpecOf(desktop, "docker-desktop", FALSE, NoVersion, NoConfig, n) : n \in {0, 4}}

\* More CPUs than there are, a version kind has no image of, a product the name
\* does not go with, and a product without versions.
OddSpecs ==
  {SpecOf(kind1, "kind", FALSE, NoVersion, NoConfig, 4),
   SpecOf(kind1, "kind", FALSE, V(29, 0), NoConfig, 0),
   SpecOf(k3d1, "kind", FALSE, NoVersion, NoConfig, 0),
   SpecOf(k3d1, "k3d", FALSE, V(30, 1), NoConfig, 0)}

SoloRequests ==
  Asked({"apply"}, KindSpecs \cup K3dSpecs \cup DesktopSpecs \cup OddSpecs)
  \cup Asked({"create", "delete"},
             {SpecOf(n, MCProductOf[n], FALSE, NoVersion, NoConfig, 0) : n \in SoloNames})

SoloWorlds ==
  {World(n, c, IF lost THEN NoContext ELSE EntryOf(n), port) :
     n \in SoloNames,
     c \in {NoCluster} \cup
           {Found(s, v, saved, hosting) :
              s \in {"up", "down"}, v \in {MCDefaultVersion, V(30, 1)},
              saved \in {Missing, NoConfig, TwoNodes}, hosting \in {0, 1}},
     lost \in BOOLEAN,
     port \in {0, 1}}

SoloStart ==
  /\ Start(SoloWorlds)
  /\ req \in {[p \in Procs |-> r] : r \in SoloRequests}

-------------------------------------------------------------------------------
\* One command after another, over every fault: the second finds what the first
\* left when it failed or was killed.

Small(n) == SpecOf(n, "kind", FALSE, NoVersion, NoConfig, 0)
Full(n) == SpecOf(n, "kind", TRUE, NoVersion, TwoNodes, 0)

RetryRequests ==
  Asked({"apply"}, {Small(kind2), Full(kind2), SpecOf(kind2, "kind", TRUE, V(30, 1), NoConfig, 0),
                    SpecOf(kind2, "kind", FALSE, NoVersion, NoConfig, 2),
                    SpecOf(k3d2, "k3d", TRUE, NoVersion, TwoNodes, 0)})
  \cup Asked({"delete"}, {Small(kind2)})

\* No cluster, and clusters that are whole or lost, up or down.
Clusters1(n) ==
  {World(n, NoCluster, NoContext, 0),
   World(n, Found("up", MCDefaultVersion, NoConfig, 0), EntryOf(n), 1),
   World(n, Found("up", MCDefaultVersion, TwoNodes, 0), EntryOf(n), 1),
   World(n, Found("up", MCDefaultVersion, TwoNodes, 1), EntryOf(n), 1),
   World(n, Found("down", MCDefaultVersion, TwoNodes, 1), EntryOf(n), 1),
   World(n, Found("up", MCDefaultVersion, TwoNodes, 1), NoContext, 1)}

RetryStart == Start(Clusters1(kind2)) /\ req \in [Procs -> RetryRequests]

-------------------------------------------------------------------------------
\* Several commands on one cluster at once, where Docker's machine cannot be given
\* more CPUs.

Greedy == [kind |-> "apply", spec |-> SpecOf(kind1, "kind", FALSE, NoVersion, NoConfig, 2)]

ApplySmall == [kind |-> "apply", spec |-> Small(kind1)]
ApplyFull == [kind |-> "apply", spec |-> Full(kind1)]
CreateSmall == [kind |-> "create", spec |-> Small(kind1)]

RaceRequests == {ApplySmall, ApplyFull, CreateSmall, Greedy}

RaceWorlds == Clusters1(kind1)

\* It does not matter which of the two processes gives which command.
Pairs ==
  ({ApplySmall} \X {ApplySmall, ApplyFull, CreateSmall})
  \cup ({ApplyFull} \X {ApplyFull, CreateSmall}) \cup {<<CreateSmall, CreateSmall>>}

RaceStart ==
  \/ <<req[p1], req[p2]>> \in Pairs
  \/ req[p2] = Greedy /\ cluster[kind1] = NoCluster

-------------------------------------------------------------------------------

AllRequests == SoloRequests \cup RetryRequests
AllWorlds == SoloWorlds \cup Clusters1(kind2)

SoloInit == SoloStart /\ Init
SoloSpec == SoloInit /\ [][Next]_vars

MCInit == (SoloStart \/ RetryStart) /\ Init
MCSpec == MCInit /\ [][Next]_vars

RaceInit == Init /\ RaceStart
RaceSpec == RaceInit /\ [][Next]_vars /\ Fairness

\* An action constraint: on the first names there is one command, on the others
\* one begins when no other is at work.
Turns ==
  \A p, q \in Procs :
    p # q /\ at[p] = "idle" /\ at'[p] # "idle"
      => at[q] \notin InFlight /\ (Target(p) \in SoloNames => at[q] = "idle")

==============================================================================
