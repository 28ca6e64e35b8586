---------------------------- MODULE ClusterProofs -----------------------------
(***************************************************************************)
(* Proofs about Cluster, for every set of names, of processes, of requests   *)
(* and of clusters there may be at first.                                  *)
(***************************************************************************)
EXTENDS Cluster, TLAPS

-------------------------------------------------------------------------------
(***************************************************************************)
(* The inductive invariants. What is known of a process whoever else is at   *)
(* work: the steps it may still take, and what it has decided.              *)
(***************************************************************************)

DeletePlaces == {"lookup", "delget", "admindel", "reload", "delctx"}

\* The places of an Apply that has looked at the cluster and goes on.
MakePlaces == {"create", "connect", "waitctx", "waithealth", "delspec", "newspec", "hosting"}

AfterRegistry == MakePlaces \cup {"orphan", "setctx", "final"}

\* The process is to create a cluster, or has done so.
Makes(p) ==
  \/ at[p] \in MakePlaces \cup {"orphan"}
  \/ at[p] \in {"setctx", "final"} /\ NeedsCreate(Wanted(p), mem[p].old)

Fits(p) ==
  /\ at[p] = "idle" => alone[p]
  /\ ~Applies(p) => at[p] \in {"idle"} \cup DeletePlaces \cup Over
  /\ Applies(p) => at[p] # "lookup"
  /\ at[p] = "check" => req[p].kind = "create"
  /\ Applies(p) /\ at[p] \in InFlight \ {"check", "machine"} => Valid(Wanted(p))
  /\ Makes(p) => NeedsCreate(Wanted(p), mem[p].old)
  /\ Makes(p) /\ at[p] # "orphan" => Wanted(p).product = ProductOf[Target(p)]
  /\ at[p] \in {"connect", "hosting"} => Wanted(p).registry /\ Wanted(p).product = "kind"
  /\ at[p] \in AfterRegistry /\ Wanted(p).registry => reg # 0 /\ mem[p].port = reg
  /\ at[p] \in {"populate", "decide", "restart", "registry"} \cup AfterRegistry /\ mem[p].old.found
       => mem[p].old.product = ProductOf[Target(p)]
  /\ at[p] \in {"populate", "decide"} /\ mem[p].old.found => Entry(p) # NoContext
  /\ at[p] \in {"restart", "registry", "setctx"} /\ ~NeedsCreate(Wanted(p), mem[p].old)
       => ~Irreconcilable(Wanted(p), mem[p].old)
  /\ at[p] = "delget" /\ Applies(p) => Entry(p) # NoContext

\* A context's product is what its name says, in the file and in what was loaded.
ContextsFit ==
  \A n \in Names :
    /\ context[n] = NoContext \/ context[n].product = ProductOf[n]
    /\ \A p \in Procs : at[p] \in InFlight =>
         mem[p].config[n] = NoContext \/ mem[p].config[n].product = ProductOf[n]

(***************************************************************************)
(* And what is known of a process that is alone.                            *)
(***************************************************************************)

\* The context is that of the cluster, and the cluster is up.
HasContext(n) == context[n] = [product |-> ProductOf[n], by |-> cluster[n].by]
Answers(n) == cluster[n].state = "up" /\ HasContext(n)

\* The cluster is up, or comes up after Apply has restarted Docker's engine under it.
Alive(p) ==
  \/ cluster[Target(p)].state = "up"
  \/ cluster[Target(p)].state = "booting" /\ RestartedUnder(p)

\* What is announced, and the config as it is read.
HostsRegistry(c) == c.hosting # 0 /\ c.hosting = reg
ConfigOf(c) == IF c.saved = Missing THEN NoConfig ELSE c.saved

\* Nothing but Docker Desktop has written the context since it was loaded.
Looking(p) ==
  LET n == Target(p) IN
  \/ context[n] = Entry(p)
  \/ ProductOf[n] = "docker-desktop" /\ Exists(n) /\ context[n] = [product |-> "docker-desktop", by |-> cluster[n].by]

\* The parts of the status read so far are those of the cluster.
Reading(p) ==
  LET n == Target(p)  old == mem[p].old  read == Parts \ mem[p].todo IN
  /\ Answers(n) /\ Entry(p) = context[n]
  /\ old.found /\ old.version = cluster[n].version
  /\ "nodes" \in read => old.created
  /\ "hosting" \in read => old.registry = HostsRegistry(cluster[n])
  /\ "spec" \in read => old.config = ConfigOf(cluster[n])

\* A report of a cluster that was created is the truth.
Reported(p) ==
  LET n == Target(p)  old == mem[p].old IN
  /\ Alive(p) /\ HasContext(n)
  /\ old.found /\ old.version = cluster[n].version
  /\ old.registry = HostsRegistry(cluster[n])
  /\ old.config = ConfigOf(cluster[n])

\* The cluster is the one that the process has created, as far as it has got.
Made(p) ==
  LET n == Target(p)  c == cluster[n]  r == Wanted(p) IN
  /\ c.by = p /\ c.state \in {"booting", "up"}
  /\ r.version # NoVersion => c.version.minor = r.version.minor
  /\ ProductOf[n] # "docker-desktop" => context[n] = [product |-> r.product, by |-> p]
  /\ at[p] = "setctx" => context[n] # NoContext
  /\ r.registry /\ r.product = "k3d" => c.hosting = mem[p].port /\ c.wired = mem[p].port
  /\ r.registry /\ r.product = "kind" /\ at[p] # "connect" => c.wired = mem[p].port
  /\ r.product = "kind" /\ at[p] # "final" => c.hosting = 0
  /\ r.registry /\ r.product = "kind" /\ at[p] = "final" => c.hosting = mem[p].port
  /\ at[p] \in {"waithealth", "delspec", "newspec", "hosting", "final"}
       => current = n /\ (Entry(p).by = p => context[n] = Entry(p))
  /\ at[p] \in {"delspec", "newspec", "hosting", "final"} => c.state = "up" /\ Entry(p).by = p
  /\ at[p] = "newspec" => c.saved = Missing
  /\ at[p] \in {"hosting", "final"} => c.saved = r.config

Undisturbed(p) ==
  LET n == Target(p)  c == cluster[n]  old == mem[p].old  r == Wanted(p) IN
  /\ at[p] = "get" => Looking(p)
  /\ at[p] = "populate" => Reading(p)
  /\ \/ at[p] = "decide" /\ old.created
     \/ at[p] \in {"restart", "registry", "setctx"} /\ ~NeedsCreate(r, old)
     => Reported(p)
  /\ at[p] \in {"reload", "delctx"} => c = NoCluster
  /\ at[p] = "delctx" => context[n] # NoContext
  /\ at[p] = "create" /\ SupportsRegistry(r.product) => ~Exists(n)
  /\ at[p] \in {"orphan", "create", "connect"} /\ r.registry => mem[p].joined = joined
  /\ Makes(p) /\ at[p] \notin {"orphan", "create"} => Made(p)
  /\ \/ at[p] \in {"check", "machine", "get", "populate", "decide"}
     \/ at[p] \in {"restart", "registry", "setctx"} /\ ~NeedsCreate(r, old)
     => (Sound(mem[p].was.cluster) => Sound(c))
  /\ at[p] = "final" /\ ~NeedsCreate(r, old)
     => current = n /\ (Sound(mem[p].was.cluster) => Alive(p) /\ Fulfils(c, context[n], reg, r))

\* A cluster that the spec holds of is left as it was, but for a restart of the engine.
KeepPlaces == {"check", "machine", "get", "populate", "decide", "restart", "registry", "setctx", "final"}

Matched(p) == Holds(mem[p].was.cluster, mem[p].was.entry, mem[p].was.reg, Wanted(p))

Kept(p) ==
  LET n == Target(p)  was == mem[p].was  old == mem[p].old IN
  /\ at[p] \in KeepPlaces
  /\ \/ cluster[n] = was.cluster
     \/ /\ at[p] \in {"registry", "setctx", "final"} /\ RestartedUnder(p)
        /\ cluster[n] = Stopped(was.cluster)
  /\ reg = was.reg
  /\ Valid(Wanted(p)) => context[n] = was.entry
  /\ at[p] = "get" => Entry(p) = context[n]
  /\ at[p] = "decide" => old.created
  /\ at[p] \in {"restart", "registry", "setctx", "final"} => ~NeedsCreate(Wanted(p), old)

Base == TypeOK /\ ContextsFit /\ \A p \in Procs : Fits(p)

AloneInv ==
  \A p \in Procs : at[p] \in InFlight /\ alone[p] =>
    Undisturbed(p) /\ (Applies(p) /\ Matched(p) => Kept(p))

IInv == Base /\ AloneInv

-------------------------------------------------------------------------------
(***************************************************************************)
(* Types.                                                                  *)
(***************************************************************************)

LEMMA RequestType ==
  ASSUME TypeOK, NEW p \in Procs
  PROVE  /\ IsRequest(req[p]) /\ req[p] \in Requests
         /\ Target(p) \in Names /\ Target(p) = req[p].spec.name
         /\ Wanted(p) = req[p].spec
         /\ ProductOf[Target(p)] \in Products
         /\ Wanted(p).config \in Configs
BY ClusterAssumption DEF ClusterAssumption, TypeOK, IsRequest, Target, Wanted, Configs

LEMMA BlankType == NotFound \in Reports /\ NoCluster \in Clusters /\ NoContext \in Entries /\ Blank \in Memories
<1>1. NotFound \in Reports
  BY DEF NotFound, Reports, Products, AllVersions, Configs
<1>2. NoCluster \in Clusters
  BY DEF NoCluster, Clusters, AllVersions
<1>3. NoContext \in Entries
  BY DEF NoContext, Entries
<1> QED
  BY <1>1, <1>2, <1>3 DEF Blank, Memories

LEMMA ListedType ==
  ASSUME NEW product \in Products \cup {""}, NEW version \in AllVersions
  PROVE  /\ Listed(product) \in Reports
         /\ [Listed(product) EXCEPT !.version = version] \in Reports
BY BlankType DEF Listed, Reports

\* The fields of a process's memory.
LEMMA MemoryType ==
  ASSUME TypeOK, NEW p \in Procs
  PROVE  /\ mem[p] \in Memories
         /\ mem[p].config \in [Names -> Entries] /\ mem[p].old \in Reports
         /\ mem[p].todo \in SUBSET Parts /\ mem[p].port \in Ports \cup {0}
         /\ mem[p].joined \in BOOLEAN /\ mem[p].machine \in BOOLEAN
         /\ mem[p].was \in [cluster: Clusters, entry: Entries, reg: Ports \cup {0}]
         /\ Entry(p) \in Entries
<1>1. mem[p] \in Memories
  BY DEF TypeOK
<1> QED
  BY <1>1, RequestType DEF Memories, Entry

LEMMA ClusterType ==
  ASSUME TypeOK, NEW n \in Names
  PROVE  /\ cluster[n] \in Clusters
         /\ cluster[n].state \in {"absent", "booting", "up", "down"}
         /\ cluster[n].by \in Procs \cup {Daemon}
         /\ cluster[n].version \in AllVersions
         /\ cluster[n].saved \in Configs \cup {Missing}
         /\ cluster[n].hosting \in Ports \cup {0} /\ cluster[n].wired \in Ports \cup {0}
         /\ context[n] \in Entries
<1>1. cluster[n] \in Clusters /\ context[n] \in Entries
  BY DEF TypeOK
<1> QED
  BY <1>1 DEF Clusters

\* A cluster that goes down with Docker's engine is the same in all but its state.
LEMMA StoppedSays ==
  ASSUME NEW c \in Clusters
  PROVE  /\ Stopped(c) \in Clusters
         /\ Stopped(c).state = IF c.state = "up" THEN "booting" ELSE c.state
         /\ Stopped(c).by = c.by /\ Stopped(c).version = c.version /\ Stopped(c).saved = c.saved
         /\ Stopped(c).hosting = c.hosting /\ Stopped(c).wired = c.wired
BY DEF Stopped, Clusters

LEMMA ComesBack ==
  ASSUME NEW c \in Clusters, c.state = "up"
  PROVE  [Stopped(c) EXCEPT !.state = "up"] = c
<1>1. Stopped(c) = [c EXCEPT !.state = "booting"]
  BY DEF Stopped
<1>2. [[c EXCEPT !.state = "booting"] EXCEPT !.state = "up"] = [c EXCEPT !.state = "up"]
  BY DEF Clusters
<1>3. [c EXCEPT !.state = "up"] = c
  BY DEF Clusters
<1> QED
  BY <1>1, <1>2, <1>3

LEMMA EngineRestartSays ==
  ASSUME NEW clusters \in [Names -> Clusters], EngineRestarts(clusters), disturbed \subseteq Names
  PROVE  /\ cluster' \in [Names -> Clusters] /\ disturbed' \subseteq Names
         /\ disturbed \subseteq disturbed'
         /\ \A n \in Names : /\ cluster'[n] = Stopped(clusters[n])
                             /\ cluster'[n] = clusters[n] \/ n \in disturbed'
<1>1. cluster' = [n \in Names |-> Stopped(clusters[n])]
      /\ disturbed' = disturbed \cup {n \in Names : clusters[n].state = "up"}
  BY DEF EngineRestarts
<1>2. ASSUME NEW n \in Names
      PROVE  Stopped(clusters[n]) \in Clusters /\ (Stopped(clusters[n]) = clusters[n] \/ clusters[n].state = "up")
  BY <1>2, StoppedSays DEF Stopped
<1> QED
  BY <1>1, <1>2

\* One place, one memory, one cluster, one context is changed.
LEMMA Goes ==
  ASSUME TypeOK, NEW p \in Procs, NEW x, Goto(p, x)
  PROVE  at'[p] = x /\ (\A q \in Procs \ {p} : at'[q] = at[q])
BY DEF TypeOK, Goto

LEMMA Remembers ==
  ASSUME TypeOK, NEW p \in Procs, NEW m, mem' = [mem EXCEPT ![p] = m]
  PROVE  mem'[p] = m /\ (\A q \in Procs \ {p} : mem'[q] = mem[q])
BY DEF TypeOK

LEMMA Returns ==
  ASSUME TypeOK, NEW p \in Procs, NEW x, Return(p, x)
  PROVE  /\ at'[p] = x /\ (\A q \in Procs \ {p} : at'[q] = at[q])
         /\ mem'[p] = Blank /\ (\A q \in Procs \ {p} : mem'[q] = mem[q])
BY Goes, Remembers DEF Return

LEMMA Updates ==
  ASSUME TypeOK, NEW n \in Names, NEW c, cluster' = [cluster EXCEPT ![n] = c]
  PROVE  cluster'[n] = c /\ (\A m \in Names \ {n} : cluster'[m] = cluster[m])
BY DEF TypeOK

LEMMA SetsEntry ==
  ASSUME TypeOK, NEW n \in Names, NEW e, SetEntry(n, e)
  PROVE  context'[n] = e /\ (\A m \in Names \ {n} : context'[m] = context[m])
BY DEF TypeOK, SetEntry

-------------------------------------------------------------------------------
(***************************************************************************)
(* What the steps of a process have in common: they change its place, its    *)
(* memory and its cluster, and a registry stays. Another cluster only goes  *)
(* down with Docker's engine.                                              *)
(***************************************************************************)

Spares(m) == cluster'[m] = cluster[m] \/ (cluster'[m] = Stopped(cluster[m]) /\ m \in disturbed')

Moves(p) ==
  /\ UNCHANGED req
  /\ at' \in [Procs -> {"idle"} \cup InFlight \cup Over]
  /\ \A q \in Procs \ {p} : at'[q] = at[q] /\ mem'[q] = mem[q]
  /\ mem' \in [Procs -> Memories]
  /\ cluster' \in [Names -> Clusters] /\ \A m \in Names \ {Target(p)} : Spares(m)
  /\ context' \in [Names -> Entries] /\ \A m \in Names \ {Target(p)} : context'[m] = context[m]
  /\ reg' \in Ports \cup {0} /\ (reg # 0 => reg' = reg)
  /\ current' \in Names \cup {""} /\ joined' \in BOOLEAN /\ cpus' \in Nat

\* The memory m is that of p with another config, another report or other parts to read.
Learns(p, m, config, old, todo) ==
  /\ m.config = config /\ m.old = old /\ m.todo = todo
  /\ m.port = mem[p].port /\ m.joined = mem[p].joined /\ m.was = mem[p].was

\* A step that changes nothing but the process.
Thinks(p) == Moves(p) /\ UNCHANGED world

\* The steps of the start of a command, and of Get.

LEMMA ThinkingMoves ==
  ASSUME TypeOK, NEW p \in Procs, UNCHANGED <<world, req>>,
         at' \in [Procs -> {"idle"} \cup InFlight \cup Over], \A q \in Procs \ {p} : at'[q] = at[q],
         mem' \in [Procs -> Memories], \A q \in Procs \ {p} : mem'[q] = mem[q]
  PROVE  Thinks(p)
BY DEF Thinks, Moves, Spares, TypeOK, world

LEMMA GoingType ==
  ASSUME TypeOK, NEW p \in Procs, NEW x \in {"idle"} \cup InFlight \cup Over, Goto(p, x)
  PROVE  at' \in [Procs -> {"idle"} \cup InFlight \cup Over]
BY DEF TypeOK, Goto

LEMMA MemoryStays ==
  ASSUME TypeOK, NEW p \in Procs, UNCHANGED mem
  PROVE  mem' \in [Procs -> Memories] /\ (\A q \in Procs \ {p} : mem'[q] = mem[q]) /\ mem'[p] = mem[p]
BY DEF TypeOK

LEMMA MemoryChanges ==
  ASSUME TypeOK, NEW p \in Procs, NEW m \in Memories, mem' = [mem EXCEPT ![p] = m]
  PROVE  mem' \in [Procs -> Memories] /\ (\A q \in Procs \ {p} : mem'[q] = mem[q]) /\ mem'[p] = m
BY DEF TypeOK

LEMMA ReturningType ==
  ASSUME TypeOK, NEW p \in Procs, NEW x \in Over, Return(p, x)
  PROVE  /\ at' \in [Procs -> {"idle"} \cup InFlight \cup Over]
         /\ mem' \in [Procs -> Memories]
BY GoingType, MemoryChanges, BlankType DEF Return

\* A step that only goes on, or returns.
LEMMA PlainGoing ==
  ASSUME TypeOK, NEW p \in Procs, NEW x \in InFlight, Goto(p, x), UNCHANGED <<world, req, mem>>
  PROVE  Thinks(p) /\ at'[p] = x /\ mem'[p] = mem[p]
BY Goes, GoingType, MemoryStays, ThinkingMoves

LEMMA PlainReturning ==
  ASSUME TypeOK, NEW p \in Procs, NEW x \in Over, Return(p, x), UNCHANGED <<world, req>>
  PROVE  Thinks(p) /\ at'[p] = x /\ mem'[p] = Blank
BY Returns, ReturningType, ThinkingMoves

LEMMA PlainRemembering ==
  ASSUME TypeOK, NEW p \in Procs, NEW x \in InFlight, Goto(p, x), UNCHANGED <<world, req>>,
         NEW m \in Memories, mem' = [mem EXCEPT ![p] = m]
  PROVE  Thinks(p) /\ at'[p] = x /\ mem'[p] = m
BY Goes, GoingType, MemoryChanges, ThinkingMoves

LEMMA BeginMoves ==
  ASSUME TypeOK, NEW p \in Procs, Begin(p)
  PROVE  /\ at[p] = "idle" /\ Thinks(p)
         /\ at'[p] = CASE req[p].kind = "create" -> "check" [] req[p].kind = "delete" -> "lookup" [] OTHER -> "machine"
         /\ mem'[p].config = context
         /\ mem'[p].was = [cluster |-> cluster[Target(p)], entry |-> context[Target(p)], reg |-> reg]
<1> DEFINE past == [cluster |-> cluster[Target(p)], entry |-> context[Target(p)], reg |-> reg]
           m == [mem[p] EXCEPT !.config = context, !.was = past]
           x == CASE req[p].kind = "create" -> "check" [] req[p].kind = "delete" -> "lookup" [] OTHER -> "machine"
<1>1. at[p] = "idle" /\ Goto(p, x) /\ mem' = [mem EXCEPT ![p] = m] /\ UNCHANGED <<world, req>>
  BY DEF Begin
<1>2. past \in [cluster: Clusters, entry: Entries, reg: Ports \cup {0}]
  BY RequestType, ClusterType DEF TypeOK
<1>3. m \in Memories /\ m.was = past /\ m.config = context
  BY <1>2, MemoryType DEF TypeOK, Memories
<1>4. x \in InFlight
  BY DEF InFlight
<1> HIDE DEF m, x
<1>5. Thinks(p) /\ at'[p] = x /\ mem'[p] = m
  BY <1>1, <1>3, <1>4, PlainRemembering
<1> QED
  BY <1>1, <1>3, <1>5 DEF x

LEMMA CheckNewMoves ==
  ASSUME TypeOK, NEW p \in Procs, CheckNew(p)
  PROVE  /\ at[p] = "check" /\ Thinks(p)
         /\ \/ Entry(p) # NoContext /\ at'[p] = "failed"
            \/ at'[p] = "machine" /\ mem'[p] = mem[p]
BY PlainGoing, PlainReturning DEF CheckNew, InFlight, Over

LEMMA EnsureMachineMoves ==
  ASSUME TypeOK, NEW p \in Procs, EnsureMachine(p)
  PROVE  /\ at[p] = "machine" /\ Thinks(p)
         /\ \/ ~Valid(Wanted(p)) /\ at'[p] = "failed"
            \/ /\ Valid(Wanted(p)) /\ at'[p] = "get"
               /\ Learns(p, mem'[p], context, mem[p].old, mem[p].todo)
<1> DEFINE m == [mem[p] EXCEPT !.config = context, !.machine = TRUE]
<1>1. at[p] = "machine" /\ UNCHANGED <<world, req>>
  BY DEF EnsureMachine
<1>2. CASE ~Valid(Wanted(p)) /\ Return(p, "failed")
  BY <1>1, <1>2, PlainReturning DEF Over
<1>3. CASE Valid(Wanted(p)) /\ Goto(p, "get") /\ mem' = [mem EXCEPT ![p] = m]
  <2>1. m \in Memories /\ Learns(p, m, context, mem[p].old, mem[p].todo)
    BY MemoryType DEF TypeOK, Memories, Learns
  <2> HIDE DEF m
  <2> QED
    BY <1>1, <1>3, <2>1, PlainRemembering DEF InFlight
<1> QED
  BY <1>2, <1>3 DEF EnsureMachine

LEMMA GetMoves ==
  ASSUME TypeOK, NEW p \in Procs, Get(p) \/ SlowHealthCheck(p)
  PROVE  /\ at[p] = "get" /\ Thinks(p)
         /\ \/ /\ Entry(p) = NoContext /\ at'[p] = "decide"
               /\ Learns(p, mem'[p], mem[p].config, NotFound, mem[p].todo)
            \/ /\ Reachable(p) /\ at'[p] = "populate"
               /\ Learns(p, mem'[p], mem[p].config,
                         [Listed(Entry(p).product) EXCEPT !.version = cluster[Target(p)].version], Parts)
            \/ /\ Entry(p) # NoContext /\ (Get(p) => ~Reachable(p)) /\ at'[p] = "decide"
               /\ Learns(p, mem'[p], mem[p].config, Listed(Entry(p).product), mem[p].todo)
<1> DEFINE listed == [Listed(Entry(p).product) EXCEPT !.version = cluster[Target(p)].version]
           m1 == [mem[p] EXCEPT !.old = NotFound]
           m2 == [mem[p] EXCEPT !.todo = Parts, !.old = listed]
           m3 == [mem[p] EXCEPT !.old = Listed(Entry(p).product)]
<1>1. at[p] = "get" /\ UNCHANGED <<world, req>>
  BY DEF Get, SlowHealthCheck
<1>2. Listed(Entry(p).product) \in Reports /\ listed \in Reports
  BY ListedType, MemoryType, RequestType, ClusterType DEF Entries
<1>3. /\ m1 \in Memories /\ Learns(p, m1, mem[p].config, NotFound, mem[p].todo)
      /\ m2 \in Memories /\ Learns(p, m2, mem[p].config, listed, Parts)
      /\ m3 \in Memories /\ Learns(p, m3, mem[p].config, Listed(Entry(p).product), mem[p].todo)
  <2> HIDE DEF listed
  <2> QED
    BY <1>2, MemoryType, BlankType DEF Memories, Learns
<1> HIDE DEF m1, m2, m3
<1>4. CASE Entry(p) = NoContext /\ Goto(p, "decide") /\ mem' = [mem EXCEPT ![p] = m1]
  BY <1>1, <1>3, <1>4, PlainRemembering DEF InFlight
<1>5. CASE Reachable(p) /\ Goto(p, "populate") /\ mem' = [mem EXCEPT ![p] = m2]
  BY <1>1, <1>3, <1>5, PlainRemembering DEF InFlight
<1>6. CASE Entry(p) # NoContext /\ (Get(p) => ~Reachable(p)) /\ Goto(p, "decide") /\ mem' = [mem EXCEPT ![p] = m3]
  BY <1>1, <1>3, <1>6, PlainRemembering DEF InFlight
<1>7. CASE Get(p)
  BY <1>4, <1>5, <1>6, <1>7 DEF Get, m1, m2, m3
<1>8. CASE SlowHealthCheck(p) /\ ~Get(p)
  BY <1>6, <1>8 DEF SlowHealthCheck, Reachable, m3
<1> QED
  BY <1>7, <1>8

LEMMA ReadPartMoves ==
  ASSUME TypeOK, NEW p \in Procs, ReadPart(p)
  PROVE  /\ at[p] = "populate" /\ at'[p] = "populate" /\ Thinks(p)
         /\ \E part \in mem[p].todo :
              /\ part = "machine" \/ Reachable(p)
              /\ Learns(p, mem'[p], mem[p].config, Learn(mem[p].old, part, cluster[Target(p)]), mem[p].todo \ {part})
<1>1. PICK part \in mem[p].todo :
        /\ part = "machine" \/ Reachable(p)
        /\ mem' = [mem EXCEPT ![p].todo = @ \ {part}, ![p].old = Learn(@, part, cluster[Target(p)])]
  BY DEF ReadPart
<1> DEFINE learnt == Learn(mem[p].old, part, cluster[Target(p)])
           m == [mem[p] EXCEPT !.todo = @ \ {part}, !.old = learnt]
<1>2. learnt \in Reports
  <2>1. part \in Parts
    BY MemoryType
  <2> DEFINE c == cluster[Target(p)]
  <2>2. [mem[p].old EXCEPT !.created = TRUE] \in Reports
    BY MemoryType DEF Reports
  <2>3. [mem[p].old EXCEPT !.registry = c.hosting # 0 /\ c.hosting = reg] \in Reports
    BY MemoryType DEF Reports
  <2>4. [mem[p].old EXCEPT !.cpus = cpus] \in Reports
    BY ZenonT(40), MemoryType DEF Reports, TypeOK
  <2>5. [mem[p].old EXCEPT !.config = IF c.saved = Missing THEN NoConfig ELSE c.saved] \in Reports
    BY ZenonT(40), MemoryType, RequestType, ClusterType DEF Reports, Configs
  <2> QED
    BY <2>1, <2>2, <2>3, <2>4, <2>5 DEF Learn, Parts
<1>3. m \in Memories /\ Learns(p, m, mem[p].config, learnt, mem[p].todo \ {part})
  <2> HIDE DEF learnt
  <2> QED
    BY <1>2, MemoryType DEF Memories, Learns
<1>4. mem' = [mem EXCEPT ![p] = m]
  BY <1>1
<1> HIDE DEF m
<1>5. mem' \in [Procs -> Memories] /\ (\A q \in Procs \ {p} : mem'[q] = mem[q]) /\ mem'[p] = m
  BY <1>3, <1>4, MemoryChanges
<1>6. at[p] = "populate" /\ UNCHANGED <<world, req, at>>
  BY DEF ReadPart
<1>7. Thinks(p)
  BY <1>5, <1>6, ThinkingMoves DEF TypeOK
<1> QED
  BY <1>1, <1>3, <1>5, <1>6, <1>7

LEMMA StopReadingMoves ==
  ASSUME TypeOK, NEW p \in Procs, GiveUpReading(p) \/ ReadFails(p)
  PROVE  /\ at[p] = "populate" /\ at'[p] = "populate" /\ Thinks(p)
         /\ GiveUpReading(p) => mem[p].todo \ {"machine"} # {} /\ ~Reachable(p)
         /\ Learns(p, mem'[p], mem[p].config, mem[p].old, {})
<1> DEFINE m == [mem[p] EXCEPT !.todo = {}]
<1>1. /\ at[p] = "populate" /\ UNCHANGED <<world, req, at>> /\ mem' = [mem EXCEPT ![p] = m]
      /\ GiveUpReading(p) => mem[p].todo \ {"machine"} # {} /\ ~Reachable(p)
  BY DEF GiveUpReading, ReadFails
<1>2. m \in Memories /\ Learns(p, m, mem[p].config, mem[p].old, {})
  BY MemoryType DEF Memories, Learns
<1> HIDE DEF m
<1>3. mem' \in [Procs -> Memories] /\ (\A q \in Procs \ {p} : mem'[q] = mem[q]) /\ mem'[p] = m
  BY <1>1, <1>2, MemoryChanges
<1>4. Thinks(p)
  BY <1>1, <1>3, ThinkingMoves DEF TypeOK
<1> QED
  BY <1>1, <1>2, <1>3, <1>4

LEMMA PopulatedMoves ==
  ASSUME TypeOK, NEW p \in Procs, Populated(p)
  PROVE  /\ at[p] = "populate" /\ at'[p] = "decide" /\ Thinks(p)
         /\ mem[p].todo = {} /\ mem'[p] = mem[p]
BY PlainGoing DEF Populated, InFlight

LEMMA DecideMoves ==
  ASSUME TypeOK, NEW p \in Procs, Decide(p)
  PROVE  /\ at[p] = "decide" /\ Thinks(p) /\ mem'[p] = mem[p]
         /\ at'[p] = IF Irreconcilable(Wanted(p), mem[p].old) THEN "delget" ELSE "restart"
BY PlainGoing DEF Decide, InFlight

\* The steps of a Delete.

LEMMA LookupMoves ==
  ASSUME TypeOK, NEW p \in Procs, Lookup(p)
  PROVE  /\ at[p] = "lookup" /\ at'[p] = "delget" /\ Thinks(p)
         /\ Learns(p, mem'[p], mem[p].config, mem[p].old, mem[p].todo)
<1> DEFINE m == [mem[p] EXCEPT !.machine = Reachable(p)]
<1>1. Reachable(p) \in BOOLEAN
  BY DEF Reachable
<1>2. m \in Memories /\ Learns(p, m, mem[p].config, mem[p].old, mem[p].todo)
  BY <1>1, MemoryType DEF Memories, Learns
<1>3. mem' = [mem EXCEPT ![p] = m]
  BY DEF Lookup
<1> HIDE DEF m
<1> QED
  BY ZenonT(40), <1>2, <1>3, PlainRemembering DEF Lookup, InFlight

LEMMA FindDoomedMoves ==
  ASSUME TypeOK, NEW p \in Procs, FindDoomed(p)
  PROVE  /\ at[p] = "delget" /\ Thinks(p)
         /\ \/ Entry(p) = NoContext /\ at'[p] = "failed"
            \/ Entry(p).product = "docker-desktop" /\ ~LocalDesktop /\ at'[p] = "failed"
            \/ Entry(p).product = "docker-desktop" /\ at'[p] = "panicked"
            \/ /\ Entry(p) # NoContext /\ at'[p] = "admindel"
               /\ Learns(p, mem'[p], mem[p].config, mem[p].old, mem[p].todo)
<1> DEFINE ready == mem[p].machine \/ Reachable(p)
           m == [mem[p] EXCEPT !.machine = ready]
<1>1. at[p] = "delget" /\ UNCHANGED <<world, req>>
  BY DEF FindDoomed
<1>2. ready \in BOOLEAN
  BY DEF Reachable
<1>3. m \in Memories /\ Learns(p, m, mem[p].config, mem[p].old, mem[p].todo)
  <2> HIDE DEF ready
  <2> QED
    BY <1>2, MemoryType DEF Memories, Learns
<1>4. \/ Entry(p) = NoContext /\ Return(p, "failed")
      \/ Entry(p).product = "docker-desktop" /\ ~LocalDesktop /\ Return(p, "failed")
      \/ Entry(p).product = "docker-desktop" /\ Return(p, "panicked")
      \/ Entry(p) # NoContext /\ Goto(p, "admindel") /\ mem' = [mem EXCEPT ![p] = m]
  BY DEF FindDoomed
<1> HIDE DEF ready, m
<1> QED
  BY <1>1, <1>3, <1>4, PlainReturning, PlainRemembering DEF InFlight, Over

\* Only the process, its cluster and its context change.
LEMMA ActingMoves ==
  ASSUME TypeOK, NEW p \in Procs, UNCHANGED req,
         at' \in [Procs -> {"idle"} \cup InFlight \cup Over], \A q \in Procs \ {p} : at'[q] = at[q],
         mem' \in [Procs -> Memories], \A q \in Procs \ {p} : mem'[q] = mem[q],
         cluster' \in [Names -> Clusters], \A m \in Names \ {Target(p)} : Spares(m),
         context' \in [Names -> Entries], \A m \in Names \ {Target(p)} : context'[m] = context[m],
         reg' \in Ports \cup {0}, reg # 0 => reg' = reg,
         current' \in Names \cup {""}, joined' \in BOOLEAN, cpus' \in Nat
  PROVE  Moves(p)
BY DEF Moves

LEMMA RemovedCluster ==
  ASSUME TypeOK, NEW n \in Names, RemoveCluster(n)
  PROVE  /\ cluster' \in [Names -> Clusters] /\ cluster'[n] = NoCluster
         /\ \A m \in Names \ {n} : cluster'[m] = cluster[m]
         /\ context' \in [Names -> Entries]
         /\ context'[n] = IF ProductOf[n] = "docker-desktop" THEN context[n] ELSE NoContext
         /\ \A m \in Names \ {n} : context'[m] = context[m]
<1>1. cluster' = [cluster EXCEPT ![n] = NoCluster]
  BY DEF RemoveCluster, Update
<1>2. cluster' \in [Names -> Clusters]
  BY <1>1, BlankType DEF TypeOK
<1>3. context' \in [Names -> Entries]
  BY BlankType DEF TypeOK, RemoveCluster, SetEntry
<1> QED
  BY <1>1, <1>2, <1>3, Updates, SetsEntry DEF RemoveCluster

LEMMA AdminDeleteMoves ==
  ASSUME TypeOK, NEW p \in Procs, AdminDelete(p)
  PROVE  /\ at[p] = "admindel" /\ at'[p] = "reload" /\ Moves(p)
         /\ mem'[p] = mem[p]
         /\ cluster'[Target(p)] = NoCluster
         /\ context'[Target(p)] = IF ProductOf[Target(p)] = "docker-desktop" THEN context[Target(p)] ELSE NoContext
         /\ UNCHANGED <<current, reg, joined, cpus>>
<1> DEFINE n == Target(p)
           without == [cluster EXCEPT ![n] = NoCluster]
<1>1. /\ at[p] = "admindel" /\ Goto(p, "reload") /\ UNCHANGED <<current, reg, joined, cpus, req, mem>>
      /\ \/ ProductOf[n] = "docker-desktop" /\ EngineRestarts(without) /\ UNCHANGED context
         \/ RemoveCluster(n) /\ UNCHANGED disturbed
  BY DEF AdminDelete
<1>2. "reload" \in {"idle"} \cup InFlight \cup Over
  BY DEF InFlight
<1>3. at' \in [Procs -> {"idle"} \cup InFlight \cup Over] /\ at'[p] = "reload" /\ \A q \in Procs \ {p} : at'[q] = at[q]
  BY <1>1, <1>2, Goes, GoingType
<1>4. mem' \in [Procs -> Memories] /\ (\A q \in Procs \ {p} : mem'[q] = mem[q]) /\ mem'[p] = mem[p]
  BY <1>1, MemoryStays
<1>5. reg' \in Ports \cup {0} /\ current' \in Names \cup {""} /\ joined' \in BOOLEAN /\ cpus' \in Nat
  BY <1>1 DEF TypeOK
<1>6. n \in Names
  BY RequestType
<1>7. /\ cluster' \in [Names -> Clusters] /\ cluster'[n] = NoCluster
      /\ \A m \in Names \ {n} : Spares(m)
      /\ context' \in [Names -> Entries] /\ \A m \in Names \ {n} : context'[m] = context[m]
      /\ context'[n] = IF ProductOf[n] = "docker-desktop" THEN context[n] ELSE NoContext
  <2>1. CASE ProductOf[n] = "docker-desktop" /\ EngineRestarts(without) /\ UNCHANGED context
    <3>1. without \in [Names -> Clusters] /\ without[n] = NoCluster /\ \A m \in Names \ {n} : without[m] = cluster[m]
      BY <1>6, BlankType DEF TypeOK
    <3> HIDE DEF without
    <3>2. /\ cluster' \in [Names -> Clusters]
          /\ \A m \in Names : cluster'[m] = Stopped(without[m]) /\ (cluster'[m] = without[m] \/ m \in disturbed')
      BY <2>1, <3>1, EngineRestartSays DEF TypeOK
    <3>3. Stopped(NoCluster) = NoCluster
      BY DEF Stopped, NoCluster
    <3>4. cluster'[n] = NoCluster
      BY <1>6, <3>1, <3>2, <3>3
    <3>5. \A m \in Names \ {n} : Spares(m)
      BY <3>1, <3>2 DEF Spares
    <3> QED
      BY <2>1, <3>2, <3>4, <3>5 DEF TypeOK
  <2>2. CASE RemoveCluster(n)
    BY <1>6, <2>2, RemovedCluster DEF Spares
  <2> QED
    BY <1>1, <2>1, <2>2
<1>8. Moves(p)
  BY <1>1, <1>3, <1>4, <1>5, <1>7, ActingMoves
<1> QED
  BY <1>1, <1>3, <1>4, <1>7, <1>8

\* After a Delete.
LEMMA DeletedMoves ==
  ASSUME TypeOK, NEW p \in Procs, NEW m \in Memories, Deleted(p, m)
  PROVE  /\ at' \in [Procs -> {"idle"} \cup InFlight \cup Over] /\ \A q \in Procs \ {p} : at'[q] = at[q]
         /\ mem' \in [Procs -> Memories] /\ \A q \in Procs \ {p} : mem'[q] = mem[q]
         /\ IF req[p].kind = "delete"
              THEN at'[p] = "done"
              ELSE at'[p] = "restart" /\ mem'[p] = [m EXCEPT !.old = NotFound]
<1>1. CASE req[p].kind = "delete"
  BY <1>1, Returns, ReturningType DEF Deleted, Over
<1>2. CASE req[p].kind # "delete"
  <2> DEFINE n == [m EXCEPT !.old = NotFound]
  <2>1. Goto(p, "restart") /\ mem' = [mem EXCEPT ![p] = n]
    BY <1>2 DEF Deleted
  <2>2. n \in Memories
    BY BlankType DEF Memories
  <2> HIDE DEF n
  <2>3. mem' \in [Procs -> Memories] /\ (\A q \in Procs \ {p} : mem'[q] = mem[q]) /\ mem'[p] = n
    BY <2>1, <2>2, MemoryChanges
  <2> QED
    BY <1>2, <2>1, <2>3, Goes, GoingType DEF InFlight, n
<1> QED
  BY <1>1, <1>2

LEMMA ReloadMoves ==
  ASSUME TypeOK, NEW p \in Procs, Reload(p)
  PROVE  /\ at[p] = "reload" /\ Thinks(p)
         /\ \/ context[Target(p)] # NoContext /\ at'[p] = "delctx" /\ Learns(p, mem'[p], context, mem[p].old, mem[p].todo)
            \/ /\ context[Target(p)] = NoContext
               /\ IF req[p].kind = "delete"
                    THEN at'[p] = "done"
                    ELSE at'[p] = "restart" /\ Learns(p, mem'[p], context, NotFound, mem[p].todo)
<1> DEFINE m == [mem[p] EXCEPT !.config = context]
<1>1. at[p] = "reload" /\ UNCHANGED <<world, req>>
  BY DEF Reload
<1>2. m \in Memories /\ Learns(p, m, context, mem[p].old, mem[p].todo)
  BY MemoryType DEF Memories, TypeOK, Learns
<1>3. Learns(p, [m EXCEPT !.old = NotFound], context, NotFound, mem[p].todo)
  BY MemoryType DEF Memories, Learns
<1>4. \/ context[Target(p)] # NoContext /\ Goto(p, "delctx") /\ mem' = [mem EXCEPT ![p] = m]
      \/ context[Target(p)] = NoContext /\ Deleted(p, m)
  BY DEF Reload
<1>5. CASE context[Target(p)] # NoContext /\ Goto(p, "delctx") /\ mem' = [mem EXCEPT ![p] = m]
  <2> HIDE DEF m
  <2> QED
    BY <1>1, <1>2, <1>5, PlainRemembering DEF InFlight
<1>6. CASE context[Target(p)] = NoContext /\ Deleted(p, m)
  <2> HIDE DEF m
  <2>1. Thinks(p)
    BY <1>1, <1>2, <1>6, DeletedMoves, ThinkingMoves
  <2> QED
    BY <1>1, <1>2, <1>3, <1>6, <2>1, DeletedMoves
<1> QED
  BY <1>4, <1>5, <1>6

LEMMA DeleteContextMoves ==
  ASSUME TypeOK, NEW p \in Procs, DeleteContext(p)
  PROVE  /\ at[p] = "delctx" /\ Moves(p)
         /\ \/ context[Target(p)] = NoContext /\ at'[p] = "failed"
            \/ IF req[p].kind = "delete"
                 THEN at'[p] = "done"
                 ELSE at'[p] = "restart" /\ Learns(p, mem'[p], mem[p].config, NotFound, mem[p].todo)
         /\ context'[Target(p)] = NoContext
         /\ UNCHANGED <<cluster, current, reg, joined, cpus>>
<1>1. /\ at[p] = "delctx" /\ UNCHANGED <<cluster, current, reg, joined, cpus, req>>
      /\ SetEntry(Target(p), NoContext)
      /\ \/ context[Target(p)] = NoContext /\ Return(p, "failed")
         \/ Deleted(p, mem[p])
  BY DEF DeleteContext
<1>2. Target(p) \in Names /\ mem[p] \in Memories
  BY RequestType, MemoryType
<1>3. context' \in [Names -> Entries] /\ context'[Target(p)] = NoContext
      /\ \A m \in Names \ {Target(p)} : context'[m] = context[m]
  BY <1>1, <1>2, SetsEntry, BlankType DEF TypeOK, SetEntry
<1>4. /\ at' \in [Procs -> {"idle"} \cup InFlight \cup Over] /\ \A q \in Procs \ {p} : at'[q] = at[q]
      /\ mem' \in [Procs -> Memories] /\ \A q \in Procs \ {p} : mem'[q] = mem[q]
      /\ \/ context[Target(p)] = NoContext /\ at'[p] = "failed"
         \/ IF req[p].kind = "delete"
              THEN at'[p] = "done"
              ELSE at'[p] = "restart" /\ Learns(p, mem'[p], mem[p].config, NotFound, mem[p].todo)
  <2>0. Learns(p, [mem[p] EXCEPT !.old = NotFound], mem[p].config, NotFound, mem[p].todo)
    BY MemoryType DEF Memories, Learns
  <2>1. CASE Deleted(p, mem[p])
    BY <1>2, <2>0, <2>1, DeletedMoves
  <2>2. CASE context[Target(p)] = NoContext /\ Return(p, "failed")
    BY <2>2, Returns, ReturningType DEF Over
  <2> QED
    BY <1>1, <2>1, <2>2
<1>5. Moves(p)
  BY <1>1, <1>3, <1>4, ActingMoves DEF TypeOK, Spares
<1> QED
  BY <1>1, <1>3, <1>4, <1>5

\* The steps of a creation.

LEMMA FreshType ==
  ASSUME TypeOK, NEW p \in Procs, NEW version \in AllVersions, NEW state \in {"booting", "up"}
  PROVE  LET c == Fresh(p, version, state)
             port == IF ProductOf[Target(p)] = "k3d" THEN mem[p].port ELSE 0
         IN  /\ c \in Clusters /\ c.state = state /\ c.by = p /\ c.version = version
             /\ c.saved = Missing /\ c.hosting = port /\ c.wired = port
<1> DEFINE port == IF ProductOf[Target(p)] = "k3d" THEN mem[p].port ELSE 0
<1>1. port \in Ports \cup {0}
  BY MemoryType
<1> HIDE DEF port
<1>2. LET c == [NoCluster EXCEPT !.state = state, !.by = p, !.version = version, !.hosting = port, !.wired = port]
      IN  /\ c \in Clusters /\ c.state = state /\ c.by = p /\ c.version = version
          /\ c.saved = Missing /\ c.hosting = port /\ c.wired = port
  BY <1>1, BlankType DEF Clusters, NoCluster
<1> QED
  BY <1>2 DEF Fresh, port

LEMMA ClusterStays ==
  ASSUME TypeOK, NEW p \in Procs, UNCHANGED cluster
  PROVE  cluster' \in [Names -> Clusters] /\ \A m \in Names \ {Target(p)} : Spares(m)
BY DEF TypeOK, Spares

LEMMA ClusterChanges ==
  ASSUME TypeOK, NEW p \in Procs, NEW c \in Clusters, cluster' = [cluster EXCEPT ![Target(p)] = c]
  PROVE  /\ cluster' \in [Names -> Clusters] /\ cluster'[Target(p)] = c
         /\ \A m \in Names \ {Target(p)} : Spares(m)
BY RequestType DEF TypeOK, Spares

LEMMA ContextStays ==
  ASSUME TypeOK, NEW p \in Procs, UNCHANGED context
  PROVE  context' \in [Names -> Entries] /\ \A m \in Names \ {Target(p)} : context'[m] = context[m]
BY DEF TypeOK

\* Docker's engine is restarted with a new cluster of Docker Desktop, or under the
\* cluster that is there, or not at all.
LEMMA RestartMoves ==
  ASSUME TypeOK, NEW p \in Procs, Restart(p)
  PROVE  /\ at[p] = "restart" /\ Moves(p) /\ UNCHANGED <<context, current, reg, joined>>
         /\ \/ ~CanRestart(p) /\ at'[p] = "failed" /\ UNCHANGED cluster
            \/ /\ CanRestart(p) /\ at'[p] = "registry" /\ mem'[p] = mem[p]
               /\ \/ cluster'[Target(p)] = cluster[Target(p)]
                  \/ /\ NeedsRestart(Wanted(p), mem[p].old) /\ LocalDesktop
                     /\ cluster'[Target(p)] = Stopped(cluster[Target(p)]) /\ Target(p) \in disturbed'
                  \/ /\ Wanted(p).product = "docker-desktop" /\ ~Exists(Target(p))
                     /\ cluster'[Target(p)] = Fresh(p, DefaultVersion, "booting")
         /\ disturbed' \subseteq Names /\ disturbed \subseteq disturbed'
<1> DEFINE n == Target(p)
           c == Fresh(p, DefaultVersion, "booting")
           with == [cluster EXCEPT ![n] = c]
           needs == NeedsRestart(Wanted(p), mem[p].old) /\ LocalDesktop
<1>1. /\ at[p] = "restart" /\ UNCHANGED <<context, current, reg, joined, req>>
      /\ \/ ~CanRestart(p) /\ Return(p, "failed") /\ UNCHANGED <<cluster, cpus, disturbed>>
         \/ /\ CanRestart(p) /\ Goto(p, "registry") /\ UNCHANGED mem
            /\ cpus' \in {cpus, Wanted(p).cpus}
            /\ \/ UNCHANGED <<cluster, disturbed>>
               \/ needs /\ EngineRestarts(cluster)
               \/ Wanted(p).product = "docker-desktop" /\ ~Exists(n) /\ EngineRestarts(with)
  BY DEF Restart, MoreCPUs, SwitchesOn
<1>2. n \in Names /\ c \in Clusters /\ c.state = "booting"
  BY FreshType, RequestType DEF AllVersions
<1>3. Wanted(p).cpus \in Nat
  BY RequestType DEF IsRequest
<1>4. context' \in [Names -> Entries] /\ (\A m \in Names \ {n} : context'[m] = context[m])
  BY <1>1, ContextStays
<1>5. current' \in Names \cup {""} /\ joined' \in BOOLEAN /\ reg' \in Ports \cup {0} /\ reg' = reg
  BY <1>1 DEF TypeOK
<1>6. CASE ~CanRestart(p) /\ Return(p, "failed") /\ UNCHANGED <<cluster, cpus, disturbed>>
  <2>1. Moves(p)
    BY <1>1, <1>4, <1>5, <1>6, Returns, ReturningType, ClusterStays, ActingMoves DEF TypeOK, Over
  <2> QED
    BY <1>1, <1>6, <2>1, Returns DEF TypeOK
<1>7. CASE CanRestart(p) /\ Goto(p, "registry") /\ UNCHANGED mem /\ at'[p] # "failed"
  <2>1. /\ cluster' \in [Names -> Clusters] /\ \A m \in Names \ {n} : Spares(m)
        /\ \/ cluster'[n] = cluster[n]
           \/ needs /\ cluster'[n] = Stopped(cluster[n]) /\ n \in disturbed'
           \/ Wanted(p).product = "docker-desktop" /\ ~Exists(n) /\ cluster'[n] = c
        /\ disturbed' \subseteq Names /\ disturbed \subseteq disturbed'
    <3>1. CASE UNCHANGED <<cluster, disturbed>>
      BY <3>1, ClusterStays DEF TypeOK
    <3>2. CASE needs /\ EngineRestarts(cluster)
      BY <1>2, <3>2, EngineRestartSays DEF TypeOK, Spares
    <3>3. CASE Wanted(p).product = "docker-desktop" /\ ~Exists(n) /\ EngineRestarts(with)
      <4>1. with \in [Names -> Clusters] /\ with[n] = c /\ \A m \in Names \ {n} : with[m] = cluster[m]
        BY <1>2 DEF TypeOK
      <4> HIDE DEF with
      <4>2. /\ cluster' \in [Names -> Clusters] /\ disturbed' \subseteq Names /\ disturbed \subseteq disturbed'
            /\ \A m \in Names : cluster'[m] = Stopped(with[m]) /\ (cluster'[m] = with[m] \/ m \in disturbed')
        BY <3>3, <4>1, EngineRestartSays DEF TypeOK
      <4>3. Stopped(c) = c
        BY <1>2 DEF Stopped
      <4>4. cluster'[n] = c
        BY <1>2, <4>1, <4>2, <4>3
      <4>5. \A m \in Names \ {n} : Spares(m)
        BY <4>1, <4>2 DEF Spares
      <4> QED
        BY <3>3, <4>2, <4>4, <4>5
    <3> QED
      BY <1>1, <1>7, <3>1, <3>2, <3>3, Returns
  <2>2. at' \in [Procs -> {"idle"} \cup InFlight \cup Over] /\ at'[p] = "registry" /\ \A q \in Procs \ {p} : at'[q] = at[q]
    BY <1>7, Goes, GoingType DEF InFlight
  <2>3. cpus' \in Nat
    BY <1>1, <1>3 DEF TypeOK
  <2>4. Moves(p)
    BY <1>1, <1>4, <1>5, <1>7, <2>1, <2>2, <2>3, MemoryStays, ActingMoves
  <2> QED
    BY <1>1, <1>7, <2>1, <2>2, <2>4 DEF c
<1>8. Goto(p, "registry") => at'[p] # "failed"
  BY Goes
<1> QED
  BY <1>1, <1>6, <1>7, <1>8

LEMMA EnsureRegistryMoves ==
  ASSUME TypeOK, NEW p \in Procs, EnsureRegistry(p)
  PROVE  /\ at[p] = "registry" /\ Moves(p) /\ UNCHANGED <<cluster, context, current, cpus>>
         /\ at'[p] = IF NeedsCreate(Wanted(p), mem[p].old) THEN "orphan" ELSE "setctx"
         /\ IF Wanted(p).registry
              THEN /\ reg' # 0 /\ (reg # 0 => joined' = joined)
                   /\ mem'[p].port = reg' /\ mem'[p].joined = joined'
              ELSE UNCHANGED <<reg, joined>> /\ mem'[p].port = mem[p].port /\ mem'[p].joined = mem[p].joined
         /\ /\ mem'[p].config = mem[p].config /\ mem'[p].old = mem[p].old
            /\ mem'[p].todo = mem[p].todo /\ mem'[p].was = mem[p].was
<1> DEFINE m == [mem[p] EXCEPT !.port = reg', !.joined = joined']
           x == IF NeedsCreate(Wanted(p), mem[p].old) THEN "orphan" ELSE "setctx"
<1>1. at[p] = "registry" /\ UNCHANGED <<cluster, context, current, cpus, req>> /\ Goto(p, x)
  BY DEF EnsureRegistry
<1>2. IF Wanted(p).registry
        THEN /\ reg' \in IF reg # 0 THEN {reg} ELSE Ports
             /\ joined' = (joined /\ reg # 0)
             /\ mem' = [mem EXCEPT ![p] = m]
        ELSE UNCHANGED <<reg, joined, mem>>
  BY DEF EnsureRegistry
<1>3. reg' \in Ports \cup {0} /\ (reg # 0 => reg' = reg) /\ (Wanted(p).registry => reg' # 0)
  BY <1>2, ClusterAssumption DEF TypeOK, ClusterAssumption
<1>4. joined' \in BOOLEAN /\ (reg # 0 => joined' = joined)
  BY <1>2 DEF TypeOK
<1>5. /\ m \in Memories /\ m.port = reg' /\ m.joined = joined'
      /\ m.config = mem[p].config /\ m.old = mem[p].old /\ m.todo = mem[p].todo /\ m.was = mem[p].was
  BY <1>3, <1>4, MemoryType DEF Memories
<1>6. x \in {"idle"} \cup InFlight \cup Over
  BY DEF InFlight
<1> HIDE DEF m, x
<1>7. /\ mem' \in [Procs -> Memories] /\ (\A q \in Procs \ {p} : mem'[q] = mem[q])
      /\ mem'[p] = IF Wanted(p).registry THEN m ELSE mem[p]
  BY <1>2, <1>5, MemoryStays, MemoryChanges
<1>8. Moves(p)
  BY <1>1, <1>3, <1>4, <1>6, <1>7, Goes, GoingType, ClusterStays, ContextStays, ActingMoves DEF TypeOK
<1> QED
  BY <1>1, <1>2, <1>3, <1>4, <1>5, <1>7, <1>8, Goes DEF x

LEMMA ClearOrphanMoves ==
  ASSUME TypeOK, NEW p \in Procs, ClearOrphan(p)
  PROVE  /\ at[p] = "orphan" /\ Moves(p) /\ UNCHANGED <<current, reg, joined, cpus>>
         /\ \/ /\ Wanted(p).product # ProductOf[Target(p)] /\ at'[p] = "failed"
               /\ UNCHANGED <<cluster, context>>
            \/ /\ Wanted(p).product = ProductOf[Target(p)] /\ at'[p] = "create" /\ mem'[p] = mem[p]
               /\ IF SupportsRegistry(Wanted(p).product) /\ Exists(Target(p))
                    THEN cluster'[Target(p)] = NoCluster /\ context'[Target(p)] = NoContext
                    ELSE UNCHANGED <<cluster, context>>
<1>1. at[p] = "orphan" /\ UNCHANGED <<current, reg, joined, cpus, req>>
  BY DEF ClearOrphan
<1>2. CASE Wanted(p).product # ProductOf[Target(p)] /\ Return(p, "failed") /\ UNCHANGED <<cluster, context>>
  <2>1. Moves(p)
    BY <1>1, <1>2, Returns, ReturningType, ClusterStays, ContextStays, ActingMoves DEF TypeOK, Over
  <2> QED
    BY <1>1, <1>2, <2>1, Returns
<1>3. CASE /\ Wanted(p).product = ProductOf[Target(p)] /\ Goto(p, "create") /\ UNCHANGED mem
           /\ IF SupportsRegistry(Wanted(p).product) /\ Exists(Target(p))
                THEN RemoveCluster(Target(p))
                ELSE UNCHANGED <<cluster, context>>
  <2>1. at' \in [Procs -> {"idle"} \cup InFlight \cup Over] /\ at'[p] = "create" /\ \A q \in Procs \ {p} : at'[q] = at[q]
    BY <1>3, Goes, GoingType DEF InFlight
  <2>2. CASE SupportsRegistry(Wanted(p).product) /\ Exists(Target(p))
    <3>1. ProductOf[Target(p)] # "docker-desktop"
      BY <1>3, <2>2 DEF SupportsRegistry
    <3>2. /\ cluster' \in [Names -> Clusters] /\ cluster'[Target(p)] = NoCluster
          /\ \A m \in Names \ {Target(p)} : cluster'[m] = cluster[m]
          /\ context' \in [Names -> Entries] /\ context'[Target(p)] = NoContext
          /\ \A m \in Names \ {Target(p)} : context'[m] = context[m]
      BY <1>3, <2>2, <3>1, RemovedCluster, RequestType
    <3>3. Moves(p)
      BY <1>1, <1>3, <2>1, <3>2, MemoryStays, ActingMoves DEF TypeOK, Spares
    <3> QED
      BY <1>1, <1>3, <2>1, <2>2, <3>2, <3>3
  <2>3. CASE ~(SupportsRegistry(Wanted(p).product) /\ Exists(Target(p))) /\ UNCHANGED <<cluster, context>>
    <3>1. Moves(p)
      BY <1>1, <1>3, <2>1, <2>3, MemoryStays, ClusterStays, ContextStays, ActingMoves DEF TypeOK
    <3> QED
      BY <1>1, <1>3, <2>1, <2>3, <3>1
  <2> QED
    BY <1>3, <2>2, <2>3
<1> QED
  BY <1>2, <1>3 DEF ClearOrphan

LEMMA InstallsType == \A spec : Installs(spec) \subseteq AllVersions
BY DEF Installs, AllVersions

\* The cluster and the context as the tool leaves them.
LEMMA ToolCreatesMoves ==
  ASSUME TypeOK, NEW p \in Procs, NEW version \in AllVersions, NEW state \in {"booting", "up"},
         ToolCreates(p, version, state)
  PROVE  /\ cluster' \in [Names -> Clusters]
         /\ \A m \in Names \ {Target(p)} : cluster'[m] = cluster[m]
         /\ context' \in [Names -> Entries]
         /\ \A m \in Names \ {Target(p)} : context'[m] = context[m]
         /\ current' \in Names \cup {""}
         /\ cluster'[Target(p)] = Fresh(p, version, state)
         /\ IF ProductOf[Target(p)] = "docker-desktop"
              THEN UNCHANGED <<context, current>>
              ELSE context'[Target(p)] = [product |-> Wanted(p).product, by |-> p] /\ current' = Target(p)
<1> DEFINE e == [product |-> Wanted(p).product, by |-> p]
           c == Fresh(p, version, state)
<1>1. cluster' = [cluster EXCEPT ![Target(p)] = c]
  BY DEF ToolCreates, Update
<1>2. c \in Clusters
  BY FreshType
<1>3. e \in Entries
  BY RequestType DEF Entries, IsRequest
<1>4. IF ProductOf[Target(p)] = "docker-desktop"
        THEN UNCHANGED <<context, current>>
        ELSE SetEntry(Target(p), e) /\ current' = Target(p)
  BY DEF ToolCreates
<1> HIDE DEF c, e
<1>5. /\ context' \in [Names -> Entries] /\ \A m \in Names \ {Target(p)} : context'[m] = context[m]
      /\ current' \in Names \cup {""}
      /\ IF ProductOf[Target(p)] = "docker-desktop"
           THEN UNCHANGED <<context, current>>
           ELSE context'[Target(p)] = e /\ current' = Target(p)
  <2>1. CASE ProductOf[Target(p)] = "docker-desktop"
    BY <1>4, <2>1, ContextStays DEF TypeOK
  <2>2. CASE ProductOf[Target(p)] # "docker-desktop"
    <3>1. Target(p) \in Names
      BY RequestType
    <3>2. context' = [context EXCEPT ![Target(p)] = e]
      BY <1>4, <2>2 DEF SetEntry
    <3>3. context' \in [Names -> Entries]
      BY <1>3, <3>2 DEF TypeOK
    <3> QED
      BY <1>4, <2>2, <3>1, <3>3, SetsEntry
  <2> QED
    BY <2>1, <2>2
<1> QED
  BY <1>1, <1>2, <1>5, RequestType, Updates, ClusterChanges DEF c, e

LEMMA CreateMoves ==
  ASSUME TypeOK, NEW p \in Procs, Create(p)
  PROVE  /\ at[p] = "create" /\ Moves(p) /\ UNCHANGED <<reg, joined, cpus>>
         /\ \/ ~CanCreate(p) /\ at'[p] = "failed" /\ UNCHANGED <<cluster, context, current>>
            \/ /\ CanCreate(p) /\ mem'[p] = mem[p]
               /\ at'[p] = IF Wanted(p).registry /\ Wanted(p).product = "kind" THEN "connect" ELSE "waitctx"
               /\ \E version \in Installs(Wanted(p)), state \in {"booting", "up"} :
                    cluster'[Target(p)] = Fresh(p, version, state)
               /\ IF ProductOf[Target(p)] = "docker-desktop"
                    THEN UNCHANGED <<context, current>>
                    ELSE context'[Target(p)] = [product |-> Wanted(p).product, by |-> p] /\ current' = Target(p)
<1>1. at[p] = "create" /\ UNCHANGED <<reg, joined, cpus, req>>
  BY DEF Create
<1>2. CASE ~CanCreate(p) /\ Return(p, "failed") /\ UNCHANGED <<cluster, context, current>>
  <2>1. Moves(p)
    BY <1>1, <1>2, Returns, ReturningType, ClusterStays, ContextStays, ActingMoves DEF TypeOK, Over
  <2> QED
    BY <1>1, <1>2, <2>1, Returns
<1>3. CASE /\ CanCreate(p) /\ UNCHANGED mem
           /\ \E version \in Installs(Wanted(p)), state \in {"booting", "up"} : ToolCreates(p, version, state)
           /\ Goto(p, IF Wanted(p).registry /\ Wanted(p).product = "kind" THEN "connect" ELSE "waitctx")
  <2> DEFINE x == IF Wanted(p).registry /\ Wanted(p).product = "kind" THEN "connect" ELSE "waitctx"
  <2>1. PICK version \in Installs(Wanted(p)), state \in {"booting", "up"} : ToolCreates(p, version, state)
    BY <1>3
  <2>2. x \in InFlight
    BY DEF InFlight
  <2>3. Goto(p, x)
    BY <1>3
  <2> HIDE DEF x
  <2>4. at' \in [Procs -> {"idle"} \cup InFlight \cup Over] /\ at'[p] = x /\ \A q \in Procs \ {p} : at'[q] = at[q]
    BY <2>2, <2>3, Goes, GoingType
  <2>5. version \in AllVersions
    BY <2>1, InstallsType
  <2>6. Moves(p)
    <3>1. ToolCreates(p, version, state)
      BY <2>1
    <3>4. cluster' \in [Names -> Clusters] /\ \A m \in Names \ {Target(p)} : Spares(m)
      <4>1. cluster' \in [Names -> Clusters]
        BY <2>5, <3>1, ToolCreatesMoves
      <4>2. \A m \in Names \ {Target(p)} : cluster'[m] = cluster[m]
        BY <3>1, RequestType DEF ToolCreates, Update, TypeOK
      <4> QED
        BY <4>1, <4>2 DEF Spares
    <3>5. context' \in [Names -> Entries] /\ \A m \in Names \ {Target(p)} : context'[m] = context[m]
      BY ZenonT(40), <2>5, <3>1, ToolCreatesMoves
    <3>6. current' \in Names \cup {""}
      BY <2>5, <3>1, ToolCreatesMoves
    <3>2. mem' \in [Procs -> Memories] /\ \A q \in Procs \ {p} : mem'[q] = mem[q]
      BY <1>3, MemoryStays
    <3>3. UNCHANGED req /\ reg' \in Ports \cup {0} /\ (reg # 0 => reg' = reg) /\ joined' \in BOOLEAN /\ cpus' \in Nat
      BY <1>1 DEF TypeOK
    <3> QED
      BY <2>4, <3>2, <3>3, <3>4, <3>5, <3>6, ActingMoves
  <2>7. /\ cluster'[Target(p)] = Fresh(p, version, state)
        /\ IF ProductOf[Target(p)] = "docker-desktop"
             THEN UNCHANGED <<context, current>>
             ELSE context'[Target(p)] = [product |-> Wanted(p).product, by |-> p] /\ current' = Target(p)
    BY ZenonT(40), <2>1, <2>5, ToolCreatesMoves
  <2>8. mem'[p] = mem[p]
    BY <1>3
  <2>9. at'[p] = IF Wanted(p).registry /\ Wanted(p).product = "kind" THEN "connect" ELSE "waitctx"
    BY <2>4 DEF x
  <2> QED
    BY <1>1, <1>3, <2>1, <2>6, <2>7, <2>8, <2>9
<1> QED
  BY <1>2, <1>3 DEF Create

LEMMA ConnectMoves ==
  ASSUME TypeOK, NEW p \in Procs, Connect(p)
  PROVE  /\ at[p] = "connect" /\ Moves(p) /\ UNCHANGED <<context, current, reg, cpus>>
         /\ \/ /\ ~mem[p].joined /\ (reg = 0 \/ joined)
               /\ at'[p] = "failed" /\ UNCHANGED cluster
            \/ /\ at'[p] = "waitctx" /\ mem'[p] = mem[p]
               /\ IF Exists(Target(p))
                    THEN cluster'[Target(p)] = [cluster[Target(p)] EXCEPT !.wired = mem[p].port]
                    ELSE UNCHANGED cluster
<1> DEFINE c == [cluster[Target(p)] EXCEPT !.wired = mem[p].port]
<1>1. /\ at[p] = "connect" /\ UNCHANGED <<context, current, reg, cpus, req>>
      /\ joined' \in BOOLEAN
      /\ \/ /\ IF Exists(Target(p)) THEN cluster' = [cluster EXCEPT ![Target(p)] = c] ELSE UNCHANGED cluster
            /\ Goto(p, "waitctx") /\ UNCHANGED mem
         \/ /\ ~mem[p].joined /\ (reg = 0 \/ joined)
            /\ Return(p, "failed") /\ UNCHANGED cluster
  BY DEF Connect, TypeOK
<1>2. c \in Clusters
  BY RequestType, ClusterType, MemoryType DEF Clusters
<1> HIDE DEF c
<1>3. CASE /\ IF Exists(Target(p)) THEN cluster' = [cluster EXCEPT ![Target(p)] = c] ELSE UNCHANGED cluster
           /\ Goto(p, "waitctx") /\ UNCHANGED mem
  <2>1. "waitctx" \in {"idle"} \cup InFlight \cup Over
    BY DEF InFlight
  <2>2. /\ cluster' \in [Names -> Clusters] /\ \A m \in Names \ {Target(p)} : Spares(m)
        /\ IF Exists(Target(p)) THEN cluster'[Target(p)] = c ELSE UNCHANGED cluster
    BY <1>2, <1>3, ClusterStays, ClusterChanges
  <2>3. Moves(p)
    BY <1>1, <1>3, <2>1, <2>2, Goes, GoingType, MemoryStays, ContextStays, ActingMoves DEF TypeOK
  <2> QED
    BY <1>1, <1>3, <2>2, <2>3, Goes DEF c
<1>4. CASE /\ ~mem[p].joined /\ (reg = 0 \/ joined)
           /\ Return(p, "failed") /\ UNCHANGED cluster
  <2>1. Moves(p)
    BY <1>1, <1>4, Returns, ReturningType, ClusterStays, ContextStays, ActingMoves DEF TypeOK, Over
  <2> QED
    BY <1>1, <1>4, <2>1, Returns
<1> QED
  BY <1>1, <1>3, <1>4

\* The steps that wait and configure.

LEMMA AwaitContextMoves ==
  ASSUME TypeOK, NEW p \in Procs, AwaitContext(p)
  PROVE  /\ at[p] = "waitctx" /\ at'[p] = "setctx" /\ Thinks(p)
         /\ context[Target(p)] # NoContext
         /\ Learns(p, mem'[p], context, mem[p].old, mem[p].todo)
<1> DEFINE m == [mem[p] EXCEPT !.config = context]
<1>1. m \in Memories /\ Learns(p, m, context, mem[p].old, mem[p].todo)
  BY MemoryType DEF Memories, TypeOK, Learns
<1>2. mem' = [mem EXCEPT ![p] = m]
  BY DEF AwaitContext
<1> HIDE DEF m
<1> QED
  BY <1>1, <1>2, PlainRemembering DEF AwaitContext, InFlight

LEMMA SetContextMoves ==
  ASSUME TypeOK, NEW p \in Procs, SetContext(p)
  PROVE  /\ at[p] = "setctx" /\ Moves(p) /\ UNCHANGED <<cluster, context, reg, joined, cpus>>
         /\ \/ context[Target(p)] = NoContext /\ at'[p] = "failed"
            \/ /\ context[Target(p)] # NoContext /\ current' = Target(p)
               /\ at'[p] = IF NeedsCreate(Wanted(p), mem[p].old) THEN "waithealth" ELSE "final"
               /\ Learns(p, mem'[p], context, mem[p].old, mem[p].todo)
<1> DEFINE m == [mem[p] EXCEPT !.config = context]
           x == IF NeedsCreate(Wanted(p), mem[p].old) THEN "waithealth" ELSE "final"
<1>1. /\ at[p] = "setctx" /\ UNCHANGED <<cluster, context, reg, joined, cpus, req>>
      /\ \/ /\ context[Target(p)] # NoContext /\ current' = Target(p)
            /\ Goto(p, x) /\ mem' = [mem EXCEPT ![p] = m]
         \/ context[Target(p)] = NoContext /\ Return(p, "failed") /\ UNCHANGED current
  BY DEF SetContext
<1>2. m \in Memories /\ Learns(p, m, context, mem[p].old, mem[p].todo)
  BY MemoryType DEF Memories, TypeOK, Learns
<1>3. x \in {"idle"} \cup InFlight \cup Over
  BY DEF InFlight
<1>4. Target(p) \in Names
  BY RequestType
<1> HIDE DEF m, x
<1>5. CASE /\ context[Target(p)] # NoContext /\ current' = Target(p)
           /\ Goto(p, x) /\ mem' = [mem EXCEPT ![p] = m]
  <2>1. Moves(p)
    BY <1>1, <1>2, <1>3, <1>4, <1>5, Goes, GoingType, MemoryChanges, ClusterStays, ContextStays, ActingMoves DEF TypeOK
  <2> QED
    BY <1>1, <1>2, <1>5, <2>1, Goes, MemoryChanges DEF x
<1>6. CASE context[Target(p)] = NoContext /\ Return(p, "failed") /\ UNCHANGED current
  <2>1. Moves(p)
    BY <1>1, <1>6, Returns, ReturningType, ClusterStays, ContextStays, ActingMoves DEF TypeOK, Over
  <2> QED
    BY <1>1, <1>6, <2>1, Returns
<1> QED
  BY <1>1, <1>5, <1>6

LEMMA AwaitHealthMoves ==
  ASSUME TypeOK, NEW p \in Procs, AwaitHealth(p)
  PROVE  /\ at[p] = "waithealth" /\ at'[p] = "delspec" /\ Thinks(p)
         /\ Reachable(p) /\ mem'[p] = mem[p]
BY PlainGoing DEF AwaitHealth, InFlight

LEMMA GivingUpMoves ==
  ASSUME TypeOK, NEW p \in Procs, TimeOut(p) \/ Unreachable(p) \/ Finish(p) \/ Fail(p)
  PROVE  /\ at[p] \in InFlight /\ Thinks(p)
         /\ TimeOut(p) => at'[p] = "timedout"
         /\ Unreachable(p) => at[p] \in {"delspec", "newspec", "hosting"} /\ ~Reachable(p) /\ at'[p] = "failed"
         /\ Finish(p) => at[p] = "final" /\ at'[p] = "done"
         /\ Fail(p) => at'[p] = "broken"
<1>1. at[p] \in InFlight
  BY DEF TimeOut, Unreachable, Finish, Fail, InFlight
<1>2. ASSUME NEW x \in Over, Return(p, x), UNCHANGED <<world, req>>
      PROVE  Thinks(p) /\ at'[p] = x
  BY <1>2, PlainReturning
<1>3. \A x : Return(p, x) => at'[p] = x
  BY Returns
<1> QED
  BY <1>1, <1>2, <1>3 DEF TimeOut, Unreachable, Finish, Fail, Over

LEMMA DieCreatingMoves ==
  ASSUME TypeOK, NEW p \in Procs, DieCreating(p)
  PROVE  at[p] = "create" /\ at'[p] = "broken" /\ Moves(p)
         /\ (context'[Target(p)] = context[Target(p)] \/ context'[Target(p)].product = Wanted(p).product)
<1>1. PICK version \in Installs(Wanted(p)) : ToolCreates(p, version, "booting")
  BY DEF DieCreating
<1>2. version \in AllVersions
  BY <1>1, InstallsType
<1>3. /\ at' \in [Procs -> {"idle"} \cup InFlight \cup Over] /\ at'[p] = "broken" /\ \A q \in Procs \ {p} : at'[q] = at[q]
      /\ mem' \in [Procs -> Memories] /\ \A q \in Procs \ {p} : mem'[q] = mem[q]
      /\ at[p] = "create"
  BY Returns, ReturningType DEF DieCreating, Over
<1>4. UNCHANGED <<reg, joined, cpus, req>>
  BY DEF DieCreating
<1>5. Moves(p)
  BY <1>1, <1>2, <1>3, <1>4, ToolCreatesMoves, ActingMoves DEF TypeOK, Spares
<1>6. IF ProductOf[Target(p)] = "docker-desktop"
        THEN UNCHANGED <<context, current>>
        ELSE context'[Target(p)] = [product |-> Wanted(p).product, by |-> p] /\ current' = Target(p)
  BY <1>1, <1>2, ToolCreatesMoves
<1> QED
  BY <1>3, <1>5, <1>6

LEMMA DeleteSpecMoves ==
  ASSUME TypeOK, NEW p \in Procs, DeleteSpec(p)
  PROVE  /\ at[p] = "delspec" /\ at'[p] = "newspec" /\ Moves(p) /\ UNCHANGED <<context, current, reg, joined, cpus>>
         /\ Reachable(p) /\ mem'[p] = mem[p]
         /\ cluster'[Target(p)] = [cluster[Target(p)] EXCEPT !.saved = Missing]
<1> DEFINE c == [cluster[Target(p)] EXCEPT !.saved = Missing]
<1>1. /\ at[p] = "delspec" /\ Reachable(p) /\ UNCHANGED <<context, current, reg, joined, cpus, req, mem>>
      /\ cluster' = [cluster EXCEPT ![Target(p)] = c] /\ Goto(p, "newspec")
  BY DEF DeleteSpec
<1>2. c \in Clusters
  BY RequestType, ClusterType DEF Clusters
<1> HIDE DEF c
<1>3. "newspec" \in {"idle"} \cup InFlight \cup Over
  BY DEF InFlight
<1>4. Moves(p)
  BY <1>1, <1>2, <1>3, Goes, GoingType, MemoryStays, ClusterChanges, ContextStays, ActingMoves DEF TypeOK
<1> QED
  BY <1>1, <1>2, <1>4, Goes, ClusterChanges DEF c

LEMMA CreateSpecMoves ==
  ASSUME TypeOK, NEW p \in Procs, CreateSpec(p)
  PROVE  /\ at[p] = "newspec" /\ Moves(p) /\ UNCHANGED <<context, current, reg, joined, cpus>>
         /\ Reachable(p)
         /\ \/ cluster[Target(p)].saved # Missing /\ at'[p] = "failed" /\ UNCHANGED cluster
            \/ /\ cluster[Target(p)].saved = Missing /\ mem'[p] = mem[p]
               /\ at'[p] = IF Wanted(p).registry /\ Wanted(p).product = "kind" THEN "hosting" ELSE "final"
               /\ cluster'[Target(p)] = [cluster[Target(p)] EXCEPT !.saved = Wanted(p).config]
<1> DEFINE c == [cluster[Target(p)] EXCEPT !.saved = Wanted(p).config]
           x == IF Wanted(p).registry /\ Wanted(p).product = "kind" THEN "hosting" ELSE "final"
<1>1. /\ at[p] = "newspec" /\ Reachable(p) /\ UNCHANGED <<context, current, reg, joined, cpus, req>>
      /\ \/ /\ cluster[Target(p)].saved = Missing
            /\ cluster' = [cluster EXCEPT ![Target(p)] = c] /\ Goto(p, x) /\ UNCHANGED mem
         \/ cluster[Target(p)].saved # Missing /\ Return(p, "failed") /\ UNCHANGED cluster
  BY DEF CreateSpec
<1>2. c \in Clusters
  BY RequestType, ClusterType DEF Clusters
<1>3. x \in {"idle"} \cup InFlight \cup Over
  BY DEF InFlight
<1> HIDE DEF c, x
<1>4. CASE /\ cluster[Target(p)].saved = Missing
           /\ cluster' = [cluster EXCEPT ![Target(p)] = c] /\ Goto(p, x) /\ UNCHANGED mem
  <2>1. Moves(p)
    BY <1>1, <1>2, <1>3, <1>4, Goes, GoingType, MemoryStays, ClusterChanges, ContextStays, ActingMoves DEF TypeOK
  <2> QED
    BY <1>1, <1>2, <1>4, <2>1, Goes, ClusterChanges DEF x, c
<1>5. CASE cluster[Target(p)].saved # Missing /\ Return(p, "failed") /\ UNCHANGED cluster
  <2>1. Moves(p)
    BY <1>1, <1>5, Returns, ReturningType, ClusterStays, ContextStays, ActingMoves DEF TypeOK, Over
  <2> QED
    BY <1>1, <1>5, <2>1, Returns
<1> QED
  BY <1>1, <1>4, <1>5

LEMMA CreateHostingMoves ==
  ASSUME TypeOK, NEW p \in Procs, CreateHosting(p)
  PROVE  /\ at[p] = "hosting" /\ Moves(p) /\ UNCHANGED <<context, current, reg, joined, cpus>>
         /\ Reachable(p)
         /\ \/ cluster[Target(p)].hosting # 0 /\ at'[p] = "failed" /\ UNCHANGED cluster
            \/ /\ cluster[Target(p)].hosting = 0 /\ at'[p] = "final" /\ mem'[p] = mem[p]
               /\ cluster'[Target(p)] = [cluster[Target(p)] EXCEPT !.hosting = mem[p].port]
<1> DEFINE c == [cluster[Target(p)] EXCEPT !.hosting = mem[p].port]
<1>1. /\ at[p] = "hosting" /\ Reachable(p) /\ UNCHANGED <<context, current, reg, joined, cpus, req>>
      /\ \/ /\ cluster[Target(p)].hosting = 0
            /\ cluster' = [cluster EXCEPT ![Target(p)] = c] /\ Goto(p, "final") /\ UNCHANGED mem
         \/ cluster[Target(p)].hosting # 0 /\ Return(p, "failed") /\ UNCHANGED cluster
  BY DEF CreateHosting
<1>2. c \in Clusters
  BY RequestType, ClusterType, MemoryType DEF Clusters
<1>3. "final" \in {"idle"} \cup InFlight \cup Over
  BY DEF InFlight
<1> HIDE DEF c
<1>4. CASE /\ cluster[Target(p)].hosting = 0
           /\ cluster' = [cluster EXCEPT ![Target(p)] = c] /\ Goto(p, "final") /\ UNCHANGED mem
  <2>1. Moves(p)
    BY <1>1, <1>2, <1>3, <1>4, Goes, GoingType, MemoryStays, ClusterChanges, ContextStays, ActingMoves DEF TypeOK
  <2> QED
    BY <1>1, <1>2, <1>4, <2>1, Goes, ClusterChanges DEF c
<1>5. CASE cluster[Target(p)].hosting # 0 /\ Return(p, "failed") /\ UNCHANGED cluster
  <2>1. Moves(p)
    BY <1>1, <1>5, Returns, ReturningType, ClusterStays, ContextStays, ActingMoves DEF TypeOK, Over
  <2> QED
    BY <1>1, <1>5, <2>1, Returns
<1> QED
  BY <1>1, <1>4, <1>5

-------------------------------------------------------------------------------
(***************************************************************************)
(* The type invariant.                                                     *)
(***************************************************************************)

LEMMA StepMoves == ASSUME TypeOK, NEW p \in Procs, Step(p) \/ Fault(p) PROVE Moves(p)
<1>1. CASE Begin(p) \/ CheckNew(p) \/ EnsureMachine(p) \/ Get(p)
  BY <1>1, BeginMoves, CheckNewMoves, EnsureMachineMoves, GetMoves DEF Thinks
<1>2. CASE ReadPart(p) \/ GiveUpReading(p) \/ Populated(p) \/ Decide(p) \/ Lookup(p) \/ FindDoomed(p)
  BY <1>2, ReadPartMoves, StopReadingMoves, PopulatedMoves, DecideMoves, LookupMoves, FindDoomedMoves DEF Thinks
<1>3. CASE AdminDelete(p) \/ Reload(p) \/ DeleteContext(p) \/ Restart(p) \/ EnsureRegistry(p)
  BY <1>3, AdminDeleteMoves, ReloadMoves, DeleteContextMoves, RestartMoves, EnsureRegistryMoves DEF Thinks
<1>4. CASE ClearOrphan(p) \/ Create(p) \/ Connect(p) \/ AwaitContext(p) \/ SetContext(p) \/ AwaitHealth(p)
  BY <1>4, ClearOrphanMoves, CreateMoves, ConnectMoves, AwaitContextMoves, SetContextMoves, AwaitHealthMoves DEF Thinks
<1>5. CASE TimeOut(p) \/ Unreachable(p) \/ Finish(p) \/ DeleteSpec(p) \/ CreateSpec(p) \/ CreateHosting(p)
  BY <1>5, GivingUpMoves, DeleteSpecMoves, CreateSpecMoves, CreateHostingMoves DEF Thinks
<1>6. CASE Fault(p)
  BY <1>6, GivingUpMoves, DieCreatingMoves, GetMoves, StopReadingMoves DEF Fault, Thinks
<1> QED
  BY <1>1, <1>2, <1>3, <1>4, <1>5, <1>6 DEF Step

\* Only a fault, a timeout and a restart of Docker's engine disturb.
LEMMA StepDisturbs ==
  ASSUME TypeOK, NEW p \in Procs, Step(p) \/ Fault(p)
  PROVE  disturbed' \subseteq Names /\ disturbed \subseteq disturbed'
<1>0. Target(p) \in Names /\ disturbed \subseteq Names
  BY RequestType DEF TypeOK
<1>1. CASE Fault(p)
  BY <1>0, <1>1 DEF Fault, Disturb
<1>2. CASE TimeOut(p)
  BY <1>0, <1>2 DEF TimeOut, Disturb
<1>3. CASE AdminDelete(p)
  <2> DEFINE without == [cluster EXCEPT ![Target(p)] = NoCluster]
  <2>1. EngineRestarts(without) \/ UNCHANGED disturbed
    BY <1>3 DEF AdminDelete
  <2>2. without \in [Names -> Clusters]
    BY <1>0, BlankType DEF TypeOK
  <2> HIDE DEF without
  <2> QED
    BY <1>0, <2>1, <2>2, EngineRestartSays
<1>4. CASE Restart(p)
  BY <1>4, RestartMoves
<1>5. CASE Step(p) /\ ~TimeOut(p) /\ ~AdminDelete(p) /\ ~Restart(p)
  BY <1>0, <1>5 DEF Step, Begin, CheckNew, EnsureMachine, Get, ReadPart, GiveUpReading, Populated, Decide, Lookup, FindDoomed,
    Reload, DeleteContext, EnsureRegistry, ClearOrphan, Create, Connect, AwaitContext, SetContext,
    AwaitHealth, Unreachable, DeleteSpec, CreateSpec, CreateHosting, Finish
<1> QED
  BY <1>1, <1>2, <1>3, <1>4, <1>5

LEMMA InterruptType == ASSUME NEW q, Interrupt(q) PROVE alone' \in [Procs -> BOOLEAN]
BY DEF Interrupt

\* What happens outside: a cluster comes up, Docker Desktop writes its context, the
\* nodes of a cluster stop or start.
LEMMA OutsideMoves ==
  ASSUME TypeOK, NEW n \in Names, Boot(n) \/ WriteContext(n) \/ Flip(n)
  PROVE  /\ UNCHANGED <<current, reg, joined, cpus, req, at, mem>>
         /\ cluster' \in [Names -> Clusters] /\ context' \in [Names -> Entries]
         /\ \A m \in Names \ {n} : cluster'[m] = cluster[m] /\ context'[m] = context[m]
         /\ Boot(n) => /\ cluster[n].state = "booting" /\ cluster'[n] = [cluster[n] EXCEPT !.state = "up"]
                       /\ UNCHANGED <<context, alone, disturbed>>
         /\ WriteContext(n) => /\ ProductOf[n] = "docker-desktop" /\ Exists(n)
                               /\ context'[n] = [product |-> "docker-desktop", by |-> cluster[n].by]
                               /\ UNCHANGED <<cluster, alone, disturbed>>
         /\ Flip(n) => /\ disturbed' = disturbed \cup {n} /\ UNCHANGED context
                       /\ cluster'[n] \in {[cluster[n] EXCEPT !.state = "up"], [cluster[n] EXCEPT !.state = "down"]}
<1> DEFINE up == [cluster[n] EXCEPT !.state = "up"]
           down == [cluster[n] EXCEPT !.state = "down"]
           e == [product |-> "docker-desktop", by |-> cluster[n].by]
<1>1. up \in Clusters /\ down \in Clusters
  BY ClusterType DEF Clusters
<1>2. e \in Entries
  BY ClusterType DEF Entries, Products
<1>3. UNCHANGED <<current, reg, joined, cpus, req, at, mem>>
  BY DEF Boot, WriteContext, Flip
<1>4. ASSUME NEW c \in Clusters, cluster' = [cluster EXCEPT ![n] = c], UNCHANGED context
      PROVE  /\ cluster' \in [Names -> Clusters] /\ context' \in [Names -> Entries] /\ cluster'[n] = c
             /\ \A m \in Names \ {n} : cluster'[m] = cluster[m] /\ context'[m] = context[m]
  BY <1>4 DEF TypeOK
<1>5. CASE Boot(n)
  <2>1. cluster' = [cluster EXCEPT ![n] = up] /\ UNCHANGED <<context, alone, disturbed>> /\ cluster[n].state = "booting"
    BY <1>5 DEF Boot
  <2> HIDE DEF up
  <2>2. ~WriteContext(n) /\ ~Flip(n)
    BY <2>1 DEF WriteContext, Flip, SetEntry, TypeOK
  <2>3. up = [cluster[n] EXCEPT !.state = "up"]
    BY DEF up
  <2> QED
    BY <1>1, <1>3, <1>4, <2>1, <2>2, <2>3
<1>6. CASE WriteContext(n)
  <2>1. /\ context' = [context EXCEPT ![n] = e] /\ UNCHANGED <<cluster, alone, disturbed>>
        /\ ProductOf[n] = "docker-desktop" /\ Exists(n) /\ context[n] # e
    BY <1>6 DEF WriteContext, SetEntry
  <2>2. e = [product |-> "docker-desktop", by |-> cluster[n].by]
    OBVIOUS
  <2> HIDE DEF e
  <2>3. context'[n] = e /\ context' \in [Names -> Entries] /\ cluster' \in [Names -> Clusters]
        /\ \A m \in Names \ {n} : context'[m] = context[m]
    BY <1>2, <2>1 DEF TypeOK
  <2>4. ~Boot(n) /\ ~Flip(n)
    BY <2>1, <2>3 DEF Boot, Flip
  <2> QED
    BY <1>3, <2>1, <2>2, <2>3, <2>4
<1>7. CASE Flip(n)
  <2>1. /\ UNCHANGED context /\ disturbed' = disturbed \cup {n} /\ cluster[n].state # "booting"
        /\ cluster' = [cluster EXCEPT ![n] = up] \/ cluster' = [cluster EXCEPT ![n] = down]
    BY <1>7 DEF Flip, Disturb
  <2>2. up = [cluster[n] EXCEPT !.state = "up"] /\ down = [cluster[n] EXCEPT !.state = "down"]
    OBVIOUS
  <2> HIDE DEF up, down
  <2>3. PICK c \in {up, down} : cluster' = [cluster EXCEPT ![n] = c]
    BY <2>1
  <2>4. ~Boot(n)
    BY <2>1 DEF Boot
  <2>5. ~WriteContext(n)
    BY <1>2, <2>1 DEF WriteContext, SetEntry, TypeOK
  <2>6. c \in Clusters /\ c \in {[cluster[n] EXCEPT !.state = "up"], [cluster[n] EXCEPT !.state = "down"]}
    BY <1>1, <2>2, <2>3
  <2>7. /\ cluster' \in [Names -> Clusters] /\ context' \in [Names -> Entries] /\ cluster'[n] = c
        /\ \A m \in Names \ {n} : cluster'[m] = cluster[m] /\ context'[m] = context[m]
    BY <1>4, <2>1, <2>3, <2>6
  <2>8. cluster'[n] \in {[cluster[n] EXCEPT !.state = "up"], [cluster[n] EXCEPT !.state = "down"]}
    BY <2>6, <2>7
  <2>9. /\ UNCHANGED context /\ disturbed' = disturbed \cup {n}
    BY <2>1
  <2> HIDE DEF e
  <2> QED
    BY <1>3, <2>4, <2>5, <2>7, <2>8, <2>9
<1> QED
  BY <1>5, <1>6, <1>7

LEMMA InitTypeOK == Init => TypeOK
<1> SUFFICES ASSUME Init PROVE TypeOK
  OBVIOUS
<1>1. PICK w \in Worlds :
        /\ cluster = w.cluster /\ context = w.context /\ current = w.current /\ reg = w.reg
        /\ joined = w.joined /\ cpus = w.cpus
  BY DEF Init
<1>2. IsWorld(w)
  BY ClusterAssumption DEF ClusterAssumption
<1>3. req \in [Procs -> Requests] /\ at \in [Procs -> {"idle"} \cup InFlight \cup Over]
      /\ mem \in [Procs -> Memories] /\ alone \in [Procs -> BOOLEAN] /\ disturbed \subseteq Names
  BY BlankType DEF Init
<1> QED
  BY <1>1, <1>2, <1>3 DEF IsWorld, TypeOK

\* The steps of the specification.
LEMMA NextSteps ==
  [Next]_vars => \/ \E p \in Procs : Step(p) /\ Interrupt(p)
                 \/ \E p \in Procs : Fault(p) /\ Interrupt(Daemon)
                 \/ \E n \in Names : Boot(n) \/ WriteContext(n)
                 \/ \E n \in Names : Flip(n) /\ Interrupt(Daemon)
                 \/ UNCHANGED vars
BY DEF Next, Act

LEMMA StepTypeOK == TypeOK /\ [Next]_vars => TypeOK'
<1> SUFFICES ASSUME TypeOK, [Next]_vars PROVE TypeOK'
  OBVIOUS
<1>1. ASSUME NEW p \in Procs, Step(p) \/ Fault(p), NEW q, Interrupt(q) PROVE TypeOK'
  <2>1. Moves(p) /\ alone' \in [Procs -> BOOLEAN]
    BY <1>1, StepMoves, InterruptType
  <2>2. disturbed' \subseteq Names
    BY <1>1, StepDisturbs
  <2> QED
    BY <2>1, <2>2 DEF Moves, TypeOK
<1>2. ASSUME NEW n \in Names, Boot(n) \/ WriteContext(n) PROVE TypeOK'
  BY <1>2, OutsideMoves DEF TypeOK
<1>3. ASSUME NEW n \in Names, Flip(n), Interrupt(Daemon) PROVE TypeOK'
  BY <1>3, OutsideMoves, InterruptType DEF TypeOK
<1>4. CASE UNCHANGED vars
  BY <1>4 DEF vars, world, TypeOK
<1> QED
  BY <1>1, <1>2, <1>3, <1>4, NextSteps

\* The variables of the cluster controller's model keep their types.
THEOREM TypeCorrect == Spec => []TypeOK
BY InitTypeOK, StepTypeOK, PTL DEF Spec

-------------------------------------------------------------------------------
(***************************************************************************)
(* What is known of a process whoever else is at work.                      *)
(***************************************************************************)

LEMMA Places ==
  /\ "idle" \notin InFlight \cup Over
  /\ InFlight \cap Over = {}
  /\ DeletePlaces \cup MakePlaces \cup AfterRegistry \subseteq InFlight
BY DEF InFlight, Over, DeletePlaces, MakePlaces, AfterRegistry

\* Where the configs that a process has loaded come from.
LEMMA ConfigMoves ==
  ASSUME TypeOK, NEW p \in Procs, Step(p) \/ Fault(p), at'[p] \in InFlight
  PROVE  /\ at[p] \in InFlight \cup {"idle"}
         /\ mem'[p].config = context \/ (at[p] \in InFlight /\ mem'[p].config = mem[p].config)
<1> USE DEF InFlight, Over
<1>1. CASE Begin(p)
  BY <1>1, BeginMoves
<1>2. CASE CheckNew(p) \/ EnsureMachine(p) \/ Get(p) \/ SlowHealthCheck(p)
  BY <1>2, CheckNewMoves, EnsureMachineMoves, GetMoves DEF Learns
<1>3. CASE ReadPart(p) \/ GiveUpReading(p) \/ ReadFails(p) \/ Populated(p) \/ Decide(p)
  BY <1>3, ReadPartMoves, StopReadingMoves, PopulatedMoves, DecideMoves DEF Learns
<1>4. CASE Lookup(p) \/ FindDoomed(p) \/ AdminDelete(p) \/ Reload(p) \/ DeleteContext(p)
  BY <1>4, LookupMoves, FindDoomedMoves, AdminDeleteMoves, ReloadMoves, DeleteContextMoves DEF Learns
<1>5. CASE Restart(p) \/ EnsureRegistry(p) \/ ClearOrphan(p) \/ Create(p) \/ Connect(p)
  BY ZenonT(40), <1>5, RestartMoves, EnsureRegistryMoves, ClearOrphanMoves, CreateMoves, ConnectMoves DEF Learns
<1>6. CASE AwaitContext(p) \/ SetContext(p) \/ AwaitHealth(p) \/ DeleteSpec(p) \/ CreateSpec(p) \/ CreateHosting(p)
  BY ZenonT(40), <1>6, AwaitContextMoves, SetContextMoves, AwaitHealthMoves, DeleteSpecMoves, CreateSpecMoves,
     CreateHostingMoves DEF Learns
<1>7. CASE TimeOut(p) \/ Unreachable(p) \/ Finish(p) \/ Fail(p) \/ DieCreating(p)
  BY <1>7, GivingUpMoves, DieCreatingMoves
<1> QED
  BY <1>1, <1>2, <1>3, <1>4, <1>5, <1>6, <1>7 DEF Step, Fault

\* Contexts are written with the product that goes with the name.
LEMMA ContextMoves ==
  ASSUME TypeOK, NEW p \in Procs, Fits(p), Step(p) \/ Fault(p)
  PROVE  \/ context'[Target(p)] = context[Target(p)]
         \/ context'[Target(p)] = NoContext
         \/ context'[Target(p)].product = ProductOf[Target(p)]
<1> USE DEF Thinks, world
<1>1. CASE Step(p) /\ ~AdminDelete(p) /\ ~DeleteContext(p) /\ ~ClearOrphan(p) /\ ~Create(p)
  <2>1. CASE Begin(p) \/ CheckNew(p) \/ EnsureMachine(p) \/ Get(p) \/ ReadPart(p) \/ GiveUpReading(p) \/ Populated(p)
    BY <2>1, BeginMoves, CheckNewMoves, EnsureMachineMoves, GetMoves, ReadPartMoves, StopReadingMoves, PopulatedMoves
  <2>2. CASE Decide(p) \/ Lookup(p) \/ FindDoomed(p) \/ Reload(p) \/ Restart(p) \/ EnsureRegistry(p) \/ Connect(p)
    BY <2>2, DecideMoves, LookupMoves, FindDoomedMoves, ReloadMoves, RestartMoves, EnsureRegistryMoves, ConnectMoves
  <2>3. CASE AwaitContext(p) \/ SetContext(p) \/ AwaitHealth(p) \/ TimeOut(p) \/ Unreachable(p) \/ Finish(p)
    BY <2>3, AwaitContextMoves, SetContextMoves, AwaitHealthMoves, GivingUpMoves
  <2>4. CASE DeleteSpec(p) \/ CreateSpec(p) \/ CreateHosting(p)
    BY <2>4, DeleteSpecMoves, CreateSpecMoves, CreateHostingMoves
  <2> QED
    BY <1>1, <2>1, <2>2, <2>3, <2>4 DEF Step
<1>2. CASE AdminDelete(p) \/ DeleteContext(p) \/ ClearOrphan(p)
  <2>1. CASE AdminDelete(p)
    BY <2>1, AdminDeleteMoves
  <2>2. CASE DeleteContext(p)
    BY <2>2, DeleteContextMoves
  <2>3. CASE ClearOrphan(p)
    BY <2>3, ClearOrphanMoves
  <2> QED
    BY <1>2, <2>1, <2>2, <2>3
<1>3. at[p] = "create" => Wanted(p).product = ProductOf[Target(p)]
  BY DEF Fits, Makes, MakePlaces
<1>4. CASE Create(p)
  <2>1. at[p] = "create" /\ (UNCHANGED context \/ context'[Target(p)] = [product |-> Wanted(p).product, by |-> p])
    BY <1>4, CreateMoves
  <2> QED
    BY <1>3, <2>1
<1>5. CASE Fault(p)
  BY <1>3, <1>5, GivingUpMoves, GetMoves, StopReadingMoves, DieCreatingMoves DEF Fault
<1> QED
  BY <1>1, <1>2, <1>4, <1>5

LEMMA StepContextsFit ==
  ASSUME TypeOK, ContextsFit, NEW p \in Procs, Fits(p), Step(p) \/ Fault(p)
  PROVE  ContextsFit'
<1>1. Moves(p)
  BY StepMoves
<1> SUFFICES ASSUME NEW n \in Names
             PROVE  /\ context'[n] = NoContext \/ context'[n].product = ProductOf[n]
                    /\ \A q \in Procs : at'[q] \in InFlight =>
                         mem'[q].config[n] = NoContext \/ mem'[q].config[n].product = ProductOf[n]
  BY DEF ContextsFit
<1>2. context'[n] = NoContext \/ context'[n].product = ProductOf[n]
  <2>1. CASE n = Target(p)
    BY <2>1, ContextMoves DEF ContextsFit
  <2>2. CASE n # Target(p)
    BY <1>1, <2>2 DEF ContextsFit, Moves
  <2> QED
    BY <2>1, <2>2
<1>3. ASSUME NEW q \in Procs, at'[q] \in InFlight
      PROVE  mem'[q].config[n] = NoContext \/ mem'[q].config[n].product = ProductOf[n]
  <2>1. CASE q = p
    BY <1>3, <2>1, ConfigMoves DEF ContextsFit
  <2>2. CASE q # p
    BY ZenonT(40), <1>1, <1>3, <2>2 DEF ContextsFit, Moves
  <2> QED
    BY <2>1, <2>2
<1> QED
  BY <1>2, <1>3

\* A process that is through fits.
LEMMA OverFits ==
  ASSUME TypeOK, NEW p \in Procs, Fits(p), Moves(p), at'[p] \in Over
  PROVE  Fits(p)'
<1>1. at'[p] \notin {"idle", "lookup", "check", "populate", "decide", "restart", "registry", "delget"}
      /\ at'[p] \notin InFlight /\ at'[p] \notin MakePlaces \cup AfterRegistry \cup {"orphan", "setctx", "final"}
  BY Places DEF InFlight, Over, AfterRegistry
<1> QED
  BY <1>1 DEF Fits, Makes, MakePlaces

\* Each step of its own keeps the process fitting.

\* What it is about stays the same.
LEMMA SameRequest ==
  ASSUME NEW p, UNCHANGED req
  PROVE  /\ Target(p)' = Target(p) /\ Wanted(p)' = Wanted(p)
         /\ Valid(Wanted(p))' <=> Valid(Wanted(p))
         /\ Applies(p)' <=> Applies(p)
BY DEF Target, Wanted, Valid, Applies

LEMMA SameVerdict ==
  ASSUME NEW p, UNCHANGED req, mem'[p].old = mem[p].old
  PROVE  /\ NeedsCreate(Wanted(p), mem[p].old)' <=> NeedsCreate(Wanted(p), mem[p].old)
         /\ Irreconcilable(Wanted(p), mem[p].old)' <=> Irreconcilable(Wanted(p), mem[p].old)
         /\ RestartedUnder(p)' <=> RestartedUnder(p)
<1>1. Wanted(p)' = Wanted(p)
  BY SameRequest
<1> QED
  BY <1>1 DEF RestartedUnder, NeedsRestart, NeedsCreate, Irreconcilable, RegistryDiffers, CanReconcileVersion, ConfigDiffers

LEMMA StartFits ==
  ASSUME TypeOK, ContextsFit, NEW p \in Procs, Fits(p),
         Begin(p) \/ CheckNew(p) \/ EnsureMachine(p) \/ Get(p) \/ SlowHealthCheck(p)
  PROVE  Fits(p)'
<1> USE DEF DeletePlaces, MakePlaces, AfterRegistry, InFlight
<1>1. Moves(p)
  BY StepMoves, BeginMoves, CheckNewMoves, EnsureMachineMoves, GetMoves DEF Thinks
<1>2. CASE Begin(p)
  <2>1. at'[p] \in {"check", "lookup", "machine"} /\ UNCHANGED req
        /\ (at'[p] = "check" <=> req[p].kind = "create") /\ (at'[p] = "lookup" <=> req[p].kind = "delete")
    BY <1>1, <1>2, BeginMoves DEF Moves
  <2> QED
    BY <2>1 DEF Fits, Applies, Makes, Over
<1>3. CASE CheckNew(p)
  <2>1. CASE at'[p] = "machine" /\ mem'[p] = mem[p]
    BY <1>1, <1>3, <2>1, CheckNewMoves DEF Fits, Applies, Makes, Moves, Over
  <2>2. CASE at'[p] = "failed"
    BY <1>1, <2>2, OverFits DEF Over
  <2> QED
    BY <1>3, <2>1, <2>2, CheckNewMoves
<1>4. CASE EnsureMachine(p)
  <2>1. CASE Valid(Wanted(p)) /\ at'[p] = "get"
    <3>1. Applies(p) /\ UNCHANGED req /\ Valid(Wanted(p))'
      BY <1>1, <1>4, <2>1, EnsureMachineMoves DEF Fits, Over, Moves, Valid, Wanted
    <3> QED
      BY <2>1, <3>1 DEF Fits, Applies, Makes
  <2>2. CASE at'[p] = "failed"
    BY <1>1, <2>2, OverFits DEF Over
  <2> QED
    BY <1>4, <2>1, <2>2, EnsureMachineMoves
<1>5. CASE Get(p) \/ SlowHealthCheck(p)
  <2>1. at[p] = "get" /\ Applies(p) /\ Valid(Wanted(p)) /\ UNCHANGED req /\ Valid(Wanted(p))'
    BY <1>1, <1>5, GetMoves DEF Fits, Over, Moves, Valid, Wanted
  <2>2. at'[p] \in {"decide", "populate"}
    BY <1>5, GetMoves
  <2>3. mem'[p].old.found => Entry(p)' # NoContext /\ mem'[p].old.product = ProductOf[Target(p)]
    <3>1. mem'[p].config = mem[p].config
          /\ \/ mem'[p].old = NotFound
             \/ Entry(p) # NoContext /\ mem'[p].old.product = Entry(p).product
      <4>1. NotFound.found = FALSE /\ Listed(Entry(p).product).product = Entry(p).product
            /\ [Listed(Entry(p).product) EXCEPT !.version = cluster[Target(p)].version].product = Entry(p).product
        BY DEF NotFound, Listed
      <4> QED
        BY <1>5, <4>1, GetMoves DEF Learns, Reachable
    <3>2. NotFound.found = FALSE
      BY DEF NotFound
    <3>3. Entry(p) = NoContext \/ Entry(p).product = ProductOf[Target(p)]
      BY <2>1, RequestType DEF ContextsFit, Entry
    <3> QED
      BY <2>1, <3>1, <3>2, <3>3 DEF Entry, Target
  <2> QED
    BY <2>1, <2>2, <2>3 DEF Fits, Applies, Makes, Target
<1> QED
  BY <1>2, <1>3, <1>4, <1>5

LEMMA ReadFits ==
  ASSUME TypeOK, NEW p \in Procs, Fits(p),
         ReadPart(p) \/ GiveUpReading(p) \/ ReadFails(p) \/ Populated(p) \/ Decide(p)
  PROVE  Fits(p)'
<1> USE DEF DeletePlaces, MakePlaces, AfterRegistry, InFlight
<1>1. Moves(p)
  BY ReadPartMoves, StopReadingMoves, PopulatedMoves, DecideMoves DEF Thinks
<1>2. at[p] \in {"populate", "decide"} /\ Applies(p) /\ Valid(Wanted(p)) /\ UNCHANGED req /\ Valid(Wanted(p))'
  BY <1>1, ReadPartMoves, StopReadingMoves, PopulatedMoves, DecideMoves DEF Fits, Over, Moves, Valid, Wanted
<1>3. mem'[p].config = mem[p].config /\ mem'[p].old.found = mem[p].old.found /\ mem'[p].old.product = mem[p].old.product
  <2>1. \A part \in Parts : \A c : Learn(mem[p].old, part, c).found = mem[p].old.found
                               /\ Learn(mem[p].old, part, c).product = mem[p].old.product
    BY MemoryType DEF Learn, Parts, Reports
  <2> QED
    <3>1. CASE ReadPart(p)
      <4>1. PICK part \in mem[p].todo :
              Learns(p, mem'[p], mem[p].config, Learn(mem[p].old, part, cluster[Target(p)]), mem[p].todo \ {part})
        BY <3>1, ReadPartMoves
      <4>2. part \in Parts
        BY MemoryType
      <4> QED
        BY <2>1, <4>1, <4>2 DEF Learns
    <3>2. CASE GiveUpReading(p) \/ ReadFails(p) \/ Populated(p) \/ Decide(p)
      BY <3>2, StopReadingMoves, PopulatedMoves, DecideMoves DEF Learns
    <3> QED
      BY <3>1, <3>2
<1>4. CASE at'[p] \in {"populate", "decide"}
  BY <1>2, <1>3, <1>4 DEF Fits, Applies, Makes, Entry, Target
<1>5. CASE Decide(p)
  <2>1. at'[p] = (IF Irreconcilable(Wanted(p), mem[p].old) THEN "delget" ELSE "restart") /\ mem'[p] = mem[p]
        /\ at[p] = "decide"
    BY <1>5, DecideMoves
  <2>2. Irreconcilable(Wanted(p), mem[p].old) => Entry(p)' # NoContext
    BY <1>2, <2>1 DEF Fits, Irreconcilable, Entry, Target
  <2>3. Irreconcilable(Wanted(p), mem[p].old)' = Irreconcilable(Wanted(p), mem[p].old)
    BY <1>2, <2>1 DEF Irreconcilable, Wanted, RegistryDiffers, CanReconcileVersion, ConfigDiffers
  <2> QED
    BY <1>2, <1>3, <2>1, <2>2, <2>3 DEF Fits, Applies, Makes, Target
<1> QED
  BY <1>4, <1>5, ReadPartMoves, StopReadingMoves, PopulatedMoves

LEMMA DeleteFits ==
  ASSUME TypeOK, NEW p \in Procs, Fits(p),
         Lookup(p) \/ FindDoomed(p) \/ AdminDelete(p) \/ Reload(p) \/ DeleteContext(p)
  PROVE  Fits(p)'
<1> USE DEF DeletePlaces, MakePlaces, AfterRegistry, InFlight
<1>1. Moves(p) /\ UNCHANGED req /\ Valid(Wanted(p))' = Valid(Wanted(p))
  BY ZenonT(40), LookupMoves, FindDoomedMoves, AdminDeleteMoves, ReloadMoves, DeleteContextMoves DEF Thinks, Moves, Valid, Wanted
<1>2. CASE at'[p] \in Over
  BY <1>1, <1>2, OverFits
<1>3. CASE Lookup(p)
  BY <1>1, <1>3, LookupMoves DEF Fits, Applies, Makes, Over
<1>4. CASE at'[p] \in {"admindel", "reload", "delctx"} /\ at[p] \in {"delget", "admindel", "reload"}
  BY <1>1, <1>4 DEF Fits, Applies, Makes
<1>5. CASE at[p] \in {"reload", "delctx"} /\ at'[p] = "restart" /\ req[p].kind # "delete" /\ mem'[p].old = NotFound
  <2>0. ~NotFound.found /\ ~NotFound.created
    BY DEF NotFound
  <2>1. ~mem'[p].old.found /\ NeedsCreate(Wanted(p), mem[p].old)'
    BY <1>5, <2>0 DEF NeedsCreate
  <2> QED
    BY <1>1, <1>5, <2>1 DEF Fits, Applies, Makes
<1> QED
  BY <1>2, <1>3, <1>4, <1>5, LookupMoves, FindDoomedMoves, AdminDeleteMoves, ReloadMoves, DeleteContextMoves DEF Over, Learns

LEMMA CreateFits ==
  ASSUME TypeOK, NEW p \in Procs, Fits(p),
         Restart(p) \/ EnsureRegistry(p) \/ ClearOrphan(p) \/ Create(p) \/ DieCreating(p) \/ Connect(p)
  PROVE  Fits(p)'
<1> USE DEF DeletePlaces, MakePlaces, AfterRegistry, InFlight
<1>1. Moves(p) /\ UNCHANGED req
  BY ZenonT(40), RestartMoves, EnsureRegistryMoves, ClearOrphanMoves, CreateMoves, DieCreatingMoves, ConnectMoves DEF Moves
<1>2. CASE at'[p] \in Over
  BY <1>1, <1>2, OverFits
<1>3. /\ Target(p)' = Target(p) /\ Wanted(p)' = Wanted(p)
      /\ Valid(Wanted(p))' <=> Valid(Wanted(p))
      /\ Applies(p)' <=> Applies(p)
  BY <1>1, SameRequest
<1>4. at[p] \in {"restart", "registry", "orphan", "create", "connect"} /\ Applies(p) /\ Valid(Wanted(p))
  BY ZenonT(40), RestartMoves, EnsureRegistryMoves, ClearOrphanMoves, CreateMoves, DieCreatingMoves, ConnectMoves DEF Fits, Over
<1>5. CASE at'[p] \notin Over
  <2>1. mem'[p].old = mem[p].old /\ at'[p] \in {"registry", "orphan", "setctx", "create", "connect", "waitctx"}
    BY <1>5, RestartMoves, EnsureRegistryMoves, ClearOrphanMoves, CreateMoves, DieCreatingMoves, ConnectMoves DEF Over
  <2>2. /\ NeedsCreate(Wanted(p), mem[p].old)' <=> NeedsCreate(Wanted(p), mem[p].old)
        /\ Irreconcilable(Wanted(p), mem[p].old)' <=> Irreconcilable(Wanted(p), mem[p].old)
    BY <1>1, <2>1, SameVerdict
  <2>3. CASE Restart(p)
    BY <1>3, <1>4, <1>5, <2>1, <2>2, <2>3, RestartMoves DEF Fits, Makes, Over
  <2>4. CASE EnsureRegistry(p)
    <3>1. Wanted(p).registry => reg' # 0 /\ mem'[p].port = reg'
      BY <2>4, EnsureRegistryMoves
    <3>2. at[p] = "registry" /\ at'[p] = IF NeedsCreate(Wanted(p), mem[p].old) THEN "orphan" ELSE "setctx"
      BY <2>4, EnsureRegistryMoves
    <3> QED
      BY <1>3, <1>4, <2>1, <2>2, <3>1, <3>2 DEF Fits, Makes
  <2>5. CASE ClearOrphan(p)
    <3>1. /\ at[p] = "orphan" /\ at'[p] = "create" /\ UNCHANGED reg /\ mem'[p] = mem[p]
          /\ Wanted(p).product = ProductOf[Target(p)]
      BY <1>5, <2>5, ClearOrphanMoves DEF Over
    <3> QED
      BY <1>3, <1>4, <2>1, <2>2, <3>1 DEF Fits, Makes
  <2>6. CASE Create(p)
    <3>1. /\ at[p] = "create" /\ UNCHANGED reg /\ mem'[p] = mem[p]
          /\ at'[p] = IF Wanted(p).registry /\ Wanted(p).product = "kind" THEN "connect" ELSE "waitctx"
      BY <1>5, <2>6, CreateMoves DEF Over
    <3> QED
      BY <1>3, <1>4, <2>1, <2>2, <3>1 DEF Fits, Makes
  <2>7. CASE Connect(p)
    <3>1. at[p] = "connect" /\ UNCHANGED reg /\ mem'[p] = mem[p] /\ at'[p] = "waitctx"
      BY <1>5, <2>7, ConnectMoves DEF Over
    <3> QED
      BY <1>3, <1>4, <2>1, <2>2, <3>1 DEF Fits, Makes
  <2>8. ~DieCreating(p)
    BY <1>5, DieCreatingMoves DEF Over
  <2> QED
    BY <2>3, <2>4, <2>5, <2>6, <2>7, <2>8
<1> QED
  BY <1>2, <1>5

LEMMA ConfigureFits ==
  ASSUME TypeOK, NEW p \in Procs, Fits(p),
         \/ AwaitContext(p) \/ SetContext(p) \/ AwaitHealth(p) \/ TimeOut(p) \/ Unreachable(p) \/ Finish(p) \/ Fail(p)
         \/ DeleteSpec(p) \/ CreateSpec(p) \/ CreateHosting(p)
  PROVE  Fits(p)'
<1> USE DEF DeletePlaces, MakePlaces, AfterRegistry, InFlight
<1>1. Moves(p) /\ UNCHANGED req
  BY ZenonT(40), AwaitContextMoves, SetContextMoves, AwaitHealthMoves, GivingUpMoves, DeleteSpecMoves, CreateSpecMoves,
     CreateHostingMoves DEF Moves, Thinks
<1>2. CASE at'[p] \in Over
  BY <1>1, <1>2, OverFits
<1>3. /\ Target(p)' = Target(p) /\ Wanted(p)' = Wanted(p)
      /\ Valid(Wanted(p))' <=> Valid(Wanted(p))
      /\ Applies(p)' <=> Applies(p)
  BY <1>1, SameRequest
<1>4. CASE at'[p] \notin Over
  <2>1. mem'[p].old = mem[p].old /\ mem'[p].port = mem[p].port /\ reg' = reg
    <3>1. CASE AwaitContext(p) \/ SetContext(p) \/ AwaitHealth(p)
      BY <1>4, <3>1, AwaitContextMoves, SetContextMoves, AwaitHealthMoves DEF Over, Learns, Thinks, world
    <3>2. CASE DeleteSpec(p) \/ CreateSpec(p) \/ CreateHosting(p)
      BY <1>4, <3>2, DeleteSpecMoves, CreateSpecMoves, CreateHostingMoves DEF Over
    <3>3. ~TimeOut(p) /\ ~Unreachable(p) /\ ~Finish(p) /\ ~Fail(p)
      BY <1>4, GivingUpMoves DEF Over
    <3> QED
      BY <3>1, <3>2, <3>3
  <2>2. /\ NeedsCreate(Wanted(p), mem[p].old)' <=> NeedsCreate(Wanted(p), mem[p].old)
        /\ Irreconcilable(Wanted(p), mem[p].old)' <=> Irreconcilable(Wanted(p), mem[p].old)
    BY <1>1, <2>1, SameVerdict
  <2>3. CASE AwaitContext(p)
    BY <1>3, <2>1, <2>2, <2>3, AwaitContextMoves DEF Fits, Makes, Over
  <2>4. CASE SetContext(p)
    <3>1. at[p] = "setctx" /\ at'[p] = IF NeedsCreate(Wanted(p), mem[p].old) THEN "waithealth" ELSE "final"
      BY <1>4, <2>4, SetContextMoves DEF Over
    <3> QED
      BY <1>3, <2>1, <2>2, <3>1 DEF Fits, Makes, Over
  <2>5. CASE AwaitHealth(p) \/ DeleteSpec(p)
    BY <1>3, <2>1, <2>2, <2>5, AwaitHealthMoves, DeleteSpecMoves DEF Fits, Makes, Over
  <2>6. CASE CreateSpec(p)
    <3>1. at[p] = "newspec" /\ at'[p] = IF Wanted(p).registry /\ Wanted(p).product = "kind" THEN "hosting" ELSE "final"
      BY <1>4, <2>6, CreateSpecMoves DEF Over
    <3> QED
      BY <1>3, <2>1, <2>2, <3>1 DEF Fits, Makes, Over
  <2>7. CASE CreateHosting(p)
    <3>1. at[p] = "hosting" /\ at'[p] = "final"
      BY <1>4, <2>7, CreateHostingMoves DEF Over
    <3> QED
      BY <1>3, <2>1, <2>2, <3>1 DEF Fits, Makes, Over
  <2>8. ~TimeOut(p) /\ ~Unreachable(p) /\ ~Finish(p) /\ ~Fail(p)
    BY <1>4, GivingUpMoves DEF Over
  <2> QED
    BY <2>3, <2>4, <2>5, <2>6, <2>7, <2>8
<1> QED
  BY <1>2, <1>4

LEMMA StepFits ==
  ASSUME TypeOK, ContextsFit, NEW p \in Procs, Fits(p), Step(p) \/ Fault(p)
  PROVE  Fits(p)'
BY StartFits, ReadFits, DeleteFits, CreateFits, ConfigureFits DEF Step, Fault

\* A process that does not move still fits.
LEMMA OthersFit ==
  ASSUME NEW p \in Procs, Fits(p), UNCHANGED req, at'[p] = at[p], mem'[p] = mem[p], reg # 0 => reg' = reg,
         at[p] = "idle" => alone'[p]
  PROVE  Fits(p)'
<1>1. /\ Target(p)' = Target(p) /\ Wanted(p)' = Wanted(p)
      /\ Valid(Wanted(p))' <=> Valid(Wanted(p))
      /\ Applies(p)' <=> Applies(p)
  BY SameRequest
<1>2. /\ NeedsCreate(Wanted(p), mem[p].old)' <=> NeedsCreate(Wanted(p), mem[p].old)
      /\ Irreconcilable(Wanted(p), mem[p].old)' <=> Irreconcilable(Wanted(p), mem[p].old)
  BY SameVerdict
<1> QED
  BY <1>1, <1>2 DEF Fits, Makes, Entry

LEMMA InitBase == Init => Base
<1> SUFFICES ASSUME Init PROVE Base
  OBVIOUS
<1>1. TypeOK
  BY InitTypeOK
<1>2. PICK w \in Worlds : context = w.context
  BY DEF Init
<1>3. IsWorld(w)
  BY ClusterAssumption DEF ClusterAssumption
<1>4. \A p \in Procs : at[p] = "idle" /\ alone[p]
  BY DEF Init
<1>5. ContextsFit
  <2>1. ASSUME NEW n \in Names PROVE context[n] = NoContext \/ context[n].product = ProductOf[n]
    <3>1. context[n] = NoContext \/ context[n] = [product |-> ProductOf[n], by |-> Daemon]
      BY <1>2, <1>3, Zenon DEF IsWorld
    <3> QED
      BY <3>1
  <2>2. \A p \in Procs : at[p] \notin InFlight
    BY <1>4, Places
  <2> QED
    BY <2>1, <2>2 DEF ContextsFit
<1>6. ASSUME NEW p \in Procs PROVE Fits(p)
  <2>1. at[p] = "idle" /\ alone[p] /\ at[p] \notin InFlight /\ at[p] \notin AfterRegistry /\ at[p] \notin MakePlaces
    BY <1>4, Places
  <2>2. ~Makes(p)
    BY <2>1 DEF Makes
  <2> QED
    BY <2>1, <2>2 DEF Fits
<1> QED
  BY <1>1, <1>5, <1>6 DEF Base

LEMMA StepBase == Base /\ [Next]_vars => Base'
<1> SUFFICES ASSUME Base, [Next]_vars PROVE Base'
  OBVIOUS
<1>0. TypeOK /\ ContextsFit /\ (\A p \in Procs : Fits(p)) /\ TypeOK'
  BY StepTypeOK DEF Base
<1>1. ASSUME NEW p \in Procs, Step(p) \/ Fault(p), NEW q, Interrupt(q) PROVE Base'
  <2>1. Moves(p)
    BY <1>0, <1>1, StepMoves
  <2>2. ContextsFit' /\ Fits(p)'
    BY <1>0, <1>1, StepContextsFit, StepFits
  <2>3. ASSUME NEW o \in Procs, o # p PROVE Fits(o)'
    <3>1. at[o] = "idle" => alone'[o]
      BY <1>1, <2>1, <2>3, Places DEF Interrupt, Moves
    <3> QED
      BY <1>0, <2>1, <2>3, <3>1, OthersFit DEF Moves
  <2> QED
    BY <1>0, <2>2, <2>3 DEF Base
<1>2. ASSUME NEW n \in Names, Boot(n) \/ WriteContext(n) \/ (Flip(n) /\ Interrupt(Daemon)) PROVE Base'
  <2>1. /\ UNCHANGED <<reg, req, at, mem>>
        /\ \A m \in Names \ {n} : context'[m] = context[m]
        /\ context'[n] = context[n] \/ context'[n].product = ProductOf[n]
    <3>1. UNCHANGED <<reg, req, at, mem>> /\ \A m \in Names \ {n} : context'[m] = context[m]
      BY <1>0, <1>2, OutsideMoves
    <3>2. CASE WriteContext(n)
      <4>1. context'[n] = [product |-> "docker-desktop", by |-> cluster[n].by] /\ ProductOf[n] = "docker-desktop"
        BY <1>0, <3>2, OutsideMoves
      <4> QED
        BY <3>1, <4>1
    <3>3. CASE Boot(n) \/ Flip(n)
      BY <1>0, <3>1, <3>3, OutsideMoves
    <3> QED
      BY <1>2, <3>1, <3>2, <3>3
  <2>2. ContextsFit'
    BY <1>0, <2>1 DEF ContextsFit
  <2>3. ASSUME NEW o \in Procs PROVE Fits(o)'
    <3>1. at[o] = "idle" => alone'[o]
      <4>1. at[o] = "idle" => alone[o]
        BY <1>0 DEF Fits
      <4>2. CASE Boot(n) \/ WriteContext(n)
        BY <1>0, <4>1, <4>2, OutsideMoves
      <4>3. CASE Interrupt(Daemon)
        BY <2>1, <4>3, Places DEF Interrupt
      <4> QED
        BY <1>2, <4>2, <4>3
    <3> QED
      BY <1>0, <2>1, <3>1, OthersFit
  <2> QED
    BY <1>0, <2>2, <2>3 DEF Base
<1>3. CASE UNCHANGED vars
  <2>1. UNCHANGED <<context, reg, req, at, mem, alone>>
    BY <1>3 DEF vars, world
  <2>2. ContextsFit'
    BY <1>0, <2>1 DEF ContextsFit
  <2>3. \A o \in Procs : Fits(o)'
    BY <1>0, <2>1, OthersFit DEF Fits
  <2> QED
    BY <1>0, <2>2, <2>3 DEF Base
<1> QED
  BY <1>1, <1>2, <1>3, NextSteps

LEMMA BaseHolds == Spec => []Base
BY InitBase, StepBase, PTL DEF Spec

-------------------------------------------------------------------------------
(***************************************************************************)
(* What is known of a process that is alone: its own steps, from the start   *)
(* of a command to the report of Get.                                      *)
(***************************************************************************)

LEMMA EntryFits ==
  ASSUME TypeOK, ContextsFit, NEW p \in Procs, at[p] \in InFlight
  PROVE  /\ Target(p) \in Names /\ Entry(p) \in Entries /\ context[Target(p)] \in Entries
         /\ Entry(p) = NoContext \/ Entry(p).product = ProductOf[Target(p)]
         /\ context[Target(p)] = NoContext \/ context[Target(p)].product = ProductOf[Target(p)]
         /\ Entry(p) = [product |-> Entry(p).product, by |-> Entry(p).by]
<1>1. Target(p) \in Names /\ Entry(p) \in Entries /\ context[Target(p)] \in Entries
  BY RequestType, MemoryType, ClusterType
<1>2. Entry(p) = NoContext \/ Entry(p).product = ProductOf[Target(p)]
  BY <1>1 DEF ContextsFit, Entry
<1>3. context[Target(p)] = NoContext \/ context[Target(p)].product = ProductOf[Target(p)]
  BY <1>1 DEF ContextsFit
<1>4. Entry(p) = [product |-> Entry(p).product, by |-> Entry(p).by]
  BY <1>1 DEF Entries
<1> QED
  BY <1>1, <1>2, <1>3, <1>4

\* A cluster that answers, with a context that is known, can be reached.
LEMMA AnswersReached ==
  ASSUME NEW p \in Procs, Answers(Target(p)), Entry(p) = context[Target(p)], Entry(p) # NoContext
  PROVE  Reachable(p)
BY DEF Answers, HasContext, Reachable

\* And one that is reached answers, if nobody but Docker Desktop has written the context.
LEMMA ReachedAnswers ==
  ASSUME TypeOK, ContextsFit, NEW p \in Procs, at[p] \in InFlight, Reachable(p), Looking(p)
  PROVE  Answers(Target(p)) /\ Entry(p) = context[Target(p)]
<1>1. Entry(p).product = ProductOf[Target(p)] /\ Entry(p).by = cluster[Target(p)].by
  BY EntryFits DEF Reachable
<1>2. Entry(p) = [product |-> ProductOf[Target(p)], by |-> cluster[Target(p)].by]
  BY <1>1, EntryFits
<1>3. Entry(p) = context[Target(p)]
  BY <1>2 DEF Looking
<1> QED
  BY <1>2, <1>3 DEF Answers, HasContext, Reachable

LEMMA BeginAlone ==
  ASSUME TypeOK, NEW p \in Procs, Begin(p)
  PROVE  Undisturbed(p)' /\ (Applies(p)' => Kept(p)')
<1>1. /\ at'[p] \in {"check", "lookup", "machine"}
      /\ cluster' = cluster /\ context' = context /\ reg' = reg /\ UNCHANGED req
      /\ mem'[p].was = [cluster |-> cluster[Target(p)], entry |-> context[Target(p)], reg |-> reg]
      /\ req[p].kind # "delete" => at'[p] # "lookup"
  <2>1. IsRequest(req[p])
    BY RequestType
  <2> QED
    BY <2>1, BeginMoves DEF Thinks, Moves, world, IsRequest
<1>2. /\ mem'[p].was.cluster = cluster'[Target(p)] /\ mem'[p].was.entry = context'[Target(p)]
      /\ mem'[p].was.reg = reg'
  BY <1>1
<1>3. Target(p)' = Target(p) /\ (Applies(p)' <=> Applies(p))
  BY <1>1, SameRequest
<1>4. Undisturbed(p)'
  BY <1>1, <1>2, <1>3 DEF Undisturbed, Makes, MakePlaces
<1>5. Applies(p) => Kept(p)'
  BY <1>1, <1>2, <1>3 DEF Kept, KeepPlaces, Applies
<1> QED
  BY <1>3, <1>4, <1>5

LEMMA CheckNewAlone ==
  ASSUME TypeOK, NEW p \in Procs, CheckNew(p), at'[p] \in InFlight, Undisturbed(p)
  PROVE  Undisturbed(p)' /\ (Kept(p) => Kept(p)')
<1>1. at[p] = "check" /\ at'[p] = "machine" /\ mem'[p] = mem[p]
  BY CheckNewMoves DEF InFlight
<1>2. cluster' = cluster /\ context' = context /\ reg' = reg /\ UNCHANGED req
  BY CheckNewMoves DEF Thinks, Moves, world
<1>3. Target(p)' = Target(p) /\ Wanted(p)' = Wanted(p) /\ (Valid(Wanted(p))' <=> Valid(Wanted(p)))
  BY <1>2, SameRequest
<1>4. (Sound(mem[p].was.cluster) => Sound(cluster[Target(p)]))'
  BY <1>1, <1>2, <1>3 DEF Undisturbed
<1> QED
  BY <1>1, <1>2, <1>3, <1>4 DEF Undisturbed, Kept, KeepPlaces, Makes, MakePlaces

LEMMA EnsureMachineAlone ==
  ASSUME TypeOK, NEW p \in Procs, EnsureMachine(p), at'[p] \in InFlight, Undisturbed(p)
  PROVE  Undisturbed(p)' /\ (Kept(p) => Kept(p)')
<1>1. at[p] = "machine" /\ at'[p] = "get" /\ Learns(p, mem'[p], context, mem[p].old, mem[p].todo)
  BY EnsureMachineMoves DEF InFlight
<1>2. cluster' = cluster /\ context' = context /\ reg' = reg /\ UNCHANGED req
  BY EnsureMachineMoves DEF Thinks, Moves, world
<1>3. Target(p)' = Target(p) /\ Wanted(p)' = Wanted(p) /\ (Valid(Wanted(p))' <=> Valid(Wanted(p)))
  BY <1>2, SameRequest
<1>4. mem'[p].was = mem[p].was /\ Entry(p)' = context'[Target(p)]
  BY <1>1, <1>2, <1>3 DEF Learns, Entry
<1>5. (Sound(mem[p].was.cluster) => Sound(cluster[Target(p)]))'
  BY <1>1, <1>2, <1>3, <1>4 DEF Undisturbed
<1>6. Looking(p)'
  BY <1>3, <1>4 DEF Looking
<1> QED
  BY <1>1, <1>2, <1>3, <1>4, <1>5, <1>6 DEF Undisturbed, Kept, KeepPlaces, Makes, MakePlaces

LEMMA ListedSays ==
  /\ ~NotFound.found /\ ~NotFound.created
  /\ \A product : LET old == Listed(product) IN old.found /\ ~old.created /\ old.product = product
BY DEF Listed, NotFound

LEMMA EntrySays ==
  ASSUME NEW product, NEW by, NEW e, e = [product |-> product, by |-> by]
  PROVE  e.product = product /\ e.by = by
OBVIOUS

LEMMA NobodysContext == NoContext.by \notin Procs
<1>1. \E product : NoContext = [product |-> product, by |-> Daemon]
  BY Zenon DEF NoContext
<1>2. Daemon \notin Procs
  BY ClusterAssumption DEF ClusterAssumption
<1> QED
  BY <1>1, <1>2, EntrySays

\* A valid spec names its product.
LEMMA ValidNames ==
  ASSUME NEW spec, Valid(spec)
  PROVE  spec.product # NoContext.product
BY Zenon DEF Valid, NoContext

LEMMA GetAlone ==
  ASSUME TypeOK, ContextsFit, NEW p \in Procs, Fits(p), Get(p), Undisturbed(p), Applies(p)
  PROVE  Undisturbed(p)' /\ (Matched(p) /\ Kept(p) => Kept(p)')
<1> DEFINE n == Target(p)
<1>1. at[p] = "get" /\ at'[p] \in {"populate", "decide"} /\ mem'[p].was = mem[p].was /\ mem'[p].config = mem[p].config
  BY GetMoves DEF Learns
<1>2. cluster' = cluster /\ context' = context /\ reg' = reg /\ UNCHANGED req
  BY GetMoves DEF Thinks, Moves, world
<1>3. /\ n' = n /\ Wanted(p)' = Wanted(p) /\ (Valid(Wanted(p))' <=> Valid(Wanted(p)))
      /\ Entry(p)' = Entry(p)
  BY <1>1, <1>2, SameRequest DEF Entry
<1>4. (Sound(mem[p].was.cluster) => Sound(cluster[n]))'
  BY <1>1, <1>2, <1>3 DEF Undisturbed
<1>5. at[p] \in InFlight /\ Looking(p) /\ Valid(Wanted(p))
  BY <1>1 DEF InFlight, Undisturbed, Fits
<1>6. CASE Reachable(p)
  <2>1. Answers(n) /\ Entry(p) = context[n]
    BY <1>5, <1>6, ReachedAnswers
  <2>2. at'[p] = "populate" /\ Learns(p, mem'[p], mem[p].config, [Listed(Entry(p).product) EXCEPT !.version = cluster[n].version], Parts)
    BY <1>6, GetMoves DEF Reachable
  <2>3. mem'[p].old.found /\ mem'[p].old.version = cluster[n].version /\ mem'[p].todo = Parts
    BY <2>2 DEF Learns, Listed, NotFound
  <2>4. Reading(p)'
    BY <1>2, <1>3, <2>1, <2>3 DEF Reading, Answers, HasContext
  <2>5. Undisturbed(p)'
    BY <1>4, <2>2, <2>4 DEF Undisturbed, Makes, MakePlaces
  <2>6. Kept(p) => Kept(p)'
    BY <1>1, <1>2, <1>3, <2>2 DEF Kept, KeepPlaces
  <2> QED
    BY <2>5, <2>6
<1>7. CASE ~Reachable(p)
  <2>1. at'[p] = "decide" /\ ~mem'[p].old.created
    <3>1. at'[p] = "decide" /\ (mem'[p].old = NotFound \/ mem'[p].old = Listed(Entry(p).product))
      BY <1>7, GetMoves DEF Learns
    <3> QED
      BY <3>1, ListedSays
  <2>2. Undisturbed(p)'
    BY <1>4, <2>1 DEF Undisturbed, Makes, MakePlaces
  <2>3. ~(Matched(p) /\ Kept(p))
    <3> SUFFICES ASSUME Matched(p), Kept(p) PROVE FALSE
      OBVIOUS
    <3>1. cluster[n].state = "up" /\ context[n] = [product |-> Wanted(p).product, by |-> cluster[n].by] /\ Entry(p) = context[n]
      BY <1>1, <1>5 DEF Matched, Kept, Holds, Fulfils
    <3>2. Wanted(p).product # NoContext.product
      BY <1>5, ValidNames
    <3>3. Entry(p).product = Wanted(p).product /\ Entry(p).by = cluster[n].by
      BY <3>1, EntrySays
    <3>4. Entry(p) # NoContext
      BY <3>2, <3>3
    <3> QED
      BY <1>7, <3>1, <3>3, <3>4 DEF Reachable
  <2> QED
    BY <2>2, <2>3
<1> QED
  BY <1>6, <1>7

\* One more part of the status, and what was known of the others.
LEMMA LearnSays ==
  ASSUME NEW old \in Reports, NEW part \in Parts, NEW c, NEW new, new = Learn(old, part, c)
  PROVE  /\ new.found = old.found /\ new.version = old.version /\ new.product = old.product
         /\ IF part = "nodes" THEN new.created ELSE new.created = old.created
         /\ new.registry = IF part = "hosting" THEN HostsRegistry(c) ELSE old.registry
         /\ new.config = IF part = "spec" THEN ConfigOf(c) ELSE old.config
<1>1. CASE part = "nodes"
  BY <1>1 DEF Learn, Reports
<1>2. CASE part = "hosting"
  BY <1>2 DEF Learn, Reports, HostsRegistry
<1>3. CASE part = "machine"
  BY <1>3 DEF Learn, Reports
<1>4. CASE part = "spec"
  BY <1>4 DEF Learn, Reports, ConfigOf
<1> QED
  BY <1>1, <1>2, <1>3, <1>4 DEF Parts

LEMMA ReadPartAlone ==
  ASSUME TypeOK, NEW p \in Procs, ReadPart(p), Undisturbed(p)
  PROVE  Undisturbed(p)' /\ (Kept(p) => Kept(p)')
<1> DEFINE n == Target(p)  old == mem[p].old  new == mem'[p].old
<1>1. PICK part \in mem[p].todo :
        Learns(p, mem'[p], mem[p].config, Learn(old, part, cluster[n]), mem[p].todo \ {part})
  BY ReadPartMoves
<1>2. at[p] = "populate" /\ at'[p] = "populate" /\ cluster' = cluster /\ context' = context /\ reg' = reg /\ UNCHANGED req
  BY ReadPartMoves DEF Thinks, Moves, world
<1>3. /\ n' = n /\ Wanted(p)' = Wanted(p) /\ (Valid(Wanted(p))' <=> Valid(Wanted(p)))
      /\ Entry(p)' = Entry(p) /\ mem'[p].was = mem[p].was
  BY <1>1, <1>2, SameRequest DEF Entry, Learns
<1>4. Reading(p)'
  <2>1. Reading(p)
    BY <1>2 DEF Undisturbed
  <2>2. part \in Parts /\ old \in Reports
    BY <1>1, MemoryType
  <2>3. new = Learn(old, part, cluster[n]) /\ mem'[p].todo = mem[p].todo \ {part}
    BY <1>1 DEF Learns
  <2>4. /\ new.found = old.found /\ new.version = old.version
        /\ IF part = "nodes" THEN new.created ELSE new.created = old.created
        /\ new.registry = IF part = "hosting" THEN HostsRegistry(cluster[n]) ELSE old.registry
        /\ new.config = IF part = "spec" THEN ConfigOf(cluster[n]) ELSE old.config
    BY <2>2, <2>3, LearnSays
  <2>5. /\ Answers(n)' <=> Answers(n)
        /\ HostsRegistry(cluster[n])' = HostsRegistry(cluster[n])
        /\ ConfigOf(cluster[n])' = ConfigOf(cluster[n])
    BY <1>2, <1>3 DEF Answers, HasContext, HostsRegistry, ConfigOf
  <2> QED
    BY <1>2, <1>3, <2>1, <2>3, <2>4, <2>5 DEF Reading
<1>5. (Sound(mem[p].was.cluster) => Sound(cluster[Target(p)]))'
  BY <1>2, <1>3 DEF Undisturbed
<1>6. Undisturbed(p)'
  BY <1>2, <1>4, <1>5 DEF Undisturbed, Makes, MakePlaces
<1>7. Kept(p) => Kept(p)'
  BY <1>2, <1>3 DEF Kept, KeepPlaces
<1> QED
  BY <1>6, <1>7

\* A process that reads can read on.
LEMMA ReadingGoesOn ==
  ASSUME NEW p \in Procs, Fits(p), at[p] = "populate", Undisturbed(p)
  PROVE  Reachable(p)
<1>1. Reading(p)
  BY DEF Undisturbed
<1> QED
  BY <1>1, AnswersReached DEF Reading, Fits

\* A report stays the truth of a cluster that stays, or that the engine is restarted under.
LEMMA StaysReported ==
  ASSUME TypeOK, NEW p \in Procs, Reported(p), UNCHANGED <<context, req>>, mem'[p].old = mem[p].old,
         reg' = reg,
         \/ cluster'[Target(p)] = cluster[Target(p)]
         \/ cluster'[Target(p)] = Stopped(cluster[Target(p)]) /\ RestartedUnder(p)
  PROVE  Reported(p)' /\ (Sound(cluster[Target(p)])' <=> Sound(cluster[Target(p)]))
<1> DEFINE n == Target(p)
<1>1. n' = n /\ (RestartedUnder(p)' <=> RestartedUnder(p))
  BY SameRequest, SameVerdict
<1>2. /\ cluster'[n].by = cluster[n].by /\ cluster'[n].version = cluster[n].version
      /\ cluster'[n].saved = cluster[n].saved /\ cluster'[n].hosting = cluster[n].hosting
      /\ cluster'[n].wired = cluster[n].wired
      /\ \/ cluster'[n].state = cluster[n].state
         \/ cluster'[n].state = "booting" /\ RestartedUnder(p)
  BY RequestType, ClusterType, StoppedSays
<1>3. Alive(p)'
  BY <1>1, <1>2 DEF Reported, Alive
<1>4. Sound(cluster[n])' <=> Sound(cluster[n])
  BY <1>1, <1>2 DEF Sound
<1> QED
  BY <1>1, <1>2, <1>3, <1>4 DEF Reported, HasContext, HostsRegistry, ConfigOf

LEMMA PopulatedAlone ==
  ASSUME TypeOK, NEW p \in Procs, Populated(p), Undisturbed(p)
  PROVE  Undisturbed(p)' /\ (Kept(p) => Kept(p)')
<1> DEFINE n == Target(p)
<1>1. at[p] = "populate" /\ at'[p] = "decide" /\ mem'[p] = mem[p] /\ mem[p].todo = {}
  BY PopulatedMoves
<1>2. cluster' = cluster /\ context' = context /\ reg' = reg /\ UNCHANGED req
  BY PopulatedMoves DEF Thinks, Moves, world
<1>3. n' = n /\ Wanted(p)' = Wanted(p) /\ (Valid(Wanted(p))' <=> Valid(Wanted(p)))
  BY <1>2, SameRequest
<1>4. Reading(p)
  BY <1>1 DEF Undisturbed
<1>5. Reported(p) /\ mem[p].old.created
  BY <1>1, <1>4 DEF Reading, Reported, Parts, Answers, Alive
<1>6. Reported(p)'
  BY <1>1, <1>2, <1>5, StaysReported
<1>7. (Sound(mem[p].was.cluster) => Sound(cluster[Target(p)]))'
  BY <1>1, <1>2, <1>3 DEF Undisturbed
<1>8. Undisturbed(p)'
  BY <1>1, <1>6, <1>7 DEF Undisturbed, Makes, MakePlaces
<1>9. Kept(p) => Kept(p)'
  BY <1>1, <1>2, <1>3, <1>5 DEF Kept, KeepPlaces
<1> QED
  BY <1>8, <1>9

\* A cluster that the spec holds of is not irreconcilable with it.
LEMMA MatchedReconciles ==
  ASSUME TypeOK, ContextsFit, NEW p \in Procs, Fits(p), at[p] = "decide", Applies(p), Undisturbed(p), Matched(p), Kept(p)
  PROVE  ~Irreconcilable(Wanted(p), mem[p].old) /\ ~NeedsCreate(Wanted(p), mem[p].old)
<1> DEFINE n == Target(p)  c == cluster[n]  r == Wanted(p)  old == mem[p].old
<1>1. Valid(r) /\ old.created /\ Reported(p) /\ context[n] = mem[p].was.entry /\ c = mem[p].was.cluster /\ reg = mem[p].was.reg
  BY DEF Kept, Undisturbed, Fits, InFlight
<1>2. Holds(c, context[n], reg, r)
  BY <1>1 DEF Matched
<1>3. old.found /\ old.product = r.product
  <2>1. old.found /\ context[n] = [product |-> ProductOf[n], by |-> c.by]
    BY <1>1 DEF Reported, HasContext
  <2>2. context[n] = [product |-> r.product, by |-> c.by]
    BY <1>2 DEF Holds, Fulfils
  <2>3. ProductOf[n] = r.product
    BY <2>1, <2>2, EntrySays
  <2> QED
    BY <2>1, <2>3 DEF Fits
<1>4. ~RegistryDiffers(r, old)
  BY <1>1, <1>2 DEF Holds, Fulfils, Reported, HostsRegistry, RegistryDiffers
<1>5. CanReconcileVersion(r, old)
  BY <1>1, <1>2 DEF Holds, Fulfils, Reported, CanReconcileVersion, Valid, SupportsVersion
<1>6. ~ConfigDiffers(r, old)
  BY <1>1, <1>2, RequestType DEF Holds, Fulfils, Reported, ConfigOf, ConfigDiffers, IsRequest
<1> QED
  BY <1>1, <1>3, <1>4, <1>5, <1>6 DEF Irreconcilable, NeedsCreate

LEMMA DecideAlone ==
  ASSUME TypeOK, ContextsFit, NEW p \in Procs, Fits(p), Decide(p), Undisturbed(p), Applies(p)
  PROVE  Undisturbed(p)' /\ (Matched(p) /\ Kept(p) => Kept(p)')
<1> DEFINE n == Target(p)
<1>1. /\ at[p] = "decide" /\ mem'[p] = mem[p]
      /\ at'[p] = IF Irreconcilable(Wanted(p), mem[p].old) THEN "delget" ELSE "restart"
  BY DecideMoves
<1>2. cluster' = cluster /\ context' = context /\ reg' = reg /\ UNCHANGED req
  BY DecideMoves DEF Thinks, Moves, world
<1>3. n' = n /\ Wanted(p)' = Wanted(p) /\ (Valid(Wanted(p))' <=> Valid(Wanted(p)))
  BY <1>2, SameRequest
<1>4. NeedsCreate(Wanted(p), mem[p].old)' <=> NeedsCreate(Wanted(p), mem[p].old)
  BY <1>1, <1>2, SameVerdict
<1>5. mem[p].old.created => Reported(p)'
  BY <1>1, <1>2, StaysReported DEF Undisturbed
<1>6. (Sound(mem[p].was.cluster) => Sound(cluster[Target(p)]))'
  BY <1>1, <1>2, <1>3 DEF Undisturbed
<1>7. Undisturbed(p)'
  <2>1. ~NeedsCreate(Wanted(p), mem[p].old) => mem[p].old.created
    BY DEF NeedsCreate
  <2> QED
    BY <1>1, <1>4, <1>5, <1>6, <2>1 DEF Undisturbed, Makes, MakePlaces
<1>8. Matched(p) /\ Kept(p) => Kept(p)'
  <2> SUFFICES ASSUME Matched(p), Kept(p) PROVE Kept(p)'
    OBVIOUS
  <2>1. at'[p] = "restart" /\ ~NeedsCreate(Wanted(p), mem[p].old)
    BY <1>1, MatchedReconciles
  <2> QED
    BY <1>1, <1>2, <1>3, <1>4, <2>1 DEF Kept, KeepPlaces
<1> QED
  BY <1>7, <1>8

-------------------------------------------------------------------------------
(***************************************************************************)
(* The same, from the deletion to the creation. A cluster that the spec      *)
(* holds of is not there any more, or the process would not be.             *)
(***************************************************************************)

LEMMA DeleteAlone ==
  ASSUME TypeOK, NEW p \in Procs, at'[p] \in InFlight, Undisturbed(p),
         Lookup(p) \/ FindDoomed(p) \/ AdminDelete(p) \/ Reload(p) \/ DeleteContext(p)
  PROVE  Undisturbed(p)' /\ at[p] \notin KeepPlaces
<1> DEFINE n == Target(p)
<1>1. CASE Lookup(p)
  <2>1. at[p] = "lookup" /\ at'[p] = "delget"
    BY <1>1, LookupMoves
  <2> QED
    BY <2>1 DEF Undisturbed, Makes, MakePlaces, KeepPlaces
<1>2. CASE FindDoomed(p)
  <2>1. at[p] = "delget" /\ at'[p] = "admindel"
    BY <1>2, FindDoomedMoves DEF InFlight
  <2> QED
    BY <2>1 DEF Undisturbed, Makes, MakePlaces, KeepPlaces
<1>3. CASE AdminDelete(p)
  <2>1. at[p] = "admindel" /\ at'[p] = "reload" /\ cluster'[n] = NoCluster /\ UNCHANGED req
    BY <1>3, AdminDeleteMoves DEF Moves
  <2>2. n' = n
    BY <2>1, SameRequest
  <2> QED
    BY <2>1, <2>2 DEF Undisturbed, Makes, MakePlaces, KeepPlaces, NoCluster
<1>4. CASE Reload(p) \/ DeleteContext(p)
  <2>1. /\ at[p] \in {"reload", "delctx"} /\ UNCHANGED req /\ cluster' = cluster
        /\ \/ at'[p] = "delctx" /\ context[n] # NoContext /\ context' = context
           \/ at'[p] = "restart" /\ mem'[p].old = NotFound
    <3>1. CASE Reload(p)
      BY <1>4, <3>1, ReloadMoves DEF Thinks, Moves, world, Learns, InFlight
    <3>2. CASE DeleteContext(p)
      BY <1>4, <3>2, DeleteContextMoves DEF Moves, Learns, InFlight
    <3> QED
      BY <1>4, <3>1, <3>2
  <2>2. n' = n /\ Wanted(p)' = Wanted(p)
    BY <2>1, SameRequest
  <2>3. cluster[n] = NoCluster /\ at[p] \notin KeepPlaces
    BY <2>1 DEF Undisturbed, KeepPlaces
  <2>4. CASE at'[p] = "delctx"
    <3>1. cluster'[n] = NoCluster /\ context'[n] # NoContext
      BY <2>1, <2>3, <2>4
    <3>2. (cluster[n] = NoCluster /\ context[n] # NoContext)'
      BY <2>2, <3>1 DEF NoCluster, NoContext
    <3> QED
      BY <2>3, <2>4, <3>2 DEF Undisturbed, Makes, MakePlaces
  <2>5. CASE at'[p] = "restart" /\ mem'[p].old = NotFound
    <3>1. NeedsCreate(Wanted(p), mem[p].old)'
      BY <2>2, <2>5, ListedSays DEF NeedsCreate
    <3> QED
      BY <2>3, <2>5, <3>1 DEF Undisturbed, Makes, MakePlaces
  <2> QED
    BY <2>1, <2>4, <2>5
<1> QED
  BY <1>1, <1>2, <1>3, <1>4

LEMMA RestartAlone ==
  ASSUME TypeOK, NEW p \in Procs, Restart(p), at'[p] \in InFlight, Undisturbed(p)
  PROVE  Undisturbed(p)' /\ (Kept(p) => Kept(p)')
<1> DEFINE n == Target(p)
<1>1. /\ at[p] = "restart" /\ at'[p] = "registry" /\ mem'[p] = mem[p]
      /\ context' = context /\ reg' = reg /\ UNCHANGED req
      /\ \/ cluster'[n] = cluster[n]
         \/ /\ NeedsRestart(Wanted(p), mem[p].old) /\ LocalDesktop
            /\ cluster'[n] = Stopped(cluster[n])
         \/ ~Exists(n)
  BY RestartMoves DEF Moves, InFlight
<1>2. n' = n /\ Wanted(p)' = Wanted(p) /\ (Valid(Wanted(p))' <=> Valid(Wanted(p)))
  BY <1>1, SameRequest
<1>3. /\ NeedsCreate(Wanted(p), mem[p].old)' <=> NeedsCreate(Wanted(p), mem[p].old)
      /\ RestartedUnder(p)' <=> RestartedUnder(p)
  BY <1>1, SameVerdict
<1>4. CASE NeedsCreate(Wanted(p), mem[p].old)
  BY <1>1, <1>3, <1>4 DEF Undisturbed, Makes, MakePlaces, Kept
<1>5. CASE ~NeedsCreate(Wanted(p), mem[p].old)
  <2>1. Reported(p)
    BY <1>1, <1>5 DEF Undisturbed
  <2>2. cluster'[n] = cluster[n] \/ (cluster'[n] = Stopped(cluster[n]) /\ RestartedUnder(p))
    BY <1>1, <1>5, <2>1 DEF Reported, Alive, Exists, RestartedUnder
  <2>3. Reported(p)' /\ (Sound(cluster[n])' <=> Sound(cluster[n]))
    BY <1>1, <2>1, <2>2, StaysReported
  <2>4. (Sound(mem[p].was.cluster) => Sound(cluster[Target(p)]))'
    BY <1>1, <1>5, <2>3 DEF Undisturbed, Sound
  <2>5. Undisturbed(p)'
    BY <1>1, <1>3, <1>5, <2>3, <2>4 DEF Undisturbed, Makes, MakePlaces
  <2>6. Kept(p) => Kept(p)'
    BY <1>1, <1>2, <1>3, <2>2 DEF Kept, KeepPlaces
  <2> QED
    BY <2>5, <2>6
<1> QED
  BY <1>4, <1>5

LEMMA EnsureRegistryAlone ==
  ASSUME TypeOK, NEW p \in Procs, Fits(p), EnsureRegistry(p), Undisturbed(p)
  PROVE  Undisturbed(p)' /\ (Kept(p) => Kept(p)')
<1> DEFINE n == Target(p)
<1>1. /\ at[p] = "registry" /\ cluster' = cluster /\ context' = context /\ UNCHANGED req
      /\ reg # 0 => reg' = reg
      /\ at'[p] = IF NeedsCreate(Wanted(p), mem[p].old) THEN "orphan" ELSE "setctx"
      /\ IF Wanted(p).registry THEN mem'[p].joined = joined' ELSE reg' = reg
      /\ mem'[p].old = mem[p].old /\ mem'[p].was = mem[p].was
  BY EnsureRegistryMoves DEF Moves
<1>2. n' = n /\ Wanted(p)' = Wanted(p) /\ (Valid(Wanted(p))' <=> Valid(Wanted(p)))
  BY <1>1, SameRequest
<1>3. /\ NeedsCreate(Wanted(p), mem[p].old)' <=> NeedsCreate(Wanted(p), mem[p].old)
      /\ RestartedUnder(p)' <=> RestartedUnder(p)
  BY <1>1, SameVerdict
<1>4. CASE NeedsCreate(Wanted(p), mem[p].old)
  BY <1>1, <1>2, <1>3, <1>4 DEF Undisturbed, Makes, MakePlaces, Kept
<1>5. CASE ~NeedsCreate(Wanted(p), mem[p].old)
  <2>1. Reported(p) /\ ~Irreconcilable(Wanted(p), mem[p].old)
    BY <1>1, <1>5 DEF Undisturbed, Fits
  <2>2. Wanted(p).registry => mem[p].old.registry
    BY <1>5, <2>1 DEF Irreconcilable, RegistryDiffers, NeedsCreate
  <2>3. reg' = reg
    BY <1>1, <2>1, <2>2 DEF Reported, HostsRegistry
  <2>4. Reported(p)'
    BY <1>1, <2>1, <2>3, StaysReported
  <2>5. (Sound(mem[p].was.cluster) => Sound(cluster[Target(p)]))'
    BY <1>1, <1>2, <1>5 DEF Undisturbed
  <2>6. Undisturbed(p)'
    BY <1>1, <1>3, <1>5, <2>4, <2>5 DEF Undisturbed, Makes, MakePlaces
  <2>7. Kept(p) => Kept(p)'
    BY <1>1, <1>2, <1>3, <1>5, <2>3 DEF Kept, KeepPlaces
  <2> QED
    BY <2>6, <2>7
<1> QED
  BY <1>4, <1>5

LEMMA ClearOrphanAlone ==
  ASSUME TypeOK, NEW p \in Procs, ClearOrphan(p), at'[p] \in InFlight, Undisturbed(p)
  PROVE  Undisturbed(p)'
<1> DEFINE n == Target(p)
<1>1. /\ at[p] = "orphan" /\ at'[p] = "create" /\ mem'[p] = mem[p] /\ joined' = joined /\ UNCHANGED req
      /\ IF SupportsRegistry(Wanted(p).product) /\ Exists(n)
           THEN cluster'[n] = NoCluster
           ELSE UNCHANGED cluster
  BY ClearOrphanMoves DEF Moves, InFlight
<1>2. n' = n /\ Wanted(p)' = Wanted(p)
  BY <1>1, SameRequest
<1>3. SupportsRegistry(Wanted(p).product) => ~Exists(n)'
  BY <1>1, <1>2 DEF Exists, NoCluster
<1>4. SupportsRegistry(Wanted(p).product)' <=> SupportsRegistry(Wanted(p).product)
  BY <1>2 DEF SupportsRegistry
<1>5. Wanted(p).registry => mem[p].joined = joined
  BY <1>1 DEF Undisturbed
<1> QED
  BY <1>1, <1>2, <1>3, <1>4, <1>5 DEF Undisturbed, Makes, MakePlaces

\* A new cluster has the version that was asked for, as far as it was.
LEMMA InstallsMinor ==
  ASSUME NEW spec, NEW version \in Installs(spec), spec.version # NoVersion
  PROVE  version.minor = spec.version.minor
BY DEF Installs

LEMMA CreateAlone ==
  ASSUME TypeOK, NEW p \in Procs, Fits(p), Create(p), at'[p] \in InFlight, Undisturbed(p)
  PROVE  Undisturbed(p)'
<1> DEFINE n == Target(p)  r == Wanted(p)
           port == IF ProductOf[n] = "k3d" THEN mem[p].port ELSE 0
<1>1. /\ at[p] = "create" /\ mem'[p] = mem[p] /\ reg' = reg /\ joined' = joined /\ UNCHANGED req
      /\ at'[p] = IF r.registry /\ r.product = "kind" THEN "connect" ELSE "waitctx"
      /\ ProductOf[n] # "docker-desktop" => context'[n] = [product |-> r.product, by |-> p]
  BY CreateMoves DEF Moves, InFlight
<1>2. PICK version \in Installs(r), state \in {"booting", "up"} : cluster'[n] = Fresh(p, version, state)
  BY CreateMoves DEF InFlight
<1>3. /\ cluster'[n].state = state /\ cluster'[n].by = p /\ cluster'[n].version = version
      /\ cluster'[n].hosting = port /\ cluster'[n].wired = port
  <2>1. version \in AllVersions
    BY <1>2, InstallsType
  <2> QED
    BY <1>2, <2>1, FreshType
<1>4. n' = n /\ r' = r
  BY <1>1, SameRequest
<1>5. r.product = ProductOf[n]
  BY <1>1 DEF Fits, Makes, MakePlaces
<1>6. r.version # NoVersion => cluster'[n].version.minor = r.version.minor
  BY <1>2, <1>3, InstallsMinor
<1>7. Made(p)'
  BY <1>1, <1>2, <1>3, <1>4, <1>5, <1>6 DEF Made, NoVersion
<1>8. at'[p] = "connect" /\ r.registry => mem[p].joined = joined
  BY <1>1 DEF Undisturbed
<1> QED
  BY <1>1, <1>4, <1>7, <1>8 DEF Undisturbed, Makes, MakePlaces

LEMMA ConnectAlone ==
  ASSUME TypeOK, NEW p \in Procs, Connect(p), at'[p] \in InFlight, Undisturbed(p)
  PROVE  Undisturbed(p)'
<1> DEFINE n == Target(p)  r == Wanted(p)
<1>1. /\ at[p] = "connect" /\ at'[p] = "waitctx" /\ mem'[p] = mem[p] /\ context' = context /\ UNCHANGED req
  BY ConnectMoves DEF Moves, InFlight
<1>2. n' = n /\ r' = r
  BY <1>1, SameRequest
<1>3. Made(p)
  BY <1>1 DEF Undisturbed, Makes, MakePlaces
<1>4. /\ cluster'[n].state = cluster[n].state /\ cluster'[n].by = cluster[n].by
      /\ cluster'[n].version = cluster[n].version /\ cluster'[n].hosting = cluster[n].hosting
      /\ cluster'[n].wired = mem[p].port
  <2>1. cluster'[n] = [cluster[n] EXCEPT !.wired = mem[p].port]
    BY <1>1, <1>3, ConnectMoves DEF Made, Exists
  <2> QED
    BY <2>1, RequestType, ClusterType DEF Clusters
<1>5. Made(p)'
  BY <1>1, <1>2, <1>3, <1>4 DEF Made, NoVersion
<1> QED
  BY <1>1, <1>5 DEF Undisturbed, Makes, MakePlaces

-------------------------------------------------------------------------------
(***************************************************************************)
(* The same, from the wait for the context to the end.                      *)
(***************************************************************************)

LEMMA AwaitContextAlone ==
  ASSUME TypeOK, NEW p \in Procs, Fits(p), AwaitContext(p), Undisturbed(p)
  PROVE  Undisturbed(p)'
<1> DEFINE n == Target(p)  r == Wanted(p)
<1>1. /\ at[p] = "waitctx" /\ at'[p] = "setctx" /\ context[n] # NoContext
      /\ cluster' = cluster /\ context' = context /\ UNCHANGED req
      /\ mem'[p].port = mem[p].port /\ mem'[p].old = mem[p].old
  BY AwaitContextMoves DEF Thinks, Moves, world, Learns
<1>2. n' = n /\ r' = r
  BY <1>1, SameRequest
<1>3. Made(p)
  BY <1>1 DEF Undisturbed, Makes, MakePlaces
<1>4. Made(p)'
  BY <1>1, <1>2, <1>3 DEF Made, NoVersion, NoContext
<1>5. NeedsCreate(r, mem[p].old)'
  <2>1. NeedsCreate(r, mem[p].old)
    BY <1>1 DEF Fits, Makes, MakePlaces
  <2> QED
    BY <1>1, <2>1, SameVerdict
<1> QED
  BY <1>1, <1>4, <1>5 DEF Undisturbed, Makes, MakePlaces

\* A cluster that needs no creation and is not irreconcilable is what the spec asks for.
LEMMA ReconciledHolds ==
  ASSUME TypeOK, NEW p \in Procs, Fits(p), at[p] = "setctx", Reported(p), Sound(cluster[Target(p)]),
         ~NeedsCreate(Wanted(p), mem[p].old)
  PROVE  Alive(p) /\ Fulfils(cluster[Target(p)], context[Target(p)], reg, Wanted(p))
<1> DEFINE n == Target(p)  c == cluster[n]  r == Wanted(p)  old == mem[p].old
<1>1. ~Irreconcilable(r, old) /\ old.found /\ r.product = old.product /\ old.product = ProductOf[n]
  BY DEF Fits, NeedsCreate, AfterRegistry
<1>2. Alive(p) /\ context[n] = [product |-> r.product, by |-> c.by]
  BY <1>1 DEF Reported, HasContext
<1>3. r.version # NoVersion => c.version.minor = r.version.minor
  BY <1>1 DEF Irreconcilable, CanReconcileVersion, Reported
<1>4. r.registry => reg # 0 /\ c.hosting = reg /\ c.wired = reg
  BY <1>1 DEF Irreconcilable, RegistryDiffers, Reported, HostsRegistry, Sound
<1>5. r.config # NoConfig => c.saved = r.config
  BY <1>1 DEF Irreconcilable, ConfigDiffers, Reported, ConfigOf
<1> QED
  BY <1>2, <1>3, <1>4, <1>5 DEF Fulfils

LEMMA SetContextAlone ==
  ASSUME TypeOK, NEW p \in Procs, Fits(p), SetContext(p), at'[p] \in InFlight, Undisturbed(p)
  PROVE  Undisturbed(p)' /\ (Kept(p) => Kept(p)')
<1> DEFINE n == Target(p)  r == Wanted(p)  old == mem[p].old
<1>1. /\ at[p] = "setctx" /\ at'[p] = IF NeedsCreate(r, old) THEN "waithealth" ELSE "final"
      /\ cluster' = cluster /\ context' = context /\ reg' = reg /\ current' = n /\ UNCHANGED req
      /\ mem'[p].port = mem[p].port /\ mem'[p].old = old /\ mem'[p].was = mem[p].was /\ mem'[p].config = context
  BY SetContextMoves DEF Moves, Learns, InFlight
<1>2. /\ n' = n /\ r' = r /\ (Valid(r)' <=> Valid(r)) /\ (NeedsCreate(r, old)' <=> NeedsCreate(r, old))
      /\ RestartedUnder(p)' <=> RestartedUnder(p)
  BY <1>1, SameRequest, SameVerdict
<1>3. Entry(p)' = context'[n]
  BY <1>1, <1>2 DEF Entry
<1>4. CASE NeedsCreate(r, old)
  <2>1. Made(p)
    BY <1>1, <1>4 DEF Undisturbed, Makes, MakePlaces
  <2>2. Made(p)'
    BY <1>1, <1>2, <1>3, <1>4, <2>1 DEF Made, NoVersion
  <2> QED
    BY <1>1, <1>4, <2>2 DEF Undisturbed, Makes, MakePlaces, Kept
<1>5. CASE ~NeedsCreate(r, old)
  <2>1. Reported(p) /\ (Sound(mem[p].was.cluster) => Sound(cluster[n]))
    BY <1>1, <1>5 DEF Undisturbed
  <2>2. Sound(cluster[n]) => Alive(p) /\ Fulfils(cluster[n], context[n], reg, r)
    BY <1>1, <1>5, <2>1, ReconciledHolds
  <2>3. /\ Alive(p)' <=> Alive(p)
        /\ Fulfils(cluster[n], context[n], reg, r)' <=> Fulfils(cluster[n], context[n], reg, r)
    BY <1>1, <1>2 DEF Alive, Fulfils, NoVersion, NoConfig
  <2>4. Sound(mem[p].was.cluster)' <=> Sound(mem[p].was.cluster)
    BY <1>1 DEF Sound
  <2>5. Undisturbed(p)'
    BY <1>1, <1>2, <1>5, <2>1, <2>2, <2>3, <2>4 DEF Undisturbed, Makes, MakePlaces
  <2>6. Kept(p) => Kept(p)'
    BY <1>1, <1>2, <1>5 DEF Kept, KeepPlaces
  <2> QED
    BY <2>5, <2>6
<1> QED
  BY <1>4, <1>5

LEMMA AwaitHealthAlone ==
  ASSUME TypeOK, NEW p \in Procs, AwaitHealth(p), Undisturbed(p)
  PROVE  Undisturbed(p)'
<1> DEFINE n == Target(p)  r == Wanted(p)
<1>1. /\ at[p] = "waithealth" /\ at'[p] = "delspec" /\ Reachable(p) /\ mem'[p] = mem[p]
      /\ cluster' = cluster /\ context' = context /\ current' = current /\ UNCHANGED req
  BY AwaitHealthMoves DEF Thinks, Moves, world
<1>2. n' = n /\ r' = r /\ Entry(p)' = Entry(p)
  BY <1>1, SameRequest DEF Entry
<1>3. Made(p)
  BY <1>1 DEF Undisturbed, Makes, MakePlaces
<1>4. cluster[n].state = "up" /\ Entry(p).by = p
  BY <1>1, <1>3 DEF Reachable, Made
<1>5. Made(p)'
  BY <1>1, <1>2, <1>3, <1>4 DEF Made, NoVersion
<1> QED
  BY <1>1, <1>5 DEF Undisturbed, Makes, MakePlaces

\* What the writing of a config map leaves alone.
LEMMA ConfigMapWritten ==
  ASSUME NEW c \in Clusters, NEW d, NEW x,
         d = [c EXCEPT !.saved = x] \/ d = [c EXCEPT !.hosting = x]
  PROVE  /\ d.state = c.state /\ d.by = c.by /\ d.version = c.version /\ d.wired = c.wired
         /\ d = [c EXCEPT !.saved = x] => d.saved = x /\ d.hosting = c.hosting
         /\ d = [c EXCEPT !.hosting = x] => d.hosting = x /\ d.saved = c.saved
<1>1. CASE d = [c EXCEPT !.saved = x]
  BY <1>1 DEF Clusters
<1>2. CASE d = [c EXCEPT !.hosting = x]
  BY <1>2 DEF Clusters
<1> QED
  BY <1>1, <1>2

LEMMA DeleteSpecAlone ==
  ASSUME TypeOK, NEW p \in Procs, DeleteSpec(p), Undisturbed(p)
  PROVE  Undisturbed(p)'
<1> DEFINE n == Target(p)  r == Wanted(p)
<1>1. /\ at[p] = "delspec" /\ at'[p] = "newspec" /\ mem'[p] = mem[p]
      /\ context' = context /\ current' = current /\ UNCHANGED req
  BY DeleteSpecMoves DEF Moves
<1>2. n' = n /\ r' = r /\ Entry(p)' = Entry(p)
  BY <1>1, SameRequest DEF Entry
<1>3. Made(p)
  BY <1>1 DEF Undisturbed, Makes, MakePlaces
<1>4. /\ cluster'[n].state = cluster[n].state /\ cluster'[n].by = cluster[n].by
      /\ cluster'[n].version = cluster[n].version /\ cluster'[n].wired = cluster[n].wired
      /\ cluster'[n].saved = Missing /\ cluster'[n].hosting = cluster[n].hosting
  <2>1. cluster'[n] = [cluster[n] EXCEPT !.saved = Missing]
    BY DeleteSpecMoves
  <2> QED
    BY <2>1, RequestType, ClusterType, ConfigMapWritten
<1>5. Made(p)'
  BY <1>1, <1>2, <1>3, <1>4 DEF Made, NoVersion, Missing
<1> QED
  BY <1>1, <1>5 DEF Undisturbed, Makes, MakePlaces

LEMMA CreateSpecAlone ==
  ASSUME TypeOK, NEW p \in Procs, Fits(p), CreateSpec(p), at'[p] \in InFlight, Undisturbed(p)
  PROVE  Undisturbed(p)'
<1> DEFINE n == Target(p)  r == Wanted(p)  old == mem[p].old
<1>1. /\ at[p] = "newspec" /\ mem'[p] = mem[p]
      /\ at'[p] = IF r.registry /\ r.product = "kind" THEN "hosting" ELSE "final"
      /\ context' = context /\ current' = current /\ UNCHANGED req
  BY CreateSpecMoves DEF Moves, InFlight
<1>2. n' = n /\ r' = r /\ Entry(p)' = Entry(p) /\ (NeedsCreate(r, old)' <=> NeedsCreate(r, old))
  BY <1>1, SameRequest, SameVerdict DEF Entry
<1>3. Made(p) /\ NeedsCreate(r, old)
  BY <1>1 DEF Undisturbed, Fits, Makes, MakePlaces
<1>4. /\ cluster'[n].state = cluster[n].state /\ cluster'[n].by = cluster[n].by
      /\ cluster'[n].version = cluster[n].version /\ cluster'[n].wired = cluster[n].wired
      /\ cluster'[n].saved = r.config /\ cluster'[n].hosting = cluster[n].hosting
  <2>1. cluster'[n] = [cluster[n] EXCEPT !.saved = r.config]
    BY CreateSpecMoves DEF InFlight
  <2> QED
    BY <2>1, RequestType, ClusterType, ConfigMapWritten
<1>5. Made(p)'
  BY <1>1, <1>2, <1>3, <1>4 DEF Made, NoVersion
<1> QED
  BY <1>1, <1>2, <1>3, <1>5 DEF Undisturbed, Makes, MakePlaces

LEMMA CreateHostingAlone ==
  ASSUME TypeOK, NEW p \in Procs, Fits(p), CreateHosting(p), at'[p] \in InFlight, Undisturbed(p)
  PROVE  Undisturbed(p)'
<1> DEFINE n == Target(p)  r == Wanted(p)  old == mem[p].old
<1>1. /\ at[p] = "hosting" /\ mem'[p] = mem[p] /\ at'[p] = "final"
      /\ context' = context /\ current' = current /\ UNCHANGED req
  BY CreateHostingMoves DEF Moves, InFlight
<1>2. n' = n /\ r' = r /\ Entry(p)' = Entry(p) /\ (NeedsCreate(r, old)' <=> NeedsCreate(r, old))
  BY <1>1, SameRequest, SameVerdict DEF Entry
<1>3. Made(p) /\ NeedsCreate(r, old)
  BY <1>1 DEF Undisturbed, Fits, Makes, MakePlaces
<1>4. /\ cluster'[n].state = cluster[n].state /\ cluster'[n].by = cluster[n].by
      /\ cluster'[n].version = cluster[n].version /\ cluster'[n].wired = cluster[n].wired
      /\ cluster'[n].hosting = mem[p].port /\ cluster'[n].saved = cluster[n].saved
  <2>1. cluster'[n] = [cluster[n] EXCEPT !.hosting = mem[p].port]
    BY CreateHostingMoves DEF InFlight
  <2> QED
    BY <2>1, RequestType, ClusterType, ConfigMapWritten
<1>5. r.product = "kind"
  BY <1>1 DEF Fits
<1>6. Made(p)'
  BY <1>1, <1>2, <1>3, <1>4, <1>5 DEF Made, NoVersion
<1> QED
  BY <1>1, <1>2, <1>3, <1>6 DEF Undisturbed, Makes, MakePlaces

-------------------------------------------------------------------------------
(***************************************************************************)
(* Every step of the process itself keeps what is known of it.              *)
(***************************************************************************)

\* What there was when a process began is remembered until it ends.
LEMMA WasStays ==
  ASSUME TypeOK, NEW p \in Procs, Step(p), at[p] \in InFlight, at'[p] \in InFlight
  PROVE  mem'[p].was = mem[p].was
<1> USE DEF Learns
<1>0. at'[p] \notin Over
  BY Places
<1>1. CASE CheckNew(p) \/ EnsureMachine(p) \/ Get(p) \/ ReadPart(p) \/ GiveUpReading(p) \/ Populated(p)
  BY <1>0, <1>1, CheckNewMoves, EnsureMachineMoves, GetMoves, ReadPartMoves, StopReadingMoves, PopulatedMoves DEF Over
<1>2. CASE Decide(p) \/ Lookup(p) \/ FindDoomed(p) \/ AdminDelete(p) \/ Reload(p) \/ DeleteContext(p)
  BY <1>0, <1>2, DecideMoves, LookupMoves, FindDoomedMoves, AdminDeleteMoves, ReloadMoves, DeleteContextMoves DEF Over
<1>3. CASE Restart(p) \/ EnsureRegistry(p) \/ ClearOrphan(p) \/ Create(p) \/ Connect(p)
  BY <1>0, <1>3, RestartMoves, EnsureRegistryMoves, ClearOrphanMoves, CreateMoves, ConnectMoves DEF Over
<1>4. CASE AwaitContext(p) \/ SetContext(p) \/ AwaitHealth(p) \/ DeleteSpec(p) \/ CreateSpec(p) \/ CreateHosting(p)
  BY <1>0, <1>4, AwaitContextMoves, SetContextMoves, AwaitHealthMoves, DeleteSpecMoves, CreateSpecMoves, CreateHostingMoves DEF Over
<1>5. ~Begin(p) /\ ~TimeOut(p) /\ ~Unreachable(p) /\ ~Finish(p)
  BY <1>0, Places, GivingUpMoves, BeginMoves DEF Over
<1> QED
  BY <1>1, <1>2, <1>3, <1>4, <1>5 DEF Step

LEMMA MatchStays ==
  ASSUME NEW p, UNCHANGED req, mem'[p].was = mem[p].was
  PROVE  Matched(p)' <=> Matched(p)
BY SameRequest DEF Matched, Holds, Fulfils, NoVersion, NoConfig

\* Only Begin starts from the start, and only an Apply decides.
LEMMA StartsIdle ==
  ASSUME TypeOK, NEW p \in Procs, Step(p), at[p] = "idle"
  PROVE  Begin(p)
BY DEF Step, CheckNew, EnsureMachine, Get, ReadPart, GiveUpReading, Populated, Decide, Lookup, FindDoomed, AdminDelete,
  Reload, DeleteContext, Restart, EnsureRegistry, ClearOrphan, Create, Connect, AwaitContext, SetContext, AwaitHealth,
  TimeOut, Unreachable, DeleteSpec, CreateSpec, CreateHosting, Finish

LEMMA Deciding ==
  ASSUME NEW p \in Procs, Fits(p), at[p] \in {"get", "decide"}
  PROVE  Applies(p)
BY DEF Fits, DeletePlaces, Over

LEMMA StepAlone ==
  ASSUME TypeOK, ContextsFit, NEW p \in Procs, Fits(p), Step(p), at'[p] \in InFlight,
         at[p] \in InFlight => Undisturbed(p) /\ (Applies(p) /\ Matched(p) => Kept(p))
  PROVE  Undisturbed(p)' /\ (Applies(p) /\ Matched(p) => Kept(p))'
<1>1. CASE Begin(p)
  BY <1>1, BeginAlone
<1>2. CASE ~Begin(p)
  <2>1. at[p] \in InFlight
    BY <1>2, ConfigMoves, BeginMoves, StartsIdle
  <2>2. UNCHANGED req
    BY StepMoves DEF Moves
  <2>3. (Matched(p)' <=> Matched(p)) /\ (Applies(p)' <=> Applies(p))
    BY <2>1, <2>2, WasStays, MatchStays, SameRequest
  <2>4. Undisturbed(p) /\ (Applies(p) /\ Matched(p) => Kept(p))
    BY <2>1
  <2>5. Undisturbed(p)' /\ (Applies(p) /\ Matched(p) => Kept(p)')
    <3>1. CASE CheckNew(p) \/ EnsureMachine(p)
      BY <2>4, <3>1, CheckNewAlone, EnsureMachineAlone
    <3>2. CASE Get(p) \/ Decide(p)
      <4>1. Applies(p)
        BY <3>2, GetMoves, DecideMoves, Deciding
      <4> QED
        BY <2>4, <3>2, <4>1, GetAlone, DecideAlone
    <3>3. CASE ReadPart(p) \/ Populated(p)
      BY <2>4, <3>3, ReadPartAlone, PopulatedAlone
    <3>4. ~GiveUpReading(p)
      BY <2>4, StopReadingMoves, ReadingGoesOn
    <3>5. CASE Lookup(p) \/ FindDoomed(p) \/ AdminDelete(p) \/ Reload(p) \/ DeleteContext(p)
      BY <2>4, <3>5, DeleteAlone DEF Kept
    <3>6. CASE Restart(p) \/ EnsureRegistry(p)
      BY <2>4, <3>6, RestartAlone, EnsureRegistryAlone
    <3>7. CASE ClearOrphan(p) \/ Create(p) \/ Connect(p)
      <4>1. at[p] \in {"orphan", "create", "connect"}
        BY <3>7, ClearOrphanMoves, CreateMoves, ConnectMoves
      <4> QED
        BY <2>4, <3>7, <4>1, ClearOrphanAlone, CreateAlone, ConnectAlone DEF Kept, KeepPlaces
    <3>8. CASE SetContext(p)
      BY <2>4, <3>8, SetContextAlone
    <3>9. CASE AwaitContext(p) \/ AwaitHealth(p) \/ DeleteSpec(p) \/ CreateSpec(p) \/ CreateHosting(p)
      <4>1. at[p] \in {"waitctx", "waithealth", "delspec", "newspec", "hosting"}
        BY <3>9, AwaitContextMoves, AwaitHealthMoves, DeleteSpecMoves, CreateSpecMoves, CreateHostingMoves
      <4> QED
        BY <2>4, <3>9, <4>1, AwaitContextAlone, AwaitHealthAlone, DeleteSpecAlone, CreateSpecAlone, CreateHostingAlone
           DEF Kept, KeepPlaces
    <3>10. ~TimeOut(p) /\ ~Unreachable(p) /\ ~Finish(p)
      BY GivingUpMoves DEF InFlight
    <3> QED
      BY <1>2, <3>1, <3>2, <3>3, <3>4, <3>5, <3>6, <3>7, <3>8, <3>9, <3>10 DEF Step
  <2> QED
    BY <2>3, <2>5
<1> QED
  BY <1>1, <1>2

\* And so does what changes nothing about it.
LEMMA StaysAlone ==
  ASSUME NEW p \in Procs, UNCHANGED <<current, reg, joined, req>>, at'[p] = at[p], mem'[p] = mem[p],
         cluster'[Target(p)] = cluster[Target(p)], context'[Target(p)] = context[Target(p)],
         Undisturbed(p) /\ (Applies(p) /\ Matched(p) => Kept(p))
  PROVE  Undisturbed(p)' /\ (Applies(p) /\ Matched(p) => Kept(p))'
<1> DEFINE n == Target(p)  r == Wanted(p)  old == mem[p].old
<1>1. /\ n' = n /\ r' = r /\ Entry(p)' = Entry(p)
      /\ (Applies(p)' <=> Applies(p)) /\ (Valid(r)' <=> Valid(r))
      /\ (NeedsCreate(r, old)' <=> NeedsCreate(r, old)) /\ (Matched(p)' <=> Matched(p))
      /\ RestartedUnder(p)' <=> RestartedUnder(p)
  BY SameRequest, SameVerdict, MatchStays DEF Entry
<1>2. /\ cluster'[n] = cluster[n] /\ context'[n] = context[n]
      /\ Exists(n)' <=> Exists(n)
      /\ Sound(cluster[n])' <=> Sound(cluster[n])
      /\ Sound(mem[p].was.cluster)' <=> Sound(mem[p].was.cluster)
      /\ Makes(p)' <=> Makes(p)
      /\ SupportsRegistry(r.product)' <=> SupportsRegistry(r.product)
  BY <1>1 DEF Exists, Sound, Makes, SupportsRegistry
<1>3. /\ Looking(p)' <=> Looking(p)
      /\ Alive(p)' <=> Alive(p)
      /\ Reported(p)' <=> Reported(p)
      /\ Reading(p)' <=> Reading(p)
  BY <1>1, <1>2 DEF Looking, Reported, Reading, Alive, Answers, HasContext, HostsRegistry, ConfigOf
<1>4. Made(p)' <=> Made(p)
  BY ZenonT(40), <1>1, <1>2 DEF Made, NoVersion, NoContext
<1>5. Fulfils(cluster[n], context[n], reg, r)' <=> Fulfils(cluster[n], context[n], reg, r)
  BY <1>1, <1>2 DEF Fulfils, NoVersion, NoConfig
<1>6. Undisturbed(p)'
  <2>1. /\ (cluster[n] = NoCluster)' <=> cluster[n] = NoCluster
        /\ (context[n] # NoContext)' <=> context[n] # NoContext
    BY <1>1, <1>2, Zenon DEF NoCluster, NoContext, NoVersion
  <2> QED
    BY <1>1, <1>2, <1>3, <1>4, <1>5, <2>1 DEF Undisturbed
<1>7. (Applies(p) /\ Matched(p) => Kept(p))'
  <2>1. Stopped(mem[p].was.cluster)' = Stopped(mem[p].was.cluster)
    BY DEF Stopped
  <2> QED
    BY <1>1, <1>2, <2>1 DEF Kept
<1> QED
  BY <1>6, <1>7

-------------------------------------------------------------------------------
(***************************************************************************)
(* And so does what happens outside, to its own cluster and to another.      *)
(***************************************************************************)

LEMMA BootAlone ==
  ASSUME TypeOK, NEW p \in Procs, Boot(Target(p)), Undisturbed(p) /\ (Applies(p) /\ Matched(p) => Kept(p))
  PROVE  Undisturbed(p)' /\ (Applies(p) /\ Matched(p) => Kept(p))'
<1> DEFINE n == Target(p)  r == Wanted(p)  old == mem[p].old
<1>1. /\ UNCHANGED <<context, current, reg, joined, req, at, mem>>
      /\ cluster[n].state = "booting"
  BY RequestType, OutsideMoves
<1>2. /\ cluster'[n].state = "up" /\ cluster'[n].by = cluster[n].by /\ cluster'[n].version = cluster[n].version
      /\ cluster'[n].saved = cluster[n].saved /\ cluster'[n].hosting = cluster[n].hosting
      /\ cluster'[n].wired = cluster[n].wired
  <2>1. cluster'[n] = [cluster[n] EXCEPT !.state = "up"]
    BY RequestType, OutsideMoves
  <2> QED
    BY <2>1, RequestType, ClusterType DEF Clusters
<1>3. /\ n' = n /\ r' = r /\ Entry(p)' = Entry(p)
      /\ (Applies(p)' <=> Applies(p)) /\ (Valid(r)' <=> Valid(r))
      /\ (NeedsCreate(r, old)' <=> NeedsCreate(r, old)) /\ (Matched(p)' <=> Matched(p))
      /\ RestartedUnder(p)' <=> RestartedUnder(p)
  BY <1>1, SameRequest, SameVerdict, MatchStays DEF Entry
<1>4. Exists(n) /\ cluster[n] # NoCluster /\ ~Reading(p)
  BY <1>1 DEF Exists, NoCluster, Reading, Answers
<1>11. /\ Reported(p) => Reported(p)'
       /\ Alive(p)'
       /\ Fulfils(cluster[n], context[n], reg, r) => Fulfils(cluster[n], context[n], reg, r)'
  BY <1>1, <1>2, <1>3 DEF Reported, Alive, HasContext, HostsRegistry, ConfigOf, Fulfils, NoVersion, NoConfig
<1>5. Looking(p) => Looking(p)'
  BY <1>1, <1>2, <1>3 DEF Looking, Exists
<1>6. Sound(cluster[n])' <=> Sound(cluster[n])
  BY <1>2, <1>3 DEF Sound
<1>7. Made(p) => Made(p)'
  BY <1>1, <1>2, <1>3 DEF Made, NoVersion, NoContext
<1>8. /\ Makes(p)' <=> Makes(p)
      /\ Sound(mem[p].was.cluster)' <=> Sound(mem[p].was.cluster)
  BY <1>1, <1>3 DEF Makes, Sound
<1>9. Undisturbed(p)'
  BY <1>1, <1>3, <1>4, <1>5, <1>6, <1>7, <1>8, <1>11 DEF Undisturbed
<1>10. Applies(p) /\ Matched(p) => Kept(p)'
  <2> SUFFICES ASSUME Matched(p), Kept(p) PROVE Kept(p)'
    OBVIOUS
  <2>1. mem[p].was.cluster \in Clusters /\ mem[p].was.cluster.state = "up"
    BY MemoryType DEF Matched, Holds
  <2>2. cluster[n] = Stopped(mem[p].was.cluster)
    BY <1>1, <2>1 DEF Kept
  <2>3. cluster'[n] = mem[p].was.cluster
    <3>1. cluster'[n] = [cluster[n] EXCEPT !.state = "up"]
      BY RequestType, OutsideMoves
    <3> QED
      BY <2>1, <2>2, <3>1, ComesBack
  <2> QED
    BY <1>1, <1>3, <2>3 DEF Kept, KeepPlaces
<1> QED
  BY <1>3, <1>9, <1>10

\* A cluster that is kept is still what the spec asks for.
LEMMA KeptFulfils ==
  ASSUME TypeOK, NEW p \in Procs, Matched(p), Kept(p), Valid(Wanted(p))
  PROVE  Fulfils(cluster[Target(p)], context[Target(p)], reg, Wanted(p))
<1> DEFINE c == cluster[Target(p)]  was == mem[p].was
<1>1. Fulfils(was.cluster, was.entry, was.reg, Wanted(p)) /\ was.cluster \in Clusters
  BY MemoryType DEF Matched, Holds
<1>2. reg = was.reg /\ context[Target(p)] = was.entry /\ (c = was.cluster \/ c = Stopped(was.cluster))
  BY DEF Kept
<1>3. /\ c.by = was.cluster.by /\ c.version = was.cluster.version /\ c.saved = was.cluster.saved
      /\ c.hosting = was.cluster.hosting /\ c.wired = was.cluster.wired
  BY <1>1, <1>2, StoppedSays
<1> QED
  BY <1>1, <1>2, <1>3 DEF Fulfils

\* The context that Docker Desktop writes is the one that is there, unless it has to be.
LEMMA WriteContextAlone ==
  ASSUME TypeOK, ContextsFit, NEW p \in Procs, Fits(p), at[p] \in InFlight, WriteContext(Target(p)),
         Undisturbed(p) /\ (Applies(p) /\ Matched(p) => Kept(p))
  PROVE  Undisturbed(p)' /\ (Applies(p) /\ Matched(p) => Kept(p))'
<1> DEFINE n == Target(p)  r == Wanted(p)  old == mem[p].old
<1>1. /\ UNCHANGED <<cluster, current, reg, joined, req, at, mem>>
      /\ ProductOf[n] = "docker-desktop" /\ Exists(n)
      /\ context'[n] = [product |-> "docker-desktop", by |-> cluster[n].by]
  BY RequestType, OutsideMoves
<1>2. context[n] # [product |-> "docker-desktop", by |-> cluster[n].by]
  BY DEF WriteContext
<1>3. /\ n' = n /\ r' = r /\ Entry(p)' = Entry(p)
      /\ (Applies(p)' <=> Applies(p)) /\ (Valid(r)' <=> Valid(r))
      /\ (NeedsCreate(r, old)' <=> NeedsCreate(r, old)) /\ (Matched(p)' <=> Matched(p))
  BY <1>1, SameRequest, SameVerdict, MatchStays DEF Entry
<1>4. cluster[n] # NoCluster /\ ~Reading(p) /\ ~Reported(p)
  BY <1>1, <1>2 DEF Exists, NoCluster, Reading, Reported, Answers, HasContext
<1>5. Valid(r) => ~Fulfils(cluster[n], context[n], reg, r)
  <2> SUFFICES ASSUME Valid(r), context[n] = [product |-> r.product, by |-> cluster[n].by] PROVE FALSE
    BY DEF Fulfils
  <2>1. context[n].product = r.product /\ r.product # NoContext.product
    BY EntrySays, ValidNames
  <2>2. r.product = "docker-desktop"
    BY <1>1, <2>1, EntryFits
  <2> QED
    BY <1>2, <2>2
<1>6. Looking(p)'
  BY <1>1, <1>3 DEF Looking, Exists
<1>7. Made(p) => Made(p)'
  <2> SUFFICES ASSUME Made(p) PROVE Made(p)'
    OBVIOUS
  <2>1. context'[n] = [product |-> "docker-desktop", by |-> p]
    BY <1>1 DEF Made
  <2>2. context'[n] # NoContext
    <3>1. context'[n].product = "docker-desktop"
      BY <2>1, EntrySays
    <3>2. NoContext.product # "docker-desktop"
      BY Zenon DEF NoContext
    <3> QED
      BY <3>1, <3>2
  <2>3. Entry(p).by = p => context'[n] = Entry(p)
    <3> SUFFICES ASSUME Entry(p).by = p PROVE context'[n] = Entry(p)
      OBVIOUS
    <3>1. Entry(p) # NoContext
      BY NobodysContext
    <3>2. Entry(p).product = "docker-desktop" /\ Entry(p) = [product |-> Entry(p).product, by |-> Entry(p).by]
      BY <1>1, <3>1, EntryFits
    <3> QED
      BY <2>1, <3>2
  <2>4. context'[n] # NoContext'
    BY <2>2, Zenon DEF NoContext
  <2> QED
    BY <1>1, <1>3, <2>3, <2>4 DEF Made, NoVersion
<1>8. /\ Makes(p)' <=> Makes(p)
      /\ Sound(mem[p].was.cluster)' <=> Sound(mem[p].was.cluster)
      /\ Sound(cluster[n])' <=> Sound(cluster[n])
      /\ Exists(n)' <=> Exists(n)
      /\ SupportsRegistry(r.product)' <=> SupportsRegistry(r.product)
  BY <1>1, <1>3 DEF Makes, Sound, Exists, SupportsRegistry
<1>9. at[p] = "final" /\ ~NeedsCreate(r, old) => ~Sound(mem[p].was.cluster)
  <2> SUFFICES ASSUME at[p] = "final", ~NeedsCreate(r, old), Sound(mem[p].was.cluster) PROVE FALSE
    OBVIOUS
  <2>1. Fulfils(cluster[n], context[n], reg, r)
    BY DEF Undisturbed
  <2>2. Valid(r)
    BY DEF Fits, InFlight, DeletePlaces, Over
  <2> QED
    BY <1>5, <2>1, <2>2
<1>10. Undisturbed(p)'
  BY <1>1, <1>3, <1>4, <1>6, <1>7, <1>8, <1>9 DEF Undisturbed
<1>11. Applies(p) /\ Matched(p) => Kept(p)'
  <2> SUFFICES ASSUME Applies(p), Matched(p), Kept(p) PROVE Kept(p)'
    OBVIOUS
  <2>1. ~Valid(r)
    BY <1>5, KeptFulfils
  <2>2. at[p] \in {"check", "machine"}
    BY <2>1 DEF Fits
  <2> QED
    BY <1>1, <1>3, <2>1, <2>2 DEF Kept, KeepPlaces
<1> QED
  BY <1>3, <1>10, <1>11

-------------------------------------------------------------------------------
(***************************************************************************)
(* The inductive invariant holds.                                          *)
(***************************************************************************)

LEMMA InitIInv == Init => IInv
<1> SUFFICES ASSUME Init PROVE IInv
  OBVIOUS
<1>1. \A p \in Procs : at[p] \notin InFlight
  BY Places DEF Init
<1> QED
  BY <1>1, InitBase DEF IInv, AloneInv

LEMMA StepIInv == IInv /\ [Next]_vars => IInv'
<1> SUFFICES ASSUME IInv, [Next]_vars PROVE IInv'
  OBVIOUS
<1>0. TypeOK /\ ContextsFit /\ (\A p \in Procs : Fits(p)) /\ Base'
  BY StepBase DEF IInv, Base
<1> SUFFICES ASSUME NEW p \in Procs, at'[p] \in InFlight, alone'[p]
             PROVE  Undisturbed(p)' /\ (Applies(p) /\ Matched(p) => Kept(p))'
  BY <1>0 DEF IInv, AloneInv
<1>1. at[p] \in InFlight /\ alone[p] => Undisturbed(p) /\ (Applies(p) /\ Matched(p) => Kept(p))
  BY DEF IInv, AloneInv
<1>2. ASSUME NEW q, Interrupt(q) PROVE p = q /\ alone[p]
  BY <1>2 DEF Interrupt
<1>3. CASE \E q \in Procs : Step(q) /\ Interrupt(q)
  <2>1. Step(p) /\ alone[p]
    BY <1>2, <1>3
  <2> QED
    BY <1>0, <1>1, <2>1, StepAlone
<1>4. ~Interrupt(Daemon)
  BY <1>2, ClusterAssumption DEF ClusterAssumption
<1>5. CASE \E n \in Names : Boot(n) \/ WriteContext(n)
  <2>1. PICK n \in Names : Boot(n) \/ WriteContext(n)
    BY <1>5
  <2>2. /\ UNCHANGED <<current, reg, joined, req, at, mem, alone>>
        /\ \A m \in Names \ {n} : cluster'[m] = cluster[m] /\ context'[m] = context[m]
    BY <1>0, <2>1, OutsideMoves
  <2>3. at[p] \in InFlight /\ Undisturbed(p) /\ (Applies(p) /\ Matched(p) => Kept(p))
    BY <1>1, <2>2
  <2>4. CASE n = Target(p)
    BY <1>0, <2>1, <2>3, <2>4, BootAlone, WriteContextAlone
  <2>5. CASE n # Target(p)
    BY <1>0, <2>2, <2>3, <2>5, RequestType, StaysAlone
  <2> QED
    BY <2>4, <2>5
<1>6. CASE UNCHANGED vars
  <2>1. UNCHANGED <<cluster, context, current, reg, joined, req, at, mem, alone>>
    BY <1>6 DEF vars, world
  <2> QED
    BY <1>1, <2>1, StaysAlone
<1> QED
  BY <1>3, <1>4, <1>5, <1>6, NextSteps

LEMMA IInvHolds == Spec => []IInv
BY InitIInv, StepIInv, PTL DEF Spec

-------------------------------------------------------------------------------
(***************************************************************************)
(* What a command has done when it ends.                                    *)
(***************************************************************************)

\* Only its own step or a fault takes a process to another place.
LEMMA OwnStep ==
  ASSUME TypeOK, [Next]_vars, NEW p \in Procs, at'[p] # at[p]
  PROVE  Step(p) \/ Fault(p)
<1>1. CASE \E q \in Procs : Step(q) \/ Fault(q)
  BY <1>1, StepMoves DEF Moves
<1>2. CASE \E n \in Names : Boot(n) \/ WriteContext(n) \/ Flip(n)
  BY <1>2, OutsideMoves
<1>3. CASE UNCHANGED vars
  BY <1>3 DEF vars
<1> QED
  BY <1>1, <1>2, <1>3, NextSteps

\* A fault breaks the process off or leaves it going.
LEMMA FaultEnds ==
  ASSUME TypeOK, NEW p \in Procs, Fault(p)
  PROVE  at'[p] \notin {"done", "failed"}
BY GivingUpMoves, DieCreatingMoves, GetMoves, StopReadingMoves DEF Fault, ReadFails, SlowHealthCheck, Fail

\* The steps that report success.
LEMMA DoneBy ==
  ASSUME TypeOK, NEW p \in Procs, Step(p), at'[p] = "done"
  PROVE  Finish(p) \/ ((Reload(p) \/ DeleteContext(p)) /\ ~Applies(p))
<1>1. ~Begin(p) /\ ~CheckNew(p) /\ ~EnsureMachine(p) /\ ~Get(p) /\ ~ReadPart(p) /\ ~GiveUpReading(p) /\ ~Populated(p)
  BY BeginMoves, CheckNewMoves, EnsureMachineMoves, GetMoves, ReadPartMoves, StopReadingMoves, PopulatedMoves
<1>2. ~Decide(p) /\ ~Lookup(p) /\ ~FindDoomed(p) /\ ~AdminDelete(p) /\ ~Restart(p) /\ ~EnsureRegistry(p)
  BY DecideMoves, LookupMoves, FindDoomedMoves, AdminDeleteMoves, RestartMoves, EnsureRegistryMoves
<1>3. ~ClearOrphan(p) /\ ~Create(p) /\ ~Connect(p) /\ ~AwaitContext(p) /\ ~SetContext(p) /\ ~AwaitHealth(p)
  BY ClearOrphanMoves, CreateMoves, ConnectMoves, AwaitContextMoves, SetContextMoves, AwaitHealthMoves
<1>4. ~TimeOut(p) /\ ~Unreachable(p) /\ ~DeleteSpec(p) /\ ~CreateSpec(p) /\ ~CreateHosting(p)
  BY GivingUpMoves, DeleteSpecMoves, CreateSpecMoves, CreateHostingMoves
<1>5. Reload(p) \/ DeleteContext(p) => ~Applies(p)
  BY ReloadMoves, DeleteContextMoves DEF Applies
<1> QED
  BY <1>1, <1>2, <1>3, <1>4, <1>5 DEF Step

\* A cluster that a process has created and configured is what the spec asks for.
LEMMA MadeHolds ==
  ASSUME TypeOK, ContextsFit, NEW p \in Procs, Fits(p), at[p] = "final", Applies(p),
         NeedsCreate(Wanted(p), mem[p].old), Made(p)
  PROVE  HoldsNow(Target(p), Wanted(p)) /\ current = Target(p)
<1> DEFINE n == Target(p)  c == cluster[n]  r == Wanted(p)
<1>1. at[p] \in InFlight /\ Valid(r) /\ r.product = ProductOf[n] /\ (r.registry => reg # 0 /\ mem[p].port = reg)
  BY DEF Fits, Makes, InFlight, AfterRegistry
<1>2. c.state = "up" /\ c.by = p /\ Entry(p).by = p /\ context[n] = Entry(p) /\ current = n /\ c.saved = r.config
  BY DEF Made
<1>3. context[n] = [product |-> r.product, by |-> c.by]
  <2>1. Entry(p) # NoContext
    BY <1>2, NobodysContext
  <2> QED
    BY <1>1, <1>2, <2>1, EntryFits
<1>4. r.version # NoVersion => c.version.minor = r.version.minor
  BY DEF Made
<1>5. r.registry => c.hosting = reg /\ c.wired = reg
  <2>1. r.registry => r.product \in {"kind", "k3d"}
    BY <1>1 DEF Valid, SupportsRegistry
  <2> QED
    BY <1>1, <2>1 DEF Made
<1> QED
  BY <1>1, <1>2, <1>3, <1>4, <1>5 DEF HoldsNow, Holds, Fulfils

\* An Apply that nobody interferes with and that reports success leaves the cluster
\* that was asked for, current, unless it found one with registry settings that
\* contradict each other. The cluster is up, unless Apply kept one that it found, and
\* restarted Docker's engine under it for more CPUs.
THEOREM AppliedHoldsAlone == Spec => AppliedHolds
<1>1. IInv /\ [Next]_vars =>
        [\A p \in Procs :
           Applies(p) /\ Ends(p, "done") /\ Sound(mem[p].was.cluster)
             => /\ Fulfils(cluster[Target(p)], context[Target(p)], reg, Wanted(p))'
                /\ cluster'[Target(p)].state = "up" \/ RestartedUnder(p)
                /\ current' = Target(p)]_vars
  <2> SUFFICES ASSUME IInv, [Next]_vars, NEW p \in Procs, Applies(p), Ends(p, "done"), Sound(mem[p].was.cluster)
               PROVE  /\ Fulfils(cluster[Target(p)], context[Target(p)], reg, Wanted(p))'
                      /\ cluster'[Target(p)].state = "up" \/ RestartedUnder(p)
                      /\ current' = Target(p)
    OBVIOUS
  <2> DEFINE n == Target(p)  r == Wanted(p)
  <2>1. TypeOK /\ ContextsFit /\ Fits(p) /\ at[p] # "done" /\ at'[p] = "done" /\ alone[p]
    BY DEF IInv, Base, Ends
  <2>2. Finish(p)
    BY <2>1, OwnStep, FaultEnds, DoneBy
  <2>3. at[p] = "final" /\ at[p] \in InFlight /\ UNCHANGED <<cluster, context, current, reg, req>>
    BY <2>1, <2>2, GivingUpMoves DEF Thinks, Moves, world
  <2>4. Undisturbed(p)
    BY <2>1, <2>3 DEF IInv, AloneInv
  <2>5. Fulfils(cluster[n], context[n], reg, r) /\ (cluster[n].state = "up" \/ RestartedUnder(p)) /\ current = n
    <3>1. CASE NeedsCreate(r, mem[p].old)
      <4>1. Made(p)
        BY <2>3, <2>4, <3>1 DEF Undisturbed, Makes
      <4>2. HoldsNow(n, r) /\ current = n
        BY <2>1, <2>3, <3>1, <4>1, MadeHolds
      <4> QED
        BY <4>2 DEF HoldsNow, Holds
    <3>2. CASE ~NeedsCreate(r, mem[p].old)
      BY <2>3, <2>4, <3>2 DEF Undisturbed, Alive
    <3> QED
      BY <3>1, <3>2
  <2>6. n' = n /\ r' = r
    BY <2>3, SameRequest
  <2>7. Fulfils(cluster[n], context[n], reg, r)' <=> Fulfils(cluster[n], context[n], reg, r)
    BY <2>3, <2>6 DEF Fulfils, NoVersion, NoConfig
  <2> QED
    BY <2>3, <2>5, <2>7
<1> QED
  BY <1>1, IInvHolds, PTL DEF Spec, AppliedHolds

\* Where a process is whose cluster is to be kept, the end of it changes no cluster.
LEMMA EndsKeeping ==
  ASSUME TypeOK, NEW p \in Procs, Step(p) \/ Fault(p), at[p] \in KeepPlaces, at'[p] \notin InFlight
  PROVE  cluster' = cluster
<1> USE DEF KeepPlaces, InFlight
<1>1. CASE CheckNew(p) \/ EnsureMachine(p) \/ Finish(p) \/ TimeOut(p) \/ Unreachable(p) \/ Fail(p)
  BY <1>1, CheckNewMoves, EnsureMachineMoves, GivingUpMoves DEF Thinks, world
<1>2. CASE Restart(p)
  BY <1>2, RestartMoves
<1>3. CASE SetContext(p)
  BY <1>3, SetContextMoves
<1>4. ~Begin(p) /\ ~Lookup(p) /\ ~FindDoomed(p) /\ ~AdminDelete(p) /\ ~Reload(p) /\ ~DeleteContext(p) /\ ~ClearOrphan(p)
  BY ZenonT(40), BeginMoves, LookupMoves, FindDoomedMoves, AdminDeleteMoves, ReloadMoves, DeleteContextMoves, ClearOrphanMoves
<1>5. /\ ~Create(p) /\ ~Connect(p) /\ ~AwaitContext(p) /\ ~AwaitHealth(p) /\ ~DeleteSpec(p) /\ ~CreateSpec(p)
      /\ ~CreateHosting(p) /\ ~DieCreating(p)
  BY ZenonT(40), CreateMoves, ConnectMoves, AwaitContextMoves, AwaitHealthMoves, DeleteSpecMoves, CreateSpecMoves,
     CreateHostingMoves, DieCreatingMoves
<1>6. ~Get(p) /\ ~SlowHealthCheck(p) /\ ~ReadPart(p) /\ ~GiveUpReading(p) /\ ~ReadFails(p) /\ ~Populated(p)
  BY GetMoves, ReadPartMoves, StopReadingMoves, PopulatedMoves
<1>7. ~Decide(p) /\ ~EnsureRegistry(p)
  BY DecideMoves, EnsureRegistryMoves
<1> QED
  BY <1>1, <1>2, <1>3, <1>4, <1>5, <1>6, <1>7 DEF Step, Fault

\* What Apply has been told of the cluster, it remembers from then on.
LEMMA ReportStays ==
  ASSUME TypeOK, NEW p \in Procs, Step(p), at'[p] \in {"registry", "setctx", "final"}
  PROVE  mem'[p].old = mem[p].old
<1> USE DEF Learns
<1>1. CASE Restart(p) \/ EnsureRegistry(p) \/ AwaitContext(p) \/ SetContext(p) \/ CreateSpec(p) \/ CreateHosting(p)
  BY <1>1, RestartMoves, EnsureRegistryMoves, AwaitContextMoves, SetContextMoves, CreateSpecMoves, CreateHostingMoves
<1>2. ~Begin(p) /\ ~CheckNew(p) /\ ~EnsureMachine(p) /\ ~Get(p) /\ ~ReadPart(p) /\ ~GiveUpReading(p) /\ ~Populated(p)
  BY BeginMoves, CheckNewMoves, EnsureMachineMoves, GetMoves, ReadPartMoves, StopReadingMoves, PopulatedMoves
<1>3. ~Decide(p) /\ ~Lookup(p) /\ ~FindDoomed(p) /\ ~AdminDelete(p) /\ ~Reload(p) /\ ~DeleteContext(p)
  BY DecideMoves, LookupMoves, FindDoomedMoves, AdminDeleteMoves, ReloadMoves, DeleteContextMoves
<1>4. ~ClearOrphan(p) /\ ~Create(p) /\ ~Connect(p) /\ ~AwaitHealth(p) /\ ~DeleteSpec(p)
  BY ClearOrphanMoves, CreateMoves, ConnectMoves, AwaitHealthMoves, DeleteSpecMoves
<1>5. ~TimeOut(p) /\ ~Unreachable(p) /\ ~Finish(p)
  BY GivingUpMoves
<1> QED
  BY <1>1, <1>2, <1>3, <1>4, <1>5 DEF Step

\* An Apply deletes, creates or changes no cluster that the spec held of already. It
\* may restart Docker's engine under it.
THEOREM MatchIsKeptAlone == Spec => MatchIsKept
<1>1. IInv /\ IInv' /\ [Next]_vars =>
        [\A p \in Procs :
           /\ Applies(p) /\ at[p] \in InFlight /\ alone[p]
           /\ at'[p] \in InFlight => alone'[p]
           /\ Holds(mem[p].was.cluster, mem[p].was.entry, mem[p].was.reg, Wanted(p))
           => \/ cluster'[Target(p)] = mem[p].was.cluster
              \/ RestartedUnder(p) /\ cluster'[Target(p)] = Stopped(mem[p].was.cluster)]_vars
  <2> SUFFICES ASSUME IInv, IInv', [Next]_vars, NEW p \in Procs, Applies(p), at[p] \in InFlight, alone[p],
                      at'[p] \in InFlight => alone'[p], Matched(p)
               PROVE  \/ cluster'[Target(p)] = mem[p].was.cluster
                      \/ RestartedUnder(p) /\ cluster'[Target(p)] = Stopped(mem[p].was.cluster)
    BY DEF Matched
  <2>1. TypeOK /\ Kept(p)
    BY DEF IInv, Base, AloneInv
  <2>2. /\ at[p] \in KeepPlaces
        /\ \/ cluster[Target(p)] = mem[p].was.cluster
           \/ RestartedUnder(p) /\ cluster[Target(p)] = Stopped(mem[p].was.cluster)
    BY <2>1 DEF Kept
  <2>3. CASE at'[p] \notin InFlight
    <3>1. Step(p) \/ Fault(p)
      BY <2>1, <2>3, OwnStep
    <3> QED
      BY <2>1, <2>2, <2>3, <3>1, EndsKeeping
  <2>4. CASE at'[p] \in InFlight
    <3>1. /\ UNCHANGED req /\ mem'[p].was = mem[p].was
          /\ at'[p] \in {"registry", "setctx", "final"} => mem'[p].old = mem[p].old
      <4>1. CASE \E q \in Procs : Step(q) /\ Interrupt(q)
        <5>1. PICK q \in Procs : Step(q) /\ Interrupt(q)
          BY <4>1
        <5>2. q = p
          BY <2>4, <5>1 DEF Interrupt
        <5> QED
          BY <2>1, <2>4, <5>1, <5>2, WasStays, ReportStays, StepMoves DEF Moves
      <4>2. CASE \E n \in Names : Boot(n) \/ WriteContext(n)
        BY <2>1, <4>2, OutsideMoves
      <4>3. ~Interrupt(Daemon)
        BY <2>4, ClusterAssumption DEF ClusterAssumption, Interrupt
      <4>4. CASE UNCHANGED vars
        BY <4>4 DEF vars
      <4> QED
        BY <4>1, <4>2, <4>3, <4>4, NextSteps
    <3>2. Target(p)' = Target(p) /\ (Applies(p)' <=> Applies(p)) /\ (Matched(p)' <=> Matched(p))
      BY <3>1, SameRequest, MatchStays
    <3>3. Kept(p)'
      BY <2>4, <3>2 DEF IInv, AloneInv
    <3>4. at'[p] \in {"registry", "setctx", "final"} => (RestartedUnder(p)' <=> RestartedUnder(p))
      BY <3>1, SameVerdict
    <3>5. Stopped(mem[p].was.cluster)' = Stopped(mem[p].was.cluster)
      BY <3>1 DEF Stopped
    <3> QED
      BY <3>1, <3>2, <3>3, <3>4, <3>5 DEF Kept
  <2> QED
    BY <2>3, <2>4
<1> QED
  BY <1>1, IInvHolds, PTL DEF Spec, MatchIsKept

\* A Delete that nobody interferes with and that reports success leaves neither the
\* cluster nor its context.
THEOREM DeletedIsGoneAlone == Spec => DeletedIsGone
<1>1. IInv /\ [Next]_vars =>
        [\A p \in Procs :
           req[p].kind = "delete" /\ Ends(p, "done")
             => cluster'[Target(p)] = NoCluster /\ context'[Target(p)] = NoContext]_vars
  <2> SUFFICES ASSUME IInv, [Next]_vars, NEW p \in Procs, req[p].kind = "delete", Ends(p, "done")
               PROVE  cluster'[Target(p)] = NoCluster /\ context'[Target(p)] = NoContext
    OBVIOUS
  <2>1. TypeOK /\ Fits(p) /\ at[p] # "done" /\ at'[p] = "done" /\ alone[p] /\ ~Applies(p)
    BY DEF IInv, Base, Ends, Applies
  <2>2. Finish(p) \/ Reload(p) \/ DeleteContext(p)
    BY <2>1, OwnStep, FaultEnds, DoneBy
  <2>3. ~Finish(p)
    BY <2>1, GivingUpMoves DEF Fits, DeletePlaces, Over
  <2>4. CASE Reload(p)
    <3>1. at[p] = "reload" /\ context[Target(p)] = NoContext /\ UNCHANGED <<cluster, context>>
      BY <2>1, <2>4, ReloadMoves DEF Thinks, world
    <3>2. cluster[Target(p)] = NoCluster
      BY <2>1, <3>1 DEF IInv, AloneInv, Undisturbed, InFlight
    <3> QED
      BY <3>1, <3>2
  <2>5. CASE DeleteContext(p)
    <3>1. at[p] = "delctx" /\ context'[Target(p)] = NoContext /\ UNCHANGED cluster
      BY <2>1, <2>5, DeleteContextMoves
    <3>2. cluster[Target(p)] = NoCluster
      BY <2>1, <3>1 DEF IInv, AloneInv, Undisturbed, InFlight
    <3> QED
      BY <3>1, <3>2
  <2> QED
    BY <2>2, <2>3, <2>4, <2>5
<1> QED
  BY <1>1, IInvHolds, PTL DEF Spec, DeletedIsGone

\* The steps of an Apply that can fail, and the reasons for it.
LEMMA FailedBy ==
  ASSUME TypeOK, NEW p \in Procs, Step(p), at'[p] = "failed", Applies(p)
  PROVE  \/ at[p] = "check" \/ (at[p] = "machine" /\ ~Valid(Wanted(p)))
         \/ at[p] = "delget" /\ (Entry(p) = NoContext \/ (Entry(p).product = "docker-desktop" /\ ~LocalDesktop))
         \/ at[p] = "delctx" /\ context[Target(p)] = NoContext
         \/ at[p] = "restart" /\ ~CanRestart(p)
         \/ at[p] = "orphan" /\ Wanted(p).product # ProductOf[Target(p)]
         \/ at[p] = "create" /\ ~CanCreate(p)
         \/ at[p] = "connect" /\ ~mem[p].joined /\ (reg = 0 \/ joined)
         \/ at[p] = "setctx" /\ context[Target(p)] = NoContext
         \/ at[p] \in {"delspec", "newspec", "hosting"} /\ ~Reachable(p)
         \/ at[p] = "newspec" /\ cluster[Target(p)].saved # Missing
         \/ at[p] = "hosting" /\ cluster[Target(p)].hosting # 0
<1>1. CASE CheckNew(p) \/ EnsureMachine(p) \/ FindDoomed(p) \/ DeleteContext(p)
  BY <1>1, CheckNewMoves, EnsureMachineMoves, FindDoomedMoves, DeleteContextMoves
<1>2. CASE Restart(p) \/ ClearOrphan(p) \/ Create(p) \/ Connect(p) \/ SetContext(p)
  BY <1>2, RestartMoves, ClearOrphanMoves, CreateMoves, ConnectMoves, SetContextMoves
<1>3. CASE Unreachable(p) \/ CreateSpec(p) \/ CreateHosting(p)
  BY <1>3, GivingUpMoves, CreateSpecMoves, CreateHostingMoves
<1>4. ~Begin(p) /\ ~Get(p) /\ ~ReadPart(p) /\ ~GiveUpReading(p) /\ ~Populated(p) /\ ~Decide(p) /\ ~Lookup(p)
  BY BeginMoves, GetMoves, ReadPartMoves, StopReadingMoves, PopulatedMoves, DecideMoves, LookupMoves
<1>5. ~AdminDelete(p) /\ ~Reload(p) /\ ~EnsureRegistry(p) /\ ~AwaitContext(p) /\ ~AwaitHealth(p) /\ ~DeleteSpec(p)
  BY AdminDeleteMoves, ReloadMoves, EnsureRegistryMoves, AwaitContextMoves, AwaitHealthMoves, DeleteSpecMoves
<1>6. ~TimeOut(p) /\ ~Finish(p)
  BY GivingUpMoves
<1> QED
  BY <1>1, <1>2, <1>3, <1>4, <1>5, <1>6 DEF Step

\* A context that is the cluster's is one.
LEMMA ContextKnown ==
  ASSUME TypeOK, NEW n \in Names, HasContext(n)
  PROVE  context[n] # NoContext
<1>1. context[n].product \in Products
  BY EntrySays, ClusterAssumption DEF HasContext, ClusterAssumption
<1>2. NoContext.product \notin Products
  BY Zenon DEF NoContext, Products
<1> QED
  BY <1>1, <1>2

\* From whatever it finds, an Apply that nobody interferes with fails only for want of a
\* Docker Desktop: to have its cluster, or to have the CPUs.
THEOREM RetrySucceedsAlone == Spec => RetrySucceeds
<1>1. IInv /\ [Next]_vars =>
        [\A p \in Procs :
           /\ req[p].kind = "apply" /\ Ends(p, "failed")
           /\ Valid(Wanted(p)) /\ Wanted(p).product = ProductOf[Target(p)] /\ Installs(Wanted(p)) # {}
           => /\ ~LocalDesktop
              /\ Wanted(p).cpus > mem[p].old.cpus \/ Wanted(p).product = "docker-desktop"]_vars
  <2> SUFFICES ASSUME IInv, [Next]_vars, NEW p \in Procs, req[p].kind = "apply", Ends(p, "failed"),
                      Valid(Wanted(p)), Wanted(p).product = ProductOf[Target(p)], Installs(Wanted(p)) # {}
               PROVE  /\ ~LocalDesktop
                      /\ Wanted(p).cpus > mem[p].old.cpus \/ Wanted(p).product = "docker-desktop"
    OBVIOUS
  <2> DEFINE n == Target(p)  r == Wanted(p)  old == mem[p].old
  <2>1. TypeOK /\ ContextsFit /\ Fits(p) /\ at[p] # "failed" /\ at'[p] = "failed" /\ alone[p] /\ Applies(p)
    BY DEF IInv, Base, Ends, Applies
  <2>2. Step(p)
    BY <2>1, OwnStep, FaultEnds
  <2>3. at[p] \in InFlight => Undisturbed(p)
    BY <2>1 DEF IInv, AloneInv
  <2>4. at[p] # "check"
    BY <2>1 DEF Fits
  <2>5. CASE at[p] = "delget"
    <3>1. Entry(p) # NoContext
      BY <2>1, <2>5 DEF Fits
    <3>2. Entry(p).product = ProductOf[n]
      BY <2>1, <2>5, <3>1, EntryFits DEF InFlight
    <3> QED
      BY <2>1, <2>2, <2>5, <3>1, <3>2, FailedBy
  <2>6. CASE at[p] = "restart"
    <3>1. ~CanRestart(p)
      BY <2>1, <2>2, <2>6, FailedBy
    <3>2. r.cpus \in Nat /\ old.cpus \in Nat
      BY <2>1, RequestType, MemoryType DEF IsRequest, Reports
    <3> QED
      BY <3>1, <3>2 DEF CanRestart
  <2>7. ~(at[p] = "delctx" /\ context[n] = NoContext)
    BY <2>3 DEF Undisturbed, InFlight
  <2>8. ~(at[p] = "create" /\ ~CanCreate(p))
    BY <2>1, <2>3 DEF Undisturbed, Fits, CanCreate, InFlight, AfterRegistry, MakePlaces
  <2>9. ~(at[p] = "connect" /\ ~mem[p].joined /\ (reg = 0 \/ joined))
    <3> SUFFICES ASSUME at[p] = "connect" PROVE mem[p].joined = joined /\ reg # 0
      OBVIOUS
    <3>1. Undisturbed(p) /\ r.registry /\ reg # 0
      BY <2>1, <2>3 DEF Fits, InFlight, AfterRegistry, MakePlaces
    <3> QED
      BY <3>1 DEF Undisturbed
  <2>10. ~(at[p] = "setctx" /\ context[n] = NoContext)
    <3> SUFFICES ASSUME at[p] = "setctx" PROVE context[n] # NoContext
      OBVIOUS
    <3>1. CASE NeedsCreate(r, old)
      BY <2>3, <3>1 DEF Undisturbed, Makes, Made, InFlight
    <3>2. CASE ~NeedsCreate(r, old)
      BY <2>1, <2>3, <3>2, RequestType, ContextKnown DEF Undisturbed, Reported, InFlight
    <3> QED
      BY <3>1, <3>2
  <2>11. at[p] \in {"delspec", "newspec", "hosting"} => Made(p)
    BY <2>3 DEF Undisturbed, Makes, MakePlaces, InFlight
  <2>12. ~(at[p] \in {"delspec", "newspec", "hosting"} /\ ~Reachable(p))
    BY <2>11, NobodysContext DEF Made, Reachable
  <2>13. ~(at[p] = "newspec" /\ cluster[n].saved # Missing)
    BY <2>11 DEF Made
  <2>14. ~(at[p] = "hosting" /\ cluster[n].hosting # 0)
    BY <2>1, <2>11 DEF Made, Fits
  <2> QED
    BY <2>1, <2>2, <2>4, <2>5, <2>6, <2>7, <2>8, <2>9, <2>10, <2>12, <2>13, <2>14, FailedBy
<1> QED
  BY <1>1, IInvHolds, PTL DEF Spec, RetrySucceeds

==============================================================================
