------------------------- MODULE ClusterJointProofs ---------------------------
(***************************************************************************)
(* Proofs about Cluster, of processes that apply the same spec to a cluster   *)
(* at once. Any number of them may be at work, for any number of clusters.  *)
(***************************************************************************)
EXTENDS ClusterProofs

-------------------------------------------------------------------------------
(***************************************************************************)
(* The inductive invariant. While every call for a cluster is an Apply of the *)
(* same spec, and none of them is about to replace it, the cluster is either  *)
(* the one that was there before or that of the last to create one.         *)
(***************************************************************************)

\* All the calls for the cluster are an Apply of one spec, and none of them has failed.
Joint(n) ==
  /\ n \notin disturbed
  /\ \A p \in CallsFor(n) :
       /\ Applies(p) /\ at[p] \in InFlight \cup {"done"}
       /\ \A q \in CallsFor(n) : Wanted(q) = Wanted(p)

\* The process will create the cluster, whatever is there now.
Pending(p) ==
  \/ at[p] \in {"delget", "admindel", "reload", "delctx", "orphan", "create"}
  \/ at[p] \in {"restart", "registry"} /\ NeedsCreate(Wanted(p), mem[p].old)

Settled(n) == \A p \in CallsFor(n) : ~Pending(p)

\* What was read so far is true, but a registry may have been started since.
ReadTruly(p) ==
  LET n == Target(p)  old == mem[p].old  read == Parts \ mem[p].todo IN
  /\ Answers(n)
  /\ old.found /\ old.version = cluster[n].version
  /\ old.registry => HostsRegistry(cluster[n])
  /\ "spec" \in read => old.config = ConfigOf(cluster[n])

Reaches(p) == Entry(p) = NoContext \/ Entry(p) = context[Target(p)]

\* The process has found that the cluster will do, or is finding out.
Keeping(p) ==
  /\ at[p] \in KeepPlaces \cup {"done"}
  /\ at[p] \in {"check", "machine", "get", "populate"} => Reaches(p)
  /\ at[p] = "populate" => ReadTruly(p)
  /\ at[p] = "decide" /\ mem[p].old.created => ReadTruly(p) /\ mem[p].todo = {}
  /\ at[p] \in {"restart", "registry", "setctx", "final"} => ~NeedsCreate(Wanted(p), mem[p].old)
  /\ at[p] \in {"restart", "registry", "setctx", "final", "done"}
       => Valid(Wanted(p)) /\ HoldsNow(Target(p), Wanted(p))

\* The cluster is the one that was there before all of them.
Inherited(n) ==
  /\ Sound(cluster[n])
  /\ context[n] = NoContext \/ context[n] = [product |-> ProductOf[n], by |-> Daemon]
  /\ \A p \in CallsFor(n) : Keeping(p)

\* The cluster is the one that q has made, as far as q has got with it.
Holding(n, q) ==
  LET c == cluster[n]  r == Wanted(q) IN
  /\ c.by = q /\ q \in CallsFor(n) /\ c.state \in {"booting", "up"}
  /\ (Makes(q) /\ at[q] \notin {"orphan", "create"}) \/ at[q] = "done"
  /\ Valid(r) /\ r.product = ProductOf[n]
  /\ r.version # NoVersion => c.version.minor = r.version.minor
  /\ r.registry => reg # 0
  /\ r.registry /\ r.product = "k3d" => c.hosting = reg /\ c.wired = reg
  /\ r.registry /\ r.product = "kind" /\ at[q] # "connect" => c.wired = reg
  /\ r.registry /\ r.product = "kind" /\ at[q] \in {"final", "done"} => c.hosting = reg
  /\ \/ ProductOf[n] # "docker-desktop"
     \/ at[q] \in {"setctx", "waithealth"} /\ Entry(q).by = q
     \/ at[q] \in {"delspec", "newspec", "hosting", "final", "done"}
     => context[n] = [product |-> ProductOf[n], by |-> q]
  /\ at[q] \in {"delspec", "newspec", "hosting", "final", "done"} => c.state = "up"

\* Its config is saved, or will be: whoever deletes what another has saved is about to
\* save the same.
Saving(n, q) ==
  \/ cluster[n].saved = Wanted(q).config
  \/ at[q] \in {"connect", "waitctx", "setctx", "waithealth", "delspec"}
  \/ \E p \in CallsFor(n) : at[p] = "newspec"

\* The cluster is the one that the last to create it has made. The others write the
\* same into it, or have kept it.
Owned(n) == \E q \in Procs : Holding(n, q) /\ Saving(n, q)

JointInv ==
  \A n \in Names : Joint(n) /\ Settled(n) => IF cluster[n].by = Daemon THEN Inherited(n) ELSE Owned(n)

-------------------------------------------------------------------------------
(***************************************************************************)
(* The calls for a cluster, from one state to the next.                     *)
(***************************************************************************)

\* A process that moves was not through, and has started.
LEMMA StepPlaces ==
  ASSUME TypeOK, NEW p \in Procs, Step(p) \/ Fault(p)
  PROVE  at[p] \in InFlight \cup {"idle"} /\ at'[p] \in InFlight \cup Over
<1>1. at[p] \in InFlight \cup {"idle"}
  BY DEF Step, Fault, Fail, DieCreating, SlowHealthCheck, ReadFails, Begin, CheckNew, EnsureMachine, Get, ReadPart,
         GiveUpReading, Populated, Decide, Lookup, FindDoomed, AdminDelete, Reload, DeleteContext, Restart,
         EnsureRegistry, ClearOrphan, Create, Connect, AwaitContext, SetContext, AwaitHealth, TimeOut, Unreachable,
         DeleteSpec, CreateSpec, CreateHosting, Finish, InFlight
<1>2. CASE Begin(p) \/ CheckNew(p) \/ EnsureMachine(p) \/ Get(p) \/ SlowHealthCheck(p)
  BY <1>2, BeginMoves, CheckNewMoves, EnsureMachineMoves, GetMoves DEF InFlight, Over
<1>3. CASE ReadPart(p) \/ GiveUpReading(p) \/ ReadFails(p) \/ Populated(p) \/ Decide(p)
  BY <1>3, ReadPartMoves, StopReadingMoves, PopulatedMoves, DecideMoves DEF InFlight, Over
<1>4. CASE Lookup(p) \/ FindDoomed(p) \/ AdminDelete(p) \/ Reload(p) \/ DeleteContext(p)
  BY <1>4, LookupMoves, FindDoomedMoves, AdminDeleteMoves, ReloadMoves, DeleteContextMoves DEF InFlight, Over
<1>5. CASE Restart(p) \/ EnsureRegistry(p) \/ ClearOrphan(p) \/ Create(p) \/ DieCreating(p) \/ Connect(p)
  BY <1>5, RestartMoves, EnsureRegistryMoves, ClearOrphanMoves, CreateMoves, DieCreatingMoves, ConnectMoves
     DEF InFlight, Over
<1>6. CASE \/ AwaitContext(p) \/ SetContext(p) \/ AwaitHealth(p) \/ TimeOut(p) \/ Unreachable(p) \/ Finish(p) \/ Fail(p)
           \/ DeleteSpec(p) \/ CreateSpec(p) \/ CreateHosting(p)
  BY <1>6, AwaitContextMoves, SetContextMoves, AwaitHealthMoves, GivingUpMoves, DeleteSpecMoves, CreateSpecMoves,
     CreateHostingMoves DEF InFlight, Over
<1> QED
  BY <1>1, <1>2, <1>3, <1>4, <1>5, <1>6 DEF Step, Fault

\* A process that does not move is a call for the cluster that it was one for before.
LEMMA CallStays ==
  ASSUME NEW n, NEW p \in Procs, UNCHANGED req, at'[p] = at[p]
  PROVE  p \in CallsFor(n)' <=> p \in CallsFor(n)
BY SameRequest DEF CallsFor

LEMMA StepCalls ==
  ASSUME TypeOK, NEW p \in Procs, Step(p) \/ Fault(p), NEW n
  PROVE  /\ \A q \in Procs \ {p} : q \in CallsFor(n)' <=> q \in CallsFor(n)
         /\ p \in CallsFor(n)' <=> Target(p) = n
         /\ n # Target(p) => CallsFor(n)' = CallsFor(n)
<1>1. Moves(p)
  BY StepMoves
<1>2. \A q \in Procs \ {p} : q \in CallsFor(n)' <=> q \in CallsFor(n)
  BY <1>1, CallStays DEF Moves
<1>3. at'[p] # "idle"
  BY StepPlaces, Places
<1>4. p \in CallsFor(n)' <=> Target(p) = n
  BY <1>1, <1>3, SameRequest DEF CallsFor, Moves
<1>5. n # Target(p) => p \notin CallsFor(n)
  BY DEF CallsFor
<1>6. CallsFor(n) \subseteq Procs /\ CallsFor(n)' \subseteq Procs
  BY DEF CallsFor
<1> QED
  BY <1>2, <1>4, <1>5, <1>6

LEMMA OutsideCalls ==
  ASSUME UNCHANGED <<req, at>>, NEW n
  PROVE  CallsFor(n)' = CallsFor(n)
<1>1. \A p \in Procs : p \in CallsFor(n)' <=> p \in CallsFor(n)
  BY CallStays
<1> QED
  BY <1>1 DEF CallsFor

\* Calls that are joint have been so all along.
LEMMA JointBefore ==
  ASSUME TypeOK, [Next]_vars, NEW n, Joint(n)'
  PROVE  Joint(n)
<1>1. CASE \E p \in Procs : Step(p) \/ Fault(p)
  <2> PICK p \in Procs : Step(p) \/ Fault(p)
    BY <1>1
  <2>1. Moves(p) /\ UNCHANGED req
    BY StepMoves DEF Moves
  <2>2. CallsFor(n) \subseteq CallsFor(n)'
    BY StepCalls DEF CallsFor
  <2>3. n \notin disturbed
    BY StepDisturbs DEF Joint
  <2>4. ASSUME NEW q \in CallsFor(n)
        PROVE  /\ Applies(q) /\ at[q] \in InFlight \cup {"done"}
               /\ \A r \in CallsFor(n) : Wanted(r) = Wanted(q)
    <3>1. q \in Procs /\ at[q] # "idle" /\ q \in CallsFor(n)'
      BY <2>2 DEF CallsFor
    <3>2. Applies(q)' /\ at'[q] \in InFlight \cup {"done"} /\ \A r \in CallsFor(n)' : Wanted(r)' = Wanted(q)'
      BY <3>1 DEF Joint
    <3>3. Applies(q) /\ \A r \in Procs : Wanted(r)' = Wanted(r)
      BY <2>1, <3>1, <3>2, SameRequest
    <3>4. at[q] \in InFlight \cup {"done"}
      BY <2>1, <3>1, <3>2, StepPlaces DEF Moves
    <3> QED
      BY <2>2, <3>1, <3>2, <3>3, <3>4 DEF CallsFor
  <2> QED
    BY <2>3, <2>4 DEF Joint
<1>2. CASE UNCHANGED <<req, at>> /\ disturbed \subseteq disturbed'
  <2>1. CallsFor(n)' = CallsFor(n)
    BY <1>2, OutsideCalls
  <2>2. n \notin disturbed
    BY <1>2 DEF Joint
  <2>3. ASSUME NEW q \in CallsFor(n)
        PROVE  /\ Applies(q) /\ at[q] \in InFlight \cup {"done"}
               /\ \A r \in CallsFor(n) : Wanted(r) = Wanted(q)
    <3>1. Applies(q)' /\ at'[q] \in InFlight \cup {"done"} /\ \A r \in CallsFor(n)' : Wanted(r)' = Wanted(q)'
      BY <2>1 DEF Joint
    <3>2. (Applies(q)' <=> Applies(q)) /\ \A r : Wanted(r)' = Wanted(r)
      BY <1>2, SameRequest
    <3> QED
      BY <1>2, <2>1, <3>1, <3>2
  <2> QED
    BY <2>2, <2>3 DEF Joint
<1>3. CASE \E m \in Names : Boot(m) \/ WriteContext(m) \/ Flip(m)
  <2>1. UNCHANGED <<req, at>> /\ disturbed \subseteq disturbed'
    BY <1>3, OutsideMoves
  <2> QED
    BY <1>2, <2>1
<1>4. CASE UNCHANGED vars
  BY <1>2, <1>4 DEF vars
<1> QED
  BY <1>1, <1>3, <1>4, NextSteps

\* The last to be about to create the cluster creates it, or fails.
LEMMA PendingCreates ==
  ASSUME TypeOK, NEW p \in Procs, Fits(p), Step(p), Applies(p), at'[p] \in InFlight \cup {"done"}, Pending(p), ~Pending(p)'
  PROVE  Create(p) /\ at'[p] # "failed"
<1>1. at'[p] \notin Over \ {"done"}
  BY Places
<1>2. at[p] \in {"delget", "admindel", "reload", "delctx", "orphan", "create"}
      \/ (at[p] \in {"restart", "registry"} /\ NeedsCreate(Wanted(p), mem[p].old))
  BY DEF Pending
<1>3. at'[p] \notin {"delget", "admindel", "reload", "delctx", "orphan", "create"}
      /\ (at'[p] \in {"restart", "registry"} => ~NeedsCreate(Wanted(p), mem[p].old)')
  BY DEF Pending
<1>4. req[p].kind # "delete" /\ UNCHANGED req
  BY StepMoves DEF Applies, Moves
<1>5. NeedsCreate(Wanted(p), mem[p].old)' <=> ~mem'[p].old.created \/ ~mem'[p].old.found \/ Wanted(p).product # mem'[p].old.product
  BY <1>4, SameRequest DEF NeedsCreate
<1>6. ~Lookup(p) /\ ~FindDoomed(p) /\ ~AdminDelete(p)
  BY <1>1, <1>2, <1>3, LookupMoves, FindDoomedMoves, AdminDeleteMoves DEF Over
<1>7. ~Reload(p) /\ ~DeleteContext(p)
  <2>1. ASSUME Reload(p) \/ DeleteContext(p) PROVE at'[p] = "restart" /\ mem'[p].old = NotFound
    BY <1>1, <1>3, <1>4, <2>1, ReloadMoves, DeleteContextMoves DEF Learns, Over
  <2> QED
    BY <2>1, <1>3, <1>5, ListedSays
<1>8. ~Restart(p)
  <2>1. ASSUME Restart(p) PROVE at[p] = "restart" /\ at'[p] = "registry" /\ mem'[p] = mem[p]
    BY <1>1, <2>1, RestartMoves DEF Over
  <2> QED
    BY <2>1, <1>2, <1>3, <1>4, SameVerdict
<1>9. ~EnsureRegistry(p) /\ ~ClearOrphan(p)
  BY <1>1, <1>2, <1>3, EnsureRegistryMoves, ClearOrphanMoves DEF Over
<1>10. ~(Begin(p) \/ CheckNew(p) \/ EnsureMachine(p) \/ Get(p) \/ ReadPart(p) \/ GiveUpReading(p) \/ Populated(p) \/ Decide(p))
  BY ZenonT(40), <1>2, BeginMoves, CheckNewMoves, EnsureMachineMoves, GetMoves, ReadPartMoves, StopReadingMoves, PopulatedMoves,
     DecideMoves
<1>11. ~(Connect(p) \/ AwaitContext(p) \/ SetContext(p) \/ AwaitHealth(p) \/ Unreachable(p) \/ Finish(p))
  BY <1>2, ConnectMoves, AwaitContextMoves, SetContextMoves, AwaitHealthMoves, GivingUpMoves
<1>12. ~TimeOut(p)
  BY <1>1, GivingUpMoves DEF Over
<1>13. ~(DeleteSpec(p) \/ CreateSpec(p) \/ CreateHosting(p))
  BY <1>2, DeleteSpecMoves, CreateSpecMoves, CreateHostingMoves
<1> QED
  BY <1>1, <1>6, <1>7, <1>8, <1>9, <1>10, <1>11, <1>12, <1>13 DEF Step, Over

\* The cluster is then its own.
LEMMA CreateOwns ==
  ASSUME TypeOK, NEW p \in Procs, Fits(p), Applies(p), Create(p), at'[p] # "failed", NEW n, Target(p) = n
  PROVE  Owned(n)' /\ cluster'[n].by = p
<1> DEFINE r == Wanted(p)
<1>1. /\ at[p] = "create" /\ UNCHANGED <<reg, joined, cpus, req>> /\ CanCreate(p) /\ mem'[p] = mem[p] /\ Moves(p)
      /\ at'[p] = IF r.registry /\ r.product = "kind" THEN "connect" ELSE "waitctx"
      /\ IF ProductOf[n] = "docker-desktop"
           THEN UNCHANGED <<context, current>>
           ELSE context'[n] = [product |-> r.product, by |-> p] /\ current' = n
  BY CreateMoves DEF Moves
<1>2. PICK version \in Installs(r), state \in {"booting", "up"} : cluster'[n] = Fresh(p, version, state)
  BY <1>1, CreateMoves
<1>3. version \in AllVersions
  BY InstallsType
<1>4. /\ cluster'[n].state \in {"booting", "up"} /\ cluster'[n].by = p /\ cluster'[n].version = version
      /\ ProductOf[n] = "k3d" => cluster'[n].hosting = mem[p].port /\ cluster'[n].wired = mem[p].port
  BY <1>2, <1>3, FreshType
<1>5. /\ Valid(r) /\ r.product = ProductOf[n] /\ NeedsCreate(r, mem[p].old)
      /\ r.registry => reg # 0 /\ mem[p].port = reg
  <2>1. Makes(p) /\ at[p] \in AfterRegistry /\ at[p] \in InFlight \ {"check", "machine"} /\ at[p] # "orphan"
    BY <1>1 DEF Makes, MakePlaces, AfterRegistry, InFlight
  <2> QED
    BY <2>1 DEF Fits
<1>6. r.version # NoVersion => version.minor = r.version.minor
  BY <1>2, InstallsMinor
<1>7. Target(p)' = n /\ Wanted(p)' = r /\ (Valid(r) <=> Valid(Wanted(p))')
  BY <1>1, SameRequest
<1>8. p \in CallsFor(n)'
  BY StepCalls DEF Step
<1>9. at'[p] \in {"connect", "waitctx"} /\ Makes(p)'
  BY <1>1 DEF Makes, MakePlaces
<1>10. context'[n] = [product |-> ProductOf[n], by |-> p] \/ ProductOf[n] = "docker-desktop"
  BY <1>1, <1>5
<1>11. r.registry /\ r.product = "kind" => at'[p] = "connect"
  BY <1>1
<1>12. r.registry /\ r.product = "k3d" => cluster'[n].hosting = reg /\ cluster'[n].wired = reg
  BY <1>4, <1>5
<1>13. (NoVersion = NoVersion')
  BY DEF NoVersion
<1> QED
  BY <1>1, <1>4, <1>5, <1>6, <1>7, <1>8, <1>9, <1>10, <1>11, <1>12, <1>13 DEF Owned, Holding, Saving

-------------------------------------------------------------------------------
(***************************************************************************)
(* What goes on elsewhere.                                                 *)
(***************************************************************************)

LEMMA SameHolds ==
  ASSUME NEW n, NEW p, UNCHANGED req, cluster'[n] = cluster[n], context'[n] = context[n], reg # 0 => reg' = reg,
         HoldsNow(n, Wanted(p))
  PROVE  HoldsNow(n, Wanted(p))'
<1>1. Wanted(p)' = Wanted(p)
  BY SameRequest
<1> QED
  BY <1>1 DEF HoldsNow, Holds, Fulfils, NoVersion, NoConfig

LEMMA SameReading ==
  ASSUME NEW p, UNCHANGED req, cluster'[Target(p)] = cluster[Target(p)], context'[Target(p)] = context[Target(p)],
         reg # 0 => reg' = reg, mem'[p].old = mem[p].old, mem'[p].todo = mem[p].todo, ReadTruly(p)
  PROVE  ReadTruly(p)'
<1>1. Target(p)' = Target(p)
  BY SameRequest
<1> QED
  BY <1>1 DEF ReadTruly, Answers, HasContext, HostsRegistry, ConfigOf, NoConfig, Missing, Parts

LEMMA SameReaches ==
  ASSUME NEW p, UNCHANGED req, context'[Target(p)] = context[Target(p)], mem'[p].config = mem[p].config, Reaches(p)
  PROVE  Reaches(p)'
<1>1. Target(p)' = Target(p) /\ (NoContext = NoContext')
  BY SameRequest, Zenon DEF NoContext
<1>2. Entry(p)' = Entry(p)
  BY <1>1 DEF Entry
<1> QED
  BY <1>1, <1>2 DEF Reaches

\* A process that has found that the cluster will do is not disturbed.
LEMMA KeepingStays ==
  ASSUME NEW p, UNCHANGED req, at'[p] = at[p], mem'[p] = mem[p],
         cluster'[Target(p)] = cluster[Target(p)], context'[Target(p)] = context[Target(p)], reg # 0 => reg' = reg,
         Keeping(p)
  PROVE  Keeping(p)'
<1>1. Target(p)' = Target(p) /\ Wanted(p)' = Wanted(p) /\ (Valid(Wanted(p))' <=> Valid(Wanted(p)))
  BY SameRequest
<1>2. NeedsCreate(Wanted(p), mem[p].old)' <=> NeedsCreate(Wanted(p), mem[p].old)
  BY SameVerdict
<1>3. (Reaches(p) => Reaches(p)') /\ (ReadTruly(p) => ReadTruly(p)')
  BY SameReaches, SameReading
<1>4. HoldsNow(Target(p), Wanted(p)) => HoldsNow(Target(p), Wanted(p))'
  BY <1>1, SameHolds
<1> QED
  BY <1>1, <1>2, <1>3, <1>4 DEF Keeping, KeepPlaces

LEMMA InheritedElsewhere ==
  ASSUME NEW n, UNCHANGED req, CallsFor(n)' = CallsFor(n), \A p \in CallsFor(n) : at'[p] = at[p] /\ mem'[p] = mem[p],
         cluster'[n] = cluster[n], context'[n] = context[n], reg # 0 => reg' = reg, Inherited(n)
  PROVE  Inherited(n)'
<1>1. \A p \in CallsFor(n) : Keeping(p)'
  BY KeepingStays DEF Inherited, CallsFor
<1>2. (Sound(cluster[n])' <=> Sound(cluster[n])) /\ (NoContext = NoContext')
  BY DEF Sound, NoContext
<1> QED
  BY <1>1, <1>2 DEF Inherited

LEMMA OwnedElsewhere ==
  ASSUME NEW n, UNCHANGED req, CallsFor(n)' = CallsFor(n), \A p \in CallsFor(n) : at'[p] = at[p] /\ mem'[p] = mem[p],
         cluster'[n] = cluster[n], context'[n] = context[n], reg # 0 => reg' = reg, Owned(n)
  PROVE  Owned(n)'
<1> PICK q \in Procs : Holding(n, q) /\ Saving(n, q)
  BY DEF Owned
<1>1. q \in CallsFor(n) /\ cluster'[n].by = q /\ at'[q] = at[q] /\ mem'[q] = mem[q]
  BY DEF Holding
<1>2. Target(q)' = Target(q) /\ Wanted(q)' = Wanted(q) /\ (Valid(Wanted(q))' <=> Valid(Wanted(q)))
  BY SameRequest
<1>3. NeedsCreate(Wanted(q), mem[q].old)' <=> NeedsCreate(Wanted(q), mem[q].old)
  BY <1>1, SameVerdict
<1>4. Makes(q)' <=> Makes(q)
  BY <1>1, <1>3 DEF Makes, MakePlaces
<1>5. Entry(q)' = Entry(q)
  BY <1>1, <1>2 DEF Entry
<1>6. (NoVersion = NoVersion')
  BY DEF NoVersion
<1>7. (\E p \in CallsFor(n) : at[p] = "newspec") => (\E p \in CallsFor(n)' : at'[p] = "newspec")
  OBVIOUS
<1> QED
  BY <1>1, <1>2, <1>4, <1>5, <1>6, <1>7 DEF Owned, Holding, Saving

-------------------------------------------------------------------------------
(***************************************************************************)
(* The cluster that was there before.                                      *)
(***************************************************************************)

\* Nobody writes to the cluster while it is not to be replaced.
Untouched(n) == cluster'[n] = cluster[n] /\ context'[n] = context[n]

\* A spec that can be reconciled holds of a cluster that was read truly.
LEMMA TruthHolds ==
  ASSUME TypeOK, NEW p \in Procs, Fits(p), at[p] = "decide", ReadTruly(p), mem[p].todo = {}, Sound(cluster[Target(p)]),
         ~Irreconcilable(Wanted(p), mem[p].old), ~NeedsCreate(Wanted(p), mem[p].old)
  PROVE  HoldsNow(Target(p), Wanted(p))
<1> DEFINE n == Target(p)  c == cluster[n]  r == Wanted(p)  old == mem[p].old
<1>1. old.found /\ r.product = old.product /\ old.product = ProductOf[n]
  BY DEF Fits, NeedsCreate
<1>2. c.state = "up" /\ context[n] = [product |-> r.product, by |-> c.by]
  BY <1>1 DEF ReadTruly, Answers, HasContext
<1>3. r.version # NoVersion => c.version.minor = r.version.minor
  BY <1>1 DEF Irreconcilable, CanReconcileVersion, ReadTruly
<1>4. r.registry => reg # 0 /\ c.hosting = reg /\ c.wired = reg
  BY <1>1 DEF Irreconcilable, RegistryDiffers, ReadTruly, HostsRegistry, Sound
<1>5. r.config # NoConfig => c.saved = r.config
  BY <1>1 DEF Irreconcilable, ConfigDiffers, ReadTruly, ConfigOf, Parts
<1> QED
  BY <1>2, <1>3, <1>4, <1>5 DEF HoldsNow, Holds, Fulfils

LEMMA BeginKeeps ==
  ASSUME TypeOK, NEW p \in Procs, Applies(p), Begin(p)
  PROVE  Keeping(p)' /\ Untouched(Target(p))
<1>1. /\ at'[p] \in {"check", "machine"} /\ mem'[p].config = context /\ UNCHANGED <<cluster, context, req>>
  BY BeginMoves DEF Thinks, Moves, world, Applies
<1>2. Reaches(p)'
  BY <1>1, SameRequest DEF Reaches, Entry
<1> QED
  BY <1>1, <1>2 DEF Keeping, KeepPlaces, Untouched

LEMMA LookKeeps ==
  ASSUME TypeOK, NEW p \in Procs, at'[p] # "failed", CheckNew(p) \/ EnsureMachine(p), Keeping(p)
  PROVE  Keeping(p)' /\ Untouched(Target(p))
<1>1. UNCHANGED <<cluster, context, reg, req>>
  BY CheckNewMoves, EnsureMachineMoves DEF Thinks, Moves, world
<1>2. CASE CheckNew(p)
  <2>1. at[p] = "check" /\ at'[p] = "machine" /\ mem'[p] = mem[p]
    BY <1>2, CheckNewMoves
  <2>2. Reaches(p)'
    BY <1>1, <2>1, SameReaches DEF Keeping
  <2> QED
    BY <1>1, <2>1, <2>2 DEF Keeping, KeepPlaces, Untouched
<1>3. CASE EnsureMachine(p)
  <2>1. at'[p] = "get" /\ mem'[p].config = context
    BY <1>3, EnsureMachineMoves DEF Learns
  <2>2. Reaches(p)'
    BY <1>1, <2>1, SameRequest DEF Reaches, Entry
  <2> QED
    BY <1>1, <2>1, <2>2 DEF Keeping, KeepPlaces, Untouched
<1> QED
  BY <1>2, <1>3

\* A report that was just begun says nothing of a registry.
LEMMA ListedRegistry == \A product : ~Listed(product).registry
BY DEF Listed, NotFound

LEMMA GetKeeps ==
  ASSUME TypeOK, ContextsFit, NEW p \in Procs, Get(p), Keeping(p)
  PROVE  Keeping(p)' /\ Untouched(Target(p))
<1> DEFINE n == Target(p)
<1>1. UNCHANGED <<cluster, context, reg, req>> /\ at[p] = "get" /\ at[p] \in InFlight
  BY GetMoves DEF Thinks, Moves, world, InFlight
<1>2. Untouched(n)
  BY <1>1 DEF Untouched
<1>3. CASE at'[p] = "decide" /\ ~mem'[p].old.created
  BY <1>2, <1>3 DEF Keeping, KeepPlaces
<1>4. CASE /\ Reachable(p) /\ at'[p] = "populate"
           /\ Learns(p, mem'[p], mem[p].config,
                     [Listed(Entry(p).product) EXCEPT !.version = cluster[n].version], Parts)
  <2>1. Entry(p) = context[n] /\ Entry(p) # NoContext
    BY <1>1, <1>4 DEF Keeping, Reaches, Reachable
  <2>2. Answers(n) /\ Target(p)' = n /\ Entry(p)' = Entry(p)
    <3>1. Entry(p).product = ProductOf[n] /\ Entry(p) = [product |-> Entry(p).product, by |-> Entry(p).by]
      BY <1>1, <2>1, EntryFits
    <3>2. Target(p)' = n /\ Entry(p)' = Entry(p)
      BY <1>1, <1>4, SameRequest DEF Learns, Entry
    <3> QED
      BY <1>4, <2>1, <3>1, <3>2 DEF Answers, HasContext, Reachable
  <2>3. mem'[p].old.found /\ mem'[p].old.version = cluster[n].version /\ ~mem'[p].old.registry
    <3> DEFINE new == [Listed(Entry(p).product) EXCEPT !.version = cluster[n].version]
    <3>1. Listed(Entry(p).product) \in Reports
      BY MemoryType, ListedType, ClusterType, RequestType DEF Entries
    <3>2. new.found = Listed(Entry(p).product).found /\ new.version = cluster[n].version
          /\ new.registry = Listed(Entry(p).product).registry
      BY <3>1 DEF Reports
    <3>3. mem'[p].old = new
      BY <1>4 DEF Learns
    <3> HIDE DEF new
    <3> QED
      BY <3>2, <3>3, ListedSays, ListedRegistry
  <2>4. mem'[p].todo = Parts
    BY <1>4 DEF Learns
  <2>5. Answers(n)'
    BY <1>1, <2>2 DEF Answers, HasContext
  <2>6. ReadTruly(p)'
    BY <1>1, <2>2, <2>3, <2>4, <2>5 DEF ReadTruly, Parts
  <2>7. Reaches(p)'
    BY <1>1, <2>1, <2>2 DEF Reaches
  <2> QED
    BY <1>2, <1>4, <2>6, <2>7 DEF Keeping, KeepPlaces
<1>5. \/ at'[p] = "decide" /\ ~mem'[p].old.created
      \/ /\ Reachable(p) /\ at'[p] = "populate"
         /\ Learns(p, mem'[p], mem[p].config,
                   [Listed(Entry(p).product) EXCEPT !.version = cluster[n].version], Parts)
  <2>1. \/ /\ at'[p] = "decide"
           /\ mem'[p].old \in {NotFound, Listed(Entry(p).product)}
        \/ /\ Reachable(p) /\ at'[p] = "populate"
           /\ Learns(p, mem'[p], mem[p].config,
                     [Listed(Entry(p).product) EXCEPT !.version = cluster[n].version], Parts)
    BY GetMoves DEF Learns
  <2> QED
    BY <2>1, ListedSays
<1> QED
  BY <1>3, <1>4, <1>5

LEMMA ReadPartKeeps ==
  ASSUME TypeOK, NEW p \in Procs, ReadPart(p), Keeping(p)
  PROVE  Keeping(p)' /\ Untouched(Target(p))
<1> DEFINE n == Target(p)
<1>1. UNCHANGED <<cluster, context, reg, req>> /\ at[p] = "populate" /\ at'[p] = "populate"
  BY ReadPartMoves DEF Thinks, Moves, world
<1>2. PICK part \in mem[p].todo :
        Learns(p, mem'[p], mem[p].config, Learn(mem[p].old, part, cluster[n]), mem[p].todo \ {part})
  BY ReadPartMoves
<1>3. part \in Parts /\ mem[p].old \in Reports /\ mem[p].todo \subseteq Parts
  BY MemoryType
<1>4. /\ mem'[p].old.found = mem[p].old.found /\ mem'[p].old.version = mem[p].old.version
      /\ mem'[p].old.registry = (IF part = "hosting" THEN HostsRegistry(cluster[n]) ELSE mem[p].old.registry)
      /\ mem'[p].old.config = IF part = "spec" THEN ConfigOf(cluster[n]) ELSE mem[p].old.config
      /\ mem'[p].todo = mem[p].todo \ {part} /\ mem'[p].config = mem[p].config
  <2>1. mem'[p].old = Learn(mem[p].old, part, cluster[n]) /\ mem'[p].todo = mem[p].todo \ {part}
        /\ mem'[p].config = mem[p].config
    BY <1>2 DEF Learns
  <2> QED
    BY <1>3, <2>1, LearnSays
<1>5. Target(p)' = n /\ (Answers(n)' <=> Answers(n)) /\ (HostsRegistry(cluster[n])' <=> HostsRegistry(cluster[n]))
      /\ ConfigOf(cluster[n])' = ConfigOf(cluster[n])
  BY <1>1, SameRequest DEF Answers, HasContext, HostsRegistry, ConfigOf, NoConfig, Missing
<1>6. ReadTruly(p)
  BY <1>1 DEF Keeping
<1>7. ReadTruly(p)'
  BY <1>1, <1>3, <1>4, <1>5, <1>6 DEF ReadTruly, Parts
<1>8. Reaches(p)'
  BY <1>1, <1>4, SameReaches DEF Keeping
<1> QED
  BY <1>1, <1>7, <1>8 DEF Keeping, KeepPlaces, Untouched

\* The cluster can be reached, so that the reading is not given up.
LEMMA ReadOnKeeps ==
  ASSUME TypeOK, NEW p \in Procs, Fits(p), GiveUpReading(p) \/ Populated(p), Keeping(p)
  PROVE  Keeping(p)' /\ Untouched(Target(p))
<1>1. at[p] = "populate" /\ ReadTruly(p) /\ Reaches(p)
  BY StopReadingMoves, PopulatedMoves DEF Keeping
<1>2. Reachable(p)
  BY <1>1, AnswersReached DEF ReadTruly, Reaches, Fits
<1>3. Populated(p)
  BY <1>2, StopReadingMoves
<1>4. at'[p] = "decide" /\ mem[p].todo = {} /\ mem'[p] = mem[p] /\ UNCHANGED <<cluster, context, reg, req>>
  BY <1>3, PopulatedMoves DEF Thinks, Moves, world
<1>5. ReadTruly(p)'
  BY <1>1, <1>4, SameReading
<1> QED
  BY <1>4, <1>5 DEF Keeping, KeepPlaces, Untouched

LEMMA DecideKeeps ==
  ASSUME TypeOK, NEW p \in Procs, Fits(p), Decide(p), ~Pending(p)', Sound(cluster[Target(p)]), Keeping(p)
  PROVE  Keeping(p)' /\ Untouched(Target(p))
<1>1. /\ at[p] = "decide" /\ mem'[p] = mem[p] /\ UNCHANGED <<cluster, context, reg, req>>
      /\ at'[p] = IF Irreconcilable(Wanted(p), mem[p].old) THEN "delget" ELSE "restart"
  BY DecideMoves DEF Thinks, Moves, world
<1>2. NeedsCreate(Wanted(p), mem[p].old)' <=> NeedsCreate(Wanted(p), mem[p].old)
  BY <1>1, SameVerdict
<1>3. at'[p] = "restart" /\ ~Irreconcilable(Wanted(p), mem[p].old) /\ ~NeedsCreate(Wanted(p), mem[p].old)
  BY <1>1, <1>2 DEF Pending
<1>4. mem[p].old.created
  BY <1>3 DEF NeedsCreate
<1>5. HoldsNow(Target(p), Wanted(p))
  BY <1>1, <1>3, <1>4, TruthHolds DEF Keeping
<1>6. Valid(Wanted(p))
  BY <1>1, Deciding DEF Fits, InFlight
<1>7. (HoldsNow(Target(p), Wanted(p)) /\ Valid(Wanted(p)))'
  BY <1>1, <1>5, <1>6, SameRequest, SameHolds
<1> QED
  BY <1>1, <1>2, <1>3, <1>7 DEF Keeping, KeepPlaces, Untouched

\* What is kept needs no restart, and the rest of an Apply reads only.
LEMMA GoOnKeeps ==
  ASSUME TypeOK, NEW p \in Procs, Fits(p), Restart(p) \/ EnsureRegistry(p) \/ SetContext(p) \/ Finish(p),
         at'[p] # "failed", Keeping(p), Target(p) \notin disturbed'
  PROVE  Keeping(p)' /\ Untouched(Target(p))
<1> DEFINE n == Target(p)
<1>1. at[p] \in {"restart", "registry", "setctx", "final"}
  BY RestartMoves, EnsureRegistryMoves, SetContextMoves, GivingUpMoves
<1>2. ~NeedsCreate(Wanted(p), mem[p].old) /\ Valid(Wanted(p)) /\ HoldsNow(n, Wanted(p))
  BY <1>1 DEF Keeping
<1>3. Exists(n)
  BY <1>2 DEF Exists, HoldsNow, Holds, Fulfils
<1>4. UNCHANGED <<context, req>> /\ cluster'[n] = cluster[n] /\ (reg # 0 => reg' = reg)
      /\ at'[p] \in {"registry", "setctx", "final", "done"} /\ (at'[p] # "done" => mem'[p].old = mem[p].old)
  <2>1. CASE Restart(p)
    BY <1>3, <2>1, RestartMoves DEF Moves
  <2>2. CASE EnsureRegistry(p)
    BY <1>2, <2>2, EnsureRegistryMoves DEF Moves
  <2>3. CASE SetContext(p)
    BY <1>2, <2>3, SetContextMoves DEF Moves, Learns
  <2>4. CASE Finish(p)
    BY <2>4, GivingUpMoves DEF Thinks, Moves, world
  <2> QED
    BY <2>1, <2>2, <2>3, <2>4
<1>5. (HoldsNow(n, Wanted(p)))' /\ Valid(Wanted(p))'
  BY <1>2, <1>4, SameRequest, SameHolds
<1>6. at'[p] # "done" => ~NeedsCreate(Wanted(p), mem[p].old)'
  BY <1>2, <1>4, SameVerdict
<1>7. Target(p)' = n
  BY <1>4, SameRequest
<1> QED
  BY <1>4, <1>5, <1>6, <1>7 DEF Keeping, KeepPlaces, Untouched

LEMMA StepKeeps ==
  ASSUME TypeOK, ContextsFit, NEW p \in Procs, Fits(p), Applies(p), Step(p), at'[p] \in InFlight \cup {"done"}, ~Pending(p)',
         Sound(cluster[Target(p)]), at[p] # "idle" => Keeping(p), Target(p) \notin disturbed'
  PROVE  Keeping(p)' /\ Untouched(Target(p))
<1>1. CASE at[p] = "idle"
  BY <1>1, StartsIdle, BeginKeeps
<1>2. CASE at[p] # "idle"
  <2>1. Keeping(p) /\ at'[p] # "failed" /\ at[p] \in KeepPlaces
    BY <1>2, Places, StepPlaces DEF Keeping, Over
  <2>2. ~Begin(p) /\ ~Lookup(p) /\ ~FindDoomed(p) /\ ~AdminDelete(p) /\ ~Reload(p) /\ ~DeleteContext(p)
    BY <2>1, BeginMoves, LookupMoves, FindDoomedMoves, AdminDeleteMoves, ReloadMoves, DeleteContextMoves DEF KeepPlaces
  <2>3. ~ClearOrphan(p) /\ ~Create(p) /\ ~Connect(p) /\ ~AwaitContext(p) /\ ~AwaitHealth(p)
    BY <2>1, ClearOrphanMoves, CreateMoves, ConnectMoves, AwaitContextMoves, AwaitHealthMoves DEF KeepPlaces
  <2>4. ~TimeOut(p) /\ ~Unreachable(p)
    BY <2>1, Places, GivingUpMoves DEF Over, KeepPlaces
  <2>5. ~DeleteSpec(p) /\ ~CreateSpec(p) /\ ~CreateHosting(p)
    BY <2>1, DeleteSpecMoves, CreateSpecMoves, CreateHostingMoves DEF KeepPlaces
  <2>6. CASE CheckNew(p) \/ EnsureMachine(p) \/ Get(p) \/ ReadPart(p) \/ GiveUpReading(p) \/ Populated(p) \/ Decide(p)
    BY <2>1, <2>6, LookKeeps, GetKeeps, ReadPartKeeps, ReadOnKeeps, DecideKeeps
  <2>7. CASE Restart(p) \/ EnsureRegistry(p) \/ SetContext(p) \/ Finish(p)
    BY <2>1, <2>7, GoOnKeeps
  <2> QED
    BY <2>2, <2>3, <2>4, <2>5, <2>6, <2>7 DEF Step
<1> QED
  BY <1>1, <1>2

\* A call is joint with those for its cluster.
LEMMA JointCall ==
  ASSUME NEW n, NEW p \in CallsFor(n), Joint(n)
  PROVE  /\ p \in Procs /\ Target(p) = n /\ Applies(p) /\ at[p] \in InFlight \cup {"done"}
         /\ \A q \in CallsFor(n) : Wanted(q) = Wanted(p)
BY DEF Joint, CallsFor

LEMMA StepInherits ==
  ASSUME TypeOK, ContextsFit, NEW p \in Procs, Fits(p), Step(p), NEW n, Target(p) = n, Joint(n)', Settled(n)',
         Inherited(n)
  PROVE  Inherited(n)' /\ cluster'[n] = cluster[n]
<1>1. Moves(p) /\ UNCHANGED req /\ p \in CallsFor(n)'
  BY StepMoves, StepCalls DEF Moves
<1>2. Applies(p)' /\ at'[p] \in InFlight \cup {"done"} /\ ~Pending(p)' /\ n \notin disturbed'
  BY <1>1 DEF Joint, Settled
<1>3. Applies(p) /\ (at[p] # "idle" => Keeping(p)) /\ Sound(cluster[n])
  BY <1>1, <1>2, SameRequest DEF Inherited, CallsFor
<1>4. Keeping(p)' /\ Untouched(n)
  BY <1>2, <1>3, StepKeeps
<1>5. ASSUME NEW q \in CallsFor(n)', q # p PROVE Keeping(q)'
  <2>1. q \in Procs /\ q \in CallsFor(n) /\ Target(q) = n /\ Keeping(q)
    BY <1>5, StepCalls DEF CallsFor, Inherited
  <2>2. at'[q] = at[q] /\ mem'[q] = mem[q] /\ (reg # 0 => reg' = reg)
    BY <1>1, <1>5, <2>1 DEF Moves
  <2> QED
    BY <1>1, <1>4, <2>1, <2>2, KeepingStays DEF Untouched
<1>6. (Sound(cluster[n])' <=> Sound(cluster[n])) /\ (NoContext = NoContext')
  BY <1>4 DEF Sound, NoContext, Untouched
<1> QED
  BY <1>4, <1>5, <1>6 DEF Inherited, Untouched

\* Nobody has found a cluster that is still booting.
LEMMA BootInherits ==
  ASSUME TypeOK, NEW n \in Names, Boot(n), Inherited(n)
  PROVE  Inherited(n)' /\ cluster'[n].by = cluster[n].by
<1>1. /\ cluster[n].state = "booting" /\ UNCHANGED <<context, current, reg, joined, cpus, req, at, mem>>
      /\ cluster'[n] = [cluster[n] EXCEPT !.state = "up"]
  BY OutsideMoves
<1>2. /\ cluster'[n].by = cluster[n].by /\ cluster'[n].hosting = cluster[n].hosting
      /\ cluster'[n].wired = cluster[n].wired
  BY <1>1, ClusterType DEF Clusters
<1>3. ~Answers(n) /\ \A spec : ~HoldsNow(n, spec)
  BY <1>1 DEF Answers, HasContext, HoldsNow, Holds, Fulfils
<1>4. CallsFor(n)' = CallsFor(n)
  BY <1>1, OutsideCalls
<1>5. ASSUME NEW p \in CallsFor(n) PROVE Keeping(p)'
  <2>1. Target(p) = n /\ Keeping(p)
    BY DEF CallsFor, Inherited
  <2>2. /\ at[p] \in {"check", "machine", "get", "decide"}
        /\ at[p] \in {"check", "machine", "get"} => Reaches(p)
        /\ at[p] = "decide" => ~mem[p].old.created
    BY <1>3, <2>1 DEF Keeping, KeepPlaces, ReadTruly
  <2>3. Reaches(p) => Reaches(p)'
    BY <1>1, SameReaches
  <2> QED
    BY <1>1, <2>2, <2>3 DEF Keeping, KeepPlaces
<1>6. (Sound(cluster[n])' <=> Sound(cluster[n])) /\ (NoContext = NoContext')
  BY <1>2 DEF Sound, NoContext
<1> QED
  BY <1>1, <1>2, <1>4, <1>5, <1>6 DEF Inherited

\* Nobody has found a cluster whose context is still to be written.
LEMMA WriteContextInherits ==
  ASSUME TypeOK, ContextsFit, NEW n \in Names, WriteContext(n), Inherited(n), cluster[n].by = Daemon
  PROVE  Inherited(n)'
<1>1. /\ UNCHANGED <<cluster, current, reg, joined, cpus, req, at, mem>>
      /\ ProductOf[n] = "docker-desktop"
      /\ context'[n] = [product |-> "docker-desktop", by |-> Daemon]
  BY OutsideMoves
<1>2. context[n] = NoContext /\ context[n] # [product |-> ProductOf[n], by |-> Daemon]
  BY <1>1 DEF Inherited, WriteContext
<1>3. ~Answers(n)
  BY <1>2 DEF Answers, HasContext
<1>4. \A spec : Valid(spec) => ~HoldsNow(n, spec)
  <2>1. ASSUME NEW spec, Valid(spec), HoldsNow(n, spec) PROVE FALSE
    <3>1. context[n] = [product |-> spec.product, by |-> cluster[n].by]
      BY <2>1 DEF HoldsNow, Holds, Fulfils
    <3>2. context[n].product = spec.product
      BY <3>1
    <3> QED
      BY <1>2, <2>1, <3>2, ValidNames
  <2> QED
    BY <2>1
<1>5. CallsFor(n)' = CallsFor(n)
  BY <1>1, OutsideCalls
<1>6. NoContext = NoContext'
  BY DEF NoContext
<1>7. ASSUME NEW p \in CallsFor(n) PROVE Keeping(p)'
  <2>1. Target(p) = n /\ Keeping(p)
    BY DEF CallsFor, Inherited
  <2>2. /\ at[p] \in {"check", "machine", "get", "decide"}
        /\ at[p] \in {"check", "machine", "get"} => Reaches(p)
        /\ at[p] = "decide" => ~mem[p].old.created
    BY <1>3, <1>4, <2>1 DEF Keeping, KeepPlaces, ReadTruly
  <2>3. Reaches(p) => Reaches(p)'
    <3>1. Entry(p)' = Entry(p)
      BY <1>1, SameRequest DEF Entry
    <3> QED
      BY <1>2, <1>6, <2>1, <3>1 DEF Reaches
  <2> QED
    BY <1>1, <2>2, <2>3 DEF Keeping, KeepPlaces
<1>8. Sound(cluster[n])' <=> Sound(cluster[n])
  BY <1>1 DEF Sound
<1> QED
  BY <1>1, <1>5, <1>7, <1>8 DEF Inherited

-------------------------------------------------------------------------------
(***************************************************************************)
(* The cluster of the last to create it.                                    *)
(***************************************************************************)

\* A cluster as it may be written to by those who have created it before.
Rewritten(n, r) ==
  LET c == cluster[n]  d == cluster'[n] IN
  /\ d.state = c.state /\ d.by = c.by /\ d.version = c.version
  /\ \/ d.wired = c.wired /\ d.hosting = c.hosting
     \/ /\ r.registry /\ r.product = "kind"
        /\ d.wired \in {c.wired, reg} /\ d.hosting \in {c.hosting, reg}

LEMMA BootOwned ==
  ASSUME TypeOK, NEW n \in Names, Boot(n), Owned(n)
  PROVE  Owned(n)' /\ cluster'[n].by = cluster[n].by
<1> PICK q \in Procs : Holding(n, q) /\ Saving(n, q)
  BY DEF Owned
<1>1. /\ cluster[n].state = "booting" /\ UNCHANGED <<context, current, reg, joined, cpus, req, at, mem>>
      /\ cluster'[n] = [cluster[n] EXCEPT !.state = "up"]
  BY OutsideMoves
<1>2. /\ cluster'[n].by = cluster[n].by /\ cluster'[n].hosting = cluster[n].hosting /\ cluster'[n].state = "up"
      /\ cluster'[n].wired = cluster[n].wired /\ cluster'[n].saved = cluster[n].saved
      /\ cluster'[n].version = cluster[n].version
  BY <1>1, ClusterType DEF Clusters
<1>3. CallsFor(n)' = CallsFor(n)
  BY <1>1, OutsideCalls
<1>4. Target(q)' = Target(q) /\ Wanted(q)' = Wanted(q) /\ (Valid(Wanted(q))' <=> Valid(Wanted(q)))
      /\ (NeedsCreate(Wanted(q), mem[q].old)' <=> NeedsCreate(Wanted(q), mem[q].old))
  BY <1>1, SameRequest, SameVerdict
<1>5. (Makes(q)' <=> Makes(q)) /\ Entry(q)' = Entry(q) /\ (NoVersion = NoVersion')
  BY <1>1, <1>4 DEF Makes, MakePlaces, Entry, NoVersion
<1>6. Holding(n, q)'
  BY <1>1, <1>2, <1>3, <1>4, <1>5 DEF Holding
<1>7. Saving(n, q)'
  BY <1>1, <1>2, <1>3, <1>4 DEF Saving
<1> QED
  BY <1>2, <1>6, <1>7 DEF Owned

\* Docker Desktop writes the context that the cluster is to have.
LEMMA WriteContextOwned ==
  ASSUME TypeOK, NEW n \in Names, WriteContext(n), Owned(n)
  PROVE  Owned(n)' /\ cluster'[n].by = cluster[n].by
<1> PICK q \in Procs : Holding(n, q) /\ Saving(n, q)
  BY DEF Owned
<1>1. /\ UNCHANGED <<cluster, current, reg, joined, cpus, req, at, mem>>
      /\ context'[n] = [product |-> ProductOf[n], by |-> q]
  BY OutsideMoves DEF Holding
<1>2. CallsFor(n)' = CallsFor(n)
  BY <1>1, OutsideCalls
<1>3. Target(q)' = Target(q) /\ Wanted(q)' = Wanted(q) /\ (Valid(Wanted(q))' <=> Valid(Wanted(q)))
      /\ (NeedsCreate(Wanted(q), mem[q].old)' <=> NeedsCreate(Wanted(q), mem[q].old))
  BY <1>1, SameRequest, SameVerdict
<1>4. (Makes(q)' <=> Makes(q)) /\ Entry(q)' = Entry(q) /\ (NoVersion = NoVersion')
  BY <1>1, <1>3 DEF Makes, MakePlaces, Entry, NoVersion
<1>5. Holding(n, q)'
  BY <1>1, <1>2, <1>3, <1>4 DEF Holding
<1>6. Saving(n, q)'
  BY <1>1, <1>2, <1>3 DEF Saving
<1> QED
  BY <1>1, <1>5, <1>6 DEF Owned

\* What the writing to one field leaves alone.
LEMMA Rewires ==
  ASSUME NEW c \in Clusters, NEW x
  PROVE  LET d == [c EXCEPT !.wired = x] IN
         /\ d.state = c.state /\ d.by = c.by /\ d.version = c.version /\ d.hosting = c.hosting /\ d.saved = c.saved
         /\ d.wired = x
BY DEF Clusters

\* What a process that is not to replace the cluster may do to it.
LEMMA StepRewrites ==
  ASSUME TypeOK, NEW p \in Procs, Fits(p), Applies(p), Step(p), at'[p] # "failed", at[p] # "idle", ~Pending(p),
         NEW n, Target(p) = n, Exists(n), n \notin disturbed'
  PROVE  /\ context'[n] = context[n] /\ (reg # 0 => reg' = reg)
         /\ Rewritten(n, Wanted(p))
         /\ \/ at[p] = "delspec" /\ at'[p] = "newspec"
            \/ at[p] = "newspec" /\ cluster'[n].saved = Wanted(p).config
            \/ at[p] # "newspec" /\ cluster'[n].saved = cluster[n].saved
<1> DEFINE c == cluster[n]  d == cluster'[n]  r == Wanted(p)
<1>1. n \in Names /\ c \in Clusters /\ Moves(p)
  BY RequestType, ClusterType, StepMoves
<1>2. reg # 0 => reg' = reg
  BY <1>1 DEF Moves
<1>3. CASE context'[n] = context[n] /\ d = c /\ at[p] # "newspec"
  BY <1>2, <1>3 DEF Rewritten
<1>4. CASE Begin(p) \/ Lookup(p) \/ FindDoomed(p) \/ AdminDelete(p) \/ Reload(p) \/ DeleteContext(p) \/ ClearOrphan(p)
           \/ Create(p)
  <2>1. at[p] \notin {"idle", "delget", "admindel", "reload", "delctx", "orphan", "create"}
    BY DEF Pending
  <2>2. at[p] # "lookup"
    BY DEF Fits
  <2> QED
    BY <1>4, <2>1, <2>2, BeginMoves, LookupMoves, FindDoomedMoves, AdminDeleteMoves, ReloadMoves, DeleteContextMoves,
       ClearOrphanMoves, CreateMoves
<1>5. CASE CheckNew(p) \/ EnsureMachine(p) \/ Get(p) \/ ReadPart(p) \/ GiveUpReading(p) \/ Populated(p) \/ Decide(p)
  <2>1. at[p] # "newspec" /\ UNCHANGED <<cluster, context>>
    BY <1>5, CheckNewMoves, EnsureMachineMoves, GetMoves, ReadPartMoves, StopReadingMoves, PopulatedMoves, DecideMoves
       DEF Thinks, world
  <2> QED
    BY <1>3, <2>1
<1>6. CASE Restart(p) \/ EnsureRegistry(p) \/ AwaitContext(p) \/ SetContext(p) \/ AwaitHealth(p) \/ TimeOut(p) \/ Finish(p)
  <2>1. CASE Restart(p) \/ EnsureRegistry(p) \/ SetContext(p)
    <3>1. at[p] # "newspec" /\ UNCHANGED context /\ d = c
      BY <2>1, RestartMoves, EnsureRegistryMoves, SetContextMoves
    <3> QED
      BY <1>3, <3>1
  <2>2. CASE AwaitContext(p) \/ AwaitHealth(p) \/ TimeOut(p) \/ Finish(p)
    <3>1. at[p] # "newspec" /\ UNCHANGED <<cluster, context>>
      BY <2>2, AwaitContextMoves, AwaitHealthMoves, GivingUpMoves DEF TimeOut, Thinks, world
    <3> QED
      BY <1>3, <3>1
  <2> QED
    BY <1>6, <2>1, <2>2
<1>7. CASE Unreachable(p)
  BY <1>7, GivingUpMoves
<1>8. ASSUME at[p] \in {"connect", "hosting"}
      PROVE  r.registry /\ r.product = "kind" /\ mem[p].port = reg
  <2>1. at[p] \in AfterRegistry
    BY <1>8 DEF AfterRegistry, MakePlaces
  <2> QED
    BY <1>8, <2>1 DEF Fits
<1>9. CASE Connect(p)
  <2>1. at[p] = "connect" /\ UNCHANGED context /\ d = [c EXCEPT !.wired = mem[p].port]
    BY <1>9, ConnectMoves
  <2>2. d.state = c.state /\ d.by = c.by /\ d.version = c.version /\ d.hosting = c.hosting /\ d.saved = c.saved
        /\ d.wired = mem[p].port
    BY <1>1, <2>1, Rewires
  <2> QED
    BY <1>2, <1>8, <2>1, <2>2 DEF Rewritten
<1>10. CASE DeleteSpec(p)
  <2>1. at[p] = "delspec" /\ at'[p] = "newspec" /\ UNCHANGED context /\ d = [c EXCEPT !.saved = Missing]
    BY <1>10, DeleteSpecMoves
  <2> QED
    BY <1>1, <1>2, <2>1, ConfigMapWritten DEF Rewritten
<1>11. CASE CreateSpec(p)
  <2>1. at[p] = "newspec" /\ UNCHANGED context /\ d = [c EXCEPT !.saved = r.config]
    BY <1>11, CreateSpecMoves
  <2> QED
    BY <1>1, <1>2, <2>1, ConfigMapWritten DEF Rewritten
<1>12. CASE CreateHosting(p)
  <2>1. at[p] = "hosting" /\ UNCHANGED context /\ d = [c EXCEPT !.hosting = mem[p].port]
    BY <1>12, CreateHostingMoves
  <2>2. d.state = c.state /\ d.by = c.by /\ d.version = c.version /\ d.wired = c.wired /\ d.saved = c.saved
        /\ d.hosting = mem[p].port
    BY <1>1, <2>1, ConfigMapWritten
  <2> QED
    BY <1>2, <1>8, <2>1, <2>2 DEF Rewritten
<1> QED
  BY <1>4, <1>5, <1>6, <1>7, <1>9, <1>10, <1>11, <1>12 DEF Step

\* A process other than q leaves the cluster to q.
LEMMA OtherLeaves ==
  ASSUME TypeOK, NEW q \in Procs, NEW n, Holding(n, q), Saving(n, q), UNCHANGED req, at'[q] = at[q], mem'[q] = mem[q],
         q \in CallsFor(n)', context'[n] = context[n], reg # 0 => reg' = reg, Rewritten(n, Wanted(q))
  PROVE  /\ Holding(n, q)' /\ cluster'[n].by = cluster[n].by
<1>1. Target(q)' = Target(q) /\ Wanted(q)' = Wanted(q) /\ (Valid(Wanted(q))' <=> Valid(Wanted(q)))
      /\ (NeedsCreate(Wanted(q), mem[q].old)' <=> NeedsCreate(Wanted(q), mem[q].old))
  BY SameRequest, SameVerdict
<1>2. (Makes(q)' <=> Makes(q)) /\ Entry(q)' = Entry(q) /\ (NoVersion = NoVersion')
  BY <1>1 DEF Makes, MakePlaces, Entry, NoVersion
<1> DEFINE c == cluster[n]  d == cluster'[n]  r == Wanted(q)
<1>3. /\ d.state = c.state /\ d.by = c.by /\ d.version = c.version
      /\ r.registry /\ r.product = "k3d" => d.wired = c.wired /\ d.hosting = c.hosting
      /\ r.registry /\ r.product = "kind" => d.wired \in {c.wired, reg} /\ d.hosting \in {c.hosting, reg}
  BY DEF Rewritten
<1>4. r.registry => reg # 0 /\ reg' = reg
  BY DEF Holding
<1>5. /\ d.state \in {"booting", "up"} /\ d.by = q
      /\ r.version # NoVersion => d.version.minor = r.version.minor
      /\ r.registry /\ r.product = "k3d" => d.hosting = reg' /\ d.wired = reg'
      /\ r.registry /\ r.product = "kind" /\ at[q] # "connect" => d.wired = reg'
      /\ r.registry /\ r.product = "kind" /\ at[q] \in {"final", "done"} => d.hosting = reg'
      /\ at[q] \in {"delspec", "newspec", "hosting", "final", "done"} => d.state = "up"
  BY <1>3, <1>4 DEF Holding
<1> QED
  BY <1>1, <1>2, <1>4, <1>5 DEF Holding

\* How q itself goes on.
LEMMA OwnGoes ==
  ASSUME TypeOK, NEW q \in Procs, Fits(q), Step(q), at'[q] \in InFlight \cup {"done"}, NEW n, Target(q) = n, Holding(n, q)
  PROVE  /\ at[q] # "idle" /\ ~Pending(q)
         /\ at'[q] # "done" => mem'[q].old = mem[q].old /\ mem'[q].port = mem[q].port
         /\ \/ at[q] = "connect" /\ at'[q] = "waitctx" /\ cluster'[n] = [cluster[n] EXCEPT !.wired = mem[q].port]
            \/ /\ \/ at[q] = "waitctx" /\ at'[q] = "setctx"
                  \/ at[q] = "setctx" /\ at'[q] = "waithealth"
               /\ mem'[q].config = context /\ context[n] # NoContext
            \/ at[q] = "waithealth" /\ at'[q] = "delspec" /\ mem'[q] = mem[q] /\ Reachable(q)
            \/ at[q] = "delspec" /\ at'[q] = "newspec"
            \/ at[q] = "newspec" /\ at'[q] = "hosting"
            \/ at[q] = "newspec" /\ at'[q] = "final" /\ ~(Wanted(q).registry /\ Wanted(q).product = "kind")
            \/ at[q] = "hosting" /\ at'[q] = "final" /\ cluster'[n] = [cluster[n] EXCEPT !.hosting = mem[q].port]
            \/ at[q] = "final" /\ at'[q] = "done"
<1>1. at'[q] \notin Over \ {"done"}
  BY Places
<1>2. at[q] \in {"connect", "waitctx", "setctx", "waithealth", "delspec", "newspec", "hosting", "final"}
  <2>1. at[q] # "done"
    BY Places, StepPlaces DEF Over
  <2> QED
    BY <2>1 DEF Holding, Makes, MakePlaces
<1>3. NeedsCreate(Wanted(q), mem[q].old)
  BY <1>2 DEF Holding, Makes, Fits, MakePlaces
<1>4. at[q] # "idle" /\ ~Pending(q)
  BY <1>2 DEF Pending
<1>5. ~(Begin(q) \/ CheckNew(q) \/ EnsureMachine(q) \/ Get(q) \/ ReadPart(q) \/ GiveUpReading(q) \/ Populated(q) \/ Decide(q))
  BY ZenonT(40), <1>2, BeginMoves, CheckNewMoves, EnsureMachineMoves, GetMoves, ReadPartMoves, StopReadingMoves, PopulatedMoves,
     DecideMoves
<1>6. /\ ~(Lookup(q) \/ FindDoomed(q) \/ AdminDelete(q) \/ Reload(q) \/ DeleteContext(q))
      /\ ~(Restart(q) \/ EnsureRegistry(q) \/ ClearOrphan(q) \/ Create(q))
  <2>1. ~(Lookup(q) \/ FindDoomed(q) \/ AdminDelete(q) \/ Reload(q) \/ DeleteContext(q))
    BY <1>2, LookupMoves, FindDoomedMoves, AdminDeleteMoves, ReloadMoves, DeleteContextMoves
  <2>2. ~(Restart(q) \/ EnsureRegistry(q) \/ ClearOrphan(q) \/ Create(q))
    BY <1>2, RestartMoves, EnsureRegistryMoves, ClearOrphanMoves, CreateMoves
  <2> QED
    BY <2>1, <2>2
<1>7. ~TimeOut(q) /\ ~Unreachable(q)
  BY <1>1, GivingUpMoves DEF Over
<1>8. CASE Connect(q)
  <2>1. at[q] = "connect" /\ at'[q] = "waitctx" /\ mem'[q] = mem[q]
        /\ cluster'[n] = [cluster[n] EXCEPT !.wired = mem[q].port]
    BY <1>1, <1>8, ConnectMoves DEF Over, Holding, Exists
  <2> QED
    BY <1>4, <2>1
<1>9. CASE AwaitContext(q) \/ SetContext(q)
  <2>1. /\ \/ at[q] = "waitctx" /\ at'[q] = "setctx"
           \/ at[q] = "setctx" /\ at'[q] = "waithealth"
        /\ mem'[q].config = context /\ context[n] # NoContext
        /\ mem'[q].old = mem[q].old /\ mem'[q].port = mem[q].port
    BY <1>1, <1>3, <1>9, AwaitContextMoves, SetContextMoves DEF Over, Learns
  <2> QED
    BY <1>4, <2>1
<1>10. CASE AwaitHealth(q)
  BY <1>4, <1>10, AwaitHealthMoves
<1>11. CASE DeleteSpec(q) \/ CreateSpec(q)
  <2>1. /\ mem'[q] = mem[q]
        /\ \/ at[q] = "delspec" /\ at'[q] = "newspec"
           \/ at[q] = "newspec" /\ at'[q] = "hosting"
           \/ at[q] = "newspec" /\ at'[q] = "final" /\ ~(Wanted(q).registry /\ Wanted(q).product = "kind")
    BY <1>1, <1>11, DeleteSpecMoves, CreateSpecMoves DEF Over
  <2> QED
    BY <1>4, <2>1
<1>12. CASE CreateHosting(q)
  <2>1. at[q] = "hosting" /\ at'[q] = "final" /\ mem'[q] = mem[q]
        /\ cluster'[n] = [cluster[n] EXCEPT !.hosting = mem[q].port]
    BY <1>1, <1>12, CreateHostingMoves DEF Over
  <2> QED
    BY <1>4, <2>1
<1>13. CASE Finish(q)
  BY <1>4, <1>13, GivingUpMoves
<1> QED
  BY <1>5, <1>6, <1>7, <1>8, <1>9, <1>10, <1>11, <1>12, <1>13 DEF Step

LEMMA OwnStepOwned ==
  ASSUME TypeOK, ContextsFit, NEW q \in Procs, Fits(q), Applies(q), Step(q), at'[q] \in InFlight \cup {"done"},
         NEW n, Target(q) = n, Holding(n, q), Saving(n, q), n \notin disturbed'
  PROVE  Holding(n, q)' /\ Saving(n, q)' /\ cluster'[n].by = cluster[n].by
<1> DEFINE c == cluster[n]  d == cluster'[n]  r == Wanted(q)
<1>1. /\ n \in Names /\ c \in Clusters /\ Moves(q) /\ UNCHANGED req /\ Exists(n) /\ at'[q] # "failed"
  <2>1. Exists(n)
    BY DEF Holding, Exists
  <2> QED
    BY <2>1, RequestType, ClusterType, StepMoves, Places DEF Moves, Over
<1>2. /\ at[q] # "idle" /\ ~Pending(q)
      /\ at'[q] # "done" => mem'[q].old = mem[q].old /\ mem'[q].port = mem[q].port
  BY OwnGoes
<1>3. /\ context'[n] = context[n] /\ (reg # 0 => reg' = reg) /\ Rewritten(n, r)
      /\ \/ at[q] = "delspec" /\ at'[q] = "newspec"
         \/ at[q] = "newspec" /\ d.saved = r.config
         \/ at[q] # "newspec" /\ d.saved = c.saved
  BY <1>1, <1>2, StepRewrites
<1>4. Target(q)' = n /\ Wanted(q)' = r /\ (Valid(r)' <=> Valid(r)) /\ (NoVersion = NoVersion')
  BY <1>1, SameRequest DEF NoVersion
<1>5. at[q] \in {"connect", "waitctx", "setctx", "waithealth", "delspec", "newspec", "hosting", "final"}
      /\ NeedsCreate(r, mem[q].old)
  BY OwnGoes DEF Holding, Makes, Fits, MakePlaces
<1>6. (Makes(q)' /\ at'[q] \notin {"orphan", "create"}) \/ at'[q] = "done"
  <2>1. at'[q] # "done" => NeedsCreate(Wanted(q), mem[q].old)'
    BY <1>1, <1>2, <1>5, SameVerdict
  <2>2. at'[q] \in {"waitctx", "setctx", "waithealth", "delspec", "newspec", "hosting", "final", "done"}
    BY OwnGoes
  <2> QED
    BY <2>1, <2>2 DEF Makes, MakePlaces
<1>7. r.registry => reg # 0 /\ reg' = reg /\ mem[q].port = reg
  BY <1>3, <1>5 DEF Fits, AfterRegistry, MakePlaces
<1>8. /\ d.state = c.state /\ d.by = c.by /\ d.version = c.version
      /\ r.registry /\ r.product = "k3d" => d.wired = c.wired /\ d.hosting = c.hosting
      /\ r.registry /\ r.product = "kind" => d.wired \in {c.wired, reg} /\ d.hosting \in {c.hosting, reg}
  BY <1>3 DEF Rewritten
<1>9. r.registry /\ r.product = "kind" => d.wired = reg'
  <2>1. CASE at[q] = "connect"
    <3>1. d = [c EXCEPT !.wired = mem[q].port]
      BY <2>1, OwnGoes
    <3> QED
      BY <1>1, <1>7, <3>1, Rewires
  <2>2. CASE at[q] # "connect"
    BY <1>7, <1>8, <2>2 DEF Holding
  <2> QED
    BY <2>1, <2>2
<1>10. r.registry /\ r.product = "kind" /\ at'[q] \in {"final", "done"} => d.hosting = reg'
  <2>1. ASSUME r.registry, r.product = "kind", at'[q] \in {"final", "done"}
        PROVE  (at[q] = "hosting" /\ d = [c EXCEPT !.hosting = mem[q].port]) \/ at[q] = "final"
    BY <2>1, OwnGoes
  <2>2. d = [c EXCEPT !.hosting = mem[q].port] => d.hosting = mem[q].port
    BY <1>1, ConfigMapWritten
  <2> QED
    BY <1>7, <1>8, <2>1, <2>2 DEF Holding
<1>11. \/ ProductOf[n] # "docker-desktop"
       \/ at'[q] \in {"setctx", "waithealth"} /\ Entry(q)'.by = q
       \/ at'[q] \in {"delspec", "newspec", "hosting", "final", "done"}
       => context'[n] = [product |-> ProductOf[n], by |-> q]
  <2>1. CASE ProductOf[n] # "docker-desktop"
    BY <1>3, <2>1 DEF Holding
  <2>2. CASE at'[q] \in {"setctx", "waithealth"} /\ Entry(q)'.by = q
    <3>1. mem'[q].config = context /\ context[n] # NoContext
      BY <2>2, OwnGoes
    <3>2. context[n].by = q
      BY <1>4, <2>2, <3>1 DEF Entry
    <3>3. context[n].product = ProductOf[n] /\ context[n] \in Entries
      BY <1>1, <3>1, ClusterType DEF ContextsFit
    <3> QED
      BY <1>3, <3>2, <3>3 DEF Entries
  <2>3. CASE at'[q] = "delspec"
    BY <1>3, <2>3, OwnGoes DEF Reachable, Holding
  <2>4. CASE at'[q] \in {"newspec", "hosting", "final", "done"}
    BY <1>3, <2>4, OwnGoes DEF Holding
  <2> QED
    BY <2>1, <2>2, <2>3, <2>4
<1>12. at'[q] \in {"delspec", "newspec", "hosting", "final", "done"} => d.state = "up"
  <2>1. CASE at'[q] = "delspec"
    BY <1>8, <2>1, OwnGoes DEF Reachable
  <2>2. CASE at'[q] \in {"newspec", "hosting", "final", "done"}
    <3>1. at[q] \in {"delspec", "newspec", "hosting", "final"}
      BY <2>2, OwnGoes
    <3> QED
      BY <1>8, <3>1 DEF Holding
  <2> QED
    BY <2>1, <2>2
<1>13. q \in CallsFor(n)'
  BY StepCalls
<1>14. Holding(n, q)'
  <2>1. /\ d.state \in {"booting", "up"} /\ d.by = q /\ (r.version # NoVersion => d.version.minor = r.version.minor)
        /\ r.registry /\ r.product = "k3d" => d.hosting = reg' /\ d.wired = reg'
    BY <1>7, <1>8 DEF Holding
  <2> QED
    BY <1>4, <1>6, <1>7, <1>9, <1>10, <1>11, <1>12, <1>13, <2>1 DEF Holding
<1>15. Saving(n, q)'
  <2>1. CASE at'[q] \in {"newspec"}
    BY <1>13, <2>1 DEF Saving
  <2>2. CASE at[q] = "newspec"
    BY <1>3, <1>4, <2>2 DEF Saving
  <2>3. CASE at'[q] \in {"connect", "waitctx", "setctx", "waithealth", "delspec"}
    BY <2>3 DEF Saving
  <2>4. CASE at[q] \in {"hosting", "final"}
    <3>1. d.saved = c.saved /\ at'[q] # "newspec"
      BY <1>3, <2>4, OwnGoes
    <3>2. CASE c.saved = r.config
      BY <1>4, <3>1, <3>2 DEF Saving
    <3>3. CASE \E p \in CallsFor(n) : at[p] = "newspec"
      <4>1. PICK p \in CallsFor(n) : at[p] = "newspec"
        BY <3>3
      <4>2. p \in Procs /\ p # q /\ p \in CallsFor(n)' /\ at'[p] = "newspec"
        BY <1>1, <2>4, <4>1, StepCalls DEF CallsFor, Moves
      <4> QED
        BY <4>2 DEF Saving
    <3> QED
      BY <2>4, <3>2, <3>3 DEF Saving
  <2> QED
    BY <2>1, <2>2, <2>3, <2>4, OwnGoes
<1> QED
  BY <1>8, <1>14, <1>15

\* A step of any of them, none of which is to replace the cluster.
LEMMA StepOwned ==
  ASSUME TypeOK, ContextsFit, NEW p \in Procs, Fits(p), Step(p), NEW n, Target(p) = n,
         Joint(n)', Joint(n), Settled(n), Owned(n)
  PROVE  Owned(n)' /\ cluster'[n].by = cluster[n].by
<1> PICK q \in Procs : Holding(n, q) /\ Saving(n, q)
  BY DEF Owned
<1>1. Moves(p) /\ UNCHANGED req /\ p \in CallsFor(n)'
  BY StepMoves, StepCalls DEF Moves
<1>2. Applies(p) /\ at'[p] \in InFlight \cup {"done"} /\ at'[p] # "failed" /\ n \notin disturbed'
  <2>1. Applies(p)' /\ at'[p] \in InFlight \cup {"done"} /\ n \notin disturbed'
    BY <1>1 DEF Joint
  <2> QED
    BY <1>1, <2>1, SameRequest, Places DEF Over
<1>3. CASE p = q
  <2>1. Holding(n, q)' /\ Saving(n, q)' /\ cluster'[n].by = cluster[n].by
    BY <1>2, <1>3, OwnStepOwned
  <2> QED
    BY <2>1 DEF Owned
<1>4. CASE p # q
  <2>1. q \in CallsFor(n) /\ q \in CallsFor(n)' /\ at'[q] = at[q] /\ mem'[q] = mem[q] /\ Exists(n)
    BY <1>1, <1>4, StepCalls DEF Moves, Holding, Exists
  <2>2. CASE at[p] = "idle"
    <3>1. UNCHANGED <<cluster, context, reg>>
      BY <2>2, StartsIdle, BeginMoves DEF Thinks, world
    <3>2. Rewritten(n, Wanted(q))
      BY <3>1 DEF Rewritten
    <3>3. Holding(n, q)' /\ cluster'[n].by = cluster[n].by
      BY <1>1, <2>1, <3>1, <3>2, OtherLeaves
    <3>4. Wanted(q)' = Wanted(q) /\ \A s \in CallsFor(n) : s # p => s \in CallsFor(n)' /\ at'[s] = at[s]
      BY <1>1, SameRequest, StepCalls DEF Moves, CallsFor
    <3>5. Saving(n, q)'
      BY <2>1, <2>2, <3>1, <3>4 DEF Saving
    <3> QED
      BY <3>3, <3>5 DEF Owned
  <2>3. CASE at[p] # "idle"
    <3>1. p \in CallsFor(n)
      BY <2>3 DEF CallsFor
    <3>2. ~Pending(p) /\ Wanted(p) = Wanted(q)
      BY <2>1, <3>1 DEF Settled, Joint
    <3>3. /\ context'[n] = context[n] /\ (reg # 0 => reg' = reg)
          /\ Rewritten(n, Wanted(q))
          /\ \/ at[p] = "delspec" /\ at'[p] = "newspec"
             \/ at[p] = "newspec" /\ cluster'[n].saved = Wanted(q).config
             \/ at[p] # "newspec" /\ cluster'[n].saved = cluster[n].saved
      BY <1>2, <2>1, <2>3, <3>2, StepRewrites
    <3>4. Holding(n, q)' /\ cluster'[n].by = cluster[n].by
      BY <1>1, <2>1, <3>3, OtherLeaves
    <3>5. Wanted(q)' = Wanted(q) /\ \A s \in CallsFor(n) : s # p => s \in CallsFor(n)' /\ at'[s] = at[s]
      BY <1>1, SameRequest, StepCalls DEF Moves, CallsFor
    <3>6. Saving(n, q)'
      BY <1>1, <2>1, <3>3, <3>5 DEF Saving
    <3> QED
      BY <3>4, <3>6 DEF Owned
  <2> QED
    BY <2>2, <2>3
<1> QED
  BY <1>3, <1>4

-------------------------------------------------------------------------------
(***************************************************************************)
(* Together.                                                               *)
(***************************************************************************)

Whose(n) == IF cluster[n].by = Daemon THEN Inherited(n) ELSE Owned(n)

\* What happens to another cluster.
LEMMA WhoseElsewhere ==
  ASSUME NEW n, UNCHANGED req, CallsFor(n)' = CallsFor(n), \A p \in CallsFor(n) : at'[p] = at[p] /\ mem'[p] = mem[p],
         cluster'[n] = cluster[n], context'[n] = context[n], reg # 0 => reg' = reg, Whose(n)
  PROVE  Whose(n)'
BY InheritedElsewhere, OwnedElsewhere DEF Whose

LEMMA InitJointInv == Init => JointInv
<1> SUFFICES ASSUME Init, NEW n \in Names PROVE IF cluster[n].by = Daemon THEN Inherited(n) ELSE Owned(n)
  BY DEF JointInv
<1>1. PICK w \in Worlds : cluster = w.cluster /\ context = w.context
  BY DEF Init
<1>2. /\ cluster[n].by = Daemon /\ Sound(cluster[n])
      /\ context[n] \in {NoContext, [product |-> ProductOf[n], by |-> Daemon]}
  BY <1>1, ClusterAssumption DEF ClusterAssumption, IsWorld
<1>3. CallsFor(n) = {}
  BY DEF Init, CallsFor
<1> QED
  BY <1>2, <1>3 DEF Inherited

LEMMA StepJointInv == Base /\ JointInv /\ [Next]_vars => JointInv'
<1> SUFFICES ASSUME Base, JointInv, [Next]_vars, NEW n \in Names, Joint(n)', Settled(n)'
             PROVE  Whose(n)'
  BY DEF JointInv, Whose
<1>1. TypeOK /\ ContextsFit /\ (\A p \in Procs : Fits(p)) /\ Joint(n)
  BY JointBefore DEF Base
<1>2. Settled(n) => Whose(n)
  BY <1>1 DEF JointInv, Whose
<1>3. ASSUME NEW p \in Procs, Step(p), Target(p) = n PROVE Whose(n)'
  <2>1. CASE Settled(n)
    <3>1. CASE cluster[n].by = Daemon
      <4>1. Inherited(n)' /\ cluster'[n] = cluster[n]
        BY <1>1, <1>2, <1>3, <2>1, <3>1, StepInherits DEF Whose
      <4> QED
        BY <3>1, <4>1 DEF Whose
    <3>2. CASE cluster[n].by # Daemon
      <4>1. Owned(n)' /\ cluster'[n].by = cluster[n].by
        BY <1>1, <1>2, <1>3, <2>1, <3>2, StepOwned DEF Whose
      <4> QED
        BY <3>2, <4>1 DEF Whose
    <3> QED
      BY <3>1, <3>2
  <2>2. CASE ~Settled(n)
    <3>1. PICK q \in CallsFor(n) : Pending(q)
      BY <2>2 DEF Settled
    <3>2. q \in Procs /\ UNCHANGED req /\ p \in CallsFor(n)' /\ Moves(p)
      BY <1>1, <1>3, StepCalls, StepMoves DEF CallsFor, Moves
    <3>3. q = p
      <4>1. ASSUME q # p PROVE FALSE
        <5>1. q \in CallsFor(n)' /\ at'[q] = at[q] /\ mem'[q] = mem[q]
          BY <1>1, <1>3, <3>1, <3>2, <4>1, StepCalls DEF Moves
        <5>2. NeedsCreate(Wanted(q), mem[q].old)' <=> NeedsCreate(Wanted(q), mem[q].old)
          BY <3>2, <5>1, SameVerdict
        <5>3. Pending(q)'
          BY <3>1, <5>1, <5>2 DEF Pending
        <5> QED
          BY <5>1, <5>3 DEF Settled
      <4> QED
        BY <4>1
    <3>4. ~Pending(p)' /\ Applies(p)' /\ at'[p] \in InFlight \cup {"done"}
      BY <3>2 DEF Settled, Joint
    <3>5. Applies(p)
      BY <3>2, <3>4, SameRequest
    <3>6. Create(p) /\ at'[p] # "failed"
      BY <1>1, <1>3, <3>1, <3>3, <3>4, <3>5, PendingCreates
    <3>7. Owned(n)' /\ cluster'[n].by = p
      BY <1>1, <1>3, <3>5, <3>6, CreateOwns
    <3> QED
      BY <3>7, ClusterAssumption DEF Whose, ClusterAssumption
  <2> QED
    BY <2>1, <2>2
<1>4. ASSUME NEW p \in Procs, Fault(p), Target(p) = n PROVE FALSE
  BY <1>4 DEF Fault, Disturb, Joint
<1>5. ASSUME NEW p \in Procs, Step(p) \/ Fault(p), Target(p) # n PROVE Whose(n)'
  <2>1. Moves(p) /\ CallsFor(n)' = CallsFor(n) /\ p \notin CallsFor(n) /\ CallsFor(n) \subseteq Procs
    BY <1>1, <1>5, StepMoves, StepCalls DEF CallsFor
  <2>2. \A q \in CallsFor(n) : at'[q] = at[q] /\ mem'[q] = mem[q]
    BY <2>1 DEF Moves
  <2>3. cluster'[n] = cluster[n] /\ context'[n] = context[n] /\ (reg # 0 => reg' = reg) /\ UNCHANGED req
    BY <1>5, <2>1 DEF Moves, Spares, Joint
  <2>4. Settled(n)
    <3>1. ASSUME NEW q \in CallsFor(n), Pending(q) PROVE FALSE
      <4>1. NeedsCreate(Wanted(q), mem[q].old)' <=> NeedsCreate(Wanted(q), mem[q].old)
        BY <2>2, <2>3, SameVerdict
      <4>2. Pending(q)'
        BY <2>2, <3>1, <4>1 DEF Pending
      <4> QED
        BY <2>1, <4>2 DEF Settled
    <3> QED
      BY <3>1 DEF Settled
  <2> QED
    BY <1>2, <2>1, <2>2, <2>3, <2>4, WhoseElsewhere
<1>6. ASSUME UNCHANGED <<req, at, mem>> PROVE Settled(n) /\ CallsFor(n)' = CallsFor(n)
  <2>1. CallsFor(n)' = CallsFor(n)
    BY <1>6, OutsideCalls
  <2>2. ASSUME NEW q \in CallsFor(n), Pending(q) PROVE FALSE
    <3>1. NeedsCreate(Wanted(q), mem[q].old)' <=> NeedsCreate(Wanted(q), mem[q].old)
      BY <1>6, SameVerdict
    <3>2. Pending(q)'
      BY <1>6, <2>2, <3>1 DEF Pending
    <3> QED
      BY <2>1, <3>2 DEF Settled
  <2> QED
    BY <2>1, <2>2 DEF Settled
<1>7. ASSUME NEW m \in Names, Boot(m) \/ WriteContext(m) \/ Flip(m), m # n PROVE Whose(n)'
  <2>1. UNCHANGED <<reg, req, at, mem>> /\ cluster'[n] = cluster[n] /\ context'[n] = context[n]
    BY <1>1, <1>7, OutsideMoves
  <2> QED
    BY <1>2, <1>6, <2>1, WhoseElsewhere
<1>8. CASE Boot(n)
  <2>1. Settled(n)
    BY <1>1, <1>6, <1>8, OutsideMoves
  <2> QED
    BY <1>1, <1>2, <1>8, <2>1, BootInherits, BootOwned DEF Whose
<1>9. CASE WriteContext(n)
  <2>1. Settled(n) /\ UNCHANGED cluster
    BY <1>1, <1>6, <1>9, OutsideMoves
  <2> QED
    BY <1>1, <1>2, <1>9, <2>1, WriteContextInherits, WriteContextOwned DEF Whose
<1>10. ~Flip(n)
  BY <1>1, OutsideMoves DEF Joint
<1>11. CASE UNCHANGED vars
  <2>1. UNCHANGED <<req, at, mem, reg>> /\ cluster'[n] = cluster[n] /\ context'[n] = context[n]
    BY <1>11 DEF vars, world
  <2> QED
    BY <1>2, <1>6, <2>1, WhoseElsewhere
<1> QED
  BY <1>3, <1>4, <1>5, <1>7, <1>8, <1>9, <1>10, <1>11, NextSteps

LEMMA JointInvHolds == Spec => []JointInv
<1>1. Init => JointInv
  BY InitJointInv
<1>2. Base /\ JointInv /\ [Next]_vars => JointInv'
  BY StepJointInv
<1> QED
  BY <1>1, <1>2, BaseHolds, PTL DEF Spec

-------------------------------------------------------------------------------
(***************************************************************************)
(* However many processes apply the same spec to a cluster at once, and      *)
(* whatever others do to other clusters: if all of them report success, and  *)
(* no fault, timeout or outsider has hit the cluster, the spec holds.        *)
(***************************************************************************)
THEOREM SameSpecHoldsAlways == Spec => []SameSpecHolds
<1>1. JointInv => SameSpecHolds
  <2> SUFFICES ASSUME JointInv, NEW n \in Names, NEW p \in CallsFor(n), n \notin disturbed,
                      \A q \in CallsFor(n) : Applies(q) /\ at[q] = "done" /\ Wanted(q) = Wanted(p)
               PROVE  HoldsNow(n, Wanted(p))
    BY DEF SameSpecHolds
  <2>1. Joint(n)
    BY DEF Joint
  <2>2. Settled(n)
    BY DEF Settled, Pending
  <2>3. CASE cluster[n].by = Daemon
    <3>1. Inherited(n)
      BY <2>1, <2>2, <2>3 DEF JointInv
    <3>2. Keeping(p) /\ Target(p) = n /\ at[p] = "done"
      BY <3>1 DEF Inherited, CallsFor
    <3> QED
      BY <3>2 DEF Keeping
  <2>4. CASE cluster[n].by # Daemon
    <3>1. Owned(n)
      BY <2>1, <2>2, <2>4 DEF JointInv
    <3>2. PICK q \in Procs : Holding(n, q) /\ Saving(n, q)
      BY <3>1 DEF Owned
    <3>3. q \in CallsFor(n) /\ at[q] = "done" /\ Wanted(q) = Wanted(p)
      BY <3>2 DEF Holding
    <3>4. cluster[n].saved = Wanted(p).config
      BY <3>2, <3>3 DEF Saving
    <3>5. Wanted(p).registry => Wanted(p).product \in {"kind", "k3d"}
      BY <3>2, <3>3, Zenon DEF Holding, Valid, SupportsRegistry
    <3> QED
      BY <3>2, <3>3, <3>4, <3>5 DEF Holding, HoldsNow, Holds, Fulfils
  <2> QED
    BY <2>3, <2>4
<1> QED
  BY <1>1, JointInvHolds, PTL

==============================================================================
