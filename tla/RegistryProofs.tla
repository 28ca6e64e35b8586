---------------------------- MODULE RegistryProofs ----------------------------
(***************************************************************************)
(* Theorems about Registry: for every set of calls, names, requests,        *)
(* configurations and containers that the daemon had before, at any number *)
(* of calls at once, and for a call that is alone.                          *)
(***************************************************************************)
EXTENDS Registry, TLAPS

-------------------------------------------------------------------------------
(***************************************************************************)
(* The inductive invariant, in parts. First, for every call: what it knows  *)
(* is of the right form.                                                   *)
(***************************************************************************)

\* The container that was under the name before all calls.
Old(n) == Exists(ctr[n]) /\ ctr[n].by = Daemon

\* dctr.Run has a frame of the call's own, and has one only when it was called;
\* a call that is not under way remembers nothing; only an Apply gets to where
\* a container is made.
Fits(p) ==
  /\ arg[p].name = Target(p)
  /\ IF at[p] = "run" THEN run[p] \in Run!Active \cup Run!Returned ELSE run[p] = "idle"
  /\ at[p] \in {"idle"} \cup Over => mem[p] = Blank
  /\ at[p] \in {"check", "apply", "clear", "clearrm", "configure", "run", "confirm"} => Applies(p)
  /\ at[p] = "check" => req[p].kind = "create"

\* What a call remembers of a registry was read of a configuration there may be.
Describes(r, config) ==
  /\ Marked(config)
  /\ r.image = config.image /\ r.labels = config.labels
  /\ r.port \in {0, config.port} /\ r.addr \in {Unset, AddrOf(config)}

Readable(r) == Found(r) => r.name \in Names /\ \E config \in Configs : Describes(r, config)

Remembers(p) ==
  /\ \A r \in mem[p].seen : Found(r) /\ Readable(r)
  /\ Readable(mem[p].found) /\ Readable(mem[p].existing)

Configured == \A n \in Names : Exists(ctr[n]) => ctr[n].config \in Configs

BaseInv ==
  /\ TypeOK
  /\ Configured
  /\ \A p \in Calls : Fits(p) /\ Remembers(p)

-------------------------------------------------------------------------------
(***************************************************************************)
(* Any number of calls at once.                                            *)
(***************************************************************************)

\* A container that a call has made is what that call was asked for.
AsAsked(n) ==
  Exists(ctr[n]) /\ ~Old(n) =>
    LET q == ctr[n].by IN
    Target(q) = n /\ at[q] # "idle" /\ Applies(q) /\ Fulfils(ctr[n].config, req[q].spec)

AboutToMake(p) == at[p] = "run" => Fulfils(arg[p].config, req[p].spec)

\* The container from before is out of the way of the calls that make one.
OldIsGone(p) == at[p] \in {"configure", "run", "confirm"} => ~Old(Target(p))

\* What was read of the old container is true of it for as long as it stands,
\* but for its state.
TrueOfOld(r) ==
  Found(r) /\ Old(r.name) =>
    LET config == ctr[r.name].config IN
    /\ r.image = config.image /\ r.labels = config.labels
    /\ r.state = "running" => r.port = config.port

KnowsOld(p) == (\A r \in mem[p].seen : TrueOfOld(r)) /\ TrueOfOld(mem[p].found)

FoundOld(p) ==
  Found(mem[p].found) => /\ mem[p].found.name = Target(p)
                         /\ Old(Target(p)) => mem[p].found.env = EnvOf(ctr[Target(p)])

\* A call has found the old container to be as asked for.
OldMatches(p) ==
  at[p] = "done" /\ Applies(p) /\ Old(Target(p)) => Fulfils(ctr[Target(p)].config, req[p].spec)

MatchInv ==
  /\ BaseInv
  /\ \A n \in Names : AsAsked(n)
  /\ \A p \in Calls : AboutToMake(p) /\ OldIsGone(p) /\ KnowsOld(p) /\ FoundOld(p) /\ OldMatches(p)

\* The call has taken down what had the name, or found nothing, and makes a
\* container, or fails only because another call does.
Carries(q) ==
  \/ at[q] \in {"clear", "configure"}
  \/ at[q] = "clearrm" /\ VictimStands(q)
  \/ /\ at[q] = "run"
     /\ \/ run[q] \in {"inspect", "create", "pull", "recreate"}
        \/ run[q] = "remove" /\ Exists(ctr[Target(q)])
        \/ run[q] = "start" /\ Exists(ctr[Target(q)]) /\ ctr[Target(q)].by = q

\* The call has seen the registry run.
HasSeenUp(p) ==
  \/ at[p] \in {"confirm", "done"}
  \/ at[p] = "run" /\ run[p] = "ok"
  \/ /\ at[p] = "apply"
     /\ \/ \E r \in mem[p].seen : r.name = Target(p) /\ r.state = "running"
        \/ mem[p].found.state = "running"

AllApply(n) == \A p \in CallsFor(n) : Applies(p)

\* A container that a call has made and that does not run is about to be started.
IsBeingStarted(n) ==
  Exists(ctr[n]) /\ ~Running(ctr[n]) /\ ~Old(n) =>
    LET q == ctr[n].by IN at[q] = "run" /\ run[q] = "start"

UpOrCarried(n) == Running(ctr[n]) \/ \E q \in Calls : Target(q) = n /\ Carries(q)

StaysUp(n) ==
  n \notin disturbed =>
    /\ IsBeingStarted(n)
    /\ AllApply(n) /\ (\E p \in Calls : Target(p) = n /\ HasSeenUp(p)) => UpOrCarried(n)

JointInv == MatchInv /\ \A n \in Names : StaysUp(n)

\* The container that the call is about, as it is now.
Now(p) == ctr[Target(p)]

\* The summary of a registry, as it is now.
Faithful(r) ==
  /\ r.name \in Names /\ IsRegistry(ctr[r.name])
  /\ \E listed \in BOOLEAN : (Publishes(ctr[r.name]) => listed) /\ r = Summary(r.name, listed)

-------------------------------------------------------------------------------
(***************************************************************************)
(* Lemmas about the data.                                                  *)
(***************************************************************************)

Places == {"idle"} \cup InFlight \cup Over

LEMMA NoRegistryFields ==
  /\ NoRegistry \in Registries
  /\ NoRegistry.name = Unset /\ NoRegistry.by = Daemon /\ NoRegistry.state = "absent"
  /\ NoRegistry.image = Unset /\ NoRegistry.labels = {} /\ NoRegistry.env = {}
  /\ NoRegistry.port = 0 /\ NoRegistry.addr = Unset
BY DEF NoRegistry, Registries, States

LEMMA BlankFields ==
  /\ Blank \in Memories
  /\ Blank.step = "role" /\ Blank.seen = {} /\ Blank.found = NoRegistry /\ Blank.existing = NoRegistry
<1>1. Gone \in Container
  BY DEF Gone, Container, States
<1>2. QED
  BY <1>1, NoRegistryFields DEF Blank, Memories

LEMMA AnyConfigType == AnyConfig \in Configs
BY ConfigsAssumption DEF AnyConfig

LEMMA MemoryType ==
  ASSUME TypeOK, NEW p \in Calls
  PROVE  /\ at[p] \in Places
         /\ mem[p] \in Memories
         /\ mem[p].step \in {"role", "ancestor", "inspect"}
         /\ mem[p].seen \subseteq Registries
         /\ mem[p].found \in Registries
         /\ mem[p].existing \in Registries
         /\ mem[p].victim \in Calls \cup {Daemon}
         /\ mem[p].before \in Container
BY DEF TypeOK, Memories, Places

LEMMA RequestType ==
  ASSUME TypeOK, NEW p \in Calls
  PROVE  /\ req[p] \in Requests /\ Target(p) \in Names
         /\ req[p].kind \in Kinds
BY RegistryAssumption DEF TypeOK, Target

LEMMA ContainerType ==
  ASSUME TypeOK, NEW n \in Names
  PROVE  /\ ctr[n] \in Container
         /\ ctr[n].state \in States
         /\ ctr[n].by \in Calls \cup {Daemon}
         /\ ctr[n].config \in Configs \cup {NoConfig}
BY DEF TypeOK, Run!TypeOK, Run!Container, Run!States, Container, States

LEMMA GoneFields ==
  /\ Gone \in Container /\ Gone.state = "absent" /\ Gone.by = Daemon
  /\ ~Exists(Gone) /\ ~Running(Gone)
BY DEF Gone, Container, States, Exists, Running

LEMMA RunningExists ==
  ASSUME NEW c, Running(c)
  PROVE  Exists(c)
BY DEF Running, Exists

LEMMA SummaryFields ==
  ASSUME NEW n \in Names, NEW listed \in BOOLEAN
  PROVE  /\ Summary(n, listed).name = n
         /\ Summary(n, listed).by = ctr[n].by
         /\ Summary(n, listed).state = ctr[n].state
         /\ Summary(n, listed).image = ctr[n].config.image
         /\ Summary(n, listed).labels = ctr[n].config.labels
         /\ Summary(n, listed).env = {}
         /\ Summary(n, listed).port = IF listed THEN ctr[n].config.port ELSE 0
         /\ Summary(n, listed).addr = IF listed THEN AddrOf(ctr[n].config) ELSE Unset
BY DEF Summary

LEMMA SummaryType ==
  ASSUME TypeOK, Configured, NEW n \in Names, Exists(ctr[n]), NEW listed \in BOOLEAN
  PROVE  Summary(n, listed) \in Registries
<1>1. ctr[n].config \in Configs
  BY DEF Configured
<1>2. ctr[n].by \in Calls \cup {Daemon} /\ ctr[n].state \in States
  BY ContainerType
<1>3. ctr[n].config.labels \subseteq UNION {c.labels : c \in Configs}
  BY <1>1
<1>4. AddrOf(ctr[n].config) \in {c.addr : c \in Configs} \cup {Unset, InvalidIP}
  BY <1>1 DEF AddrOf
<1> QED
  BY <1>1, <1>2, <1>3, <1>4 DEF Summary, Registries

LEMMA SummaryFound ==
  ASSUME NEW n \in Names, Exists(ctr[n]), NEW listed \in BOOLEAN
  PROVE  Found(Summary(n, listed))
BY SummaryFields, NoRegistryFields DEF Found, Exists

LEMMA EnvType ==
  ASSUME NEW c, c.config \in Configs
  PROVE  EnvOf(c) \subseteq (UNION {d.env : d \in Configs}) \cup UNION {ImageEnv[d.image] : d \in Configs}
<1>1. c.config.env \subseteq UNION {d.env : d \in Configs}
  OBVIOUS
<1>2. ImageEnv[c.config.image] \subseteq UNION {ImageEnv[d.image] : d \in Configs}
  OBVIOUS
<1> QED
  BY <1>1, <1>2 DEF EnvOf, Override

\* The registry found is the one listed, with its environment.
LEMMA Inspected ==
  ASSUME NEW r \in Registries, NEW env
  PROVE  LET s == [r EXCEPT !.env = env] IN
         /\ s.name = r.name /\ s.by = r.by /\ s.state = r.state /\ s.image = r.image
         /\ s.labels = r.labels /\ s.port = r.port /\ s.addr = r.addr /\ s.env = env
         /\ env \subseteq (UNION {d.env : d \in Configs}) \cup UNION {ImageEnv[d.image] : d \in Configs}
              => s \in Registries
BY DEF Registries

\* What a list request may answer.
LEMMA Listing ==
  ASSUME NEW S \in SUBSET Names, NEW listed \in Summaries(S), \A n \in S : IsRegistry(ctr[n])
  PROVE  /\ \A r \in listed : Faithful(r) /\ r.name \in S
         /\ \A n \in S : \E r \in listed : r.name = n
<1>1. PICK has \in [S -> BOOLEAN] :
         /\ \A n \in S : Publishes(ctr[n]) => has[n]
         /\ listed = {Summary(n, has[n]) : n \in S}
  BY DEF Summaries
<1>2. ASSUME NEW r \in listed
      PROVE  Faithful(r) /\ r.name \in S
  <2>1. PICK n \in S : r = Summary(n, has[n])
    BY <1>1
  <2>2. r.name = n /\ has[n] \in BOOLEAN
    BY <2>1, SummaryFields
  <2> QED
    BY <1>1, <2>1, <2>2 DEF Faithful
<1>3. ASSUME NEW n \in S
      PROVE  \E r \in listed : r.name = n
  <2>1. Summary(n, has[n]).name = n
    BY SummaryFields
  <2> QED
    BY <1>1, <2>1
<1> QED
  BY <1>2, <1>3

-------------------------------------------------------------------------------
(***************************************************************************)
(* What each step changes.                                                 *)
(***************************************************************************)

Kept(q) == at'[q] = at[q] /\ mem'[q] = mem[q] /\ run'[q] = run[q] /\ arg'[q] = arg[q]

\* A step of p in its own memory.
Thinks(p) ==
  /\ UNCHANGED <<ctr, images, disturbed, run, arg, req>>
  /\ at' \in [Calls -> Places] /\ mem' \in [Calls -> Memories]
  /\ \A q \in Calls \ {p} : Kept(q)

Learns(p, step, seen, found, existing, victim) ==
  /\ mem'[p].step = step /\ mem'[p].seen = seen /\ mem'[p].found = found
  /\ mem'[p].existing = existing /\ mem'[p].victim = victim /\ mem'[p].before = mem[p].before

Returns(p, places) == at'[p] \in places /\ mem'[p] = Blank

LEMMA GotoType ==
  ASSUME TypeOK, NEW p \in Calls, NEW place \in Places, Goto(p, place)
  PROVE  /\ at' \in [Calls -> Places] /\ at'[p] = place
         /\ \A q \in Calls \ {p} : at'[q] = at[q]
BY DEF TypeOK, Goto, Places

LEMMA ReturnType ==
  ASSUME TypeOK, NEW p \in Calls, NEW place \in Over, Return(p, place)
  PROVE  /\ at' \in [Calls -> Places] /\ mem' \in [Calls -> Memories]
         /\ at'[p] = place /\ mem'[p] = Blank
         /\ \A q \in Calls \ {p} : at'[q] = at[q] /\ mem'[q] = mem[q]
<1>1. place \in Places /\ Goto(p, place)
  BY DEF Places, Return
<1>2. mem \in [Calls -> Memories]
  BY DEF TypeOK
<1> QED
  BY <1>1, <1>2, GotoType, BlankFields DEF Return

LEMMA StartGetType ==
  ASSUME TypeOK, NEW p \in Calls, NEW place \in Places, StartGet(p, place)
  PROVE  /\ at' \in [Calls -> Places] /\ mem' \in [Calls -> Memories]
         /\ at'[p] = place
         /\ Learns(p, "role", mem[p].seen, NoRegistry, mem[p].existing, mem[p].victim)
         /\ \A q \in Calls \ {p} : at'[q] = at[q] /\ mem'[q] = mem[q]
<1>1. mem \in [Calls -> Memories]
  BY DEF TypeOK
<1>2. mem' = [mem EXCEPT ![p] = [mem[p] EXCEPT !.step = "role", !.found = NoRegistry]]
  BY <1>1 DEF StartGet
<1>3. PICK new : new = [mem[p] EXCEPT !.step = "role", !.found = NoRegistry]
  OBVIOUS
<1>4. mem' = [mem EXCEPT ![p] = new] /\ mem[p] \in Memories
  BY <1>1, <1>2, <1>3
<1>5. new \in Memories
  BY <1>3, <1>4, NoRegistryFields DEF Memories
<1>6. mem' \in [Calls -> Memories] /\ mem'[p] = new /\ \A q \in Calls \ {p} : mem'[q] = mem[q]
  BY <1>1, <1>4, <1>5
<1>7. /\ new.step = "role" /\ new.found = NoRegistry /\ new.seen = mem[p].seen
      /\ new.existing = mem[p].existing /\ new.victim = mem[p].victim /\ new.before = mem[p].before
  BY <1>3, <1>4 DEF Memories
<1>8. Learns(p, "role", mem[p].seen, NoRegistry, mem[p].existing, mem[p].victim)
  BY <1>6, <1>7 DEF Learns
<1> QED
  BY <1>6, <1>8, GotoType DEF StartGet

LEMMA BeginMoves ==
  ASSUME TypeOK, NEW p \in Calls, Begin(p)
  PROVE  /\ Thinks(p)
         /\ at[p] = "idle"
         /\ at'[p] = CASE req[p].kind = "create" -> "check"
                       [] req[p].kind = "delete" -> "delete"
                       [] OTHER                  -> "apply"
         /\ mem'[p].step = mem[p].step /\ mem'[p].seen = mem[p].seen /\ mem'[p].found = mem[p].found
         /\ mem'[p].existing = mem[p].existing /\ mem'[p].victim = mem[p].victim
         /\ mem'[p].before = Now(p)
<1>1. mem \in [Calls -> Memories] /\ Now(p) \in Container
  BY RequestType, ContainerType DEF TypeOK, Now
<1>2. mem' = [mem EXCEPT ![p] = [mem[p] EXCEPT !.before = Now(p)]]
  BY <1>1 DEF Begin, Now
<1>3. [mem[p] EXCEPT !.before = Now(p)] \in Memories
  BY <1>1 DEF Memories
<1>4. \E place \in Places :
        /\ Goto(p, place)
        /\ place = CASE req[p].kind = "create" -> "check"
                     [] req[p].kind = "delete" -> "delete"
                     [] OTHER                  -> "apply"
  BY DEF Begin, Places, InFlight, Getting
<1>5. /\ mem'[p].step = mem[p].step /\ mem'[p].seen = mem[p].seen /\ mem'[p].found = mem[p].found
      /\ mem'[p].existing = mem[p].existing /\ mem'[p].victim = mem[p].victim
      /\ mem'[p].before = Now(p)
  BY <1>1, <1>2 DEF Memories
<1> QED
  BY <1>1, <1>2, <1>3, <1>4, <1>5, GotoType DEF Begin, Thinks, Kept, daemon

LEMMA StepSeen ==
  ASSUME TypeOK, NEW p \in Calls, NEW step \in {"role", "ancestor", "inspect"}, NEW seen \in SUBSET Registries,
         mem' = [mem EXCEPT ![p].step = step, ![p].seen = seen]
  PROVE  /\ mem' \in [Calls -> Memories]
         /\ Learns(p, step, seen, mem[p].found, mem[p].existing, mem[p].victim)
         /\ \A q \in Calls \ {p} : mem'[q] = mem[q]
<1>1. mem \in [Calls -> Memories]
  BY DEF TypeOK
<1>2. mem' = [mem EXCEPT ![p] = [mem[p] EXCEPT !.step = step, !.seen = seen]]
  BY <1>1
<1>3. [mem[p] EXCEPT !.step = step, !.seen = seen] \in Memories
  BY <1>1 DEF Memories
<1> QED
  BY <1>1, <1>2, <1>3 DEF Learns, Memories

LEMMA FaithfulFacts ==
  ASSUME TypeOK, Configured, NEW r, Faithful(r)
  PROVE  /\ r \in Registries /\ Found(r)
         /\ r.name \in Names /\ IsRegistry(ctr[r.name]) /\ Exists(ctr[r.name])
         /\ r.by = ctr[r.name].by /\ r.state = ctr[r.name].state
         /\ r.image = ctr[r.name].config.image /\ r.labels = ctr[r.name].config.labels
         /\ r.port \in {0, ctr[r.name].config.port}
         /\ r.addr \in {Unset, AddrOf(ctr[r.name].config)}
         /\ Running(ctr[r.name]) => r.port = ctr[r.name].config.port
         /\ Publishes(ctr[r.name]) => r.addr = ctr[r.name].config.addr
<1>1. PICK listed \in BOOLEAN :
        (Publishes(ctr[r.name]) => listed) /\ r = Summary(r.name, listed)
  BY DEF Faithful
<1>2. r.name \in Names /\ IsRegistry(ctr[r.name]) /\ Exists(ctr[r.name])
  BY DEF Faithful, IsRegistry
<1> QED
  BY <1>1, <1>2, SummaryFields, SummaryType, SummaryFound DEF Publishes, AddrOf

LEMMA ListByRoleMoves ==
  ASSUME TypeOK, Configured, NEW p \in Calls, ListByRole(p)
  PROVE  /\ Thinks(p)
         /\ at[p] \in Getting /\ at'[p] = at[p]
         /\ mem[p].step = "role"
         /\ \E listed :
              /\ Learns(p, "ancestor", listed, mem[p].found, mem[p].existing, mem[p].victim)
              /\ \A r \in listed : Faithful(r)
              /\ Exists(Now(p)) /\ RoleLabel \in Now(p).config.labels => \E r \in listed : r.name = Target(p)
<1> DEFINE S == {n \in Names : Exists(ctr[n]) /\ RoleLabel \in ctr[n].config.labels}
<1>1. PICK listed \in Summaries(S) : mem' = [mem EXCEPT ![p].step = "ancestor", ![p].seen = listed]
  BY DEF ListByRole
<1>2. S \in SUBSET Names /\ \A n \in S : IsRegistry(ctr[n])
  BY DEF IsRegistry, Marked
<1>3. (\A r \in listed : Faithful(r)) /\ \A n \in S : \E r \in listed : r.name = n
  <2> HIDE DEF S
  <2> QED
    BY <1>1, <1>2, Listing
<1>4. listed \in SUBSET Registries
  BY <1>3, FaithfulFacts
<1>5. /\ mem' \in [Calls -> Memories]
      /\ Learns(p, "ancestor", listed, mem[p].found, mem[p].existing, mem[p].victim)
      /\ \A q \in Calls \ {p} : mem'[q] = mem[q]
  BY <1>1, <1>4, StepSeen
<1>6. Exists(Now(p)) /\ RoleLabel \in Now(p).config.labels => \E r \in listed : r.name = Target(p)
  BY <1>3, RequestType DEF Now
<1>7. at' = at /\ at \in [Calls -> Places] /\ at[p] \in Getting /\ mem[p].step = "role"
  BY DEF ListByRole, TypeOK, Places
<1>8. UNCHANGED <<ctr, images, disturbed, run, arg, req>>
  BY DEF ListByRole, daemon
<1>9. Thinks(p)
  BY <1>5, <1>7, <1>8 DEF Thinks, Kept
<1> QED
  BY <1>3, <1>5, <1>6, <1>7, <1>9

LEMMA ListByAncestorMoves ==
  ASSUME TypeOK, Configured, NEW p \in Calls, ListByAncestor(p)
  PROVE  /\ Thinks(p)
         /\ at[p] \in Getting /\ at'[p] = at[p]
         /\ mem[p].step = "ancestor"
         /\ \E seen :
              /\ Learns(p, "inspect", seen, mem[p].found, mem[p].existing, mem[p].victim)
              /\ \A r \in seen : r \in mem[p].seen \/ Faithful(r)
              /\ (\E r \in mem[p].seen : r.name = Target(p)) => \E r \in seen : r.name = Target(p)
              /\ Exists(Now(p)) /\ Now(p).config.image = DefaultRegistryImageRef => \E r \in seen : r.name = Target(p)
<1> DEFINE S == {n \in Names : Exists(ctr[n]) /\ ctr[n].config.image = DefaultRegistryImageRef}
<1>1. PICK listed \in Summaries(S) :
        mem' = [mem EXCEPT ![p].step = "inspect",
                           ![p].seen = {r \in mem[p].seen : \A s \in listed : ~SameContainer(r, s)} \cup listed]
  BY DEF ListByAncestor
<1> DEFINE seen == {r \in mem[p].seen : \A s \in listed : ~SameContainer(r, s)} \cup listed
<1>2. S \in SUBSET Names /\ \A n \in S : IsRegistry(ctr[n])
  BY DEF IsRegistry, Marked
<1>3. (\A r \in listed : Faithful(r)) /\ \A n \in S : \E r \in listed : r.name = n
  <2> HIDE DEF S
  <2> QED
    BY <1>1, <1>2, Listing
<1>4. seen \in SUBSET Registries
  <2>1. mem[p].seen \subseteq Registries
    BY MemoryType
  <2> QED
    BY <2>1, <1>3, FaithfulFacts
<1>5. /\ mem' \in [Calls -> Memories]
      /\ Learns(p, "inspect", seen, mem[p].found, mem[p].existing, mem[p].victim)
      /\ \A q \in Calls \ {p} : mem'[q] = mem[q]
  <2>1. mem' = [mem EXCEPT ![p].step = "inspect", ![p].seen = seen]
    BY <1>1
  <2> HIDE DEF seen
  <2> QED
    BY <2>1, <1>4, StepSeen
<1>6. Exists(Now(p)) /\ Now(p).config.image = DefaultRegistryImageRef => \E r \in seen : r.name = Target(p)
  BY <1>3, RequestType DEF Now
<1>7. at' = at /\ at \in [Calls -> Places] /\ at[p] \in Getting /\ mem[p].step = "ancestor"
  BY DEF ListByAncestor, TypeOK, Places
<1>8. UNCHANGED <<ctr, images, disturbed, run, arg, req>>
  BY DEF ListByAncestor, daemon
<1>9. Thinks(p)
  BY <1>5, <1>7, <1>8 DEF Thinks, Kept
<1>10. ASSUME NEW r \in mem[p].seen, r.name = Target(p)
       PROVE  \E s \in seen : s.name = Target(p)
  BY <1>10 DEF SameContainer
<1>11. \A r \in seen : r \in mem[p].seen \/ Faithful(r)
  BY <1>3
<1> HIDE DEF seen
<1> QED
  BY <1>5, <1>6, <1>7, <1>9, <1>10, <1>11


LEMMA InspectListedMoves ==
  ASSUME TypeOK, Configured, NEW p \in Calls, InspectListed(p)
  PROVE  /\ Thinks(p)
         /\ at[p] \in Getting /\ mem[p].step = "inspect"
         /\ \E r \in mem[p].seen :
              \/ /\ Stands(r) /\ at'[p] = at[p]
                 /\ Learns(p, "inspect", mem[p].seen \ {r}, mem'[p].found, mem[p].existing, mem[p].victim)
                 /\ mem'[p].found = IF r.name = Target(p) THEN [r EXCEPT !.env = EnvOf(ctr[r.name])]
                                                          ELSE mem[p].found
              \/ ~Stands(r) /\ Returns(p, {"failed"})
<1>1. PICK r \in mem[p].seen :
        \/ /\ Stands(r)
           /\ mem' = [mem EXCEPT ![p].seen = @ \ {r},
                                 ![p].found = IF r.name = Target(p)
                                                THEN [r EXCEPT !.env = EnvOf(ctr[r.name])]
                                                ELSE @]
           /\ UNCHANGED at
        \/ ~Stands(r) /\ Return(p, "failed")
  BY DEF InspectListed
<1>2. at[p] \in Getting /\ mem[p].step = "inspect" /\ UNCHANGED <<ctr, images, disturbed, run, arg, req>>
  BY DEF InspectListed, daemon
<1>3. CASE ~Stands(r) /\ Return(p, "failed")
  <2>1. "failed" \in Over
    BY DEF Over
  <2> QED
    BY <1>2, <1>3, <2>1, ReturnType DEF Thinks, Kept, Returns
<1>4. CASE /\ Stands(r)
           /\ mem' = [mem EXCEPT ![p].seen = @ \ {r},
                                 ![p].found = IF r.name = Target(p)
                                                THEN [r EXCEPT !.env = EnvOf(ctr[r.name])]
                                                ELSE @]
           /\ UNCHANGED at
  <2> DEFINE found == IF r.name = Target(p) THEN [r EXCEPT !.env = EnvOf(ctr[r.name])] ELSE mem[p].found
  <2>1. mem \in [Calls -> Memories] /\ at \in [Calls -> Places] /\ r \in Registries
    BY MemoryType DEF TypeOK, Places
  <2>2. mem' = [mem EXCEPT ![p] = [mem[p] EXCEPT !.seen = mem[p].seen \ {r}, !.found = found]]
    BY <1>4, <2>1
  <2>3. found \in Registries
    <3>1. CASE r.name = Target(p)
      <4>1. ctr[r.name].config \in Configs
        BY <1>4, <3>1, RequestType DEF Stands, Configured
      <4> QED
        BY <2>1, <3>1, <4>1, EnvType, Inspected
    <3> QED
      BY <3>1, MemoryType
  <2> HIDE DEF found
  <2>4. [mem[p] EXCEPT !.seen = mem[p].seen \ {r}, !.found = found] \in Memories
    BY <2>1, <2>3 DEF Memories
  <2>5. mem' \in [Calls -> Memories] /\ \A q \in Calls \ {p} : mem'[q] = mem[q]
    BY <2>1, <2>2, <2>4
  <2>6. Learns(p, "inspect", mem[p].seen \ {r}, found, mem[p].existing, mem[p].victim)
    BY <1>2, <2>1, <2>2, <2>3 DEF Learns, Memories
  <2>7. mem'[p].found = found
    BY <2>6 DEF Learns
  <2>8. Thinks(p)
    BY <1>2, <1>4, <2>1, <2>5 DEF Thinks, Kept
  <2> QED
    BY <1>2, <1>4, <2>6, <2>7, <2>8 DEF found
<1> QED
  BY <1>1, <1>3, <1>4

LEMMA CheckNewMoves ==
  ASSUME TypeOK, NEW p \in Calls, CheckNew(p)
  PROVE  /\ Thinks(p)
         /\ Got(p, "check")
         /\ \/ Found(mem[p].found) /\ Returns(p, {"failed"})
            \/ /\ ~Found(mem[p].found) /\ at'[p] = "apply"
               /\ Learns(p, "role", {}, NoRegistry, mem[p].existing, mem[p].victim)
<1>1. Got(p, "check") /\ mem[p].seen = {} /\ UNCHANGED <<ctr, images, disturbed, run, arg, req>>
  BY DEF CheckNew, daemon, Got
<1>2. "failed" \in Over /\ "apply" \in Places
  BY DEF Over, Places, InFlight, Getting
<1>3. CASE Found(mem[p].found) /\ Return(p, "failed")
  BY <1>1, <1>2, <1>3, ReturnType DEF Thinks, Kept, Returns
<1>4. CASE ~Found(mem[p].found) /\ StartGet(p, "apply")
  BY <1>1, <1>2, <1>4, StartGetType DEF Thinks, Kept
<1> QED
  BY <1>3, <1>4 DEF CheckNew

LEMMA DecideMoves ==
  ASSUME TypeOK, NEW p \in Calls, Decide(p)
  PROVE  /\ Thinks(p)
         /\ Got(p, "apply")
         /\ \/ /\ ~Found(mem[p].found) /\ at'[p] = "clear"
               /\ Learns(p, "role", {}, NoRegistry, mem[p].found, mem[p].victim)
            \/ /\ Found(mem[p].found) /\ NeedsDelete(mem[p].found, req[p].spec) /\ at'[p] = "delete"
               /\ Learns(p, "role", {}, NoRegistry, mem[p].found, mem[p].victim)
            \/ /\ Found(mem[p].found) /\ ~NeedsDelete(mem[p].found, req[p].spec)
               /\ Returns(p, {"done"})
<1> DEFINE Remember == mem' = [mem EXCEPT ![p].existing = mem[p].found, ![p].step = "role", ![p].found = NoRegistry]
<1>1. Got(p, "apply") /\ mem[p].seen = {} /\ UNCHANGED <<ctr, images, disturbed, run, arg, req>>
  BY DEF Decide, daemon, Got
<1>2. "done" \in Over /\ {"clear", "delete"} \subseteq Places
  BY DEF Over, Places, InFlight, Getting
<1>3. \/ ~Found(mem[p].found) /\ Goto(p, "clear") /\ Remember
      \/ Found(mem[p].found) /\ NeedsDelete(mem[p].found, req[p].spec) /\ Goto(p, "delete") /\ Remember
      \/ Found(mem[p].found) /\ ~NeedsDelete(mem[p].found, req[p].spec) /\ Return(p, "done")
  BY DEF Decide
<1>4. ASSUME Remember
      PROVE  /\ mem' \in [Calls -> Memories] /\ \A q \in Calls \ {p} : mem'[q] = mem[q]
             /\ Learns(p, "role", {}, NoRegistry, mem[p].found, mem[p].victim)
  <2>1. mem \in [Calls -> Memories]
    BY DEF TypeOK
  <2>2. mem' = [mem EXCEPT ![p] = [mem[p] EXCEPT !.existing = mem[p].found, !.step = "role", !.found = NoRegistry]]
    BY <1>4, <2>1
  <2>3. PICK new : new = [mem[p] EXCEPT !.existing = mem[p].found, !.step = "role", !.found = NoRegistry]
    OBVIOUS
  <2>4. mem' = [mem EXCEPT ![p] = new] /\ mem[p] \in Memories
    BY <2>1, <2>2, <2>3
  <2>5. new \in Memories
    BY <2>3, <2>4, NoRegistryFields DEF Memories
  <2>6. mem' \in [Calls -> Memories] /\ mem'[p] = new /\ \A q \in Calls \ {p} : mem'[q] = mem[q]
    BY <2>1, <2>4, <2>5
  <2>7. /\ new.step = "role" /\ new.found = NoRegistry /\ new.seen = mem[p].seen
        /\ new.existing = mem[p].found /\ new.victim = mem[p].victim /\ new.before = mem[p].before
    BY <2>3, <2>4 DEF Memories
  <2>8. Learns(p, "role", mem[p].seen, NoRegistry, mem[p].found, mem[p].victim)
    BY <2>6, <2>7 DEF Learns
  <2> QED
    BY <1>1, <2>6, <2>8
<1>5. CASE Return(p, "done") /\ Found(mem[p].found) /\ ~NeedsDelete(mem[p].found, req[p].spec)
  BY <1>1, <1>2, <1>5, ReturnType DEF Thinks, Kept, Returns
<1>6. CASE Goto(p, "clear") /\ Remember /\ ~Found(mem[p].found)
  BY <1>1, <1>2, <1>4, <1>6, GotoType DEF Thinks, Kept
<1>7. CASE Goto(p, "delete") /\ Remember /\ Found(mem[p].found) /\ NeedsDelete(mem[p].found, req[p].spec)
  BY <1>1, <1>2, <1>4, <1>7, GotoType DEF Thinks, Kept
<1> QED
  BY <1>3, <1>5, <1>6, <1>7

LEMMA VictimKept ==
  ASSUME TypeOK, NEW p \in Calls, NEW victim \in Calls \cup {Daemon},
         mem' = [mem EXCEPT ![p].victim = victim]
  PROVE  /\ mem' \in [Calls -> Memories] /\ \A q \in Calls \ {p} : mem'[q] = mem[q]
         /\ Learns(p, mem[p].step, mem[p].seen, mem[p].found, mem[p].existing, victim)
<1>1. mem \in [Calls -> Memories]
  BY DEF TypeOK
<1>2. mem' = [mem EXCEPT ![p] = [mem[p] EXCEPT !.victim = victim]]
  BY <1>1
<1>3. [mem[p] EXCEPT !.victim = victim] \in Memories
  BY <1>1 DEF Memories
<1> QED
  BY <1>1, <1>2, <1>3 DEF Learns, Memories

LEMMA FindDoomedMoves ==
  ASSUME TypeOK, NEW p \in Calls, FindDoomed(p)
  PROVE  /\ Thinks(p)
         /\ Got(p, "delete")
         /\ \/ /\ Found(mem[p].found) /\ at'[p] = "rm"
               /\ Learns(p, mem[p].step, mem[p].seen, mem[p].found, mem[p].existing, mem[p].found.by)
            \/ ~Found(mem[p].found) /\ Returns(p, {"failed"})
<1>1. Got(p, "delete") /\ UNCHANGED <<ctr, images, disturbed, run, arg, req>>
  BY DEF FindDoomed, daemon
<1>2. "failed" \in Over /\ "rm" \in Places
  BY DEF Over, Places, InFlight, Getting
<1>3. mem[p].found.by \in Calls \cup {Daemon}
  BY MemoryType DEF Registries
<1>4. CASE ~Found(mem[p].found) /\ Return(p, "failed")
  BY <1>1, <1>2, <1>4, ReturnType DEF Thinks, Kept, Returns
<1>5. CASE Found(mem[p].found) /\ Goto(p, "rm") /\ mem' = [mem EXCEPT ![p].victim = mem[p].found.by]
  BY <1>1, <1>2, <1>3, <1>5, GotoType, VictimKept DEF Thinks, Kept
<1> QED
  BY <1>4, <1>5 DEF FindDoomed

LEMMA InspectLeftoverMoves ==
  ASSUME TypeOK, NEW p \in Calls, InspectLeftover(p)
  PROVE  /\ Thinks(p)
         /\ at[p] = "clear"
         /\ \/ /\ Exists(Now(p)) /\ at'[p] = "clearrm"
               /\ Learns(p, mem[p].step, mem[p].seen, mem[p].found, mem[p].existing, Now(p).by)
            \/ ~Exists(Now(p)) /\ at'[p] = "configure" /\ mem'[p] = mem[p]
<1>1. at[p] = "clear" /\ UNCHANGED <<ctr, images, disturbed, run, arg, req>>
  BY DEF InspectLeftover, daemon
<1>2. {"clearrm", "configure"} \subseteq Places /\ mem \in [Calls -> Memories]
  BY DEF TypeOK, Over, Places, InFlight, Getting
<1>3. Now(p).by \in Calls \cup {Daemon}
  BY RequestType, ContainerType DEF Now
<1>4. CASE ~Exists(Now(p)) /\ Goto(p, "configure") /\ UNCHANGED mem
  BY <1>1, <1>2, <1>4, GotoType DEF Thinks, Kept
<1>5. CASE Exists(Now(p)) /\ Goto(p, "clearrm") /\ mem' = [mem EXCEPT ![p].victim = Now(p).by]
  BY <1>1, <1>2, <1>3, <1>5, GotoType, VictimKept DEF Thinks, Kept
<1> QED
  BY <1>4, <1>5 DEF InspectLeftover, Now

LEMMA ConfirmMoves ==
  ASSUME TypeOK, NEW p \in Calls, Confirm(p)
  PROVE  /\ Thinks(p)
         /\ Got(p, "confirm")
         /\ \/ Found(mem[p].found) /\ Returns(p, {"done"})
            \/ ~Found(mem[p].found) /\ Returns(p, {"failed"})
<1>1. Got(p, "confirm") /\ UNCHANGED <<ctr, images, disturbed, run, arg, req>>
  BY DEF Confirm, daemon
<1>2. {"failed", "done"} \subseteq Over
  BY DEF Over
<1>3. CASE Found(mem[p].found) /\ Return(p, "done")
  BY <1>1, <1>2, <1>3, ReturnType DEF Thinks, Kept, Returns
<1>4. CASE ~Found(mem[p].found) /\ Return(p, "failed")
  BY <1>1, <1>2, <1>4, ReturnType DEF Thinks, Kept, Returns
<1> QED
  BY <1>3, <1>4 DEF Confirm

\* A container is removed, or the request finds that it is gone.
Removes(p) ==
  /\ ctr' \in [Names -> Container]
  /\ ctr'[Target(p)] = Gone
  /\ \A n \in Names \ {Target(p)} : ctr'[n] = ctr[n]

LEMMA RemovalMoves ==
  ASSUME TypeOK, NEW p \in Calls, ctr' = [ctr EXCEPT ![Target(p)] = Gone]
  PROVE  Removes(p)
<1>1. ctr \in [Names -> Container]
  BY DEF TypeOK, Run!TypeOK, Run!Container, Run!States, Container, States
<1> QED
  BY <1>1, GoneFields, RequestType DEF Removes

\* A step of p at a request that may remove a container.
Clears(p) ==
  /\ UNCHANGED <<images, disturbed, run, arg, req>>
  /\ at' \in [Calls -> Places] /\ mem' \in [Calls -> Memories]
  /\ \A q \in Calls \ {p} : Kept(q)

LEMMA DeleteMoves ==
  ASSUME TypeOK, NEW p \in Calls, Delete(p)
  PROVE  /\ Clears(p)
         /\ at[p] = "rm"
         /\ \/ VictimStands(p) /\ Removes(p) /\ ~Applies(p) /\ Returns(p, {"done"})
            \/ VictimStands(p) /\ Removes(p) /\ Applies(p) /\ at'[p] = "clear" /\ mem'[p] = mem[p]
            \/ ~VictimStands(p) /\ UNCHANGED ctr /\ Returns(p, {"failed"})
<1>1. at[p] = "rm" /\ UNCHANGED <<images, disturbed, run, arg, req>>
  BY DEF Delete
<1>2. {"failed", "done"} \subseteq Over /\ "clear" \in Places /\ mem \in [Calls -> Memories]
  BY DEF Over, Places, InFlight, TypeOK
<1>3. CASE RemoveVictim(p) /\ req[p].kind = "delete" /\ Return(p, "done")
  BY <1>1, <1>2, <1>3, ReturnType, RemovalMoves DEF Clears, Kept, Returns, RemoveVictim, Applies
<1>4. CASE RemoveVictim(p) /\ req[p].kind # "delete" /\ Goto(p, "clear") /\ UNCHANGED mem
  BY <1>1, <1>2, <1>4, GotoType, RemovalMoves DEF Clears, Kept, RemoveVictim, Applies
<1>5. CASE ~VictimStands(p) /\ UNCHANGED ctr /\ Return(p, "failed")
  BY <1>1, <1>2, <1>5, ReturnType DEF Clears, Kept, Returns
<1> QED
  BY <1>3, <1>4, <1>5 DEF Delete

LEMMA RemoveLeftoverMoves ==
  ASSUME TypeOK, NEW p \in Calls, RemoveLeftover(p)
  PROVE  /\ Clears(p)
         /\ at[p] = "clearrm"
         /\ \/ VictimStands(p) /\ Removes(p) /\ at'[p] = "configure" /\ mem'[p] = mem[p]
            \/ ~VictimStands(p) /\ UNCHANGED ctr /\ Returns(p, {"failed"})
<1>1. at[p] = "clearrm" /\ UNCHANGED <<images, disturbed, run, arg, req>>
  BY DEF RemoveLeftover
<1>2. "failed" \in Over /\ "configure" \in Places /\ mem \in [Calls -> Memories]
  BY DEF Over, Places, InFlight, TypeOK
<1>4. CASE RemoveVictim(p) /\ Goto(p, "configure") /\ UNCHANGED mem
  BY <1>1, <1>2, <1>4, GotoType, RemovalMoves DEF Clears, Kept, RemoveVictim
<1>5. CASE ~VictimStands(p) /\ UNCHANGED ctr /\ Return(p, "failed")
  BY <1>1, <1>2, <1>5, ReturnType DEF Clears, Kept, Returns
<1> QED
  BY <1>4, <1>5 DEF RemoveLeftover

\* The configuration of a container depends on no more of the old one than this.
LEMMA SameConfig ==
  ASSUME NEW r, NEW s, NEW spec, NEW port,
         r.image = s.image, r.labels = s.labels, r.addr = s.addr
  PROVE  /\ ConfigFor(r, spec, port) = ConfigFor(s, spec, port)
         /\ Parses(r, spec) <=> Parses(s, spec)
BY DEF ConfigFor, ImageConfig, AddrConfig, LabelConfigs, Parses

LEMMA PortChosen ==
  ASSUME NEW old, NEW spec, NEW port \in PortConfigs(old, spec)
  PROVE  /\ spec.port # 0 => port = spec.port
         /\ spec.port = 0 /\ old.port # 0 => port = old.port
         /\ port \in FreePorts \cup ({spec.port, old.port} \ {0})
BY DEF PortConfigs

LEMMA ConfigurationType ==
  ASSUME NEW r \in Requests, NEW old, Readable(old), Parses(old, r.spec), NEW port \in PortConfigs(old, r.spec)
  PROVE  ConfigFor(old, r.spec, port) \in Configs
<1>1. port \in FreePorts \cup ({r.spec.port, old.port} \ {0})
  BY PortChosen
<1>2. CASE ~Found(old)
  BY <1>1, <1>2, NoRegistryFields, ConfigsAssumption DEF Found
<1>3. CASE Found(old)
  <2>1. PICK config \in Configs : Describes(old, config)
    BY <1>3 DEF Readable
  <2>2. Marked(config) /\ old.addr \in {Unset, AddrOf(config)} /\ old.port \in {0, config.port}
    BY <2>1 DEF Describes
  <2> DEFINE like == [image |-> config.image, labels |-> config.labels, addr |-> old.addr]
  <2>3. like \in Described(config)
    BY <2>2 DEF Described
  <2>4. like.image = old.image /\ like.labels = old.labels /\ like.addr = old.addr
    BY <2>1 DEF Describes
  <2> HIDE DEF like
  <2>7. Parses(like, r.spec)
    BY <2>4, SameConfig
  <2>5. port \in FreePorts \cup ({r.spec.port, config.port} \ {0})
    BY <1>1, <2>2
  <2>6. ConfigFor(like, r.spec, port) \in Configs
    BY <2>2, <2>3, <2>5, <2>7, ConfigsAssumption
  <2> QED
    BY <2>4, <2>6, SameConfig
<1> QED
  BY <1>2, <1>3

RunPlaces == {"idle"} \cup Run!Active \cup Run!Returned

LEMMA RunType ==
  ASSUME TypeOK
  PROVE  /\ ctr \in [Names -> Container] /\ images \subseteq Run!Images
         /\ run \in [Calls -> RunPlaces]
         /\ arg \in [Calls -> [name: Names, config: Configs]]
         /\ disturbed \subseteq Names
BY DEF TypeOK, Run!TypeOK, Run!Container, Run!States, Container, States, RunPlaces

LEMMA ConfigureMoves ==
  ASSUME TypeOK, NEW p \in Calls, Fits(p), Remembers(p), Configure(p)
  PROVE  /\ UNCHANGED <<ctr, images, req>>
         /\ at' \in [Calls -> Places] /\ mem' \in [Calls -> Memories]
         /\ arg' \in [Calls -> [name: Names, config: Configs]] /\ run' \in [Calls -> RunPlaces]
         /\ \A q \in Calls \ {p} : Kept(q)
         /\ at[p] = "configure" /\ run[p] = "idle"
         /\ \/ \E port \in PortConfigs(mem[p].existing, req[p].spec) :
                 /\ Parses(mem[p].existing, req[p].spec)
                 /\ at'[p] = "run" /\ run'[p] = "inspect" /\ mem'[p] = mem[p] /\ UNCHANGED disturbed
                 /\ arg'[p].name = Target(p)
                 /\ arg'[p].config = ConfigFor(mem[p].existing, req[p].spec, port)
            \/ /\ ~Parses(mem[p].existing, req[p].spec) \/ PortConfigs(mem[p].existing, req[p].spec) = {}
               /\ Returns(p, {"failed"}) /\ run'[p] = run[p] /\ arg'[p] = arg[p]
               /\ disturbed' = disturbed \cup {Target(p)}
<1>1. at[p] = "configure" /\ UNCHANGED <<ctr, images, req>>
  BY DEF Configure
<1>2. "failed" \in Over /\ "run" \in Places /\ "inspect" \in RunPlaces
  BY DEF Over, Places, InFlight, RunPlaces, Run!Active
<1>3. run[p] = "idle" /\ arg[p].name = Target(p)
  BY <1>1 DEF Fits
<1>4. /\ mem \in [Calls -> Memories] /\ run \in [Calls -> RunPlaces]
      /\ arg \in [Calls -> [name: Names, config: Configs]]
  BY RunType DEF TypeOK
<1>5. CASE /\ ~Parses(mem[p].existing, req[p].spec) \/ PortConfigs(mem[p].existing, req[p].spec) = {}
           /\ Return(p, "failed")
           /\ disturbed' = disturbed \cup {Target(p)}
           /\ UNCHANGED <<run, arg>>
  BY <1>1, <1>2, <1>3, <1>4, <1>5, ReturnType DEF Kept, Returns
<1>6. ASSUME Parses(mem[p].existing, req[p].spec),
             NEW port \in PortConfigs(mem[p].existing, req[p].spec),
             /\ Goto(p, "run")
             /\ arg' = [arg EXCEPT ![p].config = ConfigFor(mem[p].existing, req[p].spec, port)]
             /\ run' = [run EXCEPT ![p] = "inspect"]
             /\ UNCHANGED <<disturbed, mem>>
      PROVE  /\ at' \in [Calls -> Places] /\ mem' \in [Calls -> Memories]
             /\ arg' \in [Calls -> [name: Names, config: Configs]] /\ run' \in [Calls -> RunPlaces]
             /\ \A q \in Calls \ {p} : Kept(q)
             /\ at'[p] = "run" /\ run'[p] = "inspect" /\ mem'[p] = mem[p] /\ UNCHANGED disturbed
             /\ arg'[p].name = Target(p)
             /\ arg'[p].config = ConfigFor(mem[p].existing, req[p].spec, port)
  <2> DEFINE config == ConfigFor(mem[p].existing, req[p].spec, port)
  <2>1. config \in Configs
    <3>1. Readable(mem[p].existing) /\ req[p] \in Requests
      BY RequestType DEF Remembers
    <3> QED
      BY <3>1, <1>6, ConfigurationType
  <2>2. arg' = [arg EXCEPT ![p].config = config]
    BY <1>6
  <2> HIDE DEF config
  <2>3. arg' \in [Calls -> [name: Names, config: Configs]]
    BY <1>4, <2>1, <2>2
  <2>4. arg'[p].name = Target(p) /\ arg'[p].config = config /\ \A q \in Calls \ {p} : arg'[q] = arg[q]
    BY <1>3, <1>4, <2>1, <2>2
  <2> QED
    BY <1>2, <1>4, <1>6, <2>3, <2>4, GotoType DEF Kept, config
<1> QED
  BY <1>1, <1>3, <1>5, <1>6 DEF Configure

\* A step of dctr.Run.
Runs(p, places) ==
  /\ at[p] = "run"
  /\ UNCHANGED <<req, at, mem, arg>>
  /\ run' \in [Calls -> RunPlaces] /\ run'[p] \in places
  /\ \A q \in Calls \ {p} : run'[q] = run[q]

LEMMA RunGoto ==
  ASSUME TypeOK, NEW p \in Calls, NEW place \in RunPlaces, Run!Goto(p, place)
  PROVE  /\ run' \in [Calls -> RunPlaces] /\ run'[p] = place
         /\ \A q \in Calls \ {p} : run'[q] = run[q]
BY RunType DEF Run!Goto

\* dctr.Run and its caller have the same container in view.
LEMMA SameTarget ==
  ASSUME NEW p \in Calls, Fits(p)
  PROVE  /\ Run!Target(p) = Target(p)
         /\ Run!Exists(ctr[Run!Target(p)]) <=> Exists(Now(p))
         /\ Run!Running(ctr[Run!Target(p)]) <=> Running(Now(p))
         /\ Run!OwnsTarget(p) <=> Exists(Now(p)) /\ Now(p).by = p
         /\ Run!PortTaken(ctr, Run!Target(p), arg[p].config) <=> PortTaken(ctr, Target(p), arg[p].config)
         /\ Run!Gone = Gone
<1>1. Run!Target(p) = Target(p)
  BY DEF Run!Target, Fits
<1> QED
  BY <1>1 DEF Now, Run!Exists, Exists, Run!Running, Running, Run!OwnsTarget, Run!PortTaken, PortTaken, Run!Gone, Gone

Makes(p) ==
  /\ ctr' \in [Names -> Container]
  /\ ctr'[Target(p)] = Run!NewContainer(p)
  /\ \A n \in Names \ {Target(p)} : ctr'[n] = ctr[n]

\* Only the state of a container changes.
Restates(n, state) ==
  /\ ctr' \in [Names -> Container]
  /\ ctr'[n].state = state /\ ctr'[n].by = ctr[n].by /\ ctr'[n].config = ctr[n].config
  /\ \A m \in Names \ {n} : ctr'[m] = ctr[m]

LEMMA NewContainerFields ==
  ASSUME TypeOK, NEW p \in Calls
  PROVE  /\ Run!NewContainer(p) \in Container
         /\ Run!NewContainer(p).state = "created" /\ Run!NewContainer(p).by = p
         /\ Run!NewContainer(p).config = arg[p].config
BY RunType DEF Run!NewContainer, Container, States

LEMMA RestateMoves ==
  ASSUME TypeOK, NEW n \in Names, NEW state \in States, ctr' = [ctr EXCEPT ![n].state = state]
  PROVE  Restates(n, state)
<1>1. ctr \in [Names -> Container]
  BY RunType
<1> QED
  BY <1>1 DEF Restates, Container

LEMMA RunInspectMoves ==
  ASSUME TypeOK, NEW p \in Calls, Fits(p), RunStep(p), Run!Inspect(p)
  PROVE  /\ Runs(p, {"ok", "create", "remove"}) /\ UNCHANGED <<ctr, images, disturbed>>
         /\ run[p] = "inspect"
         /\ run'[p] = CASE Running(Now(p))  -> "ok"
                        [] ~Exists(Now(p)) -> "create"
                        [] OTHER           -> "remove"
<1>1. {"ok", "create", "remove"} \subseteq RunPlaces
  BY DEF RunPlaces, Run!Active, Run!Returned
<1>2. \E place \in {"ok", "create", "remove"} :
        /\ Run!Goto(p, place)
        /\ place = CASE Running(Now(p))  -> "ok"
                     [] ~Exists(Now(p)) -> "create"
                     [] OTHER           -> "remove"
  BY SameTarget DEF Run!Inspect
<1> QED
  BY <1>1, <1>2, RunGoto DEF RunStep, Runs, Run!Inspect

LEMMA RunRemoveMoves ==
  ASSUME TypeOK, NEW p \in Calls, Fits(p), RunStep(p), Run!Remove(p)
  PROVE  /\ Runs(p, {"create", "err"}) /\ UNCHANGED <<images, disturbed>>
         /\ run[p] = "remove"
         /\ \/ Exists(Now(p)) /\ Removes(p) /\ run'[p] = "create"
            \/ ~Exists(Now(p)) /\ UNCHANGED ctr /\ run'[p] = "err"
<1>1. {"create", "err"} \subseteq RunPlaces
  BY DEF RunPlaces, Run!Active, Run!Returned
<1>2. CASE Exists(Now(p))
  <2>1. ctr' = [ctr EXCEPT ![Target(p)] = Gone] /\ Run!Goto(p, "create")
    BY <1>2, SameTarget DEF Run!Remove
  <2> QED
    BY <1>1, <1>2, <2>1, RunGoto, RemovalMoves DEF RunStep, Runs, Run!Remove
<1>3. CASE ~Exists(Now(p))
  <2>1. UNCHANGED ctr /\ Run!Goto(p, "err")
    BY <1>3, SameTarget DEF Run!Remove
  <2> QED
    BY <1>1, <1>3, <2>1, RunGoto DEF RunStep, Runs, Run!Remove
<1> QED
  BY <1>2, <1>3

LEMMA RunCreateMoves ==
  ASSUME TypeOK, NEW p \in Calls, Fits(p), RunStep(p), Run!Create(p) \/ Run!Recreate(p)
  PROVE  /\ Runs(p, {"start", "err", "pull"}) /\ UNCHANGED images
         /\ run[p] \in {"create", "recreate"}
         /\ \/ Exists(Now(p)) /\ UNCHANGED <<ctr, disturbed>> /\ run'[p] = "err"
            \/ ~Exists(Now(p)) /\ Makes(p) /\ UNCHANGED disturbed /\ run'[p] = "start"
            \/ arg[p].config.image \notin images /\ run'[p] = "pull" /\ UNCHANGED <<ctr, disturbed>>
            \/ /\ arg[p].config.image \notin images /\ run'[p] = "err" /\ UNCHANGED ctr
               /\ disturbed' = disturbed \cup {Target(p)}
<1>1. {"start", "err", "pull"} \subseteq RunPlaces
  BY DEF RunPlaces, Run!Active, Run!Returned
<1>2. CASE arg[p].config.image \in images /\ Exists(Now(p))
  <2>1. UNCHANGED <<ctr, disturbed>> /\ Run!Goto(p, "err")
    BY <1>2, SameTarget DEF Run!Create, Run!Recreate, Run!CreateNamed
  <2> QED
    BY <1>1, <1>2, <2>1, RunGoto DEF RunStep, Runs, Run!Create, Run!Recreate
<1>3. CASE arg[p].config.image \in images /\ ~Exists(Now(p))
  <2>1. /\ ctr' = [ctr EXCEPT ![Target(p)] = Run!NewContainer(p)]
        /\ UNCHANGED disturbed /\ Run!Goto(p, "start")
    BY <1>3, SameTarget DEF Run!Create, Run!Recreate, Run!CreateNamed
  <2>2. Makes(p)
    BY <2>1, NewContainerFields, RunType, RequestType DEF Makes
  <2> QED
    BY <1>1, <1>3, <2>1, <2>2, RunGoto DEF RunStep, Runs, Run!Create, Run!Recreate
<1>4. CASE arg[p].config.image \notin images /\ Run!Create(p)
  <2>1. UNCHANGED <<ctr, disturbed>> /\ Run!Goto(p, "pull")
    BY <1>4 DEF Run!Create
  <2> QED
    BY <1>1, <1>4, <2>1, RunGoto DEF RunStep, Runs, Run!Create
<1>5. CASE arg[p].config.image \notin images /\ Run!Recreate(p)
  <2>1. UNCHANGED ctr /\ Run!Goto(p, "err") /\ disturbed' = disturbed \cup {Target(p)}
    BY <1>5, SameTarget DEF Run!Recreate, Run!Disturb
  <2> QED
    BY <1>1, <1>5, <2>1, RunGoto DEF RunStep, Runs, Run!Recreate
<1> QED
  BY <1>2, <1>3, <1>4, <1>5

LEMMA RunPullMoves ==
  ASSUME TypeOK, NEW p \in Calls, Fits(p), RunStep(p), Run!Pull(p)
  PROVE  /\ Runs(p, {"recreate"}) /\ UNCHANGED <<ctr, disturbed>>
         /\ run[p] = "pull"
         /\ images \subseteq images' /\ images' \subseteq Run!Images
<1>1. "recreate" \in RunPlaces
  BY DEF RunPlaces, Run!Active, Run!Returned
<1>2. arg[p].config.image \in Run!Images
  BY RunType DEF Run!Images
<1> QED
  BY <1>1, <1>2, RunGoto, RunType DEF RunStep, Runs, Run!Pull

LEMMA RunStartMoves ==
  ASSUME TypeOK, NEW p \in Calls, Fits(p), RunStep(p), Run!Start(p)
  PROVE  /\ Runs(p, {"ok", "err"}) /\ UNCHANGED images
         /\ run[p] = "start"
         /\ \/ ~(Exists(Now(p)) /\ Now(p).by = p) /\ UNCHANGED <<ctr, disturbed>> /\ run'[p] = "err"
            \/ /\ Exists(Now(p)) /\ Now(p).by = p /\ PortTaken(ctr, Target(p), arg[p].config)
               /\ UNCHANGED ctr /\ run'[p] = "err" /\ disturbed' = disturbed \cup {Target(p)}
            \/ /\ Exists(Now(p)) /\ Now(p).by = p
               /\ Restates(Target(p), "running") /\ run'[p] = "ok" /\ UNCHANGED disturbed
<1>1. {"ok", "err"} \subseteq RunPlaces
  BY DEF RunPlaces, Run!Active, Run!Returned
<1>2. run[p] = "start" /\ UNCHANGED images
  BY DEF Run!Start
<1>3. CASE ~Run!OwnsTarget(p) /\ Run!Goto(p, "err") /\ UNCHANGED <<ctr, disturbed>>
  BY <1>1, <1>2, <1>3, RunGoto, SameTarget DEF RunStep, Runs, Run!Start
<1>4. CASE Run!OwnsTarget(p) /\ ~Run!CanStart(p) /\ Run!Goto(p, "err") /\ Run!Disturb(Run!Target(p)) /\ UNCHANGED ctr
  BY <1>1, <1>2, <1>4, RunGoto, SameTarget DEF RunStep, Runs, Run!Start, Run!CanStart, Run!Disturb
<1>5. CASE Run!CanStart(p) /\ Run!SetRunning(Run!Target(p)) /\ Run!Goto(p, "ok") /\ UNCHANGED disturbed
  <2>1. ctr' = [ctr EXCEPT ![Target(p)].state = "running"]
    BY <1>5, SameTarget DEF Run!SetRunning
  <2>2. Restates(Target(p), "running")
    BY <2>1, RestateMoves, RequestType DEF States
  <2> QED
    BY <1>1, <1>2, <1>5, <2>2, RunGoto, SameTarget DEF RunStep, Runs, Run!Start, Run!CanStart
<1> QED
  BY <1>3, <1>4, <1>5 DEF Run!Start

LEMMA RunUnansweredMoves ==
  ASSUME TypeOK, NEW p \in Calls, Fits(p), RunUnanswered(p)
  PROVE  /\ Runs(p, {"err"}) /\ UNCHANGED images
         /\ run[p] = "start"
         /\ Exists(Now(p)) /\ Now(p).by = p
         /\ Restates(Target(p), "running")
         /\ disturbed' = disturbed \cup {Target(p)}
<1>1. "err" \in RunPlaces
  BY DEF RunPlaces, Run!Active, Run!Returned
<1>2. ctr' = [ctr EXCEPT ![Target(p)].state = "running"] /\ disturbed' = disturbed \cup {Target(p)}
  BY SameTarget DEF RunUnanswered, Run!StartUnanswered, Run!SetRunning, Run!Disturb
<1>3. Restates(Target(p), "running")
  BY <1>2, RestateMoves, RequestType DEF States
<1> QED
  BY <1>1, <1>2, <1>3, RunGoto, SameTarget DEF RunUnanswered, Runs, Run!StartUnanswered, Run!CanStart

LEMMA LeaveRunType ==
  ASSUME TypeOK, NEW p \in Calls, LeaveRun(p)
  PROVE  /\ run' \in [Calls -> RunPlaces] /\ arg' \in [Calls -> [name: Names, config: Configs]]
         /\ run'[p] = "idle" /\ arg'[p].name = Target(p)
         /\ \A q \in Calls \ {p} : run'[q] = run[q] /\ arg'[q] = arg[q]
<1>1. "idle" \in RunPlaces
  BY DEF RunPlaces
<1>2. NoArg(p) \in [name: Names, config: Configs] /\ NoArg(p).name = Target(p)
  BY AnyConfigType, RequestType DEF NoArg
<1> QED
  BY <1>1, <1>2, RunType DEF LeaveRun

LEMMA RunReturnedMoves ==
  ASSUME TypeOK, NEW p \in Calls, RunReturned(p)
  PROVE  /\ UNCHANGED <<ctr, images, disturbed, req>>
         /\ at' \in [Calls -> Places] /\ mem' \in [Calls -> Memories]
         /\ arg' \in [Calls -> [name: Names, config: Configs]] /\ run' \in [Calls -> RunPlaces]
         /\ \A q \in Calls \ {p} : Kept(q)
         /\ at[p] = "run" /\ run'[p] = "idle" /\ arg'[p].name = Target(p)
         /\ \/ /\ run[p] = "ok" /\ at'[p] = "confirm"
               /\ Learns(p, "role", mem[p].seen, NoRegistry, mem[p].existing, mem[p].victim)
            \/ run[p] = "err" /\ Returns(p, {"failed"})
<1>1. at[p] = "run" /\ UNCHANGED <<ctr, images, disturbed, req>>
  BY DEF RunReturned, daemon
<1>2. "failed" \in Over /\ "confirm" \in Places
  BY DEF Over, Places, InFlight, Getting
<1>3. LeaveRun(p)
  BY DEF RunReturned
<1>4. CASE run[p] = "ok" /\ StartGet(p, "confirm")
  BY <1>1, <1>2, <1>3, <1>4, LeaveRunType, StartGetType DEF Kept
<1>5. CASE run[p] = "err" /\ Return(p, "failed")
  BY <1>1, <1>2, <1>3, <1>5, LeaveRunType, ReturnType DEF Kept, Returns
<1> QED
  BY <1>4, <1>5 DEF RunReturned

LEMMA FailMoves ==
  ASSUME TypeOK, NEW p \in Calls, Fail(p)
  PROVE  /\ UNCHANGED <<ctr, images, req>> /\ disturbed' = disturbed \cup {Target(p)}
         /\ at' \in [Calls -> Places] /\ mem' \in [Calls -> Memories]
         /\ arg' \in [Calls -> [name: Names, config: Configs]] /\ run' \in [Calls -> RunPlaces]
         /\ \A q \in Calls \ {p} : Kept(q)
         /\ at[p] \in InFlight /\ run'[p] = "idle" /\ arg'[p].name = Target(p)
         /\ Returns(p, {"broken"})
<1>1. "broken" \in Over
  BY DEF Over
<1> QED
  BY <1>1, LeaveRunType, ReturnType DEF Fail, Kept, Returns

LEMMA MeddleMoves ==
  ASSUME TypeOK, NEW n \in Names, Meddle(n)
  PROVE  /\ UNCHANGED <<images, run, arg, req, at, mem>> /\ disturbed' = disturbed \cup {n}
         /\ Exists(ctr[n])
         /\ Restates(n, "running") \/ Restates(n, "exited")
<1>1. CASE Run!Stop(n)
  <2>1. ctr' = [ctr EXCEPT ![n].state = "exited"]
    BY <1>1 DEF Run!Stop
  <2>2. Restates(n, "exited")
    BY <2>1, RestateMoves DEF States
  <2> QED
    BY <1>1, <2>2 DEF Meddle, Run!Stop, Run!Running, Run!Disturb, Exists
<1>2. CASE Run!Restart(n)
  <2>1. ctr' = [ctr EXCEPT ![n].state = "running"]
    BY <1>2 DEF Run!Restart, Run!SetRunning
  <2>2. Restates(n, "running")
    BY <2>1, RestateMoves DEF States
  <2> QED
    BY <1>2, <2>2 DEF Meddle, Run!Restart, Run!Disturb, Exists
<1> QED
  BY <1>1, <1>2 DEF Meddle

-------------------------------------------------------------------------------
(***************************************************************************)
(* What all steps have in common.                                          *)
(***************************************************************************)

\* A container is removed, made by the call at its dctr.Run, or stopped or
\* started.
ContainerMoves(p) ==
  \/ ctr'[Target(p)] = ctr[Target(p)]
  \/ ctr'[Target(p)] = Gone
  \/ /\ ~Exists(Now(p)) /\ ctr'[Target(p)] = Run!NewContainer(p)
     /\ at[p] = "run" /\ run[p] \in {"create", "recreate"} /\ run'[p] = "start"
     /\ UNCHANGED <<at, mem, arg>>
  \/ /\ Exists(Now(p)) /\ ctr'[Target(p)].state = "running"
     /\ ctr'[Target(p)].by = ctr[Target(p)].by /\ ctr'[Target(p)].config = ctr[Target(p)].config

Typed ==
  /\ ctr \in [Names -> Container] /\ images \subseteq Run!Images
  /\ run \in [Calls -> RunPlaces] /\ arg \in [Calls -> [name: Names, config: Configs]]
  /\ disturbed \subseteq Names
  /\ at \in [Calls -> Places] /\ mem \in [Calls -> Memories]

Acts(p) ==
  /\ Typed' /\ UNCHANGED req
  /\ \A q \in Calls \ {p} : Kept(q)
  /\ disturbed \subseteq disturbed' /\ disturbed' \subseteq disturbed \cup {Target(p)}
  /\ images \subseteq images'
  /\ \A n \in Names \ {Target(p)} : ctr'[n] = ctr[n]
  /\ ContainerMoves(p)

LEMMA IsTyped ==
  ASSUME TypeOK
  PROVE  Typed
BY RunType DEF Typed, TypeOK, Places

LEMMA ThinksActs ==
  ASSUME TypeOK, NEW p \in Calls, Thinks(p)
  PROVE  Acts(p)
BY IsTyped DEF Thinks, Acts, Typed, ContainerMoves

LEMMA ClearsActs ==
  ASSUME TypeOK, NEW p \in Calls, Clears(p), Removes(p) \/ UNCHANGED ctr
  PROVE  Acts(p)
BY IsTyped DEF Clears, Removes, Acts, Typed, ContainerMoves

LEMMA RunsActs ==
  ASSUME TypeOK, NEW p \in Calls, Runs(p, RunPlaces), Fits(p),
         images \subseteq images', images' \subseteq Run!Images,
         disturbed' = disturbed \/ disturbed' = disturbed \cup {Target(p)},
         \/ UNCHANGED ctr
         \/ Removes(p)
         \/ ~Exists(Now(p)) /\ Makes(p) /\ run[p] \in {"create", "recreate"} /\ run'[p] = "start"
         \/ Exists(Now(p)) /\ Restates(Target(p), "running")
  PROVE  Acts(p)
<1>1. Typed' /\ UNCHANGED req
  BY IsTyped, RequestType DEF Runs, Typed, Removes, Makes, Restates
<1>2. ContainerMoves(p)
  BY DEF ContainerMoves, Removes, Makes, Restates, Runs
<1>3. \A n \in Names \ {Target(p)} : ctr'[n] = ctr[n]
  BY DEF Removes, Makes, Restates
<1>4. \A q \in Calls \ {p} : Kept(q)
  BY DEF Runs, Kept
<1> QED
  BY <1>1, <1>2, <1>3, <1>4 DEF Acts

LEMMA RunStepRuns ==
  ASSUME TypeOK, NEW p \in Calls, Fits(p), RunStep(p)
  PROVE  Runs(p, RunPlaces) /\ Acts(p)
<1> USE DEF RunPlaces, Run!Active, Run!Returned
<1>1. CASE Run!Inspect(p)
  BY <1>1, RunInspectMoves, RunsActs, RunType DEF Runs
<1>2. CASE Run!Remove(p)
  BY <1>2, RunRemoveMoves, RunsActs, RunType DEF Runs
<1>3. CASE Run!Create(p) \/ Run!Recreate(p)
  BY <1>3, RunCreateMoves, RunsActs, RunType DEF Runs
<1>4. CASE Run!Pull(p)
  BY <1>4, RunPullMoves, RunsActs, RunType DEF Runs
<1>5. CASE Run!Start(p)
  BY <1>5, RunStartMoves, RunsActs, RunType DEF Runs
<1> QED
  BY <1>1, <1>2, <1>3, <1>4, <1>5 DEF RunStep, Run!Step

LEMMA RunUnansweredRuns ==
  ASSUME TypeOK, NEW p \in Calls, Fits(p), RunUnanswered(p)
  PROVE  Runs(p, RunPlaces) /\ Acts(p)
BY RunUnansweredMoves, RunsActs, RunType DEF Runs, RunPlaces, Run!Active, Run!Returned

\* The steps of p that are thoughts only.
ThinkStep(p) ==
  \/ Begin(p) \/ ListByRole(p) \/ ListByAncestor(p) \/ InspectListed(p)
  \/ CheckNew(p) \/ Decide(p) \/ FindDoomed(p) \/ InspectLeftover(p) \/ Confirm(p)

LEMMA ThinkStepThinks ==
  ASSUME TypeOK, Configured, NEW p \in Calls, ThinkStep(p)
  PROVE  Thinks(p)
BY BeginMoves, ListByRoleMoves, ListByAncestorMoves, InspectListedMoves, CheckNewMoves, DecideMoves,
   FindDoomedMoves, InspectLeftoverMoves, ConfirmMoves DEF ThinkStep

LEMMA StepActs ==
  ASSUME BaseInv, NEW p \in Calls, Step(p) \/ Fault(p)
  PROVE  Acts(p)
<1>1. TypeOK /\ Configured /\ Fits(p) /\ Remembers(p)
  BY DEF BaseInv
<1>2. CASE ThinkStep(p)
  BY <1>1, <1>2, ThinkStepThinks, ThinksActs
<1>3. CASE Delete(p)
  BY <1>1, <1>3, DeleteMoves, ClearsActs
<1>4. CASE RemoveLeftover(p)
  BY <1>1, <1>4, RemoveLeftoverMoves, ClearsActs
<1>5. CASE Configure(p)
  BY <1>1, <1>5, ConfigureMoves, RequestType, IsTyped DEF Acts, Typed, ContainerMoves
<1>6. CASE RunStep(p)
  BY <1>1, <1>6, RunStepRuns
<1>7. CASE RunReturned(p)
  BY <1>1, <1>7, RunReturnedMoves, IsTyped DEF Acts, Typed, ContainerMoves
<1>8. CASE RunUnanswered(p)
  BY <1>1, <1>8, RunUnansweredRuns
<1>9. CASE Fail(p)
  BY <1>1, <1>9, FailMoves, RequestType, IsTyped DEF Acts, Typed, ContainerMoves
<1> QED
  BY <1>2, <1>3, <1>4, <1>5, <1>6, <1>7, <1>8, <1>9 DEF Step, Fault, ThinkStep

LEMMA InterruptType ==
  ASSUME TypeOK, NEW q, Interrupt(q)
  PROVE  alone' \in [Calls -> BOOLEAN]
<1>1. alone \in [Calls -> BOOLEAN]
  BY DEF TypeOK
<1>2. \A p \in Calls : (at'[p] \in InFlight => p = q /\ alone[p]) \in BOOLEAN
  OBVIOUS
<1> QED
  BY <1>2 DEF Interrupt

LEMMA TypedIsType ==
  ASSUME Typed', req \in [Calls -> Requests], UNCHANGED req, alone' \in [Calls -> BOOLEAN]
  PROVE  TypeOK'
BY DEF Typed, TypeOK, Run!TypeOK, Run!Container, Run!States, Container, States, RunPlaces, Places

LEMMA StepType ==
  ASSUME BaseInv, [Next]_vars
  PROVE  TypeOK'
<1>1. TypeOK /\ req \in [Calls -> Requests]
  BY DEF BaseInv, TypeOK
<1>2. ASSUME NEW p \in Calls, Step(p) \/ Fault(p), NEW q, Interrupt(q)
      PROVE  TypeOK'
  BY <1>1, <1>2, StepActs, InterruptType, TypedIsType DEF Acts
<1>3. ASSUME NEW n \in Names, Meddle(n), Interrupt(Daemon)
      PROVE  TypeOK'
  <2>1. Typed
    BY <1>1, IsTyped
  <2>2. Typed' /\ UNCHANGED req
    BY <1>1, <1>3, <2>1, MeddleMoves DEF Typed, Restates
  <2> QED
    BY <1>1, <1>3, <2>2, InterruptType, TypedIsType
<1>4. CASE UNCHANGED vars
  BY <1>1, <1>4 DEF vars, daemon, TypeOK, Run!TypeOK
<1> QED
  BY <1>2, <1>3, <1>4 DEF Next

\* Where a call's knowledge comes from.
Gathers(p) ==
  /\ \A r \in mem'[p].seen : r \in mem[p].seen \/ Faithful(r)
  /\ \/ mem'[p].found \in {NoRegistry, mem[p].found}
     \/ \E r \in mem[p].seen :
          /\ Stands(r) /\ r.name = Target(p)
          /\ mem'[p].found = [r EXCEPT !.env = EnvOf(ctr[r.name])]
  /\ mem'[p].existing \in {NoRegistry, mem[p].existing, mem[p].found}

LEMMA ReturnGathers ==
  ASSUME NEW p \in Calls, mem'[p] = Blank
  PROVE  Gathers(p)
BY BlankFields DEF Gathers

LEMMA SameGathers ==
  ASSUME NEW p \in Calls, mem'[p] = mem[p]
  PROVE  Gathers(p)
BY DEF Gathers

LEMMA StepGathers ==
  ASSUME BaseInv, NEW p \in Calls, Step(p) \/ Fault(p)
  PROVE  Gathers(p)
<1>1. TypeOK /\ Configured /\ Fits(p) /\ Remembers(p)
  BY DEF BaseInv
<1>2. CASE Begin(p)
  BY <1>1, <1>2, BeginMoves DEF Gathers
<1>3. CASE ListByRole(p)
  BY <1>1, <1>3, ListByRoleMoves DEF Gathers, Learns
<1>4. CASE ListByAncestor(p)
  BY <1>1, <1>4, ListByAncestorMoves DEF Gathers, Learns
<1>5. CASE InspectListed(p)
  <2>1. PICK r \in mem[p].seen :
          \/ /\ Stands(r) /\ at'[p] = at[p]
             /\ Learns(p, "inspect", mem[p].seen \ {r}, mem'[p].found, mem[p].existing, mem[p].victim)
             /\ mem'[p].found = IF r.name = Target(p) THEN [r EXCEPT !.env = EnvOf(ctr[r.name])]
                                                      ELSE mem[p].found
          \/ ~Stands(r) /\ Returns(p, {"failed"})
    BY <1>1, <1>5, InspectListedMoves
  <2> QED
    BY <2>1, ReturnGathers DEF Gathers, Learns, Returns
<1>6. CASE CheckNew(p)
  BY <1>1, <1>6, CheckNewMoves, ReturnGathers DEF Gathers, Learns, Returns
<1>7. CASE Decide(p)
  BY <1>1, <1>7, DecideMoves, ReturnGathers DEF Gathers, Learns, Returns
<1>8. CASE FindDoomed(p)
  BY <1>1, <1>8, FindDoomedMoves, ReturnGathers DEF Gathers, Learns, Returns
<1>9. CASE Delete(p)
  BY <1>1, <1>9, DeleteMoves, ReturnGathers, SameGathers DEF Returns
<1>10. CASE InspectLeftover(p)
  BY <1>1, <1>10, InspectLeftoverMoves, SameGathers DEF Gathers, Learns
<1>11. CASE RemoveLeftover(p)
  BY <1>1, <1>11, RemoveLeftoverMoves, ReturnGathers, SameGathers DEF Returns
<1>12. CASE Configure(p)
  BY <1>1, <1>12, ConfigureMoves, ReturnGathers, SameGathers DEF Returns
<1>13. CASE RunStep(p)
  BY <1>1, <1>13, RunStepRuns, SameGathers DEF Runs
<1>14. CASE RunReturned(p)
  BY <1>1, <1>14, RunReturnedMoves, ReturnGathers DEF Gathers, Learns, Returns
<1>15. CASE Confirm(p)
  BY <1>1, <1>15, ConfirmMoves, ReturnGathers DEF Returns
<1>16. CASE RunUnanswered(p)
  BY <1>1, <1>16, RunUnansweredRuns, SameGathers DEF Runs
<1>17. CASE Fail(p)
  BY <1>1, <1>17, FailMoves, ReturnGathers DEF Returns
<1> QED
  BY <1>2, <1>3, <1>4, <1>5, <1>6, <1>7, <1>8, <1>9, <1>10, <1>11, <1>12, <1>13, <1>14, <1>15, <1>16, <1>17
     DEF Step, Fault

LEMMA FaithfulIsReadable ==
  ASSUME TypeOK, Configured, NEW r, Faithful(r)
  PROVE  Readable(r)
<1>1. ctr[r.name].config \in Configs
  BY FaithfulFacts DEF Configured
<1>2. Describes(r, ctr[r.name].config)
  BY FaithfulFacts DEF Describes, IsRegistry
<1> QED
  BY <1>1, <1>2, FaithfulFacts DEF Readable

LEMMA InspectedIsReadable ==
  ASSUME NEW r \in Registries, NEW env, Readable(r), Found(r), NEW s, s = [r EXCEPT !.env = env]
  PROVE  Readable(s)
BY Inspected DEF Readable, Describes

LEMMA NothingIsReadable == Readable(NoRegistry)
BY DEF Readable, Found

\* A registry that stands was found.
LEMMA StandingIsFound ==
  ASSUME NEW p \in Calls, TypeOK, NEW r, Stands(r), r.name = Target(p)
  PROVE  Exists(Now(p)) /\ Now(p).by = r.by
BY DEF Stands, Now

LEMMA ReadableStays ==
  ASSUME BaseInv, NEW p \in Calls, Gathers(p), UNCHANGED req
  PROVE  Remembers(p)'
<1>1. TypeOK /\ Configured /\ Remembers(p)
  BY DEF BaseInv
<1>2. ASSUME NEW r \in mem'[p].seen
      PROVE  Found(r) /\ Readable(r)
  BY <1>1, <1>2, FaithfulIsReadable, FaithfulFacts DEF Gathers, Remembers
<1>3. Readable(mem'[p].found)
  <2>1. CASE mem'[p].found \in {NoRegistry, mem[p].found}
    BY <1>1, <2>1, NothingIsReadable DEF Remembers
  <2>2. ASSUME NEW r \in mem[p].seen, mem'[p].found = [r EXCEPT !.env = EnvOf(ctr[r.name])]
        PROVE  Readable(mem'[p].found)
    <3>1. r \in Registries /\ Readable(r) /\ Found(r)
      BY <1>1, MemoryType DEF Remembers
    <3> QED
      BY <2>2, <3>1, InspectedIsReadable
  <2> QED
    BY <2>1, <2>2 DEF Gathers
<1>4. Readable(mem'[p].existing)
  BY <1>1, NothingIsReadable DEF Gathers, Remembers
<1> QED
  BY <1>2, <1>3, <1>4 DEF Remembers, Readable, Found, NoRegistry, Describes

\* The kinds of place, for the moves of a call.
MakingPlaces == {"check", "apply", "clear", "clearrm", "configure", "run", "confirm"}

LEMMA AppliesStays ==
  ASSUME NEW p \in Calls, UNCHANGED req
  PROVE  /\ Applies(p)' <=> Applies(p)
         /\ Target(p)' = Target(p)
         /\ req'[p] = req[p]
BY DEF Applies, Target

\* A call that is in dctr.Run neither before nor after.
LEMMA FitsOutside ==
  ASSUME NEW p \in Calls, Fits(p), UNCHANGED req, run'[p] = run[p], arg'[p] = arg[p],
         at[p] # "run", at'[p] # "run",
         at'[p] \in {"idle"} \cup Over => mem'[p] = Blank,
         at'[p] \in MakingPlaces => Applies(p),
         at'[p] = "check" => req[p].kind = "create"
  PROVE  Fits(p)'
BY AppliesStays DEF Fits, MakingPlaces, Blank, NoRegistry, Gone, Over

LEMMA StepFits ==
  ASSUME BaseInv, NEW p \in Calls, Step(p) \/ Fault(p)
  PROVE  Fits(p)'
<1>1. TypeOK /\ Configured /\ Fits(p) /\ Remembers(p)
  BY DEF BaseInv
<1>2. UNCHANGED req
  BY StepActs DEF Acts
<1>3. req[p].kind \in Kinds
  BY <1>1, RequestType
<1> USE DEF MakingPlaces, Over, Getting
<1>4. CASE Begin(p)
  <2>1. Thinks(p) /\ at[p] = "idle" /\ at'[p] \in {"check", "delete", "apply"}
        /\ (at'[p] = "check" => req[p].kind = "create") /\ (at'[p] = "apply" => req[p].kind # "delete")
    BY <1>1, <1>4, BeginMoves
  <2> QED
    BY <1>1, <1>2, <2>1, FitsOutside DEF Thinks, Applies
<1>5. CASE ListByRole(p)
  BY <1>1, <1>2, <1>5, ListByRoleMoves, FitsOutside DEF Thinks, Fits
<1>6. CASE ListByAncestor(p)
  BY <1>1, <1>2, <1>6, ListByAncestorMoves, FitsOutside DEF Thinks, Fits
<1>7. CASE InspectListed(p)
  BY <1>1, <1>2, <1>7, InspectListedMoves, FitsOutside DEF Thinks, Fits, Returns
<1>8. CASE CheckNew(p)
  BY <1>1, <1>2, <1>8, CheckNewMoves, FitsOutside DEF Thinks, Fits, Returns, Got
<1>9. CASE Decide(p)
  BY <1>1, <1>2, <1>9, DecideMoves, FitsOutside DEF Thinks, Fits, Returns, Got
<1>10. CASE FindDoomed(p)
  BY <1>1, <1>2, <1>10, FindDoomedMoves, FitsOutside DEF Thinks, Fits, Returns, Got
<1>11. CASE Delete(p)
  <2>1. run' = run /\ arg' = arg /\ at[p] = "rm" /\ ((at'[p] = "clear" /\ Applies(p)) \/ Returns(p, {"done", "failed"}))
    BY <1>1, <1>11, DeleteMoves DEF Clears, Returns
  <2> QED
    BY <1>1, <1>2, <2>1, FitsOutside DEF Returns
<1>12. CASE InspectLeftover(p)
  BY <1>1, <1>2, <1>12, InspectLeftoverMoves, FitsOutside DEF Thinks, Fits
<1>13. CASE RemoveLeftover(p)
  <2>1. run' = run /\ arg' = arg /\ at[p] = "clearrm" /\ (at'[p] = "configure" \/ Returns(p, {"failed"}))
    BY <1>1, <1>13, RemoveLeftoverMoves DEF Clears, Returns
  <2> QED
    BY <1>1, <1>2, <2>1, FitsOutside DEF Fits, Returns
<1>14. CASE Configure(p)
  <2>1. at[p] = "configure" /\ run[p] = "idle" /\ Applies(p)
    BY <1>1, <1>14, ConfigureMoves DEF Fits
  <2>2. CASE at'[p] = "run"
    <3>1. run'[p] = "inspect" /\ arg'[p].name = Target(p)
      BY <1>1, <1>14, <2>2, ConfigureMoves DEF Returns
    <3> QED
      BY <1>2, <2>1, <2>2, <3>1, AppliesStays DEF Fits, Run!Active
  <2>3. CASE at'[p] # "run"
    <3>1. Returns(p, {"failed"}) /\ run'[p] = run[p] /\ arg'[p] = arg[p]
      BY <1>1, <1>14, <2>3, ConfigureMoves
    <3> QED
      BY <1>1, <1>2, <2>1, <3>1, FitsOutside DEF Returns
  <2> QED
    BY <2>2, <2>3
<1>15. CASE RunStep(p) \/ RunUnanswered(p)
  <2>1. Runs(p, RunPlaces)
    BY <1>1, <1>15, RunStepRuns, RunUnansweredRuns
  <2>2. run'[p] # "idle"
    <3>1. CASE RunStep(p)
      <4>1. Run!Inspect(p) \/ Run!Remove(p) \/ Run!Create(p) \/ Run!Pull(p) \/ Run!Recreate(p) \/ Run!Start(p)
        BY <3>1 DEF RunStep, Run!Step
      <4> QED
        BY <1>1, <3>1, <4>1, RunInspectMoves, RunRemoveMoves, RunCreateMoves, RunPullMoves, RunStartMoves
           DEF Runs
    <3>2. CASE RunUnanswered(p)
      BY <1>1, <3>2, RunUnansweredMoves DEF Runs
    <3> QED
      BY <1>15, <3>1, <3>2
  <2>3. at'[p] = "run" /\ run'[p] \in Run!Active \cup Run!Returned /\ arg'[p] = arg[p] /\ Applies(p)
        /\ at[p] = "run"
    BY <1>1, <2>1, <2>2 DEF Runs, RunPlaces, Fits
  <2> QED
    BY <1>1, <1>2, <2>3, AppliesStays DEF Fits, Run!Active, Run!Returned
<1>16. CASE RunReturned(p)
  <2>1. run'[p] = "idle" /\ arg'[p].name = Target(p) /\ Applies(p)
        /\ (at'[p] = "confirm" \/ Returns(p, {"failed"}))
    BY <1>1, <1>16, RunReturnedMoves DEF Fits
  <2>2. at'[p] \in {"confirm", "failed"} /\ (at'[p] \in {"idle"} \cup Over => mem'[p] = Blank)
    BY <2>1 DEF Returns
  <2> QED
    BY <1>2, <2>1, <2>2, AppliesStays DEF Fits, Blank, NoRegistry, Gone
<1>17. CASE Confirm(p)
  BY <1>1, <1>2, <1>17, ConfirmMoves, FitsOutside DEF Thinks, Fits, Returns, Got
<1>18. CASE Fail(p)
  <2>1. run'[p] = "idle" /\ arg'[p].name = Target(p) /\ at'[p] = "broken" /\ mem'[p] = Blank
    BY <1>1, <1>18, FailMoves DEF Returns
  <2> QED
    BY <1>2, <2>1, AppliesStays DEF Fits, Blank, NoRegistry, Gone
<1> QED
  BY <1>4, <1>5, <1>6, <1>7, <1>8, <1>9, <1>10, <1>11, <1>12, <1>13, <1>14, <1>15, <1>16, <1>17, <1>18
     DEF Step, Fault

\* What only changes for others.
LEMMA KeptStays ==
  ASSUME BaseInv, NEW q \in Calls, Kept(q), UNCHANGED req
  PROVE  Fits(q)' /\ Remembers(q)'
<1>1. Fits(q) /\ Remembers(q)
  BY DEF BaseInv
<1>2. Fits(q)'
  BY <1>1, AppliesStays DEF Kept, Fits, Blank, NoRegistry, Gone, Over, Run!Active, Run!Returned
<1>3. Remembers(q)'
  BY <1>1 DEF Kept, Remembers, Readable, Found, NoRegistry, Describes
<1> QED
  BY <1>2, <1>3

LEMMA ConfiguredStays ==
  ASSUME BaseInv, NEW p \in Calls, Acts(p)
  PROVE  Configured'
<1>1. TypeOK /\ Configured
  BY DEF BaseInv
<1>2. Target(p) \in Names
  BY <1>1, RequestType
<1>3. Exists(ctr'[Target(p)]) => ctr'[Target(p)].config \in Configs
  <2>1. arg[p].config \in Configs
    BY <1>1, RunType
  <2>2. CASE ctr'[Target(p)] = Run!NewContainer(p)
    BY <1>1, <2>1, <2>2, NewContainerFields
  <2>3. CASE Exists(Now(p)) /\ ctr'[Target(p)].config = ctr[Target(p)].config
    BY <1>1, <1>2, <2>3 DEF Configured, Now
  <2> QED
    BY <1>1, <1>2, <2>2, <2>3, GoneFields DEF Acts, ContainerMoves, Configured
<1>4. ASSUME NEW n \in Names
      PROVE  Exists(ctr'[n]) => ctr'[n].config \in Configs
  BY <1>1, <1>3 DEF Acts, Configured
<1> QED
  BY <1>4 DEF Configured, Exists

LEMMA BaseStep ==
  ASSUME BaseInv, [Next]_vars
  PROVE  BaseInv'
<1>1. TypeOK /\ TypeOK' /\ Configured
  BY StepType DEF BaseInv
<1>2. ASSUME NEW p \in Calls, Step(p) \/ Fault(p)
      PROVE  BaseInv'
  <2>1. Acts(p) /\ Gathers(p)
    BY <1>2, StepActs, StepGathers
  <2>2. Configured'
    BY <2>1, ConfiguredStays
  <2>3. Fits(p)' /\ Remembers(p)'
    BY <1>2, <2>1, StepFits, ReadableStays DEF Acts
  <2>4. ASSUME NEW q \in Calls
        PROVE  Fits(q)' /\ Remembers(q)'
    BY <2>1, <2>3, KeptStays DEF Acts
  <2> QED
    BY <1>1, <2>2, <2>4 DEF BaseInv
<1>3. ASSUME NEW n \in Names, Meddle(n)
      PROVE  BaseInv'
  <2>1. UNCHANGED <<images, run, arg, req, at, mem>> /\ Exists(ctr[n])
        /\ (Restates(n, "running") \/ Restates(n, "exited"))
    BY <1>1, <1>3, MeddleMoves
  <2>2. Configured'
    BY <1>1, <2>1 DEF Restates, Configured, Exists
  <2>3. ASSUME NEW q \in Calls
        PROVE  Fits(q)' /\ Remembers(q)'
    BY <2>1, KeptStays DEF Kept
  <2> QED
    BY <1>1, <2>2, <2>3 DEF BaseInv
<1>4. CASE UNCHANGED vars
  <2>1. Configured'
    BY <1>1, <1>4 DEF vars, daemon, Configured, Exists
  <2>2. ASSUME NEW q \in Calls
        PROVE  Fits(q)' /\ Remembers(q)'
    BY <1>4, KeptStays DEF Kept, vars, daemon
  <2> QED
    BY <1>1, <2>1, <2>2 DEF BaseInv
<1> QED
  BY <1>2, <1>3, <1>4 DEF Next

LEMMA InitMemory ==
  ASSUME Init, NEW p \in Calls
  PROVE  at[p] = "idle" /\ run[p] = "idle" /\ mem[p] = Blank /\ arg[p] = NoArg(p) /\ alone[p] = TRUE
BY DEF Init

LEMMA InitBase == Init => BaseInv
<1> SUFFICES ASSUME Init
             PROVE  BaseInv
  OBVIOUS
<1>1. ctr \in [Names -> Container] /\ Configured
  BY RegistryAssumption DEF Init, Configured
<1>2. req \in [Calls -> Requests] /\ \A p \in Calls : Target(p) \in Names
  BY RegistryAssumption DEF Init, Target
<1>3. arg \in [Calls -> [name: Names, config: Configs]]
  BY <1>2, AnyConfigType DEF Init, NoArg
<1>4. mem \in [Calls -> Memories]
  BY BlankFields DEF Init
<1>5. Typed /\ alone \in [Calls -> BOOLEAN]
  BY <1>1, <1>3, <1>4 DEF Typed, Init, Run!Images, RunPlaces, Places
<1>6. TypeOK
  BY <1>2, <1>5 DEF Typed, TypeOK, Run!TypeOK, Run!Container, Run!States, Container, States, RunPlaces, Places
<1>7. ASSUME NEW p \in Calls
      PROVE  Fits(p) /\ Remembers(p)
  <2>1. Fits(p)
    <3>1. NoArg(p).name = Target(p)
      BY DEF NoArg
    <3> QED
      BY <3>1, InitMemory DEF Fits
  <2>2. Remembers(p)
    BY InitMemory, BlankFields, NothingIsReadable DEF Remembers
  <2> QED
    BY <2>1, <2>2
<1> QED
  BY <1>1, <1>6, <1>7 DEF BaseInv

LEMMA BaseAlways == Spec => []BaseInv
BY InitBase, BaseStep, PTL DEF Spec

(***************************************************************************)
(* Every variable has its type: what a call remembers are registries that   *)
(* there may be, what it removes is the container of a call or an old one,   *)
(* and what it has made is one of the configurations.                      *)
(***************************************************************************)
THEOREM TypeCorrect == Spec => []TypeOK
<1>1. BaseInv => TypeOK
  BY DEF BaseInv
<1> QED
  BY <1>1, BaseAlways, PTL

-------------------------------------------------------------------------------
(***************************************************************************)
(* What the controller compares and what it makes.                         *)
(***************************************************************************)

LEMMA OverrideTwice ==
  ASSUME NEW old, NEW new
  PROVE  Override(old, Override(old, new)) = Override(old, new)
<1> DEFINE both == Override(old, new)
<1>1. ASSUME NEW pair \in old
      PROVE  pair[1] \in Keys(both)
  <2>1. CASE pair[1] \in Keys(new)
    BY <2>1 DEF Override, Keys
  <2>2. CASE pair[1] \notin Keys(new)
    BY <2>2 DEF Override, Keys
  <2> QED
    BY <2>1, <2>2
<1>2. {pair \in old : pair[1] \notin Keys(both)} = {}
  BY <1>1
<1>3. Override(old, both) = both \cup {pair \in old : pair[1] \notin Keys(both)}
  BY DEF Override
<1> HIDE DEF both
<1>4. Override(old, both) = both
  BY <1>2, <1>3
<1> QED
  BY <1>4 DEF both

LEMMA ConfigFields ==
  ASSUME NEW old, NEW spec, NEW port
  PROVE  /\ ConfigFor(old, spec, port).image = ImageConfig(old, spec)
         /\ ConfigFor(old, spec, port).port = port
         /\ ConfigFor(old, spec, port).addr = AddrConfig(old, spec)
         /\ ConfigFor(old, spec, port).labels = LabelConfigs(old, spec)
         /\ ConfigFor(old, spec, port).env = DesiredEnv(spec)
BY DEF ConfigFor

LEMMA LabelsSet ==
  ASSUME NEW old, NEW spec
  PROVE  /\ {l \in spec.labels : l[1] \notin OwnKeys} \subseteq LabelConfigs(old, spec)
         /\ RoleLabel \in LabelConfigs(old, spec)
<1>1. RoleLabel[1] # DesktopKey
  BY DEF RoleLabel, DesktopKey
<1>2. Keys({RoleLabel}) = {RoleLabel[1]}
  BY DEF Keys
<1>3. ASSUME NEW l \in spec.labels, l[1] \notin OwnKeys
      PROVE  l \in LabelConfigs(old, spec)
  <2>1. l \in Override(old.labels, spec.labels)
    BY DEF Override
  <2>2. l \in Override(Override(old.labels, spec.labels), {RoleLabel})
    BY <1>2, <1>3, <2>1 DEF OwnKeys, Override
  <2> QED
    BY <1>3, <2>2 DEF LabelConfigs, OwnKeys
<1>4. RoleLabel \in Override(Override(old.labels, spec.labels), {RoleLabel})
  BY DEF Override
<1> QED
  BY <1>1, <1>3, <1>4 DEF LabelConfigs

\* What is configured is what the spec asks for.
LEMMA ConfiguredFulfils ==
  ASSUME NEW old, NEW spec, NEW port \in PortConfigs(old, spec)
  PROVE  /\ Fulfils(ConfigFor(old, spec, port), spec)
         /\ RoleLabel \in ConfigFor(old, spec, port).labels
<1>1. spec.port # 0 => port = spec.port
  BY PortChosen
<1>2. spec.image # Unset => ImageConfig(old, spec) = spec.image
  BY DEF ImageConfig
<1> QED
  BY <1>1, <1>2, ConfigFields, LabelsSet DEF Fulfils

\* What Apply takes to be up to date is what the spec asks for.
LEMMA UpToDateFulfils ==
  ASSUME NEW old, NEW config, NEW spec, ~NeedsDelete(old, spec),
         config.image # Unset,
         old.image = config.image, old.labels = config.labels,
         old.state = "running" => old.port = config.port,
         old.env = Override(ImageEnv[config.image], config.env)
  PROVE  Fulfils(config, spec)
<1>1. old.state = "running" /\ old.port = config.port
  BY DEF NeedsDelete, Died
<1>2. spec.port # 0 /\ config.port # 0 => config.port = spec.port
  BY <1>1 DEF NeedsDelete, PortDiffers
<1>3. spec.image # Unset => config.image = spec.image
  BY DEF NeedsDelete, ImageDiffers
<1>4. {l \in spec.labels : l[1] \notin OwnKeys} \subseteq config.labels
  BY DEF NeedsDelete, LabelMissing
<1>5. DesiredEnv(spec) = Override(ImageEnv[config.image], config.env)
  BY DEF NeedsDelete, EnvDiffers
<1>6. Override(ImageEnv[config.image], config.env) = Override(ImageEnv[config.image], DesiredEnv(spec))
  BY <1>5, OverrideTwice
<1> QED
  BY <1>2, <1>3, <1>4, <1>6 DEF Fulfils

-------------------------------------------------------------------------------
(***************************************************************************)
(* Any number of calls at once: whatever stands is as its maker was asked.   *)
(***************************************************************************)

\* A step makes no container old, and leaves an old one its configuration.
OldStays == \A n \in Names : Old(n)' => Old(n) /\ ctr'[n].config = ctr[n].config

LEMMA ActsOldStays ==
  ASSUME BaseInv, NEW p \in Calls, Acts(p)
  PROVE  OldStays
<1>1. TypeOK /\ Target(p) \in Names
  BY RequestType DEF BaseInv
<1>2. Run!NewContainer(p).by # Daemon
  BY <1>1, NewContainerFields, DockerAssumption
<1>3. Old(Target(p))' => Old(Target(p)) /\ ctr'[Target(p)].config = ctr[Target(p)].config
  <2>1. PICK n \in Names : n = Target(p)
    BY <1>1
  <2>2. Target(p)' = n
    BY <2>1 DEF Acts, Target
  <2>3. ctr'[n] = ctr[n] \/ ctr'[n] = Gone \/ ctr'[n].by # Daemon
        \/ (Exists(ctr[n]) /\ ctr'[n].by = ctr[n].by /\ ctr'[n].config = ctr[n].config)
    BY <1>2, <2>1 DEF Acts, ContainerMoves, Now
  <2>4. Old(n)' => Old(n) /\ ctr'[n].config = ctr[n].config
    BY <2>3, GoneFields DEF Old, Exists
  <2> QED
    BY <2>1, <2>2, <2>4
<1>4. ASSUME NEW n \in Names, n # Target(p)
      PROVE  Old(n)' => Old(n) /\ ctr'[n].config = ctr[n].config
  BY <1>4 DEF Acts, Old, Exists
<1>5. ASSUME NEW n \in Names, n = Target(p)
      PROVE  Old(n)' => Old(n) /\ ctr'[n].config = ctr[n].config
  <2>1. Target(p)' = n
    BY <1>5 DEF Acts, Target
  <2> QED
    BY <1>3, <1>5, <2>1 DEF Old, Exists
<1> QED
  BY <1>4, <1>5 DEF OldStays

LEMMA MeddleOldStays ==
  ASSUME BaseInv, NEW n \in Names, Meddle(n)
  PROVE  OldStays
<1>1. /\ Exists(ctr[n]) /\ ctr'[n].by = ctr[n].by /\ ctr'[n].config = ctr[n].config
      /\ \A m \in Names \ {n} : ctr'[m] = ctr[m]
  BY MeddleMoves DEF BaseInv, Restates
<1>2. ASSUME NEW m \in Names, m = n
      PROVE  Old(m)' => Old(m) /\ ctr'[m].config = ctr[m].config
  BY <1>1, <1>2 DEF Old, Exists
<1>3. ASSUME NEW m \in Names, m # n
      PROVE  Old(m)' => Old(m) /\ ctr'[m].config = ctr[m].config
  BY <1>1, <1>3 DEF Old, Exists
<1> QED
  BY <1>2, <1>3 DEF OldStays

\* Where a step takes a call.
LEMMA StepPlaces ==
  ASSUME BaseInv, NEW p \in Calls, Step(p) \/ Fault(p)
  PROVE  /\ at'[p] # "idle"
         /\ at'[p] = "done" => Decide(p) \/ Confirm(p) \/ ~Applies(p)
         /\ at'[p] = "run" => Configure(p) \/ (at[p] = "run" /\ arg'[p] = arg[p])
         /\ at'[p] \in {"configure", "run", "confirm"} =>
              at[p] \in {"configure", "run", "confirm"} \/ ~Exists(ctr'[Target(p)])
<1>1. TypeOK /\ Configured /\ Fits(p) /\ Remembers(p)
  BY DEF BaseInv
<1>2. req[p].kind \in Kinds
  BY <1>1, RequestType
<1> USE DEF Getting, Returns, Thinks, Got
<1>4. CASE Begin(p)
  BY <1>1, <1>4, BeginMoves
<1>5. CASE ListByRole(p)
  BY <1>1, <1>5, ListByRoleMoves
<1>6. CASE ListByAncestor(p)
  BY <1>1, <1>6, ListByAncestorMoves
<1>7. CASE InspectListed(p)
  BY <1>1, <1>7, InspectListedMoves
<1>8. CASE CheckNew(p)
  BY <1>1, <1>8, CheckNewMoves
<1>9. CASE Decide(p)
  BY <1>1, <1>9, DecideMoves
<1>10. CASE FindDoomed(p)
  BY <1>1, <1>10, FindDoomedMoves
<1>11. CASE Delete(p)
  BY <1>1, <1>11, DeleteMoves
<1>12. CASE InspectLeftover(p)
  BY <1>1, <1>12, InspectLeftoverMoves DEF Now
<1>13. CASE RemoveLeftover(p)
  BY <1>1, <1>13, RemoveLeftoverMoves, GoneFields DEF Removes
<1>14. CASE Configure(p)
  BY <1>1, <1>14, ConfigureMoves
<1>15. CASE RunStep(p) \/ RunUnanswered(p)
  <2>1. Runs(p, RunPlaces)
    BY <1>1, <1>15, RunStepRuns, RunUnansweredRuns
  <2> QED
    BY <2>1 DEF Runs
<1>16. CASE RunReturned(p)
  BY <1>1, <1>16, RunReturnedMoves
<1>17. CASE Confirm(p)
  BY <1>1, <1>17, ConfirmMoves
<1>18. CASE Fail(p)
  BY <1>1, <1>18, FailMoves
<1> QED
  BY <1>4, <1>5, <1>6, <1>7, <1>8, <1>9, <1>10, <1>11, <1>12, <1>13, <1>14, <1>15, <1>16, <1>17, <1>18
     DEF Step, Fault

LEMMA TrueStays ==
  ASSUME OldStays, NEW r, TrueOfOld(r), Readable(r)
  PROVE  TrueOfOld(r)'
<1>1. CASE Found(r) /\ Old(r.name)'
  <2>1. r.name \in Names
    BY <1>1 DEF Readable
  <2>2. Old(r.name) /\ ctr'[r.name].config = ctr[r.name].config
    BY <1>1, <2>1 DEF OldStays
  <2> QED
    BY <1>1, <2>2 DEF TrueOfOld, Found, NoRegistry
<1> QED
  BY <1>1 DEF TrueOfOld, Found, NoRegistry

LEMMA FaithfulIsTrue ==
  ASSUME TypeOK, Configured, NEW r, Faithful(r)
  PROVE  TrueOfOld(r)
BY FaithfulFacts DEF TrueOfOld, Running

\* The registry a call has just inspected.
LEMMA InspectedIsTrue ==
  ASSUME TypeOK, NEW p \in Calls, NEW r \in Registries, TrueOfOld(r), Found(r), Stands(r), r.name = Target(p),
         NEW s, s = [r EXCEPT !.env = EnvOf(ctr[r.name])]
  PROVE  /\ TrueOfOld(s)
         /\ s.name = Target(p) /\ s.env = EnvOf(Now(p))
<1>1. s.name = r.name /\ s.image = r.image /\ s.labels = r.labels /\ s.port = r.port /\ s.state = r.state
      /\ s.env = EnvOf(Now(p))
  BY Inspected DEF Now
<1> QED
  BY <1>1 DEF TrueOfOld

LEMMA StepTrue ==
  ASSUME MatchInv, NEW p \in Calls, Gathers(p), Remembers(p)', OldStays, UNCHANGED req
  PROVE  KnowsOld(p)' /\ FoundOld(p)'
<1>1. TypeOK /\ Configured /\ Remembers(p) /\ BaseInv
  BY DEF MatchInv, BaseInv
<1>2. /\ \A r \in mem[p].seen : TrueOfOld(r)
      /\ TrueOfOld(mem[p].found) /\ FoundOld(p)
  BY DEF MatchInv, KnowsOld
<1>3. ASSUME NEW r, r \in mem'[p].seen
      PROVE  TrueOfOld(r)'
  <2>1. TrueOfOld(r)
    BY <1>1, <1>2, <1>3, FaithfulIsTrue DEF Gathers
  <2>2. Readable(r)
    BY <1>1, <1>3, FaithfulIsReadable DEF Gathers, Remembers
  <2> QED
    BY <2>1, <2>2, TrueStays
<1>4. PICK found : found = mem'[p].found
  OBVIOUS
<1>5. PICK n \in Names : n = Target(p)
  BY <1>1, RequestType
<1>6. Target(p)' = n
  BY <1>5 DEF Target
<1>7. TrueOfOld(found) /\ Readable(found)
      /\ (Found(found) => found.name = n /\ (Old(n) => found.env = EnvOf(ctr[n])))
  <2>1. CASE found \in {NoRegistry, mem[p].found}
    BY <1>1, <1>2, <1>5, <2>1, NothingIsReadable DEF TrueOfOld, FoundOld, Found, Remembers
  <2>2. ASSUME NEW r \in mem[p].seen, Stands(r), r.name = Target(p), found = [r EXCEPT !.env = EnvOf(ctr[r.name])]
        PROVE  /\ TrueOfOld(found) /\ Readable(found)
               /\ found.name = n /\ found.env = EnvOf(ctr[n])
    <3>1. r \in Registries /\ Readable(r) /\ Found(r) /\ TrueOfOld(r)
      BY <1>1, <1>2, <2>2, MemoryType DEF Remembers
    <3>2. Readable(found)
      BY <2>2, <3>1, InspectedIsReadable
    <3>3. TrueOfOld(found) /\ found.name = Target(p) /\ found.env = EnvOf(Now(p))
      BY <1>1, <2>2, <3>1, InspectedIsTrue
    <3> QED
      BY <1>5, <3>2, <3>3 DEF Now
  <2> QED
    BY <1>4, <2>1, <2>2 DEF Gathers
<1>8. TrueOfOld(found)'
  BY <1>7, TrueStays
<1>9. FoundOld(p)'
  <2>1. Old(n)' => Old(n) /\ ctr'[n].config = ctr[n].config
    BY DEF OldStays
  <2>2. ctr'[n].config = ctr[n].config => EnvOf(ctr'[n]) = EnvOf(ctr[n])
    BY DEF EnvOf
  <2>3. Found(found) => found.name = n /\ (Old(n)' => found.env = EnvOf(ctr'[n]))
    BY <1>7, <2>1, <2>2
  <2> QED
    BY <1>4, <1>6, <2>3 DEF FoundOld, Found, NoRegistry, EnvOf
<1> QED
  <2>1. KnowsOld(p)'
    BY <1>3, <1>4, <1>8 DEF KnowsOld, TrueOfOld, Found, NoRegistry
  <2> QED
    BY <1>9, <2>1

LEMMA StepOldIsGone ==
  ASSUME MatchInv, NEW p \in Calls, Step(p) \/ Fault(p), OldStays
  PROVE  OldIsGone(p)'
<1>1. BaseInv /\ OldIsGone(p) /\ TypeOK
  BY DEF MatchInv, BaseInv
<1>2. PICK n \in Names : n = Target(p)
  BY <1>1, RequestType
<1>3. Target(p)' = n
  BY <1>1, <1>2, StepActs DEF Acts, Target
<1>4. at'[p] \in {"configure", "run", "confirm"} => at[p] \in {"configure", "run", "confirm"} \/ ~Exists(ctr'[n])
  BY <1>1, <1>2, StepPlaces
<1>5. Old(n)' => Old(n) /\ Exists(ctr'[n])
  BY DEF OldStays, Old, Exists
<1> QED
  BY <1>1, <1>2, <1>3, <1>4, <1>5 DEF OldIsGone, Old, Exists

LEMMA StepAboutToMake ==
  ASSUME MatchInv, NEW p \in Calls, Step(p) \/ Fault(p)
  PROVE  AboutToMake(p)'
<1>1. BaseInv /\ AboutToMake(p) /\ TypeOK /\ Fits(p) /\ Remembers(p)
  BY DEF MatchInv, BaseInv
<1>2. at'[p] = "run" => Fulfils(arg'[p].config, req[p].spec)
  <2>1. CASE at[p] = "run" /\ arg'[p] = arg[p]
    BY <1>1, <2>1 DEF AboutToMake
  <2>2. CASE Configure(p) /\ at'[p] = "run"
    <3>1. PICK port \in PortConfigs(mem[p].existing, req[p].spec) :
            arg'[p].config = ConfigFor(mem[p].existing, req[p].spec, port)
      BY <1>1, <2>2, ConfigureMoves DEF Returns
    <3> QED
      BY <3>1, ConfiguredFulfils
  <2> QED
    BY <1>1, <2>1, <2>2, StepPlaces
<1>3. req' = req
  BY <1>1, StepActs DEF Acts
<1>4. PICK config : config = arg'[p].config
  OBVIOUS
<1>5. PICK spec : spec = req[p].spec
  OBVIOUS
<1>6. at'[p] = "run" => Fulfils(config, spec)
  BY <1>2, <1>4, <1>5
<1> QED
  BY <1>3, <1>4, <1>5, <1>6 DEF AboutToMake, Fulfils, DesiredEnv, Override, Keys, OwnKeys, Unset

LEMMA StepOldMatches ==
  ASSUME MatchInv, NEW p \in Calls, Step(p) \/ Fault(p), OldStays
  PROVE  OldMatches(p)'
<1>1. BaseInv /\ OldIsGone(p) /\ TypeOK /\ Configured /\ FoundOld(p) /\ TrueOfOld(mem[p].found)
  BY DEF MatchInv, BaseInv, KnowsOld
<1>2. PICK n \in Names : n = Target(p)
  BY <1>1, RequestType
<1>3. Target(p)' = n /\ req' = req
  BY <1>1, <1>2, StepActs DEF Acts, Target
<1>4. ASSUME at'[p] = "done", Applies(p), Old(n)'
      PROVE  Fulfils(ctr'[n].config, req[p].spec)
  <2>1. Old(n) /\ Old(Target(p)) /\ ctr'[n].config = ctr[n].config
    BY <1>2, <1>4 DEF OldStays
  <2>2. CASE Decide(p)
    <3>1. Found(mem[p].found) /\ ~NeedsDelete(mem[p].found, req[p].spec)
      BY <1>1, <1>4, <2>2, DecideMoves
    <3>2. mem[p].found.name = n /\ mem[p].found.env = EnvOf(ctr[n])
      BY <1>1, <1>2, <2>1, <3>1 DEF FoundOld
    <3>3. mem[p].found.image = ctr[n].config.image /\ mem[p].found.labels = ctr[n].config.labels
          /\ (mem[p].found.state = "running" => mem[p].found.port = ctr[n].config.port)
      BY <1>1, <2>1, <3>1, <3>2 DEF TrueOfOld
    <3>4. ctr[n].config.image # Unset
      BY <1>1, <2>1, ConfigsAssumption DEF Configured, Old
    <3> QED
      BY <2>1, <3>1, <3>2, <3>3, <3>4, UpToDateFulfils DEF EnvOf
  <2>3. CASE Confirm(p)
    BY <1>1, <2>1, <2>3 DEF OldIsGone, Confirm, Got
  <2> QED
    BY <1>1, <1>4, <2>2, <2>3, StepPlaces
<1>5. PICK spec : spec = req[p].spec
  OBVIOUS
<1>6. at'[p] = "done" /\ Applies(p) /\ Old(n)' => Fulfils(ctr'[n].config, spec)
  BY <1>4, <1>5
<1> QED
  BY <1>3, <1>5, <1>6, AppliesStays DEF OldMatches, Fulfils, DesiredEnv, Override, Keys, OwnKeys, Unset

\* What only changes for others stays true of the old containers.
LEMMA KeptMatch ==
  ASSUME MatchInv, NEW q \in Calls, Kept(q), OldStays, UNCHANGED req
  PROVE  AboutToMake(q)' /\ OldIsGone(q)' /\ KnowsOld(q)' /\ FoundOld(q)' /\ OldMatches(q)'
<1>1. TypeOK /\ Remembers(q) /\ AboutToMake(q) /\ OldIsGone(q) /\ KnowsOld(q) /\ FoundOld(q) /\ OldMatches(q)
  BY DEF MatchInv, BaseInv
<1>2. PICK n \in Names : n = Target(q)
  BY <1>1, RequestType
<1>3. Target(q)' = n /\ (Applies(q)' <=> Applies(q)) /\ req'[q] = req[q]
  BY <1>2, AppliesStays
<1>4. PICK spec : spec = req[q].spec
  OBVIOUS
<1>5. PICK known : known = mem[q]
  OBVIOUS
<1>6. known = mem'[q] /\ at'[q] = at[q] /\ arg'[q] = arg[q]
  BY <1>5 DEF Kept
<1>7. Old(n)' => Old(n) /\ ctr'[n].config = ctr[n].config
  BY DEF OldStays
<1>8. AboutToMake(q)'
  BY <1>1, <1>3, <1>6 DEF AboutToMake, Fulfils, DesiredEnv, Override, Keys, OwnKeys, Unset
<1>9. OldIsGone(q)'
  BY <1>1, <1>2, <1>3, <1>6, <1>7 DEF OldIsGone
<1>10. KnowsOld(q)'
  <2>1. ASSUME NEW r \in known.seen
        PROVE  TrueOfOld(r)'
    BY <1>1, <1>5, <2>1, TrueStays DEF KnowsOld, Remembers
  <2>2. TrueOfOld(known.found)'
    BY <1>1, <1>5, TrueStays DEF KnowsOld, Remembers
  <2> QED
    BY <1>6, <2>1, <2>2 DEF KnowsOld, TrueOfOld, Found, NoRegistry
<1>11. FoundOld(q)'
  <2>1. Found(known.found) => known.found.name = n /\ (Old(n)' => known.found.env = EnvOf(ctr'[n]))
    BY <1>1, <1>2, <1>5, <1>7 DEF FoundOld, EnvOf
  <2> QED
    BY <1>3, <1>6, <2>1 DEF FoundOld, Found, NoRegistry, EnvOf
<1>12. OldMatches(q)'
  <2>1. at'[q] = "done" /\ Applies(q) /\ Old(n)' => Fulfils(ctr'[n].config, spec)
    BY <1>1, <1>2, <1>4, <1>6, <1>7 DEF OldMatches
  <2> QED
    BY <1>3, <1>4, <2>1 DEF OldMatches, Fulfils, DesiredEnv, Override, Keys, OwnKeys, Unset
<1> QED
  BY <1>8, <1>9, <1>10, <1>11, <1>12

\* A container keeps its maker and its configuration, or is new.
NewOrSame(n) ==
  \/ ~Exists(ctr'[n])
  \/ Exists(ctr[n]) /\ ctr'[n].by = ctr[n].by /\ ctr'[n].config = ctr[n].config
  \/ \E p \in Calls : /\ Target(p) = n /\ at[p] = "run" /\ at'[p] = "run"
                      /\ ctr'[n].by = p /\ ctr'[n].config = arg[p].config

LEMMA ActsNewOrSame ==
  ASSUME TypeOK, NEW p \in Calls, Acts(p), NEW n \in Names
  PROVE  NewOrSame(n)
<1>1. CASE n # Target(p)
  BY <1>1 DEF Acts, NewOrSame, Exists
<1>2. CASE n = Target(p)
  <2>1. CASE ctr'[n] = Run!NewContainer(p) /\ at[p] = "run" /\ UNCHANGED at
    BY <1>2, <2>1, NewContainerFields DEF NewOrSame
  <2>2. CASE ctr'[n] = Gone
    BY <2>2, GoneFields DEF NewOrSame
  <2>3. CASE ctr'[n] = ctr[n]
    BY <2>3 DEF NewOrSame, Exists
  <2>4. CASE Exists(ctr[n]) /\ ctr'[n].by = ctr[n].by /\ ctr'[n].config = ctr[n].config
    BY <2>4 DEF NewOrSame
  <2> QED
    BY <1>2, <2>1, <2>2, <2>3, <2>4 DEF Acts, ContainerMoves, Now
<1> QED
  BY <1>1, <1>2

LEMMA AsAskedStays ==
  ASSUME MatchInv, NEW n \in Names, NewOrSame(n), UNCHANGED req,
         \A q \in Calls : at[q] # "idle" => at'[q] # "idle"
  PROVE  AsAsked(n)'
<1>1. TypeOK /\ AsAsked(n)
  BY DEF MatchInv, BaseInv
<1>2. CASE ~Exists(ctr'[n])
  BY <1>2 DEF AsAsked, Exists
<1>3. CASE Exists(ctr[n]) /\ ctr'[n].by = ctr[n].by /\ ctr'[n].config = ctr[n].config
  <2>1. CASE Old(n)
    BY <1>3, <2>1 DEF AsAsked, Old, Exists
  <2>2. CASE ~Old(n)
    <3>1. PICK q \in Calls : q = ctr[n].by
      BY <1>1, <1>3, <2>2, ContainerType DEF Old
    <3>2. Target(q) = n /\ at'[q] # "idle" /\ Applies(q) /\ Fulfils(ctr'[n].config, req[q].spec)
      BY <1>1, <1>3, <2>2, <3>1 DEF AsAsked
    <3> QED
      BY <1>3, <3>1, <3>2, AppliesStays DEF AsAsked, Fulfils, DesiredEnv, Override, Keys, OwnKeys, Unset
  <2> QED
    BY <2>1, <2>2
<1>4. ASSUME NEW p \in Calls, Target(p) = n, at[p] = "run", at'[p] = "run",
             ctr'[n].by = p, ctr'[n].config = arg[p].config
      PROVE  AsAsked(n)'
  <2>1. Applies(p) /\ Fulfils(arg[p].config, req[p].spec)
    BY <1>4 DEF MatchInv, BaseInv, Fits, AboutToMake
  <2> QED
    BY <1>4, <2>1, AppliesStays DEF AsAsked, Fulfils, DesiredEnv, Override, Keys, OwnKeys, Unset
<1> QED
  BY <1>2, <1>3, <1>4 DEF NewOrSame

LEMMA MatchStep ==
  ASSUME MatchInv, [Next]_vars
  PROVE  MatchInv'
<1>1. BaseInv /\ TypeOK /\ BaseInv'
  BY BaseStep DEF MatchInv, BaseInv
<1>2. ASSUME NEW p \in Calls, Step(p) \/ Fault(p)
      PROVE  MatchInv'
  <2>1. Acts(p) /\ Gathers(p) /\ OldStays /\ UNCHANGED req
    BY <1>1, <1>2, StepActs, StepGathers, ActsOldStays DEF Acts
  <2>2. ASSUME NEW q \in Calls
        PROVE  AboutToMake(q)' /\ OldIsGone(q)' /\ KnowsOld(q)' /\ FoundOld(q)' /\ OldMatches(q)'
    <3>1. CASE q # p
      BY <2>1, <3>1, KeptMatch DEF Acts
    <3>2. CASE q = p
      <4>1. Remembers(p)'
        BY <1>1 DEF BaseInv
      <4>2. AboutToMake(p)' /\ OldIsGone(p)' /\ KnowsOld(p)' /\ FoundOld(p)' /\ OldMatches(p)'
        BY <1>2, <2>1, <4>1, StepTrue, StepAboutToMake, StepOldIsGone, StepOldMatches
      <4> QED
        BY <3>2, <4>2
    <3> QED
      BY <3>1, <3>2
  <2>3. \A q \in Calls : at[q] # "idle" => at'[q] # "idle"
    BY <1>1, <1>2, <2>1, StepPlaces DEF Acts, Kept
  <2>4. \A n \in Names : AsAsked(n)'
    BY <1>1, <2>1, <2>3, ActsNewOrSame, AsAskedStays
  <2> QED
    BY <1>1, <2>2, <2>4 DEF MatchInv
<1>3. ASSUME NEW n \in Names, Meddle(n)
      PROVE  MatchInv'
  <2>1. UNCHANGED <<images, run, arg, req, at, mem>> /\ Exists(ctr[n])
        /\ ctr'[n].by = ctr[n].by /\ ctr'[n].config = ctr[n].config
        /\ \A m \in Names \ {n} : ctr'[m] = ctr[m]
    BY <1>1, <1>3, MeddleMoves DEF Restates
  <2>2. \A q \in Calls : AboutToMake(q)' /\ OldIsGone(q)' /\ KnowsOld(q)' /\ FoundOld(q)' /\ OldMatches(q)'
    BY <1>1, <1>3, <2>1, MeddleOldStays, KeptMatch DEF Kept
  <2>3. \A m \in Names : NewOrSame(m)
    BY <2>1 DEF NewOrSame, Exists
  <2>4. \A m \in Names : AsAsked(m)'
    BY <2>1, <2>3, AsAskedStays
  <2> QED
    BY <1>1, <2>2, <2>4 DEF MatchInv
<1>4. CASE UNCHANGED vars
  <2>1. UNCHANGED <<ctr, run, arg, req, at, mem>>
    BY <1>4 DEF vars, daemon
  <2>2. OldStays /\ \A m \in Names : NewOrSame(m)
    BY <2>1 DEF OldStays, Old, NewOrSame, Exists
  <2>3. \A q \in Calls : AboutToMake(q)' /\ OldIsGone(q)' /\ KnowsOld(q)' /\ FoundOld(q)' /\ OldMatches(q)'
    BY <2>1, <2>2, KeptMatch DEF Kept
  <2>4. \A m \in Names : AsAsked(m)'
    BY <2>1, <2>2, AsAskedStays
  <2> QED
    BY <1>1, <2>3, <2>4 DEF MatchInv
<1> QED
  BY <1>2, <1>3, <1>4 DEF Next

LEMMA InitMatch == Init => MatchInv
<1> SUFFICES ASSUME Init
             PROVE  MatchInv
  OBVIOUS
<1>1. BaseInv
  BY InitBase
<1>2. \A n \in Names : ctr[n].by = Daemon
  BY RegistryAssumption DEF Init
<1>3. \A n \in Names : AsAsked(n)
  BY <1>2 DEF AsAsked, Old
<1>4. ASSUME NEW p \in Calls
      PROVE  AboutToMake(p) /\ OldIsGone(p) /\ KnowsOld(p) /\ FoundOld(p) /\ OldMatches(p)
  BY InitMemory, BlankFields DEF AboutToMake, OldIsGone, KnowsOld, TrueOfOld, FoundOld, OldMatches, Found
<1> QED
  BY <1>1, <1>3, <1>4 DEF MatchInv

-------------------------------------------------------------------------------
(***************************************************************************)
(* Calls that all apply: one that takes the registry down carries it, until  *)
(* it has made the new one, and one that gives up leaves it to another.      *)
(***************************************************************************)

LEMMA Stationary ==
  ASSUME BaseInv, NEW p \in Calls, Step(p) \/ Fault(p)
  PROVE  Target(p)' = Target(p) /\ UNCHANGED req /\ Target(p) \in Names
BY StepActs, RequestType DEF Acts, Target, BaseInv

\* A container made by a call, and not running, has its maker at its start.
LEMMA MakerCarries ==
  ASSUME JointInv, NEW n \in Names, n \notin disturbed, Exists(ctr[n]), ~Old(n), ~Running(ctr[n])
  PROVE  \E q \in Calls : /\ q = ctr[n].by /\ Target(q) = n /\ at[q] = "run" /\ run[q] = "start"
                          /\ Carries(q)
<1>1. TypeOK /\ AsAsked(n) /\ IsBeingStarted(n)
  BY DEF JointInv, MatchInv, BaseInv, StaysUp
<1>2. PICK q \in Calls : q = ctr[n].by
  BY <1>1, ContainerType DEF Old
<1>3. Target(q) = n /\ at[q] = "run" /\ run[q] = "start"
  BY <1>1, <1>2 DEF AsAsked, IsBeingStarted
<1>4. Carries(q)
  BY <1>2, <1>3 DEF Carries
<1> QED
  BY <1>2, <1>3, <1>4

\* The call at dctr.Run.
LEMMA RunCarriesOn ==
  ASSUME JointInv, NEW p \in Calls, RunStep(p), NEW n \in Names, n = Target(p), n \notin disturbed'
  PROVE  \/ ctr'[n] = ctr[n] /\ ~Carries(p)
         \/ Running(ctr'[n])
         \/ Carries(p)'
         \/ \E q \in Calls \ {p} : Target(q) = n /\ Carries(q) /\ ctr'[n] = ctr[n]
<1>1. TypeOK /\ Fits(p) /\ OldIsGone(p) /\ BaseInv
  BY DEF JointInv, MatchInv, BaseInv
<1>2. at[p] = "run" /\ Step(p)
  BY DEF RunStep, Step
<1>3. Target(p)' = n /\ Now(p) = ctr[n]
  BY <1>1, <1>2, Stationary DEF Now
<1>4. at'[p] = "run"
  BY <1>1, RunStepRuns, <1>2 DEF Runs
<1>5. n \notin disturbed
  BY <1>1, <1>2, StepActs DEF Acts
<1>6. CASE Run!Inspect(p)
  BY <1>1, <1>3, <1>4, <1>6, RunInspectMoves DEF Carries, Running, Exists
<1>7. CASE Run!Remove(p)
  BY <1>1, <1>2, <1>3, <1>4, <1>7, RunRemoveMoves DEF Carries
<1>8. CASE Run!Create(p) \/ Run!Recreate(p)
  <2>1. CASE Exists(Now(p)) /\ UNCHANGED <<ctr, disturbed>> /\ run'[p] = "err"
    <3>1. ~Old(n)
      BY <1>1, <1>2 DEF OldIsGone
    <3>2. CASE Running(ctr[n])
      BY <2>1, <3>2
    <3>3. CASE ~Running(ctr[n])
      <4>1. PICK q \in Calls : Target(q) = n /\ run[q] = "start" /\ Carries(q)
        BY <1>3, <1>5, <2>1, <3>1, <3>3, MakerCarries
      <4>2. run[p] \in {"create", "recreate"}
        BY <1>1, <1>8, RunCreateMoves
      <4> QED
        BY <2>1, <4>1, <4>2
    <3> QED
      BY <3>2, <3>3
  <2>2. CASE ~Exists(Now(p)) /\ Makes(p) /\ run'[p] = "start"
    <3>1. Exists(ctr'[n]) /\ ctr'[n].by = p
      BY <1>1, <2>2, NewContainerFields DEF Makes, Exists
    <3> QED
      BY <1>3, <1>4, <2>2, <3>1 DEF Carries, Exists
  <2>3. CASE run'[p] = "pull"
    BY <1>4, <2>3 DEF Carries
  <2>4. CASE disturbed' = disturbed \cup {Target(p)}
    BY <2>4
  <2> QED
    BY <1>1, <1>8, <2>1, <2>2, <2>3, <2>4, RunCreateMoves
<1>9. CASE Run!Pull(p)
  BY <1>1, <1>4, <1>9, RunPullMoves DEF Carries, Runs
<1>10. CASE Run!Start(p)
  BY <1>1, <1>2, <1>3, <1>10, RunStartMoves DEF Carries, Restates, Running
<1> QED
  BY <1>6, <1>7, <1>8, <1>9, <1>10 DEF RunStep, Run!Step

\* Any call.
LEMMA CarriesOn ==
  ASSUME JointInv, NEW p \in Calls, Step(p) \/ Fault(p), NEW n \in Names, n = Target(p), n \notin disturbed',
         Applies(p)
  PROVE  \/ ctr'[n] = ctr[n] /\ ~Carries(p)
         \/ Running(ctr'[n])
         \/ Carries(p)'
         \/ \E q \in Calls \ {p} : Target(q) = n /\ Carries(q) /\ ctr'[n] = ctr[n]
<1>1. TypeOK /\ Configured /\ Fits(p) /\ Remembers(p) /\ BaseInv
  BY DEF JointInv, MatchInv, BaseInv
<1>2. Target(p)' = n /\ Now(p) = ctr[n]
  BY <1>1, Stationary DEF Now
<1>3. CASE ThinkStep(p) /\ at[p] # "clear"
  <2>1. at[p] \in Getting \cup {"idle"}
    BY <1>1, <1>3, BeginMoves, ListByRoleMoves, ListByAncestorMoves, InspectListedMoves, CheckNewMoves,
       DecideMoves, FindDoomedMoves, InspectLeftoverMoves, ConfirmMoves DEF ThinkStep, Got, Getting
  <2>2. Thinks(p)
    BY <1>1, <1>3, ThinkStepThinks
  <2> QED
    BY <2>1, <2>2 DEF Carries, Getting, Thinks
<1>4. CASE InspectLeftover(p)
  BY <1>1, <1>2, <1>4, InspectLeftoverMoves DEF Carries, VictimStands, Exists, Learns, Thinks
<1>5. CASE Delete(p)
  BY <1>1, <1>2, <1>5, DeleteMoves DEF Carries
<1>6. CASE RemoveLeftover(p)
  BY <1>1, <1>2, <1>6, RemoveLeftoverMoves DEF Carries
<1>7. CASE Configure(p)
  BY <1>1, <1>7, ConfigureMoves DEF Carries
<1>8. CASE RunStep(p)
  BY <1>8, RunCarriesOn
<1>9. CASE RunReturned(p)
  BY <1>1, <1>9, RunReturnedMoves DEF Carries
<1>10. CASE RunUnanswered(p)
  BY <1>1, <1>10, RunUnansweredMoves
<1>11. CASE Fail(p)
  BY <1>1, <1>11, FailMoves
<1>12. ThinkStep(p) /\ at[p] = "clear" => InspectLeftover(p)
  BY <1>1, BeginMoves, ListByRoleMoves, ListByAncestorMoves, InspectListedMoves, CheckNewMoves,
     DecideMoves, FindDoomedMoves, ConfirmMoves DEF ThinkStep, Got, Getting
<1> QED
  BY <1>3, <1>4, <1>5, <1>6, <1>7, <1>8, <1>9, <1>10, <1>11, <1>12 DEF Step, Fault, ThinkStep

\* To see the registry run, a call must find it running.
LEMMA Sees ==
  ASSUME JointInv, NEW p \in Calls, Step(p) \/ Fault(p), NEW n \in Names, n = Target(p), Applies(p),
         HasSeenUp(p)'
  PROVE  HasSeenUp(p) \/ Running(ctr[n]) \/ Running(ctr'[n])
<1>1. TypeOK /\ Configured /\ Fits(p) /\ Remembers(p) /\ BaseInv
  BY DEF JointInv, MatchInv, BaseInv
<1>2. Target(p)' = n /\ Now(p) = ctr[n]
  BY <1>1, Stationary DEF Now
<1>3. NoRegistry.state # "running" /\ Blank.seen = {} /\ Blank.found = NoRegistry
  BY NoRegistryFields, BlankFields
<1>4. ASSUME NEW r, Faithful(r), r.name = n, r.state = "running"
      PROVE  Running(ctr[n])
  BY <1>1, <1>4, FaithfulFacts DEF Running
<1>5. CASE at'[p] = at[p] /\ at[p] = "apply"
  <2>1. Gathers(p)
    BY <1>1, StepGathers
  <2>2. CASE \E r \in mem'[p].seen : r.name = n /\ r.state = "running"
    BY <1>2, <1>4, <1>5, <2>1, <2>2 DEF Gathers, HasSeenUp
  <2>3. CASE mem'[p].found.state = "running"
    <3>1. CASE mem'[p].found \in {NoRegistry, mem[p].found}
      BY <1>3, <1>5, <2>3, <3>1 DEF HasSeenUp
    <3>2. ASSUME NEW r \in mem[p].seen, r.name = Target(p), mem'[p].found = [r EXCEPT !.env = EnvOf(ctr[r.name])]
          PROVE  HasSeenUp(p)
      <4>1. r \in Registries
        BY <1>1, MemoryType
      <4>2. mem'[p].found.state = r.state
        BY <3>2, <4>1, Inspected
      <4> QED
        BY <1>5, <2>3, <3>2, <4>2 DEF HasSeenUp
    <3> QED
      BY <2>1, <3>1, <3>2 DEF Gathers
  <2> QED
    BY <1>2, <1>5, <2>2, <2>3 DEF HasSeenUp
<1>6. CASE Begin(p)
  <2>1. mem'[p].seen = {} /\ mem'[p].found = NoRegistry
    BY <1>1, <1>3, <1>6, BeginMoves DEF Fits
  <2>2. at'[p] \in {"check", "delete", "apply"}
    BY <1>1, <1>6, BeginMoves
  <2> QED
    BY <1>3, <2>1, <2>2 DEF HasSeenUp
<1>7. CASE ListByRole(p) \/ ListByAncestor(p)
  <2>1. at'[p] = at[p] /\ at[p] \in Getting
    BY <1>1, <1>7, ListByRoleMoves, ListByAncestorMoves
  <2> QED
    BY <1>5, <2>1 DEF HasSeenUp, Getting
<1>8. CASE InspectListed(p)
  <2>1. at[p] \in Getting /\ (at'[p] = at[p] \/ at'[p] = "failed")
    BY <1>1, <1>8, InspectListedMoves DEF Returns
  <2> QED
    BY <1>5, <2>1 DEF HasSeenUp, Getting
<1>9. CASE CheckNew(p)
  BY <1>1, <1>3, <1>9, CheckNewMoves DEF HasSeenUp, Returns, Learns
<1>10. CASE Decide(p)
  <2>1. CASE at'[p] \in {"clear", "delete"}
    BY <2>1 DEF HasSeenUp
  <2>2. CASE ~NeedsDelete(mem[p].found, req[p].spec)
    <3>1. at[p] = "apply" /\ mem[p].found.state = "running"
      BY <1>1, <1>10, <2>2, DecideMoves DEF Got, NeedsDelete, Died
    <3> QED
      BY <3>1 DEF HasSeenUp
  <2> QED
    BY <1>1, <1>10, <2>1, <2>2, DecideMoves
<1>11. CASE FindDoomed(p)
  BY <1>1, <1>11, FindDoomedMoves DEF HasSeenUp, Returns
<1>12. CASE Delete(p)
  BY <1>1, <1>12, DeleteMoves DEF HasSeenUp, Returns
<1>13. CASE InspectLeftover(p)
  BY <1>1, <1>13, InspectLeftoverMoves DEF HasSeenUp
<1>14. CASE RemoveLeftover(p)
  BY <1>1, <1>14, RemoveLeftoverMoves DEF HasSeenUp, Returns
<1>15. CASE Configure(p)
  BY <1>1, <1>15, ConfigureMoves DEF HasSeenUp, Returns
<1>16. CASE RunStep(p)
  <2>1. at'[p] = "run"
    BY <1>1, <1>16, RunStepRuns DEF Runs
  <2>2. run'[p] = "ok"
    BY <2>1 DEF HasSeenUp
  <2>3. CASE Run!Inspect(p)
    BY <1>1, <1>2, <1>16, <2>2, <2>3, RunInspectMoves
  <2>4. CASE Run!Start(p)
    BY <1>1, <1>16, <2>2, <2>4, RunStartMoves DEF Restates, Running
  <2>5. CASE Run!Remove(p) \/ Run!Create(p) \/ Run!Recreate(p) \/ Run!Pull(p)
    BY <1>1, <1>16, <2>2, <2>5, RunRemoveMoves, RunCreateMoves, RunPullMoves DEF Runs
  <2> QED
    BY <1>16, <2>3, <2>4, <2>5 DEF RunStep, Run!Step
<1>17. CASE RunReturned(p)
  BY <1>1, <1>17, RunReturnedMoves DEF HasSeenUp, Returns
<1>18. CASE Confirm(p)
  BY <1>1, <1>18, ConfirmMoves DEF HasSeenUp, Got
<1>19. CASE RunUnanswered(p)
  BY <1>1, <1>19, RunUnansweredMoves DEF HasSeenUp, Runs
<1>20. CASE Fail(p)
  BY <1>1, <1>20, FailMoves DEF HasSeenUp, Returns
<1> QED
  BY <1>6, <1>7, <1>8, <1>9, <1>10, <1>11, <1>12, <1>13, <1>14, <1>15, <1>16, <1>17, <1>18, <1>19, <1>20
     DEF Step, Fault

\* The calls about a name stay about it, and a call that did not move is where
\* it was.
LEMMA KeptCarries ==
  ASSUME NEW q \in Calls, Kept(q), UNCHANGED req, NEW n \in Names, n = Target(q), ctr'[n] = ctr[n]
  PROVE  Carries(q) => Carries(q)'
BY AppliesStays DEF Kept, Carries, VictimStands, Exists

LEMMA KeptSees ==
  ASSUME NEW q \in Calls, Kept(q), UNCHANGED req
  PROVE  HasSeenUp(q)' <=> HasSeenUp(q)
<1>1. Target(q)' = Target(q) /\ at'[q] = at[q] /\ mem'[q] = mem[q] /\ run'[q] = run[q]
  BY AppliesStays DEF Kept
<1> QED
  BY <1>1 DEF HasSeenUp

LEMMA KeptStarting ==
  ASSUME JointInv, NEW n \in Names, n \notin disturbed, NewOrSame(n), ctr'[n] = ctr[n],
         \A q \in Calls : q = ctr[n].by /\ at[q] = "run" /\ run[q] = "start" => Kept(q)
  PROVE  IsBeingStarted(n)'
<1>1. TypeOK /\ IsBeingStarted(n)
  BY DEF JointInv, MatchInv, BaseInv, StaysUp
<1>2. CASE Exists(ctr[n]) /\ ~Running(ctr[n]) /\ ~Old(n)
  <2>1. PICK q \in Calls : q = ctr[n].by /\ at[q] = "run" /\ run[q] = "start"
    BY <1>1, <1>2, MakerCarries, JointInv
  <2> QED
    BY <1>2, <2>1 DEF IsBeingStarted, Kept
<1>3. CASE ~(Exists(ctr[n]) /\ ~Running(ctr[n]) /\ ~Old(n))
  BY <1>3 DEF IsBeingStarted, Exists, Running, Old
<1> QED
  BY <1>2, <1>3

\* A name that the step is not about.
LEMMA ElsewhereStays ==
  ASSUME JointInv, UNCHANGED req, NEW n \in Names, ctr'[n] = ctr[n], disturbed \subseteq disturbed',
         \A q \in Calls : Target(q) = n => Kept(q)
  PROVE  StaysUp(n)'
<1>1. TypeOK /\ AsAsked(n) /\ StaysUp(n)
  BY DEF JointInv, MatchInv, BaseInv
<1>2. SUFFICES ASSUME n \notin disturbed'
               PROVE  /\ IsBeingStarted(n)'
                      /\ AllApply(n)' /\ (\E p \in Calls : Target(p)' = n /\ HasSeenUp(p)') => UpOrCarried(n)'
  BY DEF StaysUp
<1>3. n \notin disturbed
  BY <1>2
<1>4. IsBeingStarted(n)'
  <2>1. NewOrSame(n)
    BY DEF NewOrSame, Exists
  <2>2. ASSUME NEW q \in Calls, q = ctr[n].by, at[q] = "run", run[q] = "start"
        PROVE  Kept(q) \/ Old(n) \/ ~Exists(ctr[n])
    BY <1>1, <2>2 DEF AsAsked
  <2>3. CASE Old(n) \/ ~Exists(ctr[n])
    BY <2>3 DEF IsBeingStarted, Old, Exists
  <2>4. CASE ~Old(n) /\ Exists(ctr[n])
    BY <1>3, <2>1, <2>2, <2>4, KeptStarting
  <2> QED
    BY <2>3, <2>4
<1>5. ASSUME AllApply(n)', NEW p \in Calls, Target(p)' = n, HasSeenUp(p)'
      PROVE  UpOrCarried(n)'
  <2>1. \A q \in Calls : (Target(q)' = n <=> Target(q) = n) /\ (Applies(q)' <=> Applies(q))
    BY AppliesStays
  <2>2. AllApply(n)
    BY <1>5, <2>1 DEF AllApply, CallsFor, Kept
  <2>3. Target(p) = n /\ HasSeenUp(p)
    BY <1>5, <2>1, KeptSees
  <2>4. UpOrCarried(n)
    BY <1>1, <1>3, <2>2, <2>3 DEF StaysUp
  <2>5. CASE Running(ctr[n])
    BY <2>5 DEF UpOrCarried, Running
  <2>6. ASSUME NEW q \in Calls, Target(q) = n, Carries(q)
        PROVE  UpOrCarried(n)'
    BY <2>1, <2>6, KeptCarries DEF UpOrCarried
  <2> QED
    BY <2>4, <2>5, <2>6 DEF UpOrCarried
<1> QED
  BY <1>4, <1>5

\* The name that the step is about.
LEMMA HereStarting ==
  ASSUME JointInv, NEW p \in Calls, Step(p) \/ Fault(p), NEW n \in Names, n = Target(p), n \notin disturbed'
  PROVE  IsBeingStarted(n)'
<1>1. TypeOK /\ Configured /\ Fits(p) /\ BaseInv
  BY DEF JointInv, MatchInv, BaseInv
<1>2. Acts(p) /\ UNCHANGED req /\ n \notin disturbed /\ Now(p) = ctr[n]
  BY <1>1, StepActs DEF Acts, Now
<1>3. NewOrSame(n)
  BY <1>1, <1>2, ActsNewOrSame
<1>4. CASE ctr'[n] = ctr[n] /\ ~(p = ctr[n].by /\ at[p] = "run" /\ run[p] = "start" /\ Exists(ctr[n]))
  <2>1. CASE ~Exists(ctr[n])
    BY <1>4, <2>1 DEF IsBeingStarted, Exists
  <2>2. CASE Exists(ctr[n])
    BY <1>2, <1>3, <1>4, <2>2, KeptStarting DEF Acts
  <2> QED
    BY <2>1, <2>2
<1>5. CASE ctr'[n] = ctr[n] /\ p = ctr[n].by /\ at[p] = "run" /\ run[p] = "start" /\ Exists(ctr[n])
  <2>1. Carries(p)
    BY <1>5 DEF Carries
  <2>2. RunStep(p) \/ Fault(p)
    BY <1>5 DEF Step, Begin, ListByRole, ListByAncestor, InspectListed, CheckNew, Decide, FindDoomed, Delete,
       InspectLeftover, RemoveLeftover, Configure, RunReturned, Confirm, Got, Getting
  <2>3. ~Fault(p)
    BY <1>1, <1>2, RunUnansweredMoves, FailMoves DEF Fault
  <2>4. Run!Start(p)
    BY <1>5, <2>2, <2>3 DEF RunStep, Run!Step, Run!Inspect, Run!Remove, Run!Create, Run!Pull, Run!Recreate
  <2>5. Running(ctr'[n])
    BY <1>1, <1>2, <1>5, <2>2, <2>3, <2>4, RunStartMoves DEF Restates, Running
  <2> QED
    BY <2>5 DEF IsBeingStarted, Running
<1>6. CASE ctr'[n] = Gone
  BY <1>6, GoneFields DEF IsBeingStarted, Exists
<1>7. CASE ctr'[n] = Run!NewContainer(p) /\ at[p] = "run" /\ UNCHANGED at /\ run'[p] = "start"
  <2>1. ctr'[n].by = p
    BY <1>1, <1>7, NewContainerFields
  <2> QED
    BY <1>7, <2>1 DEF IsBeingStarted
<1>8. CASE ctr'[n].state = "running"
  BY <1>8 DEF IsBeingStarted, Running
<1> QED
  BY <1>2, <1>4, <1>5, <1>6, <1>7, <1>8 DEF Acts, ContainerMoves

LEMMA HereStays ==
  ASSUME JointInv, NEW p \in Calls, Step(p) \/ Fault(p), NEW n \in Names, n = Target(p)
  PROVE  StaysUp(n)'
<1>1. TypeOK /\ BaseInv /\ StaysUp(n)
  BY DEF JointInv, MatchInv, BaseInv
<1>2. Acts(p) /\ UNCHANGED req /\ (n \notin disturbed' => n \notin disturbed)
  BY <1>1, StepActs DEF Acts
<1>3. \A q \in Calls : (Target(q)' = n <=> Target(q) = n) /\ (Applies(q)' <=> Applies(q))
  BY <1>2, AppliesStays
<1>4. \A q \in Calls \ {p} : Kept(q)
  BY <1>2 DEF Acts
<1>5. ASSUME n \notin disturbed', AllApply(n)', NEW q \in Calls, Target(q)' = n, HasSeenUp(q)'
      PROVE  UpOrCarried(n)'
  <2>1. AllApply(n) /\ Applies(p)
    <3>1. at'[p] # "idle"
      BY <1>1, StepPlaces
    <3>2. \A c \in Calls : Target(c) = n /\ at'[c] # "idle" => Applies(c)
      BY <1>3, <1>5 DEF AllApply, CallsFor
    <3>3. \A c \in Calls : at[c] # "idle" => at'[c] # "idle"
      BY <1>4, <3>1 DEF Kept
    <3> QED
      BY <3>1, <3>2, <3>3 DEF AllApply, CallsFor
  <2>2. HasSeenUp(q) \/ Running(ctr[n]) \/ Running(ctr'[n])
    BY <1>4, <1>5, <1>2, <2>1, KeptSees, Sees
  <2>3. CASE Running(ctr'[n])
    BY <2>3 DEF UpOrCarried, Running
  <2>4. CASE ~Running(ctr'[n])
    <3>1. UpOrCarried(n)
      BY <1>1, <1>2, <1>3, <1>5, <2>1, <2>2, <2>4 DEF StaysUp, UpOrCarried
    <3>2. CASE Carries(p)'
      BY <1>3, <3>2 DEF UpOrCarried
    <3>3. ASSUME NEW c \in Calls \ {p}, Target(c) = n, Carries(c), ctr'[n] = ctr[n]
          PROVE  UpOrCarried(n)'
      BY <1>2, <1>3, <1>4, <3>3, KeptCarries DEF UpOrCarried
    <3>4. CASE ctr'[n] = ctr[n] /\ ~Carries(p)
      <4>1. PICK c \in Calls : Target(c) = n /\ Carries(c)
        BY <2>4, <3>1, <3>4 DEF UpOrCarried
      <4> QED
        BY <3>3, <3>4, <4>1
    <3> QED
      BY <1>5, <2>1, <2>4, <3>2, <3>3, <3>4, CarriesOn
  <2> QED
    BY <2>3, <2>4
<1>6. n \notin disturbed' => IsBeingStarted(n)'
  BY HereStarting
<1> QED
  BY <1>5, <1>6 DEF StaysUp

LEMMA JointStep ==
  ASSUME JointInv, [Next]_vars
  PROVE  JointInv'
<1>1. MatchInv /\ BaseInv /\ TypeOK /\ MatchInv'
  BY MatchStep DEF JointInv, MatchInv, BaseInv
<1>2. ASSUME NEW p \in Calls, Step(p) \/ Fault(p), NEW n \in Names
      PROVE  StaysUp(n)'
  <2>1. Acts(p)
    BY <1>1, <1>2, StepActs
  <2>2. CASE n = Target(p)
    BY <1>2, <2>2, HereStays
  <2>3. CASE n # Target(p)
    BY <2>1, <2>3, ElsewhereStays DEF Acts
  <2> QED
    BY <2>2, <2>3
<1>3. ASSUME NEW m \in Names, Meddle(m), NEW n \in Names
      PROVE  StaysUp(n)'
  <2>1. UNCHANGED <<run, arg, req, at, mem>> /\ disturbed' = disturbed \cup {m}
        /\ \A k \in Names \ {m} : ctr'[k] = ctr[k]
    BY <1>1, <1>3, MeddleMoves DEF Restates
  <2>2. CASE n = m
    BY <2>1, <2>2 DEF StaysUp
  <2>3. CASE n # m
    BY <2>1, <2>3, ElsewhereStays DEF Kept
  <2> QED
    BY <2>2, <2>3
<1>4. ASSUME UNCHANGED vars, NEW n \in Names
      PROVE  StaysUp(n)'
  BY <1>4, ElsewhereStays DEF vars, daemon, Kept
<1>5. \A n \in Names : StaysUp(n)'
  BY <1>2, <1>3, <1>4 DEF Next
<1> QED
  BY <1>1, <1>5 DEF JointInv

LEMMA InitJoint == Init => JointInv
<1> SUFFICES ASSUME Init
             PROVE  JointInv
  OBVIOUS
<1>1. MatchInv /\ NoRegistry.state # "running"
  BY InitMatch, NoRegistryFields
<1>2. \A n \in Names : ctr[n].by = Daemon
  BY RegistryAssumption DEF Init
<1>3. \A p \in Calls : ~HasSeenUp(p)
  BY InitMemory DEF HasSeenUp
<1>4. \A n \in Names : StaysUp(n)
  BY <1>2, <1>3 DEF StaysUp, IsBeingStarted, Old
<1> QED
  BY <1>1, <1>4 DEF JointInv

LEMMA JointAlways == Spec => []JointInv
BY InitJoint, JointStep, PTL DEF Spec

LEMMA AgreedIsUp ==
  ASSUME JointInv, NEW n \in Names, Agreed(n)
  PROVE  Running(ctr[n])
<1>1. TypeOK /\ StaysUp(n)
  BY DEF JointInv, MatchInv, BaseInv
<1>2. AllApply(n)
  BY DEF AllApply, Agreed
<1>3. PICK p \in Calls : Target(p) = n /\ at[p] = "done"
  BY DEF Agreed, CallsFor
<1>4. UpOrCarried(n)
  BY <1>1, <1>2, <1>3 DEF Agreed, StaysUp, HasSeenUp
<1>5. ASSUME NEW q \in Calls, Target(q) = n
      PROVE  ~Carries(q)
  BY <1>5 DEF Agreed, CallsFor, Over, Carries
<1> QED
  BY <1>4, <1>5 DEF UpOrCarried

(***************************************************************************)
(* However the requests of the calls on a registry interleave, and however  *)
(* many calls there are, they do not leave it down after one of them has     *)
(* reported success: a call that takes the container down makes another, or *)
(* gives up only because a further call does.                              *)
(***************************************************************************)
THEOREM RegistryUpAlways == Spec => []RegistryUp
<1>1. JointInv => RegistryUp
  BY AgreedIsUp DEF RegistryUp
<1> QED
  BY <1>1, JointAlways, PTL

(***************************************************************************)
(* And when all the calls were given one spec, the registry they leave is   *)
(* as that spec asks, whichever of them made it, or none.                   *)
(***************************************************************************)
THEOREM SameSpecHoldsAlways == Spec => []SameSpecHolds
<1>1. ASSUME JointInv, NEW n \in Names, NEW p \in CallsFor(n), Agreed(n),
             \A q \in CallsFor(n) : req[q].spec = req[p].spec
      PROVE  Satisfies(ctr[n], req[p].spec)
  <2>1. TypeOK /\ AsAsked(n) /\ \A q \in Calls : OldMatches(q)
    BY <1>1 DEF JointInv, MatchInv, BaseInv
  <2>2. Running(ctr[n]) /\ Exists(ctr[n])
    BY <1>1, AgreedIsUp, RunningExists
  <2>3. CASE Old(n)
    <3>1. PICK q \in CallsFor(n) : at[q] = "done" /\ Applies(q)
      BY <1>1 DEF Agreed
    <3>2. Fulfils(ctr[n].config, req[q].spec)
      BY <2>1, <2>3, <3>1 DEF OldMatches, CallsFor
    <3> QED
      BY <1>1, <2>2, <3>2 DEF Satisfies
  <2>4. CASE ~Old(n)
    <3>1. PICK q \in Calls : q = ctr[n].by
      BY <2>1, <2>2, <2>4, ContainerType DEF Old
    <3>2. q \in CallsFor(n) /\ Fulfils(ctr[n].config, req[q].spec)
      BY <2>1, <2>2, <2>4, <3>1 DEF AsAsked, CallsFor
    <3> QED
      BY <1>1, <2>2, <3>2 DEF Satisfies
  <2> QED
    BY <2>3, <2>4
<1>2. JointInv => SameSpecHolds
  BY <1>1 DEF SameSpecHolds
<1> QED
  BY <1>2, JointAlways, PTL

-------------------------------------------------------------------------------
(***************************************************************************)
(* One call, as long as it is alone.                                       *)
(***************************************************************************)

Before(p) == mem[p].before

\* The registry found under the name is the one there is.
IsFound(n, found) ==
  /\ IsRegistry(ctr[n])
  /\ found.image = ctr[n].config.image /\ found.labels = ctr[n].config.labels
  /\ found.by = ctr[n].by /\ found.state = ctr[n].state /\ found.env = EnvOf(ctr[n])
  /\ Running(ctr[n]) => found.port = ctr[n].config.port
  /\ Publishes(ctr[n]) => found.addr = ctr[n].config.addr
  /\ found.addr = InvalidIP => ctr[n].config.port = 0

\* What the Get under way has listed is there, and nothing is missing.
Reads(p) ==
  /\ \A r \in mem[p].seen : Faithful(r)
  /\ Found(mem[p].found) => mem[p].step = "inspect" /\ IsFound(Target(p), mem[p].found)
  /\ mem[p].step = "ancestor" /\ Exists(Now(p)) /\ RoleLabel \in Now(p).config.labels =>
       \E r \in mem[p].seen : r.name = Target(p)
  /\ mem[p].step = "inspect" /\ IsRegistry(Now(p)) =>
       Found(mem[p].found) \/ \E r \in mem[p].seen : r.name = Target(p)

\* What Apply remembers of the registry it set out from.
Recalls(p) ==
  LET old == mem[p].existing IN
  IF IsRegistry(Before(p))
    THEN /\ Found(old) /\ old.image = Before(p).config.image /\ old.labels = Before(p).config.labels
         /\ Running(Before(p)) => old.port = Before(p).config.port
         /\ Publishes(Before(p)) => old.addr = Before(p).config.addr
         /\ old.addr = InvalidIP => Before(p).config.port = 0
    ELSE ~Found(old)

\* The container made, or to be made, is as asked for, and else as before.
Right(p, config) ==
  /\ Fulfils(config, req[p].spec)
  /\ RoleLabel \in config.labels
  /\ IsRegistry(Before(p)) => Keeps(Before(p), config, req[p].spec)

\* Where dctr.Run is: nothing is in its way, and every image is there.
RunsAlone(p) ==
  /\ Right(p, arg[p].config)
  /\ run[p] \in {"inspect", "create", "start", "ok", "err"}
  /\ run[p] \in {"inspect", "create"} => ~Exists(Now(p))
  /\ run[p] \in {"start", "ok"} => Exists(Now(p)) /\ Now(p).by = p /\ Now(p).config = arg[p].config
  /\ run[p] = "ok" => Running(Now(p))
  /\ run[p] = "err" => PortTaken(ctr, Target(p), arg[p].config)

\* A spec that holds already, and that the controller can tell to hold.
Matched(p) ==
  /\ IsRegistry(Before(p)) /\ Satisfies(Before(p), req[p].spec)
  /\ OwnKeys \cap Keys(req[p].spec.labels) = {}
  /\ ImageEnv[Before(p).config.image] = {}

Proceeds(p) ==
  /\ IF at[p] \in Getting THEN Reads(p) ELSE mem[p].seen = {}
  /\ at[p] \in {"check", "apply", "delete", "rm"} => Now(p) = Before(p)
  /\ at[p] \in {"delete", "rm", "clear", "clearrm", "configure"} /\ Applies(p) => Recalls(p)
  /\ at[p] = "delete" /\ Applies(p) => IsRegistry(Now(p))
  /\ at[p] \in {"rm", "clearrm"} => VictimStands(p)
  /\ at[p] = "configure" => ~Exists(Now(p))
  /\ at[p] = "run" => RunsAlone(p)
  /\ at[p] = "confirm" => Running(Now(p)) /\ Right(p, Now(p).config)
  /\ Applies(p) /\ Matched(p) => at[p] \in {"check", "apply"}
  /\ req[p].kind = "create" /\ IsRegistry(Before(p)) => at[p] = "check"

AllImages == images = Run!Images

AloneInv ==
  /\ MatchInv
  /\ AllImages
  /\ \A p \in Calls : alone[p] /\ at[p] \in InFlight => Proceeds(p)

-------------------------------------------------------------------------------
(***************************************************************************)
(* One call, alone: what it reads is so, and what it makes of it is right.   *)
(***************************************************************************)

LEMMA FaithfulStays ==
  ASSUME UNCHANGED ctr, NEW r
  PROVE  Faithful(r)' <=> Faithful(r)
BY DEF Faithful, IsRegistry, Exists, Running, Publishes, Marked, RoleLabel, DefaultRegistryImageRef, Summary,
   AddrOf, InvalidIP, Unset

LEMMA IsFoundStays ==
  ASSUME UNCHANGED ctr, NEW n, NEW found
  PROVE  IsFound(n, found)' <=> IsFound(n, found)
BY DEF IsFound, IsRegistry, Exists, Running, Publishes, InvalidIP, Marked, RoleLabel, DefaultRegistryImageRef,
   EnvOf, Override, Keys

\* What a call sees of its registry when nothing changes but its own memory.
LEMMA Unmoved ==
  ASSUME TypeOK, NEW p \in Calls, UNCHANGED <<ctr, req>>
  PROVE  /\ Target(p)' = Target(p) /\ Now(p)' = Now(p) /\ req'[p] = req[p]
         /\ (Applies(p)' <=> Applies(p))
         /\ (IsRegistry(Now(p))' <=> IsRegistry(Now(p)))
         /\ (Exists(Now(p))' <=> Exists(Now(p)))
         /\ (Running(Now(p))' <=> Running(Now(p)))
BY AppliesStays DEF Now, IsRegistry, Exists, Running, Marked, RoleLabel, DefaultRegistryImageRef

\* A Get begins.
LEMMA FreshReads ==
  ASSUME NEW p \in Calls, mem'[p].step = "role", mem'[p].seen = {}, mem'[p].found = NoRegistry
  PROVE  Reads(p)'
BY DEF Reads, Found, NoRegistry, Unset

\* A Get goes on.
LEMMA ReadsOn ==
  ASSUME TypeOK, NEW p \in Calls, UNCHANGED <<ctr, req>>,
         NEW step, NEW seen, NEW found, mem'[p].step = step, mem'[p].seen = seen, mem'[p].found = found,
         \A r \in seen : Faithful(r),
         Found(found) => step = "inspect" /\ IsFound(Target(p), found),
         step = "ancestor" /\ Exists(Now(p)) /\ RoleLabel \in Now(p).config.labels =>
           \E r \in seen : r.name = Target(p),
         step = "inspect" /\ IsRegistry(Now(p)) => Found(found) \/ \E r \in seen : r.name = Target(p)
  PROVE  Reads(p)'
<1>1. PICK n \in Names : n = Target(p)
  BY RequestType
<1>2. Target(p)' = n /\ Now(p)' = Now(p)
  BY <1>1, Unmoved
<1>3. \A r \in seen : Faithful(r)'
  BY FaithfulStays
<1>4. Found(found) => step = "inspect" /\ IsFound(n, found)'
  BY <1>1, IsFoundStays
<1>5. step = "inspect" /\ IsRegistry(Now(p))' => Found(found) \/ \E r \in seen : r.name = n
  BY <1>1, Unmoved
<1>6. step = "ancestor" /\ Exists(Now(p))' /\ RoleLabel \in Now(p)'.config.labels => \E r \in seen : r.name = n
  BY <1>1, Unmoved
<1>7. (\A r \in mem[p].seen : Faithful(r))'
  BY <1>3
<1>8. (Found(mem[p].found) => mem[p].step = "inspect" /\ IsFound(Target(p), mem[p].found))'
  BY <1>2, <1>4 DEF Found, NoRegistry, Unset, IsFound, IsRegistry, Exists, Running, Publishes, InvalidIP,
     Marked, RoleLabel, DefaultRegistryImageRef, EnvOf, Override, Keys
<1>9. (mem[p].step = "ancestor" /\ Exists(Now(p)) /\ RoleLabel \in Now(p).config.labels =>
         \E r \in mem[p].seen : r.name = Target(p))'
  BY <1>2, <1>6 DEF Exists, RoleLabel
<1>10. (mem[p].step = "inspect" /\ IsRegistry(Now(p)) =>
         Found(mem[p].found) \/ \E r \in mem[p].seen : r.name = Target(p))'
  BY <1>2, <1>5 DEF Found, NoRegistry, Unset, IsRegistry, Exists, Marked, RoleLabel, DefaultRegistryImageRef
<1> QED
  BY <1>7, <1>8, <1>9, <1>10 DEF Reads

LEMMA ReadsByRole ==
  ASSUME BaseInv, NEW p \in Calls, ListByRole(p), Reads(p)
  PROVE  Reads(p)'
<1>1. TypeOK /\ Configured
  BY DEF BaseInv
<1>2. PICK listed :
        /\ Learns(p, "ancestor", listed, mem[p].found, mem[p].existing, mem[p].victim)
        /\ \A r \in listed : Faithful(r)
        /\ Exists(Now(p)) /\ RoleLabel \in Now(p).config.labels => \E r \in listed : r.name = Target(p)
  BY <1>1, ListByRoleMoves
<1>3. ~Found(mem[p].found) /\ UNCHANGED <<ctr, req>>
  BY <1>1, ListByRoleMoves DEF Reads, Thinks
<1>4. PICK found : found = mem[p].found
  OBVIOUS
<1>5. mem'[p].step = "ancestor" /\ mem'[p].seen = listed /\ mem'[p].found = found
  BY <1>2, <1>4 DEF Learns
<1> QED
  BY <1>1, <1>2, <1>3, <1>4, <1>5, ReadsOn

LEMMA ReadsByAncestor ==
  ASSUME BaseInv, NEW p \in Calls, ListByAncestor(p), Reads(p)
  PROVE  Reads(p)'
<1>1. TypeOK /\ Configured
  BY DEF BaseInv
<1>2. PICK seen :
        /\ Learns(p, "inspect", seen, mem[p].found, mem[p].existing, mem[p].victim)
        /\ \A r \in seen : r \in mem[p].seen \/ Faithful(r)
        /\ (\E r \in mem[p].seen : r.name = Target(p)) => \E r \in seen : r.name = Target(p)
        /\ Exists(Now(p)) /\ Now(p).config.image = DefaultRegistryImageRef => \E r \in seen : r.name = Target(p)
  BY <1>1, ListByAncestorMoves
<1>3. ~Found(mem[p].found) /\ UNCHANGED <<ctr, req>> /\ mem[p].step = "ancestor"
  BY <1>1, ListByAncestorMoves DEF Reads, Thinks
<1>4. PICK found : found = mem[p].found
  OBVIOUS
<1>5. mem'[p].step = "inspect" /\ mem'[p].seen = seen /\ mem'[p].found = found
  BY <1>2, <1>4 DEF Learns
<1>6. \A r \in seen : Faithful(r)
  BY <1>2 DEF Reads
<1>7. IsRegistry(Now(p)) => \E r \in seen : r.name = Target(p)
  BY <1>2, <1>3 DEF Reads, IsRegistry, Marked
<1> QED
  BY <1>1, <1>3, <1>4, <1>5, <1>6, <1>7, ReadsOn

\* What is listed is there to be inspected.
LEMMA ListedStands ==
  ASSUME BaseInv, NEW p \in Calls, Reads(p), NEW r \in mem[p].seen
  PROVE  Stands(r)
BY FaithfulFacts DEF BaseInv, Reads, Stands

\* An address is reported as invalid only where no port is published.
LEMMA RegistryAddress ==
  ASSUME TypeOK, Configured, NEW r, Faithful(r), r.addr = InvalidIP
  PROVE  ctr[r.name].config.port = 0
<1>1. ctr[r.name].config \in Configs /\ r.addr \in {Unset, AddrOf(ctr[r.name].config)}
  BY FaithfulFacts DEF Configured
<1>2. InvalidIP # Unset
  BY DEF InvalidIP, Unset
<1> QED
  BY <1>1, <1>2, ConfigsAssumption DEF AddrOf

LEMMA ReadsInspected ==
  ASSUME BaseInv, NEW p \in Calls, InspectListed(p), Reads(p)
  PROVE  Reads(p)' /\ at'[p] = at[p] /\ mem'[p].existing = mem[p].existing /\ mem'[p].before = mem[p].before
         /\ mem'[p].victim = mem[p].victim
<1>1. TypeOK /\ Configured /\ UNCHANGED <<ctr, req>> /\ mem[p].step = "inspect"
  BY InspectListedMoves DEF BaseInv, Thinks
<1>2. PICK r \in mem[p].seen :
        /\ Stands(r) /\ at'[p] = at[p]
        /\ Learns(p, "inspect", mem[p].seen \ {r}, mem'[p].found, mem[p].existing, mem[p].victim)
        /\ mem'[p].found = IF r.name = Target(p) THEN [r EXCEPT !.env = EnvOf(ctr[r.name])] ELSE mem[p].found
  BY <1>1, InspectListedMoves, ListedStands
<1>3. PICK found : found = mem'[p].found
  OBVIOUS
<1>4. PICK seen : seen = mem[p].seen \ {r}
  OBVIOUS
<1>5. mem'[p].step = "inspect" /\ mem'[p].seen = seen /\ mem'[p].found = found
  BY <1>2, <1>3, <1>4 DEF Learns
<1>6. \A s \in seen : Faithful(s)
  BY <1>4 DEF Reads
<1>7. CASE r.name = Target(p)
  <2>1. Faithful(r) /\ r \in Registries
    BY <1>1, MemoryType DEF Reads
  <2>2. /\ found.name = r.name /\ found.by = r.by /\ found.state = r.state /\ found.image = r.image
        /\ found.labels = r.labels /\ found.port = r.port /\ found.addr = r.addr /\ found.env = EnvOf(ctr[r.name])
    BY <1>2, <1>3, <1>7, <2>1, Inspected
  <2>3. IsFound(Target(p), found)
    BY <1>1, <1>7, <2>1, <2>2, FaithfulFacts, RegistryAddress DEF IsFound
  <2>4. Found(found)
    BY <1>1, <2>1, <2>2, FaithfulFacts, NoRegistryFields DEF Found, IsRegistry, Exists
  <2> QED
    BY <1>1, <1>2, <1>5, <1>6, <2>3, <2>4, ReadsOn DEF Learns
<1>8. CASE r.name # Target(p)
  <2>1. found = mem[p].found
    BY <1>2, <1>3, <1>8
  <2>2. Found(found) => IsFound(Target(p), found)
    BY <2>1 DEF Reads
  <2>3. IsRegistry(Now(p)) => Found(found) \/ \E s \in seen : s.name = Target(p)
    BY <1>1, <1>4, <1>8, <2>1 DEF Reads
  <2> QED
    BY <1>1, <1>2, <1>5, <1>6, <2>2, <2>3, ReadsOn DEF Learns
<1> QED
  BY <1>7, <1>8

\* The Get is over: a registry is found if and only if there is one.
LEMMA GetFinds ==
  ASSUME NEW p \in Calls, NEW place, Got(p, place), Reads(p)
  PROVE  /\ Found(mem[p].found) <=> IsRegistry(Now(p))
         /\ Found(mem[p].found) => IsFound(Target(p), mem[p].found)
BY DEF Got, Reads, IsFound, Now

\* What was before the call stays before it.
LEMMA BeforeStays ==
  ASSUME NEW p \in Calls, UNCHANGED req, mem'[p].before = mem[p].before
  PROVE  /\ Before(p)' = Before(p)
         /\ (IsRegistry(Before(p))' <=> IsRegistry(Before(p)))
         /\ (Matched(p)' <=> Matched(p))
<1>1. Before(p)' = Before(p) /\ req' = req
  BY DEF Before
<1>2. IsRegistry(Before(p))' <=> IsRegistry(Before(p))
  BY <1>1 DEF IsRegistry, Exists, Marked, RoleLabel, DefaultRegistryImageRef
<1>3. Matched(p)' <=> Matched(p)
  BY <1>1, <1>2 DEF Matched, Satisfies, Running, Fulfils, OwnKeys, DesktopKey, RoleLabel, DesiredEnv,
     DeleteEnabled, Override, Keys, Unset
<1> QED
  BY <1>1, <1>2, <1>3

LEMMA RecallsStays ==
  ASSUME NEW p \in Calls, UNCHANGED req, mem'[p].before = mem[p].before, mem'[p].existing = mem[p].existing
  PROVE  Recalls(p)' <=> Recalls(p)
<1>1. Before(p)' = Before(p) /\ (IsRegistry(Before(p))' <=> IsRegistry(Before(p)))
  BY BeforeStays
<1> QED
  BY <1>1 DEF Recalls, Found, NoRegistry, Unset, Running, Publishes, InvalidIP

LEMMA RightStays ==
  ASSUME NEW p \in Calls, UNCHANGED req, mem'[p].before = mem[p].before, NEW config
  PROVE  Right(p, config)' <=> Right(p, config)
<1>1. Before(p)' = Before(p) /\ (IsRegistry(Before(p))' <=> IsRegistry(Before(p))) /\ req' = req
  BY BeforeStays
<1>2. PICK before : before = Before(p)
  OBVIOUS
<1>3. PICK spec : spec = req[p].spec
  OBVIOUS
<1>4. Fulfils(config, spec)' <=> Fulfils(config, spec)
  BY DEF Fulfils, OwnKeys, DesktopKey, RoleLabel, DesiredEnv, DeleteEnabled, Override, Keys, Unset
<1>5. Keeps(before, config, spec)' <=> Keeps(before, config, spec)
  BY DEF Keeps, OwnKeys, DesktopKey, RoleLabel, Keys, Unset, Running, Publishes
<1>6. Fulfils(config, req[p].spec)' <=> Fulfils(config, req[p].spec)
  BY <1>1, <1>3, <1>4 DEF Fulfils, OwnKeys, DesktopKey, RoleLabel, DesiredEnv, DeleteEnabled, Override, Keys, Unset
<1>7. Keeps(Before(p), config, req[p].spec)' <=> Keeps(Before(p), config, req[p].spec)
  BY <1>1, <1>2, <1>3, <1>5 DEF Keeps, OwnKeys, DesktopKey, RoleLabel, Keys, Unset, Running, Publishes
<1> QED
  BY <1>1, <1>6, <1>7 DEF Right, RoleLabel

\* How a step proceeds.
LEMMA ProceedsTo ==
  ASSUME NEW p \in Calls, UNCHANGED req, mem'[p].before = mem[p].before,
         NEW place, at'[p] = place,
         IF place \in Getting THEN Reads(p)' ELSE mem'[p].seen = {},
         place \in {"check", "apply", "delete", "rm"} => Now(p)' = Before(p),
         place \in {"delete", "rm", "clear", "clearrm", "configure"} /\ Applies(p) => Recalls(p)',
         place = "delete" /\ Applies(p) => IsRegistry(Now(p))',
         place \in {"rm", "clearrm"} => VictimStands(p)',
         place = "configure" => ~Exists(Now(p))',
         place = "run" => RunsAlone(p)',
         place = "confirm" => Running(Now(p))' /\ Right(p, Now(p).config)',
         Applies(p) /\ Matched(p) => place \in {"check", "apply"},
         req[p].kind = "create" /\ IsRegistry(Before(p)) => place = "check"
  PROVE  Proceeds(p)'
<1>1. /\ Before(p)' = Before(p) /\ (IsRegistry(Before(p))' <=> IsRegistry(Before(p)))
      /\ (Matched(p)' <=> Matched(p)) /\ (Applies(p)' <=> Applies(p)) /\ req'[p] = req[p]
  BY BeforeStays, AppliesStays
<1>2. IF at'[p] \in Getting' THEN Reads(p)' ELSE mem'[p].seen = {}
  BY DEF Getting
<1>3. at'[p] \in {"check", "apply", "delete", "rm"} => Now(p)' = Before(p)'
  BY <1>1
<1>4. at'[p] \in {"delete", "rm", "clear", "clearrm", "configure"} /\ Applies(p)' => Recalls(p)'
  BY <1>1
<1>5. at'[p] = "delete" /\ Applies(p)' => IsRegistry(Now(p))'
  BY <1>1
<1>6. at'[p] = "configure" => ~Exists(Now(p))'
  OBVIOUS
<1>7. at'[p] = "confirm" => Running(Now(p))' /\ Right(p, Now(p).config)'
  OBVIOUS
<1>8. Applies(p)' /\ Matched(p)' => at'[p] \in {"check", "apply"}
  BY <1>1
<1>9. req'[p].kind = "create" /\ IsRegistry(Before(p))' => at'[p] = "check"
  BY <1>1
<1> QED
  BY <1>2, <1>3, <1>4, <1>5, <1>6, <1>7, <1>8, <1>9 DEF Proceeds

\* The steps of one call, alone.
LEMMA BeginProceeds ==
  ASSUME BaseInv, NEW p \in Calls, Begin(p)
  PROVE  Proceeds(p)'
<1>1. TypeOK /\ Fits(p)
  BY DEF BaseInv
<1>2. /\ Thinks(p) /\ at[p] = "idle"
      /\ at'[p] = CASE req[p].kind = "create" -> "check"
                    [] req[p].kind = "delete" -> "delete"
                    [] OTHER                  -> "apply"
      /\ mem'[p].step = mem[p].step /\ mem'[p].seen = mem[p].seen /\ mem'[p].found = mem[p].found
      /\ mem'[p].before = Now(p)
  BY <1>1, BeginMoves
<1>3. mem[p] = Blank
  BY <1>1, <1>2 DEF Fits
<1>4. Reads(p)'
  BY <1>2, <1>3, BlankFields, FreshReads
<1>5. UNCHANGED <<ctr, req>> /\ Now(p)' = Now(p) /\ Before(p)' = Now(p) /\ (Applies(p)' <=> Applies(p)) /\ req'[p] = req[p]
  BY <1>1, <1>2, Unmoved DEF Thinks, Before
<1>6. at'[p] \in Getting'
  BY <1>2 DEF Getting
<1>7. at'[p] \in {"check", "apply"} \/ (at'[p] = "delete" /\ ~Applies(p)')
  BY <1>2, <1>5 DEF Applies
<1>8. req'[p].kind = "create" => at'[p] = "check"
  BY <1>2, <1>5
<1> QED
  BY <1>4, <1>5, <1>6, <1>7, <1>8 DEF Proceeds

LEMMA GetProceeds ==
  ASSUME BaseInv, NEW p \in Calls, Proceeds(p), ListByRole(p) \/ ListByAncestor(p) \/ InspectListed(p)
  PROVE  Proceeds(p)'
<1>1. TypeOK /\ Configured
  BY DEF BaseInv
<1>2. at[p] \in Getting /\ Thinks(p)
  BY <1>1, ListByRoleMoves, ListByAncestorMoves, InspectListedMoves
<1>3. Reads(p)
  BY <1>2 DEF Proceeds
<1>4. /\ Reads(p)' /\ at'[p] = at[p] /\ mem'[p].existing = mem[p].existing
      /\ mem'[p].before = mem[p].before
  BY <1>1, <1>3, ReadsByRole, ReadsByAncestor, ReadsInspected, ListByRoleMoves, ListByAncestorMoves DEF Learns
<1>5. UNCHANGED <<ctr, req>> /\ Now(p)' = Now(p) /\ (IsRegistry(Now(p))' <=> IsRegistry(Now(p)))
      /\ (Running(Now(p))' <=> Running(Now(p)))
  BY <1>1, <1>2, Unmoved DEF Thinks
<1>6. Recalls(p)' <=> Recalls(p)
  BY <1>4, <1>5, RecallsStays
<1>7. PICK config : config = Now(p).config
  OBVIOUS
<1>8. Right(p, config)' <=> Right(p, config)
  BY <1>4, <1>5, RightStays
<1>9. at[p] = "confirm" => Running(Now(p))' /\ Right(p, Now(p).config)'
  <2>1. at[p] = "confirm" => Running(Now(p)) /\ Right(p, config)
    BY <1>7 DEF Proceeds
  <2>2. Now(p)'.config = config
    BY <1>5, <1>7
  <2>3. at[p] = "confirm" => Right(p, config)'
    BY <1>8, <2>1
  <2> QED
    BY <1>5, <2>1, <2>2, <2>3 DEF Right, Fulfils, Keeps
<1>10. PICK place : place = at[p]
  OBVIOUS
<1>11. place \in Getting /\ at'[p] = place
  BY <1>2, <1>4, <1>10
<1>12. /\ place \in {"check", "apply", "delete", "rm"} => Now(p)' = Before(p)
       /\ place \in {"delete", "rm", "clear", "clearrm", "configure"} /\ Applies(p) => Recalls(p)'
       /\ place = "delete" /\ Applies(p) => IsRegistry(Now(p))'
       /\ place = "confirm" => Running(Now(p))' /\ Right(p, Now(p).config)'
       /\ Applies(p) /\ Matched(p) => place \in {"check", "apply"}
       /\ req[p].kind = "create" /\ IsRegistry(Before(p)) => place = "check"
  BY <1>5, <1>6, <1>9, <1>10 DEF Proceeds
<1>13. place \notin {"rm", "clearrm", "configure", "run"}
  BY <1>11 DEF Getting
<1> QED
  BY <1>4, <1>5, <1>11, <1>12, <1>13, ProceedsTo

LEMMA CheckNewProceeds ==
  ASSUME BaseInv, NEW p \in Calls, Proceeds(p), CheckNew(p), at'[p] \in InFlight
  PROVE  Proceeds(p)'
<1>1. TypeOK
  BY DEF BaseInv
<1>2. /\ Thinks(p) /\ Got(p, "check") /\ ~Found(mem[p].found) /\ at'[p] = "apply"
      /\ Learns(p, "role", {}, NoRegistry, mem[p].existing, mem[p].victim)
  BY <1>1, CheckNewMoves DEF Returns, InFlight, Getting
<1>3. Reads(p) /\ Now(p) = Before(p)
  BY <1>2 DEF Proceeds, Got, Getting
<1>4. ~IsRegistry(Before(p))
  BY <1>2, <1>3, GetFinds
<1>5. Reads(p)' /\ "apply" \in Getting
  BY <1>2, FreshReads DEF Learns, Getting
<1>6. Now(p)' = Before(p) /\ UNCHANGED req
  BY <1>1, <1>2, <1>3, Unmoved DEF Thinks
<1>7. mem'[p].before = mem[p].before
  BY <1>2 DEF Learns
<1> QED
  BY <1>2, <1>4, <1>5, <1>6, <1>7, ProceedsTo

\* A spec that holds and that the controller can tell to hold is not acted on.
LEMMA MatchedIsKept ==
  ASSUME NEW p \in Calls, Matched(p), NEW found, Found(found), IsFound(Target(p), found), Now(p) = Before(p)
  PROVE  ~NeedsDelete(found, req[p].spec)
<1> DEFINE config == Now(p).config
           spec == req[p].spec
<1>1. /\ found.image = config.image /\ found.labels = config.labels /\ found.env = EnvOf(Now(p))
      /\ Running(Now(p)) => found.port = config.port
      /\ found.state = Now(p).state
  BY DEF IsFound, Now
<1>2. Running(Now(p)) /\ Fulfils(config, spec)
  BY DEF Matched, Satisfies
<1>3. ~PortDiffers(found, spec) /\ ~ImageDiffers(found, spec) /\ ~Died(found)
  BY <1>1, <1>2 DEF PortDiffers, ImageDiffers, Died, Running, Fulfils
<1>4. spec.labels \subseteq config.labels
  BY <1>2 DEF Fulfils, Matched, Keys
<1>5. \A env : Override({}, env) = env
  BY DEF Override
<1>6. ImageEnv[config.image] = {}
  BY DEF Matched
<1>7. config.env = DesiredEnv(spec)
  BY <1>2, <1>5, <1>6 DEF Fulfils
<1>8. EnvOf(Now(p)) = config.env
  BY <1>5, <1>6 DEF EnvOf
<1> QED
  BY <1>1, <1>3, <1>4, <1>7, <1>8 DEF NeedsDelete, LabelMissing, EnvDiffers

LEMMA DecideProceeds ==
  ASSUME BaseInv, NEW p \in Calls, Proceeds(p), Decide(p), at'[p] \in InFlight
  PROVE  Proceeds(p)'
<1>1. TypeOK
  BY DEF BaseInv
<1>2. /\ Thinks(p) /\ Got(p, "apply")
      /\ Learns(p, "role", {}, NoRegistry, mem[p].found, mem[p].victim)
      /\ \/ ~Found(mem[p].found) /\ at'[p] = "clear"
         \/ Found(mem[p].found) /\ NeedsDelete(mem[p].found, req[p].spec) /\ at'[p] = "delete"
  BY <1>1, DecideMoves DEF Returns, InFlight, Getting
<1>3. Reads(p) /\ Now(p) = Before(p) /\ (req[p].kind = "create" => ~IsRegistry(Before(p)))
  BY <1>2 DEF Proceeds, Got, Getting
<1>4. (Found(mem[p].found) <=> IsRegistry(Now(p))) /\ (Found(mem[p].found) => IsFound(Target(p), mem[p].found))
  BY <1>2, <1>3, GetFinds
<1>5. mem'[p].before = mem[p].before /\ mem'[p].existing = mem[p].found /\ mem'[p].seen = {} /\ UNCHANGED req
  BY <1>2 DEF Learns, Thinks
<1>6. Now(p)' = Before(p) /\ (IsRegistry(Now(p))' <=> IsRegistry(Now(p)))
  BY <1>1, <1>2, <1>3, Unmoved DEF Thinks
<1>7. Recalls(p)'
  <2>1. PICK before : before = Before(p)
    OBVIOUS
  <2>2. PICK old : old = mem[p].found
    OBVIOUS
  <2>3. IF IsRegistry(before)
          THEN /\ Found(old) /\ old.image = before.config.image /\ old.labels = before.config.labels
               /\ Running(before) => old.port = before.config.port
               /\ Publishes(before) => old.addr = before.config.addr
               /\ old.addr = InvalidIP => before.config.port = 0
          ELSE ~Found(old)
    BY <1>3, <1>4, <2>1, <2>2 DEF IsFound, Now
  <2>4. Before(p)' = before /\ mem'[p].existing = old
    BY <1>5, <2>1, <2>2 DEF Before
  <2> QED
    BY <2>3, <2>4 DEF Recalls, IsRegistry, Exists, Marked, RoleLabel, DefaultRegistryImageRef, Found, NoRegistry,
       Unset, Running, Publishes, InvalidIP
<1>8. Matched(p) => FALSE
  <2>1. ASSUME Matched(p)
        PROVE  FALSE
    <3>1. Found(mem[p].found)
      BY <1>3, <1>4, <2>1 DEF Matched
    <3> QED
      BY <1>2, <1>3, <1>4, <2>1, <3>1, MatchedIsKept
  <2> QED
    BY <2>1
<1>9. CASE at'[p] = "clear" /\ ~Found(mem[p].found)
  <2>1. "clear" \notin Getting /\ ~IsRegistry(Before(p))
    BY <1>3, <1>4, <1>9 DEF Getting
  <2> QED
    BY <1>5, <1>7, <1>8, <1>9, <2>1, ProceedsTo
<1>10. CASE at'[p] = "delete" /\ Found(mem[p].found)
  <2>1. Reads(p)' /\ "delete" \in Getting /\ IsRegistry(Now(p))'
    BY <1>2, <1>4, <1>6, <1>10, FreshReads DEF Learns, Getting
  <2>2. ~(req[p].kind = "create" /\ IsRegistry(Before(p)))
    BY <1>3
  <2> QED
    BY <1>5, <1>6, <1>7, <1>8, <1>10, <2>1, <2>2, ProceedsTo
<1> QED
  BY <1>2, <1>9, <1>10

LEMMA FindDoomedProceeds ==
  ASSUME BaseInv, NEW p \in Calls, Proceeds(p), FindDoomed(p), at'[p] \in InFlight
  PROVE  Proceeds(p)'
<1>1. TypeOK
  BY DEF BaseInv
<1>2. /\ Thinks(p) /\ Got(p, "delete") /\ Found(mem[p].found) /\ at'[p] = "rm"
      /\ Learns(p, mem[p].step, mem[p].seen, mem[p].found, mem[p].existing, mem[p].found.by)
  BY <1>1, FindDoomedMoves DEF Returns, InFlight, Getting
<1>3. /\ Reads(p) /\ Now(p) = Before(p) /\ (Applies(p) => Recalls(p))
      /\ ~(Applies(p) /\ Matched(p)) /\ ~(req[p].kind = "create" /\ IsRegistry(Before(p)))
  BY <1>2 DEF Proceeds, Got, Getting
<1>4. IsFound(Target(p), mem[p].found)
  BY <1>2, <1>3, GetFinds
<1>5. /\ mem'[p].before = mem[p].before /\ mem'[p].existing = mem[p].existing /\ mem'[p].seen = {}
      /\ UNCHANGED req /\ mem'[p].victim = mem[p].found.by
  BY <1>2 DEF Learns, Thinks, Got
<1>6. Now(p)' = Before(p) /\ Target(p)' = Target(p) /\ UNCHANGED ctr
  BY <1>1, <1>2, <1>3, Unmoved DEF Thinks
<1>7. VictimStands(p)'
  BY <1>4, <1>5, <1>6 DEF IsFound, IsRegistry, VictimStands, Exists
<1>8. Applies(p) => Recalls(p)'
  BY <1>3, <1>5, RecallsStays
<1>9. "rm" \notin Getting
  BY DEF Getting
<1> QED
  BY <1>2, <1>3, <1>5, <1>6, <1>7, <1>8, <1>9, ProceedsTo

LEMMA DeleteProceeds ==
  ASSUME BaseInv, NEW p \in Calls, Proceeds(p), Delete(p), at'[p] \in InFlight
  PROVE  Proceeds(p)'
<1>1. TypeOK
  BY DEF BaseInv
<1>2. Clears(p) /\ at[p] = "rm" /\ Applies(p) /\ at'[p] = "clear" /\ mem'[p] = mem[p]
  BY <1>1, DeleteMoves DEF Returns, InFlight, Getting
<1>3. /\ mem[p].seen = {} /\ Recalls(p)
      /\ ~(Applies(p) /\ Matched(p)) /\ ~(req[p].kind = "create" /\ IsRegistry(Before(p)))
  BY <1>2 DEF Proceeds, Getting
<1>4. UNCHANGED req
  BY <1>2 DEF Clears
<1>5. Recalls(p)' /\ "clear" \notin Getting
  BY <1>2, <1>3, <1>4, RecallsStays DEF Getting
<1> QED
  BY <1>2, <1>3, <1>4, <1>5, ProceedsTo

LEMMA LeftoverProceeds ==
  ASSUME BaseInv, NEW p \in Calls, Proceeds(p), InspectLeftover(p)
  PROVE  Proceeds(p)'
<1>1. TypeOK /\ Fits(p)
  BY DEF BaseInv
<1>2. /\ Thinks(p) /\ at[p] = "clear"
      /\ \/ /\ Exists(Now(p)) /\ at'[p] = "clearrm"
            /\ Learns(p, mem[p].step, mem[p].seen, mem[p].found, mem[p].existing, Now(p).by)
         \/ ~Exists(Now(p)) /\ at'[p] = "configure" /\ mem'[p] = mem[p]
  BY <1>1, InspectLeftoverMoves
<1>3. /\ mem[p].seen = {} /\ Recalls(p) /\ Applies(p)
      /\ ~(Applies(p) /\ Matched(p)) /\ ~(req[p].kind = "create" /\ IsRegistry(Before(p)))
  BY <1>1, <1>2 DEF Proceeds, Getting, Fits
<1>4. /\ mem'[p].before = mem[p].before /\ mem'[p].existing = mem[p].existing /\ mem'[p].seen = {}
      /\ UNCHANGED <<ctr, req>>
  BY <1>2, <1>3 DEF Learns, Thinks
<1>5. Recalls(p)'
  BY <1>3, <1>4, RecallsStays
<1>6. Target(p)' = Target(p) /\ (Exists(Now(p))' <=> Exists(Now(p)))
  BY <1>1, <1>4, Unmoved
<1>7. at'[p] = "clearrm" => VictimStands(p)'
  BY <1>2, <1>4, <1>6 DEF Learns, VictimStands, Now, Exists
<1>8. {"clearrm", "configure"} \cap Getting = {}
  BY DEF Getting
<1>9. CASE at'[p] = "clearrm"
  BY <1>3, <1>4, <1>5, <1>7, <1>8, <1>9, ProceedsTo
<1>10. CASE at'[p] = "configure"
  BY <1>2, <1>3, <1>4, <1>5, <1>6, <1>8, <1>10, ProceedsTo
<1> QED
  BY <1>2, <1>9, <1>10

LEMMA RemoveLeftoverProceeds ==
  ASSUME BaseInv, NEW p \in Calls, Proceeds(p), RemoveLeftover(p), at'[p] \in InFlight
  PROVE  Proceeds(p)'
<1>1. TypeOK /\ Fits(p)
  BY DEF BaseInv
<1>2. Clears(p) /\ at[p] = "clearrm" /\ Removes(p) /\ at'[p] = "configure" /\ mem'[p] = mem[p]
  BY <1>1, RemoveLeftoverMoves DEF Returns, InFlight, Getting
<1>3. /\ mem[p].seen = {} /\ Recalls(p)
      /\ ~(Applies(p) /\ Matched(p)) /\ ~(req[p].kind = "create" /\ IsRegistry(Before(p)))
  BY <1>1, <1>2 DEF Proceeds, Getting, Fits
<1>4. UNCHANGED req /\ Target(p)' = Target(p)
  BY <1>2, AppliesStays DEF Clears
<1>5. Recalls(p)' /\ "configure" \notin Getting
  BY <1>2, <1>3, <1>4, RecallsStays DEF Getting
<1>6. ~Exists(Now(p))'
  BY <1>2, <1>4, GoneFields DEF Removes, Now, Exists
<1> QED
  BY <1>2, <1>3, <1>4, <1>5, <1>6, ProceedsTo

\* What is configured keeps what the spec leaves open.
LEMMA ConfiguredKeeps ==
  ASSUME TypeOK, NEW p \in Calls, Recalls(p), Remembers(p), IsRegistry(Before(p)),
         NEW port \in PortConfigs(mem[p].existing, req[p].spec)
  PROVE  Keeps(Before(p), ConfigFor(mem[p].existing, req[p].spec, port), req[p].spec)
<1> DEFINE old == mem[p].existing
           spec == req[p].spec
           was == Before(p).config
           new == ConfigFor(mem[p].existing, req[p].spec, port)
<1>1. /\ Found(old) /\ old.image = was.image /\ old.labels = was.labels
      /\ Publishes(Before(p)) => old.port = was.port /\ old.addr = was.addr
  BY DEF Recalls, Publishes
<1>2. old.image # Unset
  BY <1>1, ConfigsAssumption DEF Remembers, Readable, Describes
<1>3. spec.image = Unset => new.image = was.image
  BY <1>1, <1>2, ConfigFields DEF ImageConfig
<1>4. ASSUME NEW l \in was.labels, l[1] \notin Keys(spec.labels) \cup OwnKeys
      PROVE  l \in new.labels
  <2>1. l \in Override(old.labels, spec.labels)
    BY <1>1, <1>4 DEF Override
  <2>2. Keys({RoleLabel}) = {RoleLabel[1]}
    BY DEF Keys
  <2>3. l \in Override(Override(old.labels, spec.labels), {RoleLabel})
    BY <1>4, <2>1, <2>2 DEF OwnKeys, Override
  <2>4. l \in LabelConfigs(old, spec)
    BY <1>4, <2>3 DEF LabelConfigs, OwnKeys
  <2> QED
    BY <2>4, ConfigFields
<1>5. ASSUME Publishes(Before(p)), spec.port = 0
      PROVE  new.port = was.port
  <2>1. PortConfigs(old, spec) = {old.port}
    BY <1>1, <1>5 DEF PortConfigs, Publishes
  <2> QED
    BY <1>1, <1>5, <2>1, ConfigFields
<1>6. ASSUME Publishes(Before(p)), spec.addr = Unset, was.addr # Unset
      PROVE  new.addr = was.addr
  BY <1>1, <1>6, ConfigFields DEF AddrConfig
<1> HIDE DEF new, was, spec
<1>7. Keeps(Before(p), new, spec)
  BY <1>3, <1>4, <1>5, <1>6 DEF Keeps, was
<1> QED
  BY <1>7 DEF new, spec

LEMMA ConfigureProceeds ==
  ASSUME BaseInv, NEW p \in Calls, Proceeds(p), Configure(p), at'[p] \in InFlight
  PROVE  Proceeds(p)'
<1>1. TypeOK /\ Fits(p) /\ Remembers(p)
  BY DEF BaseInv
<1>2. UNCHANGED <<ctr, images, req>> /\ at[p] = "configure"
  BY <1>1, ConfigureMoves
<1>3. PICK port \in PortConfigs(mem[p].existing, req[p].spec) :
        /\ at'[p] = "run" /\ run'[p] = "inspect" /\ mem'[p] = mem[p]
        /\ arg'[p].config = ConfigFor(mem[p].existing, req[p].spec, port)
  BY <1>1, ConfigureMoves DEF Returns, InFlight, Getting
<1>4. /\ mem[p].seen = {} /\ Recalls(p) /\ ~Exists(Now(p))
      /\ ~(Applies(p) /\ Matched(p)) /\ ~(req[p].kind = "create" /\ IsRegistry(Before(p)))
  BY <1>1, <1>2 DEF Proceeds, Getting, Fits
<1>5. PICK config : config = ConfigFor(mem[p].existing, req[p].spec, port)
  OBVIOUS
<1>6. Right(p, config)
  <2>1. Fulfils(config, req[p].spec) /\ RoleLabel \in config.labels
    BY <1>5, ConfiguredFulfils
  <2>2. IsRegistry(Before(p)) => Keeps(Before(p), config, req[p].spec)
    BY <1>1, <1>4, <1>5, ConfiguredKeeps
  <2> QED
    BY <2>1, <2>2 DEF Right
<1>7. mem'[p].before = mem[p].before /\ arg'[p].config = config
  BY <1>3, <1>5
<1>8. Right(p, config)'
  BY <1>2, <1>6, <1>7, RightStays
<1>9. Right(p, arg[p].config)'
  BY <1>7, <1>8 DEF Right, Fulfils, Keeps
<1>10. ~Exists(Now(p))'
  BY <1>1, <1>2, <1>4, Unmoved
<1>11. RunsAlone(p)'
  BY <1>3, <1>9, <1>10 DEF RunsAlone
<1>12. "run" \notin Getting
  BY DEF Getting
<1> QED
  BY <1>2, <1>3, <1>4, <1>11, <1>12, ProceedsTo

\* dctr.Run, with nothing in its way.
LEMMA RunStepAlone ==
  ASSUME BaseInv, AllImages, NEW p \in Calls, RunsAlone(p), RunStep(p)
  PROVE  /\ arg'[p] = arg[p]
         /\ run'[p] \in {"create", "start", "ok", "err"}
         /\ run'[p] = "create" => ctr' = ctr /\ ~Exists(ctr[Target(p)])
         /\ run'[p] \in {"start", "ok"} =>
              /\ Exists(ctr'[Target(p)]) /\ ctr'[Target(p)].by = p
              /\ ctr'[Target(p)].config = arg[p].config
         /\ run'[p] = "ok" => Running(ctr'[Target(p)])
         /\ run'[p] = "err" => ctr' = ctr /\ PortTaken(ctr, Target(p), arg[p].config)
<1>1. TypeOK /\ Fits(p) /\ at[p] = "run"
  BY DEF BaseInv, RunStep
<1>2. /\ run[p] \in {"inspect", "create", "start", "ok", "err"}
      /\ run[p] \in {"inspect", "create"} => ~Exists(Now(p))
      /\ run[p] = "start" => Exists(Now(p)) /\ Now(p).by = p /\ Now(p).config = arg[p].config
  BY DEF RunsAlone
<1>3. arg'[p] = arg[p]
  BY <1>1, RunStepRuns DEF Runs
<1>4. arg[p].config.image \in images
  BY <1>1, RunType DEF AllImages, Run!Images
<1>5. CASE Run!Inspect(p)
  BY <1>1, <1>2, <1>3, <1>5, RunInspectMoves, RunningExists DEF Now
<1>6. CASE Run!Create(p) \/ Run!Recreate(p)
  <2>1. ~Exists(Now(p))
    BY <1>1, <1>2, <1>6, RunCreateMoves
  <2>2. Makes(p) /\ run'[p] = "start"
    BY <1>1, <1>4, <1>6, <2>1, RunCreateMoves
  <2> QED
    BY <1>1, <1>3, <2>2, NewContainerFields DEF Makes, Exists
<1>7. CASE Run!Start(p)
  <2>1. Exists(Now(p)) /\ Now(p).by = p /\ Now(p).config = arg[p].config
    BY <1>1, <1>2, <1>7, RunStartMoves
  <2>2. CASE PortTaken(ctr, Target(p), arg[p].config) /\ UNCHANGED ctr /\ run'[p] = "err"
    BY <1>3, <2>2
  <2>3. CASE Restates(Target(p), "running") /\ run'[p] = "ok"
    BY <1>3, <2>1, <2>3 DEF Restates, Now, Exists, Running
  <2> QED
    BY <1>1, <1>7, <2>1, <2>2, <2>3, RunStartMoves
<1>8. CASE Run!Remove(p) \/ Run!Pull(p)
  BY <1>1, <1>2, <1>8, RunRemoveMoves, RunPullMoves
<1> QED
  BY <1>5, <1>6, <1>7, <1>8 DEF RunStep, Run!Step

LEMMA RunStepProceeds ==
  ASSUME BaseInv, AllImages, NEW p \in Calls, Proceeds(p), RunStep(p)
  PROVE  Proceeds(p)'
<1>1. TypeOK /\ Fits(p) /\ at[p] = "run"
  BY DEF BaseInv, RunStep
<1>2. UNCHANGED <<req, at, mem, arg>> /\ Target(p)' = Target(p)
  BY <1>1, RunStepRuns, AppliesStays DEF Runs
<1>3. /\ RunsAlone(p) /\ mem[p].seen = {}
      /\ ~(Applies(p) /\ Matched(p)) /\ ~(req[p].kind = "create" /\ IsRegistry(Before(p)))
  BY <1>1 DEF Proceeds, Getting
<1>4. PICK n \in Names : n = Target(p)
  BY <1>1, RequestType
<1>5. PICK config : config = arg[p].config
  OBVIOUS
<1>6. /\ run'[p] \in {"create", "start", "ok", "err"}
      /\ run'[p] = "create" => ctr' = ctr /\ ~Exists(ctr[n])
      /\ run'[p] \in {"start", "ok"} => Exists(ctr'[n]) /\ ctr'[n].by = p /\ ctr'[n].config = config
      /\ run'[p] = "ok" => Running(ctr'[n])
      /\ run'[p] = "err" => ctr' = ctr /\ PortTaken(ctr, n, config)
  BY <1>3, <1>4, <1>5, RunStepAlone
<1>7. Right(p, config)'
  BY <1>2, <1>3, <1>5, RightStays DEF RunsAlone
<1>8. Right(p, arg[p].config)'
  BY <1>2, <1>5, <1>7 DEF Right, Fulfils, Keeps
<1>9. Now(p)' = ctr'[n]
  BY <1>2, <1>4 DEF Now
<1>10. run'[p] = "err" => PortTaken(ctr, Target(p), arg[p].config)'
  BY <1>2, <1>4, <1>5, <1>6 DEF PortTaken, Running
<1>11. RunsAlone(p)'
  BY <1>2, <1>5, <1>6, <1>8, <1>9, <1>10 DEF RunsAlone, Exists, Running
<1>12. "run" \notin Getting /\ at'[p] = "run" /\ mem'[p].seen = {} /\ mem'[p].before = mem[p].before
  BY <1>1, <1>2, <1>3 DEF Getting
<1> QED
  BY <1>2, <1>3, <1>11, <1>12, ProceedsTo

LEMMA ReturnedProceeds ==
  ASSUME BaseInv, NEW p \in Calls, Proceeds(p), RunReturned(p), at'[p] \in InFlight
  PROVE  Proceeds(p)'
<1>1. TypeOK
  BY DEF BaseInv
<1>2. /\ UNCHANGED <<ctr, req>> /\ at[p] = "run" /\ run[p] = "ok" /\ at'[p] = "confirm"
      /\ Learns(p, "role", mem[p].seen, NoRegistry, mem[p].existing, mem[p].victim)
  BY <1>1, RunReturnedMoves DEF Returns, InFlight, Getting
<1>3. /\ RunsAlone(p) /\ mem[p].seen = {}
      /\ ~(Applies(p) /\ Matched(p)) /\ ~(req[p].kind = "create" /\ IsRegistry(Before(p)))
  BY <1>2 DEF Proceeds, Getting
<1>4. PICK config : config = Now(p).config
  OBVIOUS
<1>5. Running(Now(p)) /\ Right(p, config)
  BY <1>2, <1>3, <1>4 DEF RunsAlone
<1>6. mem'[p].before = mem[p].before
  BY <1>2 DEF Learns
<1>7. Running(Now(p))' /\ Now(p)'.config = config
  BY <1>1, <1>2, <1>4, <1>5, Unmoved
<1>8. Right(p, config)'
  BY <1>2, <1>5, <1>6, RightStays
<1>9. Right(p, Now(p).config)'
  BY <1>7, <1>8 DEF Right, Fulfils, Keeps
<1>10. Reads(p)' /\ "confirm" \in Getting
  BY <1>2, <1>3, FreshReads DEF Learns, Getting
<1> QED
  BY <1>2, <1>3, <1>6, <1>7, <1>9, <1>10, ProceedsTo

\* A call that is alone and not through goes on as it should.
LEMMA StepProceeds ==
  ASSUME AloneInv, NEW p \in Calls, Step(p), alone[p], at'[p] \in InFlight
  PROVE  Proceeds(p)'
<1>1. BaseInv /\ TypeOK /\ AllImages /\ (at[p] \in InFlight => Proceeds(p))
  BY DEF AloneInv, MatchInv, BaseInv
<1>2. CASE Begin(p)
  BY <1>1, <1>2, BeginProceeds
<1>3. CASE ~Begin(p)
  <2>1. at[p] \in InFlight
    BY <1>3 DEF Step, ListByRole, ListByAncestor, InspectListed, CheckNew, Decide, FindDoomed, Delete,
       InspectLeftover, RemoveLeftover, Configure, RunStep, RunReturned, Confirm, Got, InFlight, Getting
  <2>2. ~Confirm(p)
    BY <1>1, ConfirmMoves DEF Returns, InFlight, Getting
  <2> QED
    BY <1>1, <1>3, <2>1, <2>2, GetProceeds, CheckNewProceeds, DecideProceeds, FindDoomedProceeds, DeleteProceeds,
       LeftoverProceeds, RemoveLeftoverProceeds, ConfigureProceeds, RunStepProceeds, ReturnedProceeds DEF Step
<1> QED
  BY <1>2, <1>3

\* Whatever is alone after a step took that step, and was alone before it.
LEMMA StillAlone ==
  ASSUME TypeOK, [Next]_vars, NEW p \in Calls, alone'[p], at'[p] \in InFlight
  PROVE  alone[p] /\ (Step(p) \/ UNCHANGED vars)
<1>1. ASSUME NEW q \in Calls, Step(q), Interrupt(q)
      PROVE  alone[p] /\ q = p
  BY <1>1 DEF Interrupt, InFlight, Getting
<1>2. ASSUME Interrupt(Daemon)
      PROVE  FALSE
  BY <1>2, DockerAssumption DEF Interrupt, InFlight, Getting
<1>3. CASE UNCHANGED vars
  BY <1>3 DEF vars
<1> QED
  BY <1>1, <1>2, <1>3 DEF Next

LEMMA ProceedsStays ==
  ASSUME TypeOK, NEW p \in Calls, UNCHANGED vars, Proceeds(p)
  PROVE  Proceeds(p)'
<1>1. UNCHANGED <<ctr, req, at, mem, run, arg>>
  BY DEF vars, daemon
<1>2. /\ Target(p)' = Target(p) /\ Now(p)' = Now(p) /\ (IsRegistry(Now(p))' <=> IsRegistry(Now(p)))
      /\ (Exists(Now(p))' <=> Exists(Now(p))) /\ (Running(Now(p))' <=> Running(Now(p)))
  BY <1>1, Unmoved
<1>3. ASSUME Reads(p)
      PROVE  Reads(p)'
  <2>1. PICK known : known = mem[p]
    OBVIOUS
  <2>2. mem'[p].step = known.step /\ mem'[p].seen = known.seen /\ mem'[p].found = known.found
    BY <1>1, <2>1
  <2> QED
    BY <1>1, <1>3, <2>1, <2>2, ReadsOn DEF Reads
<1>4. Recalls(p)' <=> Recalls(p)
  BY <1>1, RecallsStays
<1>5. ASSUME NEW config, Right(p, config)
      PROVE  Right(p, config)'
  BY <1>1, <1>5, RightStays
<1>6. PICK config : config = Now(p).config
  OBVIOUS
<1>7. PICK given : given = arg[p].config
  OBVIOUS
<1>8. Right(p, Now(p).config) => Right(p, Now(p).config)'
  <2>1. ASSUME Right(p, Now(p).config)
        PROVE  Right(p, config)'
    BY <1>5, <1>6, <2>1
  <2>2. Now(p)'.config = config
    BY <1>2, <1>6
  <2> QED
    BY <2>1, <2>2 DEF Right, Fulfils, Keeps
<1>9. RunsAlone(p) => RunsAlone(p)'
  <2>1. ASSUME RunsAlone(p)
        PROVE  Right(p, given)'
    BY <1>5, <1>7, <2>1 DEF RunsAlone
  <2>2. arg'[p].config = given
    BY <1>1, <1>7
  <2>3. RunsAlone(p) => Right(p, arg[p].config)'
    BY <2>1, <2>2 DEF Right, Fulfils, Keeps
  <2>4. PICK n \in Names : n = Target(p)
    BY RequestType
  <2>5. PortTaken(ctr, n, given)' <=> PortTaken(ctr, n, given)
    BY <1>1 DEF PortTaken, Running
  <2>6. PortTaken(ctr, Target(p), arg[p].config) => PortTaken(ctr, Target(p), arg[p].config)'
    BY <1>1, <1>2, <1>7, <2>4, <2>5 DEF PortTaken, Running
  <2> QED
    BY <1>1, <1>2, <2>3, <2>6 DEF RunsAlone
<1>10. VictimStands(p) => VictimStands(p)'
  BY <1>1, <1>2 DEF VictimStands, Exists
<1>11. PICK place : place = at[p]
  OBVIOUS
<1>12. /\ IF place \in Getting THEN Reads(p)' ELSE mem'[p].seen = {}
       /\ place \in {"check", "apply", "delete", "rm"} => Now(p)' = Before(p)
       /\ place \in {"delete", "rm", "clear", "clearrm", "configure"} /\ Applies(p) => Recalls(p)'
       /\ place = "delete" /\ Applies(p) => IsRegistry(Now(p))'
       /\ place \in {"rm", "clearrm"} => VictimStands(p)'
       /\ place = "configure" => ~Exists(Now(p))'
       /\ place = "run" => RunsAlone(p)'
       /\ place = "confirm" => Running(Now(p))' /\ Right(p, Now(p).config)'
       /\ Applies(p) /\ Matched(p) => place \in {"check", "apply"}
       /\ req[p].kind = "create" /\ IsRegistry(Before(p)) => place = "check"
  BY <1>1, <1>2, <1>3, <1>4, <1>8, <1>9, <1>10, <1>11 DEF Proceeds
<1>13. at'[p] = place /\ mem'[p].before = mem[p].before
  BY <1>1, <1>11
<1> QED
  BY <1>1, <1>12, <1>13, ProceedsTo

LEMMA AloneStep ==
  ASSUME AloneInv, [Next]_vars
  PROVE  AloneInv'
<1>1. MatchInv /\ BaseInv /\ TypeOK /\ MatchInv' /\ TypeOK'
  BY MatchStep, StepType DEF AloneInv, MatchInv, BaseInv
<1>2. AllImages'
  <2>1. images \subseteq images'
    <3>1. ASSUME NEW p \in Calls, Step(p) \/ Fault(p)
          PROVE  images \subseteq images'
      BY <1>1, <3>1, StepActs DEF Acts
    <3>2. ASSUME NEW n \in Names, Meddle(n)
          PROVE  images \subseteq images'
      BY <1>1, <3>2, MeddleMoves
    <3>3. CASE UNCHANGED vars
      BY <3>3 DEF vars, daemon
    <3> QED
      BY <3>1, <3>2, <3>3 DEF Next
  <2>2. images' \subseteq Run!Images
    BY <1>1 DEF TypeOK, Run!TypeOK, Run!Images
  <2> QED
    BY <2>1, <2>2 DEF AloneInv, AllImages, Run!Images
<1>3. ASSUME NEW p \in Calls, alone'[p], at'[p] \in InFlight
      PROVE  Proceeds(p)'
  <2>1. alone[p] /\ (Step(p) \/ UNCHANGED vars)
    BY <1>1, <1>3, StillAlone
  <2>2. CASE Step(p)
    BY <1>3, <2>1, <2>2, StepProceeds
  <2>3. CASE UNCHANGED vars
    <3>1. Proceeds(p)
      BY <1>3, <2>1, <2>3 DEF AloneInv, vars
    <3> QED
      BY <1>1, <2>3, <3>1, ProceedsStays
  <2> QED
    BY <2>1, <2>2, <2>3
<1> QED
  BY <1>1, <1>2, <1>3 DEF AloneInv, InFlight, Getting

LEMMA InitAlone == Init => AloneInv
<1> SUFFICES ASSUME Init
             PROVE  AloneInv
  OBVIOUS
<1>1. AllImages
  BY DEF Init, AllImages, Run!Images
<1>2. \A p \in Calls : at[p] \notin InFlight
  BY InitMemory DEF InFlight, Getting
<1> QED
  BY <1>1, <1>2, InitMatch DEF AloneInv

LEMMA AloneAlways == Spec => []AloneInv
BY InitAlone, AloneStep, PTL DEF Spec

\* A call that ends, and has been alone, ends by a step of its own.
LEMMA EndsByStep ==
  ASSUME AloneInv, [Next]_vars, NEW p \in Calls, NEW place \in {"done", "failed"}, Ends(p, place)
  PROVE  Step(p) /\ ~Begin(p) /\ at[p] \in InFlight /\ Proceeds(p)
<1>1. BaseInv /\ TypeOK /\ Fits(p)
  BY DEF AloneInv, MatchInv, BaseInv
<1>2. at'[p] # at[p] /\ at'[p] \in {"done", "failed"} /\ alone[p]
  BY DEF Ends
<1>3. Step(p)
  <2>1. ASSUME NEW q \in Calls, Step(q) \/ Fault(q)
        PROVE  q = p
    BY <1>1, <1>2, <2>1, StepActs DEF Acts, Kept
  <2>2. ~Fault(p)
    BY <1>1, <1>2, RunUnansweredMoves, FailMoves DEF Fault, Runs, Returns
  <2>3. \A n \in Names : ~Meddle(n)
    BY <1>1, <1>2, MeddleMoves
  <2>4. ~UNCHANGED vars
    BY <1>2 DEF vars
  <2> QED
    BY <2>1, <2>2, <2>3, <2>4 DEF Next
<1>4. ~Begin(p)
  BY <1>1, <1>2, BeginMoves
<1>5. at[p] \in InFlight
  BY <1>3, <1>4 DEF Step, ListByRole, ListByAncestor, InspectListed, CheckNew, Decide, FindDoomed, Delete,
     InspectLeftover, RemoveLeftover, Configure, RunStep, RunReturned, Confirm, Got, InFlight, Getting
<1> QED
  BY <1>2, <1>3, <1>4, <1>5 DEF AloneInv

\* An Apply that succeeds, alone, either found its registry to be as asked and
\* left it alone, or made it so.
LEMMA Succeeds ==
  ASSUME AloneInv, [Next]_vars, NEW p \in Calls, Applies(p), Ends(p, "done")
  PROVE  /\ ctr'[Target(p)] = Now(p)
         /\ Satisfies(Now(p), req[p].spec)
         /\ \/ at[p] = "apply" /\ Now(p) = Before(p)
            \/ at[p] = "confirm" /\ Right(p, Now(p).config) /\ ~Matched(p)
<1>1. BaseInv /\ TypeOK /\ Configured
  BY DEF AloneInv, MatchInv, BaseInv
<1>2. Step(p) /\ Proceeds(p) /\ at'[p] = "done"
  BY EndsByStep DEF Ends
<1>3. Decide(p) \/ Confirm(p)
  BY <1>1, <1>2, StepPlaces
<1>4. ctr'[Target(p)] = Now(p)
  BY <1>1, <1>3, DecideMoves, ConfirmMoves DEF Thinks, Now
<1>5. CASE Decide(p)
  <2>1. Got(p, "apply") /\ Found(mem[p].found) /\ ~NeedsDelete(mem[p].found, req[p].spec)
    BY <1>1, <1>2, <1>5, DecideMoves
  <2>2. Reads(p) /\ Now(p) = Before(p)
    BY <1>2, <2>1 DEF Proceeds, Got, Getting
  <2>3. IsFound(Target(p), mem[p].found)
    BY <2>1, <2>2, GetFinds
  <2>4. mem[p].found.state = "running"
    BY <2>1 DEF NeedsDelete, Died
  <2>5. Running(Now(p))
    BY <2>3, <2>4 DEF IsFound, Now, Running
  <2>6. Now(p).config \in Configs
    BY <1>1, <2>5, RunningExists, RequestType DEF Configured, Now
  <2>7. Fulfils(Now(p).config, req[p].spec)
    BY <2>1, <2>3, <2>5, <2>6, ConfigsAssumption, UpToDateFulfils DEF IsFound, Now, EnvOf
  <2> QED
    BY <1>4, <2>1, <2>2, <2>5, <2>7 DEF Satisfies, Got
<1>6. CASE Confirm(p)
  <2>1. at[p] = "confirm" /\ Running(Now(p)) /\ Right(p, Now(p).config) /\ ~Matched(p)
    BY <1>2, <1>6 DEF Proceeds, Confirm, Got
  <2> QED
    BY <1>4, <2>1 DEF Satisfies, Right
<1> QED
  BY <1>3, <1>5, <1>6

(***************************************************************************)
(* An Apply that reports success, and that nobody interfered with, leaves a *)
(* running registry with what the spec asks for, for every spec and          *)
(* whatever had the name before.                                           *)
(***************************************************************************)
THEOREM AppliedMatchesAlways == Spec => AppliedMatches
<1>1. ASSUME AloneInv, [Next]_vars
      PROVE  \A p \in Calls : Applies(p) /\ Ends(p, "done") => Satisfies(ctr'[Target(p)], req[p].spec)
  BY <1>1, Succeeds
<1>2. AloneInv /\ [Next]_vars =>
        [\A p \in Calls : Applies(p) /\ Ends(p, "done") => Satisfies(ctr'[Target(p)], req[p].spec)]_vars
  BY <1>1
<1> QED
  BY <1>2, AloneAlways, PTL DEF Spec, AppliedMatches

\* A configuration keeps what it has.
LEMMA KeepsItself ==
  ASSUME NEW c, NEW spec
  PROVE  Keeps(c, c.config, spec)
BY DEF Keeps

(***************************************************************************)
(* It also leaves alone what the spec does not speak of: the image, the      *)
(* labels, and the port and address of a registry that was running, through *)
(* the removal of the old container and the making of the new one.          *)
(***************************************************************************)
THEOREM PreservesTheRestAlways == Spec => PreservesTheRest
<1>1. ASSUME AloneInv, [Next]_vars, NEW p \in Calls, Applies(p), Ends(p, "done"), IsRegistry(mem[p].before)
      PROVE  Keeps(mem[p].before, ctr'[Target(p)].config, req[p].spec)
  <2>1. ctr'[Target(p)] = Now(p) /\ (Now(p) = Before(p) \/ Right(p, Now(p).config))
    BY <1>1, Succeeds
  <2> QED
    BY <1>1, <2>1, KeepsItself DEF Right, Before
<1>2. AloneInv /\ [Next]_vars =>
        [\A p \in Calls :
            Applies(p) /\ Ends(p, "done") /\ IsRegistry(mem[p].before) =>
              Keeps(mem[p].before, ctr'[Target(p)].config, req[p].spec)]_vars
  BY <1>1
<1> QED
  BY <1>2, AloneAlways, PTL DEF Spec, PreservesTheRest

(***************************************************************************)
(* A registry that satisfies the spec, and for which the controller can     *)
(* tell, is the same container afterwards.                                 *)
(***************************************************************************)
THEOREM UpToDateIsKeptAlways == Spec => UpToDateIsKept
<1>1. ASSUME AloneInv, [Next]_vars, NEW p \in Calls, WasUpToDate(p),
             OwnKeys \cap Keys(req[p].spec.labels) = {},
             ImageEnv[mem[p].before.config.image] = {}
      PROVE  ctr'[Target(p)] = mem[p].before
  <2>1. Matched(p)
    BY <1>1 DEF WasUpToDate, Matched, Before
  <2>2. ctr'[Target(p)] = Now(p) /\ Now(p) = Before(p)
    BY <1>1, <2>1, Succeeds DEF WasUpToDate
  <2> QED
    BY <2>2 DEF Before
<1>2. AloneInv /\ [Next]_vars =>
        [\A p \in Calls :
            /\ WasUpToDate(p)
            /\ OwnKeys \cap Keys(req[p].spec.labels) = {}
            /\ ImageEnv[mem[p].before.config.image] = {}
            => ctr'[Target(p)] = mem[p].before]_vars
  BY <1>1
<1> QED
  BY <1>2, AloneAlways, PTL DEF Spec, UpToDateIsKept

(***************************************************************************)
(* Create, alone, leaves a registry that exists as it is at every step, and *)
(* never reports that it has created one.                                   *)
\* No address is made of what a registry leaves open only as NoAddress has it.
LEMMA UnparsedHasNone ==
  ASSUME NEW p \in Calls, Recalls(p), ~Parses(mem[p].existing, req[p].spec)
  PROVE  NoAddress(p)
<1>1. InvalidIP # Unset /\ "127.0.0.1" # InvalidIP
  BY DEF InvalidIP, Unset
<1>2. CASE req[p].spec.addr # Unset
  BY <1>2 DEF Parses, AddrConfig, NoAddress
<1>3. CASE req[p].spec.addr = Unset
  <2>1. mem[p].existing.addr = InvalidIP
    BY <1>1, <1>3 DEF Parses, AddrConfig
  <2>2. Found(mem[p].existing)
    BY <1>1, <2>1, NoRegistryFields DEF Found
  <2> QED
    BY <1>3, <2>1, <2>2 DEF Recalls, Before, NoAddress
<1> QED
  BY <1>2, <1>3

(***************************************************************************)
THEOREM CreateSparesExistingAlways == Spec => CreateSparesExisting
<1>1. ASSUME AloneInv, [Next]_vars, NEW p \in Calls,
             req[p].kind = "create" /\ IsRegistry(mem[p].before),
             at[p] \in InFlight, at'[p] \in InFlight => alone'[p], alone[p]
      PROVE  ctr'[Target(p)] = mem[p].before /\ at'[p] # "done"
  <2>1. BaseInv /\ TypeOK /\ Configured /\ Fits(p) /\ Proceeds(p) /\ Target(p) \in Names
    BY <1>1, RequestType DEF AloneInv, MatchInv, BaseInv
  <2>2. at[p] = "check" /\ Now(p) = mem[p].before
    BY <1>1, <2>1 DEF Proceeds, Before
  <2>3. CASE at'[p] \in InFlight
    <3>1. Step(p) \/ UNCHANGED vars
      BY <1>1, <2>1, <2>3, StillAlone
    <3>2. at'[p] # "done"
      BY <2>3 DEF InFlight, Getting
    <3>3. CASE Step(p)
      <4>1. ThinkStep(p)
        BY <2>2, <3>3 DEF Step, ThinkStep, Delete, RemoveLeftover, Configure, RunStep, RunReturned
      <4> QED
        BY <2>1, <2>2, <3>2, <4>1, ThinkStepThinks DEF Thinks, Now
    <3> QED
      BY <2>2, <3>1, <3>2, <3>3 DEF vars, daemon, Now
  <2>4. CASE at'[p] \notin InFlight
    <3>1. at'[p] # at[p]
      BY <1>1, <2>4
    <3>2. Step(p) \/ Fault(p)
      <4>1. ASSUME NEW q \in Calls, Step(q) \/ Fault(q)
            PROVE  q = p
        BY <2>1, <3>1, <4>1, StepActs DEF Acts, Kept
      <4> QED
        BY <1>1, <2>1, <3>1, <4>1, MeddleMoves DEF Next, vars
    <3>3. CheckNew(p) \/ InspectListed(p) \/ ListByRole(p) \/ ListByAncestor(p) \/ Fail(p)
      BY <2>2, <3>2 DEF Step, Fault, Begin, Decide, FindDoomed, Delete, InspectLeftover, RemoveLeftover, Configure,
         RunStep, RunUnanswered, RunReturned, Confirm, Got
    <3>4. CASE Fail(p)
      BY <2>1, <2>2, <3>4, FailMoves DEF Returns, Now
    <3>5. CASE CheckNew(p)
      BY <2>1, <2>2, <3>5, CheckNewMoves DEF Returns, Thinks, Now
    <3>6. CASE InspectListed(p) \/ ListByRole(p) \/ ListByAncestor(p)
      BY <2>1, <2>2, <3>6, InspectListedMoves, ListByRoleMoves, ListByAncestorMoves DEF Returns, Thinks, Now
    <3> QED
      BY <3>3, <3>4, <3>5, <3>6
  <2> QED
    BY <2>3, <2>4
<1>2. AloneInv /\ [Next]_vars =>
        [\A p \in Calls :
            /\ req[p].kind = "create" /\ IsRegistry(mem[p].before)
            /\ at[p] \in InFlight /\ (at'[p] \in InFlight => alone'[p]) /\ alone[p]
            => ctr'[Target(p)] = mem[p].before /\ at'[p] # "done"]_vars
  BY <1>1
<1> QED
  BY <1>2, AloneAlways, PTL DEF Spec, CreateSparesExisting

(***************************************************************************)
(* An Apply alone does not fail, from whatever state an earlier call left,  *)
(* but for a host port that another container has or that is not to be had, *)
(* and for an address that is none.                                        *)
(***************************************************************************)
THEOREM RetrySucceedsAlways == Spec => RetrySucceeds
<1>1. ASSUME AloneInv, [Next]_vars, NEW p \in Calls, req[p].kind = "apply", Ends(p, "failed")
      PROVE  \/ at[p] = "configure" /\ (NoAddress(p) \/ PortConfigs(mem[p].existing, req[p].spec) = {})
             \/ at[p] = "run" /\ PortTaken(ctr, Target(p), arg[p].config)
  <2>1. BaseInv /\ TypeOK /\ Configured /\ Fits(p) /\ Remembers(p)
    BY <1>1 DEF AloneInv, MatchInv, BaseInv
  <2>2. Step(p) /\ ~Begin(p) /\ Proceeds(p) /\ at'[p] = "failed" /\ at[p] # "failed"
    BY <1>1, EndsByStep DEF Ends
  <2>3. Applies(p)
    BY <1>1 DEF Applies
  <2>4. ~(ListByRole(p) \/ ListByAncestor(p))
    BY <2>1, <2>2, ListByRoleMoves, ListByAncestorMoves
  <2>5. ~InspectListed(p)
    <3>1. ASSUME InspectListed(p)
          PROVE  FALSE
      <4>1. Reads(p)
        BY <2>1, <2>2, <3>1, InspectListedMoves DEF Proceeds
      <4> QED
        BY <2>1, <2>2, <3>1, <4>1, ReadsInspected
    <3> QED
      BY <3>1
  <2>6. ~CheckNew(p)
    BY <1>1, <2>1 DEF CheckNew, Got, Fits
  <2>7. ~Decide(p)
    BY <2>1, <2>2, DecideMoves DEF Returns
  <2>8. ~FindDoomed(p)
    <3>1. ASSUME FindDoomed(p)
          PROVE  FALSE
      <4>1. Got(p, "delete") /\ ~Found(mem[p].found)
        BY <2>1, <2>2, <3>1, FindDoomedMoves
      <4>2. Reads(p) /\ IsRegistry(Now(p))
        BY <2>2, <2>3, <4>1 DEF Proceeds, Got, Getting
      <4> QED
        BY <4>1, <4>2, GetFinds
    <3> QED
      BY <3>1
  <2>9. ~Delete(p)
    BY <2>1, <2>2, <2>3, DeleteMoves DEF Proceeds
  <2>10. ~InspectLeftover(p)
    BY <2>1, <2>2, InspectLeftoverMoves
  <2>11. ~RemoveLeftover(p)
    BY <2>1, <2>2, RemoveLeftoverMoves DEF Proceeds
  <2>12. ~RunStep(p)
    BY <2>1, <2>2, RunStepRuns DEF Runs
  <2>13. ~Confirm(p)
    <3>1. ASSUME Confirm(p)
          PROVE  FALSE
      <4>1. Got(p, "confirm") /\ ~Found(mem[p].found)
        BY <2>1, <2>2, <3>1, ConfirmMoves DEF Returns
      <4>2. Reads(p) /\ Running(Now(p)) /\ RoleLabel \in Now(p).config.labels
        BY <2>2, <4>1 DEF Proceeds, Got, Getting, Right
      <4>3. IsRegistry(Now(p))
        BY <4>2, RunningExists DEF IsRegistry, Marked
      <4> QED
        BY <4>1, <4>2, <4>3, GetFinds
    <3> QED
      BY <3>1
  <2>14. CASE Configure(p)
    <3>1. /\ at[p] = "configure" /\ Recalls(p)
          /\ ~Parses(mem[p].existing, req[p].spec) \/ PortConfigs(mem[p].existing, req[p].spec) = {}
      BY <2>1, <2>2, <2>3, <2>14, ConfigureMoves DEF Proceeds
    <3>2. ~Parses(mem[p].existing, req[p].spec) => NoAddress(p)
      BY <3>1, UnparsedHasNone
    <3> QED
      BY <3>1, <3>2
  <2>15. CASE RunReturned(p)
    <3>1. at[p] = "run" /\ run[p] = "err"
      BY <2>1, <2>2, <2>15, RunReturnedMoves
    <3> QED
      BY <2>2, <3>1 DEF Proceeds, RunsAlone
  <2> QED
    BY <2>2, <2>4, <2>5, <2>6, <2>7, <2>8, <2>9, <2>10, <2>11, <2>12, <2>13, <2>14, <2>15 DEF Step
<1>2. AloneInv /\ [Next]_vars =>
        [\A p \in Calls :
            req[p].kind = "apply" /\ Ends(p, "failed") =>
              \/ at[p] = "configure" /\ (NoAddress(p) \/ PortConfigs(mem[p].existing, req[p].spec) = {})
              \/ at[p] = "run" /\ PortTaken(ctr, Target(p), arg[p].config)]_vars
  BY <1>1
<1> QED
  BY <1>2, AloneAlways, PTL DEF Spec, RetrySucceeds

==============================================================================
