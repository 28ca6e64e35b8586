---------------------------- MODULE DesktopSettings ----------------------------
(***************************************************************************)
(* pkg/cluster/docker_desktop.go, the client of Docker Desktop's settings,  *)
(* and its users: dockerMachine in machine.go, admin_docker_desktop.go and   *)
(* cmd/docker_desktop.go. A setting is changed by reading all of them as a   *)
(* tree, changing the tree in memory and writing it back whole, to the one    *)
(* of two endpoints that answers, in the format of its protocol.            *)
(*                                                                         *)
(* Docker Desktop itself is external, modelled from the documents in         *)
(* docker_desktop_test.go: it takes over every setting that it finds in a    *)
(* body it can read, and restarts its engine to make the settings effective. *)
(***************************************************************************)
EXTENDS Integers, SequencesExt

CONSTANTS
  Procs,     \* the processes
  Requests,  \* what a process may be asked
  Worlds,    \* Docker Desktop as it may be at first
  MaxCPUs,   \* what Docker Desktop allows
  Faults     \* bound: the processes that have faults

VARIABLES
  desktop,   \* Docker Desktop: a record, see Worlds
  req,       \* what each process was asked
  at,        \* where each process is
  mem,       \* what each process remembers
  answer,    \* what each process has printed at its end
  alone,     \* history: nobody else has done anything since the process began,
             \* and none of its own requests has failed
  calm       \* history: no request has ever failed

vars == <<desktop, req, at, mem, answer, alone, calm>>

-------------------------------------------------------------------------------
(***************************************************************************)
(* Settings trees, as they are decoded from JSON: a set of nodes, which are   *)
(* what is no map, each with its path. There is a map at a path that leads on. *)
(***************************************************************************)

Leaf(kind, n) == [kind |-> kind, val |-> n]
Null == Leaf("null", 0)

Node(path, leaf) == [path |-> path, leaf |-> leaf]
NoTree == {}

Below(t, path) == {n \in t : IsStrictPrefix(path, n.path)}

At(t, path) ==
  IF \E n \in t : n.path = path THEN (CHOOSE n \in t : n.path = path).leaf
  ELSE IF Below(t, path) # {} THEN Leaf("map", 0) ELSE Null

\* (A bound variable: TLC evaluates it once, and an argument for every node.)
LookupMapAt(t, path) == \E p \in {path} : Below(t, p) # {}
Get(t, path) == CHOOSE leaf \in {At(t, p) : p \in {path}} : TRUE

Has(t, path, keys) == \A k \in keys : Get(t, Append(path, k)) # Null
Put(t, path, leaf) == {n \in t : n.path # path} \cup {Node(path, leaf)}

\* Of a setting with a lock only the value is sent to the old protocol, of a
\* document with locks the document.
StandsFor(t, path, v) ==
  IF Has(t, path, {"locked", "value"}) THEN IF v = "V1" THEN {"value"} ELSE {}
  ELSE IF Has(t, path, {"locks", "json"}) THEN {"json"} ELSE {}

\* Mutant: the old protocol gets the whole struct as well.
StructsForWrite(t, v) == t

\* What is sent back, v being the protocol. Of a lock without a value it is nothing.
SettingsForWrite(t, v) ==
  LET key(n) == StandsFor(t, Front(n.path), v)
      sent(n) == IF key(n) # {} THEN Last(n.path) \in key(n)
                 ELSE Last(n.path) # "locked" \/ Below(t, Front(n.path)) # {n}
      place(n) == IF key(n) # {} THEN Front(n.path) ELSE n.path
  IN  {Node(place(n), n.leaf) : n \in {n \in t : sent(n)}}

\* writeSettings has both bodies made of one tree, which the first one changes.
\* (A bound variable: TLC evaluates it once, and a LET again and again.)
Bodies(t) ==
  CHOOSE b \in {[backend |-> v2, native |-> SettingsForWrite(v2, "V1")] :
                  v2 \in {SettingsForWrite(t, "V2")}} : TRUE

NoBodies == [backend |-> NoTree, native |-> NoTree]

-------------------------------------------------------------------------------
(***************************************************************************)
(* Changing a tree: the outcome is an error, or the tree and whether it is   *)
(* another one.                                                            *)
(***************************************************************************)

Error == [ok |-> FALSE, changed |-> FALSE, tree |-> NoTree]
Unchanged(t) == [ok |-> TRUE, changed |-> FALSE, tree |-> t]
Changed(t) == [ok |-> TRUE, changed |-> TRUE, tree |-> t]

FileSharing == <<"vm", "fileSharing">>

\* The limits that stand next to a number.
Within(t, path, n) ==
  LET max == Get(t, Append(path, "max"))
      min == Get(t, Append(path, "min"))
  IN  (max.kind = "number" => n <= max.val) /\ (min.kind = "number" => n >= min.val)

\* Mutant: the setting is taken for the value, which it is in one format only.
ApplySetFlat(t, key, new) ==
  LET old == Get(t, key) IN
  IF old.kind # "text" /\ old.kind # new.kind THEN Error
  ELSE IF old.val = new.val THEN Unchanged(t) ELSE Changed(Put(t, key, Leaf(old.kind, new.val)))

\* Mutant: whether a switch has changed is taken the wrong way round.
ApplySetSwapped(t, key, new) ==
  LET path == IF LookupMapAt(t, key) THEN Append(key, "value") ELSE key IN
  IF Get(t, path).kind \notin {"text", new.kind} THEN Error
  ELSE IF Get(t, path).val = new.val THEN Changed(t) ELSE Unchanged(t)

\* A setting is a value, or a map with the value and perhaps limits. A switch and a
\* number take a value that reads as one, a text takes any; a list is replaced
\* without a look at it.
ApplySet(t, key, new) ==
  LET path == IF LookupMapAt(t, key) THEN Append(key, "value") ELSE key
      old  == Get(t, path)
  IN
  IF Len(key) <= 1 \/ Get(t, key) = Null THEN Error
  ELSE IF old.kind \in {"bool", "number", "text"}
    THEN IF \/ old.kind # "text" /\ old.kind # new.kind
            \/ old.kind = "number" /\ ~Within(t, Front(path), new.val) THEN Error
         ELSE IF new.val = old.val THEN Unchanged(t) ELSE Changed(Put(t, path, Leaf(old.kind, new.val)))
    ELSE IF key = FileSharing THEN Changed(Put(t, path, Leaf("list", new.val))) ELSE Error

SetK8sEnabled(t, on) == ApplySet(t, <<"vm", "kubernetes", "enabled">>, Leaf("bool", IF on THEN 1 ELSE 0))

CPUs(key) == <<"vm", "resources", "cpus", key>>

EnsureMinCPU(t, n) ==
  LET value == Get(t, CPUs("value"))
      max   == Get(t, CPUs("max"))
  IN
  IF value.kind # "number" \/ max.kind # "number" \/ n > max.val THEN Error
  ELSE IF n <= value.val THEN Unchanged(t)
  ELSE Changed(Put(t, CPUs("value"), Leaf("number", n)))

\* A restart makes both changes, the second in the tree that the first leaves.
RestartSettings(t, r) ==
  LET k8s == IF r.product = "docker-desktop" THEN SetK8sEnabled(t, TRUE) ELSE Unchanged(t)
      cpu == EnsureMinCPU(k8s.tree, r.cpus)
  IN  IF k8s.ok /\ cpu.ok THEN [cpu EXCEPT !.changed = @ \/ k8s.changed] ELSE Error

-------------------------------------------------------------------------------
(***************************************************************************)
(* Docker Desktop. settings is what it has stored, effective what the engine *)
(* was started with, serves the endpoints there are, and cluster the state   *)
(* of the Kubernetes cluster.                                              *)
(***************************************************************************)

Settings == {"k8s", "cpus", "share", "daemon", "dns"}

PathOf(s) ==
  CASE s = "k8s"    -> <<"vm", "kubernetes", "enabled">>
    [] s = "cpus"   -> <<"vm", "resources", "cpus">>
    [] s = "share"  -> <<"vm", "fileSharing">>
    [] s = "daemon" -> <<"vm", "daemon">>
    [] s = "dns"    -> <<"vm", "network", "dns">>

KindOf(s) ==
  CASE s = "k8s" -> "bool" [] s = "cpus" -> "number" [] s = "share" -> "list" [] OTHER -> "text"

Values == [Settings -> Nat]

Desktops ==
  [settings: Values, effective: Values, serves: SUBSET {"backend", "native"}, open: BOOLEAN,
   engine: BOOLEAN, local: BOOLEAN, starts: BOOLEAN, cluster: {"used", "fresh"}]

ASSUME WorldsAssumption == Worlds \subseteq Desktops
ASSUME MaxCPUsAssumption == MaxCPUs \in Nat

\* The tree that an endpoint answers with: before 4.12 everything has a lock, and
\* a DNS server that was never set has nothing else. 0 is such a DNS server.
Grouped(endpoint, stored) ==
  LET leaf(s) == Leaf(KindOf(s), stored[s])
      plain(s) == {Node(PathOf(s), leaf(s))}
      part(s, key, u) == {Node(Append(PathOf(s), key), u)}
      locked(s) == part(s, "locked", Leaf("bool", 0))
      struct(s) == part(s, "value", leaf(s)) \cup locked(s)
      shared == part("cpus", "min", Leaf("number", 1)) \cup part("cpus", "max", Leaf("number", MaxCPUs))
                \cup struct("k8s")
  IN  IF endpoint = "native"
        THEN shared \cup struct("cpus") \cup struct("share")
             \cup part("daemon", "json", leaf("daemon")) \cup part("daemon", "locks", Leaf("list", 0))
             \cup IF stored["dns"] = 0 THEN locked("dns") ELSE struct("dns")
        ELSE shared \cup part("cpus", "value", leaf("cpus")) \cup plain("share")
             \cup struct("daemon") \cup plain("dns")

\* The value that an endpoint takes from a body: the old one wants it plain.
Given(endpoint, body, s) ==
  IF endpoint = "backend" /\ LookupMapAt(body, PathOf(s))
    THEN Get(body, Append(PathOf(s), "value")) ELSE Get(body, PathOf(s))

Readable(endpoint, body) == \A s \in Settings : Given(endpoint, body, s).kind \in {KindOf(s), "null"}

Stored(endpoint, body) ==
  [s \in Settings |->
     IF Given(endpoint, body, s) = Null THEN desktop.settings[s] ELSE Given(endpoint, body, s).val]

\* The engine goes down to take the settings over, and comes up with them.
EngineStops ==
  /\ desktop.open /\ desktop.engine /\ desktop.effective # desktop.settings
  /\ desktop' = [desktop EXCEPT !.engine = FALSE]
  /\ UNCHANGED <<req, at, mem, answer, alone, calm>>

EngineStarts ==
  /\ desktop.open /\ ~desktop.engine
  /\ desktop' = [desktop EXCEPT !.engine = TRUE, !.effective = desktop.settings]
  /\ UNCHANGED <<req, at, mem, answer, alone, calm>>

-------------------------------------------------------------------------------
(***************************************************************************)
(* The processes.                                                          *)
(***************************************************************************)

InFlight == {"read", "write", "reset", "sleep", "poll", "ping", "open", "boot", "quit"}
Over == {"done", "failed", "timedout", "broken"}

Endpoints == <<"backend", "native">>

\* bodies is what it writes, left the endpoints still to be tried, errors what the
\* others answered, and was, as history, the settings at the start.
Blank == [bodies |-> NoBodies, left |-> Endpoints, errors |-> <<>>, was |-> [s \in Settings |-> 0]]

Nothing == [error |-> 0, tree |-> NoTree]

\* What may be asked. key and new are of a "set", cpus is of a restart, and registry
\* of a "create".
Ops == {"show", "set", "disable", "restart", "create", "reset", "ensure", "open", "quit"}

ASSUME RequestsAssumption ==
  Requests \subseteq [op: Ops, key: Seq(STRING), new: [kind: STRING, val: Nat], product: STRING,
                     cpus: Int, registry: BOOLEAN]

Wanted(p) == req[p]

Goto(p, place) == at' = [at EXCEPT ![p] = place]

Finish(p, result, said) ==
  Goto(p, result) /\ mem' = [mem EXCEPT ![p] = Blank] /\ answer' = [answer EXCEPT ![p] = said]

Return(p, result) == Finish(p, result, Nothing)

Proceed(p, place, bodies) ==
  /\ Goto(p, place)
  /\ mem' = [mem EXCEPT ![p].bodies = bodies, ![p].left = Endpoints, ![p].errors = <<>>]
  /\ UNCHANGED answer

Init ==
  /\ desktop \in Worlds
  /\ req \in [Procs -> Requests]
  /\ at = [p \in Procs |-> "idle"]
  /\ mem = [p \in Procs |-> Blank]
  /\ answer = [p \in Procs |-> Nothing]
  /\ alone = [p \in Procs |-> TRUE]
  /\ calm = TRUE

\* What is checked before Docker Desktop is asked: its cluster has no registry, it
\* must be the local Docker, and otherwise the CPUs are what they are.
Refused(r) ==
  \/ r.op = "create" /\ (r.registry \/ ~desktop.local)
  \/ r.op = "disable" /\ ~desktop.local
  \/ /\ r.op = "restart" /\ ~desktop.local
     /\ desktop.effective["cpus"] < r.cpus /\ r.product # "minikube"

Begin(p) ==
  /\ at[p] = "idle"
  /\ LET r == Wanted(p) IN
     \/ Refused(r) /\ Return(p, "failed")
     \/ r.op = "restart" /\ ~desktop.local /\ ~Refused(r) /\ Return(p, "done")
     \/ /\ ~Refused(r) /\ (r.op = "restart" => desktop.local)
        /\ Goto(p, CASE r.op \in {"create", "reset"} -> "reset"
                     [] r.op = "ensure" -> "ping"
                     [] r.op \in {"open", "quit"} -> r.op
                     [] OTHER -> "read")
        /\ mem' = [mem EXCEPT ![p].was = desktop.settings]
        /\ UNCHANGED answer
  /\ UNCHANGED <<desktop, req>>

Answers(endpoint) == desktop.open /\ endpoint \in desktop.serves

\* A socket nobody listens at is worse than a status code, which has its first
\* digit for a priority, and of equals the first one is reported.
NoConnection == 10
BadRequest == 4
ServerError == 5

ChooseWorstError(errors) ==
  LET worst(i) == \A j \in DOMAIN errors : errors[j] <= errors[i]
  IN  errors[CHOOSE i \in DOMAIN errors : worst(i) /\ \A j \in 1..(i - 1) : ~worst(j)]

\* Mutant: the same endpoint is asked again.
TryAgain(p, error, result) ==
  mem' = [mem EXCEPT ![p].errors = Append(@, error)] /\ UNCHANGED <<at, answer>>

\* A request has failed: the next one is made, or the worst error reported. As
\* elsewhere, a command is broken, not failed, when it was a fault that ended it.
TryNext(p, error, result) ==
  LET errors == Append(mem[p].errors, error) IN
  IF Len(mem[p].left) > 1
    THEN /\ mem' = [mem EXCEPT ![p].left = Tail(@), ![p].errors = errors]
         /\ UNCHANGED <<at, answer>>
    ELSE Finish(p, result, [Nothing EXCEPT !.error = ChooseWorstError(errors)])

\* What a command makes of the settings it has read.
Outcome(r, t) ==
  CASE r.op = "set"     -> ApplySet(t, r.key, r.new)
    [] r.op = "disable" -> SetK8sEnabled(t, FALSE)
    [] r.op = "restart" -> RestartSettings(t, r)

Read(p) ==
  /\ at[p] = "read"
  /\ LET e == Head(mem[p].left)
         r == Wanted(p) IN
     \/ ~Answers(e) /\ TryNext(p, NoConnection, "failed")
     \/ /\ Answers(e)
        /\ \E t \in {Grouped(e, desktop.settings)} :
             \/ r.op = "show" /\ Finish(p, "done", [Nothing EXCEPT !.tree = SettingsForWrite(t, "V1")])
             \/ /\ r.op # "show"
                /\ \E o \in {Outcome(r, t)} :
                     \/ ~o.ok /\ Return(p, "failed")
                     \/ o.ok /\ ~o.changed /\ Return(p, "done")
                     \/ o.ok /\ o.changed /\ Proceed(p, "write", Bodies(o.tree))
  /\ UNCHANGED <<desktop, req>>

Accept(p, e) == desktop' = [desktop EXCEPT !.settings = Stored(e, mem[p].bodies[e])]

Write(p) ==
  /\ at[p] = "write"
  /\ LET e == Head(mem[p].left)
         readable == Readable(e, mem[p].bodies[e]) IN
     \/ /\ Answers(e) /\ readable /\ Accept(p, e)
        /\ IF Wanted(p).op = "restart" THEN Proceed(p, "sleep", NoBodies) ELSE Return(p, "done")
     \/ Answers(e) /\ ~readable /\ TryNext(p, BadRequest, "failed") /\ UNCHANGED desktop
     \/ ~Answers(e) /\ TryNext(p, NoConnection, "failed") /\ UNCHANGED desktop
  /\ UNCHANGED req

ResetCluster(p) ==
  /\ at[p] = "reset"
  /\ \/ Answers(Head(mem[p].left)) /\ desktop' = [desktop EXCEPT !.cluster = "fresh"] /\ Return(p, "done")
     \/ ~Answers(Head(mem[p].left)) /\ TryNext(p, NoConnection, "failed") /\ UNCHANGED desktop
  /\ UNCHANGED req

\* Mutant: there is no sleep before the first poll.
NoSleep(p) == at[p] = "sleep" /\ Proceed(p, "poll", NoBodies) /\ UNCHANGED <<desktop, req>>

\* Two seconds, in which the engine goes down, if it has to.
Sleep(p) ==
  /\ at[p] = "sleep" /\ ~(desktop.engine /\ desktop.effective # desktop.settings)
  /\ Proceed(p, "poll", NoBodies)
  /\ UNCHANGED <<desktop, req>>

Running == desktop.open /\ desktop.engine

\* The engine is polled once a second after its restart, or after Docker Desktop
\* was opened, for as long as the timeout allows.
Poll(p) ==
  /\ at[p] \in {"poll", "boot"} /\ Running
  /\ Return(p, "done")
  /\ UNCHANGED <<desktop, req>>

\* Mutant: nobody counts the seconds of the boot.
TimeOutPoll(p) ==
  /\ at[p] = "poll" /\ ~Running
  /\ Return(p, "timedout")
  /\ UNCHANGED <<desktop, req>>

TimeOut(p) ==
  /\ at[p] \in {"poll", "boot"} /\ ~Running
  /\ Return(p, "timedout")
  /\ UNCHANGED <<desktop, req>>

\* EnsureExists opens Docker Desktop if Docker does not answer.
Ping(p) ==
  /\ at[p] = "ping"
  /\ \/ Running /\ Return(p, "done")
     \/ ~Running /\ ~desktop.local /\ Return(p, "failed")
     \/ ~Running /\ desktop.local /\ Proceed(p, "open", NoBodies)
  /\ UNCHANGED <<desktop, req>>

Open(p) ==
  /\ at[p] = "open"
  /\ \/ ~desktop.starts /\ Return(p, "failed") /\ UNCHANGED desktop
     \/ /\ desktop.starts
        /\ desktop' = [desktop EXCEPT !.open = TRUE]
        /\ IF Wanted(p).op = "ensure" THEN Proceed(p, "boot", NoBodies) ELSE Return(p, "done")
  /\ UNCHANGED req

Quit(p) ==
  /\ at[p] = "quit"
  /\ \/ ~desktop.starts /\ Return(p, "failed") /\ UNCHANGED desktop
     \/ /\ desktop.starts
        /\ desktop' = [desktop EXCEPT !.open = FALSE, !.engine = FALSE]
        /\ Return(p, "done")
  /\ UNCHANGED req

-------------------------------------------------------------------------------
(***************************************************************************)
(* Faults.                                                                 *)
(***************************************************************************)

\* A request fails before it has an effect, or after it.
RequestFails(p) ==
  /\ at[p] \in {"read", "write", "reset"}
  /\ \E error \in {ServerError, NoConnection} : TryNext(p, error, "broken")
  /\ \/ UNCHANGED desktop
     \/ LET e == Head(mem[p].left) IN
        at[p] = "write" /\ Answers(e) /\ Readable(e, mem[p].bodies[e]) /\ Accept(p, e)
  /\ UNCHANGED req

Die(p) == at[p] \in InFlight /\ Return(p, "broken") /\ UNCHANGED <<desktop, req>>

\* The engine takes longer than the sleep to go down.
WakeEarly(p) ==
  /\ at[p] = "sleep" /\ desktop.engine /\ desktop.effective # desktop.settings
  /\ Proceed(p, "poll", NoBodies)
  /\ UNCHANGED <<desktop, req>>

Fault(p) == p \in Faults /\ (RequestFails(p) \/ Die(p) \/ WakeEarly(p)) /\ calm' = FALSE

Step(p) ==
  /\ \/ Begin(p) \/ Read(p) \/ Write(p) \/ ResetCluster(p) \/ Sleep(p) \/ Poll(p) \/ TimeOut(p)
     \/ Ping(p) \/ Open(p) \/ Quit(p)
  /\ UNCHANGED calm

Interrupt(by) == alone' = [p \in Procs |-> at'[p] \in InFlight => p \in by /\ alone[p]]

Act(p) == Step(p) /\ Interrupt({p})

Next ==
  \/ \E p \in Procs : Act(p) \/ (Fault(p) /\ Interrupt({}))
  \/ EngineStops \/ EngineStarts

Spec == Init /\ [][Next]_vars

\* In a command that has begun requests are answered or fail, and the engine goes
\* down for its new settings in the time of the sleep; that it comes up again is
\* not assumed.
Fairness == WF_vars(EngineStops) /\ \A p \in Procs : WF_vars(at[p] # "idle" /\ Act(p))

FairSpec == Spec /\ Fairness

-------------------------------------------------------------------------------
(***************************************************************************)
(* Properties.                                                             *)
(***************************************************************************)

TypeOK ==
  /\ desktop \in Desktops
  /\ req \in [Procs -> Requests]
  /\ at \in [Procs -> {"idle"} \cup InFlight \cup Over]
  /\ \A p \in Procs : mem[p].was \in Values /\ Len(mem[p].errors) + Len(mem[p].left) = 2
  /\ \A p \in Procs : answer[p].error \in {0, BadRequest, ServerError, NoConnection}
  /\ alone \in [Procs -> BOOLEAN] /\ calm \in BOOLEAN

Ends(p, place) == at[p] # place /\ at'[p] = place

\* The keys that a setting has, in one or the other shape.
KeysOf(s) == {PathOf(s), Append(PathOf(s), "value"), Append(PathOf(s), "json")}

\* The settings after a command that found them as was.
Expected(r, was) ==
  [s \in Settings |->
     CASE r.op = "set" /\ r.key \in KeysOf(s) -> r.new.val
       [] r.op = "disable" /\ s = "k8s" -> 0
       [] r.op = "restart" /\ desktop.local /\ s = "k8s" /\ r.product = "docker-desktop" -> 1
       [] r.op = "restart" /\ desktop.local /\ s = "cpus" /\ was[s] < r.cpus -> r.cpus
       [] OTHER -> was[s]]

(***************************************************************************)
(* A command that nobody interferes with and that reports success changes    *)
(* the settings it is about and no other, though it writes all of them back  *)
(* in another shape than it read, through whichever endpoint answers; and    *)
(* the settings it prints are those that are stored.                        *)
(***************************************************************************)
DoesWhatIsAsked ==
  [][\A p \in Procs :
       Ends(p, "done") /\ alone[p] /\ at[p] # "idle" =>
         /\ desktop'.settings = Expected(Wanted(p), mem[p].was)
         /\ Wanted(p).op = "show" =>
              \A s \in Settings : Given("backend", answer'[p].tree, s).val = desktop.settings[s]]_vars

\* What can be set by its full path in every settings document there is, and the
\* values that go. Of the help's three examples these are two: the third one is
\* kubernetes.enabled, which is in no document.
Settable(r) ==
  r.op = "set" =>
    /\ r.key \in {PathOf(s) : s \in {"k8s", "cpus", "share"}}
    /\ r.key = PathOf("k8s") => r.new.kind = "bool"
    /\ r.key = PathOf("cpus") => r.new.kind = "number" /\ r.new.val \in 1..MaxCPUs

(***************************************************************************)
(* A command for settings or the cluster that nobody interferes with         *)
(* succeeds wherever Docker Desktop is open and any endpoint answers: what    *)
(* it writes can be read by that version of Docker Desktop. Only a key or a   *)
(* value that does not go makes it fail, and then on what it has read, before *)
(* anything is written: the kubernetes.enabled of the help is such a key.     *)
(***************************************************************************)
AloneSucceeds ==
  [][\A p \in Procs :
       LET r == Wanted(p) IN
       Ends(p, "failed") /\ alone[p] =>
         \/ Refused(r)
         \/ at[p] = "read" /\ (~Settable(r) \/ (r.op = "restart" /\ r.cpus > MaxCPUs))
         \/ IF r.op \in {"open", "quit", "ensure"}
              THEN ~desktop.starts \/ ~desktop.local
              ELSE ~desktop.open \/ desktop.serves = {}]_vars

(***************************************************************************)
(* A Restart by itself that reports success leaves an engine that runs with  *)
(* the settings just written: the poll does not take the engine that is      *)
(* about to go down for the one that has come up.                          *)
(***************************************************************************)
RestartTakesEffect ==
  [][\A p \in Procs :
       Wanted(p).op = "restart" /\ at[p] = "poll" /\ Ends(p, "done") /\ alone[p]
         => desktop.effective = desktop.settings]_vars

Sets(r) == r.op \in {"set", "disable", "restart"}

(***************************************************************************)
(* Commands at once write each other's settings back as they have read them,  *)
(* so that one that reported success may be undone. But not all of them are:  *)
(* when all are through, and no request failed, one of those that reported    *)
(* success, or waited for Docker in vain, has what it asked for.             *)
(***************************************************************************)
SomeSetSurvives ==
  LET writers == {p \in Procs : Sets(Wanted(p)) /\ at[p] \in {"done", "timedout"}} IN
  calm /\ (\A p \in Procs : at[p] \in Over) /\ writers # {}
    => \E p \in writers : Expected(Wanted(p), desktop.settings) = desktop.settings

(***************************************************************************)
(* Every command comes to an end, even if the engine never comes up again.    *)
(***************************************************************************)
EveryCallReturns == \A p \in Procs : at[p] # "idle" ~> at[p] \in Over

==============================================================================
