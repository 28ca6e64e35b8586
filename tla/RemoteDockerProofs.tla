-------------------------- MODULE RemoteDockerProofs --------------------------
(***************************************************************************)
(* Theorems about RemoteDocker: for every set of processes, clusters and     *)
(* requests, and every machine that they may find.                         *)
(***************************************************************************)
EXTENDS RemoteDocker, TLAPS

-------------------------------------------------------------------------------
(***************************************************************************)
(* The invariant behind the types: the places that a worker can get to. Each *)
(* request has but one worker, on the cluster it is about, except for a list, *)
(* whose workers only ask for a status.                                    *)
(***************************************************************************)

Places == Steps \cup Ends \cup {"idle", "dead"}

Jobs == [at: Places, phase: Phases, old: Socats(Workers \cup {Before}) \cup {NoSocat}]

Making == {"create", "switch", "reload", "connect", "ensure", "scan", "kill", "start", "dial",
           "attach", "rewrite", "reread", "health"}

FitsRequest(w) ==
  LET r == req[w[1]]  at == job[w].at  phase == job[w].phase IN
  /\ r.op # "list" => w[2] = r.cluster
  /\ r.op \in {"socat", "registry"} => phase = "forward" /\ at \in Connecting
  /\ r.op \in {"get", "list"} => phase = "status" /\ at \in Connecting \cup {"query"}
  /\ r.op = "apply" =>
       \/ phase = "before" /\ at \in Connecting \cup {"query"}
       \/ phase = "made" /\ at \in Making
       \/ phase = "after" /\ at \in Connecting \cup {"switch", "reload"}

\* A worker gets beyond the service container only with a port to connect to.
Fits(w) ==
  /\ job[w].at \in Steps => FitsRequest(w)
  /\ job[w].at \in {"ensure", "scan", "kill", "start", "dial"} => Port(w) # 0
  /\ At(w, "ensure") => run[w] \in Run!Active \cup Run!Returned
  /\ run[w] # "idle" => job[w].at \in {"ensure", "dead"}

TypeInv ==
  /\ world \in Worlds /\ clusters \subseteq Clusters /\ kube \in Config
  /\ attached \in BOOLEAN /\ mishaps \in 0..MaxMishaps /\ alone \subseteq Procs
  /\ socats \subseteq Socats(Workers \cup {Before}) /\ Exclusive(socats)
  /\ ctr \in [{Service} -> Services(Workers \cup {Daemon})]
  /\ run \in [Workers -> Run!Active \cup Run!Returned \cup {"idle"}]
  /\ req \in [Procs -> Requests] /\ cfg \in [Procs -> Config]
  /\ job \in [Workers -> Jobs]

BaseInv == TypeInv /\ \A w \in Workers : Fits(w)

-------------------------------------------------------------------------------
(***************************************************************************)
(* While nothing goes wrong, every socat is one of ctlptl's, and one that    *)
(* has yet to take its port is waited for, or somebody listens there.       *)
(***************************************************************************)

Awaits(w, s) == At(w, "dial") /\ s.port = Port(w) /\ s.by = w

Mine(w) == Socat(Port(w), "ours", w, "starting")

Orderly ==
  Calm =>
    /\ world.taken = {}
    /\ \A s \in socats : s.cmd = "ours" /\ s.state \in {"starting", "listening"}
    /\ \A s \in socats : s.state = "starting" => Listens(s.port) \/ \E w \in Workers : Awaits(w, s)
    /\ \A w \in Workers : At(w, "dial") => Listens(Port(w)) \/ Mine(w) \in socats
    /\ \A w \in Workers : ~At(w, "kill")

\* The service runs, or the worker is about to make it run.
Service0 == ctr[Service]

Serves(w) ==
  /\ run[w] \in {"inspect", "remove", "create", "start", "ok"}
  /\ run[w] = "remove" => Service0.state \in {"created", "exited"}
  /\ run[w] = "create" => Service0.state = "absent"
  /\ run[w] = "start" => Service0.state # "absent" /\ Service0.by = w
  /\ run[w] = "ok" => Service0.state = "running"

Quiet(p) ==
  \A v \in Workers : v[1] # p => job[v].at \in Ends \cup {"idle", "dead"}

\* A worker's connection, up to where it is.
Connects(w) ==
  /\ job[w].at \in {"ensure", "scan", "start", "dial"} => req[w[1]].op = "socat" \/ Remote
  /\ At(w, "ensure") => Serves(w)
  /\ job[w].at \in {"scan", "start", "dial"} => Service0.state = "running"

Rest(w) ==
  LET p == w[1]  c == w[2]  phase == job[w].phase IN
  /\ job[w].at \notin {"reload", "reread"} => cfg[p] = kube
  /\ job[w].at = "query" /\ Remote /\ world.installed /\ CurrentPort(p) # 0 => Tunnelled(CurrentPort(p))
  /\ phase \in {"status", "before"} => c \in kube.contexts
  /\ phase = "made" /\ job[w].at # "create" => c \in clusters
  /\ phase \in {"made", "after"} /\ job[w].at \notin {"create", "switch"} => kube.current = c
  /\ phase \in {"made", "after"} /\ job[w].at # "create" => c \in kube.contexts
  /\ phase = "made" /\ job[w].at \in {"attach", "rewrite", "reread", "health"} =>
       (Remote => Tunnelled(PortOf[c]))
  /\ phase = "made" /\ job[w].at \in {"rewrite", "reread", "health"} => (InsideContainer => attached)
  /\ phase = "made" /\ job[w].at \in {"reread", "health"} => (InsideContainer => c \in kube.inside)
  /\ phase = "after" => Reachable(c, kube)

AloneInv ==
  \A p \in Procs :
    p \in alone /\ Calm =>
      /\ Quiet(p)
      /\ req[p].op # "list" /\ job[<<p, req[p].cluster>>].at \in Steps =>
           Connects(<<p, req[p].cluster>>) /\ Rest(<<p, req[p].cluster>>)

-------------------------------------------------------------------------------
(***************************************************************************)
(* What the steps change: the calls of dctr.Run first.                      *)
(***************************************************************************)

LEMMA WorkerShape ==
  ASSUME NEW w \in Workers
  PROVE  w[1] \in Procs /\ w[2] \in Clusters /\ w = <<w[1], w[2]>>
BY DEF Workers

RunPlaces == Run!Active \cup Run!Returned \cup {"idle"}

LEMMA RunTarget ==
  ASSUME NEW w \in Workers
  PROVE  Run!Target(w) = Service
BY DEF Run!Target

LEMMA RunGoto ==
  ASSUME TypeInv, NEW w \in Workers, NEW place \in RunPlaces, Run!Goto(w, place)
  PROVE  /\ run' \in [Workers -> RunPlaces] /\ run'[w] = place
         /\ \A v \in Workers \ {w} : run'[v] = run[v]
BY DEF TypeInv, Run!Goto, RunPlaces

LEMMA RunCall ==
  ASSUME TypeInv, NEW w \in Workers, Run!Call(w)
  PROVE  /\ run' \in [Workers -> RunPlaces] /\ run'[w] = "inspect" /\ ctr' = ctr
         /\ \A v \in Workers \ {w} : run'[v] = run[v]
<1>1. "inspect" \in RunPlaces
  BY DEF RunPlaces, Run!Active
<1> QED
  BY <1>1, RunGoto DEF Run!Call

\* What a step of dctr.Run does to the call and to the service.
RunMoves(w, place, service) ==
  /\ run' \in [Workers -> RunPlaces] /\ run'[w] = place
  /\ \A v \in Workers \ {w} : run'[v] = run[v]
  /\ ctr' \in [{Service} -> Services(Workers \cup {Daemon})] /\ ctr'[Service] = service

LEMMA RunStands ==
  ASSUME TypeInv, NEW w \in Workers, NEW place \in RunPlaces, Run!Goto(w, place), UNCHANGED ctr
  PROVE  RunMoves(w, place, Service0)
BY RunGoto DEF RunMoves, TypeInv, Service0

LEMMA RunSets ==
  ASSUME TypeInv, NEW w \in Workers, NEW place \in RunPlaces, Run!Goto(w, place),
         NEW service \in Services(Workers \cup {Daemon}), ctr' = [ctr EXCEPT ![Service] = service]
  PROVE  RunMoves(w, place, service)
BY RunGoto DEF RunMoves, TypeInv

LEMMA RunInspect ==
  ASSUME TypeInv, NEW w \in Workers, Run!Inspect(w)
  PROVE  /\ run[w] = "inspect"
         /\ \/ Service0.state = "running" /\ RunMoves(w, "ok", Service0)
            \/ Service0.state = "absent" /\ RunMoves(w, "create", Service0)
            \/ Service0.state \in {"created", "exited"} /\ RunMoves(w, "remove", Service0)
<1>1. {"ok", "create", "remove"} \subseteq RunPlaces
  BY DEF RunPlaces, Run!Active, Run!Returned
<1>2. Service0.state \in {"absent", "created", "running", "exited"}
  BY DEF TypeInv, Services, Service0
<1>3. Run!Running(ctr[Run!Target(w)]) <=> Service0.state = "running"
  BY RunTarget DEF Run!Running, Service0
<1>4. Run!Exists(ctr[Run!Target(w)]) <=> Service0.state # "absent"
  BY RunTarget DEF Run!Exists, Service0
<1> QED
  BY <1>1, <1>2, <1>3, <1>4, RunStands DEF Run!Inspect

LEMMA GoneType == Run!Gone \in Services(Workers \cup {Daemon}) /\ Run!Gone.state = "absent"
BY DEF Run!Gone, Services

LEMMA RunRemove ==
  ASSUME TypeInv, NEW w \in Workers, Run!Remove(w)
  PROVE  /\ run[w] = "remove"
         /\ \/ Service0.state # "absent" /\ RunMoves(w, "create", Run!Gone)
            \/ Service0.state = "absent" /\ RunMoves(w, "err", Service0)
<1>1. {"err", "create"} \subseteq RunPlaces
  BY DEF RunPlaces, Run!Active, Run!Returned
<1>2. Run!Exists(ctr[Run!Target(w)]) <=> Service0.state # "absent"
  BY RunTarget DEF Run!Exists, Service0
<1>3. CASE Service0.state # "absent"
  <2>1. ctr' = [ctr EXCEPT ![Service] = Run!Gone] /\ Run!Goto(w, "create")
    BY <1>2, <1>3, RunTarget DEF Run!Remove
  <2> QED
    BY <1>1, <1>3, <2>1, GoneType, RunSets DEF Run!Remove
<1>4. CASE Service0.state = "absent"
  BY <1>1, <1>2, <1>4, RunStands DEF Run!Remove
<1> QED
  BY <1>3, <1>4

Made(w) == [state |-> "created", by |-> w, config |-> ServiceConfig]

LEMMA RunCreate ==
  ASSUME TypeInv, NEW w \in Workers, Run!Create(w) \/ Run!Recreate(w)
  PROVE  /\ run[w] \in {"create", "recreate"}
         /\ \/ Service0.state # "absent" /\ RunMoves(w, "err", Service0)
            \/ Service0.state = "absent" /\ RunMoves(w, "start", Made(w))
<1>1. {"err", "start"} \subseteq RunPlaces
  BY DEF RunPlaces, Run!Active, Run!Returned
<1>2. Run!Exists(ctr[Run!Target(w)]) <=> Service0.state # "absent"
  BY RunTarget DEF Run!Exists, Service0
<1>3. Run!NewContainer(w) = Made(w) /\ Made(w) \in Services(Workers \cup {Daemon})
  BY DEF Run!NewContainer, Made, Services
<1>4. Run!CreateNamed(w) /\ run[w] \in {"create", "recreate"}
  BY DEF Run!Create, Run!Recreate
<1>5. CASE Service0.state # "absent"
  BY <1>1, <1>2, <1>4, <1>5, RunStands DEF Run!CreateNamed
<1>6. CASE Service0.state = "absent"
  <2>1. ctr' = [ctr EXCEPT ![Service] = Made(w)] /\ Run!Goto(w, "start")
    BY <1>2, <1>3, <1>4, <1>6, RunTarget DEF Run!CreateNamed
  <2> QED
    BY <1>1, <1>3, <1>4, <1>6, <2>1, RunSets
<1> QED
  BY <1>5, <1>6

LEMMA RunPull ==
  ASSUME TypeInv, NEW w \in Workers, Run!Pull(w)
  PROVE  run[w] = "pull" /\ RunMoves(w, "recreate", Service0)
<1>1. "recreate" \in RunPlaces
  BY DEF RunPlaces, Run!Active
<1> QED
  BY <1>1, RunStands DEF Run!Pull

LEMMA RunStart ==
  ASSUME TypeInv, NEW w \in Workers, Run!Start(w)
  PROVE  /\ run[w] = "start"
         /\ \/ (Service0.state = "absent" \/ Service0.by # w) /\ RunMoves(w, "err", Service0)
            \/ Service0.state # "absent" /\ Service0.by = w
               /\ RunMoves(w, "ok", [Service0 EXCEPT !.state = "running"])
<1>1. {"err", "ok"} \subseteq RunPlaces
  BY DEF RunPlaces, Run!Returned
<1>2. Run!OwnsTarget(w) <=> Service0.state # "absent" /\ Service0.by = w
  BY RunTarget DEF Run!OwnsTarget, Run!Exists, Service0
<1>3. ~Run!PortTaken(ctr, Run!Target(w), ServiceConfig)
  BY RunTarget DEF Run!PortTaken
<1>4. Run!CanStart(w) <=> Run!OwnsTarget(w)
  BY <1>3 DEF Run!CanStart
<1>5. CASE ~Run!OwnsTarget(w)
  BY <1>1, <1>2, <1>4, <1>5, RunStands DEF Run!Start
<1>6. CASE Run!OwnsTarget(w)
  <2>1. PICK service : service = [Service0 EXCEPT !.state = "running"]
    OBVIOUS
  <2>2. service \in Services(Workers \cup {Daemon})
    BY <2>1 DEF TypeInv, Services, Service0
  <2>3. ctr' = [ctr EXCEPT ![Service] = service] /\ Run!Goto(w, "ok")
    BY <1>4, <1>6, <2>1, RunTarget DEF Run!Start, Run!SetRunning, Service0, TypeInv
  <2>4. RunMoves(w, "ok", service)
    BY <1>1, <2>2, <2>3, RunSets
  <2> QED
    BY <1>2, <1>6, <2>1, <2>4 DEF Run!Start
<1> QED
  BY <1>5, <1>6

\* The service of a worker that has nobody in its way comes up, and stays up.
LEMMA RunStep ==
  ASSUME TypeInv, NEW w \in Workers, Run!Step(w)
  PROVE  /\ run[w] \in Run!Active
         /\ \E place \in Run!Active \cup Run!Returned : \E service : RunMoves(w, place, service)
         /\ Serves(w) => Serves(w)' /\ (Service0.state = "running" => Service0'.state = "running")
<1>1. {"inspect", "remove", "create", "pull", "recreate", "start"} \subseteq Run!Active
      /\ {"ok", "err"} \subseteq Run!Returned
  BY DEF Run!Active, Run!Returned
<1>2. CASE Run!Inspect(w)
  BY <1>1, <1>2, RunInspect DEF RunMoves, Serves, Service0
<1>3. CASE Run!Remove(w)
  BY <1>1, <1>3, RunRemove, GoneType DEF RunMoves, Serves, Service0
<1>4. CASE Run!Create(w) \/ Run!Recreate(w)
  <2>1. Made(w).state = "created" /\ Made(w).by = w
    BY DEF Made
  <2> QED
    BY <1>1, <1>4, <2>1, RunCreate DEF RunMoves, Serves, Service0
<1>5. CASE Run!Pull(w)
  BY <1>1, <1>5, RunPull DEF RunMoves, Serves, Service0
<1>6. CASE Run!Start(w)
  <2>1. [Service0 EXCEPT !.state = "running"].state = "running"
    BY DEF TypeInv, Services, Service0
  <2> QED
    BY <1>1, <1>6, <2>1, RunStart DEF RunMoves, Serves, Service0
<1> QED
  BY <1>2, <1>3, <1>4, <1>5, <1>6 DEF Run!Step

-------------------------------------------------------------------------------
(***************************************************************************)
(* Where the steps of a worker lead.                                       *)
(***************************************************************************)

\* w goes to a place, and nobody else goes anywhere.
Leads(w, label, phase) ==
  /\ job' \in [Workers -> Jobs] /\ job'[w].at = label /\ job'[w].phase = phase
  /\ \A v \in Workers \ {w} : job'[v] = job[v]

\* The call of dctr.Run that w has is over, or it had none.
Rests(w) ==
  /\ run' \in [Workers -> RunPlaces] /\ run'[w] = "idle"
  /\ \A v \in Workers \ {w} : run'[v] = run[v]

LEMMA MoveLeads ==
  ASSUME TypeInv, NEW w \in Workers, NEW label \in Places, Move(w, label)
  PROVE  Leads(w, label, job[w].phase)
<1>1. PICK j : j = job[w]
  OBVIOUS
<1>2. PICK k : k = [j EXCEPT !.at = label]
  OBVIOUS
<1>3. j \in Jobs
  BY <1>1 DEF TypeInv
<1>4. k \in Jobs /\ k.at = label /\ k.phase = j.phase
  BY <1>2, <1>3 DEF Jobs
<1>5. job' = [job EXCEPT ![w] = k]
  BY <1>1, <1>2 DEF Move
<1> QED
  BY <1>1, <1>4, <1>5 DEF TypeInv, Leads

LEMMA BecameLeads ==
  ASSUME TypeInv, NEW w \in Workers, NEW label \in Places, NEW phase \in Phases,
         job' = [job EXCEPT ![w] = Became(label, phase)]
  PROVE  Leads(w, label, phase)
<1>1. Became(label, phase) \in Jobs /\ Became(label, phase).at = label /\ Became(label, phase).phase = phase
  BY DEF Became, Jobs
<1> QED
  BY <1>1 DEF TypeInv, Leads

LEMMA ThenType ==
  ASSUME NEW w \in Workers, NEW ok \in BOOLEAN, job[w].phase \in Phases \ {"none"}
  PROVE  /\ Then(w, ok) \in Places
         /\ job[w].phase = "forward" => Then(w, ok) = IF ok THEN "ok" ELSE "err"
         /\ job[w].phase \in {"status", "before"} => Then(w, ok) = "query"
         /\ job[w].phase = "made" => Then(w, ok) = IF ok THEN (IF InsideContainer THEN "attach" ELSE "health") ELSE "err"
         /\ job[w].phase = "after" => Then(w, ok) = "ok"
<1>1. job[w].phase \in {"forward", "status", "before", "made", "after"}
  BY DEF Phases
<1>2. {"ok", "err", "query", "attach", "health"} \subseteq Places
  BY DEF Places, Steps, Ends
<1>3. job[w].phase = "forward" => Then(w, ok) = IF ok THEN "ok" ELSE "err"
  BY DEF Then
<1>4. job[w].phase \in {"status", "before"} => Then(w, ok) = "query"
  BY DEF Then
<1>5. job[w].phase = "made" => Then(w, ok) = IF ok THEN (IF InsideContainer THEN "attach" ELSE "health") ELSE "err"
  BY DEF Then
<1>6. job[w].phase = "after" => Then(w, ok) = "ok"
  BY DEF Then
<1> QED
  BY <1>1, <1>2, <1>3, <1>4, <1>5, <1>6

LEMMA ConnectedLeads ==
  ASSUME TypeInv, NEW w \in Workers, NEW ok \in BOOLEAN, job[w].phase # "none", Connected(w, ok)
  PROVE  Leads(w, Then(w, ok), job[w].phase) /\ Rests(w)
<1>1. job[w].phase \in Phases \ {"none"}
  BY DEF TypeInv, Jobs
<1>2. Leads(w, Then(w, ok), job[w].phase)
  BY <1>1, ThenType, BecameLeads DEF Connected
<1>3. Rests(w)
  BY DEF Connected, Rests, TypeInv, RunPlaces
<1> QED
  BY <1>2, <1>3

-------------------------------------------------------------------------------
(***************************************************************************)
(* The types are kept, action by action.                                   *)
(***************************************************************************)

LEMMA PortType ==
  ASSUME TypeInv, NEW w \in Workers
  PROVE  /\ Port(w) \in Ports \cup {0}
         /\ CurrentPort(w[1]) \in Ports \cup {0}
         /\ job[w].phase = "forward" => Port(w) # 0
<1>1. w[1] \in Procs /\ req[w[1]] \in Requests /\ cfg[w[1]] \in Config
  BY WorkerShape DEF TypeInv
<1>2. req[w[1]].port \in Ports /\ req[w[1]].port # 0
  BY <1>1, RemoteAssumption DEF Ports
<1>3. cfg[w[1]].contexts \subseteq Clusters
  BY <1>1 DEF Config
<1>4. CurrentPort(w[1]) \in Ports \cup {0}
  BY <1>3 DEF CurrentPort, Ports
<1> QED
  BY <1>2, <1>4 DEF Port

\* What no step of w touches.
Framed(w) == req' = req /\ world' = world /\ mishaps' = mishaps /\ alone' = alone \cap {w[1]}

LEMMA StepFramed ==
  ASSUME NEW w \in Workers, Step(w)
  PROVE  Framed(w)
BY DEF Step, Framed, Only, outside, Connect, Ensure, Ensured, Scan, Kill, Start, Dial, DialTimesOut, Query,
       Create, SetContext, ReloadConfigs, Attach, Rewrite, Healthy, HealthTimesOut

LEMMA SamePort ==
  ASSUME NEW w \in Workers, req' = req, cfg' = cfg, job'[w].phase = job[w].phase
  PROVE  Port(w)' = Port(w)
BY DEF Port, CurrentPort

\* The rest of the types, when one variable or another stays.
LEMMA TypeKept ==
  ASSUME TypeInv, NEW w \in Workers, Framed(w), NEW label, NEW phase, Leads(w, label, phase),
         run' \in [Workers -> RunPlaces]
  PROVE  /\ world' \in Worlds /\ mishaps' \in 0..MaxMishaps /\ alone' \subseteq Procs
         /\ req' \in [Procs -> Requests] /\ job' \in [Workers -> Jobs]
         /\ run' \in [Workers -> Run!Active \cup Run!Returned \cup {"idle"}]
BY DEF TypeInv, Framed, Leads, RunPlaces

\* A connection that is over leaves its worker where the request goes on.
LEMMA ConnectedFits ==
  ASSUME BaseInv, NEW w \in Workers, job[w].at \in Connecting, NEW ok \in BOOLEAN, Connected(w, ok), Framed(w)
  PROVE  Fits(w)' /\ Leads(w, Then(w, ok), job[w].phase) /\ Rests(w)
<1>1. job[w].phase # "none" /\ FitsRequest(w) /\ TypeInv
  <2>1. FitsRequest(w) /\ TypeInv
    BY DEF BaseInv, Fits, Steps
  <2>2. req[w[1]].op \in {"socat", "registry", "list", "get", "apply"}
    BY <2>1, WorkerShape, RemoteAssumption DEF TypeInv
  <2> QED
    BY <2>1, <2>2 DEF FitsRequest
<1>2. job[w].phase \in Phases \ {"none"}
  BY <1>1 DEF TypeInv, Jobs
<1>3. Leads(w, Then(w, ok), job[w].phase) /\ Rests(w)
  BY <1>1, ConnectedLeads
<1>4. job'[w].at \in {"ok", "err", "query", "attach", "health"}
      /\ (job'[w].at = "query" => job[w].phase \in {"status", "before"})
      /\ (job'[w].at \in {"attach", "health"} => job[w].phase = "made")
  BY <1>2, <1>3, ThenType DEF Phases, Leads
<1>5. job'[w].at \in Steps => FitsRequest(w)'
  BY <1>1, <1>3, <1>4 DEF FitsRequest, Leads, Framed, Steps, Making, Connecting
<1>6. job'[w].at \notin {"ensure", "scan", "kill", "start", "dial"}
  BY <1>4
<1> QED
  BY <1>3, <1>5, <1>6 DEF Fits, Rests, At

\* A request has one worker; what an action needs to know of where it is.
LEMMA AtStep ==
  ASSUME BaseInv, NEW w \in Workers, job[w].at \in Steps
  PROVE  /\ TypeInv /\ FitsRequest(w) /\ job[w].phase # "none" /\ job[w].phase \in Phases
         /\ req[w[1]] \in Requests /\ req[w[1]].op \in {"socat", "registry", "list", "get", "apply"}
         /\ job[w].at \notin Connecting \cup {"query"} => req[w[1]].op = "apply"
         /\ job[w].at \in {"create", "attach", "rewrite", "reread", "health"} => job[w].phase = "made"
         /\ job[w].at \in {"switch", "reload"} => job[w].phase \in {"made", "after"}
         /\ job[w].at = "query" => job[w].phase \in {"status", "before"}
         /\ job[w].at # "ensure" => run[w] = "idle"
<1>1. TypeInv /\ FitsRequest(w) /\ (job[w].at # "ensure" => run[w] = "idle")
  BY DEF BaseInv, Fits, Steps, Connecting
<1>2. req[w[1]] \in Requests /\ req[w[1]].op \in {"socat", "registry", "list", "get", "apply"}
  BY <1>1, WorkerShape, RemoteAssumption DEF TypeInv
<1>3. job[w].phase \in Phases
  BY <1>1 DEF TypeInv, Jobs
<1>4. CASE req[w[1]].op = "apply"
  BY <1>1, <1>2, <1>3, <1>4 DEF FitsRequest, Connecting, Making
<1>5. CASE req[w[1]].op \in {"socat", "registry", "list", "get"}
  BY <1>1, <1>2, <1>3, <1>5 DEF FitsRequest, Connecting
<1> QED
  BY <1>2, <1>4, <1>5

\* Going on in the same phase fits as before.
LEMMA AdvanceFits ==
  ASSUME BaseInv, NEW w \in Workers, job[w].at \in Connecting, Framed(w), cfg' = cfg,
         NEW label \in Connecting, Leads(w, label, job[w].phase),
         label # "connect" => Port(w) # 0,
         IF label = "ensure" THEN run'[w] \in Run!Active \cup Run!Returned ELSE run'[w] = "idle"
  PROVE  Fits(w)'
<1>1. FitsRequest(w) /\ TypeInv
  BY AtStep DEF Steps
<1>2. FitsRequest(w)'
  BY <1>1 DEF FitsRequest, Leads, Framed, Connecting, Making
<1>3. Port(w)' = Port(w)
  BY SamePort DEF Framed, Leads
<1> QED
  BY <1>2, <1>3 DEF Fits, Leads, Connecting, At

LEMMA ConnectType ==
  ASSUME BaseInv, NEW w \in Workers, Connect(w)
  PROVE  /\ TypeInv' /\ Fits(w)'
         /\ \/ Leads(w, "ensure", job[w].phase) /\ run'[w] = "inspect" /\ Port(w) # 0
               /\ \A v \in Workers \ {w} : run'[v] = run[v]
            \/ /\ Leads(w, Then(w, TRUE), job[w].phase) /\ Rests(w)
               /\ ~(req[w[1]].op = "socat" \/ (Remote /\ Port(w) # 0))
         /\ ctr' = ctr
<1>1. Framed(w) /\ job[w].at = "connect" /\ UNCHANGED <<clusters, kube, attached, socats, cfg>>
  BY StepFramed DEF Step, Connect, outside, At
<1>2. TypeInv /\ FitsRequest(w)
  BY <1>1, AtStep DEF Steps, Connecting
<1>3. CASE req[w[1]].op = "socat" \/ (Remote /\ Port(w) # 0)
  <2>1. Run!Call(w) /\ Move(w, "ensure")
    BY <1>3 DEF Connect
  <2>2. Leads(w, "ensure", job[w].phase)
    BY <1>2, <2>1, MoveLeads DEF Places, Steps, Connecting
  <2>3. /\ run' \in [Workers -> RunPlaces] /\ run'[w] = "inspect" /\ ctr' = ctr
        /\ \A v \in Workers \ {w} : run'[v] = run[v]
    BY <1>2, <2>1, RunCall
  <2>4. Port(w) # 0
    BY <1>2, <1>3, PortType DEF FitsRequest
  <2>5. Fits(w)'
    BY <1>1, <2>2, <2>3, <2>4, AdvanceFits DEF Connecting, Run!Active
  <2> QED
    BY <1>1, <1>2, <2>2, <2>3, <2>4, <2>5, TypeKept DEF TypeInv
<1>4. CASE ~(req[w[1]].op = "socat" \/ (Remote /\ Port(w) # 0))
  <2>1. Connected(w, TRUE) /\ ctr' = ctr
    BY <1>4 DEF Connect
  <2>2. Fits(w)' /\ Leads(w, Then(w, TRUE), job[w].phase) /\ Rests(w)
    BY <1>1, <2>1, ConnectedFits DEF Connecting
  <2> QED
    BY <1>1, <1>2, <1>4, <2>1, <2>2, TypeKept DEF TypeInv, Rests
<1> QED
  BY <1>3, <1>4

LEMMA EnsureType ==
  ASSUME BaseInv, NEW w \in Workers, Ensure(w)
  PROVE  /\ TypeInv' /\ Fits(w)'
         /\ \A v \in Workers \ {w} : run'[v] = run[v]
         /\ job' = job
<1>1. Framed(w) /\ job[w].at = "ensure" /\ UNCHANGED <<clusters, kube, attached, socats, cfg, job>> /\ Run!Step(w)
  BY StepFramed DEF Step, Ensure, outside, At
<1>2. TypeInv /\ FitsRequest(w)
  BY <1>1, AtStep DEF Steps, Connecting
<1>3. PICK place \in Run!Active \cup Run!Returned : \E service : RunMoves(w, place, service)
  BY <1>1, <1>2, RunStep
<1>4. Leads(w, "ensure", job[w].phase)
  BY <1>1, <1>2 DEF Leads, TypeInv
<1>5. Port(w) # 0
  BY <1>1 DEF BaseInv, Fits
<1>6. Fits(w)'
  BY <1>1, <1>3, <1>4, <1>5, AdvanceFits DEF Connecting, RunMoves
<1> QED
  BY <1>1, <1>2, <1>3, <1>4, <1>6, TypeKept DEF TypeInv, RunMoves

LEMMA EnsuredType ==
  ASSUME BaseInv, NEW w \in Workers, Ensured(w)
  PROVE  /\ TypeInv' /\ Fits(w)' /\ Rests(w)
         /\ \/ run[w] = "ok" /\ Leads(w, "scan", job[w].phase)
            \/ run[w] = "err" /\ Leads(w, Then(w, FALSE), job[w].phase)
<1>1. Framed(w) /\ job[w].at = "ensure" /\ UNCHANGED <<clusters, kube, attached, socats, ctr, cfg>>
  BY StepFramed DEF Step, Ensured, outside, At
<1>2. TypeInv /\ FitsRequest(w) /\ Port(w) # 0
  BY <1>1, AtStep DEF Steps, Connecting, BaseInv, Fits
<1>3. CASE run[w] = "ok" /\ Move(w, "scan") /\ run' = [run EXCEPT ![w] = "idle"]
  <2>1. Rests(w)
    BY <1>2, <1>3 DEF Rests, TypeInv, RunPlaces
  <2>2. Leads(w, "scan", job[w].phase)
    BY <1>2, <1>3, MoveLeads DEF Places, Steps, Connecting
  <2>3. Fits(w)'
    BY <1>1, <1>2, <2>1, <2>2, AdvanceFits DEF Connecting, Rests
  <2> QED
    BY <1>1, <1>2, <1>3, <2>1, <2>2, <2>3, TypeKept DEF TypeInv, Rests
<1>4. CASE run[w] = "err" /\ Connected(w, FALSE)
  <2>1. Fits(w)' /\ Leads(w, Then(w, FALSE), job[w].phase) /\ Rests(w)
    BY <1>1, <1>4, ConnectedFits DEF Connecting
  <2> QED
    BY <1>1, <1>2, <1>4, <2>1, TypeKept DEF TypeInv, Rests
<1> QED
  BY <1>3, <1>4 DEF Ensured

LEMMA ScanType ==
  ASSUME BaseInv, NEW w \in Workers, Scan(w)
  PROVE  /\ TypeInv' /\ Fits(w)' /\ Rests(w)
         /\ \/ (\A s \in socats : s.port # Port(w)) /\ Leads(w, "start", job[w].phase)
            \/ \E s \in socats :
                 /\ s.port = Port(w)
                 /\ IF s.cmd = "ours" THEN Leads(w, Then(w, TRUE), job[w].phase) ELSE Leads(w, "kill", job[w].phase)
<1>1. Framed(w) /\ job[w].at = "scan" /\ UNCHANGED <<clusters, kube, attached, socats, ctr, cfg>>
  BY StepFramed DEF Step, Scan, outside, At
<1>2. TypeInv /\ FitsRequest(w) /\ Port(w) # 0 /\ run[w] = "idle"
  BY <1>1, AtStep DEF Steps, Connecting, BaseInv, Fits
<1>3. ASSUME run' = run
      PROVE  Rests(w)
  BY <1>2, <1>3 DEF Rests, TypeInv, RunPlaces
<1>4. CASE (\A s \in socats : s.port # Port(w)) /\ Move(w, "start") /\ UNCHANGED run
  <2>1. Leads(w, "start", job[w].phase)
    BY <1>2, <1>4, MoveLeads DEF Places, Steps, Connecting
  <2>2. Fits(w)'
    BY <1>1, <1>2, <1>3, <1>4, <2>1, AdvanceFits DEF Connecting, Rests
  <2> QED
    BY <1>1, <1>2, <1>3, <1>4, <2>1, <2>2, TypeKept DEF TypeInv, Rests
<1>5. ASSUME NEW s \in socats, s.port = Port(w), s.cmd = "ours", Connected(w, TRUE)
      PROVE  TypeInv' /\ Fits(w)' /\ Rests(w) /\ Leads(w, Then(w, TRUE), job[w].phase)
  <2>1. Fits(w)' /\ Leads(w, Then(w, TRUE), job[w].phase) /\ Rests(w)
    BY <1>1, <1>5, ConnectedFits DEF Connecting
  <2> QED
    BY <1>1, <1>2, <2>1, TypeKept DEF TypeInv, Rests
<1>6. ASSUME NEW s \in socats, s.port = Port(w), s.cmd # "ours", UNCHANGED run,
             job' = [job EXCEPT ![w] = [@ EXCEPT !.at = "kill", !.old = s]]
      PROVE  TypeInv' /\ Fits(w)' /\ Rests(w) /\ Leads(w, "kill", job[w].phase)
  <2>1. PICK j : j = job[w]
    OBVIOUS
  <2>2. PICK k : k = [j EXCEPT !.at = "kill", !.old = s]
    OBVIOUS
  <2>3. job' = [job EXCEPT ![w] = k]
    BY <1>6, <2>1, <2>2
  <2>4. k \in Jobs /\ k.at = "kill" /\ k.phase = j.phase
    BY <1>2, <2>1, <2>2 DEF TypeInv, Jobs, Places, Steps, Connecting
  <2>5. Leads(w, "kill", job[w].phase)
    BY <1>2, <2>1, <2>3, <2>4 DEF TypeInv, Leads
  <2>6. Fits(w)'
    BY <1>1, <1>2, <1>3, <1>6, <2>5, AdvanceFits DEF Connecting, Rests
  <2> QED
    BY <1>1, <1>2, <1>3, <1>6, <2>5, <2>6, TypeKept DEF TypeInv, Rests
<1> QED
  BY <1>4, <1>5, <1>6 DEF Scan

LEMMA StartType ==
  ASSUME BaseInv, NEW w \in Workers, Start(w)
  PROVE  /\ TypeInv' /\ Fits(w)' /\ Rests(w)
         /\ \/ world.installed /\ socats' = socats \cup {Mine(w)} /\ Leads(w, "dial", job[w].phase)
            \/ ~world.installed /\ UNCHANGED socats /\ Leads(w, Then(w, FALSE), job[w].phase)
<1>1. Framed(w) /\ job[w].at = "start" /\ UNCHANGED <<clusters, kube, attached, ctr, cfg>>
  BY StepFramed DEF Step, Start, outside, At
<1>2. TypeInv /\ FitsRequest(w) /\ Port(w) # 0 /\ run[w] = "idle"
  BY <1>1, AtStep DEF Steps, Connecting, BaseInv, Fits
<1>3. CASE world.installed
  <2>1. socats' = socats \cup {Mine(w)} /\ Move(w, "dial") /\ UNCHANGED run
    BY <1>3 DEF Start, Mine
  <2>2. Mine(w) \in Socats(Workers \cup {Before}) /\ Mine(w).state = "starting"
    BY <1>2, PortType DEF Mine, Socat, Socats
  <2>3. socats' \subseteq Socats(Workers \cup {Before}) /\ Exclusive(socats')
    BY <1>2, <2>1, <2>2 DEF TypeInv, Exclusive, Holds
  <2>4. Leads(w, "dial", job[w].phase)
    BY <1>2, <2>1, MoveLeads DEF Places, Steps, Connecting
  <2>5. Rests(w)
    BY <1>2, <2>1 DEF Rests, TypeInv, RunPlaces
  <2>6. Fits(w)'
    BY <1>1, <1>2, <2>4, <2>5, AdvanceFits DEF Connecting, Rests
  <2> QED
    BY <1>1, <1>2, <1>3, <2>1, <2>3, <2>4, <2>5, <2>6, TypeKept DEF TypeInv, Rests
<1>4. CASE ~world.installed
  <2>1. Connected(w, FALSE) /\ UNCHANGED socats
    BY <1>4 DEF Start
  <2>2. Fits(w)' /\ Leads(w, Then(w, FALSE), job[w].phase) /\ Rests(w)
    BY <1>1, <2>1, ConnectedFits DEF Connecting
  <2> QED
    BY <1>1, <1>2, <1>4, <2>1, <2>2, TypeKept DEF TypeInv, Rests
<1> QED
  BY <1>3, <1>4

LEMMA KillType ==
  ASSUME BaseInv, NEW w \in Workers, Kill(w)
  PROVE  TypeInv' /\ Fits(w)' /\ Rests(w) /\ \E label \in Places : Leads(w, label, job[w].phase)
<1>1. Framed(w) /\ job[w].at = "kill" /\ UNCHANGED <<clusters, kube, attached, ctr, cfg>>
  BY StepFramed DEF Step, Kill, outside, At
<1>2. TypeInv /\ FitsRequest(w) /\ Port(w) # 0 /\ run[w] = "idle"
  BY <1>1, AtStep DEF Steps, Connecting, BaseInv, Fits
<1>3. PICK old : /\ old \subseteq socats
                 /\ IF old = {}
                      THEN Connected(w, FALSE) /\ UNCHANGED socats
                      ELSE /\ socats' = (socats \ old) \cup {[s EXCEPT !.state = "dying"] : s \in {s \in old : Holds(s)}}
                           /\ job' = [job EXCEPT ![w] = [@ EXCEPT !.at = "start", !.old = NoSocat]]
                           /\ UNCHANGED run
  BY DEF Kill
<1>4. CASE old = {}
  <2>1. Fits(w)' /\ Leads(w, Then(w, FALSE), job[w].phase) /\ Rests(w)
    BY <1>1, <1>3, <1>4, ConnectedFits DEF Connecting
  <2>2. Then(w, FALSE) \in Places
    BY <2>1 DEF Leads, Jobs
  <2> QED
    BY <1>1, <1>2, <1>3, <1>4, <2>1, <2>2, TypeKept DEF TypeInv, Rests
<1>5. CASE old # {}
  <2>1. PICK j : j = job[w]
    OBVIOUS
  <2>2. PICK k : k = [j EXCEPT !.at = "start", !.old = NoSocat]
    OBVIOUS
  <2>3. job' = [job EXCEPT ![w] = k]
    BY <1>3, <1>5, <2>1, <2>2
  <2>4. k \in Jobs /\ k.at = "start" /\ k.phase = j.phase
    BY <1>2, <2>1, <2>2 DEF TypeInv, Jobs, Places, Steps, Connecting
  <2>5. Leads(w, "start", job[w].phase) /\ "start" \in Places
    BY <1>2, <2>1, <2>3, <2>4 DEF TypeInv, Leads, Jobs
  <2>6. Rests(w)
    BY <1>2, <1>3, <1>5 DEF Rests, TypeInv, RunPlaces
  <2>7. Fits(w)'
    BY <1>1, <1>2, <2>5, <2>6, AdvanceFits DEF Connecting, Rests
  <2> DEFINE dead(s) == [s EXCEPT !.state = "dying"]
  <2>8. ASSUME NEW s \in socats
        PROVE  dead(s) \in Socats(Workers \cup {Before}) /\ dead(s).port = s.port
    BY <1>2 DEF TypeInv, Socats
  <2>9. socats' = (socats \ old) \cup {dead(s) : s \in {s \in old : Holds(s)}}
    BY <1>3, <1>5
  <2>10. socats' \subseteq Socats(Workers \cup {Before})
    BY <1>2, <1>3, <2>8, <2>9 DEF TypeInv
  <2>11. ASSUME NEW s \in socats', NEW t \in socats', Holds(s), Holds(t), s.port = t.port
         PROVE  s = t
    <3>1. ASSUME NEW u \in socats'
          PROVE  (u \in socats /\ u \notin old) \/ \E z \in old : Holds(z) /\ u = dead(z)
      BY <2>9
    <3>2. ASSUME NEW u \in socats', Holds(u)
          PROVE  \E z \in socats : Holds(z) /\ z.port = u.port /\ u = IF z \in old THEN dead(z) ELSE z
      BY <1>3, <2>8, <3>1, <3>2
    <3>3. PICK x \in socats : Holds(x) /\ x.port = s.port /\ s = IF x \in old THEN dead(x) ELSE x
      BY <2>11, <3>2
    <3>4. PICK y \in socats : Holds(y) /\ y.port = t.port /\ t = IF y \in old THEN dead(y) ELSE y
      BY <2>11, <3>2
    <3>5. x = y
      BY <1>2, <2>11, <3>3, <3>4 DEF TypeInv, Exclusive
    <3> QED
      BY <3>3, <3>4, <3>5
  <2>12. Exclusive(socats')
    BY <2>11 DEF Exclusive
  <2> QED
    BY <1>1, <1>2, <2>5, <2>6, <2>7, <2>10, <2>12, TypeKept DEF TypeInv, Rests
<1> QED
  BY <1>4, <1>5

LEMMA DialType ==
  ASSUME BaseInv, NEW w \in Workers, Dial(w) \/ DialTimesOut(w)
  PROVE  /\ TypeInv' /\ Fits(w)' /\ Rests(w)
         /\ \/ Listens(Port(w)) /\ Leads(w, Then(w, TRUE), job[w].phase)
            \/ ~Listens(Port(w)) /\ Mine(w) \notin socats /\ Leads(w, Then(w, FALSE), job[w].phase)
<1>1. Framed(w) /\ job[w].at = "dial" /\ UNCHANGED <<clusters, kube, attached, socats, ctr, cfg>>
  BY StepFramed DEF Step, Dial, DialTimesOut, outside, At
<1>2. TypeInv
  BY DEF BaseInv
<1>3. CASE Dial(w)
  <2>1. Fits(w)' /\ Leads(w, Then(w, TRUE), job[w].phase) /\ Rests(w) /\ Listens(Port(w))
    BY <1>1, <1>3, ConnectedFits DEF Connecting, Dial
  <2> QED
    BY <1>1, <1>2, <2>1, TypeKept DEF TypeInv, Rests
<1>4. CASE DialTimesOut(w)
  <2>1. Fits(w)' /\ Leads(w, Then(w, FALSE), job[w].phase) /\ Rests(w) /\ ~Listens(Port(w)) /\ Mine(w) \notin socats
    BY <1>1, <1>4, ConnectedFits DEF Connecting, DialTimesOut, Mine
  <2> QED
    BY <1>1, <1>2, <2>1, TypeKept DEF TypeInv, Rests
<1> QED
  BY <1>3, <1>4

\* A step outside dctr.Run, of a worker that has no call there.
LEMMA IdleRests ==
  ASSUME BaseInv, NEW w \in Workers, job[w].at \in Steps \ {"ensure"}, run' = run
  PROVE  Rests(w)
BY AtStep DEF BaseInv, Rests, TypeInv, RunPlaces

\* A step to a place that fits.
LEMMA ArrivalFits ==
  ASSUME BaseInv, NEW w \in Workers, Framed(w), Rests(w), NEW label, NEW phase, Leads(w, label, phase),
         label \notin {"ensure", "scan", "kill", "start", "dial"},
         job[w].at \in Steps, label \in Steps => req[w[1]].op = "apply"
                       /\ (\/ phase = "made" /\ label \in Making
                           \/ phase = "after" /\ label \in Connecting \cup {"switch", "reload"})
  PROVE  Fits(w)'
<1>1. FitsRequest(w)
  BY AtStep
<1>2. label \in Steps => FitsRequest(w)'
  BY <1>1 DEF FitsRequest, Leads, Framed
<1> QED
  BY <1>2 DEF Fits, Leads, Rests, At

LEMMA QueryType ==
  ASSUME BaseInv, NEW w \in Workers, Query(w)
  PROVE  /\ TypeInv' /\ Fits(w)' /\ Rests(w)
         /\ \/ job[w].phase = "status" /\ Leads(w, IF Reachable(w[2], cfg[w[1]]) THEN "ok" ELSE "blind", "status")
            \/ job[w].phase = "before" /\ Reachable(w[2], cfg[w[1]]) /\ Leads(w, "switch", "after")
            \/ job[w].phase = "before" /\ ~Reachable(w[2], cfg[w[1]]) /\ Leads(w, "create", "made")
<1>1. Framed(w) /\ job[w].at = "query" /\ UNCHANGED <<clusters, kube, attached, socats, ctr, cfg, run>>
  BY StepFramed DEF Step, Query, outside, At
<1>2. TypeInv /\ FitsRequest(w) /\ job[w].phase \in {"status", "before"}
      /\ req[w[1]].op \in {"socat", "registry", "list", "get", "apply"}
  BY <1>1, AtStep DEF Steps, Connecting
<1>3. Rests(w)
  BY <1>1, IdleRests DEF Steps
<1>4. {"ok", "blind", "switch", "create"} \subseteq Places /\ {"made", "after"} \subseteq Phases
  BY DEF Places, Steps, Ends, Phases
<1> DEFINE reached == Reachable(w[2], cfg[w[1]])
<1>5. CASE job[w].phase = "status"
  <2>1. Move(w, IF reached THEN "ok" ELSE "blind")
    BY <1>5 DEF Query
  <2>2. Leads(w, IF reached THEN "ok" ELSE "blind", "status")
    BY <1>2, <1>4, <1>5, <2>1, MoveLeads
  <2>3. Fits(w)'
    BY <1>1, <1>3, <2>2, ArrivalFits DEF Steps, Connecting
  <2> QED
    BY <1>1, <1>2, <1>3, <1>5, <2>2, <2>3, TypeKept DEF TypeInv, Rests
<1>6. CASE job[w].phase = "before" /\ reached
  <2>1. job' = [job EXCEPT ![w] = Became("switch", "after")]
    BY <1>6 DEF Query
  <2>2. Leads(w, "switch", "after")
    BY <1>2, <1>4, <2>1, BecameLeads
  <2>3. Fits(w)'
    BY <1>1, <1>2, <1>3, <1>6, <2>2, ArrivalFits DEF Steps, Connecting, FitsRequest
  <2> QED
    BY <1>1, <1>2, <1>3, <1>6, <2>2, <2>3, TypeKept DEF TypeInv, Rests
<1>7. CASE job[w].phase = "before" /\ ~reached
  <2>1. job' = [job EXCEPT ![w] = Became("create", "made")]
    BY <1>7 DEF Query
  <2>2. Leads(w, "create", "made")
    BY <1>2, <1>4, <2>1, BecameLeads
  <2>3. Fits(w)'
    BY <1>1, <1>2, <1>3, <1>7, <2>2, ArrivalFits DEF Steps, Connecting, Making, FitsRequest
  <2> QED
    BY <1>1, <1>2, <1>3, <1>7, <2>2, <2>3, TypeKept DEF TypeInv, Rests
<1> QED
  BY <1>2, <1>5, <1>6, <1>7

LEMMA CreateType ==
  ASSUME BaseInv, NEW w \in Workers, Create(w)
  PROVE  /\ TypeInv' /\ Fits(w)' /\ Rests(w) /\ Leads(w, "switch", "made")
         /\ kube'.current = w[2] /\ kube'.contexts = kube.contexts \cup {w[2]}
         /\ cfg' = [cfg EXCEPT ![w[1]] = kube'] /\ w[2] \in clusters'
<1>1. /\ Framed(w) /\ job[w].at = "create" /\ UNCHANGED <<attached, socats, ctr, run>> /\ Move(w, "switch")
      /\ clusters' = clusters \cup {w[2]} /\ cfg' = [cfg EXCEPT ![w[1]] = kube']
      /\ kube' = [current |-> w[2], contexts |-> kube.contexts \cup {w[2]}, inside |-> kube.inside \ {w[2]}]
  BY StepFramed DEF Step, Create, At
<1>2. TypeInv /\ job[w].phase = "made" /\ req[w[1]].op = "apply"
  BY <1>1, AtStep DEF Steps, Connecting
<1>3. Rests(w)
  BY <1>1, IdleRests DEF Steps
<1>4. kube' \in Config /\ cfg' \in [Procs -> Config] /\ clusters' \subseteq Clusters
  BY <1>1, <1>2, WorkerShape DEF TypeInv, Config
<1>5. Leads(w, "switch", "made")
  BY <1>1, <1>2, MoveLeads DEF Places, Steps
<1>6. Fits(w)'
  BY <1>1, <1>2, <1>3, <1>5, ArrivalFits DEF Steps, Making
<1> QED
  BY <1>1, <1>2, <1>3, <1>4, <1>5, <1>6, TypeKept DEF TypeInv, Rests

LEMMA SetContextType ==
  ASSUME BaseInv, NEW w \in Workers, SetContext(w)
  PROVE  /\ TypeInv' /\ Fits(w)' /\ Rests(w) /\ Leads(w, "reload", job[w].phase)
         /\ kube'.current = w[2] /\ kube'.contexts = kube.contexts /\ kube'.inside = kube.inside
<1>1. /\ Framed(w) /\ job[w].at = "switch" /\ UNCHANGED <<clusters, attached, socats, ctr, run, cfg>>
      /\ Move(w, "reload") /\ kube' = [kube EXCEPT !.current = w[2]]
  BY StepFramed DEF Step, SetContext, At
<1>2. TypeInv /\ job[w].phase \in {"made", "after"} /\ req[w[1]].op = "apply"
  BY <1>1, AtStep DEF Steps, Connecting
<1>3. Rests(w)
  BY <1>1, IdleRests DEF Steps
<1>4. kube' \in Config /\ kube'.current = w[2] /\ kube'.contexts = kube.contexts /\ kube'.inside = kube.inside
  BY <1>1, <1>2, WorkerShape DEF TypeInv, Config
<1>5. Leads(w, "reload", job[w].phase)
  BY <1>1, <1>2, MoveLeads DEF Places, Steps
<1>6. Fits(w)'
  BY <1>1, <1>2, <1>3, <1>5, ArrivalFits DEF Steps, Making
<1> QED
  BY <1>1, <1>2, <1>3, <1>4, <1>5, <1>6, TypeKept DEF TypeInv, Rests

LEMMA ReloadConfigsType ==
  ASSUME BaseInv, NEW w \in Workers, ReloadConfigs(w)
  PROVE  /\ TypeInv' /\ Fits(w)' /\ Rests(w)
         /\ Leads(w, IF At(w, "reload") THEN "connect" ELSE "health", job[w].phase)
<1>1. /\ Framed(w) /\ job[w].at \in {"reload", "reread"} /\ UNCHANGED <<clusters, kube, attached, socats, ctr, run>>
      /\ Move(w, IF At(w, "reload") THEN "connect" ELSE "health") /\ cfg' = [cfg EXCEPT ![w[1]] = kube]
  BY StepFramed DEF Step, ReloadConfigs, outside, At
<1>2. /\ TypeInv /\ job[w].phase \in {"made", "after"} /\ req[w[1]].op = "apply"
      /\ (job[w].at = "reread" => job[w].phase = "made")
  BY <1>1, AtStep DEF Steps, Connecting
<1>3. Rests(w)
  BY <1>1, IdleRests DEF Steps
<1>4. cfg' \in [Procs -> Config]
  BY <1>1, <1>2, WorkerShape DEF TypeInv
<1>5. Leads(w, IF At(w, "reload") THEN "connect" ELSE "health", job[w].phase)
  BY <1>1, <1>2, MoveLeads DEF Places, Steps, Connecting
<1>6. Fits(w)'
  BY <1>1, <1>2, <1>3, <1>5, ArrivalFits DEF Steps, Making, Connecting, At
<1> QED
  BY <1>1, <1>2, <1>3, <1>4, <1>5, <1>6, TypeKept DEF TypeInv, Rests

LEMMA InsideType ==
  ASSUME BaseInv, NEW w \in Workers, Attach(w) \/ Rewrite(w)
  PROVE  /\ TypeInv' /\ Fits(w)' /\ Rests(w)
         /\ \/ At(w, "attach") /\ Leads(w, "rewrite", "made") /\ attached' /\ kube' = kube
            \/ /\ At(w, "rewrite") /\ Leads(w, "reread", "made") /\ attached' = attached
               /\ kube'.current = kube.current /\ kube'.contexts = kube.contexts
               /\ kube'.inside = kube.inside \cup {w[2]}
<1>1. Framed(w) /\ job[w].at \in {"attach", "rewrite"} /\ UNCHANGED <<clusters, socats, ctr, run, cfg>>
  BY StepFramed DEF Step, Attach, Rewrite, At
<1>2. TypeInv /\ job[w].phase = "made" /\ req[w[1]].op = "apply"
  BY <1>1, AtStep DEF Steps, Connecting
<1>3. Rests(w)
  BY <1>1, IdleRests DEF Steps
<1>4. CASE Attach(w)
  <2>1. Move(w, "rewrite") /\ attached' = TRUE /\ kube' = kube /\ At(w, "attach")
    BY <1>4 DEF Attach
  <2>2. Leads(w, "rewrite", "made")
    BY <1>2, <2>1, MoveLeads DEF Places, Steps
  <2>3. Fits(w)'
    BY <1>1, <1>2, <1>3, <2>2, ArrivalFits DEF Steps, Making
  <2> QED
    BY <1>1, <1>2, <1>3, <2>1, <2>2, <2>3, TypeKept DEF TypeInv, Rests
<1>5. CASE Rewrite(w)
  <2>1. Move(w, "reread") /\ attached' = attached /\ kube' = [kube EXCEPT !.inside = @ \cup {w[2]}] /\ At(w, "rewrite")
    BY <1>5 DEF Rewrite
  <2>2. Leads(w, "reread", "made")
    BY <1>2, <2>1, MoveLeads DEF Places, Steps
  <2>3. Fits(w)'
    BY <1>1, <1>2, <1>3, <2>2, ArrivalFits DEF Steps, Making
  <2>4. /\ kube' \in Config /\ kube'.current = kube.current /\ kube'.contexts = kube.contexts
        /\ kube'.inside = kube.inside \cup {w[2]}
    BY <1>2, <2>1, WorkerShape DEF TypeInv, Config
  <2> QED
    BY <1>1, <1>2, <1>3, <2>1, <2>2, <2>3, <2>4, TypeKept DEF TypeInv, Rests
<1> QED
  BY <1>4, <1>5

LEMMA HealthType ==
  ASSUME BaseInv, NEW w \in Workers, Healthy(w) \/ HealthTimesOut(w)
  PROVE  /\ TypeInv' /\ Fits(w)' /\ Rests(w) /\ At(w, "health")
         /\ \/ Reachable(w[2], cfg[w[1]]) /\ Leads(w, "connect", "after")
            \/ ~Reachable(w[2], cfg[w[1]]) /\ Leads(w, "err", "made")
<1>1. /\ Framed(w) /\ At(w, "health") /\ job[w].at = "health"
      /\ UNCHANGED <<clusters, kube, attached, socats, ctr, cfg, run>>
  BY StepFramed DEF Step, Healthy, HealthTimesOut, outside, At
<1>2. TypeInv /\ job[w].phase = "made" /\ req[w[1]].op = "apply"
  BY <1>1, AtStep DEF Steps, Connecting
<1>3. Rests(w)
  BY <1>1, IdleRests DEF Steps
<1>4. CASE Healthy(w)
  <2>1. Reachable(w[2], cfg[w[1]]) /\ job' = [job EXCEPT ![w] = Became("connect", "after")]
    BY <1>4 DEF Healthy
  <2>2. Leads(w, "connect", "after")
    BY <1>2, <2>1, BecameLeads DEF Places, Steps, Connecting, Phases
  <2>3. Fits(w)'
    BY <1>1, <1>2, <1>3, <2>2, ArrivalFits DEF Steps, Connecting
  <2> QED
    BY <1>1, <1>2, <1>3, <2>1, <2>2, <2>3, TypeKept DEF TypeInv, Rests
<1>5. CASE HealthTimesOut(w)
  <2>1. ~Reachable(w[2], cfg[w[1]]) /\ Move(w, "err")
    BY <1>5 DEF HealthTimesOut
  <2>2. Leads(w, "err", "made")
    BY <1>2, <2>1, MoveLeads DEF Places, Ends
  <2>3. Fits(w)'
    BY <1>1, <1>2, <1>3, <2>2, ArrivalFits DEF Steps, Connecting
  <2> QED
    BY <1>1, <1>2, <1>3, <2>1, <2>2, <2>3, TypeKept DEF TypeInv, Rests
<1> QED
  BY <1>4, <1>5

\* What a step of w changes for others: only an apply reads the kubeconfig again,
\* and it is the one request of its process.
LEMMA StepType ==
  ASSUME BaseInv, NEW w \in Workers, Step(w)
  PROVE  /\ TypeInv' /\ Fits(w)' /\ Framed(w) /\ job[w].at \in Steps
         /\ \A v \in Workers \ {w} : job'[v] = job[v] /\ run'[v] = run[v]
         /\ cfg' # cfg => /\ req[w[1]].op = "apply"
                          /\ \A p \in Procs \ {w[1]} : cfg'[p] = cfg[p]
<1>1. Framed(w)
  BY StepFramed
<1>2. job[w].at \in Steps
  BY DEF Step, Connect, Ensure, Ensured, Scan, Kill, Start, Dial, DialTimesOut, Query, Create, SetContext,
         ReloadConfigs, Attach, Rewrite, Healthy, HealthTimesOut, Steps, Connecting, At
<1>3. CASE Connect(w)
  BY <1>1, <1>2, <1>3, ConnectType DEF Connect, Leads, Rests
<1>4. CASE Ensure(w)
  BY <1>1, <1>2, <1>4, EnsureType DEF Ensure
<1>5. CASE Ensured(w)
  BY <1>1, <1>2, <1>5, EnsuredType DEF Ensured, Leads, Rests
<1>6. CASE Scan(w)
  BY <1>1, <1>2, <1>6, ScanType DEF Scan, Leads, Rests
<1>7. CASE Kill(w)
  BY <1>1, <1>2, <1>7, KillType DEF Kill, Leads, Rests
<1>8. CASE Start(w)
  BY <1>1, <1>2, <1>8, StartType DEF Start, Leads, Rests
<1>9. CASE Dial(w) \/ DialTimesOut(w)
  BY <1>1, <1>2, <1>9, DialType DEF Dial, DialTimesOut, Leads, Rests
<1>10. CASE Query(w)
  BY <1>1, <1>2, <1>10, QueryType DEF Query, Leads, Rests
<1>11. CASE Create(w)
  <2>1. req[w[1]].op = "apply" /\ TypeInv
    BY <1>2, <1>11, AtStep DEF Create, At, Connecting
  <2>2. PICK k : cfg' = [cfg EXCEPT ![w[1]] = k]
    BY <1>11 DEF Create
  <2>3. TypeInv' /\ Fits(w)' /\ Rests(w) /\ Leads(w, "switch", "made")
    BY <1>11, CreateType
  <2> QED
    BY <1>1, <1>2, <2>1, <2>2, <2>3 DEF Leads, Rests, TypeInv
<1>12. CASE SetContext(w)
  BY <1>1, <1>2, <1>12, SetContextType DEF SetContext, Leads, Rests
<1>13. CASE ReloadConfigs(w)
  <2>1. req[w[1]].op = "apply" /\ TypeInv
    BY <1>2, <1>13, AtStep DEF ReloadConfigs, Connecting
  <2>2. cfg' = [cfg EXCEPT ![w[1]] = kube]
    BY <1>13 DEF ReloadConfigs
  <2> QED
    BY <1>1, <1>2, <1>13, <2>1, <2>2, ReloadConfigsType DEF Leads, Rests, TypeInv
<1>14. CASE Attach(w) \/ Rewrite(w)
  BY <1>1, <1>2, <1>14, InsideType DEF Attach, Rewrite, Leads, Rests
<1>15. CASE Healthy(w) \/ HealthTimesOut(w)
  BY <1>1, <1>2, <1>15, HealthType DEF Healthy, HealthTimesOut, Leads, Rests
<1> QED
  BY <1>1, <1>2, <1>3, <1>4, <1>5, <1>6, <1>7, <1>8, <1>9, <1>10, <1>11, <1>12, <1>13, <1>14, <1>15 DEF Step

\* A worker that stays where it is, with the kubeconfig that its process had read.
LEMMA StillFits ==
  ASSUME NEW v \in Workers, Fits(v), job'[v] = job[v], run'[v] = run[v], req' = req,
         job[v].at \in Steps => cfg'[v[1]] = cfg[v[1]]
  PROVE  Fits(v)'
<1>1. job[v].at \in Steps => Port(v)' = Port(v) /\ (FitsRequest(v) => FitsRequest(v)')
  BY DEF Port, CurrentPort, FitsRequest
<1> QED
  BY <1>1 DEF Fits, At, Steps, Connecting

LEMMA StepBase ==
  ASSUME BaseInv, NEW w \in Workers, Step(w)
  PROVE  BaseInv'
<1>1. /\ TypeInv' /\ Fits(w)' /\ req' = req
      /\ \A v \in Workers \ {w} : job'[v] = job[v] /\ run'[v] = run[v]
      /\ cfg' # cfg => req[w[1]].op = "apply" /\ \A p \in Procs \ {w[1]} : cfg'[p] = cfg[p]
      /\ job[w].at \in Steps
  BY StepType DEF Framed
<1>2. ASSUME NEW v \in Workers \ {w}
      PROVE  Fits(v)'
  <2>1. Fits(v) /\ Fits(w)
    BY DEF BaseInv
  <2>2. ASSUME job[v].at \in Steps
        PROVE  cfg'[v[1]] = cfg[v[1]]
    <3>1. CASE v[1] # w[1]
      BY <1>1, <3>1, WorkerShape
    <3>2. CASE v[1] = w[1]
      <4>1. FitsRequest(v) /\ FitsRequest(w)
        BY <1>1, <2>1, <2>2 DEF Fits
      <4>2. req[w[1]].op # "apply"
        BY <3>2, <4>1, WorkerShape DEF FitsRequest
      <4> QED
        BY <1>1, <4>2
    <3> QED
      BY <3>1, <3>2
  <2> QED
    BY <1>1, <2>1, <2>2, StillFits
<1> QED
  BY <1>1, <1>2 DEF BaseInv

-------------------------------------------------------------------------------
(***************************************************************************)
(* The other actions, and the theorem.                                     *)
(***************************************************************************)

\* A process sets out: where each of its workers goes.
First(p, c) ==
  LET r == req[p] IN
  CASE r.op \in {"socat", "registry"} /\ c = r.cluster -> <<"connect", "forward">>
    [] r.op = "get" /\ c = r.cluster /\ c \in kube.contexts -> <<"connect", "status">>
    [] r.op = "list" /\ c \in kube.contexts -> <<"connect", "status">>
    [] r.op = "apply" /\ c = r.cluster /\ c \in kube.contexts -> <<"connect", "before">>
    [] r.op = "apply" /\ c = r.cluster /\ c \notin kube.contexts -> <<"create", "made">>
    [] r.op = "get" /\ c = r.cluster /\ c \notin kube.contexts -> <<"err", "none">>
    [] OTHER -> <<"ok", "none">>

LEMMA FirstPlace ==
  ASSUME TypeInv, NEW p \in Procs, NEW c \in Clusters
  PROVE  /\ req[p].op \in {"socat", "registry"} /\ c = req[p].cluster => First(p, c) = <<"connect", "forward">>
         /\ req[p].op = "get" /\ c = req[p].cluster /\ c \in kube.contexts => First(p, c) = <<"connect", "status">>
         /\ req[p].op = "list" /\ c \in kube.contexts => First(p, c) = <<"connect", "status">>
         /\ req[p].op = "apply" /\ c = req[p].cluster /\ c \in kube.contexts => First(p, c) = <<"connect", "before">>
         /\ req[p].op = "apply" /\ c = req[p].cluster /\ c \notin kube.contexts => First(p, c) = <<"create", "made">>
         /\ req[p].op = "get" /\ c = req[p].cluster /\ c \notin kube.contexts => First(p, c) = <<"err", "none">>
         /\ req[p].op # "list" /\ c # req[p].cluster => First(p, c) = <<"ok", "none">>
         /\ req[p].op = "list" /\ c \notin kube.contexts => First(p, c) = <<"ok", "none">>
         /\ req[p].op \in {"socat", "registry", "list", "get", "apply"}
<1>1. req[p].op \in {"socat", "registry", "list", "get", "apply"}
  BY RemoteAssumption DEF TypeInv
<1>2. CASE req[p].op \in {"socat", "registry"}
  BY <1>2 DEF First
<1>3. CASE req[p].op = "get"
  BY <1>3 DEF First
<1>4. CASE req[p].op = "list"
  BY <1>4 DEF First
<1>5. CASE req[p].op = "apply"
  BY <1>5 DEF First
<1> QED
  BY <1>1, <1>2, <1>3, <1>4, <1>5

LEMMA FirstLeads ==
  ASSUME TypeInv, NEW p \in Procs, Begin(p)
  PROVE  /\ \A w \in Workers : job'[w] = IF w[1] = p THEN Became(First(p, w[2])[1], First(p, w[2])[2]) ELSE job[w]
         /\ \A c \in Clusters : First(p, c)[1] \in Places /\ First(p, c)[2] \in Phases
         /\ job' \in [Workers -> Jobs]
<1>1. job' = [w \in Workers |-> IF w[1] = p THEN Became(First(p, w[2])[1], First(p, w[2])[2]) ELSE job[w]]
  BY Zenon DEF Begin, First
<1>2. ASSUME NEW c \in Clusters
      PROVE  First(p, c)[1] \in Places /\ First(p, c)[2] \in Phases
  BY FirstPlace DEF Places, Phases, Steps, Connecting, Ends
<1>3. ASSUME NEW label \in Places, NEW phase \in Phases
      PROVE  Became(label, phase) \in Jobs
  BY DEF Became, Jobs
<1> QED
  BY <1>1, <1>2, <1>3, WorkerShape DEF TypeInv

LEMMA BeginBase ==
  ASSUME BaseInv, NEW p \in Procs, Begin(p)
  PROVE  BaseInv'
<1>1. /\ TypeInv /\ cfg' = [cfg EXCEPT ![p] = kube] /\ alone' \in {{p}, {}}
      /\ UNCHANGED <<world, clusters, kube, attached, socats, ctr, run, req, mishaps>>
      /\ \A c \in Clusters : job[<<p, c>>].at = "idle"
  BY DEF Begin, outside, BaseInv, At
<1>2. TypeInv'
  BY <1>1, FirstLeads DEF TypeInv
<1>3. ASSUME NEW v \in Workers, v[1] # p
      PROVE  Fits(v)'
  <2>1. Fits(v) /\ job'[v] = job[v] /\ run'[v] = run[v] /\ req' = req /\ cfg'[v[1]] = cfg[v[1]]
    BY <1>1, <1>3, FirstLeads, WorkerShape DEF BaseInv, TypeInv
  <2> QED
    BY <2>1, StillFits
<1>4. ASSUME NEW v \in Workers, v[1] = p
      PROVE  Fits(v)'
  <2>1. job[v].at = "idle" /\ run'[v] = "idle"
    BY <1>1, <1>4, WorkerShape DEF BaseInv, Fits
  <2>2. PICK c \in Clusters : c = v[2]
    BY WorkerShape
  <2>3. job'[v].at = First(p, c)[1] /\ job'[v].phase = First(p, c)[2]
    <3>1. job'[v] = IF v[1] = p THEN Became(First(p, v[2])[1], First(p, v[2])[2]) ELSE job[v]
      BY <1>1, FirstLeads
    <3>2. job'[v] = Became(First(p, c)[1], First(p, c)[2])
      BY <1>4, <2>2, <3>1
    <3> QED
      BY <3>2 DEF Became
  <2>4. First(p, c)[1] \in {"connect", "create", "ok", "err"}
    BY <1>1, FirstPlace
  <2>5. First(p, c)[1] \in Steps => FitsRequest(v)'
    BY <1>1, <1>4, <2>2, <2>3, FirstPlace DEF FitsRequest, Steps, Connecting, Making
  <2> QED
    BY <2>1, <2>3, <2>4, <2>5 DEF Fits, At
<1> QED
  BY <1>2, <1>3, <1>4 DEF BaseInv

LEMMA InterruptBase ==
  ASSUME BaseInv, NEW p \in Procs, Interrupt(p)
  PROVE  BaseInv'
<1>1. /\ UNCHANGED <<world, clusters, kube, attached, socats, ctr, run, req, cfg, alone>>
      /\ job' = [w \in Workers |-> IF w[1] = p THEN Became("dead", "none") ELSE job[w]]
      /\ mishaps < MaxMishaps /\ mishaps' = mishaps + 1 /\ TypeInv
  BY DEF Interrupt, Mishap, outside, BaseInv
<1>2. Became("dead", "none") \in Jobs /\ Became("dead", "none").at = "dead"
  BY DEF Became, Jobs, Places, Phases
<1>3. TypeInv'
  <2>1. mishaps' \in 0..MaxMishaps
    BY <1>1, RemoteAssumption DEF TypeInv
  <2>2. job' \in [Workers -> Jobs]
    BY <1>1, <1>2 DEF TypeInv
  <2> QED
    BY <1>1, <2>1, <2>2 DEF TypeInv
<1>4. ASSUME NEW v \in Workers
      PROVE  Fits(v)'
  <2>1. Fits(v) /\ run'[v] = run[v]
    BY <1>1 DEF BaseInv
  <2>2. CASE v[1] = p
    BY <1>1, <1>2, <2>1, <2>2 DEF Fits, At, Steps, Connecting
  <2>3. CASE v[1] # p
    BY <1>1, <2>1, <2>3, StillFits
  <2> QED
    BY <2>2, <2>3
<1> QED
  BY <1>3, <1>4 DEF BaseInv

LEMMA FailBase ==
  ASSUME BaseInv, NEW w \in Workers, Fail(w)
  PROVE  BaseInv'
<1>1. /\ UNCHANGED <<world, kube, attached, socats, ctr, run, req, cfg, alone>> /\ Move(w, "err")
      /\ mishaps < MaxMishaps /\ mishaps' = mishaps + 1 /\ TypeInv /\ clusters' \subseteq clusters
      /\ job[w].at \in {"create", "attach"}
  BY DEF Fail, Mishap, BaseInv
<1>2. Leads(w, "err", job[w].phase)
  BY <1>1, MoveLeads DEF Places, Ends
<1>3. TypeInv'
  <2>1. mishaps' \in 0..MaxMishaps
    BY <1>1, RemoteAssumption DEF TypeInv
  <2> QED
    BY <1>1, <1>2, <2>1 DEF TypeInv, Leads
<1>4. run[w] = "idle"
  BY <1>1, AtStep DEF Steps, Connecting
<1>5. Fits(w)'
  BY <1>1, <1>2, <1>4 DEF Leads, Fits, At, Steps, Connecting
<1>6. ASSUME NEW v \in Workers \ {w}
      PROVE  Fits(v)'
  BY <1>1, <1>2, StillFits DEF Leads, BaseInv
<1> QED
  BY <1>3, <1>5, <1>6 DEF BaseInv

\* When no worker moves, and the sockets stay apart.
LEMMA AroundBase ==
  ASSUME BaseInv, UNCHANGED <<world, clusters, attached, ctr, run, req, cfg, job, alone>>,
         kube' \in Config, mishaps' \in 0..MaxMishaps,
         socats' \subseteq Socats(Workers \cup {Before}), Exclusive(socats')
  PROVE  BaseInv'
<1>1. TypeInv'
  BY DEF BaseInv, TypeInv
<1>2. ASSUME NEW v \in Workers
      PROVE  Fits(v)'
  BY StillFits DEF BaseInv
<1> QED
  BY <1>1, <1>2 DEF BaseInv

LEMMA MishapType ==
  ASSUME TypeInv, Mishap
  PROVE  mishaps' \in 0..MaxMishaps /\ mishaps' # 0
BY RemoteAssumption DEF TypeInv, Mishap

LEMMA BindChanges ==
  ASSUME TypeInv, NEW s \in socats, Bind(s)
  PROVE  /\ s.state = "starting"
         /\ \/ Listens(s.port) /\ socats' = socats \ {s}
            \/ \E t \in Socats(Workers \cup {Before}) :
                 /\ ~Listens(s.port) /\ t.port = s.port /\ t.cmd = s.cmd /\ t.state = "listening"
                 /\ socats' = (socats \ {s}) \cup {t}
<1> DEFINE bound(t) == [t EXCEPT !.state = "listening"]
<1>1. s.state = "starting" /\ socats' = (socats \ {s}) \cup {bound(t) : t \in {t \in {s} : ~Listens(s.port)}}
  BY DEF Bind
<1>2. bound(s) \in Socats(Workers \cup {Before}) /\ bound(s).port = s.port /\ bound(s).cmd = s.cmd
      /\ bound(s).state = "listening"
  BY DEF TypeInv, Socats
<1> HIDE DEF bound
<1>3. CASE Listens(s.port)
  BY <1>1, <1>3
<1>4. CASE ~Listens(s.port)
  <2>1. {bound(t) : t \in {t \in {s} : ~Listens(s.port)}} = {bound(s)}
    BY <1>4
  <2> QED
    BY <1>1, <1>2, <1>4, <2>1
<1> QED
  BY <1>3, <1>4

LEMMA SocatsBase ==
  ASSUME BaseInv, NEW s \in socats, Bind(s) \/ Die(s) \/ HangUp(s) \/ TunnelDies(s)
  PROVE  BaseInv'
<1>1. /\ UNCHANGED <<world, clusters, kube, attached, ctr, run, req, cfg, job, alone>> /\ TypeInv
      /\ (mishaps' = mishaps \/ Mishap)
  BY DEF Bind, Die, HangUp, TunnelDies, inside, outside, BaseInv
<1>2. mishaps' \in 0..MaxMishaps /\ kube' \in Config
  BY <1>1, MishapType DEF TypeInv
<1>3. CASE socats' = socats \ {s}
  BY <1>1, <1>2, <1>3, AroundBase DEF TypeInv, Exclusive
<1>4. CASE Bind(s) /\ socats' # socats \ {s}
  <2>1. PICK t \in Socats(Workers \cup {Before}) :
          ~Listens(s.port) /\ t.port = s.port /\ socats' = (socats \ {s}) \cup {t}
    BY <1>1, <1>4, BindChanges
  <2>2. \A r \in socats : Holds(r) => r.port # s.port
    BY <2>1 DEF Listens
  <2>3. Exclusive(socats')
    BY <1>1, <2>1, <2>2 DEF TypeInv, Exclusive
  <2> QED
    BY <1>1, <1>2, <2>1, <2>3, AroundBase DEF TypeInv
<1>5. CASE socats' = (socats \ {s}) \cup {[s EXCEPT !.state = "child"]}
  <2>1. PICK t : t = [s EXCEPT !.state = "child"]
    OBVIOUS
  <2>2. t \in Socats(Workers \cup {Before}) /\ ~Holds(t)
    BY <1>1, <2>1 DEF TypeInv, Socats, Holds
  <2>3. Exclusive(socats')
    BY <1>1, <1>5, <2>1, <2>2 DEF TypeInv, Exclusive
  <2> QED
    BY <1>1, <1>2, <1>5, <2>1, <2>2, <2>3, AroundBase DEF TypeInv
<1> QED
  BY <1>1, <1>3, <1>4, <1>5 DEF Die, HangUp, TunnelDies

LEMMA UseContextBase ==
  ASSUME BaseInv, NEW c, UseContext(c)
  PROVE  BaseInv'
<1>1. /\ UNCHANGED <<world, clusters, attached, socats, ctr, run, req, cfg, job, alone>> /\ TypeInv /\ Mishap
      /\ kube' = [kube EXCEPT !.current = c] /\ c \in kube.contexts
  BY DEF UseContext, BaseInv
<1>2. kube' \in Config
  BY <1>1 DEF TypeInv, Config
<1> QED
  BY <1>1, <1>2, MishapType, AroundBase DEF TypeInv

LEMMA BaseInit == Init => BaseInv
<1> SUFFICES ASSUME Init PROVE BaseInv
  OBVIOUS
<1>1. world \in Worlds /\ IsWorld(world)
  BY RemoteAssumption DEF Init
<1>2. clusters \subseteq Clusters /\ kube \in Config /\ attached \in BOOLEAN
  BY <1>1 DEF Init, IsWorld
<1>3. socats \subseteq Socats(Workers \cup {Before}) /\ Exclusive(socats)
  BY <1>1 DEF Init, IsWorld, Socats
<1>4. ctr \in [{Service} -> Services(Workers \cup {Daemon})]
  BY <1>1 DEF Init, IsWorld, Services
<1>5. run \in [Workers -> Run!Active \cup Run!Returned \cup {"idle"}] /\ \A w \in Workers : run[w] = "idle"
  BY DEF Init
<1>6. req \in [Procs -> Requests] /\ cfg \in [Procs -> Config] /\ alone \subseteq Procs
  BY <1>2 DEF Init
<1>7. job \in [Workers -> Jobs] /\ \A w \in Workers : job[w].at = "idle"
  <2>1. [at |-> "idle", phase |-> "none", old |-> NoSocat] \in Jobs
    BY DEF Jobs, Places, Phases
  <2> QED
    BY <2>1 DEF Init
<1>8. mishaps \in 0..MaxMishaps
  BY RemoteAssumption DEF Init
<1>9. TypeInv
  BY <1>1, <1>2, <1>3, <1>4, <1>5, <1>6, <1>7, <1>8 DEF TypeInv
<1>10. \A w \in Workers : Fits(w)
  BY <1>5, <1>7 DEF Fits, At, Steps, Connecting
<1> QED
  BY <1>9, <1>10 DEF BaseInv

LEMMA BaseNext == BaseInv /\ [Next]_vars => BaseInv'
<1> SUFFICES ASSUME BaseInv, [Next]_vars PROVE BaseInv'
  OBVIOUS
<1>1. ASSUME NEW p \in Procs, Begin(p) \/ Interrupt(p)
      PROVE  BaseInv'
  BY <1>1, BeginBase, InterruptBase
<1>2. ASSUME NEW w \in Workers, Step(w) \/ Fail(w)
      PROVE  BaseInv'
  BY <1>2, StepBase, FailBase
<1>3. ASSUME NEW s \in socats, Bind(s) \/ Die(s) \/ HangUp(s) \/ TunnelDies(s)
      PROVE  BaseInv'
  BY <1>3, SocatsBase
<1>4. ASSUME NEW c \in Clusters, UseContext(c)
      PROVE  BaseInv'
  BY <1>4, UseContextBase
<1>5. CASE UNCHANGED vars
  <2>1. UNCHANGED <<world, clusters, attached, ctr, run, req, cfg, job, alone>> /\ kube' = kube
        /\ mishaps' = mishaps /\ socats' = socats
    BY <1>5 DEF vars
  <2> QED
    BY <2>1, AroundBase DEF BaseInv, TypeInv
<1> QED
  BY <1>1, <1>2, <1>3, <1>4, <1>5 DEF Next

(***************************************************************************)
(* Whatever the processes do at once and whatever goes wrong, the variables  *)
(* have their types: no two processes ever listen at one port of this        *)
(* machine, and only a worker at the service container, or one whose process *)
(* was killed there, has a call of dctr.Run under way. (socat.go: Connect;    *)
(* cluster.go: NewController, Apply; dctr.Run)                              *)
(***************************************************************************)
THEOREM TypeCorrect == Spec => []TypeOK
<1>1. BaseInv => TypeOK
  BY DEF BaseInv, TypeInv, TypeOK, Jobs, Places, Fits
<1> QED
  BY <1>1, BaseInit, BaseNext, PTL DEF Spec

-------------------------------------------------------------------------------
(***************************************************************************)
(* The sockets stay orderly for as long as nothing goes wrong.             *)
(***************************************************************************)

\* The worker of another process, or of a list, keeps its port.
LEMMA OthersPort ==
  ASSUME BaseInv, NEW w \in Workers, Step(w), NEW v \in Workers \ {w}, job[v].at \in Steps
  PROVE  Port(v)' = Port(v) /\ cfg'[v[1]] = cfg[v[1]] /\ job'[v] = job[v]
<1>1. /\ req' = req /\ job'[v] = job[v] /\ job[w].at \in Steps
      /\ cfg' # cfg => req[w[1]].op = "apply" /\ \A p \in Procs \ {w[1]} : cfg'[p] = cfg[p]
  BY StepType DEF Framed
<1>2. cfg'[v[1]] = cfg[v[1]]
  <2>1. CASE v[1] # w[1]
    BY <1>1, <2>1, WorkerShape
  <2>2. CASE v[1] = w[1]
    <3>1. FitsRequest(v) /\ FitsRequest(w)
      BY <1>1, AtStep
    <3> QED
      BY <1>1, <2>2, <3>1, WorkerShape DEF FitsRequest
  <2> QED
    BY <2>1, <2>2
<1> QED
  BY <1>1, <1>2 DEF Port, CurrentPort

\* What the sockets of a step have to be.
LEMMA OrderlyKept ==
  ASSUME Orderly, Calm, world' = world,
         \A s \in socats' : s.cmd = "ours" /\ s.state \in {"starting", "listening"},
         \A s \in socats' : s.state = "starting" => s \in socats \/ \E w \in Workers : Awaits(w, s)',
         \A s \in socats : s \in socats' \/ Listens(s.port)',
         \A w \in Workers : At(w, "dial")' =>
            (At(w, "dial") /\ Port(w)' = Port(w)) \/ Mine(w)' \in socats',
         \A w \in Workers : At(w, "dial") =>
            (At(w, "dial")' /\ Port(w)' = Port(w)) \/ Listens(Port(w)),
         \A w \in Workers : ~At(w, "kill")'
  PROVE  Orderly'
<1>1. ASSUME NEW port, Listens(port)
      PROVE  Listens(port)'
  BY <1>1 DEF Listens, Holds
<1>2. world'.taken = {}
  BY DEF Orderly
<1>3. ASSUME NEW s \in socats', s.state = "starting"
      PROVE  Listens(s.port)' \/ \E w \in Workers : Awaits(w, s)'
  <2>1. CASE s \in socats /\ Listens(s.port)
    BY <1>1, <2>1
  <2>2. CASE s \in socats /\ \E w \in Workers : Awaits(w, s)
    <3>1. PICK w \in Workers : Awaits(w, s)
      BY <2>2
    <3>2. CASE At(w, "dial")' /\ Port(w)' = Port(w)
      BY <3>1, <3>2 DEF Awaits
    <3>3. CASE Listens(Port(w))
      BY <1>1, <3>1, <3>3 DEF Awaits
    <3> QED
      BY <3>1, <3>2, <3>3 DEF Awaits
  <2> QED
    BY <1>3, <2>1, <2>2 DEF Orderly
<1>4. ASSUME NEW w \in Workers, At(w, "dial")'
      PROVE  (Listens(Port(w)) \/ Mine(w) \in socats)'
  <2>1. PICK port : port = Port(w)
    OBVIOUS
  <2>2. CASE At(w, "dial") /\ Port(w)' = Port(w)
    <3>1. Mine(w)' = Mine(w) /\ Mine(w).port = Port(w)
      BY <2>2 DEF Mine, Socat
    <3>2. CASE Listens(port)
      <4>1. Listens(port)'
        BY <1>1, <3>2
      <4> QED
        BY <2>1, <2>2, <4>1 DEF Listens
    <3>3. CASE Mine(w) \in socats
      <4>1. Mine(w) \in socats' \/ Listens(port)'
        BY <2>1, <3>1, <3>3
      <4> QED
        BY <2>1, <2>2, <3>1, <4>1 DEF Listens
    <3> QED
      BY <2>1, <2>2, <3>2, <3>3 DEF Orderly
  <2> QED
    BY <1>4, <2>2
<1> QED
  BY <1>2, <1>3, <1>4 DEF Orderly

LEMMA OrderlyStep ==
  ASSUME BaseInv, Orderly, Calm', NEW w \in Workers, Step(w)
  PROVE  Orderly'
<1>1. /\ Calm /\ world' = world /\ req' = req /\ TypeInv /\ job[w].at \in Steps
      /\ \A s \in socats : s.cmd = "ours" /\ s.state \in {"starting", "listening"}
  BY StepType DEF Framed, Calm, Orderly, BaseInv
<1>2. ASSUME NEW v \in Workers \ {w}
      PROVE  job'[v] = job[v] /\ (At(v, "dial") => Port(v)' = Port(v))
  BY <1>2, StepType, OthersPort DEF At, Steps, Connecting
<1>3. ASSUME NEW v \in Workers \ {w}
      PROVE  /\ At(v, "dial")' => At(v, "dial") /\ Port(v)' = Port(v)
             /\ At(v, "dial") => At(v, "dial")' /\ Port(v)' = Port(v)
             /\ ~At(v, "kill")'
  BY <1>1, <1>2 DEF At, Orderly
<1>4. CASE socats' = socats /\ ~At(w, "dial")' /\ ~At(w, "kill")' /\ (At(w, "dial") => Listens(Port(w)))
  BY <1>1, <1>3, <1>4, OrderlyKept
<1>5. CASE Start(w) /\ world.installed
  <2>1. socats' = socats \cup {Mine(w)} /\ Leads(w, "dial", job[w].phase) /\ cfg' = cfg /\ At(w, "start")
    BY <1>5, StartType DEF Start
  <2>2. At(w, "dial")' /\ Port(w)' = Port(w) /\ ~At(w, "dial")
    BY <1>1, <2>1, SamePort DEF Leads, At
  <2>3. Mine(w)' = Mine(w) /\ Mine(w).port = Port(w) /\ Mine(w).cmd = "ours" /\ Mine(w).state = "starting"
        /\ Mine(w).by = w
    BY <2>2 DEF Mine, Socat
  <2>4. Awaits(w, Mine(w))'
    BY <2>2, <2>3 DEF Awaits
  <2>5. ~At(w, "kill")'
    BY <2>1 DEF Leads, At
  <2>6. \A s \in socats' : s.state = "starting" => s \in socats \/ \E v \in Workers : Awaits(v, s)'
    BY <2>1, <2>2, <2>3 DEF Awaits
  <2>7. \A s \in socats' : s.cmd = "ours" /\ s.state \in {"starting", "listening"}
    BY <1>1, <2>1, <2>3
  <2> QED
    BY <1>1, <1>3, <2>1, <2>2, <2>3, <2>5, <2>6, <2>7, OrderlyKept
<1>6. ASSUME NEW label, NEW phase, Leads(w, label, phase), label \notin {"dial", "kill"}
      PROVE  ~At(w, "dial")' /\ ~At(w, "kill")'
  BY <1>6 DEF Leads, At
<1>7. job[w].phase \in Phases \ {"none"}
  BY <1>1, AtStep
<1>8. ASSUME NEW ok \in BOOLEAN
      PROVE  Then(w, ok) \notin {"dial", "kill"}
  BY <1>7, ThenType DEF Phases
<1>9. CASE Connect(w)
  <2>1. socats' = socats /\ ~At(w, "dial")
    BY <1>9 DEF Connect, At
  <2>2. ~At(w, "dial")' /\ ~At(w, "kill")'
    <3>1. Leads(w, "ensure", job[w].phase) \/ Leads(w, Then(w, TRUE), job[w].phase)
      BY <1>9, ConnectType
    <3> QED
      BY <1>8, <3>1 DEF Leads, At
  <2> QED
    BY <1>4, <2>1, <2>2
<1>10. CASE Ensure(w)
  BY <1>4, <1>10 DEF Ensure, At
<1>11. CASE Ensured(w)
  <2>1. socats' = socats /\ ~At(w, "dial")
    BY <1>11 DEF Ensured, At
  <2>2. ~At(w, "dial")' /\ ~At(w, "kill")'
    <3>1. Leads(w, "scan", job[w].phase) \/ Leads(w, Then(w, FALSE), job[w].phase)
      BY <1>11, EnsuredType
    <3> QED
      BY <1>8, <3>1 DEF Leads, At
  <2> QED
    BY <1>4, <2>1, <2>2
<1>12. CASE Scan(w)
  <2>1. socats' = socats /\ ~At(w, "dial")
    BY <1>12 DEF Scan, At
  <2>2. ~At(w, "dial")' /\ ~At(w, "kill")'
    <3>1. Leads(w, "start", job[w].phase) \/ Leads(w, Then(w, TRUE), job[w].phase)
      BY <1>1, <1>12, ScanType
    <3> QED
      BY <1>8, <3>1 DEF Leads, At
  <2> QED
    BY <1>4, <2>1, <2>2
<1>13. CASE Kill(w)
  BY <1>1, <1>13 DEF Kill, Orderly
<1>14. CASE Start(w)
  BY <1>4, <1>5, <1>6, <1>8, <1>14, StartType DEF Start, At
<1>15. CASE Dial(w) \/ DialTimesOut(w)
  <2>1. At(w, "dial") /\ socats' = socats
    BY <1>15 DEF Dial, DialTimesOut
  <2>2. Listens(Port(w)) \/ Mine(w) \in socats
    BY <1>1, <2>1 DEF Orderly
  <2> QED
    BY <1>4, <1>6, <1>8, <1>15, <2>1, <2>2, DialType
<1>16. CASE Query(w)
  BY <1>4, <1>6, <1>16, QueryType DEF Query, At
<1>17. CASE Create(w)
  BY <1>4, <1>6, <1>17, CreateType DEF Create, At
<1>18. CASE SetContext(w)
  BY <1>4, <1>6, <1>18, SetContextType DEF SetContext, At
<1>19. CASE ReloadConfigs(w)
  <2>1. socats' = socats /\ ~At(w, "dial")
    BY <1>19 DEF ReloadConfigs, At
  <2>2. ~At(w, "dial")' /\ ~At(w, "kill")'
    BY <1>6, <1>19, ReloadConfigsType
  <2> QED
    BY <1>4, <2>1, <2>2
<1>20. CASE Attach(w) \/ Rewrite(w)
  BY <1>4, <1>6, <1>20, InsideType DEF Attach, Rewrite, At
<1>21. CASE Healthy(w) \/ HealthTimesOut(w)
  BY <1>4, <1>6, <1>21, HealthType DEF Healthy, HealthTimesOut, At
<1> QED
  BY <1>9, <1>10, <1>11, <1>12, <1>13, <1>14, <1>15, <1>16, <1>17, <1>18, <1>19, <1>20, <1>21 DEF Step

LEMMA OrderlyBegin ==
  ASSUME BaseInv, Orderly, Calm', NEW p \in Procs, Begin(p)
  PROVE  Orderly'
<1>1. /\ TypeInv /\ cfg' = [cfg EXCEPT ![p] = kube] /\ world' = world /\ socats' = socats /\ req' = req
      /\ mishaps' = mishaps /\ Calm /\ \A c \in Clusters : job[<<p, c>>].at = "idle"
  BY DEF Begin, outside, BaseInv, At, Calm
<1>2. ASSUME NEW v \in Workers, v[1] # p
      PROVE  job'[v] = job[v] /\ Port(v)' = Port(v)
  <2>1. job'[v] = job[v] /\ cfg'[v[1]] = cfg[v[1]]
    BY <1>1, <1>2, FirstLeads, WorkerShape DEF TypeInv
  <2> QED
    BY <1>1, <2>1 DEF Port, CurrentPort
<1>3. ASSUME NEW v \in Workers, v[1] = p
      PROVE  ~At(v, "dial") /\ ~At(v, "dial")' /\ ~At(v, "kill")'
  <2>1. job[v].at = "idle"
    BY <1>1, <1>3, WorkerShape
  <2>2. PICK c \in Clusters : c = v[2]
    BY WorkerShape
  <2>3. job'[v] = IF v[1] = p THEN Became(First(p, v[2])[1], First(p, v[2])[2]) ELSE job[v]
    BY <1>1, FirstLeads
  <2>4. job'[v].at = First(p, c)[1]
    BY <1>3, <2>2, <2>3 DEF Became
  <2>5. First(p, c)[1] \in {"connect", "create", "ok", "err"}
    BY <1>1, FirstPlace
  <2> QED
    BY <2>1, <2>4, <2>5 DEF At
<1>4. \A v \in Workers : ~At(v, "kill")'
  BY <1>1, <1>2, <1>3 DEF Orderly, At
<1>5. \A v \in Workers : At(v, "dial")' => At(v, "dial") /\ Port(v)' = Port(v)
  BY <1>2, <1>3 DEF At
<1>6. \A v \in Workers : At(v, "dial") => At(v, "dial")' /\ Port(v)' = Port(v)
  BY <1>2, <1>3 DEF At
<1>7. \A s \in socats' : s.cmd = "ours" /\ s.state \in {"starting", "listening"}
  BY <1>1 DEF Orderly
<1> QED
  BY <1>1, <1>4, <1>5, <1>6, <1>7, OrderlyKept

LEMMA OrderlySocats ==
  ASSUME BaseInv, Orderly, Calm', NEW s \in socats, Bind(s) \/ Die(s) \/ HangUp(s) \/ TunnelDies(s)
  PROVE  Bind(s) /\ Orderly'
<1>1. Bind(s) /\ Calm /\ UNCHANGED <<world, clusters, kube, attached, ctr, run, req, cfg, job>> /\ TypeInv
  <2>1. ~TunnelDies(s)
    BY MishapType DEF TunnelDies, BaseInv, Calm
  <2>2. Calm
    BY <2>1 DEF Calm, Bind, Die, HangUp
  <2>3. s.state \in {"starting", "listening"}
    BY <2>2 DEF Orderly
  <2> QED
    BY <2>1, <2>2, <2>3 DEF Bind, Die, HangUp, inside, outside, BaseInv
<1>2. \A v \in Workers : (At(v, "dial")' <=> At(v, "dial")) /\ Port(v)' = Port(v) /\ (At(v, "kill")' <=> At(v, "kill"))
  BY <1>1 DEF At, Port, CurrentPort
<1>3. \A r \in socats : r.cmd = "ours" /\ r.state \in {"starting", "listening"}
  BY <1>1 DEF Orderly
<1>4. \A v \in Workers : ~At(v, "kill")'
  BY <1>1, <1>2 DEF Orderly
<1>5. CASE Listens(s.port) /\ socats' = socats \ {s}
  <2>1. s.state = "starting"
    BY <1>1 DEF Bind
  <2>2. Listens(s.port)'
    BY <1>1, <1>5, <2>1 DEF Listens, Holds
  <2> QED
    BY <1>1, <1>2, <1>3, <1>4, <1>5, <2>2, OrderlyKept
<1>6. ASSUME NEW t, t.port = s.port, t.cmd = s.cmd, t.state = "listening", socats' = (socats \ {s}) \cup {t}
      PROVE  Orderly'
  <2>1. Listens(s.port)'
    BY <1>6 DEF Listens, Holds
  <2>2. \A r \in socats' : r.cmd = "ours" /\ r.state \in {"starting", "listening"}
    BY <1>3, <1>6
  <2>3. \A r \in socats' : r.state = "starting" => r \in socats
    BY <1>6
  <2>4. \A r \in socats : r \in socats' \/ Listens(r.port)'
    BY <1>6, <2>1
  <2> QED
    BY <1>1, <1>2, <1>4, <2>2, <2>3, <2>4, OrderlyKept
<1> QED
  BY <1>1, <1>5, <1>6, BindChanges

LEMMA OrderlyInit == Init => Orderly
BY DEF Init, Orderly, Calm, At

\* Whatever else happens is a mishap.
LEMMA MishapEnds ==
  ASSUME TypeInv, \/ \E p \in Procs : Interrupt(p)
                  \/ \E w \in Workers : Fail(w)
                  \/ \E c \in Clusters : UseContext(c)
  PROVE  ~Calm'
BY MishapType DEF Interrupt, Fail, UseContext, Calm

LEMMA OrderlyNext == BaseInv /\ Orderly /\ [Next]_vars => Orderly'
<1> SUFFICES ASSUME BaseInv, Orderly, [Next]_vars, Calm' PROVE Orderly'
  BY DEF Orderly
<1>1. ASSUME NEW p \in Procs, Begin(p)
      PROVE  Orderly'
  BY <1>1, OrderlyBegin
<1>2. ASSUME NEW w \in Workers, Step(w)
      PROVE  Orderly'
  BY <1>2, OrderlyStep
<1>3. ASSUME NEW s \in socats, Bind(s) \/ Die(s) \/ HangUp(s) \/ TunnelDies(s)
      PROVE  Orderly'
  BY <1>3, OrderlySocats
<1>4. CASE UNCHANGED vars
  BY <1>4 DEF vars, Orderly, Calm, Listens, Awaits, Mine, Port, CurrentPort, At
<1> QED
  BY <1>1, <1>2, <1>3, <1>4, MishapEnds DEF Next, BaseInv

-------------------------------------------------------------------------------
(***************************************************************************)
(* A worker that nothing is in the way of.                                 *)
(***************************************************************************)

\* Its service comes up, no socat goes, and so no tunnel and no way to a cluster.
LEMMA MachineStays ==
  ASSUME BaseInv, Orderly, Calm, NEW w \in Workers, Step(w), Connects(w)
  PROVE  /\ socats \subseteq socats' /\ clusters \subseteq clusters' /\ (attached => attached')
         /\ Service0.state = "running" => Service0'.state = "running"
         /\ At(w, "ensure") /\ At(w, "ensure")' => Serves(w)'
<1>1. TypeInv /\ ~At(w, "kill")
  BY DEF BaseInv, Orderly
<1>2. CASE Ensure(w)
  <2>1. Run!Step(w) /\ Serves(w) /\ socats' = socats /\ clusters' = clusters /\ attached' = attached
    BY <1>2 DEF Ensure, Connects, outside
  <2> QED
    BY <1>1, <2>1, RunStep
<1>3. CASE ~Ensure(w)
  <2>1. ctr' = ctr /\ socats \subseteq socats' /\ clusters \subseteq clusters' /\ (attached => attached')
    <3>1. CASE Connect(w)
      BY <3>1, ConnectType DEF Connect, outside
    <3>2. CASE Start(w)
      BY <3>2, StartType DEF Start, outside
    <3>3. CASE Create(w)
      BY <3>3 DEF Create
    <3>4. CASE Ensured(w)
      BY <3>4, EnsuredType DEF outside, Ensured
    <3>10. CASE Dial(w) \/ DialTimesOut(w)
      <4>1. UNCHANGED <<outside, socats, ctr>>
        BY <3>10 DEF Dial, DialTimesOut
      <4> QED
        BY <4>1 DEF outside
    <3>9. CASE SetContext(w) \/ ReloadConfigs(w)
      BY <3>9 DEF outside, SetContext, ReloadConfigs
    <3>7. CASE Scan(w)
      BY <3>7, ScanType DEF outside, Scan
    <3>8. CASE Query(w)
      BY <3>8 DEF outside, Query
    <3>5. CASE Attach(w) \/ Rewrite(w) \/ Healthy(w) \/ HealthTimesOut(w)
      BY <3>5 DEF outside, Attach, Rewrite, Healthy, HealthTimesOut
    <3>6. ~Kill(w)
      BY <1>1 DEF Kill
    <3> QED
      BY <1>3, <3>1, <3>2, <3>3, <3>4, <3>5, <3>6, <3>7, <3>8, <3>9, <3>10 DEF Step
  <2>2. ~(At(w, "ensure") /\ At(w, "ensure")')
    <3>1. ASSUME At(w, "ensure")
          PROVE  Ensured(w)
      BY <1>3, <3>1 DEF Step, At, Connect, Scan, Kill, Start, Dial, DialTimesOut, Query,
         Create, SetContext, ReloadConfigs, Attach, Rewrite, Healthy, HealthTimesOut
    <3>2. ASSUME Ensured(w)
          PROVE  ~At(w, "ensure")'
      <4>1. Rests(w) /\ Fits(w)'
        BY <3>2, EnsuredType
      <4>2. "idle" \notin Run!Active \cup Run!Returned
        BY DEF Run!Active, Run!Returned
      <4> QED
        BY <4>1, <4>2 DEF Rests, Fits
    <3> QED
      BY <3>1, <3>2
  <2> QED
    BY <2>1, <2>2 DEF Service0
<1> QED
  BY <1>2, <1>3

LEMMA TunnelStays ==
  ASSUME BaseInv, Orderly, Calm, NEW w \in Workers, Step(w), Connects(w), NEW port, Tunnelled(port)
  PROVE  Tunnelled(port)'
<1>1. socats \subseteq socats' /\ (Service0.state = "running" => Service0'.state = "running")
  BY MachineStays
<1> QED
  BY <1>1 DEF Tunnelled, Service0

LEMMA ReachStays ==
  ASSUME BaseInv, Orderly, Calm, NEW w \in Workers, Step(w), Connects(w),
         NEW c \in Clusters, Reachable(c, kube), kube.inside \subseteq kube'.inside
  PROVE  Reachable(c, kube)'
<1>1. world' = world /\ clusters \subseteq clusters' /\ (attached => attached')
  BY StepFramed, MachineStays DEF Framed
<1>2. PICK port : port = PortOf[c]
  OBVIOUS
<1>3. Tunnelled(port) => Tunnelled(port)'
  BY TunnelStays
<1>4. (Remote' <=> Remote) /\ (InsideContainer' <=> InsideContainer)
  BY <1>1 DEF Remote, InsideContainer
<1>5. Tunnelled(PortOf[c])' <=> Tunnelled(port)'
  BY <1>2 DEF Tunnelled
<1> QED
  BY <1>1, <1>2, <1>3, <1>4, <1>5 DEF Reachable

\* The port of the current cluster is its own.
LEMMA CurrentIs ==
  ASSUME TypeInv, NEW w \in Workers, cfg[w[1]] = kube, kube.current = w[2], w[2] \in kube.contexts
  PROVE  CurrentPort(w[1]) = PortOf[w[2]] /\ PortOf[w[2]] # 0
BY WorkerShape, RemoteAssumption DEF CurrentPort

\* A container that has the daemon's socket is where the daemon is.
LEMMA InsideIsHere == InsideContainer => ~Remote
BY DEF InsideContainer, Remote, IsLocalHost

\* What comes of a step: a rest from which it goes on, or a good end.
Progress(w) ==
  /\ job'[w].at \in Steps => Rest(w)'
  /\ job'[w].at \in Ends => EndsWell(w)

\* On the way to the socket.
LEMMA ConnectingRests ==
  ASSUME BaseInv, Orderly, Calm, NEW w \in Workers, Step(w), Connects(w), Rest(w),
         job[w].at \in Connecting, NEW label \in Connecting, Leads(w, label, job[w].phase),
         UNCHANGED <<clusters, kube, attached, cfg>>
  PROVE  Progress(w)
<1>1. /\ job'[w].at = label /\ job'[w].phase = job[w].phase /\ world' = world
      /\ cfg[w[1]] = kube /\ label \notin {"create", "switch", "reload", "reread", "query", "attach", "rewrite", "health"}
      /\ job[w].at \notin {"create", "switch"}
  BY StepFramed DEF Leads, Framed, Rest, Connecting
<1>2. Reachable(w[2], kube) => Reachable(w[2], kube)'
  BY ReachStays, WorkerShape
<1>3. Rest(w)'
  BY <1>1, <1>2 DEF Rest
<1>4. label \notin Ends
  BY DEF Connecting, Ends
<1> QED
  BY <1>1, <1>3, <1>4 DEF Progress

\* A connection that is made, or that is not needed.
LEMMA MadeRests ==
  ASSUME BaseInv, Orderly, Calm, NEW w \in Workers, Step(w), Connects(w), Rest(w),
         job[w].at \in Connecting, Leads(w, Then(w, TRUE), job[w].phase),
         UNCHANGED <<clusters, kube, attached, cfg>>,
         req[w[1]].op # "list",
         req[w[1]].op = "socat" \/ (Remote /\ Port(w) # 0) => Tunnelled(Port(w))
  PROVE  Progress(w)
<1>1. /\ TypeInv /\ FitsRequest(w) /\ job[w].phase \in Phases \ {"none"} /\ req[w[1]] \in Requests
      /\ req[w[1]].op \in {"socat", "registry", "list", "get", "apply"}
  BY AtStep DEF Steps
<1>2. /\ world' = world /\ cfg[w[1]] = kube /\ job'[w].phase = job[w].phase /\ job'[w].at = Then(w, TRUE)
      /\ job[w].at \notin {"create", "switch"}
  BY StepFramed DEF Leads, Framed, Rest, Connecting
<1>3. PICK port : port = Port(w)
  OBVIOUS
<1>4. Tunnelled(port) => Tunnelled(port)'
  BY TunnelStays
<1>5. (Remote' <=> Remote) /\ (InsideContainer' <=> InsideContainer)
  BY <1>2 DEF Remote, InsideContainer
<1>6. CASE job[w].phase = "forward"
  <2>1. job'[w].at = "ok" /\ req[w[1]].op \in {"socat", "registry"} /\ Port(w) = req[w[1]].port /\ Port(w) # 0
    BY <1>1, <1>2, <1>6, ThenType, PortType DEF FitsRequest, Port
  <2>2. EndsWell(w)
    BY <2>1 DEF EndsWell
  <2> QED
    BY <2>1, <2>2 DEF Progress, Steps, Connecting
<1>7. CASE job[w].phase \in {"status", "before"}
  <2>1. job'[w].at = "query" /\ Port(w) = CurrentPort(w[1])
    BY <1>1, <1>2, <1>7, ThenType DEF Port
  <2>2. CurrentPort(w[1])' = CurrentPort(w[1])
    BY DEF CurrentPort
  <2>3. Remote /\ CurrentPort(w[1]) # 0 => Tunnelled(port)'
    BY <1>3, <1>4, <2>1
  <2>4. Tunnelled(port)' => Tunnelled(CurrentPort(w[1]))'
    BY <1>3, <2>1, <2>2 DEF Tunnelled
  <2>5. Rest(w)'
    BY <1>2, <1>5, <1>7, <2>1, <2>2, <2>3, <2>4 DEF Rest
  <2> QED
    BY <2>1, <2>5 DEF Progress, Ends
<1>8. CASE job[w].phase = "made"
  <2>1. job'[w].at = IF InsideContainer THEN "attach" ELSE "health"
    BY <1>1, <1>2, <1>8, ThenType
  <2>2. Port(w) = PortOf[w[2]] /\ Port(w) # 0
    BY <1>1, <1>2, <1>8, CurrentIs DEF Port, Rest
  <2>3. Remote => Tunnelled(PortOf[w[2]])'
    BY <1>3, <1>4, <2>2 DEF Tunnelled
  <2>4. Rest(w)'
    BY <1>2, <1>5, <1>8, <2>1, <2>3 DEF Rest
  <2> QED
    BY <2>1, <2>4 DEF Progress, Ends
<1>9. CASE job[w].phase = "after"
  <2>1. job'[w].at = "ok" /\ req[w[1]].op = "apply" /\ Reachable(w[2], kube)
    BY <1>1, <1>2, <1>9, ThenType DEF FitsRequest, Rest
  <2>2. EndsWell(w)
    BY <2>1 DEF EndsWell
  <2> QED
    BY <2>1, <2>2 DEF Progress, Steps, Connecting
<1> QED
  BY <1>1, <1>6, <1>7, <1>8, <1>9 DEF Phases

\* A connection that cannot be made, for want of socat.
LEMMA MissingRests ==
  ASSUME BaseInv, Orderly, Calm, NEW w \in Workers, Step(w), Connects(w), Rest(w),
         At(w, "start"), Leads(w, Then(w, FALSE), job[w].phase),
         UNCHANGED <<clusters, kube, attached, cfg>>,
         req[w[1]].op # "list", ~world.installed
  PROVE  Progress(w)
<1>1. /\ FitsRequest(w) /\ job[w].phase \in Phases \ {"none"} /\ job[w].at = "start"
      /\ req[w[1]].op \in {"socat", "registry", "list", "get", "apply"}
  BY AtStep DEF Steps, Connecting, At
<1>2. /\ world' = world /\ cfg[w[1]] = kube /\ job'[w].phase = job[w].phase /\ job'[w].at = Then(w, FALSE)
  BY <1>1, StepFramed DEF Leads, Framed, Rest
<1>3. req[w[1]].op = "socat" \/ Remote
  BY <1>1 DEF Connects
<1>4. CASE job[w].phase = "forward"
  <2>1. job'[w].at = "err" /\ req[w[1]].op \in {"socat", "registry"}
    BY <1>1, <1>2, <1>4, ThenType DEF FitsRequest
  <2>2. EndsWell(w)
    BY <2>1 DEF EndsWell
  <2> QED
    BY <2>1, <2>2 DEF Progress, Steps, Connecting
<1>5. CASE job[w].phase \in {"status", "before"}
  <2>1. job'[w].at = "query"
    BY <1>1, <1>2, <1>5, ThenType
  <2>2. Rest(w)'
    BY <1>1, <1>2, <1>5, <2>1 DEF Rest
  <2> QED
    BY <2>1, <2>2 DEF Progress, Ends
<1>6. CASE job[w].phase = "made"
  <2>1. job'[w].at = "err" /\ req[w[1]].op = "apply"
    BY <1>1, <1>2, <1>6, ThenType DEF FitsRequest
  <2>2. EndsWell(w)
    BY <1>3, <2>1 DEF EndsWell
  <2> QED
    BY <2>1, <2>2 DEF Progress, Steps, Connecting
<1>7. CASE job[w].phase = "after"
  <2>1. job'[w].at = "ok" /\ req[w[1]].op = "apply" /\ Reachable(w[2], kube)
    BY <1>1, <1>2, <1>7, ThenType DEF FitsRequest, Rest
  <2>2. EndsWell(w)
    BY <2>1 DEF EndsWell
  <2> QED
    BY <2>1, <2>2 DEF Progress, Steps, Connecting
<1> QED
  BY <1>1, <1>4, <1>5, <1>6, <1>7 DEF Phases

\* Where a step leads on the way to the socket, and where it comes from.
LEMMA WayTo ==
  ASSUME BaseInv, Orderly, Calm, NEW w \in Workers, Step(w)
  PROVE  job'[w].at \in {"ensure", "scan", "start", "dial"} =>
           \/ Connect(w) /\ job'[w].at = "ensure" /\ run'[w] = "inspect" /\ (req[w[1]].op = "socat" \/ Remote)
           \/ Ensure(w)
           \/ Ensured(w) /\ run[w] = "ok" /\ job'[w].at = "scan"
           \/ job[w].at \in {"scan", "start"} /\ job'[w].at \in {"start", "dial"}
<1> DEFINE Way == {"ensure", "scan", "start", "dial"}
<1>1. TypeInv /\ job[w].phase \in Phases \ {"none"}
  BY StepType, AtStep DEF BaseInv
<1>2. Then(w, TRUE) \notin Way /\ Then(w, FALSE) \notin Way
  BY <1>1, ThenType DEF Phases
<1>3. CASE Connect(w)
  <2>1. \/ job'[w].at = "ensure" /\ run'[w] = "inspect"
        \/ job'[w].at = Then(w, TRUE) /\ ~(req[w[1]].op = "socat" \/ (Remote /\ Port(w) # 0))
    BY <1>3, ConnectType DEF Leads
  <2>2. CASE req[w[1]].op = "socat" \/ (Remote /\ Port(w) # 0)
    BY <1>3, <2>1, <2>2
  <2>3. CASE ~(req[w[1]].op = "socat" \/ (Remote /\ Port(w) # 0))
    <3>1. Connected(w, TRUE)
      BY <1>3, <2>3 DEF Connect
    <3>2. Leads(w, Then(w, TRUE), job[w].phase)
      BY <1>1, <3>1, ConnectedLeads
    <3> QED
      BY <1>2, <3>2 DEF Leads
  <2> QED
    BY <2>2, <2>3
<1>4. CASE Ensured(w)
  BY <1>2, <1>4, EnsuredType DEF Leads
<1>5. CASE Scan(w)
  <2>1. Leads(w, "start", job[w].phase) \/ Leads(w, Then(w, TRUE), job[w].phase)
    BY <1>5, ScanType DEF Orderly
  <2> QED
    BY <1>2, <1>5, <2>1 DEF Leads, Scan, At
<1>6. CASE Start(w)
  <2>1. Leads(w, "dial", job[w].phase) \/ Leads(w, Then(w, FALSE), job[w].phase)
    BY <1>6, StartType
  <2> QED
    BY <1>2, <1>6, <2>1 DEF Leads, Start, At
<1>7. CASE Kill(w)
  BY <1>7 DEF Kill, Orderly
<1>8. CASE Dial(w) \/ DialTimesOut(w)
  BY <1>2, <1>8, DialType DEF Leads
<1>9. CASE Query(w)
  BY <1>9, QueryType DEF Leads
<1>10. CASE Create(w)
  BY <1>10, CreateType DEF Leads
<1>11. CASE SetContext(w)
  BY <1>11, SetContextType DEF Leads
<1>12. CASE ReloadConfigs(w)
  BY <1>12, ReloadConfigsType DEF Leads
<1>13. CASE Attach(w) \/ Rewrite(w)
  BY <1>13, InsideType DEF Leads
<1>14. CASE Healthy(w) \/ HealthTimesOut(w)
  BY <1>14, HealthType DEF Leads
<1> QED
  BY <1>3, <1>4, <1>5, <1>6, <1>7, <1>8, <1>9, <1>10, <1>11, <1>12, <1>13, <1>14 DEF Step

LEMMA ConnectsKept ==
  ASSUME BaseInv, Orderly, Calm, NEW w \in Workers, Step(w), Connects(w)
  PROVE  Connects(w)'
<1>1. world' = world /\ req' = req /\ (Remote' <=> Remote)
  BY StepFramed DEF Framed, Remote
<1>2. /\ Service0.state = "running" => Service0'.state = "running"
      /\ At(w, "ensure") /\ At(w, "ensure")' => Serves(w)'
  BY MachineStays
<1>3. CASE job'[w].at \notin {"ensure", "scan", "start", "dial"}
  BY <1>3 DEF Connects, At
<1>4. CASE Connect(w) /\ job'[w].at = "ensure" /\ run'[w] = "inspect" /\ (req[w[1]].op = "socat" \/ Remote)
  BY <1>1, <1>4 DEF Connects, Serves, At
<1>5. CASE Ensure(w)
  <2>1. job'[w].at = "ensure" /\ At(w, "ensure")
    BY <1>5 DEF Ensure, At
  <2> QED
    BY <1>1, <1>2, <2>1 DEF Connects, At
<1>6. CASE Ensured(w) /\ run[w] = "ok" /\ job'[w].at = "scan"
  <2>1. At(w, "ensure") /\ Service0.state = "running"
    BY <1>6 DEF Ensured, Connects, Serves
  <2> QED
    BY <1>1, <1>2, <1>6, <2>1 DEF Connects, At
<1>7. CASE job[w].at \in {"scan", "start"} /\ job'[w].at \in {"start", "dial"}
  BY <1>1, <1>2, <1>7 DEF Connects, At
<1> QED
  BY <1>3, <1>4, <1>5, <1>6, <1>7, WayTo

\* A cluster that would be reachable is, once a tunnel to the current one is there.
LEMMA WithinIsReached ==
  ASSUME BaseInv, NEW w \in Workers, Rest(w), At(w, "query"), Within(w[2])
  PROVE  Reachable(w[2], cfg[w[1]])
<1>1. TypeInv /\ job[w].phase \in {"status", "before"}
  BY AtStep DEF Steps, At
<1>2. cfg[w[1]] = kube /\ w[2] \in kube.contexts
  BY <1>1 DEF Rest, At
<1>3. CASE Remote
  <2>1. kube.current = w[2] /\ world.installed
    BY <1>3 DEF Within
  <2>2. CurrentPort(w[1]) = PortOf[w[2]] /\ CurrentPort(w[1]) # 0
    BY <1>1, <1>2, <2>1, CurrentIs
  <2>3. Tunnelled(PortOf[w[2]])
    BY <1>3, <2>1, <2>2 DEF Rest, At
  <2> QED
    BY <1>2, <1>3, <2>3, InsideIsHere DEF Within, Reachable
<1>4. CASE ~Remote
  BY <1>2, <1>4 DEF Within, Reachable
<1> QED
  BY <1>3, <1>4

\* Whoever listens is a socat of ctlptl's, and so the port is a tunnel's.
LEMMA ListensTunnelled ==
  ASSUME Orderly, Calm, Service0.state = "running", NEW port, Listens(port)
  PROVE  Tunnelled(port)
BY DEF Orderly, Listens, Tunnelled, Holds, Service0

\* With nobody beside it, a socat that a worker finds has taken its port.
LEMMA FoundListens ==
  ASSUME BaseInv, Orderly, Calm, NEW w \in Workers, Quiet(w[1]), req[w[1]].op # "list", At(w, "scan"),
         NEW s \in socats
  PROVE  Listens(s.port)
<1>1. s.state \in {"starting", "listening"}
  BY DEF Orderly
<1>2. CASE s.state = "listening"
  BY <1>2 DEF Listens, Holds
<1>3. CASE s.state = "starting"
  <2>1. ASSUME NEW v \in Workers
        PROVE  ~At(v, "dial")
    <3>1. CASE v[1] # w[1]
      BY <3>1 DEF Quiet, At, Ends
    <3>2. CASE v[1] = w[1] /\ At(v, "dial")
      <4>1. FitsRequest(v) /\ FitsRequest(w)
        BY <3>2, AtStep DEF At, Steps, Connecting
      <4>2. v = w
        BY <3>2, <4>1, WorkerShape DEF FitsRequest
      <4> QED
        BY <3>2, <4>2 DEF At
    <3> QED
      BY <3>1, <3>2
  <2> QED
    BY <1>3, <2>1 DEF Orderly, Awaits
<1> QED
  BY <1>1, <1>2, <1>3

LEMMA AloneConnects ==
  ASSUME BaseInv, Orderly, Calm, NEW w \in Workers, Connects(w), Rest(w), Quiet(w[1]), req[w[1]].op # "list",
         Connect(w) \/ Ensure(w) \/ Ensured(w) \/ Scan(w) \/ Kill(w) \/ Start(w) \/ Dial(w) \/ DialTimesOut(w)
  PROVE  Progress(w)
<1>1. Step(w) /\ TypeInv
  BY DEF Step, BaseInv
<1>2. CASE Connect(w)
  <2>1. job[w].at \in Connecting /\ UNCHANGED <<clusters, kube, attached, cfg>>
    BY <1>2 DEF Connect, outside, At, Connecting
  <2>2. \/ Leads(w, "ensure", job[w].phase)
        \/ /\ Leads(w, Then(w, TRUE), job[w].phase)
           /\ ~(req[w[1]].op = "socat" \/ (Remote /\ Port(w) # 0))
    BY <1>2, ConnectType
  <2> QED
    BY <1>1, <2>1, <2>2, ConnectingRests, MadeRests DEF Connecting
<1>3. CASE Ensure(w)
  <2>1. job[w].at \in Connecting /\ UNCHANGED <<clusters, kube, attached, cfg, job>> /\ job[w].at = "ensure"
    BY <1>3 DEF Ensure, outside, At, Connecting
  <2>2. Leads(w, "ensure", job[w].phase)
    BY <1>1, <2>1 DEF Leads, TypeInv
  <2> QED
    BY <1>1, <2>1, <2>2, ConnectingRests DEF Connecting
<1>4. CASE Ensured(w)
  <2>1. job[w].at = "ensure" /\ UNCHANGED <<clusters, kube, attached, cfg>>
    BY <1>4 DEF Ensured, outside, At
  <2>2. run[w] # "err"
    BY <2>1 DEF Connects, Serves, At
  <2>3. Leads(w, "scan", job[w].phase)
    BY <1>4, <2>2, EnsuredType
  <2> QED
    BY <1>1, <2>1, <2>3, ConnectingRests DEF Connecting
<1>5. CASE Scan(w)
  <2>1. At(w, "scan") /\ job[w].at = "scan" /\ UNCHANGED <<clusters, kube, attached, cfg>>
    BY <1>5 DEF Scan, outside, At
  <2>2. CASE Leads(w, "start", job[w].phase)
    BY <1>1, <2>1, <2>2, ConnectingRests DEF Connecting
  <2>3. CASE ~Leads(w, "start", job[w].phase)
    <3>1. PICK s \in socats :
            /\ s.port = Port(w)
            /\ IF s.cmd = "ours" THEN Leads(w, Then(w, TRUE), job[w].phase) ELSE Leads(w, "kill", job[w].phase)
      BY <1>5, <2>3, ScanType
    <3>2. Leads(w, Then(w, TRUE), job[w].phase)
      BY <3>1 DEF Orderly
    <3>3. Listens(Port(w))
      BY <2>1, <3>1, FoundListens
    <3>4. Tunnelled(Port(w))
      BY <2>1, <3>3, ListensTunnelled DEF Connects
    <3> QED
      BY <1>1, <2>1, <3>2, <3>4, MadeRests DEF Connecting
  <2> QED
    BY <2>2, <2>3
<1>6. CASE Kill(w)
  BY <1>6 DEF Kill, Orderly
<1>7. CASE Start(w)
  <2>1. At(w, "start") /\ job[w].at = "start" /\ UNCHANGED <<clusters, kube, attached, cfg>>
    BY <1>7 DEF Start, outside, At
  <2>2. Leads(w, "dial", job[w].phase) \/ (~world.installed /\ Leads(w, Then(w, FALSE), job[w].phase))
    BY <1>7, StartType
  <2> QED
    BY <1>1, <2>1, <2>2, ConnectingRests, MissingRests DEF Connecting
<1>8. CASE Dial(w) \/ DialTimesOut(w)
  <2>1. At(w, "dial") /\ job[w].at = "dial" /\ UNCHANGED <<clusters, kube, attached, cfg>>
    BY <1>8 DEF Dial, DialTimesOut, outside, At
  <2>2. Listens(Port(w)) /\ Leads(w, Then(w, TRUE), job[w].phase)
    BY <1>8, <2>1, DialType DEF Orderly
  <2>3. Tunnelled(Port(w))
    BY <2>1, <2>2, ListensTunnelled DEF Connects
  <2> QED
    BY <1>1, <2>1, <2>2, <2>3, MadeRests DEF Connecting
<1> QED
  BY <1>2, <1>3, <1>4, <1>5, <1>6, <1>7, <1>8

\* The steps of an apply and of a status, beyond the connection.
LEMMA AloneGoesOn ==
  ASSUME BaseInv, Orderly, Calm, NEW w \in Workers, Step(w), Connects(w), Rest(w), req[w[1]].op # "list",
         Query(w) \/ Create(w) \/ SetContext(w) \/ ReloadConfigs(w) \/ Attach(w) \/ Rewrite(w) \/ Healthy(w)
           \/ HealthTimesOut(w)
  PROVE  Progress(w)
<1>1. /\ TypeInv /\ world' = world /\ (Remote' <=> Remote) /\ (InsideContainer' <=> InsideContainer)
      /\ w[1] \in Procs /\ w[2] \in Clusters /\ cfg \in [Procs -> Config]
  BY StepFramed, WorkerShape DEF BaseInv, TypeInv, Framed, Remote, InsideContainer
<1>2. \A label \in Steps : label \notin Ends
  BY DEF Steps, Connecting, Ends
<1>3. PICK port : port = PortOf[w[2]]
  OBVIOUS
<1>4. (Tunnelled(port) <=> Tunnelled(PortOf[w[2]])) /\ (Tunnelled(port)' <=> Tunnelled(PortOf[w[2]])')
  BY <1>3 DEF Tunnelled
<1>5. Tunnelled(PortOf[w[2]]) => Tunnelled(PortOf[w[2]])'
  BY <1>4, TunnelStays
<1>6. kube.inside \subseteq kube'.inside => (Reachable(w[2], kube) => Reachable(w[2], kube)')
  BY <1>1, ReachStays
<1>7. clusters \subseteq clusters' /\ (attached => attached')
  BY MachineStays
<1>8. CASE Query(w)
  <2>1. /\ At(w, "query") /\ UNCHANGED <<clusters, kube, attached, cfg>> /\ job[w].at = "query" /\ cfg[w[1]] = kube
    BY <1>8 DEF Query, outside, At, Rest
  <2>2. Within(w[2]) => Reachable(w[2], kube)
    BY <2>1, WithinIsReached
  <2>3. CASE job[w].phase = "status"
    <3>1. Leads(w, IF Reachable(w[2], kube) THEN "ok" ELSE "blind", "status")
      BY <1>8, <2>1, <2>3, QueryType
    <3>2. req[w[1]].op = "get"
      <4>1. FitsRequest(w) /\ req[w[1]].op \in {"socat", "registry", "list", "get", "apply"}
        BY <2>1, AtStep DEF Steps
      <4> QED
        BY <2>3, <4>1 DEF FitsRequest
    <3>3. EndsWell(w)
      BY <2>2, <3>1, <3>2 DEF EndsWell, Leads
    <3> QED
      BY <1>2, <3>1, <3>3 DEF Progress, Leads, Steps, Connecting
  <2>4. CASE job[w].phase = "before" /\ Reachable(w[2], kube) /\ Leads(w, "switch", "after")
    <3>1. Rest(w)'
      BY <1>1, <1>6, <2>1, <2>4 DEF Rest, Leads
    <3> QED
      BY <2>4, <3>1 DEF Progress, Leads, Ends
  <2>5. CASE job[w].phase = "before" /\ Leads(w, "create", "made")
    <3>1. Rest(w)'
      BY <1>1, <2>1, <2>5 DEF Rest, Leads
    <3> QED
      BY <2>5, <3>1 DEF Progress, Leads, Ends
  <2> QED
    BY <1>8, <2>1, <2>3, <2>4, <2>5, QueryType
<1>9. CASE Create(w)
  <2>1. /\ Leads(w, "switch", "made") /\ w[2] \in clusters' /\ kube'.contexts = kube.contexts \cup {w[2]}
        /\ cfg' = [cfg EXCEPT ![w[1]] = kube']
    BY <1>9, CreateType
  <2>2. cfg'[w[1]] = kube'
    BY <1>1, <2>1
  <2>3. Rest(w)'
    BY <2>1, <2>2 DEF Rest, Leads
  <2> QED
    BY <2>1, <2>3 DEF Progress, Leads, Ends
<1>10. CASE SetContext(w)
  <2>1. /\ Leads(w, "reload", job[w].phase) /\ kube'.current = w[2] /\ kube'.contexts = kube.contexts
        /\ kube'.inside = kube.inside /\ At(w, "switch") /\ clusters' = clusters
    BY <1>10, SetContextType DEF SetContext
  <2>2. job[w].phase \in {"made", "after"}
    BY <2>1, AtStep DEF At, Steps
  <2>3. Rest(w)'
    BY <1>1, <1>6, <2>1, <2>2 DEF Rest, Leads, At
  <2> QED
    BY <2>1, <2>3 DEF Progress, Leads, Ends
<1>11. CASE ReloadConfigs(w)
  <2>1. /\ Leads(w, IF At(w, "reload") THEN "connect" ELSE "health", job[w].phase)
        /\ UNCHANGED <<clusters, kube, attached>> /\ cfg' = [cfg EXCEPT ![w[1]] = kube]
        /\ job[w].at \in {"reload", "reread"}
    BY <1>11, ReloadConfigsType DEF ReloadConfigs, outside
  <2>2. cfg'[w[1]] = kube'
    BY <1>1, <2>1
  <2>3. job[w].phase \in {"made", "after"} /\ (job[w].at = "reread" => job[w].phase = "made")
    BY <2>1, AtStep DEF Steps
  <2>4. Rest(w)'
    BY <1>1, <1>5, <1>6, <2>1, <2>2, <2>3 DEF Rest, Leads, At
  <2> QED
    BY <2>1, <2>4 DEF Progress, Leads, Ends, At
<1>12. CASE Attach(w)
  <2>1. /\ Leads(w, "rewrite", "made") /\ UNCHANGED <<clusters, kube, cfg>> /\ attached' /\ job[w].at = "attach"
        /\ job[w].phase = "made"
    BY <1>12, InsideType, AtStep DEF Attach, At, Steps
  <2>2. Rest(w)'
    BY <1>1, <1>5, <2>1 DEF Rest, Leads
  <2> QED
    BY <2>1, <2>2 DEF Progress, Leads, Ends
<1>13. CASE Rewrite(w)
  <2>1. /\ Leads(w, "reread", "made") /\ UNCHANGED <<clusters, cfg, attached>> /\ job[w].at = "rewrite"
        /\ job[w].phase = "made" /\ kube'.current = kube.current /\ kube'.contexts = kube.contexts
        /\ kube'.inside = kube.inside \cup {w[2]}
    BY <1>13, InsideType, AtStep DEF Rewrite, At, Steps
  <2>2. Rest(w)'
    BY <1>1, <1>5, <2>1 DEF Rest, Leads
  <2> QED
    BY <2>1, <2>2 DEF Progress, Leads, Ends
<1>14. CASE Healthy(w) \/ HealthTimesOut(w)
  <2>1. /\ At(w, "health") /\ job[w].at = "health" /\ job[w].phase = "made" /\ UNCHANGED <<clusters, kube, attached, cfg>>
        /\ cfg[w[1]] = kube
    BY <1>14, AtStep DEF Healthy, HealthTimesOut, At, Steps, outside, Rest
  <2>2. Reachable(w[2], kube)
    BY <2>1 DEF Reachable, Rest
  <2>3. Leads(w, "connect", "after")
    BY <1>14, <2>1, <2>2, HealthType
  <2>4. Rest(w)'
    BY <1>1, <1>6, <2>1, <2>2, <2>3 DEF Rest, Leads
  <2> QED
    BY <2>3, <2>4 DEF Progress, Leads, Ends
<1> QED
  BY <1>8, <1>9, <1>10, <1>11, <1>12, <1>13, <1>14

\* The one worker of a request.
LEMMA OneWorker ==
  ASSUME BaseInv, NEW w \in Workers, job[w].at \in Steps, req[w[1]].op # "list"
  PROVE  w = <<w[1], req[w[1]].cluster>>
<1>1. FitsRequest(w)
  BY AtStep
<1> QED
  BY <1>1, WorkerShape DEF FitsRequest

LEMMA AloneStep ==
  ASSUME BaseInv, Orderly, AloneInv, Calm', NEW w \in Workers, Step(w), w[1] \in alone
  PROVE  /\ Quiet(w[1])'
         /\ req[w[1]].op # "list" => Connects(w) /\ Rest(w) /\ Connects(w)' /\ Progress(w)
<1>1. /\ Calm /\ w[1] \in Procs /\ job[w].at \in Steps
      /\ \A v \in Workers \ {w} : job'[v] = job[v]
  BY StepType, WorkerShape DEF Framed, Calm
<1>2. Quiet(w[1])
  BY <1>1 DEF AloneInv
<1>3. ASSUME req[w[1]].op # "list"
      PROVE  Connects(w) /\ Rest(w)
  BY <1>1, <1>3, OneWorker DEF AloneInv
<1>4. ASSUME req[w[1]].op # "list"
      PROVE  Connects(w)' /\ Progress(w)
  BY <1>1, <1>2, <1>3, <1>4, ConnectsKept, AloneConnects, AloneGoesOn DEF Step
<1>5. Quiet(w[1])'
  BY <1>1, <1>2 DEF Quiet
<1> QED
  BY <1>3, <1>4, <1>5

LEMMA AloneBegin ==
  ASSUME BaseInv, NEW p \in Procs, Begin(p), p \in alone'
  PROVE  /\ Quiet(p)'
         /\ req[p].op # "list" => Connects(<<p, req[p].cluster>>)' /\ Rest(<<p, req[p].cluster>>)'
<1>1. /\ TypeInv /\ cfg' = [cfg EXCEPT ![p] = kube] /\ kube' = kube /\ req' = req
      /\ \A w \in Workers : w[1] # p => job[w].at \in Ends \cup {"idle", "dead"}
  BY DEF Begin, outside, BaseInv
<1>2. \A w \in Workers : job'[w] = IF w[1] = p THEN Became(First(p, w[2])[1], First(p, w[2])[2]) ELSE job[w]
  BY <1>1, FirstLeads
<1>3. Quiet(p)'
  BY <1>1, <1>2 DEF Quiet
<1>4. ASSUME req[p].op # "list"
      PROVE  Connects(<<p, req[p].cluster>>)' /\ Rest(<<p, req[p].cluster>>)'
  <2>1. PICK c : c = req[p].cluster
    OBVIOUS
  <2>2. c \in Clusters
    BY <1>1, <2>1, RemoteAssumption DEF TypeInv
  <2>3. PICK w \in Workers : w = <<p, c>>
    BY <2>2 DEF Workers
  <2>4. w[1] = p /\ w[2] = c
    BY <2>3
  <2>5. job'[w].at = First(p, c)[1] /\ job'[w].phase = First(p, c)[2]
    <3>1. job'[w] = Became(First(p, c)[1], First(p, c)[2])
      BY <1>2, <2>4
    <3> QED
      BY <3>1 DEF Became
  <2>6. /\ First(p, c)[1] \in {"connect", "create", "err"} /\ First(p, c)[2] \in {"forward", "status", "before", "made", "none"}
        /\ First(p, c)[2] \in {"status", "before"} => c \in kube.contexts
        /\ First(p, c)[2] = "made" => First(p, c)[1] = "create"
    BY <1>1, <1>4, <2>1, <2>2, FirstPlace
  <2>7. cfg'[p] = kube'
    BY <1>1 DEF TypeInv
  <2>8. Connects(w)'
    BY <2>5, <2>6 DEF Connects, At
  <2>9. Rest(w)'
    BY <2>4, <2>5, <2>6, <2>7, <1>1 DEF Rest
  <2>10. req'[p].cluster = c
    BY <1>1, <2>1
  <2> QED
    BY <2>1, <2>3, <2>8, <2>9, <2>10
<1> QED
  BY <1>3, <1>4

\* A socket that is bound, or not, takes no tunnel away.
LEMMA AloneBind ==
  ASSUME BaseInv, NEW s \in socats, Bind(s), NEW w \in Workers, Connects(w), Rest(w)
  PROVE  Connects(w)' /\ Rest(w)'
<1>1. UNCHANGED <<world, clusters, kube, attached, ctr, run, req, cfg, job>> /\ TypeInv /\ s.state = "starting"
  BY DEF Bind, inside, outside, BaseInv
<1>2. \A r \in socats : r # s => r \in socats'
  BY <1>1, BindChanges
<1>3. ASSUME NEW port, Tunnelled(port)
      PROVE  Tunnelled(port)'
  BY <1>1, <1>2, <1>3 DEF Tunnelled
<1>4. CurrentPort(w[1])' = CurrentPort(w[1]) /\ (Remote' <=> Remote) /\ (InsideContainer' <=> InsideContainer)
  BY <1>1 DEF CurrentPort, Remote, InsideContainer
<1>5. PICK port : port = CurrentPort(w[1])
  OBVIOUS
<1>6. Tunnelled(CurrentPort(w[1])) => Tunnelled(CurrentPort(w[1]))'
  BY <1>3, <1>4, <1>5 DEF Tunnelled
<1>7. PICK other : other = PortOf[w[2]]
  OBVIOUS
<1>8. Tunnelled(PortOf[w[2]]) => Tunnelled(PortOf[w[2]])'
  BY <1>3, <1>7 DEF Tunnelled
<1>9. Reachable(w[2], kube) => Reachable(w[2], kube)'
  BY <1>1, <1>4, <1>8 DEF Reachable
<1>10. Connects(w)'
  BY <1>1, <1>4 DEF Connects, Serves, Service0, At
<1>11. Rest(w)'
  BY <1>1, <1>4, <1>6, <1>8, <1>9 DEF Rest
<1> QED
  BY <1>10, <1>11

LEMMA AloneNext == BaseInv /\ Orderly /\ AloneInv /\ [Next]_vars => AloneInv'
<1> SUFFICES ASSUME BaseInv, Orderly, AloneInv, [Next]_vars, Calm', NEW p \in Procs, p \in alone'
             PROVE  (/\ Quiet(p)
                     /\ req[p].op # "list" /\ job[<<p, req[p].cluster>>].at \in Steps =>
                          Connects(<<p, req[p].cluster>>) /\ Rest(<<p, req[p].cluster>>))'
  BY DEF AloneInv
<1> DEFINE Well == /\ Quiet(p)
                   /\ req[p].op # "list" /\ job[<<p, req[p].cluster>>].at \in Steps =>
                        Connects(<<p, req[p].cluster>>) /\ Rest(<<p, req[p].cluster>>)
<1>1. TypeInv /\ req[p].cluster \in Clusters
  <2>1. TypeInv /\ req[p] \in Requests
    BY DEF BaseInv, TypeInv
  <2> QED
    BY <2>1, RemoteAssumption
<1>2. PICK c \in Clusters : c = req[p].cluster
  BY <1>1
<1>3. PICK v \in Workers : v = <<p, c>>
  BY DEF Workers
<1>4. v[1] = p /\ v[2] = c
  BY <1>3
<1>5. ASSUME p \in alone, Calm
      PROVE  Well
  BY <1>5 DEF AloneInv
<1>6. ASSUME NEW q \in Procs, Begin(q)
      PROVE  Well'
  <2>1. q = p /\ req' = req
    BY <1>6 DEF Begin
  <2> QED
    BY <1>6, <2>1, AloneBegin
<1>7. ASSUME NEW w \in Workers, Step(w)
      PROVE  Well'
  <2>1. w[1] = p /\ p \in alone /\ req' = req /\ Calm
    BY <1>7, StepFramed DEF Framed, Calm
  <2>2. /\ Quiet(p)'
        /\ req[p].op # "list" => Connects(w)' /\ Progress(w)
    BY <1>7, <2>1, AloneStep
  <2>3. CASE req[p].op # "list"
    <3>1. w = v
      BY <1>2, <1>3, <1>7, <2>1, <2>3, OneWorker, StepType
    <3>2. req'[p].cluster = c
      BY <1>2, <2>1
    <3> QED
      BY <1>3, <2>2, <2>3, <3>1, <3>2 DEF Progress
  <2>4. CASE req[p].op = "list"
    BY <2>1, <2>2, <2>4
  <2> QED
    BY <2>3, <2>4
<1>8. ASSUME NEW s \in socats, Bind(s) \/ Die(s) \/ HangUp(s) \/ TunnelDies(s)
      PROVE  Well'
  <2>1. Bind(s)
    BY <1>8, OrderlySocats
  <2>2. UNCHANGED <<alone, mishaps, job, req>>
    BY <2>1 DEF Bind, inside
  <2>3. Well
    BY <1>5, <2>2 DEF Calm
  <2>4. Quiet(p)'
    BY <2>2, <2>3 DEF Quiet
  <2>5. ASSUME req[p].op # "list", job[v].at \in Steps
        PROVE  Connects(v)' /\ Rest(v)'
    BY <1>2, <1>3, <2>1, <2>3, <2>5, AloneBind
  <2>6. req'[p].cluster = c /\ job' = job /\ req' = req
    BY <1>2, <2>2
  <2> QED
    BY <1>2, <1>3, <2>4, <2>5, <2>6
<1>9. CASE UNCHANGED vars
  <2>1. Well
    BY <1>5, <1>9 DEF vars, Calm
  <2> QED
    BY <1>9, <2>1 DEF vars, Quiet, Connects, Serves, Service0, Rest, Reachable, Tunnelled, Remote, InsideContainer,
       CurrentPort, At
<1> QED
  BY <1>6, <1>7, <1>8, <1>9, MishapEnds DEF Next, BaseInv

LEMMA AloneInit == Init => AloneInv
BY DEF Init, AloneInv

LEMMA AllKept == Spec => [](BaseInv /\ Orderly /\ AloneInv)
<1>1. Init => BaseInv /\ Orderly /\ AloneInv
  BY BaseInit, OrderlyInit, AloneInit
<1>2. BaseInv /\ Orderly /\ AloneInv /\ [Next]_vars => (BaseInv /\ Orderly /\ AloneInv)'
  BY BaseNext, OrderlyNext, AloneNext
<1> QED
  BY <1>1, <1>2, PTL DEF Spec

\* A worker that is on its way moves by itself.
LEMMA OnlySteps ==
  ASSUME BaseInv, [Next]_vars, Calm', NEW w \in Workers, job[w].at \in Steps, job'[w] # job[w]
  PROVE  Step(w)
<1>1. TypeInv
  BY DEF BaseInv
<1>2. ASSUME NEW p \in Procs, Begin(p)
      PROVE  FALSE
  <2>1. w[1] # p
    <3>1. \A c \in Clusters : job[<<p, c>>].at = "idle"
      BY <1>2 DEF Begin, At
    <3> QED
      BY <3>1, WorkerShape DEF Steps, Connecting
  <2> QED
    BY <1>1, <1>2, <2>1, FirstLeads
<1>3. ASSUME NEW v \in Workers, Step(v)
      PROVE  v = w
  BY <1>3, StepType
<1>4. ASSUME NEW s \in socats, Bind(s) \/ Die(s) \/ HangUp(s) \/ TunnelDies(s)
      PROVE  FALSE
  BY <1>4 DEF Bind, Die, HangUp, TunnelDies, inside
<1>5. CASE UNCHANGED vars
  BY <1>5 DEF vars
<1> QED
  BY <1>1, <1>2, <1>3, <1>4, <1>5, MishapEnds DEF Next

LEMMA AloneAction ==
  ASSUME BaseInv, Orderly, AloneInv, [Next]_vars, NEW w \in Workers, Undisturbed(w[1]), Calm'
  PROVE  /\ At(w, "query") /\ req[w[1]].op = "apply" /\ Within(w[2]) => job'[w].at # "create"
         /\ req[w[1]].op # "list" /\ w[2] = req[w[1]].cluster /\ job[w].at \in Steps /\ job'[w].at \in Ends
              => EndsWell(w)
<1>1. w[1] \in alone /\ Calm
  BY DEF Undisturbed
<1>2. ASSUME Step(w), req[w[1]].op # "list"
      PROVE  Rest(w) /\ Progress(w)
  BY <1>1, <1>2, AloneStep
<1>3. ASSUME At(w, "query"), req[w[1]].op = "apply", Within(w[2]), job'[w].at = "create"
      PROVE  FALSE
  <2>1. job[w].at = "query" /\ job[w].at \in Steps
    BY <1>3 DEF At, Steps
  <2>2. Step(w)
    BY <1>3, <2>1, OnlySteps
  <2>3. Query(w)
    BY <2>1, <2>2 DEF Step, Connect, Ensure, Ensured, Scan, Kill, Start, Dial, DialTimesOut,
       Create, SetContext, ReloadConfigs, Attach, Rewrite, Healthy, HealthTimesOut, At
  <2>4. Reachable(w[2], cfg[w[1]])
    BY <1>2, <1>3, <2>2, WithinIsReached
  <2> QED
    BY <1>3, <2>3, <2>4, QueryType DEF Leads
<1>4. ASSUME req[w[1]].op # "list", job[w].at \in Steps, job'[w].at \in Ends
      PROVE  EndsWell(w)
  <2>1. Step(w)
    BY <1>4, OnlySteps DEF Steps, Connecting, Ends
  <2> QED
    BY <1>2, <1>4, <2>1 DEF Progress
<1> QED
  BY <1>3, <1>4

(***************************************************************************)
(* For every set of processes, clusters and requests, and every machine: by  *)
(* itself and with nothing else in the way, a connection is a tunnel, the    *)
(* status of the current cluster is found though its tunnel has died, and an *)
(* apply ends with a cluster that can be reached from where ctlptl runs,     *)
(* without making it again when it only lacked its tunnel. It rests on what   *)
(* the invariant says of the socats: none but ctlptl's, and behind each that *)
(* has not yet taken its port somebody who listens there or waits for it.    *)
(* (socat.go; cluster.go: Apply, populateCluster; ModifyConfigInContainer)   *)
(***************************************************************************)
THEOREM AloneSucceedsAlways == Spec => AloneSucceeds
<1>1. ASSUME BaseInv, Orderly, AloneInv, [Next]_vars
      PROVE  \A w \in Workers :
               LET p == w[1]  c == w[2] IN
               /\ Undisturbed(p) /\ Calm' /\ At(w, "query") /\ req[p].op = "apply" /\ Within(c)
                    => job'[w].at # "create"
               /\ Undisturbed(p) /\ Calm' /\ req[p].op # "list" /\ c = req[p].cluster
                  /\ job[w].at \in Steps /\ job'[w].at \in Ends
                    => EndsWell(w)
  BY <1>1, AloneAction
<1> QED
  BY <1>1, AllKept, PTL DEF Spec, AloneSucceeds

==============================================================================
