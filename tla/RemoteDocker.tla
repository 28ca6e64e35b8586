------------------------------ MODULE RemoteDocker ------------------------------
(***************************************************************************)
(* How ctlptl reaches the clusters of a Docker daemon that is elsewhere:    *)
(* internal/socat/socat.go, its callers in pkg/cluster/cluster.go,          *)
(* pkg/registry/registry.go and pkg/cmd/socat.go, and the kubeconfig of a    *)
(* ctlptl that runs inside a container. A connection to a remote port is a   *)
(* service container on the daemon's machine, started by dctr.Run (module    *)
(* DctrRun), and a local socat process, which outlives the ctlptl that       *)
(* started it and is found again by its command line.                       *)
(*                                                                         *)
(* A process serves one cluster after the other, or, to list them, all of    *)
(* them at once: a worker is a process and a cluster.                       *)
(***************************************************************************)
EXTENDS Integers, FiniteSets

CONSTANTS
  Clusters,       \* clusters of the tool kind, each named for its context
  NoCluster,      \* no current context
  PortOf,         \* the port of each cluster's API server
  Procs,          \* the processes
  Requests,       \* what they may be asked
  Worlds,         \* the machine as it may be at first
  Service,        \* the name of the service container
  ServiceConfig,  \* its configuration
  Daemon,         \* the creator of a container that was there at first
  NoConfig,       \* the configuration of no container
  Before,         \* the owner of a socat that was there at first
  MaxMishaps      \* bound: how often something goes wrong

VARIABLES
  world,     \* what the processes cannot change: a record, see Worlds
  clusters,  \* the clusters that run
  kube,      \* the kubeconfig file: current context, contexts, those whose server
             \* is the node's name
  attached,  \* the container that ctlptl runs in is in the clusters' network
  socats,    \* the socat processes of this machine
  ctr,       \* the daemon's containers
  run,       \* where each worker's call of dctr.Run is
  req,       \* what each process was asked
  cfg,       \* the kubeconfig as each process has read it
  job,       \* where each worker is, why, and the socat it has found
  alone,     \* history: the processes beside which no other has moved
  mishaps    \* history: how often something has gone wrong, before or since

vars == <<world, clusters, kube, attached, socats, ctr, run, req, cfg, job, alone, mishaps>>

outside == <<world, clusters, kube, attached>>

Workers == Procs \X Clusters
Ports == {r.port : r \in Requests} \cup {PortOf[c] : c \in Clusters}

\* The workers' calls of dctr.Run, all for one service whose image is there.
Run == INSTANCE DctrRun WITH
  Names     <- {Service},
  Calls     <- Workers,
  Configs   <- {ServiceConfig},
  images    <- {ServiceConfig.image},
  arg       <- [w \in Workers |-> [name |-> Service, config |-> ServiceConfig]],
  disturbed <- {}

-------------------------------------------------------------------------------
(***************************************************************************)
(* The machine.                                                            *)
(***************************************************************************)

IsLocalHost(host) ==
  host \in {"", "tcp://localhost:2375", "tcp://127.0.0.1:2375", "npipe:////./pipe/docker_engine",
            "unix:///var/run/docker.sock"}

Remote == ~IsLocalHost(world.host)

\* A container that has the daemon's socket mounted.
InsideContainer == world.host = "unix:///var/run/docker.sock" /\ world.container

Socat(port, cmd, by, state) == [port |-> port, cmd |-> cmd, by |-> by, state |-> state]
NoSocat == Socat(0, "ours", Before, "gone")

\* A socat that has been killed listens until it is gone.
Holds(s) == s.state \in {"listening", "dying"}

Listens(port) == port \in world.taken \/ \E s \in socats : s.port = port /\ Holds(s)

Tunnelled(port) ==
  /\ \E s \in socats : s.port = port /\ s.cmd = "ours" /\ s.state = "listening"
  /\ ctr[Service].state = "running"

\* Whether a request gets through to the API server of c, under the kubeconfig k.
Reachable(c, k) ==
  /\ c \in clusters
  /\ Remote => Tunnelled(PortOf[c])
  /\ InsideContainer => c \in k.inside /\ attached

Config == [current: Clusters \cup {NoCluster}, contexts: SUBSET Clusters, inside: SUBSET Clusters]

\* No two processes listen at one port.
Exclusive(ss) == \A s, t \in ss : Holds(s) /\ Holds(t) /\ s.port = t.port => s = t

Socats(makers) ==
  [port: Ports, cmd: {"ours", "other"}, by: makers, state: {"starting", "listening", "child", "dying"}]

Services(makers) ==
  [state: {"absent", "created", "running", "exited"}, by: makers, config: {ServiceConfig, NoConfig}]

\* What may be there before any of the processes.
IsWorld(w) ==
  /\ w.installed \in BOOLEAN /\ w.attached \in BOOLEAN
  /\ w.clusters \subseteq Clusters /\ w.kube \in Config
  /\ w.socats \subseteq Socats({Before}) /\ Exclusive(w.socats)
  /\ w.service \in Services({Daemon})

ASSUME RemoteAssumption ==
  /\ PortOf \in [Clusters -> Nat \ {0}]
  /\ Requests \subseteq [op: {"socat", "registry", "list", "get", "apply"}, cluster: Clusters, port: Nat \ {0}]
  /\ \A w \in Worlds : IsWorld(w)
  /\ MaxMishaps \in Nat \ {0}

Phases == {"none", "forward", "status", "before", "made", "after"}
Connecting == {"connect", "ensure", "scan", "kill", "start", "dial"}
Steps == Connecting \cup {"query", "create", "switch", "reload", "attach", "rewrite", "reread", "health"}
Ends == {"ok", "err", "blind"}

(***************************************************************************)
(* The variables have their types. Two processes never hold one port, and   *)
(* only a worker that has not yet reached its end has a call under way.     *)
(***************************************************************************)
TypeOK ==
  /\ world \in Worlds /\ clusters \subseteq Clusters /\ kube \in Config
  /\ attached \in BOOLEAN /\ mishaps \in 0..MaxMishaps /\ alone \subseteq Procs
  /\ socats \subseteq Socats(Workers \cup {Before}) /\ Exclusive(socats)
  /\ ctr \in [{Service} -> Services(Workers \cup {Daemon})]
  /\ run \in [Workers -> Run!Active \cup Run!Returned \cup {"idle"}]
  /\ req \in [Procs -> Requests] /\ cfg \in [Procs -> Config]
  /\ DOMAIN job = Workers
  /\ \A w \in Workers : job[w].at \in Steps \cup Ends \cup {"idle", "dead"} /\ job[w].phase \in Phases
  /\ \A w \in Workers : run[w] # "idle" => job[w].at \in {"ensure", "dead"}

-------------------------------------------------------------------------------
(***************************************************************************)
(* Steps of a worker.                                                      *)
(***************************************************************************)

At(w, label) == job[w].at = label
Move(w, label) == job' = [job EXCEPT ![w].at = label]
Only(p) == alone' = alone \cap {p}

Became(label, phase) == [at |-> label, phase |-> phase, old |-> NoSocat]

\* NewController reads the kubeconfig. Apply begins with the status of the cluster
\* when it has a context; a list asks for the status of every context at once.
Begin(p) ==
  LET r == req[p]
      first(c) ==
        CASE r.op \in {"socat", "registry"} /\ c = r.cluster -> <<"connect", "forward">>
          [] r.op = "get" /\ c = r.cluster /\ c \in kube.contexts -> <<"connect", "status">>
          [] r.op = "list" /\ c \in kube.contexts -> <<"connect", "status">>
          [] r.op = "apply" /\ c = r.cluster /\ c \in kube.contexts -> <<"connect", "before">>
          [] r.op = "apply" /\ c = r.cluster /\ c \notin kube.contexts -> <<"create", "made">>
          [] r.op = "get" /\ c = r.cluster /\ c \notin kube.contexts -> <<"err", "none">>
          [] OTHER -> <<"ok", "none">>
  IN
  /\ \A c \in Clusters : At(<<p, c>>, "idle")
  /\ cfg' = [cfg EXCEPT ![p] = kube]
  /\ job' = [w \in Workers |->
              IF w[1] = p THEN Became(first(w[2])[1], first(w[2])[2]) ELSE job[w]]
  /\ alone' = IF \A w \in Workers : w[1] # p => job[w].at \in Ends \cup {"idle", "dead"} THEN {p} ELSE {}
  /\ UNCHANGED <<outside, socats, ctr, run, req, mishaps>>

\* The port is given, or it is the one of the CURRENT context's API server.
CurrentPort(p) ==
  IF cfg[p].current \in cfg[p].contexts THEN PortOf[cfg[p].current] ELSE 0

Port(w) == IF job[w].phase = "forward" THEN req[w[1]].port ELSE CurrentPort(w[1])

\* Where a connection that was made, or was not, leads. A status is asked for
\* in either case.
Then(w, ok) ==
  CASE job[w].phase = "forward"            -> IF ok THEN "ok" ELSE "err"
    [] job[w].phase \in {"status", "before"} -> "query"
    [] job[w].phase = "made" /\ ok         -> IF InsideContainer THEN "attach" ELSE "health"
    [] job[w].phase = "made" /\ ~ok        -> "err"
    [] job[w].phase = "after"              -> "ok"

Connected(w, ok) ==
  /\ job' = [job EXCEPT ![w] = Became(Then(w, ok), job[w].phase)]
  /\ run' = [run EXCEPT ![w] = "idle"]

\* Mutant: a status is asked for as if the tunnel had to be there.
ConnectToForward(w) ==
  /\ At(w, "connect")
  /\ IF \/ req[w[1]].op = "socat"
        \/ Remote /\ Port(w) # 0 /\ job[w].phase \in {"forward", "made"}
       THEN Run!Call(w) /\ Move(w, "ensure")
       ELSE Connected(w, TRUE) /\ UNCHANGED ctr
  /\ Only(w[1])
  /\ UNCHANGED <<outside, socats, req, cfg, mishaps>>

\* Mutant: a context without a port is not told apart.
ConnectToNoPort(w) ==
  /\ At(w, "connect")
  /\ IF req[w[1]].op = "socat" \/ Remote
       THEN Run!Call(w) /\ Move(w, "ensure")
       ELSE Connected(w, TRUE) /\ UNCHANGED ctr
  /\ Only(w[1])
  /\ UNCHANGED <<outside, socats, req, cfg, mishaps>>

\* Only the socat command connects to a daemon whatever its host.
Connect(w) ==
  /\ At(w, "connect")
  /\ IF req[w[1]].op = "socat" \/ (Remote /\ Port(w) # 0)
       THEN Run!Call(w) /\ Move(w, "ensure")
       ELSE Connected(w, TRUE) /\ UNCHANGED ctr
  /\ Only(w[1])
  /\ UNCHANGED <<outside, socats, req, cfg, mishaps>>

\* StartRemotePortforwarder: the steps of dctr.Run.
Ensure(w) ==
  /\ At(w, "ensure")
  /\ Run!Step(w)
  /\ Only(w[1])
  /\ UNCHANGED <<outside, socats, req, cfg, job, mishaps>>

Ensured(w) ==
  /\ At(w, "ensure")
  /\ \/ run[w] = "ok" /\ Move(w, "scan") /\ run' = [run EXCEPT ![w] = "idle"]
     \/ run[w] = "err" /\ Connected(w, FALSE)
  /\ Only(w[1])
  /\ UNCHANGED <<outside, socats, ctr, req, cfg, mishaps>>

\* Mutant: a socat on the port is replaced whatever its command line.
ScanAndReplace(w) ==
  /\ At(w, "scan")
  /\ LET found == {s \in socats : s.port = Port(w)} IN
     \/ found = {} /\ Move(w, "start")
     \/ \E s \in found : job' = [job EXCEPT ![w] = [@ EXCEPT !.at = "kill", !.old = s]]
  /\ Only(w[1])
  /\ UNCHANGED <<outside, socats, ctr, run, req, cfg, mishaps>>

\* The first process whose command line begins like a socat's on the port: one
\* that has not yet begun to listen will do, and so will one that serves a
\* connection and has outlived the one that listened.
Scan(w) ==
  /\ At(w, "scan")
  /\ LET found == {s \in socats : s.port = Port(w)} IN
     \/ found = {} /\ Move(w, "start") /\ UNCHANGED run
     \/ \E s \in found :
          IF s.cmd = "ours"
            THEN Connected(w, TRUE)
            ELSE job' = [job EXCEPT ![w] = [@ EXCEPT !.at = "kill", !.old = s]] /\ UNCHANGED run
  /\ Only(w[1])
  /\ UNCHANGED <<outside, socats, ctr, req, cfg, mishaps>>

\* Only the process that was found, and to kill it is not to wait for its end.
Kill(w) ==
  /\ At(w, "kill")
  /\ \E old \in {{s \in socats : s = job[w].old \/ s = [job[w].old EXCEPT !.state = "listening"]}} :
       IF old = {}
         THEN Connected(w, FALSE) /\ UNCHANGED socats
         ELSE /\ socats' = (socats \ old) \cup {[s EXCEPT !.state = "dying"] : s \in {s \in old : Holds(s)}}
              /\ job' = [job EXCEPT ![w] = [@ EXCEPT !.at = "start", !.old = NoSocat]]
              /\ UNCHANGED run
  /\ Only(w[1])
  /\ UNCHANGED <<outside, ctr, req, cfg, mishaps>>

Start(w) ==
  /\ At(w, "start")
  /\ IF world.installed
       THEN /\ socats' = socats \cup {Socat(Port(w), "ours", w, "starting")}
            /\ Move(w, "dial")
            /\ UNCHANGED run
       ELSE Connected(w, FALSE) /\ UNCHANGED socats
  /\ Only(w[1])
  /\ UNCHANGED <<outside, ctr, req, cfg, mishaps>>

\* Whoever listens will do.
Dial(w) ==
  /\ At(w, "dial")
  /\ Listens(Port(w))
  /\ Connected(w, TRUE)
  /\ Only(w[1])
  /\ UNCHANGED <<outside, socats, ctr, req, cfg, mishaps>>

\* A hundred attempts a tenth of a second apart: longer than socat takes to begin.
DialTimesOut(w) ==
  /\ At(w, "dial")
  /\ ~Listens(Port(w))
  /\ Socat(Port(w), "ours", w, "starting") \notin socats
  /\ Connected(w, FALSE)
  /\ Only(w[1])
  /\ UNCHANGED <<outside, socats, ctr, req, cfg, mishaps>>

\* populateCluster's health check. For Apply it decides whether there is a cluster.
Query(w) ==
  /\ At(w, "query")
  /\ \E ok \in {Reachable(w[2], cfg[w[1]])} :
       CASE job[w].phase = "status" -> Move(w, IF ok THEN "ok" ELSE "blind")
         [] job[w].phase # "status" /\ ok -> job' = [job EXCEPT ![w] = Became("switch", "after")]
         [] OTHER -> job' = [job EXCEPT ![w] = Became("create", "made")]
  /\ Only(w[1])
  /\ UNCHANGED <<outside, socats, ctr, run, req, cfg, mishaps>>

\* kind deletes a cluster of that name that runs, makes a new one and its context
\* with the server on localhost, and makes the context current.
Create(w) ==
  /\ At(w, "create")
  /\ clusters' = clusters \cup {w[2]}
  /\ kube' = [current |-> w[2], contexts |-> kube.contexts \cup {w[2]}, inside |-> kube.inside \ {w[2]}]
  /\ cfg' = [cfg EXCEPT ![w[1]] = kube']
  /\ Move(w, "switch")
  /\ Only(w[1])
  /\ UNCHANGED <<world, attached, socats, ctr, run, req, mishaps>>

SetContext(w) ==
  /\ At(w, "switch")
  /\ kube' = [kube EXCEPT !.current = w[2]]
  /\ Move(w, "reload")
  /\ Only(w[1])
  /\ UNCHANGED <<world, clusters, attached, socats, ctr, run, req, cfg, mishaps>>

ReloadConfigs(w) ==
  /\ job[w].at \in {"reload", "reread"}
  /\ cfg' = [cfg EXCEPT ![w[1]] = kube]
  /\ Move(w, IF At(w, "reload") THEN "connect" ELSE "health")
  /\ Only(w[1])
  /\ UNCHANGED <<outside, socats, ctr, run, req, mishaps>>

\* ModifyConfigInContainer: that the container is in the network already is no error.
Attach(w) ==
  /\ At(w, "attach")
  /\ attached' = TRUE
  /\ Move(w, "rewrite")
  /\ Only(w[1])
  /\ UNCHANGED <<world, clusters, kube, socats, ctr, run, req, cfg, mishaps>>

Rewrite(w) ==
  /\ At(w, "rewrite")
  /\ kube' = [kube EXCEPT !.inside = @ \cup {w[2]}]
  /\ Move(w, "reread")
  /\ Only(w[1])
  /\ UNCHANGED <<world, clusters, attached, socats, ctr, run, req, cfg, mishaps>>

\* waitForHealthCheckAfterCreate polls; then the spec is written, and Apply ends
\* with another status.
Healthy(w) ==
  /\ At(w, "health")
  /\ Reachable(w[2], cfg[w[1]])
  /\ job' = [job EXCEPT ![w] = Became("connect", "after")]
  /\ Only(w[1])
  /\ UNCHANGED <<outside, socats, ctr, run, req, cfg, mishaps>>

HealthTimesOut(w) ==
  /\ At(w, "health")
  /\ ~Reachable(w[2], cfg[w[1]])
  /\ \A s \in socats : s.port = PortOf[w[2]] => s.state # "starting"
  /\ Move(w, "err")
  /\ Only(w[1])
  /\ UNCHANGED <<outside, socats, ctr, run, req, cfg, mishaps>>

Step(w) ==
  \/ Connect(w) \/ Ensure(w) \/ Ensured(w) \/ Scan(w) \/ Kill(w) \/ Start(w)
  \/ Dial(w) \/ DialTimesOut(w) \/ Query(w) \/ Create(w) \/ SetContext(w)
  \/ ReloadConfigs(w) \/ Attach(w) \/ Rewrite(w) \/ Healthy(w) \/ HealthTimesOut(w)

-------------------------------------------------------------------------------
(***************************************************************************)
(* What else happens.                                                      *)
(***************************************************************************)

Calm == mishaps = 0
Mishap == mishaps < MaxMishaps /\ mishaps' = mishaps + 1

inside == <<outside, ctr, run, req, cfg, job, alone>>

\* socat takes the port, or ends because somebody has it.
Bind(s) ==
  /\ s \in socats /\ s.state = "starting"
  /\ socats' = (socats \ {s}) \cup {[t EXCEPT !.state = "listening"] : t \in {t \in {s} : ~Listens(s.port)}}
  /\ UNCHANGED <<inside, mishaps>>

Die(s) ==
  /\ s \in socats /\ s.state = "dying"
  /\ socats' = socats \ {s}
  /\ UNCHANGED <<inside, mishaps>>

HangUp(s) ==
  /\ s \in socats /\ s.state = "child"
  /\ socats' = socats \ {s}
  /\ UNCHANGED <<inside, mishaps>>

\* "But sometimes that socat tunnel dies!" It forks for every connection, and a
\* child, with the same command line, lasts as long as the connection does.
TunnelDies(s) ==
  /\ s \in socats /\ s.state = "listening"
  /\ \/ socats' = socats \ {s}
     \/ socats' = (socats \ {s}) \cup {[s EXCEPT !.state = "child"]}
  /\ Mishap
  /\ UNCHANGED inside

\* kubectl config use-context.
UseContext(c) ==
  /\ c \in kube.contexts \ {kube.current}
  /\ kube' = [kube EXCEPT !.current = c]
  /\ Mishap
  /\ UNCHANGED <<world, clusters, attached, socats, ctr, run, req, cfg, job, alone>>

\* The process ends between two steps; its socat does not.
Interrupt(p) ==
  /\ \E c \in Clusters : job[<<p, c>>].at \in Steps
  /\ job' = [w \in Workers |-> IF w[1] = p THEN Became("dead", "none") ELSE job[w]]
  /\ Mishap
  /\ UNCHANGED <<outside, socats, ctr, run, req, cfg, alone>>

\* kind fails, after it has deleted the old cluster or before, or Docker does not
\* let the container into the network.
Fail(w) ==
  /\ job[w].at \in {"create", "attach"}
  /\ clusters' \in {clusters, clusters \ IF At(w, "create") THEN {w[2]} ELSE {}}
  /\ Move(w, "err")
  /\ Mishap
  /\ UNCHANGED <<world, kube, attached, socats, ctr, run, req, cfg, alone>>

Init ==
  /\ world \in Worlds
  /\ clusters = world.clusters
  /\ kube = world.kube
  /\ attached = world.attached
  /\ socats = world.socats
  /\ ctr = [n \in {Service} |-> world.service]
  /\ run = [w \in Workers |-> "idle"]
  /\ req \in [Procs -> Requests]
  /\ cfg = [p \in Procs |-> kube]
  /\ job = [w \in Workers |-> [at |-> "idle", phase |-> "none", old |-> NoSocat]]
  /\ alone = {}
  /\ mishaps = IF world.taken = {} /\ \A s \in socats : s.cmd = "ours" /\ s.state = "listening" THEN 0 ELSE 1

Next ==
  \/ \E p \in Procs : Begin(p) \/ Interrupt(p)
  \/ \E w \in Workers : Step(w) \/ Fail(w)
  \/ \E s \in socats : Bind(s) \/ Die(s) \/ HangUp(s) \/ TunnelDies(s)
  \/ \E c \in Clusters : UseContext(c)

\* A process goes on, whichever of its workers it is that does, and so do the
\* processes it starts and kills.
Fairness ==
  /\ \A p \in Procs : WF_vars(\E c \in Clusters : Step(<<p, c>>))
  /\ WF_vars(\E s \in socats : Bind(s) \/ Die(s))

Spec == Init /\ [][Next]_vars /\ Fairness

-------------------------------------------------------------------------------
(***************************************************************************)
(* The properties.                                                         *)
(***************************************************************************)

Undisturbed(p) == p \in alone /\ Calm

\* What would be reachable once the tunnel of the current context is there.
Within(c) ==
  /\ c \in clusters
  /\ Remote => kube.current = c /\ world.installed
  /\ InsideContainer => c \in kube.inside /\ attached

(***************************************************************************)
(* By itself, with nothing else in the way, a connection is a tunnel, the   *)
(* status of the current cluster is found though its tunnel has died, and    *)
(* an apply ends with a cluster that can be reached from where ctlptl runs,  *)
(* without making it again when it only lacked its tunnel. (socat.go;       *)
(* cluster.go: Apply, populateCluster; ModifyConfigInContainer)             *)
(***************************************************************************)
EndsWell(w) ==
  LET p == w[1]  c == w[2] IN
  CASE req[p].op = "socat" \/ (req[p].op = "registry" /\ Remote) ->
         (world.installed => job'[w].at = "ok") /\ (job'[w].at = "ok" => Tunnelled(req[p].port))
    [] req[p].op = "get" /\ Within(c) -> job'[w].at = "ok"
    [] req[p].op = "apply" /\ (Remote => world.installed) -> job'[w].at = "ok" /\ Reachable(c, kube)
    [] OTHER -> TRUE

AloneSucceeds ==
  [][\A w \in Workers :
       LET p == w[1]  c == w[2] IN
       /\ Undisturbed(p) /\ Calm' /\ At(w, "query") /\ req[p].op = "apply" /\ Within(c)
            => job'[w].at # "create"
       /\ Undisturbed(p) /\ Calm' /\ req[p].op # "list" /\ c = req[p].cluster
          /\ job[w].at \in Steps /\ job'[w].at \in Ends
            => EndsWell(w)]_vars

(***************************************************************************)
(* However many calls connect to a port at once, if one reports success and *)
(* nothing goes wrong then the tunnel comes up and stays: those that find    *)
(* it half started return, and those that start another leave the first in   *)
(* place. Every call ends. (socat.go: StartLocalPortforwarder)              *)
(***************************************************************************)
Working(p) == \E c \in Clusters : job[<<p, c>>].at \in Steps

Reported(p) == req[p].op = "socat" /\ job[<<p, req[p].cluster>>].at = "ok"

TunnelSettles ==
  \A p \in Procs :
    /\ Reported(p) ~> [](Tunnelled(req[p].port) \/ ~Calm)
    /\ Working(p) ~> ~Working(p)

-------------------------------------------------------------------------------
(***************************************************************************)
(* What a comment says.                                                    *)
(***************************************************************************)

(***************************************************************************)
(* populateCluster: "sometimes that socat tunnel dies! This makes it        *)
(* impossible to populate the cluster attributes because we can't even talk *)
(* to the cluster. If this looks like it might be running on a remote Docker *)
(* instance, ensure the socat tunnel is running." So an apply by itself does *)
(* not take a cluster that runs for one that is gone.                       *)
(***************************************************************************)
RunningIsSeen ==
  [][\A w \in Workers :
       (/\ Undisturbed(w[1]) /\ Calm' /\ world.installed /\ ~InsideContainer
        /\ At(w, "query") /\ w[2] \in clusters)
         => job'[w].at # "create"]_vars

==============================================================================
