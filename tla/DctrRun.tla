------------------------------- MODULE DctrRun --------------------------------
(***************************************************************************)
(* internal/dctr/run.go: Run, the run-container-and-detach helper that      *)
(* starts the registry and the port-forward service. It is a sequence of    *)
(* daemon requests with no lock around it, and several goroutines and       *)
(* several ctlptl processes run it at once on the same name. Each action is *)
(* one request, with what the code does with its answer.                   *)
(***************************************************************************)
EXTENDS Docker

VARIABLES
  ctr,       \* the daemon's containers, by name
  images,    \* the images the daemon has locally
  run,       \* where each call of Run is
  arg,       \* the name and configuration each call was given
  disturbed  \* history: names hit by a failed request, a killed process, a
             \* busy host port, or a container stopped or started by others

vars == <<ctr, images, run, arg, disturbed>>

Active == {"inspect", "remove", "create", "pull", "recreate", "start"}
Returned == {"ok", "err"}

Images == {c.image : c \in Configs}

Target(p) == arg[p].name

Goto(p, label) == run' = [run EXCEPT ![p] = label]

Disturb(n) == disturbed' = disturbed \cup {n}

TypeOK ==
  /\ ctr \in [Names -> Container]
  /\ images \subseteq Images
  /\ run \in [Calls -> {"idle"} \cup Active \cup Returned]
  /\ arg \in [Calls -> [name: Names, config: Configs]]
  /\ disturbed \subseteq Names

\* Any containers of earlier runs, in any state, and no call made yet.
Init ==
  /\ ctr \in [Names -> {c \in Container : c.by = Daemon /\ (c = Gone \/ (Exists(c) /\ c.config # NoConfig))}]
  /\ images \in SUBSET Images
  /\ run = [p \in Calls |-> "idle"]
  /\ arg \in [Calls -> [name: Names, config: Configs]]
  /\ disturbed = {}

Call(p) ==
  /\ run[p] = "idle"
  /\ Goto(p, "inspect")
  /\ UNCHANGED <<ctr, images, arg, disturbed>>

\* Mutant: a container that exists counts as running.
InspectTrusts(p) ==
  /\ run[p] = "inspect"
  /\ Goto(p, IF Exists(ctr[Target(p)]) THEN "ok" ELSE "create")
  /\ UNCHANGED <<ctr, images, arg, disturbed>>

\* ContainerInspect by name. A running container is all the code asks for:
\* its configuration is not compared with the one requested.
Inspect(p) ==
  /\ run[p] = "inspect"
  /\ Goto(p, CASE Running(ctr[Target(p)])  -> "ok"
               [] ~Exists(ctr[Target(p)]) -> "create"
               [] OTHER                   -> "remove")
  /\ UNCHANGED <<ctr, images, arg, disturbed>>

\* ContainerRemove, forced, by NAME: it takes whatever container has the name
\* now, running or not, and not only the one that was inspected.
Remove(p) ==
  /\ run[p] = "remove"
  /\ IF Exists(ctr[Target(p)])
       THEN ctr' = [ctr EXCEPT ![Target(p)] = Gone] /\ Goto(p, "create")
       ELSE UNCHANGED ctr /\ Goto(p, "err")
  /\ UNCHANGED <<images, arg, disturbed>>

NewContainer(p) == [state |-> "created", by |-> p, config |-> arg[p].config]

\* Mutant: a name conflict is cleared up before the error is returned.
CreateClears(p) ==
  IF Exists(ctr[Target(p)])
    THEN ctr' = [ctr EXCEPT ![Target(p)] = Gone] /\ Goto(p, "err")
    ELSE ctr' = [ctr EXCEPT ![Target(p)] = NewContainer(p)] /\ Goto(p, "start")

\* ContainerCreate answered by the daemon when it has the image.
CreateNamed(p) ==
  IF Exists(ctr[Target(p)])
    THEN UNCHANGED ctr /\ Goto(p, "err")
    ELSE ctr' = [ctr EXCEPT ![Target(p)] = NewContainer(p)] /\ Goto(p, "start")

\* The first ContainerCreate: an image the daemon lacks is pulled, any other
\* error is returned.
Create(p) ==
  /\ run[p] = "create"
  /\ IF arg[p].config.image \in images
       THEN CreateNamed(p)
       ELSE UNCHANGED ctr /\ Goto(p, "pull")
  /\ UNCHANGED <<images, arg, disturbed>>

\* Mutant: the name is pulled in place of the image.
PullName(p) ==
  /\ run[p] = "pull"
  /\ images' = images \cup {Target(p)}
  /\ Goto(p, "recreate")
  /\ UNCHANGED <<ctr, arg, disturbed>>

\* ImagePull. The code discards the error of reading the answer's body, so it
\* goes on whether or not the image arrived.
Pull(p) ==
  /\ run[p] = "pull"
  /\ \/ images' = images \cup {arg[p].config.image}
     \/ UNCHANGED images
  /\ Goto(p, "recreate")
  /\ UNCHANGED <<ctr, arg, disturbed>>

\* The second ContainerCreate: every error is returned.
Recreate(p) ==
  /\ run[p] = "recreate"
  /\ IF arg[p].config.image \in images
       THEN CreateNamed(p) /\ UNCHANGED disturbed
       ELSE UNCHANGED ctr /\ Goto(p, "err") /\ Disturb(Target(p))
  /\ UNCHANGED <<images, arg>>

\* The container that p created is still there, by id.
OwnsTarget(p) == Exists(ctr[Target(p)]) /\ ctr[Target(p)].by = p

SetRunning(n) == ctr' = [ctr EXCEPT ![n].state = "running"]

CanStart(p) == OwnsTarget(p) /\ ~PortTaken(ctr, Target(p), arg[p].config)

\* Mutant: a container that is gone is not an error.
StartForgives(p) ==
  /\ run[p] = "start"
  /\ IF CanStart(p) THEN SetRunning(Target(p)) ELSE UNCHANGED ctr
  /\ Goto(p, "ok")
  /\ UNCHANGED <<images, arg, disturbed>>

\* ContainerStart by ID. Starting a running container succeeds; a container that
\* is gone, and one whose host port is taken, are errors.
Start(p) ==
  /\ run[p] = "start"
  /\ \/ /\ ~OwnsTarget(p)
        /\ Goto(p, "err")
        /\ UNCHANGED <<ctr, disturbed>>
     \/ /\ OwnsTarget(p) /\ ~CanStart(p)
        /\ Goto(p, "err")
        /\ Disturb(Target(p))
        /\ UNCHANGED ctr
     \/ /\ CanStart(p)
        /\ SetRunning(Target(p))
        /\ Goto(p, "ok")
        /\ UNCHANGED disturbed
  /\ UNCHANGED <<images, arg>>

\* A request fails, its context is cancelled, or the process is killed before
\* the request reaches the daemon.
Fail(p) ==
  /\ run[p] \in Active
  /\ Goto(p, "err")
  /\ Disturb(Target(p))
  /\ UNCHANGED <<ctr, images, arg>>

\* The daemon starts the container but the answer never arrives.
StartUnanswered(p) ==
  /\ run[p] = "start"
  /\ CanStart(p)
  /\ SetRunning(Target(p))
  /\ Goto(p, "err")
  /\ Disturb(Target(p))
  /\ UNCHANGED <<images, arg>>

\* The container exits or is stopped, outside ctlptl.
Stop(n) ==
  /\ Running(ctr[n])
  /\ ctr' = [ctr EXCEPT ![n].state = "exited"]
  /\ Disturb(n)
  /\ UNCHANGED <<images, run, arg>>

\* The daemon's restart policy or the user starts it again.
Restart(n) ==
  /\ ctr[n].state = "exited"
  /\ ~PortTaken(ctr, n, ctr[n].config)
  /\ SetRunning(n)
  /\ Disturb(n)
  /\ UNCHANGED <<images, run, arg>>

\* The steps of a call that the code takes by itself.
Step(p) ==
  \/ Inspect(p)
  \/ Remove(p)
  \/ Create(p)
  \/ Pull(p)
  \/ Recreate(p)
  \/ Start(p)

Next ==
  \/ \E p \in Calls : Call(p) \/ Step(p) \/ Fail(p) \/ StartUnanswered(p)
  \/ \E n \in Names : Stop(n) \/ Restart(n)

Spec == Init /\ [][Next]_vars

\* A call does not stop on its own: the daemon answers every request.
Fairness == \A p \in Calls : WF_vars(Step(p))

FairSpec == Spec /\ Fairness

-------------------------------------------------------------------------------

Up(n) == Running(ctr[n])

Made(p, n) == run[p] # "idle" /\ Target(p) = n

Busy(p, n) == run[p] \in Active /\ Target(p) = n

(***************************************************************************)
(* Concurrent calls on a name may remove each other's containers, so some   *)
(* of them fail. When no request failed and nobody else touched the         *)
(* container, they never defeat each other altogether: once all calls on a  *)
(* name have returned, its container runs.                                 *)
(***************************************************************************)
ServiceUp ==
  \A n \in Names :
    /\ n \notin disturbed
    /\ \E p \in Calls : Made(p, n)
    /\ \A p \in Calls : ~Busy(p, n)
    => Up(n)

(***************************************************************************)
(* And at least one of them reports it.                                    *)
(***************************************************************************)
SomeCallSucceeds ==
  \A n \in Names :
    /\ n \notin disturbed
    /\ \E p \in Calls : Made(p, n)
    /\ \A p \in Calls : ~Busy(p, n)
    => \E p \in Calls : Made(p, n) /\ run[p] = "ok"

(***************************************************************************)
(* Once a name's container runs and no call is about to remove it, it keeps *)
(* running whatever the calls still active, or made later, run into: the    *)
(* ones that lose the race return without clearing the name up after them, *)
(* and a call that finds the service running leaves it alone.              *)
(***************************************************************************)
Settled(n) == Up(n) /\ \A p \in Calls : Target(p) = n => run[p] # "remove"

UpIsStable ==
  [][\A n \in Names : Settled(n) /\ n \notin disturbed' => Settled(n)']_vars

(***************************************************************************)
(* Every group of calls settles: from the first call on a name on, either   *)
(* something disturbs it or its container ends up running for good.        *)
(***************************************************************************)
SettlesUp ==
  \A n \in Names :
    (\E p \in Calls : Made(p, n)) ~> (n \in disturbed \/ [](Up(n) \/ n \in disturbed))

-------------------------------------------------------------------------------

(***************************************************************************)
(* What Run promises its callers, in terms of the service and the answers.  *)
(***************************************************************************)
Answer(p) ==
  CASE run[p] \in Active -> "pending"
    [] OTHER             -> run[p]

Ensure == INSTANCE EnsureService WITH
  up     <- {n \in Names : Up(n)},
  answer <- [p \in Calls |-> Answer(p)],
  target <- [p \in Calls |-> Target(p)],
  broken <- disturbed

\* Run keeps that promise: success is reported only while the service is up,
\* and the calls that are not pending never take it down.
EnsuresService == Ensure!Spec

==============================================================================
