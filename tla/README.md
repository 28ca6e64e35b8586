# ctlptl in TLA+

ctlptl is a command-line tool that reconciles local Kubernetes clusters (Docker
Desktop, kind, k3d, minikube) and a Docker registry with declarative specs. It
has no server and no lock: each command is a process that reads what is there,
decides, and changes it one request at a time, on a Docker daemon, a kubeconfig,
a cluster tool and config maps in the cluster. Several commands may be at work
at once, and each can fail or be killed between any two requests. What makes it
correct is that such a command, run again or run beside another, ends where the
spec says. That is what this project models, checks and proves.

## 1. The system

| Component | State | Operations | What is hard |
|---|---|---|---|
| `internal/dctr/run.go` | the daemon's containers and images | `Run`, `RemoveIfNecessary`, `pull` | concurrent calls on one name remove each other's containers |
| `pkg/registry/registry.go` | the registry container: port, address, image, labels, environment | `Get`, `List`, `Apply`, `Delete` | what is to be preserved is only in memory while the container is recreated; idempotence; free ports |
| `pkg/cluster/cluster.go` | kubeconfig, cluster, its config maps, the registry | `Get`, `List`, `Apply`, `Delete` | decisions on a partial status; crash between create and configure; races between processes |
| `pkg/cluster/machine.go` | the VM: running, CPUs | `EnsureExists`, `CPUs`, `Restart` | Docker Desktop restarts under everybody |
| `pkg/cluster/admin_*.go` | clusters of kind, k3d, minikube, Docker Desktop | `Create`, `Delete`, `LocalRegistryHosting` | orphaned clusters; partial creates; registry networks |
| `pkg/cluster/docker_desktop.go` | Docker Desktop's settings | read, change, write back | lost updates; two protocols |
| `internal/socat/socat.go` | a remote container and a local process | `ConnectRemoteDockerPort` | stale forwarders; check-then-act |
| `pkg/cmd/*.go` | none | `apply`, `create`, `delete`, `get` | lists of resources, cascades, partial failure |
| `pkg/encoding`, `pkg/visitor`, `pkg/api`, `pkg/docker` | none | parsing, types, pure functions | |

How they interact: `create cluster` checks `Get` and calls `Apply`; `apply` calls
the controllers' `Apply`, `delete` their `Delete`. The cluster controller calls
the machine, an admin and the registry controller (`ensureRegistryExistsForCluster`
is a registry `Apply` with a spec of its own; the status of a cluster looks up a
registry by port). The registry controller and socat call `dctr.Run`. Inside a
process, `populateCluster` runs four reads in parallel, the first error cancelling
the others, and `List` runs `populateCluster` in parallel for every context.

`PROJECT.json` lists every component with its status, and every hazard at its line.

## 2. Modules

| Module | Models | Composition |
|---|---|---|
| `Docker` | the container table as the client interface shows it (external) | extended by the two below |
| `DctrRun` | `dctr.Run` by any number of calls | |
| `EnsureService` | what `Run` promises its callers (abstract) | implemented by `DctrRun` |
| `DctrRunProofs` | theorems about `DctrRun` | |
| `Registry` | the registry controller and `create registry` | instantiates `DctrRun` on the same daemon |
| `RegistryProofs` | theorems about `Registry`: any number of calls at once, and one that is alone | |
| `Cluster` | the cluster controller, with kind, k3d, Docker Desktop, `create cluster`, `delete cluster` | the registry is its port |
| `ClusterProofs` | theorems about `Cluster`: types, and a process that is alone | |
| `ClusterJointProofs` | `SameSpecHolds` of `Cluster`, for any number of processes | extends `ClusterProofs` |
| `Admin` | kind, k3d and minikube: creation request by request, for every version of the tools | what `Cluster` takes for two steps |
| `AdminProofs` | theorems about `Admin` | |
| `DesktopSettings` | the client of Docker Desktop's settings, `docker-desktop` commands, `EnsureExists` and `Restart` | what `Cluster` takes for one step |
| `DesktopSettingsProofs` | theorems about `DesktopSettings` | |
| `Commands` | `apply`, `delete` and `get` over lists of resources | `Registry` and `Cluster` in the few steps where resources depend on one another |
| `CommandsProofs` | theorems about `Commands` | |
| `RemoteDocker` | socat, its callers in both controllers and `ctlptl socat`, list, a kubeconfig inside a container | instantiates `DctrRun` for its service container |
| `RemoteDockerProofs` | theorems about `RemoteDocker` | |
| `MCDctrRun`, `MCRegistry`, `MCCluster`, `MCAdmin`, `MCDesktopSettings`, `MCCommands`, `MCRemoteDocker` | instances for TLC | |

The same code appears at two depths only where a coarser module needs its result:
`Cluster` sees a creation end, crash or half-succeed, `Admin` shows how; each line of
detail is in one module.

**State and actions.** A process is a place (`run`, `at`) and a memory (`mem`,
`arg`); an action is one request to the outside with everything the code does
with the answer, up to the next request. What is between two requests is not
observable by others and belongs to one action. The daemon, the kubeconfig and the
cluster are shared variables that the actions read and write when their request
is answered. A container and a cluster remember who made them (`by`), which is
their identity: a container id, the credentials of a cluster. That is what tells a
request by id from one by name.

- In `DctrRun`: `Inspect`, `Remove` (by name), `Create`, `Pull`, `Recreate`, `Start`
  (by id), with every error path.
- In `Registry`: a `Get` is `ListByRole`, `ListByAncestor` and one `InspectListed` per
  container; `Decide` is the comparison in `Apply`; `FindDoomed` and `Delete` are
  `Delete`; `InspectLeftover` and `RemoveLeftover` are `RemoveIfNecessary`; `Configure`
  computes the container's configuration; `RunStep` is a step of `DctrRun`; `Confirm` is
  the final `Get`. Labels and environments are sets of pairs. Only the containers'
  maker, not the id, is compared.
- In `Cluster`: `Get` is the lookup and the health check, `ReadPart` and
  `GiveUpReading` the goroutines; `Decide`, `FindDoomed`, `AdminDelete`, `Reload`,
  `DeleteContext` delete; `Restart`, `EnsureRegistry`, `ClearOrphan`, `Create`, `Connect`
  create; `AwaitContext`, `SetContext`, `AwaitHealth`, `DeleteSpec`, `CreateSpec`,
  `CreateHosting` configure. The kubeconfig that a process has loaded is in its
  memory and may be stale; an API server answers only with its own credentials.
  A cluster's status, config maps and registry wiring are fields of a record.
- In `Admin`: one action per request to the tool or to Docker (`ClusterExists`, the delete
  of an orphan, the version, the creation, the registry's network, then node by node the
  patches, the edits and the restarts of containerd). Versions are numbers (v0.31.0 of
  kind is 310), so that the comparisons, the table of node images and the config formats
  of k3d are the code's. `attached` is the networks of the registry's container, `wired`
  the names under which a node finds it; the list of networks that a call decides by
  was read before it began.
- In `DesktopSettings`: a settings tree is a set of nodes, a leaf and its path each. `SettingsForWrite`,
  `ApplySet`, `Bodies` are the code's passes over it, for the two protocols and the two
  endpoints. `Read`, `Write` and the polls are the requests, `EngineStops` and
  `EngineStarts` Docker Desktop's. What Docker Desktop itself does with a body is taken from
  the documents in `docker_desktop_test.go`.
- In `Commands`: `Begin` reads the file; `NextRegistry`, `Look`, `Drop`, `Run` apply registries,
  `NextCluster`, `Inspect`, `RemoveOld`, `Create`, `Join`, `Hosting` clusters; `NextCascade` collects
  the registries of what is to be deleted, `NextDelete` deletes. A cluster knows its
  registry by port (`hosting`), its nodes by name through a network (`mirror`, `nets`).
- In `RemoteDocker`: a worker is a process and a cluster, so that `list` has its parallel
  workers. `Ensure` and `Ensured` enclose a call of `DctrRun` on the service container; `Scan`,
  `Kill`, `Start`, `Dial` are the local process; `Query`, `Create`, `SetContext`, `ReloadConfigs`
  the cluster controller around it; `Attach` and `Rewrite` the container's network and its
  kubeconfig. A killed socat is gone some time after the kill, a started one binds
  its port or dies.

**Faults.** `Fail` ends a call at any request (an error, a cancelled context or a
killed process: none of them cleans up). `StartUnanswered` and `DieCreating` lose
the answer of a request that took effect. `SlowHealthCheck` and `ReadFails` are the
status reads that fail on a healthy cluster. `Stop`, `Restart`, `Flip` are outsiders.
`Faulty` (`Faults`, `MaxMishaps`) bounds the names, processes or number of times where
they happen, so that a run without faults is one value of a constant.

**History.** `disturbed` (names hit by a fault, a timeout or an outsider), `alone`
(nobody else has acted since this process began) and what there was when it began
(`before`, `was`), `untouched`, `calm`, `mishaps`, and the registries that a cascade `owed`, only
serve the properties.

## 3. Runs

| Run | Shows | Bounds |
|---|---|---|
| `dctr` | `ServiceUp`, `SomeCallSucceeds`: calls that race on a name never defeat each other altogether; `UpIsStable`; `EnsuresService` (refinement); `SettlesUp` (liveness) | 3 calls; all on 1 name with 2 configurations, or 2 on one name beside 1 on another that wants the same host port; every fault |
| `registry` | `AppliedMatches`, `PreservesTheRest`, `UpToDateIsKept`, `CreateSparesExisting`, `RetrySucceeds`; and `RegistryUp`, `SameSpecHolds` | calls one after another, every request on every table, then an apply over what the first one left, every fault at every step of the first; and 2 calls at once on 1 name without faults, or on 2 names that share the ports, with faults at the second: nothing under the name, a running registry, a dead one or a container that is none, and the one free port is also the one asked for |
| `cluster` | `AppliedHolds`, `MatchIsKept`, `RetrySucceeds`, `DeletedIsGone` | commands one after another for kind, k3d, Docker Desktop; every cluster, context, config map, registry; every fault, and the restarts of Docker Desktop's engine |
| `cluster_race` | `SameSpecHolds`, `EveryCallReturns` (liveness) | 2 processes on one kind cluster, no faults |
| `admin` | `CreatedIsWired`, `AloneSucceeds`, `RefusedIsHarmless`, `NeighboursKeepPulling` | 2 processes, 4 clusters of 3 products and 1 registry; tools on either side of each change of behaviour; every fault. Two at once only if both share the registry |
| `settings` | `SomeSetSurvives`, `DoesWhatIsAsked`, `AloneSucceeds`, `RestartTakesEffect`, `EveryCallReturns` (liveness) | 1 process with every command, or 2 that set and restart; both protocols, either endpoint or both or none, settings that are locked, missing or limited; faults in one process |
| `commands` | `SameFileIsUp`, `AppliedFileHolds`, `DeletedIsGone`, `CascadeIsComplete` | 2 commands one after another with kills and failures in the first, or 1 file applied twice at once; 2 clusters, 2 registries, 2 ports |
| `remote` | `AloneSucceeds`, `TunnelSettles` (liveness) | 1 process with every command, or a second one that connects to the same port; 2 clusters; 1 mishap, before or during the run |
| `cluster_panic`, `admin_v1alpha5`, `commands_pullable`, `remote_status` | what the code does otherwise than its docs or comments say | as the runs above |

Each module has one type invariant, `TypeOK`, checked in the run with most
interleavings. Deadlock is not checked: every process ends.

**Why the bounds are enough.** A race on a name is between a process that removes
or creates and one that has looked before: two processes show every pair of steps,
and `dctr.Run` is run with a third, which may undo what two have settled (and is
proved for every number). One name is enough for what a name's processes do to each
other; the second name is there for the port, the network and the lists they share.
Specs range over each field that a comparison in the code reads, set and not set,
equal and different; versions over either side of each comparison, and an output
that does not parse. Two sequential processes show every crash point of the first to
the second. Each table or world is a state that an earlier ctlptl or another tool
leaves. Files have at most two resources: the phases of `apply` and the cascade relate
two at a time.

**Fairness.** It is weak fairness of each process's own steps: a request is answered, or
its process is not the one the property is about; a wait has a timeout in the code
(`waitForKubeConfigTimeout`, `waitForClusterCreateTimeout`, the poll of `Restart`, the dial of
socat), which is an action of the process. Nothing outside is fair, but for two
things that happen by themselves: Docker Desktop stops its engine once it has taken
over new settings, and a socat that was started binds its port or dies. In `cluster_race`
a cluster need not come up; in `settings` the engine need not come back. A process that has
not begun need not begin.

**What the violations show.** Deleting a Docker Desktop cluster that does not answer
panics. A v1alpha5 config gets past the checks of `admin_k3d.go` on k3d 5.3 and 5.4, which refuse
it when the old cluster has been deleted. An apply that recreates the registry of a kind
cluster that stays leaves the cluster without the registry: the new container is not in its network, and no later
apply connects it. An apply of a running remote cluster whose context is not current,
when its tunnel has died, takes it for missing and makes it again. Each is quoted in
`PROJECT.json` under `findings`.

**Limits of the properties.** The runs hold under conditions that the definitions state,
and each condition is there because the code does otherwise without it:

- `AppliedMatches` says nothing of the listen address, which is never reconciled, and
  `UpToDateIsKept` nothing of an image that brings an environment: every `Apply` recreates its
  registry. A cluster's Apply is a spec without an environment, and recreates a registry
  that has one.
- A registry that somebody else made without a published port is not remade for the port that a
  spec asks for: `registry.go:211` compares two ports that are set (`Fulfils`).
  Labels of Docker Desktop in a spec are stripped, and its role is overwritten (`OwnKeys`).
- `RetrySucceeds` of `Registry` leaves out that there is no address to listen at (`NoAddress`). A spec may
  have one that is none; and a registry that somebody else made without a published port has
  the address "invalid IP" in its summary (`registry.go:191`), which an `Apply` keeps. Either
  is parsed only in `portConfigs` (`registry.go:350`), after the old registry was deleted: the
  registry is lost, and the spec's address fails the next `Apply` as well.
- `SameSpecHolds` of `Registry` speaks of what the spec sets: two `Apply`s at once that leave the
  port open may lose the one the registry had. So the same file applied twice at once may end
  with the registry on another port than the cluster records, and `SameFileIsUp` promises
  only that both are up.
- `AppliedHolds` is about a cluster that was found with no registry announced, or one that its nodes
  are wired for (`Sound`). Two processes with different specs can leave another one, and an `Apply`
  looks only at what is announced.
- When an `Apply` or a delete writes new settings, Docker Desktop restarts its engine, and every
  cluster of it goes down (`EngineRestarts`). `Restart` (`machine.go:163-185`) waits for the engine
  to answer, and `Apply` for the health of a cluster only after it has made one. So an `Apply` that
  only raises the CPUs for a cluster it keeps may report success before that cluster is back
  (`RestartedUnder` in `AppliedHolds` and `MatchIsKept`). Clusters that were up may come up again, at
  some time or never, and are counted as `disturbed`; the registry comes up with the engine, by its
  restart policy (`registry.go:305`).
- `SameSpecHolds` of `Cluster` speaks of processes that all report success: one may delete,
  as an orphan, what the other has just finished, and then be refused by the network it
  finds connected.
- `MatchIsKept` leaves out a health check that times out (a live kind cluster is deleted as an
  orphan), and `RetrySucceeds` of `Cluster` `minCPUs` on an engine that is no Docker Desktop,
  where a new cluster counts as one with 0 CPUs.
- `RefusedIsHarmless` is about k3d, whatever the config, the version, the login or the name, and names the
  one pair that costs the cluster, a v1alpha5 config on k3d 5.3 or 5.4 (`SlipsThrough`). That it
  does is the violation of `admin_v1alpha5`. kind deletes an orphan before it refuses a version or a
  login, and minikube disconnects the registry before v1.26 is refused as broken.
  `AloneSucceeds` of `Admin` leaves out k3d's v1alpha4: versions 5.3 and 5.4 refuse it, since
  `admin_k3d.go:70` tests for it twice and never for v1alpha5. It also leaves out a minikube
  cluster without a registry in whose network an earlier one's registry still is.
- `AloneSucceeds` of `DesktopSettings`: what can be set everywhere is `Settable`, and a key or a value
  that does not go is refused before anything is written. One of the keys that do not go is in the
  help: `ctlptl docker-desktop set kubernetes.enabled false` (`pkg/cmd/docker_desktop.go:59`, and
  `README.md:189`, `docs/ctlptl_docker-desktop_set.md:23`) fails on every document of
  `docker_desktop_test.go`. There the key is `vm.kubernetes.enabled`, as it is in the
  code's own `setK8sEnabled` and in the tests, so here the help is wrong.
- `SomeSetSurvives`: of several writers at once at least one change is there at the end. Lost
  updates do occur, as does a setting somebody changed by hand meanwhile.
- `AppliedFileHolds` is about files that give no name twice (`NamedOnce`): of two specs for one name the
  second undoes the first.
- `CascadeIsComplete` counts a registry as owed if the code's lookup can find it. Of a cluster given by
  product only, whose name is looked for under the product (`delete.go:245`), the registry is
  never found, though the help (`delete.go:60-62`) has it deleted: it is not owed.
- `CascadeIsComplete`, for a command that is repeated, leaves out a cluster without a registry in its
  spec that is given by product only, or twice under two names (`Repeatable`): `delete.go:245` looks it
  up by the name it is given, and of two mentions the first deletes what the second leads
  to. A cluster that does not answer has no registry in its status, and none is owed: it is
  leaked. A registry is known to its cluster by port only.
- `TunnelSettles` and `AloneSucceeds` of `RemoteDocker` leave out a command that replaces a socat with
  another command line (the dial may reach the dying one), something else that holds
  the port (counts as a tunnel), a child that a connection forked (counts as a running
  forwarder), and a list whose workers ask before the tunnel is up.

## 4. Proofs

**`DctrRunProofs`** proves, for every set of names, calls and configurations, with the
one assumption that the daemon is not a call (`DockerAssumption`):

- `TypeCorrect`: `Spec => []TypeOK`;
- `IInvHolds`: the inductive invariant `IInv`. `ServiceUp` speaks of the moment when
  all calls have returned and is not inductive. `IInv` says, of an undisturbed name,
  that a container made by a call is either about to be started by its maker or runs
  and its maker reported success (`MakerStands`), that the container from before is
  either running with every call finding it so, or out of the way of every call about
  to create (`OldRunsUntouched`, `OldIsOutOfTheWay`), and that the service is up or
  some call carries it: will bring it up, or fail only because another will
  (`Carried`). The critical step is `Remove`: by `MakerStands` a call that removes
  a container somebody is starting passes the charge on to itself;
- `ServiceUpHolds`, `SomeCallSucceedsHolds`: from `IInv`;
- `UpIsStableHolds`: from `TypeOK`, step by step;
- `RunEnsuresService`: every step of `DctrRun` is one of `EnsureService` or a stutter,
  under the mapping `up <- {n : Up(n)}`, `answer <- Answer`, `broken <- disturbed`.

**`AdminProofs`** proves, for every set of processes, names, requests and tools of the types
that `AdminAssumption` gives (no cluster has the name of kind's network, `kind`):

- `TypeCorrect`: `Spec => []TypeOK`. It rests on one lemma per action, each of which shows `Moves(p)`:
  a step changes only its own process, its own cluster, and, of the networks of the registry,
  at most takes away its own cluster's;
- `NeighboursKeepPullingHolds`: from `Moves` and the fact that nodes are unwired only when their
  cluster goes;
- `IInvHolds`: the inductive invariant `IInv`. `CreatedIsWired` speaks of the step in which a
  creation reports success, and is not inductive. `IInv` says of every creation that it `Fits` its
  request (its place is one of its product; with a login it got past the refusal only for kind),
  and of one that nobody has disturbed how far it has come (`Progress`): what the tool has made is
  there with its configuration (`IsBuilt`); the registry is in its network once it has been
  connected (`IsJoined`); and each node is still to be wired, is being wired or is wired
  (`WiredSoFar`). `KnowsNetwork` is the critical part: the list of networks was read before the
  creation began and others have changed the networks since, but no one else has left this
  cluster's, so what is skipped because of the list need not be done;
- `CreatedIsWiredHolds`: each action that can report success does so only where `IInv` gives all that
  was promised;
- `RefusedIsHarmlessHolds`, `AloneSucceedsHolds`: from `FailInv`, which adds to `IInv` why a creation
  cannot fail: a cluster in its way has been deleted, or not been looked at yet (`Cleared`), and a
  creation that is alone has a true list of the networks up to the moment it is connected
  (`KnowsNetworks`), so that Docker refuses it nothing. What is left are the refusals of `Unsupported`.

**`RegistryProofs`** proves every property of `Registry`, for every set
of calls, names, requests, images and old containers. The assumptions are in `Registry`
(`RegistryAssumption`: a request has one of the four kinds; containers from before are
nobody's, and those that run share no port; `ConfigsAssumption`: `Configs` has
all that `ConfigFor` makes of a request and of a configuration in it). Each action has a lemma that
says what it changes, whatever the invariant, and each invariant is proved from these:

- `TypeCorrect`: from `BaseInv`, which adds to the types where a call can be (`Fits`: only an
  Apply makes a container, and only a call in `dctr.Run` has a frame there) and that what a call
  remembers was read of a configuration there may be (`Remembers`). Without the latter
  nothing bounds the configuration made from what was remembered;
- `SameSpecHoldsAlways`: from `MatchInv`. It says that a container some call made is as
  that call was asked (`AsAsked`), and that what was read of the container from before
  is still true of it while it stands (`TrueOfOld`). So a call that reports success found a
  container that matches, made it, or read back one that another call had been asked for;
- `RegistryUpAlways`: from `JointInv`. `RegistryUp` speaks of the moment when all calls
  have returned and is not inductive. `StaysUp` says of an undisturbed name, when all its calls
  are Applies: once any call has seen the registry run (`HasSeenUp`), it runs, or some call
  carries it (`Carries`): it has taken the container down or found it missing, and will make one,
  or fail only because another call then does. It needs that a container made by a call and not
  running is about to be started by its maker (`IsBeingStarted`). `Carries` is stronger than that of
  `DctrRun`: a call here may also have removed a container before it enters `dctr.Run`;
- `AppliedMatchesAlways`, `PreservesTheRestAlways`, `UpToDateIsKeptAlways`, `CreateSparesExistingAlways`,
  `RetrySucceedsAlways`: from `AloneInv`. `Proceeds` says, of a call that is still alone, that the
  lists of its Get are complete and true (`Reads`), that what it remembers of the container it
  set out from is what that container was (`Recalls`), that the configuration made keeps that
  and fulfils the spec (`Right`), and where `dctr.Run` is with nothing in its way (`RunsAlone`).

**`ClusterProofs`** and **`ClusterJointProofs`** prove every safety property of `Cluster`, for every set of
processes, names, ports, requests and worlds, under `ClusterAssumption`: a request is one that the
commands can make (`IsRequest`), a world one that an earlier command or another tool can leave (`IsWorld`), and
a name belongs to one product.

- `TypeCorrect`: `Spec => []TypeOK`, one lemma per action;
- `AppliedHoldsAlone`, `MatchIsKeptAlone`, `RetrySucceedsAlone`, `DeletedIsGoneAlone`: these hold through the
  restarts of the engine, of this process and of others, and come from `IInv`, which has
  two parts. `Base` holds whoever is at work: the places a request can get to (`Fits`), and that a
  context is of its name's product, in the file and in every loaded copy (`ContextsFit`).
  `AloneInv` is about a process that nobody has interfered with: what it has loaded is
  the file, or was before Docker Desktop wrote its own context (`Looking`), the parts of the status
  read so far are the cluster's (`Reading`), and a cluster made has what was asked for up to the step
  the process is at. The reads run in any order and each of them may time out, so `Reading` is stated by the
  parts still to be read;
- `SameSpecHoldsAlways`: from `JointInv`. What a cluster has is stated by who made it: one from before
  is as it was, but for what the processes at work may have written into it (`Inherited`), and
  one that a process made is as that process was asked, up to the step it is at (`Owned`). All
  that report success were asked the same, so any of them is as good as the maker.

**`CommandsProofs`** proves every property of `Commands` but the one the code violates, for every set of
processes, clusters, registries, ports, files and worlds, under `CommandsAssumption`: a request is one
that the command line and the decoder can make (`IsRequest`), the name of a product is no cluster's,
and at first no two containers have one host port. Each action has a lemma that says where it
moves its process, with what in memory (`Moves`), and what it does to the world, whatever the
invariant; each invariant is proved from these:

- `TypeCorrect`: from `BaseInv`, which adds what a process has in mind at each place (`Fits`);
- `SameFileIsUpAlways`: from `JointInv`. A registry that one process has been through is up, or
  some process is about to make it; a cluster is up, or some process is about to create it
  (`Standing`). Every step of an apply `Upholds` this for whatever the others have been through: it
  takes nothing down that it is not about to make, as long as none fails;
- `AppliedFileHoldsAlways`: from `ApplyInv`. Of a process that is alone: what it has been through
  holds, or will be made so by the registry it is about to make (`Serves`, `HoldsSoFar`). The critical
  step is a registry remade for a cluster: by then all registries of the file have been
  applied, so it is asked for on no port of its own (`AsksPort`) and keeps the one
  that the clusters before it are hosted at;
- `DeletedIsGoneAlways`: from `DeleteInv`. Each resource is still in the list, or gone, and the list of a
  cascade has every registry that is owed, until it is gone;
- `CascadeIsCompleteAlways`: from `DeleteInv` for the command itself. That it can be repeated rests on
  `RepeatInv`: as a registry goes before the cluster that leads to it (`RegistriesFirst`), what any
  of the commands owes and is still there can still be found by another. `OwedKept` is the critical
  lemma: the first of a list is no cluster that leads to a registry still there. From it
  `SupersedeInv`: a command that nobody has disturbed owes all that is left of what the
  earlier ones did. `PortsDiffer` (no two registries have one port) makes the registry that a
  cluster leads to unique.

**`DesktopSettingsProofs`** is about every set of processes, every request of the types of
`RequestsAssumption` (any key with any new value), and every Docker Desktop of `WorldsAssumption`
with any limit (`MaxCPUsAssumption`). It first proves what the operators on trees do: prefixes of
paths (`PathsApart`), what is found in a tree that a node was put into, what `SettingsForWrite` sends
for a plain value, a struct with a lock and a document with locks (`HeldIsAccepted`), all for both
endpoints and both protocols.

- `TypeCorrect`: from `TypeInv`, which adds the types of what a process has in mind, that a
  call that tries an endpoint has one left, and that a body is a tree. The lemma that it needs is
  that what an endpoint stores (`Stored`) is a value for each setting, whatever the body;
- `RestartTakesEffectAlways`: from `EffectInv`. Once a `Restart` that is alone has written and slept, the
  engine is down or runs with what is stored: the sleep is what keeps the poll from
  finding the old engine;
- `SomeSetSurvivesAlways`: from `SurvivalInv`. `SomeSetSurvives` speaks of the moment when all are through,
  and is not inductive. The invariant says that as long as no request has failed one of the commands
  whose settings were accepted finds what it asked for stored (`OneIsContent`), and that what a command
  is about to write has what it asked for, to whichever endpoint it goes (`Ready`, `Delivers`): a write
  may undo the one before, but then its own command is the content one. A command
  that writes nothing has found stored what it asks for, at that moment (`RestartOutcome`, `SetOutcome`);
- `DoesWhatIsAskedAlways` and `AloneSucceedsAlways`: from `AloneInv`. Both properties speak of the step in
  which a command ends. Of a command that is alone the invariant says that it finds the settings as
  they were at its start until its own write has been accepted (`Settled`), and of a body it is about to
  write (`Prepared`) two things: every endpoint that can read the body takes from it what was
  asked for and what was there before for the rest (`Taken`, `Aim`), and the endpoint that
  will be asked can read it. The critical lemmas are that a body is right for both endpoints
  whichever of them the settings came from (`TellsIsTaken`), that what is printed is what is stored
  (`ShownIsStored`), that a body for the
  endpoint it came from is in a format which that one reads (`TellsIsReadable`), and what `applySet`
  does for any key, be it a setting, its `value` or `json`, a lock, a limit, or none of these
  (`SetTells`, `OutcomeTells`). `Expected` therefore knows a setting by each of its keys (`KeysOf`):
  `vm.resources.cpus.value` reaches the CPUs of an endpoint that answers with a map.
  `AloneSucceedsAlways` has no condition on the key: of one that cannot be set it says that the
  command fails at its `Read`.

**`RemoteDockerProofs`** proves both safety properties of `RemoteDocker`, for every set of processes,
clusters, requests and machines of the types that `RemoteAssumption` gives. The machine may have any socats, of
ctlptl or not, as long as no two hold one port, and the service container in any state.

- `TypeCorrect`: from `BaseInv`, which adds to the types the places that a worker can get to (`Fits`): each
  request but a list has one worker, on the cluster it is about, and whoever is past the first test of
  the forwarder has a port to connect to. For the calls of `dctr.Run` it has one lemma per action of `DctrRun`;
- `AloneSucceedsAlways`: from `Orderly` and `AloneInv`, both about the time in which nothing goes wrong
  (`Calm`). `AloneSucceeds` speaks of the step in which a command ends. The search for a socat goes
  by its command line, so that what it finds may have been killed, forked, or started and not yet be listening.
  `Orderly` says of all socats, whoever has started them, that they are ctlptl's and start or listen, and
  that one that starts has a listener on its port, or is awaited by the worker that has started it. A command
  that is alone awaits none while it searches, so what it finds does listen. `AloneInv` says where such a
  command is: the others rest (`Quiet`), the service runs or is about to (`Connects`, `Serves`), and the part of
  its work that is done has stayed so (`Rest`): the tunnel, the contexts, the cluster, and the network and the
  address of the cluster inside a container.

Only model-checked: `SettlesUp`, `EveryCallReturns` and `TunnelSettles`, as liveness under fairness
is out of the prover's reach. Every other property of a passing run is a theorem. The four
violations are facts of one instance each, which TLC shows.

## 5. Not modelled

The command line, analytics and docs; the process runner, every call of which is a step
of the module that makes it; printing, and the table that `get` prints of all resources;
opening files and URLs and parsing YAML (a file is a sequence of resources, and one
that is neither cluster nor registry fails it all); the parsing of image references;
generated code. Of minikube, the extra flags and the CPUs of a profile. Whether the
daemon is a local Docker Desktop is a fact of the world, not computed from strings. In
`Cluster` and `Commands` the registry is its port: what a registry `Apply` does to keep it is
`Registry`. In `Cluster` a kind or k3d config is one value; the versions of their formats are
in `Admin`.

## 6. Plan

1. All modules: modelled and checked, and all their safety and action properties proved.
2. Next, an abstract registry (a spec and a port) that `Registry` implements and that `Cluster` and
   `Commands` use.
