------------------------------- MODULE Registry -------------------------------
(***************************************************************************)
(* pkg/registry/registry.go: the controller that reconciles a registry     *)
(* container with the spec it is given, as ctlptl apply, create registry    *)
(* and delete registry, and the cluster controller, call it. Several       *)
(* processes call it at once on one Docker daemon, and each can be killed   *)
(* between two requests: there is no lock, and what a call remembers of a   *)
(* container it deleted is only in its memory.                             *)
(*                                                                         *)
(* A call is a sequence of daemon requests. The part of it that is          *)
(* dctr.Run is the module DctrRun, on the same daemon.                     *)
(***************************************************************************)
EXTENDS Docker

CONSTANTS
  Requests,  \* what a call may be asked: records of kind and spec
  ImageEnv,  \* the environment each image comes with, PATH left out
  FreePorts, \* the host ports GetFreePort picks from
  Tables,    \* the containers the daemon may have before any call
  Faulty     \* bound: the names where requests fail and outsiders interfere

Kinds == {"apply", "create", "delete", "ensure"}

\* A container that somebody else made has a configuration, as one that ctlptl
\* makes, and two that run do not share a port.
ASSUME RegistryAssumption ==
  /\ \A r \in Requests : r.kind \in Kinds /\ r.spec.name \in Names
  /\ \A table \in Tables :
       /\ table \in [Names -> Container]
       /\ \A n \in Names :
            /\ table[n].by = Daemon
            /\ Exists(table[n]) => table[n].config \in Configs
            /\ Running(table[n]) => ~PortTaken(table, n, table[n].config)

VARIABLES
  ctr, images, run, arg, disturbed,  \* as in DctrRun
  req,    \* what each call was asked
  at,     \* where each call is
  mem,    \* what each call under way remembers
  alone   \* history: nobody else has done anything since the call began, and
          \* none of its own requests has failed

daemon == <<ctr, images, disturbed>>
vars == <<daemon, run, arg, req, at, mem, alone>>

Run == INSTANCE DctrRun

-------------------------------------------------------------------------------
(***************************************************************************)
(* Data. Labels and environments are maps, as sets of <<key, value>>.       *)
(* What a spec leaves open is Unset, a port 0.                             *)
(***************************************************************************)

Unset == ""

Keys(m) == {pair[1] : pair \in m}

Override(old, new) == new \cup {pair \in old : pair[1] \notin Keys(new)}

DefaultRegistryImageRef == "docker.io/library/registry:2"

RoleLabel == <<"dev.tilt.ctlptl.role", "registry">>

DeleteEnabled == <<"REGISTRY_STORAGE_DELETE_ENABLED", "true">>

DesktopKey == "desktop.docker.io"

\* What tells a registry from other containers.
Marked(config) == RoleLabel \in config.labels \/ config.image = DefaultRegistryImageRef

\* The environment of a running container: its image's, under its own.
EnvOf(c) == Override(ImageEnv[c.config.image], c.config.env)

\* What String makes of an address that is none, as an IP has it that is not set.
InvalidIP == "invalid IP"

\* The address that the registry's port has in the daemon's summary of a container.
AddrOf(config) == IF config.port = 0 THEN InvalidIP ELSE config.addr

\* A registry as Get reports it. listed is whether the summary has port 5000 at all.
Summary(n, listed) ==
  LET c == ctr[n] IN
  [name   |-> n,
   by     |-> c.by,
   state  |-> c.state,
   image  |-> c.config.image,
   labels |-> c.config.labels,
   env    |-> {},
   port   |-> IF listed THEN c.config.port ELSE 0,
   addr   |-> IF listed THEN AddrOf(c.config) ELSE Unset]

NoRegistry ==
  [name |-> Unset, by |-> Daemon, state |-> "absent", image |-> Unset, labels |-> {}, env |-> {},
   port |-> 0, addr |-> Unset]

Found(r) == r # NoRegistry

\* The environment asked for, with the default FillDefaults leaves to Apply.
DesiredEnv(spec) ==
  IF DeleteEnabled[1] \in Keys(spec.env) THEN spec.env ELSE spec.env \cup {DeleteEnabled}

\* What a cluster asks of the registry it names.
EnsureSpec(name, k3d) ==
  [name |-> name, port |-> 0, addr |-> Unset, image |-> Unset, env |-> {},
   labels |-> IF k3d THEN {<<"app", "k3d">>, <<"k3d.role", "registry">>} ELSE {}]

\* Mutant: Apply compares no ports.
AnyPortDoes(old, spec) == FALSE

PortDiffers(old, spec) == old.port # 0 /\ spec.port # 0 /\ old.port # spec.port

ImageDiffers(old, spec) == old.image # Unset /\ spec.image # Unset /\ old.image # spec.image

\* Mutant: a container that is there is good enough.
NeverDies(old) == FALSE

Died(old) == old.state # "running"

LabelMissing(old, spec) == ~(spec.labels \subseteq old.labels)

\* Mutant: the environments are compared before the default is filled in.
EnvDiffersEarly(old, spec) == spec.env # old.env

EnvDiffers(old, spec) == DesiredEnv(spec) # old.env

\* The container has to go before the spec can hold.
NeedsDelete(old, spec) ==
  \/ PortDiffers(old, spec) \/ ImageDiffers(old, spec) \/ Died(old)
  \/ LabelMissing(old, spec) \/ EnvDiffers(old, spec)

\* Mutant: the labels of the old container are lost.
NewLabelsOnly(old, spec) == spec.labels \cup {RoleLabel}

LabelConfigs(old, spec) ==
  {l \in Override(Override(old.labels, spec.labels), {RoleLabel}) : l[1] # DesktopKey}

ImageConfig(old, spec) ==
  CASE spec.image # Unset -> spec.image
    [] spec.image = Unset /\ old.image # Unset -> old.image
    [] OTHER -> DefaultRegistryImageRef

\* The ports the container may be given: the one asked for, else the one it
\* had, else any that is free at the moment.
PortConfigs(old, spec) ==
  CASE spec.port # 0 -> {spec.port}
    [] spec.port = 0 /\ old.port # 0 -> {old.port}
    [] OTHER -> {port \in FreePorts : \A n \in Names : Running(ctr[n]) => ctr[n].config.port # port}

\* The default is for an address that is not set. One that is invalid is taken over.
AddrConfig(old, spec) ==
  CASE spec.addr # Unset -> spec.addr
    [] spec.addr = Unset /\ old.addr # Unset -> old.addr
    [] OTHER -> "127.0.0.1"

\* The configuration of the new container, from the spec and from what Apply
\* remembers of the old one.
ConfigFor(old, spec, port) ==
  [image  |-> ImageConfig(old, spec),
   port   |-> port,
   addr   |-> AddrConfig(old, spec),
   labels |-> LabelConfigs(old, spec),
   env    |-> DesiredEnv(spec)]

\* The address can be parsed.
Parses(old, spec) == AddrConfig(old, spec) # InvalidIP

\* What ConfigFor reads of a registry with this configuration, whose address is
\* known if its ports were in the summary.
Described(config) ==
  {[image |-> config.image, labels |-> config.labels, addr |-> addr] : addr \in {Unset, AddrOf(config)}}

\* The configurations are those of containers, whose image has a name and whose
\* address is one, and all that Configure can make of them.
ASSUME ConfigsAssumption ==
  /\ Configs # {}
  /\ \A config \in Configs : config.image # Unset /\ config.addr # InvalidIP
  /\ \A r \in Requests : \A port \in FreePorts \cup ({r.spec.port} \ {0}) :
       Parses(NoRegistry, r.spec) => ConfigFor(NoRegistry, r.spec, port) \in Configs
  /\ \A r \in Requests : \A config \in {c \in Configs : Marked(c)} :
       \A old \in Described(config), port \in FreePorts \cup ({r.spec.port, config.port} \ {0}) :
         Parses(old, r.spec) => ConfigFor(old, r.spec, port) \in Configs

-------------------------------------------------------------------------------

Target(p) == req[p].spec.name

\* The places where a call is in a Get, by what the Get is for. A call over ends
\* as the code has it, in success or failure, or by a fault.
Getting == {"check", "apply", "delete", "confirm"}
InFlight == Getting \cup {"rm", "clear", "clearrm", "configure", "run"}
Over == {"done", "failed", "broken"}

Goto(p, place) == at' = [at EXCEPT ![p] = place]

\* A call's memory: the Get under way, as the step it is at, the containers
\* listed and not yet inspected, and the registry found; the registry that Apply
\* set out from; the id of the container to remove; and, as history, the
\* container that had the name when the call began.
Blank ==
  [step |-> "role", seen |-> {}, found |-> NoRegistry, existing |-> NoRegistry,
   victim |-> Daemon, before |-> Gone]

StartGet(p, place) ==
  /\ Goto(p, place)
  /\ mem' = [mem EXCEPT ![p].step = "role", ![p].found = NoRegistry]

\* The call is over, and its memory gone.
Return(p, result) == Goto(p, result) /\ mem' = [mem EXCEPT ![p] = Blank]

\* The Get under way has inspected all it listed.
Got(p, place) == at[p] = place /\ mem[p].step = "inspect" /\ mem[p].seen = {}

\* A call that is not in dctr.Run has no frame there.
AnyConfig == CHOOSE c \in Configs : TRUE
NoArg(p) == [name |-> Target(p), config |-> AnyConfig]

LeaveRun(p) == run' = [run EXCEPT ![p] = "idle"] /\ arg' = [arg EXCEPT ![p] = NoArg(p)]

IsRegistry(c) == Exists(c) /\ Marked(c.config)

\* The summaries the daemon may give of the names found. They have every port that is
\* published. Those of a container that does not run, or that has an image expose
\* a port that nothing publishes, they may have or not.
Publishes(c) == Running(c) /\ c.config.port # 0

Summaries(found) ==
  {{Summary(n, listed[n]) : n \in found} :
     listed \in {f \in [found -> BOOLEAN] : \A n \in found : Publishes(ctr[n]) => f[n]}}

Init ==
  /\ ctr \in Tables
  /\ images = {c.image : c \in Configs}
  /\ disturbed = {}
  /\ req \in [Calls -> Requests]
  /\ run = [p \in Calls |-> "idle"]
  /\ arg = [p \in Calls |-> NoArg(p)]
  /\ at = [p \in Calls |-> "idle"]
  /\ mem = [p \in Calls |-> Blank]
  /\ alone = [p \in Calls |-> TRUE]

-------------------------------------------------------------------------------
(***************************************************************************)
(* List and Get.                                                           *)
(***************************************************************************)

\* The first ContainerList: containers with the role label.
ListByRole(p) ==
  /\ at[p] \in Getting /\ mem[p].step = "role"
  /\ \E listed \in Summaries({n \in Names : Exists(ctr[n]) /\ RoleLabel \in ctr[n].config.labels}) :
       mem' = [mem EXCEPT ![p].step = "ancestor", ![p].seen = listed]
  /\ UNCHANGED <<daemon, run, arg, req, at>>

SameContainer(r, s) == r.name = s.name /\ r.by = s.by

\* The second: containers of the default image. One listed twice counts once,
\* as the second list has it.
ListByAncestor(p) ==
  /\ at[p] \in Getting /\ mem[p].step = "ancestor"
  /\ \E listed \in Summaries({n \in Names : Exists(ctr[n]) /\ ctr[n].config.image = DefaultRegistryImageRef}) :
       LET others == {r \in mem[p].seen : \A s \in listed : ~SameContainer(r, s)} IN
       mem' = [mem EXCEPT ![p].step = "inspect", ![p].seen = others \cup listed]
  /\ UNCHANGED <<daemon, run, arg, req, at>>

\* The container that r describes still exists: requests by id reach no other.
Stands(r) == Exists(ctr[r.name]) /\ ctr[r.name].by = r.by

\* Every container listed is inspected by id, whatever its name, and one that is
\* gone by then fails the whole Get.
InspectListed(p) ==
  /\ at[p] \in Getting /\ mem[p].step = "inspect"
  /\ \E r \in mem[p].seen :
       \/ /\ Stands(r)
          /\ mem' = [mem EXCEPT ![p].seen = @ \ {r},
                               ![p].found = IF r.name = Target(p)
                                              THEN [r EXCEPT !.env = EnvOf(ctr[r.name])]
                                              ELSE @]
          /\ UNCHANGED at
       \/ ~Stands(r) /\ Return(p, "failed")
  /\ UNCHANGED <<daemon, run, arg, req>>

-------------------------------------------------------------------------------
(***************************************************************************)
(* Apply, Delete, and the create command around Apply.                     *)
(***************************************************************************)

Begin(p) ==
  /\ at[p] = "idle"
  /\ Goto(p, CASE req[p].kind = "create" -> "check"
               [] req[p].kind = "delete" -> "delete"
               [] OTHER                  -> "apply")
  /\ mem' = [mem EXCEPT ![p].before = ctr[Target(p)]]
  /\ UNCHANGED <<daemon, run, arg, req>>

\* Mutant: create goes on to Apply whatever is there.
CheckNothing(p) ==
  /\ Got(p, "check")
  /\ StartGet(p, "apply")
  /\ UNCHANGED <<daemon, run, arg, req>>

\* ctlptl create registry stops at a registry that exists, and applies its spec
\* otherwise.
CheckNew(p) ==
  /\ Got(p, "check")
  /\ \/ Found(mem[p].found) /\ Return(p, "failed")
     \/ ~Found(mem[p].found) /\ StartGet(p, "apply")
  /\ UNCHANGED <<daemon, run, arg, req>>

\* Apply compares what it found with the spec: to be created, to be deleted
\* first, or up to date. The Get inside Delete follows at once.
Decide(p) ==
  /\ Got(p, "apply")
  /\ LET old == mem[p].found
         Remember == mem' = [mem EXCEPT ![p].existing = old, ![p].step = "role", ![p].found = NoRegistry]
     IN \/ ~Found(old) /\ Goto(p, "clear") /\ Remember
        \/ Found(old) /\ NeedsDelete(old, req[p].spec) /\ Goto(p, "delete") /\ Remember
        \/ Found(old) /\ ~NeedsDelete(old, req[p].spec) /\ Return(p, "done")
  /\ UNCHANGED <<daemon, run, arg, req>>

\* Mutant: Delete keeps the name, and hands it on as the id.
FindDoomedName(p) ==
  /\ Got(p, "delete")
  /\ \/ /\ Found(mem[p].found)
        /\ Goto(p, "rm")
        /\ mem' = [mem EXCEPT ![p].victim = mem[p].found.name]
     \/ ~Found(mem[p].found) /\ Return(p, "failed")
  /\ UNCHANGED <<daemon, run, arg, req>>

\* Mutant: Delete refuses a registry that does not run.
FindDoomedRunning(p) ==
  /\ Got(p, "delete")
  /\ \/ /\ mem[p].found.state = "running"
        /\ Goto(p, "rm")
        /\ mem' = [mem EXCEPT ![p].victim = mem[p].found.by]
     \/ mem[p].found.state # "running" /\ Return(p, "failed")
  /\ UNCHANGED <<daemon, run, arg, req>>

\* Delete looks the registry up, to have its container id.
FindDoomed(p) ==
  /\ Got(p, "delete")
  /\ \/ /\ Found(mem[p].found)
        /\ Goto(p, "rm")
        /\ mem' = [mem EXCEPT ![p].victim = mem[p].found.by]
     \/ ~Found(mem[p].found) /\ Return(p, "failed")
  /\ UNCHANGED <<daemon, run, arg, req>>

\* ContainerRemove by id, which fails for a container that is gone.
VictimStands(p) == Exists(ctr[Target(p)]) /\ ctr[Target(p)].by = mem[p].victim

RemoveVictim(p) == VictimStands(p) /\ ctr' = [ctr EXCEPT ![Target(p)] = Gone]

Delete(p) ==
  /\ at[p] = "rm"
  /\ \/ RemoveVictim(p) /\ req[p].kind = "delete" /\ Return(p, "done")
     \/ RemoveVictim(p) /\ req[p].kind # "delete" /\ Goto(p, "clear") /\ UNCHANGED mem
     \/ ~VictimStands(p) /\ UNCHANGED ctr /\ Return(p, "failed")
  /\ UNCHANGED <<images, disturbed, run, arg, req>>

\* dctr.RemoveIfNecessary: whatever container has the name goes, a registry or
\* not, the one another call has just started included.
InspectLeftover(p) ==
  /\ at[p] = "clear"
  /\ LET c == ctr[Target(p)] IN
     \/ Exists(c) /\ Goto(p, "clearrm") /\ mem' = [mem EXCEPT ![p].victim = c.by]
     \/ ~Exists(c) /\ Goto(p, "configure") /\ UNCHANGED mem
  /\ UNCHANGED <<daemon, run, arg, req>>

RemoveLeftover(p) ==
  /\ at[p] = "clearrm"
  /\ \/ RemoveVictim(p) /\ Goto(p, "configure") /\ UNCHANGED mem
     \/ ~VictimStands(p) /\ UNCHANGED ctr /\ Return(p, "failed")
  /\ UNCHANGED <<images, disturbed, run, arg, req>>

\* Nothing can be configured without a port or an address. The old container is gone
\* by now.
Configure(p) ==
  /\ at[p] = "configure"
  /\ LET old == mem[p].existing
         ports == IF Parses(old, req[p].spec) THEN PortConfigs(old, req[p].spec) ELSE {}
     IN \/ \E port \in ports :
             /\ Goto(p, "run")
             /\ arg' = [arg EXCEPT ![p].config = ConfigFor(old, req[p].spec, port)]
             /\ run' = [run EXCEPT ![p] = "inspect"]
             /\ UNCHANGED <<disturbed, mem>>
        \/ /\ ports = {}
           /\ Return(p, "failed")
           /\ disturbed' = disturbed \cup {Target(p)}
           /\ UNCHANGED <<run, arg>>
  /\ UNCHANGED <<ctr, images, req>>

\* dctr.Run, one request at a time.
RunStep(p) ==
  /\ at[p] = "run"
  /\ Run!Step(p)
  /\ UNCHANGED <<req, at, mem>>

\* The container starts, and the answer does not come.
RunUnanswered(p) ==
  /\ at[p] = "run"
  /\ Target(p) \in Faulty
  /\ Run!StartUnanswered(p)
  /\ UNCHANGED <<req, at, mem>>

RunReturned(p) ==
  /\ at[p] = "run"
  /\ \/ run[p] = "ok" /\ StartGet(p, "confirm")
     \/ run[p] = "err" /\ Return(p, "failed")
  /\ LeaveRun(p)
  /\ UNCHANGED <<daemon, req>>

\* Apply answers with the registry as it is read back.
Confirm(p) ==
  /\ Got(p, "confirm")
  /\ \/ Found(mem[p].found) /\ Return(p, "done")
     \/ ~Found(mem[p].found) /\ Return(p, "failed")
  /\ UNCHANGED <<daemon, run, arg, req>>

-------------------------------------------------------------------------------

\* A request fails, its context is cancelled, or the process is killed.
Fail(p) ==
  /\ at[p] \in InFlight
  /\ Target(p) \in Faulty
  /\ Return(p, "broken")
  /\ LeaveRun(p)
  /\ disturbed' = disturbed \cup {Target(p)}
  /\ UNCHANGED <<ctr, images, req>>

\* A container exits, or is stopped or started by somebody else.
Meddle(n) ==
  /\ n \in Faulty
  /\ Run!Stop(n) \/ Run!Restart(n)
  /\ UNCHANGED <<req, at, mem>>

Step(p) ==
  \/ Begin(p)
  \/ ListByRole(p) \/ ListByAncestor(p) \/ InspectListed(p)
  \/ CheckNew(p) \/ Decide(p) \/ FindDoomed(p) \/ Delete(p)
  \/ InspectLeftover(p) \/ RemoveLeftover(p) \/ Configure(p)
  \/ RunStep(p) \/ RunReturned(p) \/ Confirm(p)

Fault(p) == RunUnanswered(p) \/ Fail(p)

\* After a step of q, no other call under way is alone, and after a fault or a
\* step of an outsider, none is.
Interrupt(q) == alone' = [p \in Calls |-> at'[p] \in InFlight => p = q /\ alone[p]]

Next ==
  \/ \E p \in Calls : (Step(p) /\ Interrupt(p)) \/ (Fault(p) /\ Interrupt(Daemon))
  \/ \E n \in Names : Meddle(n) /\ Interrupt(Daemon)

Spec == Init /\ [][Next]_vars

-------------------------------------------------------------------------------
(***************************************************************************)
(* Properties.                                                             *)
(***************************************************************************)

Registries ==
  [name: Names \cup {Unset}, by: Calls \cup {Daemon}, state: States,
   image: {c.image : c \in Configs} \cup {Unset}, labels: SUBSET UNION {c.labels : c \in Configs},
   env: SUBSET ((UNION {c.env : c \in Configs}) \cup UNION {ImageEnv[c.image] : c \in Configs}),
   port: {c.port : c \in Configs} \cup {0}, addr: {c.addr : c \in Configs} \cup {Unset, InvalidIP}]

Memories ==
  [step: {"role", "ancestor", "inspect"}, seen: SUBSET Registries, found: Registries,
   existing: Registries, victim: Calls \cup {Daemon}, before: Container]

TypeOK ==
  /\ Run!TypeOK
  /\ req \in [Calls -> Requests]
  /\ at \in [Calls -> {"idle"} \cup InFlight \cup Over]
  /\ mem \in [Calls -> Memories]
  /\ alone \in [Calls -> BOOLEAN]

\* The call p ends in this step, and ran by itself from beginning to end.
Ends(p, place) == at[p] # place /\ at'[p] = place /\ alone[p]

Applies(p) == req[p].kind # "delete"

\* The labels the controller does not set by the spec: it strips those of
\* Docker Desktop, and the role is its own.
OwnKeys == {DesktopKey, RoleLabel[1]}

\* The configuration is what the spec asks for. A registry that publishes no
\* port, as others may make one, is not remade to have the port asked for.
Fulfils(config, spec) ==
  /\ spec.port # 0 /\ config.port # 0 => config.port = spec.port
  /\ spec.image # Unset => config.image = spec.image
  /\ {l \in spec.labels : l[1] \notin OwnKeys} \subseteq config.labels
  /\ Override(ImageEnv[config.image], config.env) = Override(ImageEnv[config.image], DesiredEnv(spec))

Satisfies(c, spec) == Running(c) /\ Fulfils(c.config, spec)

(***************************************************************************)
(* An Apply that nobody interferes with and that reports success leaves a   *)
(* running registry with the port, image, labels and environment asked for, *)
(* whatever container it found under the name.                             *)
(***************************************************************************)
AppliedMatches ==
  [][\A p \in Calls : Applies(p) /\ Ends(p, "done") => Satisfies(ctr'[Target(p)], req[p].spec)]_vars

Keeps(old, new, spec) ==
  /\ spec.image = Unset => new.image = old.config.image
  /\ \A l \in old.config.labels : l \in new.labels \/ l[1] \in Keys(spec.labels) \cup OwnKeys
  /\ Publishes(old) =>
       /\ spec.port = 0 => new.port = old.config.port
       /\ spec.addr = Unset /\ old.config.addr # Unset => new.addr = old.config.addr

(***************************************************************************)
(* What the spec leaves open is as it was in the registry found: the image, *)
(* the labels, and, if the registry was running, the port and the address  *)
(* it published, even though the container had to be deleted and made      *)
(* again.                                                                  *)
(***************************************************************************)
PreservesTheRest ==
  [][\A p \in Calls :
       Applies(p) /\ Ends(p, "done") /\ IsRegistry(mem[p].before) =>
         Keeps(mem[p].before, ctr'[Target(p)].config, req[p].spec)]_vars

\* The call p ends well, having begun at a registry that satisfied its spec.
WasUpToDate(p) ==
  /\ Applies(p) /\ Ends(p, "done")
  /\ IsRegistry(mem[p].before) /\ Satisfies(mem[p].before, req[p].spec)

(***************************************************************************)
(* Applying a spec that the registry satisfies already keeps the container, *)
(* and so the images in it. This holds for images without an environment    *)
(* of their own (with one, no spec equals what the container shows), and    *)
(* for specs without labels of Docker Desktop, and without a role.         *)
(***************************************************************************)
UpToDateIsKept ==
  [][\A p \in Calls :
       /\ WasUpToDate(p)
       /\ OwnKeys \cap Keys(req[p].spec.labels) = {}
       /\ ImageEnv[mem[p].before.config.image] = {}
       => ctr'[Target(p)] = mem[p].before]_vars

(***************************************************************************)
(* ctlptl create registry, alone, never touches a registry that exists.     *)
(***************************************************************************)
CreateSparesExisting ==
  [][\A p \in Calls :
       /\ req[p].kind = "create" /\ IsRegistry(mem[p].before)
       /\ at[p] \in InFlight /\ (at'[p] \in InFlight => alone'[p]) /\ alone[p]
       => ctr'[Target(p)] = mem[p].before /\ at'[p] # "done"]_vars

\* The spec of p asks for an address that is none, or for none where the registry
\* that p found, made by somebody else, publishes no port: its address is reported
\* as invalid, and is kept in place of the default.
NoAddress(p) ==
  \/ req[p].spec.addr = InvalidIP
  \/ req[p].spec.addr = Unset /\ IsRegistry(mem[p].before) /\ mem[p].before.config.port = 0

(***************************************************************************)
(* From whatever an earlier call left behind when it failed or was killed,  *)
(* an Apply that nobody interferes with and whose requests are answered     *)
(* succeeds, unless another container has the port, no port is free, or      *)
(* there is no address to listen at (NoAddress).                           *)
(***************************************************************************)
RetrySucceeds ==
  [][\A p \in Calls :
       req[p].kind = "apply" /\ Ends(p, "failed") =>
         \/ at[p] = "configure" /\ (NoAddress(p) \/ PortConfigs(mem[p].existing, req[p].spec) = {})
         \/ at[p] = "run" /\ PortTaken(ctr, Target(p), arg[p].config)]_vars

CallsFor(n) == {p \in Calls : Target(p) = n /\ at[p] # "idle"}

\* All the calls on n have returned, without a fault on the way; none deletes
\* the registry and one at least has succeeded.
Agreed(n) ==
  /\ n \notin disturbed
  /\ \A p \in CallsFor(n) : Applies(p) /\ at[p] \in Over
  /\ \E p \in CallsFor(n) : at[p] = "done"

(***************************************************************************)
(* Processes that apply a registry at once remove each other's containers.  *)
(* When they are through, and one of them reported success, the registry is *)
(* running.                                                                *)
(***************************************************************************)
RegistryUp == \A n \in Names : Agreed(n) => Running(ctr[n])

(***************************************************************************)
(* And if they were all given the same spec, it holds.                     *)
(***************************************************************************)
SameSpecHolds ==
  \A n \in Names : \A p \in CallsFor(n) :
    Agreed(n) /\ (\A q \in CallsFor(n) : req[q].spec = req[p].spec) => Satisfies(ctr[n], req[p].spec)

==============================================================================
