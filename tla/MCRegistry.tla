------------------------------ MODULE MCRegistry ------------------------------
(***************************************************************************)
(* Instances of Registry for TLC.                                          *)
(***************************************************************************)
EXTENDS Registry, TLC

CONSTANTS p1, p2, n1, n2, n3

Mirror == "mirror"
Quiet == "quiet"

\* The default image and Quiet bring no environment of their own, Mirror does.
MCImageEnv == DefaultRegistryImageRef :> {} @@ Quiet :> {} @@ Mirror :> {<<"MODE", "mirror">>}

K3d == <<"app", "k3d">>
K3dRole == <<"k3d.role", "registry">>
Desktop == <<DesktopKey, "x">>
DeleteDisabled == <<DeleteEnabled[1], "false">>
Proxy == <<"REGISTRY_PROXY_REMOTEURL", "hub">>

Config(image, port, addr, labels, env) ==
  [image |-> image, port |-> port, addr |-> addr, labels |-> labels, env |-> env]

SpecOf(name, port, addr, image, labels, env) ==
  [name |-> name, port |-> port, addr |-> addr, image |-> image, labels |-> labels, env |-> env]

\* A registry that somebody else made without a port.
Unpublished == Config(DefaultRegistryImageRef, 0, Unset, {RoleLabel}, {DeleteEnabled})

\* Every configuration that the specs below can produce from one another, and
\* that others may make with the labels of Docker Desktop.
AllConfigs ==
  {Unpublished} \cup
  [image: DOMAIN MCImageEnv, port: {1, 2}, addr: {"127.0.0.1", "0.0.0.0"},
   labels: {{}, {RoleLabel}, {RoleLabel, K3d}, {RoleLabel, K3d, K3dRole}, {RoleLabel, Desktop},
            {RoleLabel, K3d, Desktop}},
   env: {{DeleteEnabled}, {DeleteDisabled}, {DeleteEnabled, Proxy}}]

AllNames == {n1, n2, n3}
TwoCalls == {p1, p2}
FaultyOnly == {n2}
OnlyPort == {2}

-------------------------------------------------------------------------------
\* On n3, one call by itself, every kind of it, over every registry it may find.

ApplyRequests ==
  {[kind |-> "apply", spec |-> SpecOf(n3, port, a, i, l, e)] :
     port \in {0, 2}, a \in {"", "0.0.0.0"}, i \in {"", Mirror},
     l \in {{}, {K3d}, {Desktop}}, e \in {{}, {DeleteDisabled}, {Proxy}}}

SoloRequests ==
  ApplyRequests \cup
  {[kind |-> "ensure", spec |-> EnsureSpec(n3, k3d)] : k3d \in BOOLEAN} \cup
  {[kind |-> k, spec |-> SpecOf(n3, port, "", "", {}, {})] : k \in {"create", "delete"}, port \in {0, 2}} \cup
  {[kind |-> "apply", spec |-> SpecOf(n3, 0, InvalidIP, "", l, {})] : l \in {{}, {K3d}}}

\* The only container there is.
Only(n, c) == [m \in Names |-> IF m = n THEN c ELSE Gone]

\* What may have the name already: a registry that ctlptl made, or a container
\* that somebody else made of a registry image.
SoloTables ==
  {Only(n3, c) : c \in {Gone} \cup
     {[state |-> s, by |-> Daemon, config |-> Config(i, 1, "127.0.0.1", l, e)] :
        s \in {"running", "exited"},
        i \in {DefaultRegistryImageRef, Quiet, Mirror},
        l \in {{}, {RoleLabel}, {RoleLabel, K3d, Desktop}},
        e \in {{DeleteEnabled}, {DeleteEnabled, Proxy}}} \cup
     {[state |-> s, by |-> Daemon, config |-> Unpublished] : s \in {"running", "exited"}}}

SoloStart ==
  ctr \in SoloTables /\ req \in {[p \in Calls |-> r] : r \in SoloRequests}

-------------------------------------------------------------------------------
\* Two processes at once: on n1, or on n1 and n2, which share
\* the host's ports and appear in each other's lists.

Plain(n) == SpecOf(n, 0, "", "", {}, {})
WithPort(n) == SpecOf(n, 2, "", "", {}, {})

Asked(kinds, specs) == {[kind |-> k, spec |-> s] : k \in kinds, s \in specs}

RaceRequests ==
  Asked({"apply"}, {Plain(n1), WithPort(n1), WithPort(n2)})
  \cup Asked({"create"}, {WithPort(n1)}) \cup Asked({"delete"}, {Plain(n2)})

Default(port) == Config(DefaultRegistryImageRef, port, "127.0.0.1", {RoleLabel}, {DeleteEnabled})

InState(state, port) == [state |-> state, by |-> Daemon, config |-> Default(port)]

Foreign == [state |-> "running", by |-> Daemon, config |-> Config(Quiet, 1, "127.0.0.1", {}, {DeleteEnabled})]

\* Nothing has the name, a registry that runs or has died, or a container that
\* is none.
NobodyBeside == {Only(n1, c) : c \in {Gone, InState("running", 1), InState("exited", 1), Foreign}}

Neighbours ==
  {[Only(n2, InState("running", 1)) EXCEPT ![n1] = InState("exited", 1)], Only(n2, InState("running", 2))}

RaceTables == NobodyBeside \cup Neighbours

\* The first process works on n1, the second on n1 or beside it.
RaceStart ==
  /\ ctr \in RaceTables
  /\ req \in [Calls -> RaceRequests]
  /\ Target(p1) = n1
  /\ \/ Target(p2) = n1 /\ ctr \in NobodyBeside
     \/ Target(p2) = n2 /\ req[p1] = [kind |-> "apply", spec |-> Plain(n1)]

-------------------------------------------------------------------------------
\* On n2, one process after another, over every fault: the second finds
\* what the first left when it failed or was killed.

RetryRequests ==
  Asked({"apply"}, {Plain(n2), WithPort(n2), SpecOf(n2, 0, "", Quiet, {}, {}), SpecOf(n2, 2, "", "", {K3d}, {})})
  \cup Asked({"create", "delete"}, {Plain(n2)})

RetryTables ==
  {Only(n2, c) : c \in {Gone} \cup
     {[state |-> s, by |-> Daemon, config |-> Config(i, 1, "127.0.0.1", {RoleLabel, K3d}, {DeleteEnabled})] :
        s \in {"running", "exited"}, i \in {DefaultRegistryImageRef, Quiet}}}

RetryStart == ctr \in RetryTables /\ req \in [Calls -> RetryRequests]

-------------------------------------------------------------------------------

AllRequests == SoloRequests \cup RetryRequests \cup RaceRequests
AllTables == SoloTables \cup RetryTables \cup RaceTables

MCInit == (SoloStart \/ RetryStart \/ RaceStart) /\ Init
MCSpec == MCInit /\ [][Next]_vars

\* An action constraint: on n3 there is one call, on n2 one after another.
Turns ==
  \A p, q \in Calls :
    p # q /\ at[p] = "idle" /\ at'[p] # "idle" /\ Target(p) = Target(q)
      => (Target(p) = n3 => at[q] = "idle") /\ (Target(p) = n2 => at[q] \notin InFlight)

\* The processes are interchangeable: which of them works where makes no difference.
Symmetry == Permutations(Calls)

==============================================================================
