---------------------------- MODULE MCRemoteDocker ----------------------------
(***************************************************************************)
(* Instances of RemoteDocker for TLC.                                      *)
(***************************************************************************)
EXTENDS RemoteDocker

CONSTANTS p1, p2, c1, c2

TwoProcs == {p1, p2}
TwoClusters == {c1, c2}

MCPortOf == [c \in TwoClusters |-> IF c = c1 THEN 1 ELSE 2]
MCServiceConfig == [image |-> "socat", port |-> 0]

Asked(op, c, port) == [op |-> op, cluster |-> c, port |-> port]

\* Of one cluster that there may or may not be, or of the port of one.
MCRequests ==
  {Asked("socat", c1, 1), Asked("registry", c1, 1), Asked("list", c1, 1),
   Asked("get", c1, 1), Asked("apply", c1, 1), Asked("apply", c2, 2)}

Ours(port) == Socat(port, "ours", Before, "listening")

ServiceIn(state) ==
  IF state = "absent" THEN [state |-> state, by |-> Daemon, config |-> NoConfig]
  ELSE [state |-> state, by |-> Daemon, config |-> ServiceConfig]

At1(current, contexts, in) == [current |-> current, contexts |-> contexts, inside |-> in]

World(host, running, k) ==
  [host |-> host, container |-> FALSE, installed |-> TRUE, taken |-> {}, clusters |-> running,
   kube |-> k, attached |-> FALSE, socats |-> {}, service |-> ServiceIn("absent")]

Far == World("ssh://build@far", {c1, c2}, At1(c1, {c1, c2}, {}))
FarOther == [Far EXCEPT !.kube = At1(c2, {c1, c2}, {})]
FarNew == World("ssh://build@far", {c2}, At1(NoCluster, {}, {}))
FarNone == [Far EXCEPT !.kube = At1(NoCluster, {c1}, {})]
Near == World("unix:///var/run/docker.sock", {c1}, At1(c1, {c1}, {}))
In == [Near EXCEPT !.container = TRUE]

\* The daemon is elsewhere: with or without its service, with tunnels, without,
\* with what is left of them, and with something else on the port.
FarWorlds ==
  {[far EXCEPT !.service = ServiceIn(state), !.socats = old] :
     far \in {Far, FarOther, FarNew}, state \in {"absent", "running", "exited"},
     old \in {{}, {Ours(1)}}}
  \cup {[Far EXCEPT !.socats = {Socat(1, cmd, Before, state)}, !.service = ServiceIn("running")] :
          cmd \in {"ours", "other"}, state \in {"listening", "child"}}
  \cup {FarNone, [Far EXCEPT !.taken = {1}], [Far EXCEPT !.installed = FALSE],
          [Far EXCEPT !.installed = FALSE, !.socats = {Ours(1)}]}

NearWorlds ==
  {Near, In, [In EXCEPT !.attached = TRUE],
   [In EXCEPT !.attached = TRUE, !.kube = At1(c1, {c1}, {c1})],
   World("tcp://localhost:2375", {}, At1(NoCluster, {}, {}))}

MCWorlds == FarWorlds \cup NearWorlds

\* What goes on beside a connection to the same port.
Rivals == {Asked("socat", c1, 1), Asked("apply", c1, 1)}

RivalWorlds ==
  {Far, [Far EXCEPT !.service = ServiceIn("running")],
   [Far EXCEPT !.socats = {Socat(1, "other", Before, "listening")}, !.service = ServiceIn("running")]}

\* Any request by itself, or two at once.
MCInit ==
  /\ Init
  /\ req[p2] \in {Asked("socat", c1, 1), Asked("apply", c2, 2)}
  /\ req[p2].op = "socat" => req[p1] \in Rivals /\ world \in RivalWorlds

MCSpec == MCInit /\ [][Next]_vars /\ Fairness

\* An action constraint: the second process begins only as a rival.
RivalsOnly == req[p2].op # "socat" => \A c \in Clusters : job'[<<p2, c>>].at = "idle"

==============================================================================
