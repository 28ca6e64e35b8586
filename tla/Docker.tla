-------------------------------- MODULE Docker --------------------------------
(***************************************************************************)
(* The container table of one Docker daemon, as the client interface of    *)
(* internal/dctr/run.go uses it. The daemon is not part of the repository:  *)
(* every operator here is external and says only what the code relies on:  *)
(*                                                                         *)
(*  - a name belongs to at most one container, whatever its state;         *)
(*  - a container has an identity of its own, so a request by id does not  *)
(*    reach another container that took the name later;                    *)
(*  - ContainerCreate looks the image up first and then the name, and the   *)
(*    new container is not running until ContainerStart;                   *)
(*  - a container cannot start while its host port is held by another one,  *)
(*    and stays created when that happens.                                 *)
(*                                                                         *)
(* A container is identified by its name and by the call that created it:  *)
(* a call creates at most one.                                             *)
(***************************************************************************)
EXTENDS Integers

CONSTANTS
  Names,    \* container names
  Calls,    \* calls of dctr.Run, each made by one goroutine of one process
  Configs,  \* container configurations: records with at least image and port
  Daemon,   \* the creator of a container that was there before every call
  NoConfig  \* the configuration of no container

ASSUME DockerAssumption == Daemon \notin Calls

States == {"absent", "created", "running", "exited"}

Container == [state: States, by: Calls \cup {Daemon}, config: Configs \cup {NoConfig}]

\* What the table holds for a name that no container has.
Gone == [state |-> "absent", by |-> Daemon, config |-> NoConfig]

Exists(c) == c.state # "absent"
Running(c) == c.state = "running"

\* The host port of config is bound by a running container with another name.
PortTaken(table, name, config) ==
  /\ config.port # 0
  /\ \E m \in Names \ {name} : Running(table[m]) /\ table[m].config.port = config.port

==============================================================================
