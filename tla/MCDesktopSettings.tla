-------------------------- MODULE MCDesktopSettings ---------------------------
(***************************************************************************)
(* Instances of DesktopSettings for TLC.                                   *)
(***************************************************************************)
EXTENDS DesktopSettings

CONSTANTS p1, p2

TwoProcs == {p1, p2}
First == {p1}
Nobody == {}

Asked(op) ==
  [op |-> op, key |-> <<>>, new |-> Null, product |-> "", cpus |-> 0, registry |-> FALSE]

SetTo(key, new) == [Asked("set") EXCEPT !.key = key, !.new = new]

Restarts(product, n) == [Asked("restart") EXCEPT !.product = product, !.cpus = n]

\* Settings of every type and shape, and keys and values that do not go.
SetRequests ==
  {SetTo(PathOf("k8s"), Leaf("bool", 1)), SetTo(PathOf("k8s"), Leaf("number", 3)),
   SetTo(PathOf("cpus"), Leaf("number", 3)), SetTo(PathOf("cpus"), Leaf("number", 5)),
   SetTo(PathOf("share"), Leaf("text", 7)), SetTo(PathOf("daemon"), Leaf("text", 7)),
   SetTo(PathOf("dns"), Leaf("text", 7)), SetTo(<<"vm">>, Leaf("text", 7)),
   SetTo(<<"vm", "kubernetes">>, Leaf("bool", 1)),
   SetTo(<<"vm", "resources", "cpus", "value", "more">>, Leaf("number", 3)),
   SetTo(<<"vm", "resources", "cpus", "value">>, Leaf("number", 3)),
   SetTo(<<"vm", "resources", "cpus", "max">>, Leaf("number", 3)),
   SetTo(<<"vm", "fileSharing", "value">>, Leaf("text", 7)),
   SetTo(PathOf("daemon"), Leaf("number", 3)), SetTo(PathOf("dns"), Leaf("bool", 1)),
   SetTo(<<"vm", "daemon", "json">>, Leaf("text", 7)), SetTo(<<"vm", "daemon", "value">>, Leaf("text", 7)),
   SetTo(<<"vm", "network", "dns", "locked">>, Leaf("bool", 1)),
   SetTo(<<"kubernetes", "enabled">>, Leaf("bool", 0))}

OtherRequests ==
  {Asked(op) : op \in {"show", "disable", "create", "reset", "ensure", "open", "quit"}}
  \cup {[Asked("create") EXCEPT !.registry = TRUE]}
  \cup {Restarts(product, n) : product \in {"docker-desktop", "kind"}, n \in {0, 3, 5}}
  \cup {Restarts("minikube", 3)}

AllRequests == SetRequests \cup OtherRequests

\* What goes on beside each other.
Rivals ==
  {SetTo(PathOf("cpus"), Leaf("number", 3)), SetTo(PathOf("share"), Leaf("text", 7)),
   Restarts("docker-desktop", 3), Asked("disable")}

Before(k8s, dns) ==
  [s \in Settings |-> CASE s = "k8s" -> k8s [] s = "cpus" -> 2 [] s = "share" -> 5 [] s = "daemon" -> 6 [] OTHER -> dns]

World(k8s, dns, endpoints, open, local, starts) ==
  [settings |-> Before(k8s, dns), effective |-> Before(k8s, dns), serves |-> endpoints,
   open |-> open, engine |-> open, local |-> local, starts |-> starts, cluster |-> "used"]

MCWorlds ==
  {World(k8s, dns, endpoints, TRUE, TRUE, TRUE) :
     k8s \in {0, 1}, dns \in {0, 9}, endpoints \in {{"native"}, {"backend"}, {"native", "backend"}}}
  \cup {World(0, 0, {}, TRUE, TRUE, TRUE), World(0, 0, {"backend"}, FALSE, TRUE, TRUE),
        World(0, 0, {"backend"}, FALSE, TRUE, FALSE), World(0, 0, {"backend"}, TRUE, TRUE, FALSE),
        World(0, 0, {"backend"}, TRUE, FALSE, TRUE), World(0, 0, {"backend"}, FALSE, FALSE, TRUE)}

\* What the rivals find: an old Docker Desktop and a newer one.
RivalWorlds ==
  {World(0, 0, endpoints, TRUE, TRUE, TRUE) : endpoints \in {{"native"}, {"native", "backend"}}}

\* Any request by itself, or two of the rivals.
MCInit ==
  /\ Init
  /\ req[p2] \in Rivals \cup {Asked("show")}
  /\ req[p2] \in Rivals => req[p1] \in Rivals /\ desktop \in RivalWorlds

MCSpec == MCInit /\ [][Next]_vars /\ Fairness

\* An action constraint: the second process has begun only as a rival.
RivalsOnly == at'[p2] # "idle" => req[p2] \in Rivals

==============================================================================
