---------------------------- MODULE EnsureService -----------------------------
(***************************************************************************)
(* What internal/dctr/run.go: Run promises, whatever it does with           *)
(* containers to keep the promise. Calls ask for named services. A call     *)
(* answers ok only when its service is up; only a pending call, or          *)
(* something outside that marks the service broken, takes a service down;  *)
(* and a call that fails without a fault leaves the service as it is.      *)
(***************************************************************************)
CONSTANTS Names, Calls

VARIABLES
  up,      \* the services that run
  answer,  \* what each call has answered
  target,  \* the service each call is for
  broken   \* the services a fault or an outsider has touched

vars == <<up, answer, target, broken>>

TypeOK ==
  /\ up \subseteq Names
  /\ answer \in [Calls -> {"idle", "pending", "ok", "err"}]
  /\ target \in [Calls -> Names]
  /\ broken \subseteq Names

Init ==
  /\ TypeOK
  /\ answer = [p \in Calls |-> "idle"]
  /\ broken = {}

Pending(p) == answer[p] = "pending"

Reply(p, a) == answer' = [answer EXCEPT ![p] = a]

Begin(p) ==
  /\ answer[p] = "idle"
  /\ Reply(p, "pending")
  /\ UNCHANGED <<up, target, broken>>

\* The service was up, or the call brought it up.
Succeed(p) ==
  /\ Pending(p)
  /\ Reply(p, "ok")
  /\ up' = up \cup {target[p]}
  /\ UNCHANGED <<target, broken>>

\* A pending call clears the name, to start the service afresh.
TakeDown(p) ==
  /\ Pending(p)
  /\ up' = up \ {target[p]}
  /\ UNCHANGED <<answer, target, broken>>

\* The call lost a race: it leaves the service alone.
GiveUp(p) ==
  /\ Pending(p)
  /\ Reply(p, "err")
  /\ UNCHANGED <<up, target, broken>>

\* A fault ends the call, which may have brought the service up.
Break(p) ==
  /\ Pending(p)
  /\ Reply(p, "err")
  /\ up' \in {up, up \cup {target[p]}}
  /\ broken' = broken \cup {target[p]}
  /\ UNCHANGED target

\* An outsider stops or starts the service.
Meddle(n) ==
  /\ up' \in {up \cup {n}, up \ {n}}
  /\ broken' = broken \cup {n}
  /\ UNCHANGED <<answer, target>>

Next ==
  \/ \E p \in Calls : Begin(p) \/ Succeed(p) \/ TakeDown(p) \/ GiveUp(p) \/ Break(p)
  \/ \E n \in Names : Meddle(n)

Spec == Init /\ [][Next]_vars

==============================================================================
