---------------------------- MODULE DctrRunProofs -----------------------------
(***************************************************************************)
(* Proofs about DctrRun, for every set of names, of calls and of           *)
(* configurations.                                                         *)
(***************************************************************************)
EXTENDS DctrRun, TLAPS

(***************************************************************************)
(* Types.                                                                  *)
(***************************************************************************)

LEMMA InitTypeOK == Init => TypeOK
BY DEF Init, TypeOK, Container, States

\* Every container an action writes into the table is one.
LEMMA ContainerTypes ==
  /\ Gone \in Container
  /\ TypeOK => \A p \in Calls : NewContainer(p) \in Container
  /\ \A c \in Container, s \in States : [c EXCEPT !.state = s] \in Container
<1>1. Gone \in Container
  BY DEF Gone, Container, States
<1>2. ASSUME NEW p \in Calls, TypeOK PROVE NewContainer(p) \in Container
  BY <1>2 DEF NewContainer, Container, States, TypeOK
<1>3. ASSUME NEW c \in Container, NEW s \in States PROVE [c EXCEPT !.state = s] \in Container
  BY <1>3 DEF Container
<1> QED
  BY <1>1, <1>2, <1>3

\* Setting the state of one container keeps the table's type.
LEMMA SetStateType ==
  ASSUME TypeOK, NEW n \in Names, NEW s \in States
  PROVE  [ctr EXCEPT ![n].state = s] \in [Names -> Container]
BY ContainerTypes DEF TypeOK

LEMMA SetRunningType ==
  ASSUME TypeOK, NEW n \in Names, SetRunning(n)
  PROVE  ctr' \in [Names -> Container]
<1>1. "running" \in States
  BY DEF States
<1> QED
  BY <1>1, SetStateType DEF SetRunning

\* Every call is for a name.
LEMMA TargetType == TypeOK => \A p \in Calls : Target(p) \in Names
BY DEF TypeOK, Target

LEMMA StepTypeOK == TypeOK /\ [Next]_vars => TypeOK'
<1> SUFFICES ASSUME TypeOK, [Next]_vars PROVE TypeOK'
  OBVIOUS
<1> USE DEF Active, Returned, Goto, Disturb, Target
<1>1. ASSUME NEW p \in Calls, Call(p) PROVE TypeOK'
  BY <1>1 DEF Call, TypeOK
<1>2. ASSUME NEW p \in Calls, Inspect(p) PROVE TypeOK'
  <2>1. run' \in [Calls -> {"idle"} \cup Active \cup Returned]
    BY <1>2 DEF Inspect, TypeOK
  <2> QED
    BY <1>2, <2>1 DEF Inspect, TypeOK
<1>3. ASSUME NEW p \in Calls, Remove(p) PROVE TypeOK'
  <2>1. run' \in [Calls -> {"idle"} \cup Active \cup Returned]
    BY <1>3 DEF Remove, TypeOK
  <2>2. ctr' \in [Names -> Container]
    BY <1>3, ContainerTypes DEF Remove, TypeOK
  <2> QED
    BY <1>3, <2>1, <2>2 DEF Remove, TypeOK
<1>4. ASSUME NEW p \in Calls, CreateNamed(p), UNCHANGED <<images, arg>>, disturbed' = disturbed
      PROVE  TypeOK'
  <2>1. run' \in [Calls -> {"idle"} \cup Active \cup Returned]
    BY <1>4 DEF CreateNamed, TypeOK
  <2>2. ctr' \in [Names -> Container]
    BY <1>4, ContainerTypes DEF CreateNamed, TypeOK
  <2> QED
    BY <1>4, <2>1, <2>2 DEF TypeOK
<1>5. ASSUME NEW p \in Calls, Create(p) PROVE TypeOK'
  <2>1. CASE CreateNamed(p)
    BY <1>4, <1>5, <2>1 DEF Create
  <2>2. CASE UNCHANGED ctr /\ Goto(p, "pull")
    BY <1>5, <2>2 DEF Create, TypeOK
  <2> QED
    BY <1>5, <2>1, <2>2 DEF Create
<1>6. ASSUME NEW p \in Calls, Pull(p) PROVE TypeOK'
  BY <1>6 DEF Pull, Images, TypeOK
<1>7. ASSUME NEW p \in Calls, Recreate(p) PROVE TypeOK'
  <2>1. CASE CreateNamed(p) /\ UNCHANGED disturbed
    BY <1>4, <1>7, <2>1 DEF Recreate
  <2>2. CASE UNCHANGED ctr /\ Goto(p, "err") /\ Disturb(Target(p))
    BY <1>7, <2>2 DEF Recreate, TypeOK
  <2> QED
    BY <1>7, <2>1, <2>2 DEF Recreate
<1>8. ASSUME NEW p \in Calls, Start(p) PROVE TypeOK'
  <2>1. run' \in [Calls -> {"idle"} \cup Active \cup Returned]
    BY <1>8 DEF Start, TypeOK
  <2>2. ctr' \in [Names -> Container]
    <3>1. CASE UNCHANGED ctr
      BY <3>1 DEF TypeOK
    <3>2. CASE SetRunning(Target(p))
      BY <3>2, SetRunningType, TargetType
    <3> QED
      BY <1>8, <3>1, <3>2 DEF Start
  <2>3. disturbed' \subseteq Names
    BY <1>8 DEF Start, TypeOK
  <2> QED
    BY <1>8, <2>1, <2>2, <2>3 DEF Start, TypeOK
<1>9. ASSUME NEW p \in Calls, Fail(p) PROVE TypeOK'
  BY <1>9 DEF Fail, TypeOK
<1>10. ASSUME NEW p \in Calls, StartUnanswered(p) PROVE TypeOK'
  <2>1. ctr' \in [Names -> Container]
    BY <1>10, SetRunningType, TargetType DEF StartUnanswered
  <2> QED
    BY <1>10, <2>1 DEF StartUnanswered, TypeOK
<1>11. ASSUME NEW n \in Names, Stop(n) PROVE TypeOK'
  BY <1>11, SetStateType DEF Stop, TypeOK, States
<1>12. ASSUME NEW n \in Names, Restart(n) PROVE TypeOK'
  BY <1>12, SetRunningType DEF Restart, TypeOK
<1>13. CASE UNCHANGED vars
  BY <1>13 DEF vars, TypeOK
<1> QED
  BY <1>1, <1>2, <1>3, <1>5, <1>6, <1>7, <1>8, <1>9, <1>10, <1>11, <1>12, <1>13 DEF Next, Step

\* The variables of dctr.Run's model keep their types.
THEOREM TypeCorrect == Spec => []TypeOK
BY InitTypeOK, StepTypeOK, PTL DEF Spec

-------------------------------------------------------------------------------

(***************************************************************************)
(* The service comes up. The inductive invariant says, of a name that       *)
(* nothing has disturbed:                                                  *)
(*                                                                         *)
(*  - a container made by a call has that call's name, and either it was    *)
(*    not started yet and its maker is about to, or it runs and its maker   *)
(*    has reported success;                                                *)
(*  - while the container that was there before runs, no call has got past  *)
(*    finding it so; and no call that is about to create still has it in    *)
(*    its way, because the call has removed it or never saw it;            *)
(*  - some call carries the name's progress (CarriedBy), or the service is  *)
(*    up already.                                                          *)
(***************************************************************************)

AboutToCreate == {"create", "pull", "recreate"}

MadeByCall(n) == Exists(ctr[n]) /\ ctr[n].by # Daemon

\* A container's maker has got as far as starting it, and made it for this name.
MakerKnown ==
  \A n \in Names : MadeByCall(n) =>
    /\ Target(ctr[n].by) = n
    /\ run[ctr[n].by] \in {"start", "ok", "err"}

MakerStands ==
  \A n \in Names \ disturbed : MadeByCall(n) =>
    \/ ctr[n].state = "created" /\ run[ctr[n].by] = "start"
    \/ ctr[n].state = "running" /\ run[ctr[n].by] = "ok"

OldRunsUntouched ==
  \A n \in Names \ disturbed : Up(n) /\ ctr[n].by = Daemon =>
    \A p \in Calls : Target(p) = n => run[p] \in {"idle", "inspect", "ok"}

OldIsOutOfTheWay ==
  \A n \in Names \ disturbed : Exists(ctr[n]) /\ ctr[n].by = Daemon =>
    \A p \in Calls : Target(p) = n => run[p] \notin AboutToCreate

\* Call p will bring n up, or fail only because another call will.
CarriedBy(n, p) ==
  /\ Target(p) = n
  /\ \/ run[p] \in {"inspect"} \cup AboutToCreate
     \/ run[p] = "remove" /\ Exists(ctr[n])
     \/ run[p] = "start" /\ Exists(ctr[n]) /\ ctr[n].by = p

Carried ==
  \A n \in Names \ disturbed :
    (\E p \in Calls : Made(p, n)) => Up(n) \/ \E p \in Calls : CarriedBy(n, p)

IInv == TypeOK /\ MakerKnown /\ MakerStands /\ OldRunsUntouched /\ OldIsOutOfTheWay /\ Carried

\* What each action does to one name and one call, pointwise.
LEMMA GotoMoves ==
  ASSUME TypeOK, NEW p \in Calls, NEW label, Goto(p, label)
  PROVE  /\ run'[p] = label
         /\ \A q \in Calls : q # p => run'[q] = run[q]
BY DEF TypeOK, Goto

LEMMA ClearMoves ==
  ASSUME TypeOK, NEW n \in Names, NEW c, ctr' = [ctr EXCEPT ![n] = c]
  PROVE  /\ ctr'[n] = c
         /\ \A m \in Names : m # n => ctr'[m] = ctr[m]
BY DEF TypeOK

LEMMA SetRunningMoves ==
  ASSUME TypeOK, NEW n \in Names, SetRunning(n)
  PROVE  /\ ctr'[n].state = "running"
         /\ ctr'[n].by = ctr[n].by
         /\ \A m \in Names : m # n => ctr'[m] = ctr[m]
BY DEF TypeOK, SetRunning, Container

\* The maker of a container is a call.
LEMMA MakerType ==
  TypeOK => \A n \in Names : ctr[n].by \in Calls \cup {Daemon}
BY DEF TypeOK, Container

LEMMA InitIInv == Init => IInv
<1> SUFFICES ASSUME Init PROVE IInv
  OBVIOUS
<1>1. TypeOK
  BY InitTypeOK
<1>2. \A n \in Names : ctr[n].by = Daemon
  BY DEF Init
<1>3. \A p \in Calls : run[p] = "idle"
  BY DEF Init
<1> QED
  BY <1>1, <1>2, <1>3 DEF IInv, MakerKnown, MakerStands, MadeByCall, OldRunsUntouched,
     OldIsOutOfTheWay, AboutToCreate, Carried, Made

\* Actions that only move a call: the containers stay, and so does disturbed.
LEMMA CallIInv == ASSUME IInv, NEW p \in Calls, Call(p) PROVE IInv'
<1> USE DEF IInv
<1>1. TypeOK'
  BY StepTypeOK DEF Next
<1>2. /\ run[p] = "idle" /\ run'[p] = "inspect"
      /\ \A q \in Calls : q # p => run'[q] = run[q]
      /\ \A q \in Calls : Target(q)' = Target(q)
      /\ ctr' = ctr /\ disturbed' = disturbed
  BY GotoMoves DEF Call, Target
<1>3. MakerKnown' /\ MakerStands'
  BY <1>2, MakerType DEF MakerKnown, MakerStands, MadeByCall, Exists
<1>4. OldRunsUntouched' /\ OldIsOutOfTheWay'
  BY <1>2 DEF OldRunsUntouched, OldIsOutOfTheWay, AboutToCreate, Up, Exists, Running
<1>5. Carried'
  BY <1>2 DEF Carried, CarriedBy, Made, Up, Running, Exists, AboutToCreate
<1> QED
  BY <1>1, <1>3, <1>4, <1>5

LEMMA InspectIInv == ASSUME IInv, NEW p \in Calls, Inspect(p) PROVE IInv'
<1> USE DEF IInv
<1>1. TypeOK'
  BY StepTypeOK DEF Next, Step
<1>2. /\ run[p] = "inspect" /\ run'[p] \in {"ok", "create", "remove"}
      /\ run'[p] = "ok" <=> Up(Target(p))
      /\ run'[p] = "create" <=> ~Exists(ctr[Target(p)])
      /\ \A q \in Calls : q # p => run'[q] = run[q]
      /\ \A q \in Calls : Target(q)' = Target(q)
      /\ ctr' = ctr /\ disturbed' = disturbed
  BY GotoMoves DEF Inspect, Target, Up, Running, Exists
<1>3. MakerKnown' /\ MakerStands'
  BY <1>2, MakerType DEF MakerKnown, MakerStands, MadeByCall, Exists
<1>4. OldRunsUntouched' /\ OldIsOutOfTheWay'
  BY <1>2 DEF OldRunsUntouched, OldIsOutOfTheWay, AboutToCreate, Up, Exists, Running
<1>5. Carried'
  BY <1>2 DEF Carried, CarriedBy, Made, Up, Running, Exists, AboutToCreate
<1> QED
  BY <1>1, <1>3, <1>4, <1>5

LEMMA PullIInv == ASSUME IInv, NEW p \in Calls, Pull(p) PROVE IInv'
<1> USE DEF IInv
<1>1. TypeOK'
  BY StepTypeOK DEF Next, Step
<1>2. /\ run[p] = "pull" /\ run'[p] = "recreate"
      /\ \A q \in Calls : q # p => run'[q] = run[q]
      /\ \A q \in Calls : Target(q)' = Target(q)
      /\ ctr' = ctr /\ disturbed' = disturbed
  BY GotoMoves DEF Pull, Target
<1>3. MakerKnown' /\ MakerStands'
  BY <1>2, MakerType DEF MakerKnown, MakerStands, MadeByCall, Exists
<1>4. OldRunsUntouched' /\ OldIsOutOfTheWay'
  BY <1>2 DEF OldRunsUntouched, OldIsOutOfTheWay, AboutToCreate, Up, Exists, Running
<1>5. Carried'
  BY <1>2 DEF Carried, CarriedBy, Made, Up, Running, Exists, AboutToCreate
<1> QED
  BY <1>1, <1>3, <1>4, <1>5

\* A removal that finds nothing: whoever took the container away carries on.
LEMMA RemoveIInv == ASSUME IInv, NEW p \in Calls, Remove(p) PROVE IInv'
<1> USE DEF IInv
<1> DEFINE t == Target(p)
<1>1. TypeOK'
  BY StepTypeOK DEF Next, Step
<1>2. /\ run[p] = "remove" /\ t \in Names
      /\ \A q \in Calls : q # p => run'[q] = run[q]
      /\ \A q \in Calls : Target(q)' = Target(q)
      /\ \A m \in Names : m # t => ctr'[m] = ctr[m]
      /\ disturbed' = disturbed
      /\ \/ Exists(ctr[t]) /\ run'[p] = "create" /\ ~Exists(ctr'[t])
         \/ ~Exists(ctr[t]) /\ run'[p] = "err" /\ ctr'[t] = ctr[t]
  <2>1. t \in Names /\ TypeOK
    BY TargetType
  <2>2. ~Exists(Gone)
    BY DEF Exists, Gone
  <2>3. CASE Exists(ctr[t]) /\ ctr' = [ctr EXCEPT ![t] = Gone] /\ Goto(p, "create")
    <3>1. ctr'[t] = Gone /\ \A m \in Names : m # t => ctr'[m] = ctr[m]
      BY <2>1, <2>3, ClearMoves
    <3> QED
      BY <2>1, <2>2, <2>3, <3>1, GotoMoves DEF Remove, Target
  <2>4. CASE ~Exists(ctr[t]) /\ UNCHANGED ctr /\ Goto(p, "err")
    BY <2>1, <2>4, GotoMoves DEF Remove, Target
  <2> QED
    BY <2>3, <2>4 DEF Remove
<1> HIDE DEF t
<1>3. MakerKnown' /\ MakerStands'
  BY <1>2, MakerType DEF MakerKnown, MakerStands, MadeByCall, Exists
<1>4. OldRunsUntouched' /\ OldIsOutOfTheWay'
  BY <1>2 DEF OldRunsUntouched, OldIsOutOfTheWay, AboutToCreate, Up, Exists, Running, t
<1>5. Carried'
  BY <1>2 DEF Carried, CarriedBy, Made, Up, Running, Exists, AboutToCreate, t
<1> QED
  BY <1>1, <1>3, <1>4, <1>5

\* A creation that finds the name in use: a maker is about to start what is
\* there, or it runs.
LEMMA CreateNamedIInv ==
  ASSUME IInv, TypeOK', NEW p \in Calls, run[p] \in AboutToCreate, CreateNamed(p),
         UNCHANGED <<arg, disturbed>>
  PROVE  IInv'
<1> USE DEF IInv
<1> DEFINE t == Target(p)
<1>1. /\ t \in Names
      /\ \A q \in Calls : q # p => run'[q] = run[q]
      /\ \A q \in Calls : Target(q)' = Target(q)
      /\ \A m \in Names : m # t => ctr'[m] = ctr[m]
      /\ disturbed' = disturbed
      /\ \/ /\ Exists(ctr[t]) /\ run'[p] = "err" /\ ctr'[t] = ctr[t]
         \/ /\ ~Exists(ctr[t]) /\ run'[p] = "start"
            /\ ctr'[t].state = "created" /\ ctr'[t].by = p
  <2>1. CASE Exists(ctr[t]) /\ Goto(p, "err") /\ UNCHANGED ctr
    BY <2>1, GotoMoves, TargetType DEF Target
  <2>2. CASE ~Exists(ctr[t]) /\ ctr' = [ctr EXCEPT ![t] = NewContainer(p)] /\ Goto(p, "start")
    <3>1. ctr'[t] = NewContainer(p) /\ \A m \in Names : m # t => ctr'[m] = ctr[m]
      BY <2>2, ClearMoves, TargetType
    <3>2. NewContainer(p).state = "created" /\ NewContainer(p).by = p
      BY DEF NewContainer
    <3>3. t \in Names /\ \A q \in Calls : Target(q)' = Target(q)
      BY TargetType DEF Target
    <3>4. run'[p] = "start" /\ \A q \in Calls : q # p => run'[q] = run[q]
      BY <2>2, GotoMoves
    <3> HIDE DEF t
    <3> QED
      BY <2>2, <3>1, <3>2, <3>3, <3>4
  <2> QED
    BY <2>1, <2>2 DEF CreateNamed
<1>2. p # Daemon
  BY DockerAssumption
<1> HIDE DEF t
<1>3. MakerKnown' /\ MakerStands'
  BY <1>1, <1>2, MakerType DEF MakerKnown, MakerStands, MadeByCall, Exists, AboutToCreate, t
<1>4. OldRunsUntouched' /\ OldIsOutOfTheWay'
  BY <1>1, <1>2 DEF OldRunsUntouched, OldIsOutOfTheWay, AboutToCreate, Up, Exists, Running, t
<1>5. Carried'
  BY <1>1, <1>2, MakerType DEF Carried, CarriedBy, MakerKnown, MakerStands, MadeByCall,
     OldIsOutOfTheWay, Made, Up, Running, Exists, AboutToCreate, t
<1> QED
  BY <1>3, <1>4, <1>5

LEMMA CreateIInv == ASSUME IInv, NEW p \in Calls, Create(p) PROVE IInv'
<1>1. TypeOK'
  BY StepTypeOK DEF Next, Step, IInv
<1>2. CASE CreateNamed(p)
  BY <1>1, <1>2, CreateNamedIInv DEF Create, AboutToCreate
<1>3. CASE UNCHANGED ctr /\ Goto(p, "pull")
  <2> USE DEF IInv
  <2>1. /\ run[p] = "create" /\ run'[p] = "pull"
        /\ \A q \in Calls : q # p => run'[q] = run[q]
        /\ \A q \in Calls : Target(q)' = Target(q)
        /\ ctr' = ctr /\ disturbed' = disturbed
    BY <1>3, GotoMoves DEF Create, Target
  <2>2. MakerKnown' /\ MakerStands'
    BY <2>1, MakerType DEF MakerKnown, MakerStands, MadeByCall, Exists
  <2>3. OldRunsUntouched' /\ OldIsOutOfTheWay'
    BY <2>1 DEF OldRunsUntouched, OldIsOutOfTheWay, AboutToCreate, Up, Exists, Running
  <2>4. Carried'
    BY <2>1 DEF Carried, CarriedBy, Made, Up, Running, Exists, AboutToCreate
  <2> QED
    BY <1>1, <2>2, <2>3, <2>4
<1> QED
  BY <1>2, <1>3 DEF Create

\* What happens to a name that is disturbed, and to the calls on it, does not
\* matter to the other names.
LEMMA DisturbIInv ==
  ASSUME IInv, TypeOK', MakerKnown', NEW n \in Names, Disturb(n), UNCHANGED arg,
         \A m \in Names : m # n => ctr'[m] = ctr[m],
         \A q \in Calls : Target(q) # n => run'[q] = run[q]
  PROVE  IInv'
<1> USE DEF IInv
<1>1. /\ disturbed' = disturbed \cup {n}
      /\ \A q \in Calls : Target(q)' = Target(q)
  BY DEF Disturb, Target
<1>2. MakerStands'
  BY <1>1, MakerType DEF MakerKnown, MakerStands, MadeByCall, Exists
<1>3. OldRunsUntouched' /\ OldIsOutOfTheWay'
  BY <1>1 DEF OldRunsUntouched, OldIsOutOfTheWay, AboutToCreate, Up, Exists, Running
<1>4. Carried'
  BY <1>1 DEF Carried, CarriedBy, Made, Up, Running, Exists, AboutToCreate
<1> QED
  BY <1>2, <1>3, <1>4

\* A call that ends in a fault leaves its container, if it made one, behind it.
LEMMA EndMakerKnown ==
  ASSUME IInv, NEW p \in Calls, Goto(p, "err"), UNCHANGED <<ctr, arg>>
  PROVE  MakerKnown'
<1>1. /\ run'[p] = "err"
      /\ \A q \in Calls : q # p => run'[q] = run[q]
      /\ \A q \in Calls : Target(q)' = Target(q)
  BY GotoMoves DEF Target, IInv
<1> QED
  BY <1>1, MakerType DEF IInv, MakerKnown, MadeByCall, Exists

LEMMA EndIInv ==
  ASSUME IInv, TypeOK', NEW p \in Calls, Goto(p, "err"), Disturb(Target(p)), UNCHANGED <<ctr, arg>>
  PROVE  IInv'
<1>1. \A q \in Calls : Target(q) # Target(p) => run'[q] = run[q]
  BY GotoMoves DEF IInv
<1>2. MakerKnown'
  BY EndMakerKnown
<1>3. Target(p) \in Names
  BY TargetType DEF IInv
<1> QED
  BY <1>1, <1>2, <1>3, DisturbIInv

LEMMA RecreateIInv == ASSUME IInv, NEW p \in Calls, Recreate(p) PROVE IInv'
<1>1. TypeOK'
  BY StepTypeOK DEF Next, Step, IInv
<1>2. CASE CreateNamed(p) /\ UNCHANGED disturbed
  BY <1>1, <1>2, CreateNamedIInv DEF Recreate, AboutToCreate
<1>3. CASE UNCHANGED ctr /\ Goto(p, "err") /\ Disturb(Target(p))
  BY <1>1, <1>3, EndIInv DEF Recreate
<1> QED
  BY <1>2, <1>3 DEF Recreate

LEMMA StartIInv == ASSUME IInv, NEW p \in Calls, Start(p) PROVE IInv'
<1> USE DEF IInv
<1> DEFINE t == Target(p)
<1>1. TypeOK'
  BY StepTypeOK DEF Next, Step
<1>2. /\ run[p] = "start" /\ t \in Names
      /\ \A q \in Calls : Target(q)' = Target(q)
  BY TargetType DEF Start, Target
<1>3. p # Daemon
  BY DockerAssumption
<1>4. CASE ~OwnsTarget(p) /\ Goto(p, "err") /\ UNCHANGED <<ctr, disturbed>>
  <2>1. /\ run'[p] = "err"
        /\ \A q \in Calls : q # p => run'[q] = run[q]
        /\ ~(Exists(ctr[t]) /\ ctr[t].by = p)
        /\ ctr' = ctr /\ disturbed' = disturbed
    BY <1>4, GotoMoves DEF OwnsTarget
  <2> HIDE DEF t
  <2>2. MakerKnown' /\ MakerStands'
    BY <1>2, <2>1, MakerType DEF MakerKnown, MakerStands, MadeByCall, Exists, t
  <2>3. OldRunsUntouched' /\ OldIsOutOfTheWay'
    BY <1>2, <2>1 DEF OldRunsUntouched, OldIsOutOfTheWay, AboutToCreate, Up, Exists, Running
  <2>4. Carried'
    BY <1>2, <2>1 DEF Carried, CarriedBy, Made, Up, Running, Exists, AboutToCreate, t
  <2> QED
    BY <1>1, <2>2, <2>3, <2>4
<1>5. CASE Goto(p, "err") /\ Disturb(t) /\ UNCHANGED ctr
  BY <1>1, <1>5, EndIInv DEF Start
<1>6. CASE OwnsTarget(p) /\ SetRunning(t) /\ Goto(p, "ok") /\ UNCHANGED disturbed
  <2>1. /\ run'[p] = "ok"
        /\ \A q \in Calls : q # p => run'[q] = run[q]
        /\ Exists(ctr[t]) /\ ctr[t].by = p
        /\ ctr'[t].state = "running" /\ ctr'[t].by = p
        /\ \A m \in Names : m # t => ctr'[m] = ctr[m]
        /\ disturbed' = disturbed
    BY <1>2, <1>6, GotoMoves, SetRunningMoves DEF OwnsTarget
  <2> HIDE DEF t
  <2>2. MakerKnown' /\ MakerStands'
    BY <1>2, <1>3, <2>1, MakerType DEF MakerKnown, MakerStands, MadeByCall, Exists, t
  <2>3. OldRunsUntouched' /\ OldIsOutOfTheWay'
    BY <1>2, <1>3, <2>1
    DEF OldRunsUntouched, OldIsOutOfTheWay, AboutToCreate, Up, Exists, Running, t
  <2>4. Carried'
    BY <1>2, <2>1 DEF Carried, CarriedBy, Made, Up, Running, Exists, AboutToCreate, t
  <2> QED
    BY <1>1, <2>2, <2>3, <2>4
<1> QED
  BY <1>4, <1>5, <1>6 DEF Start, CanStart

LEMMA FailIInv == ASSUME IInv, NEW p \in Calls, Fail(p) PROVE IInv'
<1>1. TypeOK'
  BY StepTypeOK DEF Next, IInv
<1> QED
  BY <1>1, EndIInv DEF Fail

LEMMA StartUnansweredIInv == ASSUME IInv, NEW p \in Calls, StartUnanswered(p) PROVE IInv'
<1> DEFINE t == Target(p)
<1>1. TypeOK'
  BY StepTypeOK DEF Next, IInv
<1>2. /\ t \in Names
      /\ run'[p] = "err"
      /\ \A q \in Calls : q # p => run'[q] = run[q]
      /\ \A q \in Calls : Target(q)' = Target(q)
      /\ ctr'[t].by = p /\ ctr[t].by = p
      /\ \A m \in Names : m # t => ctr'[m] = ctr[m]
  BY GotoMoves, SetRunningMoves, TargetType DEF StartUnanswered, CanStart, OwnsTarget, Target, IInv
<1> HIDE DEF t
<1>3. MakerKnown'
  BY <1>2, MakerType DEF IInv, MakerKnown, MadeByCall, Exists, t
<1> QED
  BY <1>1, <1>2, <1>3, DisturbIInv DEF StartUnanswered, t

\* Stopping or starting a container changes neither its maker nor any call.
LEMMA MeddleIInv ==
  ASSUME IInv, NEW n \in Names, Stop(n) \/ Restart(n)
  PROVE  IInv'
<1>1. TypeOK'
  BY StepTypeOK DEF Next, IInv
<1>2. Exists(ctr[n])
  BY DEF Stop, Restart, Exists, Running
<1>3. /\ ctr'[n].by = ctr[n].by
      /\ \A m \in Names : m # n => ctr'[m] = ctr[m]
      /\ run' = run /\ UNCHANGED arg /\ Disturb(n)
  <2>1. CASE Stop(n)
    BY <2>1 DEF Stop, IInv, TypeOK, Container
  <2>2. CASE Restart(n)
    BY <2>2, SetRunningMoves DEF Restart, IInv
  <2> QED
    BY <2>1, <2>2
<1>4. \A q \in Calls : Target(q)' = Target(q)
  BY <1>3 DEF Target
<1>5. MakerKnown'
  BY <1>2, <1>3, <1>4, MakerType DEF IInv, MakerKnown, MadeByCall, Exists
<1> QED
  BY <1>1, <1>3, <1>5, DisturbIInv

LEMMA StepIInv == IInv /\ [Next]_vars => IInv'
<1> SUFFICES ASSUME IInv, [Next]_vars PROVE IInv'
  OBVIOUS
<1>1. CASE UNCHANGED vars
  BY <1>1 DEF vars, IInv, TypeOK, MakerKnown, MakerStands, OldRunsUntouched, OldIsOutOfTheWay,
     Carried, CarriedBy, Made, MadeByCall, Exists, Up, Running, Target
<1>2. ASSUME NEW p \in Calls, Call(p) \/ Step(p) \/ Fail(p) \/ StartUnanswered(p)
      PROVE  IInv'
  BY <1>2, CallIInv, InspectIInv, RemoveIInv, CreateIInv, PullIInv, RecreateIInv, StartIInv,
     FailIInv, StartUnansweredIInv DEF Step
<1> QED
  BY <1>1, <1>2, MeddleIInv DEF Next

THEOREM IInvHolds == Spec => []IInv
BY InitIInv, StepIInv, PTL DEF Spec

\* Concurrent calls of Run never defeat each other altogether: when all calls
\* on a name have returned, undisturbed, the name's container runs.
THEOREM ServiceUpHolds == Spec => []ServiceUp
<1>1. IInv => ServiceUp
  BY DEF IInv, Carried, CarriedBy, ServiceUp, Busy, Active, AboutToCreate
<1> QED
  BY <1>1, IInvHolds, PTL

\* And then one of the calls has reported success.
THEOREM SomeCallSucceedsHolds == Spec => []SomeCallSucceeds
<1>1. IInv => SomeCallSucceeds
  <2> SUFFICES ASSUME IInv, NEW n \in Names, n \notin disturbed,
                      NEW p \in Calls, Made(p, n),
                      \A q \in Calls : ~Busy(q, n)
               PROVE  \E q \in Calls : Made(q, n) /\ run[q] = "ok"
    BY DEF SomeCallSucceeds
  <2>1. Up(n)
    BY DEF IInv, Carried, CarriedBy, Busy, Active, AboutToCreate
  <2>2. CASE ctr[n].by = Daemon
    BY <2>1, <2>2 DEF IInv, OldRunsUntouched, Made, Busy, Active
  <2>3. CASE ctr[n].by # Daemon
    <3>1. ctr[n].by \in Calls /\ MadeByCall(n)
      BY <2>1, <2>3, MakerType DEF IInv, MadeByCall, Up, Running, Exists
    <3>2. Target(ctr[n].by) = n /\ run[ctr[n].by] = "ok"
      BY <2>1, <3>1 DEF IInv, MakerKnown, MakerStands, Up, Running
    <3> QED
      BY <3>1, <3>2 DEF Made
  <2> QED
    BY <2>2, <2>3
<1> QED
  BY <1>1, IInvHolds, PTL

-------------------------------------------------------------------------------

LEMMA StepStable ==
  ASSUME TypeOK, Next, NEW n \in Names, Settled(n), n \notin disturbed'
  PROVE  Settled(n)'
<1> USE DEF Settled, Up, Running, Exists
<1>1. ASSUME NEW p \in Calls, Call(p) \/ Inspect(p) \/ Pull(p) \/ Fail(p)
      PROVE  Settled(n)'
  <2>1. /\ ctr' = ctr
        /\ run'[p] # "remove" \/ Target(p) # n
        /\ \A q \in Calls : q # p => run'[q] = run[q]
        /\ \A q \in Calls : Target(q)' = Target(q)
    BY <1>1, GotoMoves DEF Call, Inspect, Pull, Fail, Target
  <2> QED
    BY <2>1
<1>2. ASSUME NEW p \in Calls, Remove(p) PROVE Settled(n)'
  <2>1. /\ Target(p) # n
        /\ ctr'[n] = ctr[n]
        /\ \A q \in Calls : q # p => run'[q] = run[q]
        /\ \A q \in Calls : Target(q)' = Target(q)
    BY <1>2, GotoMoves, ClearMoves, TargetType DEF Remove, Target
  <2> QED
    BY <2>1
<1>3. ASSUME NEW p \in Calls, CreateNamed(p), UNCHANGED arg PROVE Settled(n)'
  <2>1. /\ ctr'[n] = ctr[n]
        /\ run'[p] # "remove"
        /\ \A q \in Calls : q # p => run'[q] = run[q]
        /\ \A q \in Calls : Target(q)' = Target(q)
    BY <1>3, GotoMoves, ClearMoves, TargetType DEF CreateNamed, Target
  <2> QED
    BY <2>1
<1>4. ASSUME NEW p \in Calls, Create(p) \/ Recreate(p) PROVE Settled(n)'
  <2>1. CASE CreateNamed(p)
    BY <1>3, <1>4, <2>1 DEF Create, Recreate
  <2>2. CASE UNCHANGED <<ctr, arg>> /\ (Goto(p, "pull") \/ Goto(p, "err"))
    <3>1. /\ run'[p] # "remove"
          /\ \A q \in Calls : q # p => run'[q] = run[q]
          /\ \A q \in Calls : Target(q)' = Target(q)
      BY <2>2, GotoMoves DEF Target
    <3> QED
      BY <2>2, <3>1
  <2> QED
    BY <1>4, <2>1, <2>2 DEF Create, Recreate
<1>5. ASSUME NEW p \in Calls, Start(p) \/ StartUnanswered(p) PROVE Settled(n)'
  <2>1. /\ run'[p] # "remove"
        /\ \A q \in Calls : q # p => run'[q] = run[q]
        /\ \A q \in Calls : Target(q)' = Target(q)
    BY <1>5, GotoMoves DEF Start, StartUnanswered, Target
  <2>2. ctr'[n].state = "running"
    <3>1. CASE UNCHANGED ctr
      BY <3>1
    <3>2. CASE SetRunning(Target(p))
      BY <3>2, SetRunningMoves, TargetType
    <3> QED
      BY <1>5, <3>1, <3>2 DEF Start, StartUnanswered
  <2> QED
    BY <2>1, <2>2
<1>6. ASSUME NEW m \in Names, Stop(m) \/ Restart(m) PROVE Settled(n)'
  <2>1. /\ m # n
        /\ run' = run
        /\ \A q \in Calls : Target(q)' = Target(q)
    BY <1>6 DEF Stop, Restart, Disturb, Target
  <2>2. ctr'[n] = ctr[n]
    BY <1>6, <2>1, SetRunningMoves DEF Stop, Restart, TypeOK
  <2> QED
    BY <2>1, <2>2
<1> QED
  BY <1>1, <1>2, <1>4, <1>5, <1>6 DEF Next, Step

\* A running service that no call is about to remove is never taken down by
\* calls, the ones that lose their race and fail included.
THEOREM UpIsStableHolds == Spec => UpIsStable
<1>1. TypeOK /\ [Next]_vars =>
        [\A n \in Names : Settled(n) /\ n \notin disturbed' => Settled(n)']_vars
  BY StepStable
<1> QED
  BY <1>1, TypeCorrect, PTL DEF Spec, UpIsStable

-------------------------------------------------------------------------------

(***************************************************************************)
(* Run implements EnsureService: a request that changes neither what runs   *)
(* nor an answer is a stutter, and every other one is an abstract action.   *)
(***************************************************************************)

UpNames == {n \in Names : Up(n)}

Answers == [p \in Calls |-> Answer(p)]

Targets == [p \in Calls |-> Target(p)]

\* The abstract variables, after a move of call p.
LEMMA AnswerMoves ==
  ASSUME TypeOK, NEW p \in Calls, NEW label, Goto(p, label)
  PROVE  Answers' = [Answers EXCEPT ![p] = IF label \in Active THEN "pending" ELSE label]
<1>1. /\ run'[p] = label
      /\ \A q \in Calls : q # p => run'[q] = run[q]
  BY GotoMoves
<1>2. /\ Answer(p)' = IF label \in Active THEN "pending" ELSE label
      /\ \A q \in Calls : q # p => Answer(q)' = Answer(q)
  BY <1>1 DEF Answer
<1> QED
  BY <1>2 DEF Answers

LEMMA PendingAnswer ==
  ASSUME NEW p \in Calls, run[p] \in Active
  PROVE  Answers[p] = "pending"
BY DEF Answers, Answer

\* A move from one request to the next is no answer.
LEMMA StaysPending ==
  ASSUME TypeOK, NEW p \in Calls, NEW label \in Active, run[p] \in Active, Goto(p, label)
  PROVE  Answers' = Answers
<1>1. Answers' = [Answers EXCEPT ![p] = "pending"]
  BY AnswerMoves
<1> QED
  BY <1>1, PendingAnswer DEF Answers

LEMMA UpAfterClear ==
  ASSUME TypeOK, NEW n \in Names, NEW c, ~Running(c), ctr' = [ctr EXCEPT ![n] = c]
  PROVE  UpNames' = UpNames \ {n}
BY ClearMoves DEF UpNames, Up

LEMMA UpAfterSetRunning ==
  ASSUME TypeOK, NEW n \in Names, SetRunning(n)
  PROVE  UpNames' = UpNames \cup {n}
BY SetRunningMoves DEF UpNames, Up, Running

LEMMA SameTargets == ASSUME UNCHANGED arg PROVE Targets' = Targets
BY DEF Targets, Target

LEMMA EnsureVars ==
  UNCHANGED <<UpNames, Answers, Targets, disturbed>> <=> UNCHANGED Ensure!vars
BY DEF Ensure!vars, UpNames, Answers, Targets

LEMMA InitEnsures == Init => Ensure!Init
<1> SUFFICES ASSUME Init PROVE Ensure!Init
  OBVIOUS
<1>1. TypeOK
  BY InitTypeOK
<1>2. Answers = [p \in Calls |-> "idle"]
  BY DEF Init, Answers, Answer, Active
<1>3. Targets \in [Calls -> Names]
  BY <1>1, TargetType DEF Targets
<1> QED
  BY <1>2, <1>3 DEF Init, Ensure!Init, Ensure!TypeOK, UpNames, Answers, Targets

\* The abstract actions, in terms of the mapped variables.
LEMMA EnsureActions ==
  ASSUME NEW p \in Calls
  PROVE  /\ Answers[p] = "idle" /\ Answers' = [Answers EXCEPT ![p] = "pending"]
               /\ UNCHANGED <<UpNames, Targets, disturbed>> => Ensure!Begin(p)
         /\ Answers[p] = "pending" /\ Answers' = [Answers EXCEPT ![p] = "ok"]
               /\ UpNames' = UpNames \cup {Target(p)}
               /\ UNCHANGED <<Targets, disturbed>> => Ensure!Succeed(p)
         /\ Answers[p] = "pending" /\ UpNames' = UpNames \ {Target(p)}
               /\ UNCHANGED <<Answers, Targets, disturbed>> => Ensure!TakeDown(p)
         /\ Answers[p] = "pending" /\ Answers' = [Answers EXCEPT ![p] = "err"]
               /\ UNCHANGED <<UpNames, Targets, disturbed>> => Ensure!GiveUp(p)
         /\ Answers[p] = "pending" /\ Answers' = [Answers EXCEPT ![p] = "err"]
               /\ UpNames' \in {UpNames, UpNames \cup {Target(p)}}
               /\ disturbed' = disturbed \cup {Target(p)}
               /\ UNCHANGED Targets => Ensure!Break(p)
BY DEF Ensure!Begin, Ensure!Succeed, Ensure!TakeDown, Ensure!GiveUp, Ensure!Break, Ensure!Reply,
   Ensure!Pending, UpNames, Answers, Targets

LEMMA CallEnsures ==
  ASSUME TypeOK, NEW p \in Calls, Call(p) \/ Step(p) \/ Fail(p) \/ StartUnanswered(p)
  PROVE  [Ensure!Next]_(Ensure!vars)
<1> USE DEF Active
<1> DEFINE Stutter == UNCHANGED <<UpNames, Answers, Targets, disturbed>>
<1>1. SUFFICES \/ Ensure!Begin(p) \/ Ensure!Succeed(p) \/ Ensure!TakeDown(p)
               \/ Ensure!GiveUp(p) \/ Ensure!Break(p)
               \/ Stutter
  BY EnsureVars DEF Ensure!Next
<1>2. Targets' = Targets
  BY SameTargets DEF Call, Step, Inspect, Remove, Create, Pull, Recreate, Start, Fail, StartUnanswered
<1>3. Target(p) \in Names
  BY TargetType
<1>4. CASE Call(p)
  <2>1. Answers[p] = "idle" /\ Answers' = [Answers EXCEPT ![p] = "pending"]
    BY <1>4, AnswerMoves DEF Call, Answers, Answer
  <2>2. UNCHANGED <<UpNames, disturbed>>
    BY <1>4 DEF Call, UpNames, Up
  <2> QED
    BY <1>2, <2>1, <2>2, EnsureActions
<1>5. CASE Inspect(p)
  <2>1. Answers[p] = "pending"
    BY <1>5, PendingAnswer DEF Inspect
  <2>2. UNCHANGED <<UpNames, disturbed>>
    BY <1>5 DEF Inspect, UpNames, Up
  <2>3. CASE Goto(p, "ok") /\ Up(Target(p))
    <3>1. Answers' = [Answers EXCEPT ![p] = "ok"]
      BY <2>3, AnswerMoves
    <3>2. UpNames' = UpNames \cup {Target(p)}
      BY <1>3, <2>2, <2>3 DEF UpNames
    <3> QED
      BY <1>2, <2>1, <2>2, <3>1, <3>2, EnsureActions
  <2>4. CASE Goto(p, "create") \/ Goto(p, "remove")
    BY <1>2, <1>5, <2>2, <2>4, StaysPending DEF Inspect
  <2> QED
    BY <1>5, <2>3, <2>4 DEF Inspect, Up
<1>6. CASE Remove(p)
  <2>1. Answers[p] = "pending"
    BY <1>6, PendingAnswer DEF Remove
  <2>2. CASE ctr' = [ctr EXCEPT ![Target(p)] = Gone] /\ Goto(p, "create")
    <3>1. UpNames' = UpNames \ {Target(p)}
      <4>1. ~Running(Gone)
        BY DEF Gone, Running
      <4> QED
        BY <1>3, <2>2, <4>1, UpAfterClear
    <3>2. Answers' = Answers
      BY <1>6, <2>2, StaysPending DEF Remove
    <3> QED
      BY <1>2, <1>6, <2>1, <3>1, <3>2, EnsureActions DEF Remove
  <2>3. CASE UNCHANGED ctr /\ Goto(p, "err")
    <3>1. Answers' = [Answers EXCEPT ![p] = "err"]
      BY <2>3, AnswerMoves
    <3>2. UpNames' = UpNames
      BY <2>3 DEF UpNames, Up
    <3> QED
      BY <1>2, <1>6, <2>1, <3>1, <3>2, EnsureActions DEF Remove
  <2> QED
    BY <1>6, <2>2, <2>3 DEF Remove
<1>7. CASE CreateNamed(p) /\ run[p] \in Active /\ UNCHANGED disturbed
  <2>1. Answers[p] = "pending"
    BY <1>7, PendingAnswer
  <2>2. CASE UNCHANGED ctr /\ Goto(p, "err")
    <3>1. Answers' = [Answers EXCEPT ![p] = "err"]
      BY <2>2, AnswerMoves
    <3>2. UpNames' = UpNames
      BY <2>2 DEF UpNames, Up
    <3> QED
      BY <1>2, <1>7, <2>1, <3>1, <3>2, EnsureActions
  <2>3. CASE /\ ~Exists(ctr[Target(p)])
             /\ ctr' = [ctr EXCEPT ![Target(p)] = NewContainer(p)]
             /\ Goto(p, "start")
    <3>1. UpNames' = UpNames \ {Target(p)}
      <4>1. ~Running(NewContainer(p))
        BY DEF NewContainer, Running
      <4> QED
        BY <1>3, <2>3, <4>1, UpAfterClear
    <3>2. Target(p) \notin UpNames
      BY <2>3 DEF UpNames, Up, Running, Exists
    <3>3. Answers' = Answers
      BY <1>7, <2>3, StaysPending
    <3> QED
      BY <1>2, <1>7, <3>1, <3>2, <3>3
  <2> QED
    BY <1>7, <2>2, <2>3 DEF CreateNamed
<1>8. CASE Create(p)
  <2>1. CASE UNCHANGED ctr /\ Goto(p, "pull")
    <3>1. UpNames' = UpNames
      BY <2>1 DEF UpNames, Up
    <3> QED
      BY <1>2, <1>8, <2>1, <3>1, StaysPending DEF Create
  <2> QED
    BY <1>7, <1>8, <2>1 DEF Create
<1>9. CASE Pull(p)
  <2>1. UpNames' = UpNames
    BY <1>9 DEF Pull, UpNames, Up
  <2> QED
    BY <1>2, <1>9, <2>1, StaysPending DEF Pull
<1>10. ASSUME Goto(p, "err"), run[p] \in Active, Disturb(Target(p)),
              UpNames' \in {UpNames, UpNames \cup {Target(p)}}
       PROVE  Ensure!Break(p)
  <2>1. Answers[p] = "pending" /\ Answers' = [Answers EXCEPT ![p] = "err"]
    BY <1>10, PendingAnswer, AnswerMoves
  <2> QED
    BY <1>2, <1>10, <2>1, EnsureActions DEF Disturb
<1>11. ASSUME UNCHANGED ctr PROVE UpNames' = UpNames
  BY <1>11 DEF UpNames, Up
<1>12. CASE Recreate(p)
  BY <1>7, <1>10, <1>11, <1>12 DEF Recreate
<1>13. CASE Fail(p)
  BY <1>10, <1>11, <1>13 DEF Fail
<1>14. CASE StartUnanswered(p)
  BY <1>3, <1>10, <1>14, UpAfterSetRunning DEF StartUnanswered
<1>15. CASE Start(p)
  <2>1. Answers[p] = "pending" /\ run[p] \in Active
    BY <1>15, PendingAnswer DEF Start
  <2>2. CASE Goto(p, "err") /\ UNCHANGED <<ctr, disturbed>>
    BY <1>2, <1>11, <2>1, <2>2, AnswerMoves, EnsureActions
  <2>3. CASE Goto(p, "err") /\ Disturb(Target(p)) /\ UNCHANGED ctr
    BY <1>10, <1>11, <2>1, <2>3
  <2>4. CASE SetRunning(Target(p)) /\ Goto(p, "ok") /\ UNCHANGED disturbed
    BY <1>2, <1>3, <2>1, <2>4, AnswerMoves, UpAfterSetRunning, EnsureActions
  <2> QED
    BY <1>15, <2>2, <2>3, <2>4 DEF Start
<1> QED
  BY <1>4, <1>5, <1>6, <1>8, <1>9, <1>12, <1>13, <1>14, <1>15 DEF Step

\* Someone stops or starts a container outside ctlptl.
LEMMA MeddleEnsures ==
  ASSUME TypeOK, NEW n \in Names, Stop(n) \/ Restart(n)
  PROVE  Ensure!Meddle(n)
<1>1. UNCHANGED <<Answers, Targets>>
  BY DEF Stop, Restart, Answers, Answer, Targets, Target
<1>2. UpNames' \in {UpNames \cup {n}, UpNames \ {n}}
  <2>1. CASE Stop(n)
    BY <2>1 DEF Stop, UpNames, Up, Running, TypeOK, Container
  <2>2. CASE Restart(n)
    BY <2>2, UpAfterSetRunning DEF Restart
  <2> QED
    BY <2>1, <2>2
<1>3. disturbed' = disturbed \cup {n}
  BY DEF Stop, Restart, Disturb
<1> QED
  BY <1>1, <1>2, <1>3 DEF Ensure!Meddle, UpNames, Answers, Targets

\* Every behaviour of Run, with its faults and interference, is one of the
\* service it promises.
THEOREM RunEnsuresService == Spec => EnsuresService
<1>1. TypeOK /\ [Next]_vars => [Ensure!Next]_(Ensure!vars)
  <2> SUFFICES ASSUME TypeOK, [Next]_vars PROVE [Ensure!Next]_(Ensure!vars)
    OBVIOUS
  <2>1. CASE UNCHANGED vars
    <3>1. UNCHANGED <<UpNames, Targets, disturbed>>
      BY <2>1 DEF vars, UpNames, Up, Targets, Target
    <3>2. UNCHANGED Answers
      BY <2>1 DEF vars, Answers, Answer
    <3> QED
      BY <3>1, <3>2, EnsureVars
  <2>2. CASE Next
    BY <2>2, CallEnsures, MeddleEnsures DEF Next, Ensure!Next
  <2> QED
    BY <2>1, <2>2
<1> QED
  BY <1>1, InitEnsures, TypeCorrect, PTL DEF Spec, EnsuresService, Ensure!Spec

===============================================================================
