---------------------------- MODULE CommandsProofs ----------------------------
(***************************************************************************)
(* Theorems about Commands: for every set of processes, clusters,           *)
(* registries, ports and commands, and whatever there is at first.          *)
(***************************************************************************)
EXTENDS Commands, SequenceTheorems, TLAPS

-------------------------------------------------------------------------------
(***************************************************************************)
(* The inductive invariants. First, where a command may be, and with what   *)
(* in mind: q is what it was asked, m its memory.                           *)
(***************************************************************************)

Asking == {"look", "drop", "run"}
ApplyPlaces == Asking \cup {"regs", "clusters", "inspect", "remove", "create", "join", "hosting"}
Places == {"idle"} \cup InFlight \cup Over

\* The cluster at hand is the first in the list.
HasCluster(place, m) ==
  \/ place \in {"inspect", "remove", "create", "join", "hosting"}
  \/ place \in Asking /\ m.back = "create"

Fits(q, place, m) ==
  /\ place \in {"idle"} \cup Over => m = Blank
  /\ place \notin {"idle", "failed", "broken"} => Other \notin Range(q.resources)
  /\ place \in ApplyPlaces \cup {"cascade"} => Range(m.todo) \subseteq Range(q.resources)
  /\ place \in ApplyPlaces => q.kind = "apply"
  /\ place \in {"cascade", "delete"} => q.kind = "delete"
  /\ place = "get" => q.kind = "get"
  /\ place = "cascade" => q.cascade
  /\ place # "cascade" => m.later = <<>>
  /\ place \in Asking => m.ask.name \in Registries /\ m.back \in {"regs", "create", "clusters"}
  /\ HasCluster(place, m) =>
       m.todo # <<>> /\ Head(m.todo).kind = "Cluster" /\ Head(m.todo).product # None
  /\ place \in {"remove", "join", "hosting"} => Head(m.todo).registry # None

BaseInv == TypeOK /\ \A p \in Procs : Fits(req[p], at[p], mem[p])

-------------------------------------------------------------------------------
(***************************************************************************)
(* Lemmas about the data.                                                  *)
(***************************************************************************)

LEMMA ListFacts ==
  ASSUME NEW S, NEW s \in Seq(S), s # <<>>
  PROVE  /\ Head(s) \in S /\ Tail(s) \in Seq(S)
         /\ Range(s) = {Head(s)} \cup Range(Tail(s))
<1>1. Len(s) \in Nat \ {0} /\ Head(s) = s[1] /\ DOMAIN s = 1..Len(s)
  BY EmptySeq, LenProperties, HeadTailProperties
<1>2. Head(s) \in S /\ Tail(s) \in Seq(S) /\ Len(Tail(s)) = Len(s) - 1
  BY HeadTailProperties
<1>3. \A i \in 1..Len(Tail(s)) : Tail(s)[i] = s[i + 1]
  BY HeadTailProperties
<1>4. DOMAIN Tail(s) = 1..Len(Tail(s))
  BY <1>2, LenProperties
<1>5. ASSUME NEW x \in Range(s) PROVE x = Head(s) \/ x \in Range(Tail(s))
  <2>1. PICK i \in 1..Len(s) : x = s[i]
    BY <1>1 DEF Range
  <2>2. CASE i = 1
    BY <1>1, <2>1, <2>2
  <2>3. CASE i # 1
    <3>1. i - 1 \in 1..Len(Tail(s)) /\ (i - 1) + 1 = i
      BY <1>1, <1>2, <2>3
    <3>2. Tail(s)[i - 1] = x
      BY <1>3, <2>1, <3>1
    <3> QED
      BY <1>4, <3>1, <3>2 DEF Range
  <2> QED
    BY <2>2, <2>3
<1>6. ASSUME NEW x \in Range(Tail(s)) PROVE x \in Range(s)
  <2>1. PICK i \in 1..Len(Tail(s)) : x = Tail(s)[i]
    BY <1>4 DEF Range
  <2>2. i + 1 \in 1..Len(s) /\ x = s[i + 1]
    BY <1>1, <1>2, <1>3, <2>1
  <2> QED
    BY <1>1, <2>2 DEF Range
<1>7. Head(s) \in Range(s)
  BY <1>1 DEF Range
<1> QED
  BY <1>2, <1>5, <1>6, <1>7

LEMMA NoList == Range(<<>>) = {}
BY DEF Range

LEMMA ConcatRange ==
  ASSUME NEW S, NEW s \in Seq(S), NEW t \in Seq(S)
  PROVE  s \o t \in Seq(S) /\ Range(s \o t) = Range(s) \cup Range(t)
BY ConcatProperties, RangeConcatenation

LEMMA RecordFacts ==
  /\ Other.kind = "Other"
  /\ \A name, port :
       /\ Registry(name, port).kind = "Registry" /\ Registry(name, port).name = name
       /\ Registry(name, port).port = port /\ Registry(name, port).registry = None
  /\ \A name, product, registry :
       /\ Cluster(name, product, registry).kind = "Cluster"
       /\ Cluster(name, product, registry).name = name
       /\ Cluster(name, product, registry).product = product
       /\ Cluster(name, product, registry).registry = registry
BY DEF Other, Registry, Cluster

\* What the resources of a command are like.
LEMMA ResourceFacts ==
  ASSUME NEW q \in Requests, Other \notin Range(q.resources), NEW r \in Range(q.resources)
  PROVE  /\ r.kind \in {"Cluster", "Registry"}
         /\ r.kind = "Registry" =>
              /\ FullName(r) \in Registries /\ r.port \in PortOrNone
              /\ r.registry = None
         /\ r.kind = "Cluster" =>
              /\ r.registry \in Registries \cup {None}
              /\ r.product \in {None, "kind", "k3d"}
              /\ q.kind = "apply" /\ r.product # None => FullName(r) \in Clusters
<1>1. IsRequest(q)
  BY CommandsAssumption
<1>2. IsResource(r) /\ r # Other
  BY <1>1 DEF IsRequest
<1>3. CASE \E name \in Registries \cup {None}, port \in PortOrNone : r = Registry(name, port)
  <2>1. PICK name \in Registries \cup {None}, port \in PortOrNone : r = Registry(name, port)
    BY <1>3
  <2> QED
    BY <2>1, RecordFacts, CommandsAssumption DEF FullName
<1>4. CASE /\ r = Cluster(r.name, r.product, r.registry)
           /\ r.product \in {None, "kind", "k3d"} /\ r.registry \in Registries \cup {None}
  <2>1. r.kind = "Cluster"
    BY <1>4, RecordFacts
  <2> QED
    BY <1>1, <1>4, <2>1 DEF IsRequest
<1> QED
  BY <1>2, <1>3, <1>4 DEF IsResource

\* A command's list, in the form of a type.
LEMMA AskedType ==
  ASSUME NEW q \in Requests
  PROVE  /\ q.kind \in {"apply", "delete", "get"} /\ q.cascade \in BOOLEAN
         /\ q.cascade => q.kind = "delete"
         /\ q.resources \in Seq(Listed) /\ q.resources \in Seq(Range(q.resources))
         /\ Range(q.resources) \subseteq Listed
<1>1. IsRequest(q)
  BY CommandsAssumption
<1>2. Range(q.resources) \subseteq Listed
  BY DEF Listed
<1> QED
  BY <1>1, <1>2, SeqMonotonic DEF IsRequest

LEMMA MemoryType ==
  /\ \A m \in Memories :
       /\ m.todo \in Seq(Listed) /\ m.later \in Seq(Listed)
       /\ m.ask \in [name: Registries \cup {None}, port: PortOrNone, k3d: BOOLEAN]
       /\ m.back \in {None, "regs", "create", "clusters"} /\ m.port \in PortOrNone
       /\ m.nets \subseteq Networks
  /\ \A todo \in Seq(Listed), later \in Seq(Listed),
        ask \in [name: Registries \cup {None}, port: PortOrNone, k3d: BOOLEAN],
        back \in {None, "regs", "create", "clusters"}, port \in PortOrNone, nets \in SUBSET Networks :
       [todo |-> todo, later |-> later, ask |-> ask, back |-> back, port |-> port, nets |-> nets] \in Memories
  /\ NoAsk \in [name: Registries \cup {None}, port: PortOrNone, k3d: BOOLEAN]
  /\ Blank \in Memories
  /\ Blank.todo = <<>> /\ Blank.later = <<>>
<1>1. <<>> \in Seq(Listed)
  BY EmptySeq
<1>2. NoAsk \in [name: Registries \cup {None}, port: PortOrNone, k3d: BOOLEAN]
  BY DEF NoAsk, PortOrNone
<1>3. Blank \in Memories
  BY <1>1, <1>2 DEF Blank, Memories, PortOrNone
<1> QED
  BY <1>2, <1>3 DEF Memories, Blank

-------------------------------------------------------------------------------
(***************************************************************************)
(* What each step changes.                                                 *)
(***************************************************************************)

\* The command moves to a place, with a memory, and the others stay.
Becomes(p, place, m) == at' = [at EXCEPT ![p] = place] /\ mem' = [mem EXCEPT ![p] = m]

WorldTyped == cluster' \in [Clusters -> ClusterStates] /\ reg' \in [Registries -> RegistryStates]

\* A step of p, to a place where it may be.
Moves(p, place, m) ==
  /\ Becomes(p, place, m)
  /\ place \in InFlight \cup Over /\ m \in Memories /\ Fits(req[p], place, m)
  /\ NoRegistryTwice(m.later)
  /\ req' = req /\ WorldTyped

\* A list that is no cascade's is empty.
LEMMA NothingTwice == NoRegistryTwice(<<>>)
BY DEF NoRegistryTwice

\* What is known of a command that is under way.
LEMMA BaseFacts ==
  ASSUME BaseInv, NEW p \in Procs
  PROVE  /\ mem[p] \in Memories /\ at[p] \in Places /\ req[p] \in Requests
         /\ Fits(req[p], at[p], mem[p]) /\ NoRegistryTwice(mem[p].later)
         /\ cluster \in [Clusters -> ClusterStates] /\ reg \in [Registries -> RegistryStates]
BY DEF BaseInv, TypeOK, Places

\* The first of the list, and the rest.
LEMMA ItemFacts ==
  ASSUME BaseInv, NEW p \in Procs, ~Finished(p)
  PROVE  /\ Item(p) \in Listed /\ Tail(mem[p].todo) \in Seq(Listed)
         /\ Range(mem[p].todo) = {Item(p)} \cup Range(Tail(mem[p].todo))
BY BaseFacts, MemoryType, ListFacts DEF Finished, Item

\* An apply is at work on one of its resources.
LEMMA ItemAsked ==
  ASSUME BaseInv, NEW p \in Procs, ~Finished(p), at[p] \in ApplyPlaces
  PROVE  /\ Item(p) \in Asked(p)
         /\ Item(p).kind \in {"Cluster", "Registry"}
         /\ Item(p).kind = "Registry" => FullName(Item(p)) \in Registries /\ Item(p).port \in PortOrNone
         /\ Item(p).kind = "Cluster" =>
              /\ Item(p).registry \in Registries \cup {None}
              /\ Item(p).product \in {None, "kind", "k3d"}
              /\ Item(p).product # None => FullName(Item(p)) \in Clusters
<1>1. Item(p) \in Range(req[p].resources)
  BY BaseFacts, ItemFacts DEF Fits, Item
<1>2. Other \notin Range(req[p].resources) /\ req[p].kind = "apply"
  BY BaseFacts DEF Fits, ApplyPlaces, Asking, Over
<1> QED
  BY <1>1, <1>2, BaseFacts, ResourceFacts DEF Asked

\* A command that returns has nothing in mind.
LEMMA ReturnMoves ==
  ASSUME BaseInv, NEW p \in Procs, NEW result \in Over, Return(p, result), req' = req, WorldTyped,
         result = "done" => at[p] \in InFlight
  PROVE  Moves(p, result, Blank)
<1>1. Becomes(p, result, Blank)
  BY DEF Return, Goto, Becomes
<1>2. Blank \in Memories /\ Blank.later = <<>> /\ Blank.todo = <<>>
  BY MemoryType
<1>3. Fits(req[p], result, Blank)
  BY <1>2, BaseFacts DEF Fits, ApplyPlaces, Asking, Over, HasCluster, InFlight
<1> QED
  BY <1>1, <1>2, <1>3, NothingTwice DEF Moves

LEMMA SameWorld ==
  ASSUME BaseInv, UNCHANGED world
  PROVE  WorldTyped
BY BaseFacts DEF world, WorldTyped, BaseInv, TypeOK

\* The first of the list is done.
LEMMA AdvanceMoves ==
  ASSUME BaseInv, NEW p \in Procs, ~Finished(p), NEW place \in {"regs", "clusters", "delete"},
         Advance(p, place), req' = req, WorldTyped,
         IF place = "delete" THEN at[p] = "delete" ELSE at[p] \in ApplyPlaces
  PROVE  \E m : /\ Moves(p, place, m)
                /\ m.todo = Tail(mem[p].todo) /\ m.back = mem[p].back /\ m.port = mem[p].port
<1>1. PICK m : m = [mem[p] EXCEPT !.todo = Tail(@), !.ask = NoAsk]
  OBVIOUS
<1>2. Becomes(p, place, m)
  BY <1>1 DEF Advance, Goto, Becomes
<1>3. /\ m.todo = Tail(mem[p].todo) /\ m.later = mem[p].later /\ m.back = mem[p].back
      /\ m.port = mem[p].port
  BY <1>1, BaseFacts DEF Memories
<1>4. m \in Memories
  <2>1. mem[p] \in Memories /\ Tail(mem[p].todo) \in Seq(Listed)
    BY BaseFacts, ItemFacts
  <2> QED
    BY <1>1, <2>1, MemoryType DEF Memories
<1>5. Fits(req[p], place, m)
  BY <1>3, BaseFacts, ItemFacts DEF Fits, ApplyPlaces, Asking, Over, HasCluster, Item
<1> QED
  BY <1>2, <1>3, <1>4, <1>5, BaseFacts DEF Moves, InFlight

LEMMA BeginMoves ==
  ASSUME BaseInv, NEW p \in Procs, Begin(p)
  PROVE  /\ at[p] = "idle" /\ mem[p] = Blank /\ UNCHANGED world
         /\ owed' = [owed EXCEPT ![p] = IF Malformed(p) THEN {} ELSE Owed(p)]
         /\ \/ Moves(p, "failed", Blank) /\ Malformed(p)
            \/ \E place \in {"regs", "cascade", "delete", "get"} : \E m :
                 /\ Moves(p, place, m) /\ ~Malformed(p)
                 /\ m.todo = req[p].resources /\ m.later = <<>>
                 /\ place = "regs" <=> req[p].kind = "apply"
                 /\ place = "cascade" <=> req[p].cascade
<1>1. at[p] = "idle" /\ mem[p] = Blank /\ UNCHANGED world /\ req' = req
  BY BaseFacts DEF Begin, Fits
<1>2. WorldTyped
  BY <1>1, SameWorld
<1>3. CASE Malformed(p) /\ Return(p, "failed")
  BY <1>1, <1>2, <1>3, ReturnMoves DEF Over, Begin
<1>4. CASE /\ ~Malformed(p)
           /\ Goto(p, CASE req[p].kind = "apply" -> "regs"
                        [] req[p].cascade        -> "cascade"
                        [] OTHER                 -> req[p].kind)
           /\ mem' = [mem EXCEPT ![p].todo = req[p].resources]
  <2>1. PICK m : m = [mem[p] EXCEPT !.todo = req[p].resources]
    OBVIOUS
  <2>2. PICK place : place = CASE req[p].kind = "apply" -> "regs"
                               [] req[p].cascade        -> "cascade"
                               [] OTHER                 -> req[p].kind
    OBVIOUS
  <2>3. /\ place \in {"regs", "cascade", "delete", "get"}
        /\ place = "regs" <=> req[p].kind = "apply"
        /\ place = "cascade" <=> req[p].cascade
        /\ place \in {"delete", "get"} => req[p].kind = place
    BY <2>2, BaseFacts, AskedType
  <2>4. Becomes(p, place, m)
    BY <1>4, <2>1, <2>2 DEF Goto, Becomes
  <2>5. m.todo = req[p].resources /\ m.later = <<>>
    BY <1>1, <2>1, MemoryType DEF Blank
  <2>6. m \in Memories
    <3>1. mem[p] \in Memories /\ req[p].resources \in Seq(Listed)
      BY BaseFacts, AskedType
    <3> QED
      BY <2>1, <3>1 DEF Memories
  <2>7. Fits(req[p], place, m)
    BY <1>4, <2>3, <2>5, BaseFacts, AskedType DEF Fits, ApplyPlaces, Asking, Over, HasCluster, Malformed, Asked
  <2> QED
    BY <1>1, <1>2, <1>4, <2>3, <2>4, <2>5, <2>6, <2>7, NothingTwice DEF Moves, InFlight, Begin
<1> QED
  BY <1>3, <1>4 DEF Begin

Asks == [name: Registries \cup {None}, port: PortOrNone, k3d: BOOLEAN]

\* A registry may be asked for here, and the command go on with these resources.
MayAsk(p, ask, back, todo) ==
  /\ at[p] \in ApplyPlaces /\ ~Finished(p)
  /\ ask \in Asks /\ ask.name \in Registries
  /\ back \in {"regs", "create", "clusters"}
  /\ todo \in {mem[p].todo, Tail(mem[p].todo)}
  /\ back = "create" => todo = mem[p].todo /\ Item(p).kind = "Cluster" /\ Item(p).product # None

LEMMA AskMoves ==
  ASSUME BaseInv, NEW p \in Procs, NEW ask, NEW back, NEW todo,
         Ask(p, ask, back, todo), MayAsk(p, ask, back, todo), req' = req, WorldTyped
  PROVE  \E m : Moves(p, "look", m) /\ m.ask = ask /\ m.back = back /\ m.todo = todo
<1> USE DEF MayAsk
<1>1. PICK m : m = [mem[p] EXCEPT !.ask = ask, !.back = back, !.todo = todo]
  OBVIOUS
<1>2. Becomes(p, "look", m)
  BY <1>1 DEF Ask, Goto, Becomes
<1>3. mem[p] \in Memories /\ todo \in Seq(Listed) /\ Range(todo) \subseteq Range(mem[p].todo)
  <2>1. mem[p] \in Memories /\ mem[p].todo \in Seq(Listed)
    BY BaseFacts DEF Memories
  <2> QED
    BY <2>1, ItemFacts
<1>4. m.todo = todo /\ m.later = mem[p].later /\ m.back = back /\ m.ask = ask
  BY <1>1, <1>3 DEF Memories
<1>5. m \in Memories
  BY <1>1, <1>3 DEF Memories, Asks
<1>6. Fits(req[p], at[p], mem[p]) /\ req[p].kind = "apply"
  BY BaseFacts DEF Fits
<1>7. Fits(req[p], "look", m)
  BY <1>3, <1>4, <1>6 DEF Fits, ApplyPlaces, Asking, Over, HasCluster, Item, Finished
<1> QED
  BY <1>2, <1>4, <1>5, <1>7, BaseFacts DEF Moves, InFlight

LEMMA NextRegistryMoves ==
  ASSUME BaseInv, NEW p \in Procs, NextRegistry(p)
  PROVE  /\ at[p] = "regs" /\ UNCHANGED <<world, owed>>
         /\ \/ Finished(p) /\ \E m : Moves(p, "clusters", m) /\ m.todo = req[p].resources
            \/ /\ ~Finished(p) /\ Item(p).kind # "Registry"
               /\ \E m : Moves(p, "regs", m) /\ m.todo = Tail(mem[p].todo)
            \/ /\ ~Finished(p) /\ Item(p).kind = "Registry"
               /\ \E m :
                    /\ Moves(p, "look", m)
                    /\ m.ask.name = FullName(Item(p)) /\ m.ask.port = Item(p).port
                    /\ m.back = "regs" /\ m.todo = Tail(mem[p].todo)
<1>1. at[p] = "regs" /\ UNCHANGED <<world, owed>> /\ req' = req /\ at[p] \in ApplyPlaces
  BY DEF NextRegistry, ApplyPlaces
<1>2. WorldTyped
  BY <1>1, SameWorld
<1>3. CASE Finished(p) /\ Goto(p, "clusters") /\ mem' = [mem EXCEPT ![p].todo = req[p].resources]
  <2>1. PICK m : m = [mem[p] EXCEPT !.todo = req[p].resources]
    OBVIOUS
  <2>2. Becomes(p, "clusters", m)
    BY <1>3, <2>1 DEF Goto, Becomes
  <2>3. mem[p] \in Memories /\ req[p].resources \in Seq(Listed)
    BY BaseFacts, AskedType
  <2>4. m \in Memories /\ m.todo = req[p].resources /\ m.later = mem[p].later
    BY <2>1, <2>3 DEF Memories
  <2>5. Fits(req[p], "clusters", m)
    BY <1>1, <2>4, BaseFacts DEF Fits, ApplyPlaces, Asking, Over, HasCluster
  <2> QED
    BY <1>1, <1>2, <1>3, <2>2, <2>4, <2>5, BaseFacts DEF Moves, InFlight
<1>4. CASE ~Finished(p) /\ Item(p).kind # "Registry" /\ Advance(p, "regs")
  BY <1>1, <1>2, <1>4, AdvanceMoves
<1>5. CASE /\ ~Finished(p) /\ Item(p).kind = "Registry"
           /\ Ask(p, [name |-> FullName(Item(p)), port |-> Item(p).port, k3d |-> FALSE], "regs", Tail(mem[p].todo))
  <2>1. PICK ask : ask = [name |-> FullName(Item(p)), port |-> Item(p).port, k3d |-> FALSE]
    OBVIOUS
  <2>2. ask \in Asks /\ ask.name \in Registries
    BY <1>1, <1>5, <2>1, ItemAsked DEF Asks
  <2>3. PICK todo : todo = Tail(mem[p].todo)
    OBVIOUS
  <2>4. Ask(p, ask, "regs", todo)
    BY <1>5, <2>1, <2>3
  <2>5. \E m : Moves(p, "look", m) /\ m.ask = ask /\ m.back = "regs" /\ m.todo = todo
    <3>1. MayAsk(p, ask, "regs", todo)
      BY <1>1, <1>5, <2>2, <2>3 DEF MayAsk
    <3>2. req' = req
      BY <1>1
    <3> QED
      BY <1>2, <2>4, <3>1, <3>2, AskMoves
  <2> QED
    BY <1>1, <1>5, <2>1, <2>3, <2>5
<1> QED
  BY <1>1, <1>3, <1>4, <1>5 DEF NextRegistry

\* A command that looks for a registry, or makes one.
LEMMA AskingFacts ==
  ASSUME BaseInv, NEW p \in Procs, at[p] \in Asking
  PROVE  /\ mem[p].ask \in Asks /\ mem[p].ask.name \in Registries
         /\ mem[p].back \in {"regs", "create", "clusters"}
         /\ reg[mem[p].ask.name] \in RegistryStates
<1>1. Fits(req[p], at[p], mem[p]) /\ mem[p] \in Memories
  BY BaseFacts
<1> QED
  BY <1>1, BaseFacts, MemoryType DEF Fits, Asks

\* It may go on with what it was doing, whatever registry it found.
LEMMA BackFits ==
  ASSUME BaseInv, NEW p \in Procs, at[p] \in Asking,
         NEW place, place = mem[p].back \/ place \in Asking,
         NEW m, m.todo = mem[p].todo, m.later = mem[p].later, m.back = mem[p].back,
         m.ask.name = mem[p].ask.name
  PROVE  Fits(req[p], place, m)
<1>1. Fits(req[p], at[p], mem[p])
  BY BaseFacts
<1>2. place \in {"regs", "create", "clusters"} \cup Asking
  BY AskingFacts
<1> QED
  BY <1>1, <1>2 DEF Fits, ApplyPlaces, Asking, Over, HasCluster

LEMMA LookMoves ==
  ASSUME BaseInv, NEW p \in Procs, Look(p)
  PROVE  /\ at[p] = "look" /\ UNCHANGED <<world, owed>>
         /\ \E m :
              /\ m.todo = mem[p].todo /\ m.back = mem[p].back /\ m.ask.name = mem[p].ask.name
              /\ \/ /\ Suits(reg[mem[p].ask.name], mem[p].ask)
                    /\ Moves(p, mem[p].back, m) /\ m.port = reg[mem[p].ask.name].port
                 \/ /\ ~Suits(reg[mem[p].ask.name], mem[p].ask)
                    /\ Moves(p, IF reg[mem[p].ask.name].state = "absent" THEN "run" ELSE "drop", m)
                    /\ m.ask.port = IF mem[p].ask.port # 0 THEN mem[p].ask.port
                                    ELSE reg[mem[p].ask.name].port
<1>1. at[p] = "look" /\ UNCHANGED <<world, owed>> /\ req' = req /\ at[p] \in Asking
  BY DEF Look, Asking
<1>2. WorldTyped
  BY <1>1, SameWorld
<1>3. PICK ask, old : ask = mem[p].ask /\ old = reg[ask.name]
  OBVIOUS
<1>4. ask \in Asks /\ ask.name \in Registries /\ old \in RegistryStates
  BY <1>1, <1>3, AskingFacts
<1>5. mem[p] \in Memories
  BY BaseFacts
<1>6. CASE Suits(old, ask) /\ Goto(p, mem[p].back) /\ mem' = [mem EXCEPT ![p].port = old.port, ![p].nets = old.nets]
  <2>1. PICK m : m = [mem[p] EXCEPT !.port = old.port, !.nets = old.nets]
    OBVIOUS
  <2>2. Becomes(p, mem[p].back, m)
    BY <1>6, <2>1 DEF Goto, Becomes
  <2>3. /\ m \in Memories /\ m.todo = mem[p].todo /\ m.later = mem[p].later /\ m.back = mem[p].back
        /\ m.ask = ask /\ m.port = old.port
    BY <1>3, <1>4, <1>5, <2>1 DEF Memories, RegistryStates
  <2>4. Fits(req[p], mem[p].back, m)
    BY <1>1, <1>3, <2>3, BackFits
  <2>5. Moves(p, mem[p].back, m)
    BY <1>1, <1>2, <2>2, <2>3, <2>4, BaseFacts, AskingFacts DEF Moves, InFlight
  <2> QED
    BY <1>1, <1>3, <1>6, <2>3, <2>5
<1>7. CASE /\ ~Suits(old, ask)
           /\ Goto(p, IF old.state = "absent" THEN "run" ELSE "drop")
           /\ mem' = [mem EXCEPT ![p].ask.port = IF ask.port # 0 THEN ask.port ELSE old.port,
                                 ![p].ask.k3d = ask.k3d \/ old.k3d]
  <2>1. PICK new : new = [ask EXCEPT !.port = IF ask.port # 0 THEN ask.port ELSE old.port,
                                     !.k3d = ask.k3d \/ old.k3d]
    OBVIOUS
  <2>2. new \in Asks /\ new.name = ask.name /\ new.port = IF ask.port # 0 THEN ask.port ELSE old.port
    BY <1>4, <2>1 DEF Asks, RegistryStates
  <2>3. PICK m : m = [mem[p] EXCEPT !.ask = new]
    OBVIOUS
  <2>4. /\ m \in Memories /\ m.todo = mem[p].todo /\ m.later = mem[p].later /\ m.back = mem[p].back
        /\ m.ask = new
    BY <1>5, <2>2, <2>3 DEF Memories, Asks
  <2>5. PICK place : place = IF old.state = "absent" THEN "run" ELSE "drop"
    OBVIOUS
  <2>6. Becomes(p, place, m)
    <3>1. at' = [at EXCEPT ![p] = place]
      BY <1>7, <2>5 DEF Goto
    <3>2. PICK port, k3d : /\ port = IF ask.port # 0 THEN ask.port ELSE old.port
                           /\ k3d = (ask.k3d \/ old.k3d)
      OBVIOUS
    <3>3. mem' = [mem EXCEPT ![p].ask.port = port, ![p].ask.k3d = k3d]
      BY <1>7, <3>2
    <3>4. m = [mem[p] EXCEPT !.ask = [mem[p].ask EXCEPT !.port = port, !.k3d = k3d]]
      BY <1>3, <2>1, <2>3, <3>2
    <3>5. mem' = [mem EXCEPT ![p] = m]
      BY <3>3, <3>4
    <3> QED
      BY <3>1, <3>5 DEF Becomes
  <2>7. Fits(req[p], place, m)
    BY <1>1, <1>3, <2>2, <2>4, <2>5, BackFits DEF Asking
  <2>8. Moves(p, place, m)
    BY <1>1, <1>2, <2>4, <2>5, <2>6, <2>7, BaseFacts DEF Moves, InFlight
  <2> QED
    BY <1>1, <1>3, <1>7, <2>2, <2>4, <2>5, <2>8
<1> QED
  BY <1>3, <1>6, <1>7 DEF Look

\* A step that leaves a command's memory alone.
LEMMA StayMoves ==
  ASSUME BaseInv, NEW p \in Procs, NEW place \in InFlight, Goto(p, place), UNCHANGED mem,
         req' = req, WorldTyped, Fits(req[p], place, mem[p])
  PROVE  Moves(p, place, mem[p])
<1>1. mem' = [mem EXCEPT ![p] = mem[p]]
  BY DEF BaseInv, TypeOK
<1> QED
  BY <1>1, BaseFacts DEF Moves, Becomes, Goto

LEMMA DropMoves ==
  ASSUME BaseInv, NEW p \in Procs, Drop(p)
  PROVE  /\ at[p] = "drop" /\ cluster' = cluster /\ owed' = owed
         /\ \/ Moves(p, "failed", Blank) /\ reg' = reg
            \/ Moves(p, "run", mem[p]) /\ reg' = [reg EXCEPT ![mem[p].ask.name] = NoRegistry]
<1>1. at[p] = "drop" /\ cluster' = cluster /\ owed' = owed /\ req' = req /\ at[p] \in Asking
  BY DEF Drop, Asking
<1>2. CASE Return(p, "failed") /\ UNCHANGED reg
  <2>1. WorldTyped
    BY <1>1, <1>2, SameWorld DEF world
  <2> QED
    BY <1>1, <1>2, <2>1, ReturnMoves DEF Over, InFlight
<1>3. CASE Goto(p, "run") /\ reg' = [reg EXCEPT ![mem[p].ask.name] = NoRegistry] /\ UNCHANGED mem
  <2>1. NoRegistry \in RegistryStates
    BY CommandsAssumption DEF NoRegistry, RegistryStates, PortOrNone
  <2>2. WorldTyped
    BY <1>1, <1>3, <2>1, BaseFacts DEF WorldTyped
  <2>3. Fits(req[p], "run", mem[p])
    BY <1>1, BackFits DEF Asking
  <2> QED
    BY <1>1, <1>3, <2>2, <2>3, StayMoves DEF InFlight
<1> QED
  BY <1>2, <1>3 DEF Drop

LEMMA RunMoves ==
  ASSUME BaseInv, NEW p \in Procs, Run(p)
  PROVE  /\ at[p] = "run" /\ cluster' = cluster /\ owed' = owed
         /\ \E port \in Ports, made \in RegistryStates :
              /\ mem[p].ask.port # 0 => port = mem[p].ask.port
              /\ reg' = [reg EXCEPT ![mem[p].ask.name] = made]
              /\ \/ /\ ~Taken(mem[p].ask.name, port)
                    /\ made.state = "up" /\ made.port = port
                    /\ \E m :
                         /\ Moves(p, mem[p].back, m)
                         /\ m.todo = mem[p].todo /\ m.back = mem[p].back /\ m.port = port
                 \/ /\ Taken(mem[p].ask.name, port)
                    /\ made.state = "dead" /\ made.port = 0
                    /\ Moves(p, "failed", Blank)
<1>1. at[p] = "run" /\ cluster' = cluster /\ owed' = owed /\ req' = req /\ at[p] \in Asking
  BY DEF Run, Asking
<1>2. PICK ask : ask = mem[p].ask
  OBVIOUS
<1>3. ask \in Asks /\ ask.name \in Registries /\ mem[p] \in Memories
  BY <1>1, <1>2, AskingFacts, BaseFacts
<1>4. PICK port, made :
        /\ port \in IF ask.port # 0 THEN {ask.port} ELSE {q \in Ports : ~Taken(ask.name, q)}
        /\ made = [state |-> "up", port |-> port, k3d |-> ask.k3d, nets |-> {}]
        /\ \/ /\ ~Taken(ask.name, port)
              /\ reg' = [reg EXCEPT ![ask.name] = made]
              /\ Goto(p, mem[p].back)
              /\ mem' = [mem EXCEPT ![p].port = port, ![p].nets = {}]
           \/ /\ Taken(ask.name, port)
              /\ reg' = [reg EXCEPT ![ask.name] = [made EXCEPT !.state = "dead", !.port = 0]]
              /\ Return(p, "failed")
  BY <1>2 DEF Run
<1>5. port \in Ports /\ (ask.port # 0 => port = ask.port) /\ port # 0 /\ port \in PortOrNone
  BY <1>3, <1>4, CommandsAssumption DEF Asks, PortOrNone
<1>6. made \in RegistryStates /\ made.state = "up" /\ made.port = port
  BY <1>3, <1>4, <1>5 DEF RegistryStates, Asks
<1>7. CASE /\ ~Taken(ask.name, port)
           /\ reg' = [reg EXCEPT ![ask.name] = made]
           /\ Goto(p, mem[p].back)
           /\ mem' = [mem EXCEPT ![p].port = port, ![p].nets = {}]
  <2>1. WorldTyped
    BY <1>1, <1>6, <1>7, BaseFacts DEF WorldTyped
  <2>2. PICK m : m = [mem[p] EXCEPT !.port = port, !.nets = {}]
    OBVIOUS
  <2>3. Becomes(p, mem[p].back, m)
    BY <1>7, <2>2 DEF Goto, Becomes
  <2>4. /\ m \in Memories /\ m.todo = mem[p].todo /\ m.later = mem[p].later /\ m.back = mem[p].back
        /\ m.ask = ask /\ m.port = port
    BY <1>2, <1>3, <1>5, <2>2 DEF Memories
  <2>5. Fits(req[p], mem[p].back, m)
    BY <1>1, <1>2, <2>4, BackFits
  <2>6. Moves(p, mem[p].back, m)
    BY <1>1, <2>1, <2>3, <2>4, <2>5, BaseFacts, AskingFacts DEF Moves, InFlight
  <2> QED
    BY <1>1, <1>2, <1>5, <1>6, <1>7, <2>4, <2>6
<1>8. CASE /\ Taken(ask.name, port)
           /\ reg' = [reg EXCEPT ![ask.name] = [made EXCEPT !.state = "dead", !.port = 0]]
           /\ Return(p, "failed")
  <2>1. PICK dead : dead = [made EXCEPT !.state = "dead", !.port = 0]
    OBVIOUS
  <2>2. dead \in RegistryStates /\ dead.state = "dead" /\ dead.port = 0
    BY <1>6, <2>1 DEF RegistryStates, PortOrNone
  <2>3. reg' = [reg EXCEPT ![ask.name] = dead]
    BY <1>8, <2>1
  <2>4. WorldTyped
    BY <1>1, <2>2, <2>3, BaseFacts DEF WorldTyped
  <2>5. Moves(p, "failed", Blank)
    BY <1>1, <1>8, <2>4, ReturnMoves DEF Over, InFlight
  <2> QED
    BY <1>1, <1>2, <1>5, <1>8, <2>2, <2>3, <2>5
<1> QED
  BY <1>4, <1>7, <1>8

\* A command that is done with its last cluster, or goes on to the next.
LEMMA NextClusterMoves ==
  ASSUME BaseInv, NEW p \in Procs, NextCluster(p)
  PROVE  /\ at[p] = "clusters" /\ UNCHANGED <<world, owed>>
         /\ \/ Finished(p) /\ Moves(p, "done", Blank)
            \/ Moves(p, "failed", Blank)
            \/ /\ ~Finished(p) /\ Item(p).kind # "Cluster"
               /\ \E m : Moves(p, "clusters", m) /\ m.todo = Tail(mem[p].todo)
            \/ /\ ~Finished(p) /\ Item(p).kind = "Cluster" /\ Moves(p, "inspect", mem[p])
<1>1. at[p] = "clusters" /\ UNCHANGED <<world, owed>> /\ req' = req /\ at[p] \in ApplyPlaces
  BY DEF NextCluster, ApplyPlaces
<1>2. WorldTyped
  BY <1>1, SameWorld
<1>3. CASE Finished(p) /\ Return(p, "done")
  BY <1>1, <1>2, <1>3, ReturnMoves DEF Over, InFlight
<1>4. CASE ~Finished(p) /\ Item(p).kind # "Cluster" /\ Advance(p, "clusters")
  BY <1>1, <1>2, <1>4, AdvanceMoves
<1>5. CASE Return(p, "failed")
  BY <1>1, <1>2, <1>5, ReturnMoves DEF Over, InFlight
<1>6. CASE ~Finished(p) /\ Item(p).kind = "Cluster" /\ Item(p).product # None /\ Goto(p, "inspect") /\ UNCHANGED mem
  <2>1. Fits(req[p], "inspect", mem[p])
    BY <1>1, <1>6, BaseFacts DEF Fits, ApplyPlaces, Asking, Over, HasCluster, Item, Finished
  <2> QED
    BY <1>1, <1>2, <1>6, <2>1, StayMoves DEF InFlight
<1> QED
  BY <1>3, <1>4, <1>5, <1>6 DEF NextCluster

\* The cluster at hand.
LEMMA ClusterFacts ==
  ASSUME BaseInv, NEW p \in Procs, at[p] \in {"inspect", "remove", "create", "join", "hosting"}
  PROVE  /\ ~Finished(p) /\ Item(p) \in Asked(p)
         /\ Item(p).kind = "Cluster" /\ Item(p).product \in {"kind", "k3d"}
         /\ FullName(Item(p)) \in Clusters /\ Item(p).registry \in Registries \cup {None}
         /\ at[p] \in {"remove", "join", "hosting"} => Item(p).registry \in Registries
         /\ at[p] \in ApplyPlaces
<1>1. Fits(req[p], at[p], mem[p]) /\ at[p] \in ApplyPlaces /\ HasCluster(at[p], mem[p])
  BY BaseFacts DEF ApplyPlaces, HasCluster
<1>2. ~Finished(p) /\ Item(p).kind = "Cluster" /\ Item(p).product # None
  BY <1>1 DEF Fits, Finished, Item
<1>3. at[p] \in {"remove", "join", "hosting"} => Item(p).registry # None
  BY <1>1 DEF Fits, Item
<1> QED
  BY <1>1, <1>2, <1>3, ItemAsked

\* A registry is to be ensured for the cluster at hand.
LEMMA EnsureMoves ==
  ASSUME BaseInv, NEW p \in Procs, at[p] \in {"inspect", "remove", "create", "join", "hosting"},
         Item(p).registry # None, req' = req, WorldTyped,
         NEW back \in {"create", "clusters"},
         NEW todo \in {mem[p].todo, Tail(mem[p].todo)}, back = "create" => todo = mem[p].todo,
         Ensure(p, back, todo)
  PROVE  \E m :
           /\ Moves(p, "look", m) /\ m.ask.name = Item(p).registry /\ m.ask.port = 0
           /\ m.back = back /\ m.todo = todo
<1>1. PICK ask : ask = [name |-> Item(p).registry, port |-> 0, k3d |-> Item(p).product = "k3d"]
  OBVIOUS
<1>2. Ask(p, ask, back, todo)
  BY <1>1 DEF Ensure
<1>3. ask \in Asks /\ ask.name \in Registries
  BY <1>1, ClusterFacts DEF Asks, PortOrNone
<1>4. MayAsk(p, ask, back, todo)
  BY <1>3, ClusterFacts, CommandsAssumption DEF MayAsk
<1>5. \E m : Moves(p, "look", m) /\ m.ask = ask /\ m.back = back /\ m.todo = todo
  BY <1>2, <1>4, AskMoves
<1> QED
  BY <1>1, <1>5

LEMMA InspectMoves ==
  ASSUME BaseInv, NEW p \in Procs, Inspect(p)
  PROVE  /\ at[p] = "inspect" /\ UNCHANGED <<world, owed>>
         /\ \/ Moves(p, "remove", mem[p])
            \/ Item(p).registry = None /\ Moves(p, "create", mem[p])
            \/ \E m :
                 /\ Moves(p, "look", m) /\ m.ask.name = Item(p).registry /\ m.ask.port = 0
                 /\ m.back = "create" /\ m.todo = mem[p].todo
            \/ /\ cluster[FullName(Item(p))].state = "up"
               /\ Item(p).registry = StatusRegistry(FullName(Item(p)))
               /\ \E m :
                    /\ Moves(p, "look", m) /\ m.ask.name = Item(p).registry /\ m.ask.port = 0
                    /\ m.back = "clusters" /\ m.todo = Tail(mem[p].todo)
            \/ /\ cluster[FullName(Item(p))].state = "up" /\ Item(p).registry = None
               /\ \E m : Moves(p, "clusters", m) /\ m.todo = Tail(mem[p].todo)
<1>1. at[p] = "inspect" /\ UNCHANGED <<world, owed>> /\ req' = req
  BY DEF Inspect
<1>2. WorldTyped
  BY <1>1, SameWorld
<1>3. PICK name : name = FullName(Item(p))
  OBVIOUS
<1>4. name \in Clusters /\ ~Finished(p)
  BY <1>1, <1>3, ClusterFacts
<1>5. Fits(req[p], at[p], mem[p]) /\ req[p].kind = "apply"
  BY <1>1, BaseFacts DEF Fits, ApplyPlaces
<1>6. CASE Exists(name) /\ Item(p).registry \notin {None, StatusRegistry(name)} /\ Goto(p, "remove") /\ UNCHANGED mem
  <2>1. Fits(req[p], "remove", mem[p])
    BY <1>1, <1>5, <1>6 DEF Fits, ApplyPlaces, Asking, Over, HasCluster, Item
  <2> QED
    BY <1>1, <1>2, <1>6, <2>1, StayMoves DEF InFlight
<1>7. CASE BeforeCreate(p)
  <2>1. CASE Item(p).registry # None /\ Ensure(p, "create", mem[p].todo)
    <3>1. PICK todo : todo = mem[p].todo
      OBVIOUS
    <3>2. Ensure(p, "create", todo) /\ Item(p).registry # None
      BY <2>1, <3>1
    <3> QED
      BY <1>1, <1>2, <3>1, <3>2, EnsureMoves
  <2>2. CASE Item(p).registry = None /\ Goto(p, "create") /\ UNCHANGED mem
    <3>1. Fits(req[p], "create", mem[p])
      BY <1>1, <1>5 DEF Fits, ApplyPlaces, Asking, Over, HasCluster, Item
    <3> QED
      BY <1>1, <1>2, <2>2, <3>1, StayMoves DEF InFlight
  <2> QED
    BY <1>7, <2>1, <2>2 DEF BeforeCreate
<1>8. ASSUME cluster[name].state = "up",
             ~(Exists(name) /\ Item(p).registry \notin {None, StatusRegistry(name)}),
             Item(p).registry # None /\ Ensure(p, "clusters", Tail(mem[p].todo))
      PROVE  /\ Item(p).registry = StatusRegistry(name)
             /\ \E m :
                    /\ Moves(p, "look", m) /\ m.ask.name = Item(p).registry /\ m.ask.port = 0
                    /\ m.back = "clusters" /\ m.todo = Tail(mem[p].todo)
  <2>1. Item(p).registry = StatusRegistry(name)
    BY <1>4, <1>8 DEF Exists
  <2>2. PICK todo : todo = Tail(mem[p].todo)
    OBVIOUS
  <2>3. Ensure(p, "clusters", todo) /\ Item(p).registry # None /\ todo \in {mem[p].todo, Tail(mem[p].todo)}
    BY <1>8, <2>2
  <2>4. \E m :
          /\ Moves(p, "look", m) /\ m.ask.name = Item(p).registry /\ m.ask.port = 0
          /\ m.back = "clusters" /\ m.todo = todo
    BY <1>1, <1>2, <2>2, <2>3, EnsureMoves
  <2> QED
    BY <2>1, <2>2, <2>4
<1>9. CASE cluster[name].state = "up" /\ Item(p).registry = None /\ Advance(p, "clusters")
  <2>1. \E m : Moves(p, "clusters", m) /\ m.todo = Tail(mem[p].todo)
    BY <1>1, <1>2, <1>4, <1>9, AdvanceMoves DEF ApplyPlaces
  <2> QED
    BY <1>1, <1>3, <1>9, <2>1
<1> QED
  BY <1>1, <1>3, <1>6, <1>7, <1>8, <1>9 DEF Inspect

\* But for their networks the registries stay what they are.
SameRegistries ==
  \A r \in Registries : reg'[r].state = reg[r].state /\ reg'[r].port = reg[r].port

\* What there is after a cluster is removed.
LEMMA RemoveFacts ==
  ASSUME BaseInv, NEW name, RemoveCluster(name)
  PROVE  /\ WorldTyped /\ SameRegistries
         /\ cluster' = [cluster EXCEPT ![name] = NoCluster]
<1>1. NoCluster \in ClusterStates
  BY DEF NoCluster, ClusterStates, PortOrNone
<1>2. cluster' = [cluster EXCEPT ![name] = NoCluster]
  BY DEF RemoveCluster
<1>3. cluster' \in [Clusters -> ClusterStates]
  BY <1>1, <1>2, BaseFacts DEF BaseInv, TypeOK
<1>4. \A r \in Registries : reg'[r] = [reg[r] EXCEPT !.nets = @ \ {name}]
  BY DEF RemoveCluster
<1>5. \A r \in Registries : reg[r] \in RegistryStates
  BY DEF BaseInv, TypeOK
<1>6. \A r \in Registries : /\ reg'[r] \in RegistryStates
                            /\ reg'[r].state = reg[r].state /\ reg'[r].port = reg[r].port
  <2>1. SUFFICES ASSUME NEW r \in Registries
                 PROVE  /\ reg'[r] \in RegistryStates
                        /\ reg'[r].state = reg[r].state /\ reg'[r].port = reg[r].port
    OBVIOUS
  <2>2. PICK old, new : old = reg[r] /\ new = [old EXCEPT !.nets = @ \ {name}]
    OBVIOUS
  <2>3. new \in RegistryStates /\ new.state = old.state /\ new.port = old.port
    BY <1>5, <2>2 DEF RegistryStates
  <2> QED
    BY <1>4, <2>2, <2>3
<1>7. reg' \in [Registries -> RegistryStates]
  BY <1>6 DEF RemoveCluster
<1> QED
  BY <1>2, <1>3, <1>6, <1>7 DEF WorldTyped, SameRegistries

LEMMA RemoveOldMoves ==
  ASSUME BaseInv, NEW p \in Procs, RemoveOld(p)
  PROVE  /\ at[p] = "remove" /\ owed' = owed
         /\ \/ Moves(p, "failed", Blank) /\ UNCHANGED world
            \/ /\ RemoveCluster(FullName(Item(p)))
               /\ \E m :
                    /\ Moves(p, "look", m) /\ m.ask.name = Item(p).registry /\ m.ask.port = 0
                    /\ m.back = "create" /\ m.todo = mem[p].todo
<1>1. at[p] = "remove" /\ owed' = owed /\ req' = req
  BY DEF RemoveOld
<1>2. CASE Return(p, "failed") /\ UNCHANGED world
  BY <1>1, <1>2, SameWorld, ReturnMoves DEF Over, InFlight
<1>3. CASE RemoveCluster(FullName(Item(p))) /\ Ensure(p, "create", mem[p].todo)
  <2>1. WorldTyped
    BY <1>3, RemoveFacts
  <2>2. PICK todo : todo = mem[p].todo
    OBVIOUS
  <2>3. Ensure(p, "create", todo) /\ Item(p).registry # None
    BY <1>1, <1>3, <2>2, ClusterFacts, CommandsAssumption
  <2> QED
    BY <1>1, <1>3, <2>1, <2>2, <2>3, EnsureMoves
<1> QED
  BY <1>2, <1>3 DEF RemoveOld

\* A step that changes only the networks of the registries.
LEMMA NetsOnly ==
  ASSUME BaseInv, NEW N, reg' = [n \in Registries |-> [reg[n] EXCEPT !.nets = N[n]]],
         \A n \in Registries : N[n] \subseteq Networks
  PROVE  reg' \in [Registries -> RegistryStates] /\ SameRegistries
<1>1. SUFFICES ASSUME NEW n \in Registries
               PROVE  /\ reg'[n] \in RegistryStates
                      /\ reg'[n].state = reg[n].state /\ reg'[n].port = reg[n].port
  BY DEF SameRegistries
<1>2. PICK old, nets, new : old = reg[n] /\ nets = N[n] /\ new = [old EXCEPT !.nets = nets]
  OBVIOUS
<1>3. old \in RegistryStates /\ nets \subseteq Networks
  BY <1>2 DEF BaseInv, TypeOK
<1>4. new \in RegistryStates /\ new.state = old.state /\ new.port = old.port
  BY <1>2, <1>3 DEF RegistryStates
<1> QED
  BY <1>2, <1>4

LEMMA CreateMoves ==
  ASSUME BaseInv, NEW p \in Procs, Create(p)
  PROVE  /\ at[p] = "create" /\ owed' = owed /\ SameRegistries
         /\ \/ Moves(p, "failed", Blank)
            \/ \E c \in ClusterStates :
                 /\ cluster' = [cluster EXCEPT ![FullName(Item(p))] = c] /\ c.state = "up"
                 /\ \/ /\ Item(p).registry # None => c.hosting = mem[p].port
                       /\ \E m : Moves(p, "clusters", m) /\ m.todo = Tail(mem[p].todo)
                    \/ Moves(p, "join", mem[p])
<1>1. at[p] = "create" /\ owed' = owed /\ req' = req
  BY DEF Create
<1>2. PICK r, name : r = Item(p) /\ name = FullName(r)
  OBVIOUS
<1>3. /\ ~Finished(p) /\ name \in Clusters
      /\ r.product \in {"kind", "k3d"} /\ r.registry \in Registries \cup {None}
  BY <1>1, <1>2, ClusterFacts
<1>4. mem[p].port \in PortOrNone
  BY BaseFacts, MemoryType
<1>5. CASE RemoveCluster(name) /\ Return(p, "failed")
  BY <1>1, <1>5, RemoveFacts, ReturnMoves DEF Over, InFlight
<1>6. CASE /\ cluster' = [cluster EXCEPT ![name] =
                            [state |-> "up", hosting |-> IF r.registry # None THEN mem[p].port ELSE 0,
                             mirror |-> r.registry]]
           /\ reg' = [n \in Registries |->
                        [reg[n] EXCEPT !.nets = IF n = r.registry THEN @ \cup {name} ELSE @ \ {name}]]
           /\ Advance(p, "clusters")
  <2>1. PICK c : c = [state |-> "up", hosting |-> IF r.registry # None THEN mem[p].port ELSE 0,
                      mirror |-> r.registry]
    OBVIOUS
  <2>2. /\ c \in ClusterStates /\ c.state = "up" /\ c.hosting = IF r.registry # None THEN mem[p].port ELSE 0
        /\ cluster' = [cluster EXCEPT ![name] = c]
    BY <1>3, <1>4, <1>6, <2>1 DEF ClusterStates, PortOrNone
  <2>3. PICK N : N = [n \in Registries |-> IF n = r.registry THEN reg[n].nets \cup {name} ELSE reg[n].nets \ {name}]
    OBVIOUS
  <2>4. \A n \in Registries : reg[n].nets \subseteq Networks
    BY DEF BaseInv, TypeOK, RegistryStates
  <2>5. \A n \in Registries : N[n] \subseteq Networks
    BY <1>3, <2>3, <2>4 DEF Networks
  <2>6. reg' = [n \in Registries |-> [reg[n] EXCEPT !.nets = N[n]]]
    BY <1>6, <2>3
  <2>7. WorldTyped /\ SameRegistries
    BY <2>2, <2>5, <2>6, NetsOnly, BaseFacts DEF WorldTyped
  <2>8. \E m : Moves(p, "clusters", m) /\ m.todo = Tail(mem[p].todo)
    BY <1>1, <1>3, <1>6, <2>7, AdvanceMoves DEF ApplyPlaces
  <2> QED
    BY <1>1, <1>2, <2>2, <2>7, <2>8
<1>7. CASE /\ cluster' = [cluster EXCEPT ![name] = [state |-> "up", hosting |-> 0, mirror |-> r.registry]]
           /\ IF r.registry # None THEN Goto(p, "join") /\ UNCHANGED mem ELSE Advance(p, "clusters")
           /\ UNCHANGED reg
  <2>1. PICK c : c = [state |-> "up", hosting |-> 0, mirror |-> r.registry]
    OBVIOUS
  <2>2. c \in ClusterStates /\ c.state = "up" /\ cluster' = [cluster EXCEPT ![name] = c]
    BY <1>3, <1>7, <2>1 DEF ClusterStates, PortOrNone
  <2>3. WorldTyped /\ SameRegistries
    BY <1>7, <2>2, BaseFacts DEF WorldTyped, SameRegistries
  <2>4. CASE r.registry = None
    <3>1. \E m : Moves(p, "clusters", m) /\ m.todo = Tail(mem[p].todo)
      BY <1>1, <1>3, <1>7, <2>3, <2>4, AdvanceMoves DEF ApplyPlaces
    <3> QED
      BY <1>1, <1>2, <2>2, <2>3, <2>4, <3>1
  <2>5. CASE r.registry # None
    <3>1. Fits(req[p], at[p], mem[p])
      BY BaseFacts
    <3>2. Fits(req[p], "join", mem[p])
      BY <1>1, <1>2, <2>5, <3>1 DEF Fits, ApplyPlaces, Asking, Over, HasCluster, Item
    <3>3. Moves(p, "join", mem[p])
      BY <1>1, <1>7, <2>3, <2>5, <3>2, StayMoves DEF InFlight
    <3> QED
      BY <1>1, <1>2, <2>2, <2>3, <3>3
  <2> QED
    BY <2>4, <2>5
<1> QED
  BY <1>2, <1>5, <1>6, <1>7 DEF Create

LEMMA JoinMoves ==
  ASSUME BaseInv, NEW p \in Procs, Join(p)
  PROVE  /\ at[p] = "join" /\ owed' = owed /\ cluster' = cluster /\ SameRegistries
         /\ Moves(p, "failed", Blank) \/ Moves(p, "hosting", mem[p])
<1>1. at[p] = "join" /\ owed' = owed /\ cluster' = cluster /\ req' = req
  BY DEF Join
<1>2. PICK name : name = Item(p).registry
  OBVIOUS
<1>3. name \in Registries
  BY <1>1, <1>2, ClusterFacts
<1>4. WorldTyped /\ SameRegistries
  <2>1. CASE reg' = reg
    BY <1>1, <2>1, BaseFacts DEF WorldTyped, SameRegistries
  <2>2. CASE reg' = [reg EXCEPT ![name].nets = @ \cup {"kind"}]
    <3>1. PICK new : new = [reg[name] EXCEPT !.nets = @ \cup {"kind"}]
      OBVIOUS
    <3>2. reg[name] \in RegistryStates
      BY <1>3, BaseFacts
    <3>3. new \in RegistryStates /\ new.state = reg[name].state /\ new.port = reg[name].port
      BY <3>1, <3>2 DEF RegistryStates, Networks
    <3>4. reg' = [reg EXCEPT ![name] = new]
      BY <2>2, <3>1
    <3> QED
      BY <1>1, <1>3, <3>3, <3>4, BaseFacts DEF WorldTyped, SameRegistries
  <2> QED
    BY <1>2, <2>1, <2>2 DEF Join
<1>5. CASE Return(p, "failed")
  BY <1>1, <1>4, <1>5, ReturnMoves DEF Over, InFlight
<1>6. CASE Goto(p, "hosting") /\ UNCHANGED mem
  <2>1. Fits(req[p], at[p], mem[p])
    BY BaseFacts
  <2>2. Fits(req[p], "hosting", mem[p])
    BY <1>1, <2>1 DEF Fits, ApplyPlaces, Asking, Over, HasCluster
  <2> QED
    BY <1>1, <1>4, <1>6, <2>2, StayMoves DEF InFlight
<1> QED
  BY <1>5, <1>6 DEF Join

LEMMA HostingMoves ==
  ASSUME BaseInv, NEW p \in Procs, Hosting(p)
  PROVE  /\ at[p] = "hosting" /\ owed' = owed /\ reg' = reg
         /\ \/ Moves(p, "failed", Blank) /\ cluster' = cluster
            \/ \E c \in ClusterStates :
                 /\ cluster' = [cluster EXCEPT ![FullName(Item(p))] = c]
                 /\ c.state = "up" /\ c.hosting = mem[p].port
                 /\ \E m : Moves(p, "clusters", m) /\ m.todo = Tail(mem[p].todo)
<1>1. at[p] = "hosting" /\ owed' = owed /\ reg' = reg /\ req' = req
  BY DEF Hosting
<1>2. PICK name, old : name = FullName(Item(p)) /\ old = cluster[name]
  OBVIOUS
<1>3. name \in Clusters /\ old \in ClusterStates /\ ~Finished(p)
  BY <1>1, <1>2, ClusterFacts, BaseFacts
<1>4. CASE Return(p, "failed") /\ UNCHANGED cluster
  BY <1>1, <1>4, SameWorld, ReturnMoves DEF Over, InFlight, world
<1>5. CASE old.state = "up" /\ cluster' = [cluster EXCEPT ![name].hosting = mem[p].port] /\ Advance(p, "clusters")
  <2>1. PICK c : c = [old EXCEPT !.hosting = mem[p].port]
    OBVIOUS
  <2>2. mem[p].port \in PortOrNone
    BY BaseFacts, MemoryType
  <2>3. c \in ClusterStates /\ c.state = "up" /\ c.hosting = mem[p].port
    BY <1>3, <1>5, <2>1, <2>2 DEF ClusterStates
  <2>4. cluster' = [cluster EXCEPT ![name] = c]
    BY <1>2, <1>5, <2>1
  <2>5. WorldTyped
    BY <1>1, <2>3, <2>4, BaseFacts DEF WorldTyped
  <2>6. \E m : Moves(p, "clusters", m) /\ m.todo = Tail(mem[p].todo)
    BY <1>1, <1>3, <1>5, <2>5, AdvanceMoves DEF ApplyPlaces
  <2> QED
    BY <1>1, <1>2, <2>3, <2>4, <2>6
<1> QED
  BY <1>2, <1>4, <1>5 DEF Hosting

\* The registry in a cluster's status is one of the running ones.
LEMMA StatusFacts ==
  ASSUME NEW name
  PROVE  /\ StatusRegistry(name) \in Registries \cup {None}
         /\ StatusRegistry(name) # None =>
              /\ Exists(name) /\ cluster[name].state = "up"
              /\ Up(StatusRegistry(name)) /\ reg[StatusRegistry(name)].port = cluster[name].hosting
<1>1. CASE Exists(name) /\ cluster[name].state = "up" /\ cluster[name].hosting # 0
  <2>1. PICK hosts : hosts = {r \in Registries : Up(r) /\ reg[r].port = cluster[name].hosting}
    OBVIOUS
  <2>2. StatusRegistry(name) = IF hosts = {} THEN None ELSE CHOOSE r \in hosts : TRUE
    BY <1>1, <2>1 DEF StatusRegistry
  <2>3. CASE hosts = {}
    BY <2>2, <2>3
  <2>4. CASE hosts # {}
    <3>1. StatusRegistry(name) \in hosts
      BY <2>2, <2>4
    <3> QED
      BY <1>1, <2>1, <3>1
  <2> QED
    BY <2>3, <2>4
<1>2. CASE ~(Exists(name) /\ cluster[name].state = "up" /\ cluster[name].hosting # 0)
  BY <1>2 DEF StatusRegistry
<1> QED
  BY <1>1, <1>2

\* A registry of this name is in the list.
Seen(list, name) == \E i \in DOMAIN list : list[i].kind = "Registry" /\ list[i].name = name

\* A list with one resource more.
LEMMA OneMore ==
  ASSUME NEW list \in Seq(Listed), NEW r \in Listed
  PROVE  /\ list \o <<r>> \in Seq(Listed)
         /\ Len(list) \in Nat /\ DOMAIN list = 1..Len(list) /\ DOMAIN (list \o <<r>>) = 1..(Len(list) + 1)
         /\ \A i \in 1..Len(list) : (list \o <<r>>)[i] = list[i]
         /\ (list \o <<r>>)[Len(list) + 1] = r
         /\ Range(list \o <<r>>) = Range(list) \cup {r}
<1>1. <<r>> \in Seq(Listed) /\ Range(<<r>>) = {r} /\ Len(<<r>>) = 1
  BY DEF Range
<1>2. list \o <<r>> \in Seq(Listed) /\ Range(list \o <<r>>) = Range(list) \cup {r}
  <2>1. PICK one : one = <<r>>
    OBVIOUS
  <2>2. one \in Seq(Listed) /\ Range(one) = {r}
    BY <1>1, <2>1
  <2>3. list \o one \in Seq(Listed) /\ Range(list \o one) = Range(list) \cup Range(one)
    BY <2>2, ConcatRange
  <2> QED
    BY <2>1, <2>2, <2>3
<1>3. Len(list) \in Nat /\ DOMAIN list = 1..Len(list)
  BY LenProperties
<1>4. Len(list \o <<r>>) = Len(list) + 1
  BY <1>1, <1>3, ConcatProperties
<1>5. DOMAIN (list \o <<r>>) = 1..(Len(list) + 1)
  BY <1>2, <1>4, LenProperties
<1>6. \A i \in 1..Len(list) : (list \o <<r>>)[i] = list[i]
  BY <1>1, <1>3
<1>7. (list \o <<r>>)[Len(list) + 1] = r
  BY <1>1, <1>3
<1> QED
  BY <1>2, <1>3, <1>5, <1>6, <1>7

LEMMA OneMoreOnce ==
  ASSUME NEW list \in Seq(Listed), NEW r \in Listed, NoRegistryTwice(list),
         r.kind = "Registry" => ~Seen(list, r.name)
  PROVE  NoRegistryTwice(list \o <<r>>)
<1>1. PICK longer : longer = list \o <<r>>
  OBVIOUS
<1>2. /\ Len(list) \in Nat /\ DOMAIN list = 1..Len(list) /\ DOMAIN longer = 1..(Len(list) + 1)
      /\ \A i \in 1..Len(list) : longer[i] = list[i]
      /\ longer[Len(list) + 1] = r
  BY <1>1, OneMore
<1>3. ASSUME NEW i \in DOMAIN longer, NEW j \in DOMAIN longer,
             longer[i].kind = "Registry", longer[j].kind = "Registry", longer[i].name = longer[j].name
      PROVE  i = j
  <2>1. CASE i \in DOMAIN list /\ j \in DOMAIN list
    BY <1>2, <1>3, <2>1 DEF NoRegistryTwice
  <2>2. CASE i \in DOMAIN list /\ j = Len(list) + 1
    BY <1>2, <1>3, <2>2 DEF Seen
  <2>3. CASE i = Len(list) + 1 /\ j \in DOMAIN list
    BY <1>2, <1>3, <2>3 DEF Seen
  <2>4. CASE i = Len(list) + 1 /\ j = Len(list) + 1
    BY <2>4
  <2> QED
    BY <1>2, <1>3, <2>1, <2>2, <2>3, <2>4
<1> QED
  BY <1>1, <1>3 DEF NoRegistryTwice

\* The list after a resource of the command and the registry that it leads to.
Longer(r, registry, list, longer) ==
  \/ r.kind = "Registry" /\ Seen(list, r.name) /\ longer = list
  \/ r.kind = "Registry" /\ ~Seen(list, r.name) /\ longer = list \o <<r>>
  \/ r.kind = "Cluster" /\ (registry = None \/ Seen(list, registry)) /\ longer = list \o <<r>>
  \/ /\ r.kind = "Cluster" /\ registry \in Registries /\ ~Seen(list, registry)
     /\ longer = (list \o <<Registry(registry, 0)>>) \o <<r>>

LEMMA CascadeFacts ==
  ASSUME NEW r \in Listed, r.kind \in {"Cluster", "Registry"},
         NEW list \in Seq(Listed), NEW registry \in Registries \cup {None}, NoRegistryTwice(list)
  PROVE  \E longer \in Seq(Listed) :
           /\ longer = list \o Cascade(r, registry, list)
           /\ Longer(r, registry, list, longer) /\ NoRegistryTwice(longer)
<1>1. PICK extra : extra = Registry(registry, 0)
  OBVIOUS
<1>2. registry # None => extra \in Listed /\ extra.kind = "Registry" /\ extra.name = registry
  <2>1. extra.kind = "Registry" /\ extra.name = registry
    BY <1>1, RecordFacts
  <2>2. registry # None => extra \in {Registry(name, 0) : name \in Registries}
    BY <1>1 DEF Registry
  <2> QED
    BY <2>1, <2>2 DEF Listed
<1>3. <<>> \in Seq(Listed) /\ list \o <<>> = list /\ <<>> \o <<r>> = <<r>>
  BY ConcatEmptySeq
<1>4. CASE r.kind = "Registry" /\ Seen(list, r.name)
  <2>1. Cascade(r, registry, list) = <<>>
    BY <1>4 DEF Cascade, Seen
  <2> QED
    BY <1>3, <1>4, <2>1 DEF Longer
<1>5. CASE r.kind = "Registry" /\ ~Seen(list, r.name)
  <2>1. Cascade(r, registry, list) = <<r>>
    BY <1>5 DEF Cascade, Seen
  <2> QED
    BY <1>5, <2>1, OneMore, OneMoreOnce DEF Longer
<1>6. CASE r.kind = "Cluster" /\ (registry = None \/ Seen(list, registry))
  <2>1. Cascade(r, registry, list) = <<r>>
    BY <1>3, <1>6 DEF Cascade, Seen
  <2> QED
    BY <1>6, <2>1, OneMore, OneMoreOnce DEF Longer
<1>7. CASE r.kind = "Cluster" /\ registry # None /\ ~Seen(list, registry)
  <2>1. Cascade(r, registry, list) = <<extra>> \o <<r>>
    BY <1>1, <1>7 DEF Cascade, Seen
  <2>2. PICK more : more = list \o <<extra>>
    OBVIOUS
  <2>3. more \in Seq(Listed) /\ NoRegistryTwice(more)
    BY <1>2, <1>7, <2>2, OneMore, OneMoreOnce
  <2>4. more \o <<r>> \in Seq(Listed) /\ NoRegistryTwice(more \o <<r>>)
    BY <1>7, <2>3, OneMore, OneMoreOnce
  <2>5. <<extra>> \in Seq(Listed) /\ <<r>> \in Seq(Listed)
    BY <1>2, <1>7
  <2>6. list \o (<<extra>> \o <<r>>) = more \o <<r>>
    BY <2>2, <2>5, ConcatAssociative
  <2>7. Longer(r, registry, list, more \o <<r>>)
    BY <1>1, <1>7, <2>2 DEF Longer
  <2> QED
    BY <2>1, <2>4, <2>6, <2>7
<1> QED
  BY <1>4, <1>5, <1>6, <1>7

LEMMA RegistryOfFacts ==
  ASSUME NEW q \in Requests, Other \notin Range(q.resources), NEW r \in Range(q.resources)
  PROVE  RegistryOf(r) \in Registries \cup {None}
BY ResourceFacts, StatusFacts DEF RegistryOf

LEMMA NextCascadeMoves ==
  ASSUME BaseInv, NEW p \in Procs, NextCascade(p)
  PROVE  /\ at[p] = "cascade" /\ UNCHANGED <<world, owed>>
         /\ \/ Finished(p) /\ \E m : Moves(p, "delete", m) /\ m.todo = mem[p].later
            \/ /\ ~Finished(p) /\ Item(p) \in Asked(p) /\ Item(p).kind \in {"Cluster", "Registry"}
               /\ \E m :
                    /\ Moves(p, "cascade", m) /\ m.todo = Tail(mem[p].todo)
                    /\ Longer(Item(p), RegistryOf(Item(p)), mem[p].later, m.later)
<1>1. at[p] = "cascade" /\ UNCHANGED <<world, owed>> /\ req' = req
  BY DEF NextCascade
<1>2. WorldTyped
  BY <1>1, SameWorld
<1>3. Fits(req[p], at[p], mem[p]) /\ mem[p] \in Memories
  BY BaseFacts
<1>4. CASE Finished(p) /\ Goto(p, "delete") /\ mem' = [mem EXCEPT ![p].todo = mem[p].later, ![p].later = <<>>]
  <2>1. PICK m : m = [mem[p] EXCEPT !.todo = mem[p].later, !.later = <<>>]
    OBVIOUS
  <2>2. Becomes(p, "delete", m)
    BY <1>4, <2>1 DEF Goto, Becomes
  <2>3. m \in Memories /\ m.todo = mem[p].later /\ m.later = <<>>
    <3>1. <<>> \in Seq(Listed) /\ mem[p].later \in Seq(Listed)
      BY <1>3, MemoryType, EmptySeq
    <3>2. PICK none : none = <<>>
      OBVIOUS
    <3> QED
      BY <1>3, <2>1, <3>1, <3>2 DEF Memories
  <2>4. Fits(req[p], "delete", m)
    BY <1>1, <1>3, <2>3 DEF Fits, ApplyPlaces, Asking, Over, HasCluster
  <2> QED
    BY <1>1, <1>2, <1>4, <2>2, <2>3, <2>4, NothingTwice DEF Moves, InFlight
<1>5. ASSUME ~Finished(p), UNCHANGED at, NEW r, r = Item(p), NEW registry, registry = RegistryOf(r),
             mem' = [mem EXCEPT ![p].todo = Tail(@), ![p].later = @ \o Cascade(r, registry, @)]
      PROVE  /\ Item(p) \in Asked(p) /\ Item(p).kind \in {"Cluster", "Registry"}
             /\ \E m :
                    /\ Moves(p, "cascade", m) /\ m.todo = Tail(mem[p].todo)
                    /\ Longer(Item(p), RegistryOf(Item(p)), mem[p].later, m.later)
  <2>1. Other \notin Range(req[p].resources) /\ Range(mem[p].todo) \subseteq Range(req[p].resources)
    BY <1>1, <1>3 DEF Fits, Over
  <2>2. /\ r \in Listed /\ r \in Range(req[p].resources) /\ Tail(mem[p].todo) \in Seq(Listed)
        /\ Range(Tail(mem[p].todo)) \subseteq Range(req[p].resources)
    BY <1>5, <2>1, ItemFacts
  <2>3. r.kind \in {"Cluster", "Registry"} /\ registry \in Registries \cup {None}
    BY <1>5, <2>1, <2>2, BaseFacts, ResourceFacts, RegistryOfFacts
  <2>4. mem[p].later \in Seq(Listed) /\ NoRegistryTwice(mem[p].later)
    BY <1>3, BaseFacts, MemoryType
  <2>5. PICK longer \in Seq(Listed) :
          /\ longer = mem[p].later \o Cascade(r, registry, mem[p].later)
          /\ Longer(r, registry, mem[p].later, longer) /\ NoRegistryTwice(longer)
    BY <2>2, <2>3, <2>4, CascadeFacts
  <2>6. PICK m : m = [mem[p] EXCEPT !.todo = Tail(mem[p].todo), !.later = longer]
    OBVIOUS
  <2>7. m \in Memories /\ m.todo = Tail(mem[p].todo) /\ m.later = longer
    BY <1>3, <2>2, <2>6 DEF Memories
  <2>8. at' = [at EXCEPT ![p] = "cascade"]
    BY <1>1, <1>5 DEF BaseInv, TypeOK
  <2>9. mem' = [mem EXCEPT ![p] = m]
    BY <1>5, <2>5, <2>6
  <2>10. Fits(req[p], "cascade", m)
    BY <1>1, <1>3, <2>1, <2>2, <2>7 DEF Fits, ApplyPlaces, Asking, Over, HasCluster
  <2>11. Moves(p, "cascade", m)
    BY <1>1, <1>2, <2>5, <2>7, <2>8, <2>9, <2>10 DEF Moves, Becomes, InFlight
  <2> QED
    BY <1>5, <2>2, <2>3, <2>5, <2>7, <2>11 DEF Asked
<1> QED
  BY <1>1, <1>4, <1>5 DEF NextCascade

\* The first of the list is deleted, or is not there.
Deletes(r) ==
  \/ /\ r.kind = "Cluster" /\ Exists(Normalize(FullName(r)))
     /\ RemoveCluster(Normalize(FullName(r)))
  \/ /\ r.kind = "Registry"
     /\ reg' = [reg EXCEPT ![FullName(r)] = NoRegistry] /\ cluster' = cluster
  \/ /\ r.kind = "Cluster" => ~Exists(Normalize(FullName(r)))
     /\ r.kind = "Registry" => ~HasContainer(FullName(r))
     /\ UNCHANGED world

LEMMA NextDeleteMoves ==
  ASSUME BaseInv, NEW p \in Procs, NextDelete(p)
  PROVE  /\ at[p] = "delete" /\ owed' = owed
         /\ \/ UNCHANGED world /\ Moves(p, "failed", Blank)
            \/ UNCHANGED world /\ Moves(p, "done", Blank) /\ Finished(p)
            \/ /\ ~Finished(p) /\ Deletes(Item(p))
               /\ \E m : Moves(p, "delete", m) /\ m.todo = Tail(mem[p].todo)
<1>1. at[p] = "delete" /\ owed' = owed /\ req' = req
  BY DEF NextDelete
<1>2. CASE Finished(p) /\ Return(p, "done") /\ UNCHANGED world
  BY <1>1, <1>2, SameWorld, ReturnMoves DEF Over, InFlight
<1>3. CASE Return(p, "failed") /\ UNCHANGED world
  BY <1>1, <1>3, SameWorld, ReturnMoves DEF Over, InFlight
<1>4. ASSUME ~Finished(p), Deletes(Item(p)), Advance(p, "delete")
      PROVE  \E m : Moves(p, "delete", m) /\ m.todo = Tail(mem[p].todo)
  <2>1. PICK r : r = Item(p)
    OBVIOUS
  <2>2. CASE RemoveCluster(Normalize(FullName(r)))
    BY <1>1, <1>4, <2>2, RemoveFacts, AdvanceMoves
  <2>3. CASE reg' = [reg EXCEPT ![FullName(r)] = NoRegistry] /\ cluster' = cluster
    <3>1. NoRegistry \in RegistryStates
      BY CommandsAssumption DEF NoRegistry, RegistryStates, PortOrNone
    <3>2. WorldTyped
      BY <2>3, <3>1, BaseFacts DEF WorldTyped, BaseInv, TypeOK
    <3> QED
      BY <1>1, <1>4, <3>2, AdvanceMoves
  <2>4. CASE UNCHANGED world
    BY <1>1, <1>4, <2>4, SameWorld, AdvanceMoves
  <2> QED
    BY <1>4, <2>1, <2>2, <2>3, <2>4 DEF Deletes
<1>5. \/ Finished(p) /\ Return(p, "done") /\ UNCHANGED world
      \/ Return(p, "failed") /\ UNCHANGED world
      \/ ~Finished(p) /\ Deletes(Item(p)) /\ Advance(p, "delete")
  BY DEF NextDelete, Deletes
<1> QED
  BY <1>1, <1>2, <1>3, <1>4, <1>5

LEMMA GetMoves ==
  ASSUME BaseInv, NEW p \in Procs, Get(p)
  PROVE  /\ at[p] = "get" /\ UNCHANGED <<world, owed>>
         /\ Moves(p, "done", Blank) \/ Moves(p, "failed", Blank)
<1>1. at[p] = "get" /\ UNCHANGED <<world, owed>> /\ req' = req
  BY DEF Get
<1>2. Return(p, "done") \/ Return(p, "failed")
  BY DEF Get
<1> QED
  BY <1>1, <1>2, SameWorld, ReturnMoves DEF Over, InFlight

LEMMA FailMoves ==
  ASSUME BaseInv, NEW p \in Procs, Fail(p)
  PROVE  at[p] \in InFlight /\ UNCHANGED <<world, owed>> /\ Moves(p, "broken", Blank)
BY SameWorld, ReturnMoves DEF Fail, Over

-------------------------------------------------------------------------------
(***************************************************************************)
(* The base invariant.                                                     *)
(***************************************************************************)

LEMMA OwedTyped ==
  ASSUME BaseInv, NEW p \in Procs
  PROVE  ~Malformed(p) => Owed(p) \subseteq Registries
<1>1. SUFFICES ASSUME ~Malformed(p) PROVE Owed(p) \subseteq Registries
  OBVIOUS
<1>2. req[p] \in Requests /\ Other \notin Range(req[p].resources)
  BY <1>1, BaseFacts DEF Malformed, Asked
<1>3. \A r \in Range(req[p].resources) :
        (IF r.kind = "Registry" THEN FullName(r) ELSE RegistryOf(r)) \in Registries \cup {None}
  BY <1>2, ResourceFacts, RegistryOfFacts
<1> QED
  BY <1>3 DEF Owed, Asked

\* Every step is a move.
LEMMA StepMoves ==
  ASSUME BaseInv, NEW p \in Procs, Step(p)
  PROVE  (\E place, m : Moves(p, place, m)) /\ owed' \in [Procs -> SUBSET Registries]
<1>1. owed \in [Procs -> SUBSET Registries]
  BY DEF BaseInv, TypeOK
<1>2. CASE Begin(p)
  <2>1. owed' = [owed EXCEPT ![p] = IF Malformed(p) THEN {} ELSE Owed(p)]
    BY <1>2, BeginMoves
  <2>2. owed' \in [Procs -> SUBSET Registries]
    BY <1>1, <2>1, OwedTyped
  <2> QED
    BY <1>2, <2>2, BeginMoves
<1>3. CASE NextRegistry(p)
  BY <1>1, <1>3, NextRegistryMoves
<1>4. CASE Look(p)
  BY <1>1, <1>4, LookMoves
<1>5. CASE Drop(p)
  BY <1>1, <1>5, DropMoves
<1>6. CASE Run(p)
  BY <1>1, <1>6, RunMoves
<1>7. CASE NextCluster(p)
  BY <1>1, <1>7, NextClusterMoves
<1>8. CASE Inspect(p)
  BY <1>1, <1>8, InspectMoves
<1>9. CASE RemoveOld(p)
  BY <1>1, <1>9, RemoveOldMoves
<1>10. CASE Create(p)
  BY <1>1, <1>10, CreateMoves
<1>11. CASE Join(p)
  BY <1>1, <1>11, JoinMoves
<1>12. CASE Hosting(p)
  BY <1>1, <1>12, HostingMoves
<1>13. CASE NextCascade(p)
  BY <1>1, <1>13, NextCascadeMoves
<1>14. CASE NextDelete(p)
  BY <1>1, <1>14, NextDeleteMoves
<1>15. CASE Get(p)
  BY <1>1, <1>15, GetMoves
<1>16. CASE Fail(p)
  BY <1>1, <1>16, FailMoves
<1> QED
  BY <1>2, <1>3, <1>4, <1>5, <1>6, <1>7, <1>8, <1>9, <1>10, <1>11, <1>12, <1>13, <1>14, <1>15, <1>16 DEF Step

\* The others are where they were, with what they had in mind.
LEMMA OthersStay ==
  ASSUME BaseInv, NEW p \in Procs, NEW place, NEW m, Moves(p, place, m)
  PROVE  /\ at'[p] = place /\ mem'[p] = m /\ req' = req /\ at'[p] # "idle"
         /\ at' \in [Procs -> Places] /\ mem' \in [Procs -> Memories]
         /\ \A q \in Procs \ {p} : at'[q] = at[q] /\ mem'[q] = mem[q]
BY DEF Moves, Becomes, BaseInv, TypeOK, Places, InFlight, Over

\* Who is alone after a step of p.
LEMMA AloneFacts ==
  ASSUME BaseInv, NEW p \in Procs, Interrupt(p)
  PROVE  /\ alone' \in [Procs -> BOOLEAN]
         /\ \A q \in Procs : alone'[q] /\ at'[q] \in InFlight => q = p /\ alone[p]
<1>1. alone \in [Procs -> BOOLEAN]
  BY DEF BaseInv, TypeOK
<1>2. \A q \in Procs : (at'[q] \in InFlight => q = p /\ alone[q]) \in BOOLEAN
  OBVIOUS
<1> QED
  BY <1>1, <1>2 DEF Interrupt

LEMMA BaseStep ==
  ASSUME BaseInv, [Next]_vars
  PROVE  BaseInv'
<1>1. CASE UNCHANGED vars
  BY <1>1 DEF vars, world, BaseInv, TypeOK, Fits
<1>2. CASE Next
  <2>1. PICK p \in Procs : Step(p) /\ Interrupt(p)
    BY <1>2 DEF Next
  <2>2. PICK place, m : Moves(p, place, m)
    BY <2>1, StepMoves
  <2>3. alone' \in [Procs -> BOOLEAN] /\ owed' \in [Procs -> SUBSET Registries]
    BY <2>1, StepMoves, AloneFacts
  <2>4. TypeOK'
    <3>1. req' \in [Procs -> Requests] /\ WorldTyped /\ NoRegistryTwice(m.later)
      BY <2>2 DEF Moves, BaseInv, TypeOK
    <3>2. ASSUME NEW q \in Procs PROVE NoRegistryTwice(mem[q].later)'
      <4>1. CASE q = p
        BY <2>2, <3>1, <4>1, OthersStay DEF NoRegistryTwice
      <4>2. CASE q # p
        BY <2>2, <4>2, BaseFacts, OthersStay DEF NoRegistryTwice
      <4> QED
        BY <4>1, <4>2
    <3> QED
      BY <2>2, <2>3, <3>1, <3>2, OthersStay DEF TypeOK, WorldTyped, Places
  <2>5. ASSUME NEW q \in Procs PROVE Fits(req[q], at[q], mem[q])'
    <3>1. CASE q = p
      <4>1. req'[q] = req[p] /\ at'[q] = place /\ mem'[q] = m
        BY <2>2, <3>1, OthersStay
      <4>2. Fits(req[p], place, m)
        BY <2>2 DEF Moves
      <4> QED
        BY <4>1, <4>2
    <3>2. CASE q # p
      <4>1. req'[q] = req[q] /\ at'[q] = at[q] /\ mem'[q] = mem[q]
        BY <2>2, <3>2, OthersStay
      <4>2. Fits(req[q], at[q], mem[q])
        BY BaseFacts
      <4> QED
        BY <4>1, <4>2
    <3> QED
      BY <3>1, <3>2
  <2> QED
    BY <2>4, <2>5 DEF BaseInv
<1> QED
  BY <1>1, <1>2

LEMMA BaseInit ==
  ASSUME Init
  PROVE  BaseInv
<1>1. cluster \in [Clusters -> ClusterStates] /\ reg \in [Registries -> RegistryStates]
  BY CommandsAssumption DEF Init
<1>2. Blank \in Memories /\ Blank.later = <<>> /\ Blank.todo = <<>>
  BY MemoryType
<1>3. TypeOK
  BY <1>1, <1>2, NothingTwice DEF Init, TypeOK
<1>4. \A p \in Procs : Fits(req[p], at[p], mem[p])
  BY <1>2 DEF Init, Fits, ApplyPlaces, Asking, Over, HasCluster
<1> QED
  BY <1>3, <1>4 DEF BaseInv

LEMMA BaseAlways == Spec => []BaseInv
BY BaseInit, BaseStep, PTL DEF Spec

(***************************************************************************)
(* Clusters, registries, and what each command has in mind have their       *)
(* types, whatever several commands do at once and however they fail: a     *)
(* registry has a port while it runs, and no list of resources to delete    *)
(* has a registry twice.                                                   *)
(***************************************************************************)
THEOREM TypeCorrect == Spec => []TypeOK
<1>1. BaseInv => TypeOK
  BY DEF BaseInv
<1> QED
  BY <1>1, BaseAlways, PTL

-------------------------------------------------------------------------------
(***************************************************************************)
(* Several applies of one file. What one of them has applied stays, or      *)
(* another is about to make it anew.                                       *)
(***************************************************************************)

\* The command has been through the registries of its file.
OverRegistries(place, m) ==
  \/ place \in {"clusters", "inspect", "remove", "create", "join", "hosting", "done"}
  \/ place \in Asking /\ m.back # "regs"

\* The command has been through this resource.
Applied(place, m, r) ==
  IF r.kind = "Cluster" THEN OverRegistries(place, m) /\ r \notin Range(m.todo)
  ELSE \/ OverRegistries(place, m)
       \/ /\ place \in {"regs"} \cup Asking /\ r \notin Range(m.todo)
          /\ place \in Asking => FullName(r) # m.ask.name

Makes(place, m, name) == place = "run" /\ m.ask.name = name
Creates(place, m, name) ==
  /\ place = "create" \/ (place \in Asking /\ m.back = "create")
  /\ FullName(Head(m.todo)) = name

Runs(name) == cluster[name].state = "up"

Standing(r) ==
  IF r.kind = "Cluster"
    THEN /\ FullName(r) \in Clusters
         /\ Runs(FullName(r)) \/ \E q \in Procs : Creates(at[q], mem[q], FullName(r))
    ELSE Up(FullName(r)) \/ \E q \in Procs : Makes(at[q], mem[q], FullName(r))

\* All apply the file that p applies, and none has failed.
SameFile(p) ==
  \A q \in Procs : req[q] = req[p] /\ req[q].kind = "apply" /\ at[q] \notin {"failed", "broken"}

JointInv ==
  \A p \in Procs : SameFile(p) =>
    \A r \in Asked(p) : Applied(at[p], mem[p], r) => Standing(r)

\* A step of p takes nothing down that it is not about to make anew, makes what it was
\* about to make, and has been through no resource that is not there.
Upholds(p) ==
  /\ \A n \in Registries : Up(n) => Up(n)' \/ Makes(at'[p], mem'[p], n)
  /\ \A n \in Registries : Makes(at[p], mem[p], n) => Up(n)'
  /\ \A c \in Clusters : Runs(c) => Runs(c)' \/ Creates(at'[p], mem'[p], c)
  /\ \A c \in Clusters : Creates(at[p], mem[p], c) => Runs(c)' \/ Creates(at'[p], mem'[p], c)
  /\ \A r \in Asked(p) : Applied(at'[p], mem'[p], r) =>
       \/ Applied(at[p], mem[p], r)
       \/ r.kind = "Cluster" /\ FullName(r) \in Clusters /\ Runs(FullName(r))'
       \/ r.kind = "Registry" /\ FullName(r) \in Registries /\ Up(FullName(r))'

\* A step of p from place to next, with m and then n in mind, that leaves the world.
LEMMA QuietUpholds ==
  ASSUME BaseInv, NEW p \in Procs, UNCHANGED world,
         at[p] # "run", \A c \in Clusters : Creates(at[p], mem[p], c) => Creates(at'[p], mem'[p], c),
         \A r \in Asked(p) : Applied(at'[p], mem'[p], r) =>
           \/ Applied(at[p], mem[p], r)
           \/ r.kind = "Cluster" /\ FullName(r) \in Clusters /\ Runs(FullName(r))
           \/ r.kind = "Registry" /\ FullName(r) \in Registries /\ Up(FullName(r))
  PROVE  Upholds(p)
<1>1. \A n \in Registries : Up(n)' <=> Up(n)
  BY DEF Up, world
<1>2. \A c \in Clusters : Runs(c)' <=> Runs(c)
  BY DEF Runs, world
<1> QED
  BY <1>1, <1>2 DEF Upholds, Makes

\* A resource of an apply that is under way is a cluster or a registry.
LEMMA AskedKinds ==
  ASSUME BaseInv, NEW p \in Procs, at[p] \in ApplyPlaces, NEW r \in Asked(p)
  PROVE  /\ r.kind \in {"Cluster", "Registry"}
         /\ r.kind = "Registry" => FullName(r) \in Registries
         /\ r.kind = "Cluster" /\ r.product # None => FullName(r) \in Clusters
<1>1. Other \notin Range(req[p].resources) /\ req[p].kind = "apply" /\ req[p] \in Requests
  BY BaseFacts DEF Fits, ApplyPlaces, Asking, Over
<1> QED
  BY <1>1, ResourceFacts DEF Asked

\* Going through its registries, the command has been through nothing that it had not
\* been through, before it goes on.
LEMMA NextRegistryPasses ==
  ASSUME BaseInv, NEW p \in Procs, NextRegistry(p)
  PROVE  \A r \in Asked(p) : Applied(at'[p], mem'[p], r) => Applied(at[p], mem[p], r)
<1>1. at[p] = "regs" /\ UNCHANGED world /\ at[p] \in ApplyPlaces
  BY NextRegistryMoves DEF ApplyPlaces
<1>2. \A r \in Asked(p) : r.kind \in {"Cluster", "Registry"}
  BY <1>1, AskedKinds
<1>3. SUFFICES ASSUME NEW r \in Asked(p), Applied(at'[p], mem'[p], r)
               PROVE  Applied(at[p], mem[p], r)
  OBVIOUS
<1>4. CASE Finished(p) /\ \E m : Moves(p, "clusters", m) /\ m.todo = req[p].resources
  <2>1. at'[p] = "clusters" /\ mem'[p].todo = req[p].resources
    BY <1>4, OthersStay
  <2>2. r \in Range(mem'[p].todo)
    BY <2>1 DEF Asked
  <2> QED
    BY <1>1, <1>3, <1>4, <2>1, <2>2, NoList DEF Applied, OverRegistries, Finished, Asking
<1>5. CASE /\ ~Finished(p) /\ Item(p).kind # "Registry"
           /\ \E m : Moves(p, "regs", m) /\ m.todo = Tail(mem[p].todo)
  <2>1. at'[p] = "regs" /\ mem'[p].todo = Tail(mem[p].todo)
    BY <1>5, OthersStay
  <2> QED
    BY <1>1, <1>2, <1>3, <1>5, <2>1, ItemFacts DEF Applied, OverRegistries, Asking
<1>6. CASE /\ ~Finished(p) /\ Item(p).kind = "Registry"
           /\ \E m :
                /\ Moves(p, "look", m)
                /\ m.ask.name = FullName(Item(p)) /\ m.ask.port = Item(p).port
                /\ m.back = "regs" /\ m.todo = Tail(mem[p].todo)
  <2>1. /\ at'[p] = "look" /\ mem'[p].todo = Tail(mem[p].todo) /\ mem'[p].back = "regs"
        /\ mem'[p].ask.name = FullName(Item(p))
    BY <1>6, OthersStay
  <2>2. r.kind = "Registry" /\ r \notin Range(Tail(mem[p].todo)) /\ FullName(r) # FullName(Item(p))
    BY <1>2, <1>3, <2>1 DEF Applied, OverRegistries, Asking
  <2>3. r \notin Range(mem[p].todo)
    BY <1>6, <2>2, ItemFacts
  <2> QED
    BY <1>1, <2>2, <2>3 DEF Applied, Asking
<1> QED
  BY <1>4, <1>5, <1>6, NextRegistryMoves

LEMMA NextRegistryUpholds ==
  ASSUME BaseInv, NEW p \in Procs, NextRegistry(p)
  PROVE  Upholds(p)
<1>1. at[p] = "regs" /\ UNCHANGED world
  BY NextRegistryMoves
<1>2. \A c \in Clusters : ~Creates(at[p], mem[p], c)
  BY <1>1 DEF Creates, Asking
<1> QED
  BY <1>1, <1>2, NextRegistryPasses, QuietUpholds

\* A registry that suits, or that has been made: the command goes on.
LEMMA BackApplies ==
  ASSUME BaseInv, NEW p \in Procs, at[p] \in Asking, at'[p] = mem[p].back,
         mem'[p].todo = mem[p].todo, mem'[p].back = mem[p].back
  PROVE  /\ \A c \in Clusters : Creates(at[p], mem[p], c) => Creates(at'[p], mem'[p], c)
         /\ \A r \in Asked(p) : Applied(at'[p], mem'[p], r) =>
              \/ Applied(at[p], mem[p], r)
              \/ r.kind = "Registry" /\ FullName(r) = mem[p].ask.name
<1>1. mem[p].back \in {"regs", "create", "clusters"} /\ at[p] \in ApplyPlaces
  BY AskingFacts DEF ApplyPlaces
<1>2. \A r \in Asked(p) : r.kind \in {"Cluster", "Registry"}
  BY <1>1, AskedKinds
<1>3. \A c \in Clusters : Creates(at[p], mem[p], c) => Creates(at'[p], mem'[p], c)
  BY <1>1 DEF Creates, Asking
<1>4. ASSUME NEW r \in Asked(p), Applied(at'[p], mem'[p], r)
      PROVE  \/ Applied(at[p], mem[p], r)
             \/ r.kind = "Registry" /\ FullName(r) = mem[p].ask.name
  <2>1. CASE mem[p].back = "regs"
    BY <1>2, <1>4, <2>1 DEF Applied, OverRegistries, Asking
  <2>2. CASE mem[p].back # "regs"
    BY <1>1, <1>2, <1>4, <2>2 DEF Applied, OverRegistries, Asking
  <2> QED
    BY <2>1, <2>2
<1> QED
  BY <1>3, <1>4

\* The registry is still to be made.
LEMMA StillAsking ==
  ASSUME BaseInv, NEW p \in Procs, at[p] \in Asking, at'[p] \in Asking,
         mem'[p].todo = mem[p].todo, mem'[p].back = mem[p].back, mem'[p].ask.name = mem[p].ask.name
  PROVE  /\ \A c \in Clusters : Creates(at[p], mem[p], c) => Creates(at'[p], mem'[p], c)
         /\ \A r \in Asked(p) : Applied(at'[p], mem'[p], r) <=> Applied(at[p], mem[p], r)
BY DEF Creates, Applied, OverRegistries, Asking

LEMMA LookUpholds ==
  ASSUME BaseInv, NEW p \in Procs, Look(p)
  PROVE  Upholds(p)
<1>1. at[p] = "look" /\ UNCHANGED world /\ at[p] \in Asking
  BY LookMoves DEF Asking
<1>2. PICK m :
         /\ m.todo = mem[p].todo /\ m.back = mem[p].back /\ m.ask.name = mem[p].ask.name
         /\ \/ Suits(reg[mem[p].ask.name], mem[p].ask) /\ Moves(p, mem[p].back, m)
            \/ Moves(p, IF reg[mem[p].ask.name].state = "absent" THEN "run" ELSE "drop", m)
  BY LookMoves
<1>3. mem'[p] = m
  BY <1>2, OthersStay
<1>4. CASE Suits(reg[mem[p].ask.name], mem[p].ask) /\ Moves(p, mem[p].back, m)
  <2>1. at'[p] = mem[p].back
    BY <1>4, OthersStay
  <2>2. mem[p].ask.name \in Registries /\ Up(mem[p].ask.name)
    BY <1>1, <1>4, AskingFacts DEF Suits, Up
  <2> QED
    BY <1>1, <1>2, <1>3, <2>1, <2>2, BackApplies, QuietUpholds
<1>5. CASE Moves(p, IF reg[mem[p].ask.name].state = "absent" THEN "run" ELSE "drop", m)
  <2>1. at'[p] \in Asking
    BY <1>5, OthersStay DEF Asking
  <2> QED
    BY <1>1, <1>2, <1>3, <2>1, StillAsking, QuietUpholds
<1> QED
  BY <1>2, <1>4, <1>5

LEMMA DropUpholds ==
  ASSUME BaseInv, NEW p \in Procs, Drop(p), at'[p] # "failed"
  PROVE  Upholds(p)
<1>1. /\ at[p] = "drop" /\ cluster' = cluster /\ at[p] \in Asking /\ Moves(p, "run", mem[p])
      /\ reg' = [reg EXCEPT ![mem[p].ask.name] = NoRegistry]
  <2>1. ~Moves(p, "failed", Blank)
    BY OthersStay
  <2> QED
    BY <2>1, DropMoves DEF Asking
<1>2. at'[p] = "run" /\ mem'[p] = mem[p] /\ at'[p] \in Asking
  BY <1>1, OthersStay DEF Asking
<1>3. \A n \in Registries : Up(n) => Up(n)' \/ Makes(at'[p], mem'[p], n)
  BY <1>1, <1>2, BaseFacts DEF Up, Makes
<1>4. \A c \in Clusters : Runs(c) => Runs(c)'
  BY <1>1 DEF Runs
<1> QED
  BY <1>1, <1>2, <1>3, <1>4, StillAsking DEF Upholds, Makes

LEMMA RunUpholds ==
  ASSUME BaseInv, NEW p \in Procs, Run(p), at'[p] # "failed"
  PROVE  Upholds(p)
<1>1. at[p] = "run" /\ cluster' = cluster /\ at[p] \in Asking
  BY RunMoves DEF Asking
<1>2. PICK port, made, m :
         /\ reg' = [reg EXCEPT ![mem[p].ask.name] = made]
         /\ made.state = "up" /\ Moves(p, mem[p].back, m)
         /\ m.todo = mem[p].todo /\ m.back = mem[p].back
  <2>1. ~Moves(p, "failed", Blank)
    BY OthersStay
  <2> QED
    BY <2>1, RunMoves
<1>3. at'[p] = mem[p].back /\ mem'[p] = m
  BY <1>2, OthersStay
<1>4. PICK name : name = mem[p].ask.name
  OBVIOUS
<1>5. name \in Registries /\ \A n \in Registries : Up(n) \/ n = name => Up(n)'
  BY <1>1, <1>2, <1>4, AskingFacts, BaseFacts DEF Up
<1>6. \A c \in Clusters : Runs(c) => Runs(c)'
  BY <1>1 DEF Runs
<1>7. /\ \A c \in Clusters : Creates(at[p], mem[p], c) => Creates(at'[p], mem'[p], c)
      /\ \A r \in Asked(p) : Applied(at'[p], mem'[p], r) =>
           Applied(at[p], mem[p], r) \/ (r.kind = "Registry" /\ FullName(r) = name)
  BY <1>1, <1>2, <1>3, <1>4, BackApplies
<1>8. \A r \in Asked(p) : FullName(r) = name => Up(FullName(r))'
  <2>1. SUFFICES ASSUME NEW r \in Asked(p), FullName(r) = name PROVE Up(FullName(r))'
    OBVIOUS
  <2> QED
    BY <1>5, <2>1
<1> QED
  BY <1>4, <1>5, <1>6, <1>7, <1>8 DEF Upholds, Makes

LEMMA NextClusterPasses ==
  ASSUME BaseInv, NEW p \in Procs, NextCluster(p), at'[p] # "failed"
  PROVE  \A r \in Asked(p) : Applied(at'[p], mem'[p], r) => Applied(at[p], mem[p], r)
<1>1. at[p] = "clusters" /\ UNCHANGED world
  BY NextClusterMoves
<1>2. ~Moves(p, "failed", Blank)
  BY OthersStay
<1>3. SUFFICES ASSUME NEW r \in Asked(p), Applied(at'[p], mem'[p], r)
               PROVE  Applied(at[p], mem[p], r)
  OBVIOUS
<1>4. CASE r.kind # "Cluster"
  BY <1>1, <1>4 DEF Applied, OverRegistries
<1>5. CASE r.kind = "Cluster" /\ Finished(p)
  BY <1>1, <1>5, NoList DEF Applied, OverRegistries, Finished
<1>6. CASE r.kind = "Cluster" /\ ~Finished(p)
  <2>1. CASE Item(p).kind # "Cluster" /\ \E m : Moves(p, "clusters", m) /\ m.todo = Tail(mem[p].todo)
    <3>1. mem'[p].todo = Tail(mem[p].todo)
      BY <2>1, OthersStay
    <3> QED
      BY <1>1, <1>3, <1>6, <2>1, <3>1, ItemFacts DEF Applied, OverRegistries
  <2>2. CASE Moves(p, "inspect", mem[p])
    <3>1. mem'[p] = mem[p]
      BY <2>2, OthersStay
    <3> QED
      BY <1>1, <1>3, <1>6, <3>1 DEF Applied, OverRegistries
  <2> QED
    BY <1>2, <1>6, <2>1, <2>2, NextClusterMoves
<1> QED
  BY <1>4, <1>5, <1>6

LEMMA NextClusterUpholds ==
  ASSUME BaseInv, NEW p \in Procs, NextCluster(p), at'[p] # "failed"
  PROVE  Upholds(p)
<1>1. at[p] = "clusters" /\ UNCHANGED world
  BY NextClusterMoves
<1>2. \A c \in Clusters : ~Creates(at[p], mem[p], c)
  BY <1>1 DEF Creates, Asking
<1> QED
  BY <1>1, <1>2, NextClusterPasses, QuietUpholds

\* The command goes on to the next cluster.
LEMMA NextApplies ==
  ASSUME BaseInv, NEW p \in Procs, at[p] \in {"inspect", "create", "hosting"},
         at'[p] \in {"clusters", "look"}, at'[p] = "look" => mem'[p].back # "regs",
         mem'[p].todo = Tail(mem[p].todo)
  PROVE  /\ FullName(Item(p)) \in Clusters
         /\ \A r \in Asked(p) : Applied(at'[p], mem'[p], r) =>
              Applied(at[p], mem[p], r) \/ (r.kind = "Cluster" /\ r = Item(p))
<1>1. ~Finished(p) /\ FullName(Item(p)) \in Clusters
  BY ClusterFacts
<1> QED
  BY <1>1, ItemFacts DEF Applied, OverRegistries, Asking

LEMMA InspectUpholds ==
  ASSUME BaseInv, NEW p \in Procs, Inspect(p)
  PROVE  Upholds(p)
<1>1. at[p] = "inspect" /\ UNCHANGED world
  BY InspectMoves
<1>2. \A c \in Clusters : ~Creates(at[p], mem[p], c)
  BY <1>1 DEF Creates, Asking
<1>3. PICK name : name = FullName(Item(p))
  OBVIOUS
<1>4. CASE Moves(p, "remove", mem[p]) \/ Moves(p, "create", mem[p])
  <2>1. at'[p] \in {"remove", "create"} /\ mem'[p] = mem[p]
    BY <1>4, OthersStay
  <2>2. \A r \in Asked(p) : Applied(at'[p], mem'[p], r) => Applied(at[p], mem[p], r)
    BY <1>1, <2>1 DEF Applied, OverRegistries
  <2> QED
    BY <1>1, <1>2, <2>2, QuietUpholds
<1>5. CASE \E m : Moves(p, "look", m) /\ m.back = "create" /\ m.todo = mem[p].todo
  <2>1. at'[p] = "look" /\ mem'[p].back = "create" /\ mem'[p].todo = mem[p].todo
    BY <1>5, OthersStay
  <2>2. \A r \in Asked(p) : Applied(at'[p], mem'[p], r) => Applied(at[p], mem[p], r)
    BY <1>1, <2>1 DEF Applied, OverRegistries
  <2> QED
    BY <1>1, <1>2, <2>2, QuietUpholds
<1>6. CASE /\ cluster[name].state = "up"
           /\ \/ \E m : Moves(p, "look", m) /\ m.back = "clusters" /\ m.todo = Tail(mem[p].todo)
              \/ \E m : Moves(p, "clusters", m) /\ m.todo = Tail(mem[p].todo)
  <2>1. /\ at'[p] \in {"look", "clusters"} /\ mem'[p].todo = Tail(mem[p].todo)
        /\ at'[p] = "look" => mem'[p].back = "clusters"
    BY <1>6, OthersStay
  <2>2. /\ name \in Clusters
        /\ \A r \in Asked(p) : Applied(at'[p], mem'[p], r) =>
             Applied(at[p], mem[p], r) \/ (r.kind = "Cluster" /\ FullName(r) = name)
    BY <1>1, <1>3, <2>1, NextApplies
  <2>3. Runs(name)
    BY <1>6 DEF Runs
  <2> QED
    BY <1>1, <1>2, <2>2, <2>3, QuietUpholds
<1> QED
  BY <1>3, <1>4, <1>5, <1>6, InspectMoves

LEMMA RemoveOldUpholds ==
  ASSUME BaseInv, NEW p \in Procs, RemoveOld(p), at'[p] # "failed"
  PROVE  Upholds(p)
<1>1. at[p] = "remove"
  BY RemoveOldMoves
<1>2. PICK name : name = FullName(Item(p))
  OBVIOUS
<1>3. PICK m : RemoveCluster(name) /\ Moves(p, "look", m) /\ m.back = "create" /\ m.todo = mem[p].todo
  <2>1. ~Moves(p, "failed", Blank)
    BY OthersStay
  <2> QED
    BY <1>2, <2>1, RemoveOldMoves
<1>4. at'[p] = "look" /\ mem'[p].back = "create" /\ mem'[p].todo = mem[p].todo
  BY <1>3, OthersStay
<1>5. \A c \in Clusters : Runs(c) => Runs(c)' \/ Creates(at'[p], mem'[p], c)
  <2>1. SUFFICES ASSUME NEW c \in Clusters, Runs(c), c # name PROVE Runs(c)'
    BY <1>2, <1>4 DEF Creates, Asking, Item
  <2>2. cluster' = [cluster EXCEPT ![name] = NoCluster]
    BY <1>3, RemoveFacts
  <2> QED
    BY <2>1, <2>2, BaseFacts DEF Runs
<1>6. \A n \in Registries : Up(n) => Up(n)'
  BY <1>3, RemoveFacts DEF Up, SameRegistries
<1>7. \A r \in Asked(p) : Applied(at'[p], mem'[p], r) => Applied(at[p], mem[p], r)
  BY <1>1, <1>4 DEF Applied, OverRegistries
<1> QED
  BY <1>1, <1>5, <1>6, <1>7 DEF Upholds, Makes, Creates, Asking

\* A step that leaves a cluster running and no other touched, and no registry stopped.
LEMMA RaiseUpholds ==
  ASSUME BaseInv, NEW p \in Procs, at[p] \in {"create", "join", "hosting"}, SameRegistries,
         NEW name, name = FullName(Item(p)),
         \/ cluster' = cluster /\ at[p] = "join"
         \/ \E c : cluster' = [cluster EXCEPT ![name] = c] /\ c.state = "up",
         \A r \in Asked(p) : Applied(at'[p], mem'[p], r) =>
           Applied(at[p], mem[p], r) \/ (r.kind = "Cluster" /\ FullName(r) = name /\ at[p] # "join")
  PROVE  Upholds(p)
<1>1. name \in Clusters
  BY ClusterFacts
<1>2. \A n \in Registries : Up(n) => Up(n)'
  BY DEF Up, SameRegistries
<1>3. \A c \in Clusters : Runs(c) \/ (c = name /\ at[p] # "join") => Runs(c)'
  BY <1>1, BaseFacts DEF Runs
<1>4. \A c \in Clusters : Creates(at[p], mem[p], c) => c = name /\ at[p] # "join"
  BY DEF Creates, Asking, Item
<1>5. \A n \in Registries : ~Makes(at[p], mem[p], n)
  BY DEF Makes
<1>6. \A r \in Asked(p) : FullName(r) = name /\ at[p] # "join" => Runs(FullName(r))'
  <2>1. SUFFICES ASSUME NEW r \in Asked(p), FullName(r) = name, at[p] # "join" PROVE Runs(FullName(r))'
    OBVIOUS
  <2> QED
    BY <1>1, <1>3, <2>1
<1> QED
  BY <1>1, <1>2, <1>3, <1>4, <1>5, <1>6 DEF Upholds

LEMMA CreateUpholds ==
  ASSUME BaseInv, NEW p \in Procs, Create(p), at'[p] # "failed"
  PROVE  Upholds(p)
<1>1. at[p] = "create" /\ SameRegistries /\ ~Moves(p, "failed", Blank)
  BY CreateMoves, OthersStay
<1>2. PICK name : name = FullName(Item(p))
  OBVIOUS
<1>3. PICK c : /\ cluster' = [cluster EXCEPT ![name] = c] /\ c.state = "up"
               /\ \/ \E m : Moves(p, "clusters", m) /\ m.todo = Tail(mem[p].todo)
                  \/ Moves(p, "join", mem[p])
  BY <1>1, <1>2, CreateMoves
<1>4. CASE \E m : Moves(p, "clusters", m) /\ m.todo = Tail(mem[p].todo)
  <2>1. at'[p] = "clusters" /\ mem'[p].todo = Tail(mem[p].todo)
    BY <1>4, OthersStay
  <2>2. \A r \in Asked(p) : Applied(at'[p], mem'[p], r) =>
          Applied(at[p], mem[p], r) \/ (r.kind = "Cluster" /\ FullName(r) = name)
    BY <1>1, <1>2, <2>1, NextApplies
  <2> QED
    BY <1>1, <1>2, <1>3, <2>2, RaiseUpholds
<1>5. CASE Moves(p, "join", mem[p])
  <2>1. at'[p] = "join" /\ mem'[p] = mem[p]
    BY <1>5, OthersStay
  <2>2. \A r \in Asked(p) : Applied(at'[p], mem'[p], r) => Applied(at[p], mem[p], r)
    BY <1>1, <2>1 DEF Applied, OverRegistries
  <2> QED
    BY <1>1, <1>2, <1>3, <2>2, RaiseUpholds
<1> QED
  BY <1>3, <1>4, <1>5

LEMMA JoinUpholds ==
  ASSUME BaseInv, NEW p \in Procs, Join(p), at'[p] # "failed"
  PROVE  Upholds(p)
<1>1. at[p] = "join" /\ SameRegistries /\ cluster' = cluster /\ Moves(p, "hosting", mem[p])
  <2>1. ~Moves(p, "failed", Blank)
    BY OthersStay
  <2> QED
    BY <2>1, JoinMoves
<1>2. at'[p] = "hosting" /\ mem'[p] = mem[p]
  BY <1>1, OthersStay
<1>3. \A r \in Asked(p) : Applied(at'[p], mem'[p], r) => Applied(at[p], mem[p], r)
  BY <1>1, <1>2 DEF Applied, OverRegistries
<1> QED
  BY <1>1, <1>3, RaiseUpholds

LEMMA HostingUpholds ==
  ASSUME BaseInv, NEW p \in Procs, Hosting(p), at'[p] # "failed"
  PROVE  Upholds(p)
<1>1. at[p] = "hosting" /\ reg' = reg /\ ~Moves(p, "failed", Blank)
  BY HostingMoves, OthersStay
<1>2. PICK name : name = FullName(Item(p))
  OBVIOUS
<1>3. PICK c, m : /\ cluster' = [cluster EXCEPT ![name] = c] /\ c.state = "up"
                  /\ Moves(p, "clusters", m) /\ m.todo = Tail(mem[p].todo)
  BY <1>1, <1>2, HostingMoves
<1>4. at'[p] = "clusters" /\ mem'[p].todo = Tail(mem[p].todo)
  BY <1>3, OthersStay
<1>5. \A r \in Asked(p) : Applied(at'[p], mem'[p], r) =>
        Applied(at[p], mem[p], r) \/ (r.kind = "Cluster" /\ FullName(r) = name)
  BY <1>1, <1>2, <1>4, NextApplies
<1>6. SameRegistries
  BY <1>1 DEF SameRegistries
<1> QED
  BY <1>1, <1>2, <1>3, <1>5, <1>6, RaiseUpholds

\* Every step of an apply that does not fail.
LEMMA ApplyUpholds ==
  ASSUME BaseInv, NEW p \in Procs, Step(p), req[p].kind = "apply", at'[p] \notin {"failed", "broken"}
  PROVE  Upholds(p) /\ at[p] \notin Over
<1>1. CASE Begin(p)
  <2>1. at[p] = "idle" /\ UNCHANGED world
    BY <1>1, BeginMoves
  <2>2. PICK place, m :
          /\ place \in {"regs", "cascade", "delete", "get"}
          /\ Moves(p, place, m)
          /\ m.todo = req[p].resources /\ (place = "regs" <=> req[p].kind = "apply")
    <3>1. ~Moves(p, "failed", Blank)
      BY OthersStay
    <3> QED
      BY <1>1, <3>1, BeginMoves
  <2>3. at'[p] = "regs" /\ mem'[p].todo = req[p].resources
    BY <2>2, OthersStay
  <2>4. \A r \in Asked(p) : ~Applied(at'[p], mem'[p], r)
    BY <2>3 DEF Applied, OverRegistries, Asking, Asked
  <2>5. \A c \in Clusters : ~Creates(at[p], mem[p], c)
    BY <2>1 DEF Creates, Asking
  <2> QED
    BY <2>1, <2>4, <2>5, QuietUpholds DEF Over
<1>2. CASE NextRegistry(p)
  BY <1>2, NextRegistryUpholds, NextRegistryMoves DEF Over
<1>3. CASE Look(p)
  BY <1>3, LookUpholds, LookMoves DEF Over
<1>4. CASE Drop(p)
  BY <1>4, DropUpholds, DropMoves DEF Over
<1>5. CASE Run(p)
  BY <1>5, RunUpholds, RunMoves DEF Over
<1>6. CASE NextCluster(p)
  BY <1>6, NextClusterUpholds, NextClusterMoves DEF Over
<1>7. CASE Inspect(p)
  BY <1>7, InspectUpholds, InspectMoves DEF Over
<1>8. CASE RemoveOld(p)
  BY <1>8, RemoveOldUpholds, RemoveOldMoves DEF Over
<1>9. CASE Create(p)
  BY <1>9, CreateUpholds, CreateMoves DEF Over
<1>10. CASE Join(p)
  BY <1>10, JoinUpholds, JoinMoves DEF Over
<1>11. CASE Hosting(p)
  BY <1>11, HostingUpholds, HostingMoves DEF Over
<1>12. CASE NextCascade(p)
  BY <1>12, NextCascadeMoves, BaseFacts DEF Fits
<1>13. CASE NextDelete(p)
  BY <1>13, NextDeleteMoves, BaseFacts DEF Fits
<1>14. CASE Get(p)
  BY <1>14, GetMoves, BaseFacts DEF Fits
<1>15. CASE Fail(p)
  BY <1>15, FailMoves, OthersStay
<1> QED
  BY <1>1, <1>2, <1>3, <1>4, <1>5, <1>6, <1>7, <1>8, <1>9, <1>10, <1>11, <1>12, <1>13, <1>14, <1>15 DEF Step

LEMMA JointStep ==
  ASSUME BaseInv, JointInv, [Next]_vars
  PROVE  JointInv'
<1>1. CASE UNCHANGED vars
  <2>1. SUFFICES ASSUME NEW p \in Procs, SameFile(p)', NEW r \in Asked(p)', Applied(at'[p], mem'[p], r)
                 PROVE  Standing(r)'
    BY DEF JointInv
  <2>2. SameFile(p) /\ r \in Asked(p) /\ Applied(at[p], mem[p], r)
    BY <1>1, <2>1 DEF vars, SameFile, Asked
  <2> QED
    BY <1>1, <2>2 DEF vars, world, JointInv, Standing, Up, Runs
<1>2. CASE Next
  <2>1. PICK q \in Procs : Step(q) /\ Interrupt(q)
    BY <1>2 DEF Next
  <2>2. req' = req /\ \A x \in Procs \ {q} : at'[x] = at[x] /\ mem'[x] = mem[x]
    BY <2>1, StepMoves, OthersStay
  <2>3. SUFFICES ASSUME NEW p \in Procs, SameFile(p)', NEW r \in Asked(p)', Applied(at'[p], mem'[p], r)
                 PROVE  Standing(r)'
    BY DEF JointInv
  <2>4. /\ r \in Asked(p) /\ req[q] = req[p] /\ req[q].kind = "apply"
        /\ at'[q] \notin {"failed", "broken"}
    BY <2>2, <2>3 DEF SameFile, Asked
  <2>5. Upholds(q) /\ at[q] \notin Over
    BY <2>1, <2>4, ApplyUpholds
  <2>6. SameFile(p) /\ r \in Asked(q)
    BY <2>2, <2>3, <2>4, <2>5 DEF SameFile, Over, Asked
  <2>7. ASSUME Standing(r) PROVE Standing(r)'
    <3>1. PICK name : name = FullName(r)
      OBVIOUS
    <3>2. CASE r.kind = "Cluster"
      <4>1. name \in Clusters /\ (Runs(name) \/ \E x \in Procs : Creates(at[x], mem[x], name))
        BY <2>7, <3>1, <3>2 DEF Standing
      <4>2. Runs(name)' \/ \E x \in Procs : Creates(at'[x], mem'[x], name)
        BY <2>2, <2>5, <4>1 DEF Upholds
      <4> QED
        BY <3>1, <3>2, <4>1, <4>2 DEF Standing
    <3>3. CASE r.kind # "Cluster"
      <4>1. Up(name) \/ \E x \in Procs : Makes(at[x], mem[x], name)
        BY <2>7, <3>1, <3>3 DEF Standing
      <4>2. name \in Registries
        BY <4>1, AskingFacts DEF Up, Makes, Asking
      <4>3. Up(name)' \/ \E x \in Procs : Makes(at'[x], mem'[x], name)
        BY <2>2, <2>5, <4>1, <4>2 DEF Upholds
      <4> QED
        BY <3>1, <3>3, <4>3 DEF Standing
    <3> QED
      BY <3>2, <3>3
  <2>8. CASE Applied(at[p], mem[p], r)
    BY <2>4, <2>6, <2>7, <2>8 DEF JointInv
  <2>9. CASE ~Applied(at[p], mem[p], r)
    <3>1. p = q
      BY <2>2, <2>3, <2>9
    <3>2. \/ r.kind = "Cluster" /\ FullName(r) \in Clusters /\ Runs(FullName(r))'
          \/ r.kind = "Registry" /\ FullName(r) \in Registries /\ Up(FullName(r))'
      BY <2>3, <2>5, <2>6, <2>9, <3>1 DEF Upholds
    <3> QED
      BY <3>2 DEF Standing
  <2> QED
    BY <2>8, <2>9
<1> QED
  BY <1>1, <1>2

LEMMA JointAlways == Spec => []JointInv
<1>1. Init => JointInv
  BY DEF Init, JointInv, Applied, OverRegistries, Asking
<1> QED
  BY <1>1, JointStep, BaseAlways, PTL DEF Spec

(***************************************************************************)
(* Any number of processes that apply the same file at once remake each     *)
(* other's registries and clusters. When they are all through and reported  *)
(* success, every registry of the file runs and every cluster is up.       *)
(***************************************************************************)
THEOREM SameFileIsUpAlways == Spec => []SameFileIsUp
<1>1. BaseInv /\ JointInv => SameFileIsUp
  <2>1. SUFFICES ASSUME BaseInv, JointInv, NEW p \in Procs,
                        \A q \in Procs : req[q] = req[p] /\ req[q].kind = "apply" /\ at[q] = "done",
                        NEW r \in Asked(p)
                 PROVE  IF r.kind = "Registry" THEN Up(FullName(r)) ELSE cluster[FullName(r)].state = "up"
    BY DEF SameFileIsUp
  <2>2. SameFile(p)
    BY <2>1 DEF SameFile
  <2>3. mem[p] = Blank /\ at[p] = "done"
    BY <2>1, BaseFacts DEF Fits, Over
  <2>4. Applied(at[p], mem[p], r)
    BY <2>3, MemoryType, NoList DEF Applied, OverRegistries
  <2>5. Standing(r)
    BY <2>1, <2>2, <2>4 DEF JointInv
  <2>6. \A q \in Procs : \A name : ~Makes(at[q], mem[q], name) /\ ~Creates(at[q], mem[q], name)
    BY <2>1 DEF Makes, Creates, Asking
  <2>7. r.kind \in {"Cluster", "Registry"}
    BY <2>1, <2>3, BaseFacts, ResourceFacts DEF Fits, Asked
  <2> QED
    BY <2>5, <2>6, <2>7 DEF Standing, Runs
<1> QED
  BY <1>1, BaseAlways, JointAlways, PTL

-------------------------------------------------------------------------------
(***************************************************************************)
(* Deleting, undisturbed. What is not deleted yet is in the list.          *)
(***************************************************************************)

Pending(p) == Range(mem[p].todo) \cup Range(mem[p].later)

\* To delete one is to delete the other.
Alike(r, s) == r.kind = s.kind /\ r.name = s.name /\ (r.kind = "Cluster" => r = s)

DeletesAlone(p) ==
  \A r \in Asked(p) : (\E s \in Pending(p) : Alike(r, s)) \/ (at[p] = "delete" /\ Deleted(r))

Listing(p, name) == \E s \in Pending(p) : s.kind = "Registry" /\ FullName(s) = name

CascadesAlone(p) ==
  \A name \in owed[p] :
    \/ Listing(p, name)
    \/ at[p] = "delete" /\ ~HasContainer(name)
    \/ at[p] = "cascade" /\ \E r \in Range(mem[p].todo) : r.kind = "Cluster" /\ RegistryOf(r) = name

DeleteInv ==
  \A p \in Procs : alone[p] /\ at[p] \in {"cascade", "delete"} =>
    DeletesAlone(p) /\ (req[p].cascade => CascadesAlone(p))

\* What is alike has the same name, and is deleted with the other.
LEMMA AlikeFacts ==
  ASSUME NEW r, NEW s, Alike(r, s), r.kind \in {"Cluster", "Registry"}
  PROVE  FullName(r) = FullName(s) /\ (Deleted(s) => Deleted(r)) /\ (Deleted(s)' => Deleted(r)')
BY DEF Alike, FullName, Deleted

\* Nothing comes into being when something is deleted, and what was deleted is gone.
LEMMA DeletesFacts ==
  ASSUME BaseInv, NEW r, Deletes(r)
  PROVE  /\ \A name : /\ Exists(name)' => Exists(name)
                      /\ HasContainer(name)' => HasContainer(name)
         /\ r.kind \in {"Cluster", "Registry"} => Deleted(r)'
<1>1. \A c : c \in Clusters => cluster[c] \in ClusterStates
  BY DEF BaseInv, TypeOK
<1>2. CASE /\ r.kind = "Cluster" /\ Exists(Normalize(FullName(r)))
           /\ RemoveCluster(Normalize(FullName(r)))
  <2>1. PICK full, target : full = FullName(r) /\ target = Normalize(full)
    OBVIOUS
  <2>2. cluster' = [cluster EXCEPT ![target] = NoCluster] /\ SameRegistries /\ target \in Clusters
    BY <1>2, <2>1, RemoveFacts DEF Exists
  <2>3. \A name : Exists(name)' <=> Exists(name) /\ name # target
    BY <2>2, BaseFacts DEF Exists, NoCluster, BaseInv, TypeOK
  <2>4. \A name : HasContainer(name)' <=> HasContainer(name)
    BY <2>2 DEF HasContainer, SameRegistries
  <2>5. target = full \/ (~Exists(full) /\ target = AliasOf[full])
    BY <2>1 DEF Normalize
  <2>6. ~Exists(full)' /\ (full \notin Clusters => ~Exists(AliasOf[full])')
    BY <2>1, <2>2, <2>3, <2>5 DEF Exists
  <2> QED
    BY <1>2, <2>1, <2>3, <2>4, <2>6 DEF Deleted
<1>3. CASE /\ r.kind = "Registry"
           /\ reg' = [reg EXCEPT ![FullName(r)] = NoRegistry] /\ cluster' = cluster
  <2>1. PICK full : full = FullName(r)
    OBVIOUS
  <2>2. \A name : HasContainer(name)' <=> HasContainer(name) /\ name # full
    BY <1>3, <2>1 DEF HasContainer, NoRegistry, BaseInv, TypeOK
  <2>3. \A name : Exists(name)' <=> Exists(name)
    BY <1>3 DEF Exists
  <2> QED
    BY <1>3, <2>1, <2>2, <2>3 DEF Deleted
<1>4. CASE /\ r.kind = "Cluster" => ~Exists(Normalize(FullName(r)))
           /\ r.kind = "Registry" => ~HasContainer(FullName(r))
           /\ UNCHANGED world
  <2>1. PICK full : full = FullName(r)
    OBVIOUS
  <2>2. \A name : (Exists(name)' <=> Exists(name)) /\ (HasContainer(name)' <=> HasContainer(name))
    BY <1>4 DEF Exists, HasContainer, world
  <2>3. r.kind = "Cluster" => ~Exists(full) /\ ~Exists(AliasOf[full])
    BY <1>4, <2>1 DEF Normalize
  <2>4. r.kind = "Registry" => ~HasContainer(full)
    BY <1>4, <2>1
  <2> QED
    BY <2>1, <2>2, <2>3, <2>4 DEF Deleted
<1> QED
  BY <1>2, <1>3, <1>4 DEF Deletes

\* While the world stays as it is, so does what is seen of it.
LEMMA SameViews ==
  ASSUME UNCHANGED world
  PROVE  /\ \A name : (Exists(name)' <=> Exists(name)) /\ (HasContainer(name)' <=> HasContainer(name))
         /\ \A r : (Deleted(r)' <=> Deleted(r)) /\ RegistryOf(r)' = RegistryOf(r)
<1>1. cluster' = cluster /\ reg' = reg
  BY DEF world
<1>2. \A name : /\ (Exists(name)' <=> Exists(name)) /\ (HasContainer(name)' <=> HasContainer(name))
                /\ (Up(name)' <=> Up(name))
  BY <1>1 DEF Exists, HasContainer, Up
<1>3. \A name : Normalize(name)' = Normalize(name) /\ StatusRegistry(name)' = StatusRegistry(name)
  <2>1. SUFFICES ASSUME NEW name
                 PROVE  Normalize(name)' = Normalize(name) /\ StatusRegistry(name)' = StatusRegistry(name)
    OBVIOUS
  <2>2. Normalize(name)' = Normalize(name)
    BY <1>1 DEF Normalize, Exists
  <2>3. StatusRegistry(name)' = StatusRegistry(name)
    BY <1>1 DEF StatusRegistry, Exists, Up
  <2> QED
    BY <2>2, <2>3
<1>4. \A r : Deleted(r)' <=> Deleted(r)
  BY <1>2 DEF Deleted
<1>5. \A r : RegistryOf(r)' = RegistryOf(r)
  <2>1. SUFFICES ASSUME NEW r PROVE RegistryOf(r)' = RegistryOf(r)
    OBVIOUS
  <2> QED
    BY <1>1 DEF RegistryOf, StatusRegistry, Normalize, Exists, Up
<1> QED
  BY <1>2, <1>4, <1>5

\* A delete that begins.
LEMMA BeginDeletes ==
  ASSUME BaseInv, NEW p \in Procs, Begin(p), at'[p] \in {"cascade", "delete"}
  PROVE  DeletesAlone(p)' /\ (req[p].cascade => CascadesAlone(p)')
<1>1. PICK place, m :
         /\ Moves(p, place, m) /\ ~Malformed(p) /\ m.todo = req[p].resources
         /\ place = "cascade" <=> req[p].cascade
  <2>1. ~Moves(p, "failed", Blank)
    BY OthersStay
  <2> QED
    BY <2>1, BeginMoves
<1>2. /\ at[p] = "idle" /\ UNCHANGED world
      /\ owed' = [owed EXCEPT ![p] = IF Malformed(p) THEN {} ELSE Owed(p)]
  BY BeginMoves
<1>3. at'[p] = place /\ mem'[p] = m /\ req' = req
  BY <1>1, OthersStay
<1>4. Asked(p)' = Asked(p) /\ Asked(p) = Range(mem'[p].todo) /\ Asked(p) \subseteq Pending(p)'
  BY <1>1, <1>3 DEF Asked, Pending
<1>5. DeletesAlone(p)'
  BY <1>4 DEF DeletesAlone, Alike
<1>6. ASSUME req[p].cascade PROVE CascadesAlone(p)'
  <2>1. owed'[p] = Owed(p) /\ at'[p] = "cascade"
    BY <1>1, <1>2, <1>3, <1>6 DEF BaseInv, TypeOK
  <2>2. \A r \in Asked(p) : r.kind \in {"Cluster", "Registry"}
    BY <1>1, BaseFacts, ResourceFacts DEF Malformed, Asked
  <2>3. ASSUME NEW name \in Owed(p)
        PROVE  \/ Listing(p, name)'
               \/ \E r \in Range(mem'[p].todo) : r.kind = "Cluster" /\ RegistryOf(r)' = name
    <3>1. PICK r \in Asked(p) : name = IF r.kind = "Registry" THEN FullName(r) ELSE RegistryOf(r)
      BY <2>3 DEF Owed
    <3>2. RegistryOf(r)' = RegistryOf(r)
      BY <1>2, SameViews
    <3> QED
      BY <1>4, <2>2, <3>1, <3>2 DEF Listing
  <2> QED
    BY <2>1, <2>3 DEF CascadesAlone
<1> QED
  BY <1>5, <1>6

\* What a cascade adds to its list stands for the resource and for its registry.
LEMMA LongerFacts ==
  ASSUME NEW r \in Listed, NEW list \in Seq(Listed), NEW registry \in Registries \cup {None},
         NEW longer, Longer(r, registry, list, longer)
  PROVE  /\ Range(list) \subseteq Range(longer)
         /\ \E s \in Range(longer) : Alike(r, s)
         /\ r.kind = "Cluster" /\ registry # None =>
              \E s \in Range(longer) : s.kind = "Registry" /\ FullName(s) = registry
<1>1. \A name : Seen(list, name) => \E s \in Range(list) : s.kind = "Registry" /\ s.name = name
  BY DEF Seen, Range
<1>2. \A s : s.kind = "Registry" /\ s.name = registry /\ registry # None => FullName(s) = registry
  BY DEF FullName
<1>3. CASE r.kind = "Registry" /\ Seen(list, r.name) /\ longer = list
  BY <1>1, <1>3 DEF Alike
<1>4. CASE r.kind = "Registry" /\ ~Seen(list, r.name) /\ longer = list \o <<r>>
  BY <1>4, OneMore DEF Alike
<1>5. CASE r.kind = "Cluster" /\ (registry = None \/ Seen(list, registry)) /\ longer = list \o <<r>>
  BY <1>1, <1>2, <1>5, OneMore DEF Alike
<1>6. CASE /\ r.kind = "Cluster" /\ registry \in Registries /\ ~Seen(list, registry)
           /\ longer = (list \o <<Registry(registry, 0)>>) \o <<r>>
  <2>1. PICK extra, more : extra = Registry(registry, 0) /\ more = list \o <<extra>>
    OBVIOUS
  <2>2. extra \in Listed /\ extra.kind = "Registry" /\ extra.name = registry
    BY <1>6, <2>1, RecordFacts DEF Listed
  <2>3. more \in Seq(Listed) /\ Range(more) = Range(list) \cup {extra}
    BY <2>1, <2>2, OneMore
  <2>4. longer = more \o <<r>> /\ Range(longer) = Range(more) \cup {r}
    BY <1>6, <2>1, <2>3, OneMore
  <2>5. FullName(extra) = registry
    BY <1>6, <2>2, CommandsAssumption DEF FullName
  <2> QED
    BY <1>6, <2>2, <2>3, <2>4, <2>5 DEF Alike
<1> QED
  BY <1>3, <1>4, <1>5, <1>6 DEF Longer

LEMMA NextCascadeDeletes ==
  ASSUME BaseInv, NEW p \in Procs, NextCascade(p), DeletesAlone(p), CascadesAlone(p)
  PROVE  DeletesAlone(p)' /\ CascadesAlone(p)'
<1>1. at[p] = "cascade" /\ UNCHANGED <<world, owed>>
  BY NextCascadeMoves
<1>2. /\ \A r : RegistryOf(r)' = RegistryOf(r)
      /\ \A r : r \in Asked(p)' <=> r \in Asked(p)
  BY <1>1, SameViews DEF NextCascade, Asked
<1>3. CASE Finished(p) /\ \E m : Moves(p, "delete", m) /\ m.todo = mem[p].later
  <2>1. at'[p] = "delete" /\ Pending(p) \subseteq Pending(p)'
    BY <1>3, OthersStay, NoList DEF Pending, Finished
  <2>2. Range(mem[p].todo) = {}
    BY <1>3, NoList DEF Finished
  <2>3. \A name : Listing(p, name) => Listing(p, name)'
    BY <2>1 DEF Listing
  <2> QED
    BY <1>1, <1>2, <2>1, <2>2, <2>3 DEF DeletesAlone, CascadesAlone
<1>4. ASSUME ~Finished(p), Item(p) \in Asked(p), Item(p).kind \in {"Cluster", "Registry"},
             NEW m, Moves(p, "cascade", m), m.todo = Tail(mem[p].todo),
             Longer(Item(p), RegistryOf(Item(p)), mem[p].later, m.later)
      PROVE  DeletesAlone(p)' /\ CascadesAlone(p)'
  <2>1. at'[p] = "cascade" /\ mem'[p] = m
    BY <1>4, OthersStay
  <2>2. PICK r, registry, list, longer :
          r = Item(p) /\ registry = RegistryOf(r) /\ list = mem[p].later /\ longer = m.later
    OBVIOUS
  <2>3. r \in Listed /\ list \in Seq(Listed) /\ registry \in Registries \cup {None}
    <3>1. req[p] \in Requests /\ Other \notin Range(req[p].resources) /\ mem[p] \in Memories
      BY <1>1, BaseFacts DEF Fits
    <3> QED
      BY <1>4, <2>2, <3>1, ItemFacts, RegistryOfFacts, MemoryType DEF Asked
  <2>4. /\ Range(list) \subseteq Range(longer)
        /\ \E s \in Range(longer) : Alike(r, s)
        /\ r.kind = "Cluster" /\ registry # None =>
             \E s \in Range(longer) : s.kind = "Registry" /\ FullName(s) = registry
    <3>1. Longer(r, registry, list, longer)
      BY <1>4, <2>2
    <3> QED
      BY <2>3, <3>1, LongerFacts
  <2>5. Range(mem[p].todo) = {r} \cup Range(m.todo)
    BY <1>4, <2>2, ItemFacts
  <2>6. /\ Pending(p) = {r} \cup Range(m.todo) \cup Range(list)
        /\ Pending(p)' = Range(m.todo) \cup Range(longer)
    BY <2>1, <2>2, <2>5 DEF Pending
  <2>7. \A x \in Asked(p) : (\E s \in Pending(p) : Alike(x, s)) => \E s \in Pending(p)' : Alike(x, s)
    BY <2>4, <2>6 DEF Alike
  <2>8. DeletesAlone(p)'
    BY <1>1, <1>2, <2>7 DEF DeletesAlone
  <2>9. \A name : Listing(p, name) => Listing(p, name)'
    <3>1. \A x : Alike(r, x) /\ r.kind = "Registry" => x.kind = "Registry" /\ FullName(x) = FullName(r)
      BY AlikeFacts DEF Alike
    <3> QED
      BY <2>4, <2>6, <3>1 DEF Listing
  <2>10. ASSUME NEW name \in owed[p]
         PROVE  \/ Listing(p, name)'
                \/ \E x \in Range(m.todo) : x.kind = "Cluster" /\ RegistryOf(x) = name
    <3>1. name # None
      BY CommandsAssumption DEF BaseInv, TypeOK
    <3>2. CASE r.kind = "Cluster" /\ registry = name
      BY <2>4, <2>6, <3>1, <3>2 DEF Listing
    <3> QED
      BY <1>1, <2>2, <2>5, <2>9, <3>2 DEF CascadesAlone
  <2> QED
    BY <1>1, <1>2, <2>1, <2>8, <2>10 DEF CascadesAlone
<1> QED
  BY <1>3, <1>4, NextCascadeMoves

LEMMA NextDeleteDeletes ==
  ASSUME BaseInv, NEW p \in Procs, NextDelete(p), DeletesAlone(p), at'[p] = "delete"
  PROVE  DeletesAlone(p)' /\ (CascadesAlone(p) => CascadesAlone(p)')
<1>1. /\ at[p] = "delete" /\ owed' = owed /\ ~Finished(p) /\ Deletes(Item(p))
      /\ \E m : Moves(p, "delete", m) /\ m.todo = Tail(mem[p].todo)
  <2>1. ~Moves(p, "failed", Blank) /\ ~Moves(p, "done", Blank)
    BY OthersStay
  <2> QED
    BY <2>1, NextDeleteMoves
<1>2. PICK m : Moves(p, "delete", m) /\ m.todo = Tail(mem[p].todo)
  BY <1>1
<1>3. mem'[p] = m /\ req' = req /\ m.later = <<>> /\ mem[p].later = <<>>
  <2>1. Fits(req[p], at[p], mem[p]) /\ Fits(req[p], "delete", m)
    BY <1>2, BaseFacts DEF Moves
  <2>2. m.later = <<>> /\ mem[p].later = <<>>
    BY <1>1, <2>1 DEF Fits
  <2> QED
    BY <1>2, <2>2, OthersStay
<1>4. PICK r : r = Item(p)
  OBVIOUS
<1>5. Pending(p) = {r} \cup Range(m.todo) /\ Pending(p)' = Range(m.todo)
  BY <1>1, <1>2, <1>3, <1>4, ItemFacts, NoList DEF Pending
<1>6. /\ \A name : Exists(name)' => Exists(name)
      /\ \A name : HasContainer(name)' => HasContainer(name)
      /\ r.kind \in {"Cluster", "Registry"} => Deleted(r)'
  BY <1>1, <1>4, DeletesFacts
<1>7. \A x : Deleted(x) => Deleted(x)'
  BY <1>6 DEF Deleted
<1>8. DeletesAlone(p)'
  <2>1. SUFFICES ASSUME NEW x \in Asked(p) PROVE (\E s \in Pending(p)' : Alike(x, s)) \/ Deleted(x)'
    BY <1>2, <1>3, OthersStay DEF DeletesAlone, Asked
  <2>2. x.kind \in {"Cluster", "Registry"}
    BY <1>1, BaseFacts, ResourceFacts DEF Fits, Asked
  <2>3. CASE Deleted(x)
    BY <1>7, <2>3
  <2>4. CASE \E s \in Pending(p)' : Alike(x, s)
    BY <2>4
  <2>5. CASE Alike(x, r)
    <3>1. r.kind \in {"Cluster", "Registry"}
      BY <2>2, <2>5 DEF Alike
    <3> QED
      BY <1>6, <2>2, <2>5, <3>1, AlikeFacts
  <2> QED
    BY <1>5, <2>3, <2>4, <2>5 DEF DeletesAlone
<1>9. ASSUME CascadesAlone(p) PROVE CascadesAlone(p)'
  <2>1. SUFFICES ASSUME NEW name \in owed[p] PROVE Listing(p, name)' \/ ~HasContainer(name)'
    BY <1>1 DEF CascadesAlone
  <2>2. CASE ~HasContainer(name)
    BY <1>6, <2>2
  <2>3. CASE \E s \in Pending(p)' : s.kind = "Registry" /\ FullName(s) = name
    BY <2>3 DEF Listing
  <2>4. CASE r.kind = "Registry" /\ FullName(r) = name
    BY <1>6, <2>4 DEF Deleted
  <2> QED
    BY <1>1, <1>5, <1>9, <2>2, <2>3, <2>4 DEF CascadesAlone, Listing
<1> QED
  BY <1>8, <1>9

\* Only these steps are steps of a delete.
LEMMA DeleteSteps ==
  ASSUME BaseInv, NEW p \in Procs, Step(p), at'[p] \in {"cascade", "delete"}
  PROVE  \/ Begin(p) /\ at[p] = "idle"
         \/ NextCascade(p) /\ at[p] = "cascade"
         \/ NextDelete(p) /\ at[p] = "delete"
<1>1. req[p].kind = "delete"
  <2>1. Fits(req[p], at'[p], mem'[p])
    BY StepMoves, OthersStay DEF Moves
  <2> QED
    BY <2>1 DEF Fits
<1>2. at[p] \notin ApplyPlaces /\ at[p] # "get"
  BY <1>1, BaseFacts DEF Fits
<1>3. ~Fail(p)
  BY FailMoves, OthersStay
<1> QED
  BY <1>2, <1>3, BeginMoves, NextRegistryMoves, LookMoves, DropMoves, RunMoves, NextClusterMoves, InspectMoves,
     RemoveOldMoves, CreateMoves, JoinMoves, HostingMoves, NextCascadeMoves, NextDeleteMoves, GetMoves
  DEF Step, ApplyPlaces, Asking

LEMMA DeleteStep ==
  ASSUME BaseInv, DeleteInv, [Next]_vars
  PROVE  DeleteInv'
<1>1. CASE UNCHANGED vars
  <2>1. UNCHANGED world /\ UNCHANGED <<req, at, mem, alone, owed>>
    BY <1>1 DEF vars
  <2>2. /\ \A name : HasContainer(name)' <=> HasContainer(name)
        /\ \A r : (Deleted(r)' <=> Deleted(r)) /\ RegistryOf(r)' = RegistryOf(r)
    BY <2>1, SameViews
  <2>3. \A p \in Procs : (DeletesAlone(p)' <=> DeletesAlone(p)) /\ (CascadesAlone(p)' <=> CascadesAlone(p))
    BY <2>1, <2>2 DEF DeletesAlone, CascadesAlone, Listing, Pending, Asked
  <2> QED
    BY <2>1, <2>3 DEF DeleteInv
<1>2. CASE Next
  <2>1. PICK q \in Procs : Step(q) /\ Interrupt(q)
    BY <1>2 DEF Next
  <2>2. SUFFICES ASSUME NEW p \in Procs, alone'[p], at'[p] \in {"cascade", "delete"}
                 PROVE  DeletesAlone(p)' /\ (req'[p].cascade => CascadesAlone(p)')
    BY DEF DeleteInv
  <2>3. p = q /\ alone[p]
    BY <2>1, <2>2, AloneFacts DEF InFlight
  <2>4. req' = req
    BY <2>1, StepMoves, OthersStay
  <2>5. CASE Begin(p)
    BY <2>2, <2>4, <2>5, BeginDeletes
  <2>6. CASE NextCascade(p) /\ at[p] = "cascade"
    <3>1. req[p].cascade
      BY <2>6, BaseFacts DEF Fits
    <3>2. DeletesAlone(p) /\ CascadesAlone(p)
      BY <2>3, <2>6, <3>1 DEF DeleteInv
    <3> QED
      BY <2>6, <3>2, NextCascadeDeletes
  <2>7. CASE NextDelete(p) /\ at[p] = "delete"
    <3>1. at'[p] = "delete"
      <4>1. at'[p] # "cascade"
        BY <2>7, NextDeleteMoves, OthersStay
      <4> QED
        BY <2>2, <4>1
    <3>2. DeletesAlone(p) /\ (req[p].cascade => CascadesAlone(p))
      BY <2>3, <2>7 DEF DeleteInv
    <3> QED
      BY <2>4, <2>7, <3>1, <3>2, NextDeleteDeletes
  <2> QED
    BY <2>1, <2>2, <2>3, <2>5, <2>6, <2>7, DeleteSteps
<1> QED
  BY <1>1, <1>2

LEMMA DeleteAlways == Spec => []DeleteInv
<1>1. Init => DeleteInv
  BY DEF Init, DeleteInv
<1> QED
  BY <1>1, DeleteStep, BaseAlways, PTL DEF Spec

\* A delete ends well at the end of its list.
LEMMA DeleteEnds ==
  ASSUME BaseInv, DeleteInv, Next, NEW p \in Procs, req[p].kind = "delete", Ends(p, "done")
  PROVE  /\ UNCHANGED world /\ owed' = owed /\ req' = req /\ at[p] = "delete"
         /\ \A r \in Asked(p) : Deleted(r)
         /\ req[p].cascade => \A name \in owed[p] : ~HasContainer(name)
<1>1. PICK q \in Procs : Step(q) /\ Interrupt(q)
  BY DEF Next
<1>2. q = p /\ req' = req
  BY <1>1, StepMoves, OthersStay DEF Ends
<1>3. at[p] \notin ApplyPlaces /\ at[p] # "get"
  BY BaseFacts DEF Fits
<1>4. at'[p] = "done" /\ alone[p]
  BY DEF Ends
<1>5. ~Fail(p) /\ ~Begin(p) /\ ~NextCascade(p)
  BY <1>4, FailMoves, BeginMoves, NextCascadeMoves, OthersStay
<1>6. NextDelete(p)
  BY <1>1, <1>2, <1>3, <1>5, NextRegistryMoves, LookMoves, DropMoves, RunMoves, NextClusterMoves, InspectMoves,
     RemoveOldMoves, CreateMoves, JoinMoves, HostingMoves, GetMoves
  DEF Step, ApplyPlaces, Asking
<1>7. at[p] = "delete" /\ owed' = owed /\ UNCHANGED world /\ Finished(p)
  BY <1>4, <1>6, NextDeleteMoves, OthersStay
<1>8. Pending(p) = {}
  BY <1>7, BaseFacts, NoList DEF Pending, Finished, Fits
<1>9. DeletesAlone(p) /\ (req[p].cascade => CascadesAlone(p))
  BY <1>4, <1>7 DEF DeleteInv
<1> QED
  BY <1>2, <1>7, <1>8, <1>9 DEF DeletesAlone, CascadesAlone, Listing

(***************************************************************************)
(* A delete that nobody interferes with and that reports success leaves     *)
(* none of its resources, whatever the commands before it left and however  *)
(* its resources are named.                                                *)
(***************************************************************************)
THEOREM DeletedIsGoneAlways == Spec => DeletedIsGone
<1>1. BaseInv /\ DeleteInv /\ [Next]_vars =>
        [\A p \in Procs :
           req[p].kind = "delete" /\ Ends(p, "done") => \A r \in Asked(p) : Deleted(r)']_vars
  <2>1. SUFFICES ASSUME BaseInv, DeleteInv, Next, NEW p \in Procs, req[p].kind = "delete", Ends(p, "done"),
                        NEW r \in Asked(p)
                 PROVE  Deleted(r)'
    OBVIOUS
  <2> QED
    BY <2>1, DeleteEnds, SameViews
<1> QED
  BY <1>1, BaseAlways, DeleteAlways, PTL DEF Spec, DeletedIsGone

-------------------------------------------------------------------------------
(***************************************************************************)
(* Two containers do not have one port, so that a cluster leads to one      *)
(* registry at most.                                                       *)
(***************************************************************************)

PortsDiffer == \A r, s \in Registries : reg[r].port # 0 /\ reg[r].port = reg[s].port => r = s

LEMMA PortsStep ==
  ASSUME BaseInv, PortsDiffer, [Next]_vars
  PROVE  PortsDiffer'
<1>1. CASE UNCHANGED vars
  BY <1>1 DEF vars, world, PortsDiffer
<1>2. CASE Next
  <2>1. PICK p \in Procs : Step(p)
    BY <1>2 DEF Next
  <2>2. CASE \A r \in Registries : reg'[r].port \in {reg[r].port, 0}
    BY <2>2 DEF PortsDiffer
  <2>3. CASE Run(p)
    <3>1. PICK name, port, made :
            /\ name = mem[p].ask.name /\ reg' = [reg EXCEPT ![name] = made]
            /\ (~Taken(name, port) /\ made.port = port) \/ made.port = 0
      BY <2>3, RunMoves
    <3>2. \A r \in Registries : reg[r] \in RegistryStates
      BY DEF BaseInv, TypeOK
    <3>3. \A r \in Registries : r # name => reg'[r] = reg[r]
      BY <3>1 DEF BaseInv, TypeOK
    <3>4. name \in Registries => reg'[name] = made
      BY <3>1 DEF BaseInv, TypeOK
    <3>5. ASSUME NEW r \in Registries \ {name}, made.port # 0 PROVE reg[r].port # made.port
      <4>1. ~(Up(r) /\ reg[r].port = made.port)
        BY <3>1, <3>5 DEF Taken
      <4>2. reg[r].port # 0 => Up(r)
        BY <3>2 DEF RegistryStates, Up
      <4> QED
        BY <3>5, <4>1, <4>2
    <3> QED
      BY <3>3, <3>4, <3>5 DEF PortsDiffer
  <2>4. CASE Drop(p)
    <3>1. \A r \in Registries : reg'[r] \in {reg[r], NoRegistry}
      BY <2>4, DropMoves DEF BaseInv, TypeOK
    <3> QED
      BY <2>2, <3>1 DEF NoRegistry
  <2>5. CASE NextDelete(p)
    <3>1. \A r \in Registries : reg'[r].port \in {reg[r].port, 0}
      <4>1. CASE UNCHANGED world
        BY <4>1 DEF world
      <4>2. CASE Deletes(Item(p))
        <5>1. CASE RemoveCluster(Normalize(FullName(Item(p))))
          BY <5>1, RemoveFacts DEF SameRegistries
        <5>2. CASE reg' = [reg EXCEPT ![FullName(Item(p))] = NoRegistry]
          BY <5>2 DEF NoRegistry, BaseInv, TypeOK
        <5> QED
          BY <4>1, <4>2, <5>1, <5>2 DEF Deletes
      <4> QED
        BY <2>5, <4>1, <4>2, NextDeleteMoves
    <3> QED
      BY <2>2, <3>1
  <2>6. CASE RemoveOld(p)
    BY <2>2, <2>6, RemoveOldMoves, RemoveFacts DEF SameRegistries, world
  <2>7. CASE Create(p) \/ Join(p)
    BY <2>2, <2>7, CreateMoves, JoinMoves DEF SameRegistries
  <2>8. CASE reg' = reg
    BY <2>2, <2>8
  <2>9. \/ Run(p) \/ Drop(p) \/ NextDelete(p) \/ RemoveOld(p) \/ Create(p) \/ Join(p)
        \/ reg' = reg
    BY <2>1 DEF Step, Begin, NextRegistry, Look, NextCluster, Inspect, Hosting, NextCascade, Get, Fail, world
  <2> QED
    BY <2>3, <2>4, <2>5, <2>6, <2>7, <2>8, <2>9
<1> QED
  BY <1>1, <1>2

LEMMA PortsAlways == Spec => []PortsDiffer
<1>1. Init => PortsDiffer
  BY CommandsAssumption DEF Init, PortsDiffer
<1> QED
  BY <1>1, PortsStep, BaseAlways, PTL DEF Spec

\* The cluster's hosting config map names the port of the registry, which runs.
Hosts(c, n) ==
  /\ Exists(c) /\ cluster[c].state = "up" /\ cluster[c].hosting # 0
  /\ Up(n) /\ reg[n].port = cluster[c].hosting

StatusIsHost ==
  \A c : /\ StatusRegistry(c) \in Registries \cup {None}
         /\ PortsDiffer => \A n \in Registries : StatusRegistry(c) = n <=> Hosts(c, n)

LEMMA StatusHosts == StatusIsHost
<1>1. SUFFICES ASSUME NEW c
               PROVE  /\ StatusRegistry(c) \in Registries \cup {None}
                      /\ PortsDiffer => \A n \in Registries : StatusRegistry(c) = n <=> Hosts(c, n)
  BY DEF StatusIsHost
<1>2. ASSUME PortsDiffer, NEW n \in Registries, StatusRegistry(c) = n
      PROVE  Hosts(c, n)
  <2>1. Exists(c) /\ cluster[c].state = "up" /\ cluster[c].hosting # 0
    BY <1>2, CommandsAssumption DEF StatusRegistry
  <2> QED
    BY <1>2, <2>1, StatusFacts, CommandsAssumption DEF Hosts
<1>3. ASSUME PortsDiffer, NEW n \in Registries, Hosts(c, n)
      PROVE  StatusRegistry(c) = n
  <2>1. PICK hosts : hosts = {r \in Registries : Up(r) /\ reg[r].port = cluster[c].hosting}
    OBVIOUS
  <2>2. StatusRegistry(c) = IF hosts = {} THEN None ELSE CHOOSE r \in hosts : TRUE
    BY <1>3, <2>1 DEF StatusRegistry, Hosts
  <2>3. n \in hosts /\ \A r \in hosts : r = n
    BY <1>3, <2>1 DEF PortsDiffer, Hosts
  <2> QED
    BY <2>2, <2>3
<1> QED
  BY <1>2, <1>3, StatusFacts

\* After a delete the rest is what it was.
LEMMA DeletesShrink ==
  ASSUME BaseInv, NEW r, Deletes(r)
  PROVE  /\ \A c : Exists(c)' => Exists(c) /\ cluster'[c] = cluster[c]
         /\ \A n : Up(n)' => Up(n) /\ reg'[n].port = reg[n].port
<1>1. CASE RemoveCluster(Normalize(FullName(r)))
  <2>1. PICK target : target = Normalize(FullName(r))
    OBVIOUS
  <2>2. cluster' = [cluster EXCEPT ![target] = NoCluster] /\ SameRegistries
    BY <1>1, <2>1, RemoveFacts
  <2>3. \A c \in Clusters : c # target => cluster'[c] = cluster[c]
    BY <2>2 DEF BaseInv, TypeOK
  <2>4. target \in Clusters => cluster'[target] = NoCluster
    BY <2>2 DEF BaseInv, TypeOK
  <2> QED
    BY <2>2, <2>3, <2>4 DEF Exists, Up, SameRegistries, NoCluster
<1>2. CASE reg' = [reg EXCEPT ![FullName(r)] = NoRegistry] /\ cluster' = cluster
  <2>1. \A n \in Registries : reg'[n] = reg[n] \/ reg'[n] = NoRegistry
    BY <1>2 DEF BaseInv, TypeOK
  <2> QED
    BY <1>2, <2>1 DEF Exists, Up, NoRegistry
<1>3. CASE UNCHANGED world
  BY <1>3 DEF world, Exists, Up
<1> QED
  BY <1>1, <1>2, <1>3 DEF Deletes

\* A cluster leads to no other registry than before.
LEMMA DeletesLeads ==
  ASSUME BaseInv, PortsDiffer, PortsDiffer', NEW r, Deletes(r), NEW s
  PROVE  /\ RegistryOf(s)' = RegistryOf(s) \/ RegistryOf(s)' = None
         /\ s.kind = "Cluster" /\ s.registry = None =>
              \A n \in Registries : RegistryOf(s)' = n => HasContainer(n)'
<1>1. CASE ~(s.kind = "Cluster" /\ s.registry = None)
  BY <1>1 DEF RegistryOf
<1>2. CASE s.kind = "Cluster" /\ s.registry = None
  <2>1. PICK name, c, n : name = s.name /\ c = Normalize(name)' /\ n = StatusRegistry(c)'
    OBVIOUS
  <2>2. RegistryOf(s)' = n
    BY <1>2, <2>1 DEF RegistryOf
  <2>3. SUFFICES ASSUME n # None PROVE RegistryOf(s) = n /\ HasContainer(n)'
    BY <2>2, CommandsAssumption
  <2>4. StatusIsHost'
    BY StatusHosts, PTL
  <2>5. n \in Registries /\ Hosts(c, n)'
    BY <2>1, <2>3, <2>4 DEF StatusIsHost
  <2>6. Exists(c)' /\ Hosts(c, n)
    BY <2>5, DeletesShrink DEF Hosts
  <2>7. c = Normalize(name)
    <3>1. CASE c = name
      BY <2>6, <3>1 DEF Normalize, Hosts
    <3>2. CASE c # name
      <4>1. c = AliasOf[name] /\ ~Exists(name)'
        BY <2>1, <3>2 DEF Normalize
      <4>2. name \notin Clusters
        BY <2>6, <4>1, CommandsAssumption DEF Exists
      <4> QED
        BY <2>6, <4>1, <4>2 DEF Normalize, Hosts, Exists
    <3> QED
      BY <3>1, <3>2
  <2> QED
    BY <1>2, <2>1, <2>5, <2>6, <2>7, StatusHosts DEF RegistryOf, StatusIsHost, Hosts, Up, HasContainer
<1> QED
  BY <1>1, <1>2

-------------------------------------------------------------------------------
(***************************************************************************)
(* A cascading delete that is repeated, by itself or by others. A registry  *)
(* that a cluster leads to goes before the cluster, so what is left of the  *)
(* registries can be found again.                                          *)
(***************************************************************************)

\* A cluster whose registry only its status tells.
OnlyStatus(r) == r.kind = "Cluster" /\ r.registry = None /\ r.name # None

RegistriesFirst(list) ==
  \A j \in DOMAIN list :
    OnlyStatus(list[j]) /\ RegistryOf(list[j]) # None
      => \E i \in DOMAIN list : i < j /\ list[i].kind = "Registry" /\ FullName(list[i]) = RegistryOf(list[j])

\* There are but cascading deletes of the resources of p.
AllRepeat(p) ==
  /\ req[p].kind = "delete" /\ req[p].cascade /\ Repeatable(p)
  /\ \A q \in Procs : at[q] # "idle" => req[q] = req[p]

CanRepeat(p, q) ==
  /\ at[q] \in {"cascade", "delete"} => \A r \in Pending(q) : r.kind = "Cluster" => r \in Asked(p)
  /\ at[q] = "cascade" => RegistriesFirst(mem[q].later)
  /\ at[q] = "delete" => RegistriesFirst(mem[q].todo)
  /\ \A name \in owed[q] : HasContainer(name) => name \in Owed(p)

RepeatInv ==
  \A p \in Procs : AllRepeat(p) => \A q \in Procs : at[q] # "idle" => CanRepeat(p, q)

\* Its own list holds what any of them was to delete, and is not deleted.
SupersedeInv ==
  \A p, q \in Procs :
    AllRepeat(p) /\ at[p] \in InFlight /\ alone[p] /\ at[q] # "idle"
      => \A name \in owed[q] : HasContainer(name) => name \in owed[p]

\* With one resource more, and the registry that it leads to.
LEMMA LongerFirst ==
  ASSUME NEW r \in Listed, NEW list \in Seq(Listed), NEW registry \in Registries \cup {None},
         NEW longer, Longer(r, registry, list, longer), registry = RegistryOf(r),
         RegistriesFirst(list)
  PROVE  /\ RegistriesFirst(longer)
         /\ \A s \in Range(longer) : s.kind = "Cluster" => s = r \/ s \in Range(list)
<1>1. ASSUME NEW more \in Seq(Listed), NEW x \in Listed, RegistriesFirst(more),
             OnlyStatus(x) /\ RegistryOf(x) # None => \E i \in DOMAIN more :
               more[i].kind = "Registry" /\ FullName(more[i]) = RegistryOf(x)
      PROVE  RegistriesFirst(more \o <<x>>)
  <2>1. PICK new : new = more \o <<x>>
    OBVIOUS
  <2>2. /\ Len(more) \in Nat /\ DOMAIN more = 1..Len(more) /\ DOMAIN new = 1..(Len(more) + 1)
        /\ \A i \in 1..Len(more) : new[i] = more[i]
        /\ new[Len(more) + 1] = x
    BY <2>1, OneMore
  <2>3. SUFFICES ASSUME NEW j \in DOMAIN new, OnlyStatus(new[j]), RegistryOf(new[j]) # None
                 PROVE  \E i \in DOMAIN new :
                          i < j /\ new[i].kind = "Registry" /\ FullName(new[i]) = RegistryOf(new[j])
    BY <2>1 DEF RegistriesFirst
  <2>4. CASE j \in 1..Len(more)
    <3>1. OnlyStatus(more[j]) /\ RegistryOf(more[j]) # None /\ new[j] = more[j]
      BY <2>2, <2>3, <2>4
    <3>2. PICK i \in DOMAIN more : i < j /\ more[i].kind = "Registry" /\ FullName(more[i]) = RegistryOf(more[j])
      BY <1>1, <2>2, <2>4, <3>1 DEF RegistriesFirst
    <3>3. i \in DOMAIN new /\ new[i] = more[i]
      BY <2>2, <3>2
    <3> QED
      BY <3>1, <3>2, <3>3
  <2>5. CASE j = Len(more) + 1
    <3>1. new[j] = x
      BY <2>2, <2>5
    <3>2. PICK i \in DOMAIN more : more[i].kind = "Registry" /\ FullName(more[i]) = RegistryOf(x)
      BY <1>1, <2>3, <3>1
    <3>3. i \in DOMAIN new /\ new[i] = more[i] /\ i < j
      BY <2>2, <2>5, <3>2
    <3> QED
      BY <3>1, <3>2, <3>3
  <2> QED
    BY <2>2, <2>3, <2>4, <2>5
<1>2. CASE r.kind = "Registry" /\ Seen(list, r.name) /\ longer = list
  BY <1>2
<1>3. CASE r.kind = "Registry" /\ ~Seen(list, r.name) /\ longer = list \o <<r>>
  BY <1>1, <1>3, OneMore DEF OnlyStatus
<1>4. CASE r.kind = "Cluster" /\ (registry = None \/ Seen(list, registry)) /\ longer = list \o <<r>>
  <2>1. registry # None => \E i \in DOMAIN list : list[i].kind = "Registry" /\ FullName(list[i]) = registry
    BY <1>4 DEF Seen, FullName
  <2> QED
    BY <1>1, <1>4, <2>1, OneMore
<1>5. CASE /\ r.kind = "Cluster" /\ registry \in Registries /\ ~Seen(list, registry)
           /\ longer = (list \o <<Registry(registry, 0)>>) \o <<r>>
  <2>1. PICK extra, more : extra = Registry(registry, 0) /\ more = list \o <<extra>>
    OBVIOUS
  <2>2. extra \in Listed /\ extra.kind = "Registry" /\ extra.name = registry /\ longer = more \o <<r>>
    BY <1>5, <2>1, RecordFacts DEF Listed
  <2>3. FullName(extra) = registry
    BY <1>5, <2>2, CommandsAssumption DEF FullName
  <2>4. /\ more \in Seq(Listed) /\ Range(more) = Range(list) \cup {extra}
        /\ Len(list) + 1 \in DOMAIN more /\ more[Len(list) + 1] = extra
    BY <2>1, <2>2, OneMore
  <2>5. RegistriesFirst(more)
    BY <1>1, <2>1, <2>2 DEF OnlyStatus
  <2>6. RegistriesFirst(longer) /\ Range(longer) = Range(more) \cup {r}
    BY <1>1, <2>2, <2>3, <2>4, <2>5, OneMore
  <2> QED
    BY <2>2, <2>4, <2>6
<1> QED
  BY <1>2, <1>3, <1>4, <1>5 DEF Longer

\* The rest of the list, when its first has been deleted.
LEMMA RestFirst ==
  ASSUME BaseInv, PortsDiffer, PortsDiffer', NEW list \in Seq(Listed), list # <<>>, Deletes(Head(list)),
         RegistriesFirst(list)
  PROVE  RegistriesFirst(Tail(list))'
<1>1. PICK rest : rest = Tail(list)
  OBVIOUS
<1>2. /\ Len(list) \in Nat \ {0} /\ Head(list) = list[1] /\ DOMAIN list = 1..Len(list)
      /\ DOMAIN rest = 1..(Len(list) - 1) /\ \A i \in 1..(Len(list) - 1) : rest[i] = list[i + 1]
  <2>1. Len(list) \in Nat \ {0} /\ Head(list) = list[1] /\ DOMAIN list = 1..Len(list)
    BY EmptySeq, LenProperties, HeadTailProperties
  <2>2. rest \in Seq(Listed) /\ Len(rest) = Len(list) - 1
    BY <1>1, HeadTailProperties
  <2>3. DOMAIN rest = 1..Len(rest) /\ \A i \in 1..Len(rest) : rest[i] = list[i + 1]
    BY <1>1, <2>2, LenProperties, HeadTailProperties
  <2> QED
    BY <2>1, <2>2, <2>3
<1>3. SUFFICES ASSUME NEW j \in DOMAIN rest, OnlyStatus(rest[j]), RegistryOf(rest[j])' # None
               PROVE  \E i \in DOMAIN rest :
                        i < j /\ rest[i].kind = "Registry" /\ FullName(rest[i]) = RegistryOf(rest[j])'
  BY <1>1 DEF RegistriesFirst
<1>4. PICK s, n : s = rest[j] /\ n = RegistryOf(s)
  OBVIOUS
<1>5. s = list[j + 1] /\ j + 1 \in DOMAIN list /\ j \in Nat
  BY <1>2, <1>4
<1>6. RegistryOf(s)' = n /\ n # None /\ n \in Registries /\ HasContainer(n)'
  <2>1. RegistryOf(s)' = n /\ n # None
    BY <1>3, <1>4, DeletesLeads
  <2>2. n \in Registries
    BY <1>3, <1>4, <2>1, StatusFacts DEF OnlyStatus, RegistryOf
  <2> QED
    BY <1>3, <1>4, <2>1, <2>2, DeletesLeads DEF OnlyStatus
<1>7. PICK i \in DOMAIN list : i < j + 1 /\ list[i].kind = "Registry" /\ FullName(list[i]) = n
  BY <1>3, <1>4, <1>5, <1>6 DEF RegistriesFirst
<1>8. i # 1
  BY <1>2, <1>6, <1>7, DeletesFacts DEF Deleted
<1>9. i - 1 \in DOMAIN rest /\ i - 1 < j /\ rest[i - 1] = list[i]
  BY <1>2, <1>5, <1>7, <1>8
<1> QED
  BY <1>4, <1>6, <1>7, <1>9

\* What a cascading delete would be after can still be found, if it is still there.
LEMMA OwedKept ==
  ASSUME BaseInv, PortsDiffer, PortsDiffer', NEW p \in Procs, AllRepeat(p),
         NEW x \in Procs, at[x] = "delete", CanRepeat(p, x), ~Finished(x), Deletes(Item(x)), req' = req,
         NEW name \in Owed(p), HasContainer(name)'
  PROVE  name \in Owed(p)'
<1>1. PICK s \in Asked(p) : name # None /\ name = IF s.kind = "Registry" THEN FullName(s) ELSE RegistryOf(s)
  BY DEF Owed
<1>2. /\ req[p].kind = "delete" /\ req[p].cascade /\ Repeatable(p)
      /\ \A r : r \in Asked(p)' <=> r \in Asked(p)
  BY DEF AllRepeat, Asked
<1>3. (IF s.kind = "Registry" THEN FullName(s) ELSE RegistryOf(s)') = name => name \in Owed(p)'
  BY <1>1, <1>2 DEF Owed
<1>4. CASE s.kind # "Cluster" \/ s.registry # None
  BY <1>1, <1>3, <1>4 DEF RegistryOf
<1>5. CASE s.kind = "Cluster" /\ s.registry = None
  <2>1. PICK c : c = Normalize(s.name)
    OBVIOUS
  <2>2. name = StatusRegistry(c) /\ name \in Registries
    BY <1>1, <1>5, <2>1, StatusFacts DEF RegistryOf
  <2>3. Exists(c) /\ c \in Clusters
    BY <1>1, <2>2, StatusFacts DEF Exists
  <2>4. s.name # None /\ FullName(s) = s.name /\ TargetOf(s) = c
    <3>1. s.name # None
      BY <1>2, <1>5 DEF Repeatable
    <3>2. FullName(s) = s.name
      BY <3>1 DEF FullName
    <3>3. TargetOf(s) = c
      BY <2>1, <2>3, <3>2, CommandsAssumption DEF TargetOf, Normalize, Exists
    <3> QED
      BY <3>1, <3>2, <3>3
  <2>5. PICK r : r = Item(x)
    OBVIOUS
  <2>6. ASSUME r.kind = "Cluster", Normalize(FullName(r)) = c
        PROVE  FALSE
    <3>1. r \in Asked(p)
      BY <2>5, <2>6, ItemFacts DEF CanRepeat, Pending
    <3>2. TargetOf(r) = c
      BY <2>3, <2>6, CommandsAssumption DEF TargetOf, Normalize, Exists
    <3>3. r = s
      BY <1>2, <1>5, <2>4, <2>6, <3>1, <3>2 DEF Repeatable
    <3>4. OnlyStatus(r) /\ RegistryOf(r) # None
      BY <1>1, <1>5, <2>4, <3>3 DEF OnlyStatus
    <3>5. /\ RegistriesFirst(mem[x].todo) /\ 1 \in DOMAIN mem[x].todo /\ mem[x].todo[1] = r
          /\ DOMAIN mem[x].todo = 1..Len(mem[x].todo)
      <4>1. mem[x].todo \in Seq(Listed) /\ mem[x].todo # <<>>
        BY BaseFacts, MemoryType DEF Finished
      <4>2. RegistriesFirst(mem[x].todo)
        BY DEF CanRepeat
      <4> QED
        BY <2>5, <4>1, <4>2, EmptySeq, LenProperties, HeadTailProperties DEF Item
    <3>6. PICK i \in 1..Len(mem[x].todo) : i < 1
      BY <3>4, <3>5 DEF RegistriesFirst
    <3> QED
      BY <3>6
  <2>7. Hosts(c, name)'
    <3>1. Hosts(c, name)
      BY <2>2, StatusHosts DEF StatusIsHost
    <3>2. PICK target : target = Normalize(FullName(r))
      OBVIOUS
    <3>3. CASE r.kind = "Cluster" /\ RemoveCluster(target)
      <4>1. c # target
        BY <2>6, <3>2, <3>3
      <4>2. cluster' = [cluster EXCEPT ![target] = NoCluster] /\ SameRegistries
        BY <3>3, RemoveFacts
      <4>3. cluster'[c] = cluster[c]
        BY <2>3, <4>1, <4>2 DEF BaseInv, TypeOK
      <4> QED
        BY <2>2, <3>1, <4>2, <4>3 DEF Hosts, Exists, Up, SameRegistries
    <3>4. CASE reg' = [reg EXCEPT ![FullName(r)] = NoRegistry] /\ cluster' = cluster
      <4>1. FullName(r) # name
        BY <2>2, <3>4 DEF HasContainer, NoRegistry, BaseInv, TypeOK
      <4>2. reg'[name] = reg[name]
        BY <2>2, <3>4, <4>1 DEF BaseInv, TypeOK
      <4> QED
        BY <3>1, <3>4, <4>2 DEF Hosts, Exists, Up
    <3>5. CASE UNCHANGED world
      BY <3>1, <3>5 DEF world, Hosts, Exists, Up
    <3> QED
      BY <2>5, <3>2, <3>3, <3>4, <3>5 DEF Deletes
  <2>8. Normalize(s.name)' = c
    BY <2>1, <2>3, <2>7, DeletesShrink DEF Normalize, Hosts
  <2>9. RegistryOf(s)' = name
    <3>1. StatusIsHost'
      BY StatusHosts, PTL
    <3>2. StatusRegistry(c)' = name
      BY <2>2, <2>7, <3>1 DEF StatusIsHost
    <3> QED
      BY <1>5, <2>8, <3>2 DEF RegistryOf
  <2> QED
    BY <1>3, <1>5, <2>9
<1> QED
  BY <1>4, <1>5

\* What is first stays first, and what is owed stays owed, while nothing changes.
LEMMA QuietRepeat ==
  ASSUME UNCHANGED world, req' = req
  PROVE  /\ \A list : RegistriesFirst(list)' <=> RegistriesFirst(list)
         /\ \A p : Owed(p)' = Owed(p) /\ Asked(p)' = Asked(p)
         /\ \A name : HasContainer(name)' <=> HasContainer(name)
<1>1. \A r : RegistryOf(r)' = RegistryOf(r)
  BY SameViews
<1>2. \A p : Asked(p)' = Asked(p)
  BY DEF Asked
<1>3. \A p : Owed(p)' = Owed(p)
  BY <1>1, <1>2 DEF Owed
<1> QED
  BY <1>1, <1>2, <1>3, SameViews DEF RegistriesFirst

\* Others delete as well: the list keeps its order.
LEMMA FirstKept ==
  ASSUME BaseInv, PortsDiffer, PortsDiffer', NEW r, Deletes(r), NEW list, RegistriesFirst(list)
  PROVE  RegistriesFirst(list)'
<1>1. \A s : RegistryOf(s)' = RegistryOf(s) \/ RegistryOf(s)' = None
  BY DeletesLeads
<1> QED
  BY <1>1 DEF RegistriesFirst

\* What a cascading delete does to its own list.
LEMMA OwnRepeat ==
  ASSUME BaseInv, PortsDiffer, PortsDiffer', NEW p \in Procs, NEW q \in Procs, Step(q),
         AllRepeat(p), req[q] = req[p], at[q] # "idle" => CanRepeat(p, q), at'[q] \in {"cascade", "delete"}
  PROVE  /\ \A r \in Pending(q)' : r.kind = "Cluster" => r \in Asked(p)
         /\ at'[q] = "cascade" => RegistriesFirst(mem[q].later)'
         /\ at'[q] = "delete" => RegistriesFirst(mem[q].todo)'
<1>1. req[q].cascade /\ Asked(q) = Asked(p)
  BY DEF AllRepeat, Asked
<1>2. CASE Begin(q)
  <2>1. PICK place, m : /\ Moves(q, place, m) /\ m.todo = req[q].resources /\ m.later = <<>>
                        /\ place = "cascade" <=> req[q].cascade
    <3>1. ~Moves(q, "failed", Blank)
      BY OthersStay
    <3> QED
      BY <1>2, <3>1, BeginMoves
  <2>2. at'[q] = "cascade" /\ mem'[q] = m
    BY <1>1, <2>1, OthersStay
  <2>3. Pending(q)' = Asked(p)
    BY <1>1, <2>1, <2>2, NoList DEF Pending, Asked
  <2> QED
    BY <2>1, <2>2, <2>3 DEF RegistriesFirst
<1>3. CASE NextCascade(q) /\ at[q] = "cascade"
  <2>1. UNCHANGED world /\ CanRepeat(p, q) /\ req' = req
    BY <1>3, NextCascadeMoves DEF NextCascade
  <2>2. CASE Finished(q) /\ \E m : Moves(q, "delete", m) /\ m.todo = mem[q].later
    <3>1. PICK m : Moves(q, "delete", m) /\ m.todo = mem[q].later
      BY <2>2
    <3>2. at'[q] = "delete" /\ mem'[q] = m /\ m.later = <<>>
      BY <3>1, OthersStay DEF Moves, Fits
    <3>3. Pending(q)' = Range(mem[q].later)
      BY <3>1, <3>2, NoList DEF Pending
    <3>4. PICK list : list = mem[q].later
      OBVIOUS
    <3>5. RegistriesFirst(list)'
      BY <1>3, <2>1, <3>4, QuietRepeat DEF CanRepeat
    <3> QED
      BY <1>3, <2>1, <3>1, <3>2, <3>3, <3>4, <3>5 DEF CanRepeat, Pending
  <2>3. ASSUME ~Finished(q), Item(q) \in Asked(q), NEW m, Moves(q, "cascade", m), m.todo = Tail(mem[q].todo),
               Longer(Item(q), RegistryOf(Item(q)), mem[q].later, m.later)
        PROVE  /\ \A r \in Pending(q)' : r.kind = "Cluster" => r \in Asked(p)
               /\ at'[q] = "cascade" => RegistriesFirst(mem[q].later)'
               /\ at'[q] = "delete" => RegistriesFirst(mem[q].todo)'
    <3>1. at'[q] = "cascade" /\ mem'[q] = m
      BY <2>3, OthersStay
    <3>2. PICK r, registry, list, longer :
            r = Item(q) /\ registry = RegistryOf(r) /\ list = mem[q].later /\ longer = m.later
      OBVIOUS
    <3>3. r \in Listed /\ list \in Seq(Listed) /\ registry \in Registries \cup {None}
      <4>1. req[q] \in Requests /\ Other \notin Range(req[q].resources) /\ mem[q] \in Memories
        BY <1>3, BaseFacts DEF Fits
      <4> QED
        BY <2>3, <3>2, <4>1, ItemFacts, RegistryOfFacts, MemoryType DEF Asked
    <3>4. Longer(r, registry, list, longer) /\ RegistriesFirst(list)
      BY <1>3, <2>1, <2>3, <3>2 DEF CanRepeat
    <3>5. /\ RegistriesFirst(longer)
          /\ \A s \in Range(longer) : s.kind = "Cluster" => s = r \/ s \in Range(list)
      BY <3>2, <3>3, <3>4, LongerFirst
    <3>6. RegistriesFirst(longer)'
      BY <2>1, <3>5, QuietRepeat
    <3>7. Pending(q)' = Range(m.todo) \cup Range(longer) /\ Pending(q) = {r} \cup Range(m.todo) \cup Range(list)
      BY <2>3, <3>1, <3>2, ItemFacts DEF Pending
    <3> QED
      BY <1>1, <1>3, <2>1, <2>3, <3>1, <3>2, <3>5, <3>6, <3>7 DEF CanRepeat
  <2> QED
    BY <1>3, <2>2, <2>3, NextCascadeMoves
<1>4. CASE NextDelete(q) /\ at[q] = "delete"
  <2>1. CanRepeat(p, q)
    BY <1>4
  <2>2. PICK m : ~Finished(q) /\ Deletes(Item(q)) /\ Moves(q, "delete", m) /\ m.todo = Tail(mem[q].todo)
    <3>1. ~Moves(q, "failed", Blank) /\ ~Moves(q, "done", Blank)
      BY OthersStay
    <3> QED
      BY <1>4, <3>1, NextDeleteMoves
  <2>3. at'[q] = "delete" /\ mem'[q] = m /\ m.later = <<>>
    <3>1. Fits(req[q], "delete", m)
      BY <2>2 DEF Moves
    <3> QED
      BY <2>2, <3>1, OthersStay DEF Fits
  <2>4. PICK list : list = mem[q].todo
    OBVIOUS
  <2>5. list \in Seq(Listed) /\ list # <<>> /\ Deletes(Head(list)) /\ RegistriesFirst(list)
    BY <1>4, <2>1, <2>2, <2>4, BaseFacts, MemoryType DEF Finished, Item, CanRepeat
  <2>6. RegistriesFirst(Tail(list))'
    BY <2>5, RestFirst
  <2>7. Pending(q)' = Range(m.todo) /\ Range(m.todo) \subseteq Pending(q)
    BY <2>2, <2>3, ItemFacts, NoList DEF Pending
  <2> QED
    BY <1>4, <2>1, <2>2, <2>3, <2>4, <2>6, <2>7 DEF CanRepeat
<1> QED
  BY <1>2, <1>3, <1>4, DeleteSteps

\* A step of a delete leaves the world, or deletes the first of its list.
LEMMA DeleteWorld ==
  ASSUME BaseInv, NEW x \in Procs, Step(x), req[x].kind = "delete"
  PROVE  /\ \/ UNCHANGED world
            \/ at[x] = "delete" /\ ~Finished(x) /\ Deletes(Item(x))
         /\ \/ at[x] # "idle" /\ owed' = owed
            \/ /\ at[x] = "idle"
               /\ owed' = [owed EXCEPT ![x] = IF Malformed(x) THEN {} ELSE Owed(x)]
<1>1. at[x] \notin ApplyPlaces /\ at[x] # "get"
  BY BaseFacts DEF Fits
<1>2. Begin(x) \/ NextCascade(x) \/ NextDelete(x) \/ Fail(x)
  BY <1>1, NextRegistryMoves, LookMoves, DropMoves, RunMoves, NextClusterMoves, InspectMoves,
     RemoveOldMoves, CreateMoves, JoinMoves, HostingMoves, GetMoves
  DEF Step, ApplyPlaces, Asking
<1>3. CASE Begin(x)
  BY <1>3, BeginMoves
<1>4. CASE NextCascade(x)
  BY <1>4, NextCascadeMoves
<1>5. CASE NextDelete(x)
  BY <1>5, NextDeleteMoves
<1>6. CASE Fail(x)
  BY <1>6, FailMoves DEF InFlight
<1> QED
  BY <1>2, <1>3, <1>4, <1>5, <1>6

\* All that repeat the command did so before.
LEMMA RepeatBefore ==
  ASSUME BaseInv, NEW x \in Procs, Step(x), NEW p \in Procs, AllRepeat(p)'
  PROVE  /\ AllRepeat(p) /\ req' = req /\ req[x] = req[p] /\ req[x].kind = "delete"
         /\ Asked(x) = Asked(p) /\ Owed(x) = Owed(p)
<1>1. req' = req /\ at'[x] # "idle" /\ \A q \in Procs \ {x} : at'[q] = at[q]
  BY StepMoves, OthersStay
<1>2. Repeatable(p)' <=> Repeatable(p)
  BY <1>1 DEF Repeatable, Asked
<1>3. AllRepeat(p) /\ req[x] = req[p]
  BY <1>1, <1>2 DEF AllRepeat
<1> QED
  BY <1>1, <1>3 DEF AllRepeat, Asked, Owed

LEMMA RepeatStep ==
  ASSUME BaseInv, PortsDiffer, PortsDiffer', RepeatInv, [Next]_vars
  PROVE  RepeatInv'
<1>1. CASE UNCHANGED vars
  <2>1. UNCHANGED world /\ UNCHANGED <<req, at, mem, owed>>
    BY <1>1 DEF vars
  <2>2. /\ \A list : RegistriesFirst(list)' <=> RegistriesFirst(list)
        /\ \A p : Owed(p)' = Owed(p) /\ Asked(p)' = Asked(p)
        /\ \A name : HasContainer(name)' <=> HasContainer(name)
    BY <2>1, QuietRepeat
  <2>3. SUFFICES ASSUME NEW p \in Procs, AllRepeat(p)', NEW q \in Procs, at'[q] # "idle"
                 PROVE  CanRepeat(p, q)'
    BY DEF RepeatInv
  <2>4. AllRepeat(p)
    BY <2>1, <2>2, <2>3 DEF AllRepeat, Repeatable
  <2>5. CanRepeat(p, q)
    BY <2>1, <2>3, <2>4 DEF RepeatInv
  <2>6. PICK todo, later : todo = mem[q].todo /\ later = mem[q].later
    OBVIOUS
  <2>7. /\ RegistriesFirst(todo)' <=> RegistriesFirst(todo)
        /\ RegistriesFirst(later)' <=> RegistriesFirst(later)
    BY <2>2
  <2>8. mem'[q].todo = todo /\ mem'[q].later = later
    BY <2>1, <2>6
  <2>9. /\ RegistriesFirst(mem[q].todo)' <=> RegistriesFirst(mem[q].todo)
        /\ RegistriesFirst(mem[q].later)' <=> RegistriesFirst(mem[q].later)
    BY <2>6, <2>7, <2>8
  <2> QED
    BY <2>1, <2>2, <2>5, <2>9 DEF CanRepeat, Pending
<1>2. CASE Next
  <2>1. PICK x \in Procs : Step(x) /\ Interrupt(x)
    BY <1>2 DEF Next
  <2>2. SUFFICES ASSUME NEW p \in Procs, AllRepeat(p)', NEW q \in Procs, at'[q] # "idle"
                 PROVE  CanRepeat(p, q)'
    BY DEF RepeatInv
  <2>3. /\ AllRepeat(p) /\ req' = req /\ req[x] = req[p] /\ req[x].kind = "delete"
        /\ Asked(x) = Asked(p) /\ Owed(x) = Owed(p)
    BY <2>1, <2>2, RepeatBefore
  <2>4. \A y \in Procs : at[y] # "idle" => CanRepeat(p, y)
    BY <2>3 DEF RepeatInv
  <2>5. \A y \in Procs \ {x} : at'[y] = at[y] /\ mem'[y] = mem[y]
    BY <2>1, StepMoves, OthersStay
  <2>6. /\ \/ UNCHANGED world
           \/ at[x] = "delete" /\ ~Finished(x) /\ Deletes(Item(x))
        /\ \/ at[x] # "idle" /\ owed' = owed
           \/ at[x] = "idle" /\ owed' = [owed EXCEPT ![x] = IF Malformed(x) THEN {} ELSE Owed(x)]
    BY <2>1, <2>3, DeleteWorld
  <2>7. /\ \A list : RegistriesFirst(list) => RegistriesFirst(list)'
        /\ \A name : HasContainer(name)' => HasContainer(name)
        /\ \A name \in Owed(p) : HasContainer(name)' => name \in Owed(p)'
    <3>1. CASE UNCHANGED world
      BY <2>3, <3>1, QuietRepeat
    <3>2. CASE at[x] = "delete" /\ ~Finished(x) /\ Deletes(Item(x))
      <4>1. PICK r : r = Item(x)
        OBVIOUS
      <4>2. \A list : RegistriesFirst(list) => RegistriesFirst(list)'
        BY <3>2, <4>1, FirstKept
      <4>3. \A name : HasContainer(name)' => HasContainer(name)
        BY <3>2, <4>1, DeletesFacts
      <4>4. CanRepeat(p, x)
        BY <2>4, <3>2
      <4>5. \A name \in Owed(p) : HasContainer(name)' => name \in Owed(p)'
        BY <2>3, <3>2, <4>4, OwedKept
      <4> QED
        BY <4>2, <4>3, <4>5
    <3> QED
      BY <2>6, <3>1, <3>2
  <2>8. \A name \in owed'[q] : HasContainer(name)' => name \in Owed(p)'
    <3>1. SUFFICES ASSUME NEW name \in owed'[q], HasContainer(name)' PROVE name \in Owed(p)'
      OBVIOUS
    <3>2. CASE name \in owed[q] /\ at[q] # "idle"
      BY <2>4, <2>7, <3>1, <3>2 DEF CanRepeat
    <3>3. CASE q = x /\ at[x] = "idle"
      <4>1. name \in Owed(x)
        BY <2>6, <3>1, <3>3 DEF BaseInv, TypeOK
      <4> QED
        BY <2>3, <2>7, <3>1, <4>1
    <3> QED
      BY <2>2, <2>5, <2>6, <3>1, <3>2, <3>3 DEF BaseInv, TypeOK
  <2>9. CASE q = x
    <3>1. at[q] # "idle" => CanRepeat(p, q)
      BY <2>4
    <3>2. at'[q] \in {"cascade", "delete"} =>
            /\ \A r \in Pending(q)' : r.kind = "Cluster" => r \in Asked(p)
            /\ at'[q] = "cascade" => RegistriesFirst(mem[q].later)'
            /\ at'[q] = "delete" => RegistriesFirst(mem[q].todo)'
      BY <2>1, <2>3, <2>9, <3>1, OwnRepeat
    <3>3. Asked(p)' = Asked(p)
      BY <2>3 DEF Asked
    <3> QED
      BY <2>8, <3>2, <3>3 DEF CanRepeat
  <2>10. CASE q # x
    <3>1. at'[q] = at[q] /\ mem'[q] = mem[q] /\ CanRepeat(p, q)
      BY <2>2, <2>4, <2>5, <2>10
    <3>2. Asked(p)' = Asked(p) /\ Pending(q)' = Pending(q)
      BY <2>3, <3>1 DEF Asked, Pending
    <3>3. PICK todo, later : todo = mem[q].todo /\ later = mem[q].later
      OBVIOUS
    <3>4. RegistriesFirst(todo) => RegistriesFirst(todo)'
      BY <2>7
    <3>5. RegistriesFirst(later) => RegistriesFirst(later)'
      BY <2>7
    <3>6. mem'[q].todo = todo /\ mem'[q].later = later
      BY <3>1, <3>3
    <3>7. /\ RegistriesFirst(mem[q].todo) => RegistriesFirst(mem[q].todo)'
          /\ RegistriesFirst(mem[q].later) => RegistriesFirst(mem[q].later)'
      BY <3>3, <3>4, <3>5, <3>6
    <3> QED
      BY <2>8, <3>1, <3>2, <3>7 DEF CanRepeat
  <2> QED
    BY <2>9, <2>10
<1> QED
  BY <1>1, <1>2

LEMMA RepeatAlways == Spec => []RepeatInv
<1>1. Init => RepeatInv
  BY DEF Init, RepeatInv
<1> QED
  BY <1>1, RepeatStep, PortsAlways, BaseAlways, PTL DEF Spec

\* Who deletes stays at work by deleting.
LEMMA DeleteGoesOn ==
  ASSUME BaseInv, NEW p \in Procs, Step(p), req[p].kind = "delete", at'[p] \in InFlight
  PROVE  at'[p] \in {"cascade", "delete"} /\ (at[p] # "idle" => at[p] \in {"cascade", "delete"})
<1>1. PICK place, m : Moves(p, place, m)
  BY StepMoves
<1>2. at'[p] = place
  BY <1>1, OthersStay
<1>3. Fits(req[p], place, m)
  BY <1>1 DEF Moves
<1>4. at'[p] \in {"cascade", "delete"}
  BY <1>2, <1>3 DEF Fits, InFlight, ApplyPlaces, Asking
<1> QED
  BY <1>4, DeleteSteps

LEMMA SupersedeStep ==
  ASSUME BaseInv, RepeatInv, SupersedeInv, [Next]_vars
  PROVE  SupersedeInv'
<1>1. CASE UNCHANGED vars
  <2>1. UNCHANGED world /\ UNCHANGED <<req, at, alone, owed>>
    BY <1>1 DEF vars
  <2>2. \A name : HasContainer(name)' <=> HasContainer(name)
    BY <2>1, SameViews
  <2>3. \A p \in Procs : AllRepeat(p)' <=> AllRepeat(p)
    BY <2>1 DEF AllRepeat, Repeatable, Asked
  <2> QED
    BY <2>1, <2>2, <2>3 DEF SupersedeInv
<1>2. CASE Next
  <2>1. PICK x \in Procs : Step(x) /\ Interrupt(x)
    BY <1>2 DEF Next
  <2>2. SUFFICES ASSUME NEW p \in Procs, NEW q \in Procs, AllRepeat(p)', at'[p] \in InFlight, alone'[p],
                        at'[q] # "idle", NEW name \in owed'[q], HasContainer(name)', q # p
                 PROVE  name \in owed'[p]
    BY DEF SupersedeInv
  <2>3. p = x /\ alone[p]
    BY <2>1, <2>2, AloneFacts
  <2>4. AllRepeat(p) /\ req[p].kind = "delete" /\ Owed(x) = Owed(p)
    BY <2>1, <2>2, RepeatBefore
  <2>5. at[q] # "idle"
    BY <2>1, <2>2, <2>3, StepMoves, OthersStay
  <2>6. at[p] # "idle" => at[p] \in {"cascade", "delete"}
    BY <2>1, <2>2, <2>3, <2>4, DeleteGoesOn
  <2>7. /\ UNCHANGED world \/ Deletes(Item(p))
        /\ \/ at[p] # "idle" /\ owed' = owed
           \/ at[p] = "idle" /\ owed' = [owed EXCEPT ![p] = IF Malformed(p) THEN {} ELSE Owed(p)]
    BY <2>1, <2>3, <2>4, DeleteWorld
  <2>8. HasContainer(name)
    BY <2>2, <2>7, SameViews, DeletesFacts
  <2>9. name \in owed[q]
    BY <2>2, <2>7 DEF BaseInv, TypeOK
  <2>10. CASE at[p] # "idle"
    <3>1. at[p] \in InFlight
      BY <2>6, <2>10 DEF InFlight
    <3> QED
      BY <2>3, <2>4, <2>5, <2>7, <2>8, <2>9, <2>10, <3>1 DEF SupersedeInv
  <2>11. CASE at[p] = "idle"
    <3>1. name \in Owed(p)
      BY <2>4, <2>5, <2>8, <2>9 DEF RepeatInv, CanRepeat
    <3>2. ~Malformed(p)
      <4>1. PICK place, m : Moves(p, place, m)
        BY <2>1, <2>3, StepMoves
      <4>2. at'[p] = place /\ Fits(req[p], place, m)
        <5>1. at'[p] = place
          BY <4>1, OthersStay
        <5> QED
          BY <4>1, <5>1 DEF Moves
      <4> QED
        BY <2>2, <4>2 DEF Fits, Malformed, Asked, InFlight
    <3> QED
      BY <2>7, <2>11, <3>1, <3>2 DEF BaseInv, TypeOK
  <2> QED
    BY <2>10, <2>11
<1> QED
  BY <1>1, <1>2

LEMMA SupersedeAlways == Spec => []SupersedeInv
<1>1. Init => SupersedeInv
  BY DEF Init, SupersedeInv, InFlight
<1> QED
  BY <1>1, SupersedeStep, RepeatAlways, BaseAlways, PTL DEF Spec

(***************************************************************************)
(* A cascading delete that nobody interferes with and that reports success  *)
(* has deleted every registry that it was to delete, and every one that the *)
(* commands were to delete which it repeats, at whatever point of their     *)
(* lists each of them was killed, and however they ran into one another.    *)
(***************************************************************************)
THEOREM CascadeIsCompleteAlways == Spec => CascadeIsComplete
<1>1. BaseInv /\ DeleteInv /\ SupersedeInv /\ [Next]_vars =>
        [\A p, q \in Procs :
           req[p].kind = "delete" /\ req[p].cascade /\ Ends(p, "done") /\ (q = p \/ Repeats(p, q))
             => \A name \in owed[q] : ~HasContainer(name)']_vars
  <2>1. SUFFICES ASSUME BaseInv, DeleteInv, SupersedeInv, Next, NEW p \in Procs, NEW q \in Procs,
                        req[p].kind = "delete", req[p].cascade, Ends(p, "done"), q = p \/ Repeats(p, q),
                        NEW name \in owed[q]
                 PROVE  ~HasContainer(name)'
    OBVIOUS
  <2>2. /\ UNCHANGED world /\ at[p] = "delete" /\ alone[p]
        /\ \A n \in owed[p] : ~HasContainer(n)
    BY <2>1, DeleteEnds DEF Ends
  <2>3. CASE q = p
    BY <2>1, <2>2, <2>3, SameViews
  <2>4. CASE Repeats(p, q)
    <3>1. AllRepeat(p) /\ at[p] \in InFlight /\ at[q] # "idle"
      BY <2>1, <2>2, <2>4 DEF Repeats, AllRepeat, InFlight
    <3>2. HasContainer(name) => name \in owed[p]
      BY <2>1, <2>2, <3>1 DEF SupersedeInv
    <3> QED
      BY <2>2, <3>2, SameViews
  <2> QED
    BY <2>1, <2>3, <2>4
<1> QED
  BY <1>1, BaseAlways, DeleteAlways, SupersedeAlways, PTL DEF Spec, CascadeIsComplete

-------------------------------------------------------------------------------
(***************************************************************************)
(* An apply, undisturbed. What it has applied holds, or will when the       *)
(* registry is made that it is about to make.                              *)
(***************************************************************************)

\* The registry is on the port, or is about to be made on it.
Serves(place, m, n, port) ==
  /\ port # 0
  /\ IF place \in {"drop", "run"} /\ m.ask.name = n THEN m.ask.port = port ELSE Up(n) /\ reg[n].port = port

HoldsSoFar(p, r) ==
  IF r.kind = "Cluster"
    THEN /\ FullName(r) \in Clusters /\ Runs(FullName(r))
         /\ r.registry # None => Serves(at[p], mem[p], r.registry, cluster[FullName(r)].hosting)
    ELSE \E port \in Ports : Serves(at[p], mem[p], FullName(r), port) /\ r.port \in {0, port}

AppliedHold(p) == \A r \in Asked(p) : Applied(at[p], mem[p], r) => HoldsSoFar(p, r)

\* It asks for the port that the file says, or for any when the registry is a cluster's.
AsksPort(p) ==
  at[p] \in Asking =>
    /\ mem[p].back = "regs" =>
         \A r \in Asked(p) : r.kind = "Registry" /\ FullName(r) = mem[p].ask.name => r.port \in {0, mem[p].ask.port}
    /\ mem[p].back # "regs" /\ at[p] = "look" => mem[p].ask.port = 0
    /\ mem[p].back = "create" => mem[p].ask.name = Item(p).registry

\* The port that it has in mind is that of the cluster's registry.
KnowsPort(p) ==
  at[p] \in {"create", "join", "hosting"} /\ Item(p).registry # None =>
    Up(Item(p).registry) /\ reg[Item(p).registry].port = mem[p].port

AppliesAlone(p) == AppliedHold(p) /\ AsksPort(p) /\ KnowsPort(p)

ApplyInv ==
  \A p \in Procs : alone[p] /\ at[p] \in ApplyPlaces /\ NamedOnce(p) => AppliesAlone(p)

\* A step that changes no registry keeps what held, and must see to what is new.
LEMMA KeepsApplied ==
  ASSUME BaseInv, NEW p \in Procs, AppliedHold(p), req' = req, SameRegistries,
         at[p] \notin {"drop", "run"}, at'[p] \notin {"drop", "run"},
         \A r \in Asked(p) : Applied(at'[p], mem'[p], r) =>
           \/ /\ Applied(at[p], mem[p], r)
              /\ r.kind = "Cluster" => cluster'[FullName(r)] = cluster[FullName(r)]
           \/ HoldsSoFar(p, r)'
  PROVE  AppliedHold(p)'
<1>1. SUFFICES ASSUME NEW r \in Asked(p), HoldsSoFar(p, r),
                      r.kind = "Cluster" => cluster'[FullName(r)] = cluster[FullName(r)]
               PROVE  HoldsSoFar(p, r)'
  BY DEF AppliedHold, Asked
<1>2. PICK name : name = FullName(r)
  OBVIOUS
<1>3. \A n, port : Serves(at[p], mem[p], n, port) => Serves(at[p], mem[p], n, port)'
  BY DEF Serves, SameRegistries, Up
<1>4. CASE r.kind = "Cluster"
  BY <1>1, <1>2, <1>3, <1>4 DEF HoldsSoFar, Runs
<1>5. CASE r.kind # "Cluster"
  BY <1>1, <1>2, <1>3, <1>5 DEF HoldsSoFar
<1> QED
  BY <1>4, <1>5

LEMMA SameWorldApplied ==
  ASSUME UNCHANGED world
  PROVE  SameRegistries /\ \A name : cluster'[name] = cluster[name]
BY DEF world, SameRegistries

LEMMA BeginApplies ==
  ASSUME BaseInv, NEW p \in Procs, Begin(p), at'[p] \in ApplyPlaces
  PROVE  AppliesAlone(p)'
<1>1. PICK place, m :
        /\ place \in {"regs", "cascade", "delete", "get"}
        /\ Moves(p, place, m)
        /\ m.todo = req[p].resources /\ (place = "regs" <=> req[p].kind = "apply")
  <2>1. ~Moves(p, "failed", Blank)
    BY OthersStay DEF ApplyPlaces, Asking
  <2> QED
    BY <2>1, BeginMoves
<1>2. at'[p] = "regs" /\ mem'[p].todo = req[p].resources /\ req' = req
  BY <1>1, OthersStay DEF ApplyPlaces, Asking
<1>3. \A r \in Asked(p)' : ~Applied(at'[p], mem'[p], r)
  BY <1>2 DEF Applied, OverRegistries, Asking, Asked
<1> QED
  BY <1>2, <1>3 DEF AppliesAlone, AppliedHold, AsksPort, KnowsPort, Asking

LEMMA NextRegistryApplies ==
  ASSUME BaseInv, NEW p \in Procs, NextRegistry(p), NamedOnce(p), AppliesAlone(p)
  PROVE  AppliesAlone(p)'
<1>1. at[p] = "regs" /\ UNCHANGED world /\ at[p] \in ApplyPlaces
  BY NextRegistryMoves DEF ApplyPlaces
<1>2. SameRegistries /\ \A name : cluster'[name] = cluster[name]
  BY <1>1, SameWorldApplied
<1>3. \A r \in Asked(p) : Applied(at'[p], mem'[p], r) => Applied(at[p], mem[p], r)
  BY NextRegistryPasses
<1>4. /\ req' = req /\ at'[p] \in {"clusters", "regs", "look"}
      /\ at'[p] = "look" =>
           /\ ~Finished(p) /\ Item(p).kind = "Registry" /\ mem'[p].back = "regs"
           /\ mem'[p].ask.name = FullName(Item(p)) /\ mem'[p].ask.port = Item(p).port
  BY NextRegistryMoves, OthersStay
<1>5. AppliedHold(p)'
  BY <1>1, <1>2, <1>3, <1>4, KeepsApplied DEF AppliesAlone
<1>6. AsksPort(p)'
  <2>1. SUFFICES ASSUME at'[p] = "look", NEW r \in Asked(p), r.kind = "Registry", FullName(r) = FullName(Item(p))
                 PROVE  r.port = Item(p).port
    BY <1>4 DEF AsksPort, Asking, Asked
  <2>2. Item(p) \in Asked(p)
    BY <1>1, <1>4, <2>1, ItemAsked
  <2> QED
    BY <1>4, <2>1, <2>2 DEF NamedOnce
<1>7. KnowsPort(p)'
  BY <1>4 DEF KnowsPort
<1> QED
  BY <1>5, <1>6, <1>7 DEF AppliesAlone

LEMMA LookApplies ==
  ASSUME BaseInv, NEW p \in Procs, Look(p), AppliesAlone(p)
  PROVE  AppliesAlone(p)'
<1>1. at[p] = "look" /\ UNCHANGED world /\ at[p] \in Asking /\ req' = req
  BY LookMoves, OthersStay DEF Asking
<1>2. PICK name, old, port, m :
         /\ name = mem[p].ask.name /\ old = reg[name] /\ port = mem[p].ask.port
         /\ m.todo = mem[p].todo /\ m.back = mem[p].back /\ m.ask.name = name
         /\ \/ Suits(old, mem[p].ask) /\ Moves(p, mem[p].back, m) /\ m.port = old.port
            \/ /\ Moves(p, IF old.state = "absent" THEN "run" ELSE "drop", m)
               /\ m.ask.port = IF port # 0 THEN port ELSE old.port
  BY LookMoves
<1>3. mem'[p] = m
  BY <1>2, OthersStay
<1>4. name \in Registries /\ mem[p].back \in {"regs", "create", "clusters"} /\ old \in RegistryStates
  BY <1>1, <1>2, AskingFacts
<1>5. SameRegistries /\ (\A n : cluster'[n] = cluster[n]) /\ reg' = reg
  BY <1>1, SameWorldApplied DEF world
<1>6. \A r \in Asked(p) : r.kind \in {"Cluster", "Registry"}
  BY <1>1, AskedKinds DEF ApplyPlaces
<1>7. CASE Suits(old, mem[p].ask) /\ Moves(p, mem[p].back, m) /\ m.port = old.port
  <2>1. at'[p] = mem[p].back
    BY <1>7, OthersStay
  <2>2. Up(name) /\ old.port \in Ports /\ (port # 0 => old.port = port)
    BY <1>2, <1>4, <1>7 DEF Suits, Up, RegistryStates, PortOrNone
  <2>3. ASSUME NEW r \in Asked(p), Applied(at'[p], mem'[p], r), ~Applied(at[p], mem[p], r)
        PROVE  HoldsSoFar(p, r)'
    <3>1. r.kind = "Registry" /\ FullName(r) = name
      BY <1>1, <1>2, <1>3, <2>1, <2>3, BackApplies
    <3>2. mem[p].back = "regs"
      BY <1>1, <2>3, <3>1 DEF Applied, OverRegistries
    <3>3. r.port \in {0, old.port}
      BY <1>1, <1>2, <2>2, <3>1, <3>2 DEF AppliesAlone, AsksPort
    <3>4. Serves(at[p], mem[p], name, old.port)'
      BY <1>2, <1>5, <2>1, <2>2, <3>2, CommandsAssumption DEF Serves, Up
    <3> QED
      BY <2>2, <3>1, <3>3, <3>4 DEF HoldsSoFar
  <2>4. AppliedHold(p)'
    BY <1>1, <1>4, <1>5, <2>1, <2>3, KeepsApplied DEF AppliesAlone
  <2>5. KnowsPort(p)'
    <3>1. SUFFICES ASSUME at'[p] = "create", Item(p)'.registry # None
                   PROVE  Up(Item(p).registry)' /\ reg'[Item(p)'.registry].port = mem'[p].port
      BY <1>4, <2>1 DEF KnowsPort
    <3>2. Item(p)' = Item(p) /\ Item(p).registry = name
      BY <1>1, <1>2, <1>3, <2>1, <3>1 DEF AppliesAlone, AsksPort, Item
    <3> QED
      BY <1>2, <1>3, <1>5, <1>7, <2>2, <3>2 DEF Up
  <2> QED
    BY <1>4, <2>1, <2>4, <2>5 DEF AppliesAlone, AsksPort, Asking
<1>8. CASE /\ Moves(p, IF old.state = "absent" THEN "run" ELSE "drop", m)
           /\ m.ask.port = IF port # 0 THEN port ELSE old.port
  <2>1. at'[p] \in {"run", "drop"}
    BY <1>8, OthersStay
  <2>2. \A r \in Asked(p) : Applied(at'[p], mem'[p], r) <=> Applied(at[p], mem[p], r)
    BY <1>1, <1>2, <1>3, <2>1, StillAsking DEF Asking
  <2>3. ASSUME NEW n, NEW host, Serves(at[p], mem[p], n, host),
               n = name => mem[p].back # "regs"
        PROVE  Serves(at[p], mem[p], n, host)'
    <3>1. host # 0 /\ Up(n) /\ reg[n].port = host
      BY <1>1, <2>3 DEF Serves
    <3>2. CASE n = name
      <4>1. port = 0
        BY <1>1, <1>2, <2>3, <3>2 DEF AppliesAlone, AsksPort
      <4>2. m.ask.port = host
        BY <1>2, <1>8, <3>1, <3>2, <4>1
      <4> QED
        BY <1>2, <1>3, <2>1, <3>1, <3>2, <4>2 DEF Serves
    <3>3. CASE n # name
      BY <1>2, <1>3, <1>5, <3>1, <3>3 DEF Serves, Up
    <3> QED
      BY <3>2, <3>3
  <2>4. ASSUME NEW r \in Asked(p), Applied(at[p], mem[p], r)
        PROVE  HoldsSoFar(p, r)'
    <3>1. HoldsSoFar(p, r)
      BY <2>4 DEF AppliesAlone, AppliedHold
    <3>2. PICK full : full = FullName(r)
      OBVIOUS
    <3>3. CASE r.kind = "Cluster"
      <4>1. mem[p].back # "regs"
        BY <1>1, <2>4, <3>3 DEF Applied, OverRegistries
      <4>2. PICK host : host = cluster[full].hosting
        OBVIOUS
      <4>3. r.registry # None => Serves(at[p], mem[p], r.registry, host)'
        BY <2>3, <2>4, <3>1, <3>2, <3>3, <4>1, <4>2 DEF HoldsSoFar
      <4> QED
        BY <1>5, <3>1, <3>2, <3>3, <4>2, <4>3 DEF HoldsSoFar, Runs
    <3>4. CASE r.kind = "Registry"
      <4>1. PICK host \in Ports : Serves(at[p], mem[p], full, host) /\ r.port \in {0, host}
        BY <3>1, <3>2, <3>4 DEF HoldsSoFar
      <4>2. full = name => mem[p].back # "regs"
        BY <1>1, <1>2, <2>4, <3>2, <3>4 DEF Applied, OverRegistries
      <4>3. Serves(at[p], mem[p], full, host)'
        BY <2>3, <2>4, <4>1, <4>2
      <4> QED
        BY <3>2, <3>4, <4>1, <4>3 DEF HoldsSoFar
    <3> QED
      BY <1>6, <3>3, <3>4
  <2>5. AppliedHold(p)'
    BY <1>1, <2>2, <2>4 DEF AppliedHold, Asked
  <2>6. AsksPort(p)'
    <3>1. Asked(p)' = Asked(p) /\ Item(p)' = Item(p)
      BY <1>1, <1>2, <1>3 DEF Asked, Item
    <3>2. mem[p].back = "regs" =>
            \A r \in Asked(p) : r.kind = "Registry" /\ FullName(r) = name => r.port \in {0, m.ask.port}
      BY <1>1, <1>2, <1>8 DEF AppliesAlone, AsksPort
    <3> QED
      BY <1>1, <1>2, <1>3, <2>1, <3>1, <3>2 DEF AppliesAlone, AsksPort
  <2>7. KnowsPort(p)'
    BY <2>1 DEF KnowsPort
  <2> QED
    BY <2>5, <2>6, <2>7 DEF AppliesAlone
<1> QED
  BY <1>2, <1>7, <1>8

LEMMA DropApplies ==
  ASSUME BaseInv, NEW p \in Procs, Drop(p), at'[p] # "failed", AppliesAlone(p)
  PROVE  AppliesAlone(p)'
<1>1. /\ at[p] = "drop" /\ cluster' = cluster /\ at[p] \in Asking /\ Moves(p, "run", mem[p])
      /\ reg' = [reg EXCEPT ![mem[p].ask.name] = NoRegistry]
  <2>1. ~Moves(p, "failed", Blank)
    BY OthersStay
  <2> QED
    BY <2>1, DropMoves DEF Asking
<1>2. at'[p] = "run" /\ mem'[p] = mem[p] /\ at'[p] \in Asking /\ req' = req
  BY <1>1, OthersStay DEF Asking
<1>3. \A r \in Asked(p) : Applied(at'[p], mem'[p], r) <=> Applied(at[p], mem[p], r)
  BY <1>1, <1>2, StillAsking
<1>4. \A n, port : Serves(at[p], mem[p], n, port) => Serves(at[p], mem[p], n, port)'
  BY <1>1, <1>2, BaseFacts DEF Serves, Up
<1>5. ASSUME NEW r \in Asked(p), HoldsSoFar(p, r)
      PROVE  HoldsSoFar(p, r)'
  <2>1. PICK name : name = FullName(r)
    OBVIOUS
  <2> QED
    BY <1>1, <1>4, <1>5, <2>1 DEF HoldsSoFar, Runs
<1>6. AppliedHold(p)'
  BY <1>2, <1>3, <1>5 DEF AppliesAlone, AppliedHold, Asked
<1>7. AsksPort(p)'
  BY <1>1, <1>2 DEF AppliesAlone, AsksPort, Asked, Item
<1> QED
  BY <1>2, <1>6, <1>7 DEF AppliesAlone, KnowsPort

LEMMA RunApplies ==
  ASSUME BaseInv, NEW p \in Procs, Run(p), at'[p] # "failed", AppliesAlone(p)
  PROVE  AppliesAlone(p)'
<1>1. at[p] = "run" /\ cluster' = cluster /\ at[p] \in Asking /\ req' = req
  BY RunMoves, OthersStay DEF Asking
<1>2. PICK port, made, m :
         /\ port \in Ports
         /\ mem[p].ask.port # 0 => port = mem[p].ask.port
         /\ reg' = [reg EXCEPT ![mem[p].ask.name] = made]
         /\ made.state = "up" /\ made.port = port /\ Moves(p, mem[p].back, m)
         /\ m.todo = mem[p].todo /\ m.back = mem[p].back /\ m.port = port
  <2>1. ~Moves(p, "failed", Blank)
    BY OthersStay
  <2> QED
    BY <2>1, RunMoves
<1>3. at'[p] = mem[p].back /\ mem'[p] = m /\ port # 0
  BY <1>2, OthersStay, CommandsAssumption
<1>4. PICK name : name = mem[p].ask.name
  OBVIOUS
<1>5. /\ name \in Registries /\ mem[p].back \in {"regs", "create", "clusters"}
      /\ Up(name)' /\ reg'[name].port = port
      /\ \A n \in Registries \ {name} : reg'[n] = reg[n]
  BY <1>1, <1>2, <1>4, AskingFacts, BaseFacts DEF Up
<1>6. \A n, host : Serves(at[p], mem[p], n, host) => Serves(at[p], mem[p], n, host)'
  BY <1>1, <1>2, <1>3, <1>4, <1>5 DEF Serves, Up
<1>7. ASSUME NEW r \in Asked(p), HoldsSoFar(p, r)
      PROVE  HoldsSoFar(p, r)'
  <2>1. PICK full : full = FullName(r)
    OBVIOUS
  <2> QED
    BY <1>1, <1>6, <1>7, <2>1 DEF HoldsSoFar, Runs
<1>8. ASSUME NEW r \in Asked(p), Applied(at'[p], mem'[p], r), ~Applied(at[p], mem[p], r)
      PROVE  HoldsSoFar(p, r)'
  <2>1. r.kind = "Registry" /\ FullName(r) = name
    BY <1>1, <1>2, <1>3, <1>4, <1>8, BackApplies
  <2>2. mem[p].back = "regs"
    BY <1>1, <1>8, <2>1 DEF Applied, OverRegistries
  <2>3. r.port \in {0, port}
    BY <1>1, <1>2, <1>4, <2>1, <2>2 DEF AppliesAlone, AsksPort
  <2>4. Serves(at[p], mem[p], name, port)'
    BY <1>3, <1>5, <2>2 DEF Serves
  <2> QED
    BY <1>2, <2>1, <2>3, <2>4 DEF HoldsSoFar
<1>9. AppliedHold(p)'
  BY <1>1, <1>7, <1>8 DEF AppliesAlone, AppliedHold, Asked
<1>10. KnowsPort(p)'
  <2>1. SUFFICES ASSUME at'[p] = "create", Item(p)'.registry # None
                 PROVE  Up(Item(p).registry)' /\ reg'[Item(p)'.registry].port = mem'[p].port
    BY <1>3, <1>5 DEF KnowsPort
  <2>2. Item(p)' = Item(p) /\ Item(p).registry = name
    BY <1>1, <1>2, <1>3, <1>4, <2>1 DEF AppliesAlone, AsksPort, Item
  <2> QED
    BY <1>2, <1>3, <1>5, <2>2 DEF Up
<1> QED
  BY <1>3, <1>5, <1>9, <1>10 DEF AppliesAlone, AsksPort, Asking

LEMMA NextClusterApplies ==
  ASSUME BaseInv, NEW p \in Procs, NextCluster(p), at'[p] \in ApplyPlaces, AppliesAlone(p)
  PROVE  AppliesAlone(p)'
<1>1. at[p] = "clusters" /\ UNCHANGED world
  BY NextClusterMoves
<1>2. SameRegistries /\ \A name : cluster'[name] = cluster[name]
  BY <1>1, SameWorldApplied
<1>3. req' = req /\ at'[p] \in {"clusters", "inspect"}
  BY NextClusterMoves, OthersStay DEF ApplyPlaces, Asking
<1>4. \A r \in Asked(p) : Applied(at'[p], mem'[p], r) => Applied(at[p], mem[p], r)
  BY <1>3, NextClusterPasses
<1>5. AppliedHold(p)'
  BY <1>1, <1>2, <1>3, <1>4, KeepsApplied DEF AppliesAlone
<1> QED
  BY <1>3, <1>5 DEF AppliesAlone, AsksPort, KnowsPort, Asking

\* The cluster at hand is not one that has been applied, nor has one of its name.
LEMMA OnlyItem ==
  ASSUME BaseInv, NEW p \in Procs, at[p] \in {"inspect", "remove", "create", "join", "hosting"}, NamedOnce(p),
         NEW r \in Asked(p), r.kind = "Cluster", Applied(at[p], mem[p], r)
  PROVE  FullName(r) # FullName(Item(p))
<1>1. ~Finished(p) /\ Item(p) \in Asked(p) /\ Item(p).kind = "Cluster"
  BY ClusterFacts
<1>2. Item(p) \in Range(mem[p].todo) /\ r \notin Range(mem[p].todo)
  BY <1>1, ItemFacts DEF Applied
<1> QED
  BY <1>1, <1>2 DEF NamedOnce

LEMMA InspectApplies ==
  ASSUME BaseInv, NEW p \in Procs, Inspect(p), AppliesAlone(p)
  PROVE  AppliesAlone(p)'
<1>1. at[p] = "inspect" /\ UNCHANGED world
  BY InspectMoves
<1>2. SameRegistries /\ (\A name : cluster'[name] = cluster[name]) /\ reg' = reg /\ cluster' = cluster
  BY <1>1, SameWorldApplied DEF world
<1>3. PICK item, name : item = Item(p) /\ name = FullName(item)
  OBVIOUS
<1>4. req' = req /\ name \in Clusters /\ item.kind = "Cluster" /\ item.registry \in Registries \cup {None}
  BY <1>1, <1>3, ClusterFacts, InspectMoves, OthersStay
<1>5. CASE \/ Moves(p, "remove", mem[p])
           \/ item.registry = None /\ Moves(p, "create", mem[p])
  <2>1. at'[p] \in {"remove", "create"} /\ mem'[p] = mem[p] /\ (at'[p] = "create" => item.registry = None)
    BY <1>5, OthersStay
  <2>2. \A r \in Asked(p) : Applied(at'[p], mem'[p], r) => Applied(at[p], mem[p], r)
    BY <1>1, <2>1 DEF Applied, OverRegistries
  <2>3. AppliedHold(p)'
    BY <1>1, <1>2, <1>4, <2>1, <2>2, KeepsApplied DEF AppliesAlone
  <2>4. Item(p)' = item
    BY <1>3, <2>1 DEF Item
  <2> QED
    BY <2>1, <2>3, <2>4 DEF AppliesAlone, AsksPort, KnowsPort, Asking
<1>6. CASE \E m :
             /\ Moves(p, "look", m) /\ m.ask.name = item.registry /\ m.ask.port = 0
             /\ m.back = "create" /\ m.todo = mem[p].todo
  <2>1. /\ at'[p] = "look" /\ mem'[p].ask.name = item.registry /\ mem'[p].ask.port = 0
        /\ mem'[p].back = "create" /\ mem'[p].todo = mem[p].todo
    BY <1>6, OthersStay
  <2>2. \A r \in Asked(p) : Applied(at'[p], mem'[p], r) => Applied(at[p], mem[p], r)
    BY <1>1, <2>1 DEF Applied, OverRegistries
  <2>3. AppliedHold(p)'
    BY <1>1, <1>2, <1>4, <2>1, <2>2, KeepsApplied DEF AppliesAlone
  <2>4. Item(p)' = item
    BY <1>3, <2>1 DEF Item
  <2> QED
    BY <2>1, <2>3, <2>4 DEF AppliesAlone, AsksPort, KnowsPort, Asking
<1>7. CASE /\ cluster[name].state = "up"
           /\ item.registry \in {None, StatusRegistry(name)}
           /\ \/ \E m :
                   /\ Moves(p, "look", m) /\ m.ask.port = 0
                   /\ m.back = "clusters" /\ m.todo = Tail(mem[p].todo)
              \/ \E m : Moves(p, "clusters", m) /\ m.todo = Tail(mem[p].todo)
  <2>1. /\ at'[p] \in {"look", "clusters"} /\ mem'[p].todo = Tail(mem[p].todo)
        /\ at'[p] = "look" => mem'[p].back = "clusters" /\ mem'[p].ask.port = 0
    BY <1>7, OthersStay
  <2>2. \A r \in Asked(p) : Applied(at'[p], mem'[p], r) =>
          Applied(at[p], mem[p], r) \/ (r.kind = "Cluster" /\ r = item)
    BY <1>1, <1>3, <2>1, NextApplies
  <2>3. item.registry # None =>
          /\ Up(item.registry) /\ reg[item.registry].port = cluster[name].hosting
          /\ reg[item.registry].port # 0
    <3>1. ASSUME item.registry # None
          PROVE  Up(item.registry) /\ reg[item.registry].port = cluster[name].hosting
      BY <1>7, <3>1, StatusFacts
    <3> QED
      BY <3>1, BaseFacts DEF Up, RegistryStates
  <2>4. HoldsSoFar(p, item)'
    BY <1>2, <1>3, <1>4, <1>7, <2>1, <2>3 DEF HoldsSoFar, Runs, Serves, Up
  <2>5. AppliedHold(p)'
    BY <1>1, <1>2, <1>4, <2>1, <2>2, <2>4, KeepsApplied DEF AppliesAlone
  <2> QED
    BY <2>1, <2>5 DEF AppliesAlone, AsksPort, KnowsPort, Asking
<1> QED
  BY <1>3, <1>5, <1>6, <1>7, InspectMoves

LEMMA RemoveOldApplies ==
  ASSUME BaseInv, NEW p \in Procs, RemoveOld(p), at'[p] # "failed", NamedOnce(p), AppliesAlone(p)
  PROVE  AppliesAlone(p)'
<1>1. at[p] = "remove"
  BY RemoveOldMoves
<1>2. PICK item, name : item = Item(p) /\ name = FullName(item)
  OBVIOUS
<1>3. PICK m : /\ RemoveCluster(name) /\ Moves(p, "look", m) /\ m.ask.name = item.registry /\ m.ask.port = 0
               /\ m.back = "create" /\ m.todo = mem[p].todo
  <2>1. ~Moves(p, "failed", Blank)
    BY OthersStay
  <2> QED
    BY <1>2, <2>1, RemoveOldMoves
<1>4. at'[p] = "look" /\ mem'[p] = m /\ req' = req /\ Item(p)' = item
  BY <1>2, <1>3, OthersStay DEF Item
<1>5. cluster' = [cluster EXCEPT ![name] = NoCluster] /\ SameRegistries
  BY <1>3, RemoveFacts
<1>6. ASSUME NEW r \in Asked(p), Applied(at'[p], mem'[p], r)
      PROVE  /\ Applied(at[p], mem[p], r)
             /\ r.kind = "Cluster" => cluster'[FullName(r)] = cluster[FullName(r)]
  <2>1. Applied(at[p], mem[p], r)
    BY <1>1, <1>3, <1>4, <1>6 DEF Applied, OverRegistries
  <2>2. r.kind = "Cluster" => FullName(r) # name /\ FullName(r) \in Clusters
    BY <1>1, <1>2, <2>1, OnlyItem DEF AppliesAlone, AppliedHold, HoldsSoFar
  <2> QED
    BY <1>5, <2>1, <2>2, BaseFacts
<1>7. AppliedHold(p)'
  BY <1>1, <1>4, <1>5, <1>6, KeepsApplied DEF AppliesAlone
<1> QED
  BY <1>3, <1>4, <1>7 DEF AppliesAlone, AsksPort, KnowsPort, Asking

\* A cluster that is made, or given its registry's port, and then is applied or not.
LEMMA RaiseApplies ==
  ASSUME BaseInv, NEW p \in Procs, at[p] \in {"create", "hosting"}, NamedOnce(p), AppliesAlone(p), SameRegistries,
         req' = req, NEW item, item = Item(p),
         NEW c, cluster' = [cluster EXCEPT ![FullName(item)] = c], c.state = "up",
         \/ /\ at'[p] = "clusters" /\ mem'[p].todo = Tail(mem[p].todo)
            /\ item.registry # None => c.hosting = mem[p].port
         \/ at'[p] = "join" /\ mem'[p] = mem[p]
  PROVE  AppliesAlone(p)'
<1>1. PICK name : name = FullName(item)
  OBVIOUS
<1>2. name \in Clusters /\ item.kind = "Cluster" /\ cluster'[name] = c /\ item.registry \in Registries \cup {None}
  BY <1>1, ClusterFacts, BaseFacts
<1>3. item.registry # None =>
        Up(item.registry) /\ reg[item.registry].port = mem[p].port /\ mem[p].port # 0
  <2>1. ASSUME item.registry # None PROVE Up(item.registry) /\ reg[item.registry].port = mem[p].port
    BY <2>1 DEF AppliesAlone, KnowsPort
  <2> QED
    BY <2>1, BaseFacts DEF Up, RegistryStates
<1>4. ASSUME NEW r \in Asked(p), Applied(at[p], mem[p], r), r.kind = "Cluster"
      PROVE  cluster'[FullName(r)] = cluster[FullName(r)]
  <2>1. FullName(r) # name /\ FullName(r) \in Clusters
    BY <1>1, <1>4, OnlyItem DEF AppliesAlone, AppliedHold, HoldsSoFar
  <2> QED
    BY <1>1, <2>1, BaseFacts
<1>5. CASE /\ at'[p] = "clusters" /\ mem'[p].todo = Tail(mem[p].todo)
           /\ item.registry # None => c.hosting = mem[p].port
  <2>1. \A r \in Asked(p) : Applied(at'[p], mem'[p], r) =>
          Applied(at[p], mem[p], r) \/ (r.kind = "Cluster" /\ r = item)
    BY <1>5, NextApplies
  <2>2. HoldsSoFar(p, item)'
    BY <1>1, <1>2, <1>3, <1>5 DEF HoldsSoFar, Runs, Serves, Up, SameRegistries
  <2>3. AppliedHold(p)'
    BY <1>4, <1>5, <2>1, <2>2, KeepsApplied DEF AppliesAlone
  <2> QED
    BY <1>5, <2>3 DEF AppliesAlone, AsksPort, KnowsPort, Asking
<1>6. CASE at'[p] = "join" /\ mem'[p] = mem[p]
  <2>1. \A r \in Asked(p) : Applied(at'[p], mem'[p], r) => Applied(at[p], mem[p], r)
    BY <1>6 DEF Applied, OverRegistries
  <2>2. AppliedHold(p)'
    BY <1>4, <1>6, <2>1, KeepsApplied DEF AppliesAlone
  <2>3. Item(p)' = item
    BY <1>6 DEF Item
  <2>4. KnowsPort(p)'
    BY <1>2, <1>3, <1>6, <2>3 DEF KnowsPort, Up, SameRegistries
  <2> QED
    BY <1>6, <2>2, <2>4 DEF AppliesAlone, AsksPort, Asking
<1> QED
  BY <1>5, <1>6

LEMMA CreateApplies ==
  ASSUME BaseInv, NEW p \in Procs, Create(p), at'[p] # "failed", NamedOnce(p), AppliesAlone(p)
  PROVE  AppliesAlone(p)'
<1>1. at[p] = "create" /\ SameRegistries /\ ~Moves(p, "failed", Blank)
  BY CreateMoves, OthersStay
<1>2. PICK item : item = Item(p)
  OBVIOUS
<1>3. PICK c : /\ cluster' = [cluster EXCEPT ![FullName(item)] = c] /\ c.state = "up"
               /\ \/ /\ item.registry # None => c.hosting = mem[p].port
                     /\ \E m : Moves(p, "clusters", m) /\ m.todo = Tail(mem[p].todo)
                  \/ Moves(p, "join", mem[p])
  BY <1>1, <1>2, CreateMoves
<1>4. req' = req
  BY <1>3, OthersStay
<1>5. \/ /\ at'[p] = "clusters" /\ mem'[p].todo = Tail(mem[p].todo)
         /\ item.registry # None => c.hosting = mem[p].port
      \/ at'[p] = "join" /\ mem'[p] = mem[p]
  BY <1>3, OthersStay
<1> QED
  BY <1>1, <1>2, <1>3, <1>4, <1>5, RaiseApplies

LEMMA JoinApplies ==
  ASSUME BaseInv, NEW p \in Procs, Join(p), at'[p] # "failed", AppliesAlone(p)
  PROVE  AppliesAlone(p)'
<1>1. at[p] = "join" /\ SameRegistries /\ cluster' = cluster /\ Moves(p, "hosting", mem[p])
  <2>1. ~Moves(p, "failed", Blank)
    BY OthersStay
  <2> QED
    BY <2>1, JoinMoves
<1>2. at'[p] = "hosting" /\ mem'[p] = mem[p] /\ req' = req
  BY <1>1, OthersStay
<1>3. \A r \in Asked(p) : Applied(at'[p], mem'[p], r) => Applied(at[p], mem[p], r)
  BY <1>1, <1>2 DEF Applied, OverRegistries
<1>4. AppliedHold(p)'
  BY <1>1, <1>2, <1>3, KeepsApplied DEF AppliesAlone
<1>5. PICK item : item = Item(p)
  OBVIOUS
<1>6. Item(p)' = item
  BY <1>2, <1>5 DEF Item
<1>7. KnowsPort(p)'
  BY <1>1, <1>2, <1>5, <1>6 DEF AppliesAlone, KnowsPort, Up, SameRegistries
<1> QED
  BY <1>2, <1>4, <1>7 DEF AppliesAlone, AsksPort, Asking

LEMMA HostingApplies ==
  ASSUME BaseInv, NEW p \in Procs, Hosting(p), at'[p] # "failed", NamedOnce(p), AppliesAlone(p)
  PROVE  AppliesAlone(p)'
<1>1. at[p] = "hosting" /\ SameRegistries /\ ~Moves(p, "failed", Blank)
  BY HostingMoves, OthersStay DEF SameRegistries
<1>2. PICK item : item = Item(p)
  OBVIOUS
<1>3. PICK c, m : /\ cluster' = [cluster EXCEPT ![FullName(item)] = c] /\ c.state = "up" /\ c.hosting = mem[p].port
                  /\ Moves(p, "clusters", m) /\ m.todo = Tail(mem[p].todo)
  BY <1>1, <1>2, HostingMoves
<1>4. at'[p] = "clusters" /\ mem'[p].todo = Tail(mem[p].todo) /\ req' = req
  BY <1>3, OthersStay
<1> QED
  BY <1>1, <1>2, <1>3, <1>4, RaiseApplies

\* Every step of an apply that goes on.
LEMMA StepApplies ==
  ASSUME BaseInv, NEW p \in Procs, Step(p), at'[p] \in ApplyPlaces, NamedOnce(p),
         at[p] \in ApplyPlaces => AppliesAlone(p)
  PROVE  AppliesAlone(p)'
<1>1. at'[p] \notin {"failed", "broken", "cascade", "delete", "done"} /\ req[p].kind = "apply"
  <2>1. Fits(req[p], at'[p], mem'[p])
    BY StepMoves, OthersStay DEF Moves
  <2> QED
    BY <2>1 DEF Fits, ApplyPlaces, Asking
<1>2. CASE Begin(p)
  BY <1>2, BeginApplies
<1>3. CASE NextRegistry(p)
  BY <1>3, NextRegistryMoves, NextRegistryApplies DEF ApplyPlaces
<1>4. CASE Look(p)
  BY <1>4, LookMoves, LookApplies DEF ApplyPlaces, Asking
<1>5. CASE Drop(p)
  BY <1>1, <1>5, DropMoves, DropApplies DEF ApplyPlaces, Asking
<1>6. CASE Run(p)
  BY <1>1, <1>6, RunMoves, RunApplies DEF ApplyPlaces, Asking
<1>7. CASE NextCluster(p)
  BY <1>7, NextClusterMoves, NextClusterApplies DEF ApplyPlaces
<1>8. CASE Inspect(p)
  BY <1>8, InspectMoves, InspectApplies DEF ApplyPlaces
<1>9. CASE RemoveOld(p)
  BY <1>1, <1>9, RemoveOldMoves, RemoveOldApplies DEF ApplyPlaces
<1>10. CASE Create(p)
  BY <1>1, <1>10, CreateMoves, CreateApplies DEF ApplyPlaces
<1>11. CASE Join(p)
  BY <1>1, <1>11, JoinMoves, JoinApplies DEF ApplyPlaces
<1>12. CASE Hosting(p)
  BY <1>1, <1>12, HostingMoves, HostingApplies DEF ApplyPlaces
<1>13. CASE NextCascade(p) \/ NextDelete(p) \/ Get(p)
  BY <1>1, <1>13, NextCascadeMoves, NextDeleteMoves, GetMoves, BaseFacts DEF Fits
<1>14. CASE Fail(p)
  BY <1>1, <1>14, FailMoves, OthersStay
<1> QED
  BY <1>2, <1>3, <1>4, <1>5, <1>6, <1>7, <1>8, <1>9, <1>10, <1>11, <1>12, <1>13, <1>14 DEF Step

LEMMA ApplyStep ==
  ASSUME BaseInv, ApplyInv, [Next]_vars
  PROVE  ApplyInv'
<1>1. CASE UNCHANGED vars
  BY <1>1 DEF vars, world, ApplyInv, NamedOnce, AppliesAlone, AppliedHold, AsksPort, KnowsPort, HoldsSoFar, Serves,
     Asked, Item, Up, Runs
<1>2. CASE Next
  <2>1. PICK q \in Procs : Step(q) /\ Interrupt(q)
    BY <1>2 DEF Next
  <2>2. SUFFICES ASSUME NEW p \in Procs, alone'[p], at'[p] \in ApplyPlaces, NamedOnce(p)'
                 PROVE  AppliesAlone(p)'
    BY DEF ApplyInv
  <2>3. p = q /\ alone[p]
    BY <2>1, <2>2, AloneFacts DEF ApplyPlaces, Asking, InFlight
  <2>4. req' = req
    BY <2>1, StepMoves, OthersStay
  <2>5. NamedOnce(p)
    BY <2>2, <2>4 DEF NamedOnce, Asked
  <2>6. at[p] \in ApplyPlaces => AppliesAlone(p)
    BY <2>3, <2>5 DEF ApplyInv
  <2> QED
    BY <2>1, <2>2, <2>3, <2>5, <2>6, StepApplies
<1> QED
  BY <1>1, <1>2

LEMMA ApplyAlways == Spec => []ApplyInv
<1>1. Init => ApplyInv
  BY DEF Init, ApplyInv, ApplyPlaces, Asking
<1> QED
  BY <1>1, ApplyStep, BaseAlways, PTL DEF Spec

\* An apply ends well at the end of its clusters.
LEMMA StepEndsApply ==
  ASSUME BaseInv, NEW p \in Procs, Step(p), req[p].kind = "apply", at'[p] = "done"
  PROVE  NextCluster(p)
<1>1. ~Fail(p)
  BY FailMoves, OthersStay
<1>2. ~Begin(p)
  BY BeginMoves, OthersStay
<1>3. ~NextRegistry(p)
  BY NextRegistryMoves, OthersStay
<1>4. ~Look(p) /\ ~Run(p) /\ ~Drop(p)
  BY LookMoves, RunMoves, DropMoves, AskingFacts, OthersStay DEF Asking
<1>5. ~Inspect(p) /\ ~RemoveOld(p)
  BY InspectMoves, RemoveOldMoves, OthersStay
<1>6. ~Create(p) /\ ~Join(p) /\ ~Hosting(p)
  BY CreateMoves, JoinMoves, HostingMoves, OthersStay
<1>7. ~NextCascade(p) /\ ~NextDelete(p) /\ ~Get(p)
  BY NextCascadeMoves, NextDeleteMoves, GetMoves, BaseFacts DEF Fits
<1> QED
  BY <1>1, <1>2, <1>3, <1>4, <1>5, <1>6, <1>7 DEF Step

(***************************************************************************)
(* An apply that nobody interferes with and that reports success leaves     *)
(* every registry of its file running, on its port, and every cluster       *)
(* hosted at the port that its registry has then, in whatever order the     *)
(* file has them and whatever the commands before it left.                 *)
(***************************************************************************)
THEOREM AppliedFileHoldsAlways == Spec => AppliedFileHolds
<1>1. BaseInv /\ ApplyInv /\ [Next]_vars =>
        [\A p \in Procs : req[p].kind = "apply" /\ NamedOnce(p) /\ Ends(p, "done") => AllHold(p)']_vars
  <2>1. SUFFICES ASSUME BaseInv, ApplyInv, Next, NEW p \in Procs, req[p].kind = "apply", NamedOnce(p),
                        Ends(p, "done"), NEW r \in Asked(p)'
                 PROVE  Holds(r)'
    BY DEF AllHold
  <2>2. PICK q \in Procs : Step(q)
    BY <2>1 DEF Next
  <2>3. p = q /\ req' = req /\ alone[p] /\ at'[p] = "done"
    BY <2>1, <2>2, StepMoves, OthersStay DEF Ends
  <2>4. NextCluster(p)
    BY <2>1, <2>2, <2>3, StepEndsApply
  <2>5. at[p] = "clusters" /\ UNCHANGED world /\ Finished(p) /\ r \in Asked(p)
    <3>1. at[p] = "clusters" /\ UNCHANGED world
      BY <2>1, <2>4, NextClusterMoves
    <3>2. Finished(p)
      BY <2>1, <2>3, <2>4, NextClusterMoves, OthersStay
    <3>3. r \in Asked(p)
      BY <2>1, <2>3 DEF Asked
    <3> QED
      BY <3>1, <3>2, <3>3
  <2>6. HoldsSoFar(p, r)
    <3>1. AppliedHold(p)
      BY <2>1, <2>3, <2>5 DEF ApplyInv, AppliesAlone, ApplyPlaces
    <3>2. Applied(at[p], mem[p], r)
      BY <2>5, NoList DEF Applied, OverRegistries, Finished
    <3> QED
      BY <2>5, <3>1, <3>2 DEF AppliedHold
  <2>7. r.kind \in {"Cluster", "Registry"}
    BY <2>1, <2>5, AskedKinds DEF ApplyPlaces
  <2>8. PICK name : name = FullName(r)
    OBVIOUS
  <2>9. cluster' = cluster /\ reg' = reg
    BY <2>5 DEF world
  <2>10. CASE r.kind = "Registry"
    BY <2>5, <2>6, <2>8, <2>9, <2>10 DEF HoldsSoFar, Serves, Holds, Up
  <2>11. CASE r.kind = "Cluster"
    BY <2>5, <2>6, <2>8, <2>9, <2>11 DEF HoldsSoFar, Serves, Runs, Holds, Up
  <2> QED
    BY <2>7, <2>10, <2>11
<1> QED
  BY <1>1, BaseAlways, ApplyAlways, PTL DEF Spec, AppliedFileHolds

===============================================================================
