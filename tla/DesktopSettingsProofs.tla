------------------------ MODULE DesktopSettingsProofs -------------------------
(***************************************************************************)
(* Proofs about DesktopSettings, for every set of processes, of requests and  *)
(* of worlds.                                                              *)
(***************************************************************************)
EXTENDS DesktopSettings, SequenceTheorems, TLAPS

(***************************************************************************)
(* Paths.                                                                  *)
(***************************************************************************)

\* The keys that Docker Desktop uses, and any other.
Words ==
  STRING \cup {"vm", "kubernetes", "enabled", "resources", "cpus", "fileSharing", "daemon", "network", "dns",
              "value", "locked", "locks", "json", "min", "max"}

Paths == Seq(Words)

LEMMA AppendFacts ==
  ASSUME NEW q \in Paths, NEW k \in Words
  PROVE  /\ Append(q, k) \in Paths /\ Len(Append(q, k)) = Len(q) + 1 /\ Len(q) \in Nat
         /\ \A i \in 1..Len(q) : Append(q, k)[i] = q[i]
         /\ Append(q, k)[Len(q) + 1] = k
<1>1. Append(q, k) \in Paths
  BY DEF Paths
<1>2. Len(Append(q, k)) = Len(q) + 1 /\ Len(q) \in Nat
  BY DEF Paths
<1>3. \A i \in 1..Len(q) : Append(q, k)[i] = q[i]
  BY DEF Paths
<1>4. Append(q, k)[Len(q) + 1] = k
  BY DEF Paths
<1> QED
  BY <1>1, <1>2, <1>3, <1>4

LEMMA LastKey ==
  ASSUME NEW q \in Paths, NEW k \in Words
  PROVE  Front(Append(q, k)) = q /\ Last(Append(q, k)) = k
<1>1. Len(Append(q, k)) - 1 = Len(q)
  BY AppendFacts
<1>2. Front(Append(q, k)) = q
  <2>1. PICK u : u = Append(q, k)
    OBVIOUS
  <2>2. \A i \in 1..Len(q) : u[i] = q[i] /\ u[i] \in Words
    <3>1. \A i \in 1..Len(q) : q[i] \in Words
      BY DEF Paths
    <3> QED
      BY <2>1, <3>1, AppendFacts
  <2>3. Len(q) \in Nat
    BY AppendFacts
  <2>4. /\ SubSeq(u, 1, Len(q)) \in Seq(Words) /\ Len(SubSeq(u, 1, Len(q))) = Len(q)
        /\ \A i \in 1..Len(q) : SubSeq(u, 1, Len(q))[i] = q[i]
    <3>1. \A i \in 1..Len(q) : u[i] \in Words
      BY <2>2
    <3>2. /\ SubSeq(u, 1, Len(q)) \in Seq(Words)
          /\ Len(SubSeq(u, 1, Len(q))) = IF 1 <= Len(q) THEN Len(q) - 1 + 1 ELSE 0
          /\ \A i \in 1..(Len(q) - 1 + 1) : SubSeq(u, 1, Len(q))[i] = u[1 + i - 1]
      BY <2>3, <3>1, SubSeqProperties
    <3> QED
      BY <2>2, <2>3, <3>2
  <2>5. SubSeq(u, 1, Len(q)) = q
    BY <2>4, SeqEqual DEF Paths
  <2> QED
    BY <1>1, <2>1, <2>5 DEF Front
<1> QED
  BY <1>2, AppendFacts DEF Last

LEMMA FrontAndLast ==
  ASSUME NEW q \in Paths, q # <<>>
  PROVE  Front(q) \in Paths /\ Last(q) \in Words /\ q = Append(Front(q), Last(q))
<1>1. PICK u \in Paths, k \in Words : q = Append(u, k)
  BY SequenceEmptyOrAppend DEF Paths
<1> QED
  BY <1>1, LastKey

\* What leads on to a longer path.
LEMMA PrefixFacts ==
  ASSUME NEW q \in Paths, NEW u \in Paths, IsStrictPrefix(q, u)
  PROVE  Len(q) < Len(u) /\ \A i \in 1..Len(q) : q[i] = u[i]
<1>1. Len(q) <= Len(u) /\ SubSeq(q, 1, Len(q)) = SubSeq(u, 1, Len(q)) /\ q # u
  BY DEF IsStrictPrefix, IsPrefix
<1>2. \A i \in 1..Len(q) : q[i] = u[i]
  BY <1>1 DEF Paths
<1>3. Len(q) # Len(u)
  BY <1>1, <1>2, SeqEqual DEF Paths
<1> QED
  BY <1>1, <1>2, <1>3 DEF Paths

LEMMA AppendLeadsOn ==
  ASSUME NEW q \in Paths, NEW k \in Words
  PROVE  IsStrictPrefix(q, Append(q, k))
<1>1. Len(q) <= Len(Append(q, k)) /\ q # Append(q, k)
  BY AppendFacts
<1>2. SubSeq(q, 1, Len(q)) = q /\ SubSeq(Append(q, k), 1, Len(q)) = q
  <2>1. Len(q) \in Nat /\ Len(Append(q, k)) - 1 = Len(q)
    BY AppendFacts
  <2>2. SubSeq(q, 1, Len(q)) = q
    BY SubSeqFull DEF Paths
  <2> QED
    BY <2>1, <2>2, LastKey DEF Front
<1> QED
  BY <1>1, <1>2 DEF IsStrictPrefix, IsPrefix

\* Where the settings are.
LEMMA PathFacts ==
  ASSUME NEW s \in Settings
  PROVE  /\ PathOf(s) \in Paths
         /\ Len(PathOf(s)) = IF s \in {"share", "daemon"} THEN 2 ELSE 3
         /\ s = "k8s" => PathOf(s)[2] = "kubernetes" /\ PathOf(s)[3] = "enabled"
         /\ s = "cpus" => PathOf(s)[2] = "resources" /\ PathOf(s)[3] = "cpus"
         /\ s = "share" => PathOf(s)[2] = "fileSharing"
         /\ s = "daemon" => PathOf(s)[2] = "daemon"
         /\ s = "dns" => PathOf(s)[2] = "network" /\ PathOf(s)[3] = "dns"
<1>0. {"vm", "kubernetes", "enabled", "resources", "cpus", "fileSharing", "daemon", "network", "dns"} \subseteq Words
  BY DEF Words
<1>1. CASE s = "k8s"
  <2>1. PICK q : q = <<"vm", "kubernetes", "enabled">>
    OBVIOUS
  <2>2. q \in Paths /\ Len(q) = 3 /\ q[2] = "kubernetes" /\ q[3] = "enabled"
    BY <1>0, <2>1 DEF Paths
  <2>3. PathOf(s) = q
    BY <1>1, <2>1 DEF PathOf
  <2> QED
    BY <1>1, <2>2, <2>3
<1>2. CASE s = "cpus"
  <2>1. PICK q : q = <<"vm", "resources", "cpus">>
    OBVIOUS
  <2>2. q \in Paths /\ Len(q) = 3 /\ q[2] = "resources" /\ q[3] = "cpus"
    BY <1>0, <2>1 DEF Paths
  <2>3. PathOf(s) = q
    BY <1>2, <2>1 DEF PathOf
  <2> QED
    BY <1>2, <2>2, <2>3
<1>3. CASE s = "share"
  <2>1. PICK q : q = <<"vm", "fileSharing">>
    OBVIOUS
  <2>2. q \in Paths /\ Len(q) = 2 /\ q[2] = "fileSharing"
    BY <1>0, <2>1 DEF Paths
  <2>3. PathOf(s) = q
    BY <1>3, <2>1 DEF PathOf
  <2> QED
    BY <1>3, <2>2, <2>3
<1>4. CASE s = "daemon"
  <2>1. PICK q : q = <<"vm", "daemon">>
    OBVIOUS
  <2>2. q \in Paths /\ Len(q) = 2 /\ q[2] = "daemon"
    BY <1>0, <2>1 DEF Paths
  <2>3. PathOf(s) = q
    BY <1>4, <2>1 DEF PathOf
  <2> QED
    BY <1>4, <2>2, <2>3
<1>5. CASE s = "dns"
  <2>1. PICK q : q = <<"vm", "network", "dns">>
    OBVIOUS
  <2>2. q \in Paths /\ Len(q) = 3 /\ q[2] = "network" /\ q[3] = "dns"
    BY <1>0, <2>1 DEF Paths
  <2>3. PathOf(s) = q
    BY <1>5, <2>1 DEF PathOf
  <2> QED
    BY <1>5, <2>2, <2>3
<1> QED
  BY <1>1, <1>2, <1>3, <1>4, <1>5 DEF Settings

\* Paths that differ in some key.
LEMMA Differ ==
  ASSUME NEW q \in Paths, NEW u \in Paths, NEW i \in 1..Len(q), q[i] # u[i]
  PROVE  q # u /\ ~IsStrictPrefix(q, u)
BY PrefixFacts

LEMMA SecondKeys ==
  ASSUME NEW s \in Settings, NEW t \in Settings
  PROVE  /\ PathOf(s) \in Paths /\ 2 \in 1..Len(PathOf(s))
         /\ s # t => PathOf(s)[2] # PathOf(t)[2]
         /\ PathOf(s)[2] \notin {"value", "locked", "locks", "json"}
         /\ Len(PathOf(s)) = 3 => PathOf(s)[3] \notin {"value", "locked", "locks", "json"}
BY PathFacts DEF Settings

\* Below the path of a setting are its parts, and no other setting.
LEMMA PathsApart ==
  ASSUME NEW s \in Settings, NEW t \in Settings, NEW k \in Words, NEW l \in Words
  PROVE  /\ Append(PathOf(s), k) \in Paths
         /\ PathOf(s) = PathOf(t) <=> s = t
         /\ Append(PathOf(s), k) # PathOf(t)
         /\ Append(PathOf(s), k) = Append(PathOf(t), l) <=> s = t /\ k = l
         /\ ~IsStrictPrefix(PathOf(s), PathOf(t))
         /\ IsStrictPrefix(PathOf(s), Append(PathOf(t), l)) <=> s = t
         /\ ~IsStrictPrefix(Append(PathOf(s), k), PathOf(t))
         /\ ~IsStrictPrefix(Append(PathOf(s), k), Append(PathOf(t), l))
<1>1. PICK q, u : q = Append(PathOf(s), k) /\ u = Append(PathOf(t), l)
  OBVIOUS
<1>2. /\ PathOf(s) \in Paths /\ PathOf(t) \in Paths /\ q \in Paths /\ u \in Paths
      /\ Len(PathOf(s)) \in Nat /\ Len(PathOf(t)) \in Nat
      /\ Len(q) = Len(PathOf(s)) + 1 /\ Len(u) = Len(PathOf(t)) + 1
  BY <1>1, SecondKeys, AppendFacts
<1>3. 2 \in 1..Len(PathOf(s)) /\ 2 \in 1..Len(q)
  BY <1>2, SecondKeys
<1>4. q[2] = PathOf(s)[2] /\ u[2] = PathOf(t)[2]
  BY <1>1, SecondKeys, AppendFacts
<1>5. CASE s # t
  <2>1. PathOf(s)[2] # PathOf(t)[2]
    BY <1>5, SecondKeys
  <2> QED
    BY <1>1, <1>2, <1>3, <1>4, <1>5, <2>1, Differ
<1>6. CASE s = t
  <2>1. q = u <=> k = l
    BY <1>1, <1>2, <1>6, LastKey
  <2>2. IsStrictPrefix(PathOf(s), u)
    BY <1>1, <1>2, <1>6, AppendLeadsOn
  <2>3. q # PathOf(t) /\ ~IsStrictPrefix(q, PathOf(t)) /\ ~IsStrictPrefix(q, u) /\ ~IsStrictPrefix(PathOf(s), PathOf(t))
    BY <1>2, <1>6, PrefixFacts
  <2> QED
    BY <1>1, <1>2, <1>6, <2>1, <2>2, <2>3
<1> QED
  BY <1>5, <1>6

\* A path beside the one of a setting, with a key there that no setting has.
LEMMA Beside ==
  ASSUME NEW s \in Settings, NEW t \in Settings, NEW k \in {"value", "locked", "locks", "json"},
         NEW q \in Paths, NEW n \in Nat, Len(q) = n + 1, Len(PathOf(s)) = n + 1, q[n + 1] = k,
         \A i \in 1..n : q[i] = PathOf(s)[i],
         NEW u \in Paths, \A i \in 1..Len(PathOf(t)) : u[i] = PathOf(t)[i]
  PROVE  q # u /\ ~IsStrictPrefix(q, u)
<1>1. \E i \in 1..Len(q) : q[i] # u[i]
  <2>1. CASE n = 1
    <3>1. q[2] = k /\ u[2] = PathOf(t)[2] /\ k # PathOf(t)[2] /\ 2 \in 1..Len(q)
      BY <2>1, SecondKeys
    <3> QED
      BY <3>1
  <2>2. CASE n = 2 /\ s # t
    <3>1. q[2] = PathOf(s)[2] /\ u[2] = PathOf(t)[2] /\ PathOf(s)[2] # PathOf(t)[2] /\ 2 \in 1..Len(q)
      BY <2>2, SecondKeys
    <3> QED
      BY <3>1
  <2>3. CASE n = 2 /\ s = t
    <3>1. q[3] = k /\ u[3] = PathOf(t)[3] /\ PathOf(t)[3] # k /\ 3 \in 1..Len(q)
      BY <2>3, SecondKeys
    <3> QED
      BY <3>1
  <2>4. n \in {1, 2}
    <3>1. Len(PathOf(s)) \in {2, 3}
      BY PathFacts
    <3> QED
      BY <3>1
  <2> QED
    BY <2>1, <2>2, <2>3, <2>4
<1> QED
  BY <1>1, Differ

LEMMA SameFront ==
  ASSUME NEW f \in Paths, NEW k \in Words, NEW l \in Words
  PROVE  /\ Append(f, k) \in Paths /\ Len(f) \in Nat
         /\ Len(Append(f, k)) = Len(f) + 1 /\ Len(Append(f, l)) = Len(f) + 1 /\ Append(f, k)[Len(f) + 1] = k
         /\ \A i \in 1..Len(f) : Append(f, k)[i] = Append(f, l)[i]
BY AppendFacts

\* And the map that a setting is in is nothing with a lock.
LEMMA NoLockAround ==
  ASSUME NEW s \in Settings, NEW t \in Settings, NEW k \in {"value", "locked", "locks", "json"}, NEW l \in Words
  PROVE  LET q == Append(Front(PathOf(s)), k) IN
         /\ q \in Paths /\ q # PathOf(t) /\ q # Append(PathOf(t), l)
         /\ ~IsStrictPrefix(q, PathOf(t)) /\ ~IsStrictPrefix(q, Append(PathOf(t), l))
<1>1. PathOf(s) \in Paths /\ PathOf(t) \in Paths /\ PathOf(s) # <<>> /\ k \in Words
  BY SecondKeys DEF Words
<1>2. Front(PathOf(s)) \in Paths /\ Last(PathOf(s)) \in Words
      /\ PathOf(s) = Append(Front(PathOf(s)), Last(PathOf(s)))
  BY <1>1, FrontAndLast, Zenon
<1>3. PICK f, last, q, r, u : f = Front(PathOf(s)) /\ last = Last(PathOf(s)) /\ q = Append(f, k)
                              /\ r = Append(f, last) /\ u = Append(PathOf(t), l)
  OBVIOUS
<1>4. /\ q \in Paths /\ Len(f) \in Nat
      /\ Len(q) = Len(f) + 1 /\ Len(r) = Len(f) + 1 /\ q[Len(f) + 1] = k
      /\ \A i \in 1..Len(f) : q[i] = r[i]
  <2>1. f \in Paths /\ last \in Words
    BY <1>2, <1>3, Zenon
  <2> QED
    BY <1>1, <1>3, <2>1, SameFront
<1>5. r = PathOf(s)
  BY <1>2, <1>3, Zenon
<1>6. /\ Len(q) = Len(f) + 1 /\ Len(PathOf(s)) = Len(f) + 1 /\ q[Len(f) + 1] = k
      /\ \A i \in 1..Len(f) : q[i] = PathOf(s)[i]
  BY <1>4, <1>5, Zenon
<1>7. u \in Paths /\ \A i \in 1..Len(PathOf(t)) : u[i] = PathOf(t)[i]
  BY <1>1, <1>3, AppendFacts
<1>8. PICK n \in Nat : n = Len(f)
  BY <1>4, Zenon
<1>9. q # u /\ ~IsStrictPrefix(q, u)
  <2>1. /\ Len(q) = n + 1 /\ Len(PathOf(s)) = n + 1 /\ q[n + 1] = k
        /\ \A i \in 1..n : q[i] = PathOf(s)[i]
    BY <1>6, <1>8, Zenon
  <2> QED
    BY <1>4, <1>7, <2>1, Beside
<1>10. q # PathOf(t) /\ ~IsStrictPrefix(q, PathOf(t))
  <2>1. /\ Len(q) = n + 1 /\ Len(PathOf(s)) = n + 1 /\ q[n + 1] = k
        /\ \A i \in 1..n : q[i] = PathOf(s)[i]
    BY <1>6, <1>8, Zenon
  <2> QED
    BY <1>1, <1>4, <2>1, Beside
<1> QED
  BY <1>3, <1>4, <1>9, <1>10, Zenon

-------------------------------------------------------------------------------
(***************************************************************************)
(* Trees.                                                                  *)
(***************************************************************************)

Kinds == STRING \cup {"null", "map", "bool", "number", "text", "list"}
Leaves == [kind: Kinds, val: Nat]
Nodes == [path: Paths, leaf: Leaves]
Trees == SUBSET Nodes

LEMMA NodeType ==
  /\ \A kind \in Kinds, n \in Nat : Leaf(kind, n) \in Leaves
  /\ Null \in Leaves
  /\ \A q \in Paths, leaf \in Leaves : Node(q, leaf) \in Nodes
  /\ \A n \in Nodes : n.path \in Paths /\ n.leaf \in Leaves
  /\ \A q, leaf : Node(q, leaf).path = q /\ Node(q, leaf).leaf = leaf
BY DEF Leaf, Null, Leaves, Kinds, Node, Nodes

LEMMA GetFacts ==
  ASSUME NEW t, NEW q
  PROVE  Get(t, q) = At(t, q) /\ (LookupMapAt(t, q) <=> Below(t, q) # {})
<1>1. PICK a : a = At(t, q)
  OBVIOUS
<1>2. {At(t, p) : p \in {q}} = {a}
  BY <1>1
<1>3. (CHOOSE leaf \in {a} : TRUE) = a
  OBVIOUS
<1>4. Get(t, q) = At(t, q)
  BY <1>1, <1>2, <1>3 DEF Get
<1> QED
  BY <1>4 DEF LookupMapAt

LEMMA GetType ==
  ASSUME NEW t \in Trees, NEW q
  PROVE  Get(t, q) \in Leaves
<1>1. ASSUME \E n \in t : n.path = q
      PROVE  (CHOOSE n \in t : n.path = q).leaf \in Leaves
  <2>1. (CHOOSE n \in t : n.path = q) \in t
    BY <1>1
  <2> QED
    BY <2>1, NodeType DEF Trees
<1>2. Leaf("map", 0) \in Leaves /\ Null \in Leaves
  BY NodeType DEF Kinds
<1> QED
  BY <1>1, <1>2, GetFacts DEF At

LEMMA PutType ==
  ASSUME NEW t \in Trees, NEW q \in Paths, NEW leaf \in Leaves
  PROVE  Put(t, q, leaf) \in Trees
BY NodeType DEF Put, Trees

LEMMA SettingsForWriteType ==
  ASSUME NEW t \in Trees, NEW v
  PROVE  SettingsForWrite(t, v) \in Trees
<1>1. \A q \in Paths : Front(q) \in Paths
  <2>1. Front(<<>>) = <<>>
    BY DEF Front
  <2> QED
    BY <2>1, FrontAndLast
<1>2. \A n \in t : n.path \in Paths /\ Front(n.path) \in Paths /\ n.leaf \in Leaves
  BY <1>1, NodeType DEF Trees
<1>3. \A n \in t : Node(n.path, n.leaf) \in Nodes /\ Node(Front(n.path), n.leaf) \in Nodes
  BY <1>2, NodeType
<1> QED
  BY <1>3 DEF SettingsForWrite, Trees

LEMMA BodiesFacts ==
  ASSUME NEW t
  PROVE  Bodies(t) = [backend |-> SettingsForWrite(t, "V2"),
                      native |-> SettingsForWrite(SettingsForWrite(t, "V2"), "V1")]
<1>1. {[backend |-> v2, native |-> SettingsForWrite(v2, "V1")] : v2 \in {SettingsForWrite(t, "V2")}}
        = {[backend |-> SettingsForWrite(t, "V2"),
            native |-> SettingsForWrite(SettingsForWrite(t, "V2"), "V1")]}
  OBVIOUS
<1> QED
  BY <1>1 DEF Bodies

BodySets == [backend: Trees, native: Trees]

LEMMA BodiesType ==
  /\ \A t \in Trees : Bodies(t) \in BodySets
  /\ NoBodies \in BodySets
BY BodiesFacts, SettingsForWriteType, NodeType DEF BodySets, NoBodies, NoTree, Trees

LEMMA GroupedType ==
  ASSUME NEW e, NEW stored \in Values
  PROVE  Grouped(e, stored) \in Trees
<1>1. \A s \in Settings : PathOf(s) \in Paths /\ Leaf(KindOf(s), stored[s]) \in Leaves
  <2>1. \A s \in Settings : KindOf(s) \in Kinds /\ stored[s] \in Nat
    BY DEF KindOf, Kinds, Values
  <2> QED
    BY <2>1, PathFacts, NodeType
<1>2. \A s \in Settings : Node(PathOf(s), Leaf(KindOf(s), stored[s])) \in Nodes
  BY <1>1, NodeType
<1>3. \A s \in Settings, k \in {"value", "json", "locked", "locks", "min", "max"}, leaf \in Leaves :
        Node(Append(PathOf(s), k), leaf) \in Nodes
  <2>1. \A s \in Settings, k \in {"value", "json", "locked", "locks", "min", "max"} : Append(PathOf(s), k) \in Paths
    BY <1>1, AppendFacts DEF Words
  <2> QED
    BY <2>1, NodeType
<1>4. Leaf("bool", 0) \in Leaves /\ Leaf("list", 0) \in Leaves /\ Leaf("number", 1) \in Leaves
      /\ Leaf("number", MaxCPUs) \in Leaves
  BY NodeType, MaxCPUsAssumption DEF Kinds
<1>5. {"k8s", "cpus", "share", "daemon", "dns"} \subseteq Settings
  BY DEF Settings
<1> QED
  BY <1>1, <1>2, <1>3, <1>4, <1>5 DEF Grouped, Trees

Outcomes == [ok: BOOLEAN, changed: BOOLEAN, tree: Trees]

LEMMA OutcomeShapes ==
  /\ Error \in Outcomes /\ ~Error.ok
  /\ \A t \in Trees : /\ Unchanged(t) \in Outcomes /\ Changed(t) \in Outcomes
                      /\ Unchanged(t).ok /\ ~Unchanged(t).changed /\ Unchanged(t).tree = t
                      /\ Changed(t).ok /\ Changed(t).changed /\ Changed(t).tree = t
BY DEF Error, Unchanged, Changed, Outcomes, NoTree, Trees

LEMMA ApplySetType ==
  ASSUME NEW t \in Trees, NEW key \in Paths, NEW new \in Leaves
  PROVE  ApplySet(t, key, new) \in Outcomes
<1>1. key \in Paths /\ Append(key, "value") \in Paths
  BY AppendFacts DEF Words
<1>2. new.val \in Nat
  BY DEF Leaves
<1>3. \A q \in Paths : \A kind \in {"bool", "number", "text", "list"} :
        Put(t, q, Leaf(kind, new.val)) \in Trees
  BY <1>2, PutType, NodeType DEF Kinds
<1> QED
  BY <1>1, <1>3, OutcomeShapes DEF ApplySet

LEMMA CPUPaths == \A k \in {"value", "min", "max"} : CPUs(k) \in Paths /\ CPUs(k) = Append(PathOf("cpus"), k)
<1>1. ASSUME NEW k \in {"value", "min", "max"}
      PROVE  CPUs(k) = Append(<<"vm", "resources", "cpus">>, k)
  BY DEF CPUs
<1>2. "cpus" \in Settings /\ {"value", "min", "max"} \subseteq Words /\ PathOf("cpus") = <<"vm", "resources", "cpus">>
  BY DEF Settings, Words, PathOf
<1>3. \A k \in {"value", "min", "max"} : Append(PathOf("cpus"), k) \in Paths
  BY <1>2, PathFacts, AppendFacts
<1> QED
  BY <1>1, <1>2, <1>3, Zenon

LEMMA RestartType ==
  /\ \A t \in Trees, on \in BOOLEAN : SetK8sEnabled(t, on) \in Outcomes
  /\ \A t \in Trees, n \in Int : EnsureMinCPU(t, n) \in Outcomes
  /\ \A t \in Trees, r \in Requests : RestartSettings(t, r) \in Outcomes
<1>1. ASSUME NEW t \in Trees, NEW on \in BOOLEAN
      PROVE  SetK8sEnabled(t, on) \in Outcomes
  <2>1. PathOf("k8s") = <<"vm", "kubernetes", "enabled">> /\ "k8s" \in Settings
    BY DEF PathOf, Settings
  <2>2. PathOf("k8s") \in Paths
    BY <2>1, PathFacts
  <2>3. Leaf("bool", IF on THEN 1 ELSE 0) \in Leaves
    BY NodeType DEF Kinds
  <2>4. ApplySet(t, PathOf("k8s"), Leaf("bool", IF on THEN 1 ELSE 0)) \in Outcomes
    BY <2>2, <2>3, ApplySetType
  <2> QED
    BY <2>1, <2>4 DEF SetK8sEnabled
<1>2. ASSUME NEW t \in Trees, NEW n \in Int
      PROVE  EnsureMinCPU(t, n) \in Outcomes
  <2>1. Get(t, CPUs("value")).val \in Nat
    BY GetType DEF Leaves
  <2>2. ASSUME ~(n <= Get(t, CPUs("value")).val)
        PROVE  Put(t, CPUs("value"), Leaf("number", n)) \in Trees
    <3>1. n \in Nat
      BY <2>1, <2>2
    <3> QED
      BY <3>1, CPUPaths, PutType, NodeType DEF Kinds
  <2> QED
    BY <2>2, OutcomeShapes DEF EnsureMinCPU
<1>3. ASSUME NEW t \in Trees, NEW r \in Requests
      PROVE  RestartSettings(t, r) \in Outcomes
  <2>1. PICK k8s : k8s = IF r.product = "docker-desktop" THEN SetK8sEnabled(t, TRUE) ELSE Unchanged(t)
    OBVIOUS
  <2>2. k8s \in Outcomes /\ r.cpus \in Int
    BY <1>1, <2>1, OutcomeShapes, RequestsAssumption
  <2>3. PICK cpu : cpu = EnsureMinCPU(k8s.tree, r.cpus)
    OBVIOUS
  <2>4. cpu \in Outcomes
    BY <1>2, <2>2, <2>3 DEF Outcomes
  <2>5. RestartSettings(t, r) = IF k8s.ok /\ cpu.ok THEN [cpu EXCEPT !.changed = cpu.changed \/ k8s.changed] ELSE Error
    BY <2>1, <2>3 DEF RestartSettings
  <2>6. [cpu EXCEPT !.changed = cpu.changed \/ k8s.changed] \in Outcomes
    BY <2>2, <2>4 DEF Outcomes
  <2> QED
    BY <2>5, <2>6, OutcomeShapes
<1> QED
  BY <1>1, <1>2, <1>3

LEMMA OutcomeType ==
  ASSUME NEW t \in Trees, NEW r \in Requests, r.op \in {"set", "disable", "restart"}
  PROVE  Outcome(r, t) \in Outcomes
<1>1. r.key \in Paths /\ r.new \in Leaves
  <2>1. r.key \in Seq(STRING) /\ r.new \in [kind: STRING, val: Nat]
    BY RequestsAssumption
  <2>2. STRING \subseteq Words /\ STRING \subseteq Kinds
    BY DEF Words, Kinds
  <2>3. \A q \in Seq(STRING) : q \in Seq(Words)
    BY <2>2, SeqMonotonic, Zenon
  <2> QED
    BY <2>1, <2>2, <2>3 DEF Paths, Leaves
<1>2. ApplySet(t, r.key, r.new) \in Outcomes
  BY <1>1, ApplySetType
<1> QED
  BY <1>2, RestartType DEF Outcome

-------------------------------------------------------------------------------
(***************************************************************************)
(* Types.                                                                  *)
(***************************************************************************)

Errors == {BadRequest, ServerError, NoConnection}
Answered == [error: {0} \cup Errors, tree: Trees]

NoErrors == <<>>
OldOne == <<"native">>

\* Either both endpoints are still to be tried, or one has answered with an error.
Records == [bodies: BodySets, left: {Endpoints, OldOne}, errors: {NoErrors} \cup {<<e>> : e \in Errors}, was: Values]
Mems == {m \in Records : (m.left = Endpoints /\ m.errors = NoErrors) \/ (m.left = OldOne /\ m.errors # NoErrors)}

Places == {"idle"} \cup InFlight \cup Over

CallsOK ==
  /\ at \in [Procs -> Places]
  /\ mem \in [Procs -> Mems]
  /\ answer \in [Procs -> Answered]

\* Settings are read for the commands that are about settings.
ReadsOK == \A p \in Procs : at[p] = "read" => req[p].op \in {"show", "set", "disable", "restart"}

TypeInv ==
  /\ desktop \in Desktops
  /\ req \in [Procs -> Requests]
  /\ CallsOK
  /\ ReadsOK
  /\ alone \in [Procs -> BOOLEAN] /\ calm \in BOOLEAN

LEMMA TwoEndpoints ==
  /\ Len(Endpoints) = 2 /\ Tail(Endpoints) = OldOne /\ Len(OldOne) = 1
  /\ Head(Endpoints) = "backend" /\ Head(OldOne) = "native" /\ Endpoints # OldOne
<1>1. PICK q : q = <<"backend", "native">>
  OBVIOUS
<1>2. Len(q) = 2 /\ Tail(q) = <<"native">> /\ Head(q) = "backend"
  BY <1>1
<1>3. Len(<<"native">>) = 1 /\ Head(<<"native">>) = "native"
  OBVIOUS
<1> QED
  BY <1>1, <1>2, <1>3 DEF Endpoints, OldOne

LEMMA MemShapes ==
  /\ Blank \in Mems
  /\ Nothing \in Answered
  /\ \A m \in Mems, b \in BodySets, w \in Values :
       /\ [m EXCEPT !.bodies = b, !.left = Endpoints, !.errors = <<>>] \in Mems
       /\ [m EXCEPT !.was = w] \in Mems
<1>1. [s \in Settings |-> 0] \in Values
  BY DEF Values
<1>2. Blank \in Mems
  BY <1>1, BodiesType DEF Blank, Records, Mems, NoErrors
<1>3. Nothing \in Answered
  BY DEF Nothing, Answered, NoTree, Trees
<1>4. ASSUME NEW m \in Mems, NEW b \in BodySets, NEW w \in Values
      PROVE  /\ [m EXCEPT !.bodies = b, !.left = Endpoints, !.errors = <<>>] \in Mems
             /\ [m EXCEPT !.was = w] \in Mems
  BY DEF Mems, Records, NoErrors
<1> QED
  BY <1>2, <1>3, <1>4

LEMMA FinishType ==
  ASSUME CallsOK, NEW p \in Procs, NEW result \in Places, NEW said \in Answered, Finish(p, result, said)
  PROVE  CallsOK'
<1>1. Blank \in Mems
  BY MemShapes
<1> QED
  BY <1>1 DEF CallsOK, Finish, Goto

LEMMA ProceedType ==
  ASSUME CallsOK, NEW p \in Procs, NEW place \in Places, NEW b \in BodySets, Proceed(p, place, b)
  PROVE  CallsOK'
<1>1. PICK m \in Mems : m = mem[p]
  BY DEF CallsOK
<1>2. PICK n : n = [m EXCEPT !.bodies = b, !.left = Endpoints, !.errors = <<>>]
  OBVIOUS
<1>3. n \in Mems
  <2>1. m.was \in Values
    BY DEF Mems, Records
  <2> QED
    BY <1>2, <2>1, MemShapes
<1>4. mem' = [mem EXCEPT ![p] = n]
  BY <1>1, <1>2 DEF Proceed, CallsOK
<1> QED
  BY <1>3, <1>4 DEF CallsOK, Proceed, Goto

\* The worst error is one of the errors.
LEMMA WorstError ==
  ASSUME NEW errors \in Seq(Errors), Len(errors) = 2
  PROVE  ChooseWorstError(errors) \in Errors
<1> DEFINE worst(i) == \A j \in DOMAIN errors : errors[j] <= errors[i]
           first(i) == worst(i) /\ \A j \in 1..(i - 1) : ~worst(j)
<1>1. errors[1] \in Errors /\ errors[2] \in Errors /\ Errors \subseteq Nat
  BY DEF Errors, BadRequest, ServerError, NoConnection
<1>2. DOMAIN errors = {1, 2}
  OBVIOUS
<1>8. PICK a, b : a = errors[1] /\ b = errors[2]
  OBVIOUS
<1>0. a \in Nat /\ b \in Nat
  BY <1>1, <1>8
<1>9. (worst(1) <=> b <= a) /\ (worst(2) <=> a <= b)
  <2>1. worst(1) <=> errors[1] <= errors[1] /\ errors[2] <= errors[1]
    BY <1>2, Zenon
  <2>2. worst(2) <=> errors[1] <= errors[2] /\ errors[2] <= errors[2]
    BY <1>2, Zenon
  <2>3. a <= a /\ b <= b
    BY <1>0
  <2> QED
    BY <1>8, <2>1, <2>2, <2>3
<1>3. 1..(1 - 1) = {} /\ 1..(2 - 1) = {1}
  OBVIOUS
<1>4. \E i \in DOMAIN errors : first(i)
  <2>1. CASE b <= a
    <3>1. worst(1)
      BY <1>9, <2>1
    <3>2. first(1)
      BY <1>3, <3>1
    <3> QED
      BY <1>2, <3>2
  <2>2. CASE ~(b <= a)
    <3>1. worst(2) /\ ~worst(1)
      BY <1>0, <1>9, <2>2
    <3>2. first(2)
      BY <1>3, <3>1
    <3> QED
      BY <1>2, <3>2
  <2> QED
    BY <2>1, <2>2
<1> HIDE DEF first
<1>5. (CHOOSE i \in DOMAIN errors : first(i)) \in DOMAIN errors
  BY <1>4
<1>6. ChooseWorstError(errors) = errors[CHOOSE i \in DOMAIN errors : first(i)]
  BY DEF ChooseWorstError, first
<1>7. \A i \in DOMAIN errors : errors[i] \in Errors
  BY <1>1, <1>2
<1> QED
  BY <1>5, <1>6, <1>7, Zenon

LEMMA TryNextType ==
  ASSUME CallsOK, NEW p \in Procs, NEW error \in Errors, NEW result \in Places, TryNext(p, error, result)
  PROVE  CallsOK' /\ (at' = at \/ at' = [at EXCEPT ![p] = result])
<1>1. PICK m \in Mems : m = mem[p]
  BY DEF CallsOK
<1>2. PICK errors : errors = Append(m.errors, error)
  OBVIOUS
<1>3. CASE m.left = Endpoints
  <2>1. m.errors = NoErrors
    BY <1>3, TwoEndpoints DEF Mems
  <2>2. errors \in {<<e>> : e \in Errors} /\ errors # <<>>
    <3>1. errors = <<error>>
      BY <1>2, <2>1 DEF NoErrors
    <3> QED
      BY <3>1
  <2>3. PICK n : n = [m EXCEPT !.left = OldOne, !.errors = errors]
    OBVIOUS
  <2>4. n \in Mems
    <3>1. m \in Records
      BY DEF Mems
    <3>2. n \in Records /\ n.left = OldOne /\ n.errors = errors
      BY <2>2, <2>3, <3>1 DEF Records
    <3> QED
      BY <2>2, <3>2 DEF Mems, NoErrors
  <2>5. Len(m.left) > 1 /\ Tail(m.left) = OldOne
    BY <1>3, TwoEndpoints
  <2>6. mem' = [mem EXCEPT ![p] = n] /\ UNCHANGED <<at, answer>>
    BY <1>1, <1>2, <2>3, <2>5 DEF TryNext, CallsOK
  <2> QED
    BY <2>4, <2>6 DEF CallsOK
<1>4. CASE m.left = OldOne
  <2>1. PICK a \in Errors : m.errors = <<a>>
    BY <1>4, TwoEndpoints DEF Mems, Records
  <2>2. errors \in Seq(Errors) /\ Len(errors) = 2
    <3>1. PICK q : q = Append(<<>>, a)
      OBVIOUS
    <3>2. q \in Seq(Errors) /\ Len(q) = 1 /\ q = <<a>>
      BY <3>1
    <3>3. Append(q, error) \in Seq(Errors) /\ Len(Append(q, error)) = 2
      BY <3>2
    <3> QED
      <4>1. errors = Append(q, error)
        BY <1>2, <2>1, <3>2, Zenon
      <4> QED
        BY <3>3, <4>1, Zenon
  <2>3. PICK e \in Errors : e = ChooseWorstError(errors)
    BY <2>2, WorstError
  <2>4. [Nothing EXCEPT !.error = e] \in Answered
    BY MemShapes DEF Answered
  <2>5. ~(Len(m.left) > 1)
    BY <1>4, TwoEndpoints
  <2>6. Finish(p, result, [Nothing EXCEPT !.error = e])
    BY <1>1, <1>2, <2>3, <2>5 DEF TryNext
  <2> QED
    BY <2>4, <2>6, FinishType DEF Finish, Goto
<1> QED
  BY <1>3, <1>4 DEF Mems, Records

\* Of the places only "read" is about the request.
LEMMA MovesOn ==
  ASSUME TypeInv, NEW p \in Procs, NEW place \in Places, at' = [at EXCEPT ![p] = place], req' = req,
         place = "read" => req[p].op \in {"show", "set", "disable", "restart"}
  PROVE  ReadsOK'
BY DEF TypeInv, CallsOK, ReadsOK

LEMMA FailType ==
  ASSUME TypeInv, NEW p \in Procs, NEW error \in Errors, NEW result \in Over, TryNext(p, error, result), req' = req
  PROVE  CallsOK' /\ ReadsOK'
<1>1. result \in Places /\ result # "read" /\ CallsOK
  BY DEF TypeInv, Places, Over
<1>2. CallsOK' /\ (at' = at \/ at' = [at EXCEPT ![p] = result])
  BY <1>1, TryNextType
<1>3. CASE at' = at
  BY <1>2, <1>3 DEF TypeInv, ReadsOK
<1>4. CASE at' = [at EXCEPT ![p] = result]
  BY <1>1, <1>2, <1>4, MovesOn
<1> QED
  BY <1>2, <1>3, <1>4

LEMMA DoneType ==
  ASSUME TypeInv, NEW p \in Procs, NEW result \in Over, NEW said \in Answered, Finish(p, result, said), req' = req
  PROVE  CallsOK' /\ ReadsOK'
<1>1. result \in Places /\ result # "read" /\ CallsOK
  BY DEF TypeInv, Places, Over
<1> QED
  BY <1>1, FinishType, MovesOn DEF Finish, Goto

LEMMA OverType ==
  ASSUME TypeInv, NEW p \in Procs, NEW result \in Over, Return(p, result), req' = req
  PROVE  CallsOK' /\ ReadsOK'
BY DoneType, MemShapes DEF Return

LEMMA GoOnType ==
  ASSUME TypeInv, NEW p \in Procs, NEW place \in InFlight \ {"read"}, NEW b \in BodySets, Proceed(p, place, b), req' = req
  PROVE  CallsOK' /\ ReadsOK'
<1>1. place \in Places /\ place # "read" /\ CallsOK
  BY DEF TypeInv, Places
<1> QED
  BY <1>1, ProceedType, MovesOn DEF Proceed, Goto

LEMMA BeginType ==
  ASSUME TypeInv, NEW p \in Procs, Begin(p)
  PROVE  CallsOK' /\ ReadsOK'
<1>1. req' = req
  BY DEF Begin
<1>2. CASE Return(p, "failed") \/ Return(p, "done")
  BY <1>1, <1>2, OverType DEF Over
<1>3. CASE /\ Goto(p, CASE req[p].op \in {"create", "reset"} -> "reset"
                        [] req[p].op = "ensure" -> "ping"
                        [] req[p].op \in {"open", "quit"} -> req[p].op
                        [] OTHER -> "read")
           /\ mem' = [mem EXCEPT ![p].was = desktop.settings]
           /\ UNCHANGED answer
  <2>1. PICK place : place = CASE req[p].op \in {"create", "reset"} -> "reset"
                               [] req[p].op = "ensure" -> "ping"
                               [] req[p].op \in {"open", "quit"} -> req[p].op
                               [] OTHER -> "read"
    OBVIOUS
  <2>2. req[p].op \in Ops
    BY RequestsAssumption DEF TypeInv
  <2>3. place \in Places /\ (place = "read" => req[p].op \in {"show", "set", "disable", "restart"})
    BY <2>1, <2>2 DEF Ops, Places, InFlight
  <2>4. at' = [at EXCEPT ![p] = place]
    BY <1>3, <2>1 DEF Goto
  <2>5. PICK m \in Mems : m = mem[p]
    BY DEF TypeInv, CallsOK
  <2>6. PICK n : n = [m EXCEPT !.was = desktop.settings]
    OBVIOUS
  <2>7. n \in Mems
    <3>1. desktop.settings \in Values /\ m.bodies \in BodySets
      BY DEF TypeInv, Desktops, Mems, Records
    <3> QED
      BY <2>6, <3>1, MemShapes
  <2>8. mem' = [mem EXCEPT ![p] = n]
    BY <1>3, <2>5, <2>6 DEF TypeInv, CallsOK
  <2>9. CallsOK'
    BY <1>3, <2>3, <2>4, <2>7, <2>8 DEF TypeInv, CallsOK
  <2> QED
    BY <1>1, <2>3, <2>4, <2>9, MovesOn
<1> QED
  BY <1>2, <1>3 DEF Begin, Wanted

LEMMA ReadType ==
  ASSUME TypeInv, NEW p \in Procs, Read(p)
  PROVE  CallsOK' /\ ReadsOK'
<1>1. req' = req /\ at[p] = "read" /\ req[p].op \in {"show", "set", "disable", "restart"} /\ req[p] \in Requests
  BY DEF Read, TypeInv, ReadsOK
<1>2. PICK e : e = Head(mem[p].left)
  OBVIOUS
<1>3. \/ TryNext(p, NoConnection, "failed")
      \/ \E t \in {Grouped(e, desktop.settings)} :
           \/ req[p].op = "show" /\ Finish(p, "done", [Nothing EXCEPT !.tree = SettingsForWrite(t, "V1")])
           \/ /\ req[p].op # "show"
              /\ \E o \in {Outcome(req[p], t)} :
                   \/ Return(p, "failed")
                   \/ Return(p, "done")
                   \/ Proceed(p, "write", Bodies(o.tree))
  BY <1>2 DEF Read, Wanted
<1>4. CASE TryNext(p, NoConnection, "failed")
  BY <1>1, <1>4, FailType DEF Over, Errors
<1>5. ASSUME NEW t \in {Grouped(e, desktop.settings)}, req[p].op = "show",
             Finish(p, "done", [Nothing EXCEPT !.tree = SettingsForWrite(t, "V1")])
      PROVE  CallsOK' /\ ReadsOK'
  <2>1. PICK w \in Trees : w = SettingsForWrite(t, "V1")
    <3>1. t \in Trees
      BY GroupedType DEF TypeInv, Desktops
    <3> QED
      BY <3>1, SettingsForWriteType
  <2>2. [Nothing EXCEPT !.tree = w] \in Answered
    BY MemShapes DEF Answered
  <2>3. Finish(p, "done", [Nothing EXCEPT !.tree = w])
    BY <1>5, <2>1
  <2> QED
    BY <1>1, <2>2, <2>3, DoneType DEF Over
<1>6. ASSUME NEW t \in {Grouped(e, desktop.settings)}, req[p].op # "show",
             NEW o \in {Outcome(req[p], t)}, Proceed(p, "write", Bodies(o.tree))
      PROVE  CallsOK' /\ ReadsOK'
  <2>1. t \in Trees
    BY GroupedType DEF TypeInv, Desktops
  <2>2. o \in Outcomes
    BY <1>1, <1>6, <2>1, OutcomeType
  <2>3. Bodies(o.tree) \in BodySets
    BY <2>2, BodiesType DEF Outcomes
  <2> QED
    BY <1>1, <1>6, <2>3, GoOnType DEF InFlight
<1>7. CASE Return(p, "failed") \/ Return(p, "done")
  BY <1>1, <1>7, OverType DEF Over
<1> QED
  BY <1>3, <1>4, <1>5, <1>6, <1>7

LEMMA AcceptType ==
  ASSUME TypeInv, NEW p \in Procs, NEW e \in {"backend", "native"}, Accept(p, e)
  PROVE  desktop' \in Desktops
<1>1. PICK b \in Trees : b = mem[p].bodies[e]
  BY DEF TypeInv, CallsOK, Mems, Records, BodySets
<1>2. \A s \in Settings : Given(e, b, s) \in Leaves
  BY GetType DEF Given
<1>3. PICK w : w = Stored(e, b)
  OBVIOUS
<1>4. w \in Values
  BY <1>2, <1>3 DEF Stored, Values, Leaves, TypeInv, Desktops
<1>5. desktop' = [desktop EXCEPT !.settings = w]
  BY <1>1, <1>3 DEF Accept
<1> QED
  BY <1>4, <1>5 DEF TypeInv, Desktops

LEMMA FirstLeft ==
  ASSUME TypeInv, NEW p \in Procs
  PROVE  Head(mem[p].left) \in {"backend", "native"}
<1>1. mem[p].left \in {Endpoints, OldOne}
  BY DEF TypeInv, CallsOK, Mems, Records
<1> QED
  BY <1>1, TwoEndpoints

LEMMA WriteType ==
  ASSUME TypeInv, NEW p \in Procs, Write(p)
  PROVE  desktop' \in Desktops /\ CallsOK' /\ ReadsOK'
<1>1. req' = req
  BY DEF Write
<1>2. PICK e \in {"backend", "native"} : e = Head(mem[p].left)
  BY FirstLeft
<1>3. \/ Accept(p, e) /\ (Proceed(p, "sleep", NoBodies) \/ Return(p, "done"))
      \/ TryNext(p, BadRequest, "failed") /\ UNCHANGED desktop
      \/ TryNext(p, NoConnection, "failed") /\ UNCHANGED desktop
  BY <1>2 DEF Write
<1>4. desktop' \in Desktops
  BY <1>3, AcceptType DEF TypeInv
<1>5. TryNext(p, BadRequest, "failed") \/ TryNext(p, NoConnection, "failed") => CallsOK' /\ ReadsOK'
  BY <1>1, FailType DEF Over, Errors
<1>6. Proceed(p, "sleep", NoBodies) => CallsOK' /\ ReadsOK'
  BY <1>1, GoOnType, BodiesType DEF InFlight
<1>7. Return(p, "done") => CallsOK' /\ ReadsOK'
  BY <1>1, OverType DEF Over
<1> QED
  BY <1>3, <1>4, <1>5, <1>6, <1>7

LEMMA OtherStepsType ==
  ASSUME TypeInv, NEW p \in Procs,
         ResetCluster(p) \/ Sleep(p) \/ WakeEarly(p) \/ Poll(p) \/ TimeOut(p) \/ Die(p) \/ Ping(p) \/ Open(p) \/ Quit(p)
  PROVE  desktop' \in Desktops /\ CallsOK' /\ ReadsOK'
<1>1. req' = req
  BY DEF ResetCluster, Sleep, WakeEarly, Poll, TimeOut, Die, Ping, Open, Quit
<1>2. desktop' \in Desktops
  BY DEF ResetCluster, Sleep, WakeEarly, Poll, TimeOut, Die, Ping, Open, Quit, TypeInv, Desktops
<1>3. TryNext(p, NoConnection, "failed") => CallsOK' /\ ReadsOK'
  BY <1>1, FailType DEF Over, Errors
<1>4. Proceed(p, "poll", NoBodies) \/ Proceed(p, "open", NoBodies) \/ Proceed(p, "boot", NoBodies) => CallsOK' /\ ReadsOK'
  BY <1>1, GoOnType, BodiesType DEF InFlight
<1>5. Return(p, "done") \/ Return(p, "failed") \/ Return(p, "timedout") \/ Return(p, "broken") => CallsOK' /\ ReadsOK'
  BY <1>1, OverType DEF Over
<1> QED
  BY <1>2, <1>3, <1>4, <1>5 DEF ResetCluster, Sleep, WakeEarly, Poll, TimeOut, Die, Ping, Open, Quit

LEMMA RequestFailsType ==
  ASSUME TypeInv, NEW p \in Procs, RequestFails(p)
  PROVE  desktop' \in Desktops /\ CallsOK' /\ ReadsOK'
<1>1. req' = req
  BY DEF RequestFails
<1>2. PICK e \in {"backend", "native"} : e = Head(mem[p].left)
  BY FirstLeft
<1>3. UNCHANGED desktop \/ Accept(p, e)
  BY <1>2 DEF RequestFails
<1>4. PICK error \in {ServerError, NoConnection} : TryNext(p, error, "broken")
  BY DEF RequestFails
<1>5. CallsOK' /\ ReadsOK'
  BY <1>1, <1>4, FailType DEF Over, Errors
<1> QED
  BY <1>3, <1>5, AcceptType DEF TypeInv

LEMMA InitType == Init => TypeInv
<1> SUFFICES ASSUME Init
             PROVE  TypeInv
  OBVIOUS
<1>1. desktop \in Desktops
  BY WorldsAssumption DEF Init
<1>2. CallsOK
  BY MemShapes DEF Init, CallsOK, Places
<1> QED
  BY <1>1, <1>2 DEF Init, TypeInv, ReadsOK

LEMMA ActorType ==
  ASSUME TypeInv, NEW p \in Procs, Step(p) \/ Fault(p)
  PROVE  desktop' \in Desktops /\ CallsOK' /\ ReadsOK' /\ req' = req /\ calm' \in BOOLEAN
<1>1. req' = req /\ calm' \in BOOLEAN
  BY DEF Step, Fault, TypeInv, Begin, Read, Write, ResetCluster, Sleep, WakeEarly, Poll, TimeOut, Die, Ping, Open,
         Quit, RequestFails
<1>2. CASE Begin(p)
  BY <1>1, <1>2, BeginType DEF Begin, TypeInv
<1>3. CASE Read(p)
  BY <1>1, <1>3, ReadType DEF Read, TypeInv
<1>4. CASE Write(p)
  BY <1>1, <1>4, WriteType
<1>5. CASE RequestFails(p)
  BY <1>1, <1>5, RequestFailsType
<1>6. CASE ResetCluster(p) \/ Sleep(p) \/ WakeEarly(p) \/ Poll(p) \/ TimeOut(p) \/ Die(p) \/ Ping(p) \/ Open(p) \/ Quit(p)
  BY <1>1, <1>6, OtherStepsType
<1> QED
  BY <1>1, <1>2, <1>3, <1>4, <1>5, <1>6 DEF Step, Fault

LEMMA EngineType ==
  ASSUME TypeInv, EngineStops \/ EngineStarts
  PROVE  TypeInv'
<1>1. desktop' \in Desktops
  BY DEF EngineStops, EngineStarts, TypeInv, Desktops
<1> QED
  BY <1>1 DEF EngineStops, EngineStarts, TypeInv, CallsOK, ReadsOK

LEMMA NextType == TypeInv /\ [Next]_vars => TypeInv'
<1> SUFFICES ASSUME TypeInv, [Next]_vars
             PROVE  TypeInv'
  OBVIOUS
<1>1. CASE UNCHANGED vars
  BY <1>1 DEF vars, TypeInv, CallsOK, ReadsOK
<1>2. ASSUME NEW p \in Procs, Act(p) \/ (Fault(p) /\ Interrupt({}))
      PROVE  TypeInv'
  <2>1. desktop' \in Desktops /\ CallsOK' /\ ReadsOK' /\ req' = req /\ calm' \in BOOLEAN
    BY <1>2, ActorType DEF Act
  <2>2. alone' \in [Procs -> BOOLEAN]
    BY <1>2 DEF Act, Interrupt, TypeInv
  <2> QED
    BY <2>1, <2>2 DEF TypeInv
<1> QED
  BY <1>1, <1>2, EngineType DEF Next

\* TypeOK counts the requests that were made and those still to be made.
LEMMA TypeInvIsEnough == TypeInv => TypeOK
<1> SUFFICES ASSUME TypeInv
             PROVE  TypeOK
  OBVIOUS
<1>1. ASSUME NEW p \in Procs
      PROVE  /\ mem[p].was \in Values /\ Len(mem[p].errors) + Len(mem[p].left) = 2
             /\ answer[p].error \in {0, BadRequest, ServerError, NoConnection}
  <2>1. PICK m \in Mems : m = mem[p]
    BY DEF TypeInv, CallsOK
  <2>2. m.was \in Values
    BY DEF Mems, Records
  <2>3. \/ m.left = Endpoints /\ m.errors = <<>>
        \/ m.left = OldOne /\ \E e \in Errors : m.errors = <<e>>
    BY DEF Mems, Records, NoErrors
  <2>4. Len(m.errors) + Len(m.left) = 2
    <3>1. Len(<<>>) = 0 /\ (\A e \in Errors : Len(<<e>>) = 1)
      OBVIOUS
    <3>2. (Len(m.left) = 2 /\ Len(m.errors) = 0) \/ (Len(m.left) = 1 /\ Len(m.errors) = 1)
      BY <2>3, <3>1, TwoEndpoints, Zenon
    <3>3. PICK i, j : i = Len(m.errors) /\ j = Len(m.left)
      OBVIOUS
    <3>4. (j = 2 /\ i = 0) \/ (j = 1 /\ i = 1)
      BY <3>2, <3>3, Zenon
    <3>5. i + j = 2
      BY <3>4
    <3> QED
      BY <3>3, <3>5, Zenon
  <2>5. answer[p].error \in {0, BadRequest, ServerError, NoConnection}
    BY DEF TypeInv, CallsOK, Answered, Errors
  <2> QED
    BY <2>1, <2>2, <2>4, <2>5
<1>2. at \in [Procs -> {"idle"} \cup InFlight \cup Over]
  BY DEF TypeInv, CallsOK, Places
<1> QED
  BY <1>1, <1>2 DEF TypeInv, TypeOK

LEMMA TypeInvAlways == Spec => []TypeInv
BY InitType, NextType, PTL DEF Spec

(***************************************************************************)
(* The state is of its type: of the two endpoints of a request each one has  *)
(* failed or is still to be asked, and Docker Desktop always has all of its   *)
(* settings, each with a value.                                            *)
(***************************************************************************)
THEOREM TypeCorrect == Spec => []TypeOK
BY TypeInvAlways, TypeInvIsEnough, PTL

-------------------------------------------------------------------------------
(***************************************************************************)
(* A Restart waits for an engine that has taken the settings over: as long   *)
(* as nobody interferes, an engine that runs while it polls has them.        *)
(***************************************************************************)

Restarted == \A p \in Procs : alone[p] /\ at[p] = "poll" /\ desktop.engine => desktop.effective = desktop.settings

EffectInv == TypeInv /\ Restarted

\* Nobody but the process itself acts while it is alone.
LEMMA OthersStepAside ==
  ASSUME TypeInv, NEW p \in Procs, NEW q \in Procs, Act(q) \/ (Fault(q) /\ Interrupt({})),
         at'[p] = "poll", alone'[p]
  PROVE  p = q /\ Act(p) /\ alone[p]
BY DEF Act, Interrupt, InFlight

LEMMA Whereabouts ==
  ASSUME TypeInv, NEW p \in Procs, NEW place
  PROVE  /\ Goto(p, place) => at'[p] = place /\ \A q \in Procs \ {p} : at'[q] = at[q]
         /\ \A said : Finish(p, place, said) => Goto(p, place)
         /\ Return(p, place) => Goto(p, place)
         /\ \A b : Proceed(p, place, b) => Goto(p, place)
         /\ \A error : TryNext(p, error, place) => at' = at \/ Goto(p, place)
<1>1. at \in [Procs -> Places]
  BY DEF TypeInv, CallsOK
<1> QED
  BY <1>1 DEF Goto, Finish, Return, Proceed, TryNext

\* Where a step leads: to the poll from the sleep, and from it to an end.
Leads(p) ==
  /\ at[p] = "poll" => (Poll(p) /\ at'[p] = "done") \/ at'[p] \in {"timedout", "broken"}
  /\ at'[p] = "poll" => Sleep(p) \/ WakeEarly(p)
  /\ \A q \in Procs \ {p} : at'[q] = at[q]

LEMMA BeginLeads ==
  ASSUME TypeInv, NEW p \in Procs, Begin(p)
  PROVE  at[p] = "idle" /\ at'[p] # "poll" /\ \A q \in Procs \ {p} : at'[q] = at[q]
<1>1. Return(p, "failed") \/ Return(p, "done") => at'[p] # "poll" /\ \A q \in Procs \ {p} : at'[q] = at[q]
  BY Whereabouts
<1>2. ASSUME NEW place, place = CASE req[p].op \in {"create", "reset"} -> "reset"
                                  [] req[p].op = "ensure" -> "ping"
                                  [] req[p].op \in {"open", "quit"} -> req[p].op
                                  [] OTHER -> "read",
             Goto(p, place)
      PROVE  at'[p] # "poll" /\ \A q \in Procs \ {p} : at'[q] = at[q]
  <2>1. req[p].op \in Ops
    BY RequestsAssumption DEF TypeInv
  <2>2. place # "poll"
    BY <1>2, <2>1 DEF Ops
  <2> QED
    BY <1>2, <2>2, Whereabouts
<1> QED
  BY <1>1, <1>2 DEF Begin, Wanted

LEMMA StepLeads ==
  ASSUME TypeInv, NEW p \in Procs, Step(p) \/ Fault(p)
  PROVE  Leads(p)
<1>1. CASE Begin(p)
  BY <1>1, BeginLeads DEF Leads
<1>2. CASE Read(p)
  <2>1. at[p] = "read" /\ \/ \E place \in {"failed", "done", "write"} : Goto(p, place)
                          \/ at' = at
    BY <1>2, Whereabouts DEF Read
  <2> QED
    BY <2>1, Whereabouts DEF Leads
<1>3. CASE Write(p) \/ ResetCluster(p)
  <2>1. at[p] \in {"write", "reset"} /\ \/ \E place \in {"failed", "done", "sleep"} : Goto(p, place)
                                        \/ at' = at
    BY <1>3, Whereabouts DEF Write, ResetCluster
  <2> QED
    BY <2>1, Whereabouts DEF Leads
<1>4. CASE Sleep(p) \/ WakeEarly(p)
  <2>1. at[p] = "sleep" /\ Goto(p, "poll")
    BY <1>4, Whereabouts DEF Sleep, WakeEarly
  <2> QED
    BY <1>4, <2>1, Whereabouts DEF Leads
<1>5. CASE Poll(p)
  <2>1. Goto(p, "done")
    BY <1>5, Whereabouts DEF Poll
  <2> QED
    BY <1>5, <2>1, Whereabouts DEF Leads
<1>6. CASE TimeOut(p) \/ Die(p)
  <2>1. Goto(p, "timedout") \/ Goto(p, "broken")
    BY <1>6, Whereabouts DEF TimeOut, Die
  <2> QED
    BY <2>1, Whereabouts DEF Leads
<1>7. CASE Ping(p) \/ Open(p) \/ Quit(p)
  <2>1. at[p] # "poll" /\ \E place \in {"failed", "done", "open", "boot"} : Goto(p, place)
    BY <1>7, Whereabouts DEF Ping, Open, Quit
  <2> QED
    BY <2>1, Whereabouts DEF Leads
<1>8. CASE RequestFails(p)
  <2>1. at[p] \in {"read", "write", "reset"} /\ (Goto(p, "broken") \/ at' = at)
    BY <1>8, Whereabouts DEF RequestFails
  <2> QED
    BY <2>1, Whereabouts DEF Leads
<1> QED
  BY <1>1, <1>2, <1>3, <1>4, <1>5, <1>6, <1>7, <1>8 DEF Step, Fault

LEMMA EffectInit == Init => EffectInv
BY InitType DEF Init, EffectInv, Restarted

LEMMA EffectNext == EffectInv /\ [Next]_vars => EffectInv'
<1> SUFFICES ASSUME EffectInv, [Next]_vars
             PROVE  Restarted'
  BY NextType DEF EffectInv
<1> USE DEF EffectInv
<1>1. CASE UNCHANGED vars
  BY <1>1 DEF vars, Restarted
<1>2. CASE EngineStops
  BY <1>2 DEF EngineStops, Restarted, TypeInv, Desktops
<1>3. CASE EngineStarts
  BY <1>3 DEF EngineStarts, Restarted, TypeInv, Desktops
<1>4. ASSUME NEW q \in Procs, Act(q) \/ (Fault(q) /\ Interrupt({})),
             NEW p \in Procs, at'[p] = "poll", alone'[p]
      PROVE  (desktop.engine => desktop.effective = desktop.settings)' 
  <2>1. Act(p)
    BY <1>4, OthersStepAside
  <2>2. Sleep(p) \/ WakeEarly(p)
    BY <1>4, <2>1, StepLeads DEF Act, Leads
  <2>3. at[p] = "sleep"
    BY <2>2 DEF Sleep, WakeEarly
  <2>4. Sleep(p)
    BY <2>1, <2>3 DEF Act, Step, Begin, Read, Write, ResetCluster, Poll, TimeOut, Ping, Open, Quit
  <2> QED
    BY <2>4 DEF Sleep
<1> QED
  BY <1>1, <1>2, <1>3, <1>4 DEF Next, Restarted

LEMMA EffectAlways == Spec => []EffectInv
BY EffectInit, EffectNext, PTL DEF Spec

(***************************************************************************)
(* A Restart by itself that reports success leaves an engine that runs with  *)
(* the settings just written.                                              *)
(***************************************************************************)
THEOREM RestartTakesEffectAlways == Spec => RestartTakesEffect
<1>1. EffectInv /\ [Next]_vars =>
        [\A p \in Procs : Wanted(p).op = "restart" /\ at[p] = "poll" /\ Ends(p, "done") /\ alone[p]
           => desktop.effective = desktop.settings]_vars
  <2> SUFFICES ASSUME EffectInv, Next,
                      NEW p \in Procs, at[p] = "poll", at'[p] = "done", alone[p]
               PROVE  desktop.effective = desktop.settings
    BY DEF Ends
  <2>1. desktop.engine
    <3>1. ~(EngineStops \/ EngineStarts)
      BY DEF EngineStops, EngineStarts
    <3>2. PICK q \in Procs : Step(q) \/ Fault(q)
      BY <3>1 DEF Next, Act
    <3>3. Leads(q)
      BY <3>2, StepLeads DEF EffectInv
    <3>4. Poll(p)
      BY <3>3 DEF Leads
    <3> QED
      BY <3>4 DEF Poll, Running
  <2> QED
    BY <2>1 DEF EffectInv, Restarted
<1> QED
  BY <1>1, EffectAlways, PTL DEF Spec, RestartTakesEffect

-------------------------------------------------------------------------------
(***************************************************************************)
(* What becomes of a setting on its way from the tree to the body that is    *)
(* sent.                                                                   *)
(***************************************************************************)

Part(s, k) == Append(PathOf(s), k)

Keys == {"value", "locked", "locks", "json", "min", "max"}
LockKeys == {"value", "locked", "locks", "json"}

LEMMA PartFacts ==
  /\ \A s, r \in Settings : PathOf(s) = PathOf(r) <=> s = r
  /\ \A s, r \in Settings, k \in Keys : Part(s, k) # PathOf(r)
  /\ \A s, r \in Settings, k, l \in Keys : Part(s, k) = Part(r, l) <=> s = r /\ k = l
  /\ \A s, r \in Settings : ~IsStrictPrefix(PathOf(s), PathOf(r))
  /\ \A s, r \in Settings, l \in Keys : IsStrictPrefix(PathOf(s), Part(r, l)) <=> s = r
  /\ \A s, r \in Settings, k \in Keys : ~IsStrictPrefix(Part(s, k), PathOf(r))
  /\ \A s, r \in Settings, k, l \in Keys : ~IsStrictPrefix(Part(s, k), Part(r, l))
<1>1. Keys \subseteq Words
  BY DEF Keys, Words
<1>2. ASSUME NEW s \in Settings, NEW r \in Settings
      PROVE  (PathOf(s) = PathOf(r) <=> s = r) /\ ~IsStrictPrefix(PathOf(s), PathOf(r))
  <2>1. "value" \in Words
    BY DEF Words
  <2> QED
    BY <2>1, PathsApart
<1>3. ASSUME NEW s \in Settings, NEW r \in Settings, NEW k \in Keys
      PROVE  /\ Part(s, k) # PathOf(r)
             /\ IsStrictPrefix(PathOf(s), Part(r, k)) <=> s = r
             /\ ~IsStrictPrefix(Part(s, k), PathOf(r))
  BY <1>1, PathsApart DEF Part
<1>4. ASSUME NEW s \in Settings, NEW r \in Settings, NEW k \in Keys, NEW l \in Keys
      PROVE  /\ Part(s, k) = Part(r, l) <=> s = r /\ k = l
             /\ ~IsStrictPrefix(Part(s, k), Part(r, l))
  BY <1>1, PathsApart DEF Part
<1> QED
  BY <1>2, <1>3, <1>4

LEMMA PartShape ==
  /\ \A s \in Settings, k \in Keys : Part(s, k) \in Paths /\ Front(Part(s, k)) = PathOf(s) /\ Last(Part(s, k)) = k
  /\ \A s \in Settings : PathOf(s) \in Paths /\ Last(PathOf(s)) # "locked"
<1>1. Keys \subseteq Words
  BY DEF Keys, Words
<1>2. ASSUME NEW s \in Settings, NEW k \in Keys
      PROVE  Part(s, k) \in Paths /\ Front(Part(s, k)) = PathOf(s) /\ Last(Part(s, k)) = k
  <2>1. PathOf(s) \in Paths /\ k \in Words
    BY <1>1, SecondKeys
  <2>2. Append(PathOf(s), k) \in Paths
    BY <2>1, AppendFacts, Zenon
  <2>3. Front(Append(PathOf(s), k)) = PathOf(s) /\ Last(Append(PathOf(s), k)) = k
    BY <2>1, LastKey, Zenon
  <2> QED
    BY <2>2, <2>3, Zenon DEF Part
<1>3. ASSUME NEW s \in Settings
      PROVE  PathOf(s) \in Paths /\ Last(PathOf(s)) # "locked"
  <2>1. PathOf(s) \in Paths /\ Len(PathOf(s)) \in {2, 3}
    BY PathFacts
  <2>2. PathOf(s)[2] # "locked" /\ (Len(PathOf(s)) = 3 => PathOf(s)[3] # "locked")
    BY SecondKeys
  <2> QED
    BY <2>1, <2>2 DEF Last
<1> QED
  BY <1>2, <1>3

\* Trees with a node for a setting or a part of it, and for nothing else.
Spots(t) ==
  \A n \in t : n \in Nodes /\ \E s \in Settings : n.path = PathOf(s) \/ \E k \in Keys : n.path = Part(s, k)

LEMMA GetSingle ==
  ASSUME NEW t, NEW q, NEW leaf, Node(q, leaf) \in t, \A n \in t : n.path = q => n.leaf = leaf
  PROVE  Get(t, q) = leaf
<1>1. PICK n \in t : n = Node(q, leaf)
  OBVIOUS
<1>2. n.path = q
  BY <1>1, NodeType
<1>3. (CHOOSE m \in t : m.path = q) \in t /\ (CHOOSE m \in t : m.path = q).path = q
  BY <1>2
<1>4. (CHOOSE m \in t : m.path = q).leaf = leaf
  BY <1>3
<1> QED
  BY <1>2, <1>4, GetFacts DEF At

LEMMA GetAtSpot ==
  ASSUME NEW t, Spots(t), NEW s \in Settings
  PROVE  /\ \A n \in t : IsStrictPrefix(PathOf(s), n.path) <=> \E k \in Keys : n.path = Part(s, k)
         /\ \A k \in Keys : (\A n \in t : n.path # Part(s, k)) => Get(t, Part(s, k)) = Null
         /\ (\A n \in t : n.path # PathOf(s)) /\ (\E n \in t, k \in Keys : n.path = Part(s, k)) =>
              Get(t, PathOf(s)) = Leaf("map", 0)
<1>1. ASSUME NEW n \in t
      PROVE  IsStrictPrefix(PathOf(s), n.path) <=> \E k \in Keys : n.path = Part(s, k)
  BY PartFacts DEF Spots
<1>2. ASSUME NEW k \in Keys, \A n \in t : n.path # Part(s, k)
      PROVE  Get(t, Part(s, k)) = Null
  <2>1. \A n \in t : ~IsStrictPrefix(Part(s, k), n.path)
    BY PartFacts DEF Spots
  <2> QED
    BY <1>2, <2>1, GetFacts DEF At, Below
<1>3. ASSUME \A n \in t : n.path # PathOf(s), NEW n \in t, NEW k \in Keys, n.path = Part(s, k)
      PROVE  Get(t, PathOf(s)) = Leaf("map", 0)
  <2>1. Below(t, PathOf(s)) # {}
    BY <1>1, <1>3 DEF Below
  <2> QED
    BY <1>3, <2>1, GetFacts DEF At
<1> QED
  BY <1>1, <1>2, <1>3

\* Around a setting there is no lock.
LEMMA NothingAround ==
  ASSUME NEW t, Spots(t), NEW s \in Settings, NEW v
  PROVE  StandsFor(t, Front(PathOf(s)), v) = {}
<1>1. ASSUME NEW k \in LockKeys
      PROVE  Get(t, Append(Front(PathOf(s)), k)) = Null
  <2>1. PICK q : q = Append(Front(PathOf(s)), k)
    OBVIOUS
  <2>2. \A r \in Settings : q # PathOf(r) /\ ~IsStrictPrefix(q, PathOf(r))
    <3>1. "value" \in Words
      BY DEF Words
    <3> QED
      BY <2>1, <3>1, NoLockAround DEF LockKeys
  <2>3. \A r \in Settings, l \in Keys : q # Part(r, l) /\ ~IsStrictPrefix(q, Part(r, l))
    <3>1. Keys \subseteq Words
      BY DEF Keys, Words
    <3> QED
      BY <2>1, <3>1, NoLockAround DEF LockKeys, Part
  <2>4. \A n \in t : n.path # q /\ ~IsStrictPrefix(q, n.path)
    BY <2>2, <2>3 DEF Spots
  <2>5. At(t, q) = Null
    BY <2>4 DEF At, Below
  <2> QED
    BY <2>1, <2>5, GetFacts
<1>2. ~Has(t, Front(PathOf(s)), {"locked", "value"}) /\ ~Has(t, Front(PathOf(s)), {"locks", "json"})
  BY <1>1 DEF Has, LockKeys
<1> QED
  BY <1>2 DEF StandsFor

\* What is sent of a node, and where it is then.
LEMMA SentNodes ==
  ASSUME NEW t, Spots(t), NEW v, NEW m
  PROVE  m \in SettingsForWrite(t, v) <=>
           \E n \in t, s \in Settings :
             \/ n.path = PathOf(s) /\ m = n
             \/ \E k \in Keys :
                  /\ n.path = Part(s, k)
                  /\ \/ StandsFor(t, PathOf(s), v) = {} /\ (k # "locked" \/ Below(t, PathOf(s)) # {n}) /\ m = n
                     \/ k \in StandsFor(t, PathOf(s), v) /\ m = Node(PathOf(s), n.leaf)
<1> DEFINE key(n) == StandsFor(t, Front(n.path), v)
           sent(n) == IF key(n) # {} THEN Last(n.path) \in key(n)
                      ELSE Last(n.path) # "locked" \/ Below(t, Front(n.path)) # {n}
           place(n) == IF key(n) # {} THEN Front(n.path) ELSE n.path
           was(n, s) == \/ n.path = PathOf(s) /\ m = n
                        \/ \E k \in Keys :
                             /\ n.path = Part(s, k)
                             /\ \/ /\ StandsFor(t, PathOf(s), v) = {}
                                   /\ k # "locked" \/ Below(t, PathOf(s)) # {n}
                                   /\ m = n
                                \/ k \in StandsFor(t, PathOf(s), v) /\ m = Node(PathOf(s), n.leaf)
<1>1. \A n \in t : Node(n.path, n.leaf) = n
  BY DEF Spots, Nodes, Node
<1>2. ASSUME NEW n \in t, NEW s \in Settings, n.path = PathOf(s)
      PROVE  sent(n) /\ m = Node(place(n), n.leaf) <=> was(n, s)
  <2>1. key(n) = {}
    BY <1>2, NothingAround
  <2>2. sent(n) /\ place(n) = n.path
    BY <1>2, <2>1, PartShape
  <2>3. \A k \in Keys : n.path # Part(s, k)
    BY <1>2, PartFacts
  <2> QED
    BY <1>1, <1>2, <2>2, <2>3
<1>3. ASSUME NEW n \in t, NEW s \in Settings, NEW k \in Keys, n.path = Part(s, k)
      PROVE  sent(n) /\ m = Node(place(n), n.leaf) <=> was(n, s)
  <2>1. Front(n.path) = PathOf(s) /\ Last(n.path) = k
    BY <1>3, PartShape
  <2>2. key(n) = StandsFor(t, PathOf(s), v)
    BY <2>1
  <2>3. n.path # PathOf(s) /\ \A l \in Keys : n.path = Part(s, l) <=> l = k
    BY <1>3, PartFacts
  <2> QED
    BY <1>1, <1>3, <2>1, <2>2, <2>3
<1>4. ASSUME NEW n \in t, NEW s \in Settings, was(n, s)
      PROVE  sent(n) /\ m = Node(place(n), n.leaf)
  BY <1>2, <1>3, <1>4
<1>5. ASSUME NEW n \in t, sent(n), m = Node(place(n), n.leaf)
      PROVE  \E s \in Settings : was(n, s)
  BY <1>2, <1>3, <1>5 DEF Spots
<1>6. m \in SettingsForWrite(t, v) <=> \E n \in t : sent(n) /\ m = Node(place(n), n.leaf)
  BY DEF SettingsForWrite
<1> HIDE DEF sent, place, key
<1> QED
  BY <1>4, <1>5, <1>6

\* A setting that is a value, or a map with one.
PlainAt(t, s, leaf) ==
  /\ Node(PathOf(s), leaf) \in t
  /\ \A n \in t : n.path = PathOf(s) => n.leaf = leaf
  /\ \A n \in t, k \in Keys : n.path # Part(s, k)

GroupAt(t, s, leaf) ==
  /\ Node(Part(s, "value"), leaf) \in t
  /\ \A n \in t : n.path = Part(s, "value") => n.leaf = leaf
  /\ \A n \in t : n.path # PathOf(s) /\ n.path # Part(s, "json")

Holds(t, s, leaf) == Spots(t) /\ (PlainAt(t, s, leaf) \/ GroupAt(t, s, leaf))

LEMMA SentSpots ==
  ASSUME NEW t, Spots(t), NEW v
  PROVE  Spots(SettingsForWrite(t, v))
<1> SUFFICES ASSUME NEW m \in SettingsForWrite(t, v)
             PROVE  m \in Nodes /\ \E s \in Settings : m.path = PathOf(s) \/ \E k \in Keys : m.path = Part(s, k)
  BY DEF Spots
<1>1. PICK n \in t, s \in Settings : (m = n \/ m = Node(PathOf(s), n.leaf))
  BY SentNodes
<1>2. n \in Nodes /\ PathOf(s) \in Paths
  BY PartShape DEF Spots
<1>3. CASE m = n
  BY <1>3 DEF Spots
<1>4. CASE m = Node(PathOf(s), n.leaf)
  BY <1>2, <1>4, NodeType
<1> QED
  BY <1>1, <1>3, <1>4

LEMMA SentPlain ==
  ASSUME NEW t, Spots(t), NEW v, NEW s \in Settings, NEW leaf, PlainAt(t, s, leaf)
  PROVE  PlainAt(SettingsForWrite(t, v), s, leaf)
<1>1. PICK o \in t : o = Node(PathOf(s), leaf)
  BY DEF PlainAt
<1>2. o \in SettingsForWrite(t, v)
  <2>1. o.path = PathOf(s)
    BY <1>1, NodeType
  <2> QED
    BY <2>1, SentNodes
<1>3. ASSUME NEW m \in SettingsForWrite(t, v)
      PROVE  /\ m.path = PathOf(s) => m.leaf = leaf
             /\ \A k \in Keys : m.path # Part(s, k)
  <2>1. PICK n \in t, r \in Settings : \/ m = n
                                       \/ /\ \E k \in Keys : n.path = Part(r, k)
                                          /\ m = Node(PathOf(r), n.leaf)
    BY SentNodes
  <2>2. CASE m = n
    BY <2>2 DEF PlainAt
  <2>3. ASSUME NEW k \in Keys, n.path = Part(r, k), m = Node(PathOf(r), n.leaf)
        PROVE  /\ m.path = PathOf(s) => m.leaf = leaf
               /\ \A l \in Keys : m.path # Part(s, l)
    <3>1. r # s /\ m.path = PathOf(r)
      BY <2>3, NodeType DEF PlainAt
    <3> QED
      BY <3>1, PartFacts
  <2> QED
    BY <2>1, <2>2, <2>3
<1> QED
  BY <1>1, <1>2, <1>3 DEF PlainAt

LEMMA SentGroup ==
  ASSUME NEW t, Spots(t), NEW v, NEW s \in Settings, NEW leaf, GroupAt(t, s, leaf), StandsFor(t, PathOf(s), v) = {}
  PROVE  GroupAt(SettingsForWrite(t, v), s, leaf)
<1>1. PICK o \in t : o = Node(Part(s, "value"), leaf)
  BY DEF GroupAt
<1>2. o \in SettingsForWrite(t, v)
  <2>1. o.path = Part(s, "value") /\ "value" \in Keys /\ "value" # "locked"
    BY <1>1, NodeType DEF Keys
  <2> QED
    BY <2>1, SentNodes
<1>3. ASSUME NEW m \in SettingsForWrite(t, v)
      PROVE  /\ m.path = Part(s, "value") => m.leaf = leaf
             /\ m.path # PathOf(s) /\ m.path # Part(s, "json")
  <2>1. PICK n \in t, r \in Settings : \/ m = n
                                       \/ /\ StandsFor(t, PathOf(r), v) # {}
                                          /\ m = Node(PathOf(r), n.leaf)
    BY SentNodes
  <2>2. CASE m = n
    BY <2>2 DEF GroupAt
  <2>3. CASE StandsFor(t, PathOf(r), v) # {} /\ m = Node(PathOf(r), n.leaf)
    <3>1. r # s /\ m.path = PathOf(r) /\ {"value", "json"} \subseteq Keys
      BY <2>3, NodeType DEF Keys
    <3> QED
      BY <3>1, PartFacts
  <2> QED
    BY <2>1, <2>2, <2>3
<1> QED
  BY <1>1, <1>2, <1>3 DEF GroupAt

\* With the new protocol a map with a value is sent as it is.
LEMMA GroupStands ==
  ASSUME NEW t, Spots(t), NEW s \in Settings, NEW leaf, GroupAt(t, s, leaf)
  PROVE  StandsFor(t, PathOf(s), "V2") = {} /\ StandsFor(t, PathOf(s), "V1") \in {{}, {"value"}}
<1>1. Get(t, Part(s, "json")) = Null
  BY GetAtSpot DEF GroupAt, Keys
<1>2. ~Has(t, PathOf(s), {"locks", "json"})
  BY <1>1 DEF Has, Part
<1> QED
  BY <1>2 DEF StandsFor

LEMMA HeldIsSent ==
  ASSUME NEW t, NEW s \in Settings, NEW leaf, Holds(t, s, leaf)
  PROVE  Holds(SettingsForWrite(t, "V2"), s, leaf)
BY SentSpots, SentPlain, SentGroup, GroupStands DEF Holds

LEMMA HeldIsGiven ==
  ASSUME NEW t, NEW s \in Settings, NEW leaf, Holds(t, s, leaf)
  PROVE  Given("backend", t, s) = leaf
<1>1. Spots(t)
  BY DEF Holds
<1>2. CASE PlainAt(t, s, leaf)
  <2>1. ~LookupMapAt(t, PathOf(s))
    <3>1. Below(t, PathOf(s)) = {}
      BY <1>1, <1>2, GetAtSpot DEF PlainAt, Below
    <3> QED
      BY <3>1, GetFacts
  <2>2. Get(t, PathOf(s)) = leaf
    BY <1>2, GetSingle DEF PlainAt
  <2> QED
    BY <2>1, <2>2 DEF Given
<1>3. CASE GroupAt(t, s, leaf)
  <2>1. LookupMapAt(t, PathOf(s))
    <3>1. PICK n \in t : n.path = Part(s, "value")
      BY <1>3, NodeType DEF GroupAt
    <3>2. n \in Below(t, PathOf(s))
      BY <1>1, <3>1, GetAtSpot DEF Below, Keys
    <3> QED
      BY <3>2, GetFacts
  <2>2. Get(t, Part(s, "value")) = leaf
    BY <1>3, GetSingle DEF GroupAt
  <2> QED
    BY <2>1, <2>2 DEF Given, Part
<1> QED
  BY <1>2, <1>3 DEF Holds

LEMMA HeldIsGivenPlain ==
  ASSUME NEW t, NEW s \in Settings, NEW leaf, Holds(t, s, leaf),
         Readable("native", SettingsForWrite(t, "V1"))
  PROVE  Given("native", SettingsForWrite(t, "V1"), s) = leaf
<1>1. PICK u : u = SettingsForWrite(t, "V1")
  OBVIOUS
<1>2. Spots(t) /\ Spots(u)
  BY <1>1, SentSpots DEF Holds
<1>3. Given("native", u, s) = Get(u, PathOf(s))
  BY DEF Given
<1>4. CASE PlainAt(t, s, leaf)
  <2>1. PlainAt(u, s, leaf)
    BY <1>1, <1>2, <1>4, SentPlain
  <2> QED
    BY <1>1, <1>3, <2>1, GetSingle DEF PlainAt
<1>5. CASE GroupAt(t, s, leaf) /\ StandsFor(t, PathOf(s), "V1") = {}
  <2>1. GroupAt(u, s, leaf)
    BY <1>1, <1>2, <1>5, SentGroup
  <2>2. Get(u, PathOf(s)) = Leaf("map", 0)
    <3>1. \E n \in u : n.path = Part(s, "value")
      BY <2>1, NodeType DEF GroupAt
    <3> QED
      BY <1>2, <2>1, <3>1, GetAtSpot DEF GroupAt, Keys
  <2>3. Get(u, PathOf(s)).kind = "map"
    BY <2>2 DEF Leaf
  <2>4. Get(u, PathOf(s)).kind \in {KindOf(s), "null"}
    BY <1>1, <1>3 DEF Readable
  <2>5. KindOf(s) # "map"
    BY DEF KindOf
  <2> QED
    BY <2>3, <2>4, <2>5
<1>6. CASE GroupAt(t, s, leaf) /\ StandsFor(t, PathOf(s), "V1") = {"value"}
  <2>1. Node(PathOf(s), leaf) \in u
    <3>1. PICK n \in t : n.path = Part(s, "value") /\ n.leaf = leaf
      BY <1>6, NodeType DEF GroupAt
    <3> QED
      BY <1>1, <1>2, <1>6, <3>1, SentNodes DEF Keys
  <2>2. ASSUME NEW m \in u, m.path = PathOf(s)
        PROVE  m.leaf = leaf
    <3>1. PICK n \in t, r \in Settings : \/ m = n
                                         \/ \E k \in Keys : /\ n.path = Part(r, k) /\ k \in StandsFor(t, PathOf(r), "V1")
                                                            /\ m = Node(PathOf(r), n.leaf)
      BY <1>1, <1>2, SentNodes
    <3>2. m # n
      BY <1>6, <2>2 DEF GroupAt
    <3>3. PICK k \in Keys : /\ n.path = Part(r, k) /\ k \in StandsFor(t, PathOf(r), "V1")
                            /\ m = Node(PathOf(r), n.leaf)
      BY <3>1, <3>2
    <3>4. r = s
      BY <2>2, <3>3, PartFacts, NodeType
    <3>5. k = "value"
      BY <1>6, <3>3, <3>4
    <3> QED
      BY <1>6, <3>3, <3>4, <3>5, NodeType DEF GroupAt
  <2> QED
    BY <1>1, <1>3, <2>1, <2>2, GetSingle
<1> QED
  BY <1>2, <1>4, <1>5, <1>6, GroupStands DEF Holds

\* A body that Docker Desktop can read has what the tree holds.
LEMMA HeldIsAccepted ==
  ASSUME NEW t, NEW s \in Settings, NEW leaf, Holds(t, s, leaf), NEW e \in {"backend", "native"},
         Readable(e, Bodies(t)[e])
  PROVE  Given(e, Bodies(t)[e], s) = leaf
<1>1. PICK u : u = SettingsForWrite(t, "V2")
  OBVIOUS
<1>2. Holds(u, s, leaf)
  BY <1>1, HeldIsSent
<1>3. Bodies(t).backend = u /\ Bodies(t).native = SettingsForWrite(u, "V1")
  BY <1>1, BodiesFacts
<1>4. CASE e = "backend"
  BY <1>2, <1>3, <1>4, HeldIsGiven
<1>5. CASE e = "native"
  BY <1>2, <1>3, <1>5, HeldIsGivenPlain
<1> QED
  BY <1>4, <1>5

-------------------------------------------------------------------------------
(***************************************************************************)
(* Where the value of a setting is found in what an endpoint answers, and a   *)
(* change of what is there.                                                *)
(***************************************************************************)

LEMMA PutPlain ==
  ASSUME NEW t, NEW s \in Settings, NEW old, PlainAt(t, s, old), NEW new
  PROVE  PlainAt(Put(t, PathOf(s), new), s, new)
<1>1. PICK o : o = Node(PathOf(s), new)
  OBVIOUS
<1>2. o.path = PathOf(s) /\ o.leaf = new /\ \A k \in Keys : PathOf(s) # Part(s, k)
  BY <1>1, NodeType, PartFacts
<1> QED
  BY <1>1, <1>2 DEF PlainAt, Put

LEMMA PutGroup ==
  ASSUME NEW t, NEW s \in Settings, NEW old, GroupAt(t, s, old), NEW new
  PROVE  GroupAt(Put(t, Part(s, "value"), new), s, new)
<1>1. PICK o : o = Node(Part(s, "value"), new)
  OBVIOUS
<1>2. {"value", "json"} \subseteq Keys
  BY DEF Keys
<1>3. o.path = Part(s, "value") /\ o.leaf = new /\ Part(s, "value") # PathOf(s) /\ Part(s, "value") # Part(s, "json")
  BY <1>1, <1>2, NodeType, PartFacts
<1> QED
  BY <1>1, <1>3 DEF GroupAt, Put

\* Where applySet finds the value of a setting.
ValueAt(t, s) == IF LookupMapAt(t, PathOf(s)) THEN Part(s, "value") ELSE PathOf(s)

LEMMA ValueFound ==
  ASSUME NEW t, Spots(t), NEW s \in Settings
  PROVE  /\ \A leaf : PlainAt(t, s, leaf) => ValueAt(t, s) = PathOf(s) /\ Get(t, ValueAt(t, s)) = leaf
         /\ \A leaf : GroupAt(t, s, leaf) => ValueAt(t, s) = Part(s, "value") /\ Get(t, ValueAt(t, s)) = leaf
<1>1. ASSUME NEW leaf, PlainAt(t, s, leaf)
      PROVE  ValueAt(t, s) = PathOf(s) /\ Get(t, ValueAt(t, s)) = leaf
  <2>1. Below(t, PathOf(s)) = {}
    BY <1>1, GetAtSpot DEF PlainAt, Below
  <2>2. ValueAt(t, s) = PathOf(s)
    BY <2>1, GetFacts DEF ValueAt
  <2> QED
    BY <1>1, <2>2, GetSingle DEF PlainAt
<1>2. ASSUME NEW leaf, GroupAt(t, s, leaf)
      PROVE  ValueAt(t, s) = Part(s, "value") /\ Get(t, ValueAt(t, s)) = leaf
  <2>1. PICK n \in t : n.path = Part(s, "value")
    BY <1>2, NodeType DEF GroupAt
  <2>2. n \in Below(t, PathOf(s))
    BY <2>1, GetAtSpot DEF Below, Keys
  <2>3. ValueAt(t, s) = Part(s, "value")
    BY <2>2, GetFacts DEF ValueAt
  <2> QED
    BY <1>2, <2>3, GetSingle DEF GroupAt
<1> QED
  BY <1>1, <1>2

-------------------------------------------------------------------------------
(***************************************************************************)
(* The four shapes in which a setting is found, and what is sent of each.     *)
(* What a lock stands beside, and what has nothing but a lock, are two more.   *)
(***************************************************************************)

LockedAt(t, s, leaf) ==
  /\ GroupAt(t, s, leaf)
  /\ \E n \in t : n.path = Part(s, "locked")
  /\ \A n \in t : n.path = Part(s, "locked") => n.leaf # Null

JsonAt(t, s, leaf) ==
  /\ Node(Part(s, "json"), leaf) \in t
  /\ \A n \in t : n.path = Part(s, "json") => n.leaf = leaf
  /\ \E n \in t : n.path = Part(s, "locks")
  /\ \A n \in t : n.path = Part(s, "locks") => n.leaf # Null
  /\ \A n \in t : n.path # PathOf(s) /\ n.path # Part(s, "value")

LostAt(t, s) ==
  /\ \E n \in t : n.path = Part(s, "locked")
  /\ \A n, m \in t : n.path = Part(s, "locked") /\ m.path = Part(s, "locked") => n = m
  /\ \A n \in t : n.path # PathOf(s)
  /\ \A n \in t, k \in Keys : n.path = Part(s, k) => k = "locked"

GoneAt(t, s) == \A n \in t : n.path # PathOf(s) /\ \A k \in Keys : n.path # Part(s, k)

LEMMA GetThere ==
  ASSUME NEW t, NEW q, \E n \in t : n.path = q, \A n \in t : n.path = q => n.leaf # Null
  PROVE  Get(t, q) # Null
<1>1. (CHOOSE m \in t : m.path = q) \in t /\ (CHOOSE m \in t : m.path = q).path = q
  OBVIOUS
<1>2. At(t, q) # Null
  BY <1>1 DEF At
<1> QED
  BY <1>2, GetFacts

LEMMA LockedStands ==
  ASSUME NEW t, Spots(t), NEW s \in Settings, NEW leaf, leaf # Null, LockedAt(t, s, leaf)
  PROVE  StandsFor(t, PathOf(s), "V1") = {"value"} /\ StandsFor(t, PathOf(s), "V2") = {}
<1>1. Get(t, Part(s, "value")) = leaf
  BY GetSingle DEF LockedAt, GroupAt
<1>2. Get(t, Part(s, "locked")) # Null
  BY GetThere DEF LockedAt
<1>3. Has(t, PathOf(s), {"locked", "value"})
  BY <1>1, <1>2 DEF Has, Part
<1> QED
  BY <1>3 DEF StandsFor

LEMMA JsonStands ==
  ASSUME NEW t, Spots(t), NEW s \in Settings, NEW leaf, leaf # Null, JsonAt(t, s, leaf), NEW v
  PROVE  StandsFor(t, PathOf(s), v) = {"json"}
<1>1. Get(t, Part(s, "json")) = leaf
  BY GetSingle DEF JsonAt
<1>2. Get(t, Part(s, "locks")) # Null
  BY GetThere DEF JsonAt
<1>3. Get(t, Part(s, "value")) = Null
  BY GetAtSpot DEF JsonAt, Keys
<1>4. Has(t, PathOf(s), {"locks", "json"}) /\ ~Has(t, PathOf(s), {"locked", "value"})
  BY <1>1, <1>2, <1>3 DEF Has, Part
<1> QED
  BY <1>4 DEF StandsFor

LEMMA LostStands ==
  ASSUME NEW t, Spots(t), NEW s \in Settings, LostAt(t, s) \/ GoneAt(t, s), NEW v
  PROVE  StandsFor(t, PathOf(s), v) = {}
<1>1. {"value", "json", "locked"} \subseteq Keys
  BY DEF Keys
<1>2. \A k \in {"value", "json"} : \A n \in t : n.path # Part(s, k)
  BY <1>1 DEF LostAt, GoneAt
<1>3. Get(t, Part(s, "value")) = Null /\ Get(t, Part(s, "json")) = Null
  BY <1>1, <1>2, GetAtSpot
<1>4. ~Has(t, PathOf(s), {"locks", "json"}) /\ ~Has(t, PathOf(s), {"locked", "value"})
  BY <1>3 DEF Has, Part
<1> QED
  BY <1>4 DEF StandsFor

LEMMA SentLocked ==
  ASSUME NEW t, Spots(t), NEW s \in Settings, NEW leaf, leaf # Null, LockedAt(t, s, leaf)
  PROVE  LockedAt(SettingsForWrite(t, "V2"), s, leaf)
<1>1. PICK u : u = SettingsForWrite(t, "V2")
  OBVIOUS
<1>2. StandsFor(t, PathOf(s), "V2") = {} /\ {"value", "locked"} \subseteq Keys
  BY LockedStands DEF Keys
<1>3. GroupAt(u, s, leaf)
  BY <1>1, <1>2, SentGroup DEF LockedAt
<1>4. PICK n \in t : n.path = Part(s, "locked")
  BY DEF LockedAt
<1>5. n \in u
  <2>1. PICK o \in t : o.path = Part(s, "value")
    BY NodeType DEF LockedAt, GroupAt
  <2>2. o # n /\ o \in Below(t, PathOf(s))
    BY <1>2, <1>4, <2>1, PartFacts DEF Below
  <2>3. Below(t, PathOf(s)) # {n}
    BY <2>2
  <2> QED
    BY <1>1, <1>2, <1>4, <2>3, SentNodes
<1>6. ASSUME NEW m \in u, m.path = Part(s, "locked")
      PROVE  m.leaf # Null
  <2>1. PICK o \in t, r \in Settings : m = o \/ m = Node(PathOf(r), o.leaf)
    BY <1>1, SentNodes
  <2>2. m = o
    BY <1>2, <1>6, <2>1, NodeType, PartFacts
  <2> QED
    BY <1>6, <2>2 DEF LockedAt
<1> QED
  BY <1>1, <1>3, <1>4, <1>5, <1>6 DEF LockedAt

\* What stands for a map is sent in its place.
LEMMA SentInPlace ==
  ASSUME NEW t, Spots(t), NEW s \in Settings, NEW leaf, NEW v, NEW key \in Keys,
         StandsFor(t, PathOf(s), v) = {key}, Node(Part(s, key), leaf) \in t,
         \A n \in t : n.path = Part(s, key) => n.leaf = leaf, \A n \in t : n.path # PathOf(s)
  PROVE  PlainAt(SettingsForWrite(t, v), s, leaf)
<1>1. PICK u : u = SettingsForWrite(t, v)
  OBVIOUS
<1>2. PICK o \in t : o = Node(Part(s, key), leaf)
  OBVIOUS
<1>3. o.path = Part(s, key) /\ o.leaf = leaf
  BY <1>2, NodeType
<1>4. Node(PathOf(s), leaf) \in u
  BY <1>1, <1>3, SentNodes
<1>5. ASSUME NEW m \in u
      PROVE  (m.path = PathOf(s) => m.leaf = leaf) /\ \A k \in Keys : m.path # Part(s, k)
  <2>1. PICK n \in t, r \in Settings :
          \/ n.path = PathOf(r) /\ m = n
          \/ \E k \in Keys : n.path = Part(r, k) /\ StandsFor(t, PathOf(r), v) = {} /\ m = n
          \/ \E k \in Keys : n.path = Part(r, k) /\ k \in StandsFor(t, PathOf(r), v) /\ m = Node(PathOf(r), n.leaf)
    BY <1>1, SentNodes
  <2>2. CASE n.path = PathOf(r) /\ m = n
    BY <2>2, PartFacts
  <2>3. ASSUME NEW k \in Keys, n.path = Part(r, k), StandsFor(t, PathOf(r), v) = {}, m = n
        PROVE  (m.path = PathOf(s) => m.leaf = leaf) /\ \A l \in Keys : m.path # Part(s, l)
    <3>1. r # s
      BY <2>3
    <3> QED
      BY <2>3, <3>1, PartFacts
  <2>4. ASSUME NEW k \in Keys, n.path = Part(r, k), k \in StandsFor(t, PathOf(r), v), m = Node(PathOf(r), n.leaf)
        PROVE  (m.path = PathOf(s) => m.leaf = leaf) /\ \A l \in Keys : m.path # Part(s, l)
    <3>1. m.path = PathOf(r) /\ m.leaf = n.leaf
      BY <2>4, NodeType
    <3>2. r = s => k = key
      BY <2>4
    <3> QED
      BY <2>4, <3>1, <3>2, PartFacts
  <2> QED
    BY <2>1, <2>2, <2>3, <2>4
<1> QED
  BY <1>1, <1>4, <1>5 DEF PlainAt

LEMMA SentJson ==
  ASSUME NEW t, Spots(t), NEW s \in Settings, NEW leaf, leaf # Null, JsonAt(t, s, leaf), NEW v
  PROVE  PlainAt(SettingsForWrite(t, v), s, leaf)
<1>1. StandsFor(t, PathOf(s), v) = {"json"} /\ "json" \in Keys
  BY JsonStands DEF Keys
<1> QED
  BY <1>1, SentInPlace DEF JsonAt

LEMMA SentLost ==
  ASSUME NEW t, Spots(t), NEW s \in Settings, LostAt(t, s) \/ GoneAt(t, s), NEW v
  PROVE  GoneAt(SettingsForWrite(t, v), s)
<1>1. PICK u : u = SettingsForWrite(t, v)
  OBVIOUS
<1>2. StandsFor(t, PathOf(s), v) = {}
  BY LostStands
<1>3. ASSUME NEW m \in u
      PROVE  m.path # PathOf(s) /\ \A k \in Keys : m.path # Part(s, k)
  <2>1. PICK n \in t, r \in Settings :
          \/ n.path = PathOf(r) /\ m = n
          \/ \E k \in Keys : /\ n.path = Part(r, k) /\ StandsFor(t, PathOf(r), v) = {}
                             /\ k # "locked" \/ Below(t, PathOf(r)) # {n}
                             /\ m = n
          \/ \E k \in Keys : n.path = Part(r, k) /\ k \in StandsFor(t, PathOf(r), v) /\ m = Node(PathOf(r), n.leaf)
    BY <1>1, SentNodes
  <2>2. CASE n.path = PathOf(r) /\ m = n
    <3>1. r # s
      BY <2>2 DEF LostAt, GoneAt
    <3> QED
      BY <2>2, <3>1, PartFacts
  <2>3. ASSUME NEW k \in Keys, n.path = Part(r, k), k # "locked" \/ Below(t, PathOf(r)) # {n}, m = n
        PROVE  m.path # PathOf(s) /\ \A l \in Keys : m.path # Part(s, l)
    <3>1. ASSUME r = s
          PROVE  FALSE
      <4>1. LostAt(t, s) /\ k = "locked"
        BY <2>3, <3>1 DEF LostAt, GoneAt
      <4>2. ASSUME NEW o \in Below(t, PathOf(s))
            PROVE  o = n
        <5>1. PICK l \in Keys : o \in t /\ o.path = Part(s, l)
          BY <4>2, GetAtSpot DEF Below
        <5> QED
          BY <2>3, <3>1, <4>1, <5>1 DEF LostAt
      <4>3. n \in Below(t, PathOf(s))
        BY <2>3, <3>1, PartFacts DEF Below
      <4> QED
        BY <2>3, <3>1, <4>1, <4>2, <4>3
    <3> QED
      BY <2>3, <3>1, PartFacts
  <2>4. ASSUME NEW k \in Keys, k \in StandsFor(t, PathOf(r), v), m = Node(PathOf(r), n.leaf)
        PROVE  m.path # PathOf(s) /\ \A l \in Keys : m.path # Part(s, l)
    <3>1. r # s /\ m.path = PathOf(r)
      BY <1>2, <2>4, NodeType
    <3> QED
      BY <3>1, PartFacts
  <2> QED
    BY <2>1, <2>2, <2>3, <2>4
<1> QED
  BY <1>1, <1>3 DEF GoneAt

LEMMA GoneIsNothing ==
  ASSUME NEW t, Spots(t), NEW s \in Settings, GoneAt(t, s), NEW e
  PROVE  Given(e, t, s) = Null
<1>1. Below(t, PathOf(s)) = {}
  BY GetAtSpot DEF GoneAt, Below
<1>2. Get(t, PathOf(s)) = Null
  BY <1>1, GetFacts DEF At, GoneAt
<1>3. ~LookupMapAt(t, PathOf(s))
  BY <1>1, GetFacts
<1> QED
  BY <1>2, <1>3 DEF Given

LEMMA PlainIsGiven ==
  ASSUME NEW t, Spots(t), NEW s \in Settings, NEW leaf, PlainAt(t, s, leaf), NEW e \in {"backend", "native"}
  PROVE  Given(e, t, s) = leaf
<1>1. Given("backend", t, s) = leaf
  BY HeldIsGiven DEF Holds
<1>2. Given("native", t, s) = leaf
  BY GetSingle DEF PlainAt, Given
<1> QED
  BY <1>1, <1>2

-------------------------------------------------------------------------------
(***************************************************************************)
(* What an endpoint answers tells every setting in one of these shapes, or    *)
(* has lost it; and so does what a command makes of it.                     *)
(***************************************************************************)

Ends2 == {"backend", "native"}

Plain(e, s) == e = "backend" /\ s \in {"share", "dns"}
Document(e, s) == e = "native" /\ s = "daemon"

ShapeAt(e, t, s, leaf) ==
  /\ Plain(e, s) => PlainAt(t, s, leaf)
  /\ Document(e, s) => JsonAt(t, s, leaf)
  /\ ~Plain(e, s) /\ ~Document(e, s) => GroupAt(t, s, leaf) /\ (e = "native" => LockedAt(t, s, leaf))

\* Where the value is.
Where(e, s) == IF Plain(e, s) THEN PathOf(s) ELSE IF Document(e, s) THEN Part(s, "json") ELSE Part(s, "value")

\* The settings of which there is no value.
Lost(e, w) == IF e = "native" /\ w["dns"] = 0 THEN {"dns"} ELSE {}

Leaf0(s, n) == Leaf(KindOf(s), n)

\* t has the values w of all settings but the lost ones.
Tells(e, lost, t, w) ==
  /\ Spots(t)
  /\ \A s \in Settings :
       IF s \in lost THEN LostAt(t, s) /\ w[s] = 0 ELSE ShapeAt(e, t, s, Leaf0(s, w[s]))

LEMMA LeafFacts ==
  ASSUME NEW s \in Settings, NEW n
  PROVE  /\ Leaf0(s, n).kind = KindOf(s) /\ Leaf0(s, n).val = n /\ Leaf0(s, n) # Null
         /\ KindOf(s) \notin {"null", "map"} /\ (n \in Nat => Leaf0(s, n) \in Leaves)
<1>1. Leaf0(s, n).kind = KindOf(s) /\ Leaf0(s, n).val = n
  BY DEF Leaf0, Leaf
<1>2. KindOf(s) \in {"bool", "number", "list", "text"}
  BY DEF KindOf
<1>3. Null.kind = "null"
  BY DEF Null, Leaf
<1>4. n \in Nat => Leaf0(s, n) \in Leaves
  BY <1>2, NodeType DEF Leaf0, Kinds
<1> QED
  BY <1>1, <1>2, <1>3, <1>4

\* A change at one place leaves the other settings alone.
LEMMA PutElsewhere ==
  ASSUME NEW t, NEW q, NEW new, NEW r \in Settings, q # PathOf(r), \A k \in Keys : q # Part(r, k), NEW leaf
  PROVE  /\ PlainAt(t, r, leaf) => PlainAt(Put(t, q, new), r, leaf)
         /\ GroupAt(t, r, leaf) => GroupAt(Put(t, q, new), r, leaf)
         /\ LockedAt(t, r, leaf) => LockedAt(Put(t, q, new), r, leaf)
         /\ JsonAt(t, r, leaf) => JsonAt(Put(t, q, new), r, leaf)
         /\ LostAt(t, r) => LostAt(Put(t, q, new), r)
<1>1. PICK u : u = Put(t, q, new)
  OBVIOUS
<1>2. PICK o : o = Node(q, new)
  OBVIOUS
<1>3. o.path = q /\ \A n : n \in u <=> (n \in t /\ n.path # q) \/ n = o
  BY <1>1, <1>2, NodeType DEF Put
<1>4. {"value", "locked", "locks", "json"} \subseteq Keys
  BY DEF Keys
<1>5. \A n : n.path = PathOf(r) \/ (\E k \in Keys : n.path = Part(r, k)) => (n \in u <=> n \in t)
  BY <1>3
<1>6. Node(PathOf(r), leaf).path = PathOf(r) /\ \A k \in Keys : Node(Part(r, k), leaf).path = Part(r, k)
  BY NodeType
<1>7. PlainAt(t, r, leaf) => PlainAt(u, r, leaf)
  BY <1>5, <1>6 DEF PlainAt
<1>8. GroupAt(t, r, leaf) => GroupAt(u, r, leaf)
  BY <1>4, <1>5, <1>6 DEF GroupAt
<1>9. LockedAt(t, r, leaf) => LockedAt(u, r, leaf)
  BY <1>4, <1>5, <1>8 DEF LockedAt
<1>10. JsonAt(t, r, leaf) => JsonAt(u, r, leaf)
  BY <1>4, <1>5, <1>6 DEF JsonAt
<1>11. LostAt(t, r) => LostAt(u, r)
  BY <1>4, <1>5 DEF LostAt
<1> QED
  BY <1>1, <1>7, <1>8, <1>9, <1>10, <1>11

LEMMA PutSpotsAt ==
  ASSUME NEW t, Spots(t), NEW s \in Settings, NEW q, q = PathOf(s) \/ \E k \in Keys : q = Part(s, k), NEW leaf \in Leaves
  PROVE  Spots(Put(t, q, leaf))
<1>1. q \in Paths /\ Node(q, leaf) \in Nodes /\ Node(q, leaf).path = q
  BY PartShape, NodeType
<1> QED
  BY <1>1 DEF Spots, Put

\* The value of a setting is replaced.
LEMMA PutShape ==
  ASSUME NEW e, NEW t, NEW s \in Settings, NEW old, ShapeAt(e, t, s, old), NEW new
  PROVE  ShapeAt(e, Put(t, Where(e, s), new), s, new)
<1>1. PICK q : q = Where(e, s)
  OBVIOUS
<1>2. PICK u : u = Put(t, q, new)
  OBVIOUS
<1>3. PICK o : o = Node(q, new)
  OBVIOUS
<1>4. o.path = q /\ o.leaf = new /\ \A n : n \in u <=> (n \in t /\ n.path # q) \/ n = o
  BY <1>2, <1>3, NodeType DEF Put
<1>5. {"value", "locked", "locks", "json"} \subseteq Keys
  BY DEF Keys
<1>6. CASE Plain(e, s)
  <2>1. q = PathOf(s) /\ PlainAt(t, s, old) /\ ~Document(e, s)
    BY <1>1, <1>6 DEF Where, ShapeAt, Plain, Document
  <2>2. PlainAt(u, s, new)
    BY <1>2, <2>1, PutPlain
  <2> QED
    BY <1>1, <1>2, <1>6, <2>1, <2>2 DEF ShapeAt
<1>7. CASE Document(e, s)
  <2>1. q = Part(s, "json") /\ JsonAt(t, s, old) /\ ~Plain(e, s)
    BY <1>1, <1>7 DEF Where, ShapeAt, Plain, Document
  <2>2. q # PathOf(s) /\ q # Part(s, "value") /\ q # Part(s, "locks")
    BY <1>5, <2>1, PartFacts
  <2>3. JsonAt(u, s, new)
    BY <1>3, <1>4, <2>1, <2>2 DEF JsonAt
  <2> QED
    BY <1>1, <1>2, <1>7, <2>1, <2>3 DEF ShapeAt
<1>8. CASE ~Plain(e, s) /\ ~Document(e, s)
  <2>1. q = Part(s, "value") /\ GroupAt(t, s, old)
    BY <1>1, <1>8 DEF Where, ShapeAt
  <2>2. GroupAt(u, s, new)
    BY <1>2, <2>1, PutGroup
  <2>3. ASSUME e = "native"
        PROVE  LockedAt(u, s, new)
    <3>1. LockedAt(t, s, old) /\ q # Part(s, "locked")
      BY <1>5, <1>8, <2>1, <2>3, PartFacts DEF ShapeAt
    <3> QED
      BY <1>4, <2>2, <3>1 DEF LockedAt
  <2> QED
    BY <1>1, <1>2, <1>8, <2>2, <2>3 DEF ShapeAt
<1> QED
  BY <1>6, <1>7, <1>8

LEMMA PutTells ==
  ASSUME NEW e, NEW lost, NEW t, NEW w \in Values, Tells(e, lost, t, w),
         NEW s \in Settings \ lost, NEW n \in Nat
  PROVE  Tells(e, lost, Put(t, Where(e, s), Leaf0(s, n)), [w EXCEPT ![s] = n])
<1>1. PICK q, u, v : q = Where(e, s) /\ u = Put(t, q, Leaf0(s, n)) /\ v = [w EXCEPT ![s] = n]
  OBVIOUS
<1>2. v[s] = n /\ \A r \in Settings \ {s} : v[r] = w[r]
  BY <1>1 DEF Values
<1>3. {"value", "json"} \subseteq Keys /\ (q = PathOf(s) \/ q = Part(s, "value") \/ q = Part(s, "json"))
  BY <1>1 DEF Keys, Where
<1>4. Spots(u)
  BY <1>1, <1>3, LeafFacts, PutSpotsAt DEF Tells
<1>5. ShapeAt(e, u, s, Leaf0(s, v[s]))
  BY <1>1, <1>2, PutShape DEF Tells
<1>6. ASSUME NEW r \in Settings \ {s}
      PROVE  IF r \in lost THEN LostAt(u, r) /\ v[r] = 0 ELSE ShapeAt(e, u, r, Leaf0(r, v[r]))
  <2>1. q # PathOf(r) /\ \A k \in Keys : q # Part(r, k)
    BY <1>3, PartFacts
  <2>2. PICK leaf : leaf = Leaf0(r, w[r])
    OBVIOUS
  <2>3. IF r \in lost THEN LostAt(t, r) /\ w[r] = 0 ELSE ShapeAt(e, t, r, leaf)
    BY <2>2 DEF Tells
  <2>4. IF r \in lost THEN LostAt(u, r) /\ w[r] = 0 ELSE ShapeAt(e, u, r, leaf)
    BY <1>1, <2>1, <2>3, PutElsewhere DEF ShapeAt
  <2> QED
    BY <1>2, <2>2, <2>4
<1>7. Tells(e, lost, u, v)
  BY <1>4, <1>5, <1>6 DEF Tells
<1> QED
  BY <1>1, <1>7

\* A lock or a limit is changed, and no value.
LEMMA PutAside ==
  ASSUME NEW e, NEW lost, NEW t, NEW w \in Values, Tells(e, lost, t, w),
         NEW s \in Settings, NEW k \in {"locked", "locks", "min", "max"}, \E n \in t : n.path = Part(s, k),
         NEW new \in Leaves, new # Null
  PROVE  Tells(e, lost, Put(t, Part(s, k), new), w)
<1>1. PICK q : q = Part(s, k)
  OBVIOUS
<1>2. PICK u : u = Put(t, q, new)
  OBVIOUS
<1>3. PICK o : o = Node(q, new)
  OBVIOUS
<1>4. o.path = q /\ o.leaf = new /\ \A n : n \in u <=> (n \in t /\ n.path # q) \/ n = o
  BY <1>2, <1>3, NodeType DEF Put
<1>5. {"value", "locked", "locks", "json"} \subseteq Keys /\ k \in Keys
  BY DEF Keys
<1>6. q # PathOf(s) /\ q # Part(s, "value") /\ q # Part(s, "json")
  BY <1>1, <1>5, PartFacts
<1>7. Spots(u)
  BY <1>1, <1>2, <1>5, PutSpotsAt DEF Tells
<1>8. ASSUME NEW leaf, ShapeAt(e, t, s, leaf)
      PROVE  ShapeAt(e, u, s, leaf)
  <2>1. ~PlainAt(t, s, leaf)
    BY <1>5 DEF PlainAt
  <2>2. ASSUME JsonAt(t, s, leaf)
        PROVE  JsonAt(u, s, leaf)
    <3>1. Node(Part(s, "json"), leaf).path = Part(s, "json")
      BY NodeType
    <3> QED
      BY <1>4, <1>6, <2>2, <3>1 DEF JsonAt
  <2>3. ASSUME GroupAt(t, s, leaf)
        PROVE  GroupAt(u, s, leaf)
    <3>1. Node(Part(s, "value"), leaf).path = Part(s, "value")
      BY NodeType
    <3> QED
      BY <1>4, <1>6, <2>3, <3>1 DEF GroupAt
  <2>4. ASSUME LockedAt(t, s, leaf)
        PROVE  LockedAt(u, s, leaf)
    <3>1. GroupAt(u, s, leaf)
      BY <2>3, <2>4 DEF LockedAt
    <3> QED
      BY <1>4, <2>4, <3>1 DEF LockedAt
  <2> QED
    BY <1>8, <2>1, <2>2, <2>3, <2>4 DEF ShapeAt
<1>9. ASSUME LostAt(t, s)
      PROVE  LostAt(u, s)
  <2>1. k = "locked"
    BY <1>5, <1>9 DEF LostAt
  <2> QED
    BY <1>1, <1>4, <1>6, <1>9, <2>1, PartFacts DEF LostAt
<1>10. ASSUME NEW r \in Settings \ {s}, NEW leaf
       PROVE  /\ LostAt(t, r) => LostAt(u, r)
              /\ ShapeAt(e, t, r, leaf) => ShapeAt(e, u, r, leaf)
  <2>1. q # PathOf(r) /\ \A l \in Keys : q # Part(r, l)
    BY <1>1, <1>5, PartFacts
  <2> QED
    BY <1>2, <2>1, PutElsewhere DEF ShapeAt
<1>11. ASSUME NEW r \in Settings
       PROVE  IF r \in lost THEN LostAt(u, r) /\ w[r] = 0 ELSE ShapeAt(e, u, r, Leaf0(r, w[r]))
  <2>1. PICK leaf : leaf = Leaf0(r, w[r])
    OBVIOUS
  <2>2. IF r \in lost THEN LostAt(t, r) /\ w[r] = 0 ELSE ShapeAt(e, t, r, leaf)
    BY <2>1 DEF Tells
  <2>3. IF r \in lost THEN LostAt(u, r) /\ w[r] = 0 ELSE ShapeAt(e, u, r, leaf)
    BY <1>8, <1>9, <1>10, <2>2
  <2> QED
    BY <2>1, <2>3
<1>12. Tells(e, lost, u, w)
  BY <1>7, <1>11 DEF Tells
<1> QED
  BY <1>1, <1>2, <1>12

LEMMA GroupedNodes ==
  ASSUME NEW stored, NEW n
  PROVE  /\ n \in Grouped("native", stored) <=>
              \/ \E s \in {"k8s", "cpus", "share"} :
                   \/ n = Node(Part(s, "value"), Leaf(KindOf(s), stored[s]))
                   \/ n = Node(Part(s, "locked"), Leaf("bool", 0))
              \/ n = Node(Part("cpus", "min"), Leaf("number", 1))
              \/ n = Node(Part("cpus", "max"), Leaf("number", MaxCPUs))
              \/ n = Node(Part("daemon", "json"), Leaf(KindOf("daemon"), stored["daemon"]))
              \/ n = Node(Part("daemon", "locks"), Leaf("list", 0))
              \/ n = Node(Part("dns", "locked"), Leaf("bool", 0))
              \/ stored["dns"] # 0 /\ n = Node(Part("dns", "value"), Leaf(KindOf("dns"), stored["dns"]))
         /\ n \in Grouped("backend", stored) <=>
              \/ \E s \in {"k8s", "daemon"} :
                   \/ n = Node(Part(s, "value"), Leaf(KindOf(s), stored[s]))
                   \/ n = Node(Part(s, "locked"), Leaf("bool", 0))
              \/ n = Node(Part("cpus", "value"), Leaf(KindOf("cpus"), stored["cpus"]))
              \/ n = Node(Part("cpus", "min"), Leaf("number", 1))
              \/ n = Node(Part("cpus", "max"), Leaf("number", MaxCPUs))
              \/ \E s \in {"share", "dns"} : n = Node(PathOf(s), Leaf(KindOf(s), stored[s]))
BY DEF Grouped, Part

LEMMA GroupedSpots ==
  ASSUME NEW e \in {"backend", "native"}, NEW stored \in Values
  PROVE  Spots(Grouped(e, stored))
<1> SUFFICES ASSUME NEW n \in Grouped(e, stored)
             PROVE  n \in Nodes /\ \E s \in Settings : n.path = PathOf(s) \/ \E k \in Keys : n.path = Part(s, k)
  BY DEF Spots
<1>1. n \in Nodes
  BY GroupedType DEF Trees
<1>2. /\ {"k8s", "cpus", "share", "daemon", "dns"} \subseteq Settings
      /\ {"value", "locked", "locks", "json", "min", "max"} \subseteq Keys
  BY DEF Settings, Keys
<1>3. \/ \E s \in Settings, k \in Keys : \E leaf : n = Node(Part(s, k), leaf)
      \/ \E s \in Settings : \E leaf : n = Node(PathOf(s), leaf)
  BY <1>2, GroupedNodes
<1> QED
  BY <1>1, <1>3, NodeType

LEMMA GroupedTells ==
  ASSUME NEW e \in Ends2, NEW stored \in Values
  PROVE  Tells(e, Lost(e, stored), Grouped(e, stored), stored)
<1>1. PICK t : t = Grouped(e, stored)
  OBVIOUS
<1>2. /\ {"k8s", "cpus", "share", "daemon", "dns"} \subseteq Settings
      /\ {"value", "locked", "locks", "json", "min", "max"} \subseteq Keys
  BY DEF Settings, Keys
<1>3. Spots(t)
  BY <1>1, GroupedSpots DEF Ends2
<1>4. Leaf("bool", 0) # Null /\ Leaf("list", 0) # Null
  BY DEF Null, Leaf
<1>5. ASSUME e = "backend", NEW s \in Settings
      PROVE  ShapeAt(e, t, s, Leaf0(s, stored[s]))
  <2>1. PICK leaf : leaf = Leaf0(s, stored[s])
    OBVIOUS
  <2>2. CASE s \in {"k8s", "cpus", "daemon"}
    <3>1. Node(Part(s, "value"), leaf) \in t
      BY <1>1, <1>5, <2>1, <2>2, GroupedNodes DEF Leaf0
    <3>2. ASSUME NEW n \in t
          PROVE  /\ n.path = Part(s, "value") => n.leaf = leaf
                 /\ n.path # PathOf(s) /\ n.path # Part(s, "json")
      <4>1. \/ n = Node(Part(s, "value"), leaf)
            \/ \E r \in Settings, k \in Keys : \E l : n = Node(Part(r, k), l) /\ (r # s \/ k \notin {"value", "json"})
            \/ \E r \in Settings \ {s} : \E l : n = Node(PathOf(r), l)
        BY <1>1, <1>2, <1>5, <2>1, <2>2, GroupedNodes DEF Leaf0
      <4> QED
        BY <1>2, <4>1, NodeType, PartFacts
    <3>3. GroupAt(t, s, leaf)
      BY <3>1, <3>2 DEF GroupAt
    <3> QED
      BY <1>5, <2>1, <2>2, <3>3 DEF ShapeAt, Plain, Document
  <2>3. CASE s \in {"share", "dns"}
    <3>1. Node(PathOf(s), leaf) \in t
      BY <1>1, <1>5, <2>1, <2>3, GroupedNodes DEF Leaf0
    <3>2. ASSUME NEW n \in t
          PROVE  /\ n.path = PathOf(s) => n.leaf = leaf
                 /\ \A k \in Keys : n.path # Part(s, k)
      <4>1. \/ n = Node(PathOf(s), leaf)
            \/ \E r \in Settings \ {s} : \E l : n = Node(PathOf(r), l)
            \/ \E r \in Settings \ {s} : \E k \in Keys : \E l : n = Node(Part(r, k), l)
        BY <1>1, <1>2, <1>5, <2>1, <2>3, GroupedNodes DEF Leaf0
      <4> QED
        BY <1>2, <4>1, NodeType, PartFacts
    <3>3. PlainAt(t, s, leaf)
      BY <3>1, <3>2 DEF PlainAt
    <3> QED
      BY <1>5, <2>1, <2>3, <3>3 DEF ShapeAt, Plain, Document
  <2> QED
    BY <2>2, <2>3 DEF Settings
<1>6. ASSUME e = "native", NEW s \in Settings \ {"daemon"}, s = "dns" => stored["dns"] # 0
      PROVE  ShapeAt(e, t, s, Leaf0(s, stored[s]))
  <2>1. PICK leaf : leaf = Leaf0(s, stored[s])
    OBVIOUS
  <2>2. s \in {"k8s", "cpus", "share", "dns"}
    BY DEF Settings
  <2>3. Node(Part(s, "value"), leaf) \in t /\ Node(Part(s, "locked"), Leaf("bool", 0)) \in t
    BY <1>1, <1>6, <2>1, <2>2, GroupedNodes DEF Leaf0
  <2>4. ASSUME NEW n \in t
        PROVE  /\ n.path = Part(s, "value") => n.leaf = leaf
               /\ n.path = Part(s, "locked") => n.leaf = Leaf("bool", 0)
               /\ n.path # PathOf(s) /\ n.path # Part(s, "json")
    <3>1. \/ n = Node(Part(s, "value"), leaf)
          \/ n = Node(Part(s, "locked"), Leaf("bool", 0))
          \/ \E r \in Settings, k \in Keys : \E l : n = Node(Part(r, k), l) /\ (r # s \/ k \notin {"value", "json", "locked"})
      BY <1>1, <1>2, <1>6, <2>1, <2>2, GroupedNodes DEF Leaf0
    <3> QED
      BY <1>2, <3>1, NodeType, PartFacts
  <2>5. LockedAt(t, s, leaf) /\ GroupAt(t, s, leaf)
    BY <1>4, <2>3, <2>4, NodeType DEF GroupAt, LockedAt
  <2> QED
    BY <1>6, <2>1, <2>5 DEF ShapeAt, Plain, Document
<1>7. ASSUME e = "native"
      PROVE  ShapeAt(e, t, "daemon", Leaf0("daemon", stored["daemon"]))
  <2>1. PICK leaf : leaf = Leaf0("daemon", stored["daemon"])
    OBVIOUS
  <2>2. Node(Part("daemon", "json"), leaf) \in t /\ Node(Part("daemon", "locks"), Leaf("list", 0)) \in t
    BY <1>1, <1>7, <2>1, GroupedNodes DEF Leaf0
  <2>3. ASSUME NEW n \in t
        PROVE  /\ n.path = Part("daemon", "json") => n.leaf = leaf
               /\ n.path = Part("daemon", "locks") => n.leaf = Leaf("list", 0)
               /\ n.path # PathOf("daemon") /\ n.path # Part("daemon", "value")
    <3>1. \/ n = Node(Part("daemon", "json"), leaf)
          \/ n = Node(Part("daemon", "locks"), Leaf("list", 0))
          \/ \E r \in Settings \ {"daemon"}, k \in Keys : \E l : n = Node(Part(r, k), l)
      BY <1>1, <1>2, <1>7, <2>1, GroupedNodes DEF Leaf0
    <3> QED
      BY <1>2, <3>1, NodeType, PartFacts
  <2>4. JsonAt(t, "daemon", leaf)
    BY <1>4, <2>2, <2>3, NodeType DEF JsonAt
  <2> QED
    BY <1>7, <2>1, <2>4 DEF ShapeAt, Plain, Document
<1>8. ASSUME e = "native", stored["dns"] = 0
      PROVE  LostAt(t, "dns")
  <2>1. PICK o : o = Node(Part("dns", "locked"), Leaf("bool", 0))
    OBVIOUS
  <2>2. o \in t /\ o.path = Part("dns", "locked")
    BY <1>1, <1>8, <2>1, GroupedNodes, NodeType
  <2>3. ASSUME NEW n \in t
        PROVE  /\ n.path = Part("dns", "locked") => n = o
               /\ n.path # PathOf("dns") /\ \A k \in Keys : n.path = Part("dns", k) => k = "locked"
    <3>1. n = o \/ \E r \in Settings \ {"dns"}, k \in Keys : \E l : n = Node(Part(r, k), l)
      BY <1>1, <1>2, <1>8, <2>1, GroupedNodes
    <3> QED
      BY <1>2, <2>2, <3>1, NodeType, PartFacts
  <2> QED
    BY <2>2, <2>3 DEF LostAt
<1>9. Tells(e, Lost(e, stored), t, stored)
  BY <1>3, <1>5, <1>6, <1>7, <1>8 DEF Tells, Lost, Ends2
<1> QED
  BY <1>1, <1>9

\* A key that can be set is that of a setting, or of a part that is there.
LEMMA SetReaches ==
  ASSUME NEW t, Spots(t), NEW key \in Paths, NEW new, ApplySet(t, key, new).ok
  PROVE  \E s \in Settings : key = PathOf(s) \/ \E k \in Keys, n \in t : key = Part(s, k) /\ n.path = key
<1>1. PICK q, old, v : /\ q = IF LookupMapAt(t, key) THEN Append(key, "value") ELSE key
                       /\ old = Get(t, q) /\ v = Leaf("list", new.val)
  OBVIOUS
<1>2. old.kind \in {"bool", "number", "text"} \/ key = FileSharing
  BY <1>1 DEF ApplySet, Error
<1>3. "share" \in Settings /\ PathOf("share") = FileSharing
  BY DEF Settings, PathOf, FileSharing
<1>4. ASSUME old.kind \in {"bool", "number", "text"}
      PROVE  \E s \in Settings : key = PathOf(s) \/ \E k \in Keys, n \in t : key = Part(s, k) /\ n.path = key
  <2>1. Null.kind = "null" /\ Leaf("map", 0).kind = "map"
    BY DEF Null, Leaf
  <2>2. PICK n \in t : n.path = q
    BY <1>1, <1>4, <2>1, GetFacts DEF At
  <2>3. PICK s \in Settings : q = PathOf(s) \/ \E k \in Keys : q = Part(s, k)
    BY <2>2 DEF Spots
  <2>4. CASE q = key
    BY <2>2, <2>3, <2>4
  <2>5. CASE q = Append(key, "value")
    <3>1. "value" \in Words
      BY DEF Words
    <3>2. Front(q) = key /\ Last(q) = "value"
      BY <2>5, <3>1, LastKey
    <3>3. q # PathOf(s)
      <4>1. PathOf(s) \in Paths /\ Len(PathOf(s)) \in {2, 3}
        BY PathFacts
      <4>2. PathOf(s)[2] # "value" /\ (Len(PathOf(s)) = 3 => PathOf(s)[3] # "value")
        BY SecondKeys
      <4> QED
        BY <3>2, <4>1, <4>2 DEF Last
    <3>4. key = PathOf(s)
      BY <2>3, <3>2, <3>3, PartShape
    <3> QED
      BY <3>4
  <2> QED
    BY <1>1, <2>4, <2>5
<1> QED
  BY <1>2, <1>3, <1>4

-------------------------------------------------------------------------------
(***************************************************************************)
(* A change made by applySet, and what the endpoints then take from it.      *)
(***************************************************************************)

\* The settings w after a value was stored under a key.
AfterSet(w, key, n) == [s \in Settings |-> IF key \in KeysOf(s) THEN n ELSE w[s]]

LEMMA AfterSetFacts ==
  ASSUME NEW w \in Values, NEW s \in Settings, NEW key, NEW n \in Nat
  PROVE  /\ AfterSet(w, key, n) \in Values
         /\ key \in KeysOf(s) => AfterSet(w, key, n) = [w EXCEPT ![s] = n]
         /\ \A k \in Keys \ {"value", "json"} : key = Part(s, k) => AfterSet(w, key, n) = w
<1>1. {"value", "json"} \subseteq Keys /\ w = [r \in Settings |-> w[r]] /\ \A r \in Settings : w[r] \in Nat
  BY DEF Keys, Values
<1>2. \A r \in Settings : KeysOf(r) = {PathOf(r), Part(r, "value"), Part(r, "json")}
  BY DEF KeysOf, Part
<1>3. AfterSet(w, key, n) \in Values
  BY <1>1 DEF AfterSet, Values
<1>4. ASSUME key \in KeysOf(s)
      PROVE  AfterSet(w, key, n) = [w EXCEPT ![s] = n]
  <2>1. \A r \in Settings : key \in KeysOf(r) <=> r = s
    BY <1>1, <1>2, <1>4, PartFacts
  <2> QED
    BY <1>1, <2>1 DEF AfterSet
<1>5. ASSUME NEW k \in Keys \ {"value", "json"}, key = Part(s, k)
      PROVE  AfterSet(w, key, n) = w
  <2>1. \A r \in Settings : key \notin KeysOf(r)
    BY <1>1, <1>2, <1>5, PartFacts
  <2> QED
    BY <1>1, <2>1 DEF AfterSet
<1> QED
  BY <1>3, <1>4, <1>5

\* What is to be shown of a set.
IsSet(e, lost, t, w, key, new, o) ==
  /\ \A s \in Settings : key \in KeysOf(s) => s \notin lost
  /\ Tells(e, lost, o.tree, AfterSet(w, key, new.val))
  /\ ~o.changed => AfterSet(w, key, new.val) = w

LEMMA SetHere ==
  ASSUME NEW e \in Ends2, NEW lost, NEW t, NEW w \in Values, Tells(e, lost, t, w),
         NEW s \in Settings \ lost, NEW key \in KeysOf(s), NEW new \in Leaves, NEW o,
         \/ o = Unchanged(t) /\ new.val = w[s]
         \/ o = Changed(Put(t, Where(e, s), Leaf0(s, new.val)))
  PROVE  IsSet(e, lost, t, w, key, new, o)
<1>1. new.val \in Nat
  BY DEF Leaves
<1>2. PICK v : v = AfterSet(w, key, new.val)
  OBVIOUS
<1>3. v = [w EXCEPT ![s] = new.val] /\ \A r \in Settings : key \in KeysOf(r) => r = s
  <2>1. ASSUME NEW r \in Settings, key \in KeysOf(r)
        PROVE  r = s
    BY <2>1, PartFacts DEF KeysOf, Part, Keys
  <2> QED
    BY <1>1, <1>2, <2>1, AfterSetFacts
<1>4. CASE o = Unchanged(t) /\ new.val = w[s]
  <2>1. v = w
    BY <1>3, <1>4 DEF Values
  <2> QED
    BY <1>2, <1>3, <1>4, <2>1 DEF IsSet, Unchanged
<1>5. CASE o = Changed(Put(t, Where(e, s), Leaf0(s, new.val)))
  <2>1. Tells(e, lost, o.tree, v) /\ o.changed
    BY <1>1, <1>3, <1>5, PutTells DEF Changed
  <2> QED
    BY <1>2, <1>3, <2>1 DEF IsSet
<1> QED
  BY <1>4, <1>5

LEMMA SetTells ==
  ASSUME NEW e \in Ends2, NEW lost \in SUBSET {"dns"}, NEW t, NEW w \in Values, Tells(e, lost, t, w),
         NEW key \in Paths, NEW new \in Leaves, NEW o, o = ApplySet(t, key, new), o.ok
  PROVE  IsSet(e, lost, t, w, key, new, o)
<1>1. Spots(t)
  BY DEF Tells
<1>2. PICK s \in Settings : key = PathOf(s) \/ \E k \in Keys, n \in t : key = Part(s, k) /\ n.path = key
  BY <1>1, SetReaches
<1>3. PICK q : q = IF LookupMapAt(t, key) THEN Append(key, "value") ELSE key
  OBVIOUS
<1>12. PICK old : old = Get(t, q)
  OBVIOUS
<1>4. \/ old.kind \in {"bool", "number", "text"} /\ new.val = old.val /\ o = Unchanged(t)
      \/ old.kind \in {"bool", "number", "text"} /\ o = Changed(Put(t, q, Leaf(old.kind, new.val)))
      \/ /\ old.kind \notin {"bool", "number", "text"} /\ key = FileSharing
         /\ o = Changed(Put(t, q, Leaf("list", new.val)))
  BY <1>3, <1>12 DEF ApplySet, Error
<1>5. "share" \in Settings /\ PathOf("share") = FileSharing /\ Keys = {"value", "locked", "locks", "json", "min", "max"}
      /\ KeysOf(s) = {PathOf(s), Part(s, "value"), Part(s, "json")} /\ Null.kind = "null"
  BY DEF Settings, PathOf, FileSharing, Keys, KeysOf, Part, Null, Leaf
<1>6. PICK leaf : leaf = Leaf0(s, w[s])
  OBVIOUS
<1>7. leaf.kind = KindOf(s) /\ leaf.val = w[s] /\ leaf # Null
  BY <1>6, LeafFacts
<1>8. IF s \in lost THEN LostAt(t, s) /\ w[s] = 0 ELSE ShapeAt(e, t, s, leaf)
  BY <1>6 DEF Tells
\* The value is found: what is done with it is right.
<1>9. ASSUME s \notin lost, key \in KeysOf(s), q = Where(e, s), old = leaf
      PROVE  IsSet(e, lost, t, w, key, new, o)
  <2>1. key = FileSharing => s = "share"
    BY <1>5, <1>9, PartFacts
  <2>2. \/ o = Unchanged(t) /\ new.val = w[s]
        \/ o = Changed(Put(t, Where(e, s), Leaf0(s, new.val)))
    <3>1. s = "share" => KindOf(s) = "list"
      BY DEF KindOf
    <3> QED
      BY <1>4, <1>7, <1>9, <2>1, <3>1 DEF Leaf0
  <2> QED
    BY <1>9, <2>2, SetHere
<1>10. CASE key = PathOf(s)
  <2>1. key \in KeysOf(s) /\ q = ValueAt(t, s)
    BY <1>3, <1>5, <1>10 DEF ValueAt, Part
  <2>2. ASSUME s \in lost \/ Document(e, s)
        PROVE  FALSE
    <3>1. \A n \in t : n.path # Part(s, "value")
      BY <1>5, <1>8, <2>2 DEF ShapeAt, LostAt, JsonAt
    <3>2. \E n \in t, k \in Keys : n.path = Part(s, k)
      BY <1>5, <1>8, <2>2, NodeType DEF ShapeAt, LostAt, JsonAt
    <3>3. LookupMapAt(t, PathOf(s))
      <4>1. PICK n \in t : IsStrictPrefix(PathOf(s), n.path)
        BY <1>1, <3>2, GetAtSpot
      <4>2. n \in Below(t, PathOf(s))
        BY <4>1 DEF Below
      <4> QED
        BY <4>2, GetFacts
    <3>4. old = Null
      <4>1. q = Part(s, "value") /\ "value" \in Keys
        BY <1>5, <2>1, <3>3 DEF ValueAt
      <4>2. Get(t, Part(s, "value")) = Null
        BY <1>1, <3>1, <4>1, GetAtSpot
      <4> QED
        BY <1>12, <4>1, <4>2
    <3>5. s # "share"
      BY <2>2 DEF Document
    <3> QED
      BY <1>4, <1>5, <1>10, <3>4, <3>5, PartFacts
  <2>3. q = Where(e, s) /\ old = leaf
    <3>1. CASE Plain(e, s)
      BY <1>1, <1>12, <1>8, <2>1, <2>2, <3>1, ValueFound DEF ShapeAt, Where
    <3>2. CASE ~Plain(e, s)
      BY <1>1, <1>12, <1>8, <2>1, <2>2, <3>2, ValueFound DEF ShapeAt, Where
    <3> QED
      BY <3>1, <3>2
  <2> QED
    BY <1>9, <2>1, <2>2, <2>3
<1>11. ASSUME NEW k \in Keys, NEW n \in t, key = Part(s, k), n.path = key
       PROVE  IsSet(e, lost, t, w, key, new, o)
  <2>1. ~LookupMapAt(t, key)
    <3>1. \A m \in t : ~IsStrictPrefix(key, m.path)
      BY <1>1, <1>11, PartFacts DEF Spots
    <3> QED
      BY <3>1, GetFacts DEF Below
  <2>2. q = key /\ old = Get(t, key) /\ key # FileSharing
    BY <1>3, <1>12, <1>5, <1>11, <2>1, PartFacts
  <2>3. CASE k \in {"locked", "locks", "min", "max"}
    <3>1. new.val \in Nat
      BY DEF Leaves
    <3>2. AfterSet(w, key, new.val) = w /\ \A r \in Settings : key \notin KeysOf(r)
      <4>1. AfterSet(w, key, new.val) = w
        BY <1>11, <2>3, <3>1, AfterSetFacts
      <4>2. \A r \in Settings : key \notin KeysOf(r)
        BY <1>5, <1>11, <2>3, PartFacts DEF KeysOf, Part
      <4> QED
        BY <4>1, <4>2
    <3>3. CASE o = Unchanged(t)
      BY <3>2, <3>3 DEF IsSet, Unchanged
    <3>4. CASE old.kind \in {"bool", "number", "text"} /\ o = Changed(Put(t, q, Leaf(old.kind, new.val)))
      <4>1. PICK put \in Leaves : put = Leaf(old.kind, new.val)
        BY <3>1, <3>4, NodeType DEF Kinds
      <4>2. put # Null
        BY <3>4, <4>1 DEF Null, Leaf
      <4>3. Tells(e, lost, Put(t, Part(s, k), put), w)
        BY <1>11, <2>3, <4>2, PutAside
      <4> QED
        BY <1>11, <2>2, <3>2, <3>4, <4>1, <4>3 DEF IsSet, Changed
    <3> QED
      BY <1>4, <2>2, <3>3, <3>4
  <2>4. CASE k = "value"
    <3>1. s \notin lost /\ ~Plain(e, s) /\ ~Document(e, s)
      BY <1>5, <1>8, <1>11, <2>4 DEF ShapeAt, LostAt, PlainAt, JsonAt
    <3>2. Get(t, key) = leaf
      BY <1>8, <1>11, <2>4, <3>1, GetSingle DEF ShapeAt, GroupAt
    <3> QED
      BY <1>5, <1>9, <1>11, <2>2, <2>4, <3>1, <3>2 DEF Where
  <2>5. CASE k = "json"
    <3>1. s \notin lost /\ ~Plain(e, s) /\ Document(e, s)
      BY <1>5, <1>8, <1>11, <2>5 DEF ShapeAt, LostAt, PlainAt, GroupAt
    <3>2. Get(t, key) = leaf
      BY <1>8, <1>11, <2>5, <3>1, GetSingle DEF ShapeAt, JsonAt
    <3> QED
      BY <1>5, <1>9, <1>11, <2>2, <2>5, <3>1, <3>2 DEF Where
  <2> QED
    BY <1>5, <2>3, <2>4, <2>5
<1> QED
  BY <1>2, <1>10, <1>11

LEMMA K8sTells ==
  ASSUME NEW e \in Ends2, NEW lost \in SUBSET {"dns"}, NEW t, NEW w \in Values, Tells(e, lost, t, w),
         NEW on \in BOOLEAN, NEW o, o = SetK8sEnabled(t, on), o.ok
  PROVE  /\ on => Tells(e, lost, o.tree, [w EXCEPT !["k8s"] = 1]) /\ (~o.changed => w["k8s"] = 1)
         /\ ~on => Tells(e, lost, o.tree, [w EXCEPT !["k8s"] = 0]) /\ (~o.changed => w["k8s"] = 0)
<1>0. PICK n : n = IF on THEN 1 ELSE 0
  OBVIOUS
<1>1. PICK key : key = PathOf("k8s")
  OBVIOUS
<1>2. "k8s" \in Settings /\ key \in KeysOf("k8s") /\ key = <<"vm", "kubernetes", "enabled">>
  BY <1>1 DEF Settings, KeysOf, PathOf
<1>3. key \in Paths /\ n \in Nat
  BY <1>0, <1>1, <1>2, PartShape
<1>4. PICK new \in Leaves : new = Leaf("bool", n)
  BY <1>3, NodeType DEF Kinds
<1>5. new.val = n
  BY <1>4 DEF Leaf
<1>6. o = ApplySet(t, key, new)
  BY <1>0, <1>2, <1>4 DEF SetK8sEnabled
<1>7. IsSet(e, lost, t, w, key, new, o)
  BY <1>3, <1>6, SetTells
<1>8. PICK v : v = AfterSet(w, key, n)
  OBVIOUS
<1>9. v = [w EXCEPT !["k8s"] = n]
  BY <1>2, <1>3, <1>8, AfterSetFacts
<1>10. Tells(e, lost, o.tree, v) /\ (~o.changed => v = w)
  BY <1>5, <1>7, <1>8 DEF IsSet
<1>11. v["k8s"] = n
  BY <1>2, <1>9 DEF Values
<1> QED
  BY <1>0, <1>9, <1>10, <1>11

LEMMA CPUTells ==
  ASSUME NEW e \in Ends2, NEW lost \in SUBSET {"dns"}, NEW t, NEW w \in Values, Tells(e, lost, t, w),
         NEW n \in Int, NEW o, o = EnsureMinCPU(t, n), o.ok
  PROVE  /\ Tells(e, lost, o.tree, IF w["cpus"] < n THEN [w EXCEPT !["cpus"] = n] ELSE w)
         /\ ~o.changed => ~(w["cpus"] < n)
<1>1. PICK leaf : leaf = Leaf0("cpus", w["cpus"])
  OBVIOUS
<1>2. "cpus" \in Settings \ lost /\ "value" \in Keys /\ KindOf("cpus") = "number"
      /\ ~Plain(e, "cpus") /\ ~Document(e, "cpus")
  BY DEF Settings, Keys, KindOf, Plain, Document
<1>3. w["cpus"] \in Nat
  BY <1>2 DEF Values
<1>4. leaf.val = w["cpus"] /\ leaf.kind = "number"
  BY <1>1, <1>2, LeafFacts
<1>5. GroupAt(t, "cpus", leaf)
  BY <1>1, <1>2 DEF Tells, ShapeAt
<1>6. CPUs("value") = Part("cpus", "value") /\ Where(e, "cpus") = Part("cpus", "value")
  BY <1>2, CPUPaths DEF Part, Where
<1>7. Get(t, CPUs("value")) = leaf
  BY <1>5, <1>6, GetSingle DEF GroupAt
<1>8. \/ n <= leaf.val /\ o = Unchanged(t)
      \/ ~(n <= leaf.val) /\ o = Changed(Put(t, CPUs("value"), Leaf("number", n)))
  BY <1>7 DEF EnsureMinCPU, Error
<1>9. CASE n <= leaf.val /\ o = Unchanged(t)
  <2>1. ~(w["cpus"] < n)
    BY <1>3, <1>4, <1>9
  <2> QED
    BY <1>9, <2>1 DEF Unchanged
<1>10. CASE ~(n <= leaf.val) /\ o = Changed(Put(t, CPUs("value"), Leaf("number", n)))
  <2>1. w["cpus"] < n /\ n \in Nat
    BY <1>3, <1>4, <1>10
  <2>2. PICK v : v = [w EXCEPT !["cpus"] = n]
    OBVIOUS
  <2>3. Tells(e, lost, Put(t, Where(e, "cpus"), Leaf0("cpus", n)), v)
    BY <1>2, <2>1, <2>2, PutTells
  <2>4. o.changed /\ o.tree = Put(t, Where(e, "cpus"), Leaf0("cpus", n))
    BY <1>2, <1>6, <1>10 DEF Changed, Leaf0
  <2> QED
    BY <2>1, <2>2, <2>3, <2>4
<1> QED
  BY <1>8, <1>9, <1>10

-------------------------------------------------------------------------------
(***************************************************************************)
(* What a command makes of the settings is what it is to make of them.       *)
(***************************************************************************)

\* Expected, wherever the command gets as far as the settings.
Aim(r, was) ==
  [s \in Settings |->
     CASE r.op = "set" /\ r.key \in KeysOf(s) -> r.new.val
       [] r.op = "disable" /\ s = "k8s" -> 0
       [] r.op = "restart" /\ s = "k8s" /\ r.product = "docker-desktop" -> 1
       [] r.op = "restart" /\ s = "cpus" /\ was[s] < r.cpus -> r.cpus
       [] OTHER -> was[s]]

LEMMA AimIsExpected ==
  ASSUME NEW r, NEW was, r.op = "restart" => desktop.local
  PROVE  Expected(r, was) = Aim(r, was)
BY DEF Expected, Aim

LEMMA NoAim ==
  ASSUME NEW r, NEW was \in Values, r.op \notin {"set", "disable", "restart"}
  PROVE  Aim(r, was) = was
BY DEF Aim, Values

LEMMA RequestParts ==
  ASSUME NEW r \in Requests
  PROVE  r.key \in Paths /\ r.new \in Leaves /\ r.new.val \in Nat /\ r.cpus \in Int /\ r.op \in Ops
<1>1. r.key \in Seq(STRING) /\ r.new \in [kind: STRING, val: Nat] /\ r.cpus \in Int /\ r.op \in Ops
  BY RequestsAssumption
<1>2. STRING \subseteq Words /\ STRING \subseteq Kinds
  BY DEF Words, Kinds
<1>3. \A q \in Seq(STRING) : q \in Seq(Words)
  BY <1>2, SeqMonotonic, Zenon
<1> QED
  BY <1>1, <1>2, <1>3 DEF Paths, Leaves

LEMMA AimOfDisable ==
  ASSUME NEW r, NEW was \in Values, r.op = "disable"
  PROVE  Aim(r, was) = [was EXCEPT !["k8s"] = 0]
<1>1. \A s \in Settings : Aim(r, was)[s] = IF s = "k8s" THEN 0 ELSE was[s]
  BY DEF Aim
<1>2. Aim(r, was) = [s \in Settings |-> Aim(r, was)[s]]
  BY DEF Aim
<1> QED
  BY <1>1, <1>2 DEF Values

LEMMA AimOfRestart ==
  ASSUME NEW r, NEW was \in Values, r.op = "restart", NEW w, NEW v,
         w = IF r.product = "docker-desktop" THEN [was EXCEPT !["k8s"] = 1] ELSE was,
         v = IF w["cpus"] < r.cpus THEN [w EXCEPT !["cpus"] = r.cpus] ELSE w
  PROVE  Aim(r, was) = v
<1>1. \A s \in Settings : Aim(r, was)[s] = IF s = "k8s" /\ r.product = "docker-desktop" THEN 1
                                           ELSE IF s = "cpus" /\ was[s] < r.cpus THEN r.cpus ELSE was[s]
  BY DEF Aim
<1>2. Aim(r, was) = [s \in Settings |-> Aim(r, was)[s]]
  BY DEF Aim
<1>3. w = [s \in Settings |-> IF s = "k8s" /\ r.product = "docker-desktop" THEN 1 ELSE was[s]]
  BY DEF Values
<1>4. "cpus" \in Settings /\ w["cpus"] = was["cpus"]
  BY <1>3 DEF Settings
<1>5. v = [s \in Settings |-> IF s = "cpus" /\ was["cpus"] < r.cpus THEN r.cpus ELSE w[s]]
  BY <1>3, <1>4
<1>6. ASSUME NEW s \in Settings
      PROVE  v[s] = Aim(r, was)[s]
  BY <1>1, <1>3, <1>5, <1>6
<1>7. v = [s \in Settings |-> v[s]]
  BY <1>5
<1> QED
  BY <1>2, <1>6, <1>7

LEMMA RestartTells ==
  ASSUME NEW e \in Ends2, NEW lost \in SUBSET {"dns"}, NEW t \in Trees, NEW was \in Values, Tells(e, lost, t, was),
         NEW r \in Requests, r.op = "restart", NEW o, o = RestartSettings(t, r), o.ok
  PROVE  /\ Tells(e, lost, o.tree, Aim(r, was))
         /\ ~o.changed => Aim(r, was) = was
<1>1. r.cpus \in Int
  BY RequestParts
<1>2. PICK k8s : k8s = IF r.product = "docker-desktop" THEN SetK8sEnabled(t, TRUE) ELSE Unchanged(t)
  OBVIOUS
<1>3. PICK cpu : cpu = EnsureMinCPU(k8s.tree, r.cpus)
  OBVIOUS
<1>4. k8s \in Outcomes /\ cpu \in Outcomes
  <2>1. k8s \in Outcomes
    BY <1>2, RestartType, OutcomeShapes
  <2> QED
    BY <1>1, <1>3, <2>1, RestartType DEF Outcomes
<1>5. k8s.ok /\ cpu.ok /\ o.tree = cpu.tree /\ (o.changed <=> cpu.changed \/ k8s.changed)
  <2>1. o = IF k8s.ok /\ cpu.ok THEN [cpu EXCEPT !.changed = cpu.changed \/ k8s.changed] ELSE Error
    BY <1>2, <1>3 DEF RestartSettings
  <2> QED
    BY <1>4, <2>1 DEF Outcomes, Error
<1>6. PICK w : w = IF r.product = "docker-desktop" THEN [was EXCEPT !["k8s"] = 1] ELSE was
  OBVIOUS
<1>7. w \in Values
  BY <1>6 DEF Values
<1>8. Tells(e, lost, k8s.tree, w) /\ (~k8s.changed => w = was)
  <2>1. CASE r.product = "docker-desktop"
    <3>1. k8s = SetK8sEnabled(t, TRUE)
      BY <1>2, <2>1
    <3>2. Tells(e, lost, k8s.tree, [was EXCEPT !["k8s"] = 1]) /\ (~k8s.changed => was["k8s"] = 1)
      BY <1>5, <3>1, K8sTells
    <3>3. was["k8s"] = 1 => [was EXCEPT !["k8s"] = 1] = was
      BY DEF Values
    <3> QED
      BY <1>6, <2>1, <3>2, <3>3
  <2>2. CASE r.product # "docker-desktop"
    BY <1>2, <1>6, <2>2 DEF Unchanged
  <2> QED
    BY <2>1, <2>2
<1>9. PICK v : v = IF w["cpus"] < r.cpus THEN [w EXCEPT !["cpus"] = r.cpus] ELSE w
  OBVIOUS
<1>10. Tells(e, lost, cpu.tree, v) /\ (~cpu.changed => ~(w["cpus"] < r.cpus))
  BY <1>1, <1>3, <1>5, <1>7, <1>8, <1>9, CPUTells
<1>11. Aim(r, was) = v
  BY <1>6, <1>9, AimOfRestart
<1> QED
  BY <1>5, <1>8, <1>9, <1>10, <1>11

LEMMA OutcomeTells ==
  ASSUME NEW e \in Ends2, NEW was \in Values, NEW r \in Requests, r.op \in {"set", "disable", "restart"},
         NEW t, t = Grouped(e, was), NEW o, o = Outcome(r, t), o.ok
  PROVE  /\ Tells(e, Lost(e, was), o.tree, Aim(r, was))
         /\ ~o.changed => Aim(r, was) = was
         /\ r.op = "set" => \A s \in Settings : r.key \in KeysOf(s) => s \notin Lost(e, was)
<1>1. PICK lost \in SUBSET {"dns"} : lost = Lost(e, was)
  BY DEF Lost
<1>2. Tells(e, lost, t, was) /\ t \in Trees
  BY <1>1, GroupedTells, GroupedType DEF Ends2
<1>3. CASE r.op = "set"
  <2>1. o = ApplySet(t, r.key, r.new)
    BY <1>3 DEF Outcome
  <2>2. PICK key, new, n : key = r.key /\ new = r.new /\ n = new.val
    OBVIOUS
  <2>3. key \in Paths /\ new \in Leaves /\ n \in Nat
    BY <2>2, RequestParts
  <2>4. IsSet(e, lost, t, was, key, new, o)
    BY <1>2, <2>1, <2>2, <2>3, SetTells
  <2>5. AfterSet(was, key, n) = Aim(r, was)
    BY <1>3, <2>2 DEF Aim, AfterSet
  <2> QED
    BY <1>1, <2>2, <2>4, <2>5 DEF IsSet
<1>4. CASE r.op = "disable"
  <2>1. o = SetK8sEnabled(t, FALSE)
    BY <1>4 DEF Outcome
  <2>2. PICK v : v = [was EXCEPT !["k8s"] = 0]
    OBVIOUS
  <2>3. Tells(e, lost, o.tree, v) /\ (~o.changed => was["k8s"] = 0)
    BY <1>2, <2>1, <2>2, K8sTells
  <2>4. was["k8s"] = 0 => v = was
    BY <2>2 DEF Values
  <2>5. Aim(r, was) = v
    BY <1>4, <2>2, AimOfDisable
  <2> QED
    BY <1>1, <1>4, <2>3, <2>4, <2>5
<1>5. CASE r.op = "restart"
  <2>1. o = RestartSettings(t, r)
    BY <1>5 DEF Outcome
  <2> QED
    BY <1>1, <1>2, <1>5, <2>1, RestartTells
<1> QED
  BY <1>3, <1>4, <1>5

-------------------------------------------------------------------------------
(***************************************************************************)
(* What an endpoint takes from the body that is made of such a tree.         *)
(***************************************************************************)

LEMMA KeyParts == Ends2 = {"backend", "native"} /\ {"value", "json", "locked"} \subseteq Keys
BY DEF Ends2, Keys

LEMMA DocumentGiven ==
  ASSUME NEW t, Spots(t), NEW s \in Settings, NEW leaf, leaf # Null, JsonAt(t, s, leaf), NEW to \in Ends2
  PROVE  Given(to, Bodies(t)[to], s) = leaf
<1>1. PICK u : u = SettingsForWrite(t, "V2")
  OBVIOUS
<1>2. PICK v : v = SettingsForWrite(u, "V1")
  OBVIOUS
<1>3. Bodies(t).backend = u /\ Bodies(t).native = v
  BY <1>1, <1>2, BodiesFacts
<1>4. Spots(u) /\ Spots(v)
  BY <1>1, <1>2, SentSpots
<1>5. PlainAt(u, s, leaf)
  BY <1>1, SentJson
<1>6. PlainAt(v, s, leaf)
  BY <1>2, <1>4, <1>5, SentPlain
<1> QED
  BY <1>3, <1>4, <1>5, <1>6, PlainIsGiven, KeyParts

LEMMA LostGiven ==
  ASSUME NEW t, Spots(t), NEW s \in Settings, LostAt(t, s), NEW to \in Ends2
  PROVE  Given(to, Bodies(t)[to], s) = Null
<1>1. PICK u : u = SettingsForWrite(t, "V2")
  OBVIOUS
<1>2. PICK v : v = SettingsForWrite(u, "V1")
  OBVIOUS
<1>3. Bodies(t).backend = u /\ Bodies(t).native = v
  BY <1>1, <1>2, BodiesFacts
<1>4. Spots(u) /\ Spots(v)
  BY <1>1, <1>2, SentSpots
<1>5. GoneAt(u, s)
  BY <1>1, SentLost
<1>6. GoneAt(v, s)
  BY <1>2, <1>4, <1>5, SentLost
<1> QED
  BY <1>3, <1>4, <1>5, <1>6, GoneIsNothing, KeyParts

LEMMA LockedGiven ==
  ASSUME NEW t, Spots(t), NEW s \in Settings, NEW leaf, leaf # Null, LockedAt(t, s, leaf), NEW to \in Ends2
  PROVE  Given(to, Bodies(t)[to], s) = leaf
<1>1. PICK u : u = SettingsForWrite(t, "V2")
  OBVIOUS
<1>2. PICK v : v = SettingsForWrite(u, "V1")
  OBVIOUS
<1>3. Bodies(t).backend = u /\ Bodies(t).native = v
  BY <1>1, <1>2, BodiesFacts
<1>4. Spots(u) /\ Spots(v)
  BY <1>1, <1>2, SentSpots
<1>5. LockedAt(u, s, leaf)
  BY <1>1, SentLocked
<1>6. Given("backend", u, s) = leaf
  BY <1>4, <1>5, HeldIsGiven DEF Holds, LockedAt
<1>7. PlainAt(v, s, leaf)
  <2>1. StandsFor(u, PathOf(s), "V1") = {"value"}
    BY <1>4, <1>5, LockedStands
  <2> QED
    BY <1>2, <1>4, <1>5, <2>1, SentInPlace, KeyParts DEF LockedAt, GroupAt
<1>8. Given("native", v, s) = leaf
  BY <1>4, <1>7, PlainIsGiven
<1> QED
  BY <1>3, <1>6, <1>8, KeyParts

\* Of a body that an endpoint can read it takes the settings that the tree tells.
LEMMA TellsIsGiven ==
  ASSUME NEW e \in Ends2, NEW lost, NEW t, NEW w \in Values, Tells(e, lost, t, w),
         NEW to \in Ends2, Readable(to, Bodies(t)[to]), NEW s \in Settings
  PROVE  /\ s \notin lost => Given(to, Bodies(t)[to], s) = Leaf0(s, w[s])
         /\ s \in lost => Given(to, Bodies(t)[to], s) = Null /\ w[s] = 0
<1>1. PICK leaf : leaf = Leaf0(s, w[s])
  OBVIOUS
<1>2. leaf # Null /\ Spots(t)
  BY <1>1, LeafFacts DEF Tells
<1>3. IF s \in lost THEN LostAt(t, s) /\ w[s] = 0 ELSE ShapeAt(e, t, s, leaf)
  BY <1>1 DEF Tells
<1>4. CASE s \in lost
  BY <1>2, <1>3, <1>4, LostGiven
<1>5. CASE s \notin lost /\ Document(e, s)
  <2>1. JsonAt(t, s, leaf)
    BY <1>3, <1>5 DEF ShapeAt
  <2> QED
    BY <1>1, <1>2, <1>5, <2>1, DocumentGiven
<1>6. CASE s \notin lost /\ ~Document(e, s)
  <2>1. Holds(t, s, leaf)
    BY <1>2, <1>3, <1>6 DEF ShapeAt, Holds
  <2> QED
    BY <1>1, <1>6, <2>1, HeldIsAccepted, KeyParts
<1> QED
  BY <1>4, <1>5, <1>6

\* The endpoint that has answered can read what is made of its answer.
LEMMA TellsIsReadable ==
  ASSUME NEW e \in Ends2, NEW lost, NEW t, NEW w \in Values, Tells(e, lost, t, w)
  PROVE  Readable(e, Bodies(t)[e])
<1> SUFFICES ASSUME NEW s \in Settings
             PROVE  Given(e, Bodies(t)[e], s).kind \in {KindOf(s), "null"}
  BY DEF Readable
<1>1. PICK leaf : leaf = Leaf0(s, w[s])
  OBVIOUS
<1>2. leaf # Null /\ leaf.kind = KindOf(s) /\ Spots(t) /\ Null.kind = "null"
  BY <1>1, LeafFacts DEF Tells, Null, Leaf
<1>3. IF s \in lost THEN LostAt(t, s) ELSE ShapeAt(e, t, s, leaf)
  BY <1>1 DEF Tells
<1>4. CASE s \in lost
  BY <1>2, <1>3, <1>4, LostGiven
<1>5. CASE s \notin lost /\ Document(e, s)
  <2>1. JsonAt(t, s, leaf)
    BY <1>3, <1>5 DEF ShapeAt
  <2> QED
    BY <1>2, <2>1, DocumentGiven
<1>6. CASE s \notin lost /\ ~Document(e, s) /\ e = "backend"
  <2>1. Holds(t, s, leaf)
    BY <1>2, <1>3, <1>6 DEF ShapeAt, Holds
  <2>2. PICK u : u = SettingsForWrite(t, "V2")
    OBVIOUS
  <2>3. Bodies(t)[e] = u
    BY <1>6, <2>2, BodiesFacts
  <2>4. Given("backend", u, s) = leaf
    BY <2>1, <2>2, HeldIsSent, HeldIsGiven
  <2> QED
    BY <1>2, <1>6, <2>3, <2>4
<1>7. CASE s \notin lost /\ ~Document(e, s) /\ e = "native"
  <2>1. LockedAt(t, s, leaf)
    BY <1>3, <1>7 DEF ShapeAt, Plain
  <2> QED
    BY <1>2, <2>1, LockedGiven
<1> QED
  BY <1>4, <1>5, <1>6, <1>7, KeyParts

\* What is stored of a body, where was was stored before.
Taken(to, b, was) ==
  [s \in Settings |-> IF Given(to, b, s) = Null THEN was[s] ELSE Given(to, b, s).val]

LEMMA TellsIsTaken ==
  ASSUME NEW e \in Ends2, NEW was \in Values, NEW t, NEW w \in Values, Tells(e, Lost(e, was), t, w),
         NEW to \in Ends2, NEW b, b = Bodies(t)[to], Readable(to, b)
  PROVE  Taken(to, b, was) = w
<1>1. PICK lost : lost = Lost(e, was)
  OBVIOUS
<1>2. ASSUME NEW s \in Settings
      PROVE  Taken(to, b, was)[s] = w[s]
  <2>1. CASE s \in lost
    <3>1. Given(to, b, s) = Null /\ w[s] = 0
      BY <1>1, <2>1, TellsIsGiven
    <3>2. was[s] = 0
      BY <1>1, <2>1 DEF Lost
    <3> QED
      BY <3>1, <3>2 DEF Taken
  <2>2. CASE s \notin lost
    <3>1. Given(to, b, s) = Leaf0(s, w[s])
      BY <1>1, <2>2, TellsIsGiven
    <3>2. PICK leaf : leaf = Leaf0(s, w[s])
      OBVIOUS
    <3>3. leaf # Null /\ leaf.val = w[s]
      BY <3>2, LeafFacts
    <3> QED
      BY <3>1, <3>2, <3>3 DEF Taken
  <2> QED
    BY <2>1, <2>2
<1>3. Taken(to, b, was) = [s \in Settings |-> Taken(to, b, was)[s]] /\ w = [s \in Settings |-> w[s]]
  BY DEF Taken, Values
<1> QED
  BY <1>2, <1>3

\* The settings that are shown are those that are stored.
LEMMA ShownIsStored ==
  ASSUME NEW e \in Ends2, NEW was \in Values, NEW s \in Settings
  PROVE  Given("backend", SettingsForWrite(Grouped(e, was), "V1"), s).val = was[s]
<1>1. PICK t, lost : t = Grouped(e, was) /\ lost = Lost(e, was)
  OBVIOUS
<1>2. PICK u : u = SettingsForWrite(t, "V1")
  OBVIOUS
<1>3. PICK leaf : leaf = Leaf0(s, was[s])
  OBVIOUS
<1>4. Tells(e, lost, t, was)
  BY <1>1, GroupedTells
<1>5. leaf # Null /\ leaf.val = was[s] /\ Spots(t) /\ Spots(u) /\ Null.val = 0
  BY <1>2, <1>3, <1>4, LeafFacts, SentSpots DEF Tells, Null, Leaf
<1>6. IF s \in lost THEN LostAt(t, s) /\ was[s] = 0 ELSE ShapeAt(e, t, s, leaf)
  BY <1>3, <1>4 DEF Tells
<1>7. CASE s \in lost
  <2>1. GoneAt(u, s)
    BY <1>2, <1>5, <1>6, <1>7, SentLost
  <2> QED
    BY <1>1, <1>2, <1>5, <1>6, <1>7, <2>1, GoneIsNothing
<1>8. ASSUME Holds(u, s, leaf)
      PROVE  Given("backend", u, s).val = was[s]
  BY <1>5, <1>8, HeldIsGiven
<1>9. CASE s \notin lost
  <2>1. JsonAt(t, s, leaf) => PlainAt(u, s, leaf)
    BY <1>2, <1>5, SentJson
  <2>2. PlainAt(t, s, leaf) => PlainAt(u, s, leaf)
    BY <1>2, <1>5, SentPlain
  <2>3. ASSUME GroupAt(t, s, leaf)
        PROVE  PlainAt(u, s, leaf) \/ GroupAt(u, s, leaf)
    <3>1. CASE StandsFor(t, PathOf(s), "V1") = {}
      BY <1>2, <1>5, <2>3, <3>1, SentGroup
    <3>2. CASE StandsFor(t, PathOf(s), "V1") = {"value"}
      BY <1>2, <1>5, <2>3, <3>2, SentInPlace, KeyParts DEF GroupAt
    <3> QED
      BY <1>5, <2>3, <3>1, <3>2, GroupStands
  <2>4. Holds(u, s, leaf)
    BY <1>5, <1>6, <1>9, <2>1, <2>2, <2>3 DEF ShapeAt, Holds
  <2> QED
    BY <1>1, <1>2, <1>8, <2>4
<1> QED
  BY <1>7, <1>9

-------------------------------------------------------------------------------
(***************************************************************************)
(* What a command asks of the settings, and that what it writes has it,       *)
(* whatever has become of the settings in the meantime.                     *)
(***************************************************************************)

Asks(r, w) ==
  /\ r.op = "set" => \A s \in Settings : r.key \in KeysOf(s) => w[s] = r.new.val
  /\ r.op = "disable" => w["k8s"] = 0
  /\ r.op = "restart" => (r.product = "docker-desktop" => w["k8s"] = 1) /\ r.cpus <= w["cpus"]

\* The settings that a command is about.
About(r, s) ==
  \/ r.op = "set" /\ r.key \in KeysOf(s)
  \/ r.op = "disable" /\ s = "k8s"
  \/ r.op = "restart" /\ (s = "cpus" \/ (s = "k8s" /\ r.product = "docker-desktop"))

\* An endpoint finds in the body what is asked for.
Delivers(r, e, b) ==
  Readable(e, b) =>
    \E w \in Values : Asks(r, w) /\ \A s \in Settings : About(r, s) => Given(e, b, s) # Null /\ Given(e, b, s).val = w[s]

LEMMA AskedIsExpected ==
  ASSUME NEW r \in Requests, NEW w \in Values, (r.op = "restart" /\ ~desktop.local) \/ Asks(r, w)
  PROVE  Expected(r, w) = w
<1>1. r.cpus \in Int /\ \A s \in Settings : w[s] \in Nat
  BY RequestsAssumption DEF Values
<1>2. ASSUME NEW s \in Settings
      PROVE  Expected(r, w)[s] = w[s]
  BY <1>1, <1>2 DEF Expected, Asks
<1>3. Expected(r, w) = [s \in Settings |-> Expected(r, w)[s]] /\ w = [s \in Settings |-> w[s]]
  BY DEF Expected, Values
<1> QED
  BY <1>2, <1>3

LEMMA DeliveredIsAsked ==
  ASSUME NEW r, NEW e, NEW b, Delivers(r, e, b), Readable(e, b)
  PROVE  Asks(r, Stored(e, b))
<1>1. {"k8s", "cpus"} \subseteq Settings
  BY DEF Settings
<1>2. PICK w \in Values : Asks(r, w) /\ \A s \in Settings : About(r, s) => Given(e, b, s) # Null /\ Given(e, b, s).val = w[s]
  BY DEF Delivers
<1>3. \A s \in Settings : About(r, s) => Stored(e, b)[s] = w[s]
  BY <1>2 DEF Stored
<1> QED
  BY <1>1, <1>2, <1>3 DEF Asks, About

LEMMA AimIsAsked ==
  ASSUME NEW r \in Requests, NEW was \in Values
  PROVE  Aim(r, was) \in Values /\ Asks(r, Aim(r, was))
<1>1. r.cpus \in Int /\ r.new.val \in Nat /\ "k8s" \in Settings /\ "cpus" \in Settings /\ \A s \in Settings : was[s] \in Nat
  BY RequestParts DEF Settings, Values
<1>2. ASSUME NEW s \in Settings
      PROVE  Aim(r, was)[s] \in Nat
  BY <1>1, <1>2 DEF Aim
<1>3. Aim(r, was) = [s \in Settings |-> Aim(r, was)[s]]
  BY DEF Aim
<1>4. Asks(r, Aim(r, was))
  BY <1>1 DEF Aim, Asks
<1> QED
  BY <1>2, <1>3, <1>4 DEF Values

\* Whatever a command finds, it has been asked for or is on its way.
LEMMA OutcomeDelivers ==
  ASSUME NEW e \in {"backend", "native"}, NEW stored \in Values, NEW r \in Requests,
         r.op \in {"set", "disable", "restart"},
         NEW t, t = Grouped(e, stored), NEW o, o = Outcome(r, t), o.ok
  PROVE  /\ ~o.changed => Asks(r, stored)
         /\ o.changed => \A to \in {"backend", "native"} : Delivers(r, to, Bodies(o.tree)[to])
<1>1. PICK w, lost : w = Aim(r, stored) /\ lost = Lost(e, stored)
  OBVIOUS
<1>2. w \in Values /\ Asks(r, w) /\ e \in Ends2 /\ lost \subseteq {"dns"}
  BY <1>1, AimIsAsked, KeyParts DEF Lost
<1>3. /\ Tells(e, lost, o.tree, w)
      /\ ~o.changed => w = stored
      /\ r.op = "set" => \A s \in Settings : r.key \in KeysOf(s) => s \notin lost
  BY <1>1, <1>2, OutcomeTells
<1>4. \A s \in Settings : About(r, s) => s \notin lost
  BY <1>2, <1>3 DEF About
<1>5. ASSUME NEW to \in Ends2, Readable(to, Bodies(o.tree)[to]), NEW s \in Settings, About(r, s)
      PROVE  Given(to, Bodies(o.tree)[to], s) # Null /\ Given(to, Bodies(o.tree)[to], s).val = w[s]
  <2>1. PICK leaf : leaf = Leaf0(s, w[s])
    OBVIOUS
  <2>2. Given(to, Bodies(o.tree)[to], s) = leaf
    BY <1>2, <1>3, <1>4, <1>5, <2>1, TellsIsGiven
  <2> QED
    BY <2>1, <2>2, LeafFacts
<1> QED
  BY <1>2, <1>3, <1>5, KeyParts DEF Delivers

-------------------------------------------------------------------------------
(***************************************************************************)
(* What ctlptl offers to set can be set, wherever the settings come from.     *)
(***************************************************************************)

\* The limits of the CPUs are there.
LimitAt(t, k, leaf) == Node(Part("cpus", k), leaf) \in t /\ \A n \in t : n.path = Part("cpus", k) => n.leaf = leaf

LEMMA GroupedLimits ==
  ASSUME NEW e \in Ends2, NEW was \in Values
  PROVE  /\ LimitAt(Grouped(e, was), "min", Leaf("number", 1))
         /\ LimitAt(Grouped(e, was), "max", Leaf("number", MaxCPUs))
<1>1. PICK t, min, max : t = Grouped(e, was) /\ min = Leaf("number", 1) /\ max = Leaf("number", MaxCPUs)
  OBVIOUS
<1>2. /\ {"k8s", "cpus", "share", "daemon", "dns"} \subseteq Settings
      /\ {"value", "locked", "locks", "json", "min", "max"} \subseteq Keys
  BY DEF Settings, Keys
<1>3. Node(Part("cpus", "min"), min) \in t /\ Node(Part("cpus", "max"), max) \in t
  BY <1>1, GroupedNodes, KeyParts
<1>4. ASSUME NEW n \in t
      PROVE  (n.path = Part("cpus", "min") => n.leaf = min) /\ (n.path = Part("cpus", "max") => n.leaf = max)
  <2>1. \/ n = Node(Part("cpus", "min"), min)
        \/ n = Node(Part("cpus", "max"), max)
        \/ \E r \in Settings, k \in Keys \ {"min", "max"} : \E l : n = Node(Part(r, k), l)
        \/ \E r \in Settings : \E l : n = Node(PathOf(r), l)
    BY <1>1, <1>2, GroupedNodes, KeyParts
  <2> QED
    BY <1>2, <2>1, NodeType, PartFacts
<1>5. LimitAt(t, "min", min) /\ LimitAt(t, "max", max)
  BY <1>3, <1>4 DEF LimitAt
<1> QED
  BY <1>1, <1>5

LEMMA SetIsPossible ==
  ASSUME NEW e \in Ends2, NEW was \in Values, NEW t, t = Grouped(e, was), NEW s \in {"k8s", "cpus", "share"},
         NEW key, key = PathOf(s), NEW new \in Leaves,
         s = "k8s" => new.kind = "bool", s = "cpus" => new.kind = "number" /\ new.val \in 1..MaxCPUs
  PROVE  ApplySet(t, key, new).ok
<1>1. PICK leaf : leaf = Leaf0(s, was[s])
  OBVIOUS
<1>2. s \in Settings /\ "value" \in Keys /\ s \notin Lost(e, was) /\ ~Document(e, s) /\ MaxCPUs \in Nat
  BY MaxCPUsAssumption DEF Settings, Keys, Lost, Document
<1>3. leaf.kind = KindOf(s) /\ leaf # Null
  BY <1>1, <1>2, LeafFacts
<1>4. Spots(t) /\ (PlainAt(t, s, leaf) \/ GroupAt(t, s, leaf))
  <2>1. Tells(e, Lost(e, was), t, was)
    BY GroupedTells
  <2> QED
    BY <1>1, <1>2, <2>1 DEF Tells, ShapeAt
<1>5. PICK q, old : q = ValueAt(t, s) /\ old = Get(t, q)
  OBVIOUS
<1>6. q = (IF LookupMapAt(t, key) THEN Append(key, "value") ELSE key) /\ old = leaf
  <2>1. q = (IF LookupMapAt(t, key) THEN Append(key, "value") ELSE key)
    BY <1>5 DEF ValueAt, Part
  <2>2. old = leaf
    BY <1>2, <1>4, <1>5, ValueFound
  <2> QED
    BY <2>1, <2>2
<1>7. Get(t, key) # Null
  <2>1. CASE PlainAt(t, s, leaf)
    BY <1>3, <2>1, GetSingle DEF PlainAt
  <2>2. CASE GroupAt(t, s, leaf)
    <3>1. \E n \in t : n.path = Part(s, "value")
      BY <2>2, NodeType DEF GroupAt
    <3>2. Get(t, key) = Leaf("map", 0)
      BY <1>2, <1>4, <2>2, <3>1, GetAtSpot DEF GroupAt
    <3> QED
      BY <3>2 DEF Leaf, Null
  <2> QED
    BY <1>4, <2>1, <2>2
<1>8. ~(Len(key) <= 1)
  <2>1. Len(PathOf(s)) \in {2, 3}
    BY <1>2, PathFacts
  <2> QED
    BY <2>1
<1>9. CASE s = "k8s"
  <2>1. old.kind = "bool"
    BY <1>3, <1>6, <1>9 DEF KindOf
  <2> QED
    BY <1>5, <1>6, <1>7, <1>8, <1>9, <2>1 DEF ApplySet, Unchanged, Changed
<1>10. CASE s = "cpus"
  <2>1. old.kind = "number"
    BY <1>3, <1>6, <1>10 DEF KindOf
  <2>2. Front(q) = key
    <3>1. ~PlainAt(t, s, leaf)
      <4>1. \E n \in t : n.path = Part(s, "min")
        BY <1>10, GroupedLimits, NodeType DEF LimitAt
      <4> QED
        BY <4>1 DEF PlainAt, Keys
    <3>2. q = Part(s, "value")
      BY <1>2, <1>4, <1>5, <3>1, ValueFound
    <3> QED
      BY <1>2, <3>2, PartShape
  <2>3. PICK max, min : max = Leaf("number", MaxCPUs) /\ min = Leaf("number", 1)
    OBVIOUS
  <2>4. Get(t, Append(key, "max")) = max /\ Get(t, Append(key, "min")) = min
    <3>1. LimitAt(t, "min", min) /\ LimitAt(t, "max", max)
      BY <2>3, GroupedLimits
    <3>2. Get(t, Part("cpus", "max")) = max /\ Get(t, Part("cpus", "min")) = min
      BY <3>1, GetSingle DEF LimitAt
    <3> QED
      BY <1>10, <3>2 DEF Part
  <2>5. max.val = MaxCPUs /\ min.val = 1
    BY <2>3 DEF Leaf
  <2>6. Within(t, Front(q), new.val)
    BY <1>2, <1>10, <2>2, <2>4, <2>5 DEF Within
  <2> QED
    BY <1>5, <1>6, <1>7, <1>8, <1>10, <2>1, <2>6 DEF ApplySet, Unchanged, Changed
<1>11. CASE s = "share"
  <2>1. old.kind = "list" /\ key = FileSharing
    BY <1>3, <1>6, <1>11 DEF KindOf, PathOf, FileSharing
  <2> QED
    BY <1>5, <1>6, <1>7, <1>8, <2>1 DEF ApplySet, Changed
<1> QED
  BY <1>9, <1>10, <1>11

LEMMA K8sIsPossible ==
  ASSUME NEW e \in Ends2, NEW was \in Values, NEW t, t = Grouped(e, was), NEW on \in BOOLEAN
  PROVE  SetK8sEnabled(t, on).ok
<1>1. PICK new \in Leaves : new = Leaf("bool", IF on THEN 1 ELSE 0)
  BY NodeType DEF Kinds
<1>2. new.kind = "bool"
  BY <1>1 DEF Leaf
<1>3. PICK key : key = PathOf("k8s")
  OBVIOUS
<1>4. ApplySet(t, key, new).ok
  BY <1>2, <1>3, SetIsPossible
<1> QED
  BY <1>1, <1>3, <1>4 DEF SetK8sEnabled, PathOf

LEMMA OutcomeTrees == \A t : Unchanged(t).tree = t /\ Changed(t).tree = t
BY DEF Unchanged, Changed

\* Kubernetes is turned on, and the limits of the CPUs stay.
LEMMA K8sKeepsLimit ==
  ASSUME NEW e \in Ends2, NEW was \in Values, NEW t, t = Grouped(e, was), NEW o, o = SetK8sEnabled(t, TRUE),
         NEW leaf, LimitAt(t, "max", leaf)
  PROVE  LimitAt(o.tree, "max", leaf)
<1>1. PICK key, q : key = PathOf("k8s") /\ q = IF LookupMapAt(t, key) THEN Append(key, "value") ELSE key
  OBVIOUS
<1>7. PICK new, put, u : new = Leaf("bool", 1) /\ put = Leaf(Get(t, q).kind, new.val) /\ u = Put(t, q, put)
  OBVIOUS
<1>2. o = ApplySet(t, key, new)
  BY <1>1, <1>7 DEF SetK8sEnabled, PathOf
<1>3. key # FileSharing /\ {"k8s", "cpus", "share"} \subseteq Settings /\ {"value", "max"} \subseteq Keys
  <2>1. PathOf("share") = FileSharing /\ {"k8s", "cpus", "share"} \subseteq Settings
    BY DEF PathOf, FileSharing, Settings
  <2> QED
    BY <1>1, <2>1, PartFacts DEF Keys
<1>4. o.ok /\ (o = Unchanged(t) \/ o = Changed(u))
  <2>1. o.ok
    BY K8sIsPossible
  <2>2. \A path : path = q => o = (
            IF Len(key) <= 1 \/ Get(t, key) = Null THEN Error
            ELSE IF Get(t, path).kind \in {"bool", "number", "text"}
              THEN IF \/ Get(t, path).kind # "text" /\ Get(t, path).kind # new.kind
                      \/ Get(t, path).kind = "number" /\ ~Within(t, Front(path), new.val) THEN Error
                   ELSE IF new.val = Get(t, path).val THEN Unchanged(t)
                   ELSE Changed(Put(t, path, Leaf(Get(t, path).kind, new.val)))
              ELSE Error)
    BY <1>1, <1>2, <1>3 DEF ApplySet
  <2>3. ~Error.ok
    BY DEF Error
  <2> QED
    BY <1>7, <2>1, <2>2, <2>3
<1>5. CASE o = Unchanged(t)
  <2>1. o.tree = t
    BY <1>5, OutcomeTrees
  <2> QED
    BY <2>1
<1>6. CASE o = Changed(u)
  <2>1. q # Part("cpus", "max")
    BY <1>1, <1>3, PartFacts DEF Part
  <2>2. PICK m : m = Node(q, put)
    OBVIOUS
  <2>3. m.path = q /\ \A n : n \in u <=> (n \in t /\ n.path # q) \/ n = m
    BY <1>7, <2>2, NodeType DEF Put
  <2>4. Node(Part("cpus", "max"), leaf).path = Part("cpus", "max")
    BY NodeType
  <2>5. LimitAt(u, "max", leaf)
    BY <2>1, <2>3, <2>4 DEF LimitAt
  <2>6. o.tree = u
    BY <1>6, OutcomeTrees
  <2> QED
    BY <2>5, <2>6
<1> QED
  BY <1>4, <1>5, <1>6

LEMMA RestartIsPossible ==
  ASSUME NEW e \in Ends2, NEW was \in Values, NEW t, t = Grouped(e, was), NEW r \in Requests, r.cpus <= MaxCPUs
  PROVE  RestartSettings(t, r).ok
<1>1. PICK k8s, w : /\ k8s = IF r.product = "docker-desktop" THEN SetK8sEnabled(t, TRUE) ELSE Unchanged(t)
                    /\ w = IF r.product = "docker-desktop" THEN [was EXCEPT !["k8s"] = 1] ELSE was
  OBVIOUS
<1>2. PICK lost \in SUBSET {"dns"} : lost = Lost(e, was)
  BY DEF Lost
<1>3. Tells(e, lost, t, was) /\ w \in Values /\ r.cpus \in Int /\ MaxCPUs \in Nat
  BY <1>1, <1>2, GroupedTells, RequestParts, MaxCPUsAssumption DEF Values
<1>4. PICK max : max = Leaf("number", MaxCPUs)
  OBVIOUS
<1>5. k8s.ok /\ Tells(e, lost, k8s.tree, w) /\ LimitAt(k8s.tree, "max", max)
  <2>1. LimitAt(t, "max", max)
    BY <1>4, GroupedLimits
  <2>2. CASE r.product = "docker-desktop"
    <3>1. k8s = SetK8sEnabled(t, TRUE) /\ w = [was EXCEPT !["k8s"] = 1]
      BY <1>1, <2>2
    <3>2. k8s.ok
      BY <3>1, K8sIsPossible
    <3>3. LimitAt(k8s.tree, "max", max)
      BY <2>1, <3>1, K8sKeepsLimit
    <3>4. Tells(e, lost, k8s.tree, w)
      BY <1>3, <3>1, <3>2, K8sTells
    <3> QED
      BY <3>2, <3>3, <3>4
  <2>3. CASE r.product # "docker-desktop"
    BY <1>1, <1>3, <2>1, <2>3 DEF Unchanged
  <2> QED
    BY <2>2, <2>3
<1>6. PICK u, cpu, leaf : u = k8s.tree /\ cpu = EnsureMinCPU(u, r.cpus) /\ leaf = Leaf0("cpus", w["cpus"])
  OBVIOUS
<1>7. "cpus" \in Settings \ lost /\ ~Plain(e, "cpus") /\ ~Document(e, "cpus") /\ KindOf("cpus") = "number"
  BY DEF Settings, Plain, Document, KindOf
<1>8. GroupAt(u, "cpus", leaf) /\ leaf.kind = "number"
  BY <1>5, <1>6, <1>7, LeafFacts DEF Tells, ShapeAt
<1>9. CPUs("value") = Part("cpus", "value") /\ CPUs("max") = Part("cpus", "max")
  BY CPUPaths DEF Part
<1>10. Get(u, CPUs("value")) = leaf /\ Get(u, CPUs("max")) = max
  BY <1>5, <1>6, <1>8, <1>9, GetSingle DEF GroupAt, LimitAt
<1>11. max.kind = "number" /\ max.val = MaxCPUs
  BY <1>4 DEF Leaf
<1>12. cpu.ok
  BY <1>3, <1>6, <1>8, <1>10, <1>11 DEF EnsureMinCPU, Unchanged, Changed
<1>13. cpu \in Outcomes
  <2>1. t \in Trees
    BY GroupedType, KeyParts
  <2>2. k8s \in Outcomes
    BY <1>1, <2>1, RestartType, OutcomeShapes
  <2> QED
    BY <1>3, <1>6, <2>2, RestartType DEF Outcomes
<1>14. RestartSettings(t, r) = [cpu EXCEPT !.changed = cpu.changed \/ k8s.changed]
  BY <1>1, <1>5, <1>6, <1>12 DEF RestartSettings
<1> QED
  BY <1>12, <1>13, <1>14 DEF Outcomes

\* Nothing that can be set fails for what it finds.
LEMMA SettableIsPossible ==
  ASSUME NEW e \in Ends2, NEW was \in Values, NEW r \in Requests, r.op \in {"set", "disable", "restart"},
         Settable(r), r.op = "restart" => ~(r.cpus > MaxCPUs)
  PROVE  Outcome(r, Grouped(e, was)).ok
<1>1. PICK t : t = Grouped(e, was)
  OBVIOUS
<1>2. CASE r.op = "set"
  <2>5. PICK key : key = r.key
    OBVIOUS
  <2>1. PICK new \in Leaves : new = r.new
    BY RequestParts
  <2>2. PICK s \in {"k8s", "cpus", "share"} : key = PathOf(s)
    BY <1>2, <2>5 DEF Settable
  <2>3. (s = "k8s" => new.kind = "bool") /\ (s = "cpus" => new.kind = "number" /\ new.val \in 1..MaxCPUs)
    BY <1>2, <2>1, <2>2, <2>5 DEF Settable
  <2>4. ApplySet(t, key, new).ok
    BY <1>1, <2>2, <2>3, SetIsPossible
  <2> QED
    BY <1>1, <1>2, <2>1, <2>4, <2>5 DEF Outcome
<1>3. CASE r.op = "disable"
  <2>1. SetK8sEnabled(t, FALSE).ok
    BY <1>1, K8sIsPossible
  <2> QED
    BY <1>1, <1>3, <2>1 DEF Outcome
<1>4. CASE r.op = "restart"
  <2>1. r.cpus <= MaxCPUs
    BY <1>4, RequestParts, MaxCPUsAssumption
  <2>2. RestartSettings(t, r).ok
    BY <1>1, <2>1, RestartIsPossible
  <2> QED
    BY <1>1, <1>4, <2>2 DEF Outcome
<1> QED
  BY <1>2, <1>3, <1>4
-------------------------------------------------------------------------------
(***************************************************************************)
(* One of the settings that were set survives. Of the commands whose settings *)
(* Docker Desktop has accepted, the last one has them as it asked for; that   *)
(* what is written then is what it asked for is part of the invariant.       *)
(***************************************************************************)

Accepted(p) == Sets(req[p]) /\ at[p] \in {"sleep", "poll", "done", "timedout"}

Content(p) == (req[p].op = "restart" /\ ~desktop.local) \/ Asks(req[p], desktop.settings)

Ready(p) ==
  /\ at[p] \in {"reset", "ping", "open", "boot", "quit"} => ~Sets(req[p])
  /\ at[p] = "write" => /\ Sets(req[p])
                        /\ \A e \in {"backend", "native"} : Delivers(req[p], e, mem[p].bodies[e])

OneIsContent ==
  calm /\ (\E p \in Procs : Accepted(p)) => \E p \in Procs : Accepted(p) /\ Content(p)

SurvivalInv == TypeInv /\ (\A p \in Procs : Ready(p)) /\ OneIsContent

LEMMA Frame ==
  ASSUME TypeInv, NEW p \in Procs, Step(p) \/ Fault(p)
  PROVE  req' = req /\ \A q \in Procs \ {p} : at'[q] = at[q] /\ mem'[q] = mem[q]
<1>1. req' = req
  BY ActorType
<1>2. \A q \in Procs \ {p} : at'[q] = at[q]
  BY StepLeads DEF Leads
<1> DEFINE still == \A q \in Procs \ {p} : mem'[q] = mem[q]
<1>3. mem \in [Procs -> Mems]
  BY DEF TypeInv, CallsOK
<1>4. \A result, said : Finish(p, result, said) => still
  BY <1>3 DEF Finish
<1>5. \A result : Return(p, result) => still
  BY <1>4 DEF Return
<1>6. \A place, b : Proceed(p, place, b) => still
  BY <1>3 DEF Proceed
<1>7. \A error, result : TryNext(p, error, result) => still
  BY <1>3, <1>4 DEF TryNext
<1>8. UNCHANGED mem => still
  BY <1>3
<1>9. mem' = [mem EXCEPT ![p].was = desktop.settings] => still
  BY <1>3
<1> HIDE DEF still
<1>10. still
  BY <1>4, <1>5, <1>6, <1>7, <1>8, <1>9
     DEF Step, Fault, Begin, Read, Write, ResetCluster, Sleep, Poll, TimeOut, Ping, Open, Quit, RequestFails, Die, WakeEarly
<1> QED
  BY <1>1, <1>2, <1>10 DEF still

\* Where a request has failed, the rest is to be tried with the same bodies.
LEMMA TryNextKeeps ==
  ASSUME TypeInv, NEW p \in Procs, NEW error, NEW result, TryNext(p, error, result)
  PROVE  (at' = at /\ mem'[p].bodies = mem[p].bodies) \/ Goto(p, result)
<1>1. PICK m \in Mems : m = mem[p]
  BY DEF TypeInv, CallsOK
<1>2. m \in Records
  BY DEF Mems
<1>3. PICK l, errors : l = Tail(m.left) /\ errors = Append(m.errors, error)
  OBVIOUS
<1>4. PICK n : n = [m EXCEPT !.left = l, !.errors = errors]
  OBVIOUS
<1>5. n.bodies = m.bodies
  BY <1>2, <1>4 DEF Records
<1>6. CASE Len(m.left) > 1
  <2>1. mem' = [mem EXCEPT ![p] = n] /\ at' = at
    BY <1>1, <1>3, <1>4, <1>6 DEF TryNext, TypeInv, CallsOK
  <2> QED
    BY <1>1, <1>5, <2>1 DEF TypeInv, CallsOK
<1>7. CASE ~(Len(m.left) > 1)
  BY <1>1, <1>7 DEF TryNext, Finish
<1> QED
  BY <1>6, <1>7

LEMMA ReadyAfterRequest ==
  ASSUME TypeInv, NEW p \in Procs, Ready(p), req' = req, NEW error, NEW result \in Over, TryNext(p, error, result)
  PROVE  Ready(p)' /\ at'[p] \in {at[p], result}
<1>1. result \notin {"reset", "ping", "open", "boot", "quit", "write"}
  BY DEF Over
<1>2. CASE at' = at /\ mem'[p].bodies = mem[p].bodies
  BY <1>2 DEF Ready
<1>3. CASE Goto(p, result)
  BY <1>1, <1>3, Whereabouts DEF Ready
<1> QED
  BY <1>2, <1>3, TryNextKeeps

LEMMA ReadyAfterBegin ==
  ASSUME TypeInv, NEW p \in Procs, Begin(p)
  PROVE  Ready(p)'
<1>1. req' = req /\ req[p].op \in Ops
  BY RequestsAssumption DEF Begin, TypeInv
<1>2. ASSUME Return(p, "failed") \/ Return(p, "done")
      PROVE  Ready(p)'
  BY <1>2, Whereabouts DEF Ready
<1>3. ASSUME NEW place, place = CASE req[p].op \in {"create", "reset"} -> "reset"
                                  [] req[p].op = "ensure" -> "ping"
                                  [] req[p].op \in {"open", "quit"} -> req[p].op
                                  [] OTHER -> "read",
             Goto(p, place)
      PROVE  Ready(p)'
  <2>1. at'[p] = place
    BY <1>3, Whereabouts
  <2>2. place # "write" /\ (place \in {"reset", "ping", "open", "boot", "quit"} => ~Sets(req[p]))
    BY <1>1, <1>3 DEF Ops, Sets
  <2> QED
    BY <1>1, <2>1, <2>2 DEF Ready
<1> QED
  BY <1>2, <1>3 DEF Begin, Wanted

LEMMA ReadyAfterRead ==
  ASSUME TypeInv, NEW p \in Procs, Ready(p), Read(p)
  PROVE  /\ Ready(p)'
         /\ at'[p] = "done" => ~Sets(req[p]) \/ Asks(req[p], desktop.settings)
<1>1. req' = req /\ at[p] = "read" /\ req[p].op \in {"show", "set", "disable", "restart"} /\ req[p] \in Requests
  BY DEF Read, TypeInv, ReadsOK
<1>2. PICK e \in {"backend", "native"} : e = Head(mem[p].left)
  BY FirstLeft
<1>3. desktop.settings \in Values
  BY DEF TypeInv, Desktops
<1>4. CASE TryNext(p, NoConnection, "failed")
  BY <1>1, <1>4, ReadyAfterRequest DEF Over
<1>5. CASE req[p].op = "show" /\ \E said : Finish(p, "done", said)
  BY <1>1, <1>5, Whereabouts DEF Ready, Sets
<1>6. ASSUME NEW t, t = Grouped(e, desktop.settings), req[p].op # "show", NEW o, o = Outcome(req[p], t),
             \/ ~o.ok /\ Return(p, "failed")
             \/ o.ok /\ ~o.changed /\ Return(p, "done")
             \/ o.ok /\ o.changed /\ Proceed(p, "write", Bodies(o.tree))
      PROVE  /\ Ready(p)'
             /\ at'[p] = "done" => Asks(req[p], desktop.settings)
  <2>1. Sets(req[p])
    BY <1>1, <1>6 DEF Sets
  <2>2. CASE ~o.ok /\ Return(p, "failed")
    BY <2>2, Whereabouts DEF Ready
  <2>3. CASE o.ok /\ ~o.changed /\ Return(p, "done")
    <3>1. Asks(req[p], desktop.settings)
      BY <1>1, <1>3, <1>6, <2>3, OutcomeDelivers
    <3> QED
      BY <2>3, <3>1, Whereabouts DEF Ready
  <2>4. CASE o.ok /\ o.changed /\ Proceed(p, "write", Bodies(o.tree))
    <3>1. \A to \in {"backend", "native"} : Delivers(req[p], to, Bodies(o.tree)[to])
      BY <1>1, <1>3, <1>6, <2>4, OutcomeDelivers
    <3>2. at'[p] = "write"
      BY <2>4, Whereabouts
    <3>3. mem'[p].bodies = Bodies(o.tree)
      <4>1. PICK m, b : m \in Mems /\ m = mem[p] /\ b = Bodies(o.tree)
        BY DEF TypeInv, CallsOK
      <4>2. PICK n : n = [m EXCEPT !.bodies = b, !.left = Endpoints, !.errors = <<>>]
        OBVIOUS
      <4>3. mem' = [mem EXCEPT ![p] = n]
        BY <2>4, <4>1, <4>2 DEF Proceed, TypeInv, CallsOK
      <4>4. n.bodies = b
        BY <4>2 DEF Mems, Records
      <4> QED
        BY <4>1, <4>3, <4>4 DEF TypeInv, CallsOK
    <3> QED
      BY <1>1, <2>1, <3>1, <3>2, <3>3 DEF Ready
  <2> QED
    BY <1>6, <2>2, <2>3, <2>4
<1> QED
  BY <1>2, <1>4, <1>5, <1>6 DEF Read, Wanted

LEMMA BeginIsContent ==
  ASSUME TypeInv, NEW p \in Procs, Begin(p)
  PROVE  Accepted(p)' => Content(p)'
<1>1. req' = req /\ desktop' = desktop /\ req[p].op \in Ops
  BY RequestsAssumption DEF Begin, TypeInv
<1>2. Return(p, "failed") => ~Accepted(p)'
  BY Whereabouts DEF Accepted
<1>3. ASSUME NEW place, place = CASE req[p].op \in {"create", "reset"} -> "reset"
                                  [] req[p].op = "ensure" -> "ping"
                                  [] req[p].op \in {"open", "quit"} -> req[p].op
                                  [] OTHER -> "read",
             Goto(p, place)
      PROVE  ~Accepted(p)'
  <2>1. place \notin {"sleep", "poll", "done", "timedout"}
    BY <1>1, <1>3 DEF Ops
  <2> QED
    BY <1>3, <2>1, Whereabouts DEF Accepted
<1> QED
  BY <1>1, <1>2, <1>3 DEF Begin, Wanted, Content

\* A write that is accepted has what was asked for; nothing else changes a setting.
LEMMA AcceptedIsContent ==
  ASSUME TypeInv, NEW p \in Procs, Ready(p), at[p] = "write", NEW e \in {"backend", "native"},
         Readable(e, mem[p].bodies[e]), Accept(p, e), req' = req
  PROVE  Content(p)'
<1>1. PICK b : b = mem[p].bodies[e]
  OBVIOUS
<1>2. Asks(req[p], Stored(e, b))
  BY <1>1, DeliveredIsAsked DEF Ready
<1>3. desktop'.settings = Stored(e, b)
  BY <1>1 DEF Accept, TypeInv, Desktops
<1> QED
  BY <1>2, <1>3 DEF Content

Kept == desktop'.settings = desktop.settings /\ desktop'.local = desktop.local

LEMMA StepKeeps ==
  ASSUME TypeInv, NEW p \in Procs, Ready(p), Step(p)
  PROVE  /\ Ready(p)'
         /\ \/ Accepted(p)' /\ Content(p)'
            \/ Kept /\ (Accepted(p)' <=> Accepted(p))
<1>1. req' = req
  BY Frame
<1>2. desktop' = desktop => Kept
  BY DEF Kept
<1>3. CASE Begin(p)
  <2>1. Kept /\ ~Accepted(p)
    BY <1>3 DEF Begin, Kept, Accepted
  <2> QED
    BY <1>3, <2>1, ReadyAfterBegin, BeginIsContent
<1>4. CASE Read(p)
  <2>1. Kept /\ ~Accepted(p) /\ desktop' = desktop
    BY <1>4 DEF Read, Kept, Accepted
  <2>2. Ready(p)' /\ (at'[p] = "done" => ~Sets(req[p]) \/ Asks(req[p], desktop.settings))
    BY <1>4, ReadyAfterRead
  <2>3. at'[p] \notin {"sleep", "poll", "timedout"}
    <3>1. at[p] = "read" /\ \/ \E place \in {"failed", "done", "write"} : Goto(p, place)
                            \/ at' = at
      BY <1>4, Whereabouts DEF Read
    <3> QED
      BY <3>1, Whereabouts
  <2> QED
    BY <1>1, <2>1, <2>2, <2>3 DEF Accepted, Content
<1>5. CASE Write(p)
  <2>1. at[p] = "write" /\ ~Accepted(p)
    BY <1>5 DEF Write, Accepted
  <2>2. PICK e \in {"backend", "native"} : e = Head(mem[p].left)
    BY FirstLeft
  <2>3. CASE Readable(e, mem[p].bodies[e]) /\ Accept(p, e) /\ (Proceed(p, "sleep", NoBodies) \/ Return(p, "done"))
    <3>1. at'[p] \in {"sleep", "done"}
      BY <2>3, Whereabouts
    <3>2. Ready(p)'
      BY <3>1 DEF Ready
    <3>3. Accepted(p)'
      BY <1>1, <2>1, <3>1 DEF Ready, Accepted
    <3> QED
      BY <1>1, <2>1, <2>3, <3>2, <3>3, AcceptedIsContent
  <2>4. CASE desktop' = desktop /\ \E error \in Errors : TryNext(p, error, "failed")
    <3>1. Ready(p)' /\ at'[p] \in {"write", "failed"}
      BY <1>1, <2>1, <2>4, ReadyAfterRequest DEF Over
    <3> QED
      BY <1>2, <2>1, <2>4, <3>1 DEF Accepted
  <2>5. BadRequest \in Errors /\ NoConnection \in Errors
    BY DEF Errors
  <2> QED
    BY <1>5, <2>2, <2>3, <2>4, <2>5 DEF Write
<1>6. CASE ResetCluster(p)
  <2>1. Kept /\ at[p] = "reset" /\ ~Sets(req[p])
    BY <1>6 DEF ResetCluster, Kept, Ready, TypeInv, Desktops
  <2>2. Ready(p)'
    <3>1. TryNext(p, NoConnection, "failed") => Ready(p)'
      BY <1>1, ReadyAfterRequest DEF Over
    <3>2. Return(p, "done") => Ready(p)'
      BY Whereabouts DEF Ready
    <3> QED
      BY <1>6, <3>1, <3>2 DEF ResetCluster
  <2> QED
    BY <1>1, <2>1, <2>2 DEF Accepted
<1>7. CASE Sleep(p)
  <2>1. Kept /\ at[p] = "sleep" /\ at'[p] = "poll"
    BY <1>2, <1>7, Whereabouts DEF Sleep
  <2> QED
    BY <1>1, <2>1 DEF Accepted, Ready
<1>8. CASE Poll(p) \/ TimeOut(p)
  <2>1. Kept /\ at[p] \in {"poll", "boot"} /\ at'[p] \in {"done", "timedout"}
    BY <1>2, <1>8, Whereabouts DEF Poll, TimeOut
  <2> QED
    BY <1>1, <2>1 DEF Accepted, Ready
<1>9. CASE Ping(p) \/ Open(p) \/ Quit(p)
  <2>1. Kept /\ at[p] \in {"ping", "open", "quit"}
    BY <1>9 DEF Ping, Open, Quit, Kept, TypeInv, Desktops
  <2>2. at'[p] \in {"done", "failed", "open", "boot"}
    BY <1>9, Whereabouts DEF Ping, Open, Quit
  <2> QED
    BY <1>1, <2>1, <2>2 DEF Accepted, Ready
<1> QED
  BY <1>3, <1>4, <1>5, <1>6, <1>7, <1>8, <1>9 DEF Step

LEMMA FaultKeeps ==
  ASSUME TypeInv, NEW p \in Procs, Ready(p), Fault(p)
  PROVE  Ready(p)' /\ calm' = FALSE
<1>1. req' = req /\ calm' = FALSE
  BY Frame DEF Fault
<1>2. CASE RequestFails(p)
  <2>1. PICK error : TryNext(p, error, "broken")
    BY <1>2 DEF RequestFails
  <2> QED
    BY <1>1, <2>1, ReadyAfterRequest DEF Over
<1>3. CASE Die(p) \/ WakeEarly(p)
  <2>1. at'[p] \in {"broken", "poll"}
    BY <1>3, Whereabouts DEF Die, WakeEarly
  <2> QED
    BY <1>1, <2>1 DEF Ready
<1> QED
  BY <1>1, <1>2, <1>3 DEF Fault

LEMMA SurvivalInit == Init => SurvivalInv
BY InitType DEF Init, SurvivalInv, Ready, OneIsContent, Accepted

LEMMA SurvivalNext == SurvivalInv /\ [Next]_vars => SurvivalInv'
<1> SUFFICES ASSUME SurvivalInv, [Next]_vars
             PROVE  (\A p \in Procs : Ready(p)') /\ OneIsContent'
  BY NextType DEF SurvivalInv
<1>1. TypeInv /\ (\A p \in Procs : Ready(p)) /\ OneIsContent
  BY DEF SurvivalInv
<1>2. ASSUME UNCHANGED <<req, at, mem, calm>>, Kept
      PROVE  (\A p \in Procs : Ready(p)') /\ OneIsContent'
  BY <1>1, <1>2 DEF Ready, OneIsContent, Accepted, Content, Kept
<1>3. CASE UNCHANGED vars
  BY <1>2, <1>3 DEF vars, Kept
<1>4. CASE EngineStops \/ EngineStarts
  <2>1. Kept
    BY <1>1, <1>4 DEF EngineStops, EngineStarts, Kept, TypeInv, Desktops
  <2> QED
    BY <1>2, <1>4, <2>1 DEF EngineStops, EngineStarts
<1>5. ASSUME NEW p \in Procs, Step(p) \/ Fault(p)
      PROVE  \A q \in Procs : Ready(q)'
  <2>1. Ready(p)'
    BY <1>1, <1>5, StepKeeps, FaultKeeps
  <2>2. ASSUME NEW q \in Procs \ {p}
        PROVE  Ready(q)'
    <3>1. req' = req /\ at'[q] = at[q] /\ mem'[q] = mem[q]
      BY <1>1, <1>5, Frame
    <3> QED
      BY <1>1, <3>1 DEF Ready
  <2> QED
    BY <2>1, <2>2
<1>6. ASSUME NEW p \in Procs, Fault(p)
      PROVE  OneIsContent'
  BY <1>1, <1>6, FaultKeeps DEF OneIsContent
<1>7. ASSUME NEW p \in Procs, Step(p)
      PROVE  OneIsContent'
  <2>1. SUFFICES ASSUME calm', NEW q \in Procs, Accepted(q)'
                 PROVE  \E o \in Procs : Accepted(o)' /\ Content(o)'
    BY DEF OneIsContent
  <2>2. calm
    BY <1>7, <2>1 DEF Step
  <2>3. \A o \in Procs \ {p} : Accepted(o)' <=> Accepted(o)
    BY <1>1, <1>7, Frame DEF Accepted
  <2>4. \/ Accepted(p)' /\ Content(p)'
        \/ Kept /\ (Accepted(p)' <=> Accepted(p))
    BY <1>1, <1>7, StepKeeps
  <2>5. CASE Accepted(p)' /\ Content(p)'
    BY <2>5
  <2>6. CASE Kept /\ (Accepted(p)' <=> Accepted(p))
    <3>1. Accepted(q)
      BY <2>1, <2>3, <2>6
    <3>2. PICK o \in Procs : Accepted(o) /\ Content(o)
      BY <1>1, <2>2, <3>1 DEF OneIsContent
    <3>3. Accepted(o)'
      BY <2>3, <2>6, <3>2
    <3>4. Content(o)'
      BY <1>1, <1>7, <2>6, <3>2, Frame DEF Content, Kept
    <3> QED
      BY <3>3, <3>4
  <2> QED
    BY <2>4, <2>5, <2>6
<1> QED
  BY <1>3, <1>4, <1>5, <1>6, <1>7 DEF Next, Act

LEMMA SurvivalAlways == Spec => []SurvivalInv
BY SurvivalInit, SurvivalNext, PTL DEF Spec

LEMMA SurvivalIsEnough == SurvivalInv => SomeSetSurvives
<1> SUFFICES ASSUME SurvivalInv
             PROVE  SomeSetSurvives
  OBVIOUS
<1> DEFINE writers == {p \in Procs : Sets(Wanted(p)) /\ at[p] \in {"done", "timedout"}}
<1>1. SUFFICES ASSUME calm, \A p \in Procs : at[p] \in Over, writers # {}
               PROVE  \E p \in writers : Expected(Wanted(p), desktop.settings) = desktop.settings
  BY DEF SomeSetSurvives
<1>2. PICK p \in Procs : Accepted(p) /\ Content(p)
  BY <1>1 DEF SurvivalInv, OneIsContent, Accepted, Wanted
<1>3. p \in writers
  BY <1>1, <1>2 DEF Accepted, Over, Wanted
<1>4. req[p] \in Requests /\ desktop.settings \in Values
  BY DEF SurvivalInv, TypeInv, Desktops
<1>5. Expected(Wanted(p), desktop.settings) = desktop.settings
  BY <1>2, <1>4, AskedIsExpected DEF Content, Wanted
<1> QED
  BY <1>3, <1>5

(***************************************************************************)
(* Of commands that write their settings at once not all are undone: when    *)
(* every one is through and no request failed, one of those that reported    *)
(* success, or waited for Docker in vain, has what it asked for.             *)
(***************************************************************************)
THEOREM SomeSetSurvivesAlways == Spec => []SomeSetSurvives
<1>1. SurvivalInv => SomeSetSurvives
  BY SurvivalIsEnough
<1> QED
  BY <1>1, SurvivalAlways, PTL

-------------------------------------------------------------------------------
(***************************************************************************)
(* A command by itself does what it is asked. It finds the settings as they   *)
(* were at its start until its own write; what it is about to write is       *)
(* what was asked for, for every endpoint that can read it, and the one that *)
(* will be asked for it can.                                               *)
(***************************************************************************)

\* What takes a command where it is.
ErrandsAt(place) ==
  {op \in Ops : /\ place = "read" => op \in {"show", "set", "disable", "restart"}
                /\ place = "write" => op \in {"set", "disable", "restart"}
                /\ place \in {"sleep", "poll"} => op = "restart"
                /\ place = "reset" => op \in {"create", "reset"}
                /\ place \in {"ping", "boot"} => op = "ensure"
                /\ place = "open" => op \in {"open", "ensure"}
                /\ place = "quit" => op = "quit"}

OnErrand(p) == req[p].op \in ErrandsAt(at[p]) /\ (at[p] = "idle" => mem[p].left = Endpoints)

Prepared(p) ==
  /\ \A to \in Ends2 : Readable(to, mem[p].bodies[to]) =>
       Taken(to, mem[p].bodies[to], mem[p].was) = Aim(req[p], mem[p].was)
  /\ \E e \in Ends2 : Answers(e) /\ Readable(e, mem[p].bodies[e]) /\ (e = "native" => ~Answers("backend"))

Settled(p) ==
  /\ desktop.settings = IF at[p] \in {"sleep", "poll"} THEN Aim(req[p], mem[p].was) ELSE mem[p].was
  /\ req[p].op = "restart" => desktop.local
  /\ mem[p].left = OldOne => ~Answers("backend")
  /\ at[p] = "write" => Prepared(p)

AloneInv == TypeInv /\ \A p \in Procs : OnErrand(p) /\ (alone[p] /\ at[p] \in InFlight => Settled(p))

\* What is to be shown of a command that comes to its end.
DoneRight(p) ==
  /\ desktop'.settings = Aim(req[p], mem[p].was)
  /\ req[p].op = "restart" => desktop.local
  /\ req[p].op = "show" => \A s \in Settings : Given("backend", answer'[p].tree, s).val = desktop.settings[s]

FailedRight(p) ==
  \/ at[p] = "read" /\ (~Settable(req[p]) \/ (req[p].op = "restart" /\ req[p].cpus > MaxCPUs))
  \/ IF req[p].op \in {"open", "quit", "ensure"}
       THEN ~desktop.starts \/ ~desktop.local
       ELSE ~desktop.open \/ desktop.serves = {}

Right(p) ==
  /\ at'[p] \in InFlight => Settled(p)'
  /\ at'[p] = "done" => DoneRight(p)
  /\ at'[p] = "failed" => FailedRight(p)

LEMMA AfterProceed ==
  ASSUME TypeInv, NEW p \in Procs, NEW place, NEW b, Proceed(p, place, b)
  PROVE  /\ at'[p] = place /\ mem'[p].bodies = b /\ mem'[p].left = Endpoints /\ mem'[p].was = mem[p].was
<1>1. PICK m \in Mems : m = mem[p]
  BY DEF TypeInv, CallsOK
<1>2. PICK n : n = [m EXCEPT !.bodies = b, !.left = Endpoints, !.errors = <<>>]
  OBVIOUS
<1>3. mem' = [mem EXCEPT ![p] = n]
  BY <1>1, <1>2 DEF Proceed, TypeInv, CallsOK
<1>4. n.bodies = b /\ n.left = Endpoints /\ n.was = m.was
  BY <1>2 DEF Mems, Records
<1>5. at'[p] = place
  BY Whereabouts
<1> QED
  BY <1>1, <1>3, <1>4, <1>5 DEF TypeInv, CallsOK

LEMMA AfterTryNext ==
  ASSUME TypeInv, NEW p \in Procs, NEW error, NEW result, TryNext(p, error, result)
  PROVE  \/ /\ mem[p].left = Endpoints /\ Head(mem[p].left) = "backend"
            /\ at' = at /\ mem'[p].bodies = mem[p].bodies /\ mem'[p].left = OldOne /\ mem'[p].was = mem[p].was
         \/ mem[p].left = OldOne /\ Head(mem[p].left) = "native" /\ at'[p] = result
<1>1. PICK m \in Mems : m = mem[p]
  BY DEF TypeInv, CallsOK
<1>2. m \in Records /\ m.left \in {Endpoints, OldOne}
  BY DEF Mems, Records
<1>3. PICK errors : errors = Append(m.errors, error)
  OBVIOUS
<1>4. CASE m.left = Endpoints
  <2>1. PICK n : n = [m EXCEPT !.left = OldOne, !.errors = errors]
    OBVIOUS
  <2>2. n.bodies = m.bodies /\ n.was = m.was /\ n.left = OldOne
    BY <1>2, <2>1 DEF Records
  <2>3. Len(m.left) > 1 /\ Tail(m.left) = OldOne /\ Head(m.left) = "backend"
    BY <1>4, TwoEndpoints
  <2>4. mem' = [mem EXCEPT ![p] = n] /\ at' = at
    BY <1>1, <1>3, <2>1, <2>3 DEF TryNext, TypeInv, CallsOK
  <2> QED
    BY <1>1, <1>4, <2>2, <2>3, <2>4 DEF TypeInv, CallsOK
<1>5. CASE m.left = OldOne
  <2>1. ~(Len(m.left) > 1) /\ Head(m.left) = "native"
    BY <1>5, TwoEndpoints
  <2>2. Goto(p, result)
    BY <1>1, <2>1 DEF TryNext, Finish
  <2> QED
    BY <1>1, <1>5, <2>1, <2>2, Whereabouts
<1> QED
  BY <1>2, <1>4, <1>5

\* The endpoint that is tried, the first one or the last.
LEMMA Tried ==
  ASSUME TypeInv, NEW p \in Procs
  PROVE  /\ Head(mem[p].left) \in Ends2
         /\ Head(mem[p].left) = "native" => mem[p].left = OldOne
         /\ mem[p].left \in {Endpoints, OldOne} /\ mem[p].was \in Values /\ req[p] \in Requests
         /\ req[p].op \in Ops /\ desktop \in Desktops /\ desktop.settings \in Values
<1>1. mem[p].left \in {Endpoints, OldOne} /\ mem[p].was \in Values
  BY DEF TypeInv, CallsOK, Mems, Records
<1> QED
  BY <1>1, TwoEndpoints, KeyParts, RequestParts DEF TypeInv, Desktops

\* Nobody is there to answer: the other endpoint is tried, or there is none.
LEMMA NobodyAnswers ==
  ASSUME TypeInv, NEW p \in Procs, OnErrand(p), Settled(p), at[p] \in {"read", "reset"}, req' = req, desktop' = desktop,
         ~Answers(Head(mem[p].left)), TryNext(p, NoConnection, "failed")
  PROVE  Right(p)
<1>1. CASE /\ mem[p].left = Endpoints /\ Head(mem[p].left) = "backend" /\ at' = at
           /\ mem'[p].left = OldOne /\ mem'[p].was = mem[p].was
  <2>1. Settled(p)'
    BY <1>1 DEF Settled, Answers
  <2> QED
    BY <1>1, <2>1 DEF Right
<1>2. CASE mem[p].left = OldOne /\ Head(mem[p].left) = "native" /\ at'[p] = "failed"
  <2>1. ~Answers("native") /\ ~Answers("backend")
    BY <1>2 DEF Settled
  <2>2. ~desktop.open \/ desktop.serves = {}
    BY <2>1, Tried DEF Answers, Desktops
  <2>3. req[p].op \notin {"open", "quit", "ensure"}
    BY DEF OnErrand, ErrandsAt
  <2> QED
    BY <1>2, <2>2, <2>3 DEF Right, FailedRight, InFlight
<1> QED
  BY <1>1, <1>2, AfterTryNext

LEMMA ReadIsRight ==
  ASSUME TypeInv, NEW p \in Procs, OnErrand(p), Settled(p), Read(p)
  PROVE  Right(p)
<1>1. req' = req /\ desktop' = desktop /\ at[p] = "read" /\ req[p].op \in {"show", "set", "disable", "restart"}
  BY DEF Read, OnErrand, ErrandsAt
<1>2. PICK e \in Ends2 : e = Head(mem[p].left)
  BY Tried
<1>3. PICK was \in Values : was = mem[p].was
  BY Tried
<1>4. PICK r \in Requests : r = req[p]
  BY Tried
<1>5. desktop.settings = was /\ (r.op = "restart" => desktop.local) /\ (e = "native" => ~Answers("backend"))
  BY <1>1, <1>2, <1>3, <1>4, Tried DEF Settled
<1>6. CASE ~Answers(e) /\ TryNext(p, NoConnection, "failed")
  BY <1>1, <1>2, <1>6, NobodyAnswers
<1>7. ASSUME Answers(e), NEW t, t = Grouped(e, was), r.op = "show",
             Finish(p, "done", [Nothing EXCEPT !.tree = SettingsForWrite(t, "V1")])
      PROVE  Right(p)
  <2>1. PICK u : u = SettingsForWrite(t, "V1")
    OBVIOUS
  <2>2. PICK said : said = [Nothing EXCEPT !.tree = u]
    OBVIOUS
  <2>3. said.tree = u
    BY <2>2 DEF Nothing
  <2>4. answer'[p] = said /\ at'[p] = "done"
    <3>1. answer' = [answer EXCEPT ![p] = said] /\ Finish(p, "done", said)
      BY <1>7, <2>1, <2>2 DEF Finish
    <3> QED
      BY <3>1, Whereabouts DEF TypeInv, CallsOK
  <2>5. \A s \in Settings : Given("backend", u, s).val = was[s]
    BY <1>7, <2>1, ShownIsStored
  <2>6. Aim(r, was) = was
    BY <1>7, NoAim
  <2> QED
    BY <1>1, <1>3, <1>4, <1>5, <1>7, <2>3, <2>4, <2>5, <2>6 DEF Right, DoneRight, InFlight
<1>8. ASSUME Answers(e), NEW t, t = Grouped(e, was), r.op # "show", NEW o, o = Outcome(r, t),
             \/ ~o.ok /\ Return(p, "failed")
             \/ o.ok /\ ~o.changed /\ Return(p, "done")
             \/ o.ok /\ o.changed /\ Proceed(p, "write", Bodies(o.tree))
      PROVE  Right(p)
  <2>0. r.op \in {"set", "disable", "restart"}
    BY <1>1, <1>4, <1>8
  <2>1. CASE ~o.ok /\ Return(p, "failed")
    <3>1. ~Settable(r) \/ (r.op = "restart" /\ r.cpus > MaxCPUs)
      BY <1>8, <2>0, <2>1, SettableIsPossible
    <3>2. at'[p] = "failed"
      BY <2>1, Whereabouts
    <3> QED
      BY <1>1, <1>4, <3>1, <3>2 DEF Right, FailedRight, InFlight
  <2>2. CASE o.ok /\ ~o.changed /\ Return(p, "done")
    <3>1. Aim(r, was) = was
      BY <1>8, <2>0, <2>2, OutcomeTells
    <3>2. at'[p] = "done"
      BY <2>2, Whereabouts
    <3> QED
      BY <1>1, <1>3, <1>4, <1>5, <1>8, <3>1, <3>2 DEF Right, DoneRight, InFlight
  <2>3. CASE o.ok /\ o.changed /\ Proceed(p, "write", Bodies(o.tree))
    <3>1. PICK b, w : b = Bodies(o.tree) /\ w = Aim(r, was)
      OBVIOUS
    <3>2. at'[p] = "write" /\ mem'[p].bodies = b /\ mem'[p].left = Endpoints /\ mem'[p].was = was
      BY <1>3, <2>3, <3>1, AfterProceed
    <3>3. w \in Values /\ Tells(e, Lost(e, was), o.tree, w)
      BY <1>8, <2>0, <2>3, <3>1, OutcomeTells, AimIsAsked
    <3>4. \A to \in Ends2 : Readable(to, b[to]) => Taken(to, b[to], was) = w
      BY <3>1, <3>3, TellsIsTaken
    <3>5. Readable(e, b[e])
      BY <3>1, <3>3, TellsIsReadable
    <3>6. Prepared(p)'
      BY <1>1, <1>4, <1>5, <1>8, <3>1, <3>2, <3>4, <3>5 DEF Prepared, Answers
    <3>7. Settled(p)'
      BY <1>1, <1>4, <1>5, <3>2, <3>6, TwoEndpoints DEF Settled
    <3> QED
      BY <3>2, <3>7 DEF Right
  <2> QED
    BY <1>8, <2>1, <2>2, <2>3
<1> QED
  BY <1>2, <1>3, <1>4, <1>5, <1>6, <1>7, <1>8 DEF Read, Wanted

LEMMA WriteIsRight ==
  ASSUME TypeInv, NEW p \in Procs, OnErrand(p), Settled(p), Write(p)
  PROVE  Right(p)
<1>1. req' = req /\ at[p] = "write" /\ req[p].op \in {"set", "disable", "restart"} /\ Prepared(p)
  BY DEF Write, OnErrand, ErrandsAt, Settled
<1>2. PICK e \in Ends2 : e = Head(mem[p].left)
  BY Tried
<1>3. PICK was \in Values : was = mem[p].was
  BY Tried
<1>4. PICK r \in Requests : r = req[p]
  BY Tried
<1>5. PICK bodies : bodies = mem[p].bodies
  OBVIOUS
<1>6. desktop.settings = was /\ (r.op = "restart" => desktop.local) /\ (e = "native" => ~Answers("backend"))
  BY <1>1, <1>2, <1>3, <1>4, Tried DEF Settled
\* Whoever answers can read it.
<1>7. Answers(e) => Readable(e, bodies[e])
  BY <1>1, <1>5, <1>6, KeyParts DEF Prepared
<1>8. ASSUME Readable(e, bodies[e]), Accept(p, e), Proceed(p, "sleep", NoBodies) \/ Return(p, "done")
      PROVE  Right(p)
  <2>1. PICK w : w = Stored(e, bodies[e])
    OBVIOUS
  <2>2. w = Aim(r, was)
    BY <1>1, <1>3, <1>4, <1>5, <1>6, <1>8, <2>1 DEF Prepared, Taken, Stored
  <2>3. desktop' = [desktop EXCEPT !.settings = w]
    BY <1>5, <1>8, <2>1 DEF Accept
  <2>4. desktop'.settings = w /\ desktop'.local = desktop.local
    BY <2>3, Tried DEF Desktops
  <2>5. CASE Proceed(p, "sleep", NoBodies)
    <3>1. at'[p] = "sleep" /\ mem'[p].left = Endpoints /\ mem'[p].was = was
      BY <1>3, <2>5, AfterProceed
    <3>2. Settled(p)'
      BY <1>1, <1>4, <1>6, <2>2, <2>4, <3>1, TwoEndpoints DEF Settled
    <3> QED
      BY <3>1, <3>2 DEF Right
  <2>6. CASE Return(p, "done")
    <3>1. at'[p] = "done"
      BY <2>6, Whereabouts
    <3> QED
      BY <1>1, <1>3, <1>4, <1>6, <2>2, <2>4, <3>1 DEF Right, DoneRight, InFlight
  <2> QED
    BY <1>8, <2>5, <2>6
<1>9. ASSUME ~Answers(e), TryNext(p, NoConnection, "failed"), desktop' = desktop
      PROVE  Right(p)
  <2>1. e # "native"
    BY <1>1, <1>6, <1>9, KeyParts DEF Prepared
  <2>2. /\ at' = at /\ mem'[p].bodies = bodies /\ mem'[p].left = OldOne /\ mem'[p].was = was
    BY <1>2, <1>3, <1>5, <1>9, <2>1, AfterTryNext
  <2>3. Prepared(p)'
    BY <1>1, <1>3, <1>5, <1>9, <2>2 DEF Prepared, Answers
  <2>4. ~Answers("backend")'
    BY <1>9, <2>1, KeyParts DEF Answers
  <2>5. Settled(p)'
    BY <1>1, <1>3, <1>4, <1>6, <1>9, <2>2, <2>3, <2>4 DEF Settled
  <2> QED
    BY <1>1, <2>2, <2>5 DEF Right
<1> QED
  BY <1>2, <1>5, <1>7, <1>8, <1>9 DEF Write

LEMMA OthersAreRight ==
  ASSUME TypeInv, NEW p \in Procs, OnErrand(p), Settled(p),
         ResetCluster(p) \/ Sleep(p) \/ Poll(p) \/ TimeOut(p) \/ Ping(p) \/ Open(p) \/ Quit(p)
  PROVE  Right(p)
<1>1. req' = req
  BY DEF ResetCluster, Sleep, Poll, TimeOut, Ping, Open, Quit
<1>2. PICK was \in Values : was = mem[p].was
  BY Tried
<1>3. PICK r \in Requests : r = req[p]
  BY Tried
<1>4. r.op \notin {"set", "disable", "restart"} => Aim(r, was) = was
  BY NoAim
<1>5. desktop'.settings = desktop.settings /\ desktop'.local = desktop.local /\ desktop \in Desktops
  BY Tried DEF ResetCluster, Sleep, Poll, TimeOut, Ping, Open, Quit, Desktops
<1>6. at[p] \notin {"sleep", "poll"} => desktop.settings = was
  BY <1>2 DEF Settled
<1>7. at[p] \in {"sleep", "poll"} => desktop.settings = Aim(r, was)
  BY <1>2, <1>3 DEF Settled
<1>8. r.op = "restart" => desktop.local
  BY <1>3 DEF Settled
<1>9. ASSUME Return(p, "done"), r.op # "show", desktop.settings = Aim(r, was)
      PROVE  Right(p)
  <2>1. at'[p] = "done"
    BY <1>9, Whereabouts
  <2> QED
    BY <1>2, <1>3, <1>5, <1>8, <1>9, <2>1 DEF Right, DoneRight, InFlight
<1>10. ASSUME Return(p, "failed"), r.op \in {"open", "quit", "ensure"}, ~desktop.starts \/ ~desktop.local
       PROVE  Right(p)
  <2>1. at'[p] = "failed"
    BY <1>10, Whereabouts
  <2> QED
    BY <1>3, <1>10, <2>1 DEF Right, FailedRight, InFlight
<1>11. ASSUME NEW place \in {"poll", "open", "boot"}, Proceed(p, place, NoBodies),
              desktop.settings = IF place = "poll" THEN Aim(r, was) ELSE was
       PROVE  Right(p)
  <2>1. at'[p] = place /\ mem'[p].left = Endpoints /\ mem'[p].was = was
    BY <1>2, <1>11, AfterProceed
  <2>2. Settled(p)'
    BY <1>1, <1>3, <1>5, <1>8, <1>11, <2>1, TwoEndpoints DEF Settled
  <2> QED
    BY <2>1, <2>2 DEF Right
<1>12. CASE ResetCluster(p)
  <2>1. at[p] = "reset" /\ r.op \in {"create", "reset"}
    BY <1>3, <1>12 DEF ResetCluster, OnErrand, ErrandsAt
  <2>2. CASE Return(p, "done")
    BY <1>4, <1>6, <1>9, <2>1, <2>2
  <2>3. CASE ~Answers(Head(mem[p].left)) /\ TryNext(p, NoConnection, "failed") /\ desktop' = desktop
    BY <1>1, <2>1, <2>3, NobodyAnswers
  <2> QED
    BY <1>12, <2>2, <2>3 DEF ResetCluster
<1>13. CASE Sleep(p)
  BY <1>7, <1>11, <1>13 DEF Sleep
<1>14. CASE Poll(p)
  <2>1. at[p] \in {"poll", "boot"} /\ Return(p, "done") /\ r.op \in {"restart", "ensure"} /\ (at[p] = "boot" => r.op = "ensure")
    BY <1>3, <1>14 DEF Poll, OnErrand, ErrandsAt
  <2> QED
    BY <1>4, <1>6, <1>7, <1>9, <2>1
<1>15. CASE TimeOut(p)
  <2>1. at'[p] = "timedout"
    BY <1>15, Whereabouts DEF TimeOut
  <2> QED
    BY <2>1 DEF Right, InFlight
<1>16. CASE Ping(p)
  <2>1. at[p] = "ping" /\ r.op = "ensure"
    BY <1>3, <1>16 DEF Ping, OnErrand, ErrandsAt
  <2> QED
    BY <1>4, <1>6, <1>9, <1>10, <1>11, <1>16, <2>1 DEF Ping
<1>17. CASE Open(p)
  <2>1. at[p] = "open" /\ r.op \in {"open", "ensure"}
    BY <1>3, <1>17 DEF Open, OnErrand, ErrandsAt
  <2> QED
    BY <1>4, <1>6, <1>9, <1>10, <1>11, <1>17, <2>1 DEF Open
<1>18. CASE Quit(p)
  <2>1. at[p] = "quit" /\ r.op = "quit"
    BY <1>3, <1>18 DEF Quit, OnErrand, ErrandsAt
  <2> QED
    BY <1>4, <1>6, <1>9, <1>10, <1>18, <2>1 DEF Quit
<1> QED
  BY <1>12, <1>13, <1>14, <1>15, <1>16, <1>17, <1>18

LEMMA BeginIsRight ==
  ASSUME TypeInv, NEW p \in Procs, OnErrand(p), Begin(p)
  PROVE  /\ at[p] = "idle" /\ OnErrand(p)'
         /\ at'[p] \in InFlight => Settled(p)'
         /\ at'[p] = "failed" => Refused(req[p])
<1>1. at[p] = "idle" /\ mem[p].left = Endpoints /\ req' = req /\ desktop' = desktop /\ req[p].op \in Ops
  BY Tried DEF Begin, OnErrand
<1>2. CASE Return(p, "failed") /\ Refused(req[p])
  <2>1. at'[p] = "failed"
    BY <1>2, Whereabouts
  <2> QED
    BY <1>1, <1>2, <2>1 DEF OnErrand, ErrandsAt, InFlight
<1>3. CASE Return(p, "done")
  <2>1. at'[p] = "done"
    BY <1>3, Whereabouts
  <2> QED
    BY <1>1, <2>1 DEF OnErrand, ErrandsAt, InFlight
<1>4. ASSUME NEW place, place = CASE req[p].op \in {"create", "reset"} -> "reset"
                                  [] req[p].op = "ensure" -> "ping"
                                  [] req[p].op \in {"open", "quit"} -> req[p].op
                                  [] OTHER -> "read",
             Goto(p, place), mem' = [mem EXCEPT ![p].was = desktop.settings], req[p].op = "restart" => desktop.local
      PROVE  /\ OnErrand(p)' /\ Settled(p)' /\ at'[p] # "failed"
  <2>1. at'[p] = place
    BY <1>4, Whereabouts
  <2>2. place \in {"read", "reset", "ping", "open", "quit"} /\ req[p].op \in ErrandsAt(place)
    BY <1>1, <1>4 DEF Ops, ErrandsAt
  <2>3. mem'[p].was = desktop.settings /\ mem'[p].left = mem[p].left
    <3>1. PICK m \in Mems : m = mem[p]
      BY DEF TypeInv, CallsOK
    <3>2. PICK n : n = [m EXCEPT !.was = desktop.settings]
      OBVIOUS
    <3>3. mem' = [mem EXCEPT ![p] = n]
      BY <1>4, <3>1, <3>2 DEF TypeInv, CallsOK
    <3>4. n.was = desktop.settings /\ n.left = m.left
      BY <3>2 DEF Mems, Records
    <3> QED
      BY <3>1, <3>3, <3>4 DEF TypeInv, CallsOK
  <2>4. Settled(p)'
    BY <1>1, <1>4, <2>1, <2>2, <2>3, TwoEndpoints DEF Settled
  <2> QED
    BY <1>1, <2>1, <2>2, <2>4 DEF OnErrand
<1>5. \/ Return(p, "failed") /\ Refused(req[p])
      \/ Return(p, "done")
      \/ \E place : /\ place = CASE req[p].op \in {"create", "reset"} -> "reset"
                                 [] req[p].op = "ensure" -> "ping"
                                 [] req[p].op \in {"open", "quit"} -> req[p].op
                                 [] OTHER -> "read"
                    /\ Goto(p, place) /\ mem' = [mem EXCEPT ![p].was = desktop.settings]
                    /\ req[p].op = "restart" => desktop.local
  BY DEF Begin, Wanted
<1> QED
  BY <1>1, <1>2, <1>3, <1>4, <1>5

LEMMA StepKeepsErrand ==
  ASSUME TypeInv, NEW p \in Procs, OnErrand(p), Step(p) \/ Fault(p)
  PROVE  OnErrand(p)'
<1>1. req' = req /\ req[p].op \in Ops
  BY Frame, Tried
<1>2. ASSUME NEW place, Goto(p, place), place # "idle", req[p].op \in ErrandsAt(place)
      PROVE  OnErrand(p)'
  BY <1>1, <1>2, Whereabouts DEF OnErrand
<1>3. \A place \in Over : req[p].op \in ErrandsAt(place) /\ place # "idle"
  BY <1>1 DEF ErrandsAt, Over
<1>4. ASSUME NEW place \in Over, at[p] # "idle", NEW error, TryNext(p, error, place)
      PROVE  OnErrand(p)'
  <2>1. at' = at \/ Goto(p, place)
    BY <1>4, Whereabouts
  <2> QED
    BY <1>1, <1>2, <1>3, <1>4, <2>1 DEF OnErrand
<1>5. ASSUME NEW place \in Over, Return(p, place) \/ \E said : Finish(p, place, said)
      PROVE  OnErrand(p)'
  <2>1. Goto(p, place)
    BY <1>5, Whereabouts
  <2> QED
    BY <1>2, <1>3, <2>1
<1>6. {"failed", "done", "timedout", "broken"} \subseteq Over
  BY DEF Over
<1>7. CASE Begin(p)
  BY <1>7, BeginIsRight
<1>8. CASE Read(p)
  <2>1. at[p] = "read" /\ req[p].op \in ErrandsAt("read")
    BY <1>8 DEF Read, OnErrand
  <2>2. CASE req[p].op # "show" /\ \E b : Proceed(p, "write", b)
    <3>1. Goto(p, "write") /\ req[p].op \in ErrandsAt("write")
      BY <2>1, <2>2, Whereabouts DEF ErrandsAt
    <3> QED
      BY <1>2, <3>1
  <2>3. \/ TryNext(p, NoConnection, "failed")
        \/ \E said : Finish(p, "done", said)
        \/ Return(p, "failed") \/ Return(p, "done")
        \/ req[p].op # "show" /\ \E b : Proceed(p, "write", b)
    BY <1>8 DEF Read, Wanted
  <2> QED
    BY <1>4, <1>5, <1>6, <2>1, <2>2, <2>3
<1>9. CASE Write(p) \/ ResetCluster(p)
  <2>1. at[p] \in {"write", "reset"} /\ req[p].op \in ErrandsAt(at[p])
    BY <1>9 DEF Write, ResetCluster, OnErrand
  <2>2. CASE req[p].op = "restart" /\ Proceed(p, "sleep", NoBodies)
    <3>1. Goto(p, "sleep") /\ req[p].op \in ErrandsAt("sleep")
      BY <2>1, <2>2, Whereabouts DEF ErrandsAt
    <3> QED
      BY <1>2, <3>1
  <2>3. \/ \E error : TryNext(p, error, "failed")
        \/ Return(p, "done")
        \/ req[p].op = "restart" /\ Proceed(p, "sleep", NoBodies)
    BY <1>9 DEF Write, ResetCluster, Wanted
  <2> QED
    BY <1>4, <1>5, <1>6, <2>1, <2>2, <2>3
<1>10. CASE Sleep(p) \/ WakeEarly(p)
  <2>1. at[p] = "sleep" /\ req[p].op \in ErrandsAt("sleep") /\ Goto(p, "poll")
    BY <1>10, Whereabouts DEF Sleep, WakeEarly, OnErrand
  <2>2. req[p].op \in ErrandsAt("poll")
    BY <2>1 DEF ErrandsAt
  <2> QED
    BY <1>2, <2>1, <2>2
<1>11. CASE Poll(p) \/ TimeOut(p) \/ Die(p) \/ Quit(p)
  <2>1. Return(p, "done") \/ Return(p, "timedout") \/ Return(p, "broken") \/ Return(p, "failed")
    BY <1>11 DEF Poll, TimeOut, Die, Quit
  <2> QED
    BY <1>5, <1>6, <2>1
<1>12. CASE Ping(p)
  <2>1. at[p] = "ping" /\ req[p].op \in ErrandsAt("ping")
    BY <1>12 DEF Ping, OnErrand
  <2>2. CASE Proceed(p, "open", NoBodies)
    <3>1. Goto(p, "open") /\ req[p].op \in ErrandsAt("open")
      BY <2>1, <2>2, Whereabouts DEF ErrandsAt
    <3> QED
      BY <1>2, <3>1
  <2> QED
    BY <1>5, <1>6, <1>12, <2>2 DEF Ping
<1>13. CASE Open(p)
  <2>1. at[p] = "open" /\ req[p].op \in ErrandsAt("open")
    BY <1>13 DEF Open, OnErrand
  <2>2. CASE req[p].op = "ensure" /\ Proceed(p, "boot", NoBodies)
    <3>1. Goto(p, "boot") /\ req[p].op \in ErrandsAt("boot")
      BY <2>1, <2>2, Whereabouts DEF ErrandsAt
    <3> QED
      BY <1>2, <3>1
  <2> QED
    BY <1>5, <1>6, <1>13, <2>2 DEF Open, Wanted
<1>14. CASE RequestFails(p)
  <2>1. at[p] # "idle" /\ \E error : TryNext(p, error, "broken")
    BY <1>14 DEF RequestFails
  <2> QED
    BY <1>4, <1>6, <2>1
<1> QED
  BY <1>7, <1>8, <1>9, <1>10, <1>11, <1>12, <1>13, <1>14 DEF Step, Fault

\* A step of a command that has begun, by itself.
LEMMA StepIsRight ==
  ASSUME TypeInv, NEW p \in Procs, OnErrand(p), at[p] # "idle", Settled(p), Step(p)
  PROVE  Right(p)
<1>1. ~Begin(p)
  BY DEF Begin
<1> QED
  BY <1>1, ReadIsRight, WriteIsRight, OthersAreRight DEF Step

\* Who is alone afterwards has done the step, and was alone.
LEMMA StillAlone ==
  ASSUME TypeInv, NEW p \in Procs, NEW q \in Procs, Act(q) \/ (Fault(q) /\ Interrupt({})),
         at'[p] \in InFlight, alone'[p]
  PROVE  p = q /\ Step(p) /\ alone[p]
BY DEF Act, Interrupt

LEMMA AloneInit == Init => AloneInv
<1> SUFFICES ASSUME Init
             PROVE  \A p \in Procs : OnErrand(p) /\ ~(at[p] \in InFlight)
  BY InitType DEF AloneInv
<1>1. TypeInv
  BY InitType
<1>2. ASSUME NEW p \in Procs
      PROVE  at[p] = "idle" /\ mem[p].left = Endpoints
  BY DEF Init, Blank
<1>3. ASSUME NEW p \in Procs
      PROVE  req[p].op \in ErrandsAt("idle")
  BY <1>1, Tried DEF ErrandsAt
<1> QED
  BY <1>2, <1>3 DEF OnErrand, InFlight

LEMMA AloneNext == AloneInv /\ [Next]_vars => AloneInv'
<1> SUFFICES ASSUME AloneInv, [Next]_vars, NEW p \in Procs
             PROVE  OnErrand(p)' /\ (alone'[p] /\ at'[p] \in InFlight => Settled(p)')
  BY NextType DEF AloneInv
<1>1. TypeInv /\ \A q \in Procs : OnErrand(q) /\ (alone[q] /\ at[q] \in InFlight => Settled(q))
  BY DEF AloneInv
<1>2. CASE UNCHANGED vars
  BY <1>1, <1>2 DEF vars, OnErrand, Settled, Prepared, Answers
<1>3. CASE EngineStops \/ EngineStarts
  <2>1. /\ desktop'.settings = desktop.settings /\ desktop'.open = desktop.open
        /\ desktop'.serves = desktop.serves /\ desktop'.local = desktop.local
    BY <1>1, <1>3 DEF EngineStops, EngineStarts, TypeInv, Desktops
  <2>2. UNCHANGED <<req, at, mem, alone>>
    BY <1>3 DEF EngineStops, EngineStarts
  <2> QED
    BY <1>1, <2>1, <2>2 DEF OnErrand, Settled, Prepared, Answers
<1>4. ASSUME NEW q \in Procs, Act(q) \/ (Fault(q) /\ Interrupt({}))
      PROVE  OnErrand(p)' /\ (alone'[p] /\ at'[p] \in InFlight => Settled(p)')
  <2>1. OnErrand(p)'
    <3>1. CASE p = q
      BY <1>1, <1>4, <3>1, StepKeepsErrand DEF Act
    <3>2. CASE p # q
      <4>1. req' = req /\ at'[p] = at[p] /\ mem'[p] = mem[p]
        BY <1>1, <1>4, <3>2, Frame DEF Act
      <4> QED
        BY <1>1, <4>1 DEF OnErrand
    <3> QED
      BY <3>1, <3>2
  <2>2. ASSUME alone'[p], at'[p] \in InFlight
        PROVE  Settled(p)'
    <3>1. Step(p) /\ alone[p]
      BY <1>1, <1>4, <2>2, StillAlone
    <3>2. CASE Begin(p)
      BY <1>1, <2>2, <3>2, BeginIsRight
    <3>3. CASE ~Begin(p)
      <4>1. at[p] \in InFlight
        BY <3>1, <3>3
           DEF Step, Read, Write, ResetCluster, Sleep, Poll, TimeOut, Ping, Open, Quit, InFlight
      <4>2. at[p] # "idle"
        BY <4>1 DEF InFlight
      <4> QED
        BY <1>1, <2>2, <3>1, <4>1, <4>2, StepIsRight DEF Right
    <3> QED
      BY <3>2, <3>3
  <2> QED
    BY <2>1, <2>2
<1> QED
  BY <1>2, <1>3, <1>4 DEF Next

LEMMA AloneAlways == Spec => []AloneInv
BY AloneInit, AloneNext, PTL DEF Spec

\* A command comes to its end by its own step.
LEMMA OwnEnd ==
  ASSUME AloneInv, [Next]_vars, NEW p \in Procs, NEW place \in {"done", "failed"}, Ends(p, place), alone[p]
  PROVE  /\ OnErrand(p) /\ Step(p)
         /\ at[p] # "idle" => Right(p) /\ Settled(p)
<1>1. TypeInv /\ OnErrand(p) /\ (alone[p] /\ at[p] \in InFlight => Settled(p)) /\ at'[p] # at[p] /\ at'[p] = place
  BY DEF AloneInv, Ends
<1>2. ~UNCHANGED vars /\ ~EngineStops /\ ~EngineStarts
  BY <1>1 DEF vars, EngineStops, EngineStarts
<1>3. PICK q \in Procs : Step(q) \/ Fault(q)
  BY <1>2 DEF Next, Act
<1>4. p = q
  BY <1>1, <1>3, Frame
<1>5. ~Fault(p)
  <2>1. ASSUME RequestFails(p)
        PROVE  FALSE
    <3>1. PICK error : TryNext(p, error, "broken")
      BY <2>1 DEF RequestFails
    <3>2. at' = at \/ at'[p] = "broken"
      BY <1>1, <3>1, Whereabouts
    <3> QED
      BY <1>1, <3>2
  <2>2. Die(p) \/ WakeEarly(p) => at'[p] \in {"broken", "poll"}
    BY <1>1, Whereabouts DEF Die, WakeEarly
  <2> QED
    BY <1>1, <2>1, <2>2 DEF Fault
<1>6. Step(p)
  BY <1>3, <1>4, <1>5
<1>7. ASSUME at[p] # "idle"
      PROVE  Right(p) /\ Settled(p)
  <2>1. at[p] \in InFlight
    BY <1>6, <1>7
       DEF Step, Begin, Read, Write, ResetCluster, Sleep, Poll, TimeOut, Ping, Open, Quit, InFlight
  <2> QED
    BY <1>1, <1>6, <1>7, <2>1, StepIsRight
<1> QED
  BY <1>1, <1>6, <1>7

(***************************************************************************)
(* A command that nobody interferes with and that reports success has        *)
(* changed the settings it is about and no other, whichever endpoint it read *)
(* them from and whichever it wrote them to; and the settings it prints are   *)
(* those that are stored.                                                  *)
(***************************************************************************)
THEOREM DoesWhatIsAskedAlways == Spec => DoesWhatIsAsked
<1>1. AloneInv /\ [Next]_vars =>
        [\A p \in Procs :
           Ends(p, "done") /\ alone[p] /\ at[p] # "idle" =>
             /\ desktop'.settings = Expected(Wanted(p), mem[p].was)
             /\ Wanted(p).op = "show" =>
                  \A s \in Settings : Given("backend", answer'[p].tree, s).val = desktop.settings[s]]_vars
  <2> SUFFICES ASSUME AloneInv, [Next]_vars, NEW p \in Procs, Ends(p, "done"), alone[p], at[p] # "idle"
               PROVE  /\ desktop'.settings = Expected(req[p], mem[p].was)
                      /\ req[p].op = "show" =>
                           \A s \in Settings : Given("backend", answer'[p].tree, s).val = desktop.settings[s]
    BY DEF Wanted
  <2>1. DoneRight(p)
    BY OwnEnd DEF Right, Ends
  <2>2. Expected(req[p], mem[p].was) = Aim(req[p], mem[p].was)
    BY <2>1, AimIsExpected DEF DoneRight
  <2> QED
    BY <2>1, <2>2 DEF DoneRight
<1> QED
  BY <1>1, AloneAlways, PTL DEF Spec, DoesWhatIsAsked

(***************************************************************************)
(* A command for settings or the cluster that nobody interferes with         *)
(* succeeds wherever Docker Desktop is open and any endpoint answers: what    *)
(* is made of an endpoint's answer that same endpoint can read, and it is     *)
(* the one that is asked to. A key or a value that does not go makes it fail  *)
(* on what it has read: nothing is refused that was already written.         *)
(***************************************************************************)
THEOREM AloneSucceedsAlways == Spec => AloneSucceeds
<1>1. AloneInv /\ [Next]_vars =>
        [\A p \in Procs :
           LET r == Wanted(p) IN
           Ends(p, "failed") /\ alone[p] =>
             \/ Refused(r)
             \/ at[p] = "read" /\ (~Settable(r) \/ (r.op = "restart" /\ r.cpus > MaxCPUs))
             \/ IF r.op \in {"open", "quit", "ensure"}
                  THEN ~desktop.starts \/ ~desktop.local
                  ELSE ~desktop.open \/ desktop.serves = {}]_vars
  <2> SUFFICES ASSUME AloneInv, [Next]_vars, NEW p \in Procs, Ends(p, "failed"), alone[p]
               PROVE  Refused(req[p]) \/ FailedRight(p)
    BY DEF Wanted, FailedRight
  <2>1. CASE at[p] = "idle"
    <3>1. Begin(p) /\ OnErrand(p) /\ TypeInv
      BY <2>1, OwnEnd DEF AloneInv, Step, Read, Write, ResetCluster, Sleep, Poll, TimeOut, Ping, Open, Quit
    <3> QED
      BY <3>1, BeginIsRight DEF Ends
  <2>2. CASE at[p] # "idle"
    BY <2>2, OwnEnd DEF Right, Ends
  <2> QED
    BY <2>1, <2>2
<1> QED
  BY <1>1, AloneAlways, PTL DEF Spec, AloneSucceeds

==============================================================================
