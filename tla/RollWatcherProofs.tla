-------------------------- MODULE RollWatcherProofs ---------------------------
(***************************************************************************)
(* Proofs about the informer handler: for any number of nodes, outages and *)
(* replacements of pods, in any order of the lists, the windows are those  *)
(* of the drains that a watch or a list has shown.                         *)
(***************************************************************************)
EXTENDS RollWatcher, TLAPS, FiniteSetTheorems, SequenceTheorems, WellFoundedInduction

State == [phase : {"absent", "unbound", "bound", "gone"}, stamp : Nat, readyAt : Nat]
Object == [pod : Pod, node : Node \cup {0}, stamp : Nat, readyAt : Nat, del : BOOLEAN]

\* The notifications of an inbox, or of a list.
Elements(s) == {s[i] : i \in 1..Len(s)}

TypeOK ==
  /\ clock \in Nat \ {0}
  /\ cluster \in [Pod -> State]
  /\ watching \in BOOLEAN /\ outages \in Nat
  /\ inbox \in Seq(Object) /\ cache \in [Pod -> Object \cup {NoObject}]
  /\ drain \in [Node -> Nat] /\ ready \in [Node -> Nat] /\ seenUID \subseteq Pod
  /\ hidden \subseteq Pod

\* A notification tells nothing that was not so: it is of a pod before its
\* deletion, or carries the moment of it, and then the drain is no longer hidden.
Told(o, pods, dark) ==
  /\ o.stamp \in {0, pods[o.pod].stamp}
  /\ o.node \in {0, NodeOf(o.pod)}
  /\ o.stamp # 0 => o.node = NodeOf(o.pod) /\ o.pod \notin dark

Truthful ==
  /\ \A p \in Pod : cluster[p].phase \in {"absent", "unbound"} => cluster[p].stamp = 0
  /\ \A o \in Elements(inbox) : Told(o, cluster, hidden)
  /\ \A p \in Pod : ~cache[p].del => Told(cache[p], cluster, hidden) /\ cache[p].pod = p
  /\ watching => \A p \in hidden : cluster[p].phase = "gone"

\* What was recorded of a pod has reached its node's window.
Recorded ==
  /\ \A p \in seenUID : /\ cluster[p].stamp # 0 /\ p \notin hidden
                        /\ drain[NodeOf(p)] # 0 /\ drain[NodeOf(p)] <= cluster[p].stamp
  /\ \A n \in Node : drain[n] # 0 => drain[n] \in Shown(n)

\* A drain is recorded, on its way to the handler, or hidden by an outage.
Covered ==
  \A p \in Pod : cluster[p].stamp # 0 =>
    \/ p \in seenUID
    \/ p \in hidden
    \/ \E o \in Elements(inbox) : o.pod = p /\ o.stamp # 0

IInv == TypeOK /\ Truthful /\ Recorded /\ Covered

-----------------------------------------------------------------------------
(* A nonempty set of numbers up to a bound has a greatest one.             *)
LEMMA Greatest ==
  ASSUME NEW n \in Nat, NEW S \in SUBSET (1..n), S # {}
  PROVE  \E i \in S : \A j \in S : j <= i
<1> DEFINE R == OpToRel(<, Nat)
           T == {n - i : i \in S}
<1>1. T \subseteq Nat /\ T # {}
  <2>1. \A i \in S : n - i \in Nat /\ n - i \in T
    OBVIOUS
  <2> QED  BY <2>1
<1>2. PICK x \in T : \A y \in T : <<y, x>> \notin R
  BY <1>1, NatLessThanWellFounded, WFMin
<1>3. \A y \in T : ~(y < x)
  BY <1>1, <1>2 DEF OpToRel
<1>4. PICK i \in S : x = n - i
  OBVIOUS
<1>5. \A j \in S : n - j \in T
  OBVIOUS
<1>6. \A j \in S : j <= i
  <2> TAKE j \in S
  <2>1. ~(n - j < n - i)
    BY <1>3, <1>4, <1>5
  <2> QED  BY <2>1
<1> QED  BY <1>6

(* The elements of what is queued, lost and taken.                         *)
LEMMA ElementsIn ==
  ASSUME NEW S, NEW s \in Seq(S)
  PROVE  Elements(s) \subseteq S
BY ElementOfSeq DEF Elements

\* The elements of a longer sequence.
LEMMA ElementsAppend ==
  ASSUME NEW S, NEW s \in Seq(S), NEW e \in S
  PROVE  Elements(Append(s, e)) = Elements(s) \cup {e}
<1>1. Len(Append(s, e)) = Len(s) + 1 /\ Len(s) \in Nat
  OBVIOUS
<1>2. \A i \in 1..Len(s) : Append(s, e)[i] = s[i]
  OBVIOUS
<1>3. Append(s, e)[Len(s) + 1] = e
  OBVIOUS
<1>4. 1..(Len(s) + 1) = (1..Len(s)) \cup {Len(s) + 1}
  BY <1>1
<1> QED  BY <1>1, <1>2, <1>3, <1>4 DEF Elements

\* The elements of two sequences.
LEMMA ElementsConcat ==
  ASSUME NEW S, NEW s \in Seq(S), NEW t \in Seq(S)
  PROVE  s \o t \in Seq(S) /\ Elements(s \o t) = Elements(s) \cup Elements(t)
<1>1. /\ s \o t \in Seq(S) /\ Len(s \o t) = Len(s) + Len(t)
      /\ Len(s) \in Nat /\ Len(t) \in Nat
      /\ \A i \in 1..(Len(s) + Len(t)) :
           (s \o t)[i] = IF i <= Len(s) THEN s[i] ELSE t[i - Len(s)]
  BY ConcatProperties, LenProperties
<1>2. ASSUME NEW i \in 1..Len(s \o t) PROVE (s \o t)[i] \in Elements(s) \cup Elements(t)
  <2>1. CASE i <= Len(s)
    BY <1>1, <2>1 DEF Elements
  <2>2. CASE i > Len(s)
    <3>1. i - Len(s) \in 1..Len(t) /\ (s \o t)[i] = t[i - Len(s)]
      BY <1>1, <2>2
    <3> QED  BY <3>1 DEF Elements
  <2> QED  BY <1>1, <2>1, <2>2
<1>3. ASSUME NEW j \in 1..Len(s) PROVE s[j] \in Elements(s \o t)
  <2>1. j \in 1..Len(s \o t) /\ (s \o t)[j] = s[j]
    BY <1>1
  <2> QED  BY <2>1 DEF Elements
<1>4. ASSUME NEW j \in 1..Len(t) PROVE t[j] \in Elements(s \o t)
  <2>1. Len(s) + j \in 1..Len(s \o t) /\ (s \o t)[Len(s) + j] = t[j]
    BY <1>1
  <2> QED  BY <2>1 DEF Elements
<1> QED  BY <1>1, <1>2, <1>3, <1>4 DEF Elements

\* The elements of what is kept.
LEMMA ElementsPrefix ==
  ASSUME NEW S, NEW s \in Seq(S), NEW k \in 0..Len(s)
  PROVE  SubSeq(s, 1, k) \in Seq(S) /\ Elements(SubSeq(s, 1, k)) \subseteq Elements(s)
<1>1. Len(s) \in Nat
  BY LenProperties
<1>2. \A i \in 1..k : s[i] \in S
  BY <1>1, ElementOfSeq
<1>3. /\ SubSeq(s, 1, k) \in Seq(S) /\ Len(SubSeq(s, 1, k)) = k
      /\ \A i \in 1..k : SubSeq(s, 1, k)[i] = s[i]
  BY <1>1, <1>2, SubSeqProperties
<1> QED  BY <1>1, <1>3 DEF Elements

\* The elements of what is left.
LEMMA ElementsTail ==
  ASSUME NEW S, NEW s \in Seq(S), s # <<>>
  PROVE  /\ Head(s) \in S /\ Tail(s) \in Seq(S)
         /\ Elements(s) = {Head(s)} \cup Elements(Tail(s))
<1>1. /\ Head(s) \in S /\ Tail(s) \in Seq(S) /\ Len(Tail(s)) = Len(s) - 1
      /\ \A i \in 1..Len(Tail(s)) : Tail(s)[i] = s[i + 1]
      /\ Len(s) \in Nat \ {0} /\ Head(s) = s[1]
  BY HeadTailProperties, LenProperties, EmptySeq
<1>2. ASSUME NEW i \in 1..Len(s) PROVE s[i] \in {Head(s)} \cup Elements(Tail(s))
  <2>1. CASE i = 1
    BY <1>1, <2>1
  <2>2. CASE i # 1
    <3>1. i - 1 \in 1..Len(Tail(s)) /\ Tail(s)[i - 1] = s[i]
      BY <1>1, <2>2
    <3> QED  BY <3>1 DEF Elements
  <2> QED  BY <2>1, <2>2
<1>3. ASSUME NEW j \in 1..Len(Tail(s)) PROVE Tail(s)[j] \in Elements(s)
  <2>1. j + 1 \in 1..Len(s) /\ Tail(s)[j] = s[j + 1]
    BY <1>1
  <2> QED  BY <2>1 DEF Elements
<1> QED  BY <1>1, <1>2, <1>3 DEF Elements

(* A delivery order of a finite set is a sequence of all its elements.     *)
LEMMA OrdersAre ==
  ASSUME NEW S, IsFiniteSet(S), NEW s \in Orders(S)
  PROVE  s \in Seq(S) /\ Elements(s) = S
<1>1. Cardinality(S) \in Nat
  BY FS_CardinalityType
<1>2. s \in [1..Cardinality(S) -> S] /\ \A x \in S : \E i \in 1..Cardinality(S) : s[i] = x
  BY DEF Orders
<1>3. s \in Seq(S)
  BY <1>1, <1>2, SeqDef
<1>4. Len(s) = Cardinality(S)
  BY <1>1, <1>2, <1>3, LenProperties
<1> QED  BY <1>2, <1>3, <1>4 DEF Elements

(* The pods are finitely many, and so are those a list tells of.           *)
LEMMA FiniteImage ==
  ASSUME NEW f, NEW S, f \in [Pod -> S]
  PROVE  \A Q \in SUBSET Pod : IsFiniteSet({f[p] : p \in Q})
<1>1. IsFiniteSet(Pod)
  <2>1. IsFiniteSet(0..MaxGen)
    BY BoundAssumption, FS_Interval
  <2> QED  BY NodeAssumption, <2>1, FS_Product DEF Pod
<1>2. TAKE Q \in SUBSET Pod
<1> DEFINE g == [p \in Q |-> f[p]]
           T == {f[p] : p \in Q}
<1>3. IsFiniteSet(Q)
  BY <1>1, FS_Subset
<1>4. g \in Surjection(Q, T)
  BY DEF Surjection
<1> QED  BY <1>3, <1>4, FS_Surjection

-----------------------------------------------------------------------------
(* Nothing is known and nothing has drained.                               *)
LEMMA InitIInv == Init => IInv
<1> SUFFICES ASSUME Init PROVE IInv
  OBVIOUS
<1> USE DEF Init
<1>1. TypeOK
  <2>1. cluster \in [Pod -> State]
    BY DEF State
  <2>2. inbox \in Seq(Object)
    BY EmptySeq
  <2>3. cache \in [Pod -> Object \cup {NoObject}]
    OBVIOUS
  <2>4. drain \in [Node -> Nat] /\ ready \in [Node -> Nat] /\ clock \in Nat \ {0}
    OBVIOUS
  <2> QED  BY <2>1, <2>2, <2>3, <2>4 DEF TypeOK
<1>2. Truthful
  BY DEF Truthful, NoObject, Elements
<1>3. Recorded /\ Covered
  BY DEF Recorded, Covered, NoObject
<1> QED  BY <1>1, <1>2, <1>3 DEF IInv

\* What a change of a pod may not do: come after its end, forget a drain, or begin
\* it unbound.
Lawful(p, s) ==
  /\ s \in State
  /\ cluster[p].phase # "gone"
  /\ cluster[p].stamp # 0 => s.stamp = cluster[p].stamp
  /\ s.phase \in {"absent", "unbound"} => s.stamp = 0

(* The object of a pod is one a notification may carry.                    *)
LEMMA ObjectTyped ==
  ASSUME NEW p \in Pod, NEW s \in State
  PROVE  ObjectOf(p, s) \in Object
BY DEF ObjectOf, Object, State, Pod, NodeOf

(* A lawful change keeps the invariant, watched or not.                    *)
LEMMA ChangeKeeps ==
  ASSUME IInv, NEW p \in Pod, NEW s, Lawful(p, s), Change(p, s)
  PROVE  IInv'
<1> DEFINE o == ObjectOf(p, s)
<1>0. s \in State /\ cluster \in [Pod -> State] /\ inbox \in Seq(Object) /\ o \in Object
  BY ObjectTyped DEF Lawful, IInv, TypeOK
<1>1. /\ cluster' = [cluster EXCEPT ![p] = s]
      /\ inbox' = IF watching THEN Append(inbox, o) ELSE inbox
      /\ hidden' = IF cluster[p].stamp = 0 /\ s.stamp # 0 /\ ~watching
                   THEN hidden \cup {p} ELSE hidden
      /\ UNCHANGED <<clock, watching, outages, cache, drain, ready, seenUID>>
  BY DEF Change, watcherVars
<1>2. \A q \in Pod : /\ cluster[q].stamp # 0 => cluster'[q].stamp = cluster[q].stamp
                     /\ q # p => cluster'[q] = cluster[q]
                     /\ cluster[q].stamp # 0 /\ q \notin hidden => q \notin hidden'
  BY <1>0, <1>1 DEF Lawful
<1>3. TypeOK'
  BY <1>0, <1>1 DEF IInv, TypeOK
<1>4. Elements(inbox') = IF watching THEN Elements(inbox) \cup {o} ELSE Elements(inbox)
  <2>1. Elements(Append(inbox, o)) = Elements(inbox) \cup {o}
    BY <1>0, ElementsAppend
  <2> QED  BY <1>1, <2>1
<1>5. Elements(inbox) \subseteq Object
  BY <1>0, ElementsIn
<1>6. watching => p \notin hidden'
  BY <1>1 DEF Lawful, IInv, Truthful
<1>7. watching => Told(o, cluster', hidden')
  BY <1>0, <1>1, <1>6 DEF Told, ObjectOf, Lawful
<1>8. Truthful'
  <2>1. \A q \in Pod : cluster'[q].phase \in {"absent", "unbound"} => cluster'[q].stamp = 0
    BY <1>0, <1>1 DEF IInv, Truthful, Lawful
  <2>2. \A x \in Object : Told(x, cluster, hidden) => Told(x, cluster', hidden')
    BY <1>2 DEF Told, Object
  <2>3. \A x \in Elements(inbox') : Told(x, cluster', hidden')
    BY <1>4, <1>5, <1>7, <2>2 DEF IInv, Truthful
  <2>4. \A q \in Pod : ~cache'[q].del => Told(cache'[q], cluster', hidden') /\ cache'[q].pod = q
    <3>1. \A q \in Pod : ~cache[q].del => cache[q] \in Object
      BY DEF IInv, TypeOK, NoObject
    <3> QED  BY <1>1, <2>2, <3>1 DEF IInv, Truthful
  <2>5. watching' => \A q \in hidden' : cluster'[q].phase = "gone"
    <3>1. watching => hidden' = hidden /\ p \notin hidden
      BY <1>1, <1>6
    <3>2. hidden \subseteq Pod
      BY DEF IInv, TypeOK
    <3> QED  BY <1>1, <1>2, <3>1, <3>2 DEF IInv, Truthful
  <2> QED  BY <2>1, <2>3, <2>4, <2>5 DEF Truthful
<1>9. Recorded'
  <2>1. \A n \in Node : Shown(n) \subseteq Shown(n)'
    BY <1>2 DEF Shown
  <2>2. \A q \in seenUID : q \in Pod
    BY DEF IInv, TypeOK
  <2> QED  BY <1>1, <1>2, <2>1, <2>2 DEF IInv, Recorded
<1>10. Covered'
  <2> SUFFICES ASSUME NEW q \in Pod, cluster'[q].stamp # 0, q \notin seenUID, q \notin hidden'
               PROVE  \E x \in Elements(inbox') : x.pod = q /\ x.stamp # 0
    BY <1>1 DEF Covered
  <2>1. q \notin hidden /\ Elements(inbox) \subseteq Elements(inbox')
    BY <1>1, <1>4
  <2>2. CASE cluster[q].stamp # 0
    BY <2>1, <2>2 DEF IInv, Covered
  <2>3. CASE cluster[q].stamp = 0
    <3>1. q = p /\ cluster'[q] = s
      BY <1>0, <1>1, <1>2, <2>3
    <3>2. watching /\ o \in Elements(inbox')
      BY <1>1, <1>4, <2>3, <3>1
    <3>3. o.pod = q /\ o.stamp # 0
      BY <3>1 DEF ObjectOf
    <3> QED  BY <3>2, <3>3
  <2> QED  BY <2>2, <2>3
<1> QED  BY <1>3, <1>8, <1>9, <1>10 DEF IInv

(* Every change of a pod is lawful.                                        *)
LEMMA PodStepKeeps ==
  ASSUME IInv, NEW p \in Pod, PodStep(p)
  PROVE  IInv'
<1>1. /\ cluster[p] \in State /\ clock \in Nat \ {0} /\ cluster \in [Pod -> State]
      /\ cluster[p].phase \in {"absent", "unbound"} => cluster[p].stamp = 0
      /\ Grace \in Nat
  BY BoundAssumption DEF IInv, TypeOK, Truthful
<1>2. CASE Create(p)
  <2>1. Lawful(p, [cluster[p] EXCEPT !.phase = "unbound"])
    BY <1>1, <1>2 DEF Create, Lawful, State
  <2> QED  BY <1>2, <2>1, ChangeKeeps DEF Create
<1>3. CASE Bind(p)
  <2>1. Lawful(p, [cluster[p] EXCEPT !.phase = "bound"])
    BY <1>1, <1>3 DEF Bind, Lawful, State
  <2> QED  BY <1>3, <2>1, ChangeKeeps DEF Bind
<1>4. CASE BecomeReady(p)
  <2>1. Lawful(p, [cluster[p] EXCEPT !.readyAt = clock])
    BY <1>1, <1>4 DEF BecomeReady, Lawful, State
  <2> QED  BY <1>4, <2>1, ChangeKeeps DEF BecomeReady
<1>5. CASE Delete(p)
  <2>1. Lawful(p, [cluster[p] EXCEPT !.stamp = clock + Grace])
    BY <1>1, <1>5 DEF Delete, Lawful, State
  <2> QED  BY <1>5, <2>1, ChangeKeeps DEF Delete
<1>6. CASE Gone(p)
  <2>1. Lawful(p, [cluster[p] EXCEPT !.phase = "gone"])
    BY <1>1, <1>6 DEF Gone, Lawful, State
  <2> QED  BY <1>6, <2>1, ChangeKeeps DEF Gone
<1> QED  BY <1>2, <1>3, <1>4, <1>5, <1>6 DEF PodStep

(* A terminating pod keeps its time; nothing is told by the clock.         *)
LEMMA TickKeeps ==
  ASSUME IInv, Tick
  PROVE  IInv'
<1> USE DEF Tick, informerVars, watcherVars
<1>1. TypeOK'
  BY DEF IInv, TypeOK
<1>2. Truthful' /\ Recorded' /\ Covered'
  BY DEF IInv, Truthful, Recorded, Covered, Told, Shown
<1> QED  BY <1>1, <1>2 DEF IInv

(* What was sent before the watch broke is still on its way.               *)
LEMMA WatchBreaksKeeps ==
  ASSUME IInv, WatchBreaks
  PROVE  IInv'
<1>1. /\ outages' = outages + 1 /\ watching' = FALSE
      /\ UNCHANGED <<clock, cluster, inbox, cache, drain, ready, seenUID, hidden>>
  BY DEF WatchBreaks, clusterVars, watcherVars
<1>2. TypeOK'
  <2>1. TypeOK
    BY DEF IInv
  <2>2. outages' \in Nat
    BY <1>1, <2>1 DEF TypeOK
  <2>3. watching' \in BOOLEAN
    BY <1>1
  <2> QED  BY <1>1, <2>1, <2>2, <2>3, Zenon DEF TypeOK
<1>3. Truthful'
  BY <1>1 DEF IInv, Truthful
<1>4. Recorded' /\ Covered'
  BY <1>1 DEF IInv, Recorded, Covered, Shown
<1> QED  BY <1>2, <1>3, <1>4 DEF IInv

(* Known is the object of the cache or one still in the inbox.             *)
LEMMA KnownIs ==
  ASSUME IInv, NEW p \in Pod, ~Known(p).del
  PROVE  Known(p) \in Object /\ Known(p).pod = p /\ Told(Known(p), cluster, hidden)
<1> DEFINE mine == {i \in 1..Len(inbox) : inbox[i].pod = p}
<1>1. inbox \in Seq(Object) /\ Len(inbox) \in Nat
  BY LenProperties DEF IInv, TypeOK
<1>2. CASE mine = {}
  <2>1. Known(p) = cache[p]
    BY <1>2 DEF Known
  <2>2. cache[p] \in Object \cup {NoObject} /\ NoObject.del
    BY DEF IInv, TypeOK, NoObject
  <2> QED  BY <2>1, <2>2 DEF IInv, Truthful
<1>3. CASE mine # {}
  <2>1. \E i \in mine : \A j \in mine : j <= i
    BY <1>1, <1>3, Greatest
  <2>2. PICK i \in mine : Known(p) = inbox[i]
    BY <1>3, <2>1 DEF Known
  <2>3. inbox[i] \in Object /\ inbox[i] \in Elements(inbox)
    BY <1>1, ElementOfSeq DEF Elements
  <2> QED  BY <2>2, <2>3 DEF IInv, Truthful
<1> QED  BY <1>2, <1>3

(* A list tells what is, and of every drain still under way.               *)
LEMMA ListKeeps ==
  ASSUME IInv, List
  PROVE  IInv'
<1> DEFINE Running == {q \in Pod : cluster[q].phase \in {"unbound", "bound"}}
           Missed == {q \in Pod : ~Known(q).del /\ cluster[q].phase = "gone"}
<1>1. cluster \in [Pod -> State] /\ inbox \in Seq(Object)
  BY DEF IInv, TypeOK
<1>2. IsFiniteSet(Listed) /\ Listed \subseteq Object
  <2> DEFINE f == [p \in Pod |-> ObjectOf(p, cluster[p])]
  <2>1. f \in [Pod -> Object]
    BY <1>1, ObjectTyped
  <2>2. IsFiniteSet({f[p] : p \in Running})
    BY <2>1, FiniteImage
  <2>3. Listed = {f[p] : p \in Running}
    BY DEF Listed
  <2> QED  BY <2>1, <2>2, <2>3
<1>3. IsFiniteSet(Tombstones) /\ \A x \in Tombstones : x \in Object /\ Told(x, cluster, hidden)
  <2> DEFINE g == [p \in Pod |-> [Known(p) EXCEPT !.del = TRUE]]
             T == {g[p] : p \in Pod}
  <2>1. g \in [Pod -> T]
    OBVIOUS
  <2>2. IsFiniteSet({g[p] : p \in Missed})
    BY <2>1, FiniteImage
  <2>3. Tombstones = {g[p] : p \in Missed}
    BY DEF Tombstones
  <2>4. ASSUME NEW p \in Missed
        PROVE  g[p] \in Object /\ Told(g[p], cluster, hidden)
    <3>1. Known(p) \in Object /\ Told(Known(p), cluster, hidden)
      BY KnownIs
    <3>2. g[p] = [Known(p) EXCEPT !.del = TRUE]
      OBVIOUS
    <3> QED  BY <3>1, <3>2 DEF Told, Object
  <2> QED  BY <2>2, <2>3, <2>4
<1>4. PICK s \in Orders(Listed), t \in Orders(Tombstones) : inbox' = inbox \o s \o t
  BY DEF List
<1>5. /\ s \in Seq(Object) /\ Elements(s) = Listed
      /\ t \in Seq(Object) /\ Elements(t) = Tombstones
  BY <1>2, <1>3, OrdersAre, SeqMonotonic
<1>6. inbox' \in Seq(Object) /\ Elements(inbox') = Elements(inbox) \cup Listed \cup Tombstones
  <2>1. inbox \o s \in Seq(Object) /\ Elements(inbox \o s) = Elements(inbox) \cup Listed
    BY <1>1, <1>5, ElementsConcat
  <2> DEFINE u == inbox \o s
  <2>2. u \in Seq(Object) /\ t \in Seq(Object)
    BY <1>5, <2>1
  <2> HIDE DEF u
  <2>3. u \o t \in Seq(Object) /\ Elements(u \o t) = Elements(u) \cup Elements(t)
    BY <2>2, ElementsConcat
  <2> QED  BY <1>4, <1>5, <2>1, <2>3 DEF u
<1> USE DEF List, clusterVars, watcherVars
<1>7. hidden' = {p \in hidden : cluster[p].phase = "gone"} /\ hidden' \subseteq hidden
  OBVIOUS
<1>8. \A x \in Listed : Told(x, cluster, hidden')
  BY <1>1, <1>7 DEF Listed, ObjectOf, Told, IInv, Truthful
<1>9. \A p \in Running : ObjectOf(p, cluster[p]) \in Elements(inbox')
  BY <1>6 DEF Listed
<1>10. TypeOK'
  BY <1>6, <1>7 DEF IInv, TypeOK
<1>11. Truthful'
  <2>1. \A x : Told(x, cluster, hidden) => Told(x, cluster, hidden')
    BY <1>7 DEF Told
  <2>2. \A x \in Elements(inbox') : Told(x, cluster', hidden')
    BY <1>3, <1>6, <1>8, <2>1 DEF IInv, Truthful
  <2> QED  BY <1>7, <2>1, <2>2 DEF IInv, Truthful
<1>12. Recorded'
  <2>1. \A n \in Node : Shown(n) \subseteq Shown(n)'
    BY <1>7 DEF Shown
  <2> QED  BY <1>7, <2>1 DEF IInv, Recorded
<1>13. Covered'
  <2> SUFFICES ASSUME NEW p \in Pod, cluster[p].stamp # 0, p \notin seenUID, p \notin hidden'
               PROVE  \E x \in Elements(inbox') : x.pod = p /\ x.stamp # 0
    BY DEF Covered
  <2>1. CASE p \in hidden
    <3>1. p \in Running
      BY <1>1, <1>7, <2>1 DEF State, IInv, Truthful
    <3>2. ObjectOf(p, cluster[p]).pod = p /\ ObjectOf(p, cluster[p]).stamp = cluster[p].stamp
      BY DEF ObjectOf
    <3> QED  BY <1>9, <3>1, <3>2
  <2>2. CASE p \notin hidden
    BY <1>6, <2>2 DEF IInv, Covered
  <2> QED  BY <2>1, <2>2
<1> QED  BY <1>10, <1>11, <1>12, <1>13 DEF IInv

-----------------------------------------------------------------------------
(* What the handler does of one object, the order of the objects aside.    *)
LEMMA OnPodRecords ==
  ASSUME TypeOK, NEW o \in Object, Told(o, cluster, hidden), OnPod(o)
  PROVE  /\ drain' \in [Node -> Nat] /\ ready' \in [Node -> Nat]
         /\ seenUID' = IF o.stamp # 0 THEN seenUID \cup {o.pod} ELSE seenUID
         /\ \A n \in Node :
              /\ drain[n] # 0 => drain'[n] # 0 /\ drain'[n] <= drain[n]
              /\ drain'[n] # drain[n] =>
                   n = NodeOf(o.pod) /\ drain'[n] = cluster[o.pod].stamp /\ o.pod \notin hidden
              /\ ready[n] <= ready'[n]
         /\ o.stamp # 0 /\ o.pod \notin seenUID =>
              drain'[NodeOf(o.pod)] # 0 /\ drain'[NodeOf(o.pod)] <= cluster[o.pod].stamp
<1>1. /\ o.pod \in Pod /\ NodeOf(o.pod) \in Node /\ o.stamp \in Nat /\ o.readyAt \in Nat
      /\ o.node \in {0, NodeOf(o.pod)} /\ 0 \notin Node
      /\ o.stamp # 0 =>
           o.node = NodeOf(o.pod) /\ o.stamp = cluster[o.pod].stamp /\ o.pod \notin hidden
      /\ drain \in [Node -> Nat] /\ ready \in [Node -> Nat]
  BY NodeAssumption DEF Object, Told, Pod, NodeOf, TypeOK
<1>2. CASE o.node = 0
  BY <1>1, <1>2 DEF OnPod, watcherVars
<1>3. CASE o.node # 0
  <2>1. RecordDrain(o) /\ RecordReady(o)
    BY <1>3 DEF OnPod
  <2>2. /\ ready' \in [Node -> Nat]
        /\ \A n \in Node : ready[n] <= ready'[n]
    BY <1>1, <2>1 DEF RecordReady
  <2>3. CASE o.stamp # 0 /\ o.pod \notin seenUID
    <3>1. /\ seenUID' = seenUID \cup {o.pod}
          /\ drain' = [drain EXCEPT ![o.node] =
                         IF drain[o.node] = 0 \/ o.stamp < drain[o.node] THEN o.stamp ELSE drain[o.node]]
      BY <2>1, <2>3 DEF RecordDrain
    <3> QED  BY <1>1, <2>2, <2>3, <3>1
  <2>4. CASE ~(o.stamp # 0 /\ o.pod \notin seenUID)
    <3>1. UNCHANGED <<seenUID, drain>>
      BY <2>1, <2>4 DEF RecordDrain
    <3> QED  BY <1>1, <2>2, <2>4, <3>1
  <2> QED  BY <2>3, <2>4
<1> QED  BY <1>2, <1>3

(* What is delivered was told, and is recorded.                            *)
LEMMA DeliverKeeps ==
  ASSUME IInv, Deliver
  PROVE  IInv'
<1> DEFINE o == Head(inbox)
<1>1. /\ o \in Object /\ Tail(inbox) \in Seq(Object)
      /\ Elements(inbox) = {o} \cup Elements(Tail(inbox))
  BY ElementsTail DEF Deliver, IInv, TypeOK
<1>2. Told(o, cluster, hidden) /\ OnPod(o) /\ TypeOK
  BY <1>1 DEF Deliver, IInv, Truthful
<1>3. /\ cluster' = cluster /\ inbox' = Tail(inbox)
      /\ cache' = [cache EXCEPT ![o.pod] = IF o.del THEN NoObject ELSE o]
      /\ UNCHANGED <<clock, watching, outages, hidden>>
  BY DEF Deliver, clusterVars
<1>4. o.pod \in Pod /\ NodeOf(o.pod) \in Node /\ cache \in [Pod -> Object \cup {NoObject}]
  BY <1>1, <1>2 DEF Object, TypeOK, Pod, NodeOf
<1>5. TypeOK'
  <2>1. cache' \in [Pod -> Object \cup {NoObject}]
    BY <1>1, <1>3, <1>4
  <2>2. seenUID' \subseteq Pod
    <3>1. seenUID' = IF o.stamp # 0 THEN seenUID \cup {o.pod} ELSE seenUID
      BY <1>1, <1>2, OnPodRecords
    <3>2. seenUID \subseteq Pod
      BY <1>2 DEF TypeOK
    <3> HIDE DEF o
    <3> QED  BY <1>4, <3>1, <3>2
  <2> QED  BY <1>1, <1>2, <1>3, <2>1, <2>2, OnPodRecords DEF TypeOK
<1>6. \A p \in Pod : \/ cache'[p] = cache[p]
                     \/ p = o.pod /\ cache'[p] = NoObject
                     \/ p = o.pod /\ cache'[p] = o
  <2>1. CASE o.del
    BY <1>3, <1>4, <2>1
  <2>2. CASE ~o.del
    BY <1>3, <1>4, <2>2
  <2> QED  BY <2>1, <2>2
<1>7. Truthful'
  <2>1. \A p \in Pod : ~cache'[p].del => Told(cache'[p], cluster, hidden) /\ cache'[p].pod = p
    BY <1>2, <1>6 DEF IInv, Truthful, NoObject
  <2> QED  BY <1>1, <1>3, <2>1 DEF IInv, Truthful
<1>8. Recorded'
  <2>1. ASSUME NEW p \in seenUID'
        PROVE  /\ cluster[p].stamp # 0 /\ p \notin hidden
               /\ drain'[NodeOf(p)] # 0 /\ drain'[NodeOf(p)] <= cluster[p].stamp
    <3>1. CASE p \in seenUID
      <4>1. p \in Pod /\ NodeOf(p) \in Node /\ cluster[p].stamp \in Nat
        BY <3>1 DEF IInv, TypeOK, Pod, NodeOf, State
      <4>2. drain[NodeOf(p)] # 0 /\ drain[NodeOf(p)] <= cluster[p].stamp /\ cluster[p].stamp # 0 /\ p \notin hidden
        BY <3>1 DEF IInv, Recorded
      <4>3. drain'[NodeOf(p)] # 0 /\ drain'[NodeOf(p)] <= drain[NodeOf(p)]
        BY <1>1, <1>2, <4>1, <4>2, OnPodRecords
      <4>4. drain[NodeOf(p)] \in Nat /\ drain'[NodeOf(p)] \in Nat
        BY <1>5, <4>1 DEF IInv, TypeOK
      <4> QED  BY <4>1, <4>2, <4>3, <4>4
    <3>2. CASE p \notin seenUID
      <4>1. p = o.pod /\ o.stamp # 0
        BY <1>1, <1>2, <2>1, <3>2, OnPodRecords
      <4>2. cluster[p].stamp # 0 /\ p \notin hidden
        BY <1>2, <4>1 DEF Told
      <4> QED  BY <1>1, <1>2, <3>2, <4>1, <4>2, OnPodRecords
    <3> QED  BY <3>1, <3>2
  <2>2. ASSUME NEW n \in Node, drain'[n] # 0 PROVE drain'[n] \in Shown(n)
    <3>1. CASE drain'[n] = drain[n]
      BY <2>2, <3>1 DEF IInv, Recorded
    <3>2. CASE drain'[n] # drain[n]
      <4>1. n = NodeOf(o.pod) /\ drain'[n] = cluster[o.pod].stamp /\ o.pod \notin hidden
        BY <1>1, <1>2, <3>2, OnPodRecords
      <4> QED  BY <1>4, <2>2, <4>1 DEF Shown
    <3> QED  BY <3>1, <3>2
  <2>3. \A n \in Node : Shown(n)' = Shown(n)
    BY <1>3 DEF Shown
  <2> QED  BY <1>3, <2>1, <2>2, <2>3 DEF Recorded
<1>9. Covered'
  <2>1. seenUID \subseteq seenUID' /\ (o.stamp # 0 => o.pod \in seenUID')
    BY <1>1, <1>2, OnPodRecords
  <2> QED  BY <1>1, <1>3, <2>1 DEF IInv, Covered
<1> QED  BY <1>5, <1>7, <1>8, <1>9 DEF IInv

\* The invariant is inductive.
LEMMA Invariance == Spec => []IInv
<1>1. IInv /\ [Next]_vars => IInv'
  <2> SUFFICES ASSUME IInv, [Next]_vars PROVE IInv'
    OBVIOUS
  <2>1. CASE UNCHANGED vars
    BY <2>1 DEF vars, clusterVars, informerVars, watcherVars, IInv, TypeOK, Truthful, Recorded,
       Covered, Shown
  <2> QED
    BY <2>1, PodStepKeeps, TickKeeps, ListKeeps, WatchBreaksKeeps, DeliverKeeps DEF Next
<1> QED  BY InitIInv, <1>1, PTL DEF Spec

(* The watcher is typed.                                                   *)
THEOREM TypeCorrect == Spec => []TypeOK
BY Invariance, PTL DEF IInv

(* The window of a node starts at the first drain the informer was shown,  *)
(* once the handler has caught up, and at one of them at all times: for    *)
(* any number of nodes, generations and outages, whatever the lists repeat *)
(* or skip.  A drain that an outage swallowed never starts a window.       *)
THEOREM DrainIsExact == Spec => []DrainExact
<1>1. IInv => DrainExact
  <2> SUFFICES ASSUME IInv, NEW n \in Node, CaughtUp, NEW t \in Shown(n)
               PROVE  drain[n] # 0 /\ drain[n] <= t
    BY DEF DrainExact, IInv, Recorded
  <2>1. PICK p \in Pod : NodeOf(p) = n /\ p \notin hidden /\ cluster[p].stamp = t /\ t # 0
    BY DEF Shown
  <2>2. Elements(inbox) = {}
    BY DEF CaughtUp, Elements
  <2>3. p \in seenUID
    BY <2>1, <2>2 DEF IInv, Covered, CaughtUp
  <2> QED  BY <2>1, <2>3 DEF IInv, Recorded
<1> QED  BY Invariance, <1>1, PTL

(* From one snapshot to the next no window disappears, none starts later,  *)
(* and no readiness is taken back.                                         *)
THEOREM WindowsGrow == Spec => WindowsOnlyGrow
<1>1. IInv /\ [Next]_vars =>
        [\A n \in Node : /\ drain[n] # 0 => drain'[n] # 0 /\ drain'[n] <= drain[n]
                         /\ ready[n] <= ready'[n]]_vars
  <2> SUFFICES ASSUME IInv, Next
               PROVE  \A n \in Node : /\ drain[n] # 0 => drain'[n] # 0 /\ drain'[n] <= drain[n]
                                      /\ ready[n] <= ready'[n]
    OBVIOUS
  <2>1. CASE Deliver
    <3>1. Head(inbox) \in Object /\ Told(Head(inbox), cluster, hidden) /\ OnPod(Head(inbox)) /\ TypeOK
      BY <2>1, ElementsTail DEF Deliver, IInv, TypeOK, Truthful
    <3> QED  BY <3>1, OnPodRecords
  <2>2. CASE ~Deliver
    <3>1. drain' = drain /\ ready' = ready
      BY <2>2 DEF Next, PodStep, Create, Bind, BecomeReady, Delete, Gone, Change, Tick, List,
         WatchBreaks, watcherVars
    <3>2. \A n \in Node : drain[n] \in Nat /\ ready[n] \in Nat
      BY DEF IInv, TypeOK
    <3> QED  BY <3>1, <3>2
  <2> QED  BY <2>1, <2>2
<1> QED  BY Invariance, <1>1, PTL DEF Spec, WindowsOnlyGrow
===============================================================================
