---------------------------- MODULE RollWatcher -----------------------------
(***************************************************************************)
(* live.RollWatcher: the informer handler that turns what the API server   *)
(* says of the ztunnel pods into one roll window per node.                 *)
(*                                                                         *)
(* The handler is onPod (OnPod below); the API server, the DaemonSet       *)
(* controller and the client-go informer around it are modelled as far as  *)
(* the handler can tell: pods are replaced generation by generation, the   *)
(* watch delivers their objects in order, and after an outage the informer *)
(* lists again, skipping the states in between and replacing the deletions *)
(* it missed by tombstones of the last state it knew.  A pod may be        *)
(* deleted, and be gone, before the informer is back.                      *)
(*                                                                         *)
(* Times are the whole seconds of the API server's stamps; 0 is nil.       *)
(***************************************************************************)
EXTENDS Integers, Sequences, FiniteSets

CONSTANTS Node,       \* the nodes of the cluster
          MaxGen,     \* bound: replacements of a node's ztunnel pod
          MaxTime,    \* bound: the last second
          MaxOutage,  \* bound: times the watch is lost
          MaxInbox,   \* bound: watch notifications under way
          Grace       \* terminationGracePeriodSeconds, in those seconds

ASSUME NodeAssumption == IsFiniteSet(Node) /\ 0 \notin Node
ASSUME BoundAssumption ==
  /\ MaxGen \in Nat /\ MaxTime \in Nat \ {0} /\ MaxOutage \in Nat /\ MaxInbox \in Nat
  /\ Grace \in Nat \ {0}

VARIABLES clock,    \* the API server's clock
          cluster,  \* cluster[p]: the pod p, with what is left of it once gone
          watching, \* the informer's watch is established
          outages,  \* times it was lost
          inbox,    \* notifications on their way to the handler, in order
          cache,    \* cache[p]: the object last delivered, if not deleted since
          drain,    \* drain[n]: earliest drainingAt seen on n
          ready,    \* ready[n]: latest readyAt seen on n
          seenUID,  \* pods already recorded as draining
          hidden    \* history: pods deleted during an outage, not listed since

clusterVars == <<clock, cluster>>
informerVars == <<watching, outages, inbox, cache>>
watcherVars == <<drain, ready, seenUID>>
vars == <<clusterVars, informerVars, watcherVars, hidden>>

\* A pod is a node and a generation; the pair stands for its UID.
Pod == Node \X (0..MaxGen)
NodeOf(p) == p[1]
GenOf(p) == p[2]

NoObject == [del |-> TRUE]

\* What a notification carries: spec.nodeName (0 until the pod is bound),
\* deletionTimestamp, the time of a true Ready condition, and whether it is a
\* deletion.
ObjectOf(p, s) ==
  [pod |-> p, node |-> IF s.phase = "unbound" THEN 0 ELSE NodeOf(p),
   stamp |-> s.stamp, readyAt |-> s.readyAt, del |-> s.phase = "gone"]

-----------------------------------------------------------------------------
\* The first generation runs and is Ready; the informer is yet to list.
Init ==
  /\ clock = 1
  /\ cluster = [p \in Pod |-> IF GenOf(p) = 0
                              THEN [phase |-> "bound", stamp |-> 0, readyAt |-> 1]
                              ELSE [phase |-> "absent", stamp |-> 0, readyAt |-> 0]]
  /\ watching = FALSE
  /\ outages = 0
  /\ inbox = <<>>
  /\ cache = [p \in Pod |-> NoObject]
  /\ drain = [n \in Node |-> 0]
  /\ ready = [n \in Node |-> 0]
  /\ seenUID = {}
  /\ hidden = {}

-----------------------------------------------------------------------------
\* A pod changes; the watch, when there is one, carries the new object.
Change(p, s) ==
  /\ Len(inbox) < MaxInbox
  /\ cluster' = [cluster EXCEPT ![p] = s]
  /\ inbox' = IF watching THEN Append(inbox, ObjectOf(p, s)) ELSE inbox
  /\ hidden' = IF cluster[p].stamp = 0 /\ s.stamp # 0 /\ ~watching
               THEN hidden \cup {p} ELSE hidden
  /\ UNCHANGED <<clock, watching, outages, cache, watcherVars>>

\* The next generation, one surge pod at a time: a node has at most two pods.
Create(p) ==
  /\ cluster[p].phase = "absent"
  /\ \A q \in Pod : NodeOf(q) = NodeOf(p) =>
       /\ GenOf(q) < GenOf(p) => cluster[q].phase # "absent"
       /\ GenOf(q) < GenOf(p) - 1 => cluster[q].phase = "gone"
  /\ Change(p, [cluster[p] EXCEPT !.phase = "unbound"])

Bind(p) ==
  /\ cluster[p].phase = "unbound"
  /\ Change(p, [cluster[p] EXCEPT !.phase = "bound"])

BecomeReady(p) ==
  /\ cluster[p].phase = "bound"
  /\ cluster[p].stamp = 0
  /\ cluster[p].readyAt = 0
  /\ Change(p, [cluster[p] EXCEPT !.readyAt = clock])

\* A rolling update, an eviction or kubectl delete: the pod is Terminating.  Its
\* deletionTimestamp is the time of the request plus the grace period.
Delete(p) ==
  /\ cluster[p].phase = "bound"
  /\ cluster[p].stamp = 0
  /\ Change(p, [cluster[p] EXCEPT !.stamp = clock + Grace])

\* Its connections are gone sooner, or the grace period is over.
Gone(p) ==
  /\ cluster[p].phase = "bound"
  /\ cluster[p].stamp # 0
  /\ Change(p, [cluster[p] EXCEPT !.phase = "gone"])

\* No pod terminates for longer than the grace period.
Tick ==
  /\ clock < MaxTime
  /\ \A p \in Pod :
       cluster[p].phase = "bound" /\ cluster[p].stamp # 0 => clock < cluster[p].stamp
  /\ clock' = clock + 1
  /\ UNCHANGED <<cluster, informerVars, watcherVars, hidden>>

-----------------------------------------------------------------------------
\* The informer's latest knowledge of p, delivered or on its way.
Known(p) ==
  LET mine == {i \in 1..Len(inbox) : inbox[i].pod = p}
  IN  IF mine = {} THEN cache[p]
      ELSE inbox[CHOOSE i \in mine : \A j \in mine : j <= i]

\* The orders in which a set can be delivered.
Orders(S) ==
  {s \in [1..Cardinality(S) -> S] : \A x \in S : \E i \in 1..Cardinality(S) : s[i] = x}

Listed == {ObjectOf(p, cluster[p]) : p \in {q \in Pod : cluster[q].phase \in {"unbound", "bound"}}}

\* cache.DeletedFinalStateUnknown: known, and no longer in the list.
Tombstones ==
  {[Known(p) EXCEPT !.del = TRUE] :
     p \in {q \in Pod : ~Known(q).del /\ cluster[q].phase = "gone"}}

\* The first list of the informer, and the one after each outage.
List ==
  /\ ~watching
  /\ watching' = TRUE
  /\ \E s \in Orders(Listed), t \in Orders(Tombstones) : inbox' = inbox \o s \o t
  /\ hidden' = {p \in hidden : cluster[p].phase = "gone"}
  /\ UNCHANGED <<clusterVars, outages, cache, watcherVars>>

\* What was sent before is received (what is lost on its way was sent after).
WatchBreaks ==
  /\ watching
  /\ outages < MaxOutage
  /\ watching' = FALSE
  /\ outages' = outages + 1
  /\ UNCHANGED <<clusterVars, inbox, cache, watcherVars, hidden>>

-----------------------------------------------------------------------------
\* Mutant: the last drain kept in place of the first.
RecordDrainLast(o) ==
  IF o.stamp # 0 /\ o.pod \notin seenUID
  THEN /\ seenUID' = seenUID \cup {o.pod}
       /\ drain' = [drain EXCEPT ![o.node] = o.stamp]
  ELSE UNCHANGED <<seenUID, drain>>

\* The earliest drain per node, recorded once per pod.
RecordDrain(o) ==
  IF o.stamp # 0 /\ o.pod \notin seenUID
  THEN /\ seenUID' = seenUID \cup {o.pod}
       /\ drain' = [drain EXCEPT ![o.node] =
                      IF @ = 0 \/ o.stamp < @ THEN o.stamp ELSE @]
  ELSE UNCHANGED <<seenUID, drain>>

\* Mutant: the readiness heard of last, not the latest.
RecordReadyLast(o) ==
  IF o.stamp = 0 /\ o.readyAt # 0
  THEN ready' = [ready EXCEPT ![o.node] = o.readyAt]
  ELSE UNCHANGED ready

\* The latest readiness per node, of a pod that is not terminating.
RecordReady(o) ==
  IF o.stamp = 0 /\ o.readyAt # 0
  THEN ready' = [ready EXCEPT ![o.node] =
                   IF @ = 0 \/ o.readyAt > @ THEN o.readyAt ELSE @]
  ELSE UNCHANGED ready

\* Mutant: only the DeleteFunc of the handler is registered.
OnPodDeleted(o) ==
  IF o.node = 0 \/ ~o.del
  THEN UNCHANGED watcherVars
  ELSE RecordDrain(o) /\ RecordReady(o)

\* onPod, for additions, updates, deletions and tombstones alike.
OnPod(o) ==
  IF o.node = 0
  THEN UNCHANGED watcherVars
  ELSE RecordDrain(o) /\ RecordReady(o)

Deliver ==
  /\ inbox # <<>>
  /\ OnPod(Head(inbox))
  /\ cache' = [cache EXCEPT ![Head(inbox).pod] =
                 IF Head(inbox).del THEN NoObject ELSE Head(inbox)]
  /\ inbox' = Tail(inbox)
  /\ UNCHANGED <<clusterVars, watching, outages, hidden>>

PodStep(p) ==
  Create(p) \/ Bind(p) \/ BecomeReady(p) \/ Delete(p) \/ Gone(p)

Next ==
  \/ \E p \in Pod : PodStep(p)
  \/ Tick
  \/ List
  \/ WatchBreaks
  \/ Deliver

Spec == Init /\ [][Next]_vars

\* The informer lists until it succeeds and its queue is drained.
FairSpec == Spec /\ WF_vars(List) /\ WF_vars(Deliver)

-----------------------------------------------------------------------------
\* (*RollWatcher).Windows.  Go iterates the map in any order: a set.
WindowOf(n) ==
  [node |-> n, drainingAt |-> drain[n], graceExpiresAt |-> drain[n] + Grace,
   readyAt |-> ready[n]]

Windows == {WindowOf(n) : n \in {m \in Node : drain[m] # 0}}

-----------------------------------------------------------------------------
\* The terminations of n that a watch or a list has shown; not those that began
\* and ended during one outage, nor one that still waits for the next list.
Shown(n) == {cluster[p].stamp : p \in {q \in Pod : NodeOf(q) = n /\ q \notin hidden}} \ {0}

\* The handler has been told everything the informer knows.
CaughtUp == watching /\ inbox = <<>>

(* The window of a node starts at the first drain the informer was shown:  *)
(* whatever the outages, lists, repeated objects, tombstones and second    *)
(* rolls on the way, no window starts at anything else, and none is        *)
(* missing or late once the handler has caught up.  A drain that an outage *)
(* swallowed leaves no window: its tombstone carries no deletionTimestamp. *)
DrainExact ==
  \A n \in Node :
    /\ drain[n] # 0 => drain[n] \in Shown(n)
    /\ CaughtUp =>
         \A t \in Shown(n) : drain[n] # 0 /\ drain[n] <= t

(* Between two snapshots (measure.go takes one for the client observations *)
(* and one for the analyzer) no window disappears, none starts later, and  *)
(* a node that had a readyAt keeps one.                                    *)
WindowsOnlyGrow ==
  [][\A n \in Node :
       /\ drain[n] # 0 => drain'[n] # 0 /\ drain'[n] <= drain[n]
       /\ ready[n] <= ready'[n]]_vars

(* A drain is missed only if the pod was deleted and gone within one       *)
(* outage: one that is watched, or lasts until the next list, is recorded, *)
(* though the watch be lost before, in the middle or after.                *)
DrainSeen ==
  \A p \in Pod :
    cluster[p].stamp # 0 ~> \/ p \in hidden /\ cluster[p].phase = "gone"
                            \/ /\ p \in seenUID
                               /\ drain[NodeOf(p)] # 0
                               /\ drain[NodeOf(p)] <= cluster[p].stamp

(* rollwatch.go:122-124: readyAt is attached when the NEW pod of the node  *)
(* became Ready, and is nil (half-open) until then.                        *)
ReadyIsNewPod ==
  \A w \in Windows : w.readyAt # 0 =>
    \E p \in Pod : NodeOf(p) = w.node /\ GenOf(p) > 0 /\ cluster[p].readyAt # 0
=============================================================================
