------------------------ MODULE ClientObserverProofs -------------------------
(***************************************************************************)
(* What the clients.json of ClientObserver can be trusted with, for any    *)
(* number of clients and nodes, any window length and tolerance, with or   *)
(* without failing lookups.                                                *)
(*                                                                         *)
(* The three properties compare an observation with the connect_times the  *)
(* observer was shown and with the drains of the nodes, both of which the  *)
(* cluster could have moved on from since.  The inductive invariant says   *)
(* that it could not: a window the observer got is the drain of its node   *)
(* for good (Seen), nothing is observed before the rows and the windows    *)
(* are fixed (Quiet), and each observation is bound to them as they were   *)
(* when it was made (Observed).                                            *)
(***************************************************************************)
EXTENDS ClientObserver, TLAPS, WellFoundedInduction

TypeOK ==
  /\ clock \in Nat /\ clock > 0
  /\ node \in [Client -> Node]
  /\ conn \in [Client -> Nat]
  /\ drain \in [Node -> Nat]
  /\ phase \in {"run", "list", "ask", "written", "failed"}
  /\ window \in [Node -> Nat]
  /\ found \in SUBSET Client
  /\ shown \in [Client -> Nat]
  /\ DOMAIN obs \in SUBSET Client
  /\ \A c \in DOMAIN obs :
       /\ obs[c].reset \in BOOLEAN
       /\ obs[c].recovery \in Nat
       /\ obs[c].coLocated \in BOOLEAN

\* Nothing is observed before the rows are there, no window before Resolve.
Quiet ==
  /\ phase \notin {"ask", "written"} => DOMAIN obs = {}
  /\ phase = "run" => \A n \in Node : window[n] = 0

\* A window is the drain of its node.
Seen == \A n \in Node : window[n] # 0 => window[n] = drain[n]

\* A connect_time that was shown falls in the window of n.
InWindow(n) ==
  \E d \in Client : shown[d] # 0 /\ AttributeClientReset(shown[d], window[n])

\* What binds the observation o of c to what the observer was shown.
Bound(c, o) ==
  /\ o.reset => c \in found /\ window[node[c]] # 0 /\ InWindow(node[c])
  /\ c \in found /\ OwnReconnect(c) =>
       o.reset /\ o.recovery >= shown[c] - window[node[c]]
  /\ c \in found /\ CoLocated(c) => o.coLocated

Observed == \A c \in DOMAIN obs : Bound(c, obs[c])

IInv == TypeOK /\ Quiet /\ Seen /\ Observed

-----------------------------------------------------------------------------
(* The newest time.                                                        *)
(* Max gives the greatest element of a set of naturals that has a bound:   *)
(* the one whose distance to the bound is the smallest.                    *)
LEMMA MaxOfBounded ==
  ASSUME NEW n \in Nat, NEW S \in SUBSET (0..n), S # {}
  PROVE  Max(S) \in S /\ \A x \in S : Max(S) >= x
<1>. DEFINE R == OpToRel(<, Nat)
            distance == {n - x : x \in S}
<1>1. distance \subseteq Nat /\ distance # {}
  <2>1. \A x \in S : n - x \in Nat /\ n - x \in distance
    OBVIOUS
  <2>. QED  BY <2>1
<1>2. PICK d \in distance : \A e \in distance : <<e, d>> \notin R
  BY <1>1, NatLessThanWellFounded, WFMin
<1>3. \A e \in distance : ~(e < d)
  BY <1>1, <1>2 DEF OpToRel
<1>4. PICK m \in S : d = n - m
  OBVIOUS
<1>5. \A x \in S : m >= x
  <2>. TAKE x \in S
  <2>1. n - x \in distance
    OBVIOUS
  <2>2. ~(n - x < n - m)
    BY <1>3, <1>4, <2>1
  <2>. QED  BY <2>2
<1>. QED  BY <1>5 DEF Max

(* A difference that is counted from 0 up.                                 *)
LEMMA MaxOfTwo ==
  ASSUME NEW i \in Int
  PROVE  Max({0, i}) \in Nat /\ Max({0, i}) >= i
<1>1. CASE i >= 0
  <2>1. \E m \in {0, i} : \A x \in {0, i} : m >= x
    BY <1>1
  <2>. QED  BY <2>1 DEF Max
<1>2. CASE i < 0
  <2>1. \E m \in {0, i} : \A x \in {0, i} : m >= x
    BY <1>2
  <2>. QED  BY <2>1 DEF Max
<1>. QED  BY <1>1, <1>2

(* The recovery of a client whose window has an attributable time is a     *)
(* natural, and not below what any of these times gives.                   *)
LEMMA NewestWins ==
  ASSUME TypeOK, NEW n \in Node, Attributable(n) # {}
  PROVE  /\ Recovery(n) \in Nat
         /\ \A t \in Attributable(n) : Recovery(n) >= t - window[n]
<1>. DEFINE S == Attributable(n)
            bound == window[n] + Grace + Eps
<1>1. window[n] \in Nat /\ bound \in Nat
  BY ObserverAssumption DEF TypeOK
<1>2. S \in SUBSET (0..bound)
  BY <1>1, ObserverAssumption DEF TypeOK, Attributable, AttributeClientReset
<1>3. Max(S) \in S /\ \A t \in S : Max(S) >= t
  BY <1>1, <1>2, MaxOfBounded
<1>4. Max(S) \in Nat
  BY <1>1, <1>2, <1>3
<1>5. /\ Recovery(n) \in Nat
      /\ Recovery(n) >= Max(S) - window[n]
  BY <1>1, <1>4, MaxOfTwo DEF Recovery
<1>6. ASSUME NEW t \in S
      PROVE  Recovery(n) >= t - window[n]
  <2>1. t \in Nat /\ Max(S) >= t
    BY <1>1, <1>2, <1>3
  <2>. HIDE DEF S
  <2>. QED  BY <1>1, <1>4, <1>5, <2>1
<1>. QED  BY <1>5, <1>6

(* A client whose own reconnection is in its window is one that gives it   *)
(* an attributable time.                                                   *)
LEMMA AttributableInWindow ==
  ASSUME NEW n \in Node
  PROVE  Attributable(n) # {} <=> InWindow(n)
BY DEF Attributable, InWindow

(* What one observation concludes is bound to what was shown.              *)
LEMMA DecisionBound ==
  ASSUME TypeOK, NEW c \in Client, NEW hold,
         NEW decision,
         decision = IF c \notin found \/ window[node[c]] = 0 THEN NoReset
                    ELSE ClientDecision(node[c], hold),
         NEW o, o = Observation(decision, c \in found /\ CoLocated(c))
  PROVE  /\ o.reset \in BOOLEAN /\ o.recovery \in Nat /\ o.coLocated \in BOOLEAN
         /\ Bound(c, o)
<1>1. node[c] \in Node /\ window[node[c]] \in Nat /\ shown[c] \in Nat
  BY DEF TypeOK
<1>2. o.reset = decision.reset /\ o.recovery = decision.recovery
      /\ o.coLocated = (c \in found /\ CoLocated(c))
  BY DEF Observation
<1>3. o.coLocated \in BOOLEAN
  BY <1>2 DEF CoLocated
<1>4. CASE c \notin found \/ window[node[c]] = 0
  <2>1. ~o.reset /\ o.reset \in BOOLEAN /\ o.recovery = 0
    BY <1>2, <1>4 DEF NoReset
  <2>2. ~(c \in found /\ OwnReconnect(c))
    BY <1>4 DEF OwnReconnect
  <2>. QED  BY <1>2, <1>3, <2>1, <2>2 DEF Bound
<1>5. CASE ~(c \notin found \/ window[node[c]] = 0) /\ Attributable(node[c]) = {}
  <2>1. ~o.reset /\ o.reset \in BOOLEAN /\ o.recovery = 0
    BY <1>2, <1>5 DEF ClientDecision
  <2>2. ~OwnReconnect(c)
    BY <1>5 DEF OwnReconnect, Attributable
  <2>. QED  BY <1>2, <1>3, <2>1, <2>2 DEF Bound
<1>6. CASE ~(c \notin found \/ window[node[c]] = 0) /\ Attributable(node[c]) # {}
  <2>1. o.reset = TRUE /\ o.recovery = Recovery(node[c])
    BY <1>2, <1>6 DEF ClientDecision
  <2>2. InWindow(node[c])
    BY <1>1, <1>6, AttributableInWindow
  <2>3. o.recovery \in Nat
    BY <1>1, <1>6, <2>1, NewestWins
  <2>4. OwnReconnect(c) => o.recovery >= shown[c] - window[node[c]]
    <3>1. OwnReconnect(c) => shown[c] \in Attributable(node[c])
      BY DEF OwnReconnect, Attributable
    <3>. QED  BY <1>1, <1>6, <2>1, <3>1, NewestWins
  <2>. QED  BY <1>2, <1>3, <1>6, <2>1, <2>2, <2>3, <2>4 DEF Bound
<1>. QED  BY <1>4, <1>5, <1>6

-----------------------------------------------------------------------------
(* The inductive invariant.                                                *)
LEMMA InitIInv == Init => IInv
<1>. SUFFICES ASSUME Init PROVE IInv
  OBVIOUS
<1>1. DOMAIN obs = {}
  BY DEF Init
<1>2. clock \in Nat /\ clock > 0
  BY ObserverAssumption DEF Init
<1>3. TypeOK
  BY <1>1, <1>2 DEF Init, TypeOK, Zero
<1>4. Quiet /\ Seen /\ Observed
  BY <1>1 DEF Init, Quiet, Seen, Observed, Zero
<1>. QED  BY <1>3, <1>4 DEF IInv

(* What an observation is bound to is not of the cluster: as long as the   *)
(* rows, the windows and the pods found stay, it stays.                    *)
LEMMA BoundStays ==
  ASSUME IInv, UNCHANGED <<node, window, found, shown, obs>>
  PROVE  Observed'
<1>1. \A c \in DOMAIN obs : Bound(c, obs[c])' <=> Bound(c, obs[c])
  BY DEF Bound, InWindow, OwnReconnect, CoLocated, AttributeClientReset
<1>. QED  BY <1>1 DEF IInv, Observed

(* The cluster moves on under the observer: time passes, a node rolls, a   *)
(* connection is lost or comes back.                                       *)
LEMMA ClusterKeeps ==
  ASSUME IInv, Cluster
  PROVE  IInv'
<1>1. UNCHANGED <<node, observerVars>>
  BY DEF Cluster, Second, StartRoll, LoseConn, Connect
<1>2. /\ clock' \in Nat /\ clock' > 0
      /\ conn' \in [Client -> Nat]
      /\ drain' \in [Node -> Nat]
  BY DEF IInv, TypeOK, Cluster, Second, StartRoll, LoseConn, Connect
<1>3. \A n \in Node : drain[n] # 0 => drain'[n] = drain[n]
  BY DEF IInv, TypeOK, Cluster, Second, StartRoll, LoseConn, Connect
<1>4. TypeOK'
  BY <1>1, <1>2 DEF IInv, TypeOK, observerVars
<1>5. Quiet' /\ Seen'
  BY <1>1, <1>3 DEF IInv, Quiet, Seen, observerVars
<1>6. Observed'
  BY <1>1, BoundStays DEF observerVars
<1>. QED  BY <1>4, <1>5, <1>6 DEF IInv

(* The windows are those of the drains so far.                             *)
LEMMA ResolveKeeps ==
  ASSUME IInv, Resolve
  PROVE  IInv'
<1>1. DOMAIN obs' = {} /\ found' \in SUBSET Client
  BY DEF IInv, Quiet, Resolve
<1>. QED
  BY <1>1 DEF IInv, TypeOK, Quiet, Seen, Observed, Resolve, clusterVars

\* The rows are fixed before the first observation.
LEMMA ShowClientsKeeps ==
  ASSUME IInv, ShowClients
  PROVE  IInv'
<1>1. DOMAIN obs' = {} /\ shown' \in [Client -> Nat]
  BY DEF IInv, TypeOK, Quiet, ShowClients
<1>. QED
  BY <1>1 DEF IInv, TypeOK, Quiet, Seen, Observed, ShowClients, clusterVars

\* One more observation is bound to what was shown, and the others stay.
LEMMA ObserveClientKeeps ==
  ASSUME IInv, NEW c \in Client, ObserveClient(c)
  PROVE  IInv'
<1>1. PICK hold \in Hold(c) :
        LET decision ==
              IF c \notin found \/ window[node[c]] = 0 THEN NoReset
              ELSE ClientDecision(node[c], hold)
            o == Observation(decision, c \in found /\ CoLocated(c))
        IN  obs' = [d \in DOMAIN obs \cup {c} |-> IF d = c THEN o ELSE obs[d]]
  BY DEF ObserveClient
<1>. DEFINE decision == IF c \notin found \/ window[node[c]] = 0 THEN NoReset
                        ELSE ClientDecision(node[c], hold)
            o == Observation(decision, c \in found /\ CoLocated(c))
<1>2. obs' = [d \in DOMAIN obs \cup {c} |-> IF d = c THEN o ELSE obs[d]]
  BY <1>1
<1>3. /\ o.reset \in BOOLEAN /\ o.recovery \in Nat /\ o.coLocated \in BOOLEAN
      /\ Bound(c, o)
  BY DecisionBound DEF IInv
<1>. HIDE DEF decision, o
<1>4. UNCHANGED <<clusterVars, phase, window, found, shown>> /\ phase = "ask"
      /\ c \notin DOMAIN obs
  BY DEF ObserveClient
<1>5. TypeOK'
  BY <1>2, <1>3, <1>4 DEF IInv, TypeOK, clusterVars
<1>6. Quiet' /\ Seen'
  BY <1>4 DEF IInv, Quiet, Seen, clusterVars
<1>7. Observed'
  <2>1. \A d \in DOMAIN obs' : Bound(d, obs'[d])
    BY <1>2, <1>3 DEF IInv, Observed
  <2>2. \A d \in DOMAIN obs' : Bound(d, obs[d])'
    BY <1>4, <2>1
       DEF clusterVars, Bound, InWindow, OwnReconnect, CoLocated, AttributeClientReset
  <2>. QED  BY <2>2 DEF Observed
<1>. QED  BY <1>5, <1>6, <1>7 DEF IInv

\* Writing the file concludes nothing.
LEMMA WriteObservationsKeeps ==
  ASSUME IInv, WriteObservations
  PROVE  IInv'
<1>1. TypeOK' /\ Quiet' /\ Seen'
  BY DEF IInv, TypeOK, Quiet, Seen, WriteObservations, clusterVars
<1>2. Observed'
  BY BoundStays DEF WriteObservations, clusterVars
<1>. QED  BY <1>1, <1>2 DEF IInv

\* Nor does giving up.
LEMMA GiveUpKeeps ==
  ASSUME IInv, GiveUp
  PROVE  IInv'
<1>1. TypeOK' /\ Quiet' /\ Seen'
  BY DEF IInv, TypeOK, Quiet, Seen, GiveUp, clusterVars
<1>2. Observed'
  BY BoundStays DEF GiveUp, clusterVars
<1>. QED  BY <1>1, <1>2 DEF IInv

\* The invariant is inductive.
LEMMA Invariance == Spec => []IInv
<1>1. IInv /\ [Next]_vars => IInv'
  <2>. SUFFICES ASSUME IInv, [Next]_vars PROVE IInv'
    OBVIOUS
  <2>1. CASE UNCHANGED vars
    <3>1. TypeOK' /\ Quiet' /\ Seen'
      BY <2>1 DEF vars, clusterVars, IInv, TypeOK, Quiet, Seen
    <3>2. Observed'
      BY <2>1, BoundStays DEF vars, clusterVars
    <3>. QED  BY <3>1, <3>2 DEF IInv
  <2>. QED
    BY <2>1, ClusterKeeps, ResolveKeeps, ShowClientsKeeps, ObserveClientKeeps,
       WriteObservationsKeeps, GiveUpKeeps DEF Next, Observer
<1>. QED  BY InitIInv, <1>1, PTL DEF Spec

-----------------------------------------------------------------------------
(* The observer is typed.                                                  *)
THEOREM TypeCorrect == Spec => []TypeOK
<1>1. IInv => TypeOK
  BY DEF IInv
<1>. QED  BY Invariance, <1>1, PTL

(* clients.go:212-217: a reset that clients.json reports comes with a      *)
(* rolled node and a connect_time in its window, whatever failed.          *)
THEOREM ResetsHaveEvidence == Spec => []NoResetFromNothing
<1>1. IInv => NoResetFromNothing
  <2>. SUFFICES ASSUME IInv, NEW c \in DOMAIN obs, obs[c].reset
                PROVE  \E t \in {shown[d] : d \in Client} :
                         /\ t # 0 /\ drain[node[c]] # 0
                         /\ drain[node[c]] - Eps <= t
                         /\ t <= drain[node[c]] + Grace + Eps
    BY DEF NoResetFromNothing
  <2>1. window[node[c]] # 0 /\ InWindow(node[c])
    BY DEF IInv, Observed, Bound
  <2>2. node[c] \in Node
    BY DEF IInv, TypeOK
  <2>3. window[node[c]] = drain[node[c]]
    BY <2>1, <2>2 DEF IInv, Seen
  <2>4. PICK d \in Client :
          shown[d] # 0 /\ AttributeClientReset(shown[d], window[node[c]])
    BY <2>1 DEF InWindow
  <2>5. drain[node[c]] \in Nat /\ shown[d] \in Nat
    BY <2>2 DEF IInv, TypeOK
  <2>6. drain[node[c]] - Eps <= shown[d] /\ shown[d] <= drain[node[c]] + Grace + Eps
    BY <2>3, <2>4, <2>5, ObserverAssumption DEF AttributeClientReset
  <2>. QED  BY <2>1, <2>3, <2>4, <2>6
<1>. QED  BY Invariance, <1>1, PTL

(* A client that came back in its window is reported reset, with no        *)
(* shorter recovery than its own.                                          *)
THEOREM RecoveryIsFair == Spec => []RecoveryNotUnderstated
<1>1. IInv => RecoveryNotUnderstated
  BY DEF IInv, Observed, Bound, RecoveryNotUnderstated
<1>. QED  BY Invariance, <1>1, PTL

(* The reset of a resolved sibling on the same node carries the caveat.    *)
THEOREM SiblingsFlagged == Spec => []SiblingFlagged
<1>1. IInv => SiblingFlagged
  <2>. SUFFICES ASSUME IInv, NEW c \in DOMAIN obs,
                       obs[c].reset, ~OwnReconnect(c),
                       NEW d \in Reconnected \cap found, node[d] = node[c]
                PROVE  obs[c].coLocated
    BY DEF SiblingFlagged
  <2>1. c \in found
    BY DEF IInv, Observed, Bound
  <2>2. d # c /\ d \in found
    BY DEF Reconnected
  <2>3. CoLocated(c)
    BY <2>2 DEF CoLocated
  <2>. QED  BY <2>1, <2>3 DEF IInv, Observed, Bound
<1>. QED  BY Invariance, <1>1, PTL

=============================================================================
