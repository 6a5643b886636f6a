--------------------------- MODULE ClientObserver ----------------------------
(***************************************************************************)
(* live/clients.go: how each demo client weathered the roll, told from     *)
(* pgbouncer's list of connect_times, which does not say whose connection  *)
(* a row is, and corroborated by the client's /hold endpoint.  The clients *)
(* lose and re-establish their connection to the pool while the observer   *)
(* resolves the pods, lists the connections and asks one client after the  *)
(* other.                                                                  *)
(***************************************************************************)
EXTENDS Integers, FiniteSets, FiniteSetsExt

CONSTANTS Client,     \* app-a, app-b, app-c
          Node,
          MayFail,    \* TRUE when pod lookups, SHOW CLIENTS and /hold may fail
          Grace, Eps, \* window length and tolerance
          MaxTime     \* bound: the last second

ASSUME ObserverAssumption ==
  /\ MayFail \in BOOLEAN
  /\ Grace \in Nat /\ Eps \in Nat /\ MaxTime \in Nat
  /\ IsFiniteSet(Client)

VARIABLES clock,
          node,     \* node[c]: where the pod of c runs
          conn,     \* conn[c]: connect_time of its connection, 0 when it has none
          drain,    \* drain[n]: drainingAt of the window of n, 0 before its roll
          phase,    \* of the observer: "run", "list", "ask", "written", "failed"
          window,   \* the drains of watcher.Windows(), as the observer got them
          found,    \* the clients whose pod it resolved
          shown,    \* shown[c]: the connect_time of c it was shown, or 0
          obs       \* obs[c]: the observation of c, for the clients asked so far

clusterVars == <<clock, node, conn, drain>>
vars == <<clusterVars, phase, window, found, shown, obs>>

Zero(S) == [x \in S |-> 0]

\* The clients have been connected since long before the roll.
Init ==
  /\ clock = Eps + 2
  /\ node \in [Client -> Node]
  /\ conn = [c \in Client |-> 1]
  /\ drain = Zero(Node)
  /\ phase = "run"
  /\ window = Zero(Node)
  /\ found = {}
  /\ shown = Zero(Client)
  /\ obs = <<>>

-----------------------------------------------------------------------------
(* The cluster.                                                            *)
observerVars == <<phase, window, found, shown, obs>>

Second ==
  /\ clock < MaxTime
  /\ clock' = clock + 1
  /\ UNCHANGED <<node, conn, drain, observerVars>>

StartRoll(n) ==
  /\ drain[n] = 0
  /\ drain' = [drain EXCEPT ![n] = clock]
  /\ UNCHANGED <<clock, node, conn, observerVars>>

\* By the roll of its node, of the writer's node, or by churn.
LoseConn(c) ==
  /\ conn[c] # 0
  /\ conn' = [conn EXCEPT ![c] = 0]
  /\ UNCHANGED <<clock, node, drain, observerVars>>

Connect(c) ==
  /\ conn[c] = 0
  /\ conn' = [conn EXCEPT ![c] = clock]
  /\ UNCHANGED <<clock, node, drain, observerVars>>

-----------------------------------------------------------------------------
(* What the observer concludes.                                            *)
AttributeClientReset(ts, drainingAt) ==
  /\ ts >= drainingAt - Eps
  /\ ts <= drainingAt + Grace + Eps

\* The demo_app rows that fall in the window of n.
Attributable(n) ==
  {t \in {shown[c] : c \in Client} : t # 0 /\ AttributeClientReset(t, window[n])}

\* Mutant: the first attributable connect_time.
RecoveryOldest(n) == Max({0, Min(Attributable(n)) - window[n]})

\* The newest attributable connect_time, counted from the drain.
Recovery(n) == Max({0, Max(Attributable(n)) - window[n]})

\* Mutant: only the targets already observed are looked at.
CoLocatedAsked(c) == \E d \in (found \cap DOMAIN obs) \ {c} : node[d] = node[c]

\* Another resolved target runs on the node of c.
CoLocated(c) == \E d \in found \ {c} : node[d] = node[c]

\* Mutant: a client without a live connection taken for a reset one.
ClientDecisionNotHeld(n, hold) ==
  IF Attributable(n) # {} THEN [reset |-> TRUE, recovery |-> Recovery(n)]
  ELSE [reset |-> hold = "notHeld", recovery |-> 0]

\* A reset needs a connect_time; /hold goes to the note only.
ClientDecision(n, hold) ==
  IF Attributable(n) # {} THEN [reset |-> TRUE, recovery |-> Recovery(n)]
  ELSE [reset |-> FALSE, recovery |-> 0]

Observation(decision, coLocated) ==
  [reset |-> decision.reset, recovery |-> decision.recovery, coLocated |-> coLocated]

NoReset == [reset |-> FALSE, recovery |-> 0]

-----------------------------------------------------------------------------
(* The observer.                                                           *)
\* The windows are read first.  The postgres pod is needed; a client whose pod
\* lookup fails is warned about and kept.
Resolve ==
  /\ phase = "run"
  /\ window' = drain
  /\ \E f \in IF MayFail THEN SUBSET Client ELSE {Client} : found' = f
  /\ phase' = "list"
  /\ UNCHANGED <<clusterVars, shown, obs>>

\* A writer that cannot be asked is skipped, and its rows with it.
ShowClients ==
  /\ phase = "list"
  /\ \E answering \in IF MayFail THEN SUBSET Client ELSE {Client} :
       shown' = [c \in Client |-> IF c \in answering THEN conn[c] ELSE 0]
  /\ phase' = "ask"
  /\ UNCHANGED <<clusterVars, window, found, obs>>

\* hitHold.
Hold(c) ==
  {IF conn[c] # 0 THEN "held" ELSE "notHeld"}
    \cup (IF MayFail THEN {"unavailable"} ELSE {})

ObserveClient(c) ==
  /\ phase = "ask"
  /\ c \notin DOMAIN obs
  /\ \E hold \in Hold(c) :
       LET decision ==
             IF c \notin found \/ window[node[c]] = 0 THEN NoReset
             ELSE ClientDecision(node[c], hold)
           o == Observation(decision, c \in found /\ CoLocated(c))
       IN  obs' = [d \in DOMAIN obs \cup {c} |-> IF d = c THEN o ELSE obs[d]]
  /\ UNCHANGED <<clusterVars, phase, window, found, shown>>

WriteObservations ==
  /\ phase = "ask"
  /\ DOMAIN obs = Client
  /\ phase' = "written"
  /\ UNCHANGED <<clusterVars, window, found, shown, obs>>

\* No postgres pod, or the writers cannot be listed: nothing is written.
GiveUp ==
  /\ phase = "run"
  /\ MayFail
  /\ phase' = "failed"
  /\ UNCHANGED <<clusterVars, window, found, shown, obs>>

\* The cluster is of no interest once the observations are written.
Cluster ==
  /\ phase \in {"run", "list", "ask"}
  /\ \/ Second
     \/ \E n \in Node : StartRoll(n)
     \/ \E c \in Client : LoseConn(c) \/ Connect(c)

Observer ==
  \/ Resolve \/ ShowClients \/ WriteObservations \/ GiveUp
  \/ \E c \in Client : ObserveClient(c)

Next == Cluster \/ Observer

Spec == Init /\ [][Next]_vars

-----------------------------------------------------------------------------
\* Its own connection was established in the window of its node.
OwnReconnect(c) ==
  /\ shown[c] # 0 /\ window[node[c]] # 0
  /\ AttributeClientReset(shown[c], window[node[c]])

Reconnected == {c \in Client : OwnReconnect(c)}

(* clients.go:212-217: a reset is never made up.  When one is reported,    *)
(* the node of the client rolled and some client re-established a          *)
(* connection in that very window, whatever /hold, a failed lookup or a    *)
(* failed listing said.                                                    *)
NoResetFromNothing ==
  \A c \in DOMAIN obs : obs[c].reset =>
    \E t \in {shown[d] : d \in Client} :
      /\ t # 0 /\ drain[node[c]] # 0
      /\ drain[node[c]] - Eps <= t /\ t <= drain[node[c]] + Grace + Eps

(* A client that came back in its node's window is reported reset, and not *)
(* with a shorter recovery than its own: the newest time wins, whoever it  *)
(* belongs to.                                                             *)
RecoveryNotUnderstated ==
  \A c \in DOMAIN obs : c \in found /\ OwnReconnect(c) =>
    obs[c].reset /\ obs[c].recovery >= shown[c] - window[node[c]]

(* clients_test.go:58-60: the reset of a co-located sibling is not passed  *)
(* off as the client's own without the caveat, as long as the sibling's    *)
(* pod was resolved.                                                       *)
SiblingFlagged ==
  \A c \in DOMAIN obs :
    obs[c].reset /\ ~OwnReconnect(c)
      /\ (\E d \in Reconnected \cap found : node[d] = node[c])
    => obs[c].coLocated
=============================================================================
