--------------------------- MODULE MeasuredStream ---------------------------
(***************************************************************************)
(* One measurement: the held connections write the stream that HeldStream  *)
(* promises, each event stamped with the time; new connections may fail;   *)
(* and at any moment the analyzer may be asked for its verdict on the logs *)
(* (measure.collectEvents) and on the windows of the watcher, at most one  *)
(* per node and in an arbitrary order (RollWatcher.Windows).               *)
(*                                                                         *)
(* Keepalives, which Analyze does not read, are left out.                  *)
(***************************************************************************)
EXTENDS HeldStream, Observation

CONSTANTS MaxFailure,     \* bound: failed new connections of a pod
          WindowChoices   \* the windows a watcher may have observed

Window == [node : Nat, drainingAt : Nat, graceExpiresAt : Nat, readyAt : Nat]

ASSUME FailureAssumption == MaxFailure \in Nat
ASSUME WorkersAssumption == IsFiniteSet(Worker)

\* One window per node, all as long as the grace period, which is longer than
\* the tolerance.
ASSUME WindowAssumption ==
  \A ws \in WindowChoices :
    /\ ws \in Seq(Window)
    /\ \A i \in DOMAIN ws : ws[i].drainingAt + Eps < ws[i].graceExpiresAt
    /\ \A i, j \in DOMAIN ws :
         /\ ws[i].node = ws[j].node => i = j
         /\ ws[i].graceExpiresAt - ws[i].drainingAt = ws[j].graceExpiresAt - ws[j].drainingAt

VARIABLES stamp,     \* stamp[w][i]: the time of out[w][i]
          failures   \* failures[w]: failed new connections

inputVars == <<windows, prereq>>
measureVars == <<streamVars, clock, stamp, failures, inputVars>>

MeasureInit ==
  /\ Init
  /\ clock = 0
  /\ stamp = [w \in Worker |-> <<>>]
  /\ failures = [w \in Worker |-> 0]
  /\ windows \in WindowChoices
  /\ prereq \in BOOLEAN

\* A step of the stream, and the ts of the event it writes, if any.
StreamStep(w) ==
  /\ EstablishFirst(w) \/ EstablishNext(w) \/ Broken(w) \/ Closed(w)
  /\ stamp' = [stamp EXCEPT ![w] = IF out'[w] = out[w] THEN @ ELSE Append(@, clock)]
  /\ UNCHANGED <<clock, failures, inputVars>>

NewConnFails(w) ==
  /\ failures[w] < MaxFailure
  /\ failures' = [failures EXCEPT ![w] = @ + 1]
  /\ UNCHANGED <<streamVars, clock, stamp, inputVars>>

Tick ==
  /\ clock < MaxTime
  /\ clock' = clock + 1
  /\ UNCHANGED <<streamVars, stamp, failures, inputVars>>

MeasureNext ==
  \/ \E w \in Worker : StreamStep(w) \/ NewConnFails(w)
  \/ Tick

MeasureSpec == MeasureInit /\ [][MeasureNext]_measureVars

-----------------------------------------------------------------------------
\* The lines of a pod's log, the failures after the held connection's events;
\* no two workers share a connId.
Line == {l \in Worker \X (1..(2 * MaxConn + MaxFailure)) :
           l[2] <= Len(out[l[1]]) + failures[l[1]]}

Events ==
  [l \in Line |->
     IF l[2] <= Len(out[l[1]])
     THEN [kind |-> out[l[1]][l[2]].kind, conn |-> <<l[1], out[l[1]][l[2]].conn>>,
           ts |-> stamp[l[1]][l[2]]]
     ELSE [kind |-> "NewConnAttemptFail", conn |-> <<l[1], 0>>, ts |-> clock]]

Input == [events |-> Events, windows |-> windows, prereq |-> prereq]

-----------------------------------------------------------------------------
(* What a clean run is, told from the logs and the windows without ids,    *)
(* attribution or aggregation: the trigger fired and rolled one ready node *)
(* after the other; no new connection failed; no held connection died      *)
(* before the first drain; and each one that was reset was reset in the    *)
(* window of some node and came back, as the next event of its log, within *)
(* the bound.                                                              *)
InSomeWindow(ts) == \E j \in DOMAIN windows : Contains(windows[j], ts)

NextWithinBound(w, i) ==
  i < Len(out[w]) /\ stamp[w][i + 1] - stamp[w][i] <= RecoveryBound

Acceptable ==
  /\ ~prereq /\ windows # <<>>
  /\ \A i \in DOMAIN windows : windows[i].readyAt # 0
  /\ \A i, j \in DOMAIN windows : i # j =>
       \/ windows[i].graceExpiresAt <= windows[j].drainingAt + Eps
       \/ windows[j].graceExpiresAt <= windows[i].drainingAt + Eps
  /\ \A w \in Worker : failures[w] = 0
  /\ \A w \in Worker : \A i \in 1..Len(out[w]) :
       /\ out[w][i].kind \in BreakKind =>
            \E j \in DOMAIN windows : windows[j].drainingAt - Eps <= stamp[w][i]
       /\ out[w][i].kind = "ConnReset" =>
            InSomeWindow(stamp[w][i]) /\ NextWithinBound(w, i)

(* The analyzer passes a run exactly when it was clean: the bookkeeping by *)
(* connId, by window, by latest reset and earliest reconnect neither hides *)
(* a drop nor invents one, on every stream the emitters can write.         *)
PassExact == Verdict(Input) = "PASS" <=> Acceptable

(* Every reset of the stream is accounted for exactly once: in the raw     *)
(* count of one window, as a drop on a non-upgrading node, or as a death   *)
(* before the drain.  The total runs over the windows in their order.      *)
ResetsConserved ==
  LET resets == Result(Input).existingConnRSTs
      early == {k \in Early(Input) : Input.events[k].kind = "ConnReset"}
  IN  \E total \in [0..Len(windows) -> 0..resets] :
        /\ total[0] = 0
        /\ \A i \in DOMAIN windows :
             total[i] = total[i - 1] + PerNodeAttribution(Input, i).rawResets
        /\ resets = total[Len(windows)] + Cardinality(Attributed(Input, 0)) + Cardinality(early)

Badness(verdict) ==
  CASE verdict = "PASS" -> 0 [] verdict = "FAIL" -> 1 [] verdict = "ERROR" -> 2

(* As the log grows, only a connection coming back can better the verdict, *)
(* and it never worsens it: no break or failure hides an earlier one.      *)
OnlyRecoveryRedeems ==
  [][LET before == Badness(Verdict(Input))
         now == Badness(Verdict(Input)')
     IN  IF \E w \in Worker : EstablishNext(w) THEN now <= before ELSE now >= before]_measureVars

Reordered(ws) ==
  {[i \in DOMAIN ws |-> ws[p[i]]] :
     p \in {q \in [DOMAIN ws -> DOMAIN ws] :
             \A i, j \in DOMAIN ws : q[i] = q[j] => i = j}}

(* The watcher iterates a Go map, so windows arrive in another order each  *)
(* time: the verdict, its reason and every count stay the same.            *)
VerdictOrderFree ==
  \A ws \in Reordered(windows) :
    Result([Input EXCEPT !.windows = ws]) = Result(Input)
=============================================================================
