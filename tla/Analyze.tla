------------------------------ MODULE Analyze -------------------------------
(***************************************************************************)
(* measure.Analyze: the verdict on one observed roll, a pure function of   *)
(* the event stream, the roll windows and what the trigger reported.       *)
(*                                                                         *)
(* The input is a record: events, a sequence of [kind, conn, ts]; windows, *)
(* a sequence of [node, drainingAt, graceExpiresAt, readyAt]; prereq, TRUE *)
(* when the trigger failed (measure.go then reports it as not fired).      *)
(* Anomalies are a set: the order of two with the same reason carries no   *)
(* meaning, and the reasons themselves are added in the order of           *)
(* ErrorReasons and FailReasons.                                           *)
(***************************************************************************)
EXTENDS ConnEvent, FiniteSets, FiniteSetsExt

CONSTANTS Eps,            \* Config.JitterToleranceSeconds
          RecoveryBound   \* Config.RecoveryBoundSeconds

ASSUME ToleranceAssumption == Eps \in Nat /\ RecoveryBound \in Nat

Nil == "nil"   \* no reason
Never == -1    \* no recovery time

ErrorReasons == <<"trigger-prereq-missing", "no-rollout-observed",
                  "half-open-window", "died-before-drain">>
FailReasons == <<"overlapping-node-windows", "drop-on-non-upgrading-node",
                 "same-conn-reset-in-2-windows", "pool-not-recovered",
                 "recovery-over-bound", "new-conn-failure">>

Later(a, b) == IF a > b THEN a ELSE b
Earlier(a, b) == IF a < b THEN a ELSE b

OfKind(inp, kinds) == {k \in DOMAIN inp.events : inp.events[k].kind \in kinds}
TsOf(inp, K) == {inp.events[k].ts : k \in K}

-----------------------------------------------------------------------------
\* Two nodes drain at once for longer than the tolerance.
Overlapping(a, b) ==
  /\ a.node # b.node
  /\ Earlier(a.graceExpiresAt, b.graceExpiresAt) - Later(a.drainingAt, b.drainingAt) > Eps

\* Strictly before the earliest drain.
BeforeDrain(ts, windows) ==
  /\ windows # <<>>
  /\ \A i \in DOMAIN windows : ts < windows[i].drainingAt - Eps

Contains(w, ts) == w.drainingAt - Eps <= ts /\ ts <= w.graceExpiresAt + Eps

\* Mutant: the first window that contains the reset.
AttributeFirst(ts, windows) ==
  LET holding == {i \in DOMAIN windows : Contains(windows[i], ts)}
  IN  IF holding = {} THEN 0 ELSE Min(holding)

\* Mutant: no window ever closes.
AttributeOpenEnded(ts, windows) ==
  LET begun == {i \in DOMAIN windows : windows[i].drainingAt - Eps <= ts}
  IN  IF begun = {} THEN 0
      ELSE CHOOSE i \in begun :
             \A j \in begun : windows[j].drainingAt <= windows[i].drainingAt

\* The containing window with the latest drainingAt, the first such; else 0.
AttributeReset(ts, windows) ==
  LET holding == {i \in DOMAIN windows : Contains(windows[i], ts)}
      after(j, i) == windows[j].drainingAt > windows[i].drainingAt
  IN  IF holding = {} THEN 0
      ELSE CHOOSE i \in holding :
             /\ \A j \in holding : ~after(j, i)
             /\ \A j \in holding : j < i => after(i, j)

Early(inp) == {k \in OfKind(inp, BreakKind) : BeforeDrain(inp.events[k].ts, inp.windows)}

\* Mutant: a reset counted in every window that contains it.
AttributedToAll(inp, i) ==
  {k \in OfKind(inp, {"ConnReset"}) \ Early(inp) :
     IF i = 0 THEN AttributeReset(inp.events[k].ts, inp.windows) = 0
     ELSE Contains(inp.windows[i], inp.events[k].ts)}

\* The resets that are attributed to window i; to none, for i = 0.
Attributed(inp, i) ==
  {k \in OfKind(inp, {"ConnReset"}) \ Early(inp) :
     AttributeReset(inp.events[k].ts, inp.windows) = i}

ConnsReset(inp, i) == {inp.events[k].conn : k \in Attributed(inp, i)}

ResetTwice(inp) ==
  {c \in {inp.events[k].conn : k \in OfKind(inp, {"ConnReset"})} :
     \E i, j \in DOMAIN inp.windows :
       i # j /\ c \in ConnsReset(inp, i) /\ c \in ConnsReset(inp, j)}

-----------------------------------------------------------------------------
\* connResetTS: the latest reset of c in window i.
ResetTS(inp, i, c) ==
  Max(TsOf(inp, {k \in Attributed(inp, i) : inp.events[k].conn = c}))

\* reconnectByConn: the earliest reconnect of c.
Reconnects(inp, c) ==
  TsOf(inp, {k \in OfKind(inp, {"ConnReconnected"}) : inp.events[k].conn = c})

RecoveredIn(inp, i, c) ==
  Reconnects(inp, c) # {} /\ Min(Reconnects(inp, c)) >= ResetTS(inp, i, c)

\* The recovery times measured in window i.
RecoveryTimes(inp, i) ==
  {Min(Reconnects(inp, c)) - ResetTS(inp, i, c) :
     c \in {d \in ConnsReset(inp, i) : RecoveredIn(inp, i, d)}}

AllRecovered(inp, i) == \A c \in ConnsReset(inp, i) : RecoveredIn(inp, i, c)

MaxOrNever(S) == IF S = {} THEN Never ELSE Max(S)

PerNodeAttribution(inp, i) ==
  [node |-> inp.windows[i].node,
   rawResets |-> Cardinality(Attributed(inp, i)),
   distinctConnsReset |-> Cardinality(ConnsReset(inp, i)),
   recovered |-> ConnsReset(inp, i) # {} /\ AllRecovered(inp, i),
   recoverySeconds |-> IF AllRecovered(inp, i) THEN MaxOrNever(RecoveryTimes(inp, i)) ELSE Never]

AffectedWindows(inp) == {i \in DOMAIN inp.windows : ConnsReset(inp, i) # {}}

\* Mutant: a window in which nothing was recovered is not looked at.
PoolOfRecovered(inp) ==
  \A i \in DOMAIN inp.windows : RecoveryTimes(inp, i) = {} \/ AllRecovered(inp, i)

Pool(inp) == \A i \in DOMAIN inp.windows : AllRecovered(inp, i)
AllTimes(inp) == UNION {RecoveryTimes(inp, i) : i \in DOMAIN inp.windows}

-----------------------------------------------------------------------------
\* The reasons for which addErr and addFail are called.
Raised(inp, reason) ==
  CASE reason = "trigger-prereq-missing" -> inp.prereq
    [] reason = "no-rollout-observed" -> ~inp.prereq /\ inp.windows = <<>>
    [] reason = "half-open-window" ->
         \E i \in DOMAIN inp.windows : inp.windows[i].readyAt = 0
    [] reason = "died-before-drain" -> Early(inp) # {}
    [] reason = "overlapping-node-windows" ->
         \E i, j \in DOMAIN inp.windows :
           i < j /\ Overlapping(inp.windows[i], inp.windows[j])
    [] reason = "drop-on-non-upgrading-node" -> Attributed(inp, 0) # {}
    [] reason = "same-conn-reset-in-2-windows" -> ResetTwice(inp) # {}
    [] reason = "pool-not-recovered" -> ~Pool(inp)
    [] reason = "recovery-over-bound" ->
         Pool(inp) /\ \E t \in AllTimes(inp) : t > RecoveryBound
    [] reason = "new-conn-failure" -> OfKind(inp, {"NewConnAttemptFail"}) # {}

RaisedIn(inp, reasons) == {i \in DOMAIN reasons : Raised(inp, reasons[i])}

Verdict(inp) ==
  IF RaisedIn(inp, ErrorReasons) # {} THEN "ERROR"
  ELSE IF RaisedIn(inp, FailReasons) # {} THEN "FAIL"
  ELSE "PASS"

\* The first error, else the first failure.
Reason(inp) ==
  CASE Verdict(inp) = "ERROR" -> ErrorReasons[Min(RaisedIn(inp, ErrorReasons))]
    [] Verdict(inp) = "FAIL" -> FailReasons[Min(RaisedIn(inp, FailReasons))]
    [] Verdict(inp) = "PASS" -> Nil

Result(inp) ==
  [verdict |-> Verdict(inp),
   reason |-> Reason(inp),
   newConnFailures |-> Cardinality(OfKind(inp, {"NewConnAttemptFail"})),
   existingConnRSTs |-> Cardinality(OfKind(inp, {"ConnReset"})),
   affectedNodeWindows |-> Cardinality(AffectedWindows(inp)),
   distinctNodesAffected |->
     Cardinality({inp.windows[i].node : i \in AffectedWindows(inp)}),
   recoverySeconds |-> IF Pool(inp) THEN MaxOrNever(AllTimes(inp)) ELSE Never]

=============================================================================
