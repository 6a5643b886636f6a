------------------------------- MODULE Report --------------------------------
(***************************************************************************)
(* report.Render on the result of one measurement: the banner, the         *)
(* acceptance-criterion checklist and the recovery column of the per-node  *)
(* table, each as the fact it states.  A reader of the report sees only    *)
(* these; the properties hold them against the raw logs.                   *)
(***************************************************************************)
EXTENDS MeasuredStream

\* Mutant: a recovery over the bound is a criterion of its own, forgotten here.
AcRowsNoBound ==
  <<{"new-conn-failure"},
    {"same-conn-reset-in-2-windows", "overlapping-node-windows"},
    {"drop-on-non-upgrading-node"},
    {"overlapping-node-windows"},
    {"pool-not-recovered"}>>

\* The reasons that fail each criterion: zero new-connection failures; at most
\* one disruption window per node; drops only on the rolling node; staggered;
\* recovery within the bound.
AcRows ==
  <<{"new-conn-failure"},
    {"same-conn-reset-in-2-windows", "overlapping-node-windows"},
    {"drop-on-non-upgrading-node"},
    {"overlapping-node-windows"},
    {"pool-not-recovered", "recovery-over-bound"}>>

\* Mutant: only the reason the verdict gives.
HasReasonFirst(inp, reason) == Reason(inp) = reason

\* The reason of the verdict is itself one of the anomalies.
HasReason(inp, reason) == Raised(inp, reason)

Trusted(inp) == Verdict(inp) # "ERROR"

Banner(inp, acSatisfying) ==
  IF ~Trusted(inp) THEN "not-trusted"
  ELSE IF ~acSatisfying THEN "not-ac-satisfying"
  ELSE Verdict(inp)

\* An untrusted or non-AC-satisfying run evaluates no criterion.
Cell(inp, acSatisfying, row) ==
  IF ~Trusted(inp) \/ ~acSatisfying THEN "N/A"
  ELSE IF \E r \in AcRows[row] : HasReason(inp, r) THEN "FAIL"
  ELSE "PASS"

\* The recovery column: a dash, "never", or a time, whose seconds follow.
RecoveryCell(inp, i) ==
  LET p == PerNodeAttribution(inp, i)
  IN  IF p.distinctConnsReset = 0 THEN <<"-">>
      ELSE IF p.recovered /\ p.recoverySeconds # Never
           THEN <<"after", p.recoverySeconds>>
      ELSE <<"never">>

-----------------------------------------------------------------------------
Cells(acSatisfying) == {Cell(Input, acSatisfying, r) : r \in DOMAIN AcRows}

(* report.go:66-69: the banner and the checklist tell one story.  A banner *)
(* of PASS stands over criteria that all pass, one of FAIL over at least   *)
(* one that fails, and any other over criteria none of which is decided.   *)
BannerMatchesRows ==
  /\ CASE Banner(Input, TRUE) = "PASS" -> Cells(TRUE) = {"PASS"}
       [] Banner(Input, TRUE) = "FAIL" -> "FAIL" \in Cells(TRUE)
       [] OTHER -> Cells(TRUE) = {"N/A"}
  /\ Cells(FALSE) = {"N/A"}

ResetLines == OfKind(Input, {"ConnReset"})

Recovered(w, i) == InSomeWindow(stamp[w][i]) => NextWithinBound(w, i)

(* In a trusted run each criterion is decided as the logs have it, whatever *)
(* other criterion the verdict names first: the first by the failed new    *)
(* connections, the third by the resets outside every window, the fourth   *)
(* by two nodes draining at once, the last by the event that follows a     *)
(* reset in its worker's log.                                              *)
RowsAreTrue ==
  Trusted(Input) =>
    /\ Cell(Input, TRUE, 1) = "PASS" <=> \A w \in Worker : failures[w] = 0
    /\ Cell(Input, TRUE, 3) = "PASS" <=>
         \A l \in ResetLines : InSomeWindow(Events[l].ts)
    /\ Cell(Input, TRUE, 4) = "PASS" <=>
         \A i, j \in DOMAIN windows : i # j =>
           \/ windows[i].graceExpiresAt <= windows[j].drainingAt + Eps
           \/ windows[j].graceExpiresAt <= windows[i].drainingAt + Eps
    /\ Cell(Input, TRUE, 5) = "PASS" <=>
         \A w \in Worker : \A i \in DOMAIN out[w] :
           out[w][i].kind = "ConnReset" => Recovered(w, i)

(* The per-node table and the checklist agree: no node shows "never" under *)
(* a recovery criterion that passes, nor a time over the bound.            *)
TableMatchesRows ==
  Cell(Input, TRUE, 5) = "PASS" =>
    \A i \in DOMAIN windows :
      \/ RecoveryCell(Input, i) = <<"-">>
      \/ \E s \in 0..RecoveryBound : RecoveryCell(Input, i) = <<"after", s>>
=============================================================================
