---------------------------- MODULE VerdictProofs -----------------------------
(***************************************************************************)
(* What the analyzer and the report make of every stream that the          *)
(* emitters can write, for any number of workers, connections and nodes    *)
(* (MeasuredStream); and what a run may conclude from the logs that it     *)
(* could read, for any number of pods (MeasureRun).                        *)
(***************************************************************************)
EXTENDS Report, MeasureRun, HeldStreamProofs, FiniteSetTheorems, SequenceTheorems, WellFoundedInduction

TimedOK ==
  /\ clock \in Nat
  /\ stamp \in [Worker -> Seq(Nat)]
  /\ failures \in [Worker -> 0..MaxFailure]
  /\ windows \in WindowChoices /\ prereq \in BOOLEAN

\* Each event has its time, and the times of a log ascend.
Stamped(w) ==
  /\ Len(stamp[w]) = Len(out[w])
  /\ \A i \in 1..Len(stamp[w]) : stamp[w][i] <= clock
  /\ \A i, j \in 1..Len(stamp[w]) : i < j => stamp[w][i] <= stamp[w][j]

\* A connection that breaks is announced as recovered by the very next event,
\* or is the last one, and not yet replaced.
Paired(w) ==
  \A i \in 1..Len(out[w]) : out[w][i].kind \in BreakKind =>
    \/ /\ i < Len(out[w])
       /\ out[w][i + 1].kind = "ConnReconnected" /\ out[w][i + 1].conn = out[w][i].conn
    \/ i = Len(out[w]) /\ ~open[w] /\ out[w][i].conn = est[w]

\* Each connection writes two events at most, the last one only its break.
Short(w) ==
  /\ est[w] = 0 => out[w] = <<>>
  /\ open[w] => Len(out[w]) <= 2 * est[w] - 2
  /\ est[w] > 0 => Len(out[w]) <= 2 * est[w] - 1

(* The stream contract, with times: the inductive invariant.               *)
MeasureInv ==
  /\ StreamInv /\ TimedOK
  /\ \A w \in Worker : Stamped(w) /\ Paired(w) /\ Short(w)

-----------------------------------------------------------------------------
(* The verdict.                                                            *)
\* What each reason is raised for.
LEMMA RaisedFor ==
  ASSUME NEW inp
  PROVE  /\ Raised(inp, "trigger-prereq-missing") = inp.prereq
         /\ Raised(inp, "no-rollout-observed") = (~inp.prereq /\ inp.windows = <<>>)
         /\ Raised(inp, "half-open-window") =
              (\E i \in DOMAIN inp.windows : inp.windows[i].readyAt = 0)
         /\ Raised(inp, "died-before-drain") = (Early(inp) # {})
         /\ Raised(inp, "overlapping-node-windows") =
              (\E i, j \in DOMAIN inp.windows :
                 i < j /\ Overlapping(inp.windows[i], inp.windows[j]))
         /\ Raised(inp, "drop-on-non-upgrading-node") = (Attributed(inp, 0) # {})
         /\ Raised(inp, "same-conn-reset-in-2-windows") = (ResetTwice(inp) # {})
         /\ Raised(inp, "pool-not-recovered") = ~Pool(inp)
         /\ Raised(inp, "recovery-over-bound") =
              (Pool(inp) /\ \E t \in AllTimes(inp) : t > RecoveryBound)
         /\ Raised(inp, "new-conn-failure") = (OfKind(inp, {"NewConnAttemptFail"}) # {})
BY DEF Raised

\* The lists of reasons, by place.
LEMMA ReasonsAre ==
  /\ DOMAIN ErrorReasons = 1..4 /\ DOMAIN FailReasons = 1..6
  /\ ErrorReasons[1] = "trigger-prereq-missing" /\ ErrorReasons[2] = "no-rollout-observed"
  /\ ErrorReasons[3] = "half-open-window" /\ ErrorReasons[4] = "died-before-drain"
  /\ FailReasons[1] = "overlapping-node-windows"
  /\ FailReasons[2] = "drop-on-non-upgrading-node"
  /\ FailReasons[3] = "same-conn-reset-in-2-windows"
  /\ FailReasons[4] = "pool-not-recovered" /\ FailReasons[5] = "recovery-over-bound"
  /\ FailReasons[6] = "new-conn-failure"
BY DEF ErrorReasons, FailReasons

\* The untrusted inputs, and the others that fail.
Untrusted(inp) ==
  \/ inp.prereq \/ inp.windows = <<>>
  \/ \E i \in DOMAIN inp.windows : inp.windows[i].readyAt = 0
  \/ Early(inp) # {}

Failing(inp) ==
  \/ \E i, j \in DOMAIN inp.windows :
       i < j /\ Overlapping(inp.windows[i], inp.windows[j])
  \/ Attributed(inp, 0) # {}
  \/ ResetTwice(inp) # {}
  \/ ~Pool(inp)
  \/ \E t \in AllTimes(inp) : t > RecoveryBound
  \/ OfKind(inp, {"NewConnAttemptFail"}) # {}

\* The verdict is decided by them, in this order.
LEMMA VerdictIs ==
  ASSUME NEW inp
  PROVE  Verdict(inp) = IF Untrusted(inp) THEN "ERROR" ELSE IF Failing(inp) THEN "FAIL" ELSE "PASS"
<1>1. RaisedIn(inp, ErrorReasons) # {} <=>
        \/ Raised(inp, "trigger-prereq-missing") \/ Raised(inp, "no-rollout-observed")
        \/ Raised(inp, "half-open-window") \/ Raised(inp, "died-before-drain")
  <2>1. \A i : i \in 1..4 <=> i = 1 \/ i = 2 \/ i = 3 \/ i = 4
    OBVIOUS
  <2>2. RaisedIn(inp, ErrorReasons) # {} <=> \E i : i \in 1..4 /\ Raised(inp, ErrorReasons[i])
    BY ReasonsAre, Zenon DEF RaisedIn
  <2>3. RaisedIn(inp, ErrorReasons) # {} <=>
          \/ Raised(inp, ErrorReasons[1]) \/ Raised(inp, ErrorReasons[2]) \/ Raised(inp, ErrorReasons[3]) \/ Raised(inp, ErrorReasons[4])
    BY <2>1, <2>2, Zenon
  <2> QED  BY <2>3, ReasonsAre, Zenon
<1>2. RaisedIn(inp, FailReasons) # {} <=>
        \/ Raised(inp, "overlapping-node-windows") \/ Raised(inp, "drop-on-non-upgrading-node")
        \/ Raised(inp, "same-conn-reset-in-2-windows") \/ Raised(inp, "pool-not-recovered")
        \/ Raised(inp, "recovery-over-bound") \/ Raised(inp, "new-conn-failure")
  <2>1. \A i : i \in 1..6 <=> i = 1 \/ i = 2 \/ i = 3 \/ i = 4 \/ i = 5 \/ i = 6
    OBVIOUS
  <2>2. RaisedIn(inp, FailReasons) # {} <=> \E i : i \in 1..6 /\ Raised(inp, FailReasons[i])
    BY ReasonsAre, Zenon DEF RaisedIn
  <2>3. RaisedIn(inp, FailReasons) # {} <=>
          \/ Raised(inp, FailReasons[1]) \/ Raised(inp, FailReasons[2]) \/ Raised(inp, FailReasons[3])
          \/ Raised(inp, FailReasons[4]) \/ Raised(inp, FailReasons[5]) \/ Raised(inp, FailReasons[6])
    BY <2>1, <2>2, Zenon
  <2> QED  BY <2>3, ReasonsAre, Zenon
<1>3. RaisedIn(inp, ErrorReasons) # {} <=> Untrusted(inp)
  BY <1>1, RaisedFor, Zenon DEF Untrusted
<1>4. RaisedIn(inp, FailReasons) # {} <=> Failing(inp)
  BY <1>2, RaisedFor, Zenon DEF Failing
<1> QED  BY <1>3, <1>4 DEF Verdict

-----------------------------------------------------------------------------
(* The log of a worker.                                                    *)
\* What the invariant says of its types.
LEMMA Types ==
  ASSUME MeasureInv
  PROVE  /\ out \in [Worker -> Seq([kind : Kind, conn : 1..MaxConn])]
         /\ est \in [Worker -> 0..MaxConn] /\ open \in [Worker -> BOOLEAN]
         /\ clock \in Nat /\ stamp \in [Worker -> Seq(Nat)]
         /\ failures \in [Worker -> 0..MaxFailure]
         /\ windows \in WindowChoices /\ prereq \in BOOLEAN
BY DEF MeasureInv, StreamInv, TypeOK, TimedOK

\* Nothing is written yet.
LEMMA MeasureInvInit == MeasureInit => MeasureInv
<1> SUFFICES ASSUME MeasureInit PROVE MeasureInv
  OBVIOUS
<1>1. StreamInv
  BY InitInv DEF MeasureInit
<1>2. TimedOK
  <2>1. <<>> \in Seq(Nat) /\ 0 \in 0..MaxFailure
    BY FailureAssumption
  <2> QED  BY <2>1 DEF MeasureInit, TimedOK
<1>3. ASSUME NEW w \in Worker PROVE Stamped(w) /\ Paired(w) /\ Short(w)
  <2>1. out[w] = <<>> /\ stamp[w] = <<>> /\ est[w] = 0 /\ ~open[w]
    BY DEF MeasureInit, Init
  <2> QED  BY <2>1 DEF Stamped, Paired, Short
<1> QED  BY <1>1, <1>2, <1>3 DEF MeasureInv

\* An event that is appended has the latest time.
LEMMA AppendStamped ==
  ASSUME MeasureInv, NEW w \in Worker, NEW e,
         out'[w] = Append(out[w], e), stamp'[w] = Append(stamp[w], clock), clock' = clock
  PROVE  Stamped(w)'
<1>1. /\ stamp[w] \in Seq(Nat) /\ clock \in Nat /\ Len(stamp[w]) \in Nat
      /\ out[w] \in Seq([kind : Kind, conn : 1..MaxConn])
  <2>1. stamp[w] \in Seq(Nat) /\ clock \in Nat
    BY Types, Zenon
  <2>2. out[w] \in Seq([kind : Kind, conn : 1..MaxConn])
    BY Types
  <2> QED  BY <2>1, <2>2, LenProperties
<1>2. Len(stamp'[w]) = Len(stamp[w]) + 1 /\ Len(out'[w]) = Len(out[w]) + 1
  BY <1>1
<1>3. \A i \in 1..Len(stamp[w]) : stamp'[w][i] = stamp[w][i]
  BY <1>1
<1>4. stamp'[w][Len(stamp[w]) + 1] = clock
  BY <1>1
<1>5. \A i \in 1..Len(stamp'[w]) : i \in 1..Len(stamp[w]) \/ i = Len(stamp[w]) + 1
  BY <1>1, <1>2
<1>6. Stamped(w)
  BY DEF MeasureInv
<1>7. \A i \in 1..Len(stamp'[w]) : stamp'[w][i] <= clock'
  BY <1>1, <1>3, <1>4, <1>5, <1>6 DEF Stamped
<1>8. ASSUME NEW i \in 1..Len(stamp'[w]), NEW j \in 1..Len(stamp'[w]), i < j
      PROVE  stamp'[w][i] <= stamp'[w][j]
  <2>1. CASE j = Len(stamp[w]) + 1
    BY <1>4, <1>7, <2>1
  <2>2. CASE j # Len(stamp[w]) + 1
    <3>1. i \in 1..Len(stamp[w]) /\ j \in 1..Len(stamp[w])
      BY <1>1, <1>5, <1>8, <2>2
    <3> QED  BY <1>3, <1>6, <1>8, <3>1 DEF Stamped
  <2> QED  BY <2>1, <2>2
<1> QED  BY <1>2, <1>6, <1>7, <1>8 DEF Stamped

\* A recovery follows the break it announces, if any.
LEMMA AppendPaired ==
  ASSUME MeasureInv, NEW w \in Worker, NEW e \in [kind : Kind, conn : 1..MaxConn],
         out'[w] = Append(out[w], e),
         e.kind \in BreakKind => open[w] /\ ~open'[w] /\ e.conn = est'[w],
         e.kind \notin BreakKind => e.kind = "ConnReconnected" /\ e.conn = est[w]
  PROVE  Paired(w)'
<1>1. out[w] \in Seq([kind : Kind, conn : 1..MaxConn]) /\ Len(out[w]) \in Nat
  <2>1. out[w] \in Seq([kind : Kind, conn : 1..MaxConn])
    BY Types
  <2> QED  BY <2>1, LenProperties
<1>2. /\ Len(out'[w]) = Len(out[w]) + 1 /\ out'[w][Len(out[w]) + 1] = e
      /\ \A i \in 1..Len(out[w]) : out'[w][i] = out[w][i]
  BY <1>1
<1>3. Paired(w)
  BY DEF MeasureInv
<1>4. SUFFICES ASSUME NEW i \in 1..Len(out'[w]), out'[w][i].kind \in BreakKind
      PROVE  \/ /\ i < Len(out'[w])
                /\ out'[w][i + 1].kind = "ConnReconnected" /\ out'[w][i + 1].conn = out'[w][i].conn
             \/ i = Len(out'[w]) /\ ~open'[w] /\ out'[w][i].conn = est'[w]
  BY DEF Paired
<1>5. CASE i = Len(out[w]) + 1
  BY <1>2, <1>4, <1>5
<1>6. CASE i = Len(out[w])
  <2>1. out[w][i].kind \in BreakKind /\ i \in 1..Len(out[w])
    BY <1>1, <1>2, <1>4, <1>6
  <2>2. ~open[w] /\ out[w][i].conn = est[w]
    BY <1>1, <1>3, <1>6, <2>1 DEF Paired
  <2>3. e.kind = "ConnReconnected" /\ e.conn = out'[w][i].conn
    BY <1>2, <2>1, <2>2
  <2> QED  BY <1>1, <1>2, <1>6, <2>3
<1>7. CASE i < Len(out[w])
  <2>1. i \in 1..Len(out[w]) /\ i + 1 \in 1..Len(out[w]) /\ i # Len(out[w])
    BY <1>1, <1>7
  <2>2. out[w][i].kind \in BreakKind
    BY <1>2, <1>4, <2>1
  <2>3. out[w][i + 1].kind = "ConnReconnected" /\ out[w][i + 1].conn = out[w][i].conn
    BY <1>3, <2>1, <2>2 DEF Paired
  <2> QED  BY <1>1, <1>2, <1>7, <2>1, <2>3
<1>8. i = Len(out[w]) + 1 \/ i = Len(out[w]) \/ i < Len(out[w])
  BY <1>1, <1>2
<1> QED  BY <1>5, <1>6, <1>7, <1>8

\* A log that is left alone stays as it was while time passes.
LEMMA SameLog ==
  ASSUME MeasureInv, NEW v \in Worker, out'[v] = out[v], stamp'[v] = stamp[v],
         est'[v] = est[v], open'[v] = open[v], clock' \in Nat, clock <= clock'
  PROVE  Stamped(v)' /\ Paired(v)' /\ Short(v)'
<1>1. clock \in Nat /\ \A i \in 1..Len(stamp[v]) : stamp[v][i] \in Nat
  <2>1. clock \in Nat /\ stamp[v] \in Seq(Nat)
    BY Types, Zenon
  <2> QED  BY <2>1, ElementOfSeq
<1>2. Stamped(v) /\ Paired(v) /\ Short(v)
  BY DEF MeasureInv
<1>3. \A i \in 1..Len(stamp[v]) : stamp[v][i] <= clock'
  BY <1>1, <1>2 DEF Stamped
<1>4. Stamped(v)'
  BY <1>2, <1>3 DEF Stamped
<1>5. Paired(v)' /\ Short(v)'
  BY <1>2 DEF Paired, Short
<1> QED  BY <1>4, <1>5

\* A worker that connects, breaks or closes, and the event it writes.
LEMMA StreamStepKeeps ==
  ASSUME MeasureInv, NEW w \in Worker, StreamStep(w)
  PROVE  Stamped(w)' /\ Paired(w)' /\ Short(w)'
<1>1. /\ out \in [Worker -> Seq([kind : Kind, conn : 1..MaxConn])]
      /\ est \in [Worker -> 0..MaxConn] /\ open \in [Worker -> BOOLEAN]
      /\ clock \in Nat /\ stamp \in [Worker -> Seq(Nat)]
  BY Types
<1>2. /\ out[w] \in Seq([kind : Kind, conn : 1..MaxConn]) /\ Len(out[w]) \in Nat
      /\ est[w] \in 0..MaxConn /\ est[w] \in Nat /\ MaxConn \in Nat
  <2>1. out[w] \in Seq([kind : Kind, conn : 1..MaxConn]) /\ est[w] \in 0..MaxConn
    BY <1>1
  <2> QED  BY <2>1, LenProperties, MaxConnAssumption
<1>3. Stamped(w) /\ Paired(w) /\ Short(w)
  BY DEF MeasureInv
<1>4. clock' = clock /\ stamp' = [stamp EXCEPT ![w] = IF out'[w] = out[w] THEN @ ELSE Append(@, clock)]
  BY DEF StreamStep
<1>5. CASE EstablishFirst(w)
  <2>1. /\ est[w] = 0 /\ est' = [est EXCEPT ![w] = 1] /\ open' = [open EXCEPT ![w] = TRUE]
        /\ out' = out
    BY <1>5 DEF EstablishFirst
  <2>2. out'[w] = <<>> /\ est'[w] = 1 /\ open'[w] /\ stamp'[w] = stamp[w]
    BY <1>1, <1>3, <1>4, <2>1 DEF Short
  <2>3. Len(out'[w]) = 0
    BY <2>2
  <2>4. stamp[w] = <<>> \/ Len(stamp[w]) = 0
    BY <1>3, <2>1, <2>2, <2>3 DEF Stamped
  <2> QED  BY <1>3, <1>4, <2>1, <2>2, <2>3, <2>4 DEF Stamped, Paired, Short
<1>6. CASE EstablishNext(w)
  <2> DEFINE e == Event("ConnReconnected", est[w])
  <2>1. /\ ~open[w] /\ est[w] > 0 /\ est[w] < MaxConn
        /\ est' = [est EXCEPT ![w] = est[w] + 1] /\ open' = [open EXCEPT ![w] = TRUE]
        /\ out' = [out EXCEPT ![w] = Append(out[w], e)]
    BY <1>6 DEF EstablishNext, Emit
  <2>2. out'[w] = Append(out[w], e) /\ est'[w] = est[w] + 1 /\ open'[w]
    BY <1>1, <2>1
  <2>3. /\ e \in [kind : Kind, conn : 1..MaxConn] /\ e.kind \notin BreakKind
        /\ e.kind = "ConnReconnected" /\ e.conn = est[w]
    BY <1>2, <2>1 DEF Event, Kind, BreakKind
  <2> HIDE DEF e
  <2>4. Len(out'[w]) = Len(out[w]) + 1 /\ out'[w] # out[w] /\ out'[w] # <<>>
    <3>1. Len(out'[w]) = Len(out[w]) + 1
      BY <1>2, <2>2, <2>3
    <3> QED  BY <1>2, <3>1
  <2>5. stamp'[w] = Append(stamp[w], clock)
    BY <1>1, <1>4, <2>4
  <2>6. Stamped(w)'
    BY <1>4, <2>2, <2>3, <2>5, AppendStamped
  <2>7. Paired(w)'
    BY <2>2, <2>3, AppendPaired
  <2>8. Short(w)'
    <3>1. Len(out[w]) <= 2 * est[w] - 1
      BY <1>3, <2>1 DEF Short
    <3>2. Len(out[w]) + 1 <= 2 * (est[w] + 1) - 2
      BY <1>2, <3>1
    <3>3. Len(out'[w]) <= 2 * est'[w] - 2
      BY <2>2, <2>4, <3>2
    <3>4. est'[w] # 0 /\ Len(out'[w]) <= 2 * est'[w] - 1
      <4>1. est'[w] = est[w] + 1 /\ est[w] + 1 # 0 /\ 2 * (est[w] + 1) - 2 <= 2 * (est[w] + 1) - 1
        BY <1>2, <2>2
      <4> QED  BY <1>2, <2>4, <3>2, <4>1
    <3> QED  BY <3>3, <3>4 DEF Short
  <2> QED  BY <2>6, <2>7, <2>8
<1>7. CASE Broken(w)
  <2>1. PICK k \in BreakKind : out' = [out EXCEPT ![w] = Append(out[w], Event(k, est[w]))]
    BY <1>7 DEF Broken, Emit
  <2> DEFINE e == Event(k, est[w])
  <2>2. /\ open[w] /\ est' = est /\ open' = [open EXCEPT ![w] = FALSE]
    BY <1>7 DEF Broken
  <2>3. out'[w] = Append(out[w], e) /\ est'[w] = est[w] /\ ~open'[w] /\ est[w] > 0
    BY <1>1, <2>1, <2>2 DEF MeasureInv, StreamInv, WorkerInv
  <2>4. /\ e \in [kind : Kind, conn : 1..MaxConn] /\ e.kind \in BreakKind /\ e.conn = est[w]
    BY <1>2, <2>3 DEF Event, Kind, BreakKind
  <2> HIDE DEF e
  <2>5. Len(out'[w]) = Len(out[w]) + 1 /\ out'[w] # out[w] /\ out'[w] # <<>>
    <3>1. Len(out'[w]) = Len(out[w]) + 1
      BY <1>2, <2>3, <2>4
    <3> QED  BY <1>2, <3>1
  <2>6. stamp'[w] = Append(stamp[w], clock)
    BY <1>1, <1>4, <2>5
  <2>7. Stamped(w)'
    BY <1>4, <2>3, <2>4, <2>6, AppendStamped
  <2>8. Paired(w)'
    BY <2>2, <2>3, <2>4, AppendPaired
  <2>9. Short(w)'
    BY <1>2, <1>3, <2>2, <2>3, <2>5 DEF Short
  <2> QED  BY <2>7, <2>8, <2>9
<1>8. CASE Closed(w)
  <2>1. open[w] /\ est' = est /\ out' = out /\ open' = [open EXCEPT ![w] = FALSE]
    BY <1>8 DEF Closed
  <2>2. ~open'[w] /\ stamp'[w] = stamp[w]
    BY <1>1, <1>4, <2>1
  <2>3. Stamped(w)'
    BY <1>3, <1>4, <2>1, <2>2 DEF Stamped
  <2>4. Paired(w)'
    BY <1>3, <2>1 DEF Paired
  <2>5. Short(w)'
    BY <1>2, <1>3, <2>1, <2>2 DEF Short
  <2> QED  BY <2>3, <2>4, <2>5
<1> QED  BY <1>5, <1>6, <1>7, <1>8 DEF StreamStep

(* Every step of a measurement keeps the invariant.                        *)
LEMMA MeasureInvNext == MeasureInv /\ [MeasureNext]_measureVars => MeasureInv'
<1> SUFFICES ASSUME MeasureInv, [MeasureNext]_measureVars PROVE MeasureInv'
  OBVIOUS
<1>1. /\ out \in [Worker -> Seq([kind : Kind, conn : 1..MaxConn])]
      /\ est \in [Worker -> 0..MaxConn] /\ open \in [Worker -> BOOLEAN]
      /\ clock \in Nat /\ stamp \in [Worker -> Seq(Nat)]
      /\ failures \in [Worker -> 0..MaxFailure] /\ MaxFailure \in Nat
      /\ windows \in WindowChoices /\ prereq \in BOOLEAN /\ StreamInv
  BY Types, FailureAssumption DEF MeasureInv
<1>2. CASE UNCHANGED measureVars
  <2>1. UNCHANGED <<out, est, open, clock, stamp, failures, windows, prereq>>
    BY <1>2 DEF measureVars, streamVars, inputVars
  <2>2. StreamInv'
    BY <1>1, <2>1, StepInv DEF streamVars
  <2> QED  BY <1>1, <2>1, <2>2, SameLog DEF MeasureInv, TimedOK
<1>3. CASE Tick
  <2>1. UNCHANGED <<out, est, open, stamp, failures, windows, prereq>> /\ clock' = clock + 1
    BY <1>3 DEF Tick, streamVars, inputVars
  <2>2. StreamInv'
    BY <1>1, <2>1, StepInv DEF streamVars
  <2>3. clock' \in Nat /\ clock <= clock'
    BY <1>1, <2>1
  <2> QED  BY <1>1, <2>1, <2>2, <2>3, SameLog DEF MeasureInv, TimedOK
<1>4. ASSUME NEW w \in Worker, NewConnFails(w) PROVE MeasureInv'
  <2>1. /\ UNCHANGED <<out, est, open, clock, stamp, windows, prereq>>
        /\ failures[w] < MaxFailure /\ failures' = [failures EXCEPT ![w] = failures[w] + 1]
    BY <1>4 DEF NewConnFails, streamVars, inputVars
  <2>2. StreamInv'
    BY <1>1, <2>1, StepInv DEF streamVars
  <2>3. failures' \in [Worker -> 0..MaxFailure]
    BY <1>1, <2>1
  <2>4. clock <= clock'
    BY <1>1, <2>1
  <2> QED  BY <1>1, <2>1, <2>2, <2>3, <2>4, SameLog DEF MeasureInv, TimedOK
<1>5. ASSUME NEW w \in Worker, StreamStep(w) PROVE MeasureInv'
  <2>1. /\ UNCHANGED <<clock, failures, windows, prereq>>
        /\ stamp' = [stamp EXCEPT ![w] = IF out'[w] = out[w] THEN @ ELSE Append(@, clock)]
    BY <1>5 DEF StreamStep, inputVars
  <2>2. StreamInv'
    BY <1>1, <1>5, StepInv DEF StreamStep, Next
  <2>3. stamp' \in [Worker -> Seq(Nat)]
    <3>1. Append(stamp[w], clock) \in Seq(Nat) /\ stamp[w] \in Seq(Nat)
      BY <1>1
    <3> QED  BY <1>1, <2>1, <3>1
  <2>4. TimedOK'
    BY <1>1, <2>1, <2>3 DEF TimedOK
  <2>5. ASSUME NEW v \in Worker, v # w PROVE Stamped(v)' /\ Paired(v)' /\ Short(v)'
    <3>1. out'[v] = out[v] /\ est'[v] = est[v] /\ open'[v] = open[v]
      BY <1>1, <1>5, <2>5 DEF StreamStep, EstablishFirst, EstablishNext, Broken, Closed, Emit
    <3>2. stamp'[v] = stamp[v]
      BY <1>1, <2>1, <2>5
    <3>3. clock' \in Nat /\ clock <= clock'
      BY <1>1, <2>1
    <3> QED  BY <3>1, <3>2, <3>3, SameLog
  <2> QED  BY <1>5, <2>2, <2>4, <2>5, StreamStepKeeps DEF MeasureInv
<1> QED  BY <1>2, <1>3, <1>4, <1>5 DEF MeasureNext

(* The invariant holds in every measurement.                               *)
LEMMA MeasureInvariant == MeasureSpec => []MeasureInv
BY MeasureInvInit, MeasureInvNext, PTL DEF MeasureSpec

-----------------------------------------------------------------------------
(* Numbers.                                                                *)
\* A nonempty set of naturals has a least element.
LEMMA Least ==
  ASSUME NEW S \in SUBSET Nat, S # {}
  PROVE  \E m \in S : \A x \in S : m <= x
<1> DEFINE R == OpToRel(<, Nat)
<1>1. PICK m \in S : \A x \in S : <<x, m>> \notin R
  BY NatLessThanWellFounded, WFMin
<1>2. \A x \in S : ~(x < m)
  BY <1>1 DEF OpToRel
<1> QED  BY <1>2

\* One that has a bound has a greatest.
LEMMA Greatest ==
  ASSUME NEW n \in Nat, NEW S \in SUBSET (0..n), S # {}
  PROVE  \E m \in S : \A x \in S : m >= x
<1> DEFINE distance == {n - x : x \in S}
<1>1. distance \in SUBSET Nat /\ distance # {}
  <2>1. \A x \in S : n - x \in Nat /\ n - x \in distance
    OBVIOUS
  <2> QED  BY <2>1
<1>2. PICK d \in distance : \A y \in distance : d <= y
  BY <1>1, Least
<1>3. PICK m \in S : d = n - m
  OBVIOUS
<1>4. \A x \in S : m >= x
  <2> TAKE x \in S
  <2>1. n - m <= n - x
    BY <1>2, <1>3
  <2> QED  BY <2>1
<1> QED  BY <1>4

\* The least and the greatest of a set with one element.
LEMMA OfOne ==
  ASSUME NEW t \in Int
  PROVE  Max({t}) = t /\ Min({t}) = t
BY DEF Max, Min

-----------------------------------------------------------------------------
(* The windows.                                                            *)
\* What a watcher gives the analyzer.
WindowList(ws) ==
  /\ ws \in Seq(Window)
  /\ \A i \in DOMAIN ws : ws[i].drainingAt + Eps < ws[i].graceExpiresAt
  /\ \A i, j \in DOMAIN ws :
       /\ ws[i].node = ws[j].node => i = j
       /\ ws[i].graceExpiresAt - ws[i].drainingAt = ws[j].graceExpiresAt - ws[j].drainingAt

\* The windows that contain ts.
Holding(ts, ws) == {i \in DOMAIN ws : Contains(ws[i], ts)}

\* The numbers of windows.
LEMMA SeqNumbers ==
  ASSUME NEW ws \in Seq(Window)
  PROVE  /\ Len(ws) \in Nat /\ DOMAIN ws = 1..Len(ws)
         /\ \A i \in DOMAIN ws :
              /\ ws[i].node \in Nat /\ ws[i].drainingAt \in Nat /\ ws[i].graceExpiresAt \in Nat
              /\ ws[i].readyAt \in Nat
<1>1. Len(ws) \in Nat /\ DOMAIN ws = 1..Len(ws)
  BY LenProperties
<1>2. \A i \in DOMAIN ws : ws[i] \in Window
  BY <1>1, ElementOfSeq
<1> QED  BY <1>1, <1>2 DEF Window

\* Those of a watcher's windows.
LEMMA WindowNumbers ==
  ASSUME NEW ws, WindowList(ws)
  PROVE  /\ Len(ws) \in Nat /\ DOMAIN ws = 1..Len(ws)
         /\ \A i \in DOMAIN ws :
              /\ ws[i].node \in Nat /\ ws[i].drainingAt \in Nat /\ ws[i].graceExpiresAt \in Nat
              /\ ws[i].readyAt \in Nat
BY SeqNumbers DEF WindowList

\* A reset is attributed to the first of the latest windows that contain it.
LEMMA LatestHolding ==
  ASSUME NEW ws \in Seq(Window), NEW ts \in Nat
  PROVE  /\ AttributeReset(ts, ws) = 0 <=> Holding(ts, ws) = {}
         /\ AttributeReset(ts, ws) # 0 =>
              /\ AttributeReset(ts, ws) \in Holding(ts, ws)
              /\ \A j \in Holding(ts, ws) :
                   /\ ws[j].drainingAt <= ws[AttributeReset(ts, ws)].drainingAt
                   /\ j < AttributeReset(ts, ws) =>
                        ws[j].drainingAt < ws[AttributeReset(ts, ws)].drainingAt
<1> DEFINE H == Holding(ts, ws)
           Chosen(i) == /\ \A j \in H : ~(ws[j].drainingAt > ws[i].drainingAt)
                        /\ \A j \in H : j < i => ws[i].drainingAt > ws[j].drainingAt
<1>1. CASE H = {}
  BY <1>1 DEF AttributeReset, Holding
<1>2. CASE H # {}
  <2>1. AttributeReset(ts, ws) = CHOOSE i \in H : Chosen(i)
    BY <1>2 DEF AttributeReset, Holding
  <2>2. H \subseteq DOMAIN ws /\ \A i \in H : Contains(ws[i], ts)
    BY DEF Holding
  <2>3. \A i \in H : i \in Nat /\ i # 0 /\ ws[i].drainingAt \in Nat
    BY <2>2, SeqNumbers
  <2>4. \E i \in H : Chosen(i)
    <3> DEFINE D == {ws[i].drainingAt : i \in H}
    <3>1. ts + Eps \in Nat /\ D \in SUBSET (0..(ts + Eps)) /\ D # {}
      <4>1. \A i \in H : ws[i].drainingAt <= ts + Eps
        BY <2>2, <2>3, ToleranceAssumption DEF Contains
      <4> QED  BY <1>2, <2>3, <4>1, ToleranceAssumption
    <3>2. PICK m \in D : \A d \in D : m >= d
      BY <3>1, Greatest
    <3> DEFINE F == {i \in H : ws[i].drainingAt = m}
    <3>3. F \in SUBSET Nat /\ F # {}
      BY <2>3
    <3>4. PICK a \in F : \A i \in F : a <= i
      BY <3>3, Least
    <3>5. a \in H /\ ws[a].drainingAt = m
      OBVIOUS
    <3> HIDE DEF F
    <3>6. ASSUME NEW j \in H PROVE ~(ws[j].drainingAt > ws[a].drainingAt)
      <4>1. ws[j].drainingAt \in D /\ ws[j].drainingAt \in Nat /\ ws[a].drainingAt \in Nat
        BY <2>3, <3>5
      <4>2. ws[a].drainingAt >= ws[j].drainingAt
        BY <3>2, <3>5, <4>1
      <4> QED  BY <4>1, <4>2
    <3>7. ASSUME NEW j \in H, j < a PROVE ws[a].drainingAt > ws[j].drainingAt
      <4>1. ws[j].drainingAt # m
        <5>1. j \in Nat /\ a \in Nat /\ ~(a <= j)
          BY <2>3, <3>5, <3>7
        <5> QED  BY <3>4, <5>1 DEF F
      <4> QED  BY <2>3, <3>5, <3>6, <4>1
    <3> QED  BY <3>5, <3>6, <3>7
  <2>5. AttributeReset(ts, ws) \in H /\ Chosen(AttributeReset(ts, ws))
    BY <2>1, <2>4
  <2> QED  BY <1>2, <2>3, <2>5
<1> QED  BY <1>1, <1>2

\* Also among a watcher's windows.
LEMMA AttributeResetIs ==
  ASSUME NEW ws, WindowList(ws), NEW ts \in Nat
  PROVE  /\ AttributeReset(ts, ws) = 0 <=> Holding(ts, ws) = {}
         /\ AttributeReset(ts, ws) # 0 =>
              /\ AttributeReset(ts, ws) \in Holding(ts, ws)
              /\ \A j \in Holding(ts, ws) :
                   /\ ws[j].drainingAt <= ws[AttributeReset(ts, ws)].drainingAt
                   /\ j < AttributeReset(ts, ws) =>
                        ws[j].drainingAt < ws[AttributeReset(ts, ws)].drainingAt
BY LatestHolding DEF WindowList

-----------------------------------------------------------------------------
(* The lines of the logs.                                                  *)
\* The lines of the held connections, of these kinds.
Held(kinds) ==
  {l \in Worker \X Nat : l[2] \in 1..Len(out[l[1]]) /\ out[l[1]][l[2]].kind \in kinds}

ConnOf(l) == <<l[1], out[l[1]][l[2]].conn>>
TimeOf(l) == stamp[l[1]][l[2]]

\* The log went on after l; the seconds until then.
HasNext(l) == l[2] < Len(out[l[1]])
Gap(l) == stamp[l[1]][l[2] + 1] - stamp[l[1]][l[2]]

\* What a log holds at one place.
LEMMA LogAt ==
  ASSUME MeasureInv, NEW w \in Worker, NEW i \in 1..Len(out[w])
  PROVE  /\ out[w][i].kind \in Kind /\ out[w][i].conn \in 1..MaxConn
         /\ stamp[w][i] \in Nat
         /\ Len(out[w]) \in Nat /\ Len(out[w]) <= 2 * MaxConn
         /\ i + 1 <= Len(out[w]) => stamp[w][i + 1] \in Nat /\ stamp[w][i] <= stamp[w][i + 1]
<1>1. out[w][i].kind \in Kind /\ out[w][i].conn \in 1..MaxConn
  BY PastEvents DEF MeasureInv
<1>2. Stamped(w) /\ Short(w)
  BY DEF MeasureInv
<1>3. stamp[w] \in Seq(Nat) /\ est[w] \in 0..MaxConn
  BY Types
<1>4. Len(out[w]) \in Nat
  <2>1. out[w] \in Seq([kind : Kind, conn : 1..MaxConn])
    BY Types
  <2> QED  BY <2>1, LenProperties
<1>5. \A j \in 1..Len(out[w]) : stamp[w][j] \in Nat
  BY <1>2, <1>3, ElementOfSeq DEF Stamped
<1>6. i + 1 <= Len(out[w]) => stamp[w][i + 1] \in Nat /\ stamp[w][i] <= stamp[w][i + 1]
  <2> SUFFICES ASSUME i + 1 <= Len(out[w])
               PROVE  stamp[w][i + 1] \in Nat /\ stamp[w][i] <= stamp[w][i + 1]
    OBVIOUS
  <2>1. i + 1 \in 1..Len(out[w]) /\ i < i + 1
    BY <1>4
  <2> QED  BY <1>2, <1>5, <2>1 DEF Stamped
<1>7. Len(out[w]) <= 2 * MaxConn
  <2>1. out[w] # <<>> /\ est[w] # 0
    BY <1>2, <1>4 DEF Short
  <2> QED  BY <1>2, <1>3, <1>4, <2>1, MaxConnAssumption DEF Short
<1> QED  BY <1>1, <1>4, <1>5, <1>6, <1>7

\* A line of a held connection, as the analyzer reads it.
LEMMA HeldEvent ==
  ASSUME MeasureInv, NEW l, l[1] \in Worker, l[2] \in 1..Len(out[l[1]]), l = <<l[1], l[2]>>
  PROVE  /\ l \in Line
         /\ Events[l].kind = out[l[1]][l[2]].kind
         /\ Events[l].conn = ConnOf(l) /\ Events[l].ts = TimeOf(l)
         /\ Events[l].kind \in Kind /\ TimeOf(l) \in Nat
<1> DEFINE w == l[1]
           i == l[2]
<1>1. Len(out[w]) \in Nat /\ Len(out[w]) <= 2 * MaxConn /\ i \in Nat /\ i >= 1 /\ i <= Len(out[w])
      /\ out[w][i].kind \in Kind /\ stamp[w][i] \in Nat
  BY LogAt
<1>2. failures[w] \in Nat /\ MaxFailure \in Nat /\ MaxConn \in Nat
  BY Types, FailureAssumption, MaxConnAssumption
<1>3. l \in Line
  <2>1. i \in 1..(2 * MaxConn + MaxFailure) /\ i <= Len(out[w]) + failures[w]
    BY <1>1, <1>2
  <2> QED  BY <2>1 DEF Line
<1>4. Events[l] = [kind |-> out[w][i].kind, conn |-> <<w, out[w][i].conn>>, ts |-> stamp[w][i]]
  BY <1>1, <1>3 DEF Events
<1>5. /\ Events[l].kind = out[w][i].kind
      /\ Events[l].conn = <<w, out[w][i].conn>> /\ Events[l].ts = stamp[w][i]
  BY <1>4
<1> QED  BY <1>1, <1>3, <1>5 DEF ConnOf, TimeOf

\* A line after those is a failed new connection.
LEMMA FailedEvent ==
  ASSUME MeasureInv, NEW l \in Line
  PROVE  /\ l[1] \in Worker /\ l[2] \in Nat /\ l[2] >= 1 /\ l = <<l[1], l[2]>>
         /\ l[2] \notin 1..Len(out[l[1]]) =>
              failures[l[1]] > 0 /\ Events[l].kind = "NewConnAttemptFail"
<1>1. /\ l[1] \in Worker /\ l[2] \in Nat /\ l[2] >= 1 /\ l = <<l[1], l[2]>>
      /\ l[2] <= Len(out[l[1]]) + failures[l[1]]
  BY MaxConnAssumption, FailureAssumption DEF Line
<1>2. Len(out[l[1]]) \in Nat /\ failures[l[1]] \in Nat
  <2>1. out[l[1]] \in Seq([kind : Kind, conn : 1..MaxConn]) /\ failures[l[1]] \in 0..MaxFailure
    BY <1>1, Types
  <2> QED  BY <2>1, LenProperties, FailureAssumption
<1>3. ASSUME l[2] \notin 1..Len(out[l[1]]) PROVE ~(l[2] <= Len(out[l[1]])) /\ failures[l[1]] > 0
  BY <1>1, <1>2, <1>3
<1> QED  BY <1>1, <1>3 DEF Events

\* The lines of a kind that held connections write.
LEMMA OfHeldKind ==
  ASSUME MeasureInv, NEW inp, inp.events = Events, NEW kinds, "NewConnAttemptFail" \notin kinds
  PROVE  /\ OfKind(inp, kinds) = Held(kinds)
         /\ \A l \in Held(kinds) :
              /\ inp.events[l].ts = TimeOf(l) /\ inp.events[l].conn = ConnOf(l)
              /\ inp.events[l].kind = out[l[1]][l[2]].kind
              /\ l[1] \in Worker /\ l[2] \in 1..Len(out[l[1]]) /\ TimeOf(l) \in Nat
              /\ l = <<l[1], l[2]>> /\ out[l[1]][l[2]].kind \in kinds
<1>1. DOMAIN inp.events = Line
  BY DEF Events
<1>2. ASSUME NEW l \in Held(kinds)
      PROVE  /\ l[1] \in Worker /\ l[2] \in 1..Len(out[l[1]]) /\ l = <<l[1], l[2]>>
             /\ out[l[1]][l[2]].kind \in kinds
  BY <1>2 DEF Held
<1>3. ASSUME NEW l \in OfKind(inp, kinds) PROVE l \in Held(kinds)
  <2>1. l \in Line /\ Events[l].kind \in kinds
    BY <1>1, <1>3 DEF OfKind
  <2>2. l[1] \in Worker /\ l[2] \in Nat /\ l = <<l[1], l[2]>> /\ l[2] \in 1..Len(out[l[1]])
    BY <2>1, FailedEvent
  <2>3. out[l[1]][l[2]].kind \in kinds
    BY <2>1, <2>2, HeldEvent
  <2> QED  BY <2>2, <2>3 DEF Held
<1>4. ASSUME NEW l \in Held(kinds) PROVE l \in OfKind(inp, kinds)
  <2>1. l \in Line /\ Events[l].kind \in kinds
    BY <1>2, <1>4, HeldEvent
  <2> QED  BY <1>1, <2>1 DEF OfKind
<1>5. ASSUME NEW l \in Held(kinds)
      PROVE  /\ inp.events[l].ts = TimeOf(l) /\ inp.events[l].conn = ConnOf(l)
             /\ inp.events[l].kind = out[l[1]][l[2]].kind
             /\ l[1] \in Worker /\ l[2] \in 1..Len(out[l[1]]) /\ TimeOf(l) \in Nat
             /\ l = <<l[1], l[2]>> /\ out[l[1]][l[2]].kind \in kinds
  BY <1>2, <1>5, HeldEvent
<1> QED  BY <1>3, <1>4, <1>5

\* A failed new connection has its line.
LEMMA OfFailures ==
  ASSUME MeasureInv, NEW inp, inp.events = Events
  PROVE  OfKind(inp, {"NewConnAttemptFail"}) = {} <=> \A w \in Worker : failures[w] = 0
<1>1. DOMAIN inp.events = Line
  BY DEF Events
<1>2. ASSUME NEW l \in OfKind(inp, {"NewConnAttemptFail"})
      PROVE  \E w \in Worker : failures[w] # 0
  <2>1. l \in Line /\ Events[l].kind = "NewConnAttemptFail"
    BY <1>1, <1>2 DEF OfKind
  <2>2. l[1] \in Worker /\ l[2] \in Nat /\ l = <<l[1], l[2]>>
    BY <2>1, FailedEvent
  <2>3. CASE l[2] \in 1..Len(out[l[1]])
    <3>1. Events[l].kind \in Kind
      BY <2>2, <2>3, HeldEvent
    <3> QED  BY <2>1, <3>1 DEF Kind, BreakKind
  <2>4. CASE l[2] \notin 1..Len(out[l[1]])
    <3>1. failures[l[1]] \in Nat /\ failures[l[1]] > 0
      BY <2>1, <2>2, <2>4, FailedEvent, Types, FailureAssumption
    <3> QED  BY <2>2, <3>1
  <2> QED  BY <2>3, <2>4
<1>3. ASSUME NEW w \in Worker, failures[w] # 0
      PROVE  OfKind(inp, {"NewConnAttemptFail"}) # {}
  <2> DEFINE l == <<w, Len(out[w]) + 1>>
  <2>1. Len(out[w]) \in Nat /\ Len(out[w]) <= 2 * MaxConn /\ MaxConn \in Nat
    <3>1. out[w] \in Seq([kind : Kind, conn : 1..MaxConn])
      BY Types
    <3>2. Len(out[w]) \in Nat /\ MaxConn \in Nat
      BY <3>1, LenProperties, MaxConnAssumption
    <3>3. Len(out[w]) # 0 => Len(out[w]) \in 1..Len(out[w])
      BY <3>2
    <3>4. Len(out[w]) # 0 => Len(out[w]) <= 2 * MaxConn
      BY <3>3, LogAt
    <3> QED  BY <3>2, <3>4
  <2>2. failures[w] \in 1..MaxFailure /\ MaxFailure \in Nat
    BY <1>3, Types, FailureAssumption
  <2>3. Len(out[w]) + 1 \in 1..(2 * MaxConn + MaxFailure) /\ Len(out[w]) + 1 <= Len(out[w]) + failures[w]
        /\ ~(Len(out[w]) + 1 <= Len(out[w]))
    BY <2>1, <2>2
  <2>4. l \in Line
    BY <2>3 DEF Line
  <2>5. Events[l].kind = "NewConnAttemptFail"
    BY <2>3, <2>4 DEF Events
  <2> QED  BY <1>1, <2>4, <2>5 DEF OfKind
<1> QED  BY <1>2, <1>3

-----------------------------------------------------------------------------
(* Breaks and recoveries.                                                  *)
\* A connection breaks once.
LEMMA OneBreak ==
  ASSUME MeasureInv, NEW k \in Held(BreakKind), NEW l \in Held(BreakKind), ConnOf(k) = ConnOf(l)
  PROVE  k = l
<1>1. /\ k[1] \in Worker /\ k[2] \in 1..Len(out[k[1]]) /\ k = <<k[1], k[2]>>
      /\ l[1] \in Worker /\ l[2] \in 1..Len(out[l[1]]) /\ l = <<l[1], l[2]>>
      /\ out[k[1]][k[2]].kind \in BreakKind /\ out[l[1]][l[2]].kind \in BreakKind
  BY DEF Held
<1>2. k[1] = l[1] /\ out[k[1]][k[2]].conn = out[k[1]][l[2]].conn
  BY DEF ConnOf
<1>3. Ordered(k[1])
  BY <1>1 DEF MeasureInv, StreamInv, WorkerInv
<1>4. out[k[1]][k[2]].conn \in Int /\ out[k[1]][l[2]].conn \in Int /\ k[2] \in Int /\ l[2] \in Int
  BY <1>1, <1>2, LogAt
<1>5. ~Precedes(out[k[1]][k[2]], out[k[1]][l[2]]) /\ ~Precedes(out[k[1]][l[2]], out[k[1]][k[2]])
  BY <1>1, <1>2, <1>4 DEF Precedes, Rank, BreakKind
<1>6. ~(k[2] < l[2]) /\ ~(l[2] < k[2])
  BY <1>1, <1>2, <1>3, <1>5 DEF Ordered
<1> QED  BY <1>1, <1>2, <1>4, <1>6

\* The line after a break is the recovery, and the only one.
LEMMA OneRecovery ==
  ASSUME MeasureInv, NEW l \in Held(BreakKind), NEW k \in Held({"ConnReconnected"})
  PROVE  ConnOf(k) = ConnOf(l) <=> HasNext(l) /\ k = <<l[1], l[2] + 1>>
<1> DEFINE w == l[1]
           i == l[2]
           j == k[2]
<1>1. /\ w \in Worker /\ i \in 1..Len(out[w]) /\ l = <<w, i>> /\ out[w][i].kind \in BreakKind
      /\ k[1] \in Worker /\ j \in 1..Len(out[k[1]]) /\ k = <<k[1], j>>
      /\ out[k[1]][j].kind = "ConnReconnected"
  BY DEF Held
<1>2. Len(out[w]) \in Nat /\ Paired(w) /\ Ordered(w)
  BY <1>1, LogAt DEF MeasureInv, StreamInv, WorkerInv
<1>3. HasNext(l) => /\ out[w][i + 1].kind = "ConnReconnected"
                    /\ out[w][i + 1].conn = out[w][i].conn
  BY <1>1, <1>2 DEF HasNext, Paired
<1>4. ASSUME HasNext(l), k = <<w, i + 1>> PROVE ConnOf(k) = ConnOf(l)
  <2>1. k[1] = w /\ k[2] = i + 1
    BY <1>4
  <2> QED  BY <1>3, <1>4, <2>1 DEF ConnOf
<1>5. ASSUME ConnOf(k) = ConnOf(l) PROVE HasNext(l) /\ k = <<w, i + 1>>
  <2>1. k[1] = w /\ out[w][j].conn = out[w][i].conn /\ out[w][j].kind = "ConnReconnected"
        /\ j \in 1..Len(out[w])
    BY <1>1, <1>5 DEF ConnOf
  <2>2. out[w][j].conn \in Int /\ out[w][i].conn \in Int /\ i \in Int /\ j \in Int
    BY <1>1, <2>1, LogAt
  <2>3. ~Precedes(out[w][j], out[w][i]) /\ j # i
    BY <1>1, <2>1, <2>2 DEF Precedes, Rank, BreakKind
  <2>4. i < j
    BY <1>1, <1>2, <2>1, <2>2, <2>3 DEF Ordered
  <2>5. HasNext(l) /\ i + 1 \in 1..Len(out[w])
    BY <1>1, <1>2, <2>1, <2>2, <2>4 DEF HasNext
  <2>6. ~Precedes(out[w][i + 1], out[w][j])
    BY <1>3, <2>1, <2>2, <2>5 DEF Precedes, Rank, BreakKind
  <2>7. ~(i + 1 < j)
    BY <1>2, <2>1, <2>5, <2>6 DEF Ordered
  <2>8. j = i + 1
    BY <2>2, <2>4, <2>7
  <2> QED  BY <1>1, <2>1, <2>5, <2>8
<1> QED  BY <1>4, <1>5

\* So the analyzer finds the time of that line, or none.
LEMMA ReconnectsIs ==
  ASSUME MeasureInv, NEW inp, inp.events = Events, NEW l \in Held(BreakKind)
  PROVE  Reconnects(inp, ConnOf(l)) = IF HasNext(l) THEN {stamp[l[1]][l[2] + 1]} ELSE {}
<1> DEFINE R == {k \in OfKind(inp, {"ConnReconnected"}) : inp.events[k].conn = ConnOf(l)}
           n == <<l[1], l[2] + 1>>
<1>1. /\ OfKind(inp, {"ConnReconnected"}) = Held({"ConnReconnected"})
      /\ \A k \in Held({"ConnReconnected"}) :
           inp.events[k].conn = ConnOf(k) /\ inp.events[k].ts = TimeOf(k)
  BY OfHeldKind
<1>2. \A k : k \in R <=> k \in Held({"ConnReconnected"}) /\ HasNext(l) /\ k = n
  BY <1>1, OneRecovery
<1>3. HasNext(l) => n \in Held({"ConnReconnected"})
  <2>1. l[1] \in Worker /\ l[2] \in 1..Len(out[l[1]]) /\ out[l[1]][l[2]].kind \in BreakKind
    BY DEF Held
  <2>2. Len(out[l[1]]) \in Nat /\ Paired(l[1])
    BY <2>1, LogAt DEF MeasureInv
  <2>3. HasNext(l) => /\ l[2] + 1 \in 1..Len(out[l[1]]) /\ l[2] + 1 \in Nat
                      /\ out[l[1]][l[2] + 1].kind = "ConnReconnected"
    <3> SUFFICES ASSUME HasNext(l)
                 PROVE  /\ l[2] + 1 \in 1..Len(out[l[1]]) /\ l[2] + 1 \in Nat
                        /\ out[l[1]][l[2] + 1].kind = "ConnReconnected"
      OBVIOUS
    <3>1. l[2] + 1 \in 1..Len(out[l[1]]) /\ l[2] + 1 \in Nat /\ l[2] # Len(out[l[1]])
      BY <2>1, <2>2 DEF HasNext
    <3>2. out[l[1]][l[2] + 1].kind = "ConnReconnected"
      BY <2>1, <2>2, <3>1 DEF Paired
    <3> QED  BY <3>1, <3>2
  <2>4. n[1] = l[1] /\ n[2] = l[2] + 1
    OBVIOUS
  <2> HIDE DEF n
  <2>5. HasNext(l) => n = <<l[1], l[2] + 1>> /\ n[1] = l[1] /\ n[2] = l[2] + 1
    BY <2>4 DEF n
  <2> QED  BY <2>1, <2>3, <2>5 DEF Held
<1>4. CASE HasNext(l)
  <2>1. R = {n}
    BY <1>2, <1>3, <1>4
  <2>2. inp.events[n].ts = stamp[l[1]][l[2] + 1]
    BY <1>1, <1>3, <1>4 DEF TimeOf
  <2>3. TsOf(inp, R) = {inp.events[n].ts}
    BY <2>1 DEF TsOf
  <2> QED  BY <1>4, <2>2, <2>3 DEF Reconnects
<1>5. CASE ~HasNext(l)
  <2>1. R = {}
    BY <1>2, <1>5
  <2> QED  BY <1>5, <2>1 DEF Reconnects, TsOf
<1> QED  BY <1>4, <1>5

\* The resets of a window are breaks, read as they were written.
LEMMA AttributedAre ==
  ASSUME MeasureInv, NEW inp, inp.events = Events, NEW i, NEW k \in Attributed(inp, i)
  PROVE  /\ k \in Held(BreakKind) /\ k \in Held({"ConnReset"})
         /\ inp.events[k].conn = ConnOf(k) /\ inp.events[k].ts = TimeOf(k)
         /\ TimeOf(k) \in Nat /\ AttributeReset(TimeOf(k), inp.windows) = i
<1>1. k \in OfKind(inp, {"ConnReset"}) /\ AttributeReset(inp.events[k].ts, inp.windows) = i
  BY DEF Attributed
<1>2. k \in Held({"ConnReset"})
  BY <1>1, OfHeldKind
<1>3. inp.events[k].conn = ConnOf(k) /\ inp.events[k].ts = TimeOf(k) /\ TimeOf(k) \in Nat
  BY <1>2, OfHeldKind
<1>4. k \in Held(BreakKind)
  BY <1>2 DEF Held, BreakKind
<1> QED  BY <1>1, <1>2, <1>3, <1>4

\* What the analyzer pairs with a reset is the line that follows it.
LEMMA RecoveredIs ==
  ASSUME MeasureInv, NEW inp, inp.events = Events, NEW i, NEW k \in Attributed(inp, i)
  PROVE  /\ ResetTS(inp, i, ConnOf(k)) = TimeOf(k)
         /\ RecoveredIn(inp, i, ConnOf(k)) <=> HasNext(k)
         /\ HasNext(k) => /\ Min(Reconnects(inp, ConnOf(k))) - ResetTS(inp, i, ConnOf(k)) = Gap(k)
                          /\ Gap(k) \in Nat
<1>1. /\ k \in Held(BreakKind) /\ TimeOf(k) \in Nat /\ inp.events[k].ts = TimeOf(k)
      /\ inp.events[k].conn = ConnOf(k)
  BY AttributedAre
<1>2. {j \in Attributed(inp, i) : inp.events[j].conn = ConnOf(k)} = {k}
  BY <1>1, AttributedAre, OneBreak
<1>3. ResetTS(inp, i, ConnOf(k)) = TimeOf(k)
  <2>1. TsOf(inp, {k}) = {TimeOf(k)}
    BY <1>1 DEF TsOf
  <2>2. TimeOf(k) \in Int
    BY <1>1
  <2> QED  BY <1>2, <2>1, <2>2, OfOne DEF ResetTS
<1>4. k[1] \in Worker /\ k[2] \in 1..Len(out[k[1]])
  BY <1>1 DEF Held
<1>5. HasNext(k) => stamp[k[1]][k[2] + 1] \in Nat /\ TimeOf(k) <= stamp[k[1]][k[2] + 1]
  BY <1>4, LogAt DEF HasNext, TimeOf
<1>6. CASE HasNext(k)
  <2> DEFINE t == stamp[k[1]][k[2] + 1]
  <2>1. t \in Int /\ t - TimeOf(k) \in Nat /\ TimeOf(k) <= t
    BY <1>1, <1>5, <1>6
  <2>2. Reconnects(inp, ConnOf(k)) = {t}
    BY <1>1, <1>6, ReconnectsIs
  <2>3. Min(Reconnects(inp, ConnOf(k))) = t
    BY <2>1, <2>2, OfOne
  <2>4. Gap(k) = t - TimeOf(k)
    BY DEF Gap, TimeOf
  <2> QED  BY <1>3, <1>6, <2>1, <2>2, <2>3, <2>4 DEF RecoveredIn
<1>7. CASE ~HasNext(k)
  <2>1. Reconnects(inp, ConnOf(k)) = {}
    BY <1>1, <1>7, ReconnectsIs
  <2> QED  BY <1>3, <1>7, <2>1 DEF RecoveredIn
<1> QED  BY <1>6, <1>7

\* A window's account, without ids.
LEMMA WindowIs ==
  ASSUME MeasureInv, NEW inp, inp.events = Events, NEW i
  PROVE  /\ ConnsReset(inp, i) = {ConnOf(k) : k \in Attributed(inp, i)}
         /\ AllRecovered(inp, i) <=> \A k \in Attributed(inp, i) : HasNext(k)
         /\ RecoveryTimes(inp, i) = {Gap(k) : k \in {a \in Attributed(inp, i) : HasNext(a)}}
<1>1. \A k \in Attributed(inp, i) : inp.events[k].conn = ConnOf(k)
  BY AttributedAre
<1>2. ConnsReset(inp, i) = {ConnOf(k) : k \in Attributed(inp, i)}
  BY <1>1 DEF ConnsReset
<1>3. \A k \in Attributed(inp, i) : RecoveredIn(inp, i, ConnOf(k)) <=> HasNext(k)
  BY RecoveredIs
<1>4. AllRecovered(inp, i) <=> \A k \in Attributed(inp, i) : HasNext(k)
  BY <1>2, <1>3 DEF AllRecovered
<1>5. {c \in ConnsReset(inp, i) : RecoveredIn(inp, i, c)} =
        {ConnOf(k) : k \in {a \in Attributed(inp, i) : HasNext(a)}}
  BY <1>2, <1>3
<1>6. \A k \in {a \in Attributed(inp, i) : HasNext(a)} :
        Min(Reconnects(inp, ConnOf(k))) - ResetTS(inp, i, ConnOf(k)) = Gap(k)
  BY RecoveredIs
<1>7. RecoveryTimes(inp, i) = {Gap(k) : k \in {a \in Attributed(inp, i) : HasNext(a)}}
  <2> DEFINE G(c) == Min(Reconnects(inp, c)) - ResetTS(inp, i, c)
             A == {a \in Attributed(inp, i) : HasNext(a)}
  <2>1. RecoveryTimes(inp, i) = {G(c) : c \in {ConnOf(k) : k \in A}}
    BY <1>5 DEF RecoveryTimes
  <2>2. \A k \in A : G(ConnOf(k)) = Gap(k)
    BY <1>6
  <2> HIDE DEF G, A
  <2>3. {G(c) : c \in {ConnOf(k) : k \in A}} = {Gap(k) : k \in A}
    BY <2>2
  <2> QED  BY <2>1, <2>3 DEF A
<1> QED  BY <1>2, <1>4, <1>7

\* So no connection is reset in two windows.
LEMMA NeverTwice ==
  ASSUME MeasureInv, NEW inp, inp.events = Events
  PROVE  ResetTwice(inp) = {}
<1> SUFFICES ASSUME NEW c, NEW i, NEW j, i # j, c \in ConnsReset(inp, i), c \in ConnsReset(inp, j)
             PROVE  FALSE
  BY DEF ResetTwice
<1>1. PICK k \in Attributed(inp, i) : c = ConnOf(k)
  BY WindowIs
<1>2. PICK l \in Attributed(inp, j) : c = ConnOf(l)
  BY WindowIs
<1>3. k = l
  BY <1>1, <1>2, AttributedAre, OneBreak
<1>4. AttributeReset(TimeOf(k), inp.windows) = i /\ AttributeReset(TimeOf(k), inp.windows) = j
  BY <1>3, AttributedAre
<1> QED  BY <1>4

-----------------------------------------------------------------------------
(* The facts of a run, as the logs have them.                              *)
\* The resets that fall into the window of some node.
Hits(inp) == {k \in Held({"ConnReset"}) \ Early(inp) : Holding(TimeOf(k), inp.windows) # {}}

\* The deaths before the first drain, read from the logs.
LEMMA EarlyIs ==
  ASSUME MeasureInv, NEW inp, inp.events = Events
  PROVE  Early(inp) = {k \in Held(BreakKind) : BeforeDrain(TimeOf(k), inp.windows)}
<1>1. "NewConnAttemptFail" \notin BreakKind
  BY DEF BreakKind
<1>2. OfKind(inp, BreakKind) = Held(BreakKind) /\ \A k \in Held(BreakKind) : inp.events[k].ts = TimeOf(k)
  BY <1>1, OfHeldKind
<1> QED  BY <1>2 DEF Early

\* The resets of a window, and those of none, read from the logs.
LEMMA AttributedIs ==
  ASSUME MeasureInv, NEW inp, inp.events = Events, NEW i
  PROVE  Attributed(inp, i) =
           {k \in Held({"ConnReset"}) \ Early(inp) : AttributeReset(TimeOf(k), inp.windows) = i}
<1>1. /\ OfKind(inp, {"ConnReset"}) = Held({"ConnReset"})
      /\ \A k \in Held({"ConnReset"}) : inp.events[k].ts = TimeOf(k)
  BY OfHeldKind
<1> QED  BY <1>1 DEF Attributed

\* Every reset that counts is attributed to one window, or to none.
LEMMA HitsAre ==
  ASSUME MeasureInv, NEW inp, inp.events = Events, WindowList(inp.windows)
  PROVE  /\ \A i \in DOMAIN inp.windows : Attributed(inp, i) \subseteq Hits(inp)
         /\ \A k \in Hits(inp) : \E i \in DOMAIN inp.windows : k \in Attributed(inp, i)
         /\ Attributed(inp, 0) =
              {k \in Held({"ConnReset"}) \ Early(inp) : Holding(TimeOf(k), inp.windows) = {}}
<1>1. \A k \in Held({"ConnReset"}) : TimeOf(k) \in Nat
  BY OfHeldKind
<1>2. \A k \in Held({"ConnReset"}) :
        /\ AttributeReset(TimeOf(k), inp.windows) = 0 <=> Holding(TimeOf(k), inp.windows) = {}
        /\ AttributeReset(TimeOf(k), inp.windows) # 0 =>
             AttributeReset(TimeOf(k), inp.windows) \in Holding(TimeOf(k), inp.windows)
  BY <1>1, AttributeResetIs
<1>3. \A i \in DOMAIN inp.windows : i # 0
  BY WindowNumbers
<1>4. \A ts : Holding(ts, inp.windows) \subseteq DOMAIN inp.windows
  BY DEF Holding
<1>5. \A i \in DOMAIN inp.windows : Attributed(inp, i) \subseteq Hits(inp)
  BY <1>2, <1>3, AttributedIs DEF Hits
<1>6. ASSUME NEW k \in Hits(inp) PROVE \E i \in DOMAIN inp.windows : k \in Attributed(inp, i)
  <2>1. k \in Held({"ConnReset"}) \ Early(inp) /\ Holding(TimeOf(k), inp.windows) # {}
    BY <1>6 DEF Hits
  <2>2. AttributeReset(TimeOf(k), inp.windows) \in DOMAIN inp.windows
    BY <1>2, <1>4, <2>1
  <2> QED  BY <2>1, <2>2, AttributedIs
<1>7. Attributed(inp, 0) =
        {k \in Held({"ConnReset"}) \ Early(inp) : Holding(TimeOf(k), inp.windows) = {}}
  BY <1>2, AttributedIs
<1> QED  BY <1>5, <1>6, <1>7

\* The pool recovered when each of these resets was followed by a recovery.
LEMMA PoolIs ==
  ASSUME MeasureInv, NEW inp, inp.events = Events, WindowList(inp.windows)
  PROVE  /\ Pool(inp) <=> \A k \in Hits(inp) : HasNext(k)
         /\ AllTimes(inp) = {Gap(k) : k \in {h \in Hits(inp) : HasNext(h)}}
<1>1. \A i \in DOMAIN inp.windows : AllRecovered(inp, i) <=> \A k \in Attributed(inp, i) : HasNext(k)
  BY WindowIs
<1>2. \A i \in DOMAIN inp.windows :
        RecoveryTimes(inp, i) = {Gap(k) : k \in {a \in Attributed(inp, i) : HasNext(a)}}
  BY WindowIs
<1>3. Pool(inp) <=> \A k \in Hits(inp) : HasNext(k)
  BY <1>1, HitsAre DEF Pool
<1>4. \A t : t \in AllTimes(inp) <=> \E i \in DOMAIN inp.windows : t \in RecoveryTimes(inp, i)
  BY DEF AllTimes
<1>5. \A t : t \in AllTimes(inp) <=>
        \E i \in DOMAIN inp.windows : \E k \in Attributed(inp, i) : HasNext(k) /\ t = Gap(k)
  BY <1>2, <1>4
<1>6. \A t : t \in AllTimes(inp) <=> \E k \in Hits(inp) : HasNext(k) /\ t = Gap(k)
  BY <1>5, HitsAre
<1> QED  BY <1>3, <1>6

\* The windows of a measurement are what a watcher gives.
LEMMA InputIs ==
  ASSUME MeasureInv
  PROVE  /\ Input.events = Events /\ Input.windows = windows /\ Input.prereq = prereq
         /\ WindowList(windows)
<1>1. windows \in WindowChoices
  BY Types
<1> QED  BY <1>1, WindowAssumption DEF Input, WindowList

\* The lines of the workers' logs, by worker and place.
LEMMA HeldPair ==
  ASSUME MeasureInv, NEW kinds, NEW w \in Worker, NEW i \in 1..Len(out[w])
  PROVE  /\ <<w, i>> \in Held(kinds) <=> out[w][i].kind \in kinds
         /\ TimeOf(<<w, i>>) = stamp[w][i]
         /\ HasNext(<<w, i>>) <=> i < Len(out[w])
         /\ Gap(<<w, i>>) = stamp[w][i + 1] - stamp[w][i]
         /\ stamp[w][i] \in Nat
<1> DEFINE l == <<w, i>>
<1>1. l[1] = w /\ l[2] = i /\ l = <<w, i>> /\ i \in Nat /\ stamp[w][i] \in Nat
  BY LogAt
<1> HIDE DEF l
<1>2. l \in Held(kinds) <=> out[w][i].kind \in kinds
  <2>1. l \in Worker \X Nat
    BY <1>1
  <2> QED  BY <1>1, <2>1 DEF Held
<1>3. TimeOf(l) = stamp[w][i] /\ (HasNext(l) <=> i < Len(out[w]))
      /\ Gap(l) = stamp[w][i + 1] - stamp[w][i]
  BY <1>1 DEF TimeOf, HasNext, Gap
<1> QED  BY <1>1, <1>2, <1>3 DEF l

\* No connection died before the first drain.
LEMMA NoneEarly ==
  ASSUME MeasureInv, windows # <<>>
  PROVE  Early(Input) = {} <=>
           \A w \in Worker : \A i \in 1..Len(out[w]) :
             out[w][i].kind \in BreakKind =>
               \E j \in DOMAIN windows : windows[j].drainingAt - Eps <= stamp[w][i]
<1>1. Early(Input) = {k \in Held(BreakKind) : BeforeDrain(TimeOf(k), windows)}
  BY EarlyIs, InputIs
<1>2. ASSUME NEW t \in Nat
      PROVE  ~BeforeDrain(t, windows) <=> \E j \in DOMAIN windows : windows[j].drainingAt - Eps <= t
  <2>1. \A j \in DOMAIN windows : windows[j].drainingAt \in Nat
    BY InputIs, WindowNumbers
  <2>2. \A j \in DOMAIN windows : ~(t < windows[j].drainingAt - Eps) <=> windows[j].drainingAt - Eps <= t
    BY <2>1, ToleranceAssumption
  <2> QED  BY <2>2 DEF BeforeDrain
<1>3. ASSUME Early(Input) = {}, NEW w \in Worker, NEW i \in 1..Len(out[w]), out[w][i].kind \in BreakKind
      PROVE  \E j \in DOMAIN windows : windows[j].drainingAt - Eps <= stamp[w][i]
  <2>1. <<w, i>> \in Held(BreakKind) /\ TimeOf(<<w, i>>) = stamp[w][i] /\ stamp[w][i] \in Nat
    BY <1>3, HeldPair
  <2>2. ~BeforeDrain(stamp[w][i], windows)
    BY <1>1, <1>3, <2>1
  <2> QED  BY <1>2, <2>1, <2>2
<1>4. ASSUME NEW k \in Early(Input)
      PROVE  \E w \in Worker : \E i \in 1..Len(out[w]) :
               /\ out[w][i].kind \in BreakKind
               /\ ~\E j \in DOMAIN windows : windows[j].drainingAt - Eps <= stamp[w][i]
  <2>1. k \in Held(BreakKind) /\ BeforeDrain(TimeOf(k), windows)
    BY <1>1, <1>4
  <2>2. k[1] \in Worker /\ k[2] \in 1..Len(out[k[1]]) /\ out[k[1]][k[2]].kind \in BreakKind
    BY <2>1 DEF Held
  <2>3. TimeOf(k) = stamp[k[1]][k[2]] /\ TimeOf(k) \in Nat
    BY <2>2, LogAt DEF TimeOf
  <2> QED  BY <1>2, <2>1, <2>2, <2>3
<1> QED  BY <1>3, <1>4

\* Nothing was reset outside every window.
LEMMA NoneAstray ==
  ASSUME MeasureInv, Early(Input) = {}
  PROVE  Attributed(Input, 0) = {} <=>
           \A w \in Worker : \A i \in 1..Len(out[w]) :
             out[w][i].kind = "ConnReset" => InSomeWindow(stamp[w][i])
<1>1. Attributed(Input, 0) = {k \in Held({"ConnReset"}) : Holding(TimeOf(k), windows) = {}}
  BY HitsAre, InputIs
<1>2. \A t : Holding(t, windows) # {} <=> InSomeWindow(t)
  BY DEF Holding, InSomeWindow
<1>3. ASSUME Attributed(Input, 0) = {}, NEW w \in Worker, NEW i \in 1..Len(out[w]),
             out[w][i].kind = "ConnReset"
      PROVE  InSomeWindow(stamp[w][i])
  <2>1. <<w, i>> \in Held({"ConnReset"}) /\ TimeOf(<<w, i>>) = stamp[w][i]
    BY <1>3, HeldPair
  <2> QED  BY <1>1, <1>2, <1>3, <2>1
<1>4. ASSUME NEW k \in Attributed(Input, 0)
      PROVE  \E w \in Worker : \E i \in 1..Len(out[w]) :
               out[w][i].kind = "ConnReset" /\ ~InSomeWindow(stamp[w][i])
  <2>1. k \in Held({"ConnReset"}) /\ ~InSomeWindow(TimeOf(k))
    BY <1>1, <1>2, <1>4
  <2>2. k[1] \in Worker /\ k[2] \in 1..Len(out[k[1]]) /\ out[k[1]][k[2]].kind = "ConnReset"
    BY <2>1 DEF Held
  <2> QED  BY <2>1, <2>2 DEF TimeOf
<1> QED  BY <1>3, <1>4

\* Every reset in a window was followed by a recovery, within the bound.
LEMMA AllInBound ==
  ASSUME MeasureInv, Early(Input) = {}
  PROVE  Pool(Input) /\ (\A t \in AllTimes(Input) : ~(t > RecoveryBound)) <=>
           \A w \in Worker : \A i \in 1..Len(out[w]) :
             out[w][i].kind = "ConnReset" => Recovered(w, i)
<1>1. /\ Pool(Input) <=> \A k \in Hits(Input) : HasNext(k)
      /\ AllTimes(Input) = {Gap(k) : k \in {h \in Hits(Input) : HasNext(h)}}
  BY PoolIs, InputIs
<1>2. \A k : k \in Hits(Input) <=> k \in Held({"ConnReset"}) /\ InSomeWindow(TimeOf(k))
  BY InputIs DEF Hits, Holding, InSomeWindow
<1>3. Pool(Input) /\ (\A t \in AllTimes(Input) : ~(t > RecoveryBound)) <=>
        \A k \in Hits(Input) : HasNext(k) /\ ~(Gap(k) > RecoveryBound)
  BY <1>1
<1>4. ASSUME NEW w \in Worker, NEW i \in 1..Len(out[w]), out[w][i].kind = "ConnReset"
      PROVE  Recovered(w, i) <=>
               (<<w, i>> \in Hits(Input) =>
                  HasNext(<<w, i>>) /\ ~(Gap(<<w, i>>) > RecoveryBound))
  <2>1. <<w, i>> \in Hits(Input) <=> InSomeWindow(stamp[w][i])
    BY <1>2, <1>4, HeldPair
  <2>2. /\ HasNext(<<w, i>>) <=> i < Len(out[w])
        /\ Gap(<<w, i>>) = stamp[w][i + 1] - stamp[w][i] /\ stamp[w][i] \in Nat
    BY HeldPair
  <2>3. i < Len(out[w]) => stamp[w][i + 1] - stamp[w][i] \in Int
    BY LogAt
  <2>4. NextWithinBound(w, i) <=> HasNext(<<w, i>>) /\ ~(Gap(<<w, i>>) > RecoveryBound)
    BY <2>2, <2>3, ToleranceAssumption DEF NextWithinBound
  <2> QED  BY <2>1, <2>4 DEF Recovered
<1>5. ASSUME NEW k \in Hits(Input)
      PROVE  /\ k[1] \in Worker /\ k[2] \in 1..Len(out[k[1]]) /\ k = <<k[1], k[2]>>
             /\ out[k[1]][k[2]].kind = "ConnReset"
  BY <1>2, <1>5 DEF Held
<1>6. (\A k \in Hits(Input) : HasNext(k) /\ ~(Gap(k) > RecoveryBound)) <=>
        \A w \in Worker : \A i \in 1..Len(out[w]) :
          out[w][i].kind = "ConnReset" => Recovered(w, i)
  <2>1. ASSUME \A k \in Hits(Input) : HasNext(k) /\ ~(Gap(k) > RecoveryBound),
               NEW w \in Worker, NEW i \in 1..Len(out[w]), out[w][i].kind = "ConnReset"
        PROVE  Recovered(w, i)
    BY <1>4, <2>1
  <2>2. ASSUME \A w \in Worker : \A i \in 1..Len(out[w]) :
                 out[w][i].kind = "ConnReset" => Recovered(w, i),
               NEW k \in Hits(Input)
        PROVE  HasNext(k) /\ ~(Gap(k) > RecoveryBound)
    <3>1. Recovered(k[1], k[2])
      BY <1>5, <2>2
    <3> QED  BY <1>4, <1>5, <2>2, <3>1
  <2> QED  BY <2>1, <2>2
<1> QED  BY <1>3, <1>6

\* Two windows do not overlap when one begins as the other ends.
LEMMA OverlapIs ==
  ASSUME NEW ws, WindowList(ws), NEW i \in DOMAIN ws, NEW j \in DOMAIN ws, i # j
  PROVE  ~Overlapping(ws[i], ws[j]) <=>
           \/ ws[i].graceExpiresAt <= ws[j].drainingAt + Eps
           \/ ws[j].graceExpiresAt <= ws[i].drainingAt + Eps
<1>1. /\ ws[i].drainingAt \in Nat /\ ws[i].graceExpiresAt \in Nat
      /\ ws[j].drainingAt \in Nat /\ ws[j].graceExpiresAt \in Nat
  BY WindowNumbers
<1>2. /\ ws[i].node # ws[j].node
      /\ ws[i].drainingAt + Eps < ws[i].graceExpiresAt
      /\ ws[j].drainingAt + Eps < ws[j].graceExpiresAt
  BY DEF WindowList
<1> QED  BY <1>1, <1>2, ToleranceAssumption DEF Overlapping, Earlier, Later

\* Nor do any two of them.
LEMMA NoOverlap ==
  ASSUME NEW ws, WindowList(ws)
  PROVE  ~(\E i, j \in DOMAIN ws : i < j /\ Overlapping(ws[i], ws[j])) <=>
           \A i, j \in DOMAIN ws : i # j =>
             \/ ws[i].graceExpiresAt <= ws[j].drainingAt + Eps
             \/ ws[j].graceExpiresAt <= ws[i].drainingAt + Eps
<1>1. \A i, j \in DOMAIN ws : i \in Int /\ j \in Int
  BY WindowNumbers
<1>2. \A i, j \in DOMAIN ws : i # j => i < j \/ j < i
  BY <1>1
<1>3. \A i, j \in DOMAIN ws : i < j => i # j
  BY <1>1
<1> QED  BY <1>2, <1>3, OverlapIs

-----------------------------------------------------------------------------
(* The verdict and the report.                                             *)
\* A trusted run: each node was ready again; nothing died before a drain.
AllReady == \A i \in DOMAIN windows : windows[i].readyAt # 0

Drained == \A w \in Worker : \A i \in 1..Len(out[w]) :
  out[w][i].kind \in BreakKind => \E j \in DOMAIN windows : windows[j].drainingAt - Eps <= stamp[w][i]

Trustworthy == ~prereq /\ windows # <<>> /\ AllReady /\ Drained

\* A clean one: one node after the other, resets in their windows only, each
\* followed by a recovery, and no failed new connection.
Staggered == \A i, j \in DOMAIN windows : i # j =>
  \/ windows[i].graceExpiresAt <= windows[j].drainingAt + Eps
  \/ windows[j].graceExpiresAt <= windows[i].drainingAt + Eps

Inside == \A w \in Worker : \A i \in 1..Len(out[w]) :
  out[w][i].kind = "ConnReset" => InSomeWindow(stamp[w][i])

Back == \A w \in Worker : \A i \in 1..Len(out[w]) :
  out[w][i].kind = "ConnReset" => Recovered(w, i)

NoneFailed == \A w \in Worker : failures[w] = 0

\* An input that the analyzer does not trust, as the logs have it.
LEMMA UntrustedIs ==
  ASSUME MeasureInv
  PROVE  ~Untrusted(Input) <=> Trustworthy
<1>1. Input.prereq = prereq /\ Input.windows = windows
  BY InputIs
<1>2. CASE windows = <<>>
  BY <1>1, <1>2, Zenon DEF Untrusted, Trustworthy
<1>3. CASE windows # <<>>
  <2>1. Early(Input) = {} <=> Drained
    BY <1>3, NoneEarly DEF Drained
  <2>2. ~Untrusted(Input) <=> ~prereq /\ AllReady /\ Early(Input) = {}
    BY <1>1, <1>3, Zenon DEF Untrusted, AllReady
  <2> QED  BY <1>3, <2>1, <2>2, Zenon DEF Trustworthy
<1> QED  BY <1>2, <1>3

\* What fails a trusted one, as the logs have it.
LEMMA FailingIs ==
  ASSUME MeasureInv, ~Untrusted(Input)
  PROVE  /\ ~(\E i, j \in DOMAIN Input.windows :
                i < j /\ Overlapping(Input.windows[i], Input.windows[j])) <=> Staggered
         /\ Attributed(Input, 0) = {} <=> Inside
         /\ ResetTwice(Input) = {}
         /\ Pool(Input) /\ ~(\E t \in AllTimes(Input) : t > RecoveryBound) <=> Back
         /\ OfKind(Input, {"NewConnAttemptFail"}) = {} <=> NoneFailed
<1>1. Early(Input) = {}
  BY DEF Untrusted
<1>2. Input.windows = windows /\ Input.events = Events /\ WindowList(windows)
  BY InputIs
<1>3. ~(\E t \in AllTimes(Input) : t > RecoveryBound) <=>
        \A t \in AllTimes(Input) : ~(t > RecoveryBound)
  OBVIOUS
<1>4. Pool(Input) /\ ~(\E t \in AllTimes(Input) : t > RecoveryBound) <=> Back
  BY <1>1, <1>3, AllInBound, Zenon DEF Back
<1>5. ResetTwice(Input) = {}
  BY <1>2, NeverTwice
<1>6. OfKind(Input, {"NewConnAttemptFail"}) = {} <=> NoneFailed
  BY <1>2, OfFailures DEF NoneFailed
<1>7. Attributed(Input, 0) = {} <=> Inside
  BY <1>1, NoneAstray DEF Inside
<1>8. ~(\E i, j \in DOMAIN Input.windows :
          i < j /\ Overlapping(Input.windows[i], Input.windows[j])) <=> Staggered
  BY <1>2, NoOverlap DEF Staggered
<1> QED  BY <1>4, <1>5, <1>6, <1>7, <1>8

\* The verdict, as the logs have it.
LEMMA JudgedBy ==
  ASSUME MeasureInv
  PROVE  Verdict(Input) = IF ~Trustworthy THEN "ERROR"
                          ELSE IF Staggered /\ Inside /\ Back /\ NoneFailed THEN "PASS"
                          ELSE "FAIL"
<1>1. Verdict(Input) =
        IF Untrusted(Input) THEN "ERROR" ELSE IF Failing(Input) THEN "FAIL" ELSE "PASS"
  BY VerdictIs
<1>2. ~Untrusted(Input) => (~Failing(Input) <=> Staggered /\ Inside /\ Back /\ NoneFailed)
  <2> SUFFICES ASSUME ~Untrusted(Input)
               PROVE  ~Failing(Input) <=> Staggered /\ Inside /\ Back /\ NoneFailed
    OBVIOUS
  <2> QED  BY FailingIs, Zenon DEF Failing
<1> QED  BY <1>1, <1>2, UntrustedIs

\* The analyzer passes a run exactly when its logs and windows show a clean
\* one.
LEMMA InvPassExact == MeasureInv => PassExact
<1> SUFFICES ASSUME MeasureInv PROVE Verdict(Input) = "PASS" <=> Acceptable
  BY DEF PassExact
<1> DEFINE InTime == \A w \in Worker : \A i \in 1..Len(out[w]) :
                       out[w][i].kind = "ConnReset" => NextWithinBound(w, i)
<1>1. Acceptable <=> Trustworthy /\ Staggered /\ NoneFailed /\ Inside /\ InTime
  BY Zenon DEF Acceptable, Trustworthy, AllReady, Drained, Staggered, NoneFailed, Inside
<1>2. Inside => (Back <=> InTime)
  BY Zenon DEF Recovered, Inside, Back
<1> HIDE DEF InTime
<1> QED  BY <1>1, <1>2, JudgedBy

(* In every run the verdict is PASS exactly when the run was clean.        *)
THEOREM VerdictIsExact == MeasureSpec => []PassExact
BY InvPassExact, MeasureInvariant, PTL

\* The rows and what decides them.
LEMMA RowsAre ==
  /\ DOMAIN AcRows = 1..5
  /\ AcRows[1] = {"new-conn-failure"}
  /\ AcRows[2] = {"same-conn-reset-in-2-windows", "overlapping-node-windows"}
  /\ AcRows[3] = {"drop-on-non-upgrading-node"}
  /\ AcRows[4] = {"overlapping-node-windows"}
  /\ AcRows[5] = {"pool-not-recovered", "recovery-over-bound"}
BY DEF AcRows

\* What each cell of the checklist says.
LEMMA CellsAre ==
  ASSUME NEW inp, Trusted(inp)
  PROVE  /\ Cell(inp, TRUE, 1) = IF Raised(inp, "new-conn-failure") THEN "FAIL" ELSE "PASS"
         /\ Cell(inp, TRUE, 2) = IF \/ Raised(inp, "same-conn-reset-in-2-windows")
                                    \/ Raised(inp, "overlapping-node-windows")
                                 THEN "FAIL" ELSE "PASS"
         /\ Cell(inp, TRUE, 3) = IF Raised(inp, "drop-on-non-upgrading-node") THEN "FAIL" ELSE "PASS"
         /\ Cell(inp, TRUE, 4) = IF Raised(inp, "overlapping-node-windows") THEN "FAIL" ELSE "PASS"
         /\ Cell(inp, TRUE, 5) = IF \/ Raised(inp, "pool-not-recovered")
                                    \/ Raised(inp, "recovery-over-bound")
                                 THEN "FAIL" ELSE "PASS"
<1>1. \A row : Cell(inp, TRUE, row) =
                 IF \E r \in AcRows[row] : Raised(inp, r) THEN "FAIL" ELSE "PASS"
  BY DEF Cell, HasReason
<1>2. (\E r \in AcRows[1] : Raised(inp, r)) <=> Raised(inp, "new-conn-failure")
  BY RowsAre, Zenon
<1>3. (\E r \in AcRows[2] : Raised(inp, r)) <=>
        Raised(inp, "same-conn-reset-in-2-windows") \/ Raised(inp, "overlapping-node-windows")
  BY RowsAre, Zenon
<1>4. (\E r \in AcRows[3] : Raised(inp, r)) <=> Raised(inp, "drop-on-non-upgrading-node")
  BY RowsAre, Zenon
<1>5. (\E r \in AcRows[4] : Raised(inp, r)) <=> Raised(inp, "overlapping-node-windows")
  BY RowsAre, Zenon
<1>6. (\E r \in AcRows[5] : Raised(inp, r)) <=>
        Raised(inp, "pool-not-recovered") \/ Raised(inp, "recovery-over-bound")
  BY RowsAre, Zenon
<1> QED  BY <1>1, <1>2, <1>3, <1>4, <1>5, <1>6

\* A row of five.
LEMMA FiveRows == \A r : r \in DOMAIN AcRows <=> r = 1 \/ r = 2 \/ r = 3 \/ r = 4 \/ r = 5
<1>1. \A r : r \in 1..5 <=> r = 1 \/ r = 2 \/ r = 3 \/ r = 4 \/ r = 5
  OBVIOUS
<1> QED  BY <1>1, RowsAre

\* A trusted input fails when one of its rows does.
LEMMA SomeRowFails ==
  ASSUME NEW inp, Trusted(inp)
  PROVE  Failing(inp) <=> \E r \in DOMAIN AcRows : Cell(inp, TRUE, r) = "FAIL"
<1>1. Failing(inp) <=>
        \/ Raised(inp, "overlapping-node-windows") \/ Raised(inp, "drop-on-non-upgrading-node")
        \/ Raised(inp, "same-conn-reset-in-2-windows") \/ Raised(inp, "pool-not-recovered")
        \/ Raised(inp, "recovery-over-bound") \/ Raised(inp, "new-conn-failure")
  BY RaisedFor, Zenon DEF Failing
<1>2. (\E r \in DOMAIN AcRows : Cell(inp, TRUE, r) = "FAIL") <=>
        \/ Cell(inp, TRUE, 1) = "FAIL" \/ Cell(inp, TRUE, 2) = "FAIL"
        \/ Cell(inp, TRUE, 3) = "FAIL" \/ Cell(inp, TRUE, 4) = "FAIL"
        \/ Cell(inp, TRUE, 5) = "FAIL"
  BY FiveRows, Zenon
<1> QED  BY <1>1, <1>2, CellsAre

\* The banner and the checklist tell one story, whatever the input.
LEMMA BannerAgrees == BannerMatchesRows
<1> DEFINE V == Verdict(Input)
<1>1. V = IF Untrusted(Input) THEN "ERROR" ELSE IF Failing(Input) THEN "FAIL" ELSE "PASS"
  BY VerdictIs
<1>2. \E r : r \in DOMAIN AcRows
  BY FiveRows
<1>3. Cells(FALSE) = {"N/A"}
  <2>1. \A r \in DOMAIN AcRows : Cell(Input, FALSE, r) = "N/A"
    BY DEF Cell
  <2> QED  BY <1>2, <2>1 DEF Cells
<1>4. CASE V = "ERROR"
  <2>1. Banner(Input, TRUE) = "not-trusted"
    BY <1>4 DEF Banner, Trusted
  <2>2. \A r \in DOMAIN AcRows : Cell(Input, TRUE, r) = "N/A"
    BY <1>4 DEF Cell, Trusted
  <2>3. Cells(TRUE) = {"N/A"}
    BY <1>2, <2>2 DEF Cells
  <2> QED  BY <1>3, <2>1, <2>3 DEF BannerMatchesRows
<1>5. CASE V = "FAIL"
  <2>1. Banner(Input, TRUE) = "FAIL" /\ Trusted(Input) /\ Failing(Input)
    BY <1>1, <1>5 DEF Banner, Trusted
  <2>2. "FAIL" \in Cells(TRUE)
    BY <2>1, SomeRowFails DEF Cells
  <2> QED  BY <1>3, <2>1, <2>2 DEF BannerMatchesRows
<1>6. CASE V = "PASS"
  <2>1. Banner(Input, TRUE) = "PASS" /\ Trusted(Input) /\ ~Failing(Input)
    BY <1>1, <1>6 DEF Banner, Trusted
  <2>2. \A r \in DOMAIN AcRows : Cell(Input, TRUE, r) # "FAIL"
    BY <2>1, SomeRowFails
  <2>3. \A r \in DOMAIN AcRows : Cell(Input, TRUE, r) = "PASS"
    BY <2>1, <2>2 DEF Cell
  <2>4. Cells(TRUE) = {"PASS"}
    BY <1>2, <2>3 DEF Cells
  <2> QED  BY <1>3, <2>1, <2>4 DEF BannerMatchesRows
<1> QED  BY <1>1, <1>4, <1>5, <1>6

(* In every run the banner and the checklist tell one story.               *)
THEOREM BannerIsTheRows == MeasureSpec => []BannerMatchesRows
BY BannerAgrees, PTL

\* In a trusted run each criterion is decided as the logs have it.
LEMMA InvRowsAreTrue == MeasureInv => RowsAreTrue
<1> SUFFICES ASSUME MeasureInv, Trusted(Input)
             PROVE  /\ Cell(Input, TRUE, 1) = "PASS" <=> \A w \in Worker : failures[w] = 0
                    /\ Cell(Input, TRUE, 3) = "PASS" <=>
                         \A l \in ResetLines : InSomeWindow(Events[l].ts)
                    /\ Cell(Input, TRUE, 4) = "PASS" <=>
                         \A i, j \in DOMAIN windows : i # j =>
                           \/ windows[i].graceExpiresAt <= windows[j].drainingAt + Eps
                           \/ windows[j].graceExpiresAt <= windows[i].drainingAt + Eps
                    /\ Cell(Input, TRUE, 5) = "PASS" <=>
                         \A w \in Worker : \A i \in DOMAIN out[w] :
                           out[w][i].kind = "ConnReset" => Recovered(w, i)
  BY Zenon DEF RowsAreTrue
<1>1. ~Untrusted(Input)
  BY VerdictIs DEF Trusted
<1>2. Cell(Input, TRUE, 1) = "PASS" <=> \A w \in Worker : failures[w] = 0
  BY <1>1, FailingIs, CellsAre, RaisedFor DEF NoneFailed
<1>3. Cell(Input, TRUE, 3) = "PASS" <=> Attributed(Input, 0) = {}
  BY CellsAre, RaisedFor
<1>4. Cell(Input, TRUE, 4) = "PASS" <=>
        ~(\E i, j \in DOMAIN Input.windows :
            i < j /\ Overlapping(Input.windows[i], Input.windows[j]))
  BY CellsAre, RaisedFor
<1>5. Cell(Input, TRUE, 5) = "PASS" <=>
        Pool(Input) /\ ~(\E t \in AllTimes(Input) : t > RecoveryBound)
  BY CellsAre, RaisedFor
<1>6. \A w \in Worker : DOMAIN out[w] = 1..Len(out[w])
  <2>1. \A w \in Worker : out[w] \in Seq([kind : Kind, conn : 1..MaxConn])
    BY Types
  <2> QED  BY <2>1, LenProperties
<1>7. Attributed(Input, 0) = {} <=> \A l \in ResetLines : InSomeWindow(Events[l].ts)
  <2>1. Early(Input) = {}
    BY <1>1 DEF Untrusted
  <2>2. Attributed(Input, 0) = {k \in Held({"ConnReset"}) : Holding(TimeOf(k), windows) = {}}
    BY <2>1, HitsAre, InputIs
  <2>3. ResetLines = Held({"ConnReset"}) /\ \A l \in ResetLines : Events[l].ts = TimeOf(l)
    BY OfHeldKind, InputIs DEF ResetLines
  <2>4. \A t : Holding(t, windows) # {} <=> InSomeWindow(t)
    BY DEF Holding, InSomeWindow
  <2> QED  BY <2>2, <2>3, <2>4
<1>8. Cell(Input, TRUE, 4) = "PASS" <=>
        \A i, j \in DOMAIN windows : i # j =>
          \/ windows[i].graceExpiresAt <= windows[j].drainingAt + Eps
          \/ windows[j].graceExpiresAt <= windows[i].drainingAt + Eps
  BY <1>1, <1>4, FailingIs, Zenon DEF Staggered
<1>9. Cell(Input, TRUE, 5) = "PASS" <=>
        \A w \in Worker : \A i \in DOMAIN out[w] :
          out[w][i].kind = "ConnReset" => Recovered(w, i)
  BY <1>1, <1>5, <1>6, FailingIs, Zenon DEF Back
<1> QED  BY <1>2, <1>3, <1>7, <1>8, <1>9

(* In every run each criterion is decided as the logs have it.             *)
THEOREM CriteriaAreTrue == MeasureSpec => []RowsAreTrue
BY InvRowsAreTrue, MeasureInvariant, PTL

-----------------------------------------------------------------------------
(* Finite sets of lines.                                                   *)
\* The logs are finite.
LEMMA FiniteLines ==
  ASSUME MeasureInv, NEW inp, inp.events = Events
  PROVE  /\ \A kinds : IsFiniteSet(OfKind(inp, kinds))
         /\ \A i : IsFiniteSet(Attributed(inp, i))
<1>1. IsFiniteSet(Line)
  <2> DEFINE places == 1..(2 * MaxConn + MaxFailure)
  <2>1. IsFiniteSet(places)
    <3>1. 2 * MaxConn + MaxFailure \in Int /\ 1 \in Int
      BY MaxConnAssumption, FailureAssumption
    <3> QED  BY <3>1, FS_Interval
  <2> HIDE DEF places
  <2>2. IsFiniteSet(Worker \X places)
    BY <2>1, WorkersAssumption, FS_Product
  <2>3. Line \in SUBSET (Worker \X places)
    BY DEF Line, places
  <2> QED  BY <2>2, <2>3, FS_Subset
<1>2. DOMAIN inp.events = Line
  BY DEF Events
<1>3. ASSUME NEW kinds PROVE IsFiniteSet(OfKind(inp, kinds))
  <2>1. OfKind(inp, kinds) \in SUBSET Line
    BY <1>2 DEF OfKind
  <2> QED  BY <1>1, <2>1, FS_Subset
<1>4. ASSUME NEW i PROVE IsFiniteSet(Attributed(inp, i))
  <2>1. Attributed(inp, i) \in SUBSET OfKind(inp, {"ConnReset"})
    BY DEF Attributed
  <2> QED  BY <1>3, <2>1, FS_Subset
<1> QED  BY <1>3, <1>4

\* Each reset of a window counts as one connection.
LEMMA ResetsAreConns ==
  ASSUME MeasureInv, NEW inp, inp.events = Events, NEW i
  PROVE  /\ IsFiniteSet(ConnsReset(inp, i))
         /\ Cardinality(ConnsReset(inp, i)) = Cardinality(Attributed(inp, i))
<1> DEFINE A == Attributed(inp, i)
           C == ConnsReset(inp, i)
           f == [k \in A |-> ConnOf(k)]
<1>1. IsFiniteSet(A) /\ C = {ConnOf(k) : k \in A}
  BY FiniteLines, WindowIs
<1>2. \A k, l \in A : ConnOf(k) = ConnOf(l) => k = l
  BY AttributedAre, OneBreak
<1> HIDE DEF A, C
<1>3. f \in Surjection(A, C)
  BY <1>1 DEF Surjection
<1>4. f \in Injection(A, C)
  BY <1>1, <1>2 DEF Injection, IsInjective
<1> HIDE DEF f
<1>5. IsFiniteSet(C) /\ Cardinality(C) = Cardinality(A)
  BY <1>1, <1>3, <1>4, FS_Surjection
<1> QED  BY <1>5 DEF A, C

\* The greatest of some numbers with a bound is one of them.
LEMMA MaxIsOne ==
  ASSUME NEW n \in Nat, NEW S \in SUBSET (0..n), S # {}
  PROVE  Max(S) \in S
<1>1. \E m \in S : \A x \in S : m >= x
  BY Greatest
<1> QED  BY <1>1 DEF Max

\* The table never contradicts a recovery criterion that passes.
LEMMA InvTableMatchesRows == MeasureInv => TableMatchesRows
<1> SUFFICES ASSUME MeasureInv, Cell(Input, TRUE, 5) = "PASS", NEW i \in DOMAIN windows
             PROVE  \/ RecoveryCell(Input, i) = <<"-">>
                    \/ \E s \in 0..RecoveryBound : RecoveryCell(Input, i) = <<"after", s>>
  BY DEF TableMatchesRows
<1>1. Input.windows = windows /\ Input.events = Events /\ WindowList(windows)
  BY InputIs
<1>2. Trusted(Input)
  BY DEF Cell
<1>3. Pool(Input) /\ \A t \in AllTimes(Input) : ~(t > RecoveryBound)
  BY <1>2, CellsAre, RaisedFor
<1>4. AllRecovered(Input, i)
  BY <1>1, <1>3 DEF Pool
<1> DEFINE C == ConnsReset(Input, i)
           T == RecoveryTimes(Input, i)
<1>5. CASE C = {}
  <2>1. Cardinality(C) = 0
    BY <1>5, FS_EmptySet
  <2>2. PerNodeAttribution(Input, i).distinctConnsReset = 0
    BY <2>1 DEF PerNodeAttribution
  <2>3. RecoveryCell(Input, i) = <<"-">>
    BY <2>2 DEF RecoveryCell
  <2> QED  BY <2>3
<1>6. CASE C # {}
  <2>1. Cardinality(C) # 0
    BY <1>1, <1>6, ResetsAreConns, FS_EmptySet
  <2>2. /\ T = {Gap(k) : k \in {a \in Attributed(Input, i) : HasNext(a)}}
        /\ \A k \in Attributed(Input, i) : HasNext(k)
        /\ C = {ConnOf(k) : k \in Attributed(Input, i)}
    BY <1>1, <1>4, WindowIs
  <2>3. T # {}
    BY <1>6, <2>2
  <2>4. \A t \in T : t \in Nat /\ ~(t > RecoveryBound)
    <3>1. \A k \in Attributed(Input, i) : Gap(k) \in Nat
      BY <1>1, <2>2, RecoveredIs
    <3>2. T \subseteq AllTimes(Input)
      BY <1>1 DEF AllTimes
    <3> QED  BY <1>3, <2>2, <3>1, <3>2
  <2>5. T \in SUBSET (0..RecoveryBound) /\ RecoveryBound \in Nat
    BY <2>4, ToleranceAssumption
  <2>6. Max(T) \in T
    BY <2>3, <2>5, MaxIsOne
  <2>7. Max(T) \in 0..RecoveryBound /\ Max(T) # Never
    BY <2>5, <2>6 DEF Never
  <2> DEFINE p == PerNodeAttribution(Input, i)
  <2>8. p.distinctConnsReset = Cardinality(C) /\ p.recovered /\ p.recoverySeconds = Max(T)
    BY <1>4, <1>6, <2>3 DEF PerNodeAttribution, MaxOrNever
  <2> HIDE DEF T
  <2>9. RecoveryCell(Input, i) = <<"after", Max(T)>>
    BY <2>1, <2>7, <2>8 DEF RecoveryCell
  <2> QED  BY <2>7, <2>9
<1> QED  BY <1>5, <1>6

(* In every run the table agrees with the recovery criterion.              *)
THEOREM TableIsTheRows == MeasureSpec => []TableMatchesRows
BY InvTableMatchesRows, MeasureInvariant, PTL

-----------------------------------------------------------------------------
(* How the verdict changes.                                                *)
\* The badness of a verdict, as the logs have it.
LEMMA BadnessIs ==
  ASSUME MeasureInv
  PROVE  Badness(Verdict(Input)) = IF ~Trustworthy THEN 2
                                   ELSE IF Staggered /\ Inside /\ Back /\ NoneFailed THEN 0 ELSE 1
<1>1. Badness("PASS") = 0 /\ Badness("FAIL") = 1 /\ Badness("ERROR") = 2
  BY DEF Badness
<1> QED  BY <1>1, JudgedBy

\* Logs are only added to, and the windows stay.
LEMMA LogsGrow ==
  ASSUME MeasureInv, [MeasureNext]_measureVars
  PROVE  /\ windows' = windows /\ prereq' = prereq
         /\ \A w \in Worker :
              /\ failures[w] \in Nat /\ failures'[w] \in Nat /\ failures[w] <= failures'[w]
              /\ Len(out[w]) \in Nat /\ Len(out'[w]) \in Nat /\ Len(out[w]) <= Len(out'[w])
              /\ \A i \in 1..Len(out[w]) :
                   /\ i \in 1..Len(out'[w])
                   /\ out'[w][i] = out[w][i] /\ stamp'[w][i] = stamp[w][i]
<1>1. /\ out \in [Worker -> Seq([kind : Kind, conn : 1..MaxConn])]
      /\ est \in [Worker -> 0..MaxConn]
      /\ clock \in Nat /\ stamp \in [Worker -> Seq(Nat)]
      /\ failures \in [Worker -> 0..MaxFailure] /\ MaxFailure \in Nat /\ MaxConn \in Nat
  BY Types, FailureAssumption, MaxConnAssumption
<1>2. \A w \in Worker : Len(out[w]) \in Nat /\ failures[w] \in Nat
  <2>1. \A w \in Worker : out[w] \in Seq([kind : Kind, conn : 1..MaxConn])
    BY <1>1
  <2> QED  BY <1>1, <2>1, LenProperties
<1> DEFINE Grows(w) ==
             /\ failures[w] \in Nat /\ failures'[w] \in Nat /\ failures[w] <= failures'[w]
             /\ Len(out[w]) \in Nat /\ Len(out'[w]) \in Nat /\ Len(out[w]) <= Len(out'[w])
             /\ \A i \in 1..Len(out[w]) :
                  /\ i \in 1..Len(out'[w])
                  /\ out'[w][i] = out[w][i] /\ stamp'[w][i] = stamp[w][i]
<1>3. ASSUME NEW w \in Worker, out'[w] = out[w], stamp'[w] = stamp[w], failures'[w] = failures[w]
      PROVE  Grows(w)
  BY <1>2, <1>3
<1>4. CASE UNCHANGED measureVars
  BY <1>3, <1>4 DEF measureVars, streamVars, inputVars
<1>5. CASE Tick
  BY <1>3, <1>5 DEF Tick, streamVars, inputVars
<1>6. ASSUME NEW v \in Worker, NewConnFails(v)
      PROVE  windows' = windows /\ prereq' = prereq /\ \A w \in Worker : Grows(w)
  <2>1. UNCHANGED <<out, stamp, windows, prereq>> /\ failures' = [failures EXCEPT ![v] = failures[v] + 1]
    BY <1>6 DEF NewConnFails, streamVars, inputVars
  <2>2. \A w \in Worker : failures'[w] \in Nat /\ failures[w] <= failures'[w]
    BY <1>1, <1>2, <2>1
  <2> QED  BY <1>2, <2>1, <2>2
<1>7. ASSUME NEW v \in Worker, StreamStep(v)
      PROVE  windows' = windows /\ prereq' = prereq /\ \A w \in Worker : Grows(w)
  <2>1. /\ UNCHANGED <<failures, windows, prereq>>
        /\ stamp' = [stamp EXCEPT ![v] = IF out'[v] = out[v] THEN stamp[v] ELSE Append(stamp[v], clock)]
    BY <1>7 DEF StreamStep, inputVars
  <2>2. out' = out \/ \E e : out' = [out EXCEPT ![v] = Append(out[v], e)]
    BY <1>7 DEF StreamStep, EstablishFirst, EstablishNext, Broken, Closed, Emit
  <2>3. ASSUME NEW w \in Worker, w # v \/ out'[w] = out[w] PROVE Grows(w)
    <3>1. out'[w] = out[w]
      BY <1>1, <2>2, <2>3
    <3>2. stamp'[w] = stamp[w]
      BY <1>1, <2>1, <2>3, <3>1
    <3> QED  BY <1>3, <2>1, <3>1, <3>2
  <2>4. ASSUME out'[v] # out[v] PROVE Grows(v)
    <3>1. PICK e : out'[v] = Append(out[v], e)
      BY <1>1, <2>2, <2>4
    <3>2. stamp'[v] = Append(stamp[v], clock)
      BY <1>1, <2>1, <2>4
    <3>3. Len(out[v]) \in Nat /\ stamp[v] \in Seq(Nat) /\ Len(stamp[v]) = Len(out[v])
      BY <1>1, <1>2 DEF MeasureInv, Stamped
    <3>4. out[v] \in Seq([kind : Kind, conn : 1..MaxConn])
      BY <1>1
    <3>5. Len(out'[v]) = Len(out[v]) + 1 /\ \A i \in 1..Len(out[v]) : out'[v][i] = out[v][i]
      BY <3>1, <3>4
    <3>6. \A i \in 1..Len(out[v]) : stamp'[v][i] = stamp[v][i]
      BY <3>2, <3>3
    <3> QED  BY <1>2, <2>1, <3>3, <3>5, <3>6
  <2> QED  BY <2>1, <2>3, <2>4
<1> QED  BY <1>4, <1>5, <1>6, <1>7 DEF MeasureNext

\* A later event than the logs had was written by a worker that stepped.
LEMMA StepWrites ==
  ASSUME MeasureInv, [MeasureNext]_measureVars, NEW w \in Worker
  PROVE  \/ out'[w] = out[w]
         \/ EstablishNext(w) /\ \E e : e.kind = "ConnReconnected" /\ out'[w] = Append(out[w], e)
         \/ Broken(w) /\ open[w]
<1>1. out \in [Worker -> Seq([kind : Kind, conn : 1..MaxConn])]
  BY Types
<1>2. CASE UNCHANGED measureVars
  BY <1>2 DEF measureVars, streamVars
<1>3. CASE Tick
  BY <1>3 DEF Tick, streamVars
<1>4. ASSUME NEW v \in Worker, NewConnFails(v) PROVE out'[w] = out[w]
  BY <1>4 DEF NewConnFails, streamVars
<1>5. ASSUME NEW v \in Worker, StreamStep(v), v # w PROVE out'[w] = out[w]
  BY <1>1, <1>5 DEF StreamStep, EstablishFirst, EstablishNext, Broken, Closed, Emit
<1>6. CASE EstablishNext(w)
  <2>1. out'[w] = Append(out[w], Event("ConnReconnected", est[w]))
    BY <1>1, <1>6 DEF EstablishNext, Emit
  <2>2. Event("ConnReconnected", est[w]).kind = "ConnReconnected"
    BY DEF Event
  <2> QED  BY <1>6, <2>1, <2>2
<1>7. CASE StreamStep(w) /\ ~EstablishNext(w)
  <2>1. CASE Broken(w)
    BY <2>1 DEF Broken
  <2>2. CASE EstablishFirst(w) \/ Closed(w)
    BY <2>2 DEF EstablishFirst, Closed
  <2> QED  BY <1>7, <2>1, <2>2 DEF StreamStep
<1> QED  BY <1>2, <1>3, <1>4, <1>5, <1>6, <1>7 DEF MeasureNext

\* A step other than a recovery leaves everything that was wrong.
LEMMA NothingForgiven ==
  ASSUME MeasureInv, [MeasureNext]_measureVars, \A w \in Worker : ~EstablishNext(w)
  PROVE  /\ Trustworthy' => Trustworthy
         /\ (Staggered /\ Inside /\ Back /\ NoneFailed)' => Staggered /\ Inside /\ Back /\ NoneFailed
<1>1. windows' = windows /\ prereq' = prereq
  BY LogsGrow
<1>2. ASSUME NEW w \in Worker, NEW i \in 1..Len(out[w])
      PROVE  i \in 1..Len(out'[w]) /\ out'[w][i] = out[w][i] /\ stamp'[w][i] = stamp[w][i]
  BY LogsGrow
<1>3. Drained' => Drained
  BY <1>1, <1>2 DEF Drained
<1>4. AllReady' <=> AllReady
  BY <1>1 DEF AllReady
<1>5. Staggered' <=> Staggered
  BY <1>1 DEF Staggered
<1>6. \A w \in Worker, i \in Nat :
        stamp'[w][i] = stamp[w][i] => (InSomeWindow(stamp[w][i])' <=> InSomeWindow(stamp[w][i]))
  BY <1>1 DEF InSomeWindow
<1>7. Inside' => Inside
  BY <1>2, <1>6 DEF Inside
<1>8. NoneFailed' => NoneFailed
  <2>1. \A w \in Worker : failures[w] \in Nat /\ failures'[w] \in Nat /\ failures[w] <= failures'[w]
    BY LogsGrow
  <2>2. \A w \in Worker : failures'[w] = 0 => failures[w] = 0
    BY <2>1
  <2> QED  BY <2>2 DEF NoneFailed
<1>9. ASSUME Back', NEW w \in Worker, NEW i \in 1..Len(out[w]), out[w][i].kind = "ConnReset",
             InSomeWindow(stamp[w][i])
      PROVE  NextWithinBound(w, i)
  <2>1. out'[w][i].kind = "ConnReset" /\ i \in 1..Len(out'[w]) /\ InSomeWindow(stamp[w][i])'
    BY <1>2, <1>6, <1>9
  <2>2. i < Len(out'[w]) /\ stamp'[w][i + 1] - stamp'[w][i] <= RecoveryBound
    BY <1>9, <2>1 DEF Back, Recovered, NextWithinBound
  <2>3. Len(out[w]) \in Nat /\ Paired(w)
    BY LogsGrow DEF MeasureInv
  <2>4. CASE i < Len(out[w])
    <3>1. i + 1 \in 1..Len(out[w])
      BY <2>3, <2>4
    <3>2. stamp'[w][i + 1] = stamp[w][i + 1] /\ stamp'[w][i] = stamp[w][i]
      BY <1>2, <3>1
    <3> QED  BY <2>2, <2>4, <3>2 DEF NextWithinBound
  <2>5. CASE ~(i < Len(out[w]))
    <3>1. ~open[w]
      BY <1>9, <2>3, <2>5 DEF Paired, BreakKind
    <3>2. out'[w] = out[w]
      BY <3>1, StepWrites
    <3> QED  BY <2>2, <2>5, <3>2
  <2> QED  BY <2>4, <2>5
<1>10. Back' => Back
  BY <1>9 DEF Back, Recovered
<1>11. Trustworthy' => Trustworthy
  BY <1>1, <1>3, <1>4 DEF Trustworthy
<1> QED  BY <1>5, <1>7, <1>8, <1>10, <1>11

\* A recovery makes nothing wrong.
LEMMA NothingSpoiled ==
  ASSUME MeasureInv, [MeasureNext]_measureVars, NEW u \in Worker, EstablishNext(u)
  PROVE  /\ Trustworthy => Trustworthy'
         /\ Staggered /\ Inside /\ Back /\ NoneFailed => (Staggered /\ Inside /\ Back /\ NoneFailed)'
<1>1. windows' = windows /\ prereq' = prereq
  BY LogsGrow
<1>2. \A w \in Worker : Len(out[w]) \in Nat /\ out[w] \in Seq([kind : Kind, conn : 1..MaxConn])
  BY LogsGrow, Types
<1>3. ASSUME NEW w \in Worker
      PROVE  out'[w] = out[w] \/ \E e : e.kind = "ConnReconnected" /\ out'[w] = Append(out[w], e)
  <2>1. Broken(w) /\ open[w] => out'[w] = out[w]
    <3> SUFFICES ASSUME Broken(w), open[w] PROVE out'[w] = out[w]
      OBVIOUS
    <3>1. out \in [Worker -> Seq([kind : Kind, conn : 1..MaxConn])]
      BY Types
    <3>2. ~open[u] /\ out' = [out EXCEPT ![u] = Append(out[u], Event("ConnReconnected", est[u]))]
      BY DEF EstablishNext, Emit
    <3> QED  BY <3>1, <3>2
  <2> QED  BY <2>1, StepWrites
\* What is a break in the new log was one in the old, at the same time.
<1>4. ASSUME NEW w \in Worker, NEW i \in 1..Len(out'[w]), out'[w][i].kind \in BreakKind
      PROVE  /\ i \in 1..Len(out[w]) /\ out'[w][i] = out[w][i] /\ stamp'[w][i] = stamp[w][i]
             /\ Len(out[w]) <= Len(out'[w])
  <2>1. i \in 1..Len(out[w])
    <3>1. CASE out'[w] = out[w]
      BY <3>1
    <3>2. CASE out'[w] # out[w]
      <4>1. PICK e : e.kind = "ConnReconnected" /\ out'[w] = Append(out[w], e)
        BY <1>3, <3>2
      <4>2. Len(out'[w]) = Len(out[w]) + 1 /\ out'[w][Len(out[w]) + 1] = e
        BY <1>2, <4>1
      <4>3. i # Len(out[w]) + 1
        BY <1>4, <4>1, <4>2 DEF BreakKind
      <4> QED  BY <1>2, <4>2, <4>3
    <3> QED  BY <3>1, <3>2
  <2> QED  BY <2>1, LogsGrow
<1>5. Drained => Drained'
  BY <1>1, <1>4 DEF Drained
<1>6. AllReady => AllReady'
  BY <1>1 DEF AllReady
<1>7. Staggered => Staggered'
  BY <1>1 DEF Staggered
<1>8. \A w \in Worker, i \in Nat :
        stamp'[w][i] = stamp[w][i] => (InSomeWindow(stamp[w][i])' <=> InSomeWindow(stamp[w][i]))
  BY <1>1 DEF InSomeWindow
<1>9. Inside => Inside'
  BY <1>4, <1>8 DEF Inside, BreakKind
<1>10. failures' = failures
  <2>1. est' # est
    <3>1. est \in [Worker -> 0..MaxConn] /\ MaxConn \in Nat
      BY Types, MaxConnAssumption
    <3>2. est' = [est EXCEPT ![u] = est[u] + 1]
      BY DEF EstablishNext
    <3> QED  BY <3>1, <3>2
  <2>2. ~(UNCHANGED measureVars) /\ ~Tick /\ \A v \in Worker : ~NewConnFails(v)
    BY <2>1 DEF measureVars, streamVars, Tick, NewConnFails
  <2>3. \E v \in Worker : StreamStep(v)
    BY <2>2 DEF MeasureNext
  <2> QED  BY <2>3 DEF StreamStep
<1>11. NoneFailed => NoneFailed'
  BY <1>10 DEF NoneFailed
<1>12. ASSUME Back, NEW w \in Worker, NEW i \in 1..Len(out'[w]), out'[w][i].kind = "ConnReset",
              InSomeWindow(stamp[w][i])'
       PROVE  NextWithinBound(w, i)'
  <2>1. /\ i \in 1..Len(out[w]) /\ out'[w][i] = out[w][i] /\ stamp'[w][i] = stamp[w][i]
        /\ Len(out[w]) <= Len(out'[w])
    BY <1>4, <1>12 DEF BreakKind
  <2>2. i < Len(out[w]) /\ stamp[w][i + 1] - stamp[w][i] <= RecoveryBound
    BY <1>8, <1>12, <2>1 DEF Back, Recovered, NextWithinBound
  <2>3. i + 1 \in 1..Len(out[w]) /\ Len(out'[w]) \in Nat
    BY <1>2, <2>1, <2>2, LogsGrow
  <2>4. stamp'[w][i + 1] = stamp[w][i + 1]
    BY <2>3, LogsGrow
  <2>5. i < Len(out'[w])
    BY <1>2, <2>1, <2>2, <2>3
  <2> QED  BY <2>1, <2>2, <2>4, <2>5 DEF NextWithinBound
<1>13. Back => Back'
  BY <1>12 DEF Back, Recovered
<1>14. Trustworthy => Trustworthy'
  BY <1>1, <1>5, <1>6 DEF Trustworthy
<1> QED  BY <1>7, <1>9, <1>11, <1>13, <1>14

\* The badness, as one formula of the state.
LEMMA BadnessHolds ==
  MeasureInv => Badness(Verdict(Input)) = IF ~Trustworthy THEN 2
                                          ELSE IF Staggered /\ Inside /\ Back /\ NoneFailed THEN 0 ELSE 1
BY BadnessIs

\* No step but a recovery betters the verdict, and a recovery never worsens it.
LEMMA RedeemsStep ==
  ASSUME MeasureInv, MeasureInv', [MeasureNext]_measureVars
  PROVE  LET before == Badness(Verdict(Input))
             now == Badness(Verdict(Input)')
         IN  IF \E w \in Worker : EstablishNext(w) THEN now <= before ELSE now >= before
<1>1. Badness(Verdict(Input)) = IF ~Trustworthy THEN 2
                                ELSE IF Staggered /\ Inside /\ Back /\ NoneFailed THEN 0 ELSE 1
  BY BadnessHolds
<1>2. (Badness(Verdict(Input)) = IF ~Trustworthy THEN 2
                                 ELSE IF Staggered /\ Inside /\ Back /\ NoneFailed THEN 0 ELSE 1)'
  BY BadnessHolds, PTL
<1>3. CASE \E w \in Worker : EstablishNext(w)
  <2>1. PICK u \in Worker : EstablishNext(u)
    BY <1>3
  <2>2. /\ Trustworthy => Trustworthy'
        /\ Staggered /\ Inside /\ Back /\ NoneFailed => (Staggered /\ Inside /\ Back /\ NoneFailed)'
    BY <2>1, NothingSpoiled
  <2> QED  BY <1>1, <1>2, <1>3, <2>2
<1>4. CASE ~\E w \in Worker : EstablishNext(w)
  <2>1. /\ Trustworthy' => Trustworthy
        /\ (Staggered /\ Inside /\ Back /\ NoneFailed)' => Staggered /\ Inside /\ Back /\ NoneFailed
    BY <1>4, NothingForgiven
  <2> QED  BY <1>1, <1>2, <1>4, <2>1
<1> QED  BY <1>3, <1>4

(* As the log grows, only a connection coming back betters the verdict,    *)
(* and it never worsens it.                                                *)
THEOREM RecoveryAloneRedeems == MeasureSpec => OnlyRecoveryRedeems
<1>1. MeasureInv /\ MeasureInv' /\ [MeasureNext]_measureVars =>
        [LET before == Badness(Verdict(Input))
             now == Badness(Verdict(Input)')
         IN  IF \E w \in Worker : EstablishNext(w) THEN now <= before ELSE now >= before]_measureVars
  BY RedeemsStep
<1> QED  BY <1>1, MeasureInvariant, PTL DEF MeasureSpec, OnlyRecoveryRedeems

-----------------------------------------------------------------------------
(* The order of the windows.                                               *)
\* Two lists of the same windows.
SameRoll(a, b) ==
  /\ WindowList(a) /\ WindowList(b)
  /\ \A i \in DOMAIN a : \E j \in DOMAIN b : b[j] = a[i]
  /\ \A j \in DOMAIN b : \E i \in DOMAIN a : a[i] = b[j]

\* Two inputs that differ in the order of the windows only.
SameRun(a, b) ==
  /\ a.events = Events /\ b.events = Events /\ a.prereq = b.prereq
  /\ SameRoll(a.windows, b.windows)

\* They differ from either side.
LEMMA SameRunTurned ==
  ASSUME NEW a, NEW b, SameRun(a, b)
  PROVE  SameRun(b, a)
BY Zenon DEF SameRun, SameRoll

\* A list in another order is such a list.
LEMMA ReorderedIs ==
  ASSUME NEW ws, WindowList(ws), NEW other \in Reordered(ws)
  PROVE  SameRoll(ws, other)
<1> DEFINE D == DOMAIN ws
<1>1. PICK p \in [D -> D] : /\ \A i, j \in D : p[i] = p[j] => i = j
                            /\ other = [i \in D |-> ws[p[i]]]
  BY DEF Reordered
<1>2. D = 1..Len(ws) /\ Len(ws) \in Nat
  BY WindowNumbers
<1>3. \A i \in D : ws[i] \in Window
  BY <1>2, ElementOfSeq DEF WindowList
<1>4. DOMAIN other = D /\ \A i \in D : p[i] \in D /\ other[i] = ws[p[i]]
  BY <1>1
<1>5. \A j \in D : \E i \in D : p[i] = j
  <2>1. IsFiniteSet(D)
    BY <1>2, FS_Interval
  <2>2. p \in Injection(D, D)
    BY <1>1 DEF Injection, IsInjective
  <2> HIDE DEF D
  <2>3. p \in Surjection(D, D)
    BY <2>1, <2>2, FS_Injection
  <2> QED  BY <2>3 DEF Surjection
<1>6. other \in Seq(Window)
  <2>1. \A i \in D : ws[p[i]] \in Window
    BY <1>1, <1>3
  <2>2. other \in [1..Len(ws) -> Window]
    BY <1>1, <1>2, <2>1
  <2> QED  BY <1>2, <2>2
<1>7. \A i \in D : other[i].drainingAt + Eps < other[i].graceExpiresAt
  BY <1>4 DEF WindowList
<1>8. \A i, j \in D :
        /\ other[i].node = other[j].node => i = j
        /\ other[i].graceExpiresAt - other[i].drainingAt = other[j].graceExpiresAt - other[j].drainingAt
  BY <1>1, <1>4 DEF WindowList
<1>9. WindowList(other)
  BY <1>4, <1>6, <1>7, <1>8 DEF WindowList
<1>10. \A i \in DOMAIN other : \E j \in D : ws[j] = other[i]
  BY <1>4
<1>11. \A j \in D : \E i \in DOMAIN other : other[i] = ws[j]
  BY <1>4, <1>5
<1> QED  BY <1>9, <1>10, <1>11 DEF SameRoll

\* An empty list has no window.
LEMMA NoWindow ==
  ASSUME NEW ws, WindowList(ws)
  PROVE  ws = <<>> <=> ~\E i : i \in DOMAIN ws
<1>1. ws \in Seq(Window) /\ Len(ws) \in Nat /\ DOMAIN ws = 1..Len(ws)
  BY WindowNumbers DEF WindowList
<1>2. ws = <<>> <=> Len(ws) = 0
  BY <1>1, EmptySeq
<1>3. Len(ws) # 0 => 1 \in DOMAIN ws
  BY <1>1
<1>4. Len(ws) = 0 => ~\E i : i \in DOMAIN ws
  BY <1>1
<1> QED  BY <1>2, <1>3, <1>4

\* The same deaths come before the first drain.
LEMMA SameEarly ==
  ASSUME MeasureInv, NEW a, NEW b, SameRun(a, b)
  PROVE  Early(a) = Early(b)
<1>1. \A t : BeforeDrain(t, a.windows) <=> BeforeDrain(t, b.windows)
  <2>1. a.windows = <<>> <=> b.windows = <<>>
    BY NoWindow DEF SameRun, SameRoll
  <2>2. \A t : (\A i \in DOMAIN a.windows : t < a.windows[i].drainingAt - Eps) <=>
                (\A i \in DOMAIN b.windows : t < b.windows[i].drainingAt - Eps)
    BY DEF SameRun, SameRoll
  <2> QED  BY <2>1, <2>2, Zenon DEF BeforeDrain
<1> QED  BY <1>1 DEF Early, OfKind, SameRun

\* The same windows hold a reset.
LEMMA SameHolding ==
  ASSUME NEW a, NEW b, SameRun(a, b), NEW t
  PROVE  /\ Holding(t, a.windows) = {} <=> Holding(t, b.windows) = {}
         /\ \A i \in Holding(t, a.windows) :
              \E j \in Holding(t, b.windows) : b.windows[j] = a.windows[i]
BY DEF Holding, SameRun, SameRoll

\* The same resets count, with the same recoveries.
LEMMA SameHits ==
  ASSUME MeasureInv, NEW a, NEW b, SameRun(a, b)
  PROVE  /\ Hits(a) = Hits(b) /\ Attributed(a, 0) = Attributed(b, 0)
         /\ Pool(a) <=> Pool(b)
         /\ AllTimes(a) = AllTimes(b)
<1>1. Early(a) = Early(b)
  BY SameEarly
<1>2. \A t : Holding(t, a.windows) = {} <=> Holding(t, b.windows) = {}
  BY SameHolding
<1>3. Hits(a) = Hits(b)
  BY <1>1, <1>2 DEF Hits
<1>4. /\ a.events = Events /\ b.events = Events
      /\ WindowList(a.windows) /\ WindowList(b.windows)
  BY DEF SameRun, SameRoll
<1>5. Attributed(a, 0) = Attributed(b, 0)
  <2>1. Attributed(a, 0) =
          {k \in Held({"ConnReset"}) \ Early(a) : Holding(TimeOf(k), a.windows) = {}}
    BY <1>4, HitsAre
  <2>2. Attributed(b, 0) =
          {k \in Held({"ConnReset"}) \ Early(b) : Holding(TimeOf(k), b.windows) = {}}
    BY <1>4, HitsAre
  <2> QED  BY <1>1, <1>2, <2>1, <2>2
<1>6. /\ Pool(a) <=> \A k \in Hits(a) : HasNext(k)
      /\ AllTimes(a) = {Gap(k) : k \in {h \in Hits(a) : HasNext(h)}}
  BY <1>4, PoolIs
<1>7. /\ Pool(b) <=> \A k \in Hits(b) : HasNext(k)
      /\ AllTimes(b) = {Gap(k) : k \in {h \in Hits(b) : HasNext(h)}}
  BY <1>4, PoolIs
<1> QED  BY <1>3, <1>5, <1>6, <1>7

\* Windows that follow one another do so in any order.
LEMMA StillStaggered ==
  ASSUME NEW a, NEW b, SameRoll(a, b),
         \A i, j \in DOMAIN a : i # j =>
           \/ a[i].graceExpiresAt <= a[j].drainingAt + Eps
           \/ a[j].graceExpiresAt <= a[i].drainingAt + Eps
  PROVE  \A i, j \in DOMAIN b : i # j =>
           \/ b[i].graceExpiresAt <= b[j].drainingAt + Eps
           \/ b[j].graceExpiresAt <= b[i].drainingAt + Eps
<1> SUFFICES ASSUME NEW i \in DOMAIN b, NEW j \in DOMAIN b, i # j
             PROVE  \/ b[i].graceExpiresAt <= b[j].drainingAt + Eps
                    \/ b[j].graceExpiresAt <= b[i].drainingAt + Eps
  OBVIOUS
<1>1. PICK k \in DOMAIN a : a[k] = b[i]
  BY DEF SameRoll
<1>2. PICK l \in DOMAIN a : a[l] = b[j]
  BY DEF SameRoll
<1>3. k # l
  <2>1. \A x, y \in DOMAIN b : b[x].node = b[y].node => x = y
    BY DEF SameRoll, WindowList
  <2>2. b[i] # b[j]
    BY <2>1
  <2> QED  BY <1>1, <1>2, <2>2
<1> QED  BY <1>1, <1>2, <1>3

\* The same overlaps.
LEMMA SameOverlap ==
  ASSUME NEW a, NEW b, SameRun(a, b)
  PROVE  (\E i, j \in DOMAIN a.windows : i < j /\ Overlapping(a.windows[i], a.windows[j])) <=>
         (\E i, j \in DOMAIN b.windows : i < j /\ Overlapping(b.windows[i], b.windows[j]))
<1>1. /\ SameRoll(a.windows, b.windows) /\ SameRoll(b.windows, a.windows)
      /\ WindowList(a.windows) /\ WindowList(b.windows)
  BY SameRunTurned DEF SameRun, SameRoll
<1> DEFINE Apart(ws) == \A i, j \in DOMAIN ws : i # j =>
                          \/ ws[i].graceExpiresAt <= ws[j].drainingAt + Eps
                          \/ ws[j].graceExpiresAt <= ws[i].drainingAt + Eps
<1>2. Apart(a.windows) <=> Apart(b.windows)
  BY <1>1, StillStaggered
<1>3. ~(\E i, j \in DOMAIN a.windows : i < j /\ Overlapping(a.windows[i], a.windows[j])) <=> Apart(a.windows)
  BY <1>1, NoOverlap
<1>4. ~(\E i, j \in DOMAIN b.windows : i < j /\ Overlapping(b.windows[i], b.windows[j])) <=> Apart(b.windows)
  BY <1>1, NoOverlap
<1> QED  BY <1>2, <1>3, <1>4, Zenon

\* The same reasons are raised.
LEMMA SameRaised ==
  ASSUME MeasureInv, NEW a, NEW b, SameRun(a, b)
  PROVE  /\ RaisedIn(a, ErrorReasons) = RaisedIn(b, ErrorReasons)
         /\ RaisedIn(a, FailReasons) = RaisedIn(b, FailReasons)
<1>1. /\ a.events = Events /\ b.events = Events /\ a.prereq = b.prereq
      /\ WindowList(a.windows) /\ WindowList(b.windows)
  BY DEF SameRun, SameRoll
<1>2. a.windows = <<>> <=> b.windows = <<>>
  BY NoWindow DEF SameRun, SameRoll
<1>3. (\E i \in DOMAIN a.windows : a.windows[i].readyAt = 0) <=>
      (\E i \in DOMAIN b.windows : b.windows[i].readyAt = 0)
  BY DEF SameRun, SameRoll
<1>4. Early(a) = Early(b)
  BY SameEarly
<1>5. ResetTwice(a) = {} /\ ResetTwice(b) = {}
  BY <1>1, NeverTwice
<1>6. OfKind(a, {"NewConnAttemptFail"}) = OfKind(b, {"NewConnAttemptFail"})
  BY <1>1 DEF OfKind
<1>7. /\ Raised(a, "trigger-prereq-missing") = Raised(b, "trigger-prereq-missing")
      /\ Raised(a, "no-rollout-observed") = Raised(b, "no-rollout-observed")
      /\ Raised(a, "half-open-window") = Raised(b, "half-open-window")
      /\ Raised(a, "died-before-drain") = Raised(b, "died-before-drain")
  <2>1. /\ Raised(a, "trigger-prereq-missing") = Raised(b, "trigger-prereq-missing")
        /\ Raised(a, "no-rollout-observed") = Raised(b, "no-rollout-observed")
    BY <1>1, <1>2, RaisedFor
  <2>2. Raised(a, "half-open-window") = Raised(b, "half-open-window")
    BY <1>3, RaisedFor
  <2>3. Raised(a, "died-before-drain") = Raised(b, "died-before-drain")
    BY <1>4, RaisedFor
  <2> QED  BY <2>1, <2>2, <2>3
<1>8. /\ Raised(a, "drop-on-non-upgrading-node") = Raised(b, "drop-on-non-upgrading-node")
      /\ Raised(a, "same-conn-reset-in-2-windows") = Raised(b, "same-conn-reset-in-2-windows")
      /\ Raised(a, "pool-not-recovered") = Raised(b, "pool-not-recovered")
      /\ Raised(a, "recovery-over-bound") = Raised(b, "recovery-over-bound")
      /\ Raised(a, "new-conn-failure") = Raised(b, "new-conn-failure")
  <2>1. /\ Attributed(a, 0) = Attributed(b, 0) /\ (Pool(a) <=> Pool(b))
        /\ AllTimes(a) = AllTimes(b)
    BY SameHits
  <2>2. /\ Raised(a, "drop-on-non-upgrading-node") = Raised(b, "drop-on-non-upgrading-node")
        /\ Raised(a, "same-conn-reset-in-2-windows") = Raised(b, "same-conn-reset-in-2-windows")
        /\ Raised(a, "new-conn-failure") = Raised(b, "new-conn-failure")
    BY <1>5, <1>6, <2>1, RaisedFor
  <2>3. Raised(a, "pool-not-recovered") = Raised(b, "pool-not-recovered")
    BY <2>1, RaisedFor
  <2>4. Raised(a, "recovery-over-bound") = Raised(b, "recovery-over-bound")
    BY <2>1, RaisedFor
  <2> QED  BY <2>2, <2>3, <2>4
<1>9. Raised(a, "overlapping-node-windows") = Raised(b, "overlapping-node-windows")
  BY SameOverlap, RaisedFor
<1>10. \A i \in 1..4 : Raised(a, ErrorReasons[i]) <=> Raised(b, ErrorReasons[i])
  <2>1. \A i : i \in 1..4 <=> i = 1 \/ i = 2 \/ i = 3 \/ i = 4
    OBVIOUS
  <2> QED  BY <1>7, <2>1, ReasonsAre
<1>11. \A i \in 1..6 : Raised(a, FailReasons[i]) <=> Raised(b, FailReasons[i])
  <2>1. \A i : i \in 1..6 <=> i = 1 \/ i = 2 \/ i = 3 \/ i = 4 \/ i = 5 \/ i = 6
    OBVIOUS
  <2> QED  BY <1>8, <1>9, <2>1, ReasonsAre
<1> QED  BY <1>10, <1>11, ReasonsAre DEF RaisedIn

\* When the windows began that resets are attributed to.
Drains(inp) ==
  {inp.windows[AttributeReset(TimeOf(k), inp.windows)].drainingAt : k \in Hits(inp)}

\* What window a reset is attributed to.
LEMMA HitIs ==
  ASSUME MeasureInv, NEW inp, inp.events = Events, WindowList(inp.windows), NEW k \in Hits(inp)
  PROVE  /\ AttributeReset(TimeOf(k), inp.windows) \in Holding(TimeOf(k), inp.windows)
         /\ AttributeReset(TimeOf(k), inp.windows) \in DOMAIN inp.windows
         /\ k \in Attributed(inp, AttributeReset(TimeOf(k), inp.windows))
         /\ \A j \in Holding(TimeOf(k), inp.windows) :
              /\ inp.windows[j].drainingAt <=
                   inp.windows[AttributeReset(TimeOf(k), inp.windows)].drainingAt
              /\ j < AttributeReset(TimeOf(k), inp.windows) =>
                   inp.windows[j].drainingAt <
                     inp.windows[AttributeReset(TimeOf(k), inp.windows)].drainingAt
<1>1. k \in Held({"ConnReset"}) \ Early(inp) /\ Holding(TimeOf(k), inp.windows) # {}
  BY DEF Hits
<1>2. TimeOf(k) \in Nat
  BY <1>1, OfHeldKind
<1>3. AttributeReset(TimeOf(k), inp.windows) # 0
  BY <1>1, <1>2, AttributeResetIs
<1>4. AttributeReset(TimeOf(k), inp.windows) \in Holding(TimeOf(k), inp.windows)
  BY <1>2, <1>3, AttributeResetIs
<1>5. AttributeReset(TimeOf(k), inp.windows) \in DOMAIN inp.windows
  BY <1>4 DEF Holding
<1>6. k \in Attributed(inp, AttributeReset(TimeOf(k), inp.windows))
  BY <1>1, AttributedIs
<1> QED  BY <1>2, <1>3, <1>4, <1>5, <1>6, AttributeResetIs

\* They began at the same times.
LEMMA SameDrains ==
  ASSUME MeasureInv, NEW a, NEW b, SameRun(a, b)
  PROVE  Drains(a) = Drains(b)
<1>1. /\ a.events = Events /\ WindowList(a.windows) /\ b.events = Events /\ WindowList(b.windows)
      /\ Hits(a) = Hits(b)
  BY SameHits DEF SameRun, SameRoll
<1>2. SUFFICES ASSUME NEW k \in Hits(a)
      PROVE  a.windows[AttributeReset(TimeOf(k), a.windows)].drainingAt =
               b.windows[AttributeReset(TimeOf(k), b.windows)].drainingAt
  BY <1>1 DEF Drains
<1> DEFINE t == TimeOf(k)
           i == AttributeReset(t, a.windows)
           j == AttributeReset(t, b.windows)
<1>3. /\ i \in Holding(t, a.windows) /\ i \in DOMAIN a.windows
      /\ \A x \in Holding(t, a.windows) : a.windows[x].drainingAt <= a.windows[i].drainingAt
  BY <1>1, HitIs
<1>4. /\ j \in Holding(t, b.windows) /\ j \in DOMAIN b.windows
      /\ \A x \in Holding(t, b.windows) : b.windows[x].drainingAt <= b.windows[j].drainingAt
  BY <1>1, <1>2, HitIs
<1> HIDE DEF t, i, j
<1>5. a.windows[i].drainingAt \in Nat /\ b.windows[j].drainingAt \in Nat
  BY <1>1, <1>3, <1>4, WindowNumbers
<1>6. PICK x \in Holding(t, b.windows) : b.windows[x] = a.windows[i]
  BY <1>3, SameHolding
<1>7. PICK y \in Holding(t, a.windows) : a.windows[y] = b.windows[j]
  BY <1>4, SameRunTurned, SameHolding
<1>8. a.windows[i].drainingAt = b.windows[j].drainingAt
  BY <1>3, <1>4, <1>5, <1>6, <1>7
<1> QED  BY <1>8 DEF i, j, t

\* An affected window is known by the time it began, and by its node.
LEMMA AffectedIs ==
  ASSUME MeasureInv, NEW inp, inp.events = Events, WindowList(inp.windows)
  PROVE  /\ Cardinality(AffectedWindows(inp)) = Cardinality(Drains(inp))
         /\ Cardinality({inp.windows[i].node : i \in AffectedWindows(inp)}) = Cardinality(Drains(inp))
<1> DEFINE A == AffectedWindows(inp)
           ws == inp.windows
           N == {ws[i].node : i \in A}
           f == [i \in A |-> ws[i].drainingAt]
           g == [i \in A |-> ws[i].node]
<1>1. Len(ws) \in Nat /\ DOMAIN ws = 1..Len(ws) /\ \A i \in DOMAIN ws : i \in Int
  BY WindowNumbers
<1>2. A \subseteq DOMAIN ws /\ IsFiniteSet(A)
  <2>1. A \in SUBSET (DOMAIN ws)
    BY DEF AffectedWindows
  <2>2. IsFiniteSet(DOMAIN ws)
    BY <1>1, FS_Interval
  <2> QED  BY <2>1, <2>2, FS_Subset
\* Each affected window has a reset attributed to it, and holds it.
<1>3. ASSUME NEW i \in A
      PROVE  \E k \in Hits(inp) : AttributeReset(TimeOf(k), ws) = i
  <2>1. ConnsReset(inp, i) # {}
    BY <1>3 DEF AffectedWindows
  <2>2. PICK k : k \in Attributed(inp, i)
    BY <2>1 DEF ConnsReset
  <2> QED  BY <1>2, <1>3, <2>2, HitsAre, AttributedAre
<1>4. ASSUME NEW k \in Hits(inp) PROVE AttributeReset(TimeOf(k), ws) \in A
  <2>1. /\ AttributeReset(TimeOf(k), ws) \in DOMAIN ws
        /\ k \in Attributed(inp, AttributeReset(TimeOf(k), ws))
    BY <1>4, HitIs
  <2> QED  BY <2>1 DEF AffectedWindows, ConnsReset
<1>5. ASSUME NEW i \in A, NEW j \in A, ws[i].drainingAt = ws[j].drainingAt
      PROVE  ~(j < i)
  <2>1. PICK k \in Hits(inp) : AttributeReset(TimeOf(k), ws) = i
    BY <1>3
  <2>2. /\ i \in Holding(TimeOf(k), ws)
        /\ \A x \in Holding(TimeOf(k), ws) : x < i => ws[x].drainingAt < ws[i].drainingAt
    BY <2>1, HitIs
  <2>3. /\ i \in DOMAIN ws /\ j \in DOMAIN ws
        /\ ws[i].drainingAt \in Nat /\ ws[j].drainingAt \in Nat
        /\ ws[i].graceExpiresAt \in Nat /\ ws[j].graceExpiresAt \in Nat
    BY <1>2, <1>5, WindowNumbers
  <2>4. ws[i].graceExpiresAt - ws[i].drainingAt = ws[j].graceExpiresAt - ws[j].drainingAt
    BY <2>3 DEF WindowList
  <2>5. ws[i].graceExpiresAt = ws[j].graceExpiresAt
    BY <1>5, <2>3, <2>4
  <2>6. j \in Holding(TimeOf(k), ws)
    BY <1>5, <2>2, <2>3, <2>5 DEF Holding, Contains
  <2> QED  BY <1>5, <2>2, <2>3, <2>6
<1>6. \A i, j \in A : ws[i].drainingAt = ws[j].drainingAt => i = j
  <2>1. \A i, j \in A : ws[i].drainingAt = ws[j].drainingAt => ~(j < i) /\ ~(i < j)
    BY <1>5
  <2> QED  BY <1>1, <1>2, <2>1
<1>7. Drains(inp) = {ws[i].drainingAt : i \in A}
  BY <1>3, <1>4 DEF Drains
<1>8. \A i, j \in A : ws[i].node = ws[j].node => i = j
  BY <1>2 DEF WindowList
<1> HIDE DEF A
<1>9. f \in Injection(A, Drains(inp)) /\ f \in Surjection(A, Drains(inp))
  BY <1>6, <1>7 DEF Injection, Surjection, IsInjective
<1>10. g \in Injection(A, N) /\ g \in Surjection(A, N)
  BY <1>8 DEF Injection, Surjection, IsInjective
<1> HIDE DEF N, f, g, ws
<1>11. Cardinality(A) = Cardinality(Drains(inp)) /\ Cardinality(A) = Cardinality(N)
  BY <1>2, <1>9, <1>10, FS_Surjection
<1> QED  BY <1>11 DEF A, N, ws

\* The whole result is the same.
LEMMA SameResult ==
  ASSUME MeasureInv, NEW a, NEW b, SameRun(a, b)
  PROVE  Result(a) = Result(b)
<1>1. /\ a.events = Events /\ WindowList(a.windows) /\ b.events = Events /\ WindowList(b.windows)
  BY DEF SameRun, SameRoll
<1>2. /\ RaisedIn(a, ErrorReasons) = RaisedIn(b, ErrorReasons)
      /\ RaisedIn(a, FailReasons) = RaisedIn(b, FailReasons)
  BY SameRaised
<1>3. Verdict(a) = Verdict(b)
  BY <1>2 DEF Verdict
<1>4. Reason(a) = Reason(b)
  BY <1>2, <1>3, Zenon DEF Reason
<1>5. \A kinds : OfKind(a, kinds) = OfKind(b, kinds)
  BY <1>1 DEF OfKind
<1>6. /\ Cardinality(AffectedWindows(a)) = Cardinality(AffectedWindows(b))
      /\ Cardinality({a.windows[i].node : i \in AffectedWindows(a)}) =
           Cardinality({b.windows[i].node : i \in AffectedWindows(b)})
  <2>1. Drains(a) = Drains(b)
    BY SameDrains
  <2>2. /\ Cardinality(AffectedWindows(a)) = Cardinality(Drains(a))
        /\ Cardinality({a.windows[i].node : i \in AffectedWindows(a)}) = Cardinality(Drains(a))
    BY <1>1, AffectedIs
  <2>3. /\ Cardinality(AffectedWindows(b)) = Cardinality(Drains(b))
        /\ Cardinality({b.windows[i].node : i \in AffectedWindows(b)}) = Cardinality(Drains(b))
    BY <1>1, AffectedIs
  <2> QED  BY <2>1, <2>2, <2>3
<1>7. Pool(a) = Pool(b) /\ AllTimes(a) = AllTimes(b)
  <2>1. (Pool(a) <=> Pool(b)) /\ AllTimes(a) = AllTimes(b)
    BY SameHits
  <2>2. Pool(a) \in BOOLEAN /\ Pool(b) \in BOOLEAN
    BY DEF Pool
  <2> QED  BY <2>1, <2>2, Zenon
<1> QED  BY <1>3, <1>4, <1>5, <1>6, <1>7 DEF Result

\* No order of the windows changes the result.
LEMMA InvVerdictOrderFree == MeasureInv => VerdictOrderFree
<1> SUFFICES ASSUME MeasureInv, NEW ws \in Reordered(windows)
             PROVE  Result([Input EXCEPT !.windows = ws]) = Result(Input)
  BY DEF VerdictOrderFree
<1> DEFINE b == [Input EXCEPT !.windows = ws]
<1>1. b.events = Events /\ b.windows = ws /\ b.prereq = prereq
  BY DEF Input
<1>2. Input.events = Events /\ Input.windows = windows /\ Input.prereq = prereq /\ WindowList(windows)
  BY InputIs
<1>3. SameRoll(windows, ws)
  BY <1>2, ReorderedIs
<1> HIDE DEF b
<1>4. SameRun(Input, b)
  BY <1>1, <1>2, <1>3 DEF SameRun
<1>5. Result(Input) = Result(b)
  BY <1>4, SameResult
<1> QED  BY <1>5 DEF b

(* In every run the order in which the watcher's map yields the windows    *)
(* changes nothing of the result.                                          *)
THEOREM VerdictIsOrderFree == MeasureSpec => []VerdictOrderFree
BY InvVerdictOrderFree, MeasureInvariant, PTL

-----------------------------------------------------------------------------
(* Every reset is counted once.                                            *)
\* The resets attributed to the first n windows.
UpTo(inp, n) ==
  {k \in OfKind(inp, {"ConnReset"}) \ Early(inp) :
     AttributeReset(inp.events[k].ts, inp.windows) \in 1..n}

\* Disjoint sets add up.
LEMMA Adds ==
  ASSUME NEW S, NEW T, IsFiniteSet(S), IsFiniteSet(T), \A x \in S : x \notin T
  PROVE  IsFiniteSet(S \cup T) /\ Cardinality(S \cup T) = Cardinality(S) + Cardinality(T)
<1>1. S \cap T = {}
  OBVIOUS
<1>2. Cardinality(S \cap T) = 0
  BY <1>1, FS_EmptySet
<1>3. Cardinality(S) \in Nat /\ Cardinality(T) \in Nat
  BY FS_CardinalityType
<1>4. /\ IsFiniteSet(S \cup T)
      /\ Cardinality(S \cup T) = Cardinality(S) + Cardinality(T) - Cardinality(S \cap T)
  BY FS_Union
<1> QED  BY <1>2, <1>3, <1>4

\* One window more adds its own resets.
LEMMA UpToGrows ==
  ASSUME MeasureInv, NEW inp, inp.events = Events, NEW n \in Nat
  PROVE  /\ IsFiniteSet(UpTo(inp, n)) /\ UpTo(inp, 0) = {}
         /\ Cardinality(UpTo(inp, n)) \in 0..Cardinality(OfKind(inp, {"ConnReset"}))
         /\ n > 0 => Cardinality(UpTo(inp, n)) =
                       Cardinality(UpTo(inp, n - 1)) + Cardinality(Attributed(inp, n))
<1> DEFINE K == OfKind(inp, {"ConnReset"})
<1>1. IsFiniteSet(K) /\ \A i : IsFiniteSet(Attributed(inp, i))
  BY FiniteLines
<1>2. \A m : UpTo(inp, m) \in SUBSET K
  BY DEF UpTo
<1> HIDE DEF K
<1>3. \A m : IsFiniteSet(UpTo(inp, m)) /\ Cardinality(UpTo(inp, m)) <= Cardinality(K)
  BY <1>1, <1>2, FS_Subset
<1>4. Cardinality(K) \in Nat /\ \A m : Cardinality(UpTo(inp, m)) \in Nat
  BY <1>1, <1>3, FS_CardinalityType
<1>5. UpTo(inp, 0) = {}
  BY DEF UpTo
<1>6. ASSUME n > 0
      PROVE  Cardinality(UpTo(inp, n)) =
               Cardinality(UpTo(inp, n - 1)) + Cardinality(Attributed(inp, n))
  <2>1. \A i : i \in 1..n <=> i \in 1..(n - 1) \/ i = n
    BY <1>6
  <2>2. UpTo(inp, n) = UpTo(inp, n - 1) \cup Attributed(inp, n)
    BY <2>1 DEF UpTo, Attributed
  <2>3. \A k \in UpTo(inp, n - 1) : k \notin Attributed(inp, n)
    <3>1. n \notin 1..(n - 1)
      OBVIOUS
    <3> QED  BY <3>1 DEF UpTo, Attributed
  <2> QED  BY <1>1, <1>3, <2>2, <2>3, Adds
<1>7. Cardinality(UpTo(inp, n)) \in 0..Cardinality(K)
  BY <1>3, <1>4
<1> QED  BY <1>3, <1>5, <1>6, <1>7 DEF K

\* Window by window, then the drops on no rolling node, then the early deaths.
LEMMA InvResetsConserved == MeasureInv => ResetsConserved
<1> SUFFICES ASSUME MeasureInv PROVE ResetsConserved
  OBVIOUS
<1> DEFINE K == OfKind(Input, {"ConnReset"})
           early == {k \in Early(Input) : Input.events[k].kind = "ConnReset"}
           n == Len(windows)
           total == [i \in 0..n |-> Cardinality(UpTo(Input, i))]
<1>1. Input.windows = windows /\ Input.events = Events /\ WindowList(windows)
  BY InputIs
<1>2. n \in Nat /\ DOMAIN windows = 1..n
  BY <1>1, WindowNumbers
<1>3. \A i \in 0..n : total[i] = Cardinality(UpTo(Input, i)) /\ total[i] \in 0..Cardinality(K)
  BY <1>1, <1>2, UpToGrows
<1>4. total \in [0..n -> 0..Cardinality(K)]
  BY <1>3
<1>5. total[0] = 0
  <2>1. 0 \in 0..n
    BY <1>2
  <2> QED  BY <1>1, <1>3, <2>1, UpToGrows, FS_EmptySet
<1>6. ASSUME NEW i \in DOMAIN windows
      PROVE  total[i] = total[i - 1] + PerNodeAttribution(Input, i).rawResets
  <2>1. i \in Nat /\ i > 0 /\ i \in 0..n /\ i - 1 \in 0..n
    BY <1>2, <1>6
  <2>2. Cardinality(UpTo(Input, i)) = Cardinality(UpTo(Input, i - 1)) + Cardinality(Attributed(Input, i))
    BY <1>1, <2>1, UpToGrows
  <2>3. PerNodeAttribution(Input, i).rawResets = Cardinality(Attributed(Input, i))
    BY DEF PerNodeAttribution
  <2> QED  BY <1>3, <2>1, <2>2, <2>3
<1>7. Cardinality(K) = Cardinality(UpTo(Input, n)) + Cardinality(Attributed(Input, 0)) + Cardinality(early)
  <2>1. IsFiniteSet(K) /\ IsFiniteSet(Attributed(Input, 0)) /\ IsFiniteSet(UpTo(Input, n))
    BY <1>1, <1>2, FiniteLines, UpToGrows
  <2>2. early = K \cap Early(Input)
    BY DEF Early, OfKind, BreakKind
  <2>3. IsFiniteSet(early)
    <3>1. early \in SUBSET K
      BY <2>2
    <3> QED  BY <2>1, <3>1, FS_Subset
  <2>4. \A k \in K \ Early(Input) : AttributeReset(Input.events[k].ts, windows) \in 0..n
    <3> SUFFICES ASSUME NEW k \in K \ Early(Input)
                 PROVE  AttributeReset(Input.events[k].ts, windows) \in 0..n
      OBVIOUS
    <3>1. Input.events[k].ts \in Nat
      BY <1>1, OfHeldKind
    <3> DEFINE a == AttributeReset(Input.events[k].ts, windows)
    <3>2. a = 0 \/ a \in Holding(Input.events[k].ts, windows)
      BY <1>1, <3>1, AttributeResetIs
    <3>3. a = 0 \/ a \in 1..n
      BY <1>2, <3>2 DEF Holding
    <3> HIDE DEF a
    <3>4. a \in 0..n
      BY <1>2, <3>3
    <3> QED  BY <3>4 DEF a
  <2>5. \A i : i \in 0..n <=> i = 0 \/ i \in 1..n
    BY <1>2
  <2>6. K = (UpTo(Input, n) \cup Attributed(Input, 0)) \cup early
    BY <1>1, <2>2, <2>4, <2>5 DEF UpTo, Attributed
  <2>7. \A k \in UpTo(Input, n) : k \notin Attributed(Input, 0)
    <3>1. 0 \notin 1..n
      OBVIOUS
    <3> QED  BY <3>1 DEF UpTo, Attributed
  <2>8. \A k \in UpTo(Input, n) \cup Attributed(Input, 0) : k \notin early
    BY DEF UpTo, Attributed
  <2> HIDE DEF K, early, n
  <2>9. /\ IsFiniteSet(UpTo(Input, n) \cup Attributed(Input, 0))
        /\ Cardinality(UpTo(Input, n) \cup Attributed(Input, 0)) =
             Cardinality(UpTo(Input, n)) + Cardinality(Attributed(Input, 0))
    BY <2>1, <2>7, Adds
  <2>10. Cardinality(K) = Cardinality(UpTo(Input, n) \cup Attributed(Input, 0)) + Cardinality(early)
    BY <2>3, <2>6, <2>8, <2>9, Adds
  <2> QED  BY <2>9, <2>10
<1>8. total[n] = Cardinality(UpTo(Input, n))
  BY <1>2, <1>3
<1>9. Result(Input).existingConnRSTs = Cardinality(K)
  BY DEF Result
<1> HIDE DEF total, K, early, n
<1>10. Cardinality(K) = total[n] + Cardinality(Attributed(Input, 0)) + Cardinality(early)
  BY <1>7, <1>8
<1> QED  BY <1>4, <1>5, <1>6, <1>9, <1>10 DEF ResetsConserved, n, early

(* In every run each reset is counted exactly once.                        *)
THEOREM EveryResetIsCounted == MeasureSpec => []ResetsConserved
BY InvResetsConserved, MeasureInvariant, PTL

-----------------------------------------------------------------------------
(* The run.                                                                *)
\* A line of a pod's log, as far as the analyzer reads it.
LogLine ==
  [kind : BreakKind \cup {"ConnReconnected", "NewConnAttemptFail"}, conn : Nat, ts : Nat]

RunTyped ==
  /\ clock \in Nat /\ harms \in Nat /\ since \in Nat
  /\ held \in [Pod -> Running \cup {"pending", "crashed"}]
  /\ conn \in [Pod -> Nat]
  /\ log \in [Pod -> Seq(LogLine)]
  /\ DOMAIN got = Pod
  /\ toRead \subseteq Pod

\* Where the pod's process may have a line that is yet to be followed by another.
Owed(p) == IF held[p] = "broken" THEN 1 ELSE 0

\* Each harm writes a line, and a break is owed its recovery.
FitsBound(p) == Len(log[p]) + Owed(p) <= 2 * harms + 2

\* Only the current connection may have broken and not recovered; the first one
\* has nothing to say before it is established.
Numbered(p) ==
  \A i \in DOMAIN log[p] :
    /\ log[p][i].kind \in BreakKind =>
         /\ held[p] \notin {"pending", "connecting"}
         /\ log[p][i].conn <= conn[p]
         /\ held[p] = "up" => log[p][i].conn < conn[p]
    /\ log[p][i].kind = "ConnReconnected" =>
         /\ held[p] \notin {"pending", "connecting"}
         /\ log[p][i].conn < conn[p]

\* A connection breaks once, and recovers after that.
BreaksFirst(p) ==
  \A i, j \in DOMAIN log[p] :
    log[p][i].kind \in BreakKind /\ log[p][j].conn = log[p][i].conn =>
      /\ log[p][j].kind \in BreakKind => i = j
      /\ log[p][j].kind = "ConnReconnected" => i < j

\* Lines of this run in which nothing failed.
Harmless(lines) ==
  \A i \in DOMAIN lines : SinceRunStart(lines[i].ts) => lines[i].kind = "ConnReconnected"

\* What was collected is of this run, and still in the log unless that is gone.
Excerpt(p) ==
  /\ DOMAIN got[p] \subseteq Nat
  /\ \A i \in DOMAIN got[p] : got[p][i] \in LogLine /\ SinceRunStart(got[p][i].ts)
  /\ p \notin restarted =>
       \A i \in DOMAIN got[p] : i \in DOMAIN log[p] /\ log[p][i] = got[p][i]

\* A log that was read to its end had all lines written before the collection.
WhollyRead(p) ==
  p \in read /\ p \notin restarted =>
    \A i \in DOMAIN log[p] :
      log[p][i].ts \in RunStart..(since - 1) => i \in DOMAIN got[p]

PodInv(p) ==
  /\ FitsBound(p) /\ Numbered(p) /\ BreaksFirst(p) /\ Excerpt(p) /\ WhollyRead(p)
  /\ harms = 0 => Harmless(log[p]) /\ Harmless(got[p])

\* The run collects after it has observed, each log once, and judges at the end.
Order ==
  /\ harms <= MaxHarm /\ since <= clock
  /\ phase \in {"wait", "trigger", "observe", "list"} => read = {}
  /\ read \cap toRead = {}
  /\ phase # "done" => verdict = Nil
  /\ windows \in Seq(Window)

RunInv == RunTyped /\ Order /\ \A p \in Pod : PodInv(p)

\* The initial logs hold a line of an earlier run at most.
LEMMA RunInvInit == RunInit => RunInv
<1> SUFFICES ASSUME RunInit PROVE RunInv
  OBVIOUS
<1>1. PICK past \in [Pod -> Past] :
        /\ held = [p \in Pod |-> past[p][1]]
        /\ conn = [p \in Pod |-> past[p][2]]
        /\ log = [p \in Pod |-> past[p][3]]
  BY DEF RunInit
<1>2. ASSUME NEW p \in Pod
      PROVE  /\ held[p] \in Running \cup {"pending", "crashed"} /\ conn[p] \in Nat
             /\ \/ held[p] \in {"pending", "connecting", "up"} /\ log[p] = <<>>
                \/ held[p] = "broken" /\ conn[p] = 1 /\ log[p] = <<Entry("ConnReset", 1, 0)>>
                \/ held[p] = "up" /\ log[p] = <<Entry("NewConnAttemptFail", 0, 0)>>
  BY <1>1 DEF Past, Running
<1>3. ASSUME NEW p \in Pod
      PROVE  /\ log[p] \in Seq(LogLine) /\ Len(log[p]) <= 1
             /\ \A i \in DOMAIN log[p] : i = 1 /\ log[p][i].ts = 0 /\ log[p][i].kind # "ConnReconnected"
                  /\ (log[p][i].kind \in BreakKind =>
                        held[p] = "broken" /\ log[p][i].conn = 1 /\ conn[p] = 1)
  <2>1. Entry("ConnReset", 1, 0) \in LogLine /\ Entry("NewConnAttemptFail", 0, 0) \in LogLine
    BY DEF Entry, LogLine, BreakKind
  <2>2. CASE log[p] = <<>>
    BY <2>2
  <2>3. CASE held[p] = "broken" /\ conn[p] = 1 /\ log[p] = <<Entry("ConnReset", 1, 0)>>
    <3>1. DOMAIN log[p] = {1} /\ Len(log[p]) = 1 /\ log[p][1] = Entry("ConnReset", 1, 0) /\ log[p] \in Seq(LogLine)
      BY <2>1, <2>3
    <3> QED  BY <2>3, <3>1 DEF Entry, BreakKind
  <2>4. CASE held[p] = "up" /\ log[p] = <<Entry("NewConnAttemptFail", 0, 0)>>
    <3>1. DOMAIN log[p] = {1} /\ Len(log[p]) = 1 /\ log[p][1] = Entry("NewConnAttemptFail", 0, 0)
          /\ log[p] \in Seq(LogLine)
      BY <2>1, <2>4
    <3> QED  BY <2>4, <3>1 DEF Entry, BreakKind
  <2> QED  BY <1>2, <2>2, <2>3, <2>4
<1>4. RunTyped
  <2>1. held \in [Pod -> Running \cup {"pending", "crashed"}] /\ conn \in [Pod -> Nat]
    BY <1>1, <1>2
  <2>2. log \in [Pod -> Seq(LogLine)]
    BY <1>1, <1>3
  <2> QED  BY <2>1, <2>2 DEF RunTyped, RunInit, RunStart
<1>5. Order
  <2>1. windows \in Seq(Window)
    BY DEF RunInit
  <2> QED  BY <2>1, RunAssumption DEF RunInit, Order, RunStart
<1>6. ASSUME NEW p \in Pod PROVE PodInv(p)
  <2>1. got[p] = <<>> /\ read = {} /\ harms = 0
    BY DEF RunInit
  <2>2. FitsBound(p)
    <3>1. Len(log[p]) \in Nat /\ Len(log[p]) <= 1 /\ Owed(p) \in 0..1
      BY <1>3, LenProperties DEF Owed
    <3> QED  BY <2>1, <3>1 DEF FitsBound
  <2>3. Numbered(p)
    BY <1>3 DEF Numbered
  <2>4. BreaksFirst(p)
    BY <1>3 DEF BreaksFirst
  <2>5. Excerpt(p) /\ WhollyRead(p)
    BY <2>1 DEF Excerpt, WhollyRead
  <2>6. Harmless(log[p]) /\ Harmless(got[p])
    BY <1>3, <2>1 DEF Harmless, SinceRunStart, RunStart
  <2> QED  BY <2>2, <2>3, <2>4, <2>5, <2>6 DEF PodInv
<1> QED  BY <1>4, <1>5, <1>6 DEF RunInv

\* What the invariant says of one pod's variables.
LEMMA PodTypes ==
  ASSUME RunInv, NEW p \in Pod
  PROVE  /\ log[p] \in Seq(LogLine) /\ Len(log[p]) \in Nat /\ DOMAIN log[p] = 1..Len(log[p])
         /\ \A i \in DOMAIN log[p] :
              /\ log[p][i] \in LogLine /\ log[p][i].conn \in Nat /\ log[p][i].ts \in Nat
              /\ log[p][i].kind \in BreakKind \cup {"ConnReconnected", "NewConnAttemptFail"}
         /\ held[p] \in Running \cup {"pending", "crashed"} /\ conn[p] \in Nat
         /\ harms \in Nat /\ clock \in Nat /\ since \in Nat /\ PodInv(p) /\ Order
<1>1. log[p] \in Seq(LogLine) /\ held[p] \in Running \cup {"pending", "crashed"} /\ conn[p] \in Nat
  BY DEF RunInv, RunTyped
<1>2. Len(log[p]) \in Nat /\ DOMAIN log[p] = 1..Len(log[p])
  BY <1>1, LenProperties
<1>3. \A i \in DOMAIN log[p] : log[p][i] \in LogLine
  BY <1>1, <1>2, ElementOfSeq
<1> QED  BY <1>1, <1>2, <1>3 DEF RunInv, RunTyped, LogLine

\* A step that leaves the lines of a pod alone.
LEMMA SameLines ==
  ASSUME RunInv, NEW q \in Pod,
         log'[q] = log[q], got'[q] = got[q], q \in restarted' <=> q \in restarted,
         q \in read' => q \in read /\ since' = since,
         harms' \in Nat, harms' >= harms, FitsBound(q)', Numbered(q)'
  PROVE  PodInv(q)'
<1>1. PodInv(q) /\ harms \in Nat
  BY PodTypes
<1>2. BreaksFirst(q)'
  BY <1>1 DEF PodInv, BreaksFirst
<1>3. Excerpt(q)'
  BY <1>1 DEF PodInv, Excerpt
<1>4. WhollyRead(q)'
  BY <1>1 DEF PodInv, WhollyRead
<1>5. harms' = 0 => Harmless(log[q])' /\ Harmless(got[q])'
  BY <1>1 DEF PodInv, Harmless
<1> QED  BY <1>2, <1>3, <1>4, <1>5 DEF PodInv

\* One that also leaves its process alone.
LEMMA Untouched ==
  ASSUME RunInv, NEW q \in Pod,
         log'[q] = log[q], got'[q] = got[q], q \in restarted' <=> q \in restarted,
         q \in read' => q \in read /\ since' = since,
         harms' \in Nat, harms' >= harms, held'[q] = held[q], conn'[q] = conn[q]
  PROVE  PodInv(q)'
<1>1. PodInv(q) /\ harms \in Nat /\ Len(log[q]) \in Nat
  BY PodTypes
<1>2. Numbered(q)'
  BY <1>1 DEF PodInv, Numbered
<1>3. FitsBound(q)'
  <2>1. Owed(q)' = Owed(q) /\ Owed(q) \in 0..1
    BY DEF Owed
  <2>2. Len(log[q]) + Owed(q) <= 2 * harms + 2
    BY <1>1 DEF PodInv, FitsBound
  <2> QED  BY <1>1, <2>1, <2>2 DEF FitsBound
<1> QED  BY <1>2, <1>3, SameLines

\* What appending a line does to a log.
LEMMA Appended ==
  ASSUME RunInv, NEW p \in Pod, NEW e \in LogLine, log'[p] = Append(log[p], e)
  PROVE  /\ Len(log'[p]) = Len(log[p]) + 1
         /\ DOMAIN log'[p] = 1..(Len(log[p]) + 1)
         /\ \A i \in DOMAIN log[p] : i \in DOMAIN log'[p] /\ log'[p][i] = log[p][i]
         /\ log'[p][Len(log[p]) + 1] = e
         /\ \A i \in DOMAIN log'[p] : i \in DOMAIN log[p] \/ i = Len(log[p]) + 1
         /\ Len(log[p]) + 1 \notin DOMAIN log[p]
<1>1. log[p] \in Seq(LogLine) /\ Len(log[p]) \in Nat /\ DOMAIN log[p] = 1..Len(log[p])
  BY PodTypes
<1>2. /\ Len(Append(log[p], e)) = Len(log[p]) + 1
      /\ \A i \in 1..Len(log[p]) : Append(log[p], e)[i] = log[p][i]
      /\ Append(log[p], e)[Len(log[p]) + 1] = e
      /\ Append(log[p], e) \in Seq(LogLine)
  BY <1>1, AppendProperties
<1>3. DOMAIN Append(log[p], e) = 1..(Len(log[p]) + 1)
  BY <1>2, LenProperties
<1> QED  BY <1>1, <1>2, <1>3

\* A step in which a pod writes a line of now.
LEMMA WritesLine ==
  ASSUME RunInv, NEW p \in Pod, NEW e \in LogLine, log'[p] = Append(log[p], e), e.ts = clock,
         UNCHANGED <<got, restarted, read, since>>,
         FitsBound(p)', Numbered(p)', BreaksFirst(p)',
         harms' = 0 => harms = 0 /\ e.kind = "ConnReconnected"
  PROVE  PodInv(p)'
<1>1. PodInv(p) /\ Order /\ clock \in Nat /\ since \in Nat /\ since <= clock
  BY PodTypes DEF Order
<1>2. Excerpt(p)'
  BY <1>1, Appended DEF PodInv, Excerpt
<1>3. WhollyRead(p)'
  <2>1. clock \notin RunStart..(since - 1)
    BY <1>1
  <2> QED  BY <1>1, <2>1, Appended DEF PodInv, WhollyRead
<1>4. harms' = 0 => Harmless(log[p])' /\ Harmless(got[p])'
  BY <1>1, Appended DEF PodInv, Harmless
<1> QED  BY <1>2, <1>3, <1>4 DEF PodInv

\* A step of one pod's process keeps the invariant if it does for this pod.
LEMMA OnePodMoves ==
  ASSUME RunInv, NEW p \in Pod, OthersUnchanged,
         held' \in [Pod -> Running \cup {"pending", "crashed"}],
         conn' \in [Pod -> Nat], log' \in [Pod -> Seq(LogLine)],
         \A q \in Pod \ {p} :
           /\ held'[q] = held[q] /\ conn'[q] = conn[q] /\ log'[q] = log[q]
           /\ q \in restarted' <=> q \in restarted,
         harms' \in Nat, harms' >= harms, harms' <= MaxHarm,
         PodInv(p)'
  PROVE  RunInv'
<1>1. RunTyped'
  BY DEF RunInv, RunTyped, OthersUnchanged, collectVars
<1>2. Order'
  BY DEF RunInv, Order, OthersUnchanged, collectVars, watchVars, runVars
<1>3. ASSUME NEW q \in Pod, q # p PROVE PodInv(q)'
  BY <1>3, Untouched DEF OthersUnchanged, collectVars
<1> QED  BY <1>1, <1>2, <1>3 DEF RunInv

\* A process that starts, connects, crashes or is replaced.
LEMMA LifeKeeps ==
  ASSUME RunInv, NEW p \in Pod, Starts(p) \/ Connects(p) \/ Crashes(p) \/ Restarts(p)
  PROVE  RunInv'
<1>1. /\ log[p] \in Seq(LogLine) /\ conn[p] \in Nat /\ harms \in Nat /\ harms <= MaxHarm
      /\ log \in [Pod -> Seq(LogLine)] /\ conn \in [Pod -> Nat]
      /\ held \in [Pod -> Running \cup {"pending", "crashed"}]
      /\ PodInv(p) /\ Len(log[p]) \in Nat
  BY PodTypes DEF RunInv, RunTyped, Order
<1>3. FitsBound(p) /\ Owed(p) \in 0..1 /\ Numbered(p)
  BY <1>1 DEF PodInv, Owed
<1>4. CASE Starts(p)
  <2>1. /\ held[p] = "pending" /\ held'[p] = "connecting" /\ held' = [held EXCEPT ![p] = "connecting"]
        /\ UNCHANGED <<conn, log, restarted, harms>> /\ OthersUnchanged
    BY <1>1, <1>4 DEF Starts, Become
  <2>2. FitsBound(p)' /\ Numbered(p)'
    BY <1>3, <2>1 DEF FitsBound, Owed, Numbered
  <2>3. PodInv(p)'
    BY <1>1, <2>1, <2>2, SameLines DEF OthersUnchanged, collectVars
  <2>9. /\ held' \in [Pod -> Running \cup {"pending", "crashed"}]
        /\ conn' \in [Pod -> Nat] /\ log' \in [Pod -> Seq(LogLine)]
        /\ \A q \in Pod \ {p} :
             /\ held'[q] = held[q] /\ conn'[q] = conn[q] /\ log'[q] = log[q]
             /\ q \in restarted' <=> q \in restarted
        /\ harms' \in Nat /\ harms' >= harms /\ harms' <= MaxHarm /\ OthersUnchanged
    BY <1>1, <2>1 DEF Running
  <2> QED  BY <2>9, <2>3, OnePodMoves
<1>5. CASE Connects(p)
  <2>1. /\ held[p] = "connecting" /\ held'[p] = "up" /\ held' = [held EXCEPT ![p] = "up"]
        /\ conn' = [conn EXCEPT ![p] = 1]
        /\ UNCHANGED <<log, restarted, harms>> /\ OthersUnchanged
    BY <1>1, <1>5 DEF Connects, Become
  <2>2. FitsBound(p)' /\ Numbered(p)'
    BY <1>3, <2>1 DEF FitsBound, Owed, Numbered
  <2>3. PodInv(p)'
    BY <1>1, <2>1, <2>2, SameLines DEF OthersUnchanged, collectVars
  <2>9. /\ held' \in [Pod -> Running \cup {"pending", "crashed"}]
        /\ conn' \in [Pod -> Nat] /\ log' \in [Pod -> Seq(LogLine)]
        /\ \A q \in Pod \ {p} :
             /\ held'[q] = held[q] /\ conn'[q] = conn[q] /\ log'[q] = log[q]
             /\ q \in restarted' <=> q \in restarted
        /\ harms' \in Nat /\ harms' >= harms /\ harms' <= MaxHarm /\ OthersUnchanged
    BY <1>1, <2>1 DEF Running
  <2> QED  BY <2>9, <2>3, OnePodMoves
<1>6. CASE Crashes(p)
  <2>1. /\ held[p] \in Running /\ held'[p] = "crashed" /\ held' = [held EXCEPT ![p] = "crashed"]
        /\ UNCHANGED <<conn, log, restarted, harms>> /\ OthersUnchanged
    BY <1>1, <1>6 DEF Crashes, Become
  <2>2. FitsBound(p)'
    <3>1. Owed(p)' = 0
      BY <2>1 DEF Owed
    <3>2. Len(log[p]) + Owed(p) <= 2 * harms + 2
      BY <1>3 DEF FitsBound
    <3> QED  BY <1>1, <1>3, <2>1, <3>1, <3>2 DEF FitsBound
  <2>3. Numbered(p)'
    BY <1>3, <2>1 DEF Numbered
  <2>4. PodInv(p)'
    BY <1>1, <2>1, <2>2, <2>3, SameLines DEF OthersUnchanged, collectVars
  <2>9. /\ held' \in [Pod -> Running \cup {"pending", "crashed"}]
        /\ conn' \in [Pod -> Nat] /\ log' \in [Pod -> Seq(LogLine)]
        /\ \A q \in Pod \ {p} :
             /\ held'[q] = held[q] /\ conn'[q] = conn[q] /\ log'[q] = log[q]
             /\ q \in restarted' <=> q \in restarted
        /\ harms' \in Nat /\ harms' >= harms /\ harms' <= MaxHarm /\ OthersUnchanged
    BY <1>1, <2>1 DEF Running
  <2> QED  BY <2>9, <2>4, OnePodMoves
<1>7. CASE Restarts(p)
  <2>1. /\ held'[p] = "connecting" /\ held' = [held EXCEPT ![p] = "connecting"]
        /\ conn' = [conn EXCEPT ![p] = 0]
        /\ log' = [log EXCEPT ![p] = <<>>] /\ log'[p] = <<>>
        /\ restarted' = restarted \cup {p}
        /\ UNCHANGED harms /\ OthersUnchanged
    BY <1>1, <1>7 DEF Restarts, Become
  <2>2. FitsBound(p)'
    <3>1. Owed(p)' = 0 /\ Len(log'[p]) = 0
      BY <2>1 DEF Owed
    <3> QED  BY <1>1, <2>1, <3>1 DEF FitsBound
  <2>3. DOMAIN log'[p] = {}
    BY <2>1
  <2>4. Numbered(p)' /\ BreaksFirst(p)' /\ WhollyRead(p)' /\ Harmless(log[p])'
    BY <2>3 DEF Numbered, BreaksFirst, WhollyRead, Harmless
  <2>5. Excerpt(p)'
    BY <1>1, <2>1 DEF PodInv, Excerpt, OthersUnchanged, collectVars
  <2>6. harms' = 0 => Harmless(got[p])'
    BY <1>1, <2>1 DEF PodInv, Harmless, OthersUnchanged, collectVars
  <2>7. PodInv(p)'
    BY <2>2, <2>4, <2>5, <2>6 DEF PodInv
  <2>8. <<>> \in Seq(LogLine)
    OBVIOUS
  <2>9. /\ held' \in [Pod -> Running \cup {"pending", "crashed"}]
        /\ conn' \in [Pod -> Nat] /\ log' \in [Pod -> Seq(LogLine)]
        /\ \A q \in Pod \ {p} :
             /\ held'[q] = held[q] /\ conn'[q] = conn[q] /\ log'[q] = log[q]
             /\ q \in restarted' <=> q \in restarted
        /\ harms' \in Nat /\ harms' >= harms /\ harms' <= MaxHarm /\ OthersUnchanged
    BY <1>1, <2>1, <2>8 DEF Running
  <2> QED  BY <2>9, <2>7, OnePodMoves
<1> QED  BY <1>4, <1>5, <1>6, <1>7

\* A held connection breaks.
LEMMA BreakKeeps ==
  ASSUME RunInv, NEW p \in Pod, Breaks(p)
  PROVE  RunInv'
<1>1. PICK k \in BreakKind : Write(p, Entry(k, conn[p], clock))
  BY DEF Breaks
<1> DEFINE e == Entry(k, conn[p], clock)
           n == Len(log[p]) + 1
<1>2. /\ log \in [Pod -> Seq(LogLine)] /\ held \in [Pod -> Running \cup {"pending", "crashed"}]
      /\ conn \in [Pod -> Nat] /\ clock \in Nat
      /\ log[p] \in Seq(LogLine) /\ conn[p] \in Nat /\ harms \in Nat /\ MaxHarm \in Nat
      /\ PodInv(p) /\ Len(log[p]) \in Nat
  BY PodTypes, RunAssumption DEF RunInv, RunTyped
<1>3. e \in LogLine /\ e.kind = k /\ e.conn = conn[p] /\ e.ts = clock
  BY <1>2 DEF Entry, LogLine
<1> HIDE DEF e
<1>4. Append(log[p], e) \in Seq(LogLine) /\ log' = [log EXCEPT ![p] = Append(log[p], e)]
      /\ log'[p] = Append(log[p], e)
  BY <1>1, <1>2, <1>3, AppendProperties DEF Write, e
<1>5. /\ held[p] = "up" /\ held'[p] = "broken" /\ held' = [held EXCEPT ![p] = "broken"]
      /\ harms < MaxHarm /\ harms' = harms + 1
      /\ UNCHANGED <<conn, restarted>> /\ OthersUnchanged
  BY <1>2 DEF Breaks, Become
<1>6. /\ Len(log'[p]) = n /\ DOMAIN log'[p] = 1..n
      /\ \A i \in DOMAIN log[p] : log'[p][i] = log[p][i]
      /\ log'[p][n] = e
      /\ \A i \in DOMAIN log'[p] : i \in DOMAIN log[p] \/ i = n
  BY <1>3, <1>4, Appended
<1>7. FitsBound(p)'
  <2>1. Owed(p) = 0 /\ Owed(p)' = 1
    BY <1>5 DEF Owed
  <2>2. Len(log[p]) <= 2 * harms + 2
    BY <1>2, <2>1 DEF PodInv, FitsBound
  <2> QED  BY <1>2, <1>5, <1>6, <2>1, <2>2 DEF FitsBound
<1>8. Numbered(p)'
  <2>1. Numbered(p)
    BY <1>2 DEF PodInv
  <2>2. ASSUME NEW i \in DOMAIN log[p]
        PROVE  /\ log[p][i].kind \in BreakKind => log[p][i].conn < conn[p]
               /\ log[p][i].kind = "ConnReconnected" => log[p][i].conn < conn[p]
    BY <1>5, <2>1 DEF Numbered
  <2>3. \A i \in DOMAIN log[p] : log[p][i].conn \in Nat
    BY PodTypes
  <2>4. k # "ConnReconnected"
    BY DEF BreakKind
  <2>5. held'[p] = "broken" /\ conn'[p] = conn[p]
    BY <1>5
  <2>6. ASSUME NEW i \in DOMAIN log'[p]
        PROVE  /\ log'[p][i].kind \in BreakKind => log'[p][i].conn <= conn[p]
               /\ log'[p][i].kind = "ConnReconnected" => log'[p][i].conn < conn[p]
    <3>1. CASE i = n
      BY <1>2, <1>3, <1>6, <2>4, <3>1
    <3>2. CASE i \in DOMAIN log[p]
      BY <1>2, <1>6, <2>2, <2>3, <3>2
    <3> QED  BY <1>6, <3>1, <3>2
  <2> QED  BY <2>5, <2>6 DEF Numbered
<1>9. BreaksFirst(p)'
  <2>1. BreaksFirst(p)
    BY <1>2 DEF PodInv
  <2>2. ASSUME NEW i \in DOMAIN log[p]
        PROVE  log[p][i].kind \in BreakKind \cup {"ConnReconnected"} => log[p][i].conn # conn[p]
    <3>1. log[p][i].conn \in Nat
      BY PodTypes
    <3> QED  BY <1>2, <1>5, <3>1 DEF PodInv, Numbered
  <2>3. ASSUME NEW i \in DOMAIN log'[p], NEW j \in DOMAIN log'[p],
               log'[p][i].kind \in BreakKind, log'[p][j].conn = log'[p][i].conn
        PROVE  /\ log'[p][j].kind \in BreakKind => i = j
               /\ log'[p][j].kind = "ConnReconnected" => i < j
    <3>1. CASE i = n /\ j = n
      BY <1>3, <1>6, <3>1 DEF BreakKind
    <3>2. CASE i = n /\ j \in DOMAIN log[p]
      BY <1>3, <1>6, <2>2, <2>3, <3>2
    <3>3. CASE i \in DOMAIN log[p] /\ j = n
      BY <1>3, <1>6, <2>2, <2>3, <3>3
    <3>4. CASE i \in DOMAIN log[p] /\ j \in DOMAIN log[p]
      BY <1>6, <2>1, <2>3, <3>4 DEF BreaksFirst
    <3> QED  BY <1>6, <3>1, <3>2, <3>3, <3>4
  <2> QED  BY <2>3 DEF BreaksFirst
<1>10. PodInv(p)'
  BY <1>2, <1>3, <1>4, <1>5, <1>7, <1>8, <1>9, WritesLine DEF OthersUnchanged, collectVars
<1>13. /\ held' \in [Pod -> Running \cup {"pending", "crashed"}]
       /\ conn' \in [Pod -> Nat] /\ log' \in [Pod -> Seq(LogLine)]
       /\ \A q \in Pod \ {p} :
            /\ held'[q] = held[q] /\ conn'[q] = conn[q] /\ log'[q] = log[q]
            /\ q \in restarted' <=> q \in restarted
       /\ harms' \in Nat /\ harms' >= harms /\ harms' <= MaxHarm /\ OthersUnchanged
  BY <1>2, <1>4, <1>5 DEF Running
<1> QED  BY <1>10, <1>13, OnePodMoves

\* It comes back.
LEMMA RecoveryKeeps ==
  ASSUME RunInv, NEW p \in Pod, Recovers(p)
  PROVE  RunInv'
<1> DEFINE e == Entry("ConnReconnected", conn[p], clock)
           n == Len(log[p]) + 1
<1>1. Write(p, e)
  BY DEF Recovers
<1>2. /\ log \in [Pod -> Seq(LogLine)] /\ held \in [Pod -> Running \cup {"pending", "crashed"}]
      /\ conn \in [Pod -> Nat] /\ clock \in Nat
      /\ log[p] \in Seq(LogLine) /\ conn[p] \in Nat /\ harms \in Nat /\ harms <= MaxHarm
      /\ PodInv(p) /\ Len(log[p]) \in Nat
  BY PodTypes DEF RunInv, RunTyped, Order
<1>3. e \in LogLine /\ e.kind = "ConnReconnected" /\ e.conn = conn[p] /\ e.ts = clock
  BY <1>2 DEF Entry, LogLine
<1> HIDE DEF e
<1>4. Append(log[p], e) \in Seq(LogLine) /\ log' = [log EXCEPT ![p] = Append(log[p], e)]
      /\ log'[p] = Append(log[p], e)
  BY <1>1, <1>2, <1>3, AppendProperties DEF Write
<1>5. /\ held[p] = "broken" /\ held'[p] = "up" /\ held' = [held EXCEPT ![p] = "up"]
      /\ conn' = [conn EXCEPT ![p] = conn[p] + 1] /\ conn'[p] = conn[p] + 1
      /\ UNCHANGED <<restarted, harms>> /\ OthersUnchanged
  BY <1>2 DEF Recovers, Become
<1>6. /\ Len(log'[p]) = n /\ DOMAIN log'[p] = 1..n
      /\ \A i \in DOMAIN log[p] : log'[p][i] = log[p][i] /\ i < n
      /\ log'[p][n] = e
      /\ \A i \in DOMAIN log'[p] : i \in DOMAIN log[p] \/ i = n
  BY <1>3, <1>4, Appended, PodTypes
<1>7. FitsBound(p)'
  <2>1. Owed(p) = 1 /\ Owed(p)' = 0
    BY <1>5 DEF Owed
  <2>2. Len(log[p]) + 1 <= 2 * harms + 2
    BY <1>2, <2>1 DEF PodInv, FitsBound
  <2> QED  BY <1>2, <1>5, <1>6, <2>1, <2>2 DEF FitsBound
<1>8. Numbered(p)'
  <2>1. ASSUME NEW i \in DOMAIN log[p]
        PROVE  /\ log[p][i].conn \in Nat
               /\ log[p][i].kind \in BreakKind \cup {"ConnReconnected"} => log[p][i].conn <= conn[p]
    <3>1. log[p][i].conn \in Nat
      BY PodTypes
    <3> QED  BY <1>2, <3>1 DEF PodInv, Numbered
  <2>2. e.kind \notin BreakKind
    BY <1>3 DEF BreakKind
  <2>3. held'[p] = "up" /\ conn'[p] = conn[p] + 1
    BY <1>5
  <2>4. ASSUME NEW i \in DOMAIN log'[p]
        PROVE  /\ log'[p][i].kind \in BreakKind => log'[p][i].conn <= conn[p]
               /\ log'[p][i].kind = "ConnReconnected" => log'[p][i].conn <= conn[p]
               /\ log'[p][i].conn \in Nat \/ log'[p][i].kind \notin BreakKind \cup {"ConnReconnected"}
    <3>1. CASE i = n
      BY <1>2, <1>3, <1>6, <2>2, <3>1
    <3>2. CASE i \in DOMAIN log[p]
      BY <1>6, <2>1, <3>2
    <3> QED  BY <1>6, <3>1, <3>2
  <2> QED  BY <1>2, <2>3, <2>4 DEF Numbered
<1>9. BreaksFirst(p)'
  <2>1. BreaksFirst(p)
    BY <1>2 DEF PodInv
  <2>2. ASSUME NEW i \in DOMAIN log'[p], NEW j \in DOMAIN log'[p],
               log'[p][i].kind \in BreakKind, log'[p][j].conn = log'[p][i].conn
        PROVE  /\ log'[p][j].kind \in BreakKind => i = j
               /\ log'[p][j].kind = "ConnReconnected" => i < j
    <3>1. i \in DOMAIN log[p]
      BY <1>3, <1>6, <2>2 DEF BreakKind
    <3>2. CASE j = n
      BY <1>3, <1>6, <3>1, <3>2 DEF BreakKind
    <3>3. CASE j \in DOMAIN log[p]
      BY <1>6, <2>1, <2>2, <3>1, <3>3 DEF BreaksFirst
    <3> QED  BY <1>6, <3>2, <3>3
  <2> QED  BY <2>2 DEF BreaksFirst
<1>10. PodInv(p)'
  BY <1>2, <1>3, <1>4, <1>5, <1>7, <1>8, <1>9, WritesLine DEF OthersUnchanged, collectVars
<1>13. /\ held' \in [Pod -> Running \cup {"pending", "crashed"}]
       /\ conn' \in [Pod -> Nat] /\ log' \in [Pod -> Seq(LogLine)]
       /\ \A q \in Pod \ {p} :
            /\ held'[q] = held[q] /\ conn'[q] = conn[q] /\ log'[q] = log[q]
            /\ q \in restarted' <=> q \in restarted
       /\ harms' \in Nat /\ harms' >= harms /\ harms' <= MaxHarm /\ OthersUnchanged
  BY <1>2, <1>4, <1>5 DEF Running
<1> QED  BY <1>10, <1>13, OnePodMoves

\* A new connection fails.
LEMMA FailureKeeps ==
  ASSUME RunInv, NEW p \in Pod, AttemptFails(p)
  PROVE  RunInv'
<1> DEFINE e == Entry("NewConnAttemptFail", 0, clock)
           n == Len(log[p]) + 1
<1>1. Write(p, e)
  BY DEF AttemptFails
<1>2. /\ log \in [Pod -> Seq(LogLine)] /\ held \in [Pod -> Running \cup {"pending", "crashed"}]
      /\ conn \in [Pod -> Nat] /\ clock \in Nat
      /\ log[p] \in Seq(LogLine) /\ conn[p] \in Nat /\ harms \in Nat /\ MaxHarm \in Nat
      /\ PodInv(p) /\ Len(log[p]) \in Nat
  BY PodTypes, RunAssumption DEF RunInv, RunTyped
<1>3. e \in LogLine /\ e.kind = "NewConnAttemptFail" /\ e.ts = clock
  BY <1>2 DEF Entry, LogLine
<1> HIDE DEF e
<1>4. Append(log[p], e) \in Seq(LogLine) /\ log' = [log EXCEPT ![p] = Append(log[p], e)]
      /\ log'[p] = Append(log[p], e)
  BY <1>1, <1>2, <1>3, AppendProperties DEF Write
<1>5. /\ harms < MaxHarm /\ harms' = harms + 1
      /\ UNCHANGED <<held, conn, restarted>> /\ OthersUnchanged
  BY DEF AttemptFails
<1>6. /\ Len(log'[p]) = n
      /\ \A i \in DOMAIN log[p] : log'[p][i] = log[p][i]
      /\ log'[p][n] = e
      /\ \A i \in DOMAIN log'[p] : i \in DOMAIN log[p] \/ i = n
  BY <1>3, <1>4, Appended
<1>7. FitsBound(p)'
  <2>1. Owed(p)' = Owed(p) /\ Owed(p) \in 0..1
    BY <1>5 DEF Owed
  <2>2. Len(log[p]) + Owed(p) <= 2 * harms + 2
    BY <1>2 DEF PodInv, FitsBound
  <2> QED  BY <1>2, <1>5, <1>6, <2>1, <2>2 DEF FitsBound
<1>8. e.kind \notin BreakKind /\ e.kind # "ConnReconnected"
  BY <1>3 DEF BreakKind
<1>9. Numbered(p)'
  BY <1>2, <1>5, <1>6, <1>8 DEF PodInv, Numbered
<1>10. BreaksFirst(p)'
  <2>1. BreaksFirst(p)
    BY <1>2 DEF PodInv
  <2> QED  BY <1>6, <1>8, <2>1 DEF BreaksFirst
<1>11. PodInv(p)'
  BY <1>2, <1>3, <1>4, <1>5, <1>7, <1>9, <1>10, WritesLine DEF OthersUnchanged, collectVars
<1>13. /\ held' \in [Pod -> Running \cup {"pending", "crashed"}]
       /\ conn' \in [Pod -> Nat] /\ log' \in [Pod -> Seq(LogLine)]
       /\ \A q \in Pod \ {p} :
            /\ held'[q] = held[q] /\ conn'[q] = conn[q] /\ log'[q] = log[q]
            /\ q \in restarted' <=> q \in restarted
       /\ harms' \in Nat /\ harms' >= harms /\ harms' <= MaxHarm /\ OthersUnchanged
  BY <1>2, <1>4, <1>5 DEF Running
<1> QED  BY <1>11, <1>13, OnePodMoves

\* What goes on beside the pods and the collection.
LEMMA WorldKeeps ==
  ASSUME RunInv, Drain \/ Second \/ Cancel
  PROVE  RunInv'
<1>1. RunTyped /\ Order
  BY DEF RunInv
<1>2. UNCHANGED <<podVars, runVars, collectVars>> /\ clock' \in Nat /\ clock' >= clock
  BY <1>1 DEF Drain, Second, Cancel, RunTyped, watchVars
<1>3. ASSUME NEW p \in Pod PROVE PodInv(p)'
  <2>1. harms' \in Nat /\ harms' >= harms
    BY <1>1, <1>2 DEF podVars, RunTyped
  <2> QED  BY <1>2, <2>1, Untouched DEF podVars, collectVars
<1>4. RunTyped'
  BY <1>1, <1>2 DEF RunTyped, podVars, collectVars
<1>5. Order'
  <2>1. ASSUME Drain PROVE windows' \in Seq(Window)
    <3>1. PICK r \in {0, RunStart} :
            windows' = Append(windows, [node |-> Len(windows) + 1, drainingAt |-> clock + Grace,
                                        graceExpiresAt |-> clock + 2 * Grace, readyAt |-> r])
      BY <2>1 DEF Drain
    <3> DEFINE w == [node |-> Len(windows) + 1, drainingAt |-> clock + Grace,
                     graceExpiresAt |-> clock + 2 * Grace, readyAt |-> r]
    <3>2. windows \in Seq(Window) /\ Len(windows) \in Nat /\ clock \in Nat /\ r \in Nat
      BY <1>1, LenProperties DEF Order, RunTyped, RunStart
    <3>3. /\ Len(windows) + 1 \in Nat /\ clock + Grace \in Nat /\ clock + 2 * Grace \in Nat
      BY <3>2, RunAssumption
    <3>4. w \in Window
      BY <3>2, <3>3 DEF Window
    <3> QED  BY <3>1, <3>2, <3>4, AppendProperties
  <2>2. windows' \in Seq(Window)
    <3>1. ASSUME Second \/ Cancel PROVE windows' = windows
      BY <3>1 DEF Second, Cancel, watchVars
    <3> QED  BY <1>1, <2>1, <3>1 DEF Order
  <2>3. harms' = harms /\ since' = since /\ phase' = phase /\ read' = read /\ verdict' = verdict
        /\ toRead' = toRead /\ since \in Nat /\ clock \in Nat
    BY <1>1, <1>2 DEF podVars, runVars, collectVars, RunTyped
  <2> QED  BY <1>1, <1>2, <2>2, <2>3 DEF Order
<1> QED  BY <1>3, <1>4, <1>5 DEF RunInv

\* The statements of RunMeasure before and after the collection.
LEMMA PhaseKeeps ==
  ASSUME RunInv,
         WaitProbesReady \/ FireTrigger \/ ObservationEnds \/ ListPods \/ AnalyzeRun
  PROVE  RunInv'
<1>1. RunTyped /\ Order
  BY DEF RunInv
<1>2. UNCHANGED <<clock, podVars, windows, got, read>>
  BY DEF WaitProbesReady, FireTrigger, ObservationEnds, ListPods, AnalyzeRun,
         watchVars, collectVars
<1>3. since' = since \/ (read = {} /\ since' = clock)
  <2>1. since' = since \/ (phase = "observe" /\ since' = clock)
    <3>1. CASE ObservationEnds
      BY <3>1 DEF ObservationEnds
    <3> QED  BY <3>1 DEF WaitProbesReady, FireTrigger, ListPods, AnalyzeRun, collectVars
  <2> QED  BY <1>1, <2>1 DEF Order
<1>4. ASSUME NEW p \in Pod PROVE PodInv(p)'
  <2>1. harms' \in Nat /\ harms' >= harms
    BY <1>1, <1>2 DEF podVars, RunTyped
  <2> QED  BY <1>2, <1>3, <2>1, Untouched DEF podVars
<1>5. RunTyped'
  <2>1. toRead' = toRead \/ toRead' = Pod
    BY DEF WaitProbesReady, FireTrigger, ObservationEnds, ListPods, AnalyzeRun,
           collectVars
  <2> QED  BY <1>1, <1>2, <1>3, <2>1 DEF RunTyped, podVars
<1>6. Order'
  <2>1. harms' = harms /\ clock' = clock /\ since' <= clock'
    BY <1>1, <1>2, <1>3 DEF podVars, RunTyped, Order
  <2>2. phase' \in {"wait", "trigger", "observe", "list"} => phase \in {"wait", "trigger", "observe", "list"}
    BY DEF WaitProbesReady, FireTrigger, ObservationEnds, ListPods, AnalyzeRun
  <2>3. phase' # "done" => phase # "done" /\ verdict' = verdict
    BY DEF WaitProbesReady, FireTrigger, ObservationEnds, ListPods, AnalyzeRun
  <2>4. read' \cap toRead' = {}
    <3>1. toRead' = toRead \/ phase = "list"
      BY DEF WaitProbesReady, FireTrigger, ObservationEnds, ListPods, AnalyzeRun,
             collectVars
    <3> QED  BY <1>1, <1>2, <3>1 DEF Order
  <2> QED  BY <1>1, <1>2, <2>1, <2>2, <2>3, <2>4 DEF Order
<1> QED  BY <1>4, <1>5, <1>6 DEF RunInv

\* Collecting the log of one pod.
LEMMA CollectKeeps ==
  ASSUME RunInv, NEW p \in Pod, CollectEvents(p)
  PROVE  RunInv'
<1>1. RunTyped /\ Order
  BY DEF RunInv
<1>2. UNCHANGED <<clock, podVars, windows, runVars, since>> /\ toRead' \subseteq Pod
      /\ phase = "collect" /\ phase' = "collect"
  BY <1>1 DEF CollectEvents, watchVars, runVars, RunTyped
<1>3. PICK n \in 0..Len(log[p]) :
        /\ got' = [got EXCEPT ![p] = Returned(log[p], n)]
        /\ read' = read \/ (n = Len(log[p]) /\ read' = read \cup {p})
  <2>1. Len(log[p]) \in 0..Len(log[p])
    BY PodTypes
  <2>2. \/ got' = [got EXCEPT ![p] = Returned(log[p], Len(log[p]))] /\ read' = read \cup {p}
        \/ /\ \E n \in 0..Len(log[p]) : got' = [got EXCEPT ![p] = Returned(log[p], n)]
           /\ read' = read
    BY DEF CollectEvents
  <2> DEFINE Reads(n) == /\ got' = [got EXCEPT ![p] = Returned(log[p], n)]
                         /\ read' = read \/ (n = Len(log[p]) /\ read' = read \cup {p})
  <2>3. CASE got' = [got EXCEPT ![p] = Returned(log[p], Len(log[p]))] /\ read' = read \cup {p}
    <3>1. Reads(Len(log[p]))
      BY <2>3
    <3> QED  BY <2>1, <3>1
  <2>4. CASE /\ \E n \in 0..Len(log[p]) : got' = [got EXCEPT ![p] = Returned(log[p], n)]
             /\ read' = read
    <3>1. PICK n \in 0..Len(log[p]) : got' = [got EXCEPT ![p] = Returned(log[p], n)]
      BY <2>4
    <3>2. Reads(n)
      BY <2>4, <3>1
    <3> QED  BY <3>2
  <2> QED  BY <2>2, <2>3, <2>4
<1>4. /\ DOMAIN got = Pod /\ DOMAIN log[p] = 1..Len(log[p]) /\ Len(log[p]) \in Nat
      /\ \A i \in DOMAIN log[p] : log[p][i] \in LogLine
  BY <1>1, PodTypes DEF RunTyped
<1>5. got'[p] = Returned(log[p], n) /\ \A q \in Pod \ {p} : got'[q] = got[q]
  BY <1>3, <1>4
<1>6. /\ DOMAIN got'[p] = {i \in 1..n : SinceRunStart(log[p][i].ts)}
      /\ \A i \in DOMAIN got'[p] : got'[p][i] = log[p][i]
      /\ \A i \in DOMAIN got'[p] : i \in DOMAIN log[p] /\ i \in Nat
  BY <1>3, <1>4, <1>5 DEF Returned
<1>7. RunTyped'
  BY <1>1, <1>2, <1>3 DEF RunTyped, podVars
<1>8. Order'
  <2>1. read' \cap toRead' = {}
    BY <1>1, <1>3 DEF CollectEvents, Order
  <2> QED  BY <1>1, <1>2, <2>1 DEF Order, podVars, runVars
<1>9. ASSUME NEW q \in Pod, q # p PROVE PodInv(q)'
  <2>1. harms' \in Nat /\ harms' >= harms
    BY <1>1, <1>2 DEF podVars, RunTyped
  <2> QED  BY <1>2, <1>3, <1>5, <1>9, <2>1, Untouched DEF podVars
<1>10. PodInv(p)'
  <2>1. PodInv(p)
    BY DEF RunInv
  <2>2. FitsBound(p)' /\ Numbered(p)' /\ BreaksFirst(p)'
    <3>1. UNCHANGED <<log, held, conn, harms>>
      BY <1>2 DEF podVars
    <3>2. Owed(p)' = Owed(p)
      BY <3>1 DEF Owed
    <3>3. FitsBound(p)'
      BY <2>1, <3>1, <3>2 DEF PodInv, FitsBound
    <3>4. Numbered(p)' /\ BreaksFirst(p)'
      BY <2>1, <3>1 DEF PodInv, Numbered, BreaksFirst
    <3> QED  BY <3>3, <3>4
  <2>3. Excerpt(p)'
    BY <1>2, <1>4, <1>6 DEF Excerpt, podVars
  <2>4. WhollyRead(p)'
    <3>1. CASE n = Len(log[p])
      <4>1. ASSUME NEW i \in DOMAIN log[p], log[p][i].ts \in RunStart..(since - 1)
            PROVE  i \in DOMAIN got'[p]
        BY <1>4, <1>6, <3>1, <4>1 DEF SinceRunStart
      <4> QED  BY <1>2, <4>1 DEF WhollyRead, podVars
    <3>2. CASE read' = read
      <4>1. p \notin read
        BY <1>1 DEF CollectEvents, Order
      <4> QED  BY <3>2, <4>1 DEF WhollyRead
    <3> QED  BY <1>3, <3>1, <3>2
  <2>5. harms' = 0 => Harmless(log[p])' /\ Harmless(got[p])'
    BY <1>2, <1>6, <2>1 DEF PodInv, Harmless, podVars
  <2> QED  BY <2>2, <2>3, <2>4, <2>5 DEF PodInv
<1> QED  BY <1>7, <1>8, <1>9, <1>10 DEF RunInv

\* The invariant is inductive.
LEMMA RunInvNext == RunInv /\ [RunNext]_vars => RunInv'
<1> SUFFICES ASSUME RunInv, [RunNext]_vars PROVE RunInv'
  OBVIOUS
<1>1. CASE UNCHANGED vars
  <2>1. UNCHANGED <<clock, podVars, watchVars, runVars, ctxDone, collectVars>>
    BY <1>1 DEF vars
  <2>2. ASSUME NEW p \in Pod PROVE PodInv(p)'
    <3>1. harms' \in Nat /\ harms' >= harms
      BY <2>1 DEF podVars, RunInv, RunTyped
    <3> QED  BY <2>1, <3>1, Untouched DEF podVars, collectVars
  <2> QED  BY <2>1, <2>2 DEF RunInv, RunTyped, Order, podVars, watchVars, runVars, collectVars
<1>2. CASE RunStep
  BY <1>2, PhaseKeeps, CollectKeeps DEF RunStep
<1>3. ASSUME NEW p \in Pod, PodStep(p) PROVE RunInv'
  BY <1>3, LifeKeeps, BreakKeeps, RecoveryKeeps, FailureKeeps DEF PodStep
<1>4. CASE Drain \/ Second \/ Cancel
  BY <1>4, WorldKeeps
<1>5. CASE Done
  BY <1>1, <1>5 DEF Done
<1> QED  BY <1>1, <1>2, <1>3, <1>4, <1>5 DEF RunNext, World

\* What the proofs below use.
LEMMA RunInvariant == RunSpec => []RunInv
BY RunInvInit, RunInvNext, PTL DEF RunSpec

-----------------------------------------------------------------------------
(* The verdict of a run.                                                   *)
\* What AnalyzeRun gives the analyzer.
RunInput == [events |-> Collected, windows |-> windows, prereq |-> prereq]

\* Its events are the collected lines.
LEMMA CollectedAre ==
  ASSUME RunInv
  PROVE  /\ \A k \in DOMAIN Collected :
              /\ k[1] \in Pod /\ k[2] \in DOMAIN got[k[1]] /\ k = <<k[1], k[2]>>
              /\ Collected[k].kind = got[k[1]][k[2]].kind
              /\ Collected[k].ts = got[k[1]][k[2]].ts
              /\ Collected[k].conn = <<k[1], got[k[1]][k[2]].conn>>
         /\ \A p \in Pod : p \notin restarted =>
              \A i \in DOMAIN got[p] : <<p, i>> \in DOMAIN Collected
<1>1. \A p \in Pod : Excerpt(p) /\ FitsBound(p)
  BY DEF RunInv, PodInv
<1>2. DOMAIN Collected = {k \in Pod \X (1..LogBound) : k[2] \in DOMAIN got[k[1]]}
  BY DEF Collected
<1>3. ASSUME NEW k \in DOMAIN Collected
      PROVE  /\ k[1] \in Pod /\ k[2] \in DOMAIN got[k[1]] /\ k = <<k[1], k[2]>>
             /\ Collected[k].kind = got[k[1]][k[2]].kind
             /\ Collected[k].ts = got[k[1]][k[2]].ts
             /\ Collected[k].conn = <<k[1], got[k[1]][k[2]].conn>>
  <2>1. k[1] \in Pod /\ k[2] \in DOMAIN got[k[1]] /\ k = <<k[1], k[2]>>
    BY <1>2
  <2>2. got[k[1]][k[2]] \in LogLine
    BY <1>1, <2>1 DEF Excerpt
  <2>3. Collected[k] = [got[k[1]][k[2]] EXCEPT !.conn = <<k[1], @>>]
    BY <1>2 DEF Collected
  <2> QED  BY <2>1, <2>2, <2>3 DEF LogLine
<1>4. ASSUME NEW p \in Pod, p \notin restarted, NEW i \in DOMAIN got[p]
      PROVE  <<p, i>> \in DOMAIN Collected
  <2>1. i \in 1..Len(log[p]) /\ Len(log[p]) \in Nat
    BY <1>1, <1>4, PodTypes DEF Excerpt
  <2>2. Len(log[p]) <= 2 * harms + 2 /\ harms \in Nat /\ harms <= MaxHarm /\ MaxHarm \in Nat
    <3>1. Owed(p) \in 0..1
      BY DEF Owed
    <3>2. Len(log[p]) + Owed(p) <= 2 * harms + 2 /\ harms \in Nat /\ harms <= MaxHarm
      BY <1>1, PodTypes DEF FitsBound, Order
    <3> QED  BY <2>1, <3>1, <3>2, RunAssumption
  <2>3. i \in 1..LogBound
    BY <2>1, <2>2 DEF LogBound
  <2> QED  BY <1>2, <2>3
<1> QED  BY <1>3, <1>4

\* Without harm only drains at once are there to fail a run for.
LEMMA HarmlessPasses ==
  ASSUME RunInv, harms = 0, Verdict(RunInput) = "FAIL"
  PROVE  \E i, j \in DOMAIN windows : Overlapping(windows[i], windows[j])
<1> DEFINE inp == RunInput
<1>1. inp.events = Collected /\ inp.windows = windows
  BY DEF RunInput
<1> HIDE DEF inp
<1>2. ASSUME NEW kinds, "ConnReconnected" \notin kinds
      PROVE  OfKind(inp, kinds) = {}
  <2>1. ASSUME NEW k \in DOMAIN Collected PROVE Collected[k].kind = "ConnReconnected"
    <3>1. k[1] \in Pod /\ k[2] \in DOMAIN got[k[1]] /\ Collected[k].kind = got[k[1]][k[2]].kind
      BY CollectedAre
    <3>2. Harmless(got[k[1]]) /\ Excerpt(k[1])
      BY <3>1 DEF RunInv, PodInv
    <3> QED  BY <3>1, <3>2 DEF Harmless, Excerpt
  <2> QED  BY <1>1, <1>2, <2>1 DEF OfKind
<1>3. OfKind(inp, {"ConnReset"}) = {} /\ OfKind(inp, {"NewConnAttemptFail"}) = {}
  BY <1>2
<1>4. \A i : Attributed(inp, i) = {} /\ ConnsReset(inp, i) = {}
  BY <1>3 DEF Attributed, ConnsReset
<1>5. ResetTwice(inp) = {}
  BY <1>4 DEF ResetTwice
<1>6. Pool(inp)
  BY <1>4 DEF Pool, AllRecovered
<1>7. AllTimes(inp) = {}
  <2>1. \A i : RecoveryTimes(inp, i) = {}
    BY <1>4 DEF RecoveryTimes
  <2> QED  BY <2>1 DEF AllTimes
<1>8. Failing(inp)
  BY VerdictIs DEF inp
<1>9. \E i, j \in DOMAIN inp.windows : i < j /\ Overlapping(inp.windows[i], inp.windows[j])
  BY <1>3, <1>4, <1>5, <1>6, <1>7, <1>8 DEF Failing
<1> QED  BY <1>1, <1>9

\* A passed run whose logs were all read: no drop, and no death before the drain.
LEMMA PassSeesAll ==
  ASSUME RunInv, Verdict(RunInput) = "PASS", Complete,
         NEW p \in Pod, NEW i \in DOMAIN log[p], log[p][i].ts \in RunStart..(since - 1)
  PROVE  /\ windows # <<>> /\ <<p, i>> \in DOMAIN Collected
         /\ i \in DOMAIN got[p] /\ got[p][i] = log[p][i]
         /\ log[p][i].kind # "NewConnAttemptFail"
         /\ log[p][i].kind \in BreakKind =>
              \E w \in DOMAIN windows : log[p][i].ts >= windows[w].drainingAt - Eps
<1> DEFINE inp == RunInput
           k == <<p, i>>
<1>1. inp.events = Collected /\ inp.windows = windows
  BY DEF RunInput
<1> HIDE DEF inp
<1>2. ~Untrusted(inp) /\ ~Failing(inp)
  BY VerdictIs DEF inp
<1>3. windows # <<>> /\ Early(inp) = {} /\ OfKind(inp, {"NewConnAttemptFail"}) = {}
  BY <1>1, <1>2 DEF Untrusted, Failing
<1>4. p \in read /\ p \notin restarted
  BY DEF Complete
<1>5. WhollyRead(p) /\ Excerpt(p)
  BY DEF RunInv, PodInv
<1>6. i \in DOMAIN got[p] /\ got[p][i] = log[p][i]
  BY <1>4, <1>5 DEF WhollyRead, Excerpt
<1>7. k \in DOMAIN Collected
  BY <1>4, <1>6, CollectedAre
<1>8. Collected[k].kind = log[p][i].kind /\ Collected[k].ts = log[p][i].ts
  BY <1>6, <1>7, CollectedAre
<1> HIDE DEF k
<1>9. log[p][i].kind # "NewConnAttemptFail"
  BY <1>1, <1>3, <1>7, <1>8 DEF OfKind
<1>10. ASSUME log[p][i].kind \in BreakKind
       PROVE  \E w \in DOMAIN windows : log[p][i].ts >= windows[w].drainingAt - Eps
  <2>1. k \in OfKind(inp, BreakKind)
    BY <1>1, <1>7, <1>8, <1>10 DEF OfKind
  <2>2. ~BeforeDrain(log[p][i].ts, windows)
    BY <1>1, <1>3, <1>8, <2>1 DEF Early
  <2>3. PICK w \in DOMAIN windows : ~(log[p][i].ts < windows[w].drainingAt - Eps)
    BY <1>3, <2>2 DEF BeforeDrain
  <2>4. log[p][i].ts \in Nat /\ windows[w].drainingAt \in Nat
    BY SeqNumbers, PodTypes DEF Order
  <2>5. log[p][i].ts >= windows[w].drainingAt - Eps
    BY <2>3, <2>4, ToleranceAssumption
  <2> QED  BY <2>5
<1> QED  BY <1>3, <1>6, <1>7, <1>9, <1>10 DEF k

\* Every reset that it saw was in a window, and recovered in its bound.
LEMMA PassRecovers ==
  ASSUME RunInv, Verdict(RunInput) = "PASS", Complete,
         NEW p \in Pod, NEW i \in DOMAIN log[p], log[p][i].ts \in RunStart..(since - 1),
         log[p][i].kind = "ConnReset"
  PROVE  /\ \E w \in DOMAIN windows : Contains(windows[w], log[p][i].ts)
         /\ RecoveredInLog(p, i)
<1> DEFINE inp == RunInput
           k == <<p, i>>
           n == log[p][i].conn
           t == log[p][i].ts
           c == <<p, n>>
           a == AttributeReset(t, windows)
<1>1. inp.events = Collected /\ inp.windows = windows
  BY DEF RunInput
<1> HIDE DEF inp
<1>2. ~Untrusted(inp) /\ ~Failing(inp)
  BY VerdictIs DEF inp
<1>3. /\ Early(inp) = {} /\ Attributed(inp, 0) = {} /\ Pool(inp)
      /\ \A s \in AllTimes(inp) : ~(s > RecoveryBound)
  BY <1>2 DEF Untrusted, Failing
<1>4. /\ windows # <<>> /\ k \in DOMAIN Collected /\ i \in DOMAIN got[p] /\ got[p][i] = log[p][i]
  BY PassSeesAll
<1>5. /\ Collected[k].kind = "ConnReset" /\ Collected[k].ts = t /\ Collected[k].conn = c
      /\ t \in Nat /\ n \in Nat
  <2>1. k[1] = p /\ k[2] = i
    OBVIOUS
  <2>2. /\ Collected[k].kind = got[p][i].kind /\ Collected[k].ts = got[p][i].ts
        /\ Collected[k].conn = <<p, got[p][i].conn>>
    <3> HIDE DEF k
    <3> QED  BY <1>4, <2>1, CollectedAre
  <2>3. t \in Nat /\ n \in Nat
    BY PodTypes
  <2> QED  BY <1>4, <2>2, <2>3
<1>6. p \notin restarted
  BY DEF Complete
<1>7. ASSUME NEW l \in DOMAIN Collected, Collected[l].conn = c
      PROVE  /\ l = <<p, l[2]>> /\ l[2] \in DOMAIN log[p]
             /\ log[p][l[2]].kind = Collected[l].kind /\ log[p][l[2]].ts = Collected[l].ts
             /\ log[p][l[2]].conn = n
  <2>1. /\ l[1] \in Pod /\ l[2] \in DOMAIN got[l[1]] /\ l = <<l[1], l[2]>>
        /\ Collected[l].kind = got[l[1]][l[2]].kind /\ Collected[l].ts = got[l[1]][l[2]].ts
        /\ <<l[1], got[l[1]][l[2]].conn>> = c
    BY <1>7, CollectedAre
  <2>2. l[1] = p /\ got[p][l[2]].conn = n
    BY <2>1
  <2>3. Excerpt(p)
    BY DEF RunInv, PodInv
  <2> QED  BY <1>6, <2>1, <2>2, <2>3 DEF Excerpt
<1>8. BreaksFirst(p)
  BY DEF RunInv, PodInv
<1> HIDE DEF k, n, t, c
<1>9. k \in OfKind(inp, {"ConnReset"}) \ Early(inp)
  BY <1>1, <1>3, <1>4, <1>5 DEF OfKind
<1>10. a # 0
  BY <1>1, <1>3, <1>5, <1>9 DEF Attributed
<1>11. a \in DOMAIN windows /\ Contains(windows[a], t)
  <2>1. windows \in Seq(Window)
    BY PodTypes DEF Order
  <2> QED  BY <1>5, <1>10, <2>1, LatestHolding DEF Holding
<1>12. k \in Attributed(inp, a) /\ c \in ConnsReset(inp, a)
  BY <1>1, <1>5, <1>9 DEF Attributed, ConnsReset
<1> HIDE DEF a
<1>13. ResetTS(inp, a, c) = t
  <2> DEFINE K == {l \in Attributed(inp, a) : inp.events[l].conn = c}
  <2>1. ASSUME NEW l \in K PROVE l = k
    <3>1. l \in DOMAIN Collected /\ Collected[l].kind = "ConnReset" /\ Collected[l].conn = c
      BY <1>1 DEF Attributed, OfKind
    <3>2. l = <<p, l[2]>> /\ l[2] \in DOMAIN log[p] /\ log[p][l[2]].kind = "ConnReset" /\ log[p][l[2]].conn = n
      BY <1>7, <3>1
    <3>3. l[2] = i
      BY <1>8, <3>2 DEF BreaksFirst, BreakKind, n
    <3> QED  BY <3>2, <3>3 DEF k
  <2>2. k \in K
    BY <1>1, <1>5, <1>12
  <2>3. K = {k}
    BY <2>1, <2>2
  <2> HIDE DEF K
  <2>4. TsOf(inp, K) = {t}
    BY <1>1, <1>5, <2>3 DEF TsOf
  <2> QED  BY <1>5, <2>4, OfOne DEF ResetTS, K
<1>14. RecoveredIn(inp, a, c)
  BY <1>1, <1>3, <1>11, <1>12 DEF Pool, AllRecovered
<1> DEFINE R == Reconnects(inp, c)
<1>15. ASSUME NEW m \in R
       PROVE  \E j \in DOMAIN log[p] : /\ log[p][j].kind = "ConnReconnected" /\ log[p][j].conn = n
                                       /\ log[p][j].ts = m /\ i < j
  <2>1. PICK l \in OfKind(inp, {"ConnReconnected"}) : inp.events[l].conn = c /\ inp.events[l].ts = m
    BY <1>15 DEF Reconnects, TsOf
  <2>2. l \in DOMAIN Collected /\ Collected[l].kind = "ConnReconnected" /\ Collected[l].conn = c
        /\ Collected[l].ts = m
    BY <1>1, <2>1 DEF OfKind
  <2>3. l[2] \in DOMAIN log[p] /\ log[p][l[2]].kind = "ConnReconnected" /\ log[p][l[2]].ts = m
        /\ log[p][l[2]].conn = n
    BY <1>7, <2>2
  <2>4. i < l[2]
    BY <1>8, <2>3 DEF BreaksFirst, BreakKind, n
  <2> QED  BY <2>3, <2>4
<1>16. R # {} /\ R \in SUBSET Nat
  <2>1. \A m \in R : m \in Nat
    BY <1>15, PodTypes
  <2> QED  BY <1>14, <2>1 DEF RecoveredIn
<1> HIDE DEF R
<1>17. Min(R) \in R
  <2>1. \E m \in R : \A x \in R : m <= x
    BY <1>16, Least
  <2> QED  BY <2>1 DEF Min
<1>18. Min(R) - t \in AllTimes(inp)
  <2>1. Min(R) - t \in RecoveryTimes(inp, a)
    BY <1>12, <1>13, <1>14 DEF RecoveryTimes, R
  <2> QED  BY <1>1, <1>11, <2>1 DEF AllTimes
<1>19. Min(R) - t <= RecoveryBound
  <2>1. Min(R) \in Nat
    BY <1>16, <1>17
  <2>2. ~(Min(R) - t > RecoveryBound)
    BY <1>3, <1>18
  <2> QED  BY <1>5, <2>1, <2>2, ToleranceAssumption
<1>20. RecoveredInLog(p, i)
  <2>1. PICK j \in DOMAIN log[p] : /\ log[p][j].kind = "ConnReconnected" /\ log[p][j].conn = n
                                   /\ log[p][j].ts = Min(R) /\ i < j
    BY <1>15, <1>17 DEF R
  <2> QED  BY <1>19, <2>1 DEF RecoveredInLog, n, t
<1> QED  BY <1>11, <1>20 DEF t

-----------------------------------------------------------------------------
\* Only the last statement of a run gives a verdict.
LEMMA JudgedLast ==
  ASSUME RunInv, [RunNext]_vars
  PROVE  \/ UNCHANGED vars
         \/ verdict' = Nil
         \/ /\ verdict' = Verdict(RunInput)
            /\ UNCHANGED <<clock, podVars, watchVars, prereq, collectVars>>
<1>1. CASE UNCHANGED vars \/ Done
  BY <1>1 DEF Done
<1>2. CASE AnalyzeRun
  BY <1>2 DEF AnalyzeRun, RunInput
<1>3. ASSUME phase # "done", verdict' = verdict
      PROVE  verdict' = Nil
  BY <1>3 DEF RunInv, Order
<1>4. CASE WaitProbesReady \/ FireTrigger \/ ObservationEnds \/ ListPods
           \/ \E p \in Pod : CollectEvents(p)
  <2>1. phase # "done" /\ verdict' = verdict
    BY <1>4 DEF WaitProbesReady, FireTrigger, ObservationEnds, ListPods, CollectEvents,
                runVars
  <2> QED  BY <1>3, <2>1
<1>5. CASE Collecting /\ World
  <2>1. verdict' = verdict
    <3>1. ASSUME NEW p \in Pod, PodStep(p) PROVE UNCHANGED runVars
      BY <3>1 DEF PodStep, Starts, Connects, Breaks, Recovers, AttemptFails, Crashes, Restarts,
                  OthersUnchanged
    <3>2. ASSUME Drain \/ Second \/ Cancel PROVE UNCHANGED runVars
      BY <3>2 DEF Drain, Second, Cancel
    <3> QED  BY <1>5, <3>1, <3>2 DEF World, runVars
  <2> QED  BY <1>3, <1>5, <2>1 DEF Collecting
<1> QED  BY <1>1, <1>2, <1>4, <1>5 DEF RunNext, RunStep

(* A run in which nothing failed, nothing broke and no two nodes drained   *)
(* at once is never judged FAIL, whatever earlier runs left in the logs    *)
(* that it reads (SinceTime), for any number of pods and of nodes.         *)
THEOREM QuietRunNotFailed == RunSpec => []NoFalseAlarm
<1>1. RunInit => NoFalseAlarm
  BY DEF RunInit, NoFalseAlarm, Nil
<1>2. NoFalseAlarm /\ RunInv /\ [RunNext]_vars => NoFalseAlarm'
  <2> SUFFICES ASSUME NoFalseAlarm, RunInv, [RunNext]_vars PROVE NoFalseAlarm'
    OBVIOUS
  <2>1. harms \in Nat /\ harms' \in Nat
    BY RunInvNext DEF RunInv, RunTyped
  <2>2. ASSUME verdict' = "FAIL", harms' = 0
        PROVE  windows' = windows /\ \E i, j \in DOMAIN windows : Overlapping(windows[i], windows[j])
    <3>1. CASE UNCHANGED vars
      <4>1. verdict = "FAIL" /\ harms = 0 /\ windows' = windows
        BY <2>2, <3>1 DEF vars, podVars, runVars, watchVars
      <4> QED  BY <2>1, <4>1 DEF NoFalseAlarm
    <3>2. CASE verdict' = Verdict(RunInput) /\ UNCHANGED <<podVars, watchVars>>
      <4>1. Verdict(RunInput) = "FAIL" /\ harms = 0 /\ windows' = windows
        BY <2>2, <3>2 DEF podVars, watchVars
      <4> QED  BY <4>1, HarmlessPasses
    <3> QED  BY <2>2, <3>1, <3>2, JudgedLast DEF Nil
  <2> QED  BY <2>1, <2>2 DEF NoFalseAlarm, Overlapping, Earlier, Later
<1> QED  BY <1>1, <1>2, RunInvariant, PTL DEF RunSpec

(* A PASS over logs that were all read to their end hides no drop: what    *)
(* happened between the start of the run and the collection was a roll's   *)
(* resets, each inside a window and recovered within the bound, or the FIN *)
(* of a connection not before the first drain; and a roll was seen.        *)
THEOREM PassIsComplete == RunSpec => []CompletePass
<1>1. RunInit => CompletePass
  BY DEF RunInit, CompletePass, Nil
<1>2. CompletePass /\ RunInv /\ [RunNext]_vars => CompletePass'
  <2> SUFFICES ASSUME CompletePass, RunInv, [RunNext]_vars PROVE CompletePass'
    OBVIOUS
  <2>1. CASE UNCHANGED vars
    <3>1. UNCHANGED <<verdict, read, restarted, windows, prereq, log, since>>
      BY <2>1 DEF vars, podVars, runVars, watchVars, collectVars
    <3> QED  BY <3>1 DEF CompletePass, Complete, RecoveredInLog, Contains
  <2>2. CASE verdict' = Nil
    BY <2>2 DEF CompletePass, Nil
  <2>3. CASE /\ verdict' = Verdict(RunInput)
             /\ UNCHANGED <<clock, podVars, watchVars, prereq, collectVars>>
    <3>1. UNCHANGED <<read, restarted, windows, prereq, log, since>>
      BY <2>3 DEF podVars, watchVars, collectVars
    <3>2. ASSUME Verdict(RunInput) = "PASS", Complete
          PROVE  /\ windows # <<>> /\ ~prereq
                 /\ \A p \in Pod : \A i \in DOMAIN log[p] :
                      log[p][i].ts \in RunStart..(since - 1) =>
                        /\ log[p][i].kind # "NewConnAttemptFail"
                        /\ log[p][i].kind = "ConnReset" =>
                             /\ \E w \in DOMAIN windows : Contains(windows[w], log[p][i].ts)
                             /\ RecoveredInLog(p, i)
                        /\ log[p][i].kind = "ConnEOF" =>
                             \E w \in DOMAIN windows : log[p][i].ts >= windows[w].drainingAt - Eps
      <4>1. ~Untrusted(RunInput)
        BY <3>2, VerdictIs
      <4>2. windows # <<>> /\ ~prereq
        BY <4>1 DEF Untrusted, RunInput
      <4>3. ASSUME NEW p \in Pod, NEW i \in DOMAIN log[p], log[p][i].ts \in RunStart..(since - 1)
            PROVE  /\ log[p][i].kind # "NewConnAttemptFail"
                   /\ log[p][i].kind \in BreakKind =>
                        \E w \in DOMAIN windows : log[p][i].ts >= windows[w].drainingAt - Eps
                   /\ log[p][i].kind = "ConnReset" =>
                        /\ \E w \in DOMAIN windows : Contains(windows[w], log[p][i].ts)
                        /\ RecoveredInLog(p, i)
        BY <3>2, <4>3, PassSeesAll, PassRecovers
      <4>4. "ConnEOF" \in BreakKind
        BY DEF BreakKind
      <4> QED  BY <4>2, <4>3, <4>4
    <3> QED  BY <2>3, <3>1, <3>2 DEF CompletePass, Complete, RecoveredInLog, Contains
  <2> QED  BY <2>1, <2>2, <2>3, JudgedLast
<1> QED  BY <1>1, <1>2, RunInvariant, PTL DEF RunSpec
=============================================================================
