------------------------- MODULE DrainScenarioProofs -------------------------
(***************************************************************************)
(* The drain scenario leaves nothing behind and proves no zero-drop over a *)
(* reset it saw, for any number of Applications, any of them healing, any  *)
(* number of failing calls, and any signal.                                *)
(*                                                                         *)
(* First RunRolloutRestart alone, on which the scenario is built: for every *)
(* mix of signals, API failures and healing by demo-root an Application    *)
(* left mutated is reported, unless the signal goroutine woke before the   *)
(* disable ended.  Then the script of the scenario.                        *)
(*                                                                         *)
(* The inductive invariant places every fact in the script: Pos is the     *)
(* place of the next command, and what the script has recorded, done and   *)
(* can still undo is stated for the places before and after it.            *)
(***************************************************************************)
EXTENDS DrainScenario, TLAPS, SequenceTheorems, FiniteSetTheorems

-----------------------------------------------------------------------------
(* The trigger: RolloutRestart.                                            *)
\* Until the restart is issued the DaemonSet has not rolled; the restart rolls
\* it once and the revert of its annotation at most once more.
RollCount ==
  /\ main \in {"read", "arm", "disable", "restart"} => rolls = 0 /\ ~annotated
  /\ annotated => rolls \in 0..1

\* The signal goroutine exists after Arm only; it is early or late for good.
HandlerOrder ==
  /\ main \in {"read", "arm"} => handler = "unarmed"
  /\ early => handler \in {"restore", "exited"}

\* No restore is under way before the disable has ended.
RestoreAfterDisable ==
  ~early /\ main \in {"read", "arm", "disable"} =>
    once = "free" /\ handler \in {"unarmed", "waiting"}

\* What the Once memoised is the truth about selfHeal, which only the disable
\* could spoil.
RestoreHolds == ~early /\ once = "done" /\ ~restoreErr /\ prev => selfHeal

\* What is returned and what is told come from the memoised result.
Reported ==
  /\ ret = "ok" => once = "done" /\ ~restoreErr
                     /\ main \in {"defer", "unarm", "observe", "end"}
  /\ main \in {"defer", "unarm", "observe", "end"} => ret # "none"
  /\ handler = "exited" => once = "done" /\ told = restoreErr

IInv ==
  /\ TypeOK /\ RollCount /\ HandlerOrder /\ RestoreAfterDisable
  /\ RestoreHolds /\ Reported

Order == HandlerOrder /\ RestoreAfterDisable /\ RestoreHolds /\ Reported

Control == Locations /\ Flags /\ Order

Counts == rolls \in 0..2 /\ RollCount

\* The control can be proved apart from the count of the rolls.
LEMMA Split == IInv <=> Control /\ Counts
  BY DEF IInv, Control, Order, Counts, TypeOK

\* It holds at first.
LEMMA IInvInit == Init => IInv
<1>1. Init => Locations /\ Flags
  BY DEF Init, Locations, Flags
<1>3. Init => Order
  BY DEF Init, Order, HandlerOrder, RestoreAfterDisable, RestoreHolds, Reported
<1>2. Init => Counts
  BY DEF Init, Counts, RollCount
<1> QED  BY <1>1, <1>2, <1>3, Split DEF Control

(* The flags stay booleans.                                                *)
LEMMA FlagsNext == Flags /\ [Next]_vars => Flags'
<1> SUFFICES ASSUME Flags, [Next]_vars PROVE Flags'
  OBVIOUS
<1> USE DEF Flags, procVars, sigVars, onceVars, clusterVars
<1>1. CASE Main
  <2>1. CASE Restart
    BY <2>1 DEF Restart, Annotate, Succeeds, Fails, Return
  <2>2. CASE Read
    BY <2>2 DEF Read, Succeeds, Fails, Return
  <2>3. CASE Arm \/ Confirm \/ Deferred \/ Unarm \/ Observe
    BY <2>3 DEF Arm, Confirm, Deferred, Unarm, Observe, Return
  <2>4. CASE Disable
    BY <2>4 DEF Disable, Succeeds, Fails, SetSelfHeal, Return
  <2>5. CASE EnterOnce("main")
    BY <2>5 DEF EnterOnce
  <2>6. CASE RunOnce("main")
    BY <2>6 DEF RunOnce, Succeeds, Fails, SetSelfHeal
  <2> QED  BY <1>1, <2>1, <2>2, <2>3, <2>4, <2>5, <2>6 DEF Main
<1>2. CASE Handler
  <2>1. CASE Wake
    BY <2>1 DEF Wake
  <2>2. CASE Exit \/ EnterOnce("handler")
    BY <2>2 DEF Exit, EnterOnce
  <2>3. CASE RunOnce("handler")
    BY <2>3 DEF RunOnce, Succeeds, Fails, SetSelfHeal
  <2> QED  BY <1>2, <2>1, <2>2, <2>3 DEF Handler
<1>3. CASE Signal
  BY <1>3 DEF Signal
<1>4. CASE Cancel
  BY <1>4 DEF Cancel
<1>5. CASE RootHeal
  BY <1>5 DEF RootHeal
<1>6. CASE MeshHeal
  BY <1>6 DEF MeshHeal
<1>7. CASE UNCHANGED vars
  BY <1>7 DEF vars
<1> QED
  BY <1>1, <1>2, <1>3, <1>4, <1>5, <1>6, <1>7 DEF Next, Terminated

(* The goroutines stay at the locations of the code.                       *)
LEMMA LocationsNext == Locations /\ [Next]_vars => Locations'
<1> SUFFICES ASSUME Locations, [Next]_vars PROVE Locations'
  OBVIOUS
<1> USE DEF Locations, procVars, sigVars, onceVars, clusterVars
<1>1. CASE Main
  <2>1. CASE Restart
    BY <2>1 DEF Restart, Annotate, Succeeds, Fails, Return
  <2>2. CASE Read
    BY <2>2 DEF Read, Succeeds, Fails, Return
  <2>3. CASE Arm \/ Confirm \/ Deferred \/ Unarm \/ Observe
    BY <2>3 DEF Arm, Confirm, Deferred, Unarm, Observe, Return
  <2>4. CASE Disable
    BY <2>4 DEF Disable, Succeeds, Fails, SetSelfHeal, Return
  <2>5. CASE EnterOnce("main")
    BY <2>5 DEF EnterOnce
  <2>6. CASE RunOnce("main")
    BY <2>6 DEF RunOnce, Succeeds, Fails, SetSelfHeal
  <2> QED  BY <1>1, <2>1, <2>2, <2>3, <2>4, <2>5, <2>6 DEF Main
<1>2. CASE Handler
  <2>1. CASE Wake
    BY <2>1 DEF Wake
  <2>2. CASE Exit \/ EnterOnce("handler")
    BY <2>2 DEF Exit, EnterOnce
  <2>3. CASE RunOnce("handler")
    BY <2>3 DEF RunOnce, Succeeds, Fails, SetSelfHeal
  <2> QED  BY <1>2, <2>1, <2>2, <2>3 DEF Handler
<1>3. CASE Signal \/ Cancel \/ RootHeal
  BY <1>3 DEF Signal, Cancel, RootHeal
<1>4. CASE MeshHeal
  BY <1>4 DEF MeshHeal
<1>5. CASE UNCHANGED vars
  BY <1>5 DEF vars
<1> QED
  BY <1>1, <1>2, <1>3, <1>4, <1>5 DEF Next, Terminated

(* The order of the goroutines, and what the Once memoised.                *)
LEMMA OrderNext == Control /\ [Next]_vars => Order'
<1> SUFFICES ASSUME Control, [Next]_vars PROVE Order'
  OBVIOUS
<1> USE FlagAssumption
    DEF Control, Order, Locations, Flags, HandlerOrder, RestoreAfterDisable, RestoreHolds,
        Reported, procVars, sigVars, onceVars, clusterVars, Succeeds, Fails, Return
<1>1. CASE Main
  <2>1. CASE Read
    BY <2>1 DEF Read
  <2>2. CASE Arm
    BY <2>2 DEF Arm
  <2>3. CASE Disable
    <3>1. HandlerOrder'
      BY <2>3 DEF Disable, SetSelfHeal
    <3>2. RestoreAfterDisable'
      BY <2>3 DEF Disable, SetSelfHeal
    <3>3. RestoreHolds'
      BY <2>3 DEF Disable, SetSelfHeal
    <3>4. Reported'
      BY <2>3 DEF Disable, SetSelfHeal
    <3> QED  BY <3>1, <3>2, <3>3, <3>4 DEF Order
  <2>4. CASE Restart
    <3>1. HandlerOrder'
      BY <2>4 DEF Restart, Annotate
    <3>2. RestoreAfterDisable'
      BY <2>4 DEF Restart, Annotate
    <3>3. RestoreHolds'
      BY <2>4 DEF Restart, Annotate
    <3>4. Reported'
      BY <2>4 DEF Restart, Annotate
    <3> QED  BY <3>1, <3>2, <3>3, <3>4 DEF Order
  <2>5. CASE Confirm
    BY <2>5 DEF Confirm
  <2>6. CASE Deferred
    BY <2>6 DEF Deferred
  <2>7. CASE Unarm
    BY <2>7 DEF Unarm
  <2>8. CASE Observe
    BY <2>8 DEF Observe
  <2>9. CASE main \in {"confirm", "defer"} /\ EnterOnce("main")
    BY <2>9 DEF EnterOnce
  <2>10. CASE RunOnce("main")
    <3>1. HandlerOrder'
      BY <2>10 DEF RunOnce, SetSelfHeal
    <3>2. RestoreAfterDisable'
      BY <2>10 DEF RunOnce, SetSelfHeal
    <3>3. RestoreHolds'
      BY <2>10 DEF RunOnce, SetSelfHeal
    <3>4. Reported'
      BY <2>10 DEF RunOnce, SetSelfHeal
    <3> QED  BY <3>1, <3>2, <3>3, <3>4 DEF Order
  <2> QED
    BY <1>1, <2>1, <2>2, <2>3, <2>4, <2>5, <2>6, <2>7, <2>8, <2>9, <2>10 DEF Main
<1>2. CASE Handler
  <2>1. CASE Wake
    <3>1. HandlerOrder'
      BY <2>1 DEF Wake
    <3>2. RestoreAfterDisable'
      BY <2>1 DEF Wake
    <3>3. RestoreHolds'
      BY <2>1 DEF Wake
    <3>4. Reported'
      BY <2>1 DEF Wake
    <3> QED  BY <3>1, <3>2, <3>3, <3>4 DEF Order
  <2>2. CASE Exit
    BY <2>2 DEF Exit
  <2>3. CASE handler = "restore" /\ EnterOnce("handler")
    BY <2>3 DEF EnterOnce
  <2>4. CASE RunOnce("handler")
    <3>1. HandlerOrder'
      BY <2>4 DEF RunOnce, SetSelfHeal
    <3>2. RestoreAfterDisable'
      BY <2>4 DEF RunOnce, SetSelfHeal
    <3>3. RestoreHolds'
      BY <2>4 DEF RunOnce, SetSelfHeal
    <3>4. Reported'
      BY <2>4 DEF RunOnce, SetSelfHeal
    <3> QED  BY <3>1, <3>2, <3>3, <3>4 DEF Order
  <2> QED  BY <1>2, <2>1, <2>2, <2>3, <2>4 DEF Handler
<1>3. CASE Signal
  BY <1>3 DEF Signal
<1>4. CASE Cancel
  BY <1>4 DEF Cancel
<1>5. CASE RootHeal
  BY <1>5 DEF RootHeal
<1>6. CASE MeshHeal
  <2>1. HandlerOrder'
    BY <1>6 DEF MeshHeal
  <2>2. RestoreAfterDisable'
    BY <1>6 DEF MeshHeal
  <2>3. RestoreHolds'
    BY <1>6 DEF MeshHeal
  <2>4. Reported'
    BY <1>6 DEF MeshHeal
  <2> QED  BY <2>1, <2>2, <2>3, <2>4 DEF Order
<1>7. CASE UNCHANGED vars
  BY <1>7 DEF vars
<1> QED
  BY <1>1, <1>2, <1>3, <1>4, <1>5, <1>6, <1>7 DEF Next, Terminated

\* Every step keeps the control in order.
LEMMA ControlNext == Control /\ [Next]_vars => Control'
  BY FlagsNext, LocationsNext, OrderNext DEF Control

(* The rolls: the restart happens once, and its annotation is reverted once. *)
LEMMA CountsNext == Control /\ Counts /\ [Next]_vars => Counts'
<1> SUFFICES ASSUME Control, Counts, [Next]_vars PROVE Counts'
  OBVIOUS
<1> USE DEF Counts, RollCount, procVars, sigVars, onceVars, clusterVars
<1>1. CASE Main
  <2>1. CASE Restart
    BY <2>1 DEF Restart, Annotate, Succeeds, Fails
  <2>2. CASE Read \/ Arm \/ Confirm \/ Deferred \/ Unarm \/ Observe
    BY <2>2 DEF Read, Arm, Confirm, Deferred, Unarm, Observe
  <2>3. CASE Disable
    BY <2>3 DEF Disable, Succeeds, Fails, SetSelfHeal
  <2>4. CASE EnterOnce("main")
    BY <2>4 DEF EnterOnce
  <2>5. CASE RunOnce("main")
    BY <2>5 DEF RunOnce, Succeeds, Fails, SetSelfHeal
  <2> QED  BY <1>1, <2>1, <2>2, <2>3, <2>4, <2>5 DEF Main
<1>2. CASE Handler
  <2>1. CASE Wake \/ Exit \/ EnterOnce("handler")
    BY <2>1 DEF Wake, Exit, EnterOnce
  <2>2. CASE RunOnce("handler")
    BY <2>2 DEF RunOnce, Succeeds, Fails, SetSelfHeal
  <2> QED  BY <1>2, <2>1, <2>2 DEF Handler
<1>3. CASE Signal \/ Cancel \/ RootHeal
  BY <1>3 DEF Signal, Cancel, RootHeal
<1>4. CASE MeshHeal
  BY <1>4 DEF MeshHeal
<1>5. CASE UNCHANGED vars
  BY <1>5 DEF vars
<1> QED
  BY <1>1, <1>2, <1>3, <1>4, <1>5 DEF Next, Terminated

\* Every step keeps the invariant.
LEMMA IInvNext == IInv /\ [Next]_vars => IInv'
<1>1. Control' /\ Counts' => IInv'
  BY DEF IInv, Control, Order, Counts, TypeOK
<1> QED  BY <1>1, ControlNext, CountsNext, Split

(* The goroutines, the Once and the cluster keep their types; the DaemonSet *)
(* rolls twice at most.                                                     *)
THEOREM TypeCorrect == Spec => []TypeOK
<1>1. IInv => TypeOK
  BY DEF IInv
<1> QED  BY IInvInit, IInvNext, <1>1, PTL DEF Spec

\* What the invariant says of a process that ended.
LEMMA ReportedHolds == IInv => MutationIsReported
<1> SUFFICES ASSUME IInv, ~early
             PROVE  /\ ret = "ok" => ~Mutated
                    /\ Ended /\ Mutated => ret = "err" \/ told
  BY DEF MutationIsReported
<1>1. once = "done" /\ ~restoreErr => ~Mutated
  BY DEF IInv, RestoreHolds, Mutated
<1>2. ret = "ok" => ~Mutated
  BY <1>1 DEF IInv, Reported
<1>3. main = "end" /\ Mutated => ret = "err"
  BY <1>2 DEF IInv, Reported, TypeOK, Locations
<1>4. handler = "exited" /\ Mutated => told
  BY <1>1 DEF IInv, Reported, TypeOK, Flags
<1> QED  BY <1>2, <1>3, <1>4 DEF Ended

(* trigger_rollout.go:60-100: whatever the signal, the API and ArgoCD do, a *)
(* trigger reported as fired has put selfHeal back, and a process that ends *)
(* with the Application mutated has returned an error or asked for a repair *)
(* - unless the signal found it still disabling.                            *)
THEOREM MutationReported == Spec => []MutationIsReported
BY IInvInit, IInvNext, ReportedHolds, PTL DEF Spec

-----------------------------------------------------------------------------
(* The scenario: DrainScenario.                                            *)
\* What a sequence holds.
Elements(s) == {s[i] : i \in 1..Len(s)}

\* The script has Last commands for N Applications.
N == Len(Apps)
Last == 9 + 3 * N

\* The verb of the command at each place of the script.
Verb(k) ==
  IF k = 1 THEN "resolve" ELSE IF k = 2 THEN "cordon" ELSE IF k = 3 THEN "mark"
  ELSE IF k <= 3 + N THEN "snapshot" ELSE IF k <= 3 + 2 * N THEN "suspend"
  ELSE IF k = 4 + 2 * N THEN "deploys" ELSE IF k <= 4 + 3 * N THEN "scale"
  ELSE IF k = 5 + 3 * N THEN "wait" ELSE IF k = 6 + 3 * N THEN "remaining"
  ELSE IF k = 7 + 3 * N THEN "measure" ELSE IF k = 8 + 3 * N THEN "assert"
  ELSE "report"

\* Commands of the script and calls of restore().
Verbs == {"resolve", "cordon", "mark", "snapshot", "suspend", "deploys", "scale", "wait",
          "remaining", "measure", "assert", "report", "heal", "uncordon"}

Command == {<<v>> : v \in Verbs} \cup (Verbs \X AppSet)

\* The places of three commands, and where the script is: the place of the next
\* command, or one past the last.
ListPlace == 4 + 2 * N
MeasurePlace == 7 + 3 * N
AssertPlace == 8 + 3 * N
Pos == Last + 1 - Len(script)

Where ==
  /\ Pos \in 1..(Last + 1) /\ Len(script) \in Nat
  /\ script = SubSeq(Program, Pos, Last)

RestoreCommand == ({"scale", "heal"} \X AppSet) \cup {<<"uncordon">>}

\* The types the invariant needs.
DrainTypeOK ==
  /\ todo \in Seq(RestoreCommand)
  /\ exiting \in BOOLEAN /\ failed \in BOOLEAN
  /\ marked \in BOOLEAN /\ cordoned \in BOOLEAN
  /\ snap \in [AppSet -> {"", "true", "false"}] /\ heals \in [AppSet -> {"true", "false"}]
  /\ deploys \subseteq AppSet /\ replicas \in [AppSet -> {0, 1}]
  /\ pod \in [AppSet -> {"up", "terminating", "gone"}]
  /\ hit \subseteq AppSet

\* A cordoned node is marked, or about to be, or the script died over it.
Cordoned == cordoned => marked \/ Pos = 3 \/ <<"uncordon">> \in lost

\* Only what is in DRAIN_DEPLOYS is scaled to 0, and after the list that is
\* everything.
Scaled ==
  /\ Pos <= ListPlace => \A a \in AppSet : replicas[a] = 1
  /\ ListPlace < Pos /\ Pos <= Last => deploys = AppSet
  /\ \A a \in AppSet : replicas[a] = 0 => a \in deploys

\* The snapshots come before the first suspension, so the one of a healing
\* Application says so.
Snapped ==
  /\ \A i \in 1..N : 3 + i < Pos /\ Pos <= Last => snap[Apps[i]] # ""
  /\ \A a \in AppSet \cap Healing :
       /\ snap[a] # "false"
       /\ Pos <= 3 + N => heals[a] = "true"
       /\ heals[a] = "false" => snap[a] # ""

\* What the EXIT trap has left to restore is in a call to come, or was lost.
Pending(call) == call \in Elements(todo) \/ call \in lost

Leaving ==
  exiting =>
    /\ script = <<>>
    /\ cordoned => Pending(<<"uncordon">>)
    /\ \A a \in AppSet :
         /\ replicas[a] = 0 => Pending(<<"scale", a>>)
         /\ heals[a] = "false" /\ a \in Healing => Pending(<<"heal", a>>)

\* No pod is on the target when the measurement starts, and one that comes back
\* during it stays: the log of a pod that was hit is still there.
Rolled ==
  /\ hit = logged
  /\ Pos # MeasurePlace => hit = {}
  /\ Pos = MeasurePlace =>
       \A a \in AppSet : pod[a] = "gone" \/ (pod[a] = "up" /\ replicas[a] = 1)

\* A script that got past its assertions without a failure has read no reset.
Judged ==
  /\ results.fresh /\ results.complete /\ results.resets = 0 => ~results.harm
  /\ Pos > AssertPlace /\ ~failed => results.resets = 0

\* The harness process, until the measurement is over; then nothing is left of it.
Cleared ==
  /\ main = "end" /\ handler = "unarmed" /\ ret = "none" /\ once = "free"
  /\ told = FALSE /\ early = FALSE /\ prev = FALSE /\ restoreErr = FALSE
  /\ signalled = FALSE /\ caught = FALSE /\ ctxDone = FALSE /\ annotated = FALSE
  /\ rolls = 0 /\ selfHeal \in BOOLEAN

Process == (Pos <= MeasurePlace => IInv) /\ (IInv \/ Cleared)

\* The inductive invariant.
DrainIInv ==
  /\ Where /\ DrainTypeOK /\ Cordoned /\ Scaled /\ Snapped /\ Leaving
  /\ Rolled /\ Judged /\ Process

-----------------------------------------------------------------------------
\* The Applications, and where each command stands in the script.
LEMMA AppsAre ==
  /\ N \in Nat /\ DOMAIN Apps = 1..N /\ AppSet = {Apps[i] : i \in 1..N}
  /\ \A i \in 1..N : Apps[i] \in AppSet
BY AppsAssumption, LenProperties, ElementOfSeq DEF N, AppSet, Range

\* There are as many Applications as a number says.
LEMMA CountIsNat == N \in Nat
BY AppsAre

\* A verb is a command, alone or with an Application.
LEMMA VerbIsCommand ==
  \A v \in Verbs : <<v>> \in Command /\ \A a \in AppSet : <<v, a>> \in Command
BY DEF Command

\* One command for each Application, in their order.
LEMMA EachIs ==
  ASSUME NEW S, NEW verb, \A a \in AppSet : <<verb, a>> \in S
  PROVE  /\ Each(verb) \in Seq(S) /\ Len(Each(verb)) = N
         /\ \A i \in 1..N : Each(verb)[i] = <<verb, Apps[i]>>
<1>1. Each(verb) = [i \in 1..N |-> <<verb, Apps[i]>>]
  BY AppsAre DEF Each
<1>2. [i \in 1..N |-> <<verb, Apps[i]>>] \in Seq(S)
  BY AppsAre
<1> QED  BY <1>1, <1>2, AppsAre

\* What stands where in s \o t.
LEMMA Joined ==
  ASSUME NEW S, NEW s \in Seq(S), NEW t \in Seq(S)
  PROVE  /\ s \o t \in Seq(S) /\ Len(s \o t) = Len(s) + Len(t)
         /\ Len(s) \in Nat /\ Len(t) \in Nat
         /\ \A i \in 1..Len(s) : (s \o t)[i] = s[i]
         /\ \A i \in 1..Len(t) : (s \o t)[Len(s) + i] = t[i]
<1>1. /\ s \o t \in Seq(S) /\ Len(s \o t) = Len(s) + Len(t)
      /\ Len(s) \in Nat /\ Len(t) \in Nat
      /\ \A i \in 1..(Len(s) + Len(t)) :
           (s \o t)[i] = IF i <= Len(s) THEN s[i] ELSE t[i - Len(s)]
  BY ConcatProperties, LenProperties
<1>2. ASSUME NEW i \in 1..Len(t) PROVE (s \o t)[Len(s) + i] = t[i]
  <2>1. Len(s) + i \in 1..(Len(s) + Len(t)) /\ ~(Len(s) + i <= Len(s))
        /\ Len(s) + i - Len(s) = i
    BY <1>1
  <2> QED  BY <1>1, <2>1
<1> QED  BY <1>1, <1>2

\* The commands of the script, by their place.
LEMMA ProgramIs ==
  /\ Program \in Seq(Command) /\ Len(Program) = Last
  /\ \A k \in 1..Last : Program[k][1] = Verb(k)
  /\ \A i \in 1..N : /\ Program[3 + i] = <<"snapshot", Apps[i]>>
                     /\ Program[3 + N + i] = <<"suspend", Apps[i]>>
                     /\ Program[4 + 2 * N + i] = <<"scale", Apps[i]>>
<1> DEFINE P0 == <<<<"resolve">>, <<"cordon">>, <<"mark">>>>
           D == <<<<"deploys">>>>
           S1 == Each("snapshot")
           S2 == Each("suspend")
           S3 == Each("scale")
           P1 == P0 \o S1
           P2 == P1 \o S2
           P3 == P2 \o D
           P4 == P3 \o S3
           E == <<<<"wait">>, <<"remaining">>, <<"measure">>, <<"assert">>, <<"report">>>>
<1>0. Program = P4 \o E
  BY DEF Program
<1>1. P0 \in Seq(Command) /\ Len(P0) = 3
  <2>1. <<"resolve">> \in Command /\ <<"cordon">> \in Command /\ <<"mark">> \in Command
    BY VerbIsCommand DEF Verbs
  <2> QED  BY <2>1
<1>2. D \in Seq(Command) /\ Len(D) = 1
  <2>1. <<"deploys">> \in Command
    BY VerbIsCommand DEF Verbs
  <2> QED  BY <2>1
<1>3. E \in Seq(Command) /\ Len(E) = 5
  <2>1. /\ <<"wait">> \in Command /\ <<"remaining">> \in Command
        /\ <<"measure">> \in Command /\ <<"assert">> \in Command
        /\ <<"report">> \in Command
    BY VerbIsCommand DEF Verbs
  <2> QED  BY <2>1
<1>4. /\ P0[1][1] = "resolve" /\ P0[2][1] = "cordon" /\ P0[3][1] = "mark"
      /\ E[1][1] = "wait" /\ E[2][1] = "remaining" /\ E[3][1] = "measure"
      /\ E[4][1] = "assert" /\ E[5][1] = "report"
      /\ D[1][1] = "deploys"
  OBVIOUS
<1>5. /\ S1 \in Seq(Command) /\ Len(S1) = N /\ \A i \in 1..N : S1[i] = <<"snapshot", Apps[i]>>
      /\ S2 \in Seq(Command) /\ Len(S2) = N /\ \A i \in 1..N : S2[i] = <<"suspend", Apps[i]>>
      /\ S3 \in Seq(Command) /\ Len(S3) = N /\ \A i \in 1..N : S3[i] = <<"scale", Apps[i]>>
  <2>1. \A a \in AppSet : /\ <<"snapshot", a>> \in Command
                          /\ <<"suspend", a>> \in Command
                          /\ <<"scale", a>> \in Command
    BY VerbIsCommand DEF Verbs
  <2> QED  BY <2>1, EachIs, Zenon
<1> HIDE DEF P0, P1, P2, P3, P4, D, E, S1, S2, S3
<1>6. P1 \in Seq(Command) /\ Len(P1) = 3 + N
      /\ (\A i \in 1..3 : P1[i] = P0[i])
      /\ \A i \in 1..N : P1[3 + i] = <<"snapshot", Apps[i]>>
  <2>0. /\ P1 \in Seq(Command) /\ Len(P1) = Len(P0) + Len(S1)
        /\ \A i \in 1..Len(P0) : P1[i] = P0[i]
        /\ \A i \in 1..Len(S1) : P1[Len(P0) + i] = S1[i]
    <3>1. P0 \in Seq(Command) /\ S1 \in Seq(Command)
      BY <1>1, <1>5
    <3> QED  BY <3>1, Joined DEF P1
  <2> QED  BY <1>1, <1>5, <2>0, AppsAre
<1>7. P2 \in Seq(Command) /\ Len(P2) = 3 + 2 * N
      /\ (\A i \in 1..(3 + N) : P2[i] = P1[i])
      /\ \A i \in 1..N : P2[3 + N + i] = <<"suspend", Apps[i]>>
  <2>0. /\ P2 \in Seq(Command) /\ Len(P2) = Len(P1) + Len(S2)
        /\ \A i \in 1..Len(P1) : P2[i] = P1[i]
        /\ \A i \in 1..Len(S2) : P2[Len(P1) + i] = S2[i]
    <3>1. P1 \in Seq(Command) /\ S2 \in Seq(Command)
      BY <1>6, <1>5
    <3> QED  BY <3>1, Joined DEF P2
  <2>1. Len(P1) + Len(S2) = 3 + 2 * N
    BY <1>5, <1>6, AppsAre
  <2> QED  BY <1>6, <1>5, <2>0, <2>1
<1>8. P3 \in Seq(Command) /\ Len(P3) = 4 + 2 * N
      /\ (\A i \in 1..(3 + 2 * N) : P3[i] = P2[i])
      /\ P3[4 + 2 * N][1] = "deploys"
  <2>0. /\ P3 \in Seq(Command) /\ Len(P3) = Len(P2) + Len(D)
        /\ \A i \in 1..Len(P2) : P3[i] = P2[i]
        /\ \A i \in 1..Len(D) : P3[Len(P2) + i] = D[i]
    <3>1. P2 \in Seq(Command) /\ D \in Seq(Command)
      BY <1>7, <1>2
    <3> QED  BY <3>1, Joined DEF P3
  <2>1. Len(P2) + Len(D) = 4 + 2 * N /\ Len(P2) + 1 = 4 + 2 * N
    BY <1>2, <1>7, AppsAre
  <2>2. P3[Len(P2) + 1] = D[1]
    BY <1>2, <2>0
  <2> QED  BY <1>2, <1>7, <1>4, <2>0, <2>1, <2>2
<1>9. P4 \in Seq(Command) /\ Len(P4) = 4 + 3 * N
      /\ (\A i \in 1..(4 + 2 * N) : P4[i] = P3[i])
      /\ \A i \in 1..N : P4[4 + 2 * N + i] = <<"scale", Apps[i]>>
  <2>0. /\ P4 \in Seq(Command) /\ Len(P4) = Len(P3) + Len(S3)
        /\ \A i \in 1..Len(P3) : P4[i] = P3[i]
        /\ \A i \in 1..Len(S3) : P4[Len(P3) + i] = S3[i]
    <3>1. P3 \in Seq(Command) /\ S3 \in Seq(Command)
      BY <1>8, <1>5
    <3> QED  BY <3>1, Joined DEF P4
  <2>1. Len(P3) + Len(S3) = 4 + 3 * N
    BY <1>5, <1>8, AppsAre
  <2> QED  BY <1>8, <1>5, <2>0, <2>1
<1>10. Program \in Seq(Command) /\ Len(Program) = Last
       /\ (\A i \in 1..(4 + 3 * N) : Program[i] = P4[i])
       /\ \A i \in 1..5 : Program[4 + 3 * N + i] = E[i]
  <2>0. /\ Program \in Seq(Command) /\ Len(Program) = Len(P4) + Len(E)
        /\ \A i \in 1..Len(P4) : Program[i] = P4[i]
        /\ \A i \in 1..Len(E) : Program[Len(P4) + i] = E[i]
    <3>1. P4 \in Seq(Command) /\ E \in Seq(Command)
      BY <1>9, <1>3
    <3> QED  BY <1>0, <3>1, Joined 
  <2>1. Len(P4) + Len(E) = Last
    BY <1>3, <1>9, AppsAre DEF Last
  <2> QED  BY <1>3, <1>9, <2>0, <2>1
<1>11. ASSUME NEW i \in 1..N
       PROVE  /\ Program[3 + i] = <<"snapshot", Apps[i]>>
              /\ Program[3 + N + i] = <<"suspend", Apps[i]>>
              /\ Program[4 + 2 * N + i] = <<"scale", Apps[i]>>
  <2>1. /\ i \in Int /\ 3 + i \in 1..(3 + N)
        /\ 3 + i \in 1..(3 + 2 * N) /\ 3 + N + i \in 1..(3 + 2 * N)
        /\ 3 + i \in 1..(4 + 2 * N) /\ 3 + N + i \in 1..(4 + 2 * N)
        /\ 3 + i \in 1..(4 + 3 * N) /\ 3 + N + i \in 1..(4 + 3 * N)
        /\ 4 + 2 * N + i \in 1..(4 + 3 * N)
    BY CountIsNat
  <2>2. Program[3 + i] = P2[3 + i] /\ Program[3 + N + i] = P2[3 + N + i]
    BY <2>1, <1>8, <1>9, <1>10
  <2>3. P2[3 + i] = P1[3 + i]
    BY <2>1, <1>7
  <2>4. Program[4 + 2 * N + i] = P4[4 + 2 * N + i]
    BY <2>1, <1>10
  <2> QED  BY <2>2, <2>3, <2>4, <1>6, <1>7, <1>9
<1>12. ASSUME NEW k \in 1..Last PROVE Program[k][1] = Verb(k)
  <2>1. CASE k \in 1..3
    <3>1. Program[k] = P0[k]
      <4>1. /\ k \in 1..(3 + N) /\ k \in 1..(3 + 2 * N) /\ k \in 1..(4 + 2 * N)
            /\ k \in 1..(4 + 3 * N)
        BY <2>1, CountIsNat
      <4>2. Program[k] = P4[k] /\ P4[k] = P3[k]
        BY <4>1, <1>9, <1>10
      <4>3. P3[k] = P2[k] /\ P2[k] = P1[k] /\ P1[k] = P0[k]
        BY <2>1, <4>1, <1>6, <1>7, <1>8
      <4> QED  BY <4>2, <4>3
    <3> QED  BY <2>1, <3>1, <1>4, CountIsNat DEF Verb
  <2>2. CASE k \in 4..(3 + N)
    <3>1. k - 3 \in 1..N /\ k = 3 + (k - 3)
      BY <2>2, CountIsNat
    <3>2. Program[k] = <<"snapshot", Apps[k - 3]>>
      BY <3>1, <1>11
    <3>3. Verb(k) = "snapshot"
      <4>1. k # 1 /\ k # 2 /\ k # 3 /\ k <= 3 + N
        BY <2>2, CountIsNat
      <4> QED  BY <4>1 DEF Verb
    <3> QED  BY <3>2, <3>3
  <2>3. CASE k \in (4 + N)..(3 + 2 * N)
    <3>1. k - 3 - N \in 1..N /\ k = 3 + N + (k - 3 - N)
      BY <2>3, CountIsNat
    <3>2. Program[k] = <<"suspend", Apps[k - 3 - N]>>
      BY <3>1, <1>11
    <3> QED  BY <2>3, <3>2, CountIsNat DEF Verb
  <2>4. CASE k = 4 + 2 * N
    BY <2>4, <1>8, <1>9, <1>10, CountIsNat DEF Verb
  <2>5. CASE k \in (5 + 2 * N)..(4 + 3 * N)
    <3>1. k - 4 - 2 * N \in 1..N /\ k = 4 + 2 * N + (k - 4 - 2 * N)
      BY <2>5, CountIsNat
    <3>2. Program[k] = <<"scale", Apps[k - 4 - 2 * N]>>
      BY <3>1, <1>11
    <3>3. Verb(k) = "scale"
      <4>1. /\ k # 1 /\ k # 2 /\ k # 3 /\ ~(k <= 3 + N) /\ ~(k <= 3 + 2 * N)
            /\ k # 4 + 2 * N /\ k <= 4 + 3 * N
        BY <2>5, CountIsNat
      <4> QED  BY <4>1 DEF Verb
    <3> QED  BY <3>2, <3>3
  <2>6. CASE k \in (5 + 3 * N)..(9 + 3 * N)
    <3>1. k - 4 - 3 * N \in 1..5 /\ k = 4 + 3 * N + (k - 4 - 3 * N)
      BY <2>6, CountIsNat
    <3>2. Program[k][1] = E[k - 4 - 3 * N][1]
      BY <3>1, <1>10
    <3> QED  BY <2>6, <3>1, <3>2, <1>4, CountIsNat DEF Verb
  <2>7. \/ k \in 1..3 \/ k \in 4..(3 + N) \/ k \in (4 + N)..(3 + 2 * N) \/ k = 4 + 2 * N
        \/ k \in (5 + 2 * N)..(4 + 3 * N) \/ k \in (5 + 3 * N)..(9 + 3 * N)
    BY CountIsNat DEF Last
  <2> QED  BY <2>1, <2>2, <2>3, <2>4, <2>5, <2>6, <2>7
<1> QED  BY <1>10, <1>11, <1>12

-----------------------------------------------------------------------------
\* Each command has its place, or its stretch of the script.
LEMMA VerbPlace ==
  ASSUME NEW k \in 1..Last
  PROVE  /\ Verb(k) = "resolve" => k = 1
         /\ Verb(k) = "cordon" => k = 2
         /\ Verb(k) = "mark" => k = 3
         /\ Verb(k) = "snapshot" => k \in 4..(3 + N)
         /\ Verb(k) = "suspend" => k \in (4 + N)..(3 + 2 * N)
         /\ Verb(k) = "deploys" => k = ListPlace
         /\ Verb(k) = "scale" => k \in (ListPlace + 1)..(4 + 3 * N)
         /\ Verb(k) = "wait" => k = 5 + 3 * N
         /\ Verb(k) = "remaining" => k = 6 + 3 * N
         /\ Verb(k) = "measure" => k = MeasurePlace
         /\ Verb(k) = "assert" => k = AssertPlace
         /\ Verb(k) = "report" => k = Last
<1>1. k = 1 => Verb(k) = "resolve"
  BY CountIsNat DEF Verb
<1>2. k = 2 => Verb(k) = "cordon"
  BY CountIsNat DEF Verb
<1>3. k = 3 => Verb(k) = "mark"
  BY CountIsNat DEF Verb
<1>4. k \in 4..(3 + N) => Verb(k) = "snapshot"
  BY CountIsNat DEF Verb
<1>5. k \in (4 + N)..(3 + 2 * N) => Verb(k) = "suspend"
  BY CountIsNat DEF Verb
<1>6. k = 4 + 2 * N => Verb(k) = "deploys"
  BY CountIsNat DEF Verb
<1>7. k \in (5 + 2 * N)..(4 + 3 * N) => Verb(k) = "scale"
  BY CountIsNat DEF Verb
<1>8. k = 5 + 3 * N => Verb(k) = "wait"
  BY CountIsNat DEF Verb
<1>9. k = 6 + 3 * N => Verb(k) = "remaining"
  BY CountIsNat DEF Verb
<1>10. k = 7 + 3 * N => Verb(k) = "measure"
  BY CountIsNat DEF Verb
<1>11. k = 8 + 3 * N => Verb(k) = "assert"
  BY CountIsNat DEF Verb
<1>12. k = 9 + 3 * N => Verb(k) = "report"
  BY CountIsNat DEF Verb
<1>13. \/ k = 1
       \/ k = 2
       \/ k = 3
       \/ k \in 4..(3 + N)
       \/ k \in (4 + N)..(3 + 2 * N)
       \/ k = 4 + 2 * N
       \/ k \in (5 + 2 * N)..(4 + 3 * N)
       \/ k = 5 + 3 * N
       \/ k = 6 + 3 * N
       \/ k = 7 + 3 * N
       \/ k = 8 + 3 * N
       \/ k = 9 + 3 * N
  BY CountIsNat DEF Last
<1>14. CASE k = 1
  BY <1>1, <1>14 DEF Last, ListPlace, MeasurePlace, AssertPlace
<1>15. CASE k = 2
  BY <1>2, <1>15 DEF Last, ListPlace, MeasurePlace, AssertPlace
<1>16. CASE k = 3
  BY <1>3, <1>16 DEF Last, ListPlace, MeasurePlace, AssertPlace
<1>17. CASE k \in 4..(3 + N)
  BY <1>4, <1>17 DEF Last, ListPlace, MeasurePlace, AssertPlace
<1>18. CASE k \in (4 + N)..(3 + 2 * N)
  BY <1>5, <1>18 DEF Last, ListPlace, MeasurePlace, AssertPlace
<1>19. CASE k = 4 + 2 * N
  BY <1>6, <1>19 DEF Last, ListPlace, MeasurePlace, AssertPlace
<1>20. CASE k \in (5 + 2 * N)..(4 + 3 * N)
  BY <1>7, <1>20, CountIsNat DEF Last, ListPlace, MeasurePlace, AssertPlace
<1>21. CASE k = 5 + 3 * N
  BY <1>8, <1>21 DEF Last, ListPlace, MeasurePlace, AssertPlace
<1>22. CASE k = 6 + 3 * N
  BY <1>9, <1>22 DEF Last, ListPlace, MeasurePlace, AssertPlace
<1>23. CASE k = 7 + 3 * N
  BY <1>10, <1>23 DEF Last, ListPlace, MeasurePlace, AssertPlace
<1>24. CASE k = 8 + 3 * N
  BY <1>11, <1>24 DEF Last, ListPlace, MeasurePlace, AssertPlace
<1>25. CASE k = 9 + 3 * N
  BY <1>12, <1>25 DEF Last, ListPlace, MeasurePlace, AssertPlace
<1> QED
  BY <1>13, <1>14, <1>15, <1>16, <1>17, <1>18, <1>19, <1>20, <1>21, <1>22, <1>23, <1>24, <1>25

\* The script stops only at its end, and its next command is the one at Pos.
LEMMA NextCommand ==
  ASSUME Where
  PROVE  /\ script = <<>> <=> Pos = Last + 1
         /\ script # <<>> => /\ Pos \in 1..Last /\ Head(script) = Program[Pos]
                             /\ Head(script)[1] = Verb(Pos)
<1>1. Program \in Seq(Command) /\ Len(Program) = Last /\ Last \in Nat
  BY ProgramIs, CountIsNat DEF Last
<1>2. CASE Pos = Last + 1
  <2>1. script = <<>>
    BY <1>1, <1>2, SubSeqEmpty DEF Where
  <2> QED  BY <1>2, <2>1
<1>3. CASE Pos # Last + 1
  <2>1. Pos \in 1..Last
    BY <1>1, <1>3 DEF Where
  <2>2. Head(script) = Program[Pos]
    <3>1. Pos \in 1..Len(Program) /\ Last \in Pos..Len(Program)
      BY <1>1, <2>1
    <3> QED  BY <1>1, <3>1, HeadTailOfSubSeq DEF Where
  <2>3. script # <<>>
    <3>1. script = <<>> => Len(script) = 0
      OBVIOUS
    <3> QED  BY <1>1, <1>3, <3>1 DEF Pos
  <2> QED  BY <2>1, <2>2, <2>3, <1>3, ProgramIs
<1> QED  BY <1>2, <1>3

\* Where a step leaves the script.
LEMMA Moves ==
  ASSUME Where
  PROVE  /\ UNCHANGED script => Where' /\ Pos' = Pos
         /\ script # <<>> /\ script' = Tail(script) => Where' /\ Pos' = Pos + 1
         /\ script' = <<>> => Where' /\ Pos' = Last + 1
<1>1. Program \in Seq(Command) /\ Len(Program) = Last /\ Last \in Nat
  BY ProgramIs, CountIsNat DEF Last
<1>2. ASSUME UNCHANGED script PROVE Where' /\ Pos' = Pos
  BY <1>2 DEF Where, Pos
<1>3. ASSUME script # <<>>, script' = Tail(script) PROVE Where' /\ Pos' = Pos + 1
  <2>1. Pos \in 1..Last
    BY <1>3, NextCommand
  <2>2. script' = SubSeq(Program, Pos + 1, Last)
    <3>1. Pos \in 1..Len(Program) /\ Last \in Pos..Len(Program)
      BY <1>1, <2>1
    <3> QED  BY <1>1, <1>3, <3>1, HeadTailOfSubSeq DEF Where
  <2>3. Len(script') = Last - Pos
    <3>1. \A i \in (Pos + 1)..Last : Program[i] \in Command
      BY <1>1, <2>1, ElementOfSeq
    <3> HIDE DEF Pos
    <3>2. Pos + 1 \in Int /\ Last \in Int
      BY <1>1, <2>1
    <3>3. Len(SubSeq(Program, Pos + 1, Last))
            = IF Pos + 1 <= Last THEN Last - (Pos + 1) + 1 ELSE 0
      BY <3>1, <3>2, SubSeqProperties
    <3> QED  BY <1>1, <2>1, <2>2, <3>3
  <2>4. Pos' = Pos + 1
    <3>1. Pos' = Last + 1 - Len(script')
      BY DEF Pos
    <3> QED  BY <1>1, <2>1, <2>3, <3>1
  <2> QED  BY <1>1, <2>1, <2>2, <2>3, <2>4 DEF Where
<1>4. ASSUME script' = <<>> PROVE Where' /\ Pos' = Last + 1
  <2>1. Len(script') = 0
    BY <1>4
  <2>2. Pos' = Last + 1
    BY <1>1, <2>1 DEF Pos
  <2>3. SubSeq(Program, Pos', Last) = <<>>
    BY <1>1, <2>2, SubSeqEmpty
  <2> QED  BY <1>1, <1>4, <2>1, <2>2, <2>3 DEF Where
<1> QED  BY <1>2, <1>3, <1>4

\* Where the script is when it is at a command.
LEMMA Places ==
  ASSUME Where
  PROVE  /\ \A c : At(c) => /\ Pos \in 1..Last /\ c = Program[Pos] /\ c[1] = Verb(Pos)
                             /\ script # <<>> /\ ~exiting /\ todo = <<>>
         /\ At(<<"resolve">>) => Pos = 1
         /\ At(<<"cordon">>) => Pos = 2
         /\ At(<<"mark">>) => Pos = 3
         /\ At(<<"deploys">>) => Pos = ListPlace
         /\ At(<<"wait">>) => Pos = 5 + 3 * N
         /\ At(<<"remaining">>) => Pos = 6 + 3 * N
         /\ At(<<"measure">>) => Pos = MeasurePlace
         /\ At(<<"assert">>) => Pos = AssertPlace
         /\ At(<<"report">>) => Pos = Last
<1>1. ASSUME NEW c, At(c)
      PROVE  /\ Pos \in 1..Last /\ c = Program[Pos] /\ c[1] = Verb(Pos)
             /\ script # <<>> /\ ~exiting /\ todo = <<>>
  BY <1>1, NextCommand DEF At
<1>2. ASSUME NEW v, At(<<v>>) PROVE Pos \in 1..Last /\ Verb(Pos) = v
  <2>1. <<v>>[1] = v
    OBVIOUS
  <2> QED  BY <1>1, <1>2, <2>1
<1> QED  BY <1>1, <1>2, VerbPlace

\* A command with an Application is at the place of that Application.
LEMMA AppPlaces ==
  ASSUME Where, NEW a
  PROVE  /\ At(<<"snapshot", a>>) => \E i \in 1..N : Pos = 3 + i /\ a = Apps[i]
         /\ At(<<"suspend", a>>) => \E i \in 1..N : Pos = 3 + N + i /\ a = Apps[i]
         /\ At(<<"scale", a>>) => \E i \in 1..N : Pos = ListPlace + i /\ a = Apps[i]
<1>1. ASSUME NEW v, At(<<v, a>>)
      PROVE  Pos \in 1..Last /\ Verb(Pos) = v /\ Program[Pos] = <<v, a>>
  <2>1. <<v, a>>[1] = v
    OBVIOUS
  <2> QED  BY <1>1, <2>1, Places
<1>2. \A v, x, y : <<v, x>> = <<v, y>> => x = y
  OBVIOUS
<1>3. ASSUME At(<<"snapshot", a>>) PROVE \E i \in 1..N : Pos = 3 + i /\ a = Apps[i]
  <2>1. Pos \in 4..(3 + N)
    BY <1>1, <1>3, VerbPlace
  <2>2. Pos - 3 \in 1..N /\ Pos = 3 + (Pos - 3)
    BY <2>1, CountIsNat
  <2>3. Program[Pos] = <<"snapshot", Apps[Pos - 3]>>
    BY <2>2, ProgramIs
  <2> QED  BY <1>1, <1>2, <1>3, <2>2, <2>3
<1>4. ASSUME At(<<"suspend", a>>) PROVE \E i \in 1..N : Pos = 3 + N + i /\ a = Apps[i]
  <2>1. Pos \in (4 + N)..(3 + 2 * N)
    BY <1>1, <1>4, VerbPlace
  <2>2. Pos - 3 - N \in 1..N /\ Pos = 3 + N + (Pos - 3 - N)
    BY <2>1, CountIsNat
  <2>3. Program[Pos] = <<"suspend", Apps[Pos - 3 - N]>>
    BY <2>2, ProgramIs
  <2> QED  BY <1>1, <1>2, <1>4, <2>2, <2>3
<1>5. ASSUME At(<<"scale", a>>) PROVE \E i \in 1..N : Pos = ListPlace + i /\ a = Apps[i]
  <2>1. Pos \in (ListPlace + 1)..(4 + 3 * N)
    BY <1>1, <1>5, VerbPlace
  <2>2. Pos - 4 - 2 * N \in 1..N /\ Pos = ListPlace + (Pos - 4 - 2 * N)
        /\ Pos = 4 + 2 * N + (Pos - 4 - 2 * N)
    BY <2>1, CountIsNat DEF ListPlace
  <2>3. Program[Pos] = <<"scale", Apps[Pos - 4 - 2 * N]>>
    BY <2>2, ProgramIs
  <2> QED  BY <1>1, <1>2, <1>5, <2>2, <2>3
<1> QED  BY <1>3, <1>4, <1>5

\* A command that goes on, or one that dies.
LEMMA CommandMoves ==
  ASSUME Where, NEW c, At(c)
  PROVE  /\ Pos \in 1..Last
         /\ script' = Tail(script) => Where' /\ Pos' = Pos + 1
         /\ Go => Where' /\ Pos' = Pos + 1 /\ failed' = failed
         /\ Die => Where' /\ Pos' = Last + 1 /\ failed'
BY Places, Moves DEF Go, Die

\* The places, in numbers.
LEMMA Bounds ==
  /\ N \in Nat /\ Last = 9 + 3 * N /\ ListPlace = 4 + 2 * N
  /\ MeasurePlace = 7 + 3 * N /\ AssertPlace = 8 + 3 * N
BY CountIsNat DEF Last, ListPlace, MeasurePlace, AssertPlace

-----------------------------------------------------------------------------
\* The script moved on from Pos to the next place, to its end, or not at all.
Forward == Pos \in 1..(Last + 1) /\ Pos' \in {Pos, Pos + 1, Last + 1}

\* What a step keeps by leaving its variables alone: all but the part of the
\* invariant that the place it leaves is about.
LEMMA CordonedFrame ==
  ASSUME Cordoned, UNCHANGED <<cordoned, marked, lost>>, Pos' = Pos \/ Pos # 3
  PROVE  Cordoned'
BY DEF Cordoned

\* What a conjunct is about stays: so does the conjunct.
LEMMA ScaledFrame ==
  ASSUME Scaled, UNCHANGED <<deploys, replicas>>, Forward,
         Pos' = Pos + 1 => Pos # ListPlace
  PROVE  Scaled'
<1>1. Pos' \in Int /\ Pos \in Int /\ ListPlace \in Int /\ Last \in Int /\ ListPlace < Last
  BY Bounds DEF Forward
<1>2. Pos' <= ListPlace => Pos <= ListPlace
  BY <1>1, Bounds DEF Forward
<1>3. ListPlace < Pos' /\ Pos' <= Last => ListPlace < Pos /\ Pos <= Last
  BY <1>1, Bounds DEF Forward
<1> QED  BY <1>2, <1>3 DEF Scaled

\* The same for the snapshots.
LEMMA SnappedFrame ==
  ASSUME Snapped, UNCHANGED <<snap, heals>>, Forward,
         Pos' = Pos + 1 => Pos \notin 4..(3 + N)
  PROVE  Snapped'
<1>1. \A i \in 1..N : 3 + i < Pos' /\ Pos' <= Last => 3 + i < Pos /\ Pos <= Last
  BY Bounds DEF Forward
<1>2. Pos' <= 3 + N => Pos <= 3 + N
  BY Bounds DEF Forward
<1> QED  BY <1>1, <1>2 DEF Snapped

\* The same for the rolls.
LEMMA RolledFrame ==
  ASSUME Rolled, UNCHANGED <<hit, logged, pod, replicas>>, Forward,
         Pos' = Pos \/ (Pos # MeasurePlace /\ Pos' # MeasurePlace)
  PROVE  Rolled'
BY DEF Rolled

\* The same for the verdict.
LEMMA JudgedFrame ==
  ASSUME Judged, UNCHANGED results, Forward, failed => failed',
         Pos' = Pos + 1 => Pos # AssertPlace,
         Pos' = Pos \/ Pos' = Pos + 1 \/ failed'
  PROVE  Judged'
<1>1. Pos' > AssertPlace /\ ~failed' => Pos > AssertPlace /\ ~failed
  BY Bounds DEF Forward
<1> QED  BY <1>1 DEF Judged

\* The same for the process.
LEMMA ProcessFrame ==
  ASSUME Process, UNCHANGED vars, Forward
  PROVE  Process'
<1>1. Pos' <= MeasurePlace => Pos <= MeasurePlace
  BY Bounds DEF Forward
<1>2. IInv => IInv'
  BY IInvNext
<1>3. Cleared => Cleared'
  BY DEF Cleared, vars, procVars, sigVars, onceVars, clusterVars
<1> QED  BY <1>1, <1>2, <1>3 DEF Process

\* The same for the types.
LEMMA TypeFrame ==
  ASSUME DrainTypeOK, UNCHANGED <<todo, exiting, snap, deploys, nodeVars, hit>>,
         marked' \in BOOLEAN, failed' \in BOOLEAN
  PROVE  DrainTypeOK'
BY DEF DrainTypeOK, nodeVars

\* What no command touches.
LEMMA CommandRest ==
  ASSUME DrainIInv, NEW c, At(c), UNCHANGED <<vars, shellVars, rollVars>>,
         \/ Go \/ Die
         \/ script' = Tail(script) /\ (failed => failed') /\ failed' \in BOOLEAN
  PROVE  /\ Where' /\ Forward /\ Leaving' /\ Process'
         /\ todo' = todo /\ exiting' = exiting /\ UNCHANGED <<hit, logged, results>>
         /\ Pos \in 1..Last
         /\ \/ Pos' = Pos + 1
            \/ Pos' = Last + 1 /\ failed'
         /\ (failed => failed') /\ failed' \in BOOLEAN
<1>1. Where /\ DrainTypeOK /\ Process
  BY DEF DrainIInv
<1>2. /\ Where' /\ Pos \in 1..Last
      /\ Pos' = Pos + 1 \/ (Pos' = Last + 1 /\ failed')
      /\ (failed => failed') /\ failed' \in BOOLEAN
  BY <1>1, CommandMoves DEF Go, Die, DrainTypeOK
<1>3. Forward
  BY <1>2, Bounds DEF Forward
<1>4. ~exiting
  BY <1>1, Places
<1>5. todo' = todo /\ exiting' = exiting /\ UNCHANGED <<hit, logged, results>>
  BY DEF shellVars, rollVars
<1>6. Leaving'
  BY <1>4, <1>5 DEF Leaving
<1>7. Process'
  BY <1>1, <1>3, ProcessFrame
<1> QED  BY <1>2, <1>3, <1>5, <1>6, <1>7

\* What a command leaves to be shown of it.
Kept == DrainTypeOK' /\ Cordoned' /\ Scaled' /\ Snapped' /\ Rolled' /\ Judged'

\* What it leaves as it was, and how it moves the script.
Run ==
  /\ Forward
  /\ todo' = todo /\ exiting' = exiting /\ UNCHANGED <<hit, logged, results>>
  /\ Pos' = Pos + 1 \/ (Pos' = Last + 1 /\ failed')
  /\ (failed => failed') /\ failed' \in BOOLEAN

\* Each command of the script keeps the invariant.
LEMMA CommandsKeep == DrainIInv /\ Commands => DrainIInv'
<1> SUFFICES ASSUME DrainIInv, Commands PROVE DrainIInv'
  OBVIOUS
<1>0. /\ Where /\ DrainTypeOK /\ Cordoned /\ Scaled /\ Snapped /\ Rolled /\ Judged
      /\ UNCHANGED <<vars, shellVars, rollVars>>
  BY DEF DrainIInv, Commands
<1>1. ASSUME NEW c, At(c),
             \/ Go \/ Die
             \/ script' = Tail(script) /\ (failed => failed') /\ failed' \in BOOLEAN
      PROVE  Run /\ (Kept => DrainIInv')
  <2>1. /\ Where' /\ Leaving' /\ Process' /\ Run
    BY <1>0, <1>1, CommandRest DEF Run
  <2> QED  BY <2>1 DEF Kept, DrainIInv
<1>2. ASSUME Run, Pos \notin 4..(3 + N), UNCHANGED <<snap, heals>> PROVE Snapped'
  BY <1>0, <1>2, SnappedFrame DEF Run
<1>3. ASSUME Run, Pos # ListPlace, UNCHANGED <<deploys, replicas>> PROVE Scaled'
  BY <1>0, <1>3, ScaledFrame DEF Run
<1>4. ASSUME Run, Pos \notin {MeasurePlace - 1, MeasurePlace}
      PROVE  Pos # MeasurePlace /\ Pos' # MeasurePlace
  BY <1>4, Bounds DEF Run, Forward
<1>5. ASSUME Run, Pos # MeasurePlace, Pos' # MeasurePlace PROVE Rolled'
  BY <1>0, <1>5 DEF Rolled, Run
<1>6. ASSUME Run, Pos # AssertPlace PROVE Judged'
  BY <1>0, <1>6, JudgedFrame DEF Run
<1>7. ASSUME Run, Pos # 3, UNCHANGED <<cordoned, marked, lost>> PROVE Cordoned'
  BY <1>0, <1>7, CordonedFrame
<1>8. ASSUME Run, UNCHANGED <<snap, deploys, nodeVars>>, marked' \in BOOLEAN PROVE DrainTypeOK'
  BY <1>0, <1>8, TypeFrame DEF Run
<1>10. CASE Resolve
  <2>1. At(<<"resolve">>) /\ Pos = 1 /\ (Go \/ Die)
    BY <1>0, <1>10, Places DEF Resolve, Kubectl
  <2>2. Run /\ (Kept => DrainIInv')
    BY <2>1, <1>1
  <2>3. UNCHANGED <<marked, snap, deploys, nodeVars, lost>>
    BY <1>10 DEF Resolve, scriptVars
  <2>0. UNCHANGED <<cordoned, heals, replicas, pod>> /\ marked' \in BOOLEAN
    BY <1>0, <2>3 DEF nodeVars, DrainTypeOK
  <2>4. DrainTypeOK' /\ Cordoned'
    BY <2>0, <2>1, <2>2, <2>3, <1>7, <1>8, Bounds
  <2>9. Scaled' /\ Snapped'
    BY <2>0, <2>1, <2>2, <2>3, <1>2, <1>3, Bounds
  <2>5. Rolled' /\ Judged'
    BY <2>1, <2>2, <1>4, <1>5, <1>6, Bounds
  <2> QED  BY <2>2, <2>4, <2>5, <2>9 DEF Kept
<1>11. CASE Cordon
  <2>1. At(<<"cordon">>) /\ Pos = 2 /\ (Go \/ Die)
    BY <1>0, <1>11, Places DEF Cordon, Kubectl
  <2>2. Run /\ (Kept => DrainIInv')
    BY <2>1, <1>1
  <2>3. UNCHANGED <<marked, snap, deploys, heals, replicas, pod>> /\ cordoned' \in BOOLEAN
    BY <1>0, <1>11 DEF Cordon, Kubectl, scriptVars, DrainTypeOK
  <2>4. DrainTypeOK'
    BY <1>0, <2>2, <2>3 DEF DrainTypeOK, Run
  <2>5. Cordoned'
    <3>1. CASE cordoned' /\ failed'
      BY <1>11, <3>1 DEF Cordon, Cordoned
    <3>2. CASE ~failed'
      BY <2>1, <2>2, <3>2 DEF Run, Cordoned
    <3>3. CASE ~cordoned'
      BY <3>3 DEF Cordoned
    <3> QED  BY <3>1, <3>2, <3>3
  <2>6. Scaled' /\ Snapped' /\ Rolled' /\ Judged'
    BY <2>1, <2>2, <2>3, <1>2, <1>3, <1>4, <1>5, <1>6, Bounds
  <2> QED  BY <2>2, <2>4, <2>5, <2>6 DEF Kept
<1>12. CASE Mark
  <2>1. At(<<"mark">>) /\ Pos = 3 /\ (Go)
    BY <1>0, <1>12, Places DEF Mark, Kubectl
  <2>2. Run /\ (Kept => DrainIInv')
    BY <2>1, <1>1
  <2>3. UNCHANGED <<snap, deploys, nodeVars>> /\ marked' = TRUE
    BY <1>12 DEF Mark
  <2>4. DrainTypeOK' /\ Cordoned'
    BY <2>2, <2>3, <1>8 DEF Cordoned
  <2>5. Scaled' /\ Snapped' /\ Rolled' /\ Judged'
    BY <2>1, <2>2, <2>3, <1>2, <1>3, <1>4, <1>5, <1>6, Bounds DEF nodeVars
  <2> QED  BY <2>2, <2>4, <2>5 DEF Kept
<1>13. CASE Snapshot
  <2>1. PICK a \in AppSet :
          /\ At(<<"snapshot", a>>)
          /\ snap' = [snap EXCEPT ![a] = heals[a]] \/ snap' = [snap EXCEPT ![a] = "true"]
          /\ Go
          /\ UNCHANGED <<marked, deploys, nodeVars, lost>>
    BY <1>13 DEF Snapshot
  <2>2. PICK i \in 1..N : Pos = 3 + i /\ a = Apps[i]
    BY <1>0, <2>1, AppPlaces
  <2>3. Run /\ (Kept => DrainIInv') /\ Pos' = Pos + 1
    BY <1>0, <2>1, <1>1, CommandMoves
  <2>4. snap'[a] \in {heals[a], "true"} /\ \A b \in AppSet : b # a => snap'[b] = snap[b]
    BY <1>0, <2>1 DEF DrainTypeOK
  <2>5. DrainTypeOK'
    BY <1>0, <2>1, <2>3 DEF DrainTypeOK, Run, nodeVars
  <2>6. Snapped'
    <3>1. \A j \in 1..N : 3 + j < Pos' => Apps[j] = a \/ 3 + j < Pos
      BY <2>2, <2>3, Bounds
    <3>2. Pos' <= 4 + N /\ Pos <= 3 + N /\ Pos <= Last
      BY <2>2, <2>3, Bounds
    <3>3. snap'[a] # "" /\ (a \in Healing => snap'[a] = "true")
      BY <1>0, <2>4, <3>2 DEF Snapped, DrainTypeOK
    <3>4. \A j \in 1..N : 3 + j < Pos' /\ Pos' <= Last => snap'[Apps[j]] # ""
      BY <1>0, <2>4, <3>1, <3>2, <3>3, AppsAre DEF Snapped
    <3>5. \A b \in AppSet \cap Healing : heals[b] = "true"
      BY <1>0, <3>2 DEF Snapped
    <3>6. \A b \in AppSet \cap Healing : snap'[b] # "false"
      BY <1>0, <2>4, <3>3 DEF Snapped
    <3> QED  BY <2>1, <3>4, <3>5, <3>6 DEF Snapped, nodeVars
  <2>7. Scaled' /\ Rolled' /\ Judged' /\ Cordoned'
    BY <2>1, <2>2, <2>3, <1>3, <1>4, <1>5, <1>6, <1>7, Bounds DEF nodeVars
  <2> QED  BY <2>3, <2>5, <2>6, <2>7 DEF Kept
<1>14. CASE Suspend
  <2>1. PICK a \in AppSet :
          /\ At(<<"suspend", a>>)
          /\ heals' = [heals EXCEPT ![a] = "false"] \/ UNCHANGED heals
          /\ Go \/ Die
          /\ UNCHANGED <<marked, snap, deploys, cordoned, replicas, pod, lost>>
    BY <1>14 DEF Suspend, Kubectl, scriptVars
  <2>2. PICK i \in 1..N : Pos = 3 + N + i /\ a = Apps[i]
    BY <1>0, <2>1, AppPlaces
  <2>3. Run /\ (Kept => DrainIInv')
    BY <1>0, <2>1, <1>1
  <2>4. DrainTypeOK'
    BY <1>0, <2>1, <2>3 DEF DrainTypeOK, Run
  <2>5. Snapped'
    <3>0. Pos <= Last /\ \A j \in 1..N : 3 + j < Pos
      BY <2>2, Bounds
    <3>1. \A b \in AppSet : snap[b] # ""
      BY <1>0, <3>0, AppsAre DEF Snapped
    <3>2. Pos' > 3 + N
      BY <2>2, <2>3, Bounds DEF Run
    <3>3. ~(Pos' <= 3 + N)
      BY <2>2, <2>3, Bounds DEF Run
    <3>4. \A b \in AppSet \cap Healing : snap[b] # "false"
      BY <1>0 DEF Snapped
    <3>5. UNCHANGED snap
      BY <2>1
    <3> QED  BY <3>1, <3>3, <3>4, <3>5, AppsAre DEF Snapped
  <2>6. Scaled' /\ Rolled' /\ Judged' /\ Cordoned'
    BY <2>1, <2>2, <2>3, <1>3, <1>4, <1>5, <1>6, <1>7, Bounds
  <2> QED  BY <2>3, <2>4, <2>5, <2>6 DEF Kept
<1>15. CASE Deploys
  <2>1. At(<<"deploys">>) /\ Pos = ListPlace /\ ((deploys' = AppSet /\ Go) \/ (deploys' = {} /\ Die))
    BY <1>0, <1>15, Places DEF Deploys, Kubectl
  <2>2. Run /\ (Kept => DrainIInv')
    BY <2>1, <1>1
  <2>3. UNCHANGED <<marked, snap, nodeVars, lost>>
    BY <1>15 DEF Deploys
  <2>4. DrainTypeOK'
    BY <1>0, <2>1, <2>2, <2>3 DEF DrainTypeOK, Run, nodeVars
  <2>5. Scaled'
    <3>1. \A a \in AppSet : replicas[a] = 1
      BY <1>0, <2>1, Bounds DEF Scaled
    <3>2. Pos' > ListPlace
      BY <2>1, <2>2, Bounds DEF Run
    <3>3. Pos' = Last + 1 \/ deploys' = AppSet
      BY <1>0, <2>1, CommandMoves
    <3>4. UNCHANGED replicas
      BY <2>3 DEF nodeVars
    <3>5. ~(Pos' <= ListPlace) /\ (Pos' = Last + 1 => ~(Pos' <= Last))
      BY <3>2, Bounds, <2>1, <2>2 DEF Run
    <3>6. \A a \in AppSet : replicas'[a] # 0
      BY <3>1, <3>4
    <3> QED  BY <3>3, <3>5, <3>6 DEF Scaled
  <2>6. Snapped' /\ Rolled' /\ Judged' /\ Cordoned'
    BY <2>1, <2>2, <2>3, <1>2, <1>4, <1>5, <1>6, <1>7, Bounds DEF nodeVars
  <2> QED  BY <2>2, <2>4, <2>5, <2>6 DEF Kept
<1>16. CASE Scale
  <2>1. PICK a \in AppSet :
          /\ At(<<"scale", a>>)
          /\ replicas' = [replicas EXCEPT ![a] = 0] \/ UNCHANGED replicas
          /\ Go \/ Die
          /\ UNCHANGED <<marked, snap, deploys, cordoned, heals, pod, lost>>
    BY <1>16 DEF Scale, Kubectl, scriptVars
  <2>2. PICK i \in 1..N : Pos = ListPlace + i /\ a = Apps[i]
    BY <1>0, <2>1, AppPlaces
  <2>3. Run /\ (Kept => DrainIInv')
    BY <1>0, <2>1, <1>1
  <2>4. DrainTypeOK'
    BY <1>0, <2>1, <2>3 DEF DrainTypeOK, Run
  <2>5. Scaled'
    <3>1. deploys = AppSet
      BY <1>0, <2>2, Bounds DEF Scaled
    <3>2. Pos' > ListPlace
      BY <2>2, <2>3, Bounds DEF Run
    <3>3. ~(Pos' <= ListPlace)
      BY <2>2, <2>3, Bounds DEF Run
    <3>4. deploys' = AppSet
      BY <2>1, <3>1
    <3> QED  BY <3>3, <3>4 DEF Scaled
  <2>6. Snapped' /\ Rolled' /\ Judged' /\ Cordoned'
    BY <2>1, <2>2, <2>3, <1>2, <1>4, <1>5, <1>6, <1>7, Bounds
  <2> QED  BY <2>3, <2>4, <2>5, <2>6 DEF Kept
<1>17. CASE Wait
  <2>1. At(<<"wait">>) /\ Pos = 5 + 3 * N /\ (Go)
    BY <1>0, <1>17, Places DEF Wait, Kubectl
  <2>2. Run /\ (Kept => DrainIInv')
    BY <2>1, <1>1
  <2>3. UNCHANGED <<marked, snap, deploys, nodeVars, lost>>
    BY <1>17 DEF Wait, scriptVars
  <2>0. UNCHANGED <<cordoned, heals, replicas, pod>> /\ marked' \in BOOLEAN
    BY <1>0, <2>3 DEF nodeVars, DrainTypeOK
  <2>4. DrainTypeOK' /\ Cordoned'
    BY <2>0, <2>1, <2>2, <2>3, <1>7, <1>8, Bounds
  <2>9. Scaled' /\ Snapped'
    BY <2>0, <2>1, <2>2, <2>3, <1>2, <1>3, Bounds
  <2>5. Rolled' /\ Judged'
    BY <2>1, <2>2, <1>4, <1>5, <1>6, Bounds
  <2> QED  BY <2>2, <2>4, <2>5, <2>9 DEF Kept
<1>18. CASE Remaining
  <2>1. At(<<"remaining">>) /\ Pos = 6 + 3 * N /\ (Go \/ Die)
    BY <1>0, <1>18, Places DEF Remaining, Kubectl
  <2>2. Run /\ (Kept => DrainIInv')
    BY <2>1, <1>1
  <2>3. UNCHANGED <<marked, snap, deploys, nodeVars, lost>>
    BY <1>18 DEF Remaining, scriptVars
  <2>0. UNCHANGED <<cordoned, heals, replicas, pod>> /\ marked' \in BOOLEAN
    BY <1>0, <2>3 DEF nodeVars, DrainTypeOK
  <2>4. DrainTypeOK' /\ Cordoned'
    BY <2>0, <2>1, <2>2, <2>3, <1>7, <1>8, Bounds
  <2>9. Scaled' /\ Snapped'
    BY <2>0, <2>1, <2>2, <2>3, <1>2, <1>3, Bounds
  <2>5. Rolled'
    <3>1. CASE Pos' = MeasurePlace
      <4>1. ~(Die)
        BY <1>0, <2>1, <3>1, CommandMoves, Bounds
      <4>2. \A a \in AppSet : pod[a] = "gone"
        BY <1>18, <4>1 DEF Remaining
      <4> QED  BY <1>0, <2>1, <2>2, <2>3, <4>2, <3>1, Bounds DEF Rolled, Run, nodeVars
    <3>2. CASE Pos' # MeasurePlace
      BY <2>1, <2>2, <3>2, <1>5, Bounds
    <3> QED  BY <3>1, <3>2
  <2>6. Judged'
    BY <2>1, <2>2, <1>6, Bounds
  <2> QED  BY <2>2, <2>4, <2>5, <2>6, <2>9 DEF Kept
<1>19. CASE Assert
  <2>1. At(<<"assert">>) /\ Pos = AssertPlace /\ (Die \/ (script' = Tail(script) /\ failed' = (failed \/ ~results.exists \/ ~results.closed \/ results.resets # 0)))
    BY <1>0, <1>19, Places DEF Assert, Kubectl
  <2>2. Run /\ (Kept => DrainIInv')
    <3>1. Die \/ ((failed => failed') /\ failed' \in BOOLEAN)
      BY <2>1
    <3> QED  BY <2>1, <3>1, <1>1
  <2>3. UNCHANGED <<marked, snap, deploys, nodeVars, lost>>
    BY <1>19 DEF Assert, scriptVars
  <2>0. UNCHANGED <<cordoned, heals, replicas, pod>> /\ marked' \in BOOLEAN
    BY <1>0, <2>3 DEF nodeVars, DrainTypeOK
  <2>4. DrainTypeOK' /\ Cordoned'
    BY <2>0, <2>1, <2>2, <2>3, <1>7, <1>8, Bounds
  <2>9. Scaled' /\ Snapped'
    BY <2>0, <2>1, <2>2, <2>3, <1>2, <1>3, Bounds
  <2>5. Rolled'
    BY <2>1, <2>2, <1>4, <1>5, Bounds
  <2>6. Judged'
    <3>1. ~failed' => results.resets = 0
      BY <2>1 DEF Die
    <3> QED  BY <1>0, <2>2, <3>1 DEF Judged, Run
  <2> QED  BY <2>2, <2>4, <2>5, <2>6, <2>9 DEF Kept
<1>20. CASE RenderReport
  <2>1. At(<<"report">>) /\ Pos = Last /\ (script' = Tail(script) /\ failed' \in {failed, TRUE})
    BY <1>0, <1>20, Places DEF RenderReport, Kubectl
  <2>2. Run /\ (Kept => DrainIInv')
    <3>0. failed' = failed \/ failed' = TRUE
      BY <2>1, Zenon
    <3>1. (failed => failed') /\ failed' \in BOOLEAN
      BY <1>0, <3>0 DEF DrainTypeOK
    <3> QED  BY <2>1, <3>1, <1>1
  <2>3. UNCHANGED <<marked, snap, deploys, nodeVars, lost>>
    BY <1>20 DEF RenderReport, scriptVars
  <2>0. UNCHANGED <<cordoned, heals, replicas, pod>> /\ marked' \in BOOLEAN
    BY <1>0, <2>3 DEF nodeVars, DrainTypeOK
  <2>4. DrainTypeOK' /\ Cordoned'
    BY <2>0, <2>1, <2>2, <2>3, <1>7, <1>8, Bounds
  <2>9. Scaled' /\ Snapped'
    BY <2>0, <2>1, <2>2, <2>3, <1>2, <1>3, Bounds
  <2>5. Rolled' /\ Judged'
    BY <2>1, <2>2, <1>4, <1>5, <1>6, Bounds
  <2> QED  BY <2>2, <2>4, <2>5, <2>9 DEF Kept
<1> QED
  BY <1>10, <1>11, <1>12, <1>13, <1>14, <1>15, <1>16, <1>17, <1>18, <1>19, <1>20 DEF Commands

-----------------------------------------------------------------------------
\* restore() has a call for all there is.
LEMMA RestoreCallsAre ==
  /\ RestoreCalls \in Seq(RestoreCommand)
  /\ <<"uncordon">> \in Elements(RestoreCalls)
  /\ \A a \in AppSet : /\ <<"scale", a>> \in Elements(RestoreCalls)
                       /\ <<"heal", a>> \in Elements(RestoreCalls)
<1> DEFINE S1 == Each("scale")
           S2 == Each("heal")
           S3 == <<<<"uncordon">>>>
           R == S1 \o S2
<1>1. \A a \in AppSet : <<"scale", a>> \in RestoreCommand /\ <<"heal", a>> \in RestoreCommand
  BY DEF RestoreCommand
<1>2. /\ S1 \in Seq(RestoreCommand) /\ Len(S1) = N
      /\ \A i \in 1..N : S1[i] = <<"scale", Apps[i]>>
      /\ S2 \in Seq(RestoreCommand) /\ Len(S2) = N
      /\ \A i \in 1..N : S2[i] = <<"heal", Apps[i]>>
  BY <1>1, EachIs, Zenon
<1>3. S3 \in Seq(RestoreCommand) /\ Len(S3) = 1 /\ S3[1] = <<"uncordon">>
  <2>1. <<"uncordon">> \in RestoreCommand
    BY DEF RestoreCommand
  <2> HIDE DEF RestoreCommand
  <2> QED  BY <2>1
<1>0. RestoreCalls = R \o S3
  BY DEF RestoreCalls
<1> HIDE DEF S1, S2, S3, R
<1>4. /\ R \in Seq(RestoreCommand) /\ Len(R) = Len(S1) + Len(S2)
      /\ \A i \in 1..Len(S1) : R[i] = S1[i]
      /\ \A i \in 1..Len(S2) : R[Len(S1) + i] = S2[i]
  <2>1. S1 \in Seq(RestoreCommand) /\ S2 \in Seq(RestoreCommand)
    BY <1>2
  <2> QED  BY <2>1, Joined DEF R
<1>5. /\ RestoreCalls \in Seq(RestoreCommand) /\ Len(RestoreCalls) = Len(R) + Len(S3)
      /\ \A i \in 1..Len(R) : RestoreCalls[i] = R[i]
      /\ \A i \in 1..Len(S3) : RestoreCalls[Len(R) + i] = S3[i]
  <2>1. R \in Seq(RestoreCommand) /\ S3 \in Seq(RestoreCommand)
    BY <1>3, <1>4
  <2> QED  BY <1>0, <2>1, Joined
<1>6. ASSUME NEW i \in 1..N
      PROVE  /\ <<"scale", Apps[i]>> \in Elements(RestoreCalls)
             /\ <<"heal", Apps[i]>> \in Elements(RestoreCalls)
  <2>1. /\ i \in 1..Len(RestoreCalls) /\ N + i \in 1..Len(RestoreCalls)
        /\ i \in 1..Len(R) /\ N + i \in 1..Len(R)
    BY <1>2, <1>3, <1>4, <1>5, AppsAre
  <2>2. RestoreCalls[i] = <<"scale", Apps[i]>> /\ RestoreCalls[N + i] = <<"heal", Apps[i]>>
    BY <2>1, <1>2, <1>4, <1>5
  <2> QED  BY <2>1, <2>2 DEF Elements
<1>7. <<"uncordon">> \in Elements(RestoreCalls)
  <2>1. Len(R) + 1 \in 1..Len(RestoreCalls) /\ RestoreCalls[Len(R) + 1] = <<"uncordon">>
    BY <1>2, <1>3, <1>4, <1>5, AppsAre
  <2> QED  BY <2>1 DEF Elements
<1> QED  BY <1>5, <1>6, <1>7, AppsAre

\* The call that is made, and those that are left.
LEMMA CallsLeft ==
  ASSUME NEW S, NEW s \in Seq(S), s # <<>>
  PROVE  /\ Head(s) \in S /\ Tail(s) \in Seq(S)
         /\ \A c \in Elements(s) : c = Head(s) \/ c \in Elements(Tail(s))
<1>1. /\ Head(s) \in S /\ Tail(s) \in Seq(S) /\ Len(Tail(s)) = Len(s) - 1
      /\ \A i \in 1..Len(Tail(s)) : Tail(s)[i] = s[i + 1]
      /\ Len(s) \in Nat \ {0} /\ Head(s) = s[1]
  BY HeadTailProperties, LenProperties, EmptySeq
<1>2. ASSUME NEW i \in 1..Len(s), i # 1 PROVE s[i] \in Elements(Tail(s))
  <2>1. i - 1 \in 1..Len(Tail(s)) /\ Tail(s)[i - 1] = s[i]
    BY <1>1, <1>2
  <2> QED  BY <2>1 DEF Elements
<1> QED  BY <1>1, <1>2 DEF Elements

\* One call of restore() puts back one thing, or is lost, or had nothing to do.
LEMMA RestoreCallDoes ==
  ASSUME DrainTypeOK, RestoreCall, NEW call, call = Head(todo)
  PROVE  /\ call = <<"uncordon">> =>
              /\ UNCHANGED <<heals, replicas>>
              /\ \/ cordoned' = FALSE /\ lost' = lost \ {call}
                 \/ UNCHANGED cordoned /\ lost' = lost \cup {call}
                 \/ ~marked /\ UNCHANGED <<cordoned, lost>>
         /\ \A a \in AppSet : call = <<"scale", a>> =>
              /\ UNCHANGED <<heals, cordoned>>
              /\ \/ replicas' = [replicas EXCEPT ![a] = 1] /\ lost' = lost \ {call}
                 \/ UNCHANGED replicas /\ lost' = lost \cup {call}
                 \/ a \notin deploys /\ UNCHANGED <<replicas, lost>>
         /\ \A a \in AppSet : call = <<"heal", a>> =>
              /\ UNCHANGED <<replicas, cordoned>>
              /\ \/ /\ snap[a] # "" /\ heals' = [heals EXCEPT ![a] = snap[a]]
                    /\ lost' = lost \ {call}
                 \/ UNCHANGED heals /\ lost' = lost \cup {call}
                 \/ snap[a] = "" /\ UNCHANGED <<heals, lost>>
         /\ call = <<"uncordon">> \/ \E a \in AppSet : call = <<"scale", a>> \/ call = <<"heal", a>>
<1>1. call \in RestoreCommand
  BY CallsLeft DEF DrainTypeOK, RestoreCall
<1>2. \/ Recorded(call) /\ Restored(call) /\ lost' = lost \ {call}
      \/ lost' = lost \cup {call} /\ UNCHANGED <<cordoned, heals, replicas>>
      \/ ~Recorded(call) /\ UNCHANGED <<lost, cordoned, heals, replicas>>
  BY DEF RestoreCall
<1>3. ASSUME call = <<"uncordon">>
      PROVE  /\ UNCHANGED <<heals, replicas>>
             /\ \/ cordoned' = FALSE /\ lost' = lost \ {call}
                \/ UNCHANGED cordoned /\ lost' = lost \cup {call}
                \/ ~marked /\ UNCHANGED <<cordoned, lost>>
  <2>1. call[1] = "uncordon"
    BY <1>3
  <2>2. (Recorded(call) <=> marked)
    BY <2>1 DEF Recorded
  <2>3. Restored(call) => cordoned' = FALSE /\ UNCHANGED <<heals, replicas>>
    BY <2>1 DEF Restored
  <2> QED  BY <1>2, <2>2, <2>3
<1>4. ASSUME NEW a \in AppSet, call = <<"scale", a>>
      PROVE  /\ UNCHANGED <<heals, cordoned>>
             /\ \/ replicas' = [replicas EXCEPT ![a] = 1] /\ lost' = lost \ {call}
                \/ UNCHANGED replicas /\ lost' = lost \cup {call}
                \/ a \notin deploys /\ UNCHANGED <<replicas, lost>>
  <2>1. call[1] = "scale" /\ call[2] = a
    BY <1>4
  <2>2. Recorded(call) <=> a \in deploys
    BY <2>1 DEF Recorded
  <2>3. Restored(call) => replicas' = [replicas EXCEPT ![a] = 1] /\ UNCHANGED <<cordoned, heals>>
    BY <2>1 DEF Restored
  <2> QED  BY <1>2, <2>2, <2>3
<1>5. ASSUME NEW a \in AppSet, call = <<"heal", a>>
      PROVE  /\ UNCHANGED <<replicas, cordoned>>
             /\ \/ /\ snap[a] # "" /\ heals' = [heals EXCEPT ![a] = snap[a]]
                   /\ lost' = lost \ {call}
                \/ UNCHANGED heals /\ lost' = lost \cup {call}
                \/ snap[a] = "" /\ UNCHANGED <<heals, lost>>
  <2>1. call[1] = "heal" /\ call[2] = a
    BY <1>5
  <2>2. Recorded(call) <=> snap[a] # ""
    BY <2>1 DEF Recorded
  <2>3. Restored(call) => /\ heals' = [heals EXCEPT ![a] = snap[a]]
                          /\ UNCHANGED <<cordoned, replicas>>
    BY <2>1 DEF Restored
  <2> QED  BY <1>2, <2>2, <2>3
<1>6. call = <<"uncordon">> \/ \E a \in AppSet : call = <<"scale", a>> \/ call = <<"heal", a>>
  BY <1>1 DEF RestoreCommand
<1> QED  BY <1>1, <1>3, <1>4, <1>5, <1>6

\* A call of restore() keeps the invariant: it puts back what was, or is lost.
LEMMA RestoreCallKeeps == DrainIInv /\ RestoreCall => DrainIInv'
<1> SUFFICES ASSUME DrainIInv, RestoreCall PROVE DrainIInv'
  OBVIOUS
<1> DEFINE call == Head(todo)
<1>0. /\ Where /\ DrainTypeOK /\ Cordoned /\ Scaled /\ Snapped /\ Leaving /\ Rolled
      /\ Judged /\ Process
  BY DEF DrainIInv
<1>1. /\ UNCHANGED <<vars, script, exiting, marked, snap, deploys, failed, pod>>
      /\ UNCHANGED <<hit, logged, results>>
  BY DEF RestoreCall, scriptVars, rollVars
<1>2. Where' /\ Pos' = Pos /\ Forward
  <2>1. Where' /\ Pos' = Pos
    BY <1>0, <1>1, Moves
  <2> QED  BY <1>0, <2>1 DEF Forward, Where
<1>3. Judged' /\ Process'
  BY <1>0, <1>1, <1>2, JudgedFrame, ProcessFrame, Bounds
<1>4. /\ todo' \in Seq(RestoreCommand)
      /\ \A c \in Elements(todo) : c = call \/ c \in Elements(todo')
  BY <1>0, CallsLeft DEF DrainTypeOK, RestoreCall
<1>9. \A c : lost' \in {lost, lost \cup {call}, lost \ {call}} /\ c # call /\ Pending(c)
             => Pending(c)'
  BY <1>4 DEF Pending
<1>10. /\ \A a, b : <<"scale", a>> = <<"scale", b>> => a = b
       /\ \A a, b : <<"heal", a>> = <<"heal", b>> => a = b
       /\ \A a, b : <<"scale", a>> # <<"heal", b>>
       /\ \A a : <<"uncordon">> # <<"scale", a>> /\ <<"uncordon">> # <<"heal", a>>
  OBVIOUS
<1> HIDE DEF call
<1>5. CASE call = <<"uncordon">>
  <2>1. /\ UNCHANGED <<heals, replicas>>
        /\ \/ cordoned' = FALSE /\ lost' = lost \ {call}
           \/ UNCHANGED cordoned /\ lost' = lost \cup {call}
           \/ ~marked /\ UNCHANGED <<cordoned, lost>>
    BY <1>0, <1>5, RestoreCallDoes DEF call
  <2>2. DrainTypeOK'
    BY <1>0, <1>1, <1>4, <2>1 DEF DrainTypeOK
  <2>3. Cordoned'
    BY <1>0, <1>1, <1>2, <1>5, <2>1 DEF Cordoned
  <2>4. Scaled' /\ Snapped' /\ Rolled'
    BY <1>0, <1>1, <1>2, <2>1, ScaledFrame, SnappedFrame, RolledFrame, Bounds
  <2>5. Leaving'
    <3>1. SUFFICES ASSUME exiting PROVE Leaving'
      BY <1>1 DEF Leaving
    <3>2. cordoned' => Pending(<<"uncordon">>)'
      <4>1. CASE UNCHANGED cordoned /\ lost' = lost \cup {call}
        BY <1>5, <4>1 DEF Pending
      <4>2. CASE ~marked /\ UNCHANGED <<cordoned, lost>>
        <5>1. Pos # 3
          BY <1>0, <3>1, NextCommand, Bounds DEF Leaving
        <5> QED  BY <1>0, <4>2, <5>1 DEF Cordoned, Pending
      <4> QED  BY <2>1, <4>1, <4>2
    <3>3. lost' \in {lost, lost \cup {call}, lost \ {call}}
      BY <2>1
    <3>4. ASSUME NEW b \in AppSet
          PROVE  /\ replicas'[b] = 0 => Pending(<<"scale", b>>)'
                 /\ heals'[b] = "false" /\ b \in Healing => Pending(<<"heal", b>>)'
      BY <1>0, <1>5, <1>9, <1>10, <2>1, <3>1, <3>3 DEF Leaving
    <3> QED  BY <1>0, <1>1, <3>1, <3>2, <3>4 DEF Leaving
  <2> QED  BY <1>2, <1>3, <2>2, <2>3, <2>4, <2>5 DEF DrainIInv
<1>6. ASSUME NEW a \in AppSet, call = <<"scale", a>> PROVE DrainIInv'
  <2>1. /\ UNCHANGED <<heals, cordoned>>
        /\ \/ replicas' = [replicas EXCEPT ![a] = 1] /\ lost' = lost \ {call}
           \/ UNCHANGED replicas /\ lost' = lost \cup {call}
           \/ a \notin deploys /\ UNCHANGED <<replicas, lost>>
    BY <1>0, <1>6, RestoreCallDoes DEF call
  <2>2. /\ replicas' \in [AppSet -> {0, 1}]
        /\ \A b \in AppSet : replicas'[b] = replicas[b] \/ replicas'[b] = 1
        /\ \A b \in AppSet : b # a => replicas'[b] = replicas[b]
    BY <1>0, <2>1 DEF DrainTypeOK
  <2>3. DrainTypeOK'
    BY <1>0, <1>1, <1>4, <2>1, <2>2 DEF DrainTypeOK
  <2>4. Cordoned'
    BY <1>0, <1>1, <1>2, <1>6, <1>10, <2>1 DEF Cordoned
  <2>5. Scaled'
    BY <1>0, <1>1, <1>2, <2>2 DEF Scaled
  <2>6. Rolled'
    BY <1>0, <1>1, <1>2, <2>2 DEF Rolled
  <2>7. Snapped'
    BY <1>0, <1>1, <1>2, <2>1, SnappedFrame, Bounds
  <2>8. Leaving'
    <3>1. SUFFICES ASSUME exiting PROVE Leaving'
      BY <1>1 DEF Leaving
    <3>2. lost' \in {lost, lost \cup {call}, lost \ {call}}
      BY <2>1
    <3>3. cordoned' => Pending(<<"uncordon">>)'
      BY <1>0, <1>6, <1>9, <1>10, <2>1, <3>1, <3>2 DEF Leaving
    <3>4. ASSUME NEW b \in AppSet, replicas'[b] = 0 PROVE Pending(<<"scale", b>>)'
      <4>1. replicas[b] = 0
        BY <2>2, <3>4
      <4>2. CASE b = a
        <5>1. a \in deploys
          BY <1>0, <4>1, <4>2 DEF Scaled
        <5>2. replicas' # [replicas EXCEPT ![a] = 1]
          <6>1. SUFFICES ASSUME replicas' = [replicas EXCEPT ![a] = 1] PROVE FALSE
            OBVIOUS
          <6>2. replicas'[a] = 1
            BY <1>0, <6>1 DEF DrainTypeOK
          <6>3. replicas'[a] = 0
            BY <3>4, <4>2
          <6> QED  BY <6>2, <6>3
        <5>3. lost' = lost \cup {call}
          BY <2>1, <5>1, <5>2
        <5> QED  BY <1>6, <4>2, <5>3 DEF Pending
      <4>3. CASE b # a
        BY <1>0, <1>6, <1>9, <1>10, <3>1, <3>2, <4>1, <4>3 DEF Leaving
      <4> QED  BY <4>2, <4>3
    <3>5. ASSUME NEW b \in AppSet, heals'[b] = "false", b \in Healing
          PROVE  Pending(<<"heal", b>>)'
      BY <1>0, <1>6, <1>9, <1>10, <2>1, <3>1, <3>2, <3>5 DEF Leaving
    <3> QED  BY <1>0, <1>1, <3>1, <3>3, <3>4, <3>5 DEF Leaving
  <2> QED  BY <1>2, <1>3, <2>3, <2>4, <2>5, <2>6, <2>7, <2>8 DEF DrainIInv
<1>7. ASSUME NEW a \in AppSet, call = <<"heal", a>> PROVE DrainIInv'
  <2>1. /\ UNCHANGED <<replicas, cordoned>>
        /\ \/ /\ snap[a] # "" /\ heals' = [heals EXCEPT ![a] = snap[a]]
              /\ lost' = lost \ {call}
           \/ UNCHANGED heals /\ lost' = lost \cup {call}
           \/ snap[a] = "" /\ UNCHANGED <<heals, lost>>
    BY <1>0, <1>7, RestoreCallDoes DEF call
  <2>2. /\ heals' \in [AppSet -> {"true", "false"}]
        /\ \A b \in AppSet : b # a => heals'[b] = heals[b]
        /\ heals'[a] = heals[a] \/ (heals'[a] = snap[a] /\ snap[a] # "")
    <3>1. heals \in [AppSet -> {"true", "false"}] /\ snap[a] \in {"", "true", "false"}
      BY <1>0 DEF DrainTypeOK
    <3>2. CASE snap[a] # "" /\ heals' = [heals EXCEPT ![a] = snap[a]]
      BY <3>1, <3>2
    <3>3. CASE heals' = heals
      BY <3>1, <3>3
    <3> QED  BY <2>1, <3>2, <3>3
  <2>3. DrainTypeOK'
    BY <1>0, <1>1, <1>4, <2>1, <2>2 DEF DrainTypeOK
  <2>4. Cordoned'
    BY <1>0, <1>1, <1>2, <1>7, <1>10, <2>1 DEF Cordoned
  <2>5. Scaled' /\ Rolled'
    <3>1. UNCHANGED <<deploys, replicas, hit, logged, pod>>
      BY <1>1, <2>1
    <3> QED  BY <1>0, <1>2, <3>1, ScaledFrame, RolledFrame, Bounds
  <2>6. \A b \in AppSet \cap Healing : heals'[b] = heals[b] \/ heals'[b] = "true"
    BY <1>0, <2>2 DEF Snapped, DrainTypeOK
  <2>7. Snapped'
    BY <1>0, <1>1, <1>2, <2>6 DEF Snapped
  <2>8. Leaving'
    <3>1. SUFFICES ASSUME exiting PROVE Leaving'
      BY <1>1 DEF Leaving
    <3>2. lost' \in {lost, lost \cup {call}, lost \ {call}}
      BY <2>1
    <3>3. cordoned' => Pending(<<"uncordon">>)'
      BY <1>0, <1>7, <1>9, <1>10, <2>1, <3>1, <3>2 DEF Leaving
    <3>4. ASSUME NEW b \in AppSet, replicas'[b] = 0 PROVE Pending(<<"scale", b>>)'
      BY <1>0, <1>7, <1>9, <1>10, <2>1, <3>1, <3>2, <3>4 DEF Leaving
    <3>5. ASSUME NEW b \in AppSet, heals'[b] = "false", b \in Healing
          PROVE  Pending(<<"heal", b>>)'
      <4>1. heals[b] = "false" /\ snap[b] # "" /\ snap[b] # "false"
        BY <1>0, <2>6, <3>5 DEF Snapped
      <4>2. CASE b = a
        <5>1. lost' = lost \cup {call}
          BY <1>0, <2>1, <3>5, <4>1, <4>2 DEF DrainTypeOK
        <5> QED  BY <1>7, <4>2, <5>1 DEF Pending
      <4>3. CASE b # a
        BY <1>0, <1>7, <1>9, <1>10, <3>1, <3>2, <3>5, <4>1, <4>3 DEF Leaving
      <4> QED  BY <4>2, <4>3
    <3> QED  BY <1>0, <1>1, <3>1, <3>3, <3>4, <3>5 DEF Leaving
  <2> QED  BY <1>2, <1>3, <2>3, <2>4, <2>5, <2>7, <2>8 DEF DrainIInv
<1>8. call = <<"uncordon">> \/ \E a \in AppSet : call = <<"scale", a>> \/ call = <<"heal", a>>
  BY <1>0, RestoreCallDoes DEF call
<1> QED  BY <1>5, <1>6, <1>7, <1>8

\* A trap starts, with everything to restore; at the end it is the EXIT trap.
LEMMA TrapStartKeeps ==
  ASSUME DrainIInv, todo' = RestoreCalls, exiting' = exiting \/ exiting' = TRUE,
         ~exiting, exiting' => script = <<>>,
         UNCHANGED <<vars, script, scriptVars, failed, nodeVars, rollVars, lost>>
  PROVE  DrainIInv'
<1>0. /\ Where /\ DrainTypeOK /\ Cordoned /\ Scaled /\ Snapped /\ Rolled /\ Judged /\ Process
  BY DEF DrainIInv
<1>1. UNCHANGED <<marked, snap, deploys, failed, cordoned, heals, replicas, pod, hit, logged,
                  results, lost>>
  BY DEF scriptVars, nodeVars, rollVars
<1>2. Where' /\ Pos' = Pos /\ Forward
  <2>1. Where' /\ Pos' = Pos
    BY <1>0, Moves
  <2> QED  BY <1>0, <2>1 DEF Forward, Where
<1>3. Judged' /\ Process' /\ Cordoned' /\ Scaled' /\ Snapped' /\ Rolled'
  BY <1>0, <1>1, <1>2, JudgedFrame, ProcessFrame, CordonedFrame, ScaledFrame, SnappedFrame,
     RolledFrame, Bounds
<1>4. DrainTypeOK'
  BY <1>0, <1>1, RestoreCallsAre DEF DrainTypeOK
<1>5. Leaving'
  <2>1. \A c : c \in Elements(RestoreCalls) => Pending(c)'
    BY DEF Pending
  <2> QED  BY <2>1, RestoreCallsAre DEF Leaving
<1> QED  BY <1>2, <1>3, <1>4, <1>5 DEF DrainIInv

\* A trap keeps the invariant.
LEMMA TrapsKeep == DrainIInv /\ (Traps \/ ScriptSignal) => DrainIInv'
<1> SUFFICES ASSUME DrainIInv, Traps \/ ScriptSignal PROVE DrainIInv'
  OBVIOUS
<1>1. CASE RunPending
  BY <1>1, TrapStartKeeps DEF RunPending
<1>2. CASE ExitTrap
  BY <1>2, TrapStartKeeps DEF ExitTrap
<1>3. CASE ScriptSignal
  BY <1>3, TrapStartKeeps DEF ScriptSignal
<1> QED  BY <1>1, <1>2, <1>3, RestoreCallKeeps DEF Traps

-----------------------------------------------------------------------------
\* There are finitely many Applications.
LEMMA AppsFinite == IsFiniteSet(AppSet)
<1>1. IsFiniteSet(1..N)
  BY AppsAre, FS_Interval
<1>2. Apps \in Surjection(1..N, AppSet)
  <2>1. Apps \in [1..N -> AppSet]
    BY AppsAre, AppsAssumption DEF N
  <2> QED  BY <2>1, AppsAre DEF Surjection
<1> QED  BY <1>1, <1>2, FS_Surjection

\* What the harness writes tells of every pod that was hit.
LEMMA WrittenTruly ==
  ASSUME DrainTypeOK, Rolled, WriteResults,
         results.fresh /\ results.complete /\ results.resets = 0 => ~results.harm
  PROVE  results'.fresh /\ results'.complete /\ results'.resets = 0 => ~results'.harm
<1>1. CASE UNCHANGED results
  BY <1>1
<1>2. ASSUME NEW exists \in BOOLEAN, NEW closed \in BOOLEAN, NEW complete \in BOOLEAN,
             results' = [exists |-> exists, closed |-> closed, complete |-> complete,
                         fresh |-> TRUE, harm |-> hit # {},
                         resets |-> IF complete THEN Cardinality(logged) ELSE 0]
      PROVE  results'.complete /\ results'.resets = 0 => ~results'.harm
  <2>1. /\ results'.complete = complete /\ results'.harm = (hit # {})
        /\ results'.resets = IF complete THEN Cardinality(logged) ELSE 0
    BY <1>2
  <2>2. IsFiniteSet(logged)
    BY AppsFinite, FS_Subset DEF DrainTypeOK, Rolled
  <2>3. Cardinality(logged) = 0 => hit = {}
    BY <2>2, FS_EmptySet DEF Rolled
  <2> QED  BY <2>1, <2>3
<1> QED  BY <1>1, <1>2 DEF WriteResults

\* A step of the harness process, or of what heals mesh, during the measurement.
LEMMA MeasureKeeps ==
  ASSUME DrainIInv, At(<<"measure">>), [Next]_vars,
         UNCHANGED <<script, todo, exiting, scriptVars, failed, nodeVars, hit, logged, lost>>,
         UNCHANGED results \/ WriteResults
  PROVE  DrainIInv'
<1>0. /\ Where /\ DrainTypeOK /\ Cordoned /\ Scaled /\ Snapped /\ Leaving /\ Rolled
      /\ Judged /\ Process
  BY DEF DrainIInv
<1>1. UNCHANGED <<marked, snap, deploys, cordoned, heals, replicas, pod>>
  BY DEF scriptVars, nodeVars
<1>2. Where' /\ Pos' = Pos /\ Pos = MeasurePlace /\ Forward /\ ~exiting
  <2>1. Where' /\ Pos' = Pos /\ Pos = MeasurePlace /\ ~exiting
    BY <1>0, Moves, Places
  <2> QED  BY <1>0, <2>1 DEF Forward, Where
<1>3. DrainTypeOK' /\ Leaving'
  BY <1>0, <1>1, <1>2 DEF DrainTypeOK, Leaving
<1>4. Cordoned' /\ Scaled' /\ Snapped' /\ Rolled'
  BY <1>0, <1>1, <1>2, CordonedFrame, ScaledFrame, SnappedFrame, RolledFrame, Bounds
<1>5. Judged'
  <2>1. ~(Pos' > AssertPlace)
    BY <1>2, Bounds
  <2> QED  BY <1>0, <2>1, WrittenTruly DEF Judged
<1>6. Process'
  <2>1. IInv
    BY <1>0, <1>2, Bounds DEF Process
  <2> QED  BY <2>1, IInvNext DEF Process
<1> QED  BY <1>2, <1>3, <1>4, <1>5, <1>6 DEF DrainIInv

\* A step of the harness process keeps the invariant.
LEMMA ProcessKeeps == DrainIInv /\ (MeasureSignal \/ Harness \/ MeshHeals) => DrainIInv'
<1> SUFFICES ASSUME DrainIInv, MeasureSignal \/ Harness \/ MeshHeals PROVE DrainIInv'
  OBVIOUS
<1>1. CASE MeasureSignal
  <2>1. /\ At(<<"measure">>) /\ [Next]_vars
        /\ UNCHANGED <<script, todo, exiting, scriptVars, failed, nodeVars, hit, logged, lost>>
        /\ UNCHANGED results
    BY <1>1 DEF MeasureSignal, Next, rollVars
  <2> QED  BY <2>1, MeasureKeeps
<1>2. CASE Harness
  <2>1. /\ At(<<"measure">>) /\ [Next]_vars
        /\ UNCHANGED <<script, todo, exiting, scriptVars, failed, nodeVars, hit, logged, lost>>
        /\ UNCHANGED results \/ WriteResults
    BY <1>2 DEF Harness, Next, shellVars
  <2> QED  BY <2>1, MeasureKeeps
<1>3. CASE MeshHeals
  <2>1. /\ At(<<"measure">>) /\ [Next]_vars
        /\ UNCHANGED <<script, todo, exiting, scriptVars, failed, nodeVars, hit, logged, lost>>
        /\ UNCHANGED results
    BY <1>3 DEF MeshHeals, Next, rollVars, shellVars
  <2> QED  BY <2>1, MeasureKeeps
<1> QED  BY <1>1, <1>2, <1>3

\* The measurement is over: nothing of the process is left.
LEMMA MeasuredKeeps == DrainIInv /\ Measured => DrainIInv'
<1> SUFFICES ASSUME DrainIInv, Measured PROVE DrainIInv'
  OBVIOUS
<1>0. /\ Where /\ DrainTypeOK /\ Cordoned /\ Scaled /\ Snapped /\ Leaving /\ Rolled
      /\ Judged /\ Process
  BY DEF DrainIInv
<1>1. /\ At(<<"measure">>) /\ Go
      /\ UNCHANGED <<todo, exiting, marked, snap, deploys, cordoned, heals, replicas, pod,
                     results, lost>>
      /\ hit' = {} /\ logged' = {}
  BY DEF Measured, shellVars, scriptVars, nodeVars
<1>2. /\ Where' /\ Pos' = Pos + 1 /\ failed' = failed /\ Pos = MeasurePlace
      /\ Forward /\ ~exiting
  <2>1. /\ Where' /\ Pos' = Pos + 1 /\ failed' = failed /\ Pos = MeasurePlace
        /\ ~exiting
    BY <1>0, <1>1, CommandMoves, Places
  <2> QED  BY <1>0, <2>1 DEF Forward, Where
<1>3. DrainTypeOK' /\ Leaving'
  BY <1>0, <1>1, <1>2 DEF DrainTypeOK, Leaving
<1>4. Cordoned' /\ Scaled' /\ Snapped' /\ Judged'
  BY <1>0, <1>1, <1>2, CordonedFrame, ScaledFrame, SnappedFrame, JudgedFrame, Bounds
<1>5. Rolled'
  BY <1>1, <1>2, Bounds DEF Rolled
<1>6. Process'
  <2>1. selfHeal \in BOOLEAN
    BY <1>0, <1>2, Bounds DEF Process, IInv, TypeOK, Flags
  <2>2. Cleared'
    BY <2>1 DEF Measured, Cleared
  <2>3. ~(Pos' <= MeasurePlace)
    BY <1>2, Bounds
  <2> QED  BY <2>2, <2>3 DEF Process
<1> QED  BY <1>2, <1>3, <1>4, <1>5, <1>6 DEF DrainIInv

\* A roll hits pods that are there, and their logs are.
LEMMA TargetDrainsKeeps == DrainIInv /\ TargetDrains => DrainIInv'
<1> SUFFICES ASSUME DrainIInv, TargetDrains PROVE DrainIInv'
  OBVIOUS
<1>0. /\ Where /\ DrainTypeOK /\ Cordoned /\ Scaled /\ Snapped /\ Leaving /\ Rolled
      /\ Judged /\ Process
  BY DEF DrainIInv
<1>1. /\ At(<<"measure">>)
      /\ UNCHANGED <<vars, script, failed, todo, exiting, marked, snap, deploys, cordoned, heals,
                     replicas, pod, results, lost>>
  BY DEF TargetDrains, shellVars, scriptVars, nodeVars
<1>2. Where' /\ Pos' = Pos /\ Pos = MeasurePlace /\ Forward /\ ~exiting
  <2>1. Where' /\ Pos' = Pos /\ Pos = MeasurePlace /\ ~exiting
    BY <1>0, <1>1, Moves, Places
  <2> QED  BY <1>0, <2>1 DEF Forward, Where
<1>3. PICK there \in SUBSET AppSet : hit' = hit \cup there /\ logged' = logged \cup there
  BY DEF TargetDrains
<1>4. DrainTypeOK' /\ Leaving' /\ Rolled'
  BY <1>0, <1>1, <1>2, <1>3 DEF DrainTypeOK, Leaving, Rolled
<1>5. Cordoned' /\ Scaled' /\ Snapped' /\ Judged' /\ Process'
  BY <1>0, <1>1, <1>2, CordonedFrame, ScaledFrame, SnappedFrame, JudgedFrame, ProcessFrame,
     Bounds
<1> QED  BY <1>2, <1>4, <1>5 DEF DrainIInv

\* ArgoCD only turns selfHeal on and replicas up.
LEMMA AppHealsKeeps == DrainIInv /\ AppHeals => DrainIInv'
<1> SUFFICES ASSUME DrainIInv, AppHeals PROVE DrainIInv'
  OBVIOUS
<1>0. /\ Where /\ DrainTypeOK /\ Cordoned /\ Scaled /\ Snapped /\ Leaving /\ Rolled
      /\ Judged /\ Process
  BY DEF DrainIInv
<1>1. /\ UNCHANGED <<vars, script, failed, todo, exiting, marked, snap, deploys, cordoned, pod,
                     hit, logged, results, lost>>
      /\ script # <<>>
  BY DEF AppHeals, Moving, At, shellVars, scriptVars, rollVars
<1>2. Where' /\ Pos' = Pos /\ Forward /\ ~exiting
  <2>1. Where' /\ Pos' = Pos
    BY <1>0, <1>1, Moves
  <2> QED  BY <1>0, <1>1, <2>1 DEF Forward, Where, Leaving
<1>3. PICK a \in AppSet :
        \/ heals' = [heals EXCEPT ![a] = "true"] /\ UNCHANGED replicas
        \/ replicas' = [replicas EXCEPT ![a] = 1] /\ UNCHANGED heals
  BY DEF AppHeals
<1>4. /\ heals' \in [AppSet -> {"true", "false"}] /\ replicas' \in [AppSet -> {0, 1}]
      /\ \A b \in AppSet : /\ heals'[b] = heals[b] \/ heals'[b] = "true"
                           /\ replicas'[b] = replicas[b] \/ replicas'[b] = 1
  BY <1>0, <1>3 DEF DrainTypeOK
<1>5. DrainTypeOK' /\ Leaving'
  BY <1>0, <1>1, <1>2, <1>4 DEF DrainTypeOK, Leaving
<1>6. Scaled'
  BY <1>0, <1>1, <1>2, <1>4 DEF Scaled
<1>7. Snapped'
  <2>1. \A b \in AppSet : heals'[b] = heals[b] \/ heals'[b] = "true"
    BY <1>4
  <2> QED  BY <1>0, <1>1, <1>2, <2>1 DEF Snapped
<1>8. Rolled'
  BY <1>0, <1>1, <1>2, <1>4 DEF Rolled
<1>9. Cordoned' /\ Judged' /\ Process'
  BY <1>0, <1>1, <1>2, CordonedFrame, JudgedFrame, ProcessFrame, Bounds
<1> QED  BY <1>2, <1>5, <1>6, <1>7, <1>8, <1>9 DEF DrainIInv

\* During the measurement a pod can only come back.
LEMMA PodMovesKeeps == DrainIInv /\ PodMoves => DrainIInv'
<1> SUFFICES ASSUME DrainIInv, PodMoves PROVE DrainIInv'
  OBVIOUS
<1>0. /\ Where /\ DrainTypeOK /\ Cordoned /\ Scaled /\ Snapped /\ Leaving /\ Rolled
      /\ Judged /\ Process
  BY DEF DrainIInv
<1>1. /\ UNCHANGED <<vars, script, failed, todo, exiting, marked, snap, deploys, cordoned, heals,
                     replicas, hit, results, lost>>
      /\ script # <<>>
  BY DEF PodMoves, Moving, At, shellVars, scriptVars
<1>2. Where' /\ Pos' = Pos /\ Forward /\ ~exiting
  <2>1. Where' /\ Pos' = Pos
    BY <1>0, <1>1, Moves
  <2> QED  BY <1>0, <1>1, <2>1 DEF Forward, Where, Leaving
<1>3. PICK a \in AppSet :
        \/ pod[a] = "up" /\ replicas[a] = 0 /\ pod' = [pod EXCEPT ![a] = "terminating"]
           /\ UNCHANGED logged
        \/ pod[a] = "terminating" /\ pod' = [pod EXCEPT ![a] = "gone"] /\ logged' = logged \ {a}
        \/ pod[a] = "gone" /\ replicas[a] = 1 /\ pod' = [pod EXCEPT ![a] = "up"]
           /\ UNCHANGED logged
  BY DEF PodMoves
<1>4. DrainTypeOK' /\ Leaving'
  BY <1>0, <1>1, <1>2, <1>3 DEF DrainTypeOK, Leaving
<1>5. Rolled'
  <2>1. CASE Pos = MeasurePlace
    <3>1. pod[a] = "gone" /\ replicas[a] = 1 /\ pod' = [pod EXCEPT ![a] = "up"]
          /\ UNCHANGED logged
      BY <1>0, <1>3, <2>1 DEF Rolled
    <3> QED  BY <1>0, <1>1, <1>2, <2>1, <3>1 DEF Rolled, DrainTypeOK
  <2>2. CASE Pos # MeasurePlace
    <3>1. hit = {} /\ logged = {} /\ logged' = {}
      BY <1>0, <1>3, <2>2 DEF Rolled
    <3> QED  BY <1>1, <1>2, <2>2, <3>1 DEF Rolled
  <2> QED  BY <2>1, <2>2
<1>6. Cordoned' /\ Scaled' /\ Snapped' /\ Judged' /\ Process'
  BY <1>0, <1>1, <1>2, CordonedFrame, ScaledFrame, SnappedFrame, JudgedFrame, ProcessFrame,
     Bounds
<1> QED  BY <1>2, <1>4, <1>5, <1>6 DEF DrainIInv

\* So does no step.
LEMMA StutterKeeps == DrainIInv /\ UNCHANGED drainVars => DrainIInv'
<1> SUFFICES ASSUME DrainIInv, UNCHANGED drainVars PROVE DrainIInv'
  OBVIOUS
<1>0. /\ Where /\ DrainTypeOK /\ Cordoned /\ Scaled /\ Snapped /\ Leaving /\ Rolled
      /\ Judged /\ Process
  BY DEF DrainIInv
<1>1. UNCHANGED <<vars, script, failed, todo, exiting, marked, snap, deploys, cordoned, heals,
                  replicas, pod, hit, logged, results, lost>>
  BY DEF drainVars, shellVars, scriptVars, nodeVars, rollVars
<1>2. Where' /\ Pos' = Pos /\ Forward
  <2>1. Where' /\ Pos' = Pos
    BY <1>0, <1>1, Moves
  <2> QED  BY <1>0, <2>1 DEF Forward, Where
<1>3. DrainTypeOK' /\ Leaving'
  BY <1>0, <1>1 DEF DrainTypeOK, Leaving, Pending
<1>4. Cordoned' /\ Scaled' /\ Snapped' /\ Rolled' /\ Judged' /\ Process'
  BY <1>0, <1>1, <1>2, CordonedFrame, ScaledFrame, SnappedFrame, RolledFrame, JudgedFrame,
     ProcessFrame, Bounds
<1> QED  BY <1>2, <1>3, <1>4 DEF DrainIInv

\* Nothing has been done.
LEMMA InitDrainIInv == DrainInit => DrainIInv
<1> SUFFICES ASSUME DrainInit PROVE DrainIInv
  OBVIOUS
<1>1. Where /\ Pos = 1
  <2>1. Program \in Seq(Command) /\ Len(Program) = Last /\ script = Program
    BY ProgramIs DEF DrainInit
  <2>2. Pos = 1
    BY <2>1, Bounds DEF Pos
  <2>3. script = SubSeq(Program, Pos, Last)
    BY <2>1, <2>2, SubSeqFull
  <2> QED  BY <2>1, <2>2, <2>3, Bounds DEF Where
<1>2. DrainTypeOK
  <2>1. /\ todo = <<>> /\ exiting = FALSE /\ failed = FALSE /\ marked = FALSE
        /\ cordoned = FALSE /\ deploys = {} /\ hit = {}
        /\ snap = [a \in AppSet |-> ""] /\ replicas = [a \in AppSet |-> 1]
        /\ pod = [a \in AppSet |-> "up"]
    BY DEF DrainInit
  <2>2. heals \in [AppSet -> {"true", "false"}]
    BY DEF DrainInit
  <2>3. todo \in Seq(RestoreCommand)
    BY <2>1, EmptySeq
  <2>4. /\ snap \in [AppSet -> {"", "true", "false"}] /\ replicas \in [AppSet -> {0, 1}]
        /\ pod \in [AppSet -> {"up", "terminating", "gone"}]
    BY <2>1
  <2> QED  BY <2>1, <2>2, <2>3, <2>4 DEF DrainTypeOK
<1>3. Cordoned /\ Leaving
  BY DEF DrainInit, Cordoned, Leaving
<1>4. Scaled
  <2>1. ~(ListPlace < Pos)
    BY <1>1, Bounds
  <2>2. replicas = [a \in AppSet |-> 1]
    BY DEF DrainInit
  <2> QED  BY <2>1, <2>2 DEF Scaled
<1>5. Snapped
  <2>1. \A i \in 1..N : ~(3 + i < Pos)
    BY <1>1, Bounds
  <2>2. /\ snap = [a \in AppSet |-> ""]
        /\ heals = [a \in AppSet |-> IF a \in Healing THEN "true" ELSE "false"]
    BY DEF DrainInit
  <2> QED  BY <2>1, <2>2 DEF Snapped
<1>6. Rolled
  BY <1>1, Bounds DEF DrainInit, Rolled
<1>7. Judged
  <2>1. ~(Pos > AssertPlace)
    BY <1>1, Bounds
  <2>2. ~results.fresh
    <3>1. NoFile.fresh = FALSE
      BY DEF NoFile
    <3>2. [NoFile EXCEPT !.exists = TRUE, !.closed = TRUE].fresh = FALSE
      BY DEF NoFile
    <3> HIDE DEF NoFile
    <3> QED  BY <3>1, <3>2 DEF DrainInit
  <2> QED  BY <2>1, <2>2 DEF Judged
<1>8. Process
  BY IInvInit DEF DrainInit, Process
<1> QED  BY <1>1, <1>2, <1>3, <1>4, <1>5, <1>6, <1>7, <1>8 DEF DrainIInv

\* The invariant is inductive.
LEMMA DrainInvariance == DrainSpec => []DrainIInv
<1>1. DrainIInv /\ [DrainNext]_drainVars => DrainIInv'
  BY CommandsKeep, TrapsKeep, ProcessKeeps, MeasuredKeeps, TargetDrainsKeeps, AppHealsKeeps,
     PodMovesKeeps, StutterKeeps DEF DrainNext, ScenarioEnded
<1> QED  BY InitDrainIInv, <1>1, PTL DEF DrainSpec

-----------------------------------------------------------------------------
(* scenario-drain.sh:34-47, 55-74: however the scenario ends and whenever a  *)
(* signal came, the node is schedulable again, the Deployments are scaled   *)
(* back and no Application that healed is left without selfHeal, but for    *)
(* the calls of the last restore() that had no effect.  Restoring takes the *)
(* snapshots before the first suspension, DRAIN_DEPLOYS before the first    *)
(* scaling and DRAIN_CORDONED right after the cordon.                       *)
THEOREM NothingLeftBehind == DrainSpec => []LeavesNothingBehind
<1>1. DrainIInv => LeavesNothingBehind
  <2> SUFFICES ASSUME DrainIInv, Over PROVE LeavesNothingBehind
    BY DEF LeavesNothingBehind
  <2>1. \A c : c \notin Elements(todo)
    BY DEF Over, Elements
  <2>2. Leaving /\ exiting
    BY DEF DrainIInv, Over
  <2> QED  BY <2>1, <2>2 DEF Leaving, Pending, LeavesNothingBehind
<1> QED  BY DrainInvariance, <1>1, PTL

(* scenario-drain.sh:81-114: a scenario that passes on the file of its own   *)
(* measurement, with every log read, has seen no reset of a pod on the       *)
(* target: no pod is there when the measurement starts, and one that came    *)
(* back since still has its log.                                             *)
THEOREM ZeroDrop == DrainSpec => []ZeroDropProven
<1>1. DrainIInv => ZeroDropProven
  <2> SUFFICES ASSUME DrainIInv, Over, ~failed PROVE results.resets = 0
    BY DEF ZeroDropProven, DrainIInv, Judged
  <2>1. script = <<>>
    BY DEF DrainIInv, Leaving, Over
  <2>2. Pos = Last + 1
    BY <2>1, NextCommand DEF DrainIInv
  <2> QED  BY <2>2, Bounds DEF DrainIInv, Judged
<1> QED  BY DrainInvariance, <1>1, PTL

(* The harness process inside the scenario keeps its types, and after it     *)
(* nothing of it is left.                                                    *)
THEOREM ScenarioTypeCorrect == DrainSpec => []TypeOK
<1>1. DrainIInv => TypeOK
  <2>1. Cleared => Locations /\ rolls \in 0..2
    BY DEF Cleared, Locations
  <2>2. Cleared => Flags
    BY DEF Cleared, Flags
  <2> QED  BY <2>1, <2>2 DEF DrainIInv, Process, IInv, TypeOK
<1> QED  BY DrainInvariance, <1>1, PTL

(* trigger_rollout.go:60-100 inside the scenario: signals to the script or   *)
(* to both, and the healing of mesh, change nothing of what the trigger      *)
(* reports.                                                                  *)
THEOREM ScenarioMutationReported == DrainSpec => []MutationIsReported
<1>1. DrainIInv => MutationIsReported
  <2>1. Cleared => MutationIsReported
    BY DEF Cleared, MutationIsReported, Mutated
  <2> QED  BY <2>1, ReportedHolds DEF DrainIInv, Process
<1> QED  BY DrainInvariance, <1>1, PTL
=============================================================================
