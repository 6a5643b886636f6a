--------------------------- MODULE DrainScenario ----------------------------
(***************************************************************************)
(* scenario-drain.sh around the harness process of RolloutRestart: it      *)
(* cordons a node, suspends the selfHeal of the Applications whose pods    *)
(* run there, scales their Deployments to 0, lets the harness roll ztunnel *)
(* and asserts that the node's window counted no reset.  restore() runs    *)
(* when the script exits and when it gets INT or TERM; after a signal the  *)
(* script goes on where it was.                                            *)
(*                                                                         *)
(* The script is the sequence of the commands it has left.  A kubectl      *)
(* succeeds, fails without effect, or fails though it had its effect; one  *)
(* killed by ^C has failed.  set -e turns a failure into an exit unless    *)
(* the command says || true.                                               *)
(***************************************************************************)
EXTENDS RolloutRestart, Sequences, FiniteSets, Functions

CONSTANTS Apps,        \* <<"probe", "load">>: Applications with a pod on the target
          Healing,     \* those found with selfHeal on
          MaxFaults    \* bound on the calls of the script that fail

ASSUME FaultsAssumption == MaxFaults \in Nat
ASSUME AppsAssumption == Apps \in Seq(STRING)

VARIABLES script,      \* the commands left
          todo,        \* the calls restore() has left
          exiting,     \* the EXIT trap has begun
          trapped,     \* INT or TERM came
          pending,     \* its trap waits for the harness to end
          failed,      \* SCEN_FAILED, or an exit before scen_finish
          marked,      \* DRAIN_CORDONED
          snap,        \* DRAIN_SNAP_*, "" before the snapshot
          deploys,     \* DRAIN_DEPLOYS
          cordoned,    \* the target is unschedulable
          heals,       \* selfHeal of each Application
          replicas,    \* of each Deployment
          pod,         \* its pod on the target: up, terminating, gone
          drained,     \* rolls that reached the target's ztunnel and are observed
          hit,         \* history: pods with a connection reset by one
          logged,      \* those whose log, with the reset in it, is still there
          results,     \* results.json; fresh, complete and harm are history
          lost,        \* history: calls of restore() that had no effect
          faults       \* calls of the script that failed

shellVars == <<todo, exiting, trapped, pending>>
scriptVars == <<marked, snap, deploys>>
nodeVars == <<cordoned, heals, replicas, pod>>
rollVars == <<drained, hit, logged, results>>
drainVars == <<vars, script, shellVars, scriptVars, failed, nodeVars, rollVars, lost, faults>>

AppSet == Range(Apps)
Each(verb) == [i \in DOMAIN Apps |-> <<verb, Apps[i]>>]

NoFile == [exists |-> FALSE, closed |-> FALSE, resets |-> 0, complete |-> FALSE,
           fresh |-> FALSE, harm |-> FALSE]

Program ==
  <<<<"resolve">>, <<"cordon">>, <<"mark">>>> \o Each("snapshot") \o Each("suspend")
  \o <<<<"deploys">>>> \o Each("scale")
  \o <<<<"wait">>, <<"remaining">>, <<"measure">>, <<"assert">>, <<"report">>>>

DrainInit ==
  /\ Init
  /\ script = Program
  /\ todo = <<>> /\ exiting = FALSE /\ trapped = FALSE /\ pending = FALSE
  /\ failed = FALSE
  /\ marked = FALSE /\ snap = [a \in AppSet |-> ""] /\ deploys = {}
  /\ cordoned = FALSE
  /\ heals = [a \in AppSet |-> IF a \in Healing THEN "true" ELSE "false"]
  /\ replicas = [a \in AppSet |-> 1] /\ pod = [a \in AppSet |-> "up"]
  /\ drained = 0 /\ hit = {} /\ logged = {}
  /\ results \in {NoFile, [NoFile EXCEPT !.exists = TRUE, !.closed = TRUE]}
  /\ lost = {} /\ faults = 0

-----------------------------------------------------------------------------
Over == exiting /\ todo = <<>>

\* The script is at this command, and no trap is running.
At(command) == todo = <<>> /\ ~exiting /\ script # <<>> /\ Head(script) = command

Go == script' = Tail(script) /\ UNCHANGED failed
Die == script' = <<>> /\ failed' = TRUE

Fault == faults < MaxFaults /\ faults' = faults + 1
NoFault == UNCHANGED faults

\* One kubectl under set -e.
Kubectl(effect, nothing) ==
  \/ effect /\ Go /\ NoFault
  \/ Fault /\ (effect \/ nothing) /\ Die

Resolve ==
  /\ At(<<"resolve">>)
  /\ Kubectl(TRUE, TRUE)
  /\ UNCHANGED <<scriptVars, nodeVars, lost>>

Cordon ==
  /\ At(<<"cordon">>)
  /\ Kubectl(cordoned' = TRUE, UNCHANGED cordoned)
  /\ lost' = IF cordoned' /\ failed' THEN lost \union {<<"uncordon">>} ELSE lost
  /\ UNCHANGED <<scriptVars, heals, replicas, pod>>

Mark ==
  /\ At(<<"mark">>)
  /\ marked' = TRUE
  /\ Go
  /\ UNCHANGED <<snap, deploys, nodeVars, lost, faults>>

\* scen_selfheal_get: "true" when it fails.
Snapshot ==
  \E a \in AppSet :
    /\ At(<<"snapshot", a>>)
    /\ \/ snap' = [snap EXCEPT ![a] = heals[a]] /\ NoFault
       \/ snap' = [snap EXCEPT ![a] = "true"] /\ Fault
    /\ Go
    /\ UNCHANGED <<marked, deploys, nodeVars, lost>>

Suspend ==
  \E a \in AppSet :
    /\ At(<<"suspend", a>>)
    /\ Kubectl(heals' = [heals EXCEPT ![a] = "false"], UNCHANGED heals)
    /\ UNCHANGED <<scriptVars, cordoned, replicas, pod, lost>>

\* scen_deploys_on_node; a list that fails is empty, and an empty list dies.
Deploys ==
  /\ At(<<"deploys">>)
  /\ \/ deploys' = AppSet /\ Go /\ NoFault
     \/ deploys' = {} /\ Die /\ Fault
  /\ UNCHANGED <<marked, snap, nodeVars, lost>>

Scale ==
  \E a \in AppSet :
    /\ At(<<"scale", a>>)
    /\ Kubectl(replicas' = [replicas EXCEPT ![a] = 0], UNCHANGED replicas)
    /\ UNCHANGED <<scriptVars, cordoned, heals, pod, lost>>

\* kubectl wait --for=delete, for 120 s at most, || true.
Wait ==
  /\ At(<<"wait">>)
  /\ Go
  /\ UNCHANGED <<scriptVars, nodeVars, lost, faults>>

\* Mutant: only pods that are not terminating count as remaining.
RemainingUp ==
  /\ At(<<"remaining">>)
  /\ \/ (\A a \in AppSet : pod[a] # "up") /\ Go /\ NoFault
     \/ (\E a \in AppSet : pod[a] = "up") /\ Die /\ NoFault
     \/ Die /\ Fault
  /\ UNCHANGED <<scriptVars, nodeVars, lost>>

Remaining ==
  /\ At(<<"remaining">>)
  /\ \/ (\A a \in AppSet : pod[a] = "gone") /\ Go /\ NoFault
     \/ (\E a \in AppSet : pod[a] # "gone") /\ Die /\ NoFault
     \/ Die /\ Fault
  /\ UNCHANGED <<scriptVars, nodeVars, lost>>

\* [[ -f results.json ]] and the assertions on the target's entries.
Assert ==
  /\ At(<<"assert">>)
  /\ IF results = NoFile
     THEN Die
     ELSE /\ script' = Tail(script)
          /\ failed' = (failed \/ ~results.exists \/ ~results.closed \/ results.resets # 0)
  /\ UNCHANGED <<scriptVars, nodeVars, lost, faults>>

\* harness report, whose failure is one of the scenario; then scen_finish.
RenderReport ==
  /\ At(<<"report">>)
  /\ script' = Tail(script)
  /\ failed' \in {failed, TRUE}
  /\ UNCHANGED <<scriptVars, nodeVars, lost, faults>>

Commands ==
  /\ ~pending
  /\ \/ Resolve \/ Cordon \/ Mark \/ Snapshot \/ Suspend \/ Deploys \/ Scale
     \/ Wait \/ Remaining \/ Assert \/ RenderReport
  /\ UNCHANGED <<vars, shellVars, rollVars>>

-----------------------------------------------------------------------------
\* The calls of restore(), each made if the script had recorded by then that
\* there is something to restore.
RestoreCalls == Each("scale") \o Each("heal") \o <<<<"uncordon">>>>

Recorded(call) ==
  \/ call[1] = "scale" /\ call[2] \in deploys
  \/ call[1] = "heal" /\ snap[call[2]] # ""
  \/ call[1] = "uncordon" /\ marked

Restored(call) ==
  \/ /\ call[1] = "scale"
     /\ replicas' = [replicas EXCEPT ![call[2]] = 1] /\ UNCHANGED <<cordoned, heals>>
  \/ /\ call[1] = "heal"
     /\ heals' = [heals EXCEPT ![call[2]] = snap[call[2]]]
     /\ UNCHANGED <<cordoned, replicas>>
  \/ call[1] = "uncordon" /\ cordoned' = FALSE /\ UNCHANGED <<heals, replicas>>

\* One call of restore(), || true, or one that is passed over.
RestoreCall ==
  /\ todo # <<>>
  /\ todo' = Tail(todo)
  /\ \/ /\ Recorded(Head(todo)) /\ Restored(Head(todo))
        /\ lost' = lost \ {Head(todo)}
        /\ NoFault
     \/ /\ Recorded(Head(todo)) /\ Fault
        /\ lost' = lost \union {Head(todo)}
        /\ UNCHANGED <<cordoned, heals, replicas>>
     \/ /\ ~Recorded(Head(todo)) /\ NoFault
        /\ UNCHANGED <<lost, cordoned, heals, replicas>>
  /\ UNCHANGED <<vars, script, exiting, trapped, pending, scriptVars, failed, pod,
                 rollVars>>

\* The trap of a signal that came while the harness ran; then the script goes on.
RunPending ==
  /\ pending /\ ~At(<<"measure">>) /\ todo = <<>> /\ ~exiting
  /\ pending' = FALSE
  /\ todo' = RestoreCalls
  /\ UNCHANGED <<vars, script, exiting, trapped, scriptVars, failed, nodeVars, rollVars,
                 lost, faults>>

\* Mutant: restore() that runs only once.
ExitTrapOnce ==
  /\ script = <<>> /\ todo = <<>> /\ ~exiting /\ ~pending
  /\ exiting' = TRUE
  /\ todo' = IF trapped THEN <<>> ELSE RestoreCalls
  /\ UNCHANGED <<vars, script, trapped, pending, scriptVars, failed, nodeVars, rollVars,
                 lost, faults>>

ExitTrap ==
  /\ script = <<>> /\ todo = <<>> /\ ~exiting /\ ~pending
  /\ exiting' = TRUE
  /\ todo' = RestoreCalls
  /\ UNCHANGED <<vars, script, trapped, pending, scriptVars, failed, nodeVars, rollVars,
                 lost, faults>>

\* INT between two commands, or TERM: the trap runs before the next command.
ScriptSignal ==
  /\ Signals /\ ~trapped /\ ~exiting /\ todo = <<>> /\ ~At(<<"measure">>)
  /\ trapped' = TRUE
  /\ todo' = RestoreCalls
  /\ UNCHANGED <<vars, script, exiting, pending, scriptVars, failed, nodeVars, rollVars,
                 lost, faults>>

\* During the measurement INT reaches the harness too, which ends by itself:
\* then bash may run its trap or not.  TERM reaches the script alone.
MeasureSignal ==
  /\ Signals /\ ~trapped /\ At(<<"measure">>)
  /\ trapped' = TRUE
  /\ \/ Signal /\ pending' \in BOOLEAN
     \/ UNCHANGED vars /\ pending' = TRUE
  /\ UNCHANGED <<script, todo, exiting, scriptVars, failed, nodeVars, rollVars, lost, faults>>

Traps == RestoreCall \/ RunPending \/ ExitTrap

-----------------------------------------------------------------------------
\* RunMeasure reads the logs of the pods there are, analyzes and writes the
\* file: the window as the watcher saw it, the resets it attributes to it.
\* With the context done no log is read; any log may be lost, and the file too.
WriteResults ==
  \/ ApiMayFail /\ UNCHANGED results
  \/ \E exists, closed, complete \in BOOLEAN :
       /\ exists => drained > 0
       /\ closed => exists
       /\ ~complete => ctxDone \/ ApiMayFail
       /\ complete => ~ctxDone
       /\ results' = [exists |-> exists, closed |-> closed, complete |-> complete,
                      fresh |-> TRUE, harm |-> hit # {},
                      resets |-> IF complete THEN Cardinality(logged) ELSE 0]

\* The process of RolloutRestart, which runs while the script waits for it.
Harness ==
  /\ At(<<"measure">>)
  /\ Main \/ Handler \/ Cancel
  /\ IF main' = "end" /\ main # "end" THEN WriteResults ELSE UNCHANGED results
  /\ UNCHANGED <<script, shellVars, scriptVars, failed, nodeVars, drained, hit, logged,
                 lost, faults>>

\* The process has ended, or could not start, and its exit code only gets a
\* line.  Nothing of it is left, and nobody looks at the rolls any more.
Measured ==
  /\ At(<<"measure">>)
  /\ Ended \/ main = "read"
  /\ Go
  /\ main' = "end" /\ handler' = "unarmed"
  /\ ret' = "none" /\ once' = "free"
  /\ told' = FALSE /\ early' = FALSE /\ prev' = FALSE /\ restoreErr' = FALSE
  /\ signalled' = FALSE /\ caught' = FALSE /\ ctxDone' = FALSE /\ annotated' = FALSE
  /\ rolls' = 0 /\ drained' = 0 /\ hit' = {} /\ logged' = {}
  /\ UNCHANGED <<selfHeal, shellVars, scriptVars, nodeVars, results, lost, faults>>

\* A roll reaches the target while it is observed: connections of its pods are
\* reset.
TargetDrains ==
  /\ At(<<"measure">>) /\ main = "observe"
  /\ drained < rolls
  /\ drained' = drained + 1
  /\ LET there == {a \in AppSet : pod[a] # "gone"}
     IN hit' = hit \union there /\ logged' = logged \union there
  /\ UNCHANGED <<vars, script, shellVars, scriptVars, failed, nodeVars, results, lost, faults>>

\* What happens to mesh outside the measurement touches nothing of the script.
MeshHeals ==
  /\ At(<<"measure">>) /\ ~Ended
  /\ RootHeal \/ MeshHeal
  /\ UNCHANGED <<script, shellVars, scriptVars, failed, nodeVars, rollVars, lost, faults>>

\* What goes on in the namespace commutes with the harness until it observes,
\* and after the measurement it can only help restore().
Moving ==
  \/ At(<<"measure">>) /\ main = "observe"
  \/ script # <<>> /\ Head(script)[1] \in {"deploys", "scale", "wait", "remaining"}

\* demo-root puts the Application back; the Application puts replicas back.
AppHeals ==
  /\ Moving
  /\ \E a \in AppSet :
       \/ /\ RootHeals /\ heals[a] = "false"
          /\ heals' = [heals EXCEPT ![a] = "true"] /\ UNCHANGED replicas
       \/ /\ heals[a] = "true" /\ replicas[a] = 0
          /\ replicas' = [replicas EXCEPT ![a] = 1] /\ UNCHANGED heals
  /\ UNCHANGED <<vars, script, shellVars, scriptVars, failed, cordoned, pod, rollVars,
                 lost, faults>>

\* The Deployment follows its replicas; the nodeName-pinned pod ignores the
\* cordon.  A pod that is gone takes its log with it.
PodMoves ==
  /\ Moving
  /\ \E a \in AppSet :
       \/ /\ pod[a] = "up" /\ replicas[a] = 0
          /\ pod' = [pod EXCEPT ![a] = "terminating"] /\ UNCHANGED logged
       \/ /\ pod[a] = "terminating"
          /\ pod' = [pod EXCEPT ![a] = "gone"] /\ logged' = logged \ {a}
       \/ /\ pod[a] = "gone" /\ replicas[a] = 1
          /\ pod' = [pod EXCEPT ![a] = "up"] /\ UNCHANGED logged
  /\ UNCHANGED <<vars, script, shellVars, scriptVars, failed, cordoned, heals,
                 replicas, drained, hit, results, lost, faults>>

ScenarioEnded == Over /\ UNCHANGED drainVars

DrainNext ==
  \/ Commands \/ Traps \/ ScriptSignal \/ MeasureSignal
  \/ Harness \/ Measured \/ TargetDrains \/ MeshHeals \/ AppHeals \/ PodMoves
  \/ ScenarioEnded

DrainSpec == DrainInit /\ [][DrainNext]_drainVars

\* The script, and the harness while the script waits for it, keep running.
FairDrainSpec == DrainSpec /\ WF_drainVars(Commands \/ Traps \/ Harness \/ Measured)

-----------------------------------------------------------------------------
(* When the scenario is over, however it ended and whenever it was          *)
(* signalled, the node is schedulable, the Deployments are scaled back and  *)
(* no Application that was healing is left without selfHeal - but for the   *)
(* calls of the last restore() that had no effect.                          *)
LeavesNothingBehind ==
  Over =>
    /\ cordoned => <<"uncordon">> \in lost
    /\ \A a \in AppSet :
         /\ replicas[a] = 0 => <<"scale", a>> \in lost
         /\ heals[a] = "false" => a \notin Healing \/ <<"heal", a>> \in lost

(* "ZERO-DROP proven": a scenario that passes on the file of its own         *)
(* measurement, with every log read, has not seen the roll reset a           *)
(* connection of a probe or load pod on the target.                          *)
ZeroDropProven ==
  Over /\ ~failed /\ results.fresh /\ results.complete => ~results.harm

(* Whatever fails, heals or interrupts it, the scenario comes to its end.    *)
ScenarioEnds == <>Over
=============================================================================
