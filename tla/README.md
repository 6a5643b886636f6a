# A formal model of the Istio ambient upgrade lab

The lab upgrades Istio's ztunnel under load and decides, from what per-node probes
saw, whether the upgrade did only the harm it is allowed to do: each long-lived
connection of a node is reset once, in the roll window of that node, and comes
back within a bound, while no new connection fails. These modules model the Go
harness that fires the upgrade, watches it and judges it, and the shell jobs around
it. TLC checks them on small instances; TLAPS proves every invariant and action property
that TLC finds to hold, for every value of the constants.

All paths below without a directory are under `harness/internal/`.

## The system

| Component | State it keeps | Operations | Interacts with |
| --- | --- | --- | --- |
| probe (`live/probe.go`) | one held connection, an id sequence, a readiness gate | hold and trickle, reconnect, try a new connection every interval | echo, through ztunnel; stdout is its log |
| load generator (`load/load.go`) | many workers like the probe's, a counter of those yet to connect | sessions of bounded hold, churn, app-a traffic, shutdown | echo, app-a; stdout |
| probeconn | id sequence, gate, socket | `Next`, `SignalReady`, `HoldAndTrickle`, `Classify` | shared by probe and load |
| roll watcher (`live/rollwatch.go`) | per node: first drain, latest readiness; seen pods | `onPod`, `Windows` | an informer on the ztunnel pods |
| measurement (`live/measure.go`) | run start, trigger result, collected events | wait for probes, trigger, observe, collect logs, analyze, exit code | all of the above, the API server |
| analyzer (`measure/analyze.go`) | none | events and windows to a verdict | measurement |
| rollout-restart trigger (`live/trigger_rollout.go`) | the selfHeal it read, a once-only restore | disable, restart, restore on return or on a signal | ArgoCD Application `mesh`, ztunnel DaemonSet |
| git-bump trigger (`live/trigger_gitbump.go`) | the working copy | edit chart, vendor, publish, repoint, commit, push | registry, Git remote, ArgoCD |
| patch, minor, reset, atomic-sync scenarios (`scripts/scenarios/`) | `results.json`, working copy, a backup of `mesh.yaml` | git-bump or its shell equivalent; float and pin again | harness command line, Git remote, registry |
| drain scenario (`scripts/scenarios/scenario-drain.sh`) | what it cordoned, suspended and scaled | cordon, suspend selfHeal, scale to 0, measure, assert, restore | harness command line, ArgoCD Applications `probe` and `load` |
| report (`report/report.go`) | none | a result to Markdown | analyzer's result |
| client observer (`live/clients.go`) | windows, connect times | resolve pods, SHOW CLIENTS, `/hold`, attribute | pgbouncer, demo apps |
| ArgoCD applications, chart | targetRevision, selfHeal, versions | heal, sync | all triggers |
| demo applications (`demo/app-a`, `app-b`, `app-c`) | a pool, a keepalive connection, a connection parked by `/hold` | connect with retry, keepalive, query, hold | pgbouncer, through ztunnel; the load generator and the observer call them |
| data, observability, bootstrap, scanner | see *Not modelled* | | |

The parts talk in four ways: through the **logs** of pods (emitters to analyzer, via
`collectEvents`), through the **API server** (watcher, triggers), through **files and
Git** (scenarios, git-bump, report) and through **shared memory and signals** within a
process (workers and gate, handler and main).

What is hard here: two goroutines and a signal around one restore; a socket that
breaks while a session ends; a watch that loses its connection; the analyzer's maps
keyed by ids that must therefore be unique; six commands that each may fail half way
with a working copy that persists; shell traps that restore and then let the script go on;
applications that share a pool and a parked connection between requests; and clocks, since the verdict compares the time at which
a reset was *noticed* with a window derived from a pod's `deletionTimestamp`.

What makes each part correct:

* emitters: no reset is made up; ids never come back; every break is followed by its
  recovery; readiness means that every held connection was established; the pool stops;
* watcher: a window starts at the first drain that a watch or a list has shown, a drain is
  missed only if one outage swallowed it whole, and two readings do not contradict each other;
* analyzer: PASS exactly when the harm was the accepted one; every reset is accounted
  for once; the order of input does not matter;
* measurement: it ends; nothing of earlier runs is in it; nothing of this run is missing;
* triggers: what they mutate is restored or reported; the branch never points at a chart
  that does not exist;
* drain scenario: it leaves nothing behind, and proves zero-drop only of a roll that dropped
  nothing;
* demo applications: the protected connection comes back within its bound, and who asks an
  application is served again a second after the reset;
* report and observer: they state what the data says, and nothing more.

## Modules

| Module | Models | Correspondence |
| --- | --- | --- |
| `ConnEvent` | `model.ConnEvent` | an event is a kind and a connection id |
| `HeldStream` | what an emitter promises | abstract: per worker a log, the current id, whether it is open |
| `HeldConn` | held connections of a pod | `pc[w]` is the line of `heldSession`/`HoldAndTrickle` where goroutine `w` is; `sessDone`/`ctxDone` the two contexts; one action per branch of a select, dial, read and write |
| `DrainTiming` | when a reset is noticed | one connection in real seconds: the drain, the ticker, the hold |
| `RollWatcher` | `onPod` under an informer | pods by node and generation, with the `deletionTimestamp` the API server gives them (request plus grace period); the informer's inbox, cache, outages and tombstones; `hidden` remembers the pods whose termination no watch or list has shown yet; the handler is `OnPod` |
| `Analyze` | `measure.Analyze` | pure operators over an input record, one per aggregate of the code |
| `Observation` | what a run observes beside the logs | the clock, the windows and the trigger's result: the variables that the next two share |
| `MeasuredStream` | a measured run | composes `HeldStream` (the log), time stamps, failed new connections and windows into an input of `Analyze` |
| `Report` | `report.Render` | the banner, the checklist cells, the recovery cell, over `MeasuredStream` |
| `MeasureRun` | `RunMeasure` | `phase` is the statement it is at; nodes roll, also two at once, and pods live, crash and restart beside it until the last log is read; what it collects of a log are lines of it, by their place; the verdict is `Analyze`'s |
| `RolloutRestart` | `RunRolloutRestart` | `main`, `handler` are the two goroutines, `once` the sync.Once; each API call has three outcomes: done, not done, done but reported as failed |
| `DrainScenario` | `scenario-drain.sh` | extends `RolloutRestart`, whose process runs while the script is at its `measure` command; `script` is the list of commands left, `todo` that of the calls `restore()` has left; node, Applications, Deployments and pods of the target move beside it |
| `AppPool` | the demo applications | extends `DrainTiming`, whose drain and clock it uses: the idle connections of the pool, the keepalive connection and the held one, each old, new or broken; `pc[r]` is the line of the `/hold` handler where request `r` is. `app` chooses the application, and the actions differ where the three programs do |
| `ChartHop` | `RunGitBump` and the scenario jobs | `pc` is the next command of the job; working copy, index, last commit, remote branch, registry and cluster are variables; `phase` and `backup` those of `scenario-atomic-sync.sh` |
| `ClientObserver` | `ProduceClientObservations` | `phase` is its step; the clients' pools change in between |

`HeldStream` is the seam of the project. `HeldConn` is shown to implement it
(`StreamSpec`, by TLC and by proof), and `MeasuredStream` starts from it, so what is
checked of the analyzer holds for what the emitters write and not for arbitrary
logs. `Analyze` is used unchanged by `MeasuredStream`, `Report` and
`MeasureRun`. `MC*` modules give instances to TLC; the operators commented
`Mutant` restate a definition with a plausible mistake in it, and are used by no
specification: put in the place of the definition, each breaks a
property.

Abstractions that all modules share: an id is a number and a pod or a node a model
value; a keepalive repeated on one connection is one event; names, wording and
layout are left out; a version is a triple ordered as `semverLess` orders it, its run
tag a number (the scripts use `date +%s`, ten digits, so text and number order agree).

## Runs

| Run | Question | Bounds, and why they are enough |
| --- | --- | --- |
| `held_conn` | Do the emitters keep their promise and does the pool start, recover and stop? | 2 workers, 3 connections. The gate needs two workers; the connections of one churn (all workers run the same code and share only the gate and the context); 3 connections give two breaks and two hold ends in any order |
| `watch` | Is a window the first drain the informer was shown, and which drains are missed? | 1 node (the handler keys everything by node), 2 replacements, 1 outage, 2 objects in flight, 2 seconds, grace 1: enough for a second roll, a drain begun or ended in an outage, one begun *and* ended in it, of which a tombstone or nothing arrives, and a tombstone of a drain seen before. 184 595 states |
| `verdict` | Is the verdict right on every log, and does the report say it? | 1 worker, 2 connections, 7 seconds, 1 failed new connection, grace 3 s, tolerance and recovery bound 1 s: a reset before, at, inside, at the end of and after a window, recovered in, at and past the bound. Second 7 is after the tolerated end of the windows that start at 2, so trusted runs have resets that no window takes. 61 824 states. Windows: none, one, half-open, two overlapping, two touching within the tolerance, two apart in either order |
| `rollout` | Is a mutation left behind always reported, does the scenario around it put everything back, and does it end? | 2 Applications (probe, found healing, and load, found suspended), any API failure in the harness, one failed call of the script or of `restore()`, one signal to either, healing at any step; with and without an old `results.json`. 942 712 states. `restore()` treats what it restores one by one, so one failure shows what each leaves behind |
| `timing` | When is the reset reported, and does an application come back after it? | the deployed numbers: drain 115, grace 120, tolerance 2, a hold of 130, both keepalives 20, windows that open with the `deletionTimestamp` at 120; every phase of ticker, session and loop. One held connection, or one application from one period before the reset to six after, 1 refused attempt and 2 requests to `/hold` at a time: two are enough for one to clear what the other was promised. 1 806 854 states |
| `measure_run` | Is a quiet run not failed, is a PASS complete, and does the run end? | up to 2 nodes that roll one after the other or at once, 1 probe (they are independent until `Analyze`), grace 1, 4 seconds, 1 break or failure, 1 container restart, any API failure, an interrupt at any point. What happens in the cluster after the last log was read no longer matters and is cut (`Collecting`) |
| `hop_jobs` | Do branch, registry and chart agree after any failures? | 3 jobs of four kinds, so that a failed job, another over what it left, and a third over both fit: an atomic-sync that floats and dies, the checkout of its commit, a hop from there. Any command fails, with or without its effect, and an atomic-sync is signalled or killed anywhere. 810 449 states |
| `clients_observed` | Does the observer make anything up? | 2 clients on 2 nodes, 6 seconds, grace and tolerance 1: same node or not, both orders; all lookups may fail |

The expected violations, each of one documented statement:

| Run | Statement | What TLC finds |
| --- | --- | --- |
| `rollout_signal` | `trigger_rollout.go:40-41`, the restore is crash-safe | the signal cancels the context the restore uses (`main.go:48`), so selfHeal stays off |
| `measure_interrupt` | `analyze.go:18-20`, an untrusted measurement is an ERROR | the context is cancelled before the pods are listed: the list fails, no event is analyzed and the run passes |
| `timing_window` | `model.go:54-55`, the RST falls inside the window | the window opens with the `deletionTimestamp`, request + 120: with the tolerance it is [118, 242]. A reset noticed in 115 to 117 is a death before the drain, an ERROR |
| `watch_half_open` | `rollwatch.go:123-124`, readyAt is the new pod's | the old pod, listed Ready at the start, closes the window |

Deadlock is checked everywhere except in `watch`, `verdict` and `clients_observed`: there
the clock stops at its bound and nothing else may be left to happen. The other models
have an explicit step for the process that has ended.

Only `held_conn` and `rollout` check a type invariant; the proofs state one for each of their modules. The
other properties are the following.

* `GateHonest`, `GateSignalled`: readiness is neither early nor withheld (`load.go:195-208`).
* `NoFalseReset`: a ConnReset event means the peer reset that very connection.
* `StreamSpec`, `StreamOrdered`: the pod's log is one of `HeldStream`, strictly ordered by
  id and, within an id, keepalive, break, recovery: what the analyzer's pairing of
  the latest reset with the earliest reconnection relies on.
* `BreakRecovered`, `CleanShutdown`: liveness of workers and of the shutdown.
* `DrainExact`, `WindowsOnlyGrow`, `DrainSeen`: the watcher, above. The first is about every reachable state:
  a window is never anything but a drain that was shown, and once the handler has caught up none that was
  shown is missing or late. The last says which drains are shown in the end: all but one of a pod deleted and
  gone within a single outage.
* `PassExact`: the verdict is PASS if and only if the run was acceptable, as stated from
  the logs and windows without ids, attribution or aggregation.
* `ResetsConserved`, `VerdictOrderFree`, `OnlyRecoveryRedeems`: no reset is lost or doubled;
  any order of windows gives the same result; as the log grows only a recovery betters the
  verdict.
* `BannerMatchesRows`, `RowsAreTrue`, `TableMatchesRows`: the report agrees with itself and
  with the logs.
* `MutationIsReported`: below, under *Proofs*.
* `LeavesNothingBehind`, `ZeroDropProven`, `ScenarioEnds`: the drain scenario. The first holds although
  the script goes on after a signal and mutates again: the EXIT trap restores a second time, from what
  was recorded by then (the mutant `ExitTrapOnce` is a `restore()` that runs once). The second fails as
  soon as a terminating pod no longer counts as remaining (`RemainingUp`). The third includes that the two
  goroutines never wait for each other for ever.
* `ResetStamped`, `ResetReported`: the timing of one drain. The event is at most a keepalive later than the RST and
  never after the window, and a reset that no end of session overtakes is reported. That it is not *before*
  the window either is what the code says and `timing_window` refutes.
* `HoldParks`, `KeepaliveBack`, `PoolServes`: an application in it. The bound of `KeepaliveBack`, two
  periods and one for each refused attempt, is tight; one period less is violated. `PoolServes` is about an
  application with traffic, which need not wait for the loop.
* `NoFalseAlarm`, `CompletePass`, `MeasurementEnds`: a run. `NoFalseAlarm` has the one alarm without harm that the code
  means to give, for two nodes that drain at once (`analyze.go:82-84`).
* `BranchIsPublished`, `NoSkew`, `AppliedMoves`, `ChartImmutable`, `BranchRollsForward`: the jobs. Where a
  property sets a case aside (`torn`, `pinned`, `synced`), the run finds the case when it is not.
* `NoResetFromNothing`, `RecoveryNotUnderstated`, `SiblingFlagged`: the observer.

## Fairness

* `HeldConn`: weak fairness of each worker's steps, because goroutines run, tickers fire, and
  dials and reads have deadlines; strong fairness of `CloseSilently`, because a Go select with
  several ready cases picks one at random and cannot pass over `ctx.Done` for ever. `LiveSpec`
  adds that the echo can be reached (strong fairness of a successful dial): only
  `BreakRecovered` and `GateSignalled` need it, and it is an assumption about the environment.
* `RollWatcher`: weak fairness of `List` and `Deliver`: the reflector lists until it succeeds and
  the informer drains its queue. None of the cluster.
* `RolloutRestart`: weak fairness of both goroutines: each call returns. None of signals, of the
  cancellation or of ArgoCD.
* `DrainScenario`: one weak fairness of what the script does, its traps, and the harness while the script
  waits for it: each command returns. None of signals, ArgoCD, the controllers or the roll.
* `DrainTiming`, `AppPool`: weak fairness of `Next`: time passes, and what is due happens.
* `MeasureRun`: weak fairness of the run's own steps: every wait has a timeout and every request
  returns. None of the pods, the trigger's effect or the roll.

## Proofs

Eight modules hold theorems; each is proved for every value of the constants, from the
`ASSUME`s of the component's module only (workers a finite set, bounds natural numbers,
flags booleans), which TLC evaluates in every run. Where a bound holds for some constants
only, the condition is a hypothesis of the theorem with a name of its own. The inductive
invariant of each module was checked by TLC on the instance of its run before it was proved.

* **`HeldStreamProofs`.** `StreamIsOrdered`. The ordering is not inductive: it does not say
  what may still be appended. `StreamInv` adds that all events are of established connections,
  and that those of the current one are keepalives as long as it is open and never a
  recovery. A lemma says when appending to an ordered log keeps it ordered.
* **`HeldConnProofs`.** The invariant `HeldInv` has, per worker, `SeqInv` (the id sequence counts
  connections, and `onFirstConn` fired with the first), `BoundInv` (where a worker may still dial
  the bound leaves room), `SockInv` (a held connection has a socket) and `ResetInv` (events name
  established connections, resets reset ones), and `GateInv`: `longRemaining` is the
  *number of workers that have not connected*. Without the last, `GateHonest` cannot be proved: the
  gate opens on a counter, and the property is about workers. One lemma per action; from the invariant
  follow `TypeCorrect`, `GateIsHonest` and `ResetsAreReal`. `PodWritesStream` is the refinement: the
  mapped `est` and `open` are functions of `seq` and `pc`, and every action maps to one of
  `HeldStream` or to a stutter. `PodStreamIsOrdered` transports the ordering through it.
* **`AppPoolProofs`.** `DrainTiming` first: `ResetsStamped`, under `KeepAliveFits`, which is
  `InternalDrain + KeepAlive <= StampOffset + Grace + Eps` (135 <= 242 as deployed): a reset is reported
  within a keepalive of the RST and not after the window. The invariant `TickBound` says that the next tick is
  at most a period away from the moment the reset could be noticed. `PoolResetsStamped` says it of the
  specification that `timing` checks. Then the applications.
  `HoldsPark`: `Exclusive` says who may be where in `/hold`: for app-b and app-c by the lock, and for app-a, which
  has none, by the state of the runner, made before it is connected; a promise is taken back in
  the step that clears the connection. `KeepaliveReturns`: the loop never oversleeps (`Ticking`), a
  pool that is not up has waited at most `refused * LongestWait` since the start (`Retrying`), and
  from both follows how old the last live connection is (`Pinged`). It needs `PeriodFits`: no wait of
  `connectWithRetry`, 8 s at most, is longer than a keepalive period, 20 s by default. With a period
  of 1 s and five refusals it is false: the loop wakes up in vain, and no refusal pays for it.
  `PoolsServe` needs no condition on the constants: with `Exclusive`, that some connection lives a second after the RST is
  itself inductive, since the requests of a second give up what broke and nothing drops what lives.
* **`DrainScenarioProofs`**, the trigger. `MutationReported`: a trigger reported as fired has put selfHeal back,
  and a process that ends with selfHeal mutated has returned an error or printed one. The invariant
  follows the memoised result of the once-only restore (`RestoreHolds`: it is the truth about
  selfHeal) and says that no restore starts before the disable has ended (`RestoreAfterDisable`). That is
  false when the signal goroutine wakes before the disable has ended; the history variable `early` marks those
  behaviours and the property excludes them. That this exclusion is needed is a fact about the code.
* **`DrainScenarioProofs`**, the scenario. `NothingLeftBehind`, `ZeroDrop`, for any sequence of Applications, and the
  two properties of the trigger inside the scenario. The script is a list of commands, so the
  invariant begins with where it is (`Where`: what is left is a suffix of the program, and `Pos` its place) and says
  what each place implies: what may be cordoned, scaled or suspended by then is recorded for `restore()`
  (`Cordoned`, `Scaled`, `Snapped`), and while the last `restore()` runs each thing that is not back is
  still in its list or in `lost` (`Leaving`). For the verdict: pods that could be hit were hit by a
  roll while they were on the node (`Rolled`), and a fresh file says what the roll did (`Judged`). `Process` is the
  invariant of the trigger, kept through the scenario's own signal and its heals.
* **`RollWatcherProofs`.** `DrainIsExact`, `WindowsGrow`. What is in flight (inbox, cache, tombstones) tells
  only what was so and was shown (`Told`, `Truthful`), a window is at a drain and a UID that was seen has its window
  (`Recorded`), and as long as the watch is up a drain that was shown and that the handler does not know of is in the
  inbox (`Covered`): that is what an outage breaks and a list restores, except for the pods that are gone
  by then, which stay `hidden`.
* **`ChartHopProofs`.** `BranchPublished`, `NoSkewEver`, `AppliedMovesEver`, `ChartNeverChanges`, `OnlyForward`. The
  invariant follows a chart through the working copy, index, commit, remote and registry: `Control` ties the
  command a job is at to the kinds of job, `Registry` and `Unused` say that a published version determines its
  chart and that a tag not yet drawn is nowhere, `Line` orders the charts of the branch, the last
  commit, the index and the working copy, `Content` keeps their dependencies in lockstep, `Pin` and `Bumped` say what the branch names
  and what a bump changed, over the tree of a failed job too.
* **`ClientObserverProofs`.** `ResetsHaveEvidence`, `RecoveryIsFair`, `SiblingsFlagged`. The cluster moves on while
  the observer asks: `Seen` says that a window it got is the drain of its node for good, `Quiet` that nothing is observed
  before rows and windows are fixed, `Observed` binds each observation to them. `MaxOfBounded` gives the
  newest of the attributable times its meaning: they are bounded by the end of the window.

* **`VerdictProofs`**, the verdict. `VerdictIsExact`, `EveryResetIsCounted`, `VerdictIsOrderFree`, `RecoveryAloneRedeems`, and of the
  report `BannerIsTheRows`, `CriteriaAreTrue`, `TableIsTheRows`. `MeasureInv` is `StreamInv` of the contract with
  the times of the events (`Stamped`: one for each, ascending), and what the contract makes of a break: its recovery is the very next
  line (`Paired`), so a log is no longer than twice its connections (`Short`). From this everything the
  analyzer looks up by id has one value: a connection has one reset (`OneBreak`) and one recovery
  (`ReconnectsIs`), so the latest reset and the earliest reconnect are that pair (`RecoveredIs`), no connection is reset in two
  windows (`NeverTwice`), and `Untrusted` and `Failing` come down to formulas on logs and windows
  (`JudgedBy`). `VerdictIsExact` compares these with `Acceptable`, `RecoveryAloneRedeems` follows them through
  a step (`NothingForgiven`, `NothingSpoiled`), and `VerdictIsOrderFree` shows that they and the counts are the same for a permuted
  list of windows (`SameRun`). `EveryResetIsCounted` gives the running total itself, the resets of the first n windows
  (`UpTo`), and shows that each window adds its own (`Adds`). The windows are those of `WindowAssumption`: one for a
  node (`Windows()` ranges over maps keyed by node), all of the same length (`rollwatch.go:133` adds one configured grace period to
  each) and longer than the tolerance. Equal lengths are needed: with others, two windows with the same start
  can be told apart by their ends, and the choice between them is that of a Go map.
* **`VerdictProofs`**, the run. `QuietRunNotFailed`, `PassIsComplete`. The pods of `MeasureRun` crash and are replaced, so
  nothing may be said of a log but what holds from container to container: `Numbered` (what broke or recovered is an
  established connection, and not the live one), `BreaksFirst` (a connection breaks once and recovers after
  that), `FitsBound` (a line or two for each harm). For the collection: what was collected is of this run, and in the log unless the
  container was replaced (`Excerpt`), and a log read to its end had every line written before the
  collection began (`WhollyRead`), because what is written later is stamped later. Without harm what is left are recoveries
  (`Harmless`), and of `Failing` only the overlap of two windows is left (`HarmlessPasses`). The windows are any sequence,
  one for each node that drained; `LatestHolding` gives the one that a reset is attributed to. `PassSeesAll` and
  `PassRecovers` take a line of the log to the analyzer's input and the recovery that it found back to the log.
  `JudgedLast`: only the last statement gives a verdict.

Only model-checked: every liveness property (`BreakRecovered`, `GateSignalled`, `CleanShutdown`, `DrainSeen`, `ResetReported`,
`ScenarioEnds`, `MeasurementEnds`), because fairness is out of the prover's reach; and the four expected violations, which are
counterexamples. Every invariant and every action property of a passing run is a theorem, and so is the refinement `StreamSpec`.
No module declares a recursive operator: the sums and folds of `analyze.go` are cardinalities of sets and a running
total, and what was collected of a log is a set of its lines and not a filtered sequence, so nothing needs an induction over data.

## What we met while modelling

Beyond the four violations, these are consequences of the code that a reader of the verdict should
know. They are in the model, and where a property would be false because of them it says so.

* A `deletionTimestamp` set by Kubernetes is the time of the deletion request *plus* the grace
  period, and the watcher takes it for the start of the drain (`rollwatch.go:82-88`). Every window is late by the grace
  period, and the resets of the first seconds after the RST count as deaths before the drain (`timing_window`).
  `DrainTiming` keeps the distance as the constant `StampOffset`, 120 as deployed and any value in the theorems.
* A pod deleted and gone within one outage of the watch leaves a tombstone without a `deletionTimestamp`, or nothing
  if the informer never had it. Its node gets no window (`hidden` in `RollWatcher`), and its resets are judged by the windows
  of other nodes, or by none.
* Two nodes whose windows overlap are a FAIL whether or not anything was reset (`analyze.go:82-84`).
* A session that ends (hold elapsed, shutdown) before the tick at which a reset would be noticed
  swallows the reset: `ResetReported` is about the other sessions. The floor on the
  hold (`load.go:48-51`) does not help one already under way when the drain begins.
* A signal between the arming of the handler and the end of the disable may restore first and
  disable after (`early`, above).
* The watcher keeps a node's first drain only. A second roll of the same node in one run is judged
  against the first window.
* Pods whose log could not be read, or that are gone, or whose container was replaced, drop out of
  the verdict with a warning at most. `CompletePass` speaks of runs in which all logs were read.
* A reset inside two overlapping windows with the same start belongs to whichever comes first in a
  Go map's order. The verdict and all counts do not depend on it; the node it is shown under does.
* A checklist row tests whether a reason occurs at all: overlapping windows fail both the
  one-disruption row and the staggering row.
* The patch scenario judges whatever `results.json` it finds (`scenario-patch.sh:31-37`): when the measurement
  dies before writing one, that of an earlier job answers for it. `Judge` in `ChartHop` does so too.
* The observer cannot tell the clients' connections apart, they share a database user. A sibling on
  the same node is flagged if its pod was resolved; a client on another node that reconnects inside the
  window is attributed without a caveat.
* Every application answers `held: false` with status 500 or 503, and `httpGetViaPortForward` turns any status
  but 200 into an error: `holdNotHeld` (`clients.go:160`) cannot be returned. And `/hold` opens a
  connection when it has none, the observer calls it after the roll only: `held: true` does not show that a
  held connection survived it (`clients.go:236`).
* `bumpTargetRevision` replaces one word (`trigger_gitbump.go:160,331-333`) and, unlike the bump of a dependency, is not
  checked for having changed anything. It does not match the range with its space that `scenario-atomic-sync.sh` writes.
  A hop from a floating `mesh.yaml`, as it is after an atomic-sync that failed in its phase A and
  a checkout of what that had committed, commits, pushes and reports itself applied with the branch still
  floating. `AppliedMoves` says `pinned` for that.
* `restore()` of `scenario-atomic-sync.sh` removes its backup, so it is not idempotent as
  `scenario-lib.sh:36` asks. After INT or TERM the script goes on: a signal just before a commit pushes the new chart
  with the old pin (`torn` in `BranchIsPublished`), and one before the range is
  written leaves it in the working copy when phase A then fails.
* Phase B of `scenario-atomic-sync.sh` publishes its chart while the branch still floats. Whether the range takes a
  prerelease is ArgoCD's; if it does, the "single gated roll" may come before the gate. `Named` has both.
* After INT or TERM `scenario-drain.sh` restores, goes on, and may suspend, scale and measure again over what it
  has just restored; `LeavesNothingBehind` holds because EXIT restores again. A cordon that took effect and
  was reported as failed is never undone (`lost`).
* `scenario-drain.sh` drops the exit code of the measurement: a mesh left without selfHeal, which the trigger reports,
  does not fail the scenario. An old `results.json` can pass it, and so can one whose logs could not be read:
  `ZeroDropProven` asks for a fresh and complete one.
* app-b clears its held connection after letting go of the lock (`main.py:186-188`), and may clear one that another request
  has been promised; `HoldParks` is about the other two. app-a makes its keepalive runner once
  (`index.ts:154`), and exits when that cannot connect (`index.ts:165-168`) though lines 119-123 say that it never does.
* With the window at [118, 242] an application that is asked every second reconnects at 115 or 116, *before* it, and
  the observer does not attribute that (`clients.go:54-61`). One that only its keepalive brings back, 20 to 40 s after the
  RST, is inside.
* A hop over the tree that a half-failed reset left behind (edited, not committed) may re-publish the ztunnel that the branch had, and reports
  itself applied. `AppliedMoves` speaks of the chart that was pushed in every case, and of a *move* only if
  the tree was the branch's (`synced`).

## Not modelled

* How `scenario-atomic-sync.sh` counts rolls: the length of the sync history of `mesh` is ArgoCD's.
* `/chain` of the demo applications beyond its own query: the call of the next application, its timeout
  and the trace headers hold no state.
* The ramp of the load generator and the counters of its app-a traffic: they emit nothing the verdict reads.
  Successful new connections: the analyzer ignores them.
* The probe's unsynchronised encoder (`probe.go:66-69`): a race on bytes of a line; the parser skips a
  line it cannot read.
* The schema checks, Markdown escaping and copied columns of the report; flag parsing.
* The hygiene scanner: a stateless text search whose content is its list of rules.
* Data, observability and mesh manifests and the bootstrap and verify scripts: third-party
  configuration, and straight-line commands run by hand. ArgoCD, ztunnel, the DaemonSet
  controller, client-go and pgbouncer are modelled only as far as this code can tell.

## Plan

Done, in this order: `ConnEvent`, `HeldStream`, `HeldConn` with its refinement and proofs;
`RollWatcher`; `Analyze`, `MeasuredStream`, `Report`; `RolloutRestart`, `DrainTiming` and their proofs;
`MeasureRun`; `ChartHop`; `ClientObserver`; `DrainScenario` around `RolloutRestart`; `AppPool` in the
drain of `DrainTiming`; atomic-sync among the jobs of `ChartHop`; the proofs of `ChartHop`,
`RollWatcher`, `DrainScenario`, `ClientObserver` and `AppPool`; those of the verdict, the report and the run.

Left to model:

1. `AppPool` as the environment of `ClientObserver`, in place of its free one.
2. A composition of `RollWatcher`, `DrainTiming` and `Analyze`: from the second of a deletion to the verdict on its reset.
3. The shutdown of the load generator's short workers.

Next, to prove more: that each pod of `MeasureRun` writes, between two restarts, a stream of `HeldStream`, so that
`BreaksFirst` there follows from `StreamOrdered`.
