----------------------------- MODULE MeasureRun -----------------------------
(***************************************************************************)
(* live.RunMeasure: one measurement, from the wait for the pods to the     *)
(* verdict, while the pods it reads live on: they connect, break, recover, *)
(* crash and restart.  Its observation is the log of each pod's current    *)
(* container since the run started, and the windows of the watcher.        *)
(*                                                                         *)
(* Time 0 is before the run; RunStart is when it begins.  The nodes roll   *)
(* one after the other or at once; a window's number is its node's, and    *)
(* the order of the watcher's map does not matter (VerdictOrderFree).      *)
(***************************************************************************)
EXTENDS Observation

CONSTANTS Pod,         \* the probe and load pods of the namespace
          Grace,       \* terminationGracePeriodSeconds
          MaxRolls,    \* bound: nodes that roll
          MaxHarm,     \* bound: breaks and failures of a run
          Interrupts,  \* SIGINT or SIGTERM may come
          ApiMayFail   \* a request to the API server may fail though not cancelled

ASSUME PodAssumption == IsFiniteSet(Pod)
ASSUME RunAssumption ==
  /\ Grace \in Nat /\ MaxTime # 0 /\ MaxRolls \in Nat /\ MaxHarm \in Nat
  /\ {Interrupts, ApiMayFail} \subseteq BOOLEAN

VARIABLES held,      \* held[p]: the container of p and its held connection
          conn,      \* conn[p]: connections it has established
          log,       \* log[p]: what it has written
          watching,  \* the watcher's informer is up
          phase,     \* where RunMeasure is
          ctxDone,   \* its context is cancelled
          listed,    \* collectEvents has its list of pods
          toRead,    \* pods of the list whose log is still to be read
          got,       \* got[p]: what was collected of p, by line of its log
          read,      \* pods whose log was read to its end
          verdict,   \* of the analyzer
          restarted, \* history: pods whose container was replaced in this run
          harms,     \* history: times a connection failed or broke in this run
          since      \* history: when the collection began

podVars == <<held, conn, log, restarted, harms>>
watchVars == <<watching, windows>>
collectVars == <<listed, toRead, got, read, since>>
runVars == <<phase, prereq, verdict>>
vars == <<clock, podVars, watchVars, runVars, ctxDone, collectVars>>

RunStart == 1
Entry(kind, n, t) == [kind |-> kind, conn |-> n, ts |-> t]

\* Container states.  A pod that never started has no log to read.
Running == {"connecting", "up", "broken"}

\* What a pod can be in when the run starts: not there yet, connected for the
\* first time, or with a reset or a failure of an earlier run in its log.
Past ==
  {<<"pending", 0, <<>>>>, <<"connecting", 0, <<>>>>, <<"up", 1, <<>>>>,
   <<"broken", 1, <<Entry("ConnReset", 1, 0)>>>>,
   <<"up", 1, <<Entry("NewConnAttemptFail", 0, 0)>>>>}

RunInit ==
  /\ clock = RunStart
  /\ \E past \in [Pod -> Past] :
       /\ held = [p \in Pod |-> past[p][1]]
       /\ conn = [p \in Pod |-> past[p][2]]
       /\ log = [p \in Pod |-> past[p][3]]
  /\ watching \in BOOLEAN
  /\ windows = <<>>
  /\ phase = "wait" /\ prereq = FALSE /\ verdict = Nil
  /\ ctxDone = FALSE
  /\ listed = FALSE /\ toRead = {} /\ got = [p \in Pod |-> <<>>] /\ read = {}
  /\ restarted = {} /\ harms = 0 /\ since = 0

-----------------------------------------------------------------------------
Write(p, e) == log' = [log EXCEPT ![p] = Append(@, e)]
Become(p, s) == held' = [held EXCEPT ![p] = s]
OthersUnchanged == UNCHANGED <<clock, watchVars, runVars, ctxDone, collectVars>>

Starts(p) ==
  /\ held[p] = "pending"
  /\ Become(p, "connecting")
  /\ UNCHANGED <<conn, log, restarted, harms>> /\ OthersUnchanged

Connects(p) ==
  /\ held[p] = "connecting"
  /\ Become(p, "up")
  /\ conn' = [conn EXCEPT ![p] = 1]
  /\ UNCHANGED <<log, restarted, harms>> /\ OthersUnchanged

Breaks(p) ==
  /\ held[p] = "up"
  /\ harms < MaxHarm
  /\ \E k \in BreakKind : Write(p, Entry(k, conn[p], clock))
  /\ Become(p, "broken")
  /\ harms' = harms + 1
  /\ UNCHANGED <<conn, restarted>> /\ OthersUnchanged

Recovers(p) ==
  /\ held[p] = "broken"
  /\ Write(p, Entry("ConnReconnected", conn[p], clock))
  /\ conn' = [conn EXCEPT ![p] = @ + 1]
  /\ Become(p, "up")
  /\ UNCHANGED <<restarted, harms>> /\ OthersUnchanged

AttemptFails(p) ==
  /\ held[p] \in Running
  /\ harms < MaxHarm
  /\ Write(p, Entry("NewConnAttemptFail", 0, clock))
  /\ harms' = harms + 1
  /\ UNCHANGED <<held, conn, restarted>> /\ OthersUnchanged

Crashes(p) ==
  /\ held[p] \in Running
  /\ p \notin restarted
  /\ Become(p, "crashed")
  /\ UNCHANGED <<conn, log, restarted, harms>> /\ OthersUnchanged

\* A new container: the log of the old one is out of GetLogs' reach.
Restarts(p) ==
  /\ held[p] = "crashed"
  /\ Become(p, "connecting")
  /\ conn' = [conn EXCEPT ![p] = 0]
  /\ log' = [log EXCEPT ![p] = <<>>]
  /\ restarted' = restarted \cup {p}
  /\ UNCHANGED harms /\ OthersUnchanged

PodStep(p) ==
  \/ Starts(p) \/ Connects(p) \/ Breaks(p) \/ Recovers(p) \/ AttemptFails(p)
  \/ Crashes(p) \/ Restarts(p)

\* ztunnel drains on another node; seen only by a watcher whose Start succeeded
\* and whose context, a child of the run's, lives.
\* drainingAt is the deletionTimestamp, a grace period from now; readyAt is the
\* one of some earlier pod, or nil (RollWatcher).
Drain ==
  /\ Len(windows) < MaxRolls
  /\ watching /\ ~ctxDone
  /\ ~prereq /\ phase \notin {"wait", "trigger"}
  /\ \E r \in {0, RunStart} :
       windows' = Append(windows, [node |-> Len(windows) + 1, drainingAt |-> clock + Grace,
                                   graceExpiresAt |-> clock + 2 * Grace, readyAt |-> r])
  /\ UNCHANGED <<clock, podVars, watching, runVars, ctxDone, collectVars>>

Second ==
  /\ clock < MaxTime
  /\ clock' = clock + 1
  /\ UNCHANGED <<podVars, watchVars, runVars, ctxDone, collectVars>>

\* main.go's signal.NotifyContext.
Cancel ==
  /\ Interrupts /\ ~ctxDone
  /\ ctxDone' = TRUE
  /\ UNCHANGED <<clock, podVars, watchVars, runVars, collectVars>>

-----------------------------------------------------------------------------
\* A pod is Ready once its gate is open: it has connected and still runs.
Ready(p) == held[p] \in {"up", "broken"}

\* Mutant: the wait has no deadline.
WaitForAll ==
  /\ phase = "wait"
  /\ (Pod # {} /\ \A p \in Pod : Ready(p)) \/ ctxDone
  /\ phase' = "trigger"
  /\ UNCHANGED <<clock, podVars, watchVars, ctxDone, prereq, verdict, collectVars>>

\* waitProbesReady: all of them Ready, its timeout, or the context's end; the
\* last two are a warning, and the run goes on.
WaitProbesReady ==
  /\ phase = "wait"
  /\ phase' = "trigger"
  /\ UNCHANGED <<clock, podVars, watchVars, ctxDone, prereq, verdict, collectVars>>

\* fireTrigger: every trigger starts with a command the context can cancel.
FireTrigger ==
  /\ phase = "trigger"
  /\ prereq' \in IF ctxDone THEN {TRUE} ELSE BOOLEAN
  /\ phase' = "observe"
  /\ UNCHANGED <<clock, podVars, watchVars, ctxDone, verdict, collectVars>>

\* The deadline, or the end of the context.
ObservationEnds ==
  /\ phase = "observe"
  /\ phase' = "list"
  /\ since' = clock
  /\ UNCHANGED <<clock, podVars, watchVars, ctxDone, prereq, verdict, listed, toRead, got, read>>

\* collectEvents: the list of pods.  Without one there are no events: a warning.
ListPods ==
  /\ phase = "list"
  /\ \/ ~ctxDone /\ toRead' = Pod /\ listed' = TRUE
     \/ (ctxDone \/ ApiMayFail) /\ UNCHANGED <<toRead, listed>>
  /\ phase' = "collect"
  /\ UNCHANGED <<clock, podVars, watchVars, ctxDone, prereq, verdict, got, read, since>>

\* Mutants: SinceTime one second late, or not set at all.
SinceAfterRunStart(ts) == ts > RunStart
SinceForever(ts) == TRUE

\* PodLogOptions.SinceTime.
SinceRunStart(ts) == ts >= RunStart

\* The first n lines of a log, as far as GetLogs returns them.
Returned(entries, n) ==
  [i \in {j \in 1..n : SinceRunStart(entries[j].ts)} |-> entries[i]]

\* The log of one pod; an error skips the pod, or what is left of its stream.
CollectEvents(p) ==
  /\ phase = "collect"
  /\ p \in toRead
  /\ toRead' = toRead \ {p}
  /\ \/ /\ held[p] # "pending" /\ ~ctxDone
        /\ got' = [got EXCEPT ![p] = Returned(log[p], Len(log[p]))]
        /\ read' = read \cup {p}
     \/ /\ held[p] = "pending" \/ ctxDone \/ ApiMayFail
        /\ \E n \in 0..Len(log[p]) : got' = [got EXCEPT ![p] = Returned(log[p], n)]
        /\ UNCHANGED read
  /\ UNCHANGED <<clock, podVars, watchVars, runVars, ctxDone, listed, since>>

\* A line of an earlier run and its recovery, and two for each harm.
LogBound == 2 * MaxHarm + 2

\* connIds carry the node's name: no two pods share one.
Collected ==
  [l \in {k \in Pod \X (1..LogBound) : k[2] \in DOMAIN got[k[1]]} |->
     [got[l[1]][l[2]] EXCEPT !.conn = <<l[1], @>>]]

AnalyzeRun ==
  /\ phase = "collect"
  /\ toRead = {}
  /\ verdict' = Verdict([events |-> Collected, windows |-> windows, prereq |-> prereq])
  /\ phase' = "done"
  /\ UNCHANGED <<clock, podVars, watchVars, ctxDone, prereq, collectVars>>

RunStep ==
  \/ WaitProbesReady \/ FireTrigger \/ ObservationEnds \/ ListPods
  \/ \E p \in Pod : CollectEvents(p)
  \/ AnalyzeRun

World == (\E p \in Pod : PodStep(p)) \/ Drain \/ Second \/ Cancel

\* What happens after the last log was read no longer reaches the verdict, but
\* for a drain, and that might as well have come before the read.
Collecting == phase # "done" /\ (phase = "collect" => toRead # {})

Done == phase = "done" /\ UNCHANGED vars

RunNext == RunStep \/ (Collecting /\ World) \/ Done

RunSpec == RunInit /\ [][RunNext]_vars

\* Every wait of the run has a timeout and every request returns.
FairRunSpec == RunSpec /\ WF_vars(RunStep)

-----------------------------------------------------------------------------
(* A quiet run of one node after the other is never failed: whatever an    *)
(* earlier run left in the logs of the long-lived pods, FAIL means that in *)
(* this run a new connection failed, a held one broke, or two nodes        *)
(* drained at once.                                                        *)
NoFalseAlarm ==
  verdict = "FAIL" =>
    harms > 0 \/ \E i, j \in DOMAIN windows : Overlapping(windows[i], windows[j])

\* Nothing of this run was lost on its way to the analyzer.
Complete == read = Pod /\ restarted = {}

RecoveredInLog(p, i) ==
  \E j \in DOMAIN log[p] :
    /\ i < j
    /\ log[p][j].kind = "ConnReconnected"
    /\ log[p][j].conn = log[p][i].conn
    /\ log[p][j].ts - log[p][i].ts <= RecoveryBound

(* When every log was read and no container replaced, a PASS hides nothing *)
(* that happened between the start of the run and its collection: each     *)
(* break is the reset of a roll, recovered within the bound, or a FIN not  *)
(* before the first drain; no new connection failed; and a roll was seen.  *)
CompletePass ==
  verdict = "PASS" /\ Complete =>
    /\ windows # <<>> /\ ~prereq
    /\ \A p \in Pod : \A i \in DOMAIN log[p] :
         log[p][i].ts \in RunStart..(since - 1) =>
           /\ log[p][i].kind # "NewConnAttemptFail"
           /\ log[p][i].kind = "ConnReset" =>
                /\ \E w \in DOMAIN windows : Contains(windows[w], log[p][i].ts)
                /\ RecoveredInLog(p, i)
           /\ log[p][i].kind = "ConnEOF" =>
                \E w \in DOMAIN windows : log[p][i].ts >= windows[w].drainingAt - Eps

(* The measurement always ends with a verdict, though pods never become    *)
(* ready, requests fail and no roll comes.                                 *)
MeasurementEnds == <>(phase = "done")

(* analyze.go:18-20: a measurement that cannot be trusted is an ERROR,     *)
(* never silently downgraded to PASS; here, one whose events could not be  *)
(* collected at all.                                                       *)
UncollectedNotPass == verdict = "PASS" => listed
=============================================================================
