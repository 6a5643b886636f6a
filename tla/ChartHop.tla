------------------------------ MODULE ChartHop ------------------------------
(***************************************************************************)
(* How a version of Istio reaches the cluster: the git-bump trigger of the *)
(* harness (live.RunGitBump) inside scenario-patch.sh or scenario-minor.sh,*)
(* scenario-reset.sh and scenario-atomic-sync.sh, one job after the other  *)
(* in one working copy.  Each command of a job may fail and end it where   *)
(* it stands, and the process may be killed; the next job starts from what *)
(* is left.                                                                *)
(*                                                                         *)
(* An umbrella version is major 1, a minor, a patch and a prerelease tag,  *)
(* 0 for none: the run tag is the time, here the number of the job.        *)
(***************************************************************************)
EXTENDS Integers

CONSTANT MaxJob   \* bound: jobs run one after the other

ASSUME JobAssumption == MaxJob \in Nat \ {0}

VARIABLES chart,      \* Chart.yaml of the working copy: version and deps
          mesh,       \* targetRevision in its mesh.yaml
          vendored,   \* deps the last helm dependency update fetched
          index,      \* Chart.yaml in the index of git
          published,  \* the registry: the set of charts in it
          head,       \* the last commit: chart and mesh
          remote,     \* the branch ArgoCD watches
          live,       \* the chart ArgoCD has deployed
          job,        \* the job's kind
          pc,         \* its next command
          jobs,       \* jobs started
          phase,      \* of scenario-atomic-sync.sh: A floats the pin, B sets it
          backup,     \* its MESH_BACKUP, NoFile before and after
          torn,       \* history: the job whose signal put an old mesh.yaml into
                      \* its commit, until another one pushes
          verTo,      \* the version it publishes
          before,     \* history: at its start, ztunnel of the branch and of the
                      \* cluster, whether the working copy was the branch, and whether
                      \* its mesh.yaml had a pin
          prereq,     \* the trigger returned an error
          results,    \* results.json: the job that wrote it, and its verdict
          outcome     \* what the scenario said

treeVars == <<chart, mesh, vendored, index>>
gitVars == <<head, remote>>
jobVars == <<job, jobs, verTo, before>>
syncVars == <<phase, backup, torn>>
measureVars == <<prereq, results, outcome>>
vars == <<treeVars, published, gitVars, live, jobVars, syncVars, pc, measureVars>>

Dep == {"base", "cni", "istiod", "ztunnel"}
All(r) == [d \in Dep |-> r]

\* targetRevision ">=1.0.0 <2.0.0", and no backup.
Floating == [min |-> 0, pat |-> 0, tag |-> -1]
NoFile == [min |-> 0, pat |-> 0, tag |-> -2]

FirstVersion == [min |-> 0, pat |-> 0, tag |-> 0]
FirstChart == [ver |-> FirstVersion, deps |-> All("1.29.2")]
FirstCommit == [chart |-> FirstChart, mesh |-> FirstVersion]

\* semverLess: a prerelease comes before its release.
SemverLess(a, b) ==
  \/ a.min < b.min
  \/ a.min = b.min /\ a.pat < b.pat
  \/ /\ a.min = b.min /\ a.pat = b.pat
     /\ a.tag # 0 /\ (b.tag = 0 \/ a.tag < b.tag)

\* Mutants: no prerelease; the core left as it is.
NextVersionUntagged(v, hop, runTag) == [v EXCEPT !.pat = @ + 1, !.tag = 0]
NextVersionSameCore(v, hop, runTag) == [v EXCEPT !.tag = runTag]

\* NextChartVersion.
NextChartVersion(v, hop, runTag) ==
  IF hop = "minor" THEN [min |-> v.min + 1, pat |-> 0, tag |-> runTag]
                   ELSE [min |-> v.min, pat |-> v.pat + 1, tag |-> runTag]

Init ==
  /\ chart = FirstChart /\ mesh = FirstVersion /\ vendored = All("1.29.2")
  /\ index = FirstChart /\ phase = "A" /\ backup = NoFile /\ torn = 0
  /\ published = {FirstChart}
  /\ head = FirstCommit /\ remote = FirstCommit /\ live = FirstChart
  /\ job = "none" /\ pc = "idle" /\ jobs = 0 /\ verTo = FirstVersion
  /\ before = [remote |-> "1.29.2", live |-> "1.29.2", synced |-> TRUE, pinned |-> TRUE]
  /\ prereq = FALSE /\ results = [job |-> 0, verdict |-> "none"] /\ outcome = "none"

-----------------------------------------------------------------------------
Goto(l) == pc' = l

\* The scripts start with scen_fresh_version, off the working copy's chart.
Begin(kind) ==
  /\ pc = "idle"
  /\ jobs < MaxJob
  /\ jobs' = jobs + 1
  /\ job' = kind
  /\ verTo' = NextChartVersion(chart.ver, IF kind = "minor" THEN "minor" ELSE "patch", jobs')
  /\ before' = [remote |-> remote.chart.deps["ztunnel"], live |-> live.deps["ztunnel"],
                synced |-> [chart |-> chart, mesh |-> mesh] = remote,
                pinned |-> mesh # Floating]
  /\ prereq' = FALSE /\ outcome' = "none"
  /\ phase' = "A"
  /\ IF kind = "atomic" THEN backup' = mesh /\ Goto("float")
                        ELSE UNCHANGED backup /\ Goto("edit")
  /\ UNCHANGED <<treeVars, published, gitVars, live, torn, results>>

\* scen_set_target_revision with the range.
Float ==
  /\ pc = "float"
  /\ mesh' = Floating
  /\ Goto("commit")
  /\ UNCHANGED <<chart, vendored, index, published, gitVars, live, jobVars, syncVars, measureVars>>

Moved == IF job = "patch" THEN {"ztunnel"} ELSE Dep
Target == CASE job = "patch" -> "1.29.5" [] job = "minor" -> "1.30.0" [] job = "reset" -> "1.29.2"

\* Mutant: a dependency that is not found is passed over.
BumpWhatMatches ==
  /\ Goto("vendor")
  /\ chart' = [ver |-> verTo,
               deps |-> [d \in Dep |-> IF d \in Moved /\ chart.deps[d] = "1.29.2"
                                       THEN Target ELSE chart.deps[d]]]
  /\ UNCHANGED <<mesh, verTo, prereq>>

\* bumpChart: each moved dependency is found at its from version, or nothing
\* is written and the trigger returns the error.
BumpChart ==
  IF \A d \in Moved : chart.deps[d] = "1.29.2"
  THEN /\ chart' = [ver |-> verTo, deps |-> [d \in Dep |-> IF d \in Moved THEN Target
                                                           ELSE chart.deps[d]]]
       /\ Goto("vendor")
       /\ UNCHANGED <<mesh, verTo, prereq>>
  ELSE Goto("observe") /\ prereq' = TRUE /\ UNCHANGED <<chart, mesh, verTo>>

\* scenario-reset.sh rewrites every dependency, and mesh.yaml at once.
RewriteChart ==
  /\ chart' = [ver |-> verTo, deps |-> All(Target)]
  /\ mesh' = verTo
  /\ Goto("vendor")
  /\ UNCHANGED <<verTo, prereq>>

\* scenario-atomic-sync.sh takes a fresh version for each phase, and moves no
\* dependency.
BumpVersion ==
  /\ verTo' = NextChartVersion(chart.ver, "patch", jobs)
  /\ chart' = [chart EXCEPT !.ver = verTo']
  /\ Goto("vendor")
  /\ UNCHANGED <<mesh, prereq>>

Edit ==
  /\ pc = "edit"
  /\ \/ job = "reset" /\ RewriteChart
     \/ job = "atomic" /\ BumpVersion
     \/ job \in {"patch", "minor"} /\ BumpChart
  /\ UNCHANGED <<vendored, index, published, gitVars, live, job, jobs, before, syncVars,
                 results, outcome>>

Vendor ==
  /\ pc = "vendor"
  /\ vendored' = chart.deps
  /\ Goto("publish")
  /\ UNCHANGED <<chart, mesh, index, published, gitVars, live, jobVars, syncVars, measureVars>>

\* helm push: the registry takes what it is given for a tag it has.
Push(c) == published' = {d \in published : d.ver # c.ver} \cup {c}

\* publish-chart.sh.
Publish ==
  /\ pc = "publish"
  /\ Push([ver |-> chart.ver, deps |-> vendored])
  /\ phase' = "B"
  /\ \/ job = "reset" /\ Goto("commit")
     \/ job = "atomic" /\ phase = "A" /\ Goto("edit")
     \/ job # "reset" /\ ~(job = "atomic" /\ phase = "A") /\ Goto("repoint")
  /\ UNCHANGED <<treeVars, gitVars, live, jobVars, backup, torn, measureVars>>

\* bumpTargetRevision replaces one word: it leaves the range as it is.  The sed
\* of the script replaces the line.
BumpTargetRevision(rev) == IF rev = Floating /\ job # "atomic" THEN rev ELSE verTo

Repoint ==
  /\ pc = "repoint"
  /\ mesh' = BumpTargetRevision(mesh)
  /\ Goto("commit")
  /\ UNCHANGED <<chart, vendored, index, published, gitVars, live, jobVars, syncVars, measureVars>>

\* Mutant: the edited chart left out of git add.
AddedNone == index

\* git_push_mesh of phase A adds mesh.yaml alone.
Added == IF job = "atomic" /\ phase = "A" THEN index ELSE chart

\* git add and git commit: what the index holds, if it changes something.
GitCommit ==
  /\ pc = "commit"
  /\ index' = Added
  /\ head' = [chart |-> index', mesh |-> mesh]
  /\ head' # head
  /\ Goto("push")
  /\ UNCHANGED <<chart, mesh, vendored, published, remote, live, jobVars, syncVars, measureVars>>

\* restore() of scenario-atomic-sync.sh: it removes the backup it copies.
Restore ==
  /\ mesh' = IF backup = NoFile THEN mesh ELSE backup
  /\ backup' = NoFile

\* The last push of scenario-atomic-sync.sh ends it, and its EXIT trap restores.
GitPush ==
  /\ pc = "push"
  /\ remote' = head
  /\ torn' = IF torn = jobs THEN torn ELSE 0
  /\ IF job = "atomic" /\ phase = "B" THEN Restore ELSE UNCHANGED <<mesh, backup>>
  /\ \/ job = "reset" /\ Goto("idle")
     \/ job = "atomic" /\ Goto(IF phase = "A" THEN "edit" ELSE "idle")
     \/ job \in {"patch", "minor"} /\ Goto("observe")
  /\ UNCHANGED <<chart, vendored, index, published, head, live, jobVars, phase, measureVars>>

\* A command fails, having done its work or not: the trigger returns the error
\* and is reported as not fired, a script ends, through its EXIT trap.
CommandFails ==
  /\ pc \in {"float", "edit", "vendor", "publish", "repoint", "commit", "push"}
  /\ \/ UNCHANGED <<published, remote>>
     \/ /\ pc = "publish"
        /\ Push([ver |-> chart.ver, deps |-> vendored])
        /\ UNCHANGED remote
     \/ pc = "push" /\ remote' = head /\ UNCHANGED published
  /\ index' = index \/ (pc = "commit" /\ index' = Added)
  /\ IF job = "atomic" THEN Restore ELSE UNCHANGED <<mesh, backup>>
  /\ IF job \in {"reset", "atomic"} THEN Goto("idle") /\ UNCHANGED prereq
                                    ELSE Goto("observe") /\ prereq' = TRUE
  /\ UNCHANGED <<chart, vendored, head, live, jobVars, phase, torn, results, outcome>>

\* INT or TERM: the trap of scenario-atomic-sync.sh restores, and the script
\* goes on.
Signal ==
  /\ job = "atomic" /\ pc # "idle"
  /\ backup # NoFile
  /\ Restore
  /\ torn' = IF pc = "commit" THEN jobs ELSE torn
  /\ UNCHANGED <<chart, vendored, index, published, gitVars, live, jobVars, phase, pc,
                 measureVars>>

\* KILL: no trap runs.
ScriptKilled ==
  /\ job = "atomic" /\ pc # "idle"
  /\ backup' = NoFile
  /\ Goto("idle")
  /\ UNCHANGED <<treeVars, published, gitVars, live, jobVars, phase, torn, measureVars>>

\* The harness ends without a result: no cluster to talk to, a failed build or
\* write, a kill.  The script goes on (|| rc=$?).
HarnessDies ==
  /\ job \in {"patch", "minor"}
  /\ pc \notin {"idle", "judge"}
  /\ Goto("judge")
  /\ UNCHANGED <<treeVars, published, gitVars, live, jobVars, syncVars, measureVars>>

\* The observation and its verdict, with the watcher's windows when the ztunnel
\* of the cluster rolled.
Observe ==
  /\ pc = "observe"
  /\ \E v \in IF prereq \/ live.deps["ztunnel"] = before.live
              THEN {"ERROR"} ELSE {"PASS", "FAIL", "ERROR"} :
       results' = [job |-> jobs, verdict |-> v]
  /\ Goto("judge")
  /\ UNCHANGED <<treeVars, published, gitVars, live, jobVars, syncVars, prereq, outcome>>

\* The scenario looks for results.json and reads the verdict in it; the minor
\* hop asks for no particular one.
Judge ==
  /\ pc = "judge"
  /\ outcome' = IF results.job = 0 THEN "died"
                ELSE IF job = "minor" THEN "measured"
                ELSE IF results.verdict = "PASS" THEN "passed" ELSE "failed"
  /\ Goto("idle")
  /\ UNCHANGED <<treeVars, published, gitVars, live, jobVars, syncVars, prereq, results>>

\* Between two jobs the operator may drop the edits of a failed one.
DiscardEdits ==
  /\ pc = "idle"
  /\ chart' = head.chart /\ mesh' = head.mesh /\ index' = head.chart
  /\ chart' # chart \/ mesh' # mesh
  /\ UNCHANGED <<vendored, published, gitVars, live, jobVars, syncVars, pc, measureVars>>

JobStep ==
  \/ \E kind \in {"patch", "minor", "reset", "atomic"} : Begin(kind)
  \/ Float \/ Edit \/ Vendor \/ Publish \/ Repoint \/ GitCommit \/ GitPush
  \/ CommandFails \/ Signal \/ ScriptKilled \/ HarnessDies \/ Observe \/ Judge

\* What the branch names: a version, or the newest one of the range.  Whether the
\* range admits a prerelease is ArgoCD's.
Named ==
  IF remote.mesh # Floating
  THEN {c \in published : c.ver = remote.mesh}
  ELSE UNION {{c \in admitted : \A d \in admitted : ~SemverLess(c.ver, d.ver)} :
                admitted \in {published, {c \in published : c.ver.tag = 0}}}

\* demo-root and then mesh: the chart the branch names, if it can be pulled.
ArgoSync ==
  /\ \E c \in Named \ {live} : live' = c
  /\ UNCHANGED <<treeVars, published, gitVars, jobVars, syncVars, pc, measureVars>>

Finished == pc = "idle" /\ jobs = MaxJob /\ UNCHANGED vars

Next == JobStep \/ DiscardEdits \/ ArgoSync \/ Finished

Spec == Init /\ [][Next]_vars

-----------------------------------------------------------------------------
(* What the branch names can be pulled, and is what the branch says: the   *)
(* chart of its Chart.yaml is in the registry, with these dependencies,    *)
(* and its targetRevision is that version or the range, wherever earlier   *)
(* jobs failed.  The one exception is a signal taken just before the       *)
(* commit of scenario-atomic-sync.sh, until another job pushes.            *)
BranchIsPublished ==
  /\ remote.chart \in published
  /\ remote.mesh \in {remote.chart.ver, Floating} \/ torn # 0

(* No chart mixes minors: base, cni and istiod move in lockstep, and       *)
(* ztunnel leaves them only by a patch.                                    *)
NoSkew ==
  \A c \in published :
    \/ c.deps = All("1.30.0")
    \/ /\ c.deps["ztunnel"] \in {"1.29.2", "1.29.5"}
       /\ \A d \in Dep \ {"ztunnel"} : c.deps[d] = "1.29.2"

(* A published version keeps its content: GHCR immutability never bites,   *)
(* and a chart that ArgoCD has cached is the chart of the registry.        *)
ChartImmutable ==
  [][\A c, d \in published \cup published' : c.ver = d.ver => c = d]_vars

(* The branch only rolls forward: a hop, a reset, an atomic-sync and a     *)
(* retry after any failure each push a chart greater than the one before,  *)
(* and a push that keeps the chart only opens the range: with the same     *)
(* exception.                                                              *)
BranchRollsForward ==
  [][remote' # remote /\ torn' = 0 =>
       \/ SemverLess(remote.chart.ver, remote'.chart.ver)
       \/ remote'.chart = remote.chart /\ remote'.mesh = Floating]_vars

(* trigger_gitbump.go:56-57: the bump of the ztunnel dependency does roll  *)
(* the DaemonSet.  A trigger that reports itself applied, over whatever    *)
(* earlier jobs left in the tree, has put its chart with the target        *)
(* ztunnel on the branch, and pinned the branch to it when mesh.yaml was   *)
(* pinned; and it has moved the ztunnel of the branch when the tree it     *)
(* edited was that of the branch.                                          *)
AppliedMoves ==
  job \in {"patch", "minor"} /\ pc = "observe" /\ ~prereq =>
    /\ remote.chart.ver = verTo /\ remote.chart.deps["ztunnel"] = Target
    /\ before.pinned => remote.mesh = verTo
    /\ before.synced => remote.chart.deps["ztunnel"] # before.remote
=============================================================================
