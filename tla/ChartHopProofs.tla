---------------------------- MODULE ChartHopProofs ----------------------------
(***************************************************************************)
(* Proofs about the jobs that move a version of Istio into the cluster:    *)
(* for any number of jobs, whichever commands of them fail and wherever    *)
(* they are signalled or killed, what the branch names is published, no    *)
(* published chart changes or mixes minors, and the branch rolls forward.  *)
(***************************************************************************)
EXTENDS ChartHop, TLAPS

\* The versions of charts; a targetRevision is one, or the range; a backup may
\* be none.
Version == [min : Nat, pat : Nat, tag : Nat]
Revision == Version \cup {Floating, NoFile}
Release == {"1.29.2", "1.29.5", "1.30.0"}
Chart == [ver : Version, deps : [Dep -> Release]]
Commit == [chart : Chart, mesh : Revision]

TypeOK ==
  /\ chart \in Chart /\ mesh \in Revision /\ vendored \in [Dep -> Release]
  /\ index \in Chart /\ published \subseteq Chart
  /\ head \in Commit /\ remote \in Commit /\ live \in Chart
  /\ job \in {"none", "patch", "minor", "reset", "atomic"}
  /\ pc \in {"idle", "float", "edit", "vendor", "publish", "repoint", "commit", "push",
             "observe", "judge"}
  /\ jobs \in Nat /\ phase \in {"A", "B"} /\ backup \in Revision /\ torn \in Nat
  /\ verTo \in Version
  /\ before \in [remote : Release, live : Release, synced : BOOLEAN, pinned : BOOLEAN]
  /\ prereq \in BOOLEAN
  /\ results \in [job : Nat, verdict : {"none", "PASS", "FAIL", "ERROR"}]
  /\ outcome \in {"none", "died", "measured", "passed", "failed"}

-----------------------------------------------------------------------------
(* The inductive invariant.  A new version always has a greater core, so   *)
(* the order of the charts never rests on the tags.                        *)
CoreLess(a, b) == a.min < b.min \/ (a.min = b.min /\ a.pat < b.pat)
CoreLeq(a, b) == a.min < b.min \/ (a.min = b.min /\ a.pat <= b.pat)
NotAfter(c, d) == c = d \/ CoreLess(c.ver, d.ver)

\* NoSkew, of one chart.
SkewFree(deps) ==
  \/ deps = All("1.30.0")
  \/ /\ deps["ztunnel"] \in {"1.29.2", "1.29.5"}
     /\ \A d \in Dep \ {"ztunnel"} : deps[d] = "1.29.2"

\* A job that a command can still fail, and one that has edited the chart it is
\* about to commit.
Working == pc \in {"float", "edit", "vendor", "publish", "repoint", "commit", "push"}

Edited == pc \in {"vendor", "publish", "repoint"} \/ (pc = "commit" /\ phase = "B")

\* Which commands belong to which phases and jobs.
Control ==
  /\ pc # "idle" => jobs > 0 /\ job # "none"
  /\ pc = "float" => phase = "A" /\ job = "atomic"
  /\ pc = "edit" /\ phase = "B" => job = "atomic"
  /\ pc = "repoint" => phase = "B" /\ job # "reset"
  /\ pc \in {"commit", "push"} /\ phase = "A" => job = "atomic"

\* What was ever committed had been published, and a version names one chart.
Registry ==
  /\ \A c, d \in published : c.ver = d.ver => c = d
  /\ \A c \in published : SkewFree(c.deps)
  /\ index \in published /\ head.chart \in published /\ remote.chart \in published

\* The version a job is going to publish is not in the registry: earlier jobs
\* have smaller tags, and phase A of this job a smaller core.
Unused ==
  /\ \A c \in published : c.ver.tag <= jobs
  /\ Working /\ phase = "A" => \A c \in published : c.ver.tag < jobs
  /\ pc = "edit" /\ phase = "B" =>
       \A c \in published : c.ver.tag < jobs \/ CoreLeq(c.ver, chart.ver)
  /\ pc \in {"vendor", "publish"} =>
       \A c \in published : c.ver.tag < jobs \/ CoreLess(c.ver, chart.ver)
  /\ Working => verTo.tag = jobs
  /\ Edited => chart.ver = verTo

\* The branch, the last commit, the index and the working copy hold one line of
\* charts, each the same as the next or older.
Line ==
  /\ NotAfter(remote.chart, head.chart) /\ NotAfter(head.chart, index) /\ NotAfter(index, chart)
  /\ pc = "edit" => CoreLess(chart.ver, verTo) \/ job = "atomic"
  /\ Edited => CoreLess(index.ver, chart.ver)
  /\ pc = "push" /\ phase = "B" => CoreLess(remote.chart.ver, head.chart.ver)

\* What the working copy holds may be published, and once it is it is committed.
Content ==
  /\ SkewFree(chart.deps)
  /\ pc = "publish" => vendored = chart.deps
  /\ pc = "repoint" \/ (pc = "commit" /\ phase = "B") => chart \in published

\* mesh.yaml on its way to the branch names the chart or the range, unless a
\* signal put the backup there.
Pin ==
  /\ remote.mesh \in {remote.chart.ver, Floating} \/ torn # 0
  /\ pc = "commit" => torn = jobs \/ mesh = Floating \/ (phase = "B" /\ mesh = chart.ver)
  /\ pc = "push" => torn = jobs \/ head.mesh = Floating \/ (phase = "B" /\ head.mesh = head.chart.ver)
  /\ job = "reset" /\ Edited => mesh = verTo

\* A hop carries the new ztunnel and its pin from the edit to the branch, where
\* the ztunnel was another if the hop edited the tree of the branch.
Bumped ==
  job \in {"patch", "minor"} =>
    /\ pc \in {"edit", "vendor", "publish", "repoint"} /\ before.pinned => mesh # Floating
    /\ pc = "edit" /\ before.synced => before.remote = chart.deps["ztunnel"]
    /\ Edited => /\ chart.ver = verTo /\ chart.deps["ztunnel"] = Target
                 /\ before.synced => before.remote = "1.29.2"
    /\ pc = "commit" /\ before.pinned => mesh = verTo
    /\ pc = "push" => /\ head.chart.ver = verTo /\ head.chart.deps["ztunnel"] = Target
                      /\ before.pinned => head.mesh = verTo
                      /\ before.synced => before.remote = "1.29.2"
    /\ pc = "observe" /\ ~prereq =>
         /\ remote.chart.ver = verTo /\ remote.chart.deps["ztunnel"] = Target
         /\ before.pinned => remote.mesh = verTo
         /\ before.synced => before.remote = "1.29.2"

IInv == TypeOK /\ Control /\ Registry /\ Unused /\ Line /\ Content /\ Pin /\ Bumped

-----------------------------------------------------------------------------
(* A fresh version has the job's tag and a greater core.                   *)
LEMMA NextVersionIn ==
  ASSUME NEW v \in Version, NEW hop, NEW n \in Nat
  PROVE  /\ NextChartVersion(v, hop, n) \in Version
         /\ NextChartVersion(v, hop, n).tag = n
         /\ CoreLess(v, NextChartVersion(v, hop, n))
BY DEF NextChartVersion, Version, CoreLess

(* A chart is its two fields.                                              *)
LEMMA ChartEq ==
  ASSUME NEW c \in Chart
  PROVE  [ver |-> c.ver, deps |-> c.deps] = c
BY DEF Chart

(* The invariant holds of the fresh clone.                                 *)
LEMMA InitIInv == Init => IInv
<1> SUFFICES ASSUME Init PROVE IInv
  OBVIOUS
<1> USE DEF Init, FirstCommit, FirstChart, FirstVersion
<1>1. TypeOK
  <2>1. FirstVersion \in Version /\ FirstVersion \in Revision
    BY DEF Version, Revision
  <2>2. FirstChart \in Chart
    BY <2>1 DEF Chart, All, Release
  <2>3. FirstCommit \in Commit /\ NoFile \in Revision
    BY <2>1, <2>2 DEF Commit, Revision
  <2>4. before \in [remote : Release, live : Release, synced : BOOLEAN, pinned : BOOLEAN]
    BY DEF Release
  <2>5. vendored \in [Dep -> Release]
    BY DEF All, Release
  <2> QED  BY <2>1, <2>2, <2>3, <2>4, <2>5 DEF TypeOK
<1>2. SkewFree(FirstChart.deps)
  BY DEF SkewFree, All, Dep
<1>3. Registry
  BY <1>2 DEF Registry
<1>4. Unused /\ Line
  BY DEF Unused, Line, NotAfter, Edited, Working
<1>5. Control /\ Content /\ Pin /\ Bumped
  BY <1>2 DEF Control, Content, Pin, Bumped, Edited
<1> QED  BY <1>1, <1>3, <1>4, <1>5 DEF IInv

\* A chart whose dependencies moved is a chart.
LEMMA BumpedIsChart ==
  ASSUME chart \in Chart, verTo \in Version, job \in {"patch", "minor"}, BumpChart
  PROVE  chart' \in Chart
<1> DEFINE f == [d \in Dep |-> IF d \in Moved THEN Target ELSE chart.deps[d]]
<1>1. f \in [Dep -> Release]
  <2>1. Target \in Release
    BY DEF Target, Release
  <2> QED  BY <2>1 DEF Chart
<1>2. chart' = chart \/ chart' = [ver |-> verTo, deps |-> f]
  BY DEF BumpChart
<1> HIDE DEF f
<1> QED  BY <1>1, <1>2 DEF Chart

(* Every command keeps the types.                                          *)
LEMMA TypeNext == TypeOK /\ Control /\ [Next]_vars => TypeOK'
<1> SUFFICES ASSUME TypeOK, Control, [Next]_vars PROVE TypeOK'
  OBVIOUS
<1> USE DEF TypeOK, treeVars, gitVars, jobVars, syncVars, measureVars, Goto
<1>1. ASSUME NEW kind \in {"patch", "minor", "reset", "atomic"}, Begin(kind) PROVE TypeOK'
  <2>1. jobs' \in Nat /\ verTo' \in Version
    BY <1>1, NextVersionIn DEF Begin, Chart
  <2>2. before' \in [remote : Release, live : Release, synced : BOOLEAN, pinned : BOOLEAN]
    BY <1>1 DEF Begin, Chart, Commit, Dep
  <2> QED  BY <1>1, <2>1, <2>2 DEF Begin
<1>2. CASE Float
  BY <1>2 DEF Float, Revision
<1>3. CASE Edit
  <2>1. CASE job = "reset"
    BY <1>3, <2>1 DEF Edit, RewriteChart, Target, All, Chart, Release, Revision
  <2>2. CASE job = "atomic"
    BY <1>3, <2>2, NextVersionIn DEF Edit, BumpVersion, Chart
  <2>3. CASE job \notin {"reset", "atomic"}
    <3>1. job \in {"patch", "minor"}
      BY <1>3, <2>3 DEF Edit, Control
    <3>2. BumpChart
      BY <1>3, <2>3 DEF Edit
    <3>3. chart' \in Chart
      BY <3>1, <3>2, BumpedIsChart
    <3>4. mesh' = mesh /\ verTo' = verTo /\ prereq' \in BOOLEAN /\ pc' \in {"vendor", "observe"}
      BY <3>2 DEF BumpChart
    <3>5. UNCHANGED <<vendored, index, published, gitVars, live, job, jobs, before, syncVars,
                      results, outcome>>
      BY <1>3 DEF Edit
    <3> QED  BY <3>3, <3>4, <3>5
  <2> QED  BY <2>1, <2>2, <2>3
<1>4. CASE Vendor
  BY <1>4 DEF Vendor, Chart
<1>5. CASE Publish
  BY <1>5 DEF Publish, Push, Chart
<1>6. CASE Repoint
  BY <1>6 DEF Repoint, BumpTargetRevision, Revision
<1>7. CASE GitCommit
  BY <1>7 DEF GitCommit, Added, Commit
<1>8. CASE GitPush
  <2>1. remote' \in Commit /\ torn' \in Nat /\ mesh' \in Revision /\ backup' \in Revision
    BY <1>8 DEF GitPush, Restore, Revision
  <2>2. pc' \in {"idle", "edit", "observe"}
    BY <1>8 DEF GitPush
  <2> QED  BY <1>8, <2>1, <2>2 DEF GitPush
<1>9. CASE CommandFails
  <2>1. published' \subseteq Chart
    BY <1>9 DEF CommandFails, Push, Chart
  <2>2. remote' \in Commit
    BY <1>9 DEF CommandFails
  <2>3. index' \in Chart
    BY <1>9 DEF CommandFails, Added
  <2>4. mesh' \in Revision /\ backup' \in Revision
    BY <1>9 DEF CommandFails, Restore, Revision
  <2>5. pc' \in {"idle", "observe"} /\ prereq' \in BOOLEAN
    BY <1>9 DEF CommandFails
  <2> QED  BY <1>9, <2>1, <2>2, <2>3, <2>4, <2>5 DEF CommandFails
<1>10. CASE Signal
  BY <1>10 DEF Signal, Restore, Revision
<1>11. CASE ScriptKilled \/ HarnessDies
  BY <1>11 DEF ScriptKilled, HarnessDies, Revision
<1>12. CASE Observe
  BY <1>12 DEF Observe
<1>13. CASE Judge
  BY <1>13 DEF Judge
<1>14. CASE DiscardEdits
  BY <1>14 DEF DiscardEdits, Commit
<1>15. CASE ArgoSync
  <2>1. Named \subseteq published
    BY DEF Named
  <2> QED  BY <1>15, <2>1 DEF ArgoSync
<1>16. CASE UNCHANGED vars
  BY <1>16 DEF vars
<1> QED
  BY <1>1, <1>2, <1>3, <1>4, <1>5, <1>6, <1>7, <1>8, <1>9, <1>10, <1>11, <1>12, <1>13, <1>14,
     <1>15, <1>16
     DEF Next, JobStep, Finished

(* The scripts take their commands in order.                               *)
LEMMA ControlNext == TypeOK /\ Control /\ [Next]_vars => Control'
<1> SUFFICES ASSUME TypeOK, Control, [Next]_vars PROVE Control'
  OBVIOUS
<1>0. jobs \in Nat /\ phase \in {"A", "B"}
  BY DEF TypeOK
<1> USE DEF Control, treeVars, gitVars, jobVars, syncVars, measureVars, Goto
<1>1. ASSUME NEW kind \in {"patch", "minor", "reset", "atomic"}, Begin(kind) PROVE Control'
  BY <1>0, <1>1 DEF Begin
<1>2. CASE Float \/ Vendor \/ Repoint \/ GitCommit
  BY <1>2 DEF Float, Vendor, Repoint, GitCommit
<1>3. CASE Edit
  BY <1>3 DEF Edit, RewriteChart, BumpVersion, BumpChart
<1>4. CASE Publish
  BY <1>0, <1>4 DEF Publish, Push
<1>5. CASE GitPush
  BY <1>0, <1>5 DEF GitPush, Restore
<1>6. CASE CommandFails
  BY <1>6 DEF CommandFails, Restore
<1>7. CASE Signal \/ ScriptKilled \/ HarnessDies
  BY <1>7 DEF Signal, ScriptKilled, HarnessDies, Restore
<1>8. CASE Observe \/ Judge
  BY <1>8 DEF Observe, Judge
<1>9. CASE DiscardEdits \/ ArgoSync
  BY <1>9 DEF DiscardEdits, ArgoSync
<1>10. CASE UNCHANGED vars
  BY <1>10 DEF vars
<1> QED
  BY <1>1, <1>2, <1>3, <1>4, <1>5, <1>6, <1>7, <1>8, <1>9, <1>10 DEF Next, JobStep, Finished

(* What a publication adds to the registry is a new version.               *)
LEMMA PushNew ==
  ASSUME IInv, pc = "publish", NEW c, c = [ver |-> chart.ver, deps |-> vendored], Push(c)
  PROVE  /\ c = chart /\ published' = published \cup {chart}
         /\ \A d \in published : d.ver # chart.ver
<1>1. c = chart
  BY ChartEq DEF IInv, TypeOK, Content
<1>2. ASSUME NEW d \in published PROVE d.ver # chart.ver
  <2>1. d.ver \in Version /\ chart.ver \in Version /\ jobs \in Nat
    BY DEF IInv, TypeOK, Chart
  <2>2. d.ver.tag < jobs \/ CoreLess(d.ver, chart.ver)
    BY DEF IInv, Unused
  <2>3. chart.ver.tag = jobs
    BY DEF IInv, Unused, Edited, Working
  <2> QED  BY <2>1, <2>2, <2>3 DEF CoreLess, Version
<1> QED  BY <1>1, <1>2 DEF Push

(* The registry keeps every chart it has.                                  *)
LEMMA RegistryGrows ==
  ASSUME IInv, [Next]_vars
  PROVE  \/ published' = published
         \/ /\ pc = "publish" /\ published' = published \cup {chart}
            /\ \A d \in published : d.ver # chart.ver
<1> USE DEF treeVars, gitVars, jobVars, syncVars, measureVars
<1>1. CASE Publish
  BY <1>1, PushNew DEF Publish
<1>2. CASE CommandFails
  BY <1>2, PushNew DEF CommandFails
<1>3. CASE \E kind \in {"patch", "minor", "reset", "atomic"} : Begin(kind)
  BY <1>3 DEF Begin
<1>4. CASE Float \/ Edit \/ Vendor \/ Repoint \/ GitCommit \/ GitPush
  BY <1>4 DEF Float, Edit, Vendor, Repoint, GitCommit, GitPush
<1>5. CASE Signal \/ ScriptKilled \/ HarnessDies \/ Observe \/ Judge
  BY <1>5 DEF Signal, ScriptKilled, HarnessDies, Observe, Judge
<1>6. CASE DiscardEdits \/ ArgoSync \/ UNCHANGED vars
  BY <1>6 DEF DiscardEdits, ArgoSync, vars
<1> QED
  BY <1>1, <1>2, <1>3, <1>4, <1>5, <1>6 DEF Next, JobStep, Finished

(* What a commit adds: the chart in phase B, the index it has in phase A.  *)
LEMMA AddedIs ==
  ASSUME IInv, pc = "commit"
  PROVE  /\ Added \in published
         /\ phase = "A" => Added = index
         /\ phase = "B" => Added = chart
BY DEF IInv, TypeOK, Control, Content, Registry, Added

(* The index, the commit and the branch move to published charts only: the *)
(* index to what a commit adds or to the last commit, the commit to the    *)
(* index, and the branch to the commit.                                    *)
LEMMA TreeMoves ==
  ASSUME IInv, [Next]_vars
  PROVE  /\ \/ index' = index
            \/ pc = "commit" /\ index' = Added
            \/ pc = "idle" /\ index' = head.chart
         /\ head' = head \/ (pc = "commit" /\ index' = Added /\ head' = [chart |-> Added, mesh |-> mesh])
         /\ remote' = remote \/ (pc = "push" /\ remote' = head)
<1> USE DEF treeVars, gitVars, jobVars, syncVars, measureVars
<1>1. CASE \E kind \in {"patch", "minor", "reset", "atomic"} : Begin(kind)
  BY <1>1 DEF Begin
<1>2. CASE Float \/ Edit \/ Vendor \/ Publish \/ Repoint
  BY <1>2 DEF Float, Edit, Vendor, Publish, Repoint
<1>3. CASE GitCommit
  BY <1>3 DEF GitCommit
<1>4. CASE GitPush
  BY <1>4 DEF GitPush
<1>5. CASE CommandFails
  BY <1>5 DEF CommandFails
<1>6. CASE Signal \/ ScriptKilled \/ HarnessDies \/ Observe \/ Judge
  BY <1>6 DEF Signal, ScriptKilled, HarnessDies, Observe, Judge
<1>7. CASE DiscardEdits \/ ArgoSync \/ UNCHANGED vars
  BY <1>7 DEF DiscardEdits, ArgoSync, vars
<1> QED
  BY <1>1, <1>2, <1>3, <1>4, <1>5, <1>6, <1>7 DEF Next, JobStep, Finished

(* The registry stays a function of the version, and free of skew.         *)
LEMMA RegistryNext == IInv /\ [Next]_vars => Registry'
<1> SUFFICES ASSUME IInv, [Next]_vars PROVE Registry'
  OBVIOUS
<1>1. published \subseteq published'
  BY RegistryGrows
<1>2. \A c, d \in published' : c.ver = d.ver => c = d
  BY RegistryGrows DEF IInv, Registry
<1>3. \A c \in published' : SkewFree(c.deps)
  BY RegistryGrows DEF IInv, Registry, Content
<1>4. index' \in published' /\ head'.chart \in published' /\ remote'.chart \in published'
  BY <1>1, TreeMoves, AddedIs DEF IInv, Registry
<1> QED  BY <1>2, <1>3, <1>4 DEF Registry

(* The cores are ordered, and the order of the program extends theirs.     *)
LEMMA CoreOrder ==
  ASSUME NEW a \in Version, NEW b \in Version, NEW c \in Version
  PROVE  /\ CoreLess(a, b) /\ CoreLess(b, c) => CoreLess(a, c)
         /\ CoreLeq(a, b) /\ CoreLess(b, c) => CoreLess(a, c)
         /\ CoreLess(a, b) => CoreLeq(a, b) /\ SemverLess(a, b)
         /\ CoreLeq(a, a)
BY DEF CoreLess, CoreLeq, SemverLess, Version

(* The edit of a job: a new version, or an error and nothing changed.      *)
LEMMA EditMoves ==
  ASSUME IInv, Edit
  PROVE  \/ /\ pc' = "vendor" /\ chart'.ver = verTo' /\ chart' \in Chart
            /\ CoreLess(chart.ver, verTo') /\ verTo'.tag = jobs
         \/ pc' = "observe" /\ chart' = chart
<1> USE DEF IInv, TypeOK, Goto
<1>0. chart' \in Chart /\ chart.ver \in Version
  BY TypeNext DEF Edit, Next, JobStep, Chart
<1>1. pc = "edit" /\ verTo.tag = jobs /\ (CoreLess(chart.ver, verTo) \/ job = "atomic")
  BY DEF Edit, Unused, Line, Working
<1>2. CASE job = "reset" /\ RewriteChart
  BY <1>0, <1>1, <1>2 DEF RewriteChart
<1>3. CASE job = "atomic" /\ BumpVersion
  BY <1>0, <1>3, NextVersionIn DEF BumpVersion, Chart
<1>4. CASE job \in {"patch", "minor"} /\ BumpChart
  BY <1>0, <1>1, <1>4 DEF BumpChart
<1> QED  BY <1>2, <1>3, <1>4 DEF Edit

(* No step puts the version of the running job in the registry but its own *)
(* publication.                                                            *)
LEMMA UnusedNext == IInv /\ [Next]_vars => Unused'
<1> SUFFICES ASSUME IInv, [Next]_vars PROVE Unused'
  OBVIOUS
<1>0. /\ jobs \in Nat /\ chart.ver \in Version /\ phase \in {"A", "B"}
      /\ \A c \in published : c.ver \in Version /\ c.ver.tag \in Nat
  BY DEF IInv, TypeOK, Chart, Version
<1> USE DEF Unused, Edited, Working, treeVars, gitVars, jobVars, syncVars, measureVars, Goto
<1>1. ASSUME NEW kind \in {"patch", "minor", "reset", "atomic"}, Begin(kind) PROVE Unused'
  BY <1>0, <1>1, NextVersionIn DEF Begin, IInv
<1>2. CASE Float \/ Vendor \/ Repoint \/ GitCommit
  <2>1. CASE Float
    BY <2>1 DEF Float, IInv, Control
  <2>2. CASE Vendor
    BY <2>2 DEF Vendor, IInv
  <2>3. CASE Repoint
    BY <2>3 DEF Repoint, IInv, Control
  <2>4. CASE GitCommit
    BY <2>4 DEF GitCommit, IInv
  <2> QED  BY <1>2, <2>1, <2>2, <2>3, <2>4
<1>3. CASE Edit
  BY <1>0, <1>3, EditMoves, CoreOrder DEF Edit, IInv, Chart
<1>4. CASE Publish
  BY <1>0, <1>4, PushNew, CoreOrder DEF Publish, IInv
<1>5. CASE GitPush
  BY <1>0, <1>5 DEF GitPush, Restore, IInv, Control
<1>6. CASE CommandFails
  BY <1>0, <1>6, PushNew DEF CommandFails, Restore, IInv
<1>7. CASE Signal \/ ScriptKilled \/ HarnessDies
  BY <1>7 DEF Signal, ScriptKilled, HarnessDies, Restore, IInv
<1>8. CASE Observe \/ Judge
  BY <1>8 DEF Observe, Judge, IInv
<1>9. CASE DiscardEdits \/ ArgoSync
  BY <1>9 DEF DiscardEdits, ArgoSync, IInv
<1>10. CASE UNCHANGED vars
  BY <1>10 DEF vars, IInv
<1> QED
  BY <1>1, <1>2, <1>3, <1>4, <1>5, <1>6, <1>7, <1>8, <1>9, <1>10 DEF Next, JobStep, Finished

\* NotAfter is an order, and a later core is after what it is later than.
LEMMA NotAfterOrder ==
  ASSUME NEW a \in Chart, NEW b \in Chart, NEW c \in Chart
  PROVE  /\ NotAfter(a, b) /\ NotAfter(b, c) => NotAfter(a, c)
         /\ NotAfter(a, b) /\ CoreLess(b.ver, c.ver) => CoreLess(a.ver, c.ver)
         /\ NotAfter(a, a)
BY CoreOrder DEF NotAfter, Chart

(* The line of charts is kept, failed commands and dropped edits included. *)
LEMMA LineNext == IInv /\ [Next]_vars => Line'
<1> SUFFICES ASSUME IInv, [Next]_vars PROVE Line'
  OBVIOUS
<1>0. /\ chart \in Chart /\ index \in Chart /\ head.chart \in Chart /\ remote.chart \in Chart
      /\ phase \in {"A", "B"} /\ chart.ver \in Version
  BY DEF IInv, TypeOK, Commit, Chart
<1> USE DEF Line, Edited, treeVars, gitVars, jobVars, syncVars, measureVars, Goto
<1>1. ASSUME NEW kind \in {"patch", "minor", "reset", "atomic"}, Begin(kind) PROVE Line'
  <2>1. jobs' \in Nat
    BY <1>1 DEF Begin, IInv, TypeOK
  <2> QED  BY <1>0, <1>1, <2>1, NextVersionIn DEF Begin, IInv
<1>2. CASE Float
  BY <1>2 DEF Float, IInv, Control
<1>3. CASE Edit
  <2>1. NotAfter(index, chart) /\ index' = index /\ gitVars' = gitVars
    BY <1>3 DEF Edit, IInv
  <2>2. CASE pc' = "vendor" /\ chart'.ver = verTo' /\ chart' \in Chart /\ CoreLess(chart.ver, verTo')
    <3>1. CoreLess(index.ver, chart'.ver)
      BY <1>0, <2>1, <2>2, NotAfterOrder
    <3> QED  BY <2>1, <2>2, <3>1 DEF IInv, NotAfter
  <2>3. CASE pc' = "observe" /\ chart' = chart
    BY <2>1, <2>3 DEF IInv
  <2> QED  BY <1>3, <2>2, <2>3, EditMoves
<1>4. CASE Vendor \/ Repoint
  BY <1>4 DEF Vendor, Repoint, IInv, Control
<1>5. CASE Publish
  BY <1>5 DEF Publish, IInv
<1>6. CASE GitCommit
  <2>1. CASE phase = "A"
    BY <1>0, <1>6, <2>1, AddedIs, NotAfterOrder DEF GitCommit, IInv
  <2>2. CASE phase = "B"
    BY <1>0, <1>6, <2>2, AddedIs, NotAfterOrder DEF GitCommit, IInv
  <2> QED  BY <1>0, <2>1, <2>2
<1>7. CASE GitPush
  BY <1>0, <1>7, NotAfterOrder DEF GitPush, IInv, Control
<1>8. CASE CommandFails
  <2>1. NotAfter(remote'.chart, head'.chart)
    BY <1>0, <1>8, NotAfterOrder DEF CommandFails, IInv
  <2>2. NotAfter(head'.chart, index') /\ NotAfter(index', chart')
    BY <1>0, <1>8, AddedIs, NotAfterOrder DEF CommandFails, IInv, NotAfter
  <2> QED  BY <1>8, <2>1, <2>2 DEF CommandFails
<1>9. CASE Signal \/ ScriptKilled \/ HarnessDies
  BY <1>9 DEF Signal, ScriptKilled, HarnessDies, IInv
<1>10. CASE Observe \/ Judge
  BY <1>10 DEF Observe, Judge, IInv
<1>11. CASE DiscardEdits
  BY <1>0, <1>11, NotAfterOrder DEF DiscardEdits, IInv
<1>12. CASE ArgoSync \/ UNCHANGED vars
  BY <1>12 DEF ArgoSync, vars, IInv
<1> QED
  BY <1>1, <1>2, <1>3, <1>4, <1>5, <1>6, <1>7, <1>8, <1>9, <1>10, <1>11, <1>12
     DEF Next, JobStep, Finished

(* An edit keeps the working copy free of skew.                            *)
LEMMA ContentNext == IInv /\ [Next]_vars => Content'
<1> SUFFICES ASSUME IInv, [Next]_vars PROVE Content'
  OBVIOUS
<1>0. /\ phase \in {"A", "B"} /\ SkewFree(chart.deps)
      /\ chart.deps \in [Dep -> Release]
  BY DEF IInv, TypeOK, Content, Chart
<1> USE DEF Content, treeVars, gitVars, jobVars, syncVars, measureVars, Goto
<1>1. ASSUME NEW kind \in {"patch", "minor", "reset", "atomic"}, Begin(kind) PROVE Content'
  BY <1>1 DEF Begin, IInv
<1>2. CASE Float
  BY <1>2 DEF Float, IInv, Control
<1>3. CASE Edit
  <2>1. CASE job = "reset" /\ RewriteChart
    <3>1. chart'.deps = All("1.29.2") /\ pc' = "vendor"
      BY <2>1 DEF RewriteChart, Target
    <3> QED  BY <3>1 DEF SkewFree, All, Dep
  <2>2. CASE job = "atomic" /\ BumpVersion
    <3>1. chart'.deps = chart.deps /\ pc' = "vendor"
      BY <2>2 DEF BumpVersion, IInv, TypeOK, Chart
    <3> QED  BY <1>0, <3>1
  <2>3. CASE job \in {"patch", "minor"} /\ pc' = "vendor" /\ BumpChart
    <3>1. /\ \A d \in Moved : chart.deps[d] = "1.29.2"
          /\ chart'.deps = [d \in Dep |-> IF d \in Moved THEN Target ELSE chart.deps[d]]
      BY <2>3 DEF BumpChart
    <3>2. CASE job = "patch"
      BY <1>0, <2>3, <3>1, <3>2 DEF Moved, Target, SkewFree, All, Dep
    <3>3. CASE job = "minor"
      BY <2>3, <3>1, <3>3 DEF Moved, Target, SkewFree, All
    <3> QED  BY <2>3, <3>2, <3>3
  <2>4. CASE pc' = "observe" /\ BumpChart
    BY <1>0, <2>4 DEF BumpChart
  <2> QED  BY <1>3, <2>1, <2>2, <2>3, <2>4 DEF Edit, BumpChart
<1>4. CASE Vendor \/ Repoint
  BY <1>4 DEF Vendor, Repoint, IInv
<1>5. CASE Publish
  BY <1>5, PushNew DEF Publish, IInv
<1>6. CASE GitCommit \/ GitPush
  BY <1>6 DEF GitCommit, GitPush, IInv
<1>7. CASE CommandFails
  BY <1>7 DEF CommandFails, IInv
<1>8. CASE Signal \/ ScriptKilled \/ HarnessDies
  BY <1>8 DEF Signal, ScriptKilled, HarnessDies, IInv
<1>9. CASE Observe \/ Judge
  BY <1>9 DEF Observe, Judge, IInv
<1>10. CASE DiscardEdits
  BY <1>10 DEF DiscardEdits, IInv, Registry
<1>11. CASE ArgoSync \/ UNCHANGED vars
  BY <1>11 DEF ArgoSync, vars, IInv
<1> QED
  BY <1>1, <1>2, <1>3, <1>4, <1>5, <1>6, <1>7, <1>8, <1>9, <1>10, <1>11
     DEF Next, JobStep, Finished

(* Only a signal before the commit takes the pin away from the chart.      *)
LEMMA PinNext == IInv /\ [Next]_vars => Pin'
<1> SUFFICES ASSUME IInv, [Next]_vars PROVE Pin'
  OBVIOUS
<1>0. phase \in {"A", "B"} /\ torn \in Nat /\ jobs \in Nat /\ (pc # "idle" => jobs > 0)
  BY DEF IInv, TypeOK, Control
<1> USE DEF Pin, Edited, treeVars, gitVars, jobVars, syncVars, measureVars, Goto
<1>1. ASSUME NEW kind \in {"patch", "minor", "reset", "atomic"}, Begin(kind) PROVE Pin'
  BY <1>1 DEF Begin, IInv
<1>2. CASE Float
  BY <1>2 DEF Float, IInv, Control
<1>3. CASE Edit
  BY <1>0, <1>3 DEF Edit, RewriteChart, BumpVersion, BumpChart, IInv
<1>4. CASE Vendor
  BY <1>4 DEF Vendor, IInv
<1>5. CASE Publish
  BY <1>0, <1>5 DEF Publish, IInv, Unused
<1>6. CASE Repoint
  BY <1>0, <1>6 DEF Repoint, BumpTargetRevision, IInv, Unused, Control
<1>7. CASE GitCommit
  BY <1>0, <1>7, AddedIs DEF GitCommit, IInv
<1>8. CASE GitPush
  BY <1>0, <1>8 DEF GitPush, Restore, IInv, Control
<1>9. CASE CommandFails
  BY <1>0, <1>9 DEF CommandFails, IInv
<1>10. CASE Signal
  BY <1>0, <1>10 DEF Signal, IInv
<1>11. CASE ScriptKilled \/ HarnessDies
  BY <1>11 DEF ScriptKilled, HarnessDies, IInv
<1>12. CASE Observe \/ Judge
  BY <1>12 DEF Observe, Judge, IInv
<1>13. CASE DiscardEdits
  BY <1>13 DEF DiscardEdits, IInv
<1>14. CASE ArgoSync \/ UNCHANGED vars
  BY <1>14 DEF ArgoSync, vars, IInv
<1> QED
  BY <1>1, <1>2, <1>3, <1>4, <1>5, <1>6, <1>7, <1>8, <1>9, <1>10, <1>11, <1>12, <1>13, <1>14
     DEF Next, JobStep, Finished

(* The new ztunnel and its pin are carried by every command of a hop.      *)
LEMMA BumpedNext == IInv /\ [Next]_vars => Bumped'
<1> SUFFICES ASSUME IInv, [Next]_vars, job' \in {"patch", "minor"} PROVE Bumped'
  BY DEF Bumped
<1>0. phase \in {"A", "B"} /\ prereq \in BOOLEAN /\ before.pinned \in BOOLEAN /\ before.synced \in BOOLEAN
  BY DEF IInv, TypeOK
<1> USE DEF Bumped, Edited, Target, treeVars, gitVars, jobVars, syncVars, measureVars, Goto
<1>1. ASSUME NEW kind \in {"patch", "minor", "reset", "atomic"}, Begin(kind) PROVE Bumped'
  <2>1. /\ before'.remote = remote.chart.deps["ztunnel"] /\ before'.pinned = (mesh # Floating)
        /\ before'.synced => remote = [chart |-> chart, mesh |-> mesh]
    BY <1>1 DEF Begin
  <2>2. before'.synced => before'.remote = chart.deps["ztunnel"]
    <3>1. [chart |-> chart, mesh |-> mesh].chart = chart
      OBVIOUS
    <3> QED  BY <2>1, <3>1
  <2>3. pc' = "edit" /\ chart' = chart /\ mesh' = mesh
    BY <1>1 DEF Begin
  <2> QED  BY <2>1, <2>2, <2>3
<1>2. CASE Float
  BY <1>2 DEF Float, IInv, Control
<1>3. CASE Edit
  <2>1. BumpChart /\ pc = "edit" /\ job' = job /\ before' = before
    BY <1>3 DEF Edit
  <2>2. CASE pc' = "vendor"
    <3>1. /\ \A d \in Moved : chart.deps[d] = "1.29.2"
          /\ chart'.ver = verTo /\ verTo' = verTo
          /\ chart'.deps = [d \in Dep |-> IF d \in Moved THEN Target ELSE chart.deps[d]]
          /\ mesh' = mesh
      BY <2>1, <2>2 DEF BumpChart
    <3>2. "ztunnel" \in Moved /\ "ztunnel" \in Dep /\ Target # "1.29.2"
      BY <2>1 DEF Moved, Target, Dep
    <3> QED  BY <1>3, <2>1, <2>2, <3>1, <3>2 DEF IInv
  <2>3. CASE pc' = "observe"
    BY <2>1, <2>3 DEF BumpChart
  <2> QED  BY <2>1, <2>2, <2>3 DEF BumpChart
<1>4. CASE Vendor
  BY <1>4 DEF Vendor, IInv
<1>5. CASE Publish
  BY <1>0, <1>5 DEF Publish, IInv
<1>6. CASE Repoint
  BY <1>0, <1>6 DEF Repoint, BumpTargetRevision, IInv
<1>7. CASE GitCommit
  BY <1>0, <1>7, AddedIs DEF GitCommit, IInv, Control
<1>8. CASE GitPush
  BY <1>0, <1>8 DEF GitPush, IInv
<1>9. CASE CommandFails
  BY <1>0, <1>9 DEF CommandFails, IInv
<1>10. CASE Signal
  BY <1>0, <1>10 DEF Signal, IInv
<1>11. CASE ScriptKilled \/ HarnessDies
  BY <1>11 DEF ScriptKilled, HarnessDies, IInv
<1>12. CASE Observe \/ Judge
  BY <1>12 DEF Observe, Judge, IInv
<1>13. CASE DiscardEdits
  BY <1>13 DEF DiscardEdits, IInv
<1>14. CASE ArgoSync \/ UNCHANGED vars
  BY <1>14 DEF ArgoSync, vars, IInv
<1> QED
  BY <1>1, <1>2, <1>3, <1>4, <1>5, <1>6, <1>7, <1>8, <1>9, <1>10, <1>11, <1>12, <1>13, <1>14
     DEF Next, JobStep, Finished

-----------------------------------------------------------------------------
(* The conjuncts together are inductive.                                   *)
LEMMA Invariance == Spec => []IInv
<1>1. IInv /\ [Next]_vars => IInv'
  <2> SUFFICES ASSUME IInv, [Next]_vars PROVE IInv'
    OBVIOUS
  <2>1. TypeOK' /\ Control'
    BY TypeNext, ControlNext DEF IInv
  <2>2. Registry' /\ Unused' /\ Line'
    BY RegistryNext, UnusedNext, LineNext
  <2>3. Content' /\ Pin' /\ Bumped'
    BY ContentNext, PinNext, BumpedNext
  <2> QED  BY <2>1, <2>2, <2>3 DEF IInv
<1> QED  BY InitIInv, <1>1, PTL DEF Spec

(* ChartHop is typed: every command of every job leaves versions, charts   *)
(* and locations of the scripts where they belong.                         *)
THEOREM TypeCorrect == Spec => []TypeOK
BY Invariance, PTL DEF IInv

(* What the branch names can be pulled and is what the branch says,        *)
(* wherever jobs failed, for any number of them.                           *)
THEOREM BranchPublished == Spec => []BranchIsPublished
<1>1. IInv => BranchIsPublished
  BY DEF IInv, Registry, Pin, BranchIsPublished
<1> QED  BY Invariance, <1>1, PTL

(* No chart of the registry mixes minors of Istio.                         *)
THEOREM NoSkewEver == Spec => []NoSkew
<1>1. IInv => NoSkew
  BY DEF IInv, Registry, SkewFree, NoSkew
<1> QED  BY Invariance, <1>1, PTL

(* A git-bump trigger that reports itself applied has put its chart with   *)
(* the target ztunnel on the branch, whatever tree it started from; pinned *)
(* the branch to it, if it was pinned; and moved the ztunnel of the        *)
(* branch, if the tree was that of the branch.                             *)
THEOREM AppliedMovesEver == Spec => []AppliedMoves
<1>1. IInv => AppliedMoves
  BY DEF IInv, Bumped, Target, AppliedMoves
<1> QED  BY Invariance, <1>1, PTL

(* helm push never overwrites a version with other content.                *)
THEOREM ChartNeverChanges == Spec => ChartImmutable
<1>1. IInv /\ [Next]_vars => [\A c, d \in published \cup published' : c.ver = d.ver => c = d]_vars
  <2> SUFFICES ASSUME IInv, [Next]_vars
               PROVE  \A c, d \in published \cup published' : c.ver = d.ver => c = d
    OBVIOUS
  <2> QED  BY RegistryGrows DEF IInv, Registry
<1> QED  BY Invariance, <1>1, PTL DEF Spec, ChartImmutable

(* Each push moves the branch to a greater chart, or only opens its range. *)
THEOREM OnlyForward == Spec => BranchRollsForward
<1>1. IInv /\ [Next]_vars =>
        [remote' # remote /\ torn' = 0 =>
           \/ SemverLess(remote.chart.ver, remote'.chart.ver)
           \/ remote'.chart = remote.chart /\ remote'.mesh = Floating]_vars
  <2> SUFFICES ASSUME IInv, [Next]_vars, remote' # remote, torn' = 0
               PROVE  \/ SemverLess(remote.chart.ver, remote'.chart.ver)
                      \/ remote'.chart = remote.chart /\ remote'.mesh = Floating
    OBVIOUS
  <2>1. pc = "push" /\ remote' = head /\ (GitPush \/ CommandFails)
    BY TreeMoves DEF Next, JobStep, Finished, vars, Begin, Float, Edit, Vendor, Publish, Repoint,
       GitCommit, Signal, ScriptKilled, HarnessDies, Observe, Judge, DiscardEdits, ArgoSync,
       gitVars
  <2>2. torn # jobs
    BY <2>1 DEF GitPush, CommandFails, IInv, Control
  <2>3. NotAfter(remote.chart, head.chart) /\ remote.chart.ver \in Version /\ head.chart.ver \in Version
    BY DEF IInv, Line, TypeOK, Commit, Chart
  <2>4. CASE phase = "B"
    BY <2>1, <2>3, <2>4, CoreOrder DEF IInv, Line
  <2>5. CASE phase = "A"
    BY <2>1, <2>2, <2>3, <2>5, CoreOrder DEF IInv, Pin, NotAfter
  <2> QED  BY <2>4, <2>5 DEF IInv, TypeOK
<1> QED  BY Invariance, <1>1, PTL DEF Spec, BranchRollsForward
===============================================================================
