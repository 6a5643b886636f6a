-------------------------- MODULE RolloutRestart ---------------------------
(***************************************************************************)
(* live.RunRolloutRestart inside one harness process: it suspends the      *)
(* selfHeal of the ArgoCD Application mesh, restarts the ztunnel DaemonSet *)
(* and puts selfHeal back, from the main goroutine or, on a signal, from a *)
(* goroutine of its own that then ends the process.  main.go turns the     *)
(* same signal into the cancellation of the context both of them use.      *)
(*                                                                         *)
(* A call to the API server is one step with three outcomes: applied and   *)
(* confirmed, applied but reported as failed, not applied.                 *)
(***************************************************************************)
EXTENDS Integers

CONSTANTS Signals,     \* SIGINT or SIGTERM may come
          ApiMayFail,  \* API calls may fail though the context is alive
          RootHeals    \* demo-root heals the mesh Application's spec

ASSUME FlagAssumption == {Signals, ApiMayFail, RootHeals} \subseteq BOOLEAN

VARIABLES main,        \* where the main goroutine is
          handler,     \* where the signal goroutine is
          signalled,   \* the signal was sent
          caught,      \* it waits in sigCh
          ctxDone,     \* signal.NotifyContext has cancelled the context
          once,        \* restoreOnce: free, who runs it, or done
          restoreErr,  \* its memoised result is an error
          prev,        \* the selfHeal read at the start
          ret,         \* what RunRolloutRestart returned
          told,        \* stderr asks for a manual repair
          early,       \* history: the signal goroutine woke before the disable ended
          selfHeal,    \* spec.syncPolicy.automated.selfHeal of mesh
          annotated,   \* the DaemonSet carries the restartedAt annotation
          rolls        \* rolls of the DaemonSet

procVars == <<main, handler, ret, told, early, prev>>
sigVars == <<signalled, caught, ctxDone>>
onceVars == <<once, restoreErr>>
clusterVars == <<selfHeal, annotated, rolls>>
vars == <<procVars, sigVars, onceVars, clusterVars>>

Ended == main = "end" \/ handler = "exited"

Init ==
  /\ main = "read"
  /\ handler = "unarmed"
  /\ signalled = FALSE /\ caught = FALSE /\ ctxDone = FALSE
  /\ once = "free" /\ restoreErr = FALSE
  /\ prev = FALSE /\ ret = "none" /\ told = FALSE /\ early = FALSE
  /\ selfHeal \in BOOLEAN
  /\ annotated = FALSE /\ rolls = 0

-----------------------------------------------------------------------------
\* A call to the API server: it succeeds unless the context is done; it may
\* fail, and then what it asked for may have happened or not.
Succeeds(effect) == ~ctxDone /\ effect
Fails(effect, nothing) == (ctxDone \/ ApiMayFail) /\ (nothing \/ (~ctxDone /\ effect))

SetSelfHeal(v) == selfHeal' = v /\ UNCHANGED <<annotated, rolls>>

Return(r) == ret' = r

\* getSelfHeal.
Read ==
  /\ main = "read"
  /\ \/ /\ Succeeds(prev' = selfHeal)
        /\ main' = "arm" /\ UNCHANGED ret
     \/ /\ Fails(UNCHANGED prev, UNCHANGED prev)
        /\ main' = "observe" /\ Return("err")
  /\ UNCHANGED <<handler, told, early, sigVars, onceVars, clusterVars>>

\* signal.Notify and the goroutine that waits on sigCh.
Arm ==
  /\ main = "arm"
  /\ main' = "disable"
  /\ handler' = "waiting"
  /\ UNCHANGED <<ret, told, early, prev, sigVars, onceVars, clusterVars>>

Disable ==
  /\ main = "disable"
  /\ \/ /\ Succeeds(SetSelfHeal(FALSE))
        /\ main' = "restart" /\ UNCHANGED ret
     \/ /\ Fails(SetSelfHeal(FALSE), UNCHANGED clusterVars)
        /\ main' = "defer" /\ Return("err")
  /\ UNCHANGED <<handler, told, early, prev, sigVars, onceVars>>

Annotate == annotated' = TRUE /\ rolls' = rolls + 1 /\ UNCHANGED selfHeal

\* Mutant: a failed kubectl is tried again.
RestartRetried ==
  /\ main = "restart"
  /\ \/ Succeeds(Annotate) /\ main' = "confirm"
     \/ Fails(Annotate, UNCHANGED clusterVars) /\ UNCHANGED main
  /\ UNCHANGED <<handler, ret, told, early, prev, sigVars, onceVars>>

\* restartZtunnel runs kubectl, killed with the context.
Restart ==
  /\ main = "restart"
  /\ \/ /\ Succeeds(Annotate)
        /\ main' = "confirm" /\ UNCHANGED ret
     \/ /\ Fails(Annotate, UNCHANGED clusterVars)
        /\ main' = "defer" /\ Return("err")
  /\ UNCHANGED <<handler, told, early, prev, sigVars, onceVars>>

\* restore(): sync.Once lets the first caller patch and makes the others wait.
EnterOnce(who) ==
  /\ once = "free"
  /\ once' = who
  /\ UNCHANGED <<restoreErr, procVars, sigVars, clusterVars>>

\* Mutant: the restore tried until it succeeds.
RunUntilRestored(who) ==
  /\ once = who
  /\ \/ Succeeds(SetSelfHeal(prev)) /\ once' = "done" /\ restoreErr' = FALSE
     \/ /\ Fails(SetSelfHeal(prev), UNCHANGED clusterVars)
        /\ restoreErr' = TRUE /\ UNCHANGED once
  /\ UNCHANGED <<procVars, sigVars>>

RunOnce(who) ==
  /\ once = who
  /\ once' = "done"
  /\ \/ Succeeds(SetSelfHeal(prev)) /\ restoreErr' = FALSE
     \/ Fails(SetSelfHeal(prev), UNCHANGED clusterVars) /\ restoreErr' = TRUE
  /\ UNCHANGED <<procVars, sigVars>>

\* Mutant: the error of the explicit restore dropped, as the deferred one's is.
ConfirmBlindly ==
  /\ main = "confirm"
  /\ once = "done"
  /\ main' = "defer"
  /\ Return("ok")
  /\ UNCHANGED <<handler, told, early, prev, sigVars, onceVars, clusterVars>>

\* The explicit restore after the restart.
Confirm ==
  /\ main = "confirm"
  /\ once = "done"
  /\ main' = "defer"
  /\ Return(IF restoreErr THEN "err" ELSE "ok")
  /\ UNCHANGED <<handler, told, early, prev, sigVars, onceVars, clusterVars>>

\* The deferred restore, whose result is dropped.
Deferred ==
  /\ main = "defer"
  /\ once = "done"
  /\ main' = "unarm"
  /\ UNCHANGED <<handler, ret, told, early, prev, sigVars, onceVars, clusterVars>>

\* The deferred signal.Stop; the goroutine stays, and so does a caught signal.
Unarm ==
  /\ main = "unarm"
  /\ main' = "observe"
  /\ UNCHANGED <<handler, ret, told, early, prev, sigVars, onceVars, clusterVars>>

\* RunMeasure observes until its deadline or the end of the context, analyzes
\* and exits.
Observe ==
  /\ main = "observe"
  /\ main' = "end"
  /\ UNCHANGED <<handler, ret, told, early, prev, sigVars, onceVars, clusterVars>>

Main ==
  /\ ~Ended
  /\ \/ Read \/ Arm \/ Disable \/ Restart \/ Confirm \/ Deferred \/ Unarm \/ Observe
     \/ main \in {"confirm", "defer"} /\ EnterOnce("main")
     \/ RunOnce("main")

-----------------------------------------------------------------------------
Wake ==
  /\ handler = "waiting"
  /\ caught
  /\ handler' = "restore"
  /\ caught' = FALSE
  /\ early' = (main = "disable")
  /\ UNCHANGED <<main, ret, told, prev, signalled, ctxDone, onceVars, clusterVars>>

\* restore() has returned: report its failure, os.Exit(2).
Exit ==
  /\ handler = "restore"
  /\ once = "done"
  /\ told' = restoreErr
  /\ handler' = "exited"
  /\ UNCHANGED <<main, ret, early, prev, sigVars, onceVars, clusterVars>>

Handler ==
  /\ ~Ended
  /\ \/ Wake \/ Exit
     \/ handler = "restore" /\ EnterOnce("handler")
     \/ RunOnce("handler")

\* One signal: every registered channel gets it, sigCh only between Arm and Unarm.
Signal ==
  /\ Signals /\ ~signalled /\ ~Ended
  /\ signalled' = TRUE
  /\ caught' = (main \in {"disable", "restart", "confirm", "defer", "unarm"})
  /\ UNCHANGED <<ctxDone, procVars, onceVars, clusterVars>>

Cancel ==
  /\ signalled /\ ~ctxDone /\ ~Ended
  /\ ctxDone' = TRUE
  /\ UNCHANGED <<signalled, caught, procVars, onceVars, clusterVars>>

\* demo-root puts back the spec of Git, where selfHeal is true.
RootHeal ==
  /\ RootHeals
  /\ ~selfHeal
  /\ selfHeal' = TRUE
  /\ UNCHANGED <<annotated, rolls, procVars, sigVars, onceVars>>

\* mesh, with selfHeal on, reverts the annotation: the DaemonSet rolls again.
MeshHeal ==
  /\ selfHeal
  /\ annotated
  /\ annotated' = FALSE
  /\ rolls' = rolls + 1
  /\ UNCHANGED <<selfHeal, procVars, sigVars, onceVars>>

Terminated == Ended /\ UNCHANGED vars

Next ==
  Main \/ Handler \/ Signal \/ Cancel \/ RootHeal \/ MeshHeal \/ Terminated

Spec == Init /\ [][Next]_vars

\* Both goroutines run, and API calls return.
FairSpec == Spec /\ WF_vars(Main) /\ WF_vars(Handler)

-----------------------------------------------------------------------------
Locations ==
  /\ main \in {"read", "arm", "disable", "restart", "confirm", "defer", "unarm",
               "observe", "end"}
  /\ handler \in {"unarmed", "waiting", "restore", "exited"}
  /\ once \in {"free", "main", "handler", "done"}
  /\ ret \in {"none", "ok", "err"}

Flags ==
  /\ signalled \in BOOLEAN /\ caught \in BOOLEAN /\ ctxDone \in BOOLEAN
  /\ restoreErr \in BOOLEAN /\ prev \in BOOLEAN /\ told \in BOOLEAN
  /\ early \in BOOLEAN /\ selfHeal \in BOOLEAN /\ annotated \in BOOLEAN

(* Every variable has its type.                                            *)
TypeOK == Locations /\ Flags /\ rolls \in 0..2

\* The Application differs from what was read, by the harness's doing.
Mutated == handler # "unarmed" /\ prev /\ ~selfHeal

(* A run that reports a fired trigger has put selfHeal back, and a run that *)
(* ends with the Application mutated is one that returned an error or asked *)
(* for a manual repair - unless the signal goroutine woke before the        *)
(* disable had ended: then its restore may come first and succeed, and the  *)
(* disable take effect after it.                                            *)
MutationIsReported ==
  ~early =>
    /\ ret = "ok" => ~Mutated
    /\ Ended /\ Mutated => ret = "err" \/ told

(* trigger_rollout.go:40-41: restoration is crash-safe, a signal handler    *)
(* restores on SIGINT/SIGTERM (here: on one that found selfHeal suspended). *)
SignalRestores == handler = "exited" /\ ~early => ~Mutated
=============================================================================
