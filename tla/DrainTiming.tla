---------------------------- MODULE DrainTiming -----------------------------
(***************************************************************************)
(* When the reset of a held connection is seen, against the window it is   *)
(* expected in: one connection through a draining ztunnel, in the real     *)
(* seconds of the code, with an echo that answers at once.  The drain      *)
(* starts at 0; ztunnel resets what is left of it at InternalDrain;        *)
(* HoldAndTrickle notices at its next tick, stamps the event with the time *)
(* it noticed, and notices nothing if its session ends first.              *)
(*                                                                         *)
(* RollWatcher takes the pod's deletionTimestamp for the start of the      *)
(* window.  The API server sets it to the time of the request, when the    *)
(* drain starts, plus the grace period: StampOffset = Grace.               *)
(***************************************************************************)
EXTENDS Integers

CONSTANTS InternalDrain,  \* seconds from the drain's start to the RST (115)
          Grace,          \* terminationGracePeriodSeconds (120)
          Eps,            \* the analyzer's jitter tolerance (2)
          KeepAlive,      \* period of the keepalive (20)
          Hold,           \* the load worker's hold (130 and more)
          StampOffset     \* deletionTimestamp minus the start of the drain (120)

ASSUME SecondsAssumption ==
  /\ InternalDrain \in Nat /\ Grace \in Nat /\ Eps \in Nat
  /\ KeepAlive \in Nat \ {0} /\ Hold \in Nat /\ StampOffset \in Nat

VARIABLES now,       \* seconds since the drain started
          conn,      \* the connection that was held at that moment
          nextTick,  \* when its ticker fires
          sessEnd,   \* when its session's hold elapses, if it has one
          seen       \* ts of its ConnReset event

vars == <<now, conn, nextTick, sessEnd, seen>>

Alive == conn \in {"held", "reset"}

\* The drain meets the ticker and the session at any point of their periods.
\* The session of a probe has no end, which sessEnd = 0 stands for.
Init ==
  /\ now = 0
  /\ conn = "held"
  /\ nextTick \in 1..KeepAlive
  /\ sessEnd \in 0..Hold
  /\ seen = 0

ZtunnelResets ==
  /\ conn = "held"
  /\ now = InternalDrain
  /\ conn' = "reset"
  /\ UNCHANGED <<now, nextTick, sessEnd, seen>>

\* Mutants: the failed write taken for the session's end; every other tick lost.
TickerSwallows ==
  /\ Alive
  /\ now = nextTick
  /\ IF conn = "reset"
     THEN conn' = "closed" /\ UNCHANGED <<seen, nextTick>>
     ELSE nextTick' = nextTick + KeepAlive /\ UNCHANGED <<conn, seen>>
  /\ UNCHANGED <<now, sessEnd>>

TickerSkips ==
  /\ Alive
  /\ now = nextTick
  /\ IF conn = "reset"
     THEN conn' = "reported" /\ seen' = now /\ UNCHANGED nextTick
     ELSE nextTick' = nextTick + 2 * KeepAlive /\ UNCHANGED <<conn, seen>>
  /\ UNCHANGED <<now, sessEnd>>

TickerFires ==
  /\ Alive
  /\ now = nextTick
  /\ IF conn = "reset"
     THEN conn' = "reported" /\ seen' = now /\ UNCHANGED nextTick
     ELSE nextTick' = nextTick + KeepAlive /\ UNCHANGED <<conn, seen>>
  /\ UNCHANGED <<now, sessEnd>>

\* select took ctx.Done: nothing is emitted.
SessionEnds ==
  /\ Alive
  /\ sessEnd # 0
  /\ now = sessEnd
  /\ conn' = "closed"
  /\ UNCHANGED <<now, nextTick, sessEnd, seen>>

\* Time passes while nothing is due.
Second ==
  /\ Alive
  /\ now # nextTick /\ (sessEnd # 0 => now # sessEnd)
  /\ conn = "held" => now # InternalDrain
  /\ now' = now + 1
  /\ UNCHANGED <<conn, nextTick, sessEnd, seen>>

Done == ~Alive /\ UNCHANGED vars

Next == ZtunnelResets \/ TickerFires \/ SessionEnds \/ Second \/ Done

Spec == Init /\ [][Next]_vars

\* Time passes, and what is due happens.
FairSpec == Spec /\ WF_vars(Next)

-----------------------------------------------------------------------------
(* Every variable has its type, and no event is ever overdue.              *)
TypeOK ==
  /\ now \in Nat /\ nextTick \in Nat /\ sessEnd \in Nat /\ seen \in Nat
  /\ conn \in {"held", "reset", "reported", "closed"}
  /\ Alive => now <= nextTick /\ (sessEnd # 0 => now <= sessEnd)

(* probeconn.go:188-197, analyze.go:90-101: the event of a reset carries a  *)
(* time at most a keepalive after the RST, and never one after the window, *)
(* where it would count as a drop on a node that did not upgrade.          *)
ResetStamped ==
  conn = "reported" => /\ InternalDrain <= seen
                       /\ seen <= InternalDrain + KeepAlive
                       /\ seen <= StampOffset + Grace + Eps

(* model.go:53-56: the RST of the drain falls inside the roll window, so   *)
(* that its event (with the analyzer's tolerance) is not taken for a death *)
(* before the drain either.                                                *)
ResetInWindow ==
  conn = "reported" => /\ StampOffset - Eps <= seen
                       /\ seen <= StampOffset + Grace + Eps

(* No reset is swallowed (HoldAndTrickle returns either the class of the   *)
(* break or the end of its context): a connection that nothing ends before *)
(* the drain does is reported reset in the end.                            *)
ResetReported ==
  sessEnd = 0 \/ sessEnd > InternalDrain + KeepAlive ~> conn = "reported"
=============================================================================
