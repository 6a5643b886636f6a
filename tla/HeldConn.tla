------------------------------ MODULE HeldConn ------------------------------
(***************************************************************************)
(* The held connections of one probe or load pod: live.heldConnLoop,       *)
(* load.longWorker and load.heldSession around the shared primitives of    *)
(* internal/probeconn (HoldAndTrickle, HeldConnSeq, ReadinessGate).        *)
(*                                                                         *)
(* HoldBounded tells the two pods apart: a load worker runs sessions       *)
(* bounded by cfg.Hold, a probe holds its one connection until the process *)
(* is told to stop.  A probe is the case of one worker and no hold.        *)
(*                                                                         *)
(* Time is abstracted: a ticker, a deadline or the echo may come at any    *)
(* moment.  The socket of connection n of worker w is fate[w][n].          *)
(***************************************************************************)
EXTENDS ConnEvent, FiniteSets

CONSTANTS Worker,       \* the long-lived workers of the pod
          HoldBounded,  \* TRUE in the load pod, FALSE in the probe pod
          Churning,     \* bound: the workers whose connections end
          MaxConn       \* bound: connections a worker establishes

ASSUME WorkerAssumption == IsFiniteSet(Worker)
ASSUME HoldAssumption == HoldBounded \in BOOLEAN
ASSUME ConnAssumption == MaxConn \in Nat \ {0}

VARIABLES pc,             \* where the worker's goroutine is
          ctxDone,        \* the process context is cancelled
          sessDone,       \* sessDone[w]: the session's Hold has elapsed
          seq,            \* seq[w]: the worker's HeldConnSeq
          firstDone,      \* firstDone[w]: onFirstConn has fired
          longRemaining,  \* workers that have not connected yet
          gate,           \* the ReadinessGate
          fate,           \* fate[w][n]: the socket of connection n
          out             \* out[w]: the events w has written to the stream

ctxVars == <<ctxDone, sessDone>>
gateVars == <<firstDone, longRemaining, gate>>
vars == <<pc, ctxVars, seq, gateVars, fate, out>>

Conn == 1..MaxConn
PeerEnd == {"rst", "fin", "err"}

Emit(w, e) == out' = [out EXCEPT ![w] = Append(@, e)]
EmitOnce(w, e) == out' = [out EXCEPT ![w] = AppendOnce(@, e)]
Goto(w, l) == pc' = [pc EXCEPT ![w] = l]

\* sessCtx.Err() # nil: the session's own deadline or its parent's end.
SessionOver(w) == ctxDone \/ sessDone[w]

\* Mutant: every failure of the socket taken for a reset.
ClassifyAnyError(end) == IF end \in {"rst", "err"} THEN "ConnReset" ELSE "ConnEOF"

\* ECONNRESET is the drain's RST; whatever else ends a socket is an EOF.
Classify(end) == IF end = "rst" THEN "ConnReset" ELSE "ConnEOF"

NewHeldConnSeq == [gen |-> 0, last |-> 0, first |-> TRUE]

\* Mutant: the id to recover is remembered once and never advanced.
SeqNextStale(s) ==
  [gen |-> s.gen + 1, last |-> IF s.first THEN s.gen + 1 ELSE s.last, first |-> FALSE]

\* (*HeldConnSeq).Next: the id it returns is the new gen, the id to recover
\* is the old last, and it is a reconnect unless it was the first call.
SeqNext(s) == [gen |-> s.gen + 1, last |-> s.gen + 1, first |-> FALSE]

Cur(w) == seq[w].gen
Sock(w) == fate[w][Cur(w)]
Holding(w) == pc[w] \in {"hold", "read"}

-----------------------------------------------------------------------------
Init ==
  /\ pc = [w \in Worker |-> "start"]
  /\ ctxDone = FALSE
  /\ sessDone = [w \in Worker |-> FALSE]
  /\ seq = [w \in Worker |-> NewHeldConnSeq]
  /\ firstDone = [w \in Worker |-> FALSE]
  /\ longRemaining = Cardinality(Worker)
  /\ gate \in IF Worker = {} THEN {"open", "failed"} ELSE {"closed"}
  /\ fate = [w \in Worker |-> [n \in Conn |-> "none"]]
  /\ out = [w \in Worker |-> <<>>]

\* The worker's staggered start, abandoned when the run is over first.
Start(w) ==
  /\ pc[w] = "start"
  /\ \/ Goto(w, "session")
     \/ ctxDone /\ Goto(w, "stopped")
  /\ UNCHANGED <<ctxVars, seq, gateVars, fate, out>>

\* Mutants: the sequence made anew for each session; the end of the run not
\* looked at between sessions.
NextSessionNewSeq(w) ==
  /\ pc[w] = "session"
  /\ IF ctxDone
     THEN Goto(w, "stopped") /\ UNCHANGED <<sessDone, seq>>
     ELSE /\ Goto(w, "head")
          /\ sessDone' = [sessDone EXCEPT ![w] = FALSE]
          /\ seq' = [seq EXCEPT ![w] = NewHeldConnSeq]
  /\ UNCHANGED <<ctxDone, gateVars, fate, out>>

NextSessionForever(w) ==
  /\ pc[w] = "session"
  /\ Goto(w, "head")
  /\ sessDone' = [sessDone EXCEPT ![w] = FALSE]
  /\ UNCHANGED <<ctxDone, seq, gateVars, fate, out>>

\* longWorker's loop: the next session with a fresh deadline, or the end.
NextSession(w) ==
  /\ pc[w] = "session"
  /\ IF ctxDone
     THEN Goto(w, "stopped") /\ UNCHANGED sessDone
     ELSE Goto(w, "head") /\ sessDone' = [sessDone EXCEPT ![w] = FALSE]
  /\ UNCHANGED <<ctxDone, seq, gateVars, fate, out>>

\* The head of heldSession's loop.  The dial that follows is not cancelled by
\* the context, so a connection may be established after it ended.
BeginDial(w) ==
  /\ pc[w] = "head"
  /\ Goto(w, IF SessionOver(w) THEN "session" ELSE "dial")
  /\ UNCHANGED <<ctxVars, seq, gateVars, fate, out>>

DialFails(w) ==
  /\ pc[w] = "dial"
  /\ Goto(w, "backoff")
  /\ UNCHANGED <<ctxVars, seq, gateVars, fate, out>>

Backoff(w) ==
  /\ pc[w] = "backoff"
  /\ \/ Goto(w, "head")
     \/ SessionOver(w) /\ Goto(w, "session")
  /\ UNCHANGED <<ctxVars, seq, gateVars, fate, out>>

\* ReadinessGate.SignalReady, its sync.Once and a Listen that may fail.
SignalReady ==
  IF gate = "closed" THEN gate' \in {"open", "failed"} ELSE UNCHANGED gate

\* Mutants: the gate opened one worker early; the count tested before it is
\* decremented.
OnLongConnectedEarly ==
  /\ longRemaining' = longRemaining - 1
  /\ IF longRemaining' <= 1 THEN SignalReady ELSE UNCHANGED gate

OnLongConnectedLate ==
  /\ longRemaining' = longRemaining - 1
  /\ IF longRemaining = 0 THEN SignalReady ELSE UNCHANGED gate

\* onLongConnected: the last worker to connect opens the gate.
OnLongConnected ==
  /\ longRemaining' = longRemaining - 1
  /\ IF longRemaining' = 0 THEN SignalReady ELSE UNCHANGED gate

Established(w) ==
  /\ pc[w] = "dial"
  /\ seq' = [seq EXCEPT ![w] = SeqNext(@)]
  /\ fate' = [fate EXCEPT ![w][SeqNext(seq[w]).gen] = "up"]
  /\ Goto(w, "hold")

Connect(w) ==
  /\ Established(w)
  /\ seq[w].first
  /\ IF firstDone[w]
     THEN UNCHANGED gateVars
     ELSE firstDone' = [firstDone EXCEPT ![w] = TRUE] /\ OnLongConnected
  /\ UNCHANGED <<ctxVars, out>>

\* Mutants: a reconnect that is not announced; one counted as a first connect.
ReconnectSilent(w) ==
  /\ Established(w)
  /\ ~seq[w].first
  /\ UNCHANGED <<ctxVars, gateVars, out>>

ReconnectCounted(w) ==
  /\ Established(w)
  /\ ~seq[w].first
  /\ Emit(w, Event("ConnReconnected", seq[w].last))
  /\ OnLongConnected
  /\ UNCHANGED <<ctxVars, firstDone>>

Reconnect(w) ==
  /\ Established(w)
  /\ ~seq[w].first
  /\ Emit(w, Event("ConnReconnected", seq[w].last))
  /\ UNCHANGED <<ctxVars, gateVars>>

\* HoldAndTrickle reports the break, conn.Close, and the loop dials again.
ReportBreak(w) ==
  /\ Emit(w, Event(Classify(Sock(w)), Cur(w)))
  /\ Goto(w, "head")

\* The ticker fires and the keepalive is written.  A half-closed socket still
\* takes it; a reset or dead one fails the write.
Tick(w) ==
  /\ pc[w] = "hold"
  /\ IF Sock(w) \in {"rst", "err"}
     THEN ReportBreak(w)
     ELSE Goto(w, "read") /\ UNCHANGED out
  /\ UNCHANGED <<ctxVars, seq, gateVars, fate>>

\* select took ctx.Done: a deliberate close, silent whatever the socket holds.
CloseSilently(w) ==
  /\ pc[w] = "hold"
  /\ SessionOver(w)
  /\ fate' = [fate EXCEPT ![w][Cur(w)] = IF @ = "up" THEN "closed" ELSE @]
  /\ Goto(w, "session")
  /\ UNCHANGED <<ctxVars, seq, gateVars, out>>

Answer(w) ==
  /\ pc[w] = "read"
  /\ Sock(w) = "up"
  /\ EmitOnce(w, Event("ConnKeepaliveOK", Cur(w)))
  /\ Goto(w, "hold")
  /\ UNCHANGED <<ctxVars, seq, gateVars, fate>>

\* No echo within the read deadline: not a close, wait for the next tick.
ReadTimeout(w) ==
  /\ pc[w] = "read"
  /\ Sock(w) = "up"
  /\ Goto(w, "hold")
  /\ UNCHANGED <<ctxVars, seq, gateVars, fate, out>>

ReadBreak(w) ==
  /\ pc[w] = "read"
  /\ Sock(w) \in PeerEnd
  /\ ReportBreak(w)
  /\ UNCHANGED <<ctxVars, seq, gateVars, fate>>

\* The other end: ztunnel's RST, a FIN, or another socket error.  Bounded so
\* that a broken connection can always be followed by another.
PeerCloses(w) ==
  /\ w \in Churning
  /\ Holding(w)
  /\ Sock(w) = "up"
  /\ Cur(w) < MaxConn
  /\ \E end \in PeerEnd : fate' = [fate EXCEPT ![w][Cur(w)] = end]
  /\ UNCHANGED <<pc, ctxVars, seq, gateVars, out>>

\* context.WithTimeout(ctx, cfg.Hold): long enough (130s and more) not to elapse
\* before the session's first dial.  Bounded like PeerCloses, one earlier: a
\* dial under way may still establish a connection in the session that is over.
HoldElapses(w) ==
  /\ HoldBounded
  /\ w \in Churning
  /\ pc[w] \in {"dial", "backoff", "hold", "read"}
  /\ ~sessDone[w]
  /\ Cur(w) + 1 < MaxConn
  /\ sessDone' = [sessDone EXCEPT ![w] = TRUE]
  /\ UNCHANGED <<pc, ctxDone, seq, gateVars, fate, out>>

\* SIGTERM, or the load run's Duration.
Cancel ==
  /\ ~ctxDone
  /\ ctxDone' = TRUE
  /\ UNCHANGED <<pc, sessDone, seq, gateVars, fate, out>>

\* wg.Wait has returned: the deferred gate.Close.
AllStopped == ctxDone /\ \A w \in Worker : pc[w] = "stopped"

CloseGate ==
  /\ AllStopped
  /\ gate = "open"
  /\ gate' = "shut"
  /\ UNCHANGED <<pc, ctxVars, seq, firstDone, longRemaining, fate, out>>

Terminated == AllStopped /\ gate # "open" /\ UNCHANGED vars

WorkerStep(w) ==
  \/ Start(w) \/ NextSession(w) \/ BeginDial(w)
  \/ DialFails(w) \/ Backoff(w) \/ Connect(w) \/ Reconnect(w)
  \/ Tick(w) \/ CloseSilently(w) \/ Answer(w) \/ ReadTimeout(w) \/ ReadBreak(w)

Next ==
  \/ \E w \in Worker : WorkerStep(w) \/ PeerCloses(w) \/ HoldElapses(w)
  \/ Cancel
  \/ CloseGate
  \/ Terminated

Spec == Init /\ [][Next]_vars

(***************************************************************************)
(* Goroutines run, tickers fire and DialTimeout / read deadlines return:   *)
(* weak fairness of a worker's steps.  A select with both branches ready   *)
(* picks one at random, so ctx.Done is not passed over forever.            *)
(***************************************************************************)
Fairness ==
  /\ \A w \in Worker : WF_vars(WorkerStep(w)) /\ SF_vars(CloseSilently(w))
  /\ WF_vars(CloseGate)

FairSpec == Spec /\ Fairness

\* The echo service comes back: a worker that keeps dialling gets through.
EchoReachable ==
  \A w \in Worker : SF_vars(Connect(w) \/ Reconnect(w))

LiveSpec == FairSpec /\ EchoReachable

-----------------------------------------------------------------------------
Label == {"start", "session", "head", "dial", "backoff", "hold", "read", "stopped"}
Fate == PeerEnd \cup {"none", "up", "closed"}

(* Every variable has its type; longRemaining never falls below zero, so   *)
(* the count of the readiness gate is never decremented twice for one      *)
(* worker.                                                                 *)
TypeOK ==
  /\ pc \in [Worker -> Label]
  /\ ctxDone \in BOOLEAN
  /\ sessDone \in [Worker -> BOOLEAN]
  /\ seq \in [Worker -> [gen : 0..MaxConn, last : 0..MaxConn, first : BOOLEAN]]
  /\ firstDone \in [Worker -> BOOLEAN]
  /\ longRemaining \in 0..Cardinality(Worker)
  /\ gate \in {"closed", "open", "failed", "shut"}
  /\ fate \in [Worker -> [Conn -> Fate]]
  /\ out \in [Worker -> Seq([kind : Kind, conn : Conn])]

(* Honest readiness (load.go: the gate opens once EVERY long-lived worker  *)
(* has connected): however connections break, expire and come back, an     *)
(* open gate means no worker is still waiting for its first connection.    *)
GateHonest ==
  gate \in {"open", "shut"} => \A w \in Worker : seq[w].gen >= 1

(* A ConnReset is never fabricated: the connection it names was reset by   *)
(* its peer, not closed by a FIN, a timeout or our own shutdown.           *)
NoFalseReset ==
  \A w \in Worker : \A i \in 1..Len(out[w]) :
    out[w][i].kind = "ConnReset" => fate[w][out[w][i].conn] = "rst"

(* The stream a pod writes is one the analyzer may rely on (HeldStream).   *)
Stream == INSTANCE HeldStream
            WITH est <- [w \in Worker |-> Cur(w)],
                 open <- [w \in Worker |-> Holding(w)]

StreamSpec == Stream!Spec
StreamOrdered == Stream!StreamOrdered

Reported(w, n, kinds) ==
  \E i \in 1..Len(out[w]) : out[w][i].conn = n /\ out[w][i].kind \in kinds

Unrecovered(w) ==
  \E n \in Conn : Reported(w, n, BreakKind) /\ ~Reported(w, n, {"ConnReconnected"})

(* Every reported break is recovered while the process runs: the id whose  *)
(* ConnReset or ConnEOF was written is announced as ConnReconnected.       *)
BreakRecovered ==
  \A w \in Worker : Unrecovered(w) ~> ~Unrecovered(w) \/ ctxDone

(* The gate does not stay closed for ever: with the echo reachable, every  *)
(* worker connects and the last one signals.                               *)
GateSignalled == <>(gate # "closed" \/ ctxDone)

(* A cancelled run ends: every goroutine returns and the listener is shut, *)
(* whatever it was doing.                                                  *)
CleanShutdown == ctxDone ~> AllStopped /\ gate # "open"
=============================================================================
