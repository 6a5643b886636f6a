----------------------------- MODULE HeldStream -----------------------------
(***************************************************************************)
(* What the analyzer is entitled to assume about the held-connection       *)
(* events of one pod: the contract between the emitters (live/probe.go,    *)
(* load/load.go, probeconn/probeconn.go) and measure.Analyze.              *)
(*                                                                         *)
(* A worker holds one connection at a time.  Connections are numbered in   *)
(* the order they are established; the number stands for the connId of     *)
(* HeldConnSeq.  out[w] is the worker's part of the JSON-line stream.      *)
(***************************************************************************)
EXTENDS ConnEvent

CONSTANTS Worker,   \* the long-lived workers of one pod
          MaxConn   \* bound: connections a worker establishes

ASSUME MaxConnAssumption == MaxConn \in Nat

VARIABLES out,      \* out[w]: the held-connection events of w, in order
          est,      \* est[w]: connections established so far
          open      \* open[w]: the last one is still held

streamVars == <<out, est, open>>

Emit(w, e) == out' = [out EXCEPT ![w] = Append(@, e)]

EmitOnce(w, e) == out' = [out EXCEPT ![w] = AppendOnce(@, e)]

-----------------------------------------------------------------------------
Init ==
  /\ out = [w \in Worker |-> <<>>]
  /\ est = [w \in Worker |-> 0]
  /\ open = [w \in Worker |-> FALSE]

\* The first connection is announced by no event.
EstablishFirst(w) ==
  /\ ~open[w]
  /\ est[w] = 0
  /\ est[w] < MaxConn
  /\ est' = [est EXCEPT ![w] = 1]
  /\ open' = [open EXCEPT ![w] = TRUE]
  /\ UNCHANGED out

\* Every later one announces the recovery of its predecessor, by its id.
EstablishNext(w) ==
  /\ ~open[w]
  /\ est[w] > 0
  /\ est[w] < MaxConn
  /\ est' = [est EXCEPT ![w] = @ + 1]
  /\ open' = [open EXCEPT ![w] = TRUE]
  /\ Emit(w, Event("ConnReconnected", est[w]))

Answered(w) ==
  /\ open[w]
  /\ EmitOnce(w, Event("ConnKeepaliveOK", est[w]))
  /\ UNCHANGED <<est, open>>

Broken(w) ==
  /\ open[w]
  /\ \E k \in BreakKind : Emit(w, Event(k, est[w]))
  /\ open' = [open EXCEPT ![w] = FALSE]
  /\ UNCHANGED est

\* A deliberate close (hold elapsed, shutdown) is silent.
Closed(w) ==
  /\ open[w]
  /\ open' = [open EXCEPT ![w] = FALSE]
  /\ UNCHANGED <<out, est>>

Next == \E w \in Worker : \/ EstablishFirst(w)
                          \/ EstablishNext(w)
                          \/ Answered(w)
                          \/ Broken(w)
                          \/ Closed(w)

Spec == Init /\ [][Next]_streamVars

-----------------------------------------------------------------------------
TypeOK ==
  /\ out \in [Worker -> Seq([kind : Kind, conn : 1..MaxConn])]
  /\ est \in [Worker -> 0..MaxConn]
  /\ open \in [Worker -> BOOLEAN]

Rank(kind) ==
  IF kind = "ConnKeepaliveOK" THEN 0 ELSE IF kind \in BreakKind THEN 1 ELSE 2

Precedes(a, b) ==
  a.conn < b.conn \/ (a.conn = b.conn /\ Rank(a.kind) < Rank(b.kind))

(* The stream of a worker is strictly ordered by connection and, within    *)
(* one connection, keepalive < break < recovery.  So a connection breaks   *)
(* at most once, recovers at most once and only after its break, and no    *)
(* event of a connection follows its successor's: Analyze pairs the latest *)
(* reset of an id with its earliest reconnect, which is the right pair     *)
(* only in such a stream.                                                  *)
StreamOrdered ==
  \A w \in Worker : \A i, j \in 1..Len(out[w]) :
    i < j => Precedes(out[w][i], out[w][j])

=============================================================================
