----------------------------- MODULE ConnEvent ------------------------------
(***************************************************************************)
(* The held-connection part of model.ConnEvent: what the emitters write    *)
(* and what measure.Analyze reads.  Timestamps are left to the modules     *)
(* that need them; within one worker, order in the stream is order in time.*)
(***************************************************************************)
EXTENDS Integers, Sequences

BreakKind == {"ConnReset", "ConnEOF"}
Kind == BreakKind \cup {"ConnKeepaliveOK", "ConnReconnected"}

Event(kind, n) == [kind |-> kind, conn |-> n]

\* Repeated keepalives of one connection are recorded once: no reader of the
\* stream counts them.
AppendOnce(s, e) ==
  IF s # <<>> /\ s[Len(s)] = e THEN s ELSE Append(s, e)

=============================================================================
