-------------------------- MODULE HeldStreamProofs --------------------------
(***************************************************************************)
(* Proofs about the stream contract: whatever the number of workers and of *)
(* connections, the stream is typed and strictly ordered.                  *)
(***************************************************************************)
EXTENDS HeldStream, TLAPS

\* The events a worker may have emitted, given its current connection.
Emitted(w) ==
  \A i \in 1..Len(out[w]) :
    /\ out[w][i].conn <= est[w]
    /\ out[w][i].conn = est[w] =>
         /\ out[w][i].kind # "ConnReconnected"
         /\ open[w] => out[w][i].kind = "ConnKeepaliveOK"

Ordered(w) ==
  \A i, j \in 1..Len(out[w]) : i < j => Precedes(out[w][i], out[w][j])

WorkerInv(w) ==
  /\ open[w] => est[w] > 0
  /\ Emitted(w)
  /\ Ordered(w)

(* The strengthening of StreamOrdered that is inductive: the ordering      *)
(* alone does not say what may still be appended.                          *)
StreamInv == TypeOK /\ \A w \in Worker : WorkerInv(w)

-----------------------------------------------------------------------------
(* Appending an event that every earlier one precedes keeps a sequence of  *)
(* events strictly ordered.                                                *)
LEMMA AppendOrdered ==
  ASSUME NEW S, NEW s \in Seq(S), NEW e \in S,
         \A i, j \in 1..Len(s) : i < j => Precedes(s[i], s[j]),
         \A i \in 1..Len(s) : Precedes(s[i], e)
  PROVE  \A i, j \in 1..Len(Append(s, e)) :
           i < j => Precedes(Append(s, e)[i], Append(s, e)[j])
<1>1. Len(Append(s, e)) = Len(s) + 1 /\ Len(s) \in Nat
  OBVIOUS
<1>2. \A i \in 1..Len(s) : Append(s, e)[i] = s[i]
  OBVIOUS
<1>3. Append(s, e)[Len(s) + 1] = e
  OBVIOUS
<1>4. TAKE i, j \in 1..Len(Append(s, e))
<1>5. HAVE i < j
<1>6. CASE j = Len(s) + 1
  BY <1>1, <1>2, <1>3, <1>5, <1>6
<1>7. CASE j # Len(s) + 1
  BY <1>1, <1>2, <1>5, <1>7
<1>8. QED
  BY <1>6, <1>7

(* An element of a sequence over S is in S.                                *)
LEMMA ElementIn ==
  ASSUME NEW S, NEW s \in Seq(S), NEW i \in 1..Len(s)
  PROVE  s[i] \in S
OBVIOUS

\* What is appended is in S as well.
LEMMA AppendIn ==
  ASSUME NEW S, NEW s \in Seq(S), NEW e \in S
  PROVE  Append(s, e) \in Seq(S)
OBVIOUS

-----------------------------------------------------------------------------
\* No event was emitted yet.
LEMMA InitInv == Init => StreamInv
BY MaxConnAssumption
   DEF Init, StreamInv, TypeOK, WorkerInv, Emitted, Ordered

\* What the invariant says of one worker's past events.
LEMMA PastEvents ==
  ASSUME StreamInv, NEW w \in Worker, NEW i \in 1..Len(out[w])
  PROVE  /\ out[w][i] \in [kind : Kind, conn : 1..MaxConn]
         /\ out[w][i].conn <= est[w]
         /\ out[w][i].conn = est[w] =>
              /\ out[w][i].kind # "ConnReconnected"
              /\ open[w] => out[w][i].kind = "ConnKeepaliveOK"
<1>1. out[w] \in Seq([kind : Kind, conn : 1..MaxConn])
  BY DEF StreamInv, TypeOK
<1>2. out[w][i] \in [kind : Kind, conn : 1..MaxConn]
  BY <1>1, ElementIn
<1>3. QED
  BY <1>2 DEF StreamInv, WorkerInv, Emitted

\* A step of w that appends e, which comes after all of w's past.
LEMMA AppendStep ==
  ASSUME StreamInv, NEW w \in Worker, NEW e \in [kind : Kind, conn : 1..MaxConn],
         out' = [out EXCEPT ![w] = Append(@, e)],
         \E n \in 0..MaxConn : est' = [est EXCEPT ![w] = n],
         \E o \in BOOLEAN : open' = [open EXCEPT ![w] = o],
         est'[w] >= est[w],
         open'[w] => est'[w] > 0 /\ (open[w] \/ est'[w] > est[w]),
         \A i \in 1..Len(out[w]) : Precedes(out[w][i], e),
         e.conn <= est'[w],
         e.conn = est'[w] => /\ e.kind # "ConnReconnected"
                             /\ open'[w] => e.kind = "ConnKeepaliveOK"
  PROVE  StreamInv'
<1>1. /\ out \in [Worker -> Seq([kind : Kind, conn : 1..MaxConn])]
      /\ est \in [Worker -> 0..MaxConn]
      /\ open \in [Worker -> BOOLEAN]
  BY DEF StreamInv, TypeOK
<1>2. TypeOK'
  <2> DEFINE S == Seq([kind : Kind, conn : 1..MaxConn])
  <2>1. out \in [Worker -> S]
    BY <1>1
  <2>2. out' \in [Worker -> S]
    <3>1. out[w] \in S
      BY <2>1
    <3>2. Append(out[w], e) \in S
      BY <3>1, AppendIn
    <3> HIDE DEF S
    <3>3. QED
      BY <2>1, <3>2
  <2>3. est' \in [Worker -> 0..MaxConn] /\ open' \in [Worker -> BOOLEAN]
    BY <1>1
  <2>4. QED
    BY <2>2, <2>3 DEF TypeOK
<1>3. out'[w] = Append(out[w], e) /\ out[w] \in Seq([kind : Kind, conn : 1..MaxConn])
  BY <1>1
<1>4. Ordered(w)'
  BY <1>3, AppendOrdered DEF StreamInv, WorkerInv, Ordered
<1>5. Emitted(w)'
  <2>1. /\ Len(out'[w]) = Len(out[w]) + 1
        /\ Len(out[w]) \in Nat
        /\ \A i \in 1..Len(out[w]) : out'[w][i] = out[w][i]
        /\ out'[w][Len(out[w]) + 1] = e
    BY <1>3
  <2>2. est[w] \in 0..MaxConn /\ est'[w] \in 0..MaxConn
    BY <1>1
  <2>3. ASSUME NEW i \in 1..Len(out[w])
        PROVE  /\ out'[w][i].conn <= est'[w]
               /\ out'[w][i].conn = est'[w] =>
                    /\ out'[w][i].kind # "ConnReconnected"
                    /\ open'[w] => out'[w][i].kind = "ConnKeepaliveOK"
    <3>1. out'[w][i] = out[w][i] /\ out[w][i].conn \in 1..MaxConn
      BY <2>1, PastEvents
    <3>2. QED
      BY <2>2, <3>1, PastEvents, MaxConnAssumption
  <2>4. \A i \in 1..Len(out'[w]) : i \in 1..Len(out[w]) \/ i = Len(out[w]) + 1
    BY <2>1
  <2>5. QED
    BY <2>1, <2>3, <2>4 DEF Emitted
<1>6. WorkerInv(w)'
  BY <1>4, <1>5 DEF WorkerInv
<1>7. ASSUME NEW v \in Worker, v # w
      PROVE  WorkerInv(v)'
  <2>1. out'[v] = out[v] /\ est'[v] = est[v] /\ open'[v] = open[v]
    BY <1>1, <1>7
  <2>2. QED
    BY <2>1 DEF StreamInv, WorkerInv, Emitted, Ordered
<1>8. QED
  BY <1>2, <1>6, <1>7 DEF StreamInv

\* A step of w that emits nothing.
LEMMA QuietStep ==
  ASSUME StreamInv, NEW w \in Worker,
         UNCHANGED out,
         \E n \in 0..MaxConn : est' = [est EXCEPT ![w] = n],
         \E o \in BOOLEAN : open' = [open EXCEPT ![w] = o],
         est'[w] >= est[w],
         open'[w] => est'[w] > 0 /\ (open[w] \/ est'[w] > est[w])
  PROVE  StreamInv'
<1>1. /\ est \in [Worker -> 0..MaxConn]
      /\ open \in [Worker -> BOOLEAN]
  BY DEF StreamInv, TypeOK
<1>2. TypeOK'
  BY <1>1 DEF StreamInv, TypeOK
<1>3. Ordered(w)'
  BY DEF StreamInv, WorkerInv, Ordered
<1>4. Emitted(w)'
  <2>1. est[w] \in 0..MaxConn /\ est'[w] \in 0..MaxConn
    BY <1>1
  <2>2. SUFFICES ASSUME NEW i \in 1..Len(out[w])
                 PROVE  /\ out[w][i].conn <= est'[w]
                        /\ out[w][i].conn = est'[w] =>
                             /\ out[w][i].kind # "ConnReconnected"
                             /\ open'[w] => out[w][i].kind = "ConnKeepaliveOK"
    BY DEF Emitted
  <2>3. out[w][i].conn \in 1..MaxConn
    BY PastEvents
  <2>4. QED
    BY <2>1, <2>3, PastEvents, MaxConnAssumption
<1>5. WorkerInv(w)'
  BY <1>3, <1>4 DEF WorkerInv
<1>6. ASSUME NEW v \in Worker, v # w
      PROVE  WorkerInv(v)'
  <2>1. out'[v] = out[v] /\ est'[v] = est[v] /\ open'[v] = open[v]
    BY <1>1, <1>6
  <2>2. QED
    BY <2>1 DEF StreamInv, WorkerInv, Emitted, Ordered
<1>7. QED
  BY <1>2, <1>5, <1>6 DEF StreamInv

-----------------------------------------------------------------------------
(* One step of a worker, whichever, keeps the invariant of every worker.   *)
LEMMA StepInv == StreamInv /\ [Next]_streamVars => StreamInv'
<1> SUFFICES ASSUME StreamInv, [Next]_streamVars
             PROVE  StreamInv'
  OBVIOUS
<1>1. CASE UNCHANGED streamVars
  BY <1>1 DEF streamVars, StreamInv, TypeOK, WorkerInv, Emitted, Ordered
<1>2. ASSUME NEW w \in Worker
      PROVE  /\ est[w] \in 0..MaxConn /\ est[w] \in Int /\ MaxConn \in Nat
             /\ open[w] \in BOOLEAN
             /\ open[w] => est[w] > 0
             /\ est = [est EXCEPT ![w] = est[w]]
             /\ open = [open EXCEPT ![w] = open[w]]
             /\ w \in DOMAIN est /\ w \in DOMAIN open
  BY MaxConnAssumption DEF StreamInv, TypeOK, WorkerInv
<1>3. ASSUME NEW w \in Worker, EstablishFirst(w)
      PROVE  StreamInv'
  <2>1. /\ est' = [est EXCEPT ![w] = 1] /\ est'[w] = 1 /\ est[w] = 0 /\ 1 \in 0..MaxConn
        /\ open' = [open EXCEPT ![w] = TRUE]
        /\ UNCHANGED out
    BY <1>2, <1>3 DEF EstablishFirst
  <2>2. est'[w] >= est[w] /\ est'[w] > 0 /\ est'[w] > est[w]
    BY <2>1
  <2>3. QED
    BY <2>1, <2>2, QuietStep
<1>4. ASSUME NEW w \in Worker, EstablishNext(w)
      PROVE  StreamInv'
  <2> DEFINE e == Event("ConnReconnected", est[w])
  <2>1. e \in [kind : Kind, conn : 1..MaxConn] /\ e.conn = est[w] /\ e.kind = "ConnReconnected"
    BY <1>2, <1>4 DEF EstablishNext, Event, Kind
  <2>2. ASSUME NEW i \in 1..Len(out[w])
        PROVE  Precedes(out[w][i], e)
    <3>1. out[w][i].conn \in 1..MaxConn /\ out[w][i].kind \in Kind
      BY PastEvents
    <3>2. QED
      BY <1>2, <2>1, <3>1, PastEvents DEF Precedes, Rank, Kind, BreakKind
  <2>3. /\ est' = [est EXCEPT ![w] = est[w] + 1] /\ est'[w] = est[w] + 1
        /\ est[w] + 1 \in 0..MaxConn
        /\ open' = [open EXCEPT ![w] = TRUE]
        /\ out' = [out EXCEPT ![w] = Append(@, e)]
    BY <1>2, <1>4 DEF EstablishNext, Emit
  <2>4. est'[w] >= est[w] /\ est'[w] > 0 /\ est'[w] > est[w] /\ e.conn <= est'[w] /\ e.conn # est'[w]
    BY <1>2, <2>1, <2>3
  <2> HIDE DEF e
  <2>5. QED
    BY <2>1, <2>2, <2>3, <2>4, AppendStep
<1>5. ASSUME NEW w \in Worker, Answered(w)
      PROVE  StreamInv'
  <2> DEFINE e == Event("ConnKeepaliveOK", est[w])
  <2>1. e \in [kind : Kind, conn : 1..MaxConn] /\ e.conn = est[w] /\ e.kind = "ConnKeepaliveOK"
    BY <1>2, <1>5 DEF Answered, Event, Kind
  <2>2. out[w] \in Seq([kind : Kind, conn : 1..MaxConn])
    BY DEF StreamInv, TypeOK
  <2>3. CASE out[w] # <<>> /\ out[w][Len(out[w])] = e
    <3>1. out' = out
      BY <2>3, <1>5 DEF Answered, EmitOnce, AppendOnce, StreamInv, TypeOK
    <3>2. UNCHANGED streamVars
      BY <3>1, <1>5 DEF Answered, streamVars
    <3>3. QED
      BY <3>2, <1>1
  <2>4. CASE ~(out[w] # <<>> /\ out[w][Len(out[w])] = e)
    <3>1. ASSUME NEW i \in 1..Len(out[w])
          PROVE  out[w][i].conn # est[w]
      <4>1. SUFFICES ASSUME out[w][i].conn = est[w]
                     PROVE  FALSE
        OBVIOUS
      <4>2. out[w][i].kind = "ConnKeepaliveOK" /\ out[w][i] \in [kind : Kind, conn : 1..MaxConn]
        BY <4>1, <1>5, PastEvents DEF Answered
      <4>3. out[w][i] = e
        BY <4>1, <4>2 DEF Event
      <4>4. i # Len(out[w]) /\ Len(out[w]) \in 1..Len(out[w]) /\ i < Len(out[w])
        BY <2>2, <2>4, <4>3
      <4>5. Precedes(out[w][i], out[w][Len(out[w])])
        BY <4>4 DEF StreamInv, WorkerInv, Ordered
      <4>6. /\ out[w][Len(out[w])].conn \in 1..MaxConn
            /\ out[w][Len(out[w])].conn <= est[w]
            /\ out[w][Len(out[w])].conn = est[w] => out[w][Len(out[w])].kind = "ConnKeepaliveOK"
        BY <4>4, <1>5, PastEvents DEF Answered
      <4>7. QED
        BY <1>2, <4>1, <4>2, <4>5, <4>6 DEF Precedes, Rank
    <3>2. ASSUME NEW i \in 1..Len(out[w])
          PROVE  Precedes(out[w][i], e)
      <4>1. out[w][i].conn \in 1..MaxConn /\ out[w][i].conn <= est[w]
        BY PastEvents
      <4>2. QED
        BY <1>2, <2>1, <3>1, <4>1 DEF Precedes
    <3>3. out' = [out EXCEPT ![w] = Append(@, e)] /\ UNCHANGED <<est, open>>
      BY <2>4, <1>5 DEF Answered, EmitOnce, AppendOnce
    <3>4. open[w] /\ e.conn <= est'[w] /\ est'[w] >= est[w] /\ est'[w] > 0
      BY <1>2, <2>1, <3>3, <1>5 DEF Answered
    <3>5. /\ \E n \in 0..MaxConn : est' = [est EXCEPT ![w] = n]
          /\ \E o \in BOOLEAN : open' = [open EXCEPT ![w] = o]
      BY <1>2, <3>3
    <3> HIDE DEF e
    <3>6. QED
      BY <2>1, <3>2, <3>3, <3>4, <3>5, AppendStep
  <2>5. QED
    BY <2>3, <2>4
<1>6. ASSUME NEW w \in Worker, Broken(w)
      PROVE  StreamInv'
  <2>1. PICK k \in BreakKind : Emit(w, Event(k, est[w]))
    BY <1>6 DEF Broken
  <2> DEFINE e == Event(k, est[w])
  <2>2. /\ e \in [kind : Kind, conn : 1..MaxConn] /\ e.conn = est[w] /\ e.kind \in BreakKind
        /\ e.kind # "ConnReconnected"
    BY <1>2, <1>6 DEF Broken, Event, Kind, BreakKind
  <2>3. ASSUME NEW i \in 1..Len(out[w])
        PROVE  Precedes(out[w][i], e)
    <3>1. /\ out[w][i].conn \in 1..MaxConn /\ out[w][i].conn <= est[w]
          /\ out[w][i].conn = est[w] => out[w][i].kind = "ConnKeepaliveOK"
      BY <1>6, PastEvents DEF Broken
    <3>2. QED
      BY <1>2, <2>2, <3>1 DEF Precedes, Rank, BreakKind
  <2>4. /\ out' = [out EXCEPT ![w] = Append(@, e)] /\ UNCHANGED est
        /\ open' = [open EXCEPT ![w] = FALSE] /\ ~open'[w]
    BY <1>2, <2>1, <1>6 DEF Broken, Emit
  <2>5. e.conn <= est'[w] /\ est'[w] >= est[w]
    BY <1>2, <2>2, <2>4
  <2>6. /\ \E n \in 0..MaxConn : est' = [est EXCEPT ![w] = n]
        /\ \E o \in BOOLEAN : open' = [open EXCEPT ![w] = o]
    BY <1>2, <2>4
  <2> HIDE DEF e
  <2>7. QED
    BY <2>2, <2>3, <2>4, <2>5, <2>6, AppendStep
<1>7. ASSUME NEW w \in Worker, Closed(w)
      PROVE  StreamInv'
  <2>1. /\ open' = [open EXCEPT ![w] = FALSE] /\ ~open'[w]
        /\ UNCHANGED <<out, est>>
    BY <1>2, <1>7 DEF Closed
  <2>2. est'[w] >= est[w] /\ \E n \in 0..MaxConn : est' = [est EXCEPT ![w] = n]
    BY <1>2, <2>1
  <2>3. QED
    BY <2>1, <2>2, QuietStep
<1>8. QED
  BY <1>1, <1>3, <1>4, <1>5, <1>6, <1>7 DEF Next

(* StreamOrdered holds in every behaviour of the contract, for any workers *)
(* and any number of connections: HeldConnSeq's ids are used once each.    *)
THEOREM StreamIsOrdered == Spec => []StreamOrdered
<1>1. StreamInv => StreamOrdered
  BY DEF StreamInv, WorkerInv, Ordered, StreamOrdered
<1>2. QED
  BY <1>1, InitInv, StepInv, PTL DEF Spec
=============================================================================
