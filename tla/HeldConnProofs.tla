--------------------------- MODULE HeldConnProofs ---------------------------
(***************************************************************************)
(* Proofs about the held connections of one pod, for any set of workers    *)
(* and any number of connections: types, the honest readiness gate, no     *)
(* fabricated reset, and that a pod writes a stream of HeldStream.         *)
(***************************************************************************)
EXTENDS HeldConn, FiniteSetTheorems, TLAPS

Unconnected == {w \in Worker : ~firstDone[w]}

\* The id sequence counts the connections; onFirstConn fired with the first.
SeqInv(w) ==
  /\ seq[w].last = seq[w].gen
  /\ seq[w].first <=> seq[w].gen = 0
  /\ firstDone[w] <=> seq[w].gen > 0

\* Where the worker may still dial, the bound leaves room for a connection.
BoundInv(w) ==
  /\ pc[w] = "start" => seq[w].gen = 0
  /\ pc[w] \in {"session", "head"} => seq[w].gen < MaxConn \/ ctxDone
  /\ pc[w] \in {"dial", "backoff"} => seq[w].gen < MaxConn
  /\ sessDone[w] /\ pc[w] \in {"dial", "backoff"} => seq[w].gen + 1 < MaxConn
  /\ sessDone[w] /\ pc[w] \in {"hold", "read"} => seq[w].gen < MaxConn

\* A held connection exists, and leaves room for another once it has ended.
SockInv(w) ==
  pc[w] \in {"hold", "read"} =>
    /\ seq[w].gen \in Conn
    /\ fate[w][seq[w].gen] \in PeerEnd \cup {"up"}
    /\ fate[w][seq[w].gen] \in PeerEnd => seq[w].gen < MaxConn

\* Events name established connections, resets name reset ones.
ResetInv(w) ==
  \A i \in 1..Len(out[w]) :
    /\ out[w][i].conn <= seq[w].gen
    /\ out[w][i].kind = "ConnReset" => fate[w][out[w][i].conn] = "rst"

WorkerInv(w) == SeqInv(w) /\ BoundInv(w) /\ SockInv(w) /\ ResetInv(w)

\* The counter is the number of workers still to connect, and the gate was
\* signalled only when it reached zero.
GateInv ==
  /\ longRemaining = Cardinality(Unconnected)
  /\ gate # "closed" => longRemaining = 0

HeldInv == TypeOK /\ GateInv /\ \A w \in Worker : WorkerInv(w)

-----------------------------------------------------------------------------
\* An element of a sequence over S is in S.
LEMMA ElementIn ==
  ASSUME NEW S, NEW s \in Seq(S), NEW i \in 1..Len(s)
  PROVE  s[i] \in S
OBVIOUS

\* So is what is appended.
LEMMA AppendIn ==
  ASSUME NEW S, NEW s \in Seq(S), NEW e \in S
  PROVE  /\ Append(s, e) \in Seq(S)
         /\ AppendOnce(s, e) \in Seq(S)
BY DEF AppendOnce

\* The elements of an extended sequence: those it had, and the new one.
LEMMA AppendElements ==
  ASSUME NEW S, NEW s \in Seq(S), NEW e \in S, NEW t \in {s, Append(s, e)},
         NEW i \in 1..Len(t)
  PROVE  (i \in 1..Len(s) /\ t[i] = s[i]) \/ t[i] = e
OBVIOUS

\* Sets of workers are finite, and counting them gives a natural number.
LEMMA Counting ==
  ASSUME NEW S \in SUBSET Worker
  PROVE  /\ IsFiniteSet(S)
         /\ Cardinality(S) \in Nat
         /\ Cardinality(S) <= Cardinality(Worker)
         /\ Cardinality(S) = 0 <=> S = {}
         /\ \A w \in S : Cardinality(S \ {w}) = Cardinality(S) - 1
<1>1. IsFiniteSet(S) /\ Cardinality(S) <= Cardinality(Worker)
  BY WorkerAssumption, FS_Subset
<1>2. Cardinality(S) \in Nat
  BY <1>1, FS_CardinalityType
<1>3. Cardinality(S) = 0 <=> S = {}
  BY <1>1, FS_EmptySet
<1>4. \A w \in S : Cardinality(S \ {w}) = Cardinality(S) - 1
  BY <1>1, FS_RemoveElement
<1>5. QED
  BY <1>1, <1>2, <1>3, <1>4

-----------------------------------------------------------------------------
\* Nothing was emitted yet.
LEMMA InitInv == Init => HeldInv
<1> SUFFICES ASSUME Init PROVE HeldInv
  OBVIOUS
<1>1. Unconnected = Worker
  BY DEF Init, Unconnected
<1>2. GateInv
  BY <1>1, Counting DEF Init, GateInv
<1>3. TypeOK
  <2>1. Cardinality(Worker) \in Nat
    BY Counting
  <2>2. seq \in [Worker -> [gen : 0..MaxConn, last : 0..MaxConn, first : BOOLEAN]]
    BY ConnAssumption DEF Init, NewHeldConnSeq
  <2>3. fate \in [Worker -> [Conn -> Fate]]
    BY DEF Init, Fate
  <2>4. out \in [Worker -> Seq([kind : Kind, conn : Conn])]
    BY DEF Init
  <2>5. longRemaining \in 0..Cardinality(Worker)
    BY <2>1 DEF Init
  <2>6. gate \in {"closed", "open", "failed", "shut"}
    BY DEF Init
  <2>7. /\ pc \in [Worker -> Label] /\ ctxDone \in BOOLEAN
        /\ sessDone \in [Worker -> BOOLEAN] /\ firstDone \in [Worker -> BOOLEAN]
    BY DEF Init, Label
  <2>8. QED
    BY <2>2, <2>3, <2>4, <2>5, <2>6, <2>7 DEF TypeOK
<1>4. ASSUME NEW w \in Worker PROVE WorkerInv(w)
  BY ConnAssumption DEF Init, NewHeldConnSeq, WorkerInv, SeqInv, BoundInv, SockInv, ResetInv
<1>5. QED
  BY <1>2, <1>3, <1>4 DEF HeldInv

-----------------------------------------------------------------------------
\* What a step must leave alone for a worker to keep its invariant.
LEMMA Frame ==
  ASSUME HeldInv, NEW v \in Worker, ctxDone => ctxDone',
         pc'[v] = pc[v], sessDone'[v] = sessDone[v], seq'[v] = seq[v],
         firstDone'[v] = firstDone[v], fate'[v] = fate[v], out'[v] = out[v]
  PROVE  WorkerInv(v)'
BY DEF HeldInv, WorkerInv, SeqInv, BoundInv, SockInv, ResetInv

\* A step of w that only moves its program counter and its session.
LEMMA ControlStep ==
  ASSUME HeldInv, NEW w \in Worker, NEW l \in Label,
         pc' = [pc EXCEPT ![w] = l],
         \E d \in BOOLEAN : sessDone' = [sessDone EXCEPT ![w] = d],
         UNCHANGED <<ctxDone, seq, gateVars, fate, out>>,
         BoundInv(w)', SockInv(w)'
  PROVE  HeldInv'
<1>1. TypeOK'
  BY DEF HeldInv, TypeOK, gateVars
<1>2. GateInv'
  BY DEF HeldInv, GateInv, Unconnected, gateVars
<1>3. WorkerInv(w)'
  BY DEF HeldInv, WorkerInv, SeqInv, ResetInv, gateVars
<1>4. ASSUME NEW v \in Worker, v # w PROVE WorkerInv(v)'
  BY <1>4, Frame DEF HeldInv, TypeOK, gateVars
<1>5. QED
  BY <1>1, <1>2, <1>3, <1>4 DEF HeldInv

\* A step of w that leaves the sockets alone and may append an event about its
\* current connection or an earlier one.
LEMMA EmitStep ==
  ASSUME HeldInv, NEW w \in Worker, NEW l \in Label,
         NEW e \in [kind : Kind, conn : Conn],
         pc' = [pc EXCEPT ![w] = l],
         \E s \in {Append(out[w], e), out[w]} : out' = [out EXCEPT ![w] = s],
         UNCHANGED <<ctxVars, seq, gateVars, fate>>,
         e.conn <= seq[w].gen,
         e.kind = "ConnReset" => fate[w][e.conn] = "rst",
         BoundInv(w)', SockInv(w)'
  PROVE  HeldInv'
<1> DEFINE S == Seq([kind : Kind, conn : Conn])
<1>1. TypeOK /\ out \in [Worker -> S]
  BY DEF HeldInv, TypeOK
<1>2. out[w] \in S
  BY <1>1
<1>3. out' \in [Worker -> S]
  <2>1. Append(out[w], e) \in S
    BY <1>2, AppendIn
  <2>2. PICK s \in S : out' = [out EXCEPT ![w] = s]
    BY <1>2, <2>1
  <2> HIDE DEF S
  <2> QED  BY <1>1, <2>2
<1>4. TypeOK'
  BY <1>1, <1>3 DEF TypeOK, ctxVars, gateVars
<1>5. GateInv'
  <2>1. GateInv /\ UNCHANGED <<firstDone, longRemaining, gate>>
    BY DEF HeldInv, gateVars
  <2>2. Unconnected' = Unconnected
    BY <2>1 DEF Unconnected
  <2> QED  BY <2>1, <2>2 DEF GateInv
<1>6. ResetInv(w)'
  <2>1. out'[w] \in {out[w], Append(out[w], e)}
    BY <1>1
  <2>2. SUFFICES ASSUME NEW i \in 1..Len(out'[w])
                 PROVE  /\ out'[w][i].conn <= seq[w].gen
                        /\ out'[w][i].kind = "ConnReset" => fate[w][out'[w][i].conn] = "rst"
    BY DEF ResetInv
  <2>3. (i \in 1..Len(out[w]) /\ out'[w][i] = out[w][i]) \/ out'[w][i] = e
    BY <1>2, <2>1, AppendElements
  <2>4. QED
    BY <2>3 DEF HeldInv, WorkerInv, ResetInv
<1>7. WorkerInv(w)'
  BY <1>6 DEF HeldInv, WorkerInv, SeqInv, gateVars
<1>8. ASSUME NEW v \in Worker, v # w PROVE WorkerInv(v)'
  <2>1. out'[v] = out[v] /\ pc'[v] = pc[v]
    BY <1>1, <1>8 DEF TypeOK
  <2>2. QED
    BY <2>1, Frame DEF ctxVars, gateVars
<1>9. QED
  BY <1>4, <1>5, <1>7, <1>8 DEF HeldInv

\* A step of w that ends its current connection's socket.
LEMMA EndStep ==
  ASSUME HeldInv, NEW w \in Worker, NEW l \in Label, NEW f \in Fate,
         pc' = [pc EXCEPT ![w] = l],
         fate' = [fate EXCEPT ![w][seq[w].gen] = f],
         seq[w].gen \in Conn,
         fate[w][seq[w].gen] = "rst" => f = "rst",
         UNCHANGED <<ctxVars, seq, gateVars, out>>,
         BoundInv(w)', SockInv(w)'
  PROVE  HeldInv'
<1>1. TypeOK
  BY DEF HeldInv
<1>2. fate' \in [Worker -> [Conn -> Fate]]
  BY <1>1 DEF TypeOK
<1>3. TypeOK'
  BY <1>1, <1>2 DEF TypeOK, ctxVars, gateVars
<1>4. GateInv'
  BY DEF HeldInv, GateInv, Unconnected, gateVars
<1>5. ResetInv(w)'
  <2>1. \A n \in Conn : fate'[w][n] = IF n = seq[w].gen THEN f ELSE fate[w][n]
    BY <1>1 DEF TypeOK
  <2>2. \A i \in 1..Len(out[w]) : out[w][i].conn \in Conn
    <3>1. out[w] \in Seq([kind : Kind, conn : Conn])
      BY <1>1 DEF TypeOK
    <3>2. \A i \in 1..Len(out[w]) : out[w][i] \in [kind : Kind, conn : Conn]
      BY <3>1, ElementIn
    <3>3. QED
      BY <3>2
  <2>3. QED
    BY <2>1, <2>2 DEF HeldInv, WorkerInv, ResetInv
<1>6. WorkerInv(w)'
  BY <1>5 DEF HeldInv, WorkerInv, SeqInv, gateVars
<1>7. ASSUME NEW v \in Worker, v # w PROVE WorkerInv(v)'
  <2>1. fate'[v] = fate[v] /\ pc'[v] = pc[v]
    BY <1>1, <1>7 DEF TypeOK
  <2>2. QED
    BY <2>1, Frame DEF ctxVars, gateVars
<1>8. QED
  BY <1>3, <1>4, <1>6, <1>7 DEF HeldInv

-----------------------------------------------------------------------------
\* A step of w that establishes its next connection; it may emit e about an
\* earlier one, and signals the gate if it is the last worker's first.
LEMMA DialStep ==
  ASSUME HeldInv, NEW w \in Worker, Established(w), UNCHANGED ctxVars,
         NEW e \in [kind : Kind, conn : Conn],
         \E s \in {Append(out[w], e), out[w]} : out' = [out EXCEPT ![w] = s],
         e.kind # "ConnReset",
         e.conn <= seq[w].gen + 1,
         firstDone' \in [Worker -> BOOLEAN],
         firstDone'[w], \A v \in Worker : v # w => firstDone'[v] = firstDone[v],
         longRemaining' \in 0..Cardinality(Worker),
         gate' \in {"closed", "open", "failed", "shut"},
         GateInv'
  PROVE  HeldInv'
<1> DEFINE S == Seq([kind : Kind, conn : Conn])
           g == seq[w].gen + 1
<1>1. TypeOK /\ out \in [Worker -> S] /\ WorkerInv(w)
  BY DEF HeldInv, TypeOK
<1>2. out[w] \in S /\ Append(out[w], e) \in S
  BY <1>1, AppendIn
<1>3. out' \in [Worker -> S]
  <2> HIDE DEF S
  <2>1. QED
    BY <1>1, <1>2
<1>4. seq[w] \in [gen : 0..MaxConn, last : 0..MaxConn, first : BOOLEAN]
  BY <1>1 DEF TypeOK
<1>5. /\ seq'[w].gen = g /\ seq'[w].last = g /\ seq'[w].first = FALSE
      /\ g \in Conn /\ seq[w].gen \in 0..MaxConn
      /\ fate' = [fate EXCEPT ![w][g] = "up"]
      /\ pc' = [pc EXCEPT ![w] = "hold"]
      /\ pc[w] = "dial"
  BY <1>1, <1>4, ConnAssumption
     DEF Established, SeqNext, Goto, TypeOK, WorkerInv, BoundInv, Conn
<1>6. /\ seq' \in [Worker -> [gen : 0..MaxConn, last : 0..MaxConn, first : BOOLEAN]]
      /\ fate' \in [Worker -> [Conn -> Fate]]
      /\ pc' \in [Worker -> Label]
  <2>1. SeqNext(seq[w]) \in [gen : 0..MaxConn, last : 0..MaxConn, first : BOOLEAN]
    BY <1>5 DEF SeqNext, Conn
  <2>2. seq' \in [Worker -> [gen : 0..MaxConn, last : 0..MaxConn, first : BOOLEAN]]
    BY <1>1, <2>1 DEF Established, TypeOK
  <2>3. QED
    BY <1>1, <1>5, <2>2 DEF TypeOK, Fate, Label
<1>7. TypeOK'
  BY <1>1, <1>3, <1>6 DEF TypeOK, ctxVars
<1>8. /\ \A n \in Conn : fate'[w][n] = IF n = g THEN "up" ELSE fate[w][n]
      /\ pc'[w] = "hold"
  BY <1>1, <1>5 DEF TypeOK
<1>9. ResetInv(w)'
  <2>1. out'[w] \in {out[w], Append(out[w], e)}
    BY <1>1
  <2>2. SUFFICES ASSUME NEW i \in 1..Len(out'[w])
                 PROVE  /\ out'[w][i].conn <= g
                        /\ out'[w][i].kind = "ConnReset" => fate'[w][out'[w][i].conn] = "rst"
    BY <1>5 DEF ResetInv
  <2>3. CASE out'[w][i] = e
    BY <2>3
  <2>4. CASE i \in 1..Len(out[w]) /\ out'[w][i] = out[w][i]
    <3>1. out[w][i] \in [kind : Kind, conn : Conn]
      BY <1>2, <2>4, ElementIn
    <3>2. out[w][i].conn \in Conn /\ out[w][i].conn <= seq[w].gen
      BY <1>1, <2>4, <3>1 DEF WorkerInv, ResetInv
    <3>3. out[w][i].conn # g /\ out[w][i].conn <= g
      BY <1>5, <3>2 DEF Conn
    <3>4. QED
      BY <1>1, <1>8, <2>4, <3>2, <3>3 DEF WorkerInv, ResetInv
  <2>5. (i \in 1..Len(out[w]) /\ out'[w][i] = out[w][i]) \/ out'[w][i] = e
    BY <1>2, <2>1, AppendElements
  <2>6. QED
    BY <2>3, <2>4, <2>5
<1>10. SeqInv(w)'
  BY <1>5 DEF SeqInv, Conn
<1>11. SockInv(w)'
  BY <1>5, <1>8 DEF SockInv, PeerEnd
<1>12. BoundInv(w)'
  BY <1>1, <1>5, <1>8 DEF WorkerInv, BoundInv, ctxVars, Conn
<1>13. ASSUME NEW v \in Worker, v # w PROVE WorkerInv(v)'
  <2>1. out'[v] = out[v] /\ pc'[v] = pc[v] /\ fate'[v] = fate[v] /\ seq'[v] = seq[v]
    BY <1>1, <1>5, <1>13 DEF TypeOK, Established
  <2>2. QED
    BY <2>1, <1>13, Frame DEF ctxVars
<1>14. QED
  BY <1>7, <1>9, <1>10, <1>11, <1>12, <1>13 DEF HeldInv, WorkerInv

-----------------------------------------------------------------------------
\* The first connection.
LEMMA ConnectInv ==
  ASSUME HeldInv, NEW w \in Worker, Connect(w)
  PROVE  HeldInv'
<1>1. TypeOK /\ WorkerInv(w) /\ GateInv
  BY DEF HeldInv
<1>2. seq[w].first /\ seq[w].gen = 0 /\ ~firstDone[w] /\ Established(w) /\ UNCHANGED <<ctxVars, out>>
  BY <1>1 DEF Connect, WorkerInv, SeqInv
<1>3. /\ firstDone' = [firstDone EXCEPT ![w] = TRUE]
      /\ OnLongConnected
  BY <1>2 DEF Connect
<1>4. /\ firstDone' \in [Worker -> BOOLEAN] /\ firstDone'[w]
      /\ \A v \in Worker : v # w => firstDone'[v] = firstDone[v]
  BY <1>1, <1>3 DEF TypeOK
<1>5. w \in Unconnected /\ Unconnected' = Unconnected \ {w}
  BY <1>2, <1>4 DEF Unconnected
<1>6. /\ longRemaining' = Cardinality(Unconnected')
      /\ longRemaining' \in 0..Cardinality(Worker)
  <2>1. Unconnected \in SUBSET Worker /\ Unconnected \ {w} \in SUBSET Worker
    BY DEF Unconnected
  <2>2. Cardinality(Unconnected \ {w}) = Cardinality(Unconnected) - 1
    BY <1>5, <2>1, Counting
  <2>3. Cardinality(Unconnected \ {w}) \in 0..Cardinality(Worker)
    BY <2>1, Counting
  <2>4. QED
    BY <1>1, <1>3, <1>5, <2>2, <2>3 DEF OnLongConnected, GateInv
<1>7. longRemaining \in Int /\ longRemaining > 0
  BY <1>1, <1>3, <1>6 DEF TypeOK, OnLongConnected
<1>8. gate = "closed"
  BY <1>1, <1>7 DEF GateInv, TypeOK
<1>9. gate' \in {"closed", "open", "failed", "shut"} /\ (gate' # "closed" => longRemaining' = 0)
  BY <1>3, <1>8 DEF OnLongConnected, SignalReady
<1>10. GateInv'
  BY <1>6, <1>9 DEF GateInv
<1> DEFINE e == Event("ConnReconnected", 1)
<1>11. /\ e \in [kind : Kind, conn : Conn] /\ e.kind # "ConnReset" /\ e.conn <= seq[w].gen + 1
       /\ out' = [out EXCEPT ![w] = out[w]]
  BY <1>1, <1>2, ConnAssumption DEF Event, Kind, Conn, TypeOK
<1> HIDE DEF e
<1>12. QED
  BY <1>2, <1>4, <1>6, <1>9, <1>10, <1>11, DialStep

\* The next one, after a break.
LEMMA ReconnectInv ==
  ASSUME HeldInv, NEW w \in Worker, Reconnect(w)
  PROVE  HeldInv'
<1>1. TypeOK /\ WorkerInv(w) /\ GateInv
  BY DEF HeldInv
<1>2. seq[w] \in [gen : 0..MaxConn, last : 0..MaxConn, first : BOOLEAN]
  BY <1>1 DEF TypeOK
<1>3. /\ Established(w) /\ UNCHANGED <<ctxVars, gateVars>>
      /\ ~seq[w].first /\ seq[w].gen \in Conn /\ seq[w].last = seq[w].gen
  BY <1>1, <1>2 DEF Reconnect, WorkerInv, SeqInv, Conn
<1> DEFINE e == Event("ConnReconnected", seq[w].last)
<1>4. /\ e \in [kind : Kind, conn : Conn] /\ e.kind # "ConnReset" /\ e.conn <= seq[w].gen + 1
      /\ out' = [out EXCEPT ![w] = Append(out[w], e)]
  BY <1>1, <1>3 DEF Event, Kind, Conn, TypeOK, Reconnect, Emit
<1>5. GateInv'
  BY <1>1, <1>3 DEF GateInv, Unconnected, gateVars
<1>6. /\ firstDone' \in [Worker -> BOOLEAN] /\ firstDone'[w]
      /\ \A v \in Worker : v # w => firstDone'[v] = firstDone[v]
      /\ longRemaining' \in 0..Cardinality(Worker)
      /\ gate' \in {"closed", "open", "failed", "shut"}
  BY <1>1, <1>3 DEF TypeOK, gateVars, WorkerInv, SeqInv, Conn
<1> HIDE DEF e
<1>7. QED
  BY <1>3, <1>4, <1>5, <1>6, DialStep


-----------------------------------------------------------------------------
(* The steps of a worker between connections: they move its control only.  *)
LEMMA BetweenConnections ==
  ASSUME HeldInv, NEW w \in Worker,
         Start(w) \/ NextSession(w) \/ BeginDial(w) \/ DialFails(w) \/ Backoff(w)
  PROVE  HeldInv'
<1>1. /\ pc \in [Worker -> Label] /\ sessDone \in [Worker -> BOOLEAN]
      /\ sessDone = [sessDone EXCEPT ![w] = sessDone[w]]
      /\ seq[w].gen \in 0..MaxConn
      /\ SockInv(w) /\ BoundInv(w)
  BY DEF HeldInv, TypeOK, WorkerInv
<1> USE ConnAssumption, <1>1
    DEF Goto, ctxVars, gateVars, Label, BoundInv, SockInv, SessionOver
<1>2. CASE Start(w)
  <2>1. PICK l \in {"session", "stopped"} : pc' = [pc EXCEPT ![w] = l]
    BY <1>2 DEF Start
  <2>2. BoundInv(w)' /\ SockInv(w)' /\ l \in Label
    BY <1>2, <2>1 DEF Start
  <2>3. QED
    BY <1>2, <2>1, <2>2, ControlStep DEF Start
<1>3. CASE NextSession(w)
  <2>1. PICK l \in {"stopped", "head"}, d \in BOOLEAN :
          /\ pc' = [pc EXCEPT ![w] = l] /\ sessDone' = [sessDone EXCEPT ![w] = d]
    BY <1>3 DEF NextSession
  <2>2. BoundInv(w)' /\ SockInv(w)' /\ l \in Label
    BY <1>3, <2>1 DEF NextSession
  <2>3. QED
    BY <1>3, <2>1, <2>2, ControlStep DEF NextSession
<1>4. CASE BeginDial(w)
  <2>1. PICK l \in {"session", "dial"} : pc' = [pc EXCEPT ![w] = l]
    BY <1>4 DEF BeginDial
  <2>2. BoundInv(w)' /\ SockInv(w)' /\ l \in Label
    BY <1>4, <2>1 DEF BeginDial
  <2>3. QED
    BY <1>4, <2>1, <2>2, ControlStep DEF BeginDial
<1>5. CASE DialFails(w)
  <2>1. BoundInv(w)' /\ SockInv(w)'
    BY <1>5 DEF DialFails
  <2>2. QED
    BY <1>5, <2>1, ControlStep DEF DialFails
<1>6. CASE Backoff(w)
  <2>1. PICK l \in {"session", "head"} : pc' = [pc EXCEPT ![w] = l]
    BY <1>6 DEF Backoff
  <2>2. BoundInv(w)' /\ SockInv(w)' /\ l \in Label
    BY <1>6, <2>1 DEF Backoff
  <2>3. QED
    BY <1>6, <2>1, <2>2, ControlStep DEF Backoff
<1>7. QED
  BY <1>2, <1>3, <1>4, <1>5, <1>6

(* Reporting a break: the socket has ended, so there is room to dial again,*)
(* and Classify says reset only of a reset.                                *)
LEMMA BreakInv ==
  ASSUME HeldInv, NEW w \in Worker, pc[w] \in {"hold", "read"}, Sock(w) \in PeerEnd,
         ReportBreak(w), UNCHANGED <<ctxVars, seq, gateVars, fate>>
  PROVE  HeldInv'
<1> DEFINE e == Event(Classify(Sock(w)), Cur(w))
<1>1. /\ pc \in [Worker -> Label] /\ SockInv(w) /\ BoundInv(w)
      /\ out \in [Worker -> Seq([kind : Kind, conn : Conn])]
  BY DEF HeldInv, TypeOK, WorkerInv
<1>2. /\ seq[w].gen \in Conn /\ seq[w].gen < MaxConn
      /\ fate[w][seq[w].gen] = Sock(w)
  BY <1>1 DEF SockInv, Sock, Cur
<1>3. /\ e \in [kind : Kind, conn : Conn] /\ e.conn = seq[w].gen
      /\ e.kind = "ConnReset" => Sock(w) = "rst"
  BY <1>2 DEF Event, Classify, Kind, BreakKind, Cur
<1>4. /\ pc' = [pc EXCEPT ![w] = "head"]
      /\ out' = [out EXCEPT ![w] = Append(out[w], e)]
  BY <1>1 DEF ReportBreak, Emit, Goto
<1>5. BoundInv(w)' /\ SockInv(w)' /\ "head" \in Label
  BY <1>1, <1>2, <1>4 DEF BoundInv, SockInv, ctxVars, Label
<1>6. e.conn <= seq[w].gen
  BY <1>2, <1>3 DEF Conn
<1> HIDE DEF e
<1>7. QED
  BY <1>2, <1>3, <1>4, <1>5, <1>6, EmitStep

(* The steps of a worker that holds a connection.                          *)
LEMMA WhileHolding ==
  ASSUME HeldInv, NEW w \in Worker,
         Tick(w) \/ CloseSilently(w) \/ Answer(w) \/ ReadTimeout(w) \/ ReadBreak(w)
  PROVE  HeldInv'
<1>1. /\ pc \in [Worker -> Label] /\ sessDone \in [Worker -> BOOLEAN]
      /\ sessDone = [sessDone EXCEPT ![w] = sessDone[w]] /\ sessDone[w] \in BOOLEAN
      /\ seq[w].gen \in 0..MaxConn
      /\ fate \in [Worker -> [Conn -> Fate]]
      /\ out \in [Worker -> Seq([kind : Kind, conn : Conn])]
      /\ SockInv(w) /\ BoundInv(w)
  BY DEF HeldInv, TypeOK, WorkerInv
<1>2. CASE Tick(w)
  <2>1. CASE Sock(w) \in {"rst", "err"}
    BY <1>2, <2>1, BreakInv DEF Tick, PeerEnd
  <2>2. CASE ~(Sock(w) \in {"rst", "err"})
    <3>1. pc' = [pc EXCEPT ![w] = "read"] /\ UNCHANGED <<ctxVars, seq, gateVars, fate, out>>
      BY <1>2, <2>2 DEF Tick, Goto
    <3>2. BoundInv(w)' /\ SockInv(w)' /\ "read" \in Label
      BY <1>1, <1>2, <3>1 DEF Tick, BoundInv, SockInv, ctxVars, Label
    <3>3. QED
      BY <1>1, <3>1, <3>2, ControlStep DEF ctxVars
  <2>3. QED
    BY <2>1, <2>2
<1>3. CASE CloseSilently(w)
  <2> DEFINE f == IF fate[w][seq[w].gen] = "up" THEN "closed" ELSE fate[w][seq[w].gen]
  <2>1. /\ pc[w] = "hold" /\ seq[w].gen \in Conn /\ f \in Fate
        /\ fate[w][seq[w].gen] = "rst" => f = "rst"
    BY <1>1, <1>3 DEF CloseSilently, SockInv, Fate
  <2>2. /\ pc' = [pc EXCEPT ![w] = "session"]
        /\ fate' = [fate EXCEPT ![w][seq[w].gen] = f]
        /\ UNCHANGED <<ctxVars, seq, gateVars, out>>
        /\ ctxDone \/ sessDone[w]
    BY <1>3 DEF CloseSilently, Goto, Cur, SessionOver
  <2>3. BoundInv(w)' /\ SockInv(w)' /\ "session" \in Label
    BY <1>1, <2>1, <2>2 DEF BoundInv, SockInv, ctxVars, Label
  <2> HIDE DEF f
  <2>4. QED
    BY <2>1, <2>2, <2>3, EndStep
<1>4. CASE Answer(w)
  <2> DEFINE e == Event("ConnKeepaliveOK", seq[w].gen)
  <2>1. /\ seq[w].gen \in Conn /\ e \in [kind : Kind, conn : Conn]
        /\ e.conn = seq[w].gen /\ e.kind # "ConnReset"
    BY <1>1, <1>4 DEF Answer, SockInv, Event, Kind
  <2>2. \E s \in {Append(out[w], e), out[w]} : out' = [out EXCEPT ![w] = s]
    BY <1>1, <1>4 DEF Answer, EmitOnce, AppendOnce, Cur
  <2>3. /\ pc' = [pc EXCEPT ![w] = "hold"] /\ pc[w] = "read"
        /\ UNCHANGED <<ctxVars, seq, gateVars, fate>>
    BY <1>4 DEF Answer, Goto
  <2>4. BoundInv(w)' /\ SockInv(w)' /\ "hold" \in Label
    BY <1>1, <2>3 DEF BoundInv, SockInv, ctxVars, Label
  <2>5. e.conn <= seq[w].gen
    BY <2>1 DEF Conn
  <2> HIDE DEF e
  <2>6. QED
    BY <2>1, <2>2, <2>3, <2>4, <2>5, EmitStep
<1>5. CASE ReadTimeout(w)
  <2>1. /\ pc' = [pc EXCEPT ![w] = "hold"] /\ pc[w] = "read"
        /\ UNCHANGED <<ctxVars, seq, gateVars, fate, out>>
    BY <1>5 DEF ReadTimeout, Goto
  <2>2. BoundInv(w)' /\ SockInv(w)' /\ "hold" \in Label
    BY <1>1, <2>1 DEF BoundInv, SockInv, ctxVars, Label
  <2>3. QED
    BY <1>1, <2>1, <2>2, ControlStep DEF ctxVars
<1>6. CASE ReadBreak(w)
  BY <1>6, BreakInv DEF ReadBreak
<1>7. QED
  BY <1>2, <1>3, <1>4, <1>5, <1>6

-----------------------------------------------------------------------------
(* What happens around the workers.                                        *)
LEMMA PeerClosesInv ==
  ASSUME HeldInv, NEW w \in Worker, PeerCloses(w)
  PROVE  HeldInv'
<1>1. PICK f \in PeerEnd : fate' = [fate EXCEPT ![w][seq[w].gen] = f]
  BY DEF PeerCloses, Cur
<1>2. /\ pc \in [Worker -> Label] /\ fate \in [Worker -> [Conn -> Fate]]
      /\ SockInv(w) /\ BoundInv(w)
  BY DEF HeldInv, TypeOK, WorkerInv
<1>3. /\ pc' = [pc EXCEPT ![w] = pc[w]] /\ pc[w] \in {"hold", "read"}
      /\ UNCHANGED <<pc, ctxVars, seq, gateVars, out>>
      /\ fate[w][seq[w].gen] = "up" /\ seq[w].gen < MaxConn
      /\ seq[w].gen \in Conn /\ pc[w] \in Label
  BY <1>2 DEF PeerCloses, Holding, Cur, Sock, SockInv, Label
<1>4. f \in Fate
  BY DEF Fate
<1>5. BoundInv(w)' /\ SockInv(w)'
  <2>1. fate'[w][seq[w].gen] = f
    BY <1>1, <1>2, <1>3
  <2>2. QED
    BY <1>2, <1>3, <2>1 DEF BoundInv, SockInv, ctxVars
<1>6. QED
  BY <1>1, <1>3, <1>4, <1>5, EndStep

\* The hold of a session elapses.
LEMMA HoldElapsesInv ==
  ASSUME HeldInv, NEW w \in Worker, HoldElapses(w)
  PROVE  HeldInv'
<1>1. /\ pc \in [Worker -> Label] /\ sessDone \in [Worker -> BOOLEAN]
      /\ seq[w].gen \in 0..MaxConn /\ SockInv(w) /\ BoundInv(w)
  BY DEF HeldInv, TypeOK, WorkerInv
<1>2. /\ sessDone' = [sessDone EXCEPT ![w] = TRUE]
      /\ pc' = [pc EXCEPT ![w] = pc[w]] /\ pc[w] \in Label
      /\ UNCHANGED <<pc, ctxDone, seq, gateVars, fate, out>>
      /\ seq[w].gen + 1 < MaxConn
  BY <1>1 DEF HoldElapses, Cur
<1>3. BoundInv(w)' /\ SockInv(w)'
  BY <1>1, <1>2, ConnAssumption DEF BoundInv, SockInv
<1>4. QED
  BY <1>2, <1>3, ControlStep

\* The shutdown of the process.
LEMMA ProcessInv ==
  ASSUME HeldInv, Cancel \/ CloseGate \/ Terminated \/ UNCHANGED vars
  PROVE  HeldInv'
<1>1. /\ UNCHANGED <<pc, sessDone, seq, firstDone, longRemaining, fate, out>>
      /\ ctxDone' = ctxDone \/ ctxDone' = TRUE
      /\ gate' = gate \/ (gate = "open" /\ gate' = "shut")
  BY DEF Cancel, CloseGate, Terminated, vars, ctxVars, gateVars
<1>2. TypeOK'
  BY <1>1 DEF HeldInv, TypeOK
<1>3. GateInv'
  BY <1>1 DEF HeldInv, GateInv, Unconnected
<1>4. ctxDone => ctxDone'
  BY <1>1
<1>5. ASSUME NEW w \in Worker PROVE WorkerInv(w)'
  BY <1>1, <1>4, Frame
<1>6. QED
  BY <1>2, <1>3, <1>5 DEF HeldInv

\* Every step keeps the invariant.
LEMMA StepInv == HeldInv /\ [Next]_vars => HeldInv'
<1> SUFFICES ASSUME HeldInv, [Next]_vars PROVE HeldInv'
  OBVIOUS
<1>1. ASSUME NEW w \in Worker, WorkerStep(w)
      PROVE  HeldInv'
  BY <1>1, BetweenConnections, ConnectInv, ReconnectInv, WhileHolding DEF WorkerStep
<1>2. QED
  BY <1>1, PeerClosesInv, HoldElapsesInv, ProcessInv DEF Next

\* The invariant is inductive.
LEMMA Invariant == Spec => []HeldInv
BY InitInv, StepInv, PTL DEF Spec

-----------------------------------------------------------------------------
(* Every variable keeps its type; in particular longRemaining is never     *)
(* decremented below zero, however often workers break and reconnect.      *)
THEOREM TypeCorrect == Spec => []TypeOK
<1>1. HeldInv => TypeOK
  BY DEF HeldInv
<1>2. QED
  BY <1>1, Invariant, PTL

(* The readiness gate is honest for any number of long-lived workers.      *)
THEOREM GateIsHonest == Spec => []GateHonest
<1>1. HeldInv => GateHonest
  <2> SUFFICES ASSUME HeldInv, gate \in {"open", "shut"}, NEW w \in Worker
               PROVE  seq[w].gen >= 1
    BY DEF GateHonest
  <2>1. Cardinality(Unconnected) = 0 /\ Unconnected \in SUBSET Worker
    BY DEF HeldInv, GateInv, Unconnected
  <2>2. w \notin Unconnected
    BY <2>1, Counting
  <2>3. seq[w].gen \in 0..MaxConn /\ seq[w].gen > 0
    BY <2>2 DEF Unconnected, HeldInv, TypeOK, WorkerInv, SeqInv
  <2>4. QED
    BY <2>3
<1>2. QED
  BY <1>1, Invariant, PTL

(* No reset is fabricated: shutdown, hold expiry and ambiguous errors never*)
(* reach the stream as ConnReset.                                          *)
THEOREM ResetsAreReal == Spec => []NoFalseReset
<1>1. HeldInv => NoFalseReset
  BY DEF HeldInv, WorkerInv, ResetInv, NoFalseReset
<1>2. QED
  BY <1>1, Invariant, PTL

-----------------------------------------------------------------------------
(* A pod's stream is one of the contract's, with est the connections       *)
(* established and open while one is held.                                 *)
Contract == INSTANCE HeldStreamProofs
              WITH est <- [w \in Worker |-> Cur(w)],
                   open <- [w \in Worker |-> Holding(w)]

\* The two mapped functions.
EstMap == [w \in Worker |-> Cur(w)]
OpenMap == [w \in Worker |-> Holding(w)]

\* The initial states map to the initial state.
LEMMA StreamInit == Init => Contract!Init
<1> SUFFICES ASSUME Init PROVE Contract!Init
  OBVIOUS
<1>1. \A w \in Worker : Cur(w) = 0 /\ Holding(w) = FALSE
  BY DEF Init, Cur, Holding, NewHeldConnSeq
<1>2. EstMap = [w \in Worker |-> 0] /\ OpenMap = [w \in Worker |-> FALSE]
  BY <1>1 DEF EstMap, OpenMap
<1>3. out = [w \in Worker |-> <<>>]
  BY DEF Init
<1>4. QED
  BY <1>2, <1>3 DEF Contract!Init, EstMap, OpenMap

\* How a worker's move shows in the mapped functions.
LEMMA OpenMoves ==
  ASSUME TypeOK, NEW w \in Worker, NEW l \in Label, pc' = [pc EXCEPT ![w] = l]
  PROVE  /\ l \in {"hold", "read"} => OpenMap' = [OpenMap EXCEPT ![w] = TRUE]
         /\ l \notin {"hold", "read"} => OpenMap' = [OpenMap EXCEPT ![w] = FALSE]
         /\ (l \in {"hold", "read"} <=> pc[w] \in {"hold", "read"}) => OpenMap' = OpenMap
<1>1. /\ pc'[w] = l /\ \A v \in Worker : v # w => pc'[v] = pc[v]
  BY DEF TypeOK
<1>2. \A v \in Worker : v # w => Holding(v)' = Holding(v)
  BY <1>1 DEF Holding
<1>3. /\ l \in {"hold", "read"} => Holding(w)' = TRUE
      /\ l \notin {"hold", "read"} => Holding(w)' = FALSE
      /\ pc[w] \in {"hold", "read"} => Holding(w) = TRUE
      /\ pc[w] \notin {"hold", "read"} => Holding(w) = FALSE
  BY <1>1 DEF Holding
<1>4. ASSUME NEW b \in BOOLEAN, Holding(w)' = b
      PROVE  OpenMap' = [OpenMap EXCEPT ![w] = b]
  <2>1. \A v \in Worker : Holding(v)' = [OpenMap EXCEPT ![w] = b][v]
    BY <1>2, <1>4, Zenon DEF OpenMap
  <2>2. OpenMap' = [v \in Worker |-> [OpenMap EXCEPT ![w] = b][v]]
    BY <2>1, Zenon DEF OpenMap
  <2>3. QED
    BY <2>2, Zenon DEF OpenMap
<1>5. ASSUME Holding(w)' = Holding(w) PROVE OpenMap' = OpenMap
  <2>1. \A v \in Worker : Holding(v)' = Holding(v)
    BY <1>2, <1>5, Zenon
  <2>2. QED
    BY <2>1, Zenon DEF OpenMap
<1>6. QED
  BY <1>3, <1>4, <1>5, Zenon

\* A step of one worker moves its own connection only, in the abstract stream too.
LEMMA EstMoves ==
  ASSUME TypeOK, NEW w \in Worker, NEW s, seq' = [seq EXCEPT ![w] = s]
  PROVE  EstMap' = [EstMap EXCEPT ![w] = s.gen]
<1>1. \A v \in Worker : Cur(v)' = IF v = w THEN s.gen ELSE Cur(v)
  BY DEF TypeOK, Cur
<1>2. QED
  BY <1>1 DEF EstMap

\* A step that writes nothing stutters.
LEMMA Quiet ==
  ASSUME UNCHANGED <<out, seq>>, OpenMap' = OpenMap
  PROVE  UNCHANGED Contract!streamVars
<1>1. EstMap' = EstMap
  BY DEF EstMap, Cur
<1>2. QED
  BY <1>1 DEF Contract!streamVars, EstMap, OpenMap

(* Every step of the pod is a step of the contract or leaves it alone.     *)
LEMMA StreamStep == HeldInv /\ [Next]_vars => [Contract!Next]_(Contract!streamVars)
<1> SUFFICES ASSUME HeldInv, [Next]_vars
             PROVE  [Contract!Next]_(Contract!streamVars)
  OBVIOUS
<1>1. TypeOK
  BY DEF HeldInv
<1>2. ASSUME NEW w \in Worker
      PROVE  /\ EstMap[w] = seq[w].gen
             /\ (OpenMap[w] <=> pc[w] \in {"hold", "read"})
             /\ seq[w].gen \in 0..MaxConn /\ MaxConn \in Nat
             /\ SeqInv(w) /\ BoundInv(w) /\ SockInv(w)
  BY ConnAssumption DEF EstMap, OpenMap, Cur, Holding, HeldInv, TypeOK, WorkerInv
<1>3. ASSUME NEW w \in Worker,
             Start(w) \/ NextSession(w) \/ BeginDial(w) \/ DialFails(w) \/ Backoff(w)
      PROVE  UNCHANGED Contract!streamVars
  <2>1. UNCHANGED <<out, seq>> /\ pc[w] \notin {"hold", "read"}
    BY <1>3 DEF Start, NextSession, BeginDial, DialFails, Backoff
  <2>2. PICK l \in Label \ {"hold", "read"} : pc' = [pc EXCEPT ![w] = l]
    BY <1>3 DEF Start, NextSession, BeginDial, DialFails, Backoff, Goto, Label
  <2>3. OpenMap' = OpenMap
    BY <1>1, <1>2, <2>1, <2>2, OpenMoves
  <2>4. QED
    BY <2>1, <2>3, Quiet
<1>4. ASSUME NEW w \in Worker, Established(w)
      PROVE  /\ ~OpenMap[w] /\ EstMap[w] < MaxConn
             /\ EstMap' = [EstMap EXCEPT ![w] = EstMap[w] + 1]
             /\ OpenMap' = [OpenMap EXCEPT ![w] = TRUE]
  <2>1. pc[w] = "dial" /\ seq[w].gen < MaxConn
    BY <1>2, <1>4 DEF Established, BoundInv
  <2>2. OpenMap' = [OpenMap EXCEPT ![w] = TRUE]
    <3>1. pc' = [pc EXCEPT ![w] = "hold"] /\ "hold" \in Label
      BY <1>4 DEF Established, Goto, Label
    <3>2. QED
      BY <1>1, <3>1, OpenMoves
  <2>3. EstMap' = [EstMap EXCEPT ![w] = seq[w].gen + 1]
    <3>1. seq' = [seq EXCEPT ![w] = SeqNext(seq[w])] /\ SeqNext(seq[w]).gen = seq[w].gen + 1
      BY <1>1, <1>4 DEF Established, TypeOK, SeqNext
    <3>2. EstMap' = [EstMap EXCEPT ![w] = SeqNext(seq[w]).gen]
      BY <1>1, <3>1, EstMoves
    <3>3. QED
      BY <3>1, <3>2
  <2>4. QED
    BY <1>2, <2>1, <2>2, <2>3
<1>5. ASSUME NEW w \in Worker, Connect(w)
      PROVE  Contract!EstablishFirst(w)
  <2>1. Established(w) /\ seq[w].gen = 0 /\ UNCHANGED out
    BY <1>2, <1>5 DEF Connect, SeqInv
  <2>2. EstMap[w] = 0 /\ EstMap' = [EstMap EXCEPT ![w] = 1]
    BY <1>2, <1>4, <2>1
  <2>3. QED
    BY <1>4, <2>1, <2>2 DEF Contract!EstablishFirst, EstMap, OpenMap
<1>6. ASSUME NEW w \in Worker, Reconnect(w)
      PROVE  Contract!EstablishNext(w)
  <2>1. Established(w) /\ seq[w].gen > 0
    BY <1>2, <1>6 DEF Reconnect, SeqInv
  <2>2. out' = [out EXCEPT ![w] = Append(@, Event("ConnReconnected", EstMap[w]))]
    BY <1>2, <1>6 DEF Reconnect, Emit, SeqInv
  <2>3. EstMap[w] > 0 /\ EstMap[w] < MaxConn /\ ~OpenMap[w]
    BY <1>2, <1>4, <2>1
  <2>4. EstMap' = [EstMap EXCEPT ![w] = EstMap[w] + 1] /\ OpenMap' = [OpenMap EXCEPT ![w] = TRUE]
    BY <1>4, <2>1
  <2>5. QED
    BY <2>2, <2>3, <2>4
       DEF Contract!EstablishNext, Contract!Emit, Contract!Event, Event, EstMap, OpenMap
<1>7. ASSUME NEW w \in Worker, pc[w] \in {"hold", "read"}, Sock(w) \in PeerEnd,
             ReportBreak(w), UNCHANGED seq
      PROVE  Contract!Broken(w)
  <2>1. /\ Classify(Sock(w)) \in BreakKind
        /\ out' = [out EXCEPT ![w] = Append(@, Event(Classify(Sock(w)), EstMap[w]))]
    BY <1>2, <1>7 DEF ReportBreak, Emit, Classify, BreakKind, Cur
  <2>2. OpenMap' = [OpenMap EXCEPT ![w] = FALSE]
    <3>1. pc' = [pc EXCEPT ![w] = "head"] /\ "head" \in Label
      BY <1>7 DEF ReportBreak, Goto, Label
    <3>2. QED
      BY <1>1, <3>1, OpenMoves
  <2>3. OpenMap[w] /\ EstMap' = EstMap
    BY <1>2, <1>7 DEF EstMap, Cur
  <2>4. QED
    BY <2>1, <2>2, <2>3
       DEF Contract!Broken, Contract!Emit, Contract!Event, Event,
           Contract!BreakKind, BreakKind, EstMap, OpenMap
<1>8. ASSUME NEW w \in Worker, Tick(w) \/ ReadBreak(w)
      PROVE  Contract!Broken(w) \/ UNCHANGED Contract!streamVars
  <2>1. CASE ReadBreak(w) \/ Sock(w) \in {"rst", "err"}
    <3>1. /\ pc[w] \in {"hold", "read"} /\ UNCHANGED seq
          /\ Sock(w) \in PeerEnd /\ ReportBreak(w)
      BY <1>8, <2>1 DEF Tick, ReadBreak, PeerEnd
    <3>2. QED
      BY <1>7, <3>1
  <2>2. CASE ~(ReadBreak(w) \/ Sock(w) \in {"rst", "err"})
    <3>1. /\ pc' = [pc EXCEPT ![w] = "read"] /\ pc[w] = "hold"
          /\ UNCHANGED <<out, seq>> /\ "read" \in Label
      BY <1>8, <2>2 DEF Tick, ReadBreak, Goto, Label
    <3>2. OpenMap' = OpenMap
      BY <1>1, <3>1, OpenMoves
    <3>3. QED
      BY <3>1, <3>2, Quiet
  <2>3. QED
    BY <2>1, <2>2
<1>9. ASSUME NEW w \in Worker, Answer(w) \/ ReadTimeout(w)
      PROVE  Contract!Answered(w) \/ UNCHANGED Contract!streamVars
  <2>1. /\ pc' = [pc EXCEPT ![w] = "hold"] /\ pc[w] = "read" /\ "hold" \in Label
        /\ UNCHANGED seq
    BY <1>9 DEF Answer, ReadTimeout, Goto, Label
  <2>2. OpenMap' = OpenMap
    BY <1>1, <2>1, OpenMoves
  <2>3. OpenMap[w] /\ EstMap' = EstMap
    BY <1>2, <2>1 DEF EstMap, Cur
  <2>4. CASE Answer(w)
    <3>1. out' = [out EXCEPT ![w] = AppendOnce(@, Event("ConnKeepaliveOK", EstMap[w]))]
      BY <1>2, <2>4 DEF Answer, EmitOnce, Cur
    <3>2. QED
      BY <2>2, <2>3, <3>1
         DEF Contract!Answered, Contract!EmitOnce, Contract!Event, Event,
             Contract!AppendOnce, AppendOnce, EstMap, OpenMap
  <2>5. CASE ReadTimeout(w)
    BY <2>1, <2>2, <2>5, Quiet DEF ReadTimeout
  <2>6. QED
    BY <1>9, <2>4, <2>5
<1>10. ASSUME NEW w \in Worker, CloseSilently(w)
       PROVE  Contract!Closed(w)
  <2>1. /\ pc' = [pc EXCEPT ![w] = "session"] /\ pc[w] = "hold" /\ "session" \in Label
        /\ UNCHANGED <<out, seq>>
    BY <1>10 DEF CloseSilently, Goto, Label
  <2>2. OpenMap' = [OpenMap EXCEPT ![w] = FALSE]
    BY <1>1, <2>1, OpenMoves
  <2>3. OpenMap[w] /\ EstMap' = EstMap
    BY <1>2, <2>1 DEF EstMap, Cur
  <2>4. QED
    BY <2>1, <2>2, <2>3 DEF Contract!Closed, EstMap, OpenMap
<1>11. ASSUME UNCHANGED <<pc, seq, out>>
       PROVE  UNCHANGED Contract!streamVars
  BY <1>11, Quiet DEF OpenMap, Holding
<1>12. ASSUME NEW w \in Worker, PeerCloses(w) \/ HoldElapses(w)
       PROVE  UNCHANGED Contract!streamVars
  BY <1>11, <1>12 DEF PeerCloses, HoldElapses
<1>13. ASSUME Cancel \/ CloseGate \/ Terminated \/ UNCHANGED vars
       PROVE  UNCHANGED Contract!streamVars
  BY <1>11, <1>13 DEF Cancel, CloseGate, Terminated, vars
<1>14. QED
  BY <1>3, <1>5, <1>6, <1>8, <1>9, <1>10, <1>12, <1>13
     DEF Next, WorkerStep, Contract!Next

\* The two instances of HeldStream are the same.
LEMMA SameContract ==
  /\ Contract!Init <=> Stream!Init
  /\ [Contract!Next]_(Contract!streamVars) <=> [Stream!Next]_(Stream!streamVars)
<1>1. /\ Contract!streamVars = Stream!streamVars
      /\ (UNCHANGED Contract!streamVars) <=> (UNCHANGED Stream!streamVars)
  BY DEF Contract!streamVars, Stream!streamVars
<1>2. Contract!Init <=> Stream!Init
  BY DEF Contract!Init, Stream!Init
<1>3. ASSUME NEW w \in Worker
      PROVE  /\ Contract!EstablishFirst(w) <=> Stream!EstablishFirst(w)
             /\ Contract!EstablishNext(w) <=> Stream!EstablishNext(w)
             /\ Contract!Answered(w) <=> Stream!Answered(w)
             /\ Contract!Broken(w) <=> Stream!Broken(w)
             /\ Contract!Closed(w) <=> Stream!Closed(w)
  BY Zenon DEF Contract!EstablishFirst, Stream!EstablishFirst,
       Contract!EstablishNext, Stream!EstablishNext, Contract!Answered,
       Stream!Answered, Contract!Broken, Stream!Broken, Contract!Closed,
       Stream!Closed, Contract!Emit, Stream!Emit, Contract!EmitOnce,
       Stream!EmitOnce, Contract!Event, Stream!Event, Contract!AppendOnce,
       Stream!AppendOnce, Contract!BreakKind, Stream!BreakKind
<1>4. Contract!Next <=> Stream!Next
  BY <1>3, Zenon DEF Contract!Next, Stream!Next
<1>5. QED
  BY <1>1, <1>2, <1>4

(* The pod implements the contract: whatever the interleaving of workers,  *)
(* breaks, hold expiries and shutdown, it writes a HeldStream.             *)
THEOREM PodWritesStream == Spec => StreamSpec
<1>1. Init => Stream!Init
  BY StreamInit, SameContract
<1>2. HeldInv /\ [Next]_vars => [Stream!Next]_(Stream!streamVars)
  BY StreamStep, SameContract
<1>3. QED
  BY <1>1, <1>2, Invariant, PTL DEF Spec, StreamSpec, Stream!Spec

(* Hence the stream of every worker is strictly ordered.                   *)
THEOREM PodStreamIsOrdered == Spec => []StreamOrdered
<1>1. Contract!Spec => []Contract!StreamOrdered
  BY ConnAssumption, Contract!StreamIsOrdered
<1>2. StreamSpec => Contract!Spec
  BY SameContract, PTL DEF StreamSpec, Stream!Spec, Contract!Spec
<1>3. Contract!StreamOrdered <=> StreamOrdered
  BY DEF Contract!StreamOrdered, StreamOrdered, Stream!StreamOrdered,
         Contract!Precedes, Stream!Precedes, Contract!Rank, Stream!Rank,
         Contract!BreakKind, Stream!BreakKind
<1>4. QED
  BY <1>1, <1>2, <1>3, PodWritesStream, PTL
=============================================================================
