--------------------------- MODULE AppPoolProofs ----------------------------
(***************************************************************************)
(* The seconds of a drain, for every choice of them: when the reset of a   *)
(* held connection is stamped (DrainTiming), and how long an application   *)
(* goes without its connections (AppPool).                                 *)
(*                                                                         *)
(* The bounds are conditions on the constants, stated as such: each        *)
(* theorem says which of them it needs.  KeepAliveFits, met by the         *)
(* deployed values (135 <= 242), is what keeps the reset of a held         *)
(* connection from being stamped after its window; PeriodFits is what the  *)
(* loop of an application needs to come back in time.                      *)
(***************************************************************************)
EXTENDS AppPool, TLAPS

-----------------------------------------------------------------------------
(* The held connection of DrainTiming.                                     *)
\* The condition on the constants: a keepalive period after the RST the window
\* is still open.
KeepAliveFits == InternalDrain + KeepAlive <= StampOffset + Grace + Eps

\* The next tick is never more than a period away from the moment from which
\* the reset could be noticed.
TickBound ==
  /\ conn = "held" => now <= InternalDrain /\ nextTick <= now + KeepAlive
  /\ conn = "reset" => InternalDrain <= now /\ nextTick <= InternalDrain + KeepAlive
  /\ conn = "reported" => InternalDrain <= seen /\ seen <= InternalDrain + KeepAlive

IInv == TypeOK /\ TickBound

(* The arithmetic holds when the drain begins.                             *)
LEMMA IInvInit == Init => IInv
BY SecondsAssumption DEF Init, IInv, TypeOK, TickBound, Alive

(* The bound on the next tick is what makes ResetStamped inductive.        *)
LEMMA IInvNext == IInv /\ [Next]_vars => IInv'
<1>. SUFFICES ASSUME IInv, [Next]_vars PROVE IInv'
  OBVIOUS
<1>. USE SecondsAssumption DEF IInv, TypeOK, TickBound, Alive
<1>1. CASE ZtunnelResets
  BY <1>1 DEF ZtunnelResets
<1>2. CASE TickerFires
  <2>1. CASE conn = "reset"
    BY <1>2, <2>1 DEF TickerFires
  <2>2. CASE conn = "held"
    BY <1>2, <2>2 DEF TickerFires
  <2>. QED  BY <1>2, <2>1, <2>2 DEF TickerFires
<1>3. CASE SessionEnds
  BY <1>3 DEF SessionEnds
<1>4. CASE Second
  BY <1>4 DEF Second
<1>5. CASE UNCHANGED vars
  BY <1>5 DEF vars
<1>. QED  BY <1>1, <1>2, <1>3, <1>4, <1>5 DEF Next, Done

(* No tick is ever overdue and no session outlives its hold: HoldAndTrickle *)
(* takes each tick and each deadline when it is due.                       *)
THEOREM TypeCorrect == Spec => []TypeOK
<1>1. IInv => TypeOK
  BY DEF IInv
<1>. QED  BY IInvInit, IInvNext, <1>1, PTL DEF Spec

(* probeconn.go:188-197, analyze.go:90-101: a reported reset is stamped     *)
(* within a keepalive of the RST and, when a keepalive after the RST the   *)
(* window is still open, not after the window, for every phase in which    *)
(* the drain meets the ticker and the session.                             *)
THEOREM ResetsStamped == KeepAliveFits => (Spec => []ResetStamped)
<1>1. KeepAliveFits => (IInv => ResetStamped)
  BY SecondsAssumption DEF IInv, TypeOK, TickBound, KeepAliveFits, ResetStamped
<1>2. CASE KeepAliveFits
  <2>1. IInv => ResetStamped
    BY <1>1, <1>2
  <2>. QED  BY IInvInit, IInvNext, <2>1, PTL DEF Spec
<1>. QED  BY <1>2

-----------------------------------------------------------------------------
(* The held connection where there is one or an application.               *)
OneOfThem == IF app = "none" THEN IInv ELSE conn = "closed"

\* At first there is one or the other.
LEMMA OneInit == AppInit => OneOfThem
BY IInvInit DEF AppInit, NoApp, AppStarts, OneOfThem

\* An application leaves the closed connection alone.
LEMMA OneNext == OneOfThem /\ [AppNext]_allVars => OneOfThem'
<1>. SUFFICES ASSUME OneOfThem, [AppNext]_allVars PROVE OneOfThem'
  OBVIOUS
<1>1. CASE app = "none" /\ Next /\ UNCHANGED appVars
  BY <1>1, IInvNext DEF OneOfThem, appVars
<1>2. CASE app # "none" /\ app' = app /\ conn' = conn
  BY <1>2 DEF OneOfThem
<1>3. CASE UNCHANGED allVars
  <2>1. UNCHANGED vars /\ app' = app
    BY <1>3 DEF allVars, appVars
  <2>2. conn' = conn
    BY <2>1 DEF vars
  <2>. QED  BY <2>1, <2>2, IInvNext DEF OneOfThem
<1>. QED
  BY <1>1, <1>2, <1>3 DEF AppNext, ConnectWithRetry, Ping, NoPing, HandleHold, Enter, Acquire,
     Select, Except, holdFrame, AppReset, AppSecond, AppDone, vars

(* The same of the specification that has both, a held connection and the  *)
(* applications.                                                           *)
THEOREM PoolResetsStamped == KeepAliveFits => (AppSpec => []ResetStamped)
<1>1. KeepAliveFits => (OneOfThem => ResetStamped)
  BY SecondsAssumption DEF OneOfThem, IInv, TypeOK, TickBound, KeepAliveFits, ResetStamped
<1>2. CASE KeepAliveFits
  <2>1. OneOfThem => ResetStamped
    BY <1>1, <1>2
  <2>. QED  BY OneInit, OneNext, <2>1, PTL DEF AppSpec
<1>. QED  BY <1>2

-----------------------------------------------------------------------------
(* The application.  Nothing here depends on the seconds.                  *)
Conn == {"none", "old", "new", "broken"}

Typed ==
  /\ app \in {"none", "app-a", "app-b", "app-c"}
  /\ traffic \in BOOLEAN /\ revives \in BOOLEAN /\ promised \in BOOLEAN
  /\ now \in Int /\ retryAt \in Int /\ keepTick \in Int /\ lastUp \in Int
  /\ refused \in 0..MaxRefused
  /\ delay \in {0, 1, 2, 4, 8}
  /\ keep \in Conn /\ idle \in Conn /\ held \in Conn \cup {"connecting"}
  /\ pc \in [Callers -> {"idle", "acquire", "select", "except"}]

\* Who may be where in /hold: app-b and app-c by their lock, app-a by what its
\* runner is.
Exclusive ==
  /\ \A r \in Callers : At(r, "except") => app = "app-b"
  /\ app \in {"app-b", "app-c"} =>
       \A r \in Callers : At(r, "acquire") \/ At(r, "select") => lock = r
  /\ app \in {"app-b", "app-c"} => \A r \in Callers : At(r, "acquire") => held = "none"
  /\ app = "app-a" =>
       \A r \in Callers : At(r, "acquire") =>
         held = "connecting" /\ \A s \in Callers : At(s, "acquire") => s = r

\* A hold that was promised is one that was established.
Parked ==
  app \in {"app-a", "app-c"} /\ promised => held \notin {"none", "connecting"}

HoldIInv == Typed /\ Exclusive /\ Parked

-----------------------------------------------------------------------------
(* The clocks of the application, from the second it started in.           *)
Start == InternalDrain - AppKeepAlive

\* The longest wait of connectWithRetry before one of the attempts there are.
LongestWait ==
  IF MaxRefused <= 1 THEN 1 ELSE IF MaxRefused = 2 THEN 2
  ELSE IF MaxRefused = 3 THEN 4 ELSE 8

Backoff ==
  /\ refused = 0 => delay <= 1
  /\ refused <= 1 => delay <= 2
  /\ refused <= 2 => delay <= 4

\* A pool that is not up has been trying since the start.
Retrying ==
  ~Up => /\ keep = "none" /\ lastUp = Start
         /\ now <= retryAt /\ retryAt <= Start + refused * LongestWait

\* The loop never oversleeps.
Ticking == now <= keepTick /\ keepTick <= now + AppKeepAlive

\* The condition: no wait for the pool is longer than a keepalive period.
PeriodFits == LongestWait <= AppKeepAlive

Pinged ==
  PeriodFits /\ (app = "app-a" => revives) =>
    /\ keep # "none" => keepTick <= lastUp + AppKeepAlive
    /\ keep = "none" => keepTick <= lastUp + (2 + refused) * AppKeepAlive

KeepIInv == app # "none" => Backoff /\ Retrying /\ Ticking /\ Pinged

-----------------------------------------------------------------------------
(* Types, and what each step leaves of the pool.                           *)
LEMMA TypedInit == AppInit => Typed
<1>. SUFFICES ASSUME AppInit PROVE Typed
  OBVIOUS
<1>. USE SecondsAssumption, AppAssumption
<1>1. pc \in [Callers -> {"idle", "acquire", "select", "except"}]
  BY DEF AppInit, NoApp, AppStarts
<1>2. CASE Init /\ NoApp
  <2>1. /\ now \in Int /\ keepTick \in Int /\ retryAt \in Int /\ lastUp \in Int
        /\ refused \in 0..MaxRefused
    BY <1>2 DEF Init, NoApp
  <2>2. /\ delay \in {0, 1, 2, 4, 8} /\ keep \in Conn /\ idle \in Conn /\ held \in Conn
        /\ app = "none"
    BY <1>2 DEF NoApp, Conn
  <2>3. traffic \in BOOLEAN /\ revives \in BOOLEAN /\ promised \in BOOLEAN
    BY <1>2 DEF NoApp
  <2>. QED  BY <1>1, <2>1, <2>2, <2>3 DEF Typed
<1>3. CASE AppStarts
  <2>1. now = InternalDrain - AppKeepAlive /\ now \in Int
    BY <1>3 DEF AppStarts
  <2>2. keepTick \in Int /\ retryAt = now /\ lastUp = now /\ refused \in 0..MaxRefused
    BY <1>3, <2>1 DEF AppStarts
  <2>3. delay \in {0, 1, 2, 4, 8} /\ keep \in Conn /\ idle \in Conn /\ held \in Conn
    BY <1>3 DEF AppStarts, Conn
  <2>4. app \in {"app-a", "app-b", "app-c"} /\ traffic \in BOOLEAN /\ revives \in BOOLEAN
        /\ promised \in BOOLEAN
    BY <1>3 DEF AppStarts
  <2>. QED  BY <1>1, <2>1, <2>2, <2>3, <2>4 DEF Typed
<1>. QED  BY <1>2, <1>3 DEF AppInit

\* The pool after a connection was taken from it, or was not to be had.
LEMMA TakenTyped ==
  ASSUME Typed, UNCHANGED now,
         \/ NotAcquired
         \/ \E c \in {"old", "new"} : Acquired(c)
         \/ Queried
         \/ UNCHANGED <<idle, refused>>
  PROVE  idle' \in Conn /\ refused' \in 0..MaxRefused /\ refused <= refused'
BY AppAssumption DEF Typed, Conn, NotAcquired, Acquired, Queried, Refuse, Lives

\* Every step keeps the types.
LEMMA TypedNext ==
  ASSUME Typed, [AppNext]_allVars
  PROVE  Typed'
<1>. USE SecondsAssumption, AppAssumption
<1>1. CASE app = "none" /\ Next /\ UNCHANGED appVars
  <2>1. now' \in Int
    BY <1>1 DEF Typed, Next, ZtunnelResets, TickerFires, SessionEnds, Second, Done, vars
  <2>. QED
    BY <1>1, <2>1 DEF Typed, appVars, poolVars, keepVars, holdVars
<1>2. CASE ConnectWithRetry
  <2>1. delay' \in {0, 1, 2, 4, 8}
    BY <1>2 DEF ConnectWithRetry, Typed, Min2
  <2>2. refused' \in 0..MaxRefused
    BY <1>2 DEF ConnectWithRetry, Typed, Refuse
  <2>3. retryAt' \in Int /\ idle' \in Conn
    BY <1>2 DEF ConnectWithRetry, Typed, Conn
  <2>4. keep' \in Conn /\ keepTick' \in Int /\ lastUp' \in Int
    BY <1>2 DEF ConnectWithRetry, Typed, Conn, keepVars
  <2>. QED
    BY <1>2, <2>1, <2>2, <2>3, <2>4 DEF ConnectWithRetry, Typed, vars, holdVars
<1>3. CASE Ping
  <2>1. idle' \in Conn /\ refused' \in 0..MaxRefused
    BY <1>3, TakenTyped DEF Ping, vars
  <2>2. keep' \in Conn /\ keepTick' \in Int /\ lastUp' \in Int
    BY <1>3 DEF Ping, Woken, Typed, Conn
  <2>. QED
    BY <1>3, <2>1, <2>2 DEF Ping, Typed, vars, holdVars
<1>4. CASE NoPing
  BY <1>4 DEF NoPing, Woken, Typed, vars, holdVars, poolVars
<1>5. ASSUME NEW r \in Callers, Enter(r) \/ Acquire(r) \/ Select(r) \/ Except(r)
      PROVE  Typed'
  <2>1. UNCHANGED holdFrame
    BY <1>5 DEF Enter, Acquire, Select, Except, holdFrame
  <2>2. pc' \in [Callers -> {"idle", "acquire", "select", "except"}]
    <3>1. \E l \in {"idle", "acquire", "select", "except"} : To(r, l)
      BY <1>5 DEF Enter, Acquire, Select, Except
    <3>. QED  BY <3>1 DEF Typed, To
  <2>3. idle' \in Conn /\ refused' \in 0..MaxRefused
    <3>1. CASE Enter(r) \/ Acquire(r) \/ Select(r)
      BY <2>1, <3>1, TakenTyped DEF Enter, Acquire, Select, holdFrame, vars
    <3>2. CASE Except(r)
      BY <3>2 DEF Except, Typed, Lives, Conn
    <3>. QED  BY <1>5, <3>1, <3>2
  <2>4. held' \in Conn \cup {"connecting"}
    BY <1>5 DEF Enter, Acquire, Select, Except, Typed, Conn
  <2>5. promised' \in BOOLEAN
    <3>1. CASE Select(r)
      BY <3>1 DEF Select, Lives
    <3>2. CASE ~Select(r)
      BY <1>5, <3>2 DEF Enter, Acquire, Except, Typed
    <3>. QED  BY <3>1, <3>2
  <2>. QED
    BY <2>1, <2>2, <2>3, <2>4, <2>5 DEF Typed, holdFrame, vars, keepVars
<1>6. CASE AppReset
  BY <1>6 DEF AppReset, Typed, Reset, Conn, vars
<1>7. CASE AppSecond
  <2>1. idle' \in Conn /\ refused' \in 0..MaxRefused
    BY <1>7 DEF AppSecond, Typed, Conn, Queried, NotAcquired, Refuse, Lives
  <2>. QED
    BY <1>7, <2>1 DEF AppSecond, Typed, keepVars, holdVars
<1>8. CASE UNCHANGED allVars
  BY <1>8 DEF allVars, vars, appVars, poolVars, keepVars, holdVars, Typed
<1>. QED
  BY <1>1, <1>2, <1>3, <1>4, <1>5, <1>6, <1>7, <1>8 DEF AppNext, HandleHold, AppDone

-----------------------------------------------------------------------------
(* GET /hold.                                                              *)
LEMMA HoldInit == AppInit => HoldIInv
<1>. SUFFICES ASSUME AppInit PROVE HoldIInv
  OBVIOUS
<1>1. pc = [r \in Callers |-> "idle"] /\ promised = FALSE
  BY DEF AppInit, NoApp, AppStarts
<1>. QED  BY <1>1, TypedInit DEF HoldIInv, Exclusive, Parked, At

\* What does not concern /hold does not touch it.
LEMMA HoldFramed ==
  ASSUME HoldIInv, UNCHANGED <<app, holdVars>>
  PROVE  Exclusive' /\ Parked'
BY DEF HoldIInv, Exclusive, Parked, holdVars, At

\* Entering takes the lock, or makes the runner of app-a the caller's.
LEMMA EnterParks ==
  ASSUME HoldIInv, NEW r \in Callers, Enter(r)
  PROVE  Exclusive' /\ Parked'
<1>. USE AppAssumption DEF HoldIInv, Typed
<1>1. /\ app' = app /\ promised' = promised
      /\ pc' = [pc EXCEPT ![r] = IF held = "none" THEN "acquire" ELSE "select"]
  BY DEF Enter, To, holdFrame
<1>2. CASE app = "app-a"
  <2>1. held' = IF held = "none" THEN "connecting" ELSE held
    BY <1>2 DEF Enter
  <2>. QED  BY <1>1, <1>2, <2>1 DEF Exclusive, Parked, At
<1>3. CASE app # "app-a"
  <2>1. held' = held /\ lock = "free" /\ lock' = r
    BY <1>3 DEF Enter
  <2>. QED  BY <1>1, <1>3, <2>1 DEF Exclusive, Parked, At
<1>. QED  BY <1>2, <1>3

\* Who acquires is alone in it, and nothing is promised then.
LEMMA AcquireParks ==
  ASSUME HoldIInv, NEW r \in Callers, Acquire(r)
  PROVE  Exclusive' /\ Parked'
<1>. USE AppAssumption DEF HoldIInv, Typed
<1>1. app' = app /\ promised' = promised /\ At(r, "acquire")
  BY DEF Acquire, holdFrame
<1>2. CASE \E c \in {"old", "new"} : held' = c /\ To(r, "select") /\ UNCHANGED lock
  BY <1>1, <1>2 DEF Exclusive, Parked, At, To
<1>3. CASE /\ To(r, IF app = "app-b" THEN "except" ELSE "idle")
           /\ held' = IF app = "app-a" /\ ~revives THEN "broken" ELSE "none"
           /\ Unlock
  BY <1>1, <1>3 DEF Exclusive, Parked, At, To, Unlock
<1>. QED  BY <1>2, <1>3 DEF Acquire

\* A failed SELECT takes the promise back as it clears the connection.
LEMMA SelectParks ==
  ASSUME HoldIInv, NEW r \in Callers, Select(r)
  PROVE  Exclusive' /\ Parked'
<1>. USE AppAssumption DEF HoldIInv, Typed
<1>1. /\ app' = app /\ promised' = Lives(held) /\ At(r, "select") /\ held # "connecting"
      /\ To(r, IF ~Lives(held) /\ app = "app-b" THEN "except" ELSE "idle")
      /\ Unlock
      /\ held' = IF ~Lives(held) /\ (app = "app-c" \/ (app = "app-a" /\ revives))
                 THEN "none" ELSE held
  BY DEF Select, holdFrame
<1>2. Exclusive'
  BY <1>1 DEF Exclusive, At, To, Unlock
<1>3. Parked'
  BY <1>1 DEF Parked, Lives
<1>. QED  BY <1>2, <1>3

\* Only app-b clears one after it has let go of the lock.
LEMMA ExceptParks ==
  ASSUME HoldIInv, NEW r \in Callers, Except(r)
  PROVE  Exclusive' /\ Parked'
<1>1. app = "app-b" /\ app' = app /\ lock' = lock /\ held' = "none" /\ To(r, "idle")
  BY DEF HoldIInv, Exclusive, Except, holdFrame
<1>. QED  BY <1>1 DEF HoldIInv, Typed, Exclusive, Parked, At, To

\* Every step keeps the order in /hold.
LEMMA HoldNext ==
  ASSUME HoldIInv, [AppNext]_allVars
  PROVE  HoldIInv'
<1>1. Typed'
  BY TypedNext DEF HoldIInv
<1>2. Exclusive' /\ Parked'
  <2>1. CASE HandleHold
    BY <2>1, EnterParks, AcquireParks, SelectParks, ExceptParks DEF HandleHold
  <2>2. CASE AppReset
    BY <2>2 DEF AppReset, HoldIInv, Exclusive, Parked, At, Reset
  <2>3. CASE ~HandleHold /\ ~AppReset
    <3>1. UNCHANGED <<app, holdVars>>
      BY <2>3 DEF AppNext, ConnectWithRetry, Ping, NoPing, AppSecond, AppDone, allVars, appVars
    <3>. QED  BY <3>1, HoldFramed
  <2>. QED  BY <2>1, <2>2, <2>3
<1>. QED  BY <1>1, <1>2 DEF HoldIInv

\* The invariant of /hold is inductive.
LEMMA HoldInvariance == AppSpec => []HoldIInv
BY HoldInit, HoldNext, PTL DEF AppSpec

(* The variables of the application keep their types.                      *)
THEOREM PoolTypeCorrect == AppSpec => []Typed
<1>1. HoldIInv => Typed
  BY DEF HoldIInv
<1>. QED  BY HoldInvariance, <1>1, PTL

(* main.go:255-257, index.ts:99: what /hold of app-a or app-c promised is  *)
(* parked, for any number of requests at the same time.                    *)
THEOREM HoldsPark == AppSpec => []HoldParks
<1>1. HoldIInv => HoldParks
  BY DEF HoldIInv, Parked, HoldParks
<1>. QED  BY HoldInvariance, <1>1, PTL

-----------------------------------------------------------------------------
(* Multiples of a period.                                                  *)
LEMMA Multiples ==
  ASSUME NEW r \in Nat, NEW period \in Nat
  PROVE  /\ r * period \in Nat
         /\ (r + 1) * period = r * period + period
         /\ (2 + r) * period = r * period + 2 * period
OBVIOUS

\* More periods take longer.
LEMMA MultiplesGrow ==
  ASSUME NEW r \in Nat, NEW s \in Nat, r <= s, NEW period \in Nat
  PROVE  r * period <= s * period
<1>1. PICK d \in Nat : s = r + d
  <2>1. s - r \in Nat /\ s = r + (s - r)
    OBVIOUS
  <2>. QED  BY <2>1
<1>2. s * period = r * period + d * period /\ d * period \in Nat /\ r * period \in Nat
  BY <1>1
<1>. QED  BY <1>2

\* A period that is longer counts for more.
LEMMA MultiplesOfLonger ==
  ASSUME NEW r \in Nat, NEW short \in Nat, NEW long \in Nat, short <= long
  PROVE  r * short <= r * long
<1>1. PICK d \in Nat : long = short + d
  <2>1. long - short \in Nat /\ long = short + (long - short)
    OBVIOUS
  <2>. QED  BY <2>1
<1>2. r * long = r * short + r * d /\ r * d \in Nat /\ r * short \in Nat
  BY <1>1
<1>. QED  BY <1>2

\* One refusal more allows the loop one period more.
LEMMA AllowanceGrows ==
  ASSUME NEW r \in 0..MaxRefused, NEW s \in 0..MaxRefused, r <= s
  PROVE  /\ (2 + r) * AppKeepAlive <= (2 + s) * AppKeepAlive
         /\ (2 + r) * AppKeepAlive \in Nat /\ (2 + s) * AppKeepAlive \in Nat
         /\ (2 + s) * AppKeepAlive = s * AppKeepAlive + 2 * AppKeepAlive
         /\ s * AppKeepAlive \in Nat
<1>1. r \in Nat /\ s \in Nat /\ 2 + r \in Nat /\ 2 + s \in Nat /\ 2 + r <= 2 + s
      /\ AppKeepAlive \in Nat
  BY AppAssumption
<1>2. (2 + r) * AppKeepAlive <= (2 + s) * AppKeepAlive
  BY <1>1, MultiplesGrow
<1>. QED  BY <1>1, <1>2, Multiples

\* There is a wait at all.
LEMMA LongestWaitIn == LongestWait \in Nat /\ 1 <= LongestWait
BY DEF LongestWait

\* An attempt that may still fail is not preceded by a longer wait.
LEMMA WaitBounded ==
  ASSUME Typed, Backoff, refused < MaxRefused
  PROVE  delay <= LongestWait
BY AppAssumption DEF Typed, Backoff, LongestWait

-----------------------------------------------------------------------------
(* The keepalive loop.                                                     *)
LEMMA KeepInit == AppInit => KeepIInv
<1>. SUFFICES ASSUME AppInit, app # "none" PROVE Backoff /\ Retrying /\ Ticking /\ Pinged
  BY DEF KeepIInv
<1>. USE SecondsAssumption, AppAssumption
<1>1. AppStarts
  BY DEF AppInit, NoApp
<1>2. /\ now = Start /\ now \in Int /\ lastUp = now /\ retryAt = now /\ refused = 0
      /\ keepTick \in (now + 1)..(now + AppKeepAlive)
  BY <1>1 DEF AppStarts, Start
<1>3. (delay = 0 /\ keep = "old") \/ (delay = 1 /\ keep = "none")
  BY <1>1 DEF AppStarts
<1>4. Backoff /\ Ticking
  BY <1>2, <1>3 DEF Backoff, Ticking
<1>5. Retrying
  BY <1>2, <1>3, LongestWaitIn DEF Retrying, Up
<1>6. Pinged
  BY <1>2, <1>3 DEF Pinged
<1>. QED  BY <1>4, <1>5, <1>6

\* What is due in time is due in more time.
LEMMA DueLater ==
  ASSUME NEW t \in Int, NEW l \in Int, NEW a \in Nat, NEW b \in Nat, a <= b, t <= l + a
  PROVE  t <= l + b
OBVIOUS

\* What only counts more refusals keeps the loop within its time.
LEMMA MoreRefused ==
  ASSUME Typed, Backoff, Retrying, Ticking, Pinged,
         refused' \in 0..MaxRefused, refused <= refused',
         UNCHANGED <<now, app, revives, delay, retryAt, keepVars>>
  PROVE  Backoff' /\ Retrying' /\ Ticking' /\ Pinged'
<1>1. Backoff' /\ Ticking'
  BY AppAssumption DEF Typed, Backoff, Ticking, keepVars
<1>2. Retrying'
  <2>1. refused \in Nat /\ refused' \in Nat
    BY AppAssumption DEF Typed
  <2>2. refused * LongestWait <= refused' * LongestWait
        /\ refused * LongestWait \in Nat /\ refused' * LongestWait \in Nat
    BY <2>1, LongestWaitIn, MultiplesGrow, Multiples
  <2>3. Start \in Int /\ Start' = Start /\ LongestWait' = LongestWait
    BY SecondsAssumption, AppAssumption DEF Start, LongestWait
  <2>. QED  BY <2>2, <2>3 DEF Typed, Retrying, Up, keepVars
<1>3. Pinged'
  <2>. DEFINE allowed == (2 + refused) * AppKeepAlive
  <2>1. allowed <= allowed' /\ allowed \in Nat /\ allowed' \in Nat
    BY AllowanceGrows DEF Typed
  <2>2. /\ keep' = keep /\ keepTick' = keepTick /\ lastUp' = lastUp /\ app' = app
        /\ revives' = revives /\ keepTick \in Int /\ lastUp \in Int
    BY DEF Typed, keepVars
  <2>3. PeriodFits /\ (app = "app-a" => revives) =>
          /\ keep # "none" => keepTick <= lastUp + AppKeepAlive
          /\ keep = "none" => keepTick <= lastUp + allowed
    BY DEF Pinged
  <2>. HIDE DEF allowed
  <2>4. PeriodFits /\ (app = "app-a" => revives) =>
          /\ keep # "none" => keepTick <= lastUp + AppKeepAlive
          /\ keep = "none" => keepTick <= lastUp + allowed'
    <3>1. keepTick <= lastUp + allowed => keepTick <= lastUp + allowed'
      BY <2>1, <2>2, DueLater
    <3>. QED  BY <2>3, <3>1
  <2>. QED  BY <2>2, <2>4 DEF Pinged, allowed
<1>. QED  BY <1>1, <1>2, <1>3

\* An attempt of connectWithRetry waits no longer than LongestWait.
LEMMA ConnectKeeps ==
  ASSUME Typed, Backoff, Retrying, Ticking, Pinged, ConnectWithRetry, app # "none"
  PROVE  Backoff' /\ Retrying' /\ Ticking' /\ Pinged'
<1>. USE SecondsAssumption, AppAssumption DEF Typed
<1>1. ~Up /\ now = retryAt /\ now' = now /\ app' = app /\ revives' = revives
  BY DEF ConnectWithRetry, vars
<1>2. CASE delay' = 0 /\ UNCHANGED refused
           /\ IF app = "app-a"
              THEN keep' = "new" /\ keepTick' = now + AppKeepAlive /\ lastUp' = now
              ELSE UNCHANGED keepVars
  <2>1. Backoff' /\ Retrying'
    BY <1>2 DEF Backoff, Retrying, Up
  <2>2. Ticking' /\ Pinged'
    BY <1>1, <1>2 DEF Ticking, Pinged, keepVars
  <2>. QED  BY <2>1, <2>2
<1>3. CASE /\ Refuse /\ UNCHANGED keepVars
           /\ \/ retryAt' = now + delay /\ delay' = Min2(2 * delay, 8)
              \/ retryAt' = now + 1 /\ delay' = 1
  <2>1. refused' = refused + 1 /\ refused < MaxRefused
    BY <1>3 DEF Refuse
  <2>2. delay # 0 /\ delay <= LongestWait
    BY <1>1, <2>1, WaitBounded DEF Up
  <2>3. now < retryAt' /\ retryAt' <= now + LongestWait /\ retryAt' \in Int
    BY <1>3, <2>2, LongestWaitIn
  <2>4. refused' * LongestWait = refused * LongestWait + LongestWait
        /\ refused * LongestWait \in Nat
    BY <2>1, LongestWaitIn, Multiples
  <2>5. Start \in Int /\ Start' = Start /\ LongestWait' = LongestWait
    BY DEF Start, LongestWait
  <2>6. Retrying'
    BY <1>1, <1>3, <2>3, <2>4, <2>5, LongestWaitIn DEF Retrying, keepVars
  <2>7. Backoff'
    BY <1>3, <2>1, <2>2 DEF Backoff, Min2
  <2>8. Ticking'
    BY <1>1, <1>3 DEF Ticking, keepVars
  <2>9. Pinged'
    <3>1. (2 + refused) * AppKeepAlive <= (2 + refused') * AppKeepAlive
          /\ (2 + refused) * AppKeepAlive \in Nat /\ (2 + refused') * AppKeepAlive \in Nat
      BY <2>1, AllowanceGrows
    <3>. QED  BY <1>1, <1>3, <3>1 DEF Pinged, keepVars
  <2>. QED  BY <2>6, <2>7, <2>8, <2>9
<1>. QED  BY <1>2, <1>3 DEF ConnectWithRetry

\* A ping notices, acquires or is refused, once a period.
LEMMA PingKeeps ==
  ASSUME Typed, Backoff, Retrying, Ticking, Pinged, Ping, app # "none"
  PROVE  Backoff' /\ Retrying' /\ Ticking' /\ Pinged'
<1>. USE SecondsAssumption, AppAssumption DEF Typed
<1>1. /\ UNCHANGED <<now, app, revives, delay, retryAt>> /\ Up
      /\ now = keepTick /\ keepTick' = now + AppKeepAlive
  BY DEF Ping, Woken, vars
<1>2. refused' \in 0..MaxRefused /\ refused <= refused'
  BY TakenTyped DEF Ping, vars
<1>3. Ticking' /\ Backoff'
  BY <1>1, <1>2 DEF Ticking, Backoff
<1>4. Retrying'
  BY <1>1 DEF Retrying, Up
<1>5. Pinged'
  <2>1. CASE lastUp' = now /\ keep' # "none"
    BY <1>1, <2>1 DEF Pinged
  <2>2. CASE keep = "broken" /\ UNCHANGED lastUp
             /\ keep' = IF app = "app-a" /\ ~revives THEN "broken" ELSE "none"
    <3>1. CASE app = "app-a" /\ ~revives
      BY <1>1, <3>1 DEF Pinged
    <3>2. CASE ~(app = "app-a" /\ ~revives)
      <4>1. keep' = "none" /\ (PeriodFits => keepTick' <= lastUp + 2 * AppKeepAlive)
        BY <1>1, <2>2, <3>2 DEF Pinged
      <4>2. (2 + refused') * AppKeepAlive = refused' * AppKeepAlive + 2 * AppKeepAlive
            /\ refused' * AppKeepAlive \in Nat
        BY <1>2, AllowanceGrows
      <4>. QED  BY <1>1, <2>2, <4>1, <4>2 DEF Pinged
    <3>. QED  BY <3>1, <3>2
  <2>3. CASE keep = "none" /\ UNCHANGED <<keep, lastUp>> /\ refused' = refused + 1
    <3>1. (2 + refused) * AppKeepAlive = refused * AppKeepAlive + 2 * AppKeepAlive
          /\ (2 + refused') * AppKeepAlive = refused' * AppKeepAlive + 2 * AppKeepAlive
          /\ refused' * AppKeepAlive = refused * AppKeepAlive + AppKeepAlive
          /\ refused * AppKeepAlive \in Nat
      BY <2>3, Multiples
    <3>. QED  BY <1>1, <2>3, <3>1 DEF Pinged
  <2>. QED
    BY <2>1, <2>2, <2>3 DEF Ping, NotAcquired, Refuse, Lives
<1>. QED  BY <1>3, <1>4, <1>5

\* A loop that woke up too early has slept within the waits so far.
LEMMA NoPingKeeps ==
  ASSUME Typed, Backoff, Retrying, Ticking, Pinged, NoPing, app # "none"
  PROVE  Backoff' /\ Retrying' /\ Ticking' /\ Pinged'
<1>. USE SecondsAssumption, AppAssumption DEF Typed
<1>1. /\ UNCHANGED <<now, app, revives, delay, retryAt, refused, keep, lastUp>> /\ ~Up
      /\ now = keepTick /\ keepTick' = now + AppKeepAlive
  BY DEF NoPing, Woken, vars, poolVars
<1>2. Ticking' /\ Backoff' /\ Retrying'
  BY <1>1 DEF Ticking, Backoff, Retrying, Up, Start, LongestWait
<1>3. Pinged'
  <2>1. /\ PeriodFits => refused * LongestWait <= refused * AppKeepAlive
        /\ refused * LongestWait \in Nat /\ refused * AppKeepAlive \in Nat
        /\ (2 + refused) * AppKeepAlive = refused * AppKeepAlive + 2 * AppKeepAlive
    BY LongestWaitIn, MultiplesOfLonger, Multiples DEF PeriodFits
  <2>2. keep = "none" /\ lastUp = Start /\ now <= Start + refused * LongestWait
    BY <1>1, LongestWaitIn, <2>1 DEF Retrying, Start
  <2>3. Start \in Int
    BY DEF Start
  <2>. QED  BY <1>1, <2>1, <2>2, <2>3 DEF Pinged
<1>. QED  BY <1>2, <1>3

\* Every step keeps the loop in its time.
LEMMA KeepNext ==
  ASSUME Typed, KeepIInv, [AppNext]_allVars
  PROVE  KeepIInv'
<1>. USE SecondsAssumption, AppAssumption
<1>. SUFFICES ASSUME app' # "none" PROVE Backoff' /\ Retrying' /\ Ticking' /\ Pinged'
  BY DEF KeepIInv
<1>1. app # "none" /\ app' = app
  BY DEF AppNext, appVars, ConnectWithRetry, Ping, NoPing, HandleHold, Enter, Acquire, Select,
     Except, holdFrame, AppReset, AppSecond, AppDone, allVars
<1>2. Backoff /\ Retrying /\ Ticking /\ Pinged
  BY <1>1 DEF KeepIInv
<1>3. ASSUME NEW r \in Callers, Enter(r) \/ Acquire(r) \/ Select(r) \/ Except(r)
      PROVE  Backoff' /\ Retrying' /\ Ticking' /\ Pinged'
  <2>1. UNCHANGED <<now, app, revives, delay, retryAt, keepVars>>
    BY <1>3 DEF Enter, Acquire, Select, Except, holdFrame, vars
  <2>2. refused' \in 0..MaxRefused /\ refused <= refused'
    <3>1. CASE Acquire(r)
      BY <2>1, <3>1, TakenTyped DEF Acquire
    <3>2. CASE ~Acquire(r)
      BY <1>3, <3>2 DEF Enter, Select, Except, Typed
    <3>. QED  BY <3>1, <3>2
  <2>. QED  BY <1>2, <2>1, <2>2, MoreRefused
<1>4. CASE AppReset
  <2>1. /\ UNCHANGED <<now, app, revives, delay, retryAt, refused, keepTick, lastUp>>
        /\ (keep' = "none" <=> keep = "none")
    BY <1>4 DEF AppReset, vars, Reset
  <2>. QED  BY <1>2, <2>1 DEF Backoff, Retrying, Ticking, Pinged, Up, Start, LongestWait
<1>5. CASE AppSecond
  <2>1. UNCHANGED <<app, revives, delay, retryAt, keepVars>> /\ now' = now + 1
        /\ now # keepTick /\ (~Up => now # retryAt)
    BY <1>5 DEF AppSecond
  <2>2. CASE Up
    <3>1. refused' \in 0..MaxRefused /\ refused <= refused'
      BY <1>5 DEF AppSecond, Typed, Queried, NotAcquired, Refuse
    <3>2. Backoff' /\ Retrying'
      BY <1>2, <2>1, <2>2, <3>1 DEF Typed, Backoff, Retrying, Up
    <3>3. Ticking'
      BY <1>2, <2>1 DEF Typed, Ticking, keepVars
    <3>4. Pinged'
      <4>1. (2 + refused) * AppKeepAlive <= (2 + refused') * AppKeepAlive
            /\ (2 + refused) * AppKeepAlive \in Nat /\ (2 + refused') * AppKeepAlive \in Nat
        BY <3>1, AllowanceGrows DEF Typed
      <4>. QED  BY <1>2, <2>1, <4>1 DEF Typed, Pinged, keepVars
    <3>. QED  BY <3>2, <3>3, <3>4
  <2>3. CASE ~Up
    <3>1. refused' = refused
      BY <1>5, <2>3 DEF AppSecond
    <3>2. Backoff' /\ Pinged'
      BY <1>2, <2>1, <3>1 DEF Backoff, Pinged, keepVars
    <3>3. Ticking'
      BY <1>2, <2>1 DEF Typed, Ticking, keepVars
    <3>4. Retrying'
      BY <1>2, <2>1, <2>3, <3>1 DEF Typed, Retrying, Up, keepVars, Start, LongestWait
    <3>. QED  BY <3>2, <3>3, <3>4
  <2>. QED  BY <2>2, <2>3
<1>6. CASE UNCHANGED allVars
  BY <1>2, <1>6 DEF allVars, vars, appVars, poolVars, keepVars, Backoff, Retrying, Ticking, Pinged,
     Up, Start, LongestWait
<1>. QED
  BY <1>1, <1>2, <1>3, <1>4, <1>5, <1>6, ConnectKeeps, PingKeeps, NoPingKeeps
     DEF AppNext, HandleHold, AppDone

\* The invariant of the loop is inductive.
LEMMA KeepInvariance == AppSpec => []KeepIInv
<1>1. Typed /\ KeepIInv /\ [AppNext]_allVars => KeepIInv'
  BY KeepNext
<1>. QED  BY KeepInit, PoolTypeCorrect, <1>1, PTL DEF AppSpec

(* main.go:149-151, main.py:93-98: when no wait of connectWithRetry is     *)
(* longer than a keepalive period (8 s at most, against 20 s), the loop is *)
(* without a live connection for two periods and one for each refusal at   *)
(* most.                                                                   *)
THEOREM KeepaliveReturns == PeriodFits => (AppSpec => []KeepaliveBack)
<1>1. ASSUME PeriodFits, Typed, KeepIInv
      PROVE  KeepaliveBack
  <2>. SUFFICES ASSUME app # "none", app = "app-a" => revives
                PROVE  now <= lastUp + (2 + refused) * AppKeepAlive
    BY DEF KeepaliveBack
  <2>. USE SecondsAssumption, AppAssumption DEF Typed
  <2>1. (2 + refused) * AppKeepAlive = refused * AppKeepAlive + 2 * AppKeepAlive
        /\ refused * AppKeepAlive \in Nat
    BY <1>1, AllowanceGrows
  <2>2. Ticking /\ Pinged
    BY <1>1 DEF KeepIInv
  <2>. QED  BY <1>1, <2>1, <2>2 DEF Ticking, Pinged
<1>2. CASE PeriodFits
  <2>1. Typed /\ KeepIInv => KeepaliveBack
    BY <1>1, <1>2
  <2>. QED  BY PoolTypeCorrect, KeepInvariance, <2>1, PTL
<1>. QED  BY <1>2

-----------------------------------------------------------------------------
(* The pool.                                                               *)
LEMMA ServesNext ==
  ASSUME HoldIInv, PoolServes, [AppNext]_allVars
  PROVE  PoolServes'
<1>. DEFINE Serving == \E c \in {idle, held, keep} : Lives(c)
            Late == traffic /\ Up /\ now > InternalDrain + refused
<1>. SUFFICES ASSUME app' # "none", Late' PROVE Serving'
  BY DEF PoolServes
<1>1. app # "none" /\ app' = app /\ traffic' = traffic
  BY DEF AppNext, appVars, ConnectWithRetry, Ping, NoPing, HandleHold, Enter, Acquire, Select,
     Except, holdFrame, AppReset, AppSecond, AppDone, allVars
<1>2. now \in Int /\ refused \in Nat /\ InternalDrain \in Nat /\ delay \in {0, 1, 2, 4, 8}
  BY SecondsAssumption, AppAssumption DEF HoldIInv, Typed
<1>3. Late => Serving
  BY <1>1 DEF PoolServes
<1>4. ASSUME UNCHANGED <<now, delay>>, refused' = refused \/ refused' = refused + 1
      PROVE  Serving
  <2>1. now > InternalDrain + refused
    BY <1>2, <1>4
  <2>2. traffic /\ Up
    BY <1>1, <1>4 DEF Up
  <2>. QED  BY <1>3, <2>1, <2>2
<1>5. CASE ConnectWithRetry
  <2>1. CASE idle' = "new"
    BY <2>1 DEF Lives
  <2>2. CASE delay' = 1 \/ delay' = Min2(2 * delay, 8)
    <3>1. ~Up'
      BY <1>2, <1>5, <2>2 DEF ConnectWithRetry, Up, Min2
    <3>. QED  BY <3>1
  <2>. QED  BY <1>5, <2>1, <2>2 DEF ConnectWithRetry
<1>6. CASE Ping
  <2>1. Serving
    BY <1>4, <1>6 DEF Ping, vars, Acquired, NotAcquired, Refuse
  <2>. QED  BY <1>6, <2>1 DEF Ping, Acquired, NotAcquired, Lives, holdVars
<1>7. CASE NoPing
  <2>1. Serving
    BY <1>4, <1>7 DEF NoPing, vars, poolVars
  <2>. QED  BY <1>7, <2>1 DEF NoPing, poolVars, holdVars
<1>8. ASSUME NEW r \in Callers, Enter(r) \/ Acquire(r) \/ Select(r) \/ Except(r)
      PROVE  Serving'
  <2>1. UNCHANGED <<now, delay, keep>>
    BY <1>8 DEF Enter, Acquire, Select, Except, holdFrame, vars, keepVars
  <2>2. refused' = refused \/ refused' = refused + 1
    BY <1>8 DEF Enter, Acquire, Select, Except, Acquired, NotAcquired, Refuse
  <2>3. Serving
    BY <1>4, <2>1, <2>2
  <2>4. CASE Enter(r)
    BY <2>1, <2>3, <2>4 DEF Enter, Lives
  <2>5. CASE Acquire(r)
    <3>1. ~Lives(held)
      BY <2>5, <1>1 DEF Acquire, HoldIInv, Typed, Exclusive, Lives
    <3>. QED  BY <2>1, <2>3, <2>5, <3>1 DEF Acquire, Acquired, NotAcquired, Lives
  <2>6. CASE Select(r)
    BY <2>1, <2>3, <2>6 DEF Select, Lives
  <2>7. CASE Except(r)
    BY <2>1, <2>3, <2>7 DEF Except, Lives
  <2>. QED  BY <1>8, <2>4, <2>5, <2>6, <2>7
<1>9. CASE AppReset
  <2>1. now' = InternalDrain /\ refused' = refused
    BY <1>9 DEF AppReset, vars
  <2>. QED  BY <1>2, <2>1
<1>10. CASE AppSecond
  <2>1. UNCHANGED <<delay, keep, held>> /\ now' = now + 1
    BY <1>10 DEF AppSecond, keepVars, holdVars
  <2>2. Queried
    BY <1>1, <1>10, <2>1 DEF AppSecond, Up
  <2>3. CASE idle' = IF Lives(idle) THEN idle ELSE "new"
    BY <2>3 DEF Lives
  <2>4. CASE NotAcquired
    <3>1. ~Lives(idle) /\ refused' = refused + 1
      BY <2>4 DEF NotAcquired, Refuse
    <3>2. now > InternalDrain + refused
      BY <1>2, <2>1, <3>1
    <3>3. Serving
      BY <1>1, <1>3, <2>1, <3>2 DEF Up
    <3>. QED  BY <2>1, <3>1, <3>3 DEF Lives
  <2>. QED  BY <2>2, <2>3, <2>4 DEF Queried
<1>11. CASE UNCHANGED allVars
  <2>1. UNCHANGED <<now, delay, refused, idle, held, keep>>
    BY <1>11 DEF allVars, vars, appVars, poolVars, keepVars, holdVars
  <2>. QED  BY <1>4, <2>1
<1>. QED
  BY <1>1, <1>5, <1>6, <1>7, <1>8, <1>9, <1>10, <1>11 DEF AppNext, HandleHold, AppDone

(* db.py:20-22: a dropped connection surfaces as a reconnect, not an error. *)
(* An application that is asked every second (load.go's app-a traffic)     *)
(* has a live connection a second after the RST and one second later for   *)
(* each refusal, whatever the seconds of the drain and of the loop are and *)
(* for any number of requests to /hold.                                    *)
THEOREM PoolsServe == AppSpec => []PoolServes
<1>1. AppInit => PoolServes
  <2>. SUFFICES ASSUME AppInit, app # "none" PROVE ~(now > InternalDrain + refused)
    BY DEF PoolServes
  <2>1. now = InternalDrain - AppKeepAlive /\ refused = 0
    BY DEF AppInit, NoApp, AppStarts
  <2>. QED  BY <2>1, SecondsAssumption, AppAssumption
<1>2. HoldIInv /\ PoolServes /\ [AppNext]_allVars => PoolServes'
  BY ServesNext
<1>. QED  BY HoldInvariance, <1>1, <1>2, PTL DEF AppSpec
=============================================================================
