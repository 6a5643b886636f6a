------------------------------ MODULE AppPool -------------------------------
(***************************************************************************)
(* The pool of one demo application through the same drain: app-a          *)
(* (Node/TypeORM), app-b (Python/SQLAlchemy) or app-c (Go/pgx).  A         *)
(* background loop keeps one pooled connection open, GET /hold parks       *)
(* another, and the requests of the chain take an idle one and give it     *)
(* back.  What ran through the draining ztunnel is reset at InternalDrain  *)
(* and noticed when it is next used.                                       *)
(*                                                                         *)
(* A behaviour has either the held connection of DrainTiming or one        *)
(* application; now is the clock of both.  A connection is "old" (opened   *)
(* before the drain), "new" or "broken".                                   *)
(***************************************************************************)
EXTENDS DrainTiming

CONSTANTS AppKeepAlive,  \* KEEPALIVE_MS in seconds
          MaxRefused,    \* bound on the connection attempts that fail
          Callers        \* requests to /hold at the same time

ASSUME AppAssumption ==
  /\ AppKeepAlive \in Nat \ {0} /\ MaxRefused \in Nat
  /\ "free" \notin Callers

VARIABLES app,       \* "app-a", "app-b", "app-c", or "none"
          traffic,   \* requests of the chain come every second
          revives,   \* a TypeORM runner connects again after a reset
          delay,     \* connectWithRetry's delay, 0 when the pool is up
          retryAt,   \* when connectWithRetry tries again
          keep,      \* the connection of the keepalive loop
          keepTick,  \* when the loop wakes up
          lastUp,    \* history: the last second the loop had a live connection
          idle,      \* the idle connections, all alike
          held,      \* held, _held, heldRunner
          lock,      \* the caller that has heldMu, _held_lock
          pc,        \* where each caller is
          promised,  \* history: held:true answered, and no query failed since
          refused    \* attempts that failed

poolVars == <<delay, retryAt, idle, refused>>
keepVars == <<keep, keepTick, lastUp>>
holdVars == <<held, lock, pc, promised>>
appVars == <<app, traffic, revives, poolVars, keepVars, holdVars>>
allVars == <<vars, appVars>>

Bound == InternalDrain + (4 + MaxRefused) * AppKeepAlive

NoApp ==
  /\ app = "none" /\ traffic = FALSE /\ revives = FALSE
  /\ delay = 0 /\ retryAt = 0 /\ idle = "none" /\ refused = 0
  /\ keep = "none" /\ keepTick = 0 /\ lastUp = 0
  /\ held = "none" /\ lock = "free" /\ pc = [r \in Callers |-> "idle"] /\ promised = FALSE

\* One period before the reset: the pool has long been up, or its pod has just
\* started.  There is no connection of the harness.
AppStarts ==
  /\ app \in {"app-a", "app-b", "app-c"}
  /\ traffic \in BOOLEAN /\ revives \in BOOLEAN
  /\ now = InternalDrain - AppKeepAlive
  /\ conn = "closed" /\ nextTick = 1 /\ sessEnd = 1 /\ seen = 0
  /\ \/ delay = 0 /\ idle = "old" /\ keep = "old"
     \/ delay = 1 /\ idle = "none" /\ keep = "none"
  /\ retryAt = now /\ lastUp = now
  /\ keepTick \in (now + 1)..(now + AppKeepAlive)
  /\ refused = 0
  /\ held = "none" /\ lock = "free" /\ pc = [r \in Callers |-> "idle"] /\ promised = FALSE

AppInit == (Init /\ NoApp) \/ AppStarts

-----------------------------------------------------------------------------
Up == delay = 0
Lives(c) == c \in {"old", "new"}

Min2(x, y) == IF x < y THEN x ELSE y

Refuse == refused < MaxRefused /\ refused' = refused + 1

\* connectWithRetry: the pool is up when a ping got through; else wait, and
\* wait twice as long the next time, up to 8 s (the first 0.5 s counts as one).
\* app-a then connects its keepalive runner, and exits when that is refused.
ConnectWithRetry ==
  /\ ~Up /\ now = retryAt
  /\ \/ /\ delay' = 0 /\ idle' = "new" /\ UNCHANGED <<retryAt, refused>>
        /\ IF app = "app-a"
           THEN keep' = "new" /\ keepTick' = now + AppKeepAlive /\ lastUp' = now
           ELSE UNCHANGED keepVars
     \/ /\ Refuse
        /\ \/ retryAt' = now + delay /\ delay' = Min2(2 * delay, 8)
           \/ app = "app-a" /\ retryAt' = now + 1 /\ delay' = 1
        /\ UNCHANGED <<idle, keepVars>>
  /\ UNCHANGED <<vars, app, traffic, revives, holdVars>>

\* Taking a connection of the pool: an idle one that answers (pgx and pool_pre_ping
\* ask it, pg drops those that broke), else a new one.
Acquired(c) ==
  /\ IF Lives(idle) THEN c = idle ELSE c = "new"
  /\ idle' = "none" /\ UNCHANGED refused
NotAcquired == ~Lives(idle) /\ Refuse /\ idle' = "none"

\* Mutant: the pool hands out what it has.
QueriedUnasked ==
  \/ idle' = (IF idle = "none" THEN "new" ELSE idle) /\ UNCHANGED refused
  \/ NotAcquired

\* GET /query and the SELECT of GET /chain, and GET /readyz.
Queried ==
  \/ idle' = (IF Lives(idle) THEN idle ELSE "new") /\ UNCHANGED refused
  \/ NotAcquired

-----------------------------------------------------------------------------
\* The keepalive loop wakes up, and sleeps again when it is through.
Woken == now = keepTick /\ keepTick' = now + AppKeepAlive

\* Mutant: a failed ping leaves the loop its connection.
PingKept ==
  /\ Woken
  /\ Up
  /\ \/ Lives(keep) /\ lastUp' = now /\ UNCHANGED <<keep, idle, refused>>
     \/ keep = "broken" /\ UNCHANGED <<keep, lastUp, idle, refused>>
     \/ /\ keep = "none"
        /\ \/ \E c \in {"old", "new"} : Acquired(c) /\ keep' = c /\ lastUp' = now
           \/ NotAcquired /\ UNCHANGED <<keep, lastUp>>
  /\ UNCHANGED <<vars, app, traffic, revives, delay, retryAt, holdVars>>

\* keepAliveLoop, _keepalive_loop: acquire when there is no connection, then
\* SELECT 1; a failure releases it until the next time.  The runner of app-a
\* is never given up: whether it connects again is TypeORM's matter.
Ping ==
  /\ Woken
  /\ Up
  /\ \/ Lives(keep) /\ lastUp' = now /\ UNCHANGED <<keep, idle, refused>>
     \/ /\ keep = "broken"
        /\ keep' = IF app = "app-a" /\ ~revives THEN "broken" ELSE "none"
        /\ UNCHANGED <<lastUp, idle, refused>>
     \/ /\ keep = "none"
        /\ \/ \E c \in {"old", "new"} : Acquired(c) /\ keep' = c /\ lastUp' = now
           \/ NotAcquired /\ UNCHANGED <<keep, lastUp>>
  /\ UNCHANGED <<vars, app, traffic, revives, delay, retryAt, holdVars>>

\* The pool is not there yet.
NoPing ==
  /\ Woken
  /\ ~Up
  /\ UNCHANGED <<vars, app, traffic, revives, poolVars, keep, lastUp, holdVars>>

-----------------------------------------------------------------------------
At(r, l) == pc[r] = l
To(r, l) == pc' = [pc EXCEPT ![r] = l]

holdFrame == <<vars, app, traffic, revives, delay, retryAt, keepVars>>

\* GET /hold.  app-a has no lock: its runner is there before it is connected,
\* and a second request waits for the same connect.
Enter(r) ==
  /\ At(r, "idle") /\ Up
  /\ IF app = "app-a" THEN UNCHANGED lock ELSE lock = "free" /\ lock' = r
  /\ To(r, IF held = "none" THEN "acquire" ELSE "select")
  /\ held' = IF held = "none" /\ app = "app-a" THEN "connecting" ELSE held
  /\ UNCHANGED <<holdFrame, idle, refused, promised>>

Unlock == IF app = "app-a" THEN UNCHANGED lock ELSE lock' = "free"

\* The failure of app-b is handled after it has let go of the lock.
Acquire(r) ==
  /\ At(r, "acquire")
  /\ \/ \E c \in {"old", "new"} : Acquired(c) /\ held' = c /\ To(r, "select") /\ UNCHANGED lock
     \/ /\ NotAcquired
        /\ To(r, IF app = "app-b" THEN "except" ELSE "idle")
        /\ held' = IF app = "app-a" /\ ~revives THEN "broken" ELSE "none"
        /\ Unlock
  /\ UNCHANGED <<holdFrame, promised>>

\* Mutant: app-c clears its connection as app-b does, after the unlock.
SelectUnlocked(r) ==
  /\ At(r, "select") /\ held # "connecting"
  /\ promised' = Lives(held)
  /\ To(r, IF ~Lives(held) /\ app # "app-a" THEN "except" ELSE "idle")
  /\ UNCHANGED held
  /\ Unlock
  /\ UNCHANGED <<holdFrame, idle, refused>>

\* SELECT now(): held:true when it answers.
Select(r) ==
  /\ At(r, "select") /\ held # "connecting"
  /\ promised' = Lives(held)
  /\ To(r, IF ~Lives(held) /\ app = "app-b" THEN "except" ELSE "idle")
  /\ held' = IF ~Lives(held) /\ (app = "app-c" \/ (app = "app-a" /\ revives))
             THEN "none" ELSE held
  /\ Unlock
  /\ UNCHANGED <<holdFrame, idle, refused>>

\* except: takes the lock again and clears _held, whoever's it is by now.
Except(r) ==
  /\ At(r, "except")
  /\ lock = "free"
  /\ held' = "none"
  /\ idle' = IF Lives(held) THEN held ELSE idle
  /\ To(r, "idle")
  /\ UNCHANGED <<holdFrame, lock, refused, promised>>

HandleHold == \E r \in Callers : Enter(r) \/ Acquire(r) \/ Select(r) \/ Except(r)

-----------------------------------------------------------------------------
Reset(c) == IF c = "old" THEN "broken" ELSE c

AppReset ==
  /\ now = InternalDrain
  /\ "old" \in {keep, idle, held}
  /\ keep' = Reset(keep) /\ idle' = Reset(idle) /\ held' = Reset(held)
  /\ UNCHANGED <<vars, app, traffic, revives, delay, retryAt, keepTick, lastUp, lock, pc,
                 promised, refused>>

\* Time passes while nothing is due and no request is under way; with traffic
\* there was a request in the second that ends.
AppSecond ==
  /\ now < Bound
  /\ now # keepTick /\ (~Up => now # retryAt)
  /\ now = InternalDrain => "old" \notin {keep, idle, held}
  /\ \A r \in Callers : At(r, "idle")
  /\ now' = now + 1
  /\ IF traffic /\ Up THEN Queried ELSE UNCHANGED <<idle, refused>>
  /\ UNCHANGED <<conn, nextTick, sessEnd, seen, app, traffic, revives, delay, retryAt, keepVars,
                 holdVars>>

AppDone == now = Bound /\ UNCHANGED allVars

AppNext ==
  \/ app = "none" /\ Next /\ UNCHANGED appVars
  \/ /\ app # "none"
     /\ \/ ConnectWithRetry \/ Ping \/ NoPing \/ HandleHold \/ AppReset \/ AppSecond \/ AppDone

AppSpec == AppInit /\ [][AppNext]_allVars

FairAppSpec == AppSpec /\ WF_allVars(AppNext)

-----------------------------------------------------------------------------
(* main.go:255-257, index.ts:99: once /hold of app-a or app-c has answered *)
(* held:true, a connection stays parked until a query on it has failed     *)
(* (app-b clears its own after letting go of the lock, and may clear one   *)
(* that another request has just been promised).                           *)
HoldParks ==
  app \in {"app-a", "app-c"} /\ promised => held # "none"

(* main.go:149-151, main.py:93-98: the loop reconnects on any failure.  It  *)
(* is without a live connection for two periods at most, one to notice and  *)
(* one to acquire, and another for each attempt refused - unless it is the  *)
(* runner of app-a and the library does not revive it.                      *)
KeepaliveBack ==
  app # "none" /\ (app = "app-a" => revives)
    => now <= lastUp + (2 + refused) * AppKeepAlive

(* db.py:20-22: a dropped connection surfaces as a reconnect, not an error. *)
(* An application that is asked every second (load.go's app-a traffic)     *)
(* is on a live connection again a second after the reset, and another     *)
(* second for each attempt refused: what broke is given up when it is next *)
(* used, and neither the loop nor /hold drops one that lives.              *)
PoolServes ==
  app # "none" /\ traffic /\ Up /\ now > InternalDrain + refused
    => \E c \in {idle, held, keep} : Lives(c)
=============================================================================
