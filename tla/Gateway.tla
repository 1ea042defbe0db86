------------------------------- MODULE Gateway --------------------------------
(***************************************************************************)
(* What a request passes on its way to a handler: the authentication and   *)
(* the rate limiter of internal/platform/auth/middleware.go, then the      *)
(* handler and the request metrics of internal/http/router.go.             *)
(*                                                                         *)
(* The limiter counts in Redis, in fixed windows: INCR of a key named      *)
(* after the class of the route and the minute, then EXPIRE if the INCR    *)
(* created the key.  The token of a request that gets that far is the one  *)
(* API key.  Time is a clock of minutes.                                   *)
(***************************************************************************)
EXTENDS Routes, FiniteSets

CONSTANTS
  Requests,           \* requests, each of one client
  Routes,             \* the routes they may take
  RateLimitPerMinute, \* configuration; zero means the default
  ScoreLimitPerMinute,
  MaxMinute,          \* bound: the clock
  MaxLag,             \* minutes a request may take from its time.Now to its handler
  MaxFaults,          \* bound: failures of Redis and crashes
  None

Buckets == {"general", "expensive"}
Minutes == 0 .. MaxMinute
TTL     == 2

\* The two-second timeouts of the Redis client, its three retries and the
\* cancelled context of a request that went away keep MaxLag small.
ASSUME GatewayAssumption ==
  /\ IsFiniteSet(Requests) /\ Routes \subseteq Route
  /\ RateLimitPerMinute \in Int /\ ScoreLimitPerMinute \in Int
  /\ MaxMinute \in Nat /\ MaxFaults \in Nat
  /\ MaxLag \in Nat /\ MaxLag < TTL
  /\ None \notin Int

VARIABLES
  now,
  route,        \* the route of each request
  key,          \* whether it carries the API key
  pc,
  minute,       \* the minute its limiter key is named after
  status,       \* what it was answered
  entered,      \* when its handler was called
  count,        \* Redis: the counter of a window, 0 when there is no key
  expiry,       \* Redis: when the key expires, None when it never does
  admitted,     \* history: requests a window let through
  wasted,       \* history: INCRs of a window that no client had an answer for
  interrupted,  \* history: windows whose EXPIRE was not executed
  stats,        \* Metrics, in the memory of the process
  measured,     \* history: answers its handlers have given since it started
  faults

request == <<route, key>>
limiter == <<count, expiry, admitted, wasted, interrupted>>
vars    == <<now, request, pc, minute, status, entered, limiter, stats, measured, faults>>

Limit(bucket) ==
  IF bucket = "expensive"
  THEN IF ScoreLimitPerMinute <= 0 THEN 30 ELSE ScoreLimitPerMinute
  ELSE IF RateLimitPerMinute <= 0 THEN 120 ELSE RateLimitPerMinute

Bucket(r) == IF Expensive(route[r]) THEN "expensive" ELSE "general"

PerWindow(x) == [b \in Buckets |-> [m \in Minutes |-> x]]

Zero == [total |-> 0, errors |-> 0]

Init ==
  /\ now = 0
  /\ route \in [Requests -> Routes]
  /\ key \in [Requests -> BOOLEAN]
  /\ pc = [r \in Requests |-> "arrive"]
  /\ minute = [r \in Requests |-> None]
  /\ status = [r \in Requests |-> None]
  /\ entered = [r \in Requests |-> None]
  /\ count = PerWindow(0)
  /\ expiry = PerWindow(None)
  /\ admitted = PerWindow(0)
  /\ wasted = PerWindow(0)
  /\ interrupted = {}
  /\ stats = Zero
  /\ measured = {}
  /\ faults = 0

Goes(r, from, to) == pc[r] = from /\ pc' = [pc EXCEPT ![r] = to]

Says(r, code) == status' = [status EXCEPT ![r] = code]

Fault == faults < MaxFaults /\ faults' = faults + 1

Add(history, r, n) == [history EXCEPT ![Bucket(r)][minute[r]] = @ + n]

Counter(r) == count[Bucket(r)][minute[r]]

----------------------------------------------------------------------------
\* Middleware.Wrap

Pass(r) ==
  /\ ~Guarded(route[r])
  /\ Goes(r, "arrive", "serve")
  /\ UNCHANGED <<now, request, minute, status, entered, limiter, stats, measured, faults>>

Unauthorized(r) ==
  /\ Guarded(route[r]) /\ ~key[r]
  /\ Goes(r, "arrive", "done")
  /\ Says(r, 401)
  /\ UNCHANGED <<now, request, minute, entered, limiter, stats, measured, faults>>

\* TypeOK: the key must name the minute that is, not the one that comes.
WindowRoundedUp(r) == minute' = [minute EXCEPT ![r] = now + 1]

Window(r) == minute' = [minute EXCEPT ![r] = now]

\* allow reads the clock before it calls Redis.
Allow(r) ==
  /\ Guarded(route[r]) /\ key[r]
  /\ Goes(r, "arrive", "incr")
  /\ Window(r)
  /\ UNCHANGED <<now, request, status, entered, limiter, stats, measured, faults>>

\* BurstBounded and RefusalsEarned: the limit is the last count that passes.
WithinOneMore(n, bucket) == n <= Limit(bucket) + 1

WithinOneLess(n, bucket) == n < Limit(bucket)

Within(n, bucket) == n <= Limit(bucket)

\* LeakOnlyIfInterrupted: the first count is the one that creates the key.
NeedsExpirySecond(n) == n = 2

NeedsExpiry(n) == n = 1

\* INCR answered n.  The first of a window is within every limit.
Decide(r, n) ==
  /\ pc[r] = "incr"
  /\ \/ /\ NeedsExpiry(n) \/ Within(n, Bucket(r))
        /\ Goes(r, "incr", IF NeedsExpiry(n) THEN "expire" ELSE "serve")
        /\ admitted' = Add(admitted, r, 1)
        /\ UNCHANGED status
     \/ /\ ~NeedsExpiry(n) /\ ~Within(n, Bucket(r))
        /\ Goes(r, "incr", "done")
        /\ Says(r, 429)
        /\ UNCHANGED admitted

Incr(r) ==
  /\ Decide(r, Counter(r) + 1)
  /\ count' = Add(count, r, 1)
  /\ UNCHANGED <<now, request, minute, entered, expiry, wasted, interrupted, stats,
                 measured, faults>>

\* A window nobody will set an expiry for, if this INCR created its key.
Interrupts(r) ==
  interrupted' = IF Counter(r) = 0 THEN interrupted \cup {<<Bucket(r), minute[r]>>}
                 ELSE interrupted

\* go-redis repeats an INCR whose reply it lost.
IncrTwice(r) ==
  /\ Fault
  /\ Decide(r, Counter(r) + 2)
  /\ count' = Add(count, r, 2)
  /\ wasted' = Add(wasted, r, 1)
  /\ Interrupts(r)
  /\ UNCHANGED <<now, request, minute, entered, expiry, stats, measured>>

\* An error of INCR, which Redis may have executed.
IncrFails(r) ==
  /\ Fault
  /\ Goes(r, "incr", "done")
  /\ Says(r, 503)
  /\ \/ UNCHANGED <<count, wasted, interrupted>>
     \/ /\ count' = Add(count, r, 1)
        /\ wasted' = Add(wasted, r, 1)
        /\ Interrupts(r)
  /\ UNCHANGED <<now, request, minute, entered, expiry, admitted, stats, measured>>

Expire(r) ==
  /\ Goes(r, "expire", "serve")
  /\ expiry' = [expiry EXCEPT ![Bucket(r)][minute[r]] = now + TTL]
  /\ UNCHANGED <<now, request, minute, status, entered, count, admitted, wasted,
                 interrupted, stats, measured, faults>>

\* Its error is ignored.
ExpireLost(r) ==
  /\ Fault
  /\ Goes(r, "expire", "serve")
  /\ interrupted' = interrupted \cup {<<Bucket(r), minute[r]>>}
  /\ UNCHANGED <<now, request, minute, status, entered, count, expiry, admitted, wasted,
                 stats, measured>>

----------------------------------------------------------------------------
\* The handler and its metrics

Serve(r) ==
  /\ \/ Counted(route[r]) /\ Goes(r, "serve", "record") /\ measured' = measured \cup {r}
     \/ ~Counted(route[r]) /\ Goes(r, "serve", "done") /\ UNCHANGED measured
  /\ \E code \in AnswersOf(route[r]) : Says(r, code)
  /\ entered' = [entered EXCEPT ![r] = now]
  /\ UNCHANGED <<now, request, minute, limiter, stats, faults>>

\* RecordRequest, under its mutex.
RecordRequest(r) ==
  /\ Goes(r, "record", "done")
  /\ stats' = [total  |-> stats.total + 1,
               errors |-> stats.errors + (IF IsError(status[r]) THEN 1 ELSE 0)]
  /\ UNCHANGED <<now, request, minute, status, entered, limiter, measured, faults>>

InFlight == {r \in Requests : pc[r] \notin {"arrive", "done"}}

\* The process dies with the requests it has, and counts from zero.
Crash ==
  /\ Fault
  /\ pc' = [r \in Requests |-> IF r \in InFlight THEN "done" ELSE pc[r]]
  /\ interrupted' = interrupted \cup
       {<<Bucket(r), minute[r]>> : r \in {q \in InFlight : pc[q] = "expire"}}
  /\ stats' = Zero
  /\ measured' = {}
  /\ UNCHANGED <<now, request, minute, status, entered, count, expiry, admitted, wasted>>

----------------------------------------------------------------------------
\* The clock and Redis

Tick ==
  /\ now < MaxMinute
  /\ \A r \in Requests :
       pc[r] \in {"incr", "expire"} \/ (pc[r] = "serve" /\ Guarded(route[r]))
         => now < minute[r] + MaxLag
  /\ now' = now + 1
  /\ UNCHANGED <<request, pc, minute, status, entered, limiter, stats, measured, faults>>

\* AtMostLimitPerWindow: a key must outlive its minute by what a request may lag.
DueNextMinute(b, m) == expiry[b][m] # None /\ expiry[b][m] <= now + 1

Due(b, m) == expiry[b][m] # None /\ expiry[b][m] <= now

Evict(b, m) ==
  /\ Due(b, m)
  /\ count' = [count EXCEPT ![b][m] = 0]
  /\ expiry' = [expiry EXCEPT ![b][m] = None]
  /\ UNCHANGED <<now, request, pc, minute, status, entered, admitted, wasted,
                 interrupted, stats, measured, faults>>

Next ==
  \/ \E r \in Requests :
       \/ Pass(r) \/ Unauthorized(r) \/ Allow(r)
       \/ Incr(r) \/ IncrTwice(r) \/ IncrFails(r) \/ Expire(r) \/ ExpireLost(r)
       \/ Serve(r) \/ RecordRequest(r)
  \/ Crash \/ Tick
  \/ \E b \in Buckets, m \in Minutes : Evict(b, m)

Spec == Init /\ [][Next]_vars

----------------------------------------------------------------------------
\* Every variable keeps its type; a request is limited by the minute it came in.
TypeOK ==
  /\ now \in Minutes
  /\ route \in [Requests -> Routes] /\ key \in [Requests -> BOOLEAN]
  /\ pc \in [Requests -> {"arrive", "incr", "expire", "serve", "record", "done"}]
  /\ minute \in [Requests -> Minutes \cup {None}]
  /\ status \in [Requests -> Status \cup {None}]
  /\ entered \in [Requests -> Minutes \cup {None}]
  /\ count \in [Buckets -> [Minutes -> Nat]]
  /\ expiry \in [Buckets -> [Minutes -> Nat \cup {None}]]
  /\ admitted \in [Buckets -> [Minutes -> Nat]]
  /\ wasted \in [Buckets -> [Minutes -> Nat]]
  /\ interrupted \subseteq Buckets \X Minutes
  /\ stats \in [total : Nat, errors : Nat]
  /\ measured \subseteq Requests
  /\ faults \in 0 .. MaxFaults

\* No window lets more than its limit through, although its counter expires
\* while requests of its minute may still be on their way.
AtMostLimitPerWindow ==
  \A b \in Buckets, m \in Minutes : admitted[b][m] <= Limit(b)

EnteredIn(b, m) ==
  {r \in Requests : minute[r] # None /\ Bucket(r) = b /\ entered[r] = m}

\* Fixed windows let a burst through around the turn of a minute: in one minute
\* of the clock the handlers may see more than the limit, but no more than its
\* own window and the requests that lag behind the one before.
BurstBounded ==
  \A b \in Buckets, m \in Minutes : Cardinality(EnteredIn(b, m)) <= (1 + MaxLag) * Limit(b)

\* A refused client met a limit that others had used up, or that INCRs whose
\* reply was lost had.
RefusalsEarned ==
  \A r \in Requests : status[r] = 429 =>
    admitted[Bucket(r)][minute[r]] + wasted[Bucket(r)][minute[r]] >= Limit(Bucket(r))

\* A counter that never expires was left by a failure between INCR and EXPIRE.
LeakOnlyIfInterrupted ==
  \A b \in Buckets, m \in Minutes :
    count[b][m] > 0 /\ expiry[b][m] = None =>
      \/ <<b, m>> \in interrupted
      \/ \E r \in Requests : pc[r] = "expire" /\ Bucket(r) = b /\ minute[r] = m

\* The error rate of the dashboard is right about the handlers: of the answers
\* they gave since the start, all are counted but those of requests in flight.
MetricsAccount ==
  LET told == {r \in measured : pc[r] = "done"}
  IN /\ stats.total = Cardinality(told)
     /\ stats.errors = Cardinality({r \in told : status[r] >= 400})
===============================================================================
