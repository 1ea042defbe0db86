----------------------------- MODULE GatewayProofs -----------------------------
(***************************************************************************)
(* Proofs about Gateway: for any number of requests, any limits and any    *)
(* number of failures, what MCGateway checks on an instance.               *)
(***************************************************************************)
EXTENDS Gateway, FiniteSetTheorems, TLAPS

\* The life of a request, and the minutes it spends on it.
Journey(r) ==
  /\ pc[r] = "arrive" => minute[r] = None
  /\ pc[r] \in {"arrive", "incr", "expire", "serve"} => status[r] = None /\ entered[r] = None
  /\ pc[r] \in {"incr", "expire"} => Guarded(route[r])
  /\ pc[r] \in {"incr", "expire"} \/ (pc[r] = "serve" /\ Guarded(route[r])) =>
       minute[r] # None /\ now <= minute[r] + MaxLag
  /\ minute[r] # None => Guarded(route[r]) /\ minute[r] <= now
  /\ minute[r] # None /\ entered[r] # None =>
       minute[r] <= entered[r] /\ entered[r] <= minute[r] + MaxLag
  /\ pc[r] = "record" => r \in measured
  /\ r \in measured => pc[r] \in {"record", "done"}
  /\ status[r] = 429 => pc[r] = "done" /\ minute[r] # None

\* The counter of a window: it expires after the last request of its minute
\* has counted, and until then it has counted all that it let through.  What
\* it has counted beyond that, it has refused or lost.
Count(b, m) ==
  /\ expiry[b][m] # None => m + TTL <= expiry[b][m]
  /\ now <= m + MaxLag => admitted[b][m] <= count[b][m]
  /\ admitted[b][m] <= Limit(b)
  /\ \/ count[b][m] <= admitted[b][m] + wasted[b][m]
     \/ Limit(b) <= admitted[b][m] + wasted[b][m]

\* The requests that a window let through and that have not died since.
Passed(b, m) ==
  {r \in Requests : /\ Bucket(r) = b /\ minute[r] = m
                    /\ pc[r] \in {"expire", "serve"} \/ entered[r] # None}

Journeys == \A r \in Requests : Journey(r)
Counts   == \A b \in Buckets, m \in Minutes : Count(b, m)
Passes   == \A b \in Buckets, m \in Minutes : Cardinality(Passed(b, m)) <= admitted[b][m]

IInv ==
  TypeOK /\ Journeys /\ Counts /\ Passes /\ RefusalsEarned /\ LeakOnlyIfInterrupted
         /\ MetricsAccount

----------------------------------------------------------------------------
\* Every window lets at least one request through.
LEMMA Limits == \A b \in Buckets : Limit(b) \in Nat /\ 1 <= Limit(b)
  BY GatewayAssumption DEF Limit, Buckets

\* No handler answers 429.
Answers429(f) == \A o \in DOMAIN f : f[o] \in Status \ {429}

LEMMA HandlersAnswer ==
  ASSUME NEW q \in Routes, NEW code \in AnswersOf(q)
  PROVE  code \in Status /\ code # 429
<1>1. Answers429(CreateLead) /\ Answers429(ListLeads) /\ Answers429(GetLead)
  BY DEF Answers429, CreateLead, ListLeads, GetLead, Status
<1>2. Answers429(UpdateLeadStatus) /\ Answers429(UpsertLeadEmbedding) /\ Answers429(SimilarLeads)
  BY DEF Answers429, UpdateLeadStatus, UpsertLeadEmbedding, SimilarLeads, Status
<1>3. Answers429(ScoreLead) /\ Answers429(GetLatestLeadScore) /\ Answers429(ListLeadScores)
  BY DEF Answers429, ScoreLead, GetLatestLeadScore, ListLeadScores, Status
<1>4. Answers429(GetJob) /\ Answers429(Healthz) /\ Answers429(Metrics)
  BY DEF Answers429, GetJob, Healthz, Metrics, Status
<1>5. Answers429(Socket) /\ Answers429(Static)
  BY DEF Answers429, Socket, Static, Status
<1>6. q \in DOMAIN Answers
  BY GatewayAssumption DEF Route
<1>7. Answers429(Answers[q])
  BY <1>1, <1>2, <1>3, <1>4, <1>5, <1>6 DEF Answers
<1>8. PICK o \in DOMAIN Answers[q] : code = Answers[q][o]
  BY DEF AnswersOf
<1>. QED
  BY <1>7, <1>8 DEF Answers429

\* What Add changes, and what it leaves alone.
Added(h, g, r, n) ==
  \A b \in Buckets, m \in Minutes :
    g[b][m] = IF b = Bucket(r) /\ m = minute[r] THEN h[b][m] + n ELSE h[b][m]

LEMMA AddAt ==
  ASSUME TypeOK, NEW h \in [Buckets -> [Minutes -> Nat]], NEW r \in Requests,
         minute[r] # None, NEW n \in Nat
  PROVE  /\ Add(h, r, n) \in [Buckets -> [Minutes -> Nat]]
         /\ Added(h, Add(h, r, n), r, n)
<1>1. Bucket(r) \in Buckets /\ minute[r] \in Minutes
  BY DEF TypeOK, Bucket, Buckets
<1>. QED
  BY <1>1 DEF Add, Added

LEMMA BucketsKept ==
  ASSUME UNCHANGED request
  PROVE  \A r \in Requests : Bucket(r)' = Bucket(r)
  BY DEF request, Bucket

LEMMA BucketType == \A r \in Requests : Bucket(r) \in Buckets
  BY DEF Bucket, Buckets

----------------------------------------------------------------------------
\* Type correctness

LEMMA InitType == Init => TypeOK
  BY GatewayAssumption DEF Init, TypeOK, PerWindow, Zero, Minutes, Buckets

LEMMA DecideType ==
  ASSUME TypeOK, NEW r \in Requests, NEW n, Decide(r, n), Journeys, UNCHANGED route
  PROVE  /\ pc' \in [Requests -> {"arrive", "incr", "expire", "serve", "record", "done"}]
         /\ status' \in [Requests -> Status \cup {None}]
         /\ admitted' \in [Buckets -> [Minutes -> Nat]]
<1>1. minute[r] # None
  BY DEF Decide, Journeys, Journey
<1>2. Add(admitted, r, 1) \in [Buckets -> [Minutes -> Nat]]
  BY <1>1, AddAt DEF TypeOK
<1>3. admitted' \in [Buckets -> [Minutes -> Nat]]
  BY <1>2 DEF Decide, TypeOK
<1>4. pc' \in [Requests -> {"arrive", "incr", "expire", "serve", "record", "done"}]
  BY DEF Decide, Goes, TypeOK
<1>5. status' \in [Requests -> Status \cup {None}]
  BY DEF Decide, Says, TypeOK, Status
<1>. QED
  BY <1>3, <1>4, <1>5

LEMMA InterruptsType ==
  ASSUME TypeOK, NEW r \in Requests, minute[r] # None, Interrupts(r)
  PROVE  interrupted' \subseteq Buckets \X Minutes
<1>1. Bucket(r) \in Buckets /\ minute[r] \in Minutes
  BY BucketType DEF TypeOK
<1>. QED
  BY <1>1 DEF Interrupts, TypeOK

LEMMA NextType == TypeOK /\ Journeys /\ [Next]_vars => TypeOK'
<1>. SUFFICES ASSUME TypeOK, Journeys, [Next]_vars
              PROVE  TypeOK'
  OBVIOUS
<1>. USE GatewayAssumption
<1>1. ASSUME NEW r \in Requests, Pass(r)
      PROVE  TypeOK'
  BY <1>1 DEF Pass, Goes, TypeOK, request, limiter
<1>2. ASSUME NEW r \in Requests, Unauthorized(r)
      PROVE  TypeOK'
  BY <1>2 DEF Unauthorized, Goes, Says, TypeOK, request, limiter, Status
<1>3. ASSUME NEW r \in Requests, Allow(r)
      PROVE  TypeOK'
  BY <1>3 DEF Allow, Window, Goes, TypeOK, request, limiter
<1>4. ASSUME NEW r \in Requests, Incr(r)
      PROVE  TypeOK'
  <2>1. Decide(r, Counter(r) + 1) /\ UNCHANGED route
    BY <1>4 DEF Incr, request
  <2>2. minute[r] # None
    BY <2>1 DEF Decide, Journeys, Journey
  <2>3. count' \in [Buckets -> [Minutes -> Nat]]
    BY <1>4, <2>2, AddAt DEF Incr, TypeOK
  <2>. QED
    BY <1>4, <2>1, <2>3, DecideType DEF Incr, TypeOK, request
<1>5. ASSUME NEW r \in Requests, IncrTwice(r)
      PROVE  TypeOK'
  <2>1. Decide(r, Counter(r) + 2) /\ Interrupts(r) /\ UNCHANGED route
    BY <1>5 DEF IncrTwice, request
  <2>2. minute[r] # None
    BY <2>1 DEF Decide, Journeys, Journey
  <2>3. count' \in [Buckets -> [Minutes -> Nat]] /\ wasted' \in [Buckets -> [Minutes -> Nat]]
    BY <1>5, <2>2, AddAt DEF IncrTwice, TypeOK
  <2>4. interrupted' \subseteq Buckets \X Minutes
    BY <2>1, <2>2, InterruptsType
  <2>. QED
    BY <1>5, <2>1, <2>3, <2>4, DecideType DEF IncrTwice, Fault, TypeOK, request
<1>6. ASSUME NEW r \in Requests, IncrFails(r)
      PROVE  TypeOK'
  <2>1. pc[r] = "incr" /\ minute[r] # None
    BY <1>6 DEF IncrFails, Goes, Journeys, Journey
  <2>2. Add(count, r, 1) \in [Buckets -> [Minutes -> Nat]]
        /\ Add(wasted, r, 1) \in [Buckets -> [Minutes -> Nat]]
    BY <2>1, AddAt DEF TypeOK
  <2>3. /\ count' \in [Buckets -> [Minutes -> Nat]] /\ wasted' \in [Buckets -> [Minutes -> Nat]]
        /\ interrupted' \subseteq Buckets \X Minutes
    BY <1>6, <2>1, <2>2, InterruptsType DEF IncrFails, TypeOK
  <2>. QED
    BY <1>6, <2>3 DEF IncrFails, Goes, Says, Fault, TypeOK, Status, request
<1>7. ASSUME NEW r \in Requests, Expire(r)
      PROVE  TypeOK'
  <2>1. Bucket(r) \in Buckets /\ now + TTL \in Nat
    BY BucketType DEF TypeOK, Minutes, TTL
  <2>2. expiry' \in [Buckets -> [Minutes -> Nat \cup {None}]]
    BY <1>7, <2>1 DEF Expire, TypeOK
  <2>. QED
    BY <1>7, <2>2 DEF Expire, Goes, TypeOK, request
<1>8. ASSUME NEW r \in Requests, ExpireLost(r)
      PROVE  TypeOK'
  <2>1. Bucket(r) \in Buckets /\ minute[r] \in Minutes
    BY <1>8, BucketType DEF ExpireLost, Goes, Journeys, Journey, TypeOK
  <2>. QED
    BY <1>8, <2>1 DEF ExpireLost, Goes, Fault, TypeOK, request
<1>9. ASSUME NEW r \in Requests, Serve(r)
      PROVE  TypeOK'
  <2>1. PICK code \in AnswersOf(route[r]) : Says(r, code)
    BY <1>9 DEF Serve
  <2>2. code \in Status
    BY <2>1, HandlersAnswer DEF TypeOK
  <2>3. status' \in [Requests -> Status \cup {None}]
    BY <2>1, <2>2 DEF Says, TypeOK
  <2>. QED
    BY <1>9, <2>3 DEF Serve, Goes, TypeOK, request, limiter
<1>10. ASSUME NEW r \in Requests, RecordRequest(r)
       PROVE  TypeOK'
  BY <1>10 DEF RecordRequest, Goes, TypeOK, request, limiter
<1>11. ASSUME Crash
       PROVE  TypeOK'
  <2>1. \A r \in Requests : pc[r] = "expire" =>
          <<Bucket(r), minute[r]>> \in Buckets \X Minutes
    BY BucketType DEF Journeys, Journey, TypeOK
  <2>2. interrupted' \subseteq Buckets \X Minutes
    BY <1>11, <2>1 DEF Crash, InFlight, TypeOK
  <2>. QED
    BY <1>11, <2>2 DEF Crash, Fault, Zero, TypeOK, request
<1>12. ASSUME Tick
       PROVE  TypeOK'
  <2>1. now' \in Minutes
    BY <1>12 DEF Tick, TypeOK, Minutes
  <2>. QED
    BY <1>12, <2>1 DEF Tick, TypeOK, request, limiter
<1>13. ASSUME NEW b \in Buckets, NEW m \in Minutes, Evict(b, m)
       PROVE  TypeOK'
  BY <1>13 DEF Evict, TypeOK, request
<1>14. CASE UNCHANGED vars
  BY <1>14 DEF vars, TypeOK, request, limiter
<1>. QED
  BY <1>1, <1>2, <1>3, <1>4, <1>5, <1>6, <1>7, <1>8, <1>9, <1>10, <1>11, <1>12, <1>13,
     <1>14 DEF Next

----------------------------------------------------------------------------
\* The journeys of the requests

LEMMA InitJourneys == Init => Journeys
  BY GatewayAssumption DEF Init, Journeys, Journey

LEMMA DecideJourneys ==
  ASSUME TypeOK, Journeys, NEW r \in Requests, NEW n, Decide(r, n),
         UNCHANGED <<now, request, minute, entered, measured>>
  PROVE  Journeys'
<1>. SUFFICES ASSUME NEW q \in Requests
              PROVE  Journey(q)'
  BY DEF Journeys
<1>1. Journey(q) /\ Journey(r)
  BY DEF Journeys
<1>2. pc[r] = "incr" /\ minute[r] # None
  BY <1>1 DEF Decide, Journey
<1>3. /\ pc' = [pc EXCEPT ![r] = pc'[r]] /\ pc'[r] \in {"expire", "serve", "done"}
      /\ status' = [status EXCEPT ![r] = status'[r]]
      /\ status'[r] = status[r] \/ pc'[r] = "done"
  BY DEF Decide, Goes, Says, TypeOK
<1>. QED
  BY <1>1, <1>2, <1>3 DEF Journey, TypeOK, request

LEMMA NextJourneys == TypeOK /\ Journeys /\ [Next]_vars => Journeys'
<1>. SUFFICES ASSUME TypeOK, Journeys, [Next]_vars, NEW q \in Requests
              PROVE  Journey(q)'
  BY DEF Journeys
<1>. USE GatewayAssumption
<1>0. Journey(q)
  BY DEF Journeys
<1>1. ASSUME NEW r \in Requests, Pass(r)
      PROVE  Journey(q)'
  BY <1>0, <1>1 DEF Pass, Goes, TypeOK, Journey, request
<1>2. ASSUME NEW r \in Requests, Unauthorized(r)
      PROVE  Journey(q)'
  BY <1>0, <1>2 DEF Unauthorized, Goes, Says, TypeOK, Journey, request
<1>3. ASSUME NEW r \in Requests, Allow(r)
      PROVE  Journey(q)'
  BY <1>0, <1>3 DEF Allow, Window, Goes, TypeOK, Journey, request, Minutes
<1>4. ASSUME NEW r \in Requests, Incr(r)
      PROVE  Journey(q)'
  BY <1>4, DecideJourneys DEF Incr, Journeys
<1>5. ASSUME NEW r \in Requests, IncrTwice(r)
      PROVE  Journey(q)'
  BY <1>5, DecideJourneys DEF IncrTwice, Journeys
<1>6. ASSUME NEW r \in Requests, IncrFails(r)
      PROVE  Journey(q)'
  <2>1. Goes(r, "incr", "done") /\ Says(r, 503) /\ UNCHANGED <<now, request, minute, entered, measured>>
    BY <1>6 DEF IncrFails
  <2>. QED
    BY <1>0, <2>1 DEF Goes, Says, TypeOK, Journey, request
<1>7. ASSUME NEW r \in Requests, Expire(r) \/ ExpireLost(r)
      PROVE  Journey(q)'
  <2>1. Goes(r, "expire", "serve") /\ UNCHANGED <<now, request, minute, status, entered, measured>>
    BY <1>7 DEF Expire, ExpireLost
  <2>. QED
    BY <1>0, <2>1 DEF Goes, TypeOK, Journey, request
<1>9. ASSUME NEW r \in Requests, Serve(r)
      PROVE  Journey(q)'
  <2>1. PICK code \in AnswersOf(route[r]) : Says(r, code)
    BY <1>9 DEF Serve
  <2>2. code # 429
    BY HandlersAnswer DEF TypeOK
  <2>3. UNCHANGED <<now, route, minute>> /\ pc[r] = "serve"
    BY <1>9 DEF Serve, Goes, request
  <2>4. CASE q # r
    BY <1>0, <1>9, <2>1, <2>3, <2>4 DEF Serve, Goes, Says, TypeOK, Journey
  <2>5. CASE q = r
    <3>1. /\ \/ Goes(q, "serve", "record") /\ measured' = measured \cup {q}
             \/ Goes(q, "serve", "done") /\ measured' = measured
          /\ entered' = [entered EXCEPT ![q] = now]
      BY <1>9, <2>5 DEF Serve
    <3>2. /\ pc \in [Requests -> {"arrive", "incr", "expire", "serve", "record", "done"}]
          /\ entered \in [Requests -> Minutes \cup {None}]
          /\ status \in [Requests -> Status \cup {None}]
      BY DEF TypeOK
    <3>3. (pc'[q] = "record" /\ q \in measured') \/ (pc'[q] = "done" /\ measured' = measured)
      BY <3>1, <3>2 DEF Goes
    <3>4. entered'[q] = now
      BY <3>1, <3>2
    <3>5. status'[q] # 429
      BY <2>1, <2>2, <2>5, <3>2 DEF Says
    <3>6. pc[q] = "serve" /\ UNCHANGED <<now, route, minute>> /\ q \notin measured
      BY <1>0, <2>3, <2>5 DEF Journey
    <3>7. minute[q] # None => minute[q] <= now /\ now <= minute[q] + MaxLag /\ Guarded(route[q])
      BY <1>0, <3>6 DEF Journey
    <3>. QED
      BY <3>3, <3>4, <3>5, <3>6, <3>7 DEF Journey
  <2>. QED
    BY <2>4, <2>5
<1>10. ASSUME NEW r \in Requests, RecordRequest(r)
       PROVE  Journey(q)'
  BY <1>0, <1>10 DEF RecordRequest, Goes, TypeOK, Journey, request
<1>11. ASSUME Crash
       PROVE  Journey(q)'
  BY <1>0, <1>11 DEF Crash, InFlight, TypeOK, Journey, request
<1>12. ASSUME Tick
       PROVE  Journey(q)'
  <2>1. /\ now' = now + 1 /\ now \in Nat /\ MaxLag \in Nat
        /\ minute[q] # None => minute[q] \in Nat
        /\ UNCHANGED <<route, pc, minute, status, entered, measured>>
    BY <1>12 DEF Tick, TypeOK, Minutes, request
  <2>2. pc[q] \in {"incr", "expire"} \/ (pc[q] = "serve" /\ Guarded(route[q])) =>
          now < minute[q] + MaxLag
    BY <1>12 DEF Tick
  <2>. QED
    BY <1>0, <2>1, <2>2 DEF Journey
<1>13. ASSUME NEW b \in Buckets, NEW m \in Minutes, Evict(b, m)
       PROVE  Journey(q)'
  BY <1>0, <1>13 DEF Evict, Journey, request
<1>14. CASE UNCHANGED vars
  BY <1>0, <1>14 DEF vars, Journey, request
<1>. QED
  BY <1>1, <1>2, <1>3, <1>4, <1>5, <1>6, <1>7, <1>9, <1>10, <1>11, <1>12, <1>13,
     <1>14 DEF Next

----------------------------------------------------------------------------
\* The counters of the windows

CountsType ==
  /\ now \in Nat /\ MaxLag \in Nat
  /\ \A b \in Buckets, m \in Minutes :
       /\ m \in Nat /\ Limit(b) \in Nat /\ 1 <= Limit(b)
       /\ count[b][m] \in Nat /\ admitted[b][m] \in Nat /\ wasted[b][m] \in Nat
       /\ expiry[b][m] \in Nat \cup {None}

LEMMA CountsTyped == TypeOK => CountsType
  BY GatewayAssumption, Limits DEF TypeOK, CountsType, Minutes

LEMMA InitCounts == Init => Counts
  BY GatewayAssumption, Limits DEF Init, PerWindow, Counts, Count, Minutes

\* An INCR that was executed i times, and answered once.
LEMMA DecideCounts ==
  ASSUME TypeOK, Journeys, Counts, NEW r \in Requests, NEW i \in {1, 2},
         Decide(r, Counter(r) + i), count' = Add(count, r, i),
         wasted' = (IF i = 1 THEN wasted ELSE Add(wasted, r, 1)),
         UNCHANGED <<now, expiry>>
  PROVE  Counts'
<1>. SUFFICES ASSUME NEW b \in Buckets, NEW m \in Minutes
              PROVE  Count(b, m)'
  BY DEF Counts
<1>1. Count(b, m) /\ CountsType
  BY CountsTyped DEF Counts
<1>2. pc[r] = "incr" /\ minute[r] # None /\ now <= minute[r] + MaxLag
  BY DEF Decide, Journeys, Journey
<1>3. /\ count \in [Buckets -> [Minutes -> Nat]] /\ wasted \in [Buckets -> [Minutes -> Nat]]
      /\ admitted \in [Buckets -> [Minutes -> Nat]]
  BY DEF TypeOK
<1>4. i \in Nat /\ 1 \in Nat
  OBVIOUS
<1>5. Added(count, count', r, i)
  BY <1>2, <1>3, <1>4, AddAt
<1>6. Added(wasted, Add(wasted, r, 1), r, 1)
  BY <1>2, <1>3, <1>4, AddAt
<1>7. Added(admitted, Add(admitted, r, 1), r, 1)
  BY <1>2, <1>3, <1>4, AddAt
<1>8. CASE b = Bucket(r) /\ m = minute[r]
  <2>1. count'[b][m] = count[b][m] + i
    BY <1>5, <1>8 DEF Added
  <2>2. wasted'[b][m] = wasted[b][m] + (i - 1)
    <3>1. Add(wasted, r, 1)[b][m] = wasted[b][m] + 1
      BY <1>6, <1>8 DEF Added
    <3>. QED
      BY <1>1, <3>1 DEF CountsType
  <2>3. \/ /\ admitted'[b][m] = admitted[b][m] + 1
           /\ count[b][m] + i = 1 \/ count[b][m] + i <= Limit(b)
        \/ admitted'[b][m] = admitted[b][m] /\ ~(count[b][m] + i <= Limit(b))
    <3>1. Add(admitted, r, 1)[b][m] = admitted[b][m] + 1
      BY <1>7, <1>8 DEF Added
    <3>. QED
      BY <1>8, <3>1 DEF Decide, NeedsExpiry, Within, Counter
  <2>4. admitted[b][m] <= count[b][m]
    BY <1>1, <1>2, <1>8 DEF Count
  <2>. QED
    BY <1>1, <2>1, <2>2, <2>3, <2>4 DEF Count, CountsType
<1>9. CASE ~(b = Bucket(r) /\ m = minute[r])
  <2>1. count'[b][m] = count[b][m]
    BY <1>5, <1>9 DEF Added
  <2>2. wasted'[b][m] = wasted[b][m]
    BY <1>6, <1>9 DEF Added
  <2>3. admitted'[b][m] = admitted[b][m]
    <3>1. Add(admitted, r, 1)[b][m] = admitted[b][m]
      BY <1>7, <1>9 DEF Added
    <3>. QED
      BY <3>1 DEF Decide
  <2>. QED
    BY <1>1, <2>1, <2>2, <2>3 DEF Count
<1>. QED
  BY <1>8, <1>9

LEMMA FailCounts ==
  ASSUME TypeOK, Journeys, Counts, NEW r \in Requests, IncrFails(r)
  PROVE  Counts'
<1>. SUFFICES ASSUME NEW b \in Buckets, NEW m \in Minutes
              PROVE  Count(b, m)'
  BY DEF Counts
<1>1. Count(b, m) /\ CountsType
  BY CountsTyped DEF Counts
<1>2. minute[r] # None
  BY DEF IncrFails, Goes, Journeys, Journey
<1>3. count \in [Buckets -> [Minutes -> Nat]] /\ wasted \in [Buckets -> [Minutes -> Nat]]
  BY DEF TypeOK
<1>4. UNCHANGED <<now, expiry, admitted>>
  BY DEF IncrFails
<1>5. CASE UNCHANGED <<count, wasted>>
  BY <1>1, <1>4, <1>5 DEF Count
<1>6. CASE count' = Add(count, r, 1) /\ wasted' = Add(wasted, r, 1)
  <2>1. Added(count, count', r, 1)
    BY <1>2, <1>3, <1>6, AddAt
  <2>2. Added(wasted, wasted', r, 1)
    BY <1>2, <1>3, <1>6, AddAt
  <2>. QED
    BY <1>1, <1>4, <2>1, <2>2 DEF Count, CountsType, Added
<1>. QED
  BY <1>5, <1>6 DEF IncrFails

LEMMA NextCounts == TypeOK /\ Journeys /\ Counts /\ [Next]_vars => Counts'
<1>. SUFFICES ASSUME TypeOK, Journeys, Counts, [Next]_vars
              PROVE  Counts'
  OBVIOUS
<1>0. ASSUME UNCHANGED <<now, count, expiry, admitted, wasted>>
      PROVE  Counts'
  BY <1>0 DEF Counts, Count
<1>1. ASSUME NEW r \in Requests, Pass(r) \/ Unauthorized(r) \/ Allow(r)
      PROVE  Counts'
  BY <1>0, <1>1 DEF Pass, Unauthorized, Allow, limiter
<1>2. ASSUME NEW r \in Requests, Incr(r)
      PROVE  Counts'
  BY <1>2, DecideCounts DEF Incr
<1>3. ASSUME NEW r \in Requests, IncrTwice(r)
      PROVE  Counts'
  BY <1>3, DecideCounts DEF IncrTwice
<1>4. ASSUME NEW r \in Requests, Expire(r)
      PROVE  Counts'
  <2>. SUFFICES ASSUME NEW b \in Buckets, NEW m \in Minutes
                PROVE  Count(b, m)'
    BY DEF Counts
  <2>1. Count(b, m) /\ CountsType
    BY CountsTyped DEF Counts
  <2>2. minute[r] \in Minutes /\ minute[r] <= now
    BY <1>4 DEF Expire, Goes, Journeys, Journey, TypeOK
  <2>3. UNCHANGED <<now, count, admitted, wasted>>
    BY <1>4 DEF Expire
  <2>4. expiry'[b][m] = IF b = Bucket(r) /\ m = minute[r] THEN now + TTL ELSE expiry[b][m]
    BY <1>4, <2>2, BucketType DEF Expire, TypeOK
  <2>. QED
    BY <2>1, <2>2, <2>3, <2>4 DEF Count, CountsType, TTL
<1>5. ASSUME NEW r \in Requests, ExpireLost(r) \/ Serve(r) \/ RecordRequest(r)
      PROVE  Counts'
  BY <1>0, <1>5 DEF ExpireLost, Serve, RecordRequest, limiter
<1>6. CASE Crash
  BY <1>0, <1>6 DEF Crash
<1>7. CASE Tick
  <2>. SUFFICES ASSUME NEW b \in Buckets, NEW m \in Minutes
                PROVE  Count(b, m)'
    BY DEF Counts
  <2>1. Count(b, m) /\ CountsType
    BY CountsTyped DEF Counts
  <2>2. now' = now + 1 /\ UNCHANGED <<count, expiry, admitted, wasted>>
    BY <1>7 DEF Tick, limiter
  <2>. QED
    BY <2>1, <2>2 DEF Count, CountsType
<1>8. ASSUME NEW d \in Buckets, NEW k \in Minutes, Evict(d, k)
      PROVE  Counts'
  <2>. SUFFICES ASSUME NEW b \in Buckets, NEW m \in Minutes
                PROVE  Count(b, m)'
    BY DEF Counts
  <2>1. Count(b, m) /\ Count(d, k) /\ CountsType
    BY CountsTyped DEF Counts
  <2>2. UNCHANGED <<now, admitted, wasted>>
    BY <1>8 DEF Evict
  <2>3. /\ expiry'[b][m] = IF b = d /\ m = k THEN None ELSE expiry[b][m]
        /\ count'[b][m] = IF b = d /\ m = k THEN 0 ELSE count[b][m]
    BY <1>8 DEF Evict, TypeOK
  <2>4. now > k + MaxLag
    BY <1>8, <2>1, GatewayAssumption DEF Evict, Due, Count, CountsType, TTL
  <2>. QED
    BY <2>1, <2>2, <2>3, <2>4 DEF Count, CountsType
<1>9. CASE UNCHANGED vars
  BY <1>0, <1>9 DEF vars, limiter
<1>. QED
  BY <1>1, <1>2, <1>3, <1>4, <1>5, <1>6, <1>7, <1>8, <1>9, FailCounts DEF Next

----------------------------------------------------------------------------
\* The refused clients

\* No step takes an admission or a lost INCR back.
Grows ==
  \A b \in Buckets, m \in Minutes :
    admitted[b][m] <= admitted'[b][m] /\ wasted[b][m] <= wasted'[b][m]

LEMMA NextGrows == TypeOK /\ Journeys /\ [Next]_vars => Grows
<1>. SUFFICES ASSUME TypeOK, Journeys, [Next]_vars
              PROVE  Grows
  OBVIOUS
<1>0. ASSUME UNCHANGED <<admitted, wasted>>
      PROVE  Grows
  BY <1>0, CountsTyped DEF Grows, CountsType
<1>1. ASSUME NEW r \in Requests, Pass(r) \/ Unauthorized(r) \/ Allow(r)
      PROVE  Grows
  BY <1>0, <1>1 DEF Pass, Unauthorized, Allow, limiter
<1>2. ASSUME NEW r \in Requests, Incr(r) \/ IncrTwice(r) \/ IncrFails(r)
      PROVE  Grows
  <2>1. minute[r] # None
    BY <1>2 DEF Incr, IncrTwice, IncrFails, Decide, Goes, Journeys, Journey
  <2>2. /\ admitted \in [Buckets -> [Minutes -> Nat]]
        /\ wasted \in [Buckets -> [Minutes -> Nat]]
    BY DEF TypeOK
  <2>3. Added(admitted, Add(admitted, r, 1), r, 1) /\ Added(wasted, Add(wasted, r, 1), r, 1)
    BY <2>1, <2>2, AddAt
  <2>4. admitted' \in {admitted, Add(admitted, r, 1)}
    BY <1>2 DEF Incr, IncrTwice, IncrFails, Decide
  <2>5. wasted' \in {wasted, Add(wasted, r, 1)}
    BY <1>2 DEF Incr, IncrTwice, IncrFails
  <2>6. \A b \in Buckets, m \in Minutes : admitted[b][m] <= admitted'[b][m]
    BY <2>3, <2>4, CountsTyped DEF Added, CountsType
  <2>7. \A b \in Buckets, m \in Minutes : wasted[b][m] <= wasted'[b][m]
    BY <2>3, <2>5, CountsTyped DEF Added, CountsType
  <2>. QED
    BY <2>6, <2>7 DEF Grows
<1>3. ASSUME NEW r \in Requests, Expire(r) \/ ExpireLost(r) \/ Serve(r) \/ RecordRequest(r)
      PROVE  Grows
  BY <1>0, <1>3 DEF Expire, ExpireLost, Serve, RecordRequest, limiter
<1>4. ASSUME Crash \/ Tick
      PROVE  Grows
  BY <1>0, <1>4 DEF Crash, Tick, limiter
<1>5. ASSUME NEW b \in Buckets, NEW m \in Minutes, Evict(b, m)
      PROVE  Grows
  BY <1>0, <1>5 DEF Evict
<1>6. CASE UNCHANGED vars
  BY <1>0, <1>6 DEF vars, limiter
<1>. QED
  BY <1>1, <1>2, <1>3, <1>4, <1>5, <1>6 DEF Next

LEMMA InitRefusals == Init => RefusalsEarned
  BY GatewayAssumption DEF Init, RefusalsEarned

\* The count that refused a client is one that Count has accounted for.
LEMMA DecideRefusals ==
  ASSUME TypeOK, Journeys, TypeOK', Counts', NEW r \in Requests, NEW i \in {1, 2},
         Decide(r, Counter(r) + i), count' = Add(count, r, i), status'[r] = 429,
         NEW b \in Buckets, NEW m \in Minutes, b = Bucket(r), m = minute[r]
  PROVE  Limit(b) <= admitted'[b][m] + wasted'[b][m]
<1>1. pc[r] = "incr" /\ minute[r] # None /\ status[r] = None
  BY DEF Decide, Journeys, Journey
<1>2. i \in Nat /\ count \in [Buckets -> [Minutes -> Nat]]
  BY DEF TypeOK
<1>3. Added(count, count', r, i)
  BY <1>1, <1>2, AddAt
<1>4. count'[b][m] = count[b][m] + i
  BY <1>2, <1>3 DEF Added
<1>5. ~(count[b][m] + i <= Limit(b))
  BY <1>1, GatewayAssumption DEF Decide, Within, Counter
<1>6. Counts' /\ CountsType'
  BY CountsTyped, PTL
<1>7. /\ \/ count'[b][m] <= admitted'[b][m] + wasted'[b][m]
         \/ Limit(b) <= admitted'[b][m] + wasted'[b][m]
      /\ count'[b][m] \in Nat /\ admitted'[b][m] \in Nat /\ wasted'[b][m] \in Nat
      /\ Limit(b) \in Nat
  BY <1>6 DEF Counts, Count, CountsType
<1>. QED
  BY <1>4, <1>5, <1>7

LEMMA NextRefusals ==
  TypeOK /\ Journeys /\ Counts /\ RefusalsEarned /\ [Next]_vars => RefusalsEarned'
<1>. SUFFICES ASSUME TypeOK, Journeys, Counts, RefusalsEarned, [Next]_vars,
                     NEW q \in Requests, status'[q] = 429
              PROVE  admitted'[Bucket(q)'][minute'[q]] + wasted'[Bucket(q)'][minute'[q]]
                       >= Limit(Bucket(q)')
  BY DEF RefusalsEarned
<1>. USE GatewayAssumption
<1>1. Counts' /\ TypeOK'
  BY NextCounts, NextType
<1>2. UNCHANGED request
  BY DEF Next, Pass, Unauthorized, Allow, Incr, IncrTwice, IncrFails, Expire, ExpireLost,
         Serve, RecordRequest, Crash, Tick, Evict, vars
<1>3. Bucket(q)' = Bucket(q) /\ Bucket(q) \in Buckets
  BY <1>2, BucketsKept, BucketType
<1>4. CASE status[q] = 429
  <2>1. pc[q] = "done" /\ minute[q] \in Minutes
    BY <1>4 DEF Journeys, Journey, TypeOK
  <2>2. minute'[q] = minute[q]
    <3>1. ASSUME NEW r \in Requests, Allow(r)
          PROVE  minute'[q] = minute[q]
      BY <2>1, <3>1 DEF Allow, Goes, Window, TypeOK
    <3>. QED
      BY <3>1 DEF Next, Pass, Unauthorized, Incr, IncrTwice, IncrFails, Expire, ExpireLost,
                  Serve, RecordRequest, Crash, Tick, Evict, vars
  <2>3. Grows /\ CountsType /\ CountsType'
    BY <1>1, NextGrows, CountsTyped, PTL
  <2>. QED
    BY <1>3, <1>4, <2>1, <2>2, <2>3 DEF RefusalsEarned, Grows, CountsType
<1>5. CASE status[q] # 429
  <2>1. ASSUME NEW r \in Requests, Unauthorized(r) \/ IncrFails(r) \/ Serve(r)
        PROVE  FALSE
    <3>1. PICK code : Says(r, code) /\ code # 429
      BY <2>1, HandlersAnswer DEF Unauthorized, IncrFails, Serve, TypeOK
    <3>. QED
      BY <1>5, <3>1 DEF Says, TypeOK
  <2>2. status' # status
    BY <1>5
  <2>3. PICK r \in Requests : Incr(r) \/ IncrTwice(r)
    BY <2>1, <2>2 DEF Next, Pass, Allow, Expire, ExpireLost, RecordRequest, Crash, Tick,
                      Evict, vars
  <2>4. PICK i \in {1, 2} : Decide(r, Counter(r) + i) /\ count' = Add(count, r, i)
    BY <2>3 DEF Incr, IncrTwice
  <2>5. r = q
    BY <1>5, <2>4 DEF Decide, Says, TypeOK
  <2>6. minute[q] \in Minutes /\ minute'[q] = minute[q]
    BY <2>3, <2>4, <2>5 DEF Decide, Journeys, Journey, TypeOK, Incr, IncrTwice
  <2>7. Limit(Bucket(q)) <= admitted'[Bucket(q)][minute[q]] + wasted'[Bucket(q)][minute[q]]
    BY <1>1, <1>3, <2>4, <2>5, <2>6, DecideRefusals
  <2>8. CountsType'
    BY <1>1, CountsTyped, PTL
  <2>. QED
    BY <1>3, <2>6, <2>7, <2>8 DEF CountsType
<1>. QED
  BY <1>4, <1>5

----------------------------------------------------------------------------
\* The counters that never expire

LEMMA InitLeak == Init => LeakOnlyIfInterrupted
  BY DEF Init, PerWindow, LeakOnlyIfInterrupted

Leaks(b, m) ==
  count[b][m] > 0 /\ expiry[b][m] = None =>
    \/ <<b, m>> \in interrupted
    \/ \E r \in Requests : pc[r] = "expire" /\ Bucket(r) = b /\ minute[r] = m

\* An INCR that creates the key is about to set its expiry, or interrupted.
LEMMA IncrLeaks ==
  ASSUME TypeOK, Journeys, LeakOnlyIfInterrupted, NEW r \in Requests,
         Incr(r) \/ IncrTwice(r) \/ IncrFails(r),
         NEW b \in Buckets, NEW m \in Minutes
  PROVE  Leaks(b, m)'
<1>1. pc[r] = "incr" /\ minute[r] # None
  BY DEF Incr, IncrTwice, IncrFails, Decide, Goes, Journeys, Journey
<1>2. UNCHANGED <<request, minute, expiry>> /\ interrupted \subseteq interrupted'
  BY DEF Incr, IncrTwice, IncrFails, Interrupts
<1>3. \A q \in Requests : Bucket(q)' = Bucket(q)
  BY <1>2, BucketsKept
<1>4. \A q \in Requests : pc[q] = "expire" => pc'[q] = "expire"
  BY <1>1 DEF Incr, IncrTwice, IncrFails, Decide, Goes, TypeOK
<1>5. /\ Leaks(b, m) /\ CountsType
      /\ count \in [Buckets -> [Minutes -> Nat]]
  BY CountsTyped DEF LeakOnlyIfInterrupted, Leaks, TypeOK
<1>6. Added(count, Add(count, r, 1), r, 1) /\ Added(count, Add(count, r, 2), r, 2)
  BY <1>1, <1>5, AddAt
<1>7. CASE b = Bucket(r) /\ m = minute[r] /\ count[b][m] = 0
  <2>1. CASE Incr(r)
    <3>1. NeedsExpiry(Counter(r) + 1)
      BY <1>7 DEF Counter, NeedsExpiry
    <3>2. pc'[r] = "expire"
      BY <2>1, <3>1 DEF Incr, Decide, Goes, TypeOK
    <3>. QED
      BY <1>2, <1>3, <1>7, <3>2 DEF Leaks
  <2>2. CASE IncrTwice(r) \/ IncrFails(r)
    <3>1. count' = count \/ Interrupts(r)
      BY <2>2 DEF IncrTwice, IncrFails
    <3>2. CASE Interrupts(r)
      BY <1>7, <3>2 DEF Interrupts, Counter, Leaks
    <3>3. CASE count' = count
      BY <1>7, <3>3 DEF Leaks
    <3>. QED
      BY <3>1, <3>2, <3>3
  <2>. QED
    BY <2>1, <2>2
<1>8. CASE ~(b = Bucket(r) /\ m = minute[r]) \/ count[b][m] > 0
  <2>1. count'[b][m] = count[b][m] \/ count[b][m] > 0
    BY <1>6, <1>8 DEF Added, Incr, IncrTwice, IncrFails
  <2>2. count'[b][m] > 0 /\ expiry'[b][m] = None => count[b][m] > 0 /\ expiry[b][m] = None
    BY <1>2, <2>1
  <2>. QED
    BY <1>2, <1>3, <1>4, <1>5, <2>2 DEF Leaks
<1>. QED
  BY <1>5, <1>7, <1>8 DEF CountsType

LEMMA NextLeak ==
  TypeOK /\ Journeys /\ LeakOnlyIfInterrupted /\ [Next]_vars => LeakOnlyIfInterrupted'
<1>. SUFFICES ASSUME TypeOK, Journeys, LeakOnlyIfInterrupted, [Next]_vars,
                     NEW b \in Buckets, NEW m \in Minutes
              PROVE  Leaks(b, m)'
  BY DEF LeakOnlyIfInterrupted, Leaks
<1>. USE GatewayAssumption
<1>1. Leaks(b, m)
  BY DEF LeakOnlyIfInterrupted, Leaks
<1>2. UNCHANGED request
  BY DEF Next, Pass, Unauthorized, Allow, Incr, IncrTwice, IncrFails, Expire, ExpireLost,
         Serve, RecordRequest, Crash, Tick, Evict, vars
<1>3. \A q \in Requests : Bucket(q)' = Bucket(q)
  BY <1>2, BucketsKept
<1>4. ASSUME UNCHANGED <<count, expiry>>, interrupted \subseteq interrupted',
             \A q \in Requests : pc[q] = "expire" =>
               \/ pc'[q] = "expire" /\ minute'[q] = minute[q]
               \/ <<Bucket(q), minute[q]>> \in interrupted'
      PROVE  Leaks(b, m)'
  BY <1>1, <1>3, <1>4 DEF Leaks
<1>5. ASSUME NEW r \in Requests, Pass(r) \/ Unauthorized(r) \/ Serve(r) \/ RecordRequest(r)
      PROVE  Leaks(b, m)'
  BY <1>4, <1>5 DEF Pass, Unauthorized, Serve, RecordRequest, Goes, TypeOK, limiter
<1>6. ASSUME NEW r \in Requests, Allow(r)
      PROVE  Leaks(b, m)'
  BY <1>4, <1>6 DEF Allow, Goes, Window, TypeOK, limiter
<1>7. ASSUME NEW r \in Requests, Expire(r)
      PROVE  Leaks(b, m)'
  <2>1. minute[r] \in Minutes /\ Bucket(r) \in Buckets /\ now + TTL # None
    BY <1>7, BucketType DEF Expire, Goes, Journeys, Journey, TypeOK, Minutes, TTL
  <2>2. expiry'[b][m] = IF b = Bucket(r) /\ m = minute[r] THEN now + TTL ELSE expiry[b][m]
    BY <1>7, <2>1 DEF Expire, TypeOK
  <2>3. \A q \in Requests \ {r} : pc'[q] = pc[q]
    BY <1>7 DEF Expire, Goes, TypeOK
  <2>4. UNCHANGED <<minute, count, interrupted>>
    BY <1>7 DEF Expire
  <2>5. CASE b = Bucket(r) /\ m = minute[r]
    BY <2>1, <2>2, <2>5 DEF Leaks
  <2>6. CASE ~(b = Bucket(r) /\ m = minute[r])
    BY <1>1, <1>3, <2>2, <2>3, <2>4, <2>6 DEF Leaks
  <2>. QED
    BY <2>5, <2>6
<1>8. ASSUME NEW r \in Requests, ExpireLost(r)
      PROVE  Leaks(b, m)'
  <2>1. \A q \in Requests \ {r} : pc'[q] = pc[q]
    BY <1>8 DEF ExpireLost, Goes, TypeOK
  <2>2. UNCHANGED <<minute, count, expiry>>
        /\ interrupted' = interrupted \cup {<<Bucket(r), minute[r]>>}
    BY <1>8 DEF ExpireLost
  <2>. QED
    BY <1>4, <2>1, <2>2
<1>9. CASE Crash
  <2>1. \A q \in Requests : pc[q] = "expire" => <<Bucket(q), minute[q]>> \in interrupted'
    BY <1>9 DEF Crash, InFlight
  <2>. QED
    BY <1>4, <1>9, <2>1 DEF Crash
<1>10. CASE Tick
  BY <1>4, <1>10 DEF Tick, limiter
<1>11. ASSUME NEW d \in Buckets, NEW k \in Minutes, Evict(d, k)
       PROVE  Leaks(b, m)'
  <2>1. /\ expiry'[b][m] = IF b = d /\ m = k THEN None ELSE expiry[b][m]
        /\ count'[b][m] = IF b = d /\ m = k THEN 0 ELSE count[b][m]
        /\ UNCHANGED <<pc, minute, interrupted>>
    BY <1>11 DEF Evict, TypeOK
  <2>. QED
    BY <1>1, <1>3, <2>1 DEF Leaks
<1>12. CASE UNCHANGED vars
  BY <1>4, <1>12 DEF vars, limiter
<1>. QED
  BY <1>5, <1>6, <1>7, <1>8, <1>9, <1>10, <1>11, <1>12, IncrLeaks DEF Next

----------------------------------------------------------------------------
\* The requests let through

LEMMA FiniteRequests ==
  ASSUME NEW S \in SUBSET Requests
  PROVE  IsFiniteSet(S) /\ Cardinality(S) \in Nat
  BY GatewayAssumption, FS_Subset, FS_CardinalityType

LEMMA InitPasses == Init => Passes
<1>. SUFFICES ASSUME Init, NEW b \in Buckets, NEW m \in Minutes
              PROVE  Cardinality(Passed(b, m)) <= admitted[b][m]
  BY DEF Passes
<1>1. Passed(b, m) = {}
  BY GatewayAssumption DEF Init, Passed
<1>2. admitted[b][m] = 0
  BY DEF Init, PerWindow
<1>. QED
  BY <1>1, <1>2, FS_EmptySet

\* One more let through is one more counted.
LEMMA DecidePasses ==
  ASSUME TypeOK, Journeys, Passes, NEW r \in Requests, NEW n, Decide(r, n),
         UNCHANGED <<request, minute, entered>>, NEW b \in Buckets, NEW m \in Minutes
  PROVE  Cardinality(Passed(b, m)') <= admitted'[b][m]
<1>1. pc[r] = "incr" /\ minute[r] # None
  BY DEF Decide, Journeys, Journey
<1>2. \A q \in Requests : Bucket(q)' = Bucket(q)
  BY BucketsKept
<1>3. \A q \in Requests \ {r} : pc'[q] = pc[q]
  BY DEF Decide, Goes, TypeOK
<1>4. /\ Passed(b, m) \in SUBSET Requests /\ Passed(b, m)' \in SUBSET Requests
      /\ Cardinality(Passed(b, m)) <= admitted[b][m]
      /\ admitted \in [Buckets -> [Minutes -> Nat]] /\ admitted[b][m] \in Nat
  BY DEF Passed, Passes, TypeOK
<1>5. Added(admitted, Add(admitted, r, 1), r, 1)
  BY <1>1, <1>4, AddAt
<1>6. CASE b = Bucket(r) /\ m = minute[r] /\ admitted' = Add(admitted, r, 1)
  <2>1. Passed(b, m)' \subseteq Passed(b, m) \cup {r}
    BY <1>2, <1>3 DEF Passed
  <2>2. admitted'[b][m] = admitted[b][m] + 1
    BY <1>5, <1>6 DEF Added
  <2>3. /\ IsFiniteSet(Passed(b, m) \cup {r})
        /\ Cardinality(Passed(b, m) \cup {r}) <= Cardinality(Passed(b, m)) + 1
    BY <1>4, FiniteRequests, FS_AddElement
  <2>4. /\ Cardinality(Passed(b, m)') <= Cardinality(Passed(b, m) \cup {r})
        /\ Cardinality(Passed(b, m) \cup {r}) \in Nat
    BY <2>1, <2>3, FS_Subset, FS_CardinalityType
  <2>. QED
    BY <1>4, <2>2, <2>3, <2>4, FiniteRequests
<1>7. CASE ~(b = Bucket(r) /\ m = minute[r] /\ admitted' = Add(admitted, r, 1))
  <2>1. admitted'[b][m] = admitted[b][m]
    BY <1>5, <1>7 DEF Added, Decide
  <2>2. Passed(b, m)' \subseteq Passed(b, m)
    <3>1. CASE ~(b = Bucket(r) /\ m = minute[r])
      BY <1>2, <1>3, <3>1 DEF Passed
    <3>2. CASE admitted' # Add(admitted, r, 1)
      <4>1. pc'[r] = "done" /\ entered[r] = None
        BY <1>1, <3>2 DEF Decide, Goes, TypeOK, Journeys, Journey
      <4>. QED
        BY <1>2, <1>3, <4>1 DEF Passed
    <3>. QED
      BY <1>7, <3>1, <3>2
  <2>3. Cardinality(Passed(b, m)') <= Cardinality(Passed(b, m))
    BY <1>4, <2>2, FiniteRequests, FS_Subset
  <2>. QED
    BY <1>4, <2>1, <2>3, FiniteRequests
<1>. QED
  BY <1>6, <1>7

LEMMA NextPasses == TypeOK /\ Journeys /\ Passes /\ [Next]_vars => Passes'
<1>. SUFFICES ASSUME TypeOK, Journeys, Passes, [Next]_vars,
                     NEW b \in Buckets, NEW m \in Minutes
              PROVE  Cardinality(Passed(b, m)') <= admitted'[b][m]
  BY DEF Passes
<1>. USE GatewayAssumption
<1>1. /\ Passed(b, m) \in SUBSET Requests
      /\ Cardinality(Passed(b, m)) <= admitted[b][m] /\ admitted[b][m] \in Nat
  BY DEF Passed, Passes, TypeOK
<1>2. UNCHANGED request
  BY DEF Next, Pass, Unauthorized, Allow, Incr, IncrTwice, IncrFails, Expire, ExpireLost,
         Serve, RecordRequest, Crash, Tick, Evict, vars
<1>3. \A q \in Requests : Bucket(q)' = Bucket(q)
  BY <1>2, BucketsKept
<1>4. ASSUME UNCHANGED admitted,
             \A q \in Requests :
               minute'[q] = m /\ (pc'[q] \in {"expire", "serve"} \/ entered'[q] # None) =>
                 minute[q] = m /\ (pc[q] \in {"expire", "serve"} \/ entered[q] # None)
      PROVE  Cardinality(Passed(b, m)') <= admitted'[b][m]
  <2>1. Passed(b, m)' \subseteq Passed(b, m)
    BY <1>3, <1>4 DEF Passed
  <2>2. Cardinality(Passed(b, m)') <= Cardinality(Passed(b, m))
        /\ Cardinality(Passed(b, m)') \in Nat /\ Cardinality(Passed(b, m)) \in Nat
    BY <1>1, <2>1, FiniteRequests, FS_Subset
  <2>. QED
    BY <1>1, <1>4, <2>2
<1>5. ASSUME NEW r \in Requests, Pass(r)
      PROVE  Cardinality(Passed(b, m)') <= admitted'[b][m]
  <2>1. minute[r] # m /\ Goes(r, "arrive", "serve") /\ UNCHANGED <<admitted, minute, entered>>
    BY <1>5 DEF Pass, Goes, Journeys, Journey, limiter, Minutes
  <2>. QED
    BY <1>4, <2>1 DEF Goes, TypeOK
<1>6. ASSUME NEW r \in Requests, Unauthorized(r)
      PROVE  Cardinality(Passed(b, m)') <= admitted'[b][m]
  BY <1>4, <1>6 DEF Unauthorized, Goes, TypeOK, limiter
<1>7. ASSUME NEW r \in Requests, Allow(r)
      PROVE  Cardinality(Passed(b, m)') <= admitted'[b][m]
  <2>1. entered[r] = None
    BY <1>7 DEF Allow, Goes, Journeys, Journey
  <2>. QED
    BY <1>4, <1>7, <2>1 DEF Allow, Goes, Window, TypeOK, limiter
<1>8. ASSUME NEW r \in Requests, Incr(r) \/ IncrTwice(r)
      PROVE  Cardinality(Passed(b, m)') <= admitted'[b][m]
  <2>1. PICK n : Decide(r, n)
    BY <1>8 DEF Incr, IncrTwice
  <2>2. UNCHANGED <<request, minute, entered>>
    BY <1>8 DEF Incr, IncrTwice
  <2>. QED
    BY <2>1, <2>2, DecidePasses
<1>9. ASSUME NEW r \in Requests, IncrFails(r)
      PROVE  Cardinality(Passed(b, m)') <= admitted'[b][m]
  <2>1. Goes(r, "incr", "done") /\ UNCHANGED <<admitted, minute, entered>>
    BY <1>9 DEF IncrFails
  <2>. QED
    BY <1>4, <2>1 DEF Goes, TypeOK
<1>10. ASSUME NEW r \in Requests, Expire(r) \/ ExpireLost(r)
       PROVE  Cardinality(Passed(b, m)') <= admitted'[b][m]
  <2>1. Goes(r, "expire", "serve") /\ UNCHANGED <<admitted, minute, entered>>
    BY <1>10 DEF Expire, ExpireLost
  <2>. QED
    BY <1>4, <2>1 DEF Goes, TypeOK
<1>11. ASSUME NEW r \in Requests, Serve(r)
       PROVE  Cardinality(Passed(b, m)') <= admitted'[b][m]
  <2>1. /\ pc[r] = "serve" /\ UNCHANGED <<admitted, minute>>
        /\ \A q \in Requests \ {r} : pc'[q] = pc[q] /\ entered'[q] = entered[q]
    BY <1>11 DEF Serve, Goes, TypeOK, limiter
  <2>. QED
    BY <1>4, <2>1
<1>12. ASSUME NEW r \in Requests, RecordRequest(r)
       PROVE  Cardinality(Passed(b, m)') <= admitted'[b][m]
  BY <1>4, <1>12 DEF RecordRequest, Goes, TypeOK, limiter
<1>13. CASE Crash
  BY <1>4, <1>13 DEF Crash
<1>14. CASE Tick
  BY <1>4, <1>14 DEF Tick, limiter
<1>15. ASSUME NEW d \in Buckets, NEW k \in Minutes, Evict(d, k)
       PROVE  Cardinality(Passed(b, m)') <= admitted'[b][m]
  BY <1>4, <1>15 DEF Evict
<1>16. CASE UNCHANGED vars
  BY <1>4, <1>16 DEF vars, limiter
<1>. QED
  BY <1>5, <1>6, <1>7, <1>8, <1>9, <1>10, <1>11, <1>12, <1>13, <1>14, <1>15, <1>16 DEF Next

\* Who enters in a minute was let through by its window or by the one before.
LEMMA PassesBound ==
  ASSUME TypeOK, Journeys, Counts, Passes
  PROVE  BurstBounded
<1>. SUFFICES ASSUME NEW b \in Buckets, NEW m \in Minutes
              PROVE  Cardinality(EnteredIn(b, m)) <= (1 + MaxLag) * Limit(b)
  BY DEF BurstBounded
<1>. USE GatewayAssumption
<1>1. \A k \in Minutes : /\ Passed(b, k) \in SUBSET Requests
                         /\ Cardinality(Passed(b, k)) <= Limit(b)
  <2>. TAKE k \in Minutes
  <2>1. Passed(b, k) \in SUBSET Requests
    BY DEF Passed
  <2>2. Cardinality(Passed(b, k)) <= admitted[b][k] /\ admitted[b][k] <= Limit(b)
        /\ admitted[b][k] \in Nat /\ Limit(b) \in Nat
    BY Limits DEF Passes, Counts, Count, TypeOK
  <2>. QED
    BY <2>1, <2>2, FiniteRequests
<1>2. \A r \in EnteredIn(b, m) :
        /\ r \in Requests /\ minute[r] \in Minutes
        /\ minute[r] <= m /\ m <= minute[r] + MaxLag /\ r \in Passed(b, minute[r])
  BY DEF EnteredIn, Passed, Journeys, Journey, TypeOK, Minutes
<1>3. Limit(b) \in Nat /\ MaxLag \in {0, 1} /\ EnteredIn(b, m) \in SUBSET Requests
  BY Limits DEF EnteredIn, TTL
<1>4. CASE MaxLag = 0 \/ m = 0
  <2>1. EnteredIn(b, m) \subseteq Passed(b, m)
    BY <1>2, <1>4 DEF Minutes
  <2>2. Cardinality(EnteredIn(b, m)) <= Limit(b)
    BY <1>1, <1>3, <2>1, FiniteRequests, FS_Subset
  <2>3. Limit(b) <= (1 + MaxLag) * Limit(b)
    BY <1>3
  <2>. QED
    BY <1>3, <2>2, <2>3, FiniteRequests
<1>5. CASE MaxLag = 1 /\ m # 0
  <2>1. m - 1 \in Minutes
    BY <1>5 DEF Minutes
  <2>2. EnteredIn(b, m) \subseteq Passed(b, m) \cup Passed(b, m - 1)
    <3>1. ASSUME NEW r \in EnteredIn(b, m)
          PROVE  minute[r] = m \/ minute[r] = m - 1
      BY <1>2, <1>5, <3>1 DEF Minutes
    <3>. QED
      BY <1>2, <3>1
  <2>3. /\ IsFiniteSet(Passed(b, m) \cup Passed(b, m - 1))
        /\ Cardinality(Passed(b, m) \cup Passed(b, m - 1)) <= Limit(b) + Limit(b)
    <3>1. /\ IsFiniteSet(Passed(b, m)) /\ IsFiniteSet(Passed(b, m - 1))
          /\ Cardinality(Passed(b, m)) \in Nat /\ Cardinality(Passed(b, m - 1)) \in Nat
          /\ Cardinality(Passed(b, m) \cap Passed(b, m - 1)) \in Nat
      BY <1>1, <2>1, FiniteRequests
    <3>2. /\ IsFiniteSet(Passed(b, m) \cup Passed(b, m - 1))
          /\ Cardinality(Passed(b, m) \cup Passed(b, m - 1)) =
               Cardinality(Passed(b, m)) + Cardinality(Passed(b, m - 1))
                 - Cardinality(Passed(b, m) \cap Passed(b, m - 1))
      BY <3>1, FS_Union
    <3>3. Cardinality(Passed(b, m)) <= Limit(b) /\ Cardinality(Passed(b, m - 1)) <= Limit(b)
      BY <1>1, <2>1
    <3>. QED
      BY <1>3, <3>1, <3>2, <3>3
  <2>4. Cardinality(EnteredIn(b, m)) <= Cardinality(Passed(b, m) \cup Passed(b, m - 1))
        /\ Cardinality(Passed(b, m) \cup Passed(b, m - 1)) \in Nat
    BY <2>2, <2>3, FS_Subset, FS_CardinalityType
  <2>5. (1 + MaxLag) * Limit(b) = Limit(b) + Limit(b)
    BY <1>3, <1>5
  <2>. QED
    BY <1>3, <2>3, <2>4, <2>5, FiniteRequests
<1>. QED
  BY <1>3, <1>4, <1>5

----------------------------------------------------------------------------
\* The metrics

Told  == {r \in measured : pc[r] = "done"}
Erred == {r \in Told : status[r] >= 400}

LEMMA MetricsTold == MetricsAccount <=> /\ stats.total = Cardinality(Told)
                                        /\ stats.errors = Cardinality(Erred)
  BY DEF MetricsAccount, Told, Erred

LEMMA InitMetrics == Init => MetricsAccount
<1>. SUFFICES ASSUME Init
              PROVE  MetricsAccount
  OBVIOUS
<1>1. Told = {} /\ Erred = {}
  BY DEF Init, Told, Erred
<1>2. stats.total = 0 /\ stats.errors = 0
  BY DEF Init, Zero
<1>. QED
  BY <1>1, <1>2, MetricsTold, FS_EmptySet

LEMMA NextMetrics == TypeOK /\ Journeys /\ MetricsAccount /\ [Next]_vars => MetricsAccount'
<1>. SUFFICES ASSUME TypeOK, Journeys, MetricsAccount, [Next]_vars
              PROVE  /\ stats'.total = Cardinality(Told')
                     /\ stats'.errors = Cardinality(Erred')
  BY DEF MetricsAccount, Told, Erred
<1>. USE GatewayAssumption
<1>1. stats.total = Cardinality(Told) /\ stats.errors = Cardinality(Erred)
  BY MetricsTold
<1>2. \A q \in Requests : /\ pc[q] = "record" => q \in measured
                          /\ q \in measured => pc[q] \in {"record", "done"}
  BY DEF Journeys, Journey
<1>3. measured \subseteq Requests
  BY DEF TypeOK
<1>4. ASSUME NEW r \in Requests, pc[r] \notin {"record", "done"},
             \A q \in Requests \ {r} : pc'[q] = pc[q] /\ status'[q] = status[q],
             measured' = measured \/ (measured' = measured \cup {r} /\ pc'[r] = "record"),
             UNCHANGED stats
      PROVE  /\ stats'.total = Cardinality(Told')
             /\ stats'.errors = Cardinality(Erred')
  <2>1. Told' = Told
    BY <1>2, <1>3, <1>4 DEF Told
  <2>2. Erred' = Erred
    BY <1>2, <1>3, <1>4, <2>1 DEF Erred, Told
  <2>. QED
    BY <1>1, <1>4, <2>1, <2>2
<1>5. ASSUME UNCHANGED <<pc, status, measured, stats>>
      PROVE  /\ stats'.total = Cardinality(Told')
             /\ stats'.errors = Cardinality(Erred')
  BY <1>1, <1>5 DEF Told, Erred
<1>6. ASSUME NEW r \in Requests, Pass(r) \/ Unauthorized(r) \/ Allow(r)
      PROVE  /\ stats'.total = Cardinality(Told')
             /\ stats'.errors = Cardinality(Erred')
  BY <1>4, <1>6 DEF Pass, Unauthorized, Allow, Goes, Says, TypeOK
<1>7. ASSUME NEW r \in Requests, Incr(r) \/ IncrTwice(r)
      PROVE  /\ stats'.total = Cardinality(Told')
             /\ stats'.errors = Cardinality(Erred')
  <2>1. PICK n : Decide(r, n)
    BY <1>7 DEF Incr, IncrTwice
  <2>2. UNCHANGED <<stats, measured>>
    BY <1>7 DEF Incr, IncrTwice
  <2>3. pc[r] = "incr"
        /\ \A q \in Requests \ {r} : pc'[q] = pc[q] /\ status'[q] = status[q]
    BY <2>1 DEF Decide, Goes, Says, TypeOK
  <2>. QED
    BY <1>4, <2>2, <2>3
<1>8. ASSUME NEW r \in Requests, IncrFails(r)
      PROVE  /\ stats'.total = Cardinality(Told')
             /\ stats'.errors = Cardinality(Erred')
  <2>1. Goes(r, "incr", "done") /\ Says(r, 503) /\ UNCHANGED <<stats, measured>>
    BY <1>8 DEF IncrFails
  <2>. QED
    BY <1>4, <2>1 DEF Goes, Says, TypeOK
<1>9. ASSUME NEW r \in Requests, Expire(r) \/ ExpireLost(r)
      PROVE  /\ stats'.total = Cardinality(Told')
             /\ stats'.errors = Cardinality(Erred')
  <2>1. Goes(r, "expire", "serve") /\ UNCHANGED <<status, stats, measured>>
    BY <1>9 DEF Expire, ExpireLost
  <2>. QED
    BY <1>4, <2>1 DEF Goes, TypeOK
<1>10. ASSUME NEW r \in Requests, Serve(r)
       PROVE  /\ stats'.total = Cardinality(Told')
              /\ stats'.errors = Cardinality(Erred')
  <2>1. PICK code \in AnswersOf(route[r]) : Says(r, code)
    BY <1>10 DEF Serve
  <2>2. /\ \/ Goes(r, "serve", "record") /\ measured' = measured \cup {r}
           \/ Goes(r, "serve", "done") /\ UNCHANGED measured
        /\ UNCHANGED stats
    BY <1>10 DEF Serve
  <2>. QED
    BY <1>4, <2>1, <2>2 DEF Goes, Says, TypeOK
<1>11. ASSUME NEW r \in Requests, RecordRequest(r)
       PROVE  /\ stats'.total = Cardinality(Told')
              /\ stats'.errors = Cardinality(Erred')
  <2>1. /\ pc[r] = "record" /\ pc'[r] = "done" /\ UNCHANGED <<status, measured>>
        /\ \A q \in Requests \ {r} : pc'[q] = pc[q]
    BY <1>11 DEF RecordRequest, Goes, TypeOK
  <2>2. Told' = Told \cup {r} /\ r \notin Told
    BY <1>2, <1>3, <2>1 DEF Told
  <2>3. Erred' = (IF status[r] >= 400 THEN Erred \cup {r} ELSE Erred) /\ r \notin Erred
    BY <2>1, <2>2 DEF Erred
  <2>4. IsFiniteSet(Told) /\ IsFiniteSet(Erred)
        /\ Cardinality(Told) \in Nat /\ Cardinality(Erred) \in Nat
    BY <1>3, FiniteRequests DEF Told, Erred
  <2>5. /\ Cardinality(Told \cup {r}) = Cardinality(Told) + 1
        /\ Cardinality(Erred \cup {r}) = Cardinality(Erred) + 1
    BY <2>2, <2>3, <2>4, FS_AddElement
  <2>6. /\ stats'.total = stats.total + 1
        /\ stats'.errors = stats.errors + (IF status[r] >= 400 THEN 1 ELSE 0)
    BY <1>11 DEF RecordRequest, IsError
  <2>. QED
    BY <1>1, <2>2, <2>3, <2>4, <2>5, <2>6
<1>12. CASE Crash
  <2>1. Told' = {} /\ Erred' = {}
    BY <1>12 DEF Crash, Told, Erred
  <2>2. stats'.total = 0 /\ stats'.errors = 0
    BY <1>12 DEF Crash, Zero
  <2>. QED
    BY <2>1, <2>2, FS_EmptySet
<1>13. CASE Tick
  BY <1>5, <1>13 DEF Tick
<1>14. ASSUME NEW b \in Buckets, NEW m \in Minutes, Evict(b, m)
       PROVE  /\ stats'.total = Cardinality(Told')
              /\ stats'.errors = Cardinality(Erred')
  BY <1>5, <1>14 DEF Evict
<1>15. CASE UNCHANGED vars
  BY <1>5, <1>15 DEF vars
<1>. QED
  BY <1>6, <1>7, <1>8, <1>9, <1>10, <1>11, <1>12, <1>13, <1>14, <1>15 DEF Next

----------------------------------------------------------------------------
\* The strengthened invariant is inductive: it holds of every request and window
\* that the middleware can have under way, whatever fails.
THEOREM InductiveInvariant == Spec => []IInv
<1>1. Init => IInv
  BY InitType, InitJourneys, InitCounts, InitPasses, InitRefusals, InitLeak, InitMetrics
     DEF IInv
<1>2. IInv /\ [Next]_vars => IInv'
  BY NextType, NextJourneys, NextCounts, NextPasses, NextRefusals, NextLeak, NextMetrics
     DEF IInv
<1>. QED
  BY <1>1, <1>2, PTL DEF Spec

\* Every variable keeps its type, and a limiter key names the minute in which
\* its request came in, never one to come.
THEOREM TypeCorrect == Spec => []TypeOK
<1>1. IInv => TypeOK
  BY DEF IInv
<1>. QED
  BY <1>1, InductiveInvariant, PTL

\* allow never lets more requests of a window through than its limit, although
\* the counter expires while the clock and the requests go on.
THEOREM AtMostLimitPerWindowHolds == Spec => []AtMostLimitPerWindow
<1>1. IInv => AtMostLimitPerWindow
  BY DEF IInv, Counts, Count, AtMostLimitPerWindow
<1>. QED
  BY <1>1, InductiveInvariant, PTL

\* The burst around the turn of a minute is at most two limits.
THEOREM BurstBoundedHolds == Spec => []BurstBounded
<1>1. IInv => BurstBounded
  BY PassesBound DEF IInv
<1>. QED
  BY <1>1, InductiveInvariant, PTL

\* Nobody is answered 429 before the limit is used up by admissions and by INCRs
\* that were executed without an answer.
THEOREM RefusalsEarnedHolds == Spec => []RefusalsEarned
<1>1. IInv => RefusalsEarned
  BY DEF IInv
<1>. QED
  BY <1>1, InductiveInvariant, PTL

\* A key without an expiry is about to get one, or was left by a failure.
THEOREM LeakOnlyIfInterruptedHolds == Spec => []LeakOnlyIfInterrupted
<1>1. IInv => LeakOnlyIfInterrupted
  BY DEF IInv
<1>. QED
  BY <1>1, InductiveInvariant, PTL

\* The totals of Metrics are those of the answers given since the last start.
THEOREM MetricsAccountHolds == Spec => []MetricsAccount
<1>1. IInv => MetricsAccount
  BY DEF IInv
<1>. QED
  BY <1>1, InductiveInvariant, PTL
================================================================================
