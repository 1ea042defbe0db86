------------------------------- MODULE LeadCache ------------------------------
(***************************************************************************)
(* The read-through caches of internal/lead/service/service.go for one     *)
(* lead: the lead itself, a page of the lead list and the latest score, in *)
(* Redis with a TTL, beside the rows in Postgres.  The API instances and   *)
(* the workers share them; every call is a step, so that a request may     *)
(* fill a cache with what it read before another request wrote.            *)
(*                                                                         *)
(* A version of the lead is counted by the writes to its row, a score by   *)
(* its place in lead_scores; 0 is "no row".  The content that the score    *)
(* key hashes never changes, so a lead has one score key.  SCAN and DEL    *)
(* are one step: a key that SCAN does not see is as good as set later.     *)
(***************************************************************************)
EXTENDS Naturals, Sequences

CONSTANTS
  Requests,   \* HTTP requests and jobs of workers
  None,       \* nothing cached
  MaxFaults   \* bound: calls that fail and processes that are killed

ASSUME NoneAssumption  == None \notin Nat
ASSUME FaultAssumption == MaxFaults \in Nat

VARIABLES
  db,          \* version of the row in leads
  rows,        \* rows in lead_scores
  leadCache,   \* lead-scoring:lead:<id>
  listCache,   \* lead-scoring:leads:list:<limit>:<offset>, the lead in it
  scoreCache,  \* lead-scoring:score:<id>:<hash>
  op,          \* what each request does
  todo,        \* the calls it has still to make
  val,         \* the version it has in memory
  score,       \* the score it has in memory
  finished,    \* the latest score whose job is done
  floor,       \* the value of finished when each request started
  late,        \* caches that were filled with an old value
  missed,      \* caches that a failed call did not refresh
  faults       \* faults spent

cacheVars   == <<leadCache, listCache, scoreCache>>
historyVars == <<finished, floor, late, missed>>
vars == <<db, rows, cacheVars, op, todo, val, score, historyVars, faults>>

(***************************************************************************)
(* The calls of each operation; a cache miss adds some more.  ScoreLead    *)
(* looks the lead up itself and again in SimilarLeads; the embed job, the  *)
(* similar leads and the score history are a get.                          *)
(***************************************************************************)
Plan == [
  get    |-> <<"start", "getLead">>,
  create |-> <<"start", "create", "fillLead", "dropList">>,
  update |-> <<"start", "update", "fillLead", "dropList", "dropScore">>,
  list   |-> <<"start", "getList">>,
  score  |-> <<"start", "getLead", "getLead", "insertScore", "fillScore">>,
  latest |-> <<"start", "getLead", "getScore">>]

Init ==
  /\ db \in {0, 1} /\ rows \in {0, db}
  /\ leadCache \in {None} \cup ({db} \ {0})
  /\ listCache \in {None, db}
  /\ scoreCache \in {None} \cup ({rows} \ {0})
  /\ op \in [Requests -> DOMAIN Plan]
  /\ \A q, r \in Requests : op[q] = "create" /\ op[r] = "create" => q = r
  /\ \A r \in Requests : op[r] = "create" => db = 0
  /\ todo = [r \in Requests |-> Plan[op[r]]]
  /\ val = [r \in Requests |-> 0] /\ score = [r \in Requests |-> 0]
  /\ finished = rows /\ floor = [r \in Requests |-> 0]
  /\ late = {} /\ missed = {} /\ faults = 0

At(r, call) == todo[r] # <<>> /\ Head(todo[r]) = call

\* r has made the call and has more to do before the rest of its plan.
Then(r, call, more) ==
  /\ At(r, call)
  /\ todo' = [todo EXCEPT ![r] = more \o Tail(@)]
  /\ UNCHANGED op

\* r returns: there is no such row.
Return(r, call) ==
  /\ At(r, call)
  /\ todo' = [todo EXCEPT ![r] = <<>>]
  /\ UNCHANGED op

Fault == faults < MaxFaults /\ faults' = faults + 1

LateIf(c, old) ==
  /\ late' = IF old THEN late \cup {c} ELSE late
  /\ UNCHANGED <<missed, floor>>

\* The calls that bring a cache up to date after a write, and their cache.
Refresh == [fillLead |-> "lead", dropList |-> "list", dropScore |-> "score",
            fillScore |-> "score"]

\* r has written to Postgres and owes the caches these calls.
Owed(r) ==
  IF /\ op[r] \in {"create", "update", "score"}
     /\ \A i \in 1..Len(todo[r]) : todo[r][i] \in DOMAIN Refresh
  THEN {Refresh[todo[r][i]] : i \in 1..Len(todo[r])} ELSE {}

-------------------------------------------------------------------------------
(* Mistakes that would be easy to make in this code.  No behaviour of Spec *)
(* uses them: each breaks the property named beside it.                    *)

\* TypeOK: an UPDATE that matches no row is not noticed.
UpdateUnchecked(r) ==
  /\ Then(r, "update", <<>>)
  /\ val' = [val EXCEPT ![r] = db + 1]
  /\ UNCHANGED <<db, rows, cacheVars, score, historyVars, faults>>

\* FreshUnlessRaced: the pages of the list are left alone.
DropListNot(r) ==
  /\ Then(r, "dropList", <<>>)
  /\ UNCHANGED <<db, rows, cacheVars, val, score, historyVars, faults>>

\* RefreshSeesScore: only a read caches the score.
FillScoreByReadOnly(r) ==
  /\ Then(r, "fillScore", <<>>)
  /\ scoreCache' = IF op[r] = "latest" THEN score[r] ELSE scoreCache
  /\ finished' = IF op[r] = "score" /\ score[r] > finished THEN score[r] ELSE finished
  /\ LateIf("score", FALSE)
  /\ UNCHANGED <<db, rows, leadCache, listCache, val, score, faults>>

\* EventuallyFresh: a score without a TTL.
NeverExpire == FALSE

-------------------------------------------------------------------------------
Start(r) ==
  /\ Then(r, "start", <<>>)
  /\ floor' = [floor EXCEPT ![r] = finished]
  /\ UNCHANGED <<db, rows, cacheVars, val, score, finished, late, missed, faults>>

(* GetLead. *)

GetLeadHit(r) ==
  /\ leadCache # None
  /\ Then(r, "getLead", <<>>)
  /\ val' = [val EXCEPT ![r] = leadCache]
  /\ UNCHANGED <<db, rows, cacheVars, score, historyVars, faults>>

\* Nothing is cached, or the GET fails.
GetLeadMiss(r) ==
  /\ Then(r, "getLead", <<"readLead", "fillLead">>)
  /\ IF leadCache = None THEN UNCHANGED faults ELSE Fault
  /\ UNCHANGED <<db, rows, cacheVars, val, score, historyVars>>

ReadLead(r) ==
  /\ IF db = 0 THEN Return(r, "readLead") ELSE Then(r, "readLead", <<>>)
  /\ val' = [val EXCEPT ![r] = db]
  /\ UNCHANGED <<db, rows, cacheVars, score, historyVars, faults>>

\* cacheLead, after a read or a write.
FillLead(r) ==
  /\ Then(r, "fillLead", <<>>)
  /\ leadCache' = val[r]
  /\ LateIf("lead", val[r] # db)
  /\ UNCHANGED <<db, rows, listCache, scoreCache, val, score, finished, faults>>

(* CreateLead and UpdateLeadStatus. *)

Create(r) ==
  /\ Then(r, "create", <<>>)
  /\ db' = 1
  /\ val' = [val EXCEPT ![r] = 1]
  /\ UNCHANGED <<rows, cacheVars, score, historyVars, faults>>

Update(r) ==
  /\ IF db = 0 THEN Return(r, "update") ELSE Then(r, "update", <<>>)
  /\ db' = IF db = 0 THEN 0 ELSE db + 1
  /\ val' = [val EXCEPT ![r] = db']
  /\ UNCHANGED <<rows, cacheVars, score, historyVars, faults>>

DropList(r) ==
  /\ Then(r, "dropList", <<>>)
  /\ listCache' = None
  /\ UNCHANGED <<db, rows, leadCache, scoreCache, val, score, historyVars, faults>>

DropScore(r) ==
  /\ Then(r, "dropScore", <<>>)
  /\ scoreCache' = None
  /\ UNCHANGED <<db, rows, leadCache, listCache, val, score, historyVars, faults>>

(* ListLeads. *)

GetListHit(r) ==
  /\ listCache # None
  /\ Then(r, "getList", <<>>)
  /\ val' = [val EXCEPT ![r] = listCache]
  /\ UNCHANGED <<db, rows, cacheVars, score, historyVars, faults>>

GetListMiss(r) ==
  /\ Then(r, "getList", <<"readList", "fillList">>)
  /\ IF listCache = None THEN UNCHANGED faults ELSE Fault
  /\ UNCHANGED <<db, rows, cacheVars, val, score, historyVars>>

ReadList(r) ==
  /\ Then(r, "readList", <<>>)
  /\ val' = [val EXCEPT ![r] = db]
  /\ UNCHANGED <<db, rows, cacheVars, score, historyVars, faults>>

FillList(r) ==
  /\ Then(r, "fillList", <<>>)
  /\ listCache' = val[r]
  /\ LateIf("list", val[r] # db)
  /\ UNCHANGED <<db, rows, leadCache, scoreCache, val, score, finished, faults>>

(* ScoreLead and LatestLeadScore. *)

InsertScore(r) ==
  /\ Then(r, "insertScore", <<>>)
  /\ rows' = rows + 1
  /\ score' = [score EXCEPT ![r] = rows + 1]
  /\ UNCHANGED <<db, cacheVars, val, historyVars, faults>>

GetScoreHit(r) ==
  /\ scoreCache # None
  /\ Then(r, "getScore", <<>>)
  /\ score' = [score EXCEPT ![r] = scoreCache]
  /\ UNCHANGED <<db, rows, cacheVars, val, historyVars, faults>>

GetScoreMiss(r) ==
  /\ Then(r, "getScore", <<"readScore", "fillScore">>)
  /\ IF scoreCache = None THEN UNCHANGED faults ELSE Fault
  /\ UNCHANGED <<db, rows, cacheVars, val, score, historyVars>>

ReadScore(r) ==
  /\ IF rows = 0 THEN Return(r, "readScore") ELSE Then(r, "readScore", <<>>)
  /\ score' = [score EXCEPT ![r] = rows]
  /\ UNCHANGED <<db, rows, cacheVars, val, historyVars, faults>>

\* cacheScore; a score job is done with it.
FillScore(r) ==
  /\ Then(r, "fillScore", <<>>)
  /\ scoreCache' = score[r]
  /\ finished' = IF op[r] = "score" /\ score[r] > finished THEN score[r] ELSE finished
  /\ LateIf("score", score[r] # rows)
  /\ UNCHANGED <<db, rows, leadCache, listCache, val, score, faults>>

(* Failures and the passing of time. *)

\* A SET, or the SCAN or DEL of an invalidation, fails: nobody is told.
RefreshFails(r) ==
  /\ \E call \in {"fillLead", "fillList", "fillScore", "dropList", "dropScore"} :
       Then(r, call, <<>>)
  /\ Fault
  /\ missed' = IF Owed(r) = {} THEN missed ELSE missed \cup {Refresh[Head(todo[r])]}
  /\ UNCHANGED <<db, rows, cacheVars, val, score, finished, floor, late>>

\* A call to Postgres returns an error, before or after it took effect, or
\* the process is killed: the rest is not done.
Abandon(r) ==
  /\ todo[r] # <<>>
  /\ todo' = [todo EXCEPT ![r] = <<>>]
  /\ Fault
  /\ missed' = missed \cup Owed(r)
  /\ UNCHANGED <<db, rows, cacheVars, op, val, score, finished, floor, late>>

\* cacheTTL, of the lead and of the list.
ExpireLead ==
  /\ \/ leadCache # None /\ leadCache' = None /\ UNCHANGED listCache
     \/ listCache # None /\ listCache' = None /\ UNCHANGED leadCache
  /\ UNCHANGED <<db, rows, scoreCache, op, todo, val, score, historyVars, faults>>

\* scoreCacheTTL.
ScoreExpires == scoreCache # None

ExpireScore ==
  /\ ScoreExpires
  /\ scoreCache' = None
  /\ UNCHANGED <<db, rows, leadCache, listCache, op, todo, val, score, historyVars,
                 faults>>

-------------------------------------------------------------------------------
Reading(r) ==
  \/ Start(r) \/ GetLeadHit(r) \/ GetLeadMiss(r) \/ ReadLead(r)
  \/ GetListHit(r) \/ GetListMiss(r) \/ ReadList(r)
  \/ GetScoreHit(r) \/ GetScoreMiss(r) \/ ReadScore(r)

Writing(r) == Create(r) \/ Update(r) \/ InsertScore(r)

Caching(r) == FillLead(r) \/ FillList(r) \/ FillScore(r) \/ DropList(r) \/ DropScore(r)

Next ==
  \/ \E r \in Requests :
       Reading(r) \/ Writing(r) \/ Caching(r) \/ RefreshFails(r) \/ Abandon(r)
  \/ ExpireLead \/ ExpireScore

\* Requests run to their end and Redis honours its TTLs.
Fairness ==
  /\ \A r \in Requests : WF_vars(Reading(r) \/ Writing(r) \/ Caching(r))
  /\ WF_vars(leadCache' = None /\ ExpireLead) /\ WF_vars(listCache' = None /\ ExpireLead)
  /\ WF_vars(ExpireScore)

Spec == Init /\ [][Next]_vars /\ Fairness

-------------------------------------------------------------------------------
(* Properties.                                                             *)

\* Each variable has its type, and a cache only ever holds something that was
\* committed to Postgres.
TypeOK ==
  /\ db \in Nat /\ rows \in Nat
  /\ leadCache \in {None} \cup 1..db
  /\ listCache \in {None} \cup 0..db
  /\ scoreCache \in {None} \cup 1..rows
  /\ \A r \in Requests : val[r] \in 0..db /\ score[r] \in 0..rows
  /\ finished \in 0..rows /\ floor \in [Requests -> 0..finished]
  /\ {late, missed} \subseteq SUBSET {"lead", "list", "score"}
  /\ faults \in 0..MaxFaults

\* A cache is behind Postgres only while the request that wrote still owes it
\* a refresh, unless a call failed or a request cached what it had read or
\* written before the latest write: no operation forgets a cache.
Stale(c) ==
  \/ c = "lead" /\ leadCache \notin {None, db}
  \/ c = "list" /\ listCache \notin {None, db}
  \/ c = "score" /\ scoreCache \notin {None, rows}

FreshUnlessRaced ==
  \A c \in {"lead", "list", "score"} :
    Stale(c) => c \in late \cup missed \/ \E r \in Requests : c \in Owed(r)

\* A request for the latest score that starts after a score job is done gets
\* that score or a later one, unless the score cache was raced or missed: the
\* browser asks for it when it hears of completed.
Answered(r) == todo[r] = <<>> /\ op[r] = "latest" /\ score[r] # 0

RefreshSeesScore ==
  \A r \in Requests :
    Answered(r) /\ "score" \notin late \cup missed => score[r] >= floor[r]

\* Whatever races and failures do, the caches are right in the end.
EventuallyFresh == \A c \in {"lead", "list", "score"} : <>[]~Stale(c)

\* docs/architecture.md:82, "UI -> WebSocket job events -> refresh latest
\* score", without the exception.
RefreshSeesLatestScore == \A r \in Requests : Answered(r) => score[r] >= floor[r]
===============================================================================
