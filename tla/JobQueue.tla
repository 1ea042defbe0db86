------------------------------- MODULE JobQueue -------------------------------
(***************************************************************************)
(* The job queue of internal/platform/jobs/store.go with its two users:    *)
(* the API requests that call Enqueue, and the loop of cmd/worker/main.go. *)
(* Postgres holds the truth (row), a Redis list carries the ids (queue)    *)
(* and a lossy Redis channel carries the events (published).  Each remote  *)
(* call is a step, so that everything can happen between two calls.        *)
(*                                                                         *)
(* A call can fail for two reasons.  A fault (a lost connection, an        *)
(* abandoned HTTP request, a killed process) is spent from a budget of     *)
(* MaxFaults.  A SIGTERM cancels the worker's context: from then on each   *)
(* Postgres and Redis call that uses it is refused, at no cost, and only   *)
(* the call it was in the middle of may have been carried out.             *)
(* hit collects the jobs whose hand-over was interrupted by either.        *)
(*                                                                         *)
(* A job can also be stranded with nothing failing: its end cannot be      *)
(* written down.  unreported collects those jobs.                          *)
(***************************************************************************)
EXTENDS Naturals, Sequences, FiniteSets

CONSTANTS
  EmbedJobs,  \* jobs of type "embed", enqueued by CreateLead
  ScoreJobs,  \* jobs of type "score", enqueued by EnqueueScoreLead
  Workers,    \* worker processes
  None,       \* "holds no job"
  MaxFaults,  \* bound: faults in a behaviour
  MaxStops    \* bound: SIGTERMs in a behaviour

Jobs == EmbedJobs \cup ScoreJobs

ASSUME JobsAssumption   == EmbedJobs \cap ScoreJobs = {}
ASSUME NoneAssumption   == None \notin Jobs
ASSUME BoundsAssumption == MaxFaults \in Nat /\ MaxStops \in Nat

Status == {"absent", "queued", "running", "completed", "failed"}
Final  == {"completed", "failed"}

VARIABLES
  row,        \* jobs.status of each job
  api,        \* progress of the request that enqueues the job
  queue,      \* ids in the Redis list, the next one to pop first
  pc,         \* where each worker's loop is
  held,       \* the job id in the worker's hands
  stopping,   \* workers whose context is cancelled
  caught,     \* those still in the call the SIGTERM found them in
  scores,     \* rows each job has left in lead_scores
  published,  \* the statuses of each job that reached the Redis channel
  hit,        \* jobs whose hand-over was interrupted
  unreported, \* jobs whose end could not be written down
  faults,     \* faults spent
  stops       \* SIGTERMs spent

vars == <<row, api, queue, pc, held, stopping, caught, scores, published, hit,
          unreported, faults, stops>>

apiVars    == <<row, api, queue>>
workerVars == <<pc, held, stopping, caught, scores>>
lossVars   == <<hit, unreported, faults>>
faultVars  == <<lossVars, stops>>

\* Enqueue has returned the job (done) or has not (failed).
ApiPc    == {"idle", "pushing", "publishing", "done", "failed"}
\* From the UPDATE that claims the row to the one that finishes it.
OwnerPc  == {"publishRunning", "working", "completing", "failing"}
WorkerPc == OwnerPc \cup
  {"down", "loop", "popping", "claiming", "publishCompleted", "publishFailed"}

Init ==
  /\ row = [j \in Jobs |-> "absent"]
  /\ api = [j \in Jobs |-> "idle"]
  /\ queue = <<>>
  /\ pc = [w \in Workers |-> "loop"]
  /\ held = [w \in Workers |-> None]
  /\ stopping = {}
  /\ caught = {}
  /\ scores = [j \in Jobs |-> 0]
  /\ published = [j \in Jobs |-> {}]
  /\ hit = {}
  /\ unreported = {}
  /\ faults = 0
  /\ stops = 0

Fault == faults < MaxFaults /\ faults' = faults + 1

-------------------------------------------------------------------------------
(* What the steps are made of.                                             *)

ApiGoto(j, from, to) ==
  /\ api[j] = from
  /\ api' = [api EXCEPT ![j] = to]
  /\ UNCHANGED <<workerVars, unreported, stops>>

Goto(w, from, to) ==
  /\ pc[w] = from
  /\ pc' = [pc EXCEPT ![w] = to]
  /\ caught' = caught \ {w}
  /\ UNCHANGED <<api, stopping, stops>>

\* A mistake that would break TypeOK (see below): the last job is kept.
DropButRemember(w, from) ==
  /\ Goto(w, from, "loop")
  /\ held' = held

\* The worker goes back to the top of the loop and forgets the job.
Drop(w, from) ==
  /\ Goto(w, from, "loop")
  /\ held' = [held EXCEPT ![w] = None]

SetRow(w, s) == row' = [row EXCEPT ![held[w]] = s]

Event(w, s) == published' = [published EXCEPT ![held[w]] = @ \cup {s}]

\* A call of w is refused: for free once its context is cancelled.
CallFails(w) ==
  /\ IF w \in stopping THEN faults' = faults ELSE Fault
  /\ UNCHANGED unreported

\* A call of w is carried out and returns an error: for free when the SIGTERM
\* came in the middle of it.  A call that begins with the context cancelled
\* is not sent.
ReplyFails(w) ==
  /\ IF w \in stopping THEN w \in caught /\ faults' = faults ELSE Fault
  /\ UNCHANGED unreported

Interrupted(w) == hit' = hit \cup {held[w]}

AddScore(w) ==
  scores' = [j \in Jobs |->
    IF j = held[w] /\ j \in ScoreJobs THEN scores[j] + 1 ELSE scores[j]]

-------------------------------------------------------------------------------
(* Mistakes that would be easy to make in this code.  No behaviour of Spec *)
(* uses them: each breaks the property named beside it.                    *)

\* LostOnlyIfInterrupted: the id is a wake-up, pushed to an empty list only.
PushIfEmpty(j) ==
  /\ ApiGoto(j, "pushing", "publishing")
  /\ queue' = IF queue = <<>> THEN Append(queue, j) ELSE queue
  /\ UNCHANGED <<row, published, hit, faults>>

\* ExclusiveOwner: the UPDATE without AND status = 'queued'.
ClaimUnguarded(w) ==
  /\ w \notin stopping
  /\ Goto(w, "claiming", "publishRunning")
  /\ SetRow(w, "running")
  /\ UNCHANGED <<queue, held, scores, published, lossVars>>

\* EveryJobProgresses: SET and WHERE have each other's status, so that the
\* UPDATE finds no row.
ClaimSwapped(w) ==
  /\ w \notin stopping
  /\ Drop(w, "claiming")
  /\ row[held[w]] = "queued"
  /\ UNCHANGED <<row, queue, scores, published, lossVars>>

\* ImplementsLifecycle: a failed job may be claimed again.
ClaimNotCompleted(w) ==
  /\ w \notin stopping
  /\ Goto(w, "claiming", "publishRunning")
  /\ row[held[w]] # "completed"
  /\ SetRow(w, "running")
  /\ UNCHANGED <<queue, held, scores, published, lossVars>>

\* FinalIsFinal: an error of the claim is recorded with Fail.
ClaimErrorFails(w) ==
  /\ Drop(w, "claiming")
  /\ SetRow(w, "failed")
  /\ CallFails(w) /\ Interrupted(w)
  /\ UNCHANGED <<queue, scores, published>>

\* OutcomeMatchesScore: the error of the work is not looked at.
WorkErrorCompletes(w) ==
  /\ Goto(w, "working", "completing")
  /\ UNCHANGED <<row, queue, held, scores, published, lossVars>>

\* AtMostOneScore: a job that could not be completed is queued again.
FinishErrorRequeues(w) ==
  /\ Drop(w, "completing") \/ Drop(w, "failing")
  /\ CallFails(w) /\ Interrupted(w)
  /\ SetRow(w, "queued")
  /\ queue' = Append(queue, held[w])
  /\ UNCHANGED <<scores, published>>

\* EventsFollowRow: the event is published whatever the UPDATE returned.
FinishErrorPublishes(w) ==
  /\ \/ Drop(w, "completing") /\ Event(w, "completed")
     \/ Drop(w, "failing") /\ Event(w, "failed")
  /\ CallFails(w) /\ Interrupted(w)
  /\ UNCHANGED <<row, queue, scores>>

-------------------------------------------------------------------------------
(* Store.Enqueue, called once per job by an HTTP request.                  *)

\* INSERT INTO jobs ... 'queued'.
Insert(j) ==
  /\ ApiGoto(j, "idle", "pushing")
  /\ row' = [row EXCEPT ![j] = "queued"]
  /\ UNCHANGED <<queue, published, hit, faults>>

\* The INSERT commits and its reply is lost: Enqueue returns the error.
InsertReplyLost(j) ==
  /\ ApiGoto(j, "idle", "failed")
  /\ row' = [row EXCEPT ![j] = "queued"]
  /\ Fault /\ hit' = hit \cup {j}
  /\ UNCHANGED <<queue, published>>

\* LPUSH.
Push(j) ==
  /\ ApiGoto(j, "pushing", "publishing")
  /\ queue' = Append(queue, j)
  /\ UNCHANGED <<row, published, hit, faults>>

\* The LPUSH fails; its error is discarded and the request goes on.
PushLost(j) ==
  /\ ApiGoto(j, "pushing", "publishing")
  /\ Fault /\ hit' = hit \cup {j}
  /\ UNCHANGED <<row, queue, published>>

\* The client repeats an LPUSH whose reply it did not get.
PushTwice(j) ==
  /\ ApiGoto(j, "pushing", "publishing")
  /\ queue' = Append(Append(queue, j), j)
  /\ Fault
  /\ UNCHANGED <<row, published, hit>>

PublishQueued(j) ==
  /\ ApiGoto(j, "publishing", "done")
  /\ published' = [published EXCEPT ![j] = @ \cup {"queued"}]
  /\ UNCHANGED <<row, queue, hit, faults>>

PublishQueuedLost(j) ==
  /\ ApiGoto(j, "publishing", "done")
  /\ Fault
  /\ UNCHANGED <<row, queue, published, hit>>

\* The API process dies in the middle of Enqueue.
ApiCrash(j) ==
  /\ api[j] \in {"pushing", "publishing"}
  /\ api' = [api EXCEPT ![j] = "failed"]
  /\ Fault
  /\ hit' = IF api[j] = "pushing" THEN hit \cup {j} ELSE hit
  /\ UNCHANGED <<row, queue, workerVars, published, unreported, stops>>

-------------------------------------------------------------------------------
(* The worker's loop.                                                      *)

\* select on ctx.Done() at the top of the loop.
Stop(w) ==
  /\ w \in stopping
  /\ Goto(w, "loop", "down")
  /\ UNCHANGED <<row, queue, held, scores, published, lossVars>>

Poll(w) ==
  /\ w \notin stopping
  /\ Goto(w, "loop", "popping")
  /\ UNCHANGED <<row, queue, held, scores, published, lossVars>>

\* BRPOP blocks five seconds at most on an empty list.
PopTimeout(w) ==
  /\ queue = <<>>
  /\ Goto(w, "popping", "loop")
  /\ UNCHANGED <<row, queue, held, scores, published, lossVars>>

\* A BRPOP in flight may still succeed when the context is cancelled.
Pop(w) ==
  /\ queue # <<>>
  /\ Goto(w, "popping", "claiming")
  /\ held' = [held EXCEPT ![w] = Head(queue)]
  /\ queue' = Tail(queue)
  /\ UNCHANGED <<row, scores, published, lossVars>>

\* Redis pops the id and the reply is lost: nobody has it any more.
PopReplyLost(w) ==
  /\ queue # <<>>
  /\ Goto(w, "popping", "loop")
  /\ Fault
  /\ queue' = Tail(queue)
  /\ hit' = hit \cup {Head(queue)}
  /\ UNCHANGED <<row, held, scores, published, unreported>>

\* BRPOP fails and pops nothing: no connection, or the context is cancelled.
PopError(w) ==
  /\ Goto(w, "popping", "loop")
  /\ CallFails(w)
  /\ UNCHANGED <<row, queue, held, scores, published, hit>>

\* UPDATE ... SET status = 'running' WHERE id = $1 AND status = 'queued'.
Claim(w) ==
  /\ w \notin stopping
  /\ Goto(w, "claiming", "publishRunning")
  /\ row[held[w]] = "queued"
  /\ SetRow(w, "running")
  /\ UNCHANGED <<queue, held, scores, published, lossVars>>

\* The UPDATE finds no queued row: sql.ErrNoRows.
ClaimNoRow(w) ==
  /\ w \notin stopping
  /\ Drop(w, "claiming")
  /\ row[held[w]] # "queued"
  /\ UNCHANGED <<row, queue, scores, published, lossVars>>

\* The UPDATE is not executed: the popped id is gone from Redis.
ClaimError(w) ==
  /\ Drop(w, "claiming")
  /\ CallFails(w) /\ Interrupted(w)
  /\ UNCHANGED <<row, queue, scores, published>>

\* The UPDATE commits and the worker sees an error.
ClaimReplyLost(w) ==
  /\ Drop(w, "claiming")
  /\ row[held[w]] = "queued"
  /\ SetRow(w, "running")
  /\ ReplyFails(w) /\ Interrupted(w)
  /\ UNCHANGED <<queue, scores, published>>

PublishRunning(w) ==
  /\ w \notin stopping
  /\ Goto(w, "publishRunning", "working")
  /\ Event(w, "running")
  /\ UNCHANGED <<row, queue, held, scores, lossVars>>

\* The error of the publish is discarded and the job is executed.
PublishRunningLost(w) ==
  /\ Goto(w, "publishRunning", "working")
  /\ CallFails(w)
  /\ UNCHANGED <<row, queue, held, scores, published, hit>>

\* UpsertLeadEmbedding or ScoreLead returns a result.
WorkOk(w) ==
  /\ w \notin stopping
  /\ Goto(w, "working", "completing")
  /\ AddScore(w)
  /\ UNCHANGED <<row, queue, held, published, lossVars>>

\* It returns an error before its last write: no lead, no model, no database.
WorkError(w) ==
  /\ Goto(w, "working", "failing")
  /\ UNCHANGED <<row, queue, held, scores, published, lossVars>>

\* Its last write commits and it returns an error all the same.
WorkReplyLost(w) ==
  /\ Goto(w, "working", "failing")
  /\ AddScore(w)
  /\ ReplyFails(w) /\ Interrupted(w)
  /\ UNCHANGED <<row, queue, held, published>>

\* Store.Complete and Store.Fail: UPDATE ... WHERE id = $1, then publish.
Complete(w) ==
  /\ w \notin stopping
  /\ Goto(w, "completing", "publishCompleted")
  /\ SetRow(w, "completed")
  /\ UNCHANGED <<queue, held, scores, published, lossVars>>

Fail(w) ==
  /\ w \notin stopping
  /\ Goto(w, "failing", "publishFailed")
  /\ SetRow(w, "failed")
  /\ UNCHANGED <<queue, held, scores, published, lossVars>>

\* The end of the job cannot be written down, though nothing fails: the result
\* of a score job holds the similarity NaN of a zero vector, which json.Marshal
\* refuses before the UPDATE, or the error of a failed job quotes bytes of the
\* embedding provider that Postgres refuses as text.  The worker goes on.
FinishRefused(w) ==
  /\ \/ held[w] \in ScoreJobs /\ Drop(w, "completing")
     \/ w \notin stopping /\ Drop(w, "failing")
  /\ unreported' = unreported \cup {held[w]}
  /\ UNCHANGED <<row, queue, scores, published, hit, faults>>

\* The UPDATE is not executed; the worker logs it, if at all, and goes on.
FinishError(w) ==
  /\ Drop(w, "completing") \/ Drop(w, "failing")
  /\ CallFails(w) /\ Interrupted(w)
  /\ UNCHANGED <<row, queue, scores, published>>

\* The UPDATE commits, the worker sees an error, and nothing is published.
FinishReplyLost(w) ==
  /\ \/ Drop(w, "completing") /\ SetRow(w, "completed")
     \/ Drop(w, "failing") /\ SetRow(w, "failed")
  /\ ReplyFails(w)
  /\ UNCHANGED <<queue, scores, published, hit>>

PublishFinal(w) ==
  /\ w \notin stopping
  /\ \/ Drop(w, "publishCompleted") /\ Event(w, "completed")
     \/ Drop(w, "publishFailed") /\ Event(w, "failed")
  /\ UNCHANGED <<row, queue, scores, lossVars>>

PublishFinalLost(w) ==
  /\ Drop(w, "publishCompleted") \/ Drop(w, "publishFailed")
  /\ CallFails(w)
  /\ UNCHANGED <<row, queue, scores, published, hit>>

-------------------------------------------------------------------------------
(* The worker's process.                                                   *)

\* SIGTERM cancels the context of signal.NotifyContext.
Shutdown(w) ==
  /\ stops < MaxStops
  /\ pc[w] # "down" /\ w \notin stopping
  /\ stopping' = stopping \cup {w}
  /\ caught' = caught \cup {w}
  /\ stops' = stops + 1
  /\ UNCHANGED <<row, api, queue, pc, held, scores, published, lossVars>>

\* The process is killed; nothing gives its job to anybody else.
Crash(w) ==
  /\ pc[w] # "down"
  /\ Fault
  /\ pc' = [pc EXCEPT ![w] = "down"]
  /\ held' = [held EXCEPT ![w] = None]
  /\ caught' = caught \ {w}
  /\ hit' = IF held[w] = None THEN hit ELSE hit \cup {held[w]}
  /\ UNCHANGED <<row, api, queue, stopping, scores, published, unreported, stops>>

\* A new process takes the place of the one that ended.
Restart(w) ==
  /\ pc[w] = "down"
  /\ pc' = [pc EXCEPT ![w] = "loop"]
  /\ stopping' = stopping \ {w}
  /\ UNCHANGED <<row, api, queue, held, caught, scores, published, faultVars>>

-------------------------------------------------------------------------------
EnqueueStep(j) == Insert(j) \/ Push(j) \/ PublishQueued(j)

EnqueueFault(j) ==
  \/ InsertReplyLost(j) \/ PushLost(j) \/ PushTwice(j)
  \/ PublishQueuedLost(j) \/ ApiCrash(j)

WorkerStep(w) ==
  \/ Stop(w) \/ Poll(w) \/ PopTimeout(w) \/ Pop(w)
  \/ Claim(w) \/ ClaimNoRow(w) \/ PublishRunning(w)
  \/ WorkOk(w) \/ WorkError(w)
  \/ Complete(w) \/ Fail(w) \/ FinishRefused(w) \/ PublishFinal(w)

WorkerFault(w) ==
  \/ PopReplyLost(w) \/ PopError(w) \/ ClaimError(w) \/ ClaimReplyLost(w)
  \/ PublishRunningLost(w) \/ WorkReplyLost(w)
  \/ FinishError(w) \/ FinishReplyLost(w) \/ PublishFinalLost(w)

Process(w) == Shutdown(w) \/ Crash(w) \/ Restart(w)

Next ==
  \/ \E j \in Jobs : EnqueueStep(j) \/ EnqueueFault(j)
  \/ \E w \in Workers : WorkerStep(w) \/ WorkerFault(w) \/ Process(w)

(***************************************************************************)
(* A request that has inserted its row goes on, and a live worker goes on, *)
(* its refused calls included once it is stopping.  Nothing obliges anyone *)
(* to enqueue a job, a fault to happen, or a dead worker to be restarted:  *)
(* docker-compose.yml gives the worker no restart policy.                  *)
(***************************************************************************)
Fairness ==
  /\ \A j \in Jobs : WF_vars(Push(j) \/ PublishQueued(j))
  /\ \A w \in Workers :
       WF_vars(WorkerStep(w) \/ (w \in stopping /\ WorkerFault(w)))

SafetySpec == Init /\ [][Next]_vars
Spec       == SafetySpec /\ Fairness

-------------------------------------------------------------------------------
(* Properties.                                                             *)

\* The type of every variable, and a worker holds an id exactly between the
\* BRPOP that gave it and the end of the loop body (main.go, the variable job).
HoldingPc == WorkerPc \ {"down", "loop", "popping"}

HeldMatchesPc == \A w \in Workers : held[w] \in Jobs <=> pc[w] \in HoldingPc

TypeOK ==
  /\ row \in [Jobs -> Status]
  /\ api \in [Jobs -> ApiPc]
  /\ queue \in Seq(Jobs)
  /\ pc \in [Workers -> WorkerPc]
  /\ held \in [Workers -> Jobs \cup {None}]
  /\ stopping \subseteq Workers
  /\ caught \subseteq {w \in stopping : pc[w] # "down"}
  /\ scores \in [Jobs -> Nat]
  /\ published \in [Jobs -> SUBSET Status]
  /\ hit \subseteq Jobs
  /\ unreported \subseteq Jobs
  /\ faults \in Nat /\ stops \in Nat
  /\ HeldMatchesPc

\* However often an id is in the list, one worker at a time executes the job,
\* and only while its row says running: what the guard of ClaimNext's UPDATE
\* must give, since Complete and Fail update by id alone.
Owns(w, j) == pc[w] \in OwnerPc /\ held[w] = j

ExclusiveOwner ==
  /\ \A w \in Workers, j \in Jobs : Owns(w, j) => row[j] = "running"
  /\ \A v, w \in Workers, j \in Jobs : Owns(v, j) /\ Owns(w, j) => v = w

\* A job leaves at most one row in lead_scores, whatever is lost, repeated
\* or killed: nothing in the worker deduplicates CreateScore.
AtMostOneScore == \A j \in Jobs : scores[j] <= 1

\* The outcome the client polls agrees with what the job has done: completed
\* score jobs have their score, and a failed one has a score only if the
\* reply to its INSERT was lost.
OutcomeMatchesScore ==
  \A j \in ScoreJobs :
    /\ row[j] = "completed" => scores[j] = 1
    /\ row[j] = "failed" /\ j \notin hit => scores[j] = 0

\* An event tells of a status the row has reached, and never of both
\* outcomes of one job: the browser reads the score when it sees completed.
EventsFollowRow ==
  \A j \in Jobs :
    /\ "queued" \in published[j] => row[j] # "absent"
    /\ "running" \in published[j] => row[j] \in {"running"} \cup Final
    /\ \A s \in Final : s \in published[j] => row[j] = s

\* A row that is not final either has somebody to bring it forward (the
\* request about to push it, the list, a worker), or was interrupted by a
\* fault or a SIGTERM, or is a running job whose end could not be written down.
InList(j, q) == \E i \in 1..Len(q) : q[i] = j

InGoodHands(j) ==
  \/ row[j] = "queued" /\ api[j] = "pushing"
  \/ row[j] = "queued" /\ InList(j, queue)
  \/ row[j] = "queued" /\ \E w \in Workers : pc[w] = "claiming" /\ held[w] = j
  \/ row[j] = "running" /\ \E w \in Workers : Owns(w, j)

LostOnlyIfInterrupted ==
  \A j \in Jobs : row[j] \in {"queued", "running"} =>
    InGoodHands(j) \/ j \in hit \/ (row[j] = "running" /\ j \in unreported)

\* No step changes the status of a job that is completed or failed, though
\* neither UPDATE of Complete and Fail looks at the status it replaces.
FinalIsFinal ==
  [][\A j \in Jobs : row[j] \in Final => row'[j] = row[j]]_vars

\* The queue, its workers and all their failures implement the life of a job
\* in JobLifecycle.
Lifecycle == INSTANCE JobLifecycle
  WITH status <- row, scored <- {j \in Jobs : scores[j] > 0}

ImplementsLifecycle == Lifecycle!Spec

\* The invariant the proofs are by induction on: the properties above, with
\* what ties them to the position of each request and of each worker.
RowMatchesPc ==
  /\ \A j \in Jobs : row[j] = "absent" <=> api[j] = "idle"
  /\ \A w \in Workers :
       /\ pc[w] = "publishCompleted" => row[held[w]] = "completed"
       /\ pc[w] = "publishFailed" => row[held[w]] = "failed"

ScoreMatchesPc ==
  /\ \A j \in Jobs : row[j] \in {"absent", "queued"} => scores[j] = 0
  /\ \A w \in Workers :
       /\ pc[w] \in {"publishRunning", "working"} => scores[held[w]] = 0
       /\ pc[w] = "completing" /\ held[w] \in ScoreJobs => scores[held[w]] = 1
       /\ pc[w] = "failing" /\ held[w] \notin hit => scores[held[w]] = 0

Ownership == ExclusiveOwner /\ RowMatchesPc

Scoring == AtMostOneScore /\ OutcomeMatchesScore /\ ScoreMatchesPc

IInv == TypeOK /\ Ownership /\ Scoring /\ EventsFollowRow /\ LostOnlyIfInterrupted

\* As long as some worker stays up, no job is left queued or running in the
\* end that was not interrupted and whose end can be written down; a repeated
\* LPUSH does not count as an interruption.
SomeWorkerStaysUp == <>[](\E w \in Workers : pc[w] # "down" /\ w \notin stopping)

EveryJobProgresses ==
  SomeWorkerStaysUp =>
    <>[](\A j \in Jobs :
           row[j] \in {"queued", "running"} => j \in hit \/ j \in unreported)

\* docs/architecture.md:80-81 without the exceptions: a job that Enqueue has
\* returned to the API reaches a worker ...
EveryQueuedJobStarts ==
  SomeWorkerStaysUp => \A j \in Jobs : api[j] = "done" ~> row[j] # "queued"

\* ... and the worker "updates job state" (line 41) once it is done with a job
\* whose start it has announced and whose end it can write down.
EveryStartedJobFinishes ==
  SomeWorkerStaysUp =>
    \A j \in Jobs :
      "running" \in published[j] ~> row[j] \in Final \/ j \in unreported
===============================================================================
