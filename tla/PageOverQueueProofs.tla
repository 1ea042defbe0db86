-------------------------- MODULE PageOverQueueProofs --------------------------
(***************************************************************************)
(* The page over the real queue, for all jobs, workers and bounds: the     *)
(* queue behaves as JobQueue, the page as LeadPage, and what is proved of  *)
(* both holds of the whole.                                                *)
(***************************************************************************)
EXTENDS PageOverQueue, JobQueueProofs

\* What the page is told of the queue, by the names LeadPage has for it.
Scored == {j \in Jobs : scores[j] > 0}
Outbox == {EventOf(w) : w \in Publishers}

\* One event of a job is on its way, if any.
OnePublisher == \A v, w \in Publishers : held[v] = held[w] => v = w

LiveInv == IInv /\ OnePublisher

-------------------------------------------------------------------------------
(* The queue                                                               *)

LEMMA QueueStep == [LiveNext]_liveVars => [Next]_vars
<1>1. ASSUME NEW j \in Jobs, EnqueueJob(j)
      PROVE  EnqueueStep(j) \/ EnqueueFault(j)
  BY <1>1 DEF EnqueueJob, EnqueueStep, EnqueueFault
<1>2. ASSUME NEW w \in Workers, WorkJob(w)
      PROVE  WorkerStep(w) \/ WorkerFault(w) \/ Process(w)
  BY <1>2 DEF WorkJob, Aside, WorkerStep, WorkerFault, Process
<1>3. ASSUME UsePage \/ UNCHANGED liveVars
      PROVE  UNCHANGED vars
  BY <1>3 DEF UsePage, liveVars
<1>. QED
  BY <1>1, <1>2, <1>3 DEF LiveNext, Next

\* Over the page, the queue is JobQueue.
THEOREM QueueUnderPage == LiveSpec => SafetySpec
<1>1. LiveInit => Init
  BY DEF LiveInit
<1>. QED
  BY <1>1, QueueStep, PTL DEF LiveSpec, SafetySpec

\* A step of a worker leaves the others alone.
OthersStay(w) == \A v \in Workers \ {w} : pc'[v] = pc[v] /\ held'[v] = held[v]

Quietly(w) == pc[w] \notin PublishPc /\ pc'[w] \notin PublishPc /\ OthersStay(w)

LEMMA QuietSteps ==
  ASSUME TypeOK, NEW w \in Workers,
         \/ Stop(w) \/ Poll(w) \/ PopTimeout(w) \/ Pop(w) \/ Claim(w) \/ ClaimNoRow(w)
         \/ PublishRunning(w) \/ WorkError(w) \/ PopReplyLost(w) \/ PopError(w)
         \/ ClaimError(w) \/ ClaimReplyLost(w) \/ PublishRunningLost(w) \/ FinishError(w)
         \/ Restart(w) \/ WorkOk(w) \/ WorkReplyLost(w) \/ FinishReplyLost(w)
         \/ FinishRefused(w)
  PROVE  Quietly(w)
<1>. USE DEF TypeOK, Quietly, OthersStay, PublishPc, Goto, Drop, workerVars
<1>1. CASE Stop(w) \/ Poll(w) \/ PopTimeout(w) \/ Pop(w) \/ PopReplyLost(w) \/ PopError(w)
  BY <1>1 DEF Stop, Poll, PopTimeout, Pop, PopReplyLost, PopError
<1>2. CASE Claim(w) \/ ClaimNoRow(w) \/ ClaimError(w) \/ ClaimReplyLost(w)
  BY <1>2 DEF Claim, ClaimNoRow, ClaimError, ClaimReplyLost
<1>3. CASE PublishRunning(w) \/ PublishRunningLost(w) \/ WorkOk(w) \/ WorkError(w) \/ WorkReplyLost(w)
  BY <1>3 DEF PublishRunning, PublishRunningLost, WorkOk, WorkError, WorkReplyLost
<1>4. CASE FinishError(w) \/ FinishReplyLost(w) \/ FinishRefused(w)
  BY <1>4 DEF FinishError, FinishReplyLost, FinishRefused
<1>5. CASE Restart(w)
  BY <1>5 DEF Restart
<1>. QED
  BY <1>1, <1>2, <1>3, <1>4, <1>5

\* Complete and Fail are the only ways to a publish.
LEMMA FinishSteps ==
  ASSUME TypeOK, NEW w \in Workers, Complete(w) \/ Fail(w)
  PROVE  /\ pc[w] \in {"completing", "failing"} /\ OthersStay(w) /\ held'[w] = held[w]
         /\ \/ pc'[w] = "publishCompleted" /\ row' = [row EXCEPT ![held[w]] = "completed"]
               /\ pc[w] = "completing"
            \/ pc'[w] = "publishFailed" /\ row' = [row EXCEPT ![held[w]] = "failed"]
         /\ scores' = scores
BY DEF Complete, Fail, Goto, SetRow, TypeOK, OthersStay

LEMMA LeaveSteps ==
  ASSUME TypeOK, NEW w \in Workers, PublishFinal(w) \/ PublishFinalLost(w) \/ Crash(w)
  PROVE  /\ pc'[w] \notin PublishPc /\ OthersStay(w) /\ row' = row /\ scores' = scores
         /\ ~Crash(w) => w \in Publishers
BY DEF PublishFinal, PublishFinalLost, Crash, Goto, Drop, TypeOK, OthersStay, Publishers, PublishPc

\* PARTB
-------------------------------------------------------------------------------
(* The events on their way                                                 *)

LEMMA OutboxStays ==
  ASSUME NEW w \in Workers, Quietly(w) \/ (pc'[w] = pc[w] /\ held'[w] = held[w] /\ OthersStay(w))
  PROVE  Outbox' = Outbox /\ (OnePublisher => OnePublisher')
<1>1. /\ Publishers' = Publishers
      /\ \A v \in Publishers : pc'[v] = pc[v] /\ held'[v] = held[v]
  BY DEF Quietly, OthersStay, Publishers
<1>2. \A v \in Publishers : EventOf(v)' = EventOf(v)
  BY <1>1 DEF EventOf, Outcome
<1>. QED
  BY <1>1, <1>2 DEF Outbox, OnePublisher

LEMMA OutboxGrows ==
  ASSUME NEW w \in Workers, pc[w] \notin PublishPc, pc'[w] \in PublishPc, OthersStay(w)
  PROVE  Outbox' = Outbox \cup {EventOf(w)'}
<1>1. /\ Publishers' = Publishers \cup {w} /\ w \notin Publishers
      /\ \A v \in Publishers : pc'[v] = pc[v] /\ held'[v] = held[v]
  BY DEF OthersStay, Publishers
<1>2. \A v \in Publishers : EventOf(v)' = EventOf(v)
  BY <1>1 DEF EventOf, Outcome
<1>. QED
  BY <1>1, <1>2 DEF Outbox

LEMMA OutboxShrinks ==
  ASSUME OnePublisher, NEW w \in Publishers, pc'[w] \notin PublishPc, OthersStay(w)
  PROVE  Outbox' = Outbox \ {EventOf(w)} /\ OnePublisher'
<1>1. /\ Publishers' = Publishers \ {w}
      /\ \A v \in Publishers \ {w} : pc'[v] = pc[v] /\ held'[v] = held[v]
  BY DEF OthersStay, Publishers
<1>2. \A v \in Publishers \ {w} : EventOf(v)' = EventOf(v) /\ EventOf(v) # EventOf(w)
  BY <1>1 DEF EventOf, Outcome, OnePublisher
<1>. QED
  BY <1>1, <1>2 DEF Outbox, OnePublisher

\* While one worker finishes a job, none publishes its end: the row says running.
LEMMA NextOnePublisher == LiveInv /\ [LiveNext]_liveVars => OnePublisher'
<1>. SUFFICES ASSUME LiveInv, [LiveNext]_liveVars
              PROVE  OnePublisher'
  OBVIOUS
<1>0. TypeOK /\ OnePublisher
  BY DEF LiveInv, IInv
<1>a. ASSUME UNCHANGED <<pc, held>>
      PROVE  OnePublisher'
  BY <1>0, <1>a DEF OnePublisher, Publishers
<1>1. ASSUME NEW w \in Workers, Quietly(w)
      PROVE  OnePublisher'
  BY <1>0, <1>1, OutboxStays
<1>2. ASSUME NEW w \in Workers, Complete(w) \/ Fail(w)
      PROVE  OnePublisher'
  <2>1. /\ pc[w] \in OwnerPc /\ w \notin Publishers /\ held'[w] = held[w] /\ OthersStay(w)
    BY <1>0, <1>2, FinishSteps DEF OwnerPc, Publishers, PublishPc
  <2>2. row[held[w]] = "running"
    BY <1>0, <2>1 DEF LiveInv, IInv, Ownership, ExclusiveOwner, Owns, TypeOK, HeldMatchesPc,
       HoldingPc, OwnerPc, WorkerPc
  <2>3. \A v \in Publishers : held[v] # held[w]
    BY <2>2 DEF LiveInv, IInv, Ownership, RowMatchesPc, Publishers, PublishPc
  <2>4. \A v \in Publishers' : (v = w \/ v \in Publishers) /\ held'[v] = held[v]
    BY <2>1 DEF OthersStay, Publishers
  <2>. QED
    BY <1>0, <2>3, <2>4 DEF OnePublisher
<1>3. ASSUME NEW w \in Workers, PublishFinal(w) \/ PublishFinalLost(w) \/ Crash(w)
      PROVE  OnePublisher'
  <2>1. pc'[w] \notin PublishPc /\ OthersStay(w)
    BY <1>0, <1>3, LeaveSteps
  <2>2. CASE w \in Publishers
    BY <1>0, <2>1, <2>2, OutboxShrinks
  <2>3. CASE w \notin Publishers
    BY <1>1, <2>1, <2>3 DEF Quietly, Publishers
  <2>. QED
    BY <2>2, <2>3
<1>4. ASSUME NEW w \in Workers, WorkerStep(w) \/ WorkerFault(w) \/ Process(w)
      PROVE  OnePublisher'
  <2>1. CASE Shutdown(w)
    BY <1>a, <2>1 DEF Shutdown
  <2>. QED
    BY <1>0, <1>1, <1>2, <1>3, <1>4, <2>1, QuietSteps DEF WorkerStep, WorkerFault, Process
<1>5. ASSUME NEW j \in Jobs, EnqueueStep(j) \/ EnqueueFault(j)
      PROVE  OnePublisher'
  <2>1. UNCHANGED <<pc, held>>
    BY <1>5 DEF EnqueueStep, EnqueueFault, Insert, InsertReplyLost, Push, PushLost, PushTwice,
       PublishQueued, PublishQueuedLost, ApiCrash, ApiGoto, workerVars
  <2>. QED
    BY <1>a, <2>1
<1>6. CASE UNCHANGED vars
  BY <1>a, <1>6 DEF vars
<1>. QED
  BY <1>4, <1>5, <1>6, QueueStep DEF Next

\* What is proved of the queue, and that no job is published twice.
THEOREM LiveInvariant == LiveSpec => []LiveInv
<1>1. LiveInit => OnePublisher
  BY DEF LiveInit, Init, OnePublisher, Publishers, PublishPc
<1>2. LiveSpec => []IInv
  BY QueueUnderPage, InductiveInvariant, PTL
<1>3. IInv /\ OnePublisher /\ [LiveNext]_liveVars => OnePublisher'
  BY NextOnePublisher DEF LiveInv
<1>4. IInv /\ OnePublisher => LiveInv
  BY DEF LiveInv
<1>. QED
  BY <1>1, <1>2, <1>3, <1>4, PTL DEF LiveSpec

-------------------------------------------------------------------------------
(* What the queue does to the page, by the actions of LeadPage             *)

Simulated == [Page!Next]_(Page!vars)

LEMMA PageSets ==
  /\ Page!ScoringJobs = ScoreJobs /\ Page!Jobs = Jobs /\ Page!Life!Jobs = Jobs
  /\ PageJobs \subseteq Jobs
BY PageAssumption DEF Page!ScoringJobs, Page!Jobs, Page!Life!Jobs, Jobs

\* The page but for its clicks.
PageStays == UNCHANGED <<newest, socket, inbox, loaded, scoring, shown, refreshes,
                         missed, stale, mishaps>>

LEMMA Stutters ==
  ASSUME row' = row, Scored' = Scored, Outbox' = Outbox, PageStays, post' = post
  PROVE  Simulated
BY DEF Simulated, Page!vars, Page!life, Page!page, Scored, Outbox, PageStays

LEMMA Submits ==
  ASSUME NEW j \in Jobs, row[j] = "absent", row' = [row EXCEPT ![j] = "queued"],
         Scored' = Scored, Outbox' = Outbox, PageStays,
         \/ post' = post /\ Requested(j)
         \/ j \in PageJobs /\ post[j] = "sent" /\ post' = [post EXCEPT ![j] = "refused"]
  PROVE  Simulated
<1>1. Page!Life!Submit(j)
  BY DEF Page!Life!Submit, Scored
<1>2. CASE j \notin PageJobs /\ post' = post
  <2>1. Page!SubmitElsewhere(j)
    BY <1>1, <1>2 DEF Page!SubmitElsewhere, Page!page, PageStays, Outbox, Jobs
  <2>. QED
    BY <2>1, PageSets DEF Simulated, Page!Next
<1>3. CASE j \in PageJobs /\ post' = post
  <2>1. Page!SubmitClick(j)
    BY <1>1, <1>3 DEF Requested, Page!SubmitClick, Page!page, PageStays, Outbox
  <2>. QED
    BY <1>3, <2>1 DEF Simulated, Page!Next
<1>4. CASE j \in PageJobs /\ post[j] = "sent" /\ post' = [post EXCEPT ![j] = "refused"]
  <2>1. Page!Refuse(j)
    BY <1>1, <1>4 DEF Page!Refuse, Page!page, PageStays, Outbox
  <2>. QED
    BY <1>4, <2>1 DEF Simulated, Page!Next
<1>. QED
  BY <1>2, <1>3, <1>4

LEMMA Starts ==
  ASSUME NEW j \in Jobs, row[j] = "queued", row' = [row EXCEPT ![j] = "running"],
         Scored' = Scored, Outbox' = Outbox, PageStays, post' = post
  PROVE  Simulated
<1>1. Page!Life!Start(j)
  BY DEF Page!Life!Start, Scored
<1>2. Page!Work(j)
  BY <1>1 DEF Page!Work, Page!Start, Page!page, PageStays, Outbox
<1>. QED
  BY <1>2, PageSets DEF Simulated, Page!Next

LEMMA Records ==
  ASSUME NEW j \in ScoreJobs \ Scored, row[j] = "running", row' = row,
         Scored' = Scored \cup {j}, Outbox' = Outbox, newest' = j, post' = post,
         UNCHANGED <<socket, inbox, loaded, scoring, shown, refreshes, missed, stale, mishaps>>
  PROVE  Simulated
<1>1. Page!Life!Record(j)
  BY PageSets DEF Page!Life!Record, Scored
<1>2. Page!Work(j) /\ j \in Page!Jobs
  BY <1>1, PageSets DEF Page!Work, Page!Record, Page!page, Outbox, Jobs
<1>. QED
  BY <1>2 DEF Simulated, Page!Next

\* The end of a job, told or not.
LEMMA Ends ==
  ASSUME NEW j \in Jobs, NEW s \in Final, row \in [Jobs -> Status], row[j] = "running",
         row' = [row EXCEPT ![j] = s],
         s = "completed" /\ j \in ScoreJobs => j \in Scored, Scored' = Scored,
         \/ Outbox' = Outbox \cup {[job |-> j, status |-> s]} /\ PageStays /\ post' = post
         \/ Outbox' = Outbox /\ Untold
  PROVE  Simulated
<1>1. Page!Life!Complete(j) \/ Page!Life!Fail(j)
  BY PageSets DEF Page!Life!Complete, Page!Life!Fail, Scored, Final
<1>2. CASE Outbox' = Outbox \cup {[job |-> j, status |-> s]} /\ PageStays /\ post' = post
  <2>1. row'[j] = s
    OBVIOUS
  <2>2. Page!End(j)
    BY <1>1, <1>2, <2>1 DEF Page!End, Page!page, PageStays, Outbox
  <2>. QED
    BY <2>2, PageSets DEF Simulated, Page!Next, Page!Work
<1>3. CASE Outbox' = Outbox /\ Untold
  <2>1. Page!EndUntold(j)
    BY <1>1, <1>3 DEF Page!EndUntold, Page!page, Untold, Outbox
  <2>. QED
    BY <2>1, PageSets DEF Simulated, Page!Next
<1>. QED
  BY <1>2, <1>3

\* What becomes of an event that was on its way.
LEMMA Publishes ==
  ASSUME NEW w \in Publishers, row' = row, Scored' = Scored, Outbox' = Outbox \ {EventOf(w)},
         Told(w) \/ Untold
  PROVE  Simulated
<1>1. EventOf(w) \in Outbox
  BY DEF Outbox
<1>2. CASE Told(w)
  <2>1. Page!Publish(EventOf(w))
    BY <1>2 DEF Page!Publish, Page!life, Page!page, Told, Scored, Outbox
  <2>. QED
    BY <1>1, <2>1 DEF Simulated, Page!Next, Outbox
<1>3. CASE Untold
  <2>1. Page!PublishLost(EventOf(w))
    BY <1>3 DEF Page!PublishLost, Page!life, Page!page, Untold, Scored, Outbox
  <2>. QED
    BY <1>1, <2>1 DEF Simulated, Page!Next, Outbox
<1>. QED
  BY <1>2, <1>3

\* What the user and the browser do.
LEMMA Uses ==
  ASSUME TypeOK, RowMatchesPc, UsePage
  PROVE  Simulated
<1>1. row' = row /\ Scored' = Scored /\ Outbox' = Outbox
  BY DEF UsePage, vars, Scored, Outbox, EventOf, Outcome, Publishers
<1>2. ASSUME NEW j \in PageJobs, Accept(j)
      PROVE  Page!Accept(j)
  <2>1. row[j] # "absent"
    BY <1>2, PageSets DEF Accept, RowMatchesPc
  <2>. QED
    BY <1>1, <1>2, <2>1 DEF Accept, Page!Accept, Page!life, Page!page, Scored, Outbox
<1>3. ASSUME NEW j \in PageJobs, Refuse(j)
      PROVE  Page!Refuse(j)
  BY <1>1, <1>3 DEF Refuse, RequestFails, Page!Refuse, Page!page, Scored, Outbox
<1>. QED
  BY <1>2, <1>3 DEF UsePage, Simulated, Page!Next

LEMMA ScoredGrows ==
  ASSUME TypeOK, NEW w \in Workers, held[w] \in ScoreJobs, scores[held[w]] = 0, AddScore(w)
  PROVE  Scored' = Scored \cup {held[w]}
<1>1. \A j \in Jobs : scores'[j] = IF j = held[w] THEN 1 ELSE scores[j]
  BY DEF AddScore, TypeOK, Jobs
<1>. QED
  BY <1>1 DEF Scored, Jobs

\* Every step of the whole is a step of LeadPage or changes nothing there.
LEMMA NextSimulated == LiveInv /\ [LiveNext]_liveVars => Simulated
<1>. SUFFICES ASSUME LiveInv, [LiveNext]_liveVars
              PROVE  Simulated
  OBVIOUS
<1>0. /\ TypeOK /\ OnePublisher /\ RowMatchesPc /\ ScoreMatchesPc
      /\ \A w \in Workers : pc[w] \in HoldingPc => held[w] \in Jobs
      /\ \A w \in Workers : pc[w] \in OwnerPc => row[held[w]] = "running"
  BY DEF LiveInv, IInv, Ownership, ExclusiveOwner, Owns, Scoring, TypeOK, HeldMatchesPc,
     HoldingPc, OwnerPc, WorkerPc
<1>1. ASSUME NEW j \in Jobs, EnqueueJob(j)
      PROVE  Simulated
  <2>1. Outbox' = Outbox /\ Scored' = Scored
    BY <1>1 DEF EnqueueJob, Insert, InsertReplyLost, Push, PushLost, PushTwice, PublishQueued,
       PublishQueuedLost, ApiCrash, ApiGoto, workerVars, Outbox, Scored, EventOf, Outcome, Publishers
  <2>2. CASE /\ Requested(j)
             /\ \/ Insert(j) /\ UNCHANGED pageVars
                \/ InsertReplyLost(j) /\ RequestFails(j)
    <3>1. row[j] = "absent" /\ row' = [row EXCEPT ![j] = "queued"]
      BY <1>0, <2>2 DEF Insert, InsertReplyLost, ApiGoto, RowMatchesPc
    <3>2. /\ PageStays
          /\ \/ post' = post /\ Requested(j)
             \/ j \in PageJobs /\ post[j] = "sent" /\ post' = [post EXCEPT ![j] = "refused"]
      BY <2>2 DEF RequestFails, PageStays, pageVars
    <3>. QED
      BY <2>1, <3>1, <3>2, Submits
  <2>3. CASE /\ \/ Push(j) \/ PushLost(j) \/ PushTwice(j)
                \/ PublishQueued(j) \/ PublishQueuedLost(j)
             /\ UNCHANGED pageVars
    <3>1. row' = row /\ PageStays /\ post' = post
      BY <2>3 DEF Push, PushLost, PushTwice, PublishQueued, PublishQueuedLost, PageStays, pageVars
    <3>. QED
      BY <2>1, <3>1, Stutters
  <2>4. CASE ApiCrash(j) /\ RequestFails(j)
    <3>1. row' = row /\ PageStays
      BY <2>4 DEF ApiCrash, RequestFails, PageStays
    <3>2. CASE j \in PageJobs /\ post[j] = "sent"
      <4>1. Page!Refuse(j)
        BY <2>1, <2>4, <3>1, <3>2 DEF RequestFails, Page!Refuse, Page!page, Scored, Outbox
      <4>. QED
        BY <3>2, <4>1 DEF Simulated, Page!Next
    <3>3. CASE ~(j \in PageJobs /\ post[j] = "sent")
      <4>1. post' = post
        BY <2>4, <3>3 DEF RequestFails
      <4>. QED
        BY <2>1, <3>1, <4>1, Stutters
    <3>. QED
      BY <3>2, <3>3
  <2>. QED
    BY <1>1, <2>2, <2>3, <2>4 DEF EnqueueJob
<1>2. ASSUME NEW w \in Workers, Aside(w), UNCHANGED pageVars
      PROVE  Simulated
  <2>0. PageStays /\ post' = post
    BY <1>2 DEF PageStays, pageVars
  <2>1. CASE Claim(w) \/ ClaimReplyLost(w)
    <3>1. /\ held[w] \in Jobs /\ row[held[w]] = "queued"
          /\ row' = [row EXCEPT ![held[w]] = "running"] /\ scores' = scores
      BY <1>0, <2>1 DEF Claim, ClaimReplyLost, Goto, Drop, SetRow, HoldingPc, WorkerPc, OwnerPc
    <3>2. Outbox' = Outbox /\ Scored' = Scored
      BY <1>0, <2>1, <3>1, QuietSteps, OutboxStays DEF Scored
    <3>. QED
      BY <2>0, <3>1, <3>2, Starts
  <2>2. CASE Complete(w) \/ Fail(w)
    <3>1. /\ pc[w] \in {"completing", "failing"} /\ OthersStay(w) /\ held'[w] = held[w]
          /\ scores' = scores
          /\ \/ /\ pc'[w] = "publishCompleted" /\ row' = [row EXCEPT ![held[w]] = "completed"]
                /\ pc[w] = "completing"
             \/ pc'[w] = "publishFailed" /\ row' = [row EXCEPT ![held[w]] = "failed"]
      BY <1>0, <2>2, FinishSteps
    <3>2. /\ held[w] \in Jobs /\ row[held[w]] = "running" /\ Scored' = Scored
          /\ row \in [Jobs -> Status]
      BY <1>0, <3>1 DEF HoldingPc, WorkerPc, OwnerPc, Scored, TypeOK
    <3>3. Outbox' = Outbox \cup {EventOf(w)'}
      BY <3>1, OutboxGrows DEF PublishPc
    <3>4. PICK s \in Final : /\ EventOf(w)' = [job |-> held[w], status |-> s]
                             /\ row' = [row EXCEPT ![held[w]] = s]
                             /\ s = "completed" => pc[w] = "completing"
      BY <3>1 DEF EventOf, Outcome, Final
    <3>5. s = "completed" /\ held[w] \in ScoreJobs => held[w] \in Scored
      BY <1>0, <3>2, <3>4 DEF ScoreMatchesPc, Scored
    <3>. QED
      BY <2>0, <3>2, <3>3, <3>4, <3>5, Ends
  <2>3. CASE Shutdown(w)
    <3>1. row' = row /\ scores' = scores /\ pc' = pc /\ held' = held
      BY <2>3 DEF Shutdown
    <3>2. Outbox' = Outbox /\ Scored' = Scored
      BY <3>1, OutboxStays DEF OthersStay, Scored
    <3>. QED
      BY <2>0, <3>1, <3>2, Stutters
  <2>4. CASE \/ Stop(w) \/ Poll(w) \/ PopTimeout(w) \/ Pop(w) \/ ClaimNoRow(w)
             \/ PublishRunning(w) \/ WorkError(w) \/ PopReplyLost(w) \/ PopError(w)
             \/ ClaimError(w) \/ PublishRunningLost(w) \/ FinishRefused(w) \/ FinishError(w)
             \/ Restart(w)
    <3>1. row' = row /\ scores' = scores
      BY <2>4 DEF Stop, Poll, PopTimeout, Pop, ClaimNoRow, PublishRunning, WorkError, PopReplyLost,
         PopError, ClaimError, PublishRunningLost, FinishRefused, FinishError, Restart
    <3>2. Outbox' = Outbox /\ Scored' = Scored
      BY <1>0, <2>4, <3>1, QuietSteps, OutboxStays DEF Scored
    <3>. QED
      BY <2>0, <3>1, <3>2, Stutters
  <2>. QED
    BY <1>2, <2>1, <2>2, <2>3, <2>4 DEF Aside
<1>3. ASSUME NEW w \in Workers, WorkOk(w) \/ WorkReplyLost(w), NewestScore(w)
      PROVE  Simulated
  <2>1. /\ held[w] \in Jobs /\ row[held[w]] = "running" /\ scores[held[w]] = 0
        /\ row' = row /\ AddScore(w)
    BY <1>0, <1>3 DEF WorkOk, WorkReplyLost, Goto, Drop, HoldingPc, WorkerPc, OwnerPc, ScoreMatchesPc
  <2>2. Outbox' = Outbox
    BY <1>0, <1>3, QuietSteps, OutboxStays
  <2>3. CASE held[w] \in ScoreJobs
    <3>1. Scored' = Scored \cup {held[w]} /\ held[w] \notin Scored
      BY <1>0, <2>1, <2>3, ScoredGrows DEF Scored
    <3>. QED
      BY <1>3, <2>1, <2>2, <2>3, <3>1, Records DEF NewestScore
  <2>4. CASE held[w] \notin ScoreJobs
    <3>1. scores' = scores
      BY <1>0, <2>1, <2>4 DEF AddScore, TypeOK
    <3>. QED
      BY <1>3, <2>1, <2>2, <2>4, <3>1, Stutters DEF NewestScore, PageStays, Scored
  <2>. QED
    BY <2>3, <2>4
<1>4. ASSUME NEW w \in Workers, \/ PublishFinal(w) /\ Told(w)
                                \/ PublishFinalLost(w) /\ Untold
                                \/ Crash(w) /\ w \in Publishers /\ Untold
      PROVE  Simulated
  <2>1. w \in Publishers /\ row' = row /\ scores' = scores /\ pc'[w] \notin PublishPc /\ OthersStay(w)
    <3>1. CASE Crash(w)
      BY <1>0, <1>4, <3>1, LeaveSteps DEF PublishFinal, PublishFinalLost, Drop, Goto, Publishers, PublishPc
    <3>2. CASE ~Crash(w)
      BY <1>0, <1>4, <3>2, LeaveSteps
    <3>. QED
      BY <3>1, <3>2
  <2>2. Outbox' = Outbox \ {EventOf(w)} /\ Scored' = Scored
    BY <1>0, <2>1, OutboxShrinks DEF Scored
  <2>. QED
    BY <1>4, <2>1, <2>2, Publishes
<1>5. ASSUME NEW w \in Workers, FinishReplyLost(w), Untold
      PROVE  Simulated
  <2>1. /\ pc[w] \in {"completing", "failing"} /\ scores' = scores
        /\ \/ pc[w] = "completing" /\ row' = [row EXCEPT ![held[w]] = "completed"]
           \/ row' = [row EXCEPT ![held[w]] = "failed"]
    BY <1>5 DEF FinishReplyLost, Drop, Goto, SetRow
  <2>2. /\ held[w] \in Jobs /\ row[held[w]] = "running" /\ Scored' = Scored
        /\ row \in [Jobs -> Status]
    BY <1>0, <2>1 DEF HoldingPc, WorkerPc, OwnerPc, Scored, TypeOK
  <2>3. Outbox' = Outbox
    BY <1>0, <1>5, QuietSteps, OutboxStays
  <2>4. PICK s \in Final : /\ row' = [row EXCEPT ![held[w]] = s]
                           /\ s = "completed" => pc[w] = "completing"
    BY <2>1 DEF Final
  <2>5. s = "completed" /\ held[w] \in ScoreJobs => held[w] \in Scored
    BY <1>0, <2>2, <2>4 DEF ScoreMatchesPc, Scored
  <2>. QED
    BY <1>5, <2>2, <2>3, <2>4, <2>5, Ends
<1>6. ASSUME NEW w \in Workers, Crash(w), w \notin Publishers, UNCHANGED pageVars
      PROVE  Simulated
  <2>1. row' = row /\ scores' = scores /\ Quietly(w)
    BY <1>0, <1>6, LeaveSteps DEF Quietly, Publishers
  <2>2. Outbox' = Outbox /\ Scored' = Scored
    BY <2>1, OutboxStays DEF Scored
  <2>. QED
    BY <1>6, <2>1, <2>2, Stutters DEF PageStays, pageVars
<1>7. ASSUME NEW w \in Workers, WorkJob(w)
      PROVE  Simulated
  BY <1>2, <1>3, <1>4, <1>5, <1>6, <1>7 DEF WorkJob
<1>8. CASE UsePage
  BY <1>0, <1>8, Uses
<1>9. CASE UNCHANGED liveVars
  <2>1. row' = row /\ Scored' = Scored /\ Outbox' = Outbox /\ PageStays /\ post' = post
    BY <1>9 DEF liveVars, vars, pageVars, PageStays, Scored, Outbox, EventOf, Outcome, Publishers
  <2>. QED
    BY <2>1, Stutters
<1>. QED
  BY <1>1, <1>7, <1>8, <1>9 DEF LiveNext

\* The API, the queue and its workers, with every failure of theirs, do to the
\* page nothing that LeadPage does not let happen.
THEOREM PageRefinement == LiveSpec => ImplementsPage
<1>1. LiveInit => Page!Init
  BY DEF LiveInit
<1>2. LiveInv /\ [LiveNext]_liveVars => [Page!Next]_(Page!vars)
  BY NextSimulated DEF Simulated
<1>. QED
  BY <1>1, <1>2, LiveInvariant, PTL DEF LiveSpec, ImplementsPage, Page!SafetySpec

-------------------------------------------------------------------------------
(* What is proved of the page.  LeadPage comes by two ways, and its        *)
(* definitions are the same by both.                                       *)

Proved == INSTANCE LeadPageProofs
  WITH OtherJobs <- ScoreJobs \ PageJobs, MaxFaults <- MaxMishaps,
       status <- row, scored <- {j \in Jobs : scores[j] > 0},
       outbox <- {EventOf(w) : w \in Publishers}, faults <- mishaps

LEMMA SameSlots == Page!Slots = Proved!Slots /\ Page!Jobs = Proved!Jobs
BY DEF Page!Slots, Proved!Slots, Page!Cardinality, Proved!Cardinality,
     Page!Jobs, Proved!Jobs, Page!ScoringJobs, Proved!ScoringJobs

LEMMA SameVars == Page!vars = Proved!vars
BY DEF Page!vars, Proved!vars, Page!life, Proved!life, Page!page, Proved!page

LEMMA SameInit == Page!Init <=> Proved!Init
BY SameSlots
DEF Page!Init, Proved!Init, Page!Life!Init, Proved!Life!Init,
     Page!Life!Jobs, Proved!Life!Jobs, Page!ScoringJobs, Proved!ScoringJobs,
     Page!At, Proved!At

LEMMA SameNext == Page!Next <=> Proved!Next
<1>. USE SameSlots
<1>1. ASSUME NEW j
      PROVE  Page!SubmitElsewhere(j) <=> Proved!SubmitElsewhere(j)
  BY DEF Page!SubmitElsewhere, Proved!SubmitElsewhere, Page!Life!Submit, Proved!Life!Submit,
     Page!page, Proved!page
<1>2. ASSUME NEW j
      PROVE  Page!Work(j) <=> Proved!Work(j)
  BY DEF Page!Work, Proved!Work, Page!Start, Proved!Start, Page!Record, Proved!Record,
     Page!End, Proved!End, Page!Life!Start, Proved!Life!Start,
     Page!Life!Record, Proved!Life!Record, Page!Life!Complete, Proved!Life!Complete,
     Page!Life!Fail, Proved!Life!Fail, Page!ScoringJobs, Proved!ScoringJobs,
     Page!page, Proved!page
<1>3. ASSUME NEW j
      PROVE  Page!EndUntold(j) <=> Proved!EndUntold(j)
  BY DEF Page!EndUntold, Proved!EndUntold, Page!Life!Complete, Proved!Life!Complete,
     Page!Life!Fail, Proved!Life!Fail, Page!ScoringJobs, Proved!ScoringJobs,
     Page!Misses, Proved!Misses, Page!page, Proved!page
<1>4. ASSUME NEW e
      PROVE  Page!Publish(e) <=> Proved!Publish(e)
  BY DEF Page!Publish, Proved!Publish, Page!Deliver, Proved!Deliver,
     Page!Misses, Proved!Misses, Page!life, Proved!life, Page!page, Proved!page
<1>5. ASSUME NEW e
      PROVE  Page!PublishLost(e) <=> Proved!PublishLost(e)
  BY DEF Page!PublishLost, Proved!PublishLost, Page!Misses, Proved!Misses,
     Page!life, Proved!life, Page!page, Proved!page
<1>6. Page!Subscribe <=> Proved!Subscribe
  BY DEF Page!Subscribe, Proved!Subscribe, Page!life, Proved!life, Page!page, Proved!page
<1>7. Page!Disconnect <=> Proved!Disconnect
  BY DEF Page!Disconnect, Proved!Disconnect, Page!Fault, Proved!Fault, Page!life, Proved!life,
     Page!page, Proved!page
<1>8. Page!Mount <=> Proved!Mount
  BY DEF Page!Mount, Proved!Mount, Page!Refresh, Proved!Refresh, Page!Idle, Proved!Idle,
     Page!At, Proved!At, Page!life, Proved!life
<1>9. Page!HandleEvent <=> Proved!HandleEvent
  BY DEF Page!HandleEvent, Proved!HandleEvent, Page!Refresh, Proved!Refresh,
     Page!Idle, Proved!Idle, Page!At, Proved!At, Page!Ends, Proved!Ends,
     Page!Refreshes, Proved!Refreshes, Page!Final, Proved!Final, Page!life, Proved!life
<1>10. ASSUME NEW i
       PROVE  Page!LeadAnswers(i) <=> Proved!LeadAnswers(i)
  BY DEF Page!LeadAnswers, Proved!LeadAnswers, Page!At, Proved!At, Page!life, Proved!life
<1>11. ASSUME NEW i
       PROVE  Page!ReadScore(i) <=> Proved!ReadScore(i)
  BY DEF Page!ReadScore, Proved!ReadScore, Page!Latest, Proved!Latest, Page!life, Proved!life
<1>12. ASSUME NEW i
       PROVE  Page!ShowScore(i) <=> Proved!ShowScore(i)
  BY DEF Page!ShowScore, Proved!ShowScore, Page!At, Proved!At, Page!life, Proved!life
<1>13. ASSUME NEW i
       PROVE  Page!RefreshFails(i) <=> Proved!RefreshFails(i)
  BY DEF Page!RefreshFails, Proved!RefreshFails, Page!Fault, Proved!Fault, Page!At, Proved!At,
     Page!life, Proved!life
<1>14. ASSUME NEW j
       PROVE  Page!Click(j) <=> Proved!Click(j)
  BY DEF Page!Click, Proved!Click, Page!life, Proved!life
<1>15. ASSUME NEW j
       PROVE  Page!SubmitClick(j) <=> Proved!SubmitClick(j)
  BY DEF Page!SubmitClick, Proved!SubmitClick, Page!Life!Submit, Proved!Life!Submit,
     Page!page, Proved!page
<1>16. ASSUME NEW j
       PROVE  Page!Accept(j) <=> Proved!Accept(j)
  BY DEF Page!Accept, Proved!Accept, Page!life, Proved!life, Page!page, Proved!page
<1>17. ASSUME NEW j
       PROVE  Page!Refuse(j) <=> Proved!Refuse(j)
  BY DEF Page!Refuse, Proved!Refuse, Page!Life!Submit, Proved!Life!Submit,
     Page!page, Proved!page
<1>18. ASSUME NEW j
       PROVE  Page!Failed(j) <=> Proved!Failed(j)
  BY DEF Page!Failed, Proved!Failed, Page!life, Proved!life
<1>. QED
  BY <1>1, <1>2, <1>3, <1>4, <1>5, <1>6, <1>7, <1>8, <1>9, <1>10, <1>11, <1>12, <1>13, <1>14, <1>15, <1>16, <1>17, <1>18
  DEF Page!Next, Proved!Next

LEMMA SameTold == \A j : Page!ToldOf(j) <=> Proved!ToldOf(j)
BY SameSlots DEF Page!ToldOf, Proved!ToldOf, Page!Events, Proved!Events, Page!Final, Proved!Final

LEMMA SameAssumption == Proved!LeadPageAssumption
BY PageAssumption, JobsAssumption
DEF Proved!LeadPageAssumption, Proved!ScoringJobs

LEMMA PageSpec == LiveSpec => Proved!SafetySpec
<1>1. [Page!Next]_(Page!vars) => [Proved!Next]_(Proved!vars)
  <2>1. UNCHANGED Page!vars => UNCHANGED Proved!vars
    BY DEF Page!vars, Proved!vars, Page!life, Proved!life, Page!page, Proved!page
  <2>. QED
    BY <2>1, SameNext
<1>. QED
  BY <1>1, SameInit, PageRefinement, PTL
  DEF ImplementsPage, Page!SafetySpec, Proved!SafetySpec

\* The inductive invariant of the page holds over the real queue.
LEMMA PageInvariant == LiveSpec => []Proved!IInv
BY PageSpec, SameAssumption, Proved!InductiveInvariant

\* A page that says Scoring... and has missed no event waits for an answer, for
\* a job of its own that the queue or a worker has, or for an event on its way,
\* unless the job was stranded, by a fault or a SIGTERM or because its end could
\* not be written down.
THEOREM NobodyWaitsInVainHolds == LiveSpec => []NobodyWaitsInVain
<1>1. LiveInv /\ Proved!IInv => NobodyWaitsInVain
  <2>. SUFFICES ASSUME LiveInv, Proved!IInv, scoring, ~missed
                PROVE  \E j \in PageJobs : post[j] # "idle" /\ StillToCome(j)
    BY DEF NobodyWaitsInVain
  <2>1. PICK j \in PageJobs : Proved!Awaited(j)
    BY DEF Proved!IInv, Proved!WaitsForItsJob
  <2>2. post[j] = "accepted" => row[j] # "absent"
    BY DEF Proved!IInv, Proved!Asked
  <2>3. j \in Jobs /\ row[j] \in Final \cup {"absent", "queued", "running"}
    BY PageAssumption DEF Jobs, LiveInv, IInv, TypeOK, Status, Final
  <2>4. row[j] \in {"queued", "running"} =>
          InGoodHands(j) \/ j \in hit \/ (row[j] = "running" /\ j \in unreported)
    BY <2>3 DEF LiveInv, IInv, LostOnlyIfInterrupted
  <2>5. post[j] \in {"sent", "accepted", "refused"} /\ (row[j] \in Final => Page!ToldOf(j))
    BY <2>1, SameTold DEF Proved!Awaited, Proved!Final, Final
  <2>. QED
    BY <2>2, <2>3, <2>4, <2>5 DEF StillToCome
<1>. QED
  BY <1>1, LiveInvariant, PageInvariant, PTL

\* Over the real queue the button is freed early only by another job or by an
\* error of the request, and a quiet page shows the newest score, unless it
\* missed an event, its refreshes overlapped, failed or got an older score from
\* the cache, or the job of that score is told to have failed.
THEOREM PageKeepsItsPromises == LiveSpec => [](Page!FreedByAnotherJob /\ Page!ShownIsNewest)
<1>1. Proved!IInv => Page!FreedByAnotherJob
  BY SameSlots
  DEF Proved!IInv, Proved!FreedByAnotherJob, Page!FreedByAnotherJob, Page!Final, Proved!Final
<1>2. LiveSpec => []Proved!ShownIsNewest
  BY PageSpec, SameAssumption, Proved!ShownIsNewestHolds
<1>3. Proved!ShownIsNewest => Page!ShownIsNewest
  BY SameSlots
  DEF Proved!ShownIsNewest, Page!ShownIsNewest, Proved!Quiet, Page!Quiet,
      Proved!Idle, Page!Idle, Page!Final, Proved!Final
<1>. QED
  BY <1>1, <1>2, <1>3, PageInvariant, PTL
===============================================================================
