---------------------------- MODULE JobQueueProofs ----------------------------
(***************************************************************************)
(* Proofs about JobQueue for all sets of jobs and workers and all bounds.  *)
(***************************************************************************)
EXTENDS JobQueue, TLAPS

USE DEF Jobs

-------------------------------------------------------------------------------
(* Type correctness.                                                       *)

\* The initial values have their types, and no worker holds an id.
LEMMA TypeInit == Init => TypeOK
  BY NoneAssumption
  DEF Init, TypeOK, HeldMatchesPc, HoldingPc, WorkerPc, OwnerPc, ApiPc, Status

\* Every step keeps the types; <1>1 to <1>31 are the actions of Next in order.
LEMMA TypeNext == TypeOK /\ [Next]_vars => TypeOK'
<1> SUFFICES ASSUME TypeOK, [Next]_vars PROVE TypeOK'
  OBVIOUS
<1> USE NoneAssumption, BoundsAssumption
    DEF TypeOK, HeldMatchesPc, HoldingPc, WorkerPc, OwnerPc, ApiPc, Status,
        apiVars, workerVars, lossVars, faultVars, ApiGoto, Goto, Drop, SetRow, Event,
        Fault, CallFails, ReplyFails, Interrupted, AddScore
<1>1. ASSUME NEW j \in Jobs, Insert(j) PROVE TypeOK'
  BY <1>1 DEF Insert
<1>2. ASSUME NEW j \in Jobs, InsertReplyLost(j) PROVE TypeOK'
  BY <1>2 DEF InsertReplyLost
<1>3. ASSUME NEW j \in Jobs, Push(j) PROVE TypeOK'
  BY <1>3 DEF Push
<1>4. ASSUME NEW j \in Jobs, PushLost(j) PROVE TypeOK'
  BY <1>4 DEF PushLost
<1>5. ASSUME NEW j \in Jobs, PushTwice(j) PROVE TypeOK'
  BY <1>5 DEF PushTwice
<1>6. ASSUME NEW j \in Jobs, PublishQueued(j) PROVE TypeOK'
  BY <1>6 DEF PublishQueued
<1>7. ASSUME NEW j \in Jobs, PublishQueuedLost(j) PROVE TypeOK'
  BY <1>7 DEF PublishQueuedLost
<1>8. ASSUME NEW j \in Jobs, ApiCrash(j) PROVE TypeOK'
  BY <1>8 DEF ApiCrash
<1>9. ASSUME NEW w \in Workers, Stop(w) PROVE TypeOK'
  BY <1>9 DEF Stop
<1>10. ASSUME NEW w \in Workers, Poll(w) PROVE TypeOK'
  BY <1>10 DEF Poll
<1>11. ASSUME NEW w \in Workers, PopTimeout(w) PROVE TypeOK'
  BY <1>11 DEF PopTimeout
<1>12. ASSUME NEW w \in Workers, Pop(w) PROVE TypeOK'
  BY <1>12 DEF Pop
<1>13. ASSUME NEW w \in Workers, PopReplyLost(w) PROVE TypeOK'
  BY <1>13 DEF PopReplyLost
<1>pe. ASSUME NEW w \in Workers, PopError(w) PROVE TypeOK'
  BY <1>pe DEF PopError
<1>14. ASSUME NEW w \in Workers, Claim(w) PROVE TypeOK'
  BY <1>14 DEF Claim
<1>15. ASSUME NEW w \in Workers, ClaimNoRow(w) PROVE TypeOK'
  BY <1>15 DEF ClaimNoRow
<1>16. ASSUME NEW w \in Workers, ClaimError(w) PROVE TypeOK'
  BY <1>16 DEF ClaimError
<1>17. ASSUME NEW w \in Workers, ClaimReplyLost(w) PROVE TypeOK'
  <2>1. Goto(w, "claiming", "loop") /\ pc[w] = "claiming"
    BY <1>17 DEF ClaimReplyLost
  <2>2. held[w] \in Jobs
    BY <2>1
  <2>3. row' \in [Jobs -> Status] /\ hit' \subseteq Jobs
    BY <1>17, <2>2 DEF ClaimReplyLost
  <2>4. HeldMatchesPc' /\ pc' \in [Workers -> WorkerPc]
    BY <1>17 DEF ClaimReplyLost
  <2>5. faults' \in Nat
    BY <1>17 DEF ClaimReplyLost
  <2>6. QED
    BY <1>17, <2>2, <2>3, <2>4, <2>5 DEF ClaimReplyLost
<1>18. ASSUME NEW w \in Workers, PublishRunning(w) PROVE TypeOK'
  BY <1>18 DEF PublishRunning
<1>19. ASSUME NEW w \in Workers, PublishRunningLost(w) PROVE TypeOK'
  BY <1>19 DEF PublishRunningLost
<1>20. ASSUME NEW w \in Workers, WorkOk(w) PROVE TypeOK'
  BY <1>20 DEF WorkOk
<1>21. ASSUME NEW w \in Workers, WorkError(w) PROVE TypeOK'
  BY <1>21 DEF WorkError
<1>22. ASSUME NEW w \in Workers, WorkReplyLost(w) PROVE TypeOK'
  BY <1>22 DEF WorkReplyLost
<1>23. ASSUME NEW w \in Workers, Complete(w) PROVE TypeOK'
  BY <1>23 DEF Complete
<1>24. ASSUME NEW w \in Workers, Fail(w) PROVE TypeOK'
  BY <1>24 DEF Fail
<1>fr. ASSUME NEW w \in Workers, FinishRefused(w) PROVE TypeOK'
  <2>0. held[w] \in Jobs
    BY <1>fr DEF FinishRefused
  <2>1. CASE Drop(w, "completing")
    BY <1>fr, <2>1, <2>0 DEF FinishRefused
  <2>2. CASE Drop(w, "failing")
    BY <1>fr, <2>2, <2>0 DEF FinishRefused
  <2>3. QED
    BY <1>fr, <2>1, <2>2 DEF FinishRefused
<1>25. ASSUME NEW w \in Workers, FinishError(w) PROVE TypeOK'
  <2>1. held[w] \in Jobs /\ faults' \in Nat
    BY <1>25 DEF FinishError
  <2>2. CASE Drop(w, "completing")
    BY <1>25, <2>1, <2>2 DEF FinishError
  <2>3. CASE Drop(w, "failing")
    BY <1>25, <2>1, <2>3 DEF FinishError
  <2>4. QED
    BY <1>25, <2>2, <2>3 DEF FinishError
<1>26. ASSUME NEW w \in Workers, FinishReplyLost(w) PROVE TypeOK'
  <2>1. held[w] \in Jobs /\ faults' \in Nat
    BY <1>26 DEF FinishReplyLost
  <2>2. CASE Drop(w, "completing") /\ SetRow(w, "completed")
    BY <1>26, <2>1, <2>2 DEF FinishReplyLost
  <2>3. CASE Drop(w, "failing") /\ SetRow(w, "failed")
    BY <1>26, <2>1, <2>3 DEF FinishReplyLost
  <2>4. QED
    BY <1>26, <2>2, <2>3 DEF FinishReplyLost
<1>27. ASSUME NEW w \in Workers, PublishFinal(w) PROVE TypeOK'
  <2>1. held[w] \in Jobs /\ faults' \in Nat
    BY <1>27 DEF PublishFinal
  <2>2. CASE Drop(w, "publishCompleted") /\ Event(w, "completed")
    BY <1>27, <2>1, <2>2 DEF PublishFinal
  <2>3. CASE Drop(w, "publishFailed") /\ Event(w, "failed")
    BY <1>27, <2>1, <2>3 DEF PublishFinal
  <2>4. QED
    BY <1>27, <2>2, <2>3 DEF PublishFinal
<1>28. ASSUME NEW w \in Workers, PublishFinalLost(w) PROVE TypeOK'
  <2>1. held[w] \in Jobs /\ faults' \in Nat
    BY <1>28 DEF PublishFinalLost
  <2>2. CASE Drop(w, "publishCompleted")
    BY <1>28, <2>1, <2>2 DEF PublishFinalLost
  <2>3. CASE Drop(w, "publishFailed")
    BY <1>28, <2>1, <2>3 DEF PublishFinalLost
  <2>4. QED
    BY <1>28, <2>2, <2>3 DEF PublishFinalLost
<1>29. ASSUME NEW w \in Workers, Shutdown(w) PROVE TypeOK'
  BY <1>29 DEF Shutdown
<1>30. ASSUME NEW w \in Workers, Crash(w) PROVE TypeOK'
  BY <1>30 DEF Crash
<1>31. ASSUME NEW w \in Workers, Restart(w) PROVE TypeOK'
  BY <1>31 DEF Restart
<1>32. CASE UNCHANGED vars
  BY <1>32 DEF vars
<1>33. QED
  BY <1>1, <1>2, <1>3, <1>4, <1>5, <1>6, <1>7, <1>8, <1>9, <1>10,
     <1>11, <1>12, <1>13, <1>pe, <1>14, <1>15, <1>16, <1>17, <1>18, <1>19,
     <1>20, <1>21, <1>22, <1>23, <1>24, <1>fr, <1>25, <1>26, <1>27, <1>28,
     <1>29, <1>30, <1>31, <1>32
  DEF Next, EnqueueStep, EnqueueFault, WorkerStep, WorkerFault, Process


-------------------------------------------------------------------------------
(* The initial state.                                                      *)

\* At the start no row exists and nobody owns a job.
LEMMA InvInit == Init => Ownership /\ Scoring /\ EventsFollowRow /\ LostOnlyIfInterrupted
BY NoneAssumption
DEF Init, Ownership, ExclusiveOwner, RowMatchesPc, Owns, OwnerPc, Scoring, AtMostOneScore,
    OutcomeMatchesScore, ScoreMatchesPc, EventsFollowRow, LostOnlyIfInterrupted


-------------------------------------------------------------------------------
(* Who owns a job: one worker, and the row says so.                        *)

\* The claim is the one step that makes an owner, and it finds the row queued,
\* which rules out that another worker owns the job.
LEMMA OwnershipNext ==
  TypeOK /\ TypeOK' /\ Ownership /\ [Next]_vars => Ownership'
<1> SUFFICES ASSUME TypeOK, TypeOK', Ownership, [Next]_vars PROVE Ownership'
  OBVIOUS
<1> USE DEF Ownership, ExclusiveOwner, RowMatchesPc, Owns, TypeOK, HeldMatchesPc,
        HoldingPc, OwnerPc, WorkerPc, ApiPc,
        apiVars, workerVars, lossVars, faultVars, ApiGoto, Goto, Drop, SetRow
<1>1. ASSUME NEW j \in Jobs, Insert(j) PROVE Ownership'
  BY <1>1 DEF Insert
<1>2. ASSUME NEW j \in Jobs, InsertReplyLost(j) PROVE Ownership'
  BY <1>2 DEF InsertReplyLost
<1>3. ASSUME NEW j \in Jobs, Push(j) PROVE Ownership'
  BY <1>3 DEF Push
<1>4. ASSUME NEW j \in Jobs, PushLost(j) PROVE Ownership'
  BY <1>4 DEF PushLost
<1>5. ASSUME NEW j \in Jobs, PushTwice(j) PROVE Ownership'
  BY <1>5 DEF PushTwice
<1>6. ASSUME NEW j \in Jobs, PublishQueued(j) PROVE Ownership'
  BY <1>6 DEF PublishQueued
<1>7. ASSUME NEW j \in Jobs, PublishQueuedLost(j) PROVE Ownership'
  BY <1>7 DEF PublishQueuedLost
<1>8. ASSUME NEW j \in Jobs, ApiCrash(j) PROVE Ownership'
  BY <1>8 DEF ApiCrash
<1>9. ASSUME NEW w \in Workers, Stop(w) PROVE Ownership'
  BY <1>9 DEF Stop
<1>10. ASSUME NEW w \in Workers, Poll(w) PROVE Ownership'
  BY <1>10 DEF Poll
<1>11. ASSUME NEW w \in Workers, PopTimeout(w) PROVE Ownership'
  BY <1>11 DEF PopTimeout
<1>12. ASSUME NEW w \in Workers, Pop(w) PROVE Ownership'
  BY <1>12 DEF Pop
<1>13. ASSUME NEW w \in Workers, PopReplyLost(w) PROVE Ownership'
  BY <1>13 DEF PopReplyLost
<1>pe. ASSUME NEW w \in Workers, PopError(w) PROVE Ownership'
  BY <1>pe DEF PopError
<1>14. ASSUME NEW w \in Workers, Claim(w) PROVE Ownership'
  BY <1>14 DEF Claim
<1>15. ASSUME NEW w \in Workers, ClaimNoRow(w) PROVE Ownership'
  BY <1>15 DEF ClaimNoRow
<1>16. ASSUME NEW w \in Workers, ClaimError(w) PROVE Ownership'
  BY <1>16 DEF ClaimError
<1>17. ASSUME NEW w \in Workers, ClaimReplyLost(w) PROVE Ownership'
  BY <1>17 DEF ClaimReplyLost
<1>18. ASSUME NEW w \in Workers, PublishRunning(w) PROVE Ownership'
  BY <1>18 DEF PublishRunning
<1>19. ASSUME NEW w \in Workers, PublishRunningLost(w) PROVE Ownership'
  BY <1>19 DEF PublishRunningLost
<1>20. ASSUME NEW w \in Workers, WorkOk(w) PROVE Ownership'
  BY <1>20 DEF WorkOk
<1>21. ASSUME NEW w \in Workers, WorkError(w) PROVE Ownership'
  BY <1>21 DEF WorkError
<1>22. ASSUME NEW w \in Workers, WorkReplyLost(w) PROVE Ownership'
  BY <1>22 DEF WorkReplyLost
<1>23. ASSUME NEW w \in Workers, Complete(w) PROVE Ownership'
  BY <1>23 DEF Complete
<1>24. ASSUME NEW w \in Workers, Fail(w) PROVE Ownership'
  BY <1>24 DEF Fail
<1>fr. ASSUME NEW w \in Workers, FinishRefused(w) PROVE Ownership'
  <2>1. CASE Drop(w, "completing")
    BY <1>fr, <2>1 DEF FinishRefused
  <2>2. CASE Drop(w, "failing")
    BY <1>fr, <2>2 DEF FinishRefused
  <2>3. QED
    BY <1>fr, <2>1, <2>2 DEF FinishRefused
<1>25. ASSUME NEW w \in Workers, FinishError(w) PROVE Ownership'
  <2>1. CASE Drop(w, "completing")
    BY <1>25, <2>1 DEF FinishError
  <2>2. CASE Drop(w, "failing")
    BY <1>25, <2>2 DEF FinishError
  <2>3. QED
    BY <1>25, <2>1, <2>2 DEF FinishError
<1>26. ASSUME NEW w \in Workers, FinishReplyLost(w) PROVE Ownership'
  <2>1. CASE Drop(w, "completing") /\ SetRow(w, "completed")
    BY <1>26, <2>1 DEF FinishReplyLost
  <2>2. CASE Drop(w, "failing") /\ SetRow(w, "failed")
    BY <1>26, <2>2 DEF FinishReplyLost
  <2>3. QED
    BY <1>26, <2>1, <2>2 DEF FinishReplyLost
<1>27. ASSUME NEW w \in Workers, PublishFinal(w) PROVE Ownership'
  <2>1. CASE Drop(w, "publishCompleted")
    BY <1>27, <2>1 DEF PublishFinal
  <2>2. CASE Drop(w, "publishFailed")
    BY <1>27, <2>2 DEF PublishFinal
  <2>3. QED
    BY <1>27, <2>1, <2>2 DEF PublishFinal
<1>28. ASSUME NEW w \in Workers, PublishFinalLost(w) PROVE Ownership'
  <2>1. CASE Drop(w, "publishCompleted")
    BY <1>28, <2>1 DEF PublishFinalLost
  <2>2. CASE Drop(w, "publishFailed")
    BY <1>28, <2>2 DEF PublishFinalLost
  <2>3. QED
    BY <1>28, <2>1, <2>2 DEF PublishFinalLost
<1>29. ASSUME NEW w \in Workers, Shutdown(w) PROVE Ownership'
  BY <1>29 DEF Shutdown
<1>30. ASSUME NEW w \in Workers, Crash(w) PROVE Ownership'
  BY <1>30 DEF Crash
<1>31. ASSUME NEW w \in Workers, Restart(w) PROVE Ownership'
  BY <1>31 DEF Restart
<1>32. CASE UNCHANGED vars
  BY <1>32 DEF vars
<1>33. QED
  BY <1>1, <1>2, <1>3, <1>4, <1>5, <1>6, <1>7, <1>8, <1>9, <1>10,
     <1>11, <1>12, <1>13, <1>pe, <1>14, <1>15, <1>16, <1>17, <1>18, <1>19,
     <1>20, <1>21, <1>22, <1>23, <1>24, <1>fr, <1>25, <1>26, <1>27, <1>28,
     <1>29, <1>30, <1>31, <1>32
  DEF Next, EnqueueStep, EnqueueFault, WorkerStep, WorkerFault, Process

-------------------------------------------------------------------------------
(* What a job leaves in lead_scores.                                       *)

\* AddScore meets a count of 0: the job of its one owner has not written yet.
LEMMA ScoringNext ==
  TypeOK /\ TypeOK' /\ Ownership /\ Scoring /\ [Next]_vars => Scoring'
<1> SUFFICES ASSUME TypeOK, TypeOK', Ownership, Scoring, [Next]_vars PROVE Scoring'
  OBVIOUS
<1> USE DEF Ownership, ExclusiveOwner, RowMatchesPc, Scoring, AtMostOneScore, OutcomeMatchesScore,
        ScoreMatchesPc, Owns, TypeOK, HeldMatchesPc, HoldingPc, OwnerPc, WorkerPc, ApiPc, 
        apiVars, workerVars, lossVars, faultVars, ApiGoto, Goto, Drop, SetRow, AddScore, Interrupted
<1>1. ASSUME NEW j \in Jobs, Insert(j) PROVE Scoring'
  BY <1>1 DEF Insert
<1>2. ASSUME NEW j \in Jobs, InsertReplyLost(j) PROVE Scoring'
  BY <1>2 DEF InsertReplyLost
<1>3. ASSUME NEW j \in Jobs, Push(j) PROVE Scoring'
  BY <1>3 DEF Push
<1>4. ASSUME NEW j \in Jobs, PushLost(j) PROVE Scoring'
  BY <1>4 DEF PushLost
<1>5. ASSUME NEW j \in Jobs, PushTwice(j) PROVE Scoring'
  BY <1>5 DEF PushTwice
<1>6. ASSUME NEW j \in Jobs, PublishQueued(j) PROVE Scoring'
  BY <1>6 DEF PublishQueued
<1>7. ASSUME NEW j \in Jobs, PublishQueuedLost(j) PROVE Scoring'
  BY <1>7 DEF PublishQueuedLost
<1>8. ASSUME NEW j \in Jobs, ApiCrash(j) PROVE Scoring'
  BY <1>8 DEF ApiCrash
<1>9. ASSUME NEW w \in Workers, Stop(w) PROVE Scoring'
  BY <1>9 DEF Stop
<1>10. ASSUME NEW w \in Workers, Poll(w) PROVE Scoring'
  BY <1>10 DEF Poll
<1>11. ASSUME NEW w \in Workers, PopTimeout(w) PROVE Scoring'
  BY <1>11 DEF PopTimeout
<1>12. ASSUME NEW w \in Workers, Pop(w) PROVE Scoring'
  BY <1>12 DEF Pop
<1>13. ASSUME NEW w \in Workers, PopReplyLost(w) PROVE Scoring'
  BY <1>13 DEF PopReplyLost
<1>pe. ASSUME NEW w \in Workers, PopError(w) PROVE Scoring'
  BY <1>pe DEF PopError
<1>14. ASSUME NEW w \in Workers, Claim(w) PROVE Scoring'
  BY <1>14 DEF Claim
<1>15. ASSUME NEW w \in Workers, ClaimNoRow(w) PROVE Scoring'
  BY <1>15 DEF ClaimNoRow
<1>16. ASSUME NEW w \in Workers, ClaimError(w) PROVE Scoring'
  BY <1>16 DEF ClaimError
<1>17. ASSUME NEW w \in Workers, ClaimReplyLost(w) PROVE Scoring'
  BY <1>17 DEF ClaimReplyLost
<1>18. ASSUME NEW w \in Workers, PublishRunning(w) PROVE Scoring'
  BY <1>18 DEF PublishRunning
<1>19. ASSUME NEW w \in Workers, PublishRunningLost(w) PROVE Scoring'
  BY <1>19 DEF PublishRunningLost
<1>20. ASSUME NEW w \in Workers, WorkOk(w) PROVE Scoring'
  <2>1. /\ row' = row /\ held' = held /\ hit' = hit /\ held[w] \in Jobs
        /\ pc[w] = "working" /\ scores[held[w]] = 0
    BY <1>20 DEF WorkOk
  <2>2. \A j \in Jobs : scores'[j] = IF j = held[w] /\ j \in ScoreJobs THEN 1 ELSE scores[j]
    BY <1>20, <2>1 DEF WorkOk
  <2>3. AtMostOneScore'
    BY <2>2
  <2>4. OutcomeMatchesScore'
    BY <1>20, <2>1, <2>2 DEF WorkOk
  <2>5. ScoreMatchesPc'
    BY <1>20, <2>1, <2>2 DEF WorkOk
  <2>6. QED
    BY <2>3, <2>4, <2>5
<1>21. ASSUME NEW w \in Workers, WorkError(w) PROVE Scoring'
  BY <1>21 DEF WorkError
<1>22. ASSUME NEW w \in Workers, WorkReplyLost(w) PROVE Scoring'
  <2>1. row' = row /\ held' = held /\ held[w] \in Jobs /\ hit' = hit \cup {held[w]}
    BY <1>22 DEF WorkReplyLost
  <2>2. AtMostOneScore'
    BY <1>22, <2>1 DEF WorkReplyLost
  <2>3. OutcomeMatchesScore'
    BY <1>22, <2>1 DEF WorkReplyLost
  <2>4. ScoreMatchesPc'
    BY <1>22, <2>1 DEF WorkReplyLost
  <2>5. QED
    BY <2>2, <2>3, <2>4
<1>23. ASSUME NEW w \in Workers, Complete(w) PROVE Scoring'
  BY <1>23 DEF Complete
<1>24. ASSUME NEW w \in Workers, Fail(w) PROVE Scoring'
  BY <1>24 DEF Fail
<1>fr. ASSUME NEW w \in Workers, FinishRefused(w) PROVE Scoring'
  <2>1. CASE Drop(w, "completing")
    BY <1>fr, <2>1 DEF FinishRefused
  <2>2. CASE Drop(w, "failing")
    BY <1>fr, <2>2 DEF FinishRefused
  <2>3. QED
    BY <1>fr, <2>1, <2>2 DEF FinishRefused
<1>25. ASSUME NEW w \in Workers, FinishError(w) PROVE Scoring'
  <2>1. CASE Drop(w, "completing")
    BY <1>25, <2>1 DEF FinishError
  <2>2. CASE Drop(w, "failing")
    BY <1>25, <2>2 DEF FinishError
  <2>3. QED
    BY <1>25, <2>1, <2>2 DEF FinishError
<1>26. ASSUME NEW w \in Workers, FinishReplyLost(w) PROVE Scoring'
  <2>1. CASE Drop(w, "completing") /\ SetRow(w, "completed")
    BY <1>26, <2>1 DEF FinishReplyLost
  <2>2. CASE Drop(w, "failing") /\ SetRow(w, "failed")
    BY <1>26, <2>2 DEF FinishReplyLost
  <2>3. QED
    BY <1>26, <2>1, <2>2 DEF FinishReplyLost
<1>27. ASSUME NEW w \in Workers, PublishFinal(w) PROVE Scoring'
  <2>1. CASE Drop(w, "publishCompleted")
    BY <1>27, <2>1 DEF PublishFinal
  <2>2. CASE Drop(w, "publishFailed")
    BY <1>27, <2>2 DEF PublishFinal
  <2>3. QED
    BY <1>27, <2>1, <2>2 DEF PublishFinal
<1>28. ASSUME NEW w \in Workers, PublishFinalLost(w) PROVE Scoring'
  <2>1. CASE Drop(w, "publishCompleted")
    BY <1>28, <2>1 DEF PublishFinalLost
  <2>2. CASE Drop(w, "publishFailed")
    BY <1>28, <2>2 DEF PublishFinalLost
  <2>3. QED
    BY <1>28, <2>1, <2>2 DEF PublishFinalLost
<1>29. ASSUME NEW w \in Workers, Shutdown(w) PROVE Scoring'
  BY <1>29 DEF Shutdown
<1>30. ASSUME NEW w \in Workers, Crash(w) PROVE Scoring'
  BY <1>30 DEF Crash
<1>31. ASSUME NEW w \in Workers, Restart(w) PROVE Scoring'
  BY <1>31 DEF Restart
<1>32. CASE UNCHANGED vars
  BY <1>32 DEF vars
<1>33. QED
  BY <1>1, <1>2, <1>3, <1>4, <1>5, <1>6, <1>7, <1>8, <1>9, <1>10,
     <1>11, <1>12, <1>13, <1>pe, <1>14, <1>15, <1>16, <1>17, <1>18, <1>19,
     <1>20, <1>21, <1>22, <1>23, <1>24, <1>fr, <1>25, <1>26, <1>27, <1>28,
     <1>29, <1>30, <1>31, <1>32
  DEF Next, EnqueueStep, EnqueueFault, WorkerStep, WorkerFault, Process

-------------------------------------------------------------------------------
(* What the subscribers hear.                                              *)

\* An event is published by the worker that set the row and still owns it, or
\* by the request that inserted it.
LEMMA EventsNext ==
  TypeOK /\ TypeOK' /\ Ownership /\ EventsFollowRow /\ [Next]_vars => EventsFollowRow'
<1> SUFFICES ASSUME TypeOK, TypeOK', Ownership, EventsFollowRow, [Next]_vars PROVE EventsFollowRow'
  OBVIOUS
<1> USE DEF Ownership, ExclusiveOwner, RowMatchesPc, EventsFollowRow, Final, Status,
        Owns, TypeOK, HeldMatchesPc, HoldingPc, OwnerPc, WorkerPc, ApiPc, 
        apiVars, workerVars, lossVars, faultVars, ApiGoto, Goto, Drop, SetRow, Event
<1>1. ASSUME NEW j \in Jobs, Insert(j) PROVE EventsFollowRow'
  BY <1>1 DEF Insert
<1>2. ASSUME NEW j \in Jobs, InsertReplyLost(j) PROVE EventsFollowRow'
  BY <1>2 DEF InsertReplyLost
<1>3. ASSUME NEW j \in Jobs, Push(j) PROVE EventsFollowRow'
  BY <1>3 DEF Push
<1>4. ASSUME NEW j \in Jobs, PushLost(j) PROVE EventsFollowRow'
  BY <1>4 DEF PushLost
<1>5. ASSUME NEW j \in Jobs, PushTwice(j) PROVE EventsFollowRow'
  BY <1>5 DEF PushTwice
<1>6. ASSUME NEW j \in Jobs, PublishQueued(j) PROVE EventsFollowRow'
  BY <1>6 DEF PublishQueued
<1>7. ASSUME NEW j \in Jobs, PublishQueuedLost(j) PROVE EventsFollowRow'
  BY <1>7 DEF PublishQueuedLost
<1>8. ASSUME NEW j \in Jobs, ApiCrash(j) PROVE EventsFollowRow'
  BY <1>8 DEF ApiCrash
<1>9. ASSUME NEW w \in Workers, Stop(w) PROVE EventsFollowRow'
  BY <1>9 DEF Stop
<1>10. ASSUME NEW w \in Workers, Poll(w) PROVE EventsFollowRow'
  BY <1>10 DEF Poll
<1>11. ASSUME NEW w \in Workers, PopTimeout(w) PROVE EventsFollowRow'
  BY <1>11 DEF PopTimeout
<1>12. ASSUME NEW w \in Workers, Pop(w) PROVE EventsFollowRow'
  BY <1>12 DEF Pop
<1>13. ASSUME NEW w \in Workers, PopReplyLost(w) PROVE EventsFollowRow'
  BY <1>13 DEF PopReplyLost
<1>pe. ASSUME NEW w \in Workers, PopError(w) PROVE EventsFollowRow'
  BY <1>pe DEF PopError
<1>14. ASSUME NEW w \in Workers, Claim(w) PROVE EventsFollowRow'
  BY <1>14 DEF Claim
<1>15. ASSUME NEW w \in Workers, ClaimNoRow(w) PROVE EventsFollowRow'
  BY <1>15 DEF ClaimNoRow
<1>16. ASSUME NEW w \in Workers, ClaimError(w) PROVE EventsFollowRow'
  BY <1>16 DEF ClaimError
<1>17. ASSUME NEW w \in Workers, ClaimReplyLost(w) PROVE EventsFollowRow'
  BY <1>17 DEF ClaimReplyLost
<1>18. ASSUME NEW w \in Workers, PublishRunning(w) PROVE EventsFollowRow'
  BY <1>18 DEF PublishRunning
<1>19. ASSUME NEW w \in Workers, PublishRunningLost(w) PROVE EventsFollowRow'
  BY <1>19 DEF PublishRunningLost
<1>20. ASSUME NEW w \in Workers, WorkOk(w) PROVE EventsFollowRow'
  BY <1>20 DEF WorkOk
<1>21. ASSUME NEW w \in Workers, WorkError(w) PROVE EventsFollowRow'
  BY <1>21 DEF WorkError
<1>22. ASSUME NEW w \in Workers, WorkReplyLost(w) PROVE EventsFollowRow'
  BY <1>22 DEF WorkReplyLost
<1>23. ASSUME NEW w \in Workers, Complete(w) PROVE EventsFollowRow'
  BY <1>23 DEF Complete
<1>24. ASSUME NEW w \in Workers, Fail(w) PROVE EventsFollowRow'
  BY <1>24 DEF Fail
<1>fr. ASSUME NEW w \in Workers, FinishRefused(w) PROVE EventsFollowRow'
  <2>1. CASE Drop(w, "completing")
    BY <1>fr, <2>1 DEF FinishRefused
  <2>2. CASE Drop(w, "failing")
    BY <1>fr, <2>2 DEF FinishRefused
  <2>3. QED
    BY <1>fr, <2>1, <2>2 DEF FinishRefused
<1>25. ASSUME NEW w \in Workers, FinishError(w) PROVE EventsFollowRow'
  <2>1. CASE Drop(w, "completing")
    BY <1>25, <2>1 DEF FinishError
  <2>2. CASE Drop(w, "failing")
    BY <1>25, <2>2 DEF FinishError
  <2>3. QED
    BY <1>25, <2>1, <2>2 DEF FinishError
<1>26. ASSUME NEW w \in Workers, FinishReplyLost(w) PROVE EventsFollowRow'
  <2>1. CASE Drop(w, "completing") /\ SetRow(w, "completed")
    BY <1>26, <2>1 DEF FinishReplyLost
  <2>2. CASE Drop(w, "failing") /\ SetRow(w, "failed")
    BY <1>26, <2>2 DEF FinishReplyLost
  <2>3. QED
    BY <1>26, <2>1, <2>2 DEF FinishReplyLost
<1>27. ASSUME NEW w \in Workers, PublishFinal(w) PROVE EventsFollowRow'
  <2>1. CASE Drop(w, "publishCompleted")
    BY <1>27, <2>1 DEF PublishFinal
  <2>2. CASE Drop(w, "publishFailed")
    BY <1>27, <2>2 DEF PublishFinal
  <2>3. QED
    BY <1>27, <2>1, <2>2 DEF PublishFinal
<1>28. ASSUME NEW w \in Workers, PublishFinalLost(w) PROVE EventsFollowRow'
  <2>1. CASE Drop(w, "publishCompleted")
    BY <1>28, <2>1 DEF PublishFinalLost
  <2>2. CASE Drop(w, "publishFailed")
    BY <1>28, <2>2 DEF PublishFinalLost
  <2>3. QED
    BY <1>28, <2>1, <2>2 DEF PublishFinalLost
<1>29. ASSUME NEW w \in Workers, Shutdown(w) PROVE EventsFollowRow'
  BY <1>29 DEF Shutdown
<1>30. ASSUME NEW w \in Workers, Crash(w) PROVE EventsFollowRow'
  BY <1>30 DEF Crash
<1>31. ASSUME NEW w \in Workers, Restart(w) PROVE EventsFollowRow'
  BY <1>31 DEF Restart
<1>32. CASE UNCHANGED vars
  BY <1>32 DEF vars
<1>33. QED
  BY <1>1, <1>2, <1>3, <1>4, <1>5, <1>6, <1>7, <1>8, <1>9, <1>10,
     <1>11, <1>12, <1>13, <1>pe, <1>14, <1>15, <1>16, <1>17, <1>18, <1>19,
     <1>20, <1>21, <1>22, <1>23, <1>24, <1>fr, <1>25, <1>26, <1>27, <1>28,
     <1>29, <1>30, <1>31, <1>32
  DEF Next, EnqueueStep, EnqueueFault, WorkerStep, WorkerFault, Process

-------------------------------------------------------------------------------
(* Who brings a job forward.                                               *)

\* Membership after an LPUSH.
LEMMA InListAppend ==
  ASSUME NEW q \in Seq(Jobs), NEW a \in Jobs, NEW j \in Jobs
  PROVE  InList(j, Append(q, a)) <=> InList(j, q) \/ j = a
<1>1. /\ Len(Append(q, a)) = Len(q) + 1
      /\ Append(q, a)[Len(q) + 1] = a
      /\ \A i \in 1..Len(q) : Append(q, a)[i] = q[i]
  OBVIOUS
<1>2. QED
  BY <1>1 DEF InList

\* An id in the list is the one BRPOP takes or stays in the list.
LEMMA InListTail ==
  ASSUME NEW q \in Seq(Jobs), q # <<>>, NEW j \in Jobs, InList(j, q)
  PROVE  j = Head(q) \/ InList(j, Tail(q))
<1>1. PICK i \in 1..Len(q) : q[i] = j
  BY DEF InList
<1>2. CASE i = 1
  BY <1>1, <1>2
<1>3. CASE i # 1
  <2>1. i - 1 \in 1..Len(Tail(q)) /\ Tail(q)[i - 1] = q[i]
    BY <1>3
  <2>2. QED
    BY <1>1, <2>1 DEF InList
<1>4. QED
  BY <1>2, <1>3

\* The list after an LPUSH of one id, and of the same id twice.
LEMMA InListPush ==
  ASSUME NEW j \in Jobs, NEW k \in Jobs, queue \in Seq(Jobs),
         queue' = Append(queue, j) \/ queue' = Append(Append(queue, j), j)
  PROVE  InList(k, queue)' <=> InList(k, queue) \/ k = j
<1>1. InList(k, Append(queue, j)) <=> InList(k, queue) \/ k = j
  BY InListAppend
<1>2. Append(queue, j) \in Seq(Jobs)
  OBVIOUS
<1>3. InList(k, Append(Append(queue, j), j)) <=> InList(k, Append(queue, j)) \/ k = j
  BY <1>2, InListAppend
<1>4. InList(k, queue') <=> InList(k, queue) \/ k = j
  <2>1. CASE queue' = Append(queue, j)
    BY <1>1, <2>1
  <2>2. CASE queue' = Append(Append(queue, j), j)
    BY <1>1, <1>3, <2>2
  <2>3. QED
    BY <2>1, <2>2
<1>5. QED
  BY <1>4 DEF InList

\* Whoever has a job in hand passes it on or is interrupted, by case on the step.
LEMMA LostNext ==
  TypeOK /\ TypeOK' /\ Ownership /\ LostOnlyIfInterrupted /\ [Next]_vars
     => LostOnlyIfInterrupted'
<1> SUFFICES ASSUME TypeOK, TypeOK', Ownership, LostOnlyIfInterrupted, [Next]_vars,
                    NEW k \in Jobs, row'[k] \in {"queued", "running"}, k \notin hit',
                    ~(row'[k] = "running" /\ k \in unreported')
             PROVE  InGoodHands(k)'
  BY DEF LostOnlyIfInterrupted
<1> USE DEF Ownership, ExclusiveOwner, RowMatchesPc, LostOnlyIfInterrupted, InGoodHands,
        Owns, TypeOK, HeldMatchesPc, HoldingPc, OwnerPc, WorkerPc, ApiPc, 
        apiVars, workerVars, lossVars, faultVars, ApiGoto, Goto, Drop, SetRow, Interrupted, CallFails, ReplyFails
<1>1. ASSUME NEW j \in Jobs, Insert(j) PROVE InGoodHands(k)'
  BY <1>1 DEF Insert
<1>2. ASSUME NEW j \in Jobs, InsertReplyLost(j) PROVE InGoodHands(k)'
  BY <1>2 DEF InsertReplyLost
<1>3. ASSUME NEW j \in Jobs, Push(j) PROVE InGoodHands(k)'
  <2>1. InList(k, queue)' <=> InList(k, queue) \/ k = j
    BY <1>3, InListPush DEF Push
  <2>2. QED
    BY <1>3, <2>1 DEF Push
<1>4. ASSUME NEW j \in Jobs, PushLost(j) PROVE InGoodHands(k)'
  BY <1>4 DEF PushLost
<1>5. ASSUME NEW j \in Jobs, PushTwice(j) PROVE InGoodHands(k)'
  <2>1. InList(k, queue)' <=> InList(k, queue) \/ k = j
    BY <1>5, InListPush DEF PushTwice
  <2>2. QED
    BY <1>5, <2>1 DEF PushTwice
<1>6. ASSUME NEW j \in Jobs, PublishQueued(j) PROVE InGoodHands(k)'
  BY <1>6 DEF PublishQueued
<1>7. ASSUME NEW j \in Jobs, PublishQueuedLost(j) PROVE InGoodHands(k)'
  BY <1>7 DEF PublishQueuedLost
<1>8. ASSUME NEW j \in Jobs, ApiCrash(j) PROVE InGoodHands(k)'
  BY <1>8 DEF ApiCrash
<1>9. ASSUME NEW w \in Workers, Stop(w) PROVE InGoodHands(k)'
  BY <1>9 DEF Stop
<1>10. ASSUME NEW w \in Workers, Poll(w) PROVE InGoodHands(k)'
  BY <1>10 DEF Poll
<1>11. ASSUME NEW w \in Workers, PopTimeout(w) PROVE InGoodHands(k)'
  BY <1>11 DEF PopTimeout
<1>12. ASSUME NEW w \in Workers, Pop(w) PROVE InGoodHands(k)'
  <2>1. InList(k, queue) => k = Head(queue) \/ InList(k, queue)'
    BY <1>12, InListTail DEF Pop
  <2>2. QED
    BY <1>12, <2>1 DEF Pop
<1>13. ASSUME NEW w \in Workers, PopReplyLost(w) PROVE InGoodHands(k)'
  <2>1. InList(k, queue) => k = Head(queue) \/ InList(k, queue)'
    BY <1>13, InListTail DEF PopReplyLost
  <2>2. QED
    BY <1>13, <2>1 DEF PopReplyLost
<1>pe. ASSUME NEW w \in Workers, PopError(w) PROVE InGoodHands(k)'
  BY <1>pe DEF PopError
<1>14. ASSUME NEW w \in Workers, Claim(w) PROVE InGoodHands(k)'
  BY <1>14 DEF Claim
<1>15. ASSUME NEW w \in Workers, ClaimNoRow(w) PROVE InGoodHands(k)'
  BY <1>15 DEF ClaimNoRow
<1>16. ASSUME NEW w \in Workers, ClaimError(w) PROVE InGoodHands(k)'
  BY <1>16 DEF ClaimError
<1>17. ASSUME NEW w \in Workers, ClaimReplyLost(w) PROVE InGoodHands(k)'
  BY <1>17 DEF ClaimReplyLost
<1>18. ASSUME NEW w \in Workers, PublishRunning(w) PROVE InGoodHands(k)'
  BY <1>18 DEF PublishRunning
<1>19. ASSUME NEW w \in Workers, PublishRunningLost(w) PROVE InGoodHands(k)'
  BY <1>19 DEF PublishRunningLost
<1>20. ASSUME NEW w \in Workers, WorkOk(w) PROVE InGoodHands(k)'
  BY <1>20 DEF WorkOk
<1>21. ASSUME NEW w \in Workers, WorkError(w) PROVE InGoodHands(k)'
  BY <1>21 DEF WorkError
<1>22. ASSUME NEW w \in Workers, WorkReplyLost(w) PROVE InGoodHands(k)'
  BY <1>22 DEF WorkReplyLost
<1>23. ASSUME NEW w \in Workers, Complete(w) PROVE InGoodHands(k)'
  BY <1>23 DEF Complete
<1>24. ASSUME NEW w \in Workers, Fail(w) PROVE InGoodHands(k)'
  BY <1>24 DEF Fail
<1>fr. ASSUME NEW w \in Workers, FinishRefused(w) PROVE InGoodHands(k)'
  <2>1. CASE Drop(w, "completing")
    BY <1>fr, <2>1 DEF FinishRefused
  <2>2. CASE Drop(w, "failing")
    BY <1>fr, <2>2 DEF FinishRefused
  <2>3. QED
    BY <1>fr, <2>1, <2>2 DEF FinishRefused
<1>25. ASSUME NEW w \in Workers, FinishError(w) PROVE InGoodHands(k)'
  <2>1. CASE Drop(w, "completing")
    BY <1>25, <2>1 DEF FinishError
  <2>2. CASE Drop(w, "failing")
    BY <1>25, <2>2 DEF FinishError
  <2>3. QED
    BY <1>25, <2>1, <2>2 DEF FinishError
<1>26. ASSUME NEW w \in Workers, FinishReplyLost(w) PROVE InGoodHands(k)'
  <2>1. CASE Drop(w, "completing") /\ SetRow(w, "completed")
    BY <1>26, <2>1 DEF FinishReplyLost
  <2>2. CASE Drop(w, "failing") /\ SetRow(w, "failed")
    BY <1>26, <2>2 DEF FinishReplyLost
  <2>3. QED
    BY <1>26, <2>1, <2>2 DEF FinishReplyLost
<1>27. ASSUME NEW w \in Workers, PublishFinal(w) PROVE InGoodHands(k)'
  <2>1. CASE Drop(w, "publishCompleted")
    BY <1>27, <2>1 DEF PublishFinal
  <2>2. CASE Drop(w, "publishFailed")
    BY <1>27, <2>2 DEF PublishFinal
  <2>3. QED
    BY <1>27, <2>1, <2>2 DEF PublishFinal
<1>28. ASSUME NEW w \in Workers, PublishFinalLost(w) PROVE InGoodHands(k)'
  <2>1. CASE Drop(w, "publishCompleted")
    BY <1>28, <2>1 DEF PublishFinalLost
  <2>2. CASE Drop(w, "publishFailed")
    BY <1>28, <2>2 DEF PublishFinalLost
  <2>3. QED
    BY <1>28, <2>1, <2>2 DEF PublishFinalLost
<1>29. ASSUME NEW w \in Workers, Shutdown(w) PROVE InGoodHands(k)'
  BY <1>29 DEF Shutdown
<1>30. ASSUME NEW w \in Workers, Crash(w) PROVE InGoodHands(k)'
  BY <1>30 DEF Crash
<1>31. ASSUME NEW w \in Workers, Restart(w) PROVE InGoodHands(k)'
  BY <1>31 DEF Restart
<1>32. CASE UNCHANGED vars
  BY <1>32 DEF vars
<1>33. QED
  BY <1>1, <1>2, <1>3, <1>4, <1>5, <1>6, <1>7, <1>8, <1>9, <1>10,
     <1>11, <1>12, <1>13, <1>pe, <1>14, <1>15, <1>16, <1>17, <1>18, <1>19,
     <1>20, <1>21, <1>22, <1>23, <1>24, <1>fr, <1>25, <1>26, <1>27, <1>28,
     <1>29, <1>30, <1>31, <1>32
  DEF Next, EnqueueStep, EnqueueFault, WorkerStep, WorkerFault, Process

-------------------------------------------------------------------------------
(* The life of a job.                                                      *)

\* The step that adds a score row is Record for a score job, and no step of
\* the life of an embed job.
LEMMA ScoreStep ==
  ASSUME NEW w \in Workers, scores \in [Jobs -> Nat], held[w] \in Jobs, row[held[w]] = "running",
         scores[held[w]] = 0, row' = row, AddScore(w)
  PROVE  [Lifecycle!Next]_(Lifecycle!vars)
<1>1. CASE held[w] \in ScoreJobs
  <2>1. \A j \in Jobs : scores'[j] = IF j = held[w] THEN 1 ELSE scores[j]
    BY <1>1 DEF AddScore
  <2>2. {j \in Jobs : scores'[j] > 0} = {j \in Jobs : scores[j] > 0} \cup {held[w]}
    BY <2>1
  <2>3. \E j \in Jobs : Lifecycle!Record(j)
    BY <1>1, <2>2 DEF Lifecycle!Record
  <2>4. QED
    BY <2>3 DEF Lifecycle!Next, Lifecycle!Jobs
<1>2. CASE held[w] \notin ScoreJobs
  <2>1. scores' = scores
    BY <1>2 DEF AddScore
  <2>2. QED
    BY <2>1 DEF Lifecycle!vars
<1>3. QED
  BY <1>1, <1>2

\* Every step of the queue is a step of the job state machine or a stutter.
LEMMA LifecycleNext ==
  TypeOK /\ TypeOK' /\ Ownership /\ Scoring /\ [Next]_vars => [Lifecycle!Next]_(Lifecycle!vars)
<1> SUFFICES ASSUME TypeOK, TypeOK', Ownership, Scoring, [Next]_vars
             PROVE  [Lifecycle!Next]_(Lifecycle!vars)
  OBVIOUS
<1> USE DEF Ownership, ExclusiveOwner, RowMatchesPc, Owns, TypeOK, HeldMatchesPc,
        HoldingPc, OwnerPc, WorkerPc, ApiPc, Lifecycle!vars, Lifecycle!Jobs,
        apiVars, workerVars, lossVars, faultVars, ApiGoto, Goto, Drop, SetRow
<1> DEFINE Simulated == [Lifecycle!Next]_(Lifecycle!vars)
<1>a. ASSUME NEW j \in Jobs, Lifecycle!Submit(j) \/ Lifecycle!Start(j) \/ Lifecycle!Record(j)
                  \/ Lifecycle!Complete(j) \/ Lifecycle!Fail(j)
      PROVE Simulated
  BY <1>a DEF Lifecycle!Next
<1>b. ASSUME row' = row, scores' = scores PROVE Simulated
  BY <1>b
<1> HIDE DEF Simulated
<1>1. ASSUME NEW j \in Jobs, Insert(j) PROVE Simulated
  <2>1. Lifecycle!Submit(j)
    BY <1>1 DEF Insert, Lifecycle!Submit
  <2>2. QED
    BY <1>a, <2>1
<1>2. ASSUME NEW j \in Jobs, InsertReplyLost(j) PROVE Simulated
  <2>1. Lifecycle!Submit(j)
    BY <1>2 DEF InsertReplyLost, Lifecycle!Submit
  <2>2. QED
    BY <1>a, <2>1
<1>3. ASSUME NEW j \in Jobs, Push(j) PROVE Simulated
  BY <1>3, <1>b DEF Push
<1>4. ASSUME NEW j \in Jobs, PushLost(j) PROVE Simulated
  BY <1>4, <1>b DEF PushLost
<1>5. ASSUME NEW j \in Jobs, PushTwice(j) PROVE Simulated
  BY <1>5, <1>b DEF PushTwice
<1>6. ASSUME NEW j \in Jobs, PublishQueued(j) PROVE Simulated
  BY <1>6, <1>b DEF PublishQueued
<1>7. ASSUME NEW j \in Jobs, PublishQueuedLost(j) PROVE Simulated
  BY <1>7, <1>b DEF PublishQueuedLost
<1>8. ASSUME NEW j \in Jobs, ApiCrash(j) PROVE Simulated
  BY <1>8, <1>b DEF ApiCrash
<1>9. ASSUME NEW w \in Workers, Stop(w) PROVE Simulated
  BY <1>9, <1>b DEF Stop
<1>10. ASSUME NEW w \in Workers, Poll(w) PROVE Simulated
  BY <1>10, <1>b DEF Poll
<1>11. ASSUME NEW w \in Workers, PopTimeout(w) PROVE Simulated
  BY <1>11, <1>b DEF PopTimeout
<1>12. ASSUME NEW w \in Workers, Pop(w) PROVE Simulated
  BY <1>12, <1>b DEF Pop
<1>13. ASSUME NEW w \in Workers, PopReplyLost(w) PROVE Simulated
  BY <1>13, <1>b DEF PopReplyLost
<1>pe. ASSUME NEW w \in Workers, PopError(w) PROVE Simulated
  BY <1>pe, <1>b DEF PopError
<1>14. ASSUME NEW w \in Workers, Claim(w) PROVE Simulated
  <2>1. held[w] \in Jobs
    BY <1>14 DEF Claim
  <2>2. Lifecycle!Start(held[w])
    BY <1>14, <2>1 DEF Claim, Lifecycle!Start
  <2>3. QED
    BY <1>a, <2>1, <2>2
<1>15. ASSUME NEW w \in Workers, ClaimNoRow(w) PROVE Simulated
  BY <1>15, <1>b DEF ClaimNoRow
<1>16. ASSUME NEW w \in Workers, ClaimError(w) PROVE Simulated
  BY <1>16, <1>b DEF ClaimError
<1>17. ASSUME NEW w \in Workers, ClaimReplyLost(w) PROVE Simulated
  <2>1. held[w] \in Jobs
    BY <1>17 DEF ClaimReplyLost
  <2>2. Lifecycle!Start(held[w])
    BY <1>17, <2>1 DEF ClaimReplyLost, Lifecycle!Start
  <2>3. QED
    BY <1>a, <2>1, <2>2
<1>18. ASSUME NEW w \in Workers, PublishRunning(w) PROVE Simulated
  BY <1>18, <1>b DEF PublishRunning
<1>19. ASSUME NEW w \in Workers, PublishRunningLost(w) PROVE Simulated
  BY <1>19, <1>b DEF PublishRunningLost
<1>20. ASSUME NEW w \in Workers, WorkOk(w) PROVE Simulated
  <2>1. /\ held[w] \in Jobs /\ row[held[w]] = "running" /\ scores[held[w]] = 0
        /\ row' = row /\ AddScore(w)
    BY <1>20 DEF WorkOk, Scoring, ScoreMatchesPc
  <2>2. QED
    BY <2>1, ScoreStep DEF Simulated
<1>21. ASSUME NEW w \in Workers, WorkError(w) PROVE Simulated
  BY <1>21, <1>b DEF WorkError
<1>22. ASSUME NEW w \in Workers, WorkReplyLost(w) PROVE Simulated
  <2>1. /\ held[w] \in Jobs /\ row[held[w]] = "running" /\ scores[held[w]] = 0
        /\ row' = row /\ AddScore(w)
    BY <1>22 DEF WorkReplyLost, Scoring, ScoreMatchesPc
  <2>2. QED
    BY <2>1, ScoreStep DEF Simulated
<1>23. ASSUME NEW w \in Workers, Complete(w) PROVE Simulated
  <2>1. /\ held[w] \in Jobs
        /\ held[w] \in ScoreJobs => scores[held[w]] = 1
    BY <1>23 DEF Complete, Scoring, ScoreMatchesPc
  <2>2. Lifecycle!Complete(held[w])
    BY <1>23, <2>1 DEF Complete, Lifecycle!Complete
  <2>3. QED
    BY <1>a, <2>1, <2>2
<1>24. ASSUME NEW w \in Workers, Fail(w) PROVE Simulated
  <2>1. held[w] \in Jobs
    BY <1>24 DEF Fail
  <2>2. Lifecycle!Fail(held[w])
    BY <1>24, <2>1 DEF Fail, Lifecycle!Fail
  <2>3. QED
    BY <1>a, <2>1, <2>2
<1>fr. ASSUME NEW w \in Workers, FinishRefused(w) PROVE Simulated
  BY <1>fr, <1>b DEF FinishRefused
<1>25. ASSUME NEW w \in Workers, FinishError(w) PROVE Simulated
  BY <1>25, <1>b DEF FinishError
<1>26. ASSUME NEW w \in Workers, FinishReplyLost(w) PROVE Simulated
  <2>1. /\ held[w] \in Jobs
        /\ pc[w] = "completing" /\ held[w] \in ScoreJobs => scores[held[w]] = 1
    BY <1>26 DEF FinishReplyLost, Scoring, ScoreMatchesPc
  <2>2. CASE Drop(w, "completing") /\ SetRow(w, "completed")
    <3>1. Lifecycle!Complete(held[w])
      BY <1>26, <2>1, <2>2 DEF FinishReplyLost, Lifecycle!Complete
    <3>2. QED
      BY <1>a, <2>1, <3>1
  <2>3. CASE Drop(w, "failing") /\ SetRow(w, "failed")
    <3>1. Lifecycle!Fail(held[w])
      BY <1>26, <2>1, <2>3 DEF FinishReplyLost, Lifecycle!Fail
    <3>2. QED
      BY <1>a, <2>1, <3>1
  <2>4. QED
    BY <1>26, <2>2, <2>3 DEF FinishReplyLost
<1>27. ASSUME NEW w \in Workers, PublishFinal(w) PROVE Simulated
  BY <1>27, <1>b DEF PublishFinal
<1>28. ASSUME NEW w \in Workers, PublishFinalLost(w) PROVE Simulated
  BY <1>28, <1>b DEF PublishFinalLost
<1>29. ASSUME NEW w \in Workers, Shutdown(w) PROVE Simulated
  BY <1>29, <1>b DEF Shutdown
<1>30. ASSUME NEW w \in Workers, Crash(w) PROVE Simulated
  BY <1>30, <1>b DEF Crash
<1>31. ASSUME NEW w \in Workers, Restart(w) PROVE Simulated
  BY <1>31, <1>b DEF Restart
<1>32. CASE UNCHANGED vars
  BY <1>b, <1>32 DEF vars
<1>33. QED
  BY <1>1, <1>2, <1>3, <1>4, <1>5, <1>6, <1>7, <1>8, <1>9, <1>10,
     <1>11, <1>12, <1>13, <1>pe, <1>14, <1>15, <1>16, <1>17, <1>18, <1>19,
     <1>20, <1>21, <1>22, <1>23, <1>24, <1>fr, <1>25, <1>26, <1>27, <1>28,
     <1>29, <1>30, <1>31, <1>32
  DEF Simulated, Next, EnqueueStep, EnqueueFault, WorkerStep, WorkerFault, Process

-------------------------------------------------------------------------------
(* The theorems.                                                           *)

\* The five parts are inductive together: Ownership is what makes the UPDATEs of
\* Complete and Fail, which look at no status, safe for the other parts.
THEOREM InductiveInvariant == SafetySpec => []IInv
<1>1. Init => IInv
  BY TypeInit, InvInit DEF IInv
<1>2. IInv /\ [Next]_vars => IInv'
  BY TypeNext, OwnershipNext, ScoringNext, EventsNext, LostNext DEF IInv
<1>3. QED
  BY <1>1, <1>2, PTL DEF SafetySpec

\* TypeOK for every instance: in particular a worker holds a job id exactly
\* between BRPOP and the end of the loop body of main.go.
THEOREM TypeCorrect == SafetySpec => []TypeOK
BY InductiveInvariant, PTL DEF IInv

\* No two workers execute the same job, whatever the number of copies of its id
\* in the list.
THEOREM ExclusiveOwnerHolds == SafetySpec => []ExclusiveOwner
<1>1. IInv => ExclusiveOwner
  BY DEF IInv, Ownership
<1>2. QED
  BY <1>1, InductiveInvariant, PTL

\* However often a message is delivered, a job writes at most one score.
THEOREM AtMostOneScoreHolds == SafetySpec => []AtMostOneScore
<1>1. IInv => AtMostOneScore
  BY DEF IInv, Scoring
<1>2. QED
  BY <1>1, InductiveInvariant, PTL

\* What is recorded of a score job is what became of its score.
THEOREM OutcomeMatchesScoreHolds == SafetySpec => []OutcomeMatchesScore
<1>1. IInv => OutcomeMatchesScore
  BY DEF IInv, Scoring
<1>2. QED
  BY <1>1, InductiveInvariant, PTL

\* No subscriber hears of a status the row has not reached, or of two outcomes.
THEOREM EventsHold == SafetySpec => []EventsFollowRow
BY InductiveInvariant, PTL DEF IInv

\* Faults, SIGTERMs and ends that cannot be written down are the only ways to
\* strand a job.
THEOREM LostOnlyIfInterruptedHolds == SafetySpec => []LostOnlyIfInterrupted
BY InductiveInvariant, PTL DEF IInv

\* Every behaviour of the queue is a behaviour of the job state machine.
THEOREM Refinement == SafetySpec => ImplementsLifecycle
<1>1. Init => Lifecycle!Init
  BY DEF Init, Lifecycle!Init, Lifecycle!Jobs
<1>2. IInv /\ IInv' /\ [Next]_vars => [Lifecycle!Next]_(Lifecycle!vars)
  BY LifecycleNext DEF IInv
<1>3. QED
  BY <1>1, <1>2, InductiveInvariant, PTL DEF SafetySpec, ImplementsLifecycle, Lifecycle!Spec

\* A completed or failed job keeps its status: read off the state machine.
THEOREM FinalIsFinalHolds == SafetySpec => FinalIsFinal
<1>1. ASSUME TypeOK, [Lifecycle!Next]_(Lifecycle!vars)
      PROVE  \A j \in Jobs : row[j] \in Final => row'[j] = row[j]
  BY <1>1 DEF Final, TypeOK, Lifecycle!Next, Lifecycle!vars, Lifecycle!Jobs, Lifecycle!Submit,
     Lifecycle!Start, Lifecycle!Record, Lifecycle!Complete, Lifecycle!Fail
<1>2. IInv /\ IInv' /\ [Next]_vars
        => [\A j \in Jobs : row[j] \in Final => row'[j] = row[j]]_vars
  BY <1>1, LifecycleNext DEF IInv
<1>3. QED
  BY <1>2, InductiveInvariant, PTL DEF SafetySpec, FinalIsFinal
===============================================================================
