---------------------------- MODULE PageOverQueue -----------------------------
(***************************************************************************)
(* The page of a lead over the real queue: the steps of JobQueue, with     *)
(* what each of them does to the page of LeadPage.  Nothing else moves the *)
(* jobs.  The jobs are those of the lead; a job of another lead only keeps *)
(* a worker busy.                                                          *)
(*                                                                         *)
(* LeadPage lets rows, scores and events change by themselves.  Here the   *)
(* API and the workers of JobQueue change them, with every failure of      *)
(* theirs, and they are shown to implement it.                             *)
(***************************************************************************)
EXTENDS JobQueue

CONSTANTS
  PageJobs,   \* score jobs a click on the page may submit
  MaxMishaps  \* bound: closed sockets and failed refreshes

ASSUME PageAssumption == PageJobs \subseteq ScoreJobs /\ MaxMishaps \in Nat

VARIABLES
  newest,     \* the job of the newest row of lead_scores
  socket, inbox, post, loaded, scoring, shown, refreshes, missed, stale,
  mishaps     \* those of LeadPage

pageVars == <<newest, socket, inbox, post, loaded, scoring, shown, refreshes,
              missed, stale, mishaps>>
liveVars == <<vars, pageVars>>

\* An event is on its way to Redis from the UPDATE of the row to its publish.
PublishPc == {"publishCompleted", "publishFailed"}

Publishers == {w \in Workers : pc[w] \in PublishPc}

Outcome(w) == IF pc[w] = "publishCompleted" THEN "completed" ELSE "failed"

EventOf(w) == [job |-> held[w], status |-> Outcome(w)]

Page == INSTANCE LeadPage
  WITH OtherJobs <- ScoreJobs \ PageJobs, MaxFaults <- MaxMishaps,
       status <- row, scored <- {j \in Jobs : scores[j] > 0},
       outbox <- {EventOf(w) : w \in Publishers}, faults <- mishaps

LiveInit == Init /\ Page!Init

-------------------------------------------------------------------------------
(* The requests: a job of the page waits for its click.                    *)

Requested(j) == j \in PageJobs => post[j] # "idle"

\* The page sees an error, if it still waits for an answer.
RequestFails(j) ==
  /\ post' = IF j \in PageJobs /\ post[j] = "sent"
             THEN [post EXCEPT ![j] = "refused"] ELSE post
  /\ UNCHANGED <<newest, socket, inbox, loaded, scoring, shown, refreshes,
                 missed, stale, mishaps>>

EnqueueJob(j) ==
  \/ /\ Requested(j)
     /\ \/ Insert(j) /\ UNCHANGED pageVars
        \/ InsertReplyLost(j) /\ RequestFails(j)
  \/ /\ \/ Push(j) \/ PushLost(j) \/ PushTwice(j)
        \/ PublishQueued(j) \/ PublishQueuedLost(j)
     /\ UNCHANGED pageVars
  \/ ApiCrash(j) /\ RequestFails(j)

-------------------------------------------------------------------------------
(* The workers.                                                            *)

\* A row of lead_scores is written by a score job.
NewestScore(w) ==
  /\ newest' = IF held[w] \in ScoreJobs THEN held[w] ELSE newest
  /\ UNCHANGED <<socket, inbox, post, loaded, scoring, shown, refreshes, missed,
                 stale, mishaps>>

Told(w) ==
  /\ Page!Deliver(EventOf(w))
  /\ UNCHANGED <<newest, socket, post, loaded, scoring, shown, refreshes, stale,
                 mishaps>>

Untold ==
  /\ Page!Misses
  /\ UNCHANGED <<newest, socket, inbox, post, loaded, scoring, shown, refreshes,
                 stale, mishaps>>

\* The steps of a worker that neither write a score nor end in an event.
Aside(w) ==
  \/ Stop(w) \/ Poll(w) \/ PopTimeout(w) \/ Pop(w) \/ Claim(w) \/ ClaimNoRow(w)
  \/ PublishRunning(w) \/ WorkError(w) \/ Complete(w) \/ Fail(w)
  \/ PopReplyLost(w) \/ PopError(w) \/ ClaimError(w) \/ ClaimReplyLost(w)
  \/ PublishRunningLost(w) \/ FinishRefused(w) \/ FinishError(w)
  \/ Shutdown(w) \/ Restart(w)

WorkJob(w) ==
  \/ Aside(w) /\ UNCHANGED pageVars
  \/ (WorkOk(w) \/ WorkReplyLost(w)) /\ NewestScore(w)
  \/ PublishFinal(w) /\ Told(w)
  \/ (PublishFinalLost(w) \/ FinishReplyLost(w)) /\ Untold
  \/ Crash(w) /\ IF w \in Publishers THEN Untold ELSE UNCHANGED pageVars

-------------------------------------------------------------------------------
(* The page.                                                               *)

\* A mistake that would break ImplementsPage: the answer does not wait for
\* Enqueue.
AcceptAtOnce(j) ==
  /\ post[j] = "sent"
  /\ post' = [post EXCEPT ![j] = "accepted"]
  /\ UNCHANGED <<newest, socket, inbox, loaded, scoring, shown, refreshes, missed,
                 stale, mishaps>>

\* Enqueue has returned the job.
Accept(j) ==
  /\ post[j] = "sent" /\ api[j] = "done"
  /\ post' = [post EXCEPT ![j] = "accepted"]
  /\ UNCHANGED <<newest, socket, inbox, loaded, scoring, shown, refreshes, missed,
                 stale, mishaps>>

\* The request or its answer is lost, whatever Enqueue does.
Refuse(j) == post[j] = "sent" /\ RequestFails(j)

UsePage ==
  /\ UNCHANGED vars
  /\ \/ Page!Subscribe \/ Page!Disconnect \/ Page!Mount \/ Page!HandleEvent
     \/ \E i \in Page!Slots :
          \/ Page!LeadAnswers(i) \/ Page!ReadScore(i)
          \/ Page!ShowScore(i) \/ Page!RefreshFails(i)
     \/ \E j \in PageJobs :
          Page!Click(j) \/ Accept(j) \/ Refuse(j) \/ Page!Failed(j)

LiveNext ==
  \/ \E j \in Jobs : EnqueueJob(j)
  \/ \E w \in Workers : WorkJob(w)
  \/ UsePage

LiveSpec == LiveInit /\ [][LiveNext]_liveVars

-------------------------------------------------------------------------------
(* Properties.                                                             *)

\* The queue, its workers and their failures do to the page nothing that
\* LeadPage does not let happen: what holds of it holds over the real queue.
ImplementsPage == Page!SafetySpec

\* The page that says Scoring... and has missed no event waits for an answer of
\* the API, for a job of its own that the queue or a worker still has, or for
\* an event that is on its way; or a fault or a SIGTERM has stranded the job, or
\* its end could not be written down.
StillToCome(j) ==
  \/ row[j] = "absent" /\ post[j] \in {"sent", "refused"}
  \/ row[j] \in {"queued", "running"} /\ (InGoodHands(j) \/ j \in hit)
  \/ row[j] = "running" /\ j \in unreported
  \/ row[j] \in Final /\ Page!ToldOf(j)

NobodyWaitsInVain ==
  scoring /\ ~missed => \E j \in PageJobs : post[j] # "idle" /\ StillToCome(j)
===============================================================================
