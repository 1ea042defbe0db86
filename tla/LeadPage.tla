------------------------------- MODULE LeadPage -------------------------------
(***************************************************************************)
(* The page of one lead, web/src/pages/LeadDetailPage.tsx, with the socket *)
(* that brings it the events of the lead's jobs, internal/http/ws.go.      *)
(*                                                                         *)
(* The jobs live the life of JobLifecycle, which JobQueue implements.  The *)
(* end of a job is published after its row is written, or not at all.  The *)
(* page sees what is published while it is subscribed; it neither          *)
(* reconnects nor polls.  It reads the scores when it opens and whenever a *)
(* job completes, and its refreshes may overlap.  Other events only change *)
(* the text of the live job strip, which is left out.  The API answers     *)
(* from a cache, which may be behind: LeadCache says how that comes about. *)
(***************************************************************************)
EXTENDS Naturals, Sequences, FiniteSets

CONSTANTS
  EmbedJobs,  \* jobs of the lead, submitted by others
  OtherJobs,  \* score jobs of the lead, submitted from elsewhere
  PageJobs,   \* score jobs a click on this page may submit
  MaxFaults,  \* bound: closed sockets and failed refreshes
  None

ScoringJobs == OtherJobs \cup PageJobs

ASSUME LeadPageAssumption ==
  /\ OtherJobs \cap PageJobs = {} /\ EmbedJobs \cap ScoringJobs = {}
  /\ MaxFaults \in Nat

VARIABLES
  status, scored,  \* the jobs, as in JobLifecycle
  newest,     \* the job of the newest row of lead_scores
  outbox,     \* events not yet published
  socket,     \* "none", "connecting", "subscribed" or "closed"
  inbox,      \* events on their way to the page
  post,       \* the click of each of the page's jobs
  loaded,     \* the lead is shown, and the button with it
  scoring,    \* the button says Scoring... and is disabled
  shown,      \* the latest score on the page, by its job
  refreshes,  \* where each refresh of the page stands
  missed,     \* history: the page did not get an event of the end of a job
  stale,      \* history: a refresh began before another was over, failed, or
              \* was answered with an older score
  faults

Life == INSTANCE JobLifecycle WITH ScoreJobs <- ScoringJobs

Jobs == EmbedJobs \cup ScoringJobs

life == <<status, scored, newest>>
page == <<loaded, scoring, shown, refreshes, stale>>
vars == <<life, outbox, socket, inbox, post, page, missed, faults>>

Final == {"completed", "failed"}

\* A refresh waits for getLead, similar and listScores, then for latestScore,
\* which has got a score when the answer is on its way.
Slots == 1 .. Cardinality(Jobs) + 1

At(phase) == [at |-> phase, got |-> None]

Init ==
  /\ Life!Init
  /\ newest = None
  /\ outbox = {}
  /\ socket = "none"
  /\ inbox = <<>>
  /\ post = [j \in PageJobs |-> "idle"]
  /\ loaded = FALSE /\ scoring = FALSE /\ shown = None
  /\ refreshes = [i \in Slots |-> At("idle")]
  /\ missed = FALSE /\ stale = FALSE
  /\ faults = 0

Fault == faults < MaxFaults /\ faults' = faults + 1

----------------------------------------------------------------------------
\* The jobs

Events == [job : Jobs, status : Final]

SubmitElsewhere(j) ==
  /\ j \in EmbedJobs \cup OtherJobs
  /\ Life!Submit(j)
  /\ UNCHANGED <<newest, outbox, socket, inbox, post, page, missed, faults>>

Start(j) ==
  /\ Life!Start(j)
  /\ UNCHANGED <<newest, outbox, socket, inbox, post, page, missed, faults>>

Record(j) ==
  /\ Life!Record(j)
  /\ newest' = j
  /\ UNCHANGED <<outbox, socket, inbox, post, page, missed, faults>>

\* What happened before the page opened, its first refresh shows.
Misses == missed' = (missed \/ socket # "none")

End(j) ==
  /\ Life!Complete(j) \/ Life!Fail(j)
  /\ outbox' = outbox \cup {[job |-> j, status |-> status'[j]]}
  /\ UNCHANGED <<newest, socket, inbox, post, page, missed, faults>>

\* The row is written, the worker sees an error and publishes nothing.
EndUntold(j) ==
  /\ Life!Complete(j) \/ Life!Fail(j)
  /\ Misses
  /\ UNCHANGED <<newest, outbox, socket, inbox, post, page, faults>>

----------------------------------------------------------------------------
\* The socket

\* Redis keeps no event for who is not subscribed.
Deliver(e) ==
  IF socket = "subscribed"
  THEN inbox' = Append(inbox, e) /\ UNCHANGED missed
  ELSE Misses /\ UNCHANGED inbox

Publish(e) ==
  /\ outbox' = outbox \ {e}
  /\ Deliver(e)
  /\ UNCHANGED <<life, socket, post, page, faults>>

PublishLost(e) ==
  /\ outbox' = outbox \ {e}
  /\ Misses
  /\ UNCHANGED <<life, socket, inbox, post, page, faults>>

\* WSHub.Handle upgrades first and subscribes then.
Subscribe ==
  /\ socket = "connecting"
  /\ socket' = "subscribed"
  /\ UNCHANGED <<life, outbox, inbox, post, page, missed, faults>>

Disconnect ==
  /\ Fault
  /\ socket \in {"connecting", "subscribed"}
  /\ socket' = "closed"
  /\ inbox' = <<>>
  /\ missed' = TRUE
  /\ UNCHANGED <<life, outbox, post, page>>

----------------------------------------------------------------------------
\* The page

Idle == {i \in Slots : refreshes[i].at = "idle"}

\* refresh(), while others may still be under way.
Refresh ==
  /\ \E i \in Idle : /\ \A k \in Idle : i <= k
                     /\ refreshes' = [refreshes EXCEPT ![i] = At("lead")]
  /\ stale' = (stale \/ Idle # Slots)

Mount ==
  /\ socket = "none"
  /\ socket' = "connecting"
  /\ Refresh
  /\ UNCHANGED <<life, outbox, inbox, post, loaded, scoring, shown, missed, faults>>

\* ButtonReleased: a failure ends the wait as well.
EndsWell(s) == s = "completed"

Ends(s) == s \in Final

\* ShownIsNewest: it is success that brings a new score.
RefreshesOnFailure(s) == s = "failed"

Refreshes(s) == s = "completed"

\* Events of every job of the lead, whatever its type and whoever submitted it.
HandleEvent ==
  /\ inbox # <<>>
  /\ inbox' = Tail(inbox)
  /\ scoring' = (scoring /\ ~Ends(Head(inbox).status))
  /\ IF Refreshes(Head(inbox).status) THEN Refresh ELSE UNCHANGED <<refreshes, stale>>
  /\ UNCHANGED <<life, outbox, socket, post, loaded, shown, missed, faults>>

\* getLead has answered: the lists are shown, and latestScore is asked for.
LeadAnswers(i) ==
  /\ refreshes[i].at = "lead"
  /\ refreshes' = [refreshes EXCEPT ![i] = At("ask")]
  /\ loaded' = TRUE
  /\ UNCHANGED <<life, outbox, socket, inbox, post, scoring, shown, stale,
                 missed, faults>>

\* LatestLeadScore returns what the score cache holds, if anything, and else the
\* newest row.  Every score was the newest once, and whoever read or wrote it
\* then may cache it at any time later: the cache may hold any of them.
Latest == IF scored = {} THEN {None} ELSE scored

ReadScore(i) ==
  /\ refreshes[i].at = "ask"
  /\ \E score \in Latest :
       /\ refreshes' = [refreshes EXCEPT ![i] = [at |-> "show", got |-> score]]
       /\ stale' = (stale \/ score # newest)
  /\ UNCHANGED <<life, outbox, socket, inbox, post, loaded, scoring, shown, missed, faults>>

ShowScore(i) ==
  /\ refreshes[i].at = "show"
  /\ shown' = refreshes[i].got
  /\ refreshes' = [refreshes EXCEPT ![i] = At("idle")]
  /\ UNCHANGED <<life, outbox, socket, inbox, post, loaded, scoring, stale,
                 missed, faults>>

\* An error of getLead ends the refresh; one of latestScore shows no score.
RefreshFails(i) ==
  /\ Fault
  /\ refreshes[i].at \in {"lead", "ask"}
  /\ refreshes' = [refreshes EXCEPT ![i] = At("idle")]
  /\ shown' = IF refreshes[i].at = "ask" THEN None ELSE shown
  /\ stale' = TRUE
  /\ UNCHANGED <<life, outbox, socket, inbox, post, loaded, scoring, missed>>

\* TypeOK: there is no button before there is a lead.
ClickUnloaded(j) ==
  /\ ~scoring
  /\ post[j] = "idle"
  /\ post' = [post EXCEPT ![j] = "sent"]
  /\ scoring' = TRUE
  /\ UNCHANGED <<life, outbox, socket, inbox, loaded, shown, refreshes, stale,
                 missed, faults>>

\* onScore, up to its await.
Click(j) ==
  /\ loaded /\ ~scoring
  /\ post[j] = "idle"
  /\ post' = [post EXCEPT ![j] = "sent"]
  /\ scoring' = TRUE
  /\ UNCHANGED <<life, outbox, socket, inbox, loaded, shown, refreshes, stale,
                 missed, faults>>

\* FreedByAnotherJob: the answer of the API is not the end of the job.
AcceptFrees(j) ==
  /\ post[j] = "sent" /\ status[j] # "absent"
  /\ post' = [post EXCEPT ![j] = "accepted"]
  /\ scoring' = FALSE
  /\ UNCHANGED <<life, outbox, socket, inbox, loaded, shown, refreshes, stale, missed, faults>>

\* The API submits the job; the request may have failed for the page by then.
SubmitClick(j) ==
  /\ post[j] # "idle"
  /\ Life!Submit(j)
  /\ UNCHANGED <<newest, outbox, socket, inbox, post, page, missed, faults>>

\* The answer only changes the text of the strip; the job may be over already.
Accept(j) ==
  /\ post[j] = "sent" /\ status[j] # "absent"
  /\ post' = [post EXCEPT ![j] = "accepted"]
  /\ UNCHANGED <<life, outbox, socket, inbox, page, missed, faults>>

\* The request fails, before the job is submitted or after it, or because the
\* INSERT of the job reports an error although it committed.
Refuse(j) ==
  /\ post[j] = "sent"
  /\ Life!Submit(j) \/ UNCHANGED <<status, scored>>
  /\ post' = [post EXCEPT ![j] = "refused"]
  /\ UNCHANGED <<newest, outbox, socket, inbox, page, missed, faults>>

\* The catch of onScore.
Failed(j) ==
  /\ post[j] = "refused"
  /\ post' = [post EXCEPT ![j] = "failed"]
  /\ scoring' = FALSE
  /\ UNCHANGED <<life, outbox, socket, inbox, loaded, shown, refreshes, stale,
                 missed, faults>>

----------------------------------------------------------------------------
Work(j) == Start(j) \/ Record(j) \/ End(j)

Next ==
  \/ \E j \in Jobs : SubmitElsewhere(j) \/ Work(j) \/ EndUntold(j)
  \/ \E e \in outbox : Publish(e) \/ PublishLost(e)
  \/ Subscribe \/ Disconnect \/ Mount \/ HandleEvent
  \/ \E i \in Slots : LeadAnswers(i) \/ ReadScore(i) \/ ShowScore(i) \/ RefreshFails(i)
  \/ \E j \in PageJobs :
       Click(j) \/ SubmitClick(j) \/ Accept(j) \/ Refuse(j) \/ Failed(j)

\* Redis and the hub deliver, requests are answered.  Nobody has to open the
\* page or to click, and a job may never end: JobQueue has many ways to that.
Fairness ==
  /\ WF_vars(\E e \in outbox : Publish(e))
  /\ WF_vars(Subscribe) /\ WF_vars(HandleEvent)
  /\ \A i \in Slots : WF_vars(LeadAnswers(i) \/ ReadScore(i) \/ ShowScore(i))
  /\ \A j \in PageJobs :
       /\ WF_vars(post[j] = "sent" /\ (SubmitClick(j) \/ Accept(j)))
       /\ WF_vars(Failed(j))

SafetySpec == Init /\ [][Next]_vars
Spec       == SafetySpec /\ Fairness

----------------------------------------------------------------------------
\* Every variable keeps its type; there is no button to wait for before there is
\* a lead, and no lead before the page opens.
TypeOK ==
  /\ status \in [Jobs -> Final \cup {"absent", "queued", "running"}] /\ scored \subseteq ScoringJobs
  /\ newest \in scored \cup {None}
  /\ outbox \subseteq Events /\ inbox \in Seq(Events)
  /\ socket \in {"none", "connecting", "subscribed", "closed"}
  /\ post \in [PageJobs -> {"idle", "sent", "accepted", "refused", "failed"}]
  /\ loaded \in BOOLEAN /\ scoring \in BOOLEAN
  /\ (scoring => loaded) /\ (loaded => socket # "none")
  /\ shown \in scored \cup {None}
  /\ refreshes \in [Slots -> [at : {"idle", "lead", "ask", "show"}, got : scored \cup {None}]]
  /\ missed \in BOOLEAN /\ stale \in BOOLEAN
  /\ faults \in 0 .. MaxFaults

\* The button is free while a job it submitted is still to be done only if
\* another job of the lead has ended, or the click was answered with an error.
FreedByAnotherJob ==
  \A j \in PageJobs :
    ~scoring /\ post[j] # "idle" /\ status[j] \notin Final =>
      \/ post[j] = "failed"
      \/ \E k \in Jobs \ {j} : status[k] \in Final \/ (k \in PageJobs /\ post[k] = "failed")

\* Scoring... is shown only as long as a job the page submitted is still to be
\* done, or the event of its end is on its way, unless the page missed an event.
ToldOf(j) ==
  \E e \in Events : e.job = j /\ (e \in outbox \/ \E i \in 1 .. Len(inbox) : inbox[i] = e)

Awaited(j) ==
  /\ post[j] \in {"sent", "accepted", "refused"}
  /\ status[j] \notin Final \/ ToldOf(j)

WaitsForItsJob == scoring /\ ~missed => \E j \in PageJobs : Awaited(j)

\* No job runs, nothing is on its way to the page or asked for by it.
Quiet ==
  /\ \A j \in Jobs : status[j] \in Final \cup {"absent"}
  /\ outbox = {} /\ inbox = <<>>
  /\ Idle = Slots
  /\ \A j \in PageJobs : post[j] \notin {"sent", "refused"}

\* When all is quiet an open page shows the newest score, unless it missed an
\* event, its refreshes overlapped, failed or were answered from a cache that was
\* behind, or the job that left the score is told to have failed: the page does
\* not look at scores then.
ShownIsNewest ==
  Quiet /\ socket # "none" =>
    \/ shown = newest
    \/ missed \/ stale
    \/ \E j \in scored : newest = j /\ status[j] = "failed"

\* Scoring... comes to an end if the jobs submitted by the page do, unless it
\* misses the event it waits for.
PageJobsEnd == <>[](\A j \in PageJobs : status[j] \in Final \cup {"absent"})

ButtonReleased == PageJobsEnd => []<>(~scoring \/ missed)
===============================================================================
