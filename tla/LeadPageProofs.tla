---------------------------- MODULE LeadPageProofs -----------------------------
(***************************************************************************)
(* Proofs about LeadPage: for any number of jobs and faults, the safety    *)
(* properties that MCLeadPage checks on an instance.                       *)
(***************************************************************************)
EXTENDS LeadPage, SequenceTheorems, TLAPS

\* Only a job that has started leaves a score.
Recorded == \A j \in scored : status[j] \in Final \cup {"running"}

\* An event tells the status that its job has.
Truthful ==
  /\ \A e \in outbox : e.status = status[e.job]
  /\ \A n \in 1 .. Len(inbox) : inbox[n].status = status[inbox[n].job]

\* Only an open page is told of events.
Listening == inbox # <<>> => socket # "none"

\* Only an open page refreshes, and one refresh at a time unless it is stale.
Refreshing ==
  /\ \A i \in Slots : refreshes[i].at # "idle" => socket # "none"
  /\ ~stale => \A i, k \in Slots :
                 refreshes[i].at # "idle" /\ refreshes[k].at # "idle" => i = k

Done(j) == [job |-> j, status |-> "completed"]

\* The newest score is on the page, on its way, or the event that will make the
\* page read it is, or its job is still to complete.
Reaches ==
  \/ shown = newest /\ \A i \in Slots : refreshes[i].at = "show" => refreshes[i].got = newest
  \/ \E i \in Slots : \/ refreshes[i].at \in {"lead", "ask"}
                      \/ refreshes[i].at = "show" /\ refreshes[i].got = newest
  \/ Done(newest) \in outbox
  \/ \E n \in 1 .. Len(inbox) : inbox[n] = Done(newest)
  \/ newest \in scored /\ status[newest] # "completed"

\* A job of the page exists only after its click, and before it is accepted.
Asked ==
  \A j \in PageJobs : /\ post[j] = "idle" => status[j] = "absent"
                      /\ post[j] = "accepted" => status[j] # "absent"

Promised == socket # "none" /\ ~missed /\ ~stale => Reaches

IInv ==
  /\ TypeOK /\ Recorded /\ Truthful /\ Listening /\ Refreshing /\ Promised /\ Asked
  /\ FreedByAnotherJob /\ WaitsForItsJob

----------------------------------------------------------------------------
\* What the jobs do to the rows.

StatusType == Final \cup {"absent", "queued", "running"}

LEMMA LifeSteps ==
  ASSUME TypeOK, NEW j \in Jobs,
         Life!Submit(j) \/ Life!Start(j) \/ Life!Record(j) \/ Life!Complete(j) \/ Life!Fail(j)
  PROVE  /\ status' \in [Jobs -> StatusType]
         /\ scored \subseteq scored' /\ scored' \subseteq ScoringJobs
         /\ \A k \in Jobs : status[k] \in Final => status'[k] = status[k]
         /\ \A k \in Jobs : status'[k] = "completed" /\ status[k] # "completed" => k = j
  BY DEF TypeOK, StatusType, Final, Life!Submit, Life!Start, Life!Record, Life!Complete,
         Life!Fail, Life!Jobs, Jobs

----------------------------------------------------------------------------
\* Type correctness

LEMMA InitType == Init => TypeOK
<1>. SUFFICES ASSUME Init
              PROVE  TypeOK
  OBVIOUS
<1>1. status = [j \in Jobs |-> "absent"] /\ scored = {}
  BY DEF Init, Life!Init, Life!Jobs, Jobs
<1>2. refreshes \in [Slots -> [at : {"idle", "lead", "ask", "show"}, got : scored \cup {None}]]
  BY DEF Init, At
<1>3. /\ loaded \in BOOLEAN /\ scoring \in BOOLEAN /\ missed \in BOOLEAN /\ stale \in BOOLEAN
      /\ (scoring => loaded) /\ (loaded => socket # "none")
  BY Zenon DEF Init
<1>. QED
  BY <1>1, <1>2, <1>3, LeadPageAssumption DEF Init, TypeOK

LEMMA RefreshType ==
  ASSUME TypeOK, Refresh, UNCHANGED scored
  PROVE  /\ refreshes' \in [Slots -> [at : {"idle", "lead", "ask", "show"}, got : scored' \cup {None}]]
         /\ stale' \in BOOLEAN
  BY DEF TypeOK, Refresh, At, Idle

\* An older score is remembered as such.
LEMMA ReadTells ==
  ASSUME NEW i \in Slots, ReadScore(i)
  PROVE  stale' \in BOOLEAN /\ (stale => stale')
<1>1. PICK score \in Latest : stale' = (stale \/ score # newest)
  BY DEF ReadScore
<1>. QED
  BY <1>1, Zenon

LEMMA NextType == TypeOK /\ Refreshing /\ [Next]_vars => TypeOK'
<1>. SUFFICES ASSUME TypeOK, Refreshing, [Next]_vars
              PROVE  TypeOK'
  OBVIOUS
<1>. USE LeadPageAssumption
<1>1. ASSUME NEW j \in Jobs, SubmitElsewhere(j) \/ Start(j)
      PROVE  TypeOK'
  <2>1. /\ Life!Submit(j) \/ Life!Start(j)
        /\ UNCHANGED <<newest, outbox, socket, inbox, post, page, missed, faults>>
    BY <1>1 DEF SubmitElsewhere, Start
  <2>2. status' \in [Jobs -> StatusType] /\ UNCHANGED scored
    BY <2>1, LifeSteps DEF Life!Submit, Life!Start
  <2>. QED
    BY <2>1, <2>2 DEF TypeOK, StatusType, page
<1>2. ASSUME NEW j \in Jobs, Record(j)
      PROVE  TypeOK'
  <2>1. /\ status' \in [Jobs -> StatusType] /\ scored \subseteq scored' /\ scored' \subseteq ScoringJobs
        /\ j \in scored'
    BY <1>2, LifeSteps DEF Record, Life!Record
  <2>2. newest' = j /\ UNCHANGED <<outbox, socket, inbox, post, page, missed, faults>>
    BY <1>2 DEF Record
  <2>3. refreshes' \in [Slots -> [at : {"idle", "lead", "ask", "show"}, got : scored' \cup {None}]]
    BY <2>1, <2>2 DEF TypeOK, page
  <2>. QED
    BY <2>1, <2>2, <2>3 DEF TypeOK, StatusType, page
<1>3. ASSUME NEW j \in Jobs, End(j)
      PROVE  TypeOK'
  <2>1. /\ Life!Complete(j) \/ Life!Fail(j)
        /\ outbox' = outbox \cup {[job |-> j, status |-> status'[j]]}
        /\ UNCHANGED <<newest, socket, inbox, post, page, missed, faults>>
    BY <1>3 DEF End
  <2>2. status' \in [Jobs -> StatusType] /\ UNCHANGED scored /\ status'[j] \in Final
    BY <2>1, LifeSteps DEF Life!Complete, Life!Fail, TypeOK, Final
  <2>3. outbox' \subseteq Events
    BY <2>1, <2>2 DEF TypeOK, Events
  <2>. QED
    BY <2>1, <2>2, <2>3 DEF TypeOK, StatusType, page
<1>16. ASSUME NEW j \in Jobs, EndUntold(j)
       PROVE  TypeOK'
  <2>1. /\ Life!Complete(j) \/ Life!Fail(j)
        /\ UNCHANGED <<newest, outbox, socket, inbox, post, page, faults>>
    BY <1>16 DEF EndUntold
  <2>2. status' \in [Jobs -> StatusType] /\ UNCHANGED scored
    BY <2>1, LifeSteps DEF Life!Complete, Life!Fail
  <2>3. missed' \in BOOLEAN
    BY <1>16 DEF EndUntold, Misses, TypeOK
  <2>. QED
    BY <2>1, <2>2, <2>3 DEF TypeOK, StatusType, page
<1>4. ASSUME NEW e \in outbox, Publish(e) \/ PublishLost(e)
      PROVE  TypeOK'
  <2>1. e \in Events /\ inbox \in Seq(Events)
    BY DEF TypeOK
  <2>2. inbox' \in Seq(Events)
    BY <1>4, <2>1 DEF Publish, PublishLost, Deliver
  <2>3. missed' \in BOOLEAN
    BY <1>4 DEF Publish, PublishLost, Deliver, Misses, TypeOK
  <2>4. outbox' \subseteq outbox /\ UNCHANGED <<life, socket, post, page, faults>>
    BY <1>4 DEF Publish, PublishLost
  <2>. QED
    BY <2>2, <2>3, <2>4 DEF TypeOK, life, page
<1>5. CASE Subscribe
  BY <1>5 DEF Subscribe, TypeOK, life, page
<1>6. CASE Disconnect
  BY <1>6 DEF Disconnect, Fault, TypeOK, life, page
<1>7. CASE Mount
  <2>1. /\ refreshes' \in [Slots -> [at : {"idle", "lead", "ask", "show"}, got : scored' \cup {None}]]
        /\ stale' \in BOOLEAN
    BY <1>7, RefreshType DEF Mount, life
  <2>. QED
    BY <1>7, <2>1 DEF Mount, TypeOK, life
<1>8. CASE HandleEvent
  <2>1. /\ refreshes' \in [Slots -> [at : {"idle", "lead", "ask", "show"}, got : scored' \cup {None}]]
        /\ stale' \in BOOLEAN
    BY <1>8, RefreshType DEF HandleEvent, life, TypeOK
  <2>2. inbox' \in Seq(Events) /\ scoring' \in BOOLEAN /\ (scoring' => scoring)
    BY <1>8 DEF HandleEvent, TypeOK
  <2>3. UNCHANGED <<life, outbox, socket, post, loaded, shown, missed, faults>>
    BY <1>8 DEF HandleEvent
  <2>. QED
    BY <2>1, <2>2, <2>3 DEF TypeOK, life
<1>9. ASSUME NEW i \in Slots, LeadAnswers(i)
      PROVE  TypeOK'
  <2>1. socket # "none"
    BY <1>9 DEF LeadAnswers, Refreshing
  <2>. QED
    BY <1>9, <2>1 DEF LeadAnswers, At, TypeOK, life
<1>10. ASSUME NEW i \in Slots, ReadScore(i)
       PROVE  TypeOK'
  <2>1. PICK score \in Latest :
          refreshes' = [refreshes EXCEPT ![i] = [at |-> "show", got |-> score]]
    BY <1>10 DEF ReadScore
  <2>2. score \in scored \cup {None}
    BY DEF Latest
  <2>3. refreshes' \in [Slots -> [at : {"idle", "lead", "ask", "show"}, got : scored \cup {None}]]
    BY <2>1, <2>2 DEF TypeOK
  <2>4. stale' \in BOOLEAN
    BY <1>10, ReadTells DEF TypeOK
  <2>5. UNCHANGED <<life, outbox, socket, inbox, post, loaded, scoring, shown, missed, faults>>
    BY <1>10 DEF ReadScore
  <2>. QED
    BY <2>3, <2>4, <2>5 DEF TypeOK, life
<1>11. ASSUME NEW i \in Slots, ShowScore(i)
       PROVE  TypeOK'
  BY <1>11 DEF ShowScore, At, TypeOK, life
<1>12. ASSUME NEW i \in Slots, RefreshFails(i)
       PROVE  TypeOK'
  BY <1>12 DEF RefreshFails, Fault, At, TypeOK, life
<1>13. ASSUME NEW j \in PageJobs, Click(j) \/ Failed(j)
       PROVE  TypeOK'
  <2>1. scoring' \in BOOLEAN /\ (scoring' => loaded)
    BY <1>13, Zenon DEF Click, Failed, TypeOK
  <2>2. /\ post' \in [PageJobs -> {"idle", "sent", "accepted", "refused", "failed"}]
        /\ UNCHANGED <<life, outbox, socket, inbox, loaded, shown, refreshes, stale, missed, faults>>
    BY <1>13 DEF Click, Failed, TypeOK
  <2>. QED
    BY <2>1, <2>2 DEF TypeOK, life
<1>14. ASSUME NEW j \in PageJobs, SubmitClick(j) \/ Accept(j) \/ Refuse(j)
       PROVE  TypeOK'
  <2>1. j \in Jobs
    BY DEF Jobs, ScoringJobs
  <2>2. Life!Submit(j) \/ UNCHANGED <<status, scored>>
    BY <1>14 DEF SubmitClick, Accept, Refuse, life
  <2>3. status' \in [Jobs -> StatusType] /\ UNCHANGED scored
    BY <2>1, <2>2, LifeSteps DEF Life!Submit, TypeOK, StatusType
  <2>4. /\ post' \in [PageJobs -> {"idle", "sent", "accepted", "refused", "failed"}]
        /\ UNCHANGED <<newest, outbox, socket, inbox, page, missed, faults>>
    BY <1>14 DEF SubmitClick, Accept, Refuse, TypeOK, life
  <2>. QED
    BY <2>3, <2>4 DEF TypeOK, StatusType, page
<1>15. CASE UNCHANGED vars
  BY <1>15 DEF vars, life, page, TypeOK
<1>. QED
  BY <1>1, <1>2, <1>3, <1>4, <1>5, <1>6, <1>7, <1>8, <1>9, <1>10, <1>11, <1>12, <1>13, <1>14,
     <1>15, <1>16 DEF Next, Work

----------------------------------------------------------------------------
\* The rows and the events

Working(j) == SubmitElsewhere(j) \/ Start(j) \/ Record(j) \/ End(j) \/ EndUntold(j)

\* What every step does to the jobs: one lives on, or none does.
LEMMA NextLife ==
  ASSUME TypeOK, [Next]_vars
  PROVE  \/ UNCHANGED <<status, scored>>
         \/ \E j \in Jobs : Working(j)
         \/ \E j \in PageJobs : Life!Submit(j)
<1>1. ASSUME NEW j \in PageJobs, SubmitClick(j) \/ Accept(j) \/ Refuse(j)
      PROVE  UNCHANGED <<status, scored>> \/ Life!Submit(j)
  BY <1>1 DEF SubmitClick, Accept, Refuse, life
<1>. QED
  BY <1>1 DEF Next, Work, Working, Publish, PublishLost, Subscribe, Disconnect, Mount,
     HandleEvent, LeadAnswers, ReadScore, ShowScore, RefreshFails, Click, Failed, vars, life

LEMMA NextFinal ==
  ASSUME TypeOK, [Next]_vars
  PROVE  /\ scored \subseteq scored'
         /\ \A k \in Jobs : status[k] \in Final => status'[k] = status[k]
<1>1. ASSUME NEW j \in Jobs, Working(j)
      PROVE  Life!Submit(j) \/ Life!Start(j) \/ Life!Record(j) \/ Life!Complete(j) \/ Life!Fail(j)
  BY <1>1 DEF Working, SubmitElsewhere, Start, Record, End, EndUntold
<1>2. ASSUME NEW j \in PageJobs
      PROVE  j \in Jobs
  BY DEF Jobs, ScoringJobs
<1>. QED
  BY <1>1, <1>2, NextLife, LifeSteps

LEMMA InitRecorded == Init => Recorded
  BY DEF Init, Life!Init, Recorded

LEMMA NextRecorded == TypeOK /\ Recorded /\ [Next]_vars => Recorded'
<1>. SUFFICES ASSUME TypeOK, Recorded, [Next]_vars
              PROVE  Recorded'
  OBVIOUS
<1>1. ASSUME NEW j \in Jobs,
             Life!Submit(j) \/ Life!Start(j) \/ Life!Record(j) \/ Life!Complete(j) \/ Life!Fail(j)
      PROVE  Recorded'
  BY <1>1 DEF Recorded, TypeOK, Final, Life!Submit, Life!Start, Life!Record, Life!Complete,
     Life!Fail, Jobs
<1>2. ASSUME NEW j \in Jobs, Working(j)
      PROVE  Recorded'
  BY <1>1, <1>2 DEF Working, SubmitElsewhere, Start, Record, End, EndUntold
<1>3. ASSUME NEW j \in PageJobs, Life!Submit(j)
      PROVE  Recorded'
  BY <1>1, <1>3 DEF Jobs, ScoringJobs
<1>4. CASE UNCHANGED <<status, scored>>
  BY <1>4 DEF Recorded
<1>. QED
  BY <1>2, <1>3, <1>4, NextLife

LEMMA InitTruthful == Init => Truthful
  BY DEF Init, Truthful

\* No event is made up, and none tells of a job that is not over.
LEMMA NextTruthful == TypeOK /\ Truthful /\ [Next]_vars => Truthful'
<1>. SUFFICES ASSUME TypeOK, Truthful, [Next]_vars
              PROVE  Truthful'
  OBVIOUS
<1>0. /\ outbox \subseteq Events /\ inbox \in Seq(Events)
      /\ \A e \in Events : e.job \in Jobs /\ e.status \in Final
  BY DEF TypeOK, Events
<1>1. ASSUME NEW e \in Events, e.status = status[e.job]
      PROVE  e.status = status'[e.job]
  BY <1>0, <1>1, NextFinal
<1>2. \A e \in outbox : e.status = status'[e.job]
  BY <1>0, <1>1 DEF Truthful
<1>3. \A n \in 1 .. Len(inbox) : inbox[n] \in Events /\ inbox[n].status = status'[inbox[n].job]
  BY <1>0, <1>1 DEF Truthful
<1>4. ASSUME outbox' \subseteq outbox,
             inbox' = inbox \/ inbox' = <<>>
      PROVE  Truthful'
  BY <1>2, <1>3, <1>4 DEF Truthful
<1>5. ASSUME NEW j \in Jobs, Working(j)
      PROVE  Truthful'
  <2>1. CASE End(j)
    <3>1. outbox' = outbox \cup {[job |-> j, status |-> status'[j]]} /\ UNCHANGED inbox
      BY <2>1 DEF End
    <3>. QED
      BY <1>2, <1>3, <3>1 DEF Truthful
  <2>2. CASE ~End(j)
    BY <1>4, <1>5, <2>2 DEF Working, SubmitElsewhere, Start, Record, EndUntold
  <2>. QED
    BY <2>1, <2>2
<1>6. ASSUME NEW e \in outbox, Publish(e)
      PROVE  Truthful'
  <2>1. CASE inbox' = Append(inbox, e)
    <3>1. \A n \in 1 .. Len(inbox') : inbox'[n] = e \/ (n \in 1 .. Len(inbox) /\ inbox'[n] = inbox[n])
      BY <1>0, <2>1
    <3>. QED
      BY <1>2, <1>3, <1>6, <3>1 DEF Truthful, Publish
  <2>2. CASE UNCHANGED inbox
    BY <1>4, <1>6, <2>2 DEF Publish
  <2>. QED
    BY <1>6, <2>1, <2>2 DEF Publish, Deliver
<1>7. CASE HandleEvent
  <2>1. inbox # <<>> /\ inbox' = Tail(inbox) /\ UNCHANGED outbox
    BY <1>7 DEF HandleEvent
  <2>2. \A n \in 1 .. Len(inbox') : n + 1 \in 1 .. Len(inbox) /\ inbox'[n] = inbox[n + 1]
    BY <1>0, <2>1
  <2>. QED
    BY <1>2, <1>3, <2>1, <2>2 DEF Truthful
<1>8. CASE Disconnect \/ Subscribe \/ Mount \/ UNCHANGED vars
  BY <1>4, <1>8 DEF Disconnect, Subscribe, Mount, vars
<1>9. ASSUME NEW e \in outbox, PublishLost(e)
      PROVE  Truthful'
  BY <1>4, <1>9 DEF PublishLost
<1>10. ASSUME NEW i \in Slots, LeadAnswers(i) \/ ReadScore(i) \/ ShowScore(i) \/ RefreshFails(i)
       PROVE  Truthful'
  BY <1>4, <1>10 DEF LeadAnswers, ReadScore, ShowScore, RefreshFails
<1>11. ASSUME NEW j \in PageJobs, Click(j) \/ SubmitClick(j) \/ Accept(j) \/ Refuse(j) \/ Failed(j)
       PROVE  Truthful'
  BY <1>4, <1>11 DEF Click, SubmitClick, Accept, Refuse, Failed
<1>. QED
  BY <1>5, <1>6, <1>7, <1>8, <1>9, <1>10, <1>11 DEF Next, Work, Working

----------------------------------------------------------------------------
\* The refreshes

LEMMA InitRefreshing == Init => Refreshing
  BY DEF Init, Refreshing, At

LEMMA InitListening == Init => Listening
  BY DEF Init, Listening

LEMMA NextListening == TypeOK /\ Listening /\ [Next]_vars => Listening'
<1>. SUFFICES ASSUME TypeOK, Listening, [Next]_vars
              PROVE  Listening'
  OBVIOUS
<1>1. ASSUME NEW j \in Jobs, Working(j)
      PROVE  Listening'
  BY <1>1 DEF Working, SubmitElsewhere, Start, Record, End, EndUntold, Listening
<1>2. ASSUME NEW e \in outbox, Publish(e) \/ PublishLost(e)
      PROVE  Listening'
  BY <1>2 DEF Publish, PublishLost, Deliver, Listening
<1>3. CASE Subscribe \/ Disconnect \/ Mount \/ HandleEvent
  BY <1>3 DEF Subscribe, Disconnect, Mount, HandleEvent, Listening
<1>4. ASSUME NEW i \in Slots, LeadAnswers(i) \/ ReadScore(i) \/ ShowScore(i) \/ RefreshFails(i)
      PROVE  Listening'
  BY <1>4 DEF LeadAnswers, ReadScore, ShowScore, RefreshFails, Listening
<1>5. ASSUME NEW j \in PageJobs, Click(j) \/ SubmitClick(j) \/ Accept(j) \/ Refuse(j) \/ Failed(j)
      PROVE  Listening'
  BY <1>5 DEF Click, SubmitClick, Accept, Refuse, Failed, Listening
<1>6. CASE UNCHANGED vars
  BY <1>6 DEF vars, Listening
<1>. QED
  BY <1>1, <1>2, <1>3, <1>4, <1>5, <1>6 DEF Next, Work, Working

LEMMA NextRefreshing == TypeOK /\ Listening /\ Refreshing /\ [Next]_vars => Refreshing'
<1>. SUFFICES ASSUME TypeOK, Listening, Refreshing, [Next]_vars
              PROVE  Refreshing'
  OBVIOUS
<1>1. ASSUME socket' # "none" \/ socket' = socket, stale => stale',
             stale' \/ \A i \in Slots : refreshes'[i].at # "idle" => refreshes[i].at # "idle",
             \A i \in Slots : refreshes'[i].at # "idle" => refreshes[i].at # "idle" \/ socket' # "none"
      PROVE  Refreshing'
  BY <1>1 DEF Refreshing
<1>2. ASSUME Refresh, socket' # "none"
      PROVE  Refreshing'
  <2>1. PICK i \in Idle : refreshes' = [refreshes EXCEPT ![i] = At("lead")]
    BY <1>2 DEF Refresh
  <2>2. \A k \in Slots \ {i} : refreshes'[k] = refreshes[k]
    BY <2>1 DEF TypeOK
  <2>3. ~stale' => \A k \in Slots : refreshes[k].at = "idle"
    BY <1>2 DEF Refresh, Idle
  <2>. QED
    BY <1>2, <2>2, <2>3 DEF Refreshing
<1>3. CASE UNCHANGED <<socket, refreshes, stale>>
  BY <1>3 DEF Refreshing
<1>4. ASSUME NEW j \in Jobs, Working(j)
      PROVE  Refreshing'
  BY <1>3, <1>4 DEF Working, SubmitElsewhere, Start, Record, End, EndUntold, page
<1>5. ASSUME NEW e \in outbox, Publish(e) \/ PublishLost(e)
      PROVE  Refreshing'
  BY <1>3, <1>5 DEF Publish, PublishLost, page
<1>6. CASE Subscribe \/ Disconnect
  BY <1>1, <1>6 DEF Subscribe, Disconnect, page
<1>7. CASE Mount
  BY <1>2, <1>7 DEF Mount
<1>8. CASE HandleEvent
  <2>1. CASE Refresh
    BY <1>2, <1>8, <2>1 DEF HandleEvent, Listening
  <2>2. CASE UNCHANGED <<refreshes, stale>>
    BY <1>3, <1>8, <2>2 DEF HandleEvent
  <2>. QED
    BY <1>8, <2>1, <2>2 DEF HandleEvent
<1>9. ASSUME NEW i \in Slots, LeadAnswers(i) \/ ReadScore(i) \/ ShowScore(i) \/ RefreshFails(i)
      PROVE  Refreshing'
  <2>1. refreshes[i].at # "idle" /\ UNCHANGED socket
    BY <1>9 DEF LeadAnswers, ReadScore, ShowScore, RefreshFails
  <2>2. stale => stale'
    BY <1>9, ReadTells DEF LeadAnswers, ShowScore, RefreshFails
  <2>3. \A k \in Slots \ {i} : refreshes'[k] = refreshes[k]
    BY <1>9 DEF LeadAnswers, ReadScore, ShowScore, RefreshFails, TypeOK
  <2>. QED
    BY <1>1, <2>1, <2>2, <2>3
<1>10. ASSUME NEW j \in PageJobs, Click(j) \/ SubmitClick(j) \/ Accept(j) \/ Refuse(j) \/ Failed(j)
       PROVE  Refreshing'
  BY <1>3, <1>10 DEF Click, SubmitClick, Accept, Refuse, Failed, page
<1>11. CASE UNCHANGED vars
  BY <1>3, <1>11 DEF vars, page
<1>. QED
  BY <1>4, <1>5, <1>6, <1>7, <1>8, <1>9, <1>10, <1>11 DEF Next, Work, Working

----------------------------------------------------------------------------
\* The newest score reaches the page

LEMMA InitPromised == Init => Promised
  BY DEF Init, Promised

LEMMA NextPromised ==
  TypeOK /\ Recorded /\ Truthful /\ Listening /\ Refreshing /\ Promised /\ [Next]_vars
    => Promised'
<1>. SUFFICES ASSUME TypeOK, Recorded, Truthful, Listening, Refreshing, Promised, [Next]_vars,
                     socket' # "none", ~missed', ~stale'
              PROVE  Reaches'
  BY DEF Promised
<1>1. ASSUME Mount
      PROVE  Reaches'
  <2>1. PICK i \in Slots : refreshes'[i] = At("lead")
    BY <1>1 DEF Mount, Refresh, Idle, TypeOK
  <2>. QED
    BY <2>1 DEF Reaches, At
<1>2. ASSUME ~Mount
      PROVE  Reaches
  <2>1. socket # "none" /\ (missed => missed') /\ (stale => stale')
    <3>1. ASSUME NEW j \in Jobs, Working(j)
          PROVE  UNCHANGED <<socket, stale>> /\ (missed => missed')
      <4>1. CASE EndUntold(j)
        BY <4>1 DEF EndUntold, Misses, page
      <4>. QED
        BY <3>1, <4>1 DEF Working, SubmitElsewhere, Start, Record, End, page
    <3>2. ASSUME NEW e \in outbox, Publish(e) \/ PublishLost(e)
          PROVE  UNCHANGED <<socket, stale>> /\ (missed => missed')
      BY <3>2 DEF Publish, PublishLost, Deliver, Misses, page
    <3>3. ASSUME Subscribe \/ Disconnect
          PROVE  socket # "none" /\ UNCHANGED stale /\ (missed => missed')
      BY <3>3 DEF Subscribe, Disconnect, page
    <3>4. ASSUME HandleEvent
          PROVE  UNCHANGED <<socket, missed>> /\ (stale => stale')
      BY <3>4 DEF HandleEvent, Refresh
    <3>5. ASSUME NEW i \in Slots, LeadAnswers(i) \/ ReadScore(i) \/ ShowScore(i) \/ RefreshFails(i)
          PROVE  UNCHANGED <<socket, missed>> /\ (stale => stale')
      <4>1. stale => stale'
        BY <3>5, ReadTells DEF LeadAnswers, ShowScore, RefreshFails
      <4>. QED
        BY <3>5, <4>1 DEF LeadAnswers, ReadScore, ShowScore, RefreshFails
    <3>6. ASSUME NEW j \in PageJobs, Click(j) \/ SubmitClick(j) \/ Accept(j) \/ Refuse(j) \/ Failed(j)
          PROVE  UNCHANGED <<socket, missed, stale>>
      BY <3>6 DEF Click, SubmitClick, Accept, Refuse, Failed, page
    <3>7. CASE UNCHANGED vars
      BY <3>7 DEF vars, page
    <3>. QED
      BY <1>2, <3>1, <3>2, <3>3, <3>4, <3>5, <3>6, <3>7 DEF Next, Work, Working
  <2>. QED
    BY <2>1 DEF Promised
<1>3. ASSUME Reaches, UNCHANGED <<newest, shown, refreshes>>, outbox \subseteq outbox',
             inbox' = inbox, newest \in scored => newest \in scored' /\ status'[newest] = status[newest]
      PROVE  Reaches'
  BY <1>3 DEF Reaches, Done
<1>4. ASSUME NEW j \in Jobs, Working(j), Reaches
      PROVE  Reaches'
  <2>1. CASE Record(j)
    BY <2>1 DEF Record, Life!Record, Reaches
  <2>2. CASE End(j)
    <3>1. /\ Life!Complete(j) \/ Life!Fail(j)
          /\ [job |-> j, status |-> status'[j]] \in outbox' /\ outbox \subseteq outbox'
          /\ UNCHANGED <<newest, inbox, shown, refreshes, scored>>
      BY <2>2 DEF End, page, Life!Complete, Life!Fail
    <3>2. CASE newest # j
      <4>1. newest \in scored => status'[newest] = status[newest]
        BY <3>1, <3>2 DEF Life!Complete, Life!Fail, TypeOK, Jobs
      <4>. QED
        BY <1>3, <1>4, <3>1, <4>1
    <3>3. CASE newest = j /\ status'[j] = "completed"
      BY <3>1, <3>3 DEF Reaches, Done
    <3>4. CASE newest = j /\ status'[j] # "completed"
      BY <1>4, <3>1, <3>4 DEF Reaches, Done
    <3>. QED
      BY <3>2, <3>3, <3>4
  <2>3. CASE SubmitElsewhere(j) \/ Start(j)
    <3>1. /\ Life!Submit(j) \/ Life!Start(j)
          /\ UNCHANGED <<newest, outbox, inbox, shown, refreshes>>
      BY <2>3 DEF SubmitElsewhere, Start, page
    <3>2. j \notin scored /\ UNCHANGED scored /\ \A k \in Jobs \ {j} : status'[k] = status[k]
      BY <3>1 DEF Life!Submit, Life!Start, Recorded, Final, TypeOK
    <3>3. newest \in scored => newest \in Jobs \ {j}
      BY <3>2 DEF TypeOK, Jobs
    <3>. QED
      BY <1>3, <1>4, <3>1, <3>2, <3>3
  <2>4. CASE EndUntold(j)
    BY <2>4 DEF EndUntold, Misses
  <2>. QED
    BY <1>4, <2>1, <2>2, <2>3, <2>4 DEF Working
<1>5. ASSUME NEW e \in outbox, Publish(e) \/ PublishLost(e), Reaches
      PROVE  Reaches'
  <2>1. /\ Publish(e) /\ socket = "subscribed" /\ inbox' = Append(inbox, e)
        /\ outbox' = outbox \ {e} /\ UNCHANGED <<newest, shown, refreshes, status, scored>>
    BY <1>5 DEF Publish, PublishLost, Deliver, Misses, life, page
  <2>2. /\ inbox \in Seq(Events) /\ e \in Events
    BY DEF TypeOK
  <2>3. \A n \in 1 .. Len(inbox) : n \in 1 .. Len(inbox') /\ inbox'[n] = inbox[n]
    BY <2>1, <2>2
  <2>4. Len(inbox') \in 1 .. Len(inbox') /\ inbox'[Len(inbox')] = e
    BY <2>1, <2>2
  <2>. QED
    BY <1>5, <2>1, <2>3, <2>4 DEF Reaches, Done
<1>6. ASSUME HandleEvent, Reaches
      PROVE  Reaches'
  <2>1. /\ inbox # <<>> /\ inbox' = Tail(inbox) /\ inbox \in Seq(Events)
        /\ UNCHANGED <<newest, shown, outbox, status, scored>>
    BY <1>6 DEF HandleEvent, life, TypeOK
  <2>2. CASE Refreshes(Head(inbox).status)
    <3>1. PICK i \in Slots : refreshes'[i] = At("lead")
      BY <1>6, <2>2 DEF HandleEvent, Refresh, Idle, TypeOK
    <3>. QED
      BY <3>1 DEF Reaches, At
  <2>3. CASE ~Refreshes(Head(inbox).status)
    <3>1. UNCHANGED refreshes
      BY <1>6, <2>3 DEF HandleEvent
    <3>2. \A n \in 1 .. Len(inbox) :
            \/ inbox[n].status # "completed"
            \/ n - 1 \in 1 .. Len(inbox') /\ inbox'[n - 1] = inbox[n]
      BY <2>1, <2>3 DEF Refreshes
    <3>3. \A n \in 1 .. Len(inbox) : inbox[n] = Done(newest) =>
            \E k \in 1 .. Len(inbox') : inbox'[k] = Done(newest)
      BY <3>2 DEF Done
    <3>. QED
      BY <1>6, <2>1, <3>1, <3>3 DEF Reaches, Done
  <2>. QED
    BY <2>2, <2>3
<1>7. ASSUME NEW i \in Slots, LeadAnswers(i) \/ ReadScore(i), Reaches
      PROVE  Reaches'
  <2>1. \/ refreshes'[i].at \in {"lead", "ask"}
        \/ refreshes'[i].at = "show" /\ refreshes'[i].got = newest'
    <3>1. CASE LeadAnswers(i)
      BY <3>1 DEF LeadAnswers, At, TypeOK
    <3>2. CASE ReadScore(i)
      <4>1. PICK score \in Latest :
              /\ refreshes' = [refreshes EXCEPT ![i] = [at |-> "show", got |-> score]]
              /\ stale' = (stale \/ score # newest)
        BY <3>2 DEF ReadScore
      <4>2. score = newest /\ UNCHANGED newest
        BY <3>2, <4>1 DEF ReadScore, life
      <4>. QED
        BY <4>1, <4>2 DEF TypeOK
    <3>. QED
      BY <1>7, <3>1, <3>2
  <2>. QED
    BY <2>1 DEF Reaches
<1>8. ASSUME NEW i \in Slots, ShowScore(i), Reaches
      PROVE  Reaches'
  <2>1. ~stale /\ refreshes[i].at = "show"
    BY <1>8 DEF ShowScore
  <2>2. \A k \in Slots \ {i} : refreshes[k].at = "idle" /\ refreshes'[k].at = "idle"
    BY <1>8, <2>1 DEF ShowScore, Refreshing, TypeOK
  <2>3. refreshes'[i].at = "idle" /\ shown' = refreshes[i].got
        /\ UNCHANGED <<newest, outbox, inbox, status, scored>>
    BY <1>8 DEF ShowScore, At, TypeOK, life
  <2>. QED
    BY <1>8, <2>1, <2>2, <2>3 DEF Reaches, Done
<1>9. ASSUME NEW i \in Slots, RefreshFails(i)
      PROVE  Reaches'
  BY <1>9 DEF RefreshFails
<1>10. ASSUME NEW j \in PageJobs, SubmitClick(j) \/ Accept(j) \/ Refuse(j), Reaches
       PROVE  Reaches'
  <2>1. /\ Life!Submit(j) \/ UNCHANGED <<status, scored>>
        /\ UNCHANGED <<newest, outbox, inbox, shown, refreshes>>
    BY <1>10 DEF SubmitClick, Accept, Refuse, life, page
  <2>2. newest \in scored => newest \in scored' /\ status'[newest] = status[newest]
    BY <2>1 DEF Life!Submit, Recorded, Final, TypeOK, Jobs
  <2>. QED
    BY <1>3, <1>10, <2>1, <2>2
<1>11. ASSUME NEW j \in PageJobs, Click(j) \/ Failed(j), Reaches
       PROVE  Reaches'
  BY <1>3, <1>11 DEF Click, Failed, life
<1>12. CASE Subscribe \/ Disconnect
  BY <1>2, <1>3, <1>12 DEF Subscribe, Disconnect, Mount, life, page
<1>13. CASE UNCHANGED vars
  BY <1>2, <1>3, <1>13 DEF vars, life, page, Mount
<1>. QED
  BY <1>1, <1>2, <1>4, <1>5, <1>6, <1>7, <1>8, <1>9, <1>10, <1>11, <1>12, <1>13
     DEF Next, Work, Working

----------------------------------------------------------------------------
\* The button

Freed(j) ==
  ~scoring /\ post[j] # "idle" /\ status[j] \notin Final =>
    \/ post[j] = "failed"
    \/ \E k \in Jobs \ {j} : status[k] \in Final \/ (k \in PageJobs /\ post[k] = "failed")

LEMMA InitFreed == Init => FreedByAnotherJob
  BY DEF Init, FreedByAnotherJob

LEMMA NextFreed ==
  TypeOK /\ Truthful /\ FreedByAnotherJob /\ [Next]_vars => FreedByAnotherJob'
<1>. SUFFICES ASSUME TypeOK, Truthful, FreedByAnotherJob, [Next]_vars, NEW j \in PageJobs
              PROVE  Freed(j)'
  BY DEF FreedByAnotherJob, Freed
<1>1. Freed(j)
  BY DEF FreedByAnotherJob, Freed
<1>2. j \in Jobs /\ \A k \in Jobs : status[k] \in Final => status'[k] = status[k]
  BY NextFinal DEF Jobs, ScoringJobs
<1>3. \A k \in PageJobs : k \in Jobs
  BY DEF Jobs, ScoringJobs
<1>4. ASSUME ~scoring' => ~scoring, post'[j] # "idle" => post[j] # "idle",
             \A k \in PageJobs : post[k] = "failed" => post'[k] = "failed"
      PROVE  Freed(j)'
  BY <1>1, <1>2, <1>3, <1>4 DEF Freed
<1>5. ASSUME NEW k \in Jobs, Working(k)
      PROVE  Freed(j)'
  BY <1>4, <1>5 DEF Working, SubmitElsewhere, Start, Record, End, EndUntold, page
<1>6. ASSUME NEW e \in outbox, Publish(e) \/ PublishLost(e)
      PROVE  Freed(j)'
  BY <1>4, <1>6 DEF Publish, PublishLost, page
<1>7. CASE Subscribe \/ Disconnect \/ Mount
  BY <1>4, <1>7 DEF Subscribe, Disconnect, Mount, page
<1>8. CASE HandleEvent
  <2>. DEFINE e == Head(inbox)
  <2>1. e \in Events /\ e.status = status[e.job] /\ UNCHANGED <<status, post>>
    BY <1>8 DEF HandleEvent, Truthful, TypeOK, life
  <2>2. e.job \in Jobs /\ status[e.job] \in Final
    BY <2>1 DEF Events
  <2>3. CASE e.job = j
    BY <2>1, <2>2, <2>3 DEF Freed
  <2>4. CASE e.job # j
    BY <2>1, <2>2, <2>4 DEF Freed
  <2>. QED
    BY <2>3, <2>4
<1>9. ASSUME NEW i \in Slots, LeadAnswers(i) \/ ReadScore(i) \/ ShowScore(i) \/ RefreshFails(i)
      PROVE  Freed(j)'
  BY <1>4, <1>9 DEF LeadAnswers, ReadScore, ShowScore, RefreshFails
<1>10. ASSUME NEW k \in PageJobs, Click(k)
       PROVE  Freed(j)'
  BY <1>10 DEF Click, Freed
<1>14. ASSUME NEW k \in PageJobs, SubmitClick(k)
       PROVE  Freed(j)'
  BY <1>4, <1>14 DEF SubmitClick, page
<1>11. ASSUME NEW k \in PageJobs, Accept(k) \/ Refuse(k)
       PROVE  Freed(j)'
  <2>1. UNCHANGED scoring /\ post[k] = "sent"
        /\ \E p \in {"accepted", "refused"} : post' = [post EXCEPT ![k] = p]
    BY <1>11 DEF Accept, Refuse, page
  <2>2. /\ post'[j] # "idle" => post[j] # "idle"
        /\ \A q \in PageJobs : post[q] = "failed" => post'[q] = "failed"
    BY <2>1 DEF TypeOK
  <2>. QED
    BY <1>4, <2>1, <2>2
<1>12. ASSUME NEW k \in PageJobs, Failed(k)
       PROVE  Freed(j)'
  <2>1. post'[k] = "failed"
    BY <1>12 DEF Failed, TypeOK
  <2>2. CASE k = j
    BY <2>1, <2>2 DEF Freed
  <2>3. CASE k # j
    BY <1>3, <2>1, <2>3 DEF Freed
  <2>. QED
    BY <2>2, <2>3
<1>13. CASE UNCHANGED vars
  BY <1>4, <1>13 DEF vars, page
<1>. QED
  BY <1>5, <1>6, <1>7, <1>8, <1>9, <1>10, <1>11, <1>12, <1>13, <1>14 DEF Next, Work, Working

LEMMA InitAsked == Init => Asked
  BY DEF Init, Life!Init, Life!Jobs, Asked, Jobs, ScoringJobs

LEMMA NextAsked == TypeOK /\ Asked /\ [Next]_vars => Asked'
<1>. SUFFICES ASSUME TypeOK, Asked, [Next]_vars
              PROVE  Asked'
  OBVIOUS
<1>. USE DEF Asked
<1>1. \A j \in PageJobs : j \in Jobs /\ j \notin EmbedJobs \cup OtherJobs
  BY LeadPageAssumption DEF Jobs, ScoringJobs
<1>2. ASSUME NEW j \in Jobs, SubmitElsewhere(j)
      PROVE  Asked'
  BY <1>1, <1>2 DEF SubmitElsewhere, Life!Submit, TypeOK
<1>3. ASSUME NEW j \in Jobs, Start(j) \/ Record(j) \/ End(j) \/ EndUntold(j)
      PROVE  Asked'
  <2>1. /\ status[j] # "absent" /\ status'[j] # "absent" /\ UNCHANGED post
        /\ \A k \in Jobs \ {j} : status'[k] = status[k]
    BY <1>3 DEF Start, Record, End, EndUntold, Life!Start, Life!Record, Life!Complete, Life!Fail,
       TypeOK
  <2>. QED
    BY <1>1, <2>1
<1>4. ASSUME NEW e \in outbox, Publish(e) \/ PublishLost(e)
      PROVE  Asked'
  BY <1>4 DEF Publish, PublishLost, life
<1>5. CASE Subscribe \/ Disconnect \/ Mount \/ HandleEvent \/ UNCHANGED vars
  BY <1>5 DEF Subscribe, Disconnect, Mount, HandleEvent, vars, life
<1>6. ASSUME NEW i \in Slots, LeadAnswers(i) \/ ReadScore(i) \/ ShowScore(i) \/ RefreshFails(i)
      PROVE  Asked'
  BY <1>6 DEF LeadAnswers, ReadScore, ShowScore, RefreshFails, life
<1>7. ASSUME NEW j \in PageJobs, Click(j) \/ Accept(j) \/ Failed(j)
      PROVE  Asked'
  BY <1>7 DEF Click, Accept, Failed, TypeOK, life
<1>8. ASSUME NEW j \in PageJobs, SubmitClick(j) \/ Refuse(j)
      PROVE  Asked'
  <2>1. /\ post[j] # "idle"
        /\ post' = post \/ post' = [post EXCEPT ![j] = "refused"]
        /\ Life!Submit(j) \/ UNCHANGED status
    BY <1>8 DEF SubmitClick, Refuse
  <2>2. \A k \in PageJobs \ {j} : status'[k] = status[k]
    BY <1>1, <2>1 DEF Life!Submit, TypeOK
  <2>3. status'[j] = status[j] \/ status'[j] = "queued"
    BY <1>1, <2>1 DEF Life!Submit, TypeOK
  <2>4. /\ post'[j] # "idle" /\ (post'[j] = "accepted" => post[j] = "accepted")
        /\ \A k \in PageJobs \ {j} : post'[k] = post[k]
    BY <2>1 DEF TypeOK
  <2>. QED
    BY <2>2, <2>3, <2>4
<1>. HIDE DEF Asked
<1>. QED
  BY <1>2, <1>3, <1>4, <1>5, <1>6, <1>7, <1>8 DEF Next, Work

LEMMA InitWaits == Init => WaitsForItsJob
  BY DEF Init, WaitsForItsJob

\* Whoever releases the button or fails the click ends the wait; an event that
\* does not reach an open page is missed.
LEMMA NextWaits ==
  TypeOK /\ Asked /\ WaitsForItsJob /\ [Next]_vars => WaitsForItsJob'
<1>. SUFFICES ASSUME TypeOK, Asked, WaitsForItsJob, [Next]_vars, scoring', ~missed'
              PROVE  \E j \in PageJobs : Awaited(j)'
  BY DEF WaitsForItsJob
<1>1. ASSUME NEW j \in PageJobs, Click(j)
      PROVE  Awaited(j)'
  BY <1>1 DEF Click, Asked, Awaited, Final, TypeOK, life
<1>2. ASSUME scoring, ~missed
      PROVE  /\ socket # "none"
             /\ \E j \in PageJobs : j \in Jobs /\ Awaited(j)
  BY <1>2, LeadPageAssumption DEF WaitsForItsJob, TypeOK, Jobs, ScoringJobs
<1>3. ASSUME NEW j \in PageJobs, Awaited(j), outbox \subseteq outbox', inbox' = inbox,
             post'[j] = post[j] \/ post'[j] \in {"accepted", "refused"},
             status[j] \notin Final => status'[j] \notin Final
      PROVE  Awaited(j)'
  BY <1>3 DEF Awaited, ToldOf
<1>4. ASSUME NEW k \in Jobs, Working(k)
      PROVE  \E j \in PageJobs : Awaited(j)'
  <2>1. UNCHANGED <<socket, inbox, scoring, post>> /\ (missed => missed') /\ outbox \subseteq outbox'
    <3>1. CASE EndUntold(k)
      BY <3>1 DEF EndUntold, Misses, page
    <3>2. CASE ~EndUntold(k)
      <4>1. UNCHANGED <<socket, inbox, post, page, missed>> /\ outbox \subseteq outbox'
        BY <1>4, <3>2 DEF Working, SubmitElsewhere, Start, Record, End
      <4>. QED
        BY <4>1 DEF page
    <3>. QED
      BY <3>1, <3>2
  <2>2. PICK j \in PageJobs : j \in Jobs /\ Awaited(j)
    BY <1>2, <2>1
  <2>3. CASE End(k) /\ k = j
    <3>1. /\ status'[j] \in Final
          /\ [job |-> j, status |-> status'[j]] \in outbox'
      BY <2>2, <2>3 DEF End, Life!Complete, Life!Fail, Final, TypeOK
    <3>2. [job |-> j, status |-> status'[j]] \in Events
      BY <2>2, <3>1 DEF Events
    <3>3. ToldOf(j)'
      BY <3>1, <3>2 DEF ToldOf
    <3>. QED
      BY <2>1, <2>2, <3>3 DEF Awaited
  <2>4. CASE EndUntold(k)
    <3>1. missed' = (missed \/ socket # "none") /\ socket # "none"
      BY <1>2, <2>1, <2>4 DEF EndUntold, Misses
    <3>. QED
      BY <3>1
  <2>5. CASE (End(k) /\ k # j) \/ SubmitElsewhere(k) \/ Start(k) \/ Record(k)
    <3>1. status[j] \notin Final => status'[j] \notin Final
      BY <2>2, <2>5 DEF End, SubmitElsewhere, Start, Record, Life!Complete, Life!Fail, Life!Submit,
         Life!Start, Life!Record, Final, TypeOK
    <3>. QED
      BY <1>3, <2>1, <2>2, <3>1
  <2>. QED
    BY <1>4, <2>3, <2>4, <2>5 DEF Working
<1>5. ASSUME NEW e \in outbox, Publish(e) \/ PublishLost(e)
      PROVE  \E j \in PageJobs : Awaited(j)'
  <2>1. /\ outbox' = outbox \ {e} /\ UNCHANGED <<status, post, scoring>>
        /\ (missed => missed')
    BY <1>5 DEF Publish, PublishLost, Deliver, Misses, life, page
  <2>2. PICK j \in PageJobs : Awaited(j)
    BY <1>2, <2>1
  <2>3. inbox' = Append(inbox, e) /\ inbox \in Seq(Events) /\ e \in Events
    BY <1>2, <1>5, <2>1 DEF Publish, PublishLost, Deliver, Misses, TypeOK
  <2>4. /\ Len(inbox') \in 1 .. Len(inbox') /\ inbox'[Len(inbox')] = e
        /\ \A n \in 1 .. Len(inbox) : n \in 1 .. Len(inbox') /\ inbox'[n] = inbox[n]
    BY <2>3
  <2>5. ToldOf(j) => ToldOf(j)'
    BY <2>1, <2>4 DEF ToldOf
  <2>. QED
    BY <2>1, <2>2, <2>5 DEF Awaited
<1>6. CASE Subscribe \/ Mount \/ UNCHANGED vars
  <2>1. UNCHANGED <<status, outbox, inbox, post, scoring, missed>>
    <3>1. UNCHANGED <<life, outbox, inbox, post, missed>> /\ (UNCHANGED page \/ UNCHANGED scoring)
      <4>1. CASE Subscribe
        BY <4>1, Zenon DEF Subscribe
      <4>2. CASE Mount
        BY <4>2, Zenon DEF Mount
      <4>3. CASE UNCHANGED vars
        BY <4>3, Zenon DEF vars
      <4>. QED
        BY <1>6, <4>1, <4>2, <4>3
    <3>2. UNCHANGED scoring
      BY <3>1 DEF page
    <3>. QED
      BY <3>1, <3>2 DEF life
  <2>. QED
    BY <1>2, <1>3, <2>1
<1>7. CASE Disconnect
  BY <1>7 DEF Disconnect
<1>8. CASE HandleEvent
  <2>1. Ends(Head(inbox).status)
    <3>1. inbox # <<>> /\ inbox \in Seq(Events)
      BY <1>8 DEF HandleEvent, TypeOK
    <3>2. Head(inbox) \in Events
      BY <3>1
    <3>. QED
      BY <3>2 DEF Ends, Events
  <2>. QED
    BY <1>8, <2>1, Zenon DEF HandleEvent
<1>9. ASSUME NEW i \in Slots, LeadAnswers(i) \/ ReadScore(i) \/ ShowScore(i) \/ RefreshFails(i)
      PROVE  \E j \in PageJobs : Awaited(j)'
  <2>1. UNCHANGED <<status, outbox, inbox, post, scoring, missed>>
    BY <1>9 DEF LeadAnswers, ReadScore, ShowScore, RefreshFails, life
  <2>. QED
    BY <1>2, <1>3, <2>1
<1>10. ASSUME NEW k \in PageJobs, SubmitClick(k) \/ Accept(k) \/ Refuse(k)
       PROVE  \E j \in PageJobs : Awaited(j)'
  <2>1. UNCHANGED <<outbox, inbox, scoring, missed>>
    BY <1>10 DEF SubmitClick, Accept, Refuse, page
  <2>2. PICK j \in PageJobs : j \in Jobs /\ Awaited(j)
    BY <1>2, <2>1
  <2>3. status[j] \notin Final => status'[j] \notin Final
    BY <1>10, <2>2 DEF SubmitClick, Accept, Refuse, Life!Submit, Final, TypeOK, life
  <2>4. post'[j] = post[j] \/ post'[j] \in {"accepted", "refused"}
    BY <1>10, <2>2 DEF SubmitClick, Accept, Refuse, TypeOK
  <2>. QED
    BY <1>3, <2>1, <2>2, <2>3, <2>4
<1>11. ASSUME NEW k \in PageJobs, Failed(k)
       PROVE  FALSE
  BY <1>11 DEF Failed
<1>. QED
  BY <1>1, <1>4, <1>5, <1>6, <1>7, <1>8, <1>9, <1>10, <1>11 DEF Next, Work, Working

----------------------------------------------------------------------------
\* The strengthened invariant is inductive: a new score is on the page, or one
\* of the things that bring it there is still to happen.
THEOREM InductiveInvariant == SafetySpec => []IInv
<1>1. Init => IInv
  BY InitType, InitRecorded, InitTruthful, InitListening, InitRefreshing, InitPromised,
     InitFreed, InitAsked, InitWaits DEF IInv
<1>2. IInv /\ [Next]_vars => IInv'
  BY NextType, NextRecorded, NextTruthful, NextListening, NextRefreshing, NextPromised,
     NextFreed, NextAsked, NextWaits DEF IInv
<1>. QED
  BY <1>1, <1>2, PTL DEF SafetySpec

\* Every variable keeps its type: the page has no button to wait for before it
\* has loaded the lead.
THEOREM TypeCorrect == SafetySpec => []TypeOK
<1>1. IInv => TypeOK
  BY DEF IInv
<1>. QED
  BY <1>1, InductiveInvariant, PTL

\* The button of LeadDetailPage is free while its own job is still to be done
\* only because of another job, or of an error of the request.
THEOREM FreedByAnotherJobHolds == SafetySpec => []FreedByAnotherJob
<1>1. IInv => FreedByAnotherJob
  BY DEF IInv
<1>. QED
  BY <1>1, InductiveInvariant, PTL

\* When all is quiet the page shows the newest score, unless it missed an event,
\* its refreshes overlapped, failed or got an older score from the cache, or the
\* newest score's job did not complete.
THEOREM ShownIsNewestHolds == SafetySpec => []ShownIsNewest
<1>1. IInv => ShownIsNewest
  <2>. SUFFICES ASSUME IInv, Quiet, socket # "none", ~missed, ~stale
                PROVE  shown = newest \/ \E j \in scored : newest = j /\ status[j] = "failed"
    BY DEF ShownIsNewest
  <2>1. Reaches
    BY DEF IInv, Promised
  <2>2. outbox = {} /\ inbox = <<>> /\ \A i \in Slots : refreshes[i].at = "idle"
    BY DEF Quiet, Idle
  <2>3. ASSUME newest \in scored, status[newest] # "completed"
        PROVE  status[newest] = "failed"
    <3>1. newest \in Jobs
      BY <2>3 DEF IInv, TypeOK, Jobs
    <3>2. status[newest] \in Final \cup {"running"} /\ status[newest] \in Final \cup {"absent"}
      BY <2>3, <3>1 DEF IInv, Recorded, Quiet
    <3>. QED
      BY <2>3, <3>2 DEF Final
  <2>. QED
    BY <2>1, <2>2, <2>3 DEF Reaches
<1>. QED
  BY <1>1, InductiveInvariant, PTL

\* Scoring... is shown only while a job the page submitted is still to be done or
\* its event is on the way, unless the page has missed an event.
THEOREM WaitsForItsJobHolds == SafetySpec => []WaitsForItsJob
<1>1. IInv => WaitsForItsJob
  BY DEF IInv
<1>. QED
  BY <1>1, InductiveInvariant, PTL
================================================================================
