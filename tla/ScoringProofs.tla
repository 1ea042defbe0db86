----------------------------- MODULE ScoringProofs -----------------------------
(***************************************************************************)
(* Proofs about Scoring: for any number of calls, leads and models, what   *)
(* MCScoring checks on an instance.                                        *)
(***************************************************************************)
EXTENDS Scoring, LocalScorerProofs

USE DEF conf, Goes, Fault

\* What a call has, by where it stands.
StepOf(c) ==
  /\ pc[c] \in {"observe", "count"} => call[c].op \in Kinds
  /\ pc[c] \in {"decide", "insert"} \/ rows[c] # None => call[c].op = "score"
  /\ pc[c] \in {"upsert", "search"} => vec[c] # None
  /\ pc[c] = "sum" => scrape[c] \in Scrape
  /\ pc[c] \in {"search", "decide", "insert"} \/ rows[c] # None =>
       stored[LeadOf(c)][ModelOf(c)] # None
  /\ pc[c] \notin {"insert", "observe", "count", "done"} => decision[c] = None
  /\ pc[c] \notin {"decide", "insert", "observe", "count", "done"} => near[c] = {}

Steps == \A c \in Calls : StepOf(c)

\* A vector is of the model its row is keyed by and no newer than the provider.
Honest(v, m) == v # None => v.model = m /\ v.version <= version[m]

Vectors ==
  /\ \A c \in Calls : Honest(vec[c], ModelOf(c))
  /\ \A l \in Leads, m \in Models : Honest(stored[l][m], m)

\* Neighbours are few.
NearOf(c) == IsFiniteSet(near[c]) /\ Cardinality(near[c]) <= 5

DecisionOf(c) ==
  decision[c] # None =>
    /\ IF decision[c].by = "remote" THEN decision[c].p \in Probabilities
       ELSE decision[c].p = Local(c)
    /\ ~decision[c].storable => Garbled(c)

\* Why a call failed that no fault has hit.
FailureOf(c) == failed[c] = "error" => decision[c] # None /\ (NoNumber(c) \/ Garbled(c))

Decisions == \A c \in Calls : NearOf(c) /\ DecisionOf(c) /\ FailureOf(c)

\* The calls that have added a duration and not yet its sample.
Pending(p, k) == {c \in Calls : pc[c] = "count" /\ In(c) = p /\ call[c].op = k}

ScrapeOf(c) ==
  scrape[c] # None =>
    /\ scrape[c].count <= registry["api"].total["embed"]
    /\ scrape[c].total # None => scrape[c].total >= scrape[c].count

Samples ==
  /\ \A p \in Process, k \in Kinds :
       registry[p].total[k] = registry[p].count[k] + Cardinality(Pending(p, k))
  /\ \A c \in Calls : ScrapeOf(c)

IInv == TypeOK /\ Steps /\ Vectors /\ Decisions /\ Samples

----------------------------------------------------------------------------
\* What a call is about.
LEMMA CallFacts ==
  ASSUME TypeOK, NEW c \in Calls
  PROVE  /\ call[c].op \in Kinds \cup {"similar", "metrics"}
         /\ In(c) \in Process /\ LeadOf(c) \in Leads /\ ModelOf(c) \in Models
         /\ call[c].op = "score" => In(c) = "worker"
<1>1. call[c] \in Request
  <2>1. Requests \subseteq Request
    BY ScoringAssumption
  <2>2. call \in [Calls -> Requests]
    BY DEF TypeOK
  <2>. QED
    BY <2>1, <2>2
<1>2. In(c) \in Process /\ LeadOf(c) \in Leads
  BY <1>1 DEF Request, In, LeadOf
<1>. QED
  BY <1>1, <1>2 DEF Request, In, ModelOf, TypeOK

\* An entry of the table is replaced; no other changes.
LEMMA KeepFacts ==
  ASSUME TypeOK, NEW c \in Calls, vec[c] # None, Keep(c)
  PROVE  /\ stored' \in [Leads -> [Models -> Vector \cup {None}]]
         /\ stored'[LeadOf(c)][ModelOf(c)] # None
         /\ \A l \in Leads, m \in Models :
              \/ stored'[l][m] = stored[l][m]
              \/ l = LeadOf(c) /\ m = ModelOf(c) /\ stored'[l][m] = vec[c]
<1>1. LeadOf(c) \in Leads /\ ModelOf(c) \in Models
  BY CallFacts
<1>2. /\ stored \in [Leads -> [Models -> Vector \cup {None}]]
      /\ vec[c] \in Vector \cup {None}
  BY DEF TypeOK
<1> DEFINE l0 == LeadOf(c)
           m0 == ModelOf(c)
<1>3. stored' = [stored EXCEPT ![l0][m0] = vec[c]]
  BY DEF Keep
<1> HIDE DEF l0, m0
<1>4. l0 \in Leads /\ m0 \in Models
  BY <1>1 DEF l0, m0
<1>5. /\ stored' \in [Leads -> [Models -> Vector \cup {None}]]
      /\ stored'[l0][m0] = vec[c]
      /\ \A l \in Leads, m \in Models :
           stored'[l][m] = stored[l][m] \/ (l = l0 /\ m = m0 /\ stored'[l][m] = vec[c])
  BY <1>2, <1>3, <1>4
<1>. QED
  BY <1>5 DEF l0, m0

\* Counting keeps the type of the registry.
LEMMA CountersType ==
  ASSUME registry \in [Process -> Counters], NEW p \in Process, NEW k \in Kinds
  PROVE  /\ [registry EXCEPT ![p].success = @ + 1] \in [Process -> Counters]
         /\ [registry EXCEPT ![p].error = @ + 1] \in [Process -> Counters]
         /\ [registry EXCEPT ![p].fallback = @ + 1] \in [Process -> Counters]
         /\ [registry EXCEPT ![p].total[k] = @ + 1] \in [Process -> Counters]
         /\ [registry EXCEPT ![p].count[k] = @ + 1] \in [Process -> Counters]
<1>1. registry[p] \in Counters
  OBVIOUS
<1>2. /\ registry[p].total \in [Kinds -> Nat] /\ registry[p].count \in [Kinds -> Nat]
      /\ registry[p].success \in Nat /\ registry[p].error \in Nat
      /\ registry[p].fallback \in Nat
  BY <1>1 DEF Counters
<1>3. /\ [registry[p].total EXCEPT ![k] = @ + 1] \in [Kinds -> Nat]
      /\ [registry[p].count EXCEPT ![k] = @ + 1] \in [Kinds -> Nat]
  BY <1>2
<1>4. [registry[p] EXCEPT !.total[k] = @ + 1] \in Counters
  BY <1>1, <1>3 DEF Counters
<1>5. [registry[p] EXCEPT !.count[k] = @ + 1] \in Counters
  BY <1>1, <1>3 DEF Counters
<1>6. /\ [registry[p] EXCEPT !.success = @ + 1] \in Counters
      /\ [registry[p] EXCEPT !.error = @ + 1] \in Counters
      /\ [registry[p] EXCEPT !.fallback = @ + 1] \in Counters
  BY <1>1, <1>2 DEF Counters
<1>. QED
  BY <1>4, <1>5, <1>6

LEMMA ErrsType ==
  ASSUME TypeOK, NEW c \in Calls, NEW how \in {"no", "fault", "error"}, Errs(c, how)
  PROVE  registry' \in [Process -> Counters] /\ failed' \in [Calls -> {"no", "fault", "error"}]
<1>1. In(c) \in Process /\ registry \in [Process -> Counters] /\ failed \in [Calls -> {"no", "fault", "error"}]
  BY CallFacts DEF TypeOK
<1>2. [registry EXCEPT ![In(c)].error = @ + 1] \in [Process -> Counters]
  BY <1>1, CountersType DEF Kinds
<1>. QED
  BY <1>1, <1>2 DEF Errs

\* What FindSimilar has returned is what LocalScorerProofs is about.
LEMMA NearFacts ==
  ASSUME TypeOK, NEW c \in Calls, NearOf(c)
  PROVE  IsNear(near[c]) /\ Cardinality(near[c]) <= 5 /\ Profile[LeadOf(c)] \in Lead
<1>1. near[c] \in SUBSET Neighbours
  BY DEF TypeOK
<1>2. \A m \in Matches : m.similarity \in Int
  <2>1. Matches \subseteq [status : STRING, similarity : Similarities]
    BY ScoringAssumption
  <2>2. Similarities \subseteq Int
    BY DEF Similarities
  <2>. QED
    BY <2>1, <2>2
<1>3. \A n \in near[c] : n.similarity \in Int \cup {NaN}
  BY <1>1, <1>2 DEF Neighbours
<1>4. Profile \in [Leads -> Lead] /\ LeadOf(c) \in Leads
  BY CallFacts, ScoringAssumption
<1>. QED
  BY <1>3, <1>4 DEF IsNear, NearOf

LEMMA BoundsAreProbabilities ==
  ASSUME NEW p \in Bounds
  PROVE  p \in Probabilities
<1>1. p \in Int /\ 0 <= p /\ p <= 10000
  BY DEF Bounds
<1>. QED
  BY <1>1 DEF Probabilities

LEMMA LocalFacts ==
  ASSUME TypeOK, NEW c \in Calls, NearOf(c)
  PROVE  /\ Local(c) \in Probabilities \cup {NaN}
         /\ \/ Local(c) \in Bounds
            \/ Local(c) = NaN /\ near[c] # {} /\ \A n \in near[c] : n.similarity = NaN
<1>1. \/ Local(c) \in Bounds
      \/ Local(c) = NaN /\ near[c] # {} /\ \A n \in near[c] : n.similarity = NaN
  <2>1. IsNear(near[c]) /\ Cardinality(near[c]) <= 5 /\ Profile[LeadOf(c)] \in Lead
    BY NearFacts
  <2> DEFINE x == Probability(Profile[LeadOf(c)], near[c])
  <2>2. x \in Bounds \/ (x = NaN /\ near[c] # {} /\ \A n \in near[c] : n.similarity = NaN)
    BY <2>1, ProbabilityInBounds
  <2>. QED
    BY <2>2 DEF Local
<1>2. Local(c) \in Bounds => Local(c) \in Probabilities
  BY BoundsAreProbabilities
<1>. QED
  BY <1>1, <1>2

\* What a remote scorer answers is stored as it is, rounded.
LEMMA RemoteRounds ==
  ASSUME NEW r \in Replies, Accepted(r)
  PROVE  (r + 5) \div 10 \in Probabilities
<1>1. r \in Int /\ 0 <= r /\ r <= 100000
  BY ScoringAssumption DEF Accepted
<1>2. PICK p \in Int : p = (r + 5) \div 10
  BY <1>1
<1>3. 0 <= p /\ p <= 10000
  BY <1>1, <1>2
<1>4. p \in Probabilities
  BY <1>3 DEF Probabilities
<1>. QED
  BY <1>2, <1>4

LEMMA TypeInit == Init => TypeOK
<1> SUFFICES ASSUME Init PROVE TypeOK
  OBVIOUS
<1>1. /\ Deployments \subseteq [Process -> Models] /\ MaxFaults \in Nat /\ MaxDrifts \in Nat
  BY ScoringAssumption
<1>2. Fresh \in Counters
  BY DEF Fresh, Counters
<1>3. stored \in [Leads -> [Models -> Vector \cup {None}]]
  BY DEF Init, Vector
<1>4. near \in [Calls -> SUBSET Neighbours]
  BY DEF Init
<1>5. pc \in [Calls -> {"lead", "read", "embed", "upsert", "search", "decide",
                        "insert", "observe", "count", "scrape", "sum", "done"}]
  BY DEF Init
<1>. QED
  BY <1>1, <1>2, <1>3, <1>4, <1>5 DEF Init, TypeOK

LEMMA TypeNext ==
  ASSUME TypeOK, Steps, Decisions, Next
  PROVE  TypeOK'
<1> USE DEF TypeOK
<1>1. MaxFaults \in Nat /\ MaxDrifts \in Nat
  BY ScoringAssumption
<1>2. ASSUME NEW c \in Calls,
             LoadLead(c) \/ ReadMiss(c)
      PROVE  TypeOK'
  BY <1>2 DEF LoadLead, ReadMiss
<1>3. ASSUME NEW c \in Calls, ReadHit(c)
      PROVE  TypeOK'
  <2>1. stored[LeadOf(c)][ModelOf(c)] \in Vector \cup {None}
    BY CallFacts
  <2>. QED
    BY <1>3, <2>1 DEF ReadHit, Ensured
<1>4. ASSUME NEW c \in Calls, Embed(c) \/ EmbedZero(c)
      PROVE  TypeOK'
  <2>1. ModelOf(c) \in Models /\ version[ModelOf(c)] \in Nat
    BY <1>1, CallFacts
  <2>2. \A z \in BOOLEAN :
          [model |-> ModelOf(c), version |-> version[ModelOf(c)], zero |-> z] \in Vector
    BY <2>1 DEF Vector
  <2>3. vec' \in [Calls -> Vector \cup {None}]
    BY <1>4, <2>2 DEF Embed, EmbedZero
  <2>4. faults' \in 0 .. MaxFaults
    BY <1>1, <1>4 DEF Embed, EmbedZero
  <2>. QED
    BY <1>4, <2>3, <2>4 DEF Embed, EmbedZero
<1>5. ASSUME NEW c \in Calls, Upsert(c)
      PROVE  TypeOK'
  <2>1. vec[c] # None
    BY <1>5 DEF Upsert, Steps, StepOf
  <2>2. stored' \in [Leads -> [Models -> Vector \cup {None}]]
    BY <1>5, <2>1, KeepFacts DEF Upsert
  <2>. QED
    BY <1>5, <2>2 DEF Upsert, Ensured
<1>6. ASSUME NEW c \in Calls, Search(c)
      PROVE  TypeOK'
  <2>1. near' \in [Calls -> SUBSET Neighbours]
    <3>1. PICK found \in SUBSET Comparable(c) : \E match \in [found -> Matches] :
            near' = [near EXCEPT ![c] = {Neighbour(c, l, match[l]) : l \in found}]
      BY <1>6 DEF Search
    <3>2. PICK match \in [found -> Matches] :
            near' = [near EXCEPT ![c] = {Neighbour(c, l, match[l]) : l \in found}]
      BY <3>1
    <3>3. ASSUME NEW l \in found PROVE Neighbour(c, l, match[l]) \in Neighbours
      BY DEF Neighbour, Neighbours, Comparable
    <3>. QED
      BY <3>2, <3>3
  <2>. QED
    BY <1>6, <2>1 DEF Search
<1>7. ASSUME NEW c \in Calls, DecideLocal(c)
      PROVE  TypeOK'
  <2>1. [by |-> "local", p |-> Local(c), storable |-> TRUE] \in Decision
    BY LocalFacts DEF Decision, Decisions
  <2>. QED
    BY <1>7, <2>1 DEF DecideLocal
<1>8. ASSUME NEW c \in Calls, DecideRemote(c)
      PROVE  TypeOK'
  <2>1. PICK r \in Replies, text \in BOOLEAN :
          /\ Accepted(r)
          /\ decision' = [decision EXCEPT ![c] =
                             [by |-> "remote", p |-> (r + 5) \div 10, storable |-> text]]
    BY <1>8 DEF DecideRemote
  <2>2. (r + 5) \div 10 \in Probabilities
    BY <2>1, RemoteRounds
  <2>3. [by |-> "remote", p |-> (r + 5) \div 10, storable |-> text] \in Decision
    BY <2>2 DEF Decision
  <2>. QED
    BY <1>8, <2>1, <2>3 DEF DecideRemote
<1>9. ASSUME NEW c \in Calls, DecideFallback(c)
      PROVE  TypeOK'
  <2>1. \A text \in BOOLEAN : [by |-> "fallback", p |-> Local(c), storable |-> text] \in Decision
    BY LocalFacts DEF Decision, Decisions
  <2>2. registry' \in [Process -> Counters]
    BY <1>9, CallFacts, CountersType DEF DecideFallback, Kinds
  <2>. QED
    BY <1>9, <2>1, <2>2 DEF DecideFallback
<1>10. ASSUME NEW c \in Calls, Insert(c)
       PROVE  TypeOK'
  <2>1. registry' \in [Process -> Counters]
    BY <1>10, CallFacts, CountersType DEF Insert, Success, Kinds
  <2>. QED
    BY <1>10, <2>1 DEF Insert, Storable
<1>11. ASSUME NEW c \in Calls, InsertRefused(c)
       PROVE  TypeOK'
  <2>1. registry' \in [Process -> Counters] /\ failed' \in [Calls -> {"no", "fault", "error"}]
    BY <1>11, ErrsType DEF InsertRefused
  <2>. QED
    BY <1>11, <2>1 DEF InsertRefused
<1>12. ASSUME NEW c \in Calls, StepFails(c)
       PROVE  TypeOK'
  <2>1. registry' \in [Process -> Counters] /\ failed' \in [Calls -> {"no", "fault", "error"}]
    BY <1>12, ErrsType DEF StepFails
  <2>2. faults' \in 0 .. MaxFaults
    BY <1>1, <1>12 DEF StepFails
  <2>3. AfterError(c) \in {"observe", "done"}
    BY DEF AfterError
  <2>. QED
    BY <1>12, <2>1, <2>2, <2>3 DEF StepFails
<1>13. ASSUME NEW c \in Calls, ReplyLost(c)
       PROVE  TypeOK'
  <2>1. registry' \in [Process -> Counters] /\ failed' \in [Calls -> {"no", "fault", "error"}]
    BY <1>13, ErrsType DEF ReplyLost
  <2>2. stored' \in [Leads -> [Models -> Vector \cup {None}]]
    BY <1>13, KeepFacts DEF ReplyLost, Steps, StepOf
  <2>3. rows' \in [Calls -> Probabilities \cup {None}]
    BY <1>13 DEF ReplyLost, Storable
  <2>4. faults' \in 0 .. MaxFaults
    BY <1>1, <1>13 DEF ReplyLost
  <2>5. AfterError(c) \in {"observe", "done"}
    BY DEF AfterError
  <2>. QED
    BY <1>13, <2>1, <2>2, <2>3, <2>4, <2>5 DEF ReplyLost
<1>14. ASSUME NEW c \in Calls, AddDuration(c) \/ AddSample(c)
       PROVE  TypeOK'
  <2>1. call[c].op \in Kinds /\ In(c) \in Process
    BY <1>14, CallFacts DEF AddDuration, AddSample, Steps, StepOf
  <2> DEFINE p == In(c)
             k == call[c].op
  <2>2. /\ [registry EXCEPT ![p].total[k] = @ + 1] \in [Process -> Counters]
        /\ [registry EXCEPT ![p].count[k] = @ + 1] \in [Process -> Counters]
    BY <2>1, CountersType
  <2>3. registry' \in [Process -> Counters]
    BY <1>14, <2>2 DEF AddDuration, AddSample
  <2>. QED
    BY <1>14, <2>3 DEF AddDuration, AddSample
<1>15. ASSUME NEW c \in Calls, ScrapeCount(c)
       PROVE  TypeOK'
  <2>1. registry["api"].count["embed"] \in Nat
    BY DEF Process, Counters, Kinds
  <2>. QED
    BY <1>15, <2>1 DEF ScrapeCount, Scrape
<1>16. ASSUME NEW c \in Calls, ScrapeTotal(c)
       PROVE  TypeOK'
  <2>1. registry["api"].total["embed"] \in Nat
    BY DEF Process, Counters, Kinds
  <2>2. scrape[c] \in Scrape
    BY <1>16 DEF ScrapeTotal, Steps, StepOf
  <2>. QED
    BY <1>16, <2>1, <2>2 DEF ScrapeTotal, Scrape
<1>17. ASSUME NEW m \in Models, Drift(m)
       PROVE  TypeOK'
  BY <1>1, <1>17 DEF Drift
<1>. QED
  BY <1>2, <1>3, <1>4, <1>5, <1>6, <1>7, <1>8, <1>9, <1>10, <1>11, <1>12, <1>13,
     <1>14, <1>15, <1>16, <1>17 DEF Next

----------------------------------------------------------------------------
\* What a step changes of the table of vectors, of the versions and of faults.
LEMMA Changes ==
  ASSUME TypeOK, Steps, Next
  PROVE  /\ UNCHANGED conf
         /\ faults \in Nat /\ faults' \in Nat /\ faults <= faults'
         /\ \A m \in Models : version[m] \in Nat /\ version'[m] \in Nat /\ version[m] <= version'[m]
         /\ \A l \in Leads, m \in Models :
              \/ stored'[l][m] = stored[l][m]
              \/ \E c \in Calls : /\ l = LeadOf(c) /\ m = ModelOf(c)
                                  /\ vec[c] # None /\ stored'[l][m] = vec[c]
<1>1. MaxFaults \in Nat /\ MaxDrifts \in Nat
  BY ScoringAssumption
<1>2. faults \in Nat /\ \A m \in Models : version[m] \in Nat
  BY <1>1 DEF TypeOK
<1>3. CASE \E c \in Calls :
             \/ LoadLead(c) \/ ReadHit(c) \/ ReadMiss(c) \/ Embed(c) \/ EmbedZero(c)
             \/ Search(c) \/ DecideLocal(c) \/ DecideRemote(c) \/ DecideFallback(c)
             \/ Insert(c) \/ InsertRefused(c) \/ StepFails(c)
             \/ AddDuration(c) \/ AddSample(c) \/ ScrapeCount(c) \/ ScrapeTotal(c)
  <2>1. /\ UNCHANGED <<conf, stored, version>>
        /\ faults' = faults \/ faults' = faults + 1
    BY <1>3 DEF LoadLead, ReadHit, ReadMiss, Embed, EmbedZero, Search, DecideLocal,
       DecideRemote, DecideFallback, Insert, InsertRefused, StepFails, AddDuration,
       AddSample, ScrapeCount, ScrapeTotal
  <2>. QED
    BY <2>1, <1>2
<1>4. ASSUME NEW c \in Calls, Upsert(c) \/ ReplyLost(c)
      PROVE  /\ UNCHANGED <<conf, version>>
             /\ faults' = faults \/ faults' = faults + 1
             /\ stored' = stored \/ (vec[c] # None /\ Keep(c))
  BY <1>4 DEF Upsert, ReplyLost, Steps, StepOf
<1>5. CASE \E c \in Calls : Upsert(c) \/ ReplyLost(c)
  <2>1. PICK c \in Calls : Upsert(c) \/ ReplyLost(c)
    BY <1>5
  <2>2. \A l \in Leads, m \in Models :
          \/ stored'[l][m] = stored[l][m]
          \/ l = LeadOf(c) /\ m = ModelOf(c) /\ vec[c] # None /\ stored'[l][m] = vec[c]
    BY <1>4, <2>1, KeepFacts
  <2>3. UNCHANGED <<conf, version>> /\ (faults' = faults \/ faults' = faults + 1)
    BY <1>4, <2>1
  <2>. QED
    BY <1>2, <2>2, <2>3
<1>6. CASE \E m \in Models : Drift(m)
  <2>1. PICK m \in Models : Drift(m)
    BY <1>6
  <2>2. UNCHANGED <<conf, stored, faults>> /\ version' = [version EXCEPT ![m] = @ + 1]
    BY <2>1 DEF Drift
  <2>. QED
    BY <1>2, <2>2 DEF TypeOK
<1>. QED
  BY <1>3, <1>5, <1>6 DEF Next

\* A row of lead_embeddings is never removed.
LEMMA StoredStays ==
  ASSUME TypeOK, Steps, Next, NEW l \in Leads, NEW m \in Models, stored[l][m] # None
  PROVE  stored'[l][m] # None
BY Changes

LEMMA StepsInit == Init => Steps
BY DEF Init, Steps, StepOf

LEMMA StepsNext ==
  ASSUME TypeOK, Steps, Decisions, Next
  PROVE  Steps'
<1> SUFFICES ASSUME NEW d \in Calls PROVE StepOf(d)'
  BY DEF Steps
<1>1. StepOf(d)
  BY DEF Steps
<1>2. /\ UNCHANGED conf
      /\ stored[LeadOf(d)][ModelOf(d)] # None => stored'[LeadOf(d)][ModelOf(d)] # None
      /\ LeadOf(d)' = LeadOf(d) /\ ModelOf(d)' = ModelOf(d) /\ In(d)' = In(d)
  BY Changes, StoredStays, CallFacts DEF LeadOf, ModelOf, In
<1>3. /\ pc \in [Calls -> {"lead", "read", "embed", "upsert", "search", "decide",
                       "insert", "observe", "count", "scrape", "sum", "done"}]
      /\ vec \in [Calls -> Vector \cup {None}] /\ rows \in [Calls -> Probabilities \cup {None}]
      /\ decision \in [Calls -> Decision \cup {None}] /\ near \in [Calls -> SUBSET Neighbours]
      /\ scrape \in [Calls -> Scrape \cup {None}]
      /\ call[d].op \in Kinds \cup {"similar", "metrics"}
  BY CallFacts DEF TypeOK
<1> USE DEF StepOf
<1>4. ASSUME NEW c \in Calls, LoadLead(c) \/ ReadMiss(c)
      PROVE  StepOf(d)'
  BY <1>1, <1>2, <1>3, <1>4 DEF LoadLead, ReadMiss
<1>5. ASSUME NEW c \in Calls, ReadHit(c)
      PROVE  StepOf(d)'
  BY <1>1, <1>2, <1>3, <1>5 DEF ReadHit, Ensured, Kinds
<1>6. ASSUME NEW c \in Calls, Embed(c) \/ EmbedZero(c)
      PROVE  StepOf(d)'
  <2>1. ModelOf(c) \in Models /\ version[ModelOf(c)] \in Nat
    BY CallFacts, ScoringAssumption DEF TypeOK
  <2>2. \A z \in BOOLEAN :
          [model |-> ModelOf(c), version |-> version[ModelOf(c)], zero |-> z] # None
    BY <2>1, ScoringAssumption DEF Vector
  <2>3. vec'[c] # None
    BY <1>3, <1>6, <2>2 DEF Embed, EmbedZero
  <2>. QED
    BY <1>1, <1>2, <1>3, <1>6, <2>3 DEF Embed, EmbedZero
<1>7. ASSUME NEW c \in Calls, Upsert(c)
      PROVE  StepOf(d)'
  <2>1. vec[c] # None
    BY <1>7 DEF Upsert, Steps
  <2>2. stored'[LeadOf(c)][ModelOf(c)] # None
    BY <1>7, <2>1, KeepFacts DEF Upsert
  <2>. QED
    BY <1>1, <1>2, <1>3, <1>7, <2>1, <2>2 DEF Upsert, Ensured, Kinds
<1>8. ASSUME NEW c \in Calls, Search(c)
      PROVE  StepOf(d)'
  BY <1>1, <1>2, <1>3, <1>8 DEF Search
<1>9. ASSUME NEW c \in Calls, DecideLocal(c) \/ DecideRemote(c) \/ DecideFallback(c)
      PROVE  StepOf(d)'
  <2>1. \A e \in Calls : e # c => decision'[e] = decision[e]
    BY <1>3, <1>9 DEF DecideLocal, DecideRemote, DecideFallback
  <2>. QED
    BY <1>1, <1>2, <1>3, <1>9, <2>1 DEF DecideLocal, DecideRemote, DecideFallback
<1>10. ASSUME NEW c \in Calls, Insert(c) \/ InsertRefused(c)
       PROVE  StepOf(d)'
  BY <1>1, <1>2, <1>3, <1>10 DEF Insert, InsertRefused, Kinds
<1>11. ASSUME NEW c \in Calls, StepFails(c) \/ ReplyLost(c)
       PROVE  StepOf(d)'
  <2>1. AfterError(c) = "done" \/ (AfterError(c) = "observe" /\ call[c].op = "embed")
    BY DEF AfterError
  <2>2. pc' = [pc EXCEPT ![c] = AfterError(c)] /\ UNCHANGED <<vec, near, decision, scrape>>
    BY <1>11 DEF StepFails, ReplyLost
  <2>3. rows' = rows \/ (pc[c] = "insert" /\ \E p : rows' = [rows EXCEPT ![c] = p])
    BY <1>11 DEF StepFails, ReplyLost
  <2>4. pc[c] = "insert" => call[c].op = "score"
    BY DEF Steps
  <2>5. AfterError(c) = "observe" => pc[c] # "insert"
    BY <2>1, <2>4
  <2>6. /\ pc[c] \in {"lead", "read", "embed", "upsert", "search", "insert"}
    BY <1>11 DEF StepFails, ReplyLost, Fallible
  <2>. QED
    BY <1>1, <1>2, <1>3, <2>1, <2>2, <2>3, <2>4, <2>5, <2>6 DEF Kinds
<1>12. ASSUME NEW c \in Calls, AddDuration(c) \/ AddSample(c)
       PROVE  StepOf(d)'
  BY <1>1, <1>2, <1>3, <1>12 DEF AddDuration, AddSample
<1>13. ASSUME NEW c \in Calls, ScrapeCount(c)
       PROVE  StepOf(d)'
  <2>1. registry["api"].count["embed"] \in Nat
    BY DEF TypeOK, Process, Counters, Kinds
  <2>2. scrape'[c] \in Scrape
    BY <1>3, <1>13, <2>1 DEF ScrapeCount, Scrape
  <2>. QED
    BY <1>1, <1>2, <1>3, <1>13, <2>2 DEF ScrapeCount
<1>14. ASSUME NEW c \in Calls, ScrapeTotal(c)
       PROVE  StepOf(d)'
  BY <1>1, <1>2, <1>3, <1>14 DEF ScrapeTotal
<1>15. ASSUME NEW m \in Models, Drift(m)
       PROVE  StepOf(d)'
  BY <1>1, <1>2, <1>3, <1>15 DEF Drift
<1>. QED
  BY <1>4, <1>5, <1>6, <1>7, <1>8, <1>9, <1>10, <1>11, <1>12, <1>13, <1>14, <1>15 DEF Next

----------------------------------------------------------------------------
\* What is true of a vector stays true of it.
LEMMA HonestStays ==
  ASSUME TypeOK, Steps, Next, NEW m \in Models, NEW v \in Vector \cup {None}, Honest(v, m)
  PROVE  Honest(v, m)'
<1>1. /\ faults \in Nat /\ faults' \in Nat /\ faults <= faults'
      /\ version[m] \in Nat /\ version'[m] \in Nat /\ version[m] <= version'[m]
  BY Changes
<1>2. CASE v = None
  BY <1>2 DEF Honest
<1>3. CASE v \in Vector
  <2>1. v.version \in Nat
    BY <1>3 DEF Vector
  <2>. QED
    BY <1>1, <2>1 DEF Honest
<1>. QED
  BY <1>2, <1>3

LEMMA VectorsInit == Init => Vectors
<1> SUFFICES ASSUME Init PROVE Vectors
  OBVIOUS
<1>1. \A l \in Leads, m \in Models : Honest(stored[l][m], m)
  BY DEF Init, Honest
<1>. QED
  BY <1>1 DEF Init, Vectors, Honest

LEMMA VectorsNext ==
  ASSUME TypeOK, Steps, Vectors, Next
  PROVE  Vectors'
<1>1. /\ vec \in [Calls -> Vector \cup {None}]
      /\ stored \in [Leads -> [Models -> Vector \cup {None}]]
  BY DEF TypeOK
<1>2. /\ \A c \in Calls : Honest(vec[c], ModelOf(c)) /\ ModelOf(c) \in Models /\ LeadOf(c) \in Leads
      /\ \A l \in Leads, m \in Models : Honest(stored[l][m], m)
  BY CallFacts DEF Vectors
<1>3. \A m \in Models, v \in Vector \cup {None} :
        Honest(v, m) /\ v # None => v.model = m /\ v.version <= version'[m]
  BY HonestStays DEF Honest
<1>4. ASSUME NEW l \in Leads, NEW m \in Models
      PROVE  Honest(stored[l][m], m)'
  <2>1. \/ stored'[l][m] = stored[l][m]
        \/ \E c \in Calls : m = ModelOf(c) /\ stored'[l][m] = vec[c]
    BY Changes
  <2>2. stored[l][m] \in Vector \cup {None}
    BY <1>1
  <2>3. Honest(stored'[l][m], m) /\ stored'[l][m] \in Vector \cup {None}
    BY <1>1, <1>2, <2>1, <2>2
  <2>. QED
    BY <1>3, <2>3 DEF Honest
<1>5. ASSUME NEW d \in Calls
      PROVE  Honest(vec[d], ModelOf(d))'
  <2>1. ModelOf(d)' = ModelOf(d) /\ ModelOf(d) \in Models
    BY <1>2, Changes DEF ModelOf, In
  <2>2. CASE vec'[d] = vec[d]
    <3>1. Honest(vec[d], ModelOf(d)) /\ vec[d] \in Vector \cup {None}
      BY <1>1, <1>2
    <3>. QED
      BY <1>3, <2>1, <2>2, <3>1 DEF Honest
  <2>3. CASE ReadHit(d)
    <3>1. vec'[d] = stored[LeadOf(d)][ModelOf(d)]
      BY <1>1, <2>3 DEF ReadHit
    <3>2. Honest(vec'[d], ModelOf(d)) /\ vec'[d] \in Vector \cup {None}
      BY <1>1, <1>2, <3>1
    <3>. QED
      BY <1>3, <2>1, <3>2 DEF Honest
  <2>4. CASE Embed(d) \/ EmbedZero(d)
    <3> DEFINE m == ModelOf(d)
    <3>1. /\ faults \in Nat /\ version[m] \in Nat
      BY <2>1, Changes
    <3>2. \/ vec'[d] = [model |-> m, version |-> version[m], zero |-> FALSE]
          \/ /\ vec'[d] = [model |-> m, version |-> version[m], zero |-> TRUE]
             /\ faults' = faults + 1
      BY <1>1, <2>4 DEF Embed, EmbedZero
    <3>3. version'[m] = version[m]
      BY <2>4 DEF Embed, EmbedZero
    <3>. QED
      BY <2>1, <3>1, <3>2, <3>3 DEF Honest
  <2>5. vec'[d] = vec[d] \/ ReadHit(d) \/ Embed(d) \/ EmbedZero(d)
    <3>1. ASSUME NEW c \in Calls, ReadHit(c) \/ Embed(c) \/ EmbedZero(c)
          PROVE  c = d \/ vec'[d] = vec[d]
      BY <1>1, <3>1 DEF ReadHit, Embed, EmbedZero
    <3>2. ASSUME NEW c \in Calls,
                 \/ LoadLead(c) \/ ReadMiss(c) \/ Upsert(c) \/ Search(c)
                 \/ DecideLocal(c) \/ DecideRemote(c) \/ DecideFallback(c)
                 \/ Insert(c) \/ InsertRefused(c) \/ StepFails(c) \/ ReplyLost(c)
                 \/ AddDuration(c) \/ AddSample(c) \/ ScrapeCount(c) \/ ScrapeTotal(c)
          PROVE  vec' = vec
      BY <3>2 DEF LoadLead, ReadMiss, Upsert, Search, DecideLocal, DecideRemote,
         DecideFallback, Insert, InsertRefused, StepFails, ReplyLost, AddDuration,
         AddSample, ScrapeCount, ScrapeTotal
    <3>3. ASSUME NEW m \in Models, Drift(m)
          PROVE  vec' = vec
      BY <3>3 DEF Drift
    <3>. QED
      BY <3>1, <3>2, <3>3 DEF Next
  <2>. QED
    BY <2>2, <2>3, <2>4, <2>5
<1>. QED
  BY <1>4, <1>5 DEF Vectors

----------------------------------------------------------------------------
LEMMA DecisionsInit == Init => Decisions
BY FS_EmptySet DEF Init, Decisions, NearOf, DecisionOf, FailureOf

\* FindSimilar finds few leads.
LEMMA SearchFinds ==
  ASSUME TypeOK, Steps, Vectors, NEW c \in Calls, Search(c)
  PROVE  NearOf(c)' /\ \A d \in Calls : d # c => near'[d] = near[d]
<1>1. PICK found \in SUBSET Comparable(c) :
        /\ Cardinality(found) <= Limit
        /\ \E match \in [found -> Matches] :
             near' = [near EXCEPT ![c] = {Neighbour(c, l, match[l]) : l \in found}]
  BY DEF Search
<1>2. PICK match \in [found -> Matches] :
        near' = [near EXCEPT ![c] = {Neighbour(c, l, match[l]) : l \in found}]
  BY <1>1
<1> DEFINE T == {Neighbour(c, l, match[l]) : l \in found}
           f == [l \in found |-> Neighbour(c, l, match[l])]
<1>3. near \in [Calls -> SUBSET Neighbours]
  BY DEF TypeOK
<1>4. near'[c] = T /\ \A d \in Calls : d # c => near'[d] = near[d]
  BY <1>2, <1>3
<1>5. IsFiniteSet(T) /\ Cardinality(T) <= 5
  <2>1. IsFiniteSet(found)
    <3>1. found \in SUBSET Leads
      BY DEF Comparable
    <3>. QED
      BY <3>1, ScoringAssumption, FS_Subset
  <2>2. f \in Surjection(found, T)
    BY DEF Surjection
  <2>3. IsFiniteSet(T) /\ Cardinality(T) <= Cardinality(found)
    BY <2>1, <2>2, FS_Surjection
  <2>4. Cardinality(found) \in Nat /\ Cardinality(T) \in Nat /\ Cardinality(found) <= 5
    BY <1>1, <2>1, <2>3, FS_CardinalityType, ScoringAssumption
  <2>. QED
    BY <2>3, <2>4
<1>. QED
  BY <1>4, <1>5 DEF NearOf

\* A score the table refuses is the local scorer's NaN, or its reasoning holds
\* what the remote scorer sent.
LEMMA RefusedForAReason ==
  ASSUME TypeOK, NEW c \in Calls, NearOf(c), DecisionOf(c), decision[c] # None, ~Storable(c)
  PROVE  NoNumber(c) \/ Garbled(c)
<1>1. CASE ~decision[c].storable
  BY <1>1 DEF DecisionOf
<1>2. CASE decision[c].p \notin Probabilities
  <2>1. decision[c].p = Local(c)
    BY <1>2 DEF DecisionOf
  <2>2. Local(c) = NaN /\ near[c] # {} /\ \A n \in near[c] : n.similarity = NaN
    BY <1>2, <2>1, BoundsAreProbabilities, LocalFacts
  <2>. QED
    BY <2>1, <2>2 DEF NoNumber
<1>. QED
  BY <1>1, <1>2 DEF Storable

LEMMA DecisionsNext ==
  ASSUME TypeOK, Steps, Vectors, Decisions, Next
  PROVE  Decisions'
<1> SUFFICES ASSUME NEW d \in Calls
             PROVE  NearOf(d)' /\ DecisionOf(d)' /\ FailureOf(d)'
  BY DEF Decisions
<1>1. UNCHANGED conf /\ LeadOf(d)' = LeadOf(d)
  BY Changes DEF LeadOf
<1>2. NearOf(d) /\ DecisionOf(d) /\ FailureOf(d)
  BY DEF Decisions
<1>3. /\ near \in [Calls -> SUBSET Neighbours]
      /\ decision \in [Calls -> Decision \cup {None}]
      /\ failed \in [Calls -> {"no", "fault", "error"}]
  BY DEF TypeOK
<1>4. ASSUME near'[d] = near[d]
      PROVE  NearOf(d)' /\ Local(d)' = Local(d) /\ CanAsk(d)' = CanAsk(d)
  BY <1>1, <1>2, <1>4 DEF NearOf, Local, CanAsk
<1>5. ASSUME near'[d] = near[d], decision'[d] = decision[d]
      PROVE  NearOf(d)' /\ DecisionOf(d)' /\ NoNumber(d)' = NoNumber(d) /\ Garbled(d)' = Garbled(d)
  BY <1>2, <1>4, <1>5 DEF DecisionOf, NoNumber, Garbled
<1>6. ASSUME near'[d] = near[d], decision'[d] = decision[d], failed'[d] = failed[d]
      PROVE  NearOf(d)' /\ DecisionOf(d)' /\ FailureOf(d)'
  BY <1>2, <1>5, <1>6 DEF FailureOf
\* A call that has not decided has not failed with an error.
<1>u. ASSUME pc[d] \in {"search", "decide"}, failed'[d] = failed[d]
      PROVE  decision[d] = None /\ FailureOf(d)'
  <2>1. decision[d] = None
    BY <1>u DEF Steps, StepOf
  <2>. QED
    BY <1>2, <1>u, <2>1 DEF FailureOf
<1>7. ASSUME NEW c \in Calls,
             \/ LoadLead(c) \/ ReadHit(c) \/ ReadMiss(c) \/ Embed(c) \/ EmbedZero(c) \/ Upsert(c)
             \/ Insert(c) \/ AddDuration(c) \/ AddSample(c) \/ ScrapeCount(c) \/ ScrapeTotal(c)
      PROVE  UNCHANGED <<near, decision, failed>>
  BY <1>7 DEF LoadLead, ReadHit, ReadMiss, Embed, EmbedZero, Upsert, Insert, AddDuration,
     AddSample, ScrapeCount, ScrapeTotal
<1>8. ASSUME NEW m \in Models, Drift(m)
      PROVE  UNCHANGED <<near, decision, failed>>
  BY <1>8 DEF Drift
<1>9. CASE UNCHANGED <<near, decision, failed>>
  BY <1>6, <1>9
<1>10. ASSUME NEW c \in Calls, Search(c)
       PROVE  NearOf(d)' /\ DecisionOf(d)' /\ FailureOf(d)'
  <2>1. UNCHANGED <<decision, failed>>
    BY <1>10 DEF Search
  <2>2. CASE d = c
    <3>1. decision[d] = None /\ FailureOf(d)'
      BY <1>10, <1>u, <2>1, <2>2 DEF Search
    <3>2. NearOf(d)'
      BY <1>10, <2>2, SearchFinds
    <3>. QED
      BY <2>1, <3>1, <3>2 DEF DecisionOf
  <2>3. CASE d # c
    <3>1. near'[d] = near[d]
      BY <1>10, <2>3, SearchFinds
    <3>. QED
      BY <1>6, <2>1, <3>1
  <2>. QED
    BY <2>2, <2>3
<1>11. ASSUME NEW c \in Calls, DecideLocal(c) \/ DecideFallback(c)
       PROVE  NearOf(d)' /\ DecisionOf(d)' /\ FailureOf(d)'
  <2>1. UNCHANGED <<near, failed>> /\ pc[c] = "decide"
    BY <1>11 DEF DecideLocal, DecideFallback
  <2>2. CASE d # c
    <3>1. decision'[d] = decision[d]
      BY <1>3, <1>11, <2>2 DEF DecideLocal, DecideFallback
    <3>. QED
      BY <1>6, <2>1, <3>1
  <2>3. CASE d = c
    <3>1. PICK by \in {"local", "fallback"}, text \in BOOLEAN :
            /\ decision'[d] = [by |-> by, p |-> Local(d), storable |-> text]
            /\ ~text => by = "fallback" /\ CanAsk(d)
      BY <1>3, <1>11, <2>3 DEF DecideLocal, DecideFallback
    <3>2. DecisionOf(d)'
      BY <1>4, <2>1, <3>1 DEF DecisionOf, Garbled
    <3>. QED
      BY <1>4, <1>u, <2>1, <2>3, <3>2
  <2>. QED
    BY <2>2, <2>3
<1>12. ASSUME NEW c \in Calls, DecideRemote(c)
       PROVE  NearOf(d)' /\ DecisionOf(d)' /\ FailureOf(d)'
  <2>1. UNCHANGED <<near, failed>> /\ pc[c] = "decide" /\ CanAsk(c)
    BY <1>12 DEF DecideRemote
  <2>2. PICK r \in Replies, text \in BOOLEAN :
          /\ Accepted(r)
          /\ decision' = [decision EXCEPT ![c] =
                             [by |-> "remote", p |-> (r + 5) \div 10, storable |-> text]]
    BY <1>12 DEF DecideRemote
  <2>3. (r + 5) \div 10 \in Probabilities
    BY <2>2, RemoteRounds
  <2>4. CASE d # c
    <3>1. decision'[d] = decision[d]
      BY <1>3, <2>2, <2>4
    <3>. QED
      BY <1>6, <2>1, <3>1
  <2>5. CASE d = c
    <3>1. decision'[d] = [by |-> "remote", p |-> (r + 5) \div 10, storable |-> text]
      BY <1>3, <2>2, <2>5
    <3>2. DecisionOf(d)'
      BY <1>4, <2>1, <2>3, <2>5, <3>1 DEF DecisionOf, Garbled
    <3>. QED
      BY <1>4, <1>u, <2>1, <2>5, <3>2
  <2>. QED
    BY <2>4, <2>5
<1>13. ASSUME NEW c \in Calls, InsertRefused(c)
       PROVE  NearOf(d)' /\ DecisionOf(d)' /\ FailureOf(d)'
  <2>1. UNCHANGED <<near, decision>> /\ decision[c] # None /\ ~Storable(c)
    BY <1>13 DEF InsertRefused
  <2>2. CASE d # c
    <3>1. failed'[d] = failed[d]
      BY <1>3, <1>13, <2>2 DEF InsertRefused, Errs
    <3>. QED
      BY <1>6, <2>1, <3>1
  <2>3. CASE d = c
    <3>1. NoNumber(d) \/ Garbled(d)
      BY <1>2, <2>1, <2>3, RefusedForAReason
    <3>. QED
      BY <1>5, <2>1, <2>3, <3>1 DEF FailureOf
  <2>. QED
    BY <2>2, <2>3
<1>14. ASSUME NEW c \in Calls, StepFails(c) \/ ReplyLost(c)
       PROVE  NearOf(d)' /\ DecisionOf(d)' /\ FailureOf(d)'
  <2>1. UNCHANGED <<near, decision>>
    BY <1>14 DEF StepFails, ReplyLost
  <2>2. failed'[d] = failed[d] \/ failed'[d] = "fault"
    BY <1>3, <1>14 DEF StepFails, ReplyLost, Errs
  <2>. QED
    BY <1>5, <1>6, <2>1, <2>2 DEF FailureOf
<1>. QED
  BY <1>7, <1>8, <1>9, <1>10, <1>11, <1>12, <1>13, <1>14 DEF Next

----------------------------------------------------------------------------
LEMMA SamplesInit == Init => Samples
<1> SUFFICES ASSUME Init PROVE Samples
  OBVIOUS
<1>1. ASSUME NEW p \in Process, NEW k \in Kinds
      PROVE  registry[p].total[k] = registry[p].count[k] + Cardinality(Pending(p, k))
  <2>1. Pending(p, k) = {}
    BY DEF Pending, Init
  <2>2. registry[p].total[k] = 0 /\ registry[p].count[k] = 0
    BY DEF Init, Fresh
  <2>. QED
    BY <2>1, <2>2, FS_EmptySet
<1>. QED
  BY <1>1 DEF Init, Samples, ScrapeOf

\* A step that neither starts nor ends an observation.
LEMMA SamplesKept ==
  ASSUME TypeOK, Samples, NEW c \in Calls, UNCHANGED <<conf, scrape>>,
         pc[c] # "count", pc' = pc \/ \E to : to # "count" /\ pc' = [pc EXCEPT ![c] = to],
         \A p \in Process, k \in Kinds :
           /\ registry'[p].total[k] = registry[p].total[k]
           /\ registry'[p].count[k] = registry[p].count[k]
  PROVE  Samples'
<1>1. pc \in [Calls -> {"lead", "read", "embed", "upsert", "search", "decide",
                        "insert", "observe", "count", "scrape", "sum", "done"}]
  BY DEF TypeOK
<1>2. ASSUME NEW p \in Process, NEW k \in Kinds
      PROVE  Pending(p, k)' = Pending(p, k)
  BY <1>1 DEF Pending, In
<1>3. registry'["api"].total["embed"] = registry["api"].total["embed"]
  BY DEF Process, Kinds
<1>. QED
  BY <1>2, <1>3 DEF Samples, ScrapeOf

\* Adding to another counter leaves these alone.
LEMMA OtherCounters ==
  ASSUME TypeOK, NEW c \in Calls,
         \/ registry' = registry
         \/ registry' = [registry EXCEPT ![In(c)].success = @ + 1]
         \/ registry' = [registry EXCEPT ![In(c)].error = @ + 1]
         \/ registry' = [registry EXCEPT ![In(c)].fallback = @ + 1]
  PROVE  \A p \in Process, k \in Kinds :
           /\ registry'[p].total[k] = registry[p].total[k]
           /\ registry'[p].count[k] = registry[p].count[k]
<1>1. registry \in [Process -> Counters] /\ In(c) \in Process
  BY CallFacts DEF TypeOK
<1> DEFINE p0 == In(c)
           r == registry[p0]
<1>2. r \in Counters
  BY <1>1
<1>3. /\ [r EXCEPT !.success = @ + 1].total = r.total /\ [r EXCEPT !.success = @ + 1].count = r.count
      /\ [r EXCEPT !.error = @ + 1].total = r.total /\ [r EXCEPT !.error = @ + 1].count = r.count
      /\ [r EXCEPT !.fallback = @ + 1].total = r.total /\ [r EXCEPT !.fallback = @ + 1].count = r.count
  BY <1>2 DEF Counters
<1>4. ASSUME NEW p \in Process
      PROVE  registry'[p].total = registry[p].total /\ registry'[p].count = registry[p].count
  BY <1>1, <1>3
<1>. QED
  BY <1>4

LEMMA SamplesNext ==
  ASSUME TypeOK, Steps, Samples, Next
  PROVE  Samples'
<1>1. /\ pc \in [Calls -> {"lead", "read", "embed", "upsert", "search", "decide",
                           "insert", "observe", "count", "scrape", "sum", "done"}]
      /\ registry \in [Process -> Counters]
      /\ scrape \in [Calls -> Scrape \cup {None}]
  BY DEF TypeOK
<1>2. \A p \in Process, k \in Kinds :
        registry[p].total[k] \in Nat /\ registry[p].count[k] \in Nat
  BY <1>1 DEF Counters
<1>3. \A p, k : IsFiniteSet(Pending(p, k)) /\ Cardinality(Pending(p, k)) \in Nat
  <2>1. \A p, k : Pending(p, k) \in SUBSET Calls
    BY DEF Pending
  <2>. QED
    BY <2>1, ScoringAssumption, FS_Subset, FS_CardinalityType
<1>4. "api" \in Process /\ "embed" \in Kinds
  BY DEF Process, Kinds
<1>5. ASSUME NEW c \in Calls,
             \/ LoadLead(c) \/ ReadHit(c) \/ ReadMiss(c) \/ Embed(c) \/ EmbedZero(c) \/ Upsert(c)
             \/ Search(c) \/ DecideLocal(c) \/ DecideRemote(c) \/ DecideFallback(c)
             \/ Insert(c) \/ InsertRefused(c) \/ StepFails(c) \/ ReplyLost(c)
      PROVE  Samples'
  <2>1. UNCHANGED <<conf, scrape>>
    BY <1>5 DEF LoadLead, ReadHit, ReadMiss, Embed, EmbedZero, Upsert, Search, DecideLocal,
       DecideRemote, DecideFallback, Insert, InsertRefused, StepFails, ReplyLost
  <2>2. pc[c] # "count" /\ \E to : to # "count" /\ pc' = [pc EXCEPT ![c] = to]
    BY <1>5 DEF LoadLead, ReadHit, ReadMiss, Embed, EmbedZero, Upsert, Search, DecideLocal,
       DecideRemote, DecideFallback, Insert, InsertRefused, StepFails, ReplyLost, Ensured,
       AfterError, Fallible
  <2>3. \/ registry' = registry
        \/ registry' = [registry EXCEPT ![In(c)].success = @ + 1]
        \/ registry' = [registry EXCEPT ![In(c)].error = @ + 1]
        \/ registry' = [registry EXCEPT ![In(c)].fallback = @ + 1]
    BY <1>5 DEF LoadLead, ReadHit, ReadMiss, Embed, EmbedZero, Upsert, Search, DecideLocal,
       DecideRemote, DecideFallback, Insert, InsertRefused, StepFails, ReplyLost, Success, Errs
  <2>4. \A p \in Process, k \in Kinds :
          /\ registry'[p].total[k] = registry[p].total[k]
          /\ registry'[p].count[k] = registry[p].count[k]
    BY <2>3, OtherCounters
  <2>. QED
    BY <2>1, <2>2, <2>4, SamplesKept
<1>6. ASSUME NEW m \in Models, Drift(m)
      PROVE  Samples'
  <2>1. UNCHANGED <<conf, pc, registry, scrape>>
    BY <1>6 DEF Drift
  <2>2. \A p, k : Pending(p, k)' = Pending(p, k)
    BY <2>1 DEF Pending, In
  <2>. QED
    BY <2>1, <2>2 DEF Samples, ScrapeOf
<1>7. ASSUME NEW c \in Calls, AddDuration(c)
      PROVE  Samples'
  <2>1. In(c) \in Process /\ call[c].op \in Kinds
    BY <1>7, CallFacts DEF AddDuration, Steps, StepOf
  <2> DEFINE p0 == In(c)
             k0 == call[c].op
  <2>2. \A p \in Process, k \in Kinds :
          /\ registry'[p].count[k] = registry[p].count[k]
          /\ registry'[p].total[k] =
               registry[p].total[k] + (IF p = p0 /\ k = k0 THEN 1 ELSE 0)
    BY <1>1, <1>2, <1>7, <2>1 DEF AddDuration, Counters
  <2>3. ASSUME NEW p \in Process, NEW k \in Kinds
        PROVE  Pending(p, k)' = IF p = p0 /\ k = k0 THEN Pending(p, k) \cup {c}
                                ELSE Pending(p, k)
    BY <1>1, <1>7 DEF AddDuration, Pending, In
  <2>4. c \notin Pending(p0, k0)
    BY <1>7 DEF AddDuration, Pending
  <2>5. ASSUME NEW p \in Process, NEW k \in Kinds
        PROVE  (registry[p].total[k] = registry[p].count[k] + Cardinality(Pending(p, k)))'
    <3>1. registry[p].total[k] = registry[p].count[k] + Cardinality(Pending(p, k))
      BY DEF Samples
    <3>2. CASE p = p0 /\ k = k0
      <4>1. Cardinality(Pending(p, k)') = Cardinality(Pending(p, k)) + 1
        BY <1>3, <2>3, <2>4, <3>2, FS_AddElement
      <4>. QED
        BY <1>2, <1>3, <2>2, <3>1, <3>2, <4>1
    <3>3. CASE ~(p = p0 /\ k = k0)
      BY <2>2, <2>3, <3>1, <3>3, <1>2
    <3>. QED
      BY <3>2, <3>3
  <2>6. registry["api"].total["embed"] <= registry'["api"].total["embed"]
    BY <1>2, <1>4, <2>2
  <2>7. scrape' = scrape
    BY <1>7 DEF AddDuration
  <2>8. ASSUME NEW d \in Calls PROVE ScrapeOf(d)'
    <3>1. ScrapeOf(d)
      BY DEF Samples
    <3>2. registry'["api"].total["embed"] \in Nat /\ registry["api"].total["embed"] \in Nat
      BY <1>2, <1>4, <2>2
    <3>. QED
      BY <1>1, <2>6, <2>7, <3>1, <3>2 DEF ScrapeOf, Scrape
  <2>. QED
    BY <2>5, <2>8 DEF Samples
<1>8. ASSUME NEW c \in Calls, AddSample(c)
      PROVE  Samples'
  <2>1. In(c) \in Process /\ call[c].op \in Kinds
    BY <1>8, CallFacts DEF AddSample, Steps, StepOf
  <2> DEFINE p0 == In(c)
             k0 == call[c].op
  <2>2. \A p \in Process, k \in Kinds :
          /\ registry'[p].total[k] = registry[p].total[k]
          /\ registry'[p].count[k] =
               registry[p].count[k] + (IF p = p0 /\ k = k0 THEN 1 ELSE 0)
    BY <1>1, <1>2, <1>8, <2>1 DEF AddSample, Counters
  <2>3. ASSUME NEW p \in Process, NEW k \in Kinds
        PROVE  Pending(p, k)' = IF p = p0 /\ k = k0 THEN Pending(p, k) \ {c}
                                ELSE Pending(p, k)
    BY <1>1, <1>8 DEF AddSample, Pending, In
  <2>4. c \in Pending(p0, k0)
    BY <1>8 DEF AddSample, Pending
  <2>5. ASSUME NEW p \in Process, NEW k \in Kinds
        PROVE  (registry[p].total[k] = registry[p].count[k] + Cardinality(Pending(p, k)))'
    <3>1. registry[p].total[k] = registry[p].count[k] + Cardinality(Pending(p, k))
      BY DEF Samples
    <3>2. CASE p = p0 /\ k = k0
      <4>1. Cardinality(Pending(p, k)') = Cardinality(Pending(p, k)) - 1
        BY <1>3, <2>3, <2>4, <3>2, FS_RemoveElement
      <4>. QED
        BY <1>2, <1>3, <2>2, <3>1, <3>2, <4>1
    <3>3. CASE ~(p = p0 /\ k = k0)
      BY <2>2, <2>3, <3>1, <3>3, <1>2
    <3>. QED
      BY <3>2, <3>3
  <2>6. scrape' = scrape /\ registry'["api"].total["embed"] = registry["api"].total["embed"]
    BY <1>4, <1>8, <2>2 DEF AddSample
  <2>. QED
    BY <2>5, <2>6 DEF Samples, ScrapeOf
<1>9. ASSUME NEW c \in Calls, ScrapeCount(c) \/ ScrapeTotal(c)
      PROVE  Samples'
  <2>1. UNCHANGED <<conf, registry>>
    BY <1>9 DEF ScrapeCount, ScrapeTotal
  <2>2. \A p, k : Pending(p, k)' = Pending(p, k)
    BY <1>1, <1>9 DEF ScrapeCount, ScrapeTotal, Pending, In
  <2>3. /\ registry["api"].total["embed"] \in Nat /\ registry["api"].count["embed"] \in Nat
        /\ registry["api"].count["embed"] <= registry["api"].total["embed"]
    BY <1>2, <1>3, <1>4 DEF Samples
  <2>4. ASSUME NEW d \in Calls PROVE ScrapeOf(d)'
    <3>1. ScrapeOf(d)
      BY DEF Samples
    <3>2. CASE scrape'[d] = scrape[d]
      BY <2>1, <3>1, <3>2 DEF ScrapeOf
    <3>3. CASE scrape'[d] = [count |-> registry["api"].count["embed"], total |-> None]
      BY <2>1, <2>3, <3>3 DEF ScrapeOf
    <3>4. CASE ScrapeTotal(d)
      <4>1. /\ scrape[d] \in Scrape
            /\ scrape[d] # None
        BY <3>4, ScoringAssumption DEF ScrapeTotal, Steps, StepOf
      <4>2. scrape'[d] = [scrape[d] EXCEPT !.total = registry["api"].total["embed"]]
        BY <1>1, <3>4 DEF ScrapeTotal
      <4>3. scrape'[d].count = scrape[d].count /\ scrape'[d].total = registry["api"].total["embed"]
        BY <4>1, <4>2 DEF Scrape
      <4>. QED
        BY <2>1, <2>3, <3>1, <4>1, <4>3 DEF ScrapeOf
    <3>. QED
      BY <1>1, <1>9, <3>2, <3>3, <3>4 DEF ScrapeCount, ScrapeTotal
  <2>. QED
    BY <2>1, <2>2, <2>4 DEF Samples
<1>. QED
  BY <1>5, <1>6, <1>7, <1>8, <1>9 DEF Next

----------------------------------------------------------------------------
\* What the calls, the tables and the registries hold at every moment is the
\* inductive invariant of embedding, searching and scoring.
THEOREM InductiveInvariant == Spec => []IInv
<1>1. Init => IInv
  BY TypeInit, StepsInit, VectorsInit, DecisionsInit, SamplesInit DEF IInv
<1>2. IInv /\ [Next]_vars => IInv'
  <2> SUFFICES ASSUME IInv, [Next]_vars PROVE IInv'
    OBVIOUS
  <2>1. CASE Next
    BY <2>1, TypeNext, StepsNext, VectorsNext, DecisionsNext, SamplesNext DEF IInv
  <2>2. CASE UNCHANGED vars
    BY <2>2 DEF vars, IInv, TypeOK, Steps, StepOf, Vectors, Honest, Decisions, NearOf,
       DecisionOf, FailureOf, NoNumber, Garbled, CanAsk, Local, Samples, ScrapeOf, Pending, LeadOf, ModelOf, In
  <2>. QED
    BY <2>1, <2>2
<1>. QED
  BY <1>1, <1>2, PTL DEF Spec

\* Every variable keeps its type, the numbers of lead_scores included.
THEOREM TypeCorrect == Spec => []TypeOK
<1>1. IInv => TypeOK
  BY DEF IInv
<1>. QED
  BY <1>1, InductiveInvariant, PTL

\* Whatever fails and whoever embeds at the same time, a lead that has a score
\* has a vector under the worker's model.
THEOREM ScoredIsEmbeddedHolds == Spec => []ScoredIsEmbedded
<1>1. IInv => ScoredIsEmbedded
  <2> SUFFICES ASSUME IInv, NEW c \in Calls, rows[c] # None
               PROVE  stored[LeadOf(c)][model["worker"]] # None
    BY DEF ScoredIsEmbedded
  <2>1. stored[LeadOf(c)][ModelOf(c)] # None /\ call[c].op = "score"
    BY DEF IInv, Steps, StepOf
  <2>2. In(c) = "worker"
    BY <2>1, CallFacts DEF IInv
  <2>. QED
    BY <2>1, <2>2 DEF ModelOf
<1>. QED
  BY <1>1, InductiveInvariant, PTL

\* What ScoreLead passes to the local scorer always satisfies the assumptions
\* under which a probability is between 15 % and 95 %.
THEOREM DecisionInBoundsHolds == Spec => []DecisionInBounds
<1>1. IInv => DecisionInBounds
  <2> SUFFICES ASSUME IInv, NEW c \in Calls, decision[c] # None, decision[c].by # "remote"
               PROVE  \/ decision[c].p \in Bounds
                      \/ /\ decision[c].p = NaN /\ near[c] # {}
                         /\ \A n \in near[c] : n.similarity = NaN
    BY DEF DecisionInBounds, NoNumber
  <2>1. TypeOK /\ NearOf(c) /\ decision[c].p = Local(c)
    BY DEF IInv, Decisions, DecisionOf
  <2>. QED
    BY <2>1, LocalFacts
<1>. QED
  BY <1>1, InductiveInvariant, PTL

\* Whatever two calls found, a better lead with warmer neighbours has no lower
\* local score.
THEOREM MoreNeverHurtsHolds == Spec => []MoreNeverHurts
<1>1. IInv => MoreNeverHurts
  <2> SUFFICES ASSUME IInv, NEW c \in Calls, NEW d \in Calls,
                      decision[c] # None, decision[c].by # "remote",
                      decision[d] # None, decision[d].by # "remote",
                      AtLeast(Profile[LeadOf(c)], Profile[LeadOf(d)]), Warmer(near[c], near[d])
               PROVE  decision[c].p >= decision[d].p
    BY DEF MoreNeverHurts
  <2>1. /\ TypeOK /\ NearOf(c) /\ NearOf(d)
        /\ decision[c].p = Local(c) /\ decision[d].p = Local(d)
    BY DEF IInv, Decisions, DecisionOf
  <2>2. /\ IsNear(near[c]) /\ Profile[LeadOf(c)] \in Lead
        /\ IsNear(near[d]) /\ Profile[LeadOf(d)] \in Lead
    BY <2>1, NearFacts
  <2>3. Probability(Profile[LeadOf(c)], near[c]) >= Probability(Profile[LeadOf(d)], near[d])
    BY <2>2, ProbabilityMonotone
  <2>. QED
    BY <2>1, <2>3 DEF Local
<1>. QED
  BY <1>1, InductiveInvariant, PTL

\* Per call: one that no fault has hit fails for want of a number, or for the
\* bytes a remote scorer put into its reasoning; not because that scorer failed
\* or answered what is no probability.
THEOREM FallbackKeepsScoringHolds == Spec => []FallbackKeepsScoring
<1>1. IInv => FallbackKeepsScoring
  BY DEF IInv, Decisions, FailureOf, FallbackKeepsScoring
<1>. QED
  BY <1>1, InductiveInvariant, PTL

\* A scrape of /metrics, read in two steps while calls observe, never has more
\* samples than durations.
THEOREM ScrapeHasEverySampleHolds == Spec => []ScrapeHasEverySample
<1>1. IInv => ScrapeHasEverySample
  BY DEF IInv, Samples, ScrapeOf, ScrapeHasEverySample
<1>. QED
  BY <1>1, InductiveInvariant, PTL

\* FindSimilar compares vectors of one model, and of one version of it unless
\* the provider has changed it.
THEOREM NeighboursComparableHolds == Spec => NeighboursComparable
<1> DEFINE A == \A c \in Calls : pc[c] = "search" /\ pc'[c] \in {"decide", "done"} =>
                  \A n \in near'[c] :
                    LET other == stored[n.id][ModelOf(c)]
                    IN /\ other.model = vec[c].model
                       /\ version[ModelOf(c)] = 0 => other.version = vec[c].version
<1>1. IInv /\ [Next]_vars => [A]_vars
  <2> SUFFICES ASSUME IInv, Next, NEW c \in Calls, pc[c] = "search", pc'[c] \in {"decide", "done"},
                      NEW n \in near'[c]
               PROVE  /\ stored[n.id][ModelOf(c)].model = vec[c].model
                      /\ version[ModelOf(c)] = 0 =>
                           stored[n.id][ModelOf(c)].version = vec[c].version
    OBVIOUS
  <2>1. /\ TypeOK /\ Vectors /\ near[c] = {} /\ vec[c] # None
        /\ pc \in [Calls -> {"lead", "read", "embed", "upsert", "search", "decide",
                             "insert", "observe", "count", "scrape", "sum", "done"}]
    BY DEF IInv, Steps, StepOf, TypeOK
  <2>2. Search(c)
    <3>1. pc' # pc /\ near' # near
      BY <2>1
    <3>2. PICK d \in Calls : Search(d)
      BY <3>1 DEF Next, LoadLead, ReadHit, ReadMiss, Embed, EmbedZero, Upsert, DecideLocal,
         DecideRemote, DecideFallback, Insert, InsertRefused, StepFails, ReplyLost,
         AddDuration, AddSample, ScrapeCount, ScrapeTotal, Drift
    <3>3. d = c
      BY <2>1, <3>2 DEF Search
    <3>. QED
      BY <3>2, <3>3
  <2>3. n.id \in Comparable(c)
    <3>1. PICK found \in SUBSET Comparable(c) : \E match \in [found -> Matches] :
            near' = [near EXCEPT ![c] = {Neighbour(c, l, match[l]) : l \in found}]
      BY <2>2 DEF Search
    <3>2. PICK match \in [found -> Matches] :
            near' = [near EXCEPT ![c] = {Neighbour(c, l, match[l]) : l \in found}]
      BY <3>1
    <3>3. near \in [Calls -> SUBSET Neighbours]
      BY <2>1 DEF TypeOK
    <3>4. PICK l \in found : n = Neighbour(c, l, match[l])
      BY <3>2, <3>3
    <3>. QED
      BY <3>4 DEF Neighbour
  <2>4. ModelOf(c) \in Models /\ n.id \in Leads /\ stored[n.id][ModelOf(c)] # None
    BY <2>1, <2>3, CallFacts DEF Comparable
  <2>5. Honest(vec[c], ModelOf(c)) /\ Honest(stored[n.id][ModelOf(c)], ModelOf(c))
    BY <2>1, <2>4 DEF Vectors
  <2>6. vec[c] \in Vector /\ stored[n.id][ModelOf(c)] \in Vector
    BY <2>1, <2>4 DEF TypeOK
  <2>. QED
    BY <2>1, <2>4, <2>5, <2>6 DEF Honest, Vector
<1>2. NeighboursComparable <=> [][A]_vars
  BY DEF NeighboursComparable
<1>. QED
  BY <1>1, <1>2, InductiveInvariant, PTL DEF Spec
===============================================================================
