------------------------------- MODULE Scoring --------------------------------
(***************************************************************************)
(* Embedding a lead, searching its neighbours and scoring it:              *)
(* UpsertLeadEmbedding, SimilarLeads and ScoreLead of                      *)
(* internal/lead/service/service.go, with the embedders, the scorers, the  *)
(* embedding and score tables and the metrics of each process.             *)
(*                                                                         *)
(* Calls run concurrently in two processes.  The API serves embeddings and *)
(* searches, the worker runs the embed and score jobs.  Each call of the   *)
(* embedding provider and of Postgres is a step: another call may come     *)
(* between two of them.                                                    *)
(***************************************************************************)
EXTENDS LocalScorer

CONSTANTS
  Calls,         \* concurrent calls of the service
  Requests,      \* what a call may ask for
  Profile,       \* lead id -> its attributes, which no operation changes
  History,       \* leads that may have been embedded before
  Deployments,   \* process -> the embedding model it is configured with
  Models,        \* names of embedding models
  LocalModel,    \* the one of them that is computed in the process
  Matches,       \* status and similarity a neighbour may have
  Replies,       \* probabilities a remote scorer may answer, in hundred-thousandths
  Limit,         \* the 5 neighbours of ScoreLead
  MaxFaults,     \* bound: failures of Postgres and of the embedding provider
  MaxDrifts,     \* bound: times a provider changes the model behind a name
  None

Similarities == -10000 .. 10000

\* What the column of lead_scores can hold.
Probabilities == 0 .. 10000

Leads   == DOMAIN Profile
Process == {"api", "worker"}
Kinds   == {"embed", "score"}

Vector == [model : Models, version : Nat, zero : BOOLEAN]

\* What a call of /metrics has read, its total last.
Scrape == [count : Nat, total : Nat \cup {None}]

\* Score jobs run in the worker only; the API serves the similar route and
\* /metrics, which is about no lead in particular.
Request ==
  {r \in [op : Kinds \cup {"similar", "metrics"}, lead : Leads, in : Process] :
     /\ r.op = "score" => r.in = "worker"
     /\ r.op \in {"similar", "metrics"} => r.in = "api"}

ASSUME ScoringAssumption ==
  /\ IsFiniteSet(Calls) /\ Requests \subseteq Request
  /\ Profile \in [Leads -> Lead] /\ IsFiniteSet(Leads) /\ History \subseteq Leads
  /\ Deployments \subseteq [Process -> Models]
  /\ LocalModel \in Models
  /\ Matches \subseteq [status : STRING, similarity : Similarities]
  /\ Replies \subseteq Int
  /\ Limit = 5
  /\ MaxFaults \in Nat /\ MaxDrifts \in Nat
  /\ None \notin Int \cup Vector \cup Scrape

VARIABLES
  model,    \* the embedding model each process is configured with
  llm,      \* whether a remote scorer is configured
  version,  \* what the provider computes under the name of a model
  stored,   \* lead_embeddings: the vector of a lead under a model
  rows,     \* lead_scores: the probability a call inserted
  call, pc, \* what each call does and where it stands
  vec,      \* the vector ensureLeadEmbedding returned to the call
  near,     \* the neighbours the call found
  decision, \* who decided, the probability, and whether Postgres takes the reasoning
  failed,   \* whether the call returned an error, and after a fault or not
  registry, \* appmetrics of each process
  scrape,   \* what a call of /metrics has read of the API's registry
  faults

conf  == <<model, llm, call>>
vars  == <<model, llm, version, stored, rows, call, pc, vec, near, decision,
           failed, registry, scrape, faults>>

Counters == [success : Nat, error : Nat, fallback : Nat,
             total : [Kinds -> Nat], count : [Kinds -> Nat]]

Fresh == [success |-> 0, error |-> 0, fallback |-> 0,
          total |-> [k \in Kinds |-> 0], count |-> [k \in Kinds |-> 0]]

In(c)      == call[c].in
LeadOf(c)  == call[c].lead
ModelOf(c) == model[In(c)]

Init ==
  /\ model \in Deployments
  /\ llm \in BOOLEAN
  /\ version = [m \in Models |-> 0]
  /\ \E old \in SUBSET History :
       stored = [l \in Leads |-> [m \in Models |->
                   IF l \in old THEN [model |-> m, version |-> 0, zero |-> FALSE] ELSE None]]
  /\ rows = [c \in Calls |-> None]
  /\ call \in [Calls -> Requests]
  /\ pc = [c \in Calls |-> IF call[c].op = "metrics" THEN "scrape" ELSE "lead"]
  /\ vec = [c \in Calls |-> None]
  /\ near = [c \in Calls |-> {}]
  /\ decision = [c \in Calls |-> None]
  /\ failed = [c \in Calls |-> "no"]
  /\ registry = [p \in Process |-> Fresh]
  /\ scrape = [c \in Calls |-> None]
  /\ faults = 0

Goes(c, from, to) == pc[c] = from /\ pc' = [pc EXCEPT ![c] = to]

Fault == faults < MaxFaults /\ faults' = faults + 1

----------------------------------------------------------------------------
\* ensureLeadEmbedding

\* GetLead; ScoreLead does it a second time in SimilarLeads, to the same effect.
LoadLead(c) ==
  /\ Goes(c, "lead", "read")
  /\ UNCHANGED <<conf, version, stored, rows, vec, near, decision, failed,
                 registry, scrape, faults>>

\* UpsertLeadEmbedding has the vector, or its error: it observes its duration.
\* SimilarLeads goes on to FindSimilar.
Ensured(c) == IF call[c].op = "embed" THEN "observe" ELSE "search"

\* GetEmbedding finds a row.  Its content hash is that of the lead: only the
\* status of a lead ever changes, and the content has no status.
ReadHit(c) ==
  /\ stored[LeadOf(c)][ModelOf(c)] # None
  /\ Goes(c, "read", Ensured(c))
  /\ vec' = [vec EXCEPT ![c] = stored[LeadOf(c)][ModelOf(c)]]
  /\ UNCHANGED <<conf, version, stored, rows, near, decision, failed,
                 registry, scrape, faults>>

ReadMiss(c) ==
  /\ stored[LeadOf(c)][ModelOf(c)] = None
  /\ Goes(c, "read", "embed")
  /\ UNCHANGED <<conf, version, stored, rows, vec, near, decision, failed,
                 registry, scrape, faults>>

\* Embed.  The local vector is never zero: tokens that share an index share
\* their sign.
Embed(c) ==
  /\ Goes(c, "embed", "upsert")
  /\ vec' = [vec EXCEPT ![c] = [model   |-> ModelOf(c),
                                version |-> version[ModelOf(c)],
                                zero    |-> FALSE]]
  /\ UNCHANGED <<conf, version, stored, rows, near, decision, failed,
                 registry, scrape, faults>>

\* A provider may answer with a vector of zeros, which is stored like any other.
EmbedZero(c) ==
  /\ Fault
  /\ ModelOf(c) # LocalModel
  /\ Goes(c, "embed", "upsert")
  /\ vec' = [vec EXCEPT ![c] = [model   |-> ModelOf(c),
                                version |-> version[ModelOf(c)],
                                zero    |-> TRUE]]
  /\ UNCHANGED <<conf, version, stored, rows, near, decision, failed,
                 registry, scrape>>

\* ScoredIsEmbedded and NeighboursComparable: the row must be keyed by the name
\* GetEmbedding and FindSimilar look it up by.
KeepLocal(c) == stored' = [stored EXCEPT ![LeadOf(c)][LocalModel] = vec[c]]

\* The row is keyed by the configured name, whatever model the provider names.
Keep(c) == stored' = [stored EXCEPT ![LeadOf(c)][ModelOf(c)] = vec[c]]

Upsert(c) ==
  /\ Goes(c, "upsert", Ensured(c))
  /\ Keep(c)
  /\ UNCHANGED <<conf, version, rows, vec, near, decision, failed, registry,
                 scrape, faults>>

----------------------------------------------------------------------------
\* FindSimilar

\* The other leads with a vector to compare with.
Comparable(c) == {l \in Leads \ {LeadOf(c)} : stored[l][ModelOf(c)] # None}

\* 1 - cosine distance, NaN when either vector is zero.
Neighbour(c, l, match) ==
  [id |-> l, status |-> match.status,
   similarity |-> IF vec[c].zero \/ stored[l][ModelOf(c)].zero THEN NaN
                  ELSE match.similarity]

\* The search is approximate (HNSW): it may miss a row.
Search(c) ==
  /\ Goes(c, "search", IF call[c].op = "score" THEN "decide" ELSE "done")
  /\ \E found \in SUBSET Comparable(c) :
       /\ Cardinality(found) <= Limit
       /\ \E match \in [found -> Matches] :
            near' = [near EXCEPT ![c] = {Neighbour(c, l, match[l]) : l \in found}]
  /\ UNCHANGED <<conf, version, stored, rows, vec, decision, failed, registry,
                 scrape, faults>>

----------------------------------------------------------------------------
\* The scorers

\* TypeOK: a model may answer any number.
AcceptedAny(r) == TRUE

\* A reply is used when it is a probability; it is rounded to four decimals.
Accepted(r) == 0 <= r /\ r <= 100000

Local(c) == Probability(Profile[LeadOf(c)], near[c])

\* The reasoning of the local scorer quotes what the lead's row holds.
DecideLocal(c) ==
  /\ ~llm
  /\ Goes(c, "decide", "insert")
  /\ decision' = [decision EXCEPT ![c] = [by |-> "local", p |-> Local(c), storable |-> TRUE]]
  /\ UNCHANGED <<conf, version, stored, rows, vec, near, failed, registry,
                 scrape, faults>>

\* The remote scorer is asked only if json.Marshal takes every similarity.
CanAsk(c) == \A n \in near[c] : n.similarity # NaN

\* Its reasoning may hold a zero byte (\u0000), which is no text to Postgres.
DecideRemote(c) ==
  /\ llm /\ CanAsk(c)
  /\ Goes(c, "decide", "insert")
  /\ \E r \in Replies, text \in BOOLEAN :
       /\ Accepted(r)
       /\ decision' = [decision EXCEPT ![c] =
                          [by |-> "remote", p |-> (r + 5) \div 10, storable |-> text]]
  /\ UNCHANGED <<conf, version, stored, rows, vec, near, failed, registry,
                 scrape, faults>>

\* FallbackKeepsScoring: the error of the remote scorer must not be returned.
DecideFallbackNot(c) ==
  /\ llm
  /\ Goes(c, "decide", "done")
  /\ registry' = [registry EXCEPT ![In(c)].error = @ + 1]
  /\ failed' = [failed EXCEPT ![c] = "error"]
  /\ UNCHANGED <<conf, version, stored, rows, vec, near, decision, scrape, faults>>

\* FallbackScorer: the call failed, or its reply was refused.  The error goes
\* into the reasoning, with up to 4096 bytes of whatever the remote scorer sent.
DecideFallback(c) ==
  /\ llm
  /\ Goes(c, "decide", "insert")
  /\ registry' = [registry EXCEPT ![In(c)].fallback = @ + 1]
  /\ \E text \in BOOLEAN :
       /\ CanAsk(c) \/ text
       /\ decision' = [decision EXCEPT ![c] =
                          [by |-> "fallback", p |-> Local(c), storable |-> text]]
  /\ UNCHANGED <<conf, version, stored, rows, vec, near, failed, scrape, faults>>

----------------------------------------------------------------------------
\* CreateScore

Success(c) == registry' = [registry EXCEPT ![In(c)].success = @ + 1]

\* The error is returned; ScoreLead counts it.
Errs(c, how) ==
  /\ failed' = [failed EXCEPT ![c] = how]
  /\ registry' = IF call[c].op = "score"
                 THEN [registry EXCEPT ![In(c)].error = @ + 1] ELSE registry

Storable(c) ==
  decision[c] # None /\ decision[c].p \in Probabilities /\ decision[c].storable

Insert(c) ==
  /\ Storable(c)
  /\ Goes(c, "insert", "observe")
  /\ rows' = [rows EXCEPT ![c] = decision[c].p]
  /\ Success(c)
  /\ UNCHANGED <<conf, version, stored, vec, near, decision, failed, scrape, faults>>

\* The CHECK of lead_scores refuses what is no probability, NaN included, and
\* the reasoning is refused when its bytes are no text.
InsertRefused(c) ==
  /\ decision[c] # None /\ ~Storable(c)
  /\ Goes(c, "insert", "done")
  /\ Errs(c, "error")
  /\ UNCHANGED <<conf, version, stored, rows, vec, near, decision, scrape, faults>>

----------------------------------------------------------------------------
\* Errors of Postgres and of the provider

Fallible(c) == {"lead", "read", "upsert", "search", "insert"}
                 \cup (IF ModelOf(c) = LocalModel THEN {} ELSE {"embed"})

\* UpsertLeadEmbedding observes its duration unless GetLead failed.
AfterError(c) == IF call[c].op = "embed" /\ pc[c] # "lead" THEN "observe" ELSE "done"

StepFails(c) ==
  /\ Fault
  /\ pc[c] \in Fallible(c)
  /\ pc' = [pc EXCEPT ![c] = AfterError(c)]
  /\ Errs(c, "fault")
  /\ UNCHANGED <<conf, version, stored, rows, vec, near, decision, scrape>>

\* Postgres has written the row, but the answer is lost.
ReplyLost(c) ==
  /\ Fault
  /\ pc' = [pc EXCEPT ![c] = AfterError(c)]
  /\ Errs(c, "fault")
  /\ \/ pc[c] = "upsert" /\ Keep(c) /\ UNCHANGED rows
     \/ /\ pc[c] = "insert" /\ Storable(c)
        /\ rows' = [rows EXCEPT ![c] = decision[c].p]
        /\ UNCHANGED stored
  /\ UNCHANGED <<conf, version, vec, near, decision, scrape>>

----------------------------------------------------------------------------
\* Metrics

\* ScrapeHasEverySample: the duration must go to the total.
AddDurationToCount(c) ==
  /\ Goes(c, "observe", "count")
  /\ registry' = [registry EXCEPT ![In(c)].count[call[c].op] = @ + 1]
  /\ UNCHANGED <<conf, version, stored, rows, vec, near, decision, failed,
                 scrape, faults>>

\* A duration is added to the total, then to the number of samples; the model
\* counts every duration as one.
AddDuration(c) ==
  /\ Goes(c, "observe", "count")
  /\ registry' = [registry EXCEPT ![In(c)].total[call[c].op] = @ + 1]
  /\ UNCHANGED <<conf, version, stored, rows, vec, near, decision, failed,
                 scrape, faults>>

AddSample(c) ==
  /\ Goes(c, "count", "done")
  /\ registry' = [registry EXCEPT ![In(c)].count[call[c].op] = @ + 1]
  /\ UNCHANGED <<conf, version, stored, rows, vec, near, decision, failed,
                 scrape, faults>>

\* Format reads the number of samples first, then their total.  No call of the
\* API scores, so what it reads of score durations is always zero.
ScrapeCount(c) ==
  /\ Goes(c, "scrape", "sum")
  /\ scrape' = [scrape EXCEPT ![c] =
       [count |-> registry["api"].count["embed"], total |-> None]]
  /\ UNCHANGED <<conf, version, stored, rows, vec, near, decision, failed,
                 registry, faults>>

ScrapeTotal(c) ==
  /\ Goes(c, "sum", "done")
  /\ scrape' = [scrape EXCEPT ![c].total = registry["api"].total["embed"]]
  /\ UNCHANGED <<conf, version, stored, rows, vec, near, decision, failed,
                 registry, faults>>

\* The provider serves another model under a name it keeps.
Drift(m) ==
  /\ m # LocalModel /\ version[m] < MaxDrifts
  /\ version' = [version EXCEPT ![m] = @ + 1]
  /\ UNCHANGED <<conf, stored, rows, pc, vec, near, decision, failed, registry,
                 scrape, faults>>

Next ==
  \/ \E c \in Calls :
       \/ LoadLead(c) \/ ReadHit(c) \/ ReadMiss(c)
       \/ Embed(c) \/ EmbedZero(c) \/ Upsert(c) \/ Search(c)
       \/ DecideLocal(c) \/ DecideRemote(c) \/ DecideFallback(c)
       \/ Insert(c) \/ InsertRefused(c)
       \/ StepFails(c) \/ ReplyLost(c)
       \/ AddDuration(c) \/ AddSample(c) \/ ScrapeCount(c) \/ ScrapeTotal(c)
  \/ \E m \in Models : Drift(m)

Spec == Init /\ [][Next]_vars

----------------------------------------------------------------------------
Neighbours ==
  [id : Leads, status : {m.status : m \in Matches},
   similarity : {m.similarity : m \in Matches} \cup {NaN}]

Decision == [by : {"local", "remote", "fallback"}, p : Probabilities \cup {NaN},
             storable : BOOLEAN]

\* Every variable of internal/lead/service has a value its type allows.
TypeOK ==
  /\ model \in [Process -> Models] /\ llm \in BOOLEAN
  /\ version \in [Models -> 0 .. MaxDrifts]
  /\ stored \in [Leads -> [Models -> Vector \cup {None}]]
  /\ rows \in [Calls -> Probabilities \cup {None}]
  /\ call \in [Calls -> Requests]
  /\ pc \in [Calls -> {"lead", "read", "embed", "upsert", "search", "decide",
                       "insert", "observe", "count", "scrape", "sum", "done"}]
  /\ vec \in [Calls -> Vector \cup {None}]
  /\ near \in [Calls -> SUBSET Neighbours]
  /\ decision \in [Calls -> Decision \cup {None}]
  /\ failed \in [Calls -> {"no", "fault", "error"}]
  /\ registry \in [Process -> Counters]
  /\ scrape \in [Calls -> Scrape \cup {None}]
  /\ faults \in 0 .. MaxFaults

\* A lead that has a score has a vector, even when CreateLead swallowed the
\* error of Enqueue and no embed job exists: ScoreLead embeds what it scores.
ScoredIsEmbedded ==
  \A c \in Calls : rows[c] # None => stored[LeadOf(c)][model["worker"]] # None

NoNumber(c) ==
  decision[c].p = NaN /\ near[c] # {} /\ \A n \in near[c] : n.similarity = NaN

\* What the local scorer decides is at least 15 % and at most 95 %: five lost
\* neighbours cannot push a lead to the lower clamp.  It is no number only when
\* a vector of zeros was embedded.
DecisionInBounds ==
  \A c \in Calls : decision[c] # None /\ decision[c].by # "remote" =>
    decision[c].p \in Bounds \/ NoNumber(c)

\* A lead with better attributes and warmer neighbours never gets a lower
\* local score, whatever the clamp and the rounding do.
MoreNeverHurts ==
  \A c, d \in Calls :
    /\ decision[c] # None /\ decision[c].by # "remote"
    /\ decision[d] # None /\ decision[d].by # "remote"
    /\ AtLeast(Profile[LeadOf(c)], Profile[LeadOf(d)])
    /\ Warmer(near[c], near[d])
    => decision[c].p >= decision[d].p

\* A remote scorer that fails, or answers what is no probability, does not
\* fail the score job: a call that no fault of Postgres or of the embedding
\* provider has hit fails only because vectors of zeros gave no number, or
\* because what the remote scorer sent went into a reasoning that is no text.
Garbled(c) == decision[c].by # "local" /\ ~decision[c].storable /\ CanAsk(c)

FallbackKeepsScoring ==
  \A c \in Calls : failed[c] = "error" =>
    /\ decision[c] # None
    /\ NoNumber(c) \/ Garbled(c)

\* Vectors are compared with vectors of their own model only, also when the
\* processes are configured differently and when calls embed one lead at the
\* same time; only a provider that changes the model behind a name breaks it.
NeighboursComparable ==
  [][\A c \in Calls : pc[c] = "search" /\ pc'[c] \in {"decide", "done"} =>
       \A n \in near'[c] :
         LET other == stored[n.id][ModelOf(c)]
         IN /\ other.model = vec[c].model
            /\ version[ModelOf(c)] = 0 => other.version = vec[c].version]_vars

\* A scrape never counts a sample whose duration it has not added: the average
\* is never too low.
ScrapeHasEverySample ==
  \A c \in Calls : scrape[c] # None /\ scrape[c].total # None =>
    scrape[c].total >= scrape[c].count

\* docs/MONITORING_GUIDE.md lists lead_llm_fallback_total among the metrics
\* exposed by the API: the API's registry counts every fallback.
FallbacksExposed ==
  registry["api"].fallback = Cardinality({c \in Calls :
    decision[c] # None /\ decision[c].by = "fallback"})
===============================================================================
