-------------------------------- MODULE Routes --------------------------------
(***************************************************************************)
(* The routes of internal/http/router.go and what their handlers in        *)
(* internal/lead/controller/http.go answer: for every way a request can    *)
(* end, its status.  Outcome "failed" is an error of Postgres, of Redis or *)
(* of the embedding provider that the service returns.                     *)
(*                                                                         *)
(* What the handlers change is the subject of Idempotency, LeadCache,      *)
(* JobQueue and Scoring.                                                   *)
(***************************************************************************)
EXTENDS Integers

\* The method is checked by the handlers whose pattern names none.
CreateLead == [created |-> 201, replayed |-> 201, method |-> 405, malformed |-> 400,
               unavailable |-> 503, conflict |-> 409, inProgress |-> 409,
               invalid |-> 400, failed |-> 500]

ListLeads == [ok |-> 200, method |-> 405, malformed |-> 400, failed |-> 500]

GetLead == [ok |-> 200, method |-> 405, absent |-> 404, failed |-> 500]

UpdateLeadStatus == [ok |-> 200, malformed |-> 400, absent |-> 404, invalid |-> 400,
                     failed |-> 500]

UpsertLeadEmbedding == [ok |-> 200, absent |-> 404, failed |-> 500]

SimilarLeads == [ok |-> 200, malformed |-> 400, absent |-> 404, failed |-> 500]

ScoreLead == [accepted |-> 202, absent |-> 404, failed |-> 500]

GetLatestLeadScore == [ok |-> 200, absent |-> 404, unscored |-> 404, failed |-> 500]

ListLeadScores == [ok |-> 200, malformed |-> 400, absent |-> 404, failed |-> 500]

\* Any error is a 404.
GetJob == [ok |-> 200, absent |-> 404, failed |-> 404]

Healthz == [ok |-> 200, method |-> 405, failed |-> 503]

Metrics == [ok |-> 200, method |-> 405]

\* WSHub.Handle, once the middleware has checked the token.
Socket == [upgraded |-> 101, unnamed |-> 400]

\* Files of the web UI, with index.html for what is none; no API path.
Static == [ok |-> 200, absent |-> 404]

Answers ==
  [create  |-> CreateLead,         list    |-> ListLeads,
   lead    |-> GetLead,            update  |-> UpdateLeadStatus,
   embed   |-> UpsertLeadEmbedding, similar |-> SimilarLeads,
   score   |-> ScoreLead,          latest  |-> GetLatestLeadScore,
   scores  |-> ListLeadScores,     job     |-> GetJob,
   healthz |-> Healthz,            metrics |-> Metrics,
   socket  |-> Socket,             static  |-> Static]

Route == DOMAIN Answers

Status == {101, 200, 201, 202, 400, 401, 404, 405, 409, 429, 500, 503}

AnswersOf(route) == {Answers[route][o] : o \in DOMAIN Answers[route]}

\* requiresAuth: all of /v1/, and /create-lead.
Guarded(route) == route \notin {"healthz", "metrics", "static"}

\* isExpensivePath: the paths that end in /score, to POST or to GET, and in
\* /embeddings.
Expensive(route) == route \in {"embed", "score", "latest"}

\* metricsMiddleware, and /healthz itself.
Counted(route) == route \notin {"metrics", "socket", "static"}

\* MetricsAccount: an error of the client is an error.
IsServerError(status) == status >= 500

IsError(status) == status >= 400
===============================================================================
