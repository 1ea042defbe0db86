------------------------------ MODULE Idempotency -----------------------------
(***************************************************************************)
(* POST /v1/leads with an Idempotency-Key: LeadHandler.CreateLead in       *)
(* internal/lead/controller/http.go and the three Redis scripts of         *)
(* internal/platform/idempotency/store.go, for the requests that carry one *)
(* key (other keys touch other Redis keys).  A lead, a token and an answer *)
(* are named by the request they come from.                                *)
(*                                                                         *)
(* The scripts are atomic; the handler is not, and three things interrupt  *)
(* it.  The client goes away, which cancels the context of every call that *)
(* is left; a call or the process fails (at most MaxFaults times); and     *)
(* Redis forgets: the lock after 2 minutes, the other keys after 24 hours. *)
(* lapsed collects the requests whose protection ended in such a way.      *)
(***************************************************************************)
EXTENDS Naturals, FiniteSets

CONSTANTS
  Requests,        \* HTTP requests, retries included, with this key
  Bodies,          \* request bodies, told apart by their hash
  Invalid,         \* bodies that CreateLead refuses
  None,            \* no value
  MaxFaults,       \* bound: failed calls and killed processes
  MaxDisconnects,  \* bound: clients that go away
  SlowHandlers     \* whether a handler may run longer than the lock's 2 minutes

ASSUME InvalidAssumption == Invalid \subseteq Bodies
ASSUME NoneAssumption    == None \notin Requests \cup Bodies
ASSUME BoundsAssumption  == MaxFaults \in Nat /\ MaxDisconnects \in Nat
ASSUME SlowAssumption    == SlowHandlers \in BOOLEAN

VARIABLES
  body,       \* the body of each request
  hash,       \* Redis :request-hash
  response,   \* Redis :response, the request whose lead it holds
  lock,       \* Redis :lock, the request whose token it holds
  pc,         \* where each handler is
  answer,     \* what the handler answers
  replayed,   \* the lead in a replayed answer
  leads,      \* requests that have inserted a row in leads
  gone,       \* requests whose context is cancelled
  lapsed,     \* requests whose protection ended
  forgotten,  \* whether the request hash has ever expired
  faults      \* faults spent

vars == <<body, hash, response, lock, pc, answer, replayed, leads, gone,
          lapsed, forgotten, faults>>

redis == <<hash, response, lock>>

Answer == {"none", "created", "replay", "conflict", "inProgress",
           "unavailable", "invalid", "failed"}

Init ==
  /\ body \in [Requests -> Bodies]
  /\ hash = None /\ response = None /\ lock = None
  /\ pc = [r \in Requests |-> "idle"]
  /\ answer = [r \in Requests |-> "none"]
  /\ replayed = [r \in Requests |-> None]
  /\ leads = {} /\ gone = {} /\ lapsed = {} /\ forgotten = FALSE
  /\ faults = 0

Goto(r, from, to) ==
  /\ pc[r] = from
  /\ pc' = [pc EXCEPT ![r] = to]
  /\ UNCHANGED <<body, gone, forgotten>>

Active(r) == pc[r] \in {"creating", "completing", "aborting"}

Say(r, a) == answer' = [answer EXCEPT ![r] = a]

Ready(r) == r \notin gone /\ UNCHANGED faults

Fault == faults < MaxFaults /\ faults' = faults + 1

\* A call of r is refused: for free once its client has gone away.
CallFails(r) == IF r \in gone THEN UNCHANGED faults ELSE Fault

Lapse(r) == lapsed' = lapsed \cup {r}

-------------------------------------------------------------------------------
(* Mistakes that would be easy to make in this code.  No behaviour of Spec *)
(* uses them: each breaks the property named beside it.                    *)

\* TypeOK: the lock is taken with SET instead of SET NX.
MayAcquireHeld(r) == hash \in {None, body[r]} /\ response = None

\* Protected: the script does not look for a response.
MayAcquireAnswered(r) == hash \in {None, body[r]} /\ lock = None

\* ReplaySound: the stored hash is not compared.
AcceptsAnyBody(r) == TRUE

\* ForeignLockSafe: DEL without comparing the token.
ReleaseAny(r) == lock' = None

\* ResponseMatchesHash: the token is not compared by completeScript either.
CompleteAny(r) ==
  /\ Goto(r, "completing", "done")
  /\ Ready(r)
  /\ response' = r /\ lock' = None
  /\ UNCHANGED <<hash, answer, replayed, leads, lapsed>>

\* AnswersAreTrue: the answer is decided before the INSERT returns.
CreateErrorSaysCreated(r) ==
  /\ Goto(r, "creating", "aborting")
  /\ body[r] \notin Invalid
  /\ CallFails(r)
  /\ Say(r, "created")
  /\ UNCHANGED <<redis, replayed, leads, lapsed>>

\* OneBodyPerKey: abortScript deletes the request hash as well.
AbortForgets(r) ==
  /\ Goto(r, "aborting", "done")
  /\ Ready(r)
  /\ lock' = (IF lock = r THEN None ELSE lock)
  /\ hash' = (IF lock = r THEN None ELSE hash)
  /\ UNCHANGED <<response, answer, replayed, leads, lapsed>>

\* ImplementsKeyedCreation: abortScript deletes the response as well.
AbortClears(r) ==
  /\ Goto(r, "aborting", "done")
  /\ Ready(r)
  /\ lock' = (IF lock = r THEN None ELSE lock)
  /\ response' = None
  /\ UNCHANGED <<hash, answer, replayed, leads, lapsed>>

-------------------------------------------------------------------------------
(* Store.Begin.                                                            *)

SameBody(r) == hash \in {None, body[r]}

MayAcquire(r) == SameBody(r) /\ response = None /\ lock = None

Acquire(r) ==
  /\ lock' = r
  /\ hash' = body[r]
  /\ UNCHANGED response

BeginConflict(r) ==
  /\ Goto(r, "idle", "done")
  /\ ~SameBody(r)
  /\ Ready(r) /\ Say(r, "conflict")
  /\ UNCHANGED <<redis, replayed, leads, lapsed>>

\* The script returns 1; the response is read by a second command.
BeginReplay(r) ==
  /\ Goto(r, "idle", "replaying")
  /\ SameBody(r) /\ response # None
  /\ Ready(r)
  /\ UNCHANGED <<redis, answer, replayed, leads, lapsed>>

BeginInProgress(r) ==
  /\ Goto(r, "idle", "done")
  /\ SameBody(r) /\ response = None /\ lock # None
  /\ Ready(r) /\ Say(r, "inProgress")
  /\ UNCHANGED <<redis, replayed, leads, lapsed>>

BeginProceed(r) ==
  /\ Goto(r, "idle", "creating")
  /\ MayAcquire(r) /\ Acquire(r)
  /\ Ready(r)
  /\ UNCHANGED <<answer, replayed, leads, lapsed>>

\* The script does not run: 503.
BeginError(r) ==
  /\ Goto(r, "idle", "done")
  /\ CallFails(r) /\ Say(r, "unavailable")
  /\ UNCHANGED <<redis, replayed, leads, lapsed>>

\* The script takes the lock and its reply is lost: 503, and nobody knows the
\* token.
BeginReplyLost(r) ==
  /\ Goto(r, "idle", "done")
  /\ MayAcquire(r) /\ Acquire(r)
  /\ CallFails(r) /\ Say(r, "unavailable")
  /\ UNCHANGED <<replayed, leads, lapsed>>

\* The client repeats a script whose reply it did not get: the second run is
\* locked out by the first one.
BeginTwice(r) ==
  /\ Goto(r, "idle", "done")
  /\ MayAcquire(r) /\ Acquire(r)
  /\ r \notin gone /\ Fault /\ Say(r, "inProgress")
  /\ UNCHANGED <<replayed, leads, lapsed>>

\* GET of the response, which may have expired since: 503.
Replay(r) ==
  /\ Goto(r, "replaying", "done")
  /\ Ready(r)
  /\ replayed' = [replayed EXCEPT ![r] = response]
  /\ Say(r, IF response = None THEN "unavailable" ELSE "replay")
  /\ UNCHANGED <<redis, leads, lapsed>>

ReplayError(r) ==
  /\ Goto(r, "replaying", "done")
  /\ CallFails(r) /\ Say(r, "unavailable")
  /\ UNCHANGED <<redis, replayed, leads, lapsed>>

-------------------------------------------------------------------------------
(* service.CreateLead, Complete and Abort.                                 *)

CreateOk(r) ==
  /\ Goto(r, "creating", "completing")
  /\ body[r] \notin Invalid
  /\ Ready(r) /\ Say(r, "created")
  /\ leads' = leads \cup {r}
  /\ UNCHANGED <<redis, replayed, lapsed>>

CreateInvalid(r) ==
  /\ Goto(r, "creating", "aborting")
  /\ body[r] \in Invalid
  /\ Say(r, "invalid")
  /\ UNCHANGED <<redis, replayed, leads, lapsed, faults>>

CreateError(r) ==
  /\ Goto(r, "creating", "aborting")
  /\ body[r] \notin Invalid
  /\ CallFails(r) /\ Say(r, "failed")
  /\ UNCHANGED <<redis, replayed, leads, lapsed>>

\* The INSERT commits and the handler sees an error.
CreateReplyLost(r) ==
  /\ Goto(r, "creating", "aborting")
  /\ body[r] \notin Invalid
  /\ CallFails(r) /\ Say(r, "failed")
  /\ leads' = leads \cup {r} /\ Lapse(r)
  /\ UNCHANGED <<redis, replayed>>

\* completeScript: nothing happens unless the lock still holds the token, and
\* the handler does not look at the result.
Complete(r) ==
  /\ Goto(r, "completing", "done")
  /\ Ready(r)
  /\ IF lock = r THEN response' = r /\ lock' = None
                 ELSE UNCHANGED <<response, lock>>
  /\ UNCHANGED <<hash, answer, replayed, leads, lapsed>>

\* abortScript: the lock goes, the request hash stays.
Release(r) == lock' = IF lock = r THEN None ELSE lock

Abort(r) ==
  /\ Goto(r, "aborting", "done")
  /\ Ready(r)
  /\ Release(r)
  /\ UNCHANGED <<hash, response, answer, replayed, leads, lapsed>>

\* Complete or Abort fails: logged at most, and the answer stands.
EndError(r) ==
  /\ Goto(r, "completing", "done") \/ Goto(r, "aborting", "done")
  /\ CallFails(r)
  /\ UNCHANGED <<redis, answer, replayed, leads, lapsed>>

-------------------------------------------------------------------------------
(* The environment.                                                        *)

\* The client goes away: net/http cancels the request's context.
Disconnect(r) ==
  /\ Cardinality(gone) < MaxDisconnects
  /\ r \notin gone /\ pc[r] # "done"
  /\ gone' = gone \cup {r}
  /\ UNCHANGED <<body, redis, pc, answer, replayed, leads, lapsed, forgotten,
                 faults>>

\* The API process is killed.
Crash(r) ==
  /\ pc[r] \notin {"idle", "done"}
  /\ pc' = [pc EXCEPT ![r] = "done"]
  /\ Fault /\ Say(r, "none")
  /\ UNCHANGED <<body, redis, replayed, leads, gone, lapsed, forgotten>>

\* lockTTL: the holder never comes back, or it is slow.
ExpireLock ==
  /\ lock # None
  /\ ~Active(lock) \/ SlowHandlers
  /\ lock' = None /\ Lapse(lock)
  /\ UNCHANGED <<body, hash, response, pc, answer, replayed, leads, gone,
                 forgotten, faults>>

\* resultTTL of the hash, which is set together with the lock.
ExpireHash ==
  /\ hash # None /\ lock = None
  /\ hash' = None /\ forgotten' = TRUE
  /\ UNCHANGED <<body, response, lock, pc, answer, replayed, leads, gone, lapsed,
                 faults>>

\* resultTTL of the response, set after the hash and for as long.
ExpireResponse ==
  /\ response # None /\ hash = None
  /\ response' = None /\ Lapse(response)
  /\ UNCHANGED <<body, hash, lock, pc, answer, replayed, leads, gone, forgotten,
                 faults>>

-------------------------------------------------------------------------------
Begin(r) ==
  \/ BeginConflict(r) \/ BeginReplay(r) \/ BeginInProgress(r) \/ BeginProceed(r)
  \/ BeginError(r) \/ BeginReplyLost(r) \/ BeginTwice(r)

Create(r) ==
  \/ CreateOk(r) \/ CreateInvalid(r) \/ CreateError(r) \/ CreateReplyLost(r)

End(r) == Replay(r) \/ ReplayError(r) \/ Complete(r) \/ Abort(r) \/ EndError(r)

Expire == ExpireLock \/ ExpireHash \/ ExpireResponse

Next ==
  \/ \E r \in Requests :
       Begin(r) \/ Create(r) \/ End(r) \/ Disconnect(r) \/ Crash(r)
  \/ Expire

Spec == Init /\ [][Next]_vars

-------------------------------------------------------------------------------
(* Properties.                                                             *)

\* The type of every variable.  A handler between Begin and the end of its
\* request that has not lapsed holds the lock: Begin returned StatusProceed.
TypeOK ==
  /\ body \in [Requests -> Bodies]
  /\ hash \in Bodies \cup {None}
  /\ {response, lock} \subseteq Requests \cup {None}
  /\ pc \in [Requests -> {"idle", "replaying", "creating", "completing",
                          "aborting", "done"}]
  /\ answer \in [Requests -> Answer]
  /\ replayed \in [Requests -> Requests \cup {None}]
  /\ leads \subseteq Requests /\ gone \subseteq Requests
  /\ lapsed \subseteq Requests
  /\ forgotten \in BOOLEAN /\ faults \in 0..MaxFaults
  /\ \A r \in Requests : Active(r) => lock = r \/ r \in lapsed

\* A lead that has been created stays protected against a retry of its
\* request, by the lock or by the stored response, until its protection lapses.
\* Hence two leads for one key need a lapse.
Protected ==
  /\ \A r \in leads \ lapsed : lock = r \/ response = r
  /\ \A r, s \in leads \ lapsed : r = s

\* While a hash is stored, the lock and the response belong to that body:
\* a slow handler that lost its lock cannot store its response.
ResponseMatchesHash ==
  hash # None => \A r \in {lock, response} \ {None} : body[r] = hash

\* A replay returns a lead that exists, created from the body that is sent
\* again unless the request hash has expired in the meantime.
ReplaySound ==
  \A r \in Requests : answer[r] = "replay" =>
    /\ replayed[r] \in leads
    /\ body[replayed[r]] = body[r] \/ forgotten

\* 201 is only said of a lead that is in the database; of an error, the
\* client may conclude that there is no lead unless the request lapsed.
AnswersAreTrue ==
  \A r \in Requests :
    /\ answer[r] = "created" => r \in leads
    /\ answer[r] \in {"invalid", "failed", "conflict", "inProgress", "unavailable"}
         => r \notin leads \/ r \in lapsed

\* A handler's step leaves the lock of another request alone, and stores a
\* response only under its own lock.
ForeignLockSafe ==
  [][\A r \in Requests : pc'[r] # pc[r] =>
       /\ lock \notin {None, r} => lock' = lock
       /\ response' # response => lock = r]_vars

\* Until the request hash expires, every request that was let through to the
\* service sent one and the same body: Abort keeps the hash, so that a client
\* whose body was refused cannot correct it under the same key.
LetThrough(r) == Active(r) \/ answer[r] \in {"created", "invalid", "failed"}

OneBodyPerKey ==
  ~forgotten =>
    \A r, s \in Requests : LetThrough(r) /\ LetThrough(s) => body[r] = body[s]

\* The lock and then the response stand for the holder of the key, whatever
\* expires, fails or arrives late in between; a client tells 201, a replay and
\* errors apart.
Holder == IF lock # None THEN lock ELSE response

Told(a) == IF a \in {"none", "created", "replay"} THEN a ELSE "error"

Promise == INSTANCE KeyedCreation
  WITH holder <- Holder, told <- [r \in Requests |-> Told(answer[r])]

ImplementsKeyedCreation == Promise!Spec

\* What the proofs are by induction on: the properties above, with what ties
\* the Redis keys to each other and each handler to its lead.
KeysAgree ==
  /\ lock = None \/ response = None
  /\ lock # None => hash = body[lock]
  /\ response # None => response \in leads /\ hash \in {None, body[response]}
  /\ response # None /\ ~forgotten => hash # None

HandlerKnows ==
  \A r \in Requests :
    /\ pc[r] \in {"idle", "replaying", "creating"} => r \notin leads /\ answer[r] = "none"
    /\ pc[r] = "completing" => r \in leads /\ answer[r] = "created"
    /\ pc[r] = "aborting" => r \notin leads \/ r \in lapsed
    /\ pc[r] = "replaying" /\ ~forgotten => hash = body[r]
    /\ pc[r] # "done" => replayed[r] = None

HashKept == ~forgotten => \A r \in Requests : LetThrough(r) => hash = body[r]

IInv ==
  /\ TypeOK /\ KeysAgree /\ HandlerKnows /\ HashKept
  /\ Protected /\ ReplaySound /\ AnswersAreTrue

\* docs/architecture.md:48 "atomic Redis Lua for create-lead retries": as
\* long as nothing that is kept for 24 hours has expired, the requests with
\* one key create one lead.
AtMostOneLead == ~forgotten => Cardinality(leads) <= 1
===============================================================================
