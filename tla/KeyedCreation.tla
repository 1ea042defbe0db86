----------------------------- MODULE KeyedCreation -----------------------------
(***************************************************************************)
(* What a client of POST /v1/leads may rely on when it sends an            *)
(* Idempotency-Key, with no Redis and no failing calls in sight: the key   *)
(* belongs to one request at a time, only its holder creates a lead, and   *)
(* the holder that has created one keeps the key, for replays, until its   *)
(* protection lapses.  A request that has lapsed has no key to rely on.    *)
(*                                                                         *)
(* Idempotency is shown to implement it: two Redis keys, a lock and then a *)
(* response, stand for the one holder.                                     *)
(***************************************************************************)

CONSTANTS
  Requests,  \* requests with one key
  None       \* nobody

VARIABLES
  holder,    \* the request the key belongs to
  leads,     \* requests that have created a lead
  told,      \* what each client was told: "none", "created", "replay", "error"
  replayed,  \* the lead a replay has shown
  lapsed     \* requests whose protection ended

vars == <<holder, leads, told, replayed, lapsed>>

Init ==
  /\ holder = None
  /\ leads = {}
  /\ told = [r \in Requests |-> "none"]
  /\ replayed = [r \in Requests |-> None]
  /\ lapsed = {}

Tell(r, what) ==
  /\ told[r] = "none"
  /\ told' = [told EXCEPT ![r] = what]

\* The client may not hear that the key is now its own.
Reserve(r) ==
  /\ holder = None /\ r \notin leads /\ told[r] = "none"
  /\ holder' = r
  /\ UNCHANGED told \/ Tell(r, "error")
  /\ UNCHANGED <<leads, replayed, lapsed>>

MayCreate(r) == r \notin leads /\ (holder = r \/ r \in lapsed)

Create(r) ==
  /\ MayCreate(r)
  /\ leads' = leads \cup {r}
  /\ Tell(r, "created")
  /\ UNCHANGED <<holder, replayed, lapsed>>

\* The lead is there and the client hears of an error.
CreateUnconfirmed(r) ==
  /\ MayCreate(r)
  /\ leads' = leads \cup {r}
  /\ Tell(r, "error")
  /\ lapsed' = lapsed \cup {r}
  /\ UNCHANGED <<holder, replayed>>

\* An error of any kind: there is no lead of this request.
Refuse(r) ==
  /\ r \notin leads
  /\ Tell(r, "error")
  /\ UNCHANGED <<holder, leads, replayed, lapsed>>

\* The lead of the holder is shown again.
Replay(r) ==
  /\ holder \in leads /\ r \notin leads
  /\ replayed' = [replayed EXCEPT ![r] = holder]
  /\ Tell(r, "replay")
  /\ UNCHANGED <<holder, leads, lapsed>>

\* Who has created a lead does not give the key back.
Release(r) ==
  /\ holder = r /\ (r \notin leads \/ r \in lapsed)
  /\ holder' = None
  /\ UNCHANGED <<leads, told, replayed, lapsed>>

\* The key is taken from its holder.
Lapse(r) ==
  /\ holder = r
  /\ holder' = None
  /\ lapsed' = lapsed \cup {r}
  /\ UNCHANGED <<leads, told, replayed>>

\* The server dies before the answer has left it.
Silence(r) ==
  /\ told' = [told EXCEPT ![r] = "none"]
  /\ UNCHANGED <<holder, leads, replayed, lapsed>>

Next ==
  \E r \in Requests :
    \/ Reserve(r) \/ Create(r) \/ CreateUnconfirmed(r) \/ Refuse(r)
    \/ Replay(r) \/ Release(r) \/ Lapse(r) \/ Silence(r)

Spec == Init /\ [][Next]_vars
===============================================================================
