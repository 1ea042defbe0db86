-------------------------- MODULE IdempotencyProofs --------------------------
(***************************************************************************)
(* Proofs about Idempotency for all sets of requests and bodies.           *)
(***************************************************************************)
EXTENDS Idempotency, TLAPS

-------------------------------------------------------------------------------
(* The initial state.                                                      *)

\* At the start the Redis keys are absent and nobody has been answered.
LEMMA InvInit == Init => IInv
<1> SUFFICES ASSUME Init PROVE IInv
  OBVIOUS
<1>1. TypeOK
  <2>1. forgotten \in BOOLEAN
    BY DEF Init
  <2>2. faults \in 0..MaxFaults
    BY BoundsAssumption DEF Init
  <2>3. QED
    BY <2>1, <2>2 DEF Init, TypeOK, Answer, Active
<1>2. KeysAgree /\ HandlerKnows /\ HashKept /\ Protected
  BY DEF Init, KeysAgree, HandlerKnows, HashKept, LetThrough, Active, Protected
<1>3. ReplaySound /\ AnswersAreTrue
  BY DEF Init, ReplaySound, AnswersAreTrue
<1>4. QED
  BY <1>1, <1>2, <1>3 DEF IInv

-------------------------------------------------------------------------------
(* Type correctness.                                                       *)

\* Every step keeps the types, and an active handler its lock unless it lapses.
LEMMA TypeNext == TypeOK /\ [Next]_vars => TypeOK'
<1> SUFFICES ASSUME TypeOK, [Next]_vars PROVE TypeOK'
  OBVIOUS
<1> USE NoneAssumption, BoundsAssumption
    DEF TypeOK, Answer, Active, redis, Goto, Say, Ready, Fault, CallFails, Lapse,
        SameBody, MayAcquire, Acquire, Release
<1>1. ASSUME NEW r \in Requests, BeginConflict(r) PROVE TypeOK'
  BY <1>1 DEF BeginConflict
<1>2. ASSUME NEW r \in Requests, BeginReplay(r) PROVE TypeOK'
  BY <1>2 DEF BeginReplay
<1>3. ASSUME NEW r \in Requests, BeginInProgress(r) PROVE TypeOK'
  BY <1>3 DEF BeginInProgress
<1>4. ASSUME NEW r \in Requests, BeginProceed(r) PROVE TypeOK'
  BY <1>4 DEF BeginProceed
<1>5. ASSUME NEW r \in Requests, BeginError(r) PROVE TypeOK'
  BY <1>5 DEF BeginError
<1>6. ASSUME NEW r \in Requests, BeginReplyLost(r) PROVE TypeOK'
  BY <1>6 DEF BeginReplyLost
<1>7. ASSUME NEW r \in Requests, BeginTwice(r) PROVE TypeOK'
  BY <1>7 DEF BeginTwice
<1>8. ASSUME NEW r \in Requests, Replay(r) PROVE TypeOK'
  BY <1>8 DEF Replay
<1>9. ASSUME NEW r \in Requests, ReplayError(r) PROVE TypeOK'
  BY <1>9 DEF ReplayError
<1>10. ASSUME NEW r \in Requests, CreateOk(r) PROVE TypeOK'
  BY <1>10 DEF CreateOk
<1>11. ASSUME NEW r \in Requests, CreateInvalid(r) PROVE TypeOK'
  BY <1>11 DEF CreateInvalid
<1>12. ASSUME NEW r \in Requests, CreateError(r) PROVE TypeOK'
  BY <1>12 DEF CreateError
<1>13. ASSUME NEW r \in Requests, CreateReplyLost(r) PROVE TypeOK'
  BY <1>13 DEF CreateReplyLost
<1>14. ASSUME NEW r \in Requests, Complete(r) PROVE TypeOK'
  BY <1>14 DEF Complete
<1>15. ASSUME NEW r \in Requests, Abort(r) PROVE TypeOK'
  BY <1>15 DEF Abort
<1>16. ASSUME NEW r \in Requests, EndError(r) PROVE TypeOK'
  BY <1>16 DEF EndError
<1>17. ASSUME NEW r \in Requests, Disconnect(r) PROVE TypeOK'
  BY <1>17 DEF Disconnect
<1>18. ASSUME NEW r \in Requests, Crash(r) PROVE TypeOK'
  BY <1>18 DEF Crash
<1>19. CASE ExpireLock
  BY <1>19 DEF ExpireLock
<1>20. CASE ExpireHash
  BY <1>20 DEF ExpireHash
<1>21. CASE ExpireResponse
  BY <1>21 DEF ExpireResponse
<1>22. CASE UNCHANGED vars
  BY <1>22 DEF vars
<1>23. QED
  BY <1>1, <1>2, <1>3, <1>4, <1>5, <1>6, <1>7, <1>8, <1>9, <1>10,
     <1>11, <1>12, <1>13, <1>14, <1>15, <1>16, <1>17, <1>18, <1>19,
     <1>20, <1>21, <1>22
  DEF Next, Begin, Create, End, Expire

-------------------------------------------------------------------------------
(* The three Redis keys agree with each other.                             *)

\* The scripts write the lock and the hash together, and replace the lock by
\* the response; the hash expires only when there is no lock.
LEMMA KeysNext ==
  TypeOK /\ TypeOK' /\ KeysAgree /\ HandlerKnows /\ [Next]_vars => KeysAgree'
<1> SUFFICES ASSUME TypeOK, TypeOK', KeysAgree, HandlerKnows, [Next]_vars PROVE KeysAgree'
  OBVIOUS
<1> USE NoneAssumption
    DEF TypeOK, Active, redis, Goto, Say, Ready, Lapse, SameBody, MayAcquire, Acquire, Release,
        KeysAgree, HandlerKnows
<1>1. ASSUME NEW r \in Requests, BeginConflict(r) PROVE KeysAgree'
  BY <1>1 DEF BeginConflict
<1>2. ASSUME NEW r \in Requests, BeginReplay(r) PROVE KeysAgree'
  BY <1>2 DEF BeginReplay
<1>3. ASSUME NEW r \in Requests, BeginInProgress(r) PROVE KeysAgree'
  BY <1>3 DEF BeginInProgress
<1>4. ASSUME NEW r \in Requests, BeginProceed(r) PROVE KeysAgree'
  BY <1>4 DEF BeginProceed
<1>5. ASSUME NEW r \in Requests, BeginError(r) PROVE KeysAgree'
  BY <1>5 DEF BeginError
<1>6. ASSUME NEW r \in Requests, BeginReplyLost(r) PROVE KeysAgree'
  BY <1>6 DEF BeginReplyLost
<1>7. ASSUME NEW r \in Requests, BeginTwice(r) PROVE KeysAgree'
  BY <1>7 DEF BeginTwice
<1>8. ASSUME NEW r \in Requests, Replay(r) PROVE KeysAgree'
  BY <1>8 DEF Replay
<1>9. ASSUME NEW r \in Requests, ReplayError(r) PROVE KeysAgree'
  BY <1>9 DEF ReplayError
<1>10. ASSUME NEW r \in Requests, CreateOk(r) PROVE KeysAgree'
  BY <1>10 DEF CreateOk
<1>11. ASSUME NEW r \in Requests, CreateInvalid(r) PROVE KeysAgree'
  BY <1>11 DEF CreateInvalid
<1>12. ASSUME NEW r \in Requests, CreateError(r) PROVE KeysAgree'
  BY <1>12 DEF CreateError
<1>13. ASSUME NEW r \in Requests, CreateReplyLost(r) PROVE KeysAgree'
  BY <1>13 DEF CreateReplyLost
<1>14. ASSUME NEW r \in Requests, Complete(r) PROVE KeysAgree'
  BY <1>14 DEF Complete
<1>15. ASSUME NEW r \in Requests, Abort(r) PROVE KeysAgree'
  BY <1>15 DEF Abort
<1>16. ASSUME NEW r \in Requests, EndError(r) PROVE KeysAgree'
  BY <1>16 DEF EndError
<1>17. ASSUME NEW r \in Requests, Disconnect(r) PROVE KeysAgree'
  BY <1>17 DEF Disconnect
<1>18. ASSUME NEW r \in Requests, Crash(r) PROVE KeysAgree'
  BY <1>18 DEF Crash
<1>19. CASE ExpireLock
  BY <1>19 DEF ExpireLock
<1>20. CASE ExpireHash
  BY <1>20 DEF ExpireHash
<1>21. CASE ExpireResponse
  BY <1>21 DEF ExpireResponse
<1>22. CASE UNCHANGED vars
  BY <1>22 DEF vars
<1>23. QED
  BY <1>1, <1>2, <1>3, <1>4, <1>5, <1>6, <1>7, <1>8, <1>9, <1>10,
     <1>11, <1>12, <1>13, <1>14, <1>15, <1>16, <1>17, <1>18, <1>19,
     <1>20, <1>21, <1>22
  DEF Next, Begin, Create, End, Expire

-------------------------------------------------------------------------------
(* A handler knows whether its lead exists.                                *)

\* A handler learns whether its lead exists from the INSERT alone.
LEMMA HandlerNext ==
  TypeOK /\ TypeOK' /\ KeysAgree /\ HandlerKnows /\ [Next]_vars => HandlerKnows'
<1> SUFFICES ASSUME TypeOK, TypeOK', KeysAgree, HandlerKnows, [Next]_vars PROVE HandlerKnows'
  OBVIOUS
<1> USE NoneAssumption
    DEF TypeOK, Active, redis, Goto, Say, Ready, Lapse, SameBody, MayAcquire, Acquire, Release,
        KeysAgree, HandlerKnows
<1>1. ASSUME NEW r \in Requests, BeginConflict(r) PROVE HandlerKnows'
  BY <1>1 DEF BeginConflict
<1>2. ASSUME NEW r \in Requests, BeginReplay(r) PROVE HandlerKnows'
  BY <1>2 DEF BeginReplay
<1>3. ASSUME NEW r \in Requests, BeginInProgress(r) PROVE HandlerKnows'
  BY <1>3 DEF BeginInProgress
<1>4. ASSUME NEW r \in Requests, BeginProceed(r) PROVE HandlerKnows'
  BY <1>4 DEF BeginProceed
<1>5. ASSUME NEW r \in Requests, BeginError(r) PROVE HandlerKnows'
  BY <1>5 DEF BeginError
<1>6. ASSUME NEW r \in Requests, BeginReplyLost(r) PROVE HandlerKnows'
  BY <1>6 DEF BeginReplyLost
<1>7. ASSUME NEW r \in Requests, BeginTwice(r) PROVE HandlerKnows'
  BY <1>7 DEF BeginTwice
<1>8. ASSUME NEW r \in Requests, Replay(r) PROVE HandlerKnows'
  BY <1>8 DEF Replay
<1>9. ASSUME NEW r \in Requests, ReplayError(r) PROVE HandlerKnows'
  BY <1>9 DEF ReplayError
<1>10. ASSUME NEW r \in Requests, CreateOk(r) PROVE HandlerKnows'
  BY <1>10 DEF CreateOk
<1>11. ASSUME NEW r \in Requests, CreateInvalid(r) PROVE HandlerKnows'
  BY <1>11 DEF CreateInvalid
<1>12. ASSUME NEW r \in Requests, CreateError(r) PROVE HandlerKnows'
  BY <1>12 DEF CreateError
<1>13. ASSUME NEW r \in Requests, CreateReplyLost(r) PROVE HandlerKnows'
  BY <1>13 DEF CreateReplyLost
<1>14. ASSUME NEW r \in Requests, Complete(r) PROVE HandlerKnows'
  BY <1>14 DEF Complete
<1>15. ASSUME NEW r \in Requests, Abort(r) PROVE HandlerKnows'
  BY <1>15 DEF Abort
<1>16. ASSUME NEW r \in Requests, EndError(r) PROVE HandlerKnows'
  BY <1>16 DEF EndError
<1>17. ASSUME NEW r \in Requests, Disconnect(r) PROVE HandlerKnows'
  BY <1>17 DEF Disconnect
<1>18. ASSUME NEW r \in Requests, Crash(r) PROVE HandlerKnows'
  BY <1>18 DEF Crash
<1>19. CASE ExpireLock
  BY <1>19 DEF ExpireLock
<1>20. CASE ExpireHash
  BY <1>20 DEF ExpireHash
<1>21. CASE ExpireResponse
  BY <1>21 DEF ExpireResponse
<1>22. CASE UNCHANGED vars
  BY <1>22 DEF vars
<1>23. QED
  BY <1>1, <1>2, <1>3, <1>4, <1>5, <1>6, <1>7, <1>8, <1>9, <1>10,
     <1>11, <1>12, <1>13, <1>14, <1>15, <1>16, <1>17, <1>18, <1>19,
     <1>20, <1>21, <1>22
  DEF Next, Begin, Create, End, Expire

-------------------------------------------------------------------------------
(* The request hash remembers the body that was let through.               *)

\* A request is let through only by the script that compares and stores its hash,
\* and nothing but its expiry takes the hash away.
LEMMA HashKeptNext ==
  TypeOK /\ KeysAgree /\ HandlerKnows /\ HashKept /\ [Next]_vars => HashKept'
<1> SUFFICES ASSUME TypeOK, KeysAgree, HandlerKnows, HashKept, [Next]_vars PROVE HashKept'
  OBVIOUS
<1> USE NoneAssumption
    DEF TypeOK, Active, redis, Goto, Say, Ready, SameBody, MayAcquire, Acquire, Release,
        KeysAgree, HandlerKnows, HashKept, LetThrough
<1>1. ASSUME NEW r \in Requests, BeginConflict(r) PROVE HashKept'
  BY <1>1 DEF BeginConflict
<1>2. ASSUME NEW r \in Requests, BeginReplay(r) PROVE HashKept'
  BY <1>2 DEF BeginReplay
<1>3. ASSUME NEW r \in Requests, BeginInProgress(r) PROVE HashKept'
  BY <1>3 DEF BeginInProgress
<1>4. ASSUME NEW r \in Requests, BeginProceed(r) PROVE HashKept'
  BY <1>4 DEF BeginProceed
<1>5. ASSUME NEW r \in Requests, BeginError(r) PROVE HashKept'
  BY <1>5 DEF BeginError
<1>6. ASSUME NEW r \in Requests, BeginReplyLost(r) PROVE HashKept'
  BY <1>6 DEF BeginReplyLost
<1>7. ASSUME NEW r \in Requests, BeginTwice(r) PROVE HashKept'
  BY <1>7 DEF BeginTwice
<1>8. ASSUME NEW r \in Requests, Replay(r) PROVE HashKept'
  BY <1>8 DEF Replay
<1>9. ASSUME NEW r \in Requests, ReplayError(r) PROVE HashKept'
  BY <1>9 DEF ReplayError
<1>10. ASSUME NEW r \in Requests, CreateOk(r) PROVE HashKept'
  BY <1>10 DEF CreateOk
<1>11. ASSUME NEW r \in Requests, CreateInvalid(r) PROVE HashKept'
  BY <1>11 DEF CreateInvalid
<1>12. ASSUME NEW r \in Requests, CreateError(r) PROVE HashKept'
  BY <1>12 DEF CreateError
<1>13. ASSUME NEW r \in Requests, CreateReplyLost(r) PROVE HashKept'
  BY <1>13 DEF CreateReplyLost
<1>14. ASSUME NEW r \in Requests, Complete(r) PROVE HashKept'
  BY <1>14 DEF Complete
<1>15. ASSUME NEW r \in Requests, Abort(r) PROVE HashKept'
  BY <1>15 DEF Abort
<1>16. ASSUME NEW r \in Requests, EndError(r) PROVE HashKept'
  BY <1>16 DEF EndError
<1>17. ASSUME NEW r \in Requests, Disconnect(r) PROVE HashKept'
  BY <1>17 DEF Disconnect
<1>18. ASSUME NEW r \in Requests, Crash(r) PROVE HashKept'
  BY <1>18 DEF Crash
<1>19. CASE ExpireLock
  BY <1>19 DEF ExpireLock
<1>20. CASE ExpireHash
  BY <1>20 DEF ExpireHash
<1>21. CASE ExpireResponse
  BY <1>21 DEF ExpireResponse
<1>22. CASE UNCHANGED vars
  BY <1>22 DEF vars
<1>23. QED
  BY <1>1, <1>2, <1>3, <1>4, <1>5, <1>6, <1>7, <1>8, <1>9, <1>10,
     <1>11, <1>12, <1>13, <1>14, <1>15, <1>16, <1>17, <1>18, <1>19,
     <1>20, <1>21, <1>22
  DEF Next, Begin, Create, End, Expire

-------------------------------------------------------------------------------
(* A created lead stays protected.                                         *)

\* Whatever takes the lock or the response of a lead away makes it lapse.
LEMMA ProtectedNext ==
  TypeOK /\ TypeOK' /\ KeysAgree /\ HandlerKnows /\ Protected /\ [Next]_vars => Protected'
<1> SUFFICES ASSUME TypeOK, TypeOK', KeysAgree, HandlerKnows, Protected, [Next]_vars
             PROVE  Protected'
  OBVIOUS
<1> USE NoneAssumption
    DEF TypeOK, Active, redis, Goto, Say, Ready, Lapse, SameBody, MayAcquire, Acquire, Release,
        KeysAgree, HandlerKnows, Protected
<1>1. ASSUME NEW r \in Requests, BeginConflict(r) PROVE Protected'
  BY <1>1 DEF BeginConflict
<1>2. ASSUME NEW r \in Requests, BeginReplay(r) PROVE Protected'
  BY <1>2 DEF BeginReplay
<1>3. ASSUME NEW r \in Requests, BeginInProgress(r) PROVE Protected'
  BY <1>3 DEF BeginInProgress
<1>4. ASSUME NEW r \in Requests, BeginProceed(r) PROVE Protected'
  BY <1>4 DEF BeginProceed
<1>5. ASSUME NEW r \in Requests, BeginError(r) PROVE Protected'
  BY <1>5 DEF BeginError
<1>6. ASSUME NEW r \in Requests, BeginReplyLost(r) PROVE Protected'
  BY <1>6 DEF BeginReplyLost
<1>7. ASSUME NEW r \in Requests, BeginTwice(r) PROVE Protected'
  BY <1>7 DEF BeginTwice
<1>8. ASSUME NEW r \in Requests, Replay(r) PROVE Protected'
  BY <1>8 DEF Replay
<1>9. ASSUME NEW r \in Requests, ReplayError(r) PROVE Protected'
  BY <1>9 DEF ReplayError
<1>10. ASSUME NEW r \in Requests, CreateOk(r) PROVE Protected'
  BY <1>10 DEF CreateOk
<1>11. ASSUME NEW r \in Requests, CreateInvalid(r) PROVE Protected'
  BY <1>11 DEF CreateInvalid
<1>12. ASSUME NEW r \in Requests, CreateError(r) PROVE Protected'
  BY <1>12 DEF CreateError
<1>13. ASSUME NEW r \in Requests, CreateReplyLost(r) PROVE Protected'
  BY <1>13 DEF CreateReplyLost
<1>14. ASSUME NEW r \in Requests, Complete(r) PROVE Protected'
  BY <1>14 DEF Complete
<1>15. ASSUME NEW r \in Requests, Abort(r) PROVE Protected'
  <2>1. CASE lock = r
    BY <1>15, <2>1 DEF Abort
  <2>2. CASE lock # r
    BY <1>15, <2>2 DEF Abort
  <2>3. QED
    BY <2>1, <2>2
<1>16. ASSUME NEW r \in Requests, EndError(r) PROVE Protected'
  BY <1>16 DEF EndError
<1>17. ASSUME NEW r \in Requests, Disconnect(r) PROVE Protected'
  BY <1>17 DEF Disconnect
<1>18. ASSUME NEW r \in Requests, Crash(r) PROVE Protected'
  BY <1>18 DEF Crash
<1>19. CASE ExpireLock
  BY <1>19 DEF ExpireLock
<1>20. CASE ExpireHash
  BY <1>20 DEF ExpireHash
<1>21. CASE ExpireResponse
  BY <1>21 DEF ExpireResponse
<1>22. CASE UNCHANGED vars
  BY <1>22 DEF vars
<1>23. QED
  BY <1>1, <1>2, <1>3, <1>4, <1>5, <1>6, <1>7, <1>8, <1>9, <1>10,
     <1>11, <1>12, <1>13, <1>14, <1>15, <1>16, <1>17, <1>18, <1>19,
     <1>20, <1>21, <1>22
  DEF Next, Begin, Create, End, Expire

-------------------------------------------------------------------------------
(* Answers are true.                                                       *)

\* An answer is given in the step that makes it true, and stays true.
LEMMA AnswersNext ==
  ASSUME TypeOK, TypeOK', KeysAgree, HandlerKnows, ReplaySound, AnswersAreTrue, [Next]_vars
  PROVE  (ReplaySound /\ AnswersAreTrue)'
<1> DEFINE Sound == ReplaySound /\ AnswersAreTrue
<1> USE NoneAssumption
    DEF TypeOK, Active, redis, Goto, Say, Ready, Lapse, SameBody, MayAcquire, Acquire, Release,
        KeysAgree, HandlerKnows, ReplaySound, AnswersAreTrue
<1>1. ASSUME NEW r \in Requests, BeginConflict(r) PROVE Sound'
  BY <1>1 DEF BeginConflict
<1>2. ASSUME NEW r \in Requests, BeginReplay(r) PROVE Sound'
  BY <1>2 DEF BeginReplay
<1>3. ASSUME NEW r \in Requests, BeginInProgress(r) PROVE Sound'
  BY <1>3 DEF BeginInProgress
<1>4. ASSUME NEW r \in Requests, BeginProceed(r) PROVE Sound'
  BY <1>4 DEF BeginProceed
<1>5. ASSUME NEW r \in Requests, BeginError(r) PROVE Sound'
  BY <1>5 DEF BeginError
<1>6. ASSUME NEW r \in Requests, BeginReplyLost(r) PROVE Sound'
  BY <1>6 DEF BeginReplyLost
<1>7. ASSUME NEW r \in Requests, BeginTwice(r) PROVE Sound'
  BY <1>7 DEF BeginTwice
<1>8. ASSUME NEW r \in Requests, Replay(r) PROVE Sound'
  BY <1>8 DEF Replay
<1>9. ASSUME NEW r \in Requests, ReplayError(r) PROVE Sound'
  BY <1>9 DEF ReplayError
<1>10. ASSUME NEW r \in Requests, CreateOk(r) PROVE Sound'
  BY <1>10 DEF CreateOk
<1>11. ASSUME NEW r \in Requests, CreateInvalid(r) PROVE Sound'
  BY <1>11 DEF CreateInvalid
<1>12. ASSUME NEW r \in Requests, CreateError(r) PROVE Sound'
  BY <1>12 DEF CreateError
<1>13. ASSUME NEW r \in Requests, CreateReplyLost(r) PROVE Sound'
  BY <1>13 DEF CreateReplyLost
<1>14. ASSUME NEW r \in Requests, Complete(r) PROVE Sound'
  BY <1>14 DEF Complete
<1>15. ASSUME NEW r \in Requests, Abort(r) PROVE Sound'
  BY <1>15 DEF Abort
<1>16. ASSUME NEW r \in Requests, EndError(r) PROVE Sound'
  BY <1>16 DEF EndError
<1>17. ASSUME NEW r \in Requests, Disconnect(r) PROVE Sound'
  BY <1>17 DEF Disconnect
<1>18. ASSUME NEW r \in Requests, Crash(r) PROVE Sound'
  BY <1>18 DEF Crash
<1>19. CASE ExpireLock
  BY <1>19 DEF ExpireLock
<1>20. CASE ExpireHash
  BY <1>20 DEF ExpireHash
<1>21. CASE ExpireResponse
  BY <1>21 DEF ExpireResponse
<1>22. CASE UNCHANGED vars
  BY <1>22 DEF vars
<1>23. QED
  BY <1>1, <1>2, <1>3, <1>4, <1>5, <1>6, <1>7, <1>8, <1>9, <1>10,
     <1>11, <1>12, <1>13, <1>14, <1>15, <1>16, <1>17, <1>18, <1>19,
     <1>20, <1>21, <1>22
  DEF Next, Begin, Create, End, Expire

-------------------------------------------------------------------------------
(* A step leaves the lock of another request alone.                        *)

\* Every handler step is one of a script that compares the token first.
LEMMA ForeignLockStep ==
  ASSUME TypeOK, KeysAgree, [Next]_vars, NEW q \in Requests, pc'[q] # pc[q]
  PROVE  /\ lock \notin {None, q} => lock' = lock
         /\ response' # response => lock = q
<1> DEFINE Safe == /\ lock \notin {None, q} => lock' = lock
                   /\ response' # response => lock = q
<1> USE NoneAssumption
    DEF TypeOK, Active, redis, Goto, Say, Ready, Lapse, SameBody, MayAcquire, Acquire,
        Release, KeysAgree
<1>1. ASSUME NEW r \in Requests, BeginConflict(r) PROVE Safe
  BY <1>1 DEF BeginConflict
<1>2. ASSUME NEW r \in Requests, BeginReplay(r) PROVE Safe
  BY <1>2 DEF BeginReplay
<1>3. ASSUME NEW r \in Requests, BeginInProgress(r) PROVE Safe
  BY <1>3 DEF BeginInProgress
<1>4. ASSUME NEW r \in Requests, BeginProceed(r) PROVE Safe
  BY <1>4 DEF BeginProceed
<1>5. ASSUME NEW r \in Requests, BeginError(r) PROVE Safe
  BY <1>5 DEF BeginError
<1>6. ASSUME NEW r \in Requests, BeginReplyLost(r) PROVE Safe
  BY <1>6 DEF BeginReplyLost
<1>7. ASSUME NEW r \in Requests, BeginTwice(r) PROVE Safe
  BY <1>7 DEF BeginTwice
<1>8. ASSUME NEW r \in Requests, Replay(r) PROVE Safe
  BY <1>8 DEF Replay
<1>9. ASSUME NEW r \in Requests, ReplayError(r) PROVE Safe
  BY <1>9 DEF ReplayError
<1>10. ASSUME NEW r \in Requests, CreateOk(r) PROVE Safe
  BY <1>10 DEF CreateOk
<1>11. ASSUME NEW r \in Requests, CreateInvalid(r) PROVE Safe
  BY <1>11 DEF CreateInvalid
<1>12. ASSUME NEW r \in Requests, CreateError(r) PROVE Safe
  BY <1>12 DEF CreateError
<1>13. ASSUME NEW r \in Requests, CreateReplyLost(r) PROVE Safe
  BY <1>13 DEF CreateReplyLost
<1>14. ASSUME NEW r \in Requests, Complete(r) PROVE Safe
  BY <1>14 DEF Complete
<1>15. ASSUME NEW r \in Requests, Abort(r) PROVE Safe
  BY <1>15 DEF Abort
<1>16. ASSUME NEW r \in Requests, EndError(r) PROVE Safe
  BY <1>16 DEF EndError
<1>17. ASSUME NEW r \in Requests, Disconnect(r) PROVE Safe
  BY <1>17 DEF Disconnect
<1>18. ASSUME NEW r \in Requests, Crash(r) PROVE Safe
  BY <1>18 DEF Crash
<1>19. CASE ExpireLock
  BY <1>19 DEF ExpireLock
<1>20. CASE ExpireHash
  BY <1>20 DEF ExpireHash
<1>21. CASE ExpireResponse
  BY <1>21 DEF ExpireResponse
<1>22. CASE UNCHANGED vars
  BY <1>22 DEF vars
<1>23. QED
  BY <1>1, <1>2, <1>3, <1>4, <1>5, <1>6, <1>7, <1>8, <1>9, <1>10,
     <1>11, <1>12, <1>13, <1>14, <1>15, <1>16, <1>17, <1>18, <1>19,
     <1>20, <1>21, <1>22
  DEF Next, Begin, Create, End, Expire

-------------------------------------------------------------------------------
(* The refinement of KeyedCreation.                                        *)

\* At the start the key belongs to nobody.
LEMMA PromiseInit == Init => Promise!Init
BY DEF Init, Promise!Init, Holder, Told

\* Each script and each expiry is one step of the holder, or none: Complete, which
\* replaces the lock by the response, changes nothing that a client can tell.
LEMMA PromiseNext ==
  TypeOK /\ KeysAgree /\ HandlerKnows /\ [Next]_vars => [Promise!Next]_(Promise!vars)
<1> SUFFICES ASSUME TypeOK, KeysAgree, HandlerKnows, [Next]_vars
             PROVE  [Promise!Next]_(Promise!vars)
  OBVIOUS
<1> USE NoneAssumption
    DEF TypeOK, Answer, Active, redis, Goto, Say, Ready, Lapse, SameBody, MayAcquire, Acquire,
        Release, KeysAgree, HandlerKnows, Holder, Told
<1> DEFINE Simulated == [Promise!Next]_(Promise!vars)
<1>a. ASSUME NEW r \in Requests,
             \/ Promise!Reserve(r) \/ Promise!Create(r) \/ Promise!CreateUnconfirmed(r)
             \/ Promise!Refuse(r) \/ Promise!Replay(r) \/ Promise!Release(r)
             \/ Promise!Lapse(r) \/ Promise!Silence(r)
      PROVE  Simulated
  BY <1>a DEF Promise!Next
<1>b. ASSUME Holder' = Holder, UNCHANGED <<leads, answer, replayed, lapsed>> PROVE Simulated
  BY <1>b DEF Promise!vars
<1> HIDE DEF Simulated
<1>1. ASSUME NEW r \in Requests, BeginConflict(r) PROVE Simulated
  <2>1. Promise!Refuse(r)
    BY <1>1 DEF BeginConflict, Promise!Refuse, Promise!Tell
  <2>2. QED
    BY <1>a, <2>1
<1>2. ASSUME NEW r \in Requests, BeginReplay(r) PROVE Simulated
  BY <1>2, <1>b DEF BeginReplay
<1>3. ASSUME NEW r \in Requests, BeginInProgress(r) PROVE Simulated
  <2>1. Promise!Refuse(r)
    BY <1>3 DEF BeginInProgress, Promise!Refuse, Promise!Tell
  <2>2. QED
    BY <1>a, <2>1
<1>4. ASSUME NEW r \in Requests, BeginProceed(r) PROVE Simulated
  <2>1. Promise!Reserve(r)
    BY <1>4 DEF BeginProceed, Promise!Reserve, Promise!Tell
  <2>2. QED
    BY <1>a, <2>1
<1>5. ASSUME NEW r \in Requests, BeginError(r) PROVE Simulated
  <2>1. Promise!Refuse(r)
    BY <1>5 DEF BeginError, Promise!Refuse, Promise!Tell
  <2>2. QED
    BY <1>a, <2>1
<1>6. ASSUME NEW r \in Requests, BeginReplyLost(r) PROVE Simulated
  <2>1. Promise!Reserve(r)
    BY <1>6 DEF BeginReplyLost, Promise!Reserve, Promise!Tell
  <2>2. QED
    BY <1>a, <2>1
<1>7. ASSUME NEW r \in Requests, BeginTwice(r) PROVE Simulated
  <2>1. Promise!Reserve(r)
    BY <1>7 DEF BeginTwice, Promise!Reserve, Promise!Tell
  <2>2. QED
    BY <1>a, <2>1
<1>8. ASSUME NEW r \in Requests, Replay(r) PROVE Simulated
  <2>1. CASE response = None
    <3>1. Promise!Refuse(r)
      BY <1>8, <2>1 DEF Replay, Promise!Refuse, Promise!Tell
    <3>2. QED
      BY <1>a, <3>1
  <2>2. CASE response # None
    <3>1. Promise!Replay(r)
      BY <1>8, <2>2 DEF Replay, Promise!Replay, Promise!Tell
    <3>2. QED
      BY <1>a, <3>1
  <2>3. QED
    BY <2>1, <2>2
<1>9. ASSUME NEW r \in Requests, ReplayError(r) PROVE Simulated
  <2>1. Promise!Refuse(r)
    BY <1>9 DEF ReplayError, Promise!Refuse, Promise!Tell
  <2>2. QED
    BY <1>a, <2>1
<1>10. ASSUME NEW r \in Requests, CreateOk(r) PROVE Simulated
  <2>1. Promise!Create(r)
    BY <1>10 DEF CreateOk, Promise!Create, Promise!MayCreate, Promise!Tell
  <2>2. QED
    BY <1>a, <2>1
<1>11. ASSUME NEW r \in Requests, CreateInvalid(r) PROVE Simulated
  <2>1. Promise!Refuse(r)
    BY <1>11 DEF CreateInvalid, Promise!Refuse, Promise!Tell
  <2>2. QED
    BY <1>a, <2>1
<1>12. ASSUME NEW r \in Requests, CreateError(r) PROVE Simulated
  <2>1. Promise!Refuse(r)
    BY <1>12 DEF CreateError, Promise!Refuse, Promise!Tell
  <2>2. QED
    BY <1>a, <2>1
<1>13. ASSUME NEW r \in Requests, CreateReplyLost(r) PROVE Simulated
  <2>1. Promise!CreateUnconfirmed(r)
    BY <1>13 DEF CreateReplyLost, Promise!CreateUnconfirmed, Promise!MayCreate, Promise!Tell
  <2>2. QED
    BY <1>a, <2>1
<1>14. ASSUME NEW r \in Requests, Complete(r) PROVE Simulated
  BY <1>14, <1>b DEF Complete
<1>15. ASSUME NEW r \in Requests, Abort(r) PROVE Simulated
  <2>1. CASE lock = r
    <3>1. Promise!Release(r)
      BY <1>15, <2>1 DEF Abort, Promise!Release
    <3>2. QED
      BY <1>a, <3>1
  <2>2. CASE lock # r
    BY <1>15, <1>b, <2>2 DEF Abort
  <2>3. QED
    BY <2>1, <2>2
<1>16. ASSUME NEW r \in Requests, EndError(r) PROVE Simulated
  BY <1>16, <1>b DEF EndError
<1>17. ASSUME NEW r \in Requests, Disconnect(r) PROVE Simulated
  BY <1>17, <1>b DEF Disconnect
<1>18. ASSUME NEW r \in Requests, Crash(r) PROVE Simulated
  <2>1. Promise!Silence(r)
    BY <1>18 DEF Crash, Promise!Silence
  <2>2. QED
    BY <1>a, <2>1
<1>19. ASSUME ExpireLock PROVE Simulated
  <2>1. PICK r \in Requests : lock = r
    BY <1>19 DEF ExpireLock
  <2>2. Promise!Lapse(r)
    BY <1>19, <2>1 DEF ExpireLock, Promise!Lapse
  <2>3. QED
    BY <1>a, <2>2
<1>20. ASSUME ExpireHash PROVE Simulated
  BY <1>20, <1>b DEF ExpireHash
<1>21. ASSUME ExpireResponse PROVE Simulated
  <2>1. PICK r \in Requests : response = r
    BY <1>21 DEF ExpireResponse
  <2>2. Promise!Lapse(r)
    BY <1>21, <2>1 DEF ExpireResponse, Promise!Lapse
  <2>3. QED
    BY <1>a, <2>2
<1>22. ASSUME UNCHANGED vars PROVE Simulated
  BY <1>22, <1>b DEF vars
<1>23. QED
  BY <1>1, <1>2, <1>3, <1>4, <1>5, <1>6, <1>7, <1>8, <1>9, <1>10,
     <1>11, <1>12, <1>13, <1>14, <1>15, <1>16, <1>17, <1>18, <1>19,
     <1>20, <1>21, <1>22
  DEF Simulated, Next, Begin, Create, End, Expire

-------------------------------------------------------------------------------
(* The theorems.                                                           *)

\* What a retry can rely on, and the agreement of the keys it rests on, are
\* inductive together.
THEOREM InductiveInvariant == Spec => []IInv
<1>1. IInv /\ [Next]_vars => IInv'
  BY TypeNext, KeysNext, HandlerNext, HashKeptNext, ProtectedNext, AnswersNext DEF IInv
<1>2. QED
  BY InvInit, <1>1, PTL DEF Spec

\* TypeOK for every instance: a handler past Begin holds the lock or has lapsed.
THEOREM TypeCorrect == Spec => []TypeOK
BY InductiveInvariant, PTL DEF IInv

\* Two leads for one key need a lapse: a lock or response that expired, or an
\* INSERT whose reply was lost.
THEOREM ProtectedHolds == Spec => []Protected
BY InductiveInvariant, PTL DEF IInv

\* A replay shows an existing lead, of the same body while the hash is kept.
THEOREM ReplaySoundHolds == Spec => []ReplaySound
BY InductiveInvariant, PTL DEF IInv

\* The answer says whether there is a lead, unless the request lapsed.
THEOREM AnswersAreTrueHolds == Spec => []AnswersAreTrue
BY InductiveInvariant, PTL DEF IInv

\* The lock and the response always belong to the stored body.
THEOREM ResponseMatchesHashHolds == Spec => []ResponseMatchesHash
<1>1. IInv => ResponseMatchesHash
  BY DEF IInv, TypeOK, KeysAgree, ResponseMatchesHash
<1>2. QED
  BY <1>1, InductiveInvariant, PTL

\* A handler whose lock has expired releases or completes nobody else's.
THEOREM ForeignLockSafeHolds == Spec => ForeignLockSafe
<1>1. IInv /\ [Next]_vars
        => [\A r \in Requests : pc'[r] # pc[r] =>
             /\ lock \notin {None, r} => lock' = lock
             /\ response' # response => lock = r]_vars
  BY ForeignLockStep DEF IInv
<1>2. QED
  BY <1>1, InductiveInvariant, PTL DEF Spec, ForeignLockSafe

\* Only one body is let through until the request hash expires, whatever became of
\* the request that brought it.
THEOREM OneBodyPerKeyHolds == Spec => []OneBodyPerKey
<1>1. IInv => OneBodyPerKey
  BY DEF IInv, HashKept, OneBodyPerKey
<1>2. QED
  BY <1>1, InductiveInvariant, PTL

\* Every behaviour of the three Redis keys and their handlers is one of a key with a
\* single holder, which keeps it once it has created its lead.
THEOREM Refinement == Spec => ImplementsKeyedCreation
<1>1. IInv /\ [Next]_vars => [Promise!Next]_(Promise!vars)
  BY PromiseNext DEF IInv
<1>2. QED
  BY PromiseInit, <1>1, InductiveInvariant, PTL DEF Spec, ImplementsKeyedCreation, Promise!Spec
===============================================================================
