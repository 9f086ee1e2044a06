-------------------------- MODULE SourceSync_proofs --------------------------
(***************************************************************************)
(* Proofs about SourceSync, for every set of items, every chunk size and   *)
(* retry policy, and every bound.                                          *)
(***************************************************************************)
EXTENDS SourceSync, FiniteSetTheorems, TLAPS

\* The Boolean variables, whose typing Zenon sees and SMT does not.
Flags == /\ paused \in BOOLEAN /\ syncRequested \in BOOLEAN /\ credOk \in BOOLEAN
         /\ asked \in BOOLEAN /\ catchUpOwed \in BOOLEAN /\ authStop \in BOOLEAN

USE SourceSyncConstants DEF SourceSyncConstants

\* The first execution starts from a well typed state.
LEMMA InitTyped == Init => TypeOK
  <1> SUFFICES ASSUME Init PROVE TypeOK
    OBVIOUS
  <1>1. Flags
    BY Zenon DEF Init, Flags
  <1>2. QED
    BY <1>1 DEF Init, Flags, TypeOK, Running, Version, Write, NoVersions

\* A page leaves out only what the run has not listed yet.
LEMMA PageTyped ==
    ASSUME NEW listed, NEW out \in LeftOut(listed) PROVE out \subseteq unlisted \ listed
  BY DEF LeftOut

\* Every state of the workflow, its activities and the world is well typed;
\* in particular the interval stays positive whatever set_interval is sent.
THEOREM TypeCorrect == Spec => []TypeOK
  <1> USE DEF TypeOK, Running, Version, Write, NoVersions, Scope
  <1>1. Init => TypeOK
    BY InitTyped
  <1>2. TypeOK /\ [Next]_vars => TypeOK'
    <2> SUFFICES ASSUME TypeOK, [Next]_vars PROVE TypeOK'
      OBVIOUS
    <2> USE DEF locals, act, mirror, budget, promises
    <2>1. CASE Park
      BY <2>1 DEF Park, Woken
    <2>2. CASE Unpark
      BY <2>2 DEF Unpark
    <2>3. CASE StartRun
      <3>1. Flags'
        BY <2>3, Zenon DEF StartRun, Flags
      <3>2. QED
        BY <2>3, <3>1 DEF StartRun, Flags
    <2>4. CASE ContinueAsNew
      BY <2>4 DEF ContinueAsNew, CarriedItems, CarriedRequest
    <2>5. CASE ActivityReturned
      <3>1. CASE SyncChunk(page)
        BY <3>1 DEF SyncChunk, Chunks, Rest, ExecuteActivity
      <3>2. CASE FetchNextPage(page)
        BY <3>2 DEF FetchNextPage, ExecuteActivity
      <3>3. CASE Succeed(page)
        BY <3>3 DEF Succeed, EndRun, IsAuthFailure
      <3>4. QED
        BY <2>5, <3>1, <3>2, <3>3 DEF ActivityReturned
    <2>6. CASE ActivityFailed
      BY <2>6 DEF ActivityFailed, EndRun, IsAuthFailure
    <2>7. CASE FetchPage
      BY <2>7, PageTyped DEF FetchPage, Attempting
    <2>8. CASE FetchFault
      BY <2>8 DEF FetchFault, Attempting, Fault
    <2>9. CASE SyncRecords
      BY <2>9 DEF SyncRecords, Attempting, Upsert
    <2>10. CASE SyncFault
      BY <2>10 DEF SyncFault, Attempting, Upsert, Fault
    <2>11. CASE SyncRejected
      BY <2>11 DEF SyncRejected, Attempting, Upsert
    <2>12. CASE Signal
      <3> USE DEF SendSignal
      <3>1. ASSUME NEW items \in SUBSET Item, SyncNow(items) PROVE TypeOK'
        <4>1. Flags'
          BY <3>1, Zenon DEF SyncNow, Flags
        <4>2. QED
          BY <3>1, <4>1 DEF SyncNow, Flags
      <3>2. ASSUME NEW m \in Minutes, SetInterval(m) PROVE TypeOK'
        BY <3>2 DEF SetInterval, Clamped
      <3>3. CASE Pause
        BY <3>3 DEF Pause
      <3>4. CASE Resume
        <4>1. Flags'
          BY <3>4, Zenon DEF Resume, Flags
        <4>2. QED
          BY <3>4, <4>1 DEF Resume, Flags
      <3>5. QED
        BY <2>12, <3>1, <3>2, <3>3, <3>4 DEF Signal
    <2>13. CASE World
      <3>1. CASE Revoke
        <4>1. Flags'
          BY <3>1, Zenon DEF Revoke, Flags
        <4>2. QED
          BY <3>1, <4>1 DEF Revoke, Flags
      <3>2. CASE Reauthorize
        BY <3>2 DEF Reauthorize
      <3>3. ASSUME NEW i \in Item, Edit(i) PROVE TypeOK'
        BY <3>3 DEF Edit, M!Edit
      <3>4. QED
        BY <2>13, <3>1, <3>2, <3>3 DEF World
    <2>14. CASE UNCHANGED vars
      BY <2>14 DEF vars
    <2>15. ASSUME NEW w \in late, LateWrite(w) \/ LateLoss(w) PROVE TypeOK'
      BY <2>15 DEF LateWrite, LateLoss
    <2>16. QED
      BY <2>1, <2>2, <2>3, <2>4, <2>5, <2>6, <2>7, <2>8, <2>9, <2>10, <2>11, <2>12,
         <2>13, <2>14, <2>15 DEF Next, Workflow, Attempts, Late
  <1>3. QED
    BY <1>1, <1>2, PTL DEF Spec

-----------------------------------------------------------------------------
\* What a page leaves out has been edited, or stands in no order, or is more than
\* a targeted fetch returns.
LEMMA LeftOutPassedOver ==
    ASSUME IInv, NEW listed \in SUBSET unlisted, NEW out \in LeftOut(listed), NEW i \in out,
           pc \in Running
    PROVE  IF onlyItems = {} THEN KeepsOrder => base[i] < source[i]
                             ELSE Cardinality(onlyItems) > AskLimit
  <1> USE DEF IInv, TypeOK, LeftOut
  <1>1. CASE onlyItems = {}
    BY <1>1 DEF Held, Version
  <1>2. CASE onlyItems # {}
    <2>1. /\ Cardinality(listed) >= AskLimit
          /\ i \notin listed /\ i \in onlyItems /\ listed \in SUBSET onlyItems
      BY <1>2 DEF Progress, Scope
    <2>2. IsFiniteSet(onlyItems)
      BY FS_Subset
    <2>3. /\ Cardinality(listed) <= Cardinality(onlyItems)
          /\ Cardinality(onlyItems) # Cardinality(listed)
      BY <2>1, <2>2, FS_Subset, Zenon
    <2>4. /\ Cardinality(onlyItems) \in Nat /\ Cardinality(listed) \in Nat
      BY <2>1, <2>2, FS_Subset, FS_CardinalityType
    <2>5. QED
      BY <1>2, <2>1, <2>3, <2>4
  <1>3. QED
    BY <1>1, <1>2

\* Between the source, what the worker holds and the destination nothing is out
\* of order, and what a run has behind it is up to date.
THEOREM InvariantHolds == Spec => []IInv
  <1> USE DEF IInv, M!InBounds, M!LateInBounds, Tidy, Held, Progress, UpToDate, PassedOver
  <1>1. Init => IInv
    <2> SUFFICES ASSUME Init PROVE IInv
      OBVIOUS
    <2>1. TypeOK
      BY InitTyped
    <2>2. QED
      BY <2>1 DEF Init, TypeOK, Running, NoVersions, M!InBounds
  <1>2. IInv /\ TypeOK' /\ [Next]_vars => IInv'
    <2> SUFFICES ASSUME IInv, TypeOK', [Next]_vars PROVE IInv'
      OBVIOUS
    <2> USE DEF TypeOK, Running, Version, Write, Scope, locals, act, mirror, budget, promises
    <2>1. CASE Park
      BY <2>1 DEF Park, Woken
    <2>2. CASE Unpark
      BY <2>2 DEF Unpark
    <2>3. CASE StartRun
      BY <2>3 DEF StartRun, Woken
    <2>4. CASE ContinueAsNew
      BY <2>4 DEF ContinueAsNew
    <2>5. CASE ActivityReturned
      <3>1. CASE SyncChunk(page)
        BY <2>5, <3>1 DEF ActivityReturned, SyncChunk, Chunks, Rest, ExecuteActivity
      <3>2. CASE FetchNextPage(page)
        BY <2>5, <3>2 DEF ActivityReturned, FetchNextPage, ExecuteActivity
      <3>3. CASE Succeed(page)
        BY <3>3 DEF Succeed, EndRun
      <3>4. QED
        BY <2>5, <3>1, <3>2, <3>3 DEF ActivityReturned
    <2>6. CASE ActivityFailed
      BY <2>6 DEF ActivityFailed, EndRun
    <2>7. CASE FetchPage
      <3>1. PICK listed \in SUBSET unlisted : \E out \in LeftOut(listed) :
                 /\ page' = listed /\ unlisted' = unlisted \ (listed \union out)
                 /\ missed' = missed \union out
                 /\ copied' = [i \in Item |-> IF i \in listed THEN source[i] ELSE copied[i]]
        BY <2>7 DEF FetchPage
      <3>2. PICK out \in LeftOut(listed) :
                 /\ page' = listed /\ unlisted' = unlisted \ (listed \union out)
                 /\ missed' = missed \union out
                 /\ copied' = [i \in Item |-> IF i \in listed THEN source[i] ELSE copied[i]]
        BY <3>1, Zenon
      <3>3. \A i \in out : IF onlyItems = {} THEN KeepsOrder => base[i] < source[i]
                                             ELSE Cardinality(onlyItems) > AskLimit
        BY <2>7, LeftOutPassedOver DEF FetchPage, Attempting
      <3>4. out \subseteq unlisted
        BY PageTyped
      <3>5. QED
        BY <2>7, <3>2, <3>3, <3>4 DEF FetchPage, Attempting
    <2>8. CASE FetchFault
      BY <2>8 DEF FetchFault, Attempting, Fault
    <2>9. CASE SyncRecords
      BY <2>9 DEF SyncRecords, Attempting, Upsert
    <2>10. CASE SyncFault
      BY <2>10 DEF SyncFault, Attempting, Upsert, Fault
    <2>11. CASE SyncRejected
      BY <2>11 DEF SyncRejected, Attempting, Upsert
    <2>12. CASE Signal
      BY <2>12 DEF Signal, SyncNow, SetInterval, Pause, Resume, SendSignal
    <2>13. CASE World
      <3>1. CASE Revoke
        BY <3>1 DEF Revoke
      <3>2. CASE Reauthorize
        BY <3>2 DEF Reauthorize
      <3>3. ASSUME NEW i \in Item, Edit(i) PROVE IInv'
        BY <3>3 DEF Edit, M!Edit
      <3>4. QED
        BY <2>13, <3>1, <3>2, <3>3 DEF World
    <2>14. CASE UNCHANGED vars
      BY <2>14 DEF vars
    <2>15. ASSUME NEW w \in late, LateWrite(w) \/ LateLoss(w) PROVE IInv'
      BY <2>15 DEF LateWrite, LateLoss
    <2>16. QED
      BY <2>1, <2>2, <2>3, <2>4, <2>5, <2>6, <2>7, <2>8, <2>9, <2>10, <2>11, <2>12,
         <2>13, <2>14, <2>15 DEF Next, Workflow, Attempts, Late
  <1>3. QED
    BY <1>1, <1>2, TypeCorrect, PTL DEF Spec

\* A run that reports success has brought everything it is about up to the
\* version of its start (_run_once's loops over pages and chunks), except what
\* the listing passed over and what an attempt given up has set back.
THEOREM SuccessCovers == Spec => SuccessMeansMirrored
  <1>1. IInv /\ [Next]_vars => [SuccessCoversScope]_vars
    <2> SUFFICES ASSUME IInv, Next PROVE SuccessCoversScope
      BY DEF SuccessCoversScope, vars
    <2> SUFFICES ASSUME pc \in Running, pc' \notin Running, lastError' = "none"
                 PROVE  \A i \in Scope(onlyItems) : UpToDate(i)
      BY DEF SuccessCoversScope
    <2>1. CASE ActivityReturned
      <3>1. page = {} /\ unlisted = {} /\ reply = "ok"
        BY <2>1 DEF ActivityReturned, SyncChunk, FetchNextPage, Succeed, ExecuteActivity, Running
      <3>2. QED
        BY <3>1 DEF IInv, Progress
    <2>2. CASE ActivityFailed
      BY <2>2 DEF ActivityFailed, EndRun
    <2>3. pc' # pc
      OBVIOUS
    <2>4. ~Signal
      BY <2>3 DEF Signal, SyncNow, SetInterval, Pause, Resume, SendSignal
    <2>5. ~Attempts
      BY <2>3 DEF Attempts, Attempting, FetchPage, FetchFault, SyncRecords, SyncFault,
                  SyncRejected
    <2>6. ~World
      BY <2>3 DEF World, Revoke, Reauthorize, Edit
    <2>7. ~(Park \/ Unpark \/ StartRun \/ ContinueAsNew)
      BY DEF Park, Unpark, StartRun, ContinueAsNew, Woken, Running
    <2>8. ~Late
      BY <2>3 DEF Late, LateWrite, LateLoss
    <2>9. QED
      BY <2>1, <2>2, <2>4, <2>5, <2>6, <2>7, <2>8 DEF Next, Workflow
  <1>2. QED
    BY <1>1, InvariantHolds, PTL DEF Spec, SuccessMeansMirrored

\* The workflow, its retries, its history rolls and the attempts it has given up
\* implement Mirror: the destination shows only versions the source had and
\* moves back only by a write that an attempt given up was left with.
THEOREM MirrorImplemented == Spec => ImplementsMirror
  <1>1. Init /\ TypeOK => M!Init
    BY DEF Init, M!Init, M!Versions, M!InBounds, M!LateInBounds, TypeOK, Version, NoVersions
  <1>2. IInv /\ TypeOK' /\ [Next]_vars => [M!Next]_(M!mirrorVars)
    <2> SUFFICES ASSUME IInv, TypeOK', [Next]_vars PROVE [M!Next]_(M!mirrorVars)
      OBVIOUS
    <2> USE DEF Write, Version, M!Late
    <2>1. ASSUME NEW written \in SUBSET chunk, NEW left \in SUBSET chunk,
                 pc = "syncing", Upsert(written), UNCHANGED source,
                 late' \in {late, late \union {[item |-> i, version |-> copied[i]] : i \in left}}
          PROVE  M!Copy
      <3>1. late' \in SUBSET M!Late /\ M!LateInBounds' /\ late \subseteq late'
        BY <2>1 DEF IInv, M!LateInBounds, Held, TypeOK, Running
      <3>2. dest' \in M!Versions /\ \A i \in Item : dest[i] <= dest'[i] /\ dest'[i] <= source[i]
        BY <2>1 DEF M!Versions, Upsert, IInv, M!InBounds, Held, TypeOK, Running
      <3>3. QED
        BY <2>1, <3>1, <3>2 DEF M!Copy
    <2>2. CASE SyncRecords
      <3>1. /\ pc = "syncing" /\ UNCHANGED <<source, late>>
            /\ \E written \in SUBSET chunk : Upsert(written)
        BY <2>2 DEF SyncRecords, Attempting
      <3>2. M!Copy
        BY <2>1, <3>1
      <3>3. QED
        BY <3>2 DEF M!Next
    <2>3. CASE SyncFault
      BY <2>1, <2>3 DEF SyncFault, Attempting, M!Next
    <2>4. CASE SyncRejected
      <3>1. /\ pc = "syncing" /\ UNCHANGED <<source, late>>
            /\ \E written \in SUBSET chunk : Upsert(written)
        BY <2>4 DEF SyncRejected, Attempting
      <3>2. M!Copy
        BY <2>1, <3>1
      <3>3. QED
        BY <3>2 DEF M!Next
    <2>5. ASSUME NEW i \in Item, Edit(i) PROVE M!Next
      BY <2>5 DEF Edit, M!Next
    <2>6. CASE Workflow
      BY <2>6 DEF Workflow, Park, Unpark, StartRun, ContinueAsNew, ActivityReturned,
                  SyncChunk, FetchNextPage, Succeed, ActivityFailed, EndRun, ExecuteActivity,
                  mirror, M!mirrorVars
    <2>7. CASE Signal \/ Revoke \/ Reauthorize
      BY <2>7 DEF Signal, SyncNow, SetInterval, Pause, Resume, SendSignal, Revoke, Reauthorize,
                  mirror, M!mirrorVars
    <2>8. CASE FetchPage \/ FetchFault
      BY <2>8 DEF FetchPage, FetchFault, Attempting, M!mirrorVars
    <2>9. CASE UNCHANGED vars
      BY <2>9 DEF vars, mirror, M!mirrorVars
    <2>10. CASE Late
      BY <2>10 DEF Late, LateWrite, LateLoss, M!Next, M!LateWrite
    <2>11. QED
      BY <2>2, <2>3, <2>4, <2>5, <2>6, <2>7, <2>8, <2>9, <2>10 DEF Next, Attempts, World
  <1>3. QED
    BY <1>1, <1>2, InitTyped, TypeCorrect, InvariantHolds, PTL DEF Spec, ImplementsMirror, M!Spec

-----------------------------------------------------------------------------
\* No signal handler, timer or history roll restarts a workflow that an auth
\* failure stopped; only resume does.
THEOREM AuthFailureStops == Spec => []AuthStops
  <1> USE DEF AuthStops, Running
  <1>1. Init => AuthStops
    BY DEF Init
  <1>2. AuthStops /\ [Next]_vars => AuthStops'
    <2> SUFFICES ASSUME AuthStops, [Next]_vars PROVE AuthStops'
      OBVIOUS
    <2> USE DEF act, locals, promises
    <2>1. CASE Signal
      BY <2>1 DEF Signal, SyncNow, SetInterval, Pause, Resume, SendSignal
    <2>2. CASE Park \/ Unpark \/ StartRun \/ ContinueAsNew
      BY <2>2 DEF Park, Unpark, StartRun, ContinueAsNew, Blocked, Woken
    <2>3. CASE ActivityReturned
      BY <2>3 DEF ActivityReturned, SyncChunk, FetchNextPage, Succeed, EndRun,
                  ExecuteActivity, IsAuthFailure
    <2>4. CASE ActivityFailed
      BY <2>4 DEF ActivityFailed, EndRun, IsAuthFailure
    <2>5. CASE Attempts
      BY <2>5 DEF Attempts, Attempting, FetchPage, FetchFault, SyncRecords, SyncFault,
                  SyncRejected
    <2>6. CASE World
      BY <2>6 DEF World, Revoke, Reauthorize, Edit
    <2>7. CASE UNCHANGED vars
      BY <2>7 DEF vars
    <2>8. CASE Late
      <3>1. UNCHANGED <<pc, paused, authStop>>
        BY <2>8 DEF Late, LateWrite, LateLoss
      <3>2. QED
        BY <3>1
    <2>9. QED
      BY <2>1, <2>2, <2>3, <2>4, <2>5, <2>6, <2>7, <2>8 DEF Next, Workflow
  <1>3. QED
    BY <1>1, <1>2, PTL DEF Spec

\* A request stays one, and what it names stays pending, until a run takes it
\* (sync_now, resume, pause and the history roll at sync.py:139).
THEOREM NoRequestLost == Spec => []RequestsSurvive
  <1> USE DEF RequestsSurvive
  <1>1. Init => RequestsSurvive
    BY DEF Init
  <1>2. RequestsSurvive /\ [Next]_vars => RequestsSurvive'
    <2> SUFFICES ASSUME RequestsSurvive, [Next]_vars PROVE RequestsSurvive'
      OBVIOUS
    <2> USE DEF promises
    <2>1. CASE Signal
      BY <2>1 DEF Signal, SyncNow, SetInterval, Pause, Resume, SendSignal
    <2>2. CASE Park \/ Unpark \/ StartRun \/ ContinueAsNew
      BY <2>2 DEF Park, Unpark, StartRun, ContinueAsNew, CarriedItems, CarriedRequest
    <2>3. CASE ActivityReturned \/ ActivityFailed
      BY <2>3 DEF ActivityReturned, SyncChunk, FetchNextPage, Succeed, ActivityFailed, EndRun,
                  ExecuteActivity
    <2>4. CASE Attempts
      BY <2>4 DEF Attempts, Attempting, FetchPage, FetchFault, SyncRecords, SyncFault,
                  SyncRejected
    <2>5. CASE World
      BY <2>5 DEF World, Revoke, Reauthorize, Edit
    <2>6. CASE UNCHANGED vars
      BY <2>6 DEF vars
    <2>7. CASE Late
      BY <2>7 DEF Late, LateWrite, LateLoss
    <2>8. QED
      BY <2>1, <2>2, <2>3, <2>4, <2>5, <2>6, <2>7 DEF Next, Workflow
  <1>3. QED
    BY <1>1, <1>2, PTL DEF Spec
==============================================================================
