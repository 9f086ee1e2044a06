------------------------ MODULE SyncWithToken_proofs ------------------------
(***************************************************************************)
(* Proofs about SyncWithToken, for any number of attempts, faults and      *)
(* signals.                                                                *)
(***************************************************************************)
EXTENDS SyncWithToken, TLAPS

USE SyncWithTokenConstants DEF SyncWithTokenConstants

\* The flags are Boolean.
Flags == stopped \in BOOLEAN /\ dead \in BOOLEAN /\ paused \in BOOLEAN /\ shared \in BOOLEAN

\* What is left of TypeOK.
Rest ==
    /\ access \in {"none", "valid", "lapsed"}
    /\ pc \in {"waiting", "parked", "opening", "writing"}
    /\ attempt \in 1..MaxAttempts
    /\ reply \in {"none", "ok", "transient", "auth"}
    /\ session \in {"none", "valid", "lapsed"}
    /\ faults \in 0..MaxFaults /\ signals \in 0..MaxSignals

LEMMA TypeParts == TypeOK <=> Flags /\ Rest
  BY Zenon DEF TypeOK, Flags, Rest

\* Each step keeps the flags Boolean.
LEMMA FlagsStep == Flags /\ [Next]_vars => Flags'
  <1> SUFFICES ASSUME Flags, [Next]_vars PROVE Flags'
    OBVIOUS
  <1> USE DEF Flags, token, sync, Looping, Attempting, CloseSession, Retry
  <1>1. CASE Workflow
    BY <1>1, Zenon DEF Workflow, StartRun, Park, Unpark, ActivityReturned, ActivityFailed
  <1>2. CASE Attempts
    BY <1>2, Zenon DEF Attempts, Open, OpenUnready, Unready, Write, Rejected, NotRetryable, Fault
  <1>3. CASE Renew \/ Lapse \/ SessionLapse
    BY <1>3, Zenon DEF Renew, Lapse, SessionLapse, C!Renew, C!Lapse
  <1>4. CASE Revoke \/ Stop \/ Reauthorize \/ Resume
    BY <1>4, Zenon DEF Revoke, Stop, Reauthorize, Resume, C!Stop, C!Restart
  <1>5. CASE UNCHANGED vars
    BY <1>5, Zenon DEF vars
  <1>6. QED
    BY <1>1, <1>2, <1>3, <1>4, <1>5, Zenon DEF Next

\* Each step keeps the other types, the token served and the session's in step,
\* and a sync unpaused while there is no token.
LEMMA InStepStep ==
  Rest /\ InStep /\ PausedOnlyAfterWarm /\ [Next]_vars
      => Rest' /\ InStep' /\ PausedOnlyAfterWarm'
  <1> SUFFICES ASSUME Rest, InStep, PausedOnlyAfterWarm, [Next]_vars
               PROVE  Rest' /\ InStep' /\ PausedOnlyAfterWarm'
    OBVIOUS
  <1> DEFINE Goal == Rest' /\ InStep' /\ PausedOnlyAfterWarm'
  <1> USE DEF Rest, InStep, PausedOnlyAfterWarm, token, sync, Looping, Attempting,
              CloseSession, Retry, AttemptsLeft
  <1>1. CASE StartRun \/ Park \/ Unpark
    BY <1>1 DEF StartRun, Park, Unpark
  <1>2. CASE ActivityReturned
    BY <1>2 DEF ActivityReturned
  <1>3. CASE ActivityFailed
    <2>1. Rest' /\ InStep'
      BY <1>3 DEF ActivityFailed, NextPass
    <2>2. PausedOnlyAfterWarm'
      BY <1>3, Zenon DEF ActivityFailed
    <2>3. QED
      BY <2>1, <2>2, Zenon
  <1>4. CASE Open
    BY <1>4 DEF Open
  <1>5. CASE OpenUnready
    BY <1>5 DEF OpenUnready, Unready
  <1>6. CASE Write
    BY <1>6 DEF Write, Usable
  <1>7. CASE Rejected
    BY <1>7 DEF Rejected, NotRetryable
  <1>8. CASE Fault
    BY <1>8 DEF Fault
  <1>9. CASE Renew
    BY <1>9 DEF Renew, C!Renew
  <1>10. CASE Lapse \/ SessionLapse
    BY <1>10 DEF Lapse, C!Lapse, SessionLapse
  <1>11. CASE Revoke \/ Stop \/ Reauthorize
    BY <1>11 DEF Revoke, Stop, C!Stop, Reauthorize, C!Restart
  <1>12. CASE Resume
    BY <1>12 DEF Resume
  <1>13. CASE UNCHANGED vars
    BY <1>13 DEF vars
  <1>14. QED
    BY <1>1, <1>2, <1>3, <1>4, <1>5, <1>6, <1>7, <1>8, <1>9, <1>10, <1>11, <1>12, <1>13,
       Zenon DEF Next, Workflow, Attempts

\* The invariant the theorems below rest on.
LEMMA Inductive == Spec => []IInv
  <1>1. Init => IInv
    <2> SUFFICES ASSUME Init PROVE IInv
      OBVIOUS
    <2>1. Flags
      BY Zenon DEF Init, Flags, C!Init
    <2>2. Rest /\ InStep /\ PausedOnlyAfterWarm
      BY DEF Init, Rest, InStep, PausedOnlyAfterWarm, C!Init
    <2>3. QED
      BY <2>1, <2>2, TypeParts, Zenon DEF IInv
  <1>2. IInv /\ [Next]_vars => IInv'
    <2> SUFFICES ASSUME IInv, [Next]_vars PROVE IInv'
      OBVIOUS
    <2>1. Flags' /\ Rest' /\ InStep' /\ PausedOnlyAfterWarm'
      BY TypeParts, FlagsStep, InStepStep, Zenon DEF IInv
    <2>2. TypeOK'
      BY <2>1, Zenon DEF TypeOK, Flags, Rest
    <2>3. QED
      BY <2>1, <2>2, Zenon DEF IInv
  <1>3. QED
    BY <1>1, <1>2, PTL DEF Spec

-----------------------------------------------------------------------------
\* Every state of the composition is well typed; in particular no attempt beyond
\* the retry policy's last is scheduled.
THEOREM TypeCorrect == Spec => []TypeOK
  <1>1. IInv => TypeOK
    BY DEF IInv
  <1>2. QED
    BY <1>1, Inductive, PTL

\* A sync is not paused before its token workflow has had a token, in whatever
\* order the two workflows are started and however their attempts fail.
THEOREM NotPausedCold == Spec => []PausedOnlyAfterWarm
  <1>1. IInv => PausedOnlyAfterWarm
    BY DEF IInv
  <1>2. QED
    BY <1>1, Inductive, PTL
=============================================================================
