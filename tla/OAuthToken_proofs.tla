-------------------------- MODULE OAuthToken_proofs --------------------------
(***************************************************************************)
(* Proofs about OAuthToken, for any number of bootstraps, rotations,       *)
(* refreshes per history, attempts, signals and faults, and whatever the   *)
(* endpoint answers when it refuses.                                       *)
(***************************************************************************)
EXTENDS OAuthToken, TLAPS

USE OAuthTokenConstants DEF OAuthTokenConstants, Grant, Gen, Token, FirstToken

\* Whatever the endpoint answers, a refused attempt is retried, given up or ends
\* in an auth failure.
LEMMA Refused ==
  ASSUME Refuse
  PROVE  /\ Attempting
         /\ Retry \/ (reply' = "auth" /\ UNCHANGED attempt)
         /\ UNCHANGED <<out, strays, current, faults, abandoned>>
  BY Zenon DEF Refuse

\* A request that arrives late is a stray's, and touches nothing but its grant.
LEMMA Late ==
  ASSUME LateExchange
  PROVE  /\ \E r \in strays : Rotate(r.token.grant) /\ strays' = strays \ {r}
         /\ UNCHANGED <<pc, accessToken, creds, refreshes, paused, lastError, offer, act,
                        revoked, granted, signals, faults, abandoned, resent, rejected>>
  BY Zenon DEF LateExchange

\* A rotation concerns one grant.
LEMMA Rotated ==
  ASSUME NEW g \in Grant, current \in [Grant -> Gen], Rotate(g)
  PROVE  /\ current' \in [Grant -> Gen]
         /\ \A h \in Grant : h # g => current'[h] = current[h]
  <1>1. CASE current' = current
    BY <1>1
  <1>2. CASE \E n \in Gen : current' = [current EXCEPT ![g] = n]
    BY <1>2
  <1>3. QED
    BY <1>1, <1>2 DEF Rotate

\* Each step preserves the types, where the count of refreshes is bounded.
LEMMA TypeStep == TypeOK /\ Counted /\ [Next]_vars => TypeOK'
  <1> SUFFICES ASSUME TypeOK, Counted, [Next]_vars PROVE TypeOK'
    OBVIOUS
  <1> USE DEF TypeOK, creds, offer, act, outside, Looping, Attempting, Retry, Rotate, Faulty
  <1>1. CASE Exchange
    <2> DEFINE g == refreshToken.grant
    <2>1. g \in 1..MaxGrants
      OBVIOUS
    <2>2. current' \in [1..MaxGrants -> 0..MaxGen]
      BY <1>1, <2>1, Rotated DEF Exchange, Grant, Gen
    <2>3. out' \in Token
      BY <1>1, <2>1, <2>2 DEF Exchange, Returned
    <2>4. UNCHANGED <<strays, attempt, faults, abandoned>> /\ reply' = "ok"
      BY <1>1 DEF Exchange
    <2>5. Attempting
      BY <1>1 DEF Exchange
    <2>6. QED
      BY <2>2, <2>3, <2>4, <2>5 DEF Flags
  <1>2. CASE Refuse
    <2>1. Retry \/ (reply' = "auth" /\ UNCHANGED attempt)
      BY <1>2, Refused
    <2>2. Attempting /\ UNCHANGED <<out, strays, current, faults, abandoned>>
      BY <1>2, Refused
    <2>3. Flags'
      BY <2>2, Zenon DEF Flags
    <2>4. attempt' \in 1..MaxAttempts /\ reply' \in {"none", "ok", "transient", "auth"}
      BY <2>1, <2>2, SMTT(30)
    <2>5. strays' = strays /\ out' = out /\ current' = current
      BY <2>2
    <2>6. QED
      BY <2>2, <2>3, <2>4, <2>5, Zenon
  <1>3. CASE EndpointDown
    <2>1. Flags'
      BY <1>3, Zenon DEF EndpointDown, Flags
    <2>2. QED
      BY <1>3, <2>1, SMTT(30) DEF EndpointDown
  <1>4. CASE TimeOut
    <2>1. Flags'
      BY <1>4, Zenon DEF TimeOut, Flags
    <2>2. strays' \subseteq [client : Grant, token : Token]
      BY <1>4 DEF TimeOut
    <2>3. abandoned' \subseteq Grant /\ Attempting /\ Faulty /\ Retry
      BY <1>4 DEF TimeOut
    <2>4. out' = out /\ current' = current
      BY <1>4 DEF TimeOut
    <2>5. QED
      BY <2>1, <2>2, <2>3, <2>4, SMTT(30)
  <1>5. CASE Adopt
    <2>1. Flags'
      BY <1>5, Zenon DEF Adopt, Flags
    <2>2. QED
      BY <1>5, <2>1 DEF Adopt, Counted
  <1>6. CASE Park
    <2>1. Flags'
      BY <1>6, Zenon DEF Park, Flags
    <2>2. QED
      BY <1>6, <2>1 DEF Park
  <1>7. CASE BackOff
    <2>1. Flags'
      BY <1>7, Zenon DEF BackOff, Flags
    <2>2. QED
      BY <1>7, <2>1 DEF BackOff
  <1>8. CASE TryAgain
    <2>1. Flags'
      BY <1>8, Zenon DEF TryAgain, ExecuteRefresh, Flags
    <2>2. QED
      BY <1>8, <2>1 DEF TryAgain, ExecuteRefresh
  <1>9. CASE Unpark
    <2>1. Flags'
      BY <1>9, Zenon DEF Unpark, ExecuteRefresh, TokenAfter, ClientAfter, Flags
    <2>2. QED
      BY <1>9, <2>1 DEF Unpark, ExecuteRefresh, TokenAfter, ClientAfter
  <1>10. CASE Wake
    <2>1. Flags'
      BY <1>10, Zenon DEF Wake, ExecuteRefresh, Flags
    <2>2. QED
      BY <1>10, <2>1 DEF Wake, ExecuteRefresh
  <1>11. CASE ContinueAsNew
    <2>1. Flags'
      BY <1>11, Zenon DEF ContinueAsNew, Flags
    <2>2. QED
      BY <1>11, <2>1 DEF ContinueAsNew, ExecuteRefresh, CarriedCount, CarriedAccess
  <1>12. ASSUME NEW g \in {0, granted}, Reauthorize(g) PROVE TypeOK'
    <2>1. Flags'
      BY <1>12, Zenon DEF Reauthorize, Flags
    <2>2. QED
      BY <1>12, <2>1 DEF Reauthorize
  <1>13. CASE Bootstrap
    <2>1. Flags'
      BY <1>13, Zenon DEF Bootstrap, Flags
    <2>2. QED
      BY <1>13, <2>1 DEF Bootstrap
  <1>14. CASE Lapse
    <2>1. Flags'
      BY <1>14, Zenon DEF Lapse, Flags
    <2>2. QED
      BY <1>14, <2>1 DEF Lapse
  <1>15. CASE LateExchange
    <2>1. PICK r \in strays : /\ Rotate(r.token.grant)
                              /\ strays' = strays \ {r}
      BY <1>15, Late
    <2>2. current' \in [1..MaxGrants -> 0..MaxGen]
      BY <2>1, Rotated DEF Grant, Gen, Token
    <2>3. Flags'
      BY <1>15, Late, Zenon DEF Flags
    <2>4. strays' \subseteq [client : Grant, token : Token]
      BY <2>1
    <2>5. UNCHANGED <<pc, accessToken, creds, refreshes, paused, lastError, offer, act,
                      revoked, granted, signals, faults, abandoned, resent, rejected>>
      BY <1>15, Late
    <2>6. QED
      BY <2>2, <2>3, <2>4, <2>5, Zenon
  <1>16. ASSUME NEW g \in Grant, Revoke(g) PROVE TypeOK'
    <2>1. Flags'
      BY <1>16, Zenon DEF Revoke, Flags
    <2>2. QED
      BY <1>16, <2>1, Zenon DEF Revoke
  <1>17. CASE UNCHANGED vars
    <2>1. Flags'
      BY <1>17, Zenon DEF vars, Flags
    <2>2. QED
      BY <1>17, <2>1 DEF vars
  <1>18. QED
    BY <1>1, <1>2, <1>3, <1>4, <1>5, <1>6, <1>7, <1>8, <1>9, <1>10, <1>11, <1>12, <1>13,
       <1>14, <1>15, <1>16, <1>17 DEF Next, Workflow, Attempts, World

\* The workflow is paused only where it waits for a re-authorization, and it
\* sleeps at most as often as the history allows.
LEMMA CountedStep == TypeOK /\ Counted /\ [Next]_vars => Counted'
  <1> SUFFICES ASSUME TypeOK, Counted, [Next]_vars PROVE Counted'
    OBVIOUS
  <1> USE DEF TypeOK, Counted, creds, offer, act, outside, Looping, Attempting
  <1>1. CASE Attempts
    <2>1. Attempting
      BY <1>1, Zenon DEF Attempts, Exchange, Refuse, EndpointDown, TimeOut
    <2>2. QED
      BY <2>1
  <1>2. CASE Adopt \/ Park \/ BackOff
    BY <1>2, SMTT(30) DEF Adopt, Park, BackOff
  <1>3. CASE TryAgain \/ Unpark \/ Wake
    BY <1>3, SMTT(30) DEF TryAgain, Unpark, Wake, ExecuteRefresh, BackoffElapsed, NapOver
  <1>4. CASE ContinueAsNew
    BY <1>4 DEF ContinueAsNew, ExecuteRefresh, CarriedCount, NapOver
  <1>5. ASSUME NEW g, Reauthorize(g) PROVE Counted'
    BY <1>5 DEF Reauthorize
  <1>6. CASE Bootstrap \/ Lapse \/ LateExchange
    BY <1>6, Late, SMTT(30) DEF Bootstrap, Lapse
  <1>7. ASSUME NEW g, Revoke(g) PROVE Counted'
    BY <1>7 DEF Revoke
  <1>8. CASE UNCHANGED vars
    BY <1>8 DEF vars
  <1>9. QED
    BY <1>1, <1>2, <1>3, <1>4, <1>5, <1>6, <1>7, <1>8 DEF Next, Workflow, World

-----------------------------------------------------------------------------
\* What is known of the endpoint after an exchange: only the grant presented has
\* moved, and the token returned is its current generation.
LEMMA Exchanged ==
  ASSUME TypeOK, Exchange
  PROVE  /\ current' \in [Grant -> Gen]
         /\ \A g \in Grant : g # refreshToken.grant => current'[g] = current[g]
         /\ out' = [grant |-> refreshToken.grant, gen |-> current'[refreshToken.grant]]
         /\ reply' = "ok" /\ pc' = pc /\ pc = "refreshing"
         /\ UNCHANGED <<creds, offer, revoked, granted, strays, abandoned, resent>>
  <1>1. refreshToken.grant \in Grant
    BY DEF TypeOK
  <1>2. Rotate(refreshToken.grant)
    BY DEF Exchange
  <1>3. /\ current' \in [Grant -> Gen]
        /\ \A g \in Grant : g # refreshToken.grant => current'[g] = current[g]
    BY <1>1, <1>2, Rotated DEF TypeOK, Token
  <1>4. QED
    BY <1>3 DEF Exchange, Returned, Attempting

\* A late exchange moves only the grant of a stray.
LEMMA LateMoves ==
  ASSUME TypeOK, Unspent, LateExchange
  PROVE  /\ strays' \subseteq strays
         /\ \A g \in Grant : g \notin abandoned => current'[g] = current[g]
         /\ \A g \in Grant : g > refreshToken.grant => current'[g] = current[g]
  <1>1. PICK r \in strays : Rotate(r.token.grant) /\ strays' = strays \ {r}
    BY Late
  <1>2. r.token.grant \in Grant /\ r.token.grant \in abandoned
        /\ r.token.grant <= refreshToken.grant
    BY <1>1 DEF TypeOK, Unspent
  <1>3. \A g \in Grant : g # r.token.grant => current'[g] = current[g]
    BY <1>1, <1>2, Rotated DEF TypeOK, Token
  <1>4. refreshToken.grant \in Grant
    BY DEF TypeOK
  <1>5. QED
    BY <1>1, <1>2, <1>3, <1>4

\* Tokens and clients stay together, and grants in order.
LEMMA CredsStep ==
  TypeOK /\ Paired /\ Ordered /\ Unspent /\ Kept /\ [Next]_vars
      => Paired' /\ Ordered' /\ Unspent'
  <1> SUFFICES ASSUME TypeOK, Paired, Ordered, Unspent, Kept, [Next]_vars
               PROVE  Paired' /\ Ordered' /\ Unspent'
    OBVIOUS
  <1> DEFINE Goal == Paired' /\ Ordered' /\ Unspent'
  <1>a. /\ refreshToken.grant \in Grant /\ client \in Grant /\ granted \in Grant
        /\ newToken \in Grant \union {0} /\ newClient \in Grant \union {0}
        /\ current \in [Grant -> Gen] /\ out \in Token
        /\ \A r \in strays : r.token.grant \in Grant
    BY DEF TypeOK
  <1> USE DEF Paired, Ordered, Unspent, creds, offer, act, outside, Looping, Attempting
  <1>1. CASE Exchange
    BY <1>1, <1>a, Exchanged
  <1>2. CASE Refuse
    BY <1>2, Refused
  <1>3. CASE EndpointDown
    BY <1>3 DEF EndpointDown
  <1>4. CASE TimeOut
    BY <1>4, <1>a DEF TimeOut
  <1>5. CASE Park \/ BackOff
    BY <1>5 DEF Park, BackOff
  <1>6. CASE Adopt
    BY <1>6, <1>a DEF Adopt, Kept
  <1>7. CASE TryAgain \/ Wake
    BY <1>7 DEF TryAgain, Wake
  <1>8. CASE Unpark
    BY <1>8, <1>a, SMTT(30) DEF Unpark, TokenAfter, ClientAfter
  <1>9. CASE ContinueAsNew
    BY <1>9, <1>a DEF ContinueAsNew
  <1>10. ASSUME NEW g \in {0, granted}, Reauthorize(g) PROVE Goal
    BY <1>10, <1>a, SMTT(30) DEF Reauthorize
  <1>11. CASE Bootstrap
    BY <1>11, <1>a DEF Bootstrap
  <1>12. CASE Lapse
    BY <1>12 DEF Lapse
  <1>13. CASE LateExchange
    BY <1>13, <1>a, Late, LateMoves
  <1>14. ASSUME NEW g \in Grant, Revoke(g) PROVE Goal
    BY <1>14 DEF Revoke
  <1>15. CASE UNCHANGED vars
    BY <1>15 DEF vars
  <1>16. QED
    BY <1>1, <1>2, <1>3, <1>4, <1>5, <1>6, <1>7, <1>8, <1>9, <1>10, <1>11, <1>12, <1>13,
       <1>14, <1>15, Zenon DEF Next, Workflow, Attempts, World, Goal

\* The newest generation of an untroubled grant is never dropped.
LEMMA KeptStep ==
  TypeOK /\ Ordered /\ Unspent /\ Kept /\ [Next]_vars => Kept'
  <1> SUFFICES ASSUME TypeOK, Ordered, Unspent, Kept, [Next]_vars PROVE Kept'
    OBVIOUS
  <1>a. /\ refreshToken \in Token /\ out \in Token
        /\ newToken \in Grant \union {0} /\ current \in [Grant -> Gen]
    BY DEF TypeOK
  <1> USE DEF Kept, Latest, Troubled, creds, offer, act, outside, Looping, Attempting
  <1>1. CASE Exchange
    BY <1>1, <1>a, Exchanged
  <1>2. CASE Refuse
    BY <1>2, Refused DEF Retry
  <1>3. CASE EndpointDown
    BY <1>3 DEF EndpointDown, Retry
  <1>4. CASE TimeOut
    BY <1>4 DEF TimeOut, Retry
  <1>5. CASE Adopt \/ Park \/ BackOff
    BY <1>5 DEF Adopt, Park, BackOff
  <1>6. CASE TryAgain \/ Wake \/ ContinueAsNew
    BY <1>6 DEF TryAgain, Wake, ContinueAsNew, ExecuteRefresh, BackoffElapsed, NapOver
  <1>7. CASE Unpark
    <2>1. reply # "ok" /\ reply' = "none" /\ UNCHANGED <<current, revoked, abandoned, resent>>
      BY <1>7 DEF Unpark, ExecuteRefresh
    <2>2. CASE newToken = 0
      BY <1>7, <2>1, <2>2 DEF Unpark, TokenAfter
    <2>3. CASE newToken # 0 /\ newToken \in resent
      BY <1>7, <2>1, <2>3 DEF Unpark, TokenAfter
    <2>4. CASE newToken # 0 /\ newToken \notin resent
      <3>1. current[newToken] = 0
        BY <1>a, <2>4 DEF Ordered, Unspent
      <3>2. QED
        BY <1>7, <2>1, <2>4, <3>1 DEF Unpark, TokenAfter
    <2>5. QED
      BY <2>2, <2>3, <2>4
  <1>8. ASSUME NEW g \in {0, granted}, Reauthorize(g) PROVE Kept'
    BY <1>8 DEF Reauthorize
  <1>9. CASE Bootstrap \/ Lapse
    BY <1>9 DEF Bootstrap, Lapse
  <1>10. CASE LateExchange
    BY <1>10, <1>a, Late, LateMoves
  <1>11. ASSUME NEW g \in Grant, Revoke(g) PROVE Kept'
    BY <1>11 DEF Revoke
  <1>12. CASE UNCHANGED vars
    BY <1>12 DEF vars
  <1>13. QED
    BY <1>1, <1>2, <1>3, <1>4, <1>5, <1>6, <1>7, <1>8, <1>9, <1>10, <1>11, <1>12, Zenon
       DEF Next, Workflow, Attempts, World

\* The invariant the theorems below rest on.
LEMMA Inductive == Spec => []IInv
  <1>1. Init => IInv
    <2> SUFFICES ASSUME Init PROVE IInv
      OBVIOUS
    <2>1. Flags
      BY Zenon DEF Init, Flags
    <2>2. TypeOK
      BY <2>1 DEF Init, TypeOK
    <2>3. Paired /\ Ordered /\ Unspent
      BY DEF Init, Paired, Ordered, Unspent
    <2>4. Kept /\ Counted
      BY DEF Init, Kept, Counted, Latest
    <2>5. QED
      BY <2>2, <2>3, <2>4 DEF IInv
  <1>2. IInv /\ [Next]_vars => IInv'
    BY TypeStep, CountedStep, CredsStep, KeptStep, Zenon DEF IInv
  <1>3. QED
    BY <1>1, <1>2, PTL DEF Spec

-----------------------------------------------------------------------------
\* Every state of the workflow is well typed; in particular the count of
\* refreshes never passes the number at which history is rolled.
THEOREM TypeCorrect == Spec => []TypeOK
  <1>1. IInv => TypeOK
    BY DEF IInv
  <1>2. QED
    BY <1>1, Inductive, PTL

\* The workflow never locks itself out: unless their grant was revoked, handed
\* over twice, or presented by an attempt whose answer was lost, the endpoint
\* accepts the credentials it holds.
THEOREM NeverLocksItselfOut == Spec => []NeverLockedOut
  <1>1. IInv => NeverLockedOut
    <2> SUFFICES ASSUME IInv, Latest.grant \notin Troubled
                 PROVE  Accepted(client, Latest)
      BY DEF NeverLockedOut
    <2>1. Latest.grant = refreshToken.grant
      BY DEF IInv, Kept, Latest
    <2>2. QED
      BY <2>1 DEF IInv, Kept, Paired, Accepted, Troubled
  <1>2. QED
    BY <1>1, Inductive, PTL

\* A rejected workflow stays parked, and says why, until it is re-authorized.
THEOREM RejectionStops == Spec => []RejectionParks
  <1>1. IInv => RejectionParks
    BY DEF IInv, Counted, RejectionParks
  <1>2. QED
    BY <1>1, Inductive, PTL

\* To those who query it the workflow is a Credential: in particular the query
\* never goes back to empty, and nothing is renewed between a rejection and the
\* next reauthorize.
THEOREM CredentialImplemented == Spec => ImplementsCredential
  <1>1. Init => Cred!Init
    BY DEF Init, Cred!Init
  <1>2. IInv /\ [Next]_vars => [Cred!Next]_Cred!credentialVars
    <2> SUFFICES ASSUME TypeOK, Counted, [Next]_vars
                 PROVE  Cred!Next \/ UNCHANGED <<accessToken, rejected>>
      BY DEF IInv, Cred!credentialVars
    <2> USE DEF Cred!Next
    <2>1. CASE Attempts
      <3>1. Attempting
        BY <2>1, Zenon DEF Attempts, Exchange, Refuse, EndpointDown, TimeOut
      <3>2. QED
        BY <3>1 DEF Attempting
    <2>2. CASE Adopt
      <3>1. ~rejected
        BY <2>2 DEF Adopt, Counted
      <3>2. Cred!Renew
        BY <2>2, <3>1, Zenon DEF Adopt, Cred!Renew
      <3>3. QED
        BY <3>2
    <2>3. CASE Park
      <3>1. ~rejected
        BY <2>3 DEF Park, Counted
      <3>2. Cred!Stop
        BY <2>3, <3>1, Zenon DEF Park, Cred!Stop
      <3>3. QED
        BY <3>2
    <2>4. CASE BackOff \/ TryAgain \/ Unpark \/ Wake \/ ContinueAsNew
      BY <2>4, Zenon DEF BackOff, TryAgain, Unpark, Wake, ContinueAsNew, CarriedAccess
    <2>5. ASSUME NEW g, Reauthorize(g) PROVE Cred!Restart \/ UNCHANGED <<accessToken, rejected>>
      <3>1. accessToken' = accessToken /\ rejected' = FALSE
        BY <2>5 DEF Reauthorize
      <3>2. CASE rejected
        BY <3>1, <3>2, Zenon DEF Cred!Restart
      <3>3. CASE ~rejected
        BY <3>1, <3>3, Zenon DEF TypeOK, Flags
      <3>4. QED
        BY <3>2, <3>3, Zenon
    <2>6. CASE Lapse
      BY <2>6, Zenon DEF Lapse, Cred!Lapse
    <2>7. CASE Bootstrap \/ LateExchange
      BY <2>7, Late, Zenon DEF Bootstrap
    <2>8. ASSUME NEW g, Revoke(g) PROVE UNCHANGED <<accessToken, rejected>>
      BY <2>8, Zenon DEF Revoke
    <2>9. CASE UNCHANGED vars
      BY <2>9 DEF vars
    <2>10. QED
      BY <2>1, <2>2, <2>3, <2>4, <2>5, <2>6, <2>7, <2>8, <2>9, Zenon DEF Next, Workflow, World
  <1>3. QED
    BY <1>1, <1>2, Inductive, PTL DEF Spec, ImplementsCredential, Cred!Spec
=============================================================================
