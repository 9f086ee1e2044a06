----------------------------- MODULE OAuthToken -----------------------------
(***************************************************************************)
(* OAuthTokenWorkflow (auth/oauth/workflow.py), the owner of a rotating    *)
(* refresh token, with the refresh activity, the token endpoint and the    *)
(* human who bootstraps and re-authorizes.                                 *)
(*                                                                         *)
(* A refresh token is identified by the grant (the bootstrap that minted   *)
(* it) and by its generation under that grant: the endpoint accepts only   *)
(* the current generation and may rotate it at each use.  Every bootstrap  *)
(* registers a client of its own, so a grant names its client too; the     *)
(* token endpoint's address travels with the client.                       *)
(*                                                                         *)
(* As in SourceSync one action is the code between two awaits, and an      *)
(* activity's outcome waits in `reply` until the workflow sees it.         *)
(***************************************************************************)
EXTENDS Naturals

CONSTANTS
    MaxGrants,               \* bound on the bootstraps of a behaviour
    MaxGen,                  \* bound on the rotations of one grant
    RefreshesBeforeContinue, \* _REFRESHES_BEFORE_CONTINUE
    MaxAttempts,             \* RetryPolicy(maximum_attempts = ...)
    Refusals,                \* what the endpoint answers to a bad credential
    MaxSignals,              \* bound on the reauthorize signals
    MaxFaults                \* bound on faults of the endpoint and time-outs

ASSUME OAuthTokenConstants ==
    /\ MaxGrants \in Nat \ {0}
    /\ MaxGen \in Nat
    /\ RefreshesBeforeContinue \in Nat \ {0}
    /\ MaxAttempts \in Nat \ {0}
    /\ Refusals \subseteq [status : 400..499, error : STRING]
    /\ MaxSignals \in Nat
    /\ MaxFaults \in Nat

Grant == 1..MaxGrants
Gen   == 0..MaxGen
Token == [grant : Grant, gen : Gen]

\* What a bootstrap stores and start or reauthorize hand over; 0 is the empty
\* string of the code.
FirstToken(g) == [grant |-> g, gen |-> 0]

VARIABLES
    \* -- attributes of the workflow object
    pc,            \* which await the coroutine is suspended at
    accessToken,   \* _access_token: none, or one that is valid or lapsed
    refreshToken,  \* _refresh_token
    client,        \* _client_id and _token_endpoint, by grant
    refreshes,     \* _refreshes
    paused,        \* _paused
    lastError,     \* _last_error, reduced to its class
    newToken,      \* _new_refresh_token, by grant; 0 when empty
    newClient,     \* _new_client_id and _new_token_endpoint; 0 when empty
    \* -- the refresh activity
    attempt,       \* number of the current attempt
    reply,         \* outcome the workflow has not seen yet
    out,           \* the refresh token in a successful outcome
    strays,        \* requests of timed-out attempts, still under way
    \* -- the outside
    current,       \* the generation of each grant the endpoint accepts
    revoked,       \* grants revoked at the provider
    granted,       \* the last bootstrap; its grant is in the credential file
    signals,       \* signals sent so far
    faults,        \* faults and time-outs so far
    \* -- history variables
    abandoned,     \* grants an attempt presented without seeing the answer
    resent,        \* grants whose first token was handed over again
    rejected       \* the workflow saw a rejection and no reauthorize since

creds   == <<refreshToken, client>>
offer   == <<newToken, newClient>>
act     == <<attempt, reply, out>>
outside == <<current, revoked, granted>>
vars    == <<pc, accessToken, creds, refreshes, paused, lastError, offer, act, strays,
             outside, signals, faults, abandoned, resent, rejected>>

Flags == paused \in BOOLEAN /\ rejected \in BOOLEAN

TypeOK ==
    /\ Flags
    /\ pc \in {"refreshing", "sleeping", "backoff", "parked"}
    /\ accessToken \in {"none", "valid", "lapsed"}
    /\ refreshToken \in Token /\ client \in Grant
    /\ refreshes \in 0..RefreshesBeforeContinue
    /\ lastError \in {"none", "transient", "auth"}
    /\ newToken \in Grant \union {0} /\ newClient \in Grant \union {0}
    /\ attempt \in 1..MaxAttempts
    /\ reply \in {"none", "ok", "transient", "auth"}
    /\ out \in Token
    /\ strays \subseteq [client : Grant, token : Token]
    /\ current \in [Grant -> Gen]
    /\ revoked \subseteq Grant /\ granted \in Grant
    /\ signals \in 0..MaxSignals /\ faults \in 0..MaxFaults
    /\ abandoned \subseteq Grant /\ resent \subseteq Grant

\* start: the workflow is given the grant of the first bootstrap and refreshes
\* at once.
Init ==
    /\ pc = "refreshing" /\ accessToken = "none"
    /\ refreshToken = FirstToken(1) /\ client = 1
    /\ refreshes = 0 /\ paused = FALSE /\ lastError = "none"
    /\ newToken = 0 /\ newClient = 0
    /\ attempt = 1 /\ reply = "none" /\ out = FirstToken(1)
    /\ strays = {}
    /\ current = [g \in Grant |-> 0] /\ revoked = {} /\ granted = 1
    /\ signals = 0 /\ faults = 0
    /\ abandoned = {} /\ resent = {} /\ rejected = FALSE

-----------------------------------------------------------------------------
(***************************************************************************)
(* The token endpoint.                                                     *)
(***************************************************************************)
Accepted(c, t) == c = t.grant /\ t.gen = current[t.grant] /\ t.grant \notin revoked

\* The grant stays as it is, or its token is rotated and the one used is spent.
\* MaxGen bounds the rotations.
Rotate(g) ==
    current' \in {current} \union
        {[current EXCEPT ![g] = n] : n \in {current[g] + 1} \intersect Gen}

-----------------------------------------------------------------------------
(***************************************************************************)
(* Attempts of refresh_oauth_token.                                        *)
(***************************************************************************)
StatusOnly(answer) == answer.status \in {401, 403} \* mutant of AuthErrorInChain

\* auth_error_in_chain over the message built from the endpoint's answer.
AuthErrorInChain(answer) ==
    answer.status \in {401, 403} \/ answer.error \in {"invalid_grant", "unauthorized_client"}

Attempting ==
    /\ pc = "refreshing" /\ reply = "none"
    /\ UNCHANGED <<pc, accessToken, creds, refreshes, paused, lastError, offer, revoked,
                   granted, signals, resent, rejected>>

\* The attempt failed: the server schedules the next one, or gives up.
Retry ==
    \/ attempt < MaxAttempts /\ attempt' = attempt + 1 /\ UNCHANGED reply
    \/ attempt = MaxAttempts /\ reply' = "transient" /\ UNCHANGED attempt

AsPresented(t) == t                               \* mutant of Returned

\* RefreshOutput: the token in the answer when there is one, else the one sent.
Returned(t) == [grant |-> t.grant, gen |-> current'[t.grant]]

Exchange ==
    /\ Attempting
    /\ Accepted(client, refreshToken)
    /\ Rotate(refreshToken.grant)
    /\ out' = Returned(refreshToken)
    /\ reply' = "ok"
    /\ UNCHANGED <<attempt, strays, faults, abandoned>>

\* The endpoint refuses the credential.  Only an answer recognised as an auth
\* error ends the retries.
Refuse ==
    /\ Attempting
    /\ ~Accepted(client, refreshToken)
    /\ \E answer \in Refusals :
          \/ AuthErrorInChain(answer) /\ reply' = "auth" /\ UNCHANGED attempt
          \/ ~AuthErrorInChain(answer) /\ Retry
    /\ UNCHANGED <<out, strays, current, faults, abandoned>>

\* MaxFaults bounds the faults and time-outs of a behaviour.
Faulty == faults < MaxFaults /\ faults' = faults + 1

\* The endpoint is down, or answers with a server error before it looks at the
\* token.
EndpointDown ==
    /\ Attempting
    /\ Faulty
    /\ Retry
    /\ UNCHANGED <<out, strays, current, abandoned>>

\* The attempt times out, or its worker dies: the request may be on its way
\* still, or have been served with the answer lost (see LateExchange).
TimeOut ==
    /\ Attempting
    /\ Faulty
    /\ Retry
    /\ strays' = strays \union {[client |-> client, token |-> refreshToken]}
    /\ abandoned' = abandoned \union {refreshToken.grant}
    /\ UNCHANGED <<out, current>>

LateExchange ==
    /\ \E r \in strays :
          /\ Accepted(r.client, r.token)
          /\ Rotate(r.token.grant)
          /\ strays' = strays \ {r}
    /\ UNCHANGED <<pc, accessToken, creds, refreshes, paused, lastError, offer, act, revoked,
                   granted, signals, faults, abandoned, resent, rejected>>

-----------------------------------------------------------------------------
(***************************************************************************)
(* run(): the loop of the workflow.                                        *)
(***************************************************************************)
\* execute_activity, with the token that is held now.
ExecuteRefresh(token) ==
    /\ pc' = "refreshing"
    /\ attempt' = 1 /\ reply' = "none" /\ out' = token

Looping == UNCHANGED <<strays, outside, signals, faults, abandoned, resent>>

Adopt ==
    /\ pc = "refreshing" /\ reply = "ok"
    /\ pc' = "sleeping"
    /\ accessToken' = "valid"
    /\ refreshToken' = out
    /\ refreshes' = refreshes + 1
    /\ lastError' = "none"
    /\ attempt' = 1 /\ reply' = "none" /\ UNCHANGED out
    /\ UNCHANGED <<client, paused, offer, rejected>>
    /\ Looping

Park ==
    /\ pc = "refreshing" /\ reply = "auth"
    /\ pc' = "parked"
    /\ paused' = TRUE /\ rejected' = TRUE
    /\ lastError' = "auth"
    /\ attempt' = 1 /\ reply' = "none" /\ UNCHANGED out
    /\ UNCHANGED <<accessToken, creds, refreshes, offer>>
    /\ Looping

BackOff ==
    /\ pc = "refreshing" /\ reply = "transient"
    /\ pc' = "backoff"
    /\ lastError' = "transient"
    /\ attempt' = 1 /\ reply' = "none" /\ UNCHANGED out
    /\ UNCHANGED <<accessToken, creds, refreshes, paused, offer, rejected>>
    /\ Looping

\* MUTANTS of BackoffElapsed: the workflow never tries again; the loop does not
\* wait out a pause.
GivenUp == FALSE
PauseIgnored == pc \in {"backoff", "parked"}

\* A durable timer runs out at any moment: time is not modelled.
BackoffElapsed == pc = "backoff"

TryAgain ==
    /\ BackoffElapsed
    /\ ExecuteRefresh(refreshToken)
    /\ UNCHANGED <<accessToken, creds, refreshes, paused, lastError, offer, rejected>>
    /\ Looping

SameClient(g) == client                           \* mutant of ClientAfter

\* What reauthorize handed over replaces what is held, where there is any.
TokenAfter(g)  == IF g # 0 THEN FirstToken(g) ELSE refreshToken
ClientAfter(g) == IF g # 0 THEN g ELSE client

Unpark ==
    /\ pc = "parked" /\ ~paused
    /\ refreshToken' = TokenAfter(newToken) /\ newToken' = 0
    /\ client' = ClientAfter(newClient) /\ newClient' = 0
    /\ ExecuteRefresh(TokenAfter(newToken))
    /\ UNCHANGED <<accessToken, refreshes, paused, lastError, rejected>>
    /\ Looping

NapOver == pc = "sleeping"

\* The access token is near its expiry.
Wake ==
    /\ NapOver
    /\ refreshes < RefreshesBeforeContinue
    /\ ExecuteRefresh(refreshToken)
    /\ UNCHANGED <<accessToken, creds, refreshes, paused, lastError, offer, rejected>>
    /\ Looping

\* MUTANTS of the carried values: the count goes on, the query starts cold.
CountKept == refreshes
Cold == "none"

CarriedCount == 0
CarriedAccess == accessToken

\* Or history is rolled first.  The signal handlers have finished: they are
\* plain functions.  What is not in AuthParams starts over.
ContinueAsNew ==
    /\ NapOver
    /\ refreshes >= RefreshesBeforeContinue
    /\ UNCHANGED creds /\ accessToken' = CarriedAccess
    /\ refreshes' = CarriedCount
    /\ paused' = FALSE /\ lastError' = "none"
    /\ newToken' = 0 /\ newClient' = 0
    /\ ExecuteRefresh(refreshToken)
    /\ UNCHANGED rejected
    /\ Looping

-----------------------------------------------------------------------------
(***************************************************************************)
(* The signal, and the world around the workflow.                          *)
(***************************************************************************)
\* reauthorize: with the credential file's content, as reauthorize.py sends it,
\* or bare.  MaxSignals bounds how many a behaviour has.
Reauthorize(g) ==
    /\ signals < MaxSignals /\ signals' = signals + 1
    /\ newToken' = IF g # 0 THEN g ELSE newToken
    /\ newClient' = IF g # 0 THEN g ELSE newClient
    /\ paused' = FALSE /\ rejected' = FALSE
    /\ resent' = IF g = refreshToken.grant THEN resent \union {g} ELSE resent
    /\ UNCHANGED <<pc, accessToken, creds, refreshes, lastError, act, strays, outside,
                   faults, abandoned>>

\* The human consents in the browser: a new client, a new grant, a new file.
\* MaxGrants bounds how often.
Bootstrap ==
    /\ granted < MaxGrants
    /\ granted' = granted + 1
    /\ UNCHANGED <<pc, accessToken, creds, refreshes, paused, lastError, offer, act, strays,
                   current, revoked, signals, faults, abandoned, resent, rejected>>

Revoke(g) ==
    /\ g <= granted /\ g \notin revoked
    /\ revoked' = revoked \union {g}
    /\ UNCHANGED <<pc, accessToken, creds, refreshes, paused, lastError, offer, act, strays,
                   current, granted, signals, faults, abandoned, resent, rejected>>

\* The access token's lifetime ends, at any moment.
Lapse ==
    /\ accessToken = "valid" /\ accessToken' = "lapsed"
    /\ UNCHANGED <<pc, creds, refreshes, paused, lastError, offer, act, strays, outside,
                   signals, faults, abandoned, resent, rejected>>

-----------------------------------------------------------------------------
Attempts == Exchange \/ Refuse \/ EndpointDown \/ TimeOut

Workflow == Adopt \/ Park \/ BackOff \/ TryAgain \/ Unpark \/ Wake \/ ContinueAsNew

World ==
    \/ Reauthorize(0) \/ Reauthorize(granted)
    \/ Bootstrap \/ Lapse \/ LateExchange
    \/ \E g \in Grant : Revoke(g)

Next == Workflow \/ Attempts \/ World

Spec == Init /\ [][Next]_vars

\* A worker polls the queue.  Nobody has to signal, and no stray has to arrive.
FairSpec == Spec /\ WF_vars(Workflow) /\ WF_vars(Attempts)
-----------------------------------------------------------------------------
(***************************************************************************)
(* Properties.                                                             *)
(***************************************************************************)
\* Grants that something outside the workflow may have made useless: revoked,
\* presented by an attempt whose answer was never seen, or handed over twice.
Troubled == revoked \union abandoned \union resent

\* The token that the workflow holds, or is about to.
Latest == IF reply = "ok" THEN out ELSE refreshToken

\* The workflow never locks itself out: through rotations, retries, pauses,
\* re-authorizations and history rolls, the endpoint accepts the credentials
\* it holds, unless something outside has troubled their grant.
NeverLockedOut == Latest.grant \notin Troubled => Accepted(client, Latest)

\* After a rejection nothing more is presented until somebody re-authorizes,
\* and the status query says why.
RejectionParks ==
    rejected => pc = "parked" /\ paused /\ lastError = "auth"

\* Whatever outages, expiries and rolls come, the workflow comes back to a valid
\* access token again and again, unless it waits for a human after a rejection.
HealsItself == []<>(accessToken = "valid" \/ rejected)

\* A credential that the provider has revoked parks the workflow for good
\* instead of being presented over and over.
DeadGrantParks == <>[](refreshToken.grant \in revoked) => <>[](pc = "parked")

\* A parked workflow that is handed fresh credentials adopts them and refreshes
\* with them, unless their grant is troubled in turn.
FreshHandedOver ==
    pc = "parked" /\ ~paused /\ newToken # 0 /\ newToken \notin Troubled
HealsInPlace ==
    FreshHandedOver
        ~> (pc = "sleeping" \/ (pc # "parked" /\ refreshToken.grant \in Troubled))

\* What reauthorize.py's header says of a grant that was revoked: the workflow
\* "just picks up the fresh creds on its next refresh".
PicksUpFresh ==
    /\ pc # "refreshing" /\ pc' = "refreshing"
    /\ refreshToken.grant \in revoked
    /\ newToken # 0 /\ newToken \notin Troubled
    => refreshToken' = FirstToken(newToken)
PickedUpNextRefresh == [][PicksUpFresh]_vars

\* To those who query it the workflow is a Credential, which waits for a human
\* from a rejection to the next reauthorize.  In particular the query, once it
\* has answered with a token, never comes back empty, at a history roll either.
\* The fairness Credential promises is HealsItself.
Cred == INSTANCE Credential WITH access <- accessToken, stopped <- rejected
ImplementsCredential == Cred!Spec

-----------------------------------------------------------------------------
(***************************************************************************)
(* The invariant the proofs rest on, beside the types.                     *)
(***************************************************************************)
\* A token and its client are handed over and applied together.
Paired ==
    /\ client = refreshToken.grant /\ newClient = newToken
    /\ \A r \in strays : r.client = r.token.grant

\* Grants are handed over in the order of the bootstraps.
Ordered ==
    /\ newToken <= granted /\ refreshToken.grant <= granted
    /\ newToken # 0 /\ newToken \notin resent => newToken > refreshToken.grant
    /\ newToken # 0 => newToken >= refreshToken.grant

\* What has not been held yet is unused; a stray's grant is abandoned.
Unspent ==
    /\ \A g \in Grant : g > refreshToken.grant => current[g] = 0
    /\ \A r \in strays : r.token.grant \in abandoned /\ r.token.grant <= refreshToken.grant

\* The newest generation is never dropped.
Kept ==
    /\ reply = "ok" => pc = "refreshing" /\ out.grant = refreshToken.grant
    /\ Latest.grant \notin Troubled => Latest.gen = current[Latest.grant]

\* The count stops where the workflow rolls.
Counted ==
    /\ pc # "sleeping" => refreshes < RefreshesBeforeContinue
    /\ paused => pc = "parked" /\ lastError = "auth"
    /\ rejected => paused

IInv == TypeOK /\ Paired /\ Ordered /\ Unspent /\ Kept /\ Counted
=============================================================================
