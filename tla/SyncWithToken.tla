---------------------------- MODULE SyncWithToken ----------------------------
(***************************************************************************)
(* A sync workflow beside the token workflow whose access token its        *)
(* sessions carry (connectors/notion, connectors/contentful over MCP).     *)
(*                                                                         *)
(* The token workflow is what Credential says of it, which OAuthToken is   *)
(* shown to implement.  Of the sync workflow only what a credential can    *)
(* disturb is here: each attempt of SYNC_RECORDS asks for the access       *)
(* token once, when it opens its session, and uses it to the end of the    *)
(* attempt, 15 minutes at most, while the token workflow renews its token  *)
(* 5 minutes before it expires.                                            *)
(***************************************************************************)
EXTENDS Naturals

CONSTANTS
    MaxAttempts,   \* RetryPolicy(maximum_attempts = ...)
    MaxFaults,     \* bound on transient faults and on revocations
    MaxSignals     \* bound on the resume signals

ASSUME SyncWithTokenConstants ==
    MaxAttempts \in Nat \ {0} /\ MaxFaults \in Nat /\ MaxSignals \in Nat

VARIABLES
    \* -- the token workflow and the grant it refreshes under
    access, stopped,   \* see Credential
    dead,              \* has the grant been revoked at the provider?
    \* -- the sync workflow and its activity
    pc,                \* "waiting", "parked", "opening" or "writing"
    paused,            \* _state.paused, by an auth failure
    attempt,           \* number of the current attempt
    reply,             \* outcome the workflow has not seen yet
    session,           \* the access token in the session's headers
    shared,            \* is it still the one that queries are answered with?
    \* -- the outside
    faults,            \* faults and revocations so far
    signals            \* resumes so far

token == <<access, stopped, dead>>
sync  == <<pc, paused, attempt, reply, session, shared>>
vars  == <<token, sync, faults, signals>>

C == INSTANCE Credential

TypeOK ==
    /\ access \in {"none", "valid", "lapsed"} /\ stopped \in BOOLEAN /\ dead \in BOOLEAN
    /\ pc \in {"waiting", "parked", "opening", "writing"} /\ paused \in BOOLEAN
    /\ attempt \in 1..MaxAttempts
    /\ reply \in {"none", "ok", "transient", "auth"}
    /\ session \in {"none", "valid", "lapsed"} /\ shared \in BOOLEAN
    /\ faults \in 0..MaxFaults /\ signals \in 0..MaxSignals

\* Both workflows have just been started.
Init ==
    /\ C!Init /\ dead = FALSE
    /\ pc = "waiting" /\ paused = FALSE /\ attempt = 1 /\ reply = "none"
    /\ session = "none" /\ shared = FALSE
    /\ faults = 0 /\ signals = 0

-----------------------------------------------------------------------------
(***************************************************************************)
(* The token workflow.                                                     *)
(***************************************************************************)
\* A refresh, before the access token has expired or long after: an outage is
\* the time in which it does not come.  The session keeps its token.
Renew ==
    /\ ~dead
    /\ C!Renew
    /\ shared' = FALSE
    /\ UNCHANGED <<dead, pc, paused, attempt, reply, session, faults, signals>>

\* The access token expires, in the session too if it has the same.
Lapse ==
    /\ C!Lapse
    /\ session' = IF shared THEN "lapsed" ELSE session
    /\ UNCHANGED <<dead, pc, paused, attempt, reply, shared, faults, signals>>

\* A token that has been replaced since the session was opened expires.
SessionLapse ==
    /\ session = "valid" /\ ~shared
    /\ session' = "lapsed"
    /\ UNCHANGED <<token, pc, paused, attempt, reply, shared, faults, signals>>

Revoke ==
    /\ ~dead /\ dead' = TRUE
    /\ faults < MaxFaults /\ faults' = faults + 1
    /\ UNCHANGED <<access, stopped, sync, signals>>

\* The refresh of a dead grant is rejected.
Stop ==
    /\ dead
    /\ C!Stop
    /\ UNCHANGED <<dead, sync, faults, signals>>

\* A human bootstraps again and sends reauthorize.
Reauthorize ==
    /\ C!Restart
    /\ dead' = FALSE
    /\ UNCHANGED <<sync, faults, signals>>

-----------------------------------------------------------------------------
(***************************************************************************)
(* Attempts of SYNC_RECORDS.                                               *)
(***************************************************************************)
Attempting(place) ==
    /\ pc = place /\ reply = "none"
    /\ UNCHANGED <<token, paused, signals>>

CloseSession == session' = "none" /\ shared' = FALSE

OneMore == attempt <= MaxAttempts         \* mutant of AttemptsLeft

AttemptsLeft == attempt < MaxAttempts

\* A transient fault: the server schedules the next attempt, which opens a
\* session of its own, or gives up.
Retry ==
    /\ CloseSession
    /\ \/ /\ AttemptsLeft /\ attempt' = attempt + 1
          /\ pc' = "opening" /\ UNCHANGED reply
       \/ ~AttemptsLeft /\ reply' = "transient" /\ UNCHANGED <<pc, attempt>>

\* current_access_token and open_session.
Open ==
    /\ Attempting("opening")
    /\ access # "none"
    /\ session' = access /\ shared' = TRUE
    /\ pc' = "writing"
    /\ UNCHANGED <<attempt, reply, faults>>

\* MUTANT of Unready: the empty token is taken for an auth failure.
TakenForAuth ==
    /\ CloseSession
    /\ reply' = "auth" /\ UNCHANGED <<pc, attempt>>

\* An empty token is an error of the token workflow, to be retried.
Unready == Retry

OpenUnready ==
    /\ Attempting("opening")
    /\ access = "none"
    /\ Unready
    /\ UNCHANGED faults

\* The destination accepts the session's token.
Usable == session = "valid"

\* The batch is written to its end.
Write ==
    /\ Attempting("writing")
    /\ Usable
    /\ reply' = "ok"
    /\ CloseSession
    /\ UNCHANGED <<pc, attempt, faults>>

\* MUTANT of NotRetryable: the error keeps its type and is retried.
Retried == Retry

\* sync_records raises an AuthError, which the server does not retry.
NotRetryable ==
    /\ CloseSession
    /\ reply' = "auth" /\ UNCHANGED <<pc, attempt>>

\* 401: the destination does not accept the session's token any more.
Rejected ==
    /\ Attempting("writing")
    /\ ~Usable
    /\ NotRetryable
    /\ UNCHANGED faults

\* Any other error, a timeout or a crash; MaxFaults bounds how many.
Fault ==
    /\ Attempting("opening") \/ Attempting("writing")
    /\ faults < MaxFaults /\ faults' = faults + 1
    /\ Retry

-----------------------------------------------------------------------------
(***************************************************************************)
(* The sync workflow.                                                      *)
(***************************************************************************)
Looping == attempt' = 1 /\ reply' = "none" /\ UNCHANGED <<token, session, shared, faults, signals>>

\* The timer runs out, or somebody asks for a run.
StartRun ==
    /\ pc = "waiting" /\ ~paused
    /\ pc' = "opening"
    /\ UNCHANGED paused
    /\ Looping

Park ==
    /\ pc = "waiting" /\ paused
    /\ pc' = "parked"
    /\ UNCHANGED paused
    /\ Looping

Unpark ==
    /\ pc = "parked" /\ ~paused
    /\ pc' = "waiting"
    /\ UNCHANGED paused
    /\ Looping

\* A chunk is done; there is another one, or the run is over.
ActivityReturned ==
    /\ reply = "ok"
    /\ pc' \in {"opening", "waiting"}
    /\ UNCHANGED paused
    /\ Looping

Killed == "closed"                        \* mutant of NextPass

\* An error is recorded and the loop goes on.
NextPass == "waiting"

ActivityFailed ==
    /\ reply \in {"transient", "auth"}
    /\ pc' = NextPass
    /\ paused' = (paused \/ reply = "auth")
    /\ Looping

\* A human sends resume.  MaxSignals bounds how often.
Resume ==
    /\ paused /\ paused' = FALSE
    /\ signals < MaxSignals /\ signals' = signals + 1
    /\ UNCHANGED <<token, pc, attempt, reply, session, shared, faults>>

-----------------------------------------------------------------------------
Workflow == StartRun \/ Park \/ Unpark \/ ActivityReturned \/ ActivityFailed

Attempts == Open \/ OpenUnready \/ Write \/ Rejected \/ Fault

Next ==
    \/ Workflow \/ Attempts
    \/ Renew \/ Lapse \/ SessionLapse \/ Revoke \/ Stop
    \/ Reauthorize \/ Resume

Spec == Init /\ [][Next]_vars

\* A worker polls the queue; the token workflow keeps Credential's promise and
\* finds out about a dead grant; access tokens expire.  Nobody has to
\* re-authorize or resume.
FairSpec ==
    /\ Spec
    /\ WF_vars(Workflow) /\ WF_vars(Attempts)
    /\ WF_vars(Renew /\ access # "valid") /\ WF_vars(Stop)
    /\ WF_vars(Lapse) /\ WF_vars(SessionLapse)
-----------------------------------------------------------------------------
(***************************************************************************)
(* Properties.                                                             *)
(***************************************************************************)
\* A sync that was started before its token workflow had a token is never
\* paused for it: it fails, is retried, and succeeds when the token is there.
PausedOnlyAfterWarm == paused => access # "none"

\* A login that is lost for good pauses the sync for good: whatever tokens and
\* sessions are left, the dead credential is not presented over and over.
DeadLoginPauses == <>[](dead /\ access # "none") => <>[](pc = "parked" /\ reply = "none")

\* As long as the login is alive and nobody has to resume, syncs succeed again
\* and again, through outages and expiries of the token.
SyncsAgain == <>[](~dead /\ ~paused) => []<>(reply = "ok")

\* What the comment on the pause says, "Refresh token revoked/expired -> only a
\* human can fix it": a sync is paused only when the login has been lost.
PausesAtAuthFailure == ~paused /\ paused' => dead
PauseNeedsHuman == [][PausesAtAuthFailure]_vars

\* The invariant the proofs rest on: the session's token is the one served, or
\* it has been replaced; a session, like an auth failure, takes a token.
InStep ==
    /\ shared => session = access
    /\ session # "none" => access # "none"
    /\ pc = "writing" /\ reply = "none" => session # "none"
    /\ reply = "auth" => access # "none"
    /\ pc \in {"waiting", "parked"} => reply = "none"

IInv == TypeOK /\ InStep /\ PausedOnlyAfterWarm
=============================================================================
