----------------------------- MODULE Credential -----------------------------
(***************************************************************************)
(* What the token workflow promises to those who query it: once it has     *)
(* answered with an access token it always answers, perhaps with one that  *)
(* has lapsed; unless it has stopped, which takes a rejection to begin and *)
(* a human to end, it comes to answer with a valid one again.              *)
(***************************************************************************)

VARIABLES access,   \* the token get_access_token answers with: "none",
                    \* "valid" or "lapsed"
          stopped   \* does the workflow wait for a human?

credentialVars == <<access, stopped>>

Init == access = "none" /\ stopped = FALSE

Renew ==
    /\ ~stopped
    /\ access' = "valid"
    /\ UNCHANGED stopped

Lapse ==
    /\ access = "valid" /\ access' = "lapsed"
    /\ UNCHANGED stopped

Stop ==
    /\ ~stopped /\ stopped' = TRUE
    /\ UNCHANGED access

Restart ==
    /\ stopped /\ stopped' = FALSE
    /\ UNCHANGED access

Next == Renew \/ Lapse \/ Stop \/ Restart

Spec == Init /\ [][Next]_credentialVars

FairSpec == Spec /\ WF_credentialVars(Renew)
=============================================================================
