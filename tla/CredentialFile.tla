---------------------------- MODULE CredentialFile ----------------------------
(***************************************************************************)
(* The credential file of a provider and the scripts that share it before   *)
(* the workflow owns the token: bootstrap signs a human in and saves the    *)
(* first refresh token, prove spends it and saves its successor, start      *)
(* hands it over to the OAuthTokenWorkflow.  A save writes a file at the    *)
(* side and renames it; a script may be killed between any two steps.       *)
(***************************************************************************)
EXTENDS Naturals

CONSTANTS Script,      \* runs of bootstrap, prove and start
          MaxTokens    \* bound: refresh tokens the provider issues

ASSUME FileAssumption == MaxTokens \in Nat

VARIABLES file,        \* [token, whole]; token 0 if there is no file
          tmp,         \* the file at the side, the same for every script
          valid,       \* the tokens the provider accepts
          issued,      \* how many it issued
          does,        \* what a script does: its kind and where it is
          holds,       \* the token a script has in its memory
          owned,       \* the token of the workflow, 0 if none runs
          handed,      \* history: the token it was started with
          overlap,     \* history: two scripts ran at once, or prove took the
                       \* token that the workflow had taken over
          lost         \* history: a spent token's successor was never saved

fileVars == <<file, tmp, valid, issued, does, holds, owned, handed, overlap, lost>>

NoFile == [token |-> 0, whole |-> TRUE]
Idle == [kind |-> "none", at |-> "idle"]
Saving == {"saving", "writing", "renaming"}
Places == {Idle} \cup [kind : {"bootstrap"}, at : {"waiting"} \cup Saving]
                \cup [kind : {"prove"}, at : {"loaded"} \cup Saving]
                \cup [kind : {"start"}, at : {"loaded"}]
Running == {s \in Script : does[s] # Idle}

FileInit ==
    /\ file = NoFile /\ tmp = NoFile /\ valid = {} /\ issued = 0
    /\ does = [s \in Script |-> Idle] /\ holds = [s \in Script |-> 0]
    /\ owned = 0 /\ handed = 0 /\ overlap = FALSE /\ lost = FALSE

Moves(s, at) == does' = [does EXCEPT ![s] = [kind |-> does[s].kind, at |-> at]]
Ends(s) == does' = [does EXCEPT ![s] = Idle] /\ holds' = [holds EXCEPT ![s] = 0]
\* The provider issues a token, and takes back the one it was given.
Issue(spent) ==
    /\ issued < MaxTokens /\ issued' = issued + 1
    /\ valid' = (valid \ spent) \cup {issued'}

\* bootstrap: discover, register, wait for the browser; prove and start: load.
\* No file, or one that is no JSON: the script ends at once.
Begins(s, kind) ==
    /\ does[s] = Idle
    /\ does' = [does EXCEPT ![s] = [kind |-> kind,
                                    at |-> IF kind = "bootstrap" THEN "waiting" ELSE "loaded"]]
    /\ overlap' = (overlap \/ Running # {}
                 \/ (kind = "prove" /\ handed # 0 /\ file.token = handed))
Bootstraps(s) ==
    /\ Begins(s, "bootstrap")
    /\ UNCHANGED <<file, tmp, valid, issued, holds, owned, handed, lost>>
Load(s, kind) ==
    /\ kind \in {"prove", "start"}
    /\ file.token # 0 /\ file.whole
    /\ Begins(s, kind)
    /\ holds' = [holds EXCEPT ![s] = file.token]
    /\ UNCHANGED <<file, tmp, valid, issued, owned, handed, lost>>

\* The one request the callback server answers brings the code and the state, or
\* it is another one and the sign-in is over.
WaitForCallback(s) ==
    /\ does[s] = [kind |-> "bootstrap", at |-> "waiting"]
    /\ \/ /\ Issue({})
          /\ holds' = [holds EXCEPT ![s] = issued'] /\ Moves(s, "saving")
       \/ Ends(s) /\ UNCHANGED <<valid, issued>>
    /\ UNCHANGED <<file, tmp, owned, handed, overlap, lost>>

\* prove: the token is spent and its successor comes back, or the answer is lost;
\* a token that is spent already is refused.
ProveRefreshes(s) ==
    /\ does[s] = [kind |-> "prove", at |-> "loaded"]
    /\ IF holds[s] \in valid
       THEN /\ Issue({holds[s]})
            /\ \/ /\ holds' = [holds EXCEPT ![s] = issued'] /\ Moves(s, "saving")
                  /\ UNCHANGED lost
               \/ Ends(s) /\ lost' = TRUE
       ELSE Ends(s) /\ UNCHANGED <<valid, issued, lost>>
    /\ UNCHANGED <<file, tmp, owned, handed, overlap>>

\* A provider that does not rotate: nothing is to be saved.
ProveKeeps(s) ==
    /\ does[s] = [kind |-> "prove", at |-> "loaded"] /\ holds[s] \in valid
    /\ Ends(s)
    /\ UNCHANGED <<file, tmp, valid, issued, owned, handed, overlap, lost>>

\* mutant of OpenTmp: the credential file itself is opened and written.
OpenInPlace(s) ==
    /\ does[s].at = "saving"
    /\ tmp' = [token |-> holds[s], whole |-> FALSE] /\ file' = tmp' /\ Moves(s, "writing")
    /\ UNCHANGED <<valid, issued, holds, owned, handed, overlap, lost>>

\* save: open the file at the side (it is empty then), write it, rename it; the
\* rename fails if another script has renamed it away.
OpenTmp(s) ==
    /\ does[s].at = "saving"
    /\ tmp' = [token |-> holds[s], whole |-> FALSE] /\ Moves(s, "writing")
    /\ UNCHANGED <<file, valid, issued, holds, owned, handed, overlap, lost>>
WriteTmp(s) ==
    /\ does[s].at = "writing"
    /\ tmp' = [token |-> holds[s], whole |-> TRUE] /\ Moves(s, "renaming")
    /\ UNCHANGED <<file, valid, issued, holds, owned, handed, overlap, lost>>
Replace(s) ==
    /\ does[s].at = "renaming"
    /\ file' = IF tmp = NoFile THEN file ELSE tmp
    /\ tmp' = NoFile /\ Ends(s)
    /\ UNCHANGED <<valid, issued, owned, handed, overlap, lost>>

\* start: the workflow takes the token, unless one runs already.
StartTokenWorkflow(s) ==
    /\ does[s] = [kind |-> "start", at |-> "loaded"]
    /\ IF owned = 0 THEN owned' = holds[s] /\ handed' = holds[s] ELSE UNCHANGED <<owned, handed>>
    /\ Ends(s)
    /\ UNCHANGED <<file, tmp, valid, issued, overlap, lost>>

\* From then on the workflow spends the tokens, and keeps their successors.
WorkflowRefreshes ==
    /\ owned \in valid /\ Issue({owned}) /\ owned' = issued'
    /\ UNCHANGED <<file, tmp, does, holds, handed, overlap, lost>>

Killed(s) ==
    /\ does[s] # Idle
    /\ lost' = (lost \/ (does[s].kind = "prove" /\ does[s].at \in Saving))
    /\ Ends(s)
    /\ UNCHANGED <<file, tmp, valid, issued, owned, handed, overlap>>

Runs(s) ==
    \/ Bootstraps(s) \/ Load(s, "prove") \/ Load(s, "start")
    \/ WaitForCallback(s) \/ ProveRefreshes(s) \/ ProveKeeps(s)
    \/ OpenTmp(s) \/ WriteTmp(s) \/ Replace(s)
    \/ StartTokenWorkflow(s) \/ Killed(s)
FileNext == WorkflowRefreshes \/ \E s \in Script : Runs(s)
FileSpec == FileInit /\ [][FileNext]_fileVars

-----------------------------------------------------------------------------
\* Properties.

FileTypeOK ==
    /\ file \in [token : 0 .. MaxTokens, whole : BOOLEAN]
    /\ tmp \in [token : 0 .. MaxTokens, whole : BOOLEAN]
    /\ valid \subseteq 1 .. issued /\ issued \in 0 .. MaxTokens
    /\ does \in [Script -> Places]
    /\ holds \in [Script -> 0 .. MaxTokens] /\ {owned, handed} \subseteq 0 .. MaxTokens
    /\ overlap \in BOOLEAN /\ lost \in BOOLEAN

\* As long as the scripts run one after the other, the file is whole at every
\* moment, whenever a script is killed and whatever an earlier one left at the
\* side; it holds a token the provider still accepts, unless the workflow has
\* taken it over or a script that is going to replace it is at work; and the
\* workflow's own token is good.  (A prove killed after it spent the token and
\* before it saved the successor loses it: the save is atomic, the spending and
\* the save together are not.)
CredentialFileSound ==
    ~overlap =>
        /\ file.whole
        /\ ~lost /\ file.token # 0 /\ file.token # handed /\ Running = {} => file.token \in valid
        /\ ~lost /\ owned # 0 => owned \in valid
=============================================================================
