------------------------- MODULE CredentialFile_proofs -------------------------
(***************************************************************************)
(* The credential file, for any number of scripts, tokens and kills: it     *)
(* stays whole and keeps a good token as long as no two scripts meet.       *)
(***************************************************************************)
EXTENDS CredentialFile, TLAPS

\* Types, and no token is known before the provider issued it.
Typed ==
    /\ issued \in Nat /\ issued <= MaxTokens
    /\ file \in [token : Nat, whole : BOOLEAN] /\ tmp \in [token : Nat, whole : BOOLEAN]
    /\ holds \in [Script -> Nat] /\ owned \in Nat /\ handed \in Nat
    /\ overlap \in BOOLEAN /\ lost \in BOOLEAN
    /\ does \in [Script -> Places]
Issued ==
    /\ file.token <= issued /\ tmp.token <= issued /\ owned <= issued /\ handed <= issued
    /\ \A s \in Script : holds[s] <= issued
    /\ \A t \in valid : t \in Nat /\ 1 <= t /\ t <= issued

\* The file's token is accepted, unless the workflow took it over.
FileGood == ~lost /\ file.token # 0 /\ file.token # handed => file.token \in valid

\* What script s knows: a token it loaded is the file's; one it is going to save is
\* accepted and not the workflow's; and the file it is about to rename is complete.
Knows(s) ==
    /\ does[s].at = "loaded" => holds[s] = file.token /\ file.token # 0
    /\ does[s] = [kind |-> "prove", at |-> "loaded"] => handed = 0 \/ holds[s] # handed
    /\ does[s].at \in Saving => holds[s] \in valid /\ holds[s] # owned
    /\ does[s].at = "renaming" => tmp = [token |-> holds[s], whole |-> TRUE]

\* The file, the provider and the workflow, as long as no two scripts met; the
\* file's token is spent only between prove's refresh and its save.
Orderly ==
    /\ file.whole
    /\ FileGood \/ \E s \in Script : does[s].kind = "prove" /\ does[s].at \in Saving
    /\ handed = 0 <=> owned = 0
    /\ owned # 0 /\ file.token = owned => file.token = handed
    /\ ~lost /\ owned # 0 => owned \in valid

\* The inductive invariant.
FileInv ==
    /\ Typed /\ Issued
    /\ ~overlap =>
        /\ \A s, t \in Script : does[s] # Idle /\ does[t] # Idle => s = t
        /\ \A s \in Script : Knows(s)
        /\ Orderly

LEMMA Standing ==
  ASSUME Typed, NEW s \in Script
  PROVE  /\ does[s] = [kind |-> does[s].kind, at |-> does[s].at]
         /\ \/ does[s] = Idle
            \/ does[s].kind = "bootstrap" /\ does[s].at \in {"waiting"} \cup Saving
            \/ does[s].kind = "prove" /\ does[s].at \in {"loaded"} \cup Saving
            \/ does[s].kind = "start" /\ does[s].at = "loaded"
<1>1. does[s] \in Places
  BY DEF Typed
<1> QED BY <1>1 DEF Places, Idle

LEMMA InitFile == ASSUME FileInit PROVE FileInv
<1>1. Typed
  <2>1. does \in [Script -> Places]
    BY DEF FileInit, Places
  <2>2. file \in [token : Nat, whole : BOOLEAN] /\ tmp \in [token : Nat, whole : BOOLEAN]
    BY DEF FileInit, NoFile
  <2>3. issued \in Nat /\ issued <= MaxTokens
    BY FileAssumption DEF FileInit
  <2> QED BY <2>1, <2>2, <2>3 DEF FileInit, Typed
<1>0. Issued
  BY DEF FileInit, Issued, NoFile
<1>2. ASSUME NEW s \in Script PROVE Knows(s)
  <2>1. does[s] = Idle
    BY DEF FileInit
  <2>2. does[s].at = "idle"
    BY <2>1 DEF Idle
  <2>3. does[s] # [kind |-> "prove", at |-> "loaded"]
    BY <2>2
  <2> QED BY <2>2, <2>3 DEF Knows, Saving
<1>3. Orderly
  BY DEF FileInit, Orderly, FileGood, NoFile
<1>4. \A s \in Script : does[s] = Idle
  BY DEF FileInit
<1> QED BY <1>0, <1>1, <1>2, <1>3, <1>4 DEF FileInv

LEMMA PlacesKept == ASSUME Typed, FileNext PROVE does' \in [Script -> Places]
<1> USE DEF Typed
<1>1. CASE WorkflowRefreshes
  BY <1>1 DEF WorkflowRefreshes
<1>2. ASSUME NEW s \in Script, Runs(s) PROVE does' \in [Script -> Places]
  <2>1. CASE does' = [does EXCEPT ![s] = Idle]
    BY <2>1 DEF Places
  <2>2. CASE Bootstraps(s) \/ Load(s, "prove") \/ Load(s, "start")
    <3>1. PICK p \in Places : does' = [does EXCEPT ![s] = p]
      BY <2>2 DEF Bootstraps, Load, Begins, Places
    <3> QED BY <3>1
  <2>3. ASSUME NEW at \in Saving, Moves(s, at), does[s].kind \in {"bootstrap", "prove"}
        PROVE  does' \in [Script -> Places]
    <3>1. does' = [does EXCEPT ![s] = [kind |-> does[s].kind, at |-> at]]
      BY <2>3 DEF Moves
    <3>2. [kind |-> does[s].kind, at |-> at] \in Places
      BY <2>3 DEF Places
    <3> QED BY <3>1, <3>2
  <2>4. CASE \E at \in Saving : Moves(s, at)
    <3>1. does[s].kind \in {"bootstrap", "prove"}
      BY <1>2, <2>4, Standing
        DEF Runs, Bootstraps, Load, WaitForCallback, ProveRefreshes, ProveKeeps, OpenTmp,
            WriteTmp, Replace, StartTokenWorkflow, Killed, Moves, Ends, Begins, Idle, Saving
    <3> QED BY <2>3, <2>4, <3>1
  <2> QED
    BY <1>2, <2>1, <2>2, <2>4
      DEF Runs, WaitForCallback, ProveRefreshes, ProveKeeps, OpenTmp, WriteTmp, Replace,
          StartTokenWorkflow, Killed, Ends, Saving
<1> QED BY <1>1, <1>2 DEF FileNext

LEMMA TypedKept == ASSUME Typed, FileNext PROVE Typed'
<1> USE DEF Typed
<1>0. does' \in [Script -> Places]
  BY PlacesKept
<1> USE <1>0, FileAssumption
<1>1. CASE WorkflowRefreshes
  BY <1>1 DEF WorkflowRefreshes, Issue
<1>2. ASSUME NEW s \in Script, Runs(s) PROVE Typed'
  <2> USE DEF Ends
  <2>1. CASE Bootstraps(s)
    BY <2>1 DEF Bootstraps, Begins
  <2>2. CASE Load(s, "prove") \/ Load(s, "start")
    BY <2>2 DEF Load, Begins
  <2>3. CASE WaitForCallback(s)
    BY <2>3 DEF WaitForCallback, Issue
  <2>4. CASE ProveRefreshes(s)
    <3>1. CASE holds[s] \in valid
      <4>1. issued < MaxTokens /\ issued' = issued + 1
        BY <2>4, <3>1 DEF ProveRefreshes, Issue
      <4>2. \E n \in Nat : holds' = [holds EXCEPT ![s] = n]
        BY <2>4, <3>1, <4>1 DEF ProveRefreshes
      <4>3. lost' \in BOOLEAN
        BY <2>4, <3>1 DEF ProveRefreshes
      <4> QED BY <2>4, <4>1, <4>2, <4>3 DEF ProveRefreshes
    <3>2. CASE holds[s] \notin valid
      BY <2>4, <3>2 DEF ProveRefreshes
    <3> QED BY <3>1, <3>2
  <2>5. CASE ProveKeeps(s)
    BY <2>5 DEF ProveKeeps
  <2>6. CASE OpenTmp(s)
    BY <2>6 DEF OpenTmp
  <2>7. CASE WriteTmp(s)
    BY <2>7 DEF WriteTmp
  <2>8. CASE Replace(s)
    BY <2>8 DEF Replace, NoFile
  <2>9. CASE StartTokenWorkflow(s)
    BY <2>9 DEF StartTokenWorkflow
  <2>10. CASE Killed(s)
    BY <2>10 DEF Killed
  <2> QED BY <1>2, <2>1, <2>2, <2>3, <2>4, <2>5, <2>6, <2>7, <2>8, <2>9, <2>10 DEF Runs
<1> QED BY <1>1, <1>2 DEF FileNext

LEMMA IssuedKept == ASSUME Typed, Issued, FileNext PROVE Issued'
<1> USE DEF Typed, Issued
<1>1. CASE WorkflowRefreshes
  BY <1>1 DEF WorkflowRefreshes, Issue
<1>2. ASSUME NEW s \in Script, Runs(s) PROVE Issued'
  <2> USE DEF Ends
  <2>1. CASE Bootstraps(s)
    BY <2>1 DEF Bootstraps, Begins
  <2>2. CASE Load(s, "prove") \/ Load(s, "start")
    BY <2>2 DEF Load, Begins
  <2>3. CASE WaitForCallback(s)
    BY <2>3 DEF WaitForCallback, Issue
  <2>4. CASE ProveRefreshes(s)
    BY <2>4 DEF ProveRefreshes, Issue
  <2>5. CASE ProveKeeps(s)
    BY <2>5 DEF ProveKeeps
  <2>6. CASE OpenTmp(s)
    BY <2>6 DEF OpenTmp
  <2>7. CASE WriteTmp(s)
    BY <2>7 DEF WriteTmp
  <2>8. CASE Replace(s)
    BY <2>8 DEF Replace, NoFile
  <2>9. CASE StartTokenWorkflow(s)
    BY <2>9 DEF StartTokenWorkflow
  <2>10. CASE Killed(s)
    BY <2>10 DEF Killed
  <2> QED BY <1>2, <2>1, <2>2, <2>3, <2>4, <2>5, <2>6, <2>7, <2>8, <2>9, <2>10 DEF Runs
<1> QED BY <1>1, <1>2 DEF FileNext

\* While no two scripts meet, every other script is at rest.
LEMMA OthersRest ==
  ASSUME FileInv, NEW s \in Script, Runs(s), ~overlap', NEW t \in Script, t # s
  PROVE  does[t] = Idle /\ does'[t] = Idle
<1> USE DEF FileInv, Typed
<1>1. ~overlap
  BY DEF Runs, Bootstraps, Load, WaitForCallback, ProveRefreshes, ProveKeeps, OpenTmp, WriteTmp,
         Replace, StartTokenWorkflow, Killed, Begins
<1>2. does'[t] = does[t]
  BY DEF Runs, Bootstraps, Load, WaitForCallback, ProveRefreshes, ProveKeeps, OpenTmp, WriteTmp,
         Replace, StartTokenWorkflow, Killed, Begins, Moves, Ends
<1>3. CASE does[s] = Idle
  <2>1. Bootstraps(s) \/ Load(s, "prove") \/ Load(s, "start")
    BY <1>3 DEF Runs, WaitForCallback, ProveRefreshes, ProveKeeps, OpenTmp, WriteTmp, Replace,
                StartTokenWorkflow, Killed, Idle
  <2>2. Running = {}
    BY <2>1 DEF Bootstraps, Load, Begins
  <2> QED BY <1>2, <2>2 DEF Running
<1>4. CASE does[s] # Idle
  BY <1>1, <1>2, <1>4
<1> QED BY <1>3, <1>4

\* What a step of script s leaves to s and to the file, when the others are at rest.
LEMMA StepOrderly ==
  ASSUME FileInv, NEW s \in Script, Runs(s), ~overlap'
  PROVE  Knows(s)' /\ Orderly'
<1> USE DEF FileInv, Typed, Issued
<1>1. ~overlap
  BY DEF Runs, Bootstraps, Load, WaitForCallback, ProveRefreshes, ProveKeeps, OpenTmp, WriteTmp,
         Replace, StartTokenWorkflow, Killed, Begins
<1>2. Knows(s) /\ Orderly
  BY <1>1
<1>3. FileGood \/ (does[s].kind = "prove" /\ does[s].at \in Saving)
  <2>1. ASSUME NEW t \in Script, t # s PROVE does[t].kind # "prove"
    BY <2>1, OthersRest DEF Idle
  <2> QED BY <1>2, <2>1 DEF Orderly
<1>4. does[s] = [kind |-> does[s].kind, at |-> does[s].at]
  BY Standing
<1>5. CASE Bootstraps(s)
  <2>1. does'[s] = [kind |-> "bootstrap", at |-> "waiting"] /\ does[s] = Idle
    BY <1>5 DEF Bootstraps, Begins
  <2>2. Knows(s)'
    BY <2>1 DEF Knows, Saving
  <2>3. Orderly'
    BY <1>2, <1>3, <1>5, <2>1 DEF Bootstraps, Orderly, FileGood, Idle
  <2> QED BY <2>2, <2>3
<1>6. ASSUME NEW kind, Load(s, kind) PROVE Knows(s)' /\ Orderly'
  <2>1. does'[s] = [kind |-> kind, at |-> "loaded"] /\ does[s] = Idle
    BY <1>6 DEF Load, Begins
  <2>2. Knows(s)'
    BY <1>6, <2>1 DEF Load, Begins, Knows, Saving
  <2>3. Orderly'
    BY <1>2, <1>3, <1>6, <2>1 DEF Load, Orderly, FileGood, Idle
  <2> QED BY <2>2, <2>3
<1>7. CASE WaitForCallback(s)
  <2>0. does[s].kind = "bootstrap" /\ FileGood
    BY <1>3, <1>7 DEF WaitForCallback
  <2>1. CASE does' = [does EXCEPT ![s] = Idle] /\ valid' = valid
    <3>1. does'[s] = Idle
      BY <2>1
    <3> QED BY <1>2, <1>7, <2>0, <2>1, <3>1 DEF WaitForCallback, Knows, Orderly, FileGood, Saving, Idle
  <2>2. CASE Issue({}) /\ holds' = [holds EXCEPT ![s] = issued'] /\ Moves(s, "saving")
    <3>1. does'[s] = [kind |-> "bootstrap", at |-> "saving"] /\ holds'[s] = issued + 1
      BY <2>0, <2>2 DEF Moves, Issue
    <3>2. valid \subseteq valid' /\ holds'[s] \in valid'
      BY <2>2, <3>1 DEF Issue
    <3>3. UNCHANGED <<file, owned, handed, lost>>
      BY <1>7 DEF WaitForCallback
    <3>4. Knows(s)'
      BY <3>1, <3>2, <3>3 DEF Knows
    <3>5. Orderly'
      BY <1>2, <2>0, <3>2, <3>3 DEF Orderly, FileGood
    <3> QED BY <3>4, <3>5
  <2> QED BY <1>7, <2>1, <2>2 DEF WaitForCallback, Ends
<1>8. CASE ProveRefreshes(s)
  <2>0. /\ does[s] = [kind |-> "prove", at |-> "loaded"] /\ FileGood
        /\ holds[s] = file.token /\ file.token # 0
        /\ UNCHANGED <<file, tmp, owned, handed>>
    BY <1>2, <1>3, <1>8 DEF ProveRefreshes, Knows, Saving
  <2>1. CASE holds[s] \notin valid
    <3>1. does'[s] = Idle /\ UNCHANGED <<valid, lost>>
      BY <1>8, <2>1 DEF ProveRefreshes, Ends
    <3> QED BY <1>2, <2>0, <3>1 DEF Knows, Orderly, FileGood, Saving, Idle
  <2>2. CASE holds[s] \in valid
    <3>1. issued' = issued + 1 /\ valid' = (valid \ {holds[s]}) \cup {issued'}
      BY <1>8, <2>2 DEF ProveRefreshes, Issue
    <3>2. owned # 0 => owned # holds[s]
      BY <1>2, <2>0 DEF Orderly, Knows
    <3>3. ~lost /\ owned # 0 => owned \in valid'
      BY <1>2, <3>1, <3>2 DEF Orderly
    <3>4. CASE lost' = TRUE /\ does'[s] = Idle
      BY <1>2, <2>0, <3>4 DEF Knows, Orderly, FileGood, Saving, Idle
    <3>5. CASE /\ does'[s] = [kind |-> "prove", at |-> "saving"]
               /\ holds'[s] = issued' /\ lost' = lost
      <4>1. Knows(s)'
        BY <2>0, <3>1, <3>5 DEF Knows
      <4>2. Orderly'
        BY <1>2, <2>0, <3>3, <3>5 DEF Orderly, Saving
      <4> QED BY <4>1, <4>2
    <3>6. \/ holds' = [holds EXCEPT ![s] = issued'] /\ Moves(s, "saving") /\ lost' = lost
          \/ Ends(s) /\ lost' = TRUE
      BY <1>8, <2>2 DEF ProveRefreshes
    <3>7. CASE holds' = [holds EXCEPT ![s] = issued'] /\ Moves(s, "saving") /\ lost' = lost
      <4>1. does'[s] = [kind |-> "prove", at |-> "saving"]
        BY <2>0, <3>7 DEF Moves
      <4> QED BY <3>5, <3>7, <4>1
    <3>8. CASE Ends(s) /\ lost' = TRUE
      BY <3>4, <3>8 DEF Ends
    <3> QED BY <3>6, <3>7, <3>8
  <2> QED BY <2>1, <2>2
<1>9. CASE ProveKeeps(s)
  <2>1. does'[s] = Idle /\ FileGood
    BY <1>3, <1>9 DEF ProveKeeps, Ends, Saving
  <2> QED BY <1>2, <1>9, <2>1 DEF ProveKeeps, Knows, Orderly, FileGood, Saving, Idle
<1>10. CASE OpenTmp(s) \/ WriteTmp(s)
  <2>1. /\ does[s].at \in Saving /\ does'[s].at \in Saving /\ does'[s].kind = does[s].kind
        /\ does'[s].at = "renaming" => tmp' = [token |-> holds[s], whole |-> TRUE]
        /\ does'[s].at # "loaded"
        /\ UNCHANGED <<file, valid, holds, owned, handed, lost>>
    BY <1>10 DEF OpenTmp, WriteTmp, Moves, Saving
  <2>2. Knows(s)'
    BY <1>2, <2>1 DEF Knows
  <2>3. Orderly'
    BY <1>2, <1>3, <2>1 DEF Orderly, FileGood
  <2> QED BY <2>2, <2>3
<1>11. CASE Replace(s)
  <2>1. /\ holds[s] \in valid /\ holds[s] # owned /\ tmp = [token |-> holds[s], whole |-> TRUE]
    BY <1>2, <1>11 DEF Replace, Knows, Saving
  <2>2. holds[s] # 0
    BY <2>1
  <2>3. /\ file' = [token |-> holds[s], whole |-> TRUE] /\ does'[s] = Idle
        /\ UNCHANGED <<valid, owned, handed, lost>>
    BY <1>11, <2>1, <2>2 DEF Replace, NoFile, Ends
  <2> QED BY <1>2, <2>1, <2>3 DEF Knows, Orderly, FileGood, Saving, Idle
<1>12. CASE StartTokenWorkflow(s)
  <2>1. /\ FileGood /\ holds[s] = file.token /\ file.token # 0 /\ does'[s] = Idle
        /\ UNCHANGED <<file, valid, lost>>
    BY <1>2, <1>3, <1>12 DEF StartTokenWorkflow, Knows, Ends, Saving
  <2>2. CASE owned = 0
    <3>1. owned' = file.token /\ handed' = file.token /\ handed = 0
      BY <1>2, <1>12, <2>1, <2>2 DEF StartTokenWorkflow, Orderly
    <3> QED BY <1>2, <2>1, <3>1 DEF Knows, Orderly, FileGood, Saving, Idle
  <2>3. CASE owned # 0
    <3>1. UNCHANGED <<owned, handed>>
      BY <1>12, <2>3 DEF StartTokenWorkflow
    <3> QED BY <1>2, <2>1, <3>1 DEF Knows, Orderly, FileGood, Saving, Idle
  <2> QED BY <2>2, <2>3
<1>13. CASE Killed(s)
  <2>1. /\ does'[s] = Idle /\ lost' = (lost \/ (does[s].kind = "prove" /\ does[s].at \in Saving))
        /\ UNCHANGED <<file, valid, owned, handed>>
    BY <1>13 DEF Killed, Ends
  <2> QED BY <1>2, <1>3, <2>1 DEF Knows, Orderly, FileGood, Saving, Idle
<1> QED BY <1>5, <1>6, <1>7, <1>8, <1>9, <1>10, <1>11, <1>12, <1>13 DEF Runs

LEMMA FileInvKept == ASSUME FileInv, FileNext PROVE FileInv'
<1>1. Typed' /\ Issued'
  BY TypedKept, IssuedKept DEF FileInv
<1>2. CASE overlap'
  BY <1>1, <1>2 DEF FileInv
<1>3. CASE ~overlap' /\ WorkflowRefreshes
  <2>1. /\ Orderly /\ \A t \in Script : Knows(t)
        /\ \A t, u \in Script : does[t] # Idle /\ does[u] # Idle => t = u
    BY <1>3 DEF FileInv, WorkflowRefreshes
  <2>2. /\ UNCHANGED <<file, tmp, does, holds, handed, lost>> /\ owned' = issued + 1
        /\ valid' = (valid \ {owned}) \cup {owned'} /\ owned \in valid
    BY <1>3 DEF WorkflowRefreshes, Issue
  <2>3. ASSUME NEW t \in Script PROVE Knows(t)'
    BY <2>1, <2>2 DEF FileInv, Typed, Issued, Knows
  <2>4. owned # 0 /\ file.token # owned'
    BY <2>2 DEF FileInv, Typed, Issued
  <2>5. Orderly'
    BY <2>1, <2>2, <2>4 DEF FileInv, Typed, Issued, Orderly, FileGood
  <2> QED BY <1>1, <2>1, <2>2, <2>3, <2>5 DEF FileInv
<1>4. ASSUME NEW s \in Script, Runs(s), ~overlap' PROVE FileInv'
  <2>1. ASSUME NEW t \in Script PROVE Knows(t)'
    <3>1. CASE t # s
      BY <1>4, <3>1, OthersRest DEF Knows, Idle, Saving
    <3> QED BY <1>4, <3>1, StepOrderly
  <2>2. \A t \in Script : does'[t] # Idle => t = s
    BY <1>4, OthersRest
  <2> QED BY <1>1, <1>4, <2>1, <2>2, StepOrderly DEF FileInv
<1> QED BY <1>2, <1>3, <1>4 DEF FileNext

LEMMA FileInvStutter == ASSUME FileInv, UNCHANGED fileVars PROVE FileInv'
  BY DEF FileInv, Typed, Issued, Knows, Orderly, FileGood, fileVars

-----------------------------------------------------------------------------
\* Whoever runs, is killed or loses an answer: while no two scripts meet, the file is
\* whole, and its token good unless it was lost, handed over or is being replaced.
THEOREM FileHolds == FileSpec => []FileInv
<1>1. FileInv /\ [FileNext]_fileVars => FileInv'
  BY FileInvKept, FileInvStutter
<1> QED BY InitFile, <1>1, PTL DEF FileSpec

\* Type correctness of the credential file.
THEOREM FileTypeCorrect == FileSpec => []FileTypeOK
<1>1. ASSUME FileInv PROVE FileTypeOK
  <2>0. Typed /\ Issued
    BY <1>1 DEF FileInv
  <2> USE <2>0, FileAssumption DEF Typed, Issued
  <2>1. file.token \in 0 .. MaxTokens /\ tmp.token \in 0 .. MaxTokens
    OBVIOUS
  <2>2. /\ file \in [token : 0 .. MaxTokens, whole : BOOLEAN]
        /\ tmp \in [token : 0 .. MaxTokens, whole : BOOLEAN]
    BY <2>1
  <2>3. valid \subseteq 1 .. issued /\ issued \in 0 .. MaxTokens
    OBVIOUS
  <2>4. ASSUME NEW s \in Script PROVE holds[s] \in 0 .. MaxTokens
    <3>1. holds[s] \in Nat /\ holds[s] <= issued
      OBVIOUS
    <3> QED BY <3>1
  <2>5. holds \in [Script -> 0 .. MaxTokens]
    BY <2>4
  <2>6. {owned, handed} \subseteq 0 .. MaxTokens
    OBVIOUS
  <2> QED BY <2>2, <2>3, <2>5, <2>6 DEF FileTypeOK
<1> QED BY FileHolds, <1>1, PTL

\* The credential file is sound: whole at every moment, and with a good token at rest.
THEOREM CredentialFileHolds == FileSpec => []CredentialFileSound
<1>1. ASSUME FileInv, ~overlap PROVE file.whole /\ (~lost /\ owned # 0 => owned \in valid)
  BY <1>1 DEF FileInv, Orderly
<1>2. ASSUME FileInv, ~overlap, Running = {} PROVE FileGood
  <2>1. \A s \in Script : does[s].kind = "none"
    BY <1>2 DEF Running, Idle
  <2> QED BY <1>2, <2>1 DEF FileInv, Orderly
<1>3. FileInv => CredentialFileSound
  BY <1>1, <1>2 DEF CredentialFileSound, FileGood
<1> QED BY FileHolds, <1>3, PTL
=============================================================================
