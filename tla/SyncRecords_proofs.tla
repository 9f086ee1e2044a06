------------------------- MODULE SyncRecords_proofs -------------------------
(***************************************************************************)
(* Proofs about SyncRecords, for every batch, every set of keys and rows,  *)
(* every number of attempts and every kind of destination.                 *)
(***************************************************************************)
EXTENDS SyncRecords, FiniteSetTheorems, FunctionTheorems, WellFoundedInduction, TLAPS

USE SyncRecordsConstants DEF SyncRecordsConstants

\* The part of TypeOK the proofs need.
Typed ==
    /\ Keys \subseteq Key
    /\ pc \in [Attempt -> {"idle", "done", "failed"} \union Active]
    /\ todo \in [Attempt -> SUBSET Key] /\ unread \in [Attempt -> SUBSET Key]
    /\ existing \in [Attempt -> [Key -> RowId \union {NoRow}]]
    /\ fresh \in [Attempt -> (Key \X RowId) \union {NoPair}]
    /\ \A a \in Attempt : pc[a] = "link" => fresh[a] \in Key \X RowId
    /\ current \in Attempt
    /\ copies \in [Key -> SUBSET RowId] /\ found \in [Key -> SUBSET RowId]
    /\ torn \subseteq Key /\ passed \subseteq Key

\* What a page of the query tells: a row that answers the key, or that none does.
Told(a, page, seen) ==
    /\ seen \in [page -> RowId \union {NoRow}]
    /\ \A k \in page : IF seen[k] = NoRow THEN found[k] = {} ELSE seen[k] \in found[k]
    /\ existing' = [existing EXCEPT ![a] =
                      [k \in Key |-> IF k \in page THEN seen[k] ELSE existing[a][k]]]
    /\ unread' = [unread EXCEPT ![a] = unread[a] \ page]
    /\ pc' = [pc EXCEPT ![a] = IF page = unread[a] THEN "write" ELSE "query"]

LEMMA QueryTells ==
  ASSUME Typed, NEW a \in Attempt, Query(a)
  PROVE  \E page \in SUBSET unread[a] : \E seen : Told(a, page, seen)
  <1>1. PICK page \in SUBSET unread[a] : \E seen \in [page -> UNION {Known(a, k) : k \in page}] :
           /\ \A k \in page : seen[k] \in Known(a, k)
           /\ existing' = [existing EXCEPT ![a] =
                             [k \in Key |-> IF k \in page THEN seen[k] ELSE @[k]]]
           /\ unread' = [unread EXCEPT ![a] = @ \ page]
           /\ Goto(a, IF page = unread[a] THEN "write" ELSE "query")
    BY DEF Query
  <1>2. PICK seen \in [page -> UNION {Known(a, k) : k \in page}] :
           /\ \A k \in page : seen[k] \in Known(a, k)
           /\ existing' = [existing EXCEPT ![a] =
                             [k \in Key |-> IF k \in page THEN seen[k] ELSE @[k]]]
           /\ unread' = [unread EXCEPT ![a] = @ \ page]
           /\ Goto(a, IF page = unread[a] THEN "write" ELSE "query")
    BY <1>1
  <1>3. page \subseteq Key
    BY DEF Typed
  <1>4. \A k \in page : IF seen[k] = NoRow THEN found[k] = {} ELSE seen[k] \in found[k]
    BY <1>2, <1>3 DEF Known, Typed, RowId
  <1>5. \A k \in page : Known(a, k) \subseteq RowId \union {NoRow}
    BY <1>3 DEF Known, Typed
  <1>6. seen \in [page -> RowId \union {NoRow}]
    BY <1>2, <1>5
  <1>7. existing' = [existing EXCEPT ![a] =
                      [k \in Key |-> IF k \in page THEN seen[k] ELSE existing[a][k]]]
    BY <1>2 DEF Typed
  <1>8. unread' = [unread EXCEPT ![a] = unread[a] \ page]
    BY <1>2 DEF Typed
  <1>9. Told(a, page, seen)
    BY <1>2, <1>4, <1>6, <1>7, <1>8 DEF Told, Goto
  <1>10. QED
    BY <1>9

LEMMA TypedAlways == Spec => []Typed
  <1> USE DEF Typed, Attempt, RowId, Active, NoPair, Goto, Count
  <1>1. Init => Typed
    BY DEF Init, Keys
  <1>2. Typed /\ [Next]_vars => Typed'
    <2> SUFFICES ASSUME Typed, [Next]_vars PROVE Typed'
      OBVIOUS
    <2> USE DEF attempts, server, store, history
    <2> batch' = batch => Keys' = Keys
      BY DEF Keys
    <2>1. CASE LoseLinks
      BY <2>1 DEF LoseLinks
    <2>2. ASSUME NEW a \in Attempt, Step(a) PROVE Typed'
      <3>1. CASE Begin(a)
        BY <3>1 DEF Begin
      <3>2. CASE NotConfigured(a)
        BY <3>2 DEF NotConfigured
      <3>3. CASE Query(a)
        <4>1. PICK page \in SUBSET unread[a] : \E seen : Told(a, page, seen)
          BY <3>3, QueryTells
        <4>2. PICK seen : Told(a, page, seen)
          BY <4>1
        <4>3. [k \in Key |-> IF k \in page THEN seen[k] ELSE existing[a][k]]
                 \in [Key -> RowId \union {NoRow}]
          BY <4>2 DEF Told
        <4>4. /\ existing' \in [Attempt -> [Key -> RowId \union {NoRow}]]
              /\ unread' \in [Attempt -> SUBSET Key]
          BY <4>2, <4>3 DEF Told
        <4>5. /\ pc' \in [Attempt -> {"idle", "done", "failed"} \union Active]
              /\ \A b \in Attempt : pc'[b] = "link" => pc[b] = "link"
          BY <4>2 DEF Told
        <4>6. UNCHANGED <<batch, todo, fresh, current, copies, found, torn, passed>>
          BY <3>3 DEF Query
        <4>7. QED
          BY <4>4, <4>5, <4>6
      <3>4. ASSUME NEW k \in Key, Skip(a, k) PROVE Typed'
        BY <3>4 DEF Skip, Took
      <3>5. ASSUME NEW k \in Key, Update(a, k) PROVE Typed'
        BY <3>5 DEF Update, Took
      <3>6. ASSUME NEW k \in Key, Create(a, k) PROVE Typed'
        <4>1. PICK r \in NewIds(k) : MakeRow(a, k, r)
          BY <3>6 DEF Create
        <4>2. r \in RowId
          BY <4>1 DEF NewIds, Unused
        <4>3. /\ copies' \in [Key -> SUBSET RowId]
              /\ Stamp(k, r) \in [Key -> SUBSET RowId]
          BY <4>1, <4>2 DEF MakeRow, Stamp
        <4>4. /\ todo' \in [Attempt -> SUBSET Key]
              /\ UNCHANGED <<batch, unread, existing, current, torn, passed>>
          BY <3>6 DEF Create, Took
        <4>5. Keys' = Keys
          BY <4>4 DEF Keys
        <4>6. found' \in [Key -> SUBSET RowId]
          BY <4>1, <4>3 DEF MakeRow
        <4>7. <<k, r>> \in Key \X RowId
          BY <4>2
        <4>8. /\ pc' \in [Attempt -> {"idle", "done", "failed"} \union Active]
              /\ fresh' \in [Attempt -> (Key \X RowId) \union {NoPair}]
              /\ \A b \in Attempt : pc'[b] = "link" => fresh'[b] \in Key \X RowId
          <5>1. CASE KeyOnRow
            BY <4>1, <5>1 DEF MakeRow
          <5>2. CASE ~KeyOnRow
            <6>1. pc' = [pc EXCEPT ![a] = "link"] /\ fresh' = [fresh EXCEPT ![a] = <<k, r>>]
              BY <4>1, <5>2 DEF MakeRow
            <6>2. QED
              BY <4>7, <6>1
          <5>3. QED
            BY <5>1, <5>2
        <4>9. QED
          BY <4>3, <4>4, <4>5, <4>6, <4>8
      <3>7. CASE Link(a)
        BY <3>7 DEF Link, Stamp, Put
      <3>8. CASE Complete(a)
        BY <3>8 DEF Complete
      <3>9. ASSUME NEW k \in Key, MoveUp(a, k) PROVE Typed'
        BY <3>9 DEF MoveUp
      <3>10. QED
        BY <2>2, <3>1, <3>2, <3>3, <3>4, <3>5, <3>6, <3>7, <3>8, <3>9 DEF Step
    <2>3. ASSUME NEW a \in Attempt, Failure(a) PROVE Typed'
      <3>1. CASE Fail(a)
        BY <3>1 DEF Fail, Stop, NextAttempt, Tear
      <3>2. CASE Reject(a)
        BY <3>2 DEF Reject, Stop, Tear
      <3>3. CASE TimeOut(a)
        BY <3>3 DEF TimeOut, NextAttempt
      <3>4. QED
        BY <2>3, <3>1, <3>2, <3>3 DEF Failure
    <2>4. CASE UNCHANGED vars
      BY <2>4 DEF vars
    <2>5. QED
      BY <2>1, <2>2, <2>3, <2>4 DEF Next
  <1>3. QED
    BY <1>1, <1>2, PTL DEF Spec

-----------------------------------------------------------------------------
\* Rows whose id is derived from the key (deterministic_entry_id) cannot be
\* duplicated: a create that is repeated writes the same row.
LEMMA DerivedAlways == Spec => []DerivedInv
  <1> USE DEF DerivedInv
  <1>1. Init => DerivedInv
    BY DEF Init
  <1>2. Typed /\ DerivedInv /\ [Next]_vars => DerivedInv'
    <2> SUFFICES ASSUME Typed, DerivedInv, [Next]_vars PROVE DerivedInv'
      OBVIOUS
    <2> USE DEF attempts, server, store, history
    <2>1. ASSUME NEW a \in Attempt, NEW k \in Key, Create(a, k) PROVE DerivedInv'
      BY <2>1 DEF Create, Took, MakeRow, NewIds, Typed
    <2>2. ASSUME NEW a \in Attempt,
                 Begin(a) \/ NotConfigured(a) \/ Query(a) \/ Link(a) \/ Complete(a)
          PROVE  DerivedInv'
      BY <2>2 DEF Begin, NotConfigured, Query, Link, Complete
    <2>3. ASSUME NEW a \in Attempt, NEW k \in Key, MoveUp(a, k) \/ Skip(a, k) \/ Update(a, k)
          PROVE  DerivedInv'
      BY <2>3 DEF MoveUp, Skip, Update, Took
    <2>4. ASSUME NEW a \in Attempt, Failure(a) PROVE DerivedInv'
      BY <2>4 DEF Failure, Fail, Reject, TimeOut, Stop
    <2>5. CASE LoseLinks
      BY <2>5 DEF LoseLinks
    <2>6. CASE UNCHANGED vars
      BY <2>6 DEF vars
    <2>7. QED
      BY <2>1, <2>2, <2>3, <2>4, <2>5, <2>6 DEF Next, Step
  <1>3. QED
    BY <1>1, <1>2, TypedAlways, PTL DEF Spec

-----------------------------------------------------------------------------
\* As long as no attempt that still runs is given up, a key gets a second row
\* only where the query could not tell of the first: its attempt died between
\* create and link, the LinkStore lost its map, the row moved out of a scan, or
\* the column does not give the key back.  Retries and re-runs by themselves
\* never do it, in any kind of destination.
THEOREM SerialSafe == Spec => []SerialAttemptsDoNotDuplicate
  <1> USE DEF SerialInv, OneAtATime, RowsAnswer, CreatesMissing, SerialAttemptsDoNotDuplicate,
              Linking, OneCopy, Active, Astray, Unanswered
  <1>1. Init => SerialInv
    BY DEF Init
  <1>2. Typed /\ Typed' /\ SerialInv /\ DerivedInv' /\ [Next]_vars => SerialInv'
    <2> SUFFICES ASSUME Typed, Typed', SerialInv, DerivedInv', [Next]_vars PROVE SerialInv'
      OBVIOUS
    <2> USE DEF Typed, attempts, server, store, history, Goto, Count
    <2>1. ASSUME NEW a \in Attempt, Begin(a) PROVE SerialInv'
      BY <2>1 DEF Begin
    <2>2. ASSUME NEW a \in Attempt, NotConfigured(a) PROVE SerialInv'
      <3>1. \A b \in Attempt : pc'[b] = pc[b] \/ (b = a /\ pc[b] = "idle" /\ pc'[b] = "failed")
        BY <2>2 DEF NotConfigured
      <3>2. UNCHANGED <<mode, todo, unread, existing, fresh, current, copies, found, overlapped,
                        torn, passed>>
        BY <2>2 DEF NotConfigured
      <3>3. OneAtATime'
        BY <2>2, <3>1, <3>2 DEF NotConfigured
      <3>4. \A k \in Key : Linking(k) => Linking(k)'
        BY <3>1, <3>2
      <3>5. RowsAnswer'
        BY <3>2, <3>4
      <3>6. QED
        BY <3>1, <3>2, <3>3, <3>5, SMTT(30)
    <2>3. ASSUME NEW a \in Attempt, Query(a) PROVE SerialInv'
      <3>1. PICK page \in SUBSET unread[a] : \E seen : Told(a, page, seen)
        BY <2>3, QueryTells
      <3>2. PICK seen : Told(a, page, seen)
        BY <3>1
      <3>3. UNCHANGED <<mode, todo, fresh, current, verdict, copies, found, overlapped, torn, passed>>
            /\ pc[a] = "query"
        BY <2>3 DEF Query
      <3>4. /\ \A b \in Attempt \ {a} : pc'[b] = pc[b] /\ existing'[b] = existing[b]
                                         /\ unread'[b] = unread[b]
            /\ pc'[a] = IF page = unread[a] THEN "write" ELSE "query"
            /\ unread'[a] = unread[a] \ page
        BY <3>2 DEF Told
      <3>5. ASSUME NEW k \in Key, k \notin unread'[a], existing'[a][k] = NoRow
            PROVE  found[k] = {} \/ (k \notin unread[a] /\ existing[a][k] = NoRow)
        <4>1. existing'[a] = [o \in Key |-> IF o \in page THEN seen[o] ELSE existing[a][o]]
          BY <3>2 DEF Told
        <4>2. CASE k \in page
          BY <3>2, <3>5, <4>1, <4>2 DEF Told
        <4>3. CASE k \notin page
          BY <3>4, <3>5, <4>1, <4>3
        <4>4. QED
          BY <4>2, <4>3
      <3>6. OneAtATime'
        BY <3>3, <3>4
      <3>7. \A k \in Key : Linking(k) => Linking(k)'
        BY <3>3, <3>4
      <3>8. RowsAnswer'
        BY <3>3, <3>7
      <3>9. CreatesMissing'
        <4> SUFFICES ASSUME ~overlapped, mode # "derived", NEW b \in Attempt, pc'[b] \in Active
                     PROVE  /\ pc'[b] # "query" => unread'[b] = {}
                            /\ \A k \in todo[b] \ (Astray \union unread'[b]) :
                                  existing'[b][k] = NoRow => copies[k] = {}
          BY <3>3
        <4>1. b = a
          BY <3>3, <3>4
        <4>2. \A k \in Key : ~Linking(k)
          BY <3>3
        <4>3. pc'[a] # "query" => unread'[a] = {}
          BY <3>4
        <4>4. ASSUME NEW k \in todo[a] \ (Astray \union unread'[a]), existing'[a][k] = NoRow
              PROVE  copies[k] = {}
          <5>1. k \in Key
            OBVIOUS
          <5>2. CASE found[k] = {}
            BY <4>2, <4>4, <5>1, <5>2
          <5>3. CASE k \notin unread[a] /\ existing[a][k] = NoRow
            BY <3>3, <4>4, <5>3
          <5>4. QED
            BY <3>5, <4>4, <5>1, <5>2, <5>3
        <4>5. QED
          BY <4>1, <4>3, <4>4
      <3>10. SerialAttemptsDoNotDuplicate'
        BY <3>3
      <3>11. QED
        BY <3>6, <3>8, <3>9, <3>10, Zenon
    <2>4. ASSUME NEW a \in Attempt, NEW k \in Key, Skip(a, k) \/ Update(a, k)
          PROVE  SerialInv'
      <3>1. /\ UNCHANGED <<mode, pc, unread, existing, fresh, current, verdict, copies, found,
                           overlapped, torn, passed>>
            /\ todo' = [todo EXCEPT ![a] = @ \ {k}]
        BY <2>4, Zenon DEF Skip, Update, Took
      <3>2. OneAtATime' /\ SerialAttemptsDoNotDuplicate'
        BY <3>1
      <3>3. \A o \in Key : Linking(o) => Linking(o)'
        BY <3>1
      <3>4. RowsAnswer'
        BY <3>1, <3>3
      <3>5. CreatesMissing'
        <4>1. \A b \in Attempt : todo'[b] \subseteq todo[b]
          BY <3>1
        <4>2. QED
          BY <3>1, <4>1
      <3>6. QED
        BY <3>2, <3>4, <3>5, Zenon
    <2>5. ASSUME NEW a \in Attempt, NEW k \in Key, Create(a, k) PROVE SerialInv'
      <3>1. PICK r \in NewIds(k) : MakeRow(a, k, r)
        BY <2>5 DEF Create
      <3>2. pc[a] = "write" /\ k \in todo[a] /\ existing[a][k] = NoRow
        BY <2>5 DEF Create, Took
      <3>3. /\ todo' = [todo EXCEPT ![a] = @ \ {k}]
            /\ copies' = [copies EXCEPT ![k] = @ \union {r}]
            /\ UNCHANGED <<mode, unread, existing, current, verdict, overlapped, torn, passed>>
        BY <2>5, <3>1 DEF Create, Took, MakeRow
      <3>4. \A b \in Attempt \ {a} : pc'[b] = pc[b] /\ fresh'[b] = fresh[b]
        BY <3>1 DEF MakeRow
      <3>5. pc'[a] \in {"write", "link"} /\ unread[a] = unread'[a]
            /\ (\A o \in Key \ {k} : found'[o] = found[o])
        <4>1. pc'[a] \in {"write", "link"}
          BY <3>1, <3>2 DEF MakeRow
        <4>2. found' = found \/ found' = Stamp(k, r)
          BY <3>1 DEF MakeRow
        <4>3. QED
          BY <3>3, <4>1, <4>2 DEF Stamp
      <3>6. k \in Unanswered \/ found'[k] # {} \/ Linking(k)'
        <4>1. CASE KeyOnRow /\ k \notin Unanswered
          <5>1. found' = [found EXCEPT ![k] = @ \union {r}]
            BY <3>1, <4>1 DEF MakeRow, Stamp
          <5>2. r \in found'[k]
            BY <5>1
          <5>3. QED
            BY <5>2
        <4>2. CASE ~KeyOnRow
          <5>1. fresh'[a] = <<k, r>> /\ pc'[a] = "link"
            BY <3>1, <4>2 DEF MakeRow
          <5>2. QED
            BY <5>1
        <4>3. QED
          BY <4>1, <4>2, Zenon
      <3>7. OneAtATime'
        BY <3>2, <3>3, <3>4, <3>5
      <3>8. ASSUME ~overlapped
            PROVE  \A b \in Attempt \ {a} : pc[b] \notin Active
        BY <3>2, <3>8
      <3>9. RowsAnswer'
        BY <3>2, <3>3, <3>5, <3>6, <3>8, SMTT(30)
      <3>10. CreatesMissing'
        BY <3>2, <3>3, <3>4, <3>5, <3>8
      <3>11. SerialAttemptsDoNotDuplicate'
        <4>1. CASE mode = "derived"
          <5>1. \A o \in Key : copies'[o] \subseteq {o}
            <6>1. mode' = "derived"
              BY <3>3, <4>1
            <6>2. QED
              BY <6>1, Zenon DEF DerivedInv
          <5>2. \A o \in Key : \A s, t \in copies'[o] : s = t
            BY <5>1
          <5>3. QED
            BY <5>2
        <4>2. CASE mode # "derived"
          <5>1. ~overlapped /\ k \notin Astray => copies'[k] = {r}
            BY <3>2, <3>3, <4>2
          <5>2. \A o \in Key \ {k} : copies'[o] = copies[o]
            BY <3>3
          <5>3. QED
            BY <3>3, <5>1, <5>2
        <4>3. QED
          BY <4>1, <4>2
      <3>12. QED
        BY <3>7, <3>9, <3>10, <3>11, Zenon
    <2>6. ASSUME NEW a \in Attempt, Link(a) PROVE SerialInv'
      <3> DEFINE k == fresh[a][1]
      <3>1. pc[a] = "link" /\ k \in Key
        BY <2>6 DEF Link
      <3>2. UNCHANGED <<mode, todo, unread, existing, current, verdict, copies, overlapped, torn,
                        passed>>
        BY <2>6 DEF Link
      <3>3. /\ \A b \in Attempt : pc'[b] = IF b = a THEN "write" ELSE pc[b]
            /\ \A b \in Attempt \ {a} : fresh'[b] = fresh[b]
        BY <2>6 DEF Link
      <3>4. found'[k] # {} /\ \A o \in Key \ {k} : found'[o] = found[o]
        <4>1. \/ found' = [found EXCEPT ![k] = @ \union {fresh[a][2]}]
              \/ found' = [found EXCEPT ![k] = {fresh[a][2]}]
          BY <2>6 DEF Link, Stamp, Put
        <4>2. fresh[a][2] \in found'[k]
          BY <3>1, <4>1
        <4>3. QED
          BY <3>1, <4>1, <4>2
      <3>5. OneAtATime' /\ CreatesMissing'
        BY <3>1, <3>2, <3>3
      <3>6. \A o \in Key \ {k} : Linking(o) => Linking(o)'
        BY <3>1, <3>3
      <3>7. RowsAnswer'
        BY <3>2, <3>4, <3>6
      <3>8. SerialAttemptsDoNotDuplicate'
        BY <3>2
      <3>9. QED
        BY <3>5, <3>7, <3>8, Zenon
    <2>7. ASSUME NEW a \in Attempt, Complete(a) PROVE SerialInv'
      BY <2>7 DEF Complete
    <2>8. ASSUME NEW a \in Attempt, Fail(a) PROVE SerialInv'
      BY <2>8 DEF Fail, Stop, Tear, NextAttempt
    <2>9. ASSUME NEW a \in Attempt, Reject(a) PROVE SerialInv'
      BY <2>9 DEF Reject, Stop, Tear
    <2>10. ASSUME NEW a \in Attempt, TimeOut(a) PROVE SerialInv'
      BY <2>10 DEF TimeOut
    <2>11. CASE LoseLinks
      BY <2>11 DEF LoseLinks
    <2>12. CASE UNCHANGED vars
      BY <2>12 DEF vars
    <2>13. ASSUME NEW a \in Attempt, NEW k \in Key, MoveUp(a, k) PROVE SerialInv'
      <3>1. /\ unread' = [unread EXCEPT ![a] = @ \ {k}] /\ passed' = passed \union {k}
            /\ UNCHANGED <<mode, pc, todo, existing, fresh, current, verdict, copies, found,
                           overlapped, torn>>
        BY <2>13 DEF MoveUp
      <3>2. Astray' = Astray \union {k} /\ unread'[a] = unread[a] \ {k}
            /\ \A b \in Attempt \ {a} : unread'[b] = unread[b]
        BY <3>1
      <3>3. OneAtATime' /\ RowsAnswer' /\ SerialAttemptsDoNotDuplicate'
        BY <3>1
      <3>4. CreatesMissing'
        <4> HIDE DEF Astray
        <4>1. QED
          BY <3>1, <3>2
      <3>5. QED
        BY <3>3, <3>4, Zenon
    <2>14. QED
      BY <2>1, <2>2, <2>3, <2>4, <2>5, <2>6, <2>7, <2>8, <2>9, <2>10, <2>11, <2>12, <2>13
         DEF Next, Step, Failure
  <1>3. QED
    BY <1>1, <1>2, TypedAlways, DerivedAlways, PTL DEF Spec

-----------------------------------------------------------------------------
(***************************************************************************)
(* What rows belong to which key, and what is written.                     *)
(***************************************************************************)
\* The rest of the types; only keys of the batch are left to write.
BatchTyped ==
    /\ mode \in Modes /\ configured \in BOOLEAN
    /\ batch \in Seq(Key \union {NoKey}) /\ Len(batch) <= MaxBatch
    /\ \A a \in Attempt : todo[a] \subseteq Keys
    /\ verdict \in {"running", "done", "failed", "auth", "config"}
    /\ data \in [RowId -> 0..MaxBatch] /\ losses \in 0..MaxLosses
    /\ overlapped \in BOOLEAN

\* Every row belongs to one key; what answers a key, what an attempt knows as the row
\* of a key, and what it is about to link to a key was made for that key.
Backed ==
    /\ \A k \in Key : copies[k] \subseteq Row \union {k} /\ found[k] \subseteq copies[k]
    /\ \A k, o \in Key : k # o => copies[k] \intersect copies[o] = {}
    /\ \A a \in Attempt, k \in Key : existing[a][k] # NoRow =>
          existing[a][k] \in copies[k] /\ (losses = 0 => found[k] # {})
    /\ \A a \in Attempt : pc[a] = "link" => fresh[a][2] \in copies[fresh[a][1]]

\* The key is answered, if the destination gives it back.
Found(k) == k \in Unanswered \/ found[k] # {}

Shows(k) == \E r \in copies[k] : data[r] = LastOf(k)

\* What an attempt has behind it is stored.
Written ==
    /\ \A a \in Attempt : pc[a] = "query" => todo[a] = Keys
    /\ \A a \in Attempt : pc[a] \in {"write", "link", "done"} =>
          \A k \in (Keys \ Filtered) \ todo[a] :
              /\ Shows(k)
              /\ losses = 0 => Found(k) \/ (pc[a] = "link" /\ fresh[a][1] = k)
    /\ \A a \in Attempt : pc[a] = "done" => todo[a] = {}
    /\ verdict = "done" => \E a \in Attempt : pc[a] = "done"

\* Records counted, left to write and being linked add up to the batch.
Counts(a) == stats[a].created + stats[a].updated + stats[a].skipped
Tally == [created : Nat, updated : Nat, skipped : Nat]
Counted ==
    /\ stats \in [Attempt -> Tally]
    /\ \A a \in Attempt :
          /\ IsFiniteSet(todo[a])
          /\ pc[a] = "idle" => Counts(a) = 0
          /\ pc[a] \in {"query", "write", "done"} =>
                Counts(a) + Cardinality(todo[a]) = Len(batch)
          /\ pc[a] = "link" => Counts(a) + Cardinality(todo[a]) + 1 = Len(batch)
          /\ pc[a] = "failed" => Counts(a) <= Len(batch)

\* Max does what its name says.
LEMMA MaxFound ==
  ASSUME NEW n \in Nat, NEW S \in SUBSET (1..n), S # {}
  PROVE  Max(S) \in S /\ \A s \in S : s <= Max(S)
  <1> DEFINE Below == {n - s : s \in S}
  <1>1. Below \subseteq Nat
    OBVIOUS
  <1>2. Below # {}
    OBVIOUS
  <1>3. PICK b \in Below : \A c \in Below : ~(<<c, b>> \in OpToRel(<, Nat))
    BY <1>1, <1>2, NatLessThanWellFounded, WFMin
  <1>4. \A c \in Below : ~(c < b)
    BY <1>1, <1>3 DEF OpToRel
  <1>5. PICK m \in S : b = n - m
    OBVIOUS
  <1>6. ASSUME NEW s \in S PROVE s <= m
    <2>1. ~(n - s < n - m)
      BY <1>4, <1>5
    <2>2. s \in Nat /\ m \in Nat
      OBVIOUS
    <2>3. QED
      BY ONLY <2>1, <2>2, n \in Nat
  <1>7. QED
    BY <1>6 DEF Max

\* A record to write has a place in the batch, the last of which counts.
LEMMA LastPlace ==
  ASSUME batch \in Seq(Key \union {NoKey}), NEW k \in Keys
  PROVE  LastOf(k) \in Places(k) /\ LastOf(k) \in 1..Len(batch)
         /\ \A n \in Places(k) : n <= LastOf(k)
  <1>1. Places(k) \in SUBSET (1..Len(batch)) /\ Places(k) # {} /\ Len(batch) \in Nat
    BY DEF Places, Keys
  <1>2. QED
    BY <1>1, MaxFound DEF LastOf

\* There are no more keys than records.
LEMMA KeysFinite ==
  ASSUME batch \in Seq(Key \union {NoKey})
  PROVE  IsFiniteSet(Keys) /\ Cardinality(Keys) \in Nat /\ Cardinality(Keys) <= Len(batch)
  <1> DEFINE T == {batch[n] : n \in DOMAIN batch}
  <1>1. batch \in Surjection(1..Len(batch), T) /\ Len(batch) \in Nat
    BY DEF Surjection
  <1>2. IsFiniteSet(1..Len(batch)) /\ Cardinality(1..Len(batch)) = Len(batch)
    <2>1. \A n \in Nat : IsFiniteSet(1..n) /\ Cardinality(1..n) = n
      BY FS_Interval
    <2>2. QED
      BY <1>1, <2>1
  <1>3. IsFiniteSet(T) /\ Cardinality(T) <= Len(batch)
    BY <1>1, <1>2, FS_Surjection
  <1>4. IsFiniteSet(Keys) /\ Cardinality(Keys) <= Cardinality(T)
    BY <1>3, FS_Subset DEF Keys
  <1>5. QED
    BY <1>1, <1>3, <1>4, FS_CardinalityType

LEMMA BatchTypedAlways == Spec => []BatchTyped
  <1> USE DEF BatchTyped, Attempt, RowId, Active, Goto, Count
  <1>1. Init => BatchTyped
    <2> SUFFICES ASSUME Init PROVE BatchTyped
      OBVIOUS
    <2>1. PICK n \in 0..MaxBatch : batch \in [1..n -> Key \union {NoKey}]
      BY DEF Init
    <2>2. batch \in Seq(Key \union {NoKey}) /\ Len(batch) = n
      BY <2>1
    <2>3. data \in [RowId -> 0..MaxBatch] /\ losses \in 0..MaxLosses
      BY DEF Init
    <2>4. \A a \in Attempt : todo[a] \subseteq Keys
      BY DEF Init
    <2>5. mode \in Modes /\ configured \in BOOLEAN /\ verdict = "running" /\ overlapped = FALSE
      BY DEF Init
    <2>6. Len(batch) <= MaxBatch
      BY <2>2
    <2> HIDE DEF BatchTyped
    <2>7. QED
      BY <2>2, <2>3, <2>4, <2>5, <2>6 DEF BatchTyped
  <1>2. Typed /\ BatchTyped /\ [Next]_vars => BatchTyped'
    <2> SUFFICES ASSUME Typed, BatchTyped, [Next]_vars PROVE BatchTyped'
      OBVIOUS
    <2> USE DEF attempts, server, store, history
    <2>0. batch' = batch => Keys' = Keys
      BY DEF Keys
    <2>1. CASE LoseLinks
      BY <2>0, <2>1 DEF LoseLinks
    <2>2. ASSUME NEW a \in Attempt, Step(a) PROVE BatchTyped'
      <3>1. CASE Begin(a)
        BY <2>0, <3>1 DEF Begin, Typed
      <3>2. CASE NotConfigured(a) \/ Query(a) \/ Link(a) \/ Complete(a)
        BY <2>0, <3>2 DEF NotConfigured, Query, Link, Complete
      <3>3. ASSUME NEW k \in Key, Took(a, k)
            PROVE  /\ \A b \in Attempt : todo'[b] \subseteq Keys'
                   /\ UNCHANGED <<mode, configured, batch, verdict, losses, overlapped>>
                   /\ LastOf(k) \in 0..MaxBatch
        <4>1. k \in Keys /\ Keys' = Keys
          BY <2>0, <3>3 DEF Took
        <4>2. LastOf(k) \in 1..Len(batch) /\ Len(batch) \in Nat
          BY <4>1, LastPlace
        <4>3. QED
          BY <3>3, <4>1, <4>2 DEF Took, Typed
      <3>4. ASSUME NEW k \in Key, Skip(a, k) PROVE BatchTyped'
        BY <3>3, <3>4 DEF Skip
      <3>5. ASSUME NEW k \in Key, Update(a, k) PROVE BatchTyped'
        BY <3>3, <3>5 DEF Update
      <3>6. ASSUME NEW k \in Key, Create(a, k) PROVE BatchTyped'
        <4>1. PICK r : data' = [data EXCEPT ![r] = LastOf(k)]
          BY <3>6 DEF Create, MakeRow
        <4>2. Took(a, k)
          BY <3>6 DEF Create
        <4>3. QED
          BY <3>3, <4>1, <4>2
      <3>7. ASSUME NEW k \in Key, MoveUp(a, k) PROVE BatchTyped'
        BY <2>0, <3>7 DEF MoveUp
      <3>8. QED
        BY <2>2, <3>1, <3>2, <3>4, <3>5, <3>6, <3>7 DEF Step
    <2>3. ASSUME NEW a \in Attempt, Failure(a) PROVE BatchTyped'
      BY <2>0, <2>3 DEF Failure, Fail, Reject, TimeOut, Stop, NextAttempt
    <2>4. CASE UNCHANGED vars
      BY <2>0, <2>4 DEF vars
    <2>5. QED
      BY <2>1, <2>2, <2>3, <2>4 DEF Next
  <1>3. QED
    BY <1>1, <1>2, TypedAlways, PTL DEF Spec

\* Steps that leave the rows, the links and what attempts know alone.
LEMMA BackedUntouched ==
  ASSUME Backed, UNCHANGED <<copies, found, existing, losses>>,
         \A b \in Attempt : pc'[b] = "link" => pc[b] = "link" /\ fresh'[b] = fresh[b]
  PROVE  Backed'
  BY DEF Backed

LEMMA BackedAlways == Spec => []Backed
  <1>1. Init => Backed
    BY DEF Init, Backed
  <1>2. Typed /\ BatchTyped /\ DerivedInv /\ Backed /\ [Next]_vars => Backed'
    <2> SUFFICES ASSUME Typed, BatchTyped, DerivedInv, Backed, [Next]_vars PROVE Backed'
      OBVIOUS
    <2> USE DEF Typed, attempts, server, store, history, Goto, Count
    <2>1. ASSUME NEW a \in Attempt, Begin(a) \/ NotConfigured(a) \/ Complete(a) PROVE Backed'
      BY <2>1, BackedUntouched DEF Begin, NotConfigured, Complete
    <2>2. ASSUME NEW a \in Attempt, NEW k \in Key, MoveUp(a, k) \/ Skip(a, k) \/ Update(a, k)
          PROVE  Backed'
      BY <2>2, BackedUntouched DEF MoveUp, Skip, Update, Took
    <2>3. ASSUME NEW a \in Attempt, Failure(a) PROVE Backed'
      BY <2>3, BackedUntouched DEF Failure, Fail, Reject, TimeOut, Stop
    <2>4. CASE UNCHANGED vars
      BY <2>4, BackedUntouched DEF vars
    <2>5. CASE LoseLinks
      <3>1. losses' # 0 /\ (\A k \in Key : found'[k] = {})
        BY <2>5 DEF LoseLinks, BatchTyped
      <3>2. UNCHANGED <<pc, existing, fresh, copies>>
        BY <2>5 DEF LoseLinks
      <3>3. QED
        BY <3>1, <3>2 DEF Backed
    <2>6. ASSUME NEW a \in Attempt, Query(a) PROVE Backed'
      <3>1. PICK page \in SUBSET unread[a] : \E seen : Told(a, page, seen)
        BY <2>6, QueryTells
      <3>2. PICK seen : Told(a, page, seen)
        BY <3>1
      <3>3. UNCHANGED <<fresh, copies, found, losses>>
        BY <2>6 DEF Query
      <3>4. \A b \in Attempt : pc'[b] = "link" => pc[b] = "link"
        BY <3>2 DEF Told
      <3>5. ASSUME NEW b \in Attempt, NEW k \in Key, existing'[b][k] # NoRow
            PROVE  existing'[b][k] \in copies[k] /\ (losses = 0 => found[k] # {})
        <4>1. CASE b = a /\ k \in page
          <5>1. existing'[b][k] = seen[k]
            BY <3>2, <4>1 DEF Told
          <5>2. seen[k] \in found[k]
            BY <3>2, <3>5, <4>1, <5>1 DEF Told
          <5>3. QED
            BY <5>1, <5>2 DEF Backed
        <4>2. CASE ~(b = a /\ k \in page)
          <5>1. existing'[b][k] = existing[b][k]
            BY <3>2, <4>2 DEF Told
          <5>2. QED
            BY <3>5, <5>1 DEF Backed
        <4>3. QED
          BY <4>1, <4>2
      <3>6. QED
        BY <3>3, <3>4, <3>5 DEF Backed
    <2>7. ASSUME NEW a \in Attempt, NEW k \in Key, Create(a, k) PROVE Backed'
      <3>1. PICK r \in NewIds(k) : MakeRow(a, k, r)
        BY <2>7 DEF Create
      <3>2. copies' = [copies EXCEPT ![k] = @ \union {r}] /\ UNCHANGED <<existing, losses>>
        BY <2>7, <3>1 DEF Create, Took, MakeRow
      <3>3. r \in Row \union {k} /\ (\A o \in Key \ {k} : r \notin copies[o])
        BY <3>1 DEF NewIds, Unused, DerivedInv
      <3>4. /\ \A o \in Key : copies'[o] \subseteq Row \union {o} /\ copies[o] \subseteq copies'[o]
            /\ \A o, q \in Key : o # q => copies'[o] \intersect copies'[q] = {}
        BY <3>2, <3>3 DEF Backed
      <3>5. r \in copies'[k]
        BY <3>2
      <3>6. \A o \in Key : found'[o] \subseteq copies'[o] /\ found[o] \subseteq found'[o]
        BY <3>1, <3>4, <3>5 DEF MakeRow, Stamp, Backed
      <3>7. \A b \in Attempt : pc'[b] = "link" =>
               \/ pc[b] = "link" /\ fresh'[b] = fresh[b]
               \/ fresh'[b] = <<k, r>>
        BY <3>1 DEF MakeRow
      <3>8. ASSUME NEW b \in Attempt, pc'[b] = "link" PROVE fresh'[b][2] \in copies'[fresh'[b][1]]
        <4>1. CASE fresh'[b] = <<k, r>>
          BY <3>5, <4>1
        <4>2. CASE pc[b] = "link" /\ fresh'[b] = fresh[b]
          BY <3>4, <4>2 DEF Backed
        <4>3. QED
          BY <3>7, <3>8, <4>1, <4>2
      <3>9. \A b \in Attempt, o \in Key : existing'[b][o] # NoRow =>
               existing'[b][o] \in copies'[o] /\ (losses' = 0 => found'[o] # {})
        <4> SUFFICES ASSUME NEW b \in Attempt, NEW o \in Key, existing[b][o] # NoRow
                     PROVE  existing[b][o] \in copies'[o] /\ (losses = 0 => found'[o] # {})
          BY <3>2
        <4>1. existing[b][o] \in copies[o] /\ (losses = 0 => found[o] # {})
          BY DEF Backed
        <4>2. QED
          BY <3>4, <3>6, <4>1
      <3>10. QED
        BY <3>4, <3>6, <3>8, <3>9 DEF Backed
    <2>8. ASSUME NEW a \in Attempt, Link(a) PROVE Backed'
      <3> DEFINE k == fresh[a][1]
                 r == fresh[a][2]
      <3>1. pc[a] = "link" /\ k \in Key /\ r \in copies[k]
        BY <2>8 DEF Link, Backed
      <3>2. UNCHANGED <<existing, copies, losses>>
        BY <2>8 DEF Link
      <3>3. \/ found' = [found EXCEPT ![k] = @ \union {r}]
            \/ found' = [found EXCEPT ![k] = {r}]
        BY <2>8 DEF Link, Stamp, Put
      <3>4. \A o \in Key : found'[o] \subseteq copies[o] /\ (found[o] # {} => found'[o] # {})
        <4>1. /\ found'[k] = found[k] \union {r} \/ found'[k] = {r}
              /\ \A o \in Key \ {k} : found'[o] = found[o]
          BY <3>1, <3>3
        <4>2. \A o \in Key : found[o] \subseteq copies[o]
          BY DEF Backed
        <4>3. r \in found'[k] /\ found'[k] \subseteq copies[k]
          BY <3>1, <4>1, <4>2
        <4> HIDE DEF k, r
        <4>4. QED
          BY <4>1, <4>2, <4>3
      <3>5. \A b \in Attempt : pc'[b] = "link" => pc[b] = "link" /\ fresh'[b] = fresh[b]
        BY <2>8 DEF Link
      <3>6. QED
        BY <3>2, <3>4, <3>5 DEF Backed
    <2>9. QED
      BY <2>1, <2>2, <2>3, <2>4, <2>5, <2>6, <2>7, <2>8 DEF Next, Step
  <1>3. QED
    BY <1>1, <1>2, TypedAlways, BatchTypedAlways, DerivedAlways, PTL DEF Spec

-----------------------------------------------------------------------------
(***************************************************************************)
(* Answers stay, and what is reported done is stored.                      *)
(***************************************************************************)
\* Only a loss of the links takes an answer away.
LEMMA FoundStays ==
  ASSUME Typed, BatchTyped, [Next]_vars, losses' = losses, NEW o \in Key, found[o] # {}
  PROVE  found'[o] # {}
  <1> USE DEF attempts, server, store, history
  <1>1. ASSUME NEW a \in Attempt, NEW k \in Key, Create(a, k) PROVE found'[o] # {}
    BY <1>1 DEF Create, MakeRow, Stamp, Typed
  <1>2. ASSUME NEW a \in Attempt, Link(a) PROVE found'[o] # {}
    <2>1. \/ found' = [found EXCEPT ![fresh[a][1]] = @ \union {fresh[a][2]}]
          \/ found' = [found EXCEPT ![fresh[a][1]] = {fresh[a][2]}]
      BY <1>2 DEF Link, Stamp, Put
    <2>2. found \in [Key -> SUBSET RowId]
      BY DEF Typed
    <2>3. \/ found'[o] = found[o]
          \/ fresh[a][2] \in found'[o]
      BY <2>1, <2>2
    <2>4. QED
      BY <2>3
  <1>3. losses \in Nat
    BY DEF BatchTyped
  <1>4. ~LoseLinks
    BY <1>3 DEF LoseLinks
  <1>5. ASSUME NEW a \in Attempt, Begin(a) \/ NotConfigured(a) \/ Query(a) \/ Complete(a)
        PROVE  found' = found
    BY <1>5 DEF Begin, NotConfigured, Query, Complete
  <1>6. ASSUME NEW a \in Attempt, NEW k \in Key, MoveUp(a, k) \/ Skip(a, k) \/ Update(a, k)
        PROVE  found' = found
    BY <1>6 DEF MoveUp, Skip, Update
  <1>7. ASSUME NEW a \in Attempt, Failure(a) PROVE found' = found
    BY <1>7 DEF Failure, Fail, Reject, TimeOut, Stop
  <1>8. UNCHANGED vars => found' = found
    BY DEF vars
  <1>9. QED
    BY <1>1, <1>2, <1>4, <1>5, <1>6, <1>7, <1>8 DEF Next, Step

\* A key that was answered once is answered from then on, by a row made for it,
\* in every kind of destination and however attempts overlap or die, until a
\* LinkStore loses its links.
THEOREM AnswersLastForEver == Spec => AnswersStay
  <1>1. Typed /\ BatchTyped /\ Backed' /\ [Next]_vars => [AnswersLast]_vars
    BY FoundStays DEF AnswersLast, Backed
  <1>2. QED
    BY <1>1, TypedAlways, BatchTypedAlways, BackedAlways, PTL DEF Spec, AnswersStay

\* A row that shows its key's last data goes on doing so: rows belong to one key.
LEMMA ShowsStays ==
  ASSUME Typed, DerivedInv, Backed, [Next]_vars, NEW o \in Key, Shows(o)
  PROVE  Shows(o)'
  <1> USE DEF attempts, server, store, history, Shows
  <1>1. PICK s \in copies[o] : data[s] = LastOf(o)
    OBVIOUS
  <1>2. s \in RowId
    BY DEF Typed
  <1>3. batch' = batch
    BY DEF Next, LoseLinks, Step, Begin, NotConfigured, Query, MoveUp, Skip, Update, Create, Took, Link,
           Complete, Failure, Fail, Reject, TimeOut, Stop, vars
  <1>4. LastOf(o)' = LastOf(o)
    BY <1>3 DEF LastOf, Places
  <1>5. ASSUME NEW a \in Attempt, NEW k \in Key, Update(a, k) PROVE Shows(o)'
    <2>1. copies' = copies /\ existing[a][k] \in copies[k]
      BY <1>5 DEF Update, Backed
    <2>2. data' = [data EXCEPT ![existing[a][k]] = LastOf(k)]
      BY <1>5 DEF Update
    <2>3. data[s] = data'[s] \/ (k = o /\ s \in DOMAIN data /\ data'[s] = LastOf(o))
      BY <2>1, <2>2 DEF Backed
    <2>4. QED
      BY <1>1, <1>4, <2>1, <2>3
  <1>6. ASSUME NEW a \in Attempt, NEW k \in Key, Create(a, k) PROVE Shows(o)'
    <2>1. PICK r \in NewIds(k) : MakeRow(a, k, r)
      BY <1>6 DEF Create
    <2>2. /\ copies' = [copies EXCEPT ![k] = @ \union {r}]
          /\ data' = [data EXCEPT ![r] = LastOf(k)]
      BY <2>1 DEF MakeRow
    <2>3. s \in copies'[o]
      BY <2>2 DEF Typed
    <2>4. r = s => k = o
      BY <2>1 DEF NewIds, Unused, DerivedInv
    <2>5. data'[s] = LastOf(o)
      BY <1>1, <2>2, <2>4
    <2>6. QED
      BY <1>4, <2>3, <2>5
  <1>7. ASSUME UNCHANGED <<copies, data>> PROVE Shows(o)'
    BY <1>1, <1>4, <1>7
  <1>8. ASSUME NEW a \in Attempt,
               Begin(a) \/ NotConfigured(a) \/ Query(a) \/ Complete(a) \/ Link(a)
                  \/ (\E k \in Key : MoveUp(a, k) \/ Skip(a, k))
        PROVE  UNCHANGED <<copies, data>>
    BY <1>8 DEF Begin, NotConfigured, Query, Complete, Link, MoveUp, Skip
  <1>9. ASSUME NEW a \in Attempt, Failure(a) PROVE UNCHANGED <<copies, data>>
    BY <1>9 DEF Failure, Fail, Reject, TimeOut, Stop
  <1>10. LoseLinks \/ UNCHANGED vars => UNCHANGED <<copies, data>>
    BY DEF LoseLinks, vars
  <1>11. QED
    BY <1>5, <1>6, <1>7, <1>8, <1>9, <1>10 DEF Next, Step

\* What no step changes.
LEMMA Constant ==
  ASSUME BatchTyped, [Next]_vars
  PROVE  batch' = batch /\ mode' = mode /\ Keys' = Keys /\ (losses' = 0 => losses = 0)
  <1>1. batch' = batch /\ mode' = mode
    BY DEF Next, LoseLinks, Step, Begin, NotConfigured, Query, MoveUp, Skip, Update, Create, Took, Link,
           Complete, Failure, Fail, Reject, TimeOut, Stop, vars, attempts
  <1>2. losses' = losses \/ losses' = losses + 1
    BY DEF Next, LoseLinks, Step, Begin, NotConfigured, Query, MoveUp, Skip, Update, Create, Took, Link,
           Complete, Failure, Fail, Reject, TimeOut, Stop, vars, store
  <1>3. losses \in Nat
    BY DEF BatchTyped
  <1>4. QED
    BY <1>1, <1>2, <1>3 DEF Keys

\* A step of one attempt leaves the others where they are.
LEMMA OthersStay ==
  ASSUME Typed, NEW a \in Attempt, Step(a) \/ Failure(a), NEW b \in Attempt, b # a
  PROVE  pc'[b] = pc[b] /\ todo'[b] = todo[b] /\ fresh'[b] = fresh[b]
  <1> USE DEF Typed, attempts, Goto
  <1>1. CASE Step(a)
    <2>1. ASSUME NEW k \in Key, MoveUp(a, k) \/ Skip(a, k) \/ Update(a, k) \/ Create(a, k)
          PROVE  pc'[b] = pc[b] /\ todo'[b] = todo[b] /\ fresh'[b] = fresh[b]
      BY <2>1 DEF MoveUp, Skip, Update, Create, Took, MakeRow
    <2>2. ASSUME Query(a) PROVE pc'[b] = pc[b] /\ todo'[b] = todo[b] /\ fresh'[b] = fresh[b]
      <3>1. PICK page : \E seen : Told(a, page, seen)
        BY <2>2, QueryTells
      <3>2. pc'[b] = pc[b]
        BY <3>1 DEF Told
      <3>3. QED
        BY <2>2, <3>2 DEF Query
    <2>3. QED
      BY <1>1, <2>1, <2>2 DEF Step, Begin, NotConfigured, Link, Complete
  <1>2. CASE Failure(a)
    BY <1>2 DEF Failure, Fail, Reject, TimeOut, Stop
  <1>3. QED
    BY <1>1, <1>2

\* What an attempt had behind it stays stored, unless a link is still missing.
LEMMA Carried ==
  ASSUME Typed, BatchTyped, DerivedInv, Backed, Written, [Next]_vars,
         NEW b \in Attempt, pc[b] \in {"write", "link", "done"},
         NEW k \in (Keys \ Filtered) \ todo[b]
  PROVE  /\ Shows(k)'
         /\ losses' = 0 => Found(k)' \/ (pc[b] = "link" /\ fresh[b][1] = k)
  <1>1. k \in Key
    BY DEF Typed
  <1>2. Shows(k) /\ (losses = 0 => Found(k) \/ (pc[b] = "link" /\ fresh[b][1] = k))
    BY DEF Written
  <1>3. losses' = 0 => losses' = losses /\ losses = 0
    BY Constant
  <1>4. losses' = 0 /\ Found(k) => Found(k)'
    BY <1>1, <1>3, FoundStays, Constant DEF Found, Unanswered
  <1>5. QED
    BY <1>1, <1>2, <1>3, <1>4, ShowsStays

LEMMA WrittenAlways == Spec => []Written
  <1>1. Init => Written
    BY DEF Init, Written
  <1>2. Typed /\ BatchTyped /\ DerivedInv /\ Backed /\ Written /\ [Next]_vars => Written'
    <2> SUFFICES ASSUME Typed, BatchTyped, DerivedInv, Backed, Written, [Next]_vars
                 PROVE  Written'
      OBVIOUS
    <2> DEFINE Stored(b) ==
                 \A k \in (Keys \ Filtered) \ todo'[b] :
                     /\ Shows(k)'
                     /\ losses' = 0 => Found(k)' \/ (pc'[b] = "link" /\ fresh'[b][1] = k)
               Rest(b) == /\ pc'[b] = "query" => todo'[b] = Keys
                          /\ pc'[b] = "done" => todo'[b] = {}
                          /\ pc[b] = "done" => pc'[b] = "done"
                          /\ pc'[b] \in {"write", "link", "done"} => Stored(b)
    <2>1. Keys' = Keys
      BY Constant
    <2>2. SUFFICES /\ \A b \in Attempt : Rest(b)
                   /\ verdict' = "done" /\ verdict # "done" => \E b \in Attempt : pc'[b] = "done"
      BY <2>1 DEF Written
    <2>3. ASSUME NEW b \in Attempt, pc'[b] = pc[b], todo'[b] = todo[b], fresh'[b] = fresh[b]
          PROVE  Rest(b)
      BY <2>3, Carried DEF Written
    <2>4. ASSUME NEW a \in Attempt, Step(a) \/ Failure(a), Rest(a)
          PROVE  \A b \in Attempt : Rest(b)
      BY <2>3, <2>4, OthersStay
    <2> USE DEF Goto
    <2>5. CASE LoseLinks \/ UNCHANGED vars
      <3>1. UNCHANGED <<pc, todo, fresh, verdict>>
        BY <2>5 DEF LoseLinks, vars, attempts, server
      <3>2. QED
        BY <2>3, <3>1
    <2>6. ASSUME NEW a \in Attempt, Failure(a)
          PROVE  Rest(a) /\ (verdict' = "done" => verdict = "done")
      <3>1. \/ pc' = [pc EXCEPT ![a] = "failed"] /\ pc[a] \in Active
            \/ UNCHANGED attempts
        BY <2>6 DEF Failure, Fail, Reject, TimeOut, Stop
      <3>2. verdict' = "done" => verdict = "done"
        BY <2>6 DEF Failure, Fail, Reject, TimeOut, NextAttempt, server
      <3>3. CASE pc' = [pc EXCEPT ![a] = "failed"] /\ pc[a] \in Active
        <4>1. pc'[a] = "failed" /\ pc[a] # "done"
          BY <3>3 DEF Typed, Active
        <4>2. QED
          BY <3>2, <4>1
      <3>4. CASE UNCHANGED attempts
        BY <2>3, <3>2, <3>4 DEF attempts
      <3>5. QED
        BY <3>1, <3>3, <3>4
    <2>7. ASSUME NEW a \in Attempt, Begin(a) PROVE Rest(a) /\ verdict' = verdict
      BY <2>7 DEF Begin, Typed, server
    <2>8. ASSUME NEW a \in Attempt, NotConfigured(a) PROVE Rest(a) /\ verdict' = "config"
      BY <2>8 DEF NotConfigured, Typed
    <2>9. ASSUME NEW a \in Attempt, Query(a) \/ \E k \in Key : MoveUp(a, k)
          PROVE  Rest(a) /\ verdict' = verdict
      <3>1. pc[a] = "query" /\ todo'[a] = Keys /\ verdict' = verdict
        BY <2>9 DEF Query, MoveUp, Typed, Written, server
      <3>2. ASSUME Query(a) PROVE pc'[a] \in {"query", "write"}
        BY <3>2, QueryTells DEF Told, Typed
      <3>3. pc'[a] \in {"query", "write"}
        BY <2>9, <3>1, <3>2 DEF MoveUp
      <3>4. QED
        BY <3>1, <3>3
    <2>10. ASSUME NEW a \in Attempt, NEW k \in Key, Took(a, k)
           PROVE  /\ pc[a] = "write" /\ k \in Keys /\ todo'[a] = todo[a] \ {k}
                  /\ verdict' = verdict /\ losses' = losses
                  /\ \A o \in ((Keys \ Filtered) \ todo[a]) :
                        Shows(o)' /\ (losses' = 0 => Found(o)')
      <3>1. /\ pc[a] = "write" /\ todo'[a] = todo[a] \ {k} /\ verdict' = verdict
            /\ losses' = losses /\ k \in todo[a]
        BY <2>10 DEF Took, Typed, server
      <3>2. \A o \in ((Keys \ Filtered) \ todo[a]) :
                Shows(o)' /\ (losses' = 0 => Found(o)')
        BY <3>1, Carried
      <3>3. QED
        BY <3>1, <3>2 DEF BatchTyped
    <2>11. ASSUME NEW a \in Attempt, NEW k \in Key, Skip(a, k) PROVE Rest(a) /\ verdict' = verdict
      <3>1. Took(a, k) /\ k \in Filtered /\ pc' = pc
        BY <2>11 DEF Skip
      <3>2. QED
        BY <2>10, <3>1
    <2>12. ASSUME NEW a \in Attempt, NEW k \in Key, Update(a, k)
           PROVE  Rest(a) /\ verdict' = verdict
      <3>1. Took(a, k) /\ existing[a][k] # NoRow /\ UNCHANGED <<pc, copies, found>>
            /\ data' = [data EXCEPT ![existing[a][k]] = LastOf(k)]
        BY <2>12 DEF Update
      <3>2. existing[a][k] \in copies[k] /\ (losses = 0 => found[k] # {})
        BY <3>1 DEF Backed
      <3>3. LastOf(k)' = LastOf(k)
        BY Constant DEF LastOf, Places
      <3>4. data'[existing[a][k]] = LastOf(k)
        BY <3>1, <3>2 DEF Typed, BatchTyped
      <3>5. Shows(k)'
        BY <3>1, <3>2, <3>3, <3>4 DEF Shows
      <3>6. losses' = 0 => found'[k] # {}
        BY <2>10, <3>1, <3>2
      <3>7. losses' = 0 => Found(k)'
        BY <3>6 DEF Found
      <3>8. QED
        BY <2>10, <3>1, <3>5, <3>7
    <2>13. ASSUME NEW a \in Attempt, NEW k \in Key, Create(a, k)
           PROVE  Rest(a) /\ verdict' = verdict
      <3>1. PICK r \in NewIds(k) : MakeRow(a, k, r)
        BY <2>13 DEF Create
      <3>2. Took(a, k)
        BY <2>13 DEF Create
      <3>3. r \in RowId
        BY <3>1 DEF NewIds, Unused, RowId
      <3>4. r \in copies'[k] /\ data'[r] = LastOf(k)
        BY <3>1, <3>3 DEF MakeRow, Typed, BatchTyped
      <3>5. LastOf(k)' = LastOf(k)
        BY Constant DEF LastOf, Places
      <3>6. Shows(k)'
        BY <3>4, <3>5 DEF Shows
      <3>7. CASE KeyOnRow
        <4>1. pc' = pc /\ Found(k)'
          <5>1. pc' = pc /\ (k \notin Unanswered => found' = [found EXCEPT ![k] = @ \union {r}])
            BY <3>1, <3>7 DEF MakeRow, Stamp
          <5>2. k \notin Unanswered => r \in found'[k]
            BY <5>1 DEF Typed
          <5>3. Unanswered' = Unanswered
            BY Constant DEF Unanswered
          <5>4. QED
            BY <5>1, <5>2, <5>3 DEF Found
        <4>2. QED
          BY <2>10, <3>2, <3>6, <4>1
      <3>8. CASE ~KeyOnRow
        <4>1. pc'[a] = "link" /\ fresh'[a] = <<k, r>>
          BY <3>1, <3>8 DEF MakeRow, Typed
        <4>2. fresh'[a][1] = k
          BY <4>1
        <4>3. QED
          BY <2>10, <3>2, <3>6, <4>1, <4>2
      <3>9. QED
        BY <3>7, <3>8
    <2>14. ASSUME NEW a \in Attempt, Link(a) PROVE Rest(a) /\ verdict' = verdict
      <3>0. PICK k : k = fresh[a][1]
        OBVIOUS
      <3>1. pc[a] = "link" /\ k \in Key /\ pc'[a] = "write" /\ todo' = todo /\ verdict' = verdict
        BY <2>14, <3>0 DEF Link, Typed, server
      <3>2. found'[k] # {}
        <4>1. \/ found' = [found EXCEPT ![k] = @ \union {fresh[a][2]}]
              \/ found' = [found EXCEPT ![k] = {fresh[a][2]}]
          BY <2>14, <3>0 DEF Link, Stamp, Put
        <4>2. fresh[a][2] \in found'[k]
          BY <3>1, <4>1 DEF Typed
        <4>3. QED
          BY <4>2
      <3>3. \A o \in (Keys \ Filtered) \ todo[a] :
               Shows(o)' /\ (losses' = 0 => Found(o)' \/ k = o)
        BY <3>0, <3>1, Carried
      <3>4. Found(k)'
        BY <3>2 DEF Found
      <3>5. QED
        BY <3>1, <3>3, <3>4
    <2>15. ASSUME NEW a \in Attempt, Complete(a)
           PROVE  Rest(a) /\ pc'[a] = "done"
      <3>1. pc[a] = "write" /\ todo[a] = {} /\ pc'[a] = "done" /\ todo' = todo /\ fresh' = fresh
        BY <2>15 DEF Complete, Typed
      <3>2. QED
        BY <3>1, Carried
    <2>16. QED
      BY <2>4, <2>5, <2>6, <2>7, <2>8, <2>9, <2>11, <2>12, <2>13, <2>14, <2>15 DEF Next, Step
  <1>3. QED
    BY <1>1, <1>2, TypedAlways, BatchTypedAlways, DerivedAlways, BackedAlways, PTL DEF Spec

\* A batch that is reported done is stored, whichever attempt did what of it:
\* every record that was not filtered shows its last data on a row of its key,
\* and the key is answered, unless a LinkStore was lost or the column does not
\* give it back.
THEOREM DoneStored == Spec => []DoneMeansStored
  <1>1. Typed /\ BatchTyped /\ Written => DoneMeansStored
    <2> SUFFICES ASSUME Typed, BatchTyped, Written, verdict = "done",
                        NEW k \in Keys \ Filtered
                 PROVE  /\ \E r \in copies[k] :
                              data[r] \in Places(k) /\ \A n \in Places(k) : n <= data[r]
                        /\ losses = 0 => Found(k)
      BY DEF DoneMeansStored, Found
    <2>1. PICK a \in Attempt : pc[a] = "done"
      BY DEF Written
    <2>2. k \in (Keys \ Filtered) \ todo[a]
      BY <2>1 DEF Written
    <2>3. Shows(k) /\ (losses = 0 => Found(k))
      BY <2>1, <2>2 DEF Written
    <2>4. QED
      BY <2>3, LastPlace DEF Shows, BatchTyped
  <1>2. QED
    BY <1>1, TypedAlways, BatchTypedAlways, WrittenAlways, PTL

-----------------------------------------------------------------------------
(***************************************************************************)
(* The statistics.                                                         *)
(***************************************************************************)
\* What is not skipped up front is to be written.
LEMMA SkippedRest ==
  ASSUME BatchTyped
  PROVE  /\ SkippedUpFront \in Nat /\ IsFiniteSet(Keys) /\ Cardinality(Keys) \in Nat
         /\ SkippedUpFront + Cardinality(Keys) = Len(batch)
  <1>1. batch \in Seq(Key \union {NoKey}) /\ Len(batch) \in Nat
    BY DEF BatchTyped
  <1>2. IsFiniteSet(Keys) /\ Cardinality(Keys) \in Nat /\ Cardinality(Keys) <= Len(batch)
    BY <1>1, KeysFinite
  <1>3. Cardinality(Places(NoKey)) \in Nat
    <2>1. Places(NoKey) \subseteq 1..Len(batch)
      BY <1>1 DEF Places
    <2>2. \A n \in Nat : IsFiniteSet(1..n)
      BY FS_Interval
    <2>3. QED
      BY <1>1, <2>1, <2>2, FS_Subset, FS_CardinalityType
  <1>4. QED
    BY <1>1, <1>2, <1>3 DEF SkippedUpFront

\* One record less to write.
LEMMA OneTaken ==
  ASSUME NEW S, IsFiniteSet(S), NEW k \in S
  PROVE  /\ IsFiniteSet(S \ {k}) /\ Cardinality(S) \in Nat
         /\ Cardinality(S \ {k}) \in Nat /\ Cardinality(S \ {k}) + 1 = Cardinality(S)
  <1>1. IsFiniteSet(S \ {k}) /\ Cardinality(S \ {k}) = Cardinality(S) - 1
    BY FS_RemoveElement
  <1>2. Cardinality(S) \in Nat /\ Cardinality(S \ {k}) \in Nat
    BY <1>1, FS_CardinalityType
  <1>3. QED
    BY <1>1, <1>2

\* Counting one more.
LEMMA OneMore ==
  ASSUME NEW a \in Attempt, NEW what \in {"created", "updated", "skipped"}, Count(a, what),
         stats \in [Attempt -> Tally]
  PROVE  /\ stats' \in [Attempt -> Tally]
         /\ Counts(a)' = Counts(a) + 1 /\ Counts(a) \in Nat
         /\ \A b \in Attempt \ {a} : stats'[b] = stats[b]
  BY DEF Count, Counts, Tally

LEMMA CountedAlways == Spec => []Counted
  <1>1. Init => Counted
    <2> SUFFICES ASSUME Init, NEW a \in Attempt
                 PROVE  /\ stats \in [Attempt -> Tally] /\ IsFiniteSet(todo[a])
                        /\ pc[a] = "idle" /\ Counts(a) = 0
      BY DEF Counted, Init, Tally
    <2>1. stats[a] = [created |-> 0, updated |-> 0, skipped |-> 0] /\ pc[a] = "idle"
      BY DEF Init
    <2>2. todo[a] = {}
      BY DEF Init
    <2>3. QED
      BY <2>1, <2>2, FS_EmptySet DEF Counts, Init, Tally
  <1>2. Typed /\ BatchTyped /\ Written /\ Counted /\ [Next]_vars => Counted'
    <2> SUFFICES ASSUME Typed, BatchTyped, Written, Counted, [Next]_vars PROVE Counted'
      OBVIOUS
    <2> DEFINE Sums(b) ==
                 /\ stats' \in [Attempt -> Tally]
                 /\ IsFiniteSet(todo'[b])
                 /\ pc'[b] = "idle" => Counts(b)' = 0
                 /\ pc'[b] \in {"query", "write", "done"} =>
                       Counts(b)' + Cardinality(todo'[b]) = Len(batch)
                 /\ pc'[b] = "link" => Counts(b)' + Cardinality(todo'[b]) + 1 = Len(batch)
                 /\ pc'[b] = "failed" => Counts(b)' <= Len(batch)
    <2>1. batch' = batch /\ Len(batch) \in Nat
      BY Constant DEF BatchTyped
    <2>2. SUFFICES \A b \in Attempt : Sums(b)
      <3>1. 1 \in Attempt
        BY DEF Attempt
      <3>2. QED
        BY <2>1, <3>1 DEF Counted
    <2>3. ASSUME NEW b \in Attempt, pc'[b] = pc[b], todo'[b] = todo[b], stats'[b] = stats[b],
                 stats' \in [Attempt -> Tally]
          PROVE  Sums(b)
      BY <2>3 DEF Counted, Counts
    <2>4. ASSUME NEW a \in Attempt, Step(a) \/ Failure(a), Sums(a),
                 \A b \in Attempt \ {a} : stats'[b] = stats[b]
          PROVE  \A b \in Attempt : Sums(b)
      BY <2>3, <2>4, OthersStay
    <2>5. CASE LoseLinks \/ UNCHANGED vars
      <3>1. UNCHANGED <<pc, todo, stats>>
        BY <2>5 DEF LoseLinks, vars, attempts
      <3>2. QED
        BY <2>3, <3>1 DEF Counted
    <2> USE DEF Goto
    <2>6. ASSUME NEW a \in Attempt, Failure(a) PROVE Sums(a) /\ stats' = stats
      <3>1. \/ pc'[a] = "failed" /\ pc[a] \in Active /\ UNCHANGED <<todo, stats>>
            \/ UNCHANGED <<pc, todo, stats>>
        BY <2>6 DEF Failure, Fail, Reject, TimeOut, Stop, attempts, Typed
      <3>2. CASE pc'[a] = "failed" /\ pc[a] \in Active /\ UNCHANGED <<todo, stats>>
        <4>1. stats[a] \in Tally /\ IsFiniteSet(todo[a]) /\ Counts(a)' = Counts(a)
          BY <3>2 DEF Counted, Counts
        <4>2. Cardinality(todo[a]) \in Nat /\ Counts(a) \in Nat
          BY <4>1, FS_CardinalityType DEF Counts, Tally
        <4>3. \/ Counts(a) + Cardinality(todo[a]) = Len(batch)
              \/ Counts(a) + Cardinality(todo[a]) + 1 = Len(batch)
          BY <3>2 DEF Counted, Active
        <4>4. QED
          BY <2>1, <3>2, <4>1, <4>2, <4>3 DEF Counted
      <3>3. QED
        BY <2>3, <3>1, <3>2 DEF Counted
    <2>7. ASSUME NEW a \in Attempt, Begin(a)
          PROVE  Sums(a) /\ \A b \in Attempt \ {a} : stats'[b] = stats[b]
      <3>1. pc[a] = "idle" /\ pc'[a] = "query" /\ todo'[a] = Keys
        BY <2>7 DEF Begin, Typed
      <3>2. stats' = [stats EXCEPT ![a].skipped = SkippedUpFront]
        BY <2>7 DEF Begin
      <3>3. stats \in [Attempt -> Tally] /\ Counts(a) = 0
        BY <3>1 DEF Counted
      <3>4. /\ stats'[a] = [stats[a] EXCEPT !.skipped = SkippedUpFront]
            /\ \A b \in Attempt \ {a} : stats'[b] = stats[b]
        BY <3>2, <3>3
      <3>5. stats' \in [Attempt -> Tally]
        BY <3>2, <3>3, SkippedRest DEF Tally
      <3>6. Counts(a)' = SkippedUpFront
        <4>1. stats[a].created = 0 /\ stats[a].updated = 0
          BY <3>3 DEF Counts, Tally
        <4>2. QED
          BY <3>3, <3>4, <4>1, SkippedRest DEF Counts, Tally
      <3>7. QED
        BY <3>1, <3>4, <3>5, <3>6, SkippedRest
    <2>8. ASSUME NEW a \in Attempt, NotConfigured(a) PROVE Sums(a) /\ stats' = stats
      <3>1. pc[a] = "idle" /\ pc'[a] = "failed" /\ UNCHANGED <<todo, stats>>
        BY <2>8 DEF NotConfigured, Typed
      <3>2. stats \in [Attempt -> Tally] /\ IsFiniteSet(todo[a]) /\ Counts(a)' = 0
        BY <3>1 DEF Counted, Counts
      <3>3. QED
        BY <2>1, <3>1, <3>2
    <2>9. ASSUME NEW a \in Attempt, Query(a) \/ \E k \in Key : MoveUp(a, k)
          PROVE  Sums(a) /\ stats' = stats
      <3>1. pc[a] = "query" /\ UNCHANGED <<todo, stats>>
        BY <2>9 DEF Query, MoveUp, Typed
      <3>2. ASSUME Query(a) PROVE pc'[a] \in {"query", "write"}
        BY <3>2, QueryTells DEF Told, Typed
      <3>3. pc'[a] \in {"query", "write"}
        BY <2>9, <3>1, <3>2 DEF MoveUp
      <3>4. QED
        BY <3>1, <3>3 DEF Counted, Counts
    <2>10. ASSUME NEW a \in Attempt, NEW k \in Key, Took(a, k)
           PROVE  /\ pc[a] = "write" /\ IsFiniteSet(todo'[a])
                  /\ Cardinality(todo'[a]) \in Nat
                  /\ Counts(a) + Cardinality(todo'[a]) + 1 = Len(batch)
                  /\ Counts(a) \in Nat
      <3>1. pc[a] = "write" /\ todo'[a] = todo[a] \ {k} /\ k \in todo[a]
        BY <2>10 DEF Took, Typed
      <3>2. /\ IsFiniteSet(todo[a]) /\ stats[a] \in Tally
            /\ Counts(a) + Cardinality(todo[a]) = Len(batch)
        BY <3>1 DEF Counted
      <3>3. Counts(a) \in Nat
        BY <3>2 DEF Counts, Tally
      <3>4. /\ IsFiniteSet(todo'[a]) /\ Cardinality(todo[a]) \in Nat
            /\ Cardinality(todo'[a]) \in Nat /\ Cardinality(todo'[a]) + 1 = Cardinality(todo[a])
        <4>1. /\ IsFiniteSet(todo[a] \ {k}) /\ Cardinality(todo[a]) \in Nat
              /\ Cardinality(todo[a] \ {k}) \in Nat
              /\ Cardinality(todo[a] \ {k}) + 1 = Cardinality(todo[a])
          <5> HIDE DEF Goto
          <5>1. QED
            BY ONLY <3>1, <3>2, OneTaken
        <4>2. QED
          BY <3>1, <4>1
      <3>5. QED
        BY <3>1, <3>2, <3>3, <3>4
    <2>11. ASSUME NEW a \in Attempt, NEW k \in Key, Took(a, k), pc' = pc,
                  NEW what \in {"created", "updated", "skipped"}, Count(a, what)
           PROVE  Sums(a) /\ \A b \in Attempt \ {a} : stats'[b] = stats[b]
      <3>1. /\ stats' \in [Attempt -> Tally] /\ Counts(a)' = Counts(a) + 1
            /\ \A b \in Attempt \ {a} : stats'[b] = stats[b]
        BY <2>11, OneMore DEF Counted
      <3>2. QED
        BY <2>10, <2>11, <3>1
    <2>12. ASSUME NEW a \in Attempt, NEW k \in Key, Create(a, k)
           PROVE  Sums(a) /\ \A b \in Attempt \ {a} : stats'[b] = stats[b]
      <3>1. Took(a, k)
        BY <2>12 DEF Create
      <3>2. \/ pc' = pc /\ Count(a, "created")
            \/ pc'[a] = "link" /\ stats' = stats
        BY <2>12 DEF Create, MakeRow, Typed
      <3>3. CASE pc'[a] = "link" /\ stats' = stats
        <4>1. Counts(a)' = Counts(a)
          BY <3>3 DEF Counts
        <4>2. QED
          BY <2>10, <3>1, <3>3, <4>1 DEF Counted
      <3>4. QED
        BY <2>11, <3>1, <3>2, <3>3
    <2>13. ASSUME NEW a \in Attempt, Link(a)
           PROVE  Sums(a) /\ \A b \in Attempt \ {a} : stats'[b] = stats[b]
      <3>1. pc[a] = "link" /\ pc'[a] = "write" /\ todo' = todo /\ Count(a, "created")
        BY <2>13 DEF Link, Typed
      <3>2. /\ stats[a] \in Tally /\ IsFiniteSet(todo[a])
            /\ Counts(a) + Cardinality(todo[a]) + 1 = Len(batch)
        BY <3>1 DEF Counted
      <3>3. Cardinality(todo[a]) \in Nat
        BY <3>2, FS_CardinalityType
      <3>4. /\ stats' \in [Attempt -> Tally]
            /\ Counts(a)' = Counts(a) + 1 /\ Counts(a) \in Nat
            /\ \A b \in Attempt \ {a} : stats'[b] = stats[b]
        BY <3>1, OneMore DEF Counted
      <3>5. QED
        BY <3>1, <3>2, <3>3, <3>4
    <2>14. ASSUME NEW a \in Attempt, Complete(a) PROVE Sums(a) /\ stats' = stats
      <3>1. pc[a] = "write" /\ pc'[a] = "done" /\ UNCHANGED <<todo, stats>>
        BY <2>14 DEF Complete, Typed
      <3>2. QED
        BY <3>1 DEF Counted, Counts
    <2>15. ASSUME NEW a \in Attempt, Step(a)
           PROVE  Sums(a) /\ \A b \in Attempt \ {a} : stats'[b] = stats[b]
      <3>1. ASSUME NEW k \in Key, Skip(a, k) \/ Update(a, k)
            PROVE  Sums(a) /\ \A b \in Attempt \ {a} : stats'[b] = stats[b]
        BY <2>11, <3>1 DEF Skip, Update
      <3>2. QED
        BY <2>7, <2>8, <2>9, <2>12, <2>13, <2>14, <2>15, <3>1 DEF Step
    <2>16. QED
      BY <2>4, <2>5, <2>6, <2>15 DEF Next
  <1>3. QED
    BY <1>1, <1>2, TypedAlways, BatchTypedAlways, WrittenAlways, PTL DEF Spec

\* An attempt that ends well has counted every record of its batch once, those
\* it dropped for want of a key and those whose key came again included.
THEOREM StatsAlwaysAddUp == Spec => []StatsAddUp
  <1>1. BatchTyped /\ Written /\ Counted => StatsAddUp
    <2> SUFFICES ASSUME BatchTyped, Written, Counted, NEW a \in Attempt, pc[a] = "done"
                 PROVE  Counts(a) = Len(batch)
      BY DEF StatsAddUp, Counts
    <2>1. Cardinality(todo[a]) = 0
      BY FS_EmptySet DEF Written
    <2>2. Counts(a) \in Nat
      BY DEF Counted, Counts, Tally
    <2>3. QED
      BY <2>1, <2>2 DEF Counted
  <1>2. QED
    BY <1>1, BatchTypedAlways, WrittenAlways, CountedAlways, PTL

\* Every variable keeps its type; that no attempt counts more than the batch
\* holds is part of it.
THEOREM TypeCorrect == Spec => []TypeOK
  <1>1. Typed /\ BatchTyped /\ Counted => TypeOK
    <2> SUFFICES ASSUME Typed, BatchTyped, Counted PROVE TypeOK
      OBVIOUS
    <2>1. ASSUME NEW a \in Attempt PROVE stats[a] \in Stats
      <3>1. /\ stats[a] \in Tally
            /\ Cardinality(todo[a]) \in Nat /\ Len(batch) \in Nat /\ Len(batch) <= MaxBatch
        BY FS_CardinalityType DEF Counted, BatchTyped
      <3>2. Counts(a) \in Nat /\ Counts(a) <= Len(batch)
        <4>1. pc[a] \in {"idle", "query", "write", "link", "done", "failed"}
          BY DEF Typed, Active
        <4>2. Counts(a) \in Nat
          BY <3>1 DEF Counts, Tally
        <4>3. QED
          BY <3>1, <4>1, <4>2 DEF Counted
      <3>3. QED
        BY <3>1, <3>2 DEF Counts, Stats, Tally
    <2>2. stats \in [Attempt -> Stats]
      BY <2>1 DEF Counted
    <2>3. QED
      BY <2>2 DEF TypeOK, Typed, BatchTyped
  <1>2. QED
    BY <1>1, TypedAlways, BatchTypedAlways, CountedAlways, PTL
=============================================================================
