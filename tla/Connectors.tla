------------------------------ MODULE Connectors ------------------------------
(***************************************************************************)
(* What surrounds the sync proper, part by part: reading remote lists,      *)
(* writing rows and entries, the units of work and their workers, the table *)
(* made from a sample, single calls, the credential file.  The parts share  *)
(* no state: a behaviour is one of one part, from all the inputs chosen     *)
(* here.                                                                    *)
(***************************************************************************)
EXTENDS Paging, Rows, EntryUpsert, Units, Schema, Calls, CredentialFile

VARIABLE part      \* the part that runs

vars == <<part, pagingVars, rowVars, upsertVars, unitVars, schemaVars, callVars, fileVars>>

\* The inputs named below are among the constants.
ASSUME InputsAssumption == {1, 2, 3, 4, 5} \subseteq Item /\ {"a", "b"} \subseteq UnitName
                           /\ {"Name", "Key", "Prop", "Stamp"} \subseteq Column

Parts == {"paging", "rows", "upsert", "units", "schema", "calls", "file"}

Init ==
    /\ part \in Parts
    /\ PagingInit /\ RowsInit /\ UpsertInit /\ UnitsInit /\ SchemaInit /\ CallsInit /\ FileInit

-----------------------------------------------------------------------------
\* Readers, with nothing, one item, or more than a page asked for by name, some
\* lists, and one item that is odd in every way.
Odd(r) == IF r \in {"github_org", "github_named"} THEN {"excluded", "ungated"}
          ELSE IF r \in Contentful THEN {"draft", "blank"} ELSE {"blank"}
ReadLists ==
    \/ \E r \in Readers, ids \in {{}, {1, 2}, {4}, {1, 2, 3}},
          S \in {Item, {2, 3, 4, 5}, {4}} :
          \E k \in Odd(r) \cup {"plain"} :
             BeginRead(r, ids, S, [i \in Item |-> IF i = 2 THEN k ELSE "plain"])
    \/ Fetch \/ RefuseMembers \/ ChangeList

\* Every source with every destination and role, and one oddity of the plan.
Ordinary(s, d, r) ==
    [source |-> s, destination |-> d, role |-> r, createOnly |-> r = "seed",
     restricted |-> FALSE, owned |-> TRUE, keyOwned |-> TRUE,
     columns |-> [c \in {"value", "key"} |-> TRUE]]
Oddities(p) ==
    {p, [p EXCEPT !.createOnly = TRUE], [p EXCEPT !.restricted = TRUE],
     [p EXCEPT !.restricted = TRUE, !.owned = FALSE],
     [p EXCEPT !.restricted = TRUE, !.keyOwned = FALSE],
     [p EXCEPT !.columns["value"] = FALSE], [p EXCEPT !.columns["key"] = FALSE]}
SyncRow ==
    \/ \E s \in Sources, d \in Destinations, r \in Roles :
          \E p \in Oddities(Ordinary(s, d, r)) : Configure(p, 1)
    \/ \E v \in {Missing, Empty, 2} : SourceEdit(v)
    \/ HumanEdit(2) \/ RenameKey \/ Sync

\* Wirings: several units of a source, units with one key, several sources; every
\* destination, and a source that does not resolve, where Notion's is among them.
NamedUnit(s, k, v, w) == [source |-> s, kind |-> k, name |-> v, about |-> w]
UnitOf(s, k, v) == NamedUnit(s, k, v, v)
Wirings ==
    {{UnitOf("github", "org", "a"), UnitOf("github", "repos", "a")},
     {UnitOf("github", "repos", "a"), UnitOf("github", "repos", "b")},
     {UnitOf("github", "org", "a"), UnitOf("luma", "events", "a"), UnitOf("notion", "ds", "b")},
     {UnitOf("notion", "ds", "a")},
     {UnitOf("jira", "jql", "a"), UnitOf("jira", "project", "a"),
      UnitOf("contentful", "type", "a"), UnitOf("youtube", "channel", "a")},
     {NamedUnit("jira", "jql", "a", "b"), UnitOf("jira", "jql", "b"),
      NamedUnit("contentful", "type", "a", "b")}}
RunUnits ==
    \/ \E S \in Wirings, b, resolve \in BOOLEAN, d \in TargetKind :
          /\ (resolve /\ d = "other") \/ \E u \in S : u.source = "notion"
          /\ WireApp([units |-> S, bundled |-> b, destination |-> d, resolve |-> resolve])
    \/ RunScript \/ StartWorkflow \/ ScriptDies \/ MakeWorker \/ StopWorker \/ FetchPage

\* Two records with every shape in one column, alone or together in the sample;
\* dates declared or not, an override, a column anchored, no key column.
SampleOf(p, q, s) ==
    LET first == [c \in Column |-> CASE c = "Prop" -> p [] c = "Stamp" -> s [] OTHER -> "text"]
    IN <<first, [[c \in Column |-> "absent"] EXCEPT !["Name"] = "text", !["Key"] = "text",
                                                  !["Prop"] = q]>>
WiringOf(key, over, dates, anchored) ==
    [title |-> "Name", key |-> key, synced |-> "Stamp", dates |-> dates, anchored |-> anchored,
     override |-> [column |-> over, kind |-> "select"]]
MakeTable ==
    \/ \E p \in Shape, q \in {"absent", "text", "checkbox", "datetime"}, s \in {"absent", "text"},
          d \in {{}, {"Prop"}}, n \in 1 .. 2, k \in {"Key", Nameless} :
             /\ s = "text" => q = "text"
             /\ WireTable(WiringOf(k, IF q = "checkbox" THEN "Prop" ELSE Nameless, d,
                                   p = "multi_select"), SampleOf(p, q, s), n)
    \/ Generate \/ EnsureSchema \/ EndGenerate \/ HumanRenames \/ ReadColumns
    \/ (\E i \in DOMAIN records : WriteSample(i)) \/ ReadRow

MakeCall ==
    \/ \E c \in Callers, t \in Truths : Ask(c, t)
    \/ AnswerLimited \/ AnswerTrue \/ Break \/ RequestWithRetry \/ Return

Next ==
    \/ part = "paging" /\ ReadLists
       /\ UNCHANGED <<part, rowVars, upsertVars, unitVars, schemaVars, callVars, fileVars>>
    \/ part = "rows" /\ SyncRow
       /\ UNCHANGED <<part, pagingVars, upsertVars, unitVars, schemaVars, callVars, fileVars>>
    \/ part = "upsert" /\ UpsertNext
       /\ UNCHANGED <<part, pagingVars, rowVars, unitVars, schemaVars, callVars, fileVars>>
    \/ part = "units" /\ RunUnits
       /\ UNCHANGED <<part, pagingVars, rowVars, upsertVars, schemaVars, callVars, fileVars>>
    \/ part = "schema" /\ MakeTable
       /\ UNCHANGED <<part, pagingVars, rowVars, upsertVars, unitVars, callVars, fileVars>>
    \/ part = "calls" /\ MakeCall
       /\ UNCHANGED <<part, pagingVars, rowVars, upsertVars, unitVars, schemaVars, fileVars>>
    \/ part = "file" /\ FileNext
       /\ UNCHANGED <<part, pagingVars, rowVars, upsertVars, unitVars, schemaVars, callVars>>

\* A reader asks for the next page and an attempt goes on with its calls: nothing
\* but the service's answer stands between them and their next step.
Spec ==
    /\ Init /\ [][Next]_vars
    /\ WF_pagingVars(Fetch)
    /\ \A w \in Writer : WF_upsertVars(Call(w))

TypeOK ==
    /\ part \in Parts
    /\ PagingTypeOK /\ RowsTypeOK /\ UpsertTypeOK /\ UnitsTypeOK
    /\ SchemaTypeOK /\ CallsTypeOK /\ FileTypeOK
=============================================================================
