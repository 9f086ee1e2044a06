-------------------------------- MODULE Units --------------------------------
(***************************************************************************)
(* From the wired source to running workflows: the units of work a source   *)
(* names, the bundle of several sources (MultiSource), the script that      *)
(* starts one workflow for each unit and may be run again at any time, and  *)
(* the worker that serves them.  Script and worker are processes of their   *)
(* own, each with the configuration it was started with.                    *)
(***************************************************************************)
EXTENDS Naturals, Sequences, FiniteSets

CONSTANTS UnitName,    \* organisations, slugs, queries, channels, types, labels, ...
          MaxTurns     \* bound: runs of the script, changes of the configuration

ASSUME UnitsAssumption == MaxTurns \in Nat

VARIABLES wired,       \* the configuration: [units, bundled, destination, resolve]
          ever,        \* history: every unit that was configured
          script,      \* start_sources: "idle", "running" or "done"
          todo,        \* specs it has not started yet
          running,     \* the workflows: [id, spec]
          worker,      \* "down", "polling" or "refused"
          serving,     \* the configuration the worker was started with
          resolved,    \* what the worker's NotionSource has resolved once, or Nothing
          fetched,     \* the last fetch: which workflow, what it was routed to, what was read
          turns        \* turns so far

unitVars == <<wired, ever, script, todo, running, worker, serving, resolved, fetched,
              turns>>

Connector == {"github", "jira", "luma", "youtube", "contentful", "notion"}
UnitKinds == [github |-> {"org", "repos"}, jira |-> {"jql", "project"}, luma |-> {"events"},
          youtube |-> {"channel"}, contentful |-> {"type"}, notion |-> {"ds"}]
\* A unit has a name and is about something.  Only with these kinds the name does
\* not tell what: a JQL goes by a slug, a content type is given a label.
NamedApart == {"jql", "type"}
Unit == {u \in UNION {[source : {s}, kind : UnitKinds[s], name : UnitName, about : UnitName] :
                         s \in Connector} : u.kind \in NamedApart \/ u.about = u.name}
TargetKind == {"notion", "contentful_mcp", "other"}

\* What a unit has its source read.  A spec carries that as params; Luma's carries
\* nothing: the calendar is the worker's.
Nothing == <<>>
Content(u) == IF u.kind = "type" THEN <<u.kind, u.name, u.about>> ELSE <<u.kind, u.about>>

\* A key is the sequence of the parts between its colons.
SourceSpec(key, params) == [key |-> key, params |-> params]
GithubSpec(u) ==
    SourceSpec(IF u.kind = "org" THEN <<"org", u.name>> ELSE <<"repos", "named">>, Content(u))
JiraSpec(u) == SourceSpec(<<u.kind, u.name>>, Content(u))
LumaSpec(u) == SourceSpec(<<"events">>, Nothing)
YouTubeSpec(u) == SourceSpec(<<"channel", u.name>>, Content(u))
ContentfulSpec(u) == SourceSpec(<<"type", u.name>>, Content(u))
NotionSpec(u) == SourceSpec(<<"ds", u.name>>, Content(u))
InnerSpec(u) == CASE u.source = "github" -> GithubSpec(u)
                  [] u.source = "jira" -> JiraSpec(u)
                  [] u.source = "luma" -> LumaSpec(u)
                  [] u.source = "youtube" -> YouTubeSpec(u)
                  [] u.source = "contentful" -> ContentfulSpec(u)
                  [] u.source = "notion" -> NotionSpec(u)

(* MultiSource: the source's name in front of the key, taken off again to route. *)
Qualified(name, spec) == [spec EXCEPT !.key = <<name>> \o @]
SpecOf(u, bundled) == IF bundled THEN Qualified(u.source, InnerSpec(u)) ELSE InnerSpec(u)
Specs(c) == {SpecOf(u, c.bundled) : u \in c.units}
Names(c) == {u.source : u \in c.units}
Routed(spec, c) ==
    IF ~c.bundled THEN [source |-> CHOOSE s \in Names(c) : TRUE, spec |-> spec]
    ELSE IF Head(spec.key) \in Names(c)
         THEN [source |-> Head(spec.key), spec |-> [spec EXCEPT !.key = Tail(@)]]
         ELSE [source |-> "none", spec |-> spec]

(* The sources: Luma's reads its own calendar; YouTube's and Notion's read their  *)
(* own where the params name none; Notion's resolves what it is to read (a       *)
(* database, perhaps) once and reads that from then on, whatever a spec says.    *)
Own(s, c) == Content(CHOOSE u \in c.units : u.source = s)
Told(s, spec, c) ==
    IF s = "luma" \/ (s \in {"youtube", "notion"}
                        /\ (spec.params = Nothing \/ Head(spec.params) \notin UnitKinds[s]))
    THEN Own(s, c) ELSE spec.params

\* mutant of WorkflowId: only the key up to its kind.
WorkflowIdOfKind(spec) == <<"durable-sync", Head(spec.key)>>

WorkflowId(spec) == <<"durable-sync">> \o spec.key

Nobody == [units |-> {}, bundled |-> FALSE, destination |-> "other", resolve |-> TRUE]
NoFetch == [id |-> <<>>, source |-> "none", spec |-> SourceSpec(<<>>, Nothing), read |-> Nothing]

-----------------------------------------------------------------------------
UnitsInit ==
    /\ wired = Nobody /\ ever = {} /\ script = "idle" /\ todo = {} /\ running = {}
    /\ worker = "down" /\ serving = Nobody /\ resolved = Nothing /\ fetched = NoFetch /\ turns = 0

Turn == turns < MaxTurns /\ turns' = turns + 1

\* These sources have one unit, and a content type has one label.
Single == {"luma", "youtube", "notion"}
OneEach(c) == \A u, v \in c.units :
    /\ u.source \in Single /\ v.source = u.source => u = v
    /\ u.kind = "type" /\ v.kind = "type" /\ u.name = v.name => u = v

\* The application is wired, or wired anew; the names in a bundle differ.
WireApp(c) ==
    /\ c.units # {} /\ c # wired
    /\ OneEach(c) /\ (~c.bundled => Cardinality(Names(c)) = 1)
    /\ wired # Nobody => Turn
    /\ wired = Nobody => UNCHANGED turns
    /\ wired' = c /\ ever' = ever \cup c.units
    /\ script' = "idle" /\ todo' = {}
    /\ UNCHANGED <<running, worker, serving, resolved, fetched>>

\* start_sources: one start_workflow after the other, in any order.
RunScript ==
    /\ wired # Nobody /\ script # "running" /\ Turn
    /\ script' = "running" /\ todo' = Specs(wired)
    /\ UNCHANGED <<wired, ever, running, worker, serving, resolved, fetched>>

\* A workflow that runs under the id already is left alone (USE_EXISTING).
StartWorkflow ==
    /\ script = "running"
    /\ \E s \in todo :
          /\ running' = IF \E r \in running : r.id = WorkflowId(s) THEN running
                        ELSE running \cup {[id |-> WorkflowId(s), spec |-> s]}
          /\ todo' = todo \ {s}
          /\ script' = IF todo = {s} THEN "done" ELSE "running"
    /\ UNCHANGED <<wired, ever, worker, serving, resolved, fetched, turns>>

ScriptDies ==
    /\ script = "running" /\ script' = "idle" /\ todo' = {}
    /\ UNCHANGED <<wired, ever, running, worker, serving, resolved, fetched, turns>>

\* What source and destination bring along: Notion and Contentful's MCP server
\* the token workflow; a bundle does not pass on what its sources bring.
SourceAux(c) == IF ~c.bundled /\ Names(c) = {"notion"} THEN {"OAuthTokenWorkflow"} ELSE {}
DestinationAux(c) == IF c.destination # "other" THEN {"OAuthTokenWorkflow"} ELSE {}
Offered(w, c) == (IF w \in SourceAux(c) THEN 1 ELSE 0) + (IF w \in DestinationAux(c) THEN 1 ELSE 0)
                 + (IF w = "SourceSyncWorkflow" THEN 1 ELSE 0)
\* mutant of Dedupe: everything offered is registered.
DedupeNothing(n) == n

Dedupe(n) == IF n > 1 THEN 1 ELSE n
Registered(w, c) == Dedupe(Offered(w, c))
Workflows == {"SourceSyncWorkflow", "OAuthTokenWorkflow"}

\* The SDK refuses a worker with a workflow twice.
MakeWorker ==
    /\ wired # Nobody /\ worker # "polling"
    /\ worker' = IF \E w \in Workflows : Registered(w, wired) > 1 THEN "refused" ELSE "polling"
    /\ serving' = wired /\ resolved' = Nothing /\ fetched' = NoFetch
    /\ UNCHANGED <<wired, ever, script, todo, running, turns>>

StopWorker ==
    /\ worker = "polling" /\ Turn
    /\ worker' = "down"
    /\ UNCHANGED <<wired, ever, script, todo, running, serving, resolved, fetched>>

\* A workflow's run has the worker fetch: the spec it was started with is routed,
\* and the source reads what it makes of it.  (A source that is asked for another's
\* unit may fail over its params; no property speaks of what it reads.)
FetchPage ==
    /\ worker = "polling"
    /\ \E r \in running :
          LET to == Routed(r.spec, serving)
              told == IF to.source = "none" THEN Nothing ELSE Told(to.source, to.spec, serving)
              cached == to.source = "notion" /\ serving.resolve
              read == IF cached /\ resolved # Nothing THEN resolved ELSE told
          IN /\ fetched' = [id |-> r.id, source |-> to.source, spec |-> to.spec, read |-> read]
             /\ resolved' = IF cached THEN read ELSE resolved
    /\ UNCHANGED <<wired, ever, script, todo, running, worker, serving, turns>>

-----------------------------------------------------------------------------
\* Properties.

UnitsTypeOK ==
    /\ wired.units \subseteq Unit /\ wired.bundled \in BOOLEAN
    /\ ever \subseteq Unit /\ script \in {"idle", "running", "done"}
    /\ \A r \in running : DOMAIN r = {"id", "spec"}
    /\ \A s \in todo : DOMAIN s = {"key", "params"}
    /\ worker \in {"down", "polling", "refused"} /\ turns \in 0 .. MaxTurns
    /\ resolved = Nothing \/ \E v \in UnitName : resolved = <<"ds", v>>

\* Units that the code gives the same key.
Clash(u, v) == u # v /\ InnerSpec(u).key = InnerSpec(v).key /\ u.source = v.source
Alone(u) == \A v \in ever : ~Clash(u, v)

\* When the script has come to its end every unit has a workflow of its own that
\* works for it: also when the script died on the way and was run again, when it
\* ran before, and when other units were configured or bundled otherwise in
\* between.  Not so for units with the same key.  GitHub gives every list of named
\* repositories the key repos:named, Jira every JQL the key of its slug, Contentful
\* every label the key of its type, Luma every calendar the key events: of two such
\* units one runs, and a change of the list, the JQL or the label under a key that
\* is kept never reaches the workflow that runs (USE_EXISTING).
EveryUnitRuns ==
    script = "done" =>
        \A u \in wired.units :
            LET s == SpecOf(u, wired.bundled)
            IN /\ \E r \in running : /\ r.id = WorkflowId(s)
                                    /\ \E v \in ever : /\ v = u \/ Clash(u, v)
                                                      /\ r.spec = SpecOf(v, wired.bundled)
               /\ Alone(u) => [id |-> WorkflowId(s), spec |-> s] \in running
               /\ \A v \in wired.units :
                     u # v /\ ~Clash(u, v) => WorkflowId(s) # WorkflowId(SpecOf(v, wired.bundled))

\* The worker's NotionSource was never another's as long as no other was wired.
OwnResolved(u) ==
    u.source = "notion" /\ serving.resolve => \A v \in ever : v.source = "notion" => v = u

\* A worker comes up whatever is wired, has what the sign-in needs, and asks each
\* workflow's own source for its own unit, as long as the workflow was started
\* for a unit it serves.  (A Notion source in a bundle needs the token workflow
\* and does not bring it.)  And the source reads what the unit is about, if no
\* other unit with its key was wired; a Notion source that resolves what it reads
\* does so for the first spec it is given and then for every one, so that here no
\* other Notion unit may have been wired before, whose workflow asks as well.
UnitsServed ==
    /\ worker # "refused"
    /\ worker = "polling" =>
          /\ Registered("SourceSyncWorkflow", serving) = 1
          /\ serving.destination # "other" \/ (Names(serving) = {"notion"} /\ ~serving.bundled)
               => Registered("OAuthTokenWorkflow", serving) = 1
    /\ worker = "polling" => \A u \in serving.units :
          fetched.id = WorkflowId(SpecOf(u, serving.bundled)) =>
             /\ fetched.source = u.source /\ fetched.spec.key = InnerSpec(u).key
             /\ Alone(u) /\ OwnResolved(u) =>
                   fetched.spec = InnerSpec(u) /\ fetched.read = Content(u)
=============================================================================
