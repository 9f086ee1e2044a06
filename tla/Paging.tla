-------------------------------- MODULE Paging --------------------------------
(***************************************************************************)
(* The readers of remote lists: fetch_page of every source, the queries of  *)
(* existing keys of the destinations, and two lists read for enrichment.    *)
(* A reader asks for one page after the other while the service's list      *)
(* changes.  It continues from an offset (GitHub's page number,             *)
(* Contentful's skip, Notion's LIMIT/OFFSET) or from a token of the service *)
(* (Jira, Luma, YouTube, Asana), taken to mean "what comes after the last   *)
(* item returned".                                                          *)
(***************************************************************************)
EXTENDS Integers, FiniteSets

CONSTANTS Item,        \* what a service lists
          PageSize,    \* items on a full page
          MaxChanges   \* bound: changes of the list during one read

ASSUME PagingAssumption == /\ Item \subseteq Nat /\ IsFiniteSet(Item)
                           /\ \A i \in Item : i <= Cardinality(Item)
                           /\ PageSize \in Nat \ {0}
                           /\ MaxChanges \in Nat

VARIABLES reader,     \* who reads
          only,       \* only_items: the ids of a targeted refresh, {} for all
          mark,       \* what the reader's own filters see in an item
          present,    \* the items the service has
          stamp,      \* where an item stands in the service's order
          clock,      \* the next stamp
          horizon,    \* now - lookback_days
          stage,      \* "idle", "reading", "done"
          cursor,     \* where the next page starts
          got,        \* the items returned so far
          since,      \* history: the horizon when the first page was asked for
          steady,     \* history: items neither new, edited nor deleted since then
          disturbed   \* history: an item left a place already passed

listVars == <<present, stamp, clock, horizon>>
pagingVars == <<reader, only, mark, listVars, stage, cursor, got, since, steady, disturbed>>

PagedSources == {"github_org", "github_named", "jira", "luma", "youtube",
                 "contentful_cda", "contentful_cma", "notion", "notion_ordered"}
KeyScans == {"notion_keys", "asana_keys", "jira_keys"}
Readers == PagedSources \cup KeyScans \cup {"persons", "members"}
Contentful == {"contentful_cda", "contentful_cma"}
\* NotionSource asks for no order unless it is given an order_property ("notion_ordered":
\* one whose values differ), and the index of persons is asked for in none.
Unordered == {"notion", "persons"}
ByOffset == {"github_org", "notion_ordered", "notion_keys", "members"} \cup Contentful
\* They answer a targeted refresh with one page.
OnePage == {"jira", "youtube"}
Marks == {"plain", "excluded", "ungated", "draft", "blank"}

\* A cursor: none yet, none any more, or what follows an offset or a token.
Start == [kind |-> "start", after |-> 0, at |-> 0]
None == [kind |-> "end", after |-> 0, at |-> 0]

\* mutant of After: the window start is taken anew for every page.
AfterAnew == horizon

\* The window start: taken from the clock for the first page, then from the cursor.
After == IF cursor = Start THEN horizon ELSE cursor.after
PackCursor(at) == [kind |-> "next", after |-> After, at |-> at]

-----------------------------------------------------------------------------
\* The service.  Contentful and YouTube list newest first.
Rank(i) == IF reader \in Contentful \cup {"youtube"} THEN -stamp[i] ELSE stamp[i]
Ahead(i, S) == Cardinality({j \in S : Rank(j) < Rank(i)})
FirstOf(S) == {i \in S : Ahead(i, S) < PageSize}
AtOffset(S, offset) == {i \in S : Ahead(i, S) \in offset .. offset + PageSize - 1}

\* Items after the token, and the token for what follows a page (None: nothing).
AfterToken(S) == IF cursor = Start THEN S ELSE {i \in S : Rank(i) > cursor.at}
TokenAfter(page, S) ==
    LET rest == {i \in AfterToken(S) : \A j \in page : Rank(i) > Rank(j)}
    IN IF rest = {} THEN None
       ELSE PackCursor(CHOOSE r \in {Rank(j) : j \in page} : \A j \in page : Rank(j) <= r)
Published == {i \in present : mark[i] # "draft"}
Updated(S) == {i \in S : stamp[i] >= After}

\* A page and where the next one starts.
Page(items, next) == [items |-> items, next |-> next]

-----------------------------------------------------------------------------
(* GitHub *)
Excluded(i) == mark[i] = "excluded"
PassesGate(i) == ~Excluded(i) /\ mark[i] # "ungated"
GetRepos(names) == names \cap present
ReposByName(names, gate) ==
    {i \in GetRepos(names) : ~Excluded(i) /\ (gate => PassesGate(i))}
OrgReposPage(p) ==
    LET batch == AtOffset(present, (p - 1) * PageSize)
    IN [batch |-> batch, more |-> Cardinality(batch) = PageSize]
\* mutant of SelectReposPage: the page number in the cursor does not move on.
SelectSamePage ==
    LET p == IF cursor = Start THEN 1 ELSE cursor.at
        r == OrgReposPage(p)
    IN Page({i \in r.batch : PassesGate(i)}, IF r.more THEN PackCursor(p) ELSE None)

SelectReposPage ==
    IF only # {} THEN Page(ReposByName(only, reader = "github_org"), None)
    ELSE IF reader = "github_named" THEN Page(ReposByName(Item, FALSE), None)
    ELSE LET p == IF cursor = Start THEN 1 ELSE cursor.at
             r == OrgReposPage(p)
         IN Page({i \in r.batch : PassesGate(i)},
                 IF r.more THEN PackCursor(p + 1) ELSE None)

(* Jira: a targeted query asks for its first page only. *)
SearchPage(S) == LET page == FirstOf(AfterToken(S)) IN Page(page, TokenAfter(page, S))
\* mutant of JiraPage: a targeted refresh queries everything.
JiraPageOfAll == SearchPage(present)

JiraPage == IF only # {} THEN Page(SearchPage(only \cap present).items, None)
            ELSE SearchPage(present)

(* Luma: the service filters by the window. *)
GetEvents(ids) == ids \cap present
EventEntriesPage == LET page == FirstOf(AfterToken(Updated(present)))
                    IN Page(page, TokenAfter(page, Updated(present)))
LumaPage == IF only # {} THEN Page(GetEvents(only), None) ELSE EventEntriesPage

(* YouTube: the client stops at the first video before the window. *)
VideosPage ==
    LET page == FirstOf(AfterToken(present))
        older == {i \in page : stamp[i] < After}
        metas == {i \in page : \A j \in older : Rank(i) < Rank(j)}
    IN Page(metas, IF older # {} THEN None ELSE TokenAfter(page, present))
VideosById(ids) == ids \cap present
\* The ids asked for are cut to one page; their order is the caller's.
FirstIds == {T \in SUBSET only : /\ Cardinality(T) <= PageSize
                                 /\ Cardinality(T) < PageSize => T = only}

\* The offset of readers that keep one in the cursor.
Skip == IF cursor = Start THEN 0 ELSE cursor.at
\* A page in no order: of the rows there are, any.
AnyRows ==
    LET left == Cardinality(present) - Skip
    IN {rows \in SUBSET present :
          Cardinality(rows) = IF left < 0 THEN 0 ELSE IF left < PageSize THEN left ELSE PageSize}

(* Contentful: offset in a list that an edit reorders. *)
NextSkip(skip, n, total) ==
    IF n > 0 /\ skip + n < total THEN PackCursor(skip + n) ELSE None
EntriesPage(S, skip) ==
    LET items == AtOffset(S, skip)
    IN Page(items, NextSkip(skip, Cardinality(items), Cardinality(S)))
CdaPage(skip) == EntriesPage(Updated(Published), skip)
CmaPage(skip) == EntriesPage(Updated(present), skip)
IterEntriesPage(skip) == IF reader = "contentful_cda" THEN CdaPage(skip) ELSE CmaPage(skip)
HasTitle(i) == mark[i] # "blank"
ContentfulPage ==
    LET r == IterEntriesPage(Skip)
    IN Page({i \in r.items : (only = {} \/ i \in only) /\ HasTitle(i)}, r.next)

(* Notion: SELECT ... LIMIT ... OFFSET, until a page is short. *)
OrderedRows == AtOffset(present, Skip)
QueryNext(rows) == IF Cardinality(rows) < PageSize THEN None ELSE PackCursor(Skip + PageSize)
HasPageId(i) == mark[i] # "blank"
NotionRows(rows) ==
    Page({i \in rows : HasPageId(i) /\ (only = {} \/ i \in only)}, QueryNext(rows))
NotionKeys == Page({i \in OrderedRows : HasPageId(i)}, QueryNext(OrderedRows))

(* Scans by token; "blank" is a task or issue without our key. *)
Keyed(page) == Page({i \in page.items : mark[i] # "blank"}, page.next)
AsanaKeys == Keyed(SearchPage(present))
JiraKeys == Keyed(SearchPage(present))
-----------------------------------------------------------------------------
PagingInit ==
    /\ reader = "jira" /\ only = {} /\ mark = [i \in Item |-> "plain"]
    /\ present = {} /\ stamp = [i \in Item |-> i] /\ clock = 0 /\ horizon = 0
    /\ stage = "idle" /\ cursor = Start /\ got = {}
    /\ since = 0 /\ steady = {} /\ disturbed = FALSE

\* A read begins on a list in some state.  At most one item is out of the ordinary.
BeginRead(r, ids, S, m) ==
    /\ stage = "idle"
    /\ r \notin PagedSources => ids = {}
    /\ stage' = "reading" /\ reader' = r /\ only' = ids /\ mark' = m
    /\ present' = S /\ steady' = S
    /\ clock' = 1 + Cardinality(Item) /\ horizon' = 2
    /\ UNCHANGED <<stamp, cursor, got, since, disturbed>>

\* The reader asks for a page and keeps what it returns.
Read(page) ==
    /\ stage = "reading"
    /\ got' = got \cup page.items
    /\ IF page.next = None THEN stage' = "done" /\ UNCHANGED cursor
                           ELSE cursor' = page.next /\ UNCHANGED stage
    /\ since' = IF cursor = Start THEN horizon ELSE since
    /\ UNCHANGED <<reader, only, mark, listVars, steady, disturbed>>

FetchGithub == reader \in {"github_org", "github_named"} /\ Read(SelectReposPage)
FetchJira == reader = "jira" /\ Read(JiraPage)
FetchLuma == reader = "luma" /\ Read(LumaPage)
FetchYouTube == /\ reader = "youtube"
                /\ IF only = {} THEN Read(VideosPage)
                   ELSE \E ids \in FirstIds : Read(Page(VideosById(ids), None))
FetchContentful == reader \in Contentful /\ Read(ContentfulPage)
FetchNotion == \/ reader = "notion_ordered" /\ Read(NotionRows(OrderedRows))
               \/ reader = "notion" /\ \E rows \in AnyRows : Read(NotionRows(rows))
ScanNotion == reader = "notion_keys" /\ Read(NotionKeys)
ScanAsana == reader = "asana_keys" /\ Read(AsanaKeys)
ScanJira == reader = "jira_keys" /\ Read(JiraKeys)

\* The person index of Contentful.
LoadPersons ==
    /\ reader = "persons"
    /\ \E items \in AnyRows :
          Read(Page(items, NextSkip(Skip, Cardinality(items), Cardinality(present))))

\* The members of an organisation; a refused page ends the list silently.
FetchMembers ==
    /\ reader = "members"
    /\ LET p == IF cursor = Start THEN 1 ELSE cursor.at
           r == OrgReposPage(p)
       IN Read(Page(r.batch, IF r.more THEN PackCursor(p + 1) ELSE None))
RefuseMembers ==
    /\ reader = "members" /\ stage = "reading"
    /\ stage' = "done" /\ disturbed' = TRUE
    /\ UNCHANGED <<reader, only, mark, listVars, cursor, got, since, steady>>

Fetch == \/ FetchGithub \/ FetchJira \/ FetchLuma \/ FetchYouTube \/ FetchContentful
         \/ FetchNotion \/ ScanNotion \/ ScanAsana \/ ScanJira \/ LoadPersons \/ FetchMembers

-----------------------------------------------------------------------------
(* The outside changes the list, MaxChanges times at most. *)
Changes == clock < 1 + Cardinality(Item) + MaxChanges
Listed == CASE reader = "contentful_cda" -> Updated(Published)
            [] reader = "contentful_cma" -> Updated(present)
            [] OTHER -> present
Offset == IF reader \in {"github_org", "members"} THEN (cursor.at - 1) * PageSize ELSE cursor.at
\* The place of i is before the offset of the next page.
Passed(i) == /\ reader \in ByOffset /\ cursor # Start
             /\ i \in Listed /\ Ahead(i, Listed) < Offset

\* New uploads, issues and edits come at one end; a new name comes anywhere.
Insert(i) ==
    /\ i \notin present
    /\ present' = present \cup {i}
    /\ stamp' = IF reader \in {"github_org", "notion_ordered", "notion_keys", "luma", "members"}
                THEN stamp ELSE [stamp EXCEPT ![i] = clock]
    /\ UNCHANGED <<steady, disturbed>>

\* An update, a rename, a new date: where the service orders by it, the item moves.
Edit(i) ==
    /\ i \in present
    /\ reader \in Contentful \cup {"github_org", "luma", "notion", "notion_ordered"}
    /\ stamp' = [stamp EXCEPT ![i] = clock]
    /\ steady' = steady \ {i}
    /\ disturbed' = (disturbed \/ (Passed(i) /\ reader \notin Contentful))
    /\ UNCHANGED present

Delete(i) ==
    /\ i \in present
    /\ present' = present \ {i}
    /\ steady' = steady \ {i}
    /\ disturbed' = (disturbed \/ Passed(i))
    /\ UNCHANGED stamp

ChangeList ==
    /\ stage = "reading" /\ Changes
    /\ clock' = clock + 1
    /\ \/ (\E i \in Item : Insert(i) \/ Edit(i) \/ Delete(i)) /\ UNCHANGED horizon
       \/ horizon' = horizon + 1 /\ UNCHANGED <<present, stamp, steady, disturbed>>
    /\ UNCHANGED <<reader, only, mark, stage, cursor, got, since>>

-----------------------------------------------------------------------------
\* Properties.

PagingTypeOK ==
    /\ reader \in Readers /\ only \subseteq Item /\ mark \in [Item -> Marks]
    /\ present \subseteq Item /\ stamp \in [Item -> Nat] /\ {clock, horizon, since} \subseteq Nat
    /\ stage \in {"idle", "reading", "done"}
    /\ cursor.kind \in {"start", "next"} /\ cursor.at \in Int
    /\ got \subseteq Item /\ steady \subseteq present /\ disturbed \in BOOLEAN

\* What the reader is there to return.
Wanted(i) ==
    CASE reader = "github_org" -> PassesGate(i)
      [] reader = "github_named" -> ~Excluded(i)
      [] reader \in {"luma", "youtube"} -> only # {} \/ stamp[i] >= since
      [] reader = "contentful_cda" -> stamp[i] >= since /\ mark[i] \notin {"blank", "draft"}
      [] reader = "contentful_cma" -> stamp[i] >= since /\ mark[i] # "blank"
      [] reader \in {"notion", "notion_ordered"} \cup KeyScans -> mark[i] # "blank"
      [] OTHER -> TRUE

\* A list read in no order is whole only as long as its first page is the last.
InOrder == reader \in Unordered => cursor = Start

\* A read that is over has returned every item that nobody touched meanwhile,
\* whatever was added, edited or deleted around it and however far the clock
\* went; unless an item left a place the read had already passed, when what
\* came after it moved into pages already read, or the read was in no order and
\* took several pages, as NotionSource's does where order_property is not given.
\* (Offsets protect against insertions only; a frozen window and ORDER BY are
\* what makes it hold.)
SteadyItemsRead ==
    stage = "done" /\ only = {} /\ InOrder /\ ~disturbed
        => {i \in steady : Wanted(i)} \subseteq got

\* A targeted refresh returns no item that was not named, and every named one
\* that nobody touched and that passes the filters, however many pages the scan
\* for it takes.  Only Jira and YouTube leave some out, when more are named than
\* fit on the one page they ask for.
TargetedRead ==
    stage = "done" /\ only # {} /\ InOrder /\ ~disturbed
        => /\ got \subseteq only
           /\ \/ {i \in steady \cap only : Wanted(i)} \subseteq got
              \/ reader \in OnePage /\ Cardinality(only) > PageSize

\* Every read comes to an end: each request moves the cursor on.
ReadEnds == stage = "reading" ~> stage = "done"
=============================================================================
