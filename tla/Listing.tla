------------------------------ MODULE Listing ------------------------------
(* The paged lists (users, files, transactions, search) and the counts of    *)
(* the admin overview.  A list asks the database for a page and for a count  *)
(* at the same time (Promise.all), and others write before, between and      *)
(* after.  A client walks a list page by page.                               *)
(*                                                                           *)
(* A row is a document that the fixed part of the filter matches (who asks,  *)
(* search, folderId, dates).  Its key is the value of the sort field, the    *)
(* greatest first; a list sorted the other way is its mirror image.          *)
EXTENDS Integers, Sequences, FiniteSets, SequencesExt

CONSTANTS
  Row,
  FolderRow,  \* the rows that are folders (search looks in two collections)
  MaxLimit,   \* 100
  DefaultLimit,  \* 20, when the query names no limit
  MaxKey,     \* bound: values of the sort field
  MaxPage     \* bound: pages a client asks for

ASSUME ListingAssumption ==
  /\ IsFiniteSet(Row)
  /\ FolderRow \subseteq Row
  /\ {MaxLimit, MaxKey, MaxPage} \subseteq Nat \ {0}
  /\ DefaultLimit \in 1..MaxLimit

VARIABLES
  list,     \* which list this is
  rows,     \* the documents
  walk,     \* the client that walks the list, and its request
  overview  \* the request for the admin overview

vars == <<list, rows, walk, overview>>

List == {"users", "files", "transactions", "search"}

(* A document not inserted yet, active, inactive or trashed, in another      *)
(* folder than the one listed, deleted for good; and its key.                *)
Document == [state : {"none", "on", "off", "elsewhere", "gone"},
             key : 0..MaxKey]

(* The request for a page: the queries that still run, and the count.        *)
(* History: owed, the rows in the list ever since the walk began, not shown  *)
(* yet, that nothing excuses a page for missing; once, the rows shown that   *)
(* nothing excuses a page for showing again; repeated, those a page showed   *)
(* again.                                                                    *)
Walk == [pc : {"none", "asked", "idle", "refused", "done", "gaveUp"},
         limit : -(MaxLimit + 1)..MaxLimit + 1, page : 1..MaxPage,
         pending : SUBSET {"find", "count"},
         total : 0..Cardinality(Row),
         owed : SUBSET Row, once : SUBSET Row, repeated : SUBSET Row]

NoWalk == [pc |-> "none", limit |-> 0, page |-> 1, pending |-> {},
           total |-> 0,
           owed |-> {}, once |-> {}, repeated |-> {}]

(* History: touched, the documents written since the overview was asked for. *)
Overview == [pc : {"idle", "asked"}, pending : SUBSET {"first", "second"},
             first : 0..Cardinality(Row), second : 0..Cardinality(Row),
             touched : SUBSET Row]

NoOverview == [pc |-> "idle", pending |-> {}, first |-> 0, second |-> 0,
               touched |-> {}]

TypeOK ==
  /\ list \in List
  /\ rows \in [Row -> Document]
  /\ \A r \in Row : rows[r].state = "none" <=> rows[r].key = 0
  /\ walk \in Walk
  /\ overview \in Overview

----------------------------------------------------------------------------

There(r) == rows[r].state \notin {"none", "gone"}

(* isDeleted and folderId are part of the filter; isActive is not.           *)
Listed(r) ==
  IF list \in {"files", "search"} THEN rows[r].state = "on" ELSE There(r)

(* The collection a row is in.                                               *)
Together(q, r) ==
  list = "search" => (q \in FolderRow <=> r \in FolderRow)

Before(q, r) == Together(q, r) /\ Listed(q) /\ rows[q].key > rows[r].key

Tied(q, r) ==
  /\ q # r /\ Together(q, r)
  /\ Listed(q) /\ Listed(r) /\ rows[q].key = rows[r].key

TiedRows == {r \in Row : \E q \in Row : Tied(q, r)}

(* Mutant: no sort.                                                          *)
MutOrders(S) == SetToSeqs(S)

(* The orders .sort() may answer in: rows of one key come in any order, and  *)
(* not in the same one every time.                                           *)
Orders(S) ==
  {s \in SetToSeqs(S) :
     \A i, j \in DOMAIN s : rows[s[i]].key > rows[s[j]].key => i < j}

(* What the database makes of a limit: its sign does not count.              *)
Size == IF walk.limit < 0 THEN -walk.limit ELSE walk.limit

(* Mutant: pages are counted from zero.                                      *)
MutSkip == walk.page * walk.limit

Skip == (walk.page - 1) * walk.limit

(* .skip().limit() of a sorted collection; a limit of 0 is no limit.         *)
Cut(s) ==
  {s[i] : i \in {n \in DOMAIN s :
                   n > Skip /\ (Size = 0 \/ n <= Skip + Size)}}

(* The pages a find over these rows may answer with.                         *)
PagesOf(S) == {Cut(s) : s \in Orders(S)}

ListedRows == {r \in Row : Listed(r)}

(* search cuts a page out of the files and one out of the folders.           *)
FindResults ==
  IF list = "search"
    THEN {S \cup T : S \in PagesOf(ListedRows \ FolderRow),
                     T \in PagesOf(ListedRows \cap FolderRow)}
    ELSE PagesOf(ListedRows)

----------------------------------------------------------------------------
(* The client.  It walks, or asks for the overview: neither writes, so the    *)
(* two need not run at once.                                                 *)

(* A query that names a limit.  users refuses one below 1 or above 100,      *)
(* transactions above 100 (by user and by file it is cut down to 100, which  *)
(* is to ask for 100); files takes what it is given.  search refuses every   *)
(* query with a limit or a page: the validation knows of none.               *)
Refused(limit) ==
  \/ list = "users" /\ (limit < 1 \/ limit > MaxLimit)
  \/ list = "transactions" /\ limit > MaxLimit
  \/ list = "search"

(* The queries a list runs for a page.  search counts nothing; it runs two   *)
(* finds, but a row is in the collection of only one of them.                *)
Queries == IF list = "search" THEN {"find"} ELSE {"find", "count"}

Asked(limit) ==
  [NoWalk EXCEPT !.pc = "asked", !.limit = limit, !.pending = Queries,
                 !.owed = ListedRows \ TiedRows]

(* The first request of a walk.                                              *)
Start ==
  /\ walk = NoWalk /\ overview = NoOverview
  /\ \/ walk' = Asked(DefaultLimit)
     \/ \E limit \in -(MaxLimit + 1)..MaxLimit + 1 :
          walk' = IF Refused(limit) THEN [NoWalk EXCEPT !.pc = "refused"]
                                    ELSE Asked(limit)
  /\ UNCHANGED <<list, rows, overview>>

(* Whether the answer tells of further pages.  Its number of pages is total  *)
(* divided by limit and rounded up: no number for a limit of 0, and none     *)
(* above zero for a negative one.  search numbers no pages and takes no page.*)
Paged == list # "search" /\ walk.limit > 0

(* The rows ahead of r in the list.                                          *)
Ahead(r) == {q \in Row : Before(q, r)}

(* The rows that a list without further pages has no place for.              *)
Beyond ==
  {r \in Row : ~Paged /\ walk.limit # 0 /\ Cardinality(Ahead(r)) >= Size}

(* The request for the next page.                                            *)
Ask ==
  /\ walk.pc = "idle"
  /\ walk' = [walk EXCEPT !.pc = "asked", !.pending = Queries]
  /\ UNCHANGED <<list, rows, overview>>

Find ==
  /\ "find" \in walk.pending
  /\ \E found \in FindResults :
       walk' = [walk EXCEPT
         !.pending = @ \ {"find"},
         !.owed = @ \ (found \cup Beyond),
         !.once = @ \cup (found \ TiedRows),
         !.repeated = found \cap walk.once]
  /\ UNCHANGED <<list, rows, overview>>

Count ==
  /\ "count" \in walk.pending
  /\ walk' = [walk EXCEPT !.pending = @ \ {"count"},
                          !.total = Cardinality(ListedRows)]
  /\ UNCHANGED <<list, rows, overview>>

LastPage == ~Paged \/ walk.page * walk.limit >= walk.total

Answer ==
  /\ walk.pc = "asked" /\ walk.pending = {}
  /\ walk' = [walk EXCEPT
       !.total = 0,
       !.pc = IF LastPage THEN "done"
              ELSE IF walk.page = MaxPage THEN "gaveUp" ELSE "idle",
       !.page = IF LastPage \/ @ = MaxPage THEN @ ELSE @ + 1]
  /\ UNCHANGED <<list, rows, overview>>

Walking == walk.pc \in {"asked", "idle"}

(* The client is content, and may start over.                                *)
Again ==
  /\ walk # NoWalk /\ ~Walking
  /\ walk' = NoWalk
  /\ UNCHANGED <<list, rows, overview>>

----------------------------------------------------------------------------
(* The others.                                                               *)

(* What a write excuses a walk for.  To miss: a row that leaves the list, or *)
(* loses one ahead of it, or shares its key, or gets one ahead of it between *)
(* the count and the find.  To repeat: a row that gets one ahead of it, or   *)
(* shares its key.                                                           *)
Excused ==
  LET drawn  == {p \in Row : \E q \in Row : Before(q, p) /\ ~Before(q, p)'}
      pushed == {p \in Row : \E q \in Row : ~Before(q, p) /\ Before(q, p)'}
      late   == "find" \in walk.pending /\ "count" \in Queries \ walk.pending
      gone   == Row \ ListedRows'
  IN  [walk EXCEPT
        !.owed = @ \ (gone \cup drawn \cup TiedRows'
                        \cup IF late THEN pushed ELSE {}),
        !.once = @ \ (pushed \cup TiedRows')]

Write(r, document) ==
  /\ walk = NoWalk \/ Walking
  /\ UNCHANGED list
  /\ rows' = [rows EXCEPT ![r] = document]
  /\ walk' = IF Walking THEN Excused ELSE walk
  /\ overview' = IF overview.pc = "asked"
                   THEN [overview EXCEPT !.touched = @ \cup {r}] ELSE overview

(* What a new document's sort field may hold: nothing is created before what *)
(* is there, but only files can be sorted by another field.                  *)
NewKeys ==
  IF list = "files" THEN 1..MaxKey
  ELSE {k \in 1..MaxKey : \A q \in Row : rows[q].key <= k}

(* A user is created, a file uploaded, a folder created, a transaction       *)
(* logged.                                                                   *)
Insert(r) ==
  /\ rows[r].state = "none"
  /\ \E k \in NewKeys : Write(r, [state |-> "on", key |-> k])

(* A user is deactivated; a file or a folder is marked deleted.              *)
TurnOff(r) ==
  /\ list # "transactions"
  /\ rows[r].state = "on"
  /\ Write(r, [rows[r] EXCEPT !.state = "off"])

(* A user is activated again; a file is restored.                            *)
TurnOn(r) ==
  /\ list \in {"users", "files"} \/ (list = "search" /\ r \notin FolderRow)
  /\ rows[r].state = "off"
  /\ Write(r, [rows[r] EXCEPT !.state = "on"])

(* Mutant: the id is free for a new document.                                *)
MutDestroy(r) ==
  /\ list \in {"users", "files"} \/ (list = "search" /\ r \notin FolderRow)
  /\ There(r)
  /\ Write(r, [rows[r] EXCEPT !.state = "none"])

(* A user or a file is deleted for good.                                     *)
Destroy(r) ==
  /\ list \in {"users", "files"} \/ (list = "search" /\ r \notin FolderRow)
  /\ There(r)
  /\ Write(r, [rows[r] EXCEPT !.state = "gone"])

(* bulkMove takes a file to another folder, or brings it back.               *)
Move(r) ==
  /\ list = "files"
  /\ rows[r].state \in {"on", "elsewhere"}
  /\ Write(r, [rows[r] EXCEPT !.state =
                 IF @ = "on" THEN "elsewhere" ELSE "on"])

(* A file is renamed while the list is sorted by name.                       *)
Rename(r) ==
  /\ list = "files"
  /\ rows[r].state = "on"
  /\ \E k \in 1..MaxKey \ {rows[r].key} :
       Write(r, [rows[r] EXCEPT !.key = k])

----------------------------------------------------------------------------
(* GET /admin/overview counts users and active users, files and trashed      *)
(* files, each with a query of its own.                                      *)

OverviewAsk ==
  /\ list \in {"users", "files"}
  /\ walk = NoWalk /\ overview = NoOverview
  /\ overview' = [NoOverview EXCEPT !.pc = "asked",
                                    !.pending = {"first", "second"}]
  /\ UNCHANGED <<list, rows, walk>>

(* totalUsers; totalFiles (those not in the trash).                          *)
FirstCounts ==
  IF list = "users" THEN {r \in Row : There(r)}
  ELSE {r \in Row : rows[r].state \in {"on", "elsewhere"}}

(* Mutant: every user is counted as active.                                  *)
MutSecondCounts == {r \in Row : There(r)}

(* activeUsers; deletedFiles.                                                *)
SecondCounts ==
  IF list = "users" THEN {r \in Row : rows[r].state = "on"}
  ELSE {r \in Row : rows[r].state = "off"}

CountFirst ==
  /\ "first" \in overview.pending
  /\ overview' = [overview EXCEPT !.pending = @ \ {"first"},
                                  !.first = Cardinality(FirstCounts)]
  /\ UNCHANGED <<list, rows, walk>>

CountSecond ==
  /\ "second" \in overview.pending
  /\ overview' = [overview EXCEPT !.pending = @ \ {"second"},
                                  !.second = Cardinality(SecondCounts)]
  /\ UNCHANGED <<list, rows, walk>>

(* users.inactive of the answer.                                             *)
Inactive == overview.first - overview.second

OverviewAnswer ==
  /\ overview.pc = "asked" /\ overview.pending = {}
  /\ overview' = NoOverview
  /\ UNCHANGED <<list, rows, walk>>

----------------------------------------------------------------------------

Init ==
  /\ list \in List
  /\ rows = [r \in Row |-> [state |-> "none", key |-> 0]]
  /\ walk = NoWalk
  /\ overview = NoOverview

Next ==
  \/ Start \/ Ask \/ Find \/ Count \/ Answer \/ Again
  \/ OverviewAsk \/ CountFirst \/ CountSecond \/ OverviewAnswer
  \/ \E r \in Row :
       \/ Insert(r) \/ TurnOff(r) \/ TurnOn(r) \/ Destroy(r)
       \/ Move(r) \/ Rename(r)

Spec == Init /\ [][Next]_vars

----------------------------------------------------------------------------
(* Properties.                                                               *)

(* A row that was in the list all the time a client walked over it is shown, *)
(* unless meanwhile a row ahead of it left, or one came between the count    *)
(* and the find, or another row had the same key, or it is beyond the one    *)
(* page there is: of search, and of a negative limit (skip and limit over a  *)
(* sort, the count a query of its own: users.service.ts:110,                 *)
(* files.service.ts:80, transactions.service.ts:92, search.service.ts:46).   *)
MissedNeedsCause == walk.pc = "done" => walk.owed = {}

(* A row is shown twice in a walk only when meanwhile a row came ahead of it *)
(* or another row had the same key.                                          *)
TwiceNeedsCause == walk.repeated = {}

(* The overview counts every document right that nobody wrote while it       *)
(* counted; each of the others puts the inactive users off by at most one,   *)
(* perhaps below zero, and is among the files counted twice at most          *)
(* (admin.controller.ts:37).                                                 *)
OverviewOffByWrites ==
  overview.pc = "asked" /\ overview.pending = {} =>
    LET calm  == {r \in Row : There(r)} \ overview.touched
        off   == {r \in calm : rows[r].state = "off"}
        slack == Cardinality(overview.touched)
    IN  IF list = "users"
          THEN Inactive - Cardinality(off) \in -slack..slack
          ELSE overview.first + overview.second - Cardinality(calm)
                 \in 0..2 * slack
=============================================================================
