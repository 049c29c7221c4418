--------------------------- MODULE ListingProofs ---------------------------
(* Theorems about Listing, for any finite number of rows, any limits and any *)
(* number of pages.                                                          *)
(*                                                                           *)
(* The argument counts the rows ahead of a row.  A row that is owed has at   *)
(* least as many rows ahead of it as were skipped so far, a row that was     *)
(* shown fewer; what a write does to these numbers it excuses the row for.   *)
(* In the order a find answers in, a row that shares its key with no other   *)
(* has the place that the rows ahead of it leave to it.                      *)
EXTENDS Listing, FiniteSetTheorems, TLAPS

FindAnswered == walk.pc = "asked" /\ "find" \notin walk.pending
CountAnswered ==
  walk.pc = "asked" /\ list # "search" /\ "count" \notin walk.pending

(* The rows of the pages up to now.                                          *)
Passed == Skip + (IF FindAnswered THEN Size ELSE 0)

OwedOK(r) ==
  /\ Listed(r) /\ r \notin TiedRows
  /\ Cardinality(Ahead(r)) >= Passed
  /\ FindAnswered => Paged

OnceOK(r) ==
  /\ r \notin TiedRows
  /\ Paged => Cardinality(Ahead(r)) < Passed

(* Without further pages the client asks for one only.                       *)
OnePage ==
  ~Paged => /\ walk.page = 1 /\ walk.pc # "idle"
            /\ "find" \in walk.pending => walk.once = {}

(* A client that is told this was the last page is owed nothing.             *)
LastOK ==
  CountAnswered =>
    IF FindAnswered THEN walk.owed # {} => Skip + Size < walk.total
    ELSE \A r \in walk.owed : Cardinality(Ahead(r)) < walk.total

WalkOK ==
  /\ walk.pc = "none" => walk = NoWalk
  /\ walk.pc # "asked" => walk.pending = {}
  /\ walk.pending \subseteq Queries
  /\ Walking => /\ \A r \in walk.owed : OwedOK(r)
                /\ \A r \in walk.once : OnceOK(r)
  /\ OnePage
  /\ LastOK
  /\ MissedNeedsCause
  /\ TwiceNeedsCause

(* What was counted is right up to the documents written since.              *)
OverviewOK ==
  /\ overview.pc = "idle" => overview = NoOverview
  /\ overview.pc = "asked" => list \in {"users", "files"}
  /\ (overview.pc = "asked" /\ "first" \notin overview.pending) =>
       overview.first - Cardinality(FirstCounts \ overview.touched)
         \in 0 .. Cardinality(overview.touched)
  /\ (overview.pc = "asked" /\ "second" \notin overview.pending) =>
       overview.second - Cardinality(SecondCounts \ overview.touched)
         \in 0 .. Cardinality(overview.touched)

(* Only files are moved to another folder.                                   *)
RowsOK == list # "files" => \A r \in Row : rows[r].state # "elsewhere"

ListingInv == TypeOK /\ RowsOK /\ WalkOK /\ OverviewOK

----------------------------------------------------------------------------
(* Counting rows.                                                            *)

LEMMA Counted ==
  ASSUME NEW S \in SUBSET Row
  PROVE  /\ IsFiniteSet(S)
         /\ Cardinality(S) \in Nat /\ Cardinality(S) <= Cardinality(Row)
         /\ Cardinality(Row) \in Nat
BY FS_Subset, FS_CardinalityType, ListingAssumption

LEMMA CountedSubset ==
  ASSUME NEW S \in SUBSET Row, NEW T \in SUBSET S
  PROVE  Cardinality(T) <= Cardinality(S)
BY Counted, FS_Subset

LEMMA CountedDisjoint ==
  ASSUME NEW S \in SUBSET Row, NEW T \in SUBSET Row, S \cap T = {}
  PROVE  Cardinality(S \cup T) = Cardinality(S) + Cardinality(T)
<1>1. /\ IsFiniteSet(S) /\ IsFiniteSet(T)
      /\ Cardinality(S) \in Nat /\ Cardinality(T) \in Nat
  BY Counted
<1>2. Cardinality(S \cap T) = 0
  BY FS_EmptySet
<1>3. Cardinality(S \cup T) =
        Cardinality(S) + Cardinality(T) - Cardinality(S \cap T)
  BY <1>1, FS_Union
<1> QED
  BY <1>1, <1>2, <1>3

LEMMA PageArithmetic ==
  ASSUME NEW p \in Nat \ {0}, NEW l \in Nat
  PROVE  /\ (p - 1) * l \in Nat
         /\ (p - 1) * l + l = p * l
         /\ ((p + 1) - 1) * l = p * l
OBVIOUS

LEMMA FirstSkip ==
  ASSUME NEW l \in Int
  PROVE  (1 - 1) * l = 0
<1>1. 1 - 1 = 0 /\ 0 * l = 0
  OBVIOUS
<1> QED
  BY <1>1

LEMMA LimitIsNumber ==
  ASSUME walk \in Walk
  PROVE  /\ walk.limit \in Int /\ walk.page \in Nat \ {0} /\ Size \in Nat
         /\ Paged => Size = walk.limit /\ walk.limit \in Nat /\ Size > 0
         /\ walk.limit # 0 => Size > 0
<1>1. /\ walk.limit \in Int /\ walk.page \in Nat \ {0}
  BY ListingAssumption DEF Walk
<1> QED
  BY <1>1 DEF Size, Paged

LEMMA SkipIsNumber ==
  ASSUME walk \in Walk, OnePage
  PROVE  /\ Size \in Nat /\ Skip \in Nat /\ Passed \in Nat
         /\ ~Paged => Skip = 0
         /\ Paged => /\ walk.page * walk.limit \in Nat
                     /\ Skip + Size = walk.page * walk.limit
<1>1. /\ walk.limit \in Int /\ walk.page \in Nat \ {0} /\ Size \in Nat
      /\ Paged => Size = walk.limit /\ walk.limit \in Nat
  BY LimitIsNumber
<1>2. ASSUME Paged
      PROVE  /\ Skip \in Nat /\ walk.page * walk.limit \in Nat
             /\ Skip + Size = walk.page * walk.limit
  BY <1>1, <1>2, PageArithmetic DEF Skip
<1>3. ASSUME ~Paged PROVE Skip = 0
  <2>1. Skip = (1 - 1) * walk.limit
    BY <1>3 DEF Skip, OnePage
  <2> QED
    BY <1>1, <2>1, FirstSkip
<1> QED
  BY <1>1, <1>2, <1>3 DEF Passed

----------------------------------------------------------------------------
(* Where a row is in a sorted answer.                                        *)

Greater(S, r) == {q \in S : rows[q].key > rows[r].key}

(* A row that shares its key with no other comes right after the greater.    *)
LEMMA Place ==
  ASSUME TypeOK, NEW S \in SUBSET Row, NEW s \in Orders(S), NEW r \in S,
         \A q \in S \ {r} : rows[q].key # rows[r].key
  PROVE  /\ s \in [1 .. Cardinality(S) -> S]
         /\ \A i \in DOMAIN s : s[i] = r <=> i = Cardinality(Greater(S, r)) + 1
         /\ Cardinality(Greater(S, r)) + 1 \in DOMAIN s
<1> DEFINE n == Cardinality(S)
           A == Greater(S, r)
<1>1. IsFiniteSet(S) /\ n \in Nat
  BY Counted
<1>2. /\ s \in [1 .. n -> S]
      /\ \A i, j \in 1 .. n : i # j => s[i] # s[j]
      /\ \A i, j \in 1 .. n : rows[s[i]].key > rows[s[j]].key => i < j
  BY DEF Orders, SetToSeqs
<1>3. s \in Surjection(1 .. n, S)
  <2>1. s \in Injection(1 .. n, S)
    BY <1>2 DEF Injection, IsInjective
  <2>2. Cardinality(1 .. n) = n
    BY <1>1, FS_Interval
  <2> QED
    BY <1>1, <2>1, <2>2, FS_Injection
<1>4. PICK i \in 1 .. n : s[i] = r
  BY <1>3 DEF Surjection
<1>5. \A q \in Row : rows[q].key \in Nat
  BY ListingAssumption DEF TypeOK, Document
<1>6. \A j \in 1 .. n : s[j] \in A <=> j < i
  <2>1. ASSUME NEW j \in 1 .. n, s[j] \in A PROVE j < i
    BY <1>2, <1>4, <2>1 DEF Greater
  <2>2. ASSUME NEW j \in 1 .. n, j < i PROVE s[j] \in A
    <3>1. s[j] \in S \ {r} /\ s[j] \in Row /\ r \in Row
      BY <1>2, <1>4, <2>2
    <3>2. ~(rows[r].key > rows[s[j]].key)
      BY <1>2, <1>4, <2>2
    <3> QED
      BY <1>5, <3>1, <3>2 DEF Greater
  <2> QED
    BY <2>1, <2>2
<1>7. Cardinality(A) = i - 1
  <2> DEFINE g == [j \in 1 .. (i - 1) |-> s[j]]
  <2>1. A \subseteq S /\ i - 1 \in Nat /\ i \in 1 .. n
    BY <1>4 DEF Greater
  <2> HIDE DEF A
  <2>2. g \in [1 .. (i - 1) -> A]
    BY <1>1, <1>6, <2>1
  <2>3. \A j, k \in 1 .. (i - 1) : g[j] = g[k] => j = k
    BY <1>1, <1>2, <2>1
  <2>4. \A q \in A : \E j \in 1 .. (i - 1) : g[j] = q
    <3> SUFFICES ASSUME NEW q \in A PROVE \E j \in 1 .. (i - 1) : g[j] = q
      OBVIOUS
    <3>1. PICK j \in 1 .. n : s[j] = q
      BY <1>3, <2>1 DEF Surjection
    <3>2. j \in 1 .. (i - 1)
      BY <1>1, <1>6, <2>1, <3>1
    <3> QED
      BY <3>1, <3>2
  <2> HIDE DEF g
  <2>5. g \in Bijection(1 .. (i - 1), A)
    BY <2>2, <2>3, <2>4 DEF Bijection, Injection, IsInjective, Surjection
  <2> QED
    BY <2>1, <2>5, FS_CountingElements DEF ExistsBijection
<1> HIDE DEF A, n
<1>8. \A j \in 1 .. n : s[j] = r <=> j = Cardinality(A) + 1
  BY <1>2, <1>4, <1>7
<1>9. Cardinality(A) + 1 \in 1 .. n
  BY <1>7
<1> QED
  BY <1>2, <1>8, <1>9 DEF A, n

InPage(n) == n > Skip /\ (Size = 0 \/ n <= Skip + Size)

LEMMA CutPlace ==
  ASSUME TypeOK, OnePage, NEW S \in SUBSET Row, NEW s \in Orders(S),
         NEW r \in S,
         \A q \in S \ {r} : rows[q].key # rows[r].key
  PROVE  r \in Cut(s) <=> InPage(Cardinality(Greater(S, r)) + 1)
<1> DEFINE n == Cardinality(S)
           a == Cardinality(Greater(S, r))
<1>1. /\ s \in [1 .. n -> S] /\ a + 1 \in DOMAIN s
      /\ \A i \in DOMAIN s : s[i] = r <=> i = a + 1
  BY Place
<1>2. Cut(s) = {s[i] : i \in {m \in DOMAIN s : InPage(m)}}
  BY DEF Cut, InPage
<1> HIDE DEF a, n
<1>3. r \in Cut(s) <=> InPage(a + 1)
  BY <1>1, <1>2
<1> QED
  BY <1>3 DEF a

LEMMA CutIsPart ==
  ASSUME NEW S \in SUBSET Row, NEW s \in Orders(S)
  PROVE  Cut(s) \subseteq S
<1>1. s \in [1 .. Cardinality(S) -> S]
  BY DEF Orders, SetToSeqs
<1> QED
  BY <1>1 DEF Cut

LEMMA SearchResults ==
  ASSUME list = "search", NEW found \in FindResults
  PROVE  \E S \in PagesOf(ListedRows \ FolderRow),
            T \in PagesOf(ListedRows \cap FolderRow) : found = S \cup T
<1> DEFINE A == PagesOf(ListedRows \ FolderRow)
           B == PagesOf(ListedRows \cap FolderRow)
<1>1. FindResults = {S \cup T : S \in A, T \in B}
  BY DEF FindResults
<1> HIDE DEF A, B
<1>2. \E S \in A, T \in B : found = S \cup T
  BY <1>1
<1> QED
  BY <1>2 DEF A, B

LEMMA FoundAreListed ==
  ASSUME NEW found \in FindResults
  PROVE  found \subseteq ListedRows
<1>1. /\ ListedRows \in SUBSET Row /\ ListedRows \ FolderRow \in SUBSET Row
      /\ ListedRows \cap FolderRow \in SUBSET Row
  BY DEF ListedRows
<1>2. ASSUME NEW S \in SUBSET Row, NEW F \in PagesOf(S) PROVE F \subseteq S
  BY <1>2, CutIsPart DEF PagesOf
<1>3. CASE list = "search"
  <2>1. PICK S \in PagesOf(ListedRows \ FolderRow),
             T \in PagesOf(ListedRows \cap FolderRow) : found = S \cup T
    BY <1>3, SearchResults
  <2>2. /\ S \subseteq ListedRows \ FolderRow
        /\ T \subseteq ListedRows \cap FolderRow
    BY <1>1, <1>2
  <2> QED
    BY <2>1, <2>2
<1>4. CASE list # "search"
  BY <1>1, <1>2, <1>4 DEF FindResults
<1> QED
  BY <1>3, <1>4

(* The page that a listed row of a key of its own is on, in any answer: the  *)
(* one its rows ahead leave to it.                                           *)
LEMMA FoundPlace ==
  ASSUME TypeOK, OnePage, NEW found \in FindResults, NEW r \in ListedRows,
         r \notin TiedRows
  PROVE  r \in found <=> InPage(Cardinality(Ahead(r)) + 1)
<1>1. r \in Row /\ Listed(r)
  BY DEF ListedRows
<1>2. ASSUME NEW S \in SUBSET Row, r \in S,
             \A q \in Row : q \in S <=> Together(q, r) /\ Listed(q)
      PROVE  /\ Greater(S, r) = Ahead(r)
             /\ \A q \in S \ {r} : rows[q].key # rows[r].key
  <2>1. Greater(S, r) = Ahead(r)
    BY <1>2 DEF Greater, Ahead, Before
  <2>2. ASSUME NEW q \in S \ {r} PROVE rows[q].key # rows[r].key
    BY <1>1, <1>2, <2>2 DEF TiedRows, Tied
  <2> QED
    BY <2>1, <2>2
<1>3. CASE list # "search"
  <2>1. PICK s \in Orders(ListedRows) : found = Cut(s)
    BY <1>3 DEF FindResults, PagesOf
  <2>2. /\ ListedRows \in SUBSET Row
        /\ \A q \in Row : q \in ListedRows <=> Together(q, r) /\ Listed(q)
    BY <1>3 DEF ListedRows, Together
  <2>3. /\ Greater(ListedRows, r) = Ahead(r)
        /\ \A q \in ListedRows \ {r} : rows[q].key # rows[r].key
    BY <1>2, <2>2
  <2> QED
    BY <2>1, <2>2, <2>3, CutPlace
<1>4. CASE list = "search"
  <2> DEFINE S1 == ListedRows \ FolderRow
             S2 == ListedRows \cap FolderRow
  <2>1. PICK F \in PagesOf(S1), G \in PagesOf(S2) : found = F \cup G
    BY <1>4, SearchResults
  <2>2. PICK s \in Orders(S1) : F = Cut(s)
    BY DEF PagesOf
  <2>3. PICK t \in Orders(S2) : G = Cut(t)
    BY DEF PagesOf
  <2>4. S1 \in SUBSET Row /\ S2 \in SUBSET Row
    BY DEF ListedRows
  <2>5. F \subseteq S1 /\ G \subseteq S2
    BY <2>2, <2>3, <2>4, CutIsPart
  <2>6. CASE r \in FolderRow
    <3>1. \A q \in Row : q \in S2 <=> Together(q, r) /\ Listed(q)
      BY <1>4, <2>6 DEF ListedRows, Together
    <3>2. r \in S2
      BY <2>6
    <3>3. /\ Greater(S2, r) = Ahead(r)
          /\ \A q \in S2 \ {r} : rows[q].key # rows[r].key
      BY <1>2, <2>4, <3>1, <3>2
    <3>4. r \in Cut(t) <=> InPage(Cardinality(Ahead(r)) + 1)
      BY <2>4, <3>2, <3>3, CutPlace
    <3> QED
      BY <2>1, <2>3, <2>5, <2>6, <3>4
  <2>7. CASE r \notin FolderRow
    <3>1. \A q \in Row : q \in S1 <=> Together(q, r) /\ Listed(q)
      BY <1>4, <2>7 DEF ListedRows, Together
    <3>2. r \in S1
      BY <2>7
    <3>3. /\ Greater(S1, r) = Ahead(r)
          /\ \A q \in S1 \ {r} : rows[q].key # rows[r].key
      BY <1>2, <2>4, <3>1, <3>2
    <3>4. r \in Cut(s) <=> InPage(Cardinality(Ahead(r)) + 1)
      BY <2>4, <3>2, <3>3, CutPlace
    <3> QED
      BY <2>1, <2>2, <2>5, <2>7, <3>4
  <2> QED
    BY <2>6, <2>7
<1> QED
  BY <1>3, <1>4

----------------------------------------------------------------------------
(* The walk.                                                                 *)

LEMMA NoWalkIsWalk == NoWalk \in Walk
BY Counted, ListingAssumption DEF NoWalk, Walk

LEMMA AheadAreRows ==
  ASSUME NEW r
  PROVE  Ahead(r) \in SUBSET Row /\ Cardinality(Ahead(r)) \in Nat
BY Counted DEF Ahead

(* A client that reads changes nothing that the rows are counted by.         *)
LEMMA SameRows ==
  ASSUME UNCHANGED <<list, rows>>
  PROVE  /\ \A r : Ahead(r)' = Ahead(r) /\ (Listed(r)' <=> Listed(r))
         /\ TiedRows' = TiedRows /\ ListedRows' = ListedRows
         /\ Queries' = Queries
BY DEF Ahead, Before, Together, Listed, There, TiedRows, Tied, ListedRows,
       Queries

LEMMA SameLimit ==
  ASSUME UNCHANGED list, walk'.limit = walk.limit
  PROVE  /\ Size' = Size /\ Paged' = Paged
         /\ walk'.page = walk.page => Skip' = Skip
         /\ walk'.page = walk.page + 1 =>
              Skip' = ((walk.page + 1) - 1) * walk.limit
BY DEF Size, Paged, Skip

LEMMA StartOK ==
  ASSUME ListingInv, Start
  PROVE  walk' \in Walk /\ WalkOK'
<1>1. PICK limit \in -(MaxLimit + 1) .. MaxLimit + 1 :
        walk' \in {Asked(limit), [NoWalk EXCEPT !.pc = "refused"]}
  BY ListingAssumption DEF Start
<1>2. UNCHANGED <<list, rows>>
  BY DEF Start
<1>3. NoWalk \in Walk /\ NoWalk.pending = {} /\ NoWalk.owed = {}
      /\ NoWalk.once = {} /\ NoWalk.repeated = {} /\ NoWalk.page = 1
      /\ NoWalk.limit = 0
  BY NoWalkIsWalk DEF NoWalk
<1>4. CASE walk' = [NoWalk EXCEPT !.pc = "refused"]
  <2>1. /\ walk' \in Walk /\ walk'.pc = "refused" /\ walk'.pending = {}
        /\ walk'.repeated = {} /\ walk'.page = 1
    BY <1>3, <1>4 DEF Walk
  <2> QED
    BY <2>1 DEF WalkOK, Walking, OnePage, LastOK, FindAnswered,
                CountAnswered, MissedNeedsCause, TwiceNeedsCause
<1>5. CASE walk' = Asked(limit)
  <2>1. /\ Queries \in SUBSET {"find", "count"} /\ "find" \in Queries
        /\ list # "search" => "count" \in Queries
    BY DEF Queries
  <2>2. ListedRows \ TiedRows \in SUBSET Row
    BY DEF ListedRows
  <2>3. /\ walk' \in Walk /\ walk'.pc = "asked" /\ walk'.pending = Queries
        /\ walk'.owed = ListedRows \ TiedRows /\ walk'.once = {}
        /\ walk'.repeated = {} /\ walk'.page = 1
    BY <1>3, <1>5, <2>1, <2>2 DEF Asked, Walk
  <2>4. ~FindAnswered' /\ ~CountAnswered'
    BY <1>2, <2>1, <2>3 DEF FindAnswered, CountAnswered
  <2>5. Passed' = 0
    <3>1. walk'.limit \in Int
      BY <2>3, ListingAssumption DEF Walk
    <3>2. (1 - 1) * walk'.limit = 0
      BY <3>1, FirstSkip
    <3> QED
      BY <2>3, <2>4, <3>2 DEF Passed, Skip
  <2>6. ASSUME NEW r \in walk'.owed PROVE OwedOK(r)'
    <3>1. Listed(r)' /\ r \notin TiedRows'
      BY <1>2, <2>3, <2>6, SameRows DEF ListedRows
    <3>2. Cardinality(Ahead(r)') >= 0
      BY <1>2, SameRows, AheadAreRows
    <3> QED
      BY <2>4, <2>5, <3>1, <3>2 DEF OwedOK
  <2> QED
    BY <1>2, <2>3, <2>4, <2>6, SameRows
       DEF WalkOK, OnePage, LastOK, MissedNeedsCause, TwiceNeedsCause
<1> QED
  BY <1>1, <1>4, <1>5

LEMMA AskOK ==
  ASSUME ListingInv, Ask
  PROVE  walk' \in Walk /\ WalkOK'
<1>1. /\ Queries \in SUBSET {"find", "count"} /\ "find" \in Queries
      /\ list # "search" => "count" \in Queries
  BY DEF Queries
<1>2. /\ walk \in Walk /\ walk.pc = "idle" /\ UNCHANGED <<list, rows>>
      /\ walk' = [walk EXCEPT !.pc = "asked", !.pending = Queries]
  BY DEF Ask, ListingInv, TypeOK
<1>3. /\ walk' \in Walk /\ walk'.pc = "asked" /\ walk'.pending = Queries
      /\ walk'.owed = walk.owed /\ walk'.once = walk.once
      /\ walk'.repeated = walk.repeated /\ walk'.page = walk.page
      /\ walk'.limit = walk.limit
  BY <1>1, <1>2 DEF Walk
<1>4. ~FindAnswered /\ ~FindAnswered' /\ ~CountAnswered'
  BY <1>1, <1>2, <1>3 DEF FindAnswered, CountAnswered
<1>5. Size' = Size /\ Paged' = Paged /\ Skip' = Skip /\ Passed' = Passed
  BY <1>2, <1>3, <1>4, SameLimit DEF Passed
<1>6. \A r : /\ OwedOK(r) => OwedOK(r)'
             /\ OnceOK(r) => OnceOK(r)'
  BY <1>2, <1>4, <1>5, SameRows DEF OwedOK, OnceOK
<1>7. /\ \A r \in walk.owed : OwedOK(r)
      /\ \A r \in walk.once : OnceOK(r)
      /\ TwiceNeedsCause /\ Paged
  BY <1>2 DEF ListingInv, WalkOK, Walking, OnePage
<1> QED
  BY <1>2, <1>3, <1>4, <1>5, <1>6, <1>7, SameRows
     DEF WalkOK, OnePage, LastOK, MissedNeedsCause, TwiceNeedsCause

LEMMA FindOK ==
  ASSUME ListingInv, Find
  PROVE  walk' \in Walk /\ WalkOK'
<1>1. PICK found \in FindResults :
        walk' = [walk EXCEPT
          !.pending = walk.pending \ {"find"},
          !.owed = walk.owed \ (found \cup Beyond),
          !.once = walk.once \cup (found \ TiedRows),
          !.repeated = found \cap walk.once]
  BY DEF Find
<1>2. /\ TypeOK /\ WalkOK /\ OnePage /\ walk \in Walk
      /\ UNCHANGED <<list, rows>>
      /\ "find" \in walk.pending
  BY DEF Find, ListingInv, TypeOK, WalkOK
<1>3. walk.pc = "asked" /\ ~FindAnswered /\ Walking
  BY <1>2 DEF WalkOK, FindAnswered, Walking
<1>4. found \subseteq ListedRows /\ found \subseteq Row
  BY FoundAreListed DEF ListedRows
<1>5. /\ walk' \in Walk /\ walk'.pc = "asked"
      /\ walk'.pending = walk.pending \ {"find"}
      /\ walk'.owed = walk.owed \ (found \cup Beyond)
      /\ walk'.once = walk.once \cup (found \ TiedRows)
      /\ walk'.repeated = found \cap walk.once
      /\ walk'.page = walk.page /\ walk'.limit = walk.limit
      /\ walk'.total = walk.total
  BY <1>1, <1>2, <1>3, <1>4 DEF Walk
<1>6. FindAnswered' /\ (CountAnswered' <=> CountAnswered)
  BY <1>2, <1>3, <1>5 DEF FindAnswered, CountAnswered
<1>7. /\ Size' = Size /\ Paged' = Paged /\ Skip' = Skip
      /\ Passed = Skip /\ Passed' = Skip + Size
  BY <1>2, <1>3, <1>5, <1>6, SameLimit, SkipIsNumber DEF Passed
<1>8. /\ Size \in Nat /\ Skip \in Nat
      /\ ~Paged => Skip = 0 /\ walk.once = {}
      /\ Paged => Size > 0
  BY <1>2, SkipIsNumber, LimitIsNumber DEF OnePage
<1>9. \A r : Cardinality(Ahead(r)) \in Nat /\ Ahead(r)' = Ahead(r)
  BY <1>2, AheadAreRows, SameRows
<1>10. walk.owed \subseteq Row /\ walk.once \subseteq Row
  BY <1>2 DEF Walk
<1>11. ASSUME NEW r \in walk'.owed
       PROVE  OwedOK(r)' /\ Cardinality(Ahead(r)) >= Skip + Size
  <2>1. /\ OwedOK(r) /\ r \in ListedRows /\ r \notin TiedRows
    BY <1>2, <1>3, <1>5, <1>10, <1>11 DEF WalkOK, OwedOK, ListedRows
  <2>2. Cardinality(Ahead(r)) >= Skip
    BY <1>7, <2>1 DEF OwedOK
  <2>3. ~InPage(Cardinality(Ahead(r)) + 1) /\ r \notin Beyond /\ r \in Row
    BY <1>2, <1>5, <1>10, <1>11, <2>1, FoundPlace
  <2>4. Size > 0 /\ Cardinality(Ahead(r)) >= Skip + Size
    BY <1>8, <1>9, <2>2, <2>3 DEF InPage
  <2>5. Paged
    <3>1. ~Paged => walk.limit = 0
      BY <1>8, <1>9, <2>3, <2>4 DEF Beyond
    <3> QED
      BY <2>4, <3>1 DEF Size
  <2>6. OwedOK(r)'
    <3>1. Listed(r)' /\ r \notin TiedRows'
      BY <1>2, <2>1, SameRows DEF ListedRows
    <3> QED
      BY <1>7, <1>9, <2>4, <2>5, <3>1 DEF OwedOK
  <2> QED
    BY <2>4, <2>6
<1>12. ASSUME NEW r \in walk'.once PROVE OnceOK(r)'
  <2>1. r \notin TiedRows' /\ (Paged => Cardinality(Ahead(r)) < Skip + Size)
    <3>1. CASE r \in walk.once
      <4>1. OnceOK(r)
        BY <1>2, <1>3, <3>1 DEF WalkOK
      <4> QED
        BY <1>2, <1>7, <1>8, <1>9, <4>1, SameRows DEF OnceOK
    <3>2. CASE r \in found \ TiedRows
      <4>1. InPage(Cardinality(Ahead(r)) + 1)
        BY <1>2, <1>4, <3>2, FoundPlace
      <4> QED
        BY <1>2, <1>8, <1>9, <3>2, <4>1, SameRows DEF InPage
    <3> QED
      BY <1>5, <3>1, <3>2
  <2> QED
    BY <1>7, <1>9, <2>1 DEF OnceOK
<1>13. TwiceNeedsCause'
  <2> SUFFICES ASSUME Paged, NEW r \in found \cap walk.once PROVE FALSE
    BY <1>5, <1>8 DEF TwiceNeedsCause
  <2>1. OnceOK(r)
    BY <1>2, <1>3 DEF WalkOK
  <2>2. InPage(Cardinality(Ahead(r)) + 1)
    BY <1>2, <1>4, <2>1, FoundPlace DEF OnceOK
  <2> QED
    BY <1>7, <1>8, <1>9, <2>1, <2>2 DEF OnceOK, InPage
<1>14. LastOK'
  <2> SUFFICES ASSUME CountAnswered, walk'.owed # {}
               PROVE  Skip' + Size' < walk'.total
    BY <1>6 DEF LastOK
  <2>1. PICK r \in walk'.owed : TRUE
    OBVIOUS
  <2>2. Cardinality(Ahead(r)) < walk.total
    BY <1>2, <1>3, <1>5 DEF WalkOK, LastOK
  <2>3. walk.total \in Nat
    BY <1>2, Counted DEF Walk
  <2> QED
    BY <1>5, <1>7, <1>8, <1>9, <1>11, <2>1, <2>2, <2>3
<1>15. walk'.pending \subseteq Queries'
  BY <1>2, <1>5, SameRows DEF WalkOK
<1>16. OnePage'
  BY <1>2, <1>5, <1>7 DEF OnePage
<1> QED
  BY <1>5, <1>11, <1>12, <1>13, <1>14, <1>15, <1>16 DEF WalkOK, MissedNeedsCause

LEMMA CountOK ==
  ASSUME ListingInv, Count
  PROVE  walk' \in Walk /\ WalkOK'
<1> DEFINE n == Cardinality(ListedRows)
<1>1. /\ TypeOK /\ WalkOK /\ OnePage /\ walk \in Walk
      /\ UNCHANGED <<list, rows>> /\ "count" \in walk.pending
      /\ walk' = [walk EXCEPT !.pending = walk.pending \ {"count"},
                              !.total = n]
  BY DEF Count, ListingInv, TypeOK, WalkOK
<1>2. walk.pc = "asked" /\ list # "search" /\ Walking
  BY <1>1 DEF WalkOK, Queries, Walking
<1>3. n \in 0 .. Cardinality(Row)
  BY Counted DEF ListedRows
<1> HIDE DEF n
<1>4. /\ walk' \in Walk /\ walk'.pc = "asked"
      /\ walk'.pending = walk.pending \ {"count"} /\ walk'.total = n
      /\ walk'.owed = walk.owed /\ walk'.once = walk.once
      /\ walk'.repeated = walk.repeated /\ walk'.page = walk.page
      /\ walk'.limit = walk.limit
  BY <1>1, <1>2, <1>3 DEF Walk
<1>5. (FindAnswered' <=> FindAnswered) /\ CountAnswered'
  BY <1>1, <1>2, <1>4 DEF FindAnswered, CountAnswered
<1>6. Size' = Size /\ Paged' = Paged /\ Skip' = Skip /\ Passed' = Passed
  BY <1>1, <1>4, <1>5, SameLimit DEF Passed
<1>7. \A r : /\ OwedOK(r) => OwedOK(r)'
             /\ OnceOK(r) => OnceOK(r)'
  BY <1>1, <1>5, <1>6, SameRows DEF OwedOK, OnceOK
<1>8. ASSUME NEW r \in walk.owed
      PROVE  Cardinality(Ahead(r)) < n /\ OwedOK(r)
  <2>1. OwedOK(r) /\ r \in Row
    BY <1>1, <1>2 DEF WalkOK, Walk
  <2>2. /\ ListedRows \in SUBSET Row /\ Ahead(r) \cup {r} \subseteq ListedRows
        /\ r \notin Ahead(r) /\ Ahead(r) \in SUBSET Row
    <3>1. rows[r].key \in Nat
      BY <1>1, <2>1, ListingAssumption DEF TypeOK, Document
    <3> QED
      BY <2>1, <3>1 DEF ListedRows, Ahead, Before, OwedOK
  <2>3. Cardinality(Ahead(r) \cup {r}) = Cardinality(Ahead(r)) + 1
    BY <2>2, Counted, FS_AddElement
  <2>4. Cardinality(Ahead(r) \cup {r}) <= n
    BY <2>2, CountedSubset DEF n
  <2> QED
    BY <1>3, <2>1, <2>3, <2>4, AheadAreRows, Counted
<1>9. LastOK'
  <2>1. ASSUME FindAnswered, walk.owed # {} PROVE Skip' + Size' < walk'.total
    <3>1. PICK r \in walk.owed : TRUE
      BY <2>1
    <3>2. Cardinality(Ahead(r)) < n /\ Cardinality(Ahead(r)) >= Skip + Size
      BY <1>8, <2>1, <3>1 DEF OwedOK, Passed
    <3>3. Skip \in Nat /\ Size \in Nat /\ Cardinality(Ahead(r)) \in Nat
      BY <1>1, SkipIsNumber, AheadAreRows
    <3> QED
      BY <1>3, <1>4, <1>6, <3>2, <3>3
  <2>2. \A r \in walk'.owed : Cardinality(Ahead(r)') < walk'.total
    BY <1>1, <1>4, <1>8, SameRows
  <2> QED
    BY <1>1, <1>2, <1>4, <1>5, <2>1, <2>2 DEF LastOK
<1>10. TwiceNeedsCause' /\ OnePage'
  BY <1>1, <1>4, <1>6 DEF WalkOK, TwiceNeedsCause, OnePage
<1>11. walk'.pending \subseteq Queries'
  BY <1>1, <1>4, SameRows DEF WalkOK
<1>12. /\ \A r \in walk'.owed : OwedOK(r)'
       /\ \A r \in walk'.once : OnceOK(r)'
  BY <1>1, <1>2, <1>4, <1>7 DEF WalkOK
<1> QED
  BY <1>4, <1>9, <1>10, <1>11, <1>12 DEF WalkOK, MissedNeedsCause

(* The client that is told to stop was owed a row only if pages were left.   *)
LEMMA NothingOwedAtEnd ==
  ASSUME ListingInv, walk.pc = "asked", walk.pending = {}, LastPage
  PROVE  walk.owed = {}
<1> SUFFICES ASSUME walk.owed # {} PROVE FALSE
  OBVIOUS
<1>1. TypeOK /\ WalkOK /\ OnePage /\ FindAnswered /\ walk \in Walk
  BY DEF ListingInv, FindAnswered, TypeOK, WalkOK
<1>2. Paged
  BY <1>1 DEF WalkOK, Walking, OwedOK
<1>3. Skip + Size < walk.total
  BY <1>1, <1>2 DEF CountAnswered, WalkOK, LastOK, Paged
<1>4. /\ walk.page * walk.limit \in Nat /\ walk.total \in Nat
      /\ Skip + Size = walk.page * walk.limit
  BY <1>1, <1>2, SkipIsNumber, Counted DEF Walk
<1> QED
  BY <1>2, <1>3, <1>4 DEF LastPage

LEMMA AnswerOK ==
  ASSUME ListingInv, Answer
  PROVE  walk' \in Walk /\ WalkOK'
<1> DEFINE pc == IF LastPage THEN "done"
                 ELSE IF walk.page = MaxPage THEN "gaveUp" ELSE "idle"
           page == IF LastPage \/ walk.page = MaxPage THEN walk.page
                   ELSE walk.page + 1
<1>1. /\ TypeOK /\ WalkOK /\ OnePage /\ walk \in Walk
      /\ UNCHANGED <<list, rows>>
      /\ walk.pc = "asked" /\ walk.pending = {} /\ FindAnswered /\ Walking
      /\ walk' = [walk EXCEPT !.total = 0, !.pc = pc, !.page = page]
  BY DEF Answer, ListingInv, TypeOK, FindAnswered, Walking, WalkOK
<1>2. /\ pc \in {"done", "gaveUp", "idle"} /\ page \in 1 .. MaxPage
      /\ pc = "idle" => page = walk.page + 1
      /\ pc = "done" => LastPage
      /\ ~Paged => pc = "done" /\ page = walk.page
      /\ 0 \in 0 .. Cardinality(Row)
  <2>1. walk.page \in 1 .. MaxPage /\ MaxPage \in Nat
    BY <1>1, ListingAssumption DEF Walk
  <2>2. ~Paged => LastPage
    BY DEF LastPage
  <2> QED
    BY <2>1, <2>2, Counted
<1> HIDE DEF pc, page
<1>3. /\ walk' \in Walk /\ walk'.pc = pc /\ walk'.page = page
      /\ walk'.pending = {} /\ walk'.owed = walk.owed
      /\ walk'.once = walk.once /\ walk'.repeated = walk.repeated
      /\ walk'.limit = walk.limit
  <2> DEFINE reset == [walk EXCEPT !.total = 0]
  <2>1. /\ reset \in Walk /\ reset.pending = {} /\ reset.owed = walk.owed
        /\ reset.once = walk.once /\ reset.repeated = walk.repeated
        /\ reset.limit = walk.limit
    BY <1>1, <1>2 DEF Walk
  <2>2. walk' = [reset EXCEPT !.pc = pc, !.page = page]
    BY <1>1
  <2> HIDE DEF reset
  <2> QED
    BY <1>2, <2>1, <2>2 DEF Walk
<1>4. ~FindAnswered' /\ ~CountAnswered'
  BY <1>2, <1>3 DEF FindAnswered, CountAnswered
<1>5. Paged' = Paged /\ (pc = "idle" => Paged /\ Passed' = Passed)
  <2>1. Paged' = Paged /\ (pc = "idle" => Paged)
    BY <1>1, <1>2, <1>3, SameLimit
  <2>2. ASSUME pc = "idle" PROVE Passed' = Passed
    <3>1. Skip' = ((walk.page + 1) - 1) * walk.limit
      BY <1>1, <1>2, <1>3, <2>2, SameLimit
    <3>2. ((walk.page + 1) - 1) * walk.limit = walk.page * walk.limit
      BY <1>1, <2>1, <2>2, LimitIsNumber, PageArithmetic
    <3>3. Passed = walk.page * walk.limit
      BY <1>1, <2>1, <2>2, SkipIsNumber DEF Passed
    <3>4. Passed' = Skip'
      <4>1. walk.page * walk.limit \in Nat
        BY <1>1, <2>1, <2>2, SkipIsNumber
      <4> QED
        BY <1>4, <3>1, <3>2, <4>1 DEF Passed
    <3> QED
      BY <3>1, <3>2, <3>3, <3>4
  <2> QED
    BY <2>1, <2>2
<1>6. ASSUME pc = "idle"
      PROVE  \A r : /\ OwedOK(r) => OwedOK(r)'
                    /\ OnceOK(r) => OnceOK(r)'
  BY <1>1, <1>4, <1>5, <1>6, SameRows DEF OwedOK, OnceOK
<1>7. Walking' => /\ \A r \in walk'.owed : OwedOK(r)'
                  /\ \A r \in walk'.once : OnceOK(r)'
  BY <1>1, <1>2, <1>3, <1>6 DEF WalkOK, Walking
<1>8. MissedNeedsCause'
  BY <1>1, <1>2, <1>3, NothingOwedAtEnd DEF MissedNeedsCause
<1>9. TwiceNeedsCause'
  BY <1>1, <1>3, <1>5 DEF WalkOK, TwiceNeedsCause
<1>10. LastOK' /\ OnePage'
  BY <1>1, <1>2, <1>3, <1>4, <1>5 DEF LastOK, OnePage
<1> QED
  BY <1>2, <1>3, <1>7, <1>8, <1>9, <1>10 DEF WalkOK

LEMMA AgainOK ==
  ASSUME ListingInv, Again
  PROVE  walk' \in Walk /\ WalkOK'
<1>1. walk' = NoWalk
  BY DEF Again
<1>2. /\ walk' \in Walk /\ walk'.pc = "none" /\ walk'.pending = {}
      /\ walk'.repeated = {} /\ walk'.page = 1
  BY <1>1, NoWalkIsWalk DEF NoWalk
<1> QED
  BY <1>1, <1>2 DEF WalkOK, Walking, OnePage, LastOK, FindAnswered,
                    CountAnswered, MissedNeedsCause, TwiceNeedsCause

----------------------------------------------------------------------------
(* Writes.                                                                   *)

(* What is still owed after a write has not lost a row ahead of it, and what *)
(* still counts as shown has not got one.                                    *)
LEMMA WriteWalkOK ==
  ASSUME ListingInv, NEW d \in Row, NEW document, Write(d, document)
  PROVE  walk' \in Walk /\ WalkOK'
<1>1. TypeOK /\ WalkOK /\ OnePage /\ walk \in Walk /\ UNCHANGED list
  BY DEF Write, ListingInv, TypeOK, WalkOK
<1>2. CASE ~Walking
  <2>1. walk' = walk /\ walk = NoWalk
    BY <1>2 DEF Write
  <2>2. /\ walk' \in Walk /\ walk'.pc = "none" /\ walk'.pending = {}
        /\ walk'.repeated = {} /\ walk'.page = 1
    BY <1>1, <2>1 DEF NoWalk
  <2> QED
    BY <2>1, <2>2 DEF WalkOK, Walking, OnePage, LastOK, FindAnswered,
                      CountAnswered, MissedNeedsCause, TwiceNeedsCause, NoWalk
<1>3. CASE Walking
  <2> DEFINE late == "find" \in walk.pending
                       /\ "count" \in Queries \ walk.pending
             drawn == {p \in Row :
                        \E q \in Row : Before(q, p) /\ ~Before(q, p)'}
             pushed == {p \in Row :
                         \E q \in Row : ~Before(q, p) /\ Before(q, p)'}
             lost == (Row \ ListedRows') \cup drawn \cup TiedRows'
                       \cup (IF late THEN pushed ELSE {})
             shifted == pushed \cup TiedRows'
  <2>1. walk' = [walk EXCEPT !.owed = walk.owed \ lost,
                             !.once = walk.once \ shifted]
    BY <1>3 DEF Write, Excused
  <2>2. walk.owed \subseteq Row /\ walk.once \subseteq Row
    BY <1>1 DEF Walk
  <2>3. ASSUME NEW r \in walk.owed \ lost
        PROVE  /\ Listed(r)' /\ r \notin TiedRows'
               /\ Ahead(r) \subseteq Ahead(r)'
               /\ late => Ahead(r)' \subseteq Ahead(r)
    BY <2>2, <2>3 DEF Ahead, ListedRows
  <2>4. ASSUME NEW r \in walk.once \ shifted
        PROVE  r \notin TiedRows' /\ Ahead(r)' \subseteq Ahead(r)
    BY <2>2, <2>4 DEF Ahead
  <2> HIDE DEF drawn, pushed, lost, shifted
  <2>5. /\ walk' \in Walk /\ walk'.pc = walk.pc
        /\ walk'.pending = walk.pending
        /\ walk'.owed = walk.owed \ lost /\ walk'.once = walk.once \ shifted
        /\ walk'.repeated = walk.repeated /\ walk'.page = walk.page
        /\ walk'.limit = walk.limit /\ walk'.total = walk.total
    BY <1>1, <2>1, <2>2 DEF Walk
  <2>6. /\ FindAnswered' <=> FindAnswered
        /\ CountAnswered' <=> CountAnswered
    BY <1>1, <2>5 DEF FindAnswered, CountAnswered
  <2>7. Size' = Size /\ Paged' = Paged /\ Skip' = Skip /\ Passed' = Passed
    BY <1>1, <2>5, <2>6, SameLimit DEF Passed
  <2>8. Size \in Nat /\ Skip \in Nat /\ Passed \in Nat
    BY <1>1, SkipIsNumber
  <2>9. \A r : Ahead(r) \in SUBSET Row /\ Ahead(r)' \in SUBSET Row
    BY DEF Ahead
  <2>10. ASSUME NEW r
         PROVE  /\ Cardinality(Ahead(r)) \in Nat
                /\ Cardinality(Ahead(r)') \in Nat
                /\ Ahead(r) \subseteq Ahead(r)' =>
                     Cardinality(Ahead(r)) <= Cardinality(Ahead(r)')
                /\ Ahead(r)' \subseteq Ahead(r) =>
                     Cardinality(Ahead(r)') <= Cardinality(Ahead(r))
    BY <2>9, Counted, CountedSubset
  <2>11. ASSUME NEW r \in walk'.owed PROVE OwedOK(r)'
    <3>1. OwedOK(r) /\ r \in walk.owed \ lost
      BY <1>1, <1>3, <2>5, <2>11 DEF WalkOK
    <3>2. Cardinality(Ahead(r)') >= Passed'
      BY <2>3, <2>7, <2>8, <2>10, <3>1 DEF OwedOK
    <3> QED
      BY <2>3, <2>6, <2>7, <3>1, <3>2 DEF OwedOK
  <2>12. ASSUME NEW r \in walk'.once PROVE OnceOK(r)'
    <3>1. OnceOK(r) /\ r \in walk.once \ shifted
      BY <1>1, <1>3, <2>5, <2>12 DEF WalkOK
    <3>2. Paged' => Cardinality(Ahead(r)') < Passed'
      BY <2>4, <2>7, <2>8, <2>10, <3>1 DEF OnceOK
    <3> QED
      BY <2>4, <3>1, <3>2 DEF OnceOK
  <2>13. LastOK'
    <3>1. LastOK
      BY <1>1 DEF WalkOK
    <3>2. ASSUME CountAnswered, FindAnswered, walk'.owed # {}
          PROVE  Skip' + Size' < walk'.total
      BY <2>5, <2>7, <3>1, <3>2 DEF LastOK
    <3>3. ASSUME CountAnswered, ~FindAnswered, NEW r \in walk'.owed
          PROVE  Cardinality(Ahead(r)') < walk'.total
      <4>1. late
        BY <3>3 DEF CountAnswered, FindAnswered, Queries
      <4>2. r \in walk.owed \ lost
        BY <2>5, <3>3
      <4>3. Cardinality(Ahead(r)') <= Cardinality(Ahead(r))
        BY <2>3, <2>10, <4>1, <4>2
      <4>4. Cardinality(Ahead(r)) < walk.total /\ walk.total \in Nat
        BY <1>1, <3>1, <3>3, <4>2, Counted DEF LastOK, Walk
      <4> QED
        BY <2>5, <2>10, <4>3, <4>4
    <3> QED
      BY <2>6, <3>2, <3>3 DEF LastOK
  <2>14. MissedNeedsCause' /\ TwiceNeedsCause' /\ OnePage'
    BY <1>1, <2>5, <2>7 DEF WalkOK, MissedNeedsCause, TwiceNeedsCause, OnePage
  <2>15. walk'.pending \subseteq Queries'
    BY <1>1, <2>5 DEF WalkOK, Queries
  <2>16. /\ walk'.pc = "none" => walk' = NoWalk
         /\ walk'.pc # "asked" => walk'.pending = {}
    BY <1>1, <1>3, <2>5 DEF WalkOK, Walking
  <2> QED
    BY <2>5, <2>11, <2>12, <2>13, <2>14, <2>15, <2>16 DEF WalkOK
<1> QED
  BY <1>2, <1>3

(* A document that is written may be counted wrong; no other one is.         *)
LEMMA OneMoreTouched ==
  ASSUME NEW S \in SUBSET Row, NEW T \in SUBSET Row, NEW d \in Row,
         NEW n \in Nat,
         n - Cardinality(S \ T) \in 0 .. Cardinality(T)
  PROVE  n - Cardinality(S \ (T \cup {d})) \in 0 .. Cardinality(T \cup {d})
<1>1. /\ IsFiniteSet(S \ T) /\ IsFiniteSet(T)
      /\ Cardinality(S \ T) \in Nat /\ Cardinality(T) \in Nat
  BY Counted
<1>2. S \ (T \cup {d}) = (S \ T) \ {d}
  OBVIOUS
<1>3. Cardinality((S \ T) \ {d}) =
        IF d \in S \ T THEN Cardinality(S \ T) - 1 ELSE Cardinality(S \ T)
  BY <1>1, FS_RemoveElement
<1>4. Cardinality(T \cup {d}) =
        IF d \in T THEN Cardinality(T) ELSE Cardinality(T) + 1
  BY <1>1, FS_AddElement
<1>5. CASE d \in T
  <2>1. d \notin S \ T
    BY <1>5
  <2> QED
    BY <1>1, <1>2, <1>3, <1>4, <1>5, <2>1
<1>6. CASE d \notin T
  BY <1>1, <1>2, <1>3, <1>4, <1>6
<1> QED
  BY <1>5, <1>6

LEMMA WriteOverviewOK ==
  ASSUME ListingInv, NEW d \in Row, NEW document, Write(d, document)
  PROVE  overview' \in Overview /\ OverviewOK'
<1>1. /\ OverviewOK /\ overview \in Overview /\ rows \in [Row -> Document]
      /\ list' = list /\ rows' = [rows EXCEPT ![d] = document]
  BY DEF Write, ListingInv, TypeOK
<1>2. CASE overview.pc # "asked"
  <2>1. overview' = overview /\ overview' = NoOverview
    BY <1>1, <1>2 DEF Write, OverviewOK, Overview
  <2> QED
    BY <1>1, <1>2, <2>1 DEF OverviewOK
<1>3. CASE overview.pc = "asked"
  <2> DEFINE T == overview.touched
  <2>1. overview' = [overview EXCEPT !.touched = T \cup {d}]
    BY <1>3 DEF Write
  <2>2. /\ T \in SUBSET Row /\ overview.first \in Nat
        /\ overview.second \in Nat
    BY <1>1, Counted DEF Overview
  <2>3. /\ overview' \in Overview /\ overview'.pc = "asked"
        /\ overview'.pending = overview.pending
        /\ overview'.first = overview.first
        /\ overview'.second = overview.second
        /\ overview'.touched = T \cup {d}
    BY <1>1, <1>3, <2>1, <2>2 DEF Overview
  <2>4. \A r \in Row \ {d} : rows'[r] = rows[r]
    BY <1>1
  <2>5. /\ FirstCounts' \ (T \cup {d}) = FirstCounts \ (T \cup {d})
        /\ SecondCounts' \ (T \cup {d}) = SecondCounts \ (T \cup {d})
    BY <1>1, <2>4 DEF FirstCounts, SecondCounts, There
  <2>6. FirstCounts \in SUBSET Row /\ SecondCounts \in SUBSET Row
    BY DEF FirstCounts, SecondCounts
  <2>7. "first" \notin overview.pending =>
          overview.first - Cardinality(FirstCounts \ (T \cup {d}))
            \in 0 .. Cardinality(T \cup {d})
    BY <1>1, <1>3, <2>2, <2>6, OneMoreTouched DEF OverviewOK
  <2>8. "second" \notin overview.pending =>
          overview.second - Cardinality(SecondCounts \ (T \cup {d}))
            \in 0 .. Cardinality(T \cup {d})
    BY <1>1, <1>3, <2>2, <2>6, OneMoreTouched DEF OverviewOK
  <2> HIDE DEF T
  <2> QED
    BY <1>1, <1>3, <2>3, <2>5, <2>7, <2>8 DEF OverviewOK
<1> QED
  BY <1>2, <1>3

LEMMA WriteRowsOK ==
  ASSUME ListingInv, NEW d \in Row, NEW document \in Document,
         Write(d, document),
         document.state = "none" <=> document.key = 0,
         list # "files" => document.state # "elsewhere"
  PROVE  ListingInv'
<1>1. /\ walk' \in Walk /\ WalkOK' /\ overview' \in Overview /\ OverviewOK'
  BY WriteWalkOK, WriteOverviewOK
<1>2. /\ list' = list /\ rows \in [Row -> Document]
      /\ rows' = [rows EXCEPT ![d] = document]
  BY DEF Write, ListingInv, TypeOK
<1>3. /\ rows' \in [Row -> Document] /\ rows'[d] = document
      /\ \A r \in Row \ {d} : rows'[r] = rows[r]
  BY <1>2
<1> QED
  BY <1>1, <1>2, <1>3 DEF ListingInv, TypeOK, RowsOK

LEMMA InsertOK ==
  ASSUME ListingInv, NEW d \in Row, Insert(d)
  PROVE  ListingInv'
<1>1. PICK k \in NewKeys : Write(d, [state |-> "on", key |-> k])
  BY DEF Insert
<1>2. k \in 1 .. MaxKey /\ MaxKey \in Nat
  BY ListingAssumption DEF NewKeys
<1> DEFINE document == [state |-> "on", key |-> k]
<1>3. document \in Document /\ document.state = "on" /\ document.key # 0
  BY <1>2 DEF Document
<1> HIDE DEF document
<1> QED
  BY <1>1, <1>3, WriteRowsOK DEF document

(* The writes that leave the key of the document as it is.                   *)
LEMMA StateOK ==
  ASSUME ListingInv, NEW d \in Row, rows[d].state # "none",
         NEW state \in {"on", "off", "elsewhere", "gone"},
         Write(d, [rows[d] EXCEPT !.state = state]),
         list # "files" => state # "elsewhere"
  PROVE  ListingInv'
<1> DEFINE document == [rows[d] EXCEPT !.state = state]
<1>1. rows[d] \in Document /\ rows[d].key # 0
  BY DEF ListingInv, TypeOK
<1>2. /\ document \in Document /\ document.state = state
      /\ document.key = rows[d].key
  BY <1>1 DEF Document
<1> HIDE DEF document
<1> QED
  BY <1>1, <1>2, WriteRowsOK DEF document

LEMMA RenameOK ==
  ASSUME ListingInv, NEW d \in Row, Rename(d)
  PROVE  ListingInv'
<1>1. PICK k \in 1 .. MaxKey \ {rows[d].key} :
        Write(d, [rows[d] EXCEPT !.key = k])
  BY DEF Rename
<1> DEFINE document == [rows[d] EXCEPT !.key = k]
<1>2. rows[d] \in Document /\ rows[d].state = "on" /\ MaxKey \in Nat
  BY ListingAssumption DEF ListingInv, TypeOK, Rename
<1>3. document \in Document /\ document.state = "on" /\ document.key # 0
  BY <1>2 DEF Document
<1> HIDE DEF document
<1> QED
  BY <1>1, <1>3, WriteRowsOK DEF document

LEMMA WritesOK ==
  ASSUME ListingInv, NEW d \in Row,
         \/ Insert(d) \/ TurnOff(d) \/ TurnOn(d) \/ Destroy(d)
         \/ Move(d) \/ Rename(d)
  PROVE  ListingInv'
<1>1. CASE TurnOff(d)
  BY <1>1, StateOK DEF TurnOff
<1>2. CASE TurnOn(d)
  BY <1>2, StateOK DEF TurnOn
<1>3. CASE Destroy(d)
  BY <1>3, StateOK DEF Destroy, There
<1>4. CASE Move(d)
  <2>1. PICK state \in {"on", "elsewhere"} :
          Write(d, [rows[d] EXCEPT !.state = state])
    BY <1>4 DEF Move
  <2> QED
    BY <1>4, <2>1, StateOK DEF Move
<1> QED
  BY <1>1, <1>2, <1>3, <1>4, InsertOK, RenameOK

----------------------------------------------------------------------------
(* The overview.                                                             *)

LEMMA NoOverviewIsOverview == NoOverview \in Overview
BY Counted DEF NoOverview, Overview

(* A count is right but for the documents written before it.                 *)
LEMMA CountIsClose ==
  ASSUME NEW S \in SUBSET Row, NEW T \in SUBSET Row
  PROVE  Cardinality(S) - Cardinality(S \ T) \in 0 .. Cardinality(T)
<1>1. /\ IsFiniteSet(S) /\ IsFiniteSet(T) /\ S \cap T \in SUBSET Row
      /\ Cardinality(S) \in Nat /\ Cardinality(T) \in Nat
      /\ Cardinality(S \cap T) \in Nat
  BY Counted
<1>2. Cardinality(S \ T) = Cardinality(S) - Cardinality(S \cap T)
  BY <1>1, FS_Difference
<1>3. Cardinality(S \cap T) <= Cardinality(T)
  BY <1>1, FS_Intersection
<1> QED
  BY <1>1, <1>2, <1>3

LEMMA OverviewStepOK ==
  ASSUME ListingInv, OverviewAsk \/ CountFirst \/ CountSecond \/ OverviewAnswer
  PROVE  overview' \in Overview /\ OverviewOK'
<1>1. /\ OverviewOK /\ overview \in Overview /\ UNCHANGED <<list, rows>>
      /\ FirstCounts \in SUBSET Row /\ SecondCounts \in SUBSET Row
  BY DEF ListingInv, TypeOK, OverviewAsk, CountFirst, CountSecond,
         OverviewAnswer, FirstCounts, SecondCounts
<1>2. FirstCounts' = FirstCounts /\ SecondCounts' = SecondCounts
  BY <1>1 DEF FirstCounts, SecondCounts, There
<1>3. overview.touched \in SUBSET Row
  BY <1>1 DEF Overview
<1>4. CASE OverviewAsk
  <2>1. /\ overview' \in Overview /\ overview'.pc = "asked"
        /\ overview'.pending = {"first", "second"}
        /\ list' \in {"users", "files"}
    BY <1>1, <1>4, NoOverviewIsOverview DEF OverviewAsk, Overview
  <2> QED
    BY <2>1 DEF OverviewOK
<1>5. CASE CountFirst
  <2> DEFINE n == Cardinality(FirstCounts)
  <2>1. n \in 0 .. Cardinality(Row)
    BY <1>1, Counted
  <2>2. n - Cardinality(FirstCounts \ overview.touched)
          \in 0 .. Cardinality(overview.touched)
    BY <1>1, <1>3, CountIsClose
  <2>3. overview' = [overview EXCEPT !.pending = overview.pending \ {"first"},
                                     !.first = n]
    BY <1>5 DEF CountFirst
  <2> HIDE DEF n
  <2>4. /\ overview' \in Overview /\ overview'.pc = overview.pc
        /\ overview'.pending = overview.pending \ {"first"}
        /\ overview'.first = n /\ overview'.second = overview.second
        /\ overview'.touched = overview.touched
    BY <1>1, <2>1, <2>3 DEF Overview
  <2>5. overview.pc = "asked"
    BY <1>1, <1>5 DEF CountFirst, OverviewOK, NoOverview, Overview
  <2> QED
    BY <1>1, <1>2, <2>2, <2>4, <2>5 DEF OverviewOK
<1>6. CASE CountSecond
  <2> DEFINE n == Cardinality(SecondCounts)
  <2>1. n \in 0 .. Cardinality(Row)
    BY <1>1, Counted
  <2>2. n - Cardinality(SecondCounts \ overview.touched)
          \in 0 .. Cardinality(overview.touched)
    BY <1>1, <1>3, CountIsClose
  <2>3. overview' = [overview EXCEPT !.pending = overview.pending \ {"second"},
                                     !.second = n]
    BY <1>6 DEF CountSecond
  <2> HIDE DEF n
  <2>4. /\ overview' \in Overview /\ overview'.pc = overview.pc
        /\ overview'.pending = overview.pending \ {"second"}
        /\ overview'.second = n /\ overview'.first = overview.first
        /\ overview'.touched = overview.touched
    BY <1>1, <2>1, <2>3 DEF Overview
  <2>5. overview.pc = "asked"
    BY <1>1, <1>6 DEF CountSecond, OverviewOK, NoOverview, Overview
  <2> QED
    BY <1>1, <1>2, <2>2, <2>4, <2>5 DEF OverviewOK
<1>7. CASE OverviewAnswer
  <2>1. overview' = NoOverview /\ overview'.pc = "idle"
    BY <1>7 DEF OverviewAnswer, NoOverview
  <2> QED
    BY <2>1, NoOverviewIsOverview DEF OverviewOK
<1> QED
  BY <1>4, <1>5, <1>6, <1>7

----------------------------------------------------------------------------
(* The invariant.                                                            *)

LEMMA SameWalk ==
  ASSUME ListingInv, UNCHANGED <<list, rows, walk>>
  PROVE  walk' \in Walk /\ WalkOK'
<1>1. /\ walk \in Walk /\ WalkOK /\ Size' = Size /\ Skip' = Skip
      /\ Paged' = Paged
      /\ FindAnswered' = FindAnswered /\ CountAnswered' = CountAnswered
      /\ Walking' = Walking /\ Queries' = Queries
  BY SameRows, SameLimit
     DEF ListingInv, TypeOK, FindAnswered, CountAnswered, Walking
<1>2. Passed' = Passed
  BY <1>1 DEF Passed
<1>3. \A r : /\ OwedOK(r) => OwedOK(r)'
             /\ OnceOK(r) => OnceOK(r)'
  BY <1>1, <1>2, SameRows DEF OwedOK, OnceOK
<1>4. LastOK'
  <2>1. LastOK /\ \A r : Ahead(r)' = Ahead(r)
    BY <1>1, SameRows DEF WalkOK
  <2> QED
    BY <1>1, <2>1 DEF LastOK
<1> QED
  BY <1>1, <1>3, <1>4 DEF WalkOK, OnePage, MissedNeedsCause, TwiceNeedsCause

LEMMA SameOverview ==
  ASSUME ListingInv, UNCHANGED <<list, rows, overview>>
  PROVE  overview' \in Overview /\ OverviewOK'
BY DEF ListingInv, TypeOK, OverviewOK, FirstCounts, SecondCounts, There

LEMMA InitInv == Init => ListingInv
<1> SUFFICES ASSUME Init PROVE ListingInv
  OBVIOUS
<1>1. list \in List /\ walk = NoWalk /\ overview = NoOverview
  BY DEF Init
<1>2. /\ rows \in [Row -> Document]
      /\ \A r \in Row : rows[r].state = "none" /\ rows[r].key = 0
  BY ListingAssumption DEF Init, Document
<1>3. /\ walk.pc = "none" /\ walk.pending = {} /\ walk.repeated = {}
      /\ walk.page = 1
  BY <1>1 DEF NoWalk
<1>4. WalkOK
  BY <1>1, <1>3 DEF WalkOK, Walking, OnePage, LastOK, FindAnswered,
                    CountAnswered, MissedNeedsCause, TwiceNeedsCause
<1>5. OverviewOK
  BY <1>1 DEF OverviewOK, NoOverview
<1> QED
  BY <1>1, <1>2, <1>4, <1>5, NoWalkIsWalk, NoOverviewIsOverview
     DEF ListingInv, TypeOK, RowsOK

LEMMA NextInv == ListingInv /\ [Next]_vars => ListingInv'
<1> SUFFICES ASSUME ListingInv, [Next]_vars PROVE ListingInv'
  OBVIOUS
<1>1. ASSUME UNCHANGED <<list, rows>>, walk' \in Walk /\ WalkOK',
             overview' \in Overview /\ OverviewOK'
      PROVE  ListingInv'
  BY <1>1 DEF ListingInv, TypeOK, RowsOK
<1>2. CASE Start \/ Ask \/ Find \/ Count \/ Answer \/ Again
  <2>1. walk' \in Walk /\ WalkOK'
    BY <1>2, StartOK, AskOK, FindOK, CountOK, AnswerOK, AgainOK
  <2>2. UNCHANGED <<list, rows, overview>>
    BY <1>2 DEF Start, Ask, Find, Count, Answer, Again
  <2> QED
    BY <1>1, <2>1, <2>2, SameOverview
<1>3. CASE OverviewAsk \/ CountFirst \/ CountSecond \/ OverviewAnswer
  <2>1. UNCHANGED <<list, rows, walk>>
    BY <1>3 DEF OverviewAsk, CountFirst, CountSecond, OverviewAnswer
  <2> QED
    BY <1>1, <1>3, <2>1, OverviewStepOK, SameWalk
<1>4. CASE UNCHANGED vars
  BY <1>1, <1>4, SameWalk, SameOverview DEF vars
<1> QED
  BY <1>2, <1>3, <1>4, WritesOK DEF Next

LEMMA Invariance == Spec => []ListingInv
BY InitInv, NextInv, PTL DEF Spec

----------------------------------------------------------------------------
(* Theorems.                                                                 *)

(* Documents, the walk and the overview have their types.                    *)
THEOREM TypeCorrect == Spec => []TypeOK
BY Invariance, PTL DEF ListingInv

(* Paging with skip and limit (users.service.ts:110, files.service.ts:80,    *)
(* transactions.service.ts:92, search.service.ts:46) loses a row only if     *)
(* meanwhile one ahead of it left, or one came between the count and the     *)
(* find, or another had its key, or it is beyond the one page of search or   *)
(* of a negative limit; for any number of rows, writes, pages and any limit. *)
THEOREM MissedHasCause == Spec => []MissedNeedsCause
BY Invariance, PTL DEF ListingInv, WalkOK

(* It shows a row again only if one came ahead of it or another had its key. *)
THEOREM TwiceHasCause == Spec => []TwiceNeedsCause
BY Invariance, PTL DEF ListingInv, WalkOK

(* The counts of GET /admin/overview (admin.controller.ts:37) are off by at  *)
(* most the documents written while it counted.                              *)
THEOREM OverviewOff == Spec => []OverviewOffByWrites
<1>1. ASSUME ListingInv, overview.pc = "asked", overview.pending = {}
      PROVE  LET calm  == {r \in Row : There(r)} \ overview.touched
                 off   == {r \in calm : rows[r].state = "off"}
                 slack == Cardinality(overview.touched)
             IN  IF list = "users"
                   THEN Inactive - Cardinality(off) \in -slack..slack
                   ELSE overview.first + overview.second - Cardinality(calm)
                          \in 0..2 * slack
  <2> DEFINE T == overview.touched
             F == FirstCounts \ T
             S == SecondCounts \ T
             calm == {r \in Row : There(r)} \ T
             off == {r \in calm : rows[r].state = "off"}
             slack == Cardinality(T)
  <2>1. /\ overview.first - Cardinality(F) \in 0 .. slack
        /\ overview.second - Cardinality(S) \in 0 .. slack
        /\ overview.first \in Nat /\ overview.second \in Nat
        /\ T \in SUBSET Row /\ list \in {"users", "files"}
    BY <1>1, Counted DEF ListingInv, TypeOK, OverviewOK, Overview
  <2>2. /\ F \in SUBSET Row /\ S \in SUBSET Row /\ off \in SUBSET Row
        /\ calm \in SUBSET Row
    BY DEF FirstCounts, SecondCounts
  <2>3. /\ Cardinality(F) \in Nat /\ Cardinality(S) \in Nat
        /\ Cardinality(off) \in Nat /\ Cardinality(calm) \in Nat
        /\ slack \in Nat
    BY <2>1, <2>2, Counted
  <2>4. \A r \in Row :
          rows[r].state \in {"none", "on", "off", "elsewhere", "gone"}
    BY <1>1 DEF ListingInv, TypeOK, Document
  <2>5. CASE list = "users"
    <3>1. F = S \cup off /\ S \cap off = {}
      BY <1>1, <2>4, <2>5
         DEF FirstCounts, SecondCounts, There, ListingInv, RowsOK
    <3> HIDE DEF T, F, S, calm, off, slack
    <3>2. Cardinality(F) = Cardinality(S) + Cardinality(off)
      BY <2>2, <3>1, CountedDisjoint
    <3>3. Inactive - Cardinality(off) \in -slack .. slack
      BY <2>1, <2>3, <3>2 DEF Inactive
    <3> QED
      BY <2>5, <3>3 DEF T, calm, off, slack
  <2>6. CASE list = "files"
    <3>1. calm = F \cup S /\ F \cap S = {}
      BY <2>4, <2>6 DEF FirstCounts, SecondCounts, There
    <3> HIDE DEF T, F, S, calm, off, slack
    <3>2. Cardinality(calm) = Cardinality(F) + Cardinality(S)
      BY <2>2, <3>1, CountedDisjoint
    <3>3. overview.first + overview.second - Cardinality(calm)
            \in 0 .. 2 * slack
      BY <2>1, <2>3, <3>2
    <3> QED
      BY <2>6, <3>3 DEF T, calm, off, slack
  <2> QED
    BY <2>1, <2>5, <2>6
<1>2. ListingInv => OverviewOffByWrites
  BY <1>1 DEF OverviewOffByWrites
<1> QED
  BY <1>2, Invariance, PTL
=============================================================================
