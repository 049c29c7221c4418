-------------------------- MODULE FolderTreeProofs --------------------------
(* The theorem about the tree that getFolderTree shows, for any number of    *)
(* requests, users and folders.                                              *)
(*                                                                           *)
(* The calls that lead to a node start in the root, and each folder names    *)
(* its one parent, so that no folder comes twice among them (a first         *)
(* repetition would repeat the parents as well, up to the root) and nothing  *)
(* but the folder decides them.  So there are no more of them than folders,  *)
(* and a cycle is never entered.  What has a node has all ancestors listed,  *)
(* going up the calls; and what has none would be, with its ancestors, a set *)
(* without one in the root.                                                  *)
EXTENDS FolderTree, FoldersProofs, FiniteSetTheorems, FunctionTheorems

Existing == {f \in Folder : folders[f].exists}

(* The folders that have a node, however deep.                               *)
Shown(L) ==
  {f \in L : \E n \in Nat \ {0} : \E s \in Nested(L, n) : s[n] = f}

(* Going up from a call leads to the call it is nested in, or to the root.   *)
Climbs(L, n, s) ==
  /\ s \in [1 .. n -> L]
  /\ folders[s[1]].parentId = Null
  /\ \A i \in 2 .. n : /\ folders[s[i]].parentId = s[i - 1]
                      /\ s[i - 1] \in L /\ s[i - 1] # Null

----------------------------------------------------------------------------

(* The least of some numbers.                                                *)
LEMMA Least ==
  ASSUME NEW T \in SUBSET Nat, T # {}
  PROVE  \E m \in T : \A k \in T : m <= k
<1> DEFINE R == OpToRel(<, Nat)
<1>1. IsWellFoundedOn(R, Nat)
  BY NatLessThanWellFounded
<1>2. \A x, y \in Nat : x < y => <<x, y>> \in R
  BY DEF OpToRel
<1> HIDE DEF R
<1>3. PICK m \in T : \A k \in T : <<k, m>> \notin R
  BY <1>1, WFMin
<1>4. ASSUME NEW k \in T PROVE m <= k
  <2>1. ~(k < m)
    BY <1>2, <1>3, <1>4
  <2> QED
    BY <2>1
<1> QED
  BY <1>3, <1>4

LEMMA CallsClimb ==
  ASSUME NEW L \in SUBSET Folder, NEW n \in Nat \ {0}, NEW s \in Nested(L, n)
  PROVE  Climbs(L, n, s)
<1>1. s \in [1 .. n -> L] /\ folders[s[1]].parentId = Null
  BY DEF Nested, ChildrenIn
<1>2. ASSUME NEW i \in 2 .. n
      PROVE  /\ folders[s[i]].parentId = s[i - 1]
             /\ s[i - 1] \in L /\ s[i - 1] # Null
  <2>1. s[i] \in ChildrenIn(L, s[i - 1])
    BY DEF Nested
  <2>2. i - 1 \in 1 .. n
    OBVIOUS
  <2>3. s[i - 1] \in L /\ s[i - 1] # Null
    BY <1>1, <2>2, FoldersAssumption DEF FoldersAssumption
  <2> QED
    BY <2>1, <2>3 DEF ChildrenIn
<1> QED
  BY <1>1, <1>2 DEF Climbs

(* No folder is nested in itself.                                            *)
LEMMA NestedOnce ==
  ASSUME NEW L \in SUBSET Folder, NEW n \in Nat \ {0}, NEW s \in Nested(L, n),
         NEW i \in 1 .. n, NEW j \in 1 .. n, i < j
  PROVE  s[i] # s[j]
<1> DEFINE T == {k \in 1 .. n : \E l \in 1 .. n : k < l /\ s[k] = s[l]}
<1> SUFFICES ASSUME s[i] = s[j] PROVE FALSE
  OBVIOUS
<1>1. T \in SUBSET Nat /\ T # {}
  BY DEF T
<1>2. PICK k \in T : \A m \in T : k <= m
  BY <1>1, Least
<1>3. PICK l \in 1 .. n : k < l /\ s[k] = s[l]
  OBVIOUS
<1>4. k \in 1 .. n
  OBVIOUS
<1>5. l \in 2 .. n /\ l - 1 \in 1 .. n
  BY <1>3, <1>4
<1>6. Climbs(L, n, s)
  BY CallsClimb
<1>7. k # 1
  BY <1>3, <1>5, <1>6 DEF Climbs
<1>8. k \in 2 .. n /\ k - 1 \in 1 .. n
  BY <1>4, <1>7
<1>10. s[k - 1] = s[l - 1]
  BY <1>3, <1>5, <1>6, <1>8 DEF Climbs
<1>9. k - 1 \in T
  BY <1>3, <1>4, <1>5, <1>8, <1>10
<1> QED
  BY <1>2, <1>4, <1>9

(* So calls are nested no deeper than there are folders.                     *)
LEMMA NestingEnds ==
  ASSUME NEW L \in SUBSET Folder, IsFiniteSet(L), NEW n \in Nat \ {0},
         NEW s \in Nested(L, n)
  PROVE  n <= Cardinality(L)
<1>1. s \in [1 .. n -> L]
  BY DEF Nested
<1>2. ASSUME NEW i \in 1 .. n, NEW j \in 1 .. n, s[i] = s[j] PROVE i = j
  <2>1. ~(i < j) /\ ~(j < i)
    BY <1>2, NestedOnce
  <2> QED
    BY <2>1
<1>3. s \in Injection(1 .. n, L)
  BY <1>1, <1>2, Fun_IsInj
<1>4. Cardinality(1 .. n) = n
  BY FS_Interval
<1> QED
  BY <1>3, <1>4, FS_Injection

(* Two nestings that end in one folder agree as far up as both reach.        *)
LEMMA NestingsAgree ==
  ASSUME NEW L \in SUBSET Folder, NEW m \in Nat \ {0}, NEW n \in Nat \ {0},
         NEW s \in Nested(L, m), NEW t \in Nested(L, n), s[m] = t[n]
  PROVE  \A i \in Nat : i < m /\ i < n => s[m - i] = t[n - i]
<1> DEFINE T == {k \in Nat : k < m /\ k < n /\ s[m - k] # t[n - k]}
<1> SUFFICES ASSUME T # {} PROVE FALSE
  OBVIOUS
<1>1. PICK k \in T : \A l \in T : k <= l
  BY Least
<1>2. k \in Nat /\ k < m /\ k < n /\ s[m - k] # t[n - k]
  OBVIOUS
<1>3. k # 0
  BY <1>2
<1>4. k - 1 \in Nat /\ k - 1 < m /\ k - 1 < n /\ k - 1 \notin T
  BY <1>1, <1>2, <1>3
<1>5. s[m - (k - 1)] = t[n - (k - 1)]
  BY <1>4
<1> DEFINE a == m - (k - 1)
           b == n - (k - 1)
<1>6. a \in 2 .. m /\ a - 1 = m - k /\ b \in 2 .. n /\ b - 1 = n - k
  BY <1>2, <1>3
<1> HIDE DEF a, b
<1>9. Climbs(L, m, s) /\ Climbs(L, n, t)
  BY CallsClimb
<1>7. folders[s[a]].parentId = s[a - 1] /\ folders[t[b]].parentId = t[b - 1]
  BY <1>6, <1>9 DEF Climbs
<1>8. s[a - 1] = t[b - 1]
  BY <1>5, <1>6, <1>7 DEF a, b
<1> QED
  BY <1>2, <1>6, <1>8

(* Neither of them is shorter.                                               *)
LEMMA NestingsAsLong ==
  ASSUME NEW L \in SUBSET Folder, NEW m \in Nat \ {0}, NEW n \in Nat \ {0},
         NEW s \in Nested(L, m), NEW t \in Nested(L, n), s[m] = t[n]
  PROVE  ~(m < n)
<1> SUFFICES ASSUME m < n PROVE FALSE
  OBVIOUS
<1>1. \A i \in Nat : i < m /\ i < n => s[m - i] = t[n - i]
  BY NestingsAgree
<1> DEFINE b == n - (m - 1)
<1>2. m - 1 \in Nat /\ m - 1 < m /\ m - 1 < n /\ m - (m - 1) = 1 /\ b \in 2 .. n
  OBVIOUS
<1>3. s[1] = t[b]
  BY <1>1, <1>2
<1>4. Climbs(L, m, s) /\ Climbs(L, n, t)
  BY CallsClimb
<1> HIDE DEF b
<1>5. folders[t[b]].parentId # Null
  BY <1>2, <1>4 DEF Climbs
<1> QED
  BY <1>3, <1>4, <1>5 DEF Climbs

(* A folder has one node.                                                    *)
LEMMA NestingUnique ==
  ASSUME NEW L \in SUBSET Folder, NEW m \in Nat \ {0}, NEW n \in Nat \ {0},
         NEW s \in Nested(L, m), NEW t \in Nested(L, n), s[m] = t[n]
  PROVE  s = t
<1>1. m = n
  <2>1. ~(m < n) /\ ~(n < m)
    BY NestingsAsLong
  <2> QED
    BY <2>1
<1>2. s \in [1 .. n -> L] /\ t \in [1 .. n -> L]
  BY <1>1 DEF Nested
<1>3. ASSUME NEW i \in 1 .. n PROVE s[i] = t[i]
  <2>1. n - i \in Nat /\ n - i < n /\ n - (n - i) = i
    OBVIOUS
  <2>2. \A k \in Nat : k < m /\ k < n => s[m - k] = t[n - k]
    BY NestingsAgree
  <2> QED
    BY <1>1, <2>1, <2>2
<1> QED
  BY <1>2, <1>3

(* What has a node has its ancestors listed.                                 *)
LEMMA ShownReachesRoot ==
  ASSUME NEW L \in SUBSET Folder, NEW f \in Shown(L)
  PROVE  ReachesRoot(L, f)
<1> SUFFICES ASSUME NEW S \in SUBSET L, f \in S,
                    \A g \in S : folders[g].parentId \in L =>
                                   folders[g].parentId \in S
             PROVE  \E g \in S : folders[g].parentId = Null
  BY DEF ReachesRoot
<1>1. PICK n \in Nat \ {0} : \E s \in Nested(L, n) : s[n] = f
  BY DEF Shown
<1>2. PICK s \in Nested(L, n) : s[n] = f
  BY <1>1
<1> DEFINE T == {i \in 1 .. n : s[i] \in S}
<1>3. T \in SUBSET Nat /\ n \in T
  BY <1>2
<1>4. PICK i \in T : \A j \in T : i <= j
  BY <1>3, Least
<1>5. i \in 1 .. n /\ s[i] \in S
  OBVIOUS
<1>8. Climbs(L, n, s)
  BY CallsClimb
<1>6. CASE i = 1
  BY <1>5, <1>6, <1>8 DEF Climbs
<1>7. CASE i # 1
  <2>1. i - 1 \in 1 .. n /\ s[i - 1] \in L /\ folders[s[i]].parentId = s[i - 1]
    BY <1>5, <1>7, <1>8 DEF Climbs
  <2>2. i - 1 \in T
    BY <1>5, <2>1
  <2> QED
    BY <1>4, <1>5, <2>2
<1> QED
  BY <1>6, <1>7

(* A folder in the root, and one in a folder that has a node, has one.       *)
LEMMA ChildrenAreShown ==
  ASSUME NEW L \in SUBSET Folder, NEW g \in L,
         folders[g].parentId \in Shown(L) \cup {Null}
  PROVE  g \in Shown(L)
<1>1. CASE folders[g].parentId = Null
  <2> DEFINE s == [i \in 1 .. 1 |-> g]
  <2>1. s \in [1 .. 1 -> L] /\ s[1] = g
    OBVIOUS
  <2> HIDE DEF s
  <2>2. s \in Nested(L, 1)
    BY <1>1, <2>1 DEF Nested, ChildrenIn
  <2> QED
    BY <2>1, <2>2 DEF Shown
<1>2. CASE folders[g].parentId \in Shown(L)
  <2>1. PICK n \in Nat \ {0} :
          \E s \in Nested(L, n) : s[n] = folders[g].parentId
    BY <1>2 DEF Shown
  <2>2. PICK s \in Nested(L, n) : s[n] = folders[g].parentId
    BY <2>1
  <2> DEFINE t == [i \in 1 .. n + 1 |-> IF i = n + 1 THEN g ELSE s[i]]
  <2>3. s \in [1 .. n -> L]
    BY DEF Nested
  <2>4. /\ t \in [1 .. n + 1 -> L] /\ t[n + 1] = g
        /\ \A i \in 1 .. n : t[i] = s[i]
    BY <2>3
  <2> HIDE DEF t
  <2>5. t[1] \in ChildrenIn(L, Null)
    BY <2>4 DEF Nested
  <2>6. ASSUME NEW i \in 2 .. n + 1 PROVE t[i] \in ChildrenIn(L, t[i - 1])
    <3>1. CASE i = n + 1
      BY <2>2, <2>4, <3>1 DEF ChildrenIn
    <3>2. CASE i # n + 1
      <4>1. i \in 2 .. n /\ i - 1 \in 1 .. n /\ i \in 1 .. n
        BY <3>2
      <4>2. s[i] \in ChildrenIn(L, s[i - 1])
        BY <4>1 DEF Nested
      <4> QED
        BY <2>4, <4>1, <4>2
    <3> QED
      BY <3>1, <3>2
  <2>7. t \in Nested(L, n + 1)
    BY <2>4, <2>5, <2>6 DEF Nested
  <2> QED
    BY <2>4, <2>7 DEF Shown
<1> QED
  BY <1>1, <1>2

(* What has its ancestors listed has a node.                                 *)
LEMMA RootedIsShown ==
  ASSUME NEW L \in SUBSET Folder, NEW f \in L, ReachesRoot(L, f)
  PROVE  f \in Shown(L)
<1> DEFINE S == L \ Shown(L)
<1> SUFFICES ASSUME f \in S PROVE FALSE
  OBVIOUS
<1>1. ASSUME NEW g \in S, folders[g].parentId \in L
      PROVE  folders[g].parentId \in S
  BY <1>1, ChildrenAreShown
<1>2. ASSUME NEW g \in S, folders[g].parentId = Null PROVE FALSE
  BY <1>2, ChildrenAreShown
<1>3. S \in SUBSET L
  OBVIOUS
<1> HIDE DEF S
<1> QED
  BY <1>1, <1>2, <1>3 DEF ReachesRoot

(* The call of a node, as a sequence.                                        *)
LEMMA NestedLen ==
  ASSUME NEW L, NEW n \in Nat, NEW s \in Nested(L, n)
  PROVE  Len(s) = n
<1>1. s \in [1 .. n -> L]
  BY DEF Nested
<1> QED
  BY <1>1

(* The tree of the listed folders, finitely many.                            *)
LEMMA TreeOfFinite ==
  ASSUME NEW L \in SUBSET Folder, IsFiniteSet(L)
  PROVE  /\ Nested(L, Cardinality(L) + 1) = {}
         /\ \A s, t \in BuildTree(L) : s[Len(s)] = t[Len(t)] => s = t
         /\ {s[Len(s)] : s \in BuildTree(L)} = {f \in L : ReachesRoot(L, f)}
<1> DEFINE N == Cardinality(L)
<1>1. N \in Nat
  BY FS_CardinalityType
<1>2. Nested(L, N + 1) = {}
  <2> SUFFICES ASSUME NEW s \in Nested(L, N + 1) PROVE FALSE
    OBVIOUS
  <2>1. N + 1 \in Nat \ {0}
    BY <1>1
  <2>2. N + 1 <= N
    BY <2>1, NestingEnds
  <2> QED
    BY <1>1, <2>2
<1>3. ASSUME NEW s \in BuildTree(L)
      PROVE  \E n \in Nat \ {0} : s \in Nested(L, n) /\ Len(s) = n
  <2>1. PICK n \in 1 .. N : s \in Nested(L, n)
    BY DEF BuildTree
  <2>2. n \in Nat \ {0} /\ Len(s) = n
    BY <1>1, <2>1, NestedLen
  <2> QED
    BY <2>1, <2>2
<1>4. ASSUME NEW s \in BuildTree(L), NEW t \in BuildTree(L),
             s[Len(s)] = t[Len(t)]
      PROVE  s = t
  BY <1>3, <1>4, NestingUnique
<1>5. ASSUME NEW s \in BuildTree(L) PROVE s[Len(s)] \in Shown(L)
  <2>1. PICK n \in Nat \ {0} : s \in Nested(L, n) /\ Len(s) = n
    BY <1>3
  <2>2. s[n] \in L
    BY <2>1 DEF Nested
  <2> QED
    BY <2>1, <2>2 DEF Shown
<1>6. ASSUME NEW f \in Shown(L) PROVE \E s \in BuildTree(L) : s[Len(s)] = f
  <2>1. PICK n \in Nat \ {0} : \E s \in Nested(L, n) : s[n] = f
    BY DEF Shown
  <2>2. PICK s \in Nested(L, n) : s[n] = f
    BY <2>1
  <2>3. n \in 1 .. N /\ Len(s) = n
    BY <1>1, NestingEnds, NestedLen
  <2> QED
    BY <2>2, <2>3 DEF BuildTree
<1>7. Shown(L) = {f \in L : ReachesRoot(L, f)}
  BY ShownReachesRoot, RootedIsShown DEF Shown
<1>8. {s[Len(s)] : s \in BuildTree(L)} = Shown(L)
  BY <1>5, <1>6
<1> QED
  BY <1>2, <1>4, <1>7, <1>8

----------------------------------------------------------------------------

(* Only an insert brings another folder, so there are finitely many.         *)
LEMMA NextFinite ==
  ASSUME FoldersInv, [Next]_vars, IsFiniteSet(Existing)
  PROVE  IsFiniteSet(Existing)'
<1>1. /\ folders \in [Folder -> Document]
      /\ \A r \in Request : RequestOK(reqs[r])
  BY DEF FoldersInv, TypeOK
<1>2. ASSUME NEW r \in Request, CreateSave(r)
      PROVE  \E f \in Folder : Existing' \subseteq Existing \cup {f}
  <2>1. PICK f \in Folder : \E doc : folders' = [folders EXCEPT ![f] = doc]
    BY <1>2 DEF CreateSave
  <2>2. \A g \in Folder : g # f => folders'[g] = folders[g]
    BY <1>1, <2>1
  <2> QED
    BY <2>2 DEF Existing
<1>3. ASSUME NEW r \in Request, UpdateSave(r) PROVE Existing' \subseteq Existing
  BY <1>1, <1>3 DEF UpdateSave, RequestOK, At, Document, Existing
<1>4. ASSUME NEW r \in Request, SoftDeleteSave(r)
      PROVE  Existing' \subseteq Existing
  BY <1>1, <1>4 DEF SoftDeleteSave, RequestOK, At, Document, Existing
<1>5. ASSUME NEW r \in Request, MoveSave(r) PROVE Existing' \subseteq Existing
  BY <1>1, <1>5 DEF MoveSave, RequestOK, At, Document, Existing
<1>6. ASSUME folders' = folders PROVE Existing' \subseteq Existing
  BY <1>6 DEF Existing
<1>10. \/ folders' = folders
       \/ \E r \in Request : \/ CreateSave(r) \/ UpdateSave(r)
                            \/ SoftDeleteSave(r) \/ MoveSave(r)
  BY DEF Next, vars, Create, CreateCheck, Update, SoftDelete, Move, MoveParent,
         DeleteUser
<1>7. \/ Existing' \subseteq Existing
      \/ \E f \in Folder : Existing' \subseteq Existing \cup {f}
  <2>1. CASE folders' = folders
    BY <1>6, <2>1
  <2>2. CASE \E r \in Request : CreateSave(r)
    BY <1>2, <2>2
  <2>3. CASE \E r \in Request : UpdateSave(r) \/ SoftDeleteSave(r) \/ MoveSave(r)
    BY <1>3, <1>4, <1>5, <2>3
  <2> QED
    BY <1>10, <2>1, <2>2, <2>3
<1>8. CASE Existing' \subseteq Existing
  BY <1>8, FS_Subset
<1>9. ASSUME NEW f \in Folder, Existing' \subseteq Existing \cup {f}
      PROVE  IsFiniteSet(Existing)'
  <2>1. IsFiniteSet(Existing \cup {f})
    BY FS_AddElement
  <2> QED
    BY <1>9, <2>1, FS_Subset
<1> QED
  BY <1>7, <1>8, <1>9

LEMMA FinitelyMany == Spec => []IsFiniteSet(Existing)
<1>1. Init => IsFiniteSet(Existing)
  <2> SUFFICES ASSUME Init PROVE IsFiniteSet(Existing)
    OBVIOUS
  <2>1. Existing = {}
    BY DEF Init, NoFolder, Existing
  <2> QED
    BY <2>1, FS_EmptySet
<1>2. FoldersInv /\ [Next]_vars /\ IsFiniteSet(Existing)
        => IsFiniteSet(Existing)'
  BY NextFinite
<1> QED
  BY <1>1, <1>2, Invariance, PTL DEF Spec

(* getFolderTree ends, shows no folder twice, and shows a user exactly the   *)
(* listed folders whose ancestors are all listed (folders.service.ts:127),   *)
(* for any number of folders and whatever cycles moves have made of them.    *)
THEOREM TreeIsRooted == Spec => []TreeShowsRooted
<1>1. IsFiniteSet(Existing) => TreeShowsRooted
  <2> SUFFICES ASSUME IsFiniteSet(Existing), NEW u \in User
               PROVE  LET L == Listed(u)
                          Tree == BuildTree(L)
                      IN /\ Nested(L, Cardinality(L) + 1) = {}
                         /\ \A s, t \in Tree : s[Len(s)] = t[Len(t)] => s = t
                         /\ {s[Len(s)] : s \in Tree} =
                              {f \in L : ReachesRoot(L, f)}
    BY DEF TreeShowsRooted
  <2>1. Listed(u) \in SUBSET Existing /\ Listed(u) \in SUBSET Folder
    BY DEF Listed, Live, Existing
  <2>2. IsFiniteSet(Listed(u))
    BY <2>1, FS_Subset
  <2> QED
    BY <2>1, <2>2, TreeOfFinite
<1> QED
  BY <1>1, FinitelyMany, PTL
=============================================================================
