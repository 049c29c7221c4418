---------------------------- MODULE FolderTree ----------------------------
(* getFolderTree and buildTree (src/folders/folders.service.ts): what a user *)
(* is shown of the folders.  The code recurses on the parent without a bound *)
(* and without looking out for cycles.  A node of the tree is made under the *)
(* calls that lead to it: one for the root, one for each folder on the way.  *)
EXTENDS Folders

(* The folders a user is shown: all for an admin, else the user's own.       *)
Listed(u) ==
  {f \in Folder : Live(f) /\ (u \in Admin \/ folders[f].createdBy = u)}

(* Mutant: the roots are the folders whose parent is not listed.             *)
MutChildrenAdopts(L, p) ==
  {f \in L : folders[f].parentId = p
             \/ (p = Null /\ folders[f].parentId \notin L)}

ChildrenIn(L, p) == {f \in L : folders[f].parentId = p}

(* The calls of buildTree n deep: their folders, one inside the other.       *)
Nested(L, n) ==
  {s \in [1 .. n -> L] :
     /\ s[1] \in ChildrenIn(L, Null)
     /\ \A i \in 2 .. n : s[i] \in ChildrenIn(L, s[i - 1])}

(* buildTree, from the root: the calls, each of which makes a node for its   *)
(* last folder.                                                              *)
BuildTree(L) == UNION {Nested(L, n) : n \in 1 .. Cardinality(L)}

----------------------------------------------------------------------------
(* Properties *)

(* Whatever moves, renames and deletions have done to the tree, cycles       *)
(* included: getFolderTree comes to an end (calls never nest deeper than     *)
(* there are folders), shows no folder twice, and shows a user exactly the   *)
(* listed folders whose ancestors are all listed.                            *)
TreeShowsRooted ==
  \A u \in User :
    LET L == Listed(u)
        Tree == BuildTree(L)
    IN /\ Nested(L, Cardinality(L) + 1) = {}
       /\ \A s, t \in Tree : s[Len(s)] = t[Len(t)] => s = t
       /\ {s[Len(s)] : s \in Tree} = {f \in L : ReachesRoot(L, f)}
=============================================================================
