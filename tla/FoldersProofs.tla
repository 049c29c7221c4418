--------------------------- MODULE FoldersProofs ---------------------------
(* Theorems about Folders, for any number of requests, users, folders and    *)
(* names, and paths of any length.                                           *)
(*                                                                           *)
(* That a twin needs a race is about a step; the invariant behind it         *)
(* (TwinsOK) is that a create that has looked knows, as missed, every live   *)
(* folder of its name in its place.  PathOK is the same for the path it has  *)
(* read: it is that of the parent, or the request is marked stale.  That a   *)
(* deletion is final needs that an id under which nothing was inserted is    *)
(* not marked deleted (FolderOK), and that requests write to folders that    *)
(* exist (RequestOK).                                                        *)
EXTENDS Folders, TLAPS

(* A place and a path that go together: the root and its path, or a folder   *)
(* that exists and some path below the root.                                 *)
PlaceOK(p, path) ==
  /\ p # Null => folders[p].exists
  /\ path = <<>> <=> p = Null

FolderOK(f) ==
  /\ folders[f].exists => folders[f].name \in Name
  /\ folders[f].exists => PlaceOK(folders[f].parentId, folders[f].path)
  /\ folders[f].isDeleted => folders[f].exists

(* A request names what it is going to write, and the folder exists.         *)
RequestOK(q) ==
  /\ q.pc \in {"createCheck", "create", "update"} => q.name \in Name
  /\ q.pc \in {"update", "softDelete", "moveParent", "move"} =>
       q.id \in Folder /\ folders[q.id].exists
  /\ q.pc = "moveParent" => q.parentId \in Folder

(* A request that has read the place it will put a folder in has the path of *)
(* that place, unless the folder there was written since.                    *)
PathOK(q) ==
  q.pc \in {"createCheck", "create", "move"} =>
    /\ PlaceOK(q.parentId, q.path)
    /\ ~q.stale => q.path = PathIn(q.parentId)

TwinsOK(q) == q.pc = "create" => Twins(q.name, q.parentId) \subseteq q.missed

FoldersInv ==
  /\ TypeOK
  /\ \A f \in Folder : FolderOK(f)
  /\ \A r \in Request :
       RequestOK(reqs[r]) /\ PathOK(reqs[r]) /\ TwinsOK(reqs[r])

----------------------------------------------------------------------------

(* The path of a folder in the root or in a folder that exists.              *)
LEMMA PathInIsPath ==
  ASSUME FoldersInv, NEW p \in Parent, p # Null => folders[p].exists
  PROVE  PathIn(p) \in Seq(Name) /\ PlaceOK(p, PathIn(p))
<1>1. CASE p = Null
  BY <1>1 DEF PathIn, PlaceOK
<1>2. CASE p # Null
  <2>1. p \in Folder /\ folders[p] \in Document /\ folders[p].name \in Name
    BY <1>2 DEF FoldersInv, TypeOK, FolderOK, Parent
  <2>2. folders[p].path \in Seq(Name)
    BY <2>1 DEF Document
  <2>3. PathIn(p) = Append(folders[p].path, folders[p].name)
    BY <1>2 DEF PathIn
  <2>4. PathIn(p) \in Seq(Name) /\ PathIn(p) # <<>>
    BY <2>1, <2>2, <2>3
  <2> QED
    BY <1>2, <2>4 DEF PlaceOK
<1> QED
  BY <1>1, <1>2

LEMMA IdleIsRequest == Idle \in ReqState
BY DEF Idle, ReqState, Parent

(* A request is the only one to change, and is not about to create.          *)
LEMMA RequestMoves ==
  ASSUME FoldersInv, NEW r \in Request, NEW q \in ReqState,
         reqs' = [reqs EXCEPT ![r] = q], UNCHANGED <<users, folders>>,
         RequestOK(q), PathOK(q), TwinsOK(q)
  PROVE  FoldersInv'
<1>1. TypeOK'
  BY DEF FoldersInv, TypeOK
<1>2. ASSUME NEW f \in Folder PROVE FolderOK(f)'
  BY <1>2 DEF FoldersInv, FolderOK, PlaceOK
<1>3. ASSUME NEW s \in Request
      PROVE  (RequestOK(reqs[s]) /\ PathOK(reqs[s]) /\ TwinsOK(reqs[s]))'
  <2>1. reqs'[s] = IF s = r THEN q ELSE reqs[s]
    BY <1>3 DEF FoldersInv, TypeOK
  <2>2. RequestOK(reqs'[s]) /\ PathOK(reqs'[s]) /\ TwinsOK(reqs'[s])
    BY <1>3, <2>1 DEF FoldersInv
  <2>3. RequestOK(reqs[s])' /\ TwinsOK(reqs[s])'
    BY <2>2 DEF RequestOK, TwinsOK, Twins, Live
  <2>4. PathOK(reqs[s])'
    BY <2>2 DEF PathOK, PlaceOK, PathIn
  <2> QED
    BY <2>3, <2>4
<1> QED
  BY <1>1, <1>2, <1>3 DEF FoldersInv

(* What a request knows after another has written f.                         *)
Wiser(q, new, f) ==
  /\ new.pc = q.pc /\ new.id = q.id /\ new.name = q.name
  /\ new.parentId = q.parentId /\ new.path = q.path
  /\ new.missed = IF q.pc = "create" THEN q.missed \cup {f} ELSE q.missed
  /\ new.stale = (q.stale \/ (q.parentId = f /\ q.pc # "moveParent"))

(* A request ends with a write of f.                                         *)
LEMMA RequestWrites ==
  ASSUME FoldersInv, NEW r \in Request, NEW f \in Folder, NEW doc \in Document,
         doc.exists, doc.name \in Name, PlaceOK(doc.parentId, doc.path),
         folders' = [folders EXCEPT ![f] = doc], Wrote(r, f), UNCHANGED users
  PROVE  FoldersInv'
<1>1. ASSUME NEW s \in Request
      PROVE  /\ reqs'[s] \in ReqState
             /\ reqs'[s] = Idle \/ Wiser(reqs[s], reqs'[s], f)
  <2> DEFINE q == reqs[s]
             missed == IF q.pc = "create" THEN q.missed \cup {f} ELSE q.missed
             stale == q.stale \/ (q.parentId = f /\ q.pc # "moveParent")
  <2>1. q \in ReqState
    BY <1>1 DEF FoldersInv, TypeOK
  <2>2. missed \in SUBSET Folder /\ stale \in BOOLEAN
    BY <2>1 DEF ReqState
  <2>3. reqs'[s] = IF s = r THEN Idle
                   ELSE [q EXCEPT !.missed = missed, !.stale = stale]
    BY <1>1 DEF Wrote, At
  <2> HIDE DEF q, missed, stale
  <2>4. /\ [q EXCEPT !.missed = missed, !.stale = stale] \in ReqState
        /\ [q EXCEPT !.missed = missed, !.stale = stale].pc = q.pc
        /\ [q EXCEPT !.missed = missed, !.stale = stale].id = q.id
        /\ [q EXCEPT !.missed = missed, !.stale = stale].name = q.name
        /\ [q EXCEPT !.missed = missed, !.stale = stale].parentId = q.parentId
        /\ [q EXCEPT !.missed = missed, !.stale = stale].path = q.path
        /\ [q EXCEPT !.missed = missed, !.stale = stale].missed = missed
        /\ [q EXCEPT !.missed = missed, !.stale = stale].stale = stale
    BY <2>1, <2>2 DEF ReqState
  <2> QED
    BY <2>3, <2>4, IdleIsRequest DEF Wiser, q, missed, stale
<1>2. TypeOK'
  <2>1. reqs' \in [Request -> ReqState]
    BY <1>1 DEF Wrote
  <2> QED
    BY <2>1 DEF FoldersInv, TypeOK
<1>3. ASSUME NEW g \in Folder
      PROVE  folders'[g] = IF g = f THEN doc ELSE folders[g]
  BY DEF FoldersInv, TypeOK
<1>7. ASSUME NEW p \in Parent, NEW path, PlaceOK(p, path)
      PROVE  PlaceOK(p, path)'
  BY <1>3, <1>7 DEF PlaceOK, Parent
<1>4. ASSUME NEW g \in Folder PROVE FolderOK(g)'
  <2>1. CASE g = f
    <3>1. folders'[g] = doc /\ doc.parentId \in Parent
      BY <1>3, <2>1 DEF Document
    <3>2. PlaceOK(doc.parentId, doc.path)'
      BY <1>7, <3>1
    <3> QED
      BY <3>1, <3>2 DEF FolderOK, PlaceOK
  <2>2. CASE g # f
    <3>1. /\ folders'[g] = folders[g] /\ FolderOK(g)
          /\ folders[g].parentId \in Parent
      BY <1>3, <2>2 DEF FoldersInv, TypeOK, Document
    <3>2. folders[g].exists => PlaceOK(folders[g].parentId, folders[g].path)'
      BY <1>7, <3>1 DEF FolderOK, PlaceOK
    <3> QED
      BY <3>1, <3>2 DEF FolderOK, PlaceOK
  <2> QED
    BY <2>1, <2>2
<1>5. ASSUME NEW s \in Request PROVE RequestOK(reqs[s])'
  <2>1. RequestOK(reqs[s]) /\ reqs[s] \in ReqState
    BY <1>5 DEF FoldersInv, TypeOK
  <2>2. CASE reqs'[s] = Idle
    BY <2>2 DEF RequestOK, Idle
  <2>3. CASE Wiser(reqs[s], reqs'[s], f)
    BY <1>3, <2>1, <2>3 DEF RequestOK, Wiser
  <2> QED
    BY <1>1, <1>5, <2>2, <2>3
<1>6. ASSUME NEW s \in Request PROVE TwinsOK(reqs[s])'
  <2>1. CASE reqs'[s].pc # "create"
    BY <2>1 DEF TwinsOK
  <2>2. CASE reqs'[s].pc = "create"
    <3>5. Wiser(reqs[s], reqs'[s], f)
      BY <1>1, <1>6, <2>2 DEF Idle
    <3>1. reqs[s].pc = "create" /\ Wiser(reqs[s], reqs'[s], f)
      BY <2>2, <3>5 DEF Wiser
    <3>2. /\ reqs'[s].name = reqs[s].name
          /\ reqs'[s].parentId = reqs[s].parentId
          /\ reqs'[s].missed = reqs[s].missed \cup {f}
      BY <3>1 DEF Wiser
    <3>3. Twins(reqs[s].name, reqs[s].parentId) \subseteq reqs[s].missed
      BY <1>6, <3>1 DEF FoldersInv, TwinsOK
    <3>4. ASSUME NEW g \in Folder, g # f, folders'[g].exists,
                 ~folders'[g].isDeleted, folders'[g].name = reqs[s].name,
                 folders'[g].parentId = reqs[s].parentId
          PROVE  g \in reqs[s].missed
      BY <1>3, <3>3, <3>4 DEF Twins, Live
    <3> QED
      BY <3>2, <3>4 DEF TwinsOK, Twins, Live
  <2> QED
    BY <2>1, <2>2
<1>8. ASSUME NEW s \in Request PROVE PathOK(reqs[s])'
  <2>1. CASE reqs'[s] = Idle
    BY <2>1 DEF PathOK, Idle
  <2>2. CASE Wiser(reqs[s], reqs'[s], f)
    <3> SUFFICES ASSUME reqs'[s].pc \in {"createCheck", "create", "move"}
                 PROVE  /\ PlaceOK(reqs[s].parentId, reqs[s].path)'
                        /\ ~reqs'[s].stale =>
                             reqs'[s].path = PathIn(reqs[s].parentId)'
      BY DEF PathOK
    <3> DEFINE p == reqs[s].parentId
    <3>1. /\ p \in Parent
          /\ PlaceOK(p, reqs[s].path)
          /\ ~reqs[s].stale => reqs[s].path = PathIn(p)
      BY <1>8, <2>2 DEF FoldersInv, TypeOK, ReqState, PathOK, Wiser
    <3>2. /\ reqs'[s].parentId = p /\ reqs'[s].path = reqs[s].path
          /\ ~reqs'[s].stale => ~reqs[s].stale /\ p # f
      BY <2>2 DEF Wiser
    <3>3. PlaceOK(reqs[s].parentId, reqs[s].path)'
      <4>1. PlaceOK(p, reqs[s].path)
        BY <3>1
      <4>2. p # Null => folders'[p].exists
        BY <1>3, <3>1 DEF PlaceOK, Parent
      <4> QED
        BY <3>2, <4>1, <4>2 DEF PlaceOK
    <3>4. ASSUME ~reqs'[s].stale
          PROVE  reqs'[s].path = PathIn(reqs[s].parentId)'
      <4>1. p # Null => folders'[p] = folders[p]
        BY <1>3, <3>1, <3>2, <3>4 DEF Parent
      <4>2. reqs'[s].path = PathIn(p)
        BY <3>1, <3>2, <3>4
      <4> HIDE DEF p
      <4>3. PathIn(p) = IF p = Null THEN <<>>
                        ELSE Append(folders'[p].path, folders'[p].name)
        BY <4>1 DEF PathIn
      <4> QED
        BY <3>2, <4>2, <4>3 DEF PathIn
    <3> QED
      BY <3>3, <3>4
  <2> QED
    BY <1>1, <1>8, <2>1, <2>2
<1> QED
  BY <1>2, <1>4, <1>5, <1>6, <1>8 DEF FoldersInv

(* A request ends without a write.                                           *)
LEMMA RequestEnds ==
  ASSUME FoldersInv, NEW r \in Request, Finish(r), UNCHANGED <<users, folders>>
  PROVE  FoldersInv'
<1>1. RequestOK(Idle) /\ PathOK(Idle) /\ TwinsOK(Idle)
  BY DEF RequestOK, PathOK, TwinsOK, Idle
<1> QED
  BY <1>1, IdleIsRequest, RequestMoves DEF Finish

----------------------------------------------------------------------------
(* One lemma for each operation.                                             *)

LEMMA CreateKeeps ==
  ASSUME FoldersInv, NEW r \in Request, NEW u \in User, NEW name \in Name,
         NEW p \in Parent, Create(r, u, name, p)
  PROVE  FoldersInv'
<1> DEFINE q == [Idle EXCEPT !.pc = "createCheck", !.user = u, !.name = name,
                             !.parentId = p, !.path = PathIn(p)]
<1>1. PathIn(p) \in Seq(Name) /\ PlaceOK(p, PathIn(p))
  BY PathInIsPath DEF Create
<1>2. q \in ReqState
  BY <1>1, IdleIsRequest DEF ReqState
<1>3. RequestOK(q) /\ PathOK(q) /\ TwinsOK(q)
  BY <1>1 DEF RequestOK, PathOK, TwinsOK, Idle
<1>4. reqs' = [reqs EXCEPT ![r] = q] /\ UNCHANGED <<users, folders>>
  BY DEF Create, Start
<1> HIDE DEF q
<1> QED
  BY <1>2, <1>3, <1>4, RequestMoves

LEMMA CreateCheckKeeps ==
  ASSUME FoldersInv, NEW r \in Request, CreateCheck(r)
  PROVE  FoldersInv'
<1>1. CASE Twins(reqs[r].name, reqs[r].parentId) # {}
  BY <1>1, RequestEnds DEF CreateCheck
<1>2. CASE Twins(reqs[r].name, reqs[r].parentId) = {}
  <2> DEFINE q == [reqs[r] EXCEPT !.pc = "create"]
  <2>1. reqs[r] \in ReqState /\ RequestOK(reqs[r]) /\ reqs[r].pc = "createCheck"
    BY DEF FoldersInv, TypeOK, CreateCheck, At
  <2>2. q \in ReqState
    BY <2>1 DEF ReqState
  <2>3. /\ q.pc = "create" /\ q.name = reqs[r].name
        /\ q.parentId = reqs[r].parentId
        /\ q.path = reqs[r].path /\ q.stale = reqs[r].stale
    BY <2>1 DEF ReqState
  <2>4. RequestOK(q) /\ PathOK(q)
    <3>1. PathOK(reqs[r])
      BY DEF FoldersInv
    <3> HIDE DEF q
    <3> QED
      BY <2>1, <2>3, <3>1 DEF RequestOK, PathOK
  <2>5. TwinsOK(q)
    BY <1>2, <2>3 DEF TwinsOK
  <2>6. reqs' = [reqs EXCEPT ![r] = q] /\ UNCHANGED <<users, folders>>
    BY <1>2 DEF CreateCheck
  <2> HIDE DEF q
  <2> QED
    BY <2>2, <2>4, <2>5, <2>6, RequestMoves
<1> QED
  BY <1>1, <1>2

LEMMA CreateSaveKeeps ==
  ASSUME FoldersInv, NEW r \in Request, CreateSave(r)
  PROVE  FoldersInv'
<1> DEFINE doc == [exists |-> TRUE, name |-> reqs[r].name,
                   parentId |-> reqs[r].parentId, createdBy |-> reqs[r].user,
                   isDeleted |-> FALSE, path |-> reqs[r].path]
<1>1. PICK f \in Folder : folders' = [folders EXCEPT ![f] = doc] /\ Wrote(r, f)
  BY DEF CreateSave
<1>2. reqs[r] \in ReqState /\ reqs[r].name \in Name
  BY DEF FoldersInv, TypeOK, RequestOK, CreateSave, At
<1>3. doc \in Document /\ doc.exists /\ doc.name \in Name
  BY <1>2 DEF Document, ReqState
<1>5. PlaceOK(doc.parentId, doc.path)
  BY DEF FoldersInv, PathOK, CreateSave, At
<1>4. UNCHANGED users
  BY DEF CreateSave
<1> HIDE DEF doc
<1> QED
  BY <1>1, <1>3, <1>4, <1>5, RequestWrites

LEMMA UpdateKeeps ==
  ASSUME FoldersInv, NEW r \in Request, NEW u \in User, NEW f \in Folder,
         NEW name \in Name, Update(r, u, f, name)
  PROVE  FoldersInv'
<1> DEFINE q == [Idle EXCEPT !.pc = "update", !.user = u, !.id = f,
                             !.name = name]
<1>1. q \in ReqState
  BY IdleIsRequest DEF ReqState, Parent
<1>2. RequestOK(q) /\ PathOK(q) /\ TwinsOK(q)
  BY DEF RequestOK, PathOK, TwinsOK, Idle, Update, Accessible, Live
<1>3. reqs' = [reqs EXCEPT ![r] = q] /\ UNCHANGED <<users, folders>>
  BY DEF Update, Start
<1> HIDE DEF q
<1> QED
  BY <1>1, <1>2, <1>3, RequestMoves

LEMMA UpdateSaveKeeps ==
  ASSUME FoldersInv, NEW r \in Request, UpdateSave(r)
  PROVE  FoldersInv'
<1> DEFINE f == reqs[r].id
           doc == [folders[f] EXCEPT !.name = reqs[r].name]
<1>1. f \in Folder /\ folders[f].exists /\ reqs[r].name \in Name
  BY DEF FoldersInv, RequestOK, UpdateSave, At
<1>2. folders[f] \in Document
  BY <1>1 DEF FoldersInv, TypeOK
<1>3. doc \in Document /\ doc.exists /\ doc.name \in Name
  BY <1>1, <1>2 DEF Document
<1>4. folders' = [folders EXCEPT ![f] = doc] /\ Wrote(r, f) /\ UNCHANGED users
  BY DEF UpdateSave
<1>5. doc.parentId = folders[f].parentId /\ doc.path = folders[f].path
  BY <1>2 DEF Document
<1>6. PlaceOK(doc.parentId, doc.path)
  <2>1. PlaceOK(folders[f].parentId, folders[f].path)
    BY <1>1 DEF FoldersInv, FolderOK
  <2> QED
    BY <1>5, <2>1
<1> HIDE DEF f, doc
<1> QED
  BY <1>1, <1>3, <1>4, <1>6, RequestWrites

LEMMA SoftDeleteKeeps ==
  ASSUME FoldersInv, NEW r \in Request, NEW u \in User, NEW f \in Folder,
         SoftDelete(r, u, f)
  PROVE  FoldersInv'
<1> DEFINE q == [Idle EXCEPT !.pc = "softDelete", !.user = u, !.id = f]
<1>1. q \in ReqState
  BY IdleIsRequest DEF ReqState, Parent
<1>2. RequestOK(q) /\ PathOK(q) /\ TwinsOK(q)
  BY DEF RequestOK, PathOK, TwinsOK, Idle, SoftDelete, Accessible, Live
<1>3. reqs' = [reqs EXCEPT ![r] = q] /\ UNCHANGED <<users, folders>>
  BY DEF SoftDelete, Start
<1> HIDE DEF q
<1> QED
  BY <1>1, <1>2, <1>3, RequestMoves

(* A deletion makes no twin.                                                 *)
LEMMA SoftDeleteSaveKeeps ==
  ASSUME FoldersInv, NEW r \in Request, SoftDeleteSave(r)
  PROVE  FoldersInv'
<1> DEFINE f == reqs[r].id
           doc == [folders[f] EXCEPT !.isDeleted = TRUE]
<1>1. f \in Folder /\ folders[f] \in Document /\ folders[f].exists
  BY DEF FoldersInv, TypeOK, RequestOK, SoftDeleteSave, At
<1>2. /\ doc \in Document
      /\ doc.exists /\ doc.isDeleted /\ doc.name = folders[f].name
      /\ doc.parentId = folders[f].parentId /\ doc.path = folders[f].path
  BY <1>1 DEF Document
<1>3. folders' = [folders EXCEPT ![f] = doc] /\ Finish(r) /\ UNCHANGED users
  BY DEF SoftDeleteSave
<1> HIDE DEF f, doc
<1>4. ASSUME NEW g \in Folder
      PROVE  folders'[g] = IF g = f THEN doc ELSE folders[g]
  BY <1>3 DEF FoldersInv, TypeOK
<1>5. ASSUME NEW s \in Request
      PROVE  reqs'[s] = IF s = r THEN Idle ELSE reqs[s]
  BY <1>3 DEF FoldersInv, TypeOK, Finish
<1>6. TypeOK'
  <2>1. folders' \in [Folder -> Document]
    BY <1>1, <1>2, <1>3 DEF FoldersInv, TypeOK
  <2>2. reqs' \in [Request -> ReqState]
    BY <1>3, IdleIsRequest DEF FoldersInv, TypeOK, Finish
  <2> QED
    BY <1>3, <2>1, <2>2 DEF FoldersInv, TypeOK
<1>10. ASSUME NEW p \in Parent, p # Null => folders[p].exists
       PROVE  p # Null => folders'[p].exists
  BY <1>2, <1>4, <1>10 DEF Parent
<1>7. ASSUME NEW g \in Folder PROVE FolderOK(g)'
  <2>1. /\ folders'[g].exists = folders[g].exists
        /\ folders'[g].name = folders[g].name
        /\ folders'[g].parentId = folders[g].parentId
        /\ folders'[g].path = folders[g].path
        /\ folders'[g].isDeleted => folders'[g].exists
    <3>1. CASE g = f
      <4>1. folders'[g] = doc
        BY <1>4, <3>1
      <4>2. folders[g].exists = TRUE /\ doc.exists = TRUE
        BY <1>1, <1>2, <3>1 DEF Document
      <4> QED
        BY <1>2, <3>1, <4>1, <4>2
    <3>2. CASE g # f
      BY <1>4, <1>7, <3>2 DEF FoldersInv, FolderOK
    <3> QED
      BY <3>1, <3>2
  <2>2. FolderOK(g) /\ folders[g].parentId \in Parent
    BY <1>7 DEF FoldersInv, TypeOK, Document
  <2> QED
    BY <1>10, <2>1, <2>2 DEF FolderOK, PlaceOK
<1>11. ASSUME NEW s \in Request PROVE PathOK(reqs[s])'
  <2>1. CASE s = r
    BY <1>5, <2>1 DEF PathOK, Idle
  <2>2. CASE s # r
    <3> DEFINE p == reqs[s].parentId
    <3>1. reqs'[s] = reqs[s] /\ PathOK(reqs[s]) /\ p \in Parent
      BY <1>5, <1>11, <2>2 DEF FoldersInv, TypeOK, ReqState
    <3>2. p # Null => /\ folders'[p].name = folders[p].name
                      /\ folders'[p].path = folders[p].path
      BY <1>2, <1>4, <3>1 DEF Parent
    <3>3. PathIn(p) = IF p = Null THEN <<>>
                      ELSE Append(folders'[p].path, folders'[p].name)
      BY <3>2 DEF PathIn
    <3> QED
      BY <1>10, <3>1, <3>3 DEF PathOK, PlaceOK, PathIn
  <2> QED
    BY <2>1, <2>2
<1>8. ASSUME NEW s \in Request PROVE RequestOK(reqs[s])'
  BY <1>2, <1>4, <1>5, <1>8 DEF FoldersInv, RequestOK, Idle
<1>9. ASSUME NEW s \in Request PROVE TwinsOK(reqs[s])'
  BY <1>2, <1>4, <1>5, <1>9 DEF FoldersInv, TwinsOK, Twins, Live, Idle
<1> QED
  BY <1>6, <1>7, <1>8, <1>9, <1>11 DEF FoldersInv

LEMMA MoveKeeps ==
  ASSUME FoldersInv, NEW r \in Request, NEW u \in User, NEW f \in Folder,
         NEW p \in Parent, NEW alike \in BOOLEAN, Move(r, u, f, p, alike)
  PROVE  FoldersInv'
<1> DEFINE q == [Idle EXCEPT !.pc = IF p = Null THEN "move" ELSE "moveParent",
                             !.user = u, !.id = f, !.parentId = p]
<1>1. q \in ReqState
  BY IdleIsRequest DEF ReqState, Parent
<1>2. RequestOK(q) /\ PathOK(q) /\ TwinsOK(q)
  BY DEF RequestOK, PathOK, PlaceOK, PathIn, TwinsOK, Idle, Move, Accessible,
         Live, Parent
<1>3. reqs' = [reqs EXCEPT ![r] = q] /\ UNCHANGED <<users, folders>>
  BY DEF Move, Start
<1> HIDE DEF q
<1> QED
  BY <1>1, <1>2, <1>3, RequestMoves

LEMMA MoveParentKeeps ==
  ASSUME FoldersInv, NEW r \in Request, MoveParent(r)
  PROVE  FoldersInv'
<1> DEFINE p == reqs[r].parentId
<1>1. CASE ~folders[p].exists
  BY <1>1, RequestEnds DEF MoveParent
<1>2. CASE folders[p].exists
  <2> DEFINE q == [reqs[r] EXCEPT !.pc = "move", !.path = PathIn(p)]
  <2>1. reqs[r] \in ReqState /\ RequestOK(reqs[r]) /\ reqs[r].pc = "moveParent"
    BY DEF FoldersInv, TypeOK, MoveParent, At
  <2>2. p \in Parent
    BY <2>1 DEF RequestOK, Parent
  <2>3. PathIn(p) \in Seq(Name) /\ PlaceOK(p, PathIn(p))
    BY <1>2, <2>2, PathInIsPath
  <2>4. /\ q \in ReqState /\ q.pc = "move" /\ q.id = reqs[r].id
        /\ q.parentId = p /\ q.path = PathIn(p)
    BY <2>1, <2>3 DEF ReqState
  <2>5. RequestOK(q) /\ PathOK(q) /\ TwinsOK(q)
    BY <2>1, <2>3, <2>4 DEF RequestOK, PathOK, TwinsOK
  <2>6. reqs' = [reqs EXCEPT ![r] = q] /\ UNCHANGED <<users, folders>>
    BY <1>2 DEF MoveParent
  <2> HIDE DEF q
  <2> QED
    BY <2>4, <2>5, <2>6, RequestMoves
<1> QED
  BY <1>1, <1>2

LEMMA MoveSaveKeeps ==
  ASSUME FoldersInv, NEW r \in Request, MoveSave(r)
  PROVE  FoldersInv'
<1> DEFINE f == reqs[r].id
           doc == [folders[f] EXCEPT !.parentId = reqs[r].parentId,
                                     !.path = reqs[r].path]
<1>1. f \in Folder /\ folders[f].exists /\ reqs[r] \in ReqState
  BY DEF FoldersInv, TypeOK, RequestOK, MoveSave, At
<1>2. folders[f] \in Document /\ folders[f].name \in Name
  BY <1>1 DEF FoldersInv, TypeOK, FolderOK
<1>3. doc \in Document /\ doc.exists /\ doc.name \in Name
  BY <1>1, <1>2 DEF Document, ReqState
<1>4. folders' = [folders EXCEPT ![f] = doc] /\ Wrote(r, f) /\ UNCHANGED users
  BY <1>1 DEF MoveSave, FoldersInv, TypeOK
<1>5. doc.parentId = reqs[r].parentId /\ doc.path = reqs[r].path
  BY <1>2 DEF Document
<1>6. PlaceOK(doc.parentId, doc.path)
  BY <1>5 DEF FoldersInv, PathOK, MoveSave, At
<1> HIDE DEF f, doc
<1> QED
  BY <1>1, <1>3, <1>4, <1>6, RequestWrites

LEMMA DeleteUserKeeps ==
  ASSUME FoldersInv, NEW u \in User, DeleteUser(u)
  PROVE  FoldersInv'
BY DEF FoldersInv, TypeOK, FolderOK, PlaceOK, RequestOK, PathOK, PathIn, TwinsOK,
       Twins, Live, DeleteUser

----------------------------------------------------------------------------

THEOREM InitInv == Init => FoldersInv
<1> SUFFICES ASSUME Init PROVE FoldersInv
  OBVIOUS
<1>1. NoFolder \in Document
  BY DEF NoFolder, Document, Parent
<1>2. TypeOK
  BY <1>1, IdleIsRequest DEF Init, TypeOK
<1>3. ASSUME NEW f \in Folder PROVE FolderOK(f)
  BY <1>3 DEF Init, FolderOK, NoFolder
<1>4. ASSUME NEW r \in Request
      PROVE  RequestOK(reqs[r]) /\ PathOK(reqs[r]) /\ TwinsOK(reqs[r])
  BY <1>4 DEF Init, RequestOK, PathOK, TwinsOK, Idle
<1> QED
  BY <1>2, <1>3, <1>4 DEF FoldersInv

THEOREM NextInv == FoldersInv /\ [Next]_vars => FoldersInv'
<1> SUFFICES ASSUME FoldersInv, [Next]_vars PROVE FoldersInv'
  OBVIOUS
<1>1. CASE UNCHANGED vars
  BY <1>1 DEF vars, FoldersInv, TypeOK, FolderOK, PlaceOK, RequestOK, PathOK,
              PathIn, TwinsOK, Twins, Live
<1>2. CASE \E r \in Request, u \in User :
             \E name \in Name, p \in Parent : Create(r, u, name, p)
  BY <1>2, CreateKeeps
<1>3. CASE \E r \in Request, u \in User, f \in Folder :
             \/ \E name \in Name : Update(r, u, f, name)
             \/ SoftDelete(r, u, f)
             \/ \E p \in Parent, alike \in BOOLEAN : Move(r, u, f, p, alike)
  BY <1>3, UpdateKeeps, SoftDeleteKeeps, MoveKeeps
<1>4. CASE \E r \in Request :
             \/ CreateCheck(r) \/ CreateSave(r) \/ UpdateSave(r)
             \/ SoftDeleteSave(r) \/ MoveParent(r) \/ MoveSave(r)
  BY <1>4, CreateCheckKeeps, CreateSaveKeeps, UpdateSaveKeeps,
     SoftDeleteSaveKeeps, MoveParentKeeps, MoveSaveKeeps
<1>5. CASE \E u \in User : DeleteUser(u)
  BY <1>5, DeleteUserKeeps
<1> QED
  BY <1>1, <1>2, <1>3, <1>4, <1>5 DEF Next

THEOREM Invariance == Spec => []FoldersInv
BY InitInv, NextInv, PTL DEF Spec

(* Every folder and every request has its type, whatever other requests      *)
(* write between the calls of one.                                           *)
THEOREM TypeCorrect == Spec => []TypeOK
<1>1. FoldersInv => TypeOK
  BY DEF FoldersInv
<1> QED
  BY <1>1, Invariance, PTL

(* A step marks folders deleted, but none that is loses the mark.            *)
LEMMA NextDeletedIsFinal ==
  ASSUME FoldersInv, [Next]_vars, NEW f \in Folder, folders[f].isDeleted
  PROVE  folders'[f].isDeleted
<1>1. /\ FolderOK(f) /\ folders \in [Folder -> Document]
      /\ \A r \in Request : RequestOK(reqs[r])
  BY DEF FoldersInv, TypeOK
<1>2. ASSUME NEW r \in Request, CreateSave(r) PROVE folders'[f].isDeleted
  BY <1>1, <1>2 DEF CreateSave, FolderOK
<1>3. ASSUME NEW r \in Request, UpdateSave(r) PROVE folders'[f].isDeleted
  BY <1>1, <1>3 DEF UpdateSave, RequestOK, At, Document
<1>4. ASSUME NEW r \in Request, SoftDeleteSave(r) PROVE folders'[f].isDeleted
  BY <1>1, <1>4 DEF SoftDeleteSave, RequestOK, At, Document
<1>5. ASSUME NEW r \in Request, MoveSave(r) PROVE folders'[f].isDeleted
  BY <1>1, <1>5 DEF MoveSave, RequestOK, At, Document
<1>6. CASE folders' = folders
  BY <1>6
<1> QED
  BY <1>2, <1>3, <1>4, <1>5, <1>6
     DEF Next, vars, Create, CreateCheck, Update, SoftDelete, Move, MoveParent,
         DeleteUser

(* An update or a move that read a folder before its deletion does not undo  *)
(* it (folders.service.ts:162, :217), for any number of requests.            *)
THEOREM DeletionStays == Spec => DeletedIsFinal
<1>1. FoldersInv /\ [Next]_vars =>
        [\A f \in Folder : folders[f].isDeleted => folders'[f].isDeleted]_vars
  BY NextDeletedIsFinal
<1> QED
  BY <1>1, Invariance, PTL DEF Spec, DeletedIsFinal

(* create inserts a second live folder of one name in one place only when    *)
(* the first came there after create had looked (folders.service.ts:69).     *)
THEOREM TwinsNeedRace == Spec => TwinNeedsRace
<1>1. FoldersInv /\ [Next]_vars =>
        [\A r \in Request :
           CreateSave(r) =>
             Twins(reqs[r].name, reqs[r].parentId) \subseteq reqs[r].missed]_vars
  BY DEF FoldersInv, TwinsOK, CreateSave, At
<1> QED
  BY <1>1, Invariance, PTL DEF Spec, TwinNeedsRace

(* A folder is at the root path exactly when it is in the root, and the      *)
(* folder it is in exists (folders.service.ts:58, :206), for any number of   *)
(* requests and paths of any length.                                         *)
THEOREM PlacesStayInStep == Spec => []PlacesAgree
<1>1. FoldersInv => PlacesAgree
  BY DEF FoldersInv, FolderOK, PlaceOK, PlacesAgree
<1> QED
  BY <1>1, Invariance, PTL

(* A step that places a folder is the save of a create or of a move.         *)
LEMMA NextPlaces ==
  ASSUME FoldersInv, [Next]_vars, NEW f \in Folder, Placed(f)' # Placed(f)
  PROVE  \E r \in Request :
           /\ CreateSave(r) \/ MoveSave(r)
           /\ folders'[f].parentId = reqs[r].parentId
           /\ folders'[f].path = reqs[r].path
<1>1. /\ folders \in [Folder -> Document]
      /\ \A r \in Request : RequestOK(reqs[r])
  BY DEF FoldersInv, TypeOK
<1>2. folders' # folders
  BY DEF Placed
<1>3. ASSUME NEW r \in Request, CreateSave(r)
      PROVE  /\ folders'[f].parentId = reqs[r].parentId
             /\ folders'[f].path = reqs[r].path
  <2>1. PICK g \in Folder :
          folders' = [folders EXCEPT ![g] =
            [exists |-> TRUE, name |-> reqs[r].name,
             parentId |-> reqs[r].parentId, createdBy |-> reqs[r].user,
             isDeleted |-> FALSE, path |-> reqs[r].path]]
    BY <1>3 DEF CreateSave
  <2>2. CASE g = f
    BY <1>1, <2>1, <2>2
  <2>3. CASE g # f
    <3>1. folders'[f] = folders[f]
      BY <1>1, <2>1, <2>3
    <3> QED
      BY <3>1 DEF Placed
  <2> QED
    BY <2>2, <2>3
<1>4. ASSUME NEW r \in Request, MoveSave(r)
      PROVE  /\ folders'[f].parentId = reqs[r].parentId
             /\ folders'[f].path = reqs[r].path
  BY <1>1, <1>4 DEF MoveSave, RequestOK, At, Document, Placed
<1>5. ASSUME NEW r \in Request, UpdateSave(r) PROVE FALSE
  BY <1>1, <1>5 DEF UpdateSave, RequestOK, At, Document, Placed
<1>6. ASSUME NEW r \in Request, SoftDeleteSave(r) PROVE FALSE
  BY <1>1, <1>6 DEF SoftDeleteSave, RequestOK, At, Document, Placed
<1> QED
  BY <1>2, <1>3, <1>4, <1>5, <1>6
     DEF Next, vars, Create, CreateCheck, Update, SoftDelete, Move, MoveParent,
         DeleteUser

(* The path a folder is given is the path of its place as it is, or of a     *)
(* parent written since it was read (folders.service.ts:79, :217), for any   *)
(* number of requests and folders.                                           *)
THEOREM PathsNeedRace == Spec => PathNeedsRace
<1> DEFINE A == \A f \in Folder :
                  Placed(f)' # Placed(f) =>
                    \/ folders'[f].path = PathIn(folders'[f].parentId)
                    \/ \E r \in Request :
                         (CreateSave(r) \/ MoveSave(r)) /\ reqs[r].stale
<1>1. ASSUME FoldersInv, [Next]_vars PROVE A
  <2> SUFFICES ASSUME NEW f \in Folder, Placed(f)' # Placed(f),
                      ~\E r \in Request :
                         (CreateSave(r) \/ MoveSave(r)) /\ reqs[r].stale
               PROVE  folders'[f].path = PathIn(folders'[f].parentId)
    OBVIOUS
  <2>1. PICK r \in Request :
          /\ CreateSave(r) \/ MoveSave(r)
          /\ folders'[f].parentId = reqs[r].parentId
          /\ folders'[f].path = reqs[r].path
    BY <1>1, NextPlaces
  <2>2. PathOK(reqs[r]) /\ reqs[r].pc \in {"create", "move"} /\ ~reqs[r].stale
    BY <1>1, <2>1 DEF FoldersInv, CreateSave, MoveSave, At
  <2> QED
    BY <2>1, <2>2 DEF PathOK
<1>2. FoldersInv /\ [Next]_vars => [A]_vars
  BY <1>1
<1> HIDE DEF A
<1>3. Spec => [][A]_vars
  BY <1>2, Invariance, PTL DEF Spec
<1> QED
  BY <1>3 DEF PathNeedsRace, A
=============================================================================
