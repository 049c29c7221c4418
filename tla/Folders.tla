------------------------------ MODULE Folders ------------------------------
(* Folders (src/folders/folders.service.ts): a tree kept as a parentId and a *)
(* path in every document.  Each operation reads, checks and later writes;   *)
(* other requests write in between.  Folders are only ever marked deleted.   *)
(*                                                                           *)
(* A path is the sequence of the names in it; "/" is the empty sequence.     *)
EXTENDS Naturals, Sequences, FiniteSets

CONSTANTS
  Request, User,
  Admin,      \* the users whose role is ADMIN or SUPERADMIN
  Folder,     \* ids of the folders collection
  Name, Null,
  MaxDepth    \* bound: names in a path

ASSUME FoldersAssumption ==
  /\ Admin \subseteq User
  /\ Null \notin User \cup Folder \cup Name
  /\ MaxDepth \in Nat

VARIABLES
  users,    \* the users that exist
  folders,  \* the folders collection
  reqs      \* the requests being served

vars == <<users, folders, reqs>>

Parent == Folder \cup {Null}

Document == [exists : BOOLEAN, name : Name \cup {Null}, parentId : Parent,
             createdBy : User \cup {Null}, isDeleted : BOOLEAN,
             path : Seq(Name)]

NoFolder == [exists |-> FALSE, name |-> Null, parentId |-> Null,
             createdBy |-> Null, isDeleted |-> FALSE, path |-> <<>>]

(* A request, and (history) the folders others have written since a create   *)
(* looked for one of its name, and whether the parent has been since its     *)
(* path was read.                                                            *)
ReqState == [pc : {"idle", "createCheck", "create", "update", "softDelete",
                   "moveParent", "move"},
             user : User \cup {Null}, id : Parent, name : Name \cup {Null},
             parentId : Parent, path : Seq(Name), missed : SUBSET Folder,
             stale : BOOLEAN]

Idle == [pc |-> "idle", user |-> Null, id |-> Null, name |-> Null,
         parentId |-> Null, path |-> <<>>, missed |-> {}, stale |-> FALSE]

TypeOK ==
  /\ users \subseteq User
  /\ folders \in [Folder -> Document]
  /\ reqs \in [Request -> ReqState]

Init ==
  /\ users = User
  /\ folders = [f \in Folder |-> NoFolder]
  /\ reqs = [r \in Request |-> Idle]

----------------------------------------------------------------------------

Live(f) == folders[f].exists /\ ~folders[f].isDeleted

(* Mutant: the path names the id of the parent.                              *)
MutPathInId(p) == IF p = Null THEN <<>> ELSE Append(folders[p].path, p)

(* The path of a folder in p.                                                *)
PathIn(p) ==
  IF p = Null THEN <<>> ELSE Append(folders[p].path, folders[p].name)

(* The live folders of that name in that place.                              *)
Twins(name, p) ==
  {f \in Folder :
     Live(f) /\ folders[f].name = name /\ folders[f].parentId = p}

(* findOne populates createdBy, and toString() of a populated field prints   *)
(* the user's document.                                                      *)
OwnerText(f) == [document |-> folders[f].createdBy]

(* findOne and verifyAccess; a creator who no longer exists is populated as  *)
(* null, and verifyAccess throws.                                            *)
Accessible(u, f) ==
  /\ Live(f)
  /\ folders[f].createdBy \in users
  /\ OwnerText(f) = u \/ u \in Admin

At(r, pc) == reqs[r].pc = pc
Start(r, q) == reqs[r] = Idle /\ reqs' = [reqs EXCEPT ![r] = q]
Finish(r) == reqs' = [reqs EXCEPT ![r] = Idle]

(* The request ends with a write of f, which a create under way misses, and  *)
(* which leaves the path of a folder placed in f behind.                     *)
Wrote(r, f) ==
  reqs' = [q \in Request |->
    IF q = r THEN Idle
    ELSE [reqs[q] EXCEPT
            !.missed = IF At(q, "create") THEN @ \cup {f} ELSE @,
            !.stale = @ \/ (reqs[q].parentId = f /\ ~At(q, "moveParent"))]]

----------------------------------------------------------------------------
(* create *)

(* Any parent that exists will do: deleted, or another user's.               *)
Create(r, u, name, p) ==
  /\ u \in users
  /\ p # Null => folders[p].exists
  /\ Len(PathIn(p)) <= MaxDepth
  /\ Start(r, [Idle EXCEPT !.pc = "createCheck", !.user = u, !.name = name,
                           !.parentId = p, !.path = PathIn(p)])
  /\ UNCHANGED <<users, folders>>

(* Mutant: only the user's own folders are looked at.                        *)
MutCreateCheckOwn(r) ==
  /\ At(r, "createCheck")
  /\ IF \E f \in Twins(reqs[r].name, reqs[r].parentId) :
          folders[f].createdBy = reqs[r].user
     THEN Finish(r)
     ELSE reqs' = [reqs EXCEPT ![r].pc = "create"]
  /\ UNCHANGED <<users, folders>>

CreateCheck(r) ==
  /\ At(r, "createCheck")
  /\ IF Twins(reqs[r].name, reqs[r].parentId) # {}
     THEN Finish(r)
     ELSE reqs' = [reqs EXCEPT ![r].pc = "create"]
  /\ UNCHANGED <<users, folders>>

CreateSave(r) ==
  /\ At(r, "create")
  /\ \E f \in Folder :
       /\ ~folders[f].exists
       /\ folders' = [folders EXCEPT ![f] =
            [exists |-> TRUE, name |-> reqs[r].name,
             parentId |-> reqs[r].parentId, createdBy |-> reqs[r].user,
             isDeleted |-> FALSE, path |-> reqs[r].path]]
       /\ Wrote(r, f)
  /\ UNCHANGED users

----------------------------------------------------------------------------
(* update, softDelete, moveFolder *)

Update(r, u, f, name) ==
  /\ u \in users
  /\ Accessible(u, f)
  /\ Start(r, [Idle EXCEPT !.pc = "update", !.user = u, !.id = f,
                           !.name = name])
  /\ UNCHANGED <<users, folders>>

UpdateSave(r) ==
  /\ At(r, "update")
  /\ folders' = [folders EXCEPT ![reqs[r].id].name = reqs[r].name]
  /\ Wrote(r, reqs[r].id)
  /\ UNCHANGED users

SoftDelete(r, u, f) ==
  /\ u \in users
  /\ Accessible(u, f)
  /\ Start(r, [Idle EXCEPT !.pc = "softDelete", !.user = u, !.id = f])
  /\ UNCHANGED <<users, folders>>

SoftDeleteSave(r) ==
  /\ At(r, "softDelete")
  /\ folders' = [folders EXCEPT ![reqs[r].id].isDeleted = TRUE]
  /\ Finish(r)
  /\ UNCHANGED users

(* Ids are compared as they are spelled, and the hex digits of one may come  *)
(* in either case: alike says that p is spelled like f where it is f.        *)
Move(r, u, f, p, alike) ==
  /\ u \in users
  /\ Accessible(u, f)
  /\ alike => p # f
  /\ Start(r, [Idle EXCEPT !.pc = IF p = Null THEN "move" ELSE "moveParent",
                           !.user = u, !.id = f, !.parentId = p])
  /\ UNCHANGED <<users, folders>>

(* Mutant: the path of the parent, without its name.                         *)
MutMoveParentNoName(r) ==
  LET p == reqs[r].parentId
  IN /\ At(r, "moveParent")
     /\ IF folders[p].exists
        THEN reqs' = [reqs EXCEPT ![r].pc = "move",
                                  ![r].path = folders[p].path]
        ELSE Finish(r)
     /\ UNCHANGED <<users, folders>>

MoveParent(r) ==
  LET p == reqs[r].parentId
  IN /\ At(r, "moveParent")
     /\ IF folders[p].exists
        THEN /\ Len(PathIn(p)) <= MaxDepth
             /\ reqs' = [reqs EXCEPT ![r].pc = "move", ![r].path = PathIn(p)]
        ELSE Finish(r)
     /\ UNCHANGED <<users, folders>>

(* Mutant: save() writes the whole document as it was read, not deleted.     *)
MutMoveSaveWhole(r) ==
  /\ At(r, "move")
  /\ folders' = [folders EXCEPT ![reqs[r].id].parentId = reqs[r].parentId,
                                ![reqs[r].id].path = reqs[r].path,
                                ![reqs[r].id].isDeleted = FALSE]
  /\ Finish(r)
  /\ UNCHANGED users

(* Mutant: the path is left alone by a move to the root.                     *)
MutMoveSaveKeepsPath(r) ==
  /\ At(r, "move")
  /\ folders' = [folders EXCEPT
       ![reqs[r].id].parentId = reqs[r].parentId,
       ![reqs[r].id].path = IF reqs[r].parentId = Null THEN @ ELSE reqs[r].path]
  /\ Wrote(r, reqs[r].id)
  /\ UNCHANGED users

MoveSave(r) ==
  /\ At(r, "move")
  /\ folders' = [folders EXCEPT ![reqs[r].id].parentId = reqs[r].parentId,
                                ![reqs[r].id].path = reqs[r].path]
  /\ Wrote(r, reqs[r].id)
  /\ UNCHANGED users

(* UsersService.deleteUser *)
DeleteUser(u) ==
  /\ users' = users \ {u}
  /\ u \in users
  /\ UNCHANGED <<folders, reqs>>

Next ==
  \/ \E r \in Request, u \in User :
       \/ \E name \in Name, p \in Parent : Create(r, u, name, p)
       \/ \E f \in Folder :
            \/ \E name \in Name : Update(r, u, f, name)
            \/ SoftDelete(r, u, f)
            \/ \E p \in Parent, alike \in BOOLEAN : Move(r, u, f, p, alike)
  \/ \E r \in Request :
       \/ CreateCheck(r) \/ CreateSave(r) \/ UpdateSave(r)
       \/ SoftDeleteSave(r) \/ MoveParent(r) \/ MoveSave(r)
  \/ \E u \in User : DeleteUser(u)

Spec == Init /\ [][Next]_vars

----------------------------------------------------------------------------
(* The ancestors of a folder are all listed, up to one in the root: whatever *)
(* contains the folder and the listed parents of what it contains, contains  *)
(* one in the root.                                                          *)
ReachesRoot(L, f) ==
  \A S \in SUBSET L :
    /\ f \in S
    /\ \A g \in S : folders[g].parentId \in L => folders[g].parentId \in S
    => \E g \in S : folders[g].parentId = Null

----------------------------------------------------------------------------
(* Properties *)

(* An update or a move that read the folder before it was deleted does not   *)
(* bring it back.                                                            *)
DeletedIsFinal ==
  [][\A f \in Folder : folders[f].isDeleted => folders'[f].isDeleted]_vars

(* folders.service.ts:76 "Folder already exists in this location": create    *)
(* makes a second live folder of one name in one place only when the first   *)
(* was created, renamed or moved there after create had looked.              *)
TwinNeedsRace ==
  [][\A r \in Request :
       CreateSave(r) =>
         Twins(reqs[r].name, reqs[r].parentId) \subseteq reqs[r].missed]_vars

(* A folder has the path of the root exactly when it is in the root, and the *)
(* folder it is in exists, whatever was moved or renamed before it.          *)
PlacesAgree ==
  \A f \in Folder :
    folders[f].exists =>
      /\ folders[f].path = <<>> <=> folders[f].parentId = Null
      /\ folders[f].parentId # Null => folders[folders[f].parentId].exists

Placed(f) == <<folders[f].exists, folders[f].parentId, folders[f].path>>

(* A folder that is created or moved is given the path its new place has at  *)
(* that moment, unless the parent was written after the request had read it. *)
(* (Later the parent may be renamed or moved: then the path is out of date.) *)
PathNeedsRace ==
  [][\A f \in Folder :
       Placed(f)' # Placed(f) =>
         \/ folders'[f].path = PathIn(folders'[f].parentId)
         \/ \E r \in Request :
              (CreateSave(r) \/ MoveSave(r)) /\ reqs[r].stale]_vars

(* folders.service.ts:200 "Cannot move folder into itself": no folder is     *)
(* inside itself.  Refuted: it may be moved into a folder inside it, and     *)
(* into itself when its id is spelled otherwise.                             *)
NoFolderInsideItself ==
  \A f \in Folder :
    folders[f].exists =>
      LET All == {g \in Folder : folders[g].exists} IN ReachesRoot(All, f)
=============================================================================
