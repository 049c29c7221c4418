----------------------------- MODULE UserAdmin -----------------------------
(* Who creates, changes and deletes which accounts: the handlers of          *)
(* src/users/users.controller.ts behind the role guard, the operations of    *)
(* src/users/users.service.ts they call, and the seed (src/seed.ts).  Every  *)
(* handler reads and checks before it writes; another one may write in       *)
(* between, also to the account of the one who asks.                         *)
(*                                                                           *)
(* Sessions has the passwords and tokens of the same accounts.  A request    *)
(* refused by a guard or by the first check is not a step.  A field of a dto *)
(* is absent (Null) or has a value that the validation lets through.         *)
EXTENDS Naturals, FiniteSets

CONSTANTS
  Request,
  User,        \* ids of the users collection; an id is never used again
  Email,
  SeedEmail,   \* SUPERADMIN_EMAIL
  Null         \* a field that is not in the dto

ASSUME UserAdminAssumption ==
  /\ SeedEmail \in Email
  /\ Null \notin User \cup Email
  /\ Null \notin BOOLEAN
  /\ Null \notin {"superadmin", "admin", "user"}

VARIABLES
  users,   \* the users collection
  reqs,    \* the requests being served
  seed     \* the seed script, run by hand and one at a time

vars == <<users, reqs, seed>>

Role == {"superadmin", "admin", "user"}

(* The roles a dto may ask for: service and controller refuse "superadmin".  *)
Assignable == {"admin", "user"}

NoAccount == [status |-> "none", role |-> Null, email |-> Null,
              isActive |-> FALSE]
Gone == [NoAccount EXCEPT !.status = "deleted"]

Account == {NoAccount, Gone}
  \cup [status : {"stored"}, role : Role, email : Email, isActive : BOOLEAN]

(* A request: the role of its user as the guard read it, the account the id  *)
(* in the route is of, and the fields of the dto.                            *)
ReqState == [pc : {"idle", "createCheck", "create", "updateFind",
                   "updateEmail", "update", "toggleFind", "toggle",
                   "deleteFind", "delete"},
             actorRole : Role \cup {Null}, id : User \cup {Null},
             email : Email \cup {Null}, role : Assignable \cup {Null},
             isActive : BOOLEAN \cup {Null}]

Idle == [pc |-> "idle", actorRole |-> Null, id |-> Null,
         email |-> Null, role |-> Null, isActive |-> Null]

TypeOK ==
  /\ users \in [User -> Account]
  /\ reqs \in [Request -> ReqState]
  /\ seed \in {"idle", "create"}

Init ==
  /\ users = [u \in User |-> NoAccount]
  /\ reqs = [r \in Request |-> Idle]
  /\ seed = "idle"

----------------------------------------------------------------------------

Stored(u) == users[u].status = "stored"

Superadmin(u) == Stored(u) /\ users[u].role = "superadmin"

(* The unique index on email, and the queries that look before they write.   *)
Taken(email, except) ==
  \E u \in User \ except : Stored(u) /\ users[u].email = email

At(r, pc) == reqs[r].pc = pc
Goto(r, pc) == reqs' = [reqs EXCEPT ![r].pc = pc]
Finish(r) == reqs' = [reqs EXCEPT ![r] = Idle]

(* The guards let actor a through, and the handler begins.                   *)
Start(r, a, roles, q) ==
  /\ Stored(a) /\ users[a].isActive
  /\ users[a].role \in roles
  /\ reqs' = [reqs EXCEPT ![r] = [q EXCEPT !.actorRole = users[a].role]]
  /\ UNCHANGED <<users, seed>>

Managers == {"superadmin", "admin"}

----------------------------------------------------------------------------
(* create *)

Create(r, a, email, role) ==
  /\ role = "admin" => users[a].role = "superadmin"
  /\ Start(r, a, Managers, [Idle EXCEPT !.pc = "createCheck", !.email = email,
                                        !.role = role])

CreateCheck(r) ==
  /\ At(r, "createCheck")
  /\ IF Taken(reqs[r].email, {}) THEN Finish(r) ELSE Goto(r, "create")
  /\ UNCHANGED <<users, seed>>

(* Mutant: no unique index, the check above is all there is.                 *)
MutCreateSaveUnchecked(r) ==
  /\ At(r, "create")
  /\ \E u \in User :
       /\ users[u].status = "none"
       /\ users' = [users EXCEPT ![u] =
            [status |-> "stored", role |-> reqs[r].role,
             email |-> reqs[r].email, isActive |-> TRUE]]
  /\ Finish(r)
  /\ UNCHANGED seed

(* The password has been hashed in between: the index may refuse the insert. *)
CreateSave(r) ==
  /\ At(r, "create")
  /\ IF Taken(reqs[r].email, {})
     THEN UNCHANGED users
     ELSE \E u \in User :
            /\ users[u].status = "none"
            /\ users' = [users EXCEPT ![u] =
                 [status |-> "stored", role |-> reqs[r].role,
                  email |-> reqs[r].email, isActive |-> TRUE]]
  /\ Finish(r)
  /\ UNCHANGED seed

----------------------------------------------------------------------------
(* update *)

(* PATCH users/:id.  The checks against acting on oneself compare the text   *)
(* of the id in the route with that of the guard's account; the queries take *)
(* its digits in either case.  ownText: the two texts are the same.          *)
Update(r, a, u, ownText, email, role, isActive) ==
  /\ role # Null => ~ownText
  /\ Start(r, a, Managers,
           [Idle EXCEPT !.pc = "updateFind", !.id = u, !.email = email,
                        !.role = role, !.isActive = isActive])

(* Mutant: the dto of PATCH users/me is passed on whole.                     *)
MutUpdateMeWhole(r, a, email) ==
  \E role \in Assignable \cup {Null} :
    Start(r, a, Role, [Idle EXCEPT !.pc = "updateFind", !.id = a,
                                   !.email = email, !.role = role])

(* PATCH users/me, for everybody: role and isActive are dropped.             *)
UpdateMe(r, a, email) ==
  Start(r, a, Role, [Idle EXCEPT !.pc = "updateFind", !.id = a,
                                 !.email = email])

(* Mutant: an admin assigns a role to anybody.                               *)
MutUpdateFindAnyRole(r) ==
  /\ At(r, "updateFind")
  /\ IF ~Stored(reqs[r].id)
     THEN Finish(r)
     ELSE Goto(r, IF reqs[r].email = Null THEN "update" ELSE "updateEmail")
  /\ UNCHANGED <<users, seed>>

(* The account is read; an admin assigns no role to one that is an admin or  *)
(* the superadmin now.  (The check comes after the query for the e-mail      *)
(* address, on the account read here.)                                       *)
UpdateFind(r) ==
  LET u == reqs[r].id
  IN /\ At(r, "updateFind")
     /\ IF \/ ~Stored(u)
           \/ /\ reqs[r].role # Null
              /\ reqs[r].actorRole = "admin"
              /\ users[u].role \in Managers
        THEN Finish(r)
        ELSE Goto(r, IF reqs[r].email = Null THEN "update" ELSE "updateEmail")
     /\ UNCHANGED <<users, seed>>

UpdateEmail(r) ==
  /\ At(r, "updateEmail")
  /\ IF Taken(reqs[r].email, {reqs[r].id}) THEN Finish(r)
                                           ELSE Goto(r, "update")
  /\ UNCHANGED <<users, seed>>

(* Mutant: a field that is not in the dto is written as undefined.           *)
MutOrUndefined(new, old) == new

Or(new, old) == IF new = Null THEN old ELSE new

(* Mutant: no unique index, the query above is all there is.                 *)
MutUpdateSaveUnchecked(r) ==
  LET u == reqs[r].id
  IN /\ At(r, "update")
     /\ users' = IF ~Stored(u)
                 THEN users
                 ELSE [users EXCEPT
                         ![u].email = Or(reqs[r].email, @),
                         ![u].role = Or(reqs[r].role, @),
                         ![u].isActive = Or(reqs[r].isActive, @)]
     /\ Finish(r)
     /\ UNCHANGED seed

(* findByIdAndUpdate: does nothing to an account deleted meanwhile, and      *)
(* fails when the e-mail address has been taken meanwhile.                   *)
UpdateSave(r) ==
  LET u == reqs[r].id
  IN /\ At(r, "update")
     /\ IF ~Stored(u) \/ Taken(reqs[r].email, {u})
        THEN UNCHANGED users
        ELSE users' = [users EXCEPT
               ![u].email = Or(reqs[r].email, @),
               ![u].role = Or(reqs[r].role, @),
               ![u].isActive = Or(reqs[r].isActive, @)]
     /\ Finish(r)
     /\ UNCHANGED seed

----------------------------------------------------------------------------
(* activate, deactivate: of anybody, but not oneself by deactivate.          *)

Toggle(r, a, u, ownText, isActive) ==
  /\ ~isActive => ~ownText
  /\ Start(r, a, Managers, [Idle EXCEPT !.pc = "toggleFind", !.id = u,
                                        !.isActive = isActive])

ToggleFind(r) ==
  LET u == reqs[r].id
  IN /\ At(r, "toggleFind")
     /\ IF Stored(u) /\ users[u].isActive # reqs[r].isActive
        THEN Goto(r, "toggle") ELSE Finish(r)
     /\ UNCHANGED <<users, seed>>

(* Mutant: the document is inserted again if it has been deleted.            *)
MutToggleSaveInserts(r) ==
  /\ At(r, "toggle")
  /\ users' = [users EXCEPT ![reqs[r].id].isActive = reqs[r].isActive,
                            ![reqs[r].id].status = "stored"]
  /\ Finish(r)
  /\ UNCHANGED seed

(* save() throws when the document is not there any more.                    *)
ToggleSave(r) ==
  LET u == reqs[r].id
  IN /\ At(r, "toggle")
     /\ users' = IF Stored(u)
                 THEN [users EXCEPT ![u].isActive = reqs[r].isActive]
                 ELSE users
     /\ Finish(r)
     /\ UNCHANGED seed

----------------------------------------------------------------------------
(* deleteUser *)

Delete(r, a, u, ownText) ==
  /\ ~ownText
  /\ Start(r, a, {"superadmin"}, [Idle EXCEPT !.pc = "deleteFind", !.id = u])

DeleteFind(r) ==
  LET u == reqs[r].id
  IN /\ At(r, "deleteFind")
     /\ IF Stored(u) /\ ~Superadmin(u) THEN Goto(r, "delete") ELSE Finish(r)
     /\ UNCHANGED <<users, seed>>

DeleteSave(r) ==
  LET u == reqs[r].id
  IN /\ At(r, "delete")
     /\ users' = IF Stored(u)
                 THEN [users EXCEPT ![u] = Gone]
                 ELSE users
     /\ Finish(r)
     /\ UNCHANGED seed

----------------------------------------------------------------------------
(* The seed: look for a superadmin, hash, create one.                        *)

(* Mutant: the seed does not look first.                                     *)
MutSeedFindBlind ==
  /\ seed = "idle"
  /\ seed' = "create"
  /\ UNCHANGED <<users, reqs>>

SeedFind ==
  /\ seed = "idle"
  /\ \A u \in User : ~Superadmin(u)
  /\ seed' = "create"
  /\ UNCHANGED <<users, reqs>>

SeedCreate ==
  /\ seed = "create"
  /\ IF Taken(SeedEmail, {})
     THEN UNCHANGED users
     ELSE \E u \in User :
            /\ users[u].status = "none"
            /\ users' = [users EXCEPT ![u] =
                 [status |-> "stored", role |-> "superadmin",
                  email |-> SeedEmail, isActive |-> TRUE]]
  /\ seed' = "idle"
  /\ UNCHANGED reqs

----------------------------------------------------------------------------

Arrive(r) ==
  /\ reqs[r] = Idle
  /\ \E a \in User :
       \/ \E email \in Email :
            \/ \E role \in Assignable : Create(r, a, email, role)
            \/ UpdateMe(r, a, email)
       \/ \E u \in User, ownText \in BOOLEAN :
            /\ ownText => u = a
            /\ \/ \E email \in Email \cup {Null},
                     role \in Assignable \cup {Null},
                     isActive \in BOOLEAN \cup {Null} :
                    Update(r, a, u, ownText, email, role, isActive)
               \/ \E isActive \in BOOLEAN : Toggle(r, a, u, ownText, isActive)
               \/ Delete(r, a, u, ownText)

Step(r) ==
  \/ CreateCheck(r) \/ CreateSave(r)
  \/ UpdateFind(r) \/ UpdateEmail(r) \/ UpdateSave(r)
  \/ ToggleFind(r) \/ ToggleSave(r)
  \/ DeleteFind(r) \/ DeleteSave(r)

(* The server restarts: requests in flight stop where they are.              *)
Restart ==
  /\ \E r \in Request : reqs[r] # Idle
  /\ reqs' = [r \in Request |-> Idle]
  /\ UNCHANGED <<users, seed>>

Next ==
  \/ \E r \in Request : Arrive(r) \/ Step(r)
  \/ SeedFind \/ SeedCreate
  \/ Restart

Spec == Init /\ [][Next]_vars

----------------------------------------------------------------------------
(* Properties *)

(* seed.ts:106 "SUPERADMIN already exists": at most one account is the       *)
(* superadmin, though the seed looks for one long before it creates one and  *)
(* accounts are created and changed in between.                              *)
OneSuperadmin ==
  \A u, v \in User : Superadmin(u) /\ Superadmin(v) => u = v

(* users.service.ts:386 "Cannot delete SUPERADMIN", :226 "Insufficient       *)
(* permission": the superadmin is never deleted, and never demoted by a      *)
(* request that was let in as an admin's, though the role that is checked is *)
(* the one read earlier.  A request let in as the superadmin's does demote   *)
(* him: his own, under another spelling of his id than the two checks for    *)
(* "your own role" compare.                                                  *)
OnlySuperadminDemotes ==
  [][\A u \in User :
       (Superadmin(u) /\ ~Superadmin(u)') =>
         /\ Stored(u)'
         /\ \E r \in Request :
              /\ UpdateSave(r)
              /\ reqs[r].id = u /\ reqs[r].actorRole = "superadmin"]_vars

(* user.schema.ts:35: two accounts never share an e-mail address, though     *)
(* create, update and the seed look long before they write; login takes the  *)
(* one account that findOne returns for it.                                  *)
EmailsAreUnique ==
  \A u, v \in User :
    (Stored(u) /\ Stored(v) /\ users[u].email = users[v].email) => u = v

(* users.controller.ts:41 "Excludes role and isActive so users can't         *)
(* escalate": whatever the requests of others do meanwhile, the request that *)
(* changes an account's role is an update, and the one that changes its      *)
(* activity an update or a toggle, about that account, asking for just that, *)
(* that the guard let in as a manager's.                                     *)
GrantedByManager ==
  [][\A u \in User :
       LET changes(f) == Stored(u) /\ Stored(u)' /\ users'[u][f] # users[u][f]
           by(r) == reqs[r].id = u /\ reqs[r].actorRole \in Managers
       IN /\ changes("role") =>
               \E r \in Request :
                 UpdateSave(r) /\ by(r) /\ users'[u].role = reqs[r].role
          /\ changes("isActive") =>
               \E r \in Request :
                 /\ UpdateSave(r) \/ ToggleSave(r)
                 /\ by(r) /\ users'[u].isActive = reqs[r].isActive]_vars

(* A request that read an account before it was deleted does not bring it    *)
(* back.                                                                     *)
DeletedAccountIsFinal ==
  [][\A u \in User :
       users[u].status = "deleted" => users'[u].status = "deleted"]_vars

(* The collection as others see it.                                          *)
Registry == [u \in User |->
  [status |-> users[u].status,
   email |-> IF Stored(u) THEN users[u].email ELSE Null,
   role |-> IF Stored(u) THEN users[u].role ELSE Null]]

Acc == INSTANCE Accounts WITH accounts <- Registry, Root <- "superadmin"

(* Every write of every handler, and of the seed, is a registration, change  *)
(* or deletion that Accounts allows, or invisible.                           *)
ImplementsAccounts == Acc!AccountsSpec
=============================================================================
