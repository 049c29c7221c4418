-------------------------- MODULE UserAdminProofs --------------------------
(* Theorems about UserAdmin, for any number of requests, accounts and        *)
(* addresses.                                                                *)
(*                                                                           *)
(* That nobody but the superadmin demotes the superadmin is not inductive:   *)
(* the roles that update and deleteUser look at are those of an account read *)
(* earlier.  What holds in between (ReqOK) is that the target of an admin's  *)
(* change of role, or of a deletion, is not the superadmin and, since it has *)
(* existed, cannot become one.                                               *)
EXTENDS UserAdmin, TLAPS

ReqOK(r) ==
  /\ (/\ At(r, "updateEmail") \/ At(r, "update")
      /\ reqs[r].role # Null /\ reqs[r].actorRole = "admin") =>
       users[reqs[r].id].status # "none" /\ ~Superadmin(reqs[r].id)
  /\ At(r, "delete") =>
       users[reqs[r].id].status # "none" /\ ~Superadmin(reqs[r].id)

(* Requests that are about an account name one; (de)activation has a value,  *)
(* and a new account an address and a role.                                  *)
IdOK(r) ==
  /\ reqs[r].pc \in {"updateFind", "updateEmail", "update", "toggleFind",
                     "toggle", "deleteFind", "delete"} => reqs[r].id \in User
  /\ reqs[r].pc \in {"toggleFind", "toggle"} => reqs[r].isActive \in BOOLEAN
  /\ reqs[r].pc \in {"createCheck", "create"} =>
       reqs[r].email \in Email /\ reqs[r].role \in Assignable

ReqsOK == \A r \in Request : ReqOK(r) /\ IdOK(r)

(* While the seed hashes, nobody else makes a superadmin.                    *)
SeedOK == seed = "create" => \A u \in User : ~Superadmin(u)

UserAdminInv == TypeOK /\ OneSuperadmin /\ EmailsAreUnique /\ ReqsOK /\ SeedOK

----------------------------------------------------------------------------
(* What a step does to the collection.                                       *)

Present == [status : {"stored"}, role : Role, email : Email,
            isActive : BOOLEAN]

(* An account that is stored has a role and an address.                      *)
LEMMA StoredIsPresent ==
  ASSUME NEW acc \in Account, acc.status = "stored"
  PROVE  acc \in Present
BY DEF Account, NoAccount, Gone, Present

(* A stored account is an account.                                           *)
LEMMA PresentIsAccount == Present \subseteq Account
BY DEF Account, Present

(* An account that was never there is stored, with an address nobody has.    *)
Inserts(u, acc) ==
  /\ users[u].status = "none"
  /\ acc.status = "stored"
  /\ acc.role = "superadmin" => seed = "create" /\ seed' = "idle"
  /\ ~Taken(acc.email, {})
  /\ users' = [users EXCEPT ![u] = acc]

(* An account is changed or deleted: it does not become the superadmin, and  *)
(* the superadmin is not deleted.                                            *)
Rewrites(u, acc) ==
  /\ Stored(u)
  /\ acc.status \in {"stored", "deleted"}
  /\ (acc.status = "stored" /\ acc.role = "superadmin") => Superadmin(u)
  /\ acc.status = "deleted" => ~Superadmin(u)
  /\ acc.status = "stored" => ~Taken(acc.email, {u})
  /\ users' = [users EXCEPT ![u] = acc]

Writes ==
  \/ UNCHANGED users
  \/ \E u \in User, acc \in Account : Inserts(u, acc) \/ Rewrites(u, acc)

(* The insert of create has a role below superadmin.                         *)
LEMMA CreateSaveWrites ==
  ASSUME UserAdminInv, NEW r \in Request, CreateSave(r)
  PROVE  Writes
<1>1. CASE UNCHANGED users
  BY <1>1 DEF Writes
<1>2. CASE ~Taken(reqs[r].email, {}) /\ users' # users
  <2> DEFINE acc == [status |-> "stored", role |-> reqs[r].role,
                     email |-> reqs[r].email, isActive |-> TRUE]
  <2>1. PICK u \in User : /\ users[u].status = "none"
                          /\ users' = [users EXCEPT ![u] = acc]
    BY <1>2 DEF CreateSave
  <2>3. reqs[r].role \in Assignable /\ reqs[r].email \in Email
    BY DEF UserAdminInv, ReqsOK, IdOK, CreateSave, At
  <2>4. acc \in Account
    BY <2>3, PresentIsAccount DEF Present, Role, Assignable
  <2>5. acc.role # "superadmin"
    BY <2>3, UserAdminAssumption DEF Assignable
  <2>6. Inserts(u, acc)
    BY <1>2, <2>1, <2>5 DEF Inserts
  <2> QED
    BY <2>4, <2>6 DEF Writes
<1> QED
  BY <1>1, <1>2 DEF CreateSave

(* The seed inserts the superadmin.                                          *)
LEMMA SeedCreateWrites ==
  ASSUME UserAdminInv, SeedCreate
  PROVE  Writes
<1>1. CASE UNCHANGED users
  BY <1>1 DEF Writes
<1>2. CASE ~Taken(SeedEmail, {}) /\ users' # users
  <2> DEFINE acc == [status |-> "stored", role |-> "superadmin",
                     email |-> SeedEmail, isActive |-> TRUE]
  <2>1. PICK u \in User : /\ users[u].status = "none"
                          /\ users' = [users EXCEPT ![u] = acc]
    BY <1>2 DEF SeedCreate
  <2>2. acc \in Account
    BY UserAdminAssumption, PresentIsAccount DEF Present, Role
  <2>3. Inserts(u, acc)
    BY <1>2, <2>1 DEF Inserts, SeedCreate
  <2> QED
    BY <2>2, <2>3 DEF Writes
<1> QED
  BY <1>1, <1>2 DEF SeedCreate

(* update writes no role superadmin, and an address nobody else has.         *)
LEMMA UpdateSaveWrites ==
  ASSUME UserAdminInv, NEW r \in Request, UpdateSave(r)
  PROVE  Writes
<1> DEFINE u == reqs[r].id
           acc == [users[u] EXCEPT !.email = Or(reqs[r].email, @),
                                   !.role = Or(reqs[r].role, @),
                                   !.isActive = Or(reqs[r].isActive, @)]
<1>1. CASE UNCHANGED users
  BY <1>1 DEF Writes
<1>2. CASE Stored(u) /\ ~Taken(reqs[r].email, {u}) /\ users' # users
  <2>1. reqs[r] \in ReqState /\ At(r, "update") /\ ReqOK(r) /\ IdOK(r)
    BY DEF UserAdminInv, TypeOK, UpdateSave, ReqsOK
  <2>2. u \in User
    BY <2>1 DEF IdOK, At
  <2>3. users[u] \in Account /\ users \in [User -> Account]
    BY <2>2 DEF UserAdminInv, TypeOK
  <2>4. users' = [users EXCEPT ![u] = acc]
    BY <1>2, <2>3 DEF UpdateSave
  <2>5. /\ reqs[r].role \in Assignable \cup {Null}
        /\ reqs[r].email \in Email \cup {Null}
        /\ reqs[r].isActive \in BOOLEAN \cup {Null}
    BY <2>1 DEF ReqState
  <2>6. users[u] \in Present
    BY <1>2, <2>3, StoredIsPresent DEF Stored
  <2>7. /\ Or(reqs[r].role, users[u].role) \in Role
        /\ Or(reqs[r].email, users[u].email) \in Email
    BY <2>5, <2>6 DEF Or, Role, Assignable, Present
  <2>8. Or(reqs[r].isActive, users[u].isActive) \in BOOLEAN
    <3>1. users[u].isActive \in BOOLEAN
      BY <2>6 DEF Present
    <3> QED
      BY <2>5, <3>1, Zenon DEF Or
  <2>9. /\ acc.status = "stored"
        /\ acc.role = Or(reqs[r].role, users[u].role)
        /\ acc.email = Or(reqs[r].email, users[u].email)
    BY <2>6 DEF Present
  <2>10. acc \in Account
    BY <2>6, <2>7, <2>8, PresentIsAccount DEF Present
  <2>11. acc.role = "superadmin" => Superadmin(u)
    <3>1. CASE reqs[r].role = Null
      BY <1>2, <2>9, <3>1 DEF Or, Superadmin
    <3>2. CASE reqs[r].role # Null
      BY <2>5, <2>9, <3>2 DEF Or, Assignable
    <3> QED
      BY <3>1, <3>2
  <2>12. ~Taken(acc.email, {u})
    <3>1. CASE reqs[r].email = Null
      BY <1>2, <2>2, <2>9, <3>1 DEF Or, Taken, UserAdminInv, EmailsAreUnique
    <3>2. CASE reqs[r].email # Null
      BY <1>2, <2>9, <3>2 DEF Or
    <3> QED
      BY <3>1, <3>2
  <2>13. Rewrites(u, acc)
    <3> HIDE DEF acc, u
    <3> QED
      BY <1>2, <2>4, <2>9, <2>11, <2>12 DEF Rewrites
  <2> QED
    <3> HIDE DEF acc, u
    <3> QED
      BY <2>2, <2>10, <2>13 DEF Writes
<1> QED
  BY <1>1, <1>2 DEF UpdateSave

(* (De)activation leaves role and address alone.                             *)
LEMMA ToggleSaveWrites ==
  ASSUME UserAdminInv, NEW r \in Request, ToggleSave(r)
  PROVE  Writes
<1> DEFINE u == reqs[r].id
           acc == [users[u] EXCEPT !.isActive = reqs[r].isActive]
<1>1. CASE ~Stored(u)
  BY <1>1 DEF Writes, ToggleSave
<1>2. CASE Stored(u)
  <2>1. u \in User
    BY DEF UserAdminInv, ToggleSave, ReqsOK, IdOK, At
  <2>2. users[u] \in Account /\ users \in [User -> Account]
    BY <2>1 DEF UserAdminInv, TypeOK
  <2>3. users' = [users EXCEPT ![u] = acc]
    BY <1>2, <2>2 DEF ToggleSave
  <2>4. acc \in Account
    <3>1. reqs[r].isActive \in BOOLEAN
      BY DEF UserAdminInv, ToggleSave, ReqsOK, IdOK, At
    <3>2. users[u] \in Present
      BY <1>2, <2>2, StoredIsPresent DEF Stored
    <3> QED
      BY <3>1, <3>2, PresentIsAccount DEF Present
  <2>5. /\ acc.status = users[u].status /\ acc.role = users[u].role
        /\ acc.email = users[u].email
    BY <1>2, <2>2, StoredIsPresent DEF Stored, Present
  <2>6. ~Taken(acc.email, {u})
    BY <1>2, <2>1, <2>5 DEF Taken, UserAdminInv, EmailsAreUnique
  <2>7. Rewrites(u, acc)
    <3> HIDE DEF acc, u
    <3> QED
      BY <1>2, <2>3, <2>5, <2>6 DEF Rewrites, Superadmin, Stored
  <2> QED
    <3> HIDE DEF acc, u
    <3> QED
      BY <2>1, <2>4, <2>7 DEF Writes
<1> QED
  BY <1>1, <1>2

(* The account deleteUser deletes is not the superadmin.                     *)
LEMMA DeleteSaveWrites ==
  ASSUME UserAdminInv, NEW r \in Request, DeleteSave(r)
  PROVE  Writes
<1> DEFINE u == reqs[r].id
           acc == Gone
<1>1. CASE ~Stored(u)
  BY <1>1 DEF Writes, DeleteSave
<1>2. CASE Stored(u)
  <2>1. u \in User /\ ~Superadmin(u)
    BY DEF UserAdminInv, DeleteSave, ReqsOK, ReqOK, IdOK, At
  <2>2. users' = [users EXCEPT ![u] = acc]
    BY <1>2 DEF DeleteSave
  <2>3. acc \in Account /\ acc.status = "deleted"
    BY DEF Account, NoAccount, Gone
  <2>4. Rewrites(u, acc)
    <3> HIDE DEF acc, u
    <3> QED
      BY <1>2, <2>1, <2>2, <2>3 DEF Rewrites
  <2> QED
    <3> HIDE DEF acc, u
    <3> QED
      BY <2>1, <2>3, <2>4 DEF Writes
<1> QED
  BY <1>1, <1>2

(* A request that arrives writes nothing.                                    *)
LEMMA ArriveKeeps ==
  ASSUME NEW r \in Request, Arrive(r)
  PROVE  UNCHANGED <<users, seed>>
<1>1. PICK a \in User : \E roles, q : Start(r, a, roles, q)
  BY DEF Arrive, Create, Update, UpdateMe, Toggle, Delete
<1> QED
  BY <1>1 DEF Start

(* Every step writes to the collection in one of these ways, or not at all.  *)
LEMMA StepWrites ==
  ASSUME UserAdminInv, [Next]_vars
  PROVE  Writes
<1>1. CASE UNCHANGED users
  BY <1>1 DEF Writes
<1>2. ASSUME NEW r \in Request, Arrive(r) PROVE Writes
  BY <1>1, <1>2, ArriveKeeps
<1>3. ASSUME NEW r \in Request, Step(r) PROVE Writes
  BY <1>1, <1>3, CreateSaveWrites, UpdateSaveWrites, ToggleSaveWrites,
     DeleteSaveWrites
     DEF Step, CreateCheck, UpdateFind, UpdateEmail, ToggleFind, DeleteFind
<1> QED
  BY <1>1, <1>2, <1>3, SeedCreateWrites DEF Next, SeedFind, Restart, vars

(* What follows for every account from the shape of the write.               *)
LEMMA WritesKeep ==
  ASSUME UserAdminInv, Writes
  PROVE  /\ users' \in [User -> Account]
         /\ EmailsAreUnique'
         /\ \A u \in User :
              /\ Superadmin(u) => Stored(u)'
              /\ users[u].status = "deleted" => users'[u].status = "deleted"
              /\ users[u].status # "none" => users'[u].status # "none"
              /\ (Superadmin(u)' /\ ~Superadmin(u)) =>
                   /\ users[u].status = "none"
                   /\ seed = "create" /\ seed' = "idle"
                   /\ \A v \in User \ {u} : users'[v] = users[v]
<1>1. CASE UNCHANGED users
  BY <1>1 DEF UserAdminInv, TypeOK, EmailsAreUnique, Superadmin, Stored
<1>2. ASSUME NEW u \in User, NEW acc \in Account,
             Inserts(u, acc) \/ Rewrites(u, acc)
      PROVE  /\ users' \in [User -> Account]
             /\ users'[u] = acc
             /\ \A v \in User \ {u} : users'[v] = users[v]
  BY <1>2 DEF UserAdminInv, TypeOK, Inserts, Rewrites
<1>3. CASE \E u \in User, acc \in Account : Inserts(u, acc)
  <2>1. PICK u \in User, acc \in Account : Inserts(u, acc)
    BY <1>3
  <2>2. /\ users' \in [User -> Account]
        /\ users'[u] = acc
        /\ \A v \in User \ {u} : users'[v] = users[v]
    BY <1>2, <2>1
  <2>3. EmailsAreUnique'
    BY <2>1, <2>2 DEF UserAdminInv, EmailsAreUnique, Inserts, Taken, Stored
  <2> QED
    BY <2>1, <2>2, <2>3 DEF Inserts, Superadmin, Stored
<1>4. CASE \E u \in User, acc \in Account : Rewrites(u, acc)
  <2>1. PICK u \in User, acc \in Account : Rewrites(u, acc)
    BY <1>4
  <2>2. /\ users' \in [User -> Account]
        /\ users'[u] = acc
        /\ \A v \in User \ {u} : users'[v] = users[v]
    BY <1>2, <2>1
  <2>3. EmailsAreUnique'
    BY <2>1, <2>2 DEF UserAdminInv, EmailsAreUnique, Rewrites, Taken, Stored
  <2> QED
    BY <2>1, <2>2, <2>3 DEF Rewrites, Superadmin, Stored
<1> QED
  BY <1>1, <1>3, <1>4 DEF Writes

----------------------------------------------------------------------------
(* What a step does to the requests and the seed.                            *)

(* A request that is not being served has the type of a request.             *)
LEMMA IdleType == Idle \in ReqState
BY DEF Idle, ReqState

(* The guard only adds the role of the user to what the handler begins with. *)
LEMMA ActorOnly ==
  ASSUME NEW q \in ReqState, NEW role \in Role \cup {Null}
  PROVE  LET p == [q EXCEPT !.actorRole = role]
         IN /\ p \in ReqState
            /\ p.pc = q.pc /\ p.id = q.id /\ p.email = q.email
            /\ p.role = q.role /\ p.isActive = q.isActive
            /\ p.actorRole = role
<1>1. [q EXCEPT !.actorRole = role] \in ReqState
  BY DEF ReqState
<1> QED
  BY <1>1 DEF ReqState

(* The request a handler begins with has the type of one.                    *)
LEMMA StartType ==
  ASSUME UserAdminInv, NEW r \in Request, Arrive(r)
  PROVE  reqs' \in [Request -> ReqState]
<1> SUFFICES ASSUME NEW a \in User, NEW q \in ReqState, NEW roles,
                    Start(r, a, roles, q)
             PROVE  reqs' \in [Request -> ReqState]
  <2>1. \A email \in Email, role \in Assignable :
         [Idle EXCEPT !.pc = "createCheck", !.email = email, !.role = role]
           \in ReqState
    BY DEF Idle, ReqState
  <2>2. \A u \in User, email \in Email :
         [Idle EXCEPT !.pc = "updateFind", !.id = u, !.email = email]
           \in ReqState
    BY DEF Idle, ReqState
  <2>3. \A u \in User, email \in Email \cup {Null},
          role \in Assignable \cup {Null}, isActive \in BOOLEAN \cup {Null} :
         [Idle EXCEPT !.pc = "updateFind", !.id = u, !.email = email,
                      !.role = role, !.isActive = isActive] \in ReqState
    BY DEF Idle, ReqState
  <2>4. \A u \in User, isActive \in BOOLEAN :
         [Idle EXCEPT !.pc = "toggleFind", !.id = u, !.isActive = isActive]
           \in ReqState
    BY DEF Idle, ReqState
  <2>5. \A u \in User :
         [Idle EXCEPT !.pc = "deleteFind", !.id = u] \in ReqState
    BY DEF Idle, ReqState
  <2>6. ASSUME NEW a \in User, NEW email \in Email,
               \/ \E role \in Assignable : Create(r, a, email, role)
               \/ UpdateMe(r, a, email)
        PROVE  reqs' \in [Request -> ReqState]
    BY <2>1, <2>2, <2>6 DEF Create, UpdateMe
  <2>7. ASSUME NEW a \in User, NEW u \in User, NEW ownText \in BOOLEAN,
               \/ \E email \in Email \cup {Null},
                     role \in Assignable \cup {Null},
                     isActive \in BOOLEAN \cup {Null} :
                    Update(r, a, u, ownText, email, role, isActive)
               \/ \E isActive \in BOOLEAN : Toggle(r, a, u, ownText, isActive)
               \/ Delete(r, a, u, ownText)
        PROVE  reqs' \in [Request -> ReqState]
    BY <2>3, <2>4, <2>5, <2>7 DEF Update, Toggle, Delete
  <2> QED
    BY <2>6, <2>7 DEF Arrive
<1>1. users[a].role \in Role \cup {Null}
  BY StoredIsPresent DEF UserAdminInv, TypeOK, Start, Stored, Present
<1>2. [q EXCEPT !.actorRole = users[a].role] \in ReqState
  BY <1>1, ActorOnly
<1> QED
  BY <1>2 DEF Start, UserAdminInv, TypeOK

(* Every step keeps the types of the requests and of the seed.               *)
LEMMA ReqsType ==
  ASSUME UserAdminInv, [Next]_vars
  PROVE  reqs' \in [Request -> ReqState] /\ seed' \in {"idle", "create"}
<1>1. ASSUME NEW r \in Request, Goto(r, "create") \/ Goto(r, "update")
                \/ Goto(r, "updateEmail") \/ Goto(r, "toggle")
                \/ Goto(r, "delete") \/ Finish(r)
      PROVE  reqs' \in [Request -> ReqState]
  BY <1>1, IdleType DEF UserAdminInv, TypeOK, Goto, Finish, ReqState
<1>2. ASSUME NEW r \in Request, Step(r)
      PROVE  reqs' \in [Request -> ReqState] /\ seed' = seed
  BY <1>1, <1>2 DEF Step, CreateCheck, CreateSave, UpdateFind, UpdateEmail,
     UpdateSave, ToggleFind, ToggleSave, DeleteFind, DeleteSave
<1>3. ASSUME NEW r \in Request, Arrive(r)
      PROVE  reqs' \in [Request -> ReqState] /\ seed' = seed
  BY <1>3, StartType, ArriveKeeps
<1> QED
  BY <1>2, <1>3, IdleType
     DEF Next, SeedFind, SeedCreate, Restart, vars, UserAdminInv, TypeOK

(* What a request has established stays true while others write.             *)
LEMMA OthersKeep ==
  ASSUME UserAdminInv, Writes, NEW q \in Request, reqs'[q] = reqs[q]
  PROVE  ReqOK(q)' /\ IdOK(q)'
<1>1. ReqOK(q) /\ IdOK(q)
  BY DEF UserAdminInv, ReqsOK
<1>2. IdOK(q)'
  BY <1>1 DEF IdOK
<1>3. ASSUME NEW u \in User, users[u].status # "none", ~Superadmin(u)
      PROVE  users'[u].status # "none" /\ ~Superadmin(u)'
  BY <1>3, WritesKeep
<1>4. ((At(q, "updateEmail") \/ At(q, "update") \/ At(q, "delete"))
        => reqs[q].id \in User)
  BY <1>1 DEF IdOK, At
<1> QED
  BY <1>1, <1>2, <1>3, <1>4 DEF ReqOK, At

(* The request a handler begins with has the fields it was given, and those  *)
(* of the user the guard let in.                                             *)
LEMMA StartFields ==
  ASSUME UserAdminInv, NEW r \in Request, NEW a \in User, NEW roles,
         NEW q \in ReqState, Start(r, a, roles, q)
  PROVE  /\ \A p \in Request \ {r} : reqs'[p] = reqs[p]
         /\ reqs'[r].pc = q.pc /\ reqs'[r].id = q.id
         /\ reqs'[r].role = q.role /\ reqs'[r].isActive = q.isActive
         /\ reqs'[r].email = q.email
         /\ reqs'[r].actorRole = users[a].role
         /\ users[a].role \in roles /\ Stored(a)
<1>1. reqs'[r] = [q EXCEPT !.actorRole = users[a].role]
  BY DEF Start, UserAdminInv, TypeOK
<1>2. /\ users[a].role \in roles /\ Stored(a)
      /\ \A p \in Request \ {r} : reqs'[p] = reqs[p]
  BY DEF Start, UserAdminInv, TypeOK
<1>3. users[a].role \in Role \cup {Null}
  BY StoredIsPresent DEF UserAdminInv, TypeOK, Start, Stored, Present
<1> QED
  BY <1>1, <1>2, <1>3, ActorOnly

(* A request that begins has what its handler needs, and owes nothing yet.   *)
LEMMA ArriveReqsOK ==
  ASSUME UserAdminInv, NEW r \in Request, Arrive(r)
  PROVE  ReqsOK'
<1>1. UNCHANGED users /\ Writes
  BY ArriveKeeps DEF Writes
<1>2. \A q \in Request \ {r} : reqs'[q] = reqs[q]
  <2>1. PICK a \in User : \E roles, q : Start(r, a, roles, q)
    BY DEF Arrive, Create, Update, UpdateMe, Toggle, Delete
  <2> QED
    BY <2>1 DEF Start, UserAdminInv, TypeOK
<1>3. ReqOK(r)' /\ IdOK(r)'
  <2>1. ASSUME NEW a \in User, NEW q, NEW roles, Start(r, a, roles, q),
               q \in ReqState
        PROVE  /\ reqs'[r].pc = q.pc /\ reqs'[r].id = q.id
               /\ reqs'[r].role = q.role /\ reqs'[r].isActive = q.isActive
               /\ reqs'[r].email = q.email
               /\ reqs'[r].actorRole = users[a].role
               /\ users[a].role \in roles /\ Stored(a)
    BY <2>1, StartFields
  <2>2. ASSUME NEW a \in User, NEW email \in Email, NEW role \in Assignable,
               Create(r, a, email, role)
        PROVE  ReqOK(r)' /\ IdOK(r)'
    <3> DEFINE q == [Idle EXCEPT !.pc = "createCheck", !.email = email,
                                 !.role = role]
    <3>1. /\ q \in ReqState /\ q.pc = "createCheck"
          /\ q.email = email /\ q.role = role
      BY DEF Idle, ReqState
    <3>0. Start(r, a, Managers, q)
      BY <2>2 DEF Create
    <3>2. /\ reqs'[r].pc = "createCheck"
          /\ reqs'[r].email = email /\ reqs'[r].role = role
      <4> HIDE DEF q
      <4> QED
        BY <2>1, <3>0, <3>1
    <3> QED
      BY <3>2 DEF ReqOK, IdOK, At
  <2>3. ASSUME NEW a \in User, NEW email \in Email, UpdateMe(r, a, email)
        PROVE  ReqOK(r)' /\ IdOK(r)'
    <3> DEFINE q == [Idle EXCEPT !.pc = "updateFind", !.id = a, !.email = email]
    <3>1. q \in ReqState /\ q.pc = "updateFind" /\ q.id = a /\ q.role = Null
      BY DEF Idle, ReqState
    <3>0. Start(r, a, Role, q)
      BY <2>3 DEF UpdateMe
    <3>2. reqs'[r].pc = "updateFind" /\ reqs'[r].id = a /\ reqs'[r].role = Null
      <4> HIDE DEF q
      <4> QED
        BY <2>1, <3>0, <3>1
    <3> QED
      BY <3>2 DEF ReqOK, IdOK, At
  <2>4. ASSUME NEW a \in User, NEW u \in User, NEW ownText \in BOOLEAN,
               NEW email \in Email \cup {Null},
               NEW role \in Assignable \cup {Null},
               NEW isActive \in BOOLEAN \cup {Null},
               Update(r, a, u, ownText, email, role, isActive)
        PROVE  ReqOK(r)' /\ IdOK(r)'
    <3> DEFINE q == [Idle EXCEPT !.pc = "updateFind", !.id = u, !.email = email,
                                 !.role = role, !.isActive = isActive]
    <3>1. q \in ReqState /\ q.pc = "updateFind" /\ q.id = u
      BY DEF Idle, ReqState
    <3>0. Start(r, a, Managers, q)
      BY <2>4 DEF Update
    <3>2. reqs'[r].pc = "updateFind" /\ reqs'[r].id = u
      <4> HIDE DEF q
      <4> QED
        BY <2>1, <3>0, <3>1
    <3> QED
      BY <3>2 DEF ReqOK, IdOK, At
  <2>5. ASSUME NEW a \in User, NEW u \in User, NEW ownText \in BOOLEAN,
               NEW isActive \in BOOLEAN,
               Toggle(r, a, u, ownText, isActive)
        PROVE  ReqOK(r)' /\ IdOK(r)'
    <3> DEFINE q == [Idle EXCEPT !.pc = "toggleFind", !.id = u,
                                 !.isActive = isActive]
    <3>1. /\ q \in ReqState /\ q.pc = "toggleFind" /\ q.id = u
          /\ q.isActive = isActive
      BY DEF Idle, ReqState
    <3>0. Start(r, a, Managers, q)
      BY <2>5 DEF Toggle
    <3>2. /\ reqs'[r].pc = "toggleFind" /\ reqs'[r].id = u
          /\ reqs'[r].isActive = isActive
      <4> HIDE DEF q
      <4> QED
        BY <2>1, <3>0, <3>1
    <3> QED
      BY <3>2 DEF ReqOK, IdOK, At
  <2>6. ASSUME NEW a \in User, NEW u \in User, NEW ownText \in BOOLEAN,
               Delete(r, a, u, ownText)
        PROVE  ReqOK(r)' /\ IdOK(r)'
    <3> DEFINE q == [Idle EXCEPT !.pc = "deleteFind", !.id = u]
    <3>1. q \in ReqState /\ q.pc = "deleteFind" /\ q.id = u
      BY DEF Idle, ReqState
    <3>0. Start(r, a, {"superadmin"}, q)
      BY <2>6 DEF Delete
    <3>2. reqs'[r].pc = "deleteFind" /\ reqs'[r].id = u
      <4> HIDE DEF q
      <4> QED
        BY <2>1, <3>0, <3>1
    <3> QED
      BY <3>2 DEF ReqOK, IdOK, At
  <2> QED
    BY <2>2, <2>3, <2>4, <2>5, <2>6 DEF Arrive
<1> QED
  BY <1>1, <1>2, <1>3, OthersKeep DEF ReqsOK

(* A request that goes on, or ends, with its own fields unchanged.           *)
LEMMA MoveFields ==
  ASSUME UserAdminInv, NEW r \in Request, NEW pc, Goto(r, pc)
  PROVE  /\ \A q \in Request \ {r} : reqs'[q] = reqs[q]
         /\ reqs'[r].pc = pc /\ reqs'[r].id = reqs[r].id
         /\ reqs'[r].role = reqs[r].role
         /\ reqs'[r].email = reqs[r].email
         /\ reqs'[r].isActive = reqs[r].isActive
         /\ reqs'[r].actorRole = reqs[r].actorRole
<1>1. reqs \in [Request -> ReqState] /\ reqs[r] \in ReqState
  BY DEF UserAdminInv, TypeOK
<1> QED
  BY <1>1 DEF Goto, ReqState

(* A request that ends owes nothing any more.                                *)
LEMMA FinishReqsOK ==
  ASSUME UserAdminInv, Writes, NEW r \in Request, Finish(r)
  PROVE  ReqsOK'
<1>1. \A q \in Request \ {r} : reqs'[q] = reqs[q]
  BY DEF Finish, UserAdminInv, TypeOK
<1>2. reqs'[r].pc = "idle"
  BY DEF Finish, UserAdminInv, TypeOK, Idle
<1>3. ReqOK(r)' /\ IdOK(r)'
  BY <1>2 DEF ReqOK, IdOK, At
<1> QED
  BY <1>1, <1>3, OthersKeep DEF ReqsOK

(* A request that goes on has read what it is about to write.                *)
LEMMA GotoReqsOK ==
  ASSUME UserAdminInv, UNCHANGED users, NEW r \in Request,
         \/ At(r, "createCheck") /\ Goto(r, "create")
         \/ UpdateFind(r) /\ (Goto(r, "update") \/ Goto(r, "updateEmail"))
         \/ At(r, "updateEmail") /\ Goto(r, "update")
         \/ At(r, "toggleFind") /\ Goto(r, "toggle")
         \/ DeleteFind(r) /\ Goto(r, "delete")
  PROVE  ReqsOK'
<1>1. Writes
  BY DEF Writes
<1>2. \A q \in Request \ {r} : reqs'[q] = reqs[q]
  BY MoveFields
<1>3. ReqOK(r) /\ IdOK(r)
  BY DEF UserAdminInv, ReqsOK
<1>4. CASE At(r, "createCheck") /\ Goto(r, "create")
  <2>1. /\ reqs'[r].pc = "create"
        /\ reqs'[r].email = reqs[r].email /\ reqs'[r].role = reqs[r].role
    BY <1>4, MoveFields
  <2>2. ReqOK(r)' /\ IdOK(r)'
    BY <1>3, <1>4, <2>1 DEF ReqOK, IdOK, At
  <2> QED
    BY <1>1, <1>2, <2>2, OthersKeep DEF ReqsOK
<1>5. CASE UpdateFind(r) /\ (Goto(r, "update") \/ Goto(r, "updateEmail"))
  <2>1. /\ reqs'[r].pc \in {"update", "updateEmail"}
        /\ reqs'[r].id = reqs[r].id /\ reqs'[r].role = reqs[r].role
        /\ reqs'[r].actorRole = reqs[r].actorRole
    BY <1>5, MoveFields
  <2>2. At(r, "updateFind") /\ reqs[r].id \in User
    BY <1>3, <1>5 DEF UpdateFind, IdOK, At
  <2>3. reqs'[r] # Idle
    BY <2>1 DEF Idle
  <2>4. reqs[r] \in ReqState /\ reqs \in [Request -> ReqState]
    BY DEF UserAdminInv, TypeOK
  <2>5. ~Finish(r)
    BY <2>3, <2>4 DEF Finish
  <2>6. /\ Stored(reqs[r].id)
        /\ ~ (/\ reqs[r].role # Null
              /\ reqs[r].actorRole = "admin"
              /\ users[reqs[r].id].role \in Managers)
    BY <1>5, <2>5 DEF UpdateFind
  <2>7. (reqs[r].role # Null /\ reqs[r].actorRole = "admin") =>
          ~Superadmin(reqs[r].id)
    BY <2>6 DEF Managers, Superadmin
  <2>8. ReqOK(r)' /\ IdOK(r)'
    BY <2>1, <2>2, <2>6, <2>7 DEF ReqOK, IdOK, At, Stored, Superadmin
  <2> QED
    BY <1>1, <1>2, <2>8, OthersKeep DEF ReqsOK
<1>6. CASE At(r, "updateEmail") /\ Goto(r, "update")
  <2>1. /\ reqs'[r].pc = "update"
        /\ reqs'[r].id = reqs[r].id /\ reqs'[r].role = reqs[r].role
        /\ reqs'[r].actorRole = reqs[r].actorRole
    BY <1>6, MoveFields
  <2>2. ReqOK(r)' /\ IdOK(r)'
    BY <1>3, <1>6, <2>1 DEF ReqOK, IdOK, At, Stored, Superadmin
  <2> QED
    BY <1>1, <1>2, <2>2, OthersKeep DEF ReqsOK
<1>7. CASE At(r, "toggleFind") /\ Goto(r, "toggle")
  <2>1. /\ reqs'[r].pc = "toggle"
        /\ reqs'[r].id = reqs[r].id /\ reqs'[r].isActive = reqs[r].isActive
    BY <1>7, MoveFields
  <2>2. ReqOK(r)' /\ IdOK(r)'
    BY <1>3, <1>7, <2>1 DEF ReqOK, IdOK, At
  <2> QED
    BY <1>1, <1>2, <2>2, OthersKeep DEF ReqsOK
<1>8. CASE DeleteFind(r) /\ Goto(r, "delete")
  <2>1. reqs'[r].pc = "delete" /\ reqs'[r].id = reqs[r].id
    BY <1>8, MoveFields
  <2>2. reqs[r].id \in User
    BY <1>3, <1>8 DEF DeleteFind, IdOK, At
  <2>3. reqs'[r] # Idle
    BY <2>1 DEF Idle
  <2>4. reqs \in [Request -> ReqState]
    BY DEF UserAdminInv, TypeOK
  <2>5. ~Finish(r)
    BY <2>3, <2>4 DEF Finish
  <2>6. Stored(reqs[r].id) /\ ~Superadmin(reqs[r].id)
    BY <1>8, <2>5 DEF DeleteFind
  <2>7. ReqOK(r)' /\ IdOK(r)'
    BY <2>1, <2>2, <2>6 DEF ReqOK, IdOK, At, Stored, Superadmin
  <2> QED
    BY <1>1, <1>2, <2>7, OthersKeep DEF ReqsOK
<1> QED
  BY <1>4, <1>5, <1>6, <1>7, <1>8

(* Every step of a handler keeps what the requests have established.         *)
LEMMA StepReqsOK ==
  ASSUME UserAdminInv, Writes, NEW r \in Request, Step(r)
  PROVE  ReqsOK'
<1>1. CASE CreateCheck(r)
  BY <1>1, FinishReqsOK, GotoReqsOK DEF CreateCheck
<1>2. CASE UpdateFind(r)
  BY <1>2, FinishReqsOK, GotoReqsOK DEF UpdateFind
<1>3. CASE UpdateEmail(r)
  BY <1>3, FinishReqsOK, GotoReqsOK DEF UpdateEmail
<1>4. CASE ToggleFind(r)
  BY <1>4, FinishReqsOK, GotoReqsOK DEF ToggleFind
<1>5. CASE DeleteFind(r)
  BY <1>5, FinishReqsOK, GotoReqsOK DEF DeleteFind
<1>6. CASE CreateSave(r) \/ UpdateSave(r) \/ ToggleSave(r) \/ DeleteSave(r)
  BY <1>6, FinishReqsOK DEF CreateSave, UpdateSave, ToggleSave, DeleteSave
<1> QED
  BY <1>1, <1>2, <1>3, <1>4, <1>5, <1>6 DEF Step

----------------------------------------------------------------------------
(* The invariant.                                                            *)

(* The invariant holds of the empty collection.                              *)
LEMMA InitInv == Init => UserAdminInv
<1> SUFFICES ASSUME Init PROVE UserAdminInv
  OBVIOUS
<1>1. NoAccount \in Account /\ NoAccount.status = "none"
  BY DEF NoAccount, Account
<1>2. TypeOK
  BY <1>1, IdleType DEF Init, TypeOK
<1>3. \A u \in User : ~Stored(u)
  BY <1>1 DEF Init, Stored
<1>4. ReqsOK
  BY DEF Init, ReqsOK, ReqOK, IdOK, At, Idle
<1> QED
  BY <1>2, <1>3, <1>4
     DEF UserAdminInv, OneSuperadmin, EmailsAreUnique, Superadmin, SeedOK

(* While the seed hashes, nobody else becomes superadmin; so when it creates *)
(* one it is the only one.                                                   *)
LEMMA NextInv == UserAdminInv /\ [Next]_vars => UserAdminInv'
<1> SUFFICES ASSUME UserAdminInv, [Next]_vars PROVE UserAdminInv'
  OBVIOUS
<1>1. Writes
  BY StepWrites
<1>2. TypeOK' /\ EmailsAreUnique'
  BY <1>1, WritesKeep, ReqsType DEF TypeOK
<1>3. OneSuperadmin'
  <2> SUFFICES ASSUME NEW u \in User, NEW v \in User,
                      Superadmin(u)', Superadmin(v)', u # v
               PROVE  FALSE
    BY DEF OneSuperadmin
  <2>1. CASE Superadmin(u) /\ Superadmin(v)
    BY <2>1 DEF UserAdminInv, OneSuperadmin
  <2>2. CASE ~Superadmin(u)
    BY <1>1, <2>2, WritesKeep DEF UserAdminInv, SeedOK, Superadmin, Stored
  <2>3. CASE ~Superadmin(v)
    BY <1>1, <2>3, WritesKeep DEF UserAdminInv, SeedOK, Superadmin, Stored
  <2> QED
    BY <2>1, <2>2, <2>3
<1>4. ReqsOK'
  <2>1. CASE UNCHANGED reqs
    BY <1>1, <2>1, OthersKeep DEF ReqsOK
  <2>2. CASE \E r \in Request : Arrive(r) \/ Step(r)
    BY <1>1, <2>2, ArriveReqsOK, StepReqsOK
  <2>3. CASE Restart
    BY <2>3 DEF Restart, ReqsOK, ReqOK, IdOK, At, Idle
  <2> QED
    BY <2>1, <2>2, <2>3 DEF Next, SeedFind, SeedCreate, vars
<1>5. SeedOK'
  <2> SUFFICES ASSUME seed' = "create", NEW u \in User, Superadmin(u)'
               PROVE  FALSE
    BY DEF SeedOK
  <2>1. Superadmin(u)
    BY <1>1, WritesKeep
  <2>2. seed = "idle"
    BY <2>1 DEF UserAdminInv, SeedOK, TypeOK
  <2>3. SeedFind
    BY <2>2 DEF Next, SeedCreate, Restart, vars, Arrive, Step, Create, Update,
       UpdateMe, Toggle, Delete, Start, CreateCheck, CreateSave, UpdateFind,
       UpdateEmail, UpdateSave, ToggleFind, ToggleSave, DeleteFind, DeleteSave
  <2> QED
    BY <2>1, <2>3 DEF SeedFind
<1> QED
  BY <1>2, <1>3, <1>4, <1>5 DEF UserAdminInv

(* A request that may change a role or the activity comes from a manager.    *)
GrantOK(r) ==
  /\ (reqs[r].pc \in {"updateFind", "updateEmail", "update"}
      /\ reqs[r].role # Null) =>
       reqs[r].actorRole \in Managers
  /\ (reqs[r].pc \in {"updateFind", "updateEmail", "update", "toggleFind",
                      "toggle"}
      /\ reqs[r].isActive # Null) =>
       reqs[r].actorRole \in Managers

GrantsOK == \A r \in Request : GrantOK(r)

(* The role guard and the handlers let in only such requests.                *)
LEMMA ArriveGrants ==
  ASSUME UserAdminInv, GrantsOK, NEW r \in Request, Arrive(r)
  PROVE  GrantsOK'
<1> SUFFICES ASSUME NEW a \in User, NEW roles, NEW q \in ReqState,
                    Start(r, a, roles, q),
                    q.role # Null => roles = Managers,
                    q.isActive # Null => roles = Managers,
                    q.pc # "createCheck"
             PROVE  GrantsOK'
  <2>1. ASSUME NEW a \in User, NEW email \in Email, NEW role \in Assignable,
               Create(r, a, email, role)
        PROVE  GrantsOK'
    <3> DEFINE q == [Idle EXCEPT !.pc = "createCheck", !.email = email,
                                 !.role = role]
    <3>1. q \in ReqState /\ q.pc = "createCheck" /\ Start(r, a, Managers, q)
      BY <2>1 DEF Idle, ReqState, Create
    <3>2. /\ reqs'[r].pc = "createCheck"
          /\ \A p \in Request \ {r} : reqs'[p] = reqs[p]
      <4> HIDE DEF q
      <4> QED
        BY <3>1, StartFields
    <3> QED
      BY <3>2 DEF GrantsOK, GrantOK
  <2>2. ASSUME NEW a \in User, NEW email \in Email, UpdateMe(r, a, email)
        PROVE  GrantsOK'
    <3> DEFINE q == [Idle EXCEPT !.pc = "updateFind", !.id = a, !.email = email]
    <3>1. q \in ReqState /\ q.role = Null /\ q.isActive = Null
            /\ q.pc # "createCheck"
      BY DEF Idle, ReqState
    <3>2. Start(r, a, Role, q)
      BY <2>2 DEF UpdateMe
    <3> HIDE DEF q
    <3> QED
      BY <3>1, <3>2
  <2>3. ASSUME NEW a \in User, NEW u \in User, NEW ownText \in BOOLEAN,
               NEW email \in Email \cup {Null},
               NEW role \in Assignable \cup {Null},
               NEW isActive \in BOOLEAN \cup {Null},
               Update(r, a, u, ownText, email, role, isActive)
        PROVE  GrantsOK'
    <3> DEFINE q == [Idle EXCEPT !.pc = "updateFind", !.id = u, !.email = email,
                                 !.role = role, !.isActive = isActive]
    <3>1. q \in ReqState /\ q.pc # "createCheck"
      BY DEF Idle, ReqState
    <3>2. Start(r, a, Managers, q)
      BY <2>3 DEF Update
    <3> HIDE DEF q
    <3> QED
      BY <3>1, <3>2
  <2>4. ASSUME NEW a \in User, NEW u \in User, NEW ownText \in BOOLEAN,
               NEW isActive \in BOOLEAN,
               Toggle(r, a, u, ownText, isActive)
        PROVE  GrantsOK'
    <3> DEFINE q == [Idle EXCEPT !.pc = "toggleFind", !.id = u,
                                 !.isActive = isActive]
    <3>1. q \in ReqState /\ q.role = Null /\ q.pc # "createCheck"
      BY DEF Idle, ReqState
    <3>2. Start(r, a, Managers, q)
      BY <2>4 DEF Toggle
    <3> HIDE DEF q
    <3> QED
      BY <3>1, <3>2
  <2>5. ASSUME NEW a \in User, NEW u \in User, NEW ownText \in BOOLEAN,
               Delete(r, a, u, ownText)
        PROVE  GrantsOK'
    <3> DEFINE q == [Idle EXCEPT !.pc = "deleteFind", !.id = u]
    <3>1. q \in ReqState /\ q.role = Null /\ q.isActive = Null
            /\ q.pc # "createCheck"
      BY DEF Idle, ReqState
    <3>2. Start(r, a, {"superadmin"}, q)
      BY <2>5 DEF Delete
    <3> HIDE DEF q
    <3> QED
      BY <3>1, <3>2
  <2> QED
    BY <2>1, <2>2, <2>3, <2>4, <2>5 DEF Arrive
<1> QED
  BY StartFields DEF GrantsOK, GrantOK

(* A handler that goes on keeps the fields of its request.                   *)
LEMMA StepGrants ==
  ASSUME UserAdminInv, GrantsOK, NEW r \in Request, Step(r)
  PROVE  GrantsOK'
<1>1. CASE Finish(r)
  <2>1. /\ reqs'[r].pc = "idle"
        /\ \A p \in Request \ {r} : reqs'[p] = reqs[p]
    BY <1>1 DEF Finish, Idle, UserAdminInv, TypeOK
  <2> QED
    BY <2>1 DEF GrantsOK, GrantOK
<1>2. CASE \/ At(r, "createCheck") /\ Goto(r, "create")
           \/ /\ At(r, "updateFind")
              /\ Goto(r, "update") \/ Goto(r, "updateEmail")
           \/ At(r, "updateEmail") /\ Goto(r, "update")
           \/ At(r, "toggleFind") /\ Goto(r, "toggle")
           \/ At(r, "deleteFind") /\ Goto(r, "delete")
  <2>1. reqs \in [Request -> ReqState] /\ reqs[r] \in ReqState
    BY DEF UserAdminInv, TypeOK
  <2>2. \A p \in Request \ {r} : reqs'[p] = reqs[p]
    BY <1>2, <2>1 DEF Goto
  <2>3. /\ reqs'[r].id = reqs[r].id /\ reqs'[r].role = reqs[r].role
        /\ reqs'[r].isActive = reqs[r].isActive
        /\ reqs'[r].actorRole = reqs[r].actorRole
    BY <1>2, <2>1 DEF Goto, ReqState
  <2>4. GrantOK(r)'
    BY <1>2, <2>1, <2>3, MoveFields DEF GrantsOK, GrantOK, At
  <2> QED
    BY <2>2, <2>4 DEF GrantsOK, GrantOK
<1> QED
  BY <1>1, <1>2 DEF Step, CreateCheck, CreateSave, UpdateFind, UpdateEmail,
     UpdateSave, ToggleFind, ToggleSave, DeleteFind, DeleteSave

(* Every step keeps what the guards have established.                        *)
LEMMA NextGrants == UserAdminInv /\ GrantsOK /\ [Next]_vars => GrantsOK'
<1> SUFFICES ASSUME UserAdminInv, GrantsOK, [Next]_vars PROVE GrantsOK'
  OBVIOUS
<1>1. CASE UNCHANGED reqs
  BY <1>1 DEF GrantsOK, GrantOK
<1>2. CASE Restart
  BY <1>2 DEF Restart, GrantsOK, GrantOK, Idle
<1> QED
  BY <1>1, <1>2, ArriveGrants, StepGrants
     DEF Next, SeedFind, SeedCreate, vars

(* Only update and (de)activation change a role or the activity of a stored  *)
(* account, and only to what their requests ask for.                         *)
LEMMA ChangesAreAsked ==
  ASSUME UserAdminInv, [Next]_vars, NEW u \in User, Stored(u), Stored(u)',
         \/ users'[u].role # users[u].role
         \/ users'[u].isActive # users[u].isActive
  PROVE  \E r \in Request :
           /\ reqs[r].id = u
           /\ UpdateSave(r) \/ ToggleSave(r)
           /\ users'[u].role # users[u].role =>
                /\ UpdateSave(r)
                /\ reqs[r].role # Null /\ users'[u].role = reqs[r].role
           /\ users'[u].isActive # users[u].isActive =>
                /\ reqs[r].isActive # Null
                /\ users'[u].isActive = reqs[r].isActive
<1>1. ASSUME NEW acc, NEW v \in User, users[v].status = "none",
             users' = [users EXCEPT ![v] = acc]
      PROVE  FALSE
  BY <1>1 DEF UserAdminInv, TypeOK, Stored
<1>2. users' # users
  OBVIOUS
<1>3. ~SeedCreate
  BY <1>1, <1>2 DEF SeedCreate
<1>4. PICK r \in Request : UpdateSave(r) \/ ToggleSave(r) \/ DeleteSave(r)
  <2>1. \A r \in Request : ~Arrive(r)
    <3> SUFFICES ASSUME NEW r \in Request, Arrive(r) PROVE UNCHANGED users
      BY <1>2
    <3> QED
      BY ArriveKeeps
  <2>2. PICK r \in Request : Step(r)
    BY <1>2, <1>3, <2>1 DEF Next, vars, SeedFind, Restart
  <2>3. ~CreateSave(r)
    BY <1>1, <1>2 DEF CreateSave
  <2> QED
    BY <1>2, <2>2, <2>3
       DEF Step, CreateCheck, UpdateFind, UpdateEmail, ToggleFind, DeleteFind
<1>5. users \in [User -> Account] /\ users[u] \in Present
  BY StoredIsPresent DEF UserAdminInv, TypeOK, Stored
<1>6. CASE UpdateSave(r)
  <2> DEFINE acc == [users[u] EXCEPT !.email = Or(reqs[r].email, @),
                                     !.role = Or(reqs[r].role, @),
                                     !.isActive = Or(reqs[r].isActive, @)]
  <2>1. reqs[r].id = u /\ users'[u] = acc
    BY <1>2, <1>5, <1>6 DEF UpdateSave
  <2>2. /\ acc.role = Or(reqs[r].role, users[u].role)
        /\ acc.isActive = Or(reqs[r].isActive, users[u].isActive)
    BY <1>5 DEF Present
  <2>3. /\ acc.role # users[u].role =>
             reqs[r].role # Null /\ acc.role = reqs[r].role
        /\ acc.isActive # users[u].isActive =>
             reqs[r].isActive # Null /\ acc.isActive = reqs[r].isActive
    <3> HIDE DEF acc
    <3> QED
      BY <2>2, Zenon DEF Or
  <2> QED
    <3> HIDE DEF acc
    <3> QED
      BY <1>6, <2>1, <2>3
<1>7. CASE ToggleSave(r)
  <2>1. /\ reqs[r].id = u
        /\ users'[u] = [users[u] EXCEPT !.isActive = reqs[r].isActive]
    BY <1>2, <1>5, <1>7 DEF ToggleSave
  <2>2. /\ users'[u].role = users[u].role
        /\ users'[u].isActive = reqs[r].isActive
    BY <1>5, <2>1 DEF Present
  <2>3. reqs[r].isActive \in BOOLEAN
    BY <1>7 DEF UserAdminInv, ReqsOK, IdOK, ToggleSave, At
  <2> QED
    BY <1>7, <2>1, <2>2, <2>3, UserAdminAssumption
<1>8. CASE DeleteSave(r)
  <2>1. reqs[r].id = u /\ users'[u] = Gone
    BY <1>2, <1>5, <1>8 DEF DeleteSave
  <2> QED
    BY <2>1 DEF Stored, Gone, NoAccount
<1> QED
  BY <1>4, <1>6, <1>7, <1>8

(* The superadmin is not deleted, and the request that demotes him is an     *)
(* update that the guard let in as the superadmin's.                         *)
LEMMA DemotionIsOwn ==
  ASSUME UserAdminInv, GrantsOK, [Next]_vars,
         NEW u \in User, Superadmin(u), ~Superadmin(u)'
  PROVE  /\ Stored(u)'
         /\ \E r \in Request :
              /\ UpdateSave(r)
              /\ reqs[r].id = u /\ reqs[r].actorRole = "superadmin"
<1>1. Stored(u) /\ Stored(u)' /\ users'[u].role # users[u].role
  BY StepWrites, WritesKeep DEF Superadmin
<1>2. PICK r \in Request :
        UpdateSave(r) /\ reqs[r].id = u /\ reqs[r].role # Null
  BY <1>1, ChangesAreAsked
<1>3. At(r, "update") /\ ReqOK(r) /\ GrantOK(r)
  BY <1>2 DEF UpdateSave, UserAdminInv, ReqsOK, GrantsOK
<1>4. reqs[r].actorRole \in Managers /\ reqs[r].actorRole # "admin"
  BY <1>2, <1>3 DEF GrantOK, ReqOK, At
<1> QED
  BY <1>1, <1>2, <1>4 DEF Managers

----------------------------------------------------------------------------
(* UserAdmin implements Accounts.                                            *)

(* The empty collection is one that Accounts may begin with.                 *)
LEMMA RefinesInit == Init => Acc!AccountsInit
<1> SUFFICES ASSUME Init PROVE Acc!AccountsInit
  OBVIOUS
<1>1. Registry = [u \in User |-> [status |-> "none", email |-> Null,
                                  role |-> Null]]
  BY DEF Init, Registry, NoAccount, Stored
<1> QED
  BY <1>1 DEF Acc!AccountsInit, Acc!Entry, Acc!Stored

(* A write to the collection is a step of Accounts, or none.                 *)
LEMMA RefinesNext ==
  UserAdminInv /\ [Next]_vars => [Acc!AccountsNext]_Registry
<1> SUFFICES ASSUME UserAdminInv, Writes
             PROVE  Acc!AccountsNext \/ Registry' = Registry
  BY StepWrites
<1>1. CASE UNCHANGED users
  BY <1>1 DEF Registry, Stored
<1>2. ASSUME NEW u \in User, NEW acc \in Account,
             Inserts(u, acc) \/ Rewrites(u, acc)
      PROVE  /\ \A v \in User \ {u} : users'[v] = users[v]
             /\ users'[u] = acc
             /\ Registry' = [Registry EXCEPT ![u] =
                  [status |-> acc.status,
                   email |-> IF acc.status = "stored" THEN acc.email ELSE Null,
                   role |-> IF acc.status = "stored" THEN acc.role ELSE Null]]
  <2>1. /\ users'[u] = acc /\ users' \in [User -> Account]
        /\ \A v \in User \ {u} : users'[v] = users[v]
    BY <1>2 DEF UserAdminInv, TypeOK, Inserts, Rewrites
  <2> QED
    BY <2>1 DEF Registry, Stored
<1>3. \A email, except : Acc!Taken(email, except) <=> Taken(email, except)
  BY DEF Acc!Taken, Acc!Stored, Taken, Registry, Stored
<1>4. \A v \in User :
        (Acc!Stored(v) <=> Stored(v))
        /\ (Stored(v) => Registry[v].role = users[v].role)
        /\ Registry[v].status = users[v].status
  BY DEF Acc!Stored, Registry, Stored
<1>5. ASSUME NEW u \in User, NEW acc \in Account, Inserts(u, acc)
      PROVE  Acc!AccountsNext
  <2>1. acc \in Present
    BY <1>5, StoredIsPresent DEF Inserts
  <2>2. acc.role = "superadmin" => \A v \in User : ~Superadmin(v)
    BY <1>5 DEF Inserts, UserAdminInv, SeedOK
  <2>3. Acc!Register(u, acc.email, acc.role)
    <3>1. Registry[u].status = "none" /\ ~Acc!Taken(acc.email, {})
      BY <1>3, <1>4, <1>5 DEF Inserts
    <3>2. acc.role = "superadmin" =>
            \A v \in User : ~(Acc!Stored(v) /\ Registry[v].role = "superadmin")
      BY <1>4, <2>2 DEF Superadmin
    <3>3. Registry' = [Registry EXCEPT ![u] =
            [status |-> "stored", email |-> acc.email, role |-> acc.role]]
      BY <1>2, <1>5, <2>1 DEF Present
    <3> QED
      BY <3>1, <3>2, <3>3 DEF Acc!Register, Acc!Put
  <2> QED
    BY <2>1, <2>3 DEF Acc!AccountsNext, Present
<1>6. ASSUME NEW u \in User, NEW acc \in Account, Rewrites(u, acc)
      PROVE  Acc!AccountsNext
  <2>1. CASE acc.status = "stored"
    <3>1. acc \in Present
      BY <2>1, StoredIsPresent
    <3>2. Registry' = [Registry EXCEPT ![u] =
            [status |-> "stored", email |-> acc.email, role |-> acc.role]]
      BY <1>2, <1>6, <2>1
    <3>3. Acc!Change(u, acc.email, acc.role)
      BY <1>3, <1>4, <1>6, <2>1, <3>2
         DEF Acc!Change, Acc!Put, Rewrites, Superadmin
    <3> QED
      BY <3>1, <3>3 DEF Acc!AccountsNext, Present
  <2>2. CASE acc.status = "deleted"
    <3>1. Registry' = [Registry EXCEPT ![u] = Acc!Gone]
      BY <1>2, <1>6, <2>2 DEF Acc!Gone
    <3>2. Acc!Delete(u)
      BY <1>4, <1>6, <2>2, <3>1 DEF Acc!Delete, Rewrites, Superadmin
    <3> QED
      BY <3>2 DEF Acc!AccountsNext
  <2> QED
    BY <1>6, <2>1, <2>2 DEF Rewrites
<1> QED
  BY <1>1, <1>5, <1>6 DEF Writes

----------------------------------------------------------------------------
(* The inductive invariant: types, one superadmin, unique addresses, and     *)
(* what the requests and the seed have established.                          *)
THEOREM Invariant == Spec => []UserAdminInv
BY InitInv, NextInv, PTL DEF Spec

(* The collection, the requests and the seed keep their types.               *)
THEOREM TypeCorrect == Spec => []TypeOK
BY Invariant, PTL DEF UserAdminInv

(* There is never a second superadmin.                                       *)
THEOREM AtMostOneSuperadmin == Spec => []OneSuperadmin
BY Invariant, PTL DEF UserAdminInv

(* No two accounts share an e-mail address, for all the checks that were     *)
(* made long before the write.                                               *)
THEOREM UniqueEmails == Spec => []EmailsAreUnique
BY Invariant, PTL DEF UserAdminInv

(* A deleted account is not stored again.                                    *)
THEOREM DeletedStays == Spec => DeletedAccountIsFinal
<1>1. UserAdminInv /\ [Next]_vars =>
        [\A u \in User :
           users[u].status = "deleted" => users'[u].status = "deleted"]_vars
  BY StepWrites, WritesKeep
<1> QED
  BY <1>1, Invariant, PTL DEF Spec, DeletedAccountIsFinal

(* What the role guard has established holds of every request.               *)
LEMMA Granted == Spec => []GrantsOK
<1>1. Init => GrantsOK
  BY DEF Init, GrantsOK, GrantOK, Idle
<1> QED
  BY <1>1, NextGrants, Invariant, PTL DEF Spec

(* The superadmin is not deleted, and only a request let in as the           *)
(* superadmin's demotes him: not an admin's that checked another role than   *)
(* the account has now.                                                      *)
THEOREM DemotedByHimself == Spec => OnlySuperadminDemotes
<1>1. UserAdminInv /\ GrantsOK /\ [Next]_vars =>
        [\A u \in User :
           (Superadmin(u) /\ ~Superadmin(u)') =>
             /\ Stored(u)'
             /\ \E r \in Request :
                  /\ UpdateSave(r)
                  /\ reqs[r].id = u /\ reqs[r].actorRole = "superadmin"]_vars
  BY DemotionIsOwn
<1> QED
  BY <1>1, Granted, Invariant, PTL DEF Spec, OnlySuperadminDemotes

(* The request that changes an account's role or activity is one about that  *)
(* account, for just that change, that the guard let in as a manager's.      *)
THEOREM OnlyManagersGrant == Spec => GrantedByManager
<1>1. UserAdminInv /\ GrantsOK /\ [Next]_vars =>
        [\A u \in User :
           LET changes(f) ==
                 Stored(u) /\ Stored(u)' /\ users'[u][f] # users[u][f]
               by(r) == reqs[r].id = u /\ reqs[r].actorRole \in Managers
           IN /\ changes("role") =>
                   \E r \in Request :
                     UpdateSave(r) /\ by(r) /\ users'[u].role = reqs[r].role
              /\ changes("isActive") =>
                   \E r \in Request :
                     /\ UpdateSave(r) \/ ToggleSave(r)
                     /\ by(r) /\ users'[u].isActive = reqs[r].isActive]_vars
  <2> SUFFICES ASSUME UserAdminInv, GrantsOK, [Next]_vars, NEW u \in User,
                      Stored(u), Stored(u)'
               PROVE  /\ users'[u].role # users[u].role =>
                           \E r \in Request :
                             /\ UpdateSave(r)
                             /\ reqs[r].id = u
                             /\ reqs[r].actorRole \in Managers
                             /\ users'[u].role = reqs[r].role
                      /\ users'[u].isActive # users[u].isActive =>
                           \E r \in Request :
                             /\ UpdateSave(r) \/ ToggleSave(r)
                             /\ reqs[r].id = u
                             /\ reqs[r].actorRole \in Managers
                             /\ users'[u].isActive = reqs[r].isActive
    OBVIOUS
  <2>1. \A r \in Request :
          /\ (UpdateSave(r) /\ reqs[r].role # Null) =>
               reqs[r].actorRole \in Managers
          /\ (UpdateSave(r) \/ ToggleSave(r)) /\ reqs[r].isActive # Null =>
               reqs[r].actorRole \in Managers
    BY DEF GrantsOK, GrantOK, UpdateSave, ToggleSave, At
  <2> QED
    BY <2>1, ChangesAreAsked
<1> QED
  BY <1>1, Granted, Invariant, PTL DEF Spec, GrantedByManager

(* The handlers and the seed, with all their stale reads, do to the          *)
(* collection what Accounts allows and nothing else.                         *)
THEOREM Refinement == Spec => ImplementsAccounts
<1>1. UserAdminInv /\ [Next]_vars => [Acc!AccountsNext]_Registry
  BY RefinesNext
<1> QED
  BY RefinesInit, <1>1, Invariant, PTL
     DEF Spec, ImplementsAccounts, Acc!AccountsSpec
=============================================================================
