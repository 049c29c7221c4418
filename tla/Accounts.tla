------------------------------ MODULE Accounts ------------------------------
(* What the users collection is to everything that looks an account up, with *)
(* no requests, passwords or tokens in it: each account is registered once,  *)
(* changed, and deleted for good; an e-mail address belongs to one account;  *)
(* at most one account has the role Root, which it was registered with, may  *)
(* give up and is not deleted with.  UserAdmin and Sessions look at the same *)
(* collection from two sides, and both implement this.                       *)
EXTENDS Naturals

CONSTANTS
  User, Email, Role,
  Root,   \* SUPERADMIN
  Null    \* the role and address of an account that is not stored

VARIABLE accounts

Entry == [status : {"none", "stored", "deleted"}, email : Email \cup {Null},
          role : Role \cup {Null}]

Gone == [status |-> "deleted", email |-> Null, role |-> Null]

Stored(u) == accounts[u].status = "stored"

(* user.schema.ts: unique: true                                              *)
Taken(email, except) ==
  \E u \in User \ except : Stored(u) /\ accounts[u].email = email

AccountsInit ==
  /\ accounts \in [User -> Entry]
  /\ \A u \in User : Stored(u) => ~Taken(accounts[u].email, {u})
  /\ \A u, v \in User :
       (Stored(u) /\ Stored(v) /\ accounts[u].role = Root
          /\ accounts[v].role = Root) => u = v

Put(u, email, role) ==
  accounts' = [accounts EXCEPT ![u] =
    [status |-> "stored", email |-> email, role |-> role]]

(* A new account; one with the role Root only while there is none.           *)
Register(u, email, role) ==
  /\ accounts[u].status = "none"
  /\ ~Taken(email, {})
  /\ role = Root => \A v \in User : ~(Stored(v) /\ accounts[v].role = Root)
  /\ Put(u, email, role)

(* Address and role may change; nobody is given the role Root.               *)
Change(u, email, role) ==
  /\ Stored(u)
  /\ ~Taken(email, {u})
  /\ role = Root => accounts[u].role = Root
  /\ Put(u, email, role)

Delete(u) ==
  /\ Stored(u)
  /\ accounts[u].role # Root
  /\ accounts' = [accounts EXCEPT ![u] = Gone]

AccountsNext ==
  \E u \in User :
    \/ \E email \in Email, role \in Role :
         Register(u, email, role) \/ Change(u, email, role)
    \/ Delete(u)

AccountsSpec == AccountsInit /\ [][AccountsNext]_accounts
=============================================================================
