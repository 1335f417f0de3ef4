----------------------------- MODULE AddUserForm ----------------------------
(***************************************************************************)
(* Administrators create users: the form (layouts/admin/AddUser.jsx) with  *)
(* the handler behind it (handlers/admin/adduser.go), one step per         *)
(* database call.  The password exists in clear only in the answer, so     *)
(* what the form shows is all anybody will ever know of it.                *)
(* Left out: the clipboard, which repeats what the form shows.             *)
(***************************************************************************)
EXTENDS Naturals, Sequences

CONSTANTS
  Admins,      \* administrators, each with a form
  Usernames,   \* valid user names
  NoName,      \* an empty name field
  Permissions, \* permissions a user can be given
  MaxRequests  \* bound on the submissions of all forms

ASSUME AddUserAssumption == NoName \notin Usernames /\ MaxRequests \in Nat

VARIABLES
  form,     \* React state of each form
  requests, \* submissions the form waits for or the server works on
  rows,     \* table of users: name and permissions by submission
  asked     \* history: what each submission asked for

addUserVars == <<form, requests, rows, asked>>

(* password: 0, or the submission whose user it belongs to.  mixed is      *)
(* history: the name was edited, or another submission sent, while a       *)
(* password was shown or awaited.                                          *)
UserForm ==
  [listed : BOOLEAN, name : Usernames \cup {NoName},
   selected : SUBSET Permissions, password : 0..MaxRequests,
   error : BOOLEAN, mixed : BOOLEAN]
NewUserForm == [listed |-> FALSE, name |-> NoName, selected |-> {},
                password |-> 0, error |-> FALSE, mixed |-> FALSE]

Row == [name : Usernames, perms : SUBSET Permissions]
UserRequest ==
  [id : 1..MaxRequests, admin : Admins, awaited : BOOLEAN,
   stage : {"posted", "checked", "inserted", "done", "failed"}]

AddUserInit ==
  /\ form = [a \in Admins |-> NewUserForm]
  /\ requests = {} /\ rows = <<>> /\ asked = <<>>

-----------------------------------------------------------------------------
(* The form.                                                               *)

Awaits(a) == \E r \in requests : r.admin = a /\ r.awaited
SameTables == UNCHANGED <<requests, rows, asked>>

(* The permissions arrive once after mounting; a failure is only logged.   *)
ListPermissions(a) ==
  /\ ~form[a].listed
  /\ form' = [form EXCEPT ![a].listed = TRUE]
  /\ SameTables

SetName(a, n) ==
  /\ form[a].name # n
  /\ form' = [form EXCEPT ![a].name = n,
                ![a].mixed = @ \/ Awaits(a) \/ form[a].password # 0]
  /\ SameTables

TogglePermission(a, p) ==
  /\ form[a].listed
  /\ form' = [form EXCEPT ![a].selected = (@ \ {p}) \cup ({p} \ @)]
  /\ SameTables

(* handleSubmit clears the error, keeps a password shown, and waits.       *)
SubmitUser(a) ==
  /\ Len(asked) < MaxRequests
  /\ asked' = Append(asked, [name |-> form[a].name,
                             perms |-> form[a].selected])
  /\ requests' = requests \cup {[id |-> Len(asked'), admin |-> a,
                                 awaited |-> TRUE, stage |-> "posted"]}
  /\ form' = [form EXCEPT ![a].error = FALSE,
                ![a].mixed = @ \/ Awaits(a) \/ form[a].password # 0]
  /\ UNCHANGED rows

(* "Add Another User", offered below a password.                           *)
Reset(a) ==
  /\ form[a].password # 0
  /\ form' = [form EXCEPT ![a] = [NewUserForm EXCEPT
                !.listed = form[a].listed, !.mixed = Awaits(a)]]
  /\ SameTables

(* Leaving the page and coming back mounts a new form.                     *)
Remount(a) ==
  /\ form' = [form EXCEPT ![a] = NewUserForm]
  /\ requests' = {[r EXCEPT !.awaited = r.awaited /\ r.admin # a] :
                    r \in requests}
  /\ UNCHANGED <<rows, asked>>

-----------------------------------------------------------------------------
(* AddUserHandler.                                                         *)

Moves(r, stage) ==
  requests' = (requests \ {r}) \cup {[r EXCEPT !.stage = stage]}
Fails(r) == Moves(r, "failed") /\ UNCHANGED rows
Taken(n) == \E i \in DOMAIN rows : rows[i].name = n
AddRow(r) ==
  rows' = [i \in DOMAIN rows \cup {r.id} |->
             IF i = r.id THEN [name |-> asked[r.id].name, perms |-> {}]
             ELSE rows[i]]

(* Validation, the sender's permission, the permission rows, the count of  *)
(* equal names; any of it refuses, or the database fails.                  *)
CheckUser(r) ==
  /\ r.stage = "posted"
  /\ \/ /\ asked[r.id].name # NoName /\ ~Taken(asked[r.id].name)
        /\ Moves(r, "checked") /\ UNCHANGED rows
     \/ Fails(r)
  /\ UNCHANGED <<form, asked>>

(* Mutant: the table has no unique index; the count is all there is.       *)
InsertCountedUser(r) ==
  /\ r.stage = "checked"
  /\ \/ /\ AddRow(r)
        /\ Moves(r, IF asked[r.id].perms = {} THEN "done" ELSE "inserted")
     \/ Fails(r)
  /\ UNCHANGED <<form, asked>>

(* db.Create; the unique index rejects a name inserted since the count.    *)
InsertUser(r) ==
  /\ r.stage = "checked"
  /\ \/ /\ ~Taken(asked[r.id].name)
        /\ AddRow(r)
        /\ Moves(r, IF asked[r.id].perms = {} THEN "done" ELSE "inserted")
     \/ Fails(r)
  /\ UNCHANGED <<form, asked>>

(* Mutant: the error of the assignment is not looked at.                   *)
AssignUnchecked(r) ==
  /\ r.stage = "inserted"
  /\ \/ rows' = [rows EXCEPT ![r.id].perms = asked[r.id].perms]
     \/ UNCHANGED rows
  /\ Moves(r, "done")
  /\ UNCHANGED <<form, asked>>

(* Appending the permissions: all in one statement, or an error.           *)
AssignPermissions(r) ==
  /\ r.stage = "inserted"
  /\ \/ /\ rows' = [rows EXCEPT ![r.id].perms = asked[r.id].perms]
        /\ Moves(r, "done")
     \/ Fails(r)
  /\ UNCHANGED <<form, asked>>

-----------------------------------------------------------------------------
(* The answer: a password, or an error next to a password shown before.    *)

AnswerUser(r) ==
  /\ r.stage \in {"done", "failed"}
  /\ requests' = requests \ {r}
  /\ form' = IF ~r.awaited THEN form
             ELSE IF r.stage = "done"
                  THEN [form EXCEPT ![r.admin].password = r.id]
                  ELSE [form EXCEPT ![r.admin].error = TRUE]
  /\ UNCHANGED <<rows, asked>>

(* fetch rejects, while the server may go on.                              *)
LoseUser(r) ==
  /\ r.awaited
  /\ form' = [form EXCEPT ![r.admin].error = TRUE]
  /\ requests' = (requests \ {r}) \cup {[r EXCEPT !.awaited = FALSE]}
  /\ UNCHANGED <<rows, asked>>

AddUserNext ==
  \/ \E a \in Admins :
       \/ ListPermissions(a) \/ SubmitUser(a) \/ Reset(a) \/ Remount(a)
       \/ \E n \in Usernames \cup {NoName} : SetName(a, n)
       \/ \E p \in Permissions : TogglePermission(a, p)
  \/ \E r \in requests :
       \/ CheckUser(r) \/ InsertUser(r) \/ AssignPermissions(r)
       \/ AnswerUser(r) \/ LoseUser(r)

AddUserSpec == AddUserInit /\ [][AddUserNext]_addUserVars

-----------------------------------------------------------------------------
(* The values the variables take; only submissions make rows.              *)
AddUserTypeOK ==
  /\ form \in [Admins -> UserForm] /\ requests \subseteq UserRequest
  /\ Len(asked) <= MaxRequests /\ DOMAIN rows \subseteq DOMAIN asked
  /\ \A i \in DOMAIN rows : rows[i] \in Row

(* However the requests of several administrators interleave, no two users *)
(* have the same name.                                                     *)
UsernamesUnique ==
  \A i, j \in DOMAIN rows : rows[i].name = rows[j].name => i = j

(* A password on the form is that of a user who exists with exactly the    *)
(* permissions asked for and, unless the form was used meanwhile, with the *)
(* name beside the password.                                               *)
CredentialsComplete ==
  \A a \in Admins : LET i == form[a].password IN
    i # 0 => /\ i \in DOMAIN rows /\ rows[i].perms = asked[i].perms
             /\ ~form[a].mixed => rows[i].name = form[a].name
=============================================================================
