------------------------------ MODULE MCForms -------------------------------
(* The three forms for TLC, each on its own: one page is open at a time.   *)
EXTENDS CreateForm, AddUserForm, ProfileForm

CONSTANTS f1, f2, a1, a2, u1, p1

VARIABLE open    \* the form of this behaviour

vars == <<open, createVars, addUserVars, profileVars>>

Init == /\ open \in {"create", "addUser", "profile"}
        /\ CreateInit /\ AddUserInit /\ ProfileInit
Creating == /\ open = "create" /\ CreateNext
            /\ UNCHANGED <<open, addUserVars, profileVars>>
AddingUser == /\ open = "addUser" /\ AddUserNext
              /\ UNCHANGED <<open, createVars, profileVars>>
EditingProfile == /\ open = "profile" /\ ProfileNext
                  /\ UNCHANGED <<open, createVars, addUserVars>>
Next == Creating \/ AddingUser \/ EditingProfile

Spec == Init /\ [][Next]_vars /\ CreateFairness

(* The variables of the three forms keep their types.                      *)
TypeOK == CreateTypeOK /\ AddUserTypeOK /\ ProfileTypeOK
=============================================================================
