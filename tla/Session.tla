------------------------------ MODULE Session ------------------------------
(***************************************************************************)
(* The browser's side of a login: the localStorage that every tab of one   *)
(* browser shares, the React state each tab keeps of it (AuthProvider),    *)
(* the routes and menus that depend on it, the login dialog, the forced    *)
(* change of a first password, and the two account handlers that answer.   *)
(* JavaScript runs one callback at a time in a tab, so a callback is one   *)
(* step; tabs, calls on the wire, timers and the server interleave.        *)
(***************************************************************************)
EXTENDS Naturals, FiniteSetsExt

CONSTANTS
  Users,           \* registered users
  Fresh,           \* users whose first password was generated by an admin
  Permissions,     \* Permissions[u]: the permissions of u's account
  Tabs,            \* tabs of one browser
  Visited,         \* paths the users navigate to in this instance
  NoUser,          \* null in localStorage and in React state
  NoTab,           \* the sender of a request whose tab was reloaded
  MaxCalls,        \* bound on the login and password requests, from 1
  MaxLoads,        \* bound on the reloads of all tabs
  Paid,            \* users that the server makes payments to
  MaxPayments      \* bound on these payments

Paths == {"/", "/?showLogin=true", "/style", "/about", "/markets/:marketId",
          "/user/:username", "/stats", "/changepassword", "/create",
          "/notifications", "/profile", "/admin", "*"}

AllPermissions == {"create_markets", "create_users"}

ASSUME SessionAssumption ==
  /\ Fresh \subseteq Users /\ Paid \subseteq Users
  /\ NoUser \notin Users /\ NoTab \notin Tabs
  /\ Permissions \in [Users -> SUBSET AllPermissions]
  /\ Visited \subseteq Paths
  /\ MaxCalls \in Nat \ {0} /\ MaxLoads \in Nat /\ MaxPayments \in Nat

VARIABLES
  accounts,   \* table users: must_change_password and the password
  storage,    \* localStorage: token, username, permissions, flag
  auth,       \* per tab, the state of AuthProvider
  page,       \* per tab, path, login dialog and page load
  calls,      \* requests on the wire or being served
  timers,     \* per tab, the delayed logouts: token when they were set
  payment,    \* the account row a payment has read and will write back
  sent,       \* requests sent so far
  payments,   \* payments started so far
  spent,      \* history: per tab, the sessions whose password change was
              \* accepted since the tab loaded
  cleared     \* history: users whose flag has been cleared at some time

server  == <<accounts, payment, payments, cleared>>
browser == <<storage, auth, page, timers, spent>>
vars == <<accounts, storage, auth, page, calls, timers, payment, sent,
          payments, spent, cleared>>

(* Token 0 is null; login number n issues token n.  The flag is a string   *)
(* in localStorage and null, false or true in React state.                 *)
Flags == {"unset", "false", "true"}
Stored == [token : 0..MaxCalls, user : Users \cup {NoUser},
           perms : SUBSET AllPermissions, must : Flags]
Auth == [in : BOOLEAN, token : 0..MaxCalls, user : Users \cup {NoUser},
         perms : SUBSET AllPermissions, must : Flags]

Empty == [token |-> 0, user |-> NoUser, perms |-> {}, must |-> "unset"]

Flag(b) == IF b THEN "true" ELSE "false"

-----------------------------------------------------------------------------
(* AppRoutes.                                                              *)

LoggedIn(a) == a.user # NoUser
MustChange(a) == LoggedIn(a) /\ a.must = "true"

Gated == {"/", "/?showLogin=true", "/about", "/markets/:marketId",
          "/user/:username", "/stats"}

(* Mutant: the page to change a password sends away who must change it.    *)
HopInCircles(a, p) ==
  CASE p = "/changepassword" /\ MustChange(a) -> "/"
    [] p = "/" /\ MustChange(a) -> "/changepassword"
    [] OTHER -> p

(* One rendering of a route: the path itself, or where <Redirect> leads.   *)
Hop(a, p) ==
  CASE p \in Gated -> IF MustChange(a) THEN "/changepassword" ELSE p
    [] p \in {"/changepassword", "/profile"} -> IF LoggedIn(a) THEN p ELSE "/"
    [] p \in {"/create", "/notifications"} ->
         IF ~LoggedIn(a) THEN "/"
         ELSE IF MustChange(a) THEN "/changepassword"
         ELSE IF p = "/create" /\ "create_markets" \notin a.perms THEN "/"
         ELSE p
    [] p = "/admin" ->
         IF MustChange(a) THEN "/changepassword"
         ELSE IF LoggedIn(a) /\ "create_users" \in a.perms THEN p
         ELSE "/"
    [] OTHER -> p

Landing(a, p) == Hop(a, Hop(a, p))

(* TopNav: what it offers in every state (the logo, About, the filters and *)
(* the search, whose links lead to "/" or to a market), and the menu of    *)
(* each of its three states.                                               *)
BarLinks == {"/", "/about", "/markets/:marketId"}
GuestLinks == {"/about", "/stats"}
UserLinks(a) ==
  {"/profile", "/notifications", "/stats", "/about"}
    \cup {l \in {"/admin"} : "create_users" \in a.perms}
    \cup {l \in {"/create"} : "create_markets" \in a.perms}
NavLinks(a) ==
  BarLinks \cup (IF ~a.in THEN GuestLinks
                 ELSE IF a.must = "true" THEN {"/changepassword"}
                 ELSE UserLinks(a))

(* Path p is rendered for state a.  The login button is only mounted while *)
(* TopNav is logged out; its effect opens the dialog on ?showLogin=true,   *)
(* and unmounting it forgets the dialog.                                   *)
Land(a, p, view) ==
  LET q == Landing(a, p)
  IN  IF a.in
      THEN [view EXCEPT !.path = q, !.modal = FALSE, !.redirect = "/"]
      ELSE IF q = "/?showLogin=true"
      THEN [view EXCEPT !.path = Landing(a, "/"), !.modal = TRUE,
                        !.redirect = "/"]
      ELSE [view EXCEPT !.path = q]

Become(t, a, p) ==
  /\ auth' = [auth EXCEPT ![t] = a]
  /\ page' = [page EXCEPT ![t] = Land(a, p, page[t])]

-----------------------------------------------------------------------------
(* A tab loads the application: AuthProvider's initial state.              *)
Loaded(s) == [in |-> FALSE, token |-> s.token, user |-> s.user,
              perms |-> s.perms, must |-> "unset"]

(* What an earlier visit, with its login number 1, has left in the browser. *)
EarlierVisit ==
  {Empty} \cup {[token |-> 1, user |-> u, perms |-> Permissions[u],
                 must |-> Flag(TRUE)] : u \in Fresh}

Init ==
  /\ accounts = [u \in Users |-> [must |-> u \in Fresh, password |-> 0]]
  /\ storage \in EarlierVisit
  /\ auth = [t \in Tabs |-> Loaded(storage)]
  /\ page = [t \in Tabs |-> [path |-> "/", restored |-> FALSE,
                             modal |-> FALSE, redirect |-> "/", loads |-> 0]]
  /\ calls = {}
  /\ timers = [t \in Tabs |-> {}] /\ spent = [t \in Tabs |-> {}]
  /\ payment = [user |-> NoUser, must |-> FALSE, password |-> 0]
  /\ sent = 1 /\ payments = 0
  /\ cleared = Users \ Fresh

(* Reloading kills the tab's timers and its interest in running requests,  *)
(* which the server serves all the same.                                   *)
Reload(t) ==
  /\ MapThenSumSet(LAMBDA o : page[o].loads, Tabs) < MaxLoads
  /\ auth' = [auth EXCEPT ![t] = Loaded(storage)]
  /\ page' = [page EXCEPT ![t] = Land(Loaded(storage), page[t].path,
                [path |-> page[t].path, restored |-> FALSE, modal |-> FALSE,
                 redirect |-> "/", loads |-> page[t].loads + 1])]
  /\ timers' = [timers EXCEPT ![t] = {}]
  /\ spent' = [spent EXCEPT ![t] = {}]
  /\ calls' = {IF c.tab = t THEN [c EXCEPT !.tab = NoTab] ELSE c : c \in calls}
  /\ UNCHANGED <<server, storage, sent>>

(* Mutant: the effect takes over the user but keeps the permissions that   *)
(* were read when the tab loaded.                                          *)
RestoredKeepingPerms(a, s) ==
  [in |-> TRUE, token |-> s.token, user |-> s.user, perms |-> a.perms,
   must |-> s.must]

Restored(a, s) ==
  [in |-> TRUE, token |-> s.token, user |-> s.user, perms |-> s.perms,
   must |-> Flag(s.must = "true")]

(* The effect of AuthProvider, after the first rendering.                  *)
Restore(t) ==
  /\ ~page[t].restored
  /\ LET a == IF storage.token # 0 THEN Restored(auth[t], storage)
              ELSE auth[t]
     IN  /\ auth' = [auth EXCEPT ![t] = a]
         /\ page' = [page EXCEPT ![t] =
              Land(a, page[t].path, [page[t] EXCEPT !.restored = TRUE])]
  /\ UNCHANGED <<server, storage, calls, timers, sent, spent>>

Navigate(t, p) ==
  /\ page[t].restored
  /\ Become(t, auth[t], p)
  /\ UNCHANGED <<server, storage, calls, timers, sent, spent>>

(* LoginModalButton: "Log In", and the ways to close the dialog.           *)
OpenLogin(t) ==
  /\ page[t].restored /\ ~auth[t].in
  /\ page' = [page EXCEPT ![t].modal = TRUE, ![t].redirect = page[t].path]
  /\ UNCHANGED <<server, storage, auth, calls, timers, sent, spent>>

CloseLogin(t) ==
  /\ page[t].modal
  /\ page' = [page EXCEPT ![t].modal = FALSE]
  /\ UNCHANGED <<server, storage, auth, calls, timers, sent, spent>>

-----------------------------------------------------------------------------
(* A request on the wire: what was typed, whose token it carries, and how  *)
(* far the server is with it.                                              *)
Calls == [id : 1..MaxCalls, tab : Tabs \cup {NoTab},
          kind : {"login", "password"}, user : Users \cup {NoUser},
          password : 0..MaxCalls, redirect : Paths,
          state : {"sent", "checked", "ok", "refused"}, must : BOOLEAN]

Send(call) ==
  /\ sent < MaxCalls
  /\ sent' = sent + 1
  /\ calls' = calls \cup {call}

Advance(c, d) == calls' = (calls \ {c}) \cup {d}

(* LoginModal.handleSubmit up to its await.                                *)
SubmitLogin(t, u) ==
  /\ page[t].modal
  /\ Send([id |-> sent + 1, tab |-> t, kind |-> "login", user |-> u,
           password |-> accounts[u].password, redirect |-> page[t].redirect,
           state |-> "sent", must |-> FALSE])
  /\ UNCHANGED <<server, browser>>

ServeLogin(c) ==
  /\ c.kind = "login" /\ c.state = "sent"
  /\ Advance(c, IF c.password = accounts[c.user].password
                THEN [c EXCEPT !.state = "ok", !.must = accounts[c.user].must]
                ELSE [c EXCEPT !.state = "refused"])
  /\ UNCHANGED <<server, browser, sent>>

(* Mutant: login stores token, name and permissions but not the flag.      *)
StoredWithoutFlag(c) ==
  [token |-> c.id, user |-> c.user, perms |-> Permissions[c.user],
   must |-> storage.must]

StoredLogin(c) ==
  [token |-> c.id, user |-> c.user, perms |-> Permissions[c.user],
   must |-> Flag(c.must)]

(* login() after its await, then the rest of handleSubmit: nothing checks  *)
(* whether the dialog is still open or who has logged in meanwhile.        *)
LoginAnswered(c) ==
  /\ c.kind = "login" /\ c.state \in {"ok", "refused"} /\ c.tab \in Tabs
  /\ calls' = calls \ {c}
  /\ IF c.state = "ok"
     THEN /\ storage' = StoredLogin(c)
          /\ Become(c.tab, [in |-> TRUE, token |-> c.id, user |-> c.user,
                            perms |-> Permissions[c.user],
                            must |-> Flag(c.must)], c.redirect)
     ELSE UNCHANGED <<storage, auth, page>>
  /\ UNCHANGED <<server, timers, sent, spent>>

Cleared(s) == Empty

LogoutTo(t, p) ==
  /\ storage' = Cleared(storage)
  /\ Become(t, Loaded(Empty), p)

Logout(t) ==
  /\ auth[t].in
  /\ LogoutTo(t, page[t].path)
  /\ UNCHANGED <<server, calls, timers, sent, spent>>

-----------------------------------------------------------------------------
(* ChangePasswordLayout.handleSubmit up to its await: the token comes from *)
(* localStorage, the typed password is that of the user the page shows.    *)
SubmitPassword(t) ==
  /\ page[t].restored /\ page[t].path = "/changepassword"
  /\ LET u == auth[t].user
     IN  Send([id |-> sent + 1, tab |-> t, kind |-> "password",
               user |-> IF storage.token # 0 /\ storage.user = u THEN u
                        ELSE NoUser,
               password |-> accounts[u].password, redirect |-> "/",
               state |-> "sent", must |-> FALSE])
  /\ UNCHANGED <<server, browser>>

(* The handler reads the row of the token's user and checks the typed      *)
(* password; a token of another user than the typed password's is refused. *)
CheckPassword(c) ==
  /\ c.kind = "password" /\ c.state = "sent"
  /\ Advance(c, IF c.user # NoUser /\ c.password = accounts[c.user].password
                THEN [c EXCEPT !.state = "checked"]
                ELSE [c EXCEPT !.state = "refused"])
  /\ UNCHANGED <<server, browser, sent>>

(* Mutant: the handler saves the new password and leaves the flag.         *)
SavePasswordKeepingFlag(c) ==
  /\ c.kind = "password" /\ c.state = "checked"
  /\ Advance(c, [c EXCEPT !.state = "ok"])
  /\ accounts' = [accounts EXCEPT ![c.user].password = c.id]
  /\ cleared' = cleared \cup {c.user}
  /\ UNCHANGED <<browser, payment, payments, sent>>

SavePassword(c) ==
  /\ c.kind = "password" /\ c.state = "checked"
  /\ Advance(c, [c EXCEPT !.state = "ok"])
  /\ accounts' = [accounts EXCEPT ![c.user] =
                    [must |-> FALSE, password |-> c.id]]
  /\ cleared' = cleared \cup {c.user}
  /\ UNCHANGED <<browser, payment, payments, sent>>

(* A payment of a resolved market reads the user's row and saves all of it *)
(* (ApplyTransactionToUser), which undoes a change made in between.        *)
PaymentReads(u) ==
  /\ payment.user = NoUser /\ payments < MaxPayments
  /\ payments' = payments + 1
  /\ payment' = [user |-> u, must |-> accounts[u].must,
                 password |-> accounts[u].password]
  /\ UNCHANGED <<accounts, cleared, browser, calls, sent>>

PaymentSaves ==
  /\ payment.user # NoUser
  /\ accounts' = [accounts EXCEPT ![payment.user] =
                    [must |-> payment.must, password |-> payment.password]]
  /\ payment' = [user |-> NoUser, must |-> FALSE, password |-> 0]
  /\ UNCHANGED <<payments, cleared, browser, calls, sent>>

(* handleSubmit after its await: success sets the timer.                   *)
PasswordAnswered(c) ==
  /\ c.kind = "password" /\ c.state \in {"ok", "refused"} /\ c.tab \in Tabs
  /\ calls' = calls \ {c}
  /\ LET now == IF c.state = "ok" THEN {auth[c.tab].token} ELSE {}
     IN  /\ timers' = [timers EXCEPT ![c.tab] = @ \cup now]
         /\ spent' = [spent EXCEPT ![c.tab] = @ \cup (now \ {0})]
  /\ UNCHANGED <<server, storage, auth, page, sent>>

(* Mutant: the timer dies with the page that set it.                       *)
TimerOnPageOnly(t) ==
  \E k \in timers[t] :
    /\ timers' = [timers EXCEPT ![t] = @ \ {k}]
    /\ IF page[t].path = "/changepassword"
       THEN LogoutTo(t, "/?showLogin=true")
       ELSE UNCHANGED <<storage, auth, page>>
    /\ UNCHANGED <<server, calls, sent, spent>>

(* Two seconds later: logout() and the way to the login dialog, whatever   *)
(* the tab is doing and whoever is logged in by then.                      *)
TimerFires(t) ==
  \E k \in timers[t] :
    /\ timers' = [timers EXCEPT ![t] = @ \ {k}]
    /\ LogoutTo(t, "/?showLogin=true")
    /\ UNCHANGED <<server, calls, sent, spent>>

(* The answer to a tab that was reloaded has no reader.                    *)
Unread(c) ==
  /\ c.tab = NoTab /\ c.state \in {"ok", "refused"}
  /\ calls' = calls \ {c}
  /\ UNCHANGED <<server, browser, sent>>

-----------------------------------------------------------------------------
Serve == \E c \in calls : ServeLogin(c) \/ CheckPassword(c) \/ SavePassword(c)
Answer == \E c \in calls : LoginAnswered(c) \/ PasswordAnswered(c) \/ Unread(c)

Next ==
  \/ \E t \in Tabs :
       \/ Reload(t) \/ Restore(t) \/ OpenLogin(t) \/ CloseLogin(t)
       \/ Logout(t) \/ SubmitPassword(t) \/ TimerFires(t)
       \/ \E p \in Visited : Navigate(t, p)
       \/ \E u \in Users : SubmitLogin(t, u)
  \/ Serve \/ Answer
  \/ \E u \in Paid : PaymentReads(u)
  \/ PaymentSaves

(* The server and the browser keep working; users need not do anything.    *)
Fairness ==
  /\ WF_vars(Serve) /\ WF_vars(Answer)
  /\ \A t \in Tabs : WF_vars(Restore(t)) /\ WF_vars(TimerFires(t))

Spec == Init /\ [][Next]_vars /\ Fairness

-----------------------------------------------------------------------------
(* The values the variables take.                                          *)
TypeOK ==
  /\ accounts \in [Users -> [must : BOOLEAN, password : 0..MaxCalls]]
  /\ storage \in Stored
  /\ auth \in [Tabs -> Auth]
  /\ page \in [Tabs -> [path : Paths, restored : BOOLEAN, modal : BOOLEAN,
                        redirect : Paths, loads : 0..MaxLoads]]
  /\ calls \subseteq Calls
  /\ timers \in [Tabs -> SUBSET (0..MaxCalls)]
  /\ spent \in [Tabs -> SUBSET (1..MaxCalls)]
  /\ cleared \subseteq Users

(* A tab treats its user as free of the forced password change only if the *)
(* server has cleared the flag of that user at some time, however logins,  *)
(* logouts and reloads of several tabs interleave.                         *)
GateFollowsServer ==
  \A t \in Tabs : auth[t].must = "false" => auth[t].user \in cleared

(* The menus and routes of a tab go by the permissions of the very user it *)
(* shows, also when another tab logs in between a load and its restore.    *)
PermissionsOfUser ==
  \A t \in Tabs :
    auth[t].user # NoUser => auth[t].perms = Permissions[auth[t].user]

(* No state of the login makes the redirects of the routes go in circles:  *)
(* every path settles after two of them.  TopNav, which goes by isLoggedIn *)
(* and the flag, and AppRoutes, which goes by the user name, agree on the  *)
(* state: a link of TopNav leads to the page it names, unless the first    *)
(* password must be changed; then each of them leads to that change.       *)
RedirectsSettle ==
  \A t \in Tabs :
    /\ \A p \in Paths :
         Hop(auth[t], Landing(auth[t], p)) = Landing(auth[t], p)
    /\ \A l \in NavLinks(auth[t]) :
         Landing(auth[t], l) =
           IF MustChange(auth[t]) THEN "/changepassword" ELSE l

(* The forced change is due exactly while the generated password is in     *)
(* force, also after a payment has undone a change.                        *)
FlagMarksFirstPassword ==
  \A u \in Fresh : accounts[u].must <=> accounts[u].password = 0

(* An accepted change of the password ends the session it was made in, or  *)
(* the tab is reloaded: leaving the page does not keep it alive.           *)
PasswordChangeEndsSession ==
  \A t \in Tabs :
    (auth[t].token \in spent[t]) ~> (auth[t].token \notin spent[t])
=============================================================================
