--------------------------- MODULE SessionProofs ---------------------------
(***************************************************************************)
(* The theorems about logins: for any number of users, tabs, logins,       *)
(* reloads, password changes and payments, in any order.                   *)
(***************************************************************************)
EXTENDS Session, TLAPS

-----------------------------------------------------------------------------
(* The inductive invariant *)

Account == [must : BOOLEAN, password : 0..MaxCalls]
PaidRow == [user : Users \cup {NoUser}, must : BOOLEAN,
            password : 0..MaxCalls]
View == [path : Paths, restored : BOOLEAN, modal : BOOLEAN,
         redirect : Paths, loads : Nat]

SessionTyped ==
  /\ accounts \in [Users -> Account] /\ payment \in PaidRow
  /\ storage \in Stored /\ auth \in [Tabs -> Auth]
  /\ page \in [Tabs -> View] /\ calls \subseteq Calls
  /\ sent \in 1..MaxCalls /\ cleared \subseteq Users

(* A row of the table, or as a payment has read it.                        *)
RowTrue(u, row) ==
  /\ ~row.must => u \in cleared
  /\ u \in Fresh => (row.must <=> row.password = 0)

RowsTrue ==
  /\ \A u \in Users : RowTrue(u, accounts[u])
  /\ payment.user # NoUser => RowTrue(payment.user, payment)

(* Whom the server knows the sender to be, and what it tells him.          *)
CallTrue(c) ==
  /\ c.kind = "login" \/ c.state = "checked" => c.user \in Users
  /\ (c.kind = "login" /\ c.state = "ok" /\ ~c.must) => c.user \in cleared

(* What localStorage, and the state of a tab, say of their user.           *)
StorageTrue ==
  /\ storage.token # 0 => storage.user \in Users /\ storage.must # "unset"
  /\ storage.user # NoUser => storage.perms = Permissions[storage.user]
  /\ storage.must = "false" => storage.user \in cleared

TabTrue(a) ==
  /\ a.in => a.user # NoUser
  /\ ~a.in => a.must = "unset"
  /\ a.user # NoUser => a.perms = Permissions[a.user]
  /\ a.must = "false" => a.user \in cleared

(* A tab shows no page that AppRoutes does not open to its state.          *)
Opens(a, p) == Hop(a, p) = p

SessionInv ==
  /\ SessionTyped /\ RowsTrue /\ StorageTrue
  /\ \A c \in calls : CallTrue(c)
  /\ \A t \in Tabs : TabTrue(auth[t]) /\ Opens(auth[t], page[t].path)

-----------------------------------------------------------------------------
(* Routes *)

LEMMA HopOnce ==
  ASSUME NEW a, NEW p \in Paths
  PROVE  Hop(a, p) \in Paths /\ Hop(a, p) \in {p, "/", "/changepassword"}
BY DEF Hop, Paths, Gated

(* Two redirects are enough.                                               *)
LEMMA LandingSettles ==
  ASSUME NEW a, NEW p \in Paths
  PROVE  Landing(a, p) \in Paths /\ Opens(a, Landing(a, p))
<1>1. CASE MustChange(a)
  <2>1. LoggedIn(a)
    BY <1>1 DEF MustChange
  <2>2. /\ Hop(a, "/changepassword") = "/changepassword"
        /\ Hop(a, "/") = "/changepassword"
    BY <1>1, <2>1 DEF Hop, Gated
  <2>3. Hop(a, p) \in {p, "/", "/changepassword"}
    BY HopOnce
  <2>4. CASE Hop(a, p) = p
    BY <2>4, HopOnce DEF Landing, Opens
  <2>5. CASE Hop(a, p) # p
    <3>1. Landing(a, p) = "/changepassword"
      BY <2>2, <2>3, <2>5 DEF Landing
    <3> QED  BY <2>2, <3>1 DEF Opens, Paths
  <2> QED  BY <2>4, <2>5
<1>2. CASE ~MustChange(a)
  <2>1. Hop(a, "/") = "/"
    BY <1>2 DEF Hop, Gated
  <2>2. Hop(a, p) \in {p, "/"}
    BY <1>2 DEF Hop, Gated, Paths
  <2>3. Landing(a, p) \in {p, "/"} /\ Opens(a, Landing(a, p))
    BY <2>1, <2>2 DEF Landing, Opens
  <2> QED  BY <2>3 DEF Paths
<1> QED  BY <1>1, <1>2

LEMMA LandOpens ==
  ASSUME NEW a, NEW p \in Paths, NEW v \in View
  PROVE  Land(a, p, v) \in View /\ Opens(a, Land(a, p, v).path)
<1> DEFINE q == Landing(a, p)
           r == Landing(a, "/")
<1>1. /\ q \in Paths /\ Opens(a, q) /\ r \in Paths /\ Opens(a, r)
      /\ "/" \in Paths
  BY LandingSettles DEF Paths
<1>2. CASE a.in
  BY <1>1, <1>2 DEF Land, View
<1>3. CASE ~a.in /\ q = "/?showLogin=true"
  BY <1>1, <1>3 DEF Land, View
<1>4. CASE ~a.in /\ q # "/?showLogin=true"
  BY <1>1, <1>4 DEF Land, View
<1> QED  BY <1>2, <1>3, <1>4

-----------------------------------------------------------------------------
(* Steps of a tab *)

(* The server and its requests in a step that does not concern them.       *)
LEMMA ServerAside ==
  ASSUME SessionInv, UNCHANGED <<server, sent>>,
         calls' \subseteq Calls, \A c \in calls' : CallTrue(c)
  PROVE  /\ RowsTrue' /\ \A c \in calls' : CallTrue(c)'
         /\ accounts' \in [Users -> Account] /\ payment' \in PaidRow
         /\ calls' \subseteq Calls /\ sent' \in 1..MaxCalls
         /\ cleared' \subseteq Users
BY DEF SessionInv, SessionTyped, RowsTrue, RowTrue, CallTrue, server

LEMMA FewerCalls ==
  ASSUME SessionInv, calls' \subseteq calls
  PROVE  calls' \subseteq Calls /\ \A c \in calls' : CallTrue(c)
BY DEF SessionInv, SessionTyped

(* Tab t goes to state a and shows view v.                                 *)
LEMMA TabStepSound ==
  ASSUME SessionInv, NEW t \in Tabs, NEW a \in Auth, NEW v \in View,
         auth' = [auth EXCEPT ![t] = a], page' = [page EXCEPT ![t] = v],
         TabTrue(a), Opens(a, v.path),
         storage' \in Stored, StorageTrue',
         UNCHANGED <<server, sent>>,
         calls' \subseteq Calls, \A c \in calls' : CallTrue(c)
  PROVE  SessionInv'
<1>1. auth \in [Tabs -> Auth] /\ page \in [Tabs -> View]
  BY DEF SessionInv, SessionTyped
<1>2. /\ auth' \in [Tabs -> Auth] /\ page' \in [Tabs -> View]
      /\ auth'[t] = a /\ page'[t] = v
      /\ \A o \in Tabs : o # t => auth'[o] = auth[o] /\ page'[o] = page[o]
  BY <1>1
<1>3. UNCHANGED cleared
  BY DEF server
<1>4. \A o \in Tabs :
        /\ TabTrue(auth'[o]) /\ cleared' = cleared
        /\ Opens(auth'[o], page'[o].path)
  BY <1>2, <1>3 DEF SessionInv
<1>5. \A o \in Tabs : TabTrue(auth[o])' /\ Opens(auth[o], page[o].path)'
  BY <1>4 DEF TabTrue, Opens
<1> QED  BY <1>2, <1>5, ServerAside DEF SessionInv, SessionTyped

LEMMA LoadedTab ==
  ASSUME NEW s \in Stored,
         s.user # NoUser => s.perms = Permissions[s.user]
  PROVE  Loaded(s) \in Auth /\ TabTrue(Loaded(s))
BY DEF Loaded, Stored, Auth, TabTrue, Flags

LEMMA EmptyStorage ==
  Empty \in Stored /\ Empty.user = NoUser /\ Empty.token = 0
  /\ Empty.must = "unset"
BY SessionAssumption DEF Empty, Stored, Flags

LEMMA RestoreSound ==
  ASSUME SessionInv, NEW t \in Tabs, Restore(t)
  PROVE  SessionInv'
<1> DEFINE a == IF storage.token # 0 THEN Restored(auth[t], storage)
                ELSE auth[t]
           w == [page[t] EXCEPT !.restored = TRUE]
           v == Land(a, page[t].path, w)
<1>1. /\ storage \in Stored /\ auth[t] \in Auth /\ page[t] \in View
      /\ TabTrue(auth[t]) /\ StorageTrue
  BY DEF SessionInv, SessionTyped
<1>2. a \in Auth /\ TabTrue(a)
  <2>1. CASE storage.token # 0
    <3> DEFINE b == Flag(storage.must = "true")
    <3>1. /\ b \in Flags /\ b # "unset"
          /\ b = "false" => storage.must = "false"
      BY <1>1, <2>1 DEF Flag, Flags, Stored, StorageTrue
    <3>2. a = [in |-> TRUE, token |-> storage.token, user |-> storage.user,
               perms |-> storage.perms, must |-> b]
      BY <2>1 DEF Restored
    <3> HIDE DEF a, b
    <3>3. storage.user \in Users /\ storage.user # NoUser
      BY <1>1, <2>1, SessionAssumption DEF StorageTrue
    <3> QED
      BY <1>1, <3>1, <3>2, <3>3 DEF Auth, Stored, TabTrue, StorageTrue
  <2>2. CASE storage.token = 0
    BY <1>1, <2>2
  <2> QED  BY <2>1, <2>2
<1>3. w \in View /\ w.path = page[t].path /\ page[t].path \in Paths
  BY <1>1 DEF View
<1> HIDE DEF a, w
<1>4. v \in View /\ Opens(a, v.path)
  BY <1>3, LandOpens
<1>5. /\ auth' = [auth EXCEPT ![t] = a] /\ page' = [page EXCEPT ![t] = v]
      /\ UNCHANGED <<server, storage, calls, sent>>
  BY DEF Restore, a, w
<1> HIDE DEF v
<1>6. storage' \in Stored /\ StorageTrue'
  BY <1>1, <1>5 DEF StorageTrue, server
<1>7. calls' \subseteq Calls /\ \A c \in calls' : CallTrue(c)
  BY <1>5, FewerCalls
<1> QED  BY <1>2, <1>4, <1>5, <1>6, <1>7, TabStepSound

(* A callback that ends in Become.                                         *)
LEMMA BecomeSound ==
  ASSUME SessionInv, NEW t \in Tabs, NEW a \in Auth, NEW p \in Paths,
         Become(t, a, p), TabTrue(a),
         storage' \in Stored, StorageTrue',
         UNCHANGED <<server, sent>>, calls' \subseteq calls
  PROVE  SessionInv'
<1> DEFINE v == Land(a, p, page[t])
<1>1. page[t] \in View
  BY DEF SessionInv, SessionTyped
<1>2. v \in View /\ Opens(a, v.path)
  BY <1>1, LandOpens
<1>3. auth' = [auth EXCEPT ![t] = a] /\ page' = [page EXCEPT ![t] = v]
  BY DEF Become
<1> HIDE DEF v
<1> QED  BY <1>2, <1>3, FewerCalls, TabStepSound

(* logout(), by the button or by the timer.                                *)
LEMMA LogoutSound ==
  ASSUME SessionInv, NEW t \in Tabs, NEW p \in Paths, LogoutTo(t, p),
         UNCHANGED <<server, calls, sent>>
  PROVE  SessionInv'
<1> DEFINE a == Loaded(Empty)
<1>1. a \in Auth /\ TabTrue(a)
  BY EmptyStorage, LoadedTab
<1>2. Become(t, a, p) /\ storage' = Empty
  BY DEF LogoutTo, Cleared
<1> HIDE DEF a
<1>3. storage' \in Stored /\ StorageTrue'
  BY <1>2, EmptyStorage DEF StorageTrue
<1> QED  BY <1>1, <1>2, <1>3, BecomeSound

(* Neither the tabs nor the storage change.                                *)
LEMMA BrowserAside ==
  ASSUME SessionInv, UNCHANGED <<storage, auth, page>>,
         cleared \subseteq cleared'
  PROVE  /\ storage' \in Stored /\ StorageTrue'
         /\ auth' \in [Tabs -> Auth] /\ page' \in [Tabs -> View]
         /\ \A t \in Tabs : TabTrue(auth[t])' /\ Opens(auth[t], page[t].path)'
BY DEF SessionInv, SessionTyped, StorageTrue, TabTrue, Opens

LEMMA ElsewhereSound ==
  ASSUME SessionInv, UNCHANGED <<storage, auth, page, server, sent>>,
         calls' \subseteq calls
  PROVE  SessionInv'
BY BrowserAside, FewerCalls, ServerAside DEF SessionInv, SessionTyped, server

LEMMA ReloadSound ==
  ASSUME SessionInv, NEW t \in Tabs, Reload(t)
  PROVE  SessionInv'
<1> DEFINE a == Loaded(storage)
           p == page[t].path
           w == [path |-> p, restored |-> FALSE, modal |-> FALSE,
                 redirect |-> "/", loads |-> page[t].loads + 1]
           v == Land(a, p, w)
<1>1. /\ storage \in Stored /\ page[t] \in View /\ StorageTrue
      /\ calls \subseteq Calls /\ \A c \in calls : CallTrue(c)
  BY DEF SessionInv, SessionTyped
<1>2. a \in Auth /\ TabTrue(a)
  BY <1>1, LoadedTab DEF StorageTrue
<1>3. page[t].loads + 1 \in Nat /\ p \in Paths /\ "/" \in Paths
  BY <1>1 DEF View, Paths
<1>4. w \in View
  BY <1>3 DEF View
<1> HIDE DEF a, w
<1>5. v \in View /\ Opens(a, v.path)
  BY <1>3, <1>4, LandOpens
<1>6. /\ auth' = [auth EXCEPT ![t] = a] /\ page' = [page EXCEPT ![t] = v]
      /\ calls' = {IF c.tab = t THEN [c EXCEPT !.tab = NoTab] ELSE c :
                     c \in calls}
      /\ UNCHANGED <<server, storage, sent>>
  BY DEF Reload, a, w
<1> HIDE DEF v
<1>7. storage' \in Stored /\ StorageTrue'
  BY <1>1, <1>6 DEF StorageTrue, server
<1>8. ASSUME NEW k \in calls'
      PROVE  k \in Calls /\ CallTrue(k)
  <2>1. PICK c \in calls : k = c \/ k = [c EXCEPT !.tab = NoTab]
    BY <1>6
  <2>2. /\ k \in Calls /\ k.kind = c.kind /\ k.state = c.state
        /\ k.user = c.user /\ k.must = c.must
    BY <1>1, <2>1 DEF Calls
  <2> QED  BY <1>1, <2>2 DEF CallTrue
<1> QED  BY <1>2, <1>5, <1>6, <1>7, <1>8, TabStepSound

LEMMA NavigateSound ==
  ASSUME SessionInv, NEW t \in Tabs, NEW p \in Visited, Navigate(t, p)
  PROVE  SessionInv'
<1> DEFINE a == auth[t]
<1>1. /\ a \in Auth /\ TabTrue(a) /\ p \in Paths /\ storage \in Stored
      /\ StorageTrue
  BY SessionAssumption DEF SessionInv, SessionTyped
<1>2. PICK b \in Auth : b = a
  BY <1>1
<1>3. Become(t, b, p) /\ UNCHANGED <<server, storage, calls, sent>>
  BY <1>2 DEF Navigate, Become
<1>4. storage' \in Stored /\ StorageTrue'
  BY <1>1, <1>3 DEF StorageTrue, server
<1> QED  BY <1>1, <1>2, <1>3, <1>4, BecomeSound

(* The dialog opens and closes on the page as it is.                       *)
LEMMA DialogSound ==
  ASSUME SessionInv, NEW t \in Tabs, OpenLogin(t) \/ CloseLogin(t)
  PROVE  SessionInv'
<1> DEFINE opened == [page[t] EXCEPT !.modal = TRUE, !.redirect = page[t].path]
           closed == [page[t] EXCEPT !.modal = FALSE]
<1>1. /\ auth \in [Tabs -> Auth] /\ page \in [Tabs -> View]
      /\ TabTrue(auth[t]) /\ Opens(auth[t], page[t].path)
      /\ storage \in Stored /\ StorageTrue
  BY DEF SessionInv, SessionTyped
<1>2. /\ opened \in View /\ opened.path = page[t].path
      /\ closed \in View /\ closed.path = page[t].path
  BY <1>1 DEF View
<1>3. /\ \/ page' = [page EXCEPT ![t] = opened]
         \/ page' = [page EXCEPT ![t] = closed]
      /\ UNCHANGED <<server, storage, auth, calls, sent>>
  BY <1>1 DEF OpenLogin, CloseLogin
<1>4. PICK v \in View : v.path = page[t].path
                        /\ page' = [page EXCEPT ![t] = v]
  BY <1>2, <1>3
<1> HIDE DEF opened, closed
<1>5. PICK a \in Auth : a = auth[t]
  BY <1>1
<1>6. auth' = [auth EXCEPT ![t] = a]
  BY <1>1, <1>3, <1>5
<1>7. storage' \in Stored /\ StorageTrue'
  BY <1>1, <1>3 DEF StorageTrue, server
<1> QED
  BY <1>1, <1>3, <1>4, <1>5, <1>6, <1>7, FewerCalls, TabStepSound

LEMMA LoginAnsweredSound ==
  ASSUME SessionInv, NEW c \in calls, LoginAnswered(c)
  PROVE  SessionInv'
<1> DEFINE s == StoredLogin(c)
           a == [in |-> TRUE, token |-> c.id, user |-> c.user,
                 perms |-> Permissions[c.user], must |-> Flag(c.must)]
<1>1. /\ c \in Calls /\ CallTrue(c) /\ c.kind = "login" /\ c.tab \in Tabs
      /\ calls' = calls \ {c} /\ UNCHANGED <<server, sent>>
      /\ storage \in Stored /\ StorageTrue
  BY DEF SessionInv, SessionTyped, LoginAnswered
<1>2. CASE c.state = "ok"
  <2>1. /\ c.user \in Users /\ c.user # NoUser
        /\ c.id \in 0..MaxCalls /\ c.id # 0
        /\ Permissions[c.user] \in SUBSET AllPermissions
        /\ ~c.must => c.user \in cleared
        /\ c.must \in BOOLEAN
    BY <1>1, <1>2, SessionAssumption DEF CallTrue, Calls
  <2>2. /\ Flag(c.must) \in Flags /\ Flag(c.must) # "unset"
        /\ Flag(c.must) = "false" => ~c.must
    BY <2>1 DEF Flag, Flags
  <2>3. s = [token |-> c.id, user |-> c.user,
             perms |-> Permissions[c.user], must |-> Flag(c.must)]
    BY DEF StoredLogin
  <2> HIDE DEF s
  <2>4. s \in Stored
    BY <2>1, <2>2, <2>3 DEF Stored
  <2>5. a \in Auth /\ TabTrue(a)
    BY <2>1, <2>2 DEF Auth, TabTrue
  <2>6. storage' = s /\ Become(c.tab, a, c.redirect)
    BY <1>2 DEF LoginAnswered, s
  <2> HIDE DEF a
  <2>7. storage' \in Stored /\ StorageTrue'
    BY <1>1, <2>1, <2>2, <2>3, <2>4, <2>6 DEF StorageTrue, server
  <2>8. c.redirect \in Paths
    BY <1>1 DEF Calls
  <2> QED  BY <1>1, <2>5, <2>6, <2>7, <2>8, BecomeSound
<1>3. CASE c.state # "ok"
  <2>1. UNCHANGED <<storage, auth, page>>
    BY <1>3 DEF LoginAnswered
  <2> QED  BY <1>1, <2>1, ElsewhereSound
<1> QED  BY <1>2, <1>3

-----------------------------------------------------------------------------
(* Requests and the server *)

(* A request is sent, or the server goes on with one.                      *)
LEMMA CallSound ==
  ASSUME SessionInv, NEW call \in Calls, CallTrue(call),
         calls' \subseteq calls \cup {call}, sent' \in 1..MaxCalls,
         UNCHANGED <<server, browser>>
  PROVE  SessionInv'
<1>1. UNCHANGED <<storage, auth, page, cleared, accounts, payment>>
  BY DEF server, browser
<1>2. /\ storage' \in Stored /\ StorageTrue'
      /\ auth' \in [Tabs -> Auth] /\ page' \in [Tabs -> View]
      /\ \A t \in Tabs : TabTrue(auth[t])' /\ Opens(auth[t], page[t].path)'
  BY <1>1, BrowserAside
<1>3. /\ calls' \subseteq Calls /\ \A c \in calls' : CallTrue(c)
  BY DEF SessionInv, SessionTyped
<1>4. \A c \in calls' : CallTrue(c)'
  BY <1>1, <1>3 DEF CallTrue
<1>5. RowsTrue'
  BY <1>1 DEF SessionInv, RowsTrue, RowTrue
<1> QED
  BY <1>1, <1>2, <1>3, <1>4, <1>5 DEF SessionInv, SessionTyped

LEMMA SubmitSound ==
  ASSUME SessionInv, NEW t \in Tabs,
         SubmitPassword(t) \/ \E u \in Users : SubmitLogin(t, u)
  PROVE  SessionInv'
<1>1. /\ sent \in 1..MaxCalls /\ MaxCalls \in Nat /\ page[t] \in View
      /\ accounts \in [Users -> Account] /\ auth[t] \in Auth
      /\ Opens(auth[t], page[t].path)
      /\ \A u \in Users : accounts[u].password \in 0..MaxCalls
  BY SessionAssumption DEF SessionInv, SessionTyped, Account
<1>2. ASSUME NEW u \in Users, SubmitLogin(t, u)
      PROVE  SessionInv'
  <2> DEFINE call == [id |-> sent + 1, tab |-> t, kind |-> "login",
                      user |-> u, password |-> accounts[u].password,
                      redirect |-> page[t].redirect, state |-> "sent",
                      must |-> FALSE]
  <2>1. /\ sent < MaxCalls /\ sent' = sent + 1 /\ calls' = calls \cup {call}
        /\ UNCHANGED <<server, browser>>
    BY <1>2 DEF SubmitLogin, Send
  <2>2. sent + 1 \in 1..MaxCalls /\ page[t].redirect \in Paths
    BY <1>1, <2>1 DEF View
  <2>3. call \in Calls /\ CallTrue(call)
    BY <1>1, <2>2 DEF Calls, CallTrue
  <2> HIDE DEF call
  <2> QED  BY <2>1, <2>2, <2>3, CallSound
<1>3. ASSUME SubmitPassword(t)
      PROVE  SessionInv'
  <2> DEFINE u == auth[t].user
             who == IF storage.token # 0 /\ storage.user = u THEN u
                    ELSE NoUser
             call == [id |-> sent + 1, tab |-> t, kind |-> "password",
                      user |-> who, password |-> accounts[u].password,
                      redirect |-> "/", state |-> "sent", must |-> FALSE]
  <2>1. /\ sent < MaxCalls /\ sent' = sent + 1 /\ calls' = calls \cup {call}
        /\ UNCHANGED <<server, browser>> /\ page[t].path = "/changepassword"
    BY <1>3 DEF SubmitPassword, Send
  <2>2. u # NoUser
    <3>1. Hop(auth[t], "/changepassword") = "/changepassword"
      BY <1>1, <2>1 DEF Opens
    <3> QED  BY <3>1 DEF Hop, Gated, LoggedIn
  <2>3. u \in Users /\ who \in Users \cup {NoUser}
    BY <1>1, <2>2 DEF Auth
  <2> HIDE DEF who
  <2>4. sent + 1 \in 1..MaxCalls /\ "/" \in Paths
    BY <1>1, <2>1 DEF Paths
  <2>5. call \in Calls /\ CallTrue(call)
    BY <1>1, <2>3, <2>4 DEF Calls, CallTrue
  <2> HIDE DEF call
  <2> QED  BY <2>1, <2>4, <2>5, CallSound
<1> QED  BY <1>2, <1>3

LEMMA ServeSound ==
  ASSUME SessionInv, NEW c \in calls, ServeLogin(c) \/ CheckPassword(c)
  PROVE  SessionInv'
<1>1. /\ c \in Calls /\ CallTrue(c) /\ accounts \in [Users -> Account]
      /\ sent \in 1..MaxCalls /\ \A u \in Users : RowTrue(u, accounts[u])
  BY DEF SessionInv, SessionTyped, RowsTrue
<1>2. UNCHANGED <<server, browser, sent>>
  BY DEF ServeLogin, CheckPassword
<1>3. CASE ServeLogin(c)
  <2> DEFINE ok == [c EXCEPT !.state = "ok", !.must = accounts[c.user].must]
             no == [c EXCEPT !.state = "refused"]
  <2>1. c.kind = "login" /\ c.user \in Users
    BY <1>1, <1>3 DEF ServeLogin, CallTrue
  <2>2. PICK must \in BOOLEAN : must = accounts[c.user].must
    BY <1>1, <2>1 DEF Account
  <2>3. must \/ c.user \in cleared
    BY <1>1, <2>1, <2>2 DEF RowTrue
  <2>4. ok = [c EXCEPT !.state = "ok", !.must = must]
    BY <2>2
  <2> HIDE DEF ok
  <2>5. /\ ok \in Calls /\ ok.kind = c.kind /\ ok.user = c.user
        /\ ok.must = must /\ ok.state = "ok"
    BY <1>1, <2>4 DEF Calls
  <2>6. /\ no \in Calls /\ no.kind = c.kind /\ no.user = c.user
        /\ no.state = "refused"
    BY <1>1 DEF Calls
  <2>7. CallTrue(ok) /\ CallTrue(no)
    BY <2>1, <2>3, <2>5, <2>6 DEF CallTrue
  <2>8. \/ calls' = (calls \ {c}) \cup {ok}
        \/ calls' = (calls \ {c}) \cup {no}
    BY <1>3 DEF ServeLogin, Advance, ok
  <2> HIDE DEF no
  <2>9. CASE calls' = (calls \ {c}) \cup {ok}
    BY <1>1, <1>2, <2>5, <2>7, <2>9, CallSound
  <2>10. CASE calls' = (calls \ {c}) \cup {no}
    BY <1>1, <1>2, <2>6, <2>7, <2>10, CallSound
  <2> QED  BY <2>8, <2>9, <2>10
<1>4. CASE CheckPassword(c)
  <2> DEFINE ok == [c EXCEPT !.state = "checked"]
             no == [c EXCEPT !.state = "refused"]
  <2>1. /\ c.kind = "password"
        /\ \/ c.user # NoUser /\ calls' = (calls \ {c}) \cup {ok}
           \/ calls' = (calls \ {c}) \cup {no}
    BY <1>4 DEF CheckPassword, Advance
  <2>2. /\ ok \in Calls /\ ok.kind = c.kind /\ ok.user = c.user
        /\ ok.state = "checked"
        /\ no \in Calls /\ no.kind = c.kind /\ no.state = "refused"
    BY <1>1 DEF Calls
  <2>3. c.user # NoUser => c.user \in Users
    BY <1>1 DEF Calls
  <2>4. (c.user # NoUser => CallTrue(ok)) /\ CallTrue(no)
    BY <2>1, <2>2, <2>3 DEF CallTrue
  <2> HIDE DEF ok, no
  <2>5. CASE c.user # NoUser /\ calls' = (calls \ {c}) \cup {ok}
    BY <1>1, <1>2, <2>2, <2>4, <2>5, CallSound
  <2>6. CASE calls' = (calls \ {c}) \cup {no}
    BY <1>1, <1>2, <2>2, <2>4, <2>6, CallSound
  <2> QED  BY <2>1, <2>5, <2>6
<1> QED  BY <1>3, <1>4

(* A row is written: by a change of the password, or by a payment.         *)
LEMMA RowWritten ==
  ASSUME SessionInv, UNCHANGED <<browser, sent>>, NEW u \in Users,
         NEW row \in Account, accounts' = [accounts EXCEPT ![u] = row],
         cleared' \subseteq Users, cleared \subseteq cleared',
         RowTrue(u, row)', payment' \in PaidRow,
         payment'.user # NoUser => RowTrue(payment.user, payment)',
         calls' \subseteq Calls, \A c \in calls' : CallTrue(c)
  PROVE  SessionInv'
<1>1. UNCHANGED <<storage, auth, page>>
  BY DEF browser
<1>2. /\ storage' \in Stored /\ StorageTrue'
      /\ auth' \in [Tabs -> Auth] /\ page' \in [Tabs -> View]
      /\ \A t \in Tabs : TabTrue(auth[t])' /\ Opens(auth[t], page[t].path)'
  BY <1>1, BrowserAside
<1>3. /\ accounts' \in [Users -> Account] /\ accounts'[u] = row
      /\ \A w \in Users : w # u => accounts'[w] = accounts[w]
  BY DEF SessionInv, SessionTyped
<1>4. RowsTrue'
  BY <1>3 DEF SessionInv, RowsTrue, RowTrue
<1>5. \A c \in calls' : CallTrue(c)'
  BY DEF CallTrue
<1> QED  BY <1>2, <1>3, <1>4, <1>5 DEF SessionInv, SessionTyped

LEMMA SavePasswordSound ==
  ASSUME SessionInv, NEW c \in calls, SavePassword(c)
  PROVE  SessionInv'
<1> DEFINE row == [must |-> FALSE, password |-> c.id]
           ok == [c EXCEPT !.state = "ok"]
           u == c.user
<1>1. /\ c \in Calls /\ u \in Users /\ c.kind = "password"
      /\ payment \in PaidRow /\ c.id \in 1..MaxCalls
      /\ cleared \subseteq Users
      /\ payment.user # NoUser => RowTrue(payment.user, payment)
  BY DEF SessionInv, SessionTyped, SavePassword, CallTrue, Calls, RowsTrue
<1>2. /\ calls' = (calls \ {c}) \cup {ok} /\ cleared' = cleared \cup {u}
      /\ accounts' = [accounts EXCEPT ![u] = row]
      /\ UNCHANGED <<browser, payment, sent>>
  BY DEF SavePassword, Advance
<1>3. row \in Account /\ row.must = FALSE /\ row.password # 0
  BY <1>1 DEF Account
<1>4. /\ ok \in Calls /\ ok.kind = "password" /\ ok.state = "ok"
  BY <1>1 DEF Calls
<1>5. CallTrue(ok)
  BY <1>4 DEF CallTrue
<1> HIDE DEF row, ok
<1>6. calls' \subseteq Calls /\ \A k \in calls' : CallTrue(k)
  BY <1>2, <1>4, <1>5 DEF SessionInv, SessionTyped
<1>7. PICK w \in Users : w = u
  BY <1>1
<1>8. accounts' = [accounts EXCEPT ![w] = row] /\ w \in cleared'
  BY <1>2, <1>7
<1>9. RowTrue(w, row)'
  BY <1>3, <1>8 DEF RowTrue, row
<1>10. payment'.user # NoUser => RowTrue(payment.user, payment)'
  BY <1>1, <1>2 DEF RowTrue
<1> QED
  BY <1>1, <1>2, <1>3, <1>6, <1>7, <1>8, <1>9, <1>10, RowWritten

(* A payment reads a row and saves what it has read.                       *)
LEMMA PaymentSound ==
  ASSUME SessionInv, PaymentSaves \/ \E u \in Paid : PaymentReads(u)
  PROVE  SessionInv'
<1>1. /\ payment \in PaidRow /\ accounts \in [Users -> Account]
      /\ cleared \subseteq Users /\ \A u \in Users : RowTrue(u, accounts[u])
      /\ payment.user # NoUser => RowTrue(payment.user, payment)
      /\ Paid \subseteq Users /\ 0 \in 0..MaxCalls
  BY SessionAssumption DEF SessionInv, SessionTyped, RowsTrue
<1>2. /\ UNCHANGED <<browser, calls, sent, cleared>>
      /\ UNCHANGED <<storage, auth, page>>
  BY DEF PaymentReads, PaymentSaves, browser
<1>3. calls' \subseteq Calls /\ \A k \in calls' : CallTrue(k)
  BY <1>2, FewerCalls
<1>4. ASSUME NEW u \in Paid, PaymentReads(u)
      PROVE  SessionInv'
  <2> DEFINE read == [user |-> u, must |-> accounts[u].must,
                      password |-> accounts[u].password]
  <2>1. u \in Users /\ accounts[u] \in Account /\ RowTrue(u, accounts[u])
    BY <1>1
  <2>2. /\ read \in PaidRow /\ read.user = u
        /\ read.must = accounts[u].must
        /\ read.password = accounts[u].password
    BY <2>1 DEF Account, PaidRow
  <2>3. payment' = read /\ UNCHANGED accounts
    BY <1>4 DEF PaymentReads
  <2> HIDE DEF read
  <2>4. RowsTrue'
    BY <1>1, <1>2, <2>1, <2>2, <2>3 DEF RowsTrue, RowTrue
  <2>5. /\ storage' \in Stored /\ StorageTrue'
        /\ auth' \in [Tabs -> Auth] /\ page' \in [Tabs -> View]
        /\ \A t \in Tabs : TabTrue(auth[t])' /\ Opens(auth[t], page[t].path)'
    BY <1>2, BrowserAside
  <2>6. \A c \in calls' : CallTrue(c)'
    BY <1>2, <1>3 DEF CallTrue
  <2> QED
    BY <1>1, <1>2, <1>3, <2>2, <2>3, <2>4, <2>5, <2>6
    DEF SessionInv, SessionTyped
<1>5. ASSUME PaymentSaves
      PROVE  SessionInv'
  <2> DEFINE row == [must |-> payment.must, password |-> payment.password]
             none == [user |-> NoUser, must |-> FALSE, password |-> 0]
  <2>1. /\ payment.user \in Users /\ payment.must \in BOOLEAN
        /\ payment.password \in 0..MaxCalls
    BY <1>1, <1>5 DEF PaidRow, PaymentSaves
  <2>2. row \in Account /\ row.must = payment.must
        /\ row.password = payment.password
    BY <2>1 DEF Account
  <2>3. accounts' = [accounts EXCEPT ![payment.user] = row]
    BY <1>5 DEF PaymentSaves
  <2> HIDE DEF row
  <2>4. PICK u \in Users, r \in Account :
          /\ u = payment.user /\ r = row
          /\ r.must = payment.must /\ r.password = payment.password
    BY <2>1, <2>2
  <2>5. /\ accounts' = [accounts EXCEPT ![u] = r] /\ payment' = none
        /\ u # NoUser
    BY <1>5, <2>4, <2>3 DEF PaymentSaves
  <2>6. none \in PaidRow /\ none.user = NoUser
    BY <1>1 DEF PaidRow
  <2> HIDE DEF none
  <2>7. RowTrue(u, r)
    BY <1>1, <2>4, <2>5 DEF RowTrue
  <2>8. RowTrue(u, r)'
    BY <1>2, <2>7 DEF RowTrue
  <2> QED
    BY <1>1, <1>2, <1>3, <2>5, <2>6, <2>8, RowWritten
<1> QED  BY <1>4, <1>5

-----------------------------------------------------------------------------
LEMMA SessionInvariant == Spec => []SessionInv
<1>1. ASSUME Init
      PROVE  SessionInv
  <2>1. storage \in Stored /\ StorageTrue
    <3>1. CASE storage = Empty
      BY <3>1, EmptyStorage DEF StorageTrue
    <3>2. ASSUME NEW u \in Fresh,
                 storage = [token |-> 1, user |-> u, perms |-> Permissions[u],
                            must |-> Flag(TRUE)]
          PROVE  storage \in Stored /\ StorageTrue
      <4>1. u \in Users /\ Permissions[u] \in SUBSET AllPermissions
            /\ 1 \in 0..MaxCalls /\ Flag(TRUE) = "true"
        BY SessionAssumption DEF Flag
      <4> QED  BY <3>2, <4>1 DEF Stored, Flags, StorageTrue
    <3> QED  BY <1>1, <3>1, <3>2 DEF Init, EarlierVisit
  <2>2. Loaded(storage) \in Auth /\ TabTrue(Loaded(storage))
    BY <2>1, LoadedTab DEF StorageTrue
  <2>3. Opens(Loaded(storage), "/")
    BY DEF Opens, Hop, Gated, MustChange, Loaded
  <2>4. /\ accounts = [u \in Users |-> [must |-> u \in Fresh,
                                        password |-> 0]]
        /\ payment = [user |-> NoUser, must |-> FALSE, password |-> 0]
        /\ auth = [t \in Tabs |-> Loaded(storage)]
        /\ page = [t \in Tabs |-> [path |-> "/", restored |-> FALSE,
                             modal |-> FALSE, redirect |-> "/", loads |-> 0]]
        /\ calls = {} /\ sent = 1 /\ cleared = Users \ Fresh
    BY <1>1 DEF Init
  <2>5. 0 \in 0..MaxCalls /\ sent \in 1..MaxCalls /\ "/" \in Paths
    BY <2>4, SessionAssumption DEF Paths
  <2>6. [path |-> "/", restored |-> FALSE, modal |-> FALSE,
         redirect |-> "/", loads |-> 0] \in View
    BY <2>5 DEF View
  <2>7. payment \in PaidRow /\ payment.user = NoUser
    BY <2>4, <2>5 DEF PaidRow
  <2>8. ASSUME NEW u \in Users
        PROVE  accounts[u] \in Account /\ RowTrue(u, accounts[u])
    <3>1. /\ accounts[u] = [must |-> u \in Fresh, password |-> 0]
          /\ (u \in Fresh) \in BOOLEAN
      BY <2>4
    <3>2. CASE u \in Fresh
      <4>1. accounts[u] = [must |-> TRUE, password |-> 0]
        BY <3>1, <3>2
      <4> QED  BY <2>5, <4>1 DEF Account, RowTrue
    <3>3. CASE u \notin Fresh
      <4>1. accounts[u] = [must |-> FALSE, password |-> 0]
        BY <3>1, <3>3
      <4>2. u \in cleared
        BY <2>4, <3>3
      <4> QED  BY <2>5, <3>3, <4>1, <4>2 DEF Account, RowTrue
    <3> QED  BY <3>2, <3>3
  <2>9. SessionTyped
    BY <2>1, <2>2, <2>4, <2>5, <2>6, <2>7, <2>8 DEF SessionTyped
  <2>10. \A t \in Tabs : TabTrue(auth[t]) /\ Opens(auth[t], page[t].path)
    BY <2>2, <2>3, <2>4
  <2> QED
    BY <2>1, <2>4, <2>7, <2>8, <2>9, <2>10 DEF SessionInv, RowsTrue
<1>2. ASSUME SessionInv, [Next]_vars
      PROVE  SessionInv'
  <2>1. CASE UNCHANGED vars
    BY <1>2, <2>1, ElsewhereSound DEF vars, server
  <2>2. ASSUME NEW t \in Tabs,
               \/ Reload(t) \/ Restore(t) \/ OpenLogin(t) \/ CloseLogin(t)
               \/ \E p \in Visited : Navigate(t, p)
        PROVE  SessionInv'
    BY <1>2, <2>2, ReloadSound, RestoreSound, DialogSound, NavigateSound
  <2>3. ASSUME NEW t \in Tabs, Logout(t) \/ TimerFires(t)
        PROVE  SessionInv'
    <3>1. page[t].path \in Paths /\ "/?showLogin=true" \in Paths
      BY <1>2 DEF SessionInv, SessionTyped, View, Paths
    <3>2. PICK p \in Paths : LogoutTo(t, p)
                             /\ UNCHANGED <<server, calls, sent>>
      BY <2>3, <3>1 DEF Logout, TimerFires
    <3> QED  BY <1>2, <3>2, LogoutSound
  <2>4. ASSUME NEW t \in Tabs,
               SubmitPassword(t) \/ \E u \in Users : SubmitLogin(t, u)
        PROVE  SessionInv'
    BY <1>2, <2>4, SubmitSound
  <2>5. ASSUME NEW c \in calls,
               ServeLogin(c) \/ CheckPassword(c) \/ SavePassword(c)
        PROVE  SessionInv'
    BY <1>2, <2>5, ServeSound, SavePasswordSound
  <2>6. ASSUME NEW c \in calls, LoginAnswered(c)
        PROVE  SessionInv'
    BY <1>2, <2>6, LoginAnsweredSound
  <2>7. ASSUME NEW c \in calls, PasswordAnswered(c) \/ Unread(c)
        PROVE  SessionInv'
    <3>1. /\ UNCHANGED <<storage, auth, page, server, sent>>
          /\ calls' \subseteq calls
      BY <2>7 DEF PasswordAnswered, Unread, browser
    <3> QED  BY <1>2, <3>1, ElsewhereSound
  <2>8. CASE PaymentSaves \/ \E u \in Paid : PaymentReads(u)
    BY <1>2, <2>8, PaymentSound
  <2> QED
    BY <1>2, <2>1, <2>2, <2>3, <2>4, <2>5, <2>6, <2>7, <2>8
    DEF Next, Serve, Answer
<1> QED  BY <1>1, <1>2, PTL DEF Spec

(* AppRoutes and TopNav treat a user as free of the forced change of the   *)
(* first password only if the change_password handler has cleared the flag *)
(* of that user, in however many tabs she and others log in and out.       *)
THEOREM GatesFollowTheServer == Spec => []GateFollowsServer
<1>1. SessionInv => GateFollowsServer
  BY DEF SessionInv, TabTrue, GateFollowsServer
<1> QED  BY <1>1, SessionInvariant, PTL

(* AuthProvider never pairs one user with the permissions of another, also *)
(* when another tab writes localStorage between the load of a tab and the  *)
(* effect that restores its session.                                       *)
THEOREM PermissionsBelongToUser == Spec => []PermissionsOfUser
<1>1. SessionInv => PermissionsOfUser
  BY DEF SessionInv, TabTrue, PermissionsOfUser
<1> QED  BY <1>1, SessionInvariant, PTL

(* The redirects of AppRoutes do not go in circles in any state a tab can  *)
(* be in, and every link that TopNav offers leads to the page it names, or *)
(* to the change of the first password while that is due.                  *)
THEOREM RoutesSettle == Spec => []RedirectsSettle
<1>1. ASSUME SessionInv, NEW t \in Tabs
      PROVE  /\ \A p \in Paths :
                  Hop(auth[t], Landing(auth[t], p)) = Landing(auth[t], p)
             /\ \A l \in NavLinks(auth[t]) :
                  Landing(auth[t], l) =
                    IF MustChange(auth[t]) THEN "/changepassword" ELSE l
  <2> DEFINE a == auth[t]
  <2>1. TabTrue(a)
    BY <1>1 DEF SessionInv
  <2>2. \A p \in Paths : Hop(a, Landing(a, p)) = Landing(a, p)
    BY LandingSettles DEF Opens
  <2>3. ASSUME NEW l \in NavLinks(a)
        PROVE  Landing(a, l) = IF MustChange(a) THEN "/changepassword" ELSE l
    <3>1. CASE MustChange(a)
      <4>1. a.in /\ a.must = "true" /\ LoggedIn(a)
        BY <2>1, <3>1 DEF TabTrue, MustChange, LoggedIn
      <4>2. l \in Gated \cup {"/changepassword"}
        BY <2>3, <4>1 DEF NavLinks, BarLinks, Gated
      <4>3. Hop(a, l) = "/changepassword"
        BY <3>1, <4>1, <4>2 DEF Hop, Gated
      <4>4. Hop(a, "/changepassword") = "/changepassword"
        BY <4>1 DEF Hop, Gated
      <4> QED  BY <3>1, <4>3, <4>4 DEF Landing
    <3>2. CASE ~a.in
      <4>1. ~MustChange(a) /\ l \in BarLinks \cup GuestLinks
        BY <2>1, <2>3, <3>2 DEF TabTrue, MustChange, NavLinks
      <4>2. Hop(a, l) = l
        BY <4>1 DEF BarLinks, GuestLinks, Hop, Gated
      <4> QED  BY <4>1, <4>2 DEF Landing
    <3>3. CASE a.in /\ ~MustChange(a)
      <4>1. LoggedIn(a) /\ a.must # "true"
        BY <2>1, <3>3 DEF TabTrue, LoggedIn, MustChange
      <4>2. l \in BarLinks \cup UserLinks(a)
        BY <2>3, <3>3, <4>1 DEF NavLinks
      <4>3. /\ l = "/admin" => "create_users" \in a.perms
            /\ l = "/create" => "create_markets" \in a.perms
            /\ l \in {"/profile", "/notifications", "/stats", "/about",
                      "/admin", "/create", "/", "/markets/:marketId"}
        BY <4>2 DEF BarLinks, UserLinks
      <4>4. Hop(a, l) = l
        BY <3>3, <4>1, <4>3 DEF Hop, Gated
      <4> QED  BY <3>3, <4>4 DEF Landing
    <3> QED  BY <3>1, <3>2, <3>3
  <2> QED  BY <2>2, <2>3
<1>2. SessionInv => RedirectsSettle
  BY <1>1 DEF RedirectsSettle
<1> QED  BY <1>2, SessionInvariant, PTL

(* However changes of a password and the payments that save whole rows     *)
(* (ApplyTransactionToUser) interleave, a user must change the password    *)
(* exactly while the generated one is in force.                            *)
THEOREM FlagsMarkFirstPasswords == Spec => []FlagMarksFirstPassword
<1>1. SessionInv => FlagMarksFirstPassword
  BY SessionAssumption
  DEF SessionInv, RowsTrue, RowTrue, FlagMarksFirstPassword
<1> QED  BY <1>1, SessionInvariant, PTL
=============================================================================
