----------------------------- MODULE PageProofs -----------------------------
(***************************************************************************)
(* The theorems about the pages of the frontend that only ask, and about   *)
(* its three forms with their handlers.                                    *)
(*                                                                         *)
(* The pages that show what a GET request returns: for any number of keys  *)
(* and requests, answered in any order or failing.  The forms: for any     *)
(* number of submissions, administrators, names, permissions, images and   *)
(* saves, in any order of steps, answers and losses.                       *)
(***************************************************************************)
EXTENDS DataViews, CreateForm, AddUserForm, ProfileForm, TLAPS

-----------------------------------------------------------------------------
(* The inductive invariant *)

PageNames ==
  {"profile", "user", "stats", "market", "markets", "search", "nav"}
Buttons == {"SystemMetrics", "GlobalLeaderboard"}
KeyViews == {"UserData", "Portfolio", "CreditTab", "PortfolioTab",
             "FinancialsTab", "StatsSetup", "Leaderboard", "MarketsByStatus"}

(* The bound on rounds, which caps the timers, is left out.                *)
StateOfView ==
  [loading : BOOLEAN, error : BOOLEAN, data : Data, pauses : SUBSET Keys,
   ending : Nat, mixed : BOOLEAN]
Sent == [view : Views, key : Keys \cup {Null}, round : Nat]

(* What s shows when nothing is outstanding: an error or data of key k, or *)
(* nothing at all if its requests wait for the user.                       *)
UpToDate(v, s, k) ==
  IF Of[v].start = "key" THEN s.error \/ s.data.key = k
  ELSE s.data = NoData \/ s.data.key = k

(* A view in state s, waiting for its part of the requests w, on a page    *)
(* about k: whatever it waits for, and what it has, is of that key.        *)
InSequence(v, s, w, k) ==
  (Of[v].failure # "logged" /\ ~s.mixed /\ k # Null /\ s.pauses = {}) =>
    /\ \A r \in w : r.view = v => r.key = k
    /\ Of[v].start = "press" \/ (\A r \in w : r.view # v)
         => UpToDate(v, s, k)

(* Only the search box has a pause, for what stands in it.                 *)
Pausing(v, s, k) ==
  s.pauses \subseteq {k} /\ (s.pauses # {} => Of[v].start = "pause")

(* Calculations are on the page of the statistics, whose key never         *)
(* changes.                                                                *)
ViewSound(v, s, w, k) ==
  /\ v \in Views /\ s \in StateOfView
  /\ Of[v].start = "press" => page = "stats"
  /\ Pausing(v, s, k) /\ InSequence(v, s, w, k)

SentSound(w) == \A r \in w : r \in Sent

ViewInv ==
  /\ page \in PageNames /\ tab \in Tabs /\ key \in Keys \cup {Null}
  /\ rounds \in Nat
  /\ SentSound(wire) /\ \A r \in wire : r.view \in DOMAIN view
  /\ \A v \in DOMAIN view : ViewSound(v, view[v], wire, key)

-----------------------------------------------------------------------------
(* The views *)

Switches(f, start, failure) ==
  /\ f.start = start /\ f.failure = failure /\ f.spins \in BOOLEAN
  /\ f.clears \in BOOLEAN /\ f.timer \in BOOLEAN /\ f.atFirst \in BOOLEAN

LEMMA KindsOfViews ==
  /\ Views = KeyViews \cup Buttons \cup
       {"UserPage", "NavCredit", "PublicPortfolio", "BetsActivity",
        "PositionsActivity", "NavSearch"}
  /\ \A v \in KeyViews : Switches(Of[v], "key", "error")
  /\ \A v \in Buttons : Switches(Of[v], "press", "error")
  /\ Switches(Of["NavSearch"], "pause", "dropped")
  /\ \A v \in {"UserPage", "NavCredit", "PublicPortfolio", "BetsActivity",
               "PositionsActivity"} : Switches(Of[v], "key", "logged")
<1>1. /\ Switches(Plain, "key", "error")
      /\ Switches(UserPage, "key", "logged")
      /\ Switches(NavCredit, "key", "logged")
      /\ Switches(PublicPortfolio, "key", "logged")
  BY DEF Switches, Plain, UserPage, NavCredit, PublicPortfolio
<1>2. /\ Switches(Leaderboard, "key", "error")
      /\ Switches(MarketsByStatus, "key", "error")
      /\ Switches(Button, "press", "error")
      /\ Switches(NavSearch, "pause", "dropped")
  BY DEF Switches, Plain, Leaderboard, MarketsByStatus, Button, NavSearch
<1>3. /\ UserData = Plain /\ Portfolio = Plain /\ CreditTab = Plain
      /\ PortfolioTab = Plain /\ FinancialsTab = Plain /\ StatsSetup = Plain
      /\ BetsActivity = PublicPortfolio
      /\ PositionsActivity = PublicPortfolio
      /\ SystemMetrics = Button /\ GlobalLeaderboard = Button
  BY DEF UserData, Portfolio, CreditTab, PortfolioTab, FinancialsTab,
         StatsSetup, BetsActivity, PositionsActivity, SystemMetrics,
         GlobalLeaderboard
<1>4. Views = KeyViews \cup Buttons \cup
       {"UserPage", "NavCredit", "PublicPortfolio", "BetsActivity",
        "PositionsActivity", "NavSearch"}
  BY DEF Views, Of, KeyViews, Buttons
<1>5. /\ Of["UserData"] = Plain /\ Of["Portfolio"] = Plain
      /\ Of["CreditTab"] = Plain /\ Of["PortfolioTab"] = Plain
      /\ Of["FinancialsTab"] = Plain /\ Of["StatsSetup"] = Plain
      /\ Of["Leaderboard"] = Leaderboard
      /\ Of["MarketsByStatus"] = MarketsByStatus
  BY <1>3 DEF Of
<1>6. /\ Of["SystemMetrics"] = Button /\ Of["GlobalLeaderboard"] = Button
      /\ Of["NavSearch"] = NavSearch /\ Of["UserPage"] = UserPage
      /\ Of["NavCredit"] = NavCredit
      /\ Of["PublicPortfolio"] = PublicPortfolio
      /\ Of["BetsActivity"] = PublicPortfolio
      /\ Of["PositionsActivity"] = PublicPortfolio
  BY <1>3 DEF Of
<1>7. \A v \in KeyViews : Switches(Of[v], "key", "error")
  BY <1>1, <1>2, <1>5 DEF KeyViews
<1>8. \A v \in Buttons : Switches(Of[v], "press", "error")
  BY <1>2, <1>6 DEF Buttons
<1>9. \A v \in {"UserPage", "NavCredit", "PublicPortfolio", "BetsActivity",
                "PositionsActivity"} : Switches(Of[v], "key", "logged")
  BY <1>1, <1>6
<1>10. Switches(Of["NavSearch"], "pause", "dropped")
  BY <1>2, <1>6
<1> QED  BY <1>4, <1>7, <1>8, <1>9, <1>10

LEMMA ViewSwitches ==
  ASSUME NEW v \in Views
  PROVE  /\ Switches(Of[v], Of[v].start, Of[v].failure)
         /\ \/ Of[v].start = "key" /\ Of[v].failure \in {"error", "logged"}
            \/ Of[v].start = "press" /\ Of[v].failure = "error"
            \/ Of[v].start = "pause" /\ Of[v].failure = "dropped"
         /\ Of[v].start = "press" <=> v \in Buttons
BY KindsOfViews DEF Switches, KeyViews, Buttons

LEMMA MountedViews ==
  ASSUME NEW p \in PageNames, NEW t \in Tabs, NEW s
  PROVE  /\ Mounted(p, t, s) \subseteq Views
         /\ p # "stats" => Mounted(p, t, s) \cap Buttons = {}
<1>1. t \in Views /\ t \notin Buttons
  BY KindsOfViews DEF Tabs, UserTabs, ActivityTabs, Buttons, KeyViews
<1>2. /\ {"UserData", "Portfolio", "PublicPortfolio", "UserPage",
          "StatsSetup", "SystemMetrics", "GlobalLeaderboard",
          "MarketsByStatus", "NavSearch", "NavCredit"} \subseteq Views
      /\ Buttons = {"SystemMetrics", "GlobalLeaderboard"}
  BY KindsOfViews DEF KeyViews, Buttons
<1>3. CASE p = "profile"
  BY <1>2, <1>3 DEF Mounted
<1>4. CASE p = "user"
  BY <1>1, <1>2, <1>4 DEF Mounted
<1>5. CASE p = "stats"
  BY <1>2, <1>5 DEF Mounted
<1>6. CASE p = "market"
  BY <1>1, <1>2, <1>6 DEF Mounted
<1>7. CASE p \in {"markets", "search", "nav"}
  BY <1>2, <1>7 DEF Mounted
<1> QED  BY <1>3, <1>4, <1>5, <1>6, <1>7 DEF PageNames

LEMMA NullIsNoKey == Null \notin Keys /\ NoData \in Data
BY DataViewsAssumption DEF NoData, Data

LEMMA InitialSound ==
  ASSUME NEW v \in Views
  PROVE  /\ Initial(v) \in StateOfView /\ Initial(v).mixed = FALSE
         /\ Initial(v).pauses = {} /\ Initial(v).data = NoData
BY ViewSwitches, NullIsNoKey DEF Initial, StateOfView, Switches

-----------------------------------------------------------------------------
(* Rendering *)

LEMMA Asked ==
  ASSUME NEW v \in Views, NEW k \in Keys \cup {Null}, rounds \in Nat
  PROVE  /\ Ask(v, k) \in Sent /\ Ask(v, k).view = v /\ Ask(v, k).key = k
         /\ LET r == [Ask(v, k) EXCEPT !.round = rounds + 1]
            IN  r \in Sent /\ r.view = v /\ r.key = k
BY DEF Ask, Sent

(* What is said of the views before React mounts and unmounts holds after  *)
(* it: a view that comes begins in sequence.                               *)
LEMMA RenderSound ==
  ASSUME NEW t \in Tabs, NEW k \in Keys \cup {Null}, NEW s, NEW w,
         page \in PageNames, UNCHANGED page, key' = k, tab' = t,
         rounds \in Nat, rounds' \in Nat, Render(t, k, s, w),
         SentSound(w), \A v \in DOMAIN s : ViewSound(v, s[v], w, k)
  PROVE  ViewInv'
<1> DEFINE now == Mounted(page, t, s)
           new == now \ DOMAIN s
           asking == {v \in new : Of[v].start = "key" /\ k # Null}
<1>1. /\ view' = [v \in now |-> IF v \in new THEN Initial(v) ELSE s[v]]
      /\ wire' = {r \in w : r.view \in now \ new} \cup
                 {Ask(v, k) : v \in asking}
  BY DEF Render
<1>2. /\ now \in SUBSET Views
      /\ page # "stats" => now \cap Buttons = {}
  BY MountedViews
<1> HIDE DEF now
<1>3. \A v \in asking : /\ Ask(v, k) \in Sent /\ Ask(v, k).view = v
                        /\ Ask(v, k).key = k
  BY <1>2, Asked
<1>4. DOMAIN view' = now
  BY <1>1
<1>5. SentSound(wire') /\ \A r \in wire' : r.view \in now
  BY <1>1, <1>3 DEF SentSound
<1>6. ASSUME NEW v \in now
      PROVE  ViewSound(v, view'[v], wire', k)
  <2>1. CASE v \in new
    <3>1. view'[v] = Initial(v)
      BY <1>1, <2>1
    <3>2. \A r \in wire' : r.view = v => r = Ask(v, k) /\ v \in asking
      BY <1>1, <1>3, <2>1
    <3>3. Of[v].start = "key" /\ k # Null => Ask(v, k) \in wire'
      BY <1>1, <2>1
    <3>4. v \in Views /\ (Of[v].start = "press" => page = "stats")
      BY <1>2, ViewSwitches
    <3>5. InSequence(v, view'[v], wire', k)
      BY <1>3, <2>1, <3>1, <3>2, <3>3, <3>4, InitialSound
      DEF InSequence, UpToDate
    <3> QED
      BY <3>1, <3>4, <3>5, InitialSound DEF ViewSound, Pausing
  <2>2. CASE v \in DOMAIN s
    <3>1. view'[v] = s[v] /\ ViewSound(v, s[v], w, k)
      BY <1>1, <2>2
    <3>2. /\ \A r \in wire' : r.view = v => r \in w
          /\ \A r \in w : r.view = v => r \in wire'
      BY <1>1, <1>3, <2>2
    <3>3. InSequence(v, s[v], wire', k)
      BY <3>1, <3>2 DEF ViewSound, InSequence
    <3> QED  BY <3>1, <3>3 DEF ViewSound
  <2> QED  BY <2>1, <2>2
<1>7. \A v \in DOMAIN view' : ViewSound(v, view[v], wire, key)'
  BY <1>4, <1>6
  DEF ViewSound, Pausing, InSequence, UpToDate, StateOfView
<1> QED
  BY <1>4, <1>5, <1>7 DEF ViewInv, SentSound

(* A request starts in sequence if nothing of its view is outstanding.     *)
LEMMA StartedSound ==
  ASSUME NEW v \in Views, NEW s \in StateOfView, NEW w
  PROVE  LET t == Started(v, s, w)
         IN  /\ t \in StateOfView /\ t.data = s.data /\ t.pauses = s.pauses
             /\ ~t.mixed => ~s.mixed /\ (\A r \in w : r.view # v)
<1> DEFINE out == Outstanding(v, s, w)
           spin == s.loading \/ Of[v].spins
           err == IF Of[v].clears THEN FALSE ELSE s.error
           t == [s EXCEPT !.loading = spin, !.error = err,
                          !.mixed = s.mixed \/ out]
<1>1. out \in BOOLEAN /\ (~out => \A r \in w : r.view # v)
  BY DEF Outstanding
<1>2. spin \in BOOLEAN /\ err \in BOOLEAN /\ s.mixed \in BOOLEAN
  BY ViewSwitches DEF Switches, StateOfView
<1>3. Started(v, s, w) = t
  BY DEF Started
<1> HIDE DEF out, spin, err
<1>4. /\ t \in StateOfView /\ t.data = s.data /\ t.pauses = s.pauses
      /\ t.mixed = (s.mixed \/ out)
  BY <1>1, <1>2 DEF StateOfView
<1> HIDE DEF t
<1> QED  BY <1>1, <1>2, <1>3, <1>4

-----------------------------------------------------------------------------
(* Steps of the user *)

LEMMA ViewFacts ==
  ASSUME ViewInv, NEW v \in DOMAIN view
  PROVE  /\ v \in Views /\ view[v] \in StateOfView
         /\ Of[v].start = "press" => page = "stats"
         /\ Pausing(v, view[v], key) /\ InSequence(v, view[v], wire, key)
BY DEF ViewInv, ViewSound

LEMMA NewKeySound ==
  ASSUME ViewInv, NEW k \in Keys \cup {Null}, NewKey(k), page # "stats",
         UNCHANGED <<page, tab>>
  PROVE  ViewInv'
<1> DEFINE asking == {v \in DOMAIN view : Of[v].start = "key" /\ k # Null}
           more == {[Ask(v, k) EXCEPT !.round = rounds + 1] : v \in asking}
           w == wire \cup more
           s == [v \in DOMAIN view |-> Rerun(v, view[v], k, wire)]
<1>1. /\ rounds \in Nat /\ rounds' \in Nat /\ key' = k
      /\ page \in PageNames /\ tab \in Tabs /\ tab' = tab
      /\ SentSound(wire) /\ Render(tab, k, s, w)
  BY DEF NewKey, NextRound, ViewInv
<1>2. /\ \A r \in more : r \in Sent /\ r.key = k /\ r.view \in asking
      /\ \A v \in asking : \E r \in more : r.view = v
  <2> DEFINE new(v) == [Ask(v, k) EXCEPT !.round = rounds + 1]
  <2>1. \A v \in asking :
          new(v) \in Sent /\ new(v).view = v /\ new(v).key = k
    BY <1>1, ViewFacts, Asked
  <2>2. more = {new(v) : v \in asking}
    OBVIOUS
  <2> HIDE DEF new, more
  <2> QED  BY <2>1, <2>2
<1>3. SentSound(w)
  BY <1>1, <1>2 DEF SentSound
<1> HIDE DEF more
<1>4. ASSUME NEW v \in DOMAIN view
      PROVE  ViewSound(v, s[v], w, k)
  <2> DEFINE p == Pauses(v, view[v], k)
             t == [view[v] EXCEPT !.pauses = p]
  <2>1. /\ v \in Views /\ view[v] \in StateOfView
        /\ Of[v].start # "press" /\ s[v] = Rerun(v, view[v], k, wire)
    BY ViewFacts
  <2>2. /\ p \in SUBSET Keys /\ p \subseteq {k}
        /\ p # {} => Of[v].start = "pause"
        /\ Of[v].start = "pause" /\ k # Null => p # {}
    BY NullIsNoKey DEF Pauses
  <2> HIDE DEF p
  <2>3. t \in StateOfView /\ t.pauses = p
    BY <2>1, <2>2 DEF StateOfView
  <2>4. CASE Of[v].start = "key" /\ k # Null
    <3>1. s[v] = Started(v, t, wire)
      BY <2>1, <2>4 DEF Rerun, p
    <3> HIDE DEF t
    <3>2. /\ s[v] \in StateOfView /\ s[v].pauses = p
          /\ ~s[v].mixed => \A r \in wire : r.view # v
      BY <2>1, <2>3, <3>1, StartedSound
    <3>3. v \in asking
      BY <2>4
    <3>4. InSequence(v, s[v], w, k)
      BY <1>2, <2>4, <3>2, <3>3 DEF InSequence
    <3> QED  BY <2>1, <2>2, <3>2, <3>4 DEF ViewSound, Pausing
  <2>5. CASE Of[v].start = "pause" /\ k = Null
    <3>1. s[v] = [t EXCEPT !.data = NoData]
      BY <2>1, <2>5 DEF Rerun, p
    <3> HIDE DEF t
    <3>2. s[v] \in StateOfView /\ s[v].pauses = p
      BY <2>3, <3>1, NullIsNoKey DEF StateOfView
    <3> QED
      BY <2>1, <2>2, <2>5, <3>2 DEF ViewSound, Pausing, InSequence
  <2>6. CASE /\ ~(Of[v].start = "key" /\ k # Null)
             /\ ~(Of[v].start = "pause" /\ k = Null)
    <3>1. s[v] = t
      BY <2>1, <2>6 DEF Rerun, p
    <3> HIDE DEF t
    <3>2. k = Null \/ p # {}
      BY <2>1, <2>2, <2>6, ViewSwitches
    <3> QED
      BY <2>1, <2>2, <2>3, <3>1, <3>2 DEF ViewSound, Pausing, InSequence
  <2> QED  BY <2>4, <2>5, <2>6
<1>5. DOMAIN s = DOMAIN view
  OBVIOUS
<1> HIDE DEF s, w
<1> QED  BY <1>1, <1>3, <1>4, <1>5, RenderSound

LEMMA KeysSound ==
  ASSUME ViewInv,
         \/ \E k \in Names \cup {Null} : ChangeKey(k) \/ TypeQuery(k)
         \/ \E f \in Filters : FilterClick(f)
  PROVE  ViewInv'
<1>1. \A q : Status(q) \in Keys
  BY DEF Status, TabToStatus, Filters, Keys, Statuses
<1>2. PICK k \in Keys \cup {Null} :
        NewKey(k) /\ page # "stats" /\ UNCHANGED <<page, tab>>
  BY <1>1 DEF ChangeKey, TypeQuery, FilterClick, Keys
<1> QED  BY <1>2, NewKeySound

LEMMA SelectTabSound ==
  ASSUME ViewInv, NEW t \in Tabs, SelectTab(t)
  PROVE  ViewInv'
<1>1. /\ rounds \in Nat /\ rounds' \in Nat /\ key' = key
      /\ page \in PageNames /\ UNCHANGED page /\ tab' = t
      /\ key \in Keys \cup {Null}
      /\ SentSound(wire) /\ Render(t, key, view, wire)
  BY DEF SelectTab, NextRound, ViewInv
<1>2. \A v \in DOMAIN view : ViewSound(v, view[v], wire, key)
  BY DEF ViewInv
<1> QED  BY <1>1, <1>2, RenderSound

(* A view changes and sends one more request or has one answered.          *)
LEMMA OthersKept ==
  ASSUME ViewInv, NEW v \in DOMAIN view, NEW n, NEW w,
         \A r : r.view # v => (r \in w <=> r \in wire),
         ViewSound(v, n, w, key)
  PROVE  LET s == [view EXCEPT ![v] = n]
         IN  \A x \in DOMAIN s : ViewSound(x, s[x], w, key)
<1> DEFINE s == [view EXCEPT ![v] = n]
<1>1. ASSUME NEW x \in DOMAIN view
      PROVE  ViewSound(x, s[x], w, key)
  <2>1. CASE x = v
    BY <2>1
  <2>2. CASE x # v
    <3>1. s[x] = view[x] /\ ViewSound(x, view[x], wire, key)
      BY <2>2 DEF ViewInv
    <3>2. \A r : r.view = x => (r \in w <=> r \in wire)
      BY <2>2
    <3>3. InSequence(x, view[x], w, key)
      BY <3>1, <3>2 DEF ViewSound, InSequence
    <3> QED  BY <3>1, <3>3 DEF ViewSound
  <2> QED  BY <2>1, <2>2
<1> QED  BY <1>1

LEMMA GoSound ==
  ASSUME ViewInv, NEW v \in DOMAIN view,
         Press(v) \/ PauseEnds(v)
  PROVE  ViewInv'
<1>1. PICK s \in StateOfView :
        /\ Go(v, key, s) /\ s.data = view[v].data
        /\ s.mixed = view[v].mixed /\ s.pauses = {}
        /\ Of[v].start = "press" \/ view[v].pauses # {}
  <2>1. /\ v \in Views /\ view[v] \in StateOfView
        /\ Pausing(v, view[v], key)
    BY ViewFacts
  <2>2. CASE Press(v)
    <3>1. view[v].pauses = {}
      BY <2>1, <2>2 DEF Press, Pausing
    <3> QED  BY <2>1, <2>2, <3>1 DEF Press
  <2>3. CASE PauseEnds(v)
    <3>1. PICK k \in view[v].pauses :
            Go(v, k, [view[v] EXCEPT !.pauses = view[v].pauses \ {k}])
      BY <2>1, <2>3 DEF PauseEnds, StateOfView
    <3>2. k = key /\ view[v].pauses \ {k} = {}
      BY <2>1 DEF Pausing
    <3>3. Go(v, key, [view[v] EXCEPT !.pauses = {}])
      BY <3>1, <3>2
    <3>4. LET s == [view[v] EXCEPT !.pauses = {}]
          IN  /\ s \in StateOfView /\ s.data = view[v].data
              /\ s.mixed = view[v].mixed /\ s.pauses = {}
      BY <2>1 DEF StateOfView
    <3> QED  BY <3>3, <3>4
  <2> QED  BY <2>2, <2>3
<1> DEFINE n == Started(v, s, wire)
           new == [Ask(v, key) EXCEPT !.round = rounds + 1]
           w == wire \cup {new}
<1>2. /\ rounds \in Nat /\ rounds' \in Nat /\ key' = key
      /\ page \in PageNames /\ UNCHANGED page /\ tab' = tab /\ tab \in Tabs
      /\ key \in Keys \cup {Null} /\ SentSound(wire)
      /\ Render(tab, key, [view EXCEPT ![v] = n], w)
  BY <1>1 DEF Go, NextRound, ViewInv
<1>3. v \in Views /\ InSequence(v, view[v], wire, key)
  BY ViewFacts
<1>4. new \in Sent /\ new.view = v /\ new.key = key
  BY <1>2, <1>3, Asked
<1> HIDE DEF new
<1>5. /\ n \in StateOfView /\ n.data = s.data /\ n.pauses = {}
      /\ ~n.mixed => ~s.mixed /\ (\A r \in wire : r.view # v)
  BY <1>1, <1>3, StartedSound
<1> HIDE DEF n
<1>6. InSequence(v, n, w, key)
  <2>1. CASE Of[v].start = "press"
    <3>1. view[v].pauses = {}
      BY <2>1, ViewFacts DEF Pausing
    <3> QED
      BY <1>1, <1>3, <1>4, <1>5, <2>1, <3>1 DEF InSequence, UpToDate
  <2>2. CASE Of[v].start # "press"
    BY <1>4, <1>5, <2>2 DEF InSequence
  <2> QED  BY <2>1, <2>2
<1>7. ViewSound(v, n, w, key)
  BY <1>5, <1>6, ViewFacts DEF ViewSound, Pausing
<1>8. \A r : r.view # v => (r \in w <=> r \in wire)
  BY <1>4
<1>9. SentSound(w)
  BY <1>2, <1>4 DEF SentSound
<1> HIDE DEF w
<1>10. \A x \in DOMAIN [view EXCEPT ![v] = n] :
         ViewSound(x, [view EXCEPT ![v] = n][x], w, key)
  BY <1>7, <1>8, OthersKept
<1> QED  BY <1>2, <1>9, <1>10, RenderSound

-----------------------------------------------------------------------------
(* Answers and timers *)

LEMMA FinishedSound ==
  ASSUME NEW v \in Views, NEW s \in StateOfView
  PROVE  LET t == Finished(v, s)
         IN  /\ t \in StateOfView /\ t.data = s.data /\ t.error = s.error
             /\ t.pauses = s.pauses /\ t.mixed = s.mixed
<1>1. s.ending \in Nat
  BY DEF StateOfView
<1>2. CASE Of[v].timer
  <2>1. Finished(v, s) = [s EXCEPT !.ending = s.ending + 1]
    BY <1>2 DEF Finished
  <2> QED  BY <1>1, <2>1 DEF StateOfView
<1>3. CASE ~Of[v].timer
  <2>1. Finished(v, s) = [s EXCEPT !.loading = FALSE]
    BY <1>3 DEF Finished
  <2> QED  BY <2>1 DEF StateOfView
<1> QED  BY <1>2, <1>3

(* The state n of the view of r after its answer: with the rows of its key *)
(* or as a failure leaves it.                                              *)
LEMMA AnsweredSound ==
  ASSUME ViewInv, NEW r \in wire, NEW n,
         \/ \E full \in BOOLEAN :
              n = Success(r.view, view[r.view],
                          [key |-> r.key, full |-> full])
         \/ n = Failure(r.view, view[r.view])
  PROVE  ViewSound(r.view, n, wire \ {r}, key)
<1> DEFINE v == r.view
           old == view[v]
<1>1. /\ r \in Sent /\ r.key \in Keys \cup {Null} /\ v \in DOMAIN view
  BY DEF ViewInv, SentSound, Sent
<1>2. /\ v \in Views /\ old \in StateOfView /\ InSequence(v, old, wire, key)
      /\ Pausing(v, old, key) /\ (Of[v].start = "press" => page = "stats")
  BY <1>1, ViewFacts
<1>3. PICK s \in StateOfView :
        /\ n = Finished(v, s) /\ s.pauses = old.pauses /\ s.mixed = old.mixed
        /\ \/ s.data.key = r.key
           \/ Of[v].failure = "error" /\ s.error = TRUE /\ s.data = old.data
           \/ Of[v].failure = "dropped" /\ s.data = NoData
           \/ Of[v].failure = "logged"
  <2>1. ASSUME NEW full \in BOOLEAN,
               n = Success(v, old, [key |-> r.key, full |-> full])
        PROVE  \E s \in StateOfView :
                 /\ n = Finished(v, s) /\ s.pauses = old.pauses
                 /\ s.mixed = old.mixed /\ s.data.key = r.key
    <3> DEFINE s == [old EXCEPT !.data = [key |-> r.key, full |-> full]]
    <3>1. n = Finished(v, s)
      BY <2>1 DEF Success
    <3>2. /\ s \in StateOfView /\ s.pauses = old.pauses
          /\ s.mixed = old.mixed /\ s.data.key = r.key
      BY <1>1, <1>2 DEF StateOfView, Data
    <3> QED  BY <3>1, <3>2
  <2>2. ASSUME n = Failure(v, old)
        PROVE  \E s \in StateOfView :
                 /\ n = Finished(v, s) /\ s.pauses = old.pauses
                 /\ s.mixed = old.mixed
                 /\ \/ /\ Of[v].failure = "error" /\ s.error = TRUE
                       /\ s.data = old.data
                    \/ Of[v].failure = "dropped" /\ s.data = NoData
                    \/ Of[v].failure = "logged"
    <3> DEFINE s == Failed(v, old)
    <3>1. n = Finished(v, s)
      BY <2>2 DEF Failure
    <3>2. CASE Of[v].failure = "error"
      <4>1. s = [old EXCEPT !.error = TRUE]
        BY <3>2 DEF Failed
      <4> HIDE DEF s
      <4>2. /\ s \in StateOfView /\ s.pauses = old.pauses
            /\ s.mixed = old.mixed /\ s.error = TRUE /\ s.data = old.data
        BY <1>2, <4>1 DEF StateOfView
      <4> QED  BY <3>1, <3>2, <4>2
    <3>3. CASE Of[v].failure = "dropped"
      <4>1. s = [old EXCEPT !.data = NoData]
        BY <3>3 DEF Failed
      <4> HIDE DEF s
      <4>2. /\ s \in StateOfView /\ s.pauses = old.pauses
            /\ s.mixed = old.mixed /\ s.data = NoData
        BY <1>2, <4>1, NullIsNoKey DEF StateOfView
      <4> QED  BY <3>1, <3>3, <4>2
    <3>4. CASE Of[v].failure = "logged"
      <4>1. s = old
        BY <3>4 DEF Failed
      <4> QED  BY <1>2, <3>1, <3>4, <4>1
    <3> QED  BY <1>2, <3>2, <3>3, <3>4, ViewSwitches
  <2> QED  BY <2>1, <2>2
<1>4. /\ n \in StateOfView /\ n.data = s.data /\ n.error = s.error
      /\ n.pauses = old.pauses /\ n.mixed = old.mixed
  BY <1>2, <1>3, FinishedSound
<1> HIDE DEF old
<1>5. InSequence(v, n, wire \ {r}, key)
  <2>1. ASSUME Of[v].failure # "logged", ~n.mixed, key # Null, n.pauses = {}
        PROVE  /\ \A x \in wire : x.view = v => x.key = key
               /\ r.key = key
               /\ Of[v].start = "press" => UpToDate(v, old, key)
    BY <1>2, <1>4, <2>1 DEF InSequence
  <2>2. ASSUME Of[v].failure # "logged", r.key = key,
               Of[v].start = "press" => UpToDate(v, old, key)
        PROVE  UpToDate(v, n, key)
    BY <1>2, <1>3, <1>4, <2>2, ViewSwitches DEF UpToDate
  <2> QED  BY <2>1, <2>2 DEF InSequence
<1> QED  BY <1>2, <1>4, <1>5 DEF ViewSound, Pausing

LEMMA ReceiveSound ==
  ASSUME ViewInv, NEW r \in wire, Receive(r)
  PROVE  ViewInv'
<1>1. PICK n : /\ \/ \E full \in BOOLEAN :
                       n = Success(r.view, view[r.view],
                                   [key |-> r.key, full |-> full])
                  \/ n = Failure(r.view, view[r.view])
               /\ Render(tab, key, [view EXCEPT ![r.view] = n], wire \ {r})
  <2>1. r.view \in DOMAIN view
    BY DEF ViewInv
  <2> QED  BY <2>1 DEF Receive
<1>2. ViewSound(r.view, n, wire \ {r}, key)
  BY <1>1, AnsweredSound
<1>3. /\ rounds \in Nat /\ rounds' \in Nat /\ key' = key
      /\ page \in PageNames /\ UNCHANGED page /\ tab' = tab /\ tab \in Tabs
      /\ key \in Keys \cup {Null} /\ SentSound(wire \ {r})
      /\ r.view \in DOMAIN view
  BY DEF Receive, ViewInv, SentSound
<1>4. \A x : x.view # r.view => (x \in wire \ {r} <=> x \in wire)
  OBVIOUS
<1>5. \A x \in DOMAIN [view EXCEPT ![r.view] = n] :
        ViewSound(x, [view EXCEPT ![r.view] = n][x], wire \ {r}, key)
  BY <1>2, <1>3, <1>4, OthersKept
<1> QED  BY <1>1, <1>3, <1>5, RenderSound

LEMMA SpinnerEndsSound ==
  ASSUME ViewInv, NEW v \in DOMAIN view, SpinnerEnds(v)
  PROVE  ViewInv'
<1> DEFINE n == [view[v] EXCEPT !.loading = FALSE,
                                !.ending = view[v].ending - 1]
<1>1. /\ view' = [view EXCEPT ![v] = n] /\ view[v].ending > 0
      /\ UNCHANGED <<page, key, tab, wire, rounds>>
  BY DEF SpinnerEnds
<1>2. v \in Views /\ view[v] \in StateOfView /\ view[v].ending - 1 \in Nat
  BY <1>1, ViewFacts DEF StateOfView
<1>3. /\ n \in StateOfView /\ n.data = view[v].data
      /\ n.error = view[v].error /\ n.pauses = view[v].pauses
      /\ n.mixed = view[v].mixed
  BY <1>2 DEF StateOfView
<1> HIDE DEF n
<1>4. ViewSound(v, n, wire, key)
  BY <1>3, ViewFacts DEF ViewSound, Pausing, InSequence, UpToDate
<1>5. \A x \in DOMAIN view' : ViewSound(x, view'[x], wire, key)
  BY <1>1, <1>4, OthersKept
<1>6. \A x \in DOMAIN view' : ViewSound(x, view[x], wire, key)'
  BY <1>1, <1>5
  DEF ViewSound, Pausing, InSequence, UpToDate, StateOfView
<1> QED  BY <1>1, <1>6 DEF ViewInv, SentSound

-----------------------------------------------------------------------------
LEMMA ViewsStart == Init => ViewInv
<1> SUFFICES ASSUME Init PROVE ViewInv
  OBVIOUS
<1> DEFINE now == Mounted(page, tab, [v \in Views |-> Initial(v)])
           asking == {v \in now : Of[v].start = "key" /\ key # Null}
           first(v) == [view |-> v, key |-> key, round |-> 0]
<1>1. /\ page \in PageNames /\ rounds = 0 /\ view = [v \in now |-> Initial(v)]
      /\ wire = {first(v) : v \in asking}
  BY DataViewsAssumption DEF Init, PageNames
<1>2. tab \in Tabs /\ key \in Keys \cup {Null}
  <2>1. (CHOOSE k \in Names : TRUE) \in Names
    BY DataViewsAssumption
  <2>2. key \in {"active", Null, CHOOSE k \in Names : TRUE}
    BY DEF Init
  <2> QED  BY <2>1, <2>2 DEF Init, Tabs, UserTabs, ActivityTabs, Keys, Statuses
<1>3. /\ now \in SUBSET Views
      /\ page # "stats" => now \cap Buttons = {}
  BY <1>1, <1>2, MountedViews
<1> HIDE DEF now
<1>4. \A v \in asking : /\ first(v) \in Sent /\ first(v).view = v
                        /\ first(v).key = key
  BY <1>2, <1>3 DEF Sent
<1> HIDE DEF first
<1>5. SentSound(wire) /\ \A r \in wire : r.view \in DOMAIN view
  BY <1>1, <1>4 DEF SentSound
<1>6. ASSUME NEW v \in now
      PROVE  ViewSound(v, view[v], wire, key)
  <2>1. v \in Views /\ view[v] = Initial(v)
    BY <1>1, <1>3
  <2>2. Of[v].start = "press" => page = "stats"
    BY <1>3, <2>1, ViewSwitches
  <2>3. /\ \A r \in wire : r.view = v => r.key = key
        /\ Of[v].start = "key" /\ key # Null => \E r \in wire : r.view = v
    BY <1>1, <1>4
  <2>4. InSequence(v, view[v], wire, key)
    BY <2>1, <2>3, InitialSound DEF InSequence, UpToDate
  <2> QED
    BY <2>1, <2>2, <2>4, InitialSound DEF ViewSound, Pausing
<1> QED  BY <1>1, <1>2, <1>5, <1>6 DEF ViewInv

LEMMA ViewsStay == ViewInv /\ [Next]_vars => ViewInv'
<1> SUFFICES ASSUME ViewInv, [Next]_vars PROVE ViewInv'
  OBVIOUS
<1>1. CASE \/ \E k \in Names \cup {Null} : ChangeKey(k) \/ TypeQuery(k)
           \/ \E f \in Filters : FilterClick(f)
  BY <1>1, KeysSound
<1>2. CASE \E t \in Tabs : SelectTab(t)
  BY <1>2, SelectTabSound
<1>3. CASE \/ \E v \in DOMAIN view : Press(v)
           \/ Timeout
  BY <1>3, GoSound, SpinnerEndsSound DEF Timeout
<1>4. CASE Arrive
  BY <1>4, ReceiveSound DEF Arrive
<1>5. CASE UNCHANGED vars
  BY <1>5
  DEF vars, ViewInv, SentSound, ViewSound, Pausing, InSequence, UpToDate,
      StateOfView
<1> QED  BY <1>1, <1>2, <1>3, <1>4, <1>5 DEF Next

LEMMA ViewInvariant == Spec => []ViewInv
BY ViewsStart, ViewsStay, PTL DEF Spec

(* What a view that shows rows, or that there are none, has been told.     *)
LEMMA ShownUpToDate ==
  ASSUME NEW v \in Views, Of[v].failure # "logged", NEW s, NEW k,
         UpToDate(v, s, k), Shown(v, s) \cap {"rows", "nothing"} # {}
  PROVE  s.data.key = k
<1>1. v \in KeyViews \cup Buttons \cup {"NavSearch"}
  BY KindsOfViews DEF Switches
<1>2. CASE v \in KeyViews
  <2>1. Shown(v, s) \in {InTurn(s, Rows(s)), InTurn(s, "rows")}
    BY <1>2
    DEF Shown, KeyViews, CreditScreen, PortfolioScreen, FinancialsScreen,
        LeaderboardScreen, MarketsScreen, StatsScreen
  <2>2. ~s.error
    BY <2>1 DEF InTurn
  <2> QED
    BY <1>2, <2>2, KindsOfViews DEF UpToDate, Switches
<1>3. CASE v \in Buttons
  <2>1. Shown(v, s) \in {Panels(s, Rows(s)), Panels(s, "rows")}
    BY <1>3 DEF Shown, Buttons, MetricsScreen, RankingScreen
  <2>2. s.data # NoData
    BY <2>1 DEF Panels
  <2> QED
    BY <1>3, <2>2, KindsOfViews DEF UpToDate, Switches
<1>4. CASE v = "NavSearch"
  <2>1. Shown(v, s) = SearchScreen(s)
    BY <1>4 DEF Shown
  <2>2. NoData.full = FALSE
    BY DEF NoData
  <2>3. s.data # NoData
    BY <2>1, <2>2 DEF SearchScreen
  <2> QED
    BY <1>4, <2>3, KindsOfViews DEF UpToDate, Switches
<1> QED  BY <1>1, <1>2, <1>3, <1>4

(* A view whose requests have not overlapped, that waits for none of them  *)
(* and tells its failures, shows rows or their absence for the key its     *)
(* page is about: for every hook and layout that fetches, with any number  *)
(* of keys, tabs, presses and failures.                                    *)
THEOREM DataIsOfTheKey == Spec => []RightDataInSequence
<1>1. ViewInv => RightDataInSequence
  <2> SUFFICES ASSUME ViewInv, NEW v \in DOMAIN view, ~view[v].mixed,
                      Quiet(v), key # Null, Of[v].failure # "logged",
                      Shown(v, view[v]) \cap {"rows", "nothing"} # {}
               PROVE  view[v].data.key = key
    BY DEF RightDataInSequence
  <2>1. view[v].pauses = {} /\ \A r \in wire : r.view # v
    BY DEF Quiet, Outstanding
  <2>2. UpToDate(v, view[v], key)
    BY <2>1, ViewFacts DEF InSequence
  <2> QED  BY <2>2, ViewFacts, ShownUpToDate
<1> QED  BY <1>1, ViewInvariant, PTL

(* The timeout of NavSearchDropdown.jsx never asks for a query that has    *)
(* been typed over, and mounting asks for nothing but the key of the page. *)
THEOREM SearchesAreCurrent == Spec => SearchesCurrentQuery
<1> DEFINE Current == \A r \in wire' \ wire :
                        r.view = "NavSearch" => r.key = key'
<1>1. ASSUME ViewInv, [Next]_vars
      PROVE  Current
  <2>1. ASSUME NEW t, NEW k, NEW s, NEW w, Render(t, k, s, w)
        PROVE  \A r \in wire' : r \in w \/ r.key = k
    BY <2>1 DEF Render, Ask
  <2>2. CASE \/ \E k \in Names \cup {Null} : ChangeKey(k) \/ TypeQuery(k)
             \/ \E f \in Filters : FilterClick(f)
    <3>1. PICK k : NewKey(k)
      BY <2>2 DEF ChangeKey, TypeQuery, FilterClick
    <3> DEFINE new(v) == [Ask(v, k) EXCEPT !.round = rounds + 1]
               asking == {v \in DOMAIN view : Of[v].start = "key" /\ k # Null}
    <3>2. \A v : new(v).key = k
      BY DEF Ask
    <3>3. \A r \in wire' :
            r \in wire \cup {new(v) : v \in asking} \/ r.key = k
      BY <2>1, <3>1 DEF NewKey
    <3>4. key' = k
      BY <3>1 DEF NewKey
    <3> HIDE DEF new
    <3> QED  BY <3>2, <3>3, <3>4
  <2>3. CASE \E t \in Tabs : SelectTab(t)
    BY <2>1, <2>3 DEF SelectTab
  <2>4. CASE \E v \in DOMAIN view : Press(v) \/ PauseEnds(v)
    <3>1. \E v \in DOMAIN view : \E s : Go(v, key, s)
      <4>1. PICK v \in DOMAIN view : Press(v) \/ PauseEnds(v)
        BY <2>4
      <4>2. CASE Press(v)
        BY <4>2 DEF Press
      <4>3. CASE PauseEnds(v)
        <5>1. PICK k \in view[v].pauses :
                Go(v, k, [view[v] EXCEPT !.pauses = @ \ {k}])
          BY <4>3 DEF PauseEnds
        <5>2. k = key
          BY <1>1, ViewFacts DEF Pausing
        <5> QED  BY <5>1, <5>2
      <4> QED  BY <4>1, <4>2, <4>3
    <3>2. PICK v \in DOMAIN view : \E s : Go(v, key, s)
      BY <3>1
    <3>3. PICK s : Go(v, key, s)
      BY <3>2
    <3> DEFINE new == [Ask(v, key) EXCEPT !.round = rounds + 1]
    <3>4. new.key = key
      BY DEF Ask
    <3>5. \A r \in wire' : r \in wire \cup {new} \/ r.key = key
      BY <2>1, <3>3 DEF Go
    <3>6. key' = key
      BY <3>3 DEF Go
    <3> HIDE DEF new
    <3> QED  BY <3>4, <3>5, <3>6
  <2>5. CASE Arrive
    <3>1. PICK r \in wire : Receive(r)
      BY <2>5 DEF Arrive
    <3>2. PICK s : Render(tab, key, s, wire \ {r})
      BY <3>1 DEF Receive
    <3> QED  BY <2>1, <3>1, <3>2 DEF Receive
  <2>6. CASE \E v \in DOMAIN view : SpinnerEnds(v)
    BY <2>6 DEF SpinnerEnds
  <2>7. CASE UNCHANGED vars
    BY <2>7 DEF vars
  <2> QED
    BY <1>1, <2>2, <2>3, <2>4, <2>5, <2>6, <2>7 DEF Next, Timeout
<1>2. ViewInv /\ [Next]_vars => [Current]_vars
  BY <1>1
<1> QED  BY <1>2, ViewInvariant, PTL DEF Spec, SearchesCurrentQuery


-----------------------------------------------------------------------------
(* The inductive invariant of the creation of markets *)

CreateTyped ==
  /\ draft \in Draft /\ error \in Error /\ jobs \subseteq Job
  /\ chosen \in Seq(Files \cup {NoFile}) /\ Len(chosen) <= MaxSubmissions
  /\ DOMAIN created \subseteq DOMAIN chosen

(* Each submission has one job at most, with the image chosen for it.      *)
JobsNamed ==
  /\ \A j, k \in jobs : j.id = k.id => j = k
  /\ \A j \in jobs : j.id \in DOMAIN chosen /\ j.draft.file = chosen[j.id]

(* What the server answered or will answer is true.                        *)
JobsTrue ==
  \A j \in jobs :
    IF j.stage \in {"posted", "refused"} THEN j.id \notin DOMAIN created
    ELSE j.id \in DOMAIN created

(* A rejection on the form is about a submission that was made.            *)
RejectionNamed == error.kind = "rejected" => error.of \in DOMAIN chosen

CreateInv ==
  /\ CreateTyped /\ JobsNamed /\ JobsTrue /\ RejectionNamed
  /\ ImageOfSubmission /\ FailureMeansNoMarket

-----------------------------------------------------------------------------
(* The inductive invariant of the creation of users *)

Wish == [name : Usernames \cup {NoName}, perms : SUBSET Permissions]

AddUserTyped ==
  /\ form \in [Admins -> UserForm] /\ requests \subseteq UserRequest
  /\ asked \in Seq(Wish) /\ Len(asked) <= MaxRequests
  /\ DOMAIN rows \subseteq DOMAIN asked
  /\ \A i \in DOMAIN rows : rows[i] \in Row

RequestsNamed ==
  /\ \A r, s \in requests : r.id = s.id => r = s
  /\ \A r \in requests : r.id \in DOMAIN asked

(* What has become of a request by its stage.                              *)
RequestsTrue ==
  \A r \in requests :
    /\ r.stage \in {"posted", "checked"} => r.id \notin DOMAIN rows
    /\ r.stage = "checked" => asked[r.id].name # NoName
    /\ r.stage \in {"inserted", "done"} => r.id \in DOMAIN rows
    /\ r.stage = "done" => rows[r.id].perms = asked[r.id].perms

RowsNamed == \A i \in DOMAIN rows : rows[i].name = asked[i].name

(* The name beside an awaited answer is the one asked for.                 *)
NamesBeside ==
  \A r \in requests :
    r.awaited /\ ~form[r.admin].mixed =>
      form[r.admin].name = asked[r.id].name

AddUserInv ==
  /\ AddUserTyped /\ RequestsNamed /\ RequestsTrue /\ RowsNamed
  /\ NamesBeside /\ UsernamesUnique /\ CredentialsComplete

-----------------------------------------------------------------------------
(* The inductive invariant of the profile *)

UserRow == [texts : [Texts -> Values], links : Links]
Page == [shown : Showing, editor : Fields \cup {"closed"},
         typed : Values \cup Links, disturbed : BOOLEAN]
ProfileSave ==
  [id : Nat, field : Fields, content : Values \cup Links,
   stage : {"posted", "read", "saved", "refused"}, awaited : BOOLEAN,
   row : UserRow]

ProfileTyped ==
  /\ saved \in UserRow /\ profile \in Page /\ saves \subseteq ProfileSave
  /\ pressed \in Nat
  /\ profile.editor # "closed" => profile.typed \in Contents(profile.editor)
  /\ \A j \in saves : j.content \in Contents(j.field)

(* The server stores no text as typed with blanks around it.               *)
Trimmed(row) == \A f \in Texts : row.texts[f] # "padded"
RowsTrimmed == Trimmed(saved) /\ \A j \in saves : Trimmed(j.row)

(* What the page shows of a field is what is stored.                       *)
Matches(f) ==
  (f = "links" => profile.shown.known) => CleanContent(f, Shows(f)) = Stored(f)

(* A save that nothing disturbs is alone, and its answer makes up for the  *)
(* only difference between page and row.                                   *)
OneSave ==
  ~profile.disturbed =>
    /\ \A j, k \in saves : j = k
    /\ \A j \in saves :
         /\ j.awaited
         /\ j.stage = "read" => j.row = saved
         /\ j.stage = "saved" => Stored(j.field) =
                                   CleanContent(j.field, j.content)
    /\ \A f \in Fields :
         (\A j \in saves : j.stage = "saved" => j.field # f) => Matches(f)

ProfileInv == ProfileTyped /\ RowsTrimmed /\ OneSave

-----------------------------------------------------------------------------
(* Creating markets: lemmas about jobs *)

Answered(j) == j.stage \notin {"posted", "refused"}

LEMMA JobMoved ==
  ASSUME NEW j \in Job,
         NEW stage \in {"posted", "created", "refused", "uploading",
                        "uploaded"}
  PROVE  /\ [j EXCEPT !.stage = stage] \in Job
         /\ [j EXCEPT !.stage = stage].stage = stage
         /\ [j EXCEPT !.stage = stage].id = j.id
         /\ [j EXCEPT !.stage = stage].draft = j.draft
BY DEF Job

LEMMA JobUnmounted ==
  ASSUME NEW j \in Job
  PROVE  /\ [j EXCEPT !.mounted = FALSE] \in Job
         /\ [j EXCEPT !.mounted = FALSE].stage = j.stage
         /\ [j EXCEPT !.mounted = FALSE].id = j.id
         /\ [j EXCEPT !.mounted = FALSE].draft = j.draft
BY DEF Job

(* A step that creates no market and sends nothing.                        *)
LEMMA NothingCreated ==
  ASSUME CreateInv, UNCHANGED <<created, chosen>>,
         draft' \in Draft, error' \in Error, jobs' \subseteq Job,
         \A k \in jobs' : \E j \in jobs :
           /\ k.id = j.id /\ k.draft = j.draft
           /\ Answered(k) <=> Answered(j),
         \A k, l \in jobs' : k.id = l.id => k = l,
         error'.kind = "rejected" =>
           /\ error'.of \in DOMAIN chosen /\ error'.of \notin DOMAIN created
           /\ \A k \in jobs' : k.id # error'.of
  PROVE  CreateInv'
<1>1. CreateTyped'
  BY DEF CreateInv, CreateTyped
<1>2. ASSUME NEW k \in jobs'
      PROVE  /\ k.id \in DOMAIN chosen /\ k.draft.file = chosen[k.id]
             /\ IF k.stage \in {"posted", "refused"}
                THEN k.id \notin DOMAIN created
                ELSE k.id \in DOMAIN created
  <2>1. PICK j \in jobs : /\ k.id = j.id /\ k.draft = j.draft
                          /\ Answered(k) <=> Answered(j)
    OBVIOUS
  <2>2. /\ j.id \in DOMAIN chosen /\ j.draft.file = chosen[j.id]
        /\ Answered(j) <=> j.id \in DOMAIN created
    BY DEF CreateInv, JobsNamed, JobsTrue, Answered
  <2> QED  BY <2>1, <2>2 DEF Answered
<1>3. JobsNamed' /\ JobsTrue'
  BY <1>2 DEF JobsNamed, JobsTrue
<1>4. RejectionNamed' /\ FailureMeansNoMarket' /\ ImageOfSubmission'
  BY DEF CreateInv, RejectionNamed, FailureMeansNoMarket, ImageOfSubmission
<1> QED  BY <1>1, <1>3, <1>4 DEF CreateInv

(* Leaving the form.                                                       *)
LEMMA UnmountedJobs ==
  ASSUME CreateInv, NEW js \in SUBSET jobs, jobs' = Unmounted(js)
  PROVE  /\ jobs' \subseteq Job
         /\ \A k \in jobs' : \E j \in jobs :
              /\ k.id = j.id /\ k.draft = j.draft
              /\ Answered(k) <=> Answered(j)
         /\ \A k, l \in jobs' : k.id = l.id => k = l
<1>1. jobs \subseteq Job /\ \A j, k \in jobs : j.id = k.id => j = k
  BY DEF CreateInv, CreateTyped, JobsNamed
<1>2. \A k \in jobs' : \E j \in js : k = [j EXCEPT !.mounted = FALSE]
  BY DEF Unmounted
<1>3. ASSUME NEW k \in jobs'
      PROVE  k \in Job /\ \E j \in jobs :
               /\ k.id = j.id /\ k.draft = j.draft
               /\ Answered(k) <=> Answered(j)
  <2>1. PICK j \in js : k = [j EXCEPT !.mounted = FALSE]
    BY <1>2
  <2> QED  BY <1>1, <2>1, JobUnmounted DEF Answered
<1>4. ASSUME NEW k \in jobs', NEW l \in jobs', k.id = l.id
      PROVE  k = l
  <2>1. PICK i \in js : k = [i EXCEPT !.mounted = FALSE]
    BY <1>2
  <2>2. PICK j \in js : l = [j EXCEPT !.mounted = FALSE]
    BY <1>2
  <2>3. i.id = j.id
    BY <1>1, <1>4, <2>1, <2>2, JobUnmounted
  <2> QED  BY <1>1, <2>1, <2>2, <2>3
<1> QED  BY <1>3, <1>4

(* A job goes on.                                                          *)
LEMMA MovedJobs ==
  ASSUME CreateInv, NEW j \in jobs,
         NEW stage \in {"posted", "created", "refused", "uploading",
                        "uploaded"},
         To(j, stage)
  PROVE  /\ jobs' \subseteq Job
         /\ \A k \in jobs' : \/ k \in jobs /\ k.id # j.id
                             \/ /\ k.id = j.id /\ k.draft = j.draft
                                /\ k.stage = stage
         /\ \A k, l \in jobs' : k.id = l.id => k = l
<1> DEFINE next == [j EXCEPT !.stage = stage]
<1>1. jobs \subseteq Job /\ \A i, k \in jobs : i.id = k.id => i = k
  BY DEF CreateInv, CreateTyped, JobsNamed
<1>2. /\ next \in Job /\ next.stage = stage /\ next.id = j.id
      /\ next.draft = j.draft
  BY <1>1, JobMoved
<1>3. jobs' = (jobs \ {j}) \cup {next}
  BY DEF To
<1> HIDE DEF next
<1> QED  BY <1>1, <1>2, <1>3

(* A job that ends.                                                        *)
LEMMA EndedJobs ==
  ASSUME CreateInv, NEW js \in SUBSET jobs, jobs' = js
  PROVE  /\ jobs' \subseteq Job
         /\ \A k \in jobs' : \E j \in jobs :
              /\ k.id = j.id /\ k.draft = j.draft
              /\ Answered(k) <=> Answered(j)
         /\ \A k, l \in jobs' : k.id = l.id => k = l
BY DEF CreateInv, CreateTyped, JobsNamed

-----------------------------------------------------------------------------
(* Creating markets: the steps *)

LEMMA EditSound ==
  ASSUME CreateInv, \/ \E d \in Draft : Type(d)
                    \/ \E f \in Files : ChooseImage(f)
                    \/ OpenForm \/ UNCHANGED createVars
  PROVE  CreateInv'
<1>1. UNCHANGED <<jobs, created, chosen>>
  BY DEF Type, ChooseImage, OpenForm, createVars
<1>2. error' = error \/ error' = Local
  BY DEF Type, ChooseImage, OpenForm, createVars
<1>3. error' \in Error /\ (error'.kind = "rejected" => error' = error)
  BY <1>2 DEF CreateInv, CreateTyped, Error, Local
<1>4. draft' \in Draft
  BY DEF Type, ChooseImage, OpenForm, createVars, CreateInv, CreateTyped,
         Draft
<1>5. error'.kind = "rejected" =>
        /\ error'.of \in DOMAIN chosen /\ error'.of \notin DOMAIN created
        /\ \A k \in jobs' : k.id # error'.of
  BY <1>1, <1>3 DEF CreateInv, RejectionNamed, FailureMeansNoMarket
<1> QED  BY <1>1, <1>3, <1>4, <1>5, EndedJobs, NothingCreated

LEMMA SubmitSound ==
  ASSUME CreateInv, NEW hasToken \in BOOLEAN, Submit(hasToken)
  PROVE  CreateInv'
<1>1. UNCHANGED <<draft, created>> /\ Len(chosen) < MaxSubmissions
  BY DEF Submit
<1>2. CASE draft.label = "long" \/ ~hasToken
  <2>1. UNCHANGED <<jobs, chosen>> /\ error' = Local
    BY <1>2 DEF Submit
  <2>2. error' \in Error /\ error'.kind # "rejected" /\ draft' \in Draft
    BY <1>1, <2>1 DEF Error, Local, CreateInv, CreateTyped
  <2> QED  BY <1>1, <2>1, <2>2, EndedJobs, NothingCreated
<1>3. CASE ~(draft.label = "long" \/ ~hasToken)
  <2> DEFINE n == Len(chosen) + 1
             new == [id |-> n, draft |-> draft, mounted |-> TRUE,
                     stage |-> "posted"]
  <2>1. /\ draft \in Draft /\ draft.file \in Files \cup {NoFile}
        /\ chosen \in Seq(Files \cup {NoFile})
        /\ jobs \subseteq Job /\ DOMAIN created \subseteq DOMAIN chosen
        /\ Len(chosen) \in Nat /\ MaxSubmissions \in Nat
        /\ DOMAIN chosen = 1..Len(chosen)
    BY CreateAssumption DEF CreateInv, CreateTyped, Draft
  <2>2. /\ chosen' = Append(chosen, draft.file) /\ error' = NoError
        /\ jobs' = jobs \cup {[id |-> Len(chosen'), draft |-> draft,
                               mounted |-> TRUE, stage |-> "posted"]}
    BY <1>3 DEF Submit
  <2>3. /\ chosen' \in Seq(Files \cup {NoFile}) /\ Len(chosen') = n
        /\ DOMAIN chosen' = 1..n /\ chosen'[n] = draft.file
        /\ \A i \in DOMAIN chosen : chosen'[i] = chosen[i]
    BY <2>1, <2>2
  <2>4. jobs' = jobs \cup {new} /\ new.id = n /\ new.draft = draft
        /\ new.stage = "posted"
    BY <2>2, <2>3
  <2>5. new \in Job
    BY <1>1, <2>1 DEF Job, Submissions
  <2> HIDE DEF new
  <2>6. n \notin DOMAIN chosen /\ n \notin DOMAIN created
        /\ n \in DOMAIN chosen' /\ DOMAIN chosen \subseteq DOMAIN chosen'
    BY <2>1, <2>3
  <2>7. CreateTyped'
    BY <1>1, <2>1, <2>2, <2>3, <2>4, <2>5, <2>6
    DEF CreateInv, CreateTyped, Error, NoError
  <2>8. \A j \in jobs : j.id \in DOMAIN chosen /\ j.id # n
    BY <2>6 DEF CreateInv, JobsNamed
  <2>9. JobsNamed'
    BY <2>3, <2>4, <2>6, <2>8 DEF CreateInv, JobsNamed
  <2>10. JobsTrue'
    BY <1>1, <2>4, <2>6 DEF CreateInv, JobsTrue
  <2>11. error'.kind # "rejected"
    BY <2>2 DEF NoError
  <2>12. ImageOfSubmission'
    BY <1>1, <2>1, <2>3 DEF CreateInv, ImageOfSubmission
  <2> QED
    BY <2>7, <2>9, <2>10, <2>11, <2>12
    DEF CreateInv, RejectionNamed, FailureMeansNoMarket
<1> QED  BY <1>2, <1>3

LEMMA LeaveFormSound ==
  ASSUME CreateInv, LeaveForm
  PROVE  CreateInv'
<1>1. /\ jobs' = Unmounted(jobs) /\ UNCHANGED <<created, chosen>>
      /\ draft' = NewDraft /\ error' = NoError
  BY DEF LeaveForm
<1>2. draft' \in Draft /\ error' \in Error /\ error'.kind # "rejected"
  BY <1>1 DEF Draft, NewDraft, Error, NoError
<1> QED  BY <1>1, <1>2, UnmountedJobs, NothingCreated

LEMMA FinishSound ==
  ASSUME CreateInv, NEW j \in jobs, Finish(j)
  PROVE  CreateInv'
<1>1. /\ jobs' = Unmounted(jobs \ {j}) /\ UNCHANGED <<created, chosen>>
      /\ draft' = NewDraft /\ error' = NoError
  BY DEF Finish, GoToMarket
<1>2. draft' \in Draft /\ error' \in Error /\ error'.kind # "rejected"
  BY <1>1 DEF Draft, NewDraft, Error, NoError
<1> QED  BY <1>1, <1>2, UnmountedJobs, NothingCreated

(* The end of a job without a market page.                                 *)
LEMMA ReportSound ==
  ASSUME CreateInv, NEW j \in jobs,
         NEW kind \in {"rejected", "unclear"},
         kind = "rejected" => j.stage = "refused",
         Report(j, kind), jobs' = jobs \ {j},
         UNCHANGED <<draft, created, chosen>>
  PROVE  CreateInv'
<1>1. /\ draft' \in Draft /\ j \in Job /\ j.id \in Submissions
      /\ error \in Error
  BY DEF CreateInv, CreateTyped, Job
<1>2. error' = error \/ error' = [kind |-> kind, of |-> j.id]
  BY DEF Report
<1>3. error' \in Error
  BY <1>1, <1>2 DEF Error
<1>4. error'.kind = "rejected" =>
        /\ error'.of \in DOMAIN chosen /\ error'.of \notin DOMAIN created
        /\ \A k \in jobs' : k.id # error'.of
  <2>1. CASE error' = error
    BY <2>1 DEF CreateInv, RejectionNamed, FailureMeansNoMarket
  <2>2. CASE error' = [kind |-> kind, of |-> j.id]
    BY <2>2 DEF CreateInv, JobsNamed, JobsTrue
  <2> QED  BY <1>2, <2>1, <2>2
<1> QED  BY <1>1, <1>3, <1>4, EndedJobs, NothingCreated

(* Steps of a job that leave the page and the markets alone.               *)
LEMMA JobStepSound ==
  ASSUME CreateInv, NEW j \in jobs,
         NEW stage \in {"refused", "uploading", "uploaded"},
         (stage = "refused") <=> j.stage = "posted", j.stage # "refused",
         To(j, stage), UNCHANGED <<draft, error, created, chosen>>
  PROVE  CreateInv'
<1>1. /\ jobs' \subseteq Job
      /\ \A k \in jobs' : \/ k \in jobs /\ k.id # j.id
                          \/ /\ k.id = j.id /\ k.draft = j.draft
                             /\ k.stage = stage
      /\ \A k, l \in jobs' : k.id = l.id => k = l
  BY MovedJobs
<1>2. \A k \in jobs' : \E i \in jobs :
        /\ k.id = i.id /\ k.draft = i.draft
        /\ Answered(k) <=> Answered(i)
  BY <1>1 DEF Answered
<1>3. error'.kind = "rejected" =>
        /\ error'.of \in DOMAIN chosen /\ error'.of \notin DOMAIN created
        /\ \A k \in jobs' : k.id # error'.of
  BY <1>2 DEF CreateInv, RejectionNamed, FailureMeansNoMarket
<1>4. draft' \in Draft /\ error' \in Error
  BY DEF CreateInv, CreateTyped
<1> QED  BY <1>1, <1>2, <1>3, <1>4, NothingCreated

LEMMA ServeCreateSound ==
  ASSUME CreateInv, NEW j \in jobs, ServeCreate(j)
  PROVE  CreateInv'
<1>1. j.stage = "posted" /\ UNCHANGED <<draft, error, chosen>>
  BY DEF ServeCreate
<1>2. CASE To(j, "refused") /\ UNCHANGED created
  BY <1>1, <1>2, JobStepSound
<1>3. CASE /\ created' = [n \in DOMAIN created \cup {j.id} |->
                            IF n = j.id THEN NoFile ELSE created[n]]
           /\ To(j, "created")
  <2>1. /\ jobs' \subseteq Job
        /\ \A k \in jobs' : \/ k \in jobs /\ k.id # j.id
                            \/ /\ k.id = j.id /\ k.draft = j.draft
                               /\ k.stage = "created"
        /\ \A k, l \in jobs' : k.id = l.id => k = l
    BY <1>3, MovedJobs
  <2>2. /\ DOMAIN created' = DOMAIN created \cup {j.id}
        /\ created'[j.id] = NoFile
        /\ \A n \in DOMAIN created : n # j.id => created'[n] = created[n]
    BY <1>3
  <2>3. j.id \in DOMAIN chosen /\ j.draft.file = chosen[j.id]
    BY DEF CreateInv, JobsNamed
  <2>4. CreateTyped'
    BY <1>1, <2>1, <2>2, <2>3 DEF CreateInv, CreateTyped
  <2>5. JobsNamed' /\ JobsTrue'
    BY <1>1, <2>1, <2>2, <2>3 DEF CreateInv, JobsNamed, JobsTrue
  <2>6. error.kind = "rejected" =>
          /\ error.of # j.id /\ error.of \notin DOMAIN created
          /\ \A k \in jobs : k.id # error.of
    BY DEF CreateInv, FailureMeansNoMarket
  <2>7. FailureMeansNoMarket' /\ RejectionNamed'
    BY <1>1, <2>1, <2>2, <2>6
    DEF CreateInv, FailureMeansNoMarket, RejectionNamed
  <2>8. ImageOfSubmission'
    BY <1>1, <2>2 DEF CreateInv, ImageOfSubmission
  <2> QED  BY <2>4, <2>5, <2>7, <2>8 DEF CreateInv
<1> QED  BY <1>2, <1>3 DEF ServeCreate

LEMMA ServeImageSound ==
  ASSUME CreateInv, NEW j \in jobs, ServeImage(j)
  PROVE  CreateInv'
<1>1. /\ j.stage = "uploading" /\ UNCHANGED <<draft, error, chosen>>
      /\ To(j, "uploaded")
  BY DEF ServeImage
<1>2. CASE UNCHANGED created
  BY <1>1, <1>2, JobStepSound
<1>3. CASE created' = [created EXCEPT ![j.id] = j.draft.file]
  <2>1. /\ jobs' \subseteq Job
        /\ \A k \in jobs' : \/ k \in jobs /\ k.id # j.id
                            \/ /\ k.id = j.id /\ k.draft = j.draft
                               /\ k.stage = "uploaded"
        /\ \A k, l \in jobs' : k.id = l.id => k = l
    BY <1>1, MovedJobs
  <2>2. /\ j.id \in DOMAIN chosen /\ j.draft.file = chosen[j.id]
        /\ j.id \in DOMAIN created
    BY <1>1 DEF CreateInv, JobsNamed, JobsTrue
  <2>3. /\ DOMAIN created' = DOMAIN created
        /\ created'[j.id] = chosen[j.id]
        /\ \A n \in DOMAIN created : n # j.id => created'[n] = created[n]
    BY <1>3, <2>2
  <2>4. CreateTyped'
    BY <1>1, <2>1, <2>3 DEF CreateInv, CreateTyped
  <2>5. JobsNamed' /\ JobsTrue'
    BY <1>1, <2>1, <2>2, <2>3 DEF CreateInv, JobsNamed, JobsTrue
  <2>6. FailureMeansNoMarket' /\ RejectionNamed'
    BY <1>1, <2>1, <2>3
    DEF CreateInv, FailureMeansNoMarket, RejectionNamed
  <2>7. ImageOfSubmission'
    BY <1>1, <2>3 DEF CreateInv, ImageOfSubmission
  <2> QED  BY <2>4, <2>5, <2>6, <2>7 DEF CreateInv
<1> QED  BY <1>2, <1>3 DEF ServeImage

LEMMA CreateInvariant == CreateSpec => []CreateInv
<1>1. ASSUME CreateInit
      PROVE  CreateInv
  <2>1. /\ draft = NewDraft /\ error = NoError /\ jobs = {}
        /\ created = <<>> /\ chosen = <<>> /\ DOMAIN created = {}
    BY <1>1 DEF CreateInit
  <2>2. CreateTyped
    BY <2>1, CreateAssumption
    DEF CreateTyped, Draft, NewDraft, Error, NoError
  <2>3. error.kind # "rejected"
    BY <2>1 DEF NoError
  <2> QED
    BY <2>1, <2>2, <2>3
    DEF CreateInv, JobsNamed, JobsTrue, RejectionNamed, ImageOfSubmission,
        FailureMeansNoMarket
<1>2. ASSUME CreateInv, [CreateNext]_createVars
      PROVE  CreateInv'
  <2>1. CASE \/ \E d \in Draft : Type(d)
             \/ \E f \in Files : ChooseImage(f)
             \/ OpenForm \/ UNCHANGED createVars
    BY <1>2, <2>1, EditSound
  <2>2. CASE LeaveForm \/ \E hasToken \in BOOLEAN : Submit(hasToken)
    BY <1>2, <2>2, LeaveFormSound, SubmitSound
  <2>3. ASSUME NEW j \in jobs, ServeCreate(j) \/ ServeImage(j)
        PROVE  CreateInv'
    BY <1>2, <2>3, ServeCreateSound, ServeImageSound
  <2>4. ASSUME NEW j \in jobs, Upload(j)
        PROVE  CreateInv'
    BY <1>2, <2>4, JobStepSound DEF Upload
  <2>5. ASSUME NEW j \in jobs, Finish(j)
        PROVE  CreateInv'
    BY <1>2, <2>5, FinishSound
  <2>6. ASSUME NEW j \in jobs, Refused(j)
        PROVE  CreateInv'
    BY <1>2, <2>6, ReportSound DEF Refused
  <2>7. ASSUME NEW j \in jobs, Lose(j)
        PROVE  CreateInv'
    BY <1>2, <2>7, ReportSound DEF Lose
  <2> QED
    BY <1>2, <2>1, <2>2, <2>3, <2>4, <2>5, <2>6, <2>7
    DEF CreateNext, CreateServe, CreateArrive
<1> QED  BY <1>1, <1>2, PTL DEF CreateSpec

(* Whatever was chosen or submitted since (handleSubmit of Create.jsx), a  *)
(* market shows no image but the one that was in the form with it.         *)
THEOREM ImagesReachTheirMarkets == CreateSpec => []ImageOfSubmission
<1>1. CreateInv => ImageOfSubmission
  BY DEF CreateInv
<1> QED  BY <1>1, CreateInvariant, PTL

(* When the form says that a creation was refused, that submission made no *)
(* market, and no later step of it makes one.                              *)
THEOREM RefusalsAreTrue == CreateSpec => []FailureMeansNoMarket
<1>1. CreateInv => FailureMeansNoMarket
  BY DEF CreateInv
<1> QED  BY <1>1, CreateInvariant, PTL

-----------------------------------------------------------------------------
(* Creating users: lemmas about forms and requests *)

Stages == {"posted", "checked", "inserted", "done", "failed"}

LEMMA RequestMoved ==
  ASSUME NEW r \in UserRequest, NEW stage \in Stages
  PROVE  /\ [r EXCEPT !.stage = stage] \in UserRequest
         /\ [r EXCEPT !.stage = stage].stage = stage
         /\ [r EXCEPT !.stage = stage].id = r.id
         /\ [r EXCEPT !.stage = stage].admin = r.admin
         /\ [r EXCEPT !.stage = stage].awaited = r.awaited
BY DEF UserRequest, Stages

LEMMA RequestAwaited ==
  ASSUME NEW r \in UserRequest, NEW b \in BOOLEAN
  PROVE  /\ [r EXCEPT !.awaited = b] \in UserRequest
         /\ [r EXCEPT !.awaited = b].stage = r.stage
         /\ [r EXCEPT !.awaited = b].id = r.id
         /\ [r EXCEPT !.awaited = b].admin = r.admin
         /\ [r EXCEPT !.awaited = b].awaited = b
BY DEF UserRequest

(* What the stage of a request stands for.                                 *)
StageTrue(r, stage) ==
  /\ stage \in {"posted", "checked"} => r.id \notin DOMAIN rows
  /\ stage = "checked" => asked[r.id].name # NoName
  /\ stage \in {"inserted", "done"} => r.id \in DOMAIN rows
  /\ stage = "done" => rows[r.id].perms = asked[r.id].perms

(* A request goes on.                                                      *)
LEMMA MovedRequests ==
  ASSUME AddUserInv, NEW r \in requests, NEW stage \in Stages,
         Moves(r, stage)
  PROVE  /\ requests' \subseteq UserRequest
         /\ \A k \in requests' :
              \/ k \in requests /\ k.id # r.id
              \/ /\ k.id = r.id /\ k.stage = stage /\ k.admin = r.admin
                 /\ k.awaited = r.awaited
         /\ \A k, l \in requests' : k.id = l.id => k = l
<1> DEFINE next == [r EXCEPT !.stage = stage]
<1>1. /\ requests \subseteq UserRequest
      /\ \A k, l \in requests : k.id = l.id => k = l
  BY DEF AddUserInv, AddUserTyped, RequestsNamed
<1>2. /\ next \in UserRequest /\ next.stage = stage /\ next.id = r.id
      /\ next.admin = r.admin /\ next.awaited = r.awaited
  BY <1>1, RequestMoved
<1>3. requests' = (requests \ {r}) \cup {next}
  BY DEF Moves
<1> HIDE DEF next
<1> QED  BY <1>1, <1>2, <1>3

(* A step that leaves the tables alone.                                    *)
LEMMA FormStepSound ==
  ASSUME AddUserInv, UNCHANGED <<rows, asked>>,
         form' \in [Admins -> UserForm], requests' \subseteq UserRequest,
         \A k \in requests' : \E r \in requests :
           k.id = r.id /\ StageTrue(r, k.stage),
         \A k, l \in requests' : k.id = l.id => k = l,
         NamesBeside', CredentialsComplete'
  PROVE  AddUserInv'
<1>1. AddUserTyped'
  BY DEF AddUserInv, AddUserTyped
<1>2. ASSUME NEW k \in requests'
      PROVE  /\ k.id \in DOMAIN asked
             /\ StageTrue(k, k.stage)
  BY DEF AddUserInv, RequestsNamed, StageTrue
<1>3. RequestsNamed' /\ RequestsTrue'
  BY <1>2 DEF RequestsNamed, RequestsTrue, StageTrue
<1>4. RowsNamed' /\ UsernamesUnique'
  BY DEF AddUserInv, RowsNamed, UsernamesUnique
<1> QED  BY <1>1, <1>3, <1>4 DEF AddUserInv

(* Stages as they are say the truth.                                       *)
LEMMA StagesTrue ==
  ASSUME AddUserInv, NEW r \in requests
  PROVE  StageTrue(r, r.stage)
BY DEF AddUserInv, RequestsTrue, StageTrue

(* A step of a request on the server that leaves the tables alone.         *)
LEMMA ServedSound ==
  ASSUME AddUserInv, NEW r \in requests, NEW stage \in Stages,
         Moves(r, stage), StageTrue(r, stage),
         UNCHANGED <<form, rows, asked>>
  PROVE  AddUserInv'
<1>1. /\ requests' \subseteq UserRequest
      /\ \A k \in requests' :
           \/ k \in requests /\ k.id # r.id
           \/ /\ k.id = r.id /\ k.stage = stage /\ k.admin = r.admin
              /\ k.awaited = r.awaited
      /\ \A k, l \in requests' : k.id = l.id => k = l
  BY MovedRequests
<1>2. \A k \in requests' : \E q \in requests :
        k.id = q.id /\ StageTrue(q, k.stage)
  BY <1>1, StagesTrue
<1>3. NamesBeside'
  BY <1>1 DEF AddUserInv, NamesBeside
<1>4. CredentialsComplete' /\ form' \in [Admins -> UserForm]
  BY DEF AddUserInv, CredentialsComplete, AddUserTyped
<1> QED  BY <1>1, <1>2, <1>3, <1>4, FormStepSound

(* A step that changes nothing but the form of one administrator.          *)
LEMMA OneFormSound ==
  ASSUME AddUserInv, SameTables, NEW a \in Admins, NEW next \in UserForm,
         form' = [form EXCEPT ![a] = next],
         ~next.mixed =>
           \/ next.name = form[a].name /\ ~form[a].mixed
           \/ ~Awaits(a),
         next.password # 0 =>
           /\ next.password = form[a].password
           /\ ~next.mixed => next.name = form[a].name /\ ~form[a].mixed
  PROVE  AddUserInv'
<1>1. /\ form \in [Admins -> UserForm] /\ requests \subseteq UserRequest
      /\ \A k, l \in requests : k.id = l.id => k = l
  BY DEF AddUserInv, AddUserTyped, RequestsNamed
<1>2. /\ form' \in [Admins -> UserForm] /\ form'[a] = next
      /\ \A b \in Admins : b # a => form'[b] = form[b]
  BY <1>1
<1>3. requests' = requests /\ rows' = rows /\ asked' = asked
  BY DEF SameTables
<1>4. \A r \in requests : r.admin \in Admins
  BY <1>1 DEF UserRequest
<1>5. NamesBeside'
  BY <1>2, <1>3, <1>4 DEF AddUserInv, NamesBeside, Awaits
<1>6. CredentialsComplete'
  BY <1>2, <1>3 DEF AddUserInv, CredentialsComplete
<1>7. \A k \in requests' : \E r \in requests :
        k.id = r.id /\ StageTrue(r, k.stage)
  BY <1>3, StagesTrue
<1> QED  BY <1>1, <1>2, <1>3, <1>5, <1>6, <1>7, FormStepSound

-----------------------------------------------------------------------------
(* Creating users: the steps *)

LEMMA ResetForm ==
  ASSUME NEW l \in BOOLEAN, NEW m \in BOOLEAN
  PROVE  LET next == [NewUserForm EXCEPT !.listed = l, !.mixed = m]
         IN  next \in UserForm /\ next.mixed = m /\ next.password = 0
<1>1. 0 \in 0..MaxRequests
  BY AddUserAssumption
<1> QED  BY <1>1 DEF NewUserForm, UserForm

LEMMA EditUserSound ==
  ASSUME AddUserInv, NEW a \in Admins,
         \/ ListPermissions(a) \/ Reset(a)
         \/ \E n \in Usernames \cup {NoName} : SetName(a, n)
         \/ \E p \in Permissions : TogglePermission(a, p)
  PROVE  AddUserInv'
<1> DEFINE f == form[a]
<1>1. form \in [Admins -> UserForm] /\ f \in UserForm
  BY DEF AddUserInv, AddUserTyped
<1>2. ASSUME ListPermissions(a)
      PROVE  AddUserInv'
  <2> DEFINE next == [f EXCEPT !.listed = TRUE]
  <2>1. /\ next \in UserForm /\ next.name = f.name /\ next.mixed = f.mixed
        /\ next.password = f.password
    BY <1>1 DEF UserForm
  <2>2. SameTables /\ form' = [form EXCEPT ![a] = next]
    BY <1>1, <1>2 DEF ListPermissions
  <2> HIDE DEF next
  <2> QED  BY <2>1, <2>2, OneFormSound
<1>3. ASSUME Reset(a)
      PROVE  AddUserInv'
  <2> DEFINE next == [NewUserForm EXCEPT !.listed = f.listed,
                                         !.mixed = Awaits(a)]
  <2>1. Awaits(a) \in BOOLEAN
    BY DEF Awaits
  <2>2. f.listed \in BOOLEAN
    BY <1>1 DEF UserForm
  <2>4. /\ next \in UserForm /\ next.mixed = Awaits(a)
        /\ next.password = 0
    BY <2>1, <2>2, ResetForm
  <2>5. SameTables /\ form' = [form EXCEPT ![a] = next]
    BY <1>3 DEF Reset
  <2> HIDE DEF next
  <2> QED  BY <2>4, <2>5, OneFormSound
<1>4. ASSUME NEW n \in Usernames \cup {NoName}, SetName(a, n)
      PROVE  AddUserInv'
  <2> DEFINE mix == f.mixed \/ Awaits(a) \/ f.password # 0
             next == [f EXCEPT !.name = n, !.mixed = mix]
  <2>1. mix \in BOOLEAN
    BY <1>1 DEF UserForm, Awaits
  <2>2. /\ next \in UserForm /\ next.mixed = mix
        /\ next.password = f.password
    BY <1>1, <2>1 DEF UserForm
  <2>3. SameTables /\ form' = [form EXCEPT ![a] = next]
    BY <1>1, <1>4 DEF SetName
  <2>4. ~mix => ~Awaits(a) /\ f.password = 0
    OBVIOUS
  <2> HIDE DEF next, mix
  <2> QED  BY <2>2, <2>3, <2>4, OneFormSound
<1>5. ASSUME NEW p \in Permissions, TogglePermission(a, p)
      PROVE  AddUserInv'
  <2> DEFINE picked == (f.selected \ {p}) \cup ({p} \ f.selected)
             next == [f EXCEPT !.selected = picked]
  <2>1. picked \in SUBSET Permissions
    BY <1>1 DEF UserForm
  <2>2. /\ next \in UserForm /\ next.name = f.name /\ next.mixed = f.mixed
        /\ next.password = f.password
    BY <1>1, <2>1 DEF UserForm
  <2>3. SameTables /\ form' = [form EXCEPT ![a] = next]
    BY <1>1, <1>5 DEF TogglePermission
  <2> HIDE DEF next
  <2> QED  BY <2>2, <2>3, OneFormSound
<1> QED  BY <1>2, <1>3, <1>4, <1>5

LEMMA SubmitUserSound ==
  ASSUME AddUserInv, NEW a \in Admins, SubmitUser(a)
  PROVE  AddUserInv'
<1> DEFINE n == Len(asked) + 1
           f == form[a]
           wish == [name |-> f.name, perms |-> f.selected]
           mix == f.mixed \/ Awaits(a) \/ f.password # 0
           next == [f EXCEPT !.error = FALSE, !.mixed = mix]
           new == [id |-> n, admin |-> a, awaited |-> TRUE,
                   stage |-> "posted"]
<1>1. /\ form \in [Admins -> UserForm] /\ f \in UserForm
      /\ requests \subseteq UserRequest
      /\ asked \in Seq(Wish) /\ DOMAIN rows \subseteq DOMAIN asked
      /\ Len(asked) \in Nat /\ MaxRequests \in Nat
      /\ DOMAIN asked = 1..Len(asked)
  BY AddUserAssumption DEF AddUserInv, AddUserTyped
<1>2. mix \in BOOLEAN
  BY <1>1 DEF UserForm, Awaits
<1>3. /\ next \in UserForm /\ next.mixed = mix /\ next.name = f.name
      /\ next.password = f.password
  BY <1>1, <1>2 DEF UserForm
<1>4. wish \in Wish /\ wish.name = f.name
  BY <1>1 DEF Wish, UserForm
<1>5. /\ Len(asked) < MaxRequests /\ UNCHANGED rows
      /\ asked' = Append(asked, wish)
      /\ requests' = requests \cup {[id |-> Len(asked'), admin |-> a,
                                     awaited |-> TRUE, stage |-> "posted"]}
      /\ form' = [form EXCEPT ![a] = next]
  BY <1>1 DEF SubmitUser
<1> HIDE DEF wish, next
<1>6. /\ asked' \in Seq(Wish) /\ Len(asked') = n /\ DOMAIN asked' = 1..n
      /\ asked'[n] = wish /\ \A i \in DOMAIN asked : asked'[i] = asked[i]
  BY <1>1, <1>4, <1>5
<1>7. /\ requests' = requests \cup {new} /\ new.id = n /\ new.admin = a
      /\ new.stage = "posted"
  BY <1>5, <1>6
<1>8. new \in UserRequest
  BY <1>1, <1>5 DEF UserRequest
<1> HIDE DEF new
<1>9. /\ n \notin DOMAIN asked /\ n \notin DOMAIN rows /\ n \in DOMAIN asked'
      /\ DOMAIN asked \subseteq DOMAIN asked'
  BY <1>1, <1>6
<1>10. /\ form' \in [Admins -> UserForm] /\ form'[a] = next
       /\ \A b \in Admins : b # a => form'[b] = form[b]
  BY <1>1, <1>3, <1>5
<1>11. \A r \in requests :
         r.id \in DOMAIN asked /\ r.id # n /\ r.admin \in Admins
  BY <1>1, <1>9 DEF AddUserInv, RequestsNamed, UserRequest
<1>12. AddUserTyped'
  BY <1>1, <1>5, <1>6, <1>7, <1>8, <1>9, <1>10
  DEF AddUserInv, AddUserTyped
<1>13. RequestsNamed'
  BY <1>7, <1>9, <1>11 DEF AddUserInv, RequestsNamed
<1>14. RequestsTrue'
  BY <1>5, <1>6, <1>7, <1>9, <1>11 DEF AddUserInv, RequestsTrue
<1>15. RowsNamed' /\ UsernamesUnique'
  BY <1>1, <1>5, <1>6 DEF AddUserInv, RowsNamed, UsernamesUnique
<1>16. NamesBeside'
  <2>1. ASSUME NEW r \in requests, r.awaited, ~form'[r.admin].mixed
        PROVE  form'[r.admin].name = asked'[r.id].name
    <3>1. r.admin # a
      BY <1>3, <1>10, <2>1 DEF Awaits
    <3> QED  BY <1>6, <1>10, <1>11, <2>1, <3>1 DEF AddUserInv, NamesBeside
  <2>2. form'[new.admin].name = asked'[new.id].name
    BY <1>3, <1>4, <1>6, <1>7, <1>10
  <2> QED  BY <1>7, <2>1, <2>2 DEF NamesBeside
<1>17. CredentialsComplete'
  <2>1. ASSUME NEW b \in Admins, form'[b].password # 0
        PROVE  /\ form'[b].password = form[b].password
               /\ ~form'[b].mixed => form'[b] = form[b]
    <3>1. CASE b = a
      BY <1>3, <1>10, <2>1, <3>1
    <3>2. CASE b # a
      BY <1>10, <3>2
    <3> QED  BY <3>1, <3>2
  <2>2. \A i \in DOMAIN rows : asked'[i].perms = asked[i].perms
    BY <1>1, <1>6
  <2>3. ASSUME NEW b \in Admins, form'[b].password # 0
        PROVE  LET i == form'[b].password IN
                 /\ i \in DOMAIN rows' /\ rows'[i].perms = asked'[i].perms
                 /\ ~form'[b].mixed => rows'[i].name = form'[b].name
    <3> DEFINE i == form[b].password
    <3>1. /\ form'[b].password = i /\ i # 0
          /\ ~form'[b].mixed => form'[b] = form[b]
      BY <2>1, <2>3
    <3>2. /\ i \in DOMAIN rows /\ rows[i].perms = asked[i].perms
          /\ ~form[b].mixed => rows[i].name = form[b].name
      BY <3>1 DEF AddUserInv, CredentialsComplete
    <3>3. asked'[i].perms = asked[i].perms /\ rows' = rows
      BY <1>5, <2>2, <3>2
    <3> QED  BY <3>1, <3>2, <3>3
  <2> QED  BY <2>3 DEF CredentialsComplete
<1> QED
  BY <1>12, <1>13, <1>14, <1>15, <1>16, <1>17 DEF AddUserInv

LEMMA RemountSound ==
  ASSUME AddUserInv, NEW a \in Admins, Remount(a)
  PROVE  AddUserInv'
<1>1. /\ form \in [Admins -> UserForm] /\ requests \subseteq UserRequest
      /\ \A k, l \in requests : k.id = l.id => k = l
      /\ UNCHANGED <<rows, asked>>
  BY DEF AddUserInv, AddUserTyped, RequestsNamed, Remount
<1>2. NewUserForm \in UserForm /\ NewUserForm.password = 0
  BY AddUserAssumption DEF NewUserForm, UserForm
<1>3. /\ form' \in [Admins -> UserForm] /\ form'[a] = NewUserForm
      /\ \A b \in Admins : b # a => form'[b] = form[b]
  BY <1>1, <1>2 DEF Remount
<1>4. ASSUME NEW k \in requests'
      PROVE  \E r \in requests :
               /\ k = [r EXCEPT !.awaited = r.awaited /\ r.admin # a]
               /\ k \in UserRequest /\ k.id = r.id /\ k.stage = r.stage
               /\ k.admin = r.admin
               /\ k.awaited = (r.awaited /\ r.admin # a)
  <2>1. PICK r \in requests :
          k = [r EXCEPT !.awaited = r.awaited /\ r.admin # a]
    BY DEF Remount
  <2>2. (r.awaited /\ r.admin # a) \in BOOLEAN
    BY <1>1 DEF UserRequest
  <2> QED  BY <1>1, <2>1, <2>2, RequestAwaited
<1>5. \A k, l \in requests' : k.id = l.id => k = l
  BY <1>1, <1>4
<1>6. \A k \in requests' : \E r \in requests :
        k.id = r.id /\ StageTrue(r, k.stage)
  BY <1>4, StagesTrue
<1>7. \A r \in requests : r.admin \in Admins
  BY <1>1 DEF UserRequest
<1>8. NamesBeside'
  <2>1. ASSUME NEW k \in requests', k.awaited, ~form'[k.admin].mixed
        PROVE  form'[k.admin].name = asked'[k.id].name
    <3>1. PICK r \in requests :
            /\ k.id = r.id /\ k.admin = r.admin
            /\ k.awaited = (r.awaited /\ r.admin # a)
      BY <1>4
    <3>2. r.awaited /\ r.admin # a
      BY <2>1, <3>1
    <3>3. form'[r.admin] = form[r.admin]
      BY <1>3, <1>7, <3>2
    <3> QED
      BY <1>1, <2>1, <3>1, <3>2, <3>3 DEF AddUserInv, NamesBeside
  <2> QED  BY <2>1 DEF NamesBeside
<1>9. CredentialsComplete'
  BY <1>1, <1>2, <1>3 DEF AddUserInv, CredentialsComplete
<1>10. requests' \subseteq UserRequest
  BY <1>4
<1> QED
  BY <1>1, <1>3, <1>5, <1>6, <1>8, <1>9, <1>10, FormStepSound

LEMMA CheckUserSound ==
  ASSUME AddUserInv, NEW r \in requests, CheckUser(r)
  PROVE  AddUserInv'
<1>1. /\ r.stage = "posted" /\ UNCHANGED <<form, rows, asked>>
      /\ \/ asked[r.id].name # NoName /\ Moves(r, "checked")
         \/ Moves(r, "failed")
  BY DEF CheckUser, Fails
<1>2. r.id \notin DOMAIN rows
  BY <1>1 DEF AddUserInv, RequestsTrue
<1>3. /\ asked[r.id].name # NoName => StageTrue(r, "checked")
      /\ StageTrue(r, "failed")
  BY <1>2 DEF StageTrue
<1> QED  BY <1>1, <1>3, ServedSound DEF Stages

(* The steps that give the user of a request a row, or permissions.        *)
LEMMA WrittenSound ==
  ASSUME AddUserInv, NEW r \in requests, NEW stage \in {"inserted", "done"},
         NEW row \in Row,
         Moves(r, stage), UNCHANGED <<form, asked>>,
         rows' = [i \in DOMAIN rows \cup {r.id} |->
                    IF i = r.id THEN row ELSE rows[i]],
         row.name = asked[r.id].name,
         stage = "done" => row.perms = asked[r.id].perms,
         r.id \notin DOMAIN rows => ~Taken(row.name),
         r.id \in DOMAIN rows => row.perms = asked[r.id].perms
  PROVE  AddUserInv'
<1>1. /\ requests' \subseteq UserRequest
      /\ \A k \in requests' :
           \/ k \in requests /\ k.id # r.id
           \/ /\ k.id = r.id /\ k.stage = stage /\ k.admin = r.admin
              /\ k.awaited = r.awaited
      /\ \A k, l \in requests' : k.id = l.id => k = l
  BY MovedRequests DEF Stages
<1>2. /\ DOMAIN rows' = DOMAIN rows \cup {r.id} /\ rows'[r.id] = row
      /\ \A i \in DOMAIN rows : i # r.id => rows'[i] = rows[i]
  OBVIOUS
<1>3. r.id \in DOMAIN asked
  BY DEF AddUserInv, RequestsNamed
<1>4. AddUserTyped'
  BY <1>1, <1>2, <1>3 DEF AddUserInv, AddUserTyped
<1>5. RequestsNamed'
  BY <1>1, <1>3 DEF AddUserInv, RequestsNamed
<1>6. RequestsTrue'
  <2>1. ASSUME NEW k \in requests', k \in requests, k.id # r.id
        PROVE  /\ k.stage \in {"posted", "checked"} => k.id \notin DOMAIN rows'
               /\ k.stage = "checked" => asked'[k.id].name # NoName
               /\ k.stage \in {"inserted", "done"} => k.id \in DOMAIN rows'
               /\ k.stage = "done" => rows'[k.id].perms = asked'[k.id].perms
    BY <1>2, <2>1 DEF AddUserInv, RequestsTrue
  <2>2. ASSUME NEW k \in requests', k.id = r.id, k.stage = stage
        PROVE  /\ k.stage \notin {"posted", "checked"}
               /\ k.id \in DOMAIN rows'
               /\ k.stage = "done" => rows'[k.id].perms = asked'[k.id].perms
    BY <1>2, <2>2
  <2> QED  BY <1>1, <2>1, <2>2 DEF RequestsTrue
<1>7. RowsNamed'
  BY <1>2 DEF AddUserInv, RowsNamed
<1>8. UsernamesUnique'
  <2>1. \A i \in DOMAIN rows : i # r.id => rows[i].name # row.name
    BY DEF Taken, AddUserInv, UsernamesUnique, RowsNamed
  <2> QED  BY <1>2, <2>1 DEF AddUserInv, UsernamesUnique
<1>9. NamesBeside'
  BY <1>1 DEF AddUserInv, NamesBeside
<1>10. CredentialsComplete'
  <2>1. ASSUME NEW i \in DOMAIN rows, rows[i].perms = asked[i].perms
        PROVE  /\ i \in DOMAIN rows' /\ rows'[i].perms = asked'[i].perms
               /\ rows'[i].name = rows[i].name
    <3>1. rows[i].name = asked[i].name
      BY DEF AddUserInv, RowsNamed
    <3>2. CASE i = r.id
      BY <1>2, <2>1, <3>1, <3>2
    <3>3. CASE i # r.id
      BY <1>2, <2>1, <3>3
    <3> QED  BY <3>2, <3>3
  <2> QED  BY <2>1 DEF AddUserInv, CredentialsComplete
<1> QED
  BY <1>4, <1>5, <1>6, <1>7, <1>8, <1>9, <1>10 DEF AddUserInv

LEMMA InsertUserSound ==
  ASSUME AddUserInv, NEW r \in requests, InsertUser(r)
  PROVE  AddUserInv'
<1> DEFINE wish == asked[r.id]
           row == [name |-> wish.name, perms |-> {}]
<1>1. r.stage = "checked" /\ UNCHANGED <<form, asked>>
  BY DEF InsertUser
<1>2. /\ r.id \in DOMAIN asked /\ r.id \notin DOMAIN rows
      /\ wish.name # NoName /\ asked \in Seq(Wish)
  BY <1>1 DEF AddUserInv, RequestsNamed, RequestsTrue, AddUserTyped
<1>3. wish \in Wish
  BY <1>2
<1>4. row \in Row /\ row.name = wish.name /\ row.perms = {}
  BY <1>2, <1>3 DEF Wish, Row
<1>5. CASE Fails(r)
  <2>1. StageTrue(r, "failed") /\ UNCHANGED <<form, rows, asked>>
    BY <1>1, <1>5 DEF StageTrue, Fails
  <2> QED  BY <1>5, <2>1, ServedSound DEF Fails, Stages
<1>6. CASE ~Taken(wish.name) /\ AddRow(r)
           /\ Moves(r, IF wish.perms = {} THEN "done" ELSE "inserted")
  <2>1. PICK stage \in {"inserted", "done"} :
          Moves(r, stage) /\ (stage = "done" => wish.perms = {})
    BY <1>6
  <2>2. rows' = [i \in DOMAIN rows \cup {r.id} |->
                   IF i = r.id THEN row ELSE rows[i]]
    BY <1>6 DEF AddRow
  <2> HIDE DEF row
  <2> QED  BY <1>1, <1>2, <1>4, <1>6, <2>1, <2>2, WrittenSound
<1> QED  BY <1>5, <1>6 DEF InsertUser

LEMMA AssignSound ==
  ASSUME AddUserInv, NEW r \in requests, AssignPermissions(r)
  PROVE  AddUserInv'
<1> DEFINE wish == asked[r.id]
           row == [rows[r.id] EXCEPT !.perms = wish.perms]
<1>1. r.stage = "inserted" /\ UNCHANGED <<form, asked>>
  BY DEF AssignPermissions
<1>2. /\ r.id \in DOMAIN asked /\ r.id \in DOMAIN rows
      /\ asked \in Seq(Wish) /\ rows[r.id] \in Row
      /\ rows[r.id].name = wish.name
  BY <1>1
  DEF AddUserInv, RequestsNamed, RequestsTrue, AddUserTyped, RowsNamed
<1>3. wish \in Wish
  BY <1>2
<1>4. row \in Row /\ row.name = wish.name /\ row.perms = wish.perms
  BY <1>2, <1>3 DEF Wish, Row
<1>5. CASE Fails(r)
  <2>1. StageTrue(r, "failed") /\ UNCHANGED <<form, rows, asked>>
    BY <1>1, <1>5 DEF StageTrue, Fails
  <2> QED  BY <1>5, <2>1, ServedSound DEF Fails, Stages
<1>6. CASE rows' = [rows EXCEPT ![r.id].perms = wish.perms]
           /\ Moves(r, "done")
  <2>1. rows' = [rows EXCEPT ![r.id] = row]
    BY <1>6
  <2> HIDE DEF row
  <2>2. DOMAIN rows \cup {r.id} = DOMAIN rows
    BY <1>2
  <2>3. rows' = [i \in DOMAIN rows |-> IF i = r.id THEN row ELSE rows[i]]
    BY <2>1
  <2> QED  BY <1>1, <1>2, <1>4, <1>6, <2>2, <2>3, WrittenSound
<1> QED  BY <1>5, <1>6 DEF AssignPermissions

LEMMA AnswerUserSound ==
  ASSUME AddUserInv, NEW r \in requests, AnswerUser(r)
  PROVE  AddUserInv'
<1> DEFINE a == r.admin
           told == [form[a] EXCEPT !.password = r.id]
           warned == [form[a] EXCEPT !.error = TRUE]
<1>1. /\ form \in [Admins -> UserForm] /\ requests \subseteq UserRequest
      /\ \A k, l \in requests : k.id = l.id => k = l
      /\ a \in Admins /\ r.id \in 1..MaxRequests /\ form[a] \in UserForm
      /\ \A k \in requests : k.admin \in Admins
  BY DEF AddUserInv, AddUserTyped, RequestsNamed, UserRequest
<1>2. /\ requests' = requests \ {r} /\ UNCHANGED <<rows, asked>>
      /\ r.stage \in {"done", "failed"}
  BY DEF AnswerUser
<1>3. /\ told \in UserForm /\ told.password = r.id
      /\ told.name = form[a].name /\ told.mixed = form[a].mixed
  BY <1>1 DEF UserForm
<1>4. /\ warned \in UserForm /\ warned.password = form[a].password
      /\ warned.name = form[a].name /\ warned.mixed = form[a].mixed
  BY <1>1 DEF UserForm
<1>5. \/ form' = form
      \/ /\ r.awaited /\ r.stage = "done"
         /\ form' = [form EXCEPT ![a] = told]
      \/ form' = [form EXCEPT ![a] = warned]
  BY <1>1, <1>2 DEF AnswerUser
<1> HIDE DEF told, warned
<1>6. /\ form' \in [Admins -> UserForm]
      /\ \A b \in Admins : /\ form'[b].name = form[b].name
                           /\ form'[b].mixed = form[b].mixed
      /\ \A b \in Admins :
           \/ form'[b].password = form[b].password
           \/ /\ b = a /\ r.awaited /\ r.stage = "done"
              /\ form'[b].password = r.id
  BY <1>1, <1>3, <1>4, <1>5
<1>7. NamesBeside'
  BY <1>1, <1>2, <1>6 DEF AddUserInv, NamesBeside
<1>8. CredentialsComplete'
  <2>1. r.stage = "done" =>
          /\ r.id \in DOMAIN rows /\ rows[r.id].perms = asked[r.id].perms
          /\ rows[r.id].name = asked[r.id].name
    BY DEF AddUserInv, RequestsTrue, RowsNamed
  <2>2. r.awaited /\ ~form[a].mixed => form[a].name = asked[r.id].name
    BY DEF AddUserInv, NamesBeside
  <2>3. ASSUME NEW b \in Admins, form'[b].password # 0
        PROVE  LET i == form'[b].password IN
                 /\ i \in DOMAIN rows /\ rows[i].perms = asked[i].perms
                 /\ ~form'[b].mixed => rows[i].name = form'[b].name
    <3>1. CASE form'[b].password = form[b].password
      BY <1>6, <2>3, <3>1 DEF AddUserInv, CredentialsComplete
    <3>2. CASE b = a /\ r.awaited /\ r.stage = "done"
               /\ form'[b].password = r.id
      BY <1>6, <2>1, <2>2, <3>2
    <3> QED  BY <1>6, <3>1, <3>2
  <2> QED  BY <1>2, <2>3 DEF CredentialsComplete
<1>9. /\ \A k \in requests' : \E q \in requests :
           k.id = q.id /\ StageTrue(q, k.stage)
      /\ \A k, l \in requests' : k.id = l.id => k = l
  BY <1>1, <1>2, StagesTrue
<1> QED
  BY <1>1, <1>2, <1>6, <1>7, <1>8, <1>9, FormStepSound

LEMMA LoseUserSound ==
  ASSUME AddUserInv, NEW r \in requests, LoseUser(r)
  PROVE  AddUserInv'
<1> DEFINE a == r.admin
           warned == [form[a] EXCEPT !.error = TRUE]
           lost == [r EXCEPT !.awaited = FALSE]
<1>1. /\ form \in [Admins -> UserForm] /\ requests \subseteq UserRequest
      /\ \A k, l \in requests : k.id = l.id => k = l
      /\ a \in Admins /\ form[a] \in UserForm
      /\ \A k \in requests : k.admin \in Admins
  BY DEF AddUserInv, AddUserTyped, RequestsNamed, UserRequest
<1>2. /\ warned \in UserForm /\ warned.password = form[a].password
      /\ warned.name = form[a].name /\ warned.mixed = form[a].mixed
  BY <1>1 DEF UserForm
<1>3. /\ lost \in UserRequest /\ lost.id = r.id /\ lost.stage = r.stage
      /\ lost.awaited = FALSE
  BY <1>1, RequestAwaited
<1>4. /\ form' = [form EXCEPT ![a] = warned] /\ UNCHANGED <<rows, asked>>
      /\ requests' = (requests \ {r}) \cup {lost}
  BY <1>1 DEF LoseUser
<1> HIDE DEF warned, lost
<1>5. /\ form' \in [Admins -> UserForm]
      /\ \A b \in Admins : /\ form'[b].name = form[b].name
                           /\ form'[b].mixed = form[b].mixed
                           /\ form'[b].password = form[b].password
  BY <1>1, <1>2, <1>4
<1>6. NamesBeside'
  BY <1>1, <1>3, <1>4, <1>5 DEF AddUserInv, NamesBeside
<1>7. CredentialsComplete'
  BY <1>4, <1>5 DEF AddUserInv, CredentialsComplete
<1>8. /\ \A k \in requests' : \E q \in requests :
           k.id = q.id /\ StageTrue(q, k.stage)
      /\ \A k, l \in requests' : k.id = l.id => k = l
      /\ requests' \subseteq UserRequest
  BY <1>1, <1>3, <1>4, StagesTrue
<1> QED  BY <1>4, <1>5, <1>6, <1>7, <1>8, FormStepSound

LEMMA AddUserInvariant == AddUserSpec => []AddUserInv
<1>1. ASSUME AddUserInit
      PROVE  AddUserInv
  <2>1. /\ form = [a \in Admins |-> NewUserForm]
        /\ requests = {} /\ rows = <<>> /\ asked = <<>> /\ DOMAIN rows = {}
    BY <1>1 DEF AddUserInit
  <2>2. NewUserForm \in UserForm /\ NewUserForm.password = 0
    BY AddUserAssumption DEF NewUserForm, UserForm
  <2>3. AddUserTyped
    BY <2>1, <2>2, AddUserAssumption DEF AddUserTyped
  <2>4. CredentialsComplete
    BY <2>1, <2>2 DEF CredentialsComplete
  <2> QED
    BY <2>1, <2>3, <2>4
    DEF AddUserInv, RequestsNamed, RequestsTrue, RowsNamed, NamesBeside,
        UsernamesUnique
<1>2. ASSUME AddUserInv, [AddUserNext]_addUserVars
      PROVE  AddUserInv'
  <2>1. CASE UNCHANGED addUserVars
    BY <1>2, <2>1
    DEF addUserVars, AddUserInv, AddUserTyped, RequestsNamed, RequestsTrue,
        RowsNamed, NamesBeside, UsernamesUnique, CredentialsComplete
  <2>2. ASSUME NEW a \in Admins,
               \/ ListPermissions(a) \/ Reset(a)
               \/ \E n \in Usernames \cup {NoName} : SetName(a, n)
               \/ \E p \in Permissions : TogglePermission(a, p)
        PROVE  AddUserInv'
    BY <1>2, <2>2, EditUserSound
  <2>3. ASSUME NEW a \in Admins, SubmitUser(a) \/ Remount(a)
        PROVE  AddUserInv'
    BY <1>2, <2>3, SubmitUserSound, RemountSound
  <2>4. ASSUME NEW r \in requests,
               CheckUser(r) \/ InsertUser(r) \/ AssignPermissions(r)
        PROVE  AddUserInv'
    BY <1>2, <2>4, CheckUserSound, InsertUserSound, AssignSound
  <2>5. ASSUME NEW r \in requests, AnswerUser(r) \/ LoseUser(r)
        PROVE  AddUserInv'
    BY <1>2, <2>5, AnswerUserSound, LoseUserSound
  <2> QED
    BY <1>2, <2>1, <2>2, <2>3, <2>4, <2>5 DEF AddUserNext
<1> QED  BY <1>1, <1>2, PTL DEF AddUserSpec

(* However the requests of any number of administrators interleave between *)
(* the count of equal names and the insert (AddUserHandler), no two users  *)
(* have the same name.                                                     *)
THEOREM UsernamesStayUnique == AddUserSpec => []UsernamesUnique
<1>1. AddUserInv => UsernamesUnique
  BY DEF AddUserInv
<1> QED  BY <1>1, AddUserInvariant, PTL

(* The only place where a generated password is ever seen tells no lies:   *)
(* the user exists, with all the permissions asked for, under the name     *)
(* beside the password unless the form was used meanwhile (AddUser.jsx).   *)
THEOREM CredentialsAreComplete == AddUserSpec => []CredentialsComplete
<1>1. AddUserInv => CredentialsComplete
  BY DEF AddUserInv
<1> QED  BY <1>1, AddUserInvariant, PTL

-----------------------------------------------------------------------------
(* The profile: lemmas *)

LEMMA OpenedPage ==
  ASSUME NEW texts \in [Texts -> Values], NEW m \in BOOLEAN
  PROVE  LET next == [Opened(texts) EXCEPT !.disturbed = m]
         IN  /\ next \in Page
             /\ next.shown.texts = texts /\ next.shown.known = FALSE
             /\ next.editor = "closed" /\ next.disturbed = m
<1> DEFINE shown == [texts |-> texts, links |-> NoLinks, known |-> FALSE]
<1>1. NoLinks \in Links
  BY DEF NoLinks, Links, Values
<1>2. shown \in Showing /\ shown.texts = texts /\ shown.known = FALSE
  BY <1>1 DEF Showing
<1>3. Opened(texts) = [shown |-> shown, editor |-> "closed",
                       typed |-> "blank", disturbed |-> FALSE]
  BY DEF Opened
<1> HIDE DEF shown
<1>4. /\ Opened(texts) \in Page /\ Opened(texts).shown = shown
      /\ Opened(texts).editor = "closed"
  BY <1>2, <1>3 DEF Page, Values
<1> QED  BY <1>2, <1>4 DEF Page

LEMMA CleanTrims ==
  ASSUME NEW v \in Values
  PROVE  Clean(v) \in Values /\ Clean(v) # "padded"
         /\ (v # "padded" => Clean(v) = v)
BY DEF Clean, Values

(* A step of the dialog.                                                   *)
LEMMA DialogSound ==
  ASSUME ProfileInv, SameSaves, profile' \in Page,
         profile'.shown = profile.shown,
         profile'.disturbed = profile.disturbed,
         profile'.editor # "closed" =>
           profile'.typed \in Contents(profile'.editor)
  PROVE  ProfileInv'
<1>1. UNCHANGED <<saved, saves, pressed>>
  BY DEF SameSaves
<1>2. ProfileTyped' /\ RowsTrimmed'
  BY <1>1 DEF ProfileInv, ProfileTyped, RowsTrimmed
<1>3. \A f : Matches(f)' <=> Matches(f)
  BY <1>1 DEF Matches, Shows, Stored
<1>4. OneSave'
  BY <1>1, <1>3 DEF ProfileInv, OneSave, Stored
<1> QED  BY <1>2, <1>4 DEF ProfileInv

(* A save goes on and the page keeps what it shows.                        *)
LEMMA AdvanceSound ==
  ASSUME ProfileInv, NEW j \in saves, NEW k \in ProfileSave, Advances(j, k),
         UNCHANGED <<profile, pressed>>, saved' \in UserRow,
         Trimmed(saved'), Trimmed(k.row),
         k.content = j.content, k.field = j.field, k.awaited = j.awaited,
         ~profile.disturbed =>
           /\ k.stage = "read" => k.row = saved'
           /\ k.stage = "saved" =>
                Stored(k.field)' = CleanContent(k.field, k.content)
           /\ \A f \in Fields : (k.stage = "saved" => k.field # f)
                => Stored(f)' = Stored(f) /\ j.stage # "saved"
  PROVE  ProfileInv'
<1>1. saves' = (saves \ {j}) \cup {k}
  BY DEF Advances
<1>2. ProfileTyped'
  BY <1>1 DEF ProfileInv, ProfileTyped
<1>3. RowsTrimmed'
  BY <1>1 DEF ProfileInv, RowsTrimmed
<1>4. ASSUME ~profile.disturbed
      PROVE  /\ \A a, b \in saves' : a = b
             /\ \A a \in saves' :
                  /\ a.awaited
                  /\ a.stage = "read" => a.row = saved'
                  /\ a.stage = "saved" => Stored(a.field)' =
                                            CleanContent(a.field, a.content)
             /\ \A f \in Fields :
                  (\A a \in saves' : a.stage = "saved" => a.field # f)
                    => Matches(f)'
  <2>1. saves = {j} /\ saves' = {k} /\ j.awaited
    BY <1>1, <1>4 DEF ProfileInv, OneSave
  <2>2. ASSUME NEW f \in Fields, k.stage = "saved" => k.field # f
        PROVE  Matches(f)'
    <3>1. Stored(f)' = Stored(f) /\ j.stage # "saved"
      BY <1>4, <2>2
    <3>2. Matches(f)
      BY <1>4, <2>1, <3>1 DEF ProfileInv, OneSave
    <3>3. Shows(f)' = Shows(f) /\ profile' = profile
      BY DEF Shows
    <3> QED  BY <3>1, <3>2, <3>3 DEF Matches
  <2> QED  BY <1>4, <2>1, <2>2
<1>5. OneSave'
  BY <1>4 DEF OneSave
<1> QED  BY <1>2, <1>3, <1>5 DEF ProfileInv

-----------------------------------------------------------------------------
(* The profile: the steps *)

LEMMA EditorSound ==
  ASSUME ProfileInv,
         \/ \E f \in Fields : OpenEditor(f)
         \/ CloseEditor
         \/ \E v \in Typed : EnterText(v)
         \/ \E s \in Slots, v \in Typed : EnterLink(s, v)
  PROVE  ProfileInv'
<1>1. /\ profile \in Page /\ profile.shown \in Showing
      /\ profile.editor # "closed" =>
           profile.typed \in Contents(profile.editor)
  BY DEF ProfileInv, ProfileTyped, Page
<1>2. ASSUME NEW f \in Fields, OpenEditor(f)
      PROVE  ProfileInv'
  <2> DEFINE t == IF f = "links" THEN Shows(f) ELSE "blank"
             next == [profile EXCEPT !.editor = f, !.typed = t]
  <2>1. t \in Contents(f) /\ t \in Values \cup Links
    BY <1>1 DEF Contents, Shows, Showing, Values
  <2> HIDE DEF t
  <2>2. /\ next \in Page /\ next.shown = profile.shown
        /\ next.disturbed = profile.disturbed
        /\ next.editor = f /\ next.typed = t
    BY <1>1, <2>1 DEF Page
  <2>3. profile' = next /\ SameSaves
    BY <1>2 DEF OpenEditor, t
  <2> HIDE DEF next
  <2> QED  BY <2>1, <2>2, <2>3, DialogSound
<1>3. ASSUME CloseEditor
      PROVE  ProfileInv'
  <2> DEFINE next == [profile EXCEPT !.editor = "closed", !.typed = "blank"]
  <2>1. /\ next \in Page /\ next.shown = profile.shown
        /\ next.disturbed = profile.disturbed /\ next.editor = "closed"
    BY <1>1 DEF Page, Values
  <2>2. profile' = next /\ SameSaves
    BY <1>3 DEF CloseEditor
  <2> HIDE DEF next
  <2> QED  BY <2>1, <2>2, DialogSound
<1>4. ASSUME NEW v \in Typed, EnterText(v)
      PROVE  ProfileInv'
  <2> DEFINE next == [profile EXCEPT !.typed = v]
  <2>1. v \in Values /\ profile.editor \in Texts
    BY <1>4 DEF Typed, Values, EnterText
  <2>2. /\ next \in Page /\ next.shown = profile.shown
        /\ next.disturbed = profile.disturbed
        /\ next.editor = profile.editor /\ next.typed = v
    BY <1>1, <2>1 DEF Page
  <2>3. profile' = next /\ SameSaves
    BY <1>4 DEF EnterText
  <2> HIDE DEF next
  <2>4. next.typed \in Contents(next.editor)
    BY <2>1, <2>2 DEF Contents, Texts
  <2> QED  BY <2>2, <2>3, <2>4, DialogSound
<1>5. ASSUME NEW s \in Slots, NEW v \in Typed, EnterLink(s, v)
      PROVE  ProfileInv'
  <2> DEFINE t == [profile.typed EXCEPT ![s] = v]
             next == [profile EXCEPT !.typed = t]
  <2>1. v \in Values /\ profile.editor = "links" /\ profile.typed \in Links
    BY <1>1, <1>5 DEF Typed, Values, EnterLink, Contents
  <2>2. t \in Links
    BY <2>1 DEF Links
  <2>3. profile' = next /\ SameSaves
    BY <1>5 DEF EnterLink
  <2> HIDE DEF t
  <2>4. /\ next \in Page /\ next.shown = profile.shown
        /\ next.disturbed = profile.disturbed
        /\ next.editor = "links" /\ next.typed = t
    BY <1>1, <2>1, <2>2 DEF Page
  <2> HIDE DEF next
  <2>5. next.typed \in Contents(next.editor)
    BY <2>2, <2>4 DEF Contents
  <2> QED  BY <2>3, <2>4, <2>5, DialogSound
<1> QED  BY <1>2, <1>3, <1>4, <1>5

LEMMA PressSaveSound ==
  ASSUME ProfileInv, PressSave
  PROVE  ProfileInv'
<1> DEFINE mix == profile.disturbed \/ saves # {}
           next == [profile EXCEPT !.disturbed = mix]
           new == [id |-> pressed + 1, field |-> profile.editor,
                   content |-> profile.typed, stage |-> "posted",
                   awaited |-> TRUE, row |-> saved]
<1>1. /\ profile \in Page /\ saved \in UserRow /\ saves \subseteq ProfileSave
      /\ pressed \in Nat /\ profile.editor \in Fields
      /\ profile.typed \in Contents(profile.editor)
      /\ profile.typed \in Values \cup Links
  BY DEF ProfileInv, ProfileTyped, PressSave, Page
<1>2. mix \in BOOLEAN
  BY <1>1 DEF Page
<1>3. /\ next \in Page /\ next.shown = profile.shown
      /\ next.disturbed = mix /\ next.editor = profile.editor
      /\ next.typed = profile.typed
  BY <1>1, <1>2 DEF Page
<1>4. pressed' = pressed + 1 /\ pressed + 1 \in Nat
  BY <1>1 DEF PressSave
<1>5. /\ saves' = saves \cup {new} /\ profile' = next
      /\ UNCHANGED saved
  BY <1>4 DEF PressSave
<1>6. /\ new \in ProfileSave /\ new.stage = "posted" /\ new.awaited = TRUE
      /\ new.row = saved /\ new.field = profile.editor
      /\ new.content = profile.typed
  BY <1>1, <1>4 DEF ProfileSave
<1> HIDE DEF new, next
<1>7. ProfileTyped'
  BY <1>1, <1>3, <1>4, <1>5, <1>6 DEF ProfileInv, ProfileTyped
<1>8. RowsTrimmed'
  BY <1>5, <1>6 DEF ProfileInv, RowsTrimmed
<1>9. \A f : Matches(f)' <=> Matches(f)
  BY <1>3, <1>5 DEF Matches, Shows, Stored
<1>10. ASSUME ~profile'.disturbed
       PROVE  /\ saves' = {new}
              /\ \A f \in Fields : Matches(f)
  <2>1. ~profile.disturbed /\ saves = {}
    BY <1>3, <1>5, <1>10
  <2> QED  BY <1>5, <2>1 DEF ProfileInv, OneSave
<1>11. OneSave'
  BY <1>6, <1>9, <1>10 DEF OneSave
<1> QED  BY <1>7, <1>8, <1>11 DEF ProfileInv

LEMMA ReopenProfileSound ==
  ASSUME ProfileInv, ReopenProfile
  PROVE  ProfileInv'
<1> DEFINE mix == saves # {}
           next == [Opened(saved.texts) EXCEPT !.disturbed = mix]
<1>1. /\ saved \in UserRow /\ saves \subseteq ProfileSave
      /\ pressed \in Nat /\ saved.texts \in [Texts -> Values]
      /\ Trimmed(saved) /\ \A j \in saves : j.content \in Contents(j.field)
      /\ \A j \in saves : Trimmed(j.row)
  BY DEF ProfileInv, ProfileTyped, RowsTrimmed, UserRow
<1>2. mix \in BOOLEAN
  OBVIOUS
<1> HIDE DEF mix
<1>4. /\ next \in Page
      /\ next.shown.texts = saved.texts /\ next.shown.known = FALSE
      /\ next.editor = "closed" /\ next.disturbed = mix
  BY <1>1, <1>2, OpenedPage
<1>6. /\ profile' = next /\ UNCHANGED <<saved, pressed>>
      /\ saves' = {[j EXCEPT !.awaited = FALSE] : j \in saves}
  BY DEF ReopenProfile, mix
<1> HIDE DEF next
<1>7. ASSUME NEW k \in saves'
      PROVE  /\ k \in ProfileSave /\ k.content \in Contents(k.field)
             /\ Trimmed(k.row)
  <2>1. PICK j \in saves : k = [j EXCEPT !.awaited = FALSE]
    BY <1>6
  <2>2. /\ k \in ProfileSave /\ k.content = j.content /\ k.field = j.field
        /\ k.row = j.row
    BY <1>1, <2>1 DEF ProfileSave
  <2> QED  BY <1>1, <2>2
<1>8. ProfileTyped' /\ RowsTrimmed'
  BY <1>1, <1>4, <1>6, <1>7 DEF ProfileTyped, RowsTrimmed
<1>9. ASSUME NEW f \in Fields
      PROVE  Matches(f)'
  <2>1. CASE f = "links"
    BY <1>4, <1>6, <2>1 DEF Matches
  <2>2. CASE f # "links"
    <3>1. f \in Texts /\ saved.texts[f] \in Values
      BY <1>1, <2>2 DEF Fields
    <3>2. Clean(saved.texts[f]) = saved.texts[f]
      BY <1>1, <3>1, CleanTrims DEF Trimmed
    <3> QED
      BY <1>4, <1>6, <2>2, <3>2 DEF Matches, Shows, Stored, CleanContent
  <2> QED  BY <2>1, <2>2
<1>10. ~profile'.disturbed => saves' = {}
  BY <1>4, <1>6 DEF mix
<1>11. OneSave'
  BY <1>9, <1>10 DEF OneSave
<1> QED  BY <1>8, <1>11 DEF ProfileInv

LEMMA ReadRowSound ==
  ASSUME ProfileInv, NEW j \in saves, ReadRow(j)
  PROVE  ProfileInv'
<1> DEFINE k == [j EXCEPT !.stage = "read", !.row = saved]
<1>1. j \in ProfileSave /\ saved \in UserRow /\ Trimmed(saved)
  BY DEF ProfileInv, ProfileTyped, RowsTrimmed
<1>2. /\ k \in ProfileSave /\ k.stage = "read" /\ k.row = saved
      /\ k.content = j.content /\ k.field = j.field
      /\ k.awaited = j.awaited
  BY <1>1 DEF ProfileSave
<1>3. /\ j.stage = "posted" /\ Advances(j, k)
      /\ UNCHANGED <<saved, profile, pressed>>
  BY DEF ReadRow
<1>4. PICK n \in ProfileSave : n = k
  BY <1>2
<1> HIDE DEF k
<1>5. \A f : Stored(f)' = Stored(f)
  BY <1>3 DEF Stored
<1> QED  BY <1>1, <1>2, <1>3, <1>4, <1>5, AdvanceSound

LEMMA RefuseSaveSound ==
  ASSUME ProfileInv, NEW j \in saves, RefuseSave(j)
  PROVE  ProfileInv'
<1> DEFINE k == [j EXCEPT !.stage = "refused"]
<1>1. /\ j \in ProfileSave /\ saved \in UserRow /\ Trimmed(saved)
      /\ Trimmed(j.row)
  BY DEF ProfileInv, ProfileTyped, RowsTrimmed
<1>2. /\ k \in ProfileSave /\ k.stage = "refused" /\ k.row = j.row
      /\ k.content = j.content /\ k.field = j.field
      /\ k.awaited = j.awaited
  BY <1>1 DEF ProfileSave
<1>3. /\ j.stage \in {"posted", "read"} /\ Advances(j, k)
      /\ UNCHANGED <<saved, profile, pressed>>
  BY DEF RefuseSave
<1> HIDE DEF k
<1>4. \A f : Stored(f)' = Stored(f)
  BY <1>3 DEF Stored
<1> QED  BY <1>1, <1>2, <1>3, <1>4, AdvanceSound

(* The row as read with one text changed.                                  *)
LEMMA SaveTextSound ==
  ASSUME ProfileInv, NEW j \in saves, SaveText(j)
  PROVE  ProfileInv'
<1> DEFINE k == [j EXCEPT !.stage = "saved"]
           field == j.field
           text == Clean(j.content)
           texts == [j.row.texts EXCEPT ![field] = text]
<1>1. /\ j \in ProfileSave /\ saved \in UserRow /\ j.row \in UserRow
      /\ Trimmed(j.row) /\ field \in Texts /\ field # "links"
      /\ j.content \in Values
  BY DEF ProfileInv, ProfileTyped, RowsTrimmed, SaveText, Contents,
         ProfileSave, Texts
<1>2. /\ k \in ProfileSave /\ k.stage = "saved" /\ k.row = j.row
      /\ k.content = j.content /\ k.field = field
      /\ k.awaited = j.awaited
  BY <1>1 DEF ProfileSave
<1>3. /\ j.stage = "read" /\ Advances(j, k) /\ UNCHANGED <<profile, pressed>>
      /\ saved' = [j.row EXCEPT !.texts = texts]
  BY <1>1 DEF SaveText, UserRow
<1>4. text \in Values /\ text # "padded"
  BY <1>1, CleanTrims
<1>5. /\ texts \in [Texts -> Values] /\ texts[field] = text
      /\ \A f \in Texts : f # field => texts[f] = j.row.texts[f]
  BY <1>1, <1>4 DEF UserRow
<1> HIDE DEF k, texts
<1>6. /\ saved' \in UserRow /\ saved'.texts = texts
      /\ saved'.links = j.row.links
  BY <1>1, <1>3, <1>5 DEF UserRow
<1>7. Trimmed(saved')
  BY <1>1, <1>4, <1>5, <1>6 DEF Trimmed
<1>8. CASE profile.disturbed
  BY <1>1, <1>2, <1>3, <1>6, <1>7, <1>8, AdvanceSound
<1>9. CASE ~profile.disturbed
  <2>1. j.row = saved
    BY <1>3, <1>9 DEF ProfileInv, OneSave
  <2>2. Stored(field)' = CleanContent(field, j.content)
    BY <1>1, <1>5, <1>6 DEF Stored, CleanContent
  <2>3. \A f \in Fields : f # field => Stored(f)' = Stored(f)
    BY <1>5, <1>6, <2>1 DEF Stored, Fields
  <2> QED
    BY <1>1, <1>2, <1>3, <1>6, <1>7, <2>2, <2>3, AdvanceSound
<1> QED  BY <1>8, <1>9

LEMMA SaveLinksSound ==
  ASSUME ProfileInv, NEW j \in saves, SaveLinks(j)
  PROVE  ProfileInv'
<1> DEFINE k == [j EXCEPT !.stage = "saved"]
           links == CleanContent("links", j.content)
<1>1. /\ j \in ProfileSave /\ saved \in UserRow /\ Trimmed(j.row)
      /\ Trimmed(saved) /\ j.field = "links" /\ j.content \in Links
  BY DEF ProfileInv, ProfileTyped, RowsTrimmed, SaveLinks, Contents
<1>2. /\ k \in ProfileSave /\ k.stage = "saved" /\ k.row = j.row
      /\ k.content = j.content /\ k.field = "links"
      /\ k.awaited = j.awaited
  BY <1>1 DEF ProfileSave
<1>3. /\ j.stage = "read" /\ Advances(j, k) /\ UNCHANGED <<profile, pressed>>
      /\ saved' = [saved EXCEPT !.links = links]
  BY DEF SaveLinks
<1>4. links \in Links
  <2>1. \A s \in Slots : j.content[s] \in Values
    BY <1>1 DEF Links
  <2> QED  BY <2>1, CleanTrims DEF CleanContent, Links
<1> HIDE DEF k, links
<1>5. /\ saved' \in UserRow /\ saved'.texts = saved.texts
      /\ saved'.links = links
  BY <1>1, <1>3, <1>4 DEF UserRow
<1>6. Trimmed(saved')
  BY <1>1, <1>5 DEF Trimmed
<1>7. Stored("links")' = CleanContent("links", j.content)
  BY <1>5 DEF Stored, links
<1>8. \A f \in Fields : f # "links" => Stored(f)' = Stored(f)
  BY <1>5 DEF Stored
<1> QED
  BY <1>1, <1>2, <1>3, <1>5, <1>6, <1>7, <1>8, AdvanceSound

(* The end of a save: an answer that is shown, or nothing.                 *)
LEMMA SaveAnsweredSound ==
  ASSUME ProfileInv, NEW j \in saves, SaveAnswered(j)
  PROVE  ProfileInv'
<1> DEFINE old == profile.shown
           shown == IF j.field = "links"
                    THEN [old EXCEPT !.links = j.content, !.known = TRUE]
                    ELSE [old EXCEPT !.texts[j.field] = j.content]
           next == [profile EXCEPT !.shown = shown, !.editor = "closed",
                                   !.typed = "blank"]
<1>1. /\ profile \in Page /\ saved \in UserRow /\ saves \subseteq ProfileSave
      /\ j \in ProfileSave /\ j.field \in Fields
      /\ j.content \in Contents(j.field) /\ old \in Showing
      /\ profile.disturbed \in BOOLEAN
  BY DEF ProfileInv, ProfileTyped, Page, ProfileSave
<1>2. /\ j.stage = "saved" /\ saves' = saves \ {j}
      /\ UNCHANGED <<saved, pressed>>
      /\ profile' = profile \/ (j.awaited /\ profile' = next)
  BY <1>1 DEF SaveAnswered, OnSave
<1>3. /\ shown \in Showing
      /\ j.field = "links" =>
           shown.links = j.content /\ shown.texts = old.texts
      /\ j.field # "links" =>
           /\ shown.links = old.links /\ shown.known = old.known
           /\ shown.texts[j.field] = j.content
           /\ \A f \in Texts : f # j.field => shown.texts[f] = old.texts[f]
  <2>1. CASE j.field = "links"
    BY <1>1, <2>1 DEF Showing, Contents
  <2>2. CASE j.field # "links"
    BY <1>1, <2>2 DEF Showing, Contents, Fields
  <2> QED  BY <2>1, <2>2
<1> HIDE DEF shown
<1>4. /\ next \in Page /\ next.shown = shown /\ next.editor = "closed"
      /\ next.disturbed = profile.disturbed
  BY <1>1, <1>3 DEF Page, Values
<1> HIDE DEF next
<1>5. ProfileTyped' /\ RowsTrimmed'
  BY <1>2, <1>4 DEF ProfileInv, ProfileTyped, RowsTrimmed
<1>6. ASSUME ~profile.disturbed
      PROVE  saves' = {} /\ \A f \in Fields : Matches(f)'
  <2>1. saves = {j} /\ j.awaited
    BY <1>6 DEF ProfileInv, OneSave
  <2>2. profile' = next
    BY <1>1, <1>2, <2>1 DEF SaveAnswered, OnSave, next, shown
  <2>3. Stored(j.field) = CleanContent(j.field, j.content)
    BY <1>2, <1>6 DEF ProfileInv, OneSave
  <2>4. ASSUME NEW f \in Fields, f # j.field
        PROVE  Matches(f)'
    <3>1. Matches(f)
      BY <1>6, <2>1, <2>4 DEF ProfileInv, OneSave
    <3>2. Stored(f)' = Stored(f)
      BY <1>2 DEF Stored
    <3>3. CASE f = "links"
      BY <1>3, <1>4, <2>2, <2>4, <3>1, <3>2, <3>3 DEF Matches, Shows
    <3>4. CASE f # "links"
      <4>1. shown.texts[f] = old.texts[f]
        BY <1>3, <2>4, <3>4 DEF Fields
      <4> QED
        BY <1>4, <2>2, <3>1, <3>2, <3>4, <4>1 DEF Matches, Shows
    <3> QED  BY <3>3, <3>4
  <2>5. Shows(j.field)' = j.content
    BY <1>3, <1>4, <2>2 DEF Shows
  <2>6. Stored(j.field)' = CleanContent(j.field, j.content)
    BY <1>2, <2>3 DEF Stored
  <2>7. Matches(j.field)'
    BY <2>5, <2>6 DEF Matches
  <2> QED  BY <1>2, <2>1, <2>4, <2>7
<1>7. profile'.disturbed = profile.disturbed
  BY <1>2, <1>4
<1>8. OneSave'
  BY <1>6, <1>7 DEF OneSave
<1> QED  BY <1>5, <1>8 DEF ProfileInv

LEMMA SaveEndSound ==
  ASSUME ProfileInv, NEW j \in saves, SaveRefused(j) \/ LoseSave(j)
  PROVE  ProfileInv'
<1>1. CASE SaveRefused(j)
  <2>1. /\ j.stage = "refused" /\ saves' = saves \ {j}
        /\ UNCHANGED <<saved, profile, pressed>>
    BY <1>1 DEF SaveRefused
  <2>2. ProfileTyped' /\ RowsTrimmed'
    BY <2>1 DEF ProfileInv, ProfileTyped, RowsTrimmed
  <2>3. \A f : Matches(f)' <=> Matches(f)
    BY <2>1 DEF Matches, Shows, Stored
  <2>4. OneSave'
    BY <2>1, <2>3 DEF ProfileInv, OneSave, Stored
  <2> QED  BY <2>2, <2>4 DEF ProfileInv
<1>2. CASE LoseSave(j)
  <2> DEFINE next == [profile EXCEPT !.disturbed = TRUE]
             k == [j EXCEPT !.awaited = FALSE]
  <2>1. /\ profile \in Page /\ saves \subseteq ProfileSave
        /\ j \in ProfileSave
    BY DEF ProfileInv, ProfileTyped
  <2>2. /\ next \in Page /\ next.shown = profile.shown
        /\ next.editor = profile.editor /\ next.typed = profile.typed
        /\ next.disturbed = TRUE
    BY <2>1 DEF Page
  <2>3. /\ k \in ProfileSave /\ k.content = j.content /\ k.field = j.field
        /\ k.row = j.row
    BY <2>1 DEF ProfileSave
  <2>4. /\ profile' = next /\ saves' = (saves \ {j}) \cup {k}
        /\ UNCHANGED <<saved, pressed>>
    BY <1>2 DEF LoseSave, Advances
  <2> HIDE DEF next, k
  <2>5. ProfileTyped' /\ RowsTrimmed'
    BY <2>2, <2>3, <2>4 DEF ProfileInv, ProfileTyped, RowsTrimmed
  <2>6. OneSave'
    BY <2>2, <2>4 DEF OneSave
  <2> QED  BY <2>5, <2>6 DEF ProfileInv
<1> QED  BY <1>1, <1>2

LEMMA ProfileInvariant == ProfileSpec => []ProfileInv
<1>1. ASSUME ProfileInit
      PROVE  ProfileInv
  <2> DEFINE texts == [f \in Texts |-> "old"]
             links == [NoLinks EXCEPT ![1] = "old"]
  <2>1. texts \in [Texts -> Values] /\ links \in Links
    BY DEF Values, Links, NoLinks
  <2>2. /\ saved.texts = texts /\ saved.links = links /\ saved \in UserRow
        /\ profile = Opened(texts) /\ saves = {} /\ pressed = 0
    BY <1>1, <2>1 DEF ProfileInit, UserRow
  <2>3. /\ profile.shown.texts = texts /\ profile.shown.known = FALSE
        /\ profile.editor = "closed"
    BY <2>2 DEF Opened
  <2>4. profile \in Page
    <3>1. NoLinks \in Links
      BY DEF NoLinks, Links, Values
    <3>2. [texts |-> texts, links |-> NoLinks, known |-> FALSE] \in Showing
      BY <2>1, <3>1 DEF Showing
    <3> QED  BY <2>2, <3>2 DEF Opened, Page, Values
  <2>5. ProfileTyped /\ RowsTrimmed
    BY <2>2, <2>3, <2>4 DEF ProfileTyped, RowsTrimmed, Trimmed
  <2>6. \A f \in Fields : Matches(f)
    BY <2>2, <2>3
    DEF Matches, Shows, Stored, CleanContent, Clean, Fields, Texts
  <2>7. OneSave
    BY <2>2, <2>6 DEF OneSave
  <2> QED  BY <2>5, <2>7 DEF ProfileInv
<1>2. ASSUME ProfileInv, [ProfileNext]_profileVars
      PROVE  ProfileInv'
  <2>1. CASE UNCHANGED profileVars
    BY <1>2, <2>1
    DEF profileVars, ProfileInv, ProfileTyped, RowsTrimmed, OneSave,
        Matches, Shows, Stored
  <2>2. CASE \/ \E f \in Fields : OpenEditor(f)
             \/ CloseEditor
             \/ \E v \in Typed : EnterText(v)
             \/ \E s \in Slots, v \in Typed : EnterLink(s, v)
    BY <1>2, <2>2, EditorSound
  <2>3. CASE PressSave \/ ReopenProfile
    BY <1>2, <2>3, PressSaveSound, ReopenProfileSound
  <2>4. ASSUME NEW j \in saves,
               ReadRow(j) \/ RefuseSave(j) \/ SaveText(j) \/ SaveLinks(j)
        PROVE  ProfileInv'
    BY <1>2, <2>4, ReadRowSound, RefuseSaveSound, SaveTextSound,
       SaveLinksSound
  <2>5. ASSUME NEW j \in saves,
               SaveAnswered(j) \/ SaveRefused(j) \/ LoseSave(j)
        PROVE  ProfileInv'
    BY <1>2, <2>5, SaveAnsweredSound, SaveEndSound
  <2> QED
    BY <1>2, <2>1, <2>2, <2>3, <2>4, <2>5 DEF ProfileNext
<1> QED  BY <1>1, <1>2, PTL DEF ProfileSpec

(* As long as the saves of the dialog come one at a time and no answer is  *)
(* lost, the private profile page (PrivateUserInfoLayout.jsx) shows what   *)
(* the handlers stored, but for what the sanitizer changed: saving the     *)
(* whole row as read puts back no other column, and onSave shows nothing   *)
(* that was not sent and stored.                                           *)
THEOREM PageShowsTheRow == ProfileSpec => []ShownIsSaved
<1>1. ProfileInv => ShownIsSaved
  BY DEF ProfileInv, OneSave, ShownIsSaved, Matches
<1> QED  BY <1>1, ProfileInvariant, PTL
=============================================================================
