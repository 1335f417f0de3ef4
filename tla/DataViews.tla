----------------------------- MODULE DataViews -----------------------------
(***************************************************************************)
(* The pages that show what a GET request returns: profiles, statistics,   *)
(* market lists and the search box.  Every view keeps data, a loading flag *)
(* and an error in React state and fills them from fetch; none cancels a   *)
(* request or looks at which request an answer belongs to.  A callback is  *)
(* one step; answers of different requests arrive in any order.            *)
(***************************************************************************)
EXTENDS Naturals, FiniteSets

CONSTANTS
  Pages,       \* the pages of this instance
  Names,       \* users, markets or queries a page can be about
  Null,        \* no key: nobody logged in, an empty search box
  MaxRounds    \* bound on the effects and presses that start requests

Statuses == {"active", "closed", "resolved", "all"}
Keys == Names \cup Statuses

ASSUME DataViewsAssumption ==
  /\ Names # {} /\ Null \notin Keys /\ MaxRounds \in Nat
  /\ Pages \subseteq {"profile", "user", "stats", "market", "markets",
                      "search", "nav"}

(***************************************************************************)
(* How the views differ: what starts a request, whether the start shows    *)
(* the spinner again and clears an old error, what a failure leaves, and   *)
(* whether the spinner is taken away by a timer.                           *)
(***************************************************************************)
Plain == [start |-> "key", spins |-> FALSE, clears |-> FALSE,
          failure |-> "error", timer |-> FALSE, atFirst |-> TRUE]

UserData        == Plain
Portfolio       == Plain
CreditTab       == Plain
PortfolioTab    == Plain
FinancialsTab   == Plain
StatsSetup      == Plain
UserPage        == [Plain EXCEPT !.failure = "logged"]
NavCredit       == [Plain EXCEPT !.failure = "logged"]
PublicPortfolio == [Plain EXCEPT !.failure = "logged", !.atFirst = FALSE]
BetsActivity      == PublicPortfolio
PositionsActivity == PublicPortfolio
Leaderboard     == [Plain EXCEPT !.spins = TRUE]
MarketsByStatus == [Plain EXCEPT !.spins = TRUE, !.clears = TRUE,
                                 !.timer = TRUE]
Button == [Plain EXCEPT !.start = "press", !.spins = TRUE, !.clears = TRUE,
                        !.atFirst = FALSE]
SystemMetrics     == Button
GlobalLeaderboard == Button
NavSearch == [Plain EXCEPT !.start = "pause", !.spins = TRUE,
                           !.failure = "dropped", !.atFirst = FALSE]

Of == [UserData |-> UserData, Portfolio |-> Portfolio,
       CreditTab |-> CreditTab, PortfolioTab |-> PortfolioTab,
       FinancialsTab |-> FinancialsTab, StatsSetup |-> StatsSetup,
       UserPage |-> UserPage, NavCredit |-> NavCredit,
       PublicPortfolio |-> PublicPortfolio, Leaderboard |-> Leaderboard,
       BetsActivity |-> BetsActivity,
       PositionsActivity |-> PositionsActivity,
       MarketsByStatus |-> MarketsByStatus,
       SystemMetrics |-> SystemMetrics,
       GlobalLeaderboard |-> GlobalLeaderboard, NavSearch |-> NavSearch]
Views == DOMAIN Of

(* The tabs of SiteTabs on a page, by the view inside; the comments of a   *)
(* market and the tabs of the statistics page hold no view.                *)
UserTabs == {"CreditTab", "PortfolioTab", "FinancialsTab"}
ActivityTabs == {"PositionsActivity", "BetsActivity", "Leaderboard"}
Tabs == UserTabs \cup ActivityTabs

VARIABLES
  page,    \* the page of this behaviour
  url,     \* query string of the market list: category and status
  key,     \* whom or what the page is about
  tab,     \* the selected tab of a user page
  view,    \* React state of each view
  wire,    \* requests and answers on their way
  rounds   \* effects and presses so far that started requests

vars == <<page, url, key, tab, view, wire, rounds>>

NoData == [key |-> Null, full |-> FALSE]
Data == [key : Keys \cup {Null}, full : BOOLEAN]
Initial(v) ==
  [loading |-> Of[v].atFirst, error |-> FALSE, data |-> NoData,
   pauses |-> {}, ending |-> 0, mixed |-> FALSE]

(* mixed is history: a request of the view was started while an earlier    *)
(* one, or the timer of an earlier one, was outstanding.                   *)
ViewState == [loading : BOOLEAN, error : BOOLEAN,
              data : Data, pauses : SUBSET Keys, ending : 0..(MaxRounds + 1),
              mixed : BOOLEAN]

Request == [view : Views, key : Keys \cup {Null}, round : 0..MaxRounds]

-----------------------------------------------------------------------------
(* What the views render: spinner, error, "nothing found", or rows.        *)

Rows(s) == IF s.data.full THEN "rows" ELSE "nothing"

InTurn(s, content) ==
  {IF s.loading THEN "spinner" ELSE IF s.error THEN "error" ELSE content}

(* The user's credit, "N/A" if there is none.                              *)
CreditScreen(s) == InTurn(s, "rows")

(* The positions with their totals; "No positions found for this user."    *)
PortfolioScreen(s) == InTurn(s, Rows(s))

(* The four statements; "No financial data available."                     *)
FinancialsScreen(s) == InTurn(s, Rows(s))

(* The ranking of a market; "No participants yet".                         *)
LeaderboardScreen(s) == InTurn(s, Rows(s))

(* The cards of the markets; "No {status} markets found."                  *)
MarketsScreen(s) == InTurn(s, Rows(s))

(* The statistics page with its tab of set-up values.                      *)
StatsScreen(s) == InTurn(s, "rows")

(* The portfolio below a private profile has neither spinner nor error.    *)
PublicPortfolioScreen(s) == {Rows(s)}

(* The bets of a market, latest first, and the positions holding shares.   *)
BetsScreen(s) == {Rows(s)}
PositionsScreen(s) == {Rows(s)}

(* A user page renders nothing but a spinner until it has data.            *)
UserScreen(s) == {IF s.data = NoData THEN "spinner" ELSE "rows"}

(* The credit in the top bar: "..." until there is one, then the last one. *)
NavCreditScreen(s) == {IF s.data = NoData THEN "spinner" ELSE "rows"}

(* The panels of a calculation, several of them at a time.                 *)
Hint(s) == ~s.loading /\ ~s.error /\ s.data = NoData
Panels(s, content) ==
  {p \in {"spinner", "error", "hint", "rows", "nothing"} :
     \/ p = "spinner" /\ s.loading
     \/ p = "error" /\ s.error
     \/ p = "hint" /\ Hint(s)
     \/ p = content /\ s.data # NoData}

MetricsScreen(s) == Panels(s, "rows")
RankingScreen(s) == Panels(s, Rows(s))

(* The dropdown of the search box, open and with a query.                  *)
SearchScreen(s) ==
  {p \in {"spinner", "rows", "nothing"} :
     \/ p = "spinner" /\ s.loading
     \/ p = "rows" /\ s.data.full
     \/ p = "nothing" /\ ~s.loading /\ s.data # NoData /\ ~s.data.full}

Shown(v, s) ==
  CASE v = "CreditTab" -> CreditScreen(s)
    [] v = "PortfolioTab" -> PortfolioScreen(s)
    [] v = "FinancialsTab" -> FinancialsScreen(s)
    [] v = "Leaderboard" -> LeaderboardScreen(s)
    [] v = "BetsActivity" -> BetsScreen(s)
    [] v = "PositionsActivity" -> PositionsScreen(s)
    [] v = "MarketsByStatus" -> MarketsScreen(s)
    [] v = "StatsSetup" -> StatsScreen(s)
    [] v = "PublicPortfolio" -> PublicPortfolioScreen(s)
    [] v = "UserPage" -> UserScreen(s)
    [] v = "NavCredit" -> NavCreditScreen(s)
    [] v = "SystemMetrics" -> MetricsScreen(s)
    [] v = "GlobalLeaderboard" -> RankingScreen(s)
    [] v = "NavSearch" -> SearchScreen(s)
    [] v \in {"UserData", "Portfolio"} -> InTurn(s, Rows(s))

(* Profile: the spinner while either hook loads, then the errors, then the *)
(* details, with the portfolio if there is one.                            *)
ProfileReady(s) ==
  \A v \in {"UserData", "Portfolio"} : ~s[v].loading /\ ~s[v].error

(* The views mounted on a page, given the state of the views around them.  *)
(* SiteTabs mounts the selected tab only; the state of the statistics      *)
(* belongs to the page and outlives its tabs.                              *)
Mounted(p, t, s) ==
  CASE p = "profile" ->
         {"UserData", "Portfolio"} \cup
           {v \in {"PublicPortfolio"} :
              ProfileReady(s) /\ s["Portfolio"].data.full}
    [] p = "user" ->
         {"UserPage"} \cup {v \in {t} : s["UserPage"].data # NoData}
    [] p = "stats" -> {"StatsSetup", "SystemMetrics", "GlobalLeaderboard"}
    [] p = "market" -> {t}
    [] p = "markets" -> {"MarketsByStatus"}
    [] p = "search" -> {"NavSearch"}
    [] p = "nav" -> {"NavCredit"}

-----------------------------------------------------------------------------
Outstanding(v, s, w) == s.ending > 0 \/ \E r \in w : r.view = v

(* The synchronous part of an effect or handler, up to its first await.    *)
Started(v, s, w) ==
  [s EXCEPT !.loading = @ \/ Of[v].spins,
            !.error = IF Of[v].clears THEN FALSE ELSE @,
            !.mixed = @ \/ Outstanding(v, s, w)]

Ask(v, k) == [view |-> v, key |-> k, round |-> rounds]

(* After the step that leads to states s and requests w, React mounts and  *)
(* unmounts: a mounted view runs its effect, an unmounted one forgets its  *)
(* state and no longer hears its answers.                                  *)
Render(t, k, s, w) ==
  LET now == Mounted(page, t, s)
      new == now \ DOMAIN s
      asking == {v \in new : Of[v].start = "key" /\ k # Null}
  IN  /\ view' = [v \in now |-> IF v \in new THEN Initial(v) ELSE s[v]]
      /\ wire' = {r \in w : r.view \in now \ new} \cup
                 {Ask(v, k) : v \in asking}

(* FilterBar and Markets: the labels of the filters, their defaults, and   *)
(* the status that MarketsByStatusTable asks for.                          *)
Filters == {"Active", "Closed", "Resolved", "All"}
TabToStatus == [Active |-> "active", Closed |-> "closed",
                Resolved |-> "resolved", All |-> "all"]
ActiveStatus(q) == IF q.status = "none" THEN "Active" ELSE q.status
ActiveCategory(q) == IF q.category = "none" THEN "General" ELSE q.category
Status(q) == IF ActiveStatus(q) \in Filters THEN TabToStatus[ActiveStatus(q)]
             ELSE "active"

BuildLink(q, s) ==
  [category |-> IF ActiveCategory(q) = "General" THEN "none"
                ELSE ActiveCategory(q),
   status |-> IF s = "Active" THEN "none" ELSE s]

Queries == [category : {"none", "Sports"}, status : {"none"} \cup Filters]

-----------------------------------------------------------------------------
(* A page is opened: its first views mount and ask.                        *)
Init ==
  /\ page \in Pages
  /\ url \in [category : {"none", "Sports"}, status : {"none"}]
  /\ page # "markets" => url.category = "none"
  /\ key = CASE page = "markets" -> "active"
             [] page = "search" -> Null
             [] OTHER -> CHOOSE k \in Names : TRUE
  /\ tab = IF page = "market" THEN "PositionsActivity" ELSE "CreditTab"
  /\ rounds = 0
  /\ LET now == Mounted(page, tab, [v \in Views |-> Initial(v)])
         asking == {v \in now : Of[v].start = "key" /\ key # Null}
     IN  /\ view = [v \in now |-> Initial(v)]
         /\ wire = {[view |-> v, key |-> key, round |-> 0] : v \in asking}

NextRound == rounds < MaxRounds /\ rounds' = rounds + 1

(* Mutant: the effect of the search box does not clear its last timeout.   *)
PausesKept(v, s, k) == s.pauses \cup ({k} \ {Null})

(* The timeouts of the search box after its query has changed to k.        *)
Pauses(v, s, k) == IF Of[v].start = "pause" THEN {k} \ {Null} ELSE {}

(* The effects that depend on the key run again; a null key starts no      *)
(* request, and an emptied search box drops its results.                   *)
Rerun(v, s, k, w) ==
  LET t == [s EXCEPT !.pauses = Pauses(v, s, k)]
  IN  CASE Of[v].start = "key" /\ k # Null -> Started(v, t, w)
        [] Of[v].start = "pause" /\ k = Null -> [t EXCEPT !.data = NoData]
        [] OTHER -> t

NewKey(k) ==
  /\ k # key /\ NextRound
  /\ key' = k
  /\ LET asking == {v \in DOMAIN view : Of[v].start = "key" /\ k # Null}
     IN  Render(tab, k, [v \in DOMAIN view |-> Rerun(v, view[v], k, wire)],
                wire \cup {[Ask(v, k) EXCEPT !.round = rounds + 1] :
                           v \in asking})

(* Another user's page, another login, another market.                    *)
ChangeKey(k) ==
  /\ page \in {"profile", "user", "market", "nav"}
  /\ k = Null => page \in {"profile", "nav"}
  /\ NewKey(k)
  /\ UNCHANGED <<page, url, tab>>

(* Typing into the search box, up to emptying it.                          *)
TypeQuery(k) ==
  /\ page = "search"
  /\ NewKey(k)
  /\ UNCHANGED <<page, url, tab>>

(* A link of the FilterBar.                                                *)
FilterClick(s) ==
  /\ page = "markets"
  /\ url' = BuildLink(url, s)
  /\ NewKey(Status(url'))
  /\ UNCHANGED <<page, tab>>

(* SiteTabs.handleTabClick.                                                *)
SelectTab(t) ==
  /\ t # tab
  /\ \/ page = "user" /\ t \in UserTabs /\ view["UserPage"].data # NoData
     \/ page = "market" /\ t \in ActivityTabs
  /\ NextRound
  /\ tab' = t
  /\ Render(t, key, view, wire)
  /\ UNCHANGED <<page, url, key>>

(* Request k of view v leaves, and its synchronous part has run.           *)
Go(v, k, s) ==
  /\ NextRound
  /\ Render(tab, key, [view EXCEPT ![v] = Started(v, s, wire)],
            wire \cup {[Ask(v, k) EXCEPT !.round = rounds + 1]})
  /\ UNCHANGED <<page, url, key, tab>>

(* "Calculate": SiteButton passes no disabled flag on, so that the button  *)
(* works while a calculation is running.                                   *)
Press(v) ==
  /\ Of[v].start = "press"
  /\ Go(v, key, view[v])

(* The search box has not changed for 300 milliseconds.                    *)
PauseEnds(v) ==
  \E k \in view[v].pauses :
    Go(v, k, [view[v] EXCEPT !.pauses = @ \ {k}])

(* Mutant: a failure is only logged.                                       *)
FailedLogged(v, s) == s

Failed(v, s) ==
  CASE Of[v].failure = "error" -> [s EXCEPT !.error = TRUE]
    [] Of[v].failure = "dropped" -> [s EXCEPT !.data = NoData]
    [] OTHER -> s

(* Mutant: the spinner is taken away after data, not after an error.       *)
FinishedUnlessFailed(v, s) ==
  IF s.error THEN s ELSE [s EXCEPT !.loading = FALSE]

(* The finally block.                                                      *)
Finished(v, s) ==
  IF Of[v].timer THEN [s EXCEPT !.ending = @ + 1]
  ELSE [s EXCEPT !.loading = FALSE]

Failure(v, s) == Finished(v, Failed(v, s))
Success(v, s, d) == Finished(v, [s EXCEPT !.data = d])

(* The callback after the await, whichever request is being answered: rows *)
(* of the server, none, or a failure.                                      *)
Receive(r) ==
  /\ \/ \E full \in BOOLEAN :
          Render(tab, key, [view EXCEPT ![r.view] =
                   Success(r.view, @, [key |-> r.key, full |-> full])],
                 wire \ {r})
     \/ Render(tab, key, [view EXCEPT ![r.view] = Failure(r.view, @)],
               wire \ {r})
  /\ UNCHANGED <<page, url, key, tab, rounds>>

(* setTimeout(() => setLoading(false), 300).                               *)
SpinnerEnds(v) ==
  /\ view[v].ending > 0
  /\ view' = [view EXCEPT ![v].loading = FALSE, ![v].ending = @ - 1]
  /\ UNCHANGED <<page, url, key, tab, wire, rounds>>

-----------------------------------------------------------------------------
Arrive == \E r \in wire : Receive(r)
Timeout == \E v \in DOMAIN view : PauseEnds(v) \/ SpinnerEnds(v)

Next ==
  \/ \E k \in Names \cup {Null} : ChangeKey(k) \/ TypeQuery(k)
  \/ \E s \in Filters : FilterClick(s)
  \/ \E t \in Tabs : SelectTab(t)
  \/ \E v \in DOMAIN view : Press(v)
  \/ Arrive \/ Timeout

(* Requests are answered or fail, and timers fire.                         *)
Spec == Init /\ [][Next]_vars /\ WF_vars(Arrive) /\ WF_vars(Timeout)

-----------------------------------------------------------------------------
(* The values the variables take; only mounted views have requests.        *)
TypeOK ==
  /\ page \in Pages /\ url \in Queries /\ tab \in Tabs
  /\ key \in Keys \cup {Null}
  /\ view \in [DOMAIN view -> ViewState] /\ DOMAIN view \subseteq Views
  /\ wire \subseteq Request
  /\ \A r \in wire : r.view \in DOMAIN view

Quiet(v) == ~Outstanding(v, view[v], wire) /\ view[v].pauses = {}

(* While its requests do not overlap, a settled view that tells failures   *)
(* shows rows, or their absence, of the key the page is about now, however *)
(* keys, tabs, presses and failures follow each other.                     *)
RightDataInSequence ==
  \A v \in DOMAIN view :
    (/\ ~view[v].mixed /\ Quiet(v) /\ key # Null
     /\ Of[v].failure # "logged"
     /\ Shown(v, view[v]) \cap {"rows", "nothing"} # {})
      => view[v].data.key = key

(* Every spinner ends in data or an error once the user pauses, which the  *)
(* bound on rounds makes him do.  Left out are the user page and the top   *)
(* bar, which wait for ever after a failure, and pages without a key.      *)
Spinning ==
  /\ key # Null
  /\ \E v \in DOMAIN view \ {"UserPage", "NavCredit"} :
       "spinner" \in Shown(v, view[v])

SpinnersEnd == Spinning ~> ~Spinning

(* The search box asks for what stands in it, not for what has been typed  *)
(* over since.                                                             *)
SearchesCurrentQuery ==
  [][\A r \in wire' \ wire :
       r.view = "NavSearch" => r.key = key']_vars
=============================================================================
