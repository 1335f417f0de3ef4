----------------------------- MODULE MarketPage -----------------------------
(***************************************************************************)
(* The page of one market: useMarketDetails, MarketDetailsLayout, the      *)
(* trade panels and the dialog that resolves the market, in one tab, while *)
(* the server goes on trading and resolving.  What the server holds is     *)
(* told apart by the number of changes it had seen when it was read.       *)
(* The panels are not keyed by market: their state survives a link to      *)
(* another market.  Only the buttons of the page and of the top bar        *)
(* navigate, not the back button of the browser.                           *)
(***************************************************************************)
EXTENDS Naturals, FiniteSets

CONSTANTS
  Markets,     \* the markets
  Outcomes,    \* the outcomes of this instance
  Given,       \* labels a creator may type for YES
  Own,         \* the markets that the user has created
  Closing,     \* the markets that reach their closing time
  NoMarket,    \* the list of markets is shown
  MaxSteps,    \* bound on the clicks that start requests
  MaxChanges   \* bound on the changes of the server

ASSUME MarketPageAssumption ==
  Markets # {} /\ NoMarket \notin Markets
  /\ Own \subseteq Markets /\ Closing \subseteq Markets
  /\ Outcomes \subseteq {"YES", "NO"}
  /\ MaxSteps \in Nat /\ MaxChanges \in Nat

Devices == {"desktop", "mobile"}

VARIABLES
  loggedIn,  \* whether the user is logged in
  screen,    \* which of the panels the width of the screen shows
  label,     \* what the server stored as the YES label of the markets
  changes,   \* changes of the server so far, the first one creating it all
  market,    \* rows of the server: result, and whether trading is over
  route,     \* the market of the URL
  side,      \* location.state.side of the history entry
  used,      \* sessionStorage: markets with a key "side-used-..."
  page,      \* React state of the market page
  wire,      \* requests and answers on their way
  acked,     \* change of the last trade the page was told had succeeded
  steps      \* clicks so far that started requests

vars == <<loggedIn, screen, label, changes, market, route, side, used, page,
          wire, acked, steps>>

Sides == Outcomes \cup {"none"}
NoDetails == [market |-> NoMarket, at |-> 0, result |-> "none"]
NoShares == [market |-> NoMarket, at |-> 0]

(* A panel: filled is an amount of at least one; at = 0 is a value not     *)
(* loaded.                                                                 *)
Panel == [mode : {"buy", "sell"}, outcome : Sides, filled : BOOLEAN,
          mixed : BOOLEAN,
          shares : [market : Markets \cup {NoMarket}, at : 0..MaxChanges]]

(* disturbed is history: requests for the details overlapped or failed;    *)
(* told is the market that the page was told it had resolved;              *)
(* late is isExpired at the last rendering, one flag for the layout and    *)
(* its panels.                                                             *)
Page(p) ==
  [late : BOOLEAN, disturbed : BOOLEAN,
   told : Markets \cup {NoMarket},
   details : [market : Markets \cup {NoMarket}, at : 0..MaxChanges,
              result : Sides],
   dialog : [open : BOOLEAN, choice : Sides],
   panels : [p -> Panel]]

NewPage ==
  [late |-> FALSE, disturbed |-> FALSE, told |-> NoMarket,
   details |-> NoDetails, dialog |-> [open |-> FALSE, choice |-> "none"],
   panels |-> [d \in {} |-> NoShares]]

Request ==
  [kind : {"details", "shares", "bet", "sale", "resolve"},
   device : Devices \cup {"none"}, market : Markets \cup {NoMarket},
   outcome : Sides, seq : 0..MaxSteps,
   status : {"asked", "done", "failed"}, at : 0..MaxChanges,
   result : Sides, left : BOOLEAN, deaf : BOOLEAN]

(* A new request, numbered apart from those of w on their way; left is set *)
(* when its page is unmounted, deaf when a page load drops its callbacks.  *)
Ask(kind, d, m, o, w) ==
  [kind |-> kind, device |-> d, market |-> m, outcome |-> o,
   seq |-> CHOOSE n \in 0..MaxSteps :
             /\ \A r \in w : r.kind = kind => r.seq # n
             /\ \A k \in 0..(n - 1) :
                  \E r \in w : r.kind = kind /\ r.seq = k,
   status |-> "asked", at |-> 0, result |-> "none",
   left |-> FALSE, deaf |-> FALSE]
AskDetails(m, w) == Ask("details", "none", m, "none", w)

Shown == page.details.market
Of(kind) == {r \in wire : r.kind = kind}
Writes == Of("bet") \cup Of("sale") \cup Of("resolve")
WritesLeft == {[r EXCEPT !.left = TRUE] : r \in Writes}
Step == steps < MaxSteps /\ steps' = steps + 1
SameServer == UNCHANGED <<loggedIn, screen, label, changes, market>>
SameBrowser == UNCHANGED <<route, side, used>>

-----------------------------------------------------------------------------
(* Labels: "pad" is a text with blanks around it, "blank" nothing else.    *)
(* The browser's trim and Go's TrimSpace agree on blanks, but for U+FEFF   *)
(* and U+0085, which no label here has.                                    *)
Trim(l) == CASE l = "pad" -> "text" [] l = "blank" -> "none" [] OTHER -> l
Or(l, default) == IF l = "none" THEN default ELSE l

(* A label is left out, or has a text between its blanks.                  *)
ValidCustomLabel(l) == l # "none" => Trim(l) # "none"

(* Mutant: the server takes blanks for a label.                            *)
StoredLabelsUntrimmed == {Or(l, "YES") : l \in Given}

StoredLabels ==
  {IF Trim(l) = "none" THEN "YES" ELSE l :
     l \in {g \in Given : ValidCustomLabel(g)}}

(* The card, the tabs and the announcement of the result take the label    *)
(* as it is; the panel and the dialog take it without blanks.              *)
MarketLabel == Or(label, "YES")
FallbackLabel == Or(Trim(MarketLabel), "YES")
PanelLabel == FallbackLabel
DialogLabel == FallbackLabel
CardLabel == Or(label, "YES")
ResolvedText == Or(label, "YES")
AlertLabel == ResolvedText

-----------------------------------------------------------------------------
Init ==
  /\ loggedIn \in BOOLEAN /\ screen \in Devices /\ label \in StoredLabels
  /\ changes = 1
  /\ market = [m \in Markets |-> [result |-> "none", over |-> FALSE]]
  /\ route = NoMarket /\ side = "none" /\ used = {}
  /\ page = NewPage /\ wire = {}
  /\ acked = 0 /\ steps = 0

(* MarketCard: its link, or one of its buttons.                            *)
ClickCard(m, s) ==
  /\ route = NoMarket /\ Step
  /\ route' = m /\ side' = s
  /\ page' = NewPage
  /\ wire' = WritesLeft \cup {AskDetails(m, {})}
  /\ UNCHANGED <<loggedIn, screen, label, changes, market, used, acked>>

(* The cleanup of the panels' effect forgets their key.                    *)
KeysLeft ==
  IF DOMAIN page.panels = {} THEN used ELSE used \ {Shown}

(* A link of the search box to another market: the page stays mounted.     *)
FollowLink(m) ==
  /\ route \notin {NoMarket, m} /\ Step
  /\ route' = m /\ side' = "none" /\ used' = KeysLeft
  /\ page' = [page EXCEPT !.disturbed = @ \/ Of("details") # {}]
  /\ wire' = wire \cup {AskDetails(m, wire)}
  /\ SameServer /\ UNCHANGED acked

(* A link to the list unmounts the page; what it sent is still answered.   *)
Leave ==
  /\ route # NoMarket
  /\ route' = NoMarket /\ side' = "none" /\ used' = KeysLeft
  /\ page' = NewPage
  /\ wire' = WritesLeft
  /\ SameServer /\ UNCHANGED <<acked, steps>>

(* A page load drops every callback; requests may still reach the server.  *)
(* history.state and sessionStorage outlive it.                            *)
Load(rest) ==
  /\ page' = NewPage
  /\ wire' = {[r EXCEPT !.deaf = TRUE] :
                r \in {w \in rest \cap Writes : w.status = "asked"}}
             \cup (IF route = NoMarket THEN {}
                   ELSE {AskDetails(route, {})})

Reload ==
  /\ route # NoMarket /\ Step
  /\ Load(wire)
  /\ SameServer /\ SameBrowser /\ UNCHANGED acked

-----------------------------------------------------------------------------
(* The trade panels.                                                       *)

(* The effect of a panel on market m with keys u: the first time it leaves *)
(* its key, and when it finds it, it removes the side from the history.    *)
SideEffect(m, u) ==
  /\ used' = IF side = "none" THEN u
             ELSE IF m \in u THEN u \ {m} ELSE u \cup {m}
  /\ side' = IF m \in u THEN "none" ELSE side

NewPanel ==
  [mode |-> "buy", outcome |-> side, filled |-> FALSE, mixed |-> FALSE,
   shares |-> NoShares]

Panels == DOMAIN page.panels
CanTrade(d) ==
  /\ d \in Panels /\ d = screen
  /\ loggedIn /\ page.details.result = "none" /\ ~page.late

(* A click or an input in panel d, which is rendered again.                *)
Edit(d, panel) ==
  /\ CanTrade(d)
  /\ page' = [page EXCEPT !.panels[d] = panel,
                           !.late = market[Shown].over]
  /\ SameServer /\ SameBrowser /\ UNCHANGED acked

(* setMode; the effect on the mode loads the shares to sell.               *)
SetMode(d, mode) ==
  /\ CanTrade(d) /\ page.panels[d].mode # mode
  /\ Edit(d, [page.panels[d] EXCEPT !.mode = mode,
                !.mixed = @ \/ (/\ mode = "sell"
                                /\ \E r \in Of("shares") : r.device = d)])
  /\ IF mode = "sell"
     THEN /\ Step
          /\ wire' = wire \cup {Ask("shares", d, Shown, "none", wire)}
     ELSE UNCHANGED <<wire, steps>>

SelectOutcome(d, o) ==
  /\ CanTrade(d)
  /\ Edit(d, [page.panels[d] EXCEPT !.outcome = o])
  /\ UNCHANGED <<wire, steps>>

(* handleAmountChange and handleQuickAdd; "Max" is 0 until it is loaded.   *)
SetAmount(d, some) ==
  /\ CanTrade(d)
  /\ Edit(d, [page.panels[d] EXCEPT !.filled = some])
  /\ UNCHANGED <<wire, steps>>

SubmitBet(d) == Ask("bet", d, Shown, page.panels[d].outcome, wire)
SubmitSale(d) == Ask("sale", d, Shown, page.panels[d].outcome, wire)

(* handleTrade: nothing keeps a second click from sending a second trade.  *)
Trade(d) ==
  /\ CanTrade(d) /\ Step
  /\ page.panels[d].outcome # "none" /\ page.panels[d].filled
  /\ wire' = wire \cup {IF page.panels[d].mode = "buy"
                         THEN SubmitBet(d) ELSE SubmitSale(d)}
  /\ SameServer /\ SameBrowser /\ UNCHANGED <<page, acked>>

ShowsTradeButtons ==
  Shown # NoMarket /\ loggedIn /\ page.details.result = "none" /\ ~page.late

(* The button of small screens opens a second panel; the first one is      *)
(* mounted there too, only hidden.                                         *)
OpenTradeModal ==
  /\ ShowsTradeButtons /\ screen = "mobile" /\ "mobile" \notin Panels
  /\ page' = [page EXCEPT !.late = market[Shown].over,
                !.panels = [d \in Devices |->
                   IF d = "mobile" THEN NewPanel ELSE @[d]]]
  /\ SideEffect(Shown, used)
  /\ SameServer /\ UNCHANGED <<route, wire, acked, steps>>

CloseTradeModal ==
  /\ "mobile" \in Panels
  /\ page' = [page EXCEPT !.late = market[Shown].over,
                           !.panels = [d \in {"desktop"} |-> @[d]]]
  /\ used' = used \ {Shown}
  /\ wire' = {r \in wire : r.device # "mobile" \/ r \in Writes}
  /\ SameServer /\ UNCHANGED <<route, side, acked, steps>>

-----------------------------------------------------------------------------
(* The dialog of the creator.                                              *)
MayResolve ==
  loggedIn /\ Shown \in Own /\ page.details.result = "none"

ToggleDialog ==
  /\ MayResolve
  /\ page' = [page EXCEPT !.dialog.open = ~@]
  /\ SameServer /\ SameBrowser /\ UNCHANGED <<wire, acked, steps>>

SelectResolution(o) ==
  /\ MayResolve /\ page.dialog.open
  /\ page' = [page EXCEPT !.dialog.choice = o]
  /\ SameServer /\ SameBrowser /\ UNCHANGED <<wire, acked, steps>>

ResolveMarket(o) == Ask("resolve", "none", Shown, o, wire)

(* handleConfirm sends what is selected, if anything, and closes at once.  *)
Confirm ==
  /\ MayResolve /\ page.dialog.open /\ Step
  /\ wire' = wire \cup {ResolveMarket(page.dialog.choice)}
  /\ page' = [page EXCEPT !.dialog.open = FALSE]
  /\ SameServer /\ SameBrowser /\ UNCHANGED acked

-----------------------------------------------------------------------------
(* The server.                                                             *)
Answer(r, status, n, result) ==
  wire' = (wire \ {r}) \cup
          (IF r.deaf THEN {}
           ELSE {[r EXCEPT !.status = status, !.at = n,
                           !.result = result]})

SamePage == SameBrowser /\ UNCHANGED <<page, acked, steps>>

Refuse(r) ==
  /\ r.status = "asked" /\ r \in Writes /\ Answer(r, "failed", 0, "none")
  /\ SameServer /\ SamePage

ServeRead(r) ==
  /\ r.status = "asked" /\ r \notin Writes
  /\ Answer(r, "done", changes,
            IF r.kind = "details" THEN market[r.market].result ELSE "none")
  /\ SameServer /\ SamePage

Change == changes < MaxChanges /\ changes' = changes + 1
Open(m) == market[m].result = "none" /\ ~market[m].over

ServeTrade(r) ==
  /\ r.status = "asked" /\ r.kind \in {"bet", "sale"}
  /\ Open(r.market) /\ Change
  /\ Answer(r, "done", changes', "none")
  /\ SamePage /\ UNCHANGED <<loggedIn, screen, label, market>>

ServeResolve(r) ==
  /\ r.status = "asked" /\ r.kind = "resolve" /\ r.outcome # "none"
  /\ market[r.market].result = "none" /\ Change
  /\ market' = [market EXCEPT ![r.market].result = r.outcome]
  /\ Answer(r, "done", changes', "none")
  /\ SamePage /\ UNCHANGED <<loggedIn, screen, label>>

(* Another tab or user trades or resolves; or the closing time passes.     *)
Elsewhere(m) ==
  /\ SamePage /\ UNCHANGED <<loggedIn, screen, label, wire>>
  /\ \/ Open(m) /\ Change /\ UNCHANGED market
     \/ /\ market[m].result = "none" /\ Change
        /\ \E o \in Outcomes : market' = [market EXCEPT ![m].result = o]
     \/ /\ m \in Closing /\ ~market[m].over
        /\ market' = [market EXCEPT ![m].over = TRUE] /\ UNCHANGED changes

-----------------------------------------------------------------------------
(* The answers.                                                            *)

(* Mutant: the shares are loaded for the mode, not for the market.         *)
SharesRequestsOnce(r) == {}

(* A panel that sells loads its shares again when the market changes.      *)
SharesRequests(r) ==
  {Ask("shares", d, r.market, "none", wire) :
     d \in {x \in Panels : page.panels[x].mode = "sell"
                           /\ Shown # r.market}}

(* setDetails renders everything; the first details mount the panel of     *)
(* wide screens, and a result takes the dialog away.                       *)
GetDetails(r) ==
  LET old(d) == [page.panels[d] EXCEPT
                   !.mixed = @ \/ (/\ Shown # r.market
                                   /\ \E s \in Of("shares") : s.device = d)]
      mounts == Shown = NoMarket
  IN  /\ page' = [page EXCEPT
           !.late = market[r.market].over,
           !.details = [market |-> r.market, at |-> r.at,
                        result |-> r.result],
           !.dialog = IF r.result = "none" /\ r.market \in Own THEN @
                      ELSE [open |-> FALSE, choice |-> "none"],
           !.panels = IF mounts THEN [d \in {"desktop"} |-> NewPanel]
                      ELSE [d \in Panels |-> old(d)]]
      /\ IF mounts \/ Shown # r.market THEN SideEffect(r.market, KeysLeft)
         ELSE UNCHANGED <<side, used>>
      /\ wire' = (wire \ {r}) \cup SharesRequests(r)
      /\ UNCHANGED <<route, acked>>

(* The error of the details is only logged.                                *)
LoseDetails(r) ==
  /\ page' = [page EXCEPT !.disturbed = TRUE]
  /\ wire' = wire \ {r}
  /\ SameBrowser /\ UNCHANGED acked

SharesArrive(r, shares) ==
  /\ page' = [page EXCEPT !.panels[r.device].shares = shares,
                !.late = market[Shown].over]
  /\ wire' = wire \ {r}
  /\ SameBrowser /\ UNCHANGED acked

Heard(r) ==
  /\ wire' = wire \ {r}
  /\ SameBrowser /\ UNCHANGED <<page, acked>>

(* Mutant: a trade loads the details again instead of the page.            *)
TradeDoneRefetching(r) ==
  /\ acked' = r.at
  /\ wire' = (wire \ {r}) \cup
             {AskDetails(m, wire) : m \in {route} \ {NoMarket}}
  /\ SameBrowser /\ UNCHANGED page

(* The alert blocks, then window.location.reload() loads whatever page the *)
(* user is on.                                                             *)
TradeDone(r) ==
  /\ acked' = r.at
  /\ Load(wire \ {r})
  /\ SameBrowser

(* Mutant: the page is not told to load its details again.                 *)
ResolveDoneSilently(r) ==
  /\ page' = [page EXCEPT !.told = IF r.left THEN @ ELSE r.market]
  /\ wire' = wire \ {r}
  /\ SameBrowser /\ UNCHANGED acked

(* onResolved toggles the refresh of the page that sent it, if it is still *)
(* mounted.                                                                *)
ResolveDone(r) ==
  /\ wire' = (wire \ {r}) \cup
             (IF r.left THEN {} ELSE {AskDetails(route, wire)})
  /\ page' = [page EXCEPT !.told = IF r.left THEN @ ELSE r.market,
                !.disturbed = @ \/ (~r.left /\ Of("details") # {})]
  /\ SameBrowser /\ UNCHANGED acked

(* An answer arrives, or fails on its way, even if the server did its part.*)
Receive(r) ==
  /\ r.status # "asked"
  /\ \/ /\ r.status = "done"
        /\ CASE r.kind = "details" -> GetDetails(r)
             [] r.kind = "shares" ->
                  SharesArrive(r, [market |-> r.market, at |-> r.at])
             [] r.kind \in {"bet", "sale"} -> TradeDone(r)
             [] r.kind = "resolve" -> ResolveDone(r)
     \/ CASE r.kind = "details" -> LoseDetails(r)
          [] r.kind = "shares" -> SharesArrive(r, NoShares)
          [] OTHER -> Heard(r)
  /\ SameServer /\ UNCHANGED steps

-----------------------------------------------------------------------------
Browse ==
  \/ \E m \in Markets, s \in Sides : ClickCard(m, s)
  \/ \E m \in Markets : FollowLink(m)
  \/ Leave \/ Reload
Operate ==
  \/ \E d \in Devices :
       \/ \E mode \in {"buy", "sell"} : SetMode(d, mode)
       \/ \E o \in Outcomes : SelectOutcome(d, o)
       \/ \E some \in BOOLEAN : SetAmount(d, some)
       \/ Trade(d)
  \/ OpenTradeModal \/ CloseTradeModal
  \/ ToggleDialog \/ Confirm
  \/ \E o \in Outcomes : SelectResolution(o)
Serve ==
  \E r \in wire : Refuse(r) \/ ServeRead(r) \/ ServeTrade(r)
                  \/ ServeResolve(r)
Arrive == \E r \in wire : Receive(r)

Next == Browse \/ Operate \/ Serve \/ Arrive
        \/ \E m \in Markets : Elsewhere(m)

(* Requests are answered, well or badly.                                   *)
Spec == Init /\ [][Next]_vars /\ WF_vars(Serve) /\ WF_vars(Arrive)

-----------------------------------------------------------------------------
(* The values the variables take; panels exist once details do, and only   *)
(* mounted panels wait for shares.                                         *)
TypeOK ==
  /\ loggedIn \in BOOLEAN /\ screen \in Devices /\ changes \in 1..MaxChanges
  /\ market \in [Markets -> [result : Sides, over : BOOLEAN]]
  /\ route \in Markets \cup {NoMarket} /\ side \in Sides
  /\ used \subseteq Markets /\ page \in Page(Panels)
  /\ Panels \subseteq Devices /\ wire \subseteq Request
  /\ "desktop" \in Panels <=> Shown # NoMarket
  /\ \A r \in Of("shares") : r.device \in Panels

(* Once the page has said that a trade succeeded, nothing on it is older   *)
(* than the trade: details and shares are those of later reads.            *)
ReadYourWrites ==
  /\ Shown # NoMarket => page.details.at >= acked
  /\ \A d \in Panels :
       page.panels[d].shares.at # 0 => page.panels[d].shares.at >= acked

(* While its requests neither overlap nor fail, a settled page shows the   *)
(* market of its URL, and a panel that sells offers shares of no other.    *)
PageShowsMarket ==
  (/\ route # NoMarket /\ Of("details") = {} /\ ~page.disturbed) =>
    /\ Shown = route
    /\ \A d \in Panels :
         (/\ page.panels[d].mode = "sell" /\ ~page.panels[d].mixed
          /\ \A r \in Of("shares") : r.device # d)
           => page.panels[d].shares.market \in {route, NoMarket}

(* Whatever a creator typed, the card, the panel, the dialog and the       *)
(* announcement of the result name YES the same, blanks aside.             *)
LabelsAgree ==
  /\ PanelLabel = DialogLabel
  /\ \A l \in {CardLabel, MarketLabel, AlertLabel} : Trim(l) = PanelLabel

(* A resolution the page was told of shows up on it, unless requests for   *)
(* the details overlap or fail or the user goes elsewhere.                 *)
Hides == /\ page.told # NoMarket /\ route = page.told /\ ~page.disturbed
         /\ page.details.result = "none"
ResolutionAppears == Hides ~> ~Hides
=============================================================================
