-------------------------- MODULE MarketPageProofs --------------------------
(***************************************************************************)
(* The theorems about the page of a market: for any number of markets,     *)
(* clicks and changes of the server, with answers in any order.            *)
(***************************************************************************)
EXTENDS MarketPage, TLAPS

-----------------------------------------------------------------------------
(* The inductive invariant *)

Details == [market : Markets \cup {NoMarket}, at : Nat, result : Sides]
Shares == [market : Markets \cup {NoMarket}, at : Nat]
TradePanel == [mode : {"buy", "sell"}, outcome : Sides, filled : BOOLEAN,
               mixed : BOOLEAN, shares : Shares]
View(p) ==
  [late : BOOLEAN, disturbed : BOOLEAN, told : Markets \cup {NoMarket},
   details : Details, dialog : [open : BOOLEAN, choice : Sides],
   panels : [p -> TradePanel]]
MarketRow == [result : Sides, over : BOOLEAN]

PageTyped ==
  /\ changes \in Nat /\ acked \in Nat
  /\ market \in [Markets -> MarketRow]
  /\ route \in Markets \cup {NoMarket} /\ side \in Sides
  /\ page \in View(Panels) /\ Panels \subseteq Devices

(* The number of a request tells apart what the properties do not; that    *)
(* there always is one free is left out.                                   *)
RequestFields ==
  {"kind", "device", "market", "outcome", "seq", "status", "at", "result",
   "left", "deaf"}
WriteKinds == {"bet", "sale", "resolve"}

RequestTyped(r) ==
  /\ DOMAIN r = RequestFields
  /\ r.kind \in {"details", "shares"} \cup WriteKinds
  /\ r.market \in Markets /\ r.outcome \in Sides /\ r.result \in Sides
  /\ r.status \in {"asked", "done", "failed"} /\ r.at \in Nat
  /\ r.left \in BOOLEAN /\ r.deaf \in BOOLEAN
  /\ r.kind = "details" => r.device = "none"

(* Only writes outlive their page; without callbacks none is answered.     *)
RequestLives(r) ==
  /\ r.left \/ r.deaf => r.kind \in WriteKinds
  /\ r.deaf => r.status = "asked"
  /\ ~r.left /\ ~r.deaf => route # NoMarket
  /\ r.kind = "shares" => r.device \in Panels

(* No answer to a read is older than the last trade that was confirmed.    *)
RequestFresh(r) ==
  /\ r.at <= changes
  /\ r.status = "done" /\ r.kind \notin WriteKinds => r.at >= acked

RequestsGood ==
  \A r \in wire : RequestTyped(r) /\ RequestLives(r) /\ RequestFresh(r)

(* Details belong to a page, and panels to details.                        *)
PageMounted ==
  /\ Shown # NoMarket => route # NoMarket /\ "desktop" \in Panels
  /\ Panels # {} => Shown # NoMarket

(* An undisturbed page has asked for the details of its URL once.          *)
DetailsOnce ==
  ~page.disturbed =>
    /\ \A r, s \in Of("details") : r = s
    /\ \A r \in Of("details") : r.market = route
    /\ route # NoMarket /\ Of("details") = {} => Shown = route

(* A panel waits for shares of the market shown, or has them.              *)
PanelAwaits(d) == {r \in Of("shares") : r.device = d}
PanelOffers(d) ==
  ~page.panels[d].mixed =>
    /\ \A r \in PanelAwaits(d) : r.market = Shown
    /\ page.panels[d].mode = "sell" /\ PanelAwaits(d) = {} =>
         page.panels[d].shares.market \in {Shown, NoMarket}

PageInv ==
  /\ PageTyped /\ RequestsGood /\ PageMounted /\ DetailsOnce
  /\ \A d \in Panels : PanelOffers(d)
  /\ acked <= changes /\ ReadYourWrites /\ label \in StoredLabels

-----------------------------------------------------------------------------
(* Requests *)

(* A request that has just been sent from a page.                          *)
New(k, kind) ==
  /\ RequestTyped(k) /\ k.kind = kind /\ k.status = "asked" /\ k.at = 0
  /\ k.left = FALSE /\ k.deaf = FALSE

LEMMA Asked ==
  ASSUME NEW kind \in {"details", "shares"} \cup WriteKinds, NEW d,
         NEW m \in Markets, NEW o \in Sides, NEW w,
         kind = "details" => d = "none"
  PROVE  LET k == Ask(kind, d, m, o, w)
         IN  New(k, kind) /\ k.device = d /\ k.market = m
<1> DEFINE n == CHOOSE n \in 0..MaxSteps :
                  /\ \A r \in w : r.kind = kind => r.seq # n
                  /\ \A k \in 0..(n - 1) :
                       \E r \in w : r.kind = kind /\ r.seq = k
           k == [kind |-> kind, device |-> d, market |-> m, outcome |-> o,
                 seq |-> n, status |-> "asked", at |-> 0,
                 result |-> "none", left |-> FALSE, deaf |-> FALSE]
<1>1. Ask(kind, d, m, o, w) = k
  BY DEF Ask
<1> HIDE DEF n
<1>2. DOMAIN k = RequestFields
  BY DEF RequestFields
<1>3. "none" \in Sides /\ 0 \in Nat
  BY DEF Sides
<1>4. New(k, kind) /\ k.device = d /\ k.market = m
  BY <1>2, <1>3 DEF New, RequestTyped
<1> HIDE DEF k
<1> QED  BY <1>1, <1>4

LEMMA AskedDetails ==
  ASSUME NEW m \in Markets, NEW w
  PROVE  /\ New(AskDetails(m, w), "details")
         /\ AskDetails(m, w).market = m
<1>1. "none" \in Sides
  BY DEF Sides
<1> QED  BY <1>1, Asked DEF AskDetails

(* The record of a request after its page has gone or the server answered. *)
LEMMA RequestLeft ==
  ASSUME NEW r, RequestTyped(r)
  PROVE  LET k == [r EXCEPT !.left = TRUE]
         IN  /\ RequestTyped(k) /\ k.kind = r.kind /\ k.left = TRUE
             /\ k.deaf = r.deaf /\ k.status = r.status /\ k.at = r.at
BY DEF RequestTyped, RequestFields

LEMMA RequestDeaf ==
  ASSUME NEW r, RequestTyped(r)
  PROVE  LET k == [r EXCEPT !.deaf = TRUE]
         IN  /\ RequestTyped(k) /\ k.kind = r.kind /\ k.deaf = TRUE
             /\ k.status = r.status /\ k.at = r.at
BY DEF RequestTyped, RequestFields

LEMMA Kinds ==
  /\ \A r : r \in Writes <=> r \in wire /\ r.kind \in WriteKinds
  /\ \A r, kind : r \in Of(kind) <=> r \in wire /\ r.kind = kind
BY DEF Writes, WriteKinds, Of

-----------------------------------------------------------------------------
(* Steps that start a page anew *)

LEMMA NewPageTyped ==
  /\ NewPage \in View({}) /\ DOMAIN NewPage.panels = {}
  /\ NewPage.details.market = NoMarket /\ NewPage.disturbed = FALSE
<1> DEFINE p == [d \in {} |-> NoShares]
<1>1. p \in [{} -> TradePanel] /\ DOMAIN p = {}
  OBVIOUS
<1>2. NoDetails \in Details /\ NoDetails.market = NoMarket
  BY DEF NoDetails, Details, Sides
<1>3. [open |-> FALSE, choice |-> "none"] \in [open : BOOLEAN, choice : Sides]
  BY DEF Sides
<1>4. NewPage = [late |-> FALSE, disturbed |-> FALSE, told |-> NoMarket,
                 details |-> NoDetails,
                 dialog |-> [open |-> FALSE, choice |-> "none"],
                 panels |-> p]
  BY DEF NewPage
<1> HIDE DEF p
<1> QED  BY <1>1, <1>2, <1>3, <1>4 DEF View

(* Nothing is left of the old page but writes that it will not hear of.    *)
LEMMA AnewSound ==
  ASSUME PageInv, page' = NewPage, UNCHANGED <<changes, market, label>>,
         route' \in Markets \cup {NoMarket}, side' \in Sides,
         acked' \in Nat, acked' <= changes,
         \A k \in wire' :
           \/ /\ New(k, "details") /\ k.market = route'
              /\ route' # NoMarket
           \/ /\ RequestTyped(k) /\ k.kind \in WriteKinds
              /\ k.left \/ k.deaf
              /\ k.deaf => k.status = "asked"
              /\ k.at <= changes,
         \A j, k \in wire' :
           j.kind = "details" /\ k.kind = "details" => j = k,
         route' # NoMarket => \E k \in wire' : k.kind = "details"
  PROVE  PageInv'
<1>1. /\ page' \in View(Panels') /\ Panels' = {} /\ Shown' = NoMarket
      /\ page'.disturbed = FALSE
  BY NewPageTyped DEF Panels, Shown
<1>2. PageTyped'
  BY <1>1 DEF PageInv, PageTyped
<1>3. changes \in Nat
  BY DEF PageInv, PageTyped
<1>4. ASSUME NEW k \in wire'
      PROVE  RequestTyped(k) /\ RequestLives(k)' /\ RequestFresh(k)'
  BY <1>1, <1>3
  DEF New, RequestLives, RequestFresh, WriteKinds
<1>5. RequestsGood'
  BY <1>4 DEF RequestsGood, RequestTyped
<1>6. /\ \A k \in Of("details")' : k \in wire' /\ k.kind = "details"
      /\ \A k \in wire' : k.kind = "details" => k \in Of("details")'
  BY DEF Of
<1>7. \A k \in Of("details")' : k.market = route'
  BY <1>6 DEF New, WriteKinds
<1>8. DetailsOnce'
  BY <1>6, <1>7 DEF DetailsOnce
<1>9. PageMounted' /\ ReadYourWrites' /\ \A d \in Panels' : PanelOffers(d)'
  BY <1>1 DEF PageMounted, ReadYourWrites
<1>10. acked' <= changes' /\ label' \in StoredLabels'
  BY DEF PageInv, StoredLabels
<1> QED
  BY <1>2, <1>5, <1>8, <1>9, <1>10 DEF PageInv

LEMMA WritesLeftGone ==
  ASSUME PageInv, NEW k \in WritesLeft
  PROVE  /\ RequestTyped(k) /\ k.kind \in WriteKinds /\ k.left = TRUE
         /\ k.deaf => k.status = "asked"
         /\ k.at <= changes
<1>1. PICK r \in Writes : k = [r EXCEPT !.left = TRUE]
  BY DEF WritesLeft
<1>2. /\ RequestTyped(r) /\ RequestLives(r) /\ RequestFresh(r)
      /\ r.kind \in WriteKinds
  BY <1>1, Kinds DEF PageInv, RequestsGood, RequestTyped
<1>3. /\ RequestTyped(k) /\ k.kind = r.kind /\ k.left = TRUE
      /\ k.deaf = r.deaf /\ k.status = r.status /\ k.at = r.at
  BY <1>1, <1>2, RequestLeft
<1> QED  BY <1>2, <1>3 DEF RequestLives, RequestFresh

LEMMA ClickCardSound ==
  ASSUME PageInv, NEW m \in Markets, NEW s \in Sides, ClickCard(m, s)
  PROVE  PageInv'
<1>1. /\ route' = m /\ side' = s /\ page' = NewPage
      /\ wire' = WritesLeft \cup {AskDetails(m, {})}
      /\ UNCHANGED <<label, changes, market, acked>>
  BY DEF ClickCard
<1>2. m # NoMarket /\ acked \in Nat /\ acked <= changes
  BY MarketPageAssumption DEF PageInv, PageTyped
<1>3. New(AskDetails(m, {}), "details") /\ AskDetails(m, {}).market = m
  BY AskedDetails
<1>4. AskDetails(m, {}).kind = "details"
  BY <1>3 DEF New
<1>5. \A k \in WritesLeft : k.kind # "details"
  BY WritesLeftGone DEF WriteKinds
<1> QED
  BY <1>1, <1>2, <1>3, <1>4, <1>5, WritesLeftGone, AnewSound

LEMMA LeaveSound ==
  ASSUME PageInv, Leave
  PROVE  PageInv'
<1>1. /\ route' = NoMarket /\ side' = "none" /\ page' = NewPage
      /\ wire' = WritesLeft
      /\ UNCHANGED <<label, changes, market, acked>>
  BY DEF Leave, SameServer
<1>2. "none" \in Sides /\ acked \in Nat /\ acked <= changes
  BY DEF PageInv, PageTyped, Sides
<1>3. \A k \in WritesLeft : k.kind # "details"
  BY WritesLeftGone DEF WriteKinds
<1> QED  BY <1>1, <1>2, <1>3, WritesLeftGone, AnewSound

LEMMA LoadSound ==
  ASSUME PageInv, NEW rest \in SUBSET wire, Load(rest),
         SameServer, SameBrowser, acked' \in Nat, acked' <= changes
  PROVE  PageInv'
<1> DEFINE gone == {[r EXCEPT !.deaf = TRUE] :
                      r \in {w \in rest \cap Writes : w.status = "asked"}}
           again == IF route = NoMarket THEN {} ELSE {AskDetails(route, {})}
<1>1. /\ page' = NewPage /\ wire' = gone \cup again
      /\ UNCHANGED <<route, side, label, changes, market>>
  BY DEF Load, SameServer, SameBrowser
<1>2. route \in Markets \cup {NoMarket} /\ side \in Sides
  BY DEF PageInv, PageTyped
<1>3. ASSUME NEW k \in gone
      PROVE  /\ RequestTyped(k) /\ k.kind \in WriteKinds /\ k.deaf = TRUE
             /\ k.status = "asked" /\ k.at <= changes
  <2>1. PICK r \in Writes : /\ k = [r EXCEPT !.deaf = TRUE]
                            /\ r.status = "asked"
    OBVIOUS
  <2>2. /\ RequestTyped(r) /\ RequestFresh(r) /\ r.kind \in WriteKinds
        /\ r.status \in {"asked", "done", "failed"}
    BY <2>1, Kinds DEF PageInv, RequestsGood, RequestTyped
  <2>3. /\ RequestTyped(k) /\ k.kind = r.kind /\ k.deaf = TRUE
        /\ k.status = r.status /\ k.at = r.at
    BY <2>1, <2>2, RequestDeaf
  <2> QED  BY <2>1, <2>2, <2>3 DEF RequestFresh
<1>4. \A k \in gone : k.kind # "details"
  BY <1>3 DEF WriteKinds
<1>5. ASSUME route # NoMarket
      PROVE  /\ again = {AskDetails(route, {})}
             /\ New(AskDetails(route, {}), "details")
             /\ AskDetails(route, {}).market = route
             /\ AskDetails(route, {}).kind = "details"
  <2>1. again = {AskDetails(route, {})}
    BY <1>5
  <2>2. PICK m \in Markets : m = route
    BY <1>2, <1>5
  <2>3. /\ New(AskDetails(m, {}), "details") /\ AskDetails(m, {}).market = m
    BY AskedDetails
  <2>4. New(AskDetails(m, {}), "details") =>
          AskDetails(m, {}).kind = "details"
    BY DEF New
  <2> QED  BY <2>1, <2>2, <2>3, <2>4
<1>6. route = NoMarket => again = {}
  OBVIOUS
<1> HIDE DEF gone, again
<1>7. /\ \A k \in wire' : k \in gone \/
            /\ New(k, "details") /\ k.market = route' /\ route' # NoMarket
            /\ k = AskDetails(route, {}) /\ k.kind = "details"
      /\ route' # NoMarket => \E k \in wire' : k.kind = "details"
  BY <1>1, <1>5, <1>6
<1>8. \A j, k \in wire' : j.kind = "details" /\ k.kind = "details" => j = k
  BY <1>4, <1>7
<1> QED  BY <1>1, <1>2, <1>3, <1>7, <1>8, AnewSound

LEMMA TradeDoneSound ==
  ASSUME PageInv, NEW r \in wire, TradeDone(r), SameServer
  PROVE  PageInv'
<1>1. acked' = r.at /\ Load(wire \ {r}) /\ SameBrowser
  BY DEF TradeDone
<1>2. r.at \in Nat /\ r.at <= changes
  BY DEF PageInv, RequestsGood, RequestTyped, RequestFresh
<1>3. PICK rest \in SUBSET wire : rest = wire \ {r}
  OBVIOUS
<1>4. Load(rest)
  BY <1>1, <1>3
<1> QED  BY <1>1, <1>2, <1>4, LoadSound

LEMMA ReloadSound ==
  ASSUME PageInv, Reload
  PROVE  PageInv'
<1>1. Load(wire) /\ SameServer /\ SameBrowser /\ UNCHANGED acked
  BY DEF Reload
<1>2. acked \in Nat /\ acked <= changes
  BY DEF PageInv, PageTyped
<1>3. PICK rest \in SUBSET wire : rest = wire
  OBVIOUS
<1>4. Load(rest)
  BY <1>1, <1>3
<1> QED  BY <1>1, <1>2, <1>4, LoadSound

-----------------------------------------------------------------------------
(* Steps of the server *)

(* The browser waits.                                                      *)
LEMMA IdleSound ==
  ASSUME PageInv, UNCHANGED <<label, wire>>, SamePage,
         changes' \in Nat, changes <= changes',
         market' \in [Markets -> MarketRow]
  PROVE  PageInv'
<1>1. UNCHANGED <<route, side, page, acked>>
  BY DEF SamePage, SameBrowser
<1>2. acked \in Nat /\ changes \in Nat /\ acked <= changes
  BY DEF PageInv, PageTyped
<1>3. PageTyped' /\ PageMounted' /\ DetailsOnce' /\ ReadYourWrites'
  BY <1>1
  DEF PageInv, PageTyped, PageMounted, DetailsOnce, ReadYourWrites, Shown,
      Panels, Of
<1>4. \A r \in wire : r.at \in Nat /\ r.at <= changes'
  BY <1>2 DEF PageInv, RequestsGood, RequestTyped, RequestFresh
<1>5. RequestsGood'
  BY <1>1, <1>4
  DEF PageInv, RequestsGood, RequestTyped, RequestFresh, RequestLives, Panels
<1>6. \A d \in Panels' : PanelOffers(d)'
  BY <1>1 DEF PageInv, PanelOffers, PanelAwaits, Of, Panels, Shown
<1>7. acked' <= changes'
  BY <1>1, <1>2
<1> QED  BY <1>3, <1>5, <1>6, <1>7 DEF PageInv, StoredLabels

LEMMA ElsewhereSound ==
  ASSUME PageInv, NEW m \in Markets, Elsewhere(m)
  PROVE  PageInv'
<1>1. /\ changes \in Nat /\ market \in [Markets -> MarketRow]
      /\ Outcomes \subseteq Sides
  BY DEF PageInv, PageTyped, Sides
<1>2. changes' \in Nat /\ changes <= changes'
  BY <1>1 DEF Elsewhere, Change
<1>3. market' \in [Markets -> MarketRow]
  <2>1. \A o \in Outcomes : [market[m] EXCEPT !.result = o] \in MarketRow
    BY <1>1 DEF MarketRow
  <2>2. [market[m] EXCEPT !.over = TRUE] \in MarketRow
    BY <1>1 DEF MarketRow
  <2>3. \/ market' = market
        \/ \E o \in Outcomes :
             market' = [market EXCEPT ![m] = [market[m] EXCEPT !.result = o]]
        \/ market' = [market EXCEPT ![m] = [market[m] EXCEPT !.over = TRUE]]
    BY <1>1 DEF Elsewhere
  <2> QED  BY <1>1, <2>1, <2>2, <2>3
<1> QED  BY <1>2, <1>3, IdleSound DEF Elsewhere

LEMMA AnswerSound ==
  ASSUME PageInv, NEW r \in wire, r.status = "asked",
         NEW status \in {"done", "failed"}, NEW n \in Nat, NEW o \in Sides,
         Answer(r, status, n, o), SamePage, UNCHANGED label,
         changes' \in Nat, changes <= changes', n <= changes',
         market' \in [Markets -> MarketRow],
         status = "done" /\ r.kind \notin WriteKinds => n >= acked
  PROVE  PageInv'
<1> DEFINE k0 == [r EXCEPT !.status = status, !.at = n, !.result = o]
<1>1. UNCHANGED <<route, side, page, acked>>
  BY DEF SamePage, SameBrowser
<1>2. /\ acked \in Nat /\ changes \in Nat /\ acked <= changes
      /\ RequestTyped(r) /\ RequestLives(r)
      /\ r.kind \notin WriteKinds => r.deaf = FALSE
      /\ \A k \in wire : RequestTyped(k) /\ RequestLives(k) /\ RequestFresh(k)
  BY DEF PageInv, PageTyped, RequestsGood, RequestLives, RequestTyped
<1>3. /\ RequestTyped(k0) /\ k0.kind = r.kind /\ k0.left = r.left
      /\ k0.deaf = r.deaf /\ k0.status = status /\ k0.at = n
      /\ k0.market = r.market /\ k0.device = r.device
  BY <1>2 DEF RequestTyped, RequestFields
<1>4. wire' = (wire \ {r}) \cup (IF r.deaf THEN {} ELSE {k0})
  BY DEF Answer
<1> HIDE DEF k0
<1>5. /\ \A k \in wire' : \/ k \in wire /\ k # r
                          \/ k = k0 /\ ~r.deaf
      /\ \A k \in wire : k # r => k \in wire'
      /\ r.kind \notin WriteKinds => k0 \in wire'
  BY <1>2, <1>4
<1>6. PageTyped' /\ PageMounted' /\ ReadYourWrites' /\ acked' <= changes'
  BY <1>1, <1>2
  DEF PageInv, PageTyped, PageMounted, ReadYourWrites, Shown, Panels
<1>7. ASSUME NEW k \in wire'
      PROVE  RequestTyped(k) /\ RequestLives(k)' /\ RequestFresh(k)'
  <2>1. CASE k \in wire /\ k # r
    <3>1. k.at \in Nat /\ k.at <= changes'
      BY <1>2, <2>1 DEF RequestFresh, RequestTyped
    <3> QED
      BY <1>1, <1>2, <2>1, <3>1 DEF RequestLives, RequestFresh, Panels
  <2>2. CASE k = k0 /\ ~r.deaf
    <3>1. RequestLives(k)'
      BY <1>1, <1>2, <1>3, <2>2 DEF RequestLives, Panels
    <3>2. RequestFresh(k)'
      BY <1>1, <1>3, <2>2 DEF RequestFresh
    <3> QED  BY <1>3, <2>2, <3>1, <3>2
  <2> QED  BY <1>5, <2>1, <2>2
<1>8. RequestsGood'
  BY <1>7 DEF RequestsGood, RequestTyped
<1>9. DetailsOnce'
  <2>1. "details" \notin WriteKinds
    BY DEF WriteKinds
  <2>2. ASSUME ~page.disturbed
        PROVE  /\ \A j, k \in wire' :
                    j.kind = "details" /\ k.kind = "details" => j = k
               /\ \A k \in wire' : k.kind = "details" => k.market = route
               /\ route # NoMarket /\ (\A k \in wire' : k.kind # "details")
                    => Shown = route
    <3>1. /\ \A j, k \in wire :
               j.kind = "details" /\ k.kind = "details" => j = k
          /\ \A k \in wire : k.kind = "details" => k.market = route
          /\ route # NoMarket /\ (\A k \in wire : k.kind # "details")
               => Shown = route
      BY <2>2 DEF PageInv, DetailsOnce, Of
    <3> QED  BY <1>3, <1>5, <2>1, <3>1
  <2> QED  BY <1>1, <2>2 DEF DetailsOnce, Of, Shown
<1>10. ASSUME NEW d \in Panels
       PROVE  PanelOffers(d)'
  <2>1. "shares" \notin WriteKinds
    BY DEF WriteKinds
  <2>2. \A k \in wire' : \E i \in wire :
          k.kind = i.kind /\ k.device = i.device /\ k.market = i.market
    BY <1>3, <1>5
  <2>3. \A i \in wire : i.kind = "shares" => \E k \in wire' :
          k.kind = i.kind /\ k.device = i.device
    BY <1>3, <1>5, <2>1
  <2>4. /\ \A k \in PanelAwaits(d)' : \E i \in PanelAwaits(d) :
             k.market = i.market
        /\ PanelAwaits(d)' = {} => PanelAwaits(d) = {}
    BY <2>2, <2>3 DEF PanelAwaits, Of
  <2>5. PanelOffers(d)
    BY DEF PageInv
  <2> QED  BY <1>1, <2>4, <2>5 DEF PanelOffers, Shown
<1> QED
  BY <1>1, <1>6, <1>8, <1>9, <1>10 DEF PageInv, Panels, StoredLabels

LEMMA ServeSound ==
  ASSUME PageInv, NEW r \in wire,
         Refuse(r) \/ ServeRead(r) \/ ServeTrade(r) \/ ServeResolve(r)
  PROVE  PageInv'
<1>1. /\ changes \in Nat /\ market \in [Markets -> MarketRow]
      /\ acked \in Nat /\ acked <= changes
      /\ r.market \in Markets /\ r.outcome \in Sides /\ "none" \in Sides
      /\ market[r.market] \in MarketRow
      /\ market[r.market].result \in Sides
  BY DEF PageInv, PageTyped, RequestsGood, RequestTyped, Sides, MarketRow
<1>2. CASE Refuse(r)
  BY <1>1, <1>2, AnswerSound DEF Refuse, SameServer
<1>3. CASE ServeRead(r)
  <2>1. PICK o \in Sides : Answer(r, "done", changes, o)
    BY <1>1, <1>3 DEF ServeRead
  <2> QED  BY <1>1, <1>3, <2>1, AnswerSound DEF ServeRead, SameServer
<1>4. CASE ServeTrade(r)
  <2>1. PICK n \in Nat : n = changes'
    BY <1>1, <1>4 DEF ServeTrade, Change
  <2>2. /\ Answer(r, "done", n, "none") /\ n = changes + 1
        /\ r.kind \in WriteKinds
    BY <1>4, <2>1 DEF ServeTrade, Change, WriteKinds
  <2> QED  BY <1>1, <1>4, <2>1, <2>2, AnswerSound DEF ServeTrade
<1>5. CASE ServeResolve(r)
  <2>1. PICK n \in Nat : n = changes'
    BY <1>1, <1>5 DEF ServeResolve, Change
  <2>2. /\ Answer(r, "done", n, "none") /\ n = changes + 1
        /\ r.kind \in WriteKinds
    BY <1>5, <2>1 DEF ServeResolve, Change, WriteKinds
  <2>3. market' = [market EXCEPT ![r.market] =
                     [market[r.market] EXCEPT !.result = r.outcome]]
    BY <1>1, <1>5 DEF ServeResolve
  <2>4. [market[r.market] EXCEPT !.result = r.outcome] \in MarketRow
    BY <1>1 DEF MarketRow
  <2>5. market' \in [Markets -> MarketRow]
    BY <1>1, <2>3, <2>4
  <2> QED  BY <1>1, <1>5, <2>1, <2>2, <2>5, AnswerSound DEF ServeResolve
<1> QED  BY <1>2, <1>3, <1>4, <1>5

-----------------------------------------------------------------------------
(* Steps of the mounted page *)

(* Neither the market shown nor its details change; D are the panels then. *)
LEMMA EditedSound ==
  ASSUME PageInv, UNCHANGED <<route, changes, market, label, acked>>,
         side' \in Sides, NEW D \in SUBSET Devices, page' \in View(D),
         page'.details = page.details,
         page'.disturbed = page.disturbed \/ page'.disturbed = TRUE,
         D # {} => Shown # NoMarket, Shown # NoMarket => "desktop" \in D,
         \A k \in wire' :
           /\ k.kind = "shares" => k.device \in D
           /\ \/ k \in wire
              \/ /\ k.kind # "details" /\ New(k, k.kind)
                 /\ route # NoMarket,
         page'.disturbed = FALSE =>
           \A k \in wire : k.kind = "details" => k \in wire',
         \A d \in D : PanelOffers(d)',
         \A d \in D : page'.panels[d].shares.at # 0 =>
                        page'.panels[d].shares.at >= acked
  PROVE  PageInv'
<1>1. /\ Panels' = D /\ Shown' = Shown /\ page.disturbed \in BOOLEAN
      /\ page'.disturbed \in BOOLEAN /\ changes \in Nat
  BY DEF PageInv, PageTyped, View, Panels, Shown
<1>2. PageTyped' /\ PageMounted'
  BY <1>1 DEF PageInv, PageTyped, PageMounted
<1>3. ASSUME NEW k \in wire'
      PROVE  RequestTyped(k) /\ RequestLives(k)' /\ RequestFresh(k)'
  <2>1. CASE k \in wire
    BY <1>1, <2>1
    DEF PageInv, RequestsGood, RequestLives, RequestFresh
  <2>2. CASE k.kind # "details" /\ New(k, k.kind) /\ route # NoMarket
    BY <1>1, <2>2 DEF New, RequestLives, RequestFresh
  <2> QED  BY <2>1, <2>2
<1>4. RequestsGood'
  BY <1>3 DEF RequestsGood, RequestTyped
<1>5. ASSUME page'.disturbed = FALSE
      PROVE  /\ page.disturbed = FALSE
             /\ Of("details")' = Of("details")
  BY <1>1, <1>5 DEF Of
<1>6. DetailsOnce'
  BY <1>1, <1>5 DEF PageInv, DetailsOnce
<1>7. ReadYourWrites'
  BY <1>1 DEF PageInv, ReadYourWrites, Shown
<1> QED
  BY <1>1, <1>2, <1>4, <1>6, <1>7 DEF PageInv, StoredLabels

(* On a page with panels, the flag of the closing time is read again.      *)
LEMMA LateRead ==
  ASSUME PageInv, NEW m \in Markets
  PROVE  market[m].over \in BOOLEAN
BY DEF PageInv, PageTyped, MarketRow

LEMMA PageFacts ==
  ASSUME PageInv
  PROVE  /\ page \in View(Panels) /\ Panels \in SUBSET Devices
         /\ page.panels \in [Panels -> TradePanel]
         /\ Shown \in Markets \cup {NoMarket} /\ side \in Sides
         /\ page.disturbed \in BOOLEAN
         /\ Panels # {} => Shown # NoMarket
         /\ Shown # NoMarket => route # NoMarket /\ "desktop" \in Panels
BY DEF PageInv, PageTyped, PageMounted, View, Panels, Shown, Details

(* One panel changes, and its requests.                                    *)
LEMMA PanelSound ==
  ASSUME PageInv, NEW d \in Panels, NEW panel \in TradePanel,
         UNCHANGED <<route, side, changes, market, label, acked>>,
         page' = [page EXCEPT !.panels[d] = panel,
                              !.late = market[Shown].over],
         \A k \in wire' :
           \/ k \in wire
           \/ /\ k.kind # "details" /\ New(k, k.kind)
              /\ k.kind = "shares" => k.device = d,
         \A k \in wire :
           k.kind # "shares" \/ k.device # d => k \in wire',
         ~panel.mixed =>
           /\ \A r \in PanelAwaits(d)' : r.market = Shown
           /\ panel.mode = "sell" /\ PanelAwaits(d)' = {} =>
                panel.shares.market \in {Shown, NoMarket},
         panel.shares.at # 0 => panel.shares.at >= acked
  PROVE  PageInv'
<1> DEFINE p == [page.panels EXCEPT ![d] = panel]
<1>1. /\ page \in View(Panels) /\ Panels \in SUBSET Devices
      /\ page.panels \in [Panels -> TradePanel]
      /\ Shown \in Markets /\ side \in Sides /\ Shown # NoMarket
      /\ route # NoMarket /\ "desktop" \in Panels
  BY PageFacts
<1>2. market[Shown].over \in BOOLEAN
  BY <1>1, LateRead
<1>3. p \in [Panels -> TradePanel] /\ p[d] = panel
      /\ \A e \in Panels : e # d => p[e] = page.panels[e]
  BY <1>1
<1>4. page' = [page EXCEPT !.panels = p, !.late = market[Shown].over]
  OBVIOUS
<1> HIDE DEF p
<1>5. page' \in View(Panels)
  BY <1>1, <1>2, <1>3, <1>4 DEF View
<1>6. /\ page'.panels = p /\ page'.details = page.details
      /\ page'.disturbed = page.disturbed
  BY <1>1, <1>4 DEF View
<1>7. ASSUME NEW k \in wire'
      PROVE  /\ k.kind = "shares" => k.device \in Panels
             /\ \/ k \in wire
                \/ /\ k.kind # "details" /\ New(k, k.kind)
                   /\ route # NoMarket
  BY <1>1 DEF PageInv, RequestsGood, RequestLives
<1>8. ASSUME NEW e \in Panels
      PROVE  /\ PanelOffers(e)'
             /\ page'.panels[e].shares.at # 0 =>
                  page'.panels[e].shares.at >= acked
  <2>1. CASE e = d
    <3>1. page'.panels[e] = panel /\ Shown' = Shown
      BY <1>3, <1>6, <2>1 DEF Shown
    <3> QED  BY <2>1, <3>1 DEF PanelOffers
  <2>2. CASE e # d
    <3>1. page'.panels[e] = page.panels[e] /\ Shown' = Shown
      BY <1>3, <1>6, <2>2 DEF Shown
    <3>2. PanelAwaits(e)' = PanelAwaits(e)
      BY <2>2 DEF PanelAwaits, Of
    <3> QED
      BY <3>1, <3>2 DEF PageInv, PanelOffers, ReadYourWrites
  <2> QED  BY <2>1, <2>2
<1>9. \A k \in wire : k.kind = "details" => k \in wire'
  OBVIOUS
<1> QED
  BY <1>1, <1>5, <1>6, <1>7, <1>8, <1>9, EditedSound

(* What is known of a panel before it changes.                             *)
LEMMA PanelFacts ==
  ASSUME PageInv, NEW d \in Panels
  PROVE  /\ page.panels[d] \in TradePanel
         /\ page.panels[d].mixed \in BOOLEAN
         /\ ~page.panels[d].mixed =>
              /\ \A r \in PanelAwaits(d) : r.market = Shown
              /\ page.panels[d].mode = "sell" /\ PanelAwaits(d) = {} =>
                   page.panels[d].shares.market \in {Shown, NoMarket}
         /\ page.panels[d].shares.at # 0 => page.panels[d].shares.at >= acked
BY PageFacts DEF PageInv, PanelOffers, ReadYourWrites, TradePanel

LEMMA EditSound ==
  ASSUME PageInv, NEW d \in Devices,
         \/ \E o \in Outcomes : SelectOutcome(d, o)
         \/ \E some \in BOOLEAN : SetAmount(d, some)
  PROVE  PageInv'
<1>1. PICK panel \in TradePanel :
        /\ Edit(d, panel) /\ d \in Panels
        /\ panel.mode = page.panels[d].mode
        /\ panel.mixed = page.panels[d].mixed
        /\ panel.shares = page.panels[d].shares
  <2>1. d \in Panels
    BY DEF SelectOutcome, SetAmount, CanTrade
  <2>2. page.panels[d] \in TradePanel
    BY <2>1, PanelFacts
  <2>3. ASSUME NEW o \in Sides
        PROVE  LET q == [page.panels[d] EXCEPT !.outcome = o]
               IN  /\ q \in TradePanel /\ q.mode = page.panels[d].mode
                   /\ q.mixed = page.panels[d].mixed
                   /\ q.shares = page.panels[d].shares
    BY <2>2 DEF TradePanel
  <2>4. ASSUME NEW some \in BOOLEAN
        PROVE  LET q == [page.panels[d] EXCEPT !.filled = some]
               IN  /\ q \in TradePanel /\ q.mode = page.panels[d].mode
                   /\ q.mixed = page.panels[d].mixed
                   /\ q.shares = page.panels[d].shares
    BY <2>2 DEF TradePanel
  <2>5. ASSUME NEW o \in Outcomes, SelectOutcome(d, o)
        PROVE  \E q \in TradePanel :
                 /\ Edit(d, q) /\ q.mode = page.panels[d].mode
                 /\ q.mixed = page.panels[d].mixed
                 /\ q.shares = page.panels[d].shares
    <3>1. o \in Sides
      BY DEF Sides
    <3> QED  BY <2>3, <2>5, <3>1 DEF SelectOutcome
  <2>6. ASSUME NEW some \in BOOLEAN, SetAmount(d, some)
        PROVE  \E q \in TradePanel :
                 /\ Edit(d, q) /\ q.mode = page.panels[d].mode
                 /\ q.mixed = page.panels[d].mixed
                 /\ q.shares = page.panels[d].shares
    BY <2>4, <2>6 DEF SetAmount
  <2> QED  BY <2>1, <2>5, <2>6
<1>2. /\ UNCHANGED <<route, side, changes, market, label, acked, wire>>
      /\ page' = [page EXCEPT !.panels[d] = panel,
                              !.late = market[Shown].over]
  BY <1>1 DEF Edit, SameServer, SameBrowser, SelectOutcome, SetAmount
<1>3. PanelAwaits(d)' = PanelAwaits(d)
  BY <1>2 DEF PanelAwaits, Of
<1>4. ~panel.mixed =>
        /\ \A r \in PanelAwaits(d)' : r.market = Shown
        /\ panel.mode = "sell" /\ PanelAwaits(d)' = {} =>
             panel.shares.market \in {Shown, NoMarket}
  BY <1>1, <1>3, PanelFacts
<1>5. panel.shares.at # 0 => panel.shares.at >= acked
  BY <1>1, PanelFacts
<1>6. d \in Panels
  BY <1>1
<1>7. wire' = wire
  BY <1>2
<1> QED  BY <1>2, <1>4, <1>5, <1>6, <1>7, PanelSound

(* Selling asks for the shares; while earlier ones are awaited, mixed.     *)
LEMMA SetModeSound ==
  ASSUME PageInv, NEW d \in Devices, NEW mode \in {"buy", "sell"},
         SetMode(d, mode)
  PROVE  PageInv'
<1> DEFINE old == page.panels[d]
           mix == old.mixed \/ (mode = "sell" /\ PanelAwaits(d) # {})
           panel == [old EXCEPT !.mode = mode, !.mixed = mix]
           new == Ask("shares", d, Shown, "none", wire)
<1>1. /\ d \in Panels /\ Shown \in Markets /\ old \in TradePanel
      /\ old.mixed \in BOOLEAN
  BY PageFacts, PanelFacts DEF SetMode, CanTrade
<1>2. mix \in BOOLEAN
  OBVIOUS
<1>3. /\ panel \in TradePanel /\ panel.mixed = mix /\ panel.mode = mode
      /\ panel.shares = old.shares
  BY <1>1, <1>2 DEF TradePanel
<1>4. PanelAwaits(d) # {} <=> \E r \in Of("shares") : r.device = d
  BY DEF PanelAwaits
<1>5. panel = [old EXCEPT !.mode = mode,
                 !.mixed = @ \/ (/\ mode = "sell"
                                 /\ \E r \in Of("shares") : r.device = d)]
  BY <1>4
<1>6. /\ UNCHANGED <<route, side, changes, market, label, acked>>
      /\ page' = [page EXCEPT !.panels[d] = panel,
                              !.late = market[Shown].over]
      /\ IF mode = "sell" THEN wire' = wire \cup {new} ELSE wire' = wire
  BY <1>5 DEF SetMode, Edit, SameServer, SameBrowser
<1>7. New(new, "shares") /\ new.device = d /\ new.market = Shown
  BY <1>1, Asked DEF Sides
<1>8. new.kind = "shares"
  BY <1>7 DEF New
<1> HIDE DEF panel, new
<1>9. ASSUME ~mix
      PROVE  /\ \A r \in PanelAwaits(d)' : r.market = Shown
             /\ mode = "sell" /\ PanelAwaits(d)' = {} =>
                  old.shares.market \in {Shown, NoMarket}
  <2>1. CASE mode = "sell"
    <3>1. PanelAwaits(d) = {} /\ wire' = wire \cup {new}
      BY <1>6, <1>9, <2>1
    <3>2. PanelAwaits(d)' = {new}
      BY <1>7, <1>8, <3>1 DEF PanelAwaits, Of
    <3> QED  BY <1>7, <3>2
  <2>2. CASE mode # "sell"
    <3>1. PanelAwaits(d)' = PanelAwaits(d)
      BY <1>6, <2>2 DEF PanelAwaits, Of
    <3> QED  BY <1>1, <1>9, <2>2, <3>1, PanelFacts
  <2> QED  BY <2>1, <2>2
<1>10. ~panel.mixed =>
         /\ \A r \in PanelAwaits(d)' : r.market = Shown
         /\ panel.mode = "sell" /\ PanelAwaits(d)' = {} =>
              panel.shares.market \in {Shown, NoMarket}
  BY <1>3, <1>9
<1>11. panel.shares.at # 0 => panel.shares.at >= acked
  BY <1>1, <1>3, PanelFacts
<1>12. /\ \A k \in wire' :
            \/ k \in wire
            \/ /\ k.kind # "details" /\ New(k, k.kind)
               /\ k.kind = "shares" => k.device = d
       /\ \A k \in wire : k \in wire'
  BY <1>6, <1>7, <1>8
<1> HIDE DEF mix, old
<1> QED
  BY <1>1, <1>3, <1>6, <1>10, <1>11, <1>12, PanelSound

(* Details and panels stay as they are; a write is sent or ends, or an     *)
(* answer with details fails.                                              *)
LEMMA KeptSound ==
  ASSUME PageInv, UNCHANGED <<route, side, changes, market, label, acked>>,
         page' \in View(Panels), page'.details = page.details,
         page'.panels = page.panels,
         page'.disturbed = page.disturbed \/ page'.disturbed = TRUE,
         \A k \in wire' :
           \/ k \in wire
           \/ k.kind \in WriteKinds /\ New(k, k.kind) /\ route # NoMarket,
         \A k \in wire : k.kind = "shares" => k \in wire',
         page'.disturbed = FALSE =>
           \A k \in wire : k.kind = "details" => k \in wire'
  PROVE  PageInv'
<1>1. /\ Panels \in SUBSET Devices /\ side' \in Sides
      /\ Panels # {} => Shown # NoMarket
      /\ Shown # NoMarket => "desktop" \in Panels
  BY PageFacts
<1>2. ASSUME NEW k \in wire'
      PROVE  /\ k.kind = "shares" => k.device \in Panels
             /\ \/ k \in wire
                \/ /\ k.kind # "details" /\ New(k, k.kind)
                   /\ route # NoMarket
  BY DEF PageInv, RequestsGood, RequestLives, WriteKinds
<1>3. ASSUME NEW d \in Panels
      PROVE  /\ PanelOffers(d)'
             /\ page'.panels[d].shares.at # 0 =>
                  page'.panels[d].shares.at >= acked
  <2>1. PanelAwaits(d)' = PanelAwaits(d) /\ Shown' = Shown
    BY DEF PanelAwaits, Of, Shown, WriteKinds
  <2> QED  BY <2>1 DEF PageInv, PanelOffers, ReadYourWrites
<1> QED  BY <1>1, <1>2, <1>3, EditedSound

LEMMA TradeSound ==
  ASSUME PageInv, NEW d \in Devices, Trade(d)
  PROVE  PageInv'
<1> DEFINE o == page.panels[d].outcome
<1>1. /\ d \in Panels /\ Shown \in Markets /\ o \in Sides
      /\ route # NoMarket /\ page \in View(Panels)
  BY PageFacts DEF Trade, CanTrade, TradePanel
<1>2. PICK new : /\ wire' = wire \cup {new} /\ New(new, new.kind)
                 /\ new.kind \in WriteKinds
  <2>1. /\ New(SubmitBet(d), "bet") /\ New(SubmitSale(d), "sale")
        /\ SubmitBet(d).kind = "bet" /\ SubmitSale(d).kind = "sale"
    <3>1. New(SubmitBet(d), "bet") /\ New(SubmitSale(d), "sale")
      BY <1>1, Asked DEF SubmitBet, SubmitSale, WriteKinds
    <3> QED  BY <3>1 DEF New
  <2>2. \/ wire' = wire \cup {SubmitBet(d)}
        \/ wire' = wire \cup {SubmitSale(d)}
    BY DEF Trade
  <2> QED  BY <2>1, <2>2 DEF WriteKinds
<1>3. UNCHANGED <<route, side, changes, market, label, acked, page>>
  BY DEF Trade, SameServer, SameBrowser
<1>4. page.disturbed \in BOOLEAN
  BY PageFacts
<1> QED  BY <1>1, <1>2, <1>3, <1>4, KeptSound

LEMMA DialogSound ==
  ASSUME PageInv,
         ToggleDialog \/ Confirm \/ \E o \in Outcomes : SelectResolution(o)
  PROVE  PageInv'
<1>1. /\ Shown \in Markets /\ route # NoMarket /\ page \in View(Panels)
      /\ page.dialog \in [open : BOOLEAN, choice : Sides]
  <2>1. Shown \in Own
    BY DEF ToggleDialog, Confirm, SelectResolution, MayResolve
  <2>2. Shown \in Markets /\ Shown # NoMarket
    BY <2>1, MarketPageAssumption
  <2> QED  BY <2>2, PageFacts DEF View
<1>2. UNCHANGED <<route, side, changes, market, label, acked>>
  BY DEF ToggleDialog, Confirm, SelectResolution, SameServer, SameBrowser
<1>3. /\ page' \in View(Panels) /\ page'.details = page.details
      /\ page'.panels = page.panels /\ page'.disturbed = page.disturbed
  <2>1. ASSUME NEW w \in [open : BOOLEAN, choice : Sides]
        PROVE  LET v == [page EXCEPT !.dialog = w]
               IN  /\ v \in View(Panels) /\ v.details = page.details
                   /\ v.panels = page.panels
                   /\ v.disturbed = page.disturbed
    BY <1>1 DEF View
  <2>2. \E w \in [open : BOOLEAN, choice : Sides] :
          page' = [page EXCEPT !.dialog = w]
    <3>1. /\ [page.dialog EXCEPT !.open = ~page.dialog.open]
               \in [open : BOOLEAN, choice : Sides]
          /\ [page.dialog EXCEPT !.open = FALSE]
               \in [open : BOOLEAN, choice : Sides]
      BY <1>1
    <3>2. \A o \in Outcomes : [page.dialog EXCEPT !.choice = o]
                                \in [open : BOOLEAN, choice : Sides]
      BY <1>1 DEF Sides
    <3> QED
      BY <1>1, <3>1, <3>2 DEF ToggleDialog, Confirm, SelectResolution
  <2> QED  BY <2>1, <2>2
<1>4. \/ wire' = wire
      \/ \E new : /\ wire' = wire \cup {new} /\ New(new, new.kind)
                  /\ new.kind \in WriteKinds
  <2>1. CASE Confirm
    <3> DEFINE new == ResolveMarket(page.dialog.choice)
    <3>1. page.dialog.choice \in Sides
      BY <1>1
    <3>2. New(new, "resolve")
      BY <1>1, <3>1, Asked DEF ResolveMarket, WriteKinds
    <3>3. new.kind = "resolve"
      BY <3>2 DEF New
    <3>4. wire' = wire \cup {new}
      BY <2>1 DEF Confirm
    <3> HIDE DEF new
    <3> QED  BY <3>2, <3>3, <3>4 DEF WriteKinds
  <2> QED  BY <2>1 DEF ToggleDialog, SelectResolution
<1>5. page.disturbed \in BOOLEAN
  BY PageFacts
<1> QED  BY <1>1, <1>2, <1>3, <1>4, <1>5, KeptSound

(* The panel of small screens comes and goes.                              *)
LEMMA TradeModalSound ==
  ASSUME PageInv, OpenTradeModal \/ CloseTradeModal
  PROVE  PageInv'
<1> DEFINE late == market[Shown].over
<1>1. /\ page \in View(Panels) /\ Panels \in SUBSET Devices
      /\ page.panels \in [Panels -> TradePanel] /\ side \in Sides
      /\ Shown \in Markets /\ Shown # NoMarket /\ route # NoMarket
      /\ page.disturbed \in BOOLEAN /\ "desktop" \in Panels
  BY PageFacts DEF OpenTradeModal, CloseTradeModal, ShowsTradeButtons
<1>2. late \in BOOLEAN
  BY <1>1, LateRead
<1>3. /\ side' \in Sides
      /\ UNCHANGED <<route, changes, market, label, acked>>
  BY <1>1 DEF OpenTradeModal, CloseTradeModal, SideEffect, SameServer, Sides
<1> HIDE DEF late
<1>4. CASE OpenTradeModal
  <2> DEFINE q == [d \in Devices |-> IF d = "mobile" THEN NewPanel
                                     ELSE page.panels[d]]
  <2>1. /\ "mobile" \notin Panels /\ wire' = wire
        /\ page' = [page EXCEPT !.late = late, !.panels = q]
    BY <1>4 DEF OpenTradeModal, late
  <2>3. NewPanel \in TradePanel /\ NewPanel.mode = "buy"
        /\ NewPanel.shares.at = 0
    BY <1>1 DEF NewPanel, TradePanel, NoShares, Shares
  <2>4. q \in [Devices -> TradePanel] /\ q["mobile"] = NewPanel
        /\ \A d \in Panels : q[d] = page.panels[d]
    BY <1>1, <2>1, <2>3 DEF Devices
  <2> HIDE DEF q
  <2>5. /\ page' \in View(Devices) /\ page'.panels = q
        /\ page'.details = page.details /\ page'.disturbed = page.disturbed
    BY <1>1, <1>2, <2>1, <2>4 DEF View
  <2>6. \A k \in wire : k.kind = "shares" => k.device \in Panels
    BY DEF PageInv, RequestsGood, RequestLives
  <2>7. ASSUME NEW d \in Devices
        PROVE  /\ PanelOffers(d)'
               /\ page'.panels[d].shares.at # 0 =>
                    page'.panels[d].shares.at >= acked
    <3>1. PanelAwaits(d)' = PanelAwaits(d) /\ Shown' = Shown
      BY <2>1, <2>5 DEF PanelAwaits, Of, Shown
    <3>2. CASE d \in Panels
      BY <2>4, <2>5, <3>1, <3>2 DEF PageInv, PanelOffers, ReadYourWrites
    <3>3. CASE d \notin Panels
      <4>1. d = "mobile" /\ PanelAwaits(d)' = {}
        BY <1>1, <2>1, <2>6, <3>1, <3>3 DEF Devices, PanelAwaits, Of
      <4> QED  BY <2>3, <2>4, <2>5, <4>1 DEF PanelOffers
    <3> QED  BY <3>2, <3>3
  <2>8. \A k \in wire' : (k.kind = "shares" => k.device \in Devices)
                         /\ k \in wire
    BY <1>1, <2>1, <2>6
  <2> QED
    BY <1>1, <1>3, <2>1, <2>5, <2>7, <2>8, EditedSound
<1>5. CASE CloseTradeModal
  <2> DEFINE D == {"desktop"}
             q == [d \in D |-> page.panels[d]]
  <2>1. /\ wire' = {r \in wire : r.device # "mobile" \/ r \in Writes}
        /\ page' = [page EXCEPT !.late = late, !.panels = q]
    BY <1>5 DEF CloseTradeModal, late
  <2>2. /\ D \in SUBSET Devices /\ D \in SUBSET Panels
        /\ q \in [D -> TradePanel] /\ \A d \in D : q[d] = page.panels[d]
    BY <1>1 DEF Devices
  <2>3. D # {} /\ "desktop" \in D /\ \A d \in D : d # "mobile"
    OBVIOUS
  <2>4. \A d \in Panels : d # "mobile" => d \in D
    BY <1>1 DEF Devices
  <2> HIDE DEF q, D
  <2>5. /\ page' \in View(D) /\ page'.panels = q
        /\ page'.details = page.details /\ page'.disturbed = page.disturbed
    BY <1>1, <1>2, <2>1, <2>2 DEF View
  <2>6. ASSUME NEW k \in wire'
        PROVE  k \in wire /\ (k.kind = "shares" => k.device \in D)
    <3>1. k \in wire /\ (k.device # "mobile" \/ k.kind \in WriteKinds)
      BY <2>1, Kinds
    <3>2. k.kind = "shares" => k.device \in Panels
      BY <3>1 DEF PageInv, RequestsGood, RequestLives
    <3> QED  BY <2>4, <3>1, <3>2 DEF WriteKinds
  <2>7. \A k \in wire : k.kind = "details" => k \in wire'
    BY <2>1 DEF PageInv, RequestsGood, RequestTyped
  <2>8. ASSUME NEW d \in D
        PROVE  /\ PanelOffers(d)'
               /\ page'.panels[d].shares.at # 0 =>
                    page'.panels[d].shares.at >= acked
    <3>1. PanelAwaits(d)' = PanelAwaits(d) /\ Shown' = Shown
      BY <2>1, <2>3, <2>5 DEF PanelAwaits, Of, Shown
    <3> QED
      BY <2>2, <2>5, <3>1 DEF PageInv, PanelOffers, ReadYourWrites
  <2> QED
    BY <1>1, <1>3, <2>2, <2>3, <2>5, <2>6, <2>7, <2>8, EditedSound
<1> QED  BY <1>4, <1>5

-----------------------------------------------------------------------------
(* Steps that ask for the details again, and their arrival *)

(* The page stays mounted and asks for the details of m.                   *)
LEMMA RefetchSound ==
  ASSUME PageInv, NEW m \in Markets, NEW w, side' \in Sides, route' = m,
         UNCHANGED <<changes, market, label, acked>>,
         page' \in View(Panels), page'.details = page.details,
         page'.panels = page.panels,
         page'.disturbed = (page.disturbed \/ Of("details") # {}),
         NEW rest \in SUBSET wire, wire' = rest \cup {AskDetails(m, w)},
         \A k \in wire : k.kind \notin WriteKinds => k \in rest
  PROVE  PageInv'
<1> DEFINE new == AskDetails(m, w)
<1>1. New(new, "details") /\ new.market = m
  BY AskedDetails
<1>2. new.kind = "details" /\ m # NoMarket
  BY <1>1, MarketPageAssumption DEF New
<1>3. wire' = rest \cup {new}
  OBVIOUS
<1> HIDE DEF new
<1>4. /\ Panels' = Panels /\ Shown' = Shown /\ page.disturbed \in BOOLEAN
      /\ changes \in Nat
  BY PageFacts DEF PageInv, PageTyped, Panels, Shown
<1>5. PageTyped' /\ PageMounted' /\ ReadYourWrites'
  BY <1>2, <1>4
  DEF PageInv, PageTyped, PageMounted, ReadYourWrites, Shown
<1>6. ASSUME NEW k \in wire'
      PROVE  RequestTyped(k) /\ RequestLives(k)' /\ RequestFresh(k)'
  <2>1. CASE k \in wire
    BY <1>2, <1>4, <2>1
    DEF PageInv, RequestsGood, RequestLives, RequestFresh
  <2>2. CASE k = new
    BY <1>1, <1>2, <1>4, <2>2 DEF New, RequestLives, RequestFresh
  <2> QED  BY <1>3, <2>1, <2>2
<1>7. RequestsGood'
  BY <1>6 DEF RequestsGood, RequestTyped
<1>8. DetailsOnce'
  <2>1. ASSUME page'.disturbed = FALSE
        PROVE  Of("details")' = {new}
    <3>1. Of("details") = {}
      BY <2>1
    <3> QED  BY <1>2, <1>3, <3>1 DEF Of
  <2> QED  BY <1>1, <1>4, <2>1 DEF DetailsOnce
<1>9. ASSUME NEW d \in Panels
      PROVE  PanelOffers(d)'
  <2>1. PanelAwaits(d)' = PanelAwaits(d)
    BY <1>2, <1>3 DEF PanelAwaits, Of, WriteKinds
  <2> QED  BY <1>4, <2>1 DEF PageInv, PanelOffers
<1> QED
  BY <1>4, <1>5, <1>7, <1>8, <1>9 DEF PageInv, StoredLabels

LEMMA FollowLinkSound ==
  ASSUME PageInv, NEW m \in Markets, FollowLink(m)
  PROVE  PageInv'
<1>1. /\ route' = m /\ side' \in Sides
      /\ UNCHANGED <<changes, market, label, acked>>
      /\ wire' = wire \cup {AskDetails(m, wire)}
      /\ page' = [page EXCEPT !.disturbed =
                    page.disturbed \/ Of("details") # {}]
  BY DEF FollowLink, SameServer, Sides
<1>2. /\ page' \in View(Panels) /\ page'.details = page.details
      /\ page'.panels = page.panels
      /\ page'.disturbed = (page.disturbed \/ Of("details") # {})
  BY <1>1, PageFacts DEF View
<1>3. PICK rest \in SUBSET wire : rest = wire
  OBVIOUS
<1> QED  BY <1>1, <1>2, <1>3, RefetchSound

LEMMA ResolveDoneSound ==
  ASSUME PageInv, NEW r \in wire, ResolveDone(r), SameServer,
         r.kind = "resolve", r.status = "done"
  PROVE  PageInv'
<1>1. /\ RequestTyped(r) /\ RequestLives(r) /\ r.market \in Markets
      /\ r.deaf = FALSE /\ r.left \in BOOLEAN
  BY DEF PageInv, RequestsGood, RequestTyped, RequestLives
<1>2. /\ UNCHANGED <<route, side, changes, market, label, acked>>
      /\ wire' = (wire \ {r}) \cup
                 (IF r.left THEN {} ELSE {AskDetails(route, wire)})
      /\ page' = [page EXCEPT
                    !.told = IF r.left THEN page.told ELSE r.market,
                    !.disturbed = page.disturbed \/
                                  (~r.left /\ Of("details") # {})]
  BY DEF ResolveDone, SameServer, SameBrowser
<1>3. /\ page' \in View(Panels) /\ page'.details = page.details
      /\ page'.panels = page.panels
      /\ page'.disturbed = (page.disturbed \/
                             (~r.left /\ Of("details") # {}))
  BY <1>1, <1>2, PageFacts DEF View
<1>4. \A k \in wire : k.kind \notin WriteKinds => k \in wire \ {r}
  BY DEF WriteKinds
<1>5. CASE r.left
  <2>1. wire' = wire \ {r}
    BY <1>2, <1>5
  <2>2. page'.disturbed = page.disturbed
    BY <1>3, <1>5, PageFacts
  <2>3. /\ \A k \in wire' : k \in wire
        /\ \A k \in wire : k.kind = "shares" => k \in wire'
        /\ \A k \in wire : k.kind = "details" => k \in wire'
    BY <2>1
  <2> QED  BY <1>2, <1>3, <2>2, <2>3, KeptSound
<1>6. CASE ~r.left
  <2>1. route # NoMarket
    BY <1>1, <1>6 DEF RequestLives
  <2>2. PICK m \in Markets : m = route
    BY <2>1 DEF PageInv, PageTyped
  <2>3. PICK rest \in SUBSET wire : rest = wire \ {r}
    OBVIOUS
  <2>4. PICK w : w = wire
    OBVIOUS
  <2>5. wire' = rest \cup {AskDetails(m, w)}
    BY <1>2, <1>6, <2>2, <2>3, <2>4
  <2>6. page'.disturbed = (page.disturbed \/ Of("details") # {})
    BY <1>3, <1>6
  <2>7. route' = m /\ side' \in Sides
    BY <1>2, <2>2, PageFacts
  <2>8. \A k \in wire : k.kind \notin WriteKinds => k \in rest
    BY <1>4, <2>3
  <2> QED  BY <1>2, <1>3, <2>5, <2>6, <2>7, <2>8, RefetchSound
<1> QED  BY <1>1, <1>5, <1>6

(* An answer that changes nothing on the page, or only its history.        *)
LEMMA ForgottenSound ==
  ASSUME PageInv, NEW r \in wire, SameServer,
         \/ Heard(r) /\ r.kind \in WriteKinds
         \/ LoseDetails(r) /\ r.kind = "details"
  PROVE  PageInv'
<1>1. /\ UNCHANGED <<route, side, changes, market, label, acked>>
      /\ wire' = wire \ {r}
  BY DEF Heard, LoseDetails, SameServer, SameBrowser
<1>2. page \in View(Panels) /\ page.disturbed \in BOOLEAN
  BY PageFacts
<1>3. /\ page' \in View(Panels) /\ page'.details = page.details
      /\ page'.panels = page.panels
      /\ \/ page'.disturbed = page.disturbed /\ r.kind \in WriteKinds
         \/ page'.disturbed = TRUE /\ r.kind = "details"
  <2>1. CASE Heard(r) /\ r.kind \in WriteKinds
    BY <1>2, <2>1 DEF Heard
  <2>2. CASE LoseDetails(r) /\ r.kind = "details"
    BY <1>2, <2>2 DEF LoseDetails, View
  <2> QED  BY <2>1, <2>2
<1>4. /\ \A k \in wire' : k \in wire
      /\ \A k \in wire : k.kind = "shares" => k \in wire'
      /\ page'.disturbed = FALSE =>
           \A k \in wire : k.kind = "details" => k \in wire'
  BY <1>1, <1>3 DEF WriteKinds
<1>5. page'.disturbed = page.disturbed \/ page'.disturbed = TRUE
  BY <1>3
<1> QED  BY <1>1, <1>3, <1>4, <1>5, KeptSound

LEMMA SharesArriveSound ==
  ASSUME PageInv, NEW r \in wire, r.kind = "shares", NEW shares \in Shares,
         SharesArrive(r, shares), SameServer,
         shares.market \in {r.market, NoMarket},
         shares.at # 0 => shares.at >= acked
  PROVE  PageInv'
<1> DEFINE d == r.device
           old == page.panels[d]
           panel == [old EXCEPT !.shares = shares]
<1>1. /\ d \in Panels /\ old \in TradePanel
      /\ page.panels \in [Panels -> TradePanel]
  BY PageFacts, PanelFacts DEF PageInv, RequestsGood, RequestLives
<1>2. /\ panel \in TradePanel /\ panel.shares = shares
      /\ panel.mixed = old.mixed /\ panel.mode = old.mode
  BY <1>1 DEF TradePanel
<1>3. /\ UNCHANGED <<route, side, changes, market, label, acked>>
      /\ wire' = wire \ {r}
  BY DEF SharesArrive, SameServer, SameBrowser
<1>4. page' = [page EXCEPT !.panels[d] = panel,
                           !.late = market[Shown].over]
  BY <1>1 DEF SharesArrive
<1>5. PanelAwaits(d)' = PanelAwaits(d) \ {r} /\ r \in PanelAwaits(d)
  BY <1>3 DEF PanelAwaits, Of
<1> HIDE DEF panel
<1>6. ~panel.mixed =>
        /\ \A k \in PanelAwaits(d)' : k.market = Shown
        /\ panel.mode = "sell" /\ PanelAwaits(d)' = {} =>
             panel.shares.market \in {Shown, NoMarket}
  BY <1>1, <1>2, <1>5, PanelFacts
<1>7. /\ \A k \in wire' : k \in wire
      /\ \A k \in wire : k.kind # "shares" \/ k.device # d => k \in wire'
  BY <1>3
<1>8. panel.shares.at # 0 => panel.shares.at >= acked
  BY <1>2
<1> HIDE DEF old, d
<1> QED  BY <1>1, <1>2, <1>3, <1>4, <1>6, <1>7, <1>8, PanelSound

(* What a panel that sells asks for when the market of the page changes.   *)
LEMMA SharesAsked ==
  ASSUME PageInv, NEW r, r.market \in Markets
  PROVE  /\ \A k \in SharesRequests(r) :
              /\ New(k, "shares") /\ k.kind = "shares"
              /\ k.device \in Panels /\ k.market = r.market
         /\ Shown = r.market => SharesRequests(r) = {}
         /\ \A d \in Panels :
              page.panels[d].mode = "sell" /\ Shown # r.market =>
                \E k \in SharesRequests(r) : k.device = d
<1>1. \A d : LET k == Ask("shares", d, r.market, "none", wire)
             IN  New(k, "shares") /\ k.device = d /\ k.market = r.market
  BY Asked DEF Sides
<1>2. \A k : New(k, "shares") => k.kind = "shares"
  BY DEF New
<1>3. ASSUME NEW k \in SharesRequests(r)
      PROVE  /\ New(k, "shares") /\ k.kind = "shares"
             /\ k.device \in Panels /\ k.market = r.market
  BY <1>1, <1>2 DEF SharesRequests
<1>4. Shown = r.market => SharesRequests(r) = {}
  BY DEF SharesRequests
<1>5. ASSUME NEW d \in Panels, page.panels[d].mode = "sell",
             Shown # r.market
      PROVE  \E k \in SharesRequests(r) : k.device = d
  <2>1. Ask("shares", d, r.market, "none", wire) \in SharesRequests(r)
    BY <1>5 DEF SharesRequests
  <2> QED  BY <1>1, <2>1
<1> QED  BY <1>3, <1>4, <1>5

(* The details arrive; D and q are the panels then.                        *)
LEMMA DetailsSound ==
  ASSUME PageInv, NEW r \in wire, r.kind = "details", r.status = "done",
         GetDetails(r), SameServer
  PROVE  PageInv'
<1> DEFINE mounts == Shown = NoMarket
           D == IF mounts THEN {"desktop"} ELSE Panels
           late == market[r.market].over
           details == [market |-> r.market, at |-> r.at, result |-> r.result]
           dialog == IF r.result = "none" /\ r.market \in Own
                     THEN page.dialog
                     ELSE [open |-> FALSE, choice |-> "none"]
           mix(d) == \/ page.panels[d].mixed
                     \/ Shown # r.market /\ PanelAwaits(d) # {}
           old(d) == [page.panels[d] EXCEPT !.mixed = mix(d)]
           q == [d \in D |-> IF mounts THEN NewPanel ELSE old(d)]
<1>1. /\ RequestTyped(r) /\ RequestLives(r) /\ r.market \in Markets
      /\ r.at \in Nat /\ r.at >= acked /\ r.result \in Sides
      /\ route # NoMarket
  BY DEF PageInv, RequestsGood, RequestTyped, RequestLives, RequestFresh,
         WriteKinds
<1>2. /\ r.market # NoMarket /\ late \in BOOLEAN /\ details \in Details
      /\ dialog \in [open : BOOLEAN, choice : Sides]
  <2>1. page.dialog \in [open : BOOLEAN, choice : Sides]
    BY PageFacts DEF View
  <2> QED
    BY <1>1, <2>1, LateRead, MarketPageAssumption DEF Details, Sides
<1>3. /\ D \in SUBSET Devices /\ "desktop" \in D
      /\ mounts => Panels = {} /\ D = {"desktop"}
      /\ ~mounts => D = Panels
  BY PageFacts DEF Devices
<1>4. NewPanel \in TradePanel /\ NewPanel.mode = "buy"
      /\ NewPanel.shares.at = 0
  BY PageFacts DEF NewPanel, TradePanel, NoShares, Shares
<1>5. ASSUME NEW d \in Panels
      PROVE  /\ old(d) \in TradePanel /\ old(d).mixed = mix(d)
             /\ old(d).mode = page.panels[d].mode
             /\ old(d).shares = page.panels[d].shares
  <2>1. page.panels[d] \in TradePanel /\ mix(d) \in BOOLEAN
    BY PanelFacts
  <2> QED  BY <2>1 DEF TradePanel
<1>6. /\ UNCHANGED <<route, changes, market, label, acked>>
      /\ wire' = (wire \ {r}) \cup SharesRequests(r) /\ side' \in Sides
  BY PageFacts DEF GetDetails, SameServer, SideEffect, Sides
<1>7. page' = [page EXCEPT !.late = late, !.details = details,
                 !.dialog = dialog, !.panels = q]
  <2>1. \A d : old(d) =
         [page.panels[d] EXCEPT !.mixed = @ \/
            (/\ Shown # r.market
             /\ \E s \in Of("shares") : s.device = d)]
    BY DEF PanelAwaits
  <2> HIDE DEF old
  <2> QED  BY <2>1 DEF GetDetails, Panels
<1>8. /\ q \in [D -> TradePanel]
      /\ mounts => \A d \in D : q[d] = NewPanel
      /\ ~mounts => \A d \in D : q[d] = old(d)
  BY <1>3, <1>4, <1>5
<1> HIDE DEF q, D, details, dialog, late
<1>9. /\ page' \in View(D) /\ page'.panels = q
      /\ page'.details = details /\ page'.disturbed = page.disturbed
  BY <1>2, <1>7, <1>8, PageFacts DEF View
<1>10. /\ Panels' = D /\ Shown' = r.market /\ page'.details.at = r.at
  BY <1>8, <1>9 DEF Panels, Shown, details
<1>11. PageTyped' /\ PageMounted'
  BY <1>1, <1>2, <1>3, <1>6, <1>9, <1>10
  DEF PageInv, PageTyped, PageMounted
<1>12. ASSUME NEW k \in wire'
       PROVE  RequestTyped(k) /\ RequestLives(k)' /\ RequestFresh(k)'
  <2>1. CASE k \in wire
    <3>1. RequestTyped(k) /\ RequestLives(k) /\ RequestFresh(k)
      BY <2>1 DEF PageInv, RequestsGood
    <3>2. k.kind = "shares" => k.device \in D
      BY <1>3, <3>1 DEF RequestLives
    <3> QED
      BY <1>6, <1>10, <3>1, <3>2 DEF RequestLives, RequestFresh
  <2>2. CASE k \in SharesRequests(r)
    <3>1. New(k, "shares") /\ k.kind = "shares" /\ k.device \in Panels
      BY <1>1, <2>2, SharesAsked
    <3>2. changes \in Nat /\ k.device \in D
      BY <1>3, <3>1 DEF PageInv, PageTyped
    <3> QED
      BY <1>1, <1>6, <1>10, <3>1, <3>2
      DEF New, RequestLives, RequestFresh, WriteKinds
  <2> QED  BY <1>6, <2>1, <2>2
<1>13. RequestsGood'
  BY <1>12 DEF RequestsGood, RequestTyped
<1>14. \A k \in SharesRequests(r) :
         k.kind = "shares" /\ k.device \in Panels /\ k.market = r.market
  BY <1>1, SharesAsked
<1>15. DetailsOnce'
  <2>1. ASSUME page.disturbed = FALSE
        PROVE  r.market = route /\ Of("details")' = {}
    <3>1. /\ r \in Of("details") /\ r.market = route
          /\ \A k \in wire : k.kind = "details" => k = r
      BY <2>1 DEF PageInv, DetailsOnce, Of
    <3> QED  BY <1>6, <1>14, <3>1 DEF Of
  <2> QED
    BY <1>6, <1>9, <1>10, <2>1, PageFacts DEF DetailsOnce
<1>16. ASSUME NEW d \in D
       PROVE  /\ PanelOffers(d)'
              /\ q[d].shares.at # 0 => q[d].shares.at >= acked
  <2>1. PanelAwaits(d)' =
          PanelAwaits(d) \cup {k \in SharesRequests(r) : k.device = d}
    BY <1>6, <1>14 DEF PanelAwaits, Of
  <2>2. CASE mounts
    <3>1. PanelAwaits(d) = {}
      BY <1>3, <2>2
      DEF PageInv, RequestsGood, RequestLives, PanelAwaits, Of
    <3>2. PanelAwaits(d)' = {}
      BY <1>3, <1>14, <2>1, <2>2, <3>1
    <3> QED
      BY <1>4, <1>8, <1>9, <2>2, <3>2 DEF PanelOffers
  <2>3. CASE ~mounts
    <3>1. /\ d \in Panels /\ q[d].mixed = mix(d)
          /\ q[d].mode = page.panels[d].mode
          /\ q[d].shares = page.panels[d].shares
      <4>1. d \in Panels /\ q[d] = old(d)
        BY <1>3, <1>8, <2>3
      <4> HIDE DEF old, mix
      <4> QED  BY <1>5, <4>1
    <3> HIDE DEF old
    <3>2. CASE Shown = r.market
      <4>1. PanelAwaits(d)' = PanelAwaits(d)
        BY <1>1, <2>1, <3>2, SharesAsked
      <4> QED
        BY <1>9, <1>10, <3>1, <3>2, <4>1, PanelFacts DEF PanelOffers
    <3>3. CASE Shown # r.market
      <4>1. ASSUME ~mix(d)
            PROVE  PanelAwaits(d) = {}
        BY <3>3, <4>1
      <4>2. page.panels[d].mode = "sell" => PanelAwaits(d)' # {}
        BY <1>1, <2>1, <3>1, <3>3, SharesAsked
      <4> QED
        BY <1>9, <1>10, <1>14, <2>1, <3>1, <4>1, <4>2, PanelFacts
        DEF PanelOffers
    <3> QED  BY <3>2, <3>3
  <2> QED  BY <2>2, <2>3
<1>17. ReadYourWrites'
  BY <1>1, <1>6, <1>9, <1>10, <1>16 DEF ReadYourWrites
<1>18. acked' <= changes' /\ label' \in StoredLabels'
  BY <1>6 DEF PageInv, StoredLabels
<1> QED
  BY <1>10, <1>11, <1>13, <1>15, <1>16, <1>17, <1>18 DEF PageInv

LEMMA ReceiveSound ==
  ASSUME PageInv, NEW r \in wire, Receive(r)
  PROVE  PageInv'
<1>1. /\ SameServer /\ RequestTyped(r) /\ r.status \in {"done", "failed"}
      /\ r.market \in Markets /\ r.at \in Nat
      /\ r.kind \in {"details", "shares"} \cup WriteKinds
      /\ r.status = "done" /\ r.kind \notin WriteKinds => r.at >= acked
  BY DEF Receive, PageInv, RequestsGood, RequestTyped, RequestFresh
<1>2. CASE r.kind = "details"
  <2>1. (GetDetails(r) /\ r.status = "done") \/ LoseDetails(r)
    BY <1>2 DEF Receive
  <2> QED  BY <1>1, <1>2, <2>1, DetailsSound, ForgottenSound
<1>3. CASE r.kind = "shares"
  <2>1. \/ /\ r.status = "done"
           /\ SharesArrive(r, [market |-> r.market, at |-> r.at])
        \/ SharesArrive(r, NoShares)
    BY <1>3 DEF Receive
  <2>2. PICK shares \in Shares :
          /\ SharesArrive(r, shares)
          /\ shares.market \in {r.market, NoMarket}
          /\ shares.at # 0 => shares.at >= acked
    BY <1>1, <1>3, <2>1 DEF NoShares, Shares, WriteKinds
  <2> QED  BY <1>1, <1>3, <2>2, SharesArriveSound
<1>4. CASE r.kind \in WriteKinds
  <2>1. \/ r.status = "done" /\ r.kind # "resolve" /\ TradeDone(r)
        \/ r.status = "done" /\ r.kind = "resolve" /\ ResolveDone(r)
        \/ Heard(r)
    BY <1>4 DEF Receive, WriteKinds
  <2> QED
    BY <1>1, <1>4, <2>1, TradeDoneSound, ResolveDoneSound, ForgottenSound
<1> QED  BY <1>1, <1>2, <1>3, <1>4

-----------------------------------------------------------------------------
LEMMA PageStarts == Init => PageInv
<1> SUFFICES ASSUME Init PROVE PageInv
  OBVIOUS
<1>1. /\ page = NewPage /\ wire = {} /\ route = NoMarket
      /\ changes = 1 /\ acked = 0 /\ side = "none" /\ label \in StoredLabels
      /\ market = [m \in Markets |-> [result |-> "none", over |-> FALSE]]
  BY DEF Init
<1>2. /\ page \in View(Panels) /\ Panels = {} /\ Shown = NoMarket
  BY <1>1, NewPageTyped DEF Panels, Shown
<1>3. PageTyped
  BY <1>1, <1>2 DEF PageTyped, Sides, MarketRow
<1>4. RequestsGood /\ DetailsOnce
  BY <1>1 DEF RequestsGood, DetailsOnce, Of
<1>5. PageMounted /\ ReadYourWrites /\ \A d \in Panels : PanelOffers(d)
  BY <1>2 DEF PageMounted, ReadYourWrites
<1> QED  BY <1>1, <1>3, <1>4, <1>5 DEF PageInv

LEMMA PageStays == PageInv /\ [Next]_vars => PageInv'
<1> SUFFICES ASSUME PageInv, [Next]_vars PROVE PageInv'
  OBVIOUS
<1>1. CASE Browse
  BY <1>1, ClickCardSound, FollowLinkSound, LeaveSound, ReloadSound
  DEF Browse
<1>2. CASE Operate
  <2>1. ASSUME NEW d \in Devices,
               \/ \E mode \in {"buy", "sell"} : SetMode(d, mode)
               \/ \E o \in Outcomes : SelectOutcome(d, o)
               \/ \E some \in BOOLEAN : SetAmount(d, some)
               \/ Trade(d)
        PROVE  PageInv'
    BY <2>1, SetModeSound, EditSound, TradeSound
  <2> QED  BY <1>2, <2>1, TradeModalSound, DialogSound DEF Operate
<1>3. CASE Serve
  BY <1>3, ServeSound DEF Serve
<1>4. CASE Arrive
  BY <1>4, ReceiveSound DEF Arrive
<1>5. CASE \E m \in Markets : Elsewhere(m)
  BY <1>5, ElsewhereSound
<1>6. CASE UNCHANGED vars
  <2>1. /\ UNCHANGED <<label, wire, changes, market>> /\ SamePage
        /\ changes' \in Nat /\ changes <= changes'
        /\ market' \in [Markets -> MarketRow]
    BY <1>6 DEF vars, SamePage, SameBrowser, PageInv, PageTyped
  <2> QED  BY <2>1, IdleSound
<1> QED  BY <1>1, <1>2, <1>3, <1>4, <1>5, <1>6 DEF Next

LEMMA PageInvariant == Spec => []PageInv
BY PageStarts, PageStays, PTL DEF Spec

(* Once the alert has said that a trade succeeded, the page that           *)
(* window.location.reload() builds shows nothing read before the trade,    *)
(* however many requests were on their way and in whatever order the       *)
(* answers come.                                                           *)
THEOREM TradesAreSeen == Spec => []ReadYourWrites
<1>1. PageInv => ReadYourWrites
  BY DEF PageInv
<1> QED  BY <1>1, PageInvariant, PTL

(* A page whose requests for details neither overlapped nor failed shows   *)
(* the market of its URL once they are answered, and a panel in the mode   *)
(* "sell" then offers no shares of another market, although its state      *)
(* survives a link from one market to the next.                            *)
THEOREM SettledPageIsRight == Spec => []PageShowsMarket
<1>1. PageInv => PageShowsMarket
  <2> SUFFICES ASSUME PageInv, route # NoMarket, Of("details") = {},
                      ~page.disturbed
               PROVE  /\ Shown = route
                      /\ \A d \in Panels :
                           (/\ page.panels[d].mode = "sell"
                            /\ ~page.panels[d].mixed
                            /\ \A r \in Of("shares") : r.device # d)
                             => page.panels[d].shares.market
                                  \in {route, NoMarket}
    BY DEF PageShowsMarket
  <2>1. Shown = route
    BY DEF PageInv, DetailsOnce
  <2> QED  BY <2>1 DEF PageInv, PanelOffers, PanelAwaits
<1> QED  BY <1>1, PageInvariant, PTL

(* Whatever label the creator typed and the server kept, the card, the     *)
(* trade panel, the dialog and the announcement of the result call the     *)
(* outcome YES the same.                                                   *)
THEOREM LabelsMeanTheSame == Spec => []LabelsAgree
<1>1. PageInv => LabelsAgree
  <2> SUFFICES ASSUME label \in StoredLabels PROVE LabelsAgree
    BY DEF PageInv
  <2>1. Trim(label) # "none" /\ label # "none"
    BY DEF StoredLabels, ValidCustomLabel, Trim
  <2>2. Trim(label) = FallbackLabel
    BY <2>1 DEF FallbackLabel, MarketLabel, Or
  <2> QED
    BY <2>1, <2>2
    DEF LabelsAgree, PanelLabel, DialogLabel, CardLabel, AlertLabel,
        ResolvedText, MarketLabel, Or
<1> QED  BY <1>1, PageInvariant, PTL
=============================================================================
