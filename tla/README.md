# A verification project for SocialPredict

TLA+ modules, TLC configurations and TLAPS proofs about the Go server in
`src/backend` and the React client in `src/frontend`: prediction markets on
which registered users buy and sell YES and NO shares for credits, and which
their creators resolve.

## 1. The system and its parts

A request is a goroutine of `net/http` (`server/server.go`). It passes the rate
limiter, authenticates, reads rows of a Postgres database through gorm,
computes, and writes rows back. There is no transaction, no row lock and no
mutex around any of it, and `db.Save(x)` writes every column of `x` as it was
when it was read. The handlers share nothing but the tables (`users`,
`markets`, `bets`), the image directory `uploads/markets` and the configured
economics. Before it listens, the server waits for the database, runs the
pending migrations and seeds the admin.

The client is a single page application. A tab runs one callback at a time;
tabs share `localStorage`, and everything else is React state that is filled by
`fetch` and forgotten when its component is unmounted. No request is ever
cancelled, and hardly any answer is matched with the request it belongs to.

| Component | State | Operations | Correct when |
|---|---|---|---|
| Buying `handlers/bets/buying`, `betutils` | `users`, `bets` | check the market, price the fees, check the debt limit, validate, save the user, insert the bet | nobody spends below the debt limit; a row exists only if it was paid; none on a closed or resolved market |
| Selling `handlers/bets/selling` | `users`, `bets` | compute the position, turn credits into shares, validate, credit the user, insert a negative bet | at most the shares owned, for at most what they are worth |
| Market creation `handlers/markets/createmarket.go` | `users`, `markets` | debit the fee, create the row | the fee is paid within the debt limit |
| Resolution and payout `resolvemarket.go`, `math/payout` | `markets`, `users` | save the resolution, then pay winners or refund all rows one by one | happens once; pays exactly the pool |
| Market images `marketimage.go` | `markets`, files | write the new file, save the row, delete the old file | no open market loses the file it shows |
| Profile edits `handlers/users/change*.go` | `users` | read the row, save it whole (links: update columns) | touch nothing but the profile |
| Pricing `math/probabilities/wpam`, `math/outcomes/dbpm` | none | probability, share distribution, corrections to integers | the shares of all rows add up to the pool |
| Positions and values `math/positions` | none | net positions, values, dealing out of rounding differences | the values of the holders add up to the pool |
| System metrics `math/financials/systemmetrics.go` | none | sums over all tables | they account for every credit |
| Login, passwords, user creation `middleware`, `changepassword.go`, `admin/adduser.go` | `users` | tokens, forced password change, new users with permissions | the flag marks first passwords; unique names; credentials handed out work |
| Rate limiter `security/ratelimit.go` | map of buckets | take a token or refuse; forget full buckets | bounded rate, bounded map |
| Startup `main.go`, `migration`, `seed` | schema, `schema_migrations`, `permissions`, admin | run pending migrations in order, seed | what is recorded is done; nothing of the users' is undone; a clean start repairs |
| Session and routing `AuthContent`, `AppRoutes`, `TopNav` | `localStorage`, per tab state | restore, login, logout, redirects, delayed logout | tabs agree with the account they show; redirects end |
| Data views (profiles, statistics, lists, search) | per view: data, loading, error | ask on mount, key change, press or pause; show what arrives | spinners end; what is shown is about what was asked for |
| Market page `useMarketDetails`, `TradeSidebar`, `ResolveModal` | details, panels, dialog | read, trade, resolve, preselect a side | shows its own trades and resolutions, of the right market |
| Forms `Create`, `AddUser`, `PrivateUserInfoLayout` | drafts, submissions | post, upload, go on; show results | what the form says is what the server did |

How they interact: buying and selling call the calculators on a log they have
just read; selling, resolution and payout share
`users/apply_transaction.go` (read the row, save it); a resolution first saves
the market and then calls payout, which reads market and log again and calls
the position calculator; every handler calls the authentication middleware,
which is where the user row that a buy, a market creation or a profile edit
later saves is read. The client calls all of it over HTTP; the login answer is
copied to `localStorage`, from which every tab and every later load of the page
takes its identity; the market page and the forms read again after they wrote.

What is hard here:

- *Interleaving.* Between a handler's read and its save any other handler can
  save the same row; between the check of a market and the insertion of the bet
  the market can close or be resolved; two resolutions can pass the check; the
  cleanup of the limiter forgets a bucket that a request holds.
- *Partial failure and crashes.* A buy is a debit and then an insert, a sale a
  credit and then an insert, a resolution a save and then one payment per
  winner, a migration a dozen statements. A failing call or a dying process
  leaves what was done so far.
- *Swallowed errors.* `GetBetsForMarket` answers a failing query with nil: fees
  are charged twice, positions vanish, a resolution pays nobody and reports
  success. The permissions migration and the seed drop errors too, and a failed
  migration does not keep the server from serving.
- *Order of answers.* The client stores whatever arrives last; a tab may act on
  a login of another one; timers fire after their page has gone.
- *Lost answers.* A submission may have been carried out although the client
  is told that it failed.
- *Order of rows.* `placed_at` is stamped before the insert, and the log is
  sorted by it.
- *Numbers.* Shares and credits are integers, everything between them is
  float64: rounding, halves, exact cancellation, integer division by zero.
- *Long sequences of legal trades* that leave the region the formulas were made
  for (a side's total below zero, more winners than credits).

`PROJECT.json` lists each hazard at its line, with the properties that watch it
or the reason why none does: some are what the code does.

## 2. Modules

    SaleMath      integer arithmetic of one sale            sellpositioncore.go
    Sums          sums over finite sets
    MarketMath    probabilities, share distribution         wpam_*.go, marketshares.go
    PositionMath  positions and values of all users         math/positions/*.go
    MarketBook    one market's log, request by request      the calculators together
    Exchange      tables, files, concurrent requests        the handlers
    ExchangeSafety   properties of Exchange
    SystemMetrics    the sums of the statistics page        systemmetrics.go
    Ledger        abstract: accounts, pots, payments owed
    ExchangeLedger   refinement mapping Exchange -> Ledger

    TokenBuckets  abstract: one bucket per address
    RateLimiter   map, requests and cleanup goroutine       security/ratelimit.go
    Startup       migrations and seed, statement by statement
    Server        the life of a process: Startup, then RateLimiter, and again

    Session       two tabs, localStorage, routes, account handlers
    DataViews     what the pages that ask GET requests show
    MarketPage    reading, trading and resolving one market
    CreateForm    the market form and its two requests
    AddUserForm   the user form and AddUserHandler
    ProfileForm   the profile page, its editors, their handlers

    MCMarketBook, MCExchange, MCServer, MCSession,
    MCDataViews, MCMarketPage, MCForms                      instances for TLC
    MathProofs      theorems about SaleMath; sums, least counterexamples
    BookProofs      theorems about MarketBook and its calculators
    ExchangeProofs  types, debt, closing times, paid rows, image files
    LedgerProofs    the refinement of Ledger, the money, the metrics
    ServerProofs    theorems about RateLimiter, Startup and Server
    SessionProofs, MarketPageProofs                         theorems
    PageProofs      theorems about DataViews and the three forms

`MarketBook`, through `PositionMath` and `MarketMath`, and `Exchange` both
extend `SaleMath`; all sums, of the calculators, the accounts and the metrics,
are those of `Sums`.
`MCExchange` gives `Exchange` its calculator: the constant operator
`Positions(log, status)` is `PositionMath`'s `CalculateMarketPositions`,
tabulated over all logs of the instance. `Exchange` itself only assumes that it
answers with whole shares and values, so that the proofs hold for any
calculator; what the accounts need of it beyond that is `PoolKept`, see section
4. `Server` extends `Startup` and `RateLimiter` and instantiates
`TokenBuckets`; `MCForms` puts the three forms, of which one page has one, into
one instance.

The client's modules do not extend `Exchange`. What a page needs of the server
is in its module: `MarketPage` has a row per market and a count of its changes,
`Session` the accounts, the forms their handlers step by step. Money is the
matter of `Exchange`.

### State and actions of Exchange

| TLA+ | Code |
|---|---|
| `users[u]` = balance, profile | `models.User`; `profile` is the request that last set a description, name or emoji |
| `markets[m]` = status, creator, image | `models.Market`: `IsResolved` and `ResolutionResult` together are `status` |
| `bets[m]` | rows of `bets` for `m`, sorted by `placed_at`; `at` is that stamp |
| `files`, `closedAt` | `uploads/markets`; whether `ResolutionDateTime` has passed, and when |
| `req[w]` | the local variables of the request goroutine `w` serves; `pc` is its next database call |
| `clock`, `served` | `time.Now()` for stamps, and the number of requests so far |
| `paid`, `clawback`, `named` | history variables, read by no action except to extend them; `named` are the images that creation bodies named |

One database call is one action, with all computation up to the next call in
it. `...Start` is the arrival of a request with its authentication and first
read; the requests that this read refuses change nothing and are left out.
`Fail` is a call that returns an error, or a process that dies: the request
stops where it is. A failing query inside `GetBetsForMarket` is the other
outcome of `GetBetsForMarket(m)`, an empty log.

- Buy: `BuyStart` (authentication reads the user), `BuyCheckStatus`,
  `BuyCheckBalance` (log, fees, debt limit, stamp), `BuyValidate`, `BuyDebit`,
  `BuyInsert`.
- Sell: `SellStart`, `SellCheckStatus`, `SellReadMarket`, `SellQuote` (log,
  position, price, stamp), `SellValidate`, `SellReadUser`, `SellCredit`,
  `SellInsert`.
- Create: `CreateStart`, `CreateDebit`, `CreateInsert`.
- Resolve: `ResolveStart`, `ResolveSave`, then `PayReadMarket`, `PayReadBets`
  (or, on N/A, `RefundReadBets`), and per payment `PayReadUser`, `PaySave`.
- Edit: `EditStart`, `EditSave`. Image: `ImageStart`, `ImageWrite`,
  `ImageSave`, `ImageSaveFails` (which removes the new file), `ImageDelete`.
- `TimePasses(m)`: the market's resolution time passes.

### State and actions of MarketBook

`bets` is the log, `calc` what every stage of the pipeline answers for it, and
`fp` how float64 falls out. `Buy` and `Sell` append the row that the handler
would insert.

Amounts are exact fractions in the model and float64 in the program. Both agree
after rounding, except in the situations of `fp`, which are nondeterministic
choices over what the arithmetic can produce. A pool of shares (`fp.pools`), a
scaled payout (`fp.low`) or the value of a position (`fp.values`) that is
exactly a half may come out just below it and is then rounded down: YES 17,
NO 13 has a pool of 13.5, which Go rounds to 13. A product with the price can
only do so if float64 does not hold the price itself, which it does if some
power of two clears its denominator (`HeldExactly`; `MaxExponent` bounds the
powers tried, beyond the denominators of any run). And the course payouts of a
side that cancel exactly may add up to a tiny positive number instead of zero
(`fp.leftover`), so that the normalization factor is enormous. `LeftoverScale`
is that enormous factor; any value well above the amounts in the log shows the
same behaviour, and in the program it is around 1e15. `MCExchange` uses the
exact results: the volumes of its logs stay below 8, where the first value is
that float64 rounds otherwise (the first pool is at 30).

### State and actions of Server

| TLA+ | Code |
|---|---|
| `schema`, `recorded`, `markets`, `names`, `admin`, `boss` | columns and tables, `schema_migrations`, texts of the rows of `markets`, `permissions`, the user `admin` with the permissions of it, those of a user of the former type ADMIN |
| `main` | where `main()` is, and the local variables of `Run`, of the migration and of `SeedUsers` |
| `limiters`, `buckets` | `rl.limiters`, and the `rate.Limiter` objects somebody refers to |
| `calls` | requests between `GetLimiter` and `Allow` |
| `sweep` | `cleanupRoutine`, which holds the mutex while `sweep.on` |

A start is `Start`, `Connect`, `LoadApplied`, then for each pending migration
its statements one by one (`Migrate`, or `MigrateFails`) and `RecordMigration`,
then `SeedPermission` for each permission, `FindAdmin`, `CreateAdmin`,
`ReplacePermissions`. An error goes where the code sends it: most end the
migrations with a warning (`Warn`) and the seed follows; those of the look at
`user_type`, of the query for administrators and of the grants are dropped.
`Stop` is a crash or a new deployment at any moment. While the process serves,
`NewMarket` and `ChangeAdminPassword` leave something for the next start to
respect, and the limiter runs: `GetLimiter` and the whole sweep are under the
mutex, `Allow` is not. A unit of a bucket is what one `Tick` brings; a request
costs `Period` units. The limiters for login and for everything else are two
instances of the module.

The database starts empty, or as an earlier version left it, with the first `n`
of the five migrations recorded, `n` from 0 to 4, a market, an admin, and a
`user_type` column or, after the fourth, the permissions in its place. Whether
a new column's default reaches the existing rows (`fills`) is left open, as the
migrations themselves do: they update what is empty.

### State and actions of the client

- `Session`. `accounts` is `users` (flag, password), `storage` is
  `localStorage`, `auth[t]` and `page[t]` the state of `AuthProvider` and the
  router of tab `t`. `Hop` is one redirect of `AppRoutes`, `Landing` two.
  Actions: `Reload`, `Restore` (the effect after a load), `Navigate`,
  `OpenLogin`, `CloseLogin`, `SubmitLogin`, `ServeLogin`, `LoginAnswered`,
  `Logout`, `SubmitPassword`, `CheckPassword`, `SavePassword`,
  `PasswordAnswered`, `TimerFires` (the logout two seconds later), and a
  payment that reads the row (`PaymentReads`) and writes it back whole
  (`PaymentSaves`).
- `DataViews`. A view is a record that says how it differs from `Plain`: what
  starts a request, whether the start shows the spinner and clears the error,
  what a failure leaves, whether a timer ends the spinner. `Shown` is what it
  renders. `Render` mounts and unmounts views after each callback. Actions:
  `ChangeKey`, `TypeQuery`, `PauseEnds`, `FilterClick`, `SelectTab`, `Press`,
  `Receive`, `SpinnerEnds`.
- `MarketPage`. What the server holds is told apart by how many changes it had
  seen. `page` has the details, the dialog and the two panels (desktop and
  mobile). Actions of the user: `ClickCard`, `FollowLink`, `Leave`, `Reload`,
  `SetMode`, `SelectOutcome`, `SetAmount`, `Trade`, `OpenTradeModal`,
  `CloseTradeModal`, `ToggleDialog`, `SelectResolution`, `Confirm`; of the
  server: `ServeRead`, `ServeTrade`, `ServeResolve`, `Refuse`, `Elsewhere`
  (others trade, resolve, or the closing time passes); and `Receive`.
- `CreateForm`, `AddUserForm`, `ProfileForm`. A submission is a record that
  goes through its stages; the handler behind it is one step per database call
  in `AddUserForm` (`CheckUser`, `InsertUser`, `AssignPermissions`), and one
  step, or a read and a save, in the others. `Lose...` is an answer that does
  not arrive; leaving the page leaves the submission running.

### Abstractions, all of them

- Texts, labels, dates and their validation are left out where no property is
  about them, and so are JSON, HTTP codes and logging. `MarketPage` has labels
  with blanks around them (the browser's `trim` and Go's `TrimSpace` agree on
  those, but for U+FEFF and U+0085), `ProfileForm` texts that the sanitizer
  changes, by trimming, stripping or escaping.
- `CreateMarketHandler` decodes the body into the whole `models.Market`, after
  it has set the creator. `BodyRow` is what the body may so decide: the
  creator, the status (`isResolved` with `resolutionResult`; a result without
  `isResolved` is an open market, any other text acts like one of the three),
  and the image, which may be a file of another market or of none. A body with
  an `id` that is in use is an insert that fails, and an unused one is the id
  that `CreateStart` chooses anyway. A deletion time and a nested creator
  object in the body are left out.
- `placed_at` stamps are distinct. The tie-breaks by username behind equal
  stamps are therefore never reached.
- `adjust_valuation.go` asks the database for every user's earliest bet in a
  second query; it is answered from the log read first.
- Market ids: `CreateStart` chooses the id that the table assigns at the
  insert; no two creations in progress share one.
- Winners are paid in an arbitrary order, and so are refunds (a Go slice whose
  order comes from a map, and the order of a query).
- A negative shipped constant (an interest rate, a negative fee) is excluded by
  `ExchangeAssumption`.
- `ComputeSystemMetrics` is taken between requests, its queries at one moment.
- `Startup`: the grants of one permission to all former administrators are one
  statement; there is one old market and at most one new one; the texts of a
  market are blank, the default or somebody's own.
- `RateLimiter`: tokens are whole units of a tick instead of float64, so that
  the comparison of a full bucket with its burst is exact, as it is in the
  program, where the bucket is capped at the burst.
- The client: one browser, a callback is a step, React renders after each. In
  `MarketPage` the back button of the browser is not used. In `ProfileForm`
  two of the four links stand for all. `useUserData.jsx:48` would ask for a
  private profile without a user, too, and again for another token: left out
  of `DataViews`, since the profile page is only mounted for a user who is
  logged in, and a new token takes a logout first.

## 3. Runs

Each run's configuration says in its first line what it is for.

| Run | Question | Bounds |
|---|---|---|
| MarketBook | What do payouts, values and prices add up to, and how do they move, on every reachable log? | 3 users, 4 rows, bets 1, 2 or 5, sales of 1 to 4 or 6 credits; 36 915 states |
| SerialLedger | One request at a time, do the handlers implement the ledger, is every winner paid, do the metrics account for it all? | 2 users, 2 markets (one yet to be created, open, resolved YES or N/A), 4 requests; 866 862 states |
| SerialFaults | One request at a time but dying anywhere: what can create credits, and do all tables keep their types? | same (created open or resolved NO), with failures and an amount no handler should accept; 2.56 million states |
| ConcurrentRequests | Two requests at a time, dying anywhere: debt limit, paid rows, closing time, images of open markets | 2 users, 2 markets, 3 requests of all 6 handlers, creation bodies with or without an image; 3.66 million states |
| Server | Starts, crashes and restarts on any earlier database, with the limiter in between | 2 addresses, 2 requests to a process, any number of processes; 403 554 states |
| Session | Two tabs log in and out, change a password and reload, next to a payment | 2 users, 3 calls, 1 reload, 1 payment; 452 444 states |
| DataViews | Each page under every order of answers, failures, presses, tab and key changes | 2 keys, 4 rounds of requests; 131 514 states |
| MarketPage | The page of a market while the market changes and answers overtake each other or fail | 2 markets, 3 clicks that send, 2 changes; 582 557 states |
| Forms | The three forms with repeated presses, lost answers, leaving the page | 2 submissions each; 601 747 states |
| PoolConserved | A claim about the payouts of the rows, which a log of five rows breaks | 1 user, bets and sales of 20 |
| PaymentsMatchPool | A claim about the payments of a resolution, which a log of four rows breaks | 3 users, bets of 10, sales of 6 |
| ResolveTwice | A claim about one resolution that two concurrent ones break | 1 market, 2 requests |

The economics are the shipped ones where the size of the numbers matters for
rounding (probability 1/2, subsidy 10, dust 2, fees 1/0/0); the debt limit and
the creation fee are scaled down (3 or 6, and 2, instead of 500 and 10) so that
a few requests reach the limit. The bounds `MaxRequests`, `MaxBets`,
`MaxShares`, `Workers` are guards of `Begin`, `CreateBet` and `SellQuote`,
and `MaxBets` of `Buy` and `Sell` in `MarketBook`.
`MaxShares` equals the largest number of shares of a sale the amounts allow, so
it refuses none that another check would accept. Why they are enough: a lost
update, a late row or a second settlement is a conflict of two requests over
one row, with a third that sets it up; every pair of database calls of every
pair of the enabled handlers is interleaved, and every call is failed.
Where concurrency is two, the theorems below cover any number. Four rows are
enough for all branches of the pipeline: positive and negative excess, bumped
rows with and without donor, negative side totals, cancellation, and more
winners than credits all occur.

`Server` bounds no start and no crash. Two requests are enough for a bucket
that is swept while it is held, for a second bucket beside it, and for a
refusal (the burst is one, a request costs two ticks, so that buckets are also
half full). `Permissions` has one member: a grant and the drop of `user_type`
are then still separate statements with a crash between them. In `Session` two
calls make a login and a password change and the third a login in the other
tab. In `DataViews` three more requests than the first overlap in every way,
the last after a failure or a change of tab. In `MarketPage` two changes are a
trade and a resolution, three sending clicks a trade, a link and a resolution.
In `Forms` two submissions overlap, repeat each other or follow each other.
`MaxCalls`, `MaxLoads`, `MaxPayments`, `MaxRounds`, `MaxSteps`, `MaxChanges`,
`MaxSubmissions`, `MaxSaves` and the `MaxRequests` of `AddUserForm` and
`RateLimiter` are guards of the actions that start something; what was started
is never cut short.

Deadlock is checked in `Server` only. Elsewhere clients need not send requests,
and every behaviour ends when the bounds are used up.

`MarketBook` uses symmetry of users, who are compared by nothing but equality
(the tie-break by username is unreachable, see above); its properties are
invariants and properties of steps, for which symmetry is sound.

### What the passing runs show

The types of the tables and requests are an invariant of `SerialFaults`, and
those of the process of `Server`, where they also say which bucket a request
holds. The other modules state theirs to tell the reader what the variables
hold; they are true under the same configurations but no run lists them.

The server's handlers:

- `PayoutsAddUp`: for every reachable log and every way the halves round, the
  corrections of `marketshares.go` make the payouts of the rows add up to the
  volume. The exception is `Untaken`: a positive excess is taken from rows that
  are still positive, one share from each, and there may be too few of them. It
  is zero in the logs of the run `MarketBook`, and not in those of the run
  `PoolConserved`; the theorem covers both.
- `MinimumUnlessNoDonor`: bumping to one share moves shares only within a side,
  and a row is left without a share only if no row of its side can spare one.
- `ResolvedValuesMatchPool`, `OpenValuesMatchPool`: dealing out the rounding
  difference hits the pool exactly if anybody holds a winning share, or, while
  the market is open and its price is a probability, if anybody has a value.
- `SaleCoveredByValue`, `ProbabilityMovesWithMoney`: no sale takes more shares
  than the position is worth in credits, and the price moves with the money as
  long as it is a probability.
- `ImplementsLedger`: without failures, one request at a time, every handler is
  one step of `Ledger` (or, for a resolution, one step to settle and one per
  payment): debt limit, participation fee once, settlement once and of the
  whole pot, payments to participants only. That the payments are exactly the
  pot is so for the logs of this run, and proved for every calculator that
  keeps the pools; where the shipped ones leave that ledger is what
  `PaymentsMatchPool` shows.
- `WinnersPaid` (liveness): once a resolution is saved all payments are made.
- `SurplusExplained`: between requests the surplus of the system metrics is
  exactly what users own and what nobody has won; every fee is charged as the
  metrics count it. Sales make the surplus smaller, by the credits they create.
- `MoneyOnlyFromSales`: with failures, the total of balances, open pools and
  payments due never rises except in a sale, or in an N/A refund that died
  before it took a sale back.
- The assumption `CalculatorsKeepPools` of `MCExchange`: the calculators keep
  the pools of all logs that trading one request at a time can make of the
  amounts of the instance.
- `DebtFloor`: interleaved and failing, no balance falls below the limit by
  more than what N/A refunds of sales took back (`clawback`). A refund of a
  sale is a negative payment without a balance check, and the code does take
  users below the limit by it.
- `PaymentsMatchBets`: every row was paid for (or credited) first, and no two
  rows for the same write.
- `NoLateBets`: a request that arrives after the closing time does not get to a
  balance or a row. A request that arrived before it still may, later.
- `ImageExists`: the order new file, row, old file is enough for every open
  market, next to other uploads, resolutions and creations, as long as no
  creation body named its file. A body may name a file that is not there, or
  another market's, which that market's or its own next upload deletes: the
  property exempts the files in `named`, and no others. A resolution may save
  a row that it read before an upload, so that a resolved market may name a
  deleted file.

The server's process:

- `RecordedIsApplied`, `CleanStartCompletes`: wherever earlier starts failed or
  died, a recorded migration is complete and all before it are recorded, and a
  start that meets no failure ends with the whole schema, the whole record and
  an admin with all permissions, also when the server ran on an unfinished
  schema in between.
- `AdminsKeepRights`: dying inside the permissions migration costs nobody
  rights. (A dropped error does, see below.)
- `SettingsSurvive`: no start takes back a text of a market or the admin's
  password, although the seed takes any error for "no admin".
- `ImplementsBuckets` (refinement): forgetting full buckets
  is unobservable, except that a request which held a bucket when it was swept
  is not counted against the new one.
- `LimitersReleased` (liveness): the bucket of an address that stops sending is
  removed.

The client:

- `GateFollowsServer`, `PermissionsOfUser`, `RedirectsSettle`: however two tabs
  share `localStorage`, a tab has the permissions of the user it shows and
  waives the password change only if it was made; its redirects settle; and
  every link of the top bar leads to the page it names, or, while the first
  password has to be changed, to that change. The logo, the filters and About
  are shown then, too, and all of them are redirected.
- `FlagMarksFirstPassword`: a payment that writes an old user row back restores
  flag and password together.
- `PasswordChangeEndsSession` (liveness): the delayed logout happens, also
  after the page is left.
- `RightDataInSequence`, `SpinnersEnd` (liveness): as long as its requests do
  not overlap, a view shows what belongs to its key; every spinner ends,
  overlapping or not.
- `SearchesCurrentQuery`: the search box asks only for what stands in it.
- `ReadYourWrites`, `PageShowsMarket`, `LabelsAgree`, `ResolutionAppears`
  (liveness): after a trade nothing on the page is older
  than the trade; a settled page shows the market of its URL; all
  components name a side alike; an accepted resolution appears.
- `ImageOfSubmission`, `FailureMeansNoMarket`, `SubmissionSettles` (liveness),
  `UsernamesUnique`, `CredentialsComplete`, `ShownIsSaved`: a market gets the
  image of its own submission; "creation failed" is said only if there is no
  market; every submission comes to an end; two administrators cannot create
  one name twice, and a password is shown only for a user who has what was
  asked for; the profile shows what is stored.

### Where the code differs from what the repository says of it

- `ResolveTwice`: two resolutions both pass "Check if the market is already
  resolved"; the second overwrites the first and pays out again.
- `PoolConserved`: the test helper of that name says that the payouts of the
  rows add up to the volume. After NO 20, NO -20, YES 20, NO -10, YES 20 of one
  user they add up to 31, the volume to 30: the loop that takes the remainder
  of a positive excess finds too few rows to take from. (TLC may show the same
  log with the sides exchanged.)
- `PaymentsMatchPool`: the adjustment "ensures user values match total market
  volume", but only positive values are paid, and it can leave a negative one.
  After alice YES 10, alice YES -6, bob YES 10, carol YES 10 a resolution to
  YES pays bob 28 credits from a pool of 24; the -4 of carol are not collected.

Seen while modelling and proving, without a run of their own, in the server:

- The body of a creation sets fields that it should not: a market can be
  created for another user, already resolved, or with the image of another
  market or of none (`createmarket.go:89-91`). The handler for uploads deletes
  the old image of a row whoever else names it (`marketimage.go:155-159`).
- Of two concurrent bets of a user only one debit survives; the other is
  overwritten by the row that was read at authentication.
- A bet validated before a resolution is inserted after it. A resolution saves
  a market row read before an upload, which then names the deleted file.
- YES 3, YES -3, YES 1 ends with a negative payout. YES 7, YES -7, NO 7, YES -5
  takes the probability to 0, although the test helpers assert that it stays
  inside (0, 1): shares, not credits, are subtracted on a sale. In longer logs
  of one user with large amounts the total of subsidy and shares, the
  denominator of the price, gets to zero and below.
- A position worth less than its shares makes a sale divide by zero
  (`PanicsBelowOneCredit`; the panic is recovered and drops the request). A
  share worth two credits or more makes a sale create credits, since the pool
  shrinks by the shares and the balance grows by the credits (allowed by
  `Ledger`'s `Cash`). Scaled payouts can exceed the pool although a comment
  says this should not be possible (YES 1, NO 4, YES 5); the correction for it
  works as long as there are rows to take from.
- A crash in the payment loop leaves winners unpaid for good, as a second
  resolution is refused.
- An error of the query for administrators, or of a grant, is dropped by the
  permissions migration, which then drops the column that named them.
- Equal labels for YES and NO are accepted.

and in the client:

- The user page and the credit in the top bar wait for ever after a failed
  request; the first load of a market page does, too.
- A late answer overwrites a newer one wherever requests overlap, and an error,
  once shown, stays after the next answer in the views that do not clear it.
- `SiteButton` drops `disabled`, so that calculations overlap and the links of
  a profile can be saved twice at a time; nothing disables the buttons that
  trade, create or resolve while they are working.
- A trade or a market whose answer was lost is reported as failed although the
  server may have made it.
- The credentials box shows the name in the field, which may have been edited
  since the password arrived. `onSave` of the profile closes whatever editor is
  open.

### Fairness

`FairSpec` of `Exchange` adds weak fairness on `Step(w)`: the Go scheduler runs
a goroutine whose call has returned, and gorm calls return. `Server` adds it on
the sweep (a ticker drives it), the clock and the requests that hold a bucket;
nothing makes the process start, stop or receive. The client's modules have it
on answers, which `fetch` delivers or rejects, on timers, on the effect after a
load, and on the server's side of what was sent. Nothing is assumed about users,
resolution times, crashes or failures: that a user stops is what the bounds do.
`WinnersPaid` is checked in an instance without failures (after a crash it is
false, see above).

## 4. Proofs

The eight proof modules are checked by TLAPS to the last leaf. A theorem
`Spec => []P` holds for every value of the constants that the named
assumptions of the module allow: any users, markets, workers, texts, amounts,
and any bound. Most of the properties are not inductive: a request, a callback
or an answer carries what was read earlier, and the invariant has to say what
that still means. Each proof module states its strengthening first: then come
one lemma for every action, with one step for each part that the action can
disturb, a lemma that puts them together, and the theorems.

| Theorem | Property | Inductive invariant |
|---|---|---|
| `SaleBounds`, `PanicsBelowOneCredit` | what one sale takes and yields | (a fact about integers) |
| `BookTypeCorrect` | `TypeOK` of `MarketBook` | `BookInv` |
| `PayoutsMeetVolume`, `RowsAreRaised` | `PayoutsAddUp`, `MinimumUnlessNoDonor` | `BookInv` |
| `ResolvedPoolIsDealtOut`, `OpenPoolIsDealtOut` | `ResolvedValuesMatchPool`, `OpenValuesMatchPool` | `BookInv` |
| `SalesAreCovered`, `PriceFollowsMoney` | `SaleCoveredByValue`, `ProbabilityMovesWithMoney` | `BookInv`, then every step |
| `TypeCorrect`, `DebtIsBounded`, `ClosingTimeHolds` | `TypeOK`, `DebtFloor`, `NoLateBets` | `IInv` |
| `RowsArePaidFor` | `PaymentsMatchBets` | `IInv`, `StampInv` |
| `OpenMarketsKeepImages` | `ImageExists` | `IInv`, `ImageInv` |
| `HandlersImplementLedger` | `ImplementsLedger` | `SerialInv`, then every step |
| `CreditsComeFromSales` | `MoneyOnlyFromSales` | `SerialInv`, then every step |
| `MetricsAddUp` | `SurplusExplained` | `SerialInv`, `BooksHold` |
| `PoolsAreKept` | (the hypothesis of the three) | `SerialInv`, `TradedInv` |
| `LimiterImplementsBuckets` | `ImplementsBuckets` | `LimiterInv` |
| `ServerTypeCorrect` | `TypeOK` of `Server` | `LimiterInv`, `StartupInv` |
| `RecordIsTrue`, `CleanStartsComplete`, `RightsSurviveMigration` | `RecordedIsApplied`, `CleanStartCompletes`, `AdminsKeepRights` | `StartupInv` |
| `SettingsAreKept` | `SettingsSurvive` | `StartupInv`, then every step |
| `GatesFollowTheServer`, `PermissionsBelongToUser`, `RoutesSettle`, `FlagsMarkFirstPasswords` | `GateFollowsServer`, `PermissionsOfUser`, `RedirectsSettle`, `FlagMarksFirstPassword` | `SessionInv` |
| `DataIsOfTheKey`, `SearchesAreCurrent` | `RightDataInSequence`, `SearchesCurrentQuery` | `ViewInv` |
| `TradesAreSeen`, `SettledPageIsRight`, `LabelsMeanTheSame` | `ReadYourWrites`, `PageShowsMarket`, `LabelsAgree` | `PageInv` |
| `ImagesReachTheirMarkets`, `RefusalsAreTrue` | `ImageOfSubmission`, `FailureMeansNoMarket` | `CreateInv` |
| `UsernamesStayUnique`, `CredentialsAreComplete` | `UsernamesUnique`, `CredentialsComplete` | `AddUserInv` |
| `PageShowsTheRow` | `ShownIsSaved` | `ProfileInv` |

### Why the invariants are needed

- `IInv`: a handler saves a row that it read several calls ago. `RowSound`: the
  row in its hands respects the debt limit as of any moment, since the limit
  only ever gives way by `clawback`, which grows; and what was found affordable
  is affordable of that row. `TimeSound` keeps the order of arrival and closing
  time through a trade, `PriceSound` and `TradeSound` what the handler let
  through, `MarketSound` that the calculators are asked about real statuses.
- `StampInv`: a row is matched with its payment by its stamp, so stamps must
  stay apart, those of rows and of trades in progress alike; and a log sorted
  by stamp (`InsertByTime`) stays one.
- `ImageInv`: a file is named by the upload that writes it. Unless a creation
  body named it, nobody, in the table or in the hands of a request, names it
  before that upload saves the row, no two markets ever name it, and when it is
  about to be deleted no open market names it.
- `SerialInv`: alone, a request finds the tables as it has read them. The
  balance and the status in its hands are those of the tables (`RowsCurrent`,
  `StatusHolds`), it owes something only in the loop over the payments
  (`OwedHolds`), what it was charged is the amount and the fees that its row
  will justify (`CostHolds`), a sale was quoted within the pool (`QuoteHolds`),
  and its stamp is the latest (`StampHolds`), so that its row is appended to
  the log. From this every step is one of `SerialStep`: nothing that the
  accounts can see, one balance, one row, one status, or one settlement. The
  three theorems are about those eleven cases instead of all the actions.
- `BooksHold`: credits, pots, fees and stakes nobody won add up to what users
  were given, exactly until something is sold. Between the debit and the row of
  a trade or a market the fee is `PendingFee`. The surplus is this sum seen
  from the side of the debts.
- `TradedInv`: every sale of every log, and the one under way, is covered by
  the position that its seller had before it (`SoldFrom`).
- `LimiterInv`: no two addresses share a bucket, in the map or in requests, and
  no request arrives for an address between the look of the cleanup at its
  bucket and the delete. The refinement maps a bucket that is missing or
  forgotten to a full one.
- `StartupInv`: what the statements of the running migration have done so far
  (`StatementsDone`) is what recording it then claims; the column of the old
  administrators is not dropped before they have their permissions
  (`RightsMoved`, `RightsMoving`); and a start that met no failure has done
  everything up to where it is (`CleanSoFar`).
- `SessionInv`: `localStorage`, the state of a tab, a login answer under way
  and the row a payment has read each say of their user only what the server
  has said of that user.
- `ViewInv`: while the requests of a view do not overlap, all it waits for is
  of its key, and what it shows when it waits for nothing is too
  (`InSequence`).
- `PageInv`: no answer to a read is older than the last trade confirmed
  (`RequestFresh`), an undisturbed page has asked for its details once
  (`DetailsOnce`), and a panel waits for shares of the market that it shows.
- `CreateInv`, `AddUserInv`, `ProfileInv`: what the server has done is told by
  the stage of a submission; in the profile, the answer to the only save makes
  up for the only difference between page and row (`OneSave`).
- `BookInv`: `calc` is what the calculators answer for the log, and every
  prefix of the log has a price (`LogOk`). The rest is lemmas about the stages:
  all of them answer in integers (`ScaledTyped`, `AdjustedTyped`,
  `ValuationsTyped`); a queue that deals out r credits gives r of its members
  one (`PlacesAreCounted`), so that the corrections hit their sum
  (`PositiveExcess`, `NegativeExcess`, `ValuesAreDealtOut`); raising a row
  leaves the sum of its side alone, and a row that stays below one share knows
  no donor afterwards either (`RaiseKeeps`, `EnsureKeeps`).

### What is assumed

The constants satisfy the assumptions their modules name; TLC evaluates them in
every run of a module that extends theirs. Three groups of theorems have
further hypotheses:

- The theorems of `BookProofs` are about behaviours in which `PriceDefined`
  always holds: `Spec /\ []PriceDefined => ...`. `CalculateMarketProbabilities`
  divides by the subsidy and all shares. The code does not keep that sum
  positive (see above), and where it is not the calculators compute with
  infinities and negative prices, which the model does not define. Every state
  of the runs of `MarketBook` satisfies it.
- `PriceFollowsMoney` assumes `InitialYes = InitialNo = 0`, the shipped values:
  with initial shares the price before the first row and after it have
  different formulas (`InitialMarketProbability` is a constant of its own).
- The theorems of `LedgerProofs` are about one request at a time
  (`Workers = {w}`), finitely many users (and markets), and calculators that
  keep the pools: `Spec /\ []PoolKept => ...`. Two requests at a time break all
  three properties by lost updates. `PoolKept` is what the handlers leave to
  the calculator without checking it: nobody's position in an open market is
  worth more than the pool, only those with a row have shares, and a
  resolution pays the pool or nothing, to those with a row. `PoolsAreKept`
  replaces it by a condition on the calculator alone,
  `TradesKeepPools(BetLogs)`, which TLC evaluates for the shipped calculators
  in every run of `MCExchange`. It is a real hypothesis: for four rows of
  larger amounts the shipped calculators break it (`PaymentsMatchPool`), and
  the payments of `Ledger` are then not what the handlers make.
- `HandlersImplementLedger` and `MetricsAddUp` assume `~CanFail`: a request
  that dies half way leaves `Ledger`, and the metrics do not know of a fee
  without a row. `CreditsComeFromSales` does not assume it.
- `MetricsAddUp` assumes `BuySharesFee = 0`, the shipped value: the metrics do
  not count that fee.

### How sums and loops are proved

The library's induction theorems take a predicate as a parameter, and no
installed prover instantiates it. `MathProofs` therefore states induction over
finite sets with a set of good subsets instead of a predicate (`SetInduction`),
which follows from a least counterexample (`WFMin` for the order of the
naturals); and that a function which is defined by taking one element away
after the other exists (`FoldExists`). From these two come the laws of `SumOf`
(an element more, one term changed, two terms, two sides, a constant, terms
that are zero, the image of a set) and the loop of `EnsureMinimumPayouts`. A
loop over rows is the set of rows it has visited. A step that changes one
balance, one pot or one payment then changes the sum by the change of that
term (`SumChanged`), whatever the tables hold.

### Only model-checked

- Liveness: `WinnersPaid`, `PasswordChangeEndsSession`, `SpinnersEnd`,
  `ResolutionAppears`, `SubmissionSettles`, `LimitersReleased`. Fairness and
  ENABLED are out of the prover's reach.
- That the shipped calculators keep the pools, which is evaluated for all logs
  of the instance; it is false for some longer ones.
- The claims that the code breaks, which are counterexamples.
- That the model's rounding is that of float64: `fp` is an assumption about the
  arithmetic, argued for above.


## 5. Not modelled

- *Financial snapshots, work profits, leaderboards, listings, displays, dust*:
  read-only sums, sorts and formatting of what the modelled calculators
  compute. They change nothing, no handler uses them, and a module of them
  would restate them. Their pages are in `DataViews`, which takes any answer.
- *Validation and sanitizing*: string matching. `ProfileForm` and `MarketPage`
  have what it does to the texts their properties are about.
- *Security headers, configuration, routing, logging*: no state.
- *Token expiry, API keys, the listing of permissions*: a token is valid until
  its session ends in `Session`; API keys are drawn at random and checked like
  user names.
- *The homepage editor* reads `/v0/content/home` and writes
  `/v0/admin/content/home`, which the server does not have.
- *The chart, the date selector, the emoji pickers*: they draw or pick, and
  keep nothing that another part relies on.
- *Static pages, icons, emoji lists, the style page*, and layouts that no page
  imports (`BuySharesLayout`, `SellSharesLayout`, `MarketProjectionLayout`).

## 6. Plan

Done, in this order: `SaleMath`; `MarketMath`, `PositionMath`, `MarketBook`
(the money formulas everything else depends on); `Exchange` with its safety
properties; `Ledger` and `ExchangeLedger`; `Session`, `DataViews`,
`MarketPage`, the forms; `TokenBuckets`, `RateLimiter`, `Startup` and `Server`;
`SystemMetrics`; the proofs above: rows and images of `Exchange`, the server's
process, the client, the calculators, and at last the accounts of the exchange:
`Ledger`, the money and the metrics. Every safety property of the passing runs
is now a theorem.

What could follow: a condition on amounts under which the shipped calculators
keep the pools, to take the place of `TradesKeepPools`; the refinement of a
ledger that allows a request to die, with the credits that are then lost; and
the leaderboards, should they come to feed a handler.
