# A verification project for auto-trade-server

TLA+ models of the server under `src/`, the TLC configurations that check them
on small instances, and proofs (TLAPS) of their main properties for every
instance.  `PROJECT.json` lists the components, the runs, the mutants, the
findings, the hazards and, definition by definition, the lines of the source
that each definition stands for.

The server is a NestJS process on one Node thread, with Postgres behind TypeORM.
It keeps a WebSocket to the brokerage (KIS), polls the brokerage's REST API,
copies prices and balances to the database, runs trading strategies on every
trade it hears of, and serves a REST API and a socket.io gateway to browsers.
There are no locks and almost no transactions: whatever happens between two
`await`s of one handler may be a step of another.  That is what the models are
about, so **an action is what runs from one `await` (or event) to the next**.

## 1. Inventory

| Part (source) | State | Operations | Talks to | What is hard | What makes it correct |
|---|---|---|---|---|---|
| Feed client (`infrastructure/external/kis-websocket.service.ts`) | `ws`, `isConnected`, `isConnecting`, attempts, timers, heartbeat, key, code list, `subscribedStocks` | bootstrap, connect, socket events, async 'open' handler, reconnect timer, cron monitor, subscribe, unsubscribe, shutdown | KIS, stock table, realtime engine (events) | three callers of `connect()`, listeners that do not know whether their socket is current, handler overtaken between awaits, timers nobody can cancel | one socket, one heartbeat, truthful flags, the feed comes back, listed codes are streamed |
| Browser gateway (`modules/websocket/websocket.gateway.ts`) | two maps by user | connect, disconnect, subscribe, unsubscribe, send, broadcast | browsers | several sockets of one user share the entries | events reach only their user; no entry without a client |
| Balance polling (`kis-schedules.ts`) | none but the runs under way | boot poll, ten-second cron | KIS REST, realtime engine | runs overlap, KIS may not answer | numbers reach their owner's rows, and in the end the newest ones |
| Realtime engine (`modules/websocket/realtime-engine.service.ts`) | none but the handlers under way | `processTradeData`, `processBalanceData` | stocks, strategies, portfolios, orders | handlers overlap; balance calls are not awaited | see BalanceSync, TradeEngine |
| Portfolios (`modules/portfolios/portfolios.service.ts`) | rows of portfolios and holdings | create, update, delete, remove a holding, update from KIS | database | load - assign - save over another's write | no row shows another user's numbers |
| Seeding (`infrastructure/config/database-seed.service.ts`) | tables | once per boot | database | runs after the first poll has begun | |
| Strategies (`modules/trading-strategies`) | rows of strategies and signals | create, update, toggle, delete, execute | realtime engine, indicators | the engine works on rows read before; toggle and update race | only active strategies act, each once per trade |
| Stocks (`modules/stocks/stocks.service.ts`) | rows of stocks | price update, create, delete | engine, REST | load - save | price of a real trade |
| Technical indicators | none | pure arithmetic over a history | strategies | boundaries, text decimals | equals its definition |
| Orders (`modules/order`) | none | `executeOrder`, whose body is empty | | | |
| Transactions (`modules/transactions`) | rows of transactions | create, create automatically, update, delete, statistics, analysis | REST | check, then write | completed ones never change; reports agree with the rows |
| Portfolio returns (`modules/portfolios/portfolio-returns.service.ts`) | none but the reports under way | returns, allocation, distribution, risk, benchmark, trends | portfolios, stocks | a report is many queries over tables that move | a report nothing disturbed shows what the tables hold |
| Notifications (`infrastructure/services/notification.service.ts`) | rows of notifications, sends under way | listeners, send over three channels with retries, read, clean up, send again | e-mail, settings | channels fail one by one; reading, sending and retrying race | SENT means that all was tried; read stays read; sends end |
| Notification settings (`user-notification-settings.service.ts`) | rows of settings | get or create, update, delete | REST, notifications | first requests overlap, and no column is unique | one row stays one row |
| KIS REST client (`kis-api.service.ts`) | token and expiry | token refresh, queries | KIS | refreshes overlap and fail; two zones' times | requests carry a token that is not over |
| Performance and error monitors | bounded arrays, counters | record, reset, metrics, alerts, statistics, clear | interceptor, cron | windows at their limits | windows hold the latest, counters count all |
| Users and authentication | rows of users | register, login, update, deactivate | REST | check then insert; load - save | one user per e-mail |
| E-mail, templates, HTTP layer, entities | none of their own | | | | |

Notifications, notification settings and the performance interceptor are
provided by no module that the application imports, or called by nothing that
is, and neither is what records errors and query times; of the monitors only the
cron of the system's samples and the getters run today.  All of it is modelled as
it is written.  The cron that would poll prices is commented out.

`PROJECT.json` has the same list with what each part's status is.

## 2. Modules

| Module | What it is |
|---|---|
| `KisLink` | abstract specification: one link that is dialled only when down, with one keep-alive, and that comes back |
| `KisWebSocket` | the feed client in detail; implements `KisLink` |
| `KisWebSocketProofs` | its invariants and the refinement, proved |
| `TradingGateway`, `TradingGatewayProofs` | the browser gateway, and its invariants proved |
| `BalanceSync`, `BalanceSyncProofs` | composition of the polling, the realtime engine's balance half, the portfolio service, the seeding and the process itself, and its invariants proved |
| `StrategyConditions` | how conditions and indicators become a vote; no state of its own |
| `TradeEngine`, `TradeEngineProofs` | composition of the realtime engine's trade half, strategies, signals and the stock's row; its invariants, and what holds of every vote, proved |
| `PriceRegister` | abstract specification: one register for a stock's price, which each trade writes at one moment or not at all and which empties when the stock is taken off the list |
| `StockLedger`, `StockLedgerProofs` | composition of everything that writes the rows of stocks, and of the transactions that refer to them; implements `PriceRegister`; its invariants and the refinement proved |
| `Accounts` | the rows of users behind the authentication |
| `Transactions` | the rows of transactions, their edits, and the reports over them |
| `PortfolioReturns` | the return reports, as queries over tables that change |
| `KisToken` | the cached token of the brokerage's REST client and the calls that share it |
| `StableSort` | what `sort()` of an array by numbers does; no state |
| `Monitors` | the windows, counters and lists of the performance and error services |
| `Notifications` | notifications that are sent, retried, read, cleaned up and sent again |
| `NotificationSettings` | the rows of a user's settings |
| `ReportTheorems` | what reports are computed with, for any input, proved: sums over finite sets, largest and smallest, whole division, the stable sort |
| `RestServicesProofs` | the invariants of `Accounts`, `Transactions` and `PortfolioReturns`, proved |
| `BackgroundProofs` | the invariants of `KisToken`, `NotificationSettings`, `Notifications` and `Monitors`, proved |
| `MCRestServices`, `MCBackground` | services that share no state in one run each: the variable `service`, chosen at the start, says which of them a behaviour is of, and the others stay where they start |
| `MC*` | values for TLC |

Definitions whose names are longer than those of the code's operations
(`ConnectUnlessConnected`, `ListAllPortfolios`, ...) and that stand just before
one of them are *mutants*: the operation with a plausible mistake.  Nothing in a
specification uses them; they are there to see that each property notices the
mistake named in `PROJECT.json`.

### KisWebSocket

State is the service's fields under their own names, plus what `ws` and KIS keep
(`socketState`, `registered`, `replies`).  `opening[s]` says at which `await` the
'open' handler of socket `s` is: the key (`"token"`) or the stock list
(`"stocks"`).  `Connect` and `HandleDisconnection` are helpers, because three
callers and two events share them.  `NewSocket` overwrites `this.ws` without
closing the old socket, as the code does, and every socket event acts on the
service's fields without asking which socket is current, as the code does.

`SubscribeReply` adds to `subscribedStocks` for both answers of KIS, because the
code looks for 'SUBSCRIBE SUCCESS', which 'UNSUBSCRIBE SUCCESS' contains.  An
unsubscription is sent with `tr_id` `""`, which names no registration: whether KIS
takes the code off or refuses and streams on is a choice in
`UnsubscribeStockPrice`, and `subscribedStocks` forgets the code either way.  For
such codes the map can be wrong both ways, so `StreamedIsKnown`,
`SubscribedIsCurrent` and `StreamsListedCodes` speak of the others.  Nothing calls
`unsubscribeStockPrice()` or `unsubscribeAllStocks()` today, and nothing outside of
the service `isSubscribed()` and `getSubscribedStocks()`.

A *subscription* is taken to be accepted (`Subscribe`).  KIS may refuse one (a limit
of registrations, a bad key); nothing in the code would notice, the code would not
be asked for again before the next connection, and `subscribedStocks` might still
name it from the last one.  `SubscribedIsCurrent` and `StreamsListedCodes` rest on
that assumption.  What is subscribed is the list, not the stock table: a code that
is inserted while the connection is up waits for the next one.  Of the approval key
the model has whether there is one, not which.

A failed token or stock query ends the process (`Exit`): the 'open' listener is
async and nobody handles its rejection.

Left out: the contents of trade messages, the orderbook case falling through to
the trade case, `sendOrder`/`cancelOrder` (no callers), the demo mode (in which
`connect()` returns at once), how often a code occurs in `stockCodeList` (it
grows with every connection).  A malformed URL, which would make the `WebSocket`
constructor throw, is not a state of a configured server.

### TradingGateway

Handlers are synchronous, so each is one action.  `subscribers` is the set of
keys of `clientSubscriptions`; `confirmed[s]` is a history variable: what the
server has told socket `s` it is subscribed to.

### BalanceSync

A poll is a slot: the users it still has to ask for (`polls`), and for each user
that was answered the version of the account that was emitted (`emitted`), while
`getUserPortfolios` is awaited.  Then every call that `processBalanceData` starts
and does not await is an element of `calls`, first waiting for its row
(`"find"`), then for `save()` (`"save"`).  A number is the version of the account
it was read at and whose account it is, which is what the properties tell apart.
`Crash` is what Node does with an unhandled rejection; `Boot` starts the process
again and begins with a poll, because `KisModule` is initialised before
`DatabaseSeedModule`.  `save()` of TypeORM re-reads the row, writes the columns
that differ and inserts a row that is gone.

An edit of a portfolio (`Edit`) holds the row that was loaded and what the
request sent.  Compiled for ES2023, a DTO owns every field of its class, so
`Object.assign` sets an unsent name to `undefined`, and `save()` writes no
property that is `undefined`: an edit writes back the totals it loaded, but not a
name it was not sent.

### StrategyConditions

Of an indicator, the model keeps what `evaluateStrategyConditions()` makes of it:
it votes to buy or to sell, it counts without voting, or it does not count.
`getRecentPrices()` repeats the stored price for every day, so no calculation
ever sees a movement; `FlatOutcomes` says what each of them then returns,
including the text decimals of the driver (the first addition of a simple
average is a concatenation).  The arithmetic is floating point and left out.
A bound of 0 is a bound that is not set, since the code tests truth.

### TradeEngine

`phase[t]` is the `await` at which the handler of trade `t` is; `queue[t]` holds
the rows that it listed and has not come to; `pending[t]` is the signal that it
saves.  `updates` and `toggling` are requests between their load and their save.
`seen` and `ran` are history: what the table held from the trade's arrival to its
listing, and whose turns came.

A turn's queries are one step: the only step of another that could fall between
them and matter is `deleteStock`, whose effects a turn also has when the deletion
comes right before it.  Queries may fail wherever the code catches.  The order of
the strategies is left out, so any order is covered.  `executeOrder()` has an
empty body; whether a strategy trades automatically makes no difference.

### StockLedger

`entities[w]` is what trade or query `w` has loaded, or made, and not yet saved:
its id (`None` if it is new), its columns, and which of them are undefined.
`SaveStock` is TypeORM's `save()`: it skips what is undefined and inserts a
loaded row again if it is gone.  `updateStockPrice()` works with an empty object
for price data, so the current price of its entity is undefined, and a trade that
is stored between its load and its save survives only because of that; the
mutant `RequotedAsLoaded` shows what happens once it is written back.  A price
is named by the trade it comes from, which tells apart as much as the properties
need.  `before[t]` is history: whose prices were stored when trade `t` came.
`PriceRegister` has the stock as the row of the upper-case symbol, a trade's
moment as its save, and knows no queries: to it, a query that rewrites a row does
nothing, and one that makes a row lists the stock again without a price.

All requests are about one symbol, in two spellings: lookups use the upper-case
one, `updateStockPrice()` makes rows with the spelling it was sent.  A draft is
`createTransaction()` between its queries.  Its branch that makes a stock always
ends in `OrderFails`: the stock has no company name and the column is NOT NULL.
Since `createTransaction()` saves COMPLETED transactions only,
`updateTransaction()` and `deleteTransaction()` refuse every row there can be;
`createAutoTradingTransaction()`, which makes rows that can be edited, is called by
nothing yet and is in `Transactions`; `saveStockInfo()` is called by nothing.
The foreign keys have no `onDelete`, so that the database refuses to delete what
a transaction refers to; holdings and signals, which are also in the way of a
deletion, are left open, which only allows more deletions.  The engine's own view
of the stock row, which a turn only reads, is in `TradeEngine`; a portfolio that
comes back with the save of an edit is in `BalanceSync`.

### Accounts

`requests[r]` is a request under way: whose row it is about, as the
authentication found (`validate`), and the row it is going to save, once
`findById()` has returned it and the request has assigned to it.  A registration
has a row and no user.  Hashing is the time between loading and saving, so it is
not a step of its own.  `Insert` draws from the id sequence even if it is
refused, and the seeded user has id 1 without having drawn it: the first
registration of a fresh database is refused, in the model as in the code.
Nobody can log in as the seeded user, whose stored hash is no hash, so nobody
sends its requests (`HasToken`).  Tokens do not expire here, which only allows
more requests.

A save writes back every column it loaded.  So a deactivation lasts only if no
update that came before it is still hashing, and `ClosedStaysClosed` claims no
more than the code keeps: an account that is deactivated and has no request under
way stays so.

### Transactions

`edits[e]` is an edit or a deletion past its check and before its write: the row
as it will be saved, what was not sent, and (history) the status that the check
saw.  A failed automatic transaction is the only row that an edit is let
through to; as soon as one edit makes it COMPLETED, every other edit that has
been checked can still write it, which is what `CompletedIsFinal` leaves out and
nothing more.  `WriteEdit` inserts a row that was deleted meanwhile, as `save()`
does, with the columns' defaults for what was not sent.

Reports are operators over what one query finds.  `pairBuySellTransactions()`
takes a purchase with *every* later sale of the stock; `NetProfitOfRoundTrips`
says for which histories that is the money earned.  Amounts are whole dollars, so
that sums are exact.  `getStrategyTransactionStats()` only reads: it compares the
notes with a `%...%` text for equality, and so finds nothing.

### PortfolioReturns

`report` is the one under way: the holdings it loaded, the prices so far, and
(history) whether a table was written or a query failed since it began
(`disturbed`).  `getCurrentPrice()` gives 100 both for a stock without a price and
after an error, so a report cannot tell the two from a price.  The distribution
loads each holding again and throws if one is gone; the others do not notice.
Percentages are in hundredths and rounded down.  The risk, benchmark and trend
reports are arithmetic on the total's percentage and are left out.

### KisToken

`calls[c]` is a call for a price or for holdings: asking for a token since a
time, or requesting with one.  Each call that finds no valid token asks for its
own.  `RefreshFails` sets the cache to null, whoever filled it.  KIS gives the
expiry as a text of its own zone, which the client compares with its local time:
`Lag` is how far that is behind.  A token that is in the cache may so be over for
less than `Lag` when it is used, which is the most that can be promised.

### Monitors

Each operation runs without an `await`; what matters is which samples a report
can still see.  `sampled` and `raised` are history: everything since the last
reset, or clearing.  The statistics count all errors by type, module and hour, but
by level only those that are kept, as `getErrorStatistics()` does.  A list is cut
after a stable sort by timestamp, so of errors of one hour the more severe come
first.

### Notifications

A send is a record: the step it is at (`"creating"`, `"delivering"`, or the status
it is about to write), the row, and for each channel that the settings had on the
attempt and its state.  `updates[u]` is a status that has loaded its row and not
yet saved it, of a send or of a reader.  `Retrier` is the sender that
`retryFailedNotifications()` runs, one notification after another.  Nothing in the
code keeps two calls of it from overlapping, which would load the same FAILED rows
and send them twice; nothing calls it today either, and the model has one run of it
at a time.  `HandleEvent` stands for the listeners.

What the code does and one might not expect: SENT does not mean delivered, since
`Promise.allSettled()` does not reject; FAILED only comes from a query that fails
while SENT is written; a retry asks whether channels are on but not whether the
type is; a notification that is PENDING when the process ends is never sent
again; SENT overwrites READ.

### NotificationSettings

`settingsRequests[r]` is a request past its query: the row it will save or
remove.  `userId` is not unique, and two first requests that overlap insert two
rows.  `getSettingsStatistics()`, which reads `.enabled` of columns that are
booleans and so counts everybody as having switched off, only reads.

## 3. Runs

| Run | Instance | Question |
|---|---|---|
| `kis_websocket` | 2 sockets, 2 codes (1 that can be unsubscribed), 1 attempt, 1 timer, 2 heartbeats, with fairness | the safety of the feed client; does it implement `KisLink`, does the feed come back, are listed codes streamed |
| `kis_shutdown` (violated) | the same with 1 code, 2 attempts, 2 timers | is the service quiet after `onModuleDestroy` |
| `gateway` | 3 sockets, 2 users, 2 channels, symmetric | who is sent what |
| `gateway_reachable` (violated) | the same | is a user with a live socket reachable |
| `balance_sync` | 2 users with a portfolio each, 2 overlapping polls, 1 boot | do numbers stay with their owner |
| `balance_converges` | 1 user, 1 portfolio, 2 polls, 2 versions, 2 boots, with fairness | do tables come to show the account |
| `balance_crash` (violated) | 1 user, 2 portfolios | does a poll end the process |
| `trade_engine` | 2 trades, 2 strategies, 3 requests, symmetric in both | which conditions may signal, who gets a turn, what an update keeps |
| `stock_ledger` | 3 trades, 2 queries, 1 order, 3 stock ids, 2 users with a portfolio each, 2 spellings, symmetric | do prices go back, are the rows one register that only trades write, is a symbol's row unique, do transactions refer to what is there |
| `rest_services` | `Accounts` with 5 requests, 3 ids, 3 addresses (1 seeded), symmetric; `Transactions` with 3 rows of 2 stocks, 1 edit, 2 days; `PortfolioReturns` with 3 holdings of 2 stocks, 1 write | is an address's row unique, does a quiet deactivated account stay so; are completed transactions final, do reports add up; are undisturbed reports exact |
| `background` | `KisToken` with 2 calls, 3 tokens; `Monitors` with 3 records, windows of 1 and 2; `Notifications` with 2 channels, 2 attempts, 1 sender, the retrier and 1 reader, 2 rows, with fairness; `NotificationSettings` with 2 requests, 2 rows | are requests sent with tokens that are not over; do windows and counters agree with what was recorded; does SENT mean tried, does read stay read, do sends end; does one row stay one row |
| `trade_range` (violated) | as `trade_engine` | does a price outside of a strategy's range prevent a signal |

Bounds.  Two sockets suffice because the invariant under test is that there is
never a second one; the proofs remove the bound.  `MaxReconnectAttempts` is 1
instead of 5: the code only compares the counter with it, and 1 lets TLC see
both a retry and, at the next failure, giving up.  One pending timer races with
the cron and with the bootstrap for `connect()`; a second one, which needs a
connection that opens and closes before the first fires, would wait here, and the
proofs, which are for any number of timers, cover it.  `MaxHeartbeats` bounds what
only grows when something is wrong; a mutant reaches it.  Three gateway sockets
let two be one user's and one another's.  Two poll slots are the smallest
overlap; a third adds no new kind of interference, since calls interfere in
pairs (one loads, another saves).  Two boots let a crash be followed by a run.
In `balance_sync` the slots are symmetric; nothing distinguishes them.  Three
requests in `trade_engine` allow two strategies and a change of one, or one
strategy and two changes of it that overlap, while two trades are handled;
`deleteStock` comes on top.  One price is enough: with the two kinds of
conditions (the defaults of two types, and a range that the price is below) it
buys under one and sells under another.  In `stock_ledger` three trades are one
that is stored, one that comes after that and one that overlaps with it; two
queries race to make a row; three ids are the seeded row's and one for each
query.  In `Accounts`, five requests are a registration that draws the seeded id, one
that works, a deactivation and two that overlap with it.

In `Transactions`, three rows are a purchase and two sales of it, two purchases
and their sale, or a trade of another stock among them; one edit and the statuses
COMPLETED and FAILED are what `CompletedIsFinal` tells apart, and the proof allows
any number of edits and all statuses.  In `PortfolioReturns`, one write is enough
to disturb a report, and three holdings have a middle one.  In `KisToken`, two
calls are the one that wipes the token and the one that brought it; a lifetime of
2 with a timeout and a lag of 1 lets a token run out while a call waits.  In
`Monitors` the windows hold 1 and 2 instead of 50, 100 and 1000, so that three
records overflow each of them.  In `Notifications`, two attempts instead of three
are a first and a retry that is the last; one of the two channels may fail; the
sender, the retrier and the reader are one of each who write a row.  In
`NotificationSettings`, two requests are the smallest overlap.

Fairness.  Node runs every timer that is due and resumes every `await` that
settles: weak fairness.  Of the outside world the live runs assume that
handshakes end, that KIS accepts and confirms what is subscribed and does not
refuse all of infinitely many attempts to connect (strong fairness), and that the listing of portfolios does not fail for
ever.  These are assumptions, not facts: the code sets no handshake timeout and
never looks for the answer to its ping, so a half-open connection would be
reported as connected for ever.  No fairness is assumed of users, of the account
or of whoever starts the process.

`TotalsConverge` needs that the edits of a portfolio end: a client that keeps a
`PUT` in flight can write the old totals back for ever.

Sends and retries of notifications are weakly fair: mail servers and the database
answer or time out, and timers fire (`NotificationsFairness`).  `SendsSettle` does
not need that anything succeeds, nor that the process stays up.

Deadlock is checked except where the process may stop (`Exit`, `Crash` with no
boots left) and where the instance is used up (`trade_engine`,
`stock_ledger`, `rest_services`, `background`: all trades handled, all requests
made, all ids, tokens and time used).

## 4. Proofs

All theorems hold for every value of the constants that satisfies the module's
named assumption.

* **KisWebSocketProofs.**  `ConnInv` (types, the heartbeat handle, one live
  socket, truthful flags, one heartbeat) is inductive: one-live-socket alone is
  not, since `connect()` looks only at the flags; the flags must be truthful, and
  for the 'close' event to clear the right flags there must be one socket.
  `FeedInv` adds that a handler past its key request holds a key, that a socket
  that is not up has no registration and awaits no answer, that the code list
  covers what is known or about to be, that a connection whose handlers have ended
  is registered for the whole list, and that what is registered is known or about to
  be (`StreamedIsKnown`), each apart from the codes that someone unsubscribes.  The refinement
  (`ImplementsTheLink`) follows action by action from `ConnInv`.
* **TradingGatewayProofs.**  `Inv` says that a socket that is gone has no data,
  that entries exist only for users with sockets, and, for the properties about
  subscriptions, that each channel of a user is confirmed to one of the live
  sockets and that a sole reachable client has exactly its own channels.
* **BalanceSyncProofs.**  `Inv` follows the numbers from the poll to the row:
  calls, edits, portfolios and holdings each carry only the owner's.
* **TradeEngineProofs.**  `Inv` follows a row from the table to the signal.
  `SeesTheTable`: a handler that has not listed has seen what the table holds
  now.  `QueueIsFresh`, `PendingIsFresh`: listed rows and the signal being saved
  were active and seen.  `SignalsHadTheirTurn`, with what is queued or pending:
  a signal's strategy has had its turn, from which one signal per trade follows.
  `ActiveIsListed`: what was active all along is listed or has had its turn.
  `UpdatesHoldWhatWasSent`: a column that was not sent is undefined in the
  update, which is why another request's change survives.  The vote: an indicator
  votes for one side and only if it counts, and a price cannot be over one bound
  and under the other without both counting; hence buying and selling votes
  together are at most the conditions that count, and there are never two
  majorities (`MajoritiesExclude`); with no bound broken and no indicator voting,
  the result is HOLD (`NoVoteNoSignal`).

* **StockLedgerProofs.**  `Inv` relates what is being saved to the tables.
  `RowsOfTrades`: a price in a row has been stored, and only the row of the
  upper-case symbol has one.  `SavesUpper`: what was loaded has the upper-case
  symbol, and so has its row, so a row that is inserted again cannot take
  another's place.  `TradesSaveOnce`: a trade saves its own price and is not stored
  before, so no trade that is stored can have come after it was: that is why a
  late save does not break the order.  `QueriesSaveNoPrice`: the current price is
  undefined in what a query saves.  `DraftsAreOwned`: a draft's portfolio is its
  user's.  The refinement (`ImplementsTheRegister`) goes step by step: with one
  row per symbol the register is that row (`RegisterIsRow`), a save of a trade
  writes it, a save of a query changes nothing or lists the stock again
  (`SaveToRegister`), and a deletion takes it off the list.

* **ReportTheorems.**  The sums of the community modules are folds that take
  their elements in an order of which nothing is known.  `SumsDefined` and
  `SumsAgree` say that every order gives the same, and everything else is by
  adding one element at a time: `SumLinear`, `SumByParts`, `SumBijection`,
  `SumAtMost`, `SumHasSummands` and others.  The induction is over a set of
  numbers (`SetInduction`, which follows from the well-foundedness of `<`), or of
  subsets (`SubsetInduction`), that stands for the predicate, since a predicate
  cannot be a parameter.  `RankIsOrder` counts what goes before a position;
  `SortedIsSorted` follows: each position comes once, the largest key first.
  `RecursionExists` gives a recursive function the equations it is written with.

* **RestServicesProofs.**  Each service has its own inductive invariant.
  *Accounts*: `RequestsKeepEmail`, what a request saves has the address of the row
  that it replaces, so only inserts give out addresses, and those the unique
  column guards; with it, `ClosedStaysClosed` follows action by action.
  *Transactions*: by `TransactionsInv` an edit that is under way saw a status
  other than COMPLETED, and rows have ids that were drawn; so of a completed row
  that satisfies the premise of `CompletedIsFinal` no edit is under way at all, and
  only inserts, which take new ids, are left.  `ReportsAddUp` holds of every table
  of rows: the totals by sums over disjoint parts, the most traded stock because a
  scan keeps the largest so far (`ScanFindsMost`), and the profit of round trips
  because a round trip has a single purchase or a single sale, so that its pairs
  count each share once (`RoundTripProfit`), and the rest is a sum over stocks.
  *Reports of returns*: `UndisturbedIsFromTables` says that a report which nothing
  disturbed has, at every position it has come to, the holding and the price that
  the tables hold now, each holding once.  So what it adds up is a sum over the
  held rows in some order (`SumBijection`); the shares, each rounded down, are no
  more than the whole (`SharesOfTotal`); and the best, worst and median are at
  their places in the sorted order (`MiddleOfSorted`).

* **BackgroundProofs.**  *Token*: by `TokenInv` what is cached was issued and its
  expiry is the one KIS gave it, calls that wait began no longer ago than the
  timeout, and a token that is on its way was issued since its call asked.  With
  `Timeout < Lifetime` a token cannot run out on its way, hence
  `SentWithUnexpired`, for any number of calls.
  *Settings*: by `SettingsInv` a removal has the id of the row it removes;
  `OneRowStaysOne` is then a statement about cardinalities: with a single row and
  nobody inserting, a write replaces that row or removes it.
  *Notifications*: by `NotificationsInv` a channel is past its last attempt only as
  failed, a send leaves `"delivering"` only when all its channels are settled, and
  a status that a sender is going to save is the one its send is at; these give
  `SentMeansTried`, and `ReadIsFinal` follows action by action.
  *Monitors*: by `MonitorsInv` each window holds the latest of all that was
  recorded (`PushKeepsTheLatest`: appending and then dropping the first keeps it
  so, whatever the length), and each counter is the number of positions of the
  history with its key, which one more record increments.  The list of recent
  errors is a stable sort that is cut (`RecentAreSorted`), and an average lies
  between the smallest and the largest sample (`AverageIsReached`).

Every invariant and action property that a passing run checks is proved.
Model-checked only is what needs fairness (`Reconnects`, `StreamsListedCodes`,
`TotalsConverge`, `HoldingsConverge`, `SendsSettle`), which is beyond the prover.

## 5. Findings

* `kis_shutdown`: the 'close' event after `onModuleDestroy`, or a timer already
  pending, opens the connection again.
* `gateway_reachable`: closing one of a user's two sockets makes the user
  unreachable.
* `balance_crash`: a user who creates a second portfolio while the account holds
  a stock ends the process at the next poll.
* `trade_range`: a price below a strategy's minimum makes a BUY signal, and one
  above its maximum a SELL signal, where the DTO says that there is no trading.

## 6. Not modelled

* Rendering of e-mails and templates, SMTP, controllers, guards, middleware and
  interceptors: they pass values on, or talk to the outside world, and keep no
  state.  Whether sending an e-mail fails is in `Notifications`; what the
  authentication lets through is in `Accounts`.
* Floating point: the arithmetic of indicators, and the rounding of fees and
  returns, which are whole numbers here.
* Of the error tracker: its own notifications (which are logs), searching and
  rankings.  Of the notifications and settings: counts, lists and dashboards.  They
  only read.
* Orders: `executeOrder()` is empty, and nothing calls `sendOrder`.
* Entities that no service uses (price alerts, backtest results).

Hazards that the models contain and no property states, because what one would
wish for does not hold in this code and nothing in the repository promises it:

* A deleted row stays deleted: the `save()` of an edit inserts it again
  (portfolios, holdings, strategies, stocks, transactions, settings).
* A deactivation lasts: an update that is still hashing undoes it.
* A feed that is half open is noticed: no answer to the ping is looked for.
* The process survives a refused key or a failing stock query.
* `isSubscribed()` is right about a code that was unsubscribed, and a subscription
  that KIS refuses is asked for again.
* A socket's subscriptions survive another socket of its user.
* A name that is changed while a poll saves the portfolio stays changed.
* A removed holding does not end the process at the next boot.
* A notification that is read while it is being sent stays read.
* A holding that the account no longer has goes away: it keeps its last quantity.
* Two overlapping toggles of a strategy cancel each other out: both write the same
  status.
* The analysis of transactions is the money earned beyond round trips: with two
  purchases and two sales a share is counted more than once.

## 7. What is left

Every component that keeps state is modelled.  Open are

1. an abstract queue that the sends of `Notifications` implement, and an abstract
   mailbox per user for `TradingGateway`;
2. the effect of a half-open connection on the feed client, if a timeout for the
   ping's answer is added to the code.
