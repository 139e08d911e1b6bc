---------------------------- MODULE BalanceSync ----------------------------
(***************************************************************************)
(* How a brokerage account reaches the database: every ten seconds         *)
(* KisSchedules asks KIS for each user's balance and emits it;             *)
(* RealtimeEngineService.processBalanceData() lists the user's portfolios  *)
(* and starts, without awaiting them, one call that copies the account's   *)
(* totals into each portfolio and one per position that copies its         *)
(* quantity.  Nothing keeps two polls, two calls or a call and a user's    *)
(* request on the same row apart; a call that rejects has no handler, and  *)
(* Node ends the process.  An `await` is where other steps come in         *)
(* between, so an action is what runs from one to the next.                *)
(*                                                                         *)
(* The database is external: save() of a loaded entity re-reads the row,   *)
(* writes the columns that differ (the entity's stale ones included) and   *)
(* INSERTs a row that is gone; a row with holdings cannot be deleted, nor  *)
(* a holding inserted under no portfolio (foreign keys, synchronize).  No  *)
(* query fails for another reason, except the one whose failure is caught. *)
(***************************************************************************)
EXTENDS Naturals

CONSTANTS
    Users, Portfolios,
    Owner,          \* Owner[p]: portfolios.userId
    SeedUser,       \* the user that the seeding creates
    SeedPortfolio,  \* the id that seedPortfolios() inserts
    Symbols,        \* what an account can hold
    Stocks,         \* the stocks table: what the program knows
    Held,           \* Held[v]: output1 of an account at its version v
    Names,          \* portfolio names, what stands for all a user edits
    Slots,          \* runs of the poll that can overlap
    MaxVersion,     \* bound on the changes of an account
    MaxBoots,       \* bound on how often someone starts the process
    Totals,         \* the item that is no symbol
    Zero, None      \* the numbers of a seeded row; no row, no value

Versions == 0..MaxVersion
Items == Symbols \cup {Totals}

\* Where numbers come from: whose account, at which version.
Data == [user : Users, version : Versions]
Row == [name : Names, totals : Data \cup {None}]
Edit == [name : Names \cup {None}, totals : Data \cup {None}]

ASSUME BalanceSyncAssumption ==
    /\ Owner \in [Portfolios -> Users]
    /\ SeedPortfolio \in Portfolios /\ Owner[SeedPortfolio] = SeedUser
    /\ Stocks \subseteq Symbols /\ Totals \notin Symbols
    /\ None \notin Versions /\ None \notin Row /\ None \notin Data /\ Zero \notin Data
    /\ MaxVersion \in Nat /\ MaxBoots \in Nat
    /\ Held \in [Versions -> SUBSET Symbols]

\* A call in flight of updatePortfolioFromKis (item Totals) or updateHolding:
\* waiting for its row, or for save(); name is what the loaded row says.
Call == [slot : Slots, portfolio : Portfolios, item : Items, data : Data,
         phase : {"find", "save"}, name : Names \cup {None}]

VARIABLES
    running, seeding, boots,  \* the process; between its poll and listen()
    account,     \* account[u]: the version KIS is at (external)
    polls,       \* polls[i]: the users that a run has still to ask for
    emitted,     \* emitted[i][u]: BALANCE emitted, portfolios being listed
    calls,       \* the calls nobody awaits
    edits,       \* edits[p]: the entity that an updatePortfolio() will save
    portfolios, holdings,  \* the tables: a row, its numbers, or None
    deleted      \* ids that DELETE /portfolios/:id answered 204 for

processVars == <<running, seeding, boots>>
flightVars == <<polls, emitted, calls, edits>>
tableVars == <<portfolios, holdings, deleted>>
vars == <<processVars, account, flightVars, tableVars>>

TypeOK ==
    /\ running \in BOOLEAN /\ seeding \in BOOLEAN /\ boots \in 0..MaxBoots
    /\ account \in [Users -> Versions]
    /\ polls \in [Slots -> SUBSET Users]
    /\ emitted \in [Slots -> [Users -> Versions \cup {None}]]
    /\ calls \subseteq Call
    /\ edits \in [Portfolios -> Edit \cup {None}]
    /\ portfolios \in [Portfolios -> Row \cup {None}]
    /\ holdings \in [Portfolios \X Symbols -> Data \cup {Zero, None}]
    /\ deleted \subseteq Portfolios

Nothing == [p \in Portfolios |-> None]
Silent == [i \in Slots |-> [u \in Users |-> None]]

\* A database that was seeded; the process is not started yet.
Init ==
    /\ running = FALSE /\ seeding = FALSE /\ boots = 0
    /\ account = [u \in Users |-> 0]
    /\ polls = [i \in Slots |-> {}] /\ emitted = Silent
    /\ calls = {} /\ edits = Nothing
    /\ \E n \in Names : portfolios =
         [p \in Portfolios |-> IF p = SeedPortfolio THEN [name |-> n, totals |-> None]
                               ELSE None]
    /\ holdings = [h \in Portfolios \X Symbols |->
                     IF h[1] = SeedPortfolio /\ h[2] \in Stocks THEN Zero ELSE None]
    /\ deleted = {}

-----------------------------------------------------------------------------
(* The process.                                                            *)

\* An unhandled rejection: everything in flight is gone, the tables stay.
Crash ==
    /\ running' = FALSE /\ seeding' = FALSE
    /\ polls' = [i \in Slots |-> {}] /\ emitted' = Silent
    /\ calls' = {} /\ edits' = Nothing
    /\ UNCHANGED <<boots, account, tableVars>>

\* Starting: KisModule is initialised before DatabaseSeedModule, so the
\* first poll (onModuleInit) comes before the seeding.
Boot(i) ==
    /\ ~running /\ boots < MaxBoots
    /\ running' = TRUE /\ seeding' = TRUE /\ boots' = boots + 1
    /\ polls' = [polls EXCEPT ![i] = Users]
    /\ UNCHANGED <<account, emitted, calls, edits, tableVars>>

\* DatabaseSeedService.onModuleInit(): some portfolio of the user, or a new
\* one, gets the holdings it lacks; no request is served until then.
Seed(p) ==
    /\ running /\ seeding
    /\ \A i \in Slots : polls[i] = {}
    /\ Owner[p] = SeedUser
    /\ \/ /\ portfolios[p] # None
          /\ UNCHANGED <<portfolios, deleted>>
       \/ /\ \A q \in Portfolios : Owner[q] = SeedUser => portfolios[q] = None
          /\ p = SeedPortfolio
          /\ \E n \in Names :
               portfolios' = [portfolios EXCEPT ![p] = [name |-> n, totals |-> None]]
          /\ deleted' = deleted \ {p}
    /\ holdings' = [h \in Portfolios \X Symbols |->
                      IF h[1] = p /\ h[2] \in Stocks /\ holdings[h] = None
                      THEN Zero ELSE holdings[h]]
    /\ seeding' = FALSE
    /\ UNCHANGED <<running, boots, account, flightVars>>

-----------------------------------------------------------------------------
(* KisSchedules.                                                           *)

\* A slot whose previous poll has left nothing in flight (slots only name
\* the runs; how many overlap is bounded by their number).
Free(i) ==
    /\ polls[i] = {} /\ emitted[i] = Silent[i]
    /\ \A c \in calls : c.slot # i

\* The @Cron, whatever the previous run is doing.
CronFires(i) ==
    /\ running /\ ~seeding /\ Free(i)
    /\ polls' = [polls EXCEPT ![i] = Users]
    /\ UNCHANGED <<processVars, account, emitted, calls, edits, tableVars>>

\* getOverseasStockHolding() answers: BALANCE, and the listener runs until
\* its first await.
Answer(i, u) ==
    /\ u \in polls[i]
    /\ polls' = [polls EXCEPT ![i] = @ \ {u}]
    /\ emitted' = [emitted EXCEPT ![i][u] = account[u]]
    /\ UNCHANGED <<processVars, account, calls, edits, tableVars>>

\* It returns null instead: no event for this user in this run.
NoAnswer(i, u) ==
    /\ u \in polls[i]
    /\ polls' = [polls EXCEPT ![i] = @ \ {u}]
    /\ UNCHANGED <<processVars, account, emitted, calls, edits, tableVars>>

-----------------------------------------------------------------------------
(* RealtimeEngineService.processBalanceData and what it calls.             *)

CallsFor(i, u, ps) ==
    {[slot |-> i, portfolio |-> p, item |-> x,
      data |-> [user |-> u, version |-> emitted[i][u]], phase |-> "find", name |-> None] :
        p \in ps, x \in Held[emitted[i][u]] \cup {Totals}}

\* Mutants of an operator stand just before it: what it would be with a
\* plausible mistake, to see that a property notices.
\* processBalanceData() over getAllPortfolios().
ListAllPortfolios(i, u) ==
    /\ emitted[i][u] # None
    /\ calls' = calls \cup CallsFor(i, u, {p \in Portfolios : portfolios[p] # None})
    /\ emitted' = [emitted EXCEPT ![i][u] = None]
    /\ UNCHANGED <<processVars, account, polls, edits, tableVars>>

\* The portfolios are there: every call starts at once.
ListPortfolios(i, u) ==
    /\ emitted[i][u] # None
    /\ calls' = calls \cup CallsFor(i, u, {p \in Portfolios :
                                             portfolios[p] # None /\ Owner[p] = u})
    /\ emitted' = [emitted EXCEPT ![i][u] = None]
    /\ UNCHANGED <<processVars, account, polls, edits, tableVars>>

\* getUserPortfolios() fails: caught and logged.
ListFails(i, u) ==
    /\ emitted[i][u] # None
    /\ emitted' = [emitted EXCEPT ![i][u] = None]
    /\ UNCHANGED <<processVars, account, polls, calls, edits, tableVars>>

\* A call goes on to save() the row it found.
Found(c, name) ==
    /\ calls' = (calls \ {c}) \cup {[c EXCEPT !.phase = "save", !.name = name]}
    /\ UNCHANGED <<processVars, account, polls, emitted, edits, tableVars>>

\* updatePortfolioFromKis(): findOne; not found is rethrown, unhandled.
FindPortfolio(c) ==
    /\ c.phase = "find" /\ c.item = Totals
    /\ \/ portfolios[c.portfolio] # None /\ Found(c, portfolios[c.portfolio].name)
       \/ portfolios[c.portfolio] = None /\ Crash

\* updatePortfolioFromKis() that saves before it assigns.
SavePortfolioUnassigned(c) ==
    /\ c.phase = "save" /\ c.item = Totals
    /\ calls' = calls \ {c}
    /\ UNCHANGED <<processVars, account, polls, emitted, edits, tableVars>>

\* updatePortfolioFromKis(): save, with the name it had loaded.
SavePortfolio(c) ==
    /\ c.phase = "save" /\ c.item = Totals
    /\ portfolios' = [portfolios EXCEPT ![c.portfolio] =
                        [name |-> c.name, totals |-> c.data]]
    /\ calls' = calls \ {c}
    /\ UNCHANGED <<processVars, account, polls, emitted, edits, holdings, deleted>>

\* updateHolding(): the stock, then the holding; none is rethrown, unhandled.
FindHolding(c) ==
    /\ c.phase = "find" /\ c.item \in Symbols
    /\ LET row == holdings[<<c.portfolio, c.item>>]
           found == c.item \in Stocks /\ row # None
       IN  \/ found /\ Found(c, None)
           \/ ~found /\ Crash

\* updateHolding() that leaves alone a row that has numbers.
SaveHoldingOnce(c) ==
    /\ c.phase = "save" /\ c.item \in Symbols
    /\ holdings' = [holdings EXCEPT ![<<c.portfolio, c.item>>] = IF @ = Zero THEN c.data ELSE @]
    /\ calls' = calls \ {c}
    /\ UNCHANGED <<processVars, account, polls, emitted, edits, portfolios, deleted>>

\* updateHolding(): save; the INSERT of a row that is gone needs its portfolio.
SaveHolding(c) ==
    /\ c.phase = "save" /\ c.item \in Symbols
    /\ \/ /\ portfolios[c.portfolio] # None
          /\ holdings' = [holdings EXCEPT ![<<c.portfolio, c.item>>] = c.data]
          /\ calls' = calls \ {c}
          /\ UNCHANGED <<processVars, account, polls, emitted, edits, portfolios, deleted>>
       \/ portfolios[c.portfolio] = None /\ Crash

-----------------------------------------------------------------------------
(* Requests of users, each of an owner for a portfolio of theirs, and the  *)
(* account's own life.                                                     *)

Listening == running /\ ~seeding

\* createPortfolio(): a new id, no holdings (no operation adds any).
CreatePortfolio(p, n) ==
    /\ Listening
    /\ portfolios[p] = None /\ p \notin deleted
    /\ portfolios' = [portfolios EXCEPT ![p] = [name |-> n, totals |-> None]]
    /\ UNCHANGED <<processVars, account, flightVars, holdings, deleted>>

\* updatePortfolio(): the row is loaded and the DTO assigned, which has all
\* of its fields, undefined (None) unless the request sends them ...
LoadEdit(p, n) ==
    /\ Listening /\ portfolios[p] # None /\ edits[p] = None
    /\ edits' = [edits EXCEPT ![p] = [name |-> n, totals |-> portfolios[p].totals]]
    /\ UNCHANGED <<processVars, account, polls, emitted, calls, tableVars>>

\* save() that writes NULL for what is undefined.
SaveEditWithNull(p) ==
    /\ edits[p] # None
    /\ portfolios' = [portfolios EXCEPT ![p] = edits[p]]
    /\ edits' = [edits EXCEPT ![p] = None]
    /\ UNCHANGED <<processVars, account, polls, emitted, calls, holdings, deleted>>

\* ... and saved, with the totals it had loaded; a name that is undefined is
\* not written, and a row that is gone is not inserted without one.
SaveEdit(p) ==
    /\ edits[p] # None
    /\ \/ /\ edits[p].name # None
          /\ portfolios' = [portfolios EXCEPT ![p] = edits[p]]
       \/ /\ edits[p].name = None /\ portfolios[p] # None
          /\ portfolios' = [portfolios EXCEPT ![p].totals = edits[p].totals]
       \/ edits[p].name = None /\ portfolios[p] = None /\ UNCHANGED portfolios
    /\ edits' = [edits EXCEPT ![p] = None]
    /\ UNCHANGED <<processVars, account, polls, emitted, calls, holdings, deleted>>

\* deletePortfolio(): refused while it has holdings.
DeletePortfolio(p) ==
    /\ Listening /\ portfolios[p] # None
    /\ \A s \in Symbols : holdings[<<p, s>>] = None
    /\ portfolios' = [portfolios EXCEPT ![p] = None]
    /\ deleted' = deleted \cup {p}
    /\ UNCHANGED <<processVars, account, flightVars, holdings>>

\* removeHolding().
RemoveHolding(p, s) ==
    /\ Listening /\ holdings[<<p, s>>] # None
    /\ holdings' = [holdings EXCEPT ![<<p, s>>] = None]
    /\ UNCHANGED <<processVars, account, flightVars, portfolios, deleted>>

\* Trades or prices change what KIS answers.
AccountChanges(u) ==
    /\ account[u] < MaxVersion
    /\ account' = [account EXCEPT ![u] = @ + 1]
    /\ UNCHANGED <<processVars, flightVars, tableVars>>

-----------------------------------------------------------------------------
Poll(i, u) == Answer(i, u) \/ NoAnswer(i, u) \/ ListPortfolios(i, u) \/ ListFails(i, u)
CallStep(c) == FindPortfolio(c) \/ SavePortfolio(c) \/ FindHolding(c) \/ SaveHolding(c)
Request(p) ==
    \/ \E n \in Names : CreatePortfolio(p, n)
    \/ \E n \in Names \cup {None} : LoadEdit(p, n)
    \/ SaveEdit(p) \/ DeletePortfolio(p)
    \/ \E s \in Symbols : RemoveHolding(p, s)

Next ==
    \/ \E i \in Slots : Boot(i) \/ CronFires(i)
    \/ \E i \in Slots, u \in Users : Poll(i, u)
    \/ \E c \in calls : CallStep(c)
    \/ \E p \in Portfolios : Seed(p) \/ Request(p)
    \/ \E u \in Users : AccountChanges(u)

Spec == Init /\ [][Next]_vars

\* The cron fires, queries end, seeding ends; KIS and the listing of the
\* portfolios do not fail forever.  Nobody need start the process or ask.
Fairness ==
    /\ \A i \in Slots : WF_vars(CronFires(i))
    /\ \A i \in Slots, u \in Users : SF_vars(Answer(i, u)) /\ SF_vars(ListPortfolios(i, u))
    /\ \A i \in Slots, p \in Portfolios, x \in Items :
         WF_vars(\E c \in calls : /\ c.slot = i /\ c.portfolio = p /\ c.item = x
                                  /\ CallStep(c))
    /\ WF_vars(\E p \in Portfolios : Seed(p))
    /\ \A p \in Portfolios : WF_vars(SaveEdit(p))

FairSpec == Spec /\ Fairness

-----------------------------------------------------------------------------
(* Properties.                                                             *)

\* A portfolio only ever shows numbers of its owner's account, however many
\* polls, calls and edits of several users are in flight.
OwnNumbersOnly ==
    \A p \in Portfolios :
        /\ portfolios[p] # None /\ portfolios[p].totals # None
             => portfolios[p].totals.user = Owner[p]
        /\ \A s \in Symbols :
             holdings[<<p, s>>] \notin {Zero, None} => holdings[<<p, s>>].user = Owner[p]

Kept(p) == portfolios[p] # None /\ p \notin deleted
Latest(p) == [user |-> Owner[p], version |-> account[Owner[p]]]

\* Overlapping polls write old totals over new ones, and so do edits; but
\* when the account and its owner's edits come to rest, every portfolio comes
\* to show the account's totals and keeps them, while the process lives.
TotalsConverge ==
    \A p \in Portfolios :
        <>[](edits[p] = None) =>
            <>[](running /\ Kept(p) => portfolios[p].totals = Latest(p))

\* So do the quantities of what the account holds, unless the user takes the
\* holding away (one that is missing when it is looked for ends the process).
HoldingsConverge ==
    \A p \in Portfolios, s \in Symbols :
        <>[](running /\ Kept(p) /\ s \in Held[account[Owner[p]]]
                => holdings[<<p, s>>] \in {None, Latest(p)})

-----------------------------------------------------------------------------
(* What the source says, and the code does not do.                         *)

\* processBalanceData() catches and logs what goes wrong (line 225), and
\* README line 45 offers several portfolios: while the seeded portfolio has
\* its holdings, a poll should not end the process.
PollsDoNotCrash ==
    /\ boots > 0
    /\ \A s \in Stocks : holdings[<<SeedPortfolio, s>>] # None
    => running
=============================================================================
