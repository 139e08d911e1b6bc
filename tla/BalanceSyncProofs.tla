-------------------------- MODULE BalanceSyncProofs --------------------------
(***************************************************************************)
(* Type correctness of BalanceSync and that no account's numbers reach     *)
(* another user's portfolio, for any number of users, portfolios, stocks   *)
(* and overlapping polls.  OwnNumbersOnly speaks of the tables; what makes *)
(* it inductive is that the calls and edits in flight carry the owner's    *)
(* numbers too.                                                            *)
(***************************************************************************)
EXTENDS BalanceSync, TLAPS

\* A call is for a portfolio of the user whose account it carries; a call
\* that will save has loaded a name, unless it is about a holding.
CallsCarryOwn ==
    \A c \in calls : /\ c.data.user = Owner[c.portfolio]
                     /\ c.phase = "save" /\ c.item = Totals => c.name \in Names

\* An entity that an edit will save shows its owner's numbers.
EditsCarryOwn ==
    \A p \in Portfolios :
        edits[p] # None /\ edits[p].totals # None => edits[p].totals.user = Owner[p]

PortfoliosOwn ==
    \A p \in Portfolios :
        portfolios[p] # None /\ portfolios[p].totals # None
            => portfolios[p].totals.user = Owner[p]

HoldingsOwn ==
    \A p \in Portfolios, s \in Symbols :
        holdings[<<p, s>>] \notin {Zero, None} => holdings[<<p, s>>].user = Owner[p]

FlightTypes ==
    /\ polls \in [Slots -> SUBSET Users]
    /\ emitted \in [Slots -> [Users -> Versions \cup {None}]]
    /\ calls \subseteq Call
    /\ edits \in [Portfolios -> Edit \cup {None}]

TableTypes ==
    /\ portfolios \in [Portfolios -> Row \cup {None}]
    /\ holdings \in [Portfolios \X Symbols -> Data \cup {Zero, None}]
    /\ deleted \subseteq Portfolios

ProcessTypes ==
    /\ running \in BOOLEAN /\ seeding \in BOOLEAN /\ boots \in 0..MaxBoots
    /\ account \in [Users -> Versions]

Inv ==
    /\ ProcessTypes /\ FlightTypes /\ TableTypes
    /\ CallsCarryOwn /\ EditsCarryOwn /\ PortfoliosOwn /\ HoldingsOwn

-----------------------------------------------------------------------------
LEMMA InitInv == Init => Inv
  <1> SUFFICES ASSUME Init PROVE Inv
    OBVIOUS
  <1>1. ProcessTypes
    <2>1. boots \in 0..MaxBoots
      BY BalanceSyncAssumption DEF Init
    <2>2. account \in [Users -> Versions]
      BY BalanceSyncAssumption DEF Init, Versions
    <2> QED
      BY <2>1, <2>2 DEF Init, ProcessTypes
  <1>2. FlightTypes
    BY BalanceSyncAssumption DEF Init, FlightTypes, Silent, Nothing
  <1>3. TableTypes
    BY BalanceSyncAssumption DEF Init, TableTypes, Row
  <1>4. CallsCarryOwn /\ EditsCarryOwn /\ PortfoliosOwn
    BY BalanceSyncAssumption DEF Init, CallsCarryOwn, EditsCarryOwn, PortfoliosOwn, Nothing
  <1>5. HoldingsOwn
    BY BalanceSyncAssumption DEF Init, HoldingsOwn
  <1> QED
    BY <1>1, <1>2, <1>3, <1>4, <1>5 DEF Inv

\* The process ends: nothing is in flight, the tables are as they were.
LEMMA CrashInv ==
  ASSUME Inv, Crash
  PROVE  Inv'
  <1>1. TableTypes' /\ PortfoliosOwn' /\ HoldingsOwn'
    BY DEF Inv, Crash, Silent, Nothing, TableTypes, PortfoliosOwn, HoldingsOwn, processVars, flightVars, tableVars
  <1>2. ProcessTypes'
    BY BalanceSyncAssumption DEF Inv, Crash, Silent, Nothing, ProcessTypes
  <1>3. FlightTypes'
    BY BalanceSyncAssumption DEF Inv, Crash, Silent, Nothing, Call, FlightTypes, Row
  <1>4. CallsCarryOwn'
    BY BalanceSyncAssumption DEF Inv, Crash, Silent, Nothing, Call, CallsCarryOwn, FlightTypes
  <1>5. EditsCarryOwn'
    BY BalanceSyncAssumption DEF Inv, Crash, Silent, Nothing, EditsCarryOwn, FlightTypes
  <1> QED
    BY <1>1, <1>2, <1>3, <1>4, <1>5 DEF Inv

\* A call that goes on to its save() keeps its data.
LEMMA FoundInv ==
  ASSUME Inv, NEW c \in calls, NEW name \in Names \cup {None},
         c.item = Totals => name \in Names, Found(c, name)
  PROVE  Inv'
  <1>1. ProcessTypes' /\ TableTypes' /\ EditsCarryOwn' /\ PortfoliosOwn' /\ HoldingsOwn'
    BY DEF Inv, Found, ProcessTypes, TableTypes, EditsCarryOwn, PortfoliosOwn, HoldingsOwn, processVars, flightVars, tableVars
  <1>2. FlightTypes'
    BY BalanceSyncAssumption DEF Inv, Found, Call, FlightTypes, Row
  <1>3. CallsCarryOwn'
    BY BalanceSyncAssumption DEF Inv, Found, Call, CallsCarryOwn, FlightTypes
  <1> QED
    BY <1>1, <1>2, <1>3 DEF Inv

(* One lemma per action, one step per part of Inv that it can disturb.     *)

LEMMA BootInv ==
  ASSUME Inv, NEW i \in Slots, Boot(i)
  PROVE  Inv'
  <1>1. TableTypes' /\ CallsCarryOwn' /\ EditsCarryOwn' /\ PortfoliosOwn' /\ HoldingsOwn'
    BY DEF Inv, Boot, TableTypes, CallsCarryOwn, EditsCarryOwn, PortfoliosOwn, HoldingsOwn, processVars, flightVars, tableVars
  <1>2. ProcessTypes'
    BY BalanceSyncAssumption DEF Inv, Boot, ProcessTypes
  <1>3. FlightTypes'
    BY BalanceSyncAssumption DEF Inv, Boot, Call, FlightTypes, Row
  <1> QED
    BY <1>1, <1>2, <1>3 DEF Inv

LEMMA SeedInv ==
  ASSUME Inv, NEW p \in Portfolios, Seed(p)
  PROVE  Inv'
  <1>1. FlightTypes' /\ CallsCarryOwn' /\ EditsCarryOwn'
    BY DEF Inv, Seed, FlightTypes, CallsCarryOwn, EditsCarryOwn, processVars, flightVars, tableVars
  <1>2. ProcessTypes'
    BY BalanceSyncAssumption DEF Inv, Seed, ProcessTypes
  <1>3. TableTypes'
    BY BalanceSyncAssumption DEF Inv, Seed, Row, TableTypes
  <1>4. PortfoliosOwn'
    BY BalanceSyncAssumption DEF Inv, Seed, PortfoliosOwn, TableTypes
  <1>5. HoldingsOwn'
    BY BalanceSyncAssumption DEF Inv, Seed, HoldingsOwn, TableTypes
  <1> QED
    BY <1>1, <1>2, <1>3, <1>4, <1>5 DEF Inv

LEMMA CronFiresInv ==
  ASSUME Inv, NEW i \in Slots, CronFires(i)
  PROVE  Inv'
  <1>1. ProcessTypes' /\ TableTypes' /\ CallsCarryOwn' /\ EditsCarryOwn' /\ PortfoliosOwn' /\ HoldingsOwn'
    BY DEF Inv, CronFires, ProcessTypes, TableTypes, CallsCarryOwn, EditsCarryOwn, PortfoliosOwn, HoldingsOwn, processVars, flightVars, tableVars
  <1>2. FlightTypes'
    BY BalanceSyncAssumption DEF Inv, CronFires, Call, FlightTypes, Row
  <1> QED
    BY <1>1, <1>2 DEF Inv

LEMMA AnswerInv ==
  ASSUME Inv, NEW i \in Slots, NEW u \in Users, Answer(i, u)
  PROVE  Inv'
  <1>1. ProcessTypes' /\ TableTypes' /\ CallsCarryOwn' /\ EditsCarryOwn' /\ PortfoliosOwn' /\ HoldingsOwn'
    BY DEF Inv, Answer, ProcessTypes, ProcessTypes, TableTypes, CallsCarryOwn, EditsCarryOwn, PortfoliosOwn, HoldingsOwn, processVars, flightVars, tableVars
  <1>2. FlightTypes'
    BY BalanceSyncAssumption DEF Inv, Answer, ProcessTypes, Call, FlightTypes, Row
  <1> QED
    BY <1>1, <1>2 DEF Inv

LEMMA NoAnswerInv ==
  ASSUME Inv, NEW i \in Slots, NEW u \in Users, NoAnswer(i, u)
  PROVE  Inv'
  <1>1. ProcessTypes' /\ TableTypes' /\ CallsCarryOwn' /\ EditsCarryOwn' /\ PortfoliosOwn' /\ HoldingsOwn'
    BY DEF Inv, NoAnswer, ProcessTypes, TableTypes, CallsCarryOwn, EditsCarryOwn, PortfoliosOwn, HoldingsOwn, processVars, flightVars, tableVars
  <1>2. FlightTypes'
    BY BalanceSyncAssumption DEF Inv, NoAnswer, Call, FlightTypes, Row
  <1> QED
    BY <1>1, <1>2 DEF Inv

LEMMA ListPortfoliosInv ==
  ASSUME Inv, NEW i \in Slots, NEW u \in Users, ListPortfolios(i, u)
  PROVE  Inv'
  <1>1. \A d \in calls' : d \in calls \/ (d \in Call /\ d.phase = "find" /\ d.data.user = Owner[d.portfolio])
    BY BalanceSyncAssumption DEF Inv, FlightTypes, ListPortfolios, CallsFor, Call, Data, Items
  <1>2. ProcessTypes' /\ TableTypes' /\ EditsCarryOwn' /\ PortfoliosOwn' /\ HoldingsOwn'
    BY DEF Inv, ListPortfolios, ProcessTypes, TableTypes, EditsCarryOwn, PortfoliosOwn, HoldingsOwn, processVars, flightVars, tableVars
  <1>3. FlightTypes'
    BY BalanceSyncAssumption, <1>1 DEF Inv, ListPortfolios, Call, FlightTypes, Row
  <1>4. CallsCarryOwn'
    BY BalanceSyncAssumption, <1>1 DEF Inv, ListPortfolios, Call, CallsCarryOwn, FlightTypes
  <1> QED
    BY <1>2, <1>3, <1>4 DEF Inv

LEMMA ListFailsInv ==
  ASSUME Inv, NEW i \in Slots, NEW u \in Users, ListFails(i, u)
  PROVE  Inv'
  <1>1. ProcessTypes' /\ TableTypes' /\ CallsCarryOwn' /\ EditsCarryOwn' /\ PortfoliosOwn' /\ HoldingsOwn'
    BY DEF Inv, ListFails, ProcessTypes, TableTypes, CallsCarryOwn, EditsCarryOwn, PortfoliosOwn, HoldingsOwn, processVars, flightVars, tableVars
  <1>2. FlightTypes'
    BY BalanceSyncAssumption DEF Inv, ListFails, Call, FlightTypes, Row
  <1> QED
    BY <1>1, <1>2 DEF Inv

LEMMA FindPortfolioInv ==
  ASSUME Inv, NEW c \in calls, FindPortfolio(c)
  PROVE  Inv'
  <1>1. CASE Crash
    BY <1>1, CrashInv
  <1>2. CASE ~Crash
    <2>1. Found(c, portfolios[c.portfolio].name) /\ portfolios[c.portfolio] # None
      BY <1>2 DEF FindPortfolio
    <2>2. portfolios[c.portfolio].name \in Names
      BY <2>1 DEF Inv, FlightTypes, TableTypes, Call, Row
    <2> QED
      BY <2>1, <2>2, FoundInv
  <1> QED
    BY <1>1, <1>2

LEMMA SavePortfolioInv ==
  ASSUME Inv, NEW c \in calls, SavePortfolio(c)
  PROVE  Inv'
  <1>1. c.portfolio \in Portfolios /\ c.data \in Data /\ c.name \in Names
          /\ c.data.user = Owner[c.portfolio]
    BY DEF Inv, FlightTypes, CallsCarryOwn, Call, SavePortfolio
  <1>2. ProcessTypes' /\ EditsCarryOwn' /\ HoldingsOwn'
    BY DEF Inv, SavePortfolio, ProcessTypes, EditsCarryOwn, HoldingsOwn, processVars, flightVars, tableVars
  <1>3. FlightTypes'
    BY BalanceSyncAssumption, <1>1 DEF Inv, SavePortfolio, Call, FlightTypes, Row
  <1>4. TableTypes'
    BY BalanceSyncAssumption, <1>1 DEF Inv, SavePortfolio, Row, TableTypes
  <1>5. CallsCarryOwn'
    BY BalanceSyncAssumption, <1>1 DEF Inv, SavePortfolio, Call, CallsCarryOwn, FlightTypes
  <1>6. PortfoliosOwn'
    BY BalanceSyncAssumption, <1>1 DEF Inv, SavePortfolio, PortfoliosOwn, TableTypes
  <1> QED
    BY <1>2, <1>3, <1>4, <1>5, <1>6 DEF Inv

LEMMA FindHoldingInv ==
  ASSUME Inv, NEW c \in calls, FindHolding(c)
  PROVE  Inv'
  <1>1. CASE Crash
    BY <1>1, CrashInv
  <1>2. CASE ~Crash
    <2>1. Found(c, None) /\ c.item # Totals
      BY <1>2, BalanceSyncAssumption DEF FindHolding
    <2> QED
      BY <2>1, FoundInv
  <1> QED
    BY <1>1, <1>2

LEMMA HoldingSaved ==
  ASSUME Inv, NEW c \in calls, SaveHolding(c), ~Crash
  PROVE  Inv'
  <1>1. c.portfolio \in Portfolios /\ c.item \in Symbols /\ c.data \in Data
          /\ c.data.user = Owner[c.portfolio]
    BY DEF Inv, FlightTypes, CallsCarryOwn, Call, SaveHolding
  <1>2. ProcessTypes' /\ EditsCarryOwn' /\ PortfoliosOwn'
    BY DEF Inv, SaveHolding, ProcessTypes, EditsCarryOwn, PortfoliosOwn, processVars, flightVars, tableVars
  <1>3. FlightTypes'
    BY BalanceSyncAssumption, <1>1 DEF Inv, SaveHolding, Call, FlightTypes, Row
  <1>4. TableTypes'
    BY BalanceSyncAssumption, <1>1 DEF Inv, SaveHolding, Row, TableTypes
  <1>5. CallsCarryOwn'
    BY BalanceSyncAssumption, <1>1 DEF Inv, SaveHolding, Call, CallsCarryOwn, FlightTypes
  <1>6. HoldingsOwn'
    BY BalanceSyncAssumption, <1>1 DEF Inv, SaveHolding, HoldingsOwn, TableTypes
  <1> QED
    BY <1>2, <1>3, <1>4, <1>5, <1>6 DEF Inv

LEMMA SaveHoldingInv ==
  ASSUME Inv, NEW c \in calls, SaveHolding(c)
  PROVE  Inv'
  BY HoldingSaved, CrashInv

LEMMA CreatePortfolioInv ==
  ASSUME Inv, NEW p \in Portfolios, NEW n \in Names, CreatePortfolio(p, n)
  PROVE  Inv'
  <1>1. ProcessTypes' /\ FlightTypes' /\ CallsCarryOwn' /\ EditsCarryOwn' /\ HoldingsOwn'
    BY DEF Inv, CreatePortfolio, ProcessTypes, FlightTypes, CallsCarryOwn, EditsCarryOwn, HoldingsOwn, processVars, flightVars, tableVars
  <1>2. TableTypes'
    BY BalanceSyncAssumption DEF Inv, CreatePortfolio, Row, TableTypes
  <1>3. PortfoliosOwn'
    BY BalanceSyncAssumption DEF Inv, CreatePortfolio, PortfoliosOwn, TableTypes
  <1> QED
    BY <1>1, <1>2, <1>3 DEF Inv

LEMMA LoadEditInv ==
  ASSUME Inv, NEW p \in Portfolios, NEW n \in Names \cup {None}, LoadEdit(p, n)
  PROVE  Inv'
  <1>1. ProcessTypes' /\ TableTypes' /\ CallsCarryOwn' /\ PortfoliosOwn' /\ HoldingsOwn'
    BY DEF Inv, LoadEdit, ProcessTypes, TableTypes, CallsCarryOwn, PortfoliosOwn, HoldingsOwn, processVars, tableVars
  <1>2. portfolios[p] \in Row
    BY DEF Inv, LoadEdit, TableTypes
  <1>3. FlightTypes'
    BY <1>2 DEF Inv, LoadEdit, Row, Edit, FlightTypes
  <1>4. EditsCarryOwn'
    BY <1>2 DEF Inv, LoadEdit, PortfoliosOwn, EditsCarryOwn, FlightTypes
  <1> QED
    BY <1>1, <1>3, <1>4 DEF Inv

LEMMA SaveEditInv ==
  ASSUME Inv, NEW p \in Portfolios, SaveEdit(p)
  PROVE  Inv'
  <1>1. ProcessTypes' /\ CallsCarryOwn' /\ HoldingsOwn'
    BY DEF Inv, SaveEdit, ProcessTypes, CallsCarryOwn, HoldingsOwn, processVars
  <1>2. FlightTypes'
    BY DEF Inv, SaveEdit, FlightTypes
  <1>3. edits[p] \in Edit
    BY DEF Inv, SaveEdit, FlightTypes
  <1>4. TableTypes'
    BY <1>3 DEF Inv, SaveEdit, Edit, Row, TableTypes
  <1>5. EditsCarryOwn'
    BY DEF Inv, SaveEdit, EditsCarryOwn, FlightTypes
  <1>6. PortfoliosOwn'
    <2>1. CASE edits[p].name # None
      BY <2>1 DEF Inv, SaveEdit, EditsCarryOwn, PortfoliosOwn, TableTypes
    <2>2. CASE edits[p].name = None /\ portfolios[p] # None
      BY <2>2 DEF Inv, SaveEdit, EditsCarryOwn, PortfoliosOwn, TableTypes, Row
    <2>3. CASE edits[p].name = None /\ portfolios[p] = None
      BY <2>3 DEF Inv, SaveEdit, PortfoliosOwn
    <2> QED
      BY <2>1, <2>2, <2>3
  <1> QED
    BY <1>1, <1>2, <1>4, <1>5, <1>6 DEF Inv

LEMMA DeletePortfolioInv ==
  ASSUME Inv, NEW p \in Portfolios, DeletePortfolio(p)
  PROVE  Inv'
  <1>1. ProcessTypes' /\ FlightTypes' /\ CallsCarryOwn' /\ EditsCarryOwn' /\ HoldingsOwn'
    BY DEF Inv, DeletePortfolio, ProcessTypes, FlightTypes, CallsCarryOwn, EditsCarryOwn, HoldingsOwn, processVars, flightVars, tableVars
  <1>2. TableTypes'
    BY BalanceSyncAssumption DEF Inv, DeletePortfolio, Row, TableTypes
  <1>3. PortfoliosOwn'
    BY BalanceSyncAssumption DEF Inv, DeletePortfolio, PortfoliosOwn, TableTypes
  <1> QED
    BY <1>1, <1>2, <1>3 DEF Inv

LEMMA RemoveHoldingInv ==
  ASSUME Inv, NEW p \in Portfolios, NEW s \in Symbols, RemoveHolding(p, s)
  PROVE  Inv'
  <1>1. ProcessTypes' /\ FlightTypes' /\ CallsCarryOwn' /\ EditsCarryOwn' /\ PortfoliosOwn'
    BY DEF Inv, RemoveHolding, ProcessTypes, FlightTypes, CallsCarryOwn, EditsCarryOwn, PortfoliosOwn, processVars, flightVars, tableVars
  <1>2. TableTypes'
    BY BalanceSyncAssumption DEF Inv, RemoveHolding, Row, TableTypes
  <1>3. HoldingsOwn'
    BY BalanceSyncAssumption DEF Inv, RemoveHolding, HoldingsOwn, TableTypes
  <1> QED
    BY <1>1, <1>2, <1>3 DEF Inv

LEMMA AccountChangesInv ==
  ASSUME Inv, NEW u \in Users, AccountChanges(u)
  PROVE  Inv'
  <1>1. FlightTypes' /\ TableTypes' /\ CallsCarryOwn' /\ EditsCarryOwn' /\ PortfoliosOwn' /\ HoldingsOwn'
    BY DEF Inv, AccountChanges, FlightTypes, TableTypes, CallsCarryOwn, EditsCarryOwn, PortfoliosOwn, HoldingsOwn, processVars, flightVars, tableVars
  <1>2. ProcessTypes'
    <2>1. account[u] + 1 \in Versions
      BY BalanceSyncAssumption DEF Inv, ProcessTypes, AccountChanges, Versions
    <2> QED
      BY <2>1 DEF Inv, ProcessTypes, AccountChanges, processVars
  <1> QED
    BY <1>1, <1>2 DEF Inv

LEMMA NextInv == Inv /\ [Next]_vars => Inv'
  <1> SUFFICES ASSUME Inv, [Next]_vars PROVE Inv'
    OBVIOUS
  <1>1. ASSUME NEW i \in Slots, Boot(i) PROVE Inv'
    BY <1>1, BootInv
  <1>2. ASSUME NEW p \in Portfolios, Seed(p) PROVE Inv'
    BY <1>2, SeedInv
  <1>3. ASSUME NEW i \in Slots, CronFires(i) PROVE Inv'
    BY <1>3, CronFiresInv
  <1>4. ASSUME NEW i \in Slots, NEW u \in Users, Answer(i, u) PROVE Inv'
    BY <1>4, AnswerInv
  <1>5. ASSUME NEW i \in Slots, NEW u \in Users, NoAnswer(i, u) PROVE Inv'
    BY <1>5, NoAnswerInv
  <1>6. ASSUME NEW i \in Slots, NEW u \in Users, ListPortfolios(i, u) PROVE Inv'
    BY <1>6, ListPortfoliosInv
  <1>7. ASSUME NEW i \in Slots, NEW u \in Users, ListFails(i, u) PROVE Inv'
    BY <1>7, ListFailsInv
  <1>8. ASSUME NEW c \in calls, FindPortfolio(c) PROVE Inv'
    BY <1>8, FindPortfolioInv
  <1>9. ASSUME NEW c \in calls, SavePortfolio(c) PROVE Inv'
    BY <1>9, SavePortfolioInv
  <1>10. ASSUME NEW c \in calls, FindHolding(c) PROVE Inv'
    BY <1>10, FindHoldingInv
  <1>11. ASSUME NEW c \in calls, SaveHolding(c) PROVE Inv'
    BY <1>11, SaveHoldingInv
  <1>12. ASSUME NEW p \in Portfolios, NEW n \in Names, CreatePortfolio(p, n) PROVE Inv'
    BY <1>12, CreatePortfolioInv
  <1>13. ASSUME NEW p \in Portfolios, NEW n \in Names \cup {None}, LoadEdit(p, n) PROVE Inv'
    BY <1>13, LoadEditInv
  <1>14. ASSUME NEW p \in Portfolios, SaveEdit(p) PROVE Inv'
    BY <1>14, SaveEditInv
  <1>15. ASSUME NEW p \in Portfolios, DeletePortfolio(p) PROVE Inv'
    BY <1>15, DeletePortfolioInv
  <1>16. ASSUME NEW p \in Portfolios, NEW s \in Symbols, RemoveHolding(p, s) PROVE Inv'
    BY <1>16, RemoveHoldingInv
  <1>17. ASSUME NEW u \in Users, AccountChanges(u) PROVE Inv'
    BY <1>17, AccountChangesInv
  <1>18. ASSUME UNCHANGED vars PROVE Inv'
    BY <1>18 DEF Inv, ProcessTypes, FlightTypes, TableTypes, CallsCarryOwn, EditsCarryOwn, PortfoliosOwn, HoldingsOwn, vars, processVars, flightVars, tableVars
  <1> QED
    BY <1>1, <1>2, <1>3, <1>4, <1>5, <1>6, <1>7, <1>8, <1>9, <1>10, <1>11, <1>12, <1>13, <1>14, <1>15, <1>16, <1>17, <1>18
       DEF Next, Poll, CallStep, Request

LEMMA SpecInv == Spec => []Inv
  BY InitInv, NextInv, PTL DEF Spec

-----------------------------------------------------------------------------
\* Tables, polls and the calls in flight stay of their types, through
\* crashes, restarts and the resurrection of deleted rows.
THEOREM SyncTypeCorrect == Spec => []TypeOK
  <1>1. Inv => TypeOK
    BY DEF Inv, ProcessTypes, FlightTypes, TableTypes, TypeOK
  <1> QED
    BY <1>1, SpecInv, PTL

\* No interleaving of polls, un-awaited calls, edits and crashes puts the
\* numbers of one user's account into a portfolio or holding of another.
THEOREM NobodySeesOthersNumbers == Spec => []OwnNumbersOnly
  <1>1. Inv => OwnNumbersOnly
    BY DEF Inv, PortfoliosOwn, HoldingsOwn, OwnNumbersOnly
  <1> QED
    BY <1>1, SpecInv, PTL
=============================================================================
