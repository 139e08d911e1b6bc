------------------------- MODULE RestServicesProofs -------------------------
(***************************************************************************)
(* Invariants and action properties of the services that answer requests:  *)
(* Accounts, Transactions and PortfolioReturns, each for any constants that *)
(* its module allows.  What the reports compute is proved from the lemmas of *)
(* ReportTheorems.                                                         *)
(***************************************************************************)
EXTENDS Accounts, Transactions, PortfolioReturns, ReportTheorems

-----------------------------------------------------------------------------
(* The users and their addresses: what OneUserPerEmail needs.              *)

\* A registration has its row from the start.
RegistrationsHaveRows ==
    \A r \in Requests :
        requests[r] # None /\ requests[r].user = None => requests[r].row # None

\* The other requests are about a row that is there, and keep its address.
RequestsKeepEmail ==
    \A r \in Requests :
        requests[r] # None /\ requests[r].user # None =>
            /\ users[requests[r].user] # None
            /\ requests[r].row # None =>
                 requests[r].row.email = users[requests[r].user].email

Inv == TypeOK /\ OneUserPerEmail /\ RegistrationsHaveRows /\ RequestsKeepEmail

-----------------------------------------------------------------------------
LEMMA InitInv == Init => Inv
  BY AccountsAssumption
     DEF Init, Inv, TypeOK, OneUserPerEmail, RegistrationsHaveRows, RequestsKeepEmail, Ids, Row

\* Of a request that is under way, the user and the row.
LEMMA RequestTypes ==
  ASSUME TypeOK, NEW r \in Requests, requests[r] # None
  PROVE  /\ requests[r] \in Request
         /\ requests[r].user \in Ids \cup {None}
         /\ requests[r].row \in Row \cup {None}
  BY DEF TypeOK, Request

\* A request that starts, gets its row or ends leaves the table alone: the
\* invariant holds if it holds of that request.
LEMMA RequestStep ==
  ASSUME Inv, NEW r \in Requests, NEW q \in Request \cup {None},
         requests' = [requests EXCEPT ![r] = q],
         UNCHANGED <<users, nextId>>, started' \subseteq Requests,
         q # None /\ q.user = None => q.row # None,
         q # None /\ q.user # None =>
            /\ users[q.user] # None
            /\ q.row # None => q.row.email = users[q.user].email
  PROVE  Inv'
  <1>1. TypeOK'
    BY DEF Inv, TypeOK
  <1>2. OneUserPerEmail'
    BY DEF Inv, OneUserPerEmail
  <1>3. \A p \in Requests : requests'[p] = IF p = r THEN q ELSE requests[p]
    BY DEF Inv, TypeOK
  <1>4. RegistrationsHaveRows' /\ RequestsKeepEmail'
    BY <1>3 DEF Inv, RegistrationsHaveRows, RequestsKeepEmail
  <1> QED
    BY <1>1, <1>2, <1>4 DEF Inv

\* What is assigned to a row that was loaded keeps its address.
LEMMA AssignsStep ==
  ASSUME Inv, NEW r \in Requests, Loads(r), NEW row \in Row,
         row.email = users[requests[r].user].email, Assigns(r, row)
  PROVE  Inv'
  <1> DEFINE q == [requests[r] EXCEPT !.row = row]
  <1>1. requests[r] \in Request
    BY RequestTypes DEF Inv, Loads
  <1>2. q \in Request /\ q.user = requests[r].user /\ q.row = row
    BY <1>1 DEF Request
  <1>3. requests' = [requests EXCEPT ![r] = q] /\ UNCHANGED <<users, nextId, started>>
    BY DEF Assigns
  <1>4. users[q.user] # None /\ q.user # None
    BY <1>2 DEF Inv, RequestsKeepEmail, Loads
  <1>5. started' \subseteq Requests
    BY <1>3 DEF Inv, TypeOK
  <1> HIDE DEF q
  <1> QED
    BY <1>2, <1>3, <1>4, <1>5, RequestStep

\* The row that findById() returns.
LEMMA LoadedRow ==
  ASSUME Inv, NEW r \in Requests, Loads(r)
  PROVE  users[requests[r].user] \in Row
  BY RequestTypes DEF Inv, Loads, TypeOK, RequestsKeepEmail

LEMMA StepInv == Inv /\ [Next]_vars => Inv'
  <1> SUFFICES ASSUME Inv, [Next]_vars PROVE Inv'
    OBVIOUS
  <1> USE AccountsAssumption
  <1>1. ASSUME NEW r \in Requests, NEW e \in Emails, register(r, e) PROVE Inv'
    <2> DEFINE row == [email |-> e, passwordHash |-> r, names |-> r, isActive |-> TRUE]
               q == [user |-> None, row |-> row]
    <2>0. row \in Row
      BY DEF Row
    <2>1. q \in Request /\ q.user = None /\ q.row # None
      <3> HIDE DEF row
      <3> QED
        BY <2>0 DEF Request
    <2>2. requests' = [requests EXCEPT ![r] = q] /\ UNCHANGED <<users, nextId>>
      BY <1>1 DEF register, Starts
    <2>3. started' \subseteq Requests
      BY <1>1 DEF register, Starts, Inv, TypeOK
    <2> HIDE DEF q
    <2> QED
      BY <2>1, <2>2, <2>3, RequestStep
  <1>2. ASSUME NEW r \in Requests, NEW u \in Ids, validate(r, u) PROVE Inv'
    <2> DEFINE q == [user |-> u, row |-> None]
    <2>1. q \in Request /\ q.user = u /\ q.row = None
      BY DEF Request
    <2>2. requests' = [requests EXCEPT ![r] = q] /\ UNCHANGED <<users, nextId>>
      BY <1>2 DEF validate, Starts
    <2>3. started' \subseteq Requests /\ users[u] # None
      BY <1>2 DEF validate, Starts, HasToken, Inv, TypeOK
    <2> HIDE DEF q
    <2> QED
      BY <2>1, <2>2, <2>3, RequestStep
  <1>3. ASSUME NEW r \in Requests, Insert(r) PROVE Inv'
    <2> DEFINE row == requests[r].row
    <2>1. row \in Row
      BY <1>3, RequestTypes DEF Insert, Inv, RegistrationsHaveRows
    <2>2. nextId \in Ids /\ nextId' = nextId + 1
      BY <1>3 DEF Insert
    <2>3. \/ UNCHANGED users
          \/ /\ users[nextId] = None /\ Insertable(row.email)
             /\ users' = [users EXCEPT ![nextId] = row]
      BY <1>3 DEF Insert
    <2> HIDE DEF row
    <2>4. TypeOK'
      <3>1. users' \in [Ids -> Row \cup {None}]
        BY <2>1, <2>2, <2>3 DEF Inv, TypeOK
      <3>2. nextId' \in 1..(MaxId + 1)
        BY <2>2 DEF Ids
      <3>3. requests' \in [Requests -> Request \cup {None}] /\ started' \subseteq Requests
        BY <1>3 DEF Insert, Ends, Inv, TypeOK
      <3> QED
        BY <3>1, <3>2, <3>3 DEF TypeOK
    <2>5. \A i \in Ids : users[i] # None => users'[i] = users[i]
      BY <2>2, <2>3 DEF Inv, TypeOK
    <2>6. OneUserPerEmail'
      BY <2>1, <2>2, <2>3 DEF Inv, TypeOK, OneUserPerEmail, Insertable, WithEmail
    <2>7. \A p \in Requests : requests'[p] # None => requests'[p] = requests[p]
      BY <1>3 DEF Insert, Ends, Inv, TypeOK
    <2>8. \A p \in Requests : requests[p] # None => requests[p].user \in Ids \cup {None}
      BY RequestTypes DEF Inv
    <2>9. RegistrationsHaveRows' /\ RequestsKeepEmail'
      BY <2>5, <2>7, <2>8 DEF Inv, RegistrationsHaveRows, RequestsKeepEmail
    <2> QED
      BY <2>4, <2>6, <2>9 DEF Inv
  <1>4. ASSUME NEW r \in Requests, updateUser(r) PROVE Inv'
    <2> DEFINE loaded == users[requests[r].user]
    <2>1. Loads(r)
      BY <1>4 DEF updateUser
    <2>2. loaded \in Row
      BY <2>1, LoadedRow
    <2>3. PICK names \in {loaded.names, r}, hash \in {loaded.passwordHash, r} :
            Assigns(r, [loaded EXCEPT !.names = names, !.passwordHash = hash])
      BY <1>4 DEF updateUser
    <2>4. /\ [loaded EXCEPT !.names = names, !.passwordHash = hash] \in Row
          /\ [loaded EXCEPT !.names = names, !.passwordHash = hash].email = loaded.email
      BY <2>2 DEF Row
    <2> QED
      BY <2>1, <2>3, <2>4, AssignsStep
  <1>5. ASSUME NEW r \in Requests, changePassword(r) PROVE Inv'
    <2> DEFINE loaded == users[requests[r].user]
    <2>1. Loads(r) /\ Assigns(r, [loaded EXCEPT !.passwordHash = r])
      BY <1>5 DEF changePassword
    <2>2. loaded \in Row
      BY <2>1, LoadedRow
    <2>3. /\ [loaded EXCEPT !.passwordHash = r] \in Row
          /\ [loaded EXCEPT !.passwordHash = r].email = loaded.email
      BY <2>2 DEF Row
    <2> QED
      BY <2>1, <2>3, AssignsStep
  <1>6. ASSUME NEW r \in Requests, deactivateUser(r) PROVE Inv'
    <2> DEFINE loaded == users[requests[r].user]
    <2>1. Loads(r) /\ Assigns(r, [loaded EXCEPT !.isActive = FALSE])
      BY <1>6 DEF deactivateUser
    <2>2. loaded \in Row
      BY <2>1, LoadedRow
    <2>3. /\ [loaded EXCEPT !.isActive = FALSE] \in Row
          /\ [loaded EXCEPT !.isActive = FALSE].email = loaded.email
      BY <2>2 DEF Row
    <2> QED
      BY <2>1, <2>3, AssignsStep
  <1>7. ASSUME NEW r \in Requests, Save(r) PROVE Inv'
    <2> DEFINE u == requests[r].user
               row == requests[r].row
    <2>1. u \in Ids /\ row \in Row /\ users[u] # None /\ row.email = users[u].email
      BY <1>7, RequestTypes DEF Save, Inv, RequestsKeepEmail
    <2>2. users' = [users EXCEPT ![u] = row]
      BY <1>7 DEF Save
    <2> HIDE DEF u, row
    <2>3. TypeOK'
      BY <1>7, <2>1, <2>2 DEF Save, Ends, Inv, TypeOK
    <2>4. \A i \in Ids : /\ users'[i] = None <=> users[i] = None
                         /\ users'[i] # None => users'[i].email = users[i].email
      BY <2>1, <2>2 DEF Inv, TypeOK
    <2>5. OneUserPerEmail'
      BY <2>4 DEF Inv, OneUserPerEmail
    <2>6. \A p \in Requests : requests'[p] # None => requests'[p] = requests[p]
      BY <1>7 DEF Save, Ends, Inv, TypeOK
    <2>7. \A p \in Requests : requests[p] # None => requests[p].user \in Ids \cup {None}
      BY RequestTypes DEF Inv
    <2>8. RegistrationsHaveRows' /\ RequestsKeepEmail'
      BY <2>4, <2>6, <2>7 DEF Inv, RegistrationsHaveRows, RequestsKeepEmail
    <2> QED
      BY <2>3, <2>5, <2>8 DEF Inv
  <1>8. ASSUME NEW r \in Requests, Fails(r) PROVE Inv'
    <2>1. requests' = [requests EXCEPT ![r] = None] /\ UNCHANGED <<users, nextId>>
      BY <1>8 DEF Fails, Ends
    <2>2. started' \subseteq Requests
      BY <1>8 DEF Fails, Inv, TypeOK
    <2> QED
      BY <2>1, <2>2, RequestStep
  <1>9. CASE UNCHANGED vars
    BY <1>9 DEF vars, Inv, TypeOK, OneUserPerEmail, RegistrationsHaveRows, RequestsKeepEmail
  <1> QED
    BY <1>1, <1>2, <1>3, <1>4, <1>5, <1>6, <1>7, <1>8, <1>9 DEF Next

LEMMA InvHolds == Spec => []Inv
  BY InitInv, StepInv, PTL DEF Spec

-----------------------------------------------------------------------------
\* The types of the table, of the id sequence and of what is being saved.
THEOREM AccountsTypeCorrect == Spec => []TypeOK
  <1>1. Inv => TypeOK
    BY DEF Inv
  <1> QED
    BY <1>1, InvHolds, PTL

\* An e-mail address has at most one row, however many registrations of it
\* and saves of loaded rows overlap (UsersService.register, updateUser).
THEOREM OneUserEach == Spec => []OneUserPerEmail
  <1>1. Inv => OneUserPerEmail
    BY DEF Inv
  <1> QED
    BY <1>1, InvHolds, PTL

\* Once a deactivated account's requests have ended, no request wakes it.
LEMMA StepClosed == Inv /\ [Next]_vars => \A u \in Ids : Closed(u) => Closed(u)'
  <1> SUFFICES ASSUME Inv, [Next]_vars, NEW u \in Ids, Closed(u) PROVE Closed(u)'
    OBVIOUS
  <1> USE AccountsAssumption
  <1>1. u # None /\ users[u] # None /\ ~users[u].isActive
    BY DEF Closed
  <1>2. \A r \in Requests : requests[r] # None => requests[r].user # u
    BY DEF Closed
  <1>3. ASSUME users'[u] = users[u],
               \A r \in Requests : requests'[r] # None => requests'[r].user # u
        PROVE  Closed(u)'
    BY <1>1, <1>3 DEF Closed
  <1>4. ASSUME NEW r \in Requests, NEW e \in Emails, register(r, e) PROVE Closed(u)'
    BY <1>1, <1>2, <1>3, <1>4 DEF register, Starts, Inv, TypeOK
  <1>5. ASSUME NEW r \in Requests, NEW v \in Ids, validate(r, v) PROVE Closed(u)'
    BY <1>1, <1>2, <1>3, <1>5 DEF validate, Starts, Inv, TypeOK
  <1>6. ASSUME NEW r \in Requests, Insert(r) PROVE Closed(u)'
    BY <1>1, <1>2, <1>3, <1>6 DEF Insert, Ends, Inv, TypeOK
  <1>7. ASSUME NEW r \in Requests, NEW row, Loads(r), Assigns(r, row) PROVE Closed(u)'
    <2>1. requests[r] \in Request
      BY <1>7, RequestTypes DEF Inv, Loads
    <2>2. [requests[r] EXCEPT !.row = row].user = requests[r].user
      BY <2>1 DEF Request
    <2>3. requests[r].user # u
      BY <1>2, <1>7 DEF Loads
    <2>4. requests' = [requests EXCEPT ![r] = [requests[r] EXCEPT !.row = row]]
      BY <1>7 DEF Assigns
    <2>5. \A p \in Requests : requests'[p] # None => requests'[p].user # u
      BY <1>2, <2>2, <2>3, <2>4 DEF Inv, TypeOK
    <2> QED
      BY <1>3, <1>7, <2>5 DEF Assigns
  <1>8. ASSUME NEW r \in Requests, updateUser(r) \/ changePassword(r) \/ deactivateUser(r)
        PROVE  Closed(u)'
    <2>1. Loads(r) /\ \E row : Assigns(r, row)
      BY <1>8 DEF updateUser, changePassword, deactivateUser
    <2> QED
      BY <1>7, <2>1
  <1>9. ASSUME NEW r \in Requests, Save(r) PROVE Closed(u)'
    BY <1>1, <1>2, <1>3, <1>9 DEF Save, Ends, Inv, TypeOK
  <1>10. ASSUME NEW r \in Requests, Fails(r) PROVE Closed(u)'
    BY <1>1, <1>2, <1>3, <1>10 DEF Fails, Ends, Inv, TypeOK
  <1>11. CASE UNCHANGED vars
    BY <1>2, <1>3, <1>11 DEF vars
  <1> QED
    BY <1>4, <1>5, <1>6, <1>8, <1>9, <1>10, <1>11 DEF Next

\* A deactivated account stays so once its requests have ended, whatever
\* requests come (JwtStrategy.validate, UsersService).
THEOREM ClosedAlwaysStaysClosed == Spec => ClosedStaysClosed
  <1>1. Inv /\ [Next]_vars => [\A u \in Ids : Closed(u) => Closed(u)']_vars
    BY StepClosed
  <1> QED
    BY <1>1, InvHolds, PTL DEF Spec, ClosedStaysClosed

-----------------------------------------------------------------------------
(* Transactions.                                                           *)

\* The table knows the ids that were given out, and no edit got past its check
\* with a completed transaction.
EditsAreChecked ==
    \A e \in Edits : edits[e] # NoTransaction => edits[e].seen # "COMPLETED"

RowsWereDrawn ==
    /\ \A i \in Recorded : i <= drawn
    /\ \A e \in Edits : edits[e] # NoTransaction => edits[e].id <= drawn

TransactionsInv == TransactionsTypeOK /\ EditsAreChecked /\ RowsWereDrawn

LEMMA TransactionsInitInv == TransactionsInit => TransactionsInv
  BY TransactionsAssumption
     DEF TransactionsInit, TransactionsInv, TransactionsTypeOK, EditsAreChecked, RowsWereDrawn,
         Recorded, TransactionIds

LEMMA FeesAreNatural ==
  ASSUME NEW totalAmount \in Nat PROVE calculateTradingFees(totalAmount) \in Nat
  <1>1. totalAmount \div 1000 \in Nat
    OBVIOUS
  <1> DEFINE low == Min({totalAmount \div 1000, 50})
  <1>2. low \in {totalAmount \div 1000, 50}
    BY <1>1 DEF Min
  <1>3. Max({1, low}) \in {1, low}
    BY <1>1, <1>2 DEF Max
  <1> QED
    BY <1>1, <1>2, <1>3 DEF calculateTradingFees

LEMMA TradedType ==
  ASSUME NEW type \in {"BUY", "SELL"}, NEW trade \in Trades, NEW fees \in Nat,
         NEW status \in {"COMPLETED", "FAILED"}, TransactionsTypeOK
  PROVE  Traded(type, trade, fees, status) \in TransactionRow
  BY DEF Traded, TransactionRow, Stocks, Quantities, Prices, Statuses, TransactionsTypeOK

LEMMA InsertStep ==
  ASSUME TransactionsInv, NEW row \in TransactionRow, InsertTransaction(row)
  PROVE  TransactionsInv'
  <1>1. /\ drawn' = drawn + 1 /\ drawn \in Nat /\ drawn + 1 \in TransactionIds
        /\ drawn' \in 0..MaxTransactions
    BY TransactionsAssumption
       DEF TransactionsInv, TransactionsTypeOK, InsertTransaction, TransactionIds
  <1>2. TransactionsTypeOK'
    BY <1>1 DEF TransactionsInv, TransactionsTypeOK, InsertTransaction
  <1>3. EditsAreChecked'
    BY DEF TransactionsInv, EditsAreChecked, InsertTransaction
  <1>4. Recorded' \subseteq Recorded \cup {drawn + 1} /\ Recorded \subseteq Nat
    BY DEF TransactionsInv, TransactionsTypeOK, InsertTransaction, Recorded, TransactionIds
  <1>5. \A e \in Edits : edits[e] # NoTransaction => edits[e].id \in Nat
    BY DEF TransactionsInv, TransactionsTypeOK, Edit, TransactionIds
  <1>6. RowsWereDrawn'
    BY <1>1, <1>4, <1>5 DEF TransactionsInv, RowsWereDrawn, InsertTransaction
  <1> QED
    BY <1>2, <1>3, <1>6 DEF TransactionsInv

\* An edit that has passed its check.
LEMMA EditStep ==
  ASSUME TransactionsInv, NEW e \in Edits, NEW edit \in Edit,
         edits' = [edits EXCEPT ![e] = edit], UNCHANGED <<transactions, drawn, time>>,
         edit.seen # "COMPLETED", edit.id \in Recorded
  PROVE  TransactionsInv'
  <1>1. TransactionsTypeOK'
    BY DEF TransactionsInv, TransactionsTypeOK
  <1>2. EditsAreChecked'
    BY DEF TransactionsInv, TransactionsTypeOK, EditsAreChecked
  <1>3. RowsWereDrawn'
    BY DEF TransactionsInv, TransactionsTypeOK, RowsWereDrawn, Recorded
  <1> QED
    BY <1>1, <1>2, <1>3 DEF TransactionsInv

LEMMA SavedType ==
  ASSUME TransactionsInv, NEW edit \in Edit PROVE Saved(edit) \in TransactionRow
  <1>1. edit.row \in TransactionRow /\ edit.id \in TransactionIds
    BY DEF Edit
  <1>2. transactions[edit.id] # NoTransaction => transactions[edit.id] \in TransactionRow
    BY <1>1 DEF TransactionsInv, TransactionsTypeOK
  <1> QED
    BY <1>1, <1>2 DEF Saved, TransactionRow, Statuses

LEMMA TransactionsStep ==
  TransactionsInv /\ [TransactionsNext]_transactionsVars => TransactionsInv'
  <1> SUFFICES ASSUME TransactionsInv, [TransactionsNext]_transactionsVars
               PROVE  TransactionsInv'
    OBVIOUS
  <1>1. ASSUME NEW type \in {"BUY", "SELL"}, NEW trade \in Trades, NEW fees \in Fees,
               createTransaction(type, trade, fees)
        PROVE  TransactionsInv'
    <2>1. fees \in Nat
      BY TransactionsAssumption
    <2> QED
      BY <1>1, <2>1, TradedType, InsertStep DEF createTransaction, TransactionsInv
  <1>2. ASSUME NEW type \in {"BUY", "SELL"}, NEW trade \in Trades, NEW success \in BOOLEAN,
               createAutoTradingTransaction(type, trade, success)
        PROVE  TransactionsInv'
    <2>1. trade.pricePerShare * trade.quantity \in Nat
      BY TransactionsAssumption DEF Prices, Quantities
    <2>2. calculateTradingFees(trade.pricePerShare * trade.quantity) \in Nat
      BY <2>1, FeesAreNatural
    <2> QED
      BY <1>2, <2>2, TradedType, InsertStep DEF createAutoTradingTransaction, TransactionsInv
  <1>3. ASSUME NEW e \in Edits, NEW i \in TransactionIds, NEW sent \in SUBSET {"status", "fees"},
               NEW status \in Statuses, NEW fees \in Fees,
               updateTransaction(e, i, sent, status, fees)
        PROVE  TransactionsInv'
    <2> DEFINE row == [transactions[i] EXCEPT !.status = IF "status" \in sent THEN status ELSE @,
                                              !.fees = IF "fees" \in sent THEN fees ELSE @]
               edit == [id |-> i, removes |-> FALSE, undefined |-> {"status", "fees"} \ sent,
                        seen |-> transactions[i].status, row |-> row]
    <2>1. /\ i \in Recorded /\ transactions[i].status # "COMPLETED"
          /\ transactions[i] \in TransactionRow
      BY <1>3 DEF updateTransaction, Editable, Recorded, TransactionsInv, TransactionsTypeOK
    <2>2. row \in TransactionRow
      BY <2>1, TransactionsAssumption DEF TransactionRow
    <2>3. transactions[i].status \in Statuses
      BY <2>1 DEF TransactionRow
    <2>4. edit \in Edit
      BY <2>2, <2>3 DEF Edit
    <2>5. edits' = [edits EXCEPT ![e] = edit] /\ UNCHANGED <<transactions, drawn, time>>
      BY <1>3 DEF updateTransaction
    <2> QED
      BY <2>1, <2>4, <2>5, EditStep
  <1>4. ASSUME NEW e \in Edits, NEW i \in TransactionIds, deleteTransaction(e, i)
        PROVE  TransactionsInv'
    <2> DEFINE edit == [id |-> i, row |-> transactions[i], removes |-> TRUE, undefined |-> {},
                        seen |-> transactions[i].status]
    <2>1. /\ i \in Recorded /\ transactions[i].status # "COMPLETED"
          /\ transactions[i] \in TransactionRow
      BY <1>4 DEF deleteTransaction, Editable, Recorded, TransactionsInv, TransactionsTypeOK
    <2>2. transactions[i].status \in Statuses
      BY <2>1 DEF TransactionRow
    <2>3. edit \in Edit
      BY <2>1, <2>2 DEF Edit
    <2> QED
      BY <1>4, <2>1, <2>3, EditStep DEF deleteTransaction
  <1>5. ASSUME NEW e \in Edits, WriteEdit(e) PROVE TransactionsInv'
    <2>1. edits[e] \in Edit /\ edits[e].id \in TransactionIds /\ edits[e].id <= drawn
      BY <1>5 DEF WriteEdit, TransactionsInv, TransactionsTypeOK, RowsWereDrawn, Edit
    <2>2. Saved(edits[e]) \in TransactionRow
      BY <2>1, SavedType
    <2>3. TransactionsTypeOK'
      BY <1>5, <2>1, <2>2 DEF WriteEdit, TransactionsInv, TransactionsTypeOK
    <2>4. EditsAreChecked'
      BY <1>5 DEF WriteEdit, TransactionsInv, TransactionsTypeOK, EditsAreChecked
    <2>5. Recorded' \subseteq Recorded \cup {edits[e].id}
      BY <1>5 DEF WriteEdit, TransactionsInv, TransactionsTypeOK, Recorded
    <2>6. RowsWereDrawn'
      BY <1>5, <2>1, <2>5 DEF WriteEdit, TransactionsInv, TransactionsTypeOK, RowsWereDrawn
    <2> QED
      BY <2>3, <2>4, <2>6 DEF TransactionsInv
  <1>6. CASE Tick
    BY <1>6, TransactionsAssumption
       DEF Tick, TransactionsInv, TransactionsTypeOK, EditsAreChecked, RowsWereDrawn, Recorded
  <1>7. CASE UNCHANGED transactionsVars
    BY <1>7 DEF transactionsVars, TransactionsInv, TransactionsTypeOK, EditsAreChecked,
                RowsWereDrawn, Recorded
  <1> QED
    BY <1>1, <1>2, <1>3, <1>4, <1>5, <1>6, <1>7 DEF TransactionsNext

\* A transaction that is completed, and of which no edit that saw it otherwise
\* is under way, is left as it is by every step.
LEMMA CompletedStep ==
  ASSUME TransactionsInv, TransactionsNext, NEW i \in Recorded,
         transactions[i].status = "COMPLETED",
         \A e \in Edits : edits[e] # NoTransaction /\ edits[e].id = i
                             => edits[e].seen = "COMPLETED"
  PROVE  transactions'[i] = transactions[i]
  <1>0. /\ transactions \in [TransactionIds -> TransactionRow \cup {NoTransaction}]
        /\ i \in TransactionIds /\ i <= drawn /\ drawn \in Nat /\ i \in Nat
        /\ \A e \in Edits : edits[e] # NoTransaction => edits[e].id # i
    BY DEF TransactionsInv, TransactionsTypeOK, RowsWereDrawn, Recorded, TransactionIds,
           EditsAreChecked
  <1>1. ASSUME NEW row, InsertTransaction(row) PROVE transactions'[i] = transactions[i]
    BY <1>0, <1>1 DEF InsertTransaction
  <1>2. ASSUME NEW e \in Edits, WriteEdit(e) PROVE transactions'[i] = transactions[i]
    BY <1>0, <1>2 DEF WriteEdit
  <1> QED
    BY <1>1, <1>2
       DEF TransactionsNext, createTransaction, createAutoTradingTransaction, updateTransaction,
           deleteTransaction, Tick

\* The types of the transactions' table and of what is going to be written,
\* for any number of overlapping edits.
THEOREM TransactionsTypeCorrect == TransactionsSpec => []TransactionsTypeOK
  <1>1. TransactionsInv => TransactionsTypeOK
    BY DEF TransactionsInv
  <1> QED
    BY <1>1, TransactionsInitInv, TransactionsStep, PTL DEF TransactionsSpec

\* A completed transaction is never changed or removed, unless by an edit that
\* checked it before it was completed.
THEOREM CompletedIsAlwaysFinal == TransactionsSpec => CompletedIsFinal
  <1>1. TransactionsInv /\ [TransactionsNext]_transactionsVars
        => [\A i \in Recorded :
              /\ transactions[i].status = "COMPLETED"
              /\ \A e \in Edits : edits[e] # NoTransaction /\ edits[e].id = i
                   => edits[e].seen = "COMPLETED"
              => transactions'[i] = transactions[i]]_transactionsVars
    BY CompletedStep
  <1> QED
    BY <1>1, TransactionsInitInv, TransactionsStep, PTL DEF TransactionsSpec, CompletedIsFinal

-----------------------------------------------------------------------------
(* The statistics and the analysis of transactions.                        *)

\* The rows that are looked at, and their columns.
LEMMA RecordedRows ==
  ASSUME TransactionsTypeOK
  PROVE  /\ IsFiniteSet(Recorded)
         /\ \A i \in Recorded :
              /\ transactions[i] \in TransactionRow
              /\ transactions[i].transactionType \in {"BUY", "SELL"}
              /\ transactions[i].stock \in Stocks
              /\ transactions[i].quantity \in Nat
              /\ transactions[i].pricePerShare \in Nat
              /\ transactions[i].transactionDate \in 0..MaxTime
              /\ Quantity[i] = transactions[i].quantity
              /\ Amount[i] = transactions[i].quantity * transactions[i].pricePerShare
              /\ Quantity[i] \in Nat /\ Amount[i] \in Nat
<1>1. IsFiniteSet(TransactionIds)
  BY TransactionsAssumption, FS_Interval DEF TransactionIds
<1>2. Recorded \in SUBSET TransactionIds
  BY DEF Recorded
<1>3. IsFiniteSet(Recorded)
  BY <1>1, <1>2, FS_Subset
<1>4. ASSUME NEW i \in Recorded PROVE transactions[i] \in TransactionRow
  BY DEF TransactionsTypeOK, Recorded
<1>5. ASSUME NEW i \in Recorded
      PROVE  /\ transactions[i].transactionType \in {"BUY", "SELL"}
             /\ transactions[i].stock \in Stocks
             /\ transactions[i].quantity \in Nat
             /\ transactions[i].pricePerShare \in Nat
             /\ transactions[i].transactionDate \in 0..MaxTime
  BY <1>4, TransactionsAssumption DEF TransactionRow
<1>6. ASSUME NEW i \in Recorded
      PROVE  /\ Quantity[i] = transactions[i].quantity
             /\ Amount[i] = transactions[i].quantity * transactions[i].pricePerShare
             /\ Quantity[i] \in Nat /\ Amount[i] \in Nat
  <2>1. transactions[i].quantity \in Nat /\ transactions[i].pricePerShare \in Nat
    BY <1>5
  <2>2. transactions[i].quantity * transactions[i].pricePerShare \in Nat
    BY <2>1
  <2> QED BY <2>1, <2>2 DEF Quantity, Amount
<1> QED BY <1>3, <1>4, <1>5, <1>6

\* Among rows that are looked at, a sum of quantities or amounts is a number.
LEMMA TotalsAreNumbers ==
  ASSUME TransactionsTypeOK, NEW ids \in SUBSET Recorded
  PROVE  /\ IsFiniteSet(ids)
         /\ Total(Quantity, ids) \in Int /\ Total(Amount, ids) \in Int
BY RecordedRows, FS_Subset, SumType DEF Total

\* The scan for the stock with the largest volume misses none that it comes by.
LEMMA ScanFindsMost ==
  ASSUME TransactionsTypeOK, NEW ids \in SUBSET Recorded,
         NEW n \in Nat, NEW order \in [1..n -> Stocks]
  PROVE  /\ mostTraded(ids, order).volume \in Int
         /\ mostTraded(ids, order).volume >= 0
         /\ \A k \in 1..n : mostTraded(ids, order).volume >= Total(Quantity, OfStock(ids, order[k]))
<1> DEFINE Vol(s) == Total(Quantity, OfStock(ids, s))
           Found == [stock : Stocks \cup {NoTransaction}, volume : Int]
           Nobody == [stock |-> NoTransaction, volume |-> 0]
           Better(k, best) == IF Vol(order[k]) > best.volume
                              THEN [stock |-> order[k], volume |-> Vol(order[k])] ELSE best
           step == [kb \in (1..n) \X Found |-> Better(kb[1], kb[2])]
           Scan(g) == [k \in 0..n |-> IF k = 0 THEN Nobody ELSE Better(k, g[k - 1])]
           best == CHOOSE g : g = Scan(g)
<1>1. \A k \in 1..n : Vol(order[k]) \in Int
  <2>1. \A s : OfStock(ids, s) \in SUBSET Recorded
    BY DEF OfStock
  <2> QED BY <2>1, TotalsAreNumbers
<1>2. mostTraded(ids, order) = best[n]
  <2>1. Cardinality(DOMAIN order) = n
    BY FS_Interval
  <2> QED BY <2>1, Zenon DEF mostTraded
<1> HIDE DEF Vol
<1>3. Nobody \in Found /\ \A kb \in (1..n) \X Found : step[kb] \in Found
  <2>1. Nobody \in Found
    OBVIOUS
  <2>2. ASSUME NEW kb \in (1..n) \X Found PROVE step[kb] \in Found
    <3>1. step[kb] = Better(kb[1], kb[2]) /\ kb[1] \in 1..n /\ kb[2] \in Found
      OBVIOUS
    <3>2. Vol(order[kb[1]]) \in Int /\ order[kb[1]] \in Stocks
      BY <1>1, <3>1
    <3> HIDE DEF step
    <3> QED BY <3>1, <3>2
  <2> QED BY <2>1, <2>2
<1> HIDE DEF step
<1>4. \E g \in [0..n -> Found] : Recurs(g, n, Nobody, step)
  <2> HIDE DEF Found, Nobody
  <2> QED BY <1>3, RecursionExists
<1>a. PICK g \in [0..n -> Found] : g[0] = Nobody /\ \A m \in 1..n : g[m] = step[<<m, g[m - 1]>>]
  BY <1>4 DEF Recurs
<1>5. g = Scan(g)
  <2>1. \A k \in 0..n : g[k] = IF k = 0 THEN Nobody ELSE Better(k, g[k - 1])
    <3> SUFFICES ASSUME NEW k \in 0..n, k # 0 PROVE g[k] = Better(k, g[k - 1])
      BY <1>a
    <3>1. k - 1 \in 0..n
      OBVIOUS
    <3>2. <<k, g[k - 1]>> \in (1..n) \X Found
      BY <3>1
    <3>3. step[<<k, g[k - 1]>>] = Better(k, g[k - 1])
      BY <3>2 DEF step
    <3> QED BY <1>a, <3>3
  <2> HIDE DEF Better, Nobody, Found
  <2> QED BY <2>1
<1>6. best = Scan(best)
  <2> HIDE DEF Scan
  <2> QED BY <1>5
<1> HIDE DEF best
<1>7. /\ best[0] = Nobody
      /\ \A k \in 1..n : best[k] = Better(k, best[k - 1])
  <2> HIDE DEF Better, Nobody
  <2> QED BY <1>6
<1> DEFINE N == {k \in Nat : k <= n => /\ best[k] \in Found
                                       /\ best[k].volume >= 0
                                       /\ \A j \in 1..k : best[k].volume >= Vol(order[j])}
<1>8. 0 \in N
  BY <1>7
<1>9. ASSUME NEW k \in Nat, k \in N PROVE k + 1 \in N
  <2> SUFFICES ASSUME k + 1 <= n
               PROVE  /\ best[k + 1] \in Found
                      /\ best[k + 1].volume >= 0
                      /\ \A j \in 1..(k + 1) : best[k + 1].volume >= Vol(order[j])
    OBVIOUS
  <2>1. best[k] \in Found /\ best[k].volume >= 0 /\ \A j \in 1..k : best[k].volume >= Vol(order[j])
    BY <1>9
  <2>2. best[k + 1] = Better(k + 1, best[k])
    BY <1>7
  <2>3. Vol(order[k + 1]) \in Int /\ order[k + 1] \in Stocks
    BY <1>1
  <2>4. best[k].volume \in Int
    BY <2>1
  <2> HIDE DEF N
  <2>5. CASE Vol(order[k + 1]) > best[k].volume
    <3>1. best[k + 1] = [stock |-> order[k + 1], volume |-> Vol(order[k + 1])]
      BY <2>2, <2>5
    <3>2. best[k + 1].volume = Vol(order[k + 1]) /\ best[k + 1] \in Found
      BY <2>3, <3>1
    <3>3. \A j \in 1..(k + 1) : j \in 1..k \/ j = k + 1
      OBVIOUS
    <3>4. \A j \in 1..k : Vol(order[j]) \in Int
      BY <1>1
    <3>5. best[k + 1].volume >= 0
      BY <2>1, <2>3, <2>4, <2>5, <3>2
    <3>6. \A j \in 1..k : best[k + 1].volume >= Vol(order[j])
      BY <2>1, <2>3, <2>4, <2>5, <3>2, <3>4
    <3> QED BY <2>3, <3>2, <3>3, <3>5, <3>6
  <2>6. CASE ~(Vol(order[k + 1]) > best[k].volume)
    <3>1. best[k + 1] = best[k]
      BY <2>2, <2>6
    <3>2. \A j \in 1..(k + 1) : j \in 1..k \/ j = k + 1
      OBVIOUS
    <3> QED BY <2>1, <2>3, <2>4, <2>6, <3>1, <3>2
  <2> QED BY <2>5, <2>6
<1> HIDE DEF N
<1>10. n \in N
  BY <1>8, <1>9, SetInduction
<1> QED BY <1>2, <1>10 DEF N, Vol

\* Whatever rows are looked at, in whatever order their stocks come up.
LEMMA StatsAddUp ==
  ASSUME TransactionsTypeOK, NEW ids \in SUBSET Recorded,
         NEW order \in Bijection(1..Cardinality({transactions[i].stock : i \in ids}),
                                 {transactions[i].stock : i \in ids})
  PROVE  LET traded == {transactions[i].stock : i \in ids}
             stats == getTransactionStats(ids, order)
         IN  /\ \A stock \in traded :
                  stats.mostTraded.volume >= Total(Quantity, OfStock(ids, stock))
             /\ Cardinality(traded) * stats.mostTraded.volume >= stats.totalVolume
             /\ stats.totalBuyTransactions + stats.totalSellTransactions
                  = stats.totalTransactions
<1> DEFINE traded == {transactions[i].stock : i \in ids}
           n == Cardinality(traded)
           most == mostTraded(ids, order).volume
           stockOf == [i \in ids |-> transactions[i].stock]
           volume == [s \in traded |-> Total(Quantity, OfStock(ids, s))]
<1>1. IsFiniteSet(ids)
  BY TotalsAreNumbers
<1>2. \A i \in ids : /\ transactions[i].stock \in Stocks /\ Quantity[i] \in Int
                     /\ transactions[i].transactionType \in {"BUY", "SELL"}
  BY RecordedRows
<1>3. stockOf \in Surjection(ids, traded)
  <2>1. stockOf \in [ids -> traded] /\ \A s \in traded : \E i \in ids : stockOf[i] = s
    OBVIOUS
  <2> QED BY <2>1, Fun_IsSurj
<1>4. IsFiniteSet(traded) /\ n \in Nat
  BY <1>1, <1>3, FS_Surjection, FS_CardinalityType
<1>5. order \in [1..n -> traded] /\ \A s \in traded : \E k \in 1..n : order[k] = s
  <2>1. order \in Bijection(1..n, traded)
    OBVIOUS
  <2> HIDE DEF traded, n
  <2> QED BY <2>1 DEF Bijection, Injection, Surjection
<1>6. order \in [1..n -> Stocks]
  BY <1>2, <1>5
<1>7. /\ most \in Int
      /\ \A k \in 1..n : most >= Total(Quantity, OfStock(ids, order[k]))
  <2> HIDE DEF n
  <2> QED BY <1>4, <1>6, ScanFindsMost
<1>8. \A s \in traded : most >= Total(Quantity, OfStock(ids, s))
  BY <1>5, <1>7
<1>9. n * most >= Total(Quantity, ids)
  <2>1. \A s \in traded : volume[s] \in Int /\ volume[s] <= most
    <3> SUFFICES ASSUME NEW s \in traded PROVE volume[s] \in Int /\ volume[s] <= most
      OBVIOUS
    <3>1. OfStock(ids, s) \in SUBSET Recorded
      BY DEF OfStock
    <3>2. Total(Quantity, OfStock(ids, s)) \in Int
      BY <3>1, TotalsAreNumbers
    <3> HIDE DEF most
    <3> QED BY <1>7, <1>8, <3>2
  <2>2. SumFunctionOnSet(volume, traded) = SumFunctionOnSet(Quantity, ids)
    <3>1. \A s \in traded : volume[s] = SumFunctionOnSet(Quantity, PartOf(ids, stockOf, s))
      <4> SUFFICES ASSUME NEW s \in traded
                   PROVE volume[s] = SumFunctionOnSet(Quantity, PartOf(ids, stockOf, s))
        OBVIOUS
      <4>1. PartOf(ids, stockOf, s) = OfStock(ids, s)
        BY DEF OfStock, PartOf
      <4> QED BY <4>1 DEF Total
    <3>2. \A i \in ids : Quantity[i] \in Int /\ stockOf[i] \in traded
      BY <1>2
    <3> HIDE DEF volume, stockOf, traded, n, most
    <3> QED BY <1>1, <1>4, <3>1, <3>2, SumByParts
  <2> HIDE DEF volume, traded, most
  <2>3. SumFunctionOnSet(volume, traded) <= n * most
    BY <1>4, <1>7, <2>1, SumAtMost
  <2>4. SumFunctionOnSet(volume, traded) \in Int
    BY <1>4, <2>1, SumType
  <2>5. n * most \in Int
    <3> HIDE DEF n
    <3> QED BY <1>4, <1>7
  <2> QED BY <2>2, <2>3, <2>4, <2>5 DEF Total
<1>10. Cardinality(OfType(ids, "BUY")) + Cardinality(OfType(ids, "SELL")) = Cardinality(ids)
  <2>1. /\ OfType(ids, "BUY") \in SUBSET ids /\ OfType(ids, "SELL") \in SUBSET ids
        /\ OfType(ids, "BUY") \cup OfType(ids, "SELL") = ids
        /\ OfType(ids, "BUY") \cap OfType(ids, "SELL") = {}
    BY <1>2 DEF OfType
  <2>2. IsFiniteSet(OfType(ids, "BUY")) /\ IsFiniteSet(OfType(ids, "SELL"))
    BY <1>1, <2>1, FS_Subset
  <2>3. Cardinality(ids) = Cardinality(OfType(ids, "BUY")) + Cardinality(OfType(ids, "SELL")) - 0
    BY <2>1, <2>2, FS_Union, FS_EmptySet
  <2>4. Cardinality(OfType(ids, "BUY")) \in Int /\ Cardinality(OfType(ids, "SELL")) \in Int
    BY <2>2, FS_CardinalityType
  <2> QED BY <2>3, <2>4
<1> QED BY <1>8, <1>9, <1>10 DEF getTransactionStats

\* Any filter and any order of the stocks.
LEMMA MostTradedHolds == ASSUME TransactionsTypeOK PROVE MostTradedIsMost
<1>1. \A types, statuses, stocks, from, to : Listed(types, statuses, stocks, from, to) \in SUBSET Recorded
  BY DEF Listed
<1> QED BY <1>1, StatsAddUp DEF MostTradedIsMost

-----------------------------------------------------------------------------
\* The profit of a pair of rows of which the sale is not larger than the
\* purchase, or the other way round.
LEMMA ProfitOfPair ==
  ASSUME TransactionsTypeOK, NEW b \in Recorded, NEW s \in Recorded
  PROVE  /\ Profit(<<b, s>>) \in Int
         /\ Quantity[s] <= Quantity[b] =>
              Profit(<<b, s>>) = Amount[s] - transactions[b].pricePerShare * Quantity[s]
         /\ Quantity[b] <= Quantity[s] =>
              Profit(<<b, s>>) = transactions[s].pricePerShare * Quantity[b] - Amount[b]
<1> DEFINE pb == transactions[b].pricePerShare
           ps == transactions[s].pricePerShare
           qb == Quantity[b]
           qs == Quantity[s]
<1>1. /\ pb \in Nat /\ ps \in Nat /\ qb \in Nat /\ qs \in Nat
      /\ Amount[b] = qb * pb /\ Amount[s] = qs * ps
  BY RecordedRows
<1>2. Profit(<<b, s>>) = (ps - pb) * Min({qb, qs})
  BY DEF Profit
<1> HIDE DEF pb, ps, qb, qs
<1>3. CASE qs <= qb
  <2>1. Min({qb, qs}) = qs
    BY <1>1, <1>3, MinOfTwo
  <2>2. (ps - pb) * qs = qs * ps - pb * qs
    BY <1>1
  <2>3. qb <= qs => qb = qs
    BY <1>1, <1>3
  <2>4. (ps - pb) * qb = ps * qb - qb * pb
    BY <1>1
  <2>5. (ps - pb) * qs \in Int
    BY <1>1
  <2> QED BY <1>1, <1>2, <2>1, <2>2, <2>3, <2>4, <2>5 DEF pb, ps, qb, qs
<1>4. CASE qb < qs
  <2>1. Min({qb, qs}) = qb
    BY <1>1, <1>4, MinOfTwo
  <2>2. (ps - pb) * qb = ps * qb - qb * pb /\ (ps - pb) * qb \in Int
    BY <1>1
  <2>3. ~(qs <= qb)
    BY <1>1, <1>4
  <2> QED BY <1>1, <1>2, <2>1, <2>2, <2>3 DEF pb, ps, qb, qs
<1> QED BY <1>1, <1>3, <1>4

\* In a round trip every share is counted once.
LEMMA RoundTripProfit ==
  ASSUME TransactionsTypeOK, NEW ids \in SUBSET Recorded, NEW stock, RoundTrip(ids, stock),
         NEW profit,
         \A t \in OfType(OfStock(ids, stock), "BUY") \X OfType(OfStock(ids, stock), "SELL") :
           profit[t] = Profit(t)
  PROVE  SumFunctionOnSet(profit, OfType(OfStock(ids, stock), "BUY")
                                    \X OfType(OfStock(ids, stock), "SELL"))
           = Total(Amount, OfType(OfStock(ids, stock), "SELL"))
               - Total(Amount, OfType(OfStock(ids, stock), "BUY"))
<1> DEFINE buys == OfType(OfStock(ids, stock), "BUY")
           sells == OfType(OfStock(ids, stock), "SELL")
<1>1. buys \in SUBSET Recorded /\ sells \in SUBSET Recorded
  BY DEF OfType, OfStock
<1>2. /\ Cardinality(buys) = 1 \/ Cardinality(sells) = 1
      /\ Total(Quantity, buys) = Total(Quantity, sells)
  BY DEF RoundTrip
<1>3. \A b \in buys, s \in sells : profit[<<b, s>>] = Profit(<<b, s>>)
  OBVIOUS
<1> HIDE DEF buys, sells
<1>4. /\ IsFiniteSet(buys) /\ IsFiniteSet(sells)
      /\ Total(Quantity, buys) \in Int /\ Total(Amount, buys) \in Int
      /\ Total(Quantity, sells) \in Int /\ Total(Amount, sells) \in Int
  BY <1>1, TotalsAreNumbers
<1>5. \A i \in buys \cup sells : /\ Quantity[i] \in Nat /\ Amount[i] \in Nat
                                 /\ transactions[i].pricePerShare \in Nat
                                 /\ Amount[i] = Quantity[i] * transactions[i].pricePerShare
  BY <1>1, RecordedRows
<1>6. CASE Cardinality(buys) = 1
  <2>1. PICK b : buys = {b}
    BY <1>4, <1>6, FS_Singleton
  <2> DEFINE pb == transactions[b].pricePerShare
             h == [s \in sells |-> Amount[s] + (-pb) * Quantity[s]]
             pair == [s \in sells |-> <<b, s>>]
  <2>2. pb \in Nat /\ Quantity[b] \in Nat /\ Amount[b] = Quantity[b] * pb /\ Amount[b] \in Int
    BY <1>5, <2>1
  <2>3. Total(Quantity, buys) = Quantity[b] /\ Total(Amount, buys) = Amount[b]
    <3>1. Quantity[b] \in Int /\ Amount[b] \in Int
      BY <2>2
    <3> DEFINE q == Quantity
               a == Amount
    <3> HIDE DEF q, a
    <3>2. q[b] \in Int /\ a[b] \in Int
      BY <3>1 DEF q, a
    <3>3. SumFunctionOnSet(q, {b}) = q[b] /\ SumFunctionOnSet(a, {b}) = a[b]
      BY <3>2, SumOfOne
    <3> QED BY <2>1, <3>3 DEF Total, q, a
  <2>4. \A s \in sells : Quantity[s] <= Quantity[b]
    BY <1>2, <1>4, <1>5, <2>3, SumHasSummands DEF Total
  <2>5. \A s \in sells : h[s] \in Int /\ profit[pair[s]] = h[s]
    <3> SUFFICES ASSUME NEW s \in sells PROVE h[s] \in Int /\ profit[pair[s]] = h[s]
      OBVIOUS
    <3>1. Profit(<<b, s>>) = Amount[s] - pb * Quantity[s]
      BY <1>1, <2>1, <2>4, ProfitOfPair
    <3>2. profit[pair[s]] = Profit(<<b, s>>)
      BY <1>3, <2>1
    <3>3. h[s] = Amount[s] + (-pb) * Quantity[s]
      OBVIOUS
    <3>4. Quantity[s] \in Nat /\ Amount[s] \in Nat
      BY <1>5
    <3> HIDE DEF h, pair, pb
    <3>5. (-pb) * Quantity[s] = -(pb * Quantity[s]) /\ pb * Quantity[s] \in Int
      BY <2>2, <3>4
    <3> QED BY <3>1, <3>2, <3>3, <3>4, <3>5
  <2>6. pair \in Bijection(sells, buys \X sells)
    <3>1. pair \in [sells -> buys \X sells]
      BY <2>1
    <3>2. \A s, t \in sells : pair[s] = pair[t] => s = t
      OBVIOUS
    <3>3. \A p \in buys \X sells : \E s \in sells : pair[s] = p
      BY <2>1
    <3> QED BY <3>1, <3>2, <3>3, Fun_IsBij
  <2>7. \A s \in sells : /\ Amount[s] \in Int /\ Quantity[s] \in Int
                         /\ h[s] = Amount[s] + (-pb) * Quantity[s]
    BY <1>5
  <2> HIDE DEF pair, h
  <2>8. SumFunctionOnSet(profit, buys \X sells) = SumFunctionOnSet(h, sells)
    BY <1>4, <2>5, <2>6, SumBijection
  <2>9. -pb \in Int
    BY <2>2
  <2> HIDE DEF pb
  <2>10. SumFunctionOnSet(h, sells) = Total(Amount, sells) + (-pb) * Total(Quantity, sells)
    BY <1>4, <2>7, <2>9, SumLinear DEF Total
  <2>11. (-pb) * Quantity[b] = -Amount[b]
    BY <2>2
  <2> QED BY <1>2, <1>4, <2>2, <2>3, <2>8, <2>10, <2>11 DEF buys, sells
<1>7. CASE Cardinality(sells) = 1
  <2>1. PICK s : sells = {s}
    BY <1>4, <1>7, FS_Singleton
  <2> DEFINE ps == transactions[s].pricePerShare
             h == [b \in buys |-> -Amount[b] + ps * Quantity[b]]
             k == [b \in buys |-> -Amount[b]]
             pair == [b \in buys |-> <<b, s>>]
  <2>2. ps \in Nat /\ Quantity[s] \in Nat /\ Amount[s] = Quantity[s] * ps /\ Amount[s] \in Int
    BY <1>5, <2>1
  <2>3. Total(Quantity, sells) = Quantity[s] /\ Total(Amount, sells) = Amount[s]
    <3>1. Quantity[s] \in Int /\ Amount[s] \in Int
      BY <2>2
    <3> DEFINE q == Quantity
               a == Amount
    <3> HIDE DEF q, a
    <3>2. q[s] \in Int /\ a[s] \in Int
      BY <3>1 DEF q, a
    <3>3. SumFunctionOnSet(q, {s}) = q[s] /\ SumFunctionOnSet(a, {s}) = a[s]
      BY <3>2, SumOfOne
    <3> QED BY <2>1, <3>3 DEF Total, q, a
  <2>4. \A b \in buys : Quantity[b] <= Quantity[s]
    BY <1>2, <1>4, <1>5, <2>3, SumHasSummands DEF Total
  <2>5. \A b \in buys : h[b] \in Int /\ profit[pair[b]] = h[b]
    <3> SUFFICES ASSUME NEW b \in buys PROVE h[b] \in Int /\ profit[pair[b]] = h[b]
      OBVIOUS
    <3>1. Profit(<<b, s>>) = ps * Quantity[b] - Amount[b]
      BY <1>1, <2>1, <2>4, ProfitOfPair
    <3>2. profit[pair[b]] = Profit(<<b, s>>)
      BY <1>3, <2>1
    <3>3. h[b] = -Amount[b] + ps * Quantity[b]
      OBVIOUS
    <3>4. Quantity[b] \in Nat /\ Amount[b] \in Nat
      BY <1>5
    <3> HIDE DEF h, pair, ps, k
    <3>5. ps * Quantity[b] \in Int
      BY <2>2, <3>4
    <3> QED BY <3>1, <3>2, <3>3, <3>4, <3>5
  <2>6. pair \in Bijection(buys, buys \X sells)
    <3>1. pair \in [buys -> buys \X sells]
      BY <2>1
    <3>2. \A b, t \in buys : pair[b] = pair[t] => b = t
      OBVIOUS
    <3>3. \A p \in buys \X sells : \E b \in buys : pair[b] = p
      BY <2>1
    <3> QED BY <3>1, <3>2, <3>3, Fun_IsBij
  <2>7. \A b \in buys : /\ k[b] \in Int /\ Quantity[b] \in Int
                        /\ h[b] = k[b] + ps * Quantity[b]
    BY <1>5
  <2>8. \A b \in buys : /\ Amount[b] \in Int /\ Amount[b] \in Int
                        /\ k[b] = Amount[b] + (-2) * Amount[b]
    <3> SUFFICES ASSUME NEW b \in buys
                 PROVE Amount[b] \in Int /\ k[b] = Amount[b] + (-2) * Amount[b]
      OBVIOUS
    <3>1. Amount[b] \in Nat /\ k[b] = -Amount[b]
      BY <1>5
    <3> HIDE DEF k
    <3> QED BY <3>1
  <2> HIDE DEF pair, h, k
  <2>9. SumFunctionOnSet(profit, buys \X sells) = SumFunctionOnSet(h, buys)
    BY <1>4, <2>5, <2>6, SumBijection
  <2>10. ps \in Int
    BY <2>2
  <2> HIDE DEF ps
  <2>11. SumFunctionOnSet(h, buys) = SumFunctionOnSet(k, buys) + ps * Total(Quantity, buys)
    BY <1>4, <2>7, <2>10, SumLinear DEF Total
  <2>12. SumFunctionOnSet(k, buys) = Total(Amount, buys) + (-2) * Total(Amount, buys)
    BY <1>4, <2>8, SumLinear DEF Total
  <2>13. ps * Quantity[s] = Amount[s]
    BY <2>2
  <2>14. SumFunctionOnSet(k, buys) = -Total(Amount, buys)
    BY <1>4, <2>12
  <2> QED BY <1>2, <1>4, <2>2, <2>3, <2>9, <2>11, <2>13, <2>14 DEF buys, sells
<1> QED BY <1>2, <1>6, <1>7

\* All the profit of an analysis is the money that came in less the money
\* that went out, stock by stock.
LEMMA NetProfitHolds == ASSUME TransactionsTypeOK PROVE NetProfitOfRoundTrips
<1> SUFFICES ASSUME NEW period \in DOMAIN Periods,
                    \A stock \in Stocks : OfStock(Analysed(period), stock) # {}
                                            => RoundTrip(Analysed(period), stock)
             PROVE  analyzeTransactions(period).netProfit
                      = Total(Amount, OfType(Analysed(period), "SELL"))
                          - Total(Amount, OfType(Analysed(period), "BUY"))
  BY DEF NetProfitOfRoundTrips
<1> DEFINE ids == Analysed(period)
           trades == pairBuySellTransactions(ids)
           winning == {t \in trades : Profit(t) > 0}
           losing == {t \in trades : Profit(t) < 0}
           even == {t \in trades : Profit(t) = 0}
           Gain == [t \in winning |-> Profit(t)]
           Loss == [t \in losing |-> -Profit(t)]
           profit == [t \in trades |-> Profit(t)]
           traded == {transactions[i].stock : i \in ids}
           buys == OfType(ids, "BUY")
           sells == OfType(ids, "SELL")
           Buys(c) == OfType(OfStock(ids, c), "BUY")
           Sells(c) == OfType(OfStock(ids, c), "SELL")
<1>1. ids \in SUBSET Recorded /\ IsFiniteSet(ids)
  <2>1. ids \in SUBSET Recorded
    BY DEF Analysed, Listed
  <2> QED BY <2>1, RecordedRows, FS_Subset
<1>2. /\ buys \in SUBSET ids /\ sells \in SUBSET ids
      /\ IsFiniteSet(buys) /\ IsFiniteSet(sells)
  <2>1. buys \in SUBSET ids /\ sells \in SUBSET ids
    BY DEF OfType
  <2> QED BY <1>1, <2>1, FS_Subset
<1>3. IsFiniteSet(trades)
  <2>1. trades \in SUBSET (buys \X sells)
    BY DEF pairBuySellTransactions
  <2>2. IsFiniteSet(buys \X sells)
    BY <1>2, FS_Product
  <2> QED BY <2>1, <2>2, FS_Subset
<1>4. \A t \in trades : /\ t \in buys \X sells /\ t = <<t[1], t[2]>>
                        /\ t[1] \in Recorded /\ t[2] \in Recorded
                        /\ Profit(t) \in Int /\ profit[t] = Profit(t)
  <2> SUFFICES ASSUME NEW t \in trades
               PROVE  /\ t \in buys \X sells /\ t = <<t[1], t[2]>>
                      /\ t[1] \in Recorded /\ t[2] \in Recorded
                      /\ Profit(t) \in Int
    OBVIOUS
  <2>1. t \in buys \X sells
    BY DEF pairBuySellTransactions
  <2>2. t = <<t[1], t[2]>> /\ t[1] \in buys /\ t[2] \in sells
    BY <2>1
  <2>3. t[1] \in Recorded /\ t[2] \in Recorded
    BY <1>1, <1>2, <2>2
  <2>4. Profit(<<t[1], t[2]>>) \in Int
    BY <2>3, ProfitOfPair
  <2> QED BY <2>1, <2>2, <2>3, <2>4
<1> HIDE DEF ids
<1>5. analyzeTransactions(period).netProfit = Total(Gain, winning) - Total(Loss, losing)
  BY DEF analyzeTransactions, ids
<1>6. Total(Gain, winning) - Total(Loss, losing) = SumFunctionOnSet(profit, trades)
  <2> HIDE DEF trades, profit
  <2>1. IsFiniteSet(winning) /\ IsFiniteSet(losing) /\ IsFiniteSet(even)
    BY <1>3, FS_Subset
  <2>2. trades = winning \cup (losing \cup even) /\ winning \cap (losing \cup even) = {}
        /\ losing \cap even = {}
    BY <1>4
  <2>3. \A t \in winning : profit[t] \in Int /\ Gain[t] = profit[t]
    BY <1>4
  <2>4. \A t \in losing : profit[t] \in Int /\ Loss[t] = profit[t] + (-2) * profit[t]
    BY <1>4
  <2>5. \A t \in even : profit[t] = 0
    BY <1>4
  <2>6. \A t \in trades : profit[t] \in Int
    BY <1>4
  <2> HIDE DEF winning, losing, even, Gain, Loss
  <2>7. SumFunctionOnSet(Gain, winning) = SumFunctionOnSet(profit, winning)
    BY <2>1, <2>3, SumSame
  <2>8. SumFunctionOnSet(Loss, losing)
          = SumFunctionOnSet(profit, losing) + (-2) * SumFunctionOnSet(profit, losing)
    BY <2>1, <2>4, SumLinear
  <2>9. SumFunctionOnSet(profit, even) = 0
    <3>1. SumFunctionOnSet(profit, even) = Cardinality(even) * 0
      BY <2>1, <2>5, SumConstant
    <3> QED BY <2>1, <3>1, FS_CardinalityType
  <2>10. SumFunctionOnSet(profit, losing \cup even)
           = SumFunctionOnSet(profit, losing) + SumFunctionOnSet(profit, even)
    BY <2>1, <2>2, <2>6, SumUnion
  <2>11. SumFunctionOnSet(profit, trades)
           = SumFunctionOnSet(profit, winning) + SumFunctionOnSet(profit, losing \cup even)
    <3>1. IsFiniteSet(losing \cup even)
      BY <2>1, FS_Union
    <3>2. \A t \in winning \cup (losing \cup even) : profit[t] \in Int
      BY <2>2, <2>6
    <3>3. SumFunctionOnSet(profit, winning \cup (losing \cup even))
           = SumFunctionOnSet(profit, winning) + SumFunctionOnSet(profit, losing \cup even)
      BY <2>1, <2>2, <3>1, <3>2, SumUnion
    <3> QED BY <2>2, <3>3
  <2>12. SumFunctionOnSet(profit, winning) \in Int /\ SumFunctionOnSet(profit, losing) \in Int
    BY <2>1, <2>2, <2>6, SumType
  <2> QED BY <2>7, <2>8, <2>9, <2>10, <2>11, <2>12 DEF Total
<1>7. IsFiniteSet(traded)
  <2> DEFINE f == [i \in ids |-> transactions[i].stock]
  <2>1. IsFiniteSet({f[i] : i \in ids})
    BY <1>1, ValuesAreFinite
  <2>2. traded = {f[i] : i \in ids}
    OBVIOUS
  <2> QED BY <2>1, <2>2
<1> DEFINE inflow == [c \in traded |-> SumFunctionOnSet(Amount, Sells(c))]
           outflow == [c \in traded |-> SumFunctionOnSet(Amount, Buys(c))]
           gain == [c \in traded |-> inflow[c] + (-1) * outflow[c]]
           stockOfRow == [i \in ids |-> transactions[i].stock]
           stockOfTrade == [t \in trades |-> transactions[t[1]].stock]
<1>8. \A c \in traded : inflow[c] \in Int /\ outflow[c] \in Int
  <2> SUFFICES ASSUME NEW c \in traded PROVE inflow[c] \in Int /\ outflow[c] \in Int
    OBVIOUS
  <2>1. Buys(c) \in SUBSET Recorded /\ Sells(c) \in SUBSET Recorded
    BY <1>1 DEF OfType, OfStock
  <2> QED BY <2>1, TotalsAreNumbers DEF Total
<1>9. \A i \in ids : Amount[i] \in Int /\ stockOfRow[i] \in traded
  BY <1>1, RecordedRows
<1>10. SumFunctionOnSet(inflow, traded) = SumFunctionOnSet(Amount, sells)
  <2>1. \A i \in sells : Amount[i] \in Int /\ stockOfRow[i] \in traded
    BY <1>2, <1>9
  <2>2. \A c \in traded : inflow[c] = SumFunctionOnSet(Amount, PartOf(sells, stockOfRow, c))
    <3>1. \A c : PartOf(sells, stockOfRow, c) = Sells(c)
      BY DEF PartOf, OfType, OfStock
    <3> QED BY <3>1
  <2> HIDE DEF inflow, stockOfRow, traded, sells
  <2> QED BY <1>2, <1>7, <2>1, <2>2, SumByParts
<1>11. SumFunctionOnSet(outflow, traded) = SumFunctionOnSet(Amount, buys)
  <2>1. \A i \in buys : Amount[i] \in Int /\ stockOfRow[i] \in traded
    BY <1>2, <1>9
  <2>2. \A c \in traded : outflow[c] = SumFunctionOnSet(Amount, PartOf(buys, stockOfRow, c))
    <3>1. \A c : PartOf(buys, stockOfRow, c) = Buys(c)
      BY DEF PartOf, OfType, OfStock
    <3> QED BY <3>1
  <2> HIDE DEF outflow, stockOfRow, traded, buys
  <2> QED BY <1>2, <1>7, <2>1, <2>2, SumByParts
<1>12. SumFunctionOnSet(gain, traded) = SumFunctionOnSet(profit, trades)
  <2>1. \A t \in trades : profit[t] \in Int /\ stockOfTrade[t] \in traded
    <3> SUFFICES ASSUME NEW t \in trades PROVE profit[t] \in Int /\ stockOfTrade[t] \in traded
      OBVIOUS
    <3>1. t[1] \in ids
      BY <1>2, <1>4
    <3> QED BY <1>4, <3>1
  <2>2. ASSUME NEW c \in traded
        PROVE  gain[c] = SumFunctionOnSet(profit, PartOf(trades, stockOfTrade, c))
    <3>1. RoundTrip(ids, c)
      <4>1. c \in Stocks
        BY <1>1, RecordedRows
      <4>2. OfStock(ids, c) # {}
        BY DEF OfStock
      <4> QED BY <4>1, <4>2 DEF ids
    <3>2. PartOf(trades, stockOfTrade, c) = Buys(c) \X Sells(c)
      <4>1. \A t : t \in PartOf(trades, stockOfTrade, c) <=> t \in trades /\ transactions[t[1]].stock = c
        BY DEF PartOf
      <4>2. \A t : t \in trades /\ transactions[t[1]].stock = c => t \in Buys(c) \X Sells(c)
        <5> SUFFICES ASSUME NEW t \in trades, transactions[t[1]].stock = c
                     PROVE t \in Buys(c) \X Sells(c)
          OBVIOUS
        <5>1. t = <<t[1], t[2]>> /\ t \in buys \X sells
          BY <1>4
        <5>2. transactions[t[1]].stock = transactions[t[2]].stock
          BY DEF pairBuySellTransactions
        <5>3. t[1] \in buys /\ t[2] \in sells
          BY <5>1
        <5>4. t[1] \in Buys(c) /\ t[2] \in Sells(c)
          BY <5>2, <5>3 DEF OfType, OfStock
        <5> QED BY <5>1, <5>4
      <4>3. ASSUME NEW b \in Buys(c), NEW s \in Sells(c)
            PROVE <<b, s>> \in trades /\ transactions[b].stock = c
        <5>1. transactions[s].transactionDate > transactions[b].transactionDate
          BY <3>1 DEF RoundTrip
        <5>2. /\ b \in OfType(ids, "BUY") /\ s \in OfType(ids, "SELL")
              /\ transactions[b].stock = c /\ transactions[s].stock = c
          BY DEF OfType, OfStock
        <5> QED BY <5>1, <5>2 DEF pairBuySellTransactions
      <4>4. \A t \in Buys(c) \X Sells(c) : t \in trades /\ transactions[t[1]].stock = c
        <5> SUFFICES ASSUME NEW t \in Buys(c) \X Sells(c)
                     PROVE t \in trades /\ transactions[t[1]].stock = c
          OBVIOUS
        <5> HIDE DEF Buys, Sells, trades
        <5>1. PICK b \in Buys(c), s \in Sells(c) : t = <<b, s>>
          OBVIOUS
        <5>2. <<b, s>> \in trades /\ transactions[b].stock = c
          BY <4>3
        <5> QED BY <5>1, <5>2
      <4> HIDE DEF Buys, Sells, trades, stockOfTrade
      <4> QED BY <4>1, <4>2, <4>4
    <3>3. \A t \in Buys(c) \X Sells(c) : profit[t] = Profit(t)
      <4>1. \A t \in Buys(c) \X Sells(c) : t \in trades
        BY <3>2 DEF PartOf
      <4> HIDE DEF trades, Buys, Sells
      <4> QED BY <4>1
    <3>4. SumFunctionOnSet(profit, Buys(c) \X Sells(c)) = inflow[c] - outflow[c]
      <4> HIDE DEF profit
      <4> QED BY <1>1, <3>1, <3>3, RoundTripProfit DEF Total
    <3>5. gain[c] = inflow[c] - outflow[c]
      <4>1. gain[c] = inflow[c] + (-1) * outflow[c]
        OBVIOUS
      <4> HIDE DEF gain, inflow, outflow
      <4> QED BY <1>8, <4>1
    <3> QED BY <3>2, <3>4, <3>5
  <2>3. \A c \in traded : gain[c] = SumFunctionOnSet(profit, PartOf(trades, stockOfTrade, c))
    BY <2>2
  <2> HIDE DEF gain, profit, trades, stockOfTrade, traded
  <2> QED BY <1>3, <1>7, <2>1, <2>3, SumByParts
<1>13. SumFunctionOnSet(gain, traded)
         = SumFunctionOnSet(inflow, traded) + (-1) * SumFunctionOnSet(outflow, traded)
  <2>1. \A c \in traded : /\ inflow[c] \in Int /\ outflow[c] \in Int
                           /\ gain[c] = inflow[c] + (-1) * outflow[c]
    BY <1>8
  <2> HIDE DEF gain, inflow, outflow, traded
  <2> QED BY <1>7, <2>1, SumLinear
<1>14. Total(Amount, sells) \in Int /\ Total(Amount, buys) \in Int
  <2>1. buys \in SUBSET Recorded /\ sells \in SUBSET Recorded
    BY <1>1, <1>2
  <2> HIDE DEF buys, sells
  <2> QED BY <2>1, TotalsAreNumbers
<1>15. SumFunctionOnSet(profit, trades) = Total(Amount, sells) - Total(Amount, buys)
  <2> HIDE DEF profit, trades, buys, sells, gain, inflow, outflow, traded
  <2> QED BY <1>10, <1>11, <1>12, <1>13, <1>14 DEF Total
<1> QED BY <1>5, <1>6, <1>15 DEF ids

\* Whatever was recorded: the net profit of round trips is the money that came
\* in less the money that went out, and the stock named as the most traded has
\* the largest volume, for any filter and in any order of the rows.
THEOREM ReportsAlwaysAddUp == TransactionsSpec => []ReportsAddUp
<1>1. TransactionsInv => ReportsAddUp
  BY MostTradedHolds, NetProfitHolds DEF TransactionsInv, ReportsAddUp
<1> QED BY <1>1, TransactionsInitInv, TransactionsStep, PTL DEF TransactionsSpec

-----------------------------------------------------------------------------
(* The returns of a portfolio.                                             *)

\* What a report has loaded and asked for is what the tables hold.
FromTables ==
    /\ IF report.kind = "holding" THEN Len(report.ids) = 1 /\ report.ids[1] \in Held
                             ELSE report.ids \in Bijection(1..Cardinality(Held), Held)
    /\ \A n \in 1..Len(report.rows) : report.rows[n] = holdings[report.ids[n]]
    /\ \A n \in 1..Len(report.quoted) : report.quoted[n] = getCurrentPrice(report.rows[n].symbol, FALSE)

\* As long as nothing was written and no query failed.
UndisturbedIsFromTables ==
    report # NoReport =>
        /\ Len(report.ids) = Len(report.rows) /\ Len(report.quoted) <= Len(report.rows)
        /\ report.threw => report.disturbed
        /\ ~report.disturbed => FromTables

ReturnsInv == ReturnsTypeOK /\ UndisturbedIsFromTables

\* No report is under way at first.
LEMMA ReturnsInitInv == ReturnsInit => ReturnsInv
BY ReturnsAssumption DEF ReturnsInit, ReturnsInv, ReturnsTypeOK, UndisturbedIsFromTables

\* A price is one that was set, or none.
LEMMA PriceType ==
  ASSUME ReturnsTypeOK, NEW symbol \in Symbols, NEW fails \in BOOLEAN
  PROVE  getCurrentPrice(symbol, fails) \in Price
BY DEF ReturnsTypeOK, getCurrentPrice, Price

\* The holdings that there are can be numbered.
LEMMA HeldIsFinite ==
  ASSUME ReturnsTypeOK
  PROVE  /\ IsFiniteSet(Held) /\ Cardinality(Held) \in Nat /\ Held \in SUBSET HoldingIds
         /\ \A h \in Held : holdings[h] \in Positions
<1>1. Held \in SUBSET HoldingIds
  BY DEF Held
<1>2. IsFiniteSet(Held)
  BY <1>1, ReturnsAssumption, FS_Subset
<1> QED BY <1>1, <1>2, FS_CardinalityType DEF Held, ReturnsTypeOK

\* A write to the tables disturbs the report under way.
LEMMA WriteStep ==
  ASSUME ReturnsInv, Disturbs,
         holdings' \in [HoldingIds -> Positions \cup {NoHolding}],
         prices' \in [Symbols -> StockPrices \cup {Unpriced}]
  PROVE  ReturnsInv'
<1>1. writes' \in 0..MaxWrites
  BY ReturnsAssumption DEF ReturnsInv, ReturnsTypeOK, Disturbs
<1>2. CASE report = NoReport
  BY <1>1, <1>2 DEF ReturnsInv, ReturnsTypeOK, UndisturbedIsFromTables, Disturbs
<1>3. CASE report # NoReport
  <2>1. report \in Report /\ report' = [report EXCEPT !.disturbed = TRUE]
    BY <1>3 DEF ReturnsInv, ReturnsTypeOK, Disturbs
  <2>2. /\ report' \in Report /\ report'.disturbed
        /\ report'.ids = report.ids /\ report'.rows = report.rows
        /\ report'.quoted = report.quoted
    BY <2>1 DEF Report
  <2>3. Len(report.ids) = Len(report.rows) /\ Len(report.quoted) <= Len(report.rows)
    BY <1>3 DEF ReturnsInv, UndisturbedIsFromTables
  <2> QED BY <1>1, <2>2, <2>3 DEF ReturnsInv, ReturnsTypeOK, UndisturbedIsFromTables
<1> QED BY <1>2, <1>3

\* A report starts with the ids of what is held, and has loaded nothing.
LEMMA BeginStep ==
  ASSUME ReturnsInv, NEW kind \in Kinds, NEW n \in Nat, NEW ids \in [1..n -> Held],
         Begins(kind, ids),
         IF kind = "holding" THEN n = 1 ELSE ids \in Bijection(1..Cardinality(Held), Held)
  PROVE  ReturnsInv'
<1> DEFINE rows == [k \in DOMAIN ids |-> holdings[ids[k]]]
<1>1. /\ report' = [kind |-> kind, ids |-> ids, reloaded |-> FALSE, rows |-> rows,
                    quoted |-> <<>>, threw |-> FALSE, disturbed |-> FALSE]
      /\ UNCHANGED <<holdings, prices, writes>>
  BY DEF Begins
<1>2. ids \in Seq(HoldingIds) /\ Len(ids) = n
  BY HeldIsFinite DEF ReturnsInv
<1>3. rows \in Seq(Positions) /\ Len(rows) = n /\ \A k \in 1..n : rows[k] = holdings[ids[k]]
  <2>1. rows \in [1..n -> Positions]
    BY HeldIsFinite DEF ReturnsInv
  <2> QED BY <2>1
<1> HIDE DEF rows
<1>4. report' \in Report
  BY <1>1, <1>2, <1>3 DEF Report
<1>5. Held' = Held
  BY <1>1 DEF Held
<1>6. FromTables'
  <2>1. /\ report'.kind = kind /\ report'.ids = ids /\ report'.rows = rows
        /\ report'.quoted = <<>> /\ Len(report'.quoted) = 0
    BY <1>1
  <2>2. n = 1 => ids[1] \in Held
    OBVIOUS
  <2> QED BY <1>1, <1>2, <1>3, <1>5, <2>1, <2>2 DEF FromTables
<1>7. UndisturbedIsFromTables'
  <2>1. Len(report'.ids) = n /\ Len(report'.rows) = n /\ Len(report'.quoted) = 0 /\ ~report'.threw
    BY <1>1, <1>2, <1>3
  <2> QED BY <1>6, <2>1 DEF UndisturbedIsFromTables
<1> QED BY <1>1, <1>4, <1>7 DEF ReturnsInv, ReturnsTypeOK

\* No step of a report or of a write makes a quiet report differ from the
\* tables.
LEMMA ReturnsStep == ReturnsInv /\ [ReturnsNext]_returnsVars => ReturnsInv'
<1> SUFFICES ASSUME ReturnsInv, [ReturnsNext]_returnsVars PROVE ReturnsInv'
  OBVIOUS
<1>1. ASSUME NEW kind \in Kinds \ {"holding"}, LoadPortfolio(kind) PROVE ReturnsInv'
  <2>1. PICK ids \in Bijection(1..Cardinality(Held), Held) : Begins(kind, ids)
    BY <1>1 DEF LoadPortfolio
  <2>2. ids \in [1..Cardinality(Held) -> Held]
    BY DEF Bijection, Injection
  <2> QED BY <2>1, <2>2, HeldIsFinite, BeginStep DEF ReturnsInv
<1>2. ASSUME NEW h \in HoldingIds, LoadHolding(h) PROVE ReturnsInv'
  <2>1. <<h>> \in [1..1 -> Held] /\ Begins("holding", <<h>>)
    BY <1>2 DEF LoadHolding
  <2> QED BY <2>1, BeginStep DEF Kinds
<1>3. ASSUME Reload PROVE ReturnsInv'
  <2> DEFINE n == Next1(report)
  <2>1. /\ report \in Report /\ report # NoReport /\ n \in 1..Len(report.rows)
        /\ Len(report.ids) = Len(report.rows) /\ Len(report.quoted) <= Len(report.rows)
        /\ report.ids[n] \in HoldingIds
    <3>1. report \in Report /\ report # NoReport /\ ~Ended(report)
      BY <1>3 DEF Reload, ReturnsInv, ReturnsTypeOK
    <3>2. Len(report.ids) = Len(report.rows) /\ Len(report.quoted) <= Len(report.rows)
      BY <3>1 DEF ReturnsInv, UndisturbedIsFromTables
    <3>3. /\ report.ids \in Seq(HoldingIds) /\ report.rows \in Seq(Positions)
          /\ report.quoted \in Seq(Price)
      BY <3>1 DEF Report
    <3>4. n \in 1..Len(report.rows)
      BY <3>1, <3>2, <3>3 DEF Ended, Next1
    <3> QED BY <3>1, <3>2, <3>3, <3>4
  <2> HIDE DEF n
  <2>2. /\ report' = IF holdings[report.ids[n]] = NoHolding THEN [report EXCEPT !.threw = TRUE]
                     ELSE [report EXCEPT !.reloaded = TRUE, !.rows[n] = holdings[report.ids[n]]]
        /\ UNCHANGED <<holdings, prices, writes>>
        /\ report.kind = "distribution"
    BY <1>3 DEF Reload, n
  <2>3. Held' = Held
    BY <2>2 DEF Held
  <2>4. CASE holdings[report.ids[n]] = NoHolding
    <3>1. /\ report' \in Report /\ report'.disturbed = report.disturbed
          /\ report'.ids = report.ids /\ report'.rows = report.rows
          /\ report'.quoted = report.quoted
      BY <2>1, <2>2, <2>4 DEF Report
    <3>2. report.disturbed
      <4> SUFFICES ASSUME ~report.disturbed PROVE FALSE
        BY <2>1 DEF Report
      <4>1. report.ids \in Bijection(1..Cardinality(Held), Held)
        BY <2>1, <2>2 DEF ReturnsInv, UndisturbedIsFromTables, FromTables
      <4>2. report.ids \in [1..Cardinality(Held) -> Held]
        BY <4>1 DEF Bijection, Injection
      <4>3. Len(report.ids) = Cardinality(Held)
        BY <4>2, HeldIsFinite DEF ReturnsInv
      <4>4. report.ids[n] \in Held
        BY <2>1, <4>2, <4>3
      <4> QED BY <2>4, <4>4 DEF Held
    <3>3. UndisturbedIsFromTables'
      BY <2>1, <3>1, <3>2 DEF UndisturbedIsFromTables
    <3> QED BY <2>2, <3>1, <3>3 DEF ReturnsInv, ReturnsTypeOK
  <2>5. CASE holdings[report.ids[n]] # NoHolding
    <3> DEFINE row == holdings[report.ids[n]]
    <3>1. row \in Positions
      BY <2>1, <2>5 DEF ReturnsInv, ReturnsTypeOK
    <3>2. report.rows \in Seq(Positions)
      BY <2>1 DEF Report
    <3>3. /\ [report.rows EXCEPT ![n] = row] \in Seq(Positions)
          /\ Len([report.rows EXCEPT ![n] = row]) = Len(report.rows)
          /\ \A k \in 1..Len(report.rows) :
               [report.rows EXCEPT ![n] = row][k] = IF k = n THEN row ELSE report.rows[k]
      BY <2>1, <3>1, <3>2
    <3>4. /\ report' = [report EXCEPT !.reloaded = TRUE, !.rows = [report.rows EXCEPT ![n] = row]]
      BY <2>1, <2>2, <2>5 DEF Report
    <3>5. /\ report' \in Report /\ report'.disturbed = report.disturbed
          /\ report'.ids = report.ids /\ report'.rows = [report.rows EXCEPT ![n] = row]
          /\ report'.quoted = report.quoted /\ report'.kind = report.kind
          /\ report'.threw = report.threw
      BY <2>1, <3>3, <3>4 DEF Report
    <3>6. ASSUME ~report.disturbed PROVE FromTables'
      <4>1. FromTables
        BY <2>1, <3>6 DEF ReturnsInv, UndisturbedIsFromTables
      <4>2. [report.rows EXCEPT ![n] = row] = report.rows
        BY <2>1, <3>2, <4>1 DEF FromTables
      <4> QED BY <2>2, <2>3, <3>5, <4>1, <4>2 DEF FromTables, getCurrentPrice
    <3>7. UndisturbedIsFromTables'
      BY <2>1, <3>3, <3>5, <3>6 DEF UndisturbedIsFromTables, ReturnsInv
    <3> QED BY <2>2, <3>5, <3>7 DEF ReturnsInv, ReturnsTypeOK
  <2> QED BY <2>4, <2>5
<1>4. ASSUME NEW fails \in BOOLEAN, Quote(fails) PROVE ReturnsInv'
  <2> DEFINE n == Next1(report)
             price == getCurrentPrice(report.rows[n].symbol, fails)
  <2>1. /\ report \in Report /\ report # NoReport /\ n \in 1..Len(report.rows)
        /\ n = Len(report.quoted) + 1
        /\ Len(report.ids) = Len(report.rows) /\ Len(report.quoted) <= Len(report.rows)
        /\ report.rows \in Seq(Positions) /\ report.quoted \in Seq(Price)
    <3>1. report \in Report /\ report # NoReport /\ ~Ended(report)
      BY <1>4 DEF Quote, ReturnsInv, ReturnsTypeOK
    <3>2. Len(report.ids) = Len(report.rows) /\ Len(report.quoted) <= Len(report.rows)
      BY <3>1 DEF ReturnsInv, UndisturbedIsFromTables
    <3>3. /\ report.ids \in Seq(HoldingIds) /\ report.rows \in Seq(Positions)
          /\ report.quoted \in Seq(Price)
      BY <3>1 DEF Report
    <3>4. n \in 1..Len(report.rows) /\ n = Len(report.quoted) + 1
      BY <3>1, <3>2, <3>3 DEF Ended, Next1
    <3> QED BY <3>1, <3>2, <3>3, <3>4
  <2>2. /\ report' = [report EXCEPT !.quoted = Append(@, price), !.reloaded = FALSE,
                                    !.disturbed = @ \/ fails]
        /\ UNCHANGED <<holdings, prices, writes>>
    BY <1>4 DEF Quote
  <2>3. price \in Price
    <3>1. report.rows[n].symbol \in Symbols
      BY <2>1 DEF Symbols
    <3> QED BY <3>1, PriceType DEF ReturnsInv
  <2> HIDE DEF n
  <2>4. Held' = Held
    BY <2>2 DEF Held
  <2>5. /\ Append(report.quoted, price) \in Seq(Price)
        /\ Len(Append(report.quoted, price)) = n
        /\ \A k \in 1..(n - 1) : Append(report.quoted, price)[k] = report.quoted[k]
        /\ Append(report.quoted, price)[n] = price
    <3> HIDE DEF price
    <3> QED BY <2>1, <2>3
  <2>6. /\ report' \in Report /\ report'.disturbed = (report.disturbed \/ fails)
        /\ report'.ids = report.ids /\ report'.rows = report.rows
        /\ report'.quoted = Append(report.quoted, price)
        /\ report'.kind = report.kind /\ report'.threw = report.threw
    <3> HIDE DEF price
    <3> QED BY <2>1, <2>2, <2>5 DEF Report
  <2>7. ASSUME ~report'.disturbed PROVE FromTables'
    <3>1. ~report.disturbed /\ ~fails
      BY <2>6, <2>7
    <3>2. FromTables
      BY <2>1, <3>1 DEF ReturnsInv, UndisturbedIsFromTables
    <3>3. price = getCurrentPrice(report.rows[n].symbol, FALSE)
      BY <3>1 DEF getCurrentPrice
    <3>4. \A k \in 1..n : Append(report.quoted, price)[k]
                            = getCurrentPrice(report.rows[k].symbol, FALSE)
      <4>1. \A k \in 1..n : k \in 1..(n - 1) \/ k = n
        BY <2>1
      <4>2. \A k \in 1..(n - 1) : k \in 1..Len(report.quoted)
        BY <2>1
      <4> HIDE DEF price
      <4> QED BY <2>5, <3>2, <3>3, <4>1, <4>2 DEF FromTables
    <3> HIDE DEF price
    <3>5. \A k \in 1..Len(report'.quoted) :
            report'.quoted[k] = getCurrentPrice(report'.rows[k].symbol, FALSE)
      BY <2>5, <2>6, <3>4
    <3> QED BY <2>2, <2>4, <2>6, <3>2, <3>5 DEF FromTables, getCurrentPrice
  <2>8. UndisturbedIsFromTables'
    <3>1. Len(report'.ids) = Len(report'.rows) /\ Len(report'.quoted) <= Len(report'.rows)
      <4> HIDE DEF price
      <4> QED BY <2>1, <2>5, <2>6
    <3>2. report.threw => report.disturbed
      BY <2>1 DEF ReturnsInv, UndisturbedIsFromTables
    <3>3. report'.threw => report'.disturbed
      BY <2>6, <3>2, Zenon
    <3> QED BY <2>7, <3>1, <3>3 DEF UndisturbedIsFromTables
  <2> QED BY <2>2, <2>6, <2>8 DEF ReturnsInv, ReturnsTypeOK
<1>5. CASE Answer
  BY <1>5 DEF Answer, ReturnsInv, ReturnsTypeOK, UndisturbedIsFromTables
<1>6. ASSUME NEW h \in HoldingIds, HoldingChanges(h) PROVE ReturnsInv'
  <2>1. /\ holdings' \in [HoldingIds -> Positions \cup {NoHolding}]
        /\ prices' \in [Symbols -> StockPrices \cup {Unpriced}] /\ Disturbs
    BY <1>6 DEF HoldingChanges, ReturnsInv, ReturnsTypeOK
  <2> QED BY <2>1, WriteStep
<1>7. ASSUME NEW symbol \in Symbols, PriceChanges(symbol) PROVE ReturnsInv'
  <2>1. /\ holdings' \in [HoldingIds -> Positions \cup {NoHolding}]
        /\ prices' \in [Symbols -> StockPrices \cup {Unpriced}] /\ Disturbs
    BY <1>7 DEF PriceChanges, ReturnsInv, ReturnsTypeOK
  <2> QED BY <2>1, WriteStep
<1>8. CASE UNCHANGED returnsVars
  BY <1>8 DEF returnsVars, ReturnsInv, ReturnsTypeOK, UndisturbedIsFromTables, FromTables, Held,
              getCurrentPrice
<1> QED BY <1>1, <1>2, <1>3, <1>4, <1>5, <1>6, <1>7, <1>8 DEF ReturnsNext

-----------------------------------------------------------------------------
AreShares(p, v, S) == \A x \in S : p[x] = Percent(v[x], SumFunctionOnSet(v, S))

\* The shares of a total, each rounded down, are together no more than all.
LEMMA SharesOfTotal ==
  ASSUME NEW S, IsFiniteSet(S), NEW v, \A x \in S : v[x] \in Nat,
         NEW p, AreShares(p, v, S)
  PROVE  SumFunctionOnSet(p, S) <= 10000
<1> DEFINE total == SumFunctionOnSet(v, S)
           zero == [x \in S |-> 0]
           scaled == [x \in S |-> 0 + total * p[x]]
           whole == [x \in S |-> 0 + 10000 * v[x]]
<1>1. total \in Int
  BY SumType
<1>2. \A x \in S : p[x] \in Int /\ (total > 0 => total * p[x] <= 10000 * v[x])
               /\ (~(total > 0) => p[x] = 0)
  <2> SUFFICES ASSUME NEW x \in S
               PROVE  /\ p[x] \in Int /\ (total > 0 => total * p[x] <= 10000 * v[x])
                      /\ (~(total > 0) => p[x] = 0)
    OBVIOUS
  <2>1. p[x] = IF total > 0 THEN (v[x] * 10000) \div total ELSE 0
    BY DEF Percent, AreShares
  <2>2. v[x] \in Nat /\ v[x] * 10000 \in Int
    OBVIOUS
  <2> HIDE DEF total
  <2>3. total > 0 => /\ (v[x] * 10000) \div total \in Int
                     /\ total * ((v[x] * 10000) \div total) <= v[x] * 10000
    BY <1>1, <2>2, Quotient
  <2> QED BY <2>1, <2>2, <2>3
<1> HIDE DEF total
<1>3. CASE ~(total > 0)
  <2>1. SumFunctionOnSet(p, S) = Cardinality(S) * 0
    BY <1>2, <1>3, SumConstant
  <2> QED BY <2>1, FS_CardinalityType
<1>4. CASE total > 0
  <2>1. \A x \in S : /\ zero[x] \in Int /\ p[x] \in Int /\ v[x] \in Int
                     /\ scaled[x] = zero[x] + total * p[x]
                     /\ whole[x] = zero[x] + 10000 * v[x]
    BY <1>2
  <2>2. \A x \in S : scaled[x] \in Int /\ whole[x] \in Int /\ scaled[x] <= whole[x]
    <3> SUFFICES ASSUME NEW x \in S
                 PROVE  scaled[x] \in Int /\ whole[x] \in Int /\ scaled[x] <= whole[x]
      OBVIOUS
    <3>1. total * p[x] \in Int
      BY <1>1, <1>2
    <3>2. total * p[x] <= 10000 * v[x] /\ v[x] \in Nat
      BY <1>2, <1>4
    <3>3. scaled[x] = 0 + total * p[x] /\ whole[x] = 0 + 10000 * v[x]
      OBVIOUS
    <3> HIDE DEF scaled, whole
    <3> QED BY <3>1, <3>2, <3>3
  <2>3. \A x \in S : zero[x] = 0
    OBVIOUS
  <2> HIDE DEF scaled, whole, zero
  <2>4. SumFunctionOnSet(zero, S) = 0
    <3>1. SumFunctionOnSet(zero, S) = Cardinality(S) * 0
      BY <2>3, SumConstant
    <3> QED BY <3>1, FS_CardinalityType
  <2>5. SumFunctionOnSet(scaled, S) = 0 + total * SumFunctionOnSet(p, S)
    BY <1>1, <2>1, <2>4, SumLinear
  <2>6. SumFunctionOnSet(whole, S) = 0 + 10000 * total
    <3>1. SumFunctionOnSet(whole, S) = SumFunctionOnSet(zero, S) + 10000 * SumFunctionOnSet(v, S)
      BY <2>1, SumLinear
    <3> QED BY <2>4, <3>1 DEF total
  <2>7. SumFunctionOnSet(scaled, S) <= SumFunctionOnSet(whole, S)
    BY <2>2, SumMonotonic
  <2>8. SumFunctionOnSet(p, S) \in Int
    BY <2>1, SumType
  <2> DEFINE sum == SumFunctionOnSet(p, S)
  <2>9. 0 + total * sum <= 0 + 10000 * total
    BY <2>5, <2>6, <2>7
  <2>10. sum \in Int
    BY <2>8
  <2> HIDE DEF sum
  <2>11. ASSUME sum > 10000 PROVE FALSE
    <3>1. sum - 10001 \in Nat /\ total \in Nat
      BY <1>1, <1>4, <2>10, <2>11
    <3>2. total * (sum - 10001) >= 0
      BY <3>1
    <3>3. total * (sum - 10001) = total * sum - total * 10001
      BY <1>1, <2>10
    <3>4. total * sum \in Int
      BY <1>1, <2>10
    <3> QED BY <1>1, <1>4, <2>9, <3>2, <3>3, <3>4
  <2> QED BY <2>10, <2>11 DEF sum
<1> QED BY <1>3, <1>4

\* The first, the last and the middle of what is sorted, and the average.
LEMMA MiddleOfSorted ==
  ASSUME NEW k \in Nat \ {0}, NEW H, NEW ids \in Bijection(1..k, H),
         NEW rates \in [1..k -> Int], NEW rate \in [H -> Int],
         \A n \in 1..k : rate[ids[n]] = rates[n]
  PROVE  LET nth == Sorted(rates)
             middle == rates[nth[(k \div 2) + 1]]
         IN  /\ rates[nth[1]] = Max(Range(rate))
             /\ rates[nth[k]] = Min(Range(rate))
             /\ 2 * Cardinality({h \in H : rate[h] > middle}) <= k
             /\ 2 * Cardinality({h \in H : rate[h] < middle}) <= k
             /\ SumFunctionOnSet(rates, 1..k) \div k \in rates[nth[k]]..rates[nth[1]]
<1> DEFINE nth == Sorted(rates)
           m == (k \div 2) + 1
           middle == rates[nth[m]]
           in_ == [j \in 1..k |-> ids[nth[j]]]
<1>1. /\ nth \in [1..k -> 1..k] /\ \A i, j \in 1..k : nth[i] = nth[j] => i = j
      /\ \A i \in 1..k : \E j \in 1..k : nth[j] = i
      /\ \A i, j \in 1..k : i < j => rates[nth[i]] >= rates[nth[j]]
  <2>1. /\ nth \in Bijection(1..k, 1..k)
        /\ \A i, j \in 1..k : i < j =>
             \/ rates[nth[i]] > rates[nth[j]]
             \/ rates[nth[i]] = rates[nth[j]] /\ nth[i] < nth[j]
    BY SortedIsSorted
  <2> HIDE DEF nth
  <2>2. /\ nth \in [1..k -> 1..k] /\ \A i, j \in 1..k : nth[i] = nth[j] => i = j
        /\ \A i \in 1..k : \E j \in 1..k : nth[j] = i
    <3>1. nth \in Bijection(1..k, 1..k)
      BY <2>1
    <3> DEFINE S == 1..k
    <3> HIDE DEF S
    <3>2. nth \in Bijection(S, S)
      BY <3>1 DEF S
    <3>3. /\ nth \in [S -> S] /\ \A i, j \in S : nth[i] = nth[j] => i = j
          /\ \A i \in S : \E j \in S : nth[j] = i
      BY <3>2, BijectionProperties
    <3> QED BY <3>3 DEF S
  <2>3. \A i \in 1..k : rates[nth[i]] \in Int
    BY <2>2
  <2>4. ASSUME NEW i \in 1..k, NEW j \in 1..k, i < j PROVE rates[nth[i]] >= rates[nth[j]]
    <3>1. rates[nth[i]] \in Int /\ rates[nth[j]] \in Int
      BY <2>3
    <3>2. rates[nth[i]] > rates[nth[j]] \/ rates[nth[i]] = rates[nth[j]]
      BY <2>1, <2>4
    <3> QED BY <3>1, <3>2
  <2> QED BY <2>2, <2>4
<1> HIDE DEF nth
<1>2. /\ ids \in [1..k -> H] /\ (\A i, j \in 1..k : ids[i] = ids[j] => i = j)
      /\ \A h \in H : \E n \in 1..k : ids[n] = h
  BY BijectionProperties
<1>3. /\ \A j \in 1..k : in_[j] \in H /\ rate[in_[j]] = rates[nth[j]] /\ rates[nth[j]] \in Int
      /\ \A h \in H : \E j \in 1..k : in_[j] = h
      /\ \A i, j \in 1..k : in_[i] = in_[j] => i = j
  <2>1. \A h \in H : \E j \in 1..k : in_[j] = h
    BY <1>1, <1>2
  <2>2. \A i, j \in 1..k : in_[i] = in_[j] => i = j
    BY <1>1, <1>2
  <2> QED BY <1>1, <1>2, <2>1, <2>2
<1>4. \A i, j \in 1..k : i <= j => rates[nth[i]] >= rates[nth[j]]
  <2> SUFFICES ASSUME NEW i \in 1..k, NEW j \in 1..k, i <= j
               PROVE  rates[nth[i]] >= rates[nth[j]]
    OBVIOUS
  <2>1. rates[nth[i]] \in Int /\ (i < j \/ i = j)
    BY <1>3
  <2> HIDE DEF in_, m
  <2>2. CASE i = j
    BY <2>1, <2>2
  <2>3. CASE i < j
    BY <1>1, <2>3
  <2> QED BY <2>1, <2>2, <2>3
<1>5. m \in 1..k /\ m - 1 = k \div 2 /\ k \div 2 \in Nat /\ 2 * (k \div 2) <= k /\ k <= 2 * (k \div 2) + 1
  OBVIOUS
<1> HIDE DEF in_, m
<1>6. Range(rate) \in SUBSET Int /\ \A y \in Range(rate) : \E j \in 1..k : y = rates[nth[j]]
  BY <1>3 DEF Range
<1>7. \A j \in 1..k : rates[nth[j]] \in Range(rate)
  <2> SUFFICES ASSUME NEW j \in 1..k PROVE rates[nth[j]] \in Range(rate)
    OBVIOUS
  <2>1. in_[j] \in H /\ rate[in_[j]] = rates[nth[j]] /\ DOMAIN rate = H
    BY <1>3
  <2> QED BY <2>1 DEF Range
<1>8. 1 \in 1..k /\ k \in 1..k
  OBVIOUS
<1>9. rates[nth[1]] = Max(Range(rate))
  <2>1. \A y \in Range(rate) : rates[nth[1]] >= y
    BY <1>4, <1>6, <1>8
  <2> QED BY <1>6, <1>7, <1>8, <2>1, MaxIsReached
<1>10. rates[nth[k]] = Min(Range(rate))
  <2>1. \A y \in Range(rate) : rates[nth[k]] <= y
    <3>1. \A j \in 1..k : rates[nth[j]] >= rates[nth[k]]
      BY <1>4
    <3> QED BY <1>3, <1>6, <1>8, <3>1
  <2> QED BY <1>6, <1>7, <1>8, <2>1, MinIsReached
<1>11. \A lo, hi \in 0..k : /\ IsFiniteSet({in_[j] : j \in (lo + 1)..hi})
                            /\ lo <= hi => Cardinality({in_[j] : j \in (lo + 1)..hi}) = hi - lo
  <2> SUFFICES ASSUME NEW lo \in 0..k, NEW hi \in 0..k
               PROVE  /\ IsFiniteSet({in_[j] : j \in (lo + 1)..hi})
                      /\ lo <= hi => Cardinality({in_[j] : j \in (lo + 1)..hi}) = hi - lo
    OBVIOUS
  <2> DEFINE J == (lo + 1)..hi
  <2>1. IsFiniteSet(J) /\ (lo <= hi => Cardinality(J) = hi - lo)
    <3>1. lo + 1 \in Int /\ hi \in Int
      OBVIOUS
    <3>2. IsFiniteSet(J) /\ Cardinality(J) = IF lo + 1 > hi THEN 0 ELSE hi - (lo + 1) + 1
      BY <3>1, FS_Interval
    <3> HIDE DEF J
    <3> QED BY <3>2
  <2>2. \A i, j \in J : in_[i] = in_[j] => i = j
    <3>1. \A i \in J : i \in 1..k
      OBVIOUS
    <3> HIDE DEF J
    <3> QED BY <1>3, <3>1
  <2> HIDE DEF J
  <2>3. IsFiniteSet({in_[j] : j \in J}) /\ Cardinality({in_[j] : j \in J}) = Cardinality(J)
    BY <2>1, <2>2, CountImage
  <2> QED BY <2>1, <2>3 DEF J
<1>12. 2 * Cardinality({h \in H : rate[h] > middle}) <= k
  <2> DEFINE A == {h \in H : rate[h] > middle}
             I == {in_[j] : j \in (0 + 1)..(m - 1)}
  <2>1. A \in SUBSET I
    <3> SUFFICES ASSUME NEW h \in A PROVE h \in I
      OBVIOUS
    <3>1. PICK j \in 1..k : in_[j] = h
      BY <1>3
    <3>2. rates[nth[j]] > middle /\ rates[nth[j]] \in Int /\ middle \in Int
      BY <1>3, <1>5, <3>1
    <3>3. ~(m <= j)
      BY <1>4, <1>5, <3>2
    <3>4. j \in (0 + 1)..(m - 1)
      BY <1>5, <3>3
    <3> QED BY <3>1, <3>4
  <2>2. IsFiniteSet(I) /\ Cardinality(I) = m - 1
    <3>1. 0 \in 0..k /\ m - 1 \in 0..k /\ 0 <= m - 1 /\ (m - 1) - 0 = m - 1
      BY <1>5
    <3> QED BY <1>11, <3>1
  <2> HIDE DEF A, I
  <2>3. Cardinality(A) <= m - 1 /\ Cardinality(A) \in Nat
    BY <2>1, <2>2, FS_Subset, FS_CardinalityType
  <2> QED BY <1>5, <2>3 DEF A
<1>13. 2 * Cardinality({h \in H : rate[h] < middle}) <= k
  <2> DEFINE A == {h \in H : rate[h] < middle}
             I == {in_[j] : j \in (m + 1)..k}
  <2>1. A \in SUBSET I
    <3> SUFFICES ASSUME NEW h \in A PROVE h \in I
      OBVIOUS
    <3>1. PICK j \in 1..k : in_[j] = h
      BY <1>3
    <3>2. rates[nth[j]] < middle /\ rates[nth[j]] \in Int /\ middle \in Int
      BY <1>3, <1>5, <3>1
    <3>3. ~(j <= m)
      BY <1>4, <1>5, <3>2
    <3>4. j \in (m + 1)..k
      BY <1>5, <3>3
    <3> QED BY <3>1, <3>4
  <2>2. IsFiniteSet(I) /\ Cardinality(I) = k - m
    <3>1. m \in 0..k /\ k \in 0..k /\ m <= k
      BY <1>5
    <3> QED BY <1>11, <3>1
  <2> HIDE DEF A, I
  <2>3. Cardinality(A) <= k - m /\ Cardinality(A) \in Nat
    BY <2>1, <2>2, FS_Subset, FS_CardinalityType
  <2> QED BY <1>5, <2>3 DEF A
<1>14. SumFunctionOnSet(rates, 1..k) \div k \in rates[nth[k]]..rates[nth[1]]
  <2> DEFINE low == rates[nth[k]]
             high == rates[nth[1]]
             sum == SumFunctionOnSet(rates, 1..k)
  <2>1. low \in Int /\ high \in Int
    BY <1>3, <1>8
  <2>2. \A n \in 1..k : rates[n] \in Int /\ low <= rates[n] /\ rates[n] <= high
    <3> SUFFICES ASSUME NEW n \in 1..k PROVE rates[n] \in Int /\ low <= rates[n] /\ rates[n] <= high
      OBVIOUS
    <3>1. PICK j \in 1..k : nth[j] = n
      BY <1>1
    <3>2. rates[nth[j]] >= rates[nth[k]] /\ rates[nth[1]] >= rates[nth[j]]
      BY <1>4, <1>8
    <3> QED BY <2>1, <3>1, <3>2
  <2>3. IsFiniteSet(1..k) /\ Cardinality(1..k) = k
    BY FS_Interval
  <2> HIDE DEF low, high
  <2>4. sum \in Int
    BY <2>2, <2>3, SumType
  <2>5. sum <= k * high
    BY <2>1, <2>2, <2>3, SumAtMost
  <2>6. k * low <= sum
    BY <2>1, <2>2, <2>3, SumAtLeast
  <2> HIDE DEF sum
  <2>7. sum \div k \in Int /\ low <= sum \div k /\ sum \div k <= high
    BY <2>1, <2>4, <2>5, <2>6, QuotientBounds
  <2> QED BY <2>1, <2>7 DEF low, high, sum
<1> QED BY <1>9, <1>10, <1>12, <1>13, <1>14 DEF nth, m

-----------------------------------------------------------------------------
\* The return of a holding, in numbers.
LEMMA InTablesType ==
  ASSUME ReturnsTypeOK, NEW h \in Held
  PROVE  /\ InTables(h).marketValue \in Nat /\ InTables(h).totalCost \in Nat
         /\ InTables(h).unrealizedGain \in Int /\ InTables(h).returnRate \in Int
<1> DEFINE row == holdings[h]
           price == getCurrentPrice(row.symbol, FALSE)
           value == row.quantity * price
           cost == row.quantity * row.averagePrice
<1>1. row \in Positions
  BY HeldIsFinite
<1>2. row.quantity \in Nat /\ row.averagePrice \in Nat
  BY <1>1, ReturnsAssumption
<1>3. price \in Nat
  <2>1. row.symbol \in Symbols
    BY <1>1 DEF Symbols
  <2>2. price \in Price
    BY <2>1, PriceType
  <2> HIDE DEF price
  <2> QED BY <2>2, ReturnsAssumption DEF Price, DemoPrice
<1>4. /\ InTables(h).marketValue = value /\ InTables(h).totalCost = cost
      /\ InTables(h).unrealizedGain = value - cost
      /\ InTables(h).returnRate = Percent(value - cost, cost)
  BY DEF InTables, calculateHoldingReturns
<1> HIDE DEF row, price
<1>5. value \in Nat /\ cost \in Nat
  BY <1>2, <1>3
<1> HIDE DEF value, cost
<1>6. Percent(value - cost, cost) \in Int
  <2>1. CASE cost > 0
    <3>1. (value - cost) * 10000 \in Int
      BY <1>5
    <3>2. ((value - cost) * 10000) \div cost \in Int
      BY <1>5, <2>1, <3>1
    <3> QED BY <2>1, <3>2 DEF Percent
  <2>2. CASE ~(cost > 0)
    BY <2>2 DEF Percent
  <2> QED BY <2>1, <2>2
<1>7. value - cost \in Int
  BY <1>5
<1> QED BY <1>4, <1>5, <1>6, <1>7

\* A report that is not disturbed has no error and shows its holdings as the
\* tables have them.
LEMMA QuietShowsTables ==
  ASSUME ReturnsInv, report # NoReport, ~report.disturbed, Ended(report)
  PROVE  /\ ~report.threw /\ FromTables
         /\ Len(report.ids) \in Nat /\ Len(report.quoted) = Len(report.ids)
         /\ DOMAIN report.ids = 1..Len(report.ids)
         /\ DOMAIN Returns(report) = 1..Len(report.ids)
         /\ \A n \in 1..Len(report.ids) : Returns(report)[n] = InTables(report.ids[n])
<1>1. /\ ~report.threw /\ FromTables /\ Len(report.ids) = Len(report.rows)
      /\ Len(report.quoted) = Len(report.rows)
  BY DEF ReturnsInv, UndisturbedIsFromTables, Ended
<1>2. report \in Report
  BY DEF ReturnsInv, ReturnsTypeOK
<1>3. /\ report.ids \in Seq(HoldingIds) /\ report.quoted \in Seq(Price)
  BY <1>2 DEF Report
<1>4. Len(report.ids) \in Nat /\ DOMAIN report.ids = 1..Len(report.ids)
  BY <1>3
<1>5. DOMAIN report.quoted = 1..Len(report.ids)
  BY <1>1, <1>3
<1>6. DOMAIN Returns(report) = 1..Len(report.ids)
  BY <1>5 DEF Returns
<1>7. ASSUME NEW n \in 1..Len(report.ids)
      PROVE  Returns(report)[n] = InTables(report.ids[n])
  <2>1. Returns(report)[n] = calculateHoldingReturns(report.rows[n], report.quoted[n])
    BY <1>5 DEF Returns
  <2>2. /\ report.rows[n] = holdings[report.ids[n]]
        /\ report.quoted[n] = getCurrentPrice(report.rows[n].symbol, FALSE)
    BY <1>1 DEF FromTables
  <2> QED BY <2>1, <2>2 DEF InTables
<1> QED BY <1>1, <1>4, <1>6, <1>7

\* The report of a portfolio: its totals are those of the tables.
LEMMA TotalsHold ==
  ASSUME ReturnsInv, report # NoReport, ~report.disturbed, Ended(report),
         report.kind # "holding"
  PROVE  TotalsAreExact(report)
<1> DEFINE k == Cardinality(Held)
           ids == report.ids
           values == Values(Returns(report))
           costs == Costs(Returns(report))
           value == [h \in Held |-> InTables(h).marketValue]
           cost == [h \in Held |-> InTables(h).totalCost]
           total == SumFunction(values)
           shares == [n \in DOMAIN values |-> Percent(values[n], total)]
<1>1. ids \in Bijection(1..k, Held) /\ k \in Nat
  BY QuietShowsTables, HeldIsFinite DEF FromTables, ReturnsInv
<1>2. ids \in [1..k -> Held]
  <2> HIDE DEF ids, k
  <2> QED BY <1>1 DEF Bijection, Injection
<1>3. Len(ids) = k
  <2> HIDE DEF k, ids
  <2> QED BY <1>1, <1>2
<1>4. DOMAIN values = 1..k /\ DOMAIN costs = 1..k
  BY <1>3, QuietShowsTables DEF Values, Costs
<1>5. \A n \in 1..k : /\ values[n] \in Nat /\ value[ids[n]] = values[n]
                      /\ costs[n] \in Nat /\ cost[ids[n]] = costs[n]
  <2> SUFFICES ASSUME NEW n \in 1..k
               PROVE  /\ values[n] \in Nat /\ value[ids[n]] = values[n]
                      /\ costs[n] \in Nat /\ cost[ids[n]] = costs[n]
    OBVIOUS
  <2>1. ids[n] \in Held
    BY <1>2
  <2>2. Returns(report)[n] = InTables(ids[n]) /\ n \in DOMAIN Returns(report)
    BY <1>3, QuietShowsTables
  <2>3. values[n] = InTables(ids[n]).marketValue /\ costs[n] = InTables(ids[n]).totalCost
    BY <2>2 DEF Values, Costs
  <2> QED BY <2>1, <2>3, InTablesType DEF ReturnsInv
<1>6. IsFiniteSet(1..k)
  BY <1>1, FS_Interval
<1> HIDE DEF k, ids
<1>7. SumFunctionOnSet(value, Held) = SumFunctionOnSet(values, 1..k)
  <2> HIDE DEF value, values, cost, costs
  <2> DEFINE N == 1..k
  <2>1. \A n \in N : values[n] \in Int /\ value[ids[n]] = values[n]
    BY <1>5
  <2>2. IsFiniteSet(N) /\ ids \in Bijection(N, Held)
    BY <1>1, <1>6
  <2> HIDE DEF N
  <2>3. SumFunctionOnSet(value, Held) = SumFunctionOnSet(values, N)
    BY <2>1, <2>2, SumBijection
  <2> QED BY <2>3 DEF N
<1>8. SumFunctionOnSet(cost, Held) = SumFunctionOnSet(costs, 1..k)
  <2> HIDE DEF value, values, cost, costs
  <2> DEFINE N == 1..k
  <2>1. \A n \in N : costs[n] \in Int /\ cost[ids[n]] = costs[n]
    BY <1>5
  <2>2. IsFiniteSet(N) /\ ids \in Bijection(N, Held)
    BY <1>1, <1>6
  <2> HIDE DEF N
  <2>3. SumFunctionOnSet(cost, Held) = SumFunctionOnSet(costs, N)
    BY <2>1, <2>2, SumBijection
  <2> QED BY <2>3 DEF N
<1>9. SumFunction(values) = SumFunction(value) /\ SumFunction(costs) = SumFunction(cost)
  <2>1. DOMAIN value = Held /\ DOMAIN cost = Held
    OBVIOUS
  <2> HIDE DEF value, cost, values, costs
  <2> QED BY <1>4, <1>7, <1>8, <2>1 DEF SumFunction
<1>10. SumFunction(shares) <= 10000
  <2>1. DOMAIN shares = 1..k
    BY <1>4
  <2>2. \A n \in 1..k : shares[n] = Percent(values[n], SumFunctionOnSet(values, 1..k))
    <3> HIDE DEF values
    <3> QED BY <1>4 DEF SumFunction
  <2>a. \A n \in 1..k : values[n] \in Nat
    BY <1>5
  <2> HIDE DEF shares, values
  <2>3. SumFunctionOnSet(shares, 1..k) <= 10000
    <3> DEFINE S == 1..k
    <3>1. AreShares(shares, values, S)
      BY <2>2 DEF AreShares
    <3>2. IsFiniteSet(S) /\ \A n \in S : values[n] \in Nat
      BY <1>6, <2>a
    <3> HIDE DEF S
    <3>3. SumFunctionOnSet(shares, S) <= 10000
      BY <3>1, <3>2, SharesOfTotal
    <3> QED BY <3>3 DEF S
  <2> QED BY <2>1, <2>3 DEF SumFunction
<1>11. /\ calculatePortfolioReturns(report).totalValue = SumFunction(values)
       /\ calculatePortfolioReturns(report).totalCost = SumFunction(costs)
  BY DEF calculatePortfolioReturns
<1>12. /\ analyzeAssetAllocation(report).totalValue = SumFunction(values)
       /\ analyzeAssetAllocation(report).percentage = shares
  BY DEF analyzeAssetAllocation
<1> HIDE DEF values, costs, shares
<1> QED BY <1>9, <1>10, <1>11, <1>12 DEF TotalsAreExact

\* The distribution: its shares are those of the values in the tables.
LEMMA DistributionHolds ==
  ASSUME ReturnsInv, report # NoReport, ~report.disturbed, Ended(report),
         report.kind # "holding"
  PROVE  DistributionIsExact(report)
<1> SUFFICES ASSUME Held # {} PROVE DistributionIsExact(report)
  BY DEF DistributionIsExact
<1> DEFINE k == Cardinality(Held)
           ids == report.ids
           rates == Rates(Returns(report))
           rate == [h \in Held |-> InTables(h).returnRate]
           profitable == {n \in DOMAIN rates : Returns(report)[n].unrealizedGain > 0}
           gainers == {h \in Held : InTables(h).unrealizedGain > 0}
           nth == Sorted(rates)
           shown == analyzeReturnDistribution(report)
<1>1. ids \in Bijection(1..k, Held) /\ k \in Nat
  BY QuietShowsTables, HeldIsFinite DEF FromTables, ReturnsInv
<1>a. k \in Nat \ {0}
  BY <1>1, HeldIsFinite, FS_EmptySet DEF ReturnsInv
<1>2. /\ ids \in [1..k -> Held]
      /\ \A i, j \in 1..k : ids[i] = ids[j] => i = j
      /\ \A h \in Held : \E n \in 1..k : ids[n] = h
  <2> HIDE DEF ids, k
  <2> QED BY <1>1, BijectionProperties
<1>3. Len(ids) = k /\ Len(report.quoted) = k
  <2>1. Len(report.quoted) = Len(ids)
    BY QuietShowsTables
  <2> HIDE DEF k, ids
  <2> QED BY <1>1, <1>2, <2>1
<1>4. DOMAIN rates = 1..k
  BY <1>3, QuietShowsTables DEF Rates
<1>5. \A n \in 1..k : /\ rates[n] \in Int /\ rate[ids[n]] = rates[n]
                      /\ Returns(report)[n] = InTables(ids[n])
  <2> SUFFICES ASSUME NEW n \in 1..k
               PROVE  /\ rates[n] \in Int /\ rate[ids[n]] = rates[n]
                      /\ Returns(report)[n] = InTables(ids[n])
    OBVIOUS
  <2>1. ids[n] \in Held
    BY <1>2
  <2>2. Returns(report)[n] = InTables(ids[n]) /\ n \in DOMAIN Returns(report)
    BY <1>3, QuietShowsTables
  <2>3. rates[n] = InTables(ids[n]).returnRate
    BY <2>2 DEF Rates
  <2> QED BY <2>1, <2>2, <2>3, InTablesType DEF ReturnsInv
<1>6. rates \in [1..k -> Int] /\ rate \in [Held -> Int]
  <2>1. \A h \in Held : InTables(h).returnRate \in Int
    BY InTablesType DEF ReturnsInv
  <2>2. rates = [n \in 1..k |-> rates[n]]
    BY <1>4 DEF Rates
  <2> QED BY <1>5, <2>1, <2>2
<1>7. Cardinality(profitable) = Cardinality(gainers) /\ Cardinality(profitable) \in Nat
  <2>1. IsFiniteSet(1..k)
    BY <1>1, FS_Interval
  <2>2. profitable \in SUBSET (1..k)
    BY <1>4
  <2>3. IsFiniteSet(profitable)
    BY <2>1, <2>2, FS_Subset
  <2>4. \A i, j \in profitable : ids[i] = ids[j] => i = j
    BY <1>2, <2>2
  <2>5. gainers = {ids[n] : n \in profitable}
    <3>1. \A h \in gainers : \E n \in profitable : ids[n] = h
      BY <1>2, <1>4, <1>5
    <3>2. \A n \in profitable : ids[n] \in gainers
      BY <1>2, <1>4, <1>5
    <3> HIDE DEF gainers, profitable
    <3> QED BY <3>1, <3>2
  <2> HIDE DEF profitable, gainers
  <2>6. Cardinality({ids[n] : n \in profitable}) = Cardinality(profitable)
    BY <2>3, <2>4, CountImage
  <2> QED BY <2>3, <2>5, <2>6, FS_CardinalityType
<1>8. /\ shown.bestPerformer = rates[nth[1]] /\ shown.worstPerformer = rates[nth[k]]
      /\ shown.profitableHoldings = Cardinality(profitable)
      /\ shown.losingHoldings = k - Cardinality(profitable)
      /\ shown.medianReturn = rates[nth[(k \div 2) + 1]]
      /\ shown.averageReturn = SumFunctionOnSet(rates, 1..k) \div k
  <2>1. Len(report.quoted) # 0
    BY <1>a, <1>3
  <2>2. SumFunction(rates) = SumFunctionOnSet(rates, 1..k)
    <3> HIDE DEF rates, k
    <3> QED BY <1>4 DEF SumFunction
  <2> DEFINE full == [profitableHoldings |-> Cardinality(profitable),
              losingHoldings |-> Len(report.quoted) - Cardinality(profitable),
              bestPerformer |-> rates[nth[1]], worstPerformer |-> rates[nth[Len(report.quoted)]],
              averageReturn |-> SumFunction(rates) \div Len(report.quoted),
              medianReturn |-> rates[nth[(Len(report.quoted) \div 2) + 1]]]
  <2>3. shown = full
    BY <2>1 DEF analyzeReturnDistribution, BestFirst
  <2> HIDE DEF shown, rates, nth, profitable, k
  <2> QED BY <1>3, <2>2, <2>3
<1> HIDE DEF k, ids, rates, rate, shown, profitable, nth
<1>9. /\ rates[nth[1]] = Max(Range(rate))
      /\ rates[nth[k]] = Min(Range(rate))
      /\ 2 * Cardinality({h \in Held : rate[h] > rates[nth[(k \div 2) + 1]]}) <= k
      /\ 2 * Cardinality({h \in Held : rate[h] < rates[nth[(k \div 2) + 1]]}) <= k
      /\ SumFunctionOnSet(rates, 1..k) \div k \in rates[nth[k]]..rates[nth[1]]
  <2>1. \A n \in 1..k : rate[ids[n]] = rates[n]
    BY <1>5
  <2>2. ids \in Bijection(1..k, Held)
    BY <1>1
  <2> QED BY <1>a, <1>6, <2>1, <2>2, MiddleOfSorted DEF nth
<1>10. Cardinality(profitable) + (k - Cardinality(profitable)) = k
  BY <1>a, <1>7
<1> HIDE DEF gainers
<1>11. /\ shown.bestPerformer = Max(Range(rate))
       /\ shown.worstPerformer = Min(Range(rate))
       /\ shown.profitableHoldings = Cardinality(gainers)
       /\ shown.profitableHoldings + shown.losingHoldings = k
       /\ 2 * Cardinality({h \in Held : rate[h] > shown.medianReturn}) <= k
       /\ 2 * Cardinality({h \in Held : rate[h] < shown.medianReturn}) <= k
       /\ shown.averageReturn \in shown.worstPerformer..shown.bestPerformer
  BY <1>7, <1>8, <1>9, <1>10
<1> QED BY <1>11 DEF DistributionIsExact, shown, k, rate, gainers

\* The three kinds of reports together.
LEMMA QuietReportsHold == ASSUME ReturnsInv PROVE QuietReportsAreExact
<1> SUFFICES ASSUME report # NoReport, ~report.disturbed, Ended(report)
             PROVE  /\ ~report.threw
                    /\ report.kind \in {"returns", "allocation"} => TotalsAreExact(report)
                    /\ report.kind = "distribution" => DistributionIsExact(report)
                    /\ report.kind = "holding" =>
                         Returns(report) = <<InTables(report.ids[1])>>
  BY DEF QuietReportsAreExact
<1>1. report.kind = "holding" => Returns(report) = <<InTables(report.ids[1])>>
  <2> SUFFICES ASSUME report.kind = "holding"
               PROVE  Returns(report) = <<InTables(report.ids[1])>>
    OBVIOUS
  <2>1. Len(report.ids) = 1
    BY QuietShowsTables DEF FromTables
  <2>2. DOMAIN Returns(report) = 1..1 /\ Returns(report)[1] = InTables(report.ids[1])
    BY <2>1, QuietShowsTables
  <2>3. Returns(report) = [n \in 1..1 |-> Returns(report)[n]]
    BY <2>2 DEF Returns
  <2> DEFINE x == InTables(report.ids[1])
             R == Returns(report)
  <2>4. \A n \in 1..1 : R[n] = x
    BY <2>2
  <2> HIDE DEF x, R
  <2>5. R = [n \in 1..1 |-> x]
    BY <2>3, <2>4 DEF R
  <2>6. [n \in 1..1 |-> x] = <<x>>
    OBVIOUS
  <2> QED BY <2>5, <2>6 DEF x, R
<1> QED BY <1>1, QuietShowsTables, TotalsHold, DistributionHolds

\* The types of the tables and of the report under way, for any holdings,
\* symbols and prices.
THEOREM ReturnsTypeCorrect == ReturnsSpec => []ReturnsTypeOK
<1>1. ReturnsInv => ReturnsTypeOK
  BY DEF ReturnsInv
<1> QED BY <1>1, ReturnsInitInv, ReturnsStep, PTL DEF ReturnsSpec

\* A report during which nothing is written and no query fails shows what the
\* tables hold: totals, returns, shares, the best and the worst, the median.
\* The shares are rounded down one by one and together never above all.
THEOREM QuietReportsAreAlwaysExact == ReturnsSpec => []QuietReportsAreExact
<1>1. ReturnsInv => QuietReportsAreExact
  BY QuietReportsHold
<1> QED BY <1>1, ReturnsInitInv, ReturnsStep, PTL DEF ReturnsSpec
=============================================================================
