------------------------------- MODULE Accounts -------------------------------
(***************************************************************************)
(* The rows of users (UsersService), the sequence their ids come from, and *)
(* the requests that write them.  A request is authenticated first         *)
(* (JwtStrategy), then loads its user's row, hashes a password if it has   *)
(* one, and saves the row; a registration looks for its e-mail address,    *)
(* hashes and inserts.  An action is what runs from one await to the next. *)
(*                                                                         *)
(* Two hashes are never the same, so they are named by the request that    *)
(* made them, and so are names.  Logins and token refreshes only read.     *)
(* activateUser() and deleteUser() are called by nothing.  Any query may   *)
(* fail, and a request then ends without a change.                         *)
(***************************************************************************)
EXTENDS Naturals

CONSTANTS
    Requests,    \* requests to register, update, change a password, deactivate
    MaxId,       \* bound on ids
    Emails,
    SeedEmail,   \* that of the seeded user
    None         \* no row, no request; the seeded user's hash and names

Ids == 1..MaxId

Row == [email : Emails, passwordHash : Requests \cup {None},
        names : Requests \cup {None}, isActive : BOOLEAN]

\* A request under way: whose row it is about (None for a registration), and
\* the row that it is going to save, once it has one.
Request == [user : Ids \cup {None}, row : Row \cup {None}]

ASSUME AccountsAssumption ==
    /\ MaxId \in Nat \ {0} /\ SeedEmail \in Emails
    /\ None \notin Requests /\ None \notin Ids
    /\ None \notin Row /\ None \notin Request

VARIABLES
    users,      \* the table: a row or None
    nextId,     \* the next value of the id sequence
    requests,   \* requests[r], under way, or None
    started     \* the requests that have come

vars == <<users, nextId, requests, started>>

TypeOK ==
    /\ users \in [Ids -> Row \cup {None}]
    /\ nextId \in 1..(MaxId + 1)
    /\ requests \in [Requests -> Request \cup {None}]
    /\ started \subseteq Requests

\* The seeding names the id, and does not draw it from the sequence.
Init ==
    /\ users = [i \in Ids |->
                  IF i = 1 THEN [email |-> SeedEmail, passwordHash |-> None,
                                 names |-> None, isActive |-> TRUE]
                  ELSE None]
    /\ nextId = 1
    /\ requests = [r \in Requests |-> None]
    /\ started = {}

-----------------------------------------------------------------------------
WithEmail(e) == {i \in Ids : users[i] # None /\ users[i].email = e}

\* A column `email` that is not unique.
InsertableAlways(e) == TRUE

\* The column `email` is unique.
Insertable(e) == WithEmail(e) = {}

\* Registering and logging in give a token; no password matches what the
\* seeding stores for a hash.
HasToken(u) == users[u] # None /\ users[u].passwordHash # None

Starts(r, request) ==
    /\ r \notin started /\ started' = started \cup {r}
    /\ requests' = [requests EXCEPT ![r] = request]

Ends(r) == requests' = [requests EXCEPT ![r] = None]

\* register() to its save; an address that is there is a conflict.
register(r, e) ==
    /\ WithEmail(e) = {}
    /\ Starts(r, [user |-> None,
                  row |-> [email |-> e, passwordHash |-> r, names |-> r, isActive |-> TRUE]])
    /\ UNCHANGED <<users, nextId>>

\* Its save.  The sequence moves on even if the insert is refused.
Insert(r) ==
    /\ requests[r] # None /\ requests[r].user = None
    /\ nextId \in Ids /\ nextId' = nextId + 1
    /\ users' = IF users[nextId] = None /\ Insertable(requests[r].row.email)
                THEN [users EXCEPT ![nextId] = requests[r].row]
                ELSE users
    /\ Ends(r) /\ UNCHANGED started

\* Without looking at isActive.
validateAnyone(r, u) ==
    /\ HasToken(u)
    /\ Starts(r, [user |-> u, row |-> None])
    /\ UNCHANGED <<users, nextId>>

\* JwtStrategy.validate() of every request that is not public.
validate(r, u) ==
    /\ HasToken(u) /\ users[u].isActive
    /\ Starts(r, [user |-> u, row |-> None])
    /\ UNCHANGED <<users, nextId>>

\* findById(), and what is assigned to the row that it returns.
Loads(r) == requests[r] # None /\ requests[r].user # None /\ requests[r].row = None

Assigns(r, row) ==
    /\ requests' = [requests EXCEPT ![r].row = row]
    /\ UNCHANGED <<users, nextId, started>>

updateUser(r) ==
    /\ Loads(r)
    /\ LET loaded == users[requests[r].user]
       IN  \E names \in {loaded.names, r}, hash \in {loaded.passwordHash, r} :
             Assigns(r, [loaded EXCEPT !.names = names, !.passwordHash = hash])

\* With the right current password; with another one the request ends.
changePassword(r) ==
    /\ Loads(r)
    /\ Assigns(r, [users[requests[r].user] EXCEPT !.passwordHash = r])

deactivateUser(r) ==
    /\ Loads(r)
    /\ Assigns(r, [users[requests[r].user] EXCEPT !.isActive = FALSE])

\* save() of a loaded row writes every column that differs by then.
Save(r) ==
    /\ requests[r] # None /\ requests[r].user # None /\ requests[r].row # None
    /\ users' = [users EXCEPT ![requests[r].user] = requests[r].row]
    /\ Ends(r) /\ UNCHANGED <<nextId, started>>

Fails(r) ==
    /\ requests[r] # None
    /\ Ends(r) /\ UNCHANGED <<users, nextId, started>>

Next ==
    \E r \in Requests :
        \/ \E e \in Emails : register(r, e)
        \/ \E u \in Ids : validate(r, u)
        \/ Insert(r) \/ updateUser(r) \/ changePassword(r) \/ deactivateUser(r)
        \/ Save(r) \/ Fails(r)

Spec == Init /\ [][Next]_vars

-----------------------------------------------------------------------------
(* Properties.                                                             *)

\* Users are looked up by their address and one row is taken: there is never
\* a second one, though registrations that both found none both go on.
OneUserPerEmail ==
    \A i, j \in Ids :
        /\ users[i] # None /\ users[j] # None
        /\ users[i].email = users[j].email
        => i = j

\* An account that is deactivated and has no request under way.
Closed(u) ==
    /\ users[u] # None /\ ~users[u].isActive
    /\ \A r \in Requests : requests[r] # None => requests[r].user # u

\* A save of a request that came before may undo a deactivation.  But once an
\* account is deactivated and its requests have ended, it stays so: no request
\* of its user gets past the authentication, and no registration takes its row.
ClosedStaysClosed == [][\A u \in Ids : Closed(u) => Closed(u)']_vars
=============================================================================
