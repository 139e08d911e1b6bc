------------------------------- MODULE KisToken -------------------------------
(***************************************************************************)
(* The access token of the KIS REST client (KisApiService).  Calls for     *)
(* prices and holdings share the cached token; a call that finds none that *)
(* is valid asks for one, without looking whether another call asks too.   *)
(* An action is what runs from one await to the next.  Failures give null, *)
(* and the call ends.                                                      *)
(*                                                                         *)
(* KIS says when a token expires in its own zone's time, and the client    *)
(* compares that text with the local time, which may be behind.            *)
(***************************************************************************)
EXTENDS Integers

CONSTANTS
    Calls,       \* calls that may overlap
    Lifetime,    \* of a token
    Timeout,     \* after which axios gives a request up
    Lag,         \* how far the local time is behind that of KIS
    NoToken,     \* null
    MaxClock,    \* bound on the clock of KIS
    MaxTokens    \* bound on the tokens issued

ASSUME KisTokenAssumption ==
    /\ Lifetime \in Nat /\ Timeout \in Nat /\ Timeout < Lifetime
    /\ Lag \in Nat /\ MaxClock \in Nat /\ MaxTokens \in Nat
    /\ NoToken \notin 1..MaxTokens /\ NoToken \notin 0..(MaxClock + Lifetime)

Tokens == 1..MaxTokens
Times == 0..MaxClock

\* A call: not there, asking for a token since a time, KIS having issued one
\* or not yet, or requesting since a time with a token.
Call == [at : {"idle", "refreshing", "requesting"}, since : Times,
         token : Tokens \cup {NoToken}]

VARIABLES
    accessToken, tokenExpiry,   \* the cache
    calls,
    clock,                      \* that of KIS
    issued,                     \* tokens issued so far
    expires                     \* when KIS ends each of them

kisTokenVars == <<accessToken, tokenExpiry, calls, clock, issued, expires>>

KisTokenTypeOK ==
    /\ accessToken \in Tokens \cup {NoToken}
    /\ tokenExpiry \in 0..(MaxClock + Lifetime) \cup {NoToken}
    /\ calls \in [Calls -> Call]
    /\ clock \in Times
    /\ issued \in 0..MaxTokens
    /\ expires \in [Tokens -> 0..(MaxClock + Lifetime)]

KisTokenInit ==
    /\ accessToken = NoToken /\ tokenExpiry = NoToken
    /\ calls = [c \in Calls |-> [at |-> "idle", since |-> 0, token |-> NoToken]]
    /\ clock = 0 /\ issued = 0
    /\ expires = [t \in Tokens |-> 0]

-----------------------------------------------------------------------------
getCurrentTime == clock - Lag

\* A token in the cache, whenever it expires.
Cached == accessToken # NoToken /\ tokenExpiry # NoToken

\* getValidAccessToken(): a token in the cache that has not expired.
Valid == accessToken # NoToken /\ tokenExpiry # NoToken /\ tokenExpiry > getCurrentTime

Becomes(c, at, token) ==
    calls' = [calls EXCEPT ![c] = [at |-> at, since |-> clock, token |-> token]]

\* getOverseasStockPrice() and getOverseasStockHolding() to their first await
\* that waits for KIS.
getOverseasStock(c) ==
    /\ calls[c].at = "idle"
    /\ IF Valid THEN Becomes(c, "requesting", accessToken)
                ELSE Becomes(c, "refreshing", NoToken)
    /\ UNCHANGED <<accessToken, tokenExpiry, clock, issued, expires>>

\* KIS answers the call; the answer is on its way.
Issue(c) ==
    /\ calls[c].at = "refreshing" /\ calls[c].token = NoToken
    /\ issued < MaxTokens /\ issued' = issued + 1
    /\ expires' = [expires EXCEPT ![issued + 1] = clock + Lifetime]
    /\ calls' = [calls EXCEPT ![c].token = issued + 1]
    /\ UNCHANGED <<accessToken, tokenExpiry, clock>>

\* refreshAccessToken() with the answer, and the call's request with the token.
refreshAccessToken(c) ==
    /\ calls[c].at = "refreshing" /\ calls[c].token # NoToken
    /\ accessToken' = calls[c].token /\ tokenExpiry' = expires[calls[c].token]
    /\ Becomes(c, "requesting", calls[c].token)
    /\ UNCHANGED <<clock, issued, expires>>

\* Its catch: an error of KIS or of the network, or the timeout; setHeaders()
\* throws and the call ends.
RefreshFails(c) ==
    /\ calls[c].at = "refreshing"
    /\ accessToken' = NoToken /\ tokenExpiry' = NoToken
    /\ Becomes(c, "idle", NoToken)
    /\ UNCHANGED <<clock, issued, expires>>

\* The request has an answer, or none.
RequestEnds(c) ==
    /\ calls[c].at = "requesting"
    /\ Becomes(c, "idle", NoToken)
    /\ UNCHANGED <<accessToken, tokenExpiry, clock, issued, expires>>

\* Time passes; a request that waits for longer than the timeout has ended.
ClockTicks ==
    /\ clock < MaxClock /\ clock' = clock + 1
    /\ \A c \in Calls : calls[c].at # "idle" => clock' - calls[c].since <= Timeout
    /\ UNCHANGED <<accessToken, tokenExpiry, calls, issued, expires>>

KisTokenNext ==
    \/ \E c \in Calls : \/ getOverseasStock(c) \/ Issue(c) \/ refreshAccessToken(c)
                        \/ RefreshFails(c) \/ RequestEnds(c)
    \/ ClockTicks

KisTokenSpec == KisTokenInit /\ [][KisTokenNext]_kisTokenVars

-----------------------------------------------------------------------------
(* Properties.                                                             *)

\* However calls overlap, and though a refresh that fails late throws away the
\* token that another one has brought, every request is sent with a token that
\* KIS issued and that had not expired then, or had for less than the local
\* time is behind.
SentWithUnexpired ==
    \A c \in Calls : calls[c].at = "requesting" =>
        /\ calls[c].token \in 1..issued
        /\ expires[calls[c].token] > calls[c].since - Lag
=============================================================================
