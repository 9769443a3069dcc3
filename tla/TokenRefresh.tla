----------------------------- MODULE TokenRefresh -----------------------------
(***************************************************************************)
(* How the API clients of the web packages (packages/api/src/client.ts) and *)
(* of the mobile application (apps/mobile/src/services/api.ts) refresh an   *)
(* expired access token: the first request that is refused starts the       *)
(* refresh, the others wait for it, and all are sent again.  Tokens are     *)
(* numbered by the period in which the server accepts them; 0 is no token.  *)
(***************************************************************************)
EXTENDS Naturals, FiniteSets

CONSTANTS
    Request,    \* requests of the applications
    Web,        \* the requests of the web client; the others are the mobile one's
    MaxPeriod   \* bound on the periods

ASSUME RefreshAssumption ==
    Web \subseteq Request /\ IsFiniteSet(Request) /\ MaxPeriod \in Nat \ {0}

Client == {"web", "mobile"}
ClientOf(r) == IF r \in Web THEN "web" ELSE "mobile"

VARIABLES
    period,        \* the access tokens the server accepts
    access,        \* the stored access token of a client
    jwt,           \* the stored JWT, which the mobile client prefers
    refreshToken,  \* a refresh token is stored
    isRefreshing,
    req,           \* the requests
    sends,         \* ghost: how often a request was sent
    stranded       \* ghost: a client dropped its waiters or kept its flag

vars == <<period, access, jwt, refreshToken, isRefreshing, req, sends, stranded>>

Token == 0..MaxPeriod

TypeOK ==
    /\ period \in [Client -> Token \ {0}]
    /\ access \in [Client -> Token]
    /\ jwt \in Token
    /\ refreshToken \in [Client -> BOOLEAN]
    /\ isRefreshing \in [Client -> BOOLEAN]
    /\ req \in [Request -> [at : {"new", "sent", "lookup", "refresh", "clearing", "waiting",
                                  "ok", "error"},
                            token : Token, retry : BOOLEAN]]
    /\ sends \in [Request -> Nat]
    /\ stranded \in [Client -> BOOLEAN]

Init ==
    /\ period = [k \in Client |-> 1]
    /\ access = [k \in Client |-> 1]
    /\ jwt \in {0, 1}
    /\ refreshToken \in [Client -> BOOLEAN]
    /\ isRefreshing = [k \in Client |-> FALSE]
    /\ req = [r \in Request |-> [at |-> "new", token |-> 0, retry |-> FALSE]]
    /\ sends = [r \in Request |-> 0]
    /\ stranded = [k \in Client |-> FALSE]

-----------------------------------------------------------------------------
\* Mutant: a token is sent that the server has not issued.
BearerAhead(k, a) == IF k = "mobile" /\ jwt # 0 THEN jwt ELSE a + 1

\* The token a request interceptor adds, when access token a is stored.
Bearer(k, a) == IF k = "mobile" /\ jwt # 0 THEN jwt ELSE a

Waiting(k) == {r \in Request : ClientOf(r) = k /\ req[r].at = "waiting"}

\* Request r as it is sent, or sent again.
Sent(r, a) == [req[r] EXCEPT !.at = "sent", !.token = Bearer(ClientOf(r), a)]

Send(r) ==
    /\ req[r].at = "new"
    /\ req' = [req EXCEPT ![r] = Sent(r, access[ClientOf(r)])]
    /\ sends' = [sends EXCEPT ![r] = @ + 1]
    /\ UNCHANGED <<period, access, jwt, refreshToken, isRefreshing, stranded>>

\* The server accepts the token; the answer may still be another error.
Answered(r) ==
    /\ req[r].at = "sent"
    /\ \/ req[r].token = period[ClientOf(r)] /\ req' = [req EXCEPT ![r].at = "ok"]
       \/ req' = [req EXCEPT ![r].at = "error"]
    /\ UNCHANGED <<period, access, jwt, refreshToken, isRefreshing, sends, stranded>>

Refused(r) == req[r].at = "sent" /\ req[r].token # period[ClientOf(r)]

RefusedAgain(r) ==
    /\ Refused(r) /\ req[r].retry
    /\ req' = [req EXCEPT ![r].at = "error"]
    /\ UNCHANGED <<period, access, jwt, refreshToken, isRefreshing, sends, stranded>>

\* Mutant: the flag is raised only when the answer to the refresh is there.
RaiseLate(k) == isRefreshing

RaiseFlag(k) == [isRefreshing EXCEPT ![k] = TRUE]

\* Mutant: the request is not marked.
Unmarked(q) == q

\* _retry
Marked(q) == [q EXCEPT !.retry = TRUE]

\* The first 401 of the web client while no refresh runs.  Without a refresh token the
\* request fails and the flag stays up.
WebUnauthorized(r) ==
    /\ Refused(r) /\ ~req[r].retry /\ r \in Web
    /\ \/ /\ isRefreshing["web"]
          /\ req' = [req EXCEPT ![r].at = "waiting"]
          /\ UNCHANGED <<access, refreshToken, isRefreshing, stranded>>
       \/ /\ ~isRefreshing["web"] /\ refreshToken["web"]
          /\ req' = [req EXCEPT ![r] = [Marked(@) EXCEPT !.at = "refresh"]]
          /\ isRefreshing' = RaiseFlag("web")
          /\ UNCHANGED <<access, refreshToken, stranded>>
       \/ /\ ~isRefreshing["web"] /\ ~refreshToken["web"]
          /\ req' = [req EXCEPT ![r] = [Marked(@) EXCEPT !.at = "error"]]
          /\ isRefreshing' = RaiseFlag("web")
          /\ access' = [access EXCEPT !["web"] = 0]
          /\ stranded' = [stranded EXCEPT !["web"] = TRUE]
          /\ UNCHANGED refreshToken
    /\ UNCHANGED <<period, jwt, sends>>

\* In the mobile client every refused request is marked before it waits, and the first
\* one reads the refresh token from the secure store.
MobileUnauthorized(r) ==
    /\ Refused(r) /\ ~req[r].retry /\ r \notin Web
    /\ req' = [req EXCEPT ![r] = [Marked(@) EXCEPT
                 !.at = IF isRefreshing["mobile"] THEN "waiting" ELSE "lookup"]]
    /\ isRefreshing' = RaiseFlag("mobile")
    /\ UNCHANGED <<period, access, jwt, refreshToken, sends, stranded>>

TokenFound(r) ==
    /\ req[r].at = "lookup" /\ refreshToken["mobile"]
    /\ req' = [req EXCEPT ![r].at = "refresh"]
    /\ UNCHANGED <<period, access, jwt, refreshToken, isRefreshing, sends, stranded>>

\* Mutant: the refreshed request is sent again, the waiting ones are not.
NotifyNobody(k) == {}

\* processQueue, the refreshSubscribers
Notified(k) == Waiting(k)

\* The server has granted new tokens, which are stored: the waiters and r are sent again.
RefreshSucceeds(r) ==
    LET k == ClientOf(r)
        again == {r} \cup Notified(k)
    IN  /\ req[r].at = "refresh"
        /\ access' = [access EXCEPT ![k] = period[k]]
        /\ refreshToken' = [refreshToken EXCEPT ![k] = TRUE]
        /\ req' = [q \in Request |-> IF q \in again THEN Sent(q, period[k]) ELSE req[q]]
        /\ sends' = [q \in Request |-> IF q \in again THEN sends[q] + 1 ELSE sends[q]]
        /\ isRefreshing' = [isRefreshing EXCEPT ![k] = FALSE]
        /\ UNCHANGED <<period, jwt, stranded>>

\* The web client fails r and the waiters and is logged out.
WebRefreshFails(r) ==
    /\ req[r].at = "refresh" /\ r \in Web
    /\ req' = [q \in Request |-> IF q \in {r} \cup Notified("web")
                                 THEN [req[q] EXCEPT !.at = "error"] ELSE req[q]]
    /\ isRefreshing' = [isRefreshing EXCEPT !["web"] = FALSE]
    /\ access' = [access EXCEPT !["web"] = 0]
    /\ refreshToken' = [refreshToken EXCEPT !["web"] = FALSE]
    /\ UNCHANGED <<period, jwt, sends, stranded>>

\* The refresh of the mobile client fails, or finds no refresh token: the client forgets
\* its waiters and lowers the flag, and r goes on to clear the tokens.
MobileRefreshFails(r) ==
    /\ r \notin Web
    /\ req[r].at = "refresh" \/ (req[r].at = "lookup" /\ ~refreshToken["mobile"])
    /\ req' = [req EXCEPT ![r].at = "clearing"]
    /\ isRefreshing' = [isRefreshing EXCEPT !["mobile"] = FALSE]
    /\ stranded' = [stranded EXCEPT !["mobile"] = @ \/ Waiting("mobile") # {}]
    /\ UNCHANGED <<period, access, jwt, refreshToken, sends>>

\* clearTokens has deleted the stored tokens, those of a later refresh among them.
TokensCleared(r) ==
    /\ req[r].at = "clearing"
    /\ req' = [req EXCEPT ![r].at = "error"]
    /\ access' = [access EXCEPT !["mobile"] = 0]
    /\ refreshToken' = [refreshToken EXCEPT !["mobile"] = FALSE]
    /\ jwt' = 0
    /\ UNCHANGED <<period, isRefreshing, sends, stranded>>

-----------------------------------------------------------------------------
\* The access tokens of client k expire.
Expire(k) ==
    /\ period[k] < MaxPeriod
    /\ period' = [period EXCEPT ![k] = @ + 1]
    /\ UNCHANGED <<access, jwt, refreshToken, isRefreshing, req, sends, stranded>>

\* The user logs in again.
Login(k) ==
    /\ access[k] = 0
    /\ access' = [access EXCEPT ![k] = period[k]]
    /\ refreshToken' = [refreshToken EXCEPT ![k] = TRUE]
    /\ jwt' \in (IF k = "mobile" THEN {0, period[k]} ELSE {jwt})
    /\ UNCHANGED <<period, isRefreshing, req, sends, stranded>>

RequestStep(r) ==
    \/ Answered(r) \/ RefusedAgain(r) \/ WebUnauthorized(r) \/ MobileUnauthorized(r)
    \/ TokenFound(r) \/ RefreshSucceeds(r) \/ WebRefreshFails(r) \/ MobileRefreshFails(r)
    \/ TokensCleared(r)

Next ==
    \/ \E r \in Request : Send(r) \/ RequestStep(r)
    \/ \E k \in Client : Expire(k) \/ Login(k)

Spec == Init /\ [][Next]_vars

-----------------------------------------------------------------------------
(* Properties.                                                              *)

Refreshes(r) == req[r].at \in {"lookup", "refresh"}

\* One refresh at a time: two requests refused at once do not both spend the refresh token.
OneRefresh ==
    \A q, r \in Request : (Refreshes(q) /\ Refreshes(r) /\ ClientOf(q) = ClientOf(r)) => q = r

\* A waiting request has somebody to wait for, unless the web client found no refresh
\* token (its flag stays up for good) or a refresh of the mobile client failed (it
\* forgets its subscribers).
WaitersHaveRefresh ==
    \A q \in Request : req[q].at = "waiting" =>
        \/ stranded[ClientOf(q)]
        \/ \E r \in Request : Refreshes(r) /\ ClientOf(r) = ClientOf(q)

\* However often tokens expire, a request does not go round between 401 and refresh: the
\* mobile client sends it again once.  The web client does not mark the requests that
\* wait, and so may send one again several times, but only once for each request that
\* made a refresh.
NoResendLoop ==
    \A r \in Request :
        sends[r] <= IF r \in Web THEN 1 + Cardinality({q \in Web : req[q].retry}) ELSE 2

=============================================================================
