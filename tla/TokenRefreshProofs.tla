-------------------------- MODULE TokenRefreshProofs --------------------------
(***************************************************************************)
(* Proofs about TokenRefresh, for every set of requests and every number of *)
(* periods: the types, that a client refreshes once at a time, that a       *)
(* waiting request waits for a refresh that is under way, and how often a   *)
(* request is sent again.                                                   *)
(***************************************************************************)
EXTENDS TokenRefresh, FiniteSetTheorems, TLAPS

RequestRecord == [at : {"new", "sent", "lookup", "refresh", "clearing", "waiting", "ok", "error"},
                  token : Token, retry : BOOLEAN]

\* A refresh runs in client k.
Refreshing(k) == \E r \in Request : Refreshes(r) /\ ClientOf(r) = k

\* The flag is up while a refresh runs, and only then but for a stranded client.
FlagShape ==
    /\ \A r \in Request : Refreshes(r) => isRefreshing[ClientOf(r)]
    /\ \A k \in Client : isRefreshing[k] => stranded[k] \/ Refreshing(k)

RefreshInv == FlagShape /\ OneRefresh /\ WaitersHaveRefresh

-----------------------------------------------------------------------------
(* Types.                                                                   *)

LEMMA NoToken == 0 \in Token
  BY RefreshAssumption DEF Token

LEMMA ClientIs == \A r \in Request : ClientOf(r) \in Client /\ (ClientOf(r) = "web" <=> r \in Web)
  BY DEF ClientOf, Client

LEMMA Types ==
  TypeOK => /\ period \in [Client -> Token \ {0}] /\ access \in [Client -> Token] /\ jwt \in Token
            /\ refreshToken \in [Client -> BOOLEAN] /\ isRefreshing \in [Client -> BOOLEAN]
            /\ stranded \in [Client -> BOOLEAN]
            /\ req \in [Request -> RequestRecord] /\ sends \in [Request -> Nat]
  BY DEF TypeOK, RequestRecord

LEMMA SentType ==
  ASSUME TypeOK, NEW r \in Request, NEW a \in Token
  PROVE  Sent(r, a) \in RequestRecord /\ Sent(r, a).at = "sent"
  <1>1. req[r] \in RequestRecord /\ Bearer(ClientOf(r), a) \in Token
    BY Types DEF Bearer
  <1> QED BY <1>1 DEF Sent, RequestRecord

LEMMA MarkedType ==
  ASSUME TypeOK, NEW r \in Request, NEW at \in {"lookup", "refresh", "waiting", "error"}
  PROVE  /\ [Marked(req[r]) EXCEPT !.at = at] \in RequestRecord
         /\ [Marked(req[r]) EXCEPT !.at = at].at = at
         /\ [Marked(req[r]) EXCEPT !.at = at].retry
  <1>1. Marked(req[r]) \in RequestRecord /\ Marked(req[r]).retry
    BY Types DEF Marked, RequestRecord
  <1> QED BY <1>1 DEF RequestRecord

\* One request changes its record.
LEMMA RequestUpdate ==
  ASSUME TypeOK, NEW r \in Request, NEW e \in RequestRecord, req' = [req EXCEPT ![r] = e]
  PROVE  /\ req' \in [Request -> RequestRecord] /\ req'[r] = e
         /\ \A q \in Request : q # r => req'[q] = req[q]
  BY Types

LEMMA TypeInit == Init => TypeOK
  <1> SUFFICES ASSUME Init PROVE TypeOK
    OBVIOUS
  <1>1. 1 \in Token /\ 0 \in Token
    BY RefreshAssumption DEF Token
  <1> QED BY <1>1 DEF Init, TypeOK

LEMMA TypeStep == ASSUME TypeOK, [Next]_vars PROVE TypeOK'
  <1>0. \A k \in Client : period[k] \in Token /\ access[k] \in Token
    BY Types
  <1>1. ASSUME NEW r \in Request, Send(r) PROVE TypeOK'
    <2>1. Sent(r, access[ClientOf(r)]) \in RequestRecord
      BY <1>0, ClientIs, SentType
    <2>2. req' = [req EXCEPT ![r] = Sent(r, access[ClientOf(r)])]
      BY <1>1 DEF Send
    <2>3. sends' \in [Request -> Nat]
      BY <1>1, Types DEF Send
    <2> QED BY <1>1, <2>1, <2>2, <2>3, RequestUpdate DEF Send, TypeOK, RequestRecord
  <1>2. ASSUME NEW r \in Request, Answered(r) \/ RefusedAgain(r) PROVE TypeOK'
    BY <1>2 DEF Answered, RefusedAgain, TypeOK
  <1>3. ASSUME NEW r \in Request, WebUnauthorized(r) PROVE TypeOK'
    <2>1. req' \in [Request -> RequestRecord]
      <3>1. \/ req' = [req EXCEPT ![r].at = "waiting"]
            \/ req' = [req EXCEPT ![r] = [Marked(req[r]) EXCEPT !.at = "refresh"]]
            \/ req' = [req EXCEPT ![r] = [Marked(req[r]) EXCEPT !.at = "error"]]
        BY <1>3 DEF WebUnauthorized
      <3>2. [req EXCEPT ![r].at = "waiting"] \in [Request -> RequestRecord]
        BY Types DEF RequestRecord
      <3> QED BY <3>1, <3>2, MarkedType, RequestUpdate
    <2>2. isRefreshing' \in [Client -> BOOLEAN] /\ stranded' \in [Client -> BOOLEAN]
      BY <1>3, Types DEF WebUnauthorized, RaiseFlag
    <2>3. access' \in [Client -> Token]
      BY <1>3, Types, NoToken DEF WebUnauthorized
    <2> QED BY <1>3, <2>1, <2>2, <2>3 DEF WebUnauthorized, TypeOK, RequestRecord
  <1>4. ASSUME NEW r \in Request, MobileUnauthorized(r) PROVE TypeOK'
    <2> DEFINE at == IF isRefreshing["mobile"] THEN "waiting" ELSE "lookup"
    <2>1. req' = [req EXCEPT ![r] = [Marked(req[r]) EXCEPT !.at = at]] /\ at \in {"waiting", "lookup"}
      BY <1>4 DEF MobileUnauthorized
    <2> HIDE DEF at
    <2>2. req' \in [Request -> RequestRecord]
      BY <2>1, MarkedType, RequestUpdate
    <2>3. isRefreshing' \in [Client -> BOOLEAN]
      BY <1>4, Types DEF MobileUnauthorized, RaiseFlag
    <2> QED BY <1>4, <2>2, <2>3 DEF MobileUnauthorized, TypeOK, RequestRecord
  <1>5. ASSUME NEW r \in Request, RefreshSucceeds(r) PROVE TypeOK'
    <2>1. \A q \in Request : Sent(q, period[ClientOf(r)]) \in RequestRecord
      BY <1>0, ClientIs, SentType
    <2>2. req' \in [Request -> RequestRecord]
      BY <1>5, <2>1, Types DEF RefreshSucceeds
    <2>3. /\ access' \in [Client -> Token] /\ isRefreshing' \in [Client -> BOOLEAN]
          /\ refreshToken' \in [Client -> BOOLEAN]
      BY <1>0, <1>5, ClientIs, Types DEF RefreshSucceeds
    <2>4. sends' \in [Request -> Nat]
      BY <1>5, Types DEF RefreshSucceeds
    <2> QED BY <1>5, <2>2, <2>3, <2>4 DEF RefreshSucceeds, TypeOK, RequestRecord
  <1>6. ASSUME NEW r \in Request, TokenFound(r) \/ WebRefreshFails(r) \/ MobileRefreshFails(r)
                                    \/ TokensCleared(r)
        PROVE  TypeOK'
    <2>1. CASE TokenFound(r)
      BY <2>1 DEF TokenFound, TypeOK
    <2>2. CASE WebRefreshFails(r)
      <3>1. req' \in [Request -> RequestRecord]
        BY <2>2, Types DEF WebRefreshFails, RequestRecord
      <3>2. /\ access' \in [Client -> Token] /\ isRefreshing' \in [Client -> BOOLEAN]
            /\ refreshToken' \in [Client -> BOOLEAN]
        BY <2>2, Types, NoToken DEF WebRefreshFails
      <3> QED BY <2>2, <3>1, <3>2 DEF WebRefreshFails, TypeOK, RequestRecord
    <2>3. CASE MobileRefreshFails(r)
      <3>1. req' \in [Request -> RequestRecord]
        BY <2>3, Types DEF MobileRefreshFails, RequestRecord
      <3>2. isRefreshing' \in [Client -> BOOLEAN]
        BY <2>3, Types DEF MobileRefreshFails
      <3>3. (stranded["mobile"] \/ Waiting("mobile") # {}) \in BOOLEAN
        BY Types, Zenon DEF Client
      <3>4. stranded' \in [Client -> BOOLEAN]
        BY <2>3, <3>3, Types DEF MobileRefreshFails
      <3> QED BY <2>3, <3>1, <3>2, <3>4 DEF MobileRefreshFails, TypeOK, RequestRecord
    <2>4. CASE TokensCleared(r)
      <3>1. req' \in [Request -> RequestRecord]
        BY <2>4, Types DEF TokensCleared, RequestRecord
      <3>2. /\ access' \in [Client -> Token] /\ refreshToken' \in [Client -> BOOLEAN]
            /\ jwt' \in Token
        BY <2>4, Types, NoToken DEF TokensCleared
      <3> QED BY <2>4, <3>1, <3>2 DEF TokensCleared, TypeOK, RequestRecord
    <2> QED BY <1>6, <2>1, <2>2, <2>3, <2>4
  <1>7. ASSUME NEW k \in Client, Expire(k) PROVE TypeOK'
    <2>1. period' \in [Client -> Token \ {0}]
      BY <1>7, Types, RefreshAssumption DEF Expire, Token
    <2> QED BY <1>7, <2>1 DEF Expire, TypeOK
  <1>8. ASSUME NEW k \in Client, Login(k) PROVE TypeOK'
    <2>1. access' \in [Client -> Token] /\ refreshToken' \in [Client -> BOOLEAN]
      BY <1>0, <1>8, Types DEF Login
    <2>2. jwt' \in Token
      BY <1>0, <1>8, Types, RefreshAssumption DEF Login, Token
    <2> QED BY <1>8, <2>1, <2>2 DEF Login, TypeOK
  <1>9. CASE UNCHANGED vars
    BY <1>9 DEF vars, TypeOK
  <1> QED BY <1>1, <1>2, <1>3, <1>4, <1>5, <1>6, <1>7, <1>8, <1>9 DEF Next, RequestStep

\* Every variable of the clients keeps its type.
THEOREM TypeCorrect == Spec => []TypeOK
  BY TypeInit, TypeStep, PTL DEF Spec

-----------------------------------------------------------------------------
(* The refresh.                                                             *)

\* A step in which no request enters or leaves the refresh or the waiting room.
LEMMA InvSame ==
  ASSUME RefreshInv, UNCHANGED <<isRefreshing, stranded>>,
         \A q \in Request : (Refreshes(q)' <=> Refreshes(q))
                              /\ (req'[q].at = "waiting" => req[q].at = "waiting")
  PROVE  RefreshInv'
  BY DEF RefreshInv, FlagShape, Refreshing, OneRefresh, WaitersHaveRefresh

\* A refused request starts the refresh.
LEMMA InvStarts ==
  ASSUME TypeOK, RefreshInv, NEW r \in Request, ~isRefreshing[ClientOf(r)],
         isRefreshing' = [isRefreshing EXCEPT ![ClientOf(r)] = TRUE], stranded' = stranded,
         Refreshes(r)', \A q \in Request : q # r => req'[q] = req[q]
  PROVE  RefreshInv'
  <1>1. \A k \in Client : isRefreshing'[k] <=> (isRefreshing[k] \/ k = ClientOf(r))
    BY Types
  <1>2. \A q \in Request : Refreshes(q) => ClientOf(q) # ClientOf(r) /\ q # r
    BY DEF RefreshInv, FlagShape
  <1>3. /\ \A q \in Request : q # r => (Refreshes(q)' <=> Refreshes(q))
        /\ \A q \in Request : Refreshes(q) => Refreshes(q)'
        /\ \A q \in Request : q # r => (req'[q].at = "waiting" <=> req[q].at = "waiting")
        /\ req'[r].at # "waiting"
    BY <1>2 DEF Refreshes
  <1>4. FlagShape'
    BY <1>1, <1>3, ClientIs DEF RefreshInv, FlagShape, Refreshing
  <1>5. OneRefresh'
    BY <1>2, <1>3 DEF RefreshInv, OneRefresh
  <1>6. WaitersHaveRefresh'
    BY <1>3 DEF RefreshInv, WaitersHaveRefresh
  <1> QED BY <1>4, <1>5, <1>6 DEF RefreshInv

\* A refused request waits, while the flag is up.
LEMMA InvWaits ==
  ASSUME TypeOK, RefreshInv, NEW r \in Request, isRefreshing[ClientOf(r)], ~Refreshes(r),
         UNCHANGED <<isRefreshing, stranded>>,
         req'[r].at = "waiting", \A q \in Request : q # r => req'[q] = req[q]
  PROVE  RefreshInv'
  <1>1. \A q \in Request : Refreshes(q)' <=> Refreshes(q)
    BY DEF Refreshes
  <1>2. FlagShape' /\ OneRefresh'
    BY <1>1 DEF RefreshInv, FlagShape, Refreshing, OneRefresh
  <1>3. stranded[ClientOf(r)] \/ Refreshing(ClientOf(r))
    BY ClientIs DEF RefreshInv, FlagShape
  <1>4. WaitersHaveRefresh'
    BY <1>1, <1>3 DEF RefreshInv, WaitersHaveRefresh, Refreshing
  <1> QED BY <1>2, <1>4 DEF RefreshInv

\* The web client finds no refresh token: its flag stays up.
LEMMA InvStrands ==
  ASSUME TypeOK, RefreshInv, NEW r \in Request, req[r].at = "sent", req'[r].at = "error",
         \A q \in Request : q # r => req'[q] = req[q],
         isRefreshing' = [isRefreshing EXCEPT !["web"] = TRUE],
         stranded' = [stranded EXCEPT !["web"] = TRUE]
  PROVE  RefreshInv'
  <1>1. \A q \in Request : /\ Refreshes(q)' <=> Refreshes(q)
                           /\ req'[q].at = "waiting" => req[q].at = "waiting"
    BY DEF Refreshes
  <1>2. \A k \in Client : /\ isRefreshing'[k] <=> isRefreshing[k] \/ k = "web"
                          /\ stranded'[k] <=> stranded[k] \/ k = "web"
    BY Types
  <1> QED BY <1>1, <1>2, ClientIs DEF RefreshInv, FlagShape, Refreshing, OneRefresh, WaitersHaveRefresh

\* The refresh of r ends: its client has no waiters left, or has forgotten them.
LEMMA InvEnds ==
  ASSUME TypeOK, RefreshInv, NEW r \in Request, Refreshes(r), ~Refreshes(r)',
         isRefreshing' = [isRefreshing EXCEPT ![ClientOf(r)] = FALSE],
         \A q \in Request : ClientOf(q) # ClientOf(r) => req'[q] = req[q],
         \A q \in Request : req'[q] = req[q] \/ req'[q].at \in {"sent", "clearing", "error"},
         \A k \in Client : stranded[k] => stranded'[k],
         \A q \in Request : req'[q].at = "waiting" /\ ClientOf(q) = ClientOf(r) => stranded'[ClientOf(r)],
         req'[r].at # "waiting"
  PROVE  RefreshInv'
  <1>1. \A k \in Client : isRefreshing'[k] <=> isRefreshing[k] /\ k # ClientOf(r)
    BY Types
  <1>2. \A q \in Request : Refreshes(q)' <=> Refreshes(q) /\ ClientOf(q) # ClientOf(r)
    BY DEF RefreshInv, OneRefresh, Refreshes
  <1>3. FlagShape'
    BY <1>1, <1>2, ClientIs DEF RefreshInv, FlagShape, Refreshing
  <1>4. OneRefresh'
    BY <1>2 DEF RefreshInv, OneRefresh
  <1>5. WaitersHaveRefresh'
    <2> SUFFICES ASSUME NEW q \in Request, req'[q].at = "waiting", ~stranded'[ClientOf(q)]
                 PROVE  \E u \in Request : Refreshes(u)' /\ ClientOf(u) = ClientOf(q)
      BY DEF WaitersHaveRefresh
    <2>1. ClientOf(q) # ClientOf(r) /\ req[q].at = "waiting" /\ ~stranded[ClientOf(q)]
      BY ClientIs
    <2> QED BY <1>2, <2>1 DEF RefreshInv, WaitersHaveRefresh
  <1> QED BY <1>3, <1>4, <1>5 DEF RefreshInv

LEMMA InvStep == ASSUME TypeOK, RefreshInv, [Next]_vars PROVE RefreshInv'
  <1>0. \A k \in Client : period[k] \in Token /\ access[k] \in Token
    BY Types
  <1>1. ASSUME NEW r \in Request, Send(r) PROVE RefreshInv'
    <2>1. Sent(r, access[ClientOf(r)]) \in RequestRecord /\ Sent(r, access[ClientOf(r)]).at = "sent"
      BY <1>0, ClientIs, SentType
    <2>2. req' = [req EXCEPT ![r] = Sent(r, access[ClientOf(r)])] /\ req[r].at = "new"
      BY <1>1 DEF Send
    <2>3. req'[r].at = "sent" /\ \A q \in Request : q # r => req'[q] = req[q]
      BY <2>1, <2>2, RequestUpdate
    <2>4. UNCHANGED <<isRefreshing, stranded>>
      BY <1>1 DEF Send
    <2> QED BY <2>2, <2>3, <2>4, InvSame DEF Refreshes
  <1>2. ASSUME NEW r \in Request, Answered(r) \/ RefusedAgain(r) PROVE RefreshInv'
    <2>1. \/ req' = [req EXCEPT ![r].at = "ok"]
          \/ req' = [req EXCEPT ![r].at = "error"]
      BY <1>2 DEF Answered, RefusedAgain
    <2>2. req[r].at = "sent" /\ UNCHANGED <<isRefreshing, stranded>>
      BY <1>2 DEF Answered, RefusedAgain, Refused
    <2>3. req'[r].at \in {"ok", "error"} /\ \A q \in Request : q # r => req'[q] = req[q]
      BY <2>1, Types DEF RequestRecord
    <2> QED BY <2>2, <2>3, InvSame DEF Refreshes
  <1>3. ASSUME NEW r \in Request, WebUnauthorized(r) PROVE RefreshInv'
    <2>1. ClientOf(r) = "web" /\ req[r].at = "sent" /\ req[r] \in RequestRecord
      BY <1>3, Types DEF WebUnauthorized, Refused, ClientOf
    <2>2. CASE isRefreshing["web"] /\ req' = [req EXCEPT ![r].at = "waiting"]
               /\ UNCHANGED <<isRefreshing, stranded>>
      <3>1. req'[r].at = "waiting" /\ \A q \in Request : q # r => req'[q] = req[q]
        BY <2>2, Types DEF RequestRecord
      <3> QED BY <2>1, <2>2, <3>1, InvWaits DEF Refreshes
    <2>3. CASE ~isRefreshing["web"] /\ req' = [req EXCEPT ![r] = [Marked(req[r]) EXCEPT !.at = "refresh"]]
               /\ isRefreshing' = RaiseFlag("web") /\ stranded' = stranded
      <3>1. req'[r].at = "refresh" /\ \A q \in Request : q # r => req'[q] = req[q]
        BY <2>1, <2>3, Types DEF RequestRecord, Marked
      <3> QED BY <2>1, <2>3, <3>1, InvStarts DEF RaiseFlag, Refreshes
    <2>4. CASE req' = [req EXCEPT ![r] = [Marked(req[r]) EXCEPT !.at = "error"]]
               /\ isRefreshing' = RaiseFlag("web") /\ stranded' = [stranded EXCEPT !["web"] = TRUE]
      <3>1. req'[r].at = "error" /\ \A q \in Request : q # r => req'[q] = req[q]
        BY <2>1, <2>4, Types DEF RequestRecord, Marked
      <3> QED BY <2>1, <2>4, <3>1, InvStrands DEF RaiseFlag
    <2> QED BY <1>3, <2>2, <2>3, <2>4 DEF WebUnauthorized
  <1>4. ASSUME NEW r \in Request, MobileUnauthorized(r) PROVE RefreshInv'
    <2>1. /\ ClientOf(r) = "mobile" /\ req[r].at = "sent" /\ req[r] \in RequestRecord
          /\ stranded' = stranded /\ isRefreshing' = [isRefreshing EXCEPT !["mobile"] = TRUE]
      BY <1>4, Types DEF MobileUnauthorized, Refused, ClientOf, RaiseFlag
    <2>2. CASE isRefreshing["mobile"]
      <3>1. req'[r].at = "waiting" /\ \A q \in Request : q # r => req'[q] = req[q]
        BY <1>4, <2>1, <2>2, Types DEF MobileUnauthorized, RequestRecord, Marked
      <3>2. isRefreshing' = isRefreshing
        BY <2>1, <2>2, Types DEF Client
      <3> QED BY <2>1, <2>2, <3>1, <3>2, InvWaits DEF Refreshes
    <2>3. CASE ~isRefreshing["mobile"]
      <3>1. req'[r].at = "lookup" /\ \A q \in Request : q # r => req'[q] = req[q]
        BY <1>4, <2>1, <2>3, Types DEF MobileUnauthorized, RequestRecord, Marked
      <3> QED BY <2>1, <2>3, <3>1, InvStarts DEF Refreshes
    <2> QED BY <2>2, <2>3
  <1>5. ASSUME NEW r \in Request, RefreshSucceeds(r) PROVE RefreshInv'
    <2> DEFINE k == ClientOf(r)
    <2>1. /\ req[r].at = "refresh" /\ stranded' = stranded
          /\ isRefreshing' = [isRefreshing EXCEPT ![k] = FALSE]
          /\ \A q \in Request : req'[q] = IF q \in {r} \cup Waiting(k) THEN Sent(q, period[k]) ELSE req[q]
      BY <1>5 DEF RefreshSucceeds, Notified
    <2>2. \A q \in Request : Sent(q, period[k]).at = "sent"
      BY <1>0, ClientIs, SentType
    <2>3. \A q \in Request : ClientOf(q) # k => req'[q] = req[q]
      BY <2>1 DEF Waiting
    <2>4. \A q \in Request : req'[q] = req[q] \/ req'[q].at \in {"sent", "clearing", "error"}
      BY <2>1, <2>2
    <2>5. \A q \in Request : ClientOf(q) = k => req'[q].at # "waiting"
      BY <2>1, <2>2 DEF Waiting
    <2>6. req'[r].at = "sent"
      BY <2>1, <2>2
    <2> QED BY <2>1, <2>3, <2>4, <2>5, <2>6, InvEnds DEF Refreshes
  <1>6. ASSUME NEW r \in Request, WebRefreshFails(r) PROVE RefreshInv'
    <2>1. /\ req[r].at = "refresh" /\ ClientOf(r) = "web" /\ stranded' = stranded
          /\ isRefreshing' = [isRefreshing EXCEPT !["web"] = FALSE]
          /\ \A q \in Request : req'[q] = IF q \in {r} \cup Waiting("web")
                                        THEN [req[q] EXCEPT !.at = "error"] ELSE req[q]
      BY <1>6 DEF WebRefreshFails, Notified, ClientOf
    <2>2. \A q \in Request : [req[q] EXCEPT !.at = "error"].at = "error"
      BY Types DEF RequestRecord
    <2>3. \A q \in Request : ClientOf(q) # "web" => req'[q] = req[q]
      BY <2>1 DEF Waiting
    <2>4. \A q \in Request : req'[q] = req[q] \/ req'[q].at = "error"
      BY <2>1, <2>2
    <2>5. \A q \in Request : ClientOf(q) = "web" => req'[q].at # "waiting"
      BY <2>1, <2>2 DEF Waiting
    <2>6. req'[r].at = "error"
      BY <2>1, <2>2
    <2> QED BY <2>1, <2>3, <2>4, <2>5, <2>6, InvEnds DEF Refreshes
  <1>7. ASSUME NEW r \in Request, MobileRefreshFails(r) PROVE RefreshInv'
    <2>1. /\ Refreshes(r) /\ ClientOf(r) = "mobile"
          /\ isRefreshing' = [isRefreshing EXCEPT !["mobile"] = FALSE]
          /\ req' = [req EXCEPT ![r].at = "clearing"]
          /\ stranded' = [stranded EXCEPT !["mobile"] = stranded["mobile"] \/ Waiting("mobile") # {}]
      BY <1>7 DEF MobileRefreshFails, Refreshes, ClientOf
    <2>2. req'[r].at = "clearing" /\ \A q \in Request : q # r => req'[q] = req[q]
      BY <2>1, Types DEF RequestRecord
    <2>3. /\ stranded'["mobile"] <=> stranded["mobile"] \/ Waiting("mobile") # {}
          /\ \A j \in Client : j # "mobile" => stranded'[j] = stranded[j]
      BY <2>1, Types DEF Client
    <2>4. \A q \in Request : req'[q].at = "waiting" /\ ClientOf(q) = "mobile" => stranded'["mobile"]
      BY <2>2, <2>3 DEF Waiting
    <2>5. \A j \in Client : stranded[j] => stranded'[j]
      BY <2>3
    <2> QED BY <2>1, <2>2, <2>4, <2>5, InvEnds DEF Refreshes
  <1>8. ASSUME NEW r \in Request, TokenFound(r) \/ TokensCleared(r) PROVE RefreshInv'
    <2>1. \/ req[r].at = "lookup" /\ req' = [req EXCEPT ![r].at = "refresh"]
          \/ req[r].at = "clearing" /\ req' = [req EXCEPT ![r].at = "error"]
      BY <1>8 DEF TokenFound, TokensCleared
    <2>2. UNCHANGED <<isRefreshing, stranded>>
      BY <1>8 DEF TokenFound, TokensCleared
    <2>3. /\ \A q \in Request : q # r => req'[q] = req[q]
          /\ \/ req[r].at = "lookup" /\ req'[r].at = "refresh"
             \/ req[r].at = "clearing" /\ req'[r].at = "error"
      BY <2>1, Types DEF RequestRecord
    <2> QED BY <2>2, <2>3, InvSame DEF Refreshes
  <1>9. ASSUME NEW k \in Client, Expire(k) \/ Login(k) PROVE RefreshInv'
    BY <1>9, InvSame DEF Expire, Login, Refreshes
  <1>10. CASE UNCHANGED vars
    BY <1>10, InvSame DEF vars, Refreshes
  <1> QED BY <1>1, <1>2, <1>3, <1>4, <1>5, <1>6, <1>7, <1>8, <1>9, <1>10 DEF Next, RequestStep

LEMMA InvInit == Init => RefreshInv
  BY DEF Init, RefreshInv, FlagShape, OneRefresh, WaitersHaveRefresh, Refreshes

\* A client never spends its refresh token twice at once.
THEOREM OneRefreshAtATime == Spec => []OneRefresh
  <1>1. RefreshInv => OneRefresh
    BY DEF RefreshInv
  <1> QED BY <1>1, TypeInit, TypeStep, InvInit, InvStep, PTL DEF Spec

\* No request is left waiting for a refresh nobody makes, but for a stranded client.
THEOREM NobodyWaitsInVain == Spec => []WaitersHaveRefresh
  <1>1. RefreshInv => WaitersHaveRefresh
    BY DEF RefreshInv
  <1> QED BY <1>1, TypeInit, TypeStep, InvInit, InvStep, PTL DEF Spec

-----------------------------------------------------------------------------
(* How often a request is sent again.                                       *)

\* The web requests that have made a refresh, whatever became of it.
Over == {q \in Web : req[q].retry /\ req[q].at # "refresh"}

\* A web request was sent again at most once for each refresh that is over; a mobile one
\* was marked when it was refused for the first time.
SendsOK ==
    \A r \in Request :
        /\ req[r].at = "new" => sends[r] = 0
        /\ r \in Web => /\ req[r].at \notin {"lookup", "clearing"}
                        /\ req[r].at = "refresh" => req[r].retry
                        /\ sends[r] <= 1 + Cardinality(Over)
        /\ r \notin Web => /\ sends[r] <= 2
                           /\ ~req[r].retry => sends[r] <= 1
                           /\ req[r].at \in {"lookup", "refresh", "waiting"} => req[r].retry /\ sends[r] <= 1

LEMMA OverFinite ==
  \A S \in SUBSET Web : IsFiniteSet(S) /\ Cardinality(S) \in Nat
  BY RefreshAssumption, FS_Subset, FS_CardinalityType

\* The requests that have made a refresh only become more.
LEMMA OverGrows ==
  ASSUME \A q \in Web : req[q].retry /\ req[q].at # "refresh"
                           => req'[q].retry /\ req'[q].at # "refresh"
  PROVE  Cardinality(Over) <= Cardinality(Over')
  <1>1. Over \subseteq Over' /\ Over' \in SUBSET Web
    BY DEF Over
  <1> QED BY <1>1, OverFinite, FS_Subset

\* A step that sends nothing.
LEMMA NothingSent ==
  ASSUME TypeOK, SendsOK, sends' = sends,
         \A q \in Request :
            \/ /\ req'[q].retry = req[q].retry
               /\ req'[q].at = req[q].at \/ req'[q].at \in {"ok", "error"}
            \/ q \in Web /\ req'[q].at = "waiting" /\ req'[q].retry = req[q].retry /\ req[q].at # "refresh"
            \/ q \in Web /\ ~req[q].retry /\ req'[q].retry /\ req'[q].at \in {"refresh", "error"}
            \/ q \notin Web /\ req'[q].retry /\ sends[q] <= 1
                 /\ req'[q].at \in {"lookup", "refresh", "waiting", "clearing"}
            \/ q \notin Web /\ req'[q].retry /\ req'[q].at = "clearing"
  PROVE  SendsOK'
  <1>0. \A q \in Web : req[q].retry /\ req[q].at # "refresh"
                         => req'[q].retry /\ req'[q].at # "refresh"
    BY RefreshAssumption
  <1>1. Cardinality(Over) <= Cardinality(Over')
    BY <1>0, OverGrows
  <1>2. Cardinality(Over) \in Nat /\ Cardinality(Over') \in Nat
    BY OverFinite DEF Over
  <1>3. \A q \in Request : sends[q] \in Nat
    BY Types
  <1> SUFFICES ASSUME NEW q \in Request
               PROVE  /\ req'[q].at = "new" => sends[q] = 0
                      /\ q \in Web => /\ req'[q].at \notin {"lookup", "clearing"}
                                      /\ req'[q].at = "refresh" => req'[q].retry
                                      /\ sends[q] <= 1 + Cardinality(Over')
                      /\ q \notin Web => /\ sends[q] <= 2
                                         /\ ~req'[q].retry => sends[q] <= 1
                                         /\ req'[q].at \in {"lookup", "refresh", "waiting"}
                                               => req'[q].retry /\ sends[q] <= 1
    BY DEF SendsOK
  <1>4. CASE q \in Web
    BY <1>1, <1>2, <1>3, <1>4 DEF SendsOK
  <1>5. CASE q \notin Web
    BY <1>3, <1>5 DEF SendsOK
  <1> QED BY <1>4, <1>5

\* A refresh succeeds: it is one more that is over, and each request is sent once.
LEMMA SendsAgain ==
  ASSUME TypeOK, SendsOK, NEW r \in Request, RefreshSucceeds(r) PROVE SendsOK'
  <1> DEFINE k == ClientOf(r)
             again == {r} \cup Waiting(k)
  <1>0. period[k] \in Token
    BY ClientIs, Types
  <1>1. /\ req[r].at = "refresh"
        /\ \A q \in Request : req'[q] = IF q \in again THEN Sent(q, period[k]) ELSE req[q]
        /\ \A q \in Request : sends'[q] = IF q \in again THEN sends[q] + 1 ELSE sends[q]
    BY DEF RefreshSucceeds, Notified
  <1>2. \A q \in Request : Sent(q, period[k]).at = "sent" /\ Sent(q, period[k]).retry = req[q].retry
    BY <1>0, Types DEF Sent, RequestRecord
  <1>3. /\ Cardinality(Over) \in Nat /\ Cardinality(Over') \in Nat
        /\ IsFiniteSet(Over) /\ IsFiniteSet(Over')
    BY OverFinite DEF Over
  <1>4. \A q \in again : ClientOf(q) = k /\ q \in Request
    BY DEF Waiting
  <1>5. \A q \in Request : (q \in Web <=> r \in Web) <=> ClientOf(q) = k
    BY DEF ClientOf
  <1>6. \A q \in Request : sends[q] \in Nat
    BY Types
  <1>7. \A q \in Request : /\ req'[q].retry = req[q].retry
                           /\ q \in again => req'[q].at = "sent" /\ sends'[q] = sends[q] + 1
                           /\ q \notin again => req'[q].at = req[q].at /\ sends'[q] = sends[q]
    BY <1>1, <1>2
  <1>8. r \in again /\ \A q \in again : q = r \/ req[q].at = "waiting"
    BY DEF Waiting
  <1> HIDE DEF again
  <1>9. Cardinality(Over) <= Cardinality(Over')
    BY <1>7, OverGrows, RefreshAssumption
  <1>10. CASE r \in Web
    <2>1. req[r].retry
      BY <1>1, <1>10 DEF SendsOK
    <2>2. r \notin Over /\ Over \cup {r} \subseteq Over'
      BY <1>1, <1>7, <1>8, <1>10, <2>1, RefreshAssumption DEF Over
    <2>3. Cardinality(Over \cup {r}) = Cardinality(Over) + 1
      BY <1>3, <2>2, FS_AddElement
    <2>4. Cardinality(Over) + 1 <= Cardinality(Over')
      BY <1>3, <2>2, <2>3, FS_Subset
    <2>5. \A q \in Request : q \notin Web => q \notin again
      BY <1>4, <1>5, <1>10
    <2> QED BY <1>3, <1>6, <1>7, <1>8, <2>4, <2>5 DEF SendsOK
  <1>11. CASE r \notin Web
    <2>1. \A q \in again : q \notin Web /\ req[q].retry /\ sends[q] <= 1
      BY <1>1, <1>4, <1>5, <1>8, <1>11 DEF SendsOK
    <2> QED BY <1>3, <1>6, <1>7, <1>9, <2>1 DEF SendsOK
  <1> QED BY <1>10, <1>11

LEMMA SendsStep == ASSUME TypeOK, SendsOK, [Next]_vars PROVE SendsOK'
  <1>0. \A q \in Request : req[q] \in RequestRecord /\ sends[q] \in Nat
    BY Types
  <1>1. ASSUME NEW r \in Request, Send(r) PROVE SendsOK'
    <2>1. req' = [req EXCEPT ![r] = Sent(r, access[ClientOf(r)])] /\ req[r].at = "new"
          /\ sends' = [sends EXCEPT ![r] = sends[r] + 1]
      BY <1>1 DEF Send
    <2>2. access[ClientOf(r)] \in Token
      BY ClientIs, Types
    <2>3. Sent(r, access[ClientOf(r)]).at = "sent" /\ Sent(r, access[ClientOf(r)]).retry = req[r].retry
      BY <1>0 DEF Sent, RequestRecord
    <2>4. /\ req'[r].at = "sent" /\ req'[r].retry = req[r].retry
          /\ \A q \in Request : q # r => req'[q] = req[q] /\ sends'[q] = sends[q]
      BY <2>1, <2>3, Types
    <2>5. sends[r] = 0 /\ sends'[r] = 1
      BY <1>0, <2>1, Types DEF SendsOK
    <2>6. Cardinality(Over) <= Cardinality(Over')
      BY <2>1, <2>4, OverGrows, RefreshAssumption
    <2>7. Cardinality(Over) \in Nat /\ Cardinality(Over') \in Nat
      BY OverFinite DEF Over
    <2> QED BY <1>0, <2>4, <2>5, <2>6, <2>7 DEF SendsOK
  <1>2. ASSUME NEW r \in Request, Answered(r) \/ RefusedAgain(r) PROVE SendsOK'
    <2>1. req' = [req EXCEPT ![r].at = "ok"] \/ req' = [req EXCEPT ![r].at = "error"]
      BY <1>2 DEF Answered, RefusedAgain
    <2>2. sends' = sends
      BY <1>2 DEF Answered, RefusedAgain
    <2>3. /\ req'[r].at \in {"ok", "error"} /\ req'[r].retry = req[r].retry
          /\ \A q \in Request : q # r => req'[q] = req[q]
      BY <1>0, <2>1, Types DEF RequestRecord
    <2> QED BY <2>2, <2>3, NothingSent
  <1>3. ASSUME NEW r \in Request, WebUnauthorized(r) PROVE SendsOK'
    <2>1. r \in Web /\ ~req[r].retry /\ req[r].at = "sent" /\ sends' = sends
      BY <1>3 DEF WebUnauthorized, Refused
    <2>2. \/ req' = [req EXCEPT ![r].at = "waiting"]
          \/ req' = [req EXCEPT ![r] = [Marked(req[r]) EXCEPT !.at = "refresh"]]
          \/ req' = [req EXCEPT ![r] = [Marked(req[r]) EXCEPT !.at = "error"]]
      BY <1>3 DEF WebUnauthorized
    <2>3. /\ \A q \in Request : q # r => req'[q] = req[q]
          /\ \/ req'[r].at = "waiting" /\ req'[r].retry = req[r].retry
             \/ req'[r].at \in {"refresh", "error"} /\ req'[r].retry
      <3>1. CASE req' = [req EXCEPT ![r].at = "waiting"]
        BY <1>0, <3>1, Types DEF RequestRecord
      <3>2. CASE req' = [req EXCEPT ![r] = [Marked(req[r]) EXCEPT !.at = "refresh"]]
        BY <3>2, MarkedType, RequestUpdate
      <3>3. CASE req' = [req EXCEPT ![r] = [Marked(req[r]) EXCEPT !.at = "error"]]
        BY <3>3, MarkedType, RequestUpdate
      <3> QED BY <2>2, <3>1, <3>2, <3>3
    <2>4. \A q \in Request :
             \/ req'[q].retry = req[q].retry /\ req'[q].at = req[q].at
             \/ q \in Web /\ req'[q].at = "waiting" /\ req'[q].retry = req[q].retry /\ req[q].at # "refresh"
             \/ q \in Web /\ ~req[q].retry /\ req'[q].retry /\ req'[q].at \in {"refresh", "error"}
      BY <2>1, <2>3
    <2> QED BY <2>1, <2>4, NothingSent
  <1>4. ASSUME NEW r \in Request, MobileUnauthorized(r) PROVE SendsOK'
    <2>1. r \notin Web /\ ~req[r].retry /\ sends' = sends
      BY <1>4 DEF MobileUnauthorized
    <2>2. \/ req' = [req EXCEPT ![r] = [Marked(req[r]) EXCEPT !.at = "waiting"]]
          \/ req' = [req EXCEPT ![r] = [Marked(req[r]) EXCEPT !.at = "lookup"]]
      BY <1>4 DEF MobileUnauthorized
    <2>3. /\ \A q \in Request : q # r => req'[q] = req[q]
          /\ req'[r].at \in {"waiting", "lookup"} /\ req'[r].retry
      BY <2>2, MarkedType, RequestUpdate
    <2>4. sends[r] <= 1
      BY <2>1 DEF SendsOK
    <2>5. \A q \in Request :
             \/ req'[q].retry = req[q].retry /\ req'[q].at = req[q].at
             \/ q \notin Web /\ req'[q].retry /\ sends[q] <= 1 /\ req'[q].at \in {"lookup", "waiting"}
      BY <2>1, <2>3, <2>4
    <2> QED BY <2>1, <2>5, NothingSent
  <1>5. ASSUME NEW r \in Request, TokenFound(r) \/ MobileRefreshFails(r) \/ TokensCleared(r)
        PROVE  SendsOK'
    <2>1. /\ req[r].at \in {"lookup", "refresh", "clearing"} /\ sends' = sends
          /\ \/ req' = [req EXCEPT ![r].at = "refresh"] /\ req[r].at = "lookup"
             \/ req' = [req EXCEPT ![r].at = "clearing"] /\ r \notin Web /\ req[r].at \in {"lookup", "refresh"}
             \/ req' = [req EXCEPT ![r].at = "error"]
      BY <1>5 DEF TokenFound, MobileRefreshFails, TokensCleared
    <2>2. /\ \A q \in Request : q # r => req'[q] = req[q]
          /\ req'[r].retry = req[r].retry
          /\ \/ req'[r].at = "refresh" /\ req[r].at = "lookup"
             \/ req'[r].at = "clearing" /\ r \notin Web /\ req[r].at \in {"lookup", "refresh"}
             \/ req'[r].at = "error"
      BY <1>0, <2>1, Types DEF RequestRecord
    <2>3. req[r].at = "lookup" => r \notin Web
      BY DEF SendsOK
    <2>4. r \notin Web /\ req[r].at \in {"lookup", "refresh"} => req[r].retry /\ sends[r] <= 1
      BY DEF SendsOK
    <2> QED BY <2>1, <2>2, <2>3, <2>4, NothingSent
  <1>6. ASSUME NEW r \in Request, WebRefreshFails(r) PROVE SendsOK'
    <2>1. /\ sends' = sends
          /\ \A q \in Request : req'[q] = IF q \in {r} \cup Waiting("web")
                                        THEN [req[q] EXCEPT !.at = "error"] ELSE req[q]
      BY <1>6 DEF WebRefreshFails, Notified
    <2>2. \A q \in Request : [req[q] EXCEPT !.at = "error"].at = "error"
                             /\ [req[q] EXCEPT !.at = "error"].retry = req[q].retry
      BY <1>0 DEF RequestRecord
    <2>3. \A q \in Request : /\ req'[q].retry = req[q].retry
                             /\ req'[q].at = req[q].at \/ req'[q].at = "error"
      BY <2>1, <2>2
    <2> QED BY <2>1, <2>3, NothingSent
  <1>7. CASE UNCHANGED <<req, sends>>
    BY <1>7, NothingSent
  <1> QED BY <1>1, <1>2, <1>3, <1>4, <1>5, <1>6, <1>7, SendsAgain
      DEF Next, RequestStep, Expire, Login, vars

\* A request that is refused does not go round between 401 and refresh, however many
\* requests there are and however often tokens expire.
THEOREM NoRequestLoops == Spec => []NoResendLoop
  <1>1. Init => SendsOK
    <2> SUFFICES ASSUME Init PROVE SendsOK
      OBVIOUS
    <2>1. \A r \in Request : req[r].at = "new" /\ sends[r] = 0 /\ ~req[r].retry
      BY DEF Init
    <2>2. Cardinality(Over) \in Nat
      BY OverFinite DEF Over
    <2> QED BY <2>1, <2>2 DEF SendsOK
  <1>2. ASSUME TypeOK, SendsOK PROVE NoResendLoop
    <2> DEFINE marked == {q \in Web : req[q].retry}
    <2>1. Over \subseteq marked /\ marked \in SUBSET Web
      BY DEF Over
    <2>2. Cardinality(Over) <= Cardinality(marked) /\ Cardinality(Over) \in Nat /\ Cardinality(marked) \in Nat
      BY <2>1, OverFinite, FS_Subset DEF Over
    <2>3. \A r \in Request : sends[r] \in Nat
      BY <1>2, Types
    <2> HIDE DEF marked
    <2>4. \A r \in Request : sends[r] <= IF r \in Web THEN 1 + Cardinality(marked) ELSE 2
      BY <1>2, <2>2, <2>3 DEF SendsOK
    <2> QED BY <2>4 DEF NoResendLoop, marked
  <1> QED BY <1>1, <1>2, TypeInit, TypeStep, SendsStep, PTL DEF Spec

=============================================================================
