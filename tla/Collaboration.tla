---------------------------- MODULE Collaboration ----------------------------
(***************************************************************************)
(* Real-time collaboration of the GigaPDF API: the Socket.IO handlers of   *)
(* app/api/websocket.py over the rows of collaboration_sessions and        *)
(* element_locks (app/services/collaboration_service.py).                  *)
(*                                                                         *)
(* Handlers of several sockets, in several worker processes, run at once;  *)
(* hs[h] says where handler h stands.  A handler is cut at every await     *)
(* that reads or writes the database or emits to the room.  Each database  *)
(* call is its own READ COMMITTED transaction: a SELECT takes no lock, and *)
(* what it returned may be out of date when the same call writes.          *)
(***************************************************************************)
EXTENDS Integers, FiniteSets

CONSTANTS
    User,
    Socket,         \* socket ids; each is connected at most once
    UserOf,         \* session["user_id"] of a socket
    Document,
    Element,
    Session,        \* ids of rows of collaboration_sessions: a bound on rows
    LockId,         \* ids of rows of element_locks, drawn anew while in use
    Handler,        \* event handlers and cleanup tasks in progress
    None

\* What the unique index idx_element_locks_element is on.
Key == Document \X Element

ASSUME CollaborationAssumption ==
    /\ UserOf \in [Socket -> User]
    /\ IsFiniteSet(Session) /\ IsFiniteSet(Handler)
    /\ IsFiniteSet(LockId) /\ IsFiniteSet(Key)
    /\ Cardinality(LockId) + 1 >= Cardinality(Handler) + Cardinality(Key)
    /\ None \notin User \cup Socket \cup Document \cup Session \cup LockId

VARIABLES
    conn,       \* of a socket: not yet connected, connected, disconnected
    joined,     \* session["document_id"] of a socket
    rooms,      \* the rooms that a socket has entered
    sessions,   \* rows of collaboration_sessions
    locks,      \* row of element_locks for a key, NoLock if there is none
    greyed,     \* client: holder of each element that is shown as locked
    timers,     \* client: elements whose TTL timer is running
    hs,         \* handlers in progress
    granted,    \* history: <<socket, key>> for locks granted, neither run out
                \* nor given back by the user
    revoked     \* history: grants whose row went with its session

server == <<joined, rooms, sessions, locks>>
client == <<greyed, timers>>
history == <<granted, revoked>>
vars == <<conn, server, client, hs, history>>

-----------------------------------------------------------------------------
\* A row that was never inserted, and the rows of a socket, of a user.
NoSession == [doc |-> None, user |-> None, socket |-> None,
              active |-> FALSE, stale |-> FALSE]

Rows == {i \in Session : sessions[i] # NoSession}

RowsOfSocket(s) == {i \in Rows : sessions[i].socket = s}

ActiveRows(d) == {i \in Rows : sessions[i].active /\ sessions[i].doc = d}

NoLock == [id |-> None, user |-> None, session |-> None, live |-> FALSE]

Held == {k \in Key : locks[k] # NoLock}

SessionRow == [doc : Document \cup {None}, user : User \cup {None},
               socket : Socket \cup {None}, active : BOOLEAN, stale : BOOLEAN]

LockRow == [id : LockId \cup {None}, user : User \cup {None},
            session : Session \cup {None}, live : BOOLEAN]

(***************************************************************************)
(* pc of a handler                                                         *)
(*   idle      not started                                                 *)
(*   join      create_session: to read     reuse, create   ... to write    *)
(*   enter     to enter the room           list, replay    lock backfill   *)
(*   held      get_locked_element_ids      find, remove    remove_session  *)
(*   left      to tell the room                                            *)
(*   lock      acquire_lock: to read       extend, insert  ... to write    *)
(*   locked, unlocked   to tell the room                                   *)
(*   sweep, swept       cleanup_inactive_sessions: to read, to write       *)
(***************************************************************************)
PC == {"idle", "join", "reuse", "create", "enter", "list", "replay", "held",
       "find", "remove", "left", "lock", "extend", "insert", "locked",
       "unlocked", "sweep", "swept"}

HandlerState ==
    [pc : PC, sid : Socket \cup {None}, doc : Document \cup {None},
     key : Key \cup {None}, row : Session \cup {None}, id : LockId \cup {None},
     shown : SUBSET (Key \X User), rows : SUBSET Session]

At(pc, s, d) == [pc |-> pc, sid |-> s, doc |-> d, key |-> None, row |-> None,
                 id |-> None, shown |-> {}, rows |-> {}]

Idle == At("idle", None, None)

Goto(h, state) == hs' = [hs EXCEPT ![h] = state]

\* An exception in a handler is caught and logged, and nothing else happens.
Raise(h) == Goto(h, Idle) /\ UNCHANGED <<conn, server, client, history>>

\* Socket s may start a handler in the free slot h, whatever others of the same
\* socket are in progress: python-socketio starts a task for each event.
MayStart(h, s) ==
    /\ hs[h] = Idle
    /\ conn[s] = "on"

\* The rows that handlers in progress may still insert.
Creating == {h \in Handler : hs[h].pc \in {"join", "create"}}

Init ==
    /\ conn = [s \in Socket |-> "new"]
    /\ joined = [s \in Socket |-> None]
    /\ rooms = [s \in Socket |-> {}]
    /\ sessions = [i \in Session |-> NoSession]
    /\ locks = [k \in Key |-> NoLock]
    /\ greyed = [s \in Socket |-> [k \in Key |-> None]]
    /\ timers = [s \in Socket |-> {}]
    /\ hs = [h \in Handler |-> Idle]
    /\ granted = {}
    /\ revoked = {}

connect(s) ==
    /\ conn[s] = "new"
    /\ conn' = [conn EXCEPT ![s] = "on"]
    /\ UNCHANGED <<server, client, hs, history>>

-----------------------------------------------------------------------------
(***************************************************************************)
(* What clients show and users believe.  Broadcasts go through one Redis   *)
(* channel, which keeps their order: an emit reaches the room at once.     *)
(***************************************************************************)

\* In the room, with the editor page of document d listening.
Peers(d, s) == {p \in Socket \ {s} : d \in rooms[p] /\ joined[p] = d}

\* handleElementLocked at the clients in P: the element is greyed out and its
\* TTL timer started anew.
ShowLocked(P, shown) ==
    LET Of(k) == {x[2] : x \in {y \in shown : y[1] = k}}
    IN  /\ greyed' = [p \in Socket |-> [k \in Key |->
               IF p \in P /\ Of(k) # {} THEN CHOOSE u \in Of(k) : TRUE
                                        ELSE greyed[p][k]]]
        /\ timers' = [p \in Socket |->
               IF p \in P THEN timers[p] \cup {x[1] : x \in shown} ELSE timers[p]]

\* handleElementUnlocked at the clients in P.
ShowUnlocked(P, K) ==
    /\ greyed' = [p \in Socket |-> [k \in Key |->
           IF p \in P /\ k \in K THEN None ELSE greyed[p][k]]]
    /\ timers' = [p \in Socket |-> IF p \in P THEN timers[p] \ K ELSE timers[p]]

\* Mutant: the timer forgets itself and leaves the element grey.
TimerForgets(s, k) ==
    /\ k \in timers[s]
    /\ timers' = [timers EXCEPT ![s] = @ \ {k}]
    /\ UNCHANGED <<greyed, conn, server, hs, history>>

\* The TTL timer: the server expires a lock without telling anybody.
TtlFires(s, k) ==
    /\ k \in timers[s]
    /\ ShowUnlocked({s}, {k})
    /\ UNCHANGED <<conn, server, hs, history>>

\* The grants in G have run out, or their user gave them back.
Drop(G) == granted' = granted \ G /\ revoked' = revoked \ G

OfUser(u, k) == {g \in granted : g[2] = k /\ UserOf[g[1]] = u}

Without(K) == [k \in Key |-> IF k \in K THEN NoLock ELSE locks[k]]

\* The rows of K go with their session, whatever was granted on them.
Revoke(K) ==
    /\ locks' = Without(K)
    /\ revoked' = revoked \cup {g \in granted : g[2] \in K /\ UserOf[g[1]] = locks[g[2]].user}
    /\ UNCHANGED granted

-----------------------------------------------------------------------------
(***************************************************************************)
(* Joining: _join_document_impl and create_session.                        *)
(***************************************************************************)

\* The bound on rows: there is room for one more, or the user has two already and
\* the join is about to find them.
RoomFor(s, d) ==
    \/ Cardinality(Rows) + Cardinality(Creating) < Cardinality(Session)
    \/ Cardinality({i \in ActiveRows(d) : sessions[i].user = UserOf[s]}) > 1

\* Past the authorization gate: session["document_id"] is set.
JoinStart(h, s, d) ==
    /\ MayStart(h, s)
    /\ RoomFor(s, d)
    /\ joined' = [joined EXCEPT ![s] = d]
    /\ Goto(h, At("join", s, d))
    /\ UNCHANGED <<conn, rooms, sessions, locks, client, history>>

OwnRows(q) == {i \in ActiveRows(q.doc) : sessions[i].user = UserOf[q.sid]}

\* SELECT the user's active session; scalar_one_or_none raises on two rows.
JoinRead(h) ==
    LET q == hs[h]
    IN  /\ q.pc = "join"
        /\ Cardinality(OwnRows(q)) < 2
        /\ \/ OwnRows(q) = {} /\ Goto(h, [q EXCEPT !.pc = "create"])
           \/ \E i \in OwnRows(q) : Goto(h, [q EXCEPT !.pc = "reuse", !.row = i])
        /\ UNCHANGED <<conn, server, client, history>>

\* Two rows are found, or the INSERT fails.
JoinRaises(h) ==
    /\ \/ hs[h].pc = "join" /\ Cardinality(OwnRows(hs[h])) > 1
       \/ hs[h].pc = "create"
    /\ Raise(h)

\* The row gets the new socket.  is_active was loaded as true, so the UPDATE
\* leaves it out: a row that was made inactive meanwhile stays inactive.
JoinReuse(h) ==
    LET q == hs[h]
    IN  /\ q.pc = "reuse"
        /\ sessions' = [sessions EXCEPT ![q.row].socket = q.sid, ![q.row].stale = FALSE]
        /\ Goto(h, At("enter", q.sid, q.doc))
        /\ UNCHANGED <<conn, joined, rooms, locks, client, history>>

JoinCreate(h, i) ==
    LET q == hs[h]
    IN  /\ q.pc = "create"
        /\ i \notin Rows
        /\ sessions' = [sessions EXCEPT ![i] =
               [doc |-> q.doc, user |-> UserOf[q.sid], socket |-> q.sid,
                active |-> TRUE, stale |-> FALSE]]
        /\ Goto(h, At("enter", q.sid, q.doc))
        /\ UNCHANGED <<conn, joined, rooms, locks, client, history>>

JoinEnter(h) ==
    LET q == hs[h]
    IN  /\ q.pc = "enter"
        /\ conn[q.sid] = "on"
        /\ rooms' = [rooms EXCEPT ![q.sid] = @ \cup {q.doc}]
        /\ Goto(h, At("list", q.sid, q.doc))
        /\ UNCHANGED <<conn, joined, sessions, locks, client, history>>

\* enter_room raises when the socket has gone.
EnterRaises(h) ==
    /\ hs[h].pc = "enter"
    /\ conn[hs[h].sid] = "gone"
    /\ Raise(h)

Expired == {k \in Held : ~locks[k].live}

\* get_document_locks deletes what has expired and returns the others ...
JoinList(h) ==
    LET q == hs[h]
        K == {k \in Held : k[1] = q.doc}
    IN  /\ q.pc = "list"
        /\ locks' = Without(K \cap Expired)
        /\ Goto(h, [q EXCEPT !.pc = "replay",
                             !.shown = {<<k, locks[k].user>> : k \in K \ Expired}])
        /\ UNCHANGED <<conn, joined, rooms, sessions, client, history>>

\* ... which are replayed to the newcomer.
JoinReplay(h) ==
    LET q == hs[h]
    IN  /\ q.pc = "replay"
        /\ ShowLocked({s \in {q.sid} : conn[s] = "on" /\ joined[s] = q.doc}, q.shown)
        /\ Goto(h, Idle)
        /\ UNCHANGED <<conn, server, history>>

-----------------------------------------------------------------------------
(***************************************************************************)
(* Leaving: _leave_document_impl, disconnect and remove_session.           *)
(***************************************************************************)

\* The editor page is unmounted: its effects stop the timers and leave, while
\* the lock store, which is global, keeps its content.
LeaveStart(h, s) ==
    /\ MayStart(h, s)
    /\ joined[s] # None
    /\ joined' = [joined EXCEPT ![s] = None]
    /\ timers' = [timers EXCEPT ![s] = {}]
    /\ Drop({g \in granted : g[1] = s})
    /\ Goto(h, At("held", s, joined[s]))
    /\ UNCHANGED <<conn, rooms, sessions, locks, greyed>>

\* The client is gone.  Without a document there is nothing to clean up.
Disconnect(h, s) ==
    /\ MayStart(h, s)
    /\ conn' = [conn EXCEPT ![s] = "gone"]
    /\ rooms' = [rooms EXCEPT ![s] = {}]
    /\ timers' = [timers EXCEPT ![s] = {}]
    /\ greyed' = [greyed EXCEPT ![s] = [k \in Key |-> None]]
    /\ Drop({g \in granted : g[1] = s})
    /\ IF joined[s] = None THEN UNCHANGED hs ELSE Goto(h, At("held", s, joined[s]))
    /\ UNCHANGED <<joined, sessions, locks>>

LocksOf(i) == {k \in Held : locks[k].session = i}

\* scalar_one_or_none on socket_id: a row keeps its socket when it is made
\* inactive, so a socket that left and joined again has two.
TooManyRows(h) ==
    /\ hs[h].pc \in {"held", "find"}
    /\ Cardinality(RowsOfSocket(hs[h].sid)) > 1
    /\ Raise(h)

get_locked_element_ids(h) ==
    LET q == hs[h]
    IN  /\ q.pc = "held"
        /\ Cardinality(RowsOfSocket(q.sid)) < 2
        /\ Goto(h, [q EXCEPT !.pc = "find",
               !.shown = {<<k, locks[k].user>> :
                             k \in UNION {LocksOf(i) : i \in RowsOfSocket(q.sid)}}])
        /\ UNCHANGED <<conn, server, client, history>>

\* remove_session reads the row again ...
LeaveFind(h) ==
    LET q == hs[h]
    IN  /\ q.pc = "find"
        /\ \E i \in Rows :
               /\ RowsOfSocket(q.sid) = {i}
               /\ Goto(h, [q EXCEPT !.pc = "remove", !.row = i])
        /\ UNCHANGED <<conn, server, client, history>>

\* ... finds that another socket has taken it over, and leaves everything ...
LeaveNotFound(h) ==
    /\ hs[h].pc = "find"
    /\ RowsOfSocket(hs[h].sid) = {}
    /\ Raise(h)

\* ... or ends the session and deletes its locks.
LeaveRemove(h) ==
    LET q == hs[h]
    IN  /\ q.pc = "remove"
        /\ sessions' = [sessions EXCEPT ![q.row].active = FALSE, ![q.row].stale = FALSE]
        /\ Revoke(LocksOf(q.row))
        /\ Goto(h, [q EXCEPT !.pc = "left", !.row = None])
        /\ UNCHANGED <<conn, joined, rooms, client>>

\* element:unlocked for the elements read first.
LeaveNotify(h) ==
    LET q == hs[h]
    IN  /\ q.pc = "left"
        /\ rooms' = [rooms EXCEPT ![q.sid] = @ \ {q.doc}]
        /\ ShowUnlocked(Peers(q.doc, q.sid), {x[1] : x \in q.shown})
        /\ Goto(h, Idle)
        /\ UNCHANGED <<conn, joined, sessions, locks, history>>

-----------------------------------------------------------------------------
(***************************************************************************)
(* Element locks: element_lock, acquire_lock, element_unlock.              *)
(***************************************************************************)

\* The active session of socket s in the document it has joined.
LockStart(h, s, e) ==
    /\ MayStart(h, s)
    /\ joined[s] # None
    /\ \E i \in ActiveRows(joined[s]) :
           /\ sessions[i].socket = s
           /\ Goto(h, [At("lock", s, joined[s]) EXCEPT
                          !.key = <<joined[s], e>>, !.row = i])
    /\ UNCHANGED <<conn, server, client, history>>

\* SELECT the lock: the user's own is to be extended; where there is none, or
\* an expired one (to be deleted in the same flush), a row is to be inserted.
AcquireRead(h) ==
    LET q == hs[h]
        l == locks[q.key]
    IN  /\ q.pc = "lock"
        /\ \/ ~l.live /\ Goto(h, [q EXCEPT !.pc = "insert"])
           \/ /\ l.live /\ l.user = UserOf[q.sid]
              /\ Goto(h, [q EXCEPT !.pc = "extend", !.id = l.id])
        /\ UNCHANGED <<conn, server, client, history>>

\* Another user's lock: refused.
AcquireRefused(h) ==
    /\ hs[h].pc = "lock"
    /\ locks[hs[h].key].live
    /\ locks[hs[h].key].user # UserOf[hs[h].sid]
    /\ Raise(h)

\* The lock is committed: the user holds it, if the client is still there.
Grant(q) ==
    /\ granted' = IF conn[q.sid] = "on" /\ joined[q.sid] = q.doc
                  THEN granted \cup {<<q.sid, q.key>>} ELSE granted
    /\ revoked' = revoked \ {<<q.sid, q.key>>}

\* Mutant: UPDATE by document and element.
ExtendByKey(h) ==
    LET q == hs[h]
    IN  /\ q.pc = "extend"
        /\ locks[q.key] # NoLock
        /\ locks' = [locks EXCEPT ![q.key].live = TRUE]
        /\ Grant(q)
        /\ Goto(h, [q EXCEPT !.pc = "locked", !.row = None, !.id = None])
        /\ UNCHANGED <<conn, joined, rooms, sessions, client>>

\* UPDATE by primary key.
AcquireExtend(h) ==
    LET q == hs[h]
    IN  /\ q.pc = "extend"
        /\ locks[q.key].id = q.id
        /\ locks' = [locks EXCEPT ![q.key].live = TRUE]
        /\ Grant(q)
        /\ Goto(h, [q EXCEPT !.pc = "locked", !.row = None, !.id = None])
        /\ UNCHANGED <<conn, joined, rooms, sessions, client>>

\* StaleDataError: the row has been deleted.
ExtendRaises(h) ==
    /\ hs[h].pc = "extend"
    /\ locks[hs[h].key].id # hs[h].id
    /\ Raise(h)

InUse == {locks[k].id : k \in Held} \cup {hs[h].id : h \in Handler}

\* Mutant: element_locks has no unique index.
InsertAlways(k) == TRUE

\* The unit of work emits INSERT before DELETE, so the unique index refuses
\* the new row as long as any row has its key, the expired one included.
MayInsert(k) == locks[k] = NoLock

AcquireInsert(h, id) ==
    LET q == hs[h]
    IN  /\ q.pc = "insert"
        /\ MayInsert(q.key)
        /\ id \notin InUse
        /\ locks' = [locks EXCEPT ![q.key] =
               [id |-> id, user |-> UserOf[q.sid], session |-> q.row, live |-> TRUE]]
        /\ Grant(q)
        /\ Goto(h, [q EXCEPT !.pc = "locked", !.row = None, !.id = None])
        /\ UNCHANGED <<conn, joined, rooms, sessions, client>>

\* IntegrityError: the transaction rolls back, and the expired row stays.
InsertRaises(h) ==
    /\ hs[h].pc = "insert"
    /\ ~MayInsert(hs[h].key)
    /\ Raise(h)

LockNotify(h) ==
    LET q == hs[h]
    IN  /\ q.pc = "locked"
        /\ ShowLocked(Peers(q.doc, q.sid), {<<q.key, UserOf[q.sid]>>})
        /\ Goto(h, Idle)
        /\ UNCHANGED <<conn, server, history>>

\* release_lock: the lock of the user, whichever session took it.
Unlock(h, s, k) ==
    /\ MayStart(h, s)
    /\ k[1] = joined[s]
    /\ locks[k].user = UserOf[s]
    /\ locks' = Without({k})
    /\ Drop(OfUser(UserOf[s], k))
    /\ Goto(h, [At("unlocked", s, joined[s]) EXCEPT !.key = k])
    /\ UNCHANGED <<conn, joined, rooms, sessions, client>>

UnlockNotify(h) ==
    LET q == hs[h]
    IN  /\ q.pc = "unlocked"
        /\ ShowUnlocked(Peers(q.doc, q.sid), {q.key})
        /\ Goto(h, Idle)
        /\ UNCHANGED <<conn, server, history>>

\* cursor_move, and cursor:move when page_id is a number: last_seen_at of all
\* the rows of the socket.  With an opaque page_id cursor:move is only relayed.
update_cursor(s) ==
    /\ conn[s] = "on" /\ joined[s] # None
    /\ sessions' = [i \in Session |->
           IF i \in RowsOfSocket(s) THEN [sessions[i] EXCEPT !.stale = FALSE]
                                    ELSE sessions[i]]
    /\ UNCHANGED <<conn, joined, rooms, locks, client, hs, history>>

-----------------------------------------------------------------------------
(***************************************************************************)
(* Time, and cleanup_task.                                                 *)
(***************************************************************************)

\* expires_at of the row passes, and with it what its user was granted.
Expire(k) ==
    /\ locks[k].live
    /\ locks' = [locks EXCEPT ![k].live = FALSE]
    /\ Drop(OfUser(locks[k].user, k))
    /\ UNCHANGED <<conn, joined, rooms, sessions, client, hs>>

\* The end of a grant whose row is gone.
RunOut(g) ==
    /\ g \in revoked
    /\ Drop({g})
    /\ UNCHANGED <<conn, server, client, hs>>

\* last_seen_at becomes older than the timeout, which is longer than the rest
\* of a join that has just written it.
Age(i) ==
    /\ sessions[i].active /\ ~sessions[i].stale
    /\ \A h \in Handler : hs[h].pc \in {"enter", "list", "replay"}
                              => hs[h].sid # sessions[i].socket
    /\ sessions' = [sessions EXCEPT ![i].stale = TRUE]
    /\ UNCHANGED <<conn, joined, rooms, locks, client, hs, history>>

\* Mutant: the expired locks are not deleted.
CleanupKeepsLocks(h) ==
    /\ hs[h] = Idle
    /\ Goto(h, At("sweep", None, None))
    /\ UNCHANGED <<conn, server, client, history>>

cleanup_expired_locks(h) ==
    /\ hs[h] = Idle
    /\ locks' = Without(Expired)
    /\ Goto(h, At("sweep", None, None))
    /\ UNCHANGED <<conn, joined, rooms, sessions, client, history>>

\* cleanup_inactive_sessions reads the rows ...
SweepRead(h) ==
    /\ hs[h].pc = "sweep"
    /\ Goto(h, [At("swept", None, None) EXCEPT
                   !.rows = {i \in Rows : sessions[i].active /\ sessions[i].stale}])
    /\ UNCHANGED <<conn, server, client, history>>

\* Mutant: the task ends without COMMIT.
SweepRollsBack(h) ==
    /\ hs[h].pc = "swept"
    /\ Raise(h)

\* ... and ends these sessions, whatever became of them.
SweepEnd(h) ==
    LET S == hs[h].rows
    IN  /\ hs[h].pc = "swept"
        /\ sessions' = [i \in Session |->
               IF i \in S THEN [sessions[i] EXCEPT !.active = FALSE, !.stale = FALSE]
                          ELSE sessions[i]]
        /\ Revoke(UNION {LocksOf(i) : i \in S})
        /\ Goto(h, Idle)
        /\ UNCHANGED <<conn, joined, rooms, client>>

-----------------------------------------------------------------------------
Continue(h) ==
    \/ JoinRead(h) \/ JoinRaises(h) \/ JoinReuse(h)
    \/ \E i \in Session : JoinCreate(h, i)
    \/ JoinEnter(h) \/ EnterRaises(h) \/ JoinList(h) \/ JoinReplay(h)
    \/ get_locked_element_ids(h) \/ TooManyRows(h)
    \/ LeaveFind(h) \/ LeaveNotFound(h) \/ LeaveRemove(h) \/ LeaveNotify(h)
    \/ AcquireRead(h) \/ AcquireRefused(h)
    \/ AcquireExtend(h) \/ ExtendRaises(h)
    \/ (\E id \in LockId : AcquireInsert(h, id)) \/ InsertRaises(h)
    \/ LockNotify(h) \/ UnlockNotify(h)
    \/ SweepRead(h) \/ SweepEnd(h)

Event(h, s) ==
    \/ \E d \in Document : JoinStart(h, s, d)
    \/ LeaveStart(h, s)
    \/ Disconnect(h, s)
    \/ \E e \in Element : LockStart(h, s, e)
    \/ \E k \in Key : Unlock(h, s, k)

Tick ==
    \/ \E k \in Key : Expire(k)
    \/ \E g \in revoked : RunOut(g)
    \/ \E i \in Session : Age(i)

Next ==
    \/ \E h \in Handler : Continue(h) \/ cleanup_expired_locks(h)
    \/ \E h \in Handler, s \in Socket : Event(h, s)
    \/ \E s \in Socket : connect(s) \/ update_cursor(s)
    \/ \E s \in Socket, k \in Key : TtlFires(s, k)
    \/ Tick

Spec == Init /\ [][Next]_vars

\* Handlers run on, time passes, timers fire, and cleanup_task, which has an
\* asyncio task of its own, runs however busy the handlers are.
Fairness ==
    /\ \A h \in Handler : WF_vars(Continue(h))
    /\ \A k \in Key : WF_vars(Expire(k))
    /\ \A i \in Session : WF_vars(Age(i))
    /\ \A s \in Socket, k \in Key : WF_vars(TtlFires(s, k))
    /\ SF_vars(\E h \in Handler : cleanup_expired_locks(h))

FairSpec == Spec /\ Fairness

-----------------------------------------------------------------------------
(***************************************************************************)
(* Properties.                                                             *)
(***************************************************************************)

\* Type invariant: rows, client state and handlers stay in their domains.
TypeOK ==
    /\ conn \in [Socket -> {"new", "on", "gone"}]
    /\ joined \in [Socket -> Document \cup {None}]
    /\ rooms \in [Socket -> SUBSET Document]
    /\ sessions \in [Session -> SessionRow]
    /\ locks \in [Key -> LockRow]
    /\ greyed \in [Socket -> [Key -> User \cup {None}]]
    /\ timers \in [Socket -> SUBSET Key]
    /\ hs \in [Handler -> HandlerState]
    /\ granted \subseteq Socket \X Key
    /\ revoked \subseteq granted

\* A lock that was granted, has not run out and was not given back still has
\* its row, unless its session was ended: neither two acquire_lock calls that
\* read before either wrote, nor an extension that races a cleanup or a
\* release, nor another user's release leave a user with a lock it no longer
\* holds (class ElementLock: "Prevents concurrent edits to the same element").
GrantsBacked ==
    \A g \in granted \ revoked :
        locks[g[2]].live /\ locks[g[2]].user = UserOf[g[1]]

\* A handler in progress has its socket, and the document or the element that
\* it is about; a row has an id and a holder.
WellFormed(q) ==
    /\ q.pc \notin {"idle", "sweep", "swept"} => q.sid \in Socket
    /\ q.pc \in {"join", "reuse", "create", "enter"} => q.doc \in Document
    /\ q.pc \in {"lock", "extend", "insert", "locked", "unlocked"} => q.key \in Key

LocksIdentified ==
    /\ \A k \in Held : locks[k].id \in LockId /\ locks[k].user \in User
    /\ \A h \in Handler : hs[h].pc = "extend" => hs[h].id \in LockId

\* A handler that is about to extend a row cannot meet another row under its
\* id: what it finds is its user's.
ExtendsOwn ==
    \A h \in Handler :
        LET q == hs[h]
        IN  q.pc = "extend" /\ locks[q.key].id = q.id
                => locks[q.key].user = UserOf[q.sid]

\* The inductive invariant behind GrantsBacked.
GrantsInductive ==
    /\ TypeOK
    /\ \A h \in Handler : WellFormed(hs[h])
    /\ LocksIdentified
    /\ ExtendsOwn
    /\ GrantsBacked

\* A client that stays in the document shows an element as locked no longer than the lock
\* may live, in whatever order replays, grants and unlocks arrive, although nobody tells
\* it that a lock ran out (the TTL timer: "auto-unlock local depuis expires_at").  An
\* element that was grey when the page was unmounted has no timer left, and stays grey.
GreyRunsOut ==
    \A s \in Socket, k \in Key :
        greyed[s][k] # None /\ k \in timers[s]
            ~> \/ greyed[s][k] = None
               \/ joined[s] # k[1] \/ conn[s] = "gone"

\* No socket of user u is connected.
Away(u) == \A s \in Socket : UserOf[s] = u => conn[s] # "on"

\* A lock does not outlive its user for ever, however the session ended.
AbandonedLockFreed ==
    \A k \in Key, u \in User :
        locks[k].user = u /\ Away(u) ~> locks[k].user # u \/ ~Away(u)

\* A session does not outlive its socket for ever, even when the disconnect
\* handler raised or ran before the join had inserted the row.
AbandonedSessionEnds ==
    \A i \in Session, s \in Socket :
        sessions[i].active /\ sessions[i].socket = s /\ conn[s] = "gone"
            ~> ~sessions[i].active \/ sessions[i].socket # s

=============================================================================
