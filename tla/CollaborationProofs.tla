------------------------- MODULE CollaborationProofs -------------------------
(***************************************************************************)
(* Proofs about Collaboration, for any number of users, sockets, documents *)
(* elements and handlers in progress.                                      *)
(***************************************************************************)
EXTENDS Collaboration, FiniteSetTheorems, TLAPS

\* The inductive invariant in three parts, each disturbed by few actions: what
\* is known of clients and sessions, ...
ClientsOK ==
    /\ conn \in [Socket -> {"new", "on", "gone"}]
    /\ joined \in [Socket -> Document \cup {None}]
    /\ rooms \in [Socket -> SUBSET Document]
    /\ sessions \in [Session -> SessionRow]
    /\ greyed \in [Socket -> [Key -> User \cup {None}]]
    /\ timers \in [Socket -> SUBSET Key]

\* ... of the handlers in progress, ...
HandlersOK ==
    /\ hs \in [Handler -> HandlerState]
    /\ \A h \in Handler : WellFormed(hs[h])

\* ... and of the locks and what users were granted.
LocksOK ==
    /\ locks \in [Key -> LockRow]
    /\ granted \subseteq Socket \X Key
    /\ revoked \subseteq granted
    /\ LocksIdentified
    /\ ExtendsOwn
    /\ GrantsBacked

LEMMA Parts ==
    GrantsInductive <=> ClientsOK /\ HandlersOK /\ LocksOK
  BY DEF GrantsInductive, TypeOK, ClientsOK, HandlersOK, LocksOK

-----------------------------------------------------------------------------
(***************************************************************************)
(* Initial states.                                                         *)
(***************************************************************************)
LEMMA InitOK == Init => GrantsInductive
  <1>. SUFFICES ASSUME Init PROVE ClientsOK /\ HandlersOK /\ LocksOK
    BY Parts
  <1>. USE CollaborationAssumption DEF Init
  <1>1. ClientsOK
    BY DEF ClientsOK, SessionRow, NoSession
  <1>2. Idle \in HandlerState /\ WellFormed(Idle) /\ Idle.pc = "idle"
    BY DEF Idle, At, HandlerState, PC, WellFormed
  <1>3. HandlersOK
    BY <1>2 DEF HandlersOK
  <1>4. LocksOK
    <2>1. locks \in [Key -> LockRow]
      BY DEF LockRow, NoLock
    <2>2. LocksIdentified /\ ExtendsOwn
      BY <1>2 DEF LocksIdentified, ExtendsOwn, Held
    <2>. QED  BY <2>1, <2>2 DEF LocksOK, GrantsBacked
  <1>. QED  BY <1>1, <1>3, <1>4

-----------------------------------------------------------------------------
(***************************************************************************)
(* Clients and sessions.                                                   *)
(***************************************************************************)

\* handleElementLocked and handleElementUnlocked keep the client's types.
LEMMA ShowLockedType ==
    ASSUME ClientsOK, NEW P, NEW shown \in SUBSET (Key \X User), ShowLocked(P, shown)
    PROVE  /\ greyed' \in [Socket -> [Key -> User \cup {None}]]
           /\ timers' \in [Socket -> SUBSET Key]
  <1>. DEFINE Of(k) == {x[2] : x \in {y \in shown : y[1] = k}}
  <1>1. \A k \in Key : Of(k) \subseteq User
    OBVIOUS
  <1>2. \A k \in Key : Of(k) # {} => (CHOOSE u \in Of(k) : TRUE) \in User
    BY <1>1
  <1>3. {x[1] : x \in shown} \subseteq Key
    OBVIOUS
  <1>4. greyed' = [p \in Socket |-> [k \in Key |->
               IF p \in P /\ Of(k) # {} THEN CHOOSE u \in Of(k) : TRUE
                                        ELSE greyed[p][k]]]
    BY DEF ShowLocked
  <1>5. timers' = [p \in Socket |->
               IF p \in P THEN timers[p] \cup {x[1] : x \in shown} ELSE timers[p]]
    BY DEF ShowLocked
  <1>6. greyed' \in [Socket -> [Key -> User \cup {None}]]
    <2>. HIDE DEF Of
    <2>. QED  BY <1>2, <1>4 DEF ClientsOK
  <1>7. timers' \in [Socket -> SUBSET Key]
    BY <1>3, <1>5 DEF ClientsOK
  <1>. QED  BY <1>6, <1>7

LEMMA ShowUnlockedType ==
    ASSUME ClientsOK, NEW P, NEW K, ShowUnlocked(P, K)
    PROVE  /\ greyed' \in [Socket -> [Key -> User \cup {None}]]
           /\ timers' \in [Socket -> SUBSET Key]
  BY DEF ClientsOK, ShowUnlocked

\* A handler that raises changes nothing but its own state.
LEMMA RaiseQuiet ==
    ASSUME NEW h \in Handler, Raise(h)
    PROVE  /\ UNCHANGED <<conn, server, client, history>>
           /\ UNCHANGED <<conn, joined, rooms, sessions, greyed, timers>>
           /\ UNCHANGED <<locks, granted, revoked>>
           /\ Goto(h, Idle)
  BY DEF Raise, server, client, history

\* Every step of a handler keeps ClientsOK.
LEMMA ContinueClients ==
    ASSUME GrantsInductive, NEW h \in Handler, Continue(h)
    PROVE  ClientsOK'
  <1>. DEFINE q == hs[h]
  <1>0. ClientsOK /\ HandlersOK /\ LocksOK
    BY Parts
  <1>1. q \in HandlerState /\ WellFormed(q)
    BY <1>0 DEF HandlersOK
  <1>2. CASE UNCHANGED <<conn, joined, rooms, sessions, greyed, timers>>
    BY <1>0, <1>2 DEF ClientsOK
  <1>3. CASE JoinReuse(h)
    <2>1. q.sid \in Socket
      BY <1>1, <1>3 DEF JoinReuse, WellFormed
    <2>2. \A i \in Session :
             [sessions[i] EXCEPT !.socket = q.sid, !.stale = FALSE] \in SessionRow
      BY <1>0, <2>1 DEF ClientsOK, SessionRow
    <2>3. sessions' = [i \in Session |->
             IF i = q.row THEN [sessions[i] EXCEPT !.socket = q.sid, !.stale = FALSE]
                          ELSE sessions[i]]
      BY <1>0, <1>3 DEF JoinReuse, ClientsOK
    <2>4. sessions' \in [Session -> SessionRow]
      BY <1>0, <2>2, <2>3 DEF ClientsOK
    <2>. QED  BY <1>0, <1>3, <2>4 DEF JoinReuse, ClientsOK, client
  <1>4. ASSUME NEW i \in Session, JoinCreate(h, i) PROVE ClientsOK'
    <2>1. UserOf[q.sid] \in User /\ q.doc \in Document /\ q.sid \in Socket
      BY <1>1, <1>4, CollaborationAssumption DEF JoinCreate, WellFormed
    <2>. QED  BY <1>0, <1>4, <2>1 DEF JoinCreate, ClientsOK, client, SessionRow
  <1>5. CASE JoinEnter(h)
    <2>1. q.doc \in Document
      BY <1>1, <1>5 DEF JoinEnter, WellFormed
    <2>. QED  BY <1>0, <1>5, <2>1 DEF JoinEnter, ClientsOK, client
  <1>6. CASE JoinReplay(h)
    <2>1. q.shown \in SUBSET (Key \X User)
      BY <1>1 DEF HandlerState
    <2>2. /\ greyed' \in [Socket -> [Key -> User \cup {None}]]
          /\ timers' \in [Socket -> SUBSET Key]
      BY <1>0, <1>6, <2>1, ShowLockedType DEF JoinReplay
    <2>. QED  BY <1>0, <1>6, <2>2 DEF JoinReplay, ClientsOK, server
  <1>7. CASE LeaveRemove(h)
    BY <1>0, <1>7 DEF LeaveRemove, ClientsOK, client, SessionRow
  <1>8. CASE LeaveNotify(h)
    <2>1. /\ greyed' \in [Socket -> [Key -> User \cup {None}]]
          /\ timers' \in [Socket -> SUBSET Key]
      BY <1>0, <1>8, ShowUnlockedType DEF LeaveNotify
    <2>. QED  BY <1>0, <1>8, <2>1 DEF LeaveNotify, ClientsOK
  <1>9. CASE LockNotify(h)
    <2>1. q.sid \in Socket /\ q.key \in Key
      BY <1>1, <1>9 DEF LockNotify, WellFormed
    <2>2. {<<q.key, UserOf[q.sid]>>} \in SUBSET (Key \X User)
      BY <2>1, CollaborationAssumption
    <2>3. /\ greyed' \in [Socket -> [Key -> User \cup {None}]]
          /\ timers' \in [Socket -> SUBSET Key]
      BY <1>0, <1>9, <2>2, ShowLockedType DEF LockNotify
    <2>. QED  BY <1>0, <1>9, <2>3 DEF LockNotify, ClientsOK, server
  <1>10. CASE UnlockNotify(h)
    <2>1. /\ greyed' \in [Socket -> [Key -> User \cup {None}]]
          /\ timers' \in [Socket -> SUBSET Key]
      BY <1>0, <1>10, ShowUnlockedType DEF UnlockNotify
    <2>. QED  BY <1>0, <1>10, <2>1 DEF UnlockNotify, ClientsOK, server
  <1>11. CASE SweepEnd(h)
    BY <1>0, <1>11 DEF SweepEnd, ClientsOK, client, SessionRow
  <1>12. CASE \/ JoinRaises(h) \/ EnterRaises(h) \/ TooManyRows(h) \/ LeaveNotFound(h)
              \/ AcquireRefused(h) \/ ExtendRaises(h) \/ InsertRaises(h)
    BY <1>2, <1>12, RaiseQuiet
    DEF JoinRaises, EnterRaises, TooManyRows, LeaveNotFound, AcquireRefused,
        ExtendRaises, InsertRaises
  <1>13. CASE \/ JoinRead(h) \/ JoinList(h) \/ get_locked_element_ids(h) \/ LeaveFind(h)
              \/ AcquireRead(h) \/ AcquireExtend(h) \/ SweepRead(h)
              \/ \E id \in LockId : AcquireInsert(h, id)
    BY <1>2, <1>13
    DEF JoinRead, JoinList, get_locked_element_ids, LeaveFind, AcquireRead,
        AcquireExtend, SweepRead, AcquireInsert, server, client
  <1>. QED
    BY <1>3, <1>4, <1>5, <1>6, <1>7, <1>8, <1>9, <1>10, <1>11, <1>12, <1>13 DEF Continue

\* So does every other step.
LEMMA OtherClients ==
    ASSUME GrantsInductive, Next
    PROVE  ClientsOK' \/ \E h \in Handler : Continue(h)
  <1>0. ClientsOK
    BY Parts
  <1>1. ASSUME NEW h \in Handler, cleanup_expired_locks(h) PROVE ClientsOK'
    BY <1>0, <1>1 DEF cleanup_expired_locks, ClientsOK, client
  <1>2. ASSUME NEW h \in Handler, NEW s \in Socket, Event(h, s) PROVE ClientsOK'
    <2>1. ASSUME NEW d \in Document, JoinStart(h, s, d) PROVE ClientsOK'
      BY <1>0, <2>1 DEF JoinStart, ClientsOK, client
    <2>2. CASE LeaveStart(h, s)
      BY <1>0, <2>2 DEF LeaveStart, ClientsOK
    <2>3. CASE Disconnect(h, s)
      BY <1>0, <2>3 DEF Disconnect, ClientsOK
    <2>4. ASSUME NEW e \in Element, LockStart(h, s, e) PROVE ClientsOK'
      BY <1>0, <2>4 DEF LockStart, ClientsOK, client, server
    <2>5. ASSUME NEW k \in Key, Unlock(h, s, k) PROVE ClientsOK'
      BY <1>0, <2>5 DEF Unlock, ClientsOK, client
    <2>. QED  BY <1>2, <2>1, <2>2, <2>3, <2>4, <2>5 DEF Event
  <1>3. ASSUME NEW s \in Socket, connect(s) PROVE ClientsOK'
    BY <1>0, <1>3 DEF connect, ClientsOK, client, server
  <1>4. ASSUME NEW s \in Socket, update_cursor(s) PROVE ClientsOK'
    BY <1>0, <1>4 DEF update_cursor, ClientsOK, client, SessionRow
  <1>5. ASSUME NEW s \in Socket, NEW k \in Key, TtlFires(s, k) PROVE ClientsOK'
    <2>1. /\ greyed' \in [Socket -> [Key -> User \cup {None}]]
          /\ timers' \in [Socket -> SUBSET Key]
      BY <1>0, <1>5, ShowUnlockedType DEF TtlFires
    <2>. QED  BY <1>0, <1>5, <2>1 DEF TtlFires, ClientsOK, server
  <1>6. CASE Tick
    <2>1. ASSUME NEW i \in Session, Age(i) PROVE ClientsOK'
      BY <1>0, <2>1 DEF Age, ClientsOK, client, SessionRow
    <2>2. ASSUME NEW k \in Key, Expire(k) PROVE ClientsOK'
      BY <1>0, <2>2 DEF Expire, ClientsOK, client
    <2>3. ASSUME NEW g \in revoked, RunOut(g) PROVE ClientsOK'
      BY <1>0, <2>3 DEF RunOut, ClientsOK, client, server
    <2>. QED  BY <1>6, <2>1, <2>2, <2>3 DEF Tick
  <1>. QED  BY <1>1, <1>2, <1>3, <1>4, <1>5, <1>6 DEF Next

-----------------------------------------------------------------------------
(***************************************************************************)
(* Handlers.                                                               *)
(***************************************************************************)

\* Moving one handler to a good state keeps them all good.
LEMMA Moves ==
    ASSUME HandlersOK, NEW h \in Handler, NEW state \in HandlerState,
           WellFormed(state), Goto(h, state)
    PROVE  HandlersOK'
  BY DEF HandlersOK, Goto, WellFormed

LEMMA Idles ==
    ASSUME HandlersOK, NEW h \in Handler, Goto(h, Idle)
    PROVE  HandlersOK'
  <1>1. Idle \in HandlerState /\ WellFormed(Idle)
    BY DEF Idle, At, HandlerState, PC, WellFormed
  <1>. QED  BY <1>1, Moves

\* A row that is there names its holder.
LEMMA ShownTypes ==
    ASSUME LocksOK, NEW K, K \subseteq Held
    PROVE  {<<k, locks[k].user>> : k \in K} \in SUBSET (Key \X User)
  BY DEF LocksOK, LocksIdentified, Held

LEMMA ContinueHandlers ==
    ASSUME GrantsInductive, NEW h \in Handler, Continue(h)
    PROVE  HandlersOK'
  <1>. DEFINE q == hs[h]
  <1>0. ClientsOK /\ HandlersOK /\ LocksOK
    BY Parts
  <1>1. q \in HandlerState /\ WellFormed(q)
    BY <1>0 DEF HandlersOK
  <1>2. ASSUME NEW state \in HandlerState, WellFormed(state), Goto(h, state)
        PROVE  HandlersOK'
    BY <1>0, <1>2, Moves
  <1>3. CASE JoinRead(h)
    <2>0. q.pc = "join" /\ q.sid \in Socket /\ q.doc \in Document
      BY <1>1, <1>3 DEF JoinRead, WellFormed
    <2>1. /\ [q EXCEPT !.pc = "create"] \in HandlerState
          /\ WellFormed([q EXCEPT !.pc = "create"])
      BY <1>1, <2>0 DEF HandlerState, PC, WellFormed
    <2>2. \A i \in Session :
             /\ [q EXCEPT !.pc = "reuse", !.row = i] \in HandlerState
             /\ WellFormed([q EXCEPT !.pc = "reuse", !.row = i])
      BY <1>1, <2>0 DEF HandlerState, PC, WellFormed
    <2>3. OwnRows(q) \subseteq Session
      BY DEF OwnRows, ActiveRows, Rows
    <2>. QED  BY <1>2, <1>3, <2>1, <2>2, <2>3 DEF JoinRead
  <1>4. ASSUME \/ JoinReuse(h) \/ \E i \in Session : JoinCreate(h, i)
        PROVE  HandlersOK'
    <2>0. q.sid \in Socket /\ q.doc \in Document
      BY <1>1, <1>4 DEF JoinReuse, JoinCreate, WellFormed
    <2>1. At("enter", q.sid, q.doc) \in HandlerState /\ WellFormed(At("enter", q.sid, q.doc))
      BY <2>0 DEF At, HandlerState, PC, WellFormed
    <2>. QED  BY <1>2, <1>4, <2>1 DEF JoinReuse, JoinCreate
  <1>5. CASE JoinEnter(h)
    <2>0. q.sid \in Socket /\ q.doc \in Document
      BY <1>1, <1>5 DEF JoinEnter, WellFormed
    <2>1. At("list", q.sid, q.doc) \in HandlerState /\ WellFormed(At("list", q.sid, q.doc))
      BY <2>0 DEF At, HandlerState, PC, WellFormed
    <2>. QED  BY <1>2, <1>5, <2>1 DEF JoinEnter
  <1>6. CASE JoinList(h)
    <2>. DEFINE K == {k \in Held : k[1] = q.doc}
                shown == {<<k, locks[k].user>> : k \in K \ Expired}
    <2>0. q.sid \in Socket
      BY <1>1, <1>6 DEF JoinList, WellFormed
    <2>1. shown \in SUBSET (Key \X User)
      BY <1>0, ShownTypes
    <2>2. Goto(h, [q EXCEPT !.pc = "replay", !.shown = shown])
      BY <1>6 DEF JoinList
    <2>. HIDE DEF shown
    <2>3. /\ [q EXCEPT !.pc = "replay", !.shown = shown] \in HandlerState
          /\ WellFormed([q EXCEPT !.pc = "replay", !.shown = shown])
      BY <1>1, <2>0, <2>1 DEF HandlerState, PC, WellFormed
    <2>. QED  BY <1>2, <2>2, <2>3
  <1>7. CASE get_locked_element_ids(h)
    <2>. DEFINE K == UNION {LocksOf(i) : i \in RowsOfSocket(q.sid)}
                shown == {<<k, locks[k].user>> : k \in K}
    <2>0. q.sid \in Socket
      BY <1>1, <1>7 DEF get_locked_element_ids, WellFormed
    <2>1. K \subseteq Held
      BY DEF LocksOf
    <2>2. shown \in SUBSET (Key \X User)
      BY <1>0, <2>1, ShownTypes
    <2>3. Goto(h, [q EXCEPT !.pc = "find", !.shown = shown])
      BY <1>7 DEF get_locked_element_ids
    <2>. HIDE DEF shown
    <2>4. /\ [q EXCEPT !.pc = "find", !.shown = shown] \in HandlerState
          /\ WellFormed([q EXCEPT !.pc = "find", !.shown = shown])
      BY <1>1, <2>0, <2>2 DEF HandlerState, PC, WellFormed
    <2>. QED  BY <1>2, <2>3, <2>4
  <1>8. CASE LeaveFind(h)
    <2>0. q.sid \in Socket
      BY <1>1, <1>8 DEF LeaveFind, WellFormed
    <2>1. \A i \in Session :
             /\ [q EXCEPT !.pc = "remove", !.row = i] \in HandlerState
             /\ WellFormed([q EXCEPT !.pc = "remove", !.row = i])
      BY <1>1, <2>0 DEF HandlerState, PC, WellFormed
    <2>. QED  BY <1>2, <1>8, <2>1 DEF LeaveFind, Rows
  <1>9. CASE LeaveRemove(h)
    <2>0. q.sid \in Socket
      BY <1>1, <1>9 DEF LeaveRemove, WellFormed
    <2>1. /\ [q EXCEPT !.pc = "left", !.row = None] \in HandlerState
          /\ WellFormed([q EXCEPT !.pc = "left", !.row = None])
      BY <1>1, <2>0 DEF HandlerState, PC, WellFormed
    <2>. QED  BY <1>2, <1>9, <2>1 DEF LeaveRemove
  <1>10. CASE AcquireRead(h)
    <2>0. q.sid \in Socket /\ q.key \in Key
      BY <1>1, <1>10 DEF AcquireRead, WellFormed
    <2>1. locks[q.key].id \in LockId \cup {None}
      BY <1>0, <2>0 DEF LocksOK, LockRow
    <2>2. /\ [q EXCEPT !.pc = "insert"] \in HandlerState
          /\ WellFormed([q EXCEPT !.pc = "insert"])
      BY <1>1, <2>0 DEF HandlerState, PC, WellFormed
    <2>3. \A i \in LockId \cup {None} :
             /\ [q EXCEPT !.pc = "extend", !.id = i] \in HandlerState
             /\ WellFormed([q EXCEPT !.pc = "extend", !.id = i])
      BY <1>1, <2>0 DEF HandlerState, PC, WellFormed
    <2>. QED  BY <1>2, <1>10, <2>1, <2>2, <2>3 DEF AcquireRead
  <1>11. CASE AcquireExtend(h) \/ \E id \in LockId : AcquireInsert(h, id)
    <2>0. q.sid \in Socket /\ q.key \in Key
      BY <1>1, <1>11 DEF AcquireExtend, AcquireInsert, WellFormed
    <2>1. /\ [q EXCEPT !.pc = "locked", !.row = None, !.id = None] \in HandlerState
          /\ WellFormed([q EXCEPT !.pc = "locked", !.row = None, !.id = None])
      BY <1>1, <2>0 DEF HandlerState, PC, WellFormed
    <2>. QED  BY <1>2, <1>11, <2>1 DEF AcquireExtend, AcquireInsert
  <1>12. CASE SweepRead(h)
    <2>. DEFINE S == {i \in Rows : sessions[i].active /\ sessions[i].stale}
                state == [At("swept", None, None) EXCEPT !.rows = S]
    <2>1. S \subseteq Session
      BY DEF Rows
    <2>2. state \in HandlerState /\ WellFormed(state)
      <3>. HIDE DEF S
      <3>. QED  BY <2>1 DEF At, HandlerState, PC, WellFormed
    <2>3. Goto(h, state)
      BY <1>12 DEF SweepRead
    <2>. QED  BY <1>2, <2>2, <2>3
  <1>13. CASE JoinReplay(h) \/ LeaveNotify(h) \/ LockNotify(h) \/ UnlockNotify(h) \/ SweepEnd(h)
    BY <1>0, <1>13, Idles DEF JoinReplay, LeaveNotify, LockNotify, UnlockNotify, SweepEnd
  <1>14. CASE \/ JoinRaises(h) \/ EnterRaises(h) \/ TooManyRows(h) \/ LeaveNotFound(h)
              \/ AcquireRefused(h) \/ ExtendRaises(h) \/ InsertRaises(h)
    BY <1>0, <1>14, RaiseQuiet, Idles
    DEF JoinRaises, EnterRaises, TooManyRows, LeaveNotFound, AcquireRefused,
        ExtendRaises, InsertRaises
  <1>. QED
    BY <1>3, <1>4, <1>5, <1>6, <1>7, <1>8, <1>9, <1>10, <1>11, <1>12, <1>13, <1>14
    DEF Continue

\* The first step of a handler, and the steps that belong to none.
LEMMA EventHandlers ==
    ASSUME GrantsInductive, NEW h \in Handler, NEW s \in Socket, Event(h, s)
    PROVE  HandlersOK'
  <1>0. ClientsOK /\ HandlersOK /\ LocksOK
    BY Parts
  <1>1. ASSUME NEW state \in HandlerState, WellFormed(state), Goto(h, state)
        PROVE  HandlersOK'
    BY <1>0, <1>1, Moves
  <1>2. joined[s] # None => joined[s] \in Document
    BY <1>0 DEF ClientsOK
  <1>3. \A d \in Document : At("join", s, d) \in HandlerState /\ WellFormed(At("join", s, d))
    BY DEF At, HandlerState, PC, WellFormed
  <1>4. joined[s] # None => /\ At("held", s, joined[s]) \in HandlerState
                            /\ WellFormed(At("held", s, joined[s]))
    BY <1>2 DEF At, HandlerState, PC, WellFormed
  <1>5. ASSUME NEW d \in Document, JoinStart(h, s, d) PROVE HandlersOK'
    BY <1>1, <1>3, <1>5 DEF JoinStart
  <1>6. CASE LeaveStart(h, s)
    BY <1>1, <1>4, <1>6 DEF LeaveStart
  <1>7. CASE Disconnect(h, s)
    <2>1. CASE joined[s] = None
      BY <1>0, <1>7, <2>1 DEF Disconnect, HandlersOK
    <2>. QED  BY <1>1, <1>4, <1>7, <2>1 DEF Disconnect
  <1>8. ASSUME NEW e \in Element, LockStart(h, s, e) PROVE HandlersOK'
    <2>. DEFINE state(i) == [At("lock", s, joined[s]) EXCEPT !.key = <<joined[s], e>>, !.row = i]
    <2>1. joined[s] \in Document
      BY <1>2, <1>8 DEF LockStart
    <2>2. <<joined[s], e>> \in Key
      BY <2>1 DEF Key
    <2>3. \A i \in Session : state(i) \in HandlerState /\ WellFormed(state(i))
      BY <2>1, <2>2 DEF At, HandlerState, PC, WellFormed
    <2>4. PICK i \in Session : Goto(h, state(i))
      BY <1>8 DEF LockStart, ActiveRows, Rows
    <2>. QED  BY <1>1, <2>3, <2>4
  <1>9. ASSUME NEW k \in Key, Unlock(h, s, k) PROVE HandlersOK'
    <2>. DEFINE state == [At("unlocked", s, joined[s]) EXCEPT !.key = k]
    <2>1. joined[s] \in Document \cup {None}
      BY <1>0 DEF ClientsOK
    <2>2. state \in HandlerState /\ WellFormed(state)
      BY <2>1 DEF At, HandlerState, PC, WellFormed
    <2>3. Goto(h, state)
      BY <1>9 DEF Unlock
    <2>. QED  BY <1>1, <2>2, <2>3
  <1>. QED  BY <1>5, <1>6, <1>7, <1>8, <1>9 DEF Event

LEMMA NextHandlers ==
    ASSUME GrantsInductive, Next
    PROVE  HandlersOK'
  <1>0. HandlersOK
    BY Parts
  <1>1. ASSUME NEW h \in Handler, cleanup_expired_locks(h) PROVE HandlersOK'
    <2>1. At("sweep", None, None) \in HandlerState /\ WellFormed(At("sweep", None, None))
      BY DEF At, HandlerState, PC, WellFormed
    <2>. QED  BY <1>0, <1>1, <2>1, Moves DEF cleanup_expired_locks
  <1>2. CASE UNCHANGED hs
    BY <1>0, <1>2 DEF HandlersOK
  <1>3. CASE \/ \E s \in Socket : connect(s) \/ update_cursor(s)
             \/ \E s \in Socket, k \in Key : TtlFires(s, k)
             \/ Tick
    BY <1>2, <1>3 DEF connect, update_cursor, TtlFires, Tick, Expire, RunOut, Age
  <1>. QED  BY <1>1, <1>3, ContinueHandlers, EventHandlers DEF Next

-----------------------------------------------------------------------------
(***************************************************************************)
(* Locks.                                                                  *)
(***************************************************************************)

\* hs' differs from hs at h alone, where no extension begins.
NoneExtends(h) ==
    \A g \in Handler : hs'[g] = hs[g] \/ (g = h /\ hs'[g].pc # "extend")

\* A handler that leaves the locks and the grants alone, or drops grants.
LEMMA LocksStay ==
    ASSUME LocksOK, NEW h, NoneExtends(h), UNCHANGED locks,
           granted' \subseteq granted, revoked' = revoked \cap granted'
    PROVE  LocksOK'
  <1>1. LocksIdentified'
    BY DEF LocksOK, LocksIdentified, Held, NoneExtends
  <1>2. ExtendsOwn'
    BY DEF LocksOK, ExtendsOwn, NoneExtends
  <1>3. GrantsBacked'
    BY DEF LocksOK, GrantsBacked
  <1>. QED  BY <1>1, <1>2, <1>3 DEF LocksOK

\* Rows of K are deleted: no grant that counts is left on them.
LEMMA LocksDeleted ==
    ASSUME LocksOK, HandlersOK, NEW h, NoneExtends(h), NEW K \in SUBSET Key, locks' = Without(K),
           granted' \subseteq granted, revoked' \subseteq granted',
           revoked \cap granted' \subseteq revoked',
           \A g \in granted' \ revoked' : g[2] \notin K
    PROVE  LocksOK'
  <1>0. \A k \in Key : locks'[k] = IF k \in K THEN NoLock ELSE locks[k]
    BY DEF Without
  <1>1. NoLock \in LockRow /\ NoLock.id = None
    BY DEF NoLock, LockRow
  <1>2. locks' \in [Key -> LockRow]
    BY <1>1 DEF LocksOK, Without
  <1>3. LocksIdentified'
    BY <1>0 DEF LocksOK, LocksIdentified, Held, NoneExtends
  <1>4. ExtendsOwn'
    <2>. SUFFICES ASSUME NEW g \in Handler, hs'[g].pc = "extend",
                         locks'[hs'[g].key].id = hs'[g].id
                  PROVE  locks'[hs'[g].key].user = UserOf[hs'[g].sid]
      BY DEF ExtendsOwn
    <2>1. hs'[g] = hs[g]
      BY DEF NoneExtends
    <2>2. hs[g].id \in LockId
      BY <2>1 DEF LocksOK, LocksIdentified
    <2>3. CASE hs[g].key \in K
      BY <1>0, <1>1, <2>1, <2>2, <2>3, CollaborationAssumption
    <2>4. CASE hs[g].key \notin K /\ hs[g].key \in Key
      BY <1>0, <2>1, <2>4 DEF LocksOK, ExtendsOwn
    <2>5. hs[g].key \in Key
      BY <2>1 DEF HandlersOK, WellFormed
    <2>. QED  BY <2>1, <2>3, <2>4, <2>5
  <1>5. GrantsBacked'
    <2>. SUFFICES ASSUME NEW g \in granted' \ revoked'
                  PROVE  locks'[g[2]].live /\ locks'[g[2]].user = UserOf[g[1]]
      BY DEF GrantsBacked
    <2>1. g \in granted \ revoked /\ g[2] \notin K /\ g[2] \in Key
      BY DEF LocksOK
    <2>. QED  BY <1>0, <2>1 DEF LocksOK, GrantsBacked
  <1>. QED  BY <1>2, <1>3, <1>4, <1>5 DEF LocksOK

\* The rows that are deleted with a session are marked as revoked.
LEMMA LocksRevoked ==
    ASSUME LocksOK, HandlersOK, NEW h, NoneExtends(h), NEW K \in SUBSET Key, Revoke(K)
    PROVE  LocksOK'
  <1>1. locks' = Without(K) /\ granted' = granted
    BY DEF Revoke
  <1>2. revoked' \subseteq granted' /\ revoked \cap granted' \subseteq revoked'
    BY DEF Revoke, LocksOK
  <1>3. \A g \in granted' \ revoked' : g[2] \notin K
    BY DEF Revoke, LocksOK, GrantsBacked
  <1>. QED  BY <1>1, <1>2, <1>3, LocksDeleted

\* The rows that are deleted because they expired back no grant.
LEMMA LocksExpired ==
    ASSUME LocksOK, HandlersOK, NEW h, NoneExtends(h), NEW K \in SUBSET Expired,
           locks' = Without(K), UNCHANGED <<granted, revoked>>
    PROVE  LocksOK'
  <1>1. K \in SUBSET Key
    BY DEF Expired, Held
  <1>2. \A g \in granted' \ revoked' : g[2] \notin K
    BY DEF LocksOK, GrantsBacked, Expired
  <1>3. revoked' \subseteq granted' /\ revoked \cap granted' \subseteq revoked'
    BY DEF LocksOK
  <1>. QED  BY <1>1, <1>2, <1>3, LocksDeleted

\* A handler that goes anywhere but to an extension.
LEMMA GotoNoneExtends ==
    ASSUME HandlersOK, NEW h \in Handler, NEW state, state.pc # "extend", Goto(h, state)
    PROVE  NoneExtends(h)
  <1>1. hs'[h] = state /\ \A g \in Handler \ {h} : hs'[g] = hs[g]
    BY DEF HandlersOK, Goto
  <1>. QED  BY <1>1 DEF NoneExtends

\* acquire_lock, which reads ...
LEMMA AcquireReadLocks ==
    ASSUME LocksOK, HandlersOK, NEW h \in Handler, AcquireRead(h)
    PROVE  LocksOK'
  <1>. DEFINE q == hs[h]
  <1>0. q \in HandlerState /\ q.key \in Key /\ UNCHANGED <<locks, granted, revoked>>
    BY DEF AcquireRead, HandlersOK, WellFormed, server, history
  <1>1. CASE NoneExtends(h)
    BY <1>0, <1>1, LocksStay DEF LocksOK
  <1>2. CASE /\ locks[q.key].live /\ locks[q.key].user = UserOf[q.sid]
             /\ Goto(h, [q EXCEPT !.pc = "extend", !.id = locks[q.key].id])
    <2>1. /\ hs'[h].id = locks[q.key].id /\ hs'[h].key = q.key /\ hs'[h].sid = q.sid
          /\ \A g \in Handler \ {h} : hs'[g] = hs[g]
      BY <1>0, <1>2 DEF Goto, HandlersOK, HandlerState
    <2>2. q.key \in Held
      BY <1>0, <1>2 DEF Held, NoLock
    <2>3. LocksIdentified'
      BY <1>0, <2>1, <2>2 DEF LocksOK, LocksIdentified, Held
    <2>4. ExtendsOwn'
      BY <1>0, <1>2, <2>1 DEF LocksOK, ExtendsOwn
    <2>5. GrantsBacked'
      BY <1>0 DEF LocksOK, GrantsBacked
    <2>. QED  BY <1>0, <2>3, <2>4, <2>5 DEF LocksOK
  <1>3. CASE Goto(h, [q EXCEPT !.pc = "insert"])
    <2>1. [q EXCEPT !.pc = "insert"].pc # "extend"
      BY <1>0 DEF HandlerState
    <2>. QED  BY <1>1, <1>3, <2>1, GotoNoneExtends
  <1>. QED  BY <1>2, <1>3 DEF AcquireRead

\* ... extends the row that it has read, if it is still there ...
LEMMA AcquireExtendLocks ==
    ASSUME LocksOK, HandlersOK, NEW h \in Handler, AcquireExtend(h)
    PROVE  LocksOK'
  <1>. DEFINE q == hs[h]
  <1>0. q \in HandlerState /\ q.key \in Key /\ q.sid \in Socket
    BY DEF AcquireExtend, HandlersOK, WellFormed
  <1>1. NoneExtends(h)
    <2>1. [q EXCEPT !.pc = "locked", !.row = None, !.id = None].pc # "extend"
      BY <1>0 DEF HandlerState
    <2>. QED  BY <2>1, GotoNoneExtends DEF AcquireExtend
  <1>2. /\ locks[q.key].id \in LockId
        /\ locks[q.key].user = UserOf[q.sid]
    BY DEF AcquireExtend, LocksOK, LocksIdentified, ExtendsOwn
  <1>3. /\ locks' \in [Key -> LockRow]
        /\ \A k \in Key : /\ locks'[k].id = locks[k].id
                          /\ locks'[k].user = locks[k].user
                          /\ locks'[k].live = (locks[k].live \/ k = q.key)
    BY <1>0 DEF AcquireExtend, LocksOK, LockRow
  <1>4. LocksIdentified'
    <2>1. \A k \in Key : k # q.key => locks'[k] = locks[k]
      BY <1>0 DEF AcquireExtend, LocksOK
    <2>2. q.key \in Held
      BY <1>0, <1>2, CollaborationAssumption DEF Held, NoLock
    <2>3. \A k \in Held' : k \in Held
      BY <2>1, <2>2 DEF Held
    <2>. QED  BY <1>1, <1>3, <2>3 DEF LocksOK, LocksIdentified, NoneExtends, Held
  <1>5. ExtendsOwn'
    <2>1. \A g \in Handler : hs'[g].pc = "extend" => hs'[g] = hs[g] /\ hs[g].key \in Key
      BY <1>1 DEF NoneExtends, HandlersOK, WellFormed
    <2>. QED  BY <1>3, <2>1 DEF LocksOK, ExtendsOwn
  <1>6. /\ granted' \subseteq granted \cup {<<q.sid, q.key>>}
        /\ revoked' = revoked \ {<<q.sid, q.key>>}
        /\ granted \subseteq granted'
    BY DEF AcquireExtend, Grant
  <1>7. GrantsBacked'
    <2>. SUFFICES ASSUME NEW g \in granted' \ revoked'
                  PROVE  locks'[g[2]].live /\ locks'[g[2]].user = UserOf[g[1]]
      BY DEF GrantsBacked
    <2>1. CASE g = <<q.sid, q.key>>
      BY <1>0, <1>2, <1>3, <2>1
    <2>2. CASE g # <<q.sid, q.key>>
      BY <1>3, <1>6, <2>2 DEF LocksOK, GrantsBacked
    <2>. QED  BY <2>1, <2>2
  <1>8. granted' \subseteq Socket \X Key /\ revoked' \subseteq granted'
    BY <1>0, <1>6 DEF LocksOK
  <1>. QED  BY <1>3, <1>4, <1>5, <1>7, <1>8 DEF LocksOK

\* ... or inserts a row where there is none, under an id that nobody knows.
LEMMA AcquireInsertLocks ==
    ASSUME LocksOK, HandlersOK, NEW h \in Handler, NEW id \in LockId, AcquireInsert(h, id)
    PROVE  LocksOK'
  <1>. DEFINE q == hs[h]
              new == [id |-> id, user |-> UserOf[q.sid], session |-> q.row, live |-> TRUE]
  <1>0. q \in HandlerState /\ q.key \in Key /\ q.sid \in Socket /\ UserOf[q.sid] \in User
    BY CollaborationAssumption DEF AcquireInsert, HandlersOK, WellFormed
  <1>1. NoneExtends(h)
    <2>1. [q EXCEPT !.pc = "locked", !.row = None, !.id = None].pc # "extend"
      BY <1>0 DEF HandlerState
    <2>. QED  BY <2>1, GotoNoneExtends DEF AcquireInsert
  <1>2. /\ locks' \in [Key -> LockRow]
        /\ locks'[q.key] = new
        /\ \A k \in Key \ {q.key} : locks'[k] = locks[k]
    <2>1. new \in LockRow
      BY <1>0 DEF LockRow, HandlerState
    <2>2. locks' = [locks EXCEPT ![q.key] = new]
      BY DEF AcquireInsert
    <2>. HIDE DEF new
    <2>. QED  BY <1>0, <2>1, <2>2 DEF LocksOK
  <1>3. LocksIdentified'
    BY <1>0, <1>1, <1>2 DEF LocksOK, LocksIdentified, NoneExtends, Held
  <1>4. ExtendsOwn'
    <2>. SUFFICES ASSUME NEW g \in Handler, hs'[g].pc = "extend",
                         locks'[hs'[g].key].id = hs'[g].id
                  PROVE  locks'[hs'[g].key].user = UserOf[hs'[g].sid]
      BY DEF ExtendsOwn
    <2>1. hs'[g] = hs[g] /\ hs[g].key \in Key
      BY <1>1 DEF NoneExtends, HandlersOK, WellFormed
    <2>2. hs[g].id # id
      BY DEF AcquireInsert, InUse
    <2>3. hs[g].key # q.key
      BY <1>2, <2>1, <2>2
    <2>. QED  BY <1>2, <2>1, <2>3 DEF LocksOK, ExtendsOwn
  <1>5. /\ granted' \subseteq granted \cup {<<q.sid, q.key>>}
        /\ revoked' = revoked \ {<<q.sid, q.key>>}
        /\ granted \subseteq granted'
    BY DEF AcquireInsert, Grant
  <1>6. GrantsBacked'
    <2>. SUFFICES ASSUME NEW g \in granted' \ revoked'
                  PROVE  locks'[g[2]].live /\ locks'[g[2]].user = UserOf[g[1]]
      BY DEF GrantsBacked
    <2>1. CASE g = <<q.sid, q.key>>
      BY <1>0, <1>2, <2>1
    <2>2. CASE g # <<q.sid, q.key>>
      <3>1. g \in granted \ revoked /\ g[2] \in Key
        BY <1>5, <2>2 DEF LocksOK
      <3>2. ~NoLock.live /\ locks[q.key] = NoLock
        BY DEF NoLock, AcquireInsert, MayInsert
      <3>3. g[2] # q.key
        BY <3>1, <3>2 DEF LocksOK, GrantsBacked
      <3>. QED  BY <1>2, <3>1, <3>3 DEF LocksOK, GrantsBacked
    <2>. QED  BY <2>1, <2>2
  <1>7. granted' \subseteq Socket \X Key /\ revoked' \subseteq granted'
    BY <1>0, <1>5 DEF LocksOK
  <1>. QED  BY <1>2, <1>3, <1>4, <1>6, <1>7 DEF LocksOK

\* A lock expires together with the grants of its holder.
LEMMA ExpireLocks ==
    ASSUME LocksOK, HandlersOK, NEW k \in Key, Expire(k)
    PROVE  LocksOK'
  <1>0. hs' = hs /\ locks' = [locks EXCEPT ![k].live = FALSE]
    BY DEF Expire
  <1>1. /\ locks' \in [Key -> LockRow]
        /\ \A j \in Key : locks'[j].id = locks[j].id /\ locks'[j].user = locks[j].user
        /\ \A j \in Key \ {k} : locks'[j] = locks[j]
    BY <1>0 DEF LocksOK, LockRow
  <1>2. LocksIdentified'
    <2>1. k \in Held
      BY DEF Expire, Held, NoLock
    <2>2. \A j \in Held' : j \in Held
      BY <1>1, <2>1 DEF Held
    <2>. QED  BY <1>0, <1>1, <2>2 DEF LocksOK, LocksIdentified, Held
  <1>3. ExtendsOwn'
    <2>1. \A g \in Handler : hs[g].pc = "extend" => hs[g].key \in Key
      BY DEF HandlersOK, WellFormed
    <2>. QED  BY <1>0, <1>1, <2>1 DEF LocksOK, ExtendsOwn
  <1>4. granted' = granted \ OfUser(locks[k].user, k) /\ revoked' = revoked \ OfUser(locks[k].user, k)
    BY DEF Expire, Drop
  <1>5. GrantsBacked'
    <2>. SUFFICES ASSUME NEW g \in granted' \ revoked'
                  PROVE  locks'[g[2]].live /\ locks'[g[2]].user = UserOf[g[1]]
      BY DEF GrantsBacked
    <2>1. g \in granted \ revoked /\ g[2] \in Key
      BY <1>4 DEF LocksOK
    <2>2. g[2] # k
      BY <1>4, <2>1 DEF LocksOK, GrantsBacked, OfUser
    <2>. QED  BY <1>1, <2>1, <2>2 DEF LocksOK, GrantsBacked
  <1>6. granted' \subseteq Socket \X Key /\ revoked' \subseteq granted'
    BY <1>4 DEF LocksOK
  <1>. QED  BY <1>1, <1>2, <1>3, <1>5, <1>6 DEF LocksOK

\* Every step of a handler keeps the locks in order.
LEMMA ContinueLocks ==
    ASSUME LocksOK, HandlersOK, NEW h \in Handler, Continue(h)
    PROVE  LocksOK'
  <1>. DEFINE q == hs[h]
  <1>0. q \in HandlerState
    BY DEF HandlersOK
  <1>1. Idle.pc # "extend"
    BY DEF Idle, At
  <1>2. ASSUME NEW state, state.pc # "extend", Goto(h, state),
               UNCHANGED <<locks, granted, revoked>>
        PROVE  LocksOK'
    <2>1. NoneExtends(h)
      BY <1>2, GotoNoneExtends
    <2>. QED  BY <1>2, <2>1, LocksStay DEF LocksOK
  <1>3. CASE \/ JoinRaises(h) \/ EnterRaises(h) \/ TooManyRows(h) \/ LeaveNotFound(h)
             \/ AcquireRefused(h) \/ ExtendRaises(h) \/ InsertRaises(h)
    BY <1>1, <1>2, <1>3, RaiseQuiet
    DEF JoinRaises, EnterRaises, TooManyRows, LeaveNotFound, AcquireRefused,
        ExtendRaises, InsertRaises
  <1>4. CASE JoinReplay(h) \/ LeaveNotify(h) \/ LockNotify(h) \/ UnlockNotify(h)
    BY <1>1, <1>2, <1>4
    DEF JoinReplay, LeaveNotify, LockNotify, UnlockNotify, server, history
  <1>5. CASE JoinRead(h)
    <2>1. /\ [q EXCEPT !.pc = "create"].pc # "extend"
          /\ \A i : [q EXCEPT !.pc = "reuse", !.row = i].pc # "extend"
      BY <1>0 DEF HandlerState
    <2>. QED  BY <1>2, <1>5, <2>1 DEF JoinRead, server, history
  <1>6. CASE JoinReuse(h) \/ (\E i \in Session : JoinCreate(h, i)) \/ JoinEnter(h)
    <2>1. \A s, d : At("enter", s, d).pc # "extend" /\ At("list", s, d).pc # "extend"
      BY DEF At
    <2>. QED  BY <1>2, <1>6, <2>1 DEF JoinReuse, JoinCreate, JoinEnter, history
  <1>7. CASE JoinList(h)
    <2>. DEFINE K == {k \in Held : k[1] = q.doc}
                state == [q EXCEPT !.pc = "replay",
                             !.shown = {<<k, locks[k].user>> : k \in K \ Expired}]
    <2>1. state.pc # "extend"
      BY <1>0 DEF HandlerState
    <2>2. Goto(h, state) /\ locks' = Without(K \cap Expired) /\ UNCHANGED <<granted, revoked>>
      BY <1>7 DEF JoinList, history
    <2>3. NoneExtends(h)
      <3>. HIDE DEF state
      <3>. QED  BY <2>1, <2>2, GotoNoneExtends
    <2>. QED  BY <2>2, <2>3, LocksExpired
  <1>8. CASE get_locked_element_ids(h)
    <2>. DEFINE state == [q EXCEPT !.pc = "find",
               !.shown = {<<k, locks[k].user>> :
                             k \in UNION {LocksOf(i) : i \in RowsOfSocket(q.sid)}}]
    <2>1. state.pc # "extend"
      BY <1>0 DEF HandlerState
    <2>2. Goto(h, state) /\ UNCHANGED <<locks, granted, revoked>>
      BY <1>8 DEF get_locked_element_ids, server, history
    <2>. HIDE DEF state
    <2>. QED  BY <1>2, <2>1, <2>2
  <1>9. CASE LeaveFind(h)
    <2>1. \A i : [q EXCEPT !.pc = "remove", !.row = i].pc # "extend"
      BY <1>0 DEF HandlerState
    <2>. QED  BY <1>2, <1>9, <2>1 DEF LeaveFind, server, history
  <1>10. CASE LeaveRemove(h)
    <2>1. [q EXCEPT !.pc = "left", !.row = None].pc # "extend"
      BY <1>0 DEF HandlerState
    <2>2. NoneExtends(h)
      BY <1>10, <2>1, GotoNoneExtends DEF LeaveRemove
    <2>3. LocksOf(q.row) \in SUBSET Key /\ Revoke(LocksOf(q.row))
      BY <1>10 DEF LeaveRemove, LocksOf, Held
    <2>. QED  BY <2>2, <2>3, LocksRevoked
  <1>11. CASE SweepRead(h)
    <2>. DEFINE state == [At("swept", None, None) EXCEPT
                             !.rows = {i \in Rows : sessions[i].active /\ sessions[i].stale}]
    <2>1. state.pc # "extend"
      BY DEF At
    <2>2. Goto(h, state) /\ UNCHANGED <<locks, granted, revoked>>
      BY <1>11 DEF SweepRead, server, history
    <2>. HIDE DEF state
    <2>. QED  BY <1>2, <2>1, <2>2
  <1>12. CASE SweepEnd(h)
    <2>. DEFINE K == UNION {LocksOf(i) : i \in q.rows}
    <2>1. NoneExtends(h)
      BY <1>1, <1>12, GotoNoneExtends DEF SweepEnd
    <2>2. K \in SUBSET Key
      BY DEF LocksOf, Held
    <2>3. Revoke(K)
      BY <1>12 DEF SweepEnd
    <2>. HIDE DEF K
    <2>. QED  BY <2>1, <2>2, <2>3, LocksRevoked
  <1>. QED
    BY <1>3, <1>4, <1>5, <1>6, <1>7, <1>8, <1>9, <1>10, <1>11, <1>12,
       AcquireReadLocks, AcquireExtendLocks, AcquireInsertLocks
    DEF Continue

\* So does the first step of a handler.
LEMMA EventLocks ==
    ASSUME LocksOK, HandlersOK, NEW h \in Handler, NEW s \in Socket, Event(h, s)
    PROVE  LocksOK'
  <1>1. \A pc, d : At(pc, s, d).pc = pc
    BY DEF At
  <1>2. ASSUME NEW d \in Document, JoinStart(h, s, d) PROVE LocksOK'
    <2>1. NoneExtends(h)
      BY <1>1, <1>2, GotoNoneExtends DEF JoinStart
    <2>. QED  BY <1>2, <2>1, LocksStay DEF JoinStart, LocksOK, history
  <1>3. CASE LeaveStart(h, s)
    <2>1. NoneExtends(h)
      BY <1>1, <1>3, GotoNoneExtends DEF LeaveStart
    <2>2. /\ UNCHANGED locks /\ granted' \subseteq granted
          /\ revoked' = revoked \cap granted'
      BY <1>3 DEF LeaveStart, Drop, LocksOK
    <2>. QED  BY <2>1, <2>2, LocksStay
  <1>4. CASE Disconnect(h, s)
    <2>1. NoneExtends(h)
      <3>1. CASE joined[s] = None
        BY <1>4, <3>1 DEF Disconnect, NoneExtends
      <3>2. CASE joined[s] # None
        BY <1>1, <1>4, <3>2, GotoNoneExtends DEF Disconnect
      <3>. QED  BY <3>1, <3>2
    <2>2. /\ UNCHANGED locks /\ granted' \subseteq granted
          /\ revoked' = revoked \cap granted'
      BY <1>4 DEF Disconnect, Drop, LocksOK
    <2>. QED  BY <2>1, <2>2, LocksStay
  <1>5. ASSUME NEW e \in Element, LockStart(h, s, e) PROVE LocksOK'
    <2>. DEFINE state(i) == [At("lock", s, joined[s]) EXCEPT !.key = <<joined[s], e>>, !.row = i]
    <2>1. PICK i : Goto(h, state(i))
      BY <1>5 DEF LockStart
    <2>2. state(i).pc # "extend"
      BY DEF At
    <2>3. NoneExtends(h)
      <3>. HIDE DEF state
      <3>. QED  BY <2>1, <2>2, GotoNoneExtends
    <2>. QED  BY <1>5, <2>3, LocksStay DEF LockStart, LocksOK, server, history
  <1>6. ASSUME NEW k \in Key, Unlock(h, s, k) PROVE LocksOK'
    <2>. DEFINE state == [At("unlocked", s, joined[s]) EXCEPT !.key = k]
                G == OfUser(UserOf[s], k)
    <2>1. state.pc # "extend"
      BY DEF At
    <2>2. Goto(h, state)
      BY <1>6 DEF Unlock
    <2>3. NoneExtends(h)
      <3>. HIDE DEF state
      <3>. QED  BY <2>1, <2>2, GotoNoneExtends
    <2>4. locks' = Without({k}) /\ granted' = granted \ G /\ revoked' = revoked \ G
      BY <1>6 DEF Unlock, Drop
    <2>5. \A g \in granted' \ revoked' : g[2] \notin {k}
      BY <1>6, <2>4 DEF Unlock, OfUser, LocksOK, GrantsBacked
    <2>6. /\ granted' \subseteq granted /\ revoked' \subseteq granted'
          /\ revoked \cap granted' \subseteq revoked'
      BY <2>4 DEF LocksOK
    <2>. QED  BY <2>3, <2>4, <2>5, <2>6, LocksDeleted
  <1>. QED  BY <1>2, <1>3, <1>4, <1>5, <1>6 DEF Event

LEMMA NextLocks ==
    ASSUME LocksOK, HandlersOK, Next
    PROVE  LocksOK'
  <1>1. ASSUME NEW h \in Handler, cleanup_expired_locks(h) PROVE LocksOK'
    <2>1. At("sweep", None, None).pc # "extend"
      BY DEF At
    <2>2. NoneExtends(h)
      BY <1>1, <2>1, GotoNoneExtends DEF cleanup_expired_locks
    <2>. QED  BY <1>1, <2>2, LocksExpired DEF cleanup_expired_locks, history
  <1>2. UNCHANGED hs => NoneExtends(None)
    BY DEF NoneExtends
  <1>3. CASE \/ \E s \in Socket : connect(s) \/ update_cursor(s)
             \/ \E s \in Socket, k \in Key : TtlFires(s, k)
             \/ \E i \in Session : Age(i)
    <2>1. UNCHANGED <<hs, locks, granted, revoked>>
      BY <1>3 DEF connect, update_cursor, TtlFires, Age, server, history
    <2>. QED  BY <1>2, <2>1, LocksStay DEF LocksOK
  <1>4. ASSUME NEW g \in revoked, RunOut(g) PROVE LocksOK'
    <2>1. /\ UNCHANGED <<hs, locks>> /\ granted' \subseteq granted
          /\ revoked' = revoked \cap granted'
      BY <1>4 DEF RunOut, Drop, server, LocksOK
    <2>. QED  BY <1>2, <2>1, LocksStay
  <1>. QED  BY <1>1, <1>3, <1>4, ContinueLocks, EventLocks, ExpireLocks DEF Next, Tick

-----------------------------------------------------------------------------
(***************************************************************************)
(* Theorems.                                                               *)
(***************************************************************************)

\* The invariant is inductive: every handler step, of any number of sockets in
\* any order, keeps types, lock ids and grants in order.
THEOREM GrantsInductiveHolds == Spec => []GrantsInductive
  <1>1. GrantsInductive /\ [Next]_vars => GrantsInductive'
    <2>. SUFFICES ASSUME GrantsInductive, [Next]_vars PROVE GrantsInductive'
      OBVIOUS
    <2>0. ClientsOK /\ HandlersOK /\ LocksOK
      BY Parts
    <2>1. CASE Next
      <3>1. ClientsOK'
        BY <2>1, OtherClients, ContinueClients
      <3>2. HandlersOK'
        BY <2>1, NextHandlers
      <3>3. LocksOK'
        BY <2>0, <2>1, NextLocks
      <3>. QED
        BY <3>1, <3>2, <3>3
        DEF GrantsInductive, TypeOK, ClientsOK, HandlersOK, LocksOK
    <2>2. CASE UNCHANGED vars
      BY <2>2
      DEF vars, server, client, history, GrantsInductive, TypeOK, LocksIdentified,
          ExtendsOwn, GrantsBacked, Held
    <2>. QED  BY <2>1, <2>2
  <1>. QED  BY <1>1, InitOK, PTL DEF Spec

\* Rows, client state and handlers stay in their domains.
THEOREM CollaborationTypes == Spec => []TypeOK
  <1>1. GrantsInductive => TypeOK
    BY DEF GrantsInductive
  <1>. QED  BY <1>1, GrantsInductiveHolds, PTL

\* A lock that acquire_lock granted, that has not run out and that its user did
\* not give back has its row, in the name of its user, unless its session was
\* ended: whatever the interleaving of acquire_lock, release_lock, get_document_locks
\* and cleanup_task in all workers.
THEOREM GrantsBackedHolds == Spec => []GrantsBacked
  <1>1. GrantsInductive => GrantsBacked
    BY DEF GrantsInductive
  <1>. QED  BY <1>1, GrantsInductiveHolds, PTL

=============================================================================
