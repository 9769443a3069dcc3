------------------------- MODULE PageRenderPoolProofs -------------------------
(***************************************************************************)
(* Proofs about PageRenderPool, for every set of pages, canvases and runs  *)
(* and every bound: the types, the cap on canvases, the separation of bound, *)
(* free and disposed canvases, the freshness of the backgrounds, and what  *)
(* canvases of mounted hosts show.                                         *)
(***************************************************************************)
EXTENDS PageRenderPool, FiniteSetTheorems, TLAPS

\* A run that is under way has a page.
RunShape ==
    \A r \in Run : (run[r].at \notin {"new", "over"} \/ run[r].held) => run[r].page \in Page

Typed == TypeOK /\ RunShape

\* What happens to the pool's own variables in any step.
PoolStep ==
    \/ \E p \in Page : (\E c \in Canvas, v \in Page \cup {None} : Bind(p, c, v))
    \/ (\E p \in Page : release(p)) /\ UNCHANGED made
    \/ /\ live' = [p \in Page |-> None] /\ freeList' = <<>>
       /\ gone' = gone \cup {live[p] : p \in Live} \cup {freeList[i] : i \in DOMAIN freeList}
       /\ UNCHANGED made
    \/ UNCHANGED <<live, freeList, gone, made>>

-----------------------------------------------------------------------------
(* Types.                                                                   *)

\* A shape of one run.
Shaped(e) == e \in EffectRun /\ (e.at \notin {"new", "over"} \/ e.held => e.page \in Page)

LEMMA TypeInit == Init => Typed
  <1> SUFFICES ASSUME Init PROVE Typed
    OBVIOUS
  <1>1. NewRun \in EffectRun /\ NewRun.at = "new" /\ NewRun.held = FALSE
    BY DEF NewRun, EffectRun
  <1>2. run \in [Run -> EffectRun] /\ RunShape
    BY <1>1 DEF Init, RunShape
  <1>3. loads \in [Run -> Load] /\ renders \in [Run -> Promise]
    BY PoolAssumption DEF Init, Load, Promise
  <1>4. bytes \in 0..MaxBytes /\ faults \in 0..MaxFaults /\ changed \in [Page -> 0..MaxBytes]
    BY PoolAssumption DEF Init
  <1>5. live \in [Page -> Canvas \cup {None}] /\ lastUsed \in [Page -> Nat] /\ tick \in Nat
    BY DEF Init
  <1>6. freeList \in Seq(Canvas) /\ gone \in SUBSET Canvas /\ made \in SUBSET Canvas
    BY DEF Init
  <1>7. bgCache \in [Page -> Run \cup {None}] /\ drawn \in [Canvas -> SUBSET Page]
    BY DEF Init
  <1> QED BY <1>2, <1>3, <1>4, <1>5, <1>6, <1>7, Zenon DEF Init, Typed, TypeOK

\* The pool's variables have their types.
LEMMA PoolTypes ==
  Typed => /\ live \in [Page -> Canvas \cup {None}]
           /\ lastUsed \in [Page -> Nat] /\ tick \in Nat
           /\ freeList \in Seq(Canvas)
           /\ gone \in SUBSET Canvas /\ made \in SUBSET Canvas
           /\ drawn \in [Canvas -> SUBSET Page]
           /\ faults \in 0..MaxFaults
           /\ lost \in BOOLEAN /\ raced \in BOOLEAN
  BY DEF Typed, TypeOK

\* The renderer's variables have theirs.
LEMMA RendererTypes ==
  Typed => /\ bytes \in 0..MaxBytes
           /\ renderer \in Run \cup {None} /\ latch \in Run \cup {None}
           /\ loads \in [Run -> Load]
           /\ bgCache \in [Page -> Run \cup {None}]
           /\ renders \in [Run -> Promise]
           /\ bump \in SUBSET Page /\ changed \in [Page -> 0..MaxBytes]
  BY DEF Typed, TypeOK

LEMMA RunTypes == Typed => run \in [Run -> EffectRun] /\ \A r \in Run : Shaped(run[r])
  BY DEF Typed, TypeOK, RunShape, Shaped

\* One run changes its record.
LEMMA RunUpdate ==
  ASSUME Typed, NEW r \in Run, NEW e, Shaped(e), run' = [run EXCEPT ![r] = e]
  PROVE  run' \in [Run -> EffectRun] /\ RunShape'
  BY DEF Typed, TypeOK, RunShape, Shaped

LEMMA ShapedOver == Shaped(Over)
  BY DEF Shaped, Over, NewRun, EffectRun

\* Bind keeps the types of the pool.
LEMMA BindType ==
  ASSUME Typed, NEW p \in Page, NEW c \in Canvas, NEW v \in Page \cup {None}, Bind(p, c, v)
  PROVE  /\ live' \in [Page -> Canvas \cup {None}]
         /\ lastUsed' \in [Page -> Nat] /\ tick' \in Nat
         /\ freeList' \in Seq(Canvas)
         /\ gone' \in SUBSET Canvas /\ made' \in SUBSET Canvas
         /\ drawn' \in [Canvas -> SUBSET Page]
  <1>1. v = None \/ (v \in Page /\ live[v] \in Canvas)
    BY PoolTypes, PoolAssumption DEF Bind, Victim, Live
  <1>2. live' \in [Page -> Canvas \cup {None}]
    BY PoolTypes DEF Bind
  <1>3. lastUsed' \in [Page -> Nat] /\ tick' \in Nat
    BY PoolTypes DEF Bind
  <1>4. freeList' \in Seq(Canvas)
    <2>1. freeList \in Seq(Canvas)
      BY PoolTypes
    <2>2. freeList' = freeList \/ (freeList # <<>> /\ freeList' = Tail(freeList))
      BY DEF Bind
    <2> QED BY <2>1, <2>2
  <1>5. gone' \in SUBSET Canvas /\ made' \in SUBSET Canvas
    BY <1>1, PoolTypes DEF Bind
  <1>6. drawn' \in [Canvas -> SUBSET Page]
    BY <1>1, PoolTypes DEF Bind
  <1> QED BY <1>2, <1>3, <1>4, <1>5, <1>6

\* release keeps the types of the pool.
LEMMA ReleaseType ==
  ASSUME Typed, NEW p \in Page, release(p)
  PROVE  /\ live' \in [Page -> Canvas \cup {None}]
         /\ lastUsed' \in [Page -> Nat]
         /\ freeList' \in Seq(Canvas)
         /\ gone' \in SUBSET Canvas
         /\ drawn' \in [Canvas -> SUBSET Page]
         /\ faults' \in 0..MaxFaults
  <1>0. /\ live \in [Page -> Canvas \cup {None}] /\ lastUsed \in [Page -> Nat]
        /\ freeList \in Seq(Canvas) /\ gone \in SUBSET Canvas
        /\ drawn \in [Canvas -> SUBSET Page] /\ faults \in 0..MaxFaults
    BY PoolTypes
  <1>1. CASE live[p] = None
    BY <1>0, <1>1 DEF release
  <1>2. CASE live[p] # None
    <2>1. live[p] \in Canvas
      BY <1>0, <1>2
    <2>2. /\ live' = [live EXCEPT ![p] = None]
          /\ lastUsed' = [lastUsed EXCEPT ![p] = 0]
          /\ drawn' = [drawn EXCEPT ![live[p]] = {}]
          /\ freeList' = Append(freeList, live[p]) \/ freeList' = freeList
          /\ gone' = gone \cup {live[p]} \/ gone' = gone
          /\ faults' = faults \/ (faults < MaxFaults /\ faults' = faults + 1)
      BY <1>2 DEF release
    <2>3. live' \in [Page -> Canvas \cup {None}]
      BY <1>0, <2>2
    <2>4. lastUsed' \in [Page -> Nat]
      BY <1>0, <2>2
    <2>5. freeList' \in Seq(Canvas)
      <3>1. freeList \in Seq(Canvas) /\ Append(freeList, live[p]) \in Seq(Canvas)
        BY <1>0, <2>1
      <3> QED BY <2>2, <3>1
    <2>6. gone' \in SUBSET Canvas
      BY <1>0, <2>1, <2>2
    <2>8. drawn' \in [Canvas -> SUBSET Page]
      <3>1. drawn \in [Canvas -> SUBSET Page] /\ drawn' = [drawn EXCEPT ![live[p]] = {}]
        BY <1>0, <2>2
      <3> QED BY <3>1
    <2>7. faults' \in 0..MaxFaults
      BY <1>0, <2>2, PoolAssumption
    <2> QED BY <2>3, <2>4, <2>5, <2>6, <2>7, <2>8
  <1> QED BY <1>1, <1>2

\* renderBackground keeps the types of the renderer's variables.
LEMMA RenderType ==
  ASSUME Typed, NEW r \in Run, NEW p \in Page, renderBackground(r, p)
  PROVE  /\ renderer' \in Run \cup {None} /\ latch' \in Run \cup {None}
         /\ loads' \in [Run -> Load]
         /\ bgCache' \in [Page -> Run \cup {None}] /\ bgCache'[p] \in Run
         /\ renders' \in [Run -> Promise]
  <1>1. CASE bgCache[p] # None
    BY <1>1, RendererTypes DEF renderBackground, renderVars
  <1>2. CASE bgCache[p] = None
    <2>1. renderer' \in Run \cup {None} /\ latch' \in Run
      BY <1>2, RendererTypes DEF renderBackground, ensureRenderer
    <2>2. [at |-> "loading", bytes |-> bytes] \in Load
      BY RendererTypes DEF Load
    <2>3. loads' \in [Run -> Load]
      BY <1>2, <2>2, RendererTypes DEF renderBackground, ensureRenderer
    <2>4. bgCache' \in [Page -> Run \cup {None}] /\ bgCache'[p] \in Run
      BY <1>2, RendererTypes DEF renderBackground
    <2>5. loads'[latch'].bytes \in 0..MaxBytes
      BY <2>1, <2>3 DEF Load
    <2>6. [at |-> IF loads'[latch'].at = "open" THEN "encoding" ELSE "loading",
           load |-> latch', bytes |-> loads'[latch'].bytes] \in Promise
      BY <2>1, <2>5 DEF Promise
    <2>7. renders' \in [Run -> Promise]
      BY <1>2, <2>6, RendererTypes DEF renderBackground
    <2> QED BY <2>1, <2>3, <2>4, <2>7
  <1> QED BY <1>1, <1>2

LEMMA CloseType == Typed => Close(loads) \in [Run -> Load]
  BY RendererTypes DEF Close, Load

LEMMA RejectType ==
  ASSUME Typed, NEW R \in SUBSET Run, Reject(R)
  PROVE  renders' \in [Run -> Promise] /\ bgCache' \in [Page -> Run \cup {None}]
  BY RendererTypes DEF Reject, Promise

LEMMA TypeLoadSucceeds ==
  ASSUME Typed, NEW r \in Run, LoadSucceeds(r) PROVE Typed'
  <1>1. loads' \in [Run -> Load]
    BY DEF LoadSucceeds, Typed, TypeOK, Load
  <1>2. renders' \in [Run -> Promise] /\ bgCache' \in [Page -> Run \cup {None}]
    <2>1. CASE renderer # None /\ loads'[renderer].at = "open"
      <3>1. loads[renderer].bytes \in 0..MaxBytes
        BY <2>1 DEF Typed, TypeOK, Load
      <3>2. \A q \in Run : [renders[q] EXCEPT !.at = "encoding", !.bytes = loads[renderer].bytes]
                              \in Promise
        BY <3>1, RendererTypes DEF Promise
      <3> QED BY <2>1, <3>2, RendererTypes DEF LoadSucceeds
    <2>2. CASE ~(renderer # None /\ loads'[renderer].at = "open")
      <3>1. Reject(Waiting(r))
        BY <2>2 DEF LoadSucceeds
      <3> QED BY <3>1, RejectType DEF Waiting
    <2> QED BY <2>1, <2>2
  <1> QED BY <1>1, <1>2 DEF LoadSucceeds, poolVars, Typed, TypeOK, RunShape

LEMMA TypeLoadFails ==
  ASSUME Typed, NEW r \in Run, LoadFails(r) PROVE Typed'
  <1>1. loads' \in [Run -> Load]
    BY DEF LoadFails, Typed, TypeOK, Load
  <1>2. renders' \in [Run -> Promise] /\ bgCache' \in [Page -> Run \cup {None}]
    BY RejectType DEF LoadFails, Waiting
  <1>3. faults' \in 0..MaxFaults
    BY PoolAssumption DEF LoadFails, Typed, TypeOK
  <1> QED BY <1>1, <1>2, <1>3 DEF LoadFails, poolVars, Typed, TypeOK, RunShape

LEMMA TypeRenderEnds ==
  ASSUME Typed, NEW r \in Run, RenderEnds(r) PROVE Typed'
  <1>1. renders' \in [Run -> Promise] /\ bgCache' \in [Page -> Run \cup {None}]
    <2>1. CASE renders' = [renders EXCEPT ![r].at = "ready"] /\ UNCHANGED bgCache
      BY <2>1 DEF Typed, TypeOK, Promise
    <2>2. CASE Reject({r})
      BY <2>2, RejectType
    <2> QED BY <2>1, <2>2 DEF RenderEnds
  <1>2. faults' \in 0..MaxFaults
    BY PoolTypes, PoolAssumption DEF RenderEnds
  <1>3. lost' \in BOOLEAN
    BY PoolTypes, Zenon DEF RenderEnds
  <1> QED BY <1>1, <1>2, <1>3 DEF RenderEnds, poolVars, Typed, TypeOK, RunShape

LEMMA TypeMount ==
  ASSUME Typed, NEW r \in Run, NEW p \in Page, Mount(r, p) PROVE Typed'
  <1>1. run' \in [Run -> EffectRun] /\ RunShape'
    <2> DEFINE e == [run[r] EXCEPT !.page = p, !.canvas = live[p],
                       !.at = IF live[p] # None THEN "acquired" ELSE "acquire"]
    <2>1. Shaped(e)
      <3>1. run[r] \in EffectRun /\ live[p] \in Canvas \cup {None}
        BY RunTypes, PoolTypes
      <3> QED BY <3>1 DEF EffectRun, Shaped
    <2>2. run' = [run EXCEPT ![r] = Over] \/ run' = [run EXCEPT ![r] = e]
      BY DEF Mount
    <2> HIDE DEF e
    <2> QED BY <2>1, <2>2, RunUpdate, ShapedOver
  <1>2. lastUsed' \in [Page -> Nat] /\ tick' \in Nat
    <2>1. lastUsed \in [Page -> Nat] /\ tick \in Nat
      BY PoolTypes
    <2>2. \/ tick' = tick + 1 /\ lastUsed' = [lastUsed EXCEPT ![p] = tick + 1]
          \/ tick' = tick /\ lastUsed' = lastUsed
      BY DEF Mount
    <2> QED BY <2>1, <2>2
  <1>3. bump' \in SUBSET Page
    BY RendererTypes DEF Mount
  <1>4. raced' \in BOOLEAN
    BY PoolTypes, Zenon DEF Mount
  <1> QED BY <1>1, <1>2, <1>3, <1>4 DEF Mount, renderVars, Typed, TypeOK

LEMMA TypeAcquireResumes ==
  ASSUME Typed, NEW r \in Run, AcquireResumes(r) PROVE Typed'
  <1>1. PICK c \in Canvas, v \in Page \cup {None} :
           /\ Bind(run[r].page, c, v)
           /\ run' = [run EXCEPT ![r] = [@ EXCEPT !.at = "acquired", !.canvas = c]]
    BY DEF AcquireResumes
  <1>2. run[r].page \in Page
    BY RunTypes DEF AcquireResumes, Shaped
  <1>3. run' \in [Run -> EffectRun] /\ RunShape'
    <2> DEFINE e == [run[r] EXCEPT !.at = "acquired", !.canvas = c]
    <2>1. Shaped(e)
      <3>1. run[r] \in EffectRun
        BY RunTypes
      <3> QED BY <3>1, <1>2 DEF EffectRun, Shaped
    <2>2. run' = [run EXCEPT ![r] = e]
      BY <1>1
    <2> HIDE DEF e
    <2> QED BY <2>1, <2>2, RunUpdate
  <1>4. /\ live' \in [Page -> Canvas \cup {None}]
        /\ lastUsed' \in [Page -> Nat] /\ tick' \in Nat
        /\ freeList' \in Seq(Canvas)
        /\ gone' \in SUBSET Canvas /\ made' \in SUBSET Canvas
        /\ drawn' \in [Canvas -> SUBSET Page]
    BY <1>1, <1>2, BindType
  <1> QED BY <1>3, <1>4 DEF AcquireResumes, renderVars, Typed, TypeOK

LEMMA TypeHostAcquired ==
  ASSUME Typed, NEW r \in Run, HostAcquired(r) PROVE Typed'
  <1>1. run[r].page \in Page /\ run[r] \in EffectRun
    BY RunTypes DEF HostAcquired, Shaped
  <1>2. CASE run[r].cancelled
    <2>1. release(run[r].page) /\ run' = [run EXCEPT ![r] = Over] /\ UNCHANGED renderVars
      BY <1>2 DEF HostAcquired
    <2>2. run' \in [Run -> EffectRun] /\ RunShape'
      BY <2>1, RunUpdate, ShapedOver
    <2> QED BY <1>1, <2>1, <2>2, ReleaseType DEF HostAcquired, renderVars, Typed, TypeOK
  <1>3. CASE ~run[r].cancelled
    <2>1. drawn' \in [Canvas -> SUBSET Page]
      BY <1>3, PoolTypes DEF HostAcquired
    <2>2. CASE disposed
      <3> DEFINE e == [run[r] EXCEPT !.at = "done", !.held = TRUE]
      <3>1. Shaped(e)
        BY <1>1 DEF EffectRun, Shaped
      <3>2. run' = [run EXCEPT ![r] = e]
        BY <1>3, <2>2 DEF HostAcquired
      <3> HIDE DEF e
      <3>3. run' \in [Run -> EffectRun] /\ RunShape'
        BY <3>1, <3>2, RunUpdate
      <3> QED BY <1>3, <2>1, <2>2, <3>3 DEF HostAcquired, renderVars, Typed, TypeOK
    <2>3. CASE ~disposed
      <3> DEFINE e == [run[r] EXCEPT !.at = "background", !.held = TRUE,
                                     !.promise = bgCache'[run[r].page]]
      <3>1. renderBackground(r, run[r].page)
        BY <1>3, <2>3 DEF HostAcquired
      <3>2. /\ renderer' \in Run \cup {None} /\ latch' \in Run \cup {None}
            /\ loads' \in [Run -> Load]
            /\ bgCache' \in [Page -> Run \cup {None}] /\ bgCache'[run[r].page] \in Run
            /\ renders' \in [Run -> Promise]
        BY <1>1, <3>1, RenderType
      <3>3. Shaped(e)
        BY <1>1, <3>2 DEF EffectRun, Shaped
      <3>4. run' = [run EXCEPT ![r] = e]
        BY <1>3, <2>3 DEF HostAcquired
      <3> HIDE DEF e
      <3>5. run' \in [Run -> EffectRun] /\ RunShape'
        BY <3>3, <3>4, RunUpdate
      <3> QED BY <1>3, <2>1, <3>2, <3>5 DEF HostAcquired, Typed, TypeOK
    <2> QED BY <2>2, <2>3
  <1> QED BY <1>2, <1>3

LEMMA TypeHostRendered ==
  ASSUME Typed, NEW r \in Run, HostRendered(r) PROVE Typed'
  <1>1. run[r].page \in Page /\ run[r] \in EffectRun
    BY RunTypes DEF HostRendered, Shaped
  <1>2. run' \in [Run -> EffectRun] /\ RunShape'
    <2> DEFINE e == [run[r] EXCEPT !.at = IF renders[run[r].promise].at = "ready" THEN "image"
                                          ELSE "done"]
    <2>1. Shaped(e)
      BY <1>1 DEF EffectRun, Shaped
    <2>2. run' = [run EXCEPT ![r] = Over] \/ run' = [run EXCEPT ![r] = e]
      BY DEF HostRendered
    <2> HIDE DEF e
    <2> QED BY <2>1, <2>2, RunUpdate, ShapedOver
  <1> QED BY <1>2 DEF HostRendered, poolVars, renderVars, Typed, TypeOK

LEMMA TypeHostDraws ==
  ASSUME Typed, NEW r \in Run, HostDraws(r) PROVE Typed'
  <1>1. run[r].page \in Page /\ run[r] \in EffectRun
    BY RunTypes DEF HostDraws, Shaped
  <1>2. run' \in [Run -> EffectRun] /\ RunShape'
    <2> DEFINE e == [run[r] EXCEPT !.at = "done", !.shown = TRUE]
               f == [run[r] EXCEPT !.at = "done"]
    <2>1. Shaped(e) /\ Shaped(f)
      BY <1>1 DEF EffectRun, Shaped
    <2>2. \/ run' = [run EXCEPT ![r] = Over]
          \/ run' = [run EXCEPT ![r] = e]
          \/ run' = [run EXCEPT ![r] = f]
      BY DEF HostDraws
    <2> HIDE DEF e, f
    <2> QED BY <2>1, <2>2, RunUpdate, ShapedOver
  <1>3. drawn' \in [Canvas -> SUBSET Page]
    BY <1>1, PoolTypes DEF HostDraws
  <1>4. faults' \in 0..MaxFaults
    BY PoolTypes, PoolAssumption DEF HostDraws
  <1>5. run[r].cancelled \in BOOLEAN
    BY <1>1 DEF EffectRun
  <1>6. lost' \in BOOLEAN
    BY <1>5, PoolTypes, Zenon DEF HostDraws
  <1> QED BY <1>2, <1>3, <1>4, <1>6 DEF HostDraws, poolVars, renderVars, Typed, TypeOK

LEMMA TypeTeardown ==
  ASSUME Typed, NEW r \in Run, Teardown(r) PROVE Typed'
  <1>1. run' \in [Run -> EffectRun] /\ RunShape'
    <2> DEFINE e == [run[r] EXCEPT !.cancelled = TRUE, !.held = FALSE]
    <2>1. Shaped(e)
      <3>1. Shaped(run[r])
        BY RunTypes
      <3> QED BY <3>1 DEF EffectRun, Shaped
    <2>2. run' = [run EXCEPT ![r] = Over] \/ run' = [run EXCEPT ![r] = e]
      BY DEF Teardown
    <2> HIDE DEF e
    <2> QED BY <2>1, <2>2, RunUpdate, ShapedOver
  <1>2. bump' \in SUBSET Page
    BY DEF Teardown, Typed, TypeOK
  <1>3. CASE run[r].held
    <2>1. run[r].page \in Page /\ release(run[r].page)
      BY <1>3 DEF Teardown, Active, Typed, TypeOK, RunShape
    <2> QED BY <1>1, <1>2, <2>1, ReleaseType DEF Teardown, renderVars, Typed, TypeOK
  <1>4. CASE ~run[r].held
    BY <1>1, <1>2, <1>4 DEF Teardown, renderVars, Typed, TypeOK
  <1> QED BY <1>3, <1>4

LEMMA TypeReplaceBytes ==
  ASSUME Typed, NEW S \in SUBSET Page, replaceBytes(S) PROVE Typed'
  <1>1. bytes' \in 0..MaxBytes /\ changed' \in [Page -> 0..MaxBytes]
    BY RendererTypes, PoolAssumption DEF replaceBytes
  <1>2. bgCache' \in [Page -> Run \cup {None}] /\ bump' \in SUBSET Page
    BY RendererTypes DEF replaceBytes, Invalidate, Bumped
  <1>3. loads' \in [Run -> Load] /\ renderer' = None /\ latch' = None
    BY CloseType DEF replaceBytes
  <1>4. lost' \in BOOLEAN
    BY PoolTypes, Zenon DEF replaceBytes
  <1> QED BY <1>1, <1>2, <1>3, <1>4 DEF replaceBytes, poolVars, Typed, TypeOK, RunShape

LEMMA TypeDispose ==
  ASSUME Typed, dispose PROVE Typed'
  <1>1. live' \in [Page -> Canvas \cup {None}] /\ lastUsed' \in [Page -> Nat]
    BY DEF dispose
  <1>2. freeList' \in Seq(Canvas)
    BY DEF dispose
  <1>3. gone' \in SUBSET Canvas
    <2>1. \A p \in Live : live[p] \in Canvas
      BY PoolTypes DEF Live
    <2>2. \A i \in DOMAIN freeList : freeList[i] \in Canvas
      BY PoolTypes
    <2> QED BY <2>1, <2>2, PoolTypes DEF dispose
  <1>4. drawn' \in [Canvas -> SUBSET Page]
    BY PoolTypes DEF dispose
  <1>5. bgCache' \in [Page -> Run \cup {None}] /\ loads' \in [Run -> Load]
    BY CloseType DEF dispose
  <1> QED BY <1>1, <1>2, <1>3, <1>4, <1>5 DEF dispose, Typed, TypeOK, RunShape

LEMMA TypeNext == ASSUME Typed, [Next]_vars PROVE Typed'
  <1>1. ASSUME NEW r \in Run, RunStep(r) PROVE Typed'
    BY <1>1, TypeLoadSucceeds, TypeLoadFails, TypeRenderEnds, TypeAcquireResumes,
       TypeHostAcquired, TypeHostRendered, TypeHostDraws DEF RunStep
  <1>2. ASSUME NEW r \in Run, Teardown(r) PROVE Typed'
    BY <1>2, TypeTeardown
  <1>3. ASSUME NEW r \in Run, NEW p \in Page, Mount(r, p) PROVE Typed'
    BY <1>3, TypeMount
  <1>4. ASSUME NEW S \in SUBSET Page, replaceBytes(S) PROVE Typed'
    BY <1>4, TypeReplaceBytes
  <1>5. ASSUME dispose PROVE Typed'
    BY <1>5, TypeDispose
  <1>6. CASE UNCHANGED vars
    BY <1>6 DEF vars, poolVars, renderVars, Typed, TypeOK, RunShape
  <1> QED BY <1>1, <1>2, <1>3, <1>4, <1>5, <1>6 DEF Next

\* Every variable of the pool and of the hosts keeps its type.
THEOREM TypeCorrect == Spec => []TypeOK
  <1>1. Typed => TypeOK
    BY DEF Typed
  <1> QED BY <1>1, TypeInit, TypeNext, PTL DEF Spec

-----------------------------------------------------------------------------
(* The cap and the separation of the canvases.                              *)

\* What a step does to the pool's canvases.
LEMMA PoolSteps == ASSUME Typed, [Next]_vars PROVE PoolStep
  <1>1. ASSUME NEW r \in Run, RunStep(r) PROVE PoolStep
    <2>1. CASE AcquireResumes(r)
      <3>1. run[r].page \in Page
        BY <2>1, RunTypes DEF AcquireResumes, Shaped
      <3> QED BY <2>1, <3>1 DEF AcquireResumes, PoolStep
    <2>2. CASE HostAcquired(r)
      <3>1. run[r].page \in Page
        BY <2>2, RunTypes DEF HostAcquired, Shaped
      <3>2. made' = made
        BY <2>2 DEF HostAcquired
      <3>3. release(run[r].page) \/ UNCHANGED <<live, freeList, gone>>
        BY <2>2 DEF HostAcquired
      <3> QED BY <3>1, <3>2, <3>3 DEF PoolStep
    <2>3. CASE LoadSucceeds(r) \/ LoadFails(r) \/ RenderEnds(r) \/ HostRendered(r) \/ HostDraws(r)
      BY <2>3 DEF LoadSucceeds, LoadFails, RenderEnds, HostRendered, HostDraws, poolVars, PoolStep
    <2> QED BY <1>1, <2>1, <2>2, <2>3 DEF RunStep
  <1>2. ASSUME NEW r \in Run, Teardown(r) PROVE PoolStep
    <2>1. made' = made
      BY <1>2 DEF Teardown
    <2>2. CASE run[r].held
      <3>1. run[r].page \in Page
        BY <2>2, RunTypes DEF Shaped
      <3> QED BY <1>2, <2>1, <2>2, <3>1 DEF Teardown, PoolStep
    <2>3. CASE ~run[r].held
      BY <1>2, <2>1, <2>3 DEF Teardown, PoolStep
    <2> QED BY <2>2, <2>3
  <1>3. ASSUME NEW r \in Run, NEW p \in Page, Mount(r, p) PROVE PoolStep
    BY <1>3 DEF Mount, PoolStep
  <1>4. ASSUME NEW S \in SUBSET Page, replaceBytes(S) PROVE PoolStep
    BY <1>4 DEF replaceBytes, poolVars, PoolStep
  <1>5. ASSUME dispose PROVE PoolStep
    BY <1>5 DEF dispose, PoolStep
  <1>6. CASE UNCHANGED vars
    BY <1>6 DEF vars, poolVars, PoolStep
  <1> QED BY <1>1, <1>2, <1>3, <1>4, <1>5, <1>6 DEF Next

LEMMA LiveFinite == IsFiniteSet(Live) /\ Cardinality(Live) \in Nat
  <1>1. Live \in SUBSET Page
    BY DEF Live
  <1>2. IsFiniteSet(Live)
    BY <1>1, FS_Subset, PoolAssumption
  <1> QED BY <1>2, FS_CardinalityType

\* When the pool is full nothing is free.
LEMMA CapBind ==
  ASSUME Typed, CapRespected, NEW p \in Page, NEW c \in Canvas, NEW v \in Page \cup {None},
         Bind(p, c, v)
  PROVE  CapRespected'
  <1>0. /\ live \in [Page -> Canvas \cup {None}] /\ freeList \in Seq(Canvas)
        /\ Cardinality(Live) + Len(freeList) <= MaxLive
        /\ Cardinality(Live) \in Nat /\ Len(freeList) \in Nat /\ MaxLive \in Nat \ {0}
    BY PoolTypes, LiveFinite, PoolAssumption DEF CapRespected
  <1>1. Live' \subseteq (Live \ {v}) \cup {p}
    BY PoolAssumption DEF Bind, Live
  <1>2. IsFiniteSet(Live \ {v}) /\ Cardinality(Live \ {v}) =
          (IF v \in Live THEN Cardinality(Live) - 1 ELSE Cardinality(Live))
    BY LiveFinite, FS_RemoveElement
  <1>3. IsFiniteSet((Live \ {v}) \cup {p}) /\ Cardinality((Live \ {v}) \cup {p}) =
          (IF p \in Live \ {v} THEN Cardinality(Live \ {v}) ELSE Cardinality(Live \ {v}) + 1)
    BY <1>2, FS_AddElement
  <1>4. Cardinality(Live') <= Cardinality((Live \ {v}) \cup {p}) /\ IsFiniteSet(Live')
    BY <1>1, <1>3, FS_Subset
  <1>5. Cardinality(Live') \in Nat
    BY <1>4, FS_CardinalityType
  <1>6. CASE Full
    <2>1. v \in Live
      BY <1>6 DEF Bind, Victim
    <2>2. Len(freeList) = 0
      BY <1>0, <1>6 DEF Full
    <2>3. freeList = <<>> /\ freeList' = freeList
      BY <1>0, <2>2 DEF Bind
    <2>4. Cardinality(Live') <= Cardinality(Live)
      BY <1>0, <1>2, <1>3, <1>4, <1>5, <2>1
    <2>5. Len(freeList') = 0
      BY <2>2, <2>3
    <2>6. Cardinality(Live)' = Cardinality(Live') /\ Len(freeList)' = Len(freeList')
      OBVIOUS
    <2> QED BY <1>0, <1>5, <2>4, <2>5 DEF CapRespected
  <1>7. CASE ~Full
    <2>1. Cardinality(Live) < MaxLive
      BY <1>0, <1>7 DEF Full
    <2>2. Cardinality(Live') <= Cardinality(Live) + 1
      BY <1>0, <1>2, <1>3, <1>4, <1>5
    <2>3. CASE freeList = <<>>
      <3>1. Len(freeList') = 0
        BY <2>3 DEF Bind
      <3> QED BY <1>0, <1>5, <2>1, <2>2, <3>1 DEF CapRespected
    <2>4. CASE freeList # <<>>
      <3>1. freeList' = Tail(freeList)
        BY <2>4 DEF Bind
      <3>2. Len(freeList') = Len(freeList) - 1
        BY <1>0, <2>4, <3>1
      <3> QED BY <1>0, <1>5, <2>2, <3>2 DEF CapRespected
    <2> QED BY <2>3, <2>4
  <1> QED BY <1>6, <1>7

LEMMA CapRelease ==
  ASSUME Typed, CapRespected, NEW p \in Page, release(p) PROVE CapRespected'
  <1>0. /\ live \in [Page -> Canvas \cup {None}] /\ freeList \in Seq(Canvas)
        /\ Cardinality(Live) + Len(freeList) <= MaxLive
        /\ Cardinality(Live) \in Nat /\ Len(freeList) \in Nat /\ MaxLive \in Nat \ {0}
    BY PoolTypes, LiveFinite, PoolAssumption DEF CapRespected
  <1>1. CASE live[p] = None
    BY <1>1 DEF release, CapRespected, Live
  <1>2. CASE live[p] # None
    <2>1. Live' = Live \ {p} /\ p \in Live
      BY <1>0, <1>2 DEF release, Live
    <2>2. Cardinality(Live') = Cardinality(Live) - 1
      BY <2>1, LiveFinite, FS_RemoveElement
    <2>3. live[p] \in Canvas
      BY <1>0, <1>2
    <2>4. freeList' = Append(freeList, live[p]) \/ freeList' = freeList
      BY <1>2 DEF release
    <2>5. Len(freeList') <= Len(freeList) + 1 /\ Len(freeList') \in Nat
      BY <1>0, <2>3, <2>4
    <2> QED BY <1>0, <2>2, <2>5 DEF CapRespected
  <1> QED BY <1>1, <1>2

\* The pool never has more canvases than maxLive, bound and free together.
THEOREM Cap == Spec => []CapRespected
  <1>1. Init => CapRespected
    <2> SUFFICES ASSUME Init PROVE CapRespected
      OBVIOUS
    <2>1. Live = {} /\ Len(freeList) = 0
      BY DEF Init, Live
    <2> QED BY <2>1, FS_EmptySet, PoolAssumption DEF CapRespected
  <1>2. ASSUME Typed, CapRespected, [Next]_vars PROVE CapRespected'
    <2>1. ASSUME NEW p \in Page, NEW c \in Canvas, NEW v \in Page \cup {None}, Bind(p, c, v)
          PROVE  CapRespected'
      BY <1>2, <2>1, CapBind
    <2>2. ASSUME NEW p \in Page, release(p) PROVE CapRespected'
      BY <1>2, <2>2, CapRelease
    <2>3. ASSUME live' = [p \in Page |-> None], freeList' = <<>> PROVE CapRespected'
      <3>1. Live' = {} /\ Len(freeList') = 0
        BY <2>3 DEF Live
      <3> QED BY <3>1, FS_EmptySet, PoolAssumption DEF CapRespected
    <2>4. ASSUME UNCHANGED <<live, freeList>> PROVE CapRespected'
      BY <1>2, <2>4 DEF CapRespected, Live
    <2>5. PoolStep
      BY <1>2, PoolSteps
    <2> QED BY <2>1, <2>2, <2>3, <2>4, <2>5 DEF PoolStep
  <1> QED BY <1>1, <1>2, TypeInit, TypeNext, PTL DEF Spec

\* Every canvas of the pool, and every disposed one, was created.
Owned ==
    /\ \A p \in Live : live[p] \in made
    /\ \A i \in DOMAIN freeList : freeList[i] \in made
    /\ gone \subseteq made

LEMMA DisjointBind ==
  ASSUME Typed, Owned, PoolDisjoint, NEW p \in Page, NEW c \in Canvas,
         NEW v \in Page \cup {None}, Bind(p, c, v)
  PROVE  Owned' /\ PoolDisjoint'
  <1>0. /\ live \in [Page -> Canvas \cup {None}] /\ freeList \in Seq(Canvas)
        /\ made \subseteq Canvas /\ None \notin Page \cup Canvas
    BY PoolTypes, PoolAssumption
  <1>1. v = None \/ v \in Live
    BY DEF Bind, Victim
  <1>2. \A q \in Page : live'[q] = IF q = p THEN c ELSE IF q = v THEN None ELSE live[q]
    BY DEF Bind
  <1>3. gone' = IF v = None THEN gone ELSE gone \cup {live[v]}
    BY DEF Bind
  <1>4. /\ \A i \in DOMAIN freeList' : freeList'[i] \in made /\ freeList'[i] # c /\ InFree(freeList'[i])
        /\ \A i, j \in DOMAIN freeList' : freeList'[i] = freeList'[j] => i = j
        /\ c \in made' /\ made \subseteq made'
        /\ c \notin gone /\ \A q \in Live : live[q] # c
    <2>1. CASE freeList # <<>>
      <3>1. c = Head(freeList) /\ freeList' = Tail(freeList) /\ made' = made
        BY <2>1 DEF Bind
      <3>2. c = freeList[1] /\ 1 \in DOMAIN freeList
        BY <1>0, <2>1, <3>1
      <3>3. \A i \in DOMAIN freeList' : /\ i + 1 \in DOMAIN freeList /\ i + 1 # 1
                                       /\ freeList'[i] = freeList[i + 1]
        BY <1>0, <2>1, <3>1
      <3>4. \A i \in DOMAIN freeList' : freeList'[i] \in made /\ freeList'[i] # c /\ InFree(freeList'[i])
        BY <3>2, <3>3 DEF Owned, PoolDisjoint, InFree
      <3>5. \A i, j \in DOMAIN freeList' : freeList'[i] = freeList'[j] => i = j
        <4> TAKE i, j \in DOMAIN freeList'
        <4> HAVE freeList'[i] = freeList'[j]
        <4>1. i + 1 = j + 1
          BY <3>3 DEF PoolDisjoint
        <4>2. i \in Int /\ j \in Int
          BY <1>0, <2>1, <3>1
        <4> QED BY <4>1, <4>2
      <3>6. InFree(c)
        BY <3>2 DEF InFree
      <3>7. c \notin gone /\ \A q \in Live : live[q] # c
        BY <3>6 DEF PoolDisjoint
      <3>8. c \in made
        BY <3>2 DEF Owned
      <3> QED BY <3>1, <3>4, <3>5, <3>7, <3>8
    <2>2. CASE freeList = <<>>
      <3>1. Canvas # made /\ c = NewCanvas /\ made' = made \cup {c} /\ freeList' = freeList
        BY <2>2 DEF Bind
      <3>2. \E d \in Canvas : d \notin made
        BY <1>0, <3>1
      <3>3. c \notin made
        BY <3>1, <3>2 DEF NewCanvas
      <3>4. DOMAIN freeList' = {}
        BY <2>2, <3>1
      <3> QED BY <3>1, <3>3, <3>4 DEF Owned
    <2> QED BY <2>1, <2>2
  <1>5. \A q \in Page : live'[q] # None => live'[q] = c \/ (q \in Live /\ q # v /\ q # p /\ live'[q] = live[q])
    BY <1>2 DEF Live
  <1>6. Owned'
    <2>1. \A q \in Live' : live'[q] \in made'
      BY <1>4, <1>5 DEF Owned, Live
    <2>2. gone' \subseteq made'
      BY <1>1, <1>3, <1>4 DEF Owned
    <2>3. \A i \in DOMAIN freeList' : freeList'[i] \in made'
      BY <1>4
    <2> QED BY <2>1, <2>2, <2>3 DEF Owned
  <1>7. PoolDisjoint'
    <2>1. \A q, u \in Live' : live'[q] = live'[u] => q = u
      <3> SUFFICES ASSUME NEW q \in Page, NEW u \in Page, live'[q] # None, live'[u] # None,
                          live'[q] = live'[u]
                   PROVE  q = u
        BY DEF Live
      <3>1. CASE q = p \/ u = p
        BY <1>2, <1>4, <3>1 DEF Live
      <3>2. CASE q # p /\ u # p
        <4>1. q \in Live /\ u \in Live /\ live[q] = live[u]
          BY <1>2, <3>2 DEF Live
        <4> QED BY <4>1 DEF PoolDisjoint
      <3> QED BY <3>1, <3>2
    <2>2. \A q \in Live' : \A i \in DOMAIN freeList' : freeList'[i] # live'[q]
      BY <1>4, <1>5 DEF PoolDisjoint, InFree, Live
    <2>3. \A d \in gone' : ~InFree(d)' /\ \A q \in Page : live'[q] # d
      <3> SUFFICES ASSUME NEW d \in gone' PROVE ~InFree(d)' /\ \A q \in Page : live'[q] # d
        OBVIOUS
      <3>1. CASE d \in gone
        <4>1. \A i \in DOMAIN freeList' : freeList'[i] # d
          BY <1>4, <3>1 DEF PoolDisjoint
        <4>2. \A q \in Page : live[q] # d /\ d # c /\ d # None
          BY <1>0, <1>4, <3>1, PoolTypes DEF PoolDisjoint
        <4> QED BY <1>2, <4>1, <4>2 DEF InFree
      <3>2. CASE v \in Live /\ d = live[v]
        <4>1. \A i \in DOMAIN freeList' : freeList'[i] # d
          BY <1>4, <3>2 DEF PoolDisjoint
        <4>2. d # c /\ d # None /\ v \in Page
          BY <1>4, <3>2 DEF Live
        <4>3. \A q \in Page : q # v => live[q] # d
          BY <3>2, <4>2 DEF PoolDisjoint, Live
        <4> QED BY <1>2, <4>1, <4>2, <4>3 DEF InFree
      <3> QED BY <1>1, <1>3, <3>1, <3>2
    <2>4. \A i, j \in DOMAIN freeList' : freeList'[i] = freeList'[j] => i = j
      BY <1>4
    <2> QED BY <2>1, <2>2, <2>3, <2>4 DEF PoolDisjoint, InFree
  <1> QED BY <1>6, <1>7

LEMMA DisjointRelease ==
  ASSUME Typed, Owned, PoolDisjoint, NEW p \in Page, release(p), made' = made
  PROVE  Owned' /\ PoolDisjoint'
  <1>0. /\ live \in [Page -> Canvas \cup {None}] /\ freeList \in Seq(Canvas)
        /\ None \notin Page \cup Canvas
    BY PoolTypes, PoolAssumption
  <1>1. CASE live[p] = None
    <2>1. UNCHANGED <<live, freeList, gone, made>>
      BY <1>1 DEF release
    <2> QED BY <2>1 DEF Owned, PoolDisjoint, InFree, Live
  <1>2. CASE live[p] # None
    <2>1. p \in Live /\ live[p] \in made
      BY <1>2 DEF Owned, Live
    <2>2. \A q \in Page : live'[q] = IF q = p THEN None ELSE live[q]
      BY <1>0, <1>2 DEF release
    <2>3. \A q \in Live' : q \in Live /\ q # p /\ live'[q] = live[q] /\ live[q] # live[p]
      BY <2>1, <2>2 DEF Live, PoolDisjoint
    <2>4. ~InFree(live[p]) /\ live[p] \notin gone
      BY <2>1 DEF PoolDisjoint
    <2>5. CASE freeList' = Append(freeList, live[p]) /\ gone' = gone
      <3>1. DOMAIN freeList' = 1..(Len(freeList) + 1) /\ DOMAIN freeList = 1..Len(freeList)
            /\ Len(freeList) \in Nat
        BY <1>0, <2>1, <2>5
      <3>2. /\ \A i \in DOMAIN freeList : freeList'[i] = freeList[i]
            /\ freeList'[Len(freeList) + 1] = live[p]
        BY <1>0, <2>1, <2>5
      <3>3. \A i \in DOMAIN freeList' :
               \/ i \in DOMAIN freeList /\ freeList'[i] = freeList[i] /\ freeList[i] # live[p]
               \/ i = Len(freeList) + 1 /\ freeList'[i] = live[p]
        BY <2>4, <3>1, <3>2 DEF InFree
      <3>4. Owned'
        BY <2>1, <2>3, <2>5, <3>3 DEF Owned
      <3>5. \A i, j \in DOMAIN freeList' : freeList'[i] = freeList'[j] => i = j
        BY <3>3 DEF PoolDisjoint
      <3>6. \A q \in Live' : \A i \in DOMAIN freeList' : freeList'[i] # live'[q]
        BY <2>3, <3>3 DEF PoolDisjoint, InFree
      <3>7. \A d \in gone' : ~InFree(d)' /\ \A q \in Page : live'[q] # d
        <4> SUFFICES ASSUME NEW d \in gone PROVE ~InFree(d)' /\ \A q \in Page : live'[q] # d
          BY <2>5
        <4>1. d \in Canvas /\ d # None
          BY <1>0, PoolTypes
        <4>2. \A q \in Page : live'[q] # d
          BY <2>2, <4>1 DEF PoolDisjoint
        <4>3. ~InFree(d)'
          BY <2>4, <3>3 DEF PoolDisjoint, InFree
        <4> QED BY <4>2, <4>3
      <3>8. \A q, u \in Live' : live'[q] = live'[u] => q = u
        BY <2>3 DEF PoolDisjoint
      <3> QED BY <3>4, <3>5, <3>6, <3>7, <3>8 DEF PoolDisjoint, InFree
    <2>6. CASE freeList' = freeList /\ gone' = gone \cup {live[p]}
      <3>1. Owned'
        BY <2>1, <2>3, <2>6 DEF Owned
      <3>2. \A d \in gone' : ~InFree(d)' /\ \A q \in Page : live'[q] # d
        <4> SUFFICES ASSUME NEW d \in gone' PROVE ~InFree(d)' /\ \A q \in Page : live'[q] # d
          OBVIOUS
        <4>1. d \in Canvas /\ d # None /\ ~InFree(d)
          BY <1>0, <1>2, <2>4, <2>6, PoolTypes DEF PoolDisjoint
        <4>2. \A q \in Page : live'[q] # d
          BY <2>2, <2>3, <2>6, <4>1 DEF PoolDisjoint, Live
        <4> QED BY <2>6, <4>1, <4>2 DEF InFree
      <3>3. PoolDisjoint'
        BY <2>3, <2>6, <3>2 DEF PoolDisjoint, InFree
      <3> QED BY <3>1, <3>3
    <2> QED BY <1>2, <2>5, <2>6 DEF release
  <1> QED BY <1>1, <1>2

LEMMA DisjointDispose ==
  ASSUME Typed, Owned, PoolDisjoint, made' = made,
         live' = [p \in Page |-> None], freeList' = <<>>,
         gone' = gone \cup {live[p] : p \in Live} \cup {freeList[i] : i \in DOMAIN freeList}
  PROVE  Owned' /\ PoolDisjoint'
  <1>1. Live' = {} /\ DOMAIN freeList' = {}
    BY DEF Live
  <1>2. Owned'
    BY <1>1 DEF Owned
  <1>3. None \notin gone'
    <2>1. gone' \subseteq Canvas
      BY <1>2, PoolTypes DEF Owned
    <2> QED BY <2>1, PoolAssumption
  <1>4. \A d \in gone' : ~InFree(d)' /\ \A q \in Page : live'[q] # d
    BY <1>1, <1>3 DEF InFree
  <1> QED BY <1>1, <1>2, <1>4 DEF PoolDisjoint

\* A canvas is at one place in the pool, and a disposed one is nowhere in it.
THEOREM Disjoint == Spec => []PoolDisjoint
  <1>1. Init => Owned /\ PoolDisjoint
    BY DEF Init, Owned, PoolDisjoint, Live, InFree
  <1>2. ASSUME Typed, Owned, PoolDisjoint, [Next]_vars PROVE Owned' /\ PoolDisjoint'
    <2>1. ASSUME UNCHANGED <<live, freeList, gone, made>> PROVE Owned' /\ PoolDisjoint'
      BY <1>2, <2>1 DEF Owned, PoolDisjoint, InFree, Live
    <2>2. PoolStep
      BY <1>2, PoolSteps
    <2>3. ASSUME NEW p \in Page, NEW c \in Canvas, NEW v \in Page \cup {None}, Bind(p, c, v)
          PROVE  Owned' /\ PoolDisjoint'
      BY <1>2, <2>3, DisjointBind
    <2>4. ASSUME NEW p \in Page, release(p), made' = made PROVE Owned' /\ PoolDisjoint'
      BY <1>2, <2>4, DisjointRelease
    <2> QED BY <1>2, <2>1, <2>2, <2>3, <2>4, DisjointDispose DEF PoolStep
  <1> QED BY <1>1, <1>2, TypeInit, TypeNext, PTL DEF Spec

-----------------------------------------------------------------------------
(* The freshness of the backgrounds.  The version a promise carries is      *)
(* fixed when its document is open, and the renderer always holds the last   *)
(* bytes, so a rasterised background can only grow old by a later bake; that *)
(* bake drops it from the cache and bumps the page's revision.               *)

\* The renderer there is was opened from the bytes there are.
RendererCurrent ==
    /\ \A p \in Page : changed[p] <= bytes
    /\ renderer = latch
    /\ renderer # None => loads[renderer].bytes = bytes

Rendered(q) == q \in Run /\ renders[q].at \in {"encoding", "ready"}

\* What a run's position says of its promise, of its own as of the one it awaits.
PromiseShape ==
    \A r \in Run :
        /\ run[r].at \in {"new", "acquire", "acquired"} => /\ renders[r].at = "none"
                                                        /\ run[r].promise = None
        /\ run[r].at \in {"background", "image"} => run[r].promise \in Run
        /\ run[r].at = "image" => renders[run[r].promise].at = "ready"
        /\ run[r].shown => /\ run[r].at = "done" /\ run[r].promise \in Run
                          /\ renders[run[r].promise].at = "ready"

\* One run of a page at a time is not cancelled.
OneActive ==
    \A r, q \in Run : (Active(r) /\ Active(q) /\ run[r].page = run[q].page) => r = q

\* The background a run awaits or shows is that of the last bake of its page, or the
\* effect is about to run again.
AwaitedFresh ==
    \A r \in Run :
        (/\ Active(r) /\ run[r].at \in {"background", "image", "done"}
         /\ run[r].page \notin bump /\ Rendered(run[r].promise))
        => renders[run[r].promise].bytes >= changed[run[r].page]

Fresh == RendererCurrent /\ CacheFresh /\ PromiseShape /\ OneActive /\ AwaitedFresh

\* The numbers among the variables.
LEMMA FreshNumbers ==
  Typed => /\ bytes \in Nat /\ changed \in [Page -> Nat]
           /\ \A r \in Run : renders[r].bytes \in Nat /\ loads[r].bytes \in Nat
           /\ \A r \in Run : run[r].cancelled \in BOOLEAN /\ run[r].shown \in BOOLEAN
  <1> SUFFICES ASSUME Typed
               PROVE  /\ bytes \in Nat /\ changed \in [Page -> Nat]
                      /\ \A r \in Run : renders[r].bytes \in Nat /\ loads[r].bytes \in Nat
                      /\ \A r \in Run : run[r].cancelled \in BOOLEAN /\ run[r].shown \in BOOLEAN
    OBVIOUS
  <1>1. bytes \in Nat /\ changed \in [Page -> Nat]
    BY RendererTypes, PoolAssumption
  <1>2. \A r \in Run : renders[r].bytes \in Nat /\ loads[r].bytes \in Nat
    BY RendererTypes, PoolAssumption DEF Promise, Load
  <1>3. \A r \in Run : run[r].cancelled \in BOOLEAN /\ run[r].shown \in BOOLEAN
    BY RunTypes DEF EffectRun
  <1> QED BY <1>1, <1>2, <1>3

\* What the promises may do: a background that is rasterised keeps its version, and one
\* that becomes so has the current one; what is ready, or not begun, stays as it is.
PromisesStep ==
    /\ \A q \in Run : /\ renders'[q].at \in {"encoding", "ready"}
                      /\ ~(renders[q].at \in {"encoding", "ready"} /\ renders'[q].bytes = renders[q].bytes)
                      => renders'[q].bytes = bytes
    /\ \A q \in Run : renders[q].at = "ready" => renders'[q] = renders[q]
    /\ \A q \in Run : renders[q].at = "none" => renders'[q] = renders[q]

\* A promise's step, with no bake and no change of the hosts, keeps the pages fresh.
LEMMA FreshPromises ==
  ASSUME Typed, Fresh, PromisesStep, UNCHANGED <<bytes, changed, run, bump>>,
         RendererCurrent', \A p \in Page : bgCache'[p] \in {None, bgCache[p]}
  PROVE  Fresh'
  <1>1. CacheFresh'
    <2> SUFFICES ASSUME NEW p \in Page, bgCache[p] # None, bgCache'[p] = bgCache[p],
                        renders'[bgCache[p]].at \in {"encoding", "ready"}
                 PROVE  renders'[bgCache[p]].bytes >= changed[p]
      BY DEF CacheFresh
    <2>1. bgCache[p] \in Run
      BY RendererTypes
    <2> QED BY <2>1, FreshNumbers DEF PromisesStep, Fresh, CacheFresh, RendererCurrent
  <1>2. PromiseShape'
    BY DEF PromisesStep, Fresh, PromiseShape
  <1>3. OneActive'
    BY DEF Fresh, OneActive, Active
  <1>4. AwaitedFresh'
    <2> SUFFICES ASSUME NEW r \in Run, Active(r), run[r].at \in {"background", "image", "done"},
                        run[r].page \notin bump, run[r].promise \in Run,
                        renders'[run[r].promise].at \in {"encoding", "ready"}
                 PROVE  renders'[run[r].promise].bytes >= changed[run[r].page]
      BY DEF AwaitedFresh, Active, Rendered
    <2>1. run[r].page \in Page
      BY RunTypes DEF Shaped
    <2>2. changed[run[r].page] <= bytes /\ bytes \in Nat /\ changed[run[r].page] \in Nat
      BY <2>1, FreshNumbers DEF Fresh, RendererCurrent
    <2> QED BY <2>2 DEF PromisesStep, Fresh, AwaitedFresh, Rendered
  <1> QED BY <1>1, <1>2, <1>3, <1>4 DEF Fresh

LEMMA FreshLoadSucceeds ==
  ASSUME Typed, Fresh, NEW r \in Run, LoadSucceeds(r) PROVE Fresh'
  <1>1. /\ loads' = [loads EXCEPT ![r].at = "open"] /\ loads \in [Run -> Load]
        /\ UNCHANGED <<bytes, changed, run, bump, renderer, latch>>
    BY RendererTypes DEF LoadSucceeds
  <1>2. RendererCurrent'
    <2>1. \A q \in Run : loads'[q].bytes = loads[q].bytes
      BY <1>1 DEF Load
    <2> QED BY <1>1, <2>1, RendererTypes DEF Fresh, RendererCurrent
  <1>3. CASE renderer # None /\ loads'[renderer].at = "open"
    <2>1. /\ renders' = [q \in Run |-> IF q \in Waiting(r)
                             THEN [renders[q] EXCEPT !.at = "encoding", !.bytes = loads[renderer].bytes]
                             ELSE renders[q]]
          /\ bgCache' = bgCache
      BY <1>3 DEF LoadSucceeds
    <2>2. \A q \in Run : \/ renders'[q] = renders[q]
                         \/ /\ renders[q].at = "loading" /\ renders'[q].at = "encoding"
                            /\ renders'[q].bytes = bytes
      <3> TAKE q \in Run
      <3>1. renders[q] \in Promise /\ loads[renderer].bytes = bytes
        BY <1>3, RendererTypes DEF Fresh, RendererCurrent
      <3> QED BY <2>1, <3>1 DEF Waiting, Promise
    <2>3. PromisesStep
      BY <2>2 DEF PromisesStep
    <2> QED BY <1>1, <1>2, <2>1, <2>3, FreshPromises
  <1>4. CASE ~(renderer # None /\ loads'[renderer].at = "open")
    <2>1. Reject(Waiting(r))
      BY <1>4 DEF LoadSucceeds
    <2>2. \A q \in Run : \/ renders'[q] = renders[q]
                         \/ renders[q].at = "loading" /\ renders'[q].at = "failed"
      BY <2>1, RendererTypes DEF Reject, Waiting, Promise
    <2>3. PromisesStep
      BY <2>2 DEF PromisesStep
    <2>4. \A p \in Page : bgCache'[p] \in {None, bgCache[p]}
      BY <2>1 DEF Reject
    <2> QED BY <1>1, <1>2, <2>3, <2>4, FreshPromises
  <1> QED BY <1>3, <1>4

LEMMA FreshLoadFails ==
  ASSUME Typed, Fresh, NEW r \in Run, LoadFails(r) PROVE Fresh'
  <1>1. Reject(Waiting(r)) /\ UNCHANGED <<bytes, changed, run, bump>>
    BY DEF LoadFails
  <1>2. RendererCurrent'
    BY DEF LoadFails, Fresh, RendererCurrent
  <1>3. \A q \in Run : \/ renders'[q] = renders[q]
                       \/ renders[q].at = "loading" /\ renders'[q].at = "failed"
    BY <1>1, RendererTypes DEF Reject, Waiting, Promise
  <1>4. PromisesStep /\ \A p \in Page : bgCache'[p] \in {None, bgCache[p]}
    BY <1>1, <1>3 DEF PromisesStep, Reject
  <1> QED BY <1>1, <1>2, <1>4, FreshPromises

LEMMA FreshRenderEnds ==
  ASSUME Typed, Fresh, NEW r \in Run, RenderEnds(r) PROVE Fresh'
  <1>1. UNCHANGED <<bytes, changed, run, bump, renderer, latch, loads>> /\ renders[r].at = "encoding"
    BY DEF RenderEnds
  <1>2. RendererCurrent'
    BY <1>1 DEF Fresh, RendererCurrent
  <1>3. \/ renders' = [renders EXCEPT ![r].at = "ready"] /\ bgCache' = bgCache
        \/ Reject({r})
    BY DEF RenderEnds
  <1>4. \A p \in Page : bgCache'[p] \in {None, bgCache[p]}
    BY <1>3 DEF Reject
  <1>5. \A q \in Run : \/ renders'[q] = renders[q]
                       \/ renders[q].at = "encoding" /\ renders'[q].bytes = renders[q].bytes
    BY <1>1, <1>3, RendererTypes DEF Reject, Promise
  <1>6. PromisesStep
    BY <1>5 DEF PromisesStep
  <1> QED BY <1>1, <1>2, <1>4, <1>6, FreshPromises

\* A run's record becomes e: it ends, is cancelled, or goes on to what it awaits next.
Moves(r, e) ==
    \/ e = Over
    \/ /\ run[r].at # "new" /\ e.at # "new"
       /\ e.page = run[r].page /\ e.promise = run[r].promise
       /\ run[r].cancelled => e.cancelled
       /\ e.at \in {"acquire", "acquired"} => run[r].at \in {"acquire", "acquired"}
       /\ e.at = "background" => run[r].at = "background"
       /\ e.at = "image" => run[r].at = "image"
                              \/ (run[r].at = "background" /\ renders[run[r].promise].at = "ready")
       /\ e.at = "done" => run[r].at \in {"background", "image", "done"} \/ run[r].promise = None
       /\ e.shown => e.at = "done" /\ (run[r].shown \/ run[r].at = "image")

LEMMA FreshRun ==
  ASSUME Typed, Fresh, NEW r \in Run, NEW e, Moves(r, e), run' = [run EXCEPT ![r] = e],
         UNCHANGED <<bytes, changed, renderVars>>,
         bump' = bump \/ (bump' = bump \ {run[r].page} /\ Active(r) /\ e.cancelled)
  PROVE  Fresh'
  <1>0. run \in [Run -> EffectRun] /\ run'[r] = e /\ \A q \in Run : q # r => run'[q] = run[q]
    BY RunTypes
  <1>1. UNCHANGED <<renderer, latch, loads, bgCache, renders>>
    BY DEF renderVars
  <1>2. RendererCurrent' /\ CacheFresh'
    BY <1>1 DEF Fresh, RendererCurrent, CacheFresh
  <1>3. /\ Over.at = "over" /\ Over.cancelled = TRUE /\ Over.shown = FALSE
    BY DEF Over, NewRun
  <1>4. PromiseShape'
    <2> SUFFICES ASSUME NEW q \in Run
                 PROVE  /\ run'[q].at \in {"new", "acquire", "acquired"} =>
                              renders[q].at = "none" /\ run'[q].promise = None
                        /\ run'[q].at \in {"background", "image"} => run'[q].promise \in Run
                        /\ run'[q].at = "image" => renders[run'[q].promise].at = "ready"
                        /\ run'[q].shown => /\ run'[q].at = "done" /\ run'[q].promise \in Run
                                           /\ renders[run'[q].promise].at = "ready"
      BY <1>1 DEF PromiseShape
    <2>1. CASE q # r
      BY <1>0, <2>1 DEF Fresh, PromiseShape
    <2>2. CASE q = r
      BY <1>0, <1>3, <2>2 DEF Fresh, PromiseShape, Moves
    <2> QED BY <2>1, <2>2
  <1>5. \A q \in Run : Active(q)' => Active(q) /\ run'[q].page = run[q].page
    <2> TAKE q \in Run
    <2>1. CASE q # r
      BY <1>0, <2>1 DEF Active
    <2>2. CASE q = r
      BY <1>0, <1>3, <2>2 DEF Active, Moves
    <2> QED BY <2>1, <2>2
  <1>6. OneActive'
    BY <1>5 DEF Fresh, OneActive
  <1>7. AwaitedFresh'
    <2> SUFFICES ASSUME NEW q \in Run, Active(q)', run'[q].at \in {"background", "image", "done"},
                        run'[q].page \notin bump', run'[q].promise \in Run,
                        renders[run'[q].promise].at \in {"encoding", "ready"}
                 PROVE  renders[run'[q].promise].bytes >= changed[run'[q].page]
      BY <1>1 DEF AwaitedFresh, Rendered
    <2>1. Active(q) /\ run'[q].page = run[q].page
      BY <1>5
    <2>2. run[q].page \notin bump
      <3>1. CASE bump' = bump
        BY <2>1, <3>1
      <3>2. CASE bump' = bump \ {run[r].page} /\ Active(r) /\ e.cancelled
        <4>1. q # r
          BY <1>0, <3>2 DEF Active
        <4>2. run[q].page # run[r].page
          BY <2>1, <3>2, <4>1 DEF Fresh, OneActive
        <4> QED BY <2>1, <3>2, <4>2
      <3> QED BY <3>1, <3>2
    <2>3. run'[q].promise = run[q].promise /\ run[q].at \in {"background", "image", "done"}
      <3>1. CASE q # r
        BY <1>0, <3>1
      <3>2. CASE q = r
        <4>1. e # Over
          BY <1>0, <1>3, <3>2
        <4>2. run[r].promise # None
          BY <1>0, <3>2, <4>1, PoolAssumption DEF Moves
        <4> QED BY <1>0, <3>2, <4>1, <4>2 DEF Moves
      <3> QED BY <3>1, <3>2
    <2> QED BY <2>1, <2>2, <2>3 DEF Fresh, AwaitedFresh, Rendered
  <1> QED BY <1>2, <1>4, <1>6, <1>7 DEF Fresh

LEMMA FreshAcquireResumes ==
  ASSUME Typed, Fresh, NEW r \in Run, AcquireResumes(r) PROVE Fresh'
  <1>1. PICK c \in Canvas : run' = [run EXCEPT ![r] = [run[r] EXCEPT !.at = "acquired", !.canvas = c]]
    BY DEF AcquireResumes
  <1> DEFINE e == [run[r] EXCEPT !.at = "acquired", !.canvas = c]
  <1>2. run[r] \in EffectRun /\ run[r].at = "acquire" /\ run[r].shown = FALSE
    BY RunTypes DEF AcquireResumes, Fresh, PromiseShape, EffectRun
  <1>3. Moves(r, e)
    BY <1>2 DEF Moves, EffectRun
  <1> HIDE DEF e
  <1>4. UNCHANGED <<bytes, changed, renderVars, bump>>
    BY DEF AcquireResumes
  <1>5. run' = [run EXCEPT ![r] = e]
    BY <1>1 DEF e
  <1> QED BY <1>3, <1>4, <1>5, FreshRun

LEMMA FreshHostRendered ==
  ASSUME Typed, Fresh, NEW r \in Run, HostRendered(r) PROVE Fresh'
  <1> DEFINE e == IF run[r].cancelled THEN Over
                  ELSE [run[r] EXCEPT !.at = IF renders[run[r].promise].at = "ready" THEN "image"
                                             ELSE "done"]
  <1>1. run[r] \in EffectRun /\ run[r].at = "background" /\ run[r].shown = FALSE
    BY RunTypes DEF HostRendered, Fresh, PromiseShape, EffectRun
  <1>2. Moves(r, e)
    BY <1>1 DEF Moves, EffectRun
  <1>3. run' = [run EXCEPT ![r] = e]
    BY DEF HostRendered
  <1> HIDE DEF e
  <1>4. UNCHANGED <<bytes, changed, renderVars, bump>>
    BY DEF HostRendered
  <1> QED BY <1>2, <1>3, <1>4, FreshRun

LEMMA FreshHostDraws ==
  ASSUME Typed, Fresh, NEW r \in Run, HostDraws(r) PROVE Fresh'
  <1> DEFINE e == [run[r] EXCEPT !.at = "done", !.shown = TRUE]
             f == [run[r] EXCEPT !.at = "done"]
  <1>1. run[r] \in EffectRun /\ run[r].at = "image" /\ run[r].shown = FALSE
    BY RunTypes DEF HostDraws, Fresh, PromiseShape, EffectRun
  <1>2. Moves(r, e) /\ Moves(r, f) /\ Moves(r, Over)
    BY <1>1 DEF Moves, EffectRun
  <1>3. \/ run' = [run EXCEPT ![r] = e] \/ run' = [run EXCEPT ![r] = f]
        \/ run' = [run EXCEPT ![r] = Over]
    BY DEF HostDraws
  <1> HIDE DEF e, f
  <1>4. UNCHANGED <<bytes, changed, renderVars, bump>>
    BY DEF HostDraws
  <1> QED BY <1>2, <1>3, <1>4, FreshRun

LEMMA FreshTeardown ==
  ASSUME Typed, Fresh, NEW r \in Run, Teardown(r) PROVE Fresh'
  <1> DEFINE e == IF run[r].at = "done" THEN Over
                  ELSE [run[r] EXCEPT !.cancelled = TRUE, !.held = FALSE]
  <1>1. run[r] \in EffectRun /\ Active(r)
    BY RunTypes DEF Teardown
  <1>2. e.cancelled = TRUE
    BY <1>1 DEF Over, NewRun, EffectRun
  <1>3. Moves(r, e)
    BY <1>1 DEF Moves, EffectRun, Active, Fresh, PromiseShape
  <1>4. run' = [run EXCEPT ![r] = e]
    BY DEF Teardown
  <1> HIDE DEF e
  <1>5. UNCHANGED <<bytes, changed, renderVars>> /\ bump' = bump \ {run[r].page}
    BY DEF Teardown
  <1> QED BY <1>1, <1>2, <1>3, <1>4, <1>5, FreshRun

LEMMA FreshMount ==
  ASSUME Typed, Fresh, NEW r \in Run, NEW p \in Page, Mount(r, p) PROVE Fresh'
  <1> DEFINE e == IF disposed THEN Over
                  ELSE [run[r] EXCEPT !.page = p, !.canvas = live[p],
                          !.at = IF live[p] # None THEN "acquired" ELSE "acquire"]
  <1>1. /\ run[r] \in EffectRun /\ run[r].at = "new"
        /\ \A q \in Run : run[q].page = p => ~Active(q)
        /\ UNCHANGED <<bytes, changed, renderer, latch, loads, bgCache, renders>>
        /\ bump' = bump \ {p}
    BY RunTypes DEF Mount, renderVars
  <1>2. run' = [run EXCEPT ![r] = e]
    BY DEF Mount
  <1>3. /\ e.at \in {"over", "acquire", "acquired"} /\ e.promise = None /\ e.shown = FALSE
        /\ e.cancelled \/ e.page = p
    <2>1. run[r].promise = None /\ run[r].shown = FALSE
      BY <1>1 DEF Fresh, PromiseShape, EffectRun
    <2>2. CASE disposed
      BY <2>2 DEF Over, NewRun
    <2>3. CASE ~disposed
      BY <1>1, <2>1, <2>3 DEF EffectRun
    <2> QED BY <2>2, <2>3
  <1> HIDE DEF e
  <1>4. run'[r] = e /\ \A q \in Run : q # r => run'[q] = run[q]
    BY <1>2, RunTypes
  <1>5. RendererCurrent' /\ CacheFresh'
    BY <1>1 DEF Fresh, RendererCurrent, CacheFresh
  <1>6. PromiseShape'
    <2> SUFFICES ASSUME NEW q \in Run
                 PROVE  /\ run'[q].at \in {"new", "acquire", "acquired"} =>
                              renders[q].at = "none" /\ run'[q].promise = None
                        /\ run'[q].at \in {"background", "image"} => run'[q].promise \in Run
                        /\ run'[q].at = "image" => renders[run'[q].promise].at = "ready"
                        /\ run'[q].shown => /\ run'[q].at = "done" /\ run'[q].promise \in Run
                                           /\ renders[run'[q].promise].at = "ready"
      BY <1>1 DEF PromiseShape
    <2>1. CASE q # r
      BY <1>4, <2>1 DEF Fresh, PromiseShape
    <2>2. CASE q = r
      BY <1>1, <1>3, <1>4, <2>2 DEF Fresh, PromiseShape
    <2> QED BY <2>1, <2>2
  <1>7. \A q \in Run : q # r /\ Active(q)' => Active(q) /\ run'[q].page = run[q].page /\ run[q].page # p
    BY <1>1, <1>4 DEF Active
  <1>8. OneActive'
    <2> SUFFICES ASSUME NEW q \in Run, NEW u \in Run, Active(q)', Active(u)',
                        run'[q].page = run'[u].page
                 PROVE  q = u
      BY DEF OneActive
    <2>1. CASE q # r /\ u # r
      BY <1>7, <2>1 DEF Fresh, OneActive
    <2>2. ASSUME Active(r)' PROVE run'[r].page = p
      BY <1>3, <1>4, <2>2 DEF Active
    <2>3. CASE q = r \/ u = r
      BY <1>7, <2>2, <2>3
    <2> QED BY <2>1, <2>3
  <1>9. AwaitedFresh'
    <2> SUFFICES ASSUME NEW q \in Run, Active(q)', run'[q].at \in {"background", "image", "done"},
                        run'[q].page \notin bump', run'[q].promise \in Run,
                        renders[run'[q].promise].at \in {"encoding", "ready"}
                 PROVE  renders[run'[q].promise].bytes >= changed[run'[q].page]
      BY <1>1 DEF AwaitedFresh, Rendered
    <2>1. q # r
      BY <1>3, <1>4
    <2>2. Active(q) /\ run'[q] = run[q] /\ run[q].page # p
      BY <1>4, <1>7, <2>1
    <2> QED BY <1>1, <2>2 DEF Fresh, AwaitedFresh, Rendered
  <1> QED BY <1>5, <1>6, <1>8, <1>9 DEF Fresh

\* The background a page is given: the cached one, or a new one of the current bytes.
LEMMA FreshHostAcquired ==
  ASSUME Typed, Fresh, NEW r \in Run, HostAcquired(r) PROVE Fresh'
  <1>1. /\ run[r] \in EffectRun /\ run[r].at = "acquired" /\ run[r].page \in Page
        /\ renders[r].at = "none" /\ run[r].promise = None /\ run[r].shown = FALSE
        /\ UNCHANGED <<bytes, changed, bump>>
    BY RunTypes DEF HostAcquired, Fresh, PromiseShape, EffectRun, Shaped
  <1>2. CASE run[r].cancelled
    <2>1. run' = [run EXCEPT ![r] = Over] /\ UNCHANGED renderVars
      BY <1>2 DEF HostAcquired
    <2>2. Moves(r, Over)
      BY DEF Moves
    <2> QED BY <1>1, <2>1, <2>2, FreshRun
  <1>3. CASE ~run[r].cancelled /\ disposed
    <2> DEFINE e == [run[r] EXCEPT !.at = "done", !.held = TRUE]
    <2>1. run' = [run EXCEPT ![r] = e] /\ UNCHANGED renderVars
      BY <1>3 DEF HostAcquired
    <2>2. Moves(r, e)
      BY <1>1 DEF Moves, EffectRun
    <2> HIDE DEF e
    <2> QED BY <1>1, <2>1, <2>2, FreshRun
  <1>4. CASE ~run[r].cancelled /\ ~disposed
    <2> DEFINE p == run[r].page
               e == [run[r] EXCEPT !.at = "background", !.held = TRUE, !.promise = bgCache'[p]]
    <2>1. renderBackground(r, p) /\ run' = [run EXCEPT ![r] = e]
      BY <1>4 DEF HostAcquired
    <2>2. bgCache'[p] \in Run /\ renders' \in [Run -> Promise]
      BY <1>1, <2>1, RenderType
    <2>3. e.at = "background" /\ e.promise = bgCache'[p] /\ e.page = p /\ e.shown = FALSE
      BY <1>1 DEF EffectRun
    <2> HIDE DEF e
    <2>4. run'[r] = e /\ \A q \in Run : q # r => run'[q] = run[q]
      BY <2>1, RunTypes
    <2>5. RendererCurrent'
      <3>1. CASE UNCHANGED <<renderer, latch, loads>>
        BY <1>1, <3>1 DEF Fresh, RendererCurrent
      <3>2. CASE renderer' = r /\ latch' = r /\ loads' = [loads EXCEPT ![r] = [at |-> "loading", bytes |-> bytes]]
        BY <1>1, <3>2, RendererTypes DEF Fresh, RendererCurrent
      <3> QED BY <2>1, <3>1, <3>2 DEF renderBackground, ensureRenderer, renderVars
    <2>6. /\ \A q \in Run : q # r => renders'[q] = renders[q]
          /\ renders'[r] = renders[r] \/ renders'[r].bytes = bytes
          /\ \A q \in Page : bgCache'[q] = bgCache[q] \/ bgCache'[q] = r
      <3>1. CASE bgCache[p] # None
        BY <2>1, <3>1 DEF renderBackground, renderVars
      <3>2. CASE bgCache[p] = None
        <4>1. latch' \in Run
          BY <2>1, <3>2, RendererTypes DEF renderBackground, ensureRenderer
        <4>2. loads'[latch'].bytes = bytes
          BY <1>1, <2>5, <4>1, PoolAssumption DEF RendererCurrent
        <4>3. renders'[r].bytes = bytes /\ \A q \in Run : q # r => renders'[q] = renders[q]
          BY <2>1, <3>2, <4>2, RendererTypes DEF renderBackground
        <4>4. bgCache' = [bgCache EXCEPT ![p] = r]
          BY <2>1, <3>2 DEF renderBackground
        <4>5. \A q \in Page : bgCache'[q] = bgCache[q] \/ bgCache'[q] = r
          <5>1. bgCache \in [Page -> Run \cup {None}]
            BY RendererTypes
          <5> QED BY <4>4, <5>1
        <4> QED BY <4>3, <4>5
      <3> QED BY <3>1, <3>2
    <2>7. \A q \in Page : changed[q] <= bytes /\ changed[q] \in Nat /\ bytes \in Nat
      BY FreshNumbers DEF Fresh, RendererCurrent
    <2>8. CacheFresh'
      <3> SUFFICES ASSUME NEW q \in Page, bgCache'[q] # None,
                          renders'[bgCache'[q]].at \in {"encoding", "ready"}
                   PROVE  renders'[bgCache'[q]].bytes >= changed[q]
        BY <1>1 DEF CacheFresh
      <3>1. bgCache'[q] \in Run
        BY <1>1, <2>1, RenderType
      <3>2. CASE bgCache'[q] = r /\ renders'[r].bytes = bytes
        BY <2>7, <3>2
      <3>3. CASE renders'[bgCache'[q]] = renders[bgCache'[q]]
        <4>1. CASE bgCache'[q] = bgCache[q]
          BY <3>3, <4>1 DEF Fresh, CacheFresh
        <4>2. CASE bgCache'[q] = r
          BY <1>1, <3>3, <4>2
        <4> QED BY <2>6, <4>1, <4>2
      <3> QED BY <2>6, <3>1, <3>2, <3>3
    <2>9. PromiseShape'
      <3>1. \A q \in Run : renders[q].at = "ready" => renders'[q] = renders[q]
        BY <1>1, <2>6
      <3> SUFFICES ASSUME NEW q \in Run
                   PROVE  /\ run'[q].at \in {"new", "acquire", "acquired"} =>
                                renders'[q].at = "none" /\ run'[q].promise = None
                          /\ run'[q].at \in {"background", "image"} => run'[q].promise \in Run
                          /\ run'[q].at = "image" => renders'[run'[q].promise].at = "ready"
                          /\ run'[q].shown => /\ run'[q].at = "done" /\ run'[q].promise \in Run
                                             /\ renders'[run'[q].promise].at = "ready"
        BY DEF PromiseShape
      <3>2. CASE q # r
        BY <2>4, <2>6, <3>1, <3>2 DEF Fresh, PromiseShape
      <3>3. CASE q = r
        BY <2>2, <2>3, <2>4, <3>3
      <3> QED BY <3>2, <3>3
    <2>10. \A q \in Run : Active(q)' => Active(q) /\ run'[q].page = run[q].page
      BY <1>1, <1>4, <2>3, <2>4 DEF Active
    <2>11. OneActive'
      BY <2>10 DEF Fresh, OneActive
    <2>12. AwaitedFresh'
      <3> SUFFICES ASSUME NEW q \in Run, Active(q)', run'[q].at \in {"background", "image", "done"},
                          run'[q].page \notin bump, run'[q].promise \in Run,
                          renders'[run'[q].promise].at \in {"encoding", "ready"}
                   PROVE  renders'[run'[q].promise].bytes >= changed[run'[q].page]
        BY <1>1 DEF AwaitedFresh, Rendered
      <3>1. CASE q = r
        BY <1>1, <2>2, <2>3, <2>4, <2>8, <3>1, PoolAssumption DEF CacheFresh
      <3>2. CASE q # r
        <4>1. run'[q] = run[q] /\ Active(q)
          BY <2>4, <2>10, <3>2
        <4>2. run[q].page \in Page
          BY <4>1, RunTypes DEF Shaped
        <4>3. CASE run[q].promise = r
          BY <1>1, <2>6, <2>7, <4>1, <4>2, <4>3
        <4>4. CASE run[q].promise # r
          BY <2>6, <4>1, <4>4 DEF Fresh, AwaitedFresh, Rendered
        <4> QED BY <4>3, <4>4
      <3> QED BY <3>1, <3>2
    <2> QED BY <2>5, <2>8, <2>9, <2>11, <2>12 DEF Fresh
  <1> QED BY <1>2, <1>3, <1>4

\* The bake drops the pages it changed from the cache and bumps their revisions.
LEMMA FreshReplaceBytes ==
  ASSUME Typed, Fresh, NEW S \in SUBSET Page, replaceBytes(S) PROVE Fresh'
  <1>1. /\ bytes' = bytes + 1 /\ renderer' = None /\ latch' = None
        /\ UNCHANGED <<renders, run>>
        /\ \A p \in Page : /\ bgCache'[p] = IF p \in S THEN None ELSE bgCache[p]
                           /\ changed'[p] = IF p \in S THEN bytes + 1 ELSE changed[p]
        /\ bump' = bump \cup S
    BY DEF replaceBytes, Invalidate, Bumped
  <1>2. RendererCurrent'
    BY <1>1, FreshNumbers DEF Fresh, RendererCurrent
  <1>3. CacheFresh'
    BY <1>1 DEF Fresh, CacheFresh
  <1>4. PromiseShape' /\ OneActive'
    BY <1>1 DEF Fresh, PromiseShape, OneActive, Active
  <1>5. AwaitedFresh'
    <2> SUFFICES ASSUME NEW q \in Run, Active(q), run[q].at \in {"background", "image", "done"},
                        run[q].page \notin bump', Rendered(run[q].promise)
                 PROVE  renders[run[q].promise].bytes >= changed'[run[q].page]
      BY <1>1 DEF AwaitedFresh, Rendered, Active
    <2>1. run[q].page \in Page
      BY RunTypes DEF Shaped
    <2> QED BY <1>1, <2>1 DEF Fresh, AwaitedFresh
  <1> QED BY <1>2, <1>3, <1>4, <1>5 DEF Fresh

LEMMA FreshDispose ==
  ASSUME Typed, Fresh, dispose PROVE Fresh'
  <1>1. /\ renderer' = None /\ latch' = None /\ bgCache' = [p \in Page |-> None]
        /\ UNCHANGED <<bytes, changed, renders, run, bump>>
    BY DEF dispose
  <1> QED BY <1>1 DEF Fresh, RendererCurrent, CacheFresh, PromiseShape, OneActive, AwaitedFresh,
                      Active, Rendered

LEMMA FreshInit == Init => Fresh
  BY PoolAssumption DEF Init, Fresh, RendererCurrent, CacheFresh, PromiseShape, OneActive, AwaitedFresh,
     Active, Rendered, NewRun

LEMMA FreshNext == ASSUME Typed, Fresh, [Next]_vars PROVE Fresh'
  <1>1. ASSUME NEW r \in Run, RunStep(r) PROVE Fresh'
    BY <1>1, FreshLoadSucceeds, FreshLoadFails, FreshRenderEnds, FreshAcquireResumes,
       FreshHostAcquired, FreshHostRendered, FreshHostDraws DEF RunStep
  <1>2. ASSUME NEW r \in Run, Teardown(r) PROVE Fresh'
    BY <1>2, FreshTeardown
  <1>3. ASSUME NEW r \in Run, NEW p \in Page, Mount(r, p) PROVE Fresh'
    BY <1>3, FreshMount
  <1>4. ASSUME NEW S \in SUBSET Page, replaceBytes(S) PROVE Fresh'
    BY <1>4, FreshReplaceBytes
  <1>5. ASSUME dispose PROVE Fresh'
    BY <1>5, FreshDispose
  <1>6. CASE UNCHANGED vars
    BY <1>6 DEF vars, renderVars, Fresh, RendererCurrent, CacheFresh, PromiseShape, OneActive,
                AwaitedFresh, Active, Rendered
  <1> QED BY <1>1, <1>2, <1>3, <1>4, <1>5, <1>6 DEF Next

\* A cached background, once rasterised, is that of the last bake of its page, although
\* the bytes are replaced while documents load and pages are rasterised.
THEOREM CacheIsFresh == Spec => []CacheFresh
  <1>1. Fresh => CacheFresh
    BY DEF Fresh
  <1> QED BY <1>1, TypeInit, TypeNext, FreshInit, FreshNext, PTL DEF Spec

\* A mounted host shows its page as last baked, unless its effect is about to run again.
THEOREM ShownIsFresh == Spec => []ShownFresh
  <1>1. Typed /\ Fresh => ShownFresh
    BY DEF Fresh, PromiseShape, AwaitedFresh, Rendered, ShownFresh
  <1> QED BY <1>1, TypeInit, TypeNext, FreshInit, FreshNext, PTL DEF Spec

-----------------------------------------------------------------------------
(* The exclusive use of a canvas.  A run that awaits its canvas is alone on  *)
(* its page as long as none begins meanwhile, so that the release of a       *)
(* cancelled run, and the cleanup of a mounted one, free no canvas but theirs.*)

Waits(r) == run[r].at \in {"acquire", "acquired"}
Holding(r) == run[r].held \/ run[r].at = "acquired"

\* Canvas c is page p's, or was evicted.
Kept(p, c) == c \in Canvas /\ (c \in gone \/ live[p] = c)

\* It is so after the step.
KeptNext(p, c) == c \in Canvas /\ (c \in gone' \/ live'[p] = c)

HeldShape ==
    \A r \in Run : run[r].held => ~run[r].cancelled /\ run[r].at \notin {"new", "over", "acquire", "acquired"}

WaitsAlone ==
    \A r, q \in Run : (Waits(r) /\ r # q /\ run[q].page = run[r].page) => ~Waits(q) /\ ~run[q].held

Exclusive ==
    /\ HeldShape
    /\ ~raced => WaitsAlone /\ \A r \in Run : Holding(r) => Kept(run[r].page, run[r].canvas)

\* A step of the pool for page q leaves what page p has with it.
LEMMA KeptByOthers ==
  ASSUME Typed, NEW p \in Page, NEW d, Kept(p, d),
         \/ \E q \in Page : q # p /\ (release(q) \/ \E c \in Canvas, v \in Page \cup {None} : Bind(q, c, v))
         \/ dispose
  PROVE  KeptNext(p, d)
  <1>0. live \in [Page -> Canvas \cup {None}] /\ None \notin Page \cup Canvas
    BY PoolTypes, PoolAssumption
  <1>1. ASSUME NEW q \in Page, q # p, release(q) PROVE KeptNext(p, d)
    <2>1. live'[p] = live[p] /\ gone \subseteq gone'
      BY <1>0, <1>1 DEF release
    <2> QED BY <2>1 DEF Kept, KeptNext
  <1>2. ASSUME NEW q \in Page, q # p, NEW c \in Canvas, NEW v \in Page \cup {None}, Bind(q, c, v)
        PROVE  KeptNext(p, d)
    <2>1. live'[p] = (IF p = v THEN None ELSE live[p]) /\ gone' = (IF v = None THEN gone ELSE gone \cup {live[v]})
      BY <1>2 DEF Bind
    <2> QED BY <1>0, <2>1 DEF Kept, KeptNext
  <1>3. ASSUME dispose PROVE KeptNext(p, d)
    <2>1. gone' = gone \cup {live[q] : q \in Live} \cup {freeList[i] : i \in DOMAIN freeList}
      BY <1>3 DEF dispose
    <2>2. live[p] = d => p \in Live
      BY <1>0 DEF Kept, Live
    <2> QED BY <2>1, <2>2 DEF Kept, KeptNext
  <1> QED BY <1>1, <1>2, <1>3

\* A run's record becomes e, and the pool serves only its page.
LEMMA ExclusiveRun ==
  ASSUME Typed, OneActive, Exclusive, raced' = raced, NEW r \in Run, NEW e,
         run' = [run EXCEPT ![r] = e], Waits(r) \/ run[r].held \/ UNCHANGED <<live, gone>>,
         \/ UNCHANGED <<live, gone>>
         \/ run[r].page \in Page /\ release(run[r].page)
         \/ run[r].page \in Page /\ \E c \in Canvas, v \in Page \cup {None} : Bind(run[r].page, c, v),
         e.held => ~e.cancelled /\ e.at \notin {"new", "over", "acquire", "acquired"},
         e.held => (run[r].held \/ Waits(r)) /\ e.page = run[r].page,
         e.at \in {"acquire", "acquired"} => Waits(r) /\ e.page = run[r].page,
         ~raced /\ (e.held \/ e.at = "acquired") => KeptNext(e.page, e.canvas)
  PROVE  Exclusive'
  <1>0. run'[r] = e /\ \A q \in Run : q # r => run'[q] = run[q]
    BY RunTypes
  <1>1. HeldShape'
    BY <1>0 DEF Exclusive, HeldShape
  <1>2. ASSUME ~raced PROVE WaitsAlone'
    <2> SUFFICES ASSUME NEW q \in Run, NEW u \in Run, run'[q].at \in {"acquire", "acquired"}, q # u,
                        run'[u].page = run'[q].page
                 PROVE  run'[u].at \notin {"acquire", "acquired"} /\ ~run'[u].held
      BY DEF WaitsAlone, Waits
    <2>1. CASE q = r
      BY <1>0, <1>2, <2>1 DEF Exclusive, WaitsAlone, Waits
    <2>2. CASE u = r
      BY <1>0, <1>2, <2>2 DEF Exclusive, WaitsAlone, Waits
    <2>3. CASE q # r /\ u # r
      BY <1>0, <1>2, <2>3 DEF Exclusive, WaitsAlone, Waits
    <2> QED BY <2>1, <2>2, <2>3
  <1>3. ASSUME ~raced, NEW q \in Run, Holding(q)' PROVE Kept(run[q].page, run[q].canvas)' \/ q = r
    <2> SUFFICES ASSUME q # r PROVE Kept(run[q].page, run[q].canvas)'
      OBVIOUS
    <2>1. Holding(q) /\ run'[q] = run[q]
      BY <1>0, <1>3 DEF Holding
    <2>2. Kept(run[q].page, run[q].canvas) /\ run[q].page \in Page
      BY <1>3, <2>1, RunTypes DEF Exclusive, Holding, Shaped
    <2>3. CASE UNCHANGED <<live, gone>>
      BY <2>1, <2>2, <2>3 DEF Kept, KeptNext
    <2>4. CASE Waits(r) \/ run[r].held
      <3>1. run[q].page # run[r].page
        <4>1. CASE Waits(r)
          BY <1>3, <2>1, <4>1 DEF Exclusive, WaitsAlone, Holding, Waits
        <4>2. CASE run[r].held /\ run[q].at = "acquired"
          BY <1>3, <4>2 DEF Exclusive, WaitsAlone, Waits
        <4>3. CASE run[r].held /\ run[q].held
          BY <4>3 DEF Exclusive, HeldShape, OneActive, Active
        <4> QED BY <2>1, <2>4, <4>1, <4>2, <4>3 DEF Holding
      <3> DEFINE p == run[q].page
                 d == run[q].canvas
      <3>2. KeptNext(p, d) \/ UNCHANGED <<live, gone>>
        BY <2>1, <2>2, <3>1, KeptByOthers DEF Kept, KeptNext
      <3> QED BY <2>1, <2>2, <3>2 DEF Kept, KeptNext
    <2> QED BY <2>3, <2>4
  <1>4. ASSUME ~raced, Holding(r)' PROVE Kept(run[r].page, run[r].canvas)'
    BY <1>0, <1>4 DEF Holding, Kept, KeptNext
  <1> QED BY <1>1, <1>2, <1>3, <1>4 DEF Exclusive

\* A step that leaves the runs, the bound and the disposed canvases alone.
LEMMA ExclusiveSame ==
  ASSUME Exclusive, UNCHANGED <<run, live, gone, raced>> PROVE Exclusive'
  BY DEF Exclusive, HeldShape, WaitsAlone, Waits, Holding, Kept, KeptNext

LEMMA OverIs ==
  Over.at = "over" /\ Over.held = FALSE /\ Over.cancelled = TRUE
  BY DEF Over, NewRun

LEMMA ExclusiveAcquireResumes ==
  ASSUME Typed, OneActive, Exclusive, NEW r \in Run, AcquireResumes(r) PROVE Exclusive'
  <1>1. PICK c \in Canvas, v \in Page \cup {None} :
           /\ Bind(run[r].page, c, v)
           /\ run' = [run EXCEPT ![r] = [run[r] EXCEPT !.at = "acquired", !.canvas = c]]
    BY DEF AcquireResumes
  <1> DEFINE e == [run[r] EXCEPT !.at = "acquired", !.canvas = c]
  <1>2. Waits(r) /\ run[r] \in EffectRun /\ run[r].page \in Page /\ ~run[r].held /\ raced' = raced
    BY RunTypes DEF AcquireResumes, Waits, Shaped, Exclusive, HeldShape
  <1>3. e.page = run[r].page /\ e.canvas = c /\ e.held = FALSE /\ e.at = "acquired"
    BY <1>2 DEF EffectRun
  <1>4. live'[run[r].page] = c
    BY <1>1, <1>2 DEF Bind
  <1>5. run' = [run EXCEPT ![r] = e]
    BY <1>1
  <1> HIDE DEF e
  <1>6. KeptNext(e.page, e.canvas)
    BY <1>3, <1>4 DEF Kept, KeptNext
  <1> QED BY <1>1, <1>2, <1>3, <1>5, <1>6, ExclusiveRun

LEMMA ExclusiveHostAcquired ==
  ASSUME Typed, OneActive, Exclusive, NEW r \in Run, HostAcquired(r) PROVE Exclusive'
  <1>1. Waits(r) /\ Holding(r) /\ run[r] \in EffectRun /\ run[r].page \in Page /\ raced' = raced
    BY RunTypes DEF HostAcquired, Waits, Shaped, Holding
  <1>2. CASE run[r].cancelled
    <2>1. release(run[r].page) /\ run' = [run EXCEPT ![r] = Over]
      BY <1>2 DEF HostAcquired
    <2> QED BY <1>1, <2>1, OverIs, ExclusiveRun
  <1>3. CASE ~run[r].cancelled
    <2> DEFINE e == IF disposed THEN [run[r] EXCEPT !.at = "done", !.held = TRUE]
                    ELSE [run[r] EXCEPT !.at = "background", !.held = TRUE,
                                        !.promise = bgCache'[run[r].page]]
    <2>1. run' = [run EXCEPT ![r] = e] /\ UNCHANGED <<live, gone>>
      BY <1>3 DEF HostAcquired
    <2>2. /\ e.at \in {"done", "background"} /\ e.held = TRUE /\ ~e.cancelled
          /\ e.page = run[r].page /\ e.canvas = run[r].canvas
      BY <1>1, <1>3 DEF EffectRun
    <2> HIDE DEF e
    <2>3. ~raced => KeptNext(e.page, e.canvas)
      BY <1>1, <2>1, <2>2 DEF Exclusive, Kept, KeptNext
    <2> QED BY <1>1, <2>1, <2>2, <2>3, ExclusiveRun
  <1> QED BY <1>2, <1>3

\* A run that goes on, or ends, with the canvas it has.
LEMMA ExclusiveGoesOn ==
  ASSUME Typed, OneActive, Exclusive, NEW r \in Run, HostRendered(r) \/ HostDraws(r)
  PROVE  Exclusive'
  <1>1. /\ run[r] \in EffectRun /\ run[r].at \in {"background", "image"}
        /\ UNCHANGED <<live, gone, raced>>
    BY RunTypes DEF HostRendered, HostDraws, poolVars
  <1>2. PICK a \in {"image", "done"}, b \in BOOLEAN :
           \/ run' = [run EXCEPT ![r] = Over]
           \/ ~run[r].cancelled /\ run' = [run EXCEPT ![r] = [run[r] EXCEPT !.at = a, !.shown = b]]
    <2>1. CASE HostRendered(r)
      <3>1. \/ run' = [run EXCEPT ![r] = Over]
            \/ ~run[r].cancelled /\ run' = [run EXCEPT ![r] = [run[r] EXCEPT !.at = "image"]]
            \/ ~run[r].cancelled /\ run' = [run EXCEPT ![r] = [run[r] EXCEPT !.at = "done"]]
        BY <2>1 DEF HostRendered
      <3>2. /\ [run[r] EXCEPT !.at = "image"] = [run[r] EXCEPT !.at = "image", !.shown = run[r].shown]
            /\ [run[r] EXCEPT !.at = "done"] = [run[r] EXCEPT !.at = "done", !.shown = run[r].shown]
            /\ run[r].shown \in BOOLEAN
        BY <1>1 DEF EffectRun
      <3> QED BY <3>1, <3>2
    <2>2. CASE HostDraws(r)
      <3>1. \/ run' = [run EXCEPT ![r] = Over]
            \/ ~run[r].cancelled /\ run' = [run EXCEPT ![r] = [run[r] EXCEPT !.at = "done", !.shown = TRUE]]
            \/ ~run[r].cancelled /\ run' = [run EXCEPT ![r] = [run[r] EXCEPT !.at = "done"]]
        BY <2>2 DEF HostDraws
      <3>2. /\ [run[r] EXCEPT !.at = "done"] = [run[r] EXCEPT !.at = "done", !.shown = run[r].shown]
            /\ run[r].shown \in BOOLEAN
        BY <1>1 DEF EffectRun
      <3> QED BY <3>1, <3>2
    <2> QED BY <2>1, <2>2
  <1>3. CASE run' = [run EXCEPT ![r] = Over]
    BY <1>1, <1>3, OverIs, ExclusiveRun
  <1>4. CASE ~run[r].cancelled /\ run' = [run EXCEPT ![r] = [run[r] EXCEPT !.at = a, !.shown = b]]
    <2> DEFINE e == [run[r] EXCEPT !.at = a, !.shown = b]
    <2>1. /\ e.at \in {"image", "done"} /\ e.held = run[r].held /\ ~e.cancelled
          /\ e.page = run[r].page /\ e.canvas = run[r].canvas
      BY <1>1, <1>4 DEF EffectRun
    <2>2. run' = [run EXCEPT ![r] = e]
      BY <1>4
    <2> HIDE DEF e
    <2>3. ~raced /\ (e.held \/ e.at = "acquired") => KeptNext(e.page, e.canvas)
      BY <1>1, <2>1 DEF Exclusive, Holding, Kept, KeptNext
    <2> QED BY <1>1, <2>1, <2>2, <2>3, ExclusiveRun
  <1> QED BY <1>2, <1>3, <1>4

LEMMA ExclusiveTeardown ==
  ASSUME Typed, OneActive, Exclusive, NEW r \in Run, Teardown(r) PROVE Exclusive'
  <1> DEFINE e == IF run[r].at = "done" THEN Over
                  ELSE [run[r] EXCEPT !.cancelled = TRUE, !.held = FALSE]
  <1>1. run[r] \in EffectRun /\ raced' = raced /\ run' = [run EXCEPT ![r] = e]
    BY RunTypes DEF Teardown
  <1>2. /\ e.held = FALSE
        /\ e.at \in {"acquire", "acquired"} => Waits(r)
        /\ e.at \in {"acquire", "acquired"} =>
              e.at = run[r].at /\ e.page = run[r].page /\ e.canvas = run[r].canvas
    BY <1>1, OverIs DEF EffectRun, Waits
  <1> HIDE DEF e
  <1>3. CASE run[r].held
    <2>1. release(run[r].page) /\ run[r].page \in Page
      BY <1>3, RunTypes DEF Teardown, Shaped
    <2>2. ~Waits(r)
      BY <1>3 DEF Exclusive, HeldShape, Waits
    <2> QED BY <1>1, <1>2, <1>3, <2>1, <2>2, ExclusiveRun
  <1>4. CASE ~run[r].held
    <2>1. UNCHANGED <<live, gone>>
      BY <1>4 DEF Teardown
    <2>2. ~raced /\ (e.held \/ e.at = "acquired") => KeptNext(e.page, e.canvas)
      BY <1>2, <2>1 DEF Exclusive, Holding, Kept, KeptNext
    <2> QED BY <1>1, <1>2, <2>1, <2>2, ExclusiveRun
  <1> QED BY <1>3, <1>4

LEMMA ExclusiveMount ==
  ASSUME Typed, OneActive, Exclusive, NEW r \in Run, NEW p \in Page, Mount(r, p) PROVE Exclusive'
  <1> DEFINE e == IF disposed THEN Over
                  ELSE [run[r] EXCEPT !.page = p, !.canvas = live[p],
                          !.at = IF live[p] # None THEN "acquired" ELSE "acquire"]
  <1>1. /\ run[r] \in EffectRun /\ run[r].at = "new" /\ run[r].held = FALSE
        /\ \A q \in Run : run[q].page = p => ~Active(q)
        /\ UNCHANGED <<live, gone>>
    BY RunTypes DEF Mount, Exclusive, HeldShape, EffectRun
  <1>2. run' = [run EXCEPT ![r] = e]
    BY DEF Mount
  <1>3. ~raced' => ~raced /\ \A q \in Run : run[q].page = p => ~Waits(q)
    BY DEF Mount, Waits
  <1>4. /\ e.held = FALSE
        /\ e.at \in {"acquire", "acquired"} => e.page = p
        /\ e.at = "acquired" => e.canvas = live[p] /\ live[p] # None
    BY <1>1, OverIs DEF EffectRun
  <1> HIDE DEF e
  <1>5. run'[r] = e /\ \A q \in Run : q # r => run'[q] = run[q]
    BY <1>2, RunTypes
  <1>6. HeldShape'
    BY <1>4, <1>5 DEF Exclusive, HeldShape
  <1>7. \A q \in Run : run[q].page = p => ~run[q].held
    BY <1>1 DEF Exclusive, HeldShape, Active
  <1>8. ASSUME ~raced' PROVE WaitsAlone'
    <2> SUFFICES ASSUME NEW q \in Run, NEW u \in Run, run'[q].at \in {"acquire", "acquired"}, q # u,
                        run'[u].page = run'[q].page
                 PROVE  run'[u].at \notin {"acquire", "acquired"} /\ ~run'[u].held
      BY DEF WaitsAlone, Waits
    <2>1. CASE q = r
      BY <1>3, <1>4, <1>5, <1>7, <1>8, <2>1 DEF Waits
    <2>2. CASE u = r
      BY <1>3, <1>4, <1>5, <1>8, <2>2 DEF Waits
    <2>3. CASE q # r /\ u # r
      BY <1>3, <1>5, <1>8, <2>3 DEF Exclusive, WaitsAlone, Waits
    <2> QED BY <2>1, <2>2, <2>3
  <1>9. ASSUME ~raced', NEW q \in Run, Holding(q)' PROVE Kept(run[q].page, run[q].canvas)'
    <2>1. CASE q = r
      BY <1>1, <1>4, <1>5, <1>9, <2>1, PoolTypes DEF Holding, Kept, KeptNext
    <2>2. CASE q # r
      BY <1>1, <1>3, <1>5, <1>9, <2>2 DEF Exclusive, Holding, Kept, KeptNext
    <2> QED BY <2>1, <2>2
  <1> QED BY <1>6, <1>8, <1>9 DEF Exclusive

LEMMA ExclusiveDispose ==
  ASSUME Typed, Exclusive, dispose PROVE Exclusive'
  <1>1. UNCHANGED <<run, raced>>
    BY DEF dispose
  <1>2. ASSUME ~raced, NEW q \in Run, Holding(q) PROVE Kept(run[q].page, run[q].canvas)'
    <2> DEFINE p == run[q].page
               d == run[q].canvas
    <2>1. p \in Page /\ Kept(p, d)
      BY <1>2, RunTypes DEF Exclusive, Holding, Shaped
    <2> HIDE DEF p, d
    <2>2. KeptNext(p, d)
      BY <2>1, KeptByOthers
    <2> QED BY <1>1, <2>2 DEF Kept, KeptNext, p, d
  <1> QED BY <1>1, <1>2 DEF Exclusive, HeldShape, WaitsAlone, Waits, Holding

LEMMA ExclusiveNext == ASSUME Typed, OneActive, Exclusive, [Next]_vars PROVE Exclusive'
  <1>1. ASSUME NEW r \in Run, RunStep(r) PROVE Exclusive'
    <2>1. CASE LoadSucceeds(r) \/ LoadFails(r) \/ RenderEnds(r)
      BY <2>1, ExclusiveSame DEF LoadSucceeds, LoadFails, RenderEnds, poolVars
    <2> QED BY <1>1, <2>1, ExclusiveAcquireResumes, ExclusiveHostAcquired, ExclusiveGoesOn DEF RunStep
  <1>2. ASSUME NEW r \in Run, Teardown(r) PROVE Exclusive'
    BY <1>2, ExclusiveTeardown
  <1>3. ASSUME NEW r \in Run, NEW p \in Page, Mount(r, p) PROVE Exclusive'
    BY <1>3, ExclusiveMount
  <1>4. ASSUME NEW S \in SUBSET Page, replaceBytes(S) PROVE Exclusive'
    BY <1>4, ExclusiveSame DEF replaceBytes, poolVars
  <1>5. ASSUME dispose PROVE Exclusive'
    BY <1>5, ExclusiveDispose
  <1>6. CASE UNCHANGED vars
    BY <1>6, ExclusiveSame DEF vars, poolVars
  <1> QED BY <1>1, <1>2, <1>3, <1>4, <1>5, <1>6 DEF Next

\* The canvas a mounted host draws on is not given to another, while no effect run begins
\* on a page whose earlier run still awaits its canvas.
THEOREM UseIsExclusive == Spec => []ExclusiveUse
  <1>1. Init => Exclusive
    BY DEF Init, Exclusive, HeldShape, WaitsAlone, Waits, Holding, NewRun
  <1>2. Fresh => OneActive
    BY DEF Fresh
  <1>3. ASSUME Typed, Exclusive, PoolDisjoint PROVE ExclusiveUse
    <2> SUFFICES ASSUME ~raced, NEW r \in Run, run[r].held
                 PROVE  ~InFree(run[r].canvas) /\ (run[r].canvas \in gone \/ live[run[r].page] = run[r].canvas)
      BY DEF ExclusiveUse
    <2>1. Kept(run[r].page, run[r].canvas) /\ run[r].page \in Page
      BY <1>3, RunTypes DEF Exclusive, Holding, Shaped
    <2>2. CASE run[r].canvas \in gone
      BY <1>3, <2>2 DEF PoolDisjoint
    <2>3. CASE live[run[r].page] = run[r].canvas
      <3>1. run[r].page \in Live
        BY <2>1, <2>3, PoolAssumption DEF Kept, Live
      <3> QED BY <1>3, <2>3, <3>1 DEF PoolDisjoint
    <2> QED BY <2>1, <2>2, <2>3 DEF Kept, KeptNext
  <1>4. Spec => []Typed /\ []Fresh
    BY TypeInit, TypeNext, FreshInit, FreshNext, PTL DEF Spec
  <1> QED BY <1>1, <1>2, <1>3, <1>4, ExclusiveNext, Disjoint, PTL DEF Spec

-----------------------------------------------------------------------------
(* Backgrounds that are drawn.  While nothing is lost no render fails: every render that    *)
(* waits for a document waits for that of the renderer there is.             *)

Undamaged ==
    /\ latch = renderer
    /\ ~lost => /\ ~disposed
                /\ \A q \in Run : renders[q].at # "failed"
                /\ \A q \in Run : renders[q].at = "loading" => renders[q].load \in Run /\ renders[q].load = renderer
                /\ \A q \in Run : (Active(q) /\ run[q].at = "done") => run[q].shown

\* A step of one run that leaves the renders alone and shows what it finishes.
LEMMA UndamagedRun ==
  ASSUME Typed, Undamaged, NEW r \in Run, NEW e, run' = [run EXCEPT ![r] = e],
         UNCHANGED <<renderVars, disposed>>, lost => lost',
         ~lost' => (e.cancelled \/ e.at \in {"new", "over", "acquire", "acquired", "background", "image"}
                      \/ e.shown)
  PROVE  Undamaged'
  <1>1. run'[r] = e /\ \A q \in Run : q # r => run'[q] = run[q]
    BY RunTypes
  <1>2. ASSUME ~lost', NEW q \in Run, Active(q)', run'[q].at = "done" PROVE run'[q].shown
    <2>1. CASE q = r
      BY <1>1, <1>2, <2>1 DEF Active
    <2>2. CASE q # r
      BY <1>1, <1>2, <2>2 DEF Undamaged, Active
    <2> QED BY <2>1, <2>2
  <1> QED BY <1>2 DEF Undamaged, renderVars

LEMMA UndamagedHost ==
  ASSUME Typed, Fresh, Undamaged, NEW r \in Run,
         AcquireResumes(r) \/ HostRendered(r) \/ HostDraws(r) \/ Teardown(r)
           \/ (\E p \in Page : Mount(r, p))
  PROVE  Undamaged'
  <1>0. run[r] \in EffectRun
    BY RunTypes
  <1>1. CASE AcquireResumes(r)
    <2>1. PICK c \in Canvas : run' = [run EXCEPT ![r] = [run[r] EXCEPT !.at = "acquired", !.canvas = c]]
      BY <1>1 DEF AcquireResumes
    <2> DEFINE e == [run[r] EXCEPT !.at = "acquired", !.canvas = c]
    <2>2. e.at = "acquired" /\ run' = [run EXCEPT ![r] = e]
      BY <1>0, <2>1 DEF EffectRun
    <2> HIDE DEF e
    <2> QED BY <1>1, <2>2, UndamagedRun DEF AcquireResumes
  <1>2. CASE HostRendered(r)
    <2> DEFINE e == IF run[r].cancelled THEN Over
                    ELSE [run[r] EXCEPT !.at = IF renders[run[r].promise].at = "ready" THEN "image"
                                               ELSE "done"]
    <2>1. run' = [run EXCEPT ![r] = e] /\ UNCHANGED <<renderVars, disposed, lost>>
          /\ run[r].at = "background" /\ renders[run[r].promise].at \in {"ready", "failed"}
      BY <1>2 DEF HostRendered
    <2>2. run[r].promise \in Run
      BY <2>1 DEF Fresh, PromiseShape
    <2>3. ~lost' => e.cancelled \/ e.at = "image"
      BY <1>0, <2>1, <2>2, OverIs DEF Undamaged, EffectRun
    <2> HIDE DEF e
    <2> QED BY <2>1, <2>3, UndamagedRun
  <1>3. CASE HostDraws(r)
    <2> DEFINE e == [run[r] EXCEPT !.at = "done", !.shown = TRUE]
               f == [run[r] EXCEPT !.at = "done"]
    <2>1. e.shown = TRUE
      BY <1>0 DEF EffectRun
    <2>2. /\ UNCHANGED <<renderVars, disposed>> /\ (lost => lost')
          /\ \/ run' = [run EXCEPT ![r] = e] \/ run' = [run EXCEPT ![r] = Over]
             \/ run' = [run EXCEPT ![r] = f] /\ lost'
      BY <1>3 DEF HostDraws
    <2> HIDE DEF e, f
    <2>3. CASE run' = [run EXCEPT ![r] = e]
      BY <2>1, <2>2, <2>3, UndamagedRun
    <2>4. CASE run' = [run EXCEPT ![r] = Over]
      BY <2>2, <2>4, OverIs, UndamagedRun
    <2>5. CASE run' = [run EXCEPT ![r] = f] /\ lost'
      BY <2>2, <2>5, UndamagedRun
    <2> QED BY <2>2, <2>3, <2>4, <2>5
  <1>4. CASE Teardown(r)
    <2> DEFINE e == IF run[r].at = "done" THEN Over
                    ELSE [run[r] EXCEPT !.cancelled = TRUE, !.held = FALSE]
    <2>1. e.cancelled = TRUE
      BY <1>0, OverIs DEF EffectRun
    <2>2. run' = [run EXCEPT ![r] = e] /\ UNCHANGED <<renderVars, disposed, lost>>
      BY <1>4 DEF Teardown
    <2> HIDE DEF e
    <2> QED BY <2>1, <2>2, UndamagedRun
  <1>5. ASSUME NEW p \in Page, Mount(r, p) PROVE Undamaged'
    <2> DEFINE e == IF disposed THEN Over
                    ELSE [run[r] EXCEPT !.page = p, !.canvas = live[p],
                            !.at = IF live[p] # None THEN "acquired" ELSE "acquire"]
    <2>1. e.at \in {"over", "acquire", "acquired"}
      BY <1>0, OverIs DEF EffectRun
    <2>2. run' = [run EXCEPT ![r] = e] /\ UNCHANGED <<renderVars, disposed, lost>>
      BY <1>5 DEF Mount
    <2> HIDE DEF e
    <2> QED BY <2>1, <2>2, UndamagedRun
  <1> QED BY <1>1, <1>2, <1>3, <1>4, <1>5

\* A new render waits for the renderer there is, or for one that it starts when there is
\* none, which no other render can wait for.
LEMMA UndamagedHostAcquired ==
  ASSUME Typed, Fresh, Undamaged, NEW r \in Run, HostAcquired(r) PROVE Undamaged'
  <1>0. /\ run[r] \in EffectRun /\ run[r].page \in Page
        /\ UNCHANGED <<disposed, lost>>
    BY RunTypes DEF HostAcquired, EffectRun, Shaped
  <1>1. CASE run[r].cancelled
    <2>1. run' = [run EXCEPT ![r] = Over] /\ UNCHANGED renderVars
      BY <1>1 DEF HostAcquired
    <2> QED BY <1>0, <2>1, OverIs, UndamagedRun
  <1>2. CASE ~run[r].cancelled /\ disposed
    <2> DEFINE e == [run[r] EXCEPT !.at = "done", !.held = TRUE]
    <2>1. run' = [run EXCEPT ![r] = e] /\ UNCHANGED renderVars /\ lost'
      BY <1>0, <1>2 DEF HostAcquired, Undamaged
    <2> HIDE DEF e
    <2> QED BY <1>0, <2>1, UndamagedRun
  <1>3. CASE ~run[r].cancelled /\ ~disposed
    <2> DEFINE p == run[r].page
               e == [run[r] EXCEPT !.at = "background", !.held = TRUE, !.promise = bgCache'[p]]
    <2>1. renderBackground(r, p) /\ run' = [run EXCEPT ![r] = e]
      BY <1>3 DEF HostAcquired
    <2>2. e.at = "background"
      BY <1>0 DEF EffectRun
    <2> HIDE DEF e
    <2>3. CASE bgCache[p] # None
      <3>1. UNCHANGED renderVars
        BY <2>1, <2>3 DEF renderBackground
      <3> QED BY <1>0, <2>1, <2>2, <3>1, UndamagedRun
    <2>4. CASE bgCache[p] = None
      <3>1. /\ ensureRenderer(r)
            /\ renders' = [renders EXCEPT ![r] =
                 [at |-> IF loads'[latch'].at = "open" THEN "encoding" ELSE "loading",
                  load |-> latch', bytes |-> loads'[latch'].bytes]]
        BY <2>1, <2>4 DEF renderBackground
      <3>2. latch' = renderer' /\ latch' \in Run /\ (renderer # None => renderer' = renderer)
        BY <3>1, RendererTypes DEF ensureRenderer, Undamaged
      <3>3. /\ renders'[r].load = latch' /\ renders'[r].at \in {"encoding", "loading"}
            /\ \A q \in Run : q # r => renders'[q] = renders[q]
        BY <3>1, RendererTypes
      <3>4. run'[r] = e /\ \A q \in Run : q # r => run'[q] = run[q]
        BY <2>1, RunTypes
      <3>5. ASSUME ~lost, NEW q \in Run
            PROVE  /\ renders'[q].at # "failed"
                   /\ renders'[q].at = "loading" => renders'[q].load \in Run /\ renders'[q].load = renderer'
                   /\ (Active(q)' /\ run'[q].at = "done") => run'[q].shown
        <4>1. CASE q = r
          BY <2>2, <3>2, <3>3, <3>4, <4>1
        <4>2. CASE q # r
          BY <3>2, <3>3, <3>4, <3>5, <4>2, PoolAssumption DEF Undamaged, Active
        <4> QED BY <4>1, <4>2
      <3> QED BY <1>0, <3>2, <3>5 DEF Undamaged
    <2> QED BY <2>3, <2>4
  <1> QED BY <1>1, <1>2, <1>3

\* What waits for a load that ends waits for that of the renderer, which is open now.
LEMMA UndamagedLoadSucceeds ==
  ASSUME Typed, Undamaged, NEW r \in Run, LoadSucceeds(r) PROVE Undamaged'
  <1>1. UNCHANGED <<latch, renderer, disposed, lost, run>>
    BY DEF LoadSucceeds
  <1>2. /\ loads \in [Run -> Load] /\ renders \in [Run -> Promise] /\ loads[r] \in Load
        /\ loads' = [loads EXCEPT ![r].at = "open"]
    BY RendererTypes DEF LoadSucceeds
  <1>3. loads'[r].at = "open"
    BY <1>2 DEF Load
  <1>4. ASSUME ~lost, NEW q \in Run
        PROVE  /\ renders'[q].at # "failed"
               /\ renders'[q].at = "loading" => renders'[q].load \in Run /\ renders'[q].load = renderer
    <2>0. renders[q] \in Promise /\ renders[q].at # "failed"
      BY <1>2, <1>4 DEF Undamaged
    <2>1. CASE q \in Waiting(r)
      <3>1. renderer = r /\ renderer # None
        BY <1>4, <2>1, PoolAssumption DEF Waiting, Undamaged
      <3>2. renders'[q] = [renders[q] EXCEPT !.at = "encoding", !.bytes = loads[renderer].bytes]
        BY <1>3, <2>1, <3>1 DEF LoadSucceeds
      <3>3. renders'[q].at = "encoding"
        BY <2>0, <3>2 DEF Promise
      <3> QED BY <3>3
    <2>2. CASE q \notin Waiting(r)
      <3>1. renders'[q] = renders[q]
        BY <2>2 DEF LoadSucceeds, Reject
      <3> QED BY <1>4, <2>0, <3>1 DEF Undamaged
    <2> QED BY <2>1, <2>2
  <1> QED BY <1>1, <1>4 DEF Undamaged, Active

LEMMA UndamagedNext == ASSUME Typed, Fresh, Undamaged, [Next]_vars PROVE Undamaged'
  <1>1. ASSUME NEW r \in Run, RunStep(r) PROVE Undamaged'
    <2>1. CASE LoadFails(r)
      BY <2>1 DEF LoadFails, Undamaged
    <2>2. CASE RenderEnds(r)
      <3>1. UNCHANGED <<latch, renderer, disposed, run>> /\ (lost => lost')
        BY <2>2 DEF RenderEnds
      <3>2. CASE renders' = [renders EXCEPT ![r].at = "ready"]
        <4>1. renders[r] \in Promise
          BY RendererTypes
        <4>2. renders'[r].at = "ready" /\ \A q \in Run : q # r => renders'[q] = renders[q]
          BY <3>2, <4>1, RendererTypes DEF Promise
        <4> QED BY <3>1, <4>2 DEF Undamaged, Active
      <3>3. CASE lost'
        BY <3>1, <3>3 DEF Undamaged
      <3> QED BY <2>2, <3>2, <3>3 DEF RenderEnds
    <2> QED BY <1>1, <2>1, <2>2, UndamagedLoadSucceeds, UndamagedHost, UndamagedHostAcquired DEF RunStep
  <1>2. ASSUME NEW r \in Run, Teardown(r) PROVE Undamaged'
    BY <1>2, UndamagedHost
  <1>3. ASSUME NEW r \in Run, NEW p \in Page, Mount(r, p) PROVE Undamaged'
    BY <1>3, UndamagedHost
  <1>4. ASSUME NEW S \in SUBSET Page, replaceBytes(S) PROVE Undamaged'
    <2>1. /\ latch' = renderer' /\ UNCHANGED <<disposed, run, renders>>
          /\ lost' = (lost \/ \E q \in Run : renders[q].at = "loading")
      BY <1>4 DEF replaceBytes
    <2> QED BY <2>1 DEF Undamaged, Active
  <1>5. ASSUME dispose PROVE Undamaged'
    BY <1>5 DEF dispose, Undamaged
  <1>6. CASE UNCHANGED vars
    BY <1>6 DEF vars, renderVars, Undamaged, Active
  <1> QED BY <1>1, <1>2, <1>3, <1>4, <1>5, <1>6 DEF Next

-----------------------------------------------------------------------------
(* What is drawn on a canvas stays on it while its host is mounted.          *)

\* From its canvas to its cleanup a run that was not cancelled holds its canvas.
HeldOn ==
    \A r \in Run : (run[r].at \in {"background", "image", "done"} /\ ~run[r].cancelled) => run[r].held

LEMMA HeldOnNext == ASSUME Typed, HeldOn, [Next]_vars PROVE HeldOn'
  <1>1. ASSUME NEW r \in Run, NEW e, run' = [run EXCEPT ![r] = e],
               \/ e.held \/ e.cancelled \/ e.at \notin {"background", "image", "done"}
               \/ run[r].at \in {"background", "image", "done"} /\ e.held = run[r].held /\ ~run[r].cancelled
        PROVE  HeldOn'
    <2>1. run'[r] = e /\ \A q \in Run : q # r => run'[q] = run[q]
      BY <1>1, RunTypes
    <2> QED BY <1>1, <2>1 DEF HeldOn
  <1>2. ASSUME NEW r \in Run, RunStep(r) PROVE HeldOn'
    <2>0. run[r] \in EffectRun
      BY RunTypes
    <2>1. CASE LoadSucceeds(r) \/ LoadFails(r) \/ RenderEnds(r)
      BY <2>1 DEF LoadSucceeds, LoadFails, RenderEnds, HeldOn
    <2>2. CASE AcquireResumes(r)
      <3>1. PICK c \in Canvas : run' = [run EXCEPT ![r] = [run[r] EXCEPT !.at = "acquired", !.canvas = c]]
        BY <2>2 DEF AcquireResumes
      <3> DEFINE e == [run[r] EXCEPT !.at = "acquired", !.canvas = c]
      <3>2. e.at = "acquired" /\ run' = [run EXCEPT ![r] = e]
        BY <2>0, <3>1 DEF EffectRun
      <3> HIDE DEF e
      <3> QED BY <1>1, <3>2
    <2>3. CASE HostAcquired(r)
      <3> DEFINE e == [run[r] EXCEPT !.at = "done", !.held = TRUE]
                 f == [run[r] EXCEPT !.at = "background", !.held = TRUE, !.promise = bgCache'[run[r].page]]
      <3>1. e.held = TRUE /\ f.held = TRUE
        BY <2>0 DEF EffectRun
      <3>2. \/ run' = [run EXCEPT ![r] = e] \/ run' = [run EXCEPT ![r] = f]
            \/ run' = [run EXCEPT ![r] = Over]
        BY <2>3 DEF HostAcquired
      <3> HIDE DEF e, f
      <3>3. CASE run' = [run EXCEPT ![r] = e] \/ run' = [run EXCEPT ![r] = f]
        BY <1>1, <3>1, <3>3
      <3>4. CASE run' = [run EXCEPT ![r] = Over]
        BY <1>1, <3>4, OverIs
      <3> QED BY <3>2, <3>3, <3>4
    <2>4. CASE HostRendered(r)
      <3> DEFINE e == [run[r] EXCEPT !.at = IF renders[run[r].promise].at = "ready" THEN "image" ELSE "done"]
      <3>1. e.held = run[r].held /\ run[r].at = "background"
        BY <2>0, <2>4 DEF HostRendered, EffectRun
      <3>2. \/ run' = [run EXCEPT ![r] = Over]
            \/ ~run[r].cancelled /\ run' = [run EXCEPT ![r] = e]
        BY <2>4 DEF HostRendered
      <3> HIDE DEF e
      <3>3. CASE run' = [run EXCEPT ![r] = Over]
        BY <1>1, <3>3, OverIs
      <3>4. CASE ~run[r].cancelled /\ run' = [run EXCEPT ![r] = e]
        BY <1>1, <3>1, <3>4
      <3> QED BY <3>2, <3>3, <3>4
    <2>5. CASE HostDraws(r)
      <3> DEFINE e == [run[r] EXCEPT !.at = "done", !.shown = TRUE]
                 f == [run[r] EXCEPT !.at = "done"]
      <3>1. e.held = run[r].held /\ f.held = run[r].held /\ run[r].at = "image"
        BY <2>0, <2>5 DEF HostDraws, EffectRun
      <3>2. \/ run' = [run EXCEPT ![r] = Over]
            \/ ~run[r].cancelled /\ (run' = [run EXCEPT ![r] = e] \/ run' = [run EXCEPT ![r] = f])
        BY <2>5 DEF HostDraws
      <3> HIDE DEF e, f
      <3> QED BY <1>1, <3>1, <3>2, OverIs
    <2> QED BY <1>2, <2>1, <2>2, <2>3, <2>4, <2>5 DEF RunStep
  <1>3. ASSUME NEW r \in Run, Teardown(r) PROVE HeldOn'
    <2> DEFINE e == IF run[r].at = "done" THEN Over
                    ELSE [run[r] EXCEPT !.cancelled = TRUE, !.held = FALSE]
    <2>1. run[r] \in EffectRun /\ run' = [run EXCEPT ![r] = e]
      BY <1>3, RunTypes DEF Teardown
    <2>2. e.cancelled = TRUE
      BY <2>1, OverIs DEF EffectRun
    <2> HIDE DEF e
    <2> QED BY <1>1, <2>1, <2>2
  <1>4. ASSUME NEW r \in Run, NEW p \in Page, Mount(r, p) PROVE HeldOn'
    <2> DEFINE e == IF disposed THEN Over
                    ELSE [run[r] EXCEPT !.page = p, !.canvas = live[p],
                            !.at = IF live[p] # None THEN "acquired" ELSE "acquire"]
    <2>1. run[r] \in EffectRun /\ run' = [run EXCEPT ![r] = e]
      BY <1>4, RunTypes DEF Mount
    <2>2. e.at \in {"over", "acquire", "acquired"}
      BY <2>1, OverIs DEF EffectRun
    <2> HIDE DEF e
    <2> QED BY <1>1, <2>1, <2>2
  <1>5. ASSUME UNCHANGED run PROVE HeldOn'
    BY <1>5 DEF HeldOn
  <1>6. ASSUME NEW S \in SUBSET Page, replaceBytes(S) PROVE HeldOn'
    BY <1>5, <1>6 DEF replaceBytes
  <1> QED BY <1>2, <1>3, <1>4, <1>5, <1>6 DEF Next, vars, dispose

\* A canvas that a mounted host has drawn on keeps the page until it is evicted.
Covered ==
    /\ \A r \in Run : run[r].shown => run[r].at = "done"
    /\ ~raced => \A r \in Run : (run[r].held /\ run[r].shown /\ run[r].canvas \notin gone)
                                   => run[r].page \in drawn[run[r].canvas]

\* Hosts that stay mounted have the canvas of no other page.
LEMMA OthersCanvas ==
  ASSUME Typed, OneActive, Exclusive, PoolDisjoint, ~raced, NEW r \in Run, NEW q \in Run, q # r,
         run[q].held, run[q].canvas \notin gone, run[r].held \/ run[r].at = "acquired"
  PROVE  /\ run[q].canvas \in Canvas /\ run[q].canvas # live[run[r].page]
         /\ run[r].canvas \in gone \/ run[q].canvas # run[r].canvas
  <1>1. /\ run[q].page \in Page /\ run[r].page \in Page
        /\ run[q].canvas \in Canvas /\ live[run[q].page] = run[q].canvas
        /\ run[r].canvas \in Canvas /\ (run[r].canvas \in gone \/ live[run[r].page] = run[r].canvas)
    BY RunTypes DEF Exclusive, Holding, Kept, Shaped
  <1>2. run[q].page # run[r].page
    <2>1. CASE run[r].held
      BY <2>1 DEF OneActive, Active, Exclusive, HeldShape
    <2>2. CASE run[r].at = "acquired"
      BY <2>2 DEF Exclusive, WaitsAlone, Waits
    <2>. QED BY <2>1, <2>2
  <1>3. run[q].page \in Live
    BY <1>1, PoolAssumption DEF Live
  <1>4. live[run[r].page] # run[q].canvas
    BY <1>1, <1>2, <1>3, PoolAssumption DEF PoolDisjoint, Live
  <1>. QED BY <1>1, <1>4

\* A step in which no host finishes, and the canvas of a host that stays is cleared only
\* if it is disposed.
LEMMA CoveredKept ==
  ASSUME Covered, gone \subseteq gone', raced => raced', NEW r \in Run,
         \A q \in Run \ {r} : run'[q] = run[q],
         run'[r].shown => run[r].shown /\ run'[r].at = "done",
         run'[r].held /\ run'[r].shown =>
            run[r].held /\ run'[r].canvas = run[r].canvas /\ run'[r].page = run[r].page,
         \A q \in Run : (~raced /\ run[q].held /\ run'[q].held /\ run'[q].shown /\ run[q].canvas \notin gone')
                           => drawn[run[q].canvas] \subseteq drawn'[run[q].canvas]
  PROVE  Covered'
  <1>1. \A q \in Run : run'[q].shown => run[q].shown /\ run'[q].at = "done"
    BY DEF Covered
  <1>2. ASSUME ~raced', NEW q \in Run, run'[q].held, run'[q].shown, run'[q].canvas \notin gone'
        PROVE  run'[q].page \in drawn'[run'[q].canvas]
    <2>1. run[q].held /\ run[q].shown /\ run'[q].canvas = run[q].canvas /\ run'[q].page = run[q].page
      BY <1>1, <1>2
    <2>2. run[q].page \in drawn[run[q].canvas] /\ run[q].canvas \notin gone'
      BY <1>2, <2>1 DEF Covered
    <2>. QED BY <1>2, <2>1, <2>2
  <1>. QED BY <1>1, <1>2 DEF Covered

\* Only the canvas of the page that loses it is cleared.
LEMMA CoveredPool ==
  ASSUME Typed
  PROVE  /\ \A p \in Page, c \in Canvas, v \in Page \cup {None} : Bind(p, c, v) =>
               gone \subseteq gone' /\ \A d \in Canvas : d \notin gone' => drawn'[d] = drawn[d]
         /\ \A p \in Page : release(p) =>
               gone \subseteq gone' /\ \A d \in Canvas : d # live[p] => drawn'[d] = drawn[d]
         /\ dispose => gone \subseteq gone' /\ \A d \in Canvas : d \notin gone' => drawn'[d] = drawn[d]
  <1>1. drawn \in [Canvas -> SUBSET Page]
    BY PoolTypes
  <1>2. ASSUME NEW p \in Page, NEW c \in Canvas, NEW v \in Page \cup {None}, Bind(p, c, v)
        PROVE  gone \subseteq gone' /\ \A d \in Canvas : d \notin gone' => drawn'[d] = drawn[d]
    BY <1>1, <1>2 DEF Bind
  <1>3. ASSUME NEW p \in Page, release(p)
        PROVE  gone \subseteq gone' /\ \A d \in Canvas : d # live[p] => drawn'[d] = drawn[d]
    BY <1>1, <1>3 DEF release
  <1>4. ASSUME dispose
        PROVE  gone \subseteq gone' /\ \A d \in Canvas : d \notin gone' => drawn'[d] = drawn[d]
    BY <1>4 DEF dispose
  <1>. QED BY <1>2, <1>3, <1>4

LEMMA CoveredAcquires ==
  ASSUME Typed, OneActive, Exclusive, PoolDisjoint, Covered, NEW r \in Run,
         AcquireResumes(r) \/ HostAcquired(r)
  PROVE  Covered'
  <1>0. /\ run[r] \in EffectRun /\ run[r].page \in Page /\ raced' = raced
        /\ run[r].at \in {"acquire", "acquired"} /\ ~run[r].held /\ ~run[r].shown
    BY RunTypes DEF AcquireResumes, HostAcquired, Shaped, Exclusive, HeldShape, Covered
  <1>1. ASSUME NEW q \in Run, ~raced, run[q].held, run[q].canvas \notin gone
        PROVE  run[q].canvas \in Canvas
    BY <1>1 DEF Exclusive, Holding, Kept
  <1>2. CASE AcquireResumes(r)
    <2>1. PICK c \in Canvas, v \in Page \cup {None} :
             /\ Bind(run[r].page, c, v)
             /\ run' = [run EXCEPT ![r] = [run[r] EXCEPT !.at = "acquired", !.canvas = c]]
      BY <1>2 DEF AcquireResumes
    <2>2. gone \subseteq gone' /\ \A d \in Canvas : d \notin gone' => drawn'[d] = drawn[d]
      BY <1>0, <2>1, CoveredPool
    <2>3. ~run'[r].shown /\ \A q \in Run \ {r} : run'[q] = run[q]
      BY <1>0, <2>1, RunTypes DEF EffectRun
    <2>. QED BY <1>0, <1>1, <2>2, <2>3, CoveredKept
  <1>3. CASE HostAcquired(r) /\ run[r].cancelled
    <2>1. release(run[r].page) /\ run' = [run EXCEPT ![r] = Over] /\ run[r].at = "acquired"
      BY <1>3 DEF HostAcquired
    <2>2. gone \subseteq gone' /\ \A d \in Canvas : d # live[run[r].page] => drawn'[d] = drawn[d]
      BY <1>0, <2>1, CoveredPool
    <2>3. ~run'[r].shown /\ \A q \in Run \ {r} : run'[q] = run[q]
      BY <2>1, RunTypes DEF Over, NewRun
    <2>4. ASSUME NEW q \in Run, ~raced, run[q].held, run[q].canvas \notin gone', q # r
          PROVE  drawn'[run[q].canvas] = drawn[run[q].canvas]
      BY <2>1, <2>2, <2>4, OthersCanvas
    <2>. QED BY <1>0, <2>2, <2>3, <2>4, CoveredKept
  <1>4. CASE HostAcquired(r) /\ ~run[r].cancelled
    <2> DEFINE e == [run[r] EXCEPT !.at = "done", !.held = TRUE]
               f == [run[r] EXCEPT !.at = "background", !.held = TRUE, !.promise = bgCache'[run[r].page]]
    <2>1. /\ drawn' = [drawn EXCEPT ![run[r].canvas] = {}] /\ run[r].at = "acquired"
          /\ run' = [run EXCEPT ![r] = e] \/ run' = [run EXCEPT ![r] = f]
          /\ gone' = gone
      BY <1>4 DEF HostAcquired
    <2>2. ~e.shown /\ ~f.shown
      BY <1>0 DEF EffectRun
    <2> HIDE DEF e, f
    <2>3. ~run'[r].shown /\ \A q \in Run \ {r} : run'[q] = run[q]
      BY <2>1, <2>2, RunTypes
    <2>4. drawn \in [Canvas -> SUBSET Page]
      BY PoolTypes
    <2>5. ASSUME NEW q \in Run, ~raced, run[q].held, run[q].canvas \notin gone, q # r
          PROVE  drawn'[run[q].canvas] = drawn[run[q].canvas]
      <3>1. run[q].canvas \in Canvas /\ (run[r].canvas \in gone \/ run[q].canvas # run[r].canvas)
        BY <2>1, <2>5, OthersCanvas
      <3>. QED BY <2>1, <2>4, <2>5, <3>1
    <2>. QED BY <1>0, <2>1, <2>3, <2>5, CoveredKept
  <1>. QED BY <1>2, <1>3, <1>4

LEMMA CoveredHost ==
  ASSUME Typed, OneActive, Exclusive, PoolDisjoint, Covered, NEW r \in Run,
         HostRendered(r) \/ Teardown(r) \/ \E p \in Page : Mount(r, p)
  PROVE  Covered'
  <1>0. run[r] \in EffectRun
    BY RunTypes
  <1>1. CASE HostRendered(r)
    <2> DEFINE e == [run[r] EXCEPT !.at = IF renders[run[r].promise].at = "ready" THEN "image" ELSE "done"]
    <2>1. run' = [run EXCEPT ![r] = Over] \/ run' = [run EXCEPT ![r] = e]
      BY <1>1 DEF HostRendered
    <2>2. run[r].at = "background" /\ UNCHANGED <<gone, drawn, raced>>
      BY <1>1 DEF HostRendered, poolVars
    <2>3. ~Over.shown /\ ~e.shown
      BY <1>0, <2>2 DEF Over, NewRun, EffectRun, Covered
    <2> HIDE DEF e
    <2>4. ~run'[r].shown /\ \A q \in Run \ {r} : run'[q] = run[q]
      BY <2>1, <2>3, RunTypes
    <2>. QED BY <2>2, <2>4, CoveredKept
  <1>2. CASE Teardown(r)
    <2> DEFINE e == IF run[r].at = "done" THEN Over
                    ELSE [run[r] EXCEPT !.cancelled = TRUE, !.held = FALSE]
    <2>1. run' = [run EXCEPT ![r] = e] /\ raced' = raced
      BY <1>2 DEF Teardown
    <2>2. ~e.shown /\ ~e.held
      BY <1>0 DEF Over, NewRun, EffectRun, Covered
    <2> HIDE DEF e
    <2>3. ~run'[r].shown /\ ~run'[r].held /\ \A q \in Run \ {r} : run'[q] = run[q]
      BY <2>1, <2>2, RunTypes
    <2>4. CASE run[r].held
      <3>1. release(run[r].page) /\ run[r].page \in Page
        BY <1>2, <2>4, RunTypes DEF Teardown, Shaped
      <3>2. gone \subseteq gone' /\ \A d \in Canvas : d # live[run[r].page] => drawn'[d] = drawn[d]
        BY <3>1, CoveredPool
      <3>3. ASSUME NEW q \in Run, ~raced, run[q].held, run[q].canvas \notin gone', q # r
            PROVE  drawn'[run[q].canvas] = drawn[run[q].canvas]
        BY <2>4, <3>2, <3>3, OthersCanvas
      <3>. QED BY <2>1, <2>3, <3>2, <3>3, CoveredKept
    <2>5. CASE ~run[r].held
      <3>1. UNCHANGED <<gone, drawn>>
        BY <1>2, <2>5 DEF Teardown
      <3>. QED BY <2>1, <2>3, <3>1, CoveredKept
    <2>. QED BY <2>4, <2>5
  <1>3. ASSUME NEW p \in Page, Mount(r, p) PROVE Covered'
    <2> DEFINE e == IF disposed THEN Over
                    ELSE [run[r] EXCEPT !.page = p, !.canvas = live[p],
                            !.at = IF live[p] # None THEN "acquired" ELSE "acquire"]
    <2>1. run' = [run EXCEPT ![r] = e] /\ UNCHANGED <<gone, drawn>> /\ (raced => raced')
          /\ run[r].at = "new"
      BY <1>3 DEF Mount
    <2>2. ~e.shown
      BY <1>0, <2>1 DEF Over, NewRun, EffectRun, Covered
    <2> HIDE DEF e
    <2>3. ~run'[r].shown /\ \A q \in Run \ {r} : run'[q] = run[q]
      BY <2>1, <2>2, RunTypes
    <2>. QED BY <2>1, <2>3, CoveredKept
  <1>. QED BY <1>1, <1>2, <1>3

\* A host that draws has its own page on its canvas, and takes no other off.
LEMMA CoveredDraws ==
  ASSUME Typed, Exclusive, Covered, NEW r \in Run, HostDraws(r) PROVE Covered'
  <1> DEFINE e == [run[r] EXCEPT !.at = "done", !.shown = TRUE]
             f == [run[r] EXCEPT !.at = "done"]
  <1>0. /\ run[r] \in EffectRun /\ run[r].at = "image" /\ ~run[r].shown
        /\ drawn \in [Canvas -> SUBSET Page] /\ UNCHANGED <<gone, raced>>
    BY RunTypes, PoolTypes DEF HostDraws, poolVars, Covered
  <1>1. /\ e.at = "done" /\ e.held = run[r].held /\ e.canvas = run[r].canvas /\ e.page = run[r].page
        /\ ~f.shown /\ ~Over.shown
    BY <1>0 DEF EffectRun, Over, NewRun
  <1>2. \/ /\ drawn' = [drawn EXCEPT ![run[r].canvas] =
                          IF run[r].canvas \in gone THEN @ ELSE @ \cup {run[r].page}]
           /\ run' = [run EXCEPT ![r] = Over] \/ run' = [run EXCEPT ![r] = e]
        \/ drawn' = drawn /\ (run' = [run EXCEPT ![r] = Over] \/ run' = [run EXCEPT ![r] = f])
    BY DEF HostDraws
  <1>3. \A c \in Canvas : drawn[c] \subseteq drawn'[c]
    BY <1>0, <1>2
  <1> HIDE DEF e, f
  <1>4. \A q \in Run \ {r} : run'[q] = run[q]
    BY <1>2, RunTypes
  <1>5. ASSUME NEW q \in Run, ~raced, run[q].held PROVE run[q].canvas \in Canvas
    BY <1>5 DEF Exclusive, Holding, Kept
  <1>6. CASE ~run'[r].shown
    BY <1>0, <1>3, <1>4, <1>5, <1>6, CoveredKept
  <1>7. CASE run'[r].shown
    <2>1. /\ run'[r] = e
          /\ drawn' = [drawn EXCEPT ![run[r].canvas] =
                         IF run[r].canvas \in gone THEN @ ELSE @ \cup {run[r].page}]
      BY <1>1, <1>2, <1>7, RunTypes
    <2>2. ASSUME ~raced', NEW q \in Run, run'[q].held, run'[q].shown, run'[q].canvas \notin gone'
          PROVE  run'[q].page \in drawn'[run'[q].canvas]
      <3>1. CASE q = r
        BY <1>0, <1>1, <1>5, <2>1, <2>2, <3>1
      <3>2. CASE q # r
        BY <1>0, <1>3, <1>4, <1>5, <2>2, <3>2 DEF Covered
      <3>. QED BY <3>1, <3>2
    <2>3. \A q \in Run : run'[q].shown => run'[q].at = "done"
      BY <1>1, <1>4, <2>1 DEF Covered
    <2>. QED BY <2>2, <2>3 DEF Covered
  <1>. QED BY <1>6, <1>7

LEMMA CoveredNext ==
  ASSUME Typed, OneActive, Exclusive, PoolDisjoint, Covered, [Next]_vars PROVE Covered'
  <1>1. ASSUME UNCHANGED <<run, gone, drawn, raced>> PROVE Covered'
    BY <1>1 DEF Covered
  <1>2. ASSUME NEW r \in Run, RunStep(r) PROVE Covered'
    <2>1. CASE LoadSucceeds(r) \/ LoadFails(r) \/ RenderEnds(r)
      BY <1>1, <2>1 DEF LoadSucceeds, LoadFails, RenderEnds, poolVars
    <2>. QED BY <1>2, <2>1, CoveredAcquires, CoveredHost, CoveredDraws DEF RunStep
  <1>3. ASSUME NEW r \in Run, Teardown(r) PROVE Covered'
    BY <1>3, CoveredHost
  <1>4. ASSUME NEW r \in Run, NEW p \in Page, Mount(r, p) PROVE Covered'
    BY <1>4, CoveredHost
  <1>5. ASSUME NEW S \in SUBSET Page, replaceBytes(S) PROVE Covered'
    BY <1>1, <1>5 DEF replaceBytes, poolVars
  <1>6. ASSUME dispose PROVE Covered'
    <2>1. UNCHANGED <<run, raced>>
      BY <1>6 DEF dispose
    <2>2. gone \subseteq gone' /\ \A d \in Canvas : d \notin gone' => drawn'[d] = drawn[d]
      BY <1>6, CoveredPool
    <2>3. ASSUME ~raced, NEW q \in Run, run[q].held, run[q].shown, run[q].canvas \notin gone'
          PROVE  run[q].page \in drawn'[run[q].canvas]
      <3>1. run[q].canvas \in Canvas
        BY <2>3 DEF Exclusive, Holding, Kept
      <3>. QED BY <2>2, <2>3, <3>1 DEF Covered
    <2>. QED BY <2>1, <2>3 DEF Covered
  <1>7. CASE UNCHANGED vars
    BY <1>1, <1>7 DEF vars, poolVars
  <1>. QED BY <1>2, <1>3, <1>4, <1>5, <1>6, <1>7 DEF Next

\* A page host that has finished has its page's background on the canvas it draws on, which
\* no other host can have cleared, apart from the exceptions that NoBlankPage names.
THEOREM NoneIsBlank == Spec => []NoBlankPage
  <1>1. Init => Undamaged /\ Exclusive /\ HeldOn /\ Covered
    BY DEF Init, Undamaged, Active, NewRun, Exclusive, HeldShape, WaitsAlone, Waits, Holding,
           HeldOn, Covered
  <1>2. Undamaged /\ HeldOn /\ Covered => NoBlankPage
    BY DEF Undamaged, HeldOn, Covered, NoBlankPage, Active
  <1>3. Fresh => OneActive
    BY DEF Fresh
  <1>4. Spec => []Typed /\ []Fresh
    BY TypeInit, TypeNext, FreshInit, FreshNext, PTL DEF Spec
  <1>5. Spec => []Exclusive
    BY <1>1, <1>3, <1>4, ExclusiveNext, PTL DEF Spec
  <1>6. Spec => []Undamaged /\ []HeldOn
    BY <1>1, <1>4, UndamagedNext, HeldOnNext, PTL DEF Spec
  <1>. QED BY <1>1, <1>2, <1>3, <1>4, <1>5, <1>6, Disjoint, CoveredNext, PTL DEF Spec

=============================================================================
