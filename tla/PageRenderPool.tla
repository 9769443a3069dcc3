---------------------------- MODULE PageRenderPool ----------------------------
(***************************************************************************)
(* The pool of Fabric canvases and page backgrounds of the continuous view  *)
(* (components/editor/lib/page-render-pool.ts) and the page hosts that use  *)
(* it (page-canvas-host.tsx).  A run is one run of a host's render effect;  *)
(* it awaits acquire, the background and the decoded image, and its cleanup *)
(* may come between any two of them.  A background promise and a document   *)
(* load are named after the run that started them.                          *)
(***************************************************************************)
EXTENDS Naturals, Sequences, FiniteSets

CONSTANTS
    Page,       \* pages of the document
    Canvas,     \* fabric.Canvas instances: bounds how many are ever made
    Run,        \* runs of the hosts' render effect: bounds how many there are
    None,
    MaxLive,    \* maxLive
    MaxBytes,   \* bound on the bakes that replace the bytes
    MaxFaults   \* bound on failed loads, renders, images and clears

ASSUME PoolAssumption ==
    /\ IsFiniteSet(Page)
    /\ MaxLive \in Nat \ {0} /\ MaxBytes \in Nat /\ MaxFaults \in Nat
    /\ None \notin Page \cup Canvas \cup Run

VARIABLES
    live,      \* the canvas bound to a page
    lastUsed,  \* the tick of its last acquire
    tick,
    freeList,  \* released canvases, oldest first
    gone,      \* canvases that were disposed
    made,      \* canvases that were created
    disposed,  \* the pool is disposed
    bytes,     \* version of pdfBytes
    renderer,  \* the load of the shared renderer, or None
    latch,     \* rendererLoad
    loads,     \* loadDocument of every renderer
    bgCache,   \* the background promise of a page
    renders,   \* the background promises
    run,       \* the effect runs
    bump,      \* pages whose bgRevision was bumped, not yet committed
    drawn,     \* pages whose bitmap was added to a canvas since it was cleared
    changed,   \* ghost: version of the bytes that last changed a page
    raced,     \* ghost: a run began while another of its page awaited its canvas
    lost,      \* ghost: a bitmap may be missing
    faults     \* ghost: failures so far

poolVars == <<live, lastUsed, tick, freeList, gone, made>>
renderVars == <<renderer, latch, loads, bgCache, renders>>
vars == <<poolVars, disposed, bytes, renderVars, run, bump, drawn, changed, raced,
          lost, faults>>

Load == [at : {"none", "loading", "open", "closed", "failed"}, bytes : 0..MaxBytes]
Promise == [at : {"none", "loading", "encoding", "ready", "failed"}, load : Run \cup {None},
            bytes : 0..MaxBytes]
EffectRun == [at : {"new", "acquire", "acquired", "background", "image", "done", "over"},
              page : Page \cup {None}, cancelled : BOOLEAN, canvas : Canvas \cup {None},
              held : BOOLEAN, promise : Run \cup {None}, shown : BOOLEAN]

NewRun == [at |-> "new", page |-> None, cancelled |-> FALSE, canvas |-> None, held |-> FALSE,
           promise |-> None, shown |-> FALSE]
Over == [NewRun EXCEPT !.at = "over", !.cancelled = TRUE]

TypeOK ==
    /\ live \in [Page -> Canvas \cup {None}]
    /\ lastUsed \in [Page -> Nat] /\ tick \in Nat
    /\ freeList \in Seq(Canvas)
    /\ gone \in SUBSET Canvas /\ made \in SUBSET Canvas
    /\ disposed \in BOOLEAN
    /\ bytes \in 0..MaxBytes
    /\ renderer \in Run \cup {None} /\ latch \in Run \cup {None}
    /\ loads \in [Run -> Load]
    /\ bgCache \in [Page -> Run \cup {None}]
    /\ renders \in [Run -> Promise]
    /\ run \in [Run -> EffectRun]
    /\ bump \in SUBSET Page
    /\ drawn \in [Canvas -> SUBSET Page]
    /\ changed \in [Page -> 0..MaxBytes]
    /\ raced \in BOOLEAN /\ lost \in BOOLEAN
    /\ faults \in 0..MaxFaults

Init ==
    /\ live = [p \in Page |-> None]
    /\ lastUsed = [p \in Page |-> 0] /\ tick = 0
    /\ freeList = <<>> /\ gone = {} /\ made = {}
    /\ disposed = FALSE
    /\ bytes = 0
    /\ renderer = None /\ latch = None
    /\ loads = [r \in Run |-> [at |-> "none", bytes |-> 0]]
    /\ bgCache = [p \in Page |-> None]
    /\ renders = [r \in Run |-> [at |-> "none", load |-> None, bytes |-> 0]]
    /\ run = [r \in Run |-> NewRun]
    /\ bump = {}
    /\ drawn = [c \in Canvas |-> {}]
    /\ changed = [p \in Page |-> 0]
    /\ raced = FALSE /\ lost = FALSE /\ faults = 0

-----------------------------------------------------------------------------
(* The pool.                                                                *)

Live == {p \in Page : live[p] # None}

\* Mutant: one canvas more than maxLive.
OverFull == Cardinality(Live) > MaxLive

Full == Cardinality(Live) >= MaxLive

\* evictLeastRecentlyUsed
Victim(p) == p \in Live /\ \A q \in Live : lastUsed[p] <= lastUsed[q]

\* new fabric.Canvas
NewCanvas == CHOOSE c \in Canvas : c \notin made

\* Mutant: the evicted canvas is recycled at once, not disposed.
BindRecyclesVictim(p, c, v) ==
    LET spare == IF v = None THEN freeList ELSE Append(freeList, live[v]) IN
    /\ IF Full THEN v \in Page /\ Victim(v) ELSE v = None
    /\ IF spare # <<>>
       THEN c = Head(spare) /\ freeList' = Tail(spare) /\ UNCHANGED made
       ELSE Canvas # made /\ c = NewCanvas /\ made' = made \cup {c} /\ UNCHANGED freeList
    /\ live' = [q \in Page |-> IF q = p THEN c ELSE IF q = v THEN None ELSE live[q]]
    /\ tick' = tick + 1
    /\ lastUsed' = [q \in Page |-> IF q = p THEN tick + 1 ELSE IF q = v THEN 0 ELSE lastUsed[q]]
    /\ UNCHANGED <<gone, drawn>>

\* acquire after ensureFabric: neither live.get nor disposed is looked at again.  v: the
\* page evicted first, or None.  Rebinding a recycled canvas moves its element.
Bind(p, c, v) ==
    /\ IF Full THEN v \in Page /\ Victim(v) ELSE v = None
    /\ IF freeList # <<>>
       THEN c = Head(freeList) /\ freeList' = Tail(freeList) /\ UNCHANGED made
       ELSE Canvas # made /\ c = NewCanvas /\ made' = made \cup {c} /\ UNCHANGED freeList
    /\ live' = [q \in Page |-> IF q = p THEN c ELSE IF q = v THEN None ELSE live[q]]
    /\ gone' = IF v = None THEN gone ELSE gone \cup {live[v]}
    /\ drawn' = IF v = None THEN drawn ELSE [drawn EXCEPT ![live[v]] = {}]
    /\ tick' = tick + 1
    /\ lastUsed' = [q \in Page |-> IF q = p THEN tick + 1 ELSE IF q = v THEN 0 ELSE lastUsed[q]]

\* Mutant: a canvas that cannot be cleared is disposed and recycled.
ReleaseDisposedToo(p) ==
    IF live[p] = None THEN UNCHANGED <<live, lastUsed, freeList, gone, drawn, faults>>
    ELSE /\ live' = [live EXCEPT ![p] = None]
         /\ lastUsed' = [lastUsed EXCEPT ![p] = 0]
         /\ drawn' = [drawn EXCEPT ![live[p]] = {}]
         /\ freeList' = Append(freeList, live[p])
         /\ \/ UNCHANGED <<gone, faults>>
            \/ faults < MaxFaults /\ faults' = faults + 1 /\ gone' = gone \cup {live[p]}

\* Mutant: the early return for a page that is not live is missing.
ReleaseUnguarded(p) ==
    /\ live' = [live EXCEPT ![p] = None]
    /\ lastUsed' = [lastUsed EXCEPT ![p] = 0]
    /\ freeList' = Append(freeList, live[p])
    /\ drawn' = [c \in Canvas |-> IF c = live[p] THEN {} ELSE drawn[c]]
    /\ UNCHANGED <<gone, faults>>

\* release and recycle: a canvas that cannot be cleared is disposed.
release(p) ==
    IF live[p] = None THEN UNCHANGED <<live, lastUsed, freeList, gone, drawn, faults>>
    ELSE /\ live' = [live EXCEPT ![p] = None]
         /\ lastUsed' = [lastUsed EXCEPT ![p] = 0]
         /\ drawn' = [drawn EXCEPT ![live[p]] = {}]
         /\ \/ freeList' = Append(freeList, live[p]) /\ UNCHANGED <<gone, faults>>
            \/ /\ faults < MaxFaults /\ faults' = faults + 1
               /\ gone' = gone \cup {live[p]} /\ UNCHANGED freeList

\* Mutant: every render opens the document anew.
ensureRendererAnew(r) ==
    /\ renderer' = r /\ latch' = r
    /\ loads' = [loads EXCEPT ![r] = [at |-> "loading", bytes |-> bytes]]

\* ensureRenderer, called by run r.
ensureRenderer(r) ==
    IF latch # None THEN UNCHANGED <<renderer, latch, loads>>
    ELSE /\ renderer' = r /\ latch' = r
         /\ loads' = [loads EXCEPT ![r] = [at |-> "loading", bytes |-> bytes]]

\* renderBackground, called by run r: the cached promise, or one of r's own, which waits
\* for the load or, when the document is open, is rasterised.
renderBackground(r, p) ==
    IF bgCache[p] # None THEN UNCHANGED renderVars
    ELSE /\ ensureRenderer(r)
         /\ bgCache' = [bgCache EXCEPT ![p] = r]
         /\ renders' = [renders EXCEPT ![r] =
                          [at |-> IF loads'[latch'].at = "open" THEN "encoding" ELSE "loading",
                           load |-> latch', bytes |-> loads'[latch'].bytes]]

\* The document of a renderer is closed; one that is still loading opens later.
Close(l) == IF renderer # None /\ l[renderer].at = "open"
            THEN [l EXCEPT ![renderer].at = "closed"] ELSE l

\* Mutant: the backgrounds of the changed pages stay in the cache.
KeepBackgrounds(S) == bgCache

Invalidate(S) == [p \in Page |-> IF p \in S THEN None ELSE bgCache[p]]

\* Mutant: the hosts are not told.
NoBump(S) == bump

\* setBgRevisions
Bumped(S) == bump \cup S

\* replaceBytes after a bake of the pages S, and the bump of their revisions; S = Page
\* also when the view does not know which pages were baked.
replaceBytes(S) ==
    /\ ~disposed /\ bytes < MaxBytes
    /\ bytes' = bytes + 1
    /\ loads' = Close(loads)
    /\ renderer' = None /\ latch' = None
    /\ bgCache' = Invalidate(S)
    /\ bump' = Bumped(S)
    /\ changed' = [p \in Page |-> IF p \in S THEN bytes + 1 ELSE changed[p]]
    /\ lost' = (lost \/ \E r \in Run : renders[r].at = "loading")
    /\ UNCHANGED <<poolVars, disposed, renders, run, drawn, raced, faults>>

\* The view is unmounted, or built another pool.
dispose ==
    /\ ~disposed /\ disposed' = TRUE
    /\ live' = [p \in Page |-> None] /\ lastUsed' = [p \in Page |-> 0]
    /\ freeList' = <<>>
    /\ gone' = gone \cup {live[p] : p \in Live} \cup {freeList[i] : i \in DOMAIN freeList}
    /\ drawn' = [c \in Canvas |-> IF c \in gone' THEN {} ELSE drawn[c]]
    /\ bgCache' = [p \in Page |-> None]
    /\ loads' = Close(loads)
    /\ renderer' = None /\ latch' = None
    /\ lost' = TRUE
    /\ UNCHANGED <<tick, made, bytes, renders, run, bump, changed, raced,
                   faults>>

-----------------------------------------------------------------------------
(* The shared renderer.                                                     *)

\* The renders that wait for load l settle with it, before any other step.
Waiting(l) == {r \in Run : renders[r].at = "loading" /\ renders[r].load = l}

\* The promises of the runs R reject, each taking its page's entry with it.
Reject(R) ==
    /\ renders' = [r \in Run |-> IF r \in R THEN [renders[r] EXCEPT !.at = "failed"]
                                 ELSE renders[r]]
    /\ bgCache' = [p \in Page |-> IF \E r \in R : run[r].page = p THEN None ELSE bgCache[p]]

\* The page is rasterised with the renderer there is now, which may be gone, or another
\* one whose document is not open.
LoadSucceeds(r) ==
    /\ loads[r].at = "loading"
    /\ loads' = [loads EXCEPT ![r].at = "open"]
    /\ IF renderer # None /\ loads'[renderer].at = "open"
       THEN /\ renders' = [q \in Run |->
                             IF q \in Waiting(r)
                             THEN [renders[q] EXCEPT !.at = "encoding", !.bytes = loads[renderer].bytes]
                             ELSE renders[q]]
            /\ UNCHANGED bgCache
       ELSE Reject(Waiting(r))
    /\ UNCHANGED <<poolVars, disposed, bytes, renderer, latch, run, bump, drawn, changed, raced,
                   lost, faults>>

\* The latch is reset whatever renderer it belongs to by now.
LoadFails(r) ==
    /\ loads[r].at = "loading" /\ faults < MaxFaults
    /\ loads' = [loads EXCEPT ![r].at = "failed"]
    /\ renderer' = None /\ latch' = None
    /\ Reject(Waiting(r))
    /\ faults' = faults + 1 /\ lost' = TRUE
    /\ UNCHANGED <<poolVars, disposed, bytes, run, bump, drawn, changed, raced>>

RenderEnds(r) ==
    /\ renders[r].at = "encoding"
    /\ \/ renders' = [renders EXCEPT ![r].at = "ready"] /\ UNCHANGED <<bgCache, lost, faults>>
       \/ Reject({r}) /\ faults < MaxFaults /\ faults' = faults + 1 /\ lost' = TRUE
    /\ UNCHANGED <<poolVars, disposed, bytes, renderer, latch, loads, run, bump, drawn,
                   changed, raced>>

-----------------------------------------------------------------------------
(* The render effect of a page host.                                        *)

Active(r) == run[r].at # "new" /\ ~run[r].cancelled

\* The effect runs: the page is in the window, or its scale, size or revision changed.
\* acquire finds its page live, or awaits the fabric module.
Mount(r, p) ==
    /\ run[r].at = "new"
    /\ \A q \in Run : run[q].page = p => ~Active(q)
    /\ run' = [run EXCEPT ![r] =
                 IF disposed THEN Over
                 ELSE [@ EXCEPT !.page = p, !.canvas = live[p],
                                !.at = IF live[p] # None THEN "acquired" ELSE "acquire"]]
    /\ IF live[p] # None /\ ~disposed
       THEN tick' = tick + 1 /\ lastUsed' = [lastUsed EXCEPT ![p] = tick + 1]
       ELSE UNCHANGED <<tick, lastUsed>>
    /\ bump' = bump \ {p}
    /\ raced' = (raced \/ \E q \in Run : run[q].page = p /\ run[q].at \in {"acquire", "acquired"})
    /\ UNCHANGED <<live, freeList, gone, made, disposed, bytes, renderVars, drawn, changed,
                   lost, faults>>

AcquireResumes(r) ==
    /\ run[r].at = "acquire"
    /\ \E c \in Canvas, v \in Page \cup {None} :
          /\ Bind(run[r].page, c, v)
          /\ run' = [run EXCEPT ![r] = [@ EXCEPT !.at = "acquired", !.canvas = c]]
    /\ UNCHANGED <<disposed, bytes, renderVars, bump, changed, raced, lost, faults>>

\* The run has its canvas: it clears it and asks for the background.  A run that was
\* cancelled meanwhile releases its page.
HostAcquired(r) ==
    /\ run[r].at = "acquired"
    /\ IF run[r].cancelled
       THEN /\ release(run[r].page)
            /\ run' = [run EXCEPT ![r] = Over]
            /\ UNCHANGED renderVars
       ELSE /\ drawn' = [drawn EXCEPT ![run[r].canvas] = {}]
            /\ IF disposed
               THEN /\ run' = [run EXCEPT ![r] = [@ EXCEPT !.at = "done", !.held = TRUE]]
                    /\ UNCHANGED renderVars
               ELSE /\ renderBackground(r, run[r].page)
                    /\ run' = [run EXCEPT ![r] = [@ EXCEPT !.at = "background", !.held = TRUE,
                                                           !.promise = bgCache'[run[r].page]]]
            /\ UNCHANGED <<live, lastUsed, freeList, gone, faults>>
    /\ UNCHANGED <<tick, made, disposed, bytes, bump, changed, raced, lost>>

HostRendered(r) ==
    /\ run[r].at = "background"
    /\ renders[run[r].promise].at \in {"ready", "failed"}
    /\ run' = [run EXCEPT ![r] =
                 IF run[r].cancelled THEN Over
                 ELSE [@ EXCEPT !.at = IF renders[run[r].promise].at = "ready" THEN "image"
                                       ELSE "done"]]
    /\ UNCHANGED <<poolVars, disposed, bytes, renderVars, bump, drawn, changed, raced, lost,
                   faults>>

\* addPdfBackground: the image is decoded and added to the canvas, also when the run was
\* cancelled meanwhile.
HostDraws(r) ==
    /\ run[r].at = "image"
    /\ \/ /\ drawn' = [drawn EXCEPT ![run[r].canvas] =
                         IF run[r].canvas \in gone THEN @ ELSE @ \cup {run[r].page}]
          /\ run' = [run EXCEPT ![r] = IF run[r].cancelled THEN Over
                                       ELSE [@ EXCEPT !.at = "done", !.shown = TRUE]]
          /\ UNCHANGED <<lost, faults>>
       \/ /\ faults < MaxFaults /\ faults' = faults + 1 /\ lost' = TRUE
          /\ run' = [run EXCEPT ![r] = IF run[r].cancelled THEN Over
                                       ELSE [@ EXCEPT !.at = "done"]]
          /\ UNCHANGED drawn
    /\ UNCHANGED <<poolVars, disposed, bytes, renderVars, bump, changed, raced>>

\* The cleanup of the effect: the page left the window, or the effect runs anew.
Teardown(r) ==
    /\ Active(r)
    /\ run' = [run EXCEPT ![r] = IF @.at = "done" THEN Over
                                 ELSE [@ EXCEPT !.cancelled = TRUE, !.held = FALSE]]
    /\ IF run[r].held THEN release(run[r].page)
       ELSE UNCHANGED <<live, lastUsed, freeList, gone, drawn, faults>>
    /\ bump' = bump \ {run[r].page}
    /\ UNCHANGED <<tick, made, disposed, bytes, renderVars, changed, raced, lost>>

RunStep(r) ==
    \/ LoadSucceeds(r) \/ LoadFails(r) \/ RenderEnds(r)
    \/ AcquireResumes(r) \/ HostAcquired(r) \/ HostRendered(r) \/ HostDraws(r)

Next ==
    \/ \E r \in Run : RunStep(r) \/ Teardown(r) \/ \E p \in Page : Mount(r, p)
    \/ \E S \in SUBSET Page : S # {} /\ replaceBytes(S)
    \/ dispose

Spec == Init /\ [][Next]_vars

-----------------------------------------------------------------------------
(* Properties.                                                              *)

InFree(c) == \E i \in DOMAIN freeList : freeList[i] = c

\* However acquires, releases and evictions interleave, the pool keeps at most maxLive
\* canvases, bound and free together.
CapRespected == Cardinality(Live) + Len(freeList) <= MaxLive

\* A canvas of the pool is at one place in it and has not been disposed: acquire never
\* hands out a disposed canvas, nor one canvas for two pages.
PoolDisjoint ==
    /\ \A p, q \in Live : live[p] = live[q] => p = q
    /\ \A i, j \in DOMAIN freeList : freeList[i] = freeList[j] => i = j
    /\ \A p \in Live : ~InFree(live[p])
    /\ \A c \in gone : ~InFree(c) /\ \A p \in Page : live[p] # c

\* The canvas a mounted host draws on is its page's, unless it was evicted: no other host
\* can be given it.  It holds as long as no effect run begins while an earlier one of
\* its page still awaits its canvas: then the cancelled run releases its successor's.
ExclusiveUse ==
    ~raced => \A r \in Run : run[r].held =>
                 /\ ~InFree(run[r].canvas)
                 /\ run[r].canvas \in gone \/ live[run[r].page] = run[r].canvas

\* No cached background is older than the last bake of its page, whatever loads and
\* renders of the old bytes were under way when the bytes were replaced.
CacheFresh ==
    \A p \in Page : bgCache[p] # None =>
        (renders[bgCache[p]].at \in {"encoding", "ready"} => renders[bgCache[p]].bytes >= changed[p])

\* A mounted host shows its page as last baked, or its effect is about to run again.
ShownFresh ==
    \A r \in Run : (Active(r) /\ run[r].shown /\ run[r].page \notin bump) =>
        renders[run[r].promise].bytes >= changed[run[r].page]

\* A host that has finished has its page's background on its canvas.  The exceptions are
\* these: the canvas was evicted under the host, a load, a render or an image failed, the
\* pool was disposed, the bytes were replaced while a render awaited the document, or an
\* effect run began while an earlier one of its page still awaited its canvas.
NoBlankPage ==
    ~lost /\ ~raced =>
        \A r \in Run : (Active(r) /\ run[r].at = "done" /\ run[r].canvas \notin gone) =>
            run[r].page \in drawn[run[r].canvas]

=============================================================================
