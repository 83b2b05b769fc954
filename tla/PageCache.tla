------------------------------ MODULE PageCache ------------------------------
(***************************************************************************)
(* What the client keeps of one document's pages: their geometry and       *)
(* models (rpc/page-cache.ts, filled by rpc/wasm-engine-adapter.ts) and    *)
(* their bitmaps (ui/raster-cache.ts), against commits, a close and loads  *)
(* that are on their way.                                                  *)
(*                                                                         *)
(* The worker answers requests in the order they were posted, each as one  *)
(* step, and any may fail (WorkerRpc models how).  The lane runs one       *)
(* render at a time (RenderLane models which); a render that is cancelled  *)
(* ends here as one that failed.  A page's content is the number of the    *)
(* commit that last changed it.                                            *)
(***************************************************************************)
EXTENDS Integers, Sequences, Functions

CONSTANTS Pages,          \* the pages the document ever has
          Scales,         \* the scales they are rendered at
          ModelBytes,     \* modelBytes of each page
          PixelBytes,     \* the size of a bitmap at each scale
          MaxPages,       \* PageCache.maxPages
          MaxBytes,       \* PageCache.maxBytes
          Budget,         \* PageBitmapCache.budget
          MaxRevision,    \* bound: the commits the worker accepts
          MaxEpoch,       \* bound: the times the bitmaps are cleared
          MaxOutstanding  \* bound: the requests and answers under way

ASSUME CacheAssumption ==
  /\ ModelBytes \in [Pages -> Nat \ {0}] /\ PixelBytes \in [Scales -> Nat \ {0}]
  /\ {MaxPages, MaxBytes, Budget, MaxRevision, MaxEpoch, MaxOutstanding} \subseteq Nat

VARIABLES
  revision, content, order, serving, \* the document at the worker, while it is open
  sessionMetrics, sessionModels,     \* what the worker has read of each page, or 0; limits left out
  requests, replies,  \* the two directions of the channel
  phase,      \* the document at the client: "open", "closing" or "closed"
  acked,      \* the contents as of the last commit whose result has arrived
  entry,      \* PageCache.documents: the entry of each page, version 0 if it has none
  sequence,   \* PageCache.sequence
  models,     \* PageCache.models, least recently used first
  bytes,      \* PageCache.bytes
  waiting, running,   \* the renders in the lane: their keys, and the one that runs
  bitmaps,    \* PageBitmapCache.entries, least recently used first
  pixels,     \* PageBitmapCache.retainedBytes
  epoch       \* PageBitmapCache.epochs of the document

sessionVars == <<sessionMetrics, sessionModels>>
workerVars == <<revision, content, order, serving, sessionVars>>
pageVars == <<entry, sequence, models, bytes>>
rasterVars == <<waiting, running, bitmaps, pixels, epoch>>
vars == <<workerVars, requests, replies, phase, acked, pageVars, rasterVars>>

NoEntry == [version |-> 0, metrics |-> 0, metricsPending |-> FALSE, pending |-> FALSE]
Idle == [stage |-> "idle"]
Send(m) == requests' = Append(requests, m)
RoomToSend == Len(requests) + Len(replies) < MaxOutstanding

\* What of a queue is in S, in its order.
Only(seq, S) ==
  LET f[i \in 0 .. Len(seq)] ==
        IF i = 0 THEN <<>> ELSE IF seq[i] \in S THEN Append(f[i - 1], seq[i]) ELSE f[i - 1]
  IN f[Len(seq)]

Oldest(seq, n) == SubSeq(seq, 1, n)
Newest(seq, n) == SubSeq(seq, n + 1, Len(seq))
Least(N) == CHOOSE n \in N : \A k \in N : n <= k

ModelSum(M) == SumFunctionOnSet([m \in M |-> ModelBytes[m.page]], M)
PixelSum(B) == SumFunctionOnSet([b \in B |-> PixelBytes[b.key.scale]], B)

----------------------------------------------------------------------------
(* PageCache                                                               *)

\* entry: the entry of a page, made when it is first asked for, with a new version.
Entered(p) == IF entry[p].version # 0 THEN entry
              ELSE [entry EXCEPT ![p] = [NoEntry EXCEPT !.version = sequence + 1]]
Touch(p) == sequence' = IF entry[p].version # 0 THEN sequence ELSE sequence + 1

ModelsOf(v) == {m \in Range(models) : m.version = v}

\* Is the entry a load began with still the entry of its page?
Live(p, v) == entry[p].version = v

ModelsOfPages(P) == {m \in Range(models) : \E p \in P : m.version = entry[p].version}

\* Seeded bug: an entry without a model is released for the size of one.
MutantRelease(P) ==
  /\ models' = Only(models, Range(models) \ ModelsOfPages(P))
  /\ bytes' = bytes - SumFunctionOnSet(ModelBytes, P)

\* release: the models of these pages' entries go.
Release(P) ==
  /\ models' = Only(models, Range(models) \ ModelsOfPages(P))
  /\ bytes' = bytes - ModelSum(ModelsOfPages(P))

\* remember: the entry's own model goes, the new one comes, and then the least
\* recently used go until what is left is within both limits.
Remember(p, v, c) ==
  LET old == Only(models, Range(models) \ ModelsOf(v))
      new == Append(old, [page |-> p, version |-> v, content |-> c])
      base == bytes - ModelSum(ModelsOf(v))
      After(n) == base + ModelBytes[p] - ModelSum(Range(Oldest(new, n)))
      gone == Least({n \in 0 .. Len(old) : Len(new) - n <= MaxPages /\ After(n) <= MaxBytes})
  IN IF MaxPages = 0 \/ ModelBytes[p] > MaxBytes
     THEN models' = old /\ bytes' = base
     ELSE models' = Newest(new, gone) /\ bytes' = After(gone)

\* Seeded bug: the models go but the entries, and so their versions, stay.
MutantForget(P) ==
  /\ entry' = [p \in Pages |-> IF p \in P THEN [entry[p] EXCEPT !.metrics = 0] ELSE entry[p]]
  /\ Release(P)

\* The entries of these pages are deleted.
Forget(P) ==
  /\ entry' = [p \in Pages |-> IF p \in P THEN NoEntry ELSE entry[p]]
  /\ Release(P)

\* getPageVersion; so does a request for a bitmap of a version that is over.
ReadVersion(p) ==
  /\ Touch(p) /\ entry' = Entered(p)
  /\ UNCHANGED <<workerVars, requests, replies, phase, acked, models, bytes, rasterVars>>

\* describePageMetrics: known, already on its way, or asked for.
LoadMetrics(p) ==
  LET e == Entered(p)[p]
      ask == e.metrics = 0 /\ ~e.metricsPending
  IN /\ Touch(p)
     /\ entry' = [Entered(p) EXCEPT ![p].metricsPending = @ \/ ask]
     /\ IF ask THEN /\ RoomToSend
                    /\ Send([op |-> "metrics", page |-> p, version |-> e.version])
        ELSE UNCHANGED requests

\* describePageMetrics of the interface.
DescribeMetrics(p) ==
  /\ LoadMetrics(p)
  /\ UNCHANGED <<workerVars, replies, phase, acked, models, bytes, rasterVars>>

\* describePage: retained (and now the last used), already on its way, or asked for.
DescribePage(p) ==
  LET e == Entered(p)[p] IN
  /\ Touch(p)
  /\ IF ModelsOf(e.version) # {} \/ e.pending
     THEN /\ models' = Only(models, Range(models) \ ModelsOf(e.version))
                         \o Only(models, ModelsOf(e.version))
          /\ entry' = Entered(p) /\ UNCHANGED requests
     ELSE /\ RoomToSend
          /\ Send([op |-> "model", page |-> p, version |-> e.version])
          /\ entry' = [Entered(p) EXCEPT ![p].pending = TRUE]
          /\ UNCHANGED models
  /\ UNCHANGED <<workerVars, replies, phase, acked, bytes, rasterVars>>

\* apply, undo and redo: the pages they change and the pages there are afterwards.
Commit(changed, after) ==
  /\ RoomToSend
  /\ Send([op |-> "commit", changed |-> changed, after |-> after])
  /\ UNCHANGED <<workerVars, replies, phase, acked, pageVars, rasterVars>>

\* Seeded bug: a failed load stays on its way.
MutantSettle(p, v, c, field) ==
  IF entry[p].version = v /\ c # 0 THEN [entry EXCEPT ![p][field] = FALSE, ![p].metrics = c] ELSE entry

\* A load is over, and left geometry behind or failed (c = 0).  An entry deleted
\* meanwhile is nobody's.
Settle(p, v, c, field) ==
  IF entry[p].version # v THEN entry
  ELSE [entry EXCEPT ![p][field] = FALSE, ![p].metrics = IF c = 0 THEN @ ELSE c]

\* The answer to describePageMetrics; the render that waits for it goes on or ends.
ReceiveMetrics(m, result) ==
  LET waits == running.stage = "metrics" /\ running.key.version = m.version
      good == result # 0 /\ Live(m.page, m.version)
  IN /\ entry' = Settle(m.page, m.version, result, "metricsPending")
     /\ \/ /\ waits /\ good  \* within the render budget
           /\ Send([op |-> "render", page |-> m.page])
           /\ running' = [stage |-> "posted", key |-> running.key]
        \/ /\ waits         \* failed, cancelled or over the budget
           /\ running' = Idle /\ UNCHANGED requests
        \/ ~waits /\ UNCHANGED <<running, requests>>
     /\ UNCHANGED <<phase, acked, sequence, models, bytes, waiting, bitmaps, pixels, epoch>>

\* The answer to describePage.
ReceiveModel(m, result) ==
  /\ entry' = Settle(m.page, m.version, result, "pending")
  /\ IF result # 0 /\ Live(m.page, m.version)
     THEN Remember(m.page, m.version, result)
     ELSE UNCHANGED <<models, bytes>>
  /\ UNCHANGED <<requests, phase, acked, sequence, rasterVars>>

\* The pages a commit makes obsolete, at the client and at the worker.
Obsolete(m) == m.changed \cup (Pages \ m.after)

\* Seeded bug: only the pages that are gone lose their entries.
MutantReceiveCommit(a) ==
  /\ IF a.result = 0 THEN UNCHANGED <<acked, entry, models, bytes>>
     ELSE /\ acked' = a.contents
          /\ Forget({p \in Pages \ a.to.after : entry[p].version # 0})
  /\ UNCHANGED <<requests, phase, sequence, rasterVars>>

\* The answer to apply, undo or redo: invalidatePages.
ReceiveCommit(a) ==
  /\ IF a.result = 0 THEN UNCHANGED <<acked, entry, models, bytes>>
     ELSE /\ acked' = a.contents
          /\ Forget({p \in Obsolete(a.to) : entry[p].version # 0})
  /\ UNCHANGED <<requests, phase, sequence, rasterVars>>

----------------------------------------------------------------------------
(* PageBitmapCache                                                         *)

Key(p, s, v) == [page |-> p, scale |-> s, version |-> v, epoch |-> epoch]

\* current: neither the page nor the epoch has changed since the request.
Current(k) == Entered(k.page)[k.page].version = k.version /\ epoch = k.epoch

\* put: the bitmap of this key and the other versions of its page go, the new one
\* comes, and then the least recently used go until what is left is within the budget.
Put(k, c) ==
  LET gone == {b \in Range(bitmaps) : b.key = k \/ (b.page = k.page /\ b.key.version # k.version)}
      others == Only(bitmaps, Range(bitmaps) \ gone)
      new == Append(others, [key |-> k, page |-> k.page, content |-> c])
      base == pixels - PixelSum(gone)
      After(n) == base + PixelBytes[k.scale] - PixelSum(Range(Oldest(new, n)))
      evicted == Least({n \in 0 .. Len(others) : After(n) <= Budget})
  IN IF PixelBytes[k.scale] > Budget
     THEN bitmaps' = others /\ pixels' = base
     ELSE bitmaps' = Newest(new, evicted) /\ pixels' = After(evicted)

\* clear: what is retained goes, and no render under way may come back.
Clear == epoch' = epoch + 1 /\ bitmaps' = <<>> /\ pixels' = pixels - PixelSum(Range(bitmaps))

\* requestPageBitmap at the present version: retained (and now the last used), or
\* one render for all who ask for it.
RequestBitmap(p, s) ==
  LET k == Key(p, s, Entered(p)[p].version)
      mine == {b \in Range(bitmaps) : b.key = k}
      runs == running.stage # "idle" /\ running.key = k
  IN /\ Touch(p) /\ entry' = Entered(p)
     /\ IF mine # {}
        THEN /\ bitmaps' = Only(bitmaps, Range(bitmaps) \ mine) \o Only(bitmaps, mine)
             /\ UNCHANGED waiting
        ELSE waiting' = (IF runs THEN waiting ELSE waiting \cup {k}) /\ UNCHANGED bitmaps
     /\ UNCHANGED <<workerVars, requests, replies, phase, acked, models, bytes, running, pixels, epoch>>

\* The lane starts a render: it needs the page's geometry first.
StartRender(k) ==
  /\ running.stage = "idle" /\ k \in waiting
  /\ waiting' = waiting \ {k}
  /\ IF Current(k)
     THEN IF entry[k.page].metrics = 0
          THEN /\ LoadMetrics(k.page) /\ running' = [stage |-> "metrics", key |-> k]
          ELSE /\ UNCHANGED <<entry, sequence>>
               /\ \/ /\ RoomToSend /\ Send([op |-> "render", page |-> k.page])
                     /\ running' = [stage |-> "posted", key |-> k]
                  \/ running' = running /\ UNCHANGED requests \* over the render budget
     ELSE Touch(k.page) /\ entry' = Entered(k.page) /\ running' = running /\ UNCHANGED requests
  /\ UNCHANGED <<workerVars, replies, phase, acked, models, bytes, bitmaps, pixels, epoch>>

\* Seeded bug: a bitmap is put without asking whether it is still current.
MutantReceiveRender(result) ==
  /\ Touch(running.key.page) /\ entry' = Entered(running.key.page)
  /\ IF result # 0 THEN Put(running.key, result) ELSE UNCHANGED <<bitmaps, pixels>>
  /\ running' = Idle
  /\ UNCHANGED <<requests, phase, acked, models, bytes, waiting, epoch>>

\* The answer to render.
ReceiveRender(result) ==
  LET k == running.key IN
  /\ IF result = 0 THEN UNCHANGED <<entry, sequence, bitmaps, pixels>>
     ELSE /\ Touch(k.page) /\ entry' = Entered(k.page)
          /\ IF Current(k) THEN Put(k, result) ELSE UNCHANGED <<bitmaps, pixels>>
  /\ running' = Idle
  /\ UNCHANGED <<requests, phase, acked, models, bytes, waiting, epoch>>

\* The shell shows another document: clearPageBitmaps.
ClearBitmaps ==
  /\ epoch < MaxEpoch /\ Clear
  /\ UNCHANGED <<workerVars, requests, replies, phase, acked, pageVars, waiting, running>>

\* The shell closes the document: clearPageBitmaps and WasmEngineAdapter.close.
Close ==
  /\ phase = "open" /\ epoch < MaxEpoch /\ RoomToSend
  /\ phase' = "closing"
  /\ Clear
  /\ Forget({p \in Pages : entry[p].version # 0})
  /\ Send([op |-> "close"])
  /\ UNCHANGED <<workerVars, replies, acked, sequence, waiting, running>>

\* The answer to close.
ReceiveClose(result) ==
  /\ phase' = IF result = 0 THEN "open" ELSE "closed"
  /\ UNCHANGED <<requests, acked, pageVars, rasterVars>>

----------------------------------------------------------------------------
(* The worker, and the composition                                         *)

\* Every answer says what it answers; that to a commit brings the new contents.
Answer(a) ==
  /\ requests # <<>> /\ a.to = Head(requests)
  /\ requests' = Tail(requests)
  /\ replies' = Append(replies, a)
  /\ UNCHANGED <<phase, acked, pageVars, rasterVars>>

Result(r) == Answer([to |-> Head(requests), result |-> r])

\* The worker refuses a request, or fails in it.
Fail == Result(0) /\ UNCHANGED workerVars

Reads(op) ==
  requests # <<>> /\ Head(requests).op = op /\ serving /\ Head(requests).page \in order

Known(cache, p) == IF cache[p] # 0 THEN cache[p] ELSE content[p]

\* It reads a page's geometry, or has it in the session.
ReadMetrics ==
  /\ Reads("metrics")
  /\ LET p == Head(requests).page IN
       /\ sessionMetrics' = [sessionMetrics EXCEPT ![p] = Known(sessionMetrics, p)]
       /\ Result(Known(sessionMetrics, p))
  /\ UNCHANGED <<revision, content, order, serving, sessionModels>>

\* It reads a page's model, or has it in the session.
ReadModel ==
  /\ Reads("model")
  /\ LET p == Head(requests).page IN
       /\ sessionModels' = [sessionModels EXCEPT ![p] = Known(sessionModels, p)]
       /\ sessionMetrics' = [sessionMetrics EXCEPT ![p] = IF sessionModels[p] # 0 THEN @ ELSE content[p]]
       /\ Result(Known(sessionModels, p))
  /\ UNCHANGED <<revision, content, order, serving>>

\* It renders a page, after its geometry.
Render ==
  /\ Reads("render")
  /\ LET p == Head(requests).page IN
       /\ sessionMetrics' = [sessionMetrics EXCEPT ![p] = Known(sessionMetrics, p)]
       /\ Result(content[p])
  /\ UNCHANGED <<revision, content, order, serving, sessionModels>>

\* It changes the document, and what it had read of the changed pages goes.
ChangeDocument ==
  /\ requests # <<>> /\ Head(requests).op = "commit"
  /\ serving /\ revision < MaxRevision
  /\ LET m == Head(requests)
         Purge(cache) == [p \in Pages |-> IF p \in Obsolete(m) THEN 0 ELSE cache[p]]
     IN /\ revision' = revision + 1
        /\ content' = [p \in Pages |-> IF p \in m.changed THEN revision' + 1 ELSE content[p]]
        /\ order' = m.after
        /\ sessionMetrics' = Purge(sessionMetrics) /\ sessionModels' = Purge(sessionModels)
        /\ Answer([to |-> m, result |-> revision', contents |-> content'])
  /\ UNCHANGED serving

\* It closes the document.
CloseDocument ==
  /\ requests # <<>> /\ Head(requests).op = "close"
  /\ serving /\ serving' = FALSE
  /\ Result(1)
  /\ UNCHANGED <<revision, content, order, sessionVars>>

Answering == Fail \/ ReadMetrics \/ ReadModel \/ Render \/ ChangeDocument \/ CloseDocument

\* An answer arrives: all that follows from it is done before the next arrives.
Receive ==
  /\ replies # <<>> /\ replies' = Tail(replies)
  /\ LET a == Head(replies) IN
       \/ a.to.op = "metrics" /\ ReceiveMetrics(a.to, a.result)
       \/ a.to.op = "model" /\ ReceiveModel(a.to, a.result)
       \/ a.to.op = "render" /\ ReceiveRender(a.result)
       \/ a.to.op = "commit" /\ ReceiveCommit(a)
       \/ a.to.op = "close" /\ ReceiveClose(a.result)
  /\ UNCHANGED workerVars

Init ==
  /\ sessionMetrics = [p \in Pages |-> 0] /\ sessionModels = [p \in Pages |-> 0]
  /\ revision = 0 /\ content = [p \in Pages |-> 1] /\ order = Pages /\ serving = TRUE
  /\ requests = <<>> /\ replies = <<>> /\ phase = "open"
  /\ acked = content
  /\ entry = [p \in Pages |-> NoEntry] /\ sequence = 0 /\ models = <<>> /\ bytes = 0
  /\ waiting = {} /\ running = Idle /\ bitmaps = <<>> /\ pixels = 0 /\ epoch = 0

Next ==
  \/ \E p \in Pages : ReadVersion(p) \/ DescribeMetrics(p) \/ DescribePage(p)
  \/ \E changed \in SUBSET Pages, after \in SUBSET Pages \ {{}} :
       changed \subseteq after /\ Commit(changed, after)
  \/ \E p \in Pages, s \in Scales : RequestBitmap(p, s)
  \/ \E k \in waiting : StartRender(k)
  \/ ClearBitmaps \/ Close
  \/ Answering
  \/ Receive

Spec == Init /\ [][Next]_vars

\* The worker answers what it has read, and the client's event loop runs.
FairSpec == Spec /\ WF_vars(Answering) /\ WF_vars(Receive)

----------------------------------------------------------------------------
(* Properties                                                              *)

Keys == [page : Pages, scale : Scales, version : Nat \ {0}, epoch : 0 .. MaxEpoch]
Models == [page : Pages, version : Nat \ {0}, content : Nat \ {0}]
Bitmaps == [key : Keys, page : Pages, content : Nat \ {0}]

\* The byte count is what is retained, within both limits, and every retained model
\* can still be asked for: none outlives the entry of its page (page-cache.ts:38-51).
ModelsAccounted ==
  /\ bytes = ModelSum(Range(models)) /\ bytes <= MaxBytes /\ Len(models) <= MaxPages
  /\ \A i, j \in DOMAIN models : models[i].version = models[j].version => i = j
  /\ \A i \in DOMAIN models : entry[models[i].page].version = models[i].version

\* The pixel count is what is retained, each bitmap once, within the budget.
BitmapsAccounted ==
  /\ pixels = PixelSum(Range(bitmaps)) /\ pixels <= Budget
  /\ \A i, j \in DOMAIN bitmaps : bitmaps[i].key = bitmaps[j].key => i = j

\* The types of the client's state, and counters that count what they claim.
TypeOK ==
  /\ phase \in {"open", "closing", "closed"} /\ acked \in [Pages -> Nat \ {0}]
  /\ entry \in [Pages -> [version : 0 .. sequence, metrics : Nat, metricsPending : BOOLEAN, pending : BOOLEAN]]
  /\ sequence \in Nat /\ epoch \in 0 .. MaxEpoch
  /\ models \in Seq(Models) /\ bitmaps \in Seq(Bitmaps) /\ waiting \subseteq Keys
  /\ running \in {Idle} \cup [stage : {"metrics", "posted"}, key : Keys]
  /\ ModelsAccounted /\ BitmapsAccounted

\* What describePage and describePageMetrics answer from the cache is the page as
\* the last commit whose result has arrived left it, whatever loads, commits and
\* closes were under way when it was loaded (page-cache.ts:60, 77, 91).
LoadedIsCurrent ==
  \A p \in Pages : entry[p].version # 0 =>
    /\ entry[p].metrics \in {0, acked[p]}
    /\ \A i \in DOMAIN models : models[i].version = entry[p].version => models[i].content = acked[p]

\* A bitmap that a request at the present version and epoch would be given shows the
\* page as the last commit whose result has arrived left it (raster-cache.ts:77-87).
BitmapIsCurrent ==
  \A i \in DOMAIN bitmaps :
    LET b == bitmaps[i] IN
    b.key.version = entry[b.page].version /\ b.key.epoch = epoch => b.content = acked[b.page]

\* From the moment a document is being closed nothing of it is retained, and no late
\* load or render brings any of it back (raster-cache.test.ts:51).
ClosedHoldsNothing == phase # "open" => models = <<>> /\ bytes = 0 /\ bitmaps = <<>>

\* Every load ends, so that the next reader may ask again, and so does every render
\* that runs, also when the load it waits for was another reader's or has lost its entry.
LoadsSettle ==
  /\ \A p \in Pages : /\ entry[p].pending ~> ~entry[p].pending
                      /\ entry[p].metricsPending ~> ~entry[p].metricsPending
  /\ running.stage # "idle" ~> running.stage = "idle"
=============================================================================
