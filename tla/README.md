# A verification project for komopdf

komopdf is a PDF editor that runs in the browser (React shell, PDFium-based
WebAssembly core in a Worker) with an optional AI gateway (Fastify, SQLite).
These modules model the parts of it whose correctness depends on *order*: messages
that cross, promises that resume late, writes that stop half-way, counters that
several callbacks give back. TLC checks the modules on small instances; TLAPS
proves for every instance every safety invariant and action property that the passing runs
check, and that the history of edits implements its specification.

Paths below are relative to `src/`. `editor/` abbreviates `packages/editor/src/`,
`gateway/` abbreviates `apps/gateway/src/`.

## 1. The system

| Component | State | Operations | Talks to | Modelled in |
|---|---|---|---|---|
| Worker RPC, `editor/rpc/{client,server,protocol}.ts` | client: pending map, handshake promise, exited error; worker: promise chain, binding promise, map of renders and their AbortControllers | call, abort, dispose; receive a request or a cancel; execute; detach | shell above, engine below, over two ordered `postMessage` channels | `WorkerRpc` |
| Display work lane, `editor/ui/render-work.ts` | per engine: pending jobs, shared jobs by key, running job, microtask flag, pause owners | request or join, cancel, schedule, finish, pause | views above, the RPC's `render` below | `RenderLane` |
| Crash recovery, `editor/recovery/recovery-manager.ts` | record store: a snapshot per document and one manifest; memory: a promise queue per host | persist, discard, check at start-up | shell, engine (`exportRecovery`), IndexedDB host | `Recovery` |
| Gateway admission and ledger, `gateway/{admission,account-store,server}.ts` | memory: slot counters, charge of each request; SQLite: accounts, usage rows, leases | acquire, release, reserve, settle, the SSE and agent handlers | clients (connections that close), model providers, Stripe | `GatewayLedger` |
| Worker-side engine, `editor/worker/wasm-c-api-binding.ts` | documents, revisions, saved revision, progressive render, pending commits | open, render, apply, undo, redo, save, confirmSave, close, export and restore recovery | RPC server above, native core below | in part in `Recovery`, `PageCache`, `EditSession` |
| Editing history, `native/pdf-core/src/session_history.cc` and `api/pdf_editor_api.cc` | log of edits, undone edits, revision, saved revision, used identities | commit, undo, redo, confirm save, close | the engine | `EditHistory`, `EditCore` |
| Engine adapter and page cache, `editor/rpc/{wasm-engine-adapter,page-cache}.ts`, `editor/ui/raster-cache.ts` | cached page models and rasters, their byte counts, document epochs | load, invalidate, evict, put | RPC below, views and lane above | `PageCache` |
| Editor shell, `editor/ui/EditorShell.tsx` | open documents, dirty flags, recoverable records | open, commit, save, close, restore | all of the above | one document in `EditSession`, its snapshots in `Recovery` |
| AI tasks and authorization, `packages/ai-client/src/{tasks,authorization}.ts`, `editor/ui/{AiPanelTaskStore.ts,AiPanelBatch.tsx}` | stored task records and results, the active run of each runner, its intent, grants | start, run a batch, pause, resume, reset, revoke, restore | gateway, IndexedDB | `LongTask` |
| AI transactions, `packages/ai-client/src/{transactions,workflow}.ts`, `editor/ui/TextActionPanel.tsx` | an answer, previews and the revision they were made on | preview, apply, confirm, undo | engine | applying an answer, in `EditSession` |
| Accounts and billing, `gateway/accounts.ts` | subscription of an account | webhook, checkout, portal | Stripe, ledger | only its effect on the ledger |
| Customer support, `gateway/support/` | tickets, replies, notification state | create, reply, claim, send, mark | mail service | `SupportMail` |
| Model providers, text actions, SSE frames | none that outlives a request | stream, parse | model APIs | a choice of `GatewayLedger` |
| Commands and contracts; web site; build and deployment; PDF processing | none, or data only | validation, layout, geometry, fonts | | not modelled (section 8) |

**How they interact.** A view asks the lane for a page. The lane gives the engine one
render at a time, through the RPC, and holds on until the engine has really answered,
because a second `render` would meet the first in the worker. An edit goes through the
RPC as a mutation; it aborts the renders of its document on arrival at the worker,
ahead of the queue, so that their pixels, which would be stale, are not posted. Every
edit also asks for a recovery snapshot, which the recovery queue writes in two
steps. On the server a request takes a slot, reserves tokens, streams, settles and gives
the slot back, and may lose its client, its deadline or its process anywhere between.

**What is hard here.** A cancel that crosses a result; a handshake that answers after
the caller gave up; work shared by requests that leave one by one; two writes that no
transaction covers; a `finally` that repeats what the success path did; four callbacks
that each give back the same slot; a balance read by two requests at once. The list
`hazards` of `PROJECT.json` gives each at its line, with the property that
would catch it or the module that is planned for it.

**What makes each component correct.**
RPC: every call settles, a cancelled one never with a result and never before the worker
has closed its render, in the order made, no stale pixels.
Lane: one render at a time, none that nobody wants, none forgotten, one job per key.
Recovery: the manifest does not promise more than the snapshots hold, one document's
record is not touched by another's, a discarded record stays away, the queue goes on.
Gateway: slots are neither lost nor given back twice, what is charged is what is
recorded, concurrent requests never share the same free tokens, what is reserved is
settled.
Caches: what they answer is the page as the last acknowledged commit left it, whatever was under
way; they count what they retain; a closed document leaves nothing.
Editing: undo and redo are the edits of the log, each applied once; a document shown as saved is
in the file; an AI answer replaces the text it was made for; the shell becomes free again.
Support: a notification is sent by one sender, and a second time only if the first answer was lost.
AI tasks: what was paused, reset, left or revoked asks nothing more, no result is paid for
twice, the record of an interrupted task can be taken up again.

## 2. The modules and the code

**`WorkerRpc`** composes both ends with the channels `toWorker` and `toClient`. `Call` is
`call()` up to its `await`; `Resume` is its continuation, in the order the callers began
to wait (promise reactions run in order); `Abort` is `onAbort`; `ClientReceive` is
`onMessage`/`onWorkerFailure`; `Dispose` is `dispose()`, where `terminate` is optional, so
the worker may live on. In the worker, `WorkerReceive` is the listener, where cancels and
mutations act at once, and the queue's promise chain is cut at its awaits: `Begin` (first
look at the signal, load of the binding), `LoadBinding`, `Bound` (second look, or the
handshake's answer), `Complete` (the engine has returned, third look). A worker may fail at
any time, with or without its thread surviving, and a post may throw. Malformed
messages, which both ends ignore, are left out. *Arguments and results are not modelled:
no property distinguishes them.*

**`RenderLane`** names each job by the request that brought it, so a request's own number
and its job's agree and no identifiers are invented. `arrival` stands for the position in
the array `pending`. `Start` and `Skip` are the two outcomes of the microtask.
`Finish` is `finally` of the job: the engine has answered, aborted or not.

**`Recovery`** cuts `persistRecoverySnapshot`, `discardRecoveryRecord` and
`checkRecoverableSessions` at each access to the store. An access succeeds or fails
(`Fault`), the page may be killed between any two (`Crash`). IndexedDB answers
requests in the order they were issued and the start-up check issues its first on mount,
hence the guard of `Open`. Which of the manifest's entries the user is offered (those with
unsaved changes) depends on data left out, so `listed` is any subset. `Restore` is
one action: the shell's steps in it touch the store only by reading the snapshot.

**`GatewayLedger`** follows one request through `server.ts`: authentication (`Arrive`),
`acquire` (`Admit`), `reserve`, forwarding, reports of usage, delivery, the end in success
or failure, the `finally` (`Conclude`) and the flush of its stream. The
connection may close at any point, `Release` is idempotent as in the code, and the four
places that call it are `Close`, `Reply`, `Flush` and the restart. `reserve` and `settle`
are SQLite transactions, so each is atomic; `SettleFails` rolls back. `early` marks a
request admitted when its client had gone during authentication. The history variable
`free` says which requests reserved under the free allowance. A provider's report
is assumed to stay within what it was allowed (`bound`). A lease expires (fifteen minutes)
only after its handler's end, since handlers end within their deadline of 180 s.

**`PageCache`** follows one document through both caches of the client and the session cache of the
worker. A request is posted by the call that finds nothing cached (`LoadMetrics`,
`DescribePage`, `StartRender`, `Commit`, `Close`), answered by one step of the worker (`ReadMetrics`,
`ReadModel`, `Render`, `ChangeDocument`, `CloseDocument`, or `Fail`), and received by one step of the
client, which includes every continuation up to the next message: the promise reactions
between two messages run without interruption. Both directions keep their order, as `WorkerRpc`
shows of the queue. The lane is reduced to one running render and a set of waiting
ones. `content` numbers what a page shows; a commit renumbers the pages it
reports as changed, so that the core reports them all is assumed. `acked` is a history
variable: the contents as of the last commit whose result the client has. Eviction
is stated by its result instead of its loop: what is kept are the newest entries, after as few of the oldest are
gone as make room (`Least`, `Oldest`, `Newest`). The entry's own earlier model, or the bitmaps that a new one
replaces, go before that. A buffer
shared by two bitmaps, `dispose` and the limits of the worker's session cache are left out;
a cancelled render behaves as one that failed.

**`LongTask`** follows one translation task. `loop` holds the calls of `runTaskLoop`, cut at every await
of it and of `continueTask`: `Enter` (the record read by the panel is there), `Begin` (the one read
by the runner), `Turn` (a save is over, the next batch), `Look` (`findCompletedBatch`), `Ask`
(`beginRequest` and the start of `runBatch`), `Answer` and `Fail`, `End`. `op` holds the
calls of `restore`, `pauseTask` and `cancelTask`, cut in the same way. Each panel mounted has a runner, and so
an `#active` entry and an intent of its own, while the store is one. Accesses to the store take effect
in the order they are made and do not fail; a read carries what was there when it was made.
`Unmount` is the panel going, alone or with the AI panel, whose effect revokes the authorization;
`Kill` is the page. A panel knows of an edit only while it is mounted (`revised`).
`overlapped` is a history variable: two runs, of two panels, have been under way together. How a task
is cut into batches, and a new task after a reset, are left out.

**`EditHistory`** is what a history promises, as the class `SessionHistory` states it: a revision that grows, the
newest `UndoLimit` edits to undo, the undone ones to redo, identities used once. **`EditCore`** is
what the kernel does instead, since the application does not link that class: `pdf_editor_api.cc`
keeps a log of transactions, the number of them that may be undone and the ones undone. Every change
rebuilds a candidate from the immutable source and the new log and installs it only when that worked, so
`Commit`, `Undo` and `Redo` are all or nothing, and a failed rebuild is a refusal that changes nothing. The content
is a function of the log and is represented by it. `Implements` is the refinement: the history's undo
stack is the newest `undoable` entries of the log. The mark of the saved revision is left out of the
abstract module because the two differ there: `pde_confirm_save` accepts an older revision than the one it
has, `SessionHistory::MarkSaved` refuses it.

**`EditSession`** composes `EditCore` with the shell's handlers for one document and the worker between them, here a
queue of requests executed one at a time in order (what `WorkerRpc` shows of it) and a queue of answers. A handler is cut at
each of its awaits: `StartEdit`/`EditLoaded` are `executeCommands`, whose `ensureEditable` awaits a page
before the shell is marked busy; `MoveHistory` is undo and redo; `StartApply`, `ReadSources`, `DeliverText`,
`PostApplication` are the panel's `apply`; `StartSave`, `HostAnswers`, `DeliverSaved`,
`DeliverConfirmed`, `EndSave` are `saveCurrentDocument`; `StartClose`, `AnswerPrompt`,
`DeliverClosed` are `closeDocument` and `closeHandler`; `DeliverCommit` and `Refresh` are `handleCommitted`. The two
hosts differ in saving: one writes a file and the kernel is told its revision, the browser only starts a download.
`knownText`, `file` and `decided` are history variables: the content committed as the
known revision, the content last written, how the user decided to close. Drafts, opening, views, selection and
documents in the background are left out.

**`SupportMail`** holds the rows of one ticket. `Post` is `create`, `message` and `admin.reply` with the
repetition of the same request; the sender it starts is not waited for. A sender takes the team's and then the customer's
notification: `Claim` is the conditional `UPDATE` of `claimMail`, `Transmit` the mail server with an answer
that may be lost, `Mark` is `markMail`. `Crash` ends all senders and leaves the rows. `accepted` and
`unanswered` are history variables that count what the mail server took and what nobody learnt of.

`MCWorkerRpc`, `MCPageCache`, `MCLongTask`, `MCRenderLane`, `MCRecovery`, `MCGatewayLedger`, `MCEditSession` and
`MCSupportMail` give the constants their values. The modules named `..._proofs` hold the theorems:
`RenderLane_proofs`, `WorkerRpc_proofs`, `EditSession_proofs` (of `EditCore` too), `SupportMail_proofs`,
`GatewayLedger_proofs`, `Recovery_proofs`, `LongTask_proofs`, `PageCache_proofs`.
The operators named `Mutant...` are seeded bugs, none of them part of any `Spec`: each
is a plausible mistake in the definition after it, by which some property is shown to
have teeth.

## 3. The runs

| Run | Instance | States | What it shows |
|---|---|---|---|
| `worker_rpc` | a render, a change of the same document, an unknown method | 63,305 | `SettledMeansClosed`, `CancelledNeverResolves`, `NoStaleRender`, `InvokedInOrder`, `EveryCallSettles` |
| `rpc_version` | a worker of another protocol version | | finding: `HandshakeSettles` is violated |
| `recovery` | two documents, one fault, one kill | 774,419 | `ManifestNeverAhead`, `DiscardIsFinal`, `OwnEntryOnly`, `DiscardRuns` |
| `recovery_manifest` | two documents, one fault | | finding: `TransientErrorsNeverPrune` is violated |
| `render_lane` | three requests of one key, one of interaction | 42,074 | `NoLostWakeup`, `OneJobPerKey`, `WaitersServed`, `RequestsSettle` |
| `gateway` | an SSE and an agent request of one account | 452,912 | slots are counted right (`TypeOK`), `LedgerBalances`, `FreeWithinAllowance`, `PartialPaysDelivered`, `NoLeaseLeftBehind`, `SlotsReturn` |
| `page_cache` | two pages, three units of models in a cache of two, two commits, a close | 8,203,518 | `LoadedIsCurrent`; the bytes counted are those retained (`TypeOK`) |
| `page_bitmaps` | a page at two scales, a commit, a clear or close | 373,172 | `BitmapIsCurrent`, `ClosedHoldsNothing`, `LoadsSettle` |
| `long_task` | two batches, two mounts, two runs and one operation at once | 5,013,113 | `StoppedAsksNothing`, `AskedOnce`, `NoGhostRunning` |
| `edit_session` | an edit that touches the text of an answer, its application, both hosts, three revisions | 730,624 | `CleanMeansWritten`, `AnswerOnItsText`, `ShellComesBack`, `Implements` |
| `edit_close` | two edits by hand, a host with files | | finding: `ClosedKeepsNewest` is violated |
| `support_mail` | a ticket and a reply, two senders, two resends, one crash | 622,961 | `OneSender`, `AcceptedOnce`, `StuckOnlyByCrash`, `PendingIsTried` |

Every run but `page_bitmaps`, `long_task` and the three findings checks the type invariant of its module too.

**Why the bounds are enough.** RPC: a render conflicts with a change, and with another render that was cancelled and is
still open; the second render is left to the theorems, which hold for any number of calls, and the
run keeps the call that fails at the worker instead. Calls are made at most once because a call's identifier is never used
again. Lane: the sharing cases need a job that is running and aborted, its successor,
and a third that joins; interaction is the only priority a pause treats
differently. Recovery: the operations interact through the one manifest, pairwise, so two
documents; `MaxRevision = 1` gives an old and a new snapshot, `MaxQueue = 2` a
persist ahead of a discard and the reverse; one fault and one kill each come at every
point. Gateway: with `Free = 3` the second request can reserve only when the first did
not, or settled for less; the limit of slots is one, and since closing a connection frees its slot while
the handler still works, both handlers do overlap. Caches: pages meet only in eviction, and
two whose models do not fit together evict each other; a load is invalidated by one commit, and a second meets
the entry made after the first; `MaxOutstanding = 2` puts a commit before a load and after it
in the same channel, with the answers crossing. AI tasks: a second batch comes after one that was stored, and its result
may be there from an earlier task (`Stored`); the second mount restores, or resumes, what the first left, running or not; two
runs are the most a panel and its predecessor have. One operation at a time (`Ops`) leaves out a
pause that is still under way when the panel is left or mounted again; the runs of the panel, which they
meet, are all there. Calls are interchangeable, hence the symmetry of `long_task`.
Editing: `MaxRevision` is the code's own limit (an `uint32_t`), made small so that it is met; with three revisions an
edit, an application and an undo or redo fill it, in any order. `UndoLimit = 1` lets the oldest edit fall off with the second.
One save from the menu, one closing, one undo and one redo are under way at a time; a second of each starts
when the first is over. Support mail: one ticket, since tickets share nothing; a reply notifies
one side and the creation both, a further message of the customer behaves as a reply with the sides
exchanged and is left to the theorems; two resends and a repeated request meet a sender at work. The bitmaps of different pages share only the budget, which two
scales of one page exhaust as well.

**Deadlock** is not checked: each of these systems really may stop, when every call has been
made and nothing is asked of it. That nobody waits for ever is what the liveness
properties say.

## 4. Fairness

- `WorkerRpc`: event loops deliver queued messages and resume settled promises, the binding's
  load settles, and the engine returns or throws. Nothing makes the application call, abort
  or dispose, or the worker fail.
- `RenderLane`: queued microtasks run, and the engine answers a job it was given (which
  is what `EveryCallSettles` says of the layer below). `RequestsSettle` assumes the view is not dragged
  for ever.
- `Recovery`: every access to the store settles and the promise chain goes on.
- `PageCache`: the worker answers what was posted, and answers are received. Nobody need ask, start
  a render, commit or close.
- `LongTask`: accesses to the store settle, and a request ends in an answer or a failure (the gateway
  gives it a deadline). Nobody need press anything.
- `EditSession`: the worker serves its queue and the shell handles what comes back (`EveryCallSettles`), the host's
  dialogue and the prompt on closing are answered in some way, and a handler that waits for a page or a refresh goes on.
  Nobody need edit, apply, save or close.
- `SupportMail`: a sender goes on; the mail server or its timeout answers. No fairness for requests, resends or crashes.
- `GatewayLedger`: a handler goes on, and its deadline ends it. No fairness for the client,
  the provider's reports, expiry or restart.

Each is weak fairness: none of these steps is disabled again and again by another.

## 5. What is proved

For every value of the constants that satisfies the module's `ASSUME`.

`RenderLane_proofs`. The inductive invariant is
`LaneInv == TypeOK /\ JobsInv /\ SharedInv /\ ConsumersInv /\ NoLostWakeup`. None of the checked
invariants is inductive alone: that no two wanted jobs share a key needs
that `shared[k]` is the only job of `k` with consumers (`SharedInv`), which needs that a
job with consumers is pending or running and not aborted (`JobsInv`), and that every
waiting request is a consumer of exactly one job (`ConsumersInv`). From it follow `TypeCorrect`,
`NeverAsleep` (`NoLostWakeup`), `WorkIsShared` (`OneJobPerKey`), `NobodyOrphaned`
(`WaitersServed`) and `EngineSerial` (the action property `SerialAndWanted`).

`WorkerRpc_proofs`. Lemmas say what `Append` and `Tail` do to the place of a request in
a queue or channel. `PlaceInv` says a request that was posted is in exactly one of: the
channel, the queue, running, answered; `RendersInv` ties the worker's map of renders to the
requests that are there; `ClosedInv` says nothing of a settled call is left at the worker. Together
they are inductive (`RpcInv`) and give `TypeCorrect`, `SettledClosed`, `CancelledStays` and
`StaleNeverLeaves`. `CallsInOrder` (`InvokedInOrder`) adds `OrderInv`: of two calls, the request of
the later stands behind the earlier's in the channel and in the queue, never has overtaken it from one to
the other, and does not run while the earlier is open. What a cancel or a change does on arrival, ahead of the queue,
leaves the queue as it is. `IssuedInv` says that a call is made once.

`EditSession_proofs`, in four parts. The kernel: `CoreImplements`, its log refines `EditHistory`. A redo of the abstract
history puts an edit back without one falling off, which needs `HistoryFits`: what may be undone and what may be redone
never exceed `UndoLimit` together. The invariant also types the log and bounds what may be undone by its length.
The lemmas say what `Append` and dropping the last entry do to the newest entries of a sequence.

The session: `SessionTypes` (`TypeOK`) from `Typed`, which types the requests and answers in the two
queues as well; every change a request may make is a step of the kernel, hence `SessionImplements`: the refinement
survives the composition.

The answer: `SessionAnswerOnItsText`. Whatever is edited, undone, redone, saved or closed meanwhile, an applied
answer stands on its text. `AnswerOnItsText` is not inductive. The argument follows the base revision of an
application: once the panel has found its text intact, the document cannot have changed as long as its
revision is that base (revisions only grow and each names one log); a transaction is applied only if its base is the
present revision. `AnswerInv` carries this through every stage: what has been read, what is being prepared, what is
posted; and for edits undone, that a redone application finds the same log below it as when it was applied.

The saved mark: `SessionCleanMeansWritten`. What the shell shows as saved it knows from answers that are older than what
it does next, so the invariant speaks of everything under way. A revision has one text wherever it is kept
(`VersionsInv`); each of save, confirmation and close has at most one request or answer, where its flow waits for it
(`FlowsInv`); a commit the shell has not heard of is newer than all it saved, so hearing of it marks the document
changed (`NewerInv`). `FileInv` is the core: the file holds the text to be confirmed last or, when nothing is left to
confirm, the one the shell takes for saved; or the document shows changes, or is gone. A close ends this in an order of its own
(`ClosedInv`: a refused confirmation comes only from a closed document); the browser, which confirms nothing,
(`WebInv`) and a document nothing was saved of (`OriginalInv`) are the two cases in which the shell's saved revision was not
confirmed by the kernel.

`LongTask_proofs`, for any number of batches, mounts, runs and operations. `TaskStoppedAsksNothing`: a runner holds at
most one run, and every run under way is held by its runner (`HeldInv`), so whoever stops the runner stops each run of it.
`TaskResultsAreStored`: no record, stored or in flight, calls a batch completed whose result is not in the store
(`KeptInv`); with two runs too, since the result is written before the record. `TaskAskedOnce` and
`TaskNoGhostRunning` hold until two runs of one task overlap (`AloneInv`): then what a run found in the store
is still so when it marks its batch and when it asks, and whatever record is in flight says 'running' only of the run under way, or
of one a restore has yet to take up (`Rested`, `Fresh`).

`PageCache_proofs`, for any pages, scales, sizes and limits. `CacheTypes` (`TypeOK`: the bytes counted are the bytes
retained, within the limits), `CacheLoadedIsCurrent`, `CacheBitmapIsCurrent`, `CacheClosedHoldsNothing`. The client
learns of a commit after answers the worker gave before it, and invalidates by deleting entries, so that a load is recognized as
outdated by its version only. `ChainInv` states what the order of the channel gives: what an answer under way says of
a page is what the last commit ahead of it left, or, with none ahead, what the client has acknowledged. An entry that is
alive when its answer comes was therefore made after every commit that changed its page (`VersionsInv`: a version belongs to one
page and is not given again). A bitmap carries the version of its key instead; that the answer of the
render under way is that of the key that runs is `RenderInv`, which the lane gives. For a close, `ClosingInv` says that no
load ahead of it has its entry any more and none behind it succeeds unless the close fails, and `ClosedInv` that
nothing is retained meanwhile. Part 3 proves of eviction what its loop does: some number of the oldest entries can always
go so that what is left fits, and after the least such number the count is exact (`MakingRoom`).

`SupportMail_proofs`. `MailOneSender`: the row of a notification is the lock, held from `Claim` to `Mark`.
`MailAcceptedOnce`: every acceptance is either the one the row or its holder knows of, or counted as unanswered;
`MailStuckOnlyByCrash`: a row is 'sending' only while it has a holder, until a crash. All three follow from `MailInv`.

`GatewayLedger_proofs`, for any finite number of requests, accounts and addresses. The ledger's properties are about sums over
sets of requests, and a sum is a fold, of which the library proves nothing. The first part proves what is needed (a
sum without one element, of a part, of the same values, after a change of one value). An induction on the set would need a
predicate as parameter; instead, a set of counterexamples has a smallest member (`SmallestSubset`, from the
library's theorem that the subsets of a finite set are well-founded), and taking one element from it gives a smaller
counterexample. `GatewayInv` is the conjunction of all properties with `PhasesInv` and `ChargesInv`: a balance is kept because `settle` meets a request
that has its lease and no row (`ChargesInv`), and because nobody reserves or settles in a phase where there is
already a row (`PhasesInv`). The free allowance needs that under it a request reserves all it may use,
so that what is settled replaces at least as much in the sum. Hence `GatewayTypes` (with the count of slots),
`GatewayBalances`, `GatewayFreeWithinAllowance`, `GatewayPartialPays`, `GatewayNoLeaseLeft`.

`Recovery_proofs`, for any documents, faults and kills. `ManifestNeverAhead` is not inductive, because the manifest is replaced by
copies taken earlier: one in each operation of the queue, one in the start-up check. `Held(d)` collects what any of them says of
a document, and `VersionsOf` bounds all of it by the snapshot, by the revision of the open document and by the snapshot
about to be written. `LivesOf` says when a document can be written or scanned at all: a restored one
starts from its snapshot, so nothing may be on its way for it. `ClosedInv` gives `RecoveryDiscardIsFinal`, `CopiesInv` gives
`RecoveryOwnEntryOnly`; no step but `WriteManifest` adds to `Held`, which is most of the proof.

Only model-checked is liveness (`EveryCallSettles`, `RequestsSettle`, `DiscardRuns`, `SlotsReturn`, `LoadsSettle`,
`ShellComesBack`, `PendingIsTried`), since fairness is beyond the prover, and of course the three properties that the code
violates. Two more limits shaped the proofs. An induction needs a predicate as parameter; where one is needed, a least
number or a smallest set of counterexamples takes its place, as above. And the prover cannot expand `@@` and
`SelectSeq`, so the modules that are proved about use function constructors and `Only`, a recursive function; the fold of the
community modules enters the proofs through one lemma, which says that it computes a recursive function (`SumIs`).

## 6. Findings

1. `rpc_version`. `client.ts:61` compares the worker's protocol version and has a message for
   a difference, but `isHandshake` (`protocol.ts:88`) already demands version 1, so the answer of
   a worker of any other version is dropped as malformed. The handshake stays pending and all calls wait for
   ever instead of failing with `CORE_UNAVAILABLE`.
2. `recovery_manifest`. `readManifest` (`recovery-manager.ts:73`) turns a failed read into an
   empty manifest, and the persist that reads it writes it back with its own entry only: one transient
   error removes all other documents from the list of recoverable ones. The comment at
   line 111 and a test say that transient errors must not prune.
3. `edit_close`. `SaveChangesDialog.tsx:14` says 'Your changes will be lost if you do not save them.' Whoever then
   chooses Save may lose them all the same: an edit that waits for its page (`ensureEditable`) has not marked the
   shell busy, so closing may begin, and the edit is posted behind the save. `closeHandler` takes
   the confirmation of the older revision as done (`EditorShell.tsx:1027`) and closes the document with the newer one unwritten.

Three observations that no run states. A notification that was being sent when the gateway died stays 'sending' for ever:
neither a repeated request nor a resend takes such a row (`StuckOnlyByCrash` says that nothing else leaves one
behind). Pause pressed after Resume, while `runTaskLoop` still reads the record, finds no run in `#active`
(`tasks.ts:266`), so the run goes on; the panel concerned (`AiPanelBatch.tsx`) is mounted by nothing in the application at present.
And with two runs of one task `AskedOnce` and `NoGhostRunning` fail as well, which is why both exclude it
(`overlapped`): one run may store the other's batch as running, and every later run passes over it until a restore.

## 7. Plan

Done: `WorkerRpc`, `RenderLane`, `Recovery`, `GatewayLedger`, `PageCache`, `LongTask`, `EditHistory`, `EditCore`, `EditSession`,
`SupportMail`. What is left, in this order:

1. Proofs: of the components that come next (2 to 5), once they are modelled; and of the refinement of the two caches to
   maps that forget, which would say in one abstract module what the four theorems say apart.
2. `OpenBudget`: the adapter's count of open documents, pages and source bytes.
3. `Billing`: the provider's subscription, webhooks that retrieve it concurrently, and the account.
4. The commit of a document in the background and the opening of a document, in `EditSession`.
5. `DocumentIds`: the names the kernel gives to pages and objects, which are made lazily or reserved, replayed on undo, saved in
   groups, and read back by a process that counts its sessions from 1 again (`native/pdf-core/api/pdf_editor_api.cc:550`, 1475-1540, 1730-1758).

## 8. What is not modelled, and why

- PDF processing (geometry, fonts, content streams, text layout, PDFium, qpdf): data, without
  protocol; tests and the compiler do better there.
- Commands and contracts: stateless validation.
- Of the kernel: opening, the recovery of a document from its journal, the names of pages and objects, and what each command
  does to the PDF. `EditCore` knows only which transactions are in force.
- Of the AI transactions: the previews of `transactions.ts`, the agent's `workflow.ts` and the parser of SSE frames.
- Of the support: identities, rate limits and the support chat, which keeps no state.
- Webhooks of the payment provider that overtake each other (`gateway/accounts.ts:54`): the ledger takes any change of
  membership at any time instead.
- Saving in the worker (packing, qpdf), progressive rendering in slices and the limits of the engine's sessions.
- React views, locales, the web site, build and deployment scripts.
- Of AI tasks: failing accesses to the store and its fallback in memory, the second user of the runner
  (`editor/ui/document-ai-context.ts`), sources authorized one by one.
- Two tabs of one origin over the same recovery store: the queue of `recovery-manager.ts` is per page and nothing
  in the code coordinates tabs.
- The gateway's per-minute window (a refusal is a choice), logins and sessions, and
  `count_tokens`, which reserves nothing.
