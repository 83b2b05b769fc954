------------------------------ MODULE EditSession ------------------------------
(***************************************************************************)
(* One document being edited, saved and closed: the editor shell           *)
(* (packages/editor/src/ui/EditorShell.tsx), the panel that applies an AI  *)
(* answer (TextActionPanel.tsx), the worker that executes the shell's      *)
(* requests one at a time in their order (rpc/server.ts) and the document  *)
(* kernel behind it (EditCore).                                            *)
(*                                                                         *)
(* The shell's handlers are asynchronous: each await ends an action, and   *)
(* what the handler goes on with is what it kept before.  The shell knows  *)
(* the document by the revision it last heard of; the content that was     *)
(* committed with that revision is kept beside it for the properties.      *)
(***************************************************************************)
EXTENDS EditCore

CONSTANTS
  Manual,         \* edits made by hand, one transaction each
  Applications,   \* attempts to apply the AI answer, one transaction each
  Touching,       \* the edits by hand that change the text the AI answer is for
  Hosts           \* the hosts looked at: TRUE is the browser, where saving starts a download

ASSUME EditsAssumption ==
  /\ Transactions = Manual \cup Applications
  /\ Manual \cap Applications = {}
  /\ Touching \subseteq Manual
  /\ {"undo", "redo"} \cap Transactions = {}
  /\ Hosts \subseteq BOOLEAN

VARIABLES
  web,            \* host.capabilities.platform === 'web'; never changes
  shown,          \* the document is in the shell's sessions
  known,          \* info.revision there
  knownSaved,     \* info.savedRevision there
  knownText,      \* the content committed as revision `known`
  canMove,        \* history: what handleCommitted last heard of undo and redo
  downloaded,     \* downloadedRevision, if there is one
  activity,       \* what the shell is busy with
  editPending,    \* a panel is writing
  stage,          \* how far each edit, application and undo or redo is
  base,           \* the revision an application works on
  applied,        \* appliedRevision, if there is one
  took,           \* what a handleCommitted holds while it refreshes the page
  closing,        \* how far the closing of the document is
  closeAt,        \* the revision for which the user is asked
  save,           \* how far the save from the menu and the one that closes are
  queue,          \* requests the worker has not executed
  replies,        \* answers the shell has not handled
  file,           \* the content kept outside: last written, or downloaded
  decided         \* how a document with changes comes to be closed: discarded or saved

editVars  == << stage, base, applied, took >>
shellVars == << web, shown, known, knownSaved, knownText, canMove, downloaded >>
busyVars  == << activity, editPending >>
closeVars == << closing, closeAt, decided >>
saveVars  == << save, file >>
vars == << coreVars, shellVars, busyVars, editVars, closeVars, saveVars, queue, replies >>

Move  == {"undo", "redo"}
Tasks == Transactions \cup Move
Flows == {"menu", "close"}

NoFlow   == [at |-> "no", rev |-> 0, text |-> << >>]
NoCommit == [rev |-> 0, saved |-> 0, text |-> << >>]

\* The block of text of the AI answer still reads as when the answer was made.
Intact(text) == \A i \in 1 .. Len(text) : text[i] \notin Touching \cup Applications

Init ==
  /\ CoreInit
  /\ web \in Hosts
  /\ shown = TRUE
  /\ known = 0
  /\ knownSaved = 0
  /\ knownText = << >>
  /\ canMove = [m \in Move |-> FALSE]
  /\ downloaded = {}
  /\ activity = "idle"
  /\ editPending = FALSE
  /\ stage = [w \in Tasks |-> "new"]
  /\ base = [a \in Applications |-> 0]
  /\ applied = {}
  /\ took = [w \in Tasks |-> NoCommit]
  /\ closing = "no"
  /\ closeAt = 0
  /\ save = [t \in Flows |-> NoFlow]
  /\ queue = << >>
  /\ replies = << >>
  /\ file = << >>
  /\ decided = "none"

\* operationBusy: an activity, a panel that writes, or the question on closing.
Busy == activity # "idle" \/ editPending \/ closing = "asking"

Request(op, who, arg) == [op |-> op, who |-> who, arg |-> arg]
Post(request) == queue' = Append(queue, request)
At(w, s) == stage' = [stage EXCEPT ![w] = s]

--------------------------------------------------------------------------------
(* Edits by hand: executeCommands.                                              *)

\* The transaction is based on the revision the shell knows now.
PostEdit(e) ==
  /\ activity' = "editing"
  /\ At(e, "posted")
  /\ Post(Request("apply", e, known))

\* The page's model may have to be loaded first (ensureEditable), and the shell is
\* not marked busy while it is.
StartEdit(e) ==
  /\ shown
  /\ stage[e] = "new"
  /\ ~Busy
  /\ \/ PostEdit(e)
     \/ At(e, "loading") /\ UNCHANGED << activity, queue >>
  /\ UNCHANGED << coreVars, shellVars, editPending, base, applied, took, closeVars, saveVars, replies >>

\* The model is there: the page is still the one that was asked for, or the edit is
\* given up, as it is when the loading fails.  Nothing asks again whether the shell
\* is busy.
EditLoaded(e) ==
  /\ stage[e] = "loading"
  /\ \/ shown /\ PostEdit(e)
     \/ At(e, "failed") /\ UNCHANGED << activity, queue >>
  /\ UNCHANGED << coreVars, shellVars, editPending, base, applied, took, closeVars, saveVars, replies >>

\* moveHistory: only what the shell was told is possible.  (Bound: one undo and one
\* redo under way at a time, where an edit that ends would let another one start.)
MoveHistory(m) ==
  /\ shown
  /\ ~Busy
  /\ canMove[m]
  /\ stage[m] = "new"
  /\ activity' = "editing"
  /\ At(m, "posted")
  /\ Post(Request(m, m, 0))
  /\ UNCHANGED << coreVars, shellVars, editPending, base, applied, took, closeVars, saveVars, replies >>

--------------------------------------------------------------------------------
(* Applying an AI answer: TextActionPanel's apply.                              *)

UnderWay(a) == stage[a] \notin {"new", "done", "failed"}

\* The answer is there; open drafts are finished first (onBeforeWrite).
StartApply(a) ==
  /\ shown
  /\ stage[a] = "new"
  /\ ~Busy
  /\ \A b \in Applications : ~UnderWay(b)
  /\ known \notin applied
  /\ At(a, "drafts")
  /\ UNCHANGED << coreVars, shellVars, busyVars, base, applied, took, closeVars, saveVars, queue, replies >>

\* Then the panel counts as writing and reads its block of text again
\* (checkSources), remembering the revision.
ReadSources(a) ==
  /\ stage[a] = "drafts"
  /\ \/ /\ editPending' = TRUE
        /\ base' = [base EXCEPT ![a] = known]
        /\ At(a, "reading")
        /\ Post(Request("read", a, 0))
     \/ At(a, "failed") /\ UNCHANGED << editPending, base, queue >>
  /\ UNCHANGED << coreVars, shellVars, activity, applied, took, closeVars, saveVars, replies >>

\* A font may have to be registered and the new layout measured
\* (prepareTextActionApplication) before the transaction goes out.
PostApplication(a) ==
  /\ stage[a] = "prepared"
  /\ \/ At(a, "posted") /\ Post(Request("apply", a, base[a])) /\ UNCHANGED editPending
     \/ At(a, "failed") /\ editPending' = FALSE /\ UNCHANGED queue
  /\ UNCHANGED << coreVars, shellVars, activity, base, applied, took, closeVars, saveVars, replies >>

--------------------------------------------------------------------------------
(* Saving: saveCurrentDocument.                                                 *)

BeginSave(t) ==
  /\ activity' = "saving"
  /\ save' = [save EXCEPT ![t] = [NoFlow EXCEPT !.at = "posted"]]
  /\ Post(Request("save", t, 0))

\* (Bound: one save from the menu at a time, and one closing.)
StartSave ==
  /\ shown
  /\ ~Busy
  /\ save["menu"] = NoFlow
  /\ BeginSave("menu")
  /\ UNCHANGED << coreVars, shellVars, editPending, editVars, closeVars, file, replies >>

BeginClose ==
  /\ closing' = "closing"
  /\ activity' = "opening"
  /\ Post(Request("close", "close", 0))

\* Seeded bug: a save that ends without a file leaves the shell saving.
MutantEndSave(t, written, started) ==
  /\ save' = [save EXCEPT ![t] = NoFlow]
  /\ \/ t = "close" /\ written /\ BeginClose /\ decided' = "saved"
     \/ /\ t = "close" /\ ~written
        /\ closing' = IF web /\ started = {closeAt} THEN "asking" ELSE "no"
        /\ UNCHANGED << activity, decided, queue >>
     \/ t = "menu" /\ UNCHANGED << activity, closing, decided, queue >>

\* The end of a save.  The one that closes the document goes on to close it when the
\* file was written; in the browser the user is asked again once the download of the
\* revision he was asked about has started (`started`: the download known by now).
EndSave(t, written, started) ==
  /\ save' = [save EXCEPT ![t] = NoFlow]
  /\ \/ t = "close" /\ written /\ BeginClose /\ decided' = "saved"
     \/ /\ t = "close" /\ ~written
        /\ closing' = IF web /\ started = {closeAt} THEN "asking" ELSE "no"
        /\ activity' = "idle"
        /\ UNCHANGED << decided, queue >>
     \/ t = "menu" /\ activity' = "idle" /\ UNCHANGED << closing, decided, queue >>

\* host.saveDocument: the file is written and the kernel told which revision that
\* was; in the browser a download starts; or the user cancels, or it fails.
HostAnswers(t) ==
  /\ save[t].at = "host"
  /\ \/ /\ ~web
        /\ file' = save[t].text
        /\ save' = [save EXCEPT ![t].at = "confirming"]
        /\ Post(Request("confirm", t, save[t].rev))
        /\ UNCHANGED << shellVars, activity, closing, decided >>
     \/ /\ web
        /\ file' = save[t].text
        /\ LET started == IF shown THEN {save[t].rev} ELSE downloaded
           IN  downloaded' = started /\ EndSave(t, FALSE, started)
        /\ UNCHANGED << web, shown, known, knownSaved, knownText, canMove >>
     \/ /\ EndSave(t, FALSE, downloaded)
        /\ UNCHANGED << shellVars, file >>
  /\ UNCHANGED << coreVars, editPending, editVars, closeAt, replies >>

--------------------------------------------------------------------------------
(* Closing: closeDocument and closeHandler.                                     *)

\* A document without changes is closed at once; for another one the user is asked,
\* about the revision that is known now.
StartClose ==
  /\ shown
  /\ ~Busy
  /\ closing = "no"
  /\ decided' = "none"
  /\ \/ known = knownSaved /\ BeginClose /\ UNCHANGED closeAt
     \/ /\ known # knownSaved
        /\ closing' = "asking"
        /\ closeAt' = known
        /\ UNCHANGED << activity, queue >>
  /\ UNCHANGED << coreVars, shellVars, editPending, editVars, saveVars, replies >>

\* Once its download has started the document can only be closed or kept.
AnswerPrompt ==
  /\ closing = "asking"
  /\ \/ closing' = "no" /\ UNCHANGED << decided, activity, queue, save >>
     \/ BeginClose /\ decided' = "discard" /\ UNCHANGED save
     \/ /\ ~(web /\ downloaded = {closeAt})
        /\ closing' = "saving"
        /\ BeginSave("close")
        /\ UNCHANGED decided
  /\ UNCHANGED << coreVars, shellVars, editPending, editVars, closeAt, file, replies >>

--------------------------------------------------------------------------------
(* The worker executes the oldest request and answers it.                       *)

Reply(q, ok, rev, text, move) ==
  replies' = Append(replies, [op |-> q.op, who |-> q.who, ok |-> ok,
                              rev |-> rev, text |-> text, move |-> move])

NoMove == [m \in Move |-> FALSE]
Refuse(q) == Reply(q, FALSE, 0, << >>, NoMove)

\* A change answers with the revision it made and what is left to undo and redo.
ReplyCommit(q) ==
  Reply(q, TRUE, revision', log',
        [m \in Move |-> IF m = "undo" THEN undoable' > 0 ELSE redone' # << >>])

Changes(q) ==
  \/ q.op = "apply" /\ Commit(q.who, q.arg)
  \/ q.op = "undo" /\ Undo
  \/ q.op = "redo" /\ Redo

Reads(q) == q.op \in {"save", "read"} /\ Reply(q, TRUE, revision, log, NoMove)

\* A request the kernel cannot serve is refused, and any but the confirmation and the
\* closing may fail, for want of memory or because the document cannot be rebuilt.
Refusable(q) ==
  /\ q.op = "confirm" => ~CanConfirm(q.arg)
  /\ q.op = "close" => ~open

Serve ==
  /\ queue # << >>
  /\ queue' = Tail(queue)
  /\ LET q == Head(queue)
     IN  \/ Changes(q) /\ ReplyCommit(q)
         \/ open /\ Reads(q) /\ UNCHANGED coreVars
         \/ q.op = "confirm" /\ Confirm(q.arg) /\ Reply(q, TRUE, q.arg, << >>, NoMove)
         \/ q.op = "close" /\ Close /\ Reply(q, TRUE, 0, << >>, NoMove)
         \/ Refusable(q) /\ Refuse(q) /\ UNCHANGED coreVars
  /\ UNCHANGED << shellVars, busyVars, editVars, closeVars, saveVars >>

--------------------------------------------------------------------------------
(* The shell handles the oldest answer.                                         *)

\* The handler's finally: a panel stops writing, another edit leaves the shell idle
\* whatever else is under way by then.
Finally(w) ==
  IF w \in Applications THEN editPending' = FALSE /\ UNCHANGED activity
                        ELSE activity' = "idle" /\ UNCHANGED editPending

\* An undo or redo can be asked for again, a transaction is made only once.
EndStage(w, s) == At(w, IF w \in Move THEN "new" ELSE s)

\* handleCommitted: an answer that is not newer than what is known is ignored;
\* another one becomes what is known, and the page is shown again.
DeliverCommit(r) ==
  /\ r.op \in {"apply"} \cup Move
  /\ r.ok
  /\ applied' = IF r.who \in Applications THEN {r.rev} ELSE applied
  /\ \/ /\ ~shown \/ r.rev <= known
        /\ EndStage(r.who, "done")
        /\ Finally(r.who)
        /\ UNCHANGED << shellVars, took >>
     \/ /\ shown /\ r.rev > known
        /\ known' = r.rev
        /\ knownText' = r.text
        /\ canMove' = r.move
        /\ took' = [took EXCEPT ![r.who] = [rev |-> r.rev, saved |-> knownSaved, text |-> r.text]]
        /\ activity' = "rendering"
        /\ At(r.who, "refreshing")
        /\ UNCHANGED << web, shown, knownSaved, downloaded, editPending >>
  /\ UNCHANGED << base, closeVars, saveVars, queue >>

DeliverFailure(r) ==
  /\ r.op \in {"apply", "read"} \cup Move
  /\ ~r.ok
  /\ EndStage(r.who, "failed")
  /\ Finally(r.who)
  /\ UNCHANGED << shellVars, base, applied, took, closeVars, saveVars, queue >>

\* Seeded bug: the panel checks the revision only, not the text.
MutantDeliverText(r) ==
  /\ r.op = "read"
  /\ r.ok
  /\ \/ known = base[r.who] /\ At(r.who, "prepared") /\ UNCHANGED editPending
     \/ known # base[r.who] /\ At(r.who, "failed") /\ editPending' = FALSE
  /\ UNCHANGED << shellVars, activity, base, applied, took, closeVars, saveVars, queue >>

\* The block must still show the text the answer is for, and the revision must not
\* have moved while it was read.
DeliverText(r) ==
  /\ r.op = "read"
  /\ r.ok
  /\ \/ /\ Intact(r.text) /\ known = base[r.who]
        /\ At(r.who, "prepared")
        /\ UNCHANGED editPending
     \/ /\ ~Intact(r.text) \/ known # base[r.who]
        /\ At(r.who, "failed")
        /\ editPending' = FALSE
  /\ UNCHANGED << shellVars, activity, base, applied, took, closeVars, saveVars, queue >>

DeliverSaved(r) ==
  /\ r.op = "save"
  /\ \/ /\ r.ok
        /\ save' = [save EXCEPT ![r.who] = [at |-> "host", rev |-> r.rev, text |-> r.text]]
        /\ UNCHANGED << shellVars, activity, closing, decided, queue >>
     \/ /\ ~r.ok
        /\ EndSave(r.who, FALSE, downloaded)
        /\ UNCHANGED shellVars
  /\ UNCHANGED << editPending, editVars, closeAt, file >>

\* Seeded bug: the document counts as saved in the revision it has by now.
MutantDeliverConfirmed(r) ==
  /\ r.op = "confirm"
  /\ knownSaved' = IF r.ok /\ shown THEN known ELSE knownSaved
  /\ UNCHANGED << web, shown, known, knownText, canMove, downloaded >>
  /\ EndSave(r.who, r.ok, downloaded)
  /\ UNCHANGED << editPending, editVars, closeAt, file >>

\* updateSavedRevision, with the revision that was written.
DeliverConfirmed(r) ==
  /\ r.op = "confirm"
  /\ knownSaved' = IF r.ok /\ shown THEN r.rev ELSE knownSaved
  /\ UNCHANGED << web, shown, known, knownText, canMove, downloaded >>
  /\ EndSave(r.who, r.ok, downloaded)
  /\ UNCHANGED << editPending, editVars, closeAt, file >>

\* The document leaves the sessions, with what they kept of it.
DeliverClosed(r) ==
  /\ r.op = "close"
  /\ shown' = (shown /\ ~r.ok)
  /\ canMove' = IF r.ok THEN NoMove ELSE canMove
  /\ downloaded' = IF r.ok THEN {} ELSE downloaded
  /\ closing' = "no"
  /\ activity' = "idle"
  /\ UNCHANGED << web, known, knownSaved, knownText, editPending, editVars, closeAt, decided, saveVars, queue >>

Deliver ==
  /\ replies # << >>
  /\ replies' = Tail(replies)
  /\ LET r == Head(replies)
     IN  \/ DeliverCommit(r)
         \/ DeliverFailure(r)
         \/ DeliverText(r)
         \/ DeliverSaved(r)
         \/ DeliverConfirmed(r)
         \/ DeliverClosed(r)
  /\ UNCHANGED coreVars

\* The page is shown again: the information of the sessions stays.  When that fails
\* the document is put back as the handler kept it, whatever was heard since.
Refresh(w) ==
  /\ stage[w] = "refreshing"
  /\ EndStage(w, "done")
  /\ took' = [took EXCEPT ![w] = NoCommit]
  /\ activity' = "idle"
  /\ editPending' = (editPending /\ w \notin Applications)
  /\ \/ UNCHANGED shellVars
     \/ /\ shown' = TRUE
        /\ known' = took[w].rev
        /\ knownSaved' = took[w].saved
        /\ knownText' = took[w].text
        /\ UNCHANGED << web, canMove, downloaded >>
  /\ UNCHANGED << coreVars, base, applied, closeVars, saveVars, queue, replies >>

--------------------------------------------------------------------------------
Next ==
  \/ \E e \in Manual : StartEdit(e) \/ EditLoaded(e)
  \/ \E m \in Move : MoveHistory(m)
  \/ \E a \in Applications : StartApply(a) \/ ReadSources(a) \/ PostApplication(a)
  \/ StartSave
  \/ \E t \in Flows : HostAnswers(t)
  \/ StartClose
  \/ AnswerPrompt
  \/ Serve
  \/ Deliver
  \/ \E w \in Tasks : Refresh(w)

Spec == Init /\ [][Next]_vars

\* What was asked of the worker, the host or the user is answered in the end, and
\* the handlers that wait for it go on.  Nobody has to start anything.
Fairness ==
  /\ WF_vars(Serve)
  /\ WF_vars(Deliver)
  /\ WF_vars(AnswerPrompt)
  /\ \A e \in Manual : WF_vars(EditLoaded(e))
  /\ \A a \in Applications : WF_vars(ReadSources(a)) /\ WF_vars(PostApplication(a))
  /\ \A t \in Flows : WF_vars(HostAnswers(t))
  /\ \A w \in Tasks : WF_vars(Refresh(w))

FairSpec == Spec /\ Fairness

--------------------------------------------------------------------------------
(* Properties.                                                                  *)

Stages == {"new", "loading", "drafts", "reading", "prepared", "posted", "refreshing",
           "done", "failed"}
Revisions == 0 .. MaxRevision

\* The type invariant.
TypeOK ==
  /\ open \in BOOLEAN /\ shown \in BOOLEAN
  /\ {revision, saved, known, knownSaved, closeAt} \subseteq Revisions
  /\ undoable \in 0 .. UndoLimit
  /\ ids \subseteq Transactions
  /\ {log, redone, knownText, file} \subseteq Seq(Transactions)
  /\ canMove \in [Move -> BOOLEAN]
  /\ downloaded \subseteq Revisions /\ applied \subseteq Revisions
  /\ activity \in {"idle", "editing", "rendering", "saving", "opening"}
  /\ editPending \in BOOLEAN /\ decided \in {"none", "discard", "saved"}
  /\ stage \in [Tasks -> Stages]
  /\ base \in [Applications -> Revisions]
  /\ \A w \in Tasks : took[w].rev \in Revisions /\ took[w].saved \in Revisions
  /\ closing \in {"no", "asking", "saving", "closing"}
  /\ \A t \in Flows : save[t].at \in {"no", "posted", "host", "confirming"}

\* A document the shell shows as saved (the revision it knows is the one it knows to
\* be saved) is in the file as it was committed in that revision, once no save is
\* under way: an edit committed while an older revision is being written never makes
\* the newer one count as saved (saveCurrentDocument confirms the revision of the
\* bytes it wrote, EditorShell.tsx:2018-2019).
CleanMeansWritten ==
  (/\ shown
   /\ known = knownSaved
   /\ \A t \in Flows : save[t] = NoFlow) => file = knownText

\* An AI answer replaces the text it was made for, and that once: no edit that touched
\* the text, and no other application of the answer, is in the document below it,
\* whatever was edited, undone or redone while the panel checked its sources and
\* prepared the transaction (TextActionPanel.tsx:100-140, ValidateBaseRevision).
AnswerOnItsText ==
  \A i \in 1 .. Len(log) :
    log[i] \in Applications => Intact(SubSeq(log, 1, i - 1))

\* The shell becomes free again whatever fails and whatever overlaps: every handler
\* that marked it busy ends (the finally blocks of EditorShell.tsx and of the panel).
ShellComesBack == Busy ~> ~Busy

\* "Your changes will be lost if you do not save them" (SaveChangesDialog.tsx:14): a
\* document that is closed after the user chose to save it, and the file was written,
\* is in the file as it was last edited.
ClosedKeepsNewest == (~open /\ decided = "saved") => file = log

================================================================================
