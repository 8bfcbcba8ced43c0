# Verification of SelahKeep (letter-to-god)

SelahKeep is a private notes vault. Notes, boards, drafts, attachments and the index that lists
them are encrypted in the browser; the server stores ciphertext. Most of what can go wrong is
therefore in one browser tab, between two `await`s: a lock, another account, a newer request or a
slow save comes while a function is suspended. The rest is in server requests that race: key
envelopes, passkeys, versions and the grants of integrations.

This directory holds TLA+ models of those parts, the TLC configurations that check them, and
proofs that TLAPS checks. `PROJECT.json` maps every definition to the lines it stands for.
Paths below are relative to the repository's root, where the code is in `src/`.

## 1. The system

| Part | State | Operations | Talks to |
|---|---|---|---|
| vault-core (package) and its session adapter, `lib/crypto-client/vault-session.ts` | owner, key, epoch, current operation, timers, suspensions, reason of the last lock | begin, unlock, install, lock, touch, suspend, release, clear owner | every reader (lease), timers, lock listeners |
| Async ownership, `lib/application-state/*.ts` | a generation and a scope for each component | capture, assert, invalidate | the lease of the session |
| Readers and caches, `features/notes/eager-decrypt-notes.ts`, `use-note-list-excerpts.ts` | plaintext bodies by note | fill, clear on lock | session |
| Note editor, `app/(vault)/notes/[id]/page.tsx` | form, baseline, draft prompt, autosave timer | load, edit, autosave, save, cancel, lifecycle buttons | drafts, notes API, session |
| Drafts, `lib/crypto-client/note-drafts.ts` | encrypted drafts in IndexedDB | save, load, delete, clear | session, ownership |
| Notes hooks, `features/notes/use-notes.ts`, `use-vault-index.ts` | rows and the one encrypted index | create, update, organise, trash, restore, delete | notes API, vault API |
| Vault service, `modules/vault/services/vault-service.ts` | vaults, envelopes, index, settings | setup, replace password or phrase, store recovery code | Postgres |
| Board page, `features/kanban/board.tsx`, `features/notes/use-kanban.ts`, `lib/async/coalesced-task-queue.ts` | draft on screen, the hook's board and key, queue of saves | load, edit, save, link to a note | kanban API, ownership, sync |
| Board and note sync, `features/notes/use-kanban-*-sync.ts` | the note's text, what was synced last | fetch, debounce, write both | notes API, save queue |
| Board text, `lib/notes/kanban-from-note.ts`, `kanban-sync.ts` | none: functions of a text and a board | parse items, apply a text to a board, write a board into a text | both syncs, board page |
| Passkeys, `server/services/passkey-service.ts`, `passkey-vault-envelope-service.ts`, `server/repositories/passkey-repository.ts` | credentials, envelope variants, browser bindings, single-use challenges | register, assert, enrol, persist, bind, disable, remove all | Postgres (row locks), vault session |
| Versions, `modules/notes/services/note-version-service.ts` | numbered snapshots | create and prune | Postgres |
| Kanban, notes, attachments services | rows | CRUD, claim, quota | Postgres |
| Portable passkeys, `modules/vault/services/portable-vault-broker-service.ts`, `features/passkey/portable-vault-broker.ts` | mappings from a passkey to an envelope of the broker | prepare, bind, finalise; the page's enrol, unlock, revoke | broker, account package (grants, receipts), Postgres |
| Integrations and MCP bridge, `modules/integrations/` | integration, token, grants | create, grant, revoke; read, write and list by token | notes and kanban services |
| Rate limits | windows | check, reset | memory or Postgres |
| Voice, `features/voice/` | two hooks, one worker, its model and subscribers | warm up, record, choose a file, partial and final pass, reset | web worker, microphone, session |
| Accounts, email, audit, administration, UI | delegated to packages or stateless | | |

`PROJECT.json` lists all of them under `components`, with what is left out of each, and under
`hazards` every place where the order of events, a failure or a stale value can hurt, with the
properties that guard it or the reason why there is none yet.

What makes each part hard, and what makes it correct:

* **Session.** Unlocks overlap with each other, with locks, with a change of account and with
  panels that hold the vault open. Plaintext must never outlive the key or show up under another
  account; a vault nobody holds open must be guarded by its timer and lock in the end.
* **Ownership.** Every asynchronous hook relies on it: only the newest request may apply its
  answer, and only under the key it began with.
* **Editor and drafts.** Autosave, the flush before the auto-lock, Save and reloading run at the
  same time over one draft. No text may get lost silently and no draft may go back.
* **Notes and index.** Two stores without a transaction. They must agree once nothing is under
  way, and the code's only excuse is an overlap or a failure.
* **Envelopes.** Lose or fork one and the user is locked out.
* **Boards.** The screen is ahead of the hook, the hook ahead of the server, the server ahead of
  the note. Edits must arrive in all of them, and survive the way through the note's text.
* **Passkeys.** Six kinds of request over four tables, ordered only by the row lock of a
  credential. No challenge may serve twice, no counter go back, no removal leave a wrapping behind,
  no two requests wait for each other.
* **Integrations.** No transaction anywhere: a revocation may stop half way, a grant be replaced
  between a check and the write it allows.
* **Versions.** Snapshots that overlap take the same number; the pruning must still only take the
  oldest.
* **Portable passkeys.** An operation of a page is four or five calls to three parties, resumed by
  nobody. Wherever it stops and whatever overlaps, an active mapping must name an envelope that can
  open the vault, and a revocation that was reported must hold.
* **Voice.** Two panels share one worker whose answers name no request; the microphone must never
  stay on without a panel that can turn it off.

## 2. Modules

| Module | Stands for |
|---|---|
| `VaultCore` | what `src/` relies on of `@tgoliveira/vault-core` (external): one record and an operator per call |
| `VaultSession` | one tab: adapter, unlock attempts, suspensions, timers, account boundary, body readers |
| `LatestRequest` | abstract: a last-request-wins register |
| `AsyncOwnership` | the ownership controller with vault leases; implements `LatestRequest` |
| `NoteEditor` | the page of one note with drafts and a session (uses `VaultCore`) |
| `NotesIndex` | the hooks' calls over rows and index |
| `EnvelopeRegister` | abstract: one step per request |
| `VaultEnvelopes` | requests as transactions under READ COMMITTED with an advisory lock; implements `EnvelopeRegister` |
| `BoardPage` | board page, save queue, link to a note, board-to-note sync, the server's update |
| `NoteBoardSync` | the algorithms between a note's text and its board, as operators, and the edits that feed them |
| `PasskeyVault` | the passkey requests of one account, one statement a step |
| `IntegrationAccess` | one integration: its owner's requests and its client's |
| `VersionHistory` | the snapshots of one note as transactions |
| `PortableBroker` | the pages, mappings and broker of the portable passkeys |
| `VoicePanels` | dictation and audio upload over the shared worker |
| `*Proofs` | theorems about the module they extend; `VaultSessionProofs` those about `VaultSession` and `AsyncOwnership`, `RecordsProofs` those about the server's `IntegrationAccess`, `PortableBroker`, `VersionHistory` and `VaultEnvelopes`, one section for each |
| `MC*` | instances for TLC: symmetry sets and configurations. `MCRecords` composes `VersionHistory`, `IntegrationAccess`, `NoteBoardSync` and `PortableBroker`: they share no state, so `scenario` picks one of them at the start |

In all client modules an action is what runs between two awaits, timers and answers fire whenever
they may, and a request that was sent may still be served after its sender has given up.

How state and actions correspond to the code:

* `VaultSession` holds the module-level variables of `vault-session.ts` under their own names
  (`currentLease`, `lockedByInactivity`, `autoLockSuspendCount`, ...). An unlock is
  `BeginUnlock` or `StartLogin`, `Derived`, `Install`, `Finish`, one for each await; `Suspend` and
  `Release`/`ReleaseAgain` are `suspendVaultAutoLock` and the function it returns;
  `SessionChange`, `ServerRefresh` and `Reload` are what NextAuth and the server tree may do.
* `NoteEditor` keeps the React state of the page in `page`, each call of
  `saveEncryptedNoteDraft` in `job`, and `handleSave` in `save`. Texts are numbered by the
  edit that made them. The form stays enabled during a save, so typing, Cancel and leaving the page
  are possible at any point of it.
* `NotesIndex` splits a call into the row's request, the read and the write of the index, each sent
  and served separately. An entry is the write of the row it was made from (`write`) and what was
  done to the entry alone since (`edits`): the labels, categories and tags, that their deletion took off
  it, and the trash mark that a restore took off. `disturbed` remembers notes whose calls overlapped or
  were cut short.
* `VaultEnvelopes` splits a request at the check before its transaction, the advisory lock, the
  lookup and the commit.
* `BoardPage` keeps the three copies of a board apart: `draft` (KanbanBoard), `board` (useKanban)
  and `row` (server). A board is the set of edits it carries, the scope inside the ciphertext, and
  whose key it is under. `pending` and `job` are the queue, `owner` the hook's ownership
  controller, `sync` one `runSync`. A waiting payload of an idle queue is taken in a microtask, so
  nothing else happens before (`DrainIsDue`).
* `NoteBoardSync` keeps a text as a sequence of lines and a line as its sort, box, the tags in front of
  its name, and the name. A column is an identity and a title, written as the tag it is read as: two
  columns may share one, and a tag that no column has stays part of a card's name. One step is an edit
  of board or note together with the sync it leads to; `SyncNote` and `SyncBoard` are
  `syncNoteBodyFromBoard` and `syncBoardFromNoteBody`. Titles, their keys (`normalizeKanbanSourceText`),
  columns and the lines that are neither list lines nor blank are constants, any sets. `NewTag` is what
  every new column is called, `TypedTags` are the tags a user may put in front of a card's name.
  Descriptions that an edit sets are trimmed, as `saveCard` leaves them
  (`formatDescriptionWithMetadata`).
* `PasskeyVault` runs a request on a slot of `req`: its `pc` is the next statement, `lockOf` the
  row locks, and what a transaction writes is taken at its `Commit...` step. The updates of a removal's
  commit wait for the rows that others have locked (`UpdateRow`). A slot that is lost
  (`Crash`) lets go of its locks. `challenge` holds the rows that `DELETE ... RETURNING` consumes.
* `IntegrationAccess` gives each statement of `create`, `upsertGrants`, `revoke` and of a client's
  request its own step; `UpsertEnds`, `RevokeEnds` and their like end a request anywhere.
* `VersionHistory` splits `create` into its four statements under READ COMMITTED; a delete waits
  for rows another open transaction has deleted (`LockedFor`).
* `PortableBroker` runs one operation of a page in `flow[f]`, whose `at` is the last call that ended.
  `mappings` are the rows, each under the enrolment that inserted it, whose name is also the random
  scope it brought. `prepareEnrollment` is `PrepareFinds` with the row lock of the credential and then
  `PrepareReuses` or `PrepareInserts`; the finalize route is `Consume` and `Complete...`. A page
  that stops, or never gets an answer, is `Stop`. The broker is external: asked to enrol, it stores a
  new envelope or answers with one it has for the same credential and scope; it opens and gives up
  what it holds (`held`, `withdrawn`).
* `VoicePanels` keeps the refs and state of a panel's hook in `hook`, each press of Record or chosen
  file in `starts`, open microphones in `mics`, and the worker with its queue in `worker`. A text is the
  sequence of the chunks of sound it was made of, or the user's own words (`Edit`) over the text of a
  start under review (`EditReview`, `draftOverride` in the code). A resolved promise of the page is
  handled before anything else (`Settled`).

## 3. Runs

| Run | Question | Instance |
|---|---|---|
| `session` | Does plaintext ever outlive key or account; do timers, suspensions and lock notice agree; does an overtaken attempt install? | 2 accounts, 2 attempts, 2 suspensions, 1 reader, 2 installations |
| `session_live` | Is the open vault the one of the account on screen; does an unattended vault lock? | 2 accounts, 2 attempts, 1 suspension, prompt continuations |
| `ownership` | Is the controller a last-request-wins register bound to the vault? | 3 requests, 2 accounts, 2 resources, 3 keys, 4 generations |
| `editor` | Lock hygiene; which text can be lost; does a draft go back, an autosave stop, a flush miss the auto-lock? | 2 overlapping draft saves, 3 texts, 2 installations |
| `notes_index` | When may rows and index disagree? | 2 notes, 2 calls, 2 hooks, 1 label, 3 writes |
| `envelopes` | Do racing replacements fork or lose an envelope? | 5 requests |
| `passkeys` | Do the passkey tables fit together, whatever requests overlap or are lost? | 2 requests at a time, 2 credentials (one signs in and counts, one does neither), 2 variants, 1 binding, 2 tokens |
| `board` | Does what is on screen reach server and note? | 3 edits, linked or linked on the way |
| `voice` | Is a transcript its recording; who holds the microphone; does Stop end? | 2 panels, 2 starts, 4 chunks, worker queue of 2 |
| `records` | Versions: what is pruned? Integrations: does a client act without a grant? Board text: does an edit survive its sync? Portable passkeys: do mapping, broker and reports agree? | 4 snapshots with a limit of 2; 2 resources, 2 upserts, 1 client request; 3 edits of texts up to 6 lines; 3 page operations on 2 passkeys |
| `envelopes_setup_race`, `voice_late_result` | the findings of section 5 | as small as they show it |

Every bound is a constant named in the module: `MaxEpoch` (key installations), `MaxGeneration` (captures
and invalidations), `MaxText` and `MaxEdits` (edits), `MaxLines` (lines of a text before one is put in),
`MaxWrites` (row writes), `MaxAssertions` (accepted passkey assertions), `MaxStarts`, `MaxChunks` and
`MaxJobs` (recordings, their chunks, the worker's queue). `MaxVariants`, `MaxCounter`, `CommitChunks`
and `Limit` are limits of the code, made small. Why they are enough: the interesting cases need an old
party, a new one and an event in between. Two installations distinguish an old lease from a current one;
two attempts, jobs or calls make an overlap; a third request shows that the second does not revive the
first; three edits of a board are one in flight, one waiting and one that replaces the waiting one, so
the queue coalesces (with two it never does); five envelope requests are a setup, two racing
replacements of one method, and two more of another. Two passkey requests at a time are what a row lock
orders, slots are reused, so the same instance also sees long chains of enrolments, bindings and
removals; a variant limit of one and a counter limit of two are reached. A recording of four chunks with
two to a segment commits one segment and starts the next, two starts are an old pass and a new one. Four
snapshots over a limit of two prune while others that took the same number are open. Three edits of a
text reach a board whose card was moved, renamed in its description and whose note was edited in
between; the starting texts hold prose, code, quotes, tags and repeated items, one of
them a tag that no column has until a column is added, twice if it must be. A new card begins with
one of two descriptions (`FirstDetails`), an edit of a card changes its name, its tags or its
description, to any of four, one of which no text can hold; a column is renamed to one of two tags.
Three page operations on portable passkeys are an enrolment that stops, a second that takes its
mapping over while a third unlocks or revokes.

Deadlock is not checked in `envelopes`, `passkeys`, `voice` and `records`: there the requests are all
answered, or assertions, recordings, edits or operations are used up, and the system rightly stops. That
requests do not block each other is the property `NoCircularWait`. Everywhere else deadlock is
checked, and there is none.

### Constants that state an assumption

* `ContinuationIsPrompt`: between vault-core's install and the adapter's next line nothing runs.
  FALSE in `session` (its properties do not need it), TRUE in `session_live`, where
  `OpenVaultIsOwn` does: in that gap vault-core has the new key while the adapter still remembers
  the lease of the unlock before, so a change of account back to that one looks like nothing to
  clear. The continuation of a promise that is already resolved runs before any timer, event or
  answer, so the gap cannot be hit.
* `StartsLinked`: whether the board may belong to a note at first.

### Fairness

Only what browser and scheduler owe. `VaultSession`: an armed timer fires and a finished unlock
goes on.  `BoardPage`: the queue and the sync go on, and every request is answered or fails. Users
owe nothing: no edit, unlock or lock is fair. `VoicePanels`: the worker answers the oldest message
of its queue at last, with a result or an error, and the continuation of a start whose model is
ready runs. The liveness properties allow for the user: `AutoLocks`
excludes being touched or held open again and again.

### What the history variables mean

`disturbed` (NotesIndex), `failed` and `overtaken` (BoardPage), `refused`, `reached` and `passedOver`
(NoteEditor), `cancelled` and `stray` (VaultSession), `late` (PasskeyVault), `escaped` and a hook's
`own` (VoicePanels), `alone`, `created` and `orderly` (VersionHistory), `settled` and a call's `may`
(IntegrationAccess), `revoked` and an operation's `after` (PortableBroker) are not in the code. They
make exceptions precise. In `BoardPage` a call is `failed` when it fails, and also when a lock finds one
under way: the queue survives the lock and its save may be served after the next load has read the row.
A board is `overtaken` when a link or a sync wrote one that was behind the draft; the code does that
(section 5). A credential is `late` when it was registered while a removal was locking the others; a
start is `escaped` when it was still waiting for the model, the permission or the worklet as its panel
went away, was waiting for the model when the vault locked, or was overtaken by another: the code lets
such a microphone open. A text is `passedOver` when a save of an older one finds it on the page, in the
prompt or in the draft store as it ends. `stray` is the account of a passkey login that began its unlock
after its guest page had become another account's page. What is excepted in these ways is listed in
section 5.

## 4. Proofs

For every number of accounts, requests, notes, edits, credentials and resources, TLAPS proves:

| Module | Theorem | Argument |
|---|---|---|
| `VaultSessionProofs` | `TypeCorrect`, `PlaintextNeedsKey`, `PlaintextIsOwn` | `PlaintextInv`: no lease is of an epoch to come, an installed key is the owner's, a reader with a current lease reads for the account on screen, and the cache belongs to that account and key |
| | `OvertakenNeverInstalls` | adds that an overtaken attempt is not vault-core's current operation |
| | `TimersAreGuards` | `GuardInv`: the counter of suspensions is the number of holders, and an operation about to install has taken the notice away; a lock that brought it back would have cancelled the operation |
| | `OpenIsOwn` | `OwnInv`, for `ContinuationIsPrompt`: key and operation are the signed-in account's or `stray`'s, a page of an account that has gone has neither, and the adapter's lease speaks of the installed key |
| | `OwnershipTypes`, `CommitsAreForOpenVault` | `OwnershipInv` of `AsyncOwnership`: generations of waiting requests are past and differ, leases are past and match their tokens |
| | `RefinesLatestRequest` | each step maps to a step of `LatestRequest` or a stutter |
| `NotesIndexProofs` | `TypeCorrect`, `IndexAgreesWithRows`, `IndexIsNeverAhead` | `NotesInv`: at most one call owes an undisturbed note its entry, what it owes is what the row has, a restore finds in its second round the entry of its first, and every entry read is of contents its row had, with at most labels taken off |
| `BoardPageProofs` | `LockedShowsNothing` | `LockedInv`: while locked nobody holds the controller and neither a load nor the note of a link is under way |
| | `TypeCorrect` | `TypeInv`: a draft is shown only while the hook has a board, and what was fetched is a board |
| | `SettledIsStored` | `StoredInv`, while nothing failed or overtook: the newest of waiting payload, running save and row has the draft's edits, and the hook's key is the row's except between the PUT of a link and its end |
| `NoteEditorProofs` | `TypeCorrect`, `LockedPageIsClear` | `TypeInv`: an open vault is the user's, so every lease taken under it is a real one |
| | `DraftsGoForward` | `DraftInv`: a dirty form and a pending autosave have the newest text, and the job that owns the draft is no older than what is stored or was refused |
| | `NoTextIsLost` | `KeptInv`: the text that is shown or that Cancel returns to, the draft read by the load and the one in the prompt are each on the server, in the draft store or passed over (`RestIsKept`), and what the row holds has been reached |
| | `AutosaveNeverStops`, `FlushIsInTime` | `WayInv` adds the property itself and that the pre-lock timer is armed whenever the autosave timer is; at the lock that timer has fired, so nothing is left to wait for |
| `RecordsProofs` | `ServedWithinGrants` | `AccessInv`: the active grant of a resource is one that was settled when the client's request arrived or was asked for since, and a request that arrived after the revocation meets a revoked row |
|  | `BrokerAgrees` | `BrokerInv`: what an operation may rely on after each of its calls (`FlowFits`), that a row which names an envelope names one the broker was given for this credential and scope (`RowFits`), and what row lock and unique indexes keep apart |
| | `HistoryKeepsTheNewest` | `HistoryInv`: the cutoff of a pruning has `Limit` stored or own numbers at or above it, what it found to delete is below, and a request that has run by itself so far still sees what its statements saw |
| | `EnvelopesAreTyped`, `ReplacementsAreSerialized`, `ImplementsRegister` | `EnvelopesInv`: the lock of a method is held exactly by its transaction, and the envelope that transaction found stays active |
| `PasskeyVaultProofs` | `TypeCorrect`, `NoRequestsWaitInACircle`, `AssertionsAreAcceptedInOrder` | `RequestInv`: a lock belongs to a request whose transaction is open, and a removal has locked only rows before those it still has to lock; `SeenIsLocked` adds for its commit that the rows it read again are its own, but for those registered meanwhile, so no other circle can close |
| | `PasskeyTablesAgree`, `RemovalsAreComplete` | `AgreeInv` adds what each request may rely on while it holds its lock (`About`): an enrolment about to commit has room for its variant, a binding an active one, a removal has seen every variant of the credentials it locked |
| | `VariantsAreEarned` | `TicketsFit`: the stored variants of a credential and the requests and tokens that may still become one (`Tickets`) are together no more than its accepted assertions; a token that is consumed, a proof that is spent and a variant that is stored turn one ticket into another |
| `NoteBoardSyncProofs` | `EditsAlwaysSurvive` | `SyncInv`: the columns have distinct identities, every card is as its item in the text has it, every item has its card, and after an edit of the board text and board are what its sync made of them |
| `VoicePanelsProofs` | `MicrophonesAreHeld` | `VoiceInv`: only the current start of a panel takes a microphone, a running recording is replaced only from a status in which nothing runs, and none is live while a press of Record waits for the model |
| | `TranscriptsAreTheRecording` | `TextFits`, of the same invariant: the committed segments end where the pass in progress begins, a final pass spans the whole of a recording that no longer runs, no pass is in progress while a finished text is shown, and an edited text belongs to a start of its own panel |

None of the safety properties is inductive by itself. For instance, that plaintext belongs to the
open key says nothing of a reader that is about to write more of it; hence `ReadersAreOwn`, and for
a new installation not to revive that reader's lease, `LeasesArePast`.

`EditsAlwaysSurvive` is the one theorem that is mostly about operators. `SyncInv` holds after any sync,
whatever board and text were; that an edit comes back is then a fact about `SyncNote` and `SyncBoard`.
The two meet in `TextHolds(cols, cs, T, Done)`: the lines of the text `T` at which an item begins, outside
of code blocks (`Heads`), are exactly those written for the cards `Done` of the board `cs`, each with its
description below it. A text without an open code block is a preamble, which holds no card, followed by the
blocks of its items. The sync replaces each block by the lines of the card with its key, by nothing if there
is none, or keeps it when only blank lines at its end differ (`RewrittenIs`, `ReplacedHolds`), and appends
the cards that miss (`NoteHolds`). What is read from a text that holds a board is that board again, its
descriptions trimmed and undented (`ShownBack`), and what was read is written as the same text
(`NoteAgain`). The fold `FlattenSeq` is reasoned about through its prefixes (`Flattened`), with induction
over numbers as the well-foundedness of `<` (`LeastOf`). Stating this for any description showed that
`Plain` had been too wide: a description with an indented list line does not come back (section 5).

The proofs assume only the named `ASSUME`s of the modules: null values are outside of the sets they
extend, bounds are naturals, `Requests` of `VaultEnvelopes` and `Variants` of `PasskeyVault` are finite
(cardinalities need it), a list of grants is not empty, the limit of versions is at least one
(`readIntEnv` refuses less, `LimitAssumption`), and of text and board (`SyncAssumption`) that a board
starts with at least one column, each with an identity of its own (`createDefaultKanbanColumns`), that
the absent key is none of the keys, that what a user types in front of a name are tags, that
descriptions are trimmed where an edit sets them, and that a line of `Prose` is text, a quote or a
fence. Nothing is assumed of `KeyOf`: titles may share a key. `OpenIsOwn` also assumes
`ContinuationIsPrompt` (section 3); no other theorem has a premise of its own.

Every invariant and every action property of the passing runs is stated by a theorem. TLC alone checks
the liveness properties (`AutoLocks`, `EditsReachServer`, `EditsReachTheNote`,
`StopSettles`): they need fairness and `ENABLED`, which are out of the prover's reach. No module declares a
RECURSIVE operator.

## 5. Findings

1. **Two setups at once make two vaults** (`envelopes_setup_race`). The check is outside of the
   transaction and no unique index backs it (`vault-service.ts:25`); the password and the recovery
   phrase may then open different keys.
2. **A cancelled pass answers for the next one** (`voice_late_result`). The worker's answers name no
   request (`use-voice-transcription.ts:123`): after a reset, even by a lock, and a new recording, the
   text of the old one appears.

### Behaviours the properties make an exception for

Most are contradicted by no line of the repository; where a document does say otherwise it is quoted,
and a run of its own would say no more than this list. Each property names the exceptions it makes.

* A saved note may open with its old body: the list caches bodies, saving does not refresh the cache,
  and the page prefers it (`notes/[id]/page.tsx:271`). Saving again writes the old body back.
* A save loses what is typed while it runs: `handleSave` deletes the draft and closes the form whatever
  was typed, restored or stored since it began (`notes/[id]/page.tsx:491`, `:494`; `passedOver`). The
  text stays on screen, neither dirty nor stored. If the page was left and opened again meanwhile, the
  draft that goes is that of the new form.
* The handlers before an auto-lock run 50 ms ahead of it and nothing waits for them
  (`vault-session.ts:137`): a flush that takes longer is cut off. `DraftSavedBeforeAutoLock` promises that
  it has begun, with the newest text; that the draft *is saved* before the key is cleared, as
  docs/VAULT_AUTO_LOCK_NORMALIZATION.md:77 and docs/NOTES_AUTOSAVE_AND_TEMPLATE_SWITCHING.md:92 put it,
  depends on the speed of the device.
* A deleted draft may come back: `deleteEncryptedNoteDraft` (`note-drafts.ts:144`) captures nothing, so a
  save of the draft that is under way puts it again, and the next load offers a text that was saved or
  discarded.
* A passkey login begins its unlock only when its candidates have arrived
  (`account-passkey-login-vault-hooks.ts:63`); if its guest page has become another account's page by
  then, it opens the vault of an account that is not on screen (`stray`).
  docs/TDR_DETERMINISTIC_APPLICATION_STATE.md:20 wants no such thing; `NoForeignPlaintext` shows that
  even then no text of it is displayed.
* Deleting a category or a tag takes it off the index entries (`vault-index.ts:328`, `:373`), and the rows
  keep it: the lists and the note disagree until the note is saved, which puts the deleted label back
  into the entry. `IndexAgrees` allows for the missing labels.
* A restore that overlaps with a trash of the same note leaves an entry without the trash mark over a
  trashed row (`Untrashed`, on a `disturbed` note).
* The removal of all passkeys reads the credentials again after locking them and updates what it finds
  (`passkey-service.ts:651`). One registered and enrolled meanwhile was not locked in order, so such a
  removal and another one may wait for each other; the database then aborts one (`Crash`).
* Re-record keeps the text the user edited before: `draftOverride` is cleared by Insert and Discard only
  (`voice-capture-panel.tsx:56`), so the panel shows, and Insert takes, the old words instead of the
  new recording's, whereas docs/TDR_Local_Voice_Notes.md:67 has the transcript appear after the final
  pass. "Try another file" after an error does the same in the upload panel.
* A microphone may stay on that no panel holds: a start that waits for the model, the permission or the
  worklet as its panel goes away, or that a second press overtakes (`escaped`).
  docs/TDR_Local_Voice_Notes.md:68 promises its release on unmount.
* The sync of a board may take stored edits back: after awaiting the note it saves the board it began
  with (`use-kanban-board-to-note-sync.ts:159`; `overtaken`). The link does the same.
* A board loses its link on the first edit after "Create note from board": the draft's scope is
  still standalone (`board.tsx:64`), and it is saved under the note's key.
* `EditsSurviveSync` asks for a `Plain` board, and each part of that is needed: a card renamed past its
  key leaves its old line in the note (`board.tsx:178`), of two cards with one key the later text
  replaces both (`kanban-sync.ts:341`), an unbalanced code fence in a description or a note hides the
  items after it (`kanban-from-note.ts:152`), and a list line that the user indented in a description
  comes back at the margin: the text holds it as it holds the protected ones (`kanban-sync.ts:298`,
  `kanban-from-note.ts:120`). Every new column is called "New column" (`board.tsx:107`), and of two
  columns with one title the first takes the cards of both (`kanban-columns.ts:20`). A tag in front of a
  name that no column has belongs to the name; once a column of that title is added, the next sync moves
  the card there and takes the tag off its name (`kanban-card-text.ts:42`). Outside of the model, a
  column whose title cannot be read as a tag loses its cards to the first column
  (`kanban-card-text.ts:19`).
* A partial pass that fails sets the panel to "error" while the microphone goes on, without a Stop
  button (`use-voice-transcription.ts:126`); closing the panel turns it off.
* An enrolment whose receipt was consumed but whose mapping was not activated, or that stopped after
  `bind`, stays pending for ever unless the broker answers the next one with the same envelope
  (`portable-vault-broker-repository.ts:66`), and the page does not offer a passkey with a pending
  mapping (`portable-passkey-vault-setup.tsx:60`). What the broker stored for it stays there.
* Removing a passkey leaves its mapping active and its envelope with the broker; both are unusable,
  since a grant needs a passkey that is not revoked.
* Overlapping snapshots may share a number, so that more rows than the limit remain
  (`note-version-service.ts:72`).

## 6. Not modelled, and why

* Cryptography, encodings and validation schemas: data, not control; the models keep which key a
  ciphertext is under. The user interface, wording and layout. Accounts, email, sessions and
  administration: external packages behind thin routes.
* Search, sorting, dates, text utilities and the algorithms of the decrypted index: pure functions
  of one argument, which unit tests reach.
* Attachments, rate limits, the loader of the index and the new-note
  page: planned below. Their hazards are listed.
* In the modelled parts: pagination and quotas of the notes service; the lifecycle buttons of the
  editor; other tabs of the board page; board list, creation and deletion; requests of one sender that
  are served out of order; a second save begun during one (Cmd+S); the times and board counts of index
  entries, and which labels a note carries (a deletion may take a label off any entry); the order of
  cards in a column, due dates, and column titles that cannot be read as a tag (hyphens, letters beyond
  ASCII, a digit first); for passkeys their deletion by the account package (whether one signs in is
  written at its registration only, `passkey-repository.ts:32`), legacy variants, the signature check
  itself (a sent assertion is genuine), labels, cookies, audit rows and rate limits; for integrations
  token expiry, the key wrapping on the client and the MCP process, which forwards calls; for portable
  passkeys the cutover date, the environment's switch, the packages' cryptography and the stale list of
  the setup page; for voice, progress, the text's clean-up, its place in the note, and the model cache
  of the browser.

## 7. Plan

Order: what guards plaintext and text first, then stores that race, then the rest.

1. Done: `VaultSession`, `AsyncOwnership`, `NoteEditor`, `NotesIndex`, `VaultEnvelopes`,
   `BoardPage`, `PasskeyVault`, `VoicePanels`, `IntegrationAccess`, `VersionHistory`,
   `NoteBoardSync`, `PortableBroker`; every safety property of theirs proved.
2. Extensions of modelled parts: leaving the board page and a second queue, the claim from two tabs;
   lifecycle buttons, checklist timer and leftover drafts of the editor; the new-note page.
3. New modules: `AttachmentQuota` (count and bytes checked before the insert, against an abstract
   bounded store), `RateLimit` (both adapters against one definition of a window), `IndexLoader` (the
   load effect of `use-vault-index.ts` with session changes).
4. Pure algorithms as operators against reference definitions: the vault index (upsert, categories,
   tags), recently viewed and saved views.
