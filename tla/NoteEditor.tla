---------------------------- MODULE NoteEditor ----------------------------
(***************************************************************************)
(* The page of one note in one tab: loading the note and its draft, the    *)
(* edit form, the autosave of encrypted drafts into IndexedDB, the flush   *)
(* before an automatic lock, and Save (app/(vault)/notes/[id]/page.tsx,    *)
(* lib/crypto-client/note-drafts.ts, features/notes/use-unsaved-changes).  *)
(*                                                                         *)
(* A text is the number of the edit that produced it, so a larger number   *)
(* is a newer text.  The title, category and tags travel with the body.    *)
(***************************************************************************)
EXTENDS VaultCore

CONSTANTS
    User,                \* the owner of the tab
    Jobs,                \* concurrent calls of saveEncryptedNoteDraft
    Load, Nobody,        \* further holders of the draft's ownership controller
    MaxText              \* bound on the number of edits

ASSUME EditorAssumption ==
    /\ User \in Owners
    /\ {Load, Nobody} \cap Jobs = {}
    /\ Load # Nobody
    /\ MaxText \in Nat \ {0}

VARIABLES
    core,        \* the vault session of the tab
    preLock,     \* the pre-lock timer is pending
    page,        \* the React state of the page
    debounce,    \* the autosave timer is pending
    job,         \* each draft being saved
    draftOwner,  \* who captured the draft's ownership controller last
    load,        \* the load effect
    save,        \* handleSave
    edits,       \* the newest text typed
    stored,      \* the draft in IndexedDB
    server,      \* the text of the server's row
    reached,     \* history: the newest text the row ever had
    bodyCache,   \* the body cached by the note list
    refused,     \* history: IndexedDB refused to store the newest text
    passedOver   \* history: the texts, never on the server, that a save found when it ended

vaultVars == <<core, preLock>>
pageVars  == <<page, debounce, load>>
storeVars == <<stored, server, bodyCache>>
history   == <<reached, refused, passedOver>>
vars == <<vaultVars, pageVars, job, draftOwner, save, edits, storeVars, history>>

NoText == 0
Texts  == NoText..MaxText

Pages == [open : BOOLEAN, shown : BOOLEAN, editing : BOOLEAN,
          body : Texts, baseline : Texts, prompt : Texts]
Saves == [pc : {"idle", "putting", "indexing"}, text : Texts, here : BOOLEAN,
          lease : Leases \cup {NoLease}]
JobStates  == [pc : {"idle", "encrypting", "opening"}, text : Texts,
               lease : Leases \cup {NoLease}]
LoadStates == [pc : {"idle", "fetching", "decrypting", "opening", "reading", "done"},
               text : Texts]

ClosedPage == [open |-> FALSE, shown |-> FALSE, editing |-> FALSE,
               body |-> NoText, baseline |-> NoText, prompt |-> NoText]
NoJob  == [pc |-> "idle", text |-> NoText, lease |-> NoLease]
NoLoad == [pc |-> "idle", text |-> NoText]
NoSave == [pc |-> "idle", text |-> NoText, here |-> FALSE, lease |-> NoLease]

Init ==
    /\ core = EmptySession
    /\ preLock = FALSE
    /\ page = ClosedPage
    /\ debounce = FALSE
    /\ job = [j \in Jobs |-> NoJob]
    /\ draftOwner = Nobody
    /\ load = NoLoad
    /\ save = NoSave
    /\ edits = 1
    /\ stored = NoText
    /\ server = 1
    /\ reached = 1
    /\ bodyCache = NoText
    /\ refused = FALSE
    /\ passedOver = {}

Dirty == page.editing /\ page.body # page.baseline

LeaseOfTab == CaptureLease(core, User)

---------------------------------------------------------------------------
(* The vault: VaultSession has the steps of unlocking, here it is one. *)

Unlock ==
    /\ ~Unlocked(core)
    /\ core.epoch < MaxEpoch
    /\ core' = [CoreInstall(CoreBegin(core, NoAttempt, User)) EXCEPT !.armed = TRUE]
    /\ preLock' = TRUE
    /\ UNCHANGED <<pageVars, job, draftOwner, save, edits, storeVars, history>>

\* MUTANT: the page's listener does not cancel the load.
LockButKeepLoading ==
    /\ core' = CoreLock(core)
    /\ preLock' = FALSE
    /\ page' = [ClosedPage EXCEPT !.open = page.open]
    /\ debounce' = FALSE
    /\ bodyCache' = NoText
    /\ UNCHANGED <<load, job, draftOwner, save, edits, stored, server, history>>

\* MUTANT: the listener leaves the form, and with it the autosave timer, as they are.
LockButKeepForm ==
    /\ core' = CoreLock(core)
    /\ preLock' = FALSE
    /\ load' = NoLoad
    /\ bodyCache' = NoText
    /\ UNCHANGED <<page, debounce, job, draftOwner, save, edits, stored, server, history>>

\* The lock and the page's own listener: every private field of the page is cleared.
LockAndClear ==
    /\ core' = CoreLock(core)
    /\ preLock' = FALSE
    /\ page' = [ClosedPage EXCEPT !.open = page.open]
    /\ debounce' = FALSE
    /\ load' = NoLoad
    /\ bodyCache' = NoText
    /\ UNCHANGED <<job, draftOwner, save, edits, stored, server, history>>

LockManually == Unlocked(core) /\ LockAndClear

\* The inactivity timer, due 50 ms after the pre-lock timer; it waits for no draft.
AutoLockFires ==
    /\ core.armed
    /\ ~preLock
    /\ LockAndClear

---------------------------------------------------------------------------
(* Saving a draft *)

\* MUTANT: a draft that is being saved is not overtaken by the next one.
StartJobUnlessBusy(j) ==
    /\ job[j].pc = "idle"
    /\ IF \E k \in Jobs : job[k].pc # "idle"
       THEN UNCHANGED <<job, draftOwner>>
       ELSE /\ job' = [job EXCEPT ![j] = [pc |-> "encrypting", text |-> page.body,
                                          lease |-> LeaseOfTab]]
            /\ draftOwner' = j

\* saveEncryptedNoteDraft up to its first await; the call overtakes every earlier one.
StartJob(j) ==
    /\ job[j].pc = "idle"
    /\ job' = [job EXCEPT ![j] = [pc |-> "encrypting", text |-> page.body, lease |-> LeaseOfTab]]
    /\ draftOwner' = j

\* useAutosaveTimer: 1.5 s after the last change of a dirty form.
DebounceFires(j) ==
    /\ debounce
    /\ debounce' = FALSE
    /\ StartJob(j)
    /\ UNCHANGED <<vaultVars, page, load, save, edits, storeVars, history>>

\* useNoteVaultBeforeAutoLock; typing renews the vault's timers, so the autosave timer is due first.
PreLockFires(j) ==
    /\ preLock
    /\ ~debounce
    /\ preLock' = FALSE
    /\ IF Dirty THEN StartJob(j) ELSE UNCHANGED <<job, draftOwner>>
    /\ UNCHANGED <<core, pageVars, save, edits, storeVars, history>>

\* MUTANT: the ownership of the draft is not asserted again.
LeaseAlone(j) == LeaseCurrent(core, job[j].lease)

\* assertVaultAsyncOwnershipCurrent
JobCurrent(j) == draftOwner = j /\ LeaseCurrent(core, job[j].lease)

Encrypted(j) ==
    /\ job[j].pc = "encrypting"
    /\ JobCurrent(j)
    /\ job' = [job EXCEPT ![j].pc = "opening"]
    /\ UNCHANGED <<vaultVars, pageVars, draftOwner, save, edits, storeVars, history>>

\* IndexedDB orders the transactions of a store by their creation: the put counts when issued,
\* and all that waits for it is the notice that the draft was saved.
PutDraft(j) ==
    /\ job[j].pc = "opening"
    /\ JobCurrent(j)
    /\ stored' = job[j].text
    /\ job' = [job EXCEPT ![j] = NoJob]
    /\ UNCHANGED <<vaultVars, pageVars, draftOwner, save, edits, server, bodyCache, history>>

\* An assertion throws AsyncOwnershipCancelledError.
JobCancelled(j) ==
    /\ job[j].pc # "idle"
    /\ ~JobCurrent(j)
    /\ job' = [job EXCEPT ![j] = NoJob]
    /\ UNCHANGED <<vaultVars, pageVars, draftOwner, save, edits, storeVars, history>>

\* IndexedDB cannot be opened, or aborts the transaction.
StoreRefuses(j) ==
    /\ job[j].pc = "opening"
    /\ JobCurrent(j)
    /\ refused' = (refused \/ job[j].text = edits)
    /\ job' = [job EXCEPT ![j] = NoJob]
    /\ UNCHANGED <<vaultVars, pageVars, draftOwner, save, edits, storeVars, reached, passedOver>>

---------------------------------------------------------------------------
(* Opening and leaving the page *)

Open ==
    /\ ~page.open
    /\ page' = [ClosedPage EXCEPT !.open = TRUE]
    /\ UNCHANGED <<vaultVars, debounce, load, job, draftOwner, save, edits, storeVars, history>>

\* The page is unmounted; what it has under way goes on.
Leave ==
    /\ page.open
    /\ page' = ClosedPage
    /\ debounce' = FALSE
    /\ load' = NoLoad
    /\ save' = [save EXCEPT !.here = FALSE]
    /\ UNCHANGED <<vaultVars, job, draftOwner, edits, storeVars, history>>

\* The note list decrypts the bodies it has not cached yet (useNoteListExcerpts).
ListBodies ==
    /\ ~page.open
    /\ Unlocked(core)
    /\ bodyCache = NoText
    /\ bodyCache' = server
    /\ UNCHANGED <<vaultVars, pageVars, job, draftOwner, save, edits, stored, server, history>>

StartLoad ==
    /\ page.open
    /\ Unlocked(core)
    /\ load.pc = "idle"
    /\ load' = [pc |-> "fetching", text |-> NoText]
    /\ UNCHANGED <<vaultVars, page, debounce, job, draftOwner, save, edits, storeVars, history>>

\* The row arrives, but a cached body is preferred to the row's.
Fetched ==
    /\ load.pc = "fetching"
    /\ load' = [pc |-> "decrypting", text |-> IF bodyCache = NoText THEN server ELSE bodyCache]
    /\ UNCHANGED <<vaultVars, page, debounce, job, draftOwner, save, edits, storeVars, history>>

\* The note is shown, and in the same turn loadEncryptedNoteDraft captures the draft.
ShowNote ==
    /\ load.pc = "decrypting"
    /\ page' = [page EXCEPT !.shown = TRUE, !.body = load.text]
    /\ load' = [pc |-> "opening", text |-> NoText]
    /\ draftOwner' = Load
    /\ UNCHANGED <<vaultVars, debounce, job, save, edits, storeVars, history>>

ReadDraft ==
    /\ load.pc = "opening"
    /\ draftOwner = Load
    /\ load' = [pc |-> "reading", text |-> stored]
    /\ UNCHANGED <<vaultVars, page, debounce, job, draftOwner, save, edits, storeVars, history>>

ShowDraft ==
    /\ load.pc = "reading"
    /\ draftOwner = Load
    /\ page' = [page EXCEPT !.prompt = load.text]
    /\ load' = [pc |-> "done", text |-> NoText]
    /\ UNCHANGED <<vaultVars, debounce, job, draftOwner, save, edits, storeVars, history>>

\* The request fails, or a draft saved meanwhile has overtaken the load of the draft.
LoadFails ==
    /\ \/ load.pc = "fetching"
       \/ load.pc \in {"opening", "reading"} /\ draftOwner # Load
    /\ load' = [pc |-> "done", text |-> NoText]
    /\ UNCHANGED <<vaultVars, page, debounce, job, draftOwner, save, edits, storeVars, history>>

---------------------------------------------------------------------------
(* Editing *)

StartEditing ==
    /\ page.shown
    /\ ~page.editing
    /\ page' = [page EXCEPT !.editing = TRUE, !.baseline = page.body]
    /\ UNCHANGED <<vaultVars, debounce, load, job, draftOwner, save, edits, storeVars, history>>

\* MUTANT: while a draft is being saved typing does not start the autosave timer.
TypeDuringAutosave ==
    /\ page.editing
    /\ edits < MaxText
    /\ edits' = edits + 1
    /\ page' = [page EXCEPT !.body = edits']
    /\ core' = [core EXCEPT !.armed = TRUE]
    /\ preLock' = TRUE
    /\ debounce' = (debounce \/ \A j \in Jobs : job[j].pc = "idle")
    /\ refused' = FALSE
    /\ UNCHANGED <<load, job, draftOwner, save, storeVars, reached, passedOver>>

\* A keystroke: touchVaultActivity, and a new callback restarts the autosave timer.
Type ==
    /\ page.editing
    /\ edits < MaxText
    /\ edits' = edits + 1
    /\ page' = [page EXCEPT !.body = edits']
    /\ core' = [core EXCEPT !.armed = TRUE]
    /\ preLock' = TRUE
    /\ debounce' = TRUE
    /\ refused' = FALSE
    /\ UNCHANGED <<load, job, draftOwner, save, storeVars, reached, passedOver>>

CancelEditing ==
    /\ page.editing
    /\ page' = [page EXCEPT !.body = page.baseline, !.editing = FALSE]
    /\ debounce' = FALSE
    /\ UNCHANGED <<vaultVars, load, job, draftOwner, save, edits, storeVars, history>>

Prompted == page.shown /\ page.prompt # NoText /\ ~page.editing

RestoreDraft ==
    /\ Prompted
    /\ page' = [page EXCEPT !.body = page.prompt, !.baseline = page.prompt,
                            !.prompt = NoText, !.editing = TRUE]
    /\ UNCHANGED <<vaultVars, debounce, load, job, draftOwner, save, edits, storeVars, history>>

\* The database is open by now: a draft was read from it.
DiscardDraft ==
    /\ Prompted
    /\ stored' = NoText
    /\ page' = [page EXCEPT !.prompt = NoText]
    /\ UNCHANGED <<vaultVars, debounce, load, job, draftOwner, save, edits, server, bodyCache, history>>

---------------------------------------------------------------------------
(* handleSave, one at a time.  The form stays enabled and the page may be left meanwhile. *)

\* The texts on the page, in the prompt, being read and in the draft store.
TextsAtHand == {page.body, page.baseline, page.prompt, load.text, stored}

BeginSave ==
    /\ page.editing
    /\ save.pc = "idle"
    /\ save' = [save EXCEPT !.pc = "putting", !.text = page.body, !.here = TRUE,
                            !.lease = LeaseOfTab]
    /\ UNCHANGED <<vaultVars, pageVars, job, draftOwner, edits, storeVars, history>>

\* updateNote: the row is replaced ...
SaveReachesServer ==
    /\ save.pc = "putting"
    /\ server' = save.text
    /\ reached' = IF save.text > reached THEN save.text ELSE reached
    /\ save' = [save EXCEPT !.pc = "indexing"]
    /\ UNCHANGED <<vaultVars, pageVars, job, draftOwner, edits, stored, bodyCache, refused, passedOver>>

\* ... and after the index and the version are written too, handleSave goes on: the page that
\* is still there takes the saved text as its baseline, the draft is deleted, editing ends,
\* whatever has been typed, restored or stored since the save began.
SaveEnds ==
    /\ save.pc = "indexing"
    /\ LeaseCurrent(core, save.lease)
    /\ stored' = NoText
    /\ save' = NoSave
    /\ passedOver' = passedOver \cup {n \in TextsAtHand : n > reached}
    /\ IF save.here
       THEN /\ page' = [page EXCEPT !.baseline = save.text, !.prompt = NoText, !.editing = FALSE]
            /\ debounce' = FALSE
       ELSE UNCHANGED <<page, debounce>>
    /\ UNCHANGED <<vaultVars, load, job, draftOwner, edits, server, bodyCache, reached, refused>>

\* MUTANT: editing ends whether the save succeeded or not.
SaveFailsAndCloses ==
    /\ save.pc # "idle"
    /\ save' = NoSave
    /\ page' = IF save.here THEN [page EXCEPT !.editing = FALSE] ELSE page
    /\ debounce' = (debounce /\ ~save.here)
    /\ UNCHANGED <<vaultVars, load, job, draftOwner, edits, storeVars, history>>

\* A request fails or the lease has ended: the form stays as it is.
SaveFails ==
    /\ save.pc # "idle"
    /\ save' = NoSave
    /\ UNCHANGED <<vaultVars, pageVars, job, draftOwner, edits, storeVars, history>>

---------------------------------------------------------------------------
DraftSteps(j) == Encrypted(j) \/ PutDraft(j) \/ JobCancelled(j) \/ StoreRefuses(j)

Next ==
    \/ Unlock \/ LockManually \/ AutoLockFires
    \/ \E j \in Jobs : DebounceFires(j) \/ PreLockFires(j) \/ DraftSteps(j)
    \/ Open \/ Leave \/ ListBodies
    \/ StartLoad \/ Fetched \/ ShowNote \/ ReadDraft \/ ShowDraft \/ LoadFails
    \/ StartEditing \/ Type \/ CancelEditing \/ RestoreDraft \/ DiscardDraft
    \/ BeginSave \/ SaveReachesServer \/ SaveEnds \/ SaveFails

Spec == Init /\ [][Next]_vars
---------------------------------------------------------------------------
TypeOK ==
    /\ core \in Sessions
    /\ preLock \in BOOLEAN
    /\ page \in Pages
    /\ debounce \in BOOLEAN
    /\ job \in [Jobs -> JobStates]
    /\ draftOwner \in Jobs \cup {Load, Nobody}
    /\ load \in LoadStates
    /\ save \in Saves
    /\ edits \in 1..MaxText
    /\ {stored, server, bodyCache, reached} \subseteq Texts
    /\ refused \in BOOLEAN
    /\ passedOver \subseteq Texts
    /\ \A j \in Jobs : job[j].pc # "idle" => job[j].lease # NoLease
    /\ save.pc # "idle" => save.lease # NoLease

\* After a lock nothing of a note is on the page, in the cache or about to appear: neither a
\* load nor the autosave timer outlives the key (the page's subscribeVaultSession listener).
NothingPrivateWhenLocked ==
    page.shown \/ page.editing \/ page.prompt # NoText \/ load.pc # "idle" \/ debounce
        \/ bodyCache # NoText => Unlocked(core)

\* A draft is never replaced by an older one, however the saves of the autosave timer and of
\* the pre-lock flush overlap (saveEncryptedNoteDraft's last-request-wins ownership).
DraftNeverGoesBack ==
    [][stored # NoText /\ stored' # NoText => stored' >= stored]_stored

\* A text on the page that is newer than anything the server was given is still dirty, so that
\* the page warns and autosaves, or no newer than the stored draft.  The exception is what
\* handleSave passes over: it deletes the draft and closes the form whatever was typed, restored
\* or stored since it began (page.tsx:487-494), so a text that a save of an older one found when
\* it ended is neither dirty nor stored.
UnsavedTextIsKept ==
    page.body > reached => Dirty \/ stored >= page.body \/ page.body \in passedOver

Settled(n) == stored = n \/ (refused /\ edits = n) \/ reached >= n \/ n \in passedOver

\* A save of the text is on its way to the draft store, and nothing has overtaken it.
OnItsWay(n) ==
    \E j \in Jobs : job[j].pc \in {"encrypting", "opening"} /\ job[j].text = n /\ JobCurrent(j)

\* Whatever overlaps, the text of a dirty form never waits for an event that does not come: its
\* autosave timer is pending, or a save of exactly this text is on its way and not overtaken,
\* or it has arrived in the draft store or on the server, or IndexedDB refused it ("debounced
\* 1.5s after the last qualifying change").  The exception is passedOver again: a save begun on
\* a page that was left meanwhile deletes the draft of the form opened since (page.tsx:491).
TypedTextIsOnItsWay == Dirty => debounce \/ Settled(page.body) \/ OnItsWay(page.body)

\* When the vault locks by itself the text of a dirty form is in the draft store, or on the
\* server, unless IndexedDB refused it or a save passed over it; or else the flush has begun
\* with exactly this text, nothing has overtaken it, and it has had its 50 ms.  Such a flush
\* the lock cuts off: nothing waits for it (vault-session.ts:137), so it may be late, but never
\* missing, of an older text, or given up for another save.
DraftSavedBeforeAutoLock ==
    [][AutoLockFires /\ Dirty => Settled(page.body) \/ OnItsWay(page.body)]_vars
==========================================================================
