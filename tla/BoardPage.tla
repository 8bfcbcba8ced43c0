----------------------------- MODULE BoardPage -----------------------------
(***************************************************************************)
(* The page of one kanban board in one tab: the draft that KanbanBoard     *)
(* shows and edits, useKanban with its queue of saves and its one          *)
(* ownership controller, the link of a standalone board to a new note, and *)
(* the hook that writes a linked board back to its note                    *)
(* (app/(vault)/kanban/[boardId]/page.tsx, features/kanban/board.tsx,      *)
(* features/notes/use-kanban.ts, use-kanban-board-to-note-sync.ts,         *)
(* lib/async/coalesced-task-queue.ts, and kanban-service.ts behind them).  *)
(*                                                                         *)
(* The contents of a board are the set of the edits it carries.  Versions  *)
(* and the vault index are written between a save's PUT and its end; they  *)
(* may fail there, and NotesIndex says what becomes of the index.          *)
(***************************************************************************)
EXTENDS Naturals

CONSTANTS
    StartsLinked,  \* whether the board may be linked to a note at first
    MaxEdits       \* bound on the number of edits

ASSUME BoardAssumption ==
    /\ StartsLinked \subseteq BOOLEAN
    /\ MaxEdits \in Nat

VARIABLES
    unlocked,
    board,       \* useKanban's board, with its wrapped key
    draft,       \* the board that KanbanBoard shows, while it is mounted
    pending,     \* the payload waiting in the queue
    job,         \* the save being run
    load,        \* loadBoard
    claim,       \* onCreateNote: createNote and then claimBoardForNote
    owner,       \* what captured useKanban's controller last
    noteBody,    \* the edits in the note's text as the sync hook holds it
    sync,        \* runSync
    row,         \* the board on the server
    note,        \* the edits in the text of the note on the server
    edits,       \* edits made so far
    failed,      \* history: a save, link or sync failed, or a lock found one under way
    overtaken    \* history: a link or sync wrote a board that was behind the draft

hookVars   == <<board, noteBody>>
serverVars == <<row, note>>
history    == <<failed, overtaken>>
vars == <<unlocked, hookVars, draft, pending, job, load, claim, owner, sync, serverVars, edits,
          history>>

EditSets == SUBSET (1..MaxEdits)

\* The scope inside the encrypted board, and the key it is encrypted under: the note's key once
\* note_id is set on the row.
Boards == [edits : EditSets, linked : BOOLEAN, key : {"board", "note"}]

None == [edits |-> {}, linked |-> FALSE, key |-> "none"]

Unknown == {0}

Idle    == [pc |-> "idle", board |-> None]
NoSync  == [pc |-> "idle", board |-> None, live |-> FALSE]

Init ==
    /\ unlocked = FALSE
    /\ board = None
    /\ draft = None
    /\ pending = None
    /\ job = Idle
    /\ load = Idle
    /\ claim = Idle
    /\ owner = "nobody"
    /\ noteBody = Unknown
    /\ sync = NoSync
    /\ \E l \in StartsLinked :
         row = [edits |-> {}, linked |-> l, key |-> IF l THEN "note" ELSE "board"]
    /\ note = {}
    /\ edits = 0
    /\ failed = FALSE
    /\ overtaken = FALSE

---------------------------------------------------------------------------
\* setState of the board; the sync hook lets go of the note of a board that is not linked.
SetBoard(b) ==
    /\ board' = b
    /\ noteBody' = IF b.linked THEN noteBody ELSE Unknown
    /\ sync' = IF b.linked THEN sync ELSE [sync EXCEPT !.live = FALSE]

Unlock ==
    /\ ~unlocked
    /\ unlocked' = TRUE
    /\ UNCHANGED <<hookVars, draft, pending, job, load, claim, owner, sync, serverVars, edits,
                   history>>

\* Nothing is under way that would change the row, the note or the link.
Settled ==
    /\ pending = None
    /\ \A call \in {job, claim, sync} : call.pc = "idle"

\* MUTANT: the hook does not invalidate its controller.
LockKeepsOwner ==
    /\ unlocked
    /\ unlocked' = FALSE
    /\ SetBoard(None)
    /\ draft' = None
    /\ load' = Idle
    /\ failed' = (failed \/ ~Settled)
    /\ UNCHANGED <<pending, job, claim, owner, serverVars, edits,
                   overtaken>>

\* useOnVaultLocked of both hooks; the page shows VaultLockedState instead of the board.  The
\* queue is not emptied, and a request that was sent may be served after the next load has read
\* the row.  useNotes drops a createNote under way.
Lock ==
    /\ unlocked
    /\ unlocked' = FALSE
    /\ SetBoard(None)
    /\ draft' = None
    /\ load' = Idle
    /\ owner' = "nobody"
    /\ claim' = IF claim.pc = "creating" THEN Idle ELSE claim
    /\ failed' = (failed \/ ~Settled)
    /\ UNCHANGED <<pending, job, serverVars, edits,
                   overtaken>>

---------------------------------------------------------------------------
(* loadBoard, once the vault can be read *)

StartLoad ==
    /\ unlocked
    /\ load.pc = "idle"
    /\ load' = [load EXCEPT !.pc = "fetching"]
    /\ owner' = "load"
    /\ UNCHANGED <<unlocked, hookVars, draft, pending, job, claim, sync, serverVars, edits,
                   history>>

FetchBoard ==
    /\ load.pc = "fetching"
    /\ owner = "load"
    /\ load' = [pc |-> "decrypting", board |-> row]
    /\ UNCHANGED <<unlocked, hookVars, draft, pending, job, claim, owner, sync, serverVars,
                   edits, history>>

\* KanbanBoard is mounted and takes the board as its draft.
ShowBoard ==
    /\ load.pc = "decrypting"
    /\ owner = "load"
    /\ SetBoard(load.board)
    /\ draft' = load.board
    /\ load' = [pc |-> "done", board |-> None]
    /\ UNCHANGED <<unlocked, pending, job, claim, owner, serverVars, edits, history>>

\* The request fails; or a save or a link has captured the controller, and `loading` stays set.
FailLoad ==
    /\ load.pc \in {"fetching", "decrypting"}
    /\ load' = [pc |-> IF owner = "load" THEN "failed" ELSE "stuck", board |-> None]
    /\ UNCHANGED <<unlocked, hookVars, draft, pending, job, claim, owner, sync, serverVars,
                   edits, history>>

---------------------------------------------------------------------------
(* The queue of saves *)

\* MUTANT: a payload that is already waiting is kept.
EnqueueKeepsFirst(b) == pending' = IF pending = None THEN b ELSE pending

\* enqueue: the newest payload replaces the one that waits.
Enqueue(b) == pending' = b

\* commit: the draft is edited and saved under the hook's key.
Edit ==
    /\ draft # None
    /\ edits < MaxEdits
    /\ edits' = edits + 1
    /\ draft' = [draft EXCEPT !.edits = @ \cup {edits'}]
    /\ Enqueue([draft' EXCEPT !.key = board.key])
    /\ UNCHANGED <<unlocked, hookVars, job, load, claim, owner, sync, serverVars, history>>

\* drain takes the payload; persistBoard captures the controller, which a locked vault refuses.
StartSave ==
    /\ job.pc = "idle"
    /\ pending # None
    /\ pending' = None
    /\ IF unlocked
       THEN /\ job' = [pc |-> "encrypting", board |-> pending]
            /\ owner' = "save"
            /\ UNCHANGED failed
       ELSE failed' = TRUE /\ UNCHANGED <<job, owner>>
    /\ UNCHANGED <<unlocked, hookVars, draft, load, claim, sync, serverVars, edits,
                   overtaken>>

SendSave ==
    /\ job.pc = "encrypting"
    /\ owner = "save"
    /\ job' = [job EXCEPT !.pc = "sent"]
    /\ UNCHANGED <<unlocked, hookVars, draft, pending, load, claim, owner, sync, serverVars,
                   edits, history>>

\* kanbanService.update: the wrapped key must be the one that belongs to the row's scope
\* (assertKanbanBoardAad); the scope inside the encrypted board is not the server's to read.
ServeSave ==
    /\ job.pc = "sent"
    /\ job.board.key = row.key
    /\ row' = job.board
    /\ job' = [job EXCEPT !.pc = "served"]
    /\ UNCHANGED <<unlocked, hookVars, draft, pending, load, claim, owner, sync, note, edits,
                   history>>

\* MUTANT: the hook's board is not replaced by the saved one.
EndSaveQuietly ==
    /\ job.pc = "served"
    /\ owner = "save"
    /\ job' = Idle
    /\ UNCHANGED <<unlocked, hookVars, draft, pending, load, claim, owner, sync, serverVars,
                   edits, history>>

\* MUTANT: what was enqueued during the save is forgotten.
EndSaveForgets ==
    /\ job.pc = "served"
    /\ owner = "save"
    /\ SetBoard(job.board)
    /\ pending' = None
    /\ job' = Idle
    /\ UNCHANGED <<unlocked, draft, load, claim, owner, serverVars, edits, history>>

\* KanbanBoard keeps its draft; a board set after a failed load mounts it.
Mounted(b) == IF draft = None /\ load.pc = "failed" THEN b ELSE draft

\* The version and the index are written.
EndSave ==
    /\ job.pc = "served"
    /\ owner = "save"
    /\ SetBoard(job.board)
    /\ draft' = Mounted(job.board)
    /\ job' = Idle
    /\ UNCHANGED <<unlocked, pending, load, claim, owner, serverVars, edits, history>>

\* MUTANT: the payload of a failed save is left behind.
FailSaveKeeps ==
    /\ job.pc # "idle"
    /\ job' = [job EXCEPT !.pc = "idle"]
    /\ failed' = TRUE
    /\ UNCHANGED <<unlocked, hookVars, draft, pending, load, claim, owner, sync, serverVars,
                   edits, overtaken>>

\* A request fails before or after it is served, or an assertion throws.
FailSave ==
    /\ job.pc # "idle"
    /\ job' = Idle
    /\ failed' = TRUE
    /\ UNCHANGED <<unlocked, hookVars, draft, pending, load, claim, owner, sync, serverVars,
                   edits, overtaken>>

---------------------------------------------------------------------------
(* "Create note from board" *)

\* The page's board, which may be behind the draft.
BeginClaim ==
    /\ draft # None
    /\ ~board.linked
    /\ claim.pc = "idle"
    /\ claim' = [pc |-> "creating", board |-> board]
    /\ UNCHANGED <<unlocked, hookVars, draft, pending, job, load, owner, sync, serverVars, edits,
                   history>>

\* createNote ends, and claimBoardForNote captures the controller.
NoteCreated ==
    /\ claim.pc = "creating"
    /\ note' = claim.board.edits
    /\ owner' = "claim"
    /\ claim' = [claim EXCEPT !.pc = "encrypting"]
    /\ UNCHANGED <<unlocked, hookVars, draft, pending, job, load, sync, row, edits, history>>

SendClaim ==
    /\ claim.pc = "encrypting"
    /\ owner = "claim"
    /\ claim' = [claim EXCEPT !.pc = "sent"]
    /\ UNCHANGED <<unlocked, hookVars, draft, pending, job, load, owner, sync, serverVars, edits,
                   history>>

Linked(b) == [b EXCEPT !.linked = TRUE, !.key = "note"]

\* kanbanService.update with claimNoteId: ConflictError if the row is linked already.
ServeClaim ==
    /\ claim.pc = "sent"
    /\ row.key = "board"
    /\ row' = Linked(claim.board)
    /\ claim' = [claim EXCEPT !.pc = "served"]
    /\ overtaken' = (overtaken \/ claim.board.edits # draft.edits)
    /\ UNCHANGED <<unlocked, hookVars, draft, pending, job, load, owner, sync, note, edits, failed>>

EndClaim ==
    /\ claim.pc = "served"
    /\ owner = "claim"
    /\ SetBoard(Linked(claim.board))
    /\ draft' = Mounted(Linked(claim.board))
    /\ claim' = Idle
    /\ UNCHANGED <<unlocked, pending, job, load, owner, serverVars, edits, history>>

FailClaim ==
    /\ claim.pc # "idle"
    /\ claim' = Idle
    /\ failed' = TRUE
    /\ UNCHANGED <<unlocked, hookVars, draft, pending, job, load, owner, sync, serverVars, edits,
                   overtaken>>

---------------------------------------------------------------------------
(* useKanbanBoardToNoteSync *)

\* The hook fetches the note of a linked board.
LoadNote ==
    /\ board.linked
    /\ noteBody = Unknown
    /\ noteBody' = note
    /\ UNCHANGED <<unlocked, board, draft, pending, job, load, claim, owner, sync, serverVars,
                   edits, history>>

\* 800 ms after the hook's board last changed: if it differs from the text, updateNote is called.
\* It overtakes a sync under way.
RunSync ==
    /\ board.linked
    /\ noteBody \notin {Unknown, board.edits}
    /\ noteBody' = board.edits
    /\ sync' = [pc |-> "sending", board |-> board, live |-> TRUE]
    /\ UNCHANGED <<unlocked, board, draft, pending, job, load, claim, owner, serverVars, edits,
                   history>>

ServeNote ==
    /\ sync.pc = "sending"
    /\ note' = sync.board.edits
    /\ sync' = [sync EXCEPT !.pc = "served"]
    /\ UNCHANGED <<unlocked, hookVars, draft, pending, job, load, claim, owner, row, edits,
                   history>>

\* Then the board as it was when the sync began is saved, with the keys of its lines.
WriteBack ==
    /\ sync.pc = "served"
    /\ sync.live
    /\ Enqueue(sync.board)
    /\ sync' = NoSync
    /\ overtaken' = (overtaken \/ sync.board.edits # draft.edits)
    /\ UNCHANGED <<unlocked, hookVars, draft, job, load, claim, owner, serverVars, edits, failed>>

\* updateNote fails or is cancelled, or the sync's ownership has ended; nobody tries again.
FailSync ==
    /\ sync.pc # "idle"
    /\ sync' = NoSync
    /\ failed' = TRUE
    /\ UNCHANGED <<unlocked, hookVars, draft, pending, job, load, claim, owner, serverVars, edits,
                   overtaken>>

---------------------------------------------------------------------------
SaveSteps == StartSave \/ SendSave \/ ServeSave \/ EndSave \/ FailSave

SyncSteps == RunSync \/ ServeNote \/ WriteBack \/ FailSync

\* An idle queue drains in the microtask that enqueue leaves behind, before anything else runs.
DrainIsDue == pending # None /\ job.pc = "idle"

Next ==
    \/ SaveSteps
    \/ /\ ~DrainIsDue
       /\ \/ Unlock \/ Lock
          \/ StartLoad \/ FetchBoard \/ ShowBoard \/ FailLoad
          \/ Edit
          \/ BeginClaim \/ NoteCreated \/ SendClaim \/ ServeClaim \/ EndClaim \/ FailClaim
          \/ LoadNote \/ SyncSteps

\* Timers fire and every request is answered or fails; the user owes nothing.
Fairness == WF_vars(SaveSteps) /\ WF_vars(SyncSteps)

Spec == Init /\ [][Next]_vars /\ Fairness
---------------------------------------------------------------------------
TypeOK ==
    /\ unlocked \in BOOLEAN
    /\ {board, draft, pending} \subseteq Boards \cup {None}
    /\ job \in [pc : {"idle", "encrypting", "sent", "served"}, board : Boards \cup {None}]
    /\ load \in [pc : {"idle", "fetching", "decrypting", "done", "failed", "stuck"},
                 board : Boards \cup {None}]
    /\ claim \in [pc : {"idle", "creating", "encrypting", "sent", "served"},
                  board : Boards \cup {None}]
    /\ \A call \in {job, claim, sync} : call.pc = "idle" <=> call.board = None
    /\ owner \in {"nobody", "load", "save", "claim"}
    /\ noteBody \in EditSets \cup {Unknown}
    /\ sync \in [pc : {"idle", "sending", "served"}, board : Boards \cup {None}, live : BOOLEAN]
    /\ row \in Boards
    /\ note \in EditSets
    /\ edits \in 0..MaxEdits
    /\ {failed, overtaken} \subseteq BOOLEAN

\* After a lock neither the board nor its note is in memory, and no load, save or link that was
\* under way brings them back (useOnVaultLocked of useKanban and of the sync hook).
NothingShownWhenLocked ==
    ~unlocked => board = None /\ draft = None /\ noteBody = Unknown

disturbed == failed \/ overtaken

\* What the user sees is what is stored: once nothing is under way the row has exactly the edits
\* on screen and the hook holds the row's key, unless a call failed or overtook an edit.  Saves
\* that coalesce or wait for each other lose nothing by themselves.
SettledBoardIsStored ==
    Settled /\ draft # None /\ ~disturbed => row.edits = draft.edits /\ row.key = board.key

\* Every edit on screen reaches the server, unless a call fails or the vault is locked.
EditsReachServer ==
    \A e \in 1..MaxEdits :
        e \in draft.edits ~> (e \in row.edits \/ disturbed \/ ~unlocked)

\* Every edit of a linked board whose note was fetched reaches the note as well.
EditsReachTheNote ==
    \A e \in 1..MaxEdits :
        (e \in draft.edits /\ draft.linked /\ noteBody # Unknown)
            ~> (e \in note \/ disturbed \/ ~unlocked)
============================================================================
