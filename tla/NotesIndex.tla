---------------------------- MODULE NotesIndex ----------------------------
(***************************************************************************)
(* The notes of one vault: the rows on the server and the encrypted vault  *)
(* index that the lists are drawn from, changed by the calls of several    *)
(* hooks in several tabs (features/notes/use-notes.ts, use-vault-index.ts, *)
(* modules/notes/services/note-service.ts, vault-service.ts).              *)
(*                                                                         *)
(* A call writes the row, then reads the whole index, changes one entry    *)
(* and writes the whole index back; the server checks no version.  A       *)
(* request that was sent is served even if its sender has moved on.        *)
(*                                                                         *)
(* The contents of a note are the number of the write that made them; its  *)
(* entry (metadataToIndexEntry) carries the same number, and what was      *)
(* changed afterwards in the entry alone: labels taken off when a category *)
(* or a tag was deleted, the trash mark taken off by a restore.            *)
(***************************************************************************)
EXTENDS Naturals, FiniteSets

CONSTANTS
    Notes,
    Calls,       \* concurrent calls
    Hooks,       \* hook instances, each with an AsyncOwnershipController
    Labels,      \* categories and tags
    Untrashed,   \* the edit of an entry that is no label's deletion
    Nobody,      \* no call, note or hook
    MaxWrites    \* bound on the number of writes of rows

ASSUME NotesAssumption ==
    /\ Nobody \notin Calls \cup Notes \cup Hooks
    /\ Untrashed \notin Labels
    /\ MaxWrites \in Nat \ {0}

VARIABLES
    rows,        \* the contents of each row, Absent before creation and after deletion
    index,       \* the entry of each note, NoEntry when there is none
    call,
    owner,       \* the call that captured each hook's controller last
    writes,      \* writes of rows so far
    had,         \* history: all contents each row ever had
    disturbed    \* history: notes whose calls were cut short or overlapped

vars == <<rows, index, call, owner, writes, had, disturbed>>

Absent   == 0
Contents == Absent..MaxWrites

\* The entry of contents w, before and after edits of its own.
Entries    == [write : Contents, edits : SUBSET (Labels \cup {Untrashed})]
EntryOf(w) == [write |-> w, edits |-> {}]
NoEntry    == EntryOf(Absent)

Edited(entry, edits) ==
    IF entry = NoEntry THEN NoEntry ELSE [entry EXCEPT !.edits = @ \cup edits]

Indexes == [Notes -> Entries]

\* createNote and duplicateNote; updateNote; the load-modify-write changes (trash, pin,
\* favorite, archive, resolve); restoreNoteFromTrash, which writes its entry twice; and
\* permanentlyDeleteNote.
NoteKinds == {"create", "update", "change", "restore", "delete"}

Kinds == NoteKinds \cup {"organize"}

NothingSeen == [n \in Notes |-> NoEntry]

NewCall(pc, kind, n, h, rounds) ==
    [pc |-> pc, kind |-> kind, rounds |-> rounds, note |-> n, hook |-> h,
     contents |-> Absent, seen |-> NothingSeen]

Idle == NewCall("idle", "organize", Nobody, Nobody, 0)

\* "loading": the row is asked for; "ready": about to write it; "writing": the write is sent;
\* "written": the row is written; "seen": the index was read; "patching": the new one is sent.
CallStates == [pc : {"idle", "loading", "ready", "writing", "written", "seen", "patching"},
               kind : Kinds, rounds : 0..2,
               note : Notes \cup {Nobody}, hook : Hooks \cup {Nobody},
               contents : Contents, seen : Indexes]

Init ==
    /\ \E S \in SUBSET Notes : rows = [n \in Notes |-> IF n \in S THEN 1 ELSE Absent]
    /\ index = [n \in Notes |-> EntryOf(rows[n])]
    /\ call = [c \in Calls |-> Idle]
    /\ owner = [h \in Hooks |-> Nobody]
    /\ writes = 1
    /\ had = [n \in Notes |-> {rows[n]} \ {Absent}]
    /\ disturbed = {}

\* The token and the lease of the call are current.
Current(c) == owner[call[c].hook] = c

At(c, pc) == call[c].pc = pc

Goto(c, pc) == call' = [call EXCEPT ![c].pc = pc]

\* The controller keeps the token of a call that has ended, and nobody asks for it again.
End(c) ==
    /\ call' = [call EXCEPT ![c] = Idle]
    /\ owner' = [h \in Hooks |-> IF owner[h] = c THEN Nobody ELSE owner[h]]

\* The call has changed the row of the note and owes the index its entry.
Owing(c, n) ==
    /\ call[c].kind # "organize"
    /\ call[c].note = n
    /\ call[c].pc \in {"written", "seen", "patching"}

---------------------------------------------------------------------------
FirstPc(kind) == IF kind \in {"change", "restore"} THEN "loading" ELSE "ready"

Rounds(kind) == IF kind = "restore" THEN 2 ELSE 1

\* A new id is random: nobody creates a note that exists or existed.
IdIsFree(n) == had[n] = {} /\ \A c \in Calls : ~(call[c].kind = "create" /\ call[c].note = n)

\* The call captures the controller of its hook, which cancels the hook's earlier call.
Capture(c, h, started) ==
    /\ At(c, "idle")
    /\ call' = [call EXCEPT ![c] = started]
    /\ owner' = [owner EXCEPT ![h] = c]
    /\ UNCHANGED <<rows, index, writes, had, disturbed>>

Start(c, h, kind, n) ==
    /\ IF kind = "create" THEN IdIsFree(n) ELSE had[n] # {}
    /\ Capture(c, h, NewCall(FirstPc(kind), kind, n, h, Rounds(kind)))

\* mutateIndex: categories, tags, saved views, the notes viewed last.  No row is written.
StartOrganize(c, h) ==
    Capture(c, h, NewCall("written", "organize", Nobody, h, 1))

\* loadNoteForUpdate: the row arrives.
LoadRow(c) ==
    /\ At(c, "loading")
    /\ Current(c)
    /\ rows[call[c].note] # Absent
    /\ Goto(c, "ready")
    /\ UNCHANGED <<rows, index, owner, writes, had, disturbed>>

\* MUTANT: the answer to the write of the row is not awaited.
SendRowUnawaited(c) ==
    /\ At(c, "ready")
    /\ Current(c)
    /\ writes < MaxWrites
    /\ writes' = writes + 1
    /\ call' = [call EXCEPT ![c].pc = "written",
                            ![c].contents = IF call[c].kind = "delete" THEN Absent ELSE writes']
    /\ UNCHANGED <<rows, index, owner, had, disturbed>>

\* MUTANT: a deletion writes the row like any other change.
SendRowAlways(c) ==
    /\ At(c, "ready")
    /\ Current(c)
    /\ writes < MaxWrites
    /\ writes' = writes + 1
    /\ call' = [call EXCEPT ![c].pc = "writing", ![c].contents = writes']
    /\ UNCHANGED <<rows, index, owner, had, disturbed>>

\* The new contents are encrypted, the ownership asserted and the write sent.
SendRow(c) ==
    /\ At(c, "ready")
    /\ Current(c)
    /\ writes < MaxWrites
    /\ writes' = writes + 1
    /\ call' = [call EXCEPT ![c].pc = "writing",
                            ![c].contents = IF call[c].kind = "delete" THEN Absent ELSE writes']
    /\ UNCHANGED <<rows, index, owner, had, disturbed>>

\* noteService.update and delete throw NotFoundError for a row that is gone.
RowAnswers(c) == call[c].kind = "create" \/ rows[call[c].note] # Absent

ServeRow(c) ==
    LET n == call[c].note IN
    /\ At(c, "writing")
    /\ RowAnswers(c)
    /\ rows' = [rows EXCEPT ![n] = call[c].contents]
    /\ had' = [had EXCEPT ![n] = @ \cup ({call[c].contents} \ {Absent})]
    /\ Goto(c, "written")
    /\ disturbed' = IF \E d \in Calls \ {c} : Owing(d, n) THEN disturbed \cup {n} ELSE disturbed
    /\ UNCHANGED <<index, owner, writes>>

\* vaultApi.getIndex, and the index is decrypted.
ReadIndex(c) ==
    /\ At(c, "written")
    /\ Current(c)
    /\ call' = [call EXCEPT ![c].pc = "seen", ![c].seen = index]
    /\ UNCHANGED <<rows, index, owner, writes, had, disturbed>>

\* updateVaultIndexEntry throws when the entry is missing.
EntryFound(c) == call[c].kind \in {"update", "change", "restore"} => call[c].seen[call[c].note] # NoEntry

\* deleteVaultCategory and deleteVaultTag take the label off the entries that carry it; the
\* other changes of mutateIndex leave the entries as they are.
Organized(c) ==
    {[n \in Notes |-> Edited(call[c].seen[n], drops)] : drops \in {{}} \cup {{l} : l \in Labels}}

\* MUTANT: the removal of a deleted note's entry is forgotten.
NextIndexKeepsDeleted(c) ==
    IF call[c].kind = "organize" THEN Organized(c)
    ELSE IF call[c].kind = "delete" THEN {call[c].seen}
    ELSE {[call[c].seen EXCEPT ![call[c].note] = EntryOf(call[c].contents)]}

\* A restore writes its entry again, and only takes the trash mark off what it finds there:
\* an entry of its own has none.
SecondRound(c) == call[c].kind = "restore" /\ call[c].rounds = 1

Restored(c, entry) == IF entry.write = call[c].contents THEN entry ELSE Edited(entry, {Untrashed})

\* addVaultIndexEntry, updateVaultIndexEntry, restoreVaultIndexEntry, removeVaultIndexEntry.
NextIndex(c) ==
    IF call[c].kind = "organize" THEN Organized(c)
    ELSE {[call[c].seen EXCEPT ![call[c].note] =
               IF SecondRound(c) THEN Restored(c, @) ELSE EntryOf(call[c].contents)]}

SendIndex(c) ==
    /\ At(c, "seen")
    /\ Current(c)
    /\ EntryFound(c)
    /\ \E next \in NextIndex(c) :
         call' = [call EXCEPT ![c].pc = "patching", ![c].seen = next]
    /\ UNCHANGED <<rows, index, owner, writes, had, disturbed>>

\* The note whose entry the call itself is to write.
Target(c) == IF call[c].kind = "organize" THEN {} ELSE {call[c].note}

\* Other notes whose entries of other contents the index being written undoes.
Undone(c) == {n \in Notes \ Target(c) : call[c].seen[n].write # index[n].write}

\* vaultRepository.updateVaultIndex replaces the whole index.
ServeIndex(c) ==
    /\ At(c, "patching")
    /\ index' = call[c].seen
    /\ disturbed' = disturbed \cup Undone(c)
    /\ IF call[c].rounds = 2
       THEN /\ call' = [call EXCEPT ![c].pc = "written", ![c].rounds = 1, ![c].seen = NothingSeen]
            /\ UNCHANGED owner
       ELSE End(c)
    /\ UNCHANGED <<rows, writes, had>>

\* A request fails or is lost before it is served, a row or an entry is not found, or the
\* call finds that it is not current any more.
Fail(c) ==
    /\ ~At(c, "idle")
    /\ End(c)
    /\ disturbed' = IF \E n \in Notes : Owing(c, n) THEN disturbed \cup {call[c].note} ELSE disturbed
    /\ UNCHANGED <<rows, index, writes, had>>

\* The vault of the hook's tab is locked or the account leaves: its lease has ended.
EndLease(h) ==
    /\ owner[h] # Nobody
    /\ owner' = [owner EXCEPT ![h] = Nobody]
    /\ UNCHANGED <<rows, index, call, writes, had, disturbed>>

Next ==
    \/ \E c \in Calls :
         \/ LoadRow(c) \/ SendRow(c) \/ ServeRow(c)
         \/ ReadIndex(c) \/ SendIndex(c) \/ ServeIndex(c) \/ Fail(c)
         \/ \E h \in Hooks :
              StartOrganize(c, h) \/ \E kind \in NoteKinds, n \in Notes : Start(c, h, kind, n)
    \/ \E h \in Hooks : EndLease(h)

Spec == Init /\ [][Next]_vars
---------------------------------------------------------------------------
TypeOK ==
    /\ rows \in [Notes -> Contents]
    /\ index \in Indexes
    /\ call \in [Calls -> CallStates]
    /\ owner \in [Hooks -> Calls \cup {Nobody}]
    /\ writes \in 1..MaxWrites
    /\ had \in [Notes -> SUBSET (1..MaxWrites)]
    /\ disturbed \subseteq Notes
    /\ \A n \in Notes : rows[n] # Absent => rows[n] \in had[n]
    /\ \A c \in Calls : call[c].kind = "delete" => call[c].contents = Absent
    /\ \A c \in Calls : call[c].kind \in NoteKinds => call[c].note \in Notes

\* The lists show what the rows hold: when no call is under way between a note's row and its
\* entry, the entry is that of the row's contents, but for labels taken off it since, unless two
\* calls overlapped on the note, a call on it was cut short, or another writer's read-modify-write
\* of the index straddled its entry.  There is no other way for the index to go wrong
\* (persistMetadataUpdate, createNote, restoreNoteFromTrash, permanentlyDeleteNote, mutateIndex).
IndexAgrees ==
    \A n \in Notes \ disturbed :
        (\A c \in Calls : ~Owing(c, n)) => index[n].write = rows[n] /\ index[n].edits \subseteq Labels

\* Whatever overlaps, fails or is lost, no entry is of contents that the row has never had: it is
\* written only after the server has accepted the row.  It may lack labels that were deleted, and
\* the trash mark where a restore overlapped with another call on the note.
IndexNeverAhead ==
    \A n \in Notes :
        /\ index[n] # NoEntry => index[n].write \in had[n]
        /\ Untrashed \in index[n].edits => n \in disturbed
==========================================================================
