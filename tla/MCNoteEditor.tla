-------------------------- MODULE MCNoteEditor --------------------------
EXTENDS NoteEditor, TLC
=========================================================================
