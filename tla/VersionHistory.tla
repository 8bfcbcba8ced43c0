--------------------------- MODULE VersionHistory ---------------------------
(***************************************************************************)
(* The version history of one note: noteVersionService.create, a           *)
(* transaction of four statements (highest number, insert, newest rows,    *)
(* delete), run by several requests at once.  The database isolates        *)
(* transactions at READ COMMITTED: a statement sees what is committed when *)
(* it starts and what its own transaction wrote, and a delete waits for    *)
(* the rows that another open transaction has deleted.  No index makes     *)
(* (note, number) unique.  Boards have a twin of this service.             *)
(***************************************************************************)
EXTENDS Naturals, FiniteSets, FiniteSetsExt

CONSTANTS
    Creates,    \* the requests; each brings the id of its own version
    Limit       \* getNoteVersionHistoryLimit()

\* readIntEnv gives getNoteVersionHistoryLimit an integer of at least 1.
ASSUME LimitAssumption == Limit \in Nat \ {0}

VARIABLES
    rows,       \* the committed rows of note_versions: [id, number]
    tx,         \* for each request, where its transaction stands
    alone,      \* requests whose transaction has so far overlapped with none
    created,    \* every row ever committed
    orderly     \* the last transaction to commit overlapped with none

versionVars == <<rows, tx, alone, created, orderly>>

NoTx == [at |-> "new", max |-> 0, own |-> {}, cutoff |-> 0, victims |-> {}]

VersionInit ==
    /\ rows = {}
    /\ tx = [t \in Creates |-> NoTx]
    /\ alone = {}
    /\ created = {}
    /\ orderly = TRUE

-----------------------------------------------------------------------------

Open(t) == tx[t].at \notin {"new", "done"}

\* What a statement of t sees: the committed rows and its own.
Visible(t) == rows \cup tx[t].own

\* Rows deleted by a transaction that is still open are locked.
LockedFor(t) == UNION {tx[u].victims : u \in {v \in Creates \ {t} : tx[v].at = "deleted"}}

\* The first statement: the highest number of the note, 0 when it has none.
MaxVersionNumber(t) ==
    /\ tx[t].at = "new"
    /\ tx' = [tx EXCEPT ![t].at = "insert",
                        ![t].max = Max({0} \cup {r.number : r \in rows})]
    /\ alone' = IF \E u \in Creates : Open(u) THEN {} ELSE {t}
    /\ UNCHANGED <<rows, created, orderly>>

Insert(t) ==
    /\ tx[t].at = "insert"
    /\ tx' = [tx EXCEPT ![t].at = "select",
                        ![t].own = {[id |-> t, number |-> tx[t].max + 1]}]
    /\ UNCHANGED <<rows, alone, created, orderly>>

\* The number of the last of the newest Limit rows.  Rows with the same
\* number may come in any order, which the number does not tell.
Cutoff(seen) ==
    CHOOSE n \in {r.number : r \in seen} :
        /\ Cardinality({r \in seen : r.number > n}) < Limit
        /\ Cardinality({r \in seen : r.number >= n}) >= Limit

\* pruneBeyondLimit: it returns when there are fewer than Limit rows.
SelectKept(t) ==
    /\ tx[t].at = "select"
    /\ tx' = IF Cardinality(Visible(t)) < Limit
             THEN [tx EXCEPT ![t].at = "deleted"]
             ELSE [tx EXCEPT ![t].at = "delete", ![t].cutoff = Cutoff(Visible(t))]
    /\ UNCHANGED <<rows, alone, created, orderly>>

\* MUTANT: the last of the kept rows is pruned with the others.
BeyondOrAt(t) == {r \in Visible(t) : r.number <= tx[t].cutoff}

Beyond(t) == {r \in Visible(t) : r.number <= tx[t].cutoff - 1}

\* The delete finds its rows when it starts, and ends once no other open
\* transaction holds one of them: a row that is gone by then is skipped.
FindVictims(t) ==
    /\ tx[t].at = "delete"
    /\ tx' = [tx EXCEPT ![t].at = "wait", ![t].victims = Beyond(t)]
    /\ UNCHANGED <<rows, alone, created, orderly>>

Delete(t) ==
    /\ tx[t].at = "wait"
    /\ tx[t].victims \cap LockedFor(t) = {}
    /\ tx' = [tx EXCEPT ![t].at = "deleted", ![t].victims = @ \cap Visible(t)]
    /\ UNCHANGED <<rows, alone, created, orderly>>

Commit(t) ==
    /\ tx[t].at = "deleted"
    /\ rows' = Visible(t) \ tx[t].victims
    /\ created' = created \cup tx[t].own
    /\ orderly' = (t \in alone)
    /\ tx' = [tx EXCEPT ![t] = [NoTx EXCEPT !.at = "done"]]
    /\ alone' = alone \ {t}

\* A failing statement, a lost connection or a crash of the server.
Abort(t) ==
    /\ Open(t)
    /\ tx' = [tx EXCEPT ![t] = [NoTx EXCEPT !.at = "done"]]
    /\ alone' = alone \ {t}
    /\ UNCHANGED <<rows, created, orderly>>

VersionNext ==
    \E t \in Creates :
        \/ MaxVersionNumber(t) \/ Insert(t) \/ SelectKept(t)
        \/ FindVictims(t) \/ Delete(t) \/ Commit(t) \/ Abort(t)

VersionSpec == VersionInit /\ [][VersionNext]_versionVars

-----------------------------------------------------------------------------

\* Whatever requests overlap and whichever of them fail, no version is pruned
\* unless Limit versions with greater numbers were stored; and when the last
\* request ran by itself, the history holds at most Limit different numbers.
\* (Overlapping requests may take the same number, so that more than Limit
\* rows remain.)  This is create and pruneBeyondLimit against each other.
HistoryIsTheNewest ==
    /\ \A v \in created :
           v \in rows \/ Cardinality({w \in created : w.number > v.number}) >= Limit
    /\ orderly => Cardinality({v.number : v \in rows}) <= Limit

=============================================================================
