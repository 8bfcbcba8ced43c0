--------------------------- MODULE PortableBroker ---------------------------
(***************************************************************************)
(* Portable passkeys: a credential of the account opens the vault through   *)
(* an envelope that a broker outside of the application holds.  The         *)
(* application keeps a mapping from the credential to the envelope          *)
(* (vault_portable_broker_envelopes); a page enrols, unlocks or revokes by  *)
(* calling the application, the account package (grants and receipts) and   *)
(* the broker one after another.  Any call may fail, or be executed and its *)
(* answer lost; a page may go away after any of them, and nothing resumes   *)
(* what it began.  Several pages act at once.                               *)
(*                                                                         *)
(* Credentials are passkeys that may sign in and that were made after the  *)
(* cutover, of a user with a vault.  The broker and the account package     *)
(* are external and modelled from how the code uses them.                  *)
(***************************************************************************)
CONSTANTS
    Flows,          \* operations begun by a page, each one enrolment, unlock or revocation
    Credentials     \* the passkeys of the user

VARIABLES
    live,       \* the credentials that are not revoked
    mappings,   \* [Flows -> the row that the enrolment inserted]
    flow,       \* [Flows -> where the operation stands]
    held,       \* the envelopes of the broker: [id, cred, scope]
    withdrawn,  \* the envelopes it has given up
    revoked     \* history: the ids of envelopes whose revocation was reported to a page

portableVars == <<live, mappings, flow, held, withdrawn, revoked>>

None == "none"

ASSUME NoneAssumption == None \notin Flows \cup Credentials

NoMapping == [state |-> "none", cred |-> None, scope |-> None, envelope |-> None, request |-> None]

NoFlow == [kind |-> "none", at |-> "new", cred |-> None, mapping |-> None, scope |-> None,
           envelope |-> None, after |-> {}]

PortableInit ==
    /\ live = Credentials
    /\ mappings = [f \in Flows |-> NoMapping]
    /\ flow = [f \in Flows |-> NoFlow]
    /\ held = {}
    /\ withdrawn = {}
    /\ revoked = {}

-----------------------------------------------------------------------------

\* The partial unique index lets a credential have one of these at a time.
Current(m) == mappings[m].state \in {"pending", "active"}

\* prepareEnrollment holds the row of the credential from its first statement.
Locked(c) == \E f \in Flows : flow[f].at = "locked" /\ flow[f].cred = c

Moves(f, at) == flow' = [flow EXCEPT ![f].at = at]

\* The page fails, goes away or never gets the answer to its last call; what
\* the call did stays done.
Stop(f) ==
    /\ flow[f].at \notin {"new", "done", "failed"}
    /\ Moves(f, "failed")
    /\ UNCHANGED <<live, mappings, held, withdrawn, revoked>>

\* DELETE of an account passkey.  The mapping is left as it is.
RemovePasskey(c) ==
    /\ c \in live
    /\ ~Locked(c)
    /\ live' = live \ {c}
    /\ UNCHANGED <<mappings, flow, held, withdrawn, revoked>>

\* prepareEnrollment, its first reads: it refuses a credential that is revoked
\* or has an active mapping, and takes a pending one over.
PrepareFinds(f, c) ==
    LET existing == {m \in Flows : Current(m) /\ mappings[m].cred = c} IN
    /\ flow[f].at = "new"
    /\ c \in live
    /\ ~Locked(c)
    /\ \A m \in existing : mappings[m].state = "pending"
    /\ \E m \in IF existing = {} THEN {None} ELSE existing :
           flow' = [flow EXCEPT ![f] = [NoFlow EXCEPT !.kind = "enroll", !.at = "locked",
                                                      !.cred = c, !.mapping = m]]
    /\ UNCHANGED <<live, mappings, held, withdrawn, revoked>>

\* MUTANT: the answer repeats the scope that the page brought along.
OwnScope(f, m) == f

\* The answer has the scope of the page that made the mapping.
AnsweredScope(f, m) == mappings[m].scope

\* It reads the mapping it found again for the answer.
PrepareReuses(f) ==
    LET m == flow[f].mapping IN
    /\ flow[f].at = "locked"
    /\ m # None
    /\ IF Current(m)
       THEN flow' = [flow EXCEPT ![f].at = "ready", ![f].scope = AnsweredScope(f, m)]
       ELSE Moves(f, "failed")
    /\ UNCHANGED <<live, mappings, held, withdrawn, revoked>>

PrepareInserts(f) ==
    /\ flow[f].at = "locked"
    /\ flow[f].mapping = None
    /\ mappings' = [mappings EXCEPT ![f] = [NoMapping EXCEPT !.state = "pending",
                                                !.cred = flow[f].cred, !.scope = f]]
    /\ flow' = [flow EXCEPT ![f].at = "ready", ![f].mapping = f, ![f].scope = f]
    /\ UNCHANGED <<live, held, withdrawn, revoked>>

\* An unlock or a revocation starts from a mapping that the list showed as
\* active when the page read it.
Pick(f, kind, m) ==
    /\ flow[f].at = "new"
    /\ mappings[m].state = "active"
    /\ mappings[m].cred \in live
    /\ flow' = [flow EXCEPT ![f] = [NoFlow EXCEPT !.kind = kind, !.at = "ready",
                   !.cred = mappings[m].cred, !.mapping = m, !.scope = mappings[m].scope,
                   !.envelope = mappings[m].envelope]]
    /\ UNCHANGED <<live, mappings, held, withdrawn, revoked>>

\* requestPortableVaultGrant: the package wants a live credential.
Grant(f) ==
    /\ flow[f].at = "ready"
    /\ flow[f].cred \in live
    /\ flow' = [flow EXCEPT ![f].at = "granted", ![f].after = revoked]
    /\ UNCHANGED <<live, mappings, held, withdrawn, revoked>>

\* The broker stores the package: a new envelope, or, when it has one of the
\* same credential and scope already, perhaps that one.
BrokerEnrolls(f) ==
    LET new == [id |-> f, cred |-> flow[f].cred, scope |-> flow[f].scope] IN
    /\ flow[f].kind = "enroll" /\ flow[f].at = "granted"
    /\ \E e \in {new} \cup {h \in held : h.cred = new.cred /\ h.scope = new.scope} :
           /\ held' = held \cup {e}
           /\ flow' = [flow EXCEPT ![f].at = "answered", ![f].envelope = e.id]
    /\ UNCHANGED <<live, mappings, withdrawn, revoked>>

\* The broker opens an envelope it holds; vault-core refuses another scope.
BrokerUnlocks(f) ==
    /\ flow[f].kind = "unlock" /\ flow[f].at = "granted"
    /\ [id |-> flow[f].envelope, cred |-> flow[f].cred, scope |-> flow[f].scope] \in held
    /\ Moves(f, "bound")
    /\ UNCHANGED <<live, mappings, held, withdrawn, revoked>>

\* The broker gives the envelope up; it may answer alike when it has done so
\* before.
BrokerRevokes(f) ==
    LET gone == {h \in held : h.id = flow[f].envelope} IN
    /\ flow[f].kind = "revoke" /\ flow[f].at = "granted"
    /\ held' = held \ gone
    /\ withdrawn' = withdrawn \cup gone
    /\ Moves(f, "bound")
    /\ UNCHANGED <<live, mappings, revoked>>

\* bindPendingBrokerEnvelope: the first envelope stays, a retry with the same
\* one renews the request.  Another mapping may not have the envelope.
Bind(f) ==
    LET m == flow[f].mapping
        e == flow[f].envelope IN
    /\ flow[f].at = "answered"
    /\ IF /\ mappings[m].state = "pending"
          /\ mappings[m].envelope \in {None, e}
          /\ \A n \in Flows \ {m} : mappings[n].envelope # e
       THEN /\ mappings' = [mappings EXCEPT ![m].envelope = e, ![m].request = f]
            /\ Moves(f, "bound")
       ELSE UNCHANGED mappings /\ Moves(f, "failed")
    /\ UNCHANGED <<live, held, withdrawn, revoked>>

\* The finalize route: the package verifies and consumes the receipt ...
Consume(f) ==
    /\ flow[f].at = "bound"
    /\ Moves(f, "consumed")
    /\ UNCHANGED <<live, mappings, held, withdrawn, revoked>>

\* ... and completeVerifiedReceipt changes the mapping that fits it, if there
\* is one: activateAfterReceipt and revokeAfterReceipt, each one update.
Fits(f, m, state) ==
    /\ mappings[m].state = state
    /\ mappings[m].cred = flow[f].cred
    /\ mappings[m].envelope = flow[f].envelope

CompleteEnroll(f) ==
    LET fit == {m \in Flows : /\ Fits(f, m, "pending")
                              /\ mappings[m].request = f
                              /\ mappings[m].cred \in live} IN
    /\ flow[f].kind = "enroll" /\ flow[f].at = "consumed"
    /\ mappings' = [m \in Flows |-> IF m \in fit THEN [mappings[m] EXCEPT !.state = "active"]
                                    ELSE mappings[m]]
    /\ Moves(f, IF fit = {} THEN "failed" ELSE "completed")
    /\ UNCHANGED <<live, held, withdrawn, revoked>>

CompleteRevoke(f) ==
    LET fit == {m \in Flows : Fits(f, m, "active")} IN
    /\ flow[f].kind = "revoke" /\ flow[f].at = "consumed"
    /\ mappings' = [m \in Flows |-> IF m \in fit THEN [mappings[m] EXCEPT !.state = "revoked"]
                                    ELSE mappings[m]]
    /\ Moves(f, IF fit = {} THEN "failed" ELSE "completed")
    /\ UNCHANGED <<live, held, withdrawn, revoked>>

CompleteUnlock(f) ==
    /\ flow[f].kind = "unlock" /\ flow[f].at = "consumed"
    /\ Moves(f, IF \E m \in Flows : Fits(f, m, "active") /\ mappings[m].cred \in live
                THEN "completed" ELSE "failed")
    /\ UNCHANGED <<live, mappings, held, withdrawn, revoked>>

\* The page has its answer: the enrolment or revocation is reported, the key
\* of the unlock handed over.
Report(f) ==
    /\ flow[f].at = "completed"
    /\ Moves(f, "done")
    /\ revoked' = IF flow[f].kind = "revoke" THEN revoked \cup {flow[f].envelope} ELSE revoked
    /\ UNCHANGED <<live, mappings, held, withdrawn>>

PortableNext ==
    \/ \E f \in Flows :
           \/ \E c \in Credentials : PrepareFinds(f, c)
           \/ PrepareReuses(f) \/ PrepareInserts(f)
           \/ \E kind \in {"unlock", "revoke"}, m \in Flows : Pick(f, kind, m)
           \/ Grant(f) \/ BrokerEnrolls(f) \/ BrokerUnlocks(f) \/ BrokerRevokes(f)
           \/ Bind(f) \/ Consume(f)
           \/ CompleteEnroll(f) \/ CompleteRevoke(f) \/ CompleteUnlock(f)
           \/ Report(f) \/ Stop(f)
    \/ \E c \in Credentials : RemovePasskey(c)

PortableSpec == PortableInit /\ [][PortableNext]_portableVars

-----------------------------------------------------------------------------

Entry(m) == [id |-> mappings[m].envelope, cred |-> mappings[m].cred, scope |-> mappings[m].scope]

\* The broker, the mappings and what the pages were told agree, whatever calls
\* overlap and wherever a page stops.  The envelope of an active mapping is one
\* the broker took for this credential and this scope, so that the broker opens
\* it unless a page has already asked it to give it up.  A revoked mapping has
\* left no envelope behind.  A reported enrolment stands until it is revoked.
\* No unlock that asked for its grant after a revocation was reported ends with
\* the key.  A credential has one current mapping.
\* (prepareEnrollment, bindPendingEnrollment, completeVerifiedReceipt.)
PortableUnlockHolds ==
    /\ \A m \in Flows :
           /\ mappings[m].state = "active" => Entry(m) \in held \cup withdrawn
           /\ mappings[m].state = "revoked" =>
                  \A h \in held : h.id # mappings[m].envelope
    /\ \A m, n \in Flows :
           Current(m) /\ Current(n) /\ mappings[m].cred = mappings[n].cred => m = n
    /\ \A f \in Flows : flow[f].at = "done" =>
           CASE flow[f].kind = "enroll" ->
                    /\ mappings[flow[f].mapping].state \in {"active", "revoked"}
                    /\ mappings[flow[f].mapping].envelope = flow[f].envelope
             [] flow[f].kind = "unlock" -> flow[f].envelope \notin flow[f].after
             [] flow[f].kind = "revoke" -> mappings[flow[f].mapping].state = "revoked"

=============================================================================
