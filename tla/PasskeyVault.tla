---------------------------- MODULE PasskeyVault ----------------------------
(***************************************************************************)
(* Passkeys that open the vault, as the server keeps them for one account:  *)
(* credentials, the envelope variants wrapped for them, the bindings that   *)
(* route a browser to a variant, and the single-use challenges and proofs   *)
(* that chain the requests together.                                        *)
(*                                                                          *)
(* A request runs on a slot, one database statement a step.  Transactions   *)
(* are READ COMMITTED: a statement sees what is committed when it runs, and *)
(* the writes of a transaction are taken together at its commit.  Only the  *)
(* row lock of a credential (SELECT ... FOR UPDATE) orders them.            *)
(*                                                                          *)
(* Left out: the WebAuthn signature itself (a sent assertion is genuine),   *)
(* rate limits, audit rows, labels, legacy variants without a credential    *)
(* id (backfilled by a migration), and what the authentication package does *)
(* to an account passkey (turn its sign-in on or off, delete it).           *)
(***************************************************************************)
EXTENDS Integers, FiniteSets

CONSTANTS NumCreds,      \* credentials are 1..NumCreds, in the order of their ids
          SignInCreds,   \* those that also sign in (signInEnabled, written at the registration only)
          Counting,      \* those whose authenticator counts its signatures
          Variants, Bindings, Tokens, Slots, None,
          MaxVariants,   \* MAX_ACTIVE_PASSKEY_ENVELOPE_VARIANTS
          MaxCounter,    \* MAX_WEBAUTHN_SIGNATURE_COUNTER
          MaxAssertions  \* bound: accepted assertions in all

Creds == 1..NumCreds
Kinds == {"unlock", "enroll", "persist", "bind", "disable", "remove"}
ChallengeTypes == {"unlock", "enroll", "envelope", "binding"}

ASSUME PasskeyAssumption ==
    /\ NumCreds \in Nat /\ MaxVariants \in Nat \ {0} /\ MaxCounter \in Nat /\ MaxAssertions \in Nat
    /\ SignInCreds \subseteq Creds /\ Counting \subseteq Creds
    /\ IsFiniteSet(Variants)
    /\ None \notin Creds /\ None \notin Kinds /\ None \notin Variants \cup Bindings \cup Tokens \cup Slots
    /\ None \notin [type : ChallengeTypes, cred : Creds \cup {None}]

VARIABLES cred,        \* the credential rows
          env,         \* the envelope variants
          binding,     \* the browser bindings
          challenge,   \* challenges and proofs not yet consumed
          lockOf,      \* who holds the row lock of a credential
          req,         \* the requests in flight
          device,      \* the signature counter of each authenticator
          late         \* credentials registered while a removal was running

vars == <<cred, env, binding, challenge, lockOf, req, device, late>>
rows == <<cred, env, binding>>

NoCred == [state |-> "absent", vault |-> FALSE, counter |-> 0, rev |-> 0]
Idle == [kind |-> None, pc |-> "idle", cred |-> None, token |-> None,
         variant |-> None, read |-> NoCred, signed |-> 0,
         todo |-> {}, seen |-> {}, seenEnv |-> {}]

Live(c) == cred[c].state = "live"
Active(c) == {v \in Variants : env[v].cred = c /\ env[v].active}
FreeVariants == {v \in Variants : env[v].cred = None}
Outstanding(t, type, c) == challenge[t] = [type |-> type, cred |-> c]
\* A token is drawn at random: never one that is stored or that a request still carries.
FreeTokens == {t \in Tokens : challenge[t] = None /\ \A r \in Slots : req[r].token # t}
\* The assertions accepted so far.
Accepted == UNION {{<<c, n>> : n \in 1..cred[c].rev} : c \in Creds}
Removing == \E r \in Slots : req[r].kind = "remove"

Init ==
    /\ cred = [c \in Creds |-> NoCred]
    /\ env = [v \in Variants |-> [cred |-> None, active |-> FALSE]]
    /\ binding = [b \in Bindings |-> None]
    /\ challenge = [t \in Tokens |-> None]
    /\ lockOf = [c \in Creds |-> None]
    /\ req = [r \in Slots |-> Idle]
    /\ device = [c \in Creds |-> 0]
    /\ late = {}

(***************************************************************************)
(* Steps shared by the requests                                             *)
(***************************************************************************)
\* MUTANT: a plain SELECT, which waits for nobody.
RowFreeAlways(c) == TRUE

\* FOR UPDATE and UPDATE wait while another transaction has locked the row.
RowFree(c) == lockOf[c] = None

\* MUTANT: the challenge is found but stays in the table.
ConsumedKept(t) == challenge

\* The DELETE that consumes a challenge.
Consumed(t) == [challenge EXCEPT ![t] = None]

Start(r, request) ==
    /\ req[r].pc = "idle"
    /\ req' = [req EXCEPT ![r] = request]

Goto(r, pc) == req' = [req EXCEPT ![r].pc = pc]
Finish(r) == req' = [req EXCEPT ![r] = Idle]
Release(r) == lockOf' = [c \in Creds |-> IF lockOf[c] = r THEN None ELSE lockOf[c]]
Store(type, c) == \E t \in FreeTokens :
    challenge' = [challenge EXCEPT ![t] = [type |-> type, cred |-> c]]

\* The counter an authenticator signs next; one that does not count always signs 0.
Signed(c) == IF c \in Counting THEN device[c] + 1 ELSE 0
Sign(c) == /\ Signed(c) <= MaxCounter
           /\ device' = [device EXCEPT ![c] = Signed(c)]

CounterPlan(stored, next) ==
    CASE stored = 0 /\ next = 0               -> "counterless"
      [] next > stored /\ next <= MaxCounter       -> "advance"
      [] OTHER                                -> "invalid"

(***************************************************************************)
(* Registration and challenges                                              *)
(***************************************************************************)

\* verifyRegistration for a vault-only passkey; an account passkey is registered by
\* the authentication package.  Neither opens the vault before an envelope exists.
RegisterCredential(c) ==
    /\ cred[c].state = "absent"
    /\ cred' = [cred EXCEPT ![c].state = "live"]
    /\ late' = IF Removing THEN late \cup {c} ELSE late
    /\ UNCHANGED <<env, binding, challenge, lockOf, req, device>>

\* Authentication options: any credential with an active envelope may answer an
\* unlock challenge, one credential alone an enrolment challenge.
UnlockOptions ==
    /\ \E c \in Creds : Live(c) /\ cred[c].vault /\ Active(c) # {}
    /\ Store("unlock", None)
    /\ UNCHANGED <<cred, env, binding, lockOf, req, device, late>>

EnrollOptions(c) ==
    /\ Live(c)
    /\ Store("enroll", c)
    /\ UNCHANGED <<cred, env, binding, lockOf, req, device, late>>

\* After an account sign-in the server hands out the candidates of that passkey.
LoginCandidates(c) ==
    /\ Live(c) /\ cred[c].vault
    /\ Cardinality(Active(c)) \in 1..MaxVariants
    /\ Store("binding", c)
    /\ UNCHANGED <<cred, env, binding, lockOf, req, device, late>>

\* A challenge is valid for five minutes; expired ones are deleted.
Expire(t) ==
    /\ challenge[t] # None
    /\ challenge' = Consumed(t)
    /\ UNCHANGED <<rows, lockOf, req, device, late>>

(***************************************************************************)
(* Requests: the first statement                                            *)
(***************************************************************************)

\* verifyAuthentication consumes the challenge and then reads the credential; nothing
\* it has read before can be stale, so the two are one step.
SendUnlock(r, c, t) ==
    /\ Sign(c)
    /\ cred[c].state # "absent"
    /\ Outstanding(t, "unlock", None)
    /\ challenge' = Consumed(t)
    /\ IF Live(c)
       THEN Start(r, [Idle EXCEPT !.kind = "unlock", !.pc = "advance", !.cred = c,
                                  !.read = cred[c], !.signed = Signed(c)])
       ELSE req[r].pc = "idle" /\ UNCHANGED req
    /\ UNCHANGED <<rows, lockOf, late>>

\* The other requests read the credential first and consume their proof after it.
SendEnroll(r, c, t) ==
    /\ Live(c) /\ Sign(c)
    /\ Outstanding(t, "enroll", c)
    /\ Start(r, [Idle EXCEPT !.kind = "enroll", !.pc = "consume", !.cred = c, !.token = t,
                             !.read = cred[c], !.signed = Signed(c)])
    /\ UNCHANGED <<rows, challenge, lockOf, late>>

SendPersist(r, c, t) ==
    /\ Live(c)
    /\ Outstanding(t, "envelope", c)
    /\ Start(r, [Idle EXCEPT !.kind = "persist", !.pc = "consume", !.cred = c, !.token = t])
    /\ UNCHANGED <<rows, challenge, lockOf, device, late>>

SendBind(r, c, t, v) ==
    /\ Live(c) /\ cred[c].vault
    /\ Outstanding(t, "binding", c)
    /\ env[v].cred = c
    /\ Start(r, [Idle EXCEPT !.kind = "bind", !.pc = "consume", !.cred = c, !.token = t,
                             !.variant = v])
    /\ UNCHANGED <<rows, challenge, lockOf, device, late>>

SendDisable(r, c, t, v) ==
    /\ Live(c)
    /\ Outstanding(t, "binding", c)
    /\ env[v].cred = c
    /\ Start(r, [Idle EXCEPT !.kind = "disable", !.pc = "consume", !.cred = c, !.token = t,
                             !.variant = v])
    /\ UNCHANGED <<rows, challenge, lockOf, device, late>>

\* The removal of every vault passkey lists the credentials it is going to lock.
SendRemoveAll(r) ==
    /\ Start(r, [Idle EXCEPT !.kind = "remove", !.pc = "locking",
                             !.todo = {c \in Creds : Live(c)}])
    /\ UNCHANGED <<rows, challenge, lockOf, device, late>>

(***************************************************************************)
(* Challenges and counters                                                  *)
(***************************************************************************)
Audience(kind) ==
    CASE kind = "enroll"  -> "enroll"
      [] kind = "persist" -> "envelope"
      [] OTHER            -> "binding"

\* consumeValidChallenge: one DELETE ... RETURNING, so only one request gets the row.
Consume(r) ==
    LET q == req[r] IN
    /\ q.pc = "consume"
    /\ IF Outstanding(q.token, Audience(q.kind), q.cred)
       THEN /\ challenge' = Consumed(q.token)
            /\ req' = [req EXCEPT ![r].token = None,
                                  ![r].pc = IF q.kind = "enroll" THEN "advance" ELSE "lock"]
       ELSE /\ Finish(r)
            /\ UNCHANGED challenge
    /\ UNCHANGED <<rows, lockOf, device, late>>

\* MUTANT: the counter is written without comparing it with the one read.
AcceptedUncompared(r) ==
    /\ CounterPlan(req[r].read.counter, req[r].signed) # "invalid"
    /\ Live(req[r].cred)

\* advanceCounter is a compare-and-set on the counter and its revision.
AcceptedNow(r) ==
    LET q == req[r] IN
    /\ CounterPlan(q.read.counter, q.signed) # "invalid"
    /\ Live(q.cred)
    /\ cred[q.cred].counter = q.read.counter
    /\ cred[q.cred].rev = q.read.rev

AdvanceCounter(r) ==
    LET q == req[r]
        c == q.cred
    IN
    /\ q.pc = "advance"
    /\ RowFree(c)
    /\ IF AcceptedNow(r)
       THEN /\ Cardinality(Accepted) < MaxAssertions
            /\ cred' = [cred EXCEPT ![c].counter = q.signed, ![c].rev = @ + 1]
            /\ req' = [req EXCEPT ![r].pc = "issue", ![r].signed = 0,
                                  ![r].read = [NoCred EXCEPT !.vault = @ \/ q.read.vault]]
       ELSE /\ Finish(r)
            /\ UNCHANGED cred
    /\ UNCHANGED <<env, binding, challenge, lockOf, device, late>>

\* The proof the next request needs.  An unlock is refused when the credential, as it
\* was read, does not open the vault, or has no or too many variants by now.
IssueProof(r) ==
    LET q == req[r]
        refused == /\ q.kind = "unlock"
                   /\ \/ ~q.read.vault
                      \/ Cardinality(Active(q.cred)) \notin 1..MaxVariants
    IN
    /\ q.pc = "issue"
    /\ IF refused
       THEN UNCHANGED challenge
       ELSE Store(IF q.kind = "enroll" THEN "envelope" ELSE "binding", q.cred)
    /\ Finish(r)
    /\ UNCHANGED <<rows, lockOf, device, late>>

(***************************************************************************)
(* Transactions under the lock of one credential                            *)
(***************************************************************************)
\* What a transaction checks once it has the lock: persist counts the active variants,
\* bind and disable need theirs to be active still.
GoesOn(r) ==
    LET q == req[r] IN
    IF q.kind = "persist" THEN Cardinality(Active(q.cred)) < MaxVariants
                          ELSE q.variant \in Active(q.cred)

LockAndRead(r) ==
    LET c == req[r].cred IN
    /\ req[r].pc = "lock"
    /\ RowFree(c)
    /\ IF GoesOn(r)
       THEN Goto(r, "commit") /\ lockOf' = [lockOf EXCEPT ![c] = r]
       ELSE Finish(r) /\ UNCHANGED lockOf
    /\ UNCHANGED <<rows, challenge, device, late>>

\* The flags are set where the credential is not revoked; nobody looks at the result.
CommitPersist(r) ==
    LET c == req[r].cred IN
    /\ req[r].pc = "commit" /\ req[r].kind = "persist"
    /\ \E v \in FreeVariants : env' = [env EXCEPT ![v] = [cred |-> c, active |-> TRUE]]
    /\ cred' = [cred EXCEPT ![c].vault = @ \/ Live(c)]
    /\ Release(r)
    /\ Goto(r, "issue")
    /\ UNCHANGED <<binding, challenge, device, late>>

\* bindPasskeyToDevice moves the binding the browser's cookie names, or makes one.
CommitBind(r) ==
    LET q == req[r] IN
    /\ req[r].pc = "commit" /\ req[r].kind = "bind"
    /\ \E b \in Bindings :
           binding' = [binding EXCEPT ![b] = [cred |-> q.cred, variant |-> q.variant]]
    /\ Release(r)
    /\ Finish(r)
    /\ UNCHANGED <<cred, env, challenge, device, late>>

\* MUTANT: the credential keeps no state a row can have.
RetireDeletes(row, c) ==
    IF c \in SignInCreds THEN [row EXCEPT !.vault = FALSE]
                         ELSE [row EXCEPT !.state = "deleted"]

\* A vault-only credential is revoked, one that also signs in only loses the vault.
Retire(row, c) ==
    IF c \in SignInCreds THEN [row EXCEPT !.vault = FALSE]
                         ELSE [row EXCEPT !.state = "revoked"]

CommitDisable(r) ==
    LET c == req[r].cred IN
    /\ req[r].pc = "commit" /\ req[r].kind = "disable"
    /\ env' = [v \in Variants |-> IF v \in Active(c) THEN [env[v] EXCEPT !.active = FALSE]
                                                     ELSE env[v]]
    /\ binding' = [b \in Bindings |-> IF binding[b] # None /\ binding[b].cred = c
                                      THEN None ELSE binding[b]]
    /\ cred' = [cred EXCEPT ![c] = Retire(@, c)]
    /\ Release(r)
    /\ Finish(r)
    /\ UNCHANGED <<challenge, device, late>>

(***************************************************************************)
(* Removal of every vault passkey: one transaction                          *)
(***************************************************************************)

\* MUTANT: the rows are locked in the order the query returns them, which is any.
NextRowUnsorted(todo) == todo

\* The locks are taken in the order of the ids.
NextRow(todo) == {c \in todo : \A d \in todo : c <= d}

LockNext(r) ==
    /\ req[r].pc = "locking"
    /\ \E c \in NextRow(req[r].todo) :
           /\ RowFree(c)
           /\ lockOf' = [lockOf EXCEPT ![c] = r]
           /\ req' = [req EXCEPT ![r].todo = @ \ {c}]
    /\ UNCHANGED <<rows, challenge, device, late>>

VaultCredentials == {c \in Creds : Live(c) /\ cred[c].vault}

\* With every lock held the credentials are read again.
ReadAgain(r) ==
    /\ req[r].pc = "locking" /\ req[r].todo = {}
    /\ req' = [req EXCEPT ![r].pc = "envelopes", ![r].seen = VaultCredentials]
    /\ UNCHANGED <<rows, challenge, lockOf, device, late>>

\* MUTANT: only the envelopes of credentials that stay are revoked.
EnvelopesToRevokeSeen(r) == {v \in Variants : env[v].active /\ env[v].cred \in SignInCreds}

EnvelopesToRevoke(r) == {v \in Variants : env[v].active}

ReadEnvelopes(r) ==
    LET active == EnvelopesToRevoke(r) IN
    /\ req[r].pc = "envelopes"
    /\ IF req[r].seen = {} /\ active = {}
       THEN Finish(r) /\ Release(r)
       ELSE /\ req' = [req EXCEPT ![r].pc = "commit", ![r].seenEnv = active]
            /\ UNCHANGED lockOf
    /\ UNCHANGED <<rows, challenge, device, late>>

\* The update of a credential waits for its row and locks it; one revoked by then is skipped.
\* The rows are updated as the second read returns them, in no order.
UpdateRow(r) ==
    /\ req[r].pc = "commit" /\ req[r].kind = "remove"
    /\ \E c \in req[r].seen : Live(c) /\ RowFree(c) /\ lockOf' = [lockOf EXCEPT ![c] = r]
    /\ UNCHANGED <<rows, challenge, req, device, late>>

\* Every binding of the account goes, also those made since the reads.
CommitRemoval(r) ==
    LET q == req[r] IN
    /\ q.pc = "commit" /\ q.kind = "remove"
    /\ \A c \in q.seen : lockOf[c] = r \/ (RowFree(c) /\ ~Live(c))
    /\ cred' = [c \in Creds |-> IF c \in q.seen THEN Retire(cred[c], c) ELSE cred[c]]
    /\ env' = [v \in Variants |-> IF v \in q.seenEnv THEN [env[v] EXCEPT !.active = FALSE]
                                                     ELSE env[v]]
    /\ binding' = [b \in Bindings |-> None]
    /\ Release(r)
    /\ Finish(r)
    /\ UNCHANGED <<challenge, device, late>>

\* This browser forgets its binding; credential and variants stay.
Unbind(b) ==
    /\ binding[b] # None
    /\ binding' = [binding EXCEPT ![b] = None]
    /\ UNCHANGED <<cred, env, challenge, lockOf, req, device, late>>

\* The process or the connection is lost: an open transaction is rolled back.
Crash(r) ==
    /\ req[r].pc # "idle"
    /\ Release(r)
    /\ Finish(r)
    /\ UNCHANGED <<rows, challenge, device, late>>

Work(r) ==
    \/ Consume(r) \/ AdvanceCounter(r) \/ IssueProof(r)
    \/ LockAndRead(r)
    \/ CommitPersist(r) \/ CommitBind(r) \/ CommitDisable(r)
    \/ LockNext(r) \/ ReadAgain(r) \/ ReadEnvelopes(r)
    \/ UpdateRow(r) \/ CommitRemoval(r)

Send(r) ==
    \/ SendRemoveAll(r)
    \/ \E c \in Creds, t \in Tokens :
          \/ SendUnlock(r, c, t) \/ SendEnroll(r, c, t) \/ SendPersist(r, c, t)
          \/ \E v \in Variants : SendBind(r, c, t, v) \/ SendDisable(r, c, t, v)

Next ==
    \/ \E c \in Creds : RegisterCredential(c) \/ EnrollOptions(c) \/ LoginCandidates(c)
    \/ UnlockOptions
    \/ \E t \in Tokens : Expire(t)
    \/ \E b \in Bindings : Unbind(b)
    \/ \E r \in Slots : Send(r) \/ Work(r) \/ Crash(r)

Spec == Init /\ [][Next]_vars

-----------------------------------------------------------------------------
Rows == [state : {"absent", "live", "revoked"}, vault : BOOLEAN,
         counter : Nat, rev : 0..MaxAssertions]
Requests == [kind : Kinds \cup {None},
             pc : {"idle", "consume", "advance", "issue", "lock", "commit",
                   "locking", "envelopes"},
             cred : Creds \cup {None}, token : Tokens \cup {None},
             variant : Variants \cup {None}, read : Rows, signed : Nat,
             todo : SUBSET Creds, seen : SUBSET Creds, seenEnv : SUBSET Variants]

TypeOK ==
    /\ cred \in [Creds -> Rows]
    /\ env \in [Variants -> [cred : Creds \cup {None}, active : BOOLEAN]]
    /\ binding \in [Bindings -> [cred : Creds, variant : Variants] \cup {None}]
    /\ challenge \in [Tokens -> [type : ChallengeTypes, cred : Creds \cup {None}] \cup {None}]
    /\ lockOf \in [Creds -> Slots \cup {None}]
    /\ req \in [Slots -> Requests]
    /\ device \in [Creds -> Nat]
    /\ late \subseteq Creds

\* A credential never has more active variants than an unlock accepts, however many
\* enrolments are persisted at once: one more and verifyAuthentication refuses the
\* passkey for good (passkey-service.ts, "too many active envelope variants").
VariantsFitTheCandidateSet == \A c \in Creds : Cardinality(Active(c)) <= MaxVariants

\* A browser is only ever routed to a live vault passkey and an active variant of it,
\* while bindings, disablings and removals overlap.  The one gap: a credential
\* registered during a removal is not among those the removal has locked.
BindingsRouteToActiveVariants ==
    \A b \in Bindings : binding[b] # None =>
        LET c == binding[b].cred IN
        c \notin late => Live(c) /\ cred[c].vault /\ binding[b].variant \in Active(c)

\* The flag that offers a passkey for unlocking and the variants it needs agree.
FlagMeansVariants ==
    \A c \in Creds \ late : Live(c) => (cred[c].vault <=> Active(c) # {})

\* What the requests of one account leave in its tables fits together, in every order.
PasskeyRowsAgree ==
    /\ VariantsFitTheCandidateSet
    /\ BindingsRouteToActiveVariants
    /\ FlagMeansVariants

\* Every variant was wrapped after an accepted assertion of its own: no challenge and
\* no enrolment proof serves twice (the revision counts the accepted assertions).
VariantsAreConfirmed ==
    \A c \in Creds : Cardinality({v \in Variants : env[v].cred = c}) <= cred[c].rev

\* The request r has come to the row of c and cannot go on while another one holds it.
WaitsFor(r, c) ==
    \/ req[r].pc \in {"advance", "lock"} /\ c = req[r].cred
    \/ req[r].pc = "locking" /\ c \in NextRow(req[r].todo)
    \/ req[r].pc = "commit" /\ req[r].kind = "remove" /\ c \in req[r].seen

\* No two requests wait for each other's rows, so the database never has to abort one:
\* two removals lock in the same order.  The one gap: a credential registered during a
\* removal and found by its second read is updated without having been locked in order.
NoCircularWait ==
    \A r, s \in Slots : r # s =>
        \A c, d \in Creds :
            WaitsFor(r, c) /\ lockOf[c] = s /\ WaitsFor(s, d) /\ lockOf[d] = r =>
                \/ req[r].pc = "commit" /\ c \in late
                \/ req[s].pc = "commit" /\ d \in late

\* Two assertions are never accepted against the same stored counter: the counter of a
\* counting authenticator only grows, and every acceptance moves the revision by one.
AssertionsInOrder ==
    [][\A c \in Creds :
          /\ cred'[c].rev # cred[c].rev => cred'[c].rev = cred[c].rev + 1
          /\ cred'[c].counter >= cred[c].counter
          /\ cred'[c].rev = cred[c].rev => cred'[c].counter = cred[c].counter
          /\ cred'[c].rev # cred[c].rev /\ c \in Counting =>
                 cred'[c].counter > cred[c].counter]_vars

\* "An in-flight enable or append that completed before this reset is included in the
\* reset": what a removal leaves active belongs to a credential registered meanwhile,
\* or to one already revoked whose enrolment was under way.
RemovalIsComplete ==
    [][\A r \in Slots : CommitRemoval(r) =>
          \A v \in Variants : env'[v].active =>
              env[v].cred \in late \/ ~Live(env[v].cred)]_vars
=============================================================================
