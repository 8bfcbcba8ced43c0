-------------------------- MODULE VaultEnvelopes --------------------------
(***************************************************************************)
(* The vault and the envelopes of one user, changed by concurrent requests *)
(* (modules/vault/services/vault-service.ts and                            *)
(* modules/vault/repositories/vault-repository.ts).                        *)
(*                                                                         *)
(* Each request checks outside of any transaction, then runs one           *)
(* transaction under READ COMMITTED, whose writes are seen when it commits *)
(* and none of which are seen when it aborts.  Replacing a password or a   *)
(* recovery phrase holds a transaction-level advisory lock; setting up a   *)
(* vault and storing a recovery code hold none, and no unique index stands *)
(* behind the checks.                                                      *)
(*                                                                         *)
(* A request is one POST or PUT.  The vault and the envelopes it inserts   *)
(* carry its name, and the vault key made for a setup is named after it.   *)
(***************************************************************************)
EXTENDS FiniteSets

CONSTANTS
    Requests,
    Nobody       \* no request

ASSUME EnvelopesAssumption ==
    /\ Nobody \notin Requests
    /\ IsFiniteSet(Requests)

Serialized == {"password", "recovery_phrase"}
Methods    == Serialized \cup {"recovery_code"}

VARIABLES
    vaults,      \* the rows of user_vaults
    active,      \* the rows of vault_envelopes that are not revoked, by method
    wraps,       \* the vault key inside the envelopes of each request
    lock,        \* the holder of pg_advisory_xact_lock(user:method)
    req

envelopeVars == <<vaults, active, wraps, lock, req>>

Kinds == Methods \cup {"setup"}

Fresh == [pc |-> "idle", kind |-> "setup", found |-> Nobody]

\* "checked": the vault was looked up; "locked": the advisory lock is held; "found": the active
\* envelope was looked up; "done": answered.
ReqStates == [pc : {"idle", "checked", "locked", "found", "done"},
              kind : Kinds, found : Requests \cup {Nobody}]

EnvelopesInit ==
    /\ vaults = {}
    /\ active = [m \in Methods |-> {}]
    /\ wraps = [r \in Requests |-> Nobody]
    /\ lock = [m \in Serialized |-> Nobody]
    /\ req = [r \in Requests |-> Fresh]

At(r, pc) == req[r].pc = pc
---------------------------------------------------------------------------
\* vaultService.setup finds no vault.  The client has just generated the key.
CheckNoVault(r) ==
    /\ At(r, "idle")
    /\ vaults = {}
    /\ req' = [req EXCEPT ![r].pc = "checked", ![r].kind = "setup"]
    /\ wraps' = [wraps EXCEPT ![r] = r]
    /\ UNCHANGED <<vaults, active, lock>>

\* A replacement finds a vault.  The client has wrapped the key its session holds.
CheckVault(r, m, k) ==
    /\ At(r, "idle")
    /\ k \in vaults
    /\ req' = [req EXCEPT ![r].pc = "checked", ![r].kind = m]
    /\ wraps' = [wraps EXCEPT ![r] = k]
    /\ UNCHANGED <<vaults, active, lock>>

\* MUTANT: the lock is taken without waiting for its holder.
TakeLockAnyway(r) ==
    /\ At(r, "checked")
    /\ req[r].kind \in Serialized
    /\ lock' = [lock EXCEPT ![req[r].kind] = r]
    /\ req' = [req EXCEPT ![r].pc = "locked"]
    /\ UNCHANGED <<vaults, active, wraps>>

\* lockEnvelopeMutation: the transaction has begun and waits for the lock.
TakeLock(r) ==
    /\ At(r, "checked")
    /\ req[r].kind \in Serialized
    /\ lock[req[r].kind] = Nobody
    /\ lock' = [lock EXCEPT ![req[r].kind] = r]
    /\ req' = [req EXCEPT ![r].pc = "locked"]
    /\ UNCHANGED <<vaults, active, wraps>>

\* findActiveEnvelopeByMethod inside the transaction: some active envelope, or NotFoundError.
FindLocked(r) ==
    /\ At(r, "locked")
    /\ \E e \in active[req[r].kind] :
         req' = [req EXCEPT ![r].pc = "found", ![r].found = e]
    /\ UNCHANGED <<vaults, active, wraps, lock>>

\* storeRecoveryCode looks the envelope up without a lock and goes on when there is none.
FindCode(r) ==
    /\ At(r, "checked")
    /\ req[r].kind = "recovery_code"
    /\ \E e \in active["recovery_code"] \cup {Nobody} :
         /\ e = Nobody => active["recovery_code"] = {}
         /\ req' = [req EXCEPT ![r].pc = "found", ![r].found = e]
    /\ UNCHANGED <<vaults, active, wraps, lock>>

\* The advisory lock goes with the transaction.
Released(r) == [m \in Serialized |-> IF lock[m] = r THEN Nobody ELSE lock[m]]

\* MUTANT: the lock of a failed transaction stays with the session.
FailKeepsLock(r) ==
    /\ req[r].pc \in {"checked", "locked", "found"}
    /\ req' = [req EXCEPT ![r].pc = "done"]
    /\ UNCHANGED <<vaults, active, wraps, lock>>

\* A statement fails, an envelope is missing, or the server or its connection goes away.
Fail(r) ==
    /\ req[r].pc \in {"checked", "locked", "found"}
    /\ req' = [req EXCEPT ![r].pc = "done"]
    /\ lock' = Released(r)
    /\ UNCHANGED <<vaults, active, wraps>>

\* One vault, one password envelope and one recovery phrase envelope.
CommitSetup(r) ==
    /\ At(r, "checked")
    /\ req[r].kind = "setup"
    /\ vaults' = vaults \cup {r}
    /\ active' = [m \in Methods |-> IF m \in Serialized THEN active[m] \cup {r} ELSE active[m]]
    /\ req' = [req EXCEPT ![r].pc = "done"]
    /\ UNCHANGED <<wraps, lock>>

\* MUTANT: the previous envelope is not revoked.
SucceedsUnrevoked(r) ==
    active' = [active EXCEPT ![req[r].kind] = @ \cup {r}]

\* revokeEnvelope and createEnvelope.
Succeeds(r) ==
    active' = [active EXCEPT ![req[r].kind] = (@ \ {req[r].found}) \cup {r}]

CommitReplace(r) ==
    /\ At(r, "found")
    /\ Succeeds(r)
    /\ req' = [req EXCEPT ![r].pc = "done"]
    /\ lock' = Released(r)
    /\ UNCHANGED <<vaults, wraps>>

EnvelopesNext ==
    \E r \in Requests :
        \/ CheckNoVault(r)
        \/ \E m \in Methods, k \in Requests : CheckVault(r, m, k)
        \/ TakeLock(r) \/ FindLocked(r) \/ FindCode(r)
        \/ Fail(r) \/ CommitSetup(r) \/ CommitReplace(r)

EnvelopesSpec == EnvelopesInit /\ [][EnvelopesNext]_envelopeVars
---------------------------------------------------------------------------
\* The lock of a method is held exactly by a transaction of that method that is under way.
EnvelopesTypeOK ==
    /\ vaults \subseteq Requests
    /\ active \in [Methods -> SUBSET Requests]
    /\ wraps \in [Requests -> Requests \cup {Nobody}]
    /\ lock \in [Serialized -> Requests \cup {Nobody}]
    /\ req \in [Requests -> ReqStates]
    /\ \A m \in Serialized, r \in Requests :
         lock[m] = r <=> req[r].kind = m /\ req[r].pc \in {"locked", "found"}

\* Replacements in concurrent tabs never leave two active successors and never leave none:
\* however requests interleave, fail or race, a user has as many active password envelopes,
\* and as many active recovery phrase envelopes, as setups have succeeded.
OneEnvelopePerSetup ==
    \A m \in Serialized : Cardinality(active[m]) = Cardinality(vaults)

\* Password and recovery phrase envelopes unlock the same User Vault Key.
EnvelopesUnlockOneKey ==
    \A m1, m2 \in Serialized : \A e1 \in active[m1], e2 \in active[m2] : wraps[e1] = wraps[e2]

Register == INSTANCE EnvelopeRegister WITH Tickets <- Requests, current <- active

\* Every request takes effect in one step or not at all (runInTransaction, and the lock for
\* password and recovery phrase): what a reader of the envelopes sees is the register.
ActsAsRegister == Register!Spec
===========================================================================
