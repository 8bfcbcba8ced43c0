------------------------- MODULE EnvelopeRegister -------------------------
(***************************************************************************)
(* What the vault service promises about a user's envelopes, in one step   *)
(* per request: a setup brings one envelope of each serialized method, a   *)
(* replacement exchanges one active envelope for a new one and never       *)
(* leaves the user without, and other methods may only swap or add one.    *)
(***************************************************************************)
EXTENDS FiniteSets

CONSTANTS
    Methods,      \* unlock methods
    Serialized,   \* those whose replacement is serialized
    Tickets       \* one per request that may succeed

VARIABLES
    vaults,       \* the vaults the user has
    current       \* the envelopes of each method that unlock

vars == <<vaults, current>>

Init ==
    /\ vaults = {}
    /\ current = [m \in Methods |-> {}]

Setup(t) ==
    /\ t \notin vaults
    /\ vaults' = vaults \cup {t}
    /\ current' = [m \in Methods |-> IF m \in Serialized THEN current[m] \cup {t} ELSE current[m]]

Replace(t, m) ==
    /\ t \notin current[m]
    /\ \E old \in current[m] : current' = [current EXCEPT ![m] = (@ \ {old}) \cup {t}]
    /\ UNCHANGED vaults

Store(t, m) ==
    /\ t \notin current[m]
    /\ \/ current' = [current EXCEPT ![m] = @ \cup {t}]
       \/ \E old \in current[m] : current' = [current EXCEPT ![m] = (@ \ {old}) \cup {t}]
    /\ UNCHANGED vaults

Next ==
    \E t \in Tickets :
        \/ Setup(t)
        \/ \E m \in Serialized : Replace(t, m)
        \/ \E m \in Methods \ Serialized : Store(t, m)

Spec == Init /\ [][Next]_vars
===========================================================================
