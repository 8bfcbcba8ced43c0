--------------------------- MODULE LatestRequest ---------------------------
(***************************************************************************)
(* What src/ expects of an ownership controller, free of how it is made:   *)
(* of all requests that wait for an answer at most one, the latest, is     *)
(* entitled to apply it, and none is once that right was revoked.          *)
(***************************************************************************)
CONSTANT Requests

VARIABLES
    waiting,   \* requests whose answer is awaited
    entitled   \* those of them that may apply it: the latest, or none

Init == waiting = {} /\ entitled = {}

Begin(r) ==
    /\ r \notin waiting
    /\ waiting' = waiting \cup {r}
    /\ entitled' = {r}

Apply(r) ==
    /\ r \in entitled
    /\ waiting' = waiting \ {r}
    /\ entitled' = {}

\* The request ends without applying anything.
Drop(r) ==
    /\ r \in waiting
    /\ waiting' = waiting \ {r}
    /\ entitled' = entitled \ {r}

Revoke ==
    /\ entitled' = {}
    /\ UNCHANGED waiting

Next == Revoke \/ \E r \in Requests : Begin(r) \/ Apply(r) \/ Drop(r)

Spec == Init /\ [][Next]_<<waiting, entitled>>
==========================================================================
