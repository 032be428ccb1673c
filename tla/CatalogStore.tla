---------------------------- MODULE CatalogStore ----------------------------
(***************************************************************************)
(* What the catalog cache promises its readers: one document that saves    *)
(* replace.  A save takes effect once or not at all; once it is            *)
(* acknowledged, what was there before it is gone for good, through any    *)
(* restart; a document the program must not touch stays.                   *)
(***************************************************************************)
EXTENDS Integers

CONSTANTS
    Documents,     \* documents that can be saved
    Others         \* what else can be found: nothing readable, a newer schema

VARIABLES
    value,         \* what a reader finds
    candidates,    \* what it may find after a restart
    base,          \* the candidates there were before the saves now under way
    saving         \* documents whose save is under way

vars == <<value, candidates, base, saving>>

Init ==
    /\ value \in Documents \cup Others
    /\ candidates = {value} /\ base = {value} /\ saving = {}

Begin(d) ==
    /\ d \notin candidates
    /\ saving' = saving \cup {d} /\ candidates' = candidates \cup {d}
    /\ base' = IF saving = {} THEN candidates ELSE base
    /\ UNCHANGED value

\* A save under way takes effect.
Replace ==
    /\ saving # {}
    /\ value' \in candidates
    /\ UNCHANGED <<candidates, base, saving>>

\* A save is acknowledged: neither now nor later is an older document found.
Acknowledge(d) ==
    /\ d \in saving /\ value \notin base
    /\ saving' = saving \ {d}
    /\ candidates' = IF saving = {d} THEN {value} ELSE candidates \ base
    /\ UNCHANGED <<value, base>>

\* A save reports an error: it may have taken effect, or may still after a restart.
Fail(d) ==
    /\ d \in saving
    /\ saving' = saving \ {d}
    /\ UNCHANGED <<value, candidates, base>>

Restart ==
    /\ saving' = {} /\ value' \in candidates
    /\ UNCHANGED <<candidates, base>>

Next ==
    \/ Replace \/ Restart
    \/ \E d \in Documents : Begin(d) \/ Acknowledge(d) \/ Fail(d)

Spec == Init /\ [][Next]_vars
=============================================================================
