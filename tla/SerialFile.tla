----------------------------- MODULE SerialFile -----------------------------
(***************************************************************************)
(* What a database file promises to those who share it: many read it or    *)
(* one commits to it.  Whoever looks at the file sees the same contents    *)
(* until it looks away, one at a time has changes to make, and they reach  *)
(* the file all together or not at all.                                    *)
(***************************************************************************)

CONSTANTS
    Client,  \* those who share the file
    Change   \* what they write to it

VARIABLES
    file,     \* set of committed changes
    pending,  \* [Client -> set of changes not committed]
    looking   \* the clients that look at the file

vars == <<file, pending, looking>>

Init ==
    /\ file = {}
    /\ pending = [c \in Client |-> {}]
    /\ looking = {}

Look(c) ==
    /\ looking' = looking \cup {c}
    /\ UNCHANGED <<file, pending>>

Make(c, w) ==
    /\ \A d \in Client \ {c} : pending[d] = {}
    /\ looking' = looking \cup {c}
    /\ pending' = [pending EXCEPT ![c] = @ \cup {w}]
    /\ UNCHANGED file

\* Changes are taken back, and with the last one c may look away.
Undo(c, some) ==
    /\ pending' = [pending EXCEPT ![c] = @ \ some]
    /\ \/ UNCHANGED looking
       \/ pending[c] \subseteq some /\ looking' = looking \ {c}
    /\ UNCHANGED file

Commit(c) ==
    /\ looking \subseteq {c}
    /\ file' = file \cup pending[c]
    /\ pending' = [pending EXCEPT ![c] = {}]
    /\ looking' \in SUBSET looking

Next ==
    \E c \in Client :
        \/ Look(c) \/ Commit(c)
        \/ \E w \in Change : Make(c, w)
        \/ \E some \in SUBSET pending[c] : Undo(c, some)

Spec == Init /\ [][Next]_vars
=============================================================================
