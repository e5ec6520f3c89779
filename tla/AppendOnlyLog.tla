--------------------------- MODULE AppendOnlyLog ----------------------------
(***************************************************************************)
(* What the issuance log promises its readers: a list of entries without   *)
(* holes that only ever grows at its end, and in which nothing that was    *)
(* once written changes or disappears.                                     *)
(***************************************************************************)
EXTENDS Integers

VARIABLE log      \* a function from the indices in use to entries

\* The indices in use are 0, 1, ... without a hole.
Contiguous(l) == \A i \in DOMAIN l : i \in Nat /\ 0..i \subseteq DOMAIN l

Init == DOMAIN log = {}

\* Entries go to the end; those already there stay as they are.
AppendBatch ==
    /\ DOMAIN log # DOMAIN log'
    /\ DOMAIN log \subseteq DOMAIN log'
    /\ Contiguous(log')
    /\ \A i \in DOMAIN log : log'[i] = log[i]

Spec == Init /\ [][AppendBatch]_log
=============================================================================
