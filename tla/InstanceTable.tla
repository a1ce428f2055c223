----------------------------- MODULE InstanceTable -----------------------------
(***************************************************************************)
(* What an instantiation table promises: a key gets the next row the first *)
(* time it is asked for, keeps that row for ever, and shares it with no    *)
(* other key.                                                              *)
(***************************************************************************)
EXTENDS Naturals, Sequences

CONSTANT Keys

VARIABLE rows           \* the keys, in the order of their rows

Init == rows = <<>>

\* The first request for k.
Add(k) ==
    /\ \A i \in DOMAIN rows : rows[i] # k
    /\ rows' = Append(rows, k)

Next == \E k \in Keys : Add(k)

Spec == Init /\ [][Next]_rows

==============================================================================
