------------------------------ MODULE Sublists ------------------------------
(***************************************************************************)
(* Array.prototype.filter: what is kept of an array, in its order.         *)
(* SelectSeq says the same; this form is one that the proofs can unfold.   *)
(***************************************************************************)
EXTENDS Naturals, Sequences

Members(s) == {s[i] : i \in DOMAIN s}

\* For each i, what is kept of the first i members: those of S.
KeptOf(s, S) ==
    LET kept[i \in 0 .. Len(s)] ==
            IF i = 0 THEN << >>
            ELSE IF s[i] \in S THEN Append(kept[i - 1], s[i]) ELSE kept[i - 1]
    IN  kept

\* An array all of whose members stay is kept as it is, which TLC finds sooner.
Keep(s, S) == IF Members(s) \subseteq S THEN s ELSE KeptOf(s, S)[Len(s)]
=============================================================================
