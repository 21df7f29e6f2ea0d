----------------------------- MODULE MCIdSearchEngine -----------------------------
(***************************************************************************)
(* Ids of six to eight digits in base 2 that lose two digits at either end *)
(* at most.                                                                *)
(***************************************************************************)
EXTENDS IdSearchEngine

\* Lists with and without duplicates, shorter and longer than half the table.
MCBatches == {<<154, 33>>, <<33, 71, 33, 51>>, <<51, 45, 90, 154, 60, 45>>}

\* What is left of an id that has lost up to T digits at either end, when it is
\* long enough to be searched for, a text that is in the middle of an id that is
\* longer, and one that is too long.
MCFragments ==
    {text \in {SubSeq(Digits(id), 1 + left, base10_len(id) - right) :
                    id \in Ids, left \in 0..T, right \in 0..T} :
        base10_len(FuzzyMatchedId(text).number) >= 2 * T}
    \cup {<<1, 1, 0, 1>>, <<1, 0, 0, 1, 0, 0, 1, 1, 0>>}
=============================================================================
