---------------------------------- MODULE IdSet ----------------------------------
(***************************************************************************)
(* What SnowflakeIdSearchEngine promises its callers: it is a set of ids,  *)
(* and each call answers what a set would answer.                          *)
(***************************************************************************)
EXTENDS FiniteSets, Sequences

CONSTANTS
    Ids,        \* the ids that are used
    Batches     \* the sequences of ids that are added together

VARIABLES
    ids,        \* the ids in the set
    last        \* the last call, with its answer

vars == <<ids, last>>

Init == ids = {} /\ last = <<"new">>

AddId(id) ==
    /\ ids' = ids \cup {id}
    /\ last' = <<"add", id, id \notin ids>>

RemoveId(id) ==
    /\ ids' = ids \ {id}
    /\ last' = <<"remove", id, id \in ids>>

ContainsId(id) ==
    /\ last' = <<"contains", id, id \in ids>>
    /\ UNCHANGED ids

Extend(batch) ==
    /\ ids' = ids \cup {batch[i] : i \in DOMAIN batch}
    /\ last' = <<"extend", batch, Cardinality(ids')>>

\* Comparing with the set of a batch.
Compare(batch) ==
    /\ last' = <<"equal", batch, ids = {batch[i] : i \in DOMAIN batch}>>
    /\ UNCHANGED ids

Next ==
    \/ \E id \in Ids : AddId(id) \/ RemoveId(id) \/ ContainsId(id)
    \/ \E batch \in Batches : Extend(batch) \/ Compare(batch)

Spec == Init /\ [][Next]_vars
=============================================================================
