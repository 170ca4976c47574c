---------------------------- MODULE ModelBreaker ----------------------------
(***************************************************************************)
(* utils/breaker.go: the set of waiters with their places in the queue,    *)
(* and who may pass how long after the allowed time.                       *)
(*                                                                         *)
(* A querySet is a record of the slice items and the map index.  Places    *)
(* are counted from 0 as in the code, the sequence from 1.                 *)
(***************************************************************************)
EXTENDS Integers, Sequences

EmptyQuerySet == [items |-> <<>>, index |-> <<>>]

Has(qs, id) == id \in DOMAIN qs.index

\* Add.
Add(qs, id) ==
  IF Has(qs, id) THEN qs
  ELSE [items |-> Append(qs.items, id),
        index |-> [x \in DOMAIN qs.index \cup {id} |->
                     IF x = id THEN Len(qs.items) ELSE qs.index[x]]]

\* Faulty: the waiter moved into the free place keeps its old index.
RemoveWithoutReindex(qs, id) ==
  IF ~Has(qs, id) THEN qs
  ELSE [items |-> [i \in 1..Len(qs.items) - 1 |->
                     IF i = qs.index[id] + 1 THEN qs.items[Len(qs.items)] ELSE qs.items[i]],
        index |-> [x \in DOMAIN qs.index \ {id} |-> qs.index[x]]]

\* Remove: the last waiter takes the place of the one that leaves.
Remove(qs, id) ==
  IF ~Has(qs, id) THEN qs
  ELSE LET last == qs.items[Len(qs.items)]
       IN [items |-> [i \in 1..Len(qs.items) - 1 |->
                        IF i = qs.index[id] + 1 THEN last ELSE qs.items[i]],
           index |-> [x \in DOMAIN qs.index \ {id} |->
                        IF x = last THEN qs.index[id] ELSE qs.index[x]]]

\* Query: 0 for one that is not there.
Query(qs, id) == IF Has(qs, id) THEN qs.index[id] ELSE 0

\* items and index say the same: every waiter has one place, and every place one waiter.
Consistent(qs) ==
  /\ DOMAIN qs.index = {qs.items[i] : i \in DOMAIN qs.items}
  /\ \A i \in DOMAIN qs.items : qs.index[qs.items[i]] = i - 1

\* allow, t half-seconds after the allowed time: all after openAfter of them (10 s), before
\* that those in the first 2^(t/2) places: twice as many after every second.
Allow(qs, id, t, openAfter) ==
  \/ t > openAfter
  \/ t > 0 /\ Query(qs, id) * Query(qs, id) < 2 ^ t
=============================================================================
