--------------------------- MODULE ReserveCatalog ---------------------------
(***************************************************************************)
(* What the pool's list of reserves promises its users.  Their flag words  *)
(* and the walk over positions name a reserve by its place in the list, so *)
(* a place once given is never given to another and never taken back, and  *)
(* no reserve has two.                                                     *)
(***************************************************************************)
EXTENDS Naturals, Sequences

CONSTANTS Entry, Capacity

VARIABLE catalog

Init == catalog = << >>

Add(e) ==
    /\ Len(catalog) < Capacity
    /\ \A i \in 1..Len(catalog) : catalog[i] # e
    /\ catalog' = Append(catalog, e)

Next == \E e \in Entry : Add(e)

Spec == Init /\ [][Next]_catalog

=============================================================================
