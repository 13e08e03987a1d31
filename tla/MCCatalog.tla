------------------------------ MODULE MCCatalog ------------------------------
(* TLC instance of Catalog: ten prices, enough for a tree of three levels. *)
EXTENDS Catalog

MCIds == 1..10
Offer(price, category) == [price |-> price, category |-> category]
\* One product moves between two prices, one changes its category only.
MCOffers == [p \in MCIds |->
  {Offer(p, "a")} \cup (IF p = 4 THEN {Offer(5, "a")} ELSE {})
                  \cup (IF p = 5 THEN {Offer(5, "b")} ELSE {})]

Query(lo, hi, category, size) == [lo |-> lo, hi |-> hi, category |-> category, size |-> size]
MCQueries == {Query(1, 10, "", 2), Query(1, 10, "", 3), Query(4, 6, "", 1), Query(5, 5, "", 1),
              Query(2, 9, "a", 2), Query(3, 8, "b", 1), Query(7, 10, "", 20), Query(6, 5, "", 2)}
=============================================================================
