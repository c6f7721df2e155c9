----------------------------- MODULE MCCgrFetch -----------------------------
(* Dictamenes and searches share an id; the cache of dictamenes holds one   *)
(* of two; the second version of the search page is too heavy to cache.     *)
EXTENDS CgrFetch

CONSTANTS dictamenes, search, i1, i2

MCFamily == {dictamenes, search}

MCPage == [family |-> search, id |-> i1]

MCQuery == {[family |-> dictamenes, id |-> i1],
            [family |-> dictamenes, id |-> i2], MCPage}

MCCacheMaxOf == [f \in MCFamily |-> 1]

MCHeavy == {[of |-> MCPage, version |-> 2]}

=============================================================================
