------------------------------ MODULE LawPages ------------------------------
(***************************************************************************)
(* search_laws: the paging of LeyChile's search.  The service sends its    *)
(* total as a number, a string, a float, or not at all, and FlexInt makes  *)
(* one integer of them.  Nothing is cached, filtered or capped.            *)
(***************************************************************************)
EXTENDS Integers, Sequences

CONSTANTS defaultSize,  \* 10: page_size when none, or one out of range, is asked
          maxSize       \* 50: the largest page_size

ASSUME LawPagesAssumption == /\ maxSize \in Nat
                             /\ defaultSize \in 1..maxSize

\* How buscarjson writes a number on the wire.
Wire == {"number", "string", "float", "null", "empty"}

\* FlexInt: null and the empty string decode to zero.
FlexInt(wire, n) == IF wire \in {"null", "empty"} THEN 0 ELSE n

NormalPage(page) == IF page < 1 THEN 1 ELSE page

NormalSize(size) == IF size \in 1..maxSize THEN size ELSE defaultSize

\* A slip: rounds down, so a last page that is not full is not counted.
lawTotalPagesFull(total, size) == IF total < size THEN 1 ELSE total \div size

lawTotalPages(total, size) ==
  LET pages == (total + size - 1) \div size
  IN  IF pages < 1 THEN 1 ELSE pages

\* The page of a ranking the service sends: npagina and itemsporpagina are
\* the normalised arguments.
LawPage(ranking, page, size) ==
  LET from == (page - 1) * size
  IN  SubSeq(ranking, from + 1, IF Len(ranking) < from + size THEN Len(ranking)
                                                             ELSE from + size)
=============================================================================
