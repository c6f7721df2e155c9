------------------------- MODULE TextDeliveryProofs -------------------------
(***************************************************************************)
(* The parts of a document fit together for every document, budget, margin *)
(* and order of requests; the snippet of a section shows its match for     *)
(* every section, query, window and cap; sanitizing takes only noise away, *)
(* from every text.                                                        *)
(***************************************************************************)
EXTENDS TextDelivery, SequenceTheorems, FiniteSetTheorems, WellFoundedInduction, TLAPS

\* What a whole pagination of the document looks like.  Paginate is a
\* function of the document and the budget, so there is one at most.
IsPagination(P) ==
    /\ P # << >>
    /\ P[1].start = 0
    /\ \A i \in 1..Len(P) : P[i].end = CutAfter(doc, budget, P[i].start)
    /\ \A i \in 1..(Len(P) - 1) : /\ P[i + 1].start = P[i].end
                                  /\ P[i].end < Len(doc)
    /\ P[Len(P)].end = Len(doc)

Paginations == {P \in Seq(Page) : IsPagination(P)}

\* A request under way is for a part from 1 on; the loop is for documents
\* that are not empty.
Requested == /\ pc # "ready" => part >= 1
             /\ pc = "loop" => doc # << >>

\* Every part ends where the code cuts, inside the document; an empty
\* document has one part.
Cuts == /\ \A i \in 1..Len(parts) :
              /\ parts[i].end = CutAfter(doc, budget, parts[i].start)
              /\ parts[i].end <= Len(doc)
        /\ doc = << >> => Len(parts) <= 1

\* The parts so far begin every pagination of the document.
Begun == \A P \in Paginations : /\ Len(parts) <= Len(P)
                                /\ \A i \in 1..Len(parts) : parts[i] = P[i]

\* What was served, or refused, was so by every pagination ...
Served == \A P \in Paginations :
             /\ \A p \in served : /\ p.part \in 1..Len(P)
                                  /\ p.total = Len(P)
                                  /\ p.start = P[p.part].start
                                  /\ p.end = P[p.part].end
             /\ \A r \in refused : r < 1 \/ r > Len(P)

\* ... and there is one, once a page was served.
SomePagination == served # {} => Paginations # {}

IInv == /\ TypeOK
        /\ Requested
        /\ PartsTile
        /\ Cuts
        /\ Begun
        /\ Served
        /\ SomePagination

-----------------------------------------------------------------------------
(* Arithmetic of the cuts.                                                 *)

Less == {p \in Nat \X Nat : p[1] < p[2]}

\* A non-empty set of naturals has a least element: the CHOOSE of
\* roundToParagraph has a value.
LEMMA LeastNatural ==
    ASSUME NEW S \in SUBSET Nat, S # {}
    PROVE  \E m \in S : \A n \in S : m <= n
<1>1. IsWellFoundedOn(Less, Nat)
  BY NatLessThanWellFounded DEF OpToRel, Less
<1>2. PICK m \in S : \A n \in S : <<n, m>> \notin Less
  BY <1>1, WFMin
<1>3. ASSUME NEW n \in S
      PROVE  m <= n
  <2>1. m \in Nat /\ n \in Nat
    OBVIOUS
  <2>2. n < m => <<n, m>> \in Less
    BY <2>1 DEF Less
  <2>3. QED
    BY <1>2, <2>1, <2>2
<1>4. QED
  BY <1>3

\* EffectiveBudget turns every budget into a positive one.
LEMMA BudgetPositive ==
    ASSUME NEW b \in Budgets
    PROVE  EffectiveBudget(b) \in Nat \ {0}
BY PaginationAssumption DEF EffectiveBudget

\* roundToParagraph moves a cut forward, by the margin at most and not past
\* the document: to just after a paragraph break, or not at all when none
\* begins within reach.
LEMMA RoundProperties ==
    ASSUME NEW d \in Seq(Rune), NEW end \in Nat, end < Len(d)
    PROVE  LET cut == roundToParagraph(d, end) IN
           /\ cut \in end..Len(d)
           /\ cut <= end + paragraphMargin
           /\ \/ cut >= 2 /\ BreakAt(d, cut - 2)
              \/ /\ cut = end
                 /\ \A j \in end..(end + paragraphMargin - 2) :
                       j + 2 <= Len(d) => ~BreakAt(d, j)
<1> DEFINE B == BreaksAfter(d, end)
           last == Lesser(end + paragraphMargin, Len(d)) - 2
           cut == roundToParagraph(d, end)
<1>1. /\ Len(d) \in Nat /\ paragraphMargin \in Nat /\ last \in Int
      /\ last + 2 <= Len(d) /\ last + 2 <= end + paragraphMargin
  BY PaginationAssumption DEF Lesser
<1>2. \A j \in Nat : j >= end /\ j <= end + paragraphMargin - 2 /\ j + 2 <= Len(d)
                        => j \in end..last
  BY <1>1 DEF Lesser
<1>3. CASE B = {}
  <2>1. cut = end
    BY <1>3 DEF roundToParagraph
  <2>2. ASSUME NEW j \in end..(end + paragraphMargin - 2), j + 2 <= Len(d)
        PROVE  ~BreakAt(d, j)
    <3>1. j \in end..last
      BY <1>1, <1>2, <2>2
    <3>2. QED
      BY <1>3, <3>1 DEF BreaksAfter
  <2>3. QED
    BY <1>1, <2>1, <2>2
<1>4. CASE B # {}
  <2> DEFINE i == CHOOSE i \in B : \A j \in B : i <= j
  <2>1. B \subseteq Nat
    BY <1>1 DEF BreaksAfter
  <2>2. i \in B
    BY <1>4, <2>1, LeastNatural
  <2>3. cut = 2 + i
    BY <1>4 DEF roundToParagraph
  <2> HIDE DEF i, cut
  <2>4. i \in end..last /\ BreakAt(d, i)
    BY <2>2 DEF BreaksAfter
  <2>5. i \in Nat /\ i >= end /\ i <= last /\ cut - 2 = i
    BY <1>1, <2>3, <2>4
  <2>6. QED
    BY <1>1, <2>3, <2>4, <2>5 DEF cut
<1>5. QED
  BY <1>3, <1>4

\* A turn of the loop advances, stays in the document, and cuts as
\* PartsBounded and CutsAtParagraph promise.
LEMMA CutProperties ==
    ASSUME NEW d \in Seq(Rune), NEW b \in Budgets,
           NEW s \in Nat, s < Len(d)
    PROVE  LET cut == CutAfter(d, b, s) IN
           /\ cut \in (s + 1)..Len(d)
           /\ cut - s <= EffectiveBudget(b) + paragraphMargin
           /\ cut < Len(d) =>
                 \/ cut >= 2 /\ BreakAt(d, cut - 2)
                 \/ /\ cut = s + EffectiveBudget(b)
                    /\ \A j \in cut..(cut + paragraphMargin - 2) :
                          j + 2 <= Len(d) => ~BreakAt(d, j)
<1> DEFINE e == EffectiveBudget(b)
           cut == CutAfter(d, b, s)
<1>1. e \in Nat \ {0} /\ Len(d) \in Nat /\ paragraphMargin \in Nat
  BY BudgetPositive, PaginationAssumption
<1>2. CASE s + e >= Len(d)
  BY <1>1, <1>2 DEF CutAfter
<1>3. CASE s + e < Len(d)
  <2>1. cut = roundToParagraph(d, s + e) /\ s + e \in Nat
    BY <1>1, <1>3 DEF CutAfter
  <2> HIDE DEF cut, e
  <2>2. /\ cut \in (s + e)..Len(d)
        /\ cut <= s + e + paragraphMargin
        /\ \/ cut >= 2 /\ BreakAt(d, cut - 2)
           \/ /\ cut = s + e
              /\ \A j \in (s + e)..(s + e + paragraphMargin - 2) :
                    j + 2 <= Len(d) => ~BreakAt(d, j)
    BY <1>3, <2>1, RoundProperties
  <2>3. cut \in (s + 1)..Len(d) /\ cut - s <= e + paragraphMargin
    BY <1>1, <2>2
  <2>4. QED
    BY <2>2, <2>3 DEF cut, e
<1>4. QED
  BY <1>1, <1>2, <1>3

-----------------------------------------------------------------------------
(* Type correctness, and what the invariants are about when the document   *)
(* and the budget stay.                                                    *)

\* What no action changes: documents are immutable, a reader sticks to one
\* budget, so paginations stay the same.
LEMMA SamePaginations ==
    ASSUME UNCHANGED <<doc, budget>>
    PROVE  Paginations' = Paginations
BY DEF Paginations, IsPagination, CutAfter, EffectiveBudget, roundToParagraph,
       BreaksAfter, BreakAt

\* A cut of a document and budget that stay is the same cut.
LEMMA SameCut ==
    ASSUME UNCHANGED <<doc, budget>>, NEW s
    PROVE  CutAfter(doc, budget, s)' = CutAfter(doc, budget, s)
BY DEF CutAfter, EffectiveBudget, roundToParagraph, BreaksAfter, BreakAt

\* Before the first request there are no parts and no pages.
LEMMA InitInv == Init => IInv
<1> SUFFICES ASSUME Init
             PROVE  IInv
  OBVIOUS
<1> USE DEF Init
<1>1. TypeOK
  BY DEF TypeOK
<1>2. Requested
  BY DEF Requested
<1>3. PartsTile
  BY DEF PartsTile, EndOf
<1>4. Cuts
  BY DEF Cuts
<1>5. Begun
  <2> SUFFICES ASSUME NEW P \in Paginations
               PROVE  Len(parts) <= Len(P)
    BY DEF Begun
  <2>1. P \in Seq(Page)
    BY DEF Paginations
  <2>2. QED
    BY <2>1
<1>6. Served /\ SomePagination
  BY DEF Served, SomePagination
<1>7. QED
  BY <1>1, <1>2, <1>3, <1>4, <1>5, <1>6 DEF IInv

\* Asking begins a pagination: of no parts, or of the one part of an empty
\* document.
LEMMA AskInv ==
    ASSUME IInv, NEW p \in Parts, Ask(p)
    PROVE  IInv'
<1> DEFINE whole == [start |-> 0, end |-> 0]
<1>0. /\ TypeOK /\ Served /\ SomePagination
      /\ p \in Int /\ Len(doc) \in Nat /\ budget \in Budgets
      /\ UNCHANGED <<doc, budget, served, refused>>
      /\ part' \in Nat \ {0}
      /\ start' = 0
      /\ whole \in Page
  BY PaginationAssumption DEF IInv, TypeOK, Ask, Page
<1>1. CASE doc = << >>
  <2>1. pc' = "serve" /\ parts' = <<whole>> /\ Len(doc) = 0
    BY <1>1 DEF Ask
  <2>2. parts' \in Seq(Page) /\ Len(parts') = 1 /\ parts'[1] = whole
    BY <1>0, <2>1
  <2>3. CutAfter(doc, budget, 0) = 0
    BY <1>0, <2>1, BudgetPositive DEF CutAfter
  <2>4. TypeOK'
    BY <1>0, <2>1, <2>2 DEF TypeOK
  <2>5. Requested'
    BY <1>0, <2>1 DEF Requested
  <2>6. PartsTile'
    BY <1>0, <1>1, <2>1, <2>2 DEF PartsTile, StartOf, EndOf
  <2>7. Cuts'
    <3>1. CutAfter(doc, budget, 0)' = CutAfter(doc, budget, 0)
      BY <1>0, SameCut
    <3>2. \A i \in 1..Len(parts') : i = 1
      BY <2>2
    <3>3. QED
      BY <1>0, <2>1, <2>2, <2>3, <3>1, <3>2 DEF Cuts
  <2>8. Begun'
    <3> SUFFICES ASSUME NEW P \in Paginations
                 PROVE  Len(P) >= 1 /\ P[1] = whole
      BY <1>0, <2>2, SamePaginations DEF Begun
    <3>1. P \in Seq(Page) /\ IsPagination(P)
      BY DEF Paginations
    <3>2. P[1] \in Page /\ P[1].start = 0 /\ P[1].end = 0 /\ Len(P) >= 1
      BY <2>3, <3>1 DEF IsPagination
    <3>3. QED
      BY <3>2 DEF Page
  <2>9. Served' /\ SomePagination'
    BY <1>0, SamePaginations DEF Served, SomePagination
  <2>10. QED
    BY <2>4, <2>5, <2>6, <2>7, <2>8, <2>9 DEF IInv
<1>2. CASE doc # << >>
  <2>1. pc' = "loop" /\ parts' = << >>
    BY <1>2 DEF Ask
  <2>2. parts' \in Seq(Page) /\ Len(parts') = 0
    BY <2>1
  <2>3. TypeOK'
    BY <1>0, <2>1, <2>2 DEF TypeOK
  <2>4. Requested'
    BY <1>0, <1>2, <2>1 DEF Requested
  <2>5. PartsTile' /\ Cuts'
    BY <1>0, <2>1, <2>2 DEF PartsTile, EndOf, Cuts
  <2>6. Begun'
    <3> SUFFICES ASSUME NEW P \in Paginations
                 PROVE  Len(P) >= 0
      BY <1>0, <2>2, SamePaginations DEF Begun
    <3>1. P \in Seq(Page)
      BY DEF Paginations
    <3>2. QED
      BY <3>1
  <2>7. Served' /\ SomePagination'
    BY <1>0, SamePaginations DEF Served, SomePagination
  <2>8. QED
    BY <2>3, <2>4, <2>5, <2>6, <2>7 DEF IInv
<1>3. QED
  BY <1>1, <1>2

\* What a step keeps that leaves the parts alone.
LEMMA SameParts ==
    ASSUME IInv, UNCHANGED <<doc, budget, start, parts>>
    PROVE  /\ Cuts'
           /\ Begun'
           /\ Paginations' = Paginations
           /\ (pc' = "serve" => start = Len(doc) /\ parts # << >>) => PartsTile'
<1>1. Cuts'
  BY SameCut DEF IInv, Cuts
<1>2. Begun' /\ Paginations' = Paginations
  BY SamePaginations DEF IInv, Begun
<1>3. (pc' = "serve" => start = Len(doc) /\ parts # << >>) => PartsTile'
  BY DEF IInv, PartsTile, StartOf, EndOf
<1>4. QED
  BY <1>1, <1>2, <1>3

\* A refused part below 1 is in no pagination.
LEMMA AskInvalidInv ==
    ASSUME IInv, NEW p \in Parts, AskInvalid(p)
    PROVE  IInv'
<1>1. /\ p \in Int /\ p < 0 /\ refused' = refused \cup {p}
      /\ pc = "ready"
      /\ UNCHANGED <<doc, budget, pc, part, start, parts, served>>
  BY PaginationAssumption DEF AskInvalid
<1>2. TypeOK' /\ Requested'
  BY <1>1 DEF IInv, TypeOK, Requested
<1>3. Cuts' /\ Begun' /\ PartsTile' /\ Paginations' = Paginations
  BY <1>1, SameParts
<1>4. Served' /\ SomePagination'
  BY <1>1, <1>3 DEF IInv, Served, SomePagination
<1>5. QED
  BY <1>2, <1>3, <1>4 DEF IInv

\* A turn of the loop appends the part that comes next in every pagination.
LEMMA TurnInv ==
    ASSUME IInv, Turn
    PROVE  IInv'
<1>a. PICK n : n = Len(parts)
  OBVIOUS
<1>b. PICK cut : cut = CutAfter(doc, budget, start)
  OBVIOUS
<1>c. PICK next : next = [start |-> start, end |-> cut]
  OBVIOUS
<1>1. /\ TypeOK /\ PartsTile /\ Cuts /\ Begun /\ Requested
      /\ Served /\ SomePagination
      /\ pc = "loop" /\ start < Len(doc)
      /\ parts' = Append(parts, next)
      /\ start' = cut
      /\ UNCHANGED <<doc, budget, pc, part, served, refused>>
  BY <1>b, <1>c DEF Turn, IInv
<1>2. /\ doc \in Seq(Rune) /\ Len(doc) \in Nat /\ n \in Nat /\ start \in Nat
      /\ parts \in Seq(Page) /\ budget \in Budgets /\ doc # << >>
  BY <1>1, <1>a DEF TypeOK
<1>3. cut \in (start + 1)..Len(doc)
  BY <1>1, <1>2, <1>b, CutProperties
<1>4. next \in Page /\ next.start = start /\ next.end = cut
  BY <1>2, <1>3, <1>c DEF Page
<1>5. /\ parts' \in Seq(Page) /\ Len(parts') = n + 1
      /\ parts'[n + 1] = next
      /\ \A i \in 1..n : parts'[i] = parts[i]
  BY <1>1, <1>2, <1>4, <1>a
<1>6. \A i \in 1..Len(parts') : i = n + 1 \/ i \in 1..n
  BY <1>2, <1>5
<1>7. start = EndOf(n)
  BY <1>1, <1>a DEF PartsTile
<1>8. TypeOK'
  BY <1>1, <1>2, <1>3, <1>5 DEF TypeOK
<1>9. Requested'
  BY <1>1 DEF Requested
<1>10. PartsTile'
  <2>1. StartOf(n + 1)' = start
    BY <1>2, <1>5, <1>7 DEF StartOf, EndOf
  <2>2. \A i \in 1..n : StartOf(i)' = StartOf(i)
    BY <1>2, <1>5 DEF StartOf
  <2>3. EndOf(n + 1)' = cut
    BY <1>2, <1>4, <1>5 DEF EndOf
  <2>4. ASSUME NEW i \in 1..Len(parts')
        PROVE  /\ parts'[i].start = StartOf(i)'
               /\ parts'[i].start < parts'[i].end
    <3>1. CASE i = n + 1
      BY <1>2, <1>3, <1>4, <1>5, <2>1, <3>1
    <3>2. CASE i \in 1..n
      BY <1>1, <1>2, <1>5, <1>a, <2>2, <3>2 DEF PartsTile
    <3>3. QED
      BY <1>6, <3>1, <3>2
  <2>5. \A i \in 1..Len(parts') : parts'[i].start \in Nat /\ parts'[i].end \in Nat
    <3>1. \A i \in 1..Len(parts') : parts'[i] \in Page
      BY <1>5, ElementOfSeq
    <3>2. QED
      BY <3>1 DEF Page
  <2>6. \A i \in 1..Len(parts') : parts'[i].start <= parts'[i].end
    BY <2>4, <2>5
  <2>7. start' = EndOf(Len(parts))'
    BY <1>1, <1>5, <2>3
  <2>8. QED
    BY <1>1, <2>4, <2>6, <2>7 DEF PartsTile
<1>11. Cuts'
  <2>1. ASSUME NEW i \in 1..Len(parts')
        PROVE  /\ parts'[i].end = CutAfter(doc, budget, parts'[i].start)
               /\ parts'[i].end <= Len(doc)
    <3>1. CASE i = n + 1
      BY <1>2, <1>3, <1>4, <1>5, <1>b, <3>1
    <3>2. CASE i \in 1..n
      BY <1>1, <1>5, <1>a, <3>2 DEF Cuts
    <3>3. QED
      BY <1>6, <3>1, <3>2
  <2>2. QED
    BY <1>1, <1>2, <2>1 DEF Cuts
<1>12. Begun'
  <2> SUFFICES ASSUME NEW P \in Paginations
               PROVE  /\ n + 1 <= Len(P)
                      /\ \A i \in 1..Len(parts') : parts'[i] = P[i]
    BY <1>1, <1>5, SamePaginations DEF Begun
  <2>1. P \in Seq(Page) /\ IsPagination(P) /\ Len(P) \in Nat
    BY DEF Paginations
  <2>2. n <= Len(P) /\ \A i \in 1..n : parts[i] = P[i]
    BY <1>1, <1>a DEF Begun
  <2>3. Len(P) >= 1
    BY <2>1 DEF IsPagination
  <2>4. n # Len(P)
    <3> SUFFICES ASSUME n = Len(P)
                 PROVE  FALSE
      OBVIOUS
    <3>1. parts[n].end = Len(doc)
      BY <1>2, <2>1, <2>2, <2>3 DEF IsPagination
    <3>2. start = parts[n].end
      BY <1>7, <2>3 DEF EndOf
    <3>3. QED
      BY <1>1, <1>2, <3>1, <3>2
  <2>5. n + 1 \in 1..Len(P) /\ P[n + 1] \in Page
    BY <1>2, <2>1, <2>2, <2>4
  <2>6. P[n + 1].start = start
    <3>1. CASE n = 0
      BY <1>7, <2>1, <3>1 DEF EndOf, IsPagination
    <3>2. CASE n # 0
      <4>1. n \in 1..(Len(P) - 1) /\ n \in 1..n
        BY <1>2, <2>1, <2>5, <3>2
      <4>2. P[n + 1].start = P[n].end
        BY <2>1, <4>1 DEF IsPagination
      <4>3. QED
        BY <1>7, <2>2, <3>2, <4>1, <4>2 DEF EndOf
    <3>3. QED
      BY <3>1, <3>2
  <2>7. P[n + 1].end = cut
    BY <1>b, <2>1, <2>5, <2>6 DEF IsPagination
  <2>8. P[n + 1] = next
    BY <1>c, <2>5, <2>6, <2>7 DEF Page
  <2>9. QED
    BY <1>5, <1>6, <2>2, <2>5, <2>8
<1>13. Served' /\ SomePagination'
  BY <1>1, SamePaginations DEF Served, SomePagination
<1>14. QED
  BY <1>8, <1>9, <1>10, <1>11, <1>12, <1>13 DEF IInv

\* The loop is over when it has reached the end of the document.
LEMMA LoopEndsInv ==
    ASSUME IInv, LoopEnds
    PROVE  IInv'
<1>1. /\ TypeOK /\ PartsTile /\ Requested
      /\ pc = "loop" /\ start >= Len(doc) /\ pc' = "serve"
      /\ UNCHANGED <<doc, budget, part, start, parts, served, refused>>
  BY DEF LoopEnds, IInv
<1>2. TypeOK' /\ Requested'
  BY <1>1 DEF TypeOK, Requested
<1>3. start = Len(doc) /\ parts # << >>
  <2>1. start = Len(doc) /\ Len(doc) > 0
    BY <1>1 DEF TypeOK, Requested
  <2>2. start = EndOf(Len(parts))
    BY <1>1 DEF PartsTile
  <2>3. QED
    BY <2>1, <2>2 DEF EndOf
<1>4. Cuts' /\ Begun' /\ PartsTile' /\ Paginations' = Paginations
  BY <1>1, <1>3, SameParts
<1>5. Served' /\ SomePagination'
  BY <1>1, <1>4 DEF IInv, Served, SomePagination
<1>6. QED
  BY <1>2, <1>4, <1>5 DEF IInv

\* When the loop is over the parts are a pagination, and every pagination.
LEMMA PartsArePagination ==
    ASSUME IInv, pc = "serve"
    PROVE  /\ parts \in Paginations
           /\ \A P \in Paginations : P = parts
<1> DEFINE n == Len(parts)
<1>1. /\ TypeOK /\ PartsTile /\ Cuts /\ Begun
      /\ parts \in Seq(Page) /\ n \in Nat /\ Len(doc) \in Nat
  BY DEF IInv, TypeOK
<1>2. parts # << >> /\ n >= 1 /\ start = Len(doc) /\ parts[n].end = Len(doc)
  BY <1>1 DEF PartsTile, EndOf
<1>3. parts[1].start = 0
  BY <1>1, <1>2 DEF PartsTile, StartOf
<1>4. ASSUME NEW i \in 1..(n - 1)
      PROVE  parts[i + 1].start = parts[i].end /\ parts[i].end < Len(doc)
  <2>1. i + 1 \in 1..n /\ i + 1 # 1 /\ i \in 1..n
    BY <1>1
  <2>2. parts[i + 1].start = parts[i].end
    BY <1>1, <2>1 DEF PartsTile, StartOf
  <2>3. doc # << >>
    BY <1>1 DEF Cuts
  <2>4. /\ parts[i + 1].start < parts[i + 1].end /\ parts[i + 1].end <= Len(doc)
        /\ parts[i + 1] \in Page
    BY <1>1, <2>1, <2>3 DEF PartsTile, Cuts
  <2>5. QED
    BY <1>1, <2>2, <2>4 DEF Page
<1>5. parts \in Paginations
  BY <1>1, <1>2, <1>3, <1>4 DEF Paginations, IsPagination, Cuts
<1>6. ASSUME NEW P \in Paginations
      PROVE  P = parts
  <2>1. P \in Seq(Page) /\ IsPagination(P) /\ Len(P) \in Nat
    BY DEF Paginations
  <2>2. n <= Len(P) /\ \A i \in 1..n : parts[i] = P[i]
    BY <1>1 DEF Begun
  <2>3. ~(n < Len(P))
    <3> SUFFICES ASSUME n < Len(P)
                 PROVE  FALSE
      OBVIOUS
    <3>1. n \in 1..(Len(P) - 1) /\ n \in 1..n
      BY <1>1, <1>2, <2>1
    <3>2. P[n].end < Len(doc)
      BY <2>1, <3>1 DEF IsPagination
    <3>3. QED
      BY <1>1, <1>2, <2>2, <3>1, <3>2
  <2>4. Len(P) = n
    BY <1>1, <2>1, <2>2, <2>3
  <2>5. QED
    BY <1>1, <2>1, <2>2, <2>4, SeqEqual
<1>7. QED
  BY <1>5, <1>6

\* The page that goes out is a part of the pagination, and says so.
LEMMA ServeInv ==
    ASSUME IInv, Serve
    PROVE  IInv'
<1>a. PICK page : page = [part |-> part, total |-> Len(parts),
                          start |-> parts[part].start, end |-> parts[part].end]
  OBVIOUS
<1>1. /\ TypeOK /\ Requested /\ PartsTile /\ Served
      /\ pc = "serve" /\ part <= Len(parts) /\ pc' = "ready"
      /\ served' = served \cup {page}
      /\ UNCHANGED <<doc, budget, part, start, parts, refused>>
  BY <1>a DEF Serve, IInv
<1>2. part \in 1..Len(parts) /\ parts \in Seq(Page) /\ Len(parts) \in Nat
  BY <1>1 DEF TypeOK, Requested
<1>3. page \in ServedPage
  <2>1. parts[part] \in Page
    BY <1>2, ElementOfSeq
  <2>2. QED
    BY <1>2, <1>a, <2>1 DEF Page, ServedPage
<1>4. TypeOK' /\ Requested'
  BY <1>1, <1>3 DEF TypeOK, Requested
<1>5. Cuts' /\ Begun' /\ PartsTile' /\ Paginations' = Paginations
  BY <1>1, SameParts
<1>6. parts \in Paginations /\ \A P \in Paginations : P = parts
  BY <1>1, PartsArePagination
<1>7. Served'
  <2>1. /\ page.part \in 1..Len(parts)
        /\ page.total = Len(parts)
        /\ page.start = parts[page.part].start
        /\ page.end = parts[page.part].end
    BY <1>2, <1>a
  <2>2. ASSUME NEW P \in Paginations
        PROVE  /\ \A p \in served' : /\ p.part \in 1..Len(P)
                                     /\ p.total = Len(P)
                                     /\ p.start = P[p.part].start
                                     /\ p.end = P[p.part].end
               /\ \A r \in refused' : r < 1 \/ r > Len(P)
    <3>1. P = parts
      BY <1>6
    <3>2. \A p \in served' : p \in served \/ p = page
      BY <1>1
    <3>3. QED
      BY <1>1, <2>1, <3>1, <3>2 DEF Served
  <2>3. QED
    BY <1>5, <2>2 DEF Served
<1>8. SomePagination'
  BY <1>5, <1>6 DEF SomePagination
<1>9. QED
  BY <1>4, <1>5, <1>7, <1>8 DEF IInv

\* A part is refused when the pagination has none of that number.
LEMMA RefuseInv ==
    ASSUME IInv, Refuse
    PROVE  IInv'
<1>1. /\ TypeOK /\ Requested /\ PartsTile /\ Served /\ SomePagination
      /\ pc = "serve" /\ part > Len(parts) /\ pc' = "ready"
      /\ refused' = refused \cup {part}
      /\ UNCHANGED <<doc, budget, part, start, parts, served>>
  BY DEF Refuse, IInv
<1>2. TypeOK' /\ Requested'
  BY <1>1 DEF TypeOK, Requested
<1>3. Cuts' /\ Begun' /\ PartsTile' /\ Paginations' = Paginations
  BY <1>1, SameParts
<1>4. parts \in Paginations /\ \A P \in Paginations : P = parts
  BY <1>1, PartsArePagination
<1>5. Served' /\ SomePagination'
  BY <1>1, <1>3, <1>4 DEF Served, SomePagination
<1>6. QED
  BY <1>2, <1>3, <1>5 DEF IInv

\* The invariant is inductive.
LEMMA StepInv == IInv /\ [Next]_vars => IInv'
<1> SUFFICES ASSUME IInv, [Next]_vars
             PROVE  IInv'
  OBVIOUS
<1>1. ASSUME NEW p \in Parts, AskInvalid(p)
      PROVE  IInv'
  BY <1>1, AskInvalidInv
<1>2. ASSUME NEW p \in Parts, Ask(p)
      PROVE  IInv'
  BY <1>2, AskInv
<1>3. CASE Turn
  BY <1>3, TurnInv
<1>4. CASE LoopEnds
  BY <1>4, LoopEndsInv
<1>5. CASE Serve
  BY <1>5, ServeInv
<1>6. CASE Refuse
  BY <1>6, RefuseInv
<1>7. CASE UNCHANGED vars
  <2>1. UNCHANGED <<doc, budget, pc, part, start, parts, served, refused>>
    BY <1>7 DEF vars
  <2>2. Cuts' /\ Begun' /\ Paginations' = Paginations
    BY <2>1, SameParts
  <2>3. PartsTile'
    BY <2>1 DEF IInv, PartsTile, StartOf, EndOf
  <2>4. TypeOK' /\ Requested' /\ Served' /\ SomePagination'
    BY <2>1, <2>2 DEF IInv, TypeOK, Requested, Served, SomePagination
  <2>5. QED
    BY <2>2, <2>3, <2>4 DEF IInv
<1>8. QED
  BY <1>1, <1>2, <1>3, <1>4, <1>5, <1>6, <1>7 DEF Next

\* The invariant holds in every state.
LEMMA Invariance == Spec => []IInv
BY InitInv, StepInv, PTL DEF Spec

-----------------------------------------------------------------------------
(* What follows from it.                                                   *)

\* Offsets, counters and ranges have their types: no slice of the document's
\* runes is out of range.
THEOREM PaginationTypeCorrect == Spec => []TypeOK
<1>1. IInv => TypeOK
  BY DEF IInv
<1>2. QED
  BY <1>1, Invariance, PTL

\* Parts leave no gap, do not overlap, advance, and cover the document.
THEOREM PartsAlwaysTile == Spec => []PartsTile
<1>1. IInv => PartsTile
  BY DEF IInv
<1>2. QED
  BY <1>1, Invariance, PTL

\* No part starts at the end of the document, unless that is empty: what the
\* lemma about cuts is to be applied to.
LEMMA PartsInside ==
    ASSUME IInv, NEW i \in 1..Len(parts)
    PROVE  /\ parts[i] \in Page
           /\ parts[i].end = CutAfter(doc, budget, parts[i].start)
           /\ parts[i].end <= Len(doc)
           /\ doc # << >> => parts[i].start < Len(doc)
           /\ doc = << >> => parts[i].start = 0 /\ parts[i].end = 0
<1>1. /\ TypeOK /\ PartsTile /\ Cuts /\ parts \in Seq(Page)
      /\ Len(doc) \in Nat /\ Len(parts) \in Nat
  BY DEF IInv, TypeOK
<1>2. parts[i] \in Page /\ parts[i].start \in Nat /\ parts[i].end \in Nat
  <2>1. parts[i] \in Page
    BY <1>1, ElementOfSeq
  <2>2. QED
    BY <2>1 DEF Page
<1>3. parts[i].end = CutAfter(doc, budget, parts[i].start) /\ parts[i].end <= Len(doc)
  BY <1>1 DEF Cuts
<1>4. doc # << >> => parts[i].start < Len(doc)
  BY <1>1, <1>2, <1>3 DEF PartsTile
<1>5. ASSUME doc = << >>
      PROVE  parts[i].start = 0 /\ parts[i].end = 0
  BY <1>1, <1>2, <1>3, <1>5 DEF PartsTile
<1>6. QED
  BY <1>2, <1>3, <1>4, <1>5

\* No part outgrows its budget by more than the margin, however long the
\* document goes without a break.  That is all that can be said: parts do
\* outgrow the budget itself (PartsWithinBudget is violated).
THEOREM PartsAlwaysBounded == Spec => []PartsBounded
<1>1. ASSUME IInv, NEW i \in 1..Len(parts)
      PROVE  parts[i].end - parts[i].start <= EffectiveBudget(budget) + paragraphMargin
  <2>1. doc \in Seq(Rune) /\ budget \in Budgets /\ paragraphMargin \in Nat
    BY <1>1, PaginationAssumption DEF IInv, TypeOK
  <2>2. parts[i].start \in Nat /\ EffectiveBudget(budget) \in Nat
    BY <1>1, <2>1, PartsInside, BudgetPositive DEF Page
  <2>3. CASE doc = << >>
    BY <1>1, <2>1, <2>2, <2>3, PartsInside
  <2>4. CASE doc # << >>
    BY <1>1, <2>1, <2>2, <2>4, PartsInside, CutProperties
  <2>5. QED
    BY <2>3, <2>4
<1>2. IInv => PartsBounded
  BY <1>1 DEF PartsBounded
<1>3. QED
  BY <1>2, Invariance, PTL

\* A cut that is not at a paragraph break is a cut at the budget with no
\* break within the margin after it.
THEOREM AlwaysCutAtParagraph == Spec => []CutsAtParagraph
<1>1. ASSUME IInv, NEW i \in 1..Len(parts), parts[i].end < Len(doc)
      PROVE  LET cut == parts[i].end IN
             \/ cut >= 2 /\ BreakAt(doc, cut - 2)
             \/ /\ cut = parts[i].start + EffectiveBudget(budget)
                /\ \A j \in cut..(cut + paragraphMargin - 2) :
                      j + 2 <= Len(doc) => ~BreakAt(doc, j)
  <2>1. doc \in Seq(Rune) /\ budget \in Budgets
    BY <1>1 DEF IInv, TypeOK
  <2>2. doc # << >>
    BY <1>1, PartsInside
  <2>3. /\ parts[i].start \in Nat /\ parts[i].start < Len(doc)
        /\ parts[i].end = CutAfter(doc, budget, parts[i].start)
    BY <1>1, <2>2, PartsInside DEF Page
  <2>4. QED
    BY <1>1, <2>1, <2>3, CutProperties
<1>2. IInv => CutsAtParagraph
  BY <1>1 DEF CutsAtParagraph
<1>3. QED
  BY <1>2, Invariance, PTL

\* Pages received in any order, asked for by any part arguments, fit
\* together, agree on their number, and the refused numbers are the others.
THEOREM ServedPagesAlwaysFit == Spec => []ServedPagesFit
<1>1. ASSUME IInv, NEW p \in served
      PROVE  /\ \A q \in served : /\ p.total = q.total
                                  /\ p.part = q.part => p = q
                                  /\ q.part = p.part + 1 => q.start = p.end
             /\ p.part = 1 => p.start = 0
             /\ p.end = Len(doc) <=> p.part = p.total
             /\ \A r \in refused : r < 1 \/ r > p.total
  <2>1. PICK P \in Paginations : TRUE
    BY <1>1 DEF IInv, SomePagination
  <2>2. P \in Seq(Page) /\ IsPagination(P) /\ Len(P) \in Nat
    BY DEF Paginations
  <2>3. \A q \in served : /\ q.part \in 1..Len(P)
                          /\ q.total = Len(P)
                          /\ q.start = P[q.part].start
                          /\ q.end = P[q.part].end
                          /\ q \in ServedPage
    BY <1>1 DEF IInv, Served, TypeOK
  <2>4. \A r \in refused : r < 1 \/ r > p.total
    BY <1>1, <2>3 DEF IInv, Served
  <2>5. ASSUME NEW q \in served
        PROVE  /\ p.total = q.total
               /\ p.part = q.part => p = q
               /\ q.part = p.part + 1 => q.start = p.end
    <3>1. p.total = q.total
      BY <2>3
    <3>2. p.part = q.part => p = q
      BY <2>3 DEF ServedPage
    <3>3. ASSUME q.part = p.part + 1
          PROVE  q.start = p.end
      <4>1. p.part \in 1..(Len(P) - 1)
        BY <2>2, <2>3, <3>3
      <4>2. QED
        BY <2>2, <2>3, <3>3, <4>1 DEF IsPagination
    <3>4. QED
      BY <3>1, <3>2, <3>3
  <2>6. p.part = 1 => p.start = 0
    BY <2>2, <2>3 DEF IsPagination
  <2>7. p.end = Len(doc) <=> p.part = p.total
    <3>1. CASE p.part = Len(P)
      BY <2>2, <2>3, <3>1 DEF IsPagination
    <3>2. CASE p.part # Len(P)
      <4>1. p.part \in 1..(Len(P) - 1) /\ p.part # p.total
        BY <2>2, <2>3, <3>2
      <4>2. p.end < Len(doc) /\ p.end \in Nat /\ Len(doc) \in Nat
        BY <1>1, <2>2, <2>3, <4>1 DEF IsPagination, ServedPage, IInv, TypeOK
      <4>3. QED
        BY <4>1, <4>2
    <3>3. QED
      BY <3>1, <3>2
  <2>8. QED
    BY <2>4, <2>5, <2>6, <2>7
<1>2. IInv => ServedPagesFit
  BY <1>1 DEF ServedPagesFit
<1>3. QED
  BY <1>2, Invariance, PTL

\* The delivery of texts paginates as Pagination does: whatever the text and
\* its noise, get_cgr_dictamen takes the steps of Pagination over the
\* sanitized document and find_in_norm leaves it alone, so the theorems above
\* hold of what a reader of a dictamen receives.
THEOREM TextsPaginate == TextSpec => Spec
<1>1. TextInit => Init
  BY DEF TextInit
<1>2. [TextNext]_textVars => [Next]_vars
  BY DEF TextNext, PaginateDictamen, FindInNorm, textVars, vars
<1>3. QED
  BY <1>1, <1>2, PTL DEF TextSpec, Spec

\* Every dictamen, sanitized and paginated, tiles, exceeds no budget by more
\* than the margin, is cut where it may be, and is served in pages that fit.
THEOREM DictamenDelivered ==
    TextSpec => [](PartsTile /\ PartsBounded /\ CutsAtParagraph /\ ServedPagesFit)
BY TextsPaginate, PartsAlwaysTile, PartsAlwaysBounded, AlwaysCutAtParagraph,
   ServedPagesAlwaysFit, PTL

-----------------------------------------------------------------------------
(* Recursive functions, least and greatest occurrences.                    *)

\* A set of naturals with a bound has a greatest element.
LEMMA GreatestNatural ==
    ASSUME NEW S \in SUBSET Nat, S # {}, NEW b \in Nat, \A n \in S : n <= b
    PROVE  \E m \in S : \A n \in S : n <= m
<1> DEFINE T == {b - n : n \in S}
<1>1. T \in SUBSET Nat /\ T # {}
  <2>1. \A n \in S : b - n \in Nat
    OBVIOUS
  <2>2. PICK n \in S : TRUE
    OBVIOUS
  <2>3. b - n \in T
    BY <2>2
  <2>4. QED
    BY <2>1, <2>3
<1>2. PICK t \in T : \A u \in T : t <= u
  BY <1>1, LeastNatural
<1>3. PICK m \in S : t = b - m
  BY <1>2
<1>4. ASSUME NEW n \in S
      PROVE  n <= m
  <2>1. b - n \in T
    OBVIOUS
  <2>2. b - m <= b - n
    BY <1>2, <1>3, <2>1
  <2>3. QED
    BY <2>2
<1>5. QED
  BY <1>4

\* Lowest and Highest are what their names say.
LEMMA LowestIs ==
    ASSUME NEW S \in SUBSET Nat, S # {}
    PROVE  Lowest(S) \in S /\ \A k \in S : Lowest(S) <= k
<1>1. \E n \in S : \A k \in S : n <= k
  BY LeastNatural
<1>2. QED
  BY <1>1 DEF Lowest

\* ... the greatest of a bounded set.
LEMMA HighestIs ==
    ASSUME NEW S \in SUBSET Nat, S # {}, NEW b \in Nat, \A n \in S : n <= b
    PROVE  Highest(S) \in S /\ \A k \in S : k <= Highest(S)
<1>1. \E n \in S : \A k \in S : k <= n
  BY GreatestNatural
<1>2. QED
  BY <1>1 DEF Highest

\* What a recursive function over 0..n is: the values of F, one from the
\* other, from v on.
Unfolds(g, n, v, F) ==
    /\ DOMAIN g = 0..n
    /\ g[0] = v
    /\ \A i \in 1..n : g[i] = F[<<i, g[i - 1]>>]

\* There is one.
LEMMA UnfoldingExists ==
    ASSUME NEW S, NEW v \in S, NEW n \in Nat, NEW F \in [(1..n) \X S -> S]
    PROVE  \E g \in [0..n -> S] : Unfolds(g, n, v, F)
<1> DEFINE Missing(m) == \A g \in [0..m -> S] : ~Unfolds(g, m, v, F)
           Bad == {m \in 0..n : Missing(m)}
<1>1. SUFFICES Bad = {}
  <2>1. n \in 0..n
    OBVIOUS
  <2>2. ~Missing(n)
    BY <1>1, <2>1
  <2>3. QED
    BY <2>2
<1>2. SUFFICES ASSUME Bad # {} PROVE FALSE
  OBVIOUS
<1>3. Bad \in SUBSET Nat
  OBVIOUS
<1>4. PICK m \in Bad : \A k \in Bad : m <= k
  BY <1>2, <1>3, LeastNatural
<1>5. m \in 0..n /\ Missing(m)
  BY <1>4
<1>6. m # 0
  <2>1. SUFFICES ASSUME m = 0 PROVE FALSE
    OBVIOUS
  <2> DEFINE g == [i \in 0..0 |-> v]
  <2>2. g \in [0..0 -> S]
    OBVIOUS
  <2>3. Unfolds(g, 0, v, F)
    BY DEF Unfolds
  <2>4. QED
    BY <1>5, <2>1, <2>2, <2>3
<1>7. m - 1 \in 0..n /\ m - 1 \notin Bad
  BY <1>4, <1>5, <1>6
<1>8. PICK h \in [0..(m - 1) -> S] : Unfolds(h, m - 1, v, F)
  BY <1>7
<1> DEFINE g == [i \in 0..m |-> IF i = m THEN F[<<m, h[m - 1]>>] ELSE h[i]]
<1>9. g \in [0..m -> S]
  <2>1. m - 1 \in 0..(m - 1) /\ m \in 1..n
    BY <1>5, <1>6
  <2>2. <<m, h[m - 1]>> \in (1..n) \X S
    BY <1>8, <2>1
  <2>3. F[<<m, h[m - 1]>>] \in S
    BY <2>2
  <2>4. \A i \in 0..m : i # m => i \in 0..(m - 1)
    BY <1>5
  <2>5. \A i \in 0..m : i # m => h[i] \in S
    BY <1>8, <2>4
  <2>6. QED
    BY <2>3, <2>5
<1>10. Unfolds(g, m, v, F)
  <2>1. g[0] = v
    BY <1>5, <1>6, <1>8 DEF Unfolds
  <2>2. ASSUME NEW i \in 1..m
        PROVE  g[i] = F[<<i, g[i - 1]>>]
    <3>1. g[i - 1] = h[i - 1]
      BY <1>5
    <3>2. CASE i = m
      BY <1>5, <3>1, <3>2
    <3>3. CASE i # m
      <4>1. i \in 1..(m - 1) /\ i \in 0..m
        BY <1>5, <3>3
      <4>2. h[i] = F[<<i, h[i - 1]>>]
        BY <1>8, <4>1 DEF Unfolds
      <4>3. QED
        BY <3>1, <3>3, <4>1, <4>2
    <3>4. QED
      BY <3>2, <3>3
  <2>3. QED
    BY <2>1, <2>2 DEF Unfolds
<1>11. QED
  BY <1>5, <1>9, <1>10

\* Induction up to n, over the set of the numbers a property holds of.
LEMMA InductionUpTo ==
    ASSUME NEW n \in Nat, NEW Holds \in SUBSET (0..n), 0 \in Holds,
           \A i \in 1..n : i - 1 \in Holds => i \in Holds
    PROVE  Holds = 0..n
<1> DEFINE Bad == (0..n) \ Holds
<1>1. SUFFICES ASSUME Bad # {} PROVE FALSE
  OBVIOUS
<1>2. Bad \in SUBSET Nat
  OBVIOUS
<1>3. PICK m \in Bad : \A k \in Bad : m <= k
  BY <1>1, <1>2, LeastNatural
<1>4. m \in 1..n /\ m - 1 \notin Bad
  BY <1>3
<1>5. QED
  BY <1>3, <1>4

-----------------------------------------------------------------------------
(* The query and the widths of runes.                                      *)

\* The runes TrimSpace takes off both ends.
White == Space \cup {"nl", "tab"}

\* What collapseQuerySpaces may have gathered: nothing, or a text that begins
\* and ends in a word.
Words == {v \in Seq(Rune) : v # << >> => /\ v[1] \notin White
                                         /\ v[Len(v)] \notin White}

\* A query reaches the search without white space at either end.
LEMMA CollapsedQuery ==
    ASSUME NEW s \in Seq(Rune)
    PROVE  collapseQuerySpaces(s) \in Words
<1> DEFINE n == Len(s)
           word(i) == s[i] \notin White
           next(i, v) == IF ~word(i) THEN v
                         ELSE (IF i > 1 /\ v # << >> /\ ~word(i - 1)
                               THEN Append(v, "sp") ELSE v) \o <<s[i]>>
           F == [p \in (1..n) \X Words |-> next(p[1], p[2])]
           IsUpTo(u) == u = [i \in 0..n |-> IF i = 0 THEN << >> ELSE next(i, u[i - 1])]
<1>1. n \in Nat /\ n = Len(s) /\ << >> \in Words
  BY DEF Words
<1> HIDE DEF n
<1>2. ASSUME NEW i \in 1..n, NEW v \in Words
      PROVE  next(i, v) \in Words
  <2>1. CASE ~word(i)
    BY <2>1
  <2>2. CASE word(i)
    <3> DEFINE w == IF i > 1 /\ v # << >> /\ ~word(i - 1) THEN Append(v, "sp") ELSE v
    <3>1. s[i] \in Rune /\ v \in Seq(Rune) /\ "sp" \in Rune
      BY <1>1, TextsAssumption DEF Words
    <3>2. w \in Seq(Rune) /\ (v = << >> => w = << >>) /\ (v # << >> => w[1] = v[1] /\ w # << >>)
      BY <3>1
    <3>3. w \o <<s[i]>> \in Seq(Rune) /\ Len(w \o <<s[i]>>) = Len(w) + 1
          /\ (w \o <<s[i]>>)[Len(w) + 1] = s[i]
      BY <3>1, <3>2
    <3>4. (w \o <<s[i]>>)[1] \notin White
      <4>1. CASE v = << >>
        BY <2>2, <3>1, <3>2, <4>1
      <4>2. CASE v # << >>
        <5>1. (w \o <<s[i]>>)[1] = w[1]
          BY <3>1, <3>2, <4>2
        <5>2. QED
          BY <3>2, <4>2, <5>1 DEF Words
      <4>3. QED
        BY <4>1, <4>2
    <3>5. next(i, v) = w \o <<s[i]>>
      BY <2>2
    <3>6. QED
      BY <2>2, <3>3, <3>4, <3>5 DEF Words
  <2>3. QED
    BY <2>1, <2>2
<1> HIDE DEF next
<1>3. F \in [(1..n) \X Words -> Words]
  BY <1>2
<1>4. PICK g \in [0..n -> Words] : Unfolds(g, n, << >>, F)
  BY <1>1, <1>3, UnfoldingExists
<1>5. IsUpTo(g)
  <2>1. ASSUME NEW i \in 1..n
        PROVE  g[i] = next(i, g[i - 1])
    <3>1. i - 1 \in 0..n
      BY <1>1
    <3>2. <<i, g[i - 1]>> \in (1..n) \X Words
      BY <1>4, <3>1
    <3>3. F[<<i, g[i - 1]>>] = next(i, g[i - 1])
      BY <3>2
    <3>4. QED
      BY <1>4, <3>3 DEF Unfolds
  <2>2. g[0] = << >>
    BY <1>4 DEF Unfolds
  <2>3. \A i \in 0..n : g[i] = IF i = 0 THEN << >> ELSE next(i, g[i - 1])
    BY <1>1, <2>1, <2>2
  <2>4. QED
    BY <1>4, <2>3
<1> DEFINE u == CHOOSE x : IsUpTo(x)
<1>6. IsUpTo(u)
  BY <1>5
<1>7. collapseQuerySpaces(s) = u[n]
  BY DEF collapseQuerySpaces, White, next, n
<1> HIDE DEF u
<1>8. {i \in 0..n : u[i] \in Words} = 0..n
  <2> DEFINE Holds == {i \in 0..n : u[i] \in Words}
  <2>1. 0 \in Holds
    BY <1>1, <1>6
  <2>2. ASSUME NEW i \in 1..n, i - 1 \in Holds
        PROVE  i \in Holds
    <3>1. u[i] = next(i, u[i - 1])
      BY <1>1, <1>6
    <3>2. QED
      BY <1>2, <2>2, <3>1
  <2>3. QED
    BY <1>1, <2>1, <2>2, InductionUpTo
<1>9. QED
  BY <1>1, <1>7, <1>8

-----------------------------------------------------------------------------
(* The texts sanitizing leaves, and what TrimSpace takes off.              *)

\* The states of normalize's pass over runes of R.
Pass(R) == [out : Seq(R), pendingSpace : BOOLEAN, atLineStart : BOOLEAN,
            newlineRun : Nat]

\* A step of the pass keeps to them.
LEMMA StepKeeps ==
    ASSUME NEW R, {"sp", "nl"} \subseteq R, NEW at \in Pass(R), NEW r \in R
    PROVE  Step(at, r) \in Pass(R)
<1>1. /\ at.out \in Seq(R) /\ at.newlineRun \in Nat
      /\ at.pendingSpace \in BOOLEAN /\ at.atLineStart \in BOOLEAN
      /\ "sp" \in R /\ "nl" \in R
  BY DEF Pass
<1>2. CASE r \in zeroWidthChars \cup controls
  BY <1>2 DEF Step, zeroWidthChars, controls, Space, spacesToNormalize
<1>3. CASE r \notin zeroWidthChars \cup controls /\ r \in Space
  <2>1. Step(at, r) = [at EXCEPT !.pendingSpace = TRUE]
    BY <1>3 DEF Step, zeroWidthChars, controls, Space, spacesToNormalize
  <2>2. QED
    BY <2>1 DEF Pass
<1>4. CASE r \notin zeroWidthChars \cup controls /\ r \notin Space /\ r = "nl"
  <2> DEFINE out == IF at.newlineRun < 2 THEN Append(at.out, "nl") ELSE at.out
  <2>1. Step(at, r) = [out |-> out, pendingSpace |-> FALSE, atLineStart |-> TRUE,
                       newlineRun |-> at.newlineRun + 1]
    BY <1>4 DEF Step, zeroWidthChars, controls, Space, spacesToNormalize
  <2>2. out \in Seq(R)
    BY <1>1
  <2>3. QED
    BY <1>1, <2>1, <2>2 DEF Pass
<1>5. CASE r \notin zeroWidthChars \cup controls /\ r \notin Space /\ r # "nl"
  <2> DEFINE out == (IF at.pendingSpace /\ ~at.atLineStart
                     THEN Append(at.out, "sp") ELSE at.out) \o <<r>>
  <2>1. Step(at, r) = [out |-> out, pendingSpace |-> FALSE, atLineStart |-> FALSE,
                       newlineRun |-> 0]
    BY <1>5 DEF Step, zeroWidthChars, controls, Space, spacesToNormalize
  <2>2. out \in Seq(R)
    BY <1>1
  <2>3. QED
    BY <1>1, <2>1, <2>2 DEF Pass
<1>6. QED
  BY <1>2, <1>3, <1>4, <1>5

\* The pass over s: the states after each of its runes.
Passes(s) ==
    CHOOSE u : u = [i \in 0..Len(s) |-> IF i = 0 THEN Blank ELSE Step(u[i - 1], s[i])]

\* It goes from one to the next, and normalize trims what the last gathered.
LEMMA PassesAre ==
    ASSUME NEW R, {"sp", "nl"} \subseteq R, NEW s \in Seq(R)
    PROVE  /\ Passes(s)[0] = Blank
           /\ \A i \in 1..Len(s) : Passes(s)[i] = Step(Passes(s)[i - 1], s[i])
           /\ \A i \in 0..Len(s) : Passes(s)[i] \in Pass(R)
           /\ normalize(s) = TrimSpace(Passes(s)[Len(s)].out)
<1> DEFINE n == Len(s)
           F == [p \in (1..n) \X Pass(R) |-> Step(p[2], s[p[1]])]
           Is(u) == u = [i \in 0..n |-> IF i = 0 THEN Blank ELSE Step(u[i - 1], s[i])]
<1>1. n \in Nat /\ n = Len(s) /\ Blank \in Pass(R)
  BY DEF Pass, Blank
<1> HIDE DEF n
<1>2. \A i \in 1..n : s[i] \in R
  BY <1>1
<1>3. F \in [(1..n) \X Pass(R) -> Pass(R)]
  BY <1>2, StepKeeps
<1>4. PICK g \in [0..n -> Pass(R)] : Unfolds(g, n, Blank, F)
  BY <1>1, <1>3, UnfoldingExists
<1>5. Is(g)
  <2>1. ASSUME NEW i \in 1..n
        PROVE  g[i] = Step(g[i - 1], s[i])
    <3>1. i - 1 \in 0..n
      BY <1>1
    <3>2. <<i, g[i - 1]>> \in (1..n) \X Pass(R)
      BY <1>4, <3>1
    <3>3. F[<<i, g[i - 1]>>] = Step(g[i - 1], s[i])
      BY <3>2
    <3>4. QED
      BY <1>4, <3>3 DEF Unfolds
  <2>2. g[0] = Blank
    BY <1>4 DEF Unfolds
  <2>3. \A i \in 0..n : g[i] = IF i = 0 THEN Blank ELSE Step(g[i - 1], s[i])
    BY <1>1, <2>1, <2>2
  <2>4. QED
    BY <1>4, <2>3
<1>6. Is(Passes(s))
  BY <1>5 DEF Passes, n
<1>7. normalize(s) = TrimSpace(Passes(s)[n].out)
  BY DEF normalize, Passes, n
<1> DEFINE u == Passes(s)
<1>8. Is(u)
  BY <1>6
<1> HIDE DEF u
<1>9. u[0] = Blank /\ \A i \in 1..n : u[i] = Step(u[i - 1], s[i])
  BY <1>1, <1>8
<1>10. \A i \in 0..n : u[i] \in Pass(R)
  <2> DEFINE Holds == {i \in 0..n : u[i] \in Pass(R)}
  <2>1. 0 \in Holds
    BY <1>1, <1>9
  <2>2. ASSUME NEW i \in 1..n, i - 1 \in Holds
        PROVE  i \in Holds
    BY <1>2, <1>9, <2>2, StepKeeps
  <2>3. Holds = 0..n
    BY <1>1, <2>1, <2>2, InductionUpTo
  <2>4. QED
    BY <2>3
<1>11. QED
  BY <1>1, <1>7, <1>9, <1>10 DEF u

\* What is left of s without the runes of Cut at its ends: the runes from a to b.
Left(s, Cut, a, b) ==
    /\ a \in 1..Len(s) /\ b \in 1..Len(s) /\ a <= b
    /\ s[a] \notin Cut /\ s[b] \notin Cut
    /\ \A i \in 1..Len(s) : s[i] \notin Cut => a <= i /\ i <= b

\* Trim takes the runes of Cut off both ends, and no other.
LEMMA TrimIs ==
    ASSUME NEW R, NEW s \in Seq(R), NEW Cut
    PROVE  \/ /\ \A i \in 1..Len(s) : s[i] \in Cut
              /\ Trim(s, Cut) = << >>
           \/ \E a, b : Left(s, Cut, a, b) /\ Trim(s, Cut) = SubSeq(s, a, b)
<1> DEFINE kept == {i \in DOMAIN s : s[i] \notin Cut}
<1>1. DOMAIN s = 1..Len(s) /\ Len(s) \in Nat
  OBVIOUS
<1>2. CASE kept = {}
  BY <1>1, <1>2 DEF Trim
<1>3. CASE kept # {}
  <2> DEFINE a == CHOOSE i \in kept : \A k \in kept : i <= k
             b == CHOOSE i \in kept : \A k \in kept : k <= i
  <2>1. kept \in SUBSET Nat /\ \A k \in kept : k <= Len(s)
    BY <1>1
  <2>2. \E i \in kept : \A k \in kept : i <= k
    BY <1>3, <2>1, LeastNatural
  <2>3. \E i \in kept : \A k \in kept : k <= i
    BY <1>1, <1>3, <2>1, GreatestNatural
  <2>4. a \in kept /\ \A k \in kept : a <= k
    BY <2>2
  <2>5. b \in kept /\ \A k \in kept : k <= b
    BY <2>3
  <2>6. Trim(s, Cut) = SubSeq(s, a, b)
    BY <1>3 DEF Trim
  <2> HIDE DEF a, b
  <2>7. Left(s, Cut, a, b)
    BY <1>1, <2>4, <2>5 DEF Left
  <2>8. QED
    BY <2>6, <2>7
<1>4. QED
  BY <1>2, <1>3

\* Trimming leaves a part of the sequence.
LEMMA TrimKeeps ==
    ASSUME NEW R, NEW s \in Seq(R), NEW Cut
    PROVE  Trim(s, Cut) \in Seq(R) /\ Len(Trim(s, Cut)) <= Len(s)
<1>1. CASE Trim(s, Cut) = << >>
  BY <1>1
<1>2. ASSUME NEW a \in 1..Len(s), NEW b \in 1..Len(s), Trim(s, Cut) = SubSeq(s, a, b)
      PROVE  Trim(s, Cut) \in Seq(R) /\ Len(Trim(s, Cut)) <= Len(s)
  BY <1>2
<1>3. \/ Trim(s, Cut) = << >>
      \/ \E a, b : Left(s, Cut, a, b) /\ Trim(s, Cut) = SubSeq(s, a, b)
  BY TrimIs
<1>4. QED
  BY <1>1, <1>2, <1>3 DEF Left

\* The runes of a piece of a sequence.
LEMMA Piece ==
    ASSUME NEW R, NEW s \in Seq(R), NEW a \in Nat, NEW b \in Nat, b <= Len(s)
    PROVE  /\ SubSeq(s, a + 1, b) \in Seq(R)
           /\ Len(SubSeq(s, a + 1, b)) = (IF a <= b THEN b - a ELSE 0)
           /\ \A i \in 1..(b - a) : SubSeq(s, a + 1, b)[i] = s[a + i]
OBVIOUS

\* A piece of a sequence lies in every larger piece of it.
LEMMA PieceInside ==
    ASSUME NEW R, NEW s \in Seq(R), NEW a \in Nat, NEW b \in Nat,
           NEW c \in Nat, NEW d \in Nat, c <= a, a <= b, b <= d, d <= Len(s)
    PROVE  a - c \in Occurrences(SubSeq(s, c + 1, d), SubSeq(s, a + 1, b))
<1> DEFINE small == SubSeq(s, a + 1, b)
           big == SubSeq(s, c + 1, d)
           t == SubSeq(big, (a - c) + 1, (a - c) + (b - a))
<1>1. /\ small \in Seq(R) /\ Len(small) = b - a
      /\ \A i \in 1..(b - a) : small[i] = s[a + i]
  BY Piece
<1>2. /\ big \in Seq(R) /\ Len(big) = d - c
      /\ \A i \in 1..(d - c) : big[i] = s[c + i]
  BY Piece
<1> HIDE DEF small, big
<1>3. /\ t \in Seq(R) /\ Len(t) = b - a
      /\ \A i \in 1..(b - a) : t[i] = big[(a - c) + i]
  <2>1. /\ a - c \in Nat /\ (a - c) + (b - a) \in Nat /\ (a - c) + (b - a) <= d - c
        /\ a - c <= (a - c) + (b - a) /\ ((a - c) + (b - a)) - (a - c) = b - a
    OBVIOUS
  <2>2. QED
    BY <1>2, <2>1, Piece
<1> HIDE DEF t
<1>4. ASSUME NEW i \in 1..(b - a)
      PROVE  t[i] = small[i]
  <2>1. (a - c) + i \in 1..(d - c) /\ c + ((a - c) + i) = a + i
    OBVIOUS
  <2>2. QED
    BY <1>1, <1>2, <1>3, <2>1
<1>5. t = small
  BY <1>1, <1>3, <1>4
<1>6. a - c \in 0..(Len(big) - Len(small))
  BY <1>1, <1>2
<1>7. QED
  BY <1>1, <1>5, <1>6 DEF Occurrences, t, big, small

\* A piece of a piece is a piece.
LEMMA PieceOfPiece ==
    ASSUME NEW R, NEW s \in Seq(R), NEW a \in Nat, NEW b \in Nat, b <= Len(s),
           NEW i \in 1..(b - a), NEW j \in 1..(b - a), i <= j
    PROVE  SubSeq(SubSeq(s, a + 1, b), i, j) = SubSeq(s, (a + i - 1) + 1, a + j)
<1> DEFINE p == SubSeq(s, a + 1, b)
           t == SubSeq(p, i, j)
           u == SubSeq(s, (a + i - 1) + 1, a + j)
<1>1. /\ p \in Seq(R) /\ Len(p) = b - a
      /\ \A k \in 1..(b - a) : p[k] = s[a + k]
  BY Piece
<1>2. /\ u \in Seq(R) /\ Len(u) = j - i + 1
      /\ \A k \in 1..(j - i + 1) : u[k] = s[(a + i - 1) + k]
  <2>1. a + i - 1 \in Nat /\ a + j \in Nat /\ a + j <= Len(s) /\ a + i - 1 <= a + j
        /\ (a + j) - (a + i - 1) = j - i + 1
    OBVIOUS
  <2>2. QED
    BY <2>1, Piece
<1> HIDE DEF p, u
<1>3. /\ t \in Seq(R) /\ Len(t) = j - i + 1
      /\ \A k \in 1..(j - i + 1) : t[k] = p[i + k - 1]
  BY <1>1
<1> HIDE DEF t
<1>4. ASSUME NEW k \in 1..(j - i + 1)
      PROVE  t[k] = u[k]
  <2>1. i + k - 1 \in 1..(b - a) /\ a + (i + k - 1) = (a + i - 1) + k
    OBVIOUS
  <2>2. QED
    BY <1>1, <1>2, <1>3, <2>1
<1>5. t = u
  BY <1>2, <1>3, <1>4, SeqEqual
<1>6. QED
  BY <1>5 DEF t, p, u

\* What is left of a piece of a text, trimmed, can be read in what is left of
\* every larger piece.
LEMMA TrimmedInside ==
    ASSUME NEW R, NEW s \in Seq(R), NEW Cut, NEW a \in Nat, NEW b \in Nat,
           NEW c \in Nat, NEW d \in Nat, c <= a, b <= d, d <= Len(s)
    PROVE  Occurrences(Trim(SubSeq(s, c + 1, d), Cut),
                       Trim(SubSeq(s, a + 1, b), Cut)) # {}
<1> DEFINE inner == SubSeq(s, a + 1, b)
           outer == SubSeq(s, c + 1, d)
           big == Trim(outer, Cut)
           small == Trim(inner, Cut)
<1>1. /\ inner \in Seq(R)
      /\ Len(inner) = (IF a <= b THEN b - a ELSE 0)
      /\ \A i \in 1..(b - a) : inner[i] = s[a + i]
  BY Piece
<1>2. /\ outer \in Seq(R)
      /\ Len(outer) = (IF c <= d THEN d - c ELSE 0)
      /\ \A i \in 1..(d - c) : outer[i] = s[c + i]
  BY Piece
<1> HIDE DEF inner, outer
<1>3. big \in Seq(R)
  BY <1>2, TrimKeeps
<1>4. CASE small = << >>
  <2>1. SubSeq(big, 0 + 1, 0 + 0) = << >> /\ 0 \in 0..(Len(big) - 0)
    BY <1>3
  <2>2. 0 \in Occurrences(big, << >>)
    BY <2>1 DEF Occurrences
  <2>3. QED
    BY <1>4, <2>2 DEF inner, outer
<1>5. CASE small # << >>
  <2>1. PICK i, j : Left(inner, Cut, i, j) /\ small = SubSeq(inner, i, j)
    BY <1>1, <1>5, TrimIs
  <2>2. /\ i \in 1..(b - a) /\ j \in 1..(b - a) /\ i <= j
        /\ s[a + i] \notin Cut /\ s[a + j] \notin Cut
    BY <1>1, <2>1 DEF Left
  <2>3. small = SubSeq(s, (a + i - 1) + 1, a + j)
    <3>1. SubSeq(SubSeq(s, a + 1, b), i, j) = SubSeq(s, (a + i - 1) + 1, a + j)
      BY <2>2, PieceOfPiece
    <3>2. QED
      BY <2>1, <3>1 DEF inner
  <2>4. /\ (a + i) - c \in 1..(d - c) /\ (a + j) - c \in 1..(d - c)
        /\ c + ((a + i) - c) = a + i /\ c + ((a + j) - c) = a + j
    BY <2>2
  <2>5. outer[(a + i) - c] \notin Cut /\ outer[(a + j) - c] \notin Cut
    BY <1>2, <2>2, <2>4
  <2>6. Len(outer) = d - c
    BY <1>2, <2>4
  <2>7. PICK p, q : Left(outer, Cut, p, q) /\ big = SubSeq(outer, p, q)
    BY <1>2, <2>4, <2>5, <2>6, TrimIs
  <2>8. /\ p \in 1..(d - c) /\ q \in 1..(d - c) /\ p <= q
        /\ p <= (a + i) - c /\ (a + j) - c <= q
    BY <2>4, <2>5, <2>6, <2>7 DEF Left
  <2>9. big = SubSeq(s, (c + p - 1) + 1, c + q)
    <3>1. SubSeq(SubSeq(s, c + 1, d), p, q) = SubSeq(s, (c + p - 1) + 1, c + q)
      BY <2>8, PieceOfPiece
    <3>2. QED
      BY <2>7, <3>1 DEF outer
  <2>10. /\ a + i - 1 \in Nat /\ a + j \in Nat /\ c + p - 1 \in Nat /\ c + q \in Nat
         /\ c + p - 1 <= a + i - 1 /\ a + i - 1 <= a + j /\ a + j <= c + q
         /\ c + q <= Len(s)
    BY <2>2, <2>8
  <2>11. Occurrences(big, small) # {}
    BY <2>3, <2>9, <2>10, PieceInside
  <2>12. QED
    BY <2>11 DEF inner, outer
<1>6. QED
  BY <1>4, <1>5

-----------------------------------------------------------------------------
(* Lower case, bytes and the window of a snippet.                          *)

\* Lower case, rune by rune.
LEMMA LowerIs ==
    ASSUME NEW s \in Seq(Rune)
    PROVE  /\ ToLower(s) \in Seq(Rune \cup {"q"})
           /\ Len(ToLower(s)) = Len(s)
           /\ \A i \in 1..Len(s) : ToLower(s)[i] = IF s[i] = "Q" THEN "q" ELSE s[i]
<1>1. DOMAIN s = 1..Len(s) /\ Len(s) \in Nat /\ \A i \in 1..Len(s) : s[i] \in Rune
  OBVIOUS
<1>2. ToLower(s) = [i \in 1..Len(s) |-> IF s[i] = "Q" THEN "q" ELSE s[i]]
  BY <1>1 DEF ToLower
<1>3. QED
  BY <1>1, <1>2

\* Lowering and cutting commute ...
LEMMA LowerOfPiece ==
    ASSUME NEW s \in Seq(Rune), NEW a \in Nat, NEW b \in Nat, b <= Len(s)
    PROVE  ToLower(SubSeq(s, a + 1, b)) = SubSeq(ToLower(s), a + 1, b)
<1> DEFINE p == SubSeq(s, a + 1, b)
           l == ToLower(s)
           t == ToLower(p)
           u == SubSeq(l, a + 1, b)
           n == IF a <= b THEN b - a ELSE 0
<1>1. n \in Nat /\ \A i \in 1..n : i \in 1..(b - a) /\ a + i \in 1..Len(s)
  OBVIOUS
<1>2. p \in Seq(Rune) /\ Len(p) = n /\ \A i \in 1..(b - a) : p[i] = s[a + i]
  BY Piece
<1>3. /\ l \in Seq(Rune \cup {"q"}) /\ Len(l) = Len(s)
      /\ \A i \in 1..Len(s) : l[i] = IF s[i] = "Q" THEN "q" ELSE s[i]
  BY LowerIs
<1> HIDE DEF l
<1>4. /\ u \in Seq(Rune \cup {"q"}) /\ Len(u) = n
      /\ \A i \in 1..(b - a) : u[i] = l[a + i]
  BY <1>3, Piece
<1> HIDE DEF p, u
<1>5. /\ t \in Seq(Rune \cup {"q"}) /\ Len(t) = n
      /\ \A i \in 1..n : t[i] = IF p[i] = "Q" THEN "q" ELSE p[i]
  BY <1>2, LowerIs
<1> HIDE DEF t, n
<1>6. \A i \in 1..n : t[i] = u[i]
  BY <1>1, <1>2, <1>3, <1>4, <1>5
<1>7. t = u
  BY <1>4, <1>5, <1>6, SeqEqual
<1>8. QED
  BY <1>7 DEF t, u, p, l

\* ... and so do lowering and trimming: no letter is white space.
LEMMA LowerOfTrim ==
    ASSUME NEW s \in Seq(Rune)
    PROVE  ToLower(TrimSpace(s)) = Trim(ToLower(s), White)
<1> DEFINE l == ToLower(s)
<1>1. TrimSpace(s) = Trim(s, White)
  BY DEF TrimSpace, White
<1>2. l \in Seq(Rune \cup {"q"}) /\ Len(l) = Len(s) /\ Len(s) \in Nat
  BY LowerIs
<1>3. \A i \in 1..Len(s) : l[i] \in White <=> s[i] \in White
  <2>1. "q" \notin White /\ "Q" \notin White
    BY DEF White, Space, spacesToNormalize
  <2>2. QED
    BY <2>1, LowerIs
<1> HIDE DEF l
<1>4. CASE \A i \in 1..Len(s) : s[i] \in White
  <2>1. ~\E a, b : Left(s, White, a, b)
    BY <1>4 DEF Left
  <2>2. ~\E a, b : Left(l, White, a, b)
    BY <1>2, <1>3, <1>4 DEF Left
  <2>3. Trim(s, White) = << >>
    BY <2>1, TrimIs
  <2>4. Trim(l, White) = << >>
    BY <1>2, <2>2, TrimIs
  <2>5. ToLower(<< >>) = << >>
    <3>1. << >> \in Seq(Rune) /\ Len(<< >>) = 0
      OBVIOUS
    <3>2. ToLower(<< >>) \in Seq(Rune \cup {"q"}) /\ Len(ToLower(<< >>)) = 0
      BY <3>1, LowerIs
    <3>3. QED
      BY <3>2
  <2>6. QED
    BY <1>1, <2>3, <2>4, <2>5 DEF l
<1>5. CASE ~\A i \in 1..Len(s) : s[i] \in White
  <2>1. PICK a, b : Left(s, White, a, b) /\ Trim(s, White) = SubSeq(s, a, b)
    BY <1>5, TrimIs
  <2>2. ~\A i \in 1..Len(l) : l[i] \in White
    BY <1>2, <1>3, <1>5
  <2>3. PICK c, d : Left(l, White, c, d) /\ Trim(l, White) = SubSeq(l, c, d)
    BY <1>2, <2>2, TrimIs
  <2>4. c = a /\ d = b /\ a \in 1..Len(s) /\ b \in 1..Len(s)
    <3>1. /\ a \in 1..Len(s) /\ b \in 1..Len(s)
          /\ s[a] \notin White /\ s[b] \notin White
          /\ \A i \in 1..Len(s) : s[i] \notin White => a <= i /\ i <= b
      BY <2>1 DEF Left
    <3>2. /\ c \in 1..Len(s) /\ d \in 1..Len(s)
          /\ l[c] \notin White /\ l[d] \notin White
          /\ \A i \in 1..Len(s) : l[i] \notin White => c <= i /\ i <= d
      BY <1>2, <2>3 DEF Left
    <3>3. /\ s[c] \notin White /\ s[d] \notin White
          /\ l[a] \notin White /\ l[b] \notin White
      BY <1>3, <3>1, <3>2
    <3>4. a <= c /\ d <= b /\ c <= a /\ b <= d
      BY <3>1, <3>2, <3>3
    <3>5. QED
      BY <1>2, <3>1, <3>2, <3>4
  <2>5. ToLower(SubSeq(s, (a - 1) + 1, b)) = SubSeq(l, (a - 1) + 1, b)
    <3>1. a - 1 \in Nat /\ b \in Nat /\ b <= Len(s)
      BY <1>2, <2>4
    <3>2. QED
      BY <3>1, LowerOfPiece DEF l
  <2>6. (a - 1) + 1 = a
    BY <2>4
  <2>7. QED
    BY <1>1, <2>1, <2>3, <2>4, <2>5, <2>6 DEF l
<1>6. QED
  BY <1>4, <1>5

\* The bytes of a text are a number; where every rune has one byte, that of
\* its runes.
LEMMA BytesAre ==
    ASSUME NEW R, NEW s \in Seq(R)
    PROVE  /\ Bytes(s) \in Nat
           /\ OneByte(s) => Bytes(s) = Len(s)
<1> DEFINE n == Len(s)
           next(i, v) == v + Width(s[i])
           F == [p \in (1..n) \X Nat |-> next(p[1], p[2])]
           Is(u) == u = [i \in 0..n |-> IF i = 0 THEN 0 ELSE next(i, u[i - 1])]
<1>1. n \in Nat /\ n = Len(s) /\ \A r : Width(r) \in Nat
  BY DEF Width
<1> HIDE DEF n
<1>2. \A i \in 1..n, v \in Nat : next(i, v) \in Nat
  BY <1>1
<1> HIDE DEF next
<1>3. F \in [(1..n) \X Nat -> Nat]
  BY <1>2
<1>4. PICK g \in [0..n -> Nat] : Unfolds(g, n, 0, F)
  BY <1>1, <1>3, UnfoldingExists
<1>5. Is(g)
  <2>1. ASSUME NEW i \in 1..n
        PROVE  g[i] = next(i, g[i - 1])
    <3>1. i - 1 \in 0..n
      BY <1>1
    <3>2. <<i, g[i - 1]>> \in (1..n) \X Nat
      BY <1>4, <3>1
    <3>3. F[<<i, g[i - 1]>>] = next(i, g[i - 1])
      BY <3>2
    <3>4. QED
      BY <1>4, <3>3 DEF Unfolds
  <2>2. g[0] = 0
    BY <1>4 DEF Unfolds
  <2>3. \A i \in 0..n : g[i] = IF i = 0 THEN 0 ELSE next(i, g[i - 1])
    BY <1>1, <2>1, <2>2
  <2>4. QED
    BY <1>4, <2>3
<1> DEFINE u == CHOOSE x : Is(x)
<1>6. Is(u)
  BY <1>5
<1>7. Bytes(s) = u[n]
  BY DEF Bytes, next, n
<1> HIDE DEF u
<1>8. u[0] = 0 /\ \A i \in 1..n : u[i] = next(i, u[i - 1])
  BY <1>1, <1>6
<1>9. {i \in 0..n : u[i] \in Nat} = 0..n
  <2> DEFINE Holds == {i \in 0..n : u[i] \in Nat}
  <2>1. 0 \in Holds
    BY <1>1, <1>8
  <2>2. ASSUME NEW i \in 1..n, i - 1 \in Holds
        PROVE  i \in Holds
    <3>1. u[i - 1] \in Nat
      BY <2>2
    <3>2. u[i] \in Nat
      BY <1>2, <1>8, <3>1
    <3>3. QED
      BY <3>2
  <2>3. QED
    BY <1>1, <2>1, <2>2, InductionUpTo
<1>10. ASSUME OneByte(s)
       PROVE  {i \in 0..n : u[i] = i} = 0..n
  <2> DEFINE Holds == {i \in 0..n : u[i] = i}
  <2>1. 0 \in Holds
    BY <1>1, <1>8
  <2>2. ASSUME NEW i \in 1..n, i - 1 \in Holds
        PROVE  i \in Holds
    <3>1. Width(s[i]) = 1
      BY <1>1, <1>10 DEF OneByte
    <3>2. next(i, i - 1) = i
      BY <1>1, <3>1 DEF next
    <3>3. u[i] = i
      BY <1>8, <2>2, <3>2
    <3>4. QED
      BY <3>3
  <2>3. QED
    BY <1>1, <2>1, <2>2, InductionUpTo
<1>11. QED
  BY <1>1, <1>7, <1>9, <1>10

\* Lowering leaves the bytes of a rune as many as they are.
LEMMA LowerOneByte ==
    ASSUME NEW s \in Seq(Rune), OneByte(s)
    PROVE  OneByte(ToLower(s))
<1>1. ASSUME NEW i \in 1..Len(s)
      PROVE  Width(ToLower(s)[i]) = Width(s[i])
  <2>1. ToLower(s)[i] = IF s[i] = "Q" THEN "q" ELSE s[i]
    BY LowerIs
  <2>2. Width("q") = 1 /\ Width("Q") = 1
    BY DEF Width
  <2>3. CASE s[i] = "Q"
    BY <2>1, <2>2, <2>3
  <2>4. CASE s[i] # "Q"
    BY <2>1, <2>4
  <2>5. QED
    BY <2>3, <2>4
<1>2. DOMAIN s = 1..Len(s) /\ DOMAIN ToLower(s) = 1..Len(s)
  BY LowerIs
<1>3. QED
  BY <1>1, <1>2 DEF OneByte

\* Where the window opens and closes.
LEMMA WindowEdges ==
    ASSUME NEW body \in Seq(Rune), NEW from \in Nat
    PROVE  /\ lastIndexParagraph(body, from) \in Nat
           /\ lastIndexParagraph(body, from) <= from
           /\ from - snippetMargin <= lastIndexParagraph(body, from)
           /\ indexParagraph(body, from) \in Nat
           /\ from <= indexParagraph(body, from)
           /\ from <= Len(body) => indexParagraph(body, from) <= Len(body)
<1>1. snippetMargin \in Nat /\ Len(body) \in Nat
  BY SnippetAssumption
<1>2. /\ lastIndexParagraph(body, from) \in Nat
      /\ lastIndexParagraph(body, from) <= from
      /\ from - snippetMargin <= lastIndexParagraph(body, from)
  <2> DEFINE ends == {i \in (Larger(from - snippetMargin, 0) + 2)..from :
                        ParagraphAt(body, i - 2)}
  <2>1. /\ Larger(from - snippetMargin, 0) \in Nat
        /\ from - snippetMargin <= Larger(from - snippetMargin, 0)
    BY <1>1 DEF Larger
  <2>2. CASE ends = {}
    BY <1>1, <2>2 DEF lastIndexParagraph
  <2>3. CASE ends # {}
    <3>1. ends \in SUBSET Nat /\ \A i \in ends : i <= from
      BY <2>1
    <3>2. Highest(ends) \in ends
      BY <2>3, <3>1, HighestIs
    <3>3. lastIndexParagraph(body, from) = Highest(ends)
      BY <2>3 DEF lastIndexParagraph
    <3>4. QED
      BY <1>1, <2>1, <3>2, <3>3
  <2>4. QED
    BY <2>2, <2>3
<1>3. /\ indexParagraph(body, from) \in Nat
      /\ from <= indexParagraph(body, from)
      /\ from <= Len(body) => indexParagraph(body, from) <= Len(body)
  <2> DEFINE breaks == {i \in from..(Smaller(from + snippetMargin, Len(body)) - 2) :
                          ParagraphAt(body, i)}
  <2>1. /\ Smaller(from + snippetMargin, Len(body)) \in Nat
        /\ Smaller(from + snippetMargin, Len(body)) <= Len(body)
    BY <1>1 DEF Smaller
  <2>2. CASE breaks = {}
    BY <1>1, <2>2 DEF indexParagraph
  <2>3. CASE breaks # {}
    <3>1. breaks \in SUBSET Nat
      BY <2>1
    <3>2. Lowest(breaks) \in breaks
      BY <2>3, <3>1, LowestIs
    <3>3. indexParagraph(body, from) = Lowest(breaks)
      BY <2>3 DEF indexParagraph
    <3>4. QED
      BY <1>1, <2>1, <3>2, <3>3
  <2>4. QED
    BY <2>2, <2>3
<1>4. QED
  BY <1>2, <1>3

\* What the window of a snippet around a match is: the runes from c to d.  It
\* has the match, or as much of it as there is room for, and whatever is near
\* enough on both sides.
Around(body, at, len, c, d) ==
    LET room == snippetMaxHard - snippetBefore - snippetMargin
    IN /\ c \in Nat /\ d \in Nat /\ c <= at /\ d <= Len(body)
       /\ d - c <= snippetMaxHard
       /\ at + len <= d \/ at + room <= d
       /\ \A opens \in 0..at, closes \in (at + len)..Len(body) :
             /\ at - opens <= snippetBefore
             /\ closes - (at + len) <= snippetAfter
             /\ closes - opens <= room
             => c <= opens /\ closes <= d

\* snippetAround shows such a window.
LEMMA SnippetWindow ==
    ASSUME NEW body \in Seq(Rune), NEW at \in Nat, NEW len \in Nat,
           at + len <= Len(body)
    PROVE  \E c, d : /\ Around(body, at, len, c, d)
                     /\ snippetAround(body, at, len) = TrimSpace(SubSeq(body, c + 1, d))
<1> DEFINE from == WindowStart(at)
           to == Smaller(at + len + snippetAfter, Len(body))
           c == lastIndexParagraph(body, from)
           end == indexParagraph(body, to)
           d == Smaller(end, c + snippetMaxHard)
           room == snippetMaxHard - snippetBefore - snippetMargin
<1>1. /\ snippetBefore \in Nat /\ snippetAfter \in Nat /\ snippetMargin \in Nat
      /\ snippetMaxHard \in Nat /\ Len(body) \in Nat
  BY SnippetAssumption
<1>2. /\ from \in Nat /\ from <= at /\ at - snippetBefore <= from
      /\ \A opens \in 0..at : at - opens <= snippetBefore => from <= opens
  BY <1>1 DEF WindowStart, Larger
<1>3. /\ to \in Nat /\ to <= Len(body) /\ at + len <= to
      /\ \A closes \in (at + len)..Len(body) :
            closes - (at + len) <= snippetAfter => closes <= to
  BY <1>1 DEF Smaller
<1>4. snippetAround(body, at, len) = TrimSpace(SubSeq(body, c + 1, d))
  BY DEF snippetAround
<1> HIDE DEF from, to
<1>5. c \in Nat /\ c <= from /\ from - snippetMargin <= c
  BY <1>2, WindowEdges
<1>6. end \in Nat /\ to <= end /\ end <= Len(body)
  BY <1>3, WindowEdges
<1> HIDE DEF c, end
<1>7. /\ d \in Nat /\ d <= end /\ d <= c + snippetMaxHard
      /\ d = end \/ d = c + snippetMaxHard
  BY <1>1, <1>5, <1>6 DEF Smaller
<1> HIDE DEF d
<1>8. room \in Int /\ at + room <= c + snippetMaxHard
  BY <1>1, <1>2, <1>5
<1>9. at + len <= d \/ at + room <= d
  BY <1>1, <1>3, <1>5, <1>6, <1>7, <1>8
<1>10. ASSUME NEW opens \in 0..at, NEW closes \in (at + len)..Len(body),
              at - opens <= snippetBefore, closes - (at + len) <= snippetAfter,
              closes - opens <= room
       PROVE  c <= opens /\ closes <= d
  <2>1. c <= opens
    BY <1>2, <1>5, <1>10
  <2>2. closes <= end
    BY <1>3, <1>6, <1>10
  <2>3. closes <= c + snippetMaxHard
    BY <1>1, <1>5, <1>8, <1>10
  <2>4. QED
    BY <1>7, <2>1, <2>2, <2>3
<1>11. Around(body, at, len, c, d)
  BY <1>1, <1>2, <1>5, <1>6, <1>7, <1>9, <1>10 DEF Around
<1>12. QED
  BY <1>4, <1>11 DEF c, d, end, to

\* A query as the search has it: in lower case, without white space at its
\* ends.
LEMMA LoweredQuery ==
    ASSUME NEW query \in Queries, ToLower(collapseQuerySpaces(query)) # << >>
    PROVE  LET q == ToLower(collapseQuerySpaces(query))
           IN /\ q \in Seq(Rune \cup {"q"})
              /\ Trim(q, White) = q
<1> DEFINE w == collapseQuerySpaces(query)
           q == ToLower(w)
<1>1. w \in Words /\ w \in Seq(Rune)
  BY CollapsedQuery, TextsAssumption DEF Words
<1> HIDE DEF w
<1>2. /\ q \in Seq(Rune \cup {"q"}) /\ Len(q) = Len(w) /\ Len(w) \in Nat
      /\ \A i \in 1..Len(w) : q[i] = IF w[i] = "Q" THEN "q" ELSE w[i]
  BY <1>1, LowerIs
<1>3. q # << >>
  BY DEF w
<1> HIDE DEF q
<1>4. Len(q) >= 1 /\ w # << >>
  BY <1>1, <1>2, <1>3
<1>5. w[1] \notin White /\ w[Len(w)] \notin White
  BY <1>1, <1>4 DEF Words
<1>6. "q" \notin White
  BY DEF White, Space, spacesToNormalize
<1>7. q[1] \notin White /\ q[Len(q)] \notin White
  BY <1>2, <1>4, <1>5, <1>6
<1>8. PICK a, b : Left(q, White, a, b) /\ Trim(q, White) = SubSeq(q, a, b)
  <2>1. ~\A i \in 1..Len(q) : q[i] \in White
    BY <1>2, <1>4, <1>7
  <2>2. QED
    BY <1>2, <2>1, TrimIs
<1>9. a = 1 /\ b = Len(q)
  BY <1>2, <1>4, <1>7, <1>8 DEF Left
<1>10. SubSeq(q, 1, Len(q)) = q
  BY <1>2
<1>11. QED
  BY <1>2, <1>8, <1>9, <1>10 DEF q, w

\* The beginning of a part of a sequence.
LEMMA Beginning ==
    ASSUME NEW R, NEW s \in Seq(R), NEW a \in Nat, NEW len \in Nat, a + len <= Len(s),
           NEW m \in Nat, m <= len
    PROVE  SubSeq(SubSeq(s, a + 1, a + len), 1, m) = SubSeq(s, a + 1, a + m)
<1> DEFINE p == SubSeq(s, a + 1, a + len)
           t == SubSeq(p, 0 + 1, m)
           u == SubSeq(s, a + 1, a + m)
<1>1. p \in Seq(R) /\ Len(p) = len /\ \A i \in 1..len : p[i] = s[a + i]
  <2>1. a + len \in Nat /\ (a + len) - a = len /\ a <= a + len
    OBVIOUS
  <2>2. QED
    BY <2>1, Piece
<1>2. u \in Seq(R) /\ Len(u) = m /\ \A i \in 1..m : u[i] = s[a + i]
  <2>1. a + m \in Nat /\ (a + m) - a = m /\ a <= a + m /\ a + m <= Len(s)
    OBVIOUS
  <2>2. QED
    BY <2>1, Piece
<1> HIDE DEF p, u
<1>3. t \in Seq(R) /\ Len(t) = m /\ \A i \in 1..m : t[i] = p[0 + i]
  <2>1. m - 0 = m /\ 0 <= m
    OBVIOUS
  <2>2. QED
    BY <1>1, <2>1, Piece
<1> HIDE DEF t
<1>4. ASSUME NEW i \in 1..m
      PROVE  t[i] = u[i]
  <2>1. i \in 1..len /\ 0 + i = i
    OBVIOUS
  <2>2. QED
    BY <1>1, <1>2, <1>3, <2>1
<1>5. t = u
  BY <1>2, <1>3, <1>4, SeqEqual
<1>6. QED
  BY <1>5 DEF t, p, u

-----------------------------------------------------------------------------
(* What find_in_norm shows.                                                *)

\* The text of the match, of a query of which there is room for all or for
\* the beginning.
ShownPart(q) ==
    LET room == snippetMaxHard - snippetBefore - snippetMargin
    IN IF Len(q) <= room THEN q ELSE TrimSpace(SubSeq(q, 1, room))

\* A window around the match shows its text.
LEMMA WindowShowsMatch ==
    ASSUME NEW body \in Seq(Rune), NEW q \in Seq(Rune \cup {"q"}), Trim(q, White) = q,
           NEW at \in Occurrences(ToLower(body), q), NEW c, NEW d,
           Around(body, at, Len(q), c, d)
    PROVE  Occurrences(ToLower(TrimSpace(SubSeq(body, c + 1, d))), ShownPart(q)) # {}
<1> DEFINE low == ToLower(body)
           room == snippetMaxHard - snippetBefore - snippetMargin
           window == Trim(SubSeq(low, c + 1, d), White)
<1>1. low \in Seq(Rune \cup {"q"}) /\ Len(low) = Len(body) /\ Len(body) \in Nat
  BY LowerIs
<1>2. /\ at \in Nat /\ Len(q) \in Nat /\ at + Len(q) <= Len(body)
      /\ SubSeq(low, at + 1, at + Len(q)) = q
  BY <1>1 DEF Occurrences
<1>3. /\ c \in Nat /\ d \in Nat /\ c <= at /\ d <= Len(body)
      /\ at + Len(q) <= d \/ at + room <= d
  BY DEF Around
<1>4. ToLower(TrimSpace(SubSeq(body, c + 1, d))) = window
  <2>1. SubSeq(body, c + 1, d) \in Seq(Rune)
    BY <1>3, Piece
  <2>2. ToLower(SubSeq(body, c + 1, d)) = SubSeq(low, c + 1, d)
    BY <1>3, LowerOfPiece
  <2>3. QED
    BY <2>1, <2>2, LowerOfTrim
<1>5. room \in Int
  BY SnippetAssumption
<1> HIDE DEF low, room
<1>6. CASE Len(q) <= room
  <2>1. at + Len(q) \in Nat /\ at + Len(q) <= d
    BY <1>2, <1>3, <1>5, <1>6
  <2>2. Occurrences(window, Trim(SubSeq(low, at + 1, at + Len(q)), White)) # {}
    BY <1>1, <1>2, <1>3, <2>1, TrimmedInside
  <2>3. ShownPart(q) = q
    BY <1>6 DEF ShownPart, room
  <2>4. QED
    BY <1>2, <1>4, <2>2, <2>3
<1>7. CASE ~(Len(q) <= room)
  <2>1. ShownPart(q) = Trim(SubSeq(q, 1, room), White)
    BY <1>7 DEF ShownPart, TrimSpace, White, room
  <2>2. CASE room < 0
    <3>1. SubSeq(q, 1, room) = << >> /\ SubSeq(low, c + 1, 0) = << >>
      BY <1>1, <1>3, <1>5, <2>2
    <3>2. Occurrences(window, Trim(SubSeq(low, c + 1, 0), White)) # {}
      BY <1>1, <1>3, TrimmedInside
    <3>3. QED
      BY <1>4, <2>1, <3>1, <3>2
  <2>3. CASE room >= 0
    <3>1. room \in Nat /\ room <= Len(q) /\ at + room \in Nat /\ at + room <= d
      BY <1>2, <1>3, <1>5, <1>7, <2>3
    <3>2. SubSeq(q, 1, room) = SubSeq(low, at + 1, at + room)
      BY <1>1, <1>2, <3>1, Beginning
    <3>3. Occurrences(window, Trim(SubSeq(low, at + 1, at + room), White)) # {}
      BY <1>1, <1>2, <1>3, <3>1, TrimmedInside
    <3>4. QED
      BY <1>4, <2>1, <3>2, <3>3
  <2>4. QED
    BY <1>5, <2>2, <2>3
<1>8. QED
  BY <1>6, <1>7

\* It is no longer than the cap.
LEMMA WindowCapped ==
    ASSUME NEW body \in Seq(Rune), NEW at, NEW len, NEW c, NEW d,
           Around(body, at, len, c, d)
    PROVE  Len(TrimSpace(SubSeq(body, c + 1, d))) <= snippetMaxHard
<1> DEFINE p == SubSeq(body, c + 1, d)
<1>1. c \in Nat /\ d \in Nat /\ d <= Len(body) /\ d - c <= snippetMaxHard
  BY DEF Around
<1>2. snippetMaxHard \in Nat
  BY SnippetAssumption
<1>3. p \in Seq(Rune) /\ Len(p) = IF c <= d THEN d - c ELSE 0
  BY <1>1, Piece
<1> HIDE DEF p
<1>4. Len(TrimSpace(p)) <= Len(p) /\ Len(TrimSpace(p)) \in Nat
  <2>1. TrimSpace(p) \in Seq(Rune) /\ Len(TrimSpace(p)) <= Len(p)
    BY <1>3, TrimKeeps DEF TrimSpace
  <2>2. QED
    BY <2>1
<1>5. Len(p) <= snippetMaxHard /\ Len(p) \in Nat
  BY <1>1, <1>2, <1>3
<1>6. Len(TrimSpace(p)) <= snippetMaxHard
  BY <1>2, <1>4, <1>5
<1>7. QED
  BY <1>6 DEF p

\* It shows whole a paragraph that is near enough on both sides.
LEMMA WindowShowsParagraph ==
    ASSUME NEW body \in Seq(Rune), NEW at \in Nat, NEW len \in Nat, NEW c, NEW d,
           Around(body, at, len, c, d),
           NEW opens \in 0..at, NEW closes \in (at + len)..Len(body),
           at - opens <= snippetBefore,
           closes - (at + len) <= snippetAfter,
           closes - opens <= snippetMaxHard - snippetBefore - snippetMargin
    PROVE  Occurrences(TrimSpace(SubSeq(body, c + 1, d)),
                       TrimSpace(SubSeq(body, opens + 1, closes))) # {}
<1>1. c \in Nat /\ d \in Nat /\ d <= Len(body) /\ c <= opens /\ closes <= d
  BY DEF Around
<1>2. opens \in Nat /\ closes \in Nat
  OBVIOUS
<1>3. Occurrences(Trim(SubSeq(body, c + 1, d), White),
                  Trim(SubSeq(body, opens + 1, closes), White)) # {}
  BY <1>1, <1>2, TrimmedInside
<1>4. QED
  BY <1>3 DEF TrimSpace, White

\* What find_in_norm has shown is the snippet of the first match.
FoundRight(shown) ==
    LET q == Query(shown)
        hit == firstContaining(Clean(text), q)
    IN /\ text.kind = "markdown"
       /\ shown = [query |-> shown.query,
                   panic |-> Panics(hit.piece, hit.idx),
                   snippet |-> IF Panics(hit.piece, hit.idx) THEN << >>
                               ELSE snippetAround(hit.piece, hit.idx, Bytes(q))]
       /\ shown.query \in Queries
       /\ q # << >>
       /\ Containing(Clean(text), q) # {}

FoundInv == /\ text \in Texts
            /\ \A shown \in found : FoundRight(shown)

\* A text is immutable, and so is what was shown of it.
LEMMA FoundInvariance == TextSpec => []FoundInv
<1>1. TextInit => FoundInv
  BY DEF TextInit, FoundInv
<1>2. FoundInv /\ [TextNext]_textVars => FoundInv'
  <2> SUFFICES ASSUME FoundInv, [TextNext]_textVars
               PROVE  FoundInv'
    OBVIOUS
  <2>1. text' = text
    BY DEF TextNext, PaginateDictamen, FindInNorm, textVars
  <2>2. ASSUME NEW shown, FoundRight(shown)
        PROVE  FoundRight(shown)'
    BY <2>1, <2>2 DEF FoundRight, Query, Clean
  <2>3. CASE UNCHANGED found
    BY <2>1, <2>2, <2>3 DEF FoundInv
  <2>4. ASSUME NEW query \in Queries, FindInNorm(query)
        PROVE  FoundInv'
    <3> DEFINE q == ToLower(collapseQuerySpaces(query))
               hit == firstContaining(Clean(text), q)
               new == [query |-> query,
                       panic |-> Panics(hit.piece, hit.idx),
                       snippet |-> IF Panics(hit.piece, hit.idx) THEN << >>
                                   ELSE snippetAround(hit.piece, hit.idx, Bytes(q))]
    <3>1. /\ text.kind = "markdown" /\ q # << >> /\ Containing(Clean(text), q) # {}
          /\ found' = found \cup {new}
      BY <2>4 DEF FindInNorm
    <3>2. new.query = query /\ Query(new) = q
      BY DEF Query
    <3>3. FoundRight(new)
      BY <3>1, <3>2 DEF FoundRight
    <3> HIDE DEF new
    <3>4. QED
      BY <2>1, <2>2, <3>1, <3>3 DEF FoundInv
  <2>5. QED
    BY <2>3, <2>4 DEF TextNext, PaginateDictamen, textVars
<1>3. QED
  BY <1>1, <1>2, PTL DEF TextSpec

\* The pieces of a section, sanitized.
LEMMA CleanMarkdown ==
    ASSUME text \in Texts, text.kind = "markdown"
    PROVE  /\ DOMAIN Clean(text) \in SUBSET Nat
           /\ \A k \in DOMAIN Clean(text) : Clean(text)[k] \in Seq(Rune)
<1>1. text.pieces \in Seq(Seq(Rune))
  BY TextsAssumption
<1>2. DOMAIN text.pieces = 1..Len(text.pieces) /\ Len(text.pieces) \in Nat
  BY <1>1
<1>3. DOMAIN Clean(text) = DOMAIN text.pieces
  BY DEF Clean
<1>4. ASSUME NEW k \in DOMAIN text.pieces
      PROVE  Clean(text)[k] \in Seq(Rune)
  <2>1. text.pieces[k] \in Seq(Rune)
    BY <1>1, <1>2
  <2> DEFINE s == text.pieces[k]
  <2>2. Clean(text)[k] = normalize(s)
    BY DEF Clean, Sanitized, Stripped
  <2> HIDE DEF s
  <2>3. s \in Seq(Rune) /\ Len(s) \in 0..Len(s)
    BY <2>1 DEF s
  <2>4. /\ Passes(s)[Len(s)] \in Pass(Rune)
        /\ normalize(s) = TrimSpace(Passes(s)[Len(s)].out)
    BY <2>3, TextsAssumption, PassesAre
  <2>5. Passes(s)[Len(s)].out \in Seq(Rune)
    BY <2>4 DEF Pass
  <2>6. QED
    BY <2>2, <2>4, <2>5, TrimKeeps DEF TrimSpace
<1>5. QED
  BY <1>2, <1>3, <1>4

\* The first match: its piece and the runes before it.
LEMMA FirstMatch ==
    ASSUME FoundInv, NEW shown \in found
    PROVE  LET q == Query(shown)
               hit == firstContaining(Clean(text), q)
           IN /\ Body(shown) \in Seq(Rune)
              /\ At(shown) \in Occurrences(ToLower(Body(shown)), q)
              /\ q \in Seq(Rune \cup {"q"}) /\ Trim(q, White) = q
              /\ hit.piece = Body(shown)
              /\ hit.idx = Bytes(SubSeq(Body(shown), 1, At(shown)))
<1> DEFINE q == Query(shown)
           S == Containing(Clean(text), q)
<1>1. FoundRight(shown)
  BY DEF FoundInv
<1>2. q \in Seq(Rune \cup {"q"}) /\ Trim(q, White) = q
  BY <1>1, LoweredQuery DEF FoundRight, Query
<1>3. S # {}
  BY <1>1 DEF FoundRight
<1>4. S \in SUBSET DOMAIN Clean(text)
  BY DEF Containing
<1>5. text \in Texts /\ text.kind = "markdown"
  BY <1>1 DEF FoundInv, FoundRight
<1>6. S \in SUBSET Nat
  BY <1>4, <1>5, CleanMarkdown
<1>7. Lowest(S) \in S
  BY <1>3, <1>6, LowestIs
<1>8. Body(shown) = Clean(text)[Lowest(S)]
  BY DEF Body
<1>9. Body(shown) \in Seq(Rune)
  BY <1>4, <1>5, <1>7, <1>8, CleanMarkdown
<1>10. Occurrences(ToLower(Body(shown)), q) # {}
  BY <1>7, <1>8 DEF Containing
<1>11. Occurrences(ToLower(Body(shown)), q) \in SUBSET Nat
  BY DEF Occurrences
<1>12. At(shown) \in Occurrences(ToLower(Body(shown)), q)
  BY <1>10, <1>11, LowestIs DEF At
<1>13. /\ firstContaining(Clean(text), q).piece = Body(shown)
       /\ firstContaining(Clean(text), q).idx = Bytes(SubSeq(Body(shown), 1, At(shown)))
  BY <1>8 DEF firstContaining, At
<1>14. QED
  BY <1>2, <1>9, <1>12, <1>13

\* Every snippet shows its match, or as much of the match as there is room
\* for, keeps to the cap and has the paragraph of the match when it fits: for
\* every text and query, whatever the window, the margin and the cap.
THEOREM SnippetsShowMatches == TextSpec => []SnippetShowsMatch
<1>1. ASSUME FoundInv, NEW shown \in found,
             OneByte(SubSeq(Body(shown), 1, At(shown) + Len(Query(shown))))
      PROVE  LET body == Body(shown)
                 q == Query(shown)
                 room == snippetMaxHard - snippetBefore - snippetMargin
                 matchEnd == At(shown) + Len(q)
                 opens == Highest({0} \cup {i \in 2..At(shown) :
                                              ParagraphAt(body, i - 2)})
                 closes == Lowest({Len(body)} \cup {i \in matchEnd..(Len(body) - 2) :
                                                      ParagraphAt(body, i)})
             IN /\ ~shown.panic
                /\ Occurrences(ToLower(shown.snippet),
                               IF Len(q) <= room THEN q
                               ELSE TrimSpace(SubSeq(q, 1, room))) # {}
                /\ Len(shown.snippet) <= snippetMaxHard
                /\ /\ At(shown) - opens <= snippetBefore
                   /\ closes - matchEnd <= snippetAfter
                   /\ closes - opens <= room
                   => Occurrences(shown.snippet,
                                  TrimSpace(SubSeq(body, opens + 1, closes))) # {}
  <2> DEFINE body == Body(shown)
             q == Query(shown)
             at == At(shown)
             low == ToLower(body)
             hit == firstContaining(Clean(text), q)
             room == snippetMaxHard - snippetBefore - snippetMargin
             matchEnd == at + Len(q)
             openings == {0} \cup {i \in 2..at : ParagraphAt(body, i - 2)}
             closings == {Len(body)} \cup {i \in matchEnd..(Len(body) - 2) :
                                             ParagraphAt(body, i)}
             opens == Highest(openings)
             closes == Lowest(closings)
  <2>1. /\ body \in Seq(Rune) /\ at \in Occurrences(low, q)
        /\ q \in Seq(Rune \cup {"q"}) /\ Trim(q, White) = q
        /\ hit.piece = body /\ hit.idx = Bytes(SubSeq(body, 1, at))
    BY <1>1, FirstMatch
  <2>2. shown.panic = Panics(hit.piece, hit.idx)
        /\ shown.snippet = IF Panics(hit.piece, hit.idx) THEN << >>
                           ELSE snippetAround(hit.piece, hit.idx, Bytes(q))
    BY <1>1 DEF FoundInv, FoundRight
  <2>3. OneByte(SubSeq(body, 1, matchEnd))
    BY <1>1
  <2> HIDE DEF hit, body, q, at
  <2>4. low \in Seq(Rune \cup {"q"}) /\ Len(low) = Len(body) /\ Len(body) \in Nat
    BY <2>1, LowerIs
  <2>5. /\ at \in Nat /\ Len(q) \in Nat /\ matchEnd \in Nat /\ matchEnd <= Len(body)
        /\ at <= matchEnd
        /\ SubSeq(low, at + 1, matchEnd) = q
    BY <2>1, <2>4 DEF Occurrences
  <2> HIDE DEF low
  <2>6. hit.idx = at
    <3> DEFINE p == SubSeq(body, 0 + 1, at)
               m == SubSeq(body, 0 + 1, matchEnd)
    <3>1. /\ m \in Seq(Rune) /\ Len(m) = matchEnd
          /\ \A i \in 1..matchEnd : m[i] = body[0 + i]
      BY <2>1, <2>5, Piece
    <3>2. /\ p \in Seq(Rune) /\ Len(p) = at
          /\ \A i \in 1..at : p[i] = body[0 + i]
      BY <2>1, <2>4, <2>5, Piece
    <3>3. OneByte(m)
      BY <2>3
    <3> HIDE DEF p, m
    <3>4. ASSUME NEW i \in 1..at
          PROVE  Width(p[i]) = 1
      <4>1. i \in 1..matchEnd
        BY <2>5
      <4>2. QED
        BY <3>1, <3>2, <3>3, <4>1 DEF OneByte
    <3>5. OneByte(p)
      BY <2>5, <3>2, <3>4 DEF OneByte
    <3>6. Bytes(p) = at
      BY <3>2, <3>5, BytesAre
    <3>7. QED
      BY <2>1, <3>6 DEF p
  <2>7. Bytes(q) = Len(q)
    <3> DEFINE m == SubSeq(body, 0 + 1, matchEnd)
    <3>1. /\ m \in Seq(Rune) /\ Len(m) = matchEnd
      BY <2>1, <2>5, Piece
    <3>2. ToLower(m) = SubSeq(low, 0 + 1, matchEnd)
      BY <2>1, <2>5, LowerOfPiece DEF low
    <3>3. OneByte(m)
      BY <2>3
    <3>4. OneByte(SubSeq(low, 0 + 1, matchEnd))
      BY <3>1, <3>2, <3>3, LowerOneByte
    <3>5. /\ SubSeq(low, 0 + 1, matchEnd) \in Seq(Rune \cup {"q"})
          /\ Len(SubSeq(low, 0 + 1, matchEnd)) = matchEnd
          /\ \A i \in 1..matchEnd : SubSeq(low, 0 + 1, matchEnd)[i] = low[0 + i]
      BY <2>4, <2>5, Piece
    <3>6. \A i \in 1..Len(q) : q[i] = low[at + i]
      <4>1. matchEnd - at = Len(q)
        BY <2>5
      <4>2. \A i \in 1..(matchEnd - at) : SubSeq(low, at + 1, matchEnd)[i] = low[at + i]
        BY <2>4, <2>5, Piece
      <4>3. QED
        BY <2>5, <4>1, <4>2
    <3>7. ASSUME NEW i \in 1..Len(q)
          PROVE  Width(q[i]) = 1
      <4>1. at + i \in 1..matchEnd /\ 0 + (at + i) = at + i
        BY <2>5
      <4>2. Width(low[at + i]) = 1
        BY <3>4, <3>5, <4>1 DEF OneByte
      <4>3. QED
        BY <3>6, <4>2
    <3>8. OneByte(q)
      BY <2>1, <3>7 DEF OneByte
    <3>9. QED
      BY <2>1, <3>8, BytesAre
  <2>8. ~Panics(body, at)
    BY <2>4, <2>5, SnippetAssumption DEF Panics, WindowStart, Larger
  <2>9. ~shown.panic /\ shown.snippet = snippetAround(body, at, Len(q))
    BY <2>1, <2>2, <2>6, <2>7, <2>8
  <2>10. PICK c, d : /\ Around(body, at, Len(q), c, d)
                     /\ shown.snippet = TrimSpace(SubSeq(body, c + 1, d))
    BY <2>1, <2>5, <2>9, SnippetWindow
  <2>11. Occurrences(ToLower(shown.snippet), ShownPart(q)) # {}
    BY <2>1, <2>10, WindowShowsMatch DEF low
  <2>12. Len(shown.snippet) <= snippetMaxHard
    BY <2>1, <2>10, WindowCapped
  <2>13. opens \in 0..at
    <3>1. openings \in SUBSET Nat /\ openings # {} /\ \A i \in openings : i <= at
      BY <2>5
    <3>2. opens \in openings
      BY <2>5, <3>1, HighestIs
    <3>3. QED
      BY <3>1, <3>2
  <2>14. closes \in matchEnd..Len(body)
    <3>1. closings \in SUBSET Nat /\ closings # {}
          /\ \A i \in closings : i \in matchEnd..Len(body)
      BY <2>4, <2>5
    <3>2. closes \in closings
      BY <3>1, LowestIs
    <3>3. QED
      BY <3>1, <3>2
  <2> HIDE DEF opens, closes
  <2>15. ASSUME at - opens <= snippetBefore, closes - matchEnd <= snippetAfter,
                closes - opens <= room
         PROVE  Occurrences(shown.snippet, TrimSpace(SubSeq(body, opens + 1, closes))) # {}
    <3>1. /\ body \in Seq(Rune) /\ at \in Nat /\ Len(q) \in Nat
          /\ Around(body, at, Len(q), c, d)
      BY <2>1, <2>5, <2>10
    <3>2. Occurrences(TrimSpace(SubSeq(body, c + 1, d)),
                      TrimSpace(SubSeq(body, opens + 1, closes))) # {}
      BY <2>13, <2>14, <2>15, <3>1, WindowShowsParagraph
    <3>3. QED
      BY <2>10, <3>2
  <2>16. QED
    BY <2>9, <2>11, <2>12, <2>15 DEF ShownPart, opens, closes, body, q, at
<1>2. FoundInv => SnippetShowsMatch
  BY <1>1 DEF SnippetShowsMatch
<1>3. QED
  BY <1>2, FoundInvariance, PTL

\* A snippet is a text.
LEMMA SnippetTyped ==
    ASSUME NEW body \in Seq(Rune), NEW idx \in Nat, NEW qlen \in Nat
    PROVE  snippetAround(body, idx, qlen) \in Seq(Rune)
<1> DEFINE from == WindowStart(idx)
           to == Smaller(idx + qlen + snippetAfter, Len(body))
           c == lastIndexParagraph(body, from)
           end == indexParagraph(body, to)
           d == Smaller(end, c + snippetMaxHard)
<1>1. /\ snippetBefore \in Nat /\ snippetAfter \in Nat /\ snippetMaxHard \in Nat
      /\ Len(body) \in Nat
  BY SnippetAssumption
<1>2. from \in Nat
  BY <1>1 DEF WindowStart, Larger
<1>3. to \in Nat /\ to <= Len(body)
  BY <1>1 DEF Smaller
<1>4. snippetAround(body, idx, qlen) = TrimSpace(SubSeq(body, c + 1, d))
  BY DEF snippetAround
<1> HIDE DEF from, to
<1>5. c \in Nat /\ end \in Nat /\ end <= Len(body)
  BY <1>2, <1>3, WindowEdges
<1> HIDE DEF c, end
<1>6. d \in Nat /\ d <= Len(body)
  BY <1>1, <1>5 DEF Smaller
<1> HIDE DEF d
<1>7. SubSeq(body, c + 1, d) \in Seq(Rune)
  BY <1>5, <1>6, Piece
<1>8. QED
  BY <1>4, <1>7, TrimKeeps DEF TrimSpace

\* Texts and snippets have their types.
THEOREM TextTypeCorrect == TextSpec => []TextTypeOK
<1>1. ASSUME FoundInv, NEW shown \in found
      PROVE  shown \in Shown
  <2> DEFINE q == Query(shown)
             hit == firstContaining(Clean(text), q)
             p == SubSeq(Body(shown), 0 + 1, At(shown))
  <2>1. /\ Body(shown) \in Seq(Rune)
        /\ At(shown) \in Occurrences(ToLower(Body(shown)), q)
        /\ q \in Seq(Rune \cup {"q"})
        /\ hit.piece = Body(shown) /\ hit.idx = Bytes(p)
    BY <1>1, FirstMatch
  <2>2. /\ shown = [query |-> shown.query,
                    panic |-> Panics(hit.piece, hit.idx),
                    snippet |-> IF Panics(hit.piece, hit.idx) THEN << >>
                                ELSE snippetAround(hit.piece, hit.idx, Bytes(q))]
        /\ shown.query \in Queries
    BY <1>1 DEF FoundInv, FoundRight
  <2> HIDE DEF hit, q
  <2>3. Len(ToLower(Body(shown))) = Len(Body(shown)) /\ Len(Body(shown)) \in Nat
        /\ Len(q) \in Nat
    BY <2>1, LowerIs
  <2>4. At(shown) \in Nat /\ At(shown) <= Len(Body(shown))
    BY <2>1, <2>3 DEF Occurrences
  <2>5. p \in Seq(Rune)
    BY <2>1, <2>4, Piece
  <2>6. hit.idx \in Nat /\ Bytes(q) \in Nat
    BY <2>1, <2>5, BytesAre
  <2>7. snippetAround(hit.piece, hit.idx, Bytes(q)) \in Seq(Rune)
    BY <2>1, <2>6, SnippetTyped
  <2> DEFINE query == shown.query
             panic == Panics(hit.piece, hit.idx)
             snippet == IF Panics(hit.piece, hit.idx) THEN << >>
                        ELSE snippetAround(hit.piece, hit.idx, Bytes(q))
  <2>8. panic \in BOOLEAN /\ snippet \in Seq(Rune) /\ query \in Queries
    BY <2>2, <2>7 DEF Panics
  <2>9. shown = [query |-> query, panic |-> panic, snippet |-> snippet]
    BY <2>2
  <2> HIDE DEF query, panic, snippet
  <2>10. QED
    BY <2>8, <2>9 DEF Shown
<1>2. TypeOK /\ FoundInv => TextTypeOK
  BY <1>1 DEF TextTypeOK, FoundInv
<1>3. QED
  BY <1>2, FoundInvariance, TextsPaginate, PaginationTypeCorrect, PTL

-----------------------------------------------------------------------------
(* What normalize's pass takes away, and what it leaves.                   *)

\* The runes the pass keeps as they are: those a reader sees, and tabs.
Solid(r) == r \notin Noise \cup Space \cup {"nl"}

\* What is gathered with a rune that is kept.
Kept(at, r) ==
    (IF at.pendingSpace /\ ~at.atLineStart THEN Append(at.out, "sp") ELSE at.out) \o <<r>>

\* A step of the pass, by the kind of the rune.  Noise is dropped.
LEMMA NoiseStep ==
    ASSUME NEW R, NEW at \in Pass(R), NEW r \in R, r \in Noise
    PROVE  Step(at, r) = at
<1>1. r \in zeroWidthChars \cup controls
  BY DEF Noise
<1>2. /\ r \notin Space /\ r # "nl"
  BY <1>1 DEF Space, spacesToNormalize, zeroWidthChars, controls
<1>3. QED
  BY <1>1, <1>2 DEF Step

\* A space is left for later: it shows only if a rune is kept after it.
LEMMA SpaceStep ==
    ASSUME NEW R, NEW at \in Pass(R), NEW r \in R, r \in Space
    PROVE  /\ Step(at, r).out = at.out
           /\ Step(at, r).pendingSpace = TRUE
           /\ Step(at, r).atLineStart = at.atLineStart
           /\ Step(at, r).newlineRun = at.newlineRun
<1>1. /\ Space = {"sp", "nbsp"}
      /\ zeroWidthChars \cup controls = {"zw", "ctl"}
  BY DEF Space, spacesToNormalize, zeroWidthChars, controls
<1>2. Step(at, r) = [at EXCEPT !.pendingSpace = TRUE]
  BY <1>1 DEF Step
<1>3. QED
  BY <1>2 DEF Pass

\* A newline is kept unless two are, and forgets the space before it.
LEMMA NewlineStep ==
    ASSUME NEW R, NEW at \in Pass(R), NEW r \in R, r = "nl"
    PROVE  /\ Step(at, r).out = IF at.newlineRun < 2 THEN Append(at.out, "nl")
                                                   ELSE at.out
           /\ Step(at, r).pendingSpace = FALSE
           /\ Step(at, r).atLineStart = TRUE
           /\ Step(at, r).newlineRun = at.newlineRun + 1
<1>1. /\ Space = {"sp", "nbsp"}
      /\ zeroWidthChars \cup controls = {"zw", "ctl"}
  BY DEF Space, spacesToNormalize, zeroWidthChars, controls
<1>2. Step(at, r) =
         [out |-> IF at.newlineRun < 2 THEN Append(at.out, "nl") ELSE at.out,
          pendingSpace |-> FALSE, atLineStart |-> TRUE,
          newlineRun |-> at.newlineRun + 1]
  BY <1>1 DEF Step
<1> DEFINE out == IF at.newlineRun < 2 THEN Append(at.out, "nl") ELSE at.out
           run == at.newlineRun + 1
<1>3. Step(at, r) = [out |-> out, pendingSpace |-> FALSE, atLineStart |-> TRUE,
                     newlineRun |-> run]
  BY <1>2
<1> HIDE DEF out, run
<1>4. /\ Step(at, r).out = out /\ Step(at, r).pendingSpace = FALSE
      /\ Step(at, r).atLineStart = TRUE /\ Step(at, r).newlineRun = run
  BY <1>3
<1>5. QED
  BY <1>4 DEF out, run

\* Any other rune is kept, after the space that was left.
LEMMA SolidStep ==
    ASSUME NEW R, NEW at \in Pass(R), NEW r \in R, Solid(r)
    PROVE  /\ Step(at, r).out = Kept(at, r)
           /\ Step(at, r).pendingSpace = FALSE
           /\ Step(at, r).atLineStart = FALSE
           /\ Step(at, r).newlineRun = 0
<1>1. Step(at, r) = [out |-> Kept(at, r), pendingSpace |-> FALSE,
                     atLineStart |-> FALSE, newlineRun |-> 0]
  BY DEF Step, Solid, Noise, Kept
<1>2. QED
  BY <1>1

\* The kinds of gaps, by what stands in them.
LEMMA GapParagraph ==
    ASSUME NEW s, NEW i \in Nat, NEW j \in Nat, NEW k \in (i + 1)..(j - 1),
           NEW l \in (i + 1)..(j - 1), k # l, s[k] = "nl", s[l] = "nl"
    PROVE  Gap(s, i, j) = "paragraph"
<1> DEFINE between == {m \in (i + 1)..(j - 1) : s[m] \notin Noise}
           breaks == {m \in between : s[m] = "nl"}
<1>1. "nl" \notin Noise
  BY DEF Noise, zeroWidthChars, controls
<1>2. k \in breaks /\ l \in breaks
  BY <1>1
<1>3. IsFiniteSet(breaks)
  <2>1. IsFiniteSet((i + 1)..(j - 1))
    BY FS_Interval
  <2>2. QED
    BY <2>1, FS_Subset
<1>4. {k, l} \subseteq breaks /\ Cardinality({k, l}) = 2
  <2>1. IsFiniteSet({k}) /\ Cardinality({k}) = 1
    BY FS_Singleton
  <2>2. Cardinality({k} \cup {l}) = Cardinality({k}) + 1
    BY <2>1, FS_AddElement
  <2>3. {k} \cup {l} = {k, l}
    OBVIOUS
  <2>4. QED
    BY <1>2, <2>1, <2>2, <2>3
<1>5. Cardinality(breaks) \in Nat /\ 2 <= Cardinality(breaks)
  BY <1>3, <1>4, FS_Subset, FS_CardinalityType
<1> HIDE DEF breaks
<1>6. Cardinality(breaks) > 1 /\ Cardinality(breaks) # 1 /\ breaks # {}
  BY <1>2, <1>5
<1>7. QED
  BY <1>6 DEF Gap, breaks

\* One newline makes a line boundary ...
LEMMA GapLine ==
    ASSUME NEW s, NEW i \in Nat, NEW j \in Nat, NEW k \in (i + 1)..(j - 1),
           s[k] = "nl", \A l \in (i + 1)..(j - 1) : s[l] = "nl" => l = k
    PROVE  Gap(s, i, j) = "line"
<1> DEFINE between == {m \in (i + 1)..(j - 1) : s[m] \notin Noise}
           breaks == {m \in between : s[m] = "nl"}
<1>1. "nl" \notin Noise
  BY DEF Noise, zeroWidthChars, controls
<1>2. breaks = {k}
  BY <1>1
<1>3. Cardinality(breaks) = 1
  BY <1>2, FS_Singleton
<1> HIDE DEF breaks
<1>4. ~(Cardinality(breaks) > 1) /\ Cardinality(breaks) = 1 /\ breaks # {}
  BY <1>2, <1>3
<1>5. QED
  BY <1>4 DEF Gap, breaks

\* ... no newline, but something that is not noise, a word boundary ...
LEMMA GapSpace ==
    ASSUME NEW s, NEW i \in Nat, NEW j \in Nat, NEW k \in (i + 1)..(j - 1),
           s[k] \notin Noise, \A l \in (i + 1)..(j - 1) : s[l] # "nl"
    PROVE  Gap(s, i, j) = "space"
<1> DEFINE between == {m \in (i + 1)..(j - 1) : s[m] \notin Noise}
           breaks == {m \in between : s[m] = "nl"}
<1>1. breaks = {} /\ between # {}
  OBVIOUS
<1>2. Cardinality(breaks) = 0
  BY <1>1, FS_EmptySet
<1> HIDE DEF breaks, between
<1>3. ~(Cardinality(breaks) > 1) /\ Cardinality(breaks) # 1
  BY <1>2
<1>4. QED
  BY <1>1, <1>3 DEF Gap, breaks, between

\* ... and noise alone makes no gap.
LEMMA GapNone ==
    ASSUME NEW s, NEW i \in Nat, NEW j \in Nat,
           \A k \in (i + 1)..(j - 1) : s[k] \in Noise
    PROVE  Gap(s, i, j) = "none"
<1> DEFINE between == {m \in (i + 1)..(j - 1) : s[m] \notin Noise}
           breaks == {m \in between : s[m] = "nl"}
<1>1. breaks = {} /\ between = {}
  OBVIOUS
<1>2. Cardinality(breaks) = 0
  BY <1>1, FS_EmptySet
<1> HIDE DEF breaks, between
<1>3. ~(Cardinality(breaks) > 1) /\ Cardinality(breaks) # 1
  BY <1>2
<1>4. QED
  BY <1>1, <1>3 DEF Gap, breaks, between

\* The runes between i and j of s stand c places later in t.
Moved(s, t, i, j, c) == \A k \in (i + 1)..(j - 1) : t[k + c] = s[k]

\* A gap depends on the runes between, wherever they stand.
LEMMA GapMoved ==
    ASSUME NEW s, NEW t, NEW i \in Nat, NEW j \in Nat, NEW c \in Nat,
           Moved(s, t, i, j, c)
    PROVE  Gap(t, i + c, j + c) = Gap(s, i, j)
<1>1. \A k \in (i + 1)..(j - 1) : k + c \in ((i + c) + 1)..((j + c) - 1)
  OBVIOUS
<1>2. \A k \in ((i + c) + 1)..((j + c) - 1) : k - c \in (i + 1)..(j - 1) /\ t[k] = s[k - c]
  <2>1. ASSUME NEW k \in ((i + c) + 1)..((j + c) - 1)
        PROVE  k - c \in (i + 1)..(j - 1) /\ t[k] = s[k - c]
    <3>1. k - c \in (i + 1)..(j - 1) /\ (k - c) + c = k
      OBVIOUS
    <3>2. t[(k - c) + c] = s[k - c]
      BY <3>1 DEF Moved
    <3>3. QED
      BY <3>1, <3>2
  <2>2. QED
    BY <2>1
<1>3. CASE \E k, l \in (i + 1)..(j - 1) : k # l /\ s[k] = "nl" /\ s[l] = "nl"
  <2>1. PICK k \in (i + 1)..(j - 1), l \in (i + 1)..(j - 1) :
           k # l /\ s[k] = "nl" /\ s[l] = "nl"
    BY <1>3
  <2>2. Gap(s, i, j) = "paragraph"
    BY <2>1, GapParagraph
  <2>3. /\ k + c \in ((i + c) + 1)..((j + c) - 1) /\ l + c \in ((i + c) + 1)..((j + c) - 1)
        /\ k + c # l + c /\ t[k + c] = "nl" /\ t[l + c] = "nl"
    BY <1>1, <2>1 DEF Moved
  <2>4. Gap(t, i + c, j + c) = "paragraph"
    BY <2>3, GapParagraph
  <2>5. QED
    BY <2>2, <2>4
<1>4. CASE \E k \in (i + 1)..(j - 1) :
             s[k] = "nl" /\ \A l \in (i + 1)..(j - 1) : s[l] = "nl" => l = k
  <2>1. PICK k \in (i + 1)..(j - 1) :
           s[k] = "nl" /\ \A l \in (i + 1)..(j - 1) : s[l] = "nl" => l = k
    BY <1>4
  <2>2. Gap(s, i, j) = "line"
    BY <2>1, GapLine
  <2>3. k + c \in ((i + c) + 1)..((j + c) - 1) /\ t[k + c] = "nl"
    BY <1>1, <2>1 DEF Moved
  <2>4. \A l \in ((i + c) + 1)..((j + c) - 1) : t[l] = "nl" => l = k + c
    BY <1>2, <2>1
  <2>5. Gap(t, i + c, j + c) = "line"
    BY <2>3, <2>4, GapLine
  <2>6. QED
    BY <2>2, <2>5
<1>5. CASE /\ \A l \in (i + 1)..(j - 1) : s[l] # "nl"
           /\ \E k \in (i + 1)..(j - 1) : s[k] \notin Noise
  <2>1. PICK k \in (i + 1)..(j - 1) : s[k] \notin Noise
    BY <1>5
  <2>2. Gap(s, i, j) = "space"
    BY <1>5, <2>1, GapSpace
  <2>3. k + c \in ((i + c) + 1)..((j + c) - 1) /\ t[k + c] \notin Noise
    BY <1>1, <2>1 DEF Moved
  <2>4. \A l \in ((i + c) + 1)..((j + c) - 1) : t[l] # "nl"
    BY <1>2, <1>5
  <2>5. Gap(t, i + c, j + c) = "space"
    BY <2>3, <2>4, GapSpace
  <2>6. QED
    BY <2>2, <2>5
<1>6. CASE \A k \in (i + 1)..(j - 1) : s[k] \in Noise
  <2>1. Gap(s, i, j) = "none"
    BY <1>6, GapNone
  <2>2. \A k \in ((i + c) + 1)..((j + c) - 1) : t[k] \in Noise
    BY <1>2, <1>6
  <2>3. i + c \in Nat /\ j + c \in Nat
    OBVIOUS
  <2>4. Gap(t, i + c, j + c) = "none"
    BY <2>2, <2>3, GapNone
  <2>5. QED
    BY <2>1, <2>4
<1>7. QED
  BY <1>3, <1>4, <1>5, <1>6

\* q lists the members of S in increasing order.
Enumerates(q, S) ==
    /\ q \in Seq(Nat)
    /\ \A k, l \in 1..Len(q) : k < l => q[k] < q[l]
    /\ \A k \in 1..Len(q) : q[k] \in S
    /\ \A i \in S : \E k \in 1..Len(q) : q[k] = i

\* The places of the runes a pass keeps, up to i.
Solids(s, i) == {p \in 1..i : Solid(s[p])}

\* What the pass knows, after i runes of s, of the gap it stands in: it began
\* after the rune p of s, the rune e of what was gathered (0: at the start).
Standing(s, i, at, p, e) ==
    /\ p \in 0..i /\ e \in 0..Len(at.out) /\ (p = 0 <=> e = 0)
    /\ Len(at.out) = e + Smaller(at.newlineRun, 2)
    /\ \A j \in (e + 1)..Len(at.out) : at.out[j] = "nl"
    /\ \A j \in (p + 1)..i : ~Solid(s[j])
    /\ at.newlineRun = 0 => \A j \in (p + 1)..i : s[j] # "nl"
    /\ at.newlineRun = 1 => \E j \in (p + 1)..i :
          s[j] = "nl" /\ \A l \in (p + 1)..i : s[l] = "nl" => l = j
    /\ at.newlineRun >= 2 => \E j, l \in (p + 1)..i :
          j # l /\ s[j] = "nl" /\ s[l] = "nl"
    /\ at.newlineRun = 0 => (at.pendingSpace <=> \E j \in (p + 1)..i : s[j] \in Space)
    /\ at.atLineStart <=> (p = 0 \/ at.newlineRun > 0)

\* Every rune is noise, a space, a newline or kept.
LEMMA Kinds ==
    /\ \A r : r \in Noise \/ r \in Space \/ r = "nl" \/ Solid(r)
    /\ \A r \in Noise : r \notin Space /\ r # "nl" /\ ~Solid(r)
    /\ \A r \in Space : r \notin Noise /\ r # "nl" /\ ~Solid(r)
    /\ "nl" \notin Noise /\ "nl" \notin Space /\ ~Solid("nl")
    /\ "sp" \in Space /\ ~Solid("sp") /\ "sp" \notin Noise
    /\ \A r : Solid(r) => r \notin Noise /\ r \notin Space /\ r # "nl" /\ r # "sp"
BY DEF Solid, Noise, Space, spacesToNormalize, zeroWidthChars, controls

\* A gap goes on until a rune is kept ...
LEMMA GapGoesOn ==
    ASSUME NEW R, {"sp", "nl"} \subseteq R, NEW s \in Seq(R), NEW i \in 1..Len(s),
           NEW at \in Pass(R), NEW p, NEW e, Standing(s, i - 1, at, p, e), ~Solid(s[i])
    PROVE  Standing(s, i, Step(at, s[i]), p, e)
<1> DEFINE r == s[i]
           new == Step(at, r)
<1>1. i \in Nat /\ i >= 1 /\ r \in R /\ i - 1 \in Nat
  OBVIOUS
<1>2. /\ at.out \in Seq(R) /\ Len(at.out) \in Nat /\ at.newlineRun \in Nat
      /\ at.pendingSpace \in BOOLEAN /\ at.atLineStart \in BOOLEAN
  BY DEF Pass
<1>3. /\ p \in 0..(i - 1) /\ p \in Nat /\ p \in 0..i
      /\ \A j : j \in (p + 1)..i <=> j \in (p + 1)..(i - 1) \/ j = i
  BY <1>1 DEF Standing
<1>4. \A j \in (p + 1)..i : ~Solid(s[j])
  BY <1>3 DEF Standing
<1>5. /\ r \in Noise => new = at
      /\ r \in Space => /\ new.out = at.out /\ new.pendingSpace = TRUE
                        /\ new.atLineStart = at.atLineStart
                        /\ new.newlineRun = at.newlineRun
      /\ r = "nl" => /\ new.out = (IF at.newlineRun < 2
                                   THEN Append(at.out, "nl") ELSE at.out)
                     /\ new.pendingSpace = FALSE /\ new.atLineStart = TRUE
                     /\ new.newlineRun = at.newlineRun + 1
  <2>1. CASE r \in Noise
    BY <1>1, <2>1, NoiseStep, Kinds
  <2>2. CASE r \in Space
    <3>1. r \notin Noise /\ r # "nl"
      BY <2>2, Kinds
    <3>2. /\ new.out = at.out /\ new.pendingSpace = TRUE
          /\ new.atLineStart = at.atLineStart /\ new.newlineRun = at.newlineRun
      BY <1>1, <2>2, SpaceStep
    <3>3. QED
      BY <3>1, <3>2
  <2>3. CASE r = "nl"
    <3>1. r \notin Noise /\ r \notin Space
      BY <2>3, Kinds
    <3>2. QED
      BY <1>1, <2>3, <3>1, NewlineStep
  <2>4. QED
    BY <2>1, <2>2, <2>3
<1> HIDE DEF new
<1>6. CASE r \in Noise
  <2>1. new = at
    BY <1>6, <1>5
  <2>2. r # "nl" /\ r \notin Space
    BY <1>6, Kinds
  <2>3. /\ at.newlineRun = 0 => \A j \in (p + 1)..i : s[j] # "nl"
        /\ at.newlineRun = 1 => \E j \in (p + 1)..i :
              s[j] = "nl" /\ \A l \in (p + 1)..i : s[l] = "nl" => l = j
        /\ at.newlineRun >= 2 => \E j, l \in (p + 1)..i :
              j # l /\ s[j] = "nl" /\ s[l] = "nl"
        /\ at.newlineRun = 0 => (at.pendingSpace <=> \E j \in (p + 1)..i : s[j] \in Space)
    BY <1>3, <2>2 DEF Standing
  <2>4. QED
    BY <1>3, <1>4, <2>1, <2>3 DEF Standing, new
<1>7. CASE r \in Space
  <2>1. /\ new.out = at.out /\ new.pendingSpace = TRUE
        /\ new.atLineStart = at.atLineStart /\ new.newlineRun = at.newlineRun
    BY <1>7, <1>5
  <2>2. r # "nl"
    BY <1>7, Kinds
  <2>3. /\ at.newlineRun = 0 => \A j \in (p + 1)..i : s[j] # "nl"
        /\ at.newlineRun = 1 => \E j \in (p + 1)..i :
              s[j] = "nl" /\ \A l \in (p + 1)..i : s[l] = "nl" => l = j
        /\ at.newlineRun >= 2 => \E j, l \in (p + 1)..i :
              j # l /\ s[j] = "nl" /\ s[l] = "nl"
        /\ \E j \in (p + 1)..i : s[j] \in Space
    BY <1>3, <1>7, <2>2 DEF Standing
  <2>4. QED
    BY <1>3, <1>4, <2>1, <2>3 DEF Standing, new
<1>8. CASE r = "nl"
  <2>1. /\ new.out = (IF at.newlineRun < 2 THEN Append(at.out, "nl") ELSE at.out)
        /\ new.pendingSpace = FALSE /\ new.atLineStart = TRUE
        /\ new.newlineRun = at.newlineRun + 1
    BY <1>8, <1>5
  <2>2. /\ e \in 0..Len(at.out) /\ Len(at.out) = e + Smaller(at.newlineRun, 2)
        /\ \A j \in (e + 1)..Len(at.out) : at.out[j] = "nl"
    BY DEF Standing
  <2>3. /\ new.out \in Seq(R)
        /\ Len(new.out) = IF at.newlineRun < 2 THEN Len(at.out) + 1 ELSE Len(at.out)
        /\ \A j \in 1..Len(at.out) : new.out[j] = at.out[j]
        /\ Len(new.out) = Len(at.out) + 1 => new.out[Len(at.out) + 1] = "nl"
    BY <1>2, <2>1
  <2>4. /\ Len(new.out) = e + Smaller(new.newlineRun, 2)
        /\ e \in 0..Len(new.out)
    <3>1. Smaller(at.newlineRun, 2) = IF at.newlineRun < 2 THEN at.newlineRun ELSE 2
      BY <1>2 DEF Smaller
    <3>2. Smaller(new.newlineRun, 2) = IF at.newlineRun < 2 THEN at.newlineRun + 1 ELSE 2
      BY <1>2, <2>1 DEF Smaller
    <3>3. QED
      BY <1>2, <2>2, <2>3, <3>1, <3>2, SMTT(20)
  <2>5. ASSUME NEW j \in (e + 1)..Len(new.out)
        PROVE  new.out[j] = "nl"
    <3>1. CASE j \in (e + 1)..Len(at.out)
      <4>1. j \in 1..Len(at.out)
        BY <1>2, <2>2, <3>1
      <4>2. QED
        BY <2>2, <2>3, <3>1, <4>1
    <3>2. CASE j \notin (e + 1)..Len(at.out)
      <4>1. j = Len(at.out) + 1 /\ Len(new.out) = Len(at.out) + 1
        BY <1>2, <2>2, <2>3, <3>2
      <4>2. QED
        BY <2>3, <4>1
    <3>3. QED
      BY <3>1, <3>2
  <2>6. new.newlineRun = 1 => \E j \in (p + 1)..i :
          s[j] = "nl" /\ \A l \in (p + 1)..i : s[l] = "nl" => l = j
    <3>1. SUFFICES ASSUME at.newlineRun = 0
                   PROVE  \E j \in (p + 1)..i :
                            s[j] = "nl" /\ \A l \in (p + 1)..i : s[l] = "nl" => l = j
      BY <1>2, <2>1
    <3>2. \A l \in (p + 1)..(i - 1) : s[l] # "nl"
      BY <3>1 DEF Standing
    <3>3. i \in (p + 1)..i
      BY <1>3
    <3>4. QED
      BY <1>3, <1>8, <3>2, <3>3
  <2>7. new.newlineRun >= 2 => \E j, l \in (p + 1)..i :
          j # l /\ s[j] = "nl" /\ s[l] = "nl"
    <3>1. SUFFICES ASSUME at.newlineRun >= 1
                   PROVE  \E j, l \in (p + 1)..i : j # l /\ s[j] = "nl" /\ s[l] = "nl"
      BY <1>2, <2>1
    <3>2. PICK j \in (p + 1)..(i - 1) : s[j] = "nl"
      <4>1. CASE at.newlineRun = 1
        BY <4>1 DEF Standing
      <4>2. CASE at.newlineRun >= 2
        BY <4>2 DEF Standing
      <4>3. QED
        BY <1>2, <3>1, <4>1, <4>2
    <3>3. j \in (p + 1)..i /\ i \in (p + 1)..i /\ j # i
      BY <1>1, <1>3, <3>2
    <3>4. QED
      BY <1>8, <3>2, <3>3
  <2>8. new.newlineRun # 0 /\ new.newlineRun > 0
    BY <1>2, <2>1
  <2>9. p = 0 <=> e = 0
    BY DEF Standing
  <2>10. Standing(s, i, new, p, e)
    BY <1>3, <1>4, <2>1, <2>4, <2>5, <2>6, <2>7, <2>8, <2>9 DEF Standing
  <2>11. QED
    BY <2>10 DEF new
<1>9. QED
  BY <1>6, <1>7, <1>8, Kinds

\* ... it ends there, and a new one begins ...
LEMMA GapBegins ==
    ASSUME NEW R, {"sp", "nl"} \subseteq R, NEW s \in Seq(R), NEW i \in 1..Len(s),
           NEW at \in Pass(R), Solid(s[i])
    PROVE  Standing(s, i, Step(at, s[i]), i, Len(Step(at, s[i]).out))
<1> DEFINE new == Step(at, s[i])
           e == Len(new.out)
<1>1. /\ new.pendingSpace = FALSE /\ new.atLineStart = FALSE /\ new.newlineRun = 0
      /\ new.out = (IF at.pendingSpace /\ ~at.atLineStart
                    THEN Append(at.out, "sp") ELSE at.out) \o <<s[i]>>
  <2>1. s[i] \in R
    OBVIOUS
  <2>2. /\ new.pendingSpace = FALSE /\ new.atLineStart = FALSE /\ new.newlineRun = 0
        /\ new.out = Kept(at, s[i])
    BY <2>1, SolidStep
  <2>3. QED
    BY <2>2 DEF Kept
<1>2. at.out \in Seq(R) /\ s[i] \in R /\ "sp" \in R /\ i \in Nat /\ i >= 1
  BY DEF Pass
<1>3. new.out \in Seq(R) /\ e \in Nat /\ e >= 1
  BY <1>1, <1>2
<1> HIDE DEF new
<1>4. Smaller(0, 2) = 0
  BY DEF Smaller
<1>5. \A j \in (i + 1)..i : FALSE
  BY <1>2
<1>6. \A j \in (e + 1)..e : FALSE
  BY <1>3
<1>7. Standing(s, i, new, i, e)
  BY <1>1, <1>2, <1>3, <1>4, <1>5, <1>6, SMTT(20) DEF Standing
<1>8. QED
  BY <1>7 DEF new

\* ... and the one that ends reads the same in what was gathered.
LEMMA GapReadsTheSame ==
    ASSUME NEW R, {"sp", "nl"} \subseteq R, NEW s \in Seq(R), NEW i \in 1..Len(s),
           NEW at \in Pass(R), NEW p, NEW e, Standing(s, i - 1, at, p, e), p # 0,
           Solid(s[i])
    PROVE  LET new == Step(at, s[i])
           IN Gap(new.out, e, Len(new.out)) = Gap(s, p, i)
<1> DEFINE new == Step(at, s[i])
           n == Len(at.out)
           l == Len(new.out)
           spaced == at.pendingSpace /\ ~at.atLineStart
<1>1. new.out = (IF spaced THEN Append(at.out, "sp") ELSE at.out) \o <<s[i]>>
  <2>1. s[i] \in R
    OBVIOUS
  <2>2. new.out = Kept(at, s[i])
    BY <2>1, SolidStep
  <2>3. QED
    BY <2>2 DEF Kept
<1>2. /\ at.out \in Seq(R) /\ n \in Nat /\ s[i] \in R /\ "sp" \in R /\ i \in Nat /\ i >= 1
      /\ at.newlineRun \in Nat /\ at.pendingSpace \in BOOLEAN /\ at.atLineStart \in BOOLEAN
  BY DEF Pass
<1>3. /\ new.out \in Seq(R) /\ l = IF spaced THEN n + 2 ELSE n + 1
      /\ \A j \in 1..n : new.out[j] = at.out[j]
      /\ spaced => new.out[n + 1] = "sp"
  <2>1. CASE spaced
    <3>1. Append(at.out, "sp") \in Seq(R) /\ Len(Append(at.out, "sp")) = n + 1
          /\ Append(at.out, "sp")[n + 1] = "sp"
          /\ \A j \in 1..n : Append(at.out, "sp")[j] = at.out[j]
      BY <1>2
    <3>2. new.out = Append(at.out, "sp") \o <<s[i]>>
      BY <1>1, <2>1
    <3>3. QED
      BY <1>2, <2>1, <3>1, <3>2
  <2>2. CASE ~spaced
    <3>1. new.out = at.out \o <<s[i]>>
      BY <1>1, <2>2
    <3>2. at.out \o <<s[i]>> \in Seq(R) /\ Len(at.out \o <<s[i]>>) = n + 1
          /\ \A j \in 1..n : (at.out \o <<s[i]>>)[j] = at.out[j]
      BY <1>2
    <3>3. QED
      BY <2>2, <3>1, <3>2
  <2>3. QED
    BY <2>1, <2>2
<1> HIDE DEF new
<1>4. /\ p \in Nat /\ p <= i - 1 /\ e \in Nat /\ e <= n
      /\ n = e + Smaller(at.newlineRun, 2)
      /\ \A j \in (e + 1)..n : at.out[j] = "nl"
      /\ at.atLineStart <=> at.newlineRun > 0
  BY <1>2 DEF Standing
<1>5. n = e + IF at.newlineRun < 2 THEN at.newlineRun ELSE 2
  BY <1>2, <1>4 DEF Smaller
<1>6. CASE at.newlineRun = 0
  <2>1. ~at.atLineStart /\ n = e /\ (spaced <=> at.pendingSpace)
    BY <1>4, <1>5, <1>6
  <2>2. /\ \A j \in (p + 1)..(i - 1) : ~Solid(s[j]) /\ s[j] # "nl"
        /\ at.pendingSpace <=> \E j \in (p + 1)..(i - 1) : s[j] \in Space
    BY <1>6 DEF Standing
  <2>3. CASE at.pendingSpace
    <3>1. PICK j \in (p + 1)..(i - 1) : s[j] \in Space
      BY <2>2, <2>3
    <3>2. Gap(s, p, i) = "space"
      BY <1>2, <1>4, <2>2, <3>1, Kinds, GapSpace
    <3>3. l = e + 2 /\ new.out[e + 1] = "sp" /\ e + 1 \in (e + 1)..(l - 1)
          /\ \A k \in (e + 1)..(l - 1) : k = e + 1
      BY <1>2, <1>3, <1>4, <2>1, <2>3
    <3>4. new.out[e + 1] \notin Noise /\ \A k \in (e + 1)..(l - 1) : new.out[k] # "nl"
      BY <3>3, Kinds
    <3>5. l \in Nat
      BY <1>4, <3>3
    <3>6. Gap(new.out, e, l) = "space"
      BY <1>4, <3>3, <3>4, <3>5, GapSpace
    <3>7. QED
      BY <3>2, <3>6 DEF new
  <2>4. CASE ~at.pendingSpace
    <3>1. \A j \in (p + 1)..(i - 1) : s[j] \in Noise
      BY <2>2, <2>4, Kinds
    <3>2. Gap(s, p, i) = "none"
      BY <1>2, <1>4, <3>1, GapNone
    <3>3. l = e + 1
      BY <1>3, <2>1, <2>4
    <3>4. l \in Nat /\ \A k \in (e + 1)..(l - 1) : new.out[k] \in Noise
      BY <1>4, <3>3
    <3>5. Gap(new.out, e, l) = "none"
      BY <1>4, <3>4, GapNone
    <3>6. QED
      BY <3>2, <3>5 DEF new
  <2>5. QED
    BY <1>2, <2>3, <2>4
<1>7. CASE at.newlineRun = 1
  <2>1. at.atLineStart /\ ~spaced /\ n = e + 1 /\ l = e + 2
    BY <1>2, <1>3, <1>4, <1>5, <1>7
  <2>2. PICK j \in (p + 1)..(i - 1) :
           s[j] = "nl" /\ \A k \in (p + 1)..(i - 1) : s[k] = "nl" => k = j
    BY <1>7 DEF Standing
  <2>3. Gap(s, p, i) = "line"
    BY <1>2, <1>4, <2>2, GapLine
  <2>4. /\ e + 1 \in (e + 1)..(l - 1) /\ new.out[e + 1] = "nl" /\ l \in Nat
        /\ \A k \in (e + 1)..(l - 1) : k = e + 1
    <3>1. e + 1 \in 1..n /\ e + 1 \in (e + 1)..n
      BY <1>4, <2>1
    <3>2. new.out[e + 1] = "nl"
      BY <1>3, <1>4, <3>1
    <3>3. QED
      BY <1>4, <2>1, <3>2
  <2>5. Gap(new.out, e, l) = "line"
    <3>1. PICK t, k : t = new.out /\ k = e + 1
      OBVIOUS
    <3>2. /\ e \in Nat /\ l \in Nat /\ k \in (e + 1)..(l - 1) /\ t[k] = "nl"
          /\ \A o \in (e + 1)..(l - 1) : o = k
      BY <1>4, <2>4, <3>1
    <3>3. Gap(t, e, l) = "line"
      BY <3>2, GapLine
    <3>4. QED
      BY <3>1, <3>3
  <2>6. QED
    BY <2>3, <2>5 DEF new
<1>8. CASE at.newlineRun >= 2
  <2>1. at.atLineStart /\ ~spaced /\ n = e + 2 /\ l = e + 3
    BY <1>2, <1>3, <1>4, <1>5, <1>8
  <2>2. PICK j \in (p + 1)..(i - 1), k \in (p + 1)..(i - 1) :
           j # k /\ s[j] = "nl" /\ s[k] = "nl"
    BY <1>8 DEF Standing
  <2>3. Gap(s, p, i) = "paragraph"
    BY <1>2, <1>4, <2>2, GapParagraph
  <2>4. /\ e + 1 \in (e + 1)..(l - 1) /\ e + 2 \in (e + 1)..(l - 1) /\ e + 1 # e + 2
        /\ new.out[e + 1] = "nl" /\ new.out[e + 2] = "nl" /\ l \in Nat
    <3>1. /\ e + 1 \in 1..n /\ e + 1 \in (e + 1)..n
          /\ e + 2 \in 1..n /\ e + 2 \in (e + 1)..n
      BY <1>4, <2>1
    <3>2. new.out[e + 1] = "nl" /\ new.out[e + 2] = "nl"
      BY <1>3, <1>4, <3>1
    <3>3. QED
      BY <1>4, <2>1, <3>2
  <2>5. Gap(new.out, e, l) = "paragraph"
    BY <1>4, <2>4, GapParagraph
  <2>6. QED
    BY <2>3, <2>5 DEF new
<1>9. QED
  BY <1>2, <1>6, <1>7, <1>8

\* A gap depends on the runes between alone.
LEMMA GapKept ==
    ASSUME NEW s, NEW t, NEW i \in Nat, NEW j \in Nat,
           \A k \in (i + 1)..(j - 1) : t[k] = s[k]
    PROVE  Gap(t, i, j) = Gap(s, i, j)
<1>1. Moved(s, t, i, j, 0)
  <2>1. ASSUME NEW k \in (i + 1)..(j - 1)
        PROVE  t[k + 0] = s[k]
    <3>1. k + 0 = k
      OBVIOUS
    <3>2. QED
      BY <3>1
  <2>2. QED
    BY <2>1 DEF Moved
<1>2. PICK c \in Nat : c = 0
  OBVIOUS
<1>3. Gap(t, i + c, j + c) = Gap(s, i, j)
  BY <1>1, <1>2, GapMoved
<1>4. i + c = i /\ j + c = j
  BY <1>2
<1>5. QED
  BY <1>3, <1>4

\* An enumeration goes on with a greater number.
LEMMA EnumeratesMore ==
    ASSUME NEW q, NEW S, Enumerates(q, S), NEW n \in Nat, \A i \in S : i < n
    PROVE  Enumerates(Append(q, n), S \cup {n})
<1> DEFINE r == Append(q, n)
<1>1. /\ q \in Seq(Nat) /\ Len(q) \in Nat /\ r \in Seq(Nat) /\ Len(r) = Len(q) + 1
      /\ r[Len(q) + 1] = n /\ \A k \in 1..Len(q) : r[k] = q[k]
  BY DEF Enumerates
<1> HIDE DEF r
<1>2. ASSUME NEW k \in 1..Len(r), NEW l \in 1..Len(r), k < l
      PROVE  r[k] < r[l]
  <2>1. k \in 1..Len(q) /\ r[k] = q[k] /\ q[k] \in S
    BY <1>1, <1>2, SMTT(20) DEF Enumerates
  <2>2. CASE l \in 1..Len(q)
    BY <1>1, <1>2, <2>1, <2>2 DEF Enumerates
  <2>3. CASE l = Len(q) + 1
    BY <1>1, <2>1, <2>3
  <2>4. QED
    BY <1>1, <2>2, <2>3
<1>3. ASSUME NEW k \in 1..Len(r)
      PROVE  r[k] \in S \cup {n}
  <2>1. CASE k \in 1..Len(q)
    BY <1>1, <2>1 DEF Enumerates
  <2>2. CASE k = Len(q) + 1
    BY <1>1, <2>2
  <2>3. QED
    BY <1>1, <2>1, <2>2
<1>4. ASSUME NEW i \in S \cup {n}
      PROVE  \E k \in 1..Len(r) : r[k] = i
  <2>1. CASE i = n
    <3>1. Len(q) + 1 \in 1..Len(r)
      BY <1>1
    <3>2. QED
      BY <1>1, <2>1, <3>1
  <2>2. CASE i \in S
    <3>1. PICK k \in 1..Len(q) : q[k] = i
      BY <2>2 DEF Enumerates
    <3>2. k \in 1..Len(r) /\ r[k] = i
      BY <1>1, <3>1
    <3>3. QED
      BY <3>2
  <2>3. QED
    BY <2>1, <2>2
<1>5. Enumerates(r, S \cup {n})
  BY <1>1, <1>2, <1>3, <1>4 DEF Enumerates
<1>6. QED
  BY <1>5 DEF r

\* The runes of s up to i that are kept read in t as they do in s: the same
\* runes, in the same order, with the same gaps.  q and o are their places.
Reads(s, i, t, q, o) ==
    /\ Enumerates(q, Solids(s, i))
    /\ Enumerates(o, Solids(t, Len(t)))
    /\ Len(o) = Len(q)
    /\ \A k \in 1..Len(q) : t[o[k]] = s[q[k]]
    /\ \A k \in 1..(Len(q) - 1) : Gap(t, o[k], o[k + 1]) = Gap(s, q[k], q[k + 1])

LastOf(q) == IF Len(q) = 0 THEN 0 ELSE q[Len(q)]

InStep(s, i, at, q, o) ==
    /\ Reads(s, i, at.out, q, o)
    /\ Standing(s, i, at, LastOf(q), LastOf(o))

\* What is gathered is added to at the end, and gaps inside stay.
LEMMA ReadsOn ==
    ASSUME NEW s, NEW i, NEW t, NEW u, NEW q, NEW o, NEW R, t \in Seq(R), u \in Seq(R),
           Reads(s, i, t, q, o), Len(t) <= Len(u), \A j \in 1..Len(t) : u[j] = t[j]
    PROVE  /\ \A k \in 1..Len(q) : u[o[k]] = s[q[k]]
           /\ \A k \in 1..(Len(q) - 1) : Gap(u, o[k], o[k + 1]) = Gap(s, q[k], q[k + 1])
<1>1. /\ q \in Seq(Nat) /\ o \in Seq(Nat) /\ Len(q) \in Nat /\ Len(o) = Len(q)
      /\ Len(t) \in Nat
  BY DEF Reads, Enumerates
<1>2. ASSUME NEW k \in 1..Len(q)
      PROVE  o[k] \in 1..Len(t) /\ u[o[k]] = t[o[k]]
  <2>1. k \in 1..Len(o)
    BY <1>1
  <2>2. o[k] \in Solids(t, Len(t))
    BY <2>1 DEF Reads, Enumerates
  <2>3. o[k] \in 1..Len(t)
    BY <2>2 DEF Solids
  <2>4. QED
    BY <2>3
<1>3. ASSUME NEW k \in 1..(Len(q) - 1)
      PROVE  Gap(u, o[k], o[k + 1]) = Gap(t, o[k], o[k + 1])
  <2>1. k \in 1..Len(q) /\ k + 1 \in 1..Len(q)
    BY <1>1
  <2>2. o[k] \in 1..Len(t) /\ o[k + 1] \in 1..Len(t)
    BY <1>2, <2>1
  <2>3. PICK a \in 1..Len(t), b \in 1..Len(t) : a = o[k] /\ b = o[k + 1]
    BY <2>2
  <2>4. ASSUME NEW j \in (a + 1)..(b - 1)
        PROVE  u[j] = t[j]
    <3>1. j \in 1..Len(t)
      BY <1>1
    <3>2. QED
      BY <3>1
  <2>5. Gap(u, a, b) = Gap(t, a, b)
    BY <2>4, GapKept
  <2>6. QED
    BY <2>3, <2>5
<1>4. QED
  BY <1>2, <1>3 DEF Reads

\* A step of the pass over a rune that is not kept ...
LEMMA ReadsPast ==
    ASSUME NEW R, {"sp", "nl"} \subseteq R, NEW s \in Seq(R), NEW i \in 1..Len(s),
           NEW at \in Pass(R), NEW q, NEW o, InStep(s, i - 1, at, q, o), ~Solid(s[i])
    PROVE  InStep(s, i, Step(at, s[i]), q, o)
<1> DEFINE new == Step(at, s[i])
<1>1. /\ at.out \in Seq(R) /\ s[i] \in R /\ i \in Nat /\ i >= 1 /\ Len(at.out) \in Nat
  BY DEF Pass
<1>12. new \in Pass(R)
  BY <1>1, StepKeeps
<1>2. /\ new.out \in Seq(R) /\ Len(new.out) \in Nat
  BY <1>12 DEF Pass
<1>3. \/ new.out = at.out
      \/ new.out = Append(at.out, "nl")
  <2>1. CASE s[i] \in Noise
    BY <1>1, <2>1, NoiseStep
  <2>2. CASE s[i] \in Space
    BY <1>1, <2>2, SpaceStep
  <2>3. CASE s[i] = "nl"
    BY <1>1, <2>3, NewlineStep
  <2>4. QED
    BY <2>1, <2>2, <2>3, Kinds
<1> HIDE DEF new
<1>4. /\ Len(at.out) <= Len(new.out) /\ \A j \in 1..Len(at.out) : new.out[j] = at.out[j]
      /\ \A j \in 1..Len(new.out) : j \in 1..Len(at.out) \/ new.out[j] = "nl"
  <2>1. CASE new.out = at.out
    BY <1>1, <2>1
  <2>2. CASE new.out = Append(at.out, "nl")
    <3>1. "nl" \in R
      OBVIOUS
    <3>2. /\ Len(new.out) = Len(at.out) + 1 /\ new.out[Len(at.out) + 1] = "nl"
          /\ \A j \in 1..Len(at.out) : new.out[j] = at.out[j]
      BY <1>1, <2>2, <3>1
    <3>3. QED
      BY <1>1, <3>2
  <2>3. QED
    BY <1>3, <2>1, <2>2
<1>5. Solids(s, i) = Solids(s, i - 1)
  <2>1. \A p : p \in 1..i <=> p \in 1..(i - 1) \/ p = i
    BY <1>1
  <2>2. QED
    BY <2>1 DEF Solids
<1>6. Solids(new.out, Len(new.out)) = Solids(at.out, Len(at.out))
  <2>1. \A j \in 1..Len(at.out) : j \in 1..Len(new.out)
    BY <1>1, <1>2, <1>4
  <2>2. QED
    BY <1>4, <2>1, Kinds DEF Solids
<1>7. Reads(s, i - 1, at.out, q, o)
  BY DEF InStep
<1>8. /\ \A k \in 1..Len(q) : new.out[o[k]] = s[q[k]]
      /\ \A k \in 1..(Len(q) - 1) : Gap(new.out, o[k], o[k + 1]) = Gap(s, q[k], q[k + 1])
  <2>1. PICK t \in Seq(R), u \in Seq(R) : t = at.out /\ u = new.out
    BY <1>1, <1>2
  <2>2. Reads(s, i - 1, t, q, o) /\ Len(t) <= Len(u) /\ \A j \in 1..Len(t) : u[j] = t[j]
    BY <1>4, <1>7, <2>1
  <2>3. /\ \A k \in 1..Len(q) : u[o[k]] = s[q[k]]
        /\ \A k \in 1..(Len(q) - 1) : Gap(u, o[k], o[k + 1]) = Gap(s, q[k], q[k + 1])
    BY <2>2, ReadsOn, SMTT(20)
  <2>4. QED
    BY <2>1, <2>3
<1>9. Reads(s, i, new.out, q, o)
  BY <1>5, <1>6, <1>7, <1>8 DEF Reads
<1>10. Standing(s, i, new, LastOf(q), LastOf(o))
  BY GapGoesOn DEF InStep, new
<1>11. QED
  BY <1>9, <1>10 DEF InStep, new

\* ... and over one that is.
LEMMA ReadsKept ==
    ASSUME NEW R, {"sp", "nl"} \subseteq R, NEW s \in Seq(R), NEW i \in 1..Len(s),
           NEW at \in Pass(R), NEW q, NEW o, InStep(s, i - 1, at, q, o), Solid(s[i])
    PROVE  InStep(s, i, Step(at, s[i]), Append(q, i), Append(o, Len(Step(at, s[i]).out)))
<1> DEFINE new == Step(at, s[i])
           l == Len(new.out)
           q2 == Append(q, i)
           o2 == Append(o, l)
           n == Len(at.out)
<1>1. /\ at.out \in Seq(R) /\ s[i] \in R /\ i \in Nat /\ i >= 1 /\ n \in Nat
      /\ "sp" \in R
  BY DEF Pass
<1>2. \/ new.out = at.out \o <<s[i]>>
      \/ new.out = Append(at.out, "sp") \o <<s[i]>>
  <2>1. new.out = Kept(at, s[i])
    BY <1>1, SolidStep
  <2>2. QED
    BY <2>1 DEF Kept
<1> HIDE DEF new
<1>3. /\ new.out \in Seq(R) /\ l \in Nat /\ l > n /\ new.out[l] = s[i]
      /\ \A j \in 1..n : new.out[j] = at.out[j]
      /\ \A j \in 1..l : j \in 1..n \/ j = l \/ new.out[j] = "sp"
  <2>1. CASE new.out = at.out \o <<s[i]>>
    <3>1. l = n + 1
      BY <1>1, <2>1
    <3>2. QED
      BY <1>1, <2>1, <3>1
  <2>2. CASE new.out = Append(at.out, "sp") \o <<s[i]>>
    <3>1. /\ Append(at.out, "sp") \in Seq(R) /\ Len(Append(at.out, "sp")) = n + 1
          /\ Append(at.out, "sp")[n + 1] = "sp"
          /\ \A j \in 1..n : Append(at.out, "sp")[j] = at.out[j]
      BY <1>1
    <3>2. PICK a \in Seq(R) : /\ a = Append(at.out, "sp") /\ Len(a) = n + 1
                              /\ a[n + 1] = "sp" /\ \A j \in 1..n : a[j] = at.out[j]
      BY <3>1
    <3>3. new.out = a \o <<s[i]>>
      BY <2>2, <3>2
    <3>4. /\ l = n + 2 /\ new.out[n + 2] = s[i] /\ new.out \in Seq(R)
          /\ \A j \in 1..(n + 1) : new.out[j] = a[j]
      BY <1>1, <3>2, <3>3
    <3>5. \A j \in 1..n : j \in 1..(n + 1) /\ new.out[j] = at.out[j]
      BY <1>1, <3>2, <3>4
    <3>6. \A j \in 1..(n + 2) : j \in 1..n \/ j = n + 2 \/ j = n + 1
      <4>1. n \in Nat
        BY <1>1
      <4> HIDE DEF n
      <4>2. QED
        BY <4>1
    <3>7. new.out[n + 1] = "sp"
      <4>1. n + 1 \in 1..(n + 1)
        BY <1>1
      <4>2. QED
        BY <3>2, <3>4, <4>1
    <3>8. QED
      BY <1>1, <3>4, <3>5, <3>6, <3>7, SMTT(20)
  <2>3. QED
    BY <1>2, <2>1, <2>2
<1>4. Solids(s, i) = Solids(s, i - 1) \cup {i}
  <2>1. \A p : p \in 1..i <=> p \in 1..(i - 1) \/ p = i
    BY <1>1
  <2>2. QED
    BY <2>1 DEF Solids
<1>5. Solids(new.out, l) = Solids(at.out, n) \cup {l}
  <2>1. \A j \in 1..n : j \in 1..l
    BY <1>1, <1>3
  <2>2. l \in 1..l
    BY <1>1, <1>3
  <2>3. QED
    BY <1>3, <2>1, <2>2, Kinds DEF Solids
<1>6. /\ Reads(s, i - 1, at.out, q, o)
      /\ Standing(s, i - 1, at, LastOf(q), LastOf(o))
  BY DEF InStep
<1>7. Enumerates(q2, Solids(s, i))
  <2>1. \A p \in Solids(s, i - 1) : p < i
    BY <1>1 DEF Solids
  <2>2. Enumerates(q, Solids(s, i - 1))
    BY <1>6 DEF Reads
  <2>3. QED
    BY <1>1, <1>4, <2>1, <2>2, EnumeratesMore
<1>8. Enumerates(o2, Solids(new.out, l))
  <2>1. \A p \in Solids(at.out, n) : p < l
    BY <1>1, <1>3 DEF Solids
  <2>2. Enumerates(o, Solids(at.out, n))
    BY <1>6 DEF Reads
  <2>3. QED
    BY <1>3, <1>5, <2>1, <2>2, EnumeratesMore
<1>9. /\ q \in Seq(Nat) /\ o \in Seq(Nat) /\ Len(q) \in Nat /\ Len(o) = Len(q)
      /\ q2 \in Seq(Nat) /\ Len(q2) = Len(q) + 1 /\ q2[Len(q) + 1] = i
      /\ o2 \in Seq(Nat) /\ Len(o2) = Len(q) + 1 /\ o2[Len(q) + 1] = l
      /\ \A k \in 1..Len(q) : q2[k] = q[k] /\ o2[k] = o[k]
  BY <1>1, <1>3, <1>6 DEF Reads, Enumerates
<1>10. /\ \A k \in 1..Len(q) : new.out[o[k]] = s[q[k]]
       /\ \A k \in 1..(Len(q) - 1) : Gap(new.out, o[k], o[k + 1]) = Gap(s, q[k], q[k + 1])
  <2>1. PICK t \in Seq(R), u \in Seq(R) : t = at.out /\ u = new.out
    BY <1>1, <1>3
  <2>2. Reads(s, i - 1, t, q, o) /\ Len(t) <= Len(u) /\ \A j \in 1..Len(t) : u[j] = t[j]
    BY <1>1, <1>3, <1>6, <2>1
  <2>3. /\ \A k \in 1..Len(q) : u[o[k]] = s[q[k]]
        /\ \A k \in 1..(Len(q) - 1) : Gap(u, o[k], o[k + 1]) = Gap(s, q[k], q[k + 1])
    BY <2>2, ReadsOn
  <2>4. QED
    BY <2>1, <2>3
<1>11. LastOf(q2) = i /\ LastOf(o2) = l
  BY <1>9 DEF LastOf
<1> HIDE DEF q2, o2, l
<1>12. ASSUME NEW k \in 1..Len(q2)
       PROVE  new.out[o2[k]] = s[q2[k]]
  <2>1. CASE k \in 1..Len(q)
    BY <1>9, <1>10, <2>1
  <2>2. CASE k = Len(q) + 1
    BY <1>3, <1>9, <2>2
  <2>3. QED
    BY <1>9, <2>1, <2>2
<1>13. ASSUME NEW k \in 1..(Len(q2) - 1)
       PROVE  Gap(new.out, o2[k], o2[k + 1]) = Gap(s, q2[k], q2[k + 1])
  <2>1. k \in 1..Len(q)
    BY <1>9
  <2>2. CASE k \in 1..(Len(q) - 1)
    <3>1. k + 1 \in 1..Len(q)
      BY <1>9, <2>2
    <3>2. q2[k] = q[k] /\ o2[k] = o[k] /\ q2[k + 1] = q[k + 1] /\ o2[k + 1] = o[k + 1]
      BY <1>9, <2>1, <3>1
    <3>3. QED
      BY <1>10, <2>2, <3>2
  <2>3. CASE k = Len(q)
    <3>1. Len(q) # 0 /\ LastOf(q) = q[k] /\ LastOf(o) = o[k]
      BY <1>9, <2>1, <2>3 DEF LastOf
    <3>2. q[k] \in Solids(s, i - 1)
      BY <1>6, <2>1 DEF Reads, Enumerates
    <3>3. q[k] # 0
      BY <3>2 DEF Solids
    <3>4. Gap(new.out, LastOf(o), l) = Gap(s, LastOf(q), i)
      BY <1>6, <3>1, <3>3, GapReadsTheSame DEF new, l
    <3>5. /\ q2[k] = q[k] /\ o2[k] = o[k] /\ q2[k + 1] = i /\ o2[k + 1] = l
      BY <1>9, <2>1, <2>3
    <3>6. QED
      BY <3>1, <3>4, <3>5
  <2>4. QED
    BY <1>9, <2>1, <2>2, <2>3
<1>14. Reads(s, i, new.out, q2, o2)
  BY <1>7, <1>8, <1>9, <1>12, <1>13 DEF Reads, l
<1>15. Standing(s, i, new, i, l)
  BY GapBegins DEF new, l
<1>16. InStep(s, i, new, q2, o2)
  BY <1>11, <1>14, <1>15 DEF InStep
<1>17. QED
  BY <1>16 DEF new, q2, o2, l

\* The whole pass: what is gathered reads as the text does.
LEMMA PassReads ==
    ASSUME NEW R, {"sp", "nl"} \subseteq R, NEW s \in Seq(R)
    PROVE  \E q, o \in Seq(Nat) : Reads(s, Len(s), Passes(s)[Len(s)].out, q, o)
<1> DEFINE Right(i) == \E q, o \in Seq(Nat) : InStep(s, i, Passes(s)[i], q, o)
           Holds == {i \in 0..Len(s) : Right(i)}
<1>1. Len(s) \in Nat
  OBVIOUS
<1>2. /\ Passes(s)[0] = Blank
      /\ \A i \in 1..Len(s) : Passes(s)[i] = Step(Passes(s)[i - 1], s[i])
      /\ \A i \in 0..Len(s) : Passes(s)[i] \in Pass(R)
  BY PassesAre
<1>3. 0 \in Holds
  <2>1. Enumerates(<< >>, {})
    BY DEF Enumerates
  <2>2. Solids(s, 0) = {} /\ Solids(<< >>, 0) = {}
    BY DEF Solids
  <2>3. Blank.out = << >> /\ Blank.newlineRun = 0 /\ Blank.pendingSpace = FALSE
        /\ Blank.atLineStart = TRUE
    BY DEF Blank
  <2>4. Reads(s, 0, << >>, << >>, << >>)
    <3>1. PICK z : z = << >>
      OBVIOUS
    <3>2. Len(z) = 0 /\ \A k \in 1..0 : FALSE
      BY <3>1
    <3>3. \A k \in 1..(0 - 1) : FALSE
      OBVIOUS
    <3>4. Enumerates(z, Solids(s, 0)) /\ Enumerates(z, Solids(z, Len(z)))
      BY <2>1, <2>2, <3>1, <3>2
    <3>5. Reads(s, 0, z, z, z)
      BY <3>2, <3>3, <3>4 DEF Reads
    <3>6. QED
      BY <3>1, <3>5
  <2>5. Smaller(0, 2) = 0
    BY DEF Smaller
  <2>6. Standing(s, 0, Blank, 0, 0)
    BY <2>3, <2>5 DEF Standing
  <2>7. LastOf(<< >>) = 0
    BY DEF LastOf
  <2>8. InStep(s, 0, Passes(s)[0], << >>, << >>)
    BY <1>2, <2>3, <2>4, <2>6, <2>7 DEF InStep
  <2>9. << >> \in Seq(Nat)
    OBVIOUS
  <2>10. Right(0)
    BY <2>8, <2>9
  <2>11. QED
    BY <1>1, <2>10
<1>4. ASSUME NEW i \in 1..Len(s), i - 1 \in Holds
      PROVE  i \in Holds
  <2>1. PICK q \in Seq(Nat), o \in Seq(Nat) : InStep(s, i - 1, Passes(s)[i - 1], q, o)
    BY <1>4
  <2>2. i - 1 \in 0..Len(s) /\ i \in 0..Len(s) /\ i \in Nat
    OBVIOUS
  <2>3. PICK at \in Pass(R) : at = Passes(s)[i - 1]
    BY <1>2, <2>2
  <2>4. InStep(s, i - 1, at, q, o) /\ Passes(s)[i] = Step(at, s[i])
    BY <1>2, <2>1, <2>3
  <2>5. CASE Solid(s[i])
    <3>1. InStep(s, i, Step(at, s[i]), Append(q, i), Append(o, Len(Step(at, s[i]).out)))
      BY <2>4, <2>5, ReadsKept
    <3>2. Len(Step(at, s[i]).out) \in Nat
      <4>1. Step(at, s[i]) \in Pass(R)
        BY StepKeeps
      <4>2. QED
        BY <4>1 DEF Pass
    <3>3. Append(q, i) \in Seq(Nat) /\ Append(o, Len(Step(at, s[i]).out)) \in Seq(Nat)
      BY <2>2, <3>2
    <3>4. Right(i)
      BY <2>4, <3>1, <3>3
    <3>5. QED
      BY <2>2, <3>4
  <2>6. CASE ~Solid(s[i])
    <3>1. InStep(s, i, Step(at, s[i]), q, o)
      BY <2>4, <2>6, ReadsPast
    <3>2. Right(i)
      BY <2>4, <3>1
    <3>3. QED
      BY <2>2, <3>2
  <2>7. QED
    BY <2>5, <2>6
<1>5. Holds = 0..Len(s)
  <2>1. Holds \in SUBSET (0..Len(s))
    OBVIOUS
  <2> HIDE DEF Holds
  <2>2. QED
    BY <1>1, <1>3, <1>4, <2>1, InductionUpTo
<1>6. Right(Len(s))
  BY <1>1, <1>5
<1>7. QED
  BY <1>6 DEF InStep

\* Nothing the pass gathers is noise; a space stands between two runes that
\* are kept, and a newline is not the third of a row.
Neat(at) ==
    LET out == at.out
        n == Len(out)
    IN /\ \A j \in 1..n : out[j] \notin Noise \cup spacesToNormalize
       /\ \A j \in 1..n : out[j] = "sp" => /\ j > 1 /\ j < n
                                           /\ Solid(out[j - 1]) /\ Solid(out[j + 1])
       /\ \A j \in 3..n : ~(out[j] = "nl" /\ out[j - 1] = "nl" /\ out[j - 2] = "nl")
       /\ ~at.atLineStart => n >= 1
       /\ at.newlineRun = 0 => n = 0 \/ Solid(out[n])
       /\ at.newlineRun = 1 => n = 1 \/ (n > 1 /\ Solid(out[n - 1]))
       /\ at.newlineRun > 0 => at.atLineStart
       /\ n >= 1 => out[n] # "sp"

\* A step of the pass keeps what was gathered neat.
LEMMA NeatStep ==
    ASSUME NEW R, {"sp", "nl"} \subseteq R, NEW at \in Pass(R), Neat(at), NEW r \in R
    PROVE  Neat(Step(at, r))
<1> DEFINE new == Step(at, r)
           out == at.out
           n == Len(out)
<1>1. /\ out \in Seq(R) /\ n \in Nat /\ at.newlineRun \in Nat
      /\ at.pendingSpace \in BOOLEAN /\ at.atLineStart \in BOOLEAN
      /\ "sp" \in R /\ "nl" \in R
  BY DEF Pass
<1>2. CASE r \in Noise
  BY <1>2, NoiseStep
<1>3. CASE r \in Space
  <2>1. /\ new.out = at.out /\ new.newlineRun = at.newlineRun
        /\ new.atLineStart = at.atLineStart
    BY <1>3, SpaceStep
  <2>2. Neat(new)
    <3> HIDE DEF new
    <3>1. QED
      BY <2>1 DEF Neat
  <2>3. QED
    BY <2>2
<1>4. CASE r = "nl"
  <2>1. /\ new.out = (IF at.newlineRun < 2 THEN Append(out, "nl") ELSE out)
        /\ new.atLineStart = TRUE /\ new.newlineRun = at.newlineRun + 1
    BY <1>4, NewlineStep
  <2>2. CASE at.newlineRun >= 2
    <3>1. new.out = out
      BY <1>1, <2>1, <2>2
    <3>2. QED
      BY <1>1, <2>1, <2>2, <3>1 DEF Neat
  <2>3. CASE at.newlineRun < 2
    <3> DEFINE u == Append(out, "nl")
    <3>1. new.out = u
      BY <2>1, <2>3
    <3>2. u \in Seq(R) /\ Len(u) = n + 1 /\ u[n + 1] = "nl" /\ \A j \in 1..n : u[j] = out[j]
      BY <1>1
    <3> HIDE DEF u
    <3>3. \A j \in 1..(n + 1) : j \in 1..n \/ j = n + 1
      BY <1>1
    <3>4. \A j \in 1..(n + 1) : u[j] \notin Noise \cup spacesToNormalize
      <4>1. "nl" \notin Noise \cup spacesToNormalize
        BY DEF Noise, zeroWidthChars, controls, spacesToNormalize
      <4>2. QED
        BY <3>2, <3>3, <4>1 DEF Neat
    <3>5. ASSUME NEW j \in 1..(n + 1), u[j] = "sp"
          PROVE  j > 1 /\ j < n + 1 /\ Solid(u[j - 1]) /\ Solid(u[j + 1])
      <4>1. j \in 1..n /\ out[j] = "sp"
        BY <3>2, <3>3, <3>5
      <4>2. j > 1 /\ j < n /\ Solid(out[j - 1]) /\ Solid(out[j + 1])
        BY <4>1 DEF Neat
      <4>3. j - 1 \in 1..n /\ j + 1 \in 1..n
        BY <1>1, <4>1, <4>2
      <4>4. u[j - 1] = out[j - 1] /\ u[j + 1] = out[j + 1]
        BY <3>2, <4>3
      <4>5. QED
        BY <1>1, <4>1, <4>2, <4>4
    <3>6. ASSUME NEW j \in 3..(n + 1)
          PROVE  ~(u[j] = "nl" /\ u[j - 1] = "nl" /\ u[j - 2] = "nl")
      <4>1. j - 1 \in 1..n /\ j - 2 \in 1..n
        BY <1>1
      <4>2. u[j - 1] = out[j - 1] /\ u[j - 2] = out[j - 2]
        BY <3>2, <4>1
      <4>3. CASE j = n + 1
        <5>1. CASE at.newlineRun = 0
          <6>1. j - 1 = n /\ n # 0
            BY <1>1, <4>3
          <6>2. Solid(out[j - 1])
            BY <5>1, <6>1 DEF Neat
          <6>3. QED
            BY <4>2, <6>2, Kinds
        <5>2. CASE at.newlineRun = 1
          <6>1. j - 2 = n - 1 /\ n > 1 /\ n # 1
            <7>1. PICK m \in Nat : m = n
              BY <1>1
            <7>2. j = m + 1 /\ j \in 3..(m + 1)
              BY <4>3, <7>1
            <7>3. j - 2 = m - 1 /\ m > 1 /\ m # 1
              BY <7>2
            <7>4. QED
              BY <7>1, <7>3
          <6>2. Solid(out[j - 2])
            BY <5>2, <6>1 DEF Neat
          <6>3. QED
            BY <4>2, <6>2, Kinds
        <5>3. QED
          BY <1>1, <2>3, <5>1, <5>2
      <4>4. CASE j \in 3..n
        <5>1. u[j] = out[j]
          BY <3>2, <4>4
        <5>2. QED
          BY <4>2, <4>4, <5>1 DEF Neat
      <4>5. QED
        BY <1>1, <4>3, <4>4
    <3>7. new.newlineRun = 1 => n + 1 = 1 \/ (n + 1 > 1 /\ Solid(u[(n + 1) - 1]))
      <4>1. SUFFICES ASSUME at.newlineRun = 0, n # 0
                     PROVE  n + 1 > 1 /\ Solid(u[(n + 1) - 1])
        BY <1>1, <2>1
      <4>2. Solid(out[n]) /\ (n + 1) - 1 = n /\ n \in 1..n
        BY <1>1, <4>1 DEF Neat
      <4>3. QED
        BY <1>1, <3>2, <4>2
    <3>8. "nl" # "sp" /\ n + 1 >= 1 /\ new.newlineRun # 0
      BY <1>1, <2>1
    <3>9. QED
      BY <2>1, <3>1, <3>2, <3>4, <3>5, <3>6, <3>7, <3>8 DEF Neat
  <2>4. QED
    BY <1>1, <2>2, <2>3
<1>5. CASE Solid(r)
  <2>1. /\ new.out = Kept(at, r) /\ new.atLineStart = FALSE /\ new.newlineRun = 0
    BY <1>5, SolidStep
  <2>2. /\ r \notin Noise /\ r \notin spacesToNormalize /\ r # "nl" /\ r # "sp"
    BY <1>5 DEF Solid, Space
  <2>3. CASE at.pendingSpace /\ ~at.atLineStart
    <3>1. at.newlineRun = 0 /\ n >= 1
      BY <1>1, <2>3 DEF Neat
    <3>2. Solid(out[n])
      BY <1>1, <3>1 DEF Neat
    <3> DEFINE a == Append(out, "sp")
               u == a \o <<r>>
    <3>3. new.out = u
      BY <2>1, <2>3 DEF Kept
    <3>4. a \in Seq(R) /\ Len(a) = n + 1 /\ a[n + 1] = "sp" /\ \A j \in 1..n : a[j] = out[j]
      BY <1>1
    <3> HIDE DEF a
    <3>5. /\ u \in Seq(R) /\ Len(u) = n + 2 /\ u[n + 2] = r
          /\ \A j \in 1..(n + 1) : u[j] = a[j]
      BY <1>1, <3>4
    <3>6. u[n + 1] = "sp" /\ \A j \in 1..n : u[j] = out[j]
      BY <1>1, <3>4, <3>5
    <3> HIDE DEF u
    <3>7. \A j \in 1..(n + 2) : j \in 1..n \/ j = n + 1 \/ j = n + 2
      BY <1>1
    <3>8. \A j \in 1..(n + 2) : u[j] \notin Noise \cup spacesToNormalize
      <4>1. "sp" \notin Noise \cup spacesToNormalize
        BY DEF Noise, zeroWidthChars, controls, spacesToNormalize
      <4>2. QED
        BY <2>2, <3>5, <3>6, <3>7, <4>1, SMTT(20) DEF Neat
    <3>9. ASSUME NEW j \in 1..(n + 2), u[j] = "sp"
          PROVE  j > 1 /\ j < n + 2 /\ Solid(u[j - 1]) /\ Solid(u[j + 1])
      <4>1. CASE j \in 1..n
        <5>1. out[j] = "sp"
          BY <3>6, <3>9, <4>1
        <5>2. j > 1 /\ j < n /\ Solid(out[j - 1]) /\ Solid(out[j + 1])
          BY <4>1, <5>1 DEF Neat
        <5>3. j - 1 \in 1..n /\ j + 1 \in 1..n
          BY <1>1, <4>1, <5>2
        <5>4. u[j - 1] = out[j - 1] /\ u[j + 1] = out[j + 1]
          BY <3>6, <5>3
        <5>5. QED
          BY <1>1, <4>1, <5>2, <5>4
      <4>2. CASE j = n + 1
        <5>1. j - 1 = n /\ n \in 1..n /\ j + 1 = n + 2 /\ j > 1 /\ j < n + 2
          BY <1>1, <3>1, <4>2
        <5>2. Solid(u[n]) /\ Solid(u[n + 2])
          BY <1>5, <3>2, <3>5, <3>6, <5>1
        <5>3. QED
          BY <5>1, <5>2
      <4>3. CASE j = n + 2
        BY <2>2, <3>5, <3>9, <4>3
      <4>4. QED
        BY <3>7, <4>1, <4>2, <4>3
    <3>10. ASSUME NEW j \in 3..(n + 2)
           PROVE  ~(u[j] = "nl" /\ u[j - 1] = "nl" /\ u[j - 2] = "nl")
      <4>1. CASE j \in 3..n
        <5>1. j \in 1..n /\ j - 1 \in 1..n /\ j - 2 \in 1..n
          BY <1>1, <4>1
        <5>2. QED
          BY <3>6, <4>1, <5>1 DEF Neat
      <4>2. CASE j = n + 1
        BY <3>6, <4>2
      <4>3. CASE j = n + 2
        BY <2>2, <3>5, <4>3
      <4>4. QED
        BY <1>1, <4>1, <4>2, <4>3
    <3>11. n + 2 >= 1 /\ u[n + 2] # "sp" /\ Solid(u[n + 2])
      BY <1>1, <1>5, <2>2, <3>5
    <3>12. QED
      BY <2>1, <3>3, <3>5, <3>8, <3>9, <3>10, <3>11 DEF Neat
  <2>4. CASE ~(at.pendingSpace /\ ~at.atLineStart)
    <3> DEFINE u == out \o <<r>>
    <3>1. new.out = u
      BY <2>1, <2>4 DEF Kept
    <3>2. u \in Seq(R) /\ Len(u) = n + 1 /\ u[n + 1] = r /\ \A j \in 1..n : u[j] = out[j]
      BY <1>1
    <3> HIDE DEF u
    <3>3. \A j \in 1..(n + 1) : j \in 1..n \/ j = n + 1
      BY <1>1
    <3>4. \A j \in 1..(n + 1) : u[j] \notin Noise \cup spacesToNormalize
      BY <2>2, <3>2, <3>3 DEF Neat
    <3>5. ASSUME NEW j \in 1..(n + 1), u[j] = "sp"
          PROVE  j > 1 /\ j < n + 1 /\ Solid(u[j - 1]) /\ Solid(u[j + 1])
      <4>1. j \in 1..n /\ out[j] = "sp"
        BY <2>2, <3>2, <3>3, <3>5
      <4>2. j > 1 /\ j < n /\ Solid(out[j - 1]) /\ Solid(out[j + 1])
        BY <4>1 DEF Neat
      <4>3. j - 1 \in 1..n /\ j + 1 \in 1..n
        BY <1>1, <4>1, <4>2
      <4>4. u[j - 1] = out[j - 1] /\ u[j + 1] = out[j + 1]
        BY <3>2, <4>3
      <4>5. QED
        BY <1>1, <4>1, <4>2, <4>4
    <3>6. ASSUME NEW j \in 3..(n + 1)
          PROVE  ~(u[j] = "nl" /\ u[j - 1] = "nl" /\ u[j - 2] = "nl")
      <4>1. CASE j \in 3..n
        <5>1. j \in 1..n /\ j - 1 \in 1..n /\ j - 2 \in 1..n
          BY <1>1, <4>1
        <5>2. QED
          BY <3>2, <4>1, <5>1 DEF Neat
      <4>2. CASE j = n + 1
        BY <2>2, <3>2, <4>2
      <4>3. QED
        BY <1>1, <4>1, <4>2
    <3>7. n + 1 >= 1 /\ u[n + 1] # "sp" /\ Solid(u[n + 1])
      BY <1>1, <1>5, <2>2, <3>2
    <3>8. QED
      BY <2>1, <3>1, <3>2, <3>4, <3>5, <3>6, <3>7 DEF Neat
  <2>5. QED
    BY <2>3, <2>4
<1>6. QED
  BY <1>2, <1>3, <1>4, <1>5, Kinds

\* What a whole pass gathers is neat.
LEMMA PassIsNeat ==
    ASSUME NEW R, {"sp", "nl"} \subseteq R, NEW s \in Seq(R)
    PROVE  Neat(Passes(s)[Len(s)])
<1> DEFINE Holds == {i \in 0..Len(s) : Neat(Passes(s)[i])}
<1>1. Len(s) \in Nat /\ Holds \in SUBSET (0..Len(s))
  OBVIOUS
<1>2. /\ Passes(s)[0] = Blank
      /\ \A i \in 1..Len(s) : Passes(s)[i] = Step(Passes(s)[i - 1], s[i])
      /\ \A i \in 0..Len(s) : Passes(s)[i] \in Pass(R)
  BY PassesAre
<1>3. 0 \in Holds
  <2>1. Neat(Blank)
    BY DEF Neat, Blank
  <2>2. QED
    BY <1>1, <1>2, <2>1
<1>4. ASSUME NEW i \in 1..Len(s), i - 1 \in Holds
      PROVE  i \in Holds
  <2>1. i - 1 \in 0..Len(s) /\ i \in 0..Len(s) /\ s[i] \in R
    OBVIOUS
  <2>2. Neat(Passes(s)[i - 1]) /\ Passes(s)[i - 1] \in Pass(R)
    BY <1>2, <1>4, <2>1
  <2>3. Neat(Step(Passes(s)[i - 1], s[i]))
    BY <2>1, <2>2, NeatStep
  <2>4. QED
    BY <1>2, <2>1, <2>3
<1> HIDE DEF Holds
<1>5. Holds = 0..Len(s)
  BY <1>1, <1>3, <1>4, InductionUpTo
<1>6. Len(s) \in Holds
  BY <1>1, <1>5
<1>7. QED
  BY <1>6 DEF Holds

\* What an enumeration lists is finite, and as many numbers as it is long.
LEMMA EnumeratesSome ==
    ASSUME NEW w, NEW S, Enumerates(w, S)
    PROVE  IsFiniteSet(S) /\ Cardinality(S) = Len(w)
<1>1. w \in Seq(Nat) /\ Len(w) \in Nat
  BY DEF Enumerates
<1> DEFINE f == [m \in 1..Len(w) |-> w[m]]
<1>2. f \in [1..Len(w) -> S]
  BY DEF Enumerates
<1>3. \A k, l \in 1..Len(w) : k # l => f[k] # f[l]
  <2>1. ASSUME NEW k \in 1..Len(w), NEW l \in 1..Len(w), k < l
        PROVE  f[k] < f[l] /\ f[k] \in Nat /\ f[l] \in Nat
    BY <1>1, <2>1 DEF Enumerates
  <2>2. ASSUME NEW k \in 1..Len(w), NEW l \in 1..Len(w), k # l
        PROVE  f[k] # f[l]
    <3>1. CASE k < l
      BY <2>1, <3>1
    <3>2. CASE l < k
      BY <2>1, <3>2
    <3>3. QED
      BY <1>1, <2>2, <3>1, <3>2
  <2>3. QED
    BY <2>2
<1>4. \A i \in S : \E k \in 1..Len(w) : f[k] = i
  BY DEF Enumerates
<1> HIDE DEF f
<1>5. f \in Bijection(1..Len(w), S)
  BY <1>2, <1>3, <1>4 DEF Bijection, Injection, Surjection, IsInjective
<1>6. ExistsBijection(1..Len(w), S)
  BY <1>5 DEF ExistsBijection
<1>7. IsFiniteSet(1..Len(w)) /\ Cardinality(1..Len(w)) = Len(w)
  <2>1. PICK n \in Nat : n = Len(w)
    BY <1>1
  <2>2. IsFiniteSet(1..n) /\ Cardinality(1..n) = IF 1 > n THEN 0 ELSE n - 1 + 1
    BY FS_Interval
  <2>3. Cardinality(1..n) = n
    BY <2>2
  <2>4. QED
    BY <2>1, <2>2, <2>3
<1>8. QED
  BY <1>6, <1>7, FS_Bijection

\* Its order is that of the numbers.
LEMMA EnumeratesRising ==
    ASSUME NEW w, NEW S, Enumerates(w, S)
    PROVE  \A k, l \in 1..Len(w) : w[k] <= w[l] <=> k <= l
<1>1. w \in Seq(Nat) /\ Len(w) \in Nat
  BY DEF Enumerates
<1>2. ASSUME NEW k \in 1..Len(w), NEW l \in 1..Len(w)
      PROVE  w[k] <= w[l] <=> k <= l
  <2>1. w[k] \in Nat /\ w[l] \in Nat
    BY <1>1
  <2>2. CASE k < l
    <3>1. w[k] < w[l]
      BY <2>2 DEF Enumerates
    <3>2. QED
      BY <2>1, <2>2, <3>1
  <2>3. CASE k = l
    BY <2>1, <2>3
  <2>4. CASE l < k
    <3>1. w[l] < w[k]
      BY <2>4 DEF Enumerates
    <3>2. QED
      BY <2>1, <2>4, <3>1
  <2>5. QED
    BY <1>1, <2>2, <2>3, <2>4
<1>3. QED
  BY <1>2

\* The n-th number of a set, as Seen picks it ...
Nth(S, n) == CHOOSE i \in S : Cardinality({k \in S : k <= i}) = n

\* ... is the n-th of its enumeration.
LEMMA EnumeratesNth ==
    ASSUME NEW w, NEW S, Enumerates(w, S), NEW n \in 1..Len(w)
    PROVE  Nth(S, n) = w[n]
<1>1. w \in Seq(Nat) /\ Len(w) \in Nat
  BY DEF Enumerates
<1>2. ASSUME NEW m \in 1..Len(w)
      PROVE  w[m] \in S /\ Cardinality({k \in S : k <= w[m]}) = m
  <2> DEFINE v == [j \in 1..m |-> w[j]]
             T == {k \in S : k <= w[m]}
  <2>1. v \in Seq(Nat) /\ Len(v) = m /\ \A j \in 1..m : v[j] = w[j] /\ j \in 1..Len(w)
    <3>1. \A j \in 1..m : j \in 1..Len(w) /\ w[j] \in Nat
      BY <1>1
    <3>2. m \in Nat /\ v \in [1..m -> Nat]
      BY <1>1, <3>1
    <3>3. QED
      BY <3>1, <3>2
  <2> HIDE DEF v
  <2>2. \A k, l \in 1..m : k < l => v[k] < v[l]
    BY <2>1 DEF Enumerates
  <2>3. ASSUME NEW k \in 1..m
        PROVE  v[k] \in T
    <3>1. w[k] \in S
      BY <2>1 DEF Enumerates
    <3>2. k <= m /\ k \in 1..Len(w)
      BY <1>1, <2>1
    <3>3. w[k] <= w[m]
      BY <3>2, EnumeratesRising
    <3>4. QED
      BY <2>1, <3>1, <3>3
  <2>4. ASSUME NEW i \in T
        PROVE  \E k \in 1..m : v[k] = i
    <3>1. PICK k \in 1..Len(w) : w[k] = i
      BY DEF Enumerates
    <3>2. k <= m
      BY <3>1, EnumeratesRising
    <3>3. k \in 1..m
      BY <1>1, <3>2
    <3>4. QED
      BY <2>1, <3>1, <3>3
  <2>5. Enumerates(v, T)
    BY <2>1, <2>2, <2>3, <2>4 DEF Enumerates
  <2>6. Cardinality(T) = m
    BY <2>1, <2>5, EnumeratesSome
  <2>7. w[m] \in S
    BY DEF Enumerates
  <2>8. QED
    BY <2>6, <2>7
<1>3. w[n] \in S /\ Cardinality({k \in S : k <= w[n]}) = n
  BY <1>2
<1>4. ASSUME NEW i \in S, Cardinality({k \in S : k <= i}) = n
      PROVE  i = w[n]
  <2>1. PICK m \in 1..Len(w) : w[m] = i
    BY DEF Enumerates
  <2>2. Cardinality({k \in S : k <= w[m]}) = m
    BY <1>2
  <2>3. m = n
    BY <1>4, <2>1, <2>2
  <2>4. QED
    BY <2>1, <2>3
<1>5. QED
  BY <1>3, <1>4 DEF Nth

Ink(r) == Solid(r) /\ r # "tab"

\* Of the runes of t that are kept, those between the a-th and the b-th, the
\* first and the last that are more than tabs.
Spans(t, w, a, b) ==
    /\ Enumerates(w, Solids(t, Len(t)))
    /\ a \in 1..Len(w) /\ b \in 1..Len(w) /\ a <= b
    /\ Ink(t[w[a]]) /\ Ink(t[w[b]])
    /\ \A k \in 1..Len(w) : Ink(t[w[k]]) => a <= k /\ k <= b

\* The n-th of them, with the gap before it.
Sight(t, w, a, n) ==
    <<IF n = 1 THEN "none" ELSE Gap(t, w[a + n - 2], w[a + n - 1]), t[w[a + n - 1]]>>

InkIn(t) == {i \in DOMAIN t : t[i] \notin Noise \cup Space \cup {"nl", "tab"}}

SeenIn(t) == {i \in DOMAIN t : /\ t[i] \notin Noise \cup Space \cup {"nl"}
                               /\ \E k \in InkIn(t) : k <= i
                               /\ \E k \in InkIn(t) : i <= k}

\* They are what a reader sees.
LEMMA SeenIs ==
    ASSUME NEW R, NEW t \in Seq(R), NEW w, NEW a, NEW b, Spans(t, w, a, b)
    PROVE  Seen(t) = [n \in 1..(b - a + 1) |-> Sight(t, w, a, n)]
<1> DEFINE v == [n \in 1..(b - a + 1) |-> w[a + n - 1]]
           S == SeenIn(t)
           at == [n \in 1..Cardinality(S) |->
                    CHOOSE i \in S : Cardinality({k \in S : k <= i}) = n]
<1>1. /\ w \in Seq(Nat) /\ Len(w) \in Nat /\ DOMAIN t = 1..Len(t) /\ Len(t) \in Nat
      /\ a \in 1..Len(w) /\ b \in 1..Len(w) /\ a <= b
      /\ Enumerates(w, Solids(t, Len(t)))
  BY DEF Spans, Enumerates
<1>2. \A i : i \in InkIn(t) <=> i \in 1..Len(t) /\ Ink(t[i])
  BY <1>1 DEF InkIn, Ink, Solid
<1>3. \A i : i \in S <=> /\ i \in 1..Len(t) /\ Solid(t[i])
                         /\ \E k \in InkIn(t) : k <= i
                         /\ \E k \in InkIn(t) : i <= k
  BY <1>1 DEF SeenIn, Solid
<1>4. \A k \in 1..Len(w) : w[k] \in 1..Len(t) /\ Solid(t[w[k]])
  BY <1>1 DEF Enumerates, Solids
<1>5. \A i \in 1..Len(t) : Solid(t[i]) => \E k \in 1..Len(w) : w[k] = i
  BY <1>1 DEF Enumerates, Solids
<1>6. \A k, l \in 1..Len(w) : w[k] <= w[l] <=> k <= l
  BY <1>1, EnumeratesRising
<1>7. \A m \in a..b : m \in 1..Len(w) /\ w[m] \in S
  <2>1. ASSUME NEW m \in a..b
        PROVE  m \in 1..Len(w) /\ w[m] \in S
    <3>1. m \in 1..Len(w) /\ a <= m /\ m <= b
      BY <1>1
    <3>2. w[a] <= w[m] /\ w[m] <= w[b]
      BY <1>1, <1>6, <3>1
    <3>3. w[a] \in InkIn(t) /\ w[b] \in InkIn(t)
      BY <1>1, <1>2, <1>4 DEF Spans
    <3>4. QED
      BY <1>3, <1>4, <3>1, <3>2, <3>3
  <2>2. QED
    BY <2>1
<1>8. ASSUME NEW i \in S
      PROVE  \E m \in a..b : w[m] = i
  <2>1. PICK m \in 1..Len(w) : w[m] = i
    BY <1>3, <1>5
  <2>2. PICK k \in InkIn(t) : k <= i
    BY <1>3
  <2>3. PICK l \in InkIn(t) : i <= l
    BY <1>3
  <2>4. PICK c \in 1..Len(w) : w[c] = k
    BY <1>2, <1>5 DEF Ink
  <2>5. PICK d \in 1..Len(w) : w[d] = l
    BY <1>2, <1>5 DEF Ink
  <2>6. a <= c /\ d <= b
    BY <1>2, <2>4, <2>5 DEF Spans
  <2>7. c <= m /\ m <= d
    BY <1>6, <2>1, <2>2, <2>3, <2>4, <2>5
  <2>8. m \in a..b
    BY <1>1, <2>6, <2>7
  <2>9. QED
    BY <2>1, <2>8
<1>9. /\ v \in Seq(Nat) /\ Len(v) = b - a + 1
      /\ \A n \in 1..(b - a + 1) : v[n] = w[a + n - 1] /\ a + n - 1 \in a..b
  <2>1. \A n \in 1..(b - a + 1) : a + n - 1 \in a..b
    BY <1>1
  <2>2. \A n \in 1..(b - a + 1) : w[a + n - 1] \in Nat
    BY <1>1, <1>7, <2>1
  <2>3. PICK c \in Nat : c = b - a + 1
    BY <1>1
  <2>4. v \in [1..c -> Nat]
    BY <2>2, <2>3
  <2>5. v \in Seq(Nat) /\ Len(v) = c
    <3>1. \A u \in [1..c -> Nat] : u \in Seq(Nat) /\ Len(u) = c
      OBVIOUS
    <3>2. QED
      BY <2>4, <3>1
  <2>6. QED
    BY <2>1, <2>3, <2>5
<1> HIDE DEF v, S
<1>10. Enumerates(v, S)
  <2>1. ASSUME NEW k \in 1..Len(v), NEW l \in 1..Len(v), k < l
        PROVE  v[k] < v[l]
    <3>1. PICK m \in a..b, o \in a..b : m = a + k - 1 /\ o = a + l - 1
      BY <1>9
    <3>2. m < o /\ v[k] = w[m] /\ v[l] = w[o]
      BY <1>1, <1>9, <2>1, <3>1
    <3>3. w[m] < w[o]
      BY <1>1, <1>7, <3>2 DEF Enumerates
    <3>4. QED
      BY <3>2, <3>3
  <2>2. ASSUME NEW k \in 1..Len(v)
        PROVE  v[k] \in S
    BY <1>7, <1>9
  <2>3. ASSUME NEW i \in S
        PROVE  \E k \in 1..Len(v) : v[k] = i
    <3>1. PICK m \in a..b : w[m] = i
      BY <1>8
    <3>2. PICK n \in Nat : n = m - a + 1
      BY <1>1
    <3>3. n \in 1..(b - a + 1) /\ a + n - 1 = m
      BY <1>1, <3>2
    <3>4. v[n] = w[m]
      BY <1>9, <3>3
    <3>5. QED
      BY <1>9, <3>1, <3>3, <3>4
  <2>4. QED
    BY <1>9, <2>1, <2>2, <2>3 DEF Enumerates
<1>11. Cardinality(S) = b - a + 1
  BY <1>9, <1>10, EnumeratesSome
<1>12. \A n \in 1..(b - a + 1) : at[n] = v[n]
  <2>1. ASSUME NEW n \in 1..(b - a + 1)
        PROVE  at[n] = v[n]
    <3>1. n \in 1..Cardinality(S) /\ n \in 1..Len(v)
      BY <1>9, <1>11
    <3>2. at[n] = Nth(S, n)
      BY <3>1 DEF Nth
    <3>3. Nth(S, n) = v[n]
      BY <1>10, <3>1, EnumeratesNth
    <3>4. QED
      BY <3>2, <3>3
  <2>2. QED
    BY <2>1
<1>13. DOMAIN at = 1..(b - a + 1)
  BY <1>11
<1>14. Seen(t) = [n \in DOMAIN at |->
                    <<IF n = 1 THEN "none" ELSE Gap(t, at[n - 1], at[n]), t[at[n]]>>]
  BY DEF Seen, S, SeenIn, InkIn
<1> HIDE DEF at
<1>15. ASSUME NEW n \in 1..(b - a + 1)
       PROVE  <<IF n = 1 THEN "none" ELSE Gap(t, at[n - 1], at[n]), t[at[n]]>>
                = Sight(t, w, a, n)
  <2>1. at[n] = w[a + n - 1]
    BY <1>9, <1>12
  <2>2. CASE n = 1
    BY <2>1, <2>2 DEF Sight
  <2>3. CASE n # 1
    <3>1. n - 1 \in 1..(b - a + 1)
      BY <1>1, <2>3
    <3>2. at[n - 1] = w[a + (n - 1) - 1] /\ a + (n - 1) - 1 = a + n - 2
      BY <1>1, <1>9, <1>12, <3>1
    <3>3. at[n - 1] = w[a + n - 2]
      BY <3>2
    <3>4. QED
      BY <2>1, <2>3, <3>3 DEF Sight
  <2>4. QED
    BY <2>2, <2>3
<1>16. Seen(t) = [n \in 1..(b - a + 1) |->
                    <<IF n = 1 THEN "none" ELSE Gap(t, at[n - 1], at[n]), t[at[n]]>>]
  BY <1>13, <1>14
<1>17. QED
  BY <1>15, <1>16

\* A text of nothing but tabs, spaces, newlines and noise shows nothing.
LEMMA SeenNothing ==
    ASSUME NEW t, InkIn(t) = {}
    PROVE  Seen(t) = << >>
<1> DEFINE S == SeenIn(t)
           at == [n \in 1..Cardinality(S) |->
                    CHOOSE i \in S : Cardinality({k \in S : k <= i}) = n]
<1>1. S = {}
  BY DEF SeenIn
<1>2. Cardinality(S) = 0
  BY <1>1, FS_EmptySet
<1>3. Seen(t) = [n \in DOMAIN at |->
                    <<IF n = 1 THEN "none" ELSE Gap(t, at[n - 1], at[n]), t[at[n]]>>]
  BY DEF Seen, SeenIn, InkIn
<1> HIDE DEF S
<1>4. DOMAIN at = 1..0 /\ 1..0 = {}
  BY <1>2
<1> HIDE DEF at
<1>5. DOMAIN Seen(t) = {} /\ Seen(t) = [n \in DOMAIN Seen(t) |-> Seen(t)[n]]
  BY <1>3, <1>4
<1>6. Seen(t) \in Seq({}) /\ Len(Seen(t)) = 0
  BY <1>4, <1>5
<1>7. QED
  BY <1>6

\* c shows a reader the same as s: the n-th rune of either, the gap before it
\* included; q and w are their places, those seen in s begin at the a-th.
SameSight(s, c, q, w, a, m) ==
    /\ a \in Nat /\ m \in Nat
    /\ Spans(s, q, a, a + m - 1)
    /\ Spans(c, w, 1, m)
    /\ \A n \in 1..m : Sight(c, w, 1, n) = Sight(s, q, a, n)

\* Where nothing is noise, what TrimSpace trims is what a reader does not see.
LEMMA InkOrWhite ==
    ASSUME NEW r, r \notin Noise
    PROVE  r \notin White <=> Ink(r)
BY DEF White, Ink, Solid

\* Trimmed, u shows what it shows between its a-th and b-th kept runes.
Trimmed(u, o, a, b, w) ==
    /\ Spans(TrimSpace(u), w, 1, b - a + 1)
    /\ \A n \in 1..(b - a + 1) : Sight(TrimSpace(u), w, 1, n) = Sight(u, o, a, n)

\* A trimmed text shows what the text showed.
LEMMA TrimShows ==
    ASSUME NEW R, NEW u \in Seq(R), NEW o, NEW a, NEW b, Spans(u, o, a, b),
           \A j \in 1..Len(u) : u[j] \notin Noise
    PROVE  \E w \in Seq(Nat) : Trimmed(u, o, a, b, w)
<1> DEFINE c == TrimSpace(u)
           x == o[a]
           y == o[b]
           m == b - a + 1
           w == [k \in 1..m |-> o[a + k - 1] - (x - 1)]
<1>1. /\ o \in Seq(Nat) /\ Len(o) \in Nat /\ Len(u) \in Nat
      /\ a \in 1..Len(o) /\ b \in 1..Len(o) /\ a <= b
      /\ Enumerates(o, Solids(u, Len(u)))
      /\ Ink(u[x]) /\ Ink(u[y])
      /\ \A k \in 1..Len(o) : Ink(u[o[k]]) => a <= k /\ k <= b
  BY DEF Spans, Enumerates
<1>2. /\ \A k \in 1..Len(o) : o[k] \in 1..Len(u) /\ Solid(u[o[k]])
      /\ \A i \in 1..Len(u) : Solid(u[i]) => \E k \in 1..Len(o) : o[k] = i
  BY <1>1 DEF Enumerates, Solids
<1>3. \A k, l \in 1..Len(o) : o[k] <= o[l] <=> k <= l
  BY <1>1, EnumeratesRising
<1>4. x \in 1..Len(u) /\ y \in 1..Len(u) /\ x <= y
  BY <1>1, <1>2, <1>3
<1>5. \A i \in 1..Len(u) : u[i] \notin White <=> Ink(u[i])
  BY InkOrWhite
<1>6. c = SubSeq(u, x, y)
  <2>1. PICK g, h : Left(u, White, g, h) /\ Trim(u, White) = SubSeq(u, g, h)
    <3>1. u[x] \notin White
      BY <1>1, <1>4, <1>5
    <3>2. QED
      BY <1>4, <3>1, TrimIs
  <2>2. /\ g \in 1..Len(u) /\ h \in 1..Len(u) /\ Ink(u[g]) /\ Ink(u[h])
        /\ g <= x /\ y <= h
    BY <1>1, <1>4, <1>5, <2>1 DEF Left
  <2>3. PICK k \in 1..Len(o) : o[k] = g
    BY <1>2, <2>2 DEF Ink
  <2>4. PICK l \in 1..Len(o) : o[l] = h
    BY <1>2, <2>2 DEF Ink
  <2>5. a <= k /\ l <= b
    BY <1>1, <2>2, <2>3, <2>4
  <2>6. x <= g /\ h <= y
    BY <1>1, <1>3, <2>3, <2>4, <2>5
  <2>7. x = g /\ y = h
    BY <1>4, <2>2, <2>6
  <2>8. QED
    BY <2>1, <2>7 DEF TrimSpace, White
<1>7. PICK e \in Nat : e = x - 1
  BY <1>4
<1>8. /\ c \in Seq(R) /\ Len(c) = y - e
      /\ \A i \in 1..(y - e) : c[i] = u[e + i]
  <2>1. x = e + 1 /\ e \in Nat /\ y \in Nat /\ y <= Len(u) /\ e <= y
    BY <1>4, <1>7
  <2>2. c = SubSeq(u, e + 1, y)
    BY <1>6, <2>1
  <2>3. /\ SubSeq(u, e + 1, y) \in Seq(R)
        /\ Len(SubSeq(u, e + 1, y)) = (IF e <= y THEN y - e ELSE 0)
        /\ \A i \in 1..(y - e) : SubSeq(u, e + 1, y)[i] = u[e + i]
    BY <2>1, Piece
  <2>4. QED
    BY <2>1, <2>2, <2>3
<1>9. ASSUME NEW k \in 1..m
      PROVE  /\ a + k - 1 \in 1..Len(o) /\ a <= a + k - 1 /\ a + k - 1 <= b
             /\ w[k] = o[a + k - 1] - e /\ w[k] \in Nat /\ w[k] \in 1..(y - e)
             /\ c[w[k]] = u[o[a + k - 1]]
  <2>1. a + k - 1 \in 1..Len(o) /\ a <= a + k - 1 /\ a + k - 1 <= b
    BY <1>1
  <2>2. PICK l \in 1..Len(o) : l = a + k - 1
    BY <2>1
  <2>3. x <= o[l] /\ o[l] <= y /\ o[l] \in 1..Len(u)
    BY <1>1, <1>2, <1>3, <2>1, <2>2
  <2>4. w[k] = o[l] - (x - 1)
    BY <2>2
  <2>5. w[k] = o[l] - e /\ w[k] \in Nat /\ w[k] \in 1..(y - e)
    <3>1. PICK f \in Nat, g \in Nat, h \in Nat : f = x /\ g = y /\ h = o[l]
      BY <1>4, <2>3
    <3>2. f <= h /\ h <= g /\ e = f - 1 /\ w[k] = h - (f - 1) /\ f >= 1
      BY <1>4, <1>7, <2>3, <2>4, <3>1
    <3>3. w[k] = h - e /\ h - e \in Nat /\ h - e \in 1..(g - e)
      BY <3>2
    <3>4. QED
      BY <3>1, <3>3
  <2>6. e + w[k] = o[l]
    BY <1>7, <2>3, <2>5
  <2>7. c[w[k]] = u[o[l]]
    BY <1>8, <2>5, <2>6
  <2>8. QED
    BY <2>1, <2>2, <2>5, <2>7
<1>10. PICK z \in Nat : z = m /\ z >= 1
  BY <1>1
<1>11. w \in Seq(Nat) /\ Len(w) = m
  <2>1. w \in [1..z -> Nat]
    BY <1>9, <1>10
  <2>2. \A f \in [1..z -> Nat] : f \in Seq(Nat) /\ Len(f) = z
    OBVIOUS
  <2>3. QED
    BY <1>10, <2>1, <2>2
<1> HIDE DEF w, c
<1>12. Enumerates(w, Solids(c, Len(c)))
  <2>1. ASSUME NEW k \in 1..Len(w), NEW l \in 1..Len(w), k < l
        PROVE  w[k] < w[l]
    <3>1. k \in 1..m /\ l \in 1..m /\ k \in Int /\ l \in Int
      BY <1>11
    <3>2. PICK i \in 1..Len(o), j \in 1..Len(o) : i = a + k - 1 /\ j = a + l - 1
      BY <1>9, <3>1
    <3>3. i < j
      BY <1>1, <2>1, <3>1, <3>2
    <3>4. o[i] < o[j] /\ o[i] \in Nat /\ o[j] \in Nat
      <4>1. o[i] < o[j]
        BY <1>1, <3>3 DEF Enumerates
      <4>2. o[i] \in Nat /\ o[j] \in Nat
        BY <1>2
      <4>3. QED
        BY <4>1, <4>2
    <3>5. w[k] = o[i] - e /\ w[l] = o[j] - e
      BY <1>9, <3>1, <3>2
    <3>6. QED
      BY <1>7, <3>4, <3>5
  <2>2. ASSUME NEW k \in 1..Len(w)
        PROVE  w[k] \in Solids(c, Len(c))
    <3>1. k \in 1..m
      BY <1>11
    <3>2. w[k] \in 1..Len(c) /\ Solid(c[w[k]])
      BY <1>2, <1>8, <1>9, <3>1
    <3>3. QED
      BY <3>2 DEF Solids
  <2>3. ASSUME NEW i \in Solids(c, Len(c))
        PROVE  \E k \in 1..Len(w) : w[k] = i
    <3>1. i \in 1..(y - e) /\ Solid(c[i])
      BY <1>8 DEF Solids
    <3>2. e + i \in 1..Len(u) /\ Solid(u[e + i]) /\ x <= e + i /\ e + i <= y
      <4>1. PICK f \in Nat, g \in Nat, n \in Nat : f = x /\ g = y /\ n = Len(u)
        BY <1>4
      <4>2. e = f - 1 /\ f >= 1 /\ g <= n /\ i \in 1..(g - e)
        BY <1>4, <1>7, <3>1, <4>1
      <4>3. e + i \in 1..n /\ f <= e + i /\ e + i <= g
        BY <4>2
      <4>4. c[i] = u[e + i]
        BY <1>8, <3>1
      <4>5. QED
        BY <3>1, <4>1, <4>3, <4>4
    <3>3. PICK l \in 1..Len(o) : o[l] = e + i
      BY <1>2, <3>2
    <3>4. a <= l /\ l <= b
      BY <1>1, <1>3, <3>2, <3>3
    <3>5. PICK k \in 1..m : a + k - 1 = l
      <4>1. l - a + 1 \in 1..m /\ a + (l - a + 1) - 1 = l
        BY <1>1, <3>4
      <4>2. QED
        BY <4>1
    <3>6. w[k] = o[l] - e
      BY <1>9, <3>5
    <3>7. w[k] = i
      BY <1>7, <3>1, <3>3, <3>6
    <3>8. QED
      BY <1>11, <3>7
  <2>4. QED
    BY <1>11, <2>1, <2>2, <2>3 DEF Enumerates
<1>13. Spans(c, w, 1, m)
  <2>1. 1 \in 1..Len(w) /\ m \in 1..Len(w) /\ 1 <= m
    BY <1>10, <1>11
  <2>2. 1 \in 1..m /\ m \in 1..m
    BY <1>10
  <2>3. a + 1 - 1 = a /\ a + m - 1 = b
    BY <1>1
  <2>4. Ink(c[w[1]]) /\ Ink(c[w[m]])
    <3>1. c[w[1]] = u[o[a]]
      BY <1>9, <2>2, <2>3
    <3>2. c[w[m]] = u[o[b]]
      BY <1>9, <2>2, <2>3
    <3>3. QED
      BY <1>1, <3>1, <3>2
  <2>5. \A k \in 1..Len(w) : 1 <= k /\ k <= m
    BY <1>10, <1>11
  <2>6. QED
    BY <1>12, <2>1, <2>4, <2>5 DEF Spans
<1>14. ASSUME NEW n \in 1..m
       PROVE  Sight(c, w, 1, n) = Sight(u, o, a, n)
  <2>1. 1 + n - 1 = n /\ 1 + n - 2 = n - 1
    BY <1>10
  <2>2. c[w[n]] = u[o[a + n - 1]]
    BY <1>9
  <2>3. CASE n = 1
    BY <2>1, <2>2, <2>3 DEF Sight
  <2>4. CASE n # 1
    <3>1. n - 1 \in 1..m /\ a + (n - 1) - 1 = a + n - 2
      BY <1>1, <1>10, <2>4
    <3>2. PICK i \in Nat, j \in Nat : i = w[n - 1] /\ j = w[n]
      BY <1>9, <3>1
    <3>3. i + e = o[a + n - 2] /\ j + e = o[a + n - 1] /\ j \in 1..(y - e) /\ i >= 1
      <4>1. PICK g \in 1..Len(o), h \in 1..Len(o) : g = a + n - 2 /\ h = a + n - 1
        BY <1>9, <3>1
      <4>2. i = o[g] - e /\ i \in 1..(y - e)
        BY <1>9, <3>1, <3>2, <4>1
      <4>3. j = o[h] - e /\ j \in 1..(y - e)
        BY <1>9, <3>2, <4>1
      <4>4. PICK p \in Nat, q \in Nat : p = o[g] /\ q = o[h]
        BY <1>2
      <4>5. i + e = p /\ j + e = q /\ i >= 1
        <5>1. i = p - e /\ j = q - e
          BY <4>2, <4>3, <4>4
        <5>2. PICK r \in Nat : r = y
          BY <1>4
        <5>3. i \in 1..(r - e)
          BY <4>2, <5>2
        <5>4. QED
          BY <5>1, <5>3
      <4>6. QED
        BY <4>1, <4>3, <4>4, <4>5
    <3>4. Moved(c, u, i, j, e)
      <4>1. ASSUME NEW k \in (i + 1)..(j - 1)
            PROVE  u[k + e] = c[k]
        <5>1. k \in 1..(y - e) /\ e + k = k + e
          <6>1. PICK g \in Nat : g = y
            BY <1>4
          <6>2. j \in 1..(g - e) /\ i >= 1
            BY <3>3, <6>1
          <6>3. k \in 1..(g - e) /\ e + k = k + e
            BY <6>2
          <6>4. QED
            BY <6>1, <6>3
        <5>2. QED
          BY <1>8, <5>1
      <4>2. QED
        BY <4>1 DEF Moved
    <3>5. Gap(u, i + e, j + e) = Gap(c, i, j)
      BY <3>4, GapMoved
    <3>6. QED
      BY <2>1, <2>2, <2>4, <3>2, <3>3, <3>5 DEF Sight
  <2>5. QED
    BY <2>3, <2>4
<1>15. QED
  BY <1>11, <1>13, <1>14 DEF c, Trimmed

\* What is read of s in t spans the same runes of both.
LEMMA ReadsSpan ==
    ASSUME NEW R, NEW s \in Seq(R), NEW t \in Seq(R), NEW q, NEW o,
           Reads(s, Len(s), t, q, o), NEW a, NEW b, Spans(s, q, a, b)
    PROVE  /\ Spans(t, o, a, b)
           /\ \A n \in 1..(b - a + 1) : Sight(t, o, a, n) = Sight(s, q, a, n)
<1>1. /\ Enumerates(o, Solids(t, Len(t))) /\ Len(o) = Len(q) /\ Len(q) \in Nat
      /\ \A k \in 1..Len(q) : t[o[k]] = s[q[k]]
      /\ \A k \in 1..(Len(q) - 1) : Gap(t, o[k], o[k + 1]) = Gap(s, q[k], q[k + 1])
  BY DEF Reads, Enumerates
<1>2. a \in 1..Len(q) /\ b \in 1..Len(q) /\ a <= b
  BY DEF Spans
<1>3. Spans(t, o, a, b)
  BY <1>1, <1>2 DEF Spans
<1>4. ASSUME NEW n \in 1..(b - a + 1)
      PROVE  Sight(t, o, a, n) = Sight(s, q, a, n)
  <2>1. a + n - 1 \in 1..Len(q)
    BY <1>1, <1>2
  <2>2. t[o[a + n - 1]] = s[q[a + n - 1]]
    BY <1>1, <2>1
  <2>3. CASE n = 1
    BY <2>2, <2>3 DEF Sight
  <2>4. CASE n # 1
    <3>1. PICK k \in 1..(Len(q) - 1) : k = a + n - 2 /\ k + 1 = a + n - 1
      <4>1. a + n - 2 \in 1..(Len(q) - 1) /\ (a + n - 2) + 1 = a + n - 1
        BY <1>1, <1>2, <2>4
      <4>2. QED
        BY <4>1
    <3>2. Gap(t, o[a + n - 2], o[a + n - 1]) = Gap(s, q[a + n - 2], q[a + n - 1])
      BY <1>1, <3>1
    <3>3. QED
      BY <2>2, <2>4, <3>2 DEF Sight
  <2>5. QED
    BY <2>3, <2>4
<1>5. QED
  BY <1>3, <1>4

\* A text with something to see spans from its first to its last such rune.
LEMMA SomeSpan ==
    ASSUME NEW R, NEW s \in Seq(R), NEW q, Enumerates(q, Solids(s, Len(s))), InkIn(s) # {}
    PROVE  \E a, b \in 1..Len(q) : Spans(s, q, a, b)
<1> DEFINE A == {k \in 1..Len(q) : Ink(s[q[k]])}
<1>1. q \in Seq(Nat) /\ Len(q) \in Nat /\ DOMAIN s = 1..Len(s)
  BY DEF Enumerates
<1>2. A # {}
  <2>1. PICK i \in InkIn(s) : TRUE
    OBVIOUS
  <2>2. i \in 1..Len(s) /\ Ink(s[i])
    BY <1>1 DEF InkIn, Ink, Solid
  <2>3. i \in Solids(s, Len(s))
    BY <2>2 DEF Solids, Ink
  <2>4. PICK k \in 1..Len(q) : q[k] = i
    BY <2>3 DEF Enumerates
  <2>5. k \in A
    BY <2>2, <2>4
  <2>6. QED
    BY <2>5
<1>3. A \in SUBSET Nat /\ \A k \in A : k <= Len(q)
  BY <1>1
<1>4. PICK a \in A : \A k \in A : a <= k
  BY <1>2, <1>3, LeastNatural
<1>5. PICK b \in A : \A k \in A : k <= b
  BY <1>1, <1>2, <1>3, GreatestNatural
<1>6. a <= b
  BY <1>4
<1>7. Spans(s, q, a, b)
  BY <1>4, <1>5, <1>6 DEF Spans
<1>8. QED
  BY <1>4, <1>5, <1>7

\* Normalizing leaves what a reader sees, or nothing where nothing is seen.
LEMMA NormalizeShows ==
    ASSUME NEW R, {"sp", "nl"} \subseteq R, NEW s \in Seq(R)
    PROVE  \/ InkIn(s) = {} /\ normalize(s) = << >>
           \/ \E q, w, a, m : SameSight(s, normalize(s), q, w, a, m)
<1> DEFINE n == Len(s)
           u == Passes(s)[n].out
<1>1. u \in Seq(R) /\ normalize(s) = TrimSpace(u) /\ n \in Nat /\ DOMAIN s = 1..n
  <2>1. n \in 0..n /\ n \in Nat /\ DOMAIN s = 1..n
    OBVIOUS
  <2>2. Passes(s)[n] \in Pass(R) /\ normalize(s) = TrimSpace(u)
    BY <2>1, PassesAre
  <2>3. QED
    BY <2>1, <2>2 DEF Pass
<1>2. \A j \in 1..Len(u) : u[j] \notin Noise
  BY PassIsNeat DEF Neat
<1>3. PICK q \in Seq(Nat), o \in Seq(Nat) : Reads(s, n, u, q, o)
  BY PassReads
<1> HIDE DEF u
<1>4. CASE InkIn(s) = {}
  <2>1. ASSUME NEW j \in 1..Len(u)
        PROVE  u[j] \in White
    <3>1. SUFFICES ASSUME Ink(u[j]) PROVE FALSE
      BY <1>2, InkOrWhite
    <3>2. j \in Solids(u, Len(u))
      BY <3>1 DEF Solids, Ink
    <3>3. PICK k \in 1..Len(q) : o[k] = j
      BY <1>3, <3>2 DEF Reads, Enumerates
    <3>4. u[j] = s[q[k]] /\ q[k] \in Solids(s, n)
      BY <1>3, <3>3 DEF Reads, Enumerates
    <3>5. q[k] \in InkIn(s)
      BY <1>1, <3>1, <3>4 DEF Solids, InkIn, Ink, Solid
    <3>6. QED
      BY <1>4, <3>5
  <2>2. ~ \E a, b : Left(u, White, a, b)
    BY <2>1 DEF Left
  <2>3. Trim(u, White) = << >>
    BY <1>1, <2>2, TrimIs
  <2>4. QED
    BY <1>1, <1>4, <2>3 DEF TrimSpace, White
<1>5. CASE InkIn(s) # {}
  <2>1. PICK a \in 1..Len(q), b \in 1..Len(q) : Spans(s, q, a, b)
    BY <1>3, <1>5, SomeSpan DEF Reads
  <2>2. /\ Spans(u, o, a, b)
        /\ \A k \in 1..(b - a + 1) : Sight(u, o, a, k) = Sight(s, q, a, k)
    BY <1>1, <1>3, <2>1, ReadsSpan
  <2>3. PICK w \in Seq(Nat) : Trimmed(u, o, a, b, w)
    BY <1>1, <1>2, <2>2, TrimShows
  <2>4. PICK m : m = b - a + 1
    OBVIOUS
  <2>5. a \in Nat /\ m \in Nat /\ a + m - 1 = b
    <3>1. a <= b
      BY <2>1 DEF Spans
    <3>2. QED
      BY <2>4, <3>1
  <2>6. SameSight(s, normalize(s), q, w, a, m)
    BY <1>1, <2>1, <2>2, <2>3, <2>4, <2>5 DEF SameSight, Trimmed
  <2>7. QED
    BY <2>6
<1>6. QED
  BY <1>4, <1>5

\* The runes a reader sees, and the gaps between them, are those of the text.
LEMMA NothingElseGoes ==
    ASSUME NEW R, {"sp", "nl"} \subseteq R, NEW s \in Seq(R)
    PROVE  Seen(normalize(s)) = Seen(s)
<1>1. normalize(s) \in Seq(R)
  <2>1. Len(s) \in 0..Len(s)
    OBVIOUS
  <2>2. Passes(s)[Len(s)].out \in Seq(R) /\ normalize(s) = TrimSpace(Passes(s)[Len(s)].out)
    BY <2>1, PassesAre DEF Pass
  <2>3. QED
    BY <2>2, TrimKeeps DEF TrimSpace
<1>2. CASE InkIn(s) = {} /\ normalize(s) = << >>
  <2>1. InkIn(<< >>) = {}
    BY DEF InkIn
  <2>2. QED
    BY <1>2, <2>1, SeenNothing
<1>3. ASSUME NEW q, NEW w, NEW a, NEW m, SameSight(s, normalize(s), q, w, a, m)
      PROVE  Seen(normalize(s)) = Seen(s)
  <2>1. a \in Nat /\ m \in Nat
    BY <1>3 DEF SameSight
  <2>2. PICK b : b = a + m - 1
    OBVIOUS
  <2>3. b - a + 1 = m /\ m - 1 + 1 = m
    BY <2>1, <2>2
  <2>4. Seen(s) = [n \in 1..(b - a + 1) |-> Sight(s, q, a, n)]
    BY <1>3, <2>2, SeenIs DEF SameSight
  <2>5. Seen(normalize(s)) = [n \in 1..(m - 1 + 1) |-> Sight(normalize(s), w, 1, n)]
    BY <1>1, <1>3, SeenIs DEF SameSight
  <2>6. Seen(s) = [n \in 1..m |-> Sight(s, q, a, n)]
    BY <2>3, <2>4
  <2>7. Seen(normalize(s)) = [n \in 1..m |-> Sight(normalize(s), w, 1, n)]
    BY <2>3, <2>5
  <2>8. \A n \in 1..m : Sight(normalize(s), w, 1, n) = Sight(s, q, a, n)
    BY <1>3 DEF SameSight
  <2>9. QED
    BY <2>6, <2>7, <2>8
<1>4. QED
  BY <1>2, <1>3, NormalizeShows

\* What normalize returns is tidy, and has nothing to trim.
LEMMA NormalizeIsTidy ==
    ASSUME NEW R, {"sp", "nl"} \subseteq R, NEW s \in Seq(R)
    PROVE  LET c == normalize(s) IN
           /\ c \in Seq(R)
           /\ Tidy(c)
           /\ c # << >> => c[1] \notin White /\ c[Len(c)] \notin White
<1> DEFINE c == normalize(s)
           u == Passes(s)[Len(s)].out
<1>1. u \in Seq(R) /\ c = TrimSpace(u)
  <2>1. Len(s) \in 0..Len(s)
    OBVIOUS
  <2>2. QED
    BY <2>1, PassesAre DEF Pass
<1>2. /\ \A j \in 1..Len(u) : u[j] \notin Noise \cup spacesToNormalize
      /\ \A j \in 1..Len(u) : u[j] = "sp" => /\ j > 1 /\ j < Len(u)
                                             /\ Solid(u[j - 1]) /\ Solid(u[j + 1])
      /\ \A j \in 3..Len(u) : ~(u[j] = "nl" /\ u[j - 1] = "nl" /\ u[j - 2] = "nl")
  <2>1. Neat(Passes(s)[Len(s)])
    BY PassIsNeat
  <2>2. QED
    BY <2>1 DEF Neat
<1> HIDE DEF c, u
<1>3. CASE c = << >>
  <2>1. DOMAIN c = {} /\ c \in Seq(R)
    BY <1>3
  <2>2. QED
    BY <1>3, <2>1 DEF Tidy, c
<1>4. ASSUME NEW a, NEW b, Left(u, White, a, b), Trim(u, White) = SubSeq(u, a, b)
      PROVE  c \in Seq(R) /\ Tidy(c) /\ c[1] \notin White /\ c[Len(c)] \notin White
  <2>1. /\ a \in 1..Len(u) /\ b \in 1..Len(u) /\ a <= b /\ Len(u) \in Nat
        /\ u[a] \notin White /\ u[b] \notin White
    BY <1>1, <1>4 DEF Left
  <2>2. PICK e \in Nat : e = a - 1
    BY <2>1
  <2>3. /\ c \in Seq(R) /\ Len(c) = b - e /\ b - e >= 1
        /\ \A i \in 1..(b - e) : c[i] = u[e + i] /\ e + i \in 1..Len(u)
    <3>1. a = e + 1 /\ e <= b /\ b \in Nat /\ b <= Len(u) /\ b - e >= 1
      BY <2>1, <2>2
    <3>2. c = SubSeq(u, e + 1, b)
      BY <1>1, <1>4, <3>1 DEF TrimSpace, White
    <3>3. /\ SubSeq(u, e + 1, b) \in Seq(R)
          /\ Len(SubSeq(u, e + 1, b)) = (IF e <= b THEN b - e ELSE 0)
          /\ \A i \in 1..(b - e) : SubSeq(u, e + 1, b)[i] = u[e + i]
      BY <1>1, <3>1, Piece
    <3>4. \A i \in 1..(b - e) : e + i \in 1..Len(u)
      BY <2>1, <3>1
    <3>5. QED
      BY <3>1, <3>2, <3>3, <3>4
  <2>4. PICK m \in Nat : m = b - e /\ m >= 1 /\ Len(c) = m /\ DOMAIN c = 1..m
    BY <2>1, <2>3
  <2>5. \A i \in 1..m : c[i] = u[e + i] /\ e + i \in 1..Len(u)
    BY <2>3, <2>4
  <2>6. c[1] \notin White /\ c[m] \notin White
    <3>1. 1 \in 1..m /\ m \in 1..m /\ e + 1 = a /\ e + m = b
      BY <2>1, <2>2, <2>4
    <3>2. c[1] = u[a] /\ c[m] = u[b]
      BY <2>5, <3>1
    <3>3. QED
      BY <2>1, <3>2
  <2>7. "sp" \in White /\ "nl" \in White
    BY DEF White, Space
  <2>8. ASSUME NEW i \in 1..m, c[i] = "sp"
        PROVE  i \notin {1, m} /\ {c[i - 1], c[i + 1]} \cap {"sp", "nl"} = {}
    <3>1. i # 1 /\ i # m
      BY <2>6, <2>7, <2>8
    <3>2. i - 1 \in 1..m /\ i + 1 \in 1..m
      BY <2>4, <3>1
    <3>3. Solid(u[(e + i) - 1]) /\ Solid(u[(e + i) + 1])
      BY <1>2, <2>5, <2>8
    <3>4. (e + i) - 1 = e + (i - 1) /\ (e + i) + 1 = e + (i + 1)
      BY <2>2
    <3>5. Solid(c[i - 1]) /\ Solid(c[i + 1])
      BY <2>5, <3>2, <3>3, <3>4
    <3>6. QED
      BY <3>1, <3>5, Kinds
  <2>9. ASSUME NEW i \in 1..m, c[i] = "nl"
        PROVE  i \notin {1, m} /\ (i > 2 => {c[i - 2], c[i - 1]} # {"nl"})
    <3>1. i # 1 /\ i # m
      BY <2>6, <2>7, <2>9
    <3>2. ASSUME i > 2, {c[i - 2], c[i - 1]} = {"nl"}
          PROVE  FALSE
      <4>1. i - 1 \in 1..m /\ i - 2 \in 1..m
        BY <2>4, <3>2
      <4>2. PICK j \in 3..Len(u) : j = e + i /\ j - 1 = e + (i - 1) /\ j - 2 = e + (i - 2)
        <5>1. e + i \in 3..Len(u) /\ (e + i) - 1 = e + (i - 1) /\ (e + i) - 2 = e + (i - 2)
          BY <2>1, <2>5, <3>2
        <5>2. QED
          BY <5>1
      <4>3. u[j] = "nl" /\ u[j - 1] = c[i - 1] /\ u[j - 2] = c[i - 2]
        BY <2>5, <2>9, <4>1, <4>2
      <4>4. c[i - 1] = "nl" /\ c[i - 2] = "nl"
        BY <3>2
      <4>5. QED
        BY <1>2, <4>3, <4>4
    <3>3. QED
      BY <3>1, <3>2
  <2>10. \A i \in 1..m : c[i] \notin Noise \cup spacesToNormalize
    BY <1>2, <2>5
  <2>11. Tidy(c)
    BY <2>4, <2>8, <2>9, <2>10 DEF Tidy
  <2>12. QED
    BY <2>3, <2>4, <2>6, <2>11
<1>5. CASE Trim(u, White) = << >>
  <2>1. c = << >>
    BY <1>1, <1>5 DEF TrimSpace, White
  <2>2. QED
    BY <1>3, <2>1
<1>6. \/ Trim(u, White) = << >>
      \/ \E a, b : Left(u, White, a, b) /\ Trim(u, White) = SubSeq(u, a, b)
  BY <1>1, TrimIs
<1>7. QED
  BY <1>4, <1>5, <1>6 DEF c

\* A text's beginning, one rune longer.
LEMMA Prefix ==
    ASSUME NEW R, NEW c \in Seq(R), NEW i \in 1..Len(c)
    PROVE  /\ SubSeq(c, 1, i) = SubSeq(c, 1, i - 1) \o <<c[i]>>
           /\ SubSeq(c, 1, i) = Append(SubSeq(c, 1, i - 1), c[i])
           /\ SubSeq(c, 1, 0) = << >>
           /\ SubSeq(c, 1, Len(c)) = c
           /\ SubSeq(c, 1, i - 1) \in Seq(R)
<1>1. c[i] \in R /\ i \in 1..i /\ 1 \in 1..Len(c) /\ i \in 1..Len(c) /\ i - 1 \in 0..Len(c)
  OBVIOUS
<1>2. SubSeq(c, 1, i - 1) \in Seq(R)
  BY <1>1
<1>3. SubSeq(c, 1, i) = SubSeq(c, 1, i - 1) \o <<c[i]>>
  BY <1>1, SubSeqRecursiveSecond
<1>4. Append(SubSeq(c, 1, i - 1), c[i]) = SubSeq(c, 1, i - 1) \o <<c[i]>>
  BY <1>1, <1>2, AppendIsConcat
<1>5. SubSeq(c, 1, 0) = << >> /\ SubSeq(c, 1, Len(c)) = c
  BY SubSeqEmpty, SubSeqFull
<1>6. QED
  BY <1>2, <1>3, <1>4, <1>5

\* What the pass holds after i runes of a tidy text: those i runes, but for a
\* space that waits for the next.
Copied(c, i, at) ==
    /\ i = 0 => /\ at.out = << >> /\ at.pendingSpace = FALSE /\ at.newlineRun = 0
    /\ i > 0 /\ Solid(c[i]) => /\ at.out = SubSeq(c, 1, i) /\ at.pendingSpace = FALSE
                               /\ at.atLineStart = FALSE /\ at.newlineRun = 0
    /\ i > 0 /\ c[i] = "sp" => /\ at.out = SubSeq(c, 1, i - 1) /\ at.pendingSpace = TRUE
                               /\ at.atLineStart = FALSE
    /\ i > 0 /\ c[i] = "nl" => /\ at.out = SubSeq(c, 1, i) /\ at.pendingSpace = FALSE
                               /\ at.newlineRun = IF c[i - 1] = "nl" THEN 2 ELSE 1

\* A step of the pass over a tidy text copies its rune.
LEMMA CopyStep ==
    ASSUME NEW R, {"sp", "nl"} \subseteq R, NEW c \in Seq(R), Tidy(c),
           NEW i \in 1..Len(c), NEW at \in Pass(R), Copied(c, i - 1, at)
    PROVE  Copied(c, i, Step(at, c[i]))
<1> DEFINE new == Step(at, c[i])
<1>1. /\ c[i] \in R /\ i \in Nat /\ i > 0 /\ Len(c) \in Nat /\ DOMAIN c = 1..Len(c)
      /\ i - 1 = 0 <=> i = 1
      /\ i - 1 > 0 <=> i > 1
      /\ i > 1 => i - 1 \in 1..Len(c)
  OBVIOUS
<1>2. /\ SubSeq(c, 1, i) = SubSeq(c, 1, i - 1) \o <<c[i]>>
      /\ SubSeq(c, 1, i) = Append(SubSeq(c, 1, i - 1), c[i])
      /\ SubSeq(c, 1, 0) = << >>
  BY Prefix
<1>3. \A j \in 1..Len(c) : c[j] \notin Noise /\ (Solid(c[j]) \/ c[j] = "sp" \/ c[j] = "nl")
  BY <1>1, Kinds DEF Tidy, Space
<1>4. /\ c[i] = "sp" => /\ i # 1 /\ c[i - 1] # "sp" /\ c[i - 1] # "nl"
      /\ c[i] = "nl" => /\ i # 1
                        /\ i > 2 => ~(c[i - 2] = "nl" /\ c[i - 1] = "nl")
  BY <1>1 DEF Tidy
<1>5. i > 1 /\ c[i - 1] = "sp" => c[i] # "sp" /\ c[i] # "nl"
  <2>1. SUFFICES ASSUME i > 1, c[i - 1] = "sp" PROVE c[i] # "sp" /\ c[i] # "nl"
    OBVIOUS
  <2>2. (i - 1) + 1 = i /\ i - 1 \in DOMAIN c
    BY <1>1, <2>1
  <2>3. c[(i - 1) + 1] # "sp" /\ c[(i - 1) + 1] # "nl"
    BY <2>1, <2>2 DEF Tidy
  <2>4. QED
    BY <2>2, <2>3
<1>6. CASE Solid(c[i])
  <2>1. /\ new.out = Kept(at, c[i]) /\ new.pendingSpace = FALSE
        /\ new.atLineStart = FALSE /\ new.newlineRun = 0
    BY <1>1, <1>6, SolidStep, ZenonT(40)
  <2>2. c[i] # "sp" /\ c[i] # "nl"
    BY <1>6, Kinds
  <2>3. new.out = SubSeq(c, 1, i)
    <3>1. CASE i = 1
      BY <1>1, <1>2, <2>1, <3>1 DEF Copied, Kept
    <3>2. CASE i > 1 /\ c[i - 1] = "sp"
      <4>1. at.out = SubSeq(c, 1, (i - 1) - 1) /\ at.pendingSpace = TRUE
            /\ at.atLineStart = FALSE
        BY <1>1, <3>2 DEF Copied
      <4>2. SubSeq(c, 1, i - 1) = Append(SubSeq(c, 1, (i - 1) - 1), "sp")
        BY <1>1, <3>2, Prefix
      <4>3. QED
        BY <1>2, <2>1, <4>1, <4>2 DEF Kept
    <3>3. CASE i > 1 /\ c[i - 1] # "sp"
      <4>1. at.out = SubSeq(c, 1, i - 1) /\ at.pendingSpace = FALSE
        BY <1>1, <1>3, <3>3 DEF Copied
      <4>2. QED
        BY <1>2, <2>1, <4>1 DEF Kept
    <3>4. QED
      BY <1>1, <3>1, <3>2, <3>3
  <2>4. QED
    BY <1>1, <2>1, <2>2, <2>3 DEF Copied
<1>7. CASE c[i] = "sp"
  <2>1. c[i] \in Space /\ c[i] # "nl" /\ ~Solid(c[i])
    BY <1>7, Kinds
  <2>2. /\ new.out = at.out /\ new.pendingSpace = TRUE
        /\ new.atLineStart = at.atLineStart
    BY <1>1, <2>1, SpaceStep, ZenonT(40)
  <2>3. i > 1 /\ Solid(c[i - 1])
    BY <1>1, <1>3, <1>4, <1>7
  <2>4. at.out = SubSeq(c, 1, i - 1) /\ at.atLineStart = FALSE
    BY <1>1, <2>3 DEF Copied
  <2>5. QED
    BY <1>1, <2>1, <2>2, <2>4 DEF Copied
<1>8. CASE c[i] = "nl"
  <2>1. c[i] # "sp" /\ ~Solid(c[i])
    BY <1>8, Kinds
  <2>2. /\ new.out = (IF at.newlineRun < 2 THEN Append(at.out, "nl") ELSE at.out)
        /\ new.pendingSpace = FALSE /\ new.newlineRun = at.newlineRun + 1
    BY <1>1, <1>8, NewlineStep, ZenonT(40)
  <2>3. i > 1 /\ c[i - 1] # "sp"
    BY <1>1, <1>4, <1>5, <1>8
  <2>4. CASE Solid(c[i - 1])
    <3>1. at.out = SubSeq(c, 1, i - 1) /\ at.newlineRun = 0 /\ c[i - 1] # "nl"
      BY <1>1, <2>3, <2>4, Kinds DEF Copied
    <3>2. new.out = SubSeq(c, 1, i) /\ new.newlineRun = 1
      <4>1. at.newlineRun < 2 /\ at.newlineRun + 1 = 1
        BY <3>1
      <4>2. new.out = Append(at.out, "nl")
        BY <2>2, <4>1
      <4>3. SubSeq(c, 1, i) = Append(at.out, "nl")
        BY <1>2, <1>8, <3>1
      <4>4. QED
        BY <2>2, <4>1, <4>2, <4>3
    <3>3. QED
      BY <1>1, <2>1, <2>2, <3>1, <3>2 DEF Copied
  <2>5. CASE c[i - 1] = "nl"
    <3>1. i - 1 # 1 /\ i - 1 \in 1..Len(c)
      BY <1>1, <2>3, <2>5 DEF Tidy
    <3>2. i > 2 /\ (i - 1) - 1 = i - 2
      BY <1>1, <2>3, <3>1
    <3>3. c[(i - 1) - 1] # "nl"
      BY <1>4, <1>8, <2>5, <3>2
    <3>4. at.out = SubSeq(c, 1, i - 1) /\ at.newlineRun = 1
      BY <1>1, <2>3, <2>5, <3>3 DEF Copied
    <3>5. new.out = SubSeq(c, 1, i) /\ new.newlineRun = 2
      <4>1. at.newlineRun < 2 /\ at.newlineRun + 1 = 2
        BY <3>4
      <4>2. new.out = Append(at.out, "nl") /\ new.newlineRun = 2
        BY <2>2, <4>1
      <4>3. QED
        BY <1>2, <1>8, <3>4, <4>2
    <3>6. QED
      BY <1>1, <2>1, <2>2, <2>5, <3>5 DEF Copied
  <2>6. QED
    BY <1>1, <1>3, <2>3, <2>4, <2>5
<1>9. QED
  BY <1>3, <1>6, <1>7, <1>8

\* Normalizing what is tidy and has nothing to trim changes nothing.
LEMMA NormalizeTidy ==
    ASSUME NEW R, {"sp", "nl"} \subseteq R, NEW c \in Seq(R), Tidy(c),
           c # << >> => c[1] \notin White /\ c[Len(c)] \notin White
    PROVE  normalize(c) = c
<1> DEFINE Holds == {i \in 0..Len(c) : Copied(c, i, Passes(c)[i])}
<1>1. Len(c) \in Nat /\ Holds \in SUBSET (0..Len(c))
  OBVIOUS
<1>2. /\ Passes(c)[0] = Blank
      /\ \A i \in 1..Len(c) : Passes(c)[i] = Step(Passes(c)[i - 1], c[i])
      /\ \A i \in 0..Len(c) : Passes(c)[i] \in Pass(R)
      /\ normalize(c) = TrimSpace(Passes(c)[Len(c)].out)
  BY PassesAre
<1>3. 0 \in Holds
  <2>1. Copied(c, 0, Blank)
    BY DEF Copied, Blank
  <2>2. QED
    BY <1>1, <1>2, <2>1
<1>4. ASSUME NEW i \in 1..Len(c), i - 1 \in Holds
      PROVE  i \in Holds
  <2>1. i - 1 \in 0..Len(c) /\ i \in 0..Len(c)
    OBVIOUS
  <2>2. PICK at \in Pass(R) : at = Passes(c)[i - 1]
    BY <1>2, <2>1
  <2>3. Copied(c, i - 1, at) /\ Passes(c)[i] = Step(at, c[i])
    BY <1>2, <1>4, <2>2
  <2>4. Copied(c, i, Step(at, c[i]))
    BY <2>3, CopyStep
  <2>5. QED
    BY <2>1, <2>3, <2>4
<1> HIDE DEF Holds
<1>5. Holds = 0..Len(c)
  BY <1>1, <1>3, <1>4, InductionUpTo
<1>6. Len(c) \in Holds
  BY <1>1, <1>5
<1>7. Copied(c, Len(c), Passes(c)[Len(c)])
  BY <1>6 DEF Holds
<1>8. CASE c = << >>
  <2>1. Passes(c)[Len(c)].out = << >>
    BY <1>7, <1>8 DEF Copied
  <2>2. ~ \E a, b : Left(c, White, a, b)
    BY <1>8 DEF Left
  <2>3. Trim(c, White) = << >>
    BY <2>2, TrimIs
  <2>4. QED
    BY <1>2, <1>8, <2>1, <2>3 DEF TrimSpace, White
<1>9. CASE c # << >>
  <2>1. /\ Len(c) > 0 /\ 1 \in 1..Len(c) /\ Len(c) \in 1..Len(c) /\ DOMAIN c = 1..Len(c)
        /\ c[1] \notin White /\ c[Len(c)] \notin White
    BY <1>9
  <2>2. Solid(c[Len(c)])
    <3>1. c[Len(c)] \notin Noise
      BY <2>1 DEF Tidy
    <3>2. QED
      BY <2>1, <3>1 DEF White, Solid
  <2>3. Passes(c)[Len(c)].out = SubSeq(c, 1, Len(c)) /\ SubSeq(c, 1, Len(c)) = c
    BY <1>7, <2>1, <2>2, SubSeqFull DEF Copied
  <2>4. PICK a, b : Left(c, White, a, b) /\ Trim(c, White) = SubSeq(c, a, b)
    BY <2>1, TrimIs
  <2>5. a = 1 /\ b = Len(c)
    <3>1. PICK n \in Nat : n = Len(c)
      BY <1>1
    <3>2. a \in 1..n /\ b \in 1..n /\ a <= 1 /\ n <= b
      BY <2>1, <2>4, <3>1 DEF Left
    <3>3. QED
      BY <3>1, <3>2
  <2>6. Trim(c, White) = c
    BY <2>3, <2>4, <2>5
  <2>7. QED
    BY <1>2, <2>3, <2>6 DEF TrimSpace, White
<1>10. QED
  BY <1>8, <1>9

-----------------------------------------------------------------------------
(* What ReplaceAllString takes away.                                       *)

\* Matches begin where end is not 0, and end there or later, in the text.
Matches(s, end) ==
    /\ end \in [1..Len(s) -> Nat]
    /\ \A i \in 1..Len(s) : end[i] # 0 => i <= end[i] /\ end[i] <= Len(s)

\* g says from i on what is left of s from there.
Leaves(s, end, i, g) ==
    /\ g[Len(s) + 1] = << >>
    /\ \A j \in i..Len(s) : g[j] = IF end[j] # 0 THEN g[end[j] + 1]
                                   ELSE <<s[j]>> \o g[j + 1]

\* There is such a g ...
LEMMA LeavingExists ==
    ASSUME NEW R, NEW s \in Seq(R), NEW end, Matches(s, end)
    PROVE  \E g \in [1..(Len(s) + 1) -> Seq(R)] : Leaves(s, end, 1, g)
<1> DEFINE Some(d) == \E g \in [(Len(s) + 1 - d)..(Len(s) + 1) -> Seq(R)] :
                         Leaves(s, end, Len(s) + 1 - d, g)
           Holds == {d \in 0..Len(s) : Some(d)}
<1>1. PICK n \in Nat : n = Len(s)
  OBVIOUS
<1>2. 0 \in Holds
  <2>1. PICK g \in [(n + 1)..(n + 1) -> Seq(R)] : g = [j \in (n + 1)..(n + 1) |-> << >>]
    <3>1. << >> \in Seq(R)
      OBVIOUS
    <3>2. QED
      BY <3>1
  <2>2. g[n + 1] = << >> /\ \A j \in (n + 1)..n : FALSE
    BY <2>1
  <2>3. Leaves(s, end, n + 1, g)
    BY <1>1, <2>2 DEF Leaves
  <2>4. n + 1 - 0 = n + 1
    OBVIOUS
  <2>5. Some(0)
    BY <1>1, <2>1, <2>3, <2>4
  <2>6. QED
    BY <1>1, <2>5
<1>3. ASSUME NEW d \in 1..n, d - 1 \in Holds
      PROVE  d \in Holds
  <2>1. PICK i \in 1..n : i = n + 1 - d /\ i + 1 = n + 1 - (d - 1)
    <3>1. n + 1 - d \in 1..n /\ (n + 1 - d) + 1 = n + 1 - (d - 1)
      OBVIOUS
    <3>2. QED
      BY <3>1
  <2>2. PICK g \in [(i + 1)..(n + 1) -> Seq(R)] : Leaves(s, end, i + 1, g)
    BY <1>1, <1>3, <2>1
  <2> DEFINE v == IF end[i] # 0 THEN g[end[i] + 1] ELSE <<s[i]>> \o g[i + 1]
             h == [j \in i..(n + 1) |-> IF j = i THEN v ELSE g[j]]
  <2>3. /\ end[i] \in Nat /\ (end[i] # 0 => end[i] + 1 \in (i + 1)..(n + 1))
        /\ i + 1 \in (i + 1)..(n + 1) /\ s[i] \in R
    <3>1. end[i] \in Nat /\ (end[i] # 0 => i <= end[i] /\ end[i] <= n)
      BY <1>1 DEF Matches
    <3>2. QED
      BY <1>1, <3>1
  <2>4. v \in Seq(R)
    <3>1. CASE end[i] # 0
      BY <2>3, <3>1
    <3>2. CASE end[i] = 0
      <4>1. <<s[i]>> \in Seq(R) /\ g[i + 1] \in Seq(R)
        BY <2>3
      <4>2. <<s[i]>> \o g[i + 1] \in Seq(R)
        BY <4>1
      <4>3. QED
        BY <3>2, <4>2
    <3>3. QED
      BY <3>1, <3>2
  <2> HIDE DEF v
  <2>5. h \in [i..(n + 1) -> Seq(R)] /\ h[i] = v /\ \A j \in (i + 1)..(n + 1) : h[j] = g[j]
    <3>1. \A j \in i..(n + 1) : j # i => j \in (i + 1)..(n + 1)
      OBVIOUS
    <3>2. \A j \in (i + 1)..(n + 1) : j \in i..(n + 1) /\ j # i
      OBVIOUS
    <3>3. i \in i..(n + 1)
      OBVIOUS
    <3>4. QED
      BY <2>4, <3>1, <3>2, <3>3
  <2> HIDE DEF h
  <2>6. h[n + 1] = << >>
    <3>1. n + 1 \in (i + 1)..(n + 1)
      OBVIOUS
    <3>2. QED
      BY <1>1, <2>2, <2>5, <3>1 DEF Leaves
  <2>7. ASSUME NEW j \in i..n
        PROVE  h[j] = IF end[j] # 0 THEN h[end[j] + 1] ELSE <<s[j]>> \o h[j + 1]
    <3>1. /\ j + 1 \in (i + 1)..(n + 1)
          /\ end[j] \in Nat /\ (end[j] # 0 => end[j] + 1 \in (i + 1)..(n + 1))
      <4>1. end[j] \in Nat /\ (end[j] # 0 => j <= end[j] /\ end[j] <= n)
        BY <1>1 DEF Matches
      <4>2. QED
        BY <4>1
    <3>2. /\ h[j + 1] = g[j + 1]
          /\ end[j] # 0 => h[end[j] + 1] = g[end[j] + 1]
      BY <2>5, <3>1
    <3>3. CASE j = i
      BY <2>5, <3>2, <3>3 DEF v
    <3>4. CASE j # i
      <4>1. j \in (i + 1)..n /\ j \in (i + 1)..(n + 1)
        BY <3>4
      <4>2. g[j] = IF end[j] # 0 THEN g[end[j] + 1] ELSE <<s[j]>> \o g[j + 1]
        BY <1>1, <2>2, <4>1 DEF Leaves
      <4>3. QED
        BY <2>5, <3>2, <4>1, <4>2
    <3>5. QED
      BY <3>3, <3>4
  <2>8. Leaves(s, end, i, h)
    BY <1>1, <2>6, <2>7 DEF Leaves
  <2>9. Some(d)
    BY <1>1, <2>1, <2>5, <2>8
  <2>10. QED
    BY <1>1, <2>9
<1>4. Holds \in SUBSET (0..n)
  BY <1>1
<1> HIDE DEF Holds
<1>5. Holds = 0..n
  BY <1>2, <1>3, <1>4, InductionUpTo
<1>6. n \in Holds
  BY <1>5
<1>7. Some(n)
  BY <1>6 DEF Holds
<1>8. n + 1 - n = 1
  OBVIOUS
<1>9. QED
  BY <1>1, <1>7, <1>8

\* ... and it is what Without unfolds.
Froms(s, end) ==
    CHOOSE f : f = [i \in 1..(Len(s) + 1) |->
                      IF i > Len(s) THEN << >>
                      ELSE IF end[i] # 0 THEN f[end[i] + 1]
                      ELSE <<s[i]>> \o f[i + 1]]

\* It says what is left of s, and Without is its first value.
LEMMA FromsAre ==
    ASSUME NEW R, NEW s \in Seq(R), NEW end, Matches(s, end)
    PROVE  /\ Leaves(s, end, 1, Froms(s, end))
           /\ Without(s, end) = Froms(s, end)[1]
<1> DEFINE Value(f, i) == IF i > Len(s) THEN << >>
                          ELSE IF end[i] # 0 THEN f[end[i] + 1]
                          ELSE <<s[i]>> \o f[i + 1]
           Is(f) == f = [i \in 1..(Len(s) + 1) |-> Value(f, i)]
<1>1. PICK n \in Nat : n = Len(s)
  OBVIOUS
<1>2. PICK g \in [1..(Len(s) + 1) -> Seq(R)] : Leaves(s, end, 1, g)
  BY LeavingExists
<1>3. Is(g)
  <2>1. ASSUME NEW i \in 1..(n + 1)
        PROVE  g[i] = Value(g, i)
    <3>1. CASE i = n + 1
      BY <1>1, <1>2, <3>1 DEF Leaves
    <3>2. CASE i \in 1..n
      <4>1. ~(i > n)
        BY <3>2
      <4>2. g[i] = IF end[i] # 0 THEN g[end[i] + 1] ELSE <<s[i]>> \o g[i + 1]
        BY <1>1, <1>2, <3>2 DEF Leaves
      <4>3. QED
        BY <1>1, <4>1, <4>2
    <3>3. QED
      BY <3>1, <3>2
  <2>2. g = [i \in 1..(Len(s) + 1) |-> g[i]]
    BY <1>2
  <2> HIDE DEF Value
  <2>3. QED
    BY <1>1, <2>1, <2>2
<1>4. Is(Froms(s, end))
  <2>1. Froms(s, end) = CHOOSE f : Is(f)
    BY DEF Froms
  <2> HIDE DEF Is
  <2>2. QED
    BY <1>3, <2>1
<1>5. \A i \in 1..(n + 1) : Froms(s, end)[i] = Value(Froms(s, end), i)
  BY <1>1, <1>4
<1>6. Leaves(s, end, 1, Froms(s, end))
  <2>1. Froms(s, end)[n + 1] = << >>
    <3>1. n + 1 \in 1..(n + 1) /\ n + 1 > n
      OBVIOUS
    <3>2. QED
      BY <1>1, <1>5, <3>1
  <2>2. ASSUME NEW j \in 1..n
        PROVE  Froms(s, end)[j] = IF end[j] # 0 THEN Froms(s, end)[end[j] + 1]
                                  ELSE <<s[j]>> \o Froms(s, end)[j + 1]
    <3>1. j \in 1..(n + 1) /\ ~(j > n)
      OBVIOUS
    <3>2. QED
      BY <1>1, <1>5, <3>1
  <2>3. QED
    BY <1>1, <2>1, <2>2 DEF Leaves
<1>7. Without(s, end) = Froms(s, end)[1]
  BY DEF Without, Froms
<1>8. QED
  BY <1>6, <1>7

\* The places q of s from i on that no match covers, u being their runes: two
\* places in a row are kept together when no match begins at the second.
Picks(s, end, i, q, u) ==
    /\ q \in Seq(Nat)
    /\ u = [k \in 1..Len(q) |-> s[q[k]]]
    /\ \A k \in 1..Len(q) : q[k] \in i..Len(s) /\ end[q[k]] = 0
    /\ \A k, l \in 1..Len(q) : k < l => q[k] < q[l]
    /\ \A k \in 1..Len(q) : q[k] < Len(s) /\ end[q[k] + 1] = 0
                              => k < Len(q) /\ q[k + 1] = q[k] + 1
    /\ i <= Len(s) /\ end[i] = 0 => Len(q) >= 1 /\ q[1] = i

\* One more rune is kept.
LEMMA PicksMore ==
    ASSUME NEW R, NEW s \in Seq(R), NEW end, Matches(s, end), NEW i \in 1..Len(s),
           end[i] = 0, NEW q, NEW u, Picks(s, end, i + 1, q, u)
    PROVE  Picks(s, end, i, <<i>> \o q, <<s[i]>> \o u)
<1> DEFINE q2 == <<i>> \o q
           u2 == <<s[i]>> \o u
<1>1. PICK n \in Nat, m \in Nat : n = Len(s) /\ m = Len(q)
  BY DEF Picks
<1>2. /\ q \in Seq(Nat) /\ i \in Nat /\ i >= 1 /\ i <= n
      /\ \A k \in 1..m : q[k] \in (i + 1)..n /\ end[q[k]] = 0
      /\ u = [k \in 1..m |-> s[q[k]]]
  BY <1>1 DEF Picks
<1>3. /\ q2 \in Seq(Nat) /\ Len(q2) = m + 1 /\ q2[1] = i
      /\ \A k \in 1..m : q2[k + 1] = q[k]
  BY <1>1, <1>2
<1>4. u \in Seq(R) /\ Len(u) = m /\ \A k \in 1..m : u[k] = s[q[k]]
  <2>1. \A k \in 1..m : s[q[k]] \in R
    BY <1>1, <1>2
  <2>2. u \in [1..m -> R]
    BY <1>2, <2>1
  <2>3. \A f \in [1..m -> R] : f \in Seq(R) /\ Len(f) = m
    OBVIOUS
  <2>4. QED
    BY <1>2, <2>2, <2>3
<1>5. /\ u2 \in Seq(R) /\ Len(u2) = m + 1 /\ u2[1] = s[i]
      /\ \A k \in 1..m : u2[k + 1] = u[k]
  <2>1. s[i] \in R
    OBVIOUS
  <2>2. QED
    BY <1>4, <2>1
<1> HIDE DEF q2, u2
<1>6. ASSUME NEW k \in 1..(m + 1), k # 1
      PROVE  k - 1 \in 1..m /\ q2[k] = q[k - 1] /\ u2[k] = u[k - 1]
  <2>1. k - 1 \in 1..m /\ (k - 1) + 1 = k
    BY <1>6
  <2>2. q2[(k - 1) + 1] = q[k - 1] /\ u2[(k - 1) + 1] = u[k - 1]
    BY <1>3, <1>5, <2>1
  <2>3. QED
    BY <2>1, <2>2
<1>7. ASSUME NEW k \in 1..(m + 1)
      PROVE  /\ q2[k] \in i..n /\ end[q2[k]] = 0 /\ u2[k] = s[q2[k]]
             /\ k # 1 => q2[k] > i
  <2>1. CASE k = 1
    BY <1>2, <1>3, <1>5, <2>1
  <2>2. CASE k # 1
    <3>1. k - 1 \in 1..m /\ q2[k] = q[k - 1] /\ u2[k] = u[k - 1]
      BY <1>6, <2>2
    <3>2. q[k - 1] \in (i + 1)..n /\ end[q[k - 1]] = 0 /\ u[k - 1] = s[q[k - 1]]
      BY <1>2, <1>4, <3>1
    <3>3. PICK j \in (i + 1)..n : j = q[k - 1]
      BY <3>2
    <3>4. j \in i..n /\ j > i
      BY <1>2
    <3>5. QED
      BY <3>1, <3>2, <3>3, <3>4
  <2>3. QED
    BY <2>1, <2>2
<1>8. u2 = [k \in 1..Len(q2) |-> s[q2[k]]]
  <2>1. u2 = [k \in 1..Len(u2) |-> u2[k]]
    BY <1>5
  <2>2. QED
    BY <1>3, <1>5, <1>7, <2>1
<1>9. ASSUME NEW k \in 1..(m + 1), NEW l \in 1..(m + 1), k < l
      PROVE  q2[k] < q2[l]
  <2>1. l # 1
    BY <1>9
  <2>2. l - 1 \in 1..m /\ q2[l] = q[l - 1] /\ q2[l] > i
    BY <1>6, <1>7, <2>1
  <2>3. CASE k = 1
    BY <1>3, <2>2, <2>3
  <2>4. CASE k # 1
    <3>1. k - 1 \in 1..m /\ q2[k] = q[k - 1] /\ k - 1 < l - 1
      BY <1>6, <1>9, <2>4
    <3>2. q[k - 1] < q[l - 1]
      BY <1>1, <2>2, <3>1 DEF Picks
    <3>3. QED
      BY <2>2, <3>1, <3>2
  <2>5. QED
    BY <2>3, <2>4
<1>10. ASSUME NEW k \in 1..(m + 1), q2[k] < n, end[q2[k] + 1] = 0
       PROVE  k < m + 1 /\ q2[k + 1] = q2[k] + 1
  <2>1. CASE k = 1
    <3>1. q2[k] = i /\ i < n /\ end[i + 1] = 0
      BY <1>3, <1>10, <2>1
    <3>2. i + 1 <= n /\ m >= 1 /\ q[1] = i + 1
      BY <1>1, <1>2, <3>1 DEF Picks
    <3>3. 1 \in 1..m
      BY <3>2
    <3>4. q2[1 + 1] = q[1]
      BY <1>3, <3>3
    <3>5. QED
      BY <2>1, <3>1, <3>2, <3>4
  <2>2. CASE k # 1
    <3>1. k - 1 \in 1..m /\ q2[k] = q[k - 1]
      BY <1>6, <2>2
    <3>2. k - 1 < m /\ q[(k - 1) + 1] = q[k - 1] + 1
      BY <1>1, <1>10, <3>1 DEF Picks
    <3>3. k \in 1..m /\ (k - 1) + 1 = k
      BY <3>1, <3>2
    <3>4. q2[k + 1] = q[k]
      BY <1>3, <3>3
    <3>5. QED
      BY <3>1, <3>2, <3>3, <3>4
  <2>3. QED
    BY <2>1, <2>2
<1>11. m + 1 >= 1
  OBVIOUS
<1>12. Picks(s, end, i, q2, u2)
  BY <1>1, <1>3, <1>7, <1>8, <1>9, <1>10, <1>11 DEF Picks
<1>13. QED
  BY <1>12 DEF q2, u2

\* What is left of s is what no match covers.
LEMMA WithoutPicks ==
    ASSUME NEW R, NEW s \in Seq(R), NEW end, Matches(s, end)
    PROVE  \E q : Picks(s, end, 1, q, Without(s, end))
<1> DEFINE f == Froms(s, end)
           Some(i) == \E q : Picks(s, end, i, q, f[i])
           Holds == {d \in 0..Len(s) : \A j \in (Len(s) + 1 - d)..(Len(s) + 1) : Some(j)}
<1>1. PICK n \in Nat : n = Len(s)
  OBVIOUS
<1>2. Leaves(s, end, 1, f) /\ Without(s, end) = f[1]
  BY FromsAre
<1> HIDE DEF f
<1>3. 0 \in Holds
  <2>1. Picks(s, end, n + 1, << >>, << >>)
    <3>1. PICK z : z = << >>
      OBVIOUS
    <3>2. z \in Seq(Nat) /\ Len(z) = 0 /\ \A k \in 1..0 : FALSE
      BY <3>1
    <3>3. z = [k \in 1..Len(z) |-> s[z[k]]]
      <4>1. [k \in 1..0 |-> s[z[k]]] \in Seq({}) /\ Len([k \in 1..0 |-> s[z[k]]]) = 0
        OBVIOUS
      <4>2. QED
        BY <3>1, <3>2, <4>1
    <3>4. ~(n + 1 <= n)
      OBVIOUS
    <3>5. Picks(s, end, n + 1, z, z)
      BY <1>1, <3>2, <3>3, <3>4 DEF Picks
    <3>6. QED
      BY <3>1, <3>5
  <2>2. f[n + 1] = << >>
    BY <1>1, <1>2 DEF Leaves
  <2>3. Some(n + 1)
    BY <2>1, <2>2
  <2> HIDE DEF Some
  <2>4. \A j \in (n + 1 - 0)..(n + 1) : j = n + 1
    OBVIOUS
  <2>5. QED
    BY <1>1, <2>3, <2>4
<1>4. ASSUME NEW d \in 1..n, d - 1 \in Holds
      PROVE  d \in Holds
  <2>1. PICK i \in 1..n : i = n + 1 - d /\ i + 1 = n + 1 - (d - 1)
    <3>1. n + 1 - d \in 1..n /\ (n + 1 - d) + 1 = n + 1 - (d - 1)
      OBVIOUS
    <3>2. QED
      BY <3>1
  <2>2. \A j \in (i + 1)..(n + 1) : Some(j)
    BY <1>1, <1>4, <2>1
  <2>3. end[i] \in Nat /\ (end[i] # 0 => i <= end[i] /\ end[i] <= n)
    BY <1>1 DEF Matches
  <2>4. f[i] = IF end[i] # 0 THEN f[end[i] + 1] ELSE <<s[i]>> \o f[i + 1]
    BY <1>1, <1>2 DEF Leaves
  <2>5. Some(i)
    <3>1. CASE end[i] # 0
      <4>1. PICK j \in (i + 1)..(n + 1) : j = end[i] + 1
        BY <2>3, <3>1
      <4>2. PICK q : Picks(s, end, j, q, f[j])
        BY <2>2
      <4>3. \A k \in 1..Len(q) : q[k] \in i..n
        <5>1. ASSUME NEW k \in 1..Len(q)
              PROVE  q[k] \in i..n
          <6>1. q[k] \in j..n
            BY <1>1, <4>2 DEF Picks
          <6>2. QED
            BY <6>1
        <5>2. QED
          BY <5>1
      <4>4. f[i] = f[j]
        BY <2>4, <3>1, <4>1
      <4>5. Picks(s, end, i, q, f[i])
        BY <1>1, <3>1, <4>2, <4>3, <4>4 DEF Picks
      <4>6. QED
        BY <4>5
    <3>2. CASE end[i] = 0
      <4>1. i + 1 \in (i + 1)..(n + 1)
        OBVIOUS
      <4>2. PICK q : Picks(s, end, i + 1, q, f[i + 1])
        BY <2>2, <4>1
      <4>3. PICK u : u = f[i + 1]
        OBVIOUS
      <4>4. Picks(s, end, i, <<i>> \o q, <<s[i]>> \o u)
        BY <1>1, <3>2, <4>2, <4>3, PicksMore
      <4>5. Picks(s, end, i, <<i>> \o q, f[i])
        BY <2>4, <3>2, <4>3, <4>4
      <4>6. QED
        BY <4>5
    <3>3. QED
      BY <3>1, <3>2
  <2> HIDE DEF Some
  <2>6. \A j \in i..(n + 1) : j = i \/ j \in (i + 1)..(n + 1)
    OBVIOUS
  <2>7. \A j \in i..(n + 1) : Some(j)
    BY <2>2, <2>5, <2>6
  <2>8. QED
    BY <1>1, <2>1, <2>7
<1> HIDE DEF Some
<1>5. Holds \in SUBSET (0..n)
  BY <1>1
<1> HIDE DEF Holds
<1>6. Holds = 0..n
  BY <1>3, <1>4, <1>5, InductionUpTo
<1>7. n \in Holds /\ n + 1 - n = 1 /\ 1 \in 1..(n + 1)
  BY <1>6
<1>8. Some(1)
  BY <1>1, <1>7 DEF Holds
<1>9. QED
  BY <1>2, <1>8 DEF Some

\* What is left of a text is a text.
LEMMA WithoutKeeps ==
    ASSUME NEW R, NEW s \in Seq(R), NEW end, Matches(s, end)
    PROVE  Without(s, end) \in Seq(R)
<1>1. PICK q : Picks(s, end, 1, q, Without(s, end))
  BY WithoutPicks
<1>2. q \in Seq(Nat) /\ Without(s, end) = [k \in 1..Len(q) |-> s[q[k]]]
  BY <1>1 DEF Picks
<1>3. PICK m \in Nat : m = Len(q)
  BY <1>2
<1>4. \A k \in 1..m : s[q[k]] \in R
  <2>1. ASSUME NEW k \in 1..m
        PROVE  s[q[k]] \in R
    <3>1. q[k] \in 1..Len(s)
      BY <1>1, <1>3 DEF Picks
    <3>2. QED
      BY <3>1
  <2>2. QED
    BY <2>1
<1>5. Without(s, end) \in [1..m -> R]
  BY <1>2, <1>3, <1>4
<1>6. \A u \in [1..m -> R] : u \in Seq(R)
  OBVIOUS
<1>7. QED
  BY <1>5, <1>6

\* Closing is the first end of a tag after i.
LEMMA ClosingIs ==
    ASSUME NEW R, NEW s \in Seq(R), NEW i \in 1..Len(s)
    PROVE  /\ Closing(s, i) \in Nat
           /\ Closing(s, i) # 0 => Closing(s, i) \in (i + 1)..Len(s)
           /\ Closing(s, i) = 0 => \A j \in (i + 1)..Len(s) : s[j] \notin TagEnd
<1> DEFINE ends == {j \in (i + 1)..Len(s) : s[j] \in TagEnd}
           first == CHOOSE j \in ends : \A k \in ends : j <= k
<1>1. Closing(s, i) = IF ends = {} THEN 0 ELSE first
  BY DEF Closing
<1>2. CASE ends = {}
  BY <1>1, <1>2
<1>3. CASE ends # {}
  <2>1. ends \in SUBSET Nat
    OBVIOUS
  <2>2. \E m \in ends : \A k \in ends : m <= k
    BY <1>3, <2>1, LeastNatural
  <2>3. first \in ends
    BY <2>2
  <2>4. Closing(s, i) \in (i + 1)..Len(s)
    BY <1>1, <1>3, <2>3
  <2>5. QED
    BY <2>4
<1>4. QED
  BY <1>2, <1>3

\* Where stripTags finds a tag that begins at i, and where it ends.
TagAt(s) == [i \in DOMAIN s |->
               IF s[i] \in Tag /\ ~(s[i] = "<" /\ i < Len(s) /\ s[i + 1] = ">")
               THEN Closing(s, i) ELSE 0]

\* stripTags takes away what begins and ends there.
LEMMA TagsMatch ==
    ASSUME NEW R, NEW s \in Seq(R)
    PROVE  Matches(s, TagAt(s)) /\ stripTags(s) = Without(s, TagAt(s))
<1>1. DOMAIN s = 1..Len(s)
  OBVIOUS
<1>2. ASSUME NEW i \in 1..Len(s)
      PROVE  /\ TagAt(s)[i] \in Nat
             /\ TagAt(s)[i] # 0 => i <= TagAt(s)[i] /\ TagAt(s)[i] <= Len(s)
  <2>1. TagAt(s)[i] = 0 \/ TagAt(s)[i] = Closing(s, i)
    BY <1>1 DEF TagAt
  <2>2. /\ Closing(s, i) \in Nat
        /\ Closing(s, i) # 0 => Closing(s, i) \in (i + 1)..Len(s)
    BY ClosingIs
  <2>3. QED
    BY <2>1, <2>2
<1>3. TagAt(s) \in [1..Len(s) -> Nat]
  <2>1. TagAt(s) = [i \in 1..Len(s) |-> TagAt(s)[i]]
    BY <1>1 DEF TagAt
  <2>2. QED
    BY <1>2, <2>1
<1>4. Matches(s, TagAt(s))
  BY <1>2, <1>3 DEF Matches
<1>5. QED
  BY <1>4 DEF stripTags, TagAt

\* No tag begins in u: what opens one is closed at once, or never.
TagFree(u) ==
    \A i \in 1..Len(u) :
       u[i] \in Tag => \/ u[i] = "<" /\ i < Len(u) /\ u[i + 1] = ">"
                       \/ \A j \in (i + 1)..Len(u) : u[j] \notin TagEnd

\* Stripping leaves no tag.
LEMMA StrippedIsTagFree ==
    ASSUME NEW R, NEW s \in Seq(R)
    PROVE  stripTags(s) \in Seq(R) /\ TagFree(stripTags(s))
<1> DEFINE u == stripTags(s)
           end == TagAt(s)
<1>1. Matches(s, end) /\ u = Without(s, end)
  BY TagsMatch
<1> HIDE DEF end
<1>2. u \in Seq(R)
  BY <1>1, WithoutKeeps
<1>3. PICK q : Picks(s, end, 1, q, u)
  BY <1>1, WithoutPicks
<1> HIDE DEF u
<1>4. PICK m \in Nat : m = Len(q)
  BY <1>3 DEF Picks
<1>5. Len(u) = m /\ \A k \in 1..m : u[k] = s[q[k]] /\ q[k] \in 1..Len(s) /\ end[q[k]] = 0
  <2>1. u = [k \in 1..m |-> s[q[k]]]
    BY <1>3, <1>4 DEF Picks
  <2>2. DOMAIN u = 1..m
    BY <2>1
  <2>3. Len(u) = m
    BY <1>2, <1>4, <2>2
  <2>4. QED
    BY <1>3, <1>4, <2>1, <2>3 DEF Picks
<1>6. ASSUME NEW i \in 1..m, u[i] \in Tag
      PROVE  \/ u[i] = "<" /\ i < m /\ u[i + 1] = ">"
             \/ \A j \in (i + 1)..m : u[j] \notin TagEnd
  <2>1. PICK p \in 1..Len(s) : p = q[i]
    BY <1>5
  <2>2. s[p] = u[i] /\ end[p] = 0 /\ p \in DOMAIN s
    BY <1>5, <2>1
  <2>3. CASE s[p] = "<" /\ p < Len(s) /\ s[p + 1] = ">"
    <3>1. p + 1 \in 1..Len(s) /\ p + 1 \in DOMAIN s
      BY <2>3
    <3>2. s[p + 1] \notin Tag
      BY <2>3 DEF Tag
    <3>3. end[p + 1] = 0
      BY <3>1, <3>2 DEF end, TagAt
    <3>4. i < m /\ q[i + 1] = p + 1
      BY <1>3, <1>4, <2>1, <2>3, <3>3 DEF Picks
    <3>5. i + 1 \in 1..m
      BY <3>4
    <3>6. u[i + 1] = s[p + 1]
      BY <1>5, <3>4, <3>5
    <3>7. QED
      BY <2>2, <2>3, <3>4, <3>6
  <2>4. CASE ~(s[p] = "<" /\ p < Len(s) /\ s[p + 1] = ">")
    <3>1. Closing(s, p) = 0
      BY <1>6, <2>2, <2>4 DEF end, TagAt
    <3>2. \A j \in (p + 1)..Len(s) : s[j] \notin TagEnd
      BY <3>1, ClosingIs
    <3>3. ASSUME NEW j \in (i + 1)..m
          PROVE  u[j] \notin TagEnd
      <4>1. j \in 1..m /\ i < j
        OBVIOUS
      <4>2. PICK r \in 1..Len(s) : r = q[j]
        BY <1>5, <4>1
      <4>3. p < r
        BY <1>3, <1>4, <2>1, <4>1, <4>2 DEF Picks
      <4>4. r \in (p + 1)..Len(s)
        BY <4>3
      <4>5. QED
        BY <1>5, <3>2, <4>1, <4>2, <4>4
    <3>4. QED
      BY <3>3
  <2>5. QED
    BY <2>3, <2>4
<1>7. TagFree(u)
  BY <1>5, <1>6 DEF TagFree
<1>8. QED
  BY <1>2, <1>7 DEF u

\* Where no tag begins, stripping changes nothing.
LEMMA StripsNothing ==
    ASSUME NEW R, NEW c \in Seq(R), TagFree(c)
    PROVE  stripTags(c) = c
<1> DEFINE end == TagAt(c)
<1>1. Matches(c, end) /\ stripTags(c) = Without(c, end)
  BY TagsMatch
<1>2. PICK n \in Nat : n = Len(c) /\ DOMAIN c = 1..n
  OBVIOUS
<1>3. ASSUME NEW i \in 1..n
      PROVE  end[i] = 0
  <2>1. SUFFICES ASSUME c[i] \in Tag, ~(c[i] = "<" /\ i < Len(c) /\ c[i + 1] = ">")
                 PROVE  Closing(c, i) = 0
    BY <1>2 DEF TagAt
  <2>2. \A j \in (i + 1)..n : c[j] \notin TagEnd
    BY <1>2, <2>1 DEF TagFree
  <2>3. {j \in (i + 1)..Len(c) : c[j] \in TagEnd} = {}
    BY <1>2, <2>2
  <2>4. QED
    BY <2>3 DEF Closing
<1> HIDE DEF end
<1>4. PICK q : Picks(c, end, 1, q, Without(c, end))
  BY <1>1, WithoutPicks
<1>5. PICK m \in Nat : m = Len(q)
  BY <1>4 DEF Picks
<1>6. /\ \A k \in 1..m : q[k] \in 1..n
      /\ \A k \in 1..m : q[k] < n => k < m /\ q[k + 1] = q[k] + 1
      /\ 1 <= n => m >= 1 /\ q[1] = 1
  <2>1. \A k \in 1..m : q[k] \in 1..n
    BY <1>2, <1>4, <1>5 DEF Picks
  <2>2. ASSUME NEW k \in 1..m, q[k] < n
        PROVE  k < m /\ q[k + 1] = q[k] + 1
    <3>1. PICK p \in 1..n : p = q[k]
      BY <2>1
    <3>2. p + 1 \in 1..n
      BY <2>2, <3>1
    <3>3. end[p + 1] = 0
      BY <1>3, <3>2
    <3>4. QED
      BY <1>2, <1>4, <1>5, <2>2, <3>1, <3>3 DEF Picks
  <2>3. 1 <= n => m >= 1 /\ q[1] = 1
    <3>1. SUFFICES ASSUME 1 <= n PROVE m >= 1 /\ q[1] = 1
      OBVIOUS
    <3>2. end[1] = 0
      BY <1>3, <3>1
    <3>3. QED
      BY <1>2, <1>4, <1>5, <3>1, <3>2 DEF Picks
  <2>4. QED
    BY <2>1, <2>2, <2>3
<1> DEFINE Holds == {i \in 0..n : i = 0 \/ (i <= m /\ q[i] = i)}
<1>7. Holds = 0..n
  <2>1. 0 \in Holds /\ Holds \in SUBSET (0..n)
    OBVIOUS
  <2>2. ASSUME NEW i \in 1..n, i - 1 \in Holds
        PROVE  i \in Holds
    <3>1. CASE i = 1
      BY <1>6, <3>1
    <3>2. CASE i # 1
      <4>1. PICK k \in 1..n : k = i - 1 /\ k + 1 = i /\ k < n
        <5>1. i - 1 \in 1..n /\ (i - 1) + 1 = i /\ i - 1 < n
          BY <3>2
        <5>2. QED
          BY <5>1
      <4>2. k <= m /\ q[k] = k
        BY <2>2, <4>1
      <4>3. k \in 1..m
        BY <4>2
      <4>4. k < m /\ q[k + 1] = k + 1
        BY <1>6, <4>1, <4>2, <4>3
      <4>5. QED
        BY <4>1, <4>4
    <3>3. QED
      BY <3>1, <3>2
  <2> HIDE DEF Holds
  <2>3. QED
    BY <2>1, <2>2, InductionUpTo
<1>8. \A i \in 1..n : i <= m /\ q[i] = i
  BY <1>7
<1>9. n <= m
  <2>1. CASE n = 0
    BY <2>1
  <2>2. CASE n # 0
    <3>1. n \in 1..n
      BY <2>2
    <3>2. QED
      BY <1>8, <3>1
  <2>3. QED
    BY <2>1, <2>2
<1>10. m <= n
  <2>1. SUFFICES ASSUME n < m PROVE FALSE
    OBVIOUS
  <2>2. n + 1 \in 1..m
    BY <2>1
  <2>3. q[n + 1] \in 1..n
    BY <1>6, <2>2
  <2>4. PICK p \in 1..n : p = q[n + 1]
    BY <2>3
  <2>5. q[p] = p /\ p < n + 1 /\ p \in 1..m
    BY <1>8, <1>9
  <2>6. q[p] < q[n + 1]
    BY <1>4, <1>5, <2>2, <2>5 DEF Picks
  <2>7. QED
    BY <2>4, <2>5, <2>6
<1>11. Without(c, end) = [k \in 1..n |-> c[k]]
  <2>1. m = n
    BY <1>9, <1>10
  <2>2. Without(c, end) = [k \in 1..m |-> c[q[k]]]
    BY <1>4, <1>5 DEF Picks
  <2>3. \A k \in 1..n : c[q[k]] = c[k]
    BY <1>8
  <2>4. QED
    BY <2>1, <2>2, <2>3
<1>12. c = [k \in 1..n |-> c[k]]
  BY <1>2
<1>13. QED
  BY <1>1, <1>11, <1>12

\* No gap but noise reads as none.
LEMMA GapNoneOnly ==
    ASSUME NEW s, NEW i \in Nat, NEW j \in Nat, Gap(s, i, j) = "none"
    PROVE  \A k \in (i + 1)..(j - 1) : s[k] \in Noise
<1> SUFFICES ASSUME NEW k \in (i + 1)..(j - 1), s[k] \notin Noise
             PROVE  FALSE
  OBVIOUS
<1>1. CASE \E l, h \in (i + 1)..(j - 1) : l # h /\ s[l] = "nl" /\ s[h] = "nl"
  <2>1. Gap(s, i, j) = "paragraph"
    BY <1>1, GapParagraph
  <2>2. QED
    BY <2>1
<1>2. CASE \E l \in (i + 1)..(j - 1) :
             s[l] = "nl" /\ \A h \in (i + 1)..(j - 1) : s[h] = "nl" => h = l
  <2>1. Gap(s, i, j) = "line"
    BY <1>2, GapLine
  <2>2. QED
    BY <2>1
<1>3. CASE \A l \in (i + 1)..(j - 1) : s[l] # "nl"
  <2>1. Gap(s, i, j) = "space"
    BY <1>3, GapSpace
  <2>2. QED
    BY <2>1
<1>4. QED
  BY <1>1, <1>2, <1>3

\* Normalizing brings no tag about.
LEMMA NormalizeKeepsTagFree ==
    ASSUME NEW R, {"sp", "nl"} \subseteq R, NEW s \in Seq(R), TagFree(s)
    PROVE  TagFree(normalize(s))
<1> DEFINE c == normalize(s)
<1>1. c \in Seq(R) /\ Tidy(c)
  BY NormalizeIsTidy
<1> HIDE DEF c
<1>2. \A i \in 1..Len(c) : c[i] \notin Noise
  <2>1. DOMAIN c = 1..Len(c)
    BY <1>1
  <2>2. QED
    BY <1>1, <2>1 DEF Tidy
<1>3. CASE c = << >>
  BY <1>3 DEF TagFree, c
<1>4. ASSUME NEW q, NEW w, NEW a, NEW m, SameSight(s, c, q, w, a, m)
      PROVE  TagFree(c)
  <2>1. /\ a \in Nat /\ m \in Nat /\ Spans(s, q, a, a + m - 1) /\ Spans(c, w, 1, m)
        /\ \A n \in 1..m : Sight(c, w, 1, n) = Sight(s, q, a, n)
    BY <1>4 DEF SameSight
  <2>2. /\ Enumerates(q, Solids(s, Len(s))) /\ q \in Seq(Nat) /\ Len(q) \in Nat
        /\ Enumerates(w, Solids(c, Len(c))) /\ w \in Seq(Nat) /\ Len(w) \in Nat
        /\ a \in 1..Len(q) /\ a + m - 1 \in 1..Len(q) /\ m \in 1..Len(w)
    <3>1. /\ Enumerates(q, Solids(s, Len(s))) /\ a \in 1..Len(q)
          /\ a + m - 1 \in 1..Len(q)
      BY <2>1 DEF Spans
    <3>2. Enumerates(w, Solids(c, Len(c))) /\ m \in 1..Len(w)
      BY <2>1 DEF Spans
    <3>3. q \in Seq(Nat) /\ Len(q) \in Nat
      BY <3>1 DEF Enumerates
    <3>4. w \in Seq(Nat) /\ Len(w) \in Nat
      BY <3>2 DEF Enumerates
    <3>5. QED
      BY <3>1, <3>2, <3>3, <3>4
  <2>3. \A r \in Tag \cup TagEnd : Solid(r) /\ Ink(r)
    BY DEF Tag, TagEnd, Solid, Ink, Noise, Space, spacesToNormalize, zeroWidthChars, controls
  <2>4. \A n \in 1..m : /\ a + n - 1 \in 1..Len(q) /\ n \in 1..Len(w)
                        /\ c[w[n]] = s[q[a + n - 1]]
    <3>1. ASSUME NEW n \in 1..m
          PROVE  /\ a + n - 1 \in 1..Len(q) /\ n \in 1..Len(w)
                 /\ c[w[n]] = s[q[a + n - 1]]
      <4>1. a + n - 1 \in 1..Len(q) /\ n \in 1..Len(w) /\ 1 + n - 1 = n
        BY <2>2
      <4>2. Sight(c, w, 1, n) = Sight(s, q, a, n)
        BY <2>1
      <4>3. Sight(c, w, 1, n)[2] = c[w[1 + n - 1]] /\ Sight(s, q, a, n)[2] = s[q[a + n - 1]]
        BY DEF Sight
      <4>4. QED
        BY <4>1, <4>2, <4>3
    <3>2. QED
      BY <3>1
  <2>5. ASSUME NEW i \in 1..Len(c), Ink(c[i])
        PROVE  \E n \in 1..m : w[n] = i
    <3>1. i \in Solids(c, Len(c))
      BY <2>5 DEF Solids, Ink
    <3>2. PICK n \in 1..Len(w) : w[n] = i
      BY <2>2, <3>1 DEF Enumerates
    <3>3. 1 <= n /\ n <= m
      BY <2>1, <2>5, <3>2 DEF Spans
    <3>4. n \in 1..m
      BY <2>1, <3>3
    <3>5. QED
      BY <3>2, <3>4
  <2>6. ASSUME NEW i \in 1..Len(c), c[i] \in Tag
        PROVE  \/ c[i] = "<" /\ i < Len(c) /\ c[i + 1] = ">"
               \/ \A j \in (i + 1)..Len(c) : c[j] \notin TagEnd
    <3>1. PICK n \in 1..m : w[n] = i
      BY <2>3, <2>5, <2>6
    <3>2. PICK l \in 1..Len(q) : l = a + n - 1
      BY <2>4
    <3>3. PICK p \in 1..Len(s) : p = q[l] /\ s[p] = c[i]
      <4>1. q[l] \in Solids(s, Len(s)) /\ s[q[l]] = c[i]
        BY <2>2, <2>4, <3>1, <3>2 DEF Enumerates
      <4>2. QED
        BY <4>1 DEF Solids
    <3>4. \/ s[p] = "<" /\ p < Len(s) /\ s[p + 1] = ">"
          \/ \A j \in (p + 1)..Len(s) : s[j] \notin TagEnd
      BY <2>6, <3>3 DEF TagFree
    <3>5. CASE \A j \in (p + 1)..Len(s) : s[j] \notin TagEnd
      <4>1. ASSUME NEW j \in (i + 1)..Len(c), c[j] \in TagEnd
            PROVE  FALSE
        <5>1. j \in 1..Len(c) /\ i < j
          OBVIOUS
        <5>2. PICK k \in 1..m : w[k] = j
          BY <2>3, <2>5, <4>1, <5>1
        <5>3. n < k
          <6>1. n \in 1..Len(w) /\ k \in 1..Len(w)
            BY <2>4
          <6>2. ~(w[k] <= w[n])
            BY <3>1, <5>1, <5>2
          <6>3. ~(k <= n)
            BY <2>2, <6>1, <6>2, EnumeratesRising
          <6>4. QED
            BY <6>3
        <5>4. PICK h \in 1..Len(q) : h = a + k - 1
          BY <2>4
        <5>5. l < h
          BY <2>1, <3>2, <5>3, <5>4
        <5>6. q[l] < q[h] /\ q[h] \in Solids(s, Len(s))
          BY <2>2, <5>5 DEF Enumerates
        <5>7. q[h] \in (p + 1)..Len(s)
          <6>1. PICK r \in 1..Len(s) : r = q[h]
            BY <5>6 DEF Solids
          <6>2. p < r
            BY <3>3, <5>6, <6>1
          <6>3. r \in (p + 1)..Len(s)
            BY <6>2
          <6>4. QED
            BY <6>1, <6>3
        <5>8. s[q[h]] = c[j]
          BY <2>4, <5>2, <5>4
        <5>9. QED
          BY <3>5, <4>1, <5>7, <5>8
      <4>2. QED
        BY <4>1
    <3>6. CASE s[p] = "<" /\ p < Len(s) /\ s[p + 1] = ">"
      <4>1. p + 1 \in 1..Len(s) /\ Ink(s[p + 1]) /\ Solid(s[p + 1]) /\ ">" \in TagEnd
        <5>1. ">" \in TagEnd
          BY DEF TagEnd
        <5>2. QED
          BY <2>3, <3>6, <5>1
      <4>2. PICK h \in 1..Len(q) : q[h] = p + 1
        <5>1. p + 1 \in Solids(s, Len(s))
          BY <4>1 DEF Solids
        <5>2. QED
          BY <2>2, <5>1 DEF Enumerates
      <4>3. h <= a + m - 1
        BY <2>1, <4>1, <4>2 DEF Spans
      <4>4. l < h
        <5>1. ~(q[h] <= q[l])
          BY <3>3, <4>2
        <5>2. ~(h <= l)
          BY <2>2, <5>1, EnumeratesRising
        <5>3. QED
          BY <5>2
      <4>5. h = l + 1
        <5>1. SUFFICES ASSUME l + 1 < h PROVE FALSE
          BY <4>4
        <5>2. PICK k \in 1..Len(q) : k = l + 1
          BY <2>2, <5>1
        <5>3. q[l] < q[k] /\ q[k] < q[h] /\ q[k] \in Nat
          <6>1. l < k /\ k < h
            BY <5>1, <5>2
          <6>2. q[l] < q[k] /\ q[k] < q[h]
            BY <2>2, <6>1 DEF Enumerates
          <6>3. q[k] \in Nat
            <7>1. q[k] \in Solids(s, Len(s))
              BY <2>2, <5>2 DEF Enumerates
            <7>2. QED
              BY <7>1 DEF Solids
          <6>4. QED
            BY <6>2, <6>3
        <5>4. QED
          BY <3>3, <4>2, <5>3
      <4>6. PICK k \in 1..m : k = n + 1 /\ k # 1 /\ k - 1 = n /\ a + k - 1 = h
                              /\ a + k - 2 = l /\ 1 + k - 1 = k /\ 1 + k - 2 = n
        <5>1. n + 1 \in 1..m
          BY <2>1, <3>2, <4>3, <4>5
        <5>2. /\ n + 1 # 1 /\ (n + 1) - 1 = n /\ a + (n + 1) - 1 = h
              /\ a + (n + 1) - 2 = l /\ 1 + (n + 1) - 1 = n + 1 /\ 1 + (n + 1) - 2 = n
          BY <2>1, <3>2, <4>5
        <5>3. QED
          BY <5>1, <5>2
      <4>7. Gap(c, i, w[k]) = "none" /\ c[w[k]] = ">"
        <5>1. Sight(c, w, 1, k) = Sight(s, q, a, k)
          BY <2>1
        <5>2. Sight(s, q, a, k) = <<Gap(s, q[l], q[h]), s[q[h]]>>
          BY <4>6 DEF Sight
        <5>3. Sight(c, w, 1, k) = <<Gap(c, w[n], w[k]), c[w[k]]>>
          BY <4>6 DEF Sight
        <5>4. Gap(s, p, p + 1) = "none"
          <6>1. p \in Nat /\ p + 1 \in Nat /\ \A j \in (p + 1)..((p + 1) - 1) : s[j] \in Noise
            OBVIOUS
          <6>2. QED
            BY <6>1, GapNone
        <5>5. Gap(c, w[n], w[k]) = Gap(s, q[l], q[h]) /\ c[w[k]] = s[q[h]]
          BY <5>1, <5>2, <5>3
        <5>6. QED
          BY <3>1, <3>3, <3>6, <4>2, <5>4, <5>5
      <4>8. PICK j \in 1..Len(c) : j = w[k] /\ i < j
        <5>1. n \in 1..Len(w) /\ k \in 1..Len(w) /\ n < k
          BY <2>4, <4>6
        <5>2. w[n] < w[k] /\ w[k] \in Solids(c, Len(c))
          BY <2>2, <5>1 DEF Enumerates
        <5>3. QED
          BY <3>1, <5>2 DEF Solids
      <4>9. j = i + 1
        <5>1. SUFFICES ASSUME i + 1 < j PROVE FALSE
          BY <4>8
        <5>2. i + 1 \in (i + 1)..(j - 1) /\ i + 1 \in 1..Len(c)
          BY <5>1
        <5>3. c[i + 1] \in Noise
          BY <4>7, <4>8, <5>2, GapNoneOnly
        <5>4. QED
          BY <1>2, <5>2, <5>3
      <4>10. QED
        BY <3>3, <3>6, <4>7, <4>8, <4>9
    <3>7. QED
      BY <3>4, <3>5, <3>6
  <2>7. QED
    BY <2>6 DEF TagFree
<1>5. QED
  BY <1>3, <1>4, NormalizeShows DEF c

-----------------------------------------------------------------------------
(* The sanitizers before normalize.                                        *)

\* The runes a text may have once its entities are decoded.
Readable == Rune \cup {"<", ">", "nbsp", "&lt;"}

\* Decoding makes runes of entities.
LEMMA UnescapeTyped ==
    ASSUME NEW raw \in Seq(Rune)
    PROVE  unescape(raw) \in Seq(Readable)
<1> DEFINE Value(i) == IF raw[i] \in DOMAIN Decoded THEN Decoded[raw[i]] ELSE raw[i]
<1>1. unescape(raw) = [i \in DOMAIN raw |-> Value(i)]
  BY DEF unescape
<1>2. PICK n \in Nat : n = Len(raw) /\ DOMAIN raw = 1..n
  OBVIOUS
<1>3. ASSUME NEW i \in 1..n
      PROVE  Value(i) \in Readable
  <2>1. raw[i] \in Rune
    BY <1>2
  <2>2. CASE raw[i] \in DOMAIN Decoded
    <3>1. \A e \in DOMAIN Decoded : Decoded[e] \in {"<", ">", "nbsp", "&lt;"}
      BY DEF Decoded
    <3>2. QED
      BY <2>2, <3>1 DEF Readable
  <2>3. CASE raw[i] \notin DOMAIN Decoded
    BY <2>1, <2>3 DEF Readable
  <2>4. QED
    BY <2>2, <2>3
<1> HIDE DEF Value
<1>4. unescape(raw) \in [1..n -> Readable]
  BY <1>1, <1>2, <1>3
<1>5. \A u \in [1..n -> Readable] : u \in Seq(Readable)
  OBVIOUS
<1>6. QED
  BY <1>4, <1>5

\* Taking the summary's tags away leaves a text.
LEMMA ResumenTyped ==
    ASSUME NEW R, NEW s \in Seq(R)
    PROVE  stripResumen(s) \in Seq(R)
<1> DEFINE end == [i \in DOMAIN s |-> IF s[i] = "<resumen" THEN Closing(s, i) ELSE 0]
<1>1. DOMAIN s = 1..Len(s) /\ Len(s) \in Nat
  OBVIOUS
<1>2. ASSUME NEW i \in 1..Len(s)
      PROVE  end[i] \in Nat /\ (end[i] # 0 => i <= end[i] /\ end[i] <= Len(s))
  <2>1. Closing(s, i) \in Nat
        /\ (Closing(s, i) # 0 => Closing(s, i) \in (i + 1)..Len(s))
    BY ClosingIs
  <2>2. end[i] = IF s[i] = "<resumen" THEN Closing(s, i) ELSE 0
    BY <1>1
  <2>3. CASE end[i] = 0
    BY <2>3
  <2>4. CASE end[i] = Closing(s, i)
    BY <2>1, <2>4
  <2>5. QED
    BY <2>2, <2>3, <2>4
<1>3. Matches(s, end)
  BY <1>1, <1>2 DEF Matches
<1>4. stripResumen(s) = Without(s, end)
  BY DEF stripResumen
<1> HIDE DEF end
<1>5. QED
  BY <1>3, <1>4, WithoutKeeps

\* ... and so does taking the prologue away.
LEMMA XMLHeaderTyped ==
    ASSUME NEW R, NEW s \in Seq(R)
    PROVE  stripXMLHeader(s) \in Seq(R)
<1> DEFINE end == [i \in DOMAIN s |->
                     IF s[i] = "<?xml" /\ Closing(s, i) # 0
                     THEN IF s[Closing(s, i)] = "?>" THEN Closing(s, i) ELSE 0
                     ELSE 0]
<1>1. DOMAIN s = 1..Len(s) /\ Len(s) \in Nat
  OBVIOUS
<1>2. ASSUME NEW i \in 1..Len(s)
      PROVE  end[i] \in Nat /\ (end[i] # 0 => i <= end[i] /\ end[i] <= Len(s))
  <2>1. Closing(s, i) \in Nat
        /\ (Closing(s, i) # 0 => Closing(s, i) \in (i + 1)..Len(s))
    BY ClosingIs
  <2>2. end[i] = IF s[i] = "<?xml" /\ Closing(s, i) # 0
                 THEN IF s[Closing(s, i)] = "?>" THEN Closing(s, i) ELSE 0
                 ELSE 0
    BY <1>1
  <2>3. CASE end[i] = 0
    BY <2>3
  <2>4. CASE end[i] = Closing(s, i)
    BY <2>1, <2>4
  <2>5. QED
    BY <2>2, <2>3, <2>4
<1>3. Matches(s, end)
  BY <1>1, <1>2 DEF Matches
<1>4. stripXMLHeader(s) = Without(s, end)
  BY DEF stripXMLHeader
<1> HIDE DEF end
<1>5. QED
  BY <1>3, <1>4, WithoutKeeps

\* Whatever the sanitizer, normalize gets a text; after those that strip
\* tags, one without.
LEMMA StrippedIs ==
    ASSUME NEW kind \in Sanitizers, NEW raw \in Seq(Rune)
    PROVE  /\ Stripped(kind, raw) \in Seq(Readable)
           /\ kind \in {"texto", "auditoria"} => TagFree(Stripped(kind, raw))
<1>1. unescape(raw) \in Seq(Readable)
  BY UnescapeTyped
<1>2. raw \in Seq(Readable)
  <2>1. Rune \subseteq Readable
    BY DEF Readable
  <2>2. QED
    BY <2>1
<1>3. CASE kind = "markdown"
  BY <1>2, <1>3 DEF Stripped
<1>4. CASE kind = "resumen"
  BY <1>1, <1>4, ResumenTyped DEF Stripped
<1>5. CASE kind = "documento"
  BY <1>1, <1>5, ResumenTyped DEF Stripped
<1>6. CASE kind = "materia"
  BY <1>1, <1>6 DEF Stripped
<1>7. CASE kind = "texto"
  BY <1>1, <1>7, StrippedIsTagFree DEF Stripped
<1>8. CASE kind = "auditoria"
  <2>1. stripXMLHeader(unescape(raw)) \in Seq(Readable)
    BY <1>1, XMLHeaderTyped
  <2>2. QED
    BY <1>8, <2>1, StrippedIsTagFree DEF Stripped
<1>9. QED
  BY <1>3, <1>4, <1>5, <1>6, <1>7, <1>8 DEF Sanitizers

\* What is true of every text the sanitizers get.
LEMMA SanitizerRight ==
    ASSUME NEW kind \in Sanitizers, NEW raw \in Seq(Rune)
    PROVE  LET clean == Sanitized(kind, raw) IN
           /\ Seen(clean) = Seen(Stripped(kind, raw))
           /\ Tidy(clean)
           /\ normalize(clean) = clean
           /\ kind \in {"texto", "auditoria"} => stripTags(clean) = clean
<1> DEFINE s == Stripped(kind, raw)
           c == normalize(s)
<1>1. s \in Seq(Readable) /\ {"sp", "nl"} \subseteq Readable
  BY StrippedIs, TextsAssumption DEF Readable
<1>2. Sanitized(kind, raw) = c
  BY DEF Sanitized
<1>3. kind \in {"texto", "auditoria"} => TagFree(s)
  BY StrippedIs
<1> HIDE DEF s
<1>4. Seen(c) = Seen(s)
  BY <1>1, NothingElseGoes
<1>5. /\ c \in Seq(Readable)
      /\ Tidy(c)
      /\ c # << >> => c[1] \notin White /\ c[Len(c)] \notin White
  BY <1>1, NormalizeIsTidy
<1>6. TagFree(s) => TagFree(c)
  BY <1>1, NormalizeKeepsTagFree
<1> HIDE DEF c
<1>7. normalize(c) = c
  BY <1>1, <1>5, NormalizeTidy
<1>8. TagFree(c) => stripTags(c) = c
  BY <1>5, StripsNothing
<1>9. QED
  BY <1>2, <1>3, <1>4, <1>5, <1>6, <1>7, <1>8 DEF s

\* Sanitizing takes away noise and nothing else, whatever the service sends:
\* the runes a reader sees and the gaps between them stay, the result is
\* tidy, sanitizing it again changes nothing, and no tag is left where tags
\* are stripped.
THEOREM OnlyNoiseEverGoes == TextSpec => []OnlyNoiseGoes
<1>1. FoundInv => OnlyNoiseGoes
  <2> SUFFICES ASSUME FoundInv, NEW k \in DOMAIN text.pieces
               PROVE  LET clean == Clean(text)[k] IN
                      /\ Seen(clean) = Seen(Stripped(text.kind, text.pieces[k]))
                      /\ Tidy(clean)
                      /\ normalize(clean) = clean
                      /\ text.kind \in {"texto", "auditoria"} => stripTags(clean) = clean
    BY DEF OnlyNoiseGoes
  <2>1. text.kind \in Sanitizers /\ text.pieces \in Seq(Seq(Rune))
    BY TextsAssumption DEF FoundInv
  <2>2. text.pieces[k] \in Seq(Rune)
    BY <2>1
  <2>3. Clean(text)[k] = Sanitized(text.kind, text.pieces[k])
    BY DEF Clean
  <2> DEFINE kind == text.kind
             raw == text.pieces[k]
  <2>4. kind \in Sanitizers /\ raw \in Seq(Rune) /\ Clean(text)[k] = Sanitized(kind, raw)
    BY <2>1, <2>2, <2>3
  <2>5. /\ Seen(Sanitized(kind, raw)) = Seen(Stripped(kind, raw))
        /\ Tidy(Sanitized(kind, raw))
        /\ normalize(Sanitized(kind, raw)) = Sanitized(kind, raw)
        /\ kind \in {"texto", "auditoria"} =>
              stripTags(Sanitized(kind, raw)) = Sanitized(kind, raw)
    <3> HIDE DEF kind, raw
    <3>1. QED
      BY <2>4, SanitizerRight
  <2>6. QED
    BY <2>3, <2>5
<1>2. QED
  BY <1>1, FoundInvariance, PTL

=============================================================================
