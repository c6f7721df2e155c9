----------------------------- MODULE Pagination -----------------------------
(***************************************************************************)
(* How get_cgr_dictamen delivers a long document in parts                  *)
(* (internal/cgr/pagination.go, internal/tools/get_cgr_dictamen.go).  Each *)
(* request paginates the document anew, one turn of Paginate's loop per    *)
(* step, and serves one part of the result; a reader asks for parts in any *)
(* order.  Offsets count runes from 0, as in the code.                     *)
(***************************************************************************)
EXTENDS Integers, Sequences

CONSTANTS Rune,             \* characters
          Newline,          \* the one paragraph breaks are made of
          Budgets,          \* budgets Paginate may be called with
          Parts,            \* values of the tool's "part" argument
          MaxContentChars,  \* the shared budget, 100000 in the code
          paragraphMargin   \* how far a cut may move, 2000 in the code

ASSUME PaginationAssumption == /\ Newline \in Rune
                               /\ Budgets \subseteq Int
                               /\ Parts \subseteq Int
                               /\ MaxContentChars \in Nat \ {0}
                               /\ paragraphMargin \in Nat

VARIABLES doc,      \* the sanitized dictamen: immutable once published
          budget,   \* the budget of its pagination
          pc,       \* "ready", "loop" or "serve"
          part,     \* the part being requested
          start,    \* the loop variable of Paginate
          parts,    \* the ranges appended so far
          served,   \* the pages the reader has received
          refused   \* the part arguments the reader had refused

vars == <<doc, budget, pc, part, start, parts, served, refused>>

Page == [start : Nat, end : Nat]

ServedPage == [part : Nat, total : Nat, start : Nat, end : Nat]

-----------------------------------------------------------------------------
Lesser(a, b) == IF a <= b THEN a ELSE b

\* "\n\n" at rune offset i.
BreakAt(d, i) == d[i + 1] = Newline /\ d[i + 2] = Newline

\* The offsets the scan of roundToParagraph looks at and finds a break.
BreaksAfter(d, end) ==
    {i \in end..(Lesser(end + paragraphMargin, Len(d)) - 2) : BreakAt(d, i)}

\* A slip: the cut falls between the two newlines of the break.
roundInsideBreak(d, end) ==
    IF BreaksAfter(d, end) = {} THEN end
    ELSE 1 + CHOOSE i \in BreaksAfter(d, end) :
                \A j \in BreaksAfter(d, end) : i <= j

roundToParagraph(d, end) ==
    IF BreaksAfter(d, end) = {} THEN end
    ELSE 2 + CHOOSE i \in BreaksAfter(d, end) :
                \A j \in BreaksAfter(d, end) : i <= j

EffectiveBudget(b) == IF b <= 0 THEN MaxContentChars ELSE b

CutAfter(d, b, s) ==
    LET end == s + EffectiveBudget(b) IN
    IF end >= Len(d) THEN Len(d) ELSE roundToParagraph(d, end)

-----------------------------------------------------------------------------
Init == /\ doc \in Seq(Rune)
        /\ budget \in Budgets
        /\ pc = "ready"
        /\ part = 0
        /\ start = 0
        /\ parts = << >>
        /\ served = {}
        /\ refused = {}

\* A part below 1 fails before the document is fetched; 0 is the default 1.
AskInvalid(p) == /\ pc = "ready"
                 /\ p < 0
                 /\ refused' = refused \cup {p}
                 /\ UNCHANGED <<doc, budget, pc, part, start, parts, served>>

\* A valid part: the document arrives and Paginate begins.  Of an empty
\* document it makes one empty part, without a loop.
Ask(p) == /\ pc = "ready"
          /\ p >= 0
          /\ part' = IF p = 0 THEN 1 ELSE p
          /\ start' = 0
          /\ IF doc = << >>
             THEN pc' = "serve" /\ parts' = <<[start |-> 0, end |-> 0]>>
             ELSE pc' = "loop" /\ parts' = << >>
          /\ UNCHANGED <<doc, budget, served, refused>>

\* A slip: the next part starts at the budget, not at the rounded cut.
TurnFromBudget == /\ pc = "loop"
                  /\ start < Len(doc)
                  /\ parts' = Append(parts, [start |-> start,
                                             end |-> CutAfter(doc, budget, start)])
                  /\ start' = Lesser(start + EffectiveBudget(budget), Len(doc))
                  /\ UNCHANGED <<doc, budget, pc, part, served, refused>>

\* A slip: an empty range is appended and the loop never advances.
TurnStuck == /\ pc = "loop"
             /\ start < Len(doc)
             /\ parts' = <<[start |-> start, end |-> start]>>
             /\ UNCHANGED <<doc, budget, pc, part, start, served, refused>>

\* One turn of the loop.
Turn == /\ pc = "loop"
        /\ start < Len(doc)
        /\ parts' = Append(parts, [start |-> start,
                                   end |-> CutAfter(doc, budget, start)])
        /\ start' = CutAfter(doc, budget, start)
        /\ UNCHANGED <<doc, budget, pc, part, served, refused>>

LoopEnds == /\ pc = "loop"
            /\ start >= Len(doc)
            /\ pc' = "serve"
            /\ UNCHANGED <<doc, budget, part, start, parts, served, refused>>

\* A slip: the part argument taken as an index from 0.
ServeFromZero == /\ pc = "serve"
                 /\ part < Len(parts)
                 /\ served' = served \cup
                       {[part |-> part, total |-> Len(parts),
                         start |-> parts[part + 1].start,
                         end |-> parts[part + 1].end]}
                 /\ pc' = "ready"
                 /\ UNCHANGED <<doc, budget, part, start, parts, refused>>

\* A part of the document, with the range signal that goes with it.
Serve == /\ pc = "serve"
         /\ part <= Len(parts)
         /\ served' = served \cup
               {[part |-> part, total |-> Len(parts),
                 start |-> parts[part].start, end |-> parts[part].end]}
         /\ pc' = "ready"
         /\ UNCHANGED <<doc, budget, part, start, parts, refused>>

\* "part must be between 1 and %d": its upper bound is known only now.
Refuse == /\ pc = "serve"
          /\ part > Len(parts)
          /\ refused' = refused \cup {part}
          /\ pc' = "ready"
          /\ UNCHANGED <<doc, budget, part, start, parts, served>>

Next == \/ \E p \in Parts : AskInvalid(p) \/ Ask(p)
        \/ Turn \/ LoopEnds \/ Serve \/ Refuse

Spec == Init /\ [][Next]_vars

\* The handler runs to its end once the request is in.
FairSpec == Spec /\ WF_vars(Turn \/ LoopEnds \/ Serve \/ Refuse)

-----------------------------------------------------------------------------
\* Ranges, counters and documents have their types.
TypeOK == /\ doc \in Seq(Rune)
          /\ budget \in Budgets
          /\ pc \in {"ready", "loop", "serve"}
          /\ part \in Nat
          /\ start \in 0..Len(doc)
          /\ parts \in Seq(Page)
          /\ served \subseteq ServedPage
          /\ refused \subseteq Int

StartOf(i) == IF i = 1 THEN 0 ELSE parts[i - 1].end

EndOf(n) == IF n = 0 THEN 0 ELSE parts[n].end

\* Each part begins where the one before it ended and is not empty; the
\* last one ends where the loop stands; when the loop is over the parts
\* cover the document.
PartsTile ==
    /\ \A i \in 1..Len(parts) : /\ parts[i].start = StartOf(i)
                                /\ parts[i].start <= parts[i].end
                                /\ doc # << >> => parts[i].start < parts[i].end
    /\ start = EndOf(Len(parts))
    /\ pc = "serve" => start = Len(doc) /\ parts # << >>

\* "splits doc into parts of at most budget runes" (pagination.go:31), "even
\* if the page runs slightly under the budget" (output-budget spec): no part
\* is longer than the budget it was made with.  The code's cuts move forward
\* (pagination.go:75), so this does not hold.
PartsWithinBudget ==
    \A i \in 1..Len(parts) :
       parts[i].end - parts[i].start <= EffectiveBudget(budget)

\* What holds instead, "cannot produce unbounded parts": a part exceeds the
\* budget promised by no more than the margin.
PartsBounded ==
    \A i \in 1..Len(parts) :
       parts[i].end - parts[i].start <= EffectiveBudget(budget) + paragraphMargin

\* "no part ends mid-paragraph" (output-budget spec) as far as the margin
\* allows: a part that is not the last ends just past a paragraph break, or
\* it has exactly the budget and no break begins within reach of its cut.
CutsAtParagraph ==
    \A i \in 1..Len(parts) :
       LET cut == parts[i].end IN
       cut < Len(doc) =>
          \/ cut >= 2 /\ BreakAt(doc, cut - 2)
          \/ /\ cut = parts[i].start + EffectiveBudget(budget)
             /\ \A j \in cut..(cut + paragraphMargin - 2) :
                   j + 2 <= Len(doc) => ~BreakAt(doc, j)

\* "part N of one call continues exactly where part N-1 of another ended":
\* whatever parts were asked for, and in whatever order, the pages received
\* fit together and agree on how many there are; the first begins the
\* document and the last, and only the last, ends it; and a part argument
\* is refused exactly when no part has that number.
ServedPagesFit ==
    \A p \in served :
       /\ \A q \in served : /\ p.total = q.total
                            /\ p.part = q.part => p = q
                            /\ q.part = p.part + 1 => q.start = p.end
       /\ p.part = 1 => p.start = 0
       /\ p.end = Len(doc) <=> p.part = p.total
       /\ \A r \in refused : r < 1 \/ r > p.total

\* A request is always answered: every turn of the loop advances.
EveryRequestAnswered == pc # "ready" ~> pc = "ready"

=============================================================================
