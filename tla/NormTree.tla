------------------------------ MODULE NormTree ------------------------------
(***************************************************************************)
(* The tree of a norm and what the tools compute from it: the length of    *)
(* its rendering (internal/bcn/norm_tree.go), counts of articles, and the  *)
(* table of contents that fits a bound (internal/tools/budget.go).         *)
(*                                                                         *)
(* A norm is the flattened structure: its sections in document order, each *)
(* with its depth.  A section is named by its position, which stands for   *)
(* its id in "estructura" and for that of its block in "html": the two     *)
(* trees of an answer of the service have the same shape and share ids.    *)
(* Of names and texts only the lengths are kept, and whether they contain  *)
(* the text a reader searches for.                                         *)
(***************************************************************************)
EXTENDS Integers, Sequences, FiniteSets, FiniteSetsExt

CONSTANTS maxListedChildren,  \* 20 in the code
          maxTOCLines         \* maxTOCChars, 12000, with lines of one length

ASSUME NormTreeAssumption == /\ maxListedChildren \in Nat
                             /\ maxTOCLines \in Nat

Section == [depth   : Nat,
            article : BOOLEAN,                  \* T = 6
            heading : Nat,                      \* runes of the name
            text    : Nat,                      \* runes of the Markdown
            matches : SUBSET {"name", "text"}]  \* where the query occurs

-----------------------------------------------------------------------------
\* The position after the subtree of i.
runEnd(n, i) ==
    Min({j \in (i + 1)..Len(n) : n[j].depth <= n[i].depth} \cup {Len(n) + 1})

Subtree(n, i) == i..(runEnd(n, i) - 1)

Inside(n, i) == (i + 1)..(runEnd(n, i) - 1)

Children(n, i) == {j \in Inside(n, i) : n[j].depth = n[i].depth + 1}

IsLeaf(n, i) == runEnd(n, i) = i + 1

\* Sections nest without skipping a depth: a norm is the pre-order of a
\* forest (FlattenStructure).  The text of a section that contains others
\* repeats its name (renderBlocks counts on it when it leaves that text out).
IsNorm(n) ==
    /\ n \in Seq(Section)
    /\ n # << >> => n[1].depth = 0
    /\ \A i \in 1..(Len(n) - 1) : n[i + 1].depth <= n[i].depth + 1
    /\ \A i \in 1..Len(n) :
          ~IsLeaf(n, i) /\ "text" \in n[i].matches => "name" \in n[i].matches

\* What a call asks for: a section, or with 0 the whole norm.
Scope(n, s) == IF s = 0 THEN 1..Len(n) ELSE Subtree(n, s)

Below(n, s) == IF s = 0 THEN 1..Len(n) ELSE Inside(n, s)

Depth(n, s) == IF s = 0 THEN 0 ELSE n[s].depth

-----------------------------------------------------------------------------
\* "### ", one more # for each depth, six at most; then the name and "\n\n".
HeadingChars(n, i, depth) ==
    (IF depth < 3 THEN 3 + depth ELSE 6) + 1 + n[i].heading + 2

\* A slip: the text of sections that contain others is counted as well.
TextCharsOfAll(n, i) == n[i].text + 2

\* Only a section without sections in it has its own text rendered.
TextChars(n, i) == IF IsLeaf(n, i) THEN n[i].text + 2 ELSE 0

\* The Markdown of a scope: for each section a heading, and its text or none.
renderBlocks(n, s) ==
    {[id |-> i, depth |-> n[i].depth - Depth(n, s), text |-> IsLeaf(n, i)] :
        i \in Scope(n, s)}

\* Its length, counted without building it.
ContentCharCount(n, s) ==
    MapThenSumSet(LAMBDA i : HeadingChars(n, i, n[i].depth - Depth(n, s))
                             + TextChars(n, i),
                  Scope(n, s))

\* A slip: depths counted from the root of the norm.
subtreeSizeFromRoot(n, i) ==
    LET size[j \in Subtree(n, i)] ==
          HeadingChars(n, j, n[j].depth) + TextChars(n, j)
          + MapThenSumSet(LAMBDA c : size[c], Children(n, j))
    IN  size[i]

\* The size tables of contents give for a section.
subtreeSize(n, i) ==
    LET size[j \in Subtree(n, i)] ==
          HeadingChars(n, j, n[j].depth - n[i].depth) + TextChars(n, j)
          + MapThenSumSet(LAMBDA c : size[c], Children(n, j))
    IN  size[i]

Articles(n, S) == {i \in S : n[i].article}

\* Of a section, the section itself included.
countArticleParts(n, s) == Cardinality(Articles(n, Scope(n, s)))

-----------------------------------------------------------------------------
(* Tables of contents of the sections S: a whole norm's, or the ones inside *)
(* a section, at depth "base" and below.                                    *)

Line == [id : Nat, size : Nat, first : Nat, last : Nat, arts : Nat]

PlainLine(n, i) ==
    [id |-> i, size |-> subtreeSize(n, i), first |-> 0, last |-> 0, arts |-> 0]

\* With the first, the last and the number of the articles inside
\* (articleBounds).
RangedLine(n, i) ==
    LET arts == Articles(n, Inside(n, i)) IN
    IF arts = {} THEN PlainLine(n, i)
    ELSE [id |-> i, size |-> subtreeSize(n, i), first |-> Min(arts),
          last |-> Max(arts), arts |-> Cardinality(arts)]

\* Which sections a table of contents shows, and which of them with a range.
Plan == [shown : SUBSET Nat, ranged : SUBSET Nat]

Collapsed(n, S) ==
    {i \in S : Cardinality(Children(n, i)) > maxListedChildren}

\* Every section but those inside one with too many children.
foldNode(n, S) ==
    [shown  |-> {j \in S : \A a \in Collapsed(n, S) : j \notin Inside(n, a)},
     ranged |-> Collapsed(n, S)]

\* The sections at the top and, with ranges, their children.
compactNode(n, S, base) ==
    [shown  |-> {j \in S : n[j].depth \in {base, base + 1}},
     ranged |-> {j \in S : n[j].depth = base + 1}]

topLine(n, S, base) ==
    [shown  |-> {j \in S : n[j].depth = base},
     ranged |-> {j \in S : n[j].depth = base}]

Fits(plan) == Cardinality(plan.shown) <= maxTOCLines

\* A slip: the top-level lines come without their ranges.
FittingPlain(n, S, base) ==
    LET folded == foldNode(n, S) IN
    IF Fits(folded) THEN folded
    ELSE [shown |-> {j \in S : n[j].depth = base}, ranged |-> {}]

\* The first of the three that fits; the last even when it does not.
Fitting(n, S, base) ==
    LET folded  == foldNode(n, S)
        compact == compactNode(n, S, base)
    IN  IF Fits(folded) THEN folded
        ELSE IF Fits(compact) THEN compact
        ELSE topLine(n, S, base)

renderTOCBounded(n, S, base) ==
    LET plan == Fitting(n, S, base) IN
    {IF i \in plan.ranged THEN RangedLine(n, i) ELSE PlainLine(n, i) :
        i \in plan.shown}

\* A slip: the table of a section takes the section's depth for the top.
TOCAtOwnDepth(n, s) == renderTOCBounded(n, Below(n, s), Depth(n, s))

\* The whole norm's table, or that of the sections inside one
\* (renderFoldedTOC, renderFoldedSubTOC); of a leaf it has no lines.
TOC(n, s) ==
    renderTOCBounded(n, Below(n, s), IF s = 0 THEN 0 ELSE n[s].depth + 1)

-----------------------------------------------------------------------------
(* The search of find_in_norm (internal/bcn/norm_search.go).               *)

NameMatches(n) == {i \in 1..Len(n) : "name" \in n[i].matches}

\* The text of the section or of one inside it contains the query; a section
\* whose name does is not listed twice.
ContentMatches(n) ==
    {i \in (1..Len(n)) \ NameMatches(n) :
        \E j \in Subtree(n, i) : "text" \in n[j].matches}

=============================================================================
