---------------------------- MODULE NormSnippets ----------------------------
(***************************************************************************)
(* The snippet find_in_norm shows of a section that matches by its content *)
(* (internal/bcn/norm_search.go): the first markdown piece that contains   *)
(* the query, and a window around the match rounded outward to paragraph   *)
(* breaks.  The match is found in the bytes of the lowered text and the    *)
(* window is cut in its runes; both are kept apart here as in the code.    *)
(***************************************************************************)
EXTENDS Integers, Sequences, Sanitize

CONSTANTS snippetBefore,   \* 70 in the code
          snippetAfter,    \* 130
          snippetMargin,   \* 150
          snippetMaxHard   \* 600

ASSUME SnippetAssumption == {snippetBefore, snippetAfter, snippetMargin,
                             snippetMaxHard} \subseteq Nat

\* The bytes of a rune: an accented letter has two.
Width(r) == IF r = "é" THEN 2 ELSE 1

Bytes(s) ==
    LET upTo[i \in 0..Len(s)] ==
          IF i = 0 THEN 0 ELSE upTo[i - 1] + Width(s[i])
    IN upTo[Len(s)]

OneByte(s) == \A i \in DOMAIN s : Width(s[i]) = 1

ToLower(s) == [i \in DOMAIN s |-> IF s[i] = "Q" THEN "q" ELSE s[i]]

\* strings.Join(strings.Fields(s), " ")
collapseQuerySpaces(s) ==
    LET word(i) == s[i] \notin Space \cup {"nl", "tab"}
        upTo[i \in 0..Len(s)] ==
          IF i = 0 THEN << >>
          ELSE IF ~word(i) THEN upTo[i - 1]
          ELSE (IF i > 1 /\ upTo[i - 1] # << >> /\ ~word(i - 1)
                THEN Append(upTo[i - 1], "sp") ELSE upTo[i - 1]) \o <<s[i]>>
    IN upTo[Len(s)]

-----------------------------------------------------------------------------
\* The runes before each occurrence of q in s.
Occurrences(s, q) ==
    {n \in 0..(Len(s) - Len(q)) : SubSeq(s, n + 1, n + Len(q)) = q}

Lowest(S) == CHOOSE n \in S : \A k \in S : n <= k

Highest(S) == CHOOSE n \in S : \A k \in S : k <= n

Containing(block, q) ==
    {k \in DOMAIN block : Occurrences(ToLower(block[k]), q) # {}}

\* A block is the sequence of its markdown pieces in pre-order.  The index
\* is strings.Index's: in bytes of the lowered piece.
firstContaining(block, q) ==
    LET piece == block[Lowest(Containing(block, q))]
        before == Lowest(Occurrences(ToLower(piece), q))
    IN [piece |-> piece, idx |-> Bytes(SubSeq(piece, 1, before))]

-----------------------------------------------------------------------------
Smaller(a, b) == IF a <= b THEN a ELSE b

Larger(a, b) == IF a >= b THEN a ELSE b

\* "\n\n" at the runes i and i+1, counted from 0.
ParagraphAt(runes, i) == runes[i + 1] = "nl" /\ runes[i + 2] = "nl"

\* Where the window opens: just past the last break that ends at or before
\* from, if the margin reaches it.
lastIndexParagraph(runes, from) ==
    LET ends == {i \in (Larger(from - snippetMargin, 0) + 2)..from :
                   ParagraphAt(runes, i - 2)}
    IN IF ends = {} THEN from ELSE Highest(ends)

\* Where it closes: at the first break at or after from, likewise.
indexParagraph(runes, from) ==
    LET breaks == {i \in from..(Smaller(from + snippetMargin, Len(runes)) - 2) :
                     ParagraphAt(runes, i)}
    IN IF breaks = {} THEN from ELSE Lowest(breaks)

WindowStart(idx) == Larger(idx - snippetBefore, 0)

\* runes[i-1] of lastIndexParagraph, and runes[start:end], out of range.
Panics(body, idx) == WindowStart(idx) > Len(body)

\* A slip: the window closes at the first break after its start, which may
\* come before the match.
snippetToNextBreak(body, idx, qlen) ==
    LET start == lastIndexParagraph(body, WindowStart(idx))
        end == indexParagraph(body, start)
    IN TrimSpace(SubSeq(body, start + 1, Smaller(end, start + snippetMaxHard)))

snippetAround(body, idx, qlen) ==
    LET start == lastIndexParagraph(body, WindowStart(idx))
        end == indexParagraph(body,
                              Smaller(idx + qlen + snippetAfter, Len(body)))
    IN TrimSpace(SubSeq(body, start + 1, Smaller(end, start + snippetMaxHard)))

=============================================================================
