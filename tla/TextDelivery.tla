---------------------------- MODULE TextDelivery ----------------------------
(***************************************************************************)
(* A text on its way from the service to the reader: it is sanitized, then *)
(* delivered in pieces.  The document of a dictamen goes out in the parts  *)
(* of Pagination; a section of a norm shows in the results of find_in_norm *)
(* through a snippet of it; the other texts (the fields of the CGR         *)
(* documents, the summaries of BCN) are shown whole.                       *)
(***************************************************************************)
EXTENDS Pagination, NormSnippets, FiniteSets

CONSTANTS Texts,    \* [kind, pieces]: what the services may publish
          Queries   \* queries find_in_norm may be called with

\* Each kind of text has its sanitizer.
Sanitizers == {"markdown", "resumen", "documento", "materia", "texto", "auditoria"}

ASSUME TextsAssumption == /\ \A t \in Texts : /\ t.kind \in Sanitizers
                                              /\ t.pieces \in Seq(Seq(Rune))
                          /\ Queries \subseteq Seq(Rune)
                          /\ {"sp", "nl"} \subseteq Rune

VARIABLES text,     \* the published text: immutable
          found     \* what find_in_norm has shown of it

textVars == <<vars, text, found>>

Shown == [query : Queries, panic : BOOLEAN, snippet : Seq(Rune)]

Clean(t) == [k \in DOMAIN t.pieces |-> Sanitized(t.kind, t.pieces[k])]

TextInit == /\ text \in Texts
            /\ found = {}
            /\ doc = Clean(text)[1]
            /\ Init
            /\ text.kind # "documento" => budget = 0

\* get_cgr_dictamen, a step of it.
PaginateDictamen == /\ text.kind = "documento"
                    /\ Next
                    /\ UNCHANGED <<text, found>>

\* find_in_norm over a section: its markdown is the sanitized one, and a
\* query of nothing but spaces is refused.
FindInNorm(query) ==
    LET q == ToLower(collapseQuerySpaces(query))
        hit == firstContaining(Clean(text), q)
    IN /\ text.kind = "markdown"
       /\ q # << >>
       /\ Containing(Clean(text), q) # {}
       /\ found' = found \cup
            {[query |-> query,
              panic |-> Panics(hit.piece, hit.idx),
              snippet |-> IF Panics(hit.piece, hit.idx) THEN << >>
                          ELSE snippetAround(hit.piece, hit.idx, Bytes(q))]}
       /\ UNCHANGED <<vars, text>>

TextNext == PaginateDictamen \/ \E query \in Queries : FindInNorm(query)

TextSpec == TextInit /\ [][TextNext]_textVars

\* The handler runs to its end once the request is in.
FairTextSpec ==
    TextSpec /\ WF_textVars(/\ text.kind = "documento"
                            /\ (Turn \/ LoopEnds \/ Serve \/ Refuse)
                            /\ UNCHANGED <<text, found>>)

-----------------------------------------------------------------------------
\* Texts and snippets have their types.
TextTypeOK == /\ TypeOK
              /\ text \in Texts
              /\ found \subseteq Shown

Noise == zeroWidthChars \cup controls

\* What stands between the runes i and j of s, as a reader sees it.
Gap(s, i, j) ==
    LET between == {k \in (i + 1)..(j - 1) : s[k] \notin Noise}
        breaks == {k \in between : s[k] = "nl"}
    IN CASE Cardinality(breaks) > 1 -> "paragraph"
         [] Cardinality(breaks) = 1 -> "line"
         [] breaks = {} /\ between # {} -> "space"
         [] OTHER -> "none"

\* The runes of s that a reader sees, each with the gap before it.  A tab
\* counts as seen but at the ends of the text.
Seen(s) ==
    LET ink == {i \in DOMAIN s : s[i] \notin Noise \cup Space \cup {"nl", "tab"}}
        seen == {i \in DOMAIN s : /\ s[i] \notin Noise \cup Space \cup {"nl"}
                                  /\ \E k \in ink : k <= i
                                  /\ \E k \in ink : i <= k}
        at == [n \in 1..Cardinality(seen) |->
                 CHOOSE i \in seen : Cardinality({k \in seen : k <= i}) = n]
    IN [n \in DOMAIN at |->
          <<IF n = 1 THEN "none" ELSE Gap(s, at[n - 1], at[n]), s[at[n]]>>]

\* No run of spaces, none at either end of a line, no third newline in a
\* row, none of the runes the sanitizer removes.
Tidy(s) ==
    \A i \in DOMAIN s :
       /\ s[i] \notin Noise \cup spacesToNormalize
       /\ s[i] = "sp" => /\ i \notin {1, Len(s)}
                         /\ {s[i - 1], s[i + 1]} \cap {"sp", "nl"} = {}
       /\ s[i] = "nl" => /\ i \notin {1, Len(s)}
                         /\ i > 2 => {s[i - 2], s[i - 1]} # {"nl"}

\* Sanitizing takes away noise and nothing else: the runes a reader sees, in
\* their order, and the kind of gap between each two of them (a word, a
\* line or a paragraph boundary) are those of the text without its tags;
\* what is left is tidy, sanitizing it again changes nothing, and of a field
\* whose tags are stripped no tag is left.
OnlyNoiseGoes ==
    \A k \in DOMAIN text.pieces :
       LET clean == Clean(text)[k] IN
       /\ Seen(clean) = Seen(Stripped(text.kind, text.pieces[k]))
       /\ Tidy(clean)
       /\ normalize(clean) = clean
       /\ text.kind \in {"texto", "auditoria"} => stripTags(clean) = clean

Query(shown) == ToLower(collapseQuerySpaces(shown.query))

\* The piece find_in_norm finds the query in, and the runes before it.
Body(shown) == Clean(text)[Lowest(Containing(Clean(text), Query(shown)))]

At(shown) == Lowest(Occurrences(ToLower(Body(shown)), Query(shown)))

\* "a context snippet around the first occurrence" (norm_search.go), where
\* the text up to the match has runes of one byte only: the snippet contains
\* the match, or as much of its beginning as the window, the margin and the
\* hard cap leave room for; it respects the cap, and shows whole the
\* paragraph of the match when it fits in the window and in that room.
SnippetShowsMatch ==
    \A shown \in found :
       LET body == Body(shown)
           q == Query(shown)
           room == snippetMaxHard - snippetBefore - snippetMargin
           matchEnd == At(shown) + Len(q)
           opens == Highest({0} \cup {i \in 2..At(shown) :
                                        ParagraphAt(body, i - 2)})
           closes == Lowest({Len(body)} \cup {i \in matchEnd..(Len(body) - 2) :
                                                ParagraphAt(body, i)})
       IN OneByte(SubSeq(body, 1, matchEnd)) =>
            /\ ~shown.panic
            /\ Occurrences(ToLower(shown.snippet),
                           IF Len(q) <= room THEN q
                           ELSE TrimSpace(SubSeq(q, 1, room))) # {}
            /\ Len(shown.snippet) <= snippetMaxHard
            /\ /\ At(shown) - opens <= snippetBefore
               /\ closes - matchEnd <= snippetAfter
               /\ closes - opens <= room
               => Occurrences(shown.snippet,
                              TrimSpace(SubSeq(body, opens + 1, closes))) # {}

\* "cada coincidencia de contenido DEBE añadir un snippet [...] alrededor de
\* la primera ocurrencia" (find-in-norm spec), whatever letters the norm has.
EveryMatchHasItsSnippet ==
    \A shown \in found :
       /\ ~shown.panic
       /\ Occurrences(ToLower(shown.snippet), Query(shown)) # {}

=============================================================================
