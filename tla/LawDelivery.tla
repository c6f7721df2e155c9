----------------------------- MODULE LawDelivery -----------------------------
(***************************************************************************)
(* A reader and one version of a norm: what get_law, get_law_summary and   *)
(* find_in_norm answer (internal/tools/get_law.go, get_law_summary.go,     *)
(* find_in_norm.go), and what a reader who goes from map to section can    *)
(* make of it.  A content longer than the budget is withheld, and a table  *)
(* of contents delivered in its place.                                     *)
(*                                                                         *)
(* The state is what the reader has been told.  The norm does not change   *)
(* under it: fetching and caching are NormaFetch's subject.                *)
(***************************************************************************)
EXTENDS NormTree, Subsequences

CONSTANTS Norms,            \* the norms a reader may meet
          SectionIds,       \* values of the section_id argument
          MaxContentChars,  \* the shared budget, 100000 in the code
          maxResults,       \* how many matches are listed, 20 in the code
          MaxMaps           \* bound: answers without content a reader asks for

ASSUME LawDeliveryAssumption == /\ \A n \in Norms : IsNorm(n)
                                /\ SectionIds \subseteq Nat
                                /\ MaxContentChars \in Nat
                                /\ maxResults \in Nat \ {0}
                                /\ MaxMaps \in Nat

VARIABLES norm,     \* the norm being read
          answers,  \* the answers of get_law and get_law_summary so far
          found,    \* the answers of find_in_norm so far
          refused   \* the section ids that were "not found"

vars == <<norm, answers, found, refused>>

Answer == [tool       : {"get_law", "get_law_summary"},
           only       : BOOLEAN,                 \* structure_only
           section    : Nat,                     \* section_id, 0 for none
           chars      : Nat,
           articles   : Nat,
           degraded   : BOOLEAN,
           toc        : SUBSET Line,
           estructura : SUBSET Nat,              \* of the structured output
           body       : SUBSET [id : Nat, depth : Nat, text : BOOLEAN]]

Match == [id : Nat, chars : Nat, articles : Nat, inText : BOOLEAN]

Search == [results : Seq(Match), total : Nat]

-----------------------------------------------------------------------------
Init == /\ norm \in Norms
        /\ answers = {}
        /\ found = {}
        /\ refused = {}

\* The sizes of what is asked for, and whether it does not fit.
resolveScope(s, only) ==
    LET chars == ContentCharCount(norm, s) IN
    [chars    |-> chars,
     articles |-> countArticleParts(norm, s),
     degraded |-> ~only /\ chars > MaxContentChars]

\* The sections the structured output lists (buildGetLawOutput).
Estructura(s, only, degraded) == IF only THEN 1..Len(norm)
                                 ELSE IF s > 0 THEN Subtree(norm, s)
                                 ELSE IF degraded THEN {}
                                 ELSE 1..Len(norm)

\* All of the content or none (formatNorma).
Body(s, only, degraded) ==
    IF only \/ degraded THEN {} ELSE renderBlocks(norm, s)

\* get_law with a valid norm_id; MaxMaps bounds the calls with structure_only.
GetLaw(s, only) ==
    /\ s = 0 \/ s \in 1..Len(norm)
    /\ only => Cardinality({a \in answers : a.only}) < MaxMaps
    /\ LET scope == resolveScope(s, only) IN
       answers' = answers \cup
          {[tool |-> "get_law", only |-> only, section |-> s,
            chars |-> scope.chars,
            articles |-> scope.articles,
            degraded |-> scope.degraded,
            toc |-> TOC(norm, s),
            estructura |-> Estructura(s, only, scope.degraded),
            body |-> Body(s, only, scope.degraded)]}
    /\ UNCHANGED <<norm, found, refused>>

\* No block of the norm has the id.
SectionNotFound(s) == /\ s # 0 /\ s \notin 1..Len(norm)
                      /\ refused' = refused \cup {s}
                      /\ UNCHANGED <<norm, answers, found>>

\* get_law_summary: the map of the whole norm, never the content.
GetLawSummary ==
    /\ Cardinality({a \in answers : a.only}) < MaxMaps
    /\ answers' = answers \cup
          {[tool |-> "get_law_summary", only |-> TRUE, section |-> 0,
            chars |-> ContentCharCount(norm, 0),
            articles |-> countArticleParts(norm, 0),
            degraded |-> FALSE,
            toc |-> TOC(norm, 0),
            estructura |-> 1..Len(norm),
            body |-> {}]}
    /\ UNCHANGED <<norm, found, refused>>

MatchOf(i, inText) == [id |-> i, chars |-> subtreeSize(norm, i),
                       articles |-> countArticleParts(norm, i),
                       inText |-> inText]

\* A slip: matches are ranked by their place in the norm alone.
RankedByPlace ==
    [k \in 1..Cardinality(NameMatches(norm) \cup ContentMatches(norm)) |->
        LET i == InOrder(NameMatches(norm) \cup ContentMatches(norm))[k]
        IN  MatchOf(i, i \notin NameMatches(norm))]

\* Matches by name first, then by content, each in the order of the norm.
Ranked ==
    LET names == InOrder(NameMatches(norm))
        texts == InOrder(ContentMatches(norm))
    IN  [k \in 1..Len(names) |-> MatchOf(names[k], FALSE)]
        \o [k \in 1..Len(texts) |-> MatchOf(texts[k], TRUE)]

\* find_in_norm, asked once: the first matches and how many there are.
FindInNorm ==
    /\ found = {}
    /\ found' = {[results |-> SubSeq(Ranked, 1, Min({maxResults, Len(Ranked)})),
                  total |-> Len(Ranked)]}
    /\ UNCHANGED <<norm, answers, refused>>

Next == \/ \E s \in SectionIds, only \in BOOLEAN : GetLaw(s, only)
        \/ \E s \in SectionIds : SectionNotFound(s)
        \/ GetLawSummary
        \/ FindInNorm

Spec == Init /\ [][Next]_vars

-----------------------------------------------------------------------------
\* The reader's state is made of answers.
TypeOK == /\ IsNorm(norm)
          /\ answers \subseteq Answer
          /\ found \subseteq Search
          /\ refused \subseteq SectionIds \ (0..Len(norm))

\* Answers about the same norm agree: the size a table of contents or a match
\* gives for a section is the one its own answer declares, so is the number
\* of its articles (a line counts those inside it, a match and an answer the
\* section itself too), and the range of a line runs from the first to the
\* last of them.  The code computes these sizes three times over, with
\* "keep in sync" for a safeguard (ContentCharCount, subtreeSize,
\* renderBlocks).
AnswersAgree ==
    \A a \in answers :
       /\ \A l \in UNION {b.toc : b \in answers} :
             l.id = a.section =>
                /\ l.size = a.chars
                /\ l.arts # 0 =>
                      LET arts == Articles(norm, Inside(norm, l.id)) IN
                      /\ l.arts = Cardinality(arts)
                      /\ {l.first, l.last} \subseteq arts
                      /\ \A i \in arts : l.first <= i /\ i <= l.last
                      /\ a.articles - l.arts \in {0, 1}
       /\ \A f \in found : \A k \in 1..Len(f.results) :
             f.results[k].id = a.section =>
                /\ f.results[k].chars = a.chars
                /\ f.results[k].articles = a.articles

\* "Delivered whole, never truncated": a content is delivered exactly when it
\* fits the budget; then it has the declared number of characters and every
\* section of the scope in it.
DeliveredWhole ==
    \A a \in {b \in answers : ~b.only} :
       /\ a.degraded <=> a.chars > MaxContentChars
       /\ a.degraded => a.body = {}
       /\ ~a.degraded =>
             /\ {p.id : p \in a.body} = Scope(norm, a.section)
             /\ a.chars = MapThenSumSet(
                   LAMBDA p : HeadingChars(norm, p.id, p.depth)
                              + (IF p.text THEN norm[p.id].text + 2 ELSE 0),
                   a.body)

\* "The range is the localization mechanism: an agent matches a target
\* article against container ranges and drills one level down"
\* (renderFoldedTOC): an article in the scope of an answer is listed there,
\* or it is in the range of exactly one line, and inside that line's section.
ArticlesLocated ==
    \A a \in answers : \A i \in Articles(norm, Below(norm, a.section)) :
       \/ \E l \in a.toc : l.id = i
       \/ \E l \in a.toc :
             /\ l.first <= i /\ i <= l.last
             /\ i \in Inside(norm, l.id)
             /\ \A m \in a.toc : m.first <= i /\ i <= m.last => m = l

\* What a reader has been shown and what it was given.
Shown == {l.id : l \in UNION {a.toc : a \in answers}}

Asked == {a.section : a \in {b \in answers : ~b.only}}

Read == {p.id : p \in {q \in UNION {a.body : a \in answers} : q.text}}

\* "Each level keeps every section id reachable" (renderTOCBounded): a reader
\* who has asked for the norm and for every section it was shown has read
\* every text, but those that exceed the budget on their own; and no section
\* it was shown is refused.
NothingLost ==
    /\ Shown \cap refused = {}
    /\ {0} \cup Shown \subseteq Asked =>
          \A i \in 1..Len(norm) :
             IsLeaf(norm, i) => \/ i \in Read
                                \/ /\ subtreeSize(norm, i) > MaxContentChars
                                   /\ i \in Asked

\* Matches by name come before those by content, each group in the order of
\* the norm and no section twice; the list is cut at maxResults, never the
\* total.  A section listed for its content contains a section whose text,
\* or whose name, has the query: "matching exactly the text the agent reads".
SearchIsOrdered ==
    \A f \in found :
       /\ Len(f.results) = Min({maxResults, f.total})
       /\ f.total = Cardinality({i \in 1..Len(norm) :
                       \/ "name" \in norm[i].matches
                       \/ \E j \in Subtree(norm, i) : "text" \in norm[j].matches})
       /\ \A j, k \in 1..Len(f.results) : j < k =>
             \/ ~f.results[j].inText /\ f.results[k].inText
             \/ /\ f.results[j].inText = f.results[k].inText
                /\ f.results[j].id < f.results[k].id
       /\ \A k \in 1..Len(f.results) : f.results[k].inText =>
             \E p \in renderBlocks(norm, f.results[k].id) :
                \/ p.text /\ "text" \in norm[p.id].matches
                \/ "name" \in norm[p.id].matches

\* "WHEN a response omits part of a document THEN the identifiers needed to
\* retrieve the omitted part are present in that same response"
\* (output-budget spec): an answer that withholds its content names some
\* other section to ask for.
EveryOmissionRecoverable ==
    \A a \in answers :
       a.degraded => ({l.id : l \in a.toc} \cup a.estructura) \ {a.section} # {}

=============================================================================
