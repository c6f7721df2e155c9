---------------------------- MODULE MCLawDelivery ----------------------------
(* Every forest of up to MaxSections sections of four kinds, and every     *)
(* larger one of titles and articles.                                      *)
EXTENDS LawDelivery

CONSTANTS MaxSections, MaxPlainSections

Title == [article |-> FALSE, heading |-> 1, text |-> 1, matches |-> {}]

Article == [article |-> TRUE, heading |-> 1, text |-> 1, matches |-> {"text"}]

\* It exceeds the budget on its own.
LongArticle == [article |-> TRUE, heading |-> 1, text |-> 30, matches |-> {}]

\* The query names it, and its text repeats the name.
NamedTitle == [article |-> FALSE, heading |-> 2, text |-> 2,
               matches |-> {"name", "text"}]

Shapes(n) == {d \in [1..n -> 0..(n - 1)] :
                 /\ d # << >> => d[1] = 0
                 /\ \A i \in 1..(n - 1) : d[i + 1] <= d[i] + 1}

SectionAt(d, k) == [depth |-> d, article |-> k.article, heading |-> k.heading,
                   text |-> k.text, matches |-> k.matches]

Forests(n, Kinds) ==
    UNION {{[i \in 1..n |-> SectionAt(d[i], k[i])] : k \in [1..n -> Kinds]} :
              d \in Shapes(n)}

MCNorms ==
    {n \in UNION ({Forests(i, {Title, Article, LongArticle, NamedTitle}) :
                      i \in 0..MaxSections}
                  \cup {Forests(i, {Title, Article}) :
                      i \in (MaxSections + 1)..MaxPlainSections}) : IsNorm(n)}

MCSectionIds == 0..MaxPlainSections

=============================================================================
