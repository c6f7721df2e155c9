--------------------------- MODULE MCTextDelivery ---------------------------
(* Documents of line breaks and others, long enough for several parts; raw *)
(* texts with every kind of noise; sections of one or two pieces.          *)
EXTENDS TextDelivery

CONSTANTS MaxDocument,   \* runes of a document to paginate
          MaxRaw,        \* runes of a raw text
          MaxPiece       \* runes of a piece of a section

UpTo(n, alphabet) == UNION {[1..k -> alphabet] : k \in 0..n}

Of(kind, texts) == {[kind |-> kind, pieces |-> <<t>>] : t \in texts}

\* A document that sanitizing leaves as it is.
Document(t) == t # << >> => t[1] = "x" /\ t[Len(t)] = "x"

Spaced == {"x", "sp", "nbsp", "zw", "tab", "nl"}

Tagged == {"x", "sp", "<", ">", "&lt;", "&gt;"}

Prologued == {"x", "<", "<?xml", "?>", ">"}

Broken == {"x", "ctl", "zw", "nl"}

Decodable == {"x", "&amp;lt;", "&nbsp;", "&lt;", ">", "nl"}

MCAccented == Of("markdown", UpTo(MaxPiece - 2, {"x", "é", "q", "nl"}))

MCDocuments == Of("documento", {t \in UpTo(MaxDocument, {"x", "nl"}) : Document(t)})

MCTexts ==
    MCDocuments
    \cup Of("documento", UpTo(MaxRaw - 1, {"x", "zw", "nl", "<resumen", ">"}))
    \cup Of("markdown", UpTo(MaxRaw, Spaced) \cup UpTo(MaxRaw + 2, Broken))
    \cup Of("resumen", UpTo(MaxRaw, {"x", "<resumen", ">", "&lt;", "sp", "nl"}))
    \cup Of("materia", UpTo(MaxRaw, Decodable))
    \cup Of("texto", UpTo(MaxRaw, Tagged))
    \cup Of("auditoria", UpTo(MaxRaw, Prologued))
    \cup Of("markdown", UpTo(MaxPiece, {"x", "q", "nl"}))
    \cup MCAccented
    \cup {[kind |-> "markdown", pieces |-> <<a, b>>] :
             a \in UpTo(2, {"x", "Q"}), b \in UpTo(4, {"x", "q", "nl"})}

MCRune == Spaced \cup Tagged \cup Prologued \cup Broken \cup Decodable
          \cup {"q", "Q", "é", "<resumen"}

MCBudgets == {0, 1, 2, 4}

MCParts == {-1, 0, 1, 2, 3}

MCQueries == {<<"q">>, <<"x", "sp", "sp", "Q">>, <<"sp">>, <<"q", "x">>,
              <<"q", "x", "x", "x", "x", "x">>}

=============================================================================
