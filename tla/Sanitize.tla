------------------------------ MODULE Sanitize ------------------------------
(***************************************************************************)
(* The sanitizers every text of BCN and CGR goes through before a reader   *)
(* gets it (internal/bcn/sanitize.go and garbage.go, and their twins in    *)
(* internal/cgr).  A text is a sequence of runes; a rune stands for its    *)
(* class, and an HTML entity or the opening of a tag the code knows by     *)
(* name is one rune of the raw text.                                       *)
(***************************************************************************)
EXTENDS Integers, Sequences

spacesToNormalize == {"nbsp"}      \* also U+2002 and U+2003

zeroWidthChars == {"zw"}           \* U+200B and the byte-order mark

controls == {"ctl"}                \* C0 but for tab and newline

Space == {"sp"} \cup spacesToNormalize

Tag == {"<", "<resumen", "<?xml"}

TagEnd == {">", "?>"}

\* What html.UnescapeString makes of an entity; it decodes once.
Decoded == [e \in {"&lt;", "&gt;", "&nbsp;", "&amp;lt;"} |->
              CASE e = "&lt;"     -> "<"
                [] e = "&gt;"     -> ">"
                [] e = "&nbsp;"   -> "nbsp"
                [] e = "&amp;lt;" -> "&lt;"]

unescape(s) == [i \in DOMAIN s |->
                  IF s[i] \in DOMAIN Decoded THEN Decoded[s[i]] ELSE s[i]]

-----------------------------------------------------------------------------
\* ReplaceAllString(s, ""): from left to right, the match that begins at i
\* ends at end[i]; none begins there where that is 0.
Without(s, end) ==
    LET from[i \in 1..(Len(s) + 1)] ==
          IF i > Len(s) THEN << >>
          ELSE IF end[i] # 0 THEN from[end[i] + 1]
          ELSE <<s[i]>> \o from[i + 1]
    IN from[1]

\* Where "[^>]*>" ends when it begins after rune i, and 0 if nowhere.
Closing(s, i) ==
    LET ends == {j \in (i + 1)..Len(s) : s[j] \in TagEnd}
    IN IF ends = {} THEN 0 ELSE CHOOSE j \in ends : \A k \in ends : j <= k

\* resumenTagRe: (?i)</?resumen[^>]*>
stripResumen(s) ==
    Without(s, [i \in DOMAIN s |->
                  IF s[i] = "<resumen" THEN Closing(s, i) ELSE 0])

\* tagRe: <[^>]+>, at least one rune between the brackets.
stripTags(s) ==
    Without(s, [i \in DOMAIN s |->
                  IF s[i] \in Tag /\ ~(s[i] = "<" /\ i < Len(s) /\ s[i + 1] = ">")
                  THEN Closing(s, i) ELSE 0])

\* xmlHeaderRe: (?i)<\?xml[^>]*\?>
stripXMLHeader(s) ==
    Without(s, [i \in DOMAIN s |->
                  IF s[i] = "<?xml" /\ Closing(s, i) # 0
                  THEN IF s[Closing(s, i)] = "?>" THEN Closing(s, i) ELSE 0
                  ELSE 0])

-----------------------------------------------------------------------------
\* The state of normalize's single pass.
Blank == [out |-> << >>, pendingSpace |-> FALSE, atLineStart |-> TRUE,
          newlineRun |-> 0]

\* A slip: a rune the pass drops ends the run of newlines it stands in.
StepDroppedEndsRun(at, r) ==
    CASE r \in zeroWidthChars \cup controls -> [at EXCEPT !.newlineRun = 0]
      [] r \in Space -> [at EXCEPT !.pendingSpace = TRUE]
      [] r = "nl" ->
           [out |-> IF at.newlineRun < 2 THEN Append(at.out, "nl") ELSE at.out,
            pendingSpace |-> FALSE, atLineStart |-> TRUE,
            newlineRun |-> at.newlineRun + 1]
      [] OTHER ->
           [out |-> (IF at.pendingSpace /\ ~at.atLineStart
                     THEN Append(at.out, "sp") ELSE at.out) \o <<r>>,
            pendingSpace |-> FALSE, atLineStart |-> FALSE, newlineRun |-> 0]

\* One rune of the pass.
Step(at, r) ==
    CASE r \in zeroWidthChars \cup controls -> at
      [] r \in Space -> [at EXCEPT !.pendingSpace = TRUE]
      [] r = "nl" ->
           [out |-> IF at.newlineRun < 2 THEN Append(at.out, "nl") ELSE at.out,
            pendingSpace |-> FALSE, atLineStart |-> TRUE,
            newlineRun |-> at.newlineRun + 1]
      [] OTHER ->
           [out |-> (IF at.pendingSpace /\ ~at.atLineStart
                     THEN Append(at.out, "sp") ELSE at.out) \o <<r>>,
            pendingSpace |-> FALSE, atLineStart |-> FALSE, newlineRun |-> 0]

\* The part of s between its first and its last rune outside Cut.
Trim(s, Cut) ==
    LET kept == {i \in DOMAIN s : s[i] \notin Cut}
    IN IF kept = {} THEN << >>
       ELSE SubSeq(s, CHOOSE i \in kept : \A k \in kept : i <= k,
                      CHOOSE i \in kept : \A k \in kept : k <= i)

TrimSpace(s) == Trim(s, Space \cup {"nl", "tab"})

normalize(s) ==
    LET after[i \in 0..Len(s)] ==
          IF i = 0 THEN Blank ELSE Step(after[i - 1], s[i])
    IN TrimSpace(after[Len(s)].out)

-----------------------------------------------------------------------------
\* The sanitizers up to normalize: what they decode and which tags go.
Stripped(kind, raw) ==
    CASE kind = "markdown"  -> raw
      [] kind = "resumen"   -> stripResumen(unescape(raw))
      [] kind = "documento" -> stripResumen(unescape(raw))
      [] kind = "materia"   -> unescape(raw)
      [] kind = "texto"     -> stripTags(unescape(raw))
      [] kind = "auditoria" -> stripTags(stripXMLHeader(unescape(raw)))

\* SanitizeMarkdown and SanitizeSummary of bcn; SanitizeDocumento,
\* SanitizeMateria, SanitizeTexto with its namesakes, and
\* SanitizeAuditoriaContenido of cgr.
Sanitized(kind, raw) == normalize(Stripped(kind, raw))

=============================================================================
