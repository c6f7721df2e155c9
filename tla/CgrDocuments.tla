---------------------------- MODULE CgrDocuments ----------------------------
(***************************************************************************)
(* What a search of the Contraloria lists and what the get_cgr tools       *)
(* answer, as functions of the documents the service has published.        *)
(*                                                                         *)
(* Document n is the n-th one published.  The service knows it by up to    *)
(* three names (_id, doc_id, numero), each of some FORM: the class of      *)
(* strings that the patterns of tools and client tell apart.  Two          *)
(* documents may bear the same name.                                       *)
(***************************************************************************)
EXTENDS Subsequences

CONSTANTS pageSize,        \* 20: results of a page, fixed by the service
          maxPage,         \* 500: the last page a caller may ask for
          totalCap,        \* 10000: the service reports no larger total
          Docs             \* external: the documents, in order of publication

\* The sources with documents of their own that a get_cgr tool opens.
Openable == {"dictamenes", "instructivos", "contable", "auditoria",
             "legislacion", "cuentas", "consolidados"}

allowedSources == Openable \cup {"web", "todos"}

\* ENyy is E179593N25, LNyy is OF80660N26, XNyy has more letters or digits
\* than an instructivo; num is a number of up to six digits, num7 of seven.
Form == {"ENyy", "LNyy", "XNyy", "n/yyyy", "E", "OFE", "CIC", "num", "num7",
         "RZA", "other"}

Absent == ""

\* Two names of one form differ in their number.
Name == [form : Form, no : Nat]

NoName == [form |-> Absent, no |-> 0]

\* "leyes" are the norms of LeyChile, which no search of the Contraloria finds.
\* MB are whole megabytes of the answer that carries the document alone.
Doc == [source : (allowedSources \ {"todos"}) \cup {"leyes"}, id : Name \cup {NoName},
        docId : Name \cup {NoName}, numero : Name \cup {NoName},
        index : {"own", "none", "cgr", "alien"}, decodes : BOOLEAN,
        MB : Nat]

ASSUME DocumentsAssumption == /\ {pageSize, maxPage, totalCap} \subseteq Nat \ {0}
                              /\ totalCap <= pageSize * maxPage
                              /\ Docs \in Seq(Doc)

\* External: every document comes with an _id or a doc_id, a consolidado with
\* a numero.
ASSUME NamedAssumption ==
  \A n \in DOMAIN Docs : Docs[n].source \in Openable =>
    IF Docs[n].source = "consolidados" THEN Docs[n].numero # NoName
    ELSE {Docs[n].id, Docs[n].docId} # {NoName}

NamesOf(n) == {Docs[n].id, Docs[n].docId, Docs[n].numero} \ {NoName}

-----------------------------------------------------------------------------
(* Search: the page the service sends and the summaries made of it. *)

Matches(n, source) == \/ Docs[n].source = source
                      \/ source = "todos" /\ Docs[n].source \in allowedSources

\* The documents a search finds when version documents are published.
Matching(source, version) == {n \in 1..version : Matches(n, source)}

NewestFirst(S) == LET rising == InOrder(S)
                  IN  [i \in DOMAIN rising |-> rising[Len(rising) + 1 - i]]

Ranking(source, order, version) ==
  IF order = "dateasc" THEN InOrder(Matching(source, version))
                       ELSE NewestFirst(Matching(source, version))

apiPage(page) == page - 1

\* What of the service's history a search can show: its newest document.
Moment(source, version) ==
  LET found == Matching(source, version)
  IN  IF found = {} THEN 0 ELSE CHOOSE n \in found : \A m \in found : m <= n

HitsOn(source, order, page, version) ==
  LET ranking == Ranking(source, order, version)
      from    == apiPage(page) * pageSize
  IN  SubSeq(ranking, from + 1, IF Len(ranking) < from + pageSize THEN Len(ranking)
                                                                 ELSE from + pageSize)

\* A hit of a foreign index, or with a _source that does not decode, is
\* passed over; a hit without _index is taken.
Kept(source, n) ==
  /\ Docs[n].index \in {"own", "none"} \cup IF source = "todos" THEN {"cgr"} ELSE {}
  /\ Docs[n].decodes

\* A slip: no fallback to doc_id.
dictamenIdOnly(source, n) == Docs[n].id

dictamenId(source, n) ==
  IF Docs[n].id = NoName /\ source # "consolidados" THEN Docs[n].docId ELSE Docs[n].id

Summary(source, n) == [doc |-> n, dictamenId |-> dictamenId(source, n),
                       nDictamen |-> Docs[n].numero]

MBof(hits) == LET sum[i \in 0..Len(hits)] == IF i = 0 THEN 0 ELSE sum[i-1] + Docs[hits[i]].MB
              IN  sum[Len(hits)]

Reported(total) == IF total < totalCap THEN total ELSE totalCap

CeilDiv(total, size) == (total + size - 1) \div size

\* A slip: has_more of a page that ends exactly at the total.
SearchResponseOneMore(source, order, page, version) ==
  LET hits  == HitsOn(source, order, page, version)
      kept  == At(hits, {i \in DOMAIN hits : Kept(source, hits[i])})
      total == Reported(Cardinality(Matching(source, version)))
  IN  [results    |-> [i \in DOMAIN kept |-> Summary(source, kept[i])],
       page       |-> page,
       total      |-> total,
       totalPages |-> IF total > 0 THEN CeilDiv(total, pageSize) ELSE 0,
       hasMore    |-> page * pageSize <= total,
       moment     |-> Moment(source, version)]

SearchResponse(source, order, page, version) ==
  LET hits  == HitsOn(source, order, page, version)
      kept  == At(hits, {i \in DOMAIN hits : Kept(source, hits[i])})
      total == Reported(Cardinality(Matching(source, version)))
  IN  [results    |-> [i \in DOMAIN kept |-> Summary(source, kept[i])],
       page       |-> page,
       total      |-> total,
       totalPages |-> IF total > 0 THEN CeilDiv(total, pageSize) ELSE 0,
       hasMore    |-> page * pageSize < total,
       moment     |-> Moment(source, version)]

\* Answers beyond 6 MB fail; heavy ones of two sources are not cached.
TooLarge(hits) == MBof(hits) > 6

Cacheable(source, hits) == ~(MBof(hits) > 2 /\ source \in {"auditoria", "legislacion"})

-----------------------------------------------------------------------------
(* The client's Get methods: the forms their pattern lets through, and the *)
(* most megabytes they read.                                               *)

Bearers(family, name, version) ==
  {n \in 1..version : Docs[n].source = family /\ name \in NamesOf(n)}

\* External: an exact search finds the family's documents that bear the name.
ExactHits(family, name, version) == NewestFirst(Bearers(family, name, version))

numeroOf(n) == Docs[n].numero

Failure(kind) == [kind |-> kind, doc |-> 0, id |-> NoName]

Refused == Failure("refused")

\* All hits are decoded or the call fails; the first of them is the answer,
\* whether or not there are more, and whatever its own id.
FirstHit(hits, limit, Id(_)) ==
  IF MBof(hits) > limit THEN Failure("too large")
  ELSE IF \E i \in DOMAIN hits : ~Docs[hits[i]].decodes THEN Failure("undecodable")
  ELSE IF hits = <<>> \/ Docs[hits[1]].index \notin {"own", "none"} THEN Failure("not found")
  ELSE [kind |-> "document", doc |-> hits[1], id |-> Id(hits[1])]

Get(family, forms, limit, name, version) ==
  IF name.form \in forms
  THEN FirstHit(ExactHits(family, name, version), limit, LAMBDA n : dictamenId(family, n))
  ELSE Refused

GetDictamen(name, version) ==
  Get("dictamenes", {"ENyy", "LNyy", "XNyy"}, 6, name, version)

GetInstructivo(name, version) ==
  Get("instructivos", {"ENyy", "LNyy"}, 6, name, version)

GetContable(name, version) ==
  Get("contable", {"E", "OFE", "ENyy", "LNyy", "XNyy"}, 2, name, version)

GetAuditoria(name, version) ==
  Get("auditoria", {"n/yyyy", "ENyy", "LNyy", "XNyy", "num"}, 6, name, version)

GetConsolidado(name, version) ==
  IF name.form = "CIC"
  THEN FirstHit(ExactHits("consolidados", name, version), 2, numeroOf)
  ELSE Refused

GetCuenta(name, version) ==
  Get("cuentas", {"num", "num7"}, 2, name, version)

GetLegislacion(name, version) ==
  Get("legislacion", {"RZA"}, 6, name, version)

-----------------------------------------------------------------------------
(* The get_cgr tools: four handlers have a pattern of their own, and some  *)
(* show another name for a document that comes without one.                *)

Or(id, other) == IF id = NoName THEN other ELSE id

Shown(answer, other) ==
  IF answer.kind = "document" THEN [answer EXCEPT !.id = Or(@, other)] ELSE answer

get_cgr_dictamen(name, version) == GetDictamen(name, version)

get_cgr_instructivo(name, version) ==
  IF name.form \in {"ENyy", "LNyy"} THEN Shown(GetInstructivo(name, version), name)
                                    ELSE Refused

get_cgr_contable(name, version) ==
  IF name.form \in {"E", "OFE", "ENyy"} THEN Shown(GetContable(name, version), name)
                                        ELSE Refused

get_cgr_auditoria(name, version) ==
  LET answer == GetAuditoria(name, version)
  IN  IF name.form \in {"n/yyyy", "ENyy", "LNyy", "XNyy", "num"}
      THEN Shown(answer, IF answer.doc = 0 THEN name ELSE Or(numeroOf(answer.doc), name))
      ELSE Refused

get_cgr_consolidado(name, version) ==
  IF name.form = "CIC" THEN Shown(GetConsolidado(name, version), name) ELSE Refused

get_cgr_cuenta(name, version) == GetCuenta(name, version)

get_cgr_legislacion(name, version) == GetLegislacion(name, version)

-----------------------------------------------------------------------------
(* The tool that an answer's last line names, and what to give it. *)

Tool(source) == IF source \in {"web", "todos"} THEN "dictamenes" ELSE source

\* The names a client may give it: of a contable either of two.
NamesToUse(source, summary) ==
  CASE source = "consolidados" -> {summary.nDictamen}
    [] source = "contable"     -> {summary.dictamenId} \cup ({summary.nDictamen} \ {NoName})
    [] OTHER                   -> {summary.dictamenId}

Open(source, name, version) ==
  CASE Tool(source) = "dictamenes"   -> get_cgr_dictamen(name, version)
    [] Tool(source) = "instructivos" -> get_cgr_instructivo(name, version)
    [] Tool(source) = "contable"     -> get_cgr_contable(name, version)
    [] Tool(source) = "auditoria"    -> get_cgr_auditoria(name, version)
    [] Tool(source) = "consolidados" -> get_cgr_consolidado(name, version)
    [] Tool(source) = "cuentas"      -> get_cgr_cuenta(name, version)
    [] Tool(source) = "legislacion"  -> get_cgr_legislacion(name, version)

\* Each family keeps the documents it answered with, under the name asked for:
\* an answer may be one that any client got at an earlier moment.  It changes
\* only when a document of that name is published.
Openings(source, name, version) ==
  LET moments == {v \in 1..version : name \in NamesOf(v)}
  IN  {Open(source, name, version)}
        \cup {answer \in {Open(source, name, v) : v \in moments} : answer.kind = "document"}

\* The largest answer with one document that its family's tool reads.
Readable == [family \in Openable |->
               IF family \in {"contable", "consolidados", "cuentas"} THEN 2 ELSE 6]
=============================================================================
