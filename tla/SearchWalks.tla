----------------------------- MODULE SearchWalks ----------------------------
(***************************************************************************)
(* A client walks the pages of a search (search_cgr, its alias             *)
(* search_cgr_dictamenes, or search_laws), following what each answer says *)
(* of the next page, and opens documents it was listed with the tool the   *)
(* answer names.  Meanwhile the services publish.  Pages of the            *)
(* Contraloria are cached without revalidation, those of LeyChile are not, *)
(* so the pages of one walk may show different moments.                    *)
(***************************************************************************)
EXTENDS CgrDocuments, LawPages

CONSTANTS searchesMax,  \* capacity of the cache of search pages
          Initially,    \* documents published before the client starts
          Asked,        \* bound: the sources and orders a client asks for ...
          PageArg,      \* ... with these pages ...
          SizeArg       \* ... and page sizes

ASSUME WalksAssumption == /\ searchesMax \in Nat \ {0}
                          /\ Initially \in 0..Len(Docs)
                          /\ PageArg \cup SizeArg \subseteq Int

VARIABLES published,  \* external: how many documents have been published
          pages,      \* the cache of search pages, the most recent first
          walk,       \* the client's walk
          opened      \* the last document it opened

vars == <<published, pages, walk, opened>>

NoWalk == [source |-> "dictamenes", order |-> "date", size |-> 0, via |-> "structured",
           from |-> 0, page |-> 0, got |-> <<>>, moments |-> <<>>, misled |-> FALSE, status |-> "none"]

NothingOpened == [source |-> "dictamenes", doc |-> 0, name |-> NoName,
                  answer |-> Failure("none")]

Init == /\ published = Initially
        /\ pages = <<>>
        /\ walk = NoWalk
        /\ opened = NothingOpened

Publish == /\ published < Len(Docs)
           /\ published' = published + 1
           /\ UNCHANGED <<pages, walk, opened>>

-----------------------------------------------------------------------------
(* Arguments: an empty one stands for its default, others are checked      *)
(* before any request.                                                     *)

SourceOf(arg) == IF arg = "" THEN "dictamenes" ELSE arg

OrderOf(arg) == IF arg = "" THEN "date" ELSE arg

PageOf(arg) == IF arg = 0 THEN 1 ELSE arg

validPage(page) == page \in 1..maxPage

ValidArgs(source, order, page) == /\ SourceOf(source) \in allowedSources
                                  /\ OrderOf(order) \in {"date", "dateasc", "score"}
                                  /\ validPage(PageOf(page))

Idle == walk.status # "asking"

Begin(source, order, size, via, page) ==
  /\ opened' = NothingOpened
  /\ walk' = [NoWalk EXCEPT !.source = source, !.order = order, !.size = size,
                            !.via = via, !.from = page, !.page = page,
                            !.status = "asking"]

\* A client may read the structured answer or only its text.
StartSearch(source, order, page, via) ==
  /\ ValidArgs(source, order, page)
  /\ Begin(SourceOf(source), OrderOf(order), pageSize, via, PageOf(page))
  /\ UNCHANGED <<published, pages>>

RefuseSearch(source, order, page) ==
  /\ ~ValidArgs(source, order, page)
  /\ walk' = [NoWalk EXCEPT !.status = "refused"]
  /\ opened' = NothingOpened
  /\ UNCHANGED <<published, pages>>

\* search_laws has no order: the service ranks as it likes.
StartLaws(size, page, order) ==
  /\ Begin("leyes", order, NormalSize(size), "structured", NormalPage(page))
  /\ UNCHANGED <<published, pages>>

-----------------------------------------------------------------------------
(* One page of a walk. *)

\* A slip: the key of the cache forgets the page.
KeyWithoutPage == [source |-> walk.source, order |-> walk.order]

Key == [source |-> walk.source, order |-> walk.order, page |-> walk.page]

Others == At(pages, {i \in DOMAIN pages : pages[i].key # Key})

Cached == {pages[i].response : i \in {j \in DOMAIN pages : pages[j].key = Key}}

\* The put of the page cache: to the front, and the last one out.
Remember(response) ==
  LET all == <<[key |-> Key, response |-> response]>> \o Others
  IN  SubSeq(all, 1, IF Len(all) < searchesMax THEN Len(all) ELSE searchesMax)

Turn(results, moment, goesOn, misled) ==
  walk' = [walk EXCEPT !.got = @ \o results,
                       !.moments = Append(@, moment),
                       !.page = IF goesOn THEN @ + 1 ELSE @,
                       !.misled = misled,
                       !.status = IF goesOn THEN "asking" ELSE "done"]

\* has_more is in the structured answer; the text of a page without results
\* says "No more results" whatever has_more is.
Advance(response) ==
  LET hidden == walk.via = "text" /\ response.results = <<>>
  IN  Turn(response.results, response.moment, response.hasMore /\ ~hidden,
           response.hasMore /\ hidden)

AskingCgr == walk.status = "asking" /\ walk.source # "leyes" /\ validPage(walk.page)

CachedPage == /\ AskingCgr
              /\ \E response \in Cached : /\ pages' = Remember(response)
                                          /\ Advance(response)
              /\ UNCHANGED <<published, opened>>

FetchedPage ==
  LET hits     == HitsOn(walk.source, walk.order, walk.page, published)
      response == SearchResponse(walk.source, walk.order, walk.page, published)
  IN  /\ AskingCgr
      /\ Cached = {}
      /\ ~TooLarge(hits)
      /\ pages' = IF Cacheable(walk.source, hits) THEN Remember(response) ELSE pages
      /\ Advance(response)
      /\ UNCHANGED <<published, opened>>

\* The request fails, or its answer is over 6 MB: nothing is cached.
PageFails == /\ AskingCgr
             /\ Cached = {}
             /\ walk' = [walk EXCEPT !.status = "failed"]
             /\ UNCHANGED <<published, pages, opened>>

LawPageAnswered(wire) ==
  LET ranking == Ranking("leyes", walk.order, published)
      total   == FlexInt(wire, Len(ranking))
      page    == LawPage(ranking, walk.page, walk.size)
  IN  /\ walk.status = "asking"
      /\ walk.source = "leyes"
      /\ Turn([i \in DOMAIN page |-> Summary("leyes", page[i])], Moment("leyes", published),
              walk.page < lawTotalPages(total, walk.size), total # Len(ranking))
      /\ UNCHANGED <<published, pages, opened>>

LawPageFails == /\ walk.status = "asking"
                /\ walk.source = "leyes"
                /\ walk' = [walk EXCEPT !.status = "failed"]
                /\ UNCHANGED <<published, pages, opened>>

-----------------------------------------------------------------------------
(* Opening a listed document as the answer's last line says.               *)

OpenListed(summary) ==
  /\ Idle
  /\ walk.source # "leyes"
  /\ \E name \in NamesToUse(walk.source, summary) :
       \E answer \in Openings(walk.source, name, published) :
         opened' = [source |-> walk.source, doc |-> summary.doc,
                    name |-> name, answer |-> answer]
  /\ UNCHANGED <<published, pages, walk>>

-----------------------------------------------------------------------------

Next == \/ Publish
        \/ Idle /\ \E a \in Asked, p \in PageArg :
             \/ RefuseSearch(a.source, a.order, p)
             \/ \E via \in {"structured", "text"} : StartSearch(a.source, a.order, p, via)
        \/ Idle /\ \E size \in SizeArg, p \in PageArg, order \in {"date", "dateasc"} :
             StartLaws(size, p, order)
        \/ CachedPage
        \/ FetchedPage
        \/ PageFails
        \/ \E wire \in Wire : LawPageAnswered(wire)
        \/ LawPageFails
        \/ \E i \in DOMAIN walk.got : OpenListed(walk.got[i])

Spec == Init /\ [][Next]_vars
-----------------------------------------------------------------------------
(* Properties.                                                             *)

Documents == 1..Len(Docs)

SummaryType == [doc : Documents, dictamenId : Name \cup {NoName},
                nDictamen : Name \cup {NoName}]

\* The shapes of the walk, of what it collected and of the page cache, which
\* holds one entry per key and no more than its capacity (cgr/cache.go:61).
TypeOK == /\ published \in Initially..Len(Docs)
          /\ walk.source \in allowedSources \cup {"leyes"}
          /\ walk.page \in Nat
          /\ walk.status \in {"none", "refused", "asking", "failed", "done"}
          /\ \A i \in DOMAIN walk.got : walk.got[i] \in SummaryType
          /\ \A i \in DOMAIN walk.moments : walk.moments[i] \in 0..published
          /\ Len(pages) <= searchesMax
          /\ \A i, j \in DOMAIN pages : pages[i].key = pages[j].key => i = j

Place(n, ranking) == CHOOSE i \in DOMAIN ranking : ranking[i] = n

\* The services page through that many documents and no more.
Within(n, ranking) == walk.source = "leyes" \/ Place(n, ranking) <= totalCap

Listable(n) == walk.source = "leyes" \/ Kept(walk.source, n)

Rising(moments) == \A i \in 2..Len(moments) : moments[i-1] <= moments[i]

\* A walk that goes on as long as it is told to, from page 1, has been shown
\* every document that matched when it began, although documents published
\* meanwhile push others on to later pages: page numbers, the offset sent to
\* the service, has_more and total_pages fit together (cgr_client.go:299,
\* 580-585; search_laws.go:91-95).  Exceptions: a page taken from the cache
\* that is older than the page before it; an end the answer itself hid
\* (a text of "No more results" over a page of foreign hits, a total that did
\* not arrive); documents past the service's cap.
NothingSkipped ==
  (walk.status = "done" /\ walk.from = 1 /\ ~walk.misled /\ Rising(walk.moments)) =>
    LET final == Ranking(walk.source, walk.order, walk.moments[Len(walk.moments)])
        due   == Ranking(walk.source, walk.order, walk.moments[1])
    IN  \A i \in DOMAIN due : (Listable(due[i]) /\ Within(due[i], final)) =>
          \E j \in DOMAIN walk.got : walk.got[j].doc = due[i]

\* "Segunda pagina sin duplicados" (openspec/specs/cgr-search/spec.md:17): no
\* document is shown twice by a walk over pages of one moment, nor ever by one
\* from the oldest to the newest, cached pages and publications or not
\* (cgr_client.go:171, 299).
NothingTwice ==
  (walk.order = "dateasc" \/ \A i \in DOMAIN walk.moments : walk.moments[i] = walk.moments[1]) =>
    \A i, j \in DOMAIN walk.got : walk.got[i].doc = walk.got[j].doc => i = j

\* Who follows the hint of an answer ("call search_cgr with ... page p+1",
\* search_cgr.go:268) is never refused for the page (cgr_client.go:180).
HintsAccepted == (walk.status = "asking" /\ walk.source # "leyes") => validPage(walk.page)

\* The forms of names that the requirements promise a family's tool takes: those
\* of the pattern it must validate with and of the examples
\* (openspec/specs/cgr-dictamen/spec.md:10 and, for the other families, the
\* specifications of the archived change cgr-full-coverage).
Promised == [dictamenes   |-> {"ENyy", "LNyy", "XNyy"},
             instructivos |-> {"ENyy", "LNyy"},
             contable     |-> {"E", "OFE", "ENyy"},
             auditoria    |-> {"n/yyyy", "ENyy", "LNyy", "XNyy", "num"},
             legislacion  |-> {"RZA"},
             cuentas      |-> {"num", "num7"},
             consolidados |-> {"CIC"}]

\* A document listed by a search of its own kind, which a tool of its kind
\* takes.
OpenedOfOwnKind == /\ opened.doc # 0
                   /\ Docs[opened.doc].source = Tool(opened.source)
                   /\ Kept(Docs[opened.doc].source, opened.doc)

\* Who opens a listed document with the tool and a name that the answer's last
\* line gives is answered with a document of that name, under a name it has;
\* is refused only a name whose form no requirement promises; and where no
\* namesake is published the answer is the document listed, unless it is over
\* its family's size limit.  So patterns of two layers, the fallbacks for
\* missing names, the refusal to decode a set of hits, the first-hit rule and
\* the caches of documents agree, whatever was published since
\* (search_cgr.go:270-288, the get_cgr handlers, cgr_client.go:404-560 and
\* 612-1360).
ListedIsOpened ==
  OpenedOfOwnKind =>
    LET family    == Tool(opened.source)
        answer    == opened.answer
        namesakes == Bearers(family, opened.name, published) \ {opened.doc}
    IN  /\ opened.name \in NamesOf(opened.doc)
        /\ answer.kind = "document" => /\ answer.doc \in Bearers(family, opened.name, published)
                                       /\ answer.id \in NamesOf(answer.doc)
        /\ answer.kind = "refused" => opened.name.form \notin Promised[family]
        /\ namesakes = {} => \/ answer.kind \in {"document", "refused"}
                             \/ /\ answer.kind = "too large"
                                /\ Docs[opened.doc].MB > Readable[family]

\* "si hits.total.value==1, devolver el _source del hit" (cgr-dictamen spec):
\* the document shown is the one that was listed.  The code takes the first
\* hit of any number (cgr_client.go:698), so this does not hold.
ShownIsListed ==
  (OpenedOfOwnKind /\ opened.answer.kind = "document") => opened.answer.doc = opened.doc

=============================================================================
