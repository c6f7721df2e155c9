# Verification of lex-chile-mcp

lex-chile-mcp is an MCP server that gives language models the laws of the
Biblioteca del Congreso Nacional (BCN, LeyChile) and the jurisprudence of the
Contraloría General de la República (CGR).  This directory holds TLA+ models of
its stateful core, the configurations with which TLC checks them, and proofs
that TLAPS checks.  Paths below are relative to `src/`.

- [1. The system](#1-the-system): components, state, operations, interaction, hazards
- [2. Modules](#2-modules): what models what, and how
- [3. Runs](#3-runs): what TLC checks, with which bounds
- [4. Fairness](#4-fairness)
- [5. Proofs](#5-proofs)
- [6. Findings](#6-findings)
- [7. What is not modelled](#7-what-is-not-modelled)
- [8. Plan](#8-plan)

## 1. The system

One Go process serves MCP over stdio or HTTP.  The SDK runs every tool call in
its own goroutine.  A tool handler validates its arguments, makes one call of a
process-wide client, and formats the answer under an output budget.  All shared
state is in the two clients.

| Component | State | Operations | Interacts with |
|---|---|---|---|
| BCN client, norms (`internal/bcn/law_client.go`) | `normaCache` (LRU, 100 entries with ETags), `flights` (singleflight group) | `GetNorma`, `getNormaOnce`, `GetNormaSummary` | called by get_law, find_in_norm, get_law_summary; BCN over HTTP |
| BCN client, histories (same file) | `historyCache` (LRU, 100) | `GetLawHistory` | get_law_history; BCN |
| BCN client, law search (same file), FlexInt | none between calls; the pages of a walk fit together | `Search`, the numbers of its answer | search_laws; BCN |
| LRU caches (`internal/bcn/norma_cache.go`, `internal/cgr/cache.go`) | a map and a linked list under one mutex | `get`, `put` | both clients |
| CGR client (`internal/cgr/cgr_client.go`) | nine LRU caches (100 or 20 entries), one singleflight group | `Search`, `CountJurisprudencia`, seven `Get…` | ten CGR tools; CGR over HTTP |
| Search tools (`internal/tools/search_cgr.go`, `search_laws.go`, the get_cgr handlers) | none between calls; what is listed can be opened | paging, hints, the name each tool accepts | both clients |
| Transport (`newRestyClient` and `retryConditions` of both clients) | resty's circuit breaker, one per resource | retries with backoff, breaker | upstream |
| Pagination (`internal/cgr/pagination.go`, `internal/tools/get_cgr_dictamen.go`) | none between calls; the reader's parts fit together | `Paginate`, the `part` argument | get_cgr_dictamen |
| Norm tree and delivery (`internal/bcn/norm_tree.go`, `internal/tools/get_law.go`, `budget.go`) | none between calls; the reader's answers fit together | flatten, sizes, section, table of contents | get_law, get_law_summary |
| Text search (`internal/bcn/norm_search.go`) | none | find blocks, snippets | find_in_norm |
| Sanitizers (`sanitize.go`, `garbage.go` of both clients), norm types | none | pure functions | both clients |
| Resources, prompts, server configuration | read once at start | load, validate | `main` |
| HTTP process (`cmd/lex-chile-mcp/main.go`) | listener, signal context, shutdown goroutine | serve, shut down, exit | net/http |

What is hard here, and what makes each part correct:

- **BCN norms.**  Concurrent calls for one (norm, date) share one flight; the
  flight revalidates a cached copy with its ETag; get_law_summary reads the
  same cache *without* revalidating; eviction happens at any moment; the leader
  of a flight may fail or be cancelled.  Correct means: one fetch per key, an
  answer of the version date asked for, in force at some moment of the flight,
  and never older than what anybody was given before.  Every waiter is released.
- **BCN histories.**  Calls are *not* coalesced, so answers are stored in any
  order and an older one may overwrite a newer one.  Correct means that the
  clients never notice.
- **LRU caches.**  Map and list must agree, at capacity too; only the least
  recently used key is evicted; a hit returns the last value put.
- **CGR.**  Nothing is revalidated; the cache is read *outside* the flight;
  nine families share one singleflight group; heavy search pages are not stored.
  Correct means: the answer is of the family and id asked for, does not go
  back, and the caches do not disturb each other.
- **Searches.**  A client follows page numbers through pages that were cached
  at different moments, shortened by a filter, counted by a total that arrives in
  five notations; then it opens what it was listed, by a name one layer shows and
  two layers check with patterns of their own, and that other documents may bear.
  Correct means: a walk to the end shows every document that matched when it
  began, none twice, and what is listed opens.
- **Transport.**  All callers of a resource share one circuit breaker, and BCN
  answers 500 for a norm that does not exist.  Correct means: a service that is
  up is reported truly, every call ends, and the breaker closes again.
- **Texts.**  One pass with three flags removes noise from every text; a snippet
  is cut around a match that was found in another encoding of the text.  Correct
  means: nothing but noise goes, and the snippet shows the match.
- **Pagination.**  Every request cuts the document anew, so parts asked for in
  any order, twice or out of range must be pieces of one partition; cuts move
  to paragraph breaks within a margin; the loop must advance for any budget.
- **Norm tree and delivery.**  One answer states sizes, counts and article
  ranges that the reader acts on in the next.  They are computed by separate
  recursions that must agree ("keep in sync"), with depths that count from
  different roots; a table of contents drops sections to fit its bound.  Correct
  means: whoever follows the tables can read everything the budget admits, and a
  content is delivered whole or not at all.
- **HTTP process.**  The signal races the listener, the shutdown goroutine
  races the return of `main`.

`PROJECT.json` lists each hazard at its line with the properties aimed at it.

## 2. Modules

| Module | Models | Uses |
|---|---|---|
| `LruCache` | `etagCache`, `lruCache` | |
| `LruHistory` | `LruCache` with history variables, for its properties | extends `LruCache` |
| `VersionedReads` | abstract: what a reader of the BCN client may rely on | |
| `NormaFetch` | `GetNorma`, `getNormaOnce`, `GetNormaSummary` | `LruCache`; refines `VersionedReads` |
| `HistoryFetch` | `GetLawHistory` | `LruCache`; refines `VersionedReads` |
| `CgrFetch` | the nine operations of the CGR client | `LruCache`, once per family |
| `Subsequences` | what loops that append some of the elements they pass collect | |
| `CgrDocuments` | what a CGR search lists and what the get_cgr tools answer, as functions of what is published | extends `Subsequences` |
| `LawPages` | the paging of search_laws and the numbers LeyChile sends | |
| `SearchWalks` | clients that walk search_cgr and search_laws and open what they find; the cache of search pages | extends `CgrDocuments`, `LawPages` |
| `Transport` | retries and the circuit breaker of one resource | |
| `Sanitize` | the sanitizers of both clients | |
| `NormSnippets` | the match and the snippet of find_in_norm | extends `Sanitize` |
| `Pagination` | `Paginate`, `roundToParagraph`, the handler of get_cgr_dictamen | |
| `TextDelivery` | a text from the service to the reader: sanitized, then in parts or snippets | extends `Pagination`, `NormSnippets` |
| `NormTree` | the norm as a tree: sizes, counts, tables of contents, ranking of matches | |
| `LawDelivery` | get_law, get_law_summary, find_in_norm and their reader | extends `NormTree`, `Subsequences` |
| `HttpServer` | `runHTTP` and `main` around it | |
| `LruCacheProofs`, `NormaFetchProofs`, `HistoryFetchProofs`, `CgrFetchProofs`, `TextDeliveryProofs`, `HttpProofs`, `LawDeliveryProofs`, `SearchWalksProofs` | theorems and proofs | each extends the module it is about (`LruCacheProofs`: `LruHistory`; `HttpProofs`: `HttpServer` and `Transport`) |
| `MC*` | small instances for TLC | |

Operators whose comment begins "A slip" are not the program: each is a
plausible wrong version of the operator that follows it, used to see that a
property notices the difference.

**LruCache.**  `entries` is the Go map together with the values its elements
carry, `order` the keys of the list, front first.  Every method holds the mutex
throughout, so `Get` and `Put` are single actions.  `Put` has the code's three
ways: existing key, room left, eviction of the back.

**NormaFetch.**  One caller is one tool invocation.  `calls[c].pc` is its place
in the handler:

| `pc` | Code | Actions |
|---|---|---|
| `peek` | the look-up of `GetNormaSummary` | `PeekHit`, `PeekMiss` |
| `enter` | before `flights.Do` | `Lead`, `Join` |
| `lookup` | leader: `cache.get` in `getNormaOnce` | `LookupHit`, `LookupMiss` |
| `fetch` | leader: the request is under way | `NotModified` (304), `FullAnswer` (200), `FetchError` |
| `store` | leader: decoding, conversion, then `cache.put` | `Store` |
| `deliver` | leader: the function returned | `Deliver`, which releases the waiters and frees the key, as singleflight does under its lock |
| `wait` | a caller that joined | released by its leader's `Deliver` |
| `return` | the result is known | `ReturnDocument`, `ReturnError` |

Between two steps anything may happen: that is where the code holds no lock.
A document is a pair of the query it answers and a version; the version stands
for ETag and content together, as one response carries both.  `Publish`
replaces the document in force upstream.  `returned`, `base` and `floor` are
history: the newest version given to anyone, the version in force when the
flight began, and `returned` when the call began.  Failure of the leader
(cancelled context, error status, oversized or undecodable body) is
`FetchError`: the flight's error goes to all waiters and nothing is stored.

**HistoryFetch** has the same shape without a group.  **VersionedReads** is the
abstract specification of both: a read that begins may fail, or succeed with
any version from the newest one returned when it began to the one published
when its answer is settled.  The refinement mapping takes a call to a read
under way until its reply is known, then to a settled one.

**CgrFetch.**  `Cache(f)` is an instance of `LruCache` on `entries[f]` and
`order[f]`.  All nine operations have one control flow: `Start` (a validated
request), `PeekHit`/`PeekMiss` outside the flight, `Lead`/`Join`,
`FullAnswer`/`FetchError`, `Store` (or `SkipStore` for heavy search pages),
`Deliver`, `Return`.  `flightKey` stands for the prefixed keys `get:<family>:<id>`,
`search:…` and `count:…`; the fields after the query in a search key have no
`|`, so different requests have different keys.  Requests refused before any
I/O touch nothing and are left out.  What an answer holds is `CgrDocuments`'
subject; here it is a version.

**CgrDocuments.**  A document has up to three names (`_id`, `doc_id`, `numero`).
A name is a `Form` (the classes of strings the patterns of tools and client tell
apart) and a number; any form may occur in any family, and two documents may
bear one name.  `SearchResponse` is the page `searchOnce` makes of the service's
hits: the filter by `_index`, hits that do not decode, the fallback to `doc_id`, the
paging figures, the size limits.  `get_cgr_…` composes a handler's pattern, the
client's pattern, the exact search, the first hit and the name shown.
`NamesToUse` are the names the last line of a search gives for a document: of a
contable its id or its numero.  `Openings` are the answers a client may get:
today's, or one that the family's document cache kept from an earlier moment
(`CgrFetch` has the caches themselves).  External assumptions: the service ranks
newest first (or oldest first for `dateasc`; `score` is treated like `date`); an
exact search finds the documents of the family that bear the name, on one page;
and every document comes with an `_id` or a `doc_id`, a consolidado with a
`numero` (`NamedAssumption`).

**SearchWalks.**  One client; `walk` is its search, `got` what it was shown,
`moments` the newest document at the time each page was computed.  Pages of CGR
come from `pages`, an LRU cache without revalidation, or from the service
(`CachedPage`, `FetchedPage`, `PageFails`); those of LeyChile always from the
service (`LawPageAnswered` with one of five notations of its total).  A client
reads the structured answer, or only the text, whose "No more results" hides
`has_more`.  `OpenListed` calls the tool the text names with one of the names it
gives, answered from the cache or anew.  `Promised` are the forms of names that
the requirements give a tool to validate with, and those of their examples; it
serves the properties only.
Two searches for one key at a time are `CgrFetch`'s subject.

**Transport.**  The callers of one resource: a call is `ready`, `sent`, or
`done` with its answer.  `Answered` counts the outcome in the breaker and
decides on a retry; `Rejected` is the open breaker; `Cancelled` the caller's
context or the call's own deadline.  The breaker is resty's, external: closed,
open, half open, with the thresholds of the embedded contract, whose `validate`
is the assumption on the constants.  A failing service answers with statuses
that are retried or with one that is not, which fails at once (403 stands for
all of those).  Where its documentation leaves room (whether
a request without an answer counts, whether a rejection ends the call or uses
up a try) the model allows both.  `steady` is history: the service was up throughout.

**Sanitize, NormSnippets, TextDelivery.**  A rune stands for its class, an HTML
entity or the opening of a tag the code knows is one rune of a raw text.
`normalize` is the fold of `Step`, the code's loop body, over the text;
`Stripped` says what each of six kinds of text loses before it.  In
`NormSnippets` a letter `é` has two bytes, and indexes into bytes and into runes
are kept apart as in the code.  `TextDelivery` composes them: the document that
`Pagination` cuts is the sanitized one, the sections find_in_norm searches too.
Regular expressions are external, with what they match.

**Pagination.**  A request is `Ask`, then one `Turn` per turn of the loop in
`Paginate`, then `Serve` or `Refuse`.  Offsets count runes from 0 and `part`
from 1, as in the code.  `served` and `refused` record what one reader has been
answered, so that pages of different requests can be compared.  It runs inside
`TextDelivery`.

**NormTree.**  A norm is the pre-order of its sections, each with its depth; the
position of a section stands for its id, in `html` and in `estructura` alike,
because the two trees of an answer have one shape and share ids
(`internal/bcn/law_client.go:320`).  Of names and texts the model keeps the
length in runes and whether the query occurs.  Sizes stay in characters, the
headings' `#` signs included: whether the three computations of a size
(`ContentCharCount`, `subtreeSize`, `renderBlocks`) count the same depth is what
can go wrong.  A table of contents is a set of lines; `maxTOCChars` becomes
`maxTOCLines`, lines of one length.  Articles are labelled by position: labels
are taken to be distinct.  `subtreeSize` is a recursive function.

**LawDelivery.**  `answers`, `found` and `refused` are what one reader has been
told: the code keeps nothing between calls, and what must be right is that the
answers fit together.  `GetLaw` covers the whole norm, a section, and
`structure_only`; `SectionNotFound` an id the norm does not have.  The norm
stays the same while it is read: its fetching is `NormaFetch`'s subject.

**HttpServer.**  The main goroutine (`main`), the shutdown goroutine
(`shutdown`), the socket and the requests (net/http, external).  A request
stands for the connection it arrives on.  `ListenReturns` is enabled as soon as
`Shutdown` was called, as net/http documents; `Exit` ends all goroutines and
cuts what is under way.

## 3. Runs

| Run | Module, configuration | Shows |
|---|---|---|
| `shared_parts` | `MCSharedParts` | cache: map and list agree (`CacheCoherent`); a key is resident exactly while fewer than `cacheMax` others were used after it (`LruGuarantee`); a hit returns the last put (`LatestValue`).  Client: a service that is up is reported truly (`HonestAnswers`); every call ends (`EveryCallEnds`); after an outage the breaker closes for good (`Recovers`).  Process: nothing new is taken on in shutdown (`NoNewWorkInShutdown`), the exit status is right (`ServerExitsCleanly`), a signalled process ends (`SignalEndsProcess`) |
| `norma` | `MCNormaFetch` | `TypeOK`, `SingleFlight`, `RightDocument`, `MonotonicReads`, `Revalidated`, `CacheNeverRegresses`; every begun call is answered (`EveryCallReturns`); `VersionedReads` is implemented (`ImplementsReads`) |
| `history` | `MCHistoryFetch` | `AnswerInForce`; `VersionedReads` is implemented although racing answers are stored in any order |
| `cgr` | `MCCgrFetch` | `RightAnswer`, `ReadsGoForward`, each family's cache is an LRU cache, every call ends |
| `search` | `MCSearchWalks` | a walk that is told to go on to the end shows all that matched when it began (`NothingSkipped`); nothing twice over pages of one moment, or ever in `dateasc` (`NothingTwice`); hints are never refused (`HintsAccepted`); each name given for a listed document opens a document of that name, is refused only in a form no requirement promises, and where no namesake is published opens the document itself (`ListedIsOpened`) |
| `namesake` | `MCSearchWalks`, `MCSearchWalksNamesake.cfg` | violated: another document of the same name is shown (finding 5) |
| `texts` | `MCTextDelivery` | `OnlyNoiseGoes`; `SnippetShowsMatch`; `PartsTile`, `CutsAtParagraph`, `ServedPagesFit`, and every request is answered (`EveryRequestAnswered`) |
| `parts_budget` | `MCTextDelivery`, `MCTextDeliveryBudget.cfg` | violated: a part longer than the budget (finding 4) |
| `snippet` | `MCTextDelivery`, `MCTextDeliveryAccents.cfg` | violated: a snippet without its match (finding 3) |
| `law` | `MCLawDelivery` | sizes, counts and ranges agree between answers (`AnswersAgree`); `DeliveredWhole`; every article is listed or in exactly one range (`ArticlesLocated`); who asks for all it is shown has read all that fits (`NothingLost`); `SearchIsOrdered` |
| `law_recover` | `MCLawDelivery`, `MCLawDeliveryRecover.cfg` | violated: content withheld with nothing else to ask for (finding 2) |
| `http_drain` | `MCHttpServer`, `MCHttpServerDrain.cfg` | violated: requests cut before the deadline (finding 1) |

Bounds, and why they are enough to see what matters:

- `shared_parts`: the cache, the client and the process share no state, so a
  behaviour is of one of them, chosen at the start; the others stand still.
  Cache: five keys, capacity 3, two values: eviction, re-insertion after
  eviction, and refresh of the front, the middle and the back all occur.
  Client: two callers, two retries, thresholds 3 and 2: one call alone can
  open the breaker, two together can open it between one's tries, and one
  success does not close it.  Process: three connections (`http_drain` needs
  one).
- `norma`: two callers are a leader with a waiter, or with a peek or the next
  flight beside it; one norm under two dates is two keys for a cache of one, so
  each key is evicted by the other; two versions are an older and a newer one.
  There is no symmetry, because the run checks temporal properties.  That more
  callers add nothing to the safety properties and the refinement is not left to
  the bound: they are proved for every set of callers (section 5).
- `history`: two callers and three versions, so that the older of two racing
  answers can be stored last and a third version follow; two norms for a
  cache of one.
- `cgr`: two families that share an id (what the prefixes must tell apart), two
  ids for a cache of one, two callers (one that missed early and one whose
  flight stores meanwhile), a page whose second version is heavy.
- `search`: pages of two, three pages at most and a reported total of at most six
  (`maxPage`, `pageSize`, `totalCap`: their ratio is the program's), a cache of two
  pages, every source, each default, unknown sources and orders, page sizes
  below, within and above the range.  Of sixteen documents some have a foreign
  index, no `_id`, no number, a body that does not decode, more megabytes
  than their family's tool reads, or a name of another document; three more are
  published meanwhile: a contable with the numero of a listed one and an id that
  only the client's pattern takes, a dictamen and a norm.  Walks begin at page 1, or
  are refused.  The table of documents is the definition `Published`, to which
  `MCDocs` refers, so that TLC computes it once.  `namesake` asks for contables
  only.
- `texts`: every document of up to eight runes that sanitizing leaves alone,
  with the budgets 0, 1, 2 and 4, a margin of 3, the shared budget 3 and the
  arguments −1 to 3: cuts at, before and beyond a break, breaks across the
  margin's edge, overlapping breaks and documents that end in one all occur.
  Every raw text of up to four runes over the alphabet of its kind (six for
  the controls and line breaks whose runs `normalize` counts).  Every section of
  up to seven runes of newline, letter and query letter, and two-piece ones, with
  a window of 1 before, 2 after, a margin of 2 and a cap of 6, so that window,
  margin and cap each decide in some text, and a query longer than the cap leaves
  room for.  `snippet` needs three runes, `parts_budget` a document of seven with a
  budget of 4 and a margin of 2.
- `law`: every norm of up to three sections of four kinds (a title, an article, an
  article over the budget, a title the query names), and every norm of four titles
  and articles.  One listed child and two lines make each of the three kinds
  of table (folded, compact, top lines) occur, alone and nested; a budget of 30
  characters separates norms whose parts fit from parts that do not; two
  results cut the list of matches.  `MaxMaps` bounds the answers without
  content, `find_in_norm` is asked once: answers are sets, so a repeated
  call adds nothing.
- `maxVersion` bounds `Publish`; the number of calls is not bounded.

Deadlock is checked in every run but those of the HTTP process (and so
`shared_parts`), which ends; of the reader of a norm, who may have asked everything; of search walks, whose
client may stop; and of texts that are only sanitized.

Each component keeps a `TypeOK`; only that of `NormaFetch` is a run's, being
part of an inductive invariant.

## 4. Fairness

- `NormaFetch`, `CgrFetch`: weak fairness on each caller's own steps
  (`Progress`).  Goroutines run; a request ends because every resource has a
  timeout (`SetTimeout`, `timeoutForSource`), which turns silence into
  `FetchError`.  `Publish` and `Start` are not fair: nobody has to publish or ask.
- `TextDelivery`: the handler of get_cgr_dictamen runs to its end once asked.
- `Transport`: weak fairness on `Reset` (the breaker's timer runs) and on each
  caller's own steps (a request times out, `SetTimeout` and `timeoutForSource`,
  and the backoff ends); strong fairness on each caller's `Send` and `Answered`,
  which says that not every request is cancelled before it is sent or answered:
  cancelling is possible at any moment, and without this a breaker would never
  see a probe.  Nobody has to call; the service need not recover.  `Recovers` is
  about behaviours in which it does, for good, and someone keeps calling.
- `SearchWalks` has no liveness property: nobody has to follow a walk.
- `HttpServer`: the main goroutine and the shutdown goroutine run when they can.
  Requests are *not* assumed to end, and the signal is not assumed to come.

## 5. Proofs

Every theorem holds for all values of the constants that satisfy the named
assumptions: capacities, thresholds and version bounds that are positive, `None`
outside the callers and documents, budgets and margins that are naturals, norms
that are non-empty pre-orders.  TLC evaluates each assumption on the instance of
the runs.  Every inductive invariant was model-checked before it was proved.
All sets of callers, keys, documents and requests are arbitrary; so are the
lengths of documents and the shapes of norms.

Induction over data is done with first-order means only: by a least or a
greatest natural, or a smallest set, that would be a counterexample
(`WFMin`, `FS_…`).  No theorem of the library that takes an operator is used.

| Module | Theorem | States, for every value of the constants |
|---|---|---|
| `LruCacheProofs` | `CacheTypeCorrect`, `CacheStaysCoherent` | map and list agree, within the capacity |
| | `CacheEvictsLeastRecent` (`LruGuarantee`), `CacheReturnsLatest` (`LatestValue`) | what is evicted, what a hit returns |
| `NormaFetchProofs` | `OneFlightPerKey`, `AnswersMatchQueries`, `ReadsNeverGoBack`, `AnswersWereInForce`, `CacheGoesForward`, `NormaTypeCorrect` | the safety of norm fetching |
| | `NormaRefinesReads` (`ImplementsReads`) | it refines `VersionedReads` |
| `HistoryFetchProofs` | `HistoriesWereInForce`, `HistoryCacheCoherent`, `HistoryTypeCorrect`, `HistoryRefinesReads` | the same of histories |
| `CgrFetchProofs` | `CgrAnswersMatchQueries`, `CgrReadsNeverGoBack`, `CgrCachesAreLru`, `CgrTypeCorrect` | the safety of CGR's nine operations |
| `TextDeliveryProofs` | `PartsAlwaysTile`, `PartsAlwaysBounded`, `AlwaysCutAtParagraph`, `ServedPagesAlwaysFit`, `PaginationTypeCorrect` | what `Paginate` and the pages served promise |
| | `TextsPaginate`, `DictamenDelivered` | the same of dictámenes as delivered, sanitized |
| | `SnippetsShowMatches` (`SnippetShowsMatch`), `TextTypeCorrect` | what a snippet of find_in_norm shows |
| | `OnlyNoiseEverGoes` (`OnlyNoiseGoes`) | what sanitizing takes from a text, and what it leaves |
| `SearchWalksProofs` | `WalksSkipNothing` (`NothingSkipped`), `WalksShowNothingTwice` (`NothingTwice`), `WalksAreNotRefused` (`HintsAccepted`), `ListedIsAlwaysOpened` (`ListedIsOpened`), `WalksTypeCorrect` | what a walk over pages of many moments shows |
| `HttpProofs` | `AnswersAlwaysHonest` (`HonestAnswers`), `TransportTypeCorrect` | what a call is told |
| | `ShutdownTakesNoWork`, `AlwaysExitsCleanly`, `HttpTypeCorrect` | shutdown and exit |
| `LawDeliveryProofs` | `AnswersAlwaysAgree`, `AlwaysDeliveredWhole`, `ArticlesAlwaysLocated`, `NothingEverLost`, `SearchAlwaysOrdered`, `LawTypeCorrect` | what a reader may make of many answers |
| | `SizesAgree` | `subtreeSize` = `ContentCharCount`, for every norm |

**LruCacheProofs.**  The inductive invariant `CacheInv` is `CacheTypeOK` and
`CacheCoherent` together: neither is inductive alone.  Eviction is the case that
needs both.  `Full` compares the size of the *map*, and evicts the back of the
*list*: that the list has a back, and that dropping it makes room, follows from
`MembersCardinality` (a list without repetitions is as long as its member set
is large).  `HistoryInv` adds what the history variables say: that the keys used
since a resident key was last used are exactly those before it in the list
(`Recency`), and that at least `cacheMax` others were used since an evicted one
was (`Forgotten`).  `LruGuarantee` is both of them, and no invariant without
them: a key stays resident *because* of where it is in the list.

**NormaFetchProofs.**  The properties of `NormaFetch` are not inductive: that
an answer is no older than the call's floor depends on what is cached, on what
the flights under way carry and on who may write.  The inductive invariant
`IInv` says in nine named parts how they are ordered:

- `Typed`, `Phases`, `Labels`: types; which phase holds a reply or a cached
  copy; every copy carries the query of its key (`KeyInjective`: the key tells
  queries apart);
- `Flights`: the group and the callers agree on who leads, and a waiter's
  leader is the one in the group, with the same base;
- `CacheBounds`: returned ≤ cached ≤ published for every resident document;
- `Fetching`: while a flight waits for BCN nobody else puts its key, so the
  copy read before the request is still the cached one;
- `LandingNewest`: what a flight is about to store or deliver is at least as
  new as everything returned, about to be returned, and cached;
- `LeavingBounds`: what is about to be returned lies between the call's floor
  and base below, and the cached copy and the published version above;
- `CallBounds`: floors and bases lie in the past.

One lemma per action proves that it preserves `IInv`, one step per part;
effect lemmas (`StartEffect`, `DeliverEffect`, …) say once what a step makes of
the callers' records.  `NormaRefinesReads` proves the refinement of
`VersionedReads`: publishing, beginning and returning map to their namesakes,
`PeekHit` and `Deliver` settle reads (`LeavingBounds` after the step gives the
version its bounds), all other steps are stutters.  `NormaTypeCorrect` takes
the recency list's type from `LruCacheProofs`: every step uses the cache
through get and put alone.

**HistoryFetchProofs.**  Nothing relates one call to another: an older history may
overwrite a newer one, so `CacheBounds` only says that nothing is newer than what
is published.  What makes the answers right is said of each call by itself
(`Phase`, `Bounds`): the reply of a call is at least as new as its `base`, the
version in force when it began, because it is revalidated or fetched
during the call.  The refinement follows from it, each call being one read.

**CgrFetchProofs.**  Here nothing is revalidated, and the peek comes before the
flight.  That reads go forward rests on two parts of `IInv`: what is cached of
a light answer is as new as all that has been, *or is about to be*, returned of
it (`CachedNewest`), and so is what a flight carries, which by the time it is
delivered is also what is cached (`CarriedNewest`).  Between them no second
flight for the key can store: `Flights`.  `RightAnswer` is proved with
`CopiesLabelled` and `RepliesLabelled` and needs `Flights` as well: a waiter's
leader has the waiter's family and id.  `CgrCachesAreLru` says that each
family's cache takes the steps of `LruCache` and of nothing else.  A theorem of
an instance with a parameter cannot be cited, so that each of these caches is
coherent follows from `CacheStaysCoherent` by instantiation on paper only.

**TextDeliveryProofs.**  The run of the loop is compared with what it computes: a
`Pagination` is any sequence of parts that begins at 0, ends every part where
the code cuts after its start, and ends with the document.  There is at most one,
and `IInv` says that the parts so far begin it (`Begun`), that all pages ever
served are its parts and all refused numbers outside it (`Served`), and that it
exists once something was served.  That every turn advances, so that the parts
tile, is arithmetic of `CutAfter`: a cut is beyond its start for any budget and
margin, breaks or none.  `TextsPaginate` shows that the delivery of texts takes
no other steps; the theorems thus hold of sanitized texts whatever sanitizing
does.  `PartsAlwaysBounded` bounds the disagreement of finding 4: a part exceeds
its budget by the margin at most.

`SnippetShowsMatch` is about one call, and the argument is about one window.  As
far as the runes have one byte, the match found in bytes is the match in runes
(`BytesAre`).  Then the window begins before the match and at most the window and
the margin before it, at a paragraph break if it moved, and ends after it
(`WindowEdges`); so only the hard cap can cut the match, and what it leaves of it
is `room` runes (`Capped`); a paragraph that fits in window and room lies between the
two edges (`ShowsParagraph`).  The last trim takes nothing of the match, because a
query was trimmed itself (`TrimmedInside`).  What the recursive functions of
`Sanitize` compute is had from their unfolding (`Unfolds`): one exists
(`UnfoldingExists`, by a least place where it would fail), so the definition is
one, and it keeps what each step keeps (`InductionUpTo`).  The attempt to prove the
property as it was first stated failed at the hard cap: nothing bounds the length of
a query, the code's 600 runes may end inside the match, and the instance had only
queries too short for it to happen.  The property now says what is shown then,
and the run has such a query.

`OnlyNoiseGoes` rests on an invariant of `normalize`'s single pass.  Beside what
was gathered it keeps, for the runes read and for those gathered, the places of
the runes that are neither space, newline nor noise (`Solids`): both enumerate
the same runes, and between two neighbours there is the same kind of gap, a word,
a line, a paragraph or none (`Reads`).  What the flags `pendingSpace`,
`atLineStart` and the count `newlineRun` stand for is the gap the pass is in
(`Standing`): without it `Reads` would not be inductive, since the gap is written
only when the next rune is kept.  A gap depends on its newlines and on nothing
else if it has any, so that the pass may drop spaces around them and the third
and later ones.  `Neat` says of what is gathered that it is tidy but for
newlines at its ends, which `TrimSpace` takes (`NormalizeIsTidy`).  The pass copies a
tidy text (`Copied`), hence the second sanitizing changes nothing.  For tags:
`ReplaceAllString` leaves the runes at places no match covers (`Picks`), so no tag that
closes is left (`TagFree`: each `<` is followed by `>` at once, or by none), and
since normalizing neither moves a rune nor brings two together that had a gap, it
brings none about.  The assumption on texts names the six sanitizers the code has.

**HttpProofs.**  As a client: calls depend on one another through the breaker
alone, so `IInv` is about each call by itself (`Sound`): a call under way that
has seen no outage sees none now (`Steady`), so no 500 it is answered is an
outage's; tries are left when it is about to send (`Underway`).  The breaker's
counters stay below their thresholds because it changes its state when they are
reached.  As a server: `ServerExitsCleanly` is inductive with three facts about
who is where: the socket is open only between `Listen` and `Shutdown`
(`SocketOpen`), a process that never served has taken on nothing
(`NeverServed`), and there is a status when the process has ended, and not
before (`StatusAtEnd`).

**SearchWalksProofs.**  `IInv` says of the page cache that each answer in it is
`Faithful`: it shows the page of its key as the service had it at the answer's
moment, and tells rightly whether there is a next one.  Of the walk it says that
every result was on one of the pages shown, at the moment of that page (`Traced`);
that no page shown leaves out what was on it (`Complete`); which page it asks for
next (`Asking`); and that its end, unless it was misled, covers the total reported
(`Ended`).  Pages are compared by *places*: a document's place in a ranking is one
more than the number of documents ahead of it, so that it does not depend on the
moment when the oldest come first and only moves back when the newest do
(`PlacesOnlyMoveBack`), and the pages of a walk are disjoint intervals of
places (`PagesApart`).  A document shown twice would have two places.  A
document due at the first moment has, on the first page whose end it does not
exceed, a place on that page: before, it was beyond the page before, and it
did not move forward (`Caught`).  That there is such a page is `Ended`; that
page `maxPage + 1` is never hinted at follows from the assumption that
`maxPage` pages hold `totalCap` documents.  Pages may come from cache and
service in any mixture.  For `ListedIsOpened`, `Traced` and `Faithful` also say
that a result is the summary of a published document.  Nothing is assumed of the
forms of names or of who shares them: `NamedAssumption` says that a document has
one, so that what an answer gives to use is a name of the document
(`UsedIsName`).  An exact search then finds documents that bear it
(`HitsBear`), and the document alone where it has no namesake, which weighs what
the document weighs (`WeightOfOne`) and decodes; the first of them is shown under a
name it bears (`FirstHitAnswers`, `ShownAnswers`).  What is refused is compared
with `Promised` tool by tool (`PlainTools`, `CheckingTools`).  An answer that was
cached was such an answer at an earlier moment, and a name is borne by no fewer
documents later (`BearersGrow`): where no namesake is published now, none was
then (`OpeningOpens`).

**LawDeliveryProofs.**  The code keeps nothing between calls; `IInv` says of each
answer by itself what it declares and contains (`Faithful`), and the work is to
show that answers so computed fit together, for every norm.  A norm determines
by its depths alone what is inside a section: a section's scope is the
interval up to the next section that is not deeper (`InsideByDepth`), made of
the section and its children's scopes (`InsideByChildren`).  From
it follow: the size summed along children equals the length of the text rendered section by section (`SizesAgree`,
what the code's comments ask to keep in sync by hand); each of the three plans of a table of
contents shows, for every section in scope, itself or one it is inside; an
article that is not listed is in the range of exactly one line; and a section
over the budget, by descent to its children, is either read in parts or is itself
a text over the budget, so a reader that asks for all it is shown loses
nothing else.

Only model-checked: liveness, which needs fairness and ENABLED, out of the
prover's reach (`EveryCallReturns`, `EveryCallEnds`, `Recovers`,
`EveryRequestAnswered`, `SignalEndsProcess`).

## 6. Findings

1. `cmd/lex-chile-mcp/main.go:146`: the process does not drain.
   `ListenAndServe` returns as soon as `Shutdown` is *called*; `main` then
   returns without waiting for the goroutine that drains, and requests under
   way are cut at once.
2. `internal/tools/get_law.go:302`: a section without sections in it that exceeds
   the budget cannot be read at all.  get_law withholds it and refers to "ids
   and sizes listed above", of which there are none; the output-budget
   specification promises the identifiers needed in the same response.
   `NothingLost` is what holds instead: such sections are the only loss.
3. `internal/bcn/norm_search.go:158`: `snippetAround` takes the *byte* index of the
   match for a *rune* index.  Each accented letter before the match moves the
   window one rune too far: after some seventy of them the snippet need not
   contain the match, and where the index is larger still `runes[i-1]` (line 191)
   is out of range, a panic.  `SnippetShowsMatch` is what holds: the snippet is
   right where the text up to the match is unaccented.
4. `internal/cgr/pagination.go:75`: cuts move *forward* to a paragraph break, so a
   part may exceed the budget by up to the margin, where the comment at line 31,
   `openspec/specs/output-budget/spec.md:86` and `openspec/specs/cgr-dictamen/spec.md:19`
   promise at most the budget, and line 100 of the former a page "slightly under"
   it.  The theorem `PartsAlwaysBounded` says by how much.
5. `internal/cgr/cgr_client.go:698`: the Get methods take the first hit of any number,
   where `openspec/specs/cgr-dictamen/spec.md:14` (and the specifications of the other
   families in the archived change cgr-full-coverage) return a hit if there is
   exactly one.  Of two documents that bear one name, the one shown need not be the
   one listed; the requirement would have shown neither.  `ListedIsOpened` is what
   holds: the document has the name asked for, and is the one listed if no other has
   that name.  Whether the service has two documents of one name is not known here.

Seen while modelling, without a run of their own:

- `internal/bcn/norm_search.go:174`: no query is too long for `find_in_norm`, and
  the hard cap is measured from the window's start: of a match of more than 380
  runes the snippet may show the beginning alone.
- `internal/cgr/cgr_client.go:634`: the cache is not looked up again inside the
  flight, so calls that miss together may post more than one request, which the
  coalescing test (`cgr_client_test.go:231`) expects not to happen.
- The text of a page whose hits were all of a foreign index says "No more
  results" although `has_more` is true (`internal/tools/search_cgr.go:202`);
  `NothingSkipped` excepts such walks, and those of a LeyChile total that
  arrives as null or empty.
- The text of a `web` or `todos` search names get_cgr_dictamen for entries of
  any kind; `ListedIsOpened` is about entries of the kind the tool opens.
- A document over its family's limit is listed and cannot be opened: search
  answers may have 6 MB, those of contable, consolidado and cuenta 2 MB.
- `Get…` fails when any hit does not decode, the wanted one or not.
- The pattern of get_cgr_contable (`internal/tools/get_cgr_contable.go:36`) is narrower
  than the client's: a contable named like OF80660N26 is listed and refused by the
  tool that the list names, although its description takes ids "from search
  results".  No requirement gives contables such a name, so `ListedIsOpened` lets it
  be refused.
- The archived specification of get_cgr_instructivo gives two patterns (lines 17
  and 33); the code has the narrower one.
- URLs of contable and legislacion are built from `_id` although the id falls
  back to `doc_id` when `_id` is empty.
- BCN's 500 for a missing norm is retried and counts as a failure: with two
  retries and a threshold of five (`internal/config/api.resources.yaml`) two lookups of
  missing norms have every norm refused for thirty seconds.
  `openspec/specs/leychile-search/spec.md:183` wants that of repeated failures, and
  line 124 wants a missing norm to be answered as such (`HonestAnswers` is about calls that get an answer, `Recovers` excepts lookups of
  missing norms).  A service that fails with 500 throughout makes get_law say "does
  not exist" of norms that do (`HonestAnswers` is about a service that is up).
- Sanitizers: a dropped control character or zero-width space joins the words
  beside it; where entities are decoded before tags are stripped, text between
  an escaped `<` and `>` goes with the tags; entities escaped twice stay escaped
  once; lines of a single tab keep blank lines apart.  `bcn/garbage.go:24` says
  carriage returns are kept, which `bcn/sanitize.go:84` rightly denies.

## 7. What is not modelled

- The shapes of JSON bodies, HTML conversion, descriptive fields, URLs, headers
  and the wording of answers.  Lines of tables of contents have one length in
  the model; the last resort, top lines only, is not bounded by `maxTOCChars`,
  in the code as in the model.
- Time as durations: a timeout is an error that may come at any moment.  So the
  HTTP server's `WriteTimeout` of 30 s against three requests of 15 s each is not
  compared.
- In `NormaFetch`, `HistoryFetch` and `CgrFetch` one upstream answer stands for
  all attempts of one request; `Transport` has the attempts.
- Lower-casing that changes a letter's width in bytes; letters of three bytes and
  more.  Finding 3 does not need them.
- The norm type table, parsing of the configuration, prompts, schemas, the
  bearer-token middleware, stdio: static, or read once at start, with no later
  state.  `truncateWithNotice` is never called.
- Client mocks: test doubles.
- Labels of articles that repeat: `ArticlesLocated` is about labels that are
  distinct and in order, as in a law; a fixture (`internal/tools/budget_test.go:388-422`)
  repeats them under each of its titles, where a range tells a reader less.
- Bodies of sections that contain others.  `NothingLost` counts the texts of sections
  that contain none: get_law leaves the other bodies out because they repeat the
  name (`internal/tools/get_law.go:171`).  `IsNorm` assumes it of the query's matches,
  too; a fixture (`internal/tools/get_law_test.go:46`) has such a body with a text
  of its own, which no answer would show.
- An exact search with more hits than a page: the Get methods ask for one page, and
  `ExactHits` is all of it.
- Heavy CGR search pages are excepted from `ReadsGoForward`: such a page is
  returned without being stored, and an older page stays cached.

## 8. Plan

Done: every component with state or control of its own is modelled, in the order
`LruCache`, `NormaFetch` with its proofs, `HistoryFetch` and `VersionedReads`,
`Pagination`, `HttpServer`, `CgrFetch`, `NormTree`, `LawDelivery`, `SearchWalks`
with its two functional modules, `Transport`, `TextDelivery` with `Sanitize` and
`NormSnippets`.

Proved: every safety property the passing runs check; both refinements (section 5).

What is left to model: the parts listed in section 7 that keep state only at
start (resource configuration, the construction of the server).
