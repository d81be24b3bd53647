---------------------------- MODULE PortalFetch ----------------------------
(***************************************************************************)
(* What one call of a portal connector fetches: the keywords it searches,  *)
(* the request each kind of connector makes, the pages it follows, the     *)
(* rows it keeps and what it caches.  Connector models the breaker and the *)
(* token bucket around it; here they only refuse a call.                   *)
(*                                                                         *)
(* The upstream service is external: it holds a catalogue that changes     *)
(* between the requests for two pages, answers in the shape of its own API *)
(* and announces further pages in one of several styles.                   *)
(***************************************************************************)
EXTENDS Naturals, Sequences, FiniteSets

CONSTANTS Rows,       \* opportunities the service may list
          Linked,     \* rows with a link of their own
          Titled,     \* rows with a title
          WordsOf,    \* WordsOf[r]: search words in the text of row r
          WordOrder,  \* the search words in sorted order
          Groups,     \* keyword_category_mappings, in their order
          Asked,      \* keyword sets that callers ask for
          Setups,     \* kinds and configurations of connectors
          Catalogs,   \* catalogues the service starts with
          PageSize,   \* the connector's page_size
          ServerPage, \* rows in a page of a service that is not told a size
          TermLimit,  \* terms an NGO search is made for
          Retries,    \* max_retries
          MaxChanges, \* bound: rows listed or withdrawn during the behaviour
          MaxFetches  \* bound: calls

Words == {WordOrder[i] : i \in DOMAIN WordOrder}
Kinds == {"grants", "csr", "ngo", "foundation", "crowd", "plugin"}
Styles == {"next_page", "total_pages", "has_more", "length"}

\* sync: fetch_result, not fetch_result_async.  client: an HTTP client was
\* given to the connector.  live: its transport is http.  key: its credential
\* resolves.  sized: the service gives pages of the size it is asked for.
SetupType == [kind : Kinds, sync : BOOLEAN, client : BOOLEAN, live : BOOLEAN,
              key : BOOLEAN, style : Styles, sized : BOOLEAN]

ASSUME FetchAssumption ==
  /\ Linked \subseteq Rows /\ Titled \subseteq Rows
  /\ WordOrder \in Seq(Words) /\ WordsOf \in [Rows -> SUBSET Words]
  /\ Groups \in Seq(SUBSET Words) /\ Asked \subseteq SUBSET Words
  /\ Setups \subseteq SetupType /\ Catalogs \subseteq Seq(Rows)
  /\ \A c \in Catalogs : \A i, j \in DOMAIN c : c[i] = c[j] => i = j
  /\ PageSize \in Nat \ {0} /\ ServerPage \in Nat \ {0}
  /\ TermLimit \in Nat \ {0} /\ Retries \in Nat
  /\ MaxChanges \in Nat /\ MaxFetches \in Nat
  /\ "common" \notin Rows /\ "any" \notin Words /\ "demo" \notin Rows

VARIABLES setup,    \* the connector, fixed
          catalog,  \* the rows the service lists, in order
          fetch,    \* the local state of the call
          results,  \* results kept, by what they answer
          returned, \* the latest result returned
          changes, fetches

fetchVars == <<setup, catalog, fetch, results, returned, changes, fetches>>

Copies == [row : Rows \cup {"demo"}, term : Nat, page : Nat]
Results == [status : {"none", "demo", "remote", "degraded"},
            words : SUBSET Words, copies : SUBSET Copies,
            held : SUBSET Rows, clean : BOOLEAN]
NoResult == [status |-> "none", words |-> {}, copies |-> {}, held |-> {},
             clean |-> TRUE]
\* held (ghost): rows listed since the call began.  clean (ghost): no row was
\* withdrawn and no reply was other than a page since then.
Fetches == [pc : {"idle", "calling", "backoff"}, words : SUBSET Words,
            term : Nat \ {0}, page : Nat \ {0}, attempt : Nat \ {0},
            copies : SUBSET Copies, held : SUBSET Rows, clean : BOOLEAN]
NoFetch == [pc |-> "idle", words |-> {}, term |-> 1, page |-> 1,
            attempt |-> 1, copies |-> {}, held |-> {}, clean |-> TRUE]

FetchTypeOK ==
  /\ setup \in Setups
  /\ catalog \in Seq(Rows)
  /\ fetch \in Fetches
  /\ results \subseteq Results
  /\ returned \in Results
  /\ changes \in 0..MaxChanges /\ fetches \in 0..MaxFetches

FetchInit ==
  /\ setup \in Setups
  /\ catalog \in Catalogs
  /\ fetch = NoFetch
  /\ results = {}
  /\ returned = NoResult
  /\ changes = 0 /\ fetches = 0

Listed(s) == {s[i] : i \in DOMAIN s}

-----------------------------------------------------------------------------
\* Keywords.

\* _expand_keywords: groups are looked at once, in order, so that a group is
\* added also for a word that an earlier group brought in.
Expand(asked) ==
  LET grown[i \in 0..Len(Groups)] ==
        IF i = 0 THEN asked
        ELSE IF grown[i - 1] \cap Groups[i] # {}
          THEN grown[i - 1] \cup Groups[i] ELSE grown[i - 1]
  IN grown[Len(Groups)]

\* How many of the places S are at i or before it.
Rank(S, i) == Cardinality({j \in S : j <= i})

\* The terms an NGO search is made for, one after the other: the first of the
\* words, sorted.
Terms(words) ==
  LET places == {i \in DOMAIN WordOrder : WordOrder[i] \in words}
      n == Cardinality(places)
  IN
  IF words = {} THEN <<"any">>
  ELSE [k \in 1..(IF n < TermLimit THEN n ELSE TermLimit) |->
          WordOrder[CHOOSE i \in places : Rank(places, i) = k]]

-----------------------------------------------------------------------------
\* The searches.  from: the names under which rows are looked for in a reply;
\* kept: the rows a record is made of; paging: how further pages are known;
\* sized: page_size is sent; unique: a portal_url is kept once; retried: the
\* request goes through the retry loop; keyed: it needs a credential; tagged:
\* the keywords are put into each record.
GrantsSearch ==
  [from |-> {"oppHits"}, kept |-> Rows, paging |-> "none", sized |-> TRUE,
   unique |-> FALSE, retried |-> FALSE, keyed |-> FALSE, tagged |-> TRUE]

CsrSearch ==
  [from |-> {"results", "items", "data"}, kept |-> Rows, paging |-> "none",
   sized |-> TRUE, unique |-> FALSE, retried |-> FALSE, keyed |-> TRUE,
   tagged |-> TRUE]

NgoSearch ==
  [from |-> {"organizations"}, kept |-> Rows, paging |-> "totals",
   sized |-> FALSE, unique |-> TRUE, retried |-> TRUE, keyed |-> FALSE,
   tagged |-> TRUE]

FoundationSearch ==
  [from |-> {"opportunities", "results", "items"}, kept |-> Rows,
   paging |-> "parsed", sized |-> FALSE, unique |-> TRUE, retried |-> TRUE,
   keyed |-> TRUE, tagged |-> TRUE]

CrowdSearch ==
  [from |-> {"opportunities", "projects"}, kept |-> Titled, paging |-> "none",
   sized |-> TRUE, unique |-> FALSE, retried |-> TRUE, keyed |-> FALSE,
   tagged |-> FALSE]

\* The search of _BasePortalConnector.  The asynchronous one without a client
\* resolves the credential that the connector names.
BaseSearch(s) ==
  [from |-> {"opportunities", "results", "items"}, kept |-> Rows,
   paging |-> "parsed", sized |-> TRUE, unique |-> FALSE, retried |-> TRUE,
   keyed |-> s.kind \in {"grants", "csr"} /\ ~s.sync /\ ~s.client,
   tagged |-> FALSE]

\* A connector's own search where it has one for the mode of the call.
Search(s) ==
  CASE s.kind = "ngo" -> NgoSearch
    [] s.kind = "foundation" -> FoundationSearch
    [] s.kind = "grants" /\ s.sync /\ ~s.client -> GrantsSearch
    [] s.kind = "csr" /\ s.sync /\ ~s.client -> CsrSearch
    [] s.kind = "crowd" /\ s.sync -> CrowdSearch
    [] OTHER -> BaseSearch(s)

\* External: where the service puts its rows.  A given client answers in a
\* shape that its connector reads.
Shape(s) ==
  IF s.client /\ s.kind # "ngo" THEN "opportunities"
  ELSE CASE s.kind = "ngo" -> "organizations"
         [] s.kind = "grants" -> "oppHits"
         [] s.kind \in {"csr", "foundation"} -> "results"
         [] s.kind = "crowd" -> "projects"
         [] s.kind = "plugin" -> "opportunities"

Understood(s) == Shape(s) \in Search(s).from

\* External: the places of the rows found.  An NGO search is for one term at a
\* time.
Found(s, words, term) ==
  {i \in DOMAIN catalog :
     s.kind = "ngo" /\ words # {} => Terms(words)[term] \in WordsOf[catalog[i]]}

\* External: the size of a page, and the page.
Size(s) == IF Search(s).sized /\ s.sized THEN PageSize ELSE ServerPage

PageOf(found, size, page) ==
  {i \in found : (page - 1) * size < Rank(found, i) /\ Rank(found, i) <= page * size}

-----------------------------------------------------------------------------
\* Further pages, after one with so many rows: the number of the next, or 0.

NextPageRepeated(s, rows, total, page) ==
  IF page * Size(s) < total \/ rows >= PageSize THEN page ELSE 0

\* _parse_remote_page: as the reply tells, or else by the length of the page.
NextPage(s, rows, total, page) ==
  LET more == page * Size(s) < total
      told == \/ s.style \in {"total_pages", "has_more"}
              \/ s.style = "next_page" /\ more
  IN
  IF (told /\ more) \/ (~told /\ rows >= PageSize) THEN page + 1 ELSE 0

\* The NGO search goes by total_results and per_page; without a total it ends.
NextNgoPage(s, rows, total, page) ==
  IF /\ rows # 0 /\ s.style # "length"
     /\ page * ServerPage < total THEN page + 1 ELSE 0

Following(s, rows, total, page) ==
  CASE Search(s).paging = "parsed" -> NextPage(s, rows, total, page)
    [] Search(s).paging = "totals" -> NextNgoPage(s, rows, total, page)
    [] OTHER -> 0

-----------------------------------------------------------------------------
\* Records kept.

\* The portal_url of the record made of a row: the address of the service when
\* the row has no link of its own.
Link(r) == IF r \in Linked THEN r ELSE "common"

Copy(place) ==
  [row |-> catalog[place], term |-> fetch.term, page |-> fetch.page]

\* The records made of a page's rows, one for each.
CopiesOf(page) == {Copy(i) : i \in page}

UnseenOnPage(copies, page) ==
  {Copy(i) : i \in {k \in page :
     \A j \in page : j < k => Link(catalog[j]) # Link(catalog[k])}}

\* seen_urls, kept over pages and terms.
Unseen(copies, page) ==
  {Copy(i) : i \in {k \in page :
     /\ \A c \in copies : Link(c.row) # Link(catalog[k])
     /\ \A j \in page : j < k => Link(catalog[j]) # Link(catalog[k])}}

Kept(s, copies, page) ==
  IF Search(s).unique THEN Unseen(copies, page)
  ELSE {c \in CopiesOf(page) : c.row \in Search(s).kept}

\* _filter_opportunities looks for the keywords in the record's text.
PassesFilter(s, words, r) ==
  words = {} \/ Search(s).tagged \/ WordsOf[r] \cap words # {}

-----------------------------------------------------------------------------
\* The end of a call.

Return(status, words, copies, clean) ==
  LET result == [status |-> status, words |-> words, copies |-> copies,
                 held |-> fetch.held, clean |-> clean]
  IN
  /\ fetch' = NoFetch
  /\ returned' = result
  /\ results' = IF status = "degraded" THEN results
                ELSE {c \in results : c.words # words} \cup {result}

\* fetch_result and fetch_result_async filter and cache what was fetched.
Finish(copies, clean) ==
  LET passing == {c \in copies : PassesFilter(setup, fetch.words, c.row)} IN
  Return("remote", fetch.words, passing, clean)

\* _build_degraded_result
BuildDegraded(words) == Return("degraded", words, {}, TRUE)

-----------------------------------------------------------------------------
\* A call.

Remote(s) == s.client \/ s.live

Ask(term, page, attempt, copies, clean) ==
  fetch' = [fetch EXCEPT !.pc = "calling", !.term = term, !.page = page,
              !.attempt = attempt, !.copies = copies, !.clean = clean]

\* fetch_result and fetch_result_async up to their first request.
FetchResult(asked) ==
  LET words == Expand(asked)
      hits == {c \in results : c.words = words}
  IN
  /\ fetch.pc = "idle"
  /\ fetches < MaxFetches /\ fetches' = fetches + 1
  /\ \/ \E hit \in hits :
          /\ returned' = hit
          /\ UNCHANGED <<fetch, results>>
     \/ /\ hits = {} /\ ~Remote(setup)
        /\ \E demo \in {{}, {[row |-> "demo", term |-> 1, page |-> 1]}} :
             Return("demo", words, demo, TRUE)
     \/ /\ hits = {} /\ Remote(setup)   \* open circuit or empty bucket
        /\ BuildDegraded(words)
     \/ /\ hits = {} /\ Remote(setup)
        /\ Search(setup).keyed /\ ~setup.key
        /\ BuildDegraded(words)
     \/ /\ hits = {} /\ Remote(setup)
        /\ Search(setup).keyed => setup.key
        /\ fetch' = [NoFetch EXCEPT !.pc = "calling", !.words = words,
                                    !.held = Listed(catalog)]
        /\ UNCHANGED <<results, returned>>
  /\ UNCHANGED <<setup, catalog, changes>>

\* After the last page of a term: the next term of an NGO search, or the end.
TermOver(copies, clean) ==
  \/ /\ setup.kind = "ngo" /\ fetch.term < Len(Terms(fetch.words))
     /\ Ask(fetch.term + 1, 1, 1, copies, clean)
     /\ UNCHANGED <<results, returned>>
  \/ /\ setup.kind = "ngo" => fetch.term >= Len(Terms(fetch.words))
     /\ Finish(copies, clean)

\* The service answers with a page.
PageArrives ==
  LET found == Found(setup, fetch.words, fetch.term)
      sent == PageOf(found, Size(setup), fetch.page)
      read == IF Understood(setup) THEN sent ELSE {}
      next == Following(setup, Cardinality(read), Cardinality(found), fetch.page)
      copies == fetch.copies \cup Kept(setup, fetch.copies, read)
  IN
  /\ fetch.pc = "calling"
  /\ \/ /\ next # 0
        /\ Ask(fetch.term, next, 1, copies, fetch.clean)
        /\ UNCHANGED <<results, returned>>
     \/ /\ next = 0
        /\ TermOver(copies, fetch.clean)
  /\ UNCHANGED <<setup, catalog, changes, fetches>>

\* A reply that holds no page, such as null, is taken for an empty last one.
EmptyReply ==
  /\ fetch.pc = "calling"
  /\ TermOver(fetch.copies, FALSE)
  /\ UNCHANGED <<setup, catalog, changes, fetches>>

\* The own requests of the grants and the CSR connector are made once.
Attempts(s) == IF Search(s).retried THEN Retries + 1 ELSE 1

\* A transient failure with attempts left; a 429 of a GET is one of them.
FailedAttempt ==
  /\ fetch.pc = "calling" /\ fetch.attempt < Attempts(setup)
  /\ fetch' = [fetch EXCEPT !.pc = "backoff"]
  /\ UNCHANGED <<setup, catalog, results, returned, changes, fetches>>

\* The request for the same page is made again.
RetryPage ==
  /\ fetch.pc = "backoff"
  /\ Ask(fetch.term, fetch.page, fetch.attempt + 1, fetch.copies, fetch.clean)
  /\ UNCHANGED <<setup, catalog, results, returned, changes, fetches>>

FailureKeepsPages ==
  /\ fetch.pc = "calling"
  /\ Finish(fetch.copies, fetch.clean)
  /\ UNCHANGED <<setup, catalog, changes, fetches>>

\* Another failure, an error in a row or the last attempt's: the pages
\* fetched before are dropped.
Failure ==
  /\ fetch.pc = "calling"
  /\ BuildDegraded(fetch.words)
  /\ UNCHANGED <<setup, catalog, changes, fetches>>

\* invalidate_cache, or the time to live is over.
Expire ==
  /\ results # {} /\ results' = {}
  /\ UNCHANGED <<setup, catalog, fetch, returned, changes, fetches>>

\* External: the service lists a row, at any place of its order.
ListRow(r) ==
  /\ changes < MaxChanges /\ changes' = changes + 1
  /\ r \notin Listed(catalog)
  /\ \E at \in 1..(Len(catalog) + 1) :
       catalog' = [i \in 1..(Len(catalog) + 1) |->
                     IF i < at THEN catalog[i]
                     ELSE IF i = at THEN r ELSE catalog[i - 1]]
  /\ UNCHANGED <<setup, fetch, results, returned, fetches>>

\* External: the service withdraws a row.
WithdrawRow ==
  /\ changes < MaxChanges /\ changes' = changes + 1
  /\ \E at \in DOMAIN catalog :
       catalog' = [i \in 1..(Len(catalog) - 1) |->
                     IF i < at THEN catalog[i] ELSE catalog[i + 1]]
  /\ fetch' = [fetch EXCEPT !.clean = (@ /\ fetch.pc = "idle")]
  /\ UNCHANGED <<setup, results, returned, fetches>>

Respond ==
  PageArrives \/ EmptyReply \/ FailedAttempt \/ Failure

FetchNext ==
  \/ \E asked \in Asked : FetchResult(asked)
  \/ Respond \/ RetryPage
  \/ Expire
  \/ \E r \in Rows : ListRow(r)
  \/ WithdrawRow

FetchSpec == FetchInit /\ [][FetchNext]_fetchVars

\* Requests time out and the program goes on after its sleeps.
FairFetchSpec == FetchSpec /\ WF_fetchVars(Respond \/ RetryPage)

-----------------------------------------------------------------------------
\* The searches that follow pages, of a service that announces them: in its
\* replies or, by length, with full pages of the size the connector knows.
Paged(s) ==
  \/ Search(s).paging = "totals" /\ s.style # "length"
  \/ /\ Search(s).paging = "parsed"
     /\ (s.style = "length" => Size(s) >= PageSize)

\* What a search of those words is for.
Sought(s, words, r) ==
  /\ PassesFilter(s, words, r)
  /\ (s.kind = "ngo" /\ words # {}) =>
       \E i \in DOMAIN Terms(words) : Terms(words)[i] \in WordsOf[r]

\* A result that says it is remote, fetched or cached, is whole: whatever the
\* service lists while the pages are fetched, and whichever request is retried,
\* it has (under its link) each row that was listed when the call began.  A
\* failure half way never passes the pages before it off as the result.
RemoteAnswersAreWhole ==
  (/\ returned.status = "remote" /\ returned.clean
   /\ Paged(setup) /\ Understood(setup))
  => \A r \in returned.held :
       Sought(setup, returned.words, r) =>
         \E c \in returned.copies : Link(c.row) = Link(r)

\* The NGO and the foundation search return no portal link twice, though rows
\* that shift between pages, and several terms, bring a row more than once.
LinksAreUnique ==
  Search(setup).unique =>
    \A c, d \in returned.copies : Link(c.row) = Link(d.row) => c = d

\* A call returns, whatever the service adds and withdraws, when the service
\* announces no page beyond its catalogue.
FetchesEnd == fetch.pc # "idle" ~> fetch.pc = "idle"

=============================================================================
