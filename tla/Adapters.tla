------------------------------ MODULE Adapters ------------------------------
(***************************************************************************)
(* The publisher adapters of packages/adapter-sdk and what a crawl makes   *)
(* of a site with one of them, page after page and book after book, while  *)
(* the publisher may change the site. Import has the crawl's runs, cursors *)
(* and failures, over an adapter that is abstract; here it is the adapter  *)
(* that is concrete.                                                       *)
(*                                                                         *)
(* A product of a site is a record of what its feed and its page say:      *)
(* handle, type (the feed's product_type), title, authors, language, isbn  *)
(* (the number of digits after "ISBN:"), price and cover. "" is a text     *)
(* that is not there, NotANumber a price that cannot be parsed.            *)
(***************************************************************************)
EXTENDS Integers, FiniteSets, SequencesExt

CONSTANTS
  Products,        \* what the site offers as the crawl begins, page by page
  NewProduct,      \* what the publisher may put in front of it
  SitePageSize,
  Absent, NotANumber,
  MaxSiteChanges,  \* bound
  MaxUnanswered    \* bound: GETs of the site that get no answer

ASSUME AdaptersAssumption ==
  /\ SitePageSize \in Nat \ {0} /\ MaxSiteChanges \in Nat /\ MaxUnanswered \in Nat
  /\ Products \in Seq(Range(Products))
  /\ IsInjective([i \in DOMAIN Products |-> Products[i].handle])
  /\ \A i \in DOMAIN Products : Products[i].handle # NewProduct.handle

VARIABLES
  adapter,      \* the publisher's adapter
  site,         \* the site's products now
  cache,        \* productCache: what discover saw, of the Shopify adapters
  crawl,        \* the crawl's page, its refs still to do (their places on the
                \* page), the book it is at
  submissions,  \* the books submitted: the canonical book and its issues
  siteChanges, unanswered

siteVars == <<site, siteChanges>>
adaptersVars == <<adapter, siteVars, cache, crawl, submissions, unanswered>>

TextOrNull(text) == IF text = "" THEN Absent ELSE text

-----------------------------------------------------------------------------
(* discover *)

\* The products of a page of the listing; none after the last.
PageOf(n) ==
  LET before == (n - 1) * SitePageSize IN
  [i \in {k \in 1..SitePageSize : before + k <= Len(site)} |-> site[before + i]]

\* Mutant: the crawl goes on while pages have books, not while they have products.
WhileBooks(page, products) ==
  LET kept == {i \in DOMAIN products : products[i].type = "Books"} IN
  [refs |-> kept, next |-> IF kept # {} THEN page + 1 ELSE 0]

\* Only products of type "Books" are kept, but the pages end with an empty one.
DiscoverEthirveliyeedu(page, products) ==
  [refs |-> {i \in DOMAIN products : products[i].type = "Books"},
   next |-> IF DOMAIN products # {} THEN page + 1 ELSE 0]

\* Every product whose type is not blank.
DiscoverYaavarum(page, products) ==
  [refs |-> {i \in DOMAIN products : products[i].type # ""},
   next |-> IF DOMAIN products # {} THEN page + 1 ELSE 0]

\* A listing of books only; its pager links to the next page if there is one.
DiscoverKalachuvadu(page, products) ==
  [refs |-> DOMAIN products, next |-> IF page * SitePageSize < Len(site) THEN page + 1 ELSE 0]

DiscoverPage(page, products) ==
  CASE adapter = "ethirveliyeedu" -> DiscoverEthirveliyeedu(page, products)
    [] adapter = "yaavarum" -> DiscoverYaavarum(page, products)
    [] adapter = "kalachuvadu" -> DiscoverKalachuvadu(page, products)

-----------------------------------------------------------------------------
(* normalize: of what was fetched, with null where nothing was found *)

ParsePrice(p) == IF p.price = NotANumber THEN Absent ELSE p.price

\* Author, language and ISBN come from labelled lines of the product's body; a
\* language that is not in the adapter's table is none.
NormalizeEthirveliyeedu(p, html) ==
  [ref |-> p.handle, title |-> TextOrNull(p.title), authors |-> p.authors,
   language |-> IF p.language \in {"ta", "en", "fr"} THEN p.language ELSE Absent,
   isbn |-> IF p.isbn = 13 THEN 13 ELSE Absent,
   price |-> ParsePrice(p), cover |-> p.cover]

\* The author comes from the product's page, the rest from the feed.
NormalizeYaavarum(p, html) ==
  [ref |-> p.handle, title |-> TextOrNull(p.title), authors |-> html.authors,
   language |-> "ta", isbn |-> Absent, price |-> ParsePrice(p), cover |-> p.cover]

\* Everything comes from the book's page; of a longer number after "ISBN:" the
\* first 13 digits are taken.
NormalizeKalachuvadu(p, html) ==
  [ref |-> p.handle, title |-> TextOrNull(html.title), authors |-> html.authors,
   language |-> "ta", isbn |-> IF html.isbn >= 13 THEN 13 ELSE Absent,
   price |-> ParsePrice(html), cover |-> html.cover]

Normalize(p, html) ==
  CASE adapter = "ethirveliyeedu" -> NormalizeEthirveliyeedu(p, html)
    [] adapter = "yaavarum" -> NormalizeYaavarum(p, html)
    [] adapter = "kalachuvadu" -> NormalizeKalachuvadu(p, html)

\* validateBookFields: the issues that are errors; the others are warnings. None
\* of the adapters makes an ISBN of another length, the last of the errors.
ValidateBookFields(book) ==
  {issue \in {"missing_title", "missing_author", "missing_language", "invalid_isbn"} :
     \/ issue = "missing_title" /\ book.title = Absent
     \/ issue = "missing_author" /\ book.authors = {}
     \/ issue = "missing_language" /\ book.language = Absent
     \/ issue = "invalid_isbn" /\ book.isbn \notin {Absent, 13}}

-----------------------------------------------------------------------------
(* The crawl *)

AdaptersInit ==
  /\ adapter \in {"ethirveliyeedu", "yaavarum", "kalachuvadu"}
  /\ site = Products /\ cache = {} /\ submissions = <<>>
  /\ crawl = [page |-> <<>>, next |-> 1, refs |-> {}, step |-> "discover", book |-> Absent]
  /\ siteChanges = 0 /\ unanswered = 0

\* What a GET of a product's page finds: the product, unless it was taken off.
OnSite(handle) == {p \in Range(site) : p.handle = handle}

\* A page of the listing, into the cache and the queue.
DiscoverNext ==
  /\ crawl.step = "discover" /\ crawl.next # 0
  /\ LET products == PageOf(crawl.next)
         found == DiscoverPage(crawl.next, products)
         seen == {products[i] : i \in found.refs} IN
     /\ crawl' = [crawl EXCEPT !.page = products, !.refs = found.refs,
                               !.next = found.next,
                               !.step = IF found.refs = {} THEN "discover" ELSE "book"]
     /\ cache' = {p \in cache : \A q \in seen : q.handle # p.handle} \union seen
  /\ UNCHANGED <<adapter, siteVars, submissions, unanswered>>

\* The ref the crawl is at: the first of those still to do.
IsAt(i) == \A j \in crawl.refs : i <= j

\* The next book of the page, or the next page.
NextBook(i) ==
  LET rest == crawl.refs \ {i} IN
  [crawl EXCEPT !.refs = rest, !.book = Absent,
                !.step = IF rest = {} THEN "discover" ELSE "book"]

\* resolveProduct: the product as discover cached it.
Resolve(handle) == CHOOSE p \in cache : p.handle = handle

\* fetchBook and normalize. The feed's products need no GET but for Yaavarum's
\* page, and Kalachuvadu has nothing but the page.
FetchBook ==
  /\ crawl.step = "book"
  /\ \E i \in crawl.refs :
       LET cached == Resolve(crawl.page[i].handle) IN
       /\ IsAt(i)
       /\ \E html \in IF adapter = "ethirveliyeedu" THEN {cached} ELSE OnSite(cached.handle) :
            crawl' = [crawl EXCEPT !.book = Normalize(cached, html), !.step = "inventory"]
  /\ UNCHANGED <<adapter, siteVars, cache, submissions, unanswered>>

\* fetchInventory: none of the sites has a stock, but Kalachuvadu's page is
\* fetched again for it.
FetchInventory ==
  /\ crawl.step = "inventory"
  /\ adapter = "kalachuvadu" => OnSite(crawl.book.ref) # {}
  /\ crawl' = [crawl EXCEPT !.step = IF crawl.book.cover THEN "cover" ELSE "submit"]
  /\ UNCHANGED <<adapter, siteVars, cache, submissions, unanswered>>

DownloadCover ==
  /\ crawl.step = "cover"
  /\ crawl' = [crawl EXCEPT !.step = "submit"]
  /\ UNCHANGED <<adapter, siteVars, cache, submissions, unanswered>>

\* A book is submitted whatever validate says of it.
SubmitCanonical ==
  /\ crawl.step = "submit"
  /\ submissions' = Append(submissions, [book |-> crawl.book,
                                         issues |-> ValidateBookFields(crawl.book)])
  /\ \E i \in crawl.refs : IsAt(i) /\ crawl' = NextBook(i)
  /\ UNCHANGED <<adapter, siteVars, cache, unanswered>>

\* A GET of the book's gets no answer, or its page is not there any more: the
\* crawl goes on with the next one.
FetchFails ==
  /\ crawl.step \in {"book", "inventory", "cover"}
  /\ \E i \in crawl.refs :
       /\ IsAt(i)
       /\ \/ unanswered < MaxUnanswered /\ unanswered' = unanswered + 1
          \/ /\ crawl.step = "book" /\ adapter # "ethirveliyeedu" /\ UNCHANGED unanswered
             /\ OnSite(crawl.page[i].handle) = {}
          \/ /\ crawl.step = "inventory" /\ adapter = "kalachuvadu" /\ UNCHANGED unanswered
             /\ OnSite(crawl.book.ref) = {}
       /\ crawl' = NextBook(i)
  /\ UNCHANGED <<adapter, siteVars, cache, submissions>>

\* The publisher puts a product in front, or takes one off.
ChangeSite ==
  /\ siteChanges < MaxSiteChanges /\ siteChanges' = siteChanges + 1
  /\ \/ NewProduct \notin Range(site) /\ site' = <<NewProduct>> \o site
     \/ \E i \in DOMAIN site : site' = RemoveAt(site, i)
  /\ UNCHANGED <<adapter, cache, crawl, submissions, unanswered>>

AdaptersNext ==
  \/ DiscoverNext \/ FetchBook \/ FetchInventory \/ DownloadCover
  \/ SubmitCanonical \/ FetchFails \/ ChangeSite

AdaptersSpec == AdaptersInit /\ [][AdaptersNext]_adaptersVars

-----------------------------------------------------------------------------
(* Properties *)

IsBook(p) ==
  CASE adapter = "ethirveliyeedu" -> p.type = "Books"
    [] adapter = "yaavarum" -> p.type # ""
    [] adapter = "kalachuvadu" -> TRUE

Submitted(handle) == {i \in DOMAIN submissions : submissions[i].book.ref = handle}
Ended == crawl.step = "discover" /\ crawl.next = 0

\* A crawl that has come to the end of the listing has submitted every book of
\* the site once, whatever else the pages hold. Each answer it did not get, and
\* each change of the site, costs one book at most: what moves over the border
\* of two pages is left out, or submitted twice. A book submitted without errors
\* has what promotion asks for, a title and a language, and an author.
CrawlFindsEveryBook ==
  /\ Ended =>
       Cardinality({p \in Range(Products) \intersect Range(site) :
                      IsBook(p) /\ Cardinality(Submitted(p.handle)) # 1})
         <= unanswered + siteChanges
  /\ \A i \in DOMAIN submissions :
       LET book == submissions[i].book IN
       submissions[i].issues = {}
         => book.title # Absent /\ book.language # Absent /\ book.authors # {}
=============================================================================
