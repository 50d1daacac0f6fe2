-------------------------------- MODULE Feed --------------------------------
(***************************************************************************)
(* The shelves of api-feed, and the endless queue that apps/web's /feed    *)
(* makes of them (ReelsFeed): GET /feed's shelves come without each        *)
(* other's books, a shelf's further pages with them.                       *)
(***************************************************************************)
EXTENDS Catalog, Interest, FiniteSetsExt

CONSTANTS
  StoredShelves,       \* discovery.feed_shelves, enabled, by sort_order:
                       \* sequence of [id, type, collection]
  TrendingShelf,       \* FEATURE_TRENDING_SHELF
  PersonalizedShelves, \* FEATURE_PERSONALIZED_SHELVES
  Banners,             \* discovery.banners, enabled: [book, sortOrder]
  ShelfPageSize,
  FetchesFail          \* a fetch of a further page may get no answer

\* discovery.shelf_type, and the shelves without a row.
ShelfType ==
  {"editorial", "new_arrivals", "trending", "personalized_similar", "recently_viewed"}
Trending == [id |-> "trending", type |-> "trending", collection |-> "none"]
PersonalizedSimilar ==
  [id |-> "personalized-similar", type |-> "personalized_similar", collection |-> "none"]

ASSUME FeedAssumption ==
  /\ StoredShelves \in Seq(Range(StoredShelves))
  /\ \A d \in Range(StoredShelves) : /\ d.type \in ShelfType
                                     /\ d.type = "editorial" => d.collection \in Collection
  /\ ShelfPageSize \in Nat \ {0} /\ FetchesFail \in BOOLEAN
  /\ TrendingShelf \in BOOLEAN /\ PersonalizedShelves \in BOOLEAN
  /\ \A banner \in Banners : banner.book \in Book

VARIABLES
  feed,          \* GET /feed: step, descriptors, how many are done, shelves, banner
  queue,         \* ReelsFeed: the books that are slides
  seenIds,       \* ... seenIdsRef
  cursors,       \* ... cursorsRef
  cursorIndex,   \* ... cursorIndexRef
  fetching,      \* ... the locals of fetchMore, {} when it is not running
  exhausted,
  fetchFailed,   \* history: a fetch of a shelf's page threw
  feedChanged    \* history: the catalogue changed since GET /feed began

reelVars == <<queue, seenIds, cursors, cursorIndex, fetching, exhausted, fetchFailed>>
feedVars == <<feed, reelVars, feedChanged>>

-----------------------------------------------------------------------------
(* FeedService *)

CandidateShelves ==
  StoredShelves \o (IF TrendingShelf THEN <<Trending>> ELSE <<>>)
    \o (IF PersonalizedShelves /\ LikedBookIds # {} THEN <<PersonalizedSimilar>> ELSE <<>>)

\* How many credits and themes a book shares with the liked ones.
MatchCount(b) ==
  LET likedWorks == {BookRow[l].work : l \in LikedBookIds}
      row == WorkRow[BookRow[b].work] IN
  Cardinality({k \in row.credits : k.author \in UNION {Authors(w) : w \in likedWorks}})
    + Cardinality(row.themes \cap UNION {WorkRow[w].themes : w \in likedWorks})

Editorial(d) == published \cap DOMAIN BookCollections[d.collection]
EverTrending == published \cap EverLiked
Similar == {b \in published \ LikedBookIds : MatchCount(b) > 0}

\* The books of a shelf, and their sort key: only new arrivals have no ties.
ShelfBooks(d) ==
  CASE d.type = "editorial" -> Editorial(d)
    [] d.type = "new_arrivals" -> published
    [] d.type = "trending" -> EverTrending
    [] d.type = "personalized_similar" -> Similar
    [] d.type = "recently_viewed" -> {}
ShelfKey(d, b) ==
  CASE d.type = "editorial" -> BookCollections[d.collection][b]
    [] d.type = "new_arrivals" -> -BookRow[b].arrival
    [] d.type = "trending" -> -LikeCount(b)
    [] d.type = "personalized_similar" -> -MatchCount(b)

Tied(d) == \E b, c \in ShelfBooks(d) : b # c /\ ShelfKey(d, b) = ShelfKey(d, c)

\* bookIdsForShelf: a page, and by one row more than that whether it is the last.
BookIdsForShelf(d, page, exclude) ==
  LET Before(b, c) == ShelfKey(d, b) < ShelfKey(d, c) IN
  {[ids |-> Page(s, page, ShelfPageSize), hasMore |-> Len(s) > page * ShelfPageSize] :
     s \in Orders(ShelfBooks(d) \ exclude, Before)}

\* The banner of the lowest sort_order whose book is published.
ActiveBanner ==
  LET open == {banner \in Banners : banner.book \in published} IN
  {banner \in open : \A other \in open : banner.sortOrder <= other.sortOrder}

ClosedFeed == [step |-> "closed", descriptors |-> <<>>, shelves |-> <<>>, seen |-> {},
               next |-> 1, banner |-> {}]

FeedInit ==
  /\ feed = ClosedFeed
  /\ queue = <<>> /\ seenIds = {} /\ cursors = <<>> /\ cursorIndex = 1
  /\ fetching = {} /\ exhausted = FALSE /\ fetchFailed = FALSE /\ feedChanged = FALSE

\* GET /feed begins with the shelves there are.
GetFeed ==
  /\ feed.step = "closed"
  /\ feed' = [feed EXCEPT !.step = "loading", !.descriptors = CandidateShelves]
  /\ UNCHANGED <<reelVars, feedChanged>>

\* One shelf, without the books of those before it; left out when it is empty.
FillShelf ==
  /\ feed.step = "loading" /\ feed.next <= Len(feed.descriptors)
  /\ LET d == feed.descriptors[feed.next] IN
     \E found \in BookIdsForShelf(d, 1, feed.seen), answer \in AuthorsByWork :
       feed' = [feed EXCEPT !.next = @ + 1, !.seen = @ \union Range(found.ids),
                  !.shelves = IF found.ids = <<>> THEN @
                              ELSE Append(@, [shelf |-> d, items |-> Build(found.ids, answer),
                                              hasMore |-> found.hasMore])]
  /\ UNCHANGED <<reelVars, feedChanged>>

\* flattenShelves: a book is a slide where it comes first, in the shelves' order;
\* every shelf goes on from its second page.
Slides(shelves) ==
  LET cells == UNION {{i} \X DOMAIN shelves[i].items : i \in DOMAIN shelves}
      Id(c) == shelves[c[1]].items[c[2]].id
      Before(c, d) == c[1] < d[1] \/ (c[1] = d[1] /\ c[2] < d[2])
      first == {c \in cells : \A d \in cells : Before(d, c) => Id(d) # Id(c)} IN
  {[k \in DOMAIN s |-> Id(s[k])] : s \in Orders(first, Before)}
GoOnFrom(page, shelves) ==
  [i \in DOMAIN shelves |->
     [shelf |-> shelves[i].shelf, page |-> page, hasMore |-> shelves[i].hasMore]]

\* Mutant: the continuation starts a page too late.
FlattenFromThree(shelves) ==
  {[queue |-> q, cursors |-> GoOnFrom(3, shelves)] : q \in Slides(shelves)}

FlattenShelves(shelves) ==
  {[queue |-> q, cursors |-> GoOnFrom(2, shelves)] : q \in Slides(shelves)}

\* The banner ends GET /feed, and the page opens: with nothing, or the reels.
ShowFeed ==
  /\ feed.step = "loading" /\ feed.next > Len(feed.descriptors)
  /\ \E banner \in {{}} \union {{b} : b \in ActiveBanner} :
       /\ banner = {} <=> ActiveBanner = {}
       /\ feed' = [feed EXCEPT !.step = IF feed.shelves = <<>> THEN "empty" ELSE "shown",
                               !.banner = banner]
  /\ \E flat \in FlattenShelves(feed.shelves) :
       /\ queue' = flat.queue /\ seenIds' = Range(flat.queue) /\ cursors' = flat.cursors
       /\ exhausted' = \A i \in DOMAIN flat.cursors : ~flat.cursors[i].hasMore
  /\ UNCHANGED <<cursorIndex, fetching, fetchFailed, feedChanged>>

-----------------------------------------------------------------------------
(* ReelsFeed *)

\* The first shelf from i on that has more, or the end.
NextCursor(at, i) ==
  {j \in i..(Len(at) + 1) : /\ \A k \in i..(j - 1) : ~at[k].hasMore
                            /\ j <= Len(at) => at[j].hasMore}

\* fetchMore is done: what it gathered becomes slides.
Gathered(idx, appended) ==
  /\ queue' = queue \o appended
  /\ cursorIndex' = idx /\ exhausted' = (idx > Len(cursors))
  /\ fetching' = {}

\* The reader comes near the end, again if need be.
FetchMore ==
  /\ feed.step = "shown" /\ fetching = {} /\ ~exhausted
  /\ \E i \in NextCursor(cursors, cursorIndex) :
       IF i > Len(cursors)
       THEN Gathered(i, <<>>)
       ELSE /\ fetching' = {[at |-> i, appended |-> <<>>]}
            /\ UNCHANGED <<queue, cursorIndex, exhausted>>
  /\ UNCHANGED <<feed, seenIds, cursors, fetchFailed, feedChanged>>

\* What a page brings that is no slide yet, in its order.
Fresh(ids) ==
  LET new == {i \in DOMAIN ids : ids[i] \notin seenIds}
      Before(i, j) == i < j IN
  {[k \in DOMAIN s |-> ids[s[k]]] : s \in Orders(new, Before)}

\* GET /feed/shelf/{id}, where nothing is left out, and how the loop goes on: to
\* the next shelf after a shelf's last page.
GetShelf ==
  \E f \in fetching :
    LET cursor == cursors[f.at] IN
    /\ cursor.shelf \in Range(StoredShelves)
    /\ \E found \in BookIdsForShelf(cursor.shelf, cursor.page, {}) :
       \E fresh \in Fresh(found.ids) :
         LET read == [cursors EXCEPT ![f.at] = [cursor EXCEPT !.page = cursor.page + 1,
                                                              !.hasMore = found.hasMore]] IN
         /\ seenIds' = seenIds \union Range(fresh) /\ cursors' = read
         /\ \E i \in NextCursor(read, IF found.hasMore THEN f.at ELSE f.at + 1) :
              IF found.hasMore \/ i > Len(cursors)
              THEN Gathered(i, f.appended \o fresh)
              ELSE /\ fetching' = {[at |-> i, appended |-> f.appended \o fresh]}
                   /\ UNCHANGED <<queue, cursorIndex, exhausted>>
    /\ UNCHANGED <<feed, fetchFailed, feedChanged>>

\* The fetch throws: it got no answer, or the shelf is one of those that are not
\* stored, which GET /feed/shelf/{id} does not know. What the loop had gathered
\* is dropped, though its cursors and ids stay as read.
GetShelfFails ==
  \E f \in fetching :
    /\ FetchesFail \/ cursors[f.at].shelf \notin Range(StoredShelves)
    /\ fetching' = {} /\ fetchFailed' = TRUE
    /\ UNCHANGED <<feed, queue, seenIds, cursors, cursorIndex, exhausted, feedChanged>>

ReelsFeed == FetchMore \/ GetShelf \/ GetShelfFails

FeedNext == GetFeed \/ FillShelf \/ ShowFeed \/ ReelsFeed

FeedChangesMeanwhile ==
  feedChanged' = (feed.step # "closed") /\ UNCHANGED <<feed, reelVars>>

\* The visitor's likes are any, and do not change.
FeedSpec ==
  /\ CatalogInit /\ FeedInit
  /\ events \in Seq([book : Book, liked : BOOLEAN])
  /\ [][/\ \/ FeedNext /\ UNCHANGED catalogVars
           \/ CatalogNext /\ FeedChangesMeanwhile
        /\ UNCHANGED interestVars
       ]_<<catalogVars, interestVars, feedVars>>

-----------------------------------------------------------------------------
(* Properties *)

\* No book is two slides. A reader who has come to the end, while no fetch
\* failed and the catalogue did not change, has seen every book of every shelf,
\* though the shelves' first pages left out each other's books and their further
\* pages did not (shelves whose sort key has ties apart). The banner opens.
ReelsShowEachOnce ==
  /\ IsInjective(queue)
  /\ exhausted /\ ~fetchFailed /\ ~feedChanged
       => \A i \in DOMAIN feed.descriptors :
            \/ Tied(feed.descriptors[i])
            \/ ShelfBooks(feed.descriptors[i]) \subseteq Range(queue)
  /\ ~feedChanged => \A banner \in feed.banner : GetBook(banner.book, "IN").status = 200
=============================================================================
