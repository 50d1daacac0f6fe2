------------------------------- MODULE MCParts ------------------------------
(***************************************************************************)
(* The parts that share no state, in one run: each behaviour is about one  *)
(* of them, the others stay as they began. The catalogue changes under a   *)
(* search and under the reels.                                             *)
(***************************************************************************)
EXTENDS Identity, Addresses, Storefront, Search, Feed, Admin, Adapters

CONSTANTS a1, a2, b1, w1, w2, h1, h2, d1, d2, k1, k2, ponni,
          o1, o2, o3, p1, p2, au1, au2, t1, t2, c1, q1, q2, he1, he2, he3

VARIABLE part

\* The orders of the admin's list: two pages of all, one of those that are paid.
MCOrders == <<[status |-> "pending_payment", channel |-> "online"],
              [status |-> "paid", channel |-> "online"],
              [status |-> "completed", channel |-> "erode"]>>
MCFilter == {AllOrders, [status |-> "completed", channel |-> "erode"]}
MCAllOrders == [status |-> "", channel |-> ""]

\* Four books: two editions of one work by two publishers, one of which is not
\* sold in Singapore; one book that has no inventory, of a work whose author and
\* translator are both in the first place; one that has no author.
MCBook == 1..4
MCWork == {o1, o2, o3}
Row(w, p, title, arrival, price, sgd) ==
  [work |-> w, publisher |-> p, title |-> title, arrival |-> arrival,
   price |-> price, priceSgd |-> sgd]
MCBookRow == <<Row(o1, p1, 1, 1, 100, NoPrice), Row(o1, p2, 2, 3, 150, 12),
               Row(o2, p1, 4, 2, NoPrice, NoPrice), Row(o3, p1, 3, 0, 80, 9)>>
Credit(a, role, sortOrder) == [author |-> a, role |-> role, sortOrder |-> sortOrder]
MCWorkRow ==
  [w \in MCWork |->
     [credits |-> IF w = o1 THEN {Credit(au1, "author", 0), Credit(au2, "editor", 1)}
                  ELSE IF w = o2 THEN {Credit(au2, "author", 0), Credit(au1, "translator", 0)}
                  ELSE {},
      themes |-> IF w = o2 THEN {t2} ELSE {t1, t2}]]
MCBookCollections == [c \in {c1} |-> [b \in {1, 3, 4} |-> 5 - b]]
MCHeartBook == [h \in {he1, he2, he3} |-> IF h = he1 THEN 1 ELSE 2]
MCText == [q \in {q1, q2} |-> IF q = q1 THEN <<80, 20, 20, 0>> ELSE <<0, 0, 0, 50>>]
MCStoredShelves == <<[id |-> "s1", type |-> "editorial", collection |-> c1],
                     [id |-> "s2", type |-> "new_arrivals", collection |-> "none"]>>
MCBanners == {[book |-> 1, sortOrder |-> 0], [book |-> 4, sortOrder |-> 1]}

\* What the visitor liked before, one like of which is taken back.
MCEvents == {<<>>, <<[book |-> 3, liked |-> TRUE], [book |-> 1, liked |-> TRUE],
                     [book |-> 1, liked |-> FALSE]>>}
MCWorkStatus == {[w \in Work |-> "draft"], [w \in Work |-> "published"],
                 [w \in Work |-> IF w = o2 THEN "approved" ELSE "published"]}

\* A publisher's site of three pages: the second has nothing that is a book, and
\* of the other products some lack what a book must have.
Product(handle, type, title, authors, language, isbn) ==
  [handle |-> handle, type |-> type, title |-> title, authors |-> authors,
   language |-> language, isbn |-> isbn, price |-> NotANumber, cover |-> type = "Books"]
MCProducts ==
  <<Product("k1", "Books", "Ponni", {"Kalki"}, "ta", 13), Product("k2", "Books", "", {}, "de", 10),
    Product("k3", "", "Pen", {}, "", 0), Product("k4", "", "Bag", {}, "", 0),
    Product("k5", "Books", "Pizza", {}, "en", 13)>>
MCNewProduct == Product("k6", "Books", "New", {"Kalki"}, "fr", 14)

\* Workers and devices are interchangeable: each is only quantified over.
Symmetry == Permutations(Worker) \union Permutations(Device)

accountVars == <<identityVars, addressVars, storefrontVars>>
officeVars == <<adminVars, adaptersVars>>
discoveryVars == <<catalogVars, interestVars, searchVars, feedVars>>
partsVars == <<part, accountVars, discoveryVars, officeVars>>

PartsInit ==
  /\ part \in {"identity", "addresses", "storefront", "likes", "search", "reels",
              "orders", "order", "crawl"}
  /\ IdentityInit /\ AddressesInit /\ StorefrontInit
  /\ workStatus \in MCWorkStatus /\ CatalogInit
  /\ published = {} <=> part \notin {"search", "reels"}
  /\ events \in IF part \in {"search", "reels"} /\ published = Book THEN MCEvents ELSE {<<>>}
  /\ LikesInit /\ SearchInit /\ FeedInit
  /\ AdminInit /\ AdaptersInit
  /\ part # "crawl" => adapter = "yaavarum"

AccountNext ==
  \/ /\ part = "identity" /\ IdentityNext
     /\ UNCHANGED <<addressVars, storefrontVars>>
  \/ /\ part = "addresses" /\ AddressesNext
     /\ UNCHANGED <<identityVars, storefrontVars>>
  \/ /\ part = "storefront" /\ StorefrontNext
     /\ UNCHANGED <<identityVars, addressVars>>

DiscoveryNext ==
  \/ /\ part = "likes" /\ InterestNext
     /\ UNCHANGED <<catalogVars, searchVars, feedVars>>
  \/ /\ part = "search"
     /\ \/ SearchNext /\ UNCHANGED catalogVars
        \/ CatalogNext /\ ChangedMeanwhile
     /\ UNCHANGED <<interestVars, feedVars>>
  \/ /\ part = "reels"
     /\ \/ FeedNext /\ UNCHANGED catalogVars
        \/ CatalogNext /\ FeedChangesMeanwhile
     /\ UNCHANGED <<interestVars, searchVars>>

OfficeNext ==
  \/ part = "orders" /\ OrderListNext /\ UNCHANGED <<detailVars, adaptersVars>>
  \/ part = "order" /\ DetailNext /\ UNCHANGED <<orderListVars, adaptersVars>>
  \/ part = "crawl" /\ AdaptersNext /\ UNCHANGED adminVars

PartsNext ==
  /\ UNCHANGED part
  /\ \/ AccountNext /\ UNCHANGED <<discoveryVars, officeVars>>
     \/ DiscoveryNext /\ UNCHANGED <<accountVars, officeVars>>
     \/ OfficeNext /\ UNCHANGED <<accountVars, discoveryVars>>

PartsSpec == PartsInit /\ [][PartsNext]_partsVars
=============================================================================
