----------------------------- MODULE PagesProofs -----------------------------
(***************************************************************************)
(* Proofs about what the pages show while their requests are under way:    *)
(* the hearts of apps/web (Interest), the form for walk-in sales, the      *)
(* order list and the order page (Admin), the way from the cart to an      *)
(* order (Storefront), the walk through a search (Search), and the reels   *)
(* (Feed).                                                                 *)
(***************************************************************************)
EXTENDS Interest, Search, Admin, Storefront, Feed, FiniteSetTheorems, TLAPS

-----------------------------------------------------------------------------
(* Hearts *)

LikeEvent == [book : {HeartBook[h] : h \in Heart}, liked : BOOLEAN]
LikePost(heart, like, step, n) == [heart |-> heart, liked |-> like, step |-> step, n |-> n]
LikePosts == [heart : Heart, liked : BOOLEAN, step : {"sent", "recorded"}, n : Nat]

LikesTypeOK ==
  /\ events \in Seq(LikeEvent)
  /\ liked \in [Heart -> BOOLEAN]
  /\ posting \in [Heart -> BOOLEAN]
  /\ posts \subseteq LikePosts
  /\ toggles \in Nat
  /\ clicked \subseteq Heart

\* A heart with a post out is pending, and has no other; it shows what the post
\* says.
PostedOnce ==
  /\ \A p \in posts : /\ p.heart \in clicked /\ posting[p.heart]
                      /\ p.liked = liked[p.heart]
  /\ \A p, q \in posts : p.heart = q.heart => p = q

\* No other heart of the book of h was clicked.
OnlyHeart(h) == \A g \in clicked \ {h} : HeartBook[g] # HeartBook[h]

\* Once its post is recorded a heart shows what its book's last event says.
Recorded ==
  \A h \in clicked \ lost :
    OnlyHeart(h) /\ (\A p \in posts : p.heart = h => p.step = "recorded")
      => liked[h] = (HeartBook[h] \in LikedBookIds)

HeartsInv == LikesTypeOK /\ PostedOnce /\ Recorded

\* The last event of a book says whether it is liked, the other books' do not.
LEMMA LastEvent ==
  ASSUME LikesTypeOK, NEW e \in LikeEvent, events' = Append(events, e)
  PROVE  \A b : b \in LikedBookIds' <=> IF b = e.book THEN e.liked ELSE b \in LikedBookIds
<1> DEFINE n == Len(events)
<1>1. /\ n \in Nat /\ DOMAIN events = 1..n
      /\ DOMAIN events' = 1..(n + 1) /\ events'[n + 1] = e
      /\ \A i \in 1..n : events'[i] = events[i]
  BY DEF LikesTypeOK
<1> DEFINE IsLast(b, i) == /\ events[i].book = b /\ events[i].liked
                           /\ \A k \in 1..n : k > i => events[k].book # b
<1>2. \A b : b \in LikedBookIds <=> \E i \in 1..n : IsLast(b, i)
  BY <1>1 DEF LikedBookIds
<1>3. \A b : b \in LikedBookIds' <=>
               \E i \in 1..(n + 1) :
                 /\ events'[i].book = b /\ events'[i].liked
                 /\ \A k \in 1..(n + 1) : k > i => events'[k].book # b
  BY <1>1 DEF LikedBookIds
<1>4. ASSUME NEW b, b = e.book
      PROVE  b \in LikedBookIds' <=> e.liked
  <2>1. ASSUME NEW i \in 1..(n + 1), \A k \in 1..(n + 1) : k > i => events'[k].book # b
        PROVE  i = n + 1
    BY <1>1, <1>4, <2>1
  <2>2. e.liked => b \in LikedBookIds'
    BY <1>1, <1>3, <1>4
  <2> QED BY <1>1, <1>3, <2>1, <2>2
<1>5. ASSUME NEW b, b # e.book
      PROVE  b \in LikedBookIds' <=> b \in LikedBookIds
  <2>1. ASSUME NEW i \in 1..n, IsLast(b, i)
        PROVE  b \in LikedBookIds'
    BY <1>1, <1>3, <1>5, <2>1
  <2>2. ASSUME NEW i \in 1..(n + 1), events'[i].book = b, events'[i].liked,
               \A k \in 1..(n + 1) : k > i => events'[k].book # b
        PROVE  i \in 1..n /\ IsLast(b, i)
    BY <1>1, <1>5, <2>2
  <2> QED BY <1>2, <1>3, <2>1, <2>2
<1> QED BY <1>4, <1>5

\* Before the first click there is nothing to show.
LEMMA InitHearts == InterestInit => HeartsInv
BY DEF InterestInit, LikesInit, HeartsInv, LikesTypeOK, PostedOnce, Recorded

\* A heart that waits for nothing has no post out.
LEMMA IdleHeart ==
  ASSUME HeartsInv, NEW h \in Heart, ~posting[h]
  PROVE  \A p \in posts : p.heart # h
BY DEF HeartsInv, PostedOnce

LEMMA ToggleLikeKeeps ==
  ASSUME HeartsInv, NEW h \in Heart, ToggleLike(h)
  PROVE  HeartsInv'
<1> DEFINE new == LikePost(h, ~liked[h], "sent", toggles)
<1>1. /\ ~posting[h] /\ toggles' = toggles + 1 /\ clicked' = clicked \union {h}
      /\ liked' = [liked EXCEPT ![h] = ~@] /\ posting' = [posting EXCEPT ![h] = TRUE]
      /\ posts' = posts \union {new} /\ UNCHANGED <<events, lost>>
  BY DEF ToggleLike, Click, LikePost
<1>2. new \in LikePosts /\ new.heart = h /\ new.liked = ~liked[h] /\ new.step = "sent"
  BY DEF LikePost, LikePosts, HeartsInv, LikesTypeOK
<1> HIDE DEF new
<1>3. \A p \in posts : p.heart # h
  BY <1>1, IdleHeart
<1>4. LikesTypeOK'
  BY <1>1, <1>2 DEF HeartsInv, LikesTypeOK
<1>5. PostedOnce'
  BY <1>1, <1>2, <1>3 DEF HeartsInv, LikesTypeOK, PostedOnce, LikePosts
<1>6. Recorded'
  <2> SUFFICES ASSUME NEW g \in clicked' \ lost', OnlyHeart(g)',
                      \A p \in posts' : p.heart = g => p.step = "recorded"
               PROVE  liked'[g] = (HeartBook[g] \in LikedBookIds')
    BY DEF Recorded
  <2>1. g # h
    BY <1>1, <1>2
  <2>2. g \in clicked \ lost /\ OnlyHeart(g) /\ \A p \in posts : p.heart = g => p.step = "recorded"
    BY <1>1, <2>1 DEF OnlyHeart
  <2>3. liked'[g] = liked[g]
    BY <1>1, <2>1, <2>2 DEF HeartsInv, LikesTypeOK
  <2>4. LikedBookIds' = LikedBookIds
    BY <1>1 DEF LikedBookIds
  <2> QED BY <2>2, <2>3, <2>4 DEF HeartsInv, Recorded
<1> QED BY <1>4, <1>5, <1>6 DEF HeartsInv

LEMMA SetLikeKeeps ==
  ASSUME HeartsInv, NEW post \in posts, SetLike(post)
  PROVE  HeartsInv'
<1> DEFINE e == [book |-> HeartBook[post.heart], liked |-> post.liked]
           done == LikePost(post.heart, post.liked, "recorded", post.n)
<1>1. /\ post.step = "sent" /\ events' = Append(events, e)
      /\ UNCHANGED <<liked, posting, toggles, clicked, lost>>
  BY DEF SetLike
<1>2. post \in LikePosts
  BY DEF HeartsInv, LikesTypeOK
<1>3. posts' = (posts \ {post}) \union {done}
  BY <1>2 DEF SetLike, LikePost, LikePosts
<1>4. /\ e \in LikeEvent /\ done \in LikePosts
      /\ e.book = HeartBook[post.heart] /\ e.liked = post.liked
      /\ done.heart = post.heart /\ done.liked = post.liked /\ done.step = "recorded"
  BY <1>2 DEF LikeEvent, LikePosts, LikePost
<1> HIDE DEF e, done
<1>5. LikesTypeOK'
  BY <1>1, <1>3, <1>4 DEF HeartsInv, LikesTypeOK
<1>6. PostedOnce'
  BY <1>1, <1>3, <1>4 DEF HeartsInv, PostedOnce
<1>7. Recorded'
  <2> SUFFICES ASSUME NEW h \in clicked \ lost, OnlyHeart(h),
                      \A p \in posts' : p.heart = h => p.step = "recorded"
               PROVE  liked[h] = (HeartBook[h] \in LikedBookIds')
    BY <1>1 DEF Recorded, OnlyHeart
  <2>0. h \in Heart /\ liked[h] \in BOOLEAN /\ post.heart \in clicked
        /\ post.liked = liked[post.heart]
    BY DEF HeartsInv, LikesTypeOK, PostedOnce
  <2>1. CASE h = post.heart
    BY <1>1, <1>4, <2>0, <2>1, LastEvent DEF HeartsInv
  <2>2. CASE h # post.heart
    <3>1. HeartBook[h] # e.book
      BY <1>4, <2>0, <2>2 DEF OnlyHeart
    <3>2. \A p \in posts : p.heart = h => p.step = "recorded"
      BY <1>3, <2>2
    <3>3. HeartBook[h] \in LikedBookIds' <=> HeartBook[h] \in LikedBookIds
      BY <1>1, <1>4, <3>1, LastEvent DEF HeartsInv
    <3> QED BY <2>0, <3>2, <3>3 DEF HeartsInv, Recorded
  <2> QED BY <2>1, <2>2
<1> QED BY <1>5, <1>6, <1>7 DEF HeartsInv

\* A post that ends leaves its heart without one.
LEMMA PostEndsKeeps ==
  ASSUME HeartsInv, NEW post \in posts,
         posts' = posts \ {post}, posting' = [posting EXCEPT ![post.heart] = FALSE],
         UNCHANGED <<events, toggles, clicked>>,
         \/ post.step = "recorded" /\ UNCHANGED <<liked, lost>>
         \/ /\ liked' = [liked EXCEPT ![post.heart] = ~post.liked]
            /\ lost' = lost \union {post.heart}
  PROVE  HeartsInv'
<1>1. post \in LikePosts
  BY DEF HeartsInv, LikesTypeOK
<1>2. \A p \in posts' : p \in posts /\ p.heart # post.heart
  BY DEF HeartsInv, PostedOnce
<1>3. LikesTypeOK'
  BY <1>1 DEF HeartsInv, LikesTypeOK, LikePosts
<1>4. PostedOnce'
  BY <1>1, <1>2 DEF HeartsInv, LikesTypeOK, PostedOnce, LikePosts
<1>5. Recorded'
  <2> SUFFICES ASSUME NEW h \in clicked \ lost', OnlyHeart(h),
                      \A p \in posts' : p.heart = h => p.step = "recorded"
               PROVE  liked'[h] = (HeartBook[h] \in LikedBookIds)
    BY DEF Recorded, OnlyHeart, LikedBookIds
  <2>1. h \notin lost /\ liked'[h] = liked[h]
    BY <1>1 DEF HeartsInv, LikesTypeOK
  <2>2. \A p \in posts : p.heart = h => p.step = "recorded"
    OBVIOUS
  <2> QED BY <2>1, <2>2 DEF HeartsInv, Recorded
<1> QED BY <1>3, <1>4, <1>5 DEF HeartsInv

\* The pending flag keeps the posts of a heart in order: one that was clicked
\* and waits for nothing shows its book's last event.
THEOREM HeartIsLastLikeHolds == InterestSpec => []HeartIsLastLike
<1>1. HeartsInv /\ [InterestNext]_interestVars => HeartsInv'
  <2> SUFFICES ASSUME HeartsInv, [InterestNext]_interestVars PROVE HeartsInv'
    OBVIOUS
  <2>1. ASSUME NEW post \in posts, LikeAnswered(post) \/ LikeFailed(post)
        PROVE  HeartsInv'
    BY <2>1, PostEndsKeeps DEF LikeAnswered, LikeFailed
  <2>2. CASE UNCHANGED interestVars
    BY <2>2 DEF interestVars, HeartsInv, LikesTypeOK, PostedOnce, Recorded, OnlyHeart,
                LikedBookIds
  <2> QED BY <2>1, <2>2, ToggleLikeKeeps, SetLikeKeeps DEF InterestNext
<1>2. ASSUME HeartsInv PROVE HeartIsLastLike
  <2> SUFFICES ASSUME NEW h \in clicked \ lost, ~posting[h], OnlyHeart(h)
               PROVE  liked[h] = (HeartBook[h] \in LikedBookIds)
    BY DEF HeartIsLastLike, OnlyHeart
  <2>1. \A p \in posts : p.heart # h
    BY <1>2, IdleHeart DEF HeartsInv, LikesTypeOK
  <2> QED BY <1>2, <2>1 DEF HeartsInv, Recorded
<1>3. HeartsInv => HeartIsLastLike
  BY <1>2
<1> QED BY <1>1, <1>3, InitHearts, PTL DEF InterestSpec

-----------------------------------------------------------------------------
(* Walk-in sales *)

OrderRows == [status : OrderStatus, channel : OrderChannel, shipments : Nat, form : Nat]
SaleItems == UNION {[D -> Nat] : D \in SUBSET ShopBook}
SalePost(f, channel, items, step) ==
  [form |-> f, channel |-> channel, items |-> items, step |-> step]
SalePosts == [form : 1..MaxSales, channel : OrderChannel, items : SaleItems,
              step : {"sent", "recorded", "unheard"}]
SaleForms == [n : 0..MaxSales, items : SaleItems, pending : BOOLEAN]

ListFields ==
  {"filter", "offset", "rows", "count", "loading", "error", "showForm", "loaded"}

SalesTypeOK ==
  /\ DOMAIN orderList = ListFields
  /\ table \in Seq(OrderRows)
  /\ saleForm \in SaleForms
  /\ orderList.showForm \/ saleForm.pending => saleForm.n # 0
  /\ sales \subseteq SalePosts /\ IsFiniteSet(sales)
  /\ refusals \in [1..MaxSales -> Nat]

\* The sales of a form that may still become an order.
Coming(f) == {sale \in sales : sale.form = f /\ sale.step # "recorded"}

\* Every order of a form, there or coming, took a press of its button, and the
\* button came back by an answer that was no success.
Pressed(f) ==
  Cardinality(Logged(f)) + Cardinality(Coming(f))
    <= refusals[f] + (IF f = saleForm.n /\ ~saleForm.pending THEN 0 ELSE 1)

\* A form that is not opened yet has no sale, and no order.
Unopened(f) == f > saleForm.n => Logged(f) = {} /\ \A sale \in sales : sale.form # f

\* A recorded sale has its order. A form that waits, and was never refused, has
\* its order or its sale.
Followed(f) ==
  /\ \A sale \in sales : sale.form = f /\ sale.step = "recorded" => Logged(f) # {}
  /\ f = saleForm.n /\ saleForm.pending /\ refusals[f] = 0
       => Logged(f) # {} \/ \E sale \in sales : sale.form = f

SalesInv ==
  SalesTypeOK /\ \A f \in 1..MaxSales : Pressed(f) /\ Unopened(f) /\ Followed(f)

\* The bounds of a form.
LEMMA SalesConstants ==
  MaxSales \in Nat /\ StoreChannel \subseteq OrderChannel /\ "completed" \in OrderStatus
BY AdminAssumption DEF OrderChannel, OrderStatus

\* One element more, or one less.
LEMMA OneMoreOrLess ==
  ASSUME NEW S, IsFiniteSet(S), NEW x
  PROVE  /\ Cardinality(S) \in Nat
         /\ IsFiniteSet(S \union {x}) /\ IsFiniteSet(S \ {x})
         /\ Cardinality(S \union {x}) = Cardinality(S) + (IF x \in S THEN 0 ELSE 1)
         /\ Cardinality(S \ {x}) = Cardinality(S) - (IF x \in S THEN 1 ELSE 0)
<1>1. Cardinality(S) \in Nat
  BY FS_CardinalityType
<1>2. /\ IsFiniteSet(S \union {x})
      /\ Cardinality(S \union {x}) = IF x \in S THEN Cardinality(S) ELSE Cardinality(S) + 1
  BY FS_AddElement, Zenon
<1>3. /\ IsFiniteSet(S \ {x})
      /\ Cardinality(S \ {x}) = IF x \in S THEN Cardinality(S) - 1 ELSE Cardinality(S)
  BY FS_RemoveElement, Zenon
<1> QED BY <1>1, <1>2, <1>3

\* Orders and sales are finitely many.
LEMMA SalesFinite ==
  ASSUME SalesTypeOK, NEW f
  PROVE  /\ IsFiniteSet(Logged(f)) /\ Cardinality(Logged(f)) \in Nat
         /\ IsFiniteSet(Coming(f)) /\ Cardinality(Coming(f)) \in Nat
<1>1. Len(table) \in Nat /\ Logged(f) \subseteq 1..Len(table)
  BY DEF SalesTypeOK, Logged
<1>2. IsFiniteSet(1..Len(table))
  BY <1>1, FS_Interval
<1>3. IsFiniteSet(Logged(f))
  BY <1>1, <1>2, FS_Subset
<1>4. IsFiniteSet(Coming(f))
  BY FS_Subset DEF SalesTypeOK, Coming
<1> QED BY <1>3, <1>4, FS_CardinalityType

\* No book is picked yet.
LEMMA NoItems == NoForm.items \in SaleItems
<1> DEFINE none == [b \in {} |-> 0]
<1>1. none \in [{} -> Nat] /\ {} \in SUBSET ShopBook
  OBVIOUS
<1> HIDE DEF none
<1>2. none \in SaleItems
  BY <1>1 DEF SaleItems
<1>3. [n |-> 0, items |-> none, pending |-> FALSE].items = none
  OBVIOUS
<1> QED BY <1>2, <1>3 DEF NoForm, none

LEMMA InitSales == AdminInit => SalesInv
<1> SUFFICES ASSUME AdminInit PROVE SalesInv
  OBVIOUS
<1>1. /\ table = [i \in DOMAIN OpeningOrders |->
                   [status |-> OpeningOrders[i].status,
                    channel |-> OpeningOrders[i].channel, shipments |-> 0, form |-> 0]]
      /\ saleForm = NoForm /\ sales = {} /\ refusals = [f \in 1..MaxSales |-> 0]
      /\ orderList.showForm = FALSE /\ DOMAIN orderList = ListFields
  BY DEF AdminInit, OrderListInit, ListFields
<1>2. table \in Seq(OrderRows)
  <2>1. /\ Len(OpeningOrders) \in Nat /\ DOMAIN OpeningOrders = 1..Len(OpeningOrders)
        /\ \A i \in DOMAIN OpeningOrders :
             OpeningOrders[i].status \in OrderStatus /\ OpeningOrders[i].channel \in OrderChannel
    <3> DEFINE R == [status : OrderStatus, channel : OrderChannel]
    <3>1. \A r \in R : r.status \in OrderStatus /\ r.channel \in OrderChannel
      OBVIOUS
    <3>2. OpeningOrders \in Seq(R)
      BY AdminAssumption
    <3> HIDE DEF R
    <3>3. /\ Len(OpeningOrders) \in Nat /\ DOMAIN OpeningOrders = 1..Len(OpeningOrders)
          /\ \A i \in DOMAIN OpeningOrders : OpeningOrders[i] \in R
      BY <3>2
    <3> QED BY <3>1, <3>3
  <2>2. table \in [1..Len(OpeningOrders) -> OrderRows]
    BY <1>1, <2>1 DEF OrderRows
  <2>3. \A T, n : n \in Nat => [1..n -> T] \subseteq Seq(T)
    OBVIOUS
  <2> QED BY <2>1, <2>2, <2>3
<1>3. MaxSales \in Nat
  BY AdminAssumption
<1>5. NoForm \in SaleForms /\ NoForm.n = 0 /\ NoForm.pending = FALSE
  <2> DEFINE none == NoForm.items
  <2>1. none \in SaleItems
    BY NoItems
  <2>2. NoForm = [n |-> 0, items |-> none, pending |-> FALSE]
    BY DEF NoForm, none
  <2> HIDE DEF none
  <2>3. [n |-> 0, items |-> none, pending |-> FALSE] \in SaleForms
    BY <1>3, <2>1 DEF SaleForms
  <2>4. /\ [n |-> 0, items |-> none, pending |-> FALSE].n = 0
        /\ [n |-> 0, items |-> none, pending |-> FALSE].pending = FALSE
    OBVIOUS
  <2> QED BY <2>2, <2>3, <2>4
<1>6. SalesTypeOK
  BY <1>1, <1>2, <1>5, FS_EmptySet DEF SalesTypeOK
<1>7. ASSUME NEW f \in 1..MaxSales PROVE Logged(f) = {} /\ Coming(f) = {}
  BY <1>1, <1>3 DEF Logged, Coming
<1>8. ASSUME NEW f \in 1..MaxSales PROVE Pressed(f) /\ Unopened(f) /\ Followed(f)
  <2>1. Cardinality({}) = 0
    BY FS_EmptySet
  <2>2. /\ Logged(f) = {} /\ Coming(f) = {} /\ saleForm.n = 0 /\ saleForm.pending = FALSE
        /\ sales = {} /\ refusals[f] = 0 /\ f # 0
    BY <1>1, <1>3, <1>5, <1>7
  <2>3. Pressed(f)
    BY <2>1, <2>2 DEF Pressed
  <2> QED BY <2>2, <2>3 DEF Unopened, Followed
<1> QED BY <1>6, <1>8 DEF SalesInv

\* Steps that leave sales, forms and their orders.
LEMMA SalesUntouched ==
  ASSUME SalesInv, UNCHANGED <<saleForm, sales, refusals>>,
         DOMAIN orderList' = ListFields, orderList'.showForm => orderList.showForm,
         table' \in Seq(OrderRows), \A f \in 1..MaxSales : Logged(f)' = Logged(f)
  PROVE  SalesInv'
<1>1. SalesTypeOK'
  BY DEF SalesInv, SalesTypeOK
<1>2. ASSUME NEW f \in 1..MaxSales PROVE (Pressed(f) /\ Unopened(f) /\ Followed(f))'
  BY DEF SalesInv, Pressed, Unopened, Followed, Coming
<1> QED BY <1>1, <1>2 DEF SalesInv

\* The order of a sale is one more of its form.
LEMMA OrderOfSale ==
  ASSUME SalesTypeOK, NEW sale \in SalePosts, CreateStoreSale(sale)
  PROVE  /\ table' \in Seq(OrderRows)
         /\ \A f : f # sale.form => Logged(f)' = Logged(f)
         /\ Logged(sale.form)' = Logged(sale.form) \union {Len(table) + 1}
         /\ Len(table) + 1 \notin Logged(sale.form)
<1> DEFINE row == [status |-> "completed", channel |-> sale.channel,
                   shipments |-> 0, form |-> sale.form]
           n == Len(table) + 1
<1>1. table' = Append(table, row) /\ row \in OrderRows /\ row.form = sale.form
  <2>1. sale.channel \in OrderChannel /\ sale.form \in Nat /\ "completed" \in OrderStatus
    BY SalesConstants DEF SalePosts
  <2>2. row \in OrderRows
    BY <2>1 DEF OrderRows
  <2>3. row.form = sale.form
    OBVIOUS
  <2> QED BY <2>2, <2>3, Zenon DEF CreateStoreSale
<1> HIDE DEF row
<1>2. table \in Seq(OrderRows)
  BY DEF SalesTypeOK
<1>3. /\ table' \in Seq(OrderRows) /\ Len(table) \in Nat
      /\ DOMAIN table = 1..Len(table) /\ DOMAIN table' = 1..n
      /\ \A i \in 1..Len(table) : table'[i] = table[i]
      /\ table'[n] = row
  BY <1>1, <1>2
<1>4. \A f : Logged(f)' = {i \in DOMAIN table' : table'[i].form = f}
  BY DEF Logged
<1> QED BY <1>1, <1>3, <1>4 DEF Logged

\* A sale is recorded, heard or not: what was coming is there.
LEMMA RecordSaleKeeps ==
  ASSUME SalesInv, NEW sale \in sales, CreateStoreSale(sale),
         \/ sale.step = "sent"
              /\ sales' = (sales \ {sale}) \union {[sale EXCEPT !.step = "recorded"]}
         \/ sale.step = "unheard" /\ sales' = sales \ {sale},
         UNCHANGED <<orderList, saleForm, refusals>>
  PROVE  SalesInv'
<1> DEFINE done == SalePost(sale.form, sale.channel, sale.items, "recorded")
           f0 == sale.form
<1>1. sale \in SalePosts /\ f0 \in 1..MaxSales
  BY DEF SalesInv, SalesTypeOK, SalePosts
<1>2. /\ sale.step # "recorded"
      /\ sales' = (sales \ {sale}) \union {done} \/ sales' = sales \ {sale}
  BY <1>1 DEF SalePost, SalePosts
<1>3. done \in SalePosts /\ done.form = f0 /\ done.step = "recorded"
  BY <1>1 DEF SalePost, SalePosts
<1> HIDE DEF done
<1>4. /\ table' \in Seq(OrderRows)
      /\ \A f : f # f0 => Logged(f)' = Logged(f)
      /\ Logged(f0)' = Logged(f0) \union {Len(table) + 1}
      /\ Len(table) + 1 \notin Logged(f0)
  BY <1>1, OrderOfSale DEF SalesInv
<1>5. SalesTypeOK'
  <2>1. IsFiniteSet(sales')
    <3>1. IsFiniteSet(sales) /\ IsFiniteSet(sales \ {sale})
      BY OneMoreOrLess DEF SalesInv, SalesTypeOK
    <3>2. IsFiniteSet((sales \ {sale}) \union {done})
      BY <3>1, OneMoreOrLess
    <3> QED BY <1>2, <3>1, <3>2
  <2> QED BY <1>2, <1>3, <1>4, <2>1 DEF SalesInv, SalesTypeOK
<1>6. \A f : Coming(f)' = Coming(f) \ {sale}
  BY <1>2, <1>3 DEF Coming
<1>7. ASSUME NEW f \in 1..MaxSales PROVE Pressed(f)'
  <2>1. SalesTypeOK /\ Pressed(f)
    BY DEF SalesInv
  <2>2. CASE f = f0
    <3>1. /\ Cardinality(Logged(f)') = Cardinality(Logged(f)) + 1
          /\ Cardinality(Coming(f)') = Cardinality(Coming(f)) - 1
      <4>1. IsFiniteSet(Logged(f)) /\ IsFiniteSet(Coming(f)) /\ sale \in Coming(f)
        BY <1>2, <2>1, <2>2, SalesFinite DEF Coming
      <4>2. Cardinality(Logged(f) \union {Len(table) + 1}) = Cardinality(Logged(f)) + 1
        BY <1>4, <2>2, <4>1, OneMoreOrLess
      <4>3. Cardinality(Coming(f) \ {sale}) = Cardinality(Coming(f)) - 1
        BY <4>1, OneMoreOrLess
      <4> QED BY <1>4, <1>6, <2>2, <4>2, <4>3
    <3> QED BY <2>1, <3>1, SalesFinite DEF Pressed
  <2>3. CASE f # f0
    <3>1. Logged(f)' = Logged(f) /\ Coming(f)' = Coming(f)
      BY <1>4, <1>6, <2>3 DEF Coming
    <3> QED BY <2>1, <3>1 DEF Pressed
  <2> QED BY <2>2, <2>3
<1>8. ASSUME NEW f \in 1..MaxSales PROVE (Unopened(f) /\ Followed(f))'
  <2>1. Unopened(f) /\ Followed(f)
    BY DEF SalesInv
  <2>2. CASE f = f0
    BY <1>4, <2>1, <2>2 DEF Unopened, Followed
  <2>3. CASE f # f0
    BY <1>2, <1>3, <1>4, <2>1, <2>3 DEF Unopened, Followed
  <2> QED BY <2>2, <2>3
<1> QED BY <1>5, <1>7, <1>8 DEF SalesInv

\* The form is asked to save: one press more, and no other until it is answered.
LEMMA LogSaleKeeps ==
  ASSUME SalesInv, NEW channel \in StoreChannel, LogSale(channel), UNCHANGED table
  PROVE  SalesInv'
<1> DEFINE f0 == saleForm.n
           new == SalePost(f0, channel, saleForm.items, "sent")
<1>1. /\ orderList.showForm /\ ~saleForm.pending
      /\ saleForm' = [saleForm EXCEPT !.pending = TRUE]
      /\ sales' = sales \union {new} /\ UNCHANGED <<orderList, refusals, table>>
  BY DEF LogSale, SendSale, SalePost
<1>2. saleForm \in SaleForms /\ f0 \in 1..MaxSales
  <2>1. saleForm \in SaleForms /\ saleForm.n # 0
    BY <1>1 DEF SalesInv, SalesTypeOK
  <2> QED BY <2>1, SalesConstants DEF SaleForms
<1>3. /\ saleForm' \in SaleForms /\ saleForm'.n = f0 /\ saleForm'.pending = TRUE
      /\ new \in SalePosts /\ new.form = f0 /\ new.step = "sent"
  BY <1>1, <1>2, SalesConstants DEF SaleForms, SalePosts, SalePost
<1> HIDE DEF new
<1>4. SalesTypeOK'
  <2>1. IsFiniteSet(sales')
    BY <1>1, FS_AddElement DEF SalesInv, SalesTypeOK
  <2> QED BY <1>1, <1>2, <1>3, <2>1 DEF SalesInv, SalesTypeOK
<1>5. \A f : Logged(f)' = Logged(f)
  BY <1>1 DEF Logged
<1>6. ASSUME NEW f \in 1..MaxSales PROVE Pressed(f)'
  <2>1. SalesTypeOK /\ Pressed(f)
    BY DEF SalesInv
  <2>2. CASE f = f0
    <3>1. Coming(f)' = Coming(f) \union {new}
      BY <1>1, <1>3, <2>2 DEF Coming
    <3>2. Cardinality(Coming(f)') <= Cardinality(Coming(f)) + 1
          /\ Cardinality(Coming(f)') \in Nat
      <4>1. IsFiniteSet(Coming(f)) /\ IsFiniteSet(Coming(f) \union {new})
        BY <2>1, SalesFinite, OneMoreOrLess
      <4>2. Cardinality(Coming(f) \union {new})
              = Cardinality(Coming(f)) + (IF new \in Coming(f) THEN 0 ELSE 1)
        BY <4>1, OneMoreOrLess
      <4>3. Cardinality(Coming(f)) \in Nat /\ Cardinality(Coming(f) \union {new}) \in Nat
        BY <4>1, OneMoreOrLess
      <4> QED BY <3>1, <4>2, <4>3
    <3>3. refusals[f] \in Nat
      BY <2>1 DEF SalesTypeOK
    <3> QED BY <1>1, <1>3, <1>5, <2>1, <2>2, <3>2, <3>3, SalesFinite DEF Pressed
  <2>3. CASE f # f0
    <3>1. Coming(f)' = Coming(f)
      BY <1>1, <1>3, <2>3 DEF Coming
    <3> QED BY <1>1, <1>3, <1>5, <2>1, <2>3, <3>1 DEF Pressed
  <2> QED BY <2>2, <2>3
<1>7. ASSUME NEW f \in 1..MaxSales PROVE (Unopened(f) /\ Followed(f))'
  <2>1. Unopened(f) /\ Followed(f)
    BY DEF SalesInv
  <2> QED BY <1>1, <1>2, <1>3, <1>5, <2>1 DEF Unopened, Followed
<1> QED BY <1>4, <1>6, <1>7 DEF SalesInv

\* An answer that is no success brings the button back, and is counted.
LEMMA SaleRefusedKeeps ==
  ASSUME SalesInv, SaleRefused, UNCHANGED table
  PROVE  SalesInv'
<1>1. PICK sale \in sales :
        /\ sale.step # "unheard"
        /\ \/ sales' = sales \ {sale}
           \/ /\ sale.step = "sent"
              /\ sales' = (sales \ {sale}) \union {[sale EXCEPT !.step = "unheard"]}
        /\ refusals' = [refusals EXCEPT ![sale.form] = @ + 1]
        /\ saleForm' = IF sale.form = saleForm.n
                       THEN [saleForm EXCEPT !.pending = FALSE] ELSE saleForm
        /\ UNCHANGED orderList
  BY DEF SaleRefused
<1> DEFINE f0 == sale.form
           left == SalePost(f0, sale.channel, sale.items, "unheard")
<1>2. /\ sale \in SalePosts /\ f0 \in 1..MaxSales /\ saleForm \in SaleForms
      /\ refusals \in [1..MaxSales -> Nat]
  BY DEF SalesInv, SalesTypeOK, SalePosts
<1>3. /\ \/ sales' = sales \ {sale}
         \/ sale.step = "sent" /\ sales' = (sales \ {sale}) \union {left}
      /\ left \in SalePosts /\ left.form = f0 /\ left.step = "unheard"
  <2>1. sale.step = "sent" => [sale EXCEPT !.step = "unheard"] = left
    BY <1>2 DEF SalePost, SalePosts
  <2>2. left \in SalePosts /\ left.form = f0 /\ left.step = "unheard"
    BY <1>2 DEF SalePost, SalePosts
  <2> QED BY <1>1, <2>1, <2>2
<1> HIDE DEF left
<1>4. /\ saleForm' \in SaleForms /\ saleForm'.n = saleForm.n
      /\ saleForm'.pending => saleForm.pending /\ f0 # saleForm.n
      /\ f0 # saleForm.n => saleForm' = saleForm
  BY <1>1, <1>2 DEF SaleForms
<1>5. SalesTypeOK'
  <2>1. IsFiniteSet(sales')
    <3>1. IsFiniteSet(sales) /\ IsFiniteSet(sales \ {sale})
      BY OneMoreOrLess DEF SalesInv, SalesTypeOK
    <3>2. IsFiniteSet((sales \ {sale}) \union {left})
      BY <3>1, OneMoreOrLess
    <3> QED BY <1>3, <3>1, <3>2
  <2>2. orderList'.showForm \/ saleForm'.pending => saleForm'.n # 0
    BY <1>1, <1>4 DEF SalesInv, SalesTypeOK
  <2> QED BY <1>1, <1>2, <1>3, <1>4, <2>1, <2>2 DEF SalesInv, SalesTypeOK
<1>6. \A f : Logged(f)' = Logged(f)
  BY DEF Logged
<1>7. ASSUME NEW f \in 1..MaxSales PROVE Pressed(f)'
  <2>1. SalesTypeOK /\ Pressed(f) /\ refusals[f] \in Nat
    BY DEF SalesInv, SalesTypeOK
  <2>2. CASE f = f0
    <3>1. Cardinality(Coming(f)') <= Cardinality(Coming(f)) /\ Cardinality(Coming(f)') \in Nat
      <4>1. CASE sales' = sales \ {sale}
        <5>1. Coming(f)' \subseteq Coming(f)
          BY <4>1 DEF Coming
        <5> QED BY <2>1, <5>1, SalesFinite, FS_Subset, FS_CardinalityType
      <4>2. CASE sale.step = "sent" /\ sales' = (sales \ {sale}) \union {left}
        <5>1. Coming(f)' = (Coming(f) \ {sale}) \union {left} /\ sale \in Coming(f)
          BY <1>3, <2>2, <4>2 DEF Coming
        <5>2. /\ IsFiniteSet(Coming(f)) /\ Cardinality(Coming(f)) \in Nat
              /\ IsFiniteSet(Coming(f) \ {sale})
              /\ Cardinality(Coming(f) \ {sale}) = Cardinality(Coming(f)) - 1
          BY <2>1, <5>1, SalesFinite, OneMoreOrLess
        <5>3. /\ Cardinality((Coming(f) \ {sale}) \union {left})
                   = Cardinality(Coming(f) \ {sale})
                       + (IF left \in Coming(f) \ {sale} THEN 0 ELSE 1)
              /\ IsFiniteSet((Coming(f) \ {sale}) \union {left})
          BY <5>2, OneMoreOrLess
        <5>4. Cardinality((Coming(f) \ {sale}) \union {left}) \in Nat
          BY <5>3, FS_CardinalityType
        <5> QED BY <5>1, <5>2, <5>3, <5>4
      <4> QED BY <1>3, <4>1, <4>2
    <3>2. refusals'[f] = refusals[f] + 1
      BY <1>1, <1>2, <2>2
    <3>3. (f = saleForm'.n /\ ~saleForm'.pending) \/ f # saleForm.n
      BY <1>4, <2>2
    <3> QED BY <1>4, <1>6, <2>1, <2>2, <3>1, <3>2, <3>3, SalesFinite DEF Pressed
  <2>3. CASE f # f0
    <3>1. Coming(f)' = Coming(f) /\ refusals'[f] = refusals[f]
      BY <1>1, <1>2, <1>3, <2>3 DEF Coming
    <3>2. f = saleForm.n => saleForm' = saleForm
      BY <1>4, <1>1, <2>3
    <3> QED BY <1>4, <1>6, <2>1, <3>1, <3>2 DEF Pressed
  <2> QED BY <2>2, <2>3
<1>8. ASSUME NEW f \in 1..MaxSales PROVE (Unopened(f) /\ Followed(f))'
  <2>1. Unopened(f) /\ Followed(f) /\ refusals[f] \in Nat
    BY DEF SalesInv, SalesTypeOK
  <2>2. CASE f = f0
    <3>1. refusals'[f] # 0
      BY <1>1, <1>2, <2>1, <2>2
    <3> QED BY <1>3, <1>4, <1>6, <2>1, <2>2, <3>1 DEF Unopened, Followed
  <2>3. CASE f # f0
    <3>1. refusals'[f] = refusals[f]
      BY <1>1, <1>2, <2>3
    <3> QED BY <1>3, <1>4, <1>6, <2>1, <2>3, <3>1 DEF Unopened, Followed
  <2> QED BY <2>2, <2>3
<1> QED BY <1>5, <1>7, <1>8 DEF SalesInv

\* A new form is opened, or one is put away with its sale under way.
LEMMA ToggleFormKeeps ==
  ASSUME SalesInv, ToggleForm, UNCHANGED table
  PROVE  SalesInv'
<1>1. /\ saleForm \in SaleForms /\ UNCHANGED <<sales, refusals, table>>
      /\ DOMAIN orderList' = ListFields
  BY DEF ToggleForm, SalesInv, SalesTypeOK
<1>2. \A f : Logged(f)' = Logged(f) /\ Coming(f)' = Coming(f)
  BY <1>1 DEF Logged, Coming
<1>3. CASE orderList.showForm
  <2>1. saleForm' = saleForm /\ saleForm.n # 0
    BY <1>3 DEF ToggleForm, SalesInv, SalesTypeOK
  <2>2. SalesTypeOK'
    BY <1>1, <2>1 DEF SalesInv, SalesTypeOK
  <2>3. ASSUME NEW f \in 1..MaxSales PROVE (Pressed(f) /\ Unopened(f) /\ Followed(f))'
    BY <1>1, <1>2, <2>1 DEF SalesInv, Pressed, Unopened, Followed
  <2> QED BY <2>2, <2>3 DEF SalesInv
<1>4. CASE ~orderList.showForm
  <2>1. saleForm.n < MaxSales /\ saleForm' = [NoForm EXCEPT !.n = saleForm.n + 1]
    BY <1>4 DEF ToggleForm
  <2>2. MaxSales \in Nat /\ saleForm.n \in 0..MaxSales
    BY <1>1, AdminAssumption DEF SaleForms
  <2>3. saleForm' = [n |-> saleForm.n + 1, items |-> NoForm.items, pending |-> FALSE]
    BY <2>1 DEF NoForm
  <2>4. NoForm.items \in SaleItems
    BY NoItems
  <2>5. saleForm' \in SaleForms /\ saleForm'.n = saleForm.n + 1 /\ ~saleForm'.pending
    <3> DEFINE none == NoForm.items
    <3>1. none \in SaleItems /\ saleForm.n + 1 \in 0..MaxSales
      BY <2>1, <2>2, <2>4
    <3> HIDE DEF none
    <3>2. [n |-> saleForm.n + 1, items |-> none, pending |-> FALSE] \in SaleForms
      BY <3>1 DEF SaleForms
    <3> QED BY <2>3, <3>2 DEF none
  <2>6. SalesTypeOK'
    BY <1>1, <2>2, <2>5 DEF SalesInv, SalesTypeOK
  <2>7. ASSUME NEW f \in 1..MaxSales PROVE (Pressed(f) /\ Unopened(f) /\ Followed(f))'
    <3>1. Pressed(f) /\ Unopened(f) /\ Followed(f) /\ SalesTypeOK /\ refusals[f] \in Nat
      BY DEF SalesInv, SalesTypeOK
    <3>2. f = saleForm'.n => Logged(f) = {} /\ Coming(f) = {}
      BY <2>2, <2>5, <3>1 DEF Unopened, Coming
    <3>3. Pressed(f)'
      BY <1>1, <1>2, <2>5, <3>1, <3>2, SalesFinite, FS_EmptySet DEF Pressed
    <3>4. Unopened(f)'
      BY <1>1, <1>2, <2>2, <2>5, <3>1 DEF Unopened
    <3>5. Followed(f)'
      BY <1>1, <1>2, <2>5, <3>1 DEF Followed
    <3> QED BY <3>3, <3>4, <3>5
  <2> QED BY <2>6, <2>7 DEF SalesInv
<1> QED BY <1>3, <1>4

\* The books of a form are picked.
LEMMA PickItemsKeeps ==
  ASSUME SalesInv, NEW b \in ShopBook, AddItem(b) \/ RemovePicked(b), UNCHANGED table
  PROVE  SalesInv'
<1>1. saleForm \in SaleForms /\ UNCHANGED <<orderList, sales, refusals, table>>
  BY DEF AddItem, RemovePicked, SalesInv, SalesTypeOK
<1> DEFINE items == saleForm.items
<1>2. PICK D \in SUBSET ShopBook : items \in [D -> Nat]
  BY <1>1 DEF SaleForms, SaleItems
<1>3. PICK new \in SaleItems : saleForm' = [saleForm EXCEPT !.items = new]
  <2>1. CASE AddItem(b)
    <3> DEFINE quantity == IF b \in DOMAIN items THEN items[b] + 1 ELSE 1
               more == [c \in DOMAIN items \union {b} |-> IF c = b THEN quantity ELSE items[c]]
    <3>1. saleForm' = [saleForm EXCEPT !.items = more]
      BY <2>1 DEF AddItem
    <3>2. more \in [D \union {b} -> Nat] /\ D \union {b} \in SUBSET ShopBook
      BY <1>2
    <3>3. more \in SaleItems
      BY <3>2 DEF SaleItems
    <3> QED BY <3>1, <3>3
  <2>2. CASE RemovePicked(b)
    <3> DEFINE fewer == [c \in DOMAIN items \ {b} |-> items[c]]
    <3>1. saleForm' = [saleForm EXCEPT !.items = fewer]
      BY <1>1, <2>2 DEF RemovePicked, SaleForms
    <3>2. fewer \in [D \ {b} -> Nat] /\ D \ {b} \in SUBSET ShopBook
      BY <1>2
    <3>3. fewer \in SaleItems
      BY <3>2 DEF SaleItems
    <3> QED BY <3>1, <3>3
  <2> QED BY <2>1, <2>2
<1>4. /\ saleForm' \in SaleForms /\ saleForm'.n = saleForm.n
      /\ saleForm'.pending = saleForm.pending
  BY <1>1, <1>3 DEF SaleForms
<1>5. SalesTypeOK'
  BY <1>1, <1>4 DEF SalesInv, SalesTypeOK
<1>6. ASSUME NEW f \in 1..MaxSales PROVE (Pressed(f) /\ Unopened(f) /\ Followed(f))'
  <2>1. Logged(f)' = Logged(f) /\ Coming(f)' = Coming(f)
    BY <1>1 DEF Logged, Coming
  <2> QED BY <1>1, <1>4, <2>1 DEF SalesInv, Pressed, Unopened, Followed
<1> QED BY <1>5, <1>6 DEF SalesInv

\* The sale is done: the form goes, and the list loads.
LEMMA SaleDoneKeeps ==
  ASSUME SalesInv, SaleDone
  PROVE  SalesInv'
<1>1. PICK sale \in sales :
        /\ sale.step = "recorded" /\ sales' = sales \ {sale}
        /\ UNCHANGED <<saleForm, refusals, table>>
  BY DEF SaleDone
<1>2. DOMAIN orderList' = ListFields /\ orderList'.showForm = FALSE
  BY DEF SaleDone, Load, SalesInv, SalesTypeOK, ListFields
<1>3. sale \in SalePosts
  BY DEF SalesInv, SalesTypeOK
<1>4. SalesTypeOK'
  <2>1. IsFiniteSet(sales')
    BY <1>1, OneMoreOrLess DEF SalesInv, SalesTypeOK
  <2> QED BY <1>1, <1>2, <2>1 DEF SalesInv, SalesTypeOK
<1>5. \A f : Logged(f)' = Logged(f) /\ Coming(f)' = Coming(f)
  BY <1>1 DEF Logged, Coming
<1>6. ASSUME NEW f \in 1..MaxSales PROVE (Pressed(f) /\ Unopened(f) /\ Followed(f))'
  <2>1. Pressed(f) /\ Unopened(f) /\ Followed(f)
    BY DEF SalesInv
  <2>2. sale.form = f => Logged(f) # {}
    BY <1>1, <2>1 DEF Followed
  <2>3. Pressed(f)' /\ Unopened(f)'
    BY <1>1, <1>5, <2>1 DEF Pressed, Unopened
  <2>4. Followed(f)'
    BY <1>1, <1>5, <2>1, <2>2 DEF Followed
  <2> QED BY <2>3, <2>4
<1> QED BY <1>4, <1>6 DEF SalesInv

\* The list's other steps: the form and its sales stay.
LEMMA ListingKeepsSales ==
  ASSUME SalesInv, UNCHANGED table,
         \/ \E filter \in Filter : ChangeFilter(filter)
         \/ \E offset : Turn(offset)
         \/ ReadOrders \/ ShowOrders
  PROVE  SalesInv'
<1>1. UNCHANGED <<saleForm, sales, refusals>>
  BY DEF ChangeFilter, Turn, ReadOrders, ShowOrders
<1>2. DOMAIN orderList' = ListFields /\ (orderList'.showForm => orderList.showForm)
  <2> DOMAIN orderList = ListFields
    BY DEF SalesInv, SalesTypeOK
  <2>1. CASE ReadOrders
    BY <2>1 DEF ReadOrders
  <2>2. CASE ShowOrders
    BY <2>2 DEF ShowOrders, ListFields
  <2>3. CASE \E filter \in Filter : ChangeFilter(filter)
    BY <2>3 DEF ChangeFilter, Load, ListFields
  <2>4. CASE \E offset : Turn(offset)
    BY <2>4 DEF Turn, Load, ListFields
  <2> QED BY <2>1, <2>2, <2>3, <2>4
<1>3. table' \in Seq(OrderRows)
  BY DEF SalesInv, SalesTypeOK
<1>4. \A f \in 1..MaxSales : Logged(f)' = Logged(f)
  BY DEF Logged
<1> QED BY <1>1, <1>2, <1>3, <1>4, SalesUntouched

LEMMA OrderListKeepsSales ==
  ASSUME SalesInv, OrderListNext
  PROVE  SalesInv'
<1>1. CASE Listing /\ UNCHANGED table
  <2>1. CASE \E turn \in {-1, 1} : Turn(orderList.offset + turn * ListPageSize)
    BY <1>1, <2>1, ListingKeepsSales
  <2> QED BY <1>1, <2>1, ListingKeepsSales, ToggleFormKeeps, PickItemsKeeps, LogSaleKeeps,
             SaleRefusedKeeps DEF Listing
<1>2. CASE RecordSale
  BY <1>2, RecordSaleKeeps DEF RecordSale
<1>3. CASE SaleDone
  BY <1>3, SaleDoneKeeps
<1> QED BY <1>1, <1>2, <1>3 DEF OrderListNext

-----------------------------------------------------------------------------
(* The page of one order *)

DetailPages == [order : {NotShown} \union [status : OrderStatus, shipments : Nat],
                choice : OrderStatus \union {""}, pending : BOOLEAN, error : BOOLEAN,
                picked : BOOLEAN, acts : Nat]
ReloadGets == [n : Nat, step : {"asked", "order", "read"},
               status : OrderStatus \union {""}, shipments : Nat]
Acts == [kind : {"status", "shipment"}, status : OrderStatus, done : BOOLEAN,
         picked : BOOLEAN]
Histories == [overlap : BOOLEAN, others : BOOLEAN, failed : BOOLEAN]

DetailTypeOK ==
  /\ table \in Seq(OrderRows) /\ Len(table) > 0
  /\ detail \in DetailPages
  /\ detail.order # NotShown => detail.choice \in OrderStatus
  /\ reloads \subseteq ReloadGets
  /\ \A get \in reloads : get.step # "asked" => get.status \in OrderStatus
  /\ act \subseteq Acts
  /\ detailHistory \in Histories

\* The buttons wait for the one request that is under way.
OneAct ==
  /\ ~detail.pending => act = {}
  /\ \A a, b \in act : a = b

\* What was picked since the order was shown, and what is written of it.
PickedIsWritten ==
  /\ detail.order # NotShown /\ ~detail.picked => detail.choice = detail.order.status
  /\ \A a \in act : a.kind = "status" => a.picked

Calm == ~detailHistory.overlap /\ ~detailHistory.others /\ ~detailHistory.failed
Unwritten == \A a \in act : ~a.done

\* In calm, until a request of the page has changed the order: what was read of
\* it, and what is shown when nothing more is to be read, is the order.
DetailCurrent ==
  Calm =>
    /\ \A g, h \in reloads : g = h
    /\ Unwritten =>
         /\ \A get \in reloads :
              /\ get.step # "asked" => get.status = table[1].status
              /\ get.step = "read" => get.shipments = table[1].shipments
         /\ reloads = {} /\ detail.order # NotShown
              => detail.order = [status |-> table[1].status, shipments |-> table[1].shipments]

DetailInv == DetailTypeOK /\ OneAct /\ PickedIsWritten /\ DetailCurrent

\* The statuses that requests and the webhook write.
LEMMA Statuses ==
  {"shipped", "paid"} \subseteq OrderStatus /\ PickStatus \subseteq OrderStatus
BY AdminAssumption DEF OrderStatus

\* The first order is there, and can be replaced.
LEMMA FirstOrder ==
  ASSUME NEW R, NEW s \in Seq(R), Len(s) > 0
  PROVE  /\ s[1] \in R
         /\ \A r \in R : /\ [s EXCEPT ![1] = r] \in Seq(R)
                         /\ Len([s EXCEPT ![1] = r]) = Len(s)
                         /\ [s EXCEPT ![1] = r][1] = r
OBVIOUS

LEMMA InitDetail == AdminInit => DetailInv
<1> SUFFICES ASSUME AdminInit PROVE DetailInv
  OBVIOUS
<1> DEFINE first == [n |-> 0, step |-> "asked", status |-> "", shipments |-> 0]
<1>1. /\ detail = [order |-> NotShown, choice |-> "", pending |-> FALSE, error |-> FALSE,
                   picked |-> FALSE, acts |-> 0]
      /\ reloads = {first} /\ act = {}
      /\ detailHistory = [overlap |-> FALSE, others |-> FALSE, failed |-> FALSE]
  BY DEF AdminInit, DetailInit, GET
<1>2. table \in Seq(OrderRows) /\ Len(table) > 0
  <2>1. table \in Seq(OrderRows)
    BY InitSales DEF SalesInv, SalesTypeOK
  <2>2. DOMAIN table = DOMAIN OpeningOrders
    BY DEF AdminInit
  <2>3. 1 \in DOMAIN OpeningOrders
    <3> DEFINE R == [status : OrderStatus, channel : OrderChannel]
    <3>1. OpeningOrders \in Seq(R) /\ OpeningOrders # <<>>
      BY AdminAssumption
    <3> HIDE DEF R
    <3> QED BY <3>1
  <2> QED BY <2>1, <2>2, <2>3
<1>3. first \in ReloadGets /\ first.step = "asked"
  BY DEF ReloadGets
<1> HIDE DEF first
<1>4. detail \in DetailPages /\ detailHistory \in Histories
  BY <1>1 DEF DetailPages, Histories
<1>5. DetailTypeOK
  BY <1>1, <1>2, <1>3, <1>4 DEF DetailTypeOK
<1>6. OneAct /\ PickedIsWritten /\ DetailCurrent
  BY <1>1, <1>3 DEF OneAct, PickedIsWritten, DetailCurrent
<1> QED BY <1>5, <1>6 DEF DetailInv

\* What a request has read so far.
LEMMA ReadKeeps ==
  ASSUME DetailInv, ReadOrder \/ ReadShipments
  PROVE  DetailInv'
<1>1. PICK get, new :
        /\ get \in reloads
        /\ \/ /\ get.step = "asked"
              /\ new = [get EXCEPT !.step = "order", !.status = table[1].status]
           \/ /\ get.step = "order"
              /\ new = [get EXCEPT !.step = "read", !.shipments = table[1].shipments]
        /\ reloads' = (reloads \ {get}) \union {new}
        /\ UNCHANGED <<table, detail, act, detailHistory>>
  BY DEF ReadOrder, ReadShipments
<1>2. /\ get \in ReloadGets /\ table[1] \in OrderRows
      /\ get.step # "asked" => get.status \in OrderStatus
  BY <1>1, FirstOrder DEF DetailInv, DetailTypeOK
<1>3. table[1].status \in OrderStatus /\ table[1].shipments \in Nat
  BY <1>2 DEF OrderRows
<1>4. /\ new \in ReloadGets /\ new.step # "asked" /\ new.status \in OrderStatus
      /\ new.step = "read" => new.shipments = table[1].shipments
      /\ new.status = table[1].status \/ (get.step # "asked" /\ new.status = get.status)
  BY <1>1, <1>2, <1>3 DEF ReloadGets
<1>5. DetailTypeOK'
  BY <1>1, <1>4 DEF DetailInv, DetailTypeOK
<1>6. OneAct' /\ PickedIsWritten'
  BY <1>1 DEF DetailInv, OneAct, PickedIsWritten
<1>7. DetailCurrent'
  <2> SUFFICES ASSUME Calm PROVE DetailCurrent'
    BY <1>1 DEF DetailCurrent, Calm
  <2>1. DetailCurrent /\ reloads' = {new}
    BY <1>1 DEF DetailInv, DetailCurrent
  <2>2. Unwritten => new.status = table[1].status
    BY <1>1, <1>4, <2>1 DEF DetailCurrent
  <2>3. UNCHANGED <<table, detail, act>>
    BY <1>1
  <2> QED BY <1>4, <2>1, <2>2, <2>3 DEF DetailCurrent, Unwritten
<1> QED BY <1>5, <1>6, <1>7 DEF DetailInv

LEMMA ShowOrderKeeps ==
  ASSUME DetailInv, ShowOrder
  PROVE  DetailInv'
<1>1. PICK get \in reloads :
        /\ get.step = "read" /\ reloads' = reloads \ {get}
        /\ detail' = [detail EXCEPT !.choice = get.status, !.picked = FALSE,
                        !.order = [status |-> get.status, shipments |-> get.shipments]]
        /\ UNCHANGED <<table, act, detailHistory>>
  BY DEF ShowOrder
<1> DEFINE read == [status |-> get.status, shipments |-> get.shipments]
<1>2. /\ get \in ReloadGets /\ detail \in DetailPages /\ get.status \in OrderStatus
      /\ get.shipments \in Nat
  BY <1>1 DEF DetailInv, DetailTypeOK, ReloadGets
<1>3. /\ read \in [status : OrderStatus, shipments : Nat]
      /\ read.status = get.status
  BY <1>2
<1>4. detail' = [detail EXCEPT !.choice = get.status, !.picked = FALSE, !.order = read]
  BY <1>1
<1> HIDE DEF read
<1>5. /\ detail' \in DetailPages /\ detail'.order = read /\ detail'.choice = get.status
      /\ detail'.pending = detail.pending /\ ~detail'.picked
  BY <1>2, <1>3, <1>4 DEF DetailPages
<1>6. DetailTypeOK'
  BY <1>1, <1>2, <1>5 DEF DetailInv, DetailTypeOK
<1>7. OneAct' /\ PickedIsWritten'
  BY <1>1, <1>3, <1>5 DEF DetailInv, OneAct, PickedIsWritten
<1>8. DetailCurrent'
  <2> SUFFICES ASSUME Calm PROVE DetailCurrent'
    BY <1>1 DEF DetailCurrent, Calm
  <2>1. DetailCurrent /\ reloads' = {}
    BY <1>1 DEF DetailInv, DetailCurrent
  <2>2. Unwritten => read = [status |-> table[1].status, shipments |-> table[1].shipments]
    BY <1>1, <2>1 DEF DetailCurrent, read
  <2> QED BY <1>1, <1>5, <2>1, <2>2 DEF DetailCurrent, Unwritten
<1> QED BY <1>6, <1>7, <1>8 DEF DetailInv

\* An error ends the calm.
LEMMA ReloadFailsKeeps ==
  ASSUME DetailInv, ReloadFails
  PROVE  DetailInv'
<1>1. /\ detail' = [detail EXCEPT !.error = TRUE] /\ reloads' \subseteq reloads
      /\ detailHistory' = [detailHistory EXCEPT !.failed = TRUE]
      /\ UNCHANGED <<table, act>>
  BY DEF ReloadFails
<1>2. detail \in DetailPages /\ detailHistory \in Histories
  BY DEF DetailInv, DetailTypeOK
<1>3. /\ detail' \in DetailPages /\ detail'.order = detail.order
      /\ detail'.choice = detail.choice /\ detail'.pending = detail.pending
      /\ detail'.picked = detail.picked
  BY <1>1, <1>2 DEF DetailPages
<1>4. detailHistory' \in Histories /\ detailHistory'.failed
  BY <1>1, <1>2 DEF Histories
<1>5. DetailTypeOK'
  BY <1>1, <1>3, <1>4 DEF DetailInv, DetailTypeOK
<1>6. OneAct' /\ PickedIsWritten'
  BY <1>1, <1>3 DEF DetailInv, OneAct, PickedIsWritten
<1>7. DetailCurrent'
  BY <1>4 DEF DetailCurrent, Calm
<1> QED BY <1>5, <1>6, <1>7 DEF DetailInv

\* The select is changed: what is chosen is what was picked.
LEMMA PickKeeps ==
  ASSUME DetailInv, NEW status \in PickStatus, Pick(status)
  PROVE  DetailInv'
<1>1. /\ detail' = [detail EXCEPT !.choice = status, !.picked = TRUE]
      /\ UNCHANGED <<table, reloads, act, detailHistory>>
  BY DEF Pick
<1>2. detail \in DetailPages /\ status \in OrderStatus
  BY Statuses DEF DetailInv, DetailTypeOK
<1>3. /\ detail' \in DetailPages /\ detail'.order = detail.order
      /\ detail'.choice = status /\ detail'.pending = detail.pending
      /\ detail'.picked
  BY <1>1, <1>2 DEF DetailPages
<1>4. DetailTypeOK'
  BY <1>1, <1>2, <1>3 DEF DetailInv, DetailTypeOK
<1>5. OneAct' /\ PickedIsWritten'
  BY <1>1, <1>3 DEF DetailInv, OneAct, PickedIsWritten
<1>6. DetailCurrent'
  BY <1>1, <1>3 DEF DetailInv, DetailCurrent, Calm, Unwritten
<1> QED BY <1>4, <1>5, <1>6 DEF DetailInv

\* A button is pressed, which it can be while nothing is under way: a status
\* that is not the order's was picked.
LEMMA PressKeeps ==
  ASSUME DetailInv, NEW kind \in {"status", "shipment"}, Press(kind)
  PROVE  DetailInv'
<1> DEFINE a == [kind |-> kind, status |-> detail.choice, done |-> FALSE,
                 picked |-> detail.picked]
<1>1. /\ detail.order # NotShown /\ ~detail.pending
      /\ kind = "status" => detail.choice # detail.order.status
      /\ detail' = [detail EXCEPT !.pending = TRUE, !.error = FALSE, !.acts = @ + 1]
      /\ act' = {a}
      /\ UNCHANGED <<table, reloads, detailHistory>>
  BY DEF Press
<1>2. detail \in DetailPages /\ detail.choice \in OrderStatus
  BY <1>1 DEF DetailInv, DetailTypeOK
<1>3. /\ detail' \in DetailPages /\ detail'.order = detail.order
      /\ detail'.choice = detail.choice /\ detail'.pending
      /\ detail'.picked = detail.picked
  <2>1. detail.acts + 1 \in Nat
    <3>1. detail.acts \in Nat
      BY <1>2 DEF DetailPages
    <3> QED BY <3>1
  <2> DEFINE acts == detail.acts + 1
  <2>2. detail' = [detail EXCEPT !.pending = TRUE, !.error = FALSE, !.acts = acts]
    BY <1>1
  <2> HIDE DEF acts
  <2> QED BY <1>2, <2>1, <2>2 DEF DetailPages, acts
<1>4. /\ a \in Acts /\ ~a.done /\ a.kind = kind /\ a.picked = detail.picked
  BY <1>2 DEF Acts, DetailPages
<1> HIDE DEF a
<1>5. act = {}
  BY <1>1 DEF DetailInv, OneAct
<1>6. DetailTypeOK'
  BY <1>1, <1>2, <1>3, <1>4 DEF DetailInv, DetailTypeOK
<1>7. OneAct' /\ PickedIsWritten'
  BY <1>1, <1>3, <1>4 DEF DetailInv, OneAct, PickedIsWritten
<1>8. DetailCurrent'
  BY <1>1, <1>3, <1>4, <1>5 DEF DetailInv, DetailCurrent, Calm, Unwritten
<1> QED BY <1>6, <1>7, <1>8 DEF DetailInv

\* The order is changed: until the answer is heard the page may be behind.
LEMMA WriteOrderKeeps ==
  ASSUME DetailInv, WriteOrder
  PROVE  DetailInv'
<1>1. PICK a \in act :
        /\ act' = {[a EXCEPT !.done = TRUE]}
        /\ table' = [table EXCEPT ![1] =
             IF a.kind = "status" THEN [table[1] EXCEPT !.status = a.status]
             ELSE [table[1] EXCEPT !.status = "shipped", !.shipments = @ + 1]]
        /\ UNCHANGED <<detail, reloads, detailHistory>>
  BY DEF WriteOrder
<1> DEFINE b == [a EXCEPT !.done = TRUE]
           row == IF a.kind = "status" THEN [table[1] EXCEPT !.status = a.status]
                  ELSE [table[1] EXCEPT !.status = "shipped", !.shipments = @ + 1]
<1>2. a \in Acts /\ table[1] \in OrderRows /\ "shipped" \in OrderStatus
  BY FirstOrder, Statuses DEF DetailInv, DetailTypeOK
<1>3. row \in OrderRows
  <2>1. \A r \in OrderRows, s \in OrderStatus, n \in Nat :
          /\ [r EXCEPT !.status = s] \in OrderRows
          /\ [r EXCEPT !.status = s, !.shipments = n] \in OrderRows
    BY DEF OrderRows
  <2>2. a.status \in OrderStatus
    BY <1>2 DEF Acts
  <2>3. table[1].shipments \in Nat
    BY <1>2 DEF OrderRows
  <2>4. table[1].shipments + 1 \in Nat
    BY <2>3
  <2> QED BY <1>2, <2>1, <2>2, <2>4
<1>4. /\ b \in Acts /\ b.done /\ b.kind = a.kind /\ b.picked = a.picked
  BY <1>2 DEF Acts
<1>5. table \in Seq(OrderRows) /\ Len(table) > 0 /\ table' = [table EXCEPT ![1] = row]
  <2>1. table' = [table EXCEPT ![1] = row]
    BY <1>1
  <2> QED BY <2>1 DEF DetailInv, DetailTypeOK
<1> HIDE DEF b, row
<1>6. table' \in Seq(OrderRows) /\ Len(table') > 0
  BY <1>3, <1>5, FirstOrder
<1>7. act' = {b}
  BY <1>1 DEF b
<1>8. DetailTypeOK'
  BY <1>1, <1>4, <1>6, <1>7 DEF DetailInv, DetailTypeOK
<1>9. OneAct' /\ PickedIsWritten'
  BY <1>1, <1>4, <1>7 DEF DetailInv, OneAct, PickedIsWritten
<1>10. DetailCurrent'
  BY <1>1, <1>4, <1>7 DEF DetailInv, DetailCurrent, Calm, Unwritten
<1> QED BY <1>8, <1>9, <1>10 DEF DetailInv

\* The answer is a success: the page asks for its order again, and forgets what
\* was behind unless a request for it is still under way.
LEMMA ActDoneKeeps ==
  ASSUME DetailInv, ActDone
  PROVE  DetailInv'
<1> DEFINE get == GET(detail.acts)
<1>1. /\ act' = {} /\ UNCHANGED table
      /\ detail' = [[detail EXCEPT !.pending = FALSE] EXCEPT !.error = FALSE]
      /\ reloads' = reloads \union {get}
      /\ detailHistory' = [overlap |-> reloads # {}, others |-> FALSE, failed |-> FALSE]
  BY DEF ActDone, Reload
<1>2. detail \in DetailPages
  BY DEF DetailInv, DetailTypeOK
<1>3. /\ detail' \in DetailPages /\ detail'.order = detail.order
      /\ detail'.choice = detail.choice /\ detail'.picked = detail.picked
  BY <1>1, <1>2 DEF DetailPages
<1>4. get \in ReloadGets /\ get.step = "asked"
  <2>1. \A n \in Nat : GET(n) \in ReloadGets /\ GET(n).step = "asked"
    BY DEF ReloadGets, GET
  <2>2. detail.acts \in Nat
    BY <1>2 DEF DetailPages
  <2> QED BY <2>1, <2>2
<1> HIDE DEF get
<1>5. /\ detailHistory' \in Histories
      /\ ~detailHistory'.overlap => reloads = {}
  <2>1. \A b \in BOOLEAN :
          /\ [overlap |-> b, others |-> FALSE, failed |-> FALSE] \in Histories
          /\ [overlap |-> b, others |-> FALSE, failed |-> FALSE].overlap = b
    BY DEF Histories
  <2>2. PICK b \in BOOLEAN : b = (reloads # {})
    OBVIOUS
  <2> QED BY <1>1, <2>1, <2>2
<1>6. DetailTypeOK'
  BY <1>1, <1>3, <1>4, <1>5 DEF DetailInv, DetailTypeOK
<1>7. OneAct' /\ PickedIsWritten'
  BY <1>1, <1>3 DEF DetailInv, OneAct, PickedIsWritten
<1>8. DetailCurrent'
  BY <1>1, <1>4, <1>5 DEF DetailCurrent, Calm
<1> QED BY <1>6, <1>7, <1>8 DEF DetailInv

LEMMA ActFailsKeeps ==
  ASSUME DetailInv, ActFails
  PROVE  DetailInv'
<1>1. /\ act' = {} /\ UNCHANGED <<table, reloads>>
      /\ detail' = [detail EXCEPT !.pending = FALSE, !.error = TRUE]
      /\ detailHistory' = [detailHistory EXCEPT !.failed = TRUE]
  BY DEF ActFails
<1>2. detail \in DetailPages /\ detailHistory \in Histories
  BY DEF DetailInv, DetailTypeOK
<1>3. /\ detail' \in DetailPages /\ detail'.order = detail.order
      /\ detail'.choice = detail.choice /\ detail'.picked = detail.picked
      /\ detailHistory' \in Histories /\ detailHistory'.failed
  BY <1>1, <1>2 DEF DetailPages, Histories
<1>4. DetailTypeOK'
  BY <1>1, <1>3 DEF DetailInv, DetailTypeOK
<1>5. OneAct' /\ PickedIsWritten' /\ DetailCurrent'
  BY <1>1, <1>3 DEF DetailInv, OneAct, PickedIsWritten, DetailCurrent, Calm
<1> QED BY <1>4, <1>5 DEF DetailInv

\* Another's change of the order ends the calm too.
LEMMA OthersMoveKeeps ==
  ASSUME DetailInv, OthersMove
  PROVE  DetailInv'
<1> DEFINE row == [table[1] EXCEPT !.status = "paid"]
<1>1. /\ table' = [table EXCEPT ![1] = row]
      /\ detailHistory' = [detailHistory EXCEPT !.others = TRUE]
      /\ UNCHANGED <<detail, reloads, act>>
  BY DEF OthersMove
<1>2. table[1] \in OrderRows /\ "paid" \in OrderStatus /\ detailHistory \in Histories
  BY FirstOrder, Statuses DEF DetailInv, DetailTypeOK
<1>3. row \in OrderRows
  BY <1>2 DEF OrderRows
<1> HIDE DEF row
<1>4. table \in Seq(OrderRows) /\ Len(table) > 0
  BY DEF DetailInv, DetailTypeOK
<1>5. table' \in Seq(OrderRows) /\ Len(table') > 0
  BY <1>1, <1>3, <1>4, FirstOrder
<1>6. detailHistory' \in Histories /\ detailHistory'.others
  BY <1>1, <1>2 DEF Histories
<1>7. DetailTypeOK'
  BY <1>1, <1>5, <1>6 DEF DetailInv, DetailTypeOK
<1>8. OneAct' /\ PickedIsWritten' /\ DetailCurrent'
  BY <1>1, <1>6 DEF DetailInv, OneAct, PickedIsWritten, DetailCurrent, Calm
<1> QED BY <1>7, <1>8 DEF DetailInv

LEMMA DetailKeeps ==
  ASSUME DetailInv, DetailNext
  PROVE  DetailInv'
BY ReadKeeps, ShowOrderKeeps, ReloadFailsKeeps, PickKeeps, PressKeeps, WriteOrderKeeps,
   ActDoneKeeps, ActFailsKeeps, OthersMoveKeeps DEF DetailNext

-----------------------------------------------------------------------------
(* Both pages *)

\* What a page does to the orders: one moves an order on, the other adds one.
LEMMA OrdersMove ==
  ASSUME SalesInv, DetailInv, DetailNext
  PROVE  \A f : Logged(f)' = Logged(f)
<1> table \in Seq(OrderRows) /\ Len(table) > 0 /\ act \subseteq Acts /\ table[1] \in OrderRows
  BY FirstOrder DEF DetailInv, DetailTypeOK
<1>1. CASE UNCHANGED table
  BY <1>1 DEF Logged
<1>2. CASE WriteOrder
  <2>1. PICK a \in act : table' = [table EXCEPT ![1] =
             IF a.kind = "status" THEN [table[1] EXCEPT !.status = a.status]
             ELSE [table[1] EXCEPT !.status = "shipped", !.shipments = @ + 1]]
    BY <1>2 DEF WriteOrder
  <2> DEFINE row == IF a.kind = "status" THEN [table[1] EXCEPT !.status = a.status]
                    ELSE [table[1] EXCEPT !.status = "shipped", !.shipments = @ + 1]
  <2>2. row.form = table[1].form /\ table' = [table EXCEPT ![1] = row]
    BY <2>1 DEF OrderRows
  <2> HIDE DEF row
  <2> QED BY <2>2 DEF Logged
<1>3. CASE OthersMove
  <2> DEFINE row == [table[1] EXCEPT !.status = "paid"]
  <2>1. row.form = table[1].form /\ table' = [table EXCEPT ![1] = row]
    BY <1>3 DEF OthersMove, OrderRows
  <2> HIDE DEF row
  <2> QED BY <2>1 DEF Logged
<1> QED BY <1>1, <1>2, <1>3 DEF DetailNext, ReadOrder, ReadShipments, ShowOrder, ReloadFails,
           Pick, Press, ActDone, ActFails

LEMMA OrdersAdded ==
  ASSUME SalesInv, OrderListNext, table # <<>>
  PROVE  /\ table' \in Seq(OrderRows)
         /\ \/ UNCHANGED table
            \/ /\ Len(table') = Len(table) + 1
               /\ \A i \in DOMAIN table : table'[i] = table[i]
<1>1. table \in Seq(OrderRows) /\ table' \in Seq(OrderRows)
  BY OrderListKeepsSales DEF SalesInv, SalesTypeOK
<1>2. CASE RecordSale
  <2>1. PICK sale : table' = Append(table, [status |-> "completed", channel |-> sale.channel,
                                            shipments |-> 0, form |-> sale.form])
    BY <1>2 DEF RecordSale, CreateStoreSale
  <2> DEFINE row == [status |-> "completed", channel |-> sale.channel,
                     shipments |-> 0, form |-> sale.form]
  <2>2. table' = Append(table, row)
    BY <2>1
  <2> HIDE DEF row
  <2> QED BY <1>1, <2>2
<1>3. CASE UNCHANGED table
  BY <1>1, <1>3
<1> QED BY <1>2, <1>3 DEF OrderListNext, SaleDone

LEMMA DetailKeepsSales ==
  ASSUME SalesInv, DetailInv, DetailStep
  PROVE  SalesInv'
<1>1. UNCHANGED <<orderList, saleForm, sales, refusals>>
  BY DEF DetailStep, orderListVars
<1>2. table' \in Seq(OrderRows)
  BY DetailKeeps DEF DetailStep, DetailInv, DetailTypeOK
<1>3. \A f \in 1..MaxSales : Logged(f)' = Logged(f)
  BY OrdersMove DEF DetailStep
<1>4. DOMAIN orderList' = ListFields
  BY <1>1 DEF SalesInv, SalesTypeOK
<1> QED BY <1>1, <1>2, <1>3, <1>4, SalesUntouched

LEMMA OrderListKeepsDetail ==
  ASSUME SalesInv, DetailInv, OrderListStep
  PROVE  DetailInv'
<1>1. UNCHANGED <<detail, reloads, act, detailHistory>>
  BY DEF OrderListStep, detailVars
<1>2. /\ table \in Seq(OrderRows) /\ Len(table) > 0
  BY DEF DetailInv, DetailTypeOK
<1>3. /\ table' \in Seq(OrderRows) /\ Len(table') > 0 /\ table'[1] = table[1]
  BY <1>2, OrdersAdded DEF OrderListStep
<1>4. DetailTypeOK'
  BY <1>1, <1>3 DEF DetailInv, DetailTypeOK
<1> QED BY <1>1, <1>3, <1>4 DEF DetailInv, OneAct, PickedIsWritten, DetailCurrent, Calm,
           Unwritten

\* The two pages side by side.
LEMMA AdminInvariant == AdminSpec => [](SalesInv /\ DetailInv)
<1>1. AdminInit => SalesInv /\ DetailInv
  BY InitSales, InitDetail
<1>2. SalesInv /\ DetailInv /\ [OrderListStep \/ DetailStep]_adminVars
        => (SalesInv /\ DetailInv)'
  <2> SUFFICES ASSUME SalesInv, DetailInv, [OrderListStep \/ DetailStep]_adminVars
               PROVE  SalesInv' /\ DetailInv'
    OBVIOUS
  <2>1. CASE OrderListStep
    BY <2>1, OrderListKeepsSales, OrderListKeepsDetail DEF OrderListStep
  <2>2. CASE DetailStep
    BY <2>2, DetailKeepsSales, DetailKeeps DEF DetailStep
  <2>3. CASE UNCHANGED adminVars
    <3>1. UNCHANGED <<table, orderList, saleForm, sales, refusals>>
      BY <2>3 DEF adminVars, orderListVars
    <3>2. UNCHANGED <<table, detail, reloads, act, detailHistory>>
      BY <2>3 DEF adminVars, detailVars
    <3>3. SalesInv'
      <4>1. \A f \in 1..MaxSales : Logged(f)' = Logged(f)
        BY <3>1 DEF Logged
      <4>2. table' \in Seq(OrderRows) /\ DOMAIN orderList' = ListFields
        BY <3>1 DEF SalesInv, SalesTypeOK
      <4> QED BY <3>1, <4>1, <4>2, SalesUntouched
    <3>4. DetailInv'
      BY <3>2 DEF DetailInv, DetailTypeOK, OneAct, PickedIsWritten, DetailCurrent, Calm,
                  Unwritten
    <3> QED BY <3>3, <3>4
  <2> QED BY <2>1, <2>2, <2>3
<1> QED BY <1>1, <1>2, PTL DEF AdminSpec

\* The form's button comes back only with an answer that is no success, and what
\* was sent becomes at most one order: a walk-in sale is logged once, for any
\* orders, books and forms, whatever is done on the page of an order meanwhile.
THEOREM SaleIsLoggedOnceHolds == AdminSpec => []SaleIsLoggedOnce
<1>1. SalesInv => SaleIsLoggedOnce
  <2> SUFFICES ASSUME SalesInv, NEW f \in 1..MaxSales
               PROVE  /\ Cardinality(Logged(f)) <= 1 + refusals[f]
                      /\ f = saleForm.n /\ ~orderList.showForm /\ saleForm.pending
                           /\ refusals[f] = 0
                           => Logged(f) # {} \/ \E sale \in sales : sale.form = f
    <3>1. SalesInv => DOMAIN refusals = 1..MaxSales
      BY DEF SalesInv, SalesTypeOK
    <3> QED BY <3>1 DEF SaleIsLoggedOnce
  <2>1. Pressed(f) /\ Followed(f) /\ SalesTypeOK /\ refusals[f] \in Nat
    BY DEF SalesInv, SalesTypeOK
  <2>2. Cardinality(Logged(f)) \in Nat /\ Cardinality(Coming(f)) \in Nat
    BY <2>1, SalesFinite
  <2> QED BY <2>1, <2>2 DEF Pressed, Followed
<1> QED BY <1>1, AdminInvariant, PTL

-----------------------------------------------------------------------------
(* The list of orders *)

GetFields == {"n", "step", "filter", "offset", "count", "rows"}
Total(filter) == Cardinality(Matching(filter))

ListTypeOK ==
  /\ orderList.offset \in Nat
  /\ \A get \in loads : DOMAIN get = GetFields /\ get.step \in {"asked", "read"}
  /\ \A sale \in sales : sale.step = "unheard" => refusals[sale.form] # 0

\* Unless they overlap, one GET at most is under way, and it is the page's.
OneLoad ==
  overlap # "now" =>
    /\ \A g, h \in loads : g = h
    /\ \A get \in loads : get.filter = orderList.filter /\ get.offset = orderList.offset
    /\ loads # {} => orderList.loading

\* Every order of the form was answered, and the page knows.
AllHeard ==
  /\ \A f \in 1..MaxSales : refusals[f] = 0
  /\ \A sale \in sales : sale.step # "recorded"

\* Then what was read, and what is shown once nothing is under way, is current.
Current(answer) ==
  /\ answer.rows = ListOrders(answer.filter, answer.offset)
  /\ answer.count = Total(answer.filter)
ListCurrent ==
  overlap # "now" /\ AllHeard =>
    /\ \A get \in loads : get.step = "read" => Current(get)
    /\ loads = {} /\ ~orderList.error => Current(orderList)

\* As long as no two overlapped, the page that is turned to is there: the orders
\* of a filter only become more.
Counted(answer) == answer.count \in Nat /\ answer.count <= Total(answer.filter)
PageIsThere ==
  overlap = "never" =>
    /\ \A get \in loads : get.step = "read" => Counted(get)
    /\ ~orderList.loading /\ ~orderList.error => Counted(orderList)
    /\ orderList.offset > 0 => orderList.offset < Total(orderList.filter)

ListInv == ListTypeOK /\ OneLoad /\ ListCurrent /\ PageIsThere

LEMMA MatchingFinite ==
  ASSUME NEW orders \in Seq(OrderRows)
  PROVE  \A filter : /\ IsFiniteSet(Among(orders, filter))
                     /\ Cardinality(Among(orders, filter)) \in Nat
<1> TAKE filter
<1>1. Len(orders) \in Nat /\ DOMAIN orders = 1..Len(orders)
  OBVIOUS
<1>2. IsFiniteSet(Among(orders, filter))
  <2>1. Among(orders, filter) \in SUBSET DOMAIN orders
    BY DEF Among
  <2>2. IsFiniteSet(1..Len(orders))
    BY <1>1, FS_Interval
  <2> QED BY <1>1, <2>1, <2>2, FS_Subset
<1> QED BY <1>2, FS_CardinalityType

LEMMA InitList == AdminInit => ListInv
<1> SUFFICES ASSUME AdminInit PROVE ListInv
  OBVIOUS
<1> DEFINE first == [n |-> 0, step |-> "asked", filter |-> AllOrders, offset |-> 0,
                     count |-> 0, rows |-> <<>>]
<1>1. /\ orderList.filter = AllOrders /\ orderList.offset = 0 /\ orderList.loading
      /\ loads = {first} /\ sales = {} /\ overlap = "never"
  BY DEF AdminInit, OrderListInit
<1>2. /\ DOMAIN first = GetFields /\ first.step = "asked" /\ first.filter = AllOrders
      /\ first.offset = 0
  BY DEF GetFields
<1> HIDE DEF first
<1> QED BY <1>1, <1>2 DEF ListInv, ListTypeOK, OneLoad, ListCurrent, PageIsThere

\* Another GET: it is the page's, and what it asks for is there.
LEMMA LoadKeeps ==
  ASSUME ListInv, NEW next, Load(next), DOMAIN next = ListFields, next.offset \in Nat,
         overlap = "never" /\ next.offset > 0 => next.offset < Total(next.filter),
         UNCHANGED <<table, refusals>>, sales' \subseteq sales
  PROVE  ListInv'
<1> DEFINE get == [n |-> orderList.loaded, step |-> "asked", filter |-> next.filter,
                   offset |-> next.offset, count |-> 0, rows |-> <<>>]
<1>1. /\ orderList' = [next EXCEPT !.loading = TRUE, !.error = FALSE, !.loaded = @ + 1]
      /\ loads' = loads \union {get}
      /\ overlap' = IF loads # {} THEN "now" ELSE IF overlap = "now" THEN "once" ELSE overlap
  BY DEF Load
<1>2. /\ DOMAIN get = GetFields /\ get.step = "asked" /\ get.filter = next.filter
      /\ get.offset = next.offset
  BY DEF GetFields
<1> HIDE DEF get
<1>3. /\ orderList'.filter = next.filter /\ orderList'.offset = next.offset
      /\ orderList'.loading
  BY <1>1 DEF ListFields
<1>4. ListTypeOK'
  BY <1>1, <1>2, <1>3 DEF ListInv, ListTypeOK
<1>5. OneLoad'
  BY <1>1, <1>2, <1>3 DEF OneLoad
<1>6. ListCurrent'
  BY <1>1, <1>2 DEF ListCurrent
<1>7. PageIsThere'
  <2> SUFFICES ASSUME overlap' = "never" PROVE PageIsThere'
    BY DEF PageIsThere
  <2>1. overlap = "never" /\ loads = {}
    BY <1>1
  <2>2. Total(orderList.filter)' = Total(next.filter)
    BY <1>3 DEF Total, Matching
  <2> QED BY <1>1, <1>2, <1>3, <2>1, <2>2 DEF PageIsThere
<1> QED BY <1>4, <1>5, <1>6, <1>7 DEF ListInv

\* A GET is read: what it read is current.
LEMMA ReadOrdersKeeps ==
  ASSUME ListInv, SalesInv, ReadOrders, UNCHANGED table
  PROVE  ListInv'
<1>1. PICK get, read :
        /\ get \in loads
        /\ read = [get EXCEPT !.step = "read", !.rows = ListOrders(get.filter, get.offset),
                              !.count = Cardinality(Matching(get.filter))]
        /\ loads' = (loads \ {get}) \union {read}
  BY DEF ReadOrders
<1>2. UNCHANGED <<orderList, sales, refusals, overlap>>
  BY DEF ReadOrders
<1>3. DOMAIN get = GetFields
  BY <1>1 DEF ListInv, ListTypeOK
<1>4. /\ DOMAIN read = GetFields /\ read.step = "read" /\ read.filter = get.filter
      /\ read.offset = get.offset /\ read.rows = ListOrders(read.filter, read.offset)
      /\ read.count = Total(read.filter)
  BY <1>1, <1>3 DEF GetFields, Total
<1>5. get \in loads /\ loads' = (loads \ {get}) \union {read}
  BY <1>1
<1>6. Total(read.filter) \in Nat
  BY MatchingFinite DEF SalesInv, SalesTypeOK, Total, Matching
<1>7. /\ Current(read) /\ Current(read)'
      /\ Counted(read) /\ Counted(read)'
  <2>1. Current(read) /\ Counted(read)
    BY <1>4, <1>6 DEF Current, Counted
  <2> QED BY <2>1 DEF Current, Counted, ListOrders, Total, Matching
<1>8. ListTypeOK'
  BY <1>2, <1>4, <1>5 DEF ListInv, ListTypeOK
<1>9. OneLoad'
  BY <1>2, <1>4, <1>5 DEF ListInv, OneLoad
<1>10. ListCurrent'
  <2>1. overlap # "now" => loads' = {read}
    BY <1>5 DEF ListInv, OneLoad
  <2> QED BY <1>2, <1>7, <2>1 DEF ListCurrent
<1>11. PageIsThere'
  <2>1. overlap = "never" => loads' = {read} /\ orderList.loading
    BY <1>5 DEF ListInv, OneLoad
  <2>2. Total(orderList.filter)' = Total(orderList.filter)
    BY <1>2 DEF Total, Matching
  <2> QED BY <1>2, <1>7, <2>1, <2>2 DEF ListInv, PageIsThere
<1> QED BY <1>8, <1>9, <1>10, <1>11 DEF ListInv

\* The answer of the only GET is shown: it is the page's.
LEMMA ShowOrdersKeeps ==
  ASSUME ListInv, SalesInv, ShowOrders, UNCHANGED table
  PROVE  ListInv'
<1>1. PICK get \in loads :
        /\ loads' = loads \ {get}
        /\ \/ /\ get.step = "read"
              /\ orderList' = [orderList EXCEPT !.rows = get.rows, !.count = get.count,
                                                !.loading = FALSE]
           \/ /\ get.step = "asked"
              /\ orderList' = [orderList EXCEPT !.error = TRUE, !.loading = FALSE]
  BY DEF ShowOrders
<1>2. UNCHANGED <<sales, refusals, overlap>>
  BY DEF ShowOrders
<1>3. DOMAIN orderList = ListFields
  BY DEF SalesInv, SalesTypeOK
<1>4. /\ orderList'.filter = orderList.filter /\ orderList'.offset = orderList.offset
      /\ ~orderList'.loading
      /\ ~orderList'.error => /\ get.step = "read" /\ orderList'.rows = get.rows
                              /\ orderList'.count = get.count
  BY <1>1, <1>3 DEF ListFields
<1>5. overlap # "now" => /\ loads' = {} /\ get.filter = orderList.filter
                         /\ get.offset = orderList.offset
  BY <1>1 DEF ListInv, OneLoad
<1>6. ListTypeOK'
  BY <1>1, <1>2, <1>4 DEF ListInv, ListTypeOK
<1>7. OneLoad'
  BY <1>2, <1>4, <1>5 DEF OneLoad
<1>8. ListCurrent'
  <2> SUFFICES ASSUME overlap # "now", AllHeard, ~orderList'.error
               PROVE  Current(orderList)'
    BY <1>2, <1>5 DEF ListCurrent, AllHeard
  <2>1. Current(get)
    BY <1>1, <1>4 DEF ListInv, ListCurrent
  <2> QED BY <1>4, <1>5, <2>1 DEF Current, ListOrders, Total, Matching
<1>9. PageIsThere'
  <2> SUFFICES ASSUME overlap = "never" PROVE PageIsThere'
    BY <1>2 DEF PageIsThere
  <2>1. ~orderList'.error => Counted(get)
    BY <1>1, <1>4 DEF ListInv, PageIsThere
  <2>2. Total(orderList.filter)' = Total(orderList.filter)
    BY <1>4 DEF Total, Matching
  <2>3. ~orderList'.error => Counted(orderList)'
    BY <1>4, <1>5, <2>1 DEF Counted, Total, Matching
  <2> QED BY <1>4, <1>5, <2>2, <2>3 DEF ListInv, PageIsThere
<1> QED BY <1>6, <1>7, <1>8, <1>9 DEF ListInv

\* Another filter starts at the first page; a page that is turned to is there.
LEMMA LoadsKeep ==
  ASSUME ListInv, SalesInv, UNCHANGED table,
         (\E filter \in Filter : ChangeFilter(filter)) \/ (\E offset : Turn(offset))
  PROVE  ListInv'
<1>1. /\ DOMAIN orderList = ListFields /\ orderList.offset \in Nat
      /\ Total(orderList.filter) \in Nat
  BY MatchingFinite DEF ListInv, ListTypeOK, SalesInv, SalesTypeOK, Total, Matching
<1>2. ASSUME NEW filter \in Filter, ChangeFilter(filter) PROVE ListInv'
  <2> DEFINE next == [orderList EXCEPT !.filter = filter, !.offset = 0]
  <2>1. Load(next) /\ UNCHANGED <<sales, refusals>>
    BY <1>2 DEF ChangeFilter
  <2>2. DOMAIN next = ListFields /\ next.offset = 0
    BY <1>1 DEF ListFields
  <2> HIDE DEF next
  <2> QED BY <2>1, <2>2, LoadKeeps
<1>3. ASSUME NEW offset, Turn(offset) PROVE ListInv'
  <2> DEFINE next == [orderList EXCEPT !.offset = offset]
  <2>1. /\ Load(next) /\ UNCHANGED <<sales, refusals>>
        /\ ~orderList.loading /\ ~orderList.error
        /\ \/ offset = orderList.offset - ListPageSize /\ offset >= 0
           \/ offset = orderList.offset + ListPageSize /\ offset < orderList.count
    BY <1>3 DEF Turn
  <2>2. ListPageSize \in Nat \ {0}
    BY AdminAssumption
  <2>3. offset \in Nat
    BY <1>1, <2>1, <2>2
  <2>4. overlap = "never" /\ offset > 0 => offset < Total(orderList.filter)
    <3> SUFFICES ASSUME overlap = "never", offset > 0 PROVE offset < Total(orderList.filter)
      OBVIOUS
    <3>1. Counted(orderList)
          /\ (orderList.offset > 0 => orderList.offset < Total(orderList.filter))
      BY <2>1 DEF ListInv, PageIsThere
    <3> QED BY <1>1, <2>1, <2>2, <2>3, <3>1 DEF Counted
  <2>5. DOMAIN next = ListFields /\ next.offset = offset /\ next.filter = orderList.filter
    BY <1>1 DEF ListFields
  <2> HIDE DEF next
  <2> QED BY <2>1, <2>3, <2>4, <2>5, LoadKeeps
<1> QED BY <1>2, <1>3

\* The form, and a sale that is sent or refused, leave what the list shows; after
\* an answer that is no success it may be behind.
LEMMA FormKeeps ==
  ASSUME ListInv, SalesInv, UNCHANGED <<table, loads, overlap>>,
         \A field \in ListFields \ {"showForm"} : orderList'[field] = orderList[field],
         refusals' \in [1..MaxSales -> Nat],
         \A f \in 1..MaxSales : refusals[f] # 0 => refusals'[f] # 0,
         \A sale \in sales' :
           \/ sale.step = "sent"
           \/ sale \in sales
           \/ sale.form \in 1..MaxSales /\ refusals'[sale.form] # 0,
         \/ \A sale \in sales : sale.step = "recorded" => sale \in sales'
         \/ \E f \in 1..MaxSales : refusals'[f] # 0
  PROVE  ListInv'
<1>1. /\ orderList'.filter = orderList.filter /\ orderList'.offset = orderList.offset
      /\ orderList'.rows = orderList.rows /\ orderList'.count = orderList.count
      /\ orderList'.loading = orderList.loading /\ orderList'.error = orderList.error
  BY DEF SalesInv, SalesTypeOK, ListFields
<1>2. \A sale \in sales : sale.form \in 1..MaxSales
  BY DEF SalesInv, SalesTypeOK, SalePosts
<1>3. refusals \in [1..MaxSales -> Nat]
  BY DEF SalesInv, SalesTypeOK
<1>4. ListTypeOK'
  BY <1>1, <1>2 DEF ListInv, ListTypeOK
<1>5. OneLoad'
  BY <1>1 DEF ListInv, OneLoad
<1>6. AllHeard' => AllHeard
  BY <1>3 DEF AllHeard
<1>7. ListCurrent'
  BY <1>1, <1>6 DEF ListInv, ListCurrent, Current, ListOrders, Total, Matching
<1>8. PageIsThere'
  BY <1>1 DEF ListInv, PageIsThere, Counted, Total, Matching
<1> QED BY <1>4, <1>5, <1>7, <1>8 DEF ListInv

LEMMA FormsKeepList ==
  ASSUME ListInv, SalesInv, UNCHANGED table,
         \/ ToggleForm \/ SaleRefused
         \/ \E b \in ShopBook : AddItem(b) \/ RemovePicked(b)
         \/ \E channel \in StoreChannel : LogSale(channel)
  PROVE  ListInv'
<1>1. UNCHANGED <<loads, overlap>>
  BY DEF ToggleForm, SaleRefused, AddItem, RemovePicked, LogSale, SendSale
<1>2. refusals \in [1..MaxSales -> Nat] /\ DOMAIN orderList = ListFields
      /\ sales \subseteq SalePosts
  BY DEF SalesInv, SalesTypeOK
<1>3. \A field \in ListFields \ {"showForm"} : orderList'[field] = orderList[field]
  <2>1. CASE ToggleForm
    BY <2>1, <1>2 DEF ToggleForm
  <2>2. CASE UNCHANGED orderList
    BY <2>2
  <2> QED BY <2>1, <2>2 DEF SaleRefused, AddItem, RemovePicked, LogSale, SendSale
<1>4. CASE SaleRefused
  <2>1. PICK sale \in sales :
          /\ \/ sales' = sales \ {sale}
             \/ /\ sale.step = "sent"
                /\ sales' = (sales \ {sale}) \union {[sale EXCEPT !.step = "unheard"]}
          /\ refusals' = [refusals EXCEPT ![sale.form] = @ + 1]
    BY <1>4 DEF SaleRefused
  <2>2. sale.form \in 1..MaxSales /\ sale \in SalePosts
    BY <1>2, <2>1 DEF SalePosts
  <2>3. /\ refusals' \in [1..MaxSales -> Nat] /\ refusals'[sale.form] # 0
        /\ \A f \in 1..MaxSales : refusals[f] # 0 => refusals'[f] # 0
    BY <1>2, <2>1, <2>2
  <2>4. [sale EXCEPT !.step = "unheard"].form = sale.form
    BY <2>2 DEF SalePosts
  <2>5. \A s \in sales' : s \in sales \/ s.form = sale.form
    BY <2>1, <2>4
  <2> QED BY <1>1, <1>3, <2>2, <2>3, <2>5, FormKeeps
<1>5. CASE \E channel \in StoreChannel : LogSale(channel)
  <2>1. PICK channel \in StoreChannel : LogSale(channel)
    BY <1>5
  <2> DEFINE new == [form |-> saleForm.n, channel |-> channel, items |-> saleForm.items,
                     step |-> "sent"]
  <2>2. sales' = sales \union {new} /\ refusals' = refusals
    BY <2>1 DEF LogSale, SendSale
  <2>3. new.step = "sent"
    OBVIOUS
  <2> HIDE DEF new
  <2> QED BY <1>1, <1>2, <1>3, <2>2, <2>3, FormKeeps
<1>6. CASE UNCHANGED <<sales, refusals>>
  BY <1>1, <1>2, <1>3, <1>6, FormKeeps
<1> QED BY <1>4, <1>5, <1>6 DEF ToggleForm, AddItem, RemovePicked

\* An order is added: the list is behind until it loads, and no order is less.
LEMMA RecordSaleKeepsList ==
  ASSUME ListInv, SalesInv, RecordSale
  PROVE  ListInv'
<1>1. PICK sale \in sales :
        /\ CreateStoreSale(sale)
        /\ \/ /\ sale.step = "sent"
              /\ sales' = (sales \ {sale}) \union {[sale EXCEPT !.step = "recorded"]}
           \/ /\ sale.step = "unheard" /\ sales' = sales \ {sale}
  BY DEF RecordSale
<1>2. UNCHANGED <<orderList, loads, saleForm, refusals, overlap>>
  BY DEF RecordSale
<1>3. /\ sale \in SalePosts /\ sale.form \in 1..MaxSales
      /\ table \in Seq(OrderRows) /\ table' \in Seq(OrderRows)
  BY OrderListKeepsSales DEF SalesInv, SalesTypeOK, SalePosts, OrderListNext
<1>4. /\ [sale EXCEPT !.step = "recorded"].step = "recorded"
      /\ [sale EXCEPT !.step = "recorded"].form = sale.form
  BY <1>3 DEF SalePosts
<1>5. ListTypeOK'
  BY <1>1, <1>2, <1>4 DEF ListInv, ListTypeOK
<1>6. OneLoad'
  BY <1>2 DEF ListInv, OneLoad
<1>7. ~AllHeard'
  BY <1>1, <1>2, <1>3, <1>4 DEF ListInv, ListTypeOK, AllHeard
<1>8. ASSUME NEW filter
      PROVE  Total(filter) \in Nat /\ Total(filter)' \in Nat /\ Total(filter) <= Total(filter)'
  <2> DEFINE row == [status |-> "completed", channel |-> sale.channel,
                     shipments |-> 0, form |-> sale.form]
  <2>1. table' = Append(table, row)
    BY <1>1 DEF CreateStoreSale
  <2> HIDE DEF row
  <2>2. DOMAIN table \subseteq DOMAIN table' /\ \A i \in DOMAIN table : table'[i] = table[i]
    BY <1>3, <2>1
  <2>3. Matching(filter) \in SUBSET (Matching(filter)')
    BY <2>2 DEF Matching, Among
  <2>4. /\ IsFiniteSet(Matching(filter)') /\ Total(filter)' \in Nat
        /\ Total(filter) \in Nat
    BY <1>3, MatchingFinite DEF Total, Matching
  <2> QED BY <2>3, <2>4, FS_Subset DEF Total
<1>9. PageIsThere'
  <2> SUFFICES ASSUME overlap = "never" PROVE PageIsThere'
    BY <1>2 DEF PageIsThere
  <2>1. \A g : Counted(g) => g.count <= Total(g.filter)' /\ g.count \in Nat
    BY <1>8 DEF Counted
  <2>2. \A get \in loads : get.step = "read" => Counted(get)'
    BY <2>1 DEF ListInv, PageIsThere, Counted
  <2>3. Counted(orderList) => Counted(orderList)'
    BY <1>2, <1>8 DEF Counted, Total, Matching
  <2>4. orderList.offset > 0 => orderList.offset < Total(orderList.filter)'
    <3>1. orderList.offset \in Nat
      BY DEF ListInv, ListTypeOK
    <3> QED BY <1>2, <1>8, <3>1 DEF ListInv, PageIsThere, Total, Matching
  <2> QED BY <1>2, <2>2, <2>3, <2>4 DEF ListInv, PageIsThere
<1> QED BY <1>5, <1>6, <1>7, <1>9 DEF ListInv, ListCurrent

\* The sale is done: the list loads.
LEMMA SaleDoneKeepsList ==
  ASSUME ListInv, SalesInv, SaleDone
  PROVE  ListInv'
<1> DEFINE next == [orderList EXCEPT !.showForm = FALSE]
<1>1. /\ Load(next) /\ UNCHANGED <<refusals, table>> /\ sales' \subseteq sales
  BY DEF SaleDone
<1>2. DOMAIN orderList = ListFields
  BY DEF SalesInv, SalesTypeOK
<1>3. DOMAIN next = ListFields /\ next.offset = orderList.offset
      /\ next.filter = orderList.filter
  BY <1>2 DEF ListFields
<1> HIDE DEF next
<1>4. /\ next.offset \in Nat
      /\ overlap = "never" /\ next.offset > 0 => next.offset < Total(next.filter)
  BY <1>3 DEF ListInv, ListTypeOK, PageIsThere
<1> QED BY <1>1, <1>3, <1>4, LoadKeeps

LEMMA OrderListKeepsList ==
  ASSUME ListInv, SalesInv, OrderListNext
  PROVE  ListInv'
<1>1. CASE Listing /\ UNCHANGED table
  <2>1. CASE \E turn \in {-1, 1} : Turn(orderList.offset + turn * ListPageSize)
    BY <1>1, <2>1, LoadsKeep
  <2> QED BY <1>1, <2>1, LoadsKeep, ReadOrdersKeeps, ShowOrdersKeeps, FormsKeepList
          DEF Listing
<1>2. CASE RecordSale
  BY <1>2, RecordSaleKeepsList
<1>3. CASE SaleDone
  BY <1>3, SaleDoneKeepsList
<1> QED BY <1>1, <1>2, <1>3 DEF OrderListNext

\* At rest the list shows its orders, the page of an order its order.
LEMMA PagesAtRest ==
  ASSUME SalesInv, DetailInv, ListInv
  PROVE  PagesShowTheOrders
<1>1. DOMAIN refusals = 1..MaxSales
  BY DEF SalesInv, SalesTypeOK
<1>2. ListAtRest => Current(orderList)
  BY <1>1 DEF ListAtRest, ListInv, ListCurrent, AllHeard
<1>3. /\ overlap = "never" /\ orderList.offset > 0
      => orderList.offset < Total(orderList.filter)
  BY DEF ListInv, PageIsThere
<1>4. DetailAtRest =>
        detail.order = [status |-> table[1].status, shipments |-> table[1].shipments]
  BY DEF DetailAtRest, DetailInv, DetailCurrent, Calm, Unwritten
<1>5. \A a \in act : a.kind = "status" => a.picked
  BY DEF DetailInv, PickedIsWritten
<1> QED BY <1>2, <1>3, <1>4, <1>5 DEF PagesShowTheOrders, Current, Total

\* The list of orders, while no other page changes one of them: what it shows at
\* rest is what the table holds, for any orders, filters, page size and sales.
THEOREM OrderListShowsTheOrders == OrderListSpec => []PagesShowTheOrders
<1>1. OrderListSpec => [](SalesInv /\ DetailInv)
  <2>1. [OrderListStep]_adminVars => [OrderListStep \/ DetailStep]_adminVars
    OBVIOUS
  <2> QED BY <2>1, AdminInvariant, PTL DEF OrderListSpec, AdminSpec
<1>2. SalesInv /\ ListInv /\ [OrderListStep]_adminVars => ListInv'
  <2>1. SalesInv /\ ListInv /\ OrderListStep => ListInv'
    BY OrderListKeepsList DEF OrderListStep
  <2>2. ListInv /\ UNCHANGED adminVars => ListInv'
    <3> SUFFICES ASSUME ListInv, UNCHANGED <<table, orderList, loads, sales, refusals, overlap>>
                 PROVE  ListInv'
      BY DEF adminVars, orderListVars
    <3>1. ListTypeOK' /\ OneLoad'
      BY DEF ListInv, ListTypeOK, OneLoad
    <3>2. ListCurrent'
      BY DEF ListInv, ListCurrent, AllHeard, Current, ListOrders, Total, Matching
    <3>3. PageIsThere'
      BY DEF ListInv, PageIsThere, Counted, Total, Matching
    <3> QED BY <3>1, <3>2, <3>3 DEF ListInv
  <2> QED BY <2>1, <2>2
<1>3. OrderListSpec => []ListInv
  BY <1>1, <1>2, InitList, PTL DEF OrderListSpec
<1> QED BY <1>1, <1>3, PagesAtRest, PTL

\* The list while only the page of an order is used: it waits for its first GET.
ListWaits ==
  loads # {} /\ orderList.offset = 0

\* The page of an order, whatever the webhook and the requests of the page do to
\* it: at rest and undisturbed it shows the order, and a status that is written
\* was picked since the order was shown.
THEOREM OrderPageShowsTheOrder == DetailSpec => []PagesShowTheOrders
<1>1. DetailSpec => [](SalesInv /\ DetailInv)
  <2>1. [DetailStep]_adminVars => [OrderListStep \/ DetailStep]_adminVars
    OBVIOUS
  <2> QED BY <2>1, AdminInvariant, PTL DEF DetailSpec, AdminSpec
<1>2. AdminInit => ListWaits
  BY DEF AdminInit, OrderListInit, ListWaits
<1>3. ListWaits /\ [DetailStep]_adminVars => ListWaits'
  BY DEF ListWaits, DetailStep, adminVars, orderListVars
<1>4. DetailInv /\ ListWaits => PagesShowTheOrders
  <2> SUFFICES ASSUME DetailInv, ListWaits PROVE PagesShowTheOrders
    OBVIOUS
  <2>1. ~ListAtRest /\ ~(orderList.offset > 0)
    BY DEF ListWaits, ListAtRest
  <2>2. DetailAtRest =>
          detail.order = [status |-> table[1].status, shipments |-> table[1].shipments]
    BY DEF DetailAtRest, DetailInv, DetailCurrent, Calm, Unwritten
  <2>3. \A a \in act : a.kind = "status" => a.picked
    BY DEF DetailInv, PickedIsWritten
  <2> QED BY <2>1, <2>2, <2>3 DEF PagesShowTheOrders
<1>5. DetailSpec => []ListWaits
  BY <1>2, <1>3, PTL DEF DetailSpec
<1> QED BY <1>1, <1>4, <1>5, PTL

-----------------------------------------------------------------------------
(* From the cart to the order *)

CallFields == {"op", "step", "book", "quantity", "here", "awaited", "answer"}
CartOps == {"load", "upsert", "remove"}

CallsTypeOK ==
  /\ DOMAIN order = {"lines", "paid"}
  /\ DOMAIN call = Call
  /\ \A c \in Call : DOMAIN call[c] = CallFields /\ (call[c].here => call[c].awaited)

\* The page of the cart, unless its calls overlapped: one is under way at most,
\* it brings the cart as it is, and without one the page shows that, or nothing.
CartIsShown ==
  page = "cart" /\ ~overlapped =>
    /\ \A c, d \in InFlight : c = d
    /\ shown # Nothing => \A c \in InFlight : call[c].here
    /\ order = NoOrder =>
         /\ \A c \in InFlight : call[c].step = "answered" => call[c].answer = cart
         /\ shown # Nothing /\ InFlight = {} => shown = cart

\* The form has been answered its order, or is about to be.
Answered ==
  \/ known
  \/ \E c \in Call : call[c].op = "checkout" /\ call[c].here /\ call[c].step = "answered"

\* From Proceed on nothing changes the cart but a checkout: the form's own, or
\* an earlier form's, and only one makes an order.
CartIsIntended ==
  intended # Nothing =>
    /\ page \in {"checkout", "confirmation"}
    /\ ~overlapped =>
         /\ InFlight = {}
         /\ order = NoOrder => cart = intended
         /\ Answered => order # NoOrder /\ order.lines = intended

StoreInv == CallsTypeOK /\ CartIsShown /\ CartIsIntended

\* A call leaves on one slot, that was free.
LEMMA SendingFrom ==
  ASSUME CallsTypeOK, CanSend, NEW op, NEW b, NEW q
  PROVE  \E slot \in Call : /\ call[slot] = Free
                            /\ Sending(op, b, q) = [call EXCEPT ![slot] = Sent(op, b, q)]
<1> DEFINE slot == CHOOSE c \in Call : call[c] = Free
<1>1. slot \in Call /\ call[slot] = Free
  BY DEF CanSend
<1>2. Sending(op, b, q) = [call EXCEPT ![slot] = Sent(op, b, q)]
  BY DEF Sending
<1> HIDE DEF slot
<1> QED BY <1>1, <1>2

\* The calls of a page that is left go on without it.
LEMMA Leaving ==
  ASSUME CallsTypeOK, call' = Unmounted, DOMAIN order' = {"lines", "paid"}
  PROVE  /\ CallsTypeOK' /\ InFlight' = InFlight
         /\ \A c \in Call : ~call'[c].here
<1>1. DOMAIN call' = Call /\ \A c \in Call : call'[c] = [call[c] EXCEPT !.here = FALSE]
  BY DEF Unmounted
<1>2. \A c \in Call : /\ DOMAIN call'[c] = CallFields /\ ~call'[c].here
                      /\ call'[c].op = call[c].op
  BY <1>1 DEF CallsTypeOK, CallFields
<1>3. CallsTypeOK'
  BY <1>1, <1>2 DEF CallsTypeOK
<1>4. InFlight' = InFlight
  BY <1>2 DEF InFlight
<1> QED BY <1>2, <1>3, <1>4

LEMMA InitStore == StorefrontInit => StoreInv
<1> SUFFICES ASSUME StorefrontInit PROVE StoreInv
  OBVIOUS
<1>1. /\ order = NoOrder /\ page = "book" /\ intended = Nothing
      /\ call = [c \in Call |-> Free]
  BY DEF StorefrontInit
<1>2. DOMAIN Free = CallFields /\ ~Free.here
  BY DEF Free, CallFields
<1>3. CallsTypeOK
  BY <1>1, <1>2 DEF CallsTypeOK, NoOrder
<1> QED BY <1>1, <1>3 DEF StoreInv, CartIsShown, CartIsIntended

\* The pages of the books.
LEMMA BooksKeep ==
  ASSUME StoreInv, (\E b \in Item : AddToCartButton(b)) \/ BackToBooks
  PROVE  StoreInv'
<1>1. CASE \E b \in Item : AddToCartButton(b)
  <2>1. PICK b \in Item : AddToCartButton(b)
    BY <1>1
  <2>2. PICK slot \in Call : /\ call[slot] = Free
                             /\ call' = [call EXCEPT ![slot] = Sent("upsert", b, 1)]
    BY <2>1, SendingFrom DEF StoreInv, AddToCartButton
  <2>3. page' = "book" /\ page = "book" /\ UNCHANGED <<order, intended>>
    BY <2>1 DEF AddToCartButton
  <2>4. CallsTypeOK'
    <3>1. DOMAIN Sent("upsert", b, 1) = CallFields /\ Sent("upsert", b, 1).awaited
      BY DEF Sent, CallFields
    <3> QED BY <2>2, <2>3, <3>1 DEF StoreInv, CallsTypeOK
  <2> QED BY <2>3, <2>4 DEF StoreInv, CartIsShown, CartIsIntended
<1>2. CASE BackToBooks
  <2>1. page' = "book" /\ intended' = Nothing /\ call' = Unmounted /\ UNCHANGED order
    BY <1>2 DEF BackToBooks
  <2>2. CallsTypeOK'
    <3>1. CallsTypeOK /\ DOMAIN order' = {"lines", "paid"}
      BY <2>1 DEF StoreInv, CallsTypeOK
    <3> QED BY <2>1, <3>1, Leaving
  <2> QED BY <2>1, <2>2 DEF StoreInv, CartIsShown, CartIsIntended
<1> QED BY <1>1, <1>2

\* The cart is loaded afresh: without a call of the cart under way this is the
\* only one.
LEMMA OpenCartPageKeeps ==
  ASSUME StoreInv, OpenCartPage
  PROVE  StoreInv'
<1> DEFINE load == Sent("load", Nothing, 0)
<1>1. PICK slot \in Call :
        /\ call[slot] = Free
        /\ Sending("load", Nothing, 0) = [call EXCEPT ![slot] = load]
  BY SendingFrom DEF StoreInv, OpenCartPage
<1>2. /\ page' = "cart" /\ shown' = Nothing /\ intended' = Nothing /\ UNCHANGED <<cart, order>>
      /\ overlapped' = (InFlight # {})
      /\ call' = [c \in Call |-> IF call[c] = Free THEN Sending("load", Nothing, 0)[c]
                                                   ELSE Unmounted[c]]
  BY DEF OpenCartPage
<1>3. /\ DOMAIN load = CallFields /\ load.here /\ load.awaited /\ load.step = "sent"
      /\ load.op = "load"
  BY DEF Sent, CallFields
<1> HIDE DEF load
<1>4. \A c \in Call : \/ c = slot /\ call'[c] = load
                      \/ c # slot /\ call[c] = Free /\ call'[c] = Free
                      \/ c # slot /\ call'[c] = [call[c] EXCEPT !.here = FALSE]
  BY <1>1, <1>2 DEF StoreInv, CallsTypeOK, Unmounted
<1>5. CallsTypeOK'
  <2>1. DOMAIN Free = CallFields /\ ~Free.here
    BY DEF Free, CallFields
  <2>2. ASSUME NEW c \in Call
        PROVE  DOMAIN call'[c] = CallFields /\ (call'[c].here => call'[c].awaited)
    <3>1. DOMAIN call[c] = CallFields
      BY DEF StoreInv, CallsTypeOK
    <3>2. CASE c = slot
      BY <1>3, <1>4, <3>2
    <3>3. CASE call'[c] = Free
      BY <2>1, <3>3
    <3>4. CASE call'[c] = [call[c] EXCEPT !.here = FALSE]
      BY <3>1, <3>4 DEF CallFields
    <3> QED BY <1>4, <3>2, <3>3, <3>4
  <2> QED BY <1>2, <2>2 DEF StoreInv, CallsTypeOK
<1>6. ~overlapped' => \A c \in Call : c \in InFlight' => c = slot
  <2> SUFFICES ASSUME InFlight = {}, NEW c \in Call, c # slot PROVE c \notin InFlight'
    BY <1>2
  <2>1. c \notin InFlight
    OBVIOUS
  <2> QED BY <1>4, <2>1 DEF InFlight, StoreInv, CallsTypeOK, CallFields
<1>7. CartIsShown'
  <2> SUFFICES ASSUME ~overlapped' PROVE CartIsShown'
    BY DEF CartIsShown
  <2>1. \A c \in InFlight' : c = slot
    BY <1>6 DEF InFlight
  <2>2. slot \in InFlight'
    BY <1>3, <1>4 DEF InFlight
  <2> QED BY <1>2, <1>3, <1>4, <2>1, <2>2 DEF CartIsShown
<1> QED BY <1>2, <1>5, <1>7 DEF StoreInv, CartIsIntended

\* A change of the cart is sent: alone, unless it overlaps.
LEMMA ChangeCartKeeps ==
  ASSUME StoreInv,
         \E b \in Item : RemoveItem(b) \/ \E q \in 1..MaxQuantity : ChangeQuantity(b, q)
  PROVE  StoreInv'
<1>1. PICK op, b, q : op \in CartOps /\ call' = Sending(op, b, q)
  BY DEF RemoveItem, ChangeQuantity, CartOps
<1>2. /\ page = "cart" /\ shown # Nothing /\ CanSend /\ Overlap
      /\ UNCHANGED <<cart, order, page, shown, intended>>
  BY DEF RemoveItem, ChangeQuantity, OnCartPage
<1> DEFINE sent == Sent(op, b, q)
<1>3. PICK slot \in Call : call[slot] = Free /\ call' = [call EXCEPT ![slot] = sent]
  BY <1>1, <1>2, SendingFrom DEF StoreInv
<1>4. /\ DOMAIN sent = CallFields /\ sent.here /\ sent.awaited /\ sent.step = "sent"
      /\ sent.op \in CartOps
  BY <1>1 DEF Sent, CallFields
<1> HIDE DEF sent
<1>5. CallsTypeOK'
  BY <1>2, <1>3, <1>4 DEF StoreInv, CallsTypeOK
<1>6. CartIsShown'
  <2> SUFFICES ASSUME ~overlapped' PROVE CartIsShown'
    BY DEF CartIsShown
  <2>1. InFlight = {}
    BY <1>2 DEF Overlap
  <2>2. InFlight' = {slot} /\ call'[slot] = sent
    <3>1. DOMAIN call = Call
      BY DEF StoreInv, CallsTypeOK
    <3> QED BY <1>3, <1>4, <2>1, <3>1 DEF InFlight, CartOps
  <2> QED BY <1>4, <2>2 DEF CartIsShown
<1>7. intended' = Nothing
  BY <1>2 DEF StoreInv, CartIsIntended
<1> QED BY <1>5, <1>6, <1>7 DEF StoreInv, CartIsIntended

\* The visitor proceeds with what is shown: the cart, if nothing is under way.
LEMMA ProceedKeeps ==
  ASSUME StoreInv, Proceed
  PROVE  StoreInv'
<1>1. /\ page = "cart" /\ shown # Nothing /\ page' = "checkout" /\ call' = Unmounted
      /\ intended' = shown /\ overlapped' = (overlapped \/ InFlight # {}) /\ known' = FALSE
      /\ UNCHANGED <<cart, order>>
  BY DEF Proceed, Overlap
<1>2. CallsTypeOK /\ DOMAIN order' = {"lines", "paid"}
  BY <1>1 DEF StoreInv, CallsTypeOK
<1>3. CallsTypeOK' /\ InFlight' = InFlight /\ \A c \in Call : ~call'[c].here
  BY <1>1, <1>2, Leaving
<1>4. CartIsShown' /\ CartIsIntended'
  BY <1>1, <1>3 DEF StoreInv, CartIsShown, CartIsIntended, Answered
<1> QED BY <1>3, <1>4 DEF StoreInv

\* What is neither of the cart nor its page.
LEMMA CallLeaves ==
  ASSUME StoreInv, page = "checkout", CanSend,
         NEW op \in {"checkout", "pay"}, call' = Sending(op, Nothing, 0),
         UNCHANGED <<cart, order, page, shown, known, overlapped, intended>>
  PROVE  StoreInv'
<1> DEFINE sent == Sent(op, Nothing, 0)
<1>1. PICK slot \in Call : call[slot] = Free /\ call' = [call EXCEPT ![slot] = sent]
  BY SendingFrom DEF StoreInv
<1>2. /\ DOMAIN sent = CallFields /\ sent.here /\ sent.awaited /\ sent.step = "sent"
      /\ sent.op \notin CartOps
  BY DEF Sent, CallFields, CartOps
<1> HIDE DEF sent
<1>3. DOMAIN call = Call /\ call'[slot] = sent /\ \A c \in Call \ {slot} : call'[c] = call[c]
  BY <1>1 DEF StoreInv, CallsTypeOK
<1>4. CallsTypeOK'
  BY <1>1, <1>2, <1>3 DEF StoreInv, CallsTypeOK
<1>5. InFlight' = InFlight
  BY <1>1, <1>2, <1>3 DEF InFlight, CartOps, Free
<1>6. Answered' => Answered
  BY <1>2, <1>3 DEF Answered
<1>7. CartIsIntended'
  BY <1>5, <1>6 DEF StoreInv, CartIsIntended
<1> QED BY <1>4, <1>7 DEF StoreInv, CartIsShown

\* The widgets, paid or closed.
LEMMA WidgetsKeep ==
  ASSUME StoreInv, ScriptEnds \/ OpenRazorpayCheckout \/ CloseWidget(TRUE) \/ CloseWidget(FALSE)
  PROVE  StoreInv'
<1>1. UNCHANGED <<cart, shown, known, overlapped, intended>>
  BY DEF ScriptEnds, OpenRazorpayCheckout, CloseWidget
<1>2. CASE UNCHANGED <<order, page, call>>
  BY <1>1, <1>2 DEF StoreInv, CallsTypeOK, CartIsShown, CartIsIntended, Answered, InFlight
<1>3. CASE /\ page' = "confirmation" /\ order' = [order EXCEPT !.paid = "gateway"]
           /\ call' = Unmounted
  <2>1. CallsTypeOK
    BY DEF StoreInv
  <2>2. DOMAIN order' = {"lines", "paid"} /\ order'.lines = order.lines /\ order' # NoOrder
    BY <1>3, <2>1 DEF CallsTypeOK, NoOrder
  <2>3. CallsTypeOK'
    BY <1>3, <2>1, <2>2, Leaving
  <2>4. InFlight' = InFlight /\ \A c \in Call : ~call'[c].here
    BY <1>3, <2>1, <2>2, Leaving
  <2>5. Answered' => Answered
    BY <1>1, <2>4 DEF Answered
  <2>6. CartIsIntended'
    BY <1>1, <1>3, <2>2, <2>4, <2>5 DEF StoreInv, CartIsIntended
  <2> QED BY <1>3, <2>3, <2>6 DEF StoreInv, CartIsShown
<1> QED BY <1>2, <1>3 DEF ScriptEnds, OpenRazorpayCheckout, CloseWidget

\* A call moves on, or ends.
LEMMA CallMoves ==
  ASSUME CallsTypeOK, NEW c \in Call, NEW new, call' = [call EXCEPT ![c] = new],
         DOMAIN new = CallFields, new.here => new.awaited, DOMAIN order' = {"lines", "paid"}
  PROVE  /\ CallsTypeOK' /\ call'[c] = new
         /\ \A d \in Call \ {c} : call'[d] = call[d]
         /\ new.op \notin CartOps => InFlight' = InFlight \ {c}
         /\ new.op = call[c].op => InFlight' = InFlight
<1>1. /\ DOMAIN call' = Call /\ call'[c] = new
      /\ \A d \in Call \ {c} : call'[d] = call[d]
  BY DEF CallsTypeOK
<1>2. CallsTypeOK'
  BY <1>1 DEF CallsTypeOK
<1>3. new.op \notin CartOps => InFlight' = InFlight \ {c}
  BY <1>1 DEF InFlight, CartOps
<1>4. new.op = call[c].op => InFlight' = InFlight
  BY <1>1 DEF InFlight
<1> QED BY <1>1, <1>2, <1>3, <1>4

LEMMA FreeCall == DOMAIN Free = CallFields /\ ~Free.here /\ Free.op = "none" /\ Free.op \notin CartOps
BY DEF Free, CallFields, CartOps

\* The API answers, or refuses.
LEMMA ExecuteKeeps ==
  ASSUME StoreInv, NEW c \in Call, Execute(c) \/ Fail(c)
  PROVE  StoreInv'
<1>1. /\ call[c].step = "sent" /\ UNCHANGED <<page, shown, known, overlapped, intended>>
      /\ CallsTypeOK /\ DOMAIN call[c] = CallFields /\ DOMAIN order = {"lines", "paid"}
  BY DEF Execute, Fail, StoreInv, CallsTypeOK
<1>2. CASE \/ call[c].op = "load" /\ UNCHANGED <<cart, order>>
              /\ call' = [call EXCEPT ![c].step = "answered", ![c].answer = cart]
           \/ call[c].op \in {"upsert", "remove"} /\ UNCHANGED order
              /\ call' = [call EXCEPT ![c].step = "answered", ![c].answer = cart']
  <2>1. PICK new : /\ new = [call[c] EXCEPT !.step = "answered", !.answer = cart']
                   /\ call' = [call EXCEPT ![c] = new]
    BY <1>2
  <2>2. /\ DOMAIN new = CallFields /\ new.op = call[c].op /\ new.step = "answered"
        /\ new.answer = cart' /\ new.here = call[c].here /\ new.awaited = call[c].awaited
    BY <1>1, <2>1 DEF CallFields
  <2>3. /\ CallsTypeOK' /\ call'[c] = new /\ InFlight' = InFlight /\ c \in InFlight
        /\ \A d \in Call \ {c} : call'[d] = call[d]
    BY <1>1, <1>2, <2>1, <2>2, CallMoves DEF CallsTypeOK, InFlight
  <2>4. CartIsShown'
    BY <1>1, <1>2, <2>2, <2>3 DEF StoreInv, CartIsShown
  <2>5. CartIsIntended'
    BY <1>1, <2>3 DEF StoreInv, CartIsIntended
  <2> QED BY <2>3, <2>4, <2>5 DEF StoreInv
<1>3. CASE /\ call[c].op = "checkout" /\ order = NoOrder
           /\ order' = [lines |-> cart, paid |-> "no"]
           /\ call' = [call EXCEPT ![c].step = "answered", ![c].answer = Nothing]
  <2>1. PICK new : /\ new = [call[c] EXCEPT !.step = "answered", !.answer = Nothing]
                   /\ call' = [call EXCEPT ![c] = new]
    BY <1>3
  <2>2. /\ DOMAIN new = CallFields /\ new.op = call[c].op /\ new.here = call[c].here
        /\ new.awaited = call[c].awaited
    BY <1>1, <2>1 DEF CallFields
  <2>3. DOMAIN order' = {"lines", "paid"} /\ order'.lines = cart /\ order' # NoOrder
    BY <1>3 DEF NoOrder
  <2>4. CallsTypeOK' /\ InFlight' = InFlight
    BY <1>1, <2>1, <2>2, <2>3, CallMoves DEF CallsTypeOK
  <2>5. InFlight = {} => \A d \in InFlight' : FALSE
    BY <2>4
  <2>6. CartIsShown'
    <3> SUFFICES ASSUME page = "cart", ~overlapped PROVE CartIsShown'
      BY <1>1 DEF CartIsShown
    <3>1. /\ \A d, e \in InFlight : d = e
          /\ shown # Nothing => \A d \in InFlight : call[d].here
      BY DEF StoreInv, CartIsShown
    <3>2. \A d \in Call : call'[d].here = call[d].here
      BY <1>1, <2>1, <2>2 DEF CallsTypeOK
    <3>3. InFlight \subseteq Call
      BY DEF InFlight
    <3> QED BY <1>1, <2>3, <2>4, <3>1, <3>2, <3>3 DEF CartIsShown
  <2>7. CartIsIntended'
    BY <1>1, <1>3, <2>3, <2>4 DEF StoreInv, CartIsIntended
  <2> QED BY <2>4, <2>6, <2>7 DEF StoreInv
<1>4. CASE /\ UNCHANGED <<cart, order>>
           /\ call' = [call EXCEPT ![c].step = "refused"]
  <2>1. PICK new : /\ new = [call[c] EXCEPT !.step = "refused"]
                   /\ call' = [call EXCEPT ![c] = new]
    BY <1>4
  <2>2. /\ DOMAIN new = CallFields /\ new.op = call[c].op /\ new.here = call[c].here
        /\ new.awaited = call[c].awaited /\ new.step = "refused"
    BY <1>1, <2>1 DEF CallFields
  <2>3. /\ CallsTypeOK' /\ InFlight' = InFlight /\ call'[c] = new
        /\ \A d \in Call \ {c} : call'[d] = call[d]
    <3>1. /\ CallsTypeOK /\ DOMAIN order' = {"lines", "paid"} /\ (new.here => new.awaited)
          /\ call' = [call EXCEPT ![c] = new] /\ DOMAIN new = CallFields
          /\ new.op = call[c].op
      BY <1>1, <1>4, <2>1, <2>2 DEF CallsTypeOK
    <3> QED BY <3>1, CallMoves
  <2>4. Answered' => Answered
    BY <1>1, <2>2, <2>3 DEF Answered
  <2>5. CartIsIntended'
    BY <1>1, <1>4, <2>3, <2>4 DEF StoreInv, CartIsIntended
  <2>6. CartIsShown'
    BY <1>1, <1>4, <2>2, <2>3 DEF StoreInv, CartIsShown, InFlight
  <2> QED BY <2>3, <2>5, <2>6 DEF StoreInv
<1>5. CASE /\ call[c].op = "pay" /\ UNCHANGED cart
           /\ order' = order \/ (order.paid = "no" /\ order' = [order EXCEPT !.paid = "later"])
           /\ call' = [call EXCEPT ![c].step = "answered", ![c].answer = Nothing]
  <2>1. PICK new : /\ new = [call[c] EXCEPT !.step = "answered", !.answer = Nothing]
                   /\ call' = [call EXCEPT ![c] = new]
    BY <1>5
  <2>2. /\ DOMAIN new = CallFields /\ new.op = "pay" /\ new.here = call[c].here
        /\ new.awaited = call[c].awaited
    BY <1>1, <1>5, <2>1 DEF CallFields
  <2>3. /\ DOMAIN order' = {"lines", "paid"} /\ order'.lines = order.lines
        /\ order' = NoOrder <=> order = NoOrder
    BY <1>1, <1>5 DEF NoOrder
  <2>4. /\ CallsTypeOK' /\ InFlight' = InFlight /\ call'[c] = new
        /\ \A d \in Call \ {c} : call'[d] = call[d]
    <3>1. /\ CallsTypeOK /\ DOMAIN order' = {"lines", "paid"} /\ (new.here => new.awaited)
          /\ call' = [call EXCEPT ![c] = new] /\ DOMAIN new = CallFields
          /\ new.op = call[c].op
      BY <1>1, <1>5, <2>1, <2>2, <2>3 DEF CallsTypeOK
    <3> QED BY <3>1, CallMoves
  <2>5. Answered' => Answered
    BY <1>1, <2>2, <2>4 DEF Answered
  <2>6. c \notin InFlight /\ InFlight \subseteq Call
    BY <1>5 DEF InFlight
  <2>7. CartIsShown'
    <3>1. \A d \in InFlight : call'[d] = call[d]
      BY <2>4, <2>6
    <3>2. CartIsShown /\ UNCHANGED <<page, shown, overlapped, cart>>
      BY <1>1, <1>5 DEF StoreInv
    <3> QED BY <2>3, <2>4, <3>1, <3>2 DEF CartIsShown
  <2>8. CartIsIntended'
    BY <1>1, <1>5, <2>3, <2>4, <2>5 DEF StoreInv, CartIsIntended
  <2> QED BY <2>4, <2>7, <2>8 DEF StoreInv
<1> QED BY <1>2, <1>3, <1>4, <1>5 DEF Execute, Fail

\* A call of the page's ends, or goes on to pay.
LEMMA CallEnds ==
  ASSUME StoreInv, NEW c \in Call, NEW new, call' = [call EXCEPT ![c] = new],
         DOMAIN new = CallFields, new.op \notin CartOps \union {"checkout"},
         new.here => new.awaited,
         UNCHANGED <<cart, order, overlapped, intended>>,
         page' = page, c \notin InFlight => shown' \in {shown, Nothing},
         c \in InFlight /\ page = "cart" /\ ~overlapped =>
           shown' = Nothing \/ (order = NoOrder => shown' = cart),
         known' => Answered
  PROVE  StoreInv'
<1>1. CallsTypeOK /\ DOMAIN order' = {"lines", "paid"}
  BY DEF StoreInv, CallsTypeOK
<1>2. /\ CallsTypeOK' /\ call'[c] = new /\ InFlight' = InFlight \ {c}
      /\ \A d \in Call \ {c} : call'[d] = call[d]
  BY <1>1, CallMoves
<1>3. Answered' => Answered
  BY <1>2 DEF Answered
<1>4. CartIsIntended'
  BY <1>2, <1>3 DEF StoreInv, CartIsIntended
<1>5. CartIsShown'
  <2> SUFFICES ASSUME page = "cart", ~overlapped PROVE CartIsShown'
    BY DEF CartIsShown
  <2>1. CartIsShown /\ InFlight \subseteq Call
    BY DEF StoreInv, InFlight
  <2>2. CASE c \in InFlight
    <3>1. InFlight' = {}
      BY <1>2, <2>1, <2>2 DEF CartIsShown
    <3> QED BY <2>2, <3>1 DEF CartIsShown
  <2>3. CASE c \notin InFlight
    <3>1. InFlight' = InFlight /\ \A d \in InFlight : call'[d] = call[d]
      BY <1>2, <2>1, <2>3
    <3> QED BY <2>1, <2>3, <3>1 DEF CartIsShown
  <2> QED BY <2>2, <2>3
<1> QED BY <1>2, <1>4, <1>5 DEF StoreInv

LEMMA HeardKeeps ==
  ASSUME StoreInv, NEW c \in Call, Heard(c) \/ Unheard(c)
  PROVE  StoreInv'
<1>1. /\ UNCHANGED <<cart, order, overlapped, intended>>
      /\ CallsTypeOK /\ DOMAIN call[c] = CallFields /\ (call[c].here => call[c].awaited)
      /\ DOMAIN order = {"lines", "paid"}
  BY DEF Heard, Unheard, StoreInv, CallsTypeOK
<1>2. ~call[c].here /\ c \in InFlight /\ page = "cart" /\ ~overlapped => shown = Nothing
  BY DEF StoreInv, CartIsShown
<1>3. CASE /\ call[c].op \in {"load", "upsert", "remove"} /\ call[c].step = "answered"
           /\ IF call[c].here /\ page = "cart" THEN shown' = call[c].answer ELSE UNCHANGED shown
           /\ call' = [call EXCEPT ![c] = Free] /\ UNCHANGED <<page, known>>
  <2>1. c \in InFlight
    BY <1>3 DEF InFlight
  <2>2. page = "cart" /\ ~overlapped => shown' = Nothing \/ (order = NoOrder => shown' = cart)
    BY <1>2, <1>3, <2>1 DEF StoreInv, CartIsShown
  <2> QED BY <1>1, <1>3, <2>1, <2>2, CallEnds, FreeCall DEF Answered
<1>4. CASE /\ call[c].op = "checkout" /\ call[c].step = "answered"
           /\ known' = (known \/ call[c].here)
           /\ call' = [call EXCEPT ![c].op = "pay", ![c].step = "sent"]
           /\ UNCHANGED <<page, shown>>
  <2>1. PICK new : /\ new = [call[c] EXCEPT !.op = "pay", !.step = "sent"]
                   /\ call' = [call EXCEPT ![c] = new]
    BY <1>4
  <2>2. /\ DOMAIN new = CallFields /\ new.here = call[c].here /\ new.op = "pay"
        /\ new.awaited = call[c].awaited
    BY <1>1, <2>1 DEF CallFields
  <2>3. c \notin InFlight /\ new.op \notin CartOps \union {"checkout"}
        /\ (new.here => new.awaited)
    BY <1>1, <1>4, <2>2 DEF InFlight, CartOps
  <2>4. known' => Answered
    BY <1>4 DEF Answered
  <2>5. /\ UNCHANGED <<cart, order, overlapped, intended, page, shown>>
        /\ call' = [call EXCEPT ![c] = new] /\ DOMAIN new = CallFields
    BY <1>1, <1>4, <2>1, <2>2
  <2> QED BY <2>3, <2>4, <2>5, CallEnds
<1>5. CASE /\ call[c].op = "pay" /\ UNCHANGED <<shown, known>>
           /\ page' = "confirmation" /\ call' = [Unmounted EXCEPT ![c] = Free]
  <2>1. DOMAIN call' = Call /\ call'[c] = Free
        /\ \A d \in Call \ {c} : call'[d] = [call[d] EXCEPT !.here = FALSE]
    BY <1>5 DEF Unmounted
  <2>2. \A d \in Call : DOMAIN call'[d] = CallFields /\ ~call'[d].here
    BY <1>1, <2>1, FreeCall DEF CallsTypeOK, CallFields
  <2>3. InFlight' \subseteq InFlight
    <3>1. \A d \in Call \ {c} : call'[d].op = call[d].op
      BY <1>1, <2>1 DEF CallsTypeOK, CallFields
    <3> QED BY <2>1, <3>1, FreeCall DEF InFlight, CartOps
  <2>4. CallsTypeOK'
    BY <1>1, <2>1, <2>2 DEF CallsTypeOK
  <2>5. Answered' => Answered
    BY <1>5, <2>2 DEF Answered
  <2>6. CartIsIntended'
    BY <1>1, <1>5, <2>3, <2>5 DEF StoreInv, CartIsIntended
  <2> QED BY <1>5, <2>4, <2>6 DEF StoreInv, CartIsShown
<1>6. CASE /\ call[c].op = "pay" /\ UNCHANGED <<page, shown, known>>
           /\ call' = [call EXCEPT ![c] = Free]
  <2>1. c \notin InFlight
    BY <1>6 DEF InFlight
  <2> QED BY <1>1, <1>6, <2>1, CallEnds, FreeCall DEF Answered
<1>7. CASE /\ IF call[c].here THEN shown' = Nothing ELSE UNCHANGED shown
           /\ call' = [call EXCEPT ![c] = Free] /\ UNCHANGED <<page, known>>
  BY <1>1, <1>2, <1>7, CallEnds, FreeCall DEF Answered
<1>8. CASE Heard(c)
  BY <1>3, <1>4, <1>5, <1>6, <1>7, <1>8 DEF Heard, ShowError
<1>9. CASE Unheard(c)
  BY <1>1, <1>7, <1>9 DEF Unheard
<1> QED BY <1>8, <1>9

\* The browser gives a call up: its page shows an error, and the call may still
\* be carried out.
LEMMA GiveUpKeeps ==
  ASSUME StoreInv, NEW c \in Call, GiveUp(c)
  PROVE  StoreInv'
<1>1. /\ UNCHANGED <<cart, order, page, known, overlapped, intended>>
      /\ IF call[c].here THEN shown' = Nothing ELSE UNCHANGED shown
      /\ CallsTypeOK /\ DOMAIN call[c] = CallFields /\ DOMAIN order' = {"lines", "paid"}
  BY DEF GiveUp, ShowError, StoreInv, CallsTypeOK
<1>2. PICK new : /\ new = [call[c] EXCEPT !.awaited = FALSE, !.here = FALSE]
                 /\ call' = [call EXCEPT ![c] = new]
  BY DEF GiveUp
<1>3. /\ DOMAIN new = CallFields /\ ~new.here /\ new.op = call[c].op
      /\ new.step = call[c].step /\ new.answer = call[c].answer
  BY <1>1, <1>2 DEF CallFields
<1>4. /\ CallsTypeOK' /\ call'[c] = new /\ InFlight' = InFlight
      /\ \A d \in Call \ {c} : call'[d] = call[d]
  BY <1>1, <1>2, <1>3, CallMoves
<1>5. Answered' => Answered
  BY <1>1, <1>3, <1>4 DEF Answered
<1>6. CartIsIntended'
  BY <1>1, <1>4, <1>5 DEF StoreInv, CartIsIntended
<1>7. CartIsShown'
  <2> SUFFICES ASSUME page = "cart", ~overlapped PROVE CartIsShown'
    BY <1>1 DEF CartIsShown
  <2>1. CartIsShown /\ InFlight \subseteq Call
    BY DEF StoreInv, InFlight
  <2>2. \A d \in InFlight : /\ call'[d].step = call[d].step /\ call'[d].answer = call[d].answer
                            /\ d # c => call'[d].here = call[d].here
    BY <1>3, <1>4, <2>1
  <2>3. shown' # Nothing => c \notin InFlight /\ shown' = shown
    BY <1>1, <2>1 DEF CartIsShown
  <2> QED BY <1>1, <1>4, <2>1, <2>2, <2>3 DEF CartIsShown
<1> QED BY <1>4, <1>6, <1>7 DEF StoreInv

\* What the visitor proceeded with is what the form's order has, whatever failed
\* or was given up, for any items, calls and slots, unless calls of the cart
\* overlapped: without that the page of the cart shows the cart, or nothing.
THEOREM OrderIsWhatWasShownHolds == StorefrontSpec => []OrderIsWhatWasShown
<1>1. StoreInv /\ [StorefrontNext]_storefrontVars => StoreInv'
  <2> SUFFICES ASSUME StoreInv, [StorefrontNext]_storefrontVars PROVE StoreInv'
    OBVIOUS
  <2>1. CASE CartPage
    BY <2>1, OpenCartPageKeeps, ProceedKeeps, ChangeCartKeeps DEF CartPage
  <2>2. CASE OnSubmitAddress
    BY <2>2, CallLeaves DEF OnSubmitAddress
  <2>3. CASE PayForOrder
    BY <2>3, CallLeaves DEF PayForOrder
  <2>4. CASE UNCHANGED storefrontVars
    BY <2>4 DEF storefrontVars, StoreInv, CallsTypeOK, CartIsShown, CartIsIntended, Answered,
                InFlight
  <2> QED BY <2>1, <2>2, <2>3, <2>4, BooksKeep, WidgetsKeep, ExecuteKeeps, HeardKeeps,
             GiveUpKeeps DEF StorefrontNext, CheckoutForm
<1>2. StoreInv => OrderIsWhatWasShown
  BY DEF StoreInv, CartIsIntended, Answered, OrderIsWhatWasShown
<1> QED BY <1>1, <1>2, InitStore, PTL DEF StorefrontSpec

-----------------------------------------------------------------------------
(* A walk through the pages of a search *)

\* Every element of S once, none after one that the relation puts it before.
InOrder(S, R) ==
  {s \in [1..Cardinality(S) -> S] :
     /\ \A i, j \in 1..Cardinality(S) : i # j => s[i] # s[j]
     /\ \A i, j \in 1..Cardinality(S) : i < j => <<s[j], s[i]>> \notin R}

\* The sequence has all of S.
LEMMA AllInOrder ==
  ASSUME NEW S, IsFiniteSet(S), NEW R, NEW s \in InOrder(S, R)
  PROVE  /\ Cardinality(S) \in Nat
         /\ \A e \in S : \E i \in 1..Cardinality(S) : s[i] = e
<1> DEFINE n == Cardinality(S)
<1>1. n \in Nat
  BY FS_CardinalityType
<1>2. s \in Injection(1..n, S)
  <2>1. DOMAIN s = 1..n /\ s \in [1..n -> S]
    BY DEF InOrder
  <2>2. IsInjective(s)
    BY <2>1 DEF InOrder, IsInjective
  <2> QED BY <2>1, <2>2 DEF Injection
<1>3. IsFiniteSet(1..n) /\ Cardinality(1..n) = n
  BY <1>1, FS_Interval
<1>4. s \in Surjection(1..n, S)
  BY <1>2, <1>3, FS_Injection
<1> QED BY <1>1, <1>4 DEF Surjection

\* As many come before an element as are before it in the sequence.
LEMMA PlaceInOrder ==
  ASSUME NEW S, IsFiniteSet(S), NEW R,
         \A b, c \in S : b # c => <<b, c>> \in R \/ <<c, b>> \in R,
         \A b \in S : <<b, b>> \notin R,
         NEW s \in InOrder(S, R), NEW i \in 1..Cardinality(S)
  PROVE  Cardinality({b \in S : <<b, s[i]>> \in R}) = i - 1
<1> DEFINE n == Cardinality(S)
           before == {b \in S : <<b, s[i]>> \in R}
           f == [j \in 1..(i - 1) |-> s[j]]
<1>1. n \in Nat /\ i - 1 \in Nat /\ 1..(i - 1) \subseteq 1..n
  BY FS_CardinalityType
<1>2. /\ s \in [1..n -> S]
      /\ \A j, k \in 1..n : j # k => s[j] # s[k]
      /\ \A j, k \in 1..n : j < k => <<s[k], s[j]>> \notin R
  BY DEF InOrder
<1>3. \A j \in 1..(i - 1) : s[j] \in before
  <2> SUFFICES ASSUME NEW j \in 1..(i - 1) PROVE s[j] \in before
    OBVIOUS
  <2>1. j \in 1..n /\ j < i /\ s[j] \in S /\ s[i] \in S
    BY <1>1, <1>2
  <2>2. s[j] # s[i] /\ <<s[i], s[j]>> \notin R
    BY <1>2, <2>1
  <2> QED BY <2>1, <2>2
<1>4. \A e \in before : \E j \in 1..(i - 1) : s[j] = e
  <2> SUFFICES ASSUME NEW e \in before PROVE \E j \in 1..(i - 1) : s[j] = e
    OBVIOUS
  <2>1. PICK j \in 1..n : s[j] = e
    BY AllInOrder
  <2>2. ~(i < j) /\ i # j
    BY <1>2, <2>1
  <2> QED BY <1>1, <2>1, <2>2
<1>5. f \in Bijection(1..(i - 1), before)
  <2>1. f \in [1..(i - 1) -> before] /\ DOMAIN f = 1..(i - 1)
    BY <1>3
  <2>2. \A a, b \in 1..(i - 1) : f[a] = f[b] => a = b
    BY <1>1, <1>2
  <2>3. f \in Injection(1..(i - 1), before)
    BY <2>1, <2>2 DEF Injection, IsInjective
  <2>4. f \in Surjection(1..(i - 1), before)
    BY <1>4, <2>1 DEF Surjection
  <2> QED BY <2>3, <2>4 DEF Bijection
<1>6. ExistsBijection(1..(i - 1), before)
  BY <1>5 DEF ExistsBijection
<1> QED BY <1>1, <1>6, FS_CountingElements

\* A total order leaves one sequence.
LEMMA OneOrder ==
  ASSUME NEW S, IsFiniteSet(S), NEW R,
         \A b, c \in S : b # c => <<b, c>> \in R \/ <<c, b>> \in R,
         \A b \in S : <<b, b>> \notin R,
         NEW s \in InOrder(S, R), NEW t \in InOrder(S, R)
  PROVE  s = t
<1>1. s \in [1..Cardinality(S) -> S] /\ t \in [1..Cardinality(S) -> S]
  BY DEF InOrder
<1>2. ASSUME NEW i \in 1..Cardinality(S) PROVE s[i] = t[i]
  <2>1. s[i] \in S /\ Cardinality(S) \in Nat
    BY <1>1, FS_CardinalityType
  <2>2. \A e \in S : \E k \in 1..Cardinality(S) : t[k] = e
    BY AllInOrder
  <2>3. PICK k \in 1..Cardinality(S) : t[k] = s[i]
    BY <2>1, <2>2
  <2>4. Cardinality({b \in S : <<b, s[i]>> \in R}) = i - 1
    BY PlaceInOrder
  <2>5. Cardinality({b \in S : <<b, t[k]>> \in R}) = k - 1
    BY PlaceInOrder
  <2>6. i = k
    BY <2>1, <2>3, <2>4, <2>5
  <2> QED BY <2>3, <2>6
<1>3. ASSUME NEW D, s \in [D -> S], t \in [D -> S], \A i \in D : s[i] = t[i] PROVE s = t
  BY <1>3
<1> QED BY <1>1, <1>2, <1>3

\* The first k of a sequence, or all of it.
Upto(s, k) == SubSeq(s, 1, IF k < Len(s) THEN k ELSE Len(s))

LEMMA PageIsSeq ==
  ASSUME NEW S, NEW s \in Seq(S), NEW p \in Nat \ {0}, NEW size \in Nat \ {0}
  PROVE  Page(s, p, size) \in Seq(S)
<1>1. PICK k \in Nat, l \in Nat : k = (p - 1) * size /\ l = p * size
  OBVIOUS
<1>2. PICK m \in Nat : m = (IF l < Len(s) THEN l ELSE Len(s)) /\ m <= Len(s)
  OBVIOUS
<1>3. Page(s, p, size) = SubSeq(s, k + 1, m)
  BY <1>1, <1>2, Zenon DEF Page
<1> QED BY <1>2, <1>3

\* The pages before one, with it, are the pages up to it.
LEMMA PageFollows ==
  ASSUME NEW S, NEW s \in Seq(S), NEW p \in Nat \ {0},
         (p - 1) * PageSize <= Len(s)
  PROVE  /\ Page(s, p, PageSize) \in Seq(S)
         /\ Upto(s, (p - 1) * PageSize) \o Page(s, p, PageSize) = Upto(s, p * PageSize)
         /\ Page(s, p, PageSize) = <<>> => Len(s) <= (p - 1) * PageSize
<1>1. PICK k \in Nat : k = (p - 1) * PageSize
  BY SearchAssumption
<1>2. PICK l \in Nat : l = p * PageSize
  BY SearchAssumption
<1>3. k < l
  <2>1. p * PageSize = (p - 1) * PageSize + PageSize
    BY SearchAssumption
  <2> QED BY <1>1, <1>2, <2>1, SearchAssumption
<1>4. PICK m \in Nat : m = IF l < Len(s) THEN l ELSE Len(s)
  OBVIOUS
<1>5. Page(s, p, PageSize) = SubSeq(s, k + 1, m) /\ Upto(s, p * PageSize) = SubSeq(s, 1, m)
  BY <1>1, <1>2, <1>4 DEF Page, Upto
<1>6. Upto(s, (p - 1) * PageSize) = SubSeq(s, 1, k)
  BY <1>1 DEF Upto
<1>7. k <= m /\ m <= Len(s)
  BY <1>1, <1>3, <1>4
<1>8. SubSeq(s, 1, k) \o SubSeq(s, k + 1, m) = SubSeq(s, 1, m)
  BY <1>7
<1>9. SubSeq(s, k + 1, m) \in Seq(S) /\ Len(SubSeq(s, k + 1, m)) = m - k
  BY <1>7
<1>10. SubSeq(s, k + 1, m) = <<>> => Len(s) <= k
  <2> SUFFICES ASSUME SubSeq(s, k + 1, m) = <<>> PROVE Len(s) <= k
    OBVIOUS
  <2>1. Len(SubSeq(s, k + 1, m)) = 0
    <3>1. Len(<<>>) = 0
      OBVIOUS
    <3> QED BY <3>1, Zenon
  <2>2. m = k
    BY <1>7, <1>9, <2>1
  <2> QED BY <1>3, <1>4, <2>2
<1>11. Page(s, p, PageSize) = <<>> => Len(s) <= (p - 1) * PageSize
  <2>1. Page(s, p, PageSize) = <<>> => Len(s) <= k
    BY <1>5, <1>10
  <2> QED BY <1>1, <2>1, Zenon
<1>12. Upto(s, (p - 1) * PageSize) \o Page(s, p, PageSize) = Upto(s, p * PageSize)
  BY <1>5, <1>6, <1>8, Zenon
<1> QED BY <1>5, <1>9, <1>11, <1>12, Zenon

\* Back to the pages before one.
LEMMA UptoLess ==
  ASSUME NEW S, NEW s \in Seq(S), NEW k \in Nat, NEW l \in Nat, k <= l, k <= Len(s)
  PROVE  SubSeq(Upto(s, l), 1, k) = Upto(s, k)
BY DEF Upto

-----------------------------------------------------------------------------
(* What a page of the search finds *)

\* The books a walk is through, and their order.
AllOf(q, f) == IF q = NoQuery THEN published ELSE Matched(q, f)
Score(q) == [b \in Book |-> Relevance(q, b)]
Earlier(q) ==
  {p \in Book \X Book :
     IF q = NoQuery THEN ByTitle(p[1], p[2]) ELSE Ranks(Score(q), p[1], p[2])}
Lists(q, f) == InOrder(AllOf(q, f), Earlier(q))

\* No two books have the same title, where titles are all the order there is.
Clear(q) ==
  q = NoQuery => \A b, c \in published : b # c => BookRow[b].title # BookRow[c].title

\* A published book's work is published, but for those taken back.
CatalogInv ==
  /\ published \subseteq Book
  /\ workStatus \in [Work -> {"draft", "approved", "published"}]
  /\ \A b \in published : \/ BookRow[b].work \in demoted
                          \/ workStatus[BookRow[b].work] = "published"

VisitFields == {"open", "query", "filter", "page", "reads", "ids", "count", "facets", "cards"}

VisitTypeOK ==
  /\ DOMAIN visit = VisitFields
  /\ visit.open \in BOOLEAN
  /\ visit.query \in Query \union {NoQuery, BookPage}
  /\ DOMAIN visit.filter = Key
  /\ visit.query # BookPage => visit.page \in Nat \ {0}
  /\ visit.reads \subseteq IF visit.query = BookPage THEN {"similar"} ELSE {"ids", "count", "facets"}
  /\ visit.query \notin Query => /\ "facets" \notin visit.reads
                                 /\ \A k \in Key : DOMAIN visit.facets[k] = {}
  /\ visit.reads # {} => visit.open /\ visit.cards = <<>>
  /\ visit.ids \in Seq(Book)
  /\ DOMAIN visit.facets = Key

\* While nothing changes: the facets count what the search finds, and what the
\* visitor expects of the facet that was followed is what this search finds.
FacetInv ==
  ~changed => \A q, f : q = visit.query /\ f = visit.filter =>
    /\ \A k \in Key : \A v \in DOMAIN visit.facets[k] :
         /\ q \in Query /\ v # AnyValue
         /\ visit.facets[k][v] = Cardinality({b \in Matched(q, f) : v \in ValuesOf(k, b)})
    /\ \A n \in expected : q \in Query /\ n = CountMatches(q, f)
    /\ visit.open /\ q # BookPage /\ "count" \notin visit.reads =>
         visit.count = Cardinality(AllOf(q, f))

\* The cards of some books, with the authors as one query had them.
CardsOf(ids) == {Build(ids, answer) : answer \in AuthorsByWork}

\* While nothing changes, the books of a page are there; its cards are theirs.
CardInv ==
  /\ ~changed => \A i \in DOMAIN visit.ids : visit.ids[i] \in published
  /\ visit.cards = <<>> \/ \E ids : ids = visit.ids /\ visit.cards \in CardsOf(ids)

\* While nothing changes, the pages so far are the start of every order of the
\* books there may be, which is one; a page after the first is there.
WalkInv ==
  visit.open /\ visit.query # BookPage /\ ~changed =>
    \A q, f : q = visit.query /\ f = visit.filter /\ Clear(q) =>
      /\ visit.page > 1 => (visit.page - 1) * PageSize < Cardinality(AllOf(q, f))
      /\ "ids" \notin visit.reads => Lists(q, f) # {}
      /\ \A s \in Lists(q, f) :
           /\ "ids" \notin visit.reads => visit.ids = Page(s, visit.page, PageSize)
           /\ walked = Upto(s, IF visit.cards = <<>> THEN (visit.page - 1) * PageSize
                               ELSE visit.page * PageSize)

SearchInv == CatalogInv /\ VisitTypeOK /\ FacetInv /\ CardInv /\ WalkInv

\* Nothing of it changes unless the catalogue or the likes do.
LEMMA SameFinds ==
  ASSUME UNCHANGED <<catalogVars, interestVars>>
  PROVE  /\ \A q, f : /\ Matched(q, f)' = Matched(q, f) /\ AllOf(q, f)' = AllOf(q, f)
                      /\ CountMatches(q, f)' = CountMatches(q, f)
                      /\ Lists(q, f)' = Lists(q, f)
         /\ \A q : Clear(q)' = Clear(q)
         /\ \A k, b : ValuesOf(k, b)' = ValuesOf(k, b)
         /\ published' = published
<1>1. UNCHANGED <<published, inStock, events>>
  BY DEF catalogVars, interestVars
<1>2. \A k, b : ValuesOf(k, b)' = ValuesOf(k, b)
  BY <1>1 DEF ValuesOf
<1>3. EverLiked' = EverLiked
  BY <1>1 DEF EverLiked
<1>4. Signals' = Signals
  BY <1>3 DEF Signals
<1>5. \A b : IsPersonal(b)' = IsPersonal(b)
  BY <1>4 DEF IsPersonal
<1>6. \A q, b : Relevance(q, b)' = Relevance(q, b)
  BY <1>5 DEF Relevance
<1>7. \A f, b : FilterClause(f, b)' = FilterClause(f, b)
  BY <1>1, <1>2 DEF FilterClause
<1>8. \A q, f : Matched(q, f)' = Matched(q, f)
  BY <1>6, <1>7 DEF Matched
<1>9. \A q : Score(q)' = Score(q)
  BY <1>6 DEF Score
<1>10. \A q : Earlier(q)' = Earlier(q)
  BY <1>9 DEF Earlier, ByTitle, Ranks
<1>11. \A q, f : AllOf(q, f)' = AllOf(q, f)
  BY <1>1, <1>8 DEF AllOf
<1>12. \A q, f : Lists(q, f)' = Lists(q, f)
  BY <1>10, <1>11 DEF Lists
<1>13. \A q, f : CountMatches(q, f)' = CountMatches(q, f)
  BY <1>8 DEF CountMatches
<1>14. \A q : Clear(q)' = Clear(q)
  BY <1>1 DEF Clear
<1> QED BY <1>1, <1>2, <1>8, <1>11, <1>12, <1>13, <1>14

LEMMA FindsFinite ==
  ASSUME CatalogInv
  PROVE  \A q, f : /\ AllOf(q, f) \subseteq published /\ Matched(q, f) \subseteq published
                   /\ IsFiniteSet(AllOf(q, f)) /\ Cardinality(AllOf(q, f)) \in Nat
<1>1. \A q, f : AllOf(q, f) \subseteq published /\ Matched(q, f) \subseteq published
  BY DEF AllOf, Matched, FilterClause
<1>2. \A T \in SUBSET Book : IsFiniteSet(T) /\ Cardinality(T) \in Nat
  BY CatalogAssumption, FS_Subset, FS_CardinalityType
<1>3. published \subseteq Book
  BY DEF CatalogInv
<1> QED BY <1>1, <1>2, <1>3

LEMMA ListIsSeq ==
  ASSUME CatalogInv, NEW q, NEW f, NEW s \in Lists(q, f)
  PROVE  /\ s \in Seq(AllOf(q, f)) /\ Len(s) = Cardinality(AllOf(q, f))
         /\ Len(s) \in Nat
<1>1. Cardinality(AllOf(q, f)) \in Nat
  BY FindsFinite
<1>2. s \in [1..Cardinality(AllOf(q, f)) -> AllOf(q, f)]
  BY DEF Lists, InOrder
<1> QED BY <1>1, <1>2

\* A page that is read is of one of the orders.
LEMMA PageOfList ==
  ASSUME CatalogInv, NEW q, NEW f, NEW p,
         NEW ids \in IF q = NoQuery THEN ListRows(p, PageSize) ELSE MatchedBookIds(q, f, p)
  PROVE  \E s \in Lists(q, f) : ids = Page(s, p, PageSize)
<1>1. CASE q = NoQuery
  <2>1. PICK s \in Orders(published, ByTitle) : ids = Page(s, p, PageSize)
    BY <1>1 DEF ListRows
  <2>2. /\ s \in [1..Cardinality(published) -> published]
        /\ \A i, j \in 1..Cardinality(published) : i # j => s[i] # s[j]
        /\ \A i, j \in 1..Cardinality(published) : i < j => ~ByTitle(s[j], s[i])
    BY <2>1 DEF Orders, SetToSeqs
  <2>3. AllOf(q, f) = published
    BY <1>1 DEF AllOf
  <2>4. \A b, c : <<b, c>> \in Earlier(q) => ByTitle(b, c)
    BY <1>1 DEF Earlier
  <2>5. s \in Lists(q, f)
    BY <2>2, <2>3, <2>4 DEF Lists, InOrder
  <2> QED BY <2>1, <2>5
<1>2. CASE q # NoQuery
  <2> DEFINE M == Matched(q, f)
  <2>1. PICK s : /\ s \in [1..Cardinality(M) -> M]
                 /\ \A i, j \in 1..Cardinality(M) : i # j => s[i] # s[j]
                 /\ \A i, j \in 1..Cardinality(M) : i < j => ~Ranks(Score(q), s[j], s[i])
                 /\ ids = Page(s, p, PageSize)
    BY <1>2 DEF MatchedBookIds, Orders, SetToSeqs, Score
  <2>2. AllOf(q, f) = M
    BY <1>2 DEF AllOf
  <2>3. \A b, c : <<b, c>> \in Earlier(q) => Ranks(Score(q), b, c)
    BY <1>2 DEF Earlier
  <2> HIDE DEF M
  <2>4. s \in Lists(q, f)
    BY <2>1, <2>2, <2>3 DEF Lists, InOrder
  <2> QED BY <2>1, <2>4
<1> QED BY <1>1, <1>2

\* There is one order: of a search always, of all books by their titles.
LEMMA OneList ==
  ASSUME CatalogInv, NEW q \in Query \union {NoQuery}, NEW f, Clear(q),
         NEW s \in Lists(q, f), NEW t \in Lists(q, f)
  PROVE  s = t
<1>1. AllOf(q, f) \subseteq Book /\ AllOf(q, f) \subseteq published /\ IsFiniteSet(AllOf(q, f))
  BY FindsFinite DEF CatalogInv
<1>2. CASE q = NoQuery
  <2>1. \A b, c \in Book : <<b, c>> \in Earlier(q) <=> BookRow[b].title < BookRow[c].title
    BY <1>2 DEF Earlier, ByTitle
  <2>2. \A b \in Book : BookRow[b].title \in Nat
    BY CatalogAssumption
  <2>3. \A b, c \in AllOf(q, f) : b # c => BookRow[b].title # BookRow[c].title
    BY <1>1, <1>2 DEF Clear
  <2>4. \A b, c \in AllOf(q, f) : b # c => <<b, c>> \in Earlier(q) \/ <<c, b>> \in Earlier(q)
    BY <1>1, <2>1, <2>2, <2>3
  <2>5. \A b \in AllOf(q, f) : <<b, b>> \notin Earlier(q)
    BY <1>1, <2>1, <2>2
  <2> QED BY <1>1, <2>4, <2>5, OneOrder DEF Lists
<1>3. CASE q \in Query
  <2>1. \A b \in Book : Relevance(q, b) \in Nat
    <3> SUFFICES ASSUME NEW b \in Book PROVE Relevance(q, b) \in Nat
      OBVIOUS
    <3>1. PICK m, n \in Nat : Relevance(q, b) = Max({m, n})
      BY <1>3, SearchAssumption DEF Relevance
    <3>2. \E x \in {m, n} : \A y \in {m, n} : x >= y
      OBVIOUS
    <3> QED BY <3>1, <3>2 DEF Max
  <2>2. \A b, c \in Book : <<b, c>> \in Earlier(q) <=> Ranks(Score(q), b, c)
    BY <1>3, SearchAssumption DEF Earlier
  <2>3. Book \subseteq Nat
    BY CatalogAssumption
  <2>4. \A b, c \in Book : b # c => Ranks(Score(q), b, c) \/ Ranks(Score(q), c, b)
    BY <2>1, <2>3 DEF Ranks, Score
  <2>5. \A b \in Book : ~Ranks(Score(q), b, b)
    BY <2>1, <2>3 DEF Ranks, Score
  <2> QED BY <1>1, <2>2, <2>4, <2>5, OneOrder DEF Lists
<1> QED BY <1>2, <1>3

LEMMA CatalogKeeps ==
  ASSUME CatalogInv, CatalogNext
  PROVE  CatalogInv'
<1>1. \A b \in Book : BookRow[b].work \in Work
  BY CatalogAssumption
<1>2. ASSUME NEW b \in Book, Publish(b) PROVE CatalogInv'
  <2> DEFINE w == BookRow[b].work
  <2>1. /\ published' = published \union {b} /\ demoted' = demoted \ {w}
        /\ workStatus' = [workStatus EXCEPT ![w] = "published"]
    BY <1>2 DEF Publish
  <2> QED BY <1>1, <2>1 DEF CatalogInv
<1>3. ASSUME NEW w \in Work, NEW status \in {"draft", "approved", "published"},
             SetWorkStatus(w, status)
      PROVE  CatalogInv'
  BY <1>1, <1>3 DEF SetWorkStatus, CatalogInv
<1>4. ASSUME NEW b \in Book, Unpublish(b) \/ SetAvailability(b) PROVE CatalogInv'
  BY <1>4 DEF Unpublish, SetAvailability, CatalogInv
<1> QED BY <1>2, <1>3, <1>4 DEF CatalogNext

\* A page is opened: the walk so far is what is before it, and of what its facet
\* is to lead to the visitor expects what the search finds.
LEMMA OpenKeeps ==
  ASSUME SearchInv, UNCHANGED <<catalogVars, interestVars>>,
         NEW q \in Query \union {NoQuery}, NEW f, DOMAIN f = Key, NEW p \in Nat \ {0},
         Open(q, f, p),
         ~changed' => \A n \in expected' : q \in Query /\ n = CountMatches(q, f),
         ~changed' /\ Clear(q) =>
           /\ p > 1 => (p - 1) * PageSize < Cardinality(AllOf(q, f))
           /\ \A s \in Lists(q, f) : walked' = Upto(s, (p - 1) * PageSize)
  PROVE  SearchInv'
<1>1. /\ DOMAIN visit' = VisitFields /\ visit'.open /\ visit'.query = q /\ visit'.filter = f
      /\ visit'.page = p /\ visit'.ids = <<>> /\ visit'.cards = <<>>
      /\ visit'.facets = [k \in Key |-> <<>>]
      /\ visit'.reads = {"ids", "count"} \union IF q = NoQuery THEN {} ELSE {"facets"}
  BY DEF Open, NoVisit, VisitFields
<1>2. q # BookPage /\ (q = NoQuery => q \notin Query)
  BY SearchAssumption
<1>3. CatalogInv'
  BY DEF SearchInv, CatalogInv, catalogVars
<1>4. VisitTypeOK'
  BY <1>1, <1>2 DEF VisitTypeOK
<1>5. CardInv'
  BY <1>1 DEF CardInv
<1>6. /\ CountMatches(q, f)' = CountMatches(q, f) /\ Clear(q)' = Clear(q)
      /\ AllOf(q, f)' = AllOf(q, f) /\ Lists(q, f)' = Lists(q, f)
  BY SameFinds
<1>7. FacetInv'
  <2>1. \A k \in Key : DOMAIN visit'.facets[k] = {}
    BY <1>1
  <2> QED BY <1>1, <1>6, <2>1 DEF FacetInv
<1>8. WalkInv'
  <2>1. "ids" \in visit'.reads
    BY <1>1
  <2> QED BY <1>1, <1>6, <2>1 DEF WalkInv
<1> QED BY <1>3, <1>4, <1>5, <1>7, <1>8 DEF SearchInv

\* What is read next leaves the rest of the page.
LEMMA ReadIdsKeeps ==
  ASSUME SearchInv, ReadIds, UNCHANGED <<catalogVars, interestVars>>
  PROVE  SearchInv'
<1>1. PICK q, f, p : q = visit.query /\ f = visit.filter /\ p = visit.page
  OBVIOUS
<1>2. PICK ids \in IF q = NoQuery THEN ListRows(p, PageSize) ELSE MatchedBookIds(q, f, p) :
        visit' = [visit EXCEPT !.reads = @ \ {"ids"}, !.ids = ids]
  BY <1>1 DEF ReadIds
<1>3. UNCHANGED <<walked, expected, changed>> /\ "ids" \in visit.reads
  BY DEF ReadIds
<1>4. /\ DOMAIN visit = VisitFields /\ visit.cards = <<>> /\ visit.open
      /\ q \in Query \union {NoQuery} /\ q # BookPage /\ p \in Nat \ {0}
      /\ visit.reads \subseteq {"ids", "count", "facets"}
  BY <1>1, <1>3, SearchAssumption DEF SearchInv, VisitTypeOK
<1>5. /\ DOMAIN visit' = VisitFields /\ visit'.open = visit.open /\ visit'.query = visit.query
      /\ visit'.filter = visit.filter /\ visit'.page = visit.page /\ visit'.ids = ids
      /\ visit'.count = visit.count /\ visit'.facets = visit.facets
      /\ visit'.cards = visit.cards /\ visit'.reads = visit.reads \ {"ids"}
  BY <1>2, <1>4 DEF VisitFields
<1>6. PICK s \in Lists(q, f) : ids = Page(s, p, PageSize)
  BY <1>2, PageOfList DEF SearchInv
<1>7. /\ s \in Seq(AllOf(q, f)) /\ AllOf(q, f) \subseteq published
      /\ published \subseteq Book
  BY ListIsSeq, FindsFinite DEF SearchInv, CatalogInv
<1>8. ids \in Seq(published) /\ ids \in Seq(Book)
  <2>1. ids \in Seq(AllOf(q, f))
    BY <1>4, <1>6, <1>7, PageIsSeq, SearchAssumption
  <2> QED BY <1>7, <2>1
<1>9. CatalogInv'
  BY DEF SearchInv, CatalogInv, catalogVars
<1>10. VisitTypeOK'
  BY <1>3, <1>5, <1>8 DEF SearchInv, VisitTypeOK
<1>11. CardInv'
  BY <1>4, <1>5, <1>8, SameFinds DEF SearchInv, CardInv
<1>12. FacetInv'
  BY <1>3, <1>5, SameFinds DEF SearchInv, FacetInv
<1>13. WalkInv'
  <2> SUFFICES ASSUME ~changed, Clear(q) PROVE WalkInv'
    BY <1>1, <1>3, <1>5, SameFinds DEF WalkInv
  <2>1. \A t \in Lists(q, f) : ids = Page(t, p, PageSize)
    BY <1>4, <1>6, OneList DEF SearchInv
  <2>2. Lists(q, f) # {}
    BY <1>6
  <2>3. /\ p > 1 => (p - 1) * PageSize < Cardinality(AllOf(q, f))
        /\ \A t \in Lists(q, f) : walked = Upto(t, (p - 1) * PageSize)
    BY <1>1, <1>4 DEF SearchInv, WalkInv
  <2>4. Lists(q, f)' = Lists(q, f) /\ AllOf(q, f)' = AllOf(q, f)
    BY SameFinds
  <2> QED BY <1>1, <1>3, <1>4, <1>5, <2>1, <2>2, <2>3, <2>4 DEF WalkInv
<1> QED BY <1>9, <1>10, <1>11, <1>12, <1>13 DEF SearchInv

LEMMA ReadCountKeeps ==
  ASSUME SearchInv, ReadCount, UNCHANGED <<catalogVars, interestVars>>
  PROVE  SearchInv'
<1>1. PICK q, f : q = visit.query /\ f = visit.filter
  OBVIOUS
<1>2. /\ visit' = [visit EXCEPT !.reads = @ \ {"count"},
                     !.count = IF q = NoQuery THEN ListCount ELSE CountMatches(q, f)]
      /\ UNCHANGED <<walked, expected, changed>>
  BY <1>1 DEF ReadCount
<1>3. /\ DOMAIN visit = VisitFields
      /\ visit.reads \subseteq IF q = BookPage THEN {"similar"} ELSE {"ids", "count", "facets"}
  BY <1>1 DEF SearchInv, VisitTypeOK
<1>4. /\ DOMAIN visit' = VisitFields /\ visit'.open = visit.open /\ visit'.query = visit.query
      /\ visit'.filter = visit.filter /\ visit'.page = visit.page /\ visit'.ids = visit.ids
      /\ visit'.count = Cardinality(AllOf(q, f)) /\ visit'.facets = visit.facets
      /\ visit'.cards = visit.cards /\ visit'.reads = visit.reads \ {"count"}
  BY <1>2, <1>3 DEF VisitFields, AllOf, ListCount, CountMatches
<1>5. CatalogInv'
  BY DEF SearchInv, CatalogInv, catalogVars
<1>6. VisitTypeOK'
  BY <1>4 DEF SearchInv, VisitTypeOK
<1>7. CardInv'
  BY <1>2, <1>4, SameFinds DEF SearchInv, CardInv
<1>8. FacetInv'
  BY <1>1, <1>2, <1>4, SameFinds DEF SearchInv, FacetInv
<1>9. WalkInv'
  BY <1>2, <1>4, SameFinds DEF SearchInv, WalkInv
<1> QED BY <1>5, <1>6, <1>7, <1>8, <1>9 DEF SearchInv

\* No value of a facet is no value at all.
LEMMA ReadFacetsKeeps ==
  ASSUME SearchInv, ReadFacets, UNCHANGED <<catalogVars, interestVars>>
  PROVE  SearchInv'
<1>1. PICK q, f : q = visit.query /\ f = visit.filter
  OBVIOUS
<1>2. /\ visit' = [visit EXCEPT !.reads = @ \ {"facets"}, !.facets = ComputeFacets(q, f)]
      /\ UNCHANGED <<walked, expected, changed>>
  BY <1>1 DEF ReadFacets
<1>3. DOMAIN visit = VisitFields /\ q \in Query
  BY <1>1 DEF ReadFacets, SearchInv, VisitTypeOK
<1>4. /\ DOMAIN visit' = VisitFields /\ visit'.open = visit.open /\ visit'.query = visit.query
      /\ visit'.filter = visit.filter /\ visit'.page = visit.page /\ visit'.ids = visit.ids
      /\ visit'.count = visit.count /\ visit'.facets = ComputeFacets(q, f)
      /\ visit'.cards = visit.cards /\ visit'.reads = visit.reads \ {"facets"}
  BY <1>2, <1>3 DEF VisitFields
<1>5. /\ DOMAIN ComputeFacets(q, f) = Key
      /\ \A k \in Key : \A v \in DOMAIN ComputeFacets(q, f)[k] :
           /\ \E b \in Matched(q, f) : v \in ValuesOf(k, b)
           /\ ComputeFacets(q, f)[k][v] = Cardinality({b \in Matched(q, f) : v \in ValuesOf(k, b)})
  BY DEF ComputeFacets, Facets
<1>6. \A k \in Key, b \in Book : AnyValue \notin ValuesOf(k, b)
  <2> SUFFICES ASSUME NEW k \in Key, NEW b \in Book PROVE AnyValue \notin ValuesOf(k, b)
    OBVIOUS
  <2>1. AnyValue \notin {BookRow[b].publisher} \union WorkRow[BookRow[b].work].themes
    BY SearchAssumption
  <2>2. AnyValue # "in_stock" /\ AnyValue # "out_of_stock"
    BY DEF AnyValue
  <2> QED BY <2>1, <2>2 DEF Key, ValuesOf
<1>7. Matched(q, f) \subseteq Book
  BY DEF Matched
<1>8. CatalogInv'
  BY DEF SearchInv, CatalogInv, catalogVars
<1>9. VisitTypeOK'
  BY <1>1, <1>3, <1>4, <1>5 DEF SearchInv, VisitTypeOK
<1>10. CardInv'
  BY <1>2, <1>4, SameFinds DEF SearchInv, CardInv
<1>11. FacetInv'
  <2>1. /\ \A k \in Key : \A v \in DOMAIN visit'.facets[k] : v # AnyValue
        /\ Matched(q, f)' = Matched(q, f) /\ AllOf(q, f)' = AllOf(q, f)
        /\ CountMatches(q, f)' = CountMatches(q, f)
        /\ \A k, b : ValuesOf(k, b)' = ValuesOf(k, b)
    BY <1>4, <1>5, <1>6, <1>7, SameFinds
  <2>2. \A k \in Key : \A v \in DOMAIN visit'.facets[k] :
          visit'.facets[k][v] = Cardinality({b \in Matched(q, f)' : v \in ValuesOf(k, b)'})
    BY <1>4, <1>5, <2>1
  <2> QED BY <1>1, <1>2, <1>3, <1>4, <2>1, <2>2 DEF SearchInv, FacetInv
<1>12. WalkInv'
  BY <1>2, <1>4, SameFinds DEF SearchInv, WalkInv
<1> QED BY <1>8, <1>9, <1>10, <1>11, <1>12 DEF SearchInv

\* Books like a published one are published.
LEMMA ReadSimilarKeeps ==
  ASSUME SearchInv, ReadSimilar, UNCHANGED <<catalogVars, interestVars>>
  PROVE  SearchInv'
<1>1. PICK ids \in SimilarTo(visit.page) : visit' = [visit EXCEPT !.reads = {}, !.ids = ids]
  BY DEF ReadSimilar
<1>2. UNCHANGED <<walked, expected, changed>> /\ "similar" \in visit.reads
  BY DEF ReadSimilar
<1>3. DOMAIN visit = VisitFields /\ visit.query = BookPage /\ visit.cards = <<>>
  BY <1>2 DEF SearchInv, VisitTypeOK
<1>4. /\ DOMAIN visit' = VisitFields /\ visit'.open = visit.open /\ visit'.query = visit.query
      /\ visit'.filter = visit.filter /\ visit'.page = visit.page /\ visit'.ids = ids
      /\ visit'.count = visit.count /\ visit'.facets = visit.facets
      /\ visit'.cards = visit.cards /\ visit'.reads = {}
  BY <1>1, <1>3 DEF VisitFields
<1>5. ids \in Seq(published)
  <2> DEFINE others == {c \in published \ {visit.page} :
                          BookRow[c].work # BookRow[visit.page].work}
             score == [c \in others |-> MatchScore(visit.page, c)]
             First(rows) ==
               LET ranked == Cardinality({i \in DOMAIN rows : score[rows[i]] > 0})
               IN  SubSeq(rows, 1, IF MaxSimilar < ranked THEN MaxSimilar ELSE ranked)
  <2>1. CASE ids = <<>>
    BY <2>1
  <2>2. CASE \E s \in SetToSeqs(others) : ids = First(Page(s, 1, MaxSimilar * 3))
    <3>1. PICK s \in SetToSeqs(others) : ids = First(Page(s, 1, MaxSimilar * 3))
      BY <2>2
    <3>2. others \in SUBSET Book
      BY DEF SearchInv, CatalogInv
    <3>3. IsFiniteSet(others) /\ Cardinality(others) \in Nat
      BY <3>2, CatalogAssumption, FS_Subset, FS_CardinalityType
    <3> HIDE DEF others, score
    <3>4. s \in [1..Cardinality(others) -> others]
      BY <3>1 DEF SetToSeqs
    <3>5. s \in Seq(others)
      BY <3>3, <3>4
    <3>6. PICK rows \in Seq(others) : rows = Page(s, 1, MaxSimilar * 3)
      <4>1. MaxSimilar * 3 \in Nat \ {0}
        BY SearchAssumption
      <4> QED BY <3>5, <4>1, PageIsSeq
    <3>7. DOMAIN rows = 1..Len(rows) /\ Len(rows) \in Nat
      BY <3>6
    <3> DEFINE hits == {i \in DOMAIN rows : score[rows[i]] > 0}
    <3>8. Cardinality(hits) \in Nat /\ Cardinality(hits) <= Len(rows)
      <4>1. \A n \in Nat : IsFiniteSet(1..n) /\ Cardinality(1..n) = n
        BY FS_Interval
      <4>2. hits \in SUBSET (1..Len(rows))
        BY <3>7
      <4> QED BY <3>7, <4>1, <4>2, FS_Subset, FS_CardinalityType
    <3>9. ids = SubSeq(rows, 1, IF MaxSimilar < Cardinality(hits) THEN MaxSimilar
                               ELSE Cardinality(hits))
      BY <3>1, <3>6
    <3> HIDE DEF hits
    <3>10. ids \in Seq(others)
      BY <3>6, <3>7, <3>8, <3>9, SearchAssumption
    <3> QED BY <3>10 DEF others
  <2> QED BY <1>1, <2>1, <2>2 DEF SimilarTo, Orders
<1>6. CatalogInv' /\ published \subseteq Book
  BY DEF SearchInv, CatalogInv, catalogVars
<1>7. VisitTypeOK'
  BY <1>3, <1>4, <1>5, <1>6 DEF SearchInv, VisitTypeOK
<1>8. CardInv'
  BY <1>3, <1>4, <1>5, SameFinds DEF SearchInv, CardInv
<1>9. FacetInv'
  <2>1. BookPage \notin Query
    BY SearchAssumption
  <2>2. ~changed => /\ \A k \in Key : DOMAIN visit.facets[k] = {}
                    /\ expected = {}
    BY <1>3, <2>1 DEF SearchInv, FacetInv
  <2> QED BY <1>2, <1>3, <1>4, <2>2 DEF FacetInv
<1>10. WalkInv'
  BY <1>3, <1>4 DEF WalkInv
<1> QED BY <1>6, <1>7, <1>8, <1>9, <1>10 DEF SearchInv

\* A card is the same from the list of all books and from the search.
LEMMA CardsAlike ==
  \A b, answer : BookListItemToCard(BookListItem(b, "IN", answer)) = BuildCard(b, answer)
BY DEF BookListItemToCard, BookListItem, BuildCard, Summary, ToInventory

LEMMA BuildCardsKeeps ==
  ASSUME SearchInv, BuildCards, UNCHANGED <<catalogVars, interestVars>>
  PROVE  SearchInv'
<1>1. PICK q, f, p : q = visit.query /\ f = visit.filter /\ p = visit.page
  OBVIOUS
<1>2. PICK answer, cards :
        /\ answer \in AuthorsByWork
        /\ cards = [i \in DOMAIN visit.ids |-> BuildCard(visit.ids[i], answer)]
        /\ visit' = [visit EXCEPT !.cards = cards]
  <2> DEFINE Cards(a) == [i \in DOMAIN visit.ids |-> BuildCard(visit.ids[i], a)]
  <2>1. \A a : /\ Build(visit.ids, a) = Cards(a)
               /\ [i \in DOMAIN visit.ids |->
                     BookListItemToCard(BookListItem(visit.ids[i], "IN", a))] = Cards(a)
    BY CardsAlike DEF Build
  <2>2. PICK a \in AuthorsByWork :
          visit' = [visit EXCEPT !.cards =
                      IF visit.query = NoQuery
                      THEN [i \in DOMAIN visit.ids |->
                              BookListItemToCard(BookListItem(visit.ids[i], "IN", a))]
                      ELSE Build(visit.ids, a)]
    BY Zenon DEF BuildCards
  <2>3. visit' = [visit EXCEPT !.cards = Cards(a)]
    <3> HIDE DEF Cards
    <3> QED BY <2>1, <2>2
  <2> QED BY <2>3
<1>3. /\ visit.open /\ visit.reads = {} /\ visit.cards = <<>> /\ visit.ids # <<>>
      /\ walked' = IF q = BookPage THEN walked ELSE walked \o visit.ids
      /\ UNCHANGED <<expected, changed>>
  BY <1>1 DEF BuildCards
<1>4. DOMAIN visit = VisitFields /\ visit.ids \in Seq(Book)
  BY DEF SearchInv, VisitTypeOK
<1>5. /\ DOMAIN visit' = VisitFields /\ visit'.open = visit.open /\ visit'.query = visit.query
      /\ visit'.filter = visit.filter /\ visit'.page = visit.page /\ visit'.ids = visit.ids
      /\ visit'.count = visit.count /\ visit'.facets = visit.facets
      /\ visit'.cards = cards /\ visit'.reads = visit.reads
  BY <1>2, <1>4 DEF VisitFields
<1>6. cards # <<>>
  <2>1. 1 \in DOMAIN visit.ids
    BY <1>3, <1>4
  <2>2. 1 \in DOMAIN cards
    BY <1>2, <2>1
  <2> QED BY <2>2
<1>7. CatalogInv'
  BY DEF SearchInv, CatalogInv, catalogVars
<1>8. VisitTypeOK'
  BY <1>3, <1>5 DEF SearchInv, VisitTypeOK
<1>9. CardInv'
  <2>1. \A ids : CardsOf(ids)' = CardsOf(ids)
    OBVIOUS
  <2>2. \E ids : ids = visit.ids /\ cards \in CardsOf(ids)
    BY <1>2 DEF CardsOf, Build
  <2> QED BY <1>3, <1>5, <2>1, <2>2, SameFinds DEF SearchInv, CardInv
<1>10. FacetInv'
  <2>1. UNCHANGED <<expected, changed>>
    BY <1>3
  <2> QED BY <1>5, <2>1, SameFinds DEF SearchInv, FacetInv
<1>11. WalkInv'
  <2> SUFFICES ASSUME ~changed, Clear(q), q # BookPage PROVE WalkInv'
    BY <1>1, <1>3, <1>5, SameFinds DEF WalkInv
  <2>1. Lists(q, f)' = Lists(q, f) /\ AllOf(q, f)' = AllOf(q, f)
    BY SameFinds
  <2>2. /\ p > 1 => (p - 1) * PageSize < Cardinality(AllOf(q, f))
        /\ Lists(q, f) # {}
        /\ \A s \in Lists(q, f) : /\ visit.ids = Page(s, p, PageSize)
                                  /\ walked = Upto(s, (p - 1) * PageSize)
    BY <1>1, <1>3 DEF SearchInv, WalkInv
  <2>3. p \in Nat \ {0}
    BY <1>1 DEF SearchInv, VisitTypeOK
  <2>4. ASSUME NEW s \in Lists(q, f) PROVE walked' = Upto(s, p * PageSize)
    <3>1. s \in Seq(AllOf(q, f)) /\ Len(s) = Cardinality(AllOf(q, f)) /\ Len(s) \in Nat
      BY ListIsSeq DEF SearchInv
    <3>2. (p - 1) * PageSize <= Len(s)
      <4>1. CASE p = 1
        <5>1. (p - 1) * PageSize = 0
          BY <4>1, SearchAssumption
        <5> QED BY <3>1, <5>1
      <4>2. CASE p > 1
        <5>1. PICK k \in Nat : k = (p - 1) * PageSize
          BY <2>3, SearchAssumption
        <5> QED BY <2>2, <3>1, <4>2, <5>1
      <4> QED BY <2>3, <4>1, <4>2
    <3>3. Upto(s, (p - 1) * PageSize) \o Page(s, p, PageSize) = Upto(s, p * PageSize)
      BY <2>3, <3>1, <3>2, PageFollows
    <3> QED BY <1>3, <2>2, <3>3
  <2> QED BY <1>1, <1>3, <1>5, <1>6, <2>1, <2>2, <2>4 DEF WalkInv
<1> QED BY <1>7, <1>8, <1>9, <1>10, <1>11 DEF SearchInv

\* A page of one book takes the place of the walk's, or none does.
LEMMA OpenBookKeeps ==
  ASSUME SearchInv, NEW b \in Book, OpenBook(b), UNCHANGED <<catalogVars, interestVars>>
  PROVE  SearchInv'
<1>1. /\ DOMAIN visit' = VisitFields /\ visit'.filter = NoFilter /\ visit'.ids = <<>>
      /\ visit'.cards = <<>> /\ visit'.facets = [k \in Key |-> <<>>]
      /\ \/ ~visit'.open /\ visit'.open \in BOOLEAN /\ visit'.query = NoQuery
            /\ visit'.reads = {} /\ visit'.page = 1
         \/ visit'.open /\ visit'.open \in BOOLEAN /\ visit'.query = BookPage
            /\ visit'.reads = {"similar"}
  BY DEF OpenBook, NoVisit, VisitFields
<1>2. expected' = {} /\ UNCHANGED <<walked, changed>>
  BY DEF OpenBook
<1>3. CatalogInv'
  BY DEF SearchInv, CatalogInv, catalogVars
<1>4. VisitTypeOK'
  BY <1>1, SearchAssumption DEF VisitTypeOK, NoFilter
<1>5. CardInv'
  BY <1>1 DEF CardInv
<1>6. FacetInv'
  <2>1. \A k \in Key : DOMAIN visit'.facets[k] = {}
    BY <1>1
  <2> QED BY <1>1, <1>2, <2>1 DEF FacetInv
<1>7. WalkInv'
  BY <1>1 DEF WalkInv
<1> QED BY <1>3, <1>4, <1>5, <1>6, <1>7 DEF SearchInv

\* Whether there is another page.
LEMMA LastPage ==
  ASSUME NEW n \in Nat, NEW p \in Nat
  PROVE  p < TotalPages(n, PageSize) <=> p * PageSize < n
<1>1. PICK size \in Nat \ {0} : size = PageSize
  BY SearchAssumption
<1>2. PICK t \in Int : t = (n + size - 1) \div size
  BY <1>1
<1>3. size * t <= n + size - 1 /\ n + size - 1 < size * t + size
  BY <1>1, <1>2
<1>4. CASE p < t
  <2>1. PICK d \in Nat : t = p + 1 + d
    BY <1>4
  <2>2. size * t = size * p + size + size * d /\ size * d >= 0
    BY <2>1
  <2> QED BY <1>1, <1>2, <1>3, <1>4, <2>2 DEF TotalPages
<1>5. CASE ~(p < t)
  <2>1. PICK d \in Nat : p = t + d
    BY <1>5
  <2>2. size * p = size * t + size * d /\ size * d >= 0
    BY <2>1
  <2> QED BY <1>1, <1>2, <1>3, <1>5, <2>2 DEF TotalPages
<1> QED BY <1>4, <1>5

\* Without cards a page at rest has no books: there are none from there on.
LEMMA NoCards ==
  ASSUME SearchInv, Rendered, ~changed, visit.cards = <<>>, NEW q, NEW f, Clear(q),
         q = visit.query, f = visit.filter, q # BookPage
  PROVE  /\ Cardinality(AllOf(q, f)) = 0 /\ visit.page = 1
         /\ \A s \in Lists(q, f) : walked = Upto(s, 0)
<1>1. visit.ids = <<>> /\ visit.reads = {} /\ visit.open
  <2>1. Len(visit.ids) = 0 /\ visit.ids \in Seq(Book)
    BY DEF Rendered, SearchInv, VisitTypeOK
  <2> QED BY <2>1 DEF Rendered
<1>2. /\ visit.page > 1 => (visit.page - 1) * PageSize < Cardinality(AllOf(q, f))
      /\ Lists(q, f) # {}
      /\ \A s \in Lists(q, f) : /\ visit.ids = Page(s, visit.page, PageSize)
                                /\ walked = Upto(s, (visit.page - 1) * PageSize)
  BY <1>1 DEF SearchInv, WalkInv
<1>3. PICK s \in Lists(q, f) : TRUE
  BY <1>2
<1>4. s \in Seq(AllOf(q, f)) /\ Len(s) = Cardinality(AllOf(q, f)) /\ Len(s) \in Nat
  BY ListIsSeq DEF SearchInv
<1>5. PICK k \in Nat : k = (visit.page - 1) * PageSize /\ (visit.page = 1 => k = 0)
  BY SearchAssumption DEF SearchInv, VisitTypeOK
<1>6. k <= Len(s)
  BY <1>2, <1>4, <1>5 DEF SearchInv, VisitTypeOK
<1>7. Len(s) <= k
  BY <1>1, <1>2, <1>4, <1>5, <1>6, PageFollows DEF SearchInv, VisitTypeOK
<1>8. visit.page = 1
  BY <1>2, <1>4, <1>5, <1>7 DEF SearchInv, VisitTypeOK
<1> QED BY <1>2, <1>4, <1>5, <1>7, <1>8

\* At rest the walk is all up to the page, whose number is as it should.
LEMMA WalkAtRest ==
  ASSUME SearchInv, Rendered, ~changed, NEW q, NEW f, Clear(q),
         q = visit.query, f = visit.filter, q # BookPage
  PROVE  /\ visit.count = Cardinality(AllOf(q, f)) /\ Cardinality(AllOf(q, f)) \in Nat
         /\ visit.page > 1 => (visit.page - 1) * PageSize < Cardinality(AllOf(q, f))
         /\ Lists(q, f) # {}
         /\ \A s \in Lists(q, f) : walked = Upto(s, visit.page * PageSize)
<1>1. /\ visit.open /\ visit.reads = {}
      /\ visit.count = Cardinality(AllOf(q, f)) /\ Cardinality(AllOf(q, f)) \in Nat
  BY FindsFinite DEF Rendered, SearchInv, FacetInv
<1>2. /\ visit.page > 1 => (visit.page - 1) * PageSize < Cardinality(AllOf(q, f))
      /\ Lists(q, f) # {}
      /\ \A s \in Lists(q, f) :
           walked = Upto(s, IF visit.cards = <<>> THEN (visit.page - 1) * PageSize
                            ELSE visit.page * PageSize)
  BY <1>1 DEF SearchInv, WalkInv
<1>3. ASSUME NEW s \in Lists(q, f) PROVE walked = Upto(s, visit.page * PageSize)
  <2>1. CASE visit.cards = <<>>
    <3>1. /\ Cardinality(AllOf(q, f)) = 0 /\ visit.page = 1
          /\ walked = Upto(s, 0)
      BY <2>1, NoCards
    <3>2. Len(s) = 0
      BY <3>1, ListIsSeq DEF SearchInv
    <3>3. PageSize \in Nat /\ visit.page * PageSize = PageSize
      BY <3>1, SearchAssumption
    <3> QED BY <3>1, <3>2, <3>3 DEF Upto
  <2>2. CASE visit.cards # <<>>
    BY <1>2, <2>2
  <2> QED BY <2>1, <2>2
<1> QED BY <1>1, <1>2, <1>3

LEMMA EnterKeeps ==
  ASSUME SearchInv, NEW q \in Query \union {NoQuery}, Enter(q),
         UNCHANGED <<catalogVars, interestVars>>
  PROVE  SearchInv'
<1>1. Open(q, NoFilter, 1) /\ walked' = <<>> /\ expected' = {}
  BY DEF Enter
<1>2. ASSUME NEW s \in Lists(q, NoFilter) PROVE walked' = Upto(s, (1 - 1) * PageSize)
  <2>1. (1 - 1) * PageSize = 0
    BY SearchAssumption
  <2>2. s \in Seq(AllOf(q, NoFilter))
    BY ListIsSeq DEF SearchInv
  <2>3. Upto(s, 0) = <<>>
    BY <2>2 DEF Upto
  <2> QED BY <1>1, <2>1, <2>3
<1>3. DOMAIN NoFilter = Key
  BY DEF NoFilter
<1> QED BY <1>1, <1>2, <1>3, OpenKeeps

LEMMA NextPageKeeps ==
  ASSUME SearchInv, NextPage, UNCHANGED <<catalogVars, interestVars>>
  PROVE  SearchInv'
<1>1. PICK q, f, p : q = visit.query /\ f = visit.filter /\ p = visit.page
  OBVIOUS
<1>2. /\ Rendered /\ q # BookPage /\ p < TotalPages(visit.count, PageSize)
      /\ Open(q, f, p + 1) /\ expected' = {} /\ UNCHANGED <<walked, changed>>
  BY <1>1 DEF NextPage
<1>3. /\ q \in Query \union {NoQuery} /\ DOMAIN f = Key /\ p \in Nat \ {0}
  BY <1>1, <1>2 DEF SearchInv, VisitTypeOK
<1>4. p + 1 \in Nat \ {0} /\ (p + 1) - 1 = p
  BY <1>3
<1>5. ASSUME ~changed, Clear(q)
      PROVE  /\ p * PageSize < Cardinality(AllOf(q, f))
             /\ \A s \in Lists(q, f) : walked = Upto(s, p * PageSize)
  <2>1. visit.count = Cardinality(AllOf(q, f)) /\ Cardinality(AllOf(q, f)) \in Nat
    BY <1>1, <1>2, <1>5, WalkAtRest
  <2>2. p * PageSize < Cardinality(AllOf(q, f))
    BY <1>2, <1>3, <2>1, LastPage
  <2> QED BY <1>1, <1>2, <1>5, <2>2, WalkAtRest
<1>6. ~changed' /\ Clear(q) =>
        /\ p + 1 > 1 => ((p + 1) - 1) * PageSize < Cardinality(AllOf(q, f))
        /\ \A s \in Lists(q, f) : walked' = Upto(s, ((p + 1) - 1) * PageSize)
  BY <1>2, <1>4, <1>5
<1> QED BY <1>2, <1>3, <1>4, <1>6, OpenKeeps

LEMMA PreviousPageKeeps ==
  ASSUME SearchInv, PreviousPage, UNCHANGED <<catalogVars, interestVars>>
  PROVE  SearchInv'
<1>1. PICK q, f, p : q = visit.query /\ f = visit.filter /\ p = visit.page
  OBVIOUS
<1>2. /\ Rendered /\ q # BookPage /\ p > 1 /\ Open(q, f, p - 1)
      /\ walked' = SubSeq(walked, 1, (p - 2) * PageSize)
      /\ expected' = {} /\ changed' = changed
  BY <1>1 DEF PreviousPage
<1>3. /\ q \in Query \union {NoQuery} /\ DOMAIN f = Key /\ p \in Nat \ {0}
  BY <1>1, <1>2 DEF SearchInv, VisitTypeOK
<1>4. p - 1 \in Nat \ {0} /\ (p - 1) - 1 = p - 2 /\ p - 2 \in Nat
  BY <1>2, <1>3
<1>5. ASSUME ~changed, Clear(q)
      PROVE  /\ p - 1 > 1 => (p - 2) * PageSize < Cardinality(AllOf(q, f))
             /\ \A s \in Lists(q, f) : walked' = Upto(s, (p - 2) * PageSize)
  <2>1. /\ Cardinality(AllOf(q, f)) \in Nat
        /\ (p - 1) * PageSize < Cardinality(AllOf(q, f))
        /\ \A s \in Lists(q, f) : walked = Upto(s, p * PageSize)
    BY <1>1, <1>2, <1>5, WalkAtRest
  <2>2. PICK k, l \in Nat : k = (p - 2) * PageSize /\ l = p * PageSize
    BY <1>3, <1>4, SearchAssumption
  <2>3. /\ (p - 1) * PageSize = (p - 2) * PageSize + PageSize
        /\ p * PageSize = (p - 2) * PageSize + 2 * PageSize
    BY <1>3, SearchAssumption
  <2>4. k < Cardinality(AllOf(q, f)) /\ k <= l
    BY <2>1, <2>2, <2>3, SearchAssumption
  <2>5. ASSUME NEW s \in Lists(q, f) PROVE walked' = Upto(s, k)
    <3>1. s \in Seq(AllOf(q, f)) /\ k <= Len(s)
      BY <2>1, <2>4, ListIsSeq DEF SearchInv
    <3>2. walked = Upto(s, l) /\ walked' = SubSeq(walked, 1, k)
      BY <1>2, <2>1, <2>2
    <3>3. SubSeq(Upto(s, l), 1, k) = Upto(s, k)
      BY <2>4, <3>1, UptoLess
    <3> QED BY <3>2, <3>3
  <2> QED BY <2>2, <2>4, <2>5
<1>6. ~changed' /\ Clear(q) =>
        /\ p - 1 > 1 => ((p - 1) - 1) * PageSize < Cardinality(AllOf(q, f))
        /\ \A s \in Lists(q, f) : walked' = Upto(s, ((p - 1) - 1) * PageSize)
  BY <1>2, <1>4, <1>5
<1> QED BY <1>2, <1>3, <1>4, <1>6, OpenKeeps

\* The value that is followed narrows the search to the books counted of it.
LEMMA FollowFacetKeeps ==
  ASSUME SearchInv, NEW k \in Key, NEW v \in DOMAIN visit.facets[k], FollowFacet(k, v),
         UNCHANGED <<catalogVars, interestVars>>
  PROVE  SearchInv'
<1>1. PICK q, f, g : q = visit.query /\ f = visit.filter /\ g = [f EXCEPT ![k] = v]
  OBVIOUS
<1>2. /\ Rendered /\ Open(q, g, 1) /\ walked' = <<>> /\ changed' = changed
      /\ expected' = IF f[k] \in {AnyValue, v} THEN {visit.facets[k][v]} ELSE {}
  BY <1>1 DEF FollowFacet
<1>3. DOMAIN f = Key /\ DOMAIN g = Key /\ q \in Query
  BY <1>1 DEF SearchInv, VisitTypeOK
<1>4. ASSUME ~changed, NEW n \in expected' PROVE n = CountMatches(q, g)
  <2>1. /\ v # AnyValue /\ f[k] \in {AnyValue, v}
        /\ n = Cardinality({b \in Matched(q, f) : v \in ValuesOf(k, b)})
    BY <1>1, <1>2, <1>4 DEF SearchInv, FacetInv
  <2>2. \A b : FilterClause(g, b) <=> FilterClause(f, b) /\ v \in ValuesOf(k, b)
    <3>1. g[k] = v /\ \A j \in Key \ {k} : g[j] = f[j]
      BY <1>1, <1>3
    <3> QED BY <2>1, <3>1 DEF FilterClause
  <2>3. Matched(q, g) = {b \in Matched(q, f) : v \in ValuesOf(k, b)}
    BY <2>2 DEF Matched
  <2> QED BY <2>1, <2>3 DEF CountMatches
<1>5. ASSUME NEW s \in Lists(q, g) PROVE walked' = Upto(s, (1 - 1) * PageSize)
  <2>1. (1 - 1) * PageSize = 0
    BY SearchAssumption
  <2>2. s \in Seq(AllOf(q, g))
    BY ListIsSeq DEF SearchInv
  <2>3. Upto(s, 0) = <<>>
    BY <2>2 DEF Upto
  <2> QED BY <1>2, <2>1, <2>3
<1> QED BY <1>2, <1>3, <1>4, <1>5, OpenKeeps

\* The catalogue or the likes change: nothing is expected of the walk.
LEMMA MeanwhileKeeps ==
  ASSUME SearchInv, ChangedMeanwhile, CatalogNext \/ UNCHANGED catalogVars
  PROVE  SearchInv'
<1>1. changed' = TRUE /\ visit' = visit
  BY DEF ChangedMeanwhile
<1>2. CatalogInv'
  BY CatalogKeeps DEF SearchInv, CatalogInv, catalogVars
<1>3. VisitTypeOK'
  BY <1>1 DEF SearchInv, VisitTypeOK
<1>4. CardInv'
  <2>1. \A ids : CardsOf(ids)' = CardsOf(ids)
    OBVIOUS
  <2> QED BY <1>1, <2>1 DEF SearchInv, CardInv
<1> QED BY <1>1, <1>2, <1>3, <1>4 DEF SearchInv, FacetInv, WalkInv

LEMMA InitSearch == CatalogInit /\ SearchInit => SearchInv
<1> SUFFICES ASSUME CatalogInit, SearchInit PROVE SearchInv
  OBVIOUS
<1>1. /\ visit = NoVisit /\ expected = {}
      /\ NoVisit.facets = [k \in Key |-> <<>>] /\ NoVisit.ids = <<>>
  BY DEF SearchInit, NoVisit
<1>2. CatalogInv
  BY DEF CatalogInit, CatalogInv
<1>3. VisitTypeOK
  BY <1>1, SearchAssumption DEF VisitTypeOK, NoVisit, NoFilter, VisitFields
<1>4. FacetInv
  <2>1. \A k \in Key : DOMAIN visit.facets[k] = {}
    BY <1>1
  <2> QED BY <1>1, <2>1 DEF FacetInv, NoVisit
<1> QED BY <1>1, <1>2, <1>3, <1>4 DEF SearchInv, CardInv, WalkInv, NoVisit

LEMMA SearchKeeps ==
  ASSUME SearchInv, SearchNext, UNCHANGED <<catalogVars, interestVars>>
  PROVE  SearchInv'
<1>1. CASE SearchPage
  <2>1. CASE \E q \in Query : Enter(q)
    BY <2>1, EnterKeeps
  <2>2. CASE \E k \in Key : \E v \in DOMAIN visit.facets[k] : FollowFacet(k, v)
    BY <2>2, FollowFacetKeeps
  <2> QED BY <1>1, <2>1, <2>2, NextPageKeeps, PreviousPageKeeps DEF SearchPage
<1>2. CASE BrowsePage
  BY <1>2, EnterKeeps DEF BrowsePage
<1>3. CASE \E b \in Book : OpenBook(b)
  BY <1>3, OpenBookKeeps
<1> QED BY <1>1, <1>2, <1>3, ReadIdsKeeps, ReadCountKeeps, ReadFacetsKeeps, ReadSimilarKeeps,
           BuildCardsKeeps DEF SearchNext

LEMMA SearchInvariant == SearchSpec => []SearchInv
<1>1. SearchInv /\ UNCHANGED <<catalogVars, interestVars, searchVars>> => SearchInv'
  <2> SUFFICES ASSUME SearchInv, UNCHANGED <<catalogVars, interestVars, searchVars>>
               PROVE  SearchInv'
    OBVIOUS
  <2>1. UNCHANGED <<visit, walked, expected, changed>>
    BY DEF searchVars
  <2>2. CatalogInv' /\ VisitTypeOK'
    BY <2>1 DEF SearchInv, CatalogInv, VisitTypeOK, catalogVars
  <2>3. CardInv'
    <3>1. \A ids : CardsOf(ids)' = CardsOf(ids)
      OBVIOUS
    <3> QED BY <2>1, <3>1, SameFinds DEF SearchInv, CardInv
  <2>4. FacetInv'
    BY <2>1, SameFinds DEF SearchInv, FacetInv
  <2>5. WalkInv'
    BY <2>1, SameFinds DEF SearchInv, WalkInv
  <2> QED BY <2>2, <2>3, <2>4, <2>5 DEF SearchInv
<1>2. ASSUME SearchInv,
             \/ SearchNext /\ UNCHANGED <<catalogVars, interestVars>>
             \/ CatalogNext /\ ChangedMeanwhile /\ UNCHANGED interestVars
             \/ InterestNext /\ ChangedMeanwhile /\ UNCHANGED catalogVars
      PROVE  SearchInv'
  BY <1>2, SearchKeeps, MeanwhileKeeps
<1> QED BY <1>1, <1>2, InitSearch, PTL DEF SearchSpec

\* Whatever pages of a search a visitor turns to, back and forth, when the last
\* one is there all that the search finds was seen, each book once, unless the
\* catalogue or the likes changed; of all books too, if their titles differ.
THEOREM WalkSeesEachOnceHolds == SearchSpec => []WalkSeesEachOnce
<1>1. SearchInv => WalkSeesEachOnce
  <2> SUFFICES ASSUME SearchInv, Rendered, visit.query # BookPage, ~changed,
                      visit.page >= TotalPages(visit.count, PageSize),
                      NEW q, NEW f, q = visit.query, f = visit.filter, Clear(q)
               PROVE  /\ Range(walked) = AllOf(q, f)
                      /\ Len(walked) = Cardinality(AllOf(q, f))
    BY DEF WalkSeesEachOnce, Clear, AllOf
  <2> DEFINE n == Cardinality(AllOf(q, f))
  <2>1. PICK s \in Lists(q, f) : walked = Upto(s, visit.page * PageSize)
    BY WalkAtRest
  <2>2. visit.count = n /\ n \in Nat /\ visit.page \in Nat
    BY WalkAtRest DEF SearchInv, VisitTypeOK
  <2>3. ~(visit.page < TotalPages(n, PageSize))
    <3>1. TotalPages(n, PageSize) \in Int
      BY <2>2, SearchAssumption DEF TotalPages
    <3> QED BY <2>2, <3>1
  <2>4. PICK l \in Nat : l = visit.page * PageSize /\ n <= l
    <3>1. ~(visit.page * PageSize < n)
      BY <2>2, <2>3, LastPage
    <3>2. visit.page * PageSize \in Nat
      BY <2>2, SearchAssumption
    <3> QED BY <2>2, <3>1, <3>2
  <2>5. s \in Seq(AllOf(q, f)) /\ Len(s) = n
    BY ListIsSeq DEF SearchInv
  <2>6. walked = s
    BY <2>1, <2>4, <2>5 DEF Upto
  <2>7. \A e \in AllOf(q, f) : \E i \in 1..n : s[i] = e
    BY AllInOrder, FindsFinite DEF SearchInv, Lists
  <2>8. Range(s) = AllOf(q, f)
    BY <2>5, <2>7 DEF Range
  <2> QED BY <2>5, <2>6, <2>8
<1> QED BY <1>1, SearchInvariant, PTL

\* A facet says how many results it leads to, for any books, facets and likes,
\* until something changes.
THEOREM FacetLeadsToItsCountHolds == SearchSpec => []FacetLeadsToItsCount
<1>1. SearchInv => FacetLeadsToItsCount
  <2> SUFFICES ASSUME SearchInv, Rendered, ~changed, NEW n \in expected PROVE visit.count = n
    BY DEF FacetLeadsToItsCount
  <2>1. PICK q, f : q = visit.query /\ f = visit.filter
    OBVIOUS
  <2>2. q \in Query /\ n = CountMatches(q, f)
    BY <2>1 DEF SearchInv, FacetInv
  <2>3. q # NoQuery /\ q # BookPage
    BY <2>2, SearchAssumption
  <2>4. visit.count = Cardinality(AllOf(q, f))
    BY <2>1, <2>3 DEF SearchInv, FacetInv, Rendered
  <2> QED BY <2>2, <2>3, <2>4 DEF AllOf, CountMatches
<1> QED BY <1>1, SearchInvariant, PTL

\* Whatever order two queries have a work's credits in, they agree on its first
\* author, unless two share the first place.
LEMMA FirstAuthor ==
  ASSUME NEW w \in Work, ~FirstIsShared(w), NEW s \in CreditOrders(w), NEW t \in CreditOrders(w)
  PROVE  PrimaryAuthor(s) = PrimaryAuthor(t)
<1> DEFINE S == WorkRow[w].credits
           R == {p \in S \X S : p[1].sortOrder < p[2].sortOrder}
           n == Cardinality(S)
<1>1. IsFiniteSet(S) /\ n \in Nat /\ \A c \in S : c.sortOrder \in Int
  BY CatalogAssumption, FS_CardinalityType
<1>2. ASSUME NEW u \in CreditOrders(w)
      PROVE  /\ u \in [1..n -> S]
             /\ n > 0 => u[1] \in S /\ \A e \in S : u[1].sortOrder <= e.sortOrder
  <2>1. /\ u \in [1..n -> S]
        /\ \A i, j \in 1..n : i # j => u[i] # u[j]
        /\ \A i, j \in 1..n : i < j => ~(u[j].sortOrder < u[i].sortOrder)
    BY DEF CreditOrders, Orders, SetToSeqs
  <2>2. u \in InOrder(S, R)
    <3>1. \A p \in R : p[1].sortOrder < p[2].sortOrder
      OBVIOUS
    <3>2. \A i, j \in 1..n : i < j => <<u[j], u[i]>> \notin R
      <4> SUFFICES ASSUME NEW i \in 1..n, NEW j \in 1..n, i < j, <<u[j], u[i]>> \in R PROVE FALSE
        OBVIOUS
      <4>1. <<u[j], u[i]>>[1].sortOrder < <<u[j], u[i]>>[2].sortOrder
        BY <3>1
      <4> QED BY <2>1, <4>1
    <3> HIDE DEF R, S
    <3> QED BY <2>1, <3>2 DEF InOrder
  <2>3. ASSUME n > 0 PROVE u[1] \in S /\ \A e \in S : u[1].sortOrder <= e.sortOrder
    <3>1. 1 \in 1..n
      BY <1>1, <2>3
    <3>2. u[1] \in S
      BY <2>1, <3>1
    <3>3. ASSUME NEW e \in S PROVE u[1].sortOrder <= e.sortOrder
      <4>1. PICK i \in 1..n : u[i] = e
        BY <1>1, <2>2, AllInOrder
      <4>2. i = 1 \/ 1 < i
        BY <1>1
      <4>3. ~(u[i].sortOrder < u[1].sortOrder)
        BY <1>1, <2>1, <3>1, <3>2, <4>1, <4>2
      <4> QED BY <1>1, <3>2, <4>1, <4>3
    <3> QED BY <3>2, <3>3
  <2> QED BY <2>1, <2>3
<1>3. /\ s \in [1..n -> S] /\ t \in [1..n -> S]
      /\ n > 0 => s[1].author = t[1].author
  BY <1>2 DEF FirstIsShared
<1>4. CASE n = 0
  <2>1. s = <<>> /\ t = <<>>
    BY <1>3, <1>4
  <2> QED BY <2>1
<1>5. CASE n > 0
  <2>1. s # <<>> /\ t # <<>>
    BY <1>1, <1>3, <1>5
  <2> QED BY <1>3, <1>5, <2>1 DEF PrimaryAuthor
<1> QED BY <1>1, <1>4, <1>5

\* What a card promises of its book.
CardHolds(card) ==
  LET book == GetBook(card.id, "IN") IN
  /\ book.status = 200
  /\ \/ FirstIsShared(BookRow[card.id].work)
     \/ \A work \in book.work : card.author = PrimaryAuthor(work.authors)
  /\ card.price = Charged(card.id, "IN") /\ card.price = book.inventory

\* The books of every page that is at rest are there, at the price of their cards,
\* until something changes; and the work of a book that is there.
THEOREM CardsOpenAndChargeHolds == SearchSpec => []CardsOpenAndCharge
<1>1. SearchInv => CardsOpenAndCharge
  <2> SUFFICES ASSUME SearchInv PROVE CardsOpenAndCharge
    OBVIOUS
  <2>1. \A b \in published : \/ BookRow[b].work \in demoted
                             \/ GetWork(BookRow[b].work).status = 200
    BY DEF SearchInv, CatalogInv, GetWork
  <2>2. ASSUME ~changed, NEW card \in Range(visit.cards)
        PROVE  \E b \in published, answer \in AuthorsByWork : card = BuildCard(b, answer)
    <3>1. visit.cards # <<>>
      BY <2>2 DEF Range
    <3>2. PICK answer \in AuthorsByWork :
            visit.cards = [i \in DOMAIN visit.ids |-> BuildCard(visit.ids[i], answer)]
      BY <2>2, <3>1 DEF SearchInv, CardInv, CardsOf, Build
    <3>3. \A i \in DOMAIN visit.ids : visit.ids[i] \in published
      BY <2>2 DEF SearchInv, CardInv
    <3> QED BY <2>2, <3>2, <3>3 DEF Range
  <2>3. ASSUME NEW b \in published, NEW answer \in AuthorsByWork, NEW card,
               card = BuildCard(b, answer)
        PROVE  CardHolds(card)
    <3> DEFINE w == BookRow[b].work
    <3>1. card.id = b
      BY <2>3 DEF BuildCard
    <3>2. /\ GetBook(b, "IN").status = 200
          /\ GetBook(b, "IN").work = {Summary(w, other) : other \in AuthorsByWork}
          /\ GetBook(b, "IN").inventory = ToInventory(b, "IN")
      BY DEF GetBook
    <3>3. ASSUME ~FirstIsShared(w), NEW work \in GetBook(b, "IN").work
          PROVE  card.author = PrimaryAuthor(work.authors)
      <4>1. PICK other \in AuthorsByWork : work.authors = other[w]
        BY <3>2 DEF Summary
      <4>2. w \in Work
        BY CatalogAssumption DEF SearchInv, CatalogInv
      <4>3. answer[w] \in CreditOrders(w) /\ other[w] \in CreditOrders(w)
        BY <4>2 DEF AuthorsByWork
      <4>4. card.author = PrimaryAuthor(answer[w])
        BY <2>3 DEF BuildCard
      <4> QED BY <3>3, <4>1, <4>2, <4>3, <4>4, FirstAuthor
    <3>4. card.price = ToInventory(b, "IN") /\ card.price = Charged(b, "IN")
      BY <2>3 DEF BuildCard, ToInventory, Charged
    <3> QED BY <3>1, <3>2, <3>3, <3>4 DEF CardHolds
  <2>4. CardsOpenAndCharge <=>
          /\ Rendered /\ ~changed => \A card \in Range(visit.cards) : CardHolds(card)
          /\ \A b \in published : \/ BookRow[b].work \in demoted
                                  \/ GetWork(BookRow[b].work).status = 200
    BY DEF CardsOpenAndCharge, CardHolds
  <2> QED BY <2>1, <2>2, <2>3, <2>4
<1> QED BY <1>1, SearchInvariant, PTL

-----------------------------------------------------------------------------
(* The reels *)

\* The books of a shelf that its key puts before one, of those that are left.
Earliest(d, b, exclude) == {c \in ShelfBooks(d) \ exclude : ShelfKey(d, c) < ShelfKey(d, b)}
Place(d, b) == Cardinality(Earliest(d, b, {}))

\* So many pages of a shelf have been read, and hold its first books; all, if no
\* more is to come.
Reached(d, pages, more, ids) ==
  /\ \A b \in ShelfBooks(d) : Place(d, b) < pages * ShelfPageSize => b \in ids
  /\ ~more => ShelfBooks(d) \subseteq ids

Shelf == Range(StoredShelves) \union {Trending, PersonalizedSimilar}
ShelfPages == {[shelf |-> d, items |-> Build(ids, answer), hasMore |-> more] :
                 d \in Shelf, ids \in Seq(Book), answer \in AuthorsByWork, more \in BOOLEAN}
Cursors == [shelf : Shelf, page : Nat \ {0}, hasMore : BOOLEAN]
FeedFields == {"step", "descriptors", "shelves", "seen", "next", "banner"}

\* The books of the shelves, and that each is there once.
IdAt(shelves, c) == shelves[c[1]].items[c[2]].id
Cells(shelves) == UNION {{i} \X DOMAIN shelves[i].items : i \in DOMAIN shelves}
ItemIds(shelves) == {IdAt(shelves, c) : c \in Cells(shelves)}
ItemsOnce(shelves) ==
  \A c, e \in Cells(shelves) : IdAt(shelves, c) = IdAt(shelves, e) => c = e

FeedTypeOK ==
  /\ DOMAIN feed = FeedFields
  /\ feed.step \in {"closed", "loading", "shown", "empty"}
  /\ feed.descriptors \in Seq(Shelf)
  /\ feed.shelves \in Seq(ShelfPages)
  /\ feed.next \in Nat \ {0}
  /\ feed.seen = ItemIds(feed.shelves) /\ ItemsOnce(feed.shelves)
  /\ feed.step = "closed" => feed = ClosedFeed
  /\ feed.step \in {"closed", "loading"} =>
       queue = <<>> /\ seenIds = {} /\ cursors = <<>> /\ fetching = {} /\ ~exhausted
                    /\ cursorIndex = 1
  /\ feedChanged \in BOOLEAN /\ fetchFailed \in BOOLEAN

ReelsTypeOK ==
  /\ queue \in Seq(Book) /\ seenIds \subseteq Book
  /\ cursors \in Seq(Cursors) /\ cursorIndex \in 1..(Len(cursors) + 1)
  /\ exhausted \in BOOLEAN
  /\ \A f \in fetching : /\ f.at \in DOMAIN cursors /\ f.appended \in Seq(Book)
                         /\ \A g \in fetching : f = g

\* What was gathered is no slide yet, and nothing twice; but for a failed fetch
\* all that was seen is a slide or gathered.
GatheredInv ==
  /\ IsInjective(queue) /\ Range(queue) \subseteq seenIds
  /\ \A f \in fetching : /\ IsInjective(f.appended) /\ Range(f.appended) \subseteq seenIds
                         /\ Range(f.appended) \cap Range(queue) = {}
  /\ ~fetchFailed =>
       seenIds = Range(queue) \union UNION {Range(f.appended) : f \in fetching}

\* The shelves before the cursor have nothing more, at the end none has.
CursorInv ==
  /\ \A k \in DOMAIN cursors : k < cursorIndex => ~cursors[k].hasMore
  /\ \A f \in fetching : \A k \in DOMAIN cursors : k < f.at => ~cursors[k].hasMore
  /\ exhausted => fetching = {} /\ \A k \in DOMAIN cursors : ~cursors[k].hasMore

\* The cursors of some shelves, the books that were shown, and the shelves that
\* have had their turn: a shelf is read up to its cursor, or all of it was shown.
Reading(at, ids, ds, n) ==
  /\ \A k \in DOMAIN at :
       \/ Tied(at[k].shelf)
       \/ Reached(at[k].shelf, at[k].page - 1, at[k].hasMore, ids)
  /\ \A i \in DOMAIN ds : i < n => \/ ShelfBooks(ds[i]) \subseteq ids
                                  \/ \E k \in DOMAIN at : at[k].shelf = ds[i]

\* While nothing changes: so it is of the shelves that GET /feed has filled, and
\* of the reels.
ShelvesInv ==
  ~feedChanged =>
    /\ \A at, ids, ds, n :
         /\ feed.step = "loading" /\ at = GoOnFrom(2, feed.shelves) /\ ids = feed.seen
         /\ ds = feed.descriptors /\ n = feed.next
         => Reading(at, ids, ds, n)
    /\ \A at, ids, ds :
         /\ feed.step \in {"shown", "empty"} /\ at = cursors /\ ids = seenIds
         /\ ds = feed.descriptors
         => Reading(at, ids, ds, Len(ds) + 1)
    /\ \A banner \in feed.banner : banner.book \in published

LikesAre == events \in Seq([book : Book, liked : BOOLEAN])

ReelsInv ==
  /\ LikesAre /\ CatalogInv /\ FeedTypeOK /\ ReelsTypeOK
  /\ GatheredInv /\ CursorInv /\ ShelvesInv

\* What a shelf holds are published books, with numbers to sort them by.
LEMMA ShelfData ==
  ASSUME LikesAre, CatalogInv, NEW d \in Shelf
  PROVE  /\ d.type \in ShelfType
         /\ ShelfBooks(d) \subseteq published /\ ShelfBooks(d) \subseteq Book
         /\ IsFiniteSet(ShelfBooks(d))
         /\ \A b \in ShelfBooks(d) : ShelfKey(d, b) \in Int
<1>1. /\ d.type \in ShelfType
      /\ d.type = "editorial" => d.collection \in Collection
  <2>1. CASE d \in Range(StoredShelves)
    BY <2>1, FeedAssumption, Zenon
  <2>2. CASE d \in {Trending, PersonalizedSimilar}
    BY <2>2 DEF Trending, PersonalizedSimilar, ShelfType
  <2> QED BY <2>1, <2>2 DEF Shelf
<1>2. published \subseteq Book
  BY DEF CatalogInv
<1>3. ShelfBooks(d) \subseteq published
  BY <1>1 DEF ShelfBooks, Editorial, EverTrending, Similar, ShelfType
<1>4. IsFiniteSet(ShelfBooks(d))
  BY <1>2, <1>3, CatalogAssumption, FS_Subset
<1>5. \A b : LikeCount(b) \in Nat
  <2>1. Len(events) \in Nat /\ DOMAIN events = 1..Len(events)
    BY DEF LikesAre
  <2>2. IsFiniteSet(DOMAIN events)
    BY <2>1, FS_Interval
  <2>3. \A T \in SUBSET DOMAIN events : Cardinality(T) \in Nat
    BY <2>2, FS_Subset, FS_CardinalityType
  <2> QED BY <2>3 DEF LikeCount
<1>6. \A b \in Book : MatchCount(b) \in Nat
  <2> SUFFICES ASSUME NEW b \in Book PROVE MatchCount(b) \in Nat
    OBVIOUS
  <2> DEFINE row == WorkRow[BookRow[b].work]
  <2>1. IsFiniteSet(row.credits) /\ IsFiniteSet(row.themes)
    BY CatalogAssumption
  <2>2. \A A : /\ Cardinality({k \in row.credits : k.author \in A}) \in Nat
               /\ Cardinality(row.themes \cap A) \in Nat
    <3> SUFFICES ASSUME NEW A
                 PROVE  /\ Cardinality({k \in row.credits : k.author \in A}) \in Nat
                        /\ Cardinality(row.themes \cap A) \in Nat
      OBVIOUS
    <3>1. /\ {k \in row.credits : k.author \in A} \in SUBSET row.credits
          /\ row.themes \cap A \in SUBSET row.themes
      OBVIOUS
    <3> HIDE DEF row
    <3> QED BY <2>1, <3>1, FS_Subset, FS_CardinalityType
  <2>3. PICK m \in Nat, n \in Nat : MatchCount(b) = m + n
    BY <2>2 DEF MatchCount
  <2> QED BY <2>3
<1>7. ASSUME NEW b \in ShelfBooks(d) PROVE ShelfKey(d, b) \in Int
  <2>1. b \in Book
    BY <1>2, <1>3
  <2>2. CASE d.type = "editorial"
    <3>1. b \in DOMAIN BookCollections[d.collection]
      BY <2>2 DEF ShelfBooks, Editorial
    <3> QED BY <1>1, <2>2, <3>1, CatalogAssumption DEF ShelfKey
  <2>3. CASE d.type = "new_arrivals"
    BY <2>1, <2>3, CatalogAssumption DEF ShelfKey
  <2>4. CASE d.type = "trending"
    BY <1>5, <2>4 DEF ShelfKey
  <2>5. CASE d.type = "personalized_similar"
    BY <1>6, <2>1, <2>5 DEF ShelfKey
  <2>6. CASE d.type = "recently_viewed"
    BY <1>7, <2>6 DEF ShelfBooks
  <2> QED BY <1>1, <2>2, <2>3, <2>4, <2>5, <2>6 DEF ShelfType
<1> QED BY <1>1, <1>2, <1>3, <1>4, <1>7

\* What a page of a shelf brings, whatever is left out: each book once; without
\* ties those whose place is on it; and it says whether there are more.
LEMMA PageOfShelf ==
  ASSUME LikesAre, CatalogInv, NEW d \in Shelf, NEW X, NEW p \in Nat \ {0},
         NEW found \in BookIdsForShelf(d, p, X)
  PROVE  /\ found.ids \in Seq(ShelfBooks(d) \ X) /\ IsInjective(found.ids)
         /\ found.hasMore \in BOOLEAN
         /\ p = 1 /\ found.ids = <<>> => ShelfBooks(d) \subseteq X
         /\ ~Tied(d) => \A b \in ShelfBooks(d) \ X :
              LET n == Cardinality(Earliest(d, b, X)) IN
              /\ (p - 1) * ShelfPageSize <= n /\ n < p * ShelfPageSize => b \in Range(found.ids)
              /\ ~found.hasMore => n < p * ShelfPageSize
<1> DEFINE S == ShelfBooks(d) \ X
           N == Cardinality(S)
           R == {e \in S \X S : ShelfKey(d, e[1]) < ShelfKey(d, e[2])}
<1>1. /\ IsFiniteSet(S) /\ N \in Nat
      /\ \A b \in S : ShelfKey(d, b) \in Int
  <2>1. S \in SUBSET ShelfBooks(d)
    OBVIOUS
  <2> HIDE DEF S
  <2> QED BY <2>1, ShelfData, FS_Subset, FS_CardinalityType
<1>2. PICK s : /\ s \in [1..N -> S]
               /\ \A i, j \in 1..N : i # j => s[i] # s[j]
               /\ \A i, j \in 1..N : i < j => ~(ShelfKey(d, s[j]) < ShelfKey(d, s[i]))
               /\ found = [ids |-> Page(s, p, ShelfPageSize),
                           hasMore |-> Len(s) > p * ShelfPageSize]
  BY DEF BookIdsForShelf, Orders, SetToSeqs
<1> HIDE DEF S
<1>3. s \in Seq(S) /\ Len(s) = N
  BY <1>1, <1>2
<1>4. PICK k \in Nat, l \in Nat : /\ k = (p - 1) * ShelfPageSize /\ l = p * ShelfPageSize
                                  /\ k < l /\ (p = 1 => k = 0)
  <2>1. ShelfPageSize \in Nat \ {0}
    BY FeedAssumption
  <2>2. p * ShelfPageSize = (p - 1) * ShelfPageSize + ShelfPageSize
    BY <2>1
  <2>3. (p - 1) * ShelfPageSize \in Nat /\ p * ShelfPageSize \in Nat
    BY <2>1
  <2>4. p = 1 => (p - 1) * ShelfPageSize = 0
    BY <2>1
  <2> QED BY <2>1, <2>2, <2>3, <2>4
<1>5. PICK m \in Nat : m = (IF l < N THEN l ELSE N) /\ m <= N /\ m <= l
  BY <1>1
<1>6. found.ids = SubSeq(s, k + 1, m) /\ found.hasMore = (N > l)
  <2>1. found.ids = Page(s, p, ShelfPageSize) /\ found.hasMore = (Len(s) > p * ShelfPageSize)
    BY <1>2
  <2>2. Page(s, p, ShelfPageSize) = SubSeq(s, k + 1, m)
    BY <1>3, <1>4, <1>5, Zenon DEF Page
  <2> QED BY <1>3, <1>4, <2>1, <2>2, Zenon
<1> DEFINE ids == SubSeq(s, k + 1, m)
<1>7. /\ ids \in Seq(S) /\ DOMAIN ids = 1..(m - k)
      /\ \A i \in 1..(m - k) : i + k \in 1..N /\ ids[i] = s[i + k]
  <2>1. CASE k <= m
    BY <1>1, <1>3, <1>5, <2>1
  <2>2. CASE m < k
    <3>1. ids = <<>> /\ 1..(m - k) = {}
      BY <1>1, <1>3, <1>5, <2>2
    <3>2. <<>> \in Seq(S) /\ DOMAIN <<>> = {}
      OBVIOUS
    <3> QED BY <3>1, <3>2, Zenon
  <2> QED BY <2>1, <2>2
<1> HIDE DEF ids
<1>8. IsInjective(ids)
  <2> SUFFICES ASSUME NEW i \in 1..(m - k), NEW j \in 1..(m - k), ids[i] = ids[j]
               PROVE  i = j
    BY <1>7 DEF IsInjective
  <2>1. i + k \in 1..N /\ j + k \in 1..N /\ s[i + k] = s[j + k]
    BY <1>7
  <2>2. i + k = j + k
    BY <1>2, <2>1
  <2> QED BY <1>4, <2>2
<1>9. ASSUME p = 1, ids = <<>> PROVE S = {}
  <2>1. DOMAIN ids = {}
    BY <1>9
  <2>2. m <= 0
    BY <1>4, <1>7, <1>9, <2>1
  <2>3. N = 0
    BY <1>1, <1>4, <1>5, <2>2
  <2> QED BY <1>1, <2>3, FS_EmptySet
<1>10. ASSUME ~Tied(d), NEW b \in S
       PROVE  LET n == Cardinality(Earliest(d, b, X)) IN
              /\ k <= n /\ n < l => \E i \in DOMAIN ids : ids[i] = b
              /\ ~(N > l) => n < l
  <2>1. \A c, e \in S : c # e => <<c, e>> \in R \/ <<e, c>> \in R
    <3> SUFFICES ASSUME NEW c \in S, NEW e \in S, c # e
                 PROVE  ShelfKey(d, c) < ShelfKey(d, e) \/ ShelfKey(d, e) < ShelfKey(d, c)
      OBVIOUS
    <3>1. ShelfKey(d, c) # ShelfKey(d, e)
      BY <1>10 DEF Tied, S
    <3> QED BY <1>1, <3>1
  <2>2. \A c \in S : <<c, c>> \notin R
    BY <1>1
  <2>3. s \in InOrder(S, R)
    BY <1>2 DEF InOrder
  <2>4. PICK i \in 1..N : s[i] = b
    BY <1>1, <2>3, AllInOrder
  <2>5. Earliest(d, b, X) = {c \in S : <<c, s[i]>> \in R}
    BY <2>4 DEF Earliest, S
  <2> HIDE DEF R
  <2>6. Cardinality(Earliest(d, b, X)) = i - 1
    BY <1>1, <2>1, <2>2, <2>3, <2>5, PlaceInOrder
  <2>7. ASSUME k <= i - 1, i - 1 < l PROVE \E j \in DOMAIN ids : ids[j] = b
    <3>1. i - k \in 1..(m - k) /\ (i - k) + k = i
      BY <1>1, <1>4, <1>5, <2>7
    <3>2. ids[i - k] = b
      BY <1>7, <2>4, <3>1
    <3> QED BY <1>7, <3>1, <3>2
  <2>8. ~(N > l) => i - 1 < l
    BY <1>1, <1>4
  <2> QED BY <2>6, <2>7, <2>8
<1>11. \A b : (\E i \in DOMAIN ids : ids[i] = b) => b \in Range(ids)
  BY DEF Range
<1>12. found.ids = ids /\ found.hasMore = (N > l)
  BY <1>6 DEF ids
<1>13. /\ found.ids \in Seq(S) /\ IsInjective(found.ids) /\ found.hasMore \in BOOLEAN
       /\ p = 1 /\ found.ids = <<>> => S = {}
  BY <1>7, <1>8, <1>9, <1>12
<1>14. ASSUME ~Tied(d), NEW b \in S
       PROVE  LET n == Cardinality(Earliest(d, b, X)) IN
              /\ (p - 1) * ShelfPageSize <= n /\ n < p * ShelfPageSize => b \in Range(found.ids)
              /\ ~found.hasMore => n < p * ShelfPageSize
  <2>1. \A n : /\ k <= n /\ n < l <=> (p - 1) * ShelfPageSize <= n /\ n < p * ShelfPageSize
               /\ n < l <=> n < p * ShelfPageSize
    BY <1>4, Zenon
  <2> QED BY <1>10, <1>11, <1>12, <1>14, <2>1, Zenon
<1> QED BY <1>13, <1>14 DEF S

\* Left out or not, the first page shows what a shelf has first.
LEMMA FirstPage ==
  ASSUME LikesAre, CatalogInv, NEW d \in Shelf, NEW X,
         NEW found \in BookIdsForShelf(d, 1, X)
  PROVE  Tied(d) \/ Reached(d, 1, found.hasMore, X \union Range(found.ids))
<1> SUFFICES ASSUME ~Tied(d)
             PROVE  Reached(d, 1, found.hasMore, X \union Range(found.ids))
  OBVIOUS
<1>1. ShelfPageSize \in Nat \ {0} /\ (1 - 1) * ShelfPageSize = 0
      /\ 1 * ShelfPageSize = ShelfPageSize
  BY FeedAssumption
<1>2. \A b \in ShelfBooks(d) \ X :
        LET n == Cardinality(Earliest(d, b, X)) IN
        /\ (1 - 1) * ShelfPageSize <= n /\ n < 1 * ShelfPageSize => b \in Range(found.ids)
        /\ ~found.hasMore => n < 1 * ShelfPageSize
  <2>1. 1 \in Nat \ {0}
    OBVIOUS
  <2> QED BY <2>1, PageOfShelf
<1>3. ASSUME NEW b \in ShelfBooks(d)
      PROVE  /\ Cardinality(Earliest(d, b, X)) \in Nat /\ Place(d, b) \in Nat
             /\ Cardinality(Earliest(d, b, X)) <= Place(d, b)
  <2>1. IsFiniteSet(ShelfBooks(d))
    BY ShelfData
  <2>2. /\ Earliest(d, b, {}) \in SUBSET ShelfBooks(d)
        /\ Earliest(d, b, X) \in SUBSET Earliest(d, b, {})
    BY DEF Earliest
  <2>3. IsFiniteSet(Earliest(d, b, {}))
    BY <2>1, <2>2, FS_Subset
  <2> QED BY <2>2, <2>3, FS_Subset, FS_CardinalityType DEF Place
<1>4. ASSUME NEW b \in ShelfBooks(d) \ X, Cardinality(Earliest(d, b, X)) < ShelfPageSize
      PROVE  b \in Range(found.ids)
  BY <1>1, <1>2, <1>3, <1>4
<1>5. ASSUME NEW b \in ShelfBooks(d), Place(d, b) < 1 * ShelfPageSize
      PROVE  b \in X \union Range(found.ids)
  <2>1. Cardinality(Earliest(d, b, X)) < ShelfPageSize
    BY <1>1, <1>3, <1>5
  <2> QED BY <1>4, <2>1
<1>6. ASSUME ~found.hasMore, NEW b \in ShelfBooks(d)
      PROVE  b \in X \union Range(found.ids)
  BY <1>1, <1>2, <1>4, <1>6
<1> QED BY <1>5, <1>6 DEF Reached

\* A further page, with nothing left out, goes on from the pages before it.
LEMMA FurtherPage ==
  ASSUME LikesAre, CatalogInv, NEW d \in Shelf, NEW p \in Nat \ {0}, NEW more, NEW ids,
         Reached(d, p - 1, more, ids), NEW found \in BookIdsForShelf(d, p, {})
  PROVE  Tied(d) \/ Reached(d, p, found.hasMore, ids \union Range(found.ids))
<1> SUFFICES ASSUME ~Tied(d)
             PROVE  Reached(d, p, found.hasMore, ids \union Range(found.ids))
  OBVIOUS
<1>1. \A b \in ShelfBooks(d) :
        /\ (p - 1) * ShelfPageSize <= Place(d, b) /\ Place(d, b) < p * ShelfPageSize
             => b \in Range(found.ids)
        /\ ~found.hasMore => Place(d, b) < p * ShelfPageSize
  <2>1. ShelfBooks(d) \ {} = ShelfBooks(d)
    OBVIOUS
  <2> QED BY <2>1, PageOfShelf DEF Place
<1>2. \A b \in ShelfBooks(d) : Place(d, b) \in Nat
  <2>1. IsFiniteSet(ShelfBooks(d)) /\ \A b : Earliest(d, b, {}) \in SUBSET ShelfBooks(d)
    BY ShelfData DEF Earliest
  <2> QED BY <2>1, FS_Subset, FS_CardinalityType DEF Place
<1>3. PICK k \in Nat : k = (p - 1) * ShelfPageSize
  BY FeedAssumption
<1>4. ASSUME NEW b \in ShelfBooks(d), Place(d, b) < p * ShelfPageSize
      PROVE  b \in ids \union Range(found.ids)
  <2>1. CASE Place(d, b) < (p - 1) * ShelfPageSize
    BY <2>1 DEF Reached
  <2>2. CASE (p - 1) * ShelfPageSize <= Place(d, b)
    BY <1>1, <1>4, <2>2, Zenon
  <2>3. Place(d, b) < k \/ k <= Place(d, b)
    BY <1>2
  <2> QED BY <1>3, <2>1, <2>2, <2>3, Zenon
<1>5. ASSUME ~found.hasMore, NEW b \in ShelfBooks(d)
      PROVE  b \in ids \union Range(found.ids)
  BY <1>1, <1>4, <1>5, Zenon
<1> QED BY <1>4, <1>5 DEF Reached

LEMMA ReachedMore ==
  ASSUME NEW d, NEW p, NEW more, NEW ids, NEW new, Reached(d, p, more, ids), ids \subseteq new
  PROVE  Reached(d, p, more, new)
BY DEF Reached

\* The books of a page that are no slide, each once.
LEMMA FreshIs ==
  ASSUME NEW S, NEW ids \in Seq(S), IsInjective(ids), NEW fresh \in Fresh(ids)
  PROVE  fresh \in Seq(S) /\ IsInjective(fresh) /\ Range(fresh) = Range(ids) \ seenIds
<1> DEFINE new == {i \in DOMAIN ids : ids[i] \notin seenIds}
           n == Cardinality(new)
<1>1. IsFiniteSet(new) /\ n \in Nat /\ DOMAIN ids = 1..Len(ids) /\ Len(ids) \in Nat
  <2>1. DOMAIN ids = 1..Len(ids) /\ Len(ids) \in Nat
    OBVIOUS
  <2>2. IsFiniteSet(DOMAIN ids) /\ new \in SUBSET DOMAIN ids
    BY <2>1, FS_Interval
  <2> HIDE DEF new
  <2> QED BY <2>1, <2>2, FS_Subset, FS_CardinalityType
<1>2. PICK s : /\ s \in [1..n -> new] /\ \A i, j \in 1..n : i # j => s[i] # s[j]
               /\ \A i, j \in 1..n : i < j => ~(s[j] < s[i])
               /\ fresh = [k \in DOMAIN s |-> ids[s[k]]]
  BY DEF Fresh, Orders, SetToSeqs
<1>3. s \in InOrder(new, {})
  BY <1>2 DEF InOrder
<1>4. \A i \in new : \E k \in 1..n : s[k] = i
  <2> HIDE DEF new
  <2> QED BY <1>1, <1>3, AllInOrder
<1>5. fresh = [k \in 1..n |-> ids[s[k]]]
  BY <1>2
<1>6. \A i \in new : ids[i] \in S /\ ids[i] \notin seenIds /\ i \in DOMAIN ids
  OBVIOUS
<1>7. fresh \in [1..n -> S]
  <2> HIDE DEF new, n
  <2> QED BY <1>2, <1>5, <1>6
<1>8. \A i, j \in DOMAIN fresh : fresh[i] = fresh[j] => i = j
  <2> SUFFICES ASSUME NEW i \in 1..n, NEW j \in 1..n, fresh[i] = fresh[j] PROVE i = j
    BY <1>5
  <2>1. s[i] \in DOMAIN ids /\ s[j] \in DOMAIN ids /\ ids[s[i]] = ids[s[j]]
    BY <1>2, <1>5
  <2>2. s[i] = s[j]
    BY <2>1 DEF IsInjective
  <2> QED BY <1>2, <2>2
<1>9. Range(fresh) = {ids[i] : i \in new}
  <2> HIDE DEF new, n
  <2>1. \A k \in 1..n : s[k] \in new /\ fresh[k] = ids[s[k]]
    BY <1>2, <1>5
  <2>2. DOMAIN fresh = 1..n
    BY <1>5
  <2> QED BY <1>4, <2>1, <2>2 DEF Range
<1>10. {ids[i] : i \in new} = Range(ids) \ seenIds
  BY DEF Range
<1>11. fresh \in Seq(S)
  <2> HIDE DEF n
  <2> QED BY <1>1, <1>7
<1> QED BY <1>8, <1>9, <1>10, <1>11 DEF IsInjective

\* What is gathered goes behind the slides.
LEMMA BehindTheSlides ==
  ASSUME NEW S, NEW s \in Seq(S), NEW t \in Seq(S), IsInjective(s), IsInjective(t),
         Range(s) \cap Range(t) = {}
  PROVE  s \o t \in Seq(S) /\ IsInjective(s \o t) /\ Range(s \o t) = Range(s) \union Range(t)
<1> DEFINE m == Len(s)
           n == Len(t)
           u == s \o t
<1>1. /\ m \in Nat /\ n \in Nat /\ DOMAIN s = 1..m /\ DOMAIN t = 1..n
      /\ u \in Seq(S) /\ DOMAIN u = 1..(m + n)
      /\ \A i \in 1..m : u[i] = s[i]
      /\ \A i \in 1..n : u[i + m] = t[i]
  OBVIOUS
<1>2. \A i \in 1..(m + n) : \/ i \in 1..m /\ u[i] = s[i]
                            \/ \E j \in 1..n : i = j + m /\ u[i] = t[j]
  <2> SUFFICES ASSUME NEW i \in 1..(m + n), i \notin 1..m
               PROVE  \E j \in 1..n : i = j + m /\ u[i] = t[j]
    BY <1>1
  <2> HIDE DEF u, m, n
  <2>1. i - m \in 1..n /\ i = (i - m) + m
    BY <1>1
  <2> QED BY <1>1, <2>1
<1> HIDE DEF m, n, u
<1>3. /\ \A i \in 1..m : s[i] \in Range(s)
      /\ \A i \in 1..n : t[i] \in Range(t)
      /\ \A i, j \in 1..m : s[i] = s[j] => i = j
      /\ \A i, j \in 1..n : t[i] = t[j] => i = j
  BY <1>1 DEF Range, IsInjective
<1>4. IsInjective(u)
  <2> SUFFICES ASSUME NEW i \in 1..(m + n), NEW j \in 1..(m + n), u[i] = u[j] PROVE i = j
    BY <1>1 DEF IsInjective
  <2> QED BY <1>2, <1>3
<1>5. Range(u) = Range(s) \union Range(t)
  <2>1. \A i \in 1..m : i \in 1..(m + n)
    BY <1>1
  <2>2. \A i \in 1..n : i + m \in 1..(m + n)
    BY <1>1
  <2>3. \A i \in 1..(m + n) : u[i] \in Range(s) \union Range(t)
    BY <1>2, <1>3
  <2>4. \A i \in 1..m : s[i] \in Range(u)
    BY <1>1, <2>1 DEF Range
  <2>5. \A i \in 1..n : t[i] \in Range(u)
    BY <1>1, <2>2 DEF Range
  <2>6. /\ \A e \in Range(u) : \E i \in 1..(m + n) : u[i] = e
        /\ \A e \in Range(s) : \E i \in 1..m : s[i] = e
        /\ \A e \in Range(t) : \E i \in 1..n : t[i] = e
    BY <1>1 DEF Range
  <2> QED BY <2>3, <2>4, <2>5, <2>6
<1> QED BY <1>1, <1>4, <1>5 DEF u

\* Cards lead to the books they were built of.
LEMMA CellsAre ==
  ASSUME NEW shelves \in Seq(ShelfPages)
  PROVE  /\ \A i \in DOMAIN shelves : /\ shelves[i] \in ShelfPages
                                      /\ \E n \in Nat : DOMAIN shelves[i].items = 1..n
         /\ \A c \in Cells(shelves) : /\ c = <<c[1], c[2]>> /\ c[1] \in Nat /\ c[2] \in Nat
                                      /\ IdAt(shelves, c) \in Book
         /\ ItemIds(shelves) \subseteq Book
<1>1. \A i \in DOMAIN shelves : i \in Nat /\ shelves[i] \in ShelfPages
  OBVIOUS
<1>2. ASSUME NEW e \in ShelfPages
      PROVE  \E n \in Nat : /\ DOMAIN e.items = 1..n
                            /\ \A j \in 1..n : e.items[j].id \in Book
  <2>1. PICK ids, answer : ids \in Seq(Book) /\ e.items = Build(ids, answer)
    BY DEF ShelfPages
  <2>2. PICK n \in Nat : DOMAIN ids = 1..n /\ \A j \in 1..n : ids[j] \in Book
    BY <2>1
  <2>3. DOMAIN Build(ids, answer) = 1..n /\ \A j \in 1..n : Build(ids, answer)[j].id = ids[j]
    BY <2>2 DEF Build, BuildCard
  <2>4. DOMAIN e.items = 1..n /\ \A j \in 1..n : e.items[j].id \in Book
    BY <2>1, <2>2, <2>3, Zenon
  <2> QED BY <2>2, <2>4
<1>3. ASSUME NEW c \in Cells(shelves)
      PROVE  /\ c = <<c[1], c[2]>> /\ c[1] \in Nat /\ c[2] \in Nat
             /\ IdAt(shelves, c) \in Book
  <2>1. PICK i \in DOMAIN shelves : c \in {i} \X DOMAIN shelves[i].items
    BY DEF Cells
  <2>2. c = <<c[1], c[2]>> /\ c[1] = i /\ c[2] \in DOMAIN shelves[i].items
    BY <2>1
  <2>3. PICK n \in Nat : /\ DOMAIN shelves[i].items = 1..n
                         /\ \A j \in 1..n : shelves[i].items[j].id \in Book
    BY <1>1, <1>2
  <2> QED BY <1>1, <2>2, <2>3 DEF IdAt
<1>4. \A i \in DOMAIN shelves : \E n \in Nat : DOMAIN shelves[i].items = 1..n
  BY <1>1, <1>2
<1> QED BY <1>1, <1>3, <1>4 DEF ItemIds

\* When no book is in two places of the shelves, the slides are all of them.
LEMMA SlidesAre ==
  ASSUME NEW shelves \in Seq(ShelfPages), ItemsOnce(shelves), NEW q \in Slides(shelves)
  PROVE  q \in Seq(Book) /\ IsInjective(q) /\ Range(q) = ItemIds(shelves)
<1> DEFINE cells == Cells(shelves)
           n == Cardinality(cells)
           Before(c, d) == c[1] < d[1] \/ (c[1] = d[1] /\ c[2] < d[2])
           first == {c \in cells : \A d \in cells :
                       Before(d, c) => IdAt(shelves, d) # IdAt(shelves, c)}
<1>1. \A c \in cells : /\ c[1] \in Nat /\ c[2] \in Nat /\ IdAt(shelves, c) \in Book
                       /\ IdAt(shelves, c) \in ItemIds(shelves)
  BY CellsAre DEF ItemIds
<1>2. \A c, d \in cells : IdAt(shelves, c) = IdAt(shelves, d) => c = d
  BY DEF ItemsOnce
<1>3. PICK s : s \in SetToSeqs(first) /\ q = [k \in DOMAIN s |-> IdAt(shelves, s[k])]
  <2>1. q \in {[k \in DOMAIN s |-> IdAt(shelves, s[k])] : s \in
                {t \in SetToSeqs(first) : \A i, j \in DOMAIN t : i < j => ~Before(t[j], t[i])}}
    BY DEF Slides, Orders, Cells, IdAt
  <2> HIDE DEF first
  <2> QED BY <2>1
<1> HIDE DEF cells
<1>4. first = cells
  BY <1>1, <1>2
<1>5. IsFiniteSet(cells) /\ n \in Nat
  <2> DEFINE f == [b \in ItemIds(shelves) |-> CHOOSE c \in cells : IdAt(shelves, c) = b]
  <2>1. IsFiniteSet(ItemIds(shelves))
    BY CellsAre, CatalogAssumption, FS_Subset
  <2>2. \A b \in ItemIds(shelves) : \E c \in cells : IdAt(shelves, c) = b
    BY DEF ItemIds, cells
  <2>3. f \in [ItemIds(shelves) -> cells] /\ \A b \in ItemIds(shelves) : IdAt(shelves, f[b]) = b
    BY <2>2
  <2>4. \A c \in cells : \E b \in ItemIds(shelves) : f[b] = c
    BY <1>1, <1>2, <2>3
  <2>5. f \in Surjection(ItemIds(shelves), cells)
    BY <2>3, <2>4 DEF Surjection
  <2> HIDE DEF f
  <2> QED BY <2>1, <2>5, FS_Surjection, FS_CardinalityType
<1>6. s \in [1..n -> cells] /\ \A i, j \in 1..n : i # j => s[i] # s[j]
  BY <1>3, <1>4 DEF SetToSeqs
<1>7. \A c \in cells : \E k \in 1..n : s[k] = c
  <2>1. s \in InOrder(cells, {})
    BY <1>6 DEF InOrder
  <2> QED BY <1>5, <2>1, AllInOrder
<1> HIDE DEF n
<1>8. q = [k \in 1..n |-> IdAt(shelves, s[k])]
  BY <1>3, <1>6
<1>9. q \in [1..n -> Book] /\ DOMAIN q = 1..n
  BY <1>1, <1>6, <1>8
<1>10. IsInjective(q)
  <2> SUFFICES ASSUME NEW i \in 1..n, NEW j \in 1..n, q[i] = q[j] PROVE i = j
    BY <1>9 DEF IsInjective
  <2>1. s[i] = s[j]
    BY <1>2, <1>6, <1>8
  <2> QED BY <1>6, <2>1
<1>11. Range(q) = ItemIds(shelves)
  <2>1. \A k \in 1..n : q[k] = IdAt(shelves, s[k]) /\ s[k] \in cells
    BY <1>6, <1>8
  <2>2. /\ \A b \in Range(q) : \E k \in 1..n : q[k] = b
        /\ \A k \in 1..n : q[k] \in Range(q)
    BY <1>9 DEF Range
  <2>3. \A b \in ItemIds(shelves) : \E c \in cells : IdAt(shelves, c) = b
    BY DEF ItemIds, cells
  <2>4. \A b \in Range(q) : b \in ItemIds(shelves)
    BY <1>1, <2>1, <2>2
  <2>5. \A b \in ItemIds(shelves) : b \in Range(q)
    BY <1>7, <2>1, <2>2, <2>3
  <2> QED BY <2>4, <2>5
<1>12. q \in Seq(Book)
  BY <1>5, <1>9
<1> QED BY <1>10, <1>11, <1>12

\* While neither the catalogue nor the likes change, nor does a shelf.
LEMMA SameShelves ==
  ASSUME UNCHANGED catalogVars, UNCHANGED interestVars
  PROVE  /\ \A d : ShelfBooks(d)' = ShelfBooks(d) /\ Tied(d)' = Tied(d)
         /\ \A at, ids, ds, n : Reading(at, ids, ds, n)' = Reading(at, ids, ds, n)
         /\ LikesAre' = LikesAre /\ CatalogInv' = CatalogInv /\ published' = published
<1>1. events' = events /\ published' = published /\ workStatus' = workStatus /\ demoted' = demoted
  BY DEF catalogVars, interestVars
<1>2. LikedBookIds' = LikedBookIds /\ EverLiked' = EverLiked /\ \A b : LikeCount(b)' = LikeCount(b)
  BY <1>1 DEF LikedBookIds, EverLiked, LikeCount
<1>3. \A b : MatchCount(b)' = MatchCount(b)
  BY <1>2 DEF MatchCount
<1>4. \A d : ShelfBooks(d)' = ShelfBooks(d)
  BY <1>1, <1>2, <1>3 DEF ShelfBooks, Editorial, EverTrending, Similar
<1>5. \A d, b : ShelfKey(d, b)' = ShelfKey(d, b)
  BY <1>2, <1>3 DEF ShelfKey
<1>6. \A d : Tied(d)' = Tied(d)
  BY <1>4, <1>5 DEF Tied
<1>7. \A d, b : Place(d, b)' = Place(d, b)
  BY <1>4, <1>5 DEF Place, Earliest
<1>8. \A d, p, more, ids : Reached(d, p, more, ids)' = Reached(d, p, more, ids)
  BY <1>4, <1>7 DEF Reached
<1>9. LikesAre' = LikesAre
  BY <1>1 DEF LikesAre
<1>10. CatalogInv' = CatalogInv
  BY <1>1 DEF CatalogInv
<1>11. \A at, ids, ds, n : Reading(at, ids, ds, n)' = Reading(at, ids, ds, n)
  BY <1>4, <1>6, <1>8 DEF Reading
<1> QED BY <1>1, <1>4, <1>6, <1>9, <1>10, <1>11

\* GET /feed goes through the shelves from the first.
LEMMA GetFeedKeeps ==
  ASSUME ReelsInv, GetFeed, UNCHANGED catalogVars, UNCHANGED interestVars
  PROVE  ReelsInv'
<1>1. CandidateShelves \in Seq(Shelf)
  <2>1. /\ StoredShelves \in Seq(Shelf)
        /\ Trending \in Shelf /\ PersonalizedSimilar \in Shelf
    BY FeedAssumption DEF Shelf
  <2>2. /\ (IF TrendingShelf THEN <<Trending>> ELSE <<>>) \in Seq(Shelf)
        /\ (IF PersonalizedShelves /\ LikedBookIds # {} THEN <<PersonalizedSimilar>> ELSE <<>>)
             \in Seq(Shelf)
    BY <2>1
  <2>3. \A s, t, u \in Seq(Shelf) : s \o t \o u \in Seq(Shelf)
    OBVIOUS
  <2> QED BY <2>1, <2>2, <2>3 DEF CandidateShelves
<1>2. feed = ClosedFeed /\ feed.step = "closed"
  BY DEF GetFeed, ReelsInv, FeedTypeOK
<1>3. feed' = [step |-> "loading", descriptors |-> CandidateShelves, shelves |-> <<>>,
               seen |-> {}, next |-> 1, banner |-> {}]
  BY <1>2 DEF GetFeed, ClosedFeed
<1>4. FeedTypeOK'
  <2>1. Cells(<<>>) = {} /\ ItemIds(<<>>) = {}
    BY DEF Cells, ItemIds
  <2>2. feed'.seen = ItemIds(feed'.shelves) /\ ItemsOnce(feed'.shelves)
    BY <1>3, <2>1 DEF ItemsOnce
  <2> QED BY <1>1, <1>2, <1>3, <2>2 DEF GetFeed, reelVars, ReelsInv, FeedTypeOK, FeedFields
<1>5. ReelsTypeOK' /\ GatheredInv' /\ CursorInv'
  BY DEF GetFeed, reelVars, ReelsInv, ReelsTypeOK, GatheredInv, CursorInv
<1>6. ShelvesInv'
  <2>1. PICK ds \in Seq(Shelf) : ds = CandidateShelves
    BY <1>1
  <2>2. DOMAIN GoOnFrom(2, <<>>) = {}
    BY DEF GoOnFrom
  <2>3. /\ feed'.step = "loading" /\ feed'.shelves = <<>> /\ feed'.seen = {}
        /\ feed'.descriptors = ds /\ feed'.next = 1 /\ feed'.banner = {}
    BY <1>3, <2>1
  <2>4. Reading(GoOnFrom(2, <<>>), {}, ds, 1)'
    <3>1. \A i \in DOMAIN ds : ~(i < 1)
      OBVIOUS
    <3> QED BY <2>2, <3>1 DEF Reading
  <2> QED BY <2>3, <2>4 DEF ShelvesInv
<1> QED BY <1>4, <1>5, <1>6, SameShelves DEF ReelsInv

\* A shelf of other books comes behind the shelves there are.
LEMMA OneMoreShelf ==
  ASSUME NEW shelves \in Seq(ShelfPages), ItemsOnce(shelves), NEW e \in ShelfPages,
         NEW ids \in Seq(Book), IsInjective(ids), Range(ids) \cap ItemIds(shelves) = {},
         NEW answer, e.items = Build(ids, answer), NEW new, new = Append(shelves, e)
  PROVE  /\ new \in Seq(ShelfPages) /\ ItemsOnce(new)
         /\ ItemIds(new) = ItemIds(shelves) \union Range(ids)
<1>1. PICK n \in Nat : n = Len(shelves) /\ DOMAIN shelves = 1..n
  OBVIOUS
<1>2. PICK m \in Nat : DOMAIN ids = 1..m
  OBVIOUS
<1>3. DOMAIN e.items = 1..m /\ \A j \in 1..m : e.items[j].id = ids[j]
  BY <1>2 DEF Build, BuildCard
<1>4. /\ new \in Seq(ShelfPages) /\ DOMAIN new = 1..(n + 1) /\ new[n + 1] = e
      /\ \A i \in 1..n : new[i] = shelves[i]
  BY <1>1
<1>5. \A c : c \in Cells(new) <=> \/ c \in Cells(shelves)
                                  \/ \E j \in 1..m : c = <<n + 1, j>>
  <2>1. \A c : c \in Cells(new) <=> \E i \in 1..(n + 1) : c \in {i} \X DOMAIN new[i].items
    BY <1>4 DEF Cells
  <2>2. \A c : c \in Cells(shelves) <=> \E i \in 1..n : c \in {i} \X DOMAIN new[i].items
    BY <1>1, <1>4 DEF Cells
  <2>3. \A c : c \in {n + 1} \X DOMAIN new[n + 1].items <=> \E j \in 1..m : c = <<n + 1, j>>
    BY <1>3, <1>4
  <2>4. \A i : i \in 1..(n + 1) <=> i \in 1..n \/ i = n + 1
    OBVIOUS
  <2> QED BY <2>1, <2>2, <2>3, <2>4, Zenon
<1>6. ASSUME NEW c \in Cells(shelves)
      PROVE  c[1] \in 1..n /\ IdAt(new, c) = IdAt(shelves, c)
             /\ IdAt(shelves, c) \in ItemIds(shelves)
  <2>1. c[1] \in 1..n
    <3>1. PICK i \in DOMAIN shelves : c \in {i} \X DOMAIN shelves[i].items
      BY DEF Cells
    <3> QED BY <1>1, <3>1
  <2>2. new[c[1]] = shelves[c[1]]
    BY <1>4, <2>1
  <2>3. IdAt(new, c) = IdAt(shelves, c)
    BY <2>2 DEF IdAt
  <2> QED BY <2>1, <2>3 DEF ItemIds
<1>7. \A j \in 1..m : /\ IdAt(new, <<n + 1, j>>) = ids[j] /\ ids[j] \in Range(ids)
                      /\ ids[j] \notin ItemIds(shelves)
  <2>1. \A j \in 1..m : IdAt(new, <<n + 1, j>>) = ids[j]
    BY <1>3, <1>4 DEF IdAt
  <2>2. \A j \in 1..m : ids[j] \in Range(ids)
    BY <1>2 DEF Range
  <2> QED BY <2>1, <2>2
<1>8. ItemsOnce(new)
  <2> SUFFICES ASSUME NEW c \in Cells(new), NEW b \in Cells(new), IdAt(new, c) = IdAt(new, b)
               PROVE  c = b
    BY DEF ItemsOnce
  <2>1. CASE c \in Cells(shelves) /\ b \in Cells(shelves)
    BY <1>6, <2>1 DEF ItemsOnce
  <2>2. CASE c \in Cells(shelves) /\ \E j \in 1..m : b = <<n + 1, j>>
    BY <1>6, <1>7, <2>2
  <2>3. CASE b \in Cells(shelves) /\ \E j \in 1..m : c = <<n + 1, j>>
    BY <1>6, <1>7, <2>3
  <2>4. ASSUME NEW i \in 1..m, NEW j \in 1..m, c = <<n + 1, i>>, b = <<n + 1, j>>
        PROVE  c = b
    <3>1. ids[i] = ids[j]
      BY <1>7, <2>4
    <3> QED BY <1>2, <2>4, <3>1 DEF IsInjective
  <2> QED BY <1>5, <2>1, <2>2, <2>3, <2>4
<1>9. ItemIds(new) = ItemIds(shelves) \union Range(ids)
  <2>1. \A b \in ItemIds(new) : b \in ItemIds(shelves) \union Range(ids)
    BY <1>5, <1>6, <1>7 DEF ItemIds
  <2>2. \A b \in ItemIds(shelves) : b \in ItemIds(new)
    BY <1>5, <1>6 DEF ItemIds
  <2>3. \A b \in Range(ids) : b \in ItemIds(new)
    <3>1. \A b \in Range(ids) : \E j \in 1..m : ids[j] = b
      BY <1>2 DEF Range
    <3> QED BY <1>5, <1>7, <3>1 DEF ItemIds
  <2> QED BY <2>1, <2>2, <2>3
<1> QED BY <1>4, <1>8, <1>9

\* A shelf's first page is what it adds to the shelves before it.
LEMMA FillShelfKeeps ==
  ASSUME ReelsInv, FillShelf, UNCHANGED catalogVars, UNCHANGED interestVars
  PROVE  ReelsInv'
<1> DEFINE d == feed.descriptors[feed.next]
<1>1. PICK found \in BookIdsForShelf(d, 1, feed.seen), answer \in AuthorsByWork :
        feed' = [feed EXCEPT !.next = feed.next + 1, !.seen = feed.seen \union Range(found.ids),
                   !.shelves = IF found.ids = <<>> THEN feed.shelves
                               ELSE Append(feed.shelves,
                                      [shelf |-> d, items |-> Build(found.ids, answer),
                                       hasMore |-> found.hasMore])]
  BY Zenon DEF FillShelf
<1>2. /\ feed.step = "loading" /\ feed.next <= Len(feed.descriptors) /\ feed.next \in Nat \ {0}
      /\ feed.descriptors \in Seq(Shelf) /\ feed.shelves \in Seq(ShelfPages)
      /\ feed.seen = ItemIds(feed.shelves) /\ ItemsOnce(feed.shelves) /\ DOMAIN feed = FeedFields
      /\ UNCHANGED <<reelVars, feedChanged>>
  BY DEF FillShelf, ReelsInv, FeedTypeOK
<1>3. d \in Shelf
  BY <1>2
<1>4. PICK shelves : shelves = (IF found.ids = <<>> THEN feed.shelves
                                ELSE Append(feed.shelves,
                                       [shelf |-> d, items |-> Build(found.ids, answer),
                                        hasMore |-> found.hasMore]))
  OBVIOUS
<1>5. /\ feed'.next = feed.next + 1 /\ feed'.seen = feed.seen \union Range(found.ids)
      /\ feed'.shelves = shelves /\ DOMAIN feed' = FeedFields /\ feed'.step = "loading"
      /\ feed'.descriptors = feed.descriptors /\ feed'.banner = feed.banner
  BY <1>1, <1>2, <1>4 DEF FeedFields
<1> HIDE DEF d
<1>6. /\ found.ids \in Seq(ShelfBooks(d) \ feed.seen) /\ IsInjective(found.ids)
      /\ found.hasMore \in BOOLEAN /\ ShelfBooks(d) \subseteq Book
      /\ found.ids = <<>> => ShelfBooks(d) \subseteq feed.seen
      /\ Tied(d) \/ Reached(d, 1, found.hasMore, feed.seen \union Range(found.ids))
  <2>1. 1 \in Nat \ {0} /\ LikesAre /\ CatalogInv
    BY DEF ReelsInv
  <2> QED BY <1>3, <2>1, PageOfShelf, ShelfData, FirstPage
<1>7. /\ found.ids \in Seq(Book) /\ Range(found.ids) \cap feed.seen = {}
      /\ Range(<<>>) = {}
  <2>1. \A b \in Range(found.ids) : b \in ShelfBooks(d) \ feed.seen
    BY <1>6 DEF Range
  <2>2. found.ids \in Seq(Book)
    BY <1>6
  <2> QED BY <2>1, <2>2 DEF Range
<1>8. /\ shelves \in Seq(ShelfPages) /\ ItemsOnce(shelves)
      /\ ItemIds(shelves) = feed.seen \union Range(found.ids)
  <2>1. CASE found.ids = <<>>
    BY <1>2, <1>4, <1>7, <2>1
  <2>2. CASE found.ids # <<>>
    <3>1. PICK old \in Seq(ShelfPages), ids \in Seq(Book), more \in BOOLEAN :
            old = feed.shelves /\ ids = found.ids /\ more = found.hasMore
      BY <1>2, <1>6, <1>7
    <3>2. PICK e \in ShelfPages : e.items = Build(ids, answer) /\ shelves = Append(old, e)
      <4>1. [shelf |-> d, items |-> Build(ids, answer), hasMore |-> more] \in ShelfPages
        BY <1>3 DEF ShelfPages
      <4> QED BY <1>4, <2>2, <3>1, <4>1
    <3>3. Range(ids) \cap ItemIds(old) = {} /\ ItemsOnce(old) /\ IsInjective(ids)
      BY <1>2, <1>6, <1>7, <3>1
    <3>4. /\ shelves \in Seq(ShelfPages) /\ ItemsOnce(shelves)
          /\ ItemIds(shelves) = ItemIds(old) \union Range(ids)
      BY <3>2, <3>3, OneMoreShelf
    <3> QED BY <1>2, <3>1, <3>4
  <2> QED BY <2>1, <2>2
<1>9. FeedTypeOK'
  BY <1>2, <1>5, <1>8 DEF ReelsInv, FeedTypeOK, reelVars
<1>10. ReelsTypeOK' /\ GatheredInv' /\ CursorInv'
  BY <1>2 DEF reelVars, ReelsInv, ReelsTypeOK, GatheredInv, CursorInv
<1>11. ShelvesInv'
  <2> SUFFICES ASSUME ~feedChanged PROVE ShelvesInv'
    BY <1>2 DEF ShelvesInv
  <2>1. PICK n \in Nat : n = Len(feed.shelves) /\ DOMAIN feed.shelves = 1..n
    BY <1>2
  <2>2. \A k \in 1..n : /\ k \in DOMAIN shelves /\ shelves[k] = feed.shelves[k]
    BY <1>2, <1>4, <2>1
  <2>3. \/ found.ids = <<>> /\ DOMAIN shelves = 1..n
        \/ /\ DOMAIN shelves = 1..(n + 1) /\ shelves[n + 1].shelf = d
           /\ shelves[n + 1].hasMore = found.hasMore
    BY <1>2, <1>4, <2>1
  <2>4. PICK ds, next, seen, before, at :
          /\ ds = feed.descriptors /\ next = feed.next /\ before = feed.seen
          /\ seen = before \union Range(found.ids) /\ at = GoOnFrom(2, feed.shelves)
    OBVIOUS
  <2>5. Reading(at, before, ds, next) /\ \A banner \in feed.banner : banner.book \in published
    BY <1>2, <2>4 DEF ReelsInv, ShelvesInv
  <2> DEFINE new == GoOnFrom(2, shelves)
  <2>6. /\ DOMAIN at = 1..n /\ \A k \in 1..n : k \in DOMAIN new /\ new[k] = at[k]
        /\ \A k \in DOMAIN new :
             k \in 1..n \/ (k = n + 1 /\ new[k].page - 1 = 1 /\ new[k].shelf = d
                             /\ new[k].hasMore = found.hasMore)
        /\ found.ids # <<>> => n + 1 \in DOMAIN new /\ new[n + 1].shelf = d
    BY <2>1, <2>2, <2>3, <2>4 DEF GoOnFrom
  <2> HIDE DEF new
  <2>7. ASSUME NEW k \in DOMAIN new
        PROVE  Tied(new[k].shelf) \/ Reached(new[k].shelf, new[k].page - 1, new[k].hasMore, seen)
    <3>1. CASE k \in 1..n
      BY <2>4, <2>5, <2>6, <3>1, ReachedMore DEF Reading
    <3>2. CASE k \notin 1..n
      BY <1>6, <2>4, <2>6, <3>2
    <3> QED BY <3>1, <3>2
  <2>8. ASSUME NEW i \in DOMAIN ds, i < next + 1
        PROVE  ShelfBooks(ds[i]) \subseteq seen \/ \E k \in DOMAIN new : new[k].shelf = ds[i]
    <3>1. CASE i < next
      <4>1. ShelfBooks(ds[i]) \subseteq before \/ \E k \in DOMAIN at : at[k].shelf = ds[i]
        BY <2>5, <3>1 DEF Reading
      <4> QED BY <2>4, <2>6, <4>1
    <3>2. CASE i = next
      <4>1. ds[i] = d
        BY <2>4, <3>2 DEF d
      <4> QED BY <1>6, <2>4, <2>6, <4>1
    <3> QED BY <1>2, <2>4, <2>8, <3>1, <3>2
  <2>9. Reading(new, seen, ds, next + 1)'
    <3>1. Reading(new, seen, ds, next + 1)
      BY <2>7, <2>8 DEF Reading
    <3> QED BY <3>1, SameShelves
  <2>10. /\ feed'.step = "loading" /\ GoOnFrom(2, feed'.shelves) = new /\ feed'.seen = seen
         /\ feed'.descriptors = ds /\ feed'.next = next + 1
         /\ \A banner \in feed'.banner : banner.book \in published'
    BY <1>5, <2>4, <2>5, SameShelves DEF new
  <2> QED BY <2>9, <2>10 DEF ShelvesInv
<1> QED BY <1>9, <1>10, <1>11, SameShelves DEF ReelsInv

\* The reels open with all that the shelves show.
LEMMA ShowFeedKeeps ==
  ASSUME ReelsInv, ShowFeed, UNCHANGED catalogVars, UNCHANGED interestVars
  PROVE  ReelsInv'
<1>1. PICK q \in Slides(feed.shelves) :
        /\ queue' = q /\ seenIds' = Range(q) /\ cursors' = GoOnFrom(2, feed.shelves)
        /\ exhausted' = \A i \in DOMAIN cursors' : ~cursors'[i].hasMore
  <2>1. PICK flat \in FlattenShelves(feed.shelves) :
          /\ queue' = flat.queue /\ seenIds' = Range(flat.queue) /\ cursors' = flat.cursors
          /\ exhausted' = \A i \in DOMAIN flat.cursors : ~flat.cursors[i].hasMore
    BY DEF ShowFeed
  <2>2. PICK q \in Slides(feed.shelves) :
          flat = [queue |-> q, cursors |-> GoOnFrom(2, feed.shelves)]
    BY DEF FlattenShelves
  <2>3. flat.queue = q /\ flat.cursors = GoOnFrom(2, feed.shelves)
    BY <2>2
  <2> QED BY <2>1, <2>3, Zenon
<1>2. PICK banner \in {{}} \union {{b} : b \in ActiveBanner} :
        feed' = [feed EXCEPT !.step = IF feed.shelves = <<>> THEN "empty" ELSE "shown",
                             !.banner = banner]
  BY Zenon DEF ShowFeed
<1>3. /\ feed.step = "loading" /\ feed.next > Len(feed.descriptors) /\ feed.next \in Nat \ {0}
      /\ feed.descriptors \in Seq(Shelf) /\ feed.shelves \in Seq(ShelfPages)
      /\ feed.seen = ItemIds(feed.shelves) /\ ItemsOnce(feed.shelves) /\ DOMAIN feed = FeedFields
      /\ UNCHANGED <<cursorIndex, fetching, fetchFailed, feedChanged>>
  BY DEF ShowFeed, ReelsInv, FeedTypeOK
<1>4. cursorIndex = 1 /\ fetching = {}
  BY <1>3 DEF ReelsInv, FeedTypeOK
<1>5. PICK at : at = GoOnFrom(2, feed.shelves)
  OBVIOUS
<1>6. at \in Seq(Cursors)
  <2>1. \A i \in DOMAIN feed.shelves : feed.shelves[i].shelf \in Shelf
                                       /\ feed.shelves[i].hasMore \in BOOLEAN
    BY <1>3, CellsAre DEF ShelfPages
  <2>2. PICK n \in Nat : DOMAIN feed.shelves = 1..n
    BY <1>3
  <2>3. at \in [1..n -> Cursors]
    BY <1>5, <2>1, <2>2 DEF GoOnFrom, Cursors
  <2> QED BY <2>3
<1>7. q \in Seq(Book) /\ IsInjective(q) /\ Range(q) = feed.seen
  BY <1>3, SlidesAre
<1>8. /\ DOMAIN feed' = FeedFields /\ feed'.step \in {"shown", "empty"}
      /\ feed'.descriptors = feed.descriptors /\ feed'.shelves = feed.shelves
      /\ feed'.seen = feed.seen /\ feed'.next = feed.next /\ feed'.banner = banner
  BY <1>2, <1>3 DEF FeedFields
<1>9. FeedTypeOK'
  BY <1>3, <1>8 DEF ReelsInv, FeedTypeOK
<1>10. feed.seen \subseteq Book
  BY <1>3, CellsAre
<1>11. ReelsTypeOK'
  BY <1>1, <1>3, <1>4, <1>5, <1>6, <1>7, <1>10 DEF ReelsTypeOK
<1>12. GatheredInv'
  BY <1>1, <1>3, <1>4, <1>7 DEF GatheredInv
<1>13. CursorInv'
  <2>1. \A k \in DOMAIN at : ~(k < 1)
    BY <1>6
  <2> QED BY <1>1, <1>3, <1>4, <1>5, <2>1 DEF CursorInv
<1>14. ShelvesInv'
  <2> SUFFICES ASSUME ~feedChanged PROVE ShelvesInv'
    BY <1>3 DEF ShelvesInv
  <2>1. PICK ids, ds, n : ids = feed.seen /\ ds = feed.descriptors /\ n = feed.next
    OBVIOUS
  <2>2. Reading(at, ids, ds, n)
    BY <1>3, <1>5, <2>1 DEF ReelsInv, ShelvesInv
  <2>3. \A i \in DOMAIN ds : i < n /\ i < Len(ds) + 1
    BY <1>3, <2>1
  <2>4. Reading(at, ids, ds, Len(ds) + 1)
    BY <2>2, <2>3 DEF Reading
  <2>5. Reading(at, ids, ds, Len(ds) + 1)'
    BY <2>4, SameShelves
  <2>6. \A b \in banner : b.book \in published'
    BY <1>2, SameShelves DEF ActiveBanner
  <2>7. /\ feed'.step # "loading" /\ cursors' = at /\ seenIds' = ids
        /\ feed'.descriptors = ds /\ feed'.banner = banner
    BY <1>1, <1>5, <1>7, <1>8, <2>1
  <2> QED BY <2>5, <2>6, <2>7 DEF ShelvesInv
<1> QED BY <1>9, <1>11, <1>12, <1>13, <1>14, SameShelves DEF ReelsInv

\* Up to the next cursor there is nothing more, and it has more.
LEMMA NextCursorIs ==
  ASSUME NEW at \in Seq(Cursors), NEW i \in 1..(Len(at) + 1), NEW j \in NextCursor(at, i)
  PROVE  /\ j \in 1..(Len(at) + 1) /\ i <= j
         /\ j <= Len(at) => j \in DOMAIN at /\ at[j].hasMore
         /\ \A k \in DOMAIN at : i <= k /\ k < j => ~at[k].hasMore
<1>1. Len(at) \in Nat /\ DOMAIN at = 1..Len(at)
  OBVIOUS
<1>2. /\ j \in i..(Len(at) + 1) /\ \A k \in i..(j - 1) : ~at[k].hasMore
      /\ j <= Len(at) => at[j].hasMore
  BY DEF NextCursor
<1>3. \A k \in DOMAIN at : i <= k /\ k < j => k \in i..(j - 1)
  BY <1>1, <1>2
<1> QED BY <1>1, <1>2, <1>3

\* The feed stays while the reels go on.
LEMMA FeedStays ==
  ASSUME FeedTypeOK, feed.step \in {"shown", "empty"}, feed' = feed,
         feedChanged' = feedChanged, fetchFailed' \in BOOLEAN
  PROVE  FeedTypeOK'
BY DEF FeedTypeOK

LEMMA ShelvesStay ==
  ASSUME ShelvesInv, UNCHANGED catalogVars, UNCHANGED interestVars,
         UNCHANGED <<feed, seenIds, cursors, feedChanged>>
  PROVE  ShelvesInv'
BY SameShelves DEF ShelvesInv

\* A reader near the end starts with the shelf that has more.
LEMMA FetchMoreKeeps ==
  ASSUME ReelsInv, FetchMore, UNCHANGED catalogVars, UNCHANGED interestVars
  PROVE  ReelsInv'
<1>1. PICK i \in NextCursor(cursors, cursorIndex) :
        IF i > Len(cursors)
        THEN Gathered(i, <<>>)
        ELSE /\ fetching' = {[at |-> i, appended |-> <<>>]}
             /\ UNCHANGED <<queue, cursorIndex, exhausted>>
  BY DEF FetchMore
<1>2. /\ feed.step = "shown" /\ fetching = {} /\ ~exhausted
      /\ UNCHANGED <<feed, seenIds, cursors, fetchFailed, feedChanged>>
  BY DEF FetchMore
<1>3. /\ queue \in Seq(Book) /\ seenIds \subseteq Book /\ cursors \in Seq(Cursors)
      /\ cursorIndex \in 1..(Len(cursors) + 1)
  BY DEF ReelsInv, ReelsTypeOK
<1>4. PICK at, n : at = cursors /\ n = Len(cursors) /\ n \in Nat /\ DOMAIN at = 1..n
  BY <1>3
<1>5. /\ i \in 1..(n + 1) /\ cursorIndex <= i
      /\ \A k \in 1..n : k < i => ~at[k].hasMore
  <2>1. PICK j \in 1..(Len(at) + 1) : j = cursorIndex
    BY <1>3, <1>4
  <2>2. /\ i \in 1..(n + 1) /\ j <= i
        /\ \A k \in 1..n : j <= k /\ k < i => ~at[k].hasMore
    <3>1. at \in Seq(Cursors) /\ i \in NextCursor(at, j)
      BY <1>1, <1>3, <1>4, <2>1
    <3> QED BY <1>4, <3>1, NextCursorIs
  <2>3. \A k \in 1..n : k < j => ~at[k].hasMore
    BY <1>4, <2>1 DEF ReelsInv, CursorInv
  <2> QED BY <2>1, <2>2, <2>3
<1>6. \/ /\ i = n + 1 /\ fetching' = {} /\ queue' = queue /\ cursorIndex' = i /\ exhausted'
      \/ /\ i \in 1..n /\ fetching' = {[at |-> i, appended |-> <<>>]}
         /\ UNCHANGED <<queue, cursorIndex, exhausted>>
  <2>1. CASE i > Len(cursors)
    <3>1. queue \o <<>> = queue
      BY <1>3
    <3>2. /\ queue' = queue \o <<>> /\ cursorIndex' = i /\ fetching' = {}
          /\ exhausted' = (i > Len(cursors))
      BY <1>1, <2>1, Zenon DEF Gathered
    <3>3. exhausted'
      BY <2>1, <3>2, Zenon
    <3>4. i = n + 1
      BY <1>4, <1>5, <2>1
    <3> QED BY <3>1, <3>2, <3>3, <3>4
  <2>2. CASE ~(i > Len(cursors))
    BY <1>1, <1>4, <1>5, <2>2
  <2> QED BY <2>1, <2>2
<1>7. ReelsTypeOK'
  <2>1. exhausted' \in BOOLEAN /\ queue' \in Seq(Book) /\ cursorIndex' \in 1..(Len(cursors') + 1)
    BY <1>2, <1>3, <1>4, <1>5, <1>6 DEF ReelsInv, ReelsTypeOK
  <2>2. \A f \in fetching' : /\ f.at \in DOMAIN cursors' /\ f.appended = <<>>
                             /\ \A g \in fetching' : f = g
    BY <1>2, <1>4, <1>6
  <2>3. <<>> \in Seq(Book)
    OBVIOUS
  <2> QED BY <1>2, <1>3, <2>1, <2>2, <2>3 DEF ReelsTypeOK
<1>8. GatheredInv'
  <2>1. IsInjective(<<>>) /\ Range(<<>>) = {}
    BY DEF IsInjective, Range
  <2> QED BY <1>2, <1>6, <2>1 DEF ReelsInv, GatheredInv
<1>9. CursorInv'
  BY <1>2, <1>4, <1>5, <1>6 DEF ReelsInv, CursorInv
<1>10. FeedTypeOK' /\ ShelvesInv'
  BY <1>2, FeedStays, ShelvesStay DEF ReelsInv, FeedTypeOK
<1> QED BY <1>7, <1>8, <1>9, <1>10, SameShelves DEF ReelsInv

\* What was gathered is lost, and remembered as such.
LEMMA GetShelfFailsKeeps ==
  ASSUME ReelsInv, GetShelfFails, UNCHANGED catalogVars, UNCHANGED interestVars
  PROVE  ReelsInv'
<1>1. /\ fetching # {} /\ fetching' = {} /\ fetchFailed' = TRUE
      /\ UNCHANGED <<feed, queue, seenIds, cursors, cursorIndex, exhausted, feedChanged>>
  BY DEF GetShelfFails
<1>2. feed.step \in {"shown", "empty"}
  BY <1>1 DEF ReelsInv, FeedTypeOK
<1>3. ReelsTypeOK' /\ GatheredInv' /\ CursorInv'
  BY <1>1 DEF ReelsInv, ReelsTypeOK, GatheredInv, CursorInv
<1>4. FeedTypeOK' /\ ShelvesInv'
  BY <1>1, <1>2, FeedStays, ShelvesStay DEF ReelsInv
<1> QED BY <1>3, <1>4, SameShelves DEF ReelsInv

\* A further page: the shelf is read one page on, and what it brings is gathered.
LEMMA GetShelfKeeps ==
  ASSUME ReelsInv, GetShelf, UNCHANGED catalogVars, UNCHANGED interestVars
  PROVE  ReelsInv'
<1> DEFINE Read(f, found) ==
             [cursors EXCEPT ![f.at] = [cursors[f.at] EXCEPT !.page = cursors[f.at].page + 1,
                                                             !.hasMore = found.hasMore]]
           Goes(f, found, fresh, i) ==
             IF found.hasMore \/ i > Len(cursors)
             THEN Gathered(i, f.appended \o fresh)
             ELSE /\ fetching' = {[at |-> i, appended |-> f.appended \o fresh]}
                  /\ UNCHANGED <<queue, cursorIndex, exhausted>>
<1>1. PICK f \in fetching :
        /\ \E found \in BookIdsForShelf(cursors[f.at].shelf, cursors[f.at].page, {}) :
           \E fresh \in Fresh(found.ids) :
             /\ seenIds' = seenIds \union Range(fresh) /\ cursors' = Read(f, found)
             /\ \E i \in NextCursor(Read(f, found), IF found.hasMore THEN f.at ELSE f.at + 1) :
                  Goes(f, found, fresh, i)
        /\ UNCHANGED <<feed, fetchFailed, feedChanged>>
  BY Zenon DEF GetShelf
<1>2. PICK found \in BookIdsForShelf(cursors[f.at].shelf, cursors[f.at].page, {}) :
      \E fresh \in Fresh(found.ids) :
        /\ seenIds' = seenIds \union Range(fresh) /\ cursors' = Read(f, found)
        /\ \E i \in NextCursor(Read(f, found), IF found.hasMore THEN f.at ELSE f.at + 1) :
             Goes(f, found, fresh, i)
  BY <1>1, Zenon
<1>3. PICK fresh \in Fresh(found.ids) :
        /\ seenIds' = seenIds \union Range(fresh) /\ cursors' = Read(f, found)
        /\ \E i \in NextCursor(Read(f, found), IF found.hasMore THEN f.at ELSE f.at + 1) :
             Goes(f, found, fresh, i)
  BY <1>2, Zenon
<1>4. PICK i \in NextCursor(Read(f, found), IF found.hasMore THEN f.at ELSE f.at + 1) :
        Goes(f, found, fresh, i)
  BY <1>3, Zenon
<1>5. /\ queue \in Seq(Book) /\ seenIds \subseteq Book /\ cursors \in Seq(Cursors)
      /\ exhausted \in BOOLEAN /\ f.at \in DOMAIN cursors /\ f.appended \in Seq(Book)
      /\ feed.step \in {"shown", "empty"} /\ ~exhausted /\ \A g \in fetching : g = f
      /\ cursorIndex \in 1..(Len(cursors) + 1)
  BY <1>1 DEF ReelsInv, ReelsTypeOK, FeedTypeOK, CursorInv
<1>6. UNCHANGED <<feed, fetchFailed, feedChanged>>
  BY <1>1
<1>7. PICK at, n, x, d, p, read :
        /\ at = cursors /\ n = Len(cursors) /\ x = f.at /\ d = cursors[f.at].shelf
        /\ p = cursors[f.at].page /\ read = cursors'
  OBVIOUS
<1>8. /\ n \in Nat /\ DOMAIN at = 1..n /\ x \in 1..n /\ at \in Seq(Cursors) /\ at[x] \in Cursors
      /\ d = at[x].shelf /\ p = at[x].page /\ d \in Shelf /\ p \in Nat \ {0}
  <2>1. n \in Nat /\ DOMAIN at = 1..n /\ x \in 1..n /\ at \in Seq(Cursors) /\ at[x] \in Cursors
    BY <1>5, <1>7
  <2> QED BY <1>7, <2>1 DEF Cursors
<1>9. /\ found \in BookIdsForShelf(d, p, {}) /\ seenIds' = seenIds \union Range(fresh)
      /\ cursors' = read /\ i \in NextCursor(read, IF found.hasMore THEN x ELSE x + 1)
      /\ read = [at EXCEPT ![x] = [at[x] EXCEPT !.page = p + 1, !.hasMore = found.hasMore]]
  BY <1>2, <1>3, <1>4, <1>7
<1>10. /\ found.ids \in Seq(Book) /\ IsInjective(found.ids) /\ found.hasMore \in BOOLEAN
  <2>1. ShelfBooks(d) \ {} \subseteq Book /\ found.ids \in Seq(ShelfBooks(d) \ {})
        /\ IsInjective(found.ids) /\ found.hasMore \in BOOLEAN
    BY <1>8, <1>9, PageOfShelf, ShelfData DEF ReelsInv
  <2> QED BY <2>1
<1>11. /\ fresh \in Seq(Book) /\ IsInjective(fresh)
       /\ Range(fresh) = Range(found.ids) \ seenIds
  BY <1>10, FreshIs
<1>12. /\ read \in Seq(Cursors) /\ Len(read) = n /\ DOMAIN read = 1..n
       /\ read[x].shelf = d /\ read[x].page = p + 1 /\ read[x].hasMore = found.hasMore
       /\ \A k \in 1..n : k # x => read[k] = at[k]
  <2>1. PICK e : e = [at[x] EXCEPT !.page = p + 1, !.hasMore = found.hasMore]
    OBVIOUS
  <2>2. at[x] \in Cursors
    BY <1>8
  <2>3. e \in Cursors /\ e.shelf = d /\ e.page = p + 1 /\ e.hasMore = found.hasMore
    <3>1. /\ DOMAIN e = {"shelf", "page", "hasMore"} /\ e.shelf = d /\ e.page = p + 1
          /\ e.hasMore = found.hasMore
      BY <1>8, <2>1, <2>2 DEF Cursors
    <3>2. e = [shelf |-> d, page |-> p + 1, hasMore |-> found.hasMore]
      BY <2>1, <2>2, <3>1 DEF Cursors
    <3>3. p + 1 \in Nat \ {0}
      BY <1>8
    <3> QED BY <1>8, <1>10, <3>1, <3>2, <3>3 DEF Cursors
  <2>4. read = [at EXCEPT ![x] = e]
    BY <1>9, <2>1
  <2> QED BY <1>8, <2>3, <2>4
<1>13. /\ i \in 1..(n + 1) /\ (i <= n => read[i].hasMore)
       /\ \A k \in 1..n : k < i => ~read[k].hasMore
  <2>1. PICK j \in 1..(n + 1) : j = IF found.hasMore THEN x ELSE x + 1
    BY <1>8
  <2>2. j \in 1..(Len(read) + 1) /\ i \in NextCursor(read, j)
    BY <1>9, <1>12, <2>1
  <2>3. /\ i \in 1..(n + 1) /\ j <= i /\ (i <= n => read[i].hasMore)
        /\ \A k \in 1..n : j <= k /\ k < i => ~read[k].hasMore
    BY <1>12, <2>2, NextCursorIs
  <2>4. \A k \in 1..n : k < x => ~at[k].hasMore
    BY <1>1, <1>7, <1>8 DEF ReelsInv, CursorInv
  <2>5. ASSUME NEW k \in 1..n, k < i PROVE ~read[k].hasMore
    <3>1. CASE k < x
      BY <1>8, <1>12, <2>4, <3>1
    <3>2. CASE k = x
      BY <1>8, <1>12, <2>1, <2>3, <2>5, <3>2
    <3>3. CASE x < k
      BY <1>8, <2>1, <2>3, <2>5, <3>3
    <3> QED BY <1>8, <3>1, <3>2, <3>3
  <2> QED BY <2>3, <2>5
<1>14. PICK new : new = f.appended \o fresh
  OBVIOUS
<1>15. /\ new \in Seq(Book) /\ IsInjective(new)
       /\ Range(new) = Range(f.appended) \union Range(fresh)
       /\ Range(new) \subseteq seenIds' /\ Range(new) \cap Range(queue) = {}
       /\ Range(fresh) \cap seenIds = {} /\ Range(queue) \subseteq seenIds /\ IsInjective(queue)
  <2>1. /\ IsInjective(f.appended) /\ Range(f.appended) \subseteq seenIds
        /\ Range(f.appended) \cap Range(queue) = {} /\ Range(queue) \subseteq seenIds
        /\ IsInjective(queue)
    BY <1>1 DEF ReelsInv, GatheredInv
  <2>2. Range(fresh) \cap seenIds = {} /\ Range(f.appended) \cap Range(fresh) = {}
    BY <1>11, <2>1
  <2>3. /\ new \in Seq(Book) /\ IsInjective(new)
        /\ Range(new) = Range(f.appended) \union Range(fresh)
    <3>1. PICK s \in Seq(Book) : s = f.appended
      BY <1>5
    <3>2. IsInjective(s) /\ Range(s) \cap Range(fresh) = {} /\ new = s \o fresh
      BY <1>14, <2>1, <2>2, <3>1
    <3>3. /\ s \o fresh \in Seq(Book) /\ IsInjective(s \o fresh)
          /\ Range(s \o fresh) = Range(s) \union Range(fresh)
      BY <1>11, <3>2, BehindTheSlides
    <3> QED BY <3>1, <3>2, <3>3
  <2> QED BY <1>9, <2>1, <2>2, <2>3
\* Either the loop ends here or it goes to the next shelf, this one being done.
<1>16. \/ /\ queue' = queue \o new /\ cursorIndex' = i /\ fetching' = {}
          /\ exhausted' = (i > n)
       \/ /\ i \in 1..n /\ ~found.hasMore /\ fetching' = {[at |-> i, appended |-> new]}
          /\ UNCHANGED <<queue, cursorIndex, exhausted>>
  <2>1. CASE found.hasMore \/ i > Len(cursors)
    <3>1. Gathered(i, f.appended \o fresh)
      BY <1>4, <2>1, Zenon
    <3>2. /\ queue' = queue \o (f.appended \o fresh) /\ cursorIndex' = i /\ fetching' = {}
          /\ exhausted' = (i > Len(cursors))
      BY <3>1 DEF Gathered
    <3> QED BY <1>7, <1>14, <3>2, Zenon
  <2>2. CASE ~(found.hasMore \/ i > Len(cursors))
    <3>1. /\ fetching' = {[at |-> i, appended |-> f.appended \o fresh]}
          /\ UNCHANGED <<queue, cursorIndex, exhausted>>
      BY <1>4, <2>2, Zenon
    <3>2. i \in 1..n
      BY <1>7, <1>8, <1>13, <2>2
    <3> QED BY <1>14, <2>2, <3>1, <3>2, Zenon
  <2> QED BY <2>1, <2>2
<1>17. queue' = queue \o new =>
         /\ queue' \in Seq(Book) /\ IsInjective(queue')
         /\ Range(queue') = Range(queue) \union Range(new)
  <2>1. PICK s \in Seq(Book) : s = queue
    BY <1>5
  <2>2. IsInjective(s) /\ Range(s) \cap Range(new) = {}
    BY <1>15, <2>1
  <2>3. /\ s \o new \in Seq(Book) /\ IsInjective(s \o new)
        /\ Range(s \o new) = Range(s) \union Range(new)
    BY <1>15, <2>2, BehindTheSlides
  <2> QED BY <2>1, <2>3
<1>18. Range(fresh) \subseteq Book /\ Range(new) \subseteq Book
  BY <1>11, <1>15 DEF Range
<1>19. ReelsTypeOK'
  <2>1. seenIds' \subseteq Book /\ cursors' \in Seq(Cursors) /\ DOMAIN cursors' = 1..n
        /\ Len(cursors') = n
    BY <1>5, <1>9, <1>12, <1>18
  <2>2. queue' \in Seq(Book) /\ cursorIndex' \in 1..(n + 1) /\ exhausted' \in BOOLEAN
    <3>1. queue' \in Seq(Book)
      BY <1>5, <1>16, <1>17
    <3>2. cursorIndex' \in 1..(n + 1)
      BY <1>5, <1>7, <1>13, <1>16
    <3>3. (i > n) \in BOOLEAN
      OBVIOUS
    <3>4. exhausted' \in BOOLEAN
      BY <1>5, <1>16, <3>3, Zenon
    <3> QED BY <3>1, <3>2, <3>4
  <2>3. \A g \in fetching' : /\ g.at \in 1..n /\ g.appended \in Seq(Book)
                             /\ \A h \in fetching' : g = h
    BY <1>15, <1>16
  <2> QED BY <2>1, <2>2, <2>3 DEF ReelsTypeOK
<1>20. GatheredInv'
  <2>1. IsInjective(queue') /\ Range(queue') \subseteq seenIds'
    BY <1>9, <1>15, <1>16, <1>17
  <2>2. \A g \in fetching' : /\ IsInjective(g.appended) /\ Range(g.appended) \subseteq seenIds'
                             /\ Range(g.appended) \cap Range(queue') = {}
    BY <1>15, <1>16
  <2>3. ASSUME ~fetchFailed'
        PROVE  seenIds' = Range(queue') \union UNION {Range(g.appended) : g \in fetching'}
    <3>1. seenIds = Range(queue) \union Range(f.appended)
      <4>1. seenIds = Range(queue) \union UNION {Range(g.appended) : g \in fetching}
        BY <1>6, <2>3 DEF ReelsInv, GatheredInv
      <4>2. fetching = {f}
        BY <1>1, <1>5
      <4> QED BY <4>1, <4>2
    <3>2. seenIds' = Range(queue) \union Range(new)
      BY <1>9, <1>15, <3>1
    <3>3. CASE queue' = queue \o new /\ fetching' = {}
      BY <1>17, <3>2, <3>3
    <3>4. CASE queue' = queue /\ fetching' = {[at |-> i, appended |-> new]}
      BY <3>2, <3>4
    <3> QED BY <1>16, <3>3, <3>4
  <2> QED BY <2>1, <2>2, <2>3 DEF GatheredInv
<1>21. CursorInv'
  <2>1. CASE fetching' = {} /\ cursorIndex' = i /\ exhausted' = (i > n)
    <3>1. exhausted' => i = n + 1
      <4>1. exhausted' <=> i > n
        BY <2>1, Zenon
      <4>2. n \in Nat /\ i \in 1..(n + 1)
        BY <1>8, <1>13
      <4>3. i > n => i = n + 1
        BY <4>2
      <4> QED BY <4>1, <4>3, Zenon
    <3>2. exhausted' => \A k \in 1..n : ~read[k].hasMore
      BY <1>8, <1>13, <3>1
    <3> QED BY <1>9, <1>12, <1>13, <2>1, <3>2 DEF CursorInv
  <2>2. CASE /\ i \in 1..n /\ ~found.hasMore /\ fetching' = {[at |-> i, appended |-> new]}
             /\ UNCHANGED <<queue, cursorIndex, exhausted>>
    <3>1. \A k \in 1..n : k < cursorIndex => ~at[k].hasMore
      BY <1>7, <1>8 DEF ReelsInv, CursorInv
    <3>2. \A k \in 1..n : k < cursorIndex => ~read[k].hasMore
      BY <1>12, <2>2, <3>1
    <3> QED BY <1>5, <1>9, <1>12, <1>13, <2>2, <3>2 DEF CursorInv
  <2> QED BY <1>16, <2>1, <2>2
<1>22. FeedTypeOK'
  BY <1>5, <1>6, FeedStays DEF ReelsInv, FeedTypeOK
<1>23. ShelvesInv'
  <2> SUFFICES ASSUME ~feedChanged PROVE ShelvesInv'
    BY <1>6 DEF ShelvesInv
  <2>1. PICK ids, ds, new_ids : ids = seenIds /\ ds = feed.descriptors /\ new_ids = seenIds'
    OBVIOUS
  <2>2. Reading(at, ids, ds, Len(ds) + 1)
    BY <1>5, <1>7, <2>1 DEF ReelsInv, ShelvesInv
  <2>3. ids \subseteq new_ids /\ new_ids = ids \union Range(found.ids)
    BY <1>9, <1>11, <2>1
  <2>4. ASSUME NEW k \in 1..n
        PROVE  \/ Tied(read[k].shelf)
               \/ Reached(read[k].shelf, read[k].page - 1, read[k].hasMore, new_ids)
    <3>1. CASE k = x
      <4>1. Tied(d) \/ Reached(d, p - 1, at[x].hasMore, ids)
        BY <1>8, <2>2 DEF Reading
      <4>2. Tied(d) \/ Reached(d, p, found.hasMore, new_ids)
        <5>1. CASE Reached(d, p - 1, at[x].hasMore, ids)
          BY <1>8, <1>9, <2>3, <5>1, FurtherPage DEF ReelsInv
        <5> QED BY <4>1, <5>1
      <4>3. read[k].page - 1 = p
        BY <1>8, <1>12, <3>1
      <4> QED BY <1>12, <3>1, <4>2, <4>3
    <3>2. CASE k # x
      <4>1. Tied(at[k].shelf) \/ Reached(at[k].shelf, at[k].page - 1, at[k].hasMore, ids)
        BY <1>8, <2>2 DEF Reading
      <4> QED BY <1>12, <2>3, <3>2, <4>1, ReachedMore
    <3> QED BY <3>1, <3>2
  <2>5. ASSUME NEW j \in DOMAIN ds, j < Len(ds) + 1
        PROVE  ShelfBooks(ds[j]) \subseteq new_ids \/ \E k \in 1..n : read[k].shelf = ds[j]
    <3>1. ShelfBooks(ds[j]) \subseteq ids \/ \E k \in 1..n : at[k].shelf = ds[j]
      BY <1>8, <2>2, <2>5 DEF Reading
    <3>2. \A k \in 1..n : read[k].shelf = at[k].shelf
      BY <1>8, <1>12
    <3> QED BY <2>3, <3>1, <3>2
  <2>6. Reading(read, new_ids, ds, Len(ds) + 1)'
    <3>1. Reading(read, new_ids, ds, Len(ds) + 1)
      BY <1>12, <2>4, <2>5 DEF Reading
    <3> QED BY <3>1, SameShelves
  <2>7. /\ feed'.step # "loading" /\ cursors' = read /\ seenIds' = new_ids
        /\ feed'.descriptors = ds /\ \A banner \in feed'.banner : banner.book \in published'
    <3>1. \A banner \in feed.banner : banner.book \in published
      BY DEF ReelsInv, ShelvesInv
    <3> QED BY <1>5, <1>6, <1>9, <2>1, <3>1, SameShelves
  <2> QED BY <2>6, <2>7 DEF ShelvesInv
<1> QED BY <1>19, <1>20, <1>21, <1>22, <1>23, SameShelves DEF ReelsInv

\* A change of the catalogue ends what is said of it.
LEMMA FeedChangesKeeps ==
  ASSUME ReelsInv, CatalogNext, FeedChangesMeanwhile, UNCHANGED interestVars
  PROVE  ReelsInv'
<1>1. feedChanged' = (feed.step # "closed") /\ UNCHANGED <<feed, reelVars>>
  BY DEF FeedChangesMeanwhile
<1>2. LikesAre' /\ CatalogInv'
  BY CatalogKeeps DEF ReelsInv, LikesAre, interestVars
<1>3. feedChanged' \in BOOLEAN /\ (~feedChanged' => feed.step = "closed")
  BY <1>1
<1>4. FeedTypeOK' /\ ReelsTypeOK' /\ GatheredInv' /\ CursorInv'
  BY <1>1, <1>3 DEF reelVars, ReelsInv, FeedTypeOK, ReelsTypeOK, GatheredInv, CursorInv
<1>5. ShelvesInv'
  <2> SUFFICES ASSUME feed.step = "closed" PROVE ShelvesInv'
    BY <1>3 DEF ShelvesInv
  <2>1. feed.banner = {}
    BY DEF ReelsInv, FeedTypeOK, ClosedFeed
  <2> QED BY <1>1, <2>1 DEF ShelvesInv
<1> QED BY <1>2, <1>4, <1>5 DEF ReelsInv

LEMMA InitReels ==
  ASSUME CatalogInit, FeedInit, events \in Seq([book : Book, liked : BOOLEAN])
  PROVE  ReelsInv
<1>1. LikesAre /\ CatalogInv
  BY DEF LikesAre, CatalogInit, CatalogInv
<1>2. /\ feed = ClosedFeed /\ queue = <<>> /\ seenIds = {} /\ cursors = <<>> /\ cursorIndex = 1
      /\ fetching = {} /\ exhausted = FALSE /\ fetchFailed = FALSE /\ feedChanged = FALSE
  BY DEF FeedInit
<1>3. /\ DOMAIN feed = FeedFields /\ feed.step = "closed" /\ feed.descriptors = <<>>
      /\ feed.shelves = <<>> /\ feed.seen = {} /\ feed.next = 1 /\ feed.banner = {}
  BY <1>2 DEF ClosedFeed, FeedFields
<1>4. ItemIds(<<>>) = {} /\ ItemsOnce(<<>>)
  <2>1. Cells(<<>>) = {}
    BY DEF Cells
  <2> QED BY <2>1 DEF ItemIds, ItemsOnce
<1>5. FeedTypeOK
  <2>1. <<>> \in Seq(Shelf) /\ <<>> \in Seq(ShelfPages) /\ 1 \in Nat \ {0}
    OBVIOUS
  <2>2. feedChanged \in BOOLEAN /\ fetchFailed \in BOOLEAN /\ ~exhausted
    BY <1>2
  <2>3. feed.seen = ItemIds(feed.shelves) /\ ItemsOnce(feed.shelves)
    BY <1>3, <1>4
  <2> QED BY <1>2, <1>3, <2>1, <2>2, <2>3 DEF FeedTypeOK
<1>6. ReelsTypeOK
  <2>1. <<>> \in Seq(Book) /\ <<>> \in Seq(Cursors) /\ 1 \in 1..(Len(<<>>) + 1)
    OBVIOUS
  <2>2. exhausted \in BOOLEAN
    BY <1>2
  <2> QED BY <1>2, <2>1, <2>2 DEF ReelsTypeOK
<1>7. GatheredInv /\ CursorInv
  BY <1>2 DEF GatheredInv, CursorInv, IsInjective, Range
<1>8. ShelvesInv
  BY <1>3 DEF ShelvesInv
<1> QED BY <1>1, <1>5, <1>6, <1>7, <1>8 DEF ReelsInv

LEMMA ReelsAtRest ==
  ASSUME ReelsInv, UNCHANGED <<catalogVars, interestVars, feedVars>>
  PROVE  ReelsInv'
<1>1. UNCHANGED catalogVars /\ UNCHANGED interestVars /\ UNCHANGED <<feed, reelVars, feedChanged>>
  BY DEF feedVars
<1>2. FeedTypeOK' /\ ReelsTypeOK' /\ GatheredInv' /\ CursorInv'
  BY <1>1 DEF reelVars, ReelsInv, FeedTypeOK, ReelsTypeOK, GatheredInv, CursorInv
<1>3. ShelvesInv'
  BY <1>1, ShelvesStay DEF ReelsInv, reelVars
<1> QED BY <1>1, <1>2, <1>3, SameShelves DEF ReelsInv

\* At the end no shelf has anything that is no slide.
LEMMA ReelsInvShows == ReelsInv => ReelsShowEachOnce
<1> SUFFICES ASSUME ReelsInv PROVE ReelsShowEachOnce
  OBVIOUS
<1>1. IsInjective(queue)
  BY DEF ReelsInv, GatheredInv
<1>2. ASSUME exhausted, ~fetchFailed, ~feedChanged, NEW i \in DOMAIN feed.descriptors
      PROVE  Tied(feed.descriptors[i]) \/ ShelfBooks(feed.descriptors[i]) \subseteq Range(queue)
  <2>1. feed.step \in {"shown", "empty"}
    BY <1>2 DEF ReelsInv, FeedTypeOK
  <2>2. fetching = {} /\ \A k \in DOMAIN cursors : ~cursors[k].hasMore
    BY <1>2 DEF ReelsInv, CursorInv
  <2>3. seenIds = Range(queue)
    <3>1. seenIds = Range(queue) \union UNION {Range(f.appended) : f \in fetching}
      BY <1>2 DEF ReelsInv, GatheredInv
    <3> QED BY <2>2, <3>1
  <2>4. PICK at, ids, ds : at = cursors /\ ids = seenIds /\ ds = feed.descriptors
    OBVIOUS
  <2>5. Reading(at, ids, ds, Len(ds) + 1)
    BY <1>2, <2>1, <2>4 DEF ReelsInv, ShelvesInv
  <2>6. i \in DOMAIN ds /\ i < Len(ds) + 1
    BY <1>2, <2>4 DEF ReelsInv, FeedTypeOK
  <2>7. CASE \E k \in DOMAIN at : at[k].shelf = ds[i]
    <3>1. PICK k \in DOMAIN at : at[k].shelf = ds[i]
      BY <2>7
    <3>2. Tied(ds[i]) \/ Reached(ds[i], at[k].page - 1, at[k].hasMore, ids)
      BY <2>5, <3>1 DEF Reading
    <3>3. ~at[k].hasMore
      BY <2>2, <2>4
    <3> QED BY <2>3, <2>4, <3>2, <3>3 DEF Reached
  <2> QED BY <2>3, <2>4, <2>5, <2>6, <2>7 DEF Reading
<1>3. ~feedChanged => \A banner \in feed.banner : GetBook(banner.book, "IN").status = 200
  BY DEF ReelsInv, ShelvesInv, GetBook
<1> QED BY <1>1, <1>2, <1>3 DEF ReelsShowEachOnce

\* The reels of apps/web show no book twice, and who reads them to the end, while
\* no fetch fails and the catalogue stays, has seen all the books of every shelf
\* that GET /feed found, but for shelves whose sort key has ties: whatever the
\* shelves share, and though their first pages leave out each other's books and
\* the further ones do not. Its banner opens.
THEOREM ReelsShowEachOnceHolds == FeedSpec => []ReelsShowEachOnce
<1>1. CatalogInit /\ FeedInit /\ events \in Seq([book : Book, liked : BOOLEAN]) => ReelsInv
  BY InitReels
<1>2. ReelsInv /\ [/\ \/ FeedNext /\ UNCHANGED catalogVars
                      \/ CatalogNext /\ FeedChangesMeanwhile
                   /\ UNCHANGED interestVars
                  ]_<<catalogVars, interestVars, feedVars>>
        => ReelsInv'
  <2> SUFFICES ASSUME ReelsInv,
                      [/\ \/ FeedNext /\ UNCHANGED catalogVars
                          \/ CatalogNext /\ FeedChangesMeanwhile
                       /\ UNCHANGED interestVars
                      ]_<<catalogVars, interestVars, feedVars>>
               PROVE  ReelsInv'
    OBVIOUS
  <2>1. CASE FeedNext /\ UNCHANGED catalogVars /\ UNCHANGED interestVars
    BY <2>1, GetFeedKeeps, FillShelfKeeps, ShowFeedKeeps, FetchMoreKeeps, GetShelfKeeps,
       GetShelfFailsKeeps DEF FeedNext, ReelsFeed
  <2>2. CASE CatalogNext /\ FeedChangesMeanwhile /\ UNCHANGED interestVars
    BY <2>2, FeedChangesKeeps
  <2>3. CASE UNCHANGED <<catalogVars, interestVars, feedVars>>
    BY <2>3, ReelsAtRest
  <2> QED BY <2>1, <2>2, <2>3
<1> QED BY <1>1, <1>2, ReelsInvShows, PTL DEF FeedSpec
==============================================================================
