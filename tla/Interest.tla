------------------------------ MODULE Interest ------------------------------
(***************************************************************************)
(* The likes of one visitor: the hearts of apps/web's cards and slides,    *)
(* which show a like before the API has it, and api-feed's interest        *)
(* events, which only ever grow.                                           *)
(***************************************************************************)
EXTENDS Integers, Sequences, FiniteSets

CONSTANTS
  Heart,       \* LikeButton and the heart of ReelBookSlide, as mounted
  HeartBook,   \* [Heart -> the book it is of]
  MaxToggles,  \* bound: clicks
  MaxLost      \* bound: posts without an answer, or refused

VARIABLES
  events,      \* discovery.interest_events, in the order of created_at
  liked,       \* a heart's state
  posting,     \* ... and its pending
  posts,       \* POST /interest/like calls out
  toggles,     \* clicks so far
  clicked,     \* history: hearts clicked
  lost         \* hearts that missed an answer

interestVars == <<events, liked, posting, posts, toggles, clicked, lost>>

LikesInit ==
  /\ liked = [h \in Heart |-> FALSE] /\ posting = [h \in Heart |-> FALSE]
  /\ posts = {} /\ toggles = 0 /\ clicked = {} /\ lost = {}
InterestInit == events = <<>> /\ LikesInit

Click(h) ==
  /\ toggles < MaxToggles /\ toggles' = toggles + 1
  /\ clicked' = clicked \union {h}
  /\ liked' = [liked EXCEPT ![h] = ~@]
  /\ posts' = posts \union {[heart |-> h, liked |-> ~liked[h], step |-> "sent", n |-> toggles]}
  /\ UNCHANGED <<events, lost>>

\* Mutant: a click does not look at the post that is out.
ToggleAnyTime(h) == Click(h) /\ posting' = [posting EXCEPT ![h] = TRUE]

\* onClick and toggleLike, up to the await.
ToggleLike(h) == ~posting[h] /\ Click(h) /\ posting' = [posting EXCEPT ![h] = TRUE]

\* InterestService.setLike: one event for each post, likes and unlikes alike.
SetLike(post) ==
  /\ post.step = "sent"
  /\ events' = Append(events, [book |-> HeartBook[post.heart], liked |-> post.liked])
  /\ posts' = (posts \ {post}) \union {[post EXCEPT !.step = "recorded"]}
  /\ UNCHANGED <<liked, posting, toggles, clicked, lost>>

LikeAnswered(post) ==
  /\ post.step = "recorded"
  /\ posts' = posts \ {post} /\ posting' = [posting EXCEPT ![post.heart] = FALSE]
  /\ UNCHANGED <<events, liked, toggles, clicked, lost>>

\* No answer, whether or not the event is there: the heart goes back.
LikeFailed(post) ==
  /\ Cardinality(lost) < MaxLost /\ post.heart \notin lost
  /\ posts' = posts \ {post} /\ posting' = [posting EXCEPT ![post.heart] = FALSE]
  /\ liked' = [liked EXCEPT ![post.heart] = ~post.liked]
  /\ lost' = lost \union {post.heart}
  /\ UNCHANGED <<events, toggles, clicked>>

InterestNext ==
  \/ \E h \in Heart : ToggleLike(h)
  \/ \E post \in posts : SetLike(post) \/ LikeAnswered(post) \/ LikeFailed(post)

InterestSpec == InterestInit /\ [][InterestNext]_interestVars

-----------------------------------------------------------------------------
(* What the services make of the events *)

\* FeedService.likedBookIds: the last event of a book counts.
LikedBookIds ==
  {events[i].book : i \in {j \in DOMAIN events :
     /\ events[j].liked
     /\ \A k \in DOMAIN events : k > j => events[k].book # events[j].book}}

\* SearchService and the trending shelf count every like ever, taken back or not.
EverLiked == {events[i].book : i \in {j \in DOMAIN events : events[j].liked}}
LikeCount(b) == Cardinality({i \in DOMAIN events : events[i].book = b /\ events[i].liked})

-----------------------------------------------------------------------------
(* Properties *)

\* A heart that was clicked and waits for nothing shows what the last of its
\* book's events says, unless an answer was lost or another heart of the book
\* was clicked too: the pending flag keeps its posts in order.
HeartIsLastLike ==
  \A h \in clicked \ lost :
    ~posting[h] /\ (\A g \in clicked \ {h} : HeartBook[g] # HeartBook[h])
      => liked[h] = (HeartBook[h] \in LikedBookIds)
=============================================================================
