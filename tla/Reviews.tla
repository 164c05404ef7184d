------------------------------ MODULE Reviews ------------------------------
(***************************************************************************)
(* Customer reviews: submitting (lib/reviews-db.ts submitReview and the    *)
(* guard trigger of drizzle-pg/0008), moderating (moderateReview), and the *)
(* product page that lists approved reviews a page at a time               *)
(* (listApprovedReviews, public/store-core.js loadProductReviews).         *)
(*                                                                         *)
(* A statement outside a transaction, and the short transaction of a       *)
(* decision, is one step.  The server computes an answer to the page and   *)
(* the page shows it in one step; the order of the answers is free.        *)
(***************************************************************************)
EXTENDS Naturals, Sequences, SequencesExt, Functions

CONSTANTS
  Submission,       \* POST calls; the review a call stores has its name
  Old, OldInstant,  \* those that were stored and decided long ago, and when
  Key, Text, Line,  \* Idempotency-Key headers, contents, order lines
  KeyOf, TextOf, RatingOf,
  LineOf,           \* the order line whose number and contact it states
  IdRank,           \* the order of the rows' ids
  Moderator,
  Precision,        \* the microseconds in a millisecond
  PageSize,
  MaxDecisions, MaxAsks,    \* bounds of the instance
  NoLine, NoReview, NoCursor, Idle

Status == {"pending", "approved", "rejected"}
Sort   == {"newest", "highest", "lowest"}

\* The ids of the rows are different; what is absent is none of the values.
ASSUME ReviewsAssumption ==
  /\ IsFiniteSet(Submission)
  /\ KeyOf \in [Submission -> Key] /\ TextOf \in [Submission -> Text]
  /\ LineOf \in [Submission -> Line \cup {NoLine}]
  /\ RatingOf \in [Submission -> 1 .. 5] /\ IdRank \in [Submission -> Nat]
  /\ {Precision, PageSize} \subseteq Nat \ {0}
  /\ Old \subseteq Submission /\ OldInstant \in [Old -> 0 .. Precision]
  /\ \A s, q \in Old : s # q =>
       KeyOf[s] # KeyOf[q] /\ TextOf[s] # TextOf[q] /\ (LineOf[s] = LineOf[q] => LineOf[s] = NoLine)
  /\ \A s, q \in Submission : s # q => IdRank[s] # IdRank[q]
  /\ NoReview \notin [status : Status, created : Nat, line : Line \cup {NoLine}]
  /\ NoCursor \notin [rating : Nat, instant : Nat, rank : Nat]
  /\ Idle \notin [review : Submission, from : Status, to : Status]

VARIABLES
  received,     \* the order lines whose order is delivered, installed or completed
  clock,        \* the last instant at which a review was stored
  call,         \* how far each submission has come
  review,       \* product_reviews, of one product
  audit,        \* the decisions of each review in audit_logs, oldest first
  desk,         \* the decision each moderator is about to make
  page,         \* reviewState of a product page
  asked         \* the list requests of the page that are not answered yet

vars == <<received, clock, call, review, audit, desk, page, asked>>

Stored(s)   == review[s] # NoReview
Live(s)     == Stored(s) /\ review[s].status \in {"pending", "approved"}
Approved    == {s \in Submission : Stored(s) /\ review[s].status = "approved"}

-----------------------------------------------------------------------------
(* Submitting *)

NeverClashes(s, line) == FALSE      \* a fault

\* product_reviews_order_item_live_uq and product_reviews_content_live_uq.
LiveClash(s, line) ==
  \E q \in Submission \ {s} :
    Live(q) /\ (TextOf[q] = TextOf[s] \/ (line # NoLine /\ review[q].line = line))

KeyUsed(s) == \E q \in Submission : Stored(q) /\ KeyOf[q] = KeyOf[s]

At(s, at, line) == call' = [call EXCEPT ![s] = [at |-> at, line |-> line]]

\* The replay check, then findOrderLine and verifyPurchase.
Look(s) ==
  /\ call[s].at = "new"
  /\ IF KeyUsed(s) THEN At(s, "done", NoLine)
     ELSE At(s, "looked", IF LineOf[s] \in received THEN LineOf[s] ELSE NoLine)
  /\ UNCHANGED <<received, clock, review, audit, desk, page, asked>>

\* INSERT ... ON CONFLICT DO NOTHING.  The trigger runs first: an order that
\* left its status since Look makes the second INSERT store it unverified.
Store(s) ==
  LET line == call[s].line IN
  /\ call[s].at = "looked"
  /\ IF line # NoLine /\ line \notin received
     THEN At(s, "looked", NoLine) /\ UNCHANGED <<clock, review>>
     ELSE /\ At(s, "done", NoLine)
          /\ IF KeyUsed(s) \/ LiveClash(s, line) THEN UNCHANGED <<clock, review>>
             ELSE \E now \in {clock, clock + 1} :
                    /\ clock' = now
                    /\ review' = [review EXCEPT ![s] =
                         [status |-> "pending", created |-> now, line |-> line]]
  /\ UNCHANGED <<received, audit, desk, page, asked>>

\* transitionOrder moves an order into, or out of, the statuses that verify.
MoveOrder(l) ==
  /\ received' = IF l \in received THEN received \ {l} ELSE received \cup {l}
  /\ UNCHANGED <<clock, call, review, audit, desk, page, asked>>

-----------------------------------------------------------------------------
(* Moderating *)

\* canTransitionReview
MayBecome(from, to) == to \in {"approved", "rejected"} /\ from # to

Decisions == FoldFunction(LAMBDA story, n : Len(story) + n, 0, audit)

\* moderateReview reads the status that the moderator's decision is based on.
Read(m) ==
  /\ desk[m] = Idle /\ Decisions < MaxDecisions
  /\ \E s \in Submission, to \in Status :
       /\ Stored(s) /\ MayBecome(review[s].status, to)
       /\ desk' = [desk EXCEPT ![m] = [review |-> s, from |-> review[s].status, to |-> to]]
  /\ UNCHANGED <<received, clock, call, review, audit, page, asked>>

SeenAnyStatus(m) == TRUE        \* a fault

\* UPDATE ... WHERE status = the one that was read
Unmoved(m) == review[desk[m].review].status = desk[m].from

\* The update and its audit row, or STALE, or CONFLICT: a rejected review
\* cannot come back while another one has its content or its order line.
Decide(m) ==
  LET s == desk[m].review  to == desk[m].to
      conflict == to = "approved" /\ ~Live(s) /\ LiveClash(s, review[s].line)
  IN /\ desk[m] # Idle
     /\ IF Unmoved(m) /\ ~conflict
        THEN /\ review' = [review EXCEPT ![s].status = to]
             /\ audit' = [audit EXCEPT ![s] = Append(@, [from |-> desk[m].from, to |-> to])]
             /\ page' = IF to = "rejected" THEN [page EXCEPT !.steady = @ \ {s}] ELSE page
        ELSE UNCHANGED <<review, audit, page>>
     /\ desk' = [desk EXCEPT ![m] = Idle]
     /\ UNCHANGED <<received, clock, call, asked>>

-----------------------------------------------------------------------------
(* Listing.  page.steady and page.disturbed are history: the reviews that   *)
(* were approved ever since the list was begun, and whether an answer to an *)
(* earlier question has reached this list; what is asked from such a list   *)
(* belongs to none (round 0).                                               *)

Older(s, instant, rank) ==
  \/ review[s].created < instant
  \/ review[s].created = instant /\ IdRank[s] < rank

\* The rows after a rating, an instant and an id in the order of the sort.
Follows(s, sort, rating, instant, rank) ==
  LET older == Older(s, instant, rank) IN
  CASE sort = "newest"  -> older
    [] sort = "highest" -> RatingOf[s] < rating \/ (RatingOf[s] = rating /\ older)
    [] sort = "lowest"  -> RatingOf[s] > rating \/ (RatingOf[s] = rating /\ older)

Comes(s, q, sort) == Follows(q, sort, RatingOf[s], review[s].created, IdRank[s])

\* encodeReviewCursor: the instant goes through a Date, which has milliseconds.
Cursor(s) ==
  [rating |-> RatingOf[s], instant |-> (review[s].created \div Precision) * Precision,
   rank |-> IdRank[s]]

Matching(sort, c) ==
  IF c = NoCursor THEN Approved
  ELSE {s \in Approved : Follows(s, sort, c.rating, c.instant, c.rank)}

\* listApprovedReviews: ORDER BY ... LIMIT PageSize + 1
Rows(sort, c) ==
  CHOOSE rows \in SetToSeqs(Matching(sort, c)) :
    \A i, j \in DOMAIN rows : i < j => Comes(rows[i], rows[j], sort)
Page(sort, c) == SubSeq(Rows(sort, c), 1, IF Len(Rows(sort, c)) < PageSize
                                          THEN Len(Rows(sort, c)) ELSE PageSize)
CursorOfTheLookAhead(sort, c) ==       \* a fault
  IF Len(Rows(sort, c)) > PageSize THEN Cursor(Rows(sort, c)[PageSize + 1]) ELSE NoCursor

NextCursor(sort, c) ==
  IF Len(Rows(sort, c)) > PageSize THEN Cursor(Last(Page(sort, c))) ELSE NoCursor

Ask(reset, sort, cursor, round) ==
  asked' = asked \cup {[number |-> page.asks + 1, reset |-> reset, sort |-> sort,
                        cursor |-> cursor, round |-> round]}

\* The page is opened or another sort is chosen: loadProductReviews(true).
Restart(sort) ==
  /\ page.status # "loading" /\ page.asks < MaxAsks
  /\ page' = [page EXCEPT !.status = "loading", !.sort = sort, !.list = << >>,
                          !.next = NoCursor, !.round = @ + 1, !.asks = @ + 1,
                          !.steady = Approved, !.disturbed = FALSE]
  /\ Ask(TRUE, sort, NoCursor, page.round + 1)
  /\ UNCHANGED <<received, clock, call, review, audit, desk>>

\* The button for more: loadProductReviews(false).
More ==
  /\ page.status = "ready" /\ page.next # NoCursor /\ ~page.loadingMore
  /\ page.asks < MaxAsks
  /\ page' = [page EXCEPT !.loadingMore = TRUE, !.asks = @ + 1]
  /\ Ask(FALSE, page.sort, page.next, IF page.disturbed THEN 0 ELSE page.round)
  /\ UNCHANGED <<received, clock, call, review, audit, desk>>

Shown(a) == IF a.reset THEN << >> ELSE page.list

\* An answer arrives: it is shown on the list of now, whatever it answers.
Show(a) ==
  /\ asked' = asked \ {a}
  /\ page' = [page EXCEPT !.status = "ready", !.loadingMore = FALSE,
                          !.list = Shown(a) \o Page(a.sort, a.cursor),
                          !.next = NextCursor(a.sort, a.cursor),
                          !.disturbed = a.round # page.round \/ (~a.reset /\ @)]
  /\ UNCHANGED <<received, clock, call, review, audit, desk>>

\* No answer, or an error.
Lose(a) ==
  /\ asked' = asked \ {a}
  /\ page' = [page EXCEPT !.status = IF a.reset THEN "unavailable" ELSE @,
                          !.loadingMore = FALSE,
                          !.disturbed = @ \/ a.round # page.round]
  /\ UNCHANGED <<received, clock, call, review, audit, desk>>

-----------------------------------------------------------------------------
Init ==
  /\ received \in SUBSET Line
  /\ clock = Precision
  /\ call = [s \in Submission |-> [at |-> IF s \in Old THEN "done" ELSE "new", line |-> NoLine]]
  /\ \E status \in [Old -> {"approved", "rejected"}] :
       /\ review = [s \in Submission |->
            IF s \in Old
            THEN [status |-> status[s], created |-> OldInstant[s], line |-> LineOf[s]]
            ELSE NoReview]
       /\ audit = [s \in Submission |->
            IF s \in Old THEN <<[from |-> "pending", to |-> status[s]]>> ELSE << >>]
  /\ desk = [m \in Moderator |-> Idle]
  /\ page = [status |-> "idle", sort |-> "newest", list |-> << >>, next |-> NoCursor,
             loadingMore |-> FALSE, round |-> 0, asks |-> 0,
             steady |-> {}, disturbed |-> FALSE]
  /\ asked = {}

Next ==
  \/ \E s \in Submission : Look(s) \/ Store(s)
  \/ \E l \in Line : MoveOrder(l)
  \/ \E m \in Moderator : Read(m) \/ Decide(m)
  \/ \E sort \in Sort : Restart(sort)
  \/ More
  \/ \E a \in asked : Show(a) \/ Lose(a)

Spec == Init /\ [][Next]_vars

-----------------------------------------------------------------------------
\* The rows keep their columns, and the unique indexes of 0008 hold: one
\* review per key, and one live review per content and per order line, also
\* when a rejected review is approved again.
TypeOK ==
  /\ received \subseteq Line /\ clock \in Nat
  /\ call \in [Submission -> [at : {"new", "looked", "done"}, line : Line \cup {NoLine}]]
  /\ review \in [Submission -> {NoReview} \cup
       [status : Status, created : 0 .. clock, line : Line \cup {NoLine}]]
  /\ \A s, q \in Submission : s # q /\ Stored(s) /\ Stored(q) =>
       /\ KeyOf[s] # KeyOf[q]
       /\ Live(s) /\ Live(q) =>
            /\ TextOf[s] # TextOf[q]
            /\ review[s].line = review[q].line => review[s].line = NoLine
  /\ desk \in [Moderator -> {Idle} \cup [review : Submission, from : Status, to : Status]]
  /\ page.status \in {"idle", "loading", "ready", "unavailable"} /\ page.sort \in Sort
  /\ page.list \in Seq(Submission)

\* However many moderators decide at once, the audit log of a review tells its
\* story: it starts with a pending review, every decision takes up where the
\* one before it ended, and the last one is the status of the row
\* (lib/reviews-db.ts:91).
AuditTellsTheStory ==
  \A s \in Submission : Stored(s) =>
    LET story == <<"pending">> \o [i \in 1 .. Len(audit[s]) |-> audit[s][i].to] IN
    /\ \A i \in 1 .. Len(audit[s]) : audit[s][i].from = story[i]
    /\ review[s].status = Last(story)

\* Reviews that share their millisecond with another one can fall between two
\* pages, because the cursor has lost their microseconds.
Alone(s) ==
  ~\E q \in Submission \ {s} : /\ Stored(q)
                                /\ review[q].created \div Precision = review[s].created \div Precision

\* Paging through the reviews while others are submitted, approved and
\* rejected shows them in the order of the sort, none twice, and at the end
\* every one that was approved all the time; unless an answer that belongs to
\* an earlier list came in between (lib/reviews-db.ts:25).
PagesAreExact ==
  page.status = "ready" /\ ~page.disturbed =>
    /\ \A i, j \in DOMAIN page.list :
         i < j => Comes(page.list[i], page.list[j], page.sort)
    /\ page.next = NoCursor =>
         \A s \in page.steady : Alone(s) => \E i \in DOMAIN page.list : page.list[i] = s
=============================================================================
