--------------------------- MODULE ReviewsProofs ---------------------------
(***************************************************************************)
(* Proofs about Reviews, for any submissions, keys, contents, ratings,     *)
(* moderators, sizes of a page and precisions of the clock.                *)
(***************************************************************************)
EXTENDS Reviews, FiniteSetTheorems, TLAPS

-----------------------------------------------------------------------------
(* The invariant.                                                          *)

Decision  == [review : Submission, from : Status, to : Status]
Cursors   == [rating : Nat, instant : Nat, rank : Nat]
Asks      == [number : Nat, reset : BOOLEAN, sort : Sort, cursor : Cursors \cup {NoCursor},
              round : Nat]
PageState == [status : {"idle", "loading", "ready", "unavailable"}, sort : Sort,
              list : Seq(Submission), next : Cursors \cup {NoCursor}, loadingMore : BOOLEAN,
              round : Nat, asks : Nat, steady : SUBSET Submission, disturbed : BOOLEAN]

\* The columns that TypeOK leaves open; who decides has a review to decide on.
Columns ==
  /\ audit \in [Submission -> Seq([from : Status, to : Status])]
  /\ page \in PageState /\ asked \subseteq Asks
  /\ \A m \in Moderator : desk[m] # Idle =>
       Stored(desk[m].review) /\ desk[m].to # "pending"

\* The status at which a list of decisions has arrived.
Outcome(story) == IF story = << >> THEN "pending" ELSE story[Len(story)].to

\* Every decision takes up where the one before it ended; nothing is decided
\* of a review that is not there.
Told ==
  \A s \in Submission :
    /\ \A i \in 1 .. Len(audit[s]) :
         audit[s][i].from = IF i = 1 THEN "pending" ELSE audit[s][i - 1].to
    /\ IF Stored(s) THEN review[s].status = Outcome(audit[s]) ELSE audit[s] = << >>

Sorted(list, sort) ==
  \A i, j \in DOMAIN list : i < j => Comes(list[i], list[j], sort)

In(s, list) == \E i \in DOMAIN list : list[i] = s

\* What is listed is stored, and what is steady is approved.
Listed ==
  /\ \A i \in DOMAIN page.list : Stored(page.list[i])
  /\ page.steady \subseteq Approved

\* The list so far, and the cursor at its end: every steady review is in the
\* list or comes after its last row.
ExactList(p) ==
  p.status = "ready" /\ ~p.disturbed =>
    /\ Sorted(p.list, p.sort)
    /\ p.next = NoCursor => \A s \in p.steady : Alone(s) => In(s, p.list)
    /\ p.next # NoCursor =>
         /\ p.list # << >> /\ p.next = Cursor(Last(p.list))
         /\ \A s \in p.steady : Alone(s) =>
              In(s, p.list) \/ Comes(Last(p.list), s, p.sort)

\* At most one call under way belongs to the list of now.  It began the list,
\* which shows nothing yet but late answers; or it asks for more, from the end
\* of the list.
Asking(p, calls) ==
  /\ \A a \in calls : a.round <= p.round /\ p.round > 0
  /\ p.status # "idle" => p.round > 0
  /\ \A a, b \in calls : a.round = p.round /\ b.round = p.round => a = b
  /\ \A a \in calls : a.round = p.round /\ a.reset =>
       /\ a.sort = p.sort /\ a.cursor = NoCursor
       /\ p.status = "ready" => p.disturbed
  /\ \A a \in calls : a.round = p.round /\ ~a.reset /\ ~p.disturbed =>
       /\ p.status = "ready" /\ p.loadingMore
       /\ a.sort = p.sort /\ a.cursor = p.next /\ p.next # NoCursor

IInv == TypeOK /\ Columns /\ Told /\ Listed /\ ExactList(page) /\ Asking(page, asked)

-----------------------------------------------------------------------------
(* ORDER BY.                                                               *)

\* R is a strict total order on M.
Orders(R, M) ==
  /\ \A x \in M : <<x, x>> \notin R
  /\ \A x, y, z \in M : <<x, y>> \in R /\ <<y, z>> \in R => <<x, z>> \in R
  /\ \A x, y \in M : x # y => <<x, y>> \in R \/ <<y, x>> \in R

Before(x, R, M) == {y \in M : <<y, x>> \in R}

(* The place of an element is the number of those before it, and it. *)
LEMMA PlaceOf ==
  ASSUME NEW M, IsFiniteSet(M), NEW R, Orders(R, M), NEW x \in M
  PROVE  /\ IsFiniteSet(Before(x, R, M))
         /\ Cardinality(Before(x, R, M)) + 1 \in 1 .. Cardinality(M)
<1>1. x \notin Before(x, R, M) /\ Before(x, R, M) \in SUBSET M
  BY DEF Before, Orders
<1>2. /\ IsFiniteSet(Before(x, R, M))
      /\ Cardinality(Before(x, R, M)) <= Cardinality(M)
      /\ Cardinality(M) = Cardinality(Before(x, R, M)) => M = Before(x, R, M)
  BY <1>1, FS_Subset
<1>3. Cardinality(M) \in Nat /\ Cardinality(Before(x, R, M)) \in Nat
  BY <1>2, FS_CardinalityType
<1>4. Cardinality(M) # Cardinality(Before(x, R, M))
  BY <1>1, <1>2
<1> QED BY <1>2, <1>3, <1>4

LEMMA PlacesGrow ==
  ASSUME NEW M, IsFiniteSet(M), NEW R, Orders(R, M), NEW x \in M, NEW y \in M, <<x, y>> \in R
  PROVE  Cardinality(Before(x, R, M)) < Cardinality(Before(y, R, M))
<1>1. Before(x, R, M) \in SUBSET Before(y, R, M)
  BY DEF Before, Orders
<1>2. x \in Before(y, R, M) /\ x \notin Before(x, R, M)
  BY DEF Before, Orders
<1>3. IsFiniteSet(Before(x, R, M)) /\ IsFiniteSet(Before(y, R, M))
  BY PlaceOf
<1>4. /\ Cardinality(Before(x, R, M)) <= Cardinality(Before(y, R, M))
      /\ Cardinality(Before(y, R, M)) = Cardinality(Before(x, R, M))
           => Before(y, R, M) = Before(x, R, M)
  BY <1>1, <1>3, FS_Subset
<1>5. Cardinality(Before(x, R, M)) \in Nat /\ Cardinality(Before(y, R, M)) \in Nat
  BY <1>3, FS_CardinalityType
<1> QED BY <1>2, <1>4, <1>5

(* A finite set can be put in order. *)
LEMMA SortedExists ==
  ASSUME NEW M, IsFiniteSet(M), NEW R, Orders(R, M)
  PROVE  \E rows \in SetToSeqs(M) : \A i, j \in DOMAIN rows : i < j => <<rows[i], rows[j]>> \in R
<1> DEFINE n     == Cardinality(M)
           place == [x \in M |-> Cardinality(Before(x, R, M)) + 1]
           rows  == [i \in 1 .. n |-> CHOOSE x \in M : place[x] = i]
<1>1. n \in Nat /\ IsFiniteSet(1 .. n) /\ Cardinality(1 .. n) = n
  BY FS_CardinalityType, FS_Interval
<1>2. place \in [M -> 1 .. n]
  BY PlaceOf
<1>3. \A x, y \in M : <<x, y>> \in R => place[x] < place[y]
  <2> SUFFICES ASSUME NEW x \in M, NEW y \in M, <<x, y>> \in R PROVE place[x] < place[y]
    OBVIOUS
  <2>1. Cardinality(Before(x, R, M)) < Cardinality(Before(y, R, M))
    BY PlacesGrow
  <2>2. Cardinality(Before(x, R, M)) \in Nat /\ Cardinality(Before(y, R, M)) \in Nat
    BY PlaceOf, FS_CardinalityType
  <2> QED BY <2>1, <2>2
<1> HIDE DEF n, place
<1>4. \A x, y \in M : x # y => place[x] # place[y]
  <2> SUFFICES ASSUME NEW x \in M, NEW y \in M, x # y PROVE place[x] # place[y]
    OBVIOUS
  <2>1. place[x] < place[y] \/ place[y] < place[x]
    BY <1>3 DEF Orders
  <2>2. place[x] \in Nat /\ place[y] \in Nat
    BY <1>1, <1>2
  <2> QED BY <2>1, <2>2
<1>5. place \in Injection(M, 1 .. n)
  BY <1>2, <1>4 DEF Injection, IsInjective
<1>6. place \in Surjection(M, 1 .. n)
  BY <1>1, <1>5, FS_Injection DEF n
<1>7. \A i \in 1 .. n : \E x \in M : place[x] = i
  BY <1>6 DEF Surjection
<1>8. \A i \in 1 .. n : rows[i] \in M /\ place[rows[i]] = i
  BY <1>7 DEF rows
<1>9. rows \in [1 .. n -> M]
  BY <1>8
<1> HIDE DEF rows
<1>10. rows \in SetToSeqs(M)
  <2>1. \A i, j \in 1 .. n : i # j => rows[i] # rows[j]
    BY <1>8
  <2> QED BY <2>1, <1>9 DEF SetToSeqs, n
<1>11. ASSUME NEW i \in 1 .. n, NEW j \in 1 .. n, i < j PROVE <<rows[i], rows[j]>> \in R
  <2>1. rows[i] \in M /\ rows[j] \in M /\ rows[i] # rows[j]
    BY <1>8, <1>1, <1>11
  <2>2. ~(place[rows[j]] < place[rows[i]])
    BY <1>8, <1>1, <1>11
  <2> QED BY <2>1, <2>2, <1>3 DEF Orders
<1>12. DOMAIN rows = 1 .. n
  BY <1>9
<1> QED BY <1>10, <1>11, <1>12

-----------------------------------------------------------------------------
(* The three sorts.                                                        *)

LEMMA SizesNat ==
  /\ Precision \in Nat /\ Precision > 0 /\ PageSize \in Nat /\ PageSize > 0
  /\ \A s \in Submission : RatingOf[s] \in Nat /\ IdRank[s] \in Nat
  /\ \A s, q \in Submission : s # q => IdRank[s] # IdRank[q]
BY ReviewsAssumption

LEMMA FollowsBy ==
  ASSUME NEW s, NEW rating, NEW instant, NEW rank
  PROVE  /\ Follows(s, "newest", rating, instant, rank) <=> Older(s, instant, rank)
         /\ Follows(s, "highest", rating, instant, rank)
              <=> RatingOf[s] < rating \/ (RatingOf[s] = rating /\ Older(s, instant, rank))
         /\ Follows(s, "lowest", rating, instant, rank)
              <=> RatingOf[s] > rating \/ (RatingOf[s] = rating /\ Older(s, instant, rank))
<1>1. "newest" # "highest" /\ "newest" # "lowest" /\ "highest" # "lowest"
  OBVIOUS
<1> QED BY <1>1, Zenon DEF Follows

(* Instants are numbers. *)
Timed == \A s \in Submission : Stored(s) => review[s].created \in Nat

ComesIn(s, q) == Older(q, review[s].created, IdRank[s])

LEMMA OlderOrders ==
  ASSUME Timed, NEW s \in Submission, NEW q \in Submission, NEW p \in Submission,
         Stored(s), Stored(q), Stored(p)
  PROVE  /\ ~ComesIn(s, s)
         /\ ComesIn(s, q) /\ ComesIn(q, p) => ComesIn(s, p)
         /\ s # q => ComesIn(s, q) \/ ComesIn(q, s)
BY SizesNat DEF Timed, ComesIn, Older

(* ORDER BY puts any two reviews in an order. *)
LEMMA ComesOrders ==
  ASSUME Timed, NEW s \in Submission, NEW q \in Submission, NEW p \in Submission,
         Stored(s), Stored(q), Stored(p), NEW sort \in Sort
  PROVE  /\ ~Comes(s, s, sort)
         /\ Comes(s, q, sort) /\ Comes(q, p, sort) => Comes(s, p, sort)
         /\ s # q => Comes(s, q, sort) \/ Comes(q, s, sort)
<1>1. \A x, y : /\ Comes(x, y, "newest") <=> ComesIn(x, y)
                /\ Comes(x, y, "highest")
                     <=> RatingOf[y] < RatingOf[x] \/ (RatingOf[y] = RatingOf[x] /\ ComesIn(x, y))
                /\ Comes(x, y, "lowest")
                     <=> RatingOf[y] > RatingOf[x] \/ (RatingOf[y] = RatingOf[x] /\ ComesIn(x, y))
  BY FollowsBy DEF Comes, ComesIn
<1>2. CASE sort = "newest"
  BY <1>1, <1>2, OlderOrders
<1>3. CASE sort = "highest"
  BY <1>1, <1>3, OlderOrders, SizesNat
<1>4. CASE sort = "lowest"
  BY <1>1, <1>4, OlderOrders, SizesNat
<1> QED BY <1>2, <1>3, <1>4 DEF Sort

SameMillisecond(s, q) == review[q].created \div Precision = review[s].created \div Precision

LEMMA Truncation ==
  ASSUME NEW a \in Nat, NEW b \in Nat, NEW p \in Nat, p > 0
  PROVE  /\ (a \div p) * p \in Nat /\ (a \div p) * p <= a
         /\ b < a /\ b \div p # a \div p => b < (a \div p) * p
OBVIOUS

(* The rows after a cursor come after the row it was made from; those that  *)
(* come after that row and do not share its millisecond are among them.     *)
LEMMA PastCursor ==
  ASSUME Timed, NEW s \in Submission, NEW q \in Submission, Stored(s), Stored(q), NEW sort \in Sort
  PROVE  LET c == Cursor(s) IN
         /\ Follows(q, sort, c.rating, c.instant, c.rank) => Comes(s, q, sort)
         /\ Comes(s, q, sort) /\ ~SameMillisecond(s, q) =>
              Follows(q, sort, c.rating, c.instant, c.rank)
<1> DEFINE t == (review[s].created \div Precision) * Precision
<1>1. Cursor(s).rating = RatingOf[s] /\ Cursor(s).instant = t /\ Cursor(s).rank = IdRank[s]
  BY DEF Cursor
<1>2. /\ t \in Nat /\ t <= review[s].created
      /\ review[q].created < review[s].created /\ ~SameMillisecond(s, q) => review[q].created < t
      /\ review[q].created \in Nat /\ review[s].created \in Nat
  BY Truncation, SizesNat DEF Timed, SameMillisecond
<1>3. review[q].created = review[s].created => SameMillisecond(s, q)
  BY DEF SameMillisecond
<1> HIDE DEF t
<1>4. /\ Older(q, t, IdRank[s]) => Older(q, review[s].created, IdRank[s])
      /\ Older(q, review[s].created, IdRank[s]) /\ ~SameMillisecond(s, q) => Older(q, t, IdRank[s])
  BY <1>2, <1>3, SizesNat DEF Older
<1> SUFFICES /\ Follows(q, sort, RatingOf[s], t, IdRank[s]) => Comes(s, q, sort)
             /\ Comes(s, q, sort) /\ ~SameMillisecond(s, q) =>
                  Follows(q, sort, RatingOf[s], t, IdRank[s])
  BY <1>1
<1>5. CASE sort = "newest"
  BY <1>4, <1>5, FollowsBy DEF Comes
<1>6. CASE sort = "highest"
  BY <1>4, <1>6, FollowsBy DEF Comes
<1>7. CASE sort = "lowest"
  BY <1>4, <1>7, FollowsBy DEF Comes
<1> QED BY <1>5, <1>6, <1>7 DEF Sort

-----------------------------------------------------------------------------
(* A page of the list.                                                     *)

(* SELECT ... ORDER BY: the matching rows, each once, in order. *)
LEMMA RowsAre ==
  ASSUME Timed, NEW sort \in Sort, NEW c
  PROVE  /\ Rows(sort, c) \in Seq(Matching(sort, c))
         /\ Sorted(Rows(sort, c), sort)
         /\ \A s \in Matching(sort, c) : In(s, Rows(sort, c))
<1> DEFINE M == Matching(sort, c)
           R == {p \in M \X M : Comes(p[1], p[2], sort)}
<1>1. \A s \in M : s \in Submission /\ Stored(s)
  BY DEF Matching, Approved
<1>2. IsFiniteSet(M) /\ Cardinality(M) \in Nat
  BY <1>1, FS_Subset, FS_CardinalityType, ReviewsAssumption
<1>3. \A x, y \in M : <<x, y>> \in R <=> Comes(x, y, sort)
  OBVIOUS
<1> HIDE DEF M, R
<1>4. Orders(R, M)
  BY <1>1, <1>3, ComesOrders DEF Orders
<1>5. \E rows \in SetToSeqs(M) : \A i, j \in DOMAIN rows : i < j => <<rows[i], rows[j]>> \in R
  BY <1>2, <1>4, SortedExists
<1>6. \A rows \in SetToSeqs(M) : rows \in [1 .. Cardinality(M) -> M] /\ rows \in Seq(M)
  BY <1>2 DEF SetToSeqs
<1>7. \E rows \in SetToSeqs(M) : Sorted(rows, sort)
  BY <1>3, <1>5, <1>6 DEF Sorted
<1>8. Rows(sort, c) \in SetToSeqs(M) /\ Sorted(Rows(sort, c), sort)
  BY <1>7 DEF Rows, M, Sorted
<1>9. ASSUME NEW rows \in SetToSeqs(M), NEW s \in M PROVE In(s, rows)
  <2>1. /\ rows \in [1 .. Cardinality(M) -> M]
        /\ \A i, j \in 1 .. Cardinality(M) : i # j => rows[i] # rows[j]
    BY DEF SetToSeqs
  <2>2. rows \in Injection(1 .. Cardinality(M), M)
    BY <2>1 DEF Injection, IsInjective
  <2>3. Cardinality(1 .. Cardinality(M)) = Cardinality(M)
    BY <1>2, FS_Interval
  <2>4. rows \in Surjection(1 .. Cardinality(M), M)
    BY <1>2, <2>2, <2>3, FS_Injection
  <2> QED BY <2>1, <2>4 DEF Surjection, In
<1> QED BY <1>6, <1>8, <1>9 DEF M

LEMMA CursorIsSome ==
  ASSUME Timed, NEW s \in Submission, Stored(s)
  PROVE  Cursor(s) # NoCursor
<1>1. (review[s].created \div Precision) * Precision \in Nat
  BY Truncation, SizesNat DEF Timed
<1>2. Cursor(s) \in [rating : Nat, instant : Nat, rank : Nat]
  BY <1>1, SizesNat DEF Cursor
<1> QED BY <1>2, ReviewsAssumption

(* A page is the beginning of the rows, and its cursor was made from its    *)
(* last row when there are more.                                           *)
LEMMA PageIs ==
  ASSUME Timed, NEW sort \in Sort, NEW c
  PROVE  /\ Page(sort, c) \in Seq(Matching(sort, c))
         /\ Sorted(Page(sort, c), sort)
         /\ NextCursor(sort, c) = NoCursor => \A s \in Matching(sort, c) : In(s, Page(sort, c))
         /\ NextCursor(sort, c) # NoCursor =>
              /\ Page(sort, c) # << >> /\ NextCursor(sort, c) = Cursor(Last(Page(sort, c)))
              /\ \A s \in Matching(sort, c) :
                   In(s, Page(sort, c)) \/ Comes(Last(Page(sort, c)), s, sort)
<1> DEFINE M    == Matching(sort, c)
           rows == Rows(sort, c)
           n    == IF Len(rows) < PageSize THEN Len(rows) ELSE PageSize
           list == Page(sort, c)
<1>1. rows \in Seq(M) /\ Sorted(rows, sort) /\ \A s \in M : In(s, rows)
  BY RowsAre
<1>2. M \subseteq Submission /\ \A s \in M : Stored(s)
  BY DEF Matching, Approved
<1>3. list = SubSeq(rows, 1, n) /\ NextCursor(sort, c) = IF Len(rows) > PageSize THEN Cursor(Last(list)) ELSE NoCursor
  BY DEF Page, NextCursor
<1> HIDE DEF M, rows, list
<1>4. n \in Nat /\ n <= Len(rows) /\ (Len(rows) <= PageSize => n = Len(rows))
      /\ (Len(rows) > PageSize => n > 0)
  BY <1>1, SizesNat
<1> HIDE DEF n
<1>5. list \in Seq(M) /\ Len(list) = n /\ \A i \in 1 .. n : list[i] = rows[i]
  BY <1>1, <1>3, <1>4
<1>6. Sorted(list, sort)
  BY <1>1, <1>4, <1>5 DEF Sorted
<1>7. ASSUME NextCursor(sort, c) = NoCursor PROVE \A s \in M : In(s, list)
  <2>1. Len(rows) <= PageSize
    <3> SUFFICES ASSUME ~(Len(rows) <= PageSize) PROVE FALSE
      OBVIOUS
    <3>1. Len(rows) > PageSize
      BY <1>1, SizesNat
    <3>2. Last(list) \in Submission /\ Stored(Last(list))
      BY <1>2, <1>4, <1>5, <3>1 DEF Last
    <3> QED BY <3>1, <3>2, <1>3, <1>7, CursorIsSome
  <2> QED BY <2>1, <1>1, <1>4, <1>5 DEF In
<1>8. ASSUME NextCursor(sort, c) # NoCursor
      PROVE  /\ list # << >> /\ NextCursor(sort, c) = Cursor(Last(list))
             /\ \A s \in M : In(s, list) \/ Comes(Last(list), s, sort)
  <2>1. Len(rows) > PageSize /\ n > 0
    BY <1>1, <1>3, <1>4, <1>8, SizesNat
  <2>2. Last(list) = rows[n]
    BY <1>4, <1>5, <2>1 DEF Last
  <2>3. ASSUME NEW s \in M PROVE In(s, list) \/ Comes(Last(list), s, sort)
    <3>1. PICK i \in DOMAIN rows : rows[i] = s
      BY <1>1 DEF In
    <3>2. CASE i <= n
      <4>1. i \in 1 .. n
        BY <1>1, <1>4, <3>1, <3>2
      <4>2. DOMAIN list = 1 .. n
        BY <1>5
      <4> QED BY <4>1, <4>2, <1>5, <3>1 DEF In
    <3>3. CASE n < i
      BY <1>1, <1>4, <2>1, <2>2, <3>1, <3>3 DEF Sorted
    <3> QED BY <1>1, <1>4, <3>2, <3>3
  <2>4. list # << >>
    BY <1>5, <2>1, <1>4
  <2>5. NextCursor(sort, c) = Cursor(Last(list))
    BY <1>3, <2>1
  <2> QED BY <2>3, <2>4, <2>5
<1> QED BY <1>5, <1>6, <1>7, <1>8 DEF M, list

-----------------------------------------------------------------------------
(* What every step keeps of the rows and of a list.                        *)

\* A row that is stored keeps its instant; a row that comes is new.
RowsKept ==
  \A s \in Submission : Stored(s) => Stored(s)' /\ review'[s].created = review[s].created

LEMMA TypesTimed ==
  ASSUME TypeOK
  PROVE  Timed
BY DEF TypeOK, Timed, Stored

LEMMA ComesKept ==
  ASSUME NEW s, NEW q, NEW sort,
         review'[s].created = review[s].created, review'[q].created = review[q].created
  PROVE  Comes(s, q, sort)' <=> Comes(s, q, sort)
BY DEF Comes, Follows, Older

LEMMA CursorKept ==
  ASSUME NEW s, review'[s].created = review[s].created
  PROVE  Cursor(s)' = Cursor(s)
BY DEF Cursor

LEMMA AloneKept ==
  ASSUME RowsKept, NEW s \in Submission, Stored(s), Alone(s)'
  PROVE  Alone(s)
BY DEF RowsKept, Alone

(* A list that is exact stays so, whatever is stored and decided. *)
LEMMA ListKept ==
  ASSUME RowsKept, NEW p \in PageState, ExactList(p),
         \A i \in DOMAIN p.list : Stored(p.list[i]), \A s \in p.steady : Stored(s)
  PROVE  ExactList(p)'
<1> SUFFICES ASSUME p.status = "ready", ~p.disturbed
             PROVE  /\ Sorted(p.list, p.sort)'
                    /\ p.next = NoCursor => \A s \in p.steady : Alone(s)' => In(s, p.list)
                    /\ p.next # NoCursor =>
                         /\ p.list # << >> /\ p.next = Cursor(Last(p.list))'
                         /\ \A s \in p.steady : Alone(s)' =>
                              In(s, p.list) \/ Comes(Last(p.list), s, p.sort)'
  BY DEF ExactList, In
<1>1. /\ p.list \in Seq(Submission) /\ p.steady \subseteq Submission
      /\ \A i \in DOMAIN p.list : p.list[i] \in Submission
  BY DEF PageState
<1>2. \A s \in p.steady : Alone(s)' => Alone(s)
  BY <1>1, AloneKept
<1>3. \A s \in p.steady : review'[s].created = review[s].created
  BY <1>1 DEF RowsKept
<1>4. \A i \in DOMAIN p.list : review'[p.list[i]].created = review[p.list[i]].created
  BY <1>1 DEF RowsKept
<1>5. Sorted(p.list, p.sort)'
  BY <1>4, ComesKept DEF ExactList, Sorted
<1>6. ASSUME p.next = NoCursor, NEW s \in p.steady, Alone(s)' PROVE In(s, p.list)
  BY <1>2, <1>6 DEF ExactList
<1>7. ASSUME p.next # NoCursor
      PROVE  /\ p.list # << >> /\ p.next = Cursor(Last(p.list))'
             /\ \A s \in p.steady : Alone(s)' =>
                  In(s, p.list) \/ Comes(Last(p.list), s, p.sort)'
  <2>1. p.list # << >> /\ p.next = Cursor(Last(p.list))
    BY <1>7 DEF ExactList
  <2>2. review'[Last(p.list)].created = review[Last(p.list)].created
    BY <1>1, <1>4, <2>1 DEF Last
  <2>3. p.next = Cursor(Last(p.list))'
    BY <2>1, <2>2, CursorKept
  <2>4. ASSUME NEW s \in p.steady, Alone(s)' PROVE In(s, p.list) \/ Comes(Last(p.list), s, p.sort)'
    <3>1. In(s, p.list) \/ Comes(Last(p.list), s, p.sort)
      BY <1>2, <1>7, <2>4 DEF ExactList
    <3> QED BY <3>1, <1>3, <2>2, ComesKept
  <2> QED BY <2>1, <2>3, <2>4
<1> QED BY <1>5, <1>6, <1>7

-----------------------------------------------------------------------------
(* An answer is added to the list it belongs to.                           *)

LEMMA InEither ==
  ASSUME NEW S, NEW one \in Seq(S), NEW two \in Seq(S), NEW s, In(s, one) \/ In(s, two)
  PROVE  In(s, one \o two)
<1>1. CASE In(s, one)
  <2>1. PICK i \in 1 .. Len(one) : one[i] = s
    BY <1>1 DEF In
  <2>2. i \in 1 .. Len(one \o two) /\ (one \o two)[i] = s
    BY <2>1
  <2> QED BY <2>2 DEF In
<1>2. CASE In(s, two)
  <2>1. PICK i \in 1 .. Len(two) : two[i] = s
    BY <1>2 DEF In
  <2>2. Len(one) + i \in 1 .. Len(one \o two) /\ (one \o two)[Len(one) + i] = s
    BY <2>1
  <2> QED BY <2>2 DEF In
<1> QED BY <1>1, <1>2

(* Two sorted lists, the second after the last of the first. *)
LEMMA SortedBoth ==
  ASSUME Timed, NEW sort \in Sort, NEW one \in Seq(Submission), NEW two \in Seq(Submission),
         \A i \in DOMAIN one : Stored(one[i]), \A i \in DOMAIN two : Stored(two[i]),
         Sorted(one, sort), Sorted(two, sort), one # << >>,
         \A i \in DOMAIN two : Comes(Last(one), two[i], sort)
  PROVE  Sorted(one \o two, sort)
<1> SUFFICES ASSUME NEW i \in DOMAIN (one \o two), NEW j \in DOMAIN (one \o two), i < j
             PROVE  Comes((one \o two)[i], (one \o two)[j], sort)
  BY DEF Sorted
<1>1. /\ i \in 1 .. Len(one) + Len(two) /\ j \in 1 .. Len(one) + Len(two)
      /\ Len(one) \in Nat /\ Len(two) \in Nat /\ Len(one) > 0
  OBVIOUS
<1>2. \A k \in 1 .. Len(one) : k \in DOMAIN one /\ (one \o two)[k] = one[k] /\ one[k] \in Submission
  OBVIOUS
<1>3. \A k \in Len(one) + 1 .. Len(one) + Len(two) :
        /\ (one \o two)[k] = two[k - Len(one)] /\ two[k - Len(one)] \in Submission
        /\ k - Len(one) \in DOMAIN two
  OBVIOUS
<1>4. CASE j <= Len(one)
  BY <1>1, <1>2, <1>4 DEF Sorted
<1>5. CASE Len(one) < i
  <2>1. i - Len(one) < j - Len(one)
    BY <1>1
  <2> QED BY <2>1, <1>1, <1>3, <1>5 DEF Sorted
<1>6. CASE i <= Len(one) /\ Len(one) < j
  <2> DEFINE k == j - Len(one)
  <2>1. k \in DOMAIN two /\ (one \o two)[j] = two[k] /\ two[k] \in Submission
    BY <1>1, <1>3, <1>6
  <2>2. i \in DOMAIN one /\ (one \o two)[i] = one[i] /\ one[i] \in Submission
    BY <1>1, <1>2, <1>6
  <2>3. Last(one) \in Submission /\ Stored(Last(one)) /\ Last(one) = one[Len(one)] /\ Len(one) \in DOMAIN one
    BY <1>1, <1>2 DEF Last
  <2> HIDE DEF k
  <2>4. i = Len(one) \/ Comes(one[i], Last(one), sort)
    BY <1>1, <1>6, <2>2, <2>3 DEF Sorted
  <2>5. Comes(Last(one), two[k], sort)
    BY <2>1
  <2> QED BY <2>1, <2>2, <2>3, <2>4, <2>5, ComesOrders
<1> QED BY <1>1, <1>4, <1>5, <1>6

LEMMA Appended ==
  ASSUME TypeOK, Columns, Listed, ExactList(page), Asking(page, asked),
         NEW a \in asked, a.round = page.round, a.reset \/ ~page.disturbed,
         NEW p, p.list = Shown(a) \o Page(a.sort, a.cursor), p.next = NextCursor(a.sort, a.cursor),
         p.steady = page.steady, p.sort = page.sort
  PROVE  ExactList(p)
<1> DEFINE sort == page.sort
           more == Page(sort, a.cursor)
           next == NextCursor(sort, a.cursor)
<1>1. a.sort = sort
  BY DEF Asking
<1>2. sort \in Sort /\ page.list \in Seq(Submission) /\ page.steady \subseteq Approved
  BY DEF Columns, PageState, Listed
<1>3. Timed
  BY TypesTimed
<1>4. /\ more \in Seq(Matching(sort, a.cursor)) /\ Sorted(more, sort)
      /\ next = NoCursor => \A s \in Matching(sort, a.cursor) : In(s, more)
      /\ next # NoCursor =>
           /\ more # << >> /\ next = Cursor(Last(more))
           /\ \A s \in Matching(sort, a.cursor) : In(s, more) \/ Comes(Last(more), s, sort)
  BY <1>2, <1>3, PageIs
<1>5. p.list = Shown(a) \o more /\ p.next = next
  BY <1>1
<1> HIDE DEF sort, more, next
<1>6. CASE a.reset
  <2>1. a.cursor = NoCursor
    BY <1>6 DEF Asking
  <2>2. Matching(sort, a.cursor) = Approved
    BY <2>1 DEF Matching
  <2>3. p.list = more
    <3>1. p.list = << >> \o more
      BY <1>5, <1>6 DEF Shown
    <3>2. << >> \o more = more
      BY <1>4
    <3> QED BY <3>1, <3>2
  <2> QED BY <1>2, <1>4, <1>5, <2>2, <2>3 DEF ExactList, sort
<1>7. CASE ~a.reset
  <2> DEFINE list == page.list
             l    == Last(list)
  <2>1. ~page.disturbed /\ page.status = "ready" /\ a.cursor = page.next /\ page.next # NoCursor
    BY <1>7 DEF Asking
  <2>2. /\ Sorted(list, sort) /\ list # << >> /\ a.cursor = Cursor(l)
        /\ \A s \in page.steady : Alone(s) => In(s, list) \/ Comes(l, s, sort)
    BY <2>1 DEF ExactList, sort
  <2>3. l \in Submission /\ Stored(l)
    BY <1>2, <2>2 DEF Last, Listed
  <2>4. p.list = list \o more
    BY <1>5, <1>7 DEF Shown
  <2> HIDE DEF list, l
  <2>5. \A s \in Matching(sort, a.cursor) : s \in Submission /\ Stored(s) /\ Comes(l, s, sort)
    <3> SUFFICES ASSUME NEW s \in Matching(sort, a.cursor)
                 PROVE  s \in Submission /\ Stored(s) /\ Comes(l, s, sort)
      OBVIOUS
    <3>1. s \in Submission /\ Stored(s)
      BY DEF Matching, Approved
    <3>2. Follows(s, sort, Cursor(l).rating, Cursor(l).instant, Cursor(l).rank)
      BY <2>1, <2>2 DEF Matching
    <3> QED BY <1>2, <1>3, <2>3, <3>1, <3>2, PastCursor DEF sort
  <2>6. ASSUME NEW s \in page.steady, Alone(s) PROVE In(s, list) \/ s \in Matching(sort, a.cursor)
    <3> SUFFICES ASSUME Comes(l, s, sort) PROVE s \in Matching(sort, a.cursor)
      BY <2>2, <2>6
    <3>1. s \in Approved /\ s \in Submission /\ Stored(s)
      BY <1>2 DEF Approved
    <3>2. s # l
      BY <1>2, <1>3, <2>3, ComesOrders DEF sort
    <3>3. ~SameMillisecond(l, s)
      BY <2>3, <2>6, <3>1, <3>2 DEF Alone, SameMillisecond
    <3>4. Follows(s, sort, Cursor(l).rating, Cursor(l).instant, Cursor(l).rank)
      BY <1>2, <1>3, <2>3, <3>1, <3>3, PastCursor DEF sort
    <3> QED BY <2>2, <3>1, <3>4 DEF Matching
  <2>7. more \in Seq(Submission) /\ list \in Seq(Submission)
        /\ \A i \in DOMAIN more : more[i] \in Matching(sort, a.cursor)
    BY <1>2, <1>4, <2>5 DEF list
  <2>8. Sorted(p.list, sort)
    <3>1. \A i \in DOMAIN list : Stored(list[i])
      BY DEF list, Listed
    <3>2. \A i \in DOMAIN more : Stored(more[i]) /\ Comes(Last(list), more[i], sort)
      BY <2>5, <2>7 DEF l
    <3> QED BY <1>2, <1>3, <1>4, <2>2, <2>4, <2>7, <3>1, <3>2, SortedBoth DEF sort
  <2>9. ASSUME next = NoCursor, NEW s \in page.steady, Alone(s) PROVE In(s, p.list)
    <3>1. In(s, list) \/ In(s, more)
      BY <1>4, <2>6, <2>9
    <3> QED BY <2>4, <2>7, <3>1, InEither
  <2>10. ASSUME next # NoCursor
         PROVE  /\ p.list # << >> /\ next = Cursor(Last(p.list))
                /\ \A s \in page.steady : Alone(s) => In(s, p.list) \/ Comes(Last(p.list), s, sort)
    <3>1. more # << >> /\ next = Cursor(Last(more))
          /\ \A s \in Matching(sort, a.cursor) : In(s, more) \/ Comes(Last(more), s, sort)
      BY <1>4, <2>10
    <3>2. p.list # << >> /\ Last(p.list) = Last(more)
      BY <2>4, <2>7, <3>1 DEF Last
    <3>3. ASSUME NEW s \in page.steady, Alone(s) PROVE In(s, p.list) \/ Comes(Last(p.list), s, sort)
      <4>1. In(s, list) \/ In(s, more) \/ Comes(Last(more), s, sort)
        BY <2>6, <3>1, <3>3
      <4> QED BY <2>4, <2>7, <3>2, <4>1, InEither
    <3> QED BY <3>1, <3>2, <3>3
  <2> QED BY <1>5, <2>8, <2>9, <2>10 DEF ExactList, sort
<1> QED BY <1>6, <1>7

-----------------------------------------------------------------------------
(* The steps of the page.                                                  *)

LEMMA PageStep ==
  ASSUME IInv, UNCHANGED <<received, clock, call, review, audit, desk>>,
         NEW p, p = page', p \in PageState, NEW calls, calls = asked', calls \subseteq Asks,
         \A i \in DOMAIN p.list : Stored(p.list[i]), p.steady \subseteq Approved,
         ExactList(p), Asking(p, calls)
  PROVE  IInv'
<1>1. RowsKept
  BY DEF RowsKept, Stored
<1>2. ExactList(p)'
  BY <1>1, ListKept DEF Approved
<1>3. ExactList(page)' /\ Asking(page, asked)'
  BY <1>2 DEF ExactList, Asking
<1>4. TypeOK'
  BY DEF IInv, TypeOK, PageState, Stored, Live
<1>5. Columns' /\ Told' /\ Listed'
  BY DEF IInv, Columns, Told, Listed, Stored, Approved
<1> QED BY <1>3, <1>4, <1>5 DEF IInv

LEMMA RestartHolds ==
  ASSUME IInv, NEW sort \in Sort, Restart(sort)
  PROVE  IInv'
<1> PICK p : p = page'
  OBVIOUS
<1> PICK calls : calls = asked'
  OBVIOUS
<1> DEFINE a == [number |-> page.asks + 1, reset |-> TRUE, sort |-> sort,
                 cursor |-> NoCursor, round |-> page.round + 1]
<1>1. page \in PageState /\ asked \subseteq Asks
  BY DEF IInv, Columns
<1> HIDE DEF a
<1>2. /\ p.status = "loading" /\ p.sort = sort /\ p.list = << >> /\ p.round = page.round + 1
      /\ p.steady = Approved /\ p.disturbed = FALSE /\ p \in PageState
  <2>1. p = [page EXCEPT !.status = "loading", !.sort = sort, !.list = << >>,
                         !.next = NoCursor, !.round = @ + 1, !.asks = @ + 1,
                         !.steady = Approved, !.disturbed = FALSE]
    BY DEF Restart
  <2>2. Approved \in SUBSET Submission /\ << >> \in Seq(Submission)
    BY DEF Approved
  <2>3. page.round + 1 \in Nat /\ page.asks + 1 \in Nat
    BY <1>1 DEF PageState
  <2>4. p \in PageState
    BY <1>1, <2>1, <2>2, <2>3 DEF PageState
  <2> QED BY <1>1, <2>1, <2>4 DEF PageState
<1>3. calls = asked \cup {a} /\ a \in Asks
  BY <1>1 DEF Restart, Ask, Asks, PageState, a
<1>4. ExactList(p)
  BY <1>2 DEF ExactList
<1>5. Asking(p, calls)
  <2>1. \A b \in asked : b.round \in Nat /\ b.round <= page.round
    BY <1>1 DEF IInv, Asking, Asks
  <2>2. page.round \in Nat /\ p.round > 0 /\ \A b \in asked : b.round < p.round
    BY <1>1, <1>2, <2>1 DEF PageState
  <2>3. a.round = p.round /\ a.reset /\ a.sort = p.sort /\ a.cursor = NoCursor
    BY <1>2 DEF a
  <2> QED BY <1>2, <1>3, <2>1, <2>2, <2>3 DEF Asking
<1>6. /\ \A i \in DOMAIN p.list : Stored(p.list[i])
      /\ p.steady \subseteq Approved /\ calls \subseteq Asks
  BY <1>1, <1>2, <1>3
<1>7. UNCHANGED <<received, clock, call, review, audit, desk>>
  BY DEF Restart
<1> QED BY <1>2, <1>4, <1>5, <1>6, <1>7, PageStep

LEMMA MoreHolds ==
  ASSUME IInv, More
  PROVE  IInv'
<1> PICK p : p = page'
  OBVIOUS
<1> PICK calls : calls = asked'
  OBVIOUS
<1> DEFINE a == [number |-> page.asks + 1, reset |-> FALSE, sort |-> page.sort,
                 cursor |-> page.next, round |-> IF page.disturbed THEN 0 ELSE page.round]
<1>1. page \in PageState /\ asked \subseteq Asks /\ page.status = "ready" /\ page.next # NoCursor
      /\ ~page.loadingMore
  BY DEF IInv, Columns, More
<1> HIDE DEF a
<1>2. /\ p.status = "ready" /\ p.sort = page.sort /\ p.list = page.list /\ p.round = page.round
      /\ p.steady = page.steady /\ p.disturbed = page.disturbed /\ p.next = page.next
      /\ p.loadingMore /\ p \in PageState
  <2>1. p = [page EXCEPT !.loadingMore = TRUE, !.asks = @ + 1]
    BY DEF More
  <2>2. page.asks + 1 \in Nat
    BY <1>1 DEF PageState
  <2>3. p \in PageState
    BY <1>1, <2>1, <2>2 DEF PageState
  <2> QED BY <1>1, <2>1, <2>3 DEF PageState
<1>3. calls = asked \cup {a} /\ a \in Asks
  BY <1>1 DEF More, Ask, Asks, PageState, a
<1>4. ExactList(p)
  BY <1>1, <1>2 DEF ExactList, IInv
<1>5. Asking(p, calls)
  <2>1. page.round \in Nat /\ page.round > 0
    BY <1>1 DEF IInv, Asking, PageState
  <2>2. /\ a.round <= page.round /\ ~a.reset /\ a.sort = page.sort /\ a.cursor = page.next
        /\ a.round = page.round => ~page.disturbed
    BY <2>1 DEF a
  <2>3. ASSUME a.round = page.round PROVE \A b \in asked : b.round # page.round
    BY <1>1, <2>2, <2>3 DEF IInv, Asking
  <2> QED BY <1>1, <1>2, <1>3, <2>1, <2>2, <2>3 DEF Asking, IInv
<1>6. (\A i \in DOMAIN p.list : Stored(p.list[i])) /\ p.steady \subseteq Approved
  BY <1>2 DEF IInv, Listed
<1> QED BY <1>1, <1>2, <1>3, <1>4, <1>5, <1>6, PageStep DEF More

LEMMA NextTyped ==
  ASSUME Timed, NEW sort \in Sort, NEW c
  PROVE  NextCursor(sort, c) \in Cursors \cup {NoCursor}
<1> SUFFICES ASSUME NextCursor(sort, c) # NoCursor PROVE NextCursor(sort, c) \in Cursors
  OBVIOUS
<1> DEFINE list == Page(sort, c)
<1>1. list \in Seq(Matching(sort, c)) /\ list # << >> /\ NextCursor(sort, c) = Cursor(Last(list))
  BY PageIs
<1>2. \A s \in Matching(sort, c) : s \in Submission /\ Stored(s)
  BY DEF Matching, Approved
<1>3. Last(list) \in Submission /\ Stored(Last(list))
  BY <1>1, <1>2 DEF Last
<1>4. (review[Last(list)].created \div Precision) * Precision \in Nat
  BY <1>3, Truncation, SizesNat DEF Timed
<1> QED BY <1>1, <1>3, <1>4, SizesNat DEF Cursor, Cursors

LEMMA ShowHolds ==
  ASSUME IInv, NEW a \in asked, Show(a)
  PROVE  IInv'
<1> PICK p : p = page'
  OBVIOUS
<1> PICK calls : calls = asked'
  OBVIOUS
<1> DEFINE more == Page(a.sort, a.cursor)
<1>1. page \in PageState /\ asked \subseteq Asks /\ a.sort \in Sort /\ a.round \in Nat /\ a.reset \in BOOLEAN
  BY DEF IInv, Columns, Asks
<1>2. Timed
  BY TypesTimed DEF IInv
<1>3. more \in Seq(Submission) /\ \A i \in DOMAIN more : Stored(more[i])
  <2>1. more \in Seq(Matching(a.sort, a.cursor))
    BY <1>1, <1>2, PageIs
  <2>2. \A s \in Matching(a.sort, a.cursor) : s \in Submission /\ Stored(s)
    BY DEF Matching, Approved
  <2> QED BY <2>1, <2>2
<1>4. Shown(a) \in Seq(Submission) /\ \A i \in DOMAIN Shown(a) : Stored(Shown(a)[i])
  BY <1>1 DEF Shown, IInv, Listed, PageState
<1> DEFINE list == Shown(a) \o more
<1>5. list \in Seq(Submission) /\ \A i \in DOMAIN list : Stored(list[i])
  BY <1>3, <1>4
<1>6. NextCursor(a.sort, a.cursor) \in Cursors \cup {NoCursor}
  BY <1>1, <1>2, NextTyped
<1>7. /\ p.status = "ready" /\ p.sort = page.sort /\ p.list = list /\ p.round = page.round
      /\ p.next = NextCursor(a.sort, a.cursor) /\ p.steady = page.steady
      /\ p.disturbed = (a.round # page.round \/ (~a.reset /\ page.disturbed))
      /\ p \in PageState
  BY <1>1, <1>5, <1>6 DEF Show, PageState
<1>8. calls = asked \ {a}
  BY DEF Show
<1> HIDE DEF list, more
<1>9. ExactList(p)
  <2>1. CASE a.round = page.round /\ (a.reset \/ ~page.disturbed)
    BY <1>7, <2>1, Appended DEF IInv, list, more
  <2>2. CASE ~(a.round = page.round /\ (a.reset \/ ~page.disturbed))
    BY <1>7, <2>2 DEF ExactList
  <2> QED BY <2>1, <2>2
<1>10. Asking(p, calls)
  <2>1. Asking(page, asked)
    BY DEF IInv
  <2>2. \A b \in calls : b \in asked /\ b # a
    BY <1>8
  <2>3. CASE a.round = page.round
    <3>1. \A b \in calls : b.round # page.round
      BY <2>1, <2>2, <2>3 DEF Asking
    <3> QED BY <1>7, <2>1, <2>2, <3>1 DEF Asking
  <2>4. CASE a.round # page.round
    <3>1. p.disturbed
      BY <1>7, <2>4
    <3>2. p.status = "ready" /\ p.round = page.round /\ p.sort = page.sort
      BY <1>7
    <3> QED BY <2>1, <2>2, <3>1, <3>2 DEF Asking
  <2> QED BY <2>3, <2>4
<1>11. (\A i \in DOMAIN p.list : Stored(p.list[i])) /\ p.steady \subseteq Approved
  BY <1>5, <1>7 DEF IInv, Listed
<1> QED BY <1>1, <1>7, <1>8, <1>9, <1>10, <1>11, PageStep DEF Show

LEMMA LoseHolds ==
  ASSUME IInv, NEW a \in asked, Lose(a)
  PROVE  IInv'
<1> PICK p : p = page'
  OBVIOUS
<1> PICK calls : calls = asked'
  OBVIOUS
<1>1. page \in PageState /\ asked \subseteq Asks /\ a.round \in Nat /\ a.reset \in BOOLEAN
  BY DEF IInv, Columns, Asks
<1>2. /\ p.status = (IF a.reset THEN "unavailable" ELSE page.status) /\ p.sort = page.sort
      /\ p.list = page.list /\ p.round = page.round /\ p.next = page.next /\ p.steady = page.steady
      /\ p.disturbed = (page.disturbed \/ a.round # page.round) /\ p \in PageState
  BY <1>1 DEF Lose, PageState
<1>3. calls = asked \ {a}
  BY DEF Lose
<1>4. ExactList(p)
  BY <1>2 DEF ExactList, IInv
<1>5. Asking(p, calls)
  <2>1. Asking(page, asked)
    BY DEF IInv
  <2>2. \A b \in calls : b \in asked /\ b # a
    BY <1>3
  <2>3. p.status # "idle" => page.round > 0
    BY <1>2, <2>1 DEF Asking
  <2>4. CASE a.round = page.round
    <3>1. \A b \in calls : b.round # page.round
      BY <2>1, <2>2, <2>4 DEF Asking
    <3> QED BY <1>2, <2>1, <2>2, <2>3, <3>1 DEF Asking
  <2>5. CASE a.round # page.round
    <3>1. p.disturbed
      BY <1>2, <2>5
    <3>2. p.round = page.round /\ p.sort = page.sort
      BY <1>2
    <3> QED BY <2>1, <2>2, <2>3, <3>1, <3>2 DEF Asking
  <2> QED BY <2>4, <2>5
<1>6. (\A i \in DOMAIN p.list : Stored(p.list[i])) /\ p.steady \subseteq Approved
  BY <1>2 DEF IInv, Listed
<1> QED BY <1>1, <1>2, <1>3, <1>4, <1>5, <1>6, PageStep DEF Lose

-----------------------------------------------------------------------------
(* The steps of customers and moderators.                                  *)

Call    == [at : {"new", "looked", "done"}, line : Line \cup {NoLine}]
Row     == [status : Status, created : Nat, line : Line \cup {NoLine}]

\* Two rows respect the unique indexes of 0008.
Distinct(s, q) ==
  /\ KeyOf[s] # KeyOf[q]
  /\ Live(s) /\ Live(q) =>
       /\ TextOf[s] # TextOf[q]
       /\ review[s].line = review[q].line => review[s].line = NoLine

LEMMA Types ==
  ASSUME TypeOK
  PROVE  /\ clock \in Nat /\ call \in [Submission -> Call] /\ review \in [Submission -> {NoReview} \cup Row]
         /\ \A s \in Submission : Stored(s) => review[s] \in Row /\ review[s].created <= clock
         /\ desk \in [Moderator -> {Idle} \cup Decision]
         /\ \A s, q \in Submission : s # q /\ Stored(s) /\ Stored(q) => Distinct(s, q)
         /\ NoReview \notin Row /\ Idle \notin Decision
<1>1. ASSUME NEW s \in Submission, Stored(s) PROVE review[s] \in Row /\ review[s].created <= clock
  <2>1. review[s] \in [status : Status, created : 0 .. clock, line : Line \cup {NoLine}]
    BY <1>1 DEF TypeOK, Stored
  <2> QED BY <2>1 DEF TypeOK, Row
<1>2. review \in [Submission -> {NoReview} \cup Row]
  BY <1>1 DEF TypeOK, Stored
<1>3. \A s, q \in Submission : s # q /\ Stored(s) /\ Stored(q) => Distinct(s, q)
  BY DEF TypeOK, Distinct
<1> QED BY <1>1, <1>2, <1>3, ReviewsAssumption DEF TypeOK, Call, Decision, Row

LEMMA TypesAfter ==
  ASSUME received' \subseteq Line, clock' \in Nat, call' \in [Submission -> Call],
         review' \in [Submission -> {NoReview} \cup Row], desk' \in [Moderator -> {Idle} \cup Decision],
         \A s \in Submission : Stored(s)' => review'[s].created <= clock',
         \A s, q \in Submission : s # q /\ Stored(s)' /\ Stored(q)' => Distinct(s, q)',
         page' \in PageState
  PROVE  TypeOK'
<1>1. ASSUME NEW s \in Submission
      PROVE  review'[s] \in {NoReview} \cup [status : Status, created : 0 .. clock', line : Line \cup {NoLine}]
  <2>1. CASE review'[s] = NoReview
    BY <2>1
  <2>2. CASE review'[s] # NoReview
    <3>1. review'[s] \in Row /\ review'[s].created <= clock'
      BY <2>2 DEF Stored
    <3> QED BY <3>1 DEF Row
  <2> QED BY <2>1, <2>2
<1>2. review' \in [Submission -> {NoReview} \cup [status : Status, created : 0 .. clock', line : Line \cup {NoLine}]]
  BY <1>1
<1>3. /\ page'.status \in {"idle", "loading", "ready", "unavailable"} /\ page'.sort \in Sort
      /\ page'.list \in Seq(Submission)
  BY DEF PageState
<1> QED BY <1>2, <1>3 DEF TypeOK, Call, Decision, Distinct

(* The list of now belongs to the same rows. *)
LEMMA ListsKept ==
  ASSUME IInv, RowsKept, asked' = asked, NEW p, p = page', p \in PageState,
         p.status = page.status, p.sort = page.sort, p.list = page.list, p.next = page.next,
         p.loadingMore = page.loadingMore, p.round = page.round, p.disturbed = page.disturbed,
         p.steady \subseteq page.steady, p.steady \subseteq Approved'
  PROVE  Listed' /\ ExactList(page)' /\ Asking(page, asked)'
<1>1. page \in PageState
  BY DEF IInv, Columns
<1>2. ExactList(p)
  BY DEF IInv, ExactList
<1>3. (\A i \in DOMAIN p.list : Stored(p.list[i])) /\ \A s \in p.steady : Stored(s)
  BY DEF IInv, Listed, Approved
<1>4. ExactList(page)'
  <2>1. ExactList(p)'
    BY <1>2, <1>3, ListKept
  <2> QED BY <2>1 DEF ExactList
<1>5. Listed'
  <2>1. \A i \in DOMAIN p.list : Stored(p.list[i])'
    BY <1>1, <1>3 DEF RowsKept, PageState
  <2> QED BY <2>1 DEF Listed
<1>6. Asking(page, asked)'
  BY DEF IInv, Asking
<1> QED BY <1>4, <1>5, <1>6

(* No row is written. *)
LEMMA RowsSame ==
  ASSUME IInv, UNCHANGED <<clock, review, audit, page, asked>>,
         received' \subseteq Line, call' \in [Submission -> Call],
         desk' \in [Moderator -> {Idle} \cup Decision],
         \A m \in Moderator : desk'[m] # Idle => Stored(desk'[m].review) /\ desk'[m].to # "pending"
  PROVE  IInv'
<1>1. RowsKept
  BY DEF RowsKept, Stored
<1>2. page \in PageState /\ page.steady \subseteq Approved'
  BY DEF IInv, Columns, Listed, Approved, Stored
<1>3. Listed' /\ ExactList(page)' /\ Asking(page, asked)'
  BY <1>1, <1>2, ListsKept
<1>4. TypeOK'
  <2>1. \A s, q \in Submission : Distinct(s, q)' <=> Distinct(s, q)
    BY DEF Distinct, Live, Stored
  <2>2. \A s \in Submission : Stored(s)' <=> Stored(s)
    BY DEF Stored
  <2>3. TypeOK
    BY DEF IInv
  <2> QED BY <1>2, <2>1, <2>2, <2>3, Types, TypesAfter
<1>5. Columns' /\ Told'
  BY DEF IInv, Columns, Told, Stored
<1> QED BY <1>3, <1>4, <1>5 DEF IInv

LEMMA LookHolds ==
  ASSUME IInv, NEW s \in Submission, Look(s)
  PROVE  IInv'
<1>1. call \in [Submission -> Call]
  BY Types DEF IInv
<1>2. call' \in [Submission -> Call]
  BY <1>1, ReviewsAssumption DEF Look, At, Call
<1> QED BY <1>2, RowsSame, Types DEF Look, IInv, TypeOK, Columns

LEMMA MoveOrderHolds ==
  ASSUME IInv, NEW l \in Line, MoveOrder(l)
  PROVE  IInv'
<1>1. received' \subseteq Line
  BY DEF MoveOrder, IInv, TypeOK
<1> QED BY <1>1, RowsSame, Types DEF MoveOrder, IInv, Columns

LEMMA ReadHolds ==
  ASSUME IInv, NEW m \in Moderator, Read(m)
  PROVE  IInv'
<1>1. desk \in [Moderator -> {Idle} \cup Decision] /\ received \subseteq Line
  BY Types DEF IInv, TypeOK
<1>2. PICK s \in Submission, to \in Status :
        /\ Stored(s) /\ MayBecome(review[s].status, to)
        /\ desk' = [desk EXCEPT ![m] = [review |-> s, from |-> review[s].status, to |-> to]]
  BY DEF Read
<1> DEFINE d == [review |-> s, from |-> review[s].status, to |-> to]
<1>3. d \in Decision /\ Stored(d.review) /\ d.to # "pending"
  BY <1>2, Types DEF IInv, Decision, Row, MayBecome
<1>4. desk' = [desk EXCEPT ![m] = d]
  BY <1>2
<1> HIDE DEF d
<1>5. /\ desk' \in [Moderator -> {Idle} \cup Decision]
      /\ \A n \in Moderator : desk'[n] # Idle => Stored(desk'[n].review) /\ desk'[n].to # "pending"
  BY <1>1, <1>3, <1>4 DEF IInv, Columns
<1> QED BY <1>1, <1>5, RowsSame, Types DEF Read, IInv

(* A review is stored. *)
LEMMA StoredHolds ==
  ASSUME IInv, NEW s \in Submission, Store(s), review' # review
  PROVE  IInv'
<1> DEFINE line == call[s].line
<1>1. /\ clock \in Nat /\ call \in [Submission -> Call] /\ review \in [Submission -> {NoReview} \cup Row]
      /\ desk \in [Moderator -> {Idle} \cup Decision] /\ NoReview \notin Row /\ received \subseteq Line
      /\ page \in PageState
  BY Types DEF IInv, TypeOK, Columns
<1>2. ~KeyUsed(s) /\ ~LiveClash(s, line) /\ call' = [call EXCEPT ![s] = [at |-> "done", line |-> NoLine]]
      /\ UNCHANGED <<received, audit, desk, page, asked>>
  BY DEF Store, At
<1>3. PICK now \in {clock, clock + 1} :
        /\ clock' = now
        /\ review' = [review EXCEPT ![s] = [status |-> "pending", created |-> now, line |-> line]]
  BY DEF Store
<1> DEFINE row == [status |-> "pending", created |-> now, line |-> line]
<1>4. now \in Nat /\ now >= clock
  BY <1>1
<1>5. row \in Row /\ row # NoReview /\ row.status = "pending" /\ row.line = line /\ row.created = now
  BY <1>1, <1>4 DEF Row, Status, Call
<1>6. review' = [review EXCEPT ![s] = row]
  BY <1>3
<1> HIDE DEF row, line
<1>7. ~Stored(s)
  BY <1>2 DEF KeyUsed
<1>8. /\ review'[s] = row /\ Stored(s)' /\ Live(s)'
      /\ \A q \in Submission \ {s} : review'[q] = review[q] /\ (Stored(q)' <=> Stored(q)) /\ (Live(q)' <=> Live(q))
  BY <1>1, <1>5, <1>6 DEF Stored, Live
<1>9. RowsKept
  BY <1>7, <1>8 DEF RowsKept
<1>10. page.steady \subseteq Approved'
  BY <1>7, <1>8 DEF IInv, Listed, Approved
<1>11. Listed' /\ ExactList(page)' /\ Asking(page, asked)'
  BY <1>1, <1>2, <1>9, <1>10, ListsKept
<1>12. TypeOK'
  <2>1. review' \in [Submission -> {NoReview} \cup Row] /\ call' \in [Submission -> Call]
    BY <1>1, <1>2, <1>5, <1>6 DEF Call
  <2>2. \A q \in Submission : Stored(q)' => review'[q].created <= clock'
    <3> SUFFICES ASSUME NEW q \in Submission, Stored(q)' PROVE review'[q].created <= clock'
      OBVIOUS
    <3>1. CASE q = s
      BY <1>3, <1>4, <1>5, <1>8, <3>1
    <3>2. CASE q # s
      <4>1. review[q] \in Row /\ review[q].created <= clock /\ review'[q] = review[q]
        BY <1>8, <3>2, Types DEF IInv
      <4>2. review[q].created \in Nat
        BY <4>1 DEF Row
      <4>3. review[q].created <= now
        BY <1>1, <1>4, <4>1, <4>2
      <4> QED BY <1>3, <4>1, <4>3
    <3> QED BY <3>1, <3>2
  <2>3. ASSUME NEW x \in Submission, NEW y \in Submission, x # y, Stored(x)', Stored(y)'
        PROVE  Distinct(x, y)'
    <3>1. \A q \in Submission \ {s} : Stored(q) => KeyOf[q] # KeyOf[s]
      BY <1>2 DEF KeyUsed
    <3>2. \A q \in Submission \ {s} : Live(q) =>
            TextOf[q] # TextOf[s] /\ (line = NoLine \/ review[q].line # line)
      BY <1>2 DEF LiveClash
    <3>3. CASE x = s
      BY <1>5, <1>8, <2>3, <3>1, <3>2, <3>3 DEF Distinct
    <3>4. CASE y = s
      BY <1>5, <1>8, <2>3, <3>1, <3>2, <3>4 DEF Distinct
    <3>5. CASE x # s /\ y # s
      <4>1. Stored(x) /\ Stored(y) /\ review'[x] = review[x] /\ review'[y] = review[y]
            /\ (Live(x)' <=> Live(x)) /\ (Live(y)' <=> Live(y))
        BY <1>8, <2>3, <3>5
      <4>2. Distinct(x, y)
        BY <2>3, <4>1, Types DEF IInv
      <4> QED BY <4>1, <4>2 DEF Distinct
    <3> QED BY <3>3, <3>4, <3>5
  <2> QED BY <1>1, <1>2, <1>3, <1>4, <2>1, <2>2, <2>3, TypesAfter
<1>13. Columns'
  <2>1. \A q \in Submission : Stored(q) => review'[q] # NoReview
    BY <1>9 DEF RowsKept, Stored
  <2>2. \A m \in Moderator : desk[m] # Idle =>
          desk[m].review \in Submission /\ Stored(desk[m].review) /\ desk[m].to # "pending"
    BY <1>1 DEF IInv, Columns, Decision
  <2>3. (\A m \in Moderator : desk[m] # Idle => Stored(desk[m].review) /\ desk[m].to # "pending")'
    BY <1>2, <2>1, <2>2 DEF Stored
  <2> QED BY <1>2, <2>3 DEF IInv, Columns
<1>14. Told'
  <2>1. Told
    BY DEF IInv
  <2>2. audit[s] = << >> /\ Outcome(audit[s]) = "pending"
    BY <1>7, <2>1 DEF Told, Outcome
  <2>3. ASSUME NEW q \in Submission
        PROVE  IF Stored(q)' THEN review'[q].status = Outcome(audit[q]) ELSE audit[q] = << >>
    BY <1>5, <1>8, <2>1, <2>2 DEF Told
  <2>4. audit' = audit
    BY <1>2
  <2>5. \A q \in Submission : Outcome(audit[q])' = Outcome(audit[q])
    BY <2>4 DEF Outcome
  <2> QED BY <2>1, <2>3, <2>4, <2>5 DEF Told
<1> QED BY <1>11, <1>12, <1>13, <1>14 DEF IInv

LEMMA StoreHolds ==
  ASSUME IInv, NEW s \in Submission, Store(s)
  PROVE  IInv'
<1>1. CASE review' # review
  BY <1>1, StoredHolds
<1>2. CASE review' = review
  <2>1. call \in [Submission -> Call] /\ clock \in Nat /\ review \in [Submission -> {NoReview} \cup Row]
        /\ NoReview \notin Row /\ desk \in [Moderator -> {Idle} \cup Decision] /\ received \subseteq Line
    BY Types DEF IInv, TypeOK
  <2>2. call' \in [Submission -> Call]
    <3>1. \/ call' = [call EXCEPT ![s] = [at |-> "looked", line |-> NoLine]]
          \/ call' = [call EXCEPT ![s] = [at |-> "done", line |-> NoLine]]
      BY DEF Store, At
    <3> QED BY <2>1, <3>1 DEF Call
  <2>3. clock' = clock
    <3> SUFFICES ASSUME ~UNCHANGED <<clock, review>> PROVE FALSE
      OBVIOUS
    <3>1. PICK now \in {clock, clock + 1} :
            review' = [review EXCEPT ![s] = [status |-> "pending", created |-> now, line |-> call[s].line]]
      BY DEF Store
    <3>2. [status |-> "pending", created |-> now, line |-> call[s].line] \in Row
      BY <2>1 DEF Row, Status, Call
    <3>3. review'[s] # NoReview
      BY <2>1, <3>1, <3>2
    <3>4. ~KeyUsed(s)
      BY DEF Store
    <3> QED BY <1>2, <3>3, <3>4 DEF KeyUsed, Stored
  <2> QED BY <1>2, <2>1, <2>2, <2>3, RowsSame DEF Store, IInv, Columns
<1> QED BY <1>1, <1>2

(* A decision is written down with its audit row. *)
LEMMA DecidedHolds ==
  ASSUME IInv, NEW s \in Submission, NEW from \in Status, NEW to \in {"approved", "rejected"},
         Stored(s), review[s].status = from,
         to = "approved" /\ ~Live(s) => ~LiveClash(s, review[s].line),
         review' = [review EXCEPT ![s].status = to],
         audit' = [audit EXCEPT ![s] = Append(@, [from |-> from, to |-> to])],
         page' = IF to = "rejected" THEN [page EXCEPT !.steady = @ \ {s}] ELSE page,
         desk' \in [Moderator -> {Idle} \cup Decision],
         \A m \in Moderator : desk'[m] # Idle => desk'[m] = desk[m],
         UNCHANGED <<received, clock, call, asked>>
  PROVE  IInv'
<1>1. /\ clock \in Nat /\ call \in [Submission -> Call] /\ review \in [Submission -> {NoReview} \cup Row]
      /\ NoReview \notin Row /\ received \subseteq Line /\ page \in PageState
      /\ desk \in [Moderator -> {Idle} \cup Decision] /\ Idle \notin Decision
      /\ audit \in [Submission -> Seq([from : Status, to : Status])]
      /\ review[s] \in Row
  BY Types DEF IInv, TypeOK, Columns
<1> DEFINE row == [review[s] EXCEPT !.status = to]
<1>2. /\ row \in Row /\ row # NoReview /\ row.status = to
      /\ row.created = review[s].created /\ row.line = review[s].line
  BY <1>1 DEF Row, Status
<1>3. review' = [review EXCEPT ![s] = row]
  BY <1>1
<1> HIDE DEF row
<1>4. /\ review'[s] = row /\ Stored(s)'
      /\ \A q \in Submission \ {s} : review'[q] = review[q] /\ (Stored(q)' <=> Stored(q)) /\ (Live(q)' <=> Live(q))
  BY <1>1, <1>2, <1>3 DEF Stored, Live
<1>5. RowsKept
  BY <1>2, <1>4 DEF RowsKept
<1> PICK p : p = page'
  OBVIOUS
<1>6. /\ p.steady \subseteq page.steady /\ (to = "rejected" => s \notin p.steady) /\ p \in PageState
      /\ p.status = page.status /\ p.sort = page.sort /\ p.list = page.list /\ p.next = page.next
      /\ p.loadingMore = page.loadingMore /\ p.round = page.round /\ p.disturbed = page.disturbed
  <2>1. CASE to = "rejected"
    <3>1. p = [page EXCEPT !.steady = @ \ {s}]
      BY <2>1
    <3> QED BY <1>1, <3>1 DEF PageState
  <2>2. CASE to = "approved"
    BY <1>1, <2>2
  <2> QED BY <2>1, <2>2
<1>7. p.steady \subseteq Approved'
  <2> SUFFICES ASSUME NEW q \in p.steady PROVE q \in Submission /\ review'[q] # NoReview /\ review'[q].status = "approved"
    BY DEF Approved, Stored
  <2>1. q \in Submission /\ Stored(q) /\ review[q].status = "approved"
    BY <1>6 DEF IInv, Listed, Approved
  <2>2. q = s => to = "approved"
    BY <1>6
  <2> QED BY <1>2, <1>4, <2>1, <2>2 DEF Stored
<1>8. Listed' /\ ExactList(page)' /\ Asking(page, asked)'
  BY <1>5, <1>6, <1>7, ListsKept
<1>9. TypeOK'
  <2>1. review' \in [Submission -> {NoReview} \cup Row]
    BY <1>1, <1>2, <1>3
  <2>2. \A q \in Submission : Stored(q)' => review'[q].created <= clock'
    BY <1>2, <1>4, Types DEF IInv
  <2>3. \A q \in Submission \ {s} : Live(q) /\ to = "approved" /\ ~Live(s) =>
          TextOf[q] # TextOf[s] /\ (review[s].line = NoLine \/ review[q].line # review[s].line)
    BY DEF LiveClash
  <2>4. to = "rejected" => ~Live(s)'
    BY <1>2, <1>4 DEF Live
  <2>5. ASSUME NEW x \in Submission, NEW y \in Submission, x # y, Stored(x)', Stored(y)'
        PROVE  Distinct(x, y)'
    <3>1. Stored(x) /\ Stored(y) /\ Distinct(x, y)
      BY <1>4, <2>5, Types DEF IInv
    <3>2. review'[x].line = review[x].line /\ review'[y].line = review[y].line
      BY <1>2, <1>4
    <3>3. CASE to = "rejected"
      <4>1. (Live(x)' => Live(x)) /\ (Live(y)' => Live(y))
        BY <1>4, <2>4, <3>3
      <4> QED BY <3>1, <3>2, <4>1 DEF Distinct
    <3>4. CASE to = "approved" /\ Live(s)
      <4>1. (Live(x)' => Live(x)) /\ (Live(y)' => Live(y))
        BY <1>4, <3>4
      <4> QED BY <3>1, <3>2, <4>1 DEF Distinct
    <3>5. CASE to = "approved" /\ ~Live(s)
      <4>1. CASE x = s
        BY <1>4, <2>3, <2>5, <3>1, <3>2, <3>5, <4>1 DEF Distinct
      <4>2. CASE y = s
        BY <1>4, <2>3, <2>5, <3>1, <3>2, <3>5, <4>2 DEF Distinct
      <4>3. CASE x # s /\ y # s
        BY <1>4, <3>1, <3>2, <4>3 DEF Distinct
      <4> QED BY <4>1, <4>2, <4>3
    <3> QED BY <3>3, <3>4, <3>5
  <2>6. page' \in PageState
    BY <1>6
  <2> QED BY <1>1, <2>1, <2>2, <2>5, <2>6, TypesAfter
<1>10. audit' \in [Submission -> Seq([from : Status, to : Status])]
  BY <1>1 DEF Status
<1>11. Columns'
  <2>1. \A q \in Submission : Stored(q) => review'[q] # NoReview
    BY <1>5 DEF RowsKept, Stored
  <2>2. \A m \in Moderator : desk[m] # Idle =>
          desk[m].review \in Submission /\ Stored(desk[m].review) /\ desk[m].to # "pending"
    BY <1>1 DEF IInv, Columns, Decision
  <2>3. (\A m \in Moderator : desk[m] # Idle => Stored(desk[m].review) /\ desk[m].to # "pending")'
    BY <2>1, <2>2 DEF Stored
  <2> QED BY <1>6, <1>10, <2>3 DEF IInv, Columns
<1>12. Told'
  <2>1. Told
    BY DEF IInv
  <2> DEFINE story == audit[s]
             step  == [from |-> from, to |-> to]
  <2>2. /\ audit'[s] = Append(story, step) /\ story \in Seq([from : Status, to : Status])
        /\ \A q \in Submission \ {s} : audit'[q] = audit[q]
    BY <1>1
  <2>3. /\ \A i \in 1 .. Len(story) :
             story[i].from = IF i = 1 THEN "pending" ELSE story[i - 1].to
        /\ from = Outcome(story)
    BY <2>1 DEF Told
  <2>4. step.from = from /\ step.to = to
    OBVIOUS
  <2> HIDE DEF story, step
  <2> DEFINE after == Append(story, step)
  <2>5. /\ Len(after) = Len(story) + 1 /\ Len(story) \in Nat /\ after[Len(after)] = step
        /\ \A i \in 1 .. Len(story) : after[i] = story[i]
    BY <2>2
  <2> HIDE DEF after
  <2>6. ASSUME NEW i \in 1 .. Len(after)
        PROVE  after[i].from = IF i = 1 THEN "pending" ELSE after[i - 1].to
    <3>1. CASE i <= Len(story)
      <4>1. i \in 1 .. Len(story) /\ (i # 1 => i - 1 \in 1 .. Len(story))
        BY <2>5, <3>1
      <4> QED BY <2>3, <2>5, <4>1
    <3>2. CASE i = Len(story) + 1
      <4>1. after[i].from = Outcome(story)
        BY <2>3, <2>4, <2>5, <3>2
      <4>2. CASE story = << >>
        BY <2>5, <3>2, <4>1, <4>2 DEF Outcome
      <4>3. CASE story # << >>
        <5>1. Len(story) \in 1 .. Len(story) /\ i # 1 /\ i - 1 = Len(story)
          BY <2>2, <2>5, <3>2, <4>3
        <5> QED BY <2>5, <4>1, <4>3, <5>1 DEF Outcome
      <4> QED BY <4>2, <4>3
    <3> QED BY <2>5, <3>1, <3>2
  <2>7. Outcome(after) = to
    <3>1. after # << >>
      BY <2>2 DEF after
    <3> QED BY <2>4, <2>5, <3>1 DEF Outcome
  <2>8. audit'[s] = after
    BY <2>2 DEF after
  <2>9. \A q \in Submission : Outcome(audit[q])' = Outcome(audit'[q])
    BY DEF Outcome
  <2> SUFFICES ASSUME NEW q \in Submission
               PROVE  /\ \A i \in 1 .. Len(audit'[q]) :
                           audit'[q][i].from = IF i = 1 THEN "pending" ELSE audit'[q][i - 1].to
                      /\ IF Stored(q)' THEN review'[q].status = Outcome(audit'[q])
                                       ELSE audit'[q] = << >>
    BY <2>9 DEF Told
  <2>10. CASE q = s
    <3>1. audit'[q] = after
      BY <2>8, <2>10
    <3>2. Stored(q)' /\ review'[q].status = to
      BY <1>2, <1>4, <2>10
    <3>3. review'[q].status = Outcome(audit'[q])
      BY <2>7, <3>1, <3>2
    <3>4. \A i \in 1 .. Len(audit'[q]) :
            audit'[q][i].from = IF i = 1 THEN "pending" ELSE audit'[q][i - 1].to
      BY <2>6, <3>1
    <3> QED BY <3>2, <3>3, <3>4
  <2>11. CASE q # s
    BY <1>4, <2>1, <2>2, <2>11 DEF Told
  <2> QED BY <2>10, <2>11
<1> QED BY <1>8, <1>9, <1>11, <1>12 DEF IInv

LEMMA DecideHolds ==
  ASSUME IInv, NEW m \in Moderator, Decide(m)
  PROVE  IInv'
<1> DEFINE s  == desk[m].review
           to == desk[m].to
           conflict == to = "approved" /\ ~Live(s) /\ LiveClash(s, review[s].line)
<1>1. desk \in [Moderator -> {Idle} \cup Decision] /\ call \in [Submission -> Call] /\ received \subseteq Line
  BY Types DEF IInv, TypeOK
<1>2. desk[m] \in Decision /\ Stored(s) /\ to # "pending"
  BY <1>1 DEF Decide, IInv, Columns
<1>3. s \in Submission /\ desk[m].from \in Status /\ to \in {"approved", "rejected"}
  BY <1>2 DEF Decision, Status
<1>4. /\ desk' \in [Moderator -> {Idle} \cup Decision]
      /\ \A n \in Moderator : desk'[n] # Idle => desk'[n] = desk[n]
  BY <1>1 DEF Decide
<1>5. CASE Unmoved(m) /\ ~conflict
  <2>1. /\ review' = [review EXCEPT ![s].status = to]
        /\ audit' = [audit EXCEPT ![s] = Append(@, [from |-> desk[m].from, to |-> to])]
        /\ page' = IF to = "rejected" THEN [page EXCEPT !.steady = @ \ {s}] ELSE page
        /\ UNCHANGED <<received, clock, call, asked>>
    BY <1>5 DEF Decide
  <2>2. review[s].status = desk[m].from
    BY <1>5 DEF Unmoved
  <2> QED BY <1>2, <1>3, <1>4, <1>5, <2>1, <2>2, DecidedHolds
<1>6. CASE ~(Unmoved(m) /\ ~conflict)
  <2>1. UNCHANGED <<received, clock, call, review, audit, page, asked>>
    BY <1>6 DEF Decide
  <2>2. \A n \in Moderator : desk'[n] # Idle => Stored(desk'[n].review) /\ desk'[n].to # "pending"
    BY <1>4 DEF IInv, Columns
  <2> QED BY <1>1, <1>4, <2>1, <2>2, RowsSame
<1> QED BY <1>5, <1>6

-----------------------------------------------------------------------------
LEMMA InitHolds ==
  ASSUME Init
  PROVE  IInv
<1>1. PICK status \in [Old -> {"approved", "rejected"}] :
        /\ review = [s \in Submission |->
             IF s \in Old THEN [status |-> status[s], created |-> OldInstant[s], line |-> LineOf[s]]
                          ELSE NoReview]
        /\ audit = [s \in Submission |->
             IF s \in Old THEN <<[from |-> "pending", to |-> status[s]]>> ELSE << >>]
  BY DEF Init
<1>2. /\ Old \subseteq Submission /\ OldInstant \in [Old -> 0 .. Precision] /\ Precision \in Nat
      /\ LineOf \in [Submission -> Line \cup {NoLine}]
      /\ NoReview \notin [status : Status, created : Nat, line : Line \cup {NoLine}]
      /\ \A s, q \in Old : s # q =>
           KeyOf[s] # KeyOf[q] /\ TextOf[s] # TextOf[q] /\ (LineOf[s] = LineOf[q] => LineOf[s] = NoLine)
  BY ReviewsAssumption
<1>3. ASSUME NEW s \in Old
      PROVE  /\ s \in Submission /\ review[s].line = LineOf[s] /\ review[s].status = status[s]
             /\ review[s] \in [status : Status, created : 0 .. Precision, line : Line \cup {NoLine}]
             /\ Stored(s)
  <2> DEFINE row == [status |-> status[s], created |-> OldInstant[s], line |-> LineOf[s]]
  <2>1. s \in Submission /\ OldInstant[s] \in 0 .. Precision /\ LineOf[s] \in Line \cup {NoLine}
        /\ status[s] \in Status /\ OldInstant[s] \in Nat
    BY <1>2 DEF Status
  <2>2. review[s] = row
    BY <1>1, <2>1
  <2>3. row \in [status : Status, created : 0 .. Precision, line : Line \cup {NoLine}]
    BY <2>1
  <2>4. row \in [status : Status, created : Nat, line : Line \cup {NoLine}]
    BY <2>1
  <2>5. Stored(s)
    BY <1>2, <2>2, <2>4 DEF Stored
  <2> QED BY <2>1, <2>2, <2>3, <2>5
<1>4. \A s \in Submission \ Old : ~Stored(s) /\ review[s] = NoReview
  BY <1>1 DEF Stored
<1>5. TypeOK
  <2>1. review \in [Submission -> {NoReview} \cup
          [status : Status, created : 0 .. clock, line : Line \cup {NoLine}]]
    <3>1. clock = Precision /\ DOMAIN review = Submission /\ review = [s \in Submission |-> review[s]]
      BY <1>1 DEF Init
    <3> QED BY <3>1, <1>3, <1>4
  <2>2. \A s, q \in Submission : s # q /\ Stored(s) /\ Stored(q) =>
       /\ KeyOf[s] # KeyOf[q]
       /\ Live(s) /\ Live(q) =>
            /\ TextOf[s] # TextOf[q]
            /\ review[s].line = review[q].line => review[s].line = NoLine
    BY <1>2, <1>3, <1>4
  <2>3. call \in [Submission -> [at : {"new", "looked", "done"}, line : Line \cup {NoLine}]]
    BY DEF Init
  <2>4. desk \in [Moderator -> {Idle} \cup [review : Submission, from : Status, to : Status]]
    BY DEF Init
  <2>5. /\ page.status \in {"idle", "loading", "ready", "unavailable"} /\ page.sort \in Sort
        /\ page.list \in Seq(Submission)
    BY DEF Init, Sort
  <2>6. received \subseteq Line /\ clock \in Nat
    BY <1>2 DEF Init
  <2> QED BY <2>1, <2>2, <2>3, <2>4, <2>5, <2>6 DEF TypeOK
<1>6. Columns
  <2>1. page \in PageState /\ asked \subseteq Asks
    BY DEF Init, PageState, Sort
  <2>2. \A s \in Submission : audit[s] \in Seq([from : Status, to : Status])
    <3>1. ASSUME NEW s \in Old PROVE audit[s] \in Seq([from : Status, to : Status])
      <4>1. [from |-> "pending", to |-> status[s]] \in [from : Status, to : Status]
        BY DEF Status
      <4>2. audit[s] = <<[from |-> "pending", to |-> status[s]]>>
        BY <1>1, <1>3
      <4> QED BY <4>1, <4>2
    <3>2. \A s \in Submission \ Old : audit[s] = << >>
      BY <1>1
    <3>3. << >> \in Seq([from : Status, to : Status])
      OBVIOUS
    <3> QED BY <3>1, <3>2, <3>3
  <2>3. audit = [s \in Submission |-> audit[s]]
    BY <1>1
  <2>4. audit \in [Submission -> Seq([from : Status, to : Status])]
    BY <2>2, <2>3
  <2>5. \A m \in Moderator : desk[m] = Idle
    BY DEF Init
  <2> QED BY <2>1, <2>4, <2>5 DEF Columns
<1>7. Told
  <2>1. ASSUME NEW s \in Old
        PROVE  /\ Len(audit[s]) = 1 /\ audit[s][1].from = "pending" /\ audit[s] # << >>
               /\ review[s].status = audit[s][1].to
    <3>1. audit[s] = <<[from |-> "pending", to |-> status[s]]>>
      BY <1>1, <1>3
    <3> QED BY <3>1, <1>3
  <2>2. \A s \in Submission \ Old : audit[s] = << >>
    BY <1>1
  <2> SUFFICES ASSUME NEW s \in Submission
               PROVE  /\ \A i \in 1 .. Len(audit[s]) :
                           audit[s][i].from = IF i = 1 THEN "pending" ELSE audit[s][i - 1].to
                      /\ IF Stored(s) THEN review[s].status = Outcome(audit[s]) ELSE audit[s] = << >>
    BY DEF Told
  <2>3. CASE s \in Old
    <3>1. Outcome(audit[s]) = review[s].status
      BY <2>1, <2>3 DEF Outcome
    <3>2. Len(audit[s]) = 1 /\ audit[s][1].from = "pending"
      BY <2>1, <2>3
    <3>3. \A i \in 1 .. Len(audit[s]) : i = 1
      BY <3>2
    <3> QED BY <1>3, <2>3, <3>1, <3>2, <3>3
  <2>4. CASE s \notin Old
    BY <1>4, <2>2, <2>4
  <2> QED BY <2>3, <2>4
<1>8. page.list = << >> /\ page.steady = {} /\ page.status = "idle" /\ asked = {}
  BY DEF Init
<1>9. Listed /\ ExactList(page) /\ Asking(page, asked)
  BY <1>8 DEF Listed, ExactList, Asking
<1> QED BY <1>5, <1>6, <1>7, <1>9 DEF IInv

LEMMA StepHolds ==
  ASSUME IInv, [Next]_vars
  PROVE  IInv'
<1>1. ASSUME NEW s \in Submission, Look(s) PROVE IInv'
  BY <1>1, LookHolds
<1>2. ASSUME NEW s \in Submission, Store(s) PROVE IInv'
  BY <1>2, StoreHolds
<1>3. ASSUME NEW l \in Line, MoveOrder(l) PROVE IInv'
  BY <1>3, MoveOrderHolds
<1>4. ASSUME NEW m \in Moderator, Read(m) PROVE IInv'
  BY <1>4, ReadHolds
<1>5. ASSUME NEW m \in Moderator, Decide(m) PROVE IInv'
  BY <1>5, DecideHolds
<1>6. ASSUME NEW sort \in Sort, Restart(sort) PROVE IInv'
  BY <1>6, RestartHolds
<1>7. CASE More
  BY <1>7, MoreHolds
<1>8. ASSUME NEW a \in asked, Show(a) PROVE IInv'
  BY <1>8, ShowHolds
<1>9. ASSUME NEW a \in asked, Lose(a) PROVE IInv'
  BY <1>9, LoseHolds
<1>10. CASE UNCHANGED vars
  BY <1>10, RowsSame, Types DEF vars, IInv, TypeOK, Columns
<1> QED BY <1>1, <1>2, <1>3, <1>4, <1>5, <1>6, <1>7, <1>8, <1>9, <1>10 DEF Next

\* The inductive invariant: the rows, their audit, the list and what is asked.
THEOREM InvHolds == Spec => []IInv
<1>1. Init => IInv
  BY InitHolds
<1>2. IInv /\ [Next]_vars => IInv'
  BY StepHolds
<1> QED BY <1>1, <1>2, PTL DEF Spec

\* Type correctness, and the unique indexes: one review per key, one live
\* review per content and per order line (drizzle-pg/0008_product_reviews.sql).
THEOREM TypeCorrect == Spec => []TypeOK
<1>1. IInv => TypeOK
  BY DEF IInv
<1> QED BY <1>1, InvHolds, PTL

\* The audit log of every review is an unbroken chain of decisions from its
\* submission to its status, however many moderators decide at once
\* (lib/reviews-db.ts:91).
THEOREM AuditIsComplete == Spec => []AuditTellsTheStory
<1>1. IInv => AuditTellsTheStory
  <2> SUFFICES ASSUME IInv, NEW s \in Submission, Stored(s)
               PROVE  LET story == <<"pending">> \o [i \in 1 .. Len(audit[s]) |-> audit[s][i].to] IN
                      /\ \A i \in 1 .. Len(audit[s]) : audit[s][i].from = story[i]
                      /\ review[s].status = Last(story)
    BY DEF AuditTellsTheStory
  <2> DEFINE n     == Len(audit[s])
             tos   == [i \in 1 .. n |-> audit[s][i].to]
             story == <<"pending">> \o tos
  <2>1. audit[s] \in Seq([from : Status, to : Status]) /\ n \in Nat /\ \A i \in 1 .. n : audit[s][i].to \in Status
    <3> DEFINE D == [from : Status, to : Status]
    <3>1. audit \in [Submission -> Seq(D)]
      BY DEF IInv, Columns
    <3>2. \A d \in D : d.to \in Status
      OBVIOUS
    <3> HIDE DEF D
    <3>3. audit[s] \in Seq(D) /\ n \in Nat /\ \A i \in 1 .. n : audit[s][i] \in D
      BY <3>1
    <3> QED BY <3>2, <3>3 DEF D
  <2>2. /\ \A i \in 1 .. n : audit[s][i].from = IF i = 1 THEN "pending" ELSE audit[s][i - 1].to
        /\ review[s].status = Outcome(audit[s])
    BY DEF IInv, Told
  <2> HIDE DEF n
  <2>4. tos \in Seq(Status) /\ Len(tos) = n /\ \A i \in 1 .. n : tos[i] = audit[s][i].to
    BY <2>1
  <2> HIDE DEF tos
  <2>5. <<"pending">> \in Seq(Status)
    BY DEF Status
  <2>6. /\ Len(story) = n + 1 /\ story[1] = "pending"
        /\ \A i \in 2 .. n + 1 : story[i] = tos[i - 1]
    BY <2>1, <2>4, <2>5
  <2> HIDE DEF story
  <2>7. ASSUME NEW i \in 1 .. n PROVE audit[s][i].from = story[i]
    <3>1. CASE i = 1
      BY <2>2, <2>6, <3>1
    <3>2. CASE i # 1
      <4>1. i \in 2 .. n + 1 /\ i - 1 \in 1 .. n
        BY <2>1, <3>2
      <4> QED BY <2>2, <2>4, <2>6, <3>2, <4>1
    <3> QED BY <3>1, <3>2
  <2>8. review[s].status = Last(story)
    <3>1. CASE n = 0
      <4>1. audit[s] = << >>
        BY <2>1, <3>1 DEF n
      <4> QED BY <2>2, <2>6, <3>1, <4>1 DEF Last, Outcome
    <3>2. CASE n # 0
      <4>1. audit[s] # << >> /\ n + 1 \in 2 .. n + 1 /\ n \in 1 .. n /\ (n + 1) - 1 = n
        BY <2>1, <3>2 DEF n
      <4>2. story[n + 1] = tos[n]
        BY <2>6, <4>1
      <4>3. review[s].status = audit[s][n].to
        BY <2>2, <4>1 DEF Outcome, n
      <4> QED BY <2>4, <2>6, <4>1, <4>2, <4>3 DEF Last
    <3> QED BY <3>1, <3>2
  <2> QED BY <2>7, <2>8 DEF story, tos, n
<1> QED BY <1>1, InvHolds, PTL

\* Keyset paging is exact: whatever is submitted, approved and rejected between
\* two pages, an undisturbed list is in order, has no review twice, and at its
\* end has every review that was approved all the time, but for the reviews
\* that share a millisecond (lib/reviews-db.ts:25, lib/reviews.ts:153).
THEOREM PagingIsExact == Spec => []PagesAreExact
<1>1. IInv => PagesAreExact
  BY DEF IInv, ExactList, Sorted, In, PagesAreExact
<1> QED BY <1>1, InvHolds, PTL
=============================================================================
