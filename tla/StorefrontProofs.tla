-------------------------- MODULE StorefrontProofs --------------------------
(***************************************************************************)
(* Proofs about Storefront, for any tabs, baskets, details, keys and order *)
(* numbers, and any number of edits, changes, mishaps and preview calls.   *)
(***************************************************************************)
EXTENDS Storefront, TLAPS

-----------------------------------------------------------------------------
(* The inductive invariant.                                                *)

\* What is known of an order, asked for or placed: the trail of a tab.
MarkOfRequest(r) ==
  [tab |-> r.tab, key |-> r.key, wish |-> r.wish, basket |-> r.basket,
   details |-> r.details, legal |-> r.accepted]
MarkOfOrder(o) ==
  [tab |-> o.tab, key |-> o.key, wish |-> o.wish, basket |-> o.basket,
   details |-> o.details, legal |-> o.terms.legal]

Asked  == {MarkOfRequest(r) : r \in Requests}
Placed == {MarkOfOrder(o) : o \in orders}
Trail  == Asked \cup Placed

\* What is placed, or may still be: the documents it accepts are in force
\* and its key has no order.
Live == {x \in Asked : x.legal = shop.legal /\ \A o \in orders : o.key # x.key} \cup Placed

\* The counters are in their bounds, and a wish is bounded by the edits: an
\* order empties only a cart that an edit has filled.
Tally ==
  /\ edits \in 0 .. MaxEdits /\ changes \in 0 .. MaxChanges /\ mishaps \in 0 .. MaxMishaps
  /\ shop.price + shop.legal <= changes
  /\ \A t \in Tab : wish[t] <= 2 * edits + 1 /\ (cart # None => wish[t] <= 2 * edits)

\* A key belongs to one tab.
Owned ==
  /\ \A x, y \in Trail : x.key = y.key => x.tab = y.tab
  /\ \A x \in Trail : \A t \in Tab : x.key = key[t] => x.tab = t
  /\ \A t, u \in Tab : key[t] = key[u] /\ key[t] # None => t = u

\* No request is ahead of its page, and no page of the shop.
Behind ==
  /\ \A x \in Trail : x.wish <= wish[x.tab] /\ x.legal <= page[x.tab].terms.legal
  /\ \A t \in Tab : page[t].terms.legal <= shop.legal

\* One wish is one basket and one form.
SameText ==
  /\ \A x \in Trail : x.wish = wish[x.tab] =>
       x.basket = cart /\ x.details = page[x.tab].details
  /\ \A x, y \in Trail : x.tab = y.tab /\ x.wish = y.wish =>
       x.basket = y.basket /\ x.details = y.details

\* A page waits for its latest request only, and a refusal says the truth.
Waiting ==
  \A t \in Tab : call[t] # None =>
    /\ call[t].request.tab = t /\ key[t] \in {None, call[t].request.key}
    /\ \A x \in Trail : x.tab = t =>
         x.wish <= call[t].request.wish /\ x.legal <= call[t].request.accepted
    /\ call[t].answer = "version mismatch" => call[t].request.accepted # shop.legal
    /\ call[t].answer = "key reused" =>
         \E o \in orders : o.key = call[t].request.key /\ ~SameRequest(o, call[t].request)

\* What is or may be placed for the wish and the documents a tab has now
\* carries the key the tab has now.
Current ==
  \A x \in Live : x.wish = wish[x.tab] /\ x.legal = page[x.tab].terms.legal => x.key = key[x.tab]

\* One wish under one legal version goes under one key.
OneKey ==
  \A x, y \in Live : x.tab = y.tab /\ x.wish = y.wish /\ x.legal = y.legal => x.key = y.key

KeysInv == Owned /\ Behind /\ SameText /\ Waiting /\ Current /\ OneKey
IInv == TypeOK /\ Tally /\ KeysInv

-----------------------------------------------------------------------------
(* Types.                                                                  *)

Ask  == [basket : Basket, details : Details, price : 0 .. MaxChanges]
Page == [details : Details, terms : Terms, preview : Token \cup {None},
         loading : BOOLEAN, done : BOOLEAN]
Call == [answer : Answers, request : Request]
Mark == [tab : Tab, key : Key, wish : Nat, basket : Basket, details : Details, legal : Nat]

LEMMA NatOrder ==
  /\ \A a, b, c \in Nat : a <= b /\ b <= c /\ a # b => a # c
  /\ \A a, b \in Nat : a <= b /\ b <= a => a = b
OBVIOUS

LEMMA BoundsNat ==
  MaxEdits \in Nat /\ MaxChanges \in Nat /\ MaxMishaps \in Nat /\ 0 .. MaxChanges \subseteq Nat
<1>1. MaxEdits \in Nat /\ MaxChanges \in Nat /\ MaxMishaps \in Nat
  BY StorefrontAssumption
<1> QED BY <1>1

LEMMA TypeParts ==
  TypeOK <=>
    /\ cart \in Basket \cup {None}
    /\ key \in [Tab -> Key \cup {None}]
    /\ page \in [Tab -> Page] /\ asks \in [Tab -> SUBSET Ask] /\ call \in [Tab -> Call \cup {None}]
    /\ strays \subseteq Request /\ orders \subseteq Order
    /\ \A o1, o2 \in orders : o1.key = o2.key \/ o1.number = o2.number => o1 = o2
    /\ news \in [Tab -> BOOLEAN] /\ shop \in Terms /\ wish \in [Tab -> Wishes]
BY DEF TypeOK, Ask, Page, Call

LEMMA TypePartsNext ==
  ASSUME TypeOK'
  PROVE  /\ page' \in [Tab -> Page] /\ call' \in [Tab -> Call \cup {None}]
         /\ shop' \in Terms /\ wish' \in [Tab -> Wishes]
BY DEF TypeOK, Page, Call

LEMMA RequestsTyped ==
  ASSUME TypeOK
  PROVE  /\ Requests \subseteq Request
         /\ \A t \in Tab : call[t] # None =>
              call[t] \in Call /\ call[t].request \in Requests /\ call[t].answer \in Answers
<1> USE TypeParts
<1>1. \A t \in Tab : call[t] # None => call[t] \in Call
  OBVIOUS
<1>2. \A c \in Call : c.request \in Request /\ c.answer \in Answers
  BY DEF Call
<1> QED BY <1>1, <1>2 DEF Requests

LEMMA TokenFields ==
  \A k \in Token :
    /\ k.number \in Number /\ k.basket \in Basket /\ k.details \in Details /\ k.terms \in Terms
    /\ k = [number |-> k.number, basket |-> k.basket, details |-> k.details, terms |-> k.terms]
BY DEF Token

LEMMA TermsFields ==
  \A s \in Terms : /\ s.price \in Nat /\ s.legal \in Nat /\ s.price <= MaxChanges /\ s.legal <= MaxChanges
                   /\ s.price \in 0 .. MaxChanges /\ s.legal \in 0 .. MaxChanges
                   /\ s = [price |-> s.price, legal |-> s.legal]
BY BoundsNat DEF Terms

LEMMA RequestFields ==
  \A r \in Request :
    /\ r.tab \in Tab /\ r.key \in Key /\ r.wish \in Wishes /\ r.basket \in Basket
    /\ r.details \in Details /\ r.price \in 0 .. MaxChanges /\ r.accepted \in 0 .. MaxChanges
    /\ r.token \in Token
<1> DEFINE Versions == 0 .. MaxChanges
<1>1. Request = [tab : Tab, key : Key, wish : Wishes, basket : Basket, details : Details,
                 price : Versions, accepted : Versions, token : Token]
  BY DEF Request
<1> HIDE DEF Versions
<1>2. \A r \in Request :
        /\ r.tab \in Tab /\ r.key \in Key /\ r.wish \in Wishes /\ r.basket \in Basket
        /\ r.details \in Details /\ r.price \in Versions /\ r.accepted \in Versions
        /\ r.token \in Token
  BY <1>1
<1> QED BY <1>2 DEF Versions

LEMMA OrderFields ==
  \A o \in Order :
    /\ o.tab \in Tab /\ o.key \in Key /\ o.wish \in Wishes /\ o.number \in Number
    /\ o.basket \in Basket /\ o.details \in Details /\ o.terms \in Terms
BY DEF Order

LEMMA WishesNat == Wishes \subseteq Nat
BY BoundsNat DEF Wishes

LEMMA MarkTyped ==
  /\ \A r \in Request : MarkOfRequest(r) \in Mark
  /\ \A o \in Order : MarkOfOrder(o) \in Mark
<1>0. \A r \in Request : r.accepted \in Nat /\ r.wish \in Nat
  BY RequestFields, WishesNat, BoundsNat
<1>1. \A r \in Request : MarkOfRequest(r) \in Mark
  BY <1>0, RequestFields DEF MarkOfRequest, Mark
<1>2. \A o \in Order : MarkOfOrder(o) \in Mark
  BY OrderFields, TermsFields, WishesNat DEF MarkOfOrder, Mark
<1> QED BY <1>1, <1>2

LEMMA MarkFields ==
  \A x \in Mark : x.tab \in Tab /\ x.key \in Key /\ x.wish \in Nat /\ x.basket \in Basket
                  /\ x.details \in Details /\ x.legal \in Nat
BY DEF Mark

LEMMA TrailTyped ==
  ASSUME TypeOK
  PROVE  Trail \subseteq Mark /\ Live \subseteq Trail /\ Placed \subseteq Live
<1>1. Asked \subseteq Mark /\ Placed \subseteq Mark
  BY TypeParts, RequestsTyped, MarkTyped DEF Asked, Placed
<1> QED BY <1>1 DEF Trail, Live

-----------------------------------------------------------------------------
(* What every step but Submit keeps, and that this keeps the keys in order. *)

\* The calls: a new answer that drops the key is the truth.
Truthful(t) ==
  LET r == call[t].request IN
  /\ call'[t].answer = "version mismatch" => r.accepted # shop.legal
  /\ call'[t].answer = "key reused" => \E o \in orders' : o.key = r.key /\ ~SameRequest(o, r)

CallsKept ==
  /\ strays' \subseteq Requests
  /\ \A t \in Tab : call'[t] # None =>
       /\ call[t] # None /\ call'[t].request = call[t].request
       /\ call'[t].answer = call[t].answer \/ Truthful(t)

\* The tabs: an unchanged wish has an unchanged text, the documents are the
\* ones read or new ones, and a key is dropped for a reason.
Released(t) ==
  \/ wish'[t] # wish[t]
  \/ cart = None
  \/ call[t] # None /\ call[t].answer = "key reused"
  \/ call[t] # None /\ call[t].answer = "version mismatch" /\ page'[t].terms.legal = shop.legal

TabsKept ==
  /\ \A t \in Tab :
       /\ wish[t] <= wish'[t]
       /\ wish'[t] = wish[t] => cart' = cart /\ page'[t].details = page[t].details
       /\ page'[t].terms.legal = page[t].terms.legal \/ page'[t].terms.legal = shop.legal
       /\ key'[t] = key[t] \/ (key'[t] = None /\ Released(t))
  /\ shop.legal <= shop'.legal

\* The orders: at most one is added, for a live request.
OrdersKept ==
  \/ orders' = orders
  \/ /\ shop' = shop
     /\ \E r \in Requests, o \in Order :
          /\ orders' = orders \cup {o} /\ MarkOfOrder(o) = MarkOfRequest(r)
          /\ r.accepted = shop.legal /\ Sold(r) = {}

Moves == CallsKept /\ TabsKept /\ OrdersKept

LEMMA MovesTrail ==
  ASSUME TypeOK, TypeOK', Behind, Moves
  PROVE  Trail' \subseteq Trail /\ Live' \subseteq Live /\ orders \subseteq orders'
<1>1. Requests' \subseteq Requests
  <2>1. \A t \in Tab : call'[t] # None => call'[t].request \in Requests
    BY RequestsTyped DEF Moves, CallsKept
  <2> QED BY <2>1 DEF Moves, CallsKept, Requests
<1>2. Asked' \subseteq Asked
  BY <1>1 DEF Asked, MarkOfRequest
<1>3. orders \subseteq orders'
  BY DEF Moves, OrdersKept
<1>4. Placed' \subseteq Live
  <2>1. CASE orders' = orders
    BY <2>1 DEF Placed, Live, MarkOfOrder
  <2>2. CASE orders' # orders
    <3>1. PICK r \in Requests, o \in Order :
            /\ orders' = orders \cup {o} /\ MarkOfOrder(o) = MarkOfRequest(r)
            /\ r.accepted = shop.legal /\ Sold(r) = {}
      BY <2>2 DEF Moves, OrdersKept
    <3>2. MarkOfRequest(r) \in Asked /\ MarkOfRequest(r).legal = r.accepted
          /\ MarkOfRequest(r).key = r.key
      BY DEF Asked, MarkOfRequest
    <3>3. \A p \in orders : p.key # r.key
      BY <3>1 DEF Sold
    <3>4. MarkOfRequest(r) \in Live
      BY <3>1, <3>2, <3>3 DEF Live
    <3> QED BY <3>1, <3>4 DEF Placed, Live, MarkOfOrder
  <2> QED BY <2>1, <2>2
<1>5. Live' \subseteq Live
  <2>1. SUFFICES ASSUME NEW x \in Asked', x.legal = shop'.legal, \A o \in orders' : o.key # x.key
                 PROVE  x \in Live
    BY <1>4 DEF Live
  <2>2. x \in Asked /\ x \in Trail /\ x \in Mark
    BY <1>2, TrailTyped DEF Trail
  <2>3. x.legal <= shop.legal
    <3>1. x.tab \in Tab /\ page[x.tab] \in Page
      BY <2>2, MarkFields, TypeParts
    <3>2. page[x.tab].terms.legal \in Nat /\ shop.legal \in Nat /\ x.legal \in Nat
      BY <3>1, <2>2, TermsFields, TypeParts, MarkFields DEF Page
    <3> QED BY <3>1, <3>2, <2>2 DEF Behind
  <2>4. x.legal = shop.legal
    <3>1. shop.legal \in Nat /\ shop'.legal \in Nat
      BY TypeParts, TypePartsNext, TermsFields
    <3> QED BY <3>1, <2>1, <2>3 DEF Moves, TabsKept
  <2> QED BY <2>1, <2>2, <2>4, <1>3 DEF Live
<1> QED BY <1>2, <1>3, <1>4, <1>5, TrailTyped DEF Trail

LEMMA MovesOwned ==
  ASSUME TypeOK, TypeOK', Behind, Owned, Moves
  PROVE  Owned'
<1>1. Trail' \subseteq Trail /\ Trail \subseteq Mark
  BY MovesTrail, TrailTyped
<1>2. \A t \in Tab : key'[t] = key[t] \/ key'[t] = None
  BY DEF Moves, TabsKept
<1>3. \A x \in Trail : x.key # None
  BY <1>1, MarkFields, StorefrontAssumption
<1> QED BY <1>1, <1>2, <1>3 DEF Owned

LEMMA MovesBehind ==
  ASSUME TypeOK, TypeOK', Behind, Moves
  PROVE  Behind'
<1>1. Trail' \subseteq Trail /\ Trail \subseteq Mark
  BY MovesTrail, TrailTyped
<1>2. \A t \in Tab : /\ wish[t] \in Nat /\ wish'[t] \in Nat
                     /\ page[t].terms.legal \in Nat /\ page'[t].terms.legal \in Nat
                     /\ shop.legal \in Nat /\ shop'.legal \in Nat
  BY TypeParts, TypePartsNext, TermsFields, WishesNat DEF Page
<1>3. \A t \in Tab : wish[t] <= wish'[t] /\ page[t].terms.legal <= page'[t].terms.legal
                     /\ page'[t].terms.legal <= shop'.legal
  BY <1>2 DEF Moves, TabsKept, Behind
<1>4. ASSUME NEW x \in Trail'
      PROVE  x.wish <= wish'[x.tab] /\ x.legal <= page'[x.tab].terms.legal
  <2>1. x \in Trail /\ x.tab \in Tab /\ x.wish \in Nat /\ x.legal \in Nat
    BY <1>1, MarkFields
  <2> QED BY <2>1, <1>2, <1>3 DEF Behind
<1> QED BY <1>3, <1>4 DEF Behind

LEMMA MovesSameText ==
  ASSUME TypeOK, TypeOK', Behind, SameText, Moves
  PROVE  SameText'
<1>1. Trail' \subseteq Trail /\ Trail \subseteq Mark
  BY MovesTrail, TrailTyped
<1>2. ASSUME NEW x \in Trail', x.wish = wish'[x.tab]
      PROVE  x.basket = cart' /\ x.details = page'[x.tab].details
  <2>1. x \in Trail /\ x.tab \in Tab /\ x.wish \in Nat /\ x.wish <= wish[x.tab]
    BY <1>1, MarkFields DEF Behind
  <2>2. wish[x.tab] \in Nat /\ wish'[x.tab] \in Nat /\ wish[x.tab] <= wish'[x.tab]
    BY <2>1, TypeParts, TypePartsNext, WishesNat DEF Moves, TabsKept
  <2>3. wish'[x.tab] = wish[x.tab]
    BY <1>2, <2>1, <2>2
  <2> QED BY <1>2, <2>1, <2>3 DEF Moves, TabsKept, SameText
<1> QED BY <1>1, <1>2 DEF SameText

LEMMA MovesOneKey ==
  ASSUME TypeOK, TypeOK', Behind, OneKey, Moves
  PROVE  OneKey'
BY MovesTrail DEF OneKey

\* The call a page waits for is on its tab's trail.
LEMMA CallTrail ==
  ASSUME TypeOK, Behind, Waiting, NEW t \in Tab, call[t] # None
  PROVE  LET r == call[t].request IN
         /\ r \in Request /\ r \in Requests /\ r.tab = t
         /\ MarkOfRequest(r) \in Trail
         /\ r.wish \in Nat /\ r.wish <= wish[t]
         /\ r.accepted \in Nat /\ r.accepted <= page[t].terms.legal /\ r.accepted <= shop.legal
<1> DEFINE r == call[t].request
<1>1. r \in Requests /\ r \in Request /\ r.tab = t
  BY RequestsTyped DEF Waiting
<1>2. MarkOfRequest(r) \in Trail
  BY <1>1 DEF Trail, Asked
<1>3. /\ MarkOfRequest(r).tab = r.tab /\ MarkOfRequest(r).wish = r.wish
      /\ MarkOfRequest(r).legal = r.accepted
  BY DEF MarkOfRequest
<1>4. r.wish <= wish[t] /\ r.accepted <= page[t].terms.legal /\ page[t].terms.legal <= shop.legal
  BY <1>1, <1>2, <1>3 DEF Behind
<1>5. /\ r.wish \in Nat /\ r.accepted \in Nat
      /\ page[t].terms.legal \in Nat /\ shop.legal \in Nat
  BY <1>1, RequestFields, WishesNat, BoundsNat, TypeParts, TermsFields DEF Page
<1>6. r.accepted <= shop.legal
  BY <1>4, <1>5
<1> QED BY <1>1, <1>2, <1>4, <1>5, <1>6

LEMMA MovesCurrent ==
  ASSUME TypeOK, TypeOK', Behind, SameText, Waiting, Current, Moves
  PROVE  Current'
<1> SUFFICES ASSUME NEW x \in Live', x.wish = wish'[x.tab], x.legal = page'[x.tab].terms.legal
             PROVE  x.key = key'[x.tab]
  BY DEF Current
<1> DEFINE t == x.tab
<1>1. x \in Live /\ x \in Trail /\ x \in Mark /\ t \in Tab
  BY MovesTrail, TrailTyped, MarkFields
<1>2. /\ x.wish \in Nat /\ x.legal \in Nat /\ x.basket \in Basket
      /\ wish[t] \in Nat /\ wish'[t] \in Nat /\ shop.legal \in Nat
      /\ page[t].terms.legal \in Nat /\ page'[t].terms.legal \in Nat
  BY <1>1, MarkFields, TypeParts, TypePartsNext, TermsFields, WishesNat DEF Page
<1>3. x.wish <= wish[t] /\ x.legal <= page[t].terms.legal /\ page[t].terms.legal <= shop.legal
  BY <1>1 DEF Behind
<1>4. /\ wish[t] <= wish'[t]
      /\ page'[t].terms.legal = page[t].terms.legal \/ page'[t].terms.legal = shop.legal
      /\ key'[t] = key[t] \/ (key'[t] = None /\ Released(t))
  BY <1>1 DEF Moves, TabsKept
<1>5. wish'[t] = wish[t] /\ x.wish = wish[t]
  BY <1>2, <1>3, <1>4
<1>6. page'[t].terms.legal = page[t].terms.legal /\ x.legal = page[t].terms.legal
  BY <1>2, <1>3, <1>4
<1>7. x.key = key[t] /\ x.basket = cart
  BY <1>1, <1>5, <1>6 DEF Current, SameText
<1>8. ~Released(t)
  <2>1. cart # None
    BY <1>2, <1>7, StorefrontAssumption
  <2>2. ASSUME call[t] # None, call[t].answer \in {"key reused", "version mismatch"}
        PROVE  x.wish <= call[t].request.wish /\ x.legal <= call[t].request.accepted
    BY <1>1, <2>2 DEF Waiting
  <2>3. ASSUME call[t] # None, call[t].answer = "version mismatch", page'[t].terms.legal = shop.legal
        PROVE  FALSE
    <3>1. /\ x.legal <= call[t].request.accepted /\ call[t].request.accepted # shop.legal
      BY <2>2, <2>3, <1>1 DEF Waiting
    <3>2. call[t].request.accepted <= shop.legal /\ call[t].request.accepted \in Nat
      BY <2>3, <1>1, CallTrail
    <3>3. x.legal = shop.legal
      BY <1>6, <2>3
    <3> QED BY <3>1, <3>2, <3>3, <1>2, NatOrder
  <2>4. ASSUME call[t] # None, call[t].answer = "key reused"
        PROVE  FALSE
    <3> DEFINE r == call[t].request
    <3>1. PICK o \in orders : o.key = r.key /\ ~SameRequest(o, r)
      BY <2>4, <1>1 DEF Waiting
    <3>2. key[t] = r.key
      <4>1. x.key # None
        BY <1>1, MarkFields, StorefrontAssumption
      <4>2. key[t] \in {None, r.key}
        BY <2>4, <1>1 DEF Waiting
      <4> QED BY <4>1, <4>2, <1>7
    <3>3. x \in Placed
      BY <1>1, <1>7, <3>1, <3>2 DEF Live
    <3>4. PICK p \in orders : x = MarkOfOrder(p)
      BY <3>3 DEF Placed
    <3>5. x.key = p.key /\ x.basket = p.basket /\ x.details = p.details /\ x.legal = p.terms.legal
      BY <3>4 DEF MarkOfOrder
    <3>6. p = o
      BY <3>1, <3>2, <3>5, <1>7, TypeParts
    <3>7. /\ r.wish \in Nat /\ r.wish <= wish[t] /\ r.accepted \in Nat
          /\ r.accepted <= page[t].terms.legal /\ MarkOfRequest(r) \in Trail /\ r.tab = t
      BY <2>4, <1>1, CallTrail
    <3>8. x.wish = r.wish /\ x.legal = r.accepted
      BY <3>7, <2>2, <2>4, <1>2, <1>5, <1>6, NatOrder
    <3>9. /\ MarkOfRequest(r).tab = r.tab /\ MarkOfRequest(r).wish = r.wish
          /\ MarkOfRequest(r).basket = r.basket /\ MarkOfRequest(r).details = r.details
      BY DEF MarkOfRequest
    <3>10. x.basket = r.basket /\ x.details = r.details
      BY <1>1, <3>7, <3>8, <3>9 DEF SameText
    <3> QED BY <3>1, <3>5, <3>6, <3>8, <3>10 DEF SameRequest
  <2> QED BY <2>1, <2>3, <2>4, <1>5 DEF Released
<1> QED BY <1>4, <1>7, <1>8

LEMMA MovesWaiting ==
  ASSUME TypeOK, TypeOK', Behind, Waiting, Moves
  PROVE  Waiting'
<1> SUFFICES ASSUME NEW t \in Tab, call'[t] # None
             PROVE  /\ call'[t].request.tab = t /\ key'[t] \in {None, call'[t].request.key}
                    /\ \A x \in Trail' : x.tab = t =>
                         x.wish <= call'[t].request.wish /\ x.legal <= call'[t].request.accepted
                    /\ call'[t].answer = "version mismatch" =>
                         call'[t].request.accepted # shop'.legal
                    /\ call'[t].answer = "key reused" =>
                         \E o \in orders' : o.key = call'[t].request.key
                                           /\ ~SameRequest(o, call'[t].request)
  BY DEF Waiting, SameRequest
<1> DEFINE r == call[t].request
<1>1. /\ call[t] # None /\ call'[t].request = r
      /\ call'[t].answer = call[t].answer \/ Truthful(t)
  BY DEF Moves, CallsKept
<1>2. Trail' \subseteq Trail /\ orders \subseteq orders'
  BY MovesTrail
<1>3. r.tab = t /\ key'[t] \in {None, r.key}
  BY <1>1 DEF Waiting, Moves, TabsKept
<1>4. \A x \in Trail : x.tab = t => x.wish <= r.wish /\ x.legal <= r.accepted
  BY <1>1 DEF Waiting
<1>5. call'[t].answer = "version mismatch" => r.accepted # shop'.legal
  <2>1. call'[t].answer = "version mismatch" => r.accepted # shop.legal
    BY <1>1 DEF Waiting, Truthful
  <2>2. /\ r.accepted \in Nat /\ r.accepted <= shop.legal /\ shop.legal \in Nat
        /\ shop'.legal \in Nat /\ shop.legal <= shop'.legal
    BY <1>1, CallTrail, TypeParts, TypePartsNext, TermsFields DEF Moves, TabsKept
  <2> QED BY <2>1, <2>2, NatOrder
<1>6. call'[t].answer = "key reused" => \E o \in orders' : o.key = r.key /\ ~SameRequest(o, r)
  BY <1>1, <1>2 DEF Waiting, Truthful
<1> QED BY <1>1, <1>2, <1>3, <1>4, <1>5, <1>6

LEMMA MovesKeep ==
  ASSUME TypeOK, TypeOK', KeysInv, Moves
  PROVE  KeysInv'
BY MovesOwned, MovesBehind, MovesSameText, MovesWaiting, MovesCurrent, MovesOneKey DEF KeysInv

-----------------------------------------------------------------------------
(* What the steps do to a page.                                            *)

Edited(p, d)   == [Invalidated(p) EXCEPT !.details = d]
Loading(p)     == [p EXCEPT !.loading = TRUE]
Showing(p, k)  == [p EXCEPT !.loading = FALSE, !.preview = k]
Thanking(p)    == [Invalidated(p) EXCEPT !.done = TRUE]
Rereading(p)   == [p EXCEPT !.terms.legal = shop.legal]
Reloaded(p)    == [details |-> p.details, terms |-> shop, preview |-> None,
                   loading |-> FALSE, done |-> FALSE]

SameForm(p, q) == p \in Page /\ p.details = q.details /\ p.terms = q.terms

LEMMA PageFields ==
  \A p \in Page : /\ p.details \in Details /\ p.terms \in Terms /\ p.preview \in Token \cup {None}
                  /\ p.terms.legal \in Nat
BY TermsFields DEF Page

LEMMA PageSteps ==
  ASSUME NEW p \in Page
  PROVE  /\ SameForm(Invalidated(p), p) /\ SameForm(Loading(p), p) /\ SameForm(Thanking(p), p)
         /\ \A k \in Token : SameForm(Showing(p, k), p)
         /\ \A d \in Details : Edited(p, d) \in Page /\ Edited(p, d).terms = p.terms
<1>1. SameForm(Invalidated(p), p)
  BY DEF SameForm, Invalidated, Page
<1>2. SameForm(Loading(p), p)
  BY DEF SameForm, Loading, Page
<1>3. \A k \in Token : SameForm(Showing(p, k), p)
  BY DEF SameForm, Showing, Page
<1>4. SameForm(Thanking(p), p)
  BY DEF SameForm, Thanking, Invalidated, Page
<1>5. \A d \in Details : Edited(p, d) \in Page /\ Edited(p, d).terms = p.terms
  BY DEF Edited, Invalidated, Page
<1> QED BY <1>1, <1>2, <1>3, <1>4, <1>5

LEMMA PageReads ==
  ASSUME TypeOK, NEW p \in Page
  PROVE  /\ Rereading(p) \in Page /\ Rereading(p).details = p.details
         /\ Rereading(p).terms.legal = shop.legal
         /\ Reloaded(p) \in Page /\ Reloaded(p).details = p.details /\ Reloaded(p).terms = shop
<1>1. shop \in Terms /\ shop.legal \in 0 .. MaxChanges
  BY TypeParts, TermsFields
<1>2. \A s \in Terms : \A n \in 0 .. MaxChanges :
        [s EXCEPT !.legal = n] \in Terms /\ [s EXCEPT !.legal = n].legal = n
  BY DEF Terms
<1>3. /\ Rereading(p) \in Page /\ Rereading(p).details = p.details
      /\ Rereading(p).terms.legal = shop.legal
  <2> DEFINE s == [p.terms EXCEPT !.legal = shop.legal]
  <2>1. s \in Terms /\ s.legal = shop.legal
    BY <1>1, <1>2, PageFields
  <2>2. Rereading(p) = [p EXCEPT !.terms = s]
    BY DEF Rereading
  <2> HIDE DEF s
  <2>3. LET w == [p EXCEPT !.terms = s] IN w \in Page /\ w.details = p.details /\ w.terms = s
    BY <2>1 DEF Page
  <2> QED BY <2>1, <2>2, <2>3
<1>4. Reloaded(p) \in Page /\ Reloaded(p).details = p.details /\ Reloaded(p).terms = shop
  BY <1>1, PageFields DEF Reloaded, Page
<1> QED BY <1>3, <1>4

\* A page is put in place of a tab's.
LEMMA PutPage ==
  ASSUME TypeOK, NEW t \in Tab, NEW p \in Page, page' = [page EXCEPT ![t] = p]
  PROVE  /\ page' \in [Tab -> Page] /\ page'[t] = p
         /\ \A u \in Tab : u # t => page'[u] = page[u]
BY TypeParts

-----------------------------------------------------------------------------
(* Steps that change neither what a tab would order nor a request.         *)

LEMMA TypeNext ==
  ASSUME cart' \in Basket \cup {None}, key' \in [Tab -> Key \cup {None}],
         page' \in [Tab -> Page], asks' \in [Tab -> SUBSET Ask],
         call' \in [Tab -> Call \cup {None}], strays' \subseteq Request, orders' \subseteq Order,
         \A o1, o2 \in orders' : o1.key = o2.key \/ o1.number = o2.number => o1 = o2,
         news' \in [Tab -> BOOLEAN], shop' \in Terms, wish' \in [Tab -> Wishes]
  PROVE  TypeOK'
BY DEF TypeOK, Ask, Page, Call

LEMMA TallySame ==
  ASSUME Tally, UNCHANGED <<cart, shop, wish, edits, changes>>,
         mishaps' = mishaps \/ (mishaps < MaxMishaps /\ mishaps' = mishaps + 1)
  PROVE  Tally'
<1>1. mishaps' \in 0 .. MaxMishaps
  BY BoundsNat DEF Tally
<1> QED BY <1>1 DEF Tally

Safe == TypeOK' /\ Tally' /\ Moves

LEMMA FormKept ==
  ASSUME TypeOK, Tally,
         UNCHANGED <<cart, key, call, strays, orders, shop, wish, edits, changes>>,
         mishaps' = mishaps \/ (mishaps < MaxMishaps /\ mishaps' = mishaps + 1),
         asks' \in [Tab -> SUBSET Ask], news' \in [Tab -> BOOLEAN],
         NEW t \in Tab, NEW p, SameForm(p, page[t]), page' = [page EXCEPT ![t] = p]
  PROVE  Safe
<1>1. /\ page' \in [Tab -> Page] /\ page'[t] = p
      /\ \A u \in Tab : u # t => page'[u] = page[u]
  BY PutPage DEF SameForm
<1>2. TypeOK'
  BY <1>1, TypeParts, TypeNext
<1>3. Tally'
  BY TallySame
<1>4. \A u \in Tab : page'[u].details = page[u].details /\ page'[u].terms = page[u].terms
  BY <1>1 DEF SameForm
<1>5. CallsKept
  BY DEF CallsKept, Requests
<1>6. TabsKept
  <2>1. shop.legal \in Nat /\ \A u \in Tab : wish[u] \in Nat
    BY TypeParts, TermsFields, WishesNat
  <2> QED BY <1>4, <2>1 DEF TabsKept
<1> QED BY <1>2, <1>3, <1>5, <1>6 DEF Safe, Moves, OrdersKept

LEMMA PrepareSafe ==
  ASSUME TypeOK, Tally, NEW t \in Tab, Prepare(t)
  PROVE  Safe
<1> DEFINE a == [basket |-> cart, details |-> page[t].details, price |-> page[t].terms.price]
<1>1. page[t] \in Page
  BY TypeParts
<1>2. a \in Ask
  BY <1>1, TypeParts, PageFields, TermsFields DEF Prepare, Ask
<1>3. asks' = [asks EXCEPT ![t] = asks[t] \cup {a}]
  BY DEF Prepare
<1>4. page' = [page EXCEPT ![t] = Loading(page[t])]
  BY DEF Prepare, Loading
<1> HIDE DEF a
<1>5. asks' \in [Tab -> SUBSET Ask]
  BY <1>2, <1>3, TypeParts
<1>6. /\ UNCHANGED <<cart, key, call, strays, news, orders, shop, wish>>
      /\ UNCHANGED <<edits, changes, mishaps>>
  BY DEF Prepare, bounds
<1> QED BY <1>1, <1>4, <1>5, <1>6, PageSteps, FormKept, TypeParts

LEMMA RefuseSafe ==
  ASSUME TypeOK, Tally, NEW t \in Tab, Refuse(t)
  PROVE  Safe
<1>1. page[t] \in Page
  BY TypeParts
<1>2. page' = [page EXCEPT ![t] = Invalidated(page[t])]
  BY DEF Refuse
<1>3. /\ UNCHANGED <<cart, key, asks, call, strays, news, orders, shop, wish>>
      /\ UNCHANGED <<edits, changes, mishaps>>
  BY DEF Refuse, bounds
<1> QED BY <1>1, <1>2, <1>3, PageSteps, FormKept, TypeParts

LEMMA HearOfCartSafe ==
  ASSUME TypeOK, Tally, NEW t \in Tab, HearOfCart(t)
  PROVE  Safe
<1>1. page[t] \in Page
  BY TypeParts
<1>2. page' = [page EXCEPT ![t] = Invalidated(page[t])]
  BY DEF HearOfCart
<1>3. news' \in [Tab -> BOOLEAN]
  BY TypeParts DEF HearOfCart
<1>4. /\ UNCHANGED <<cart, key, asks, call, strays, orders, shop, wish>>
      /\ UNCHANGED <<edits, changes, mishaps>>
  BY DEF HearOfCart, bounds
<1> QED BY <1>1, <1>2, <1>3, <1>4, PageSteps, FormKept, TypeParts

LEMMA LosePreviewSafe ==
  ASSUME TypeOK, Tally, NEW t \in Tab, LosePreview(t)
  PROVE  Safe
<1>1. page[t] \in Page
  BY TypeParts
<1>2. page' = [page EXCEPT ![t] = Invalidated(page[t])]
  BY DEF LosePreview
<1>3. asks' \in [Tab -> SUBSET Ask]
  BY TypeParts DEF LosePreview
<1>4. /\ UNCHANGED <<cart, key, call, strays, news, orders, shop, wish, edits, changes>>
      /\ mishaps < MaxMishaps /\ mishaps' = mishaps + 1
  BY DEF LosePreview
<1> QED BY <1>1, <1>2, <1>3, <1>4, PageSteps, FormKept, TypeParts

LEMMA ShowPreviewSafe ==
  ASSUME TypeOK, Tally, NEW t \in Tab, ShowPreview(t)
  PROVE  Safe
<1>1. page[t] \in Page
  BY TypeParts
<1>2. FreshNumber \in Number
  BY DEF ShowPreview, NumbersLeft, FreshNumber
<1>3. PICK a \in asks[t] :
        /\ asks' = [asks EXCEPT ![t] = @ \ {a}]
        /\ page' = [page EXCEPT ![t] =
             IF a.price = shop.price
             THEN [@ EXCEPT !.loading = FALSE,
                            !.preview = [number |-> FreshNumber, basket |-> a.basket,
                                         details |-> a.details, terms |-> shop]]
             ELSE Invalidated(@)]
  BY DEF ShowPreview
<1> DEFINE k == [number |-> FreshNumber, basket |-> a.basket, details |-> a.details, terms |-> shop]
<1>4. a \in Ask
  BY TypeParts
<1>5. k \in Token
  BY <1>2, <1>4, TypeParts DEF Ask, Token
<1>6. asks' \in [Tab -> SUBSET Ask]
  BY <1>3, TypeParts
<1>7. PICK p : /\ p = (IF a.price = shop.price THEN Showing(page[t], k) ELSE Invalidated(page[t]))
               /\ page' = [page EXCEPT ![t] = p]
  BY <1>3 DEF Showing
<1> HIDE DEF k
<1>8. SameForm(p, page[t])
  BY <1>1, <1>5, <1>7, PageSteps
<1>9. /\ UNCHANGED <<cart, key, call, strays, news, orders, shop, wish>>
      /\ UNCHANGED <<edits, changes, mishaps>>
  BY DEF ShowPreview, bounds
<1> QED BY <1>6, <1>7, <1>8, <1>9, FormKept, TypeParts

-----------------------------------------------------------------------------
(* The steps of the customer that change what a tab would order.           *)

LEMMA WishRoom ==
  ASSUME Tally', wish' \in [Tab -> Nat]
  PROVE  wish' \in [Tab -> Wishes]
<1>1. edits' \in Nat /\ edits' <= MaxEdits
  BY BoundsNat DEF Tally
<1>2. \A t \in Tab : wish'[t] \in Nat /\ wish'[t] <= 2 * edits' + 1
  BY DEF Tally
<1>3. \A n, e, m \in Nat : n <= 2 * e + 1 /\ e <= m => n <= 2 * m + 1
  OBVIOUS
<1>4. \A t \in Tab : wish'[t] \in Nat /\ wish'[t] <= 2 * MaxEdits + 1
  BY <1>1, <1>2, <1>3, BoundsNat
<1>5. \A t \in Tab : wish'[t] \in Wishes
  BY <1>4, BoundsNat DEF Wishes
<1> QED BY <1>5

LEMMA Counters ==
  ASSUME TypeOK, Tally
  PROVE  /\ edits \in Nat /\ changes \in Nat /\ shop.price \in Nat /\ shop.legal \in Nat
         /\ \A t \in Tab : wish[t] \in Nat /\ wish[t] <= 2 * edits + 1
                           /\ (cart # None => wish[t] <= 2 * edits)
BY TypeParts, TermsFields, WishesNat, BoundsNat DEF Tally

LEMMA TabsSame ==
  ASSUME TypeOK, Tally, UNCHANGED <<cart, key, page, shop, wish>>
  PROVE  TabsKept
BY Counters DEF TabsKept

LEMMA WishSame ==
  ASSUME TypeOK, Tally, UNCHANGED <<wish, shop>>
  PROVE  shop.legal <= shop'.legal /\ \A u \in Tab : wish[u] <= wish'[u] /\ wish'[u] = wish[u]
BY Counters

LEMMA EditDetailsSafe ==
  ASSUME TypeOK, Tally, NEW t \in Tab, EditDetails(t)
  PROVE  Safe
<1>1. PICK d \in Details : page' = [page EXCEPT ![t] = Edited(page[t], d)]
  BY DEF EditDetails, Edited
<1>2. /\ edits < MaxEdits /\ edits' = edits + 1 /\ wish' = [wish EXCEPT ![t] = @ + 1]
      /\ UNCHANGED <<cart, key, asks, call, strays, news, orders, shop, changes, mishaps>>
  BY DEF EditDetails
<1> DEFINE p == Edited(page[t], d)
<1>3. p \in Page /\ p.terms = page[t].terms
  BY TypeParts, PageSteps
<1> HIDE DEF p
<1>4. /\ page' \in [Tab -> Page] /\ page'[t] = p
      /\ \A u \in Tab : u # t => page'[u] = page[u]
  BY <1>1, <1>3, PutPage DEF p
<1>5. /\ wish' \in [Tab -> Nat] /\ wish'[t] = wish[t] + 1
      /\ \A u \in Tab : u # t => wish'[u] = wish[u]
  BY <1>2, TypeParts, Counters
<1>6. Tally'
  <2>1. edits' \in 0 .. MaxEdits
    BY <1>2, Counters, BoundsNat
  <2>2. \A u \in Tab : wish'[u] <= 2 * edits' + 1 /\ (cart # None => wish'[u] <= 2 * edits')
    BY <1>2, <1>5, Counters
  <2> QED BY <2>1, <2>2, <1>2 DEF Tally
<1>7. TypeOK'
  BY <1>2, <1>4, <1>5, <1>6, WishRoom, TypeParts, TypeNext
<1>8. TabsKept
  <2>1. \A u \in Tab : /\ wish[u] \in Nat /\ wish[u] <= wish'[u]
                       /\ wish'[u] = wish[u] => u # t
                       /\ page'[u].terms = page[u].terms
    BY <1>3, <1>4, <1>5, Counters
  <2> QED BY <2>1, <1>2, <1>4, Counters DEF TabsKept
<1> QED BY <1>2, <1>6, <1>7, <1>8 DEF Safe, Moves, CallsKept, OrdersKept, Requests

\* A written cart that has changed makes a new wish in every tab.
LEMMA WrittenCart ==
  ASSUME TypeOK, Tally, NEW t \in Tab, NEW b \in Basket \cup {None}, WriteCart(t, b)
  PROVE  /\ cart' = b /\ news' \in [Tab -> BOOLEAN] /\ wish' \in [Tab -> Nat]
         /\ \A u \in Tab : /\ b # cart => wish'[u] = wish[u] + 1
                           /\ b = cart => wish'[u] = wish[u]
                           /\ wish[u] <= wish'[u]
                           /\ wish'[u] = wish[u] => cart' = cart
<1>1. cart' = b /\ news' \in [Tab -> BOOLEAN]
  BY TypeParts DEF WriteCart
<1>2. wish' = [u \in Tab |-> IF b # cart THEN wish[u] + 1 ELSE wish[u]]
  BY DEF WriteCart
<1>3. \A u \in Tab : wish[u] \in Nat
  BY Counters
<1>4. wish' \in [Tab -> Nat]
  BY <1>2, <1>3
<1>5. \A u \in Tab : (b # cart => wish'[u] = wish[u] + 1) /\ (b = cart => wish'[u] = wish[u])
  BY <1>2
<1>6. \A u \in Tab : wish[u] <= wish'[u] /\ (wish'[u] = wish[u] => b = cart)
  BY <1>3, <1>5
<1> QED BY <1>1, <1>4, <1>5, <1>6

LEMMA EditCartSafe ==
  ASSUME TypeOK, Tally, NEW t \in Tab, EditCart(t)
  PROVE  Safe
<1>1. PICK b \in (Basket \cup {None}) \ {cart} : WriteCart(t, b)
  BY DEF EditCart
<1>2. /\ edits < MaxEdits /\ edits' = edits + 1
      /\ key' = [key EXCEPT ![t] = None] /\ page' = [page EXCEPT ![t] = Invalidated(page[t])]
      /\ UNCHANGED <<asks, call, strays, orders, shop, changes, mishaps>>
  BY DEF EditCart
<1>3. /\ cart' = b /\ news' \in [Tab -> BOOLEAN] /\ wish' \in [Tab -> Nat]
      /\ \A u \in Tab : wish'[u] = wish[u] + 1
  BY <1>1, WrittenCart
<1> DEFINE p == Invalidated(page[t])
<1>4. SameForm(p, page[t])
  BY TypeParts, PageSteps
<1> HIDE DEF p
<1>5. /\ page' \in [Tab -> Page] /\ page'[t] = p
      /\ \A u \in Tab : u # t => page'[u] = page[u]
  BY <1>2, <1>4, PutPage DEF SameForm, p
<1>6. /\ key' \in [Tab -> Key \cup {None}] /\ \A u \in Tab : key'[u] = key[u] \/ key'[u] = None
  BY <1>2, TypeParts
<1>7. Tally'
  <2>1. edits' \in 0 .. MaxEdits
    BY <1>2, Counters, BoundsNat
  <2>2. \A u \in Tab : wish'[u] <= 2 * edits' + 1 /\ wish'[u] <= 2 * edits'
    BY <1>2, <1>3, Counters
  <2> QED BY <2>1, <2>2, <1>2 DEF Tally
<1>8. TypeOK'
  BY <1>1, <1>2, <1>3, <1>5, <1>6, <1>7, WishRoom, TypeParts, TypeNext
<1>9. TabsKept
  <2>1. \A u \in Tab : wish[u] <= wish'[u] /\ wish'[u] # wish[u]
    BY <1>3, Counters
  <2>2. \A u \in Tab : page'[u].terms = page[u].terms
    BY <1>4, <1>5 DEF SameForm
  <2>3. shop.legal <= shop'.legal
    BY <1>2, Counters
  <2> QED BY <2>1, <2>2, <2>3, <1>6 DEF TabsKept, Released
<1> QED BY <1>2, <1>7, <1>8, <1>9 DEF Safe, Moves, CallsKept, OrdersKept, Requests

LEMMA ChangeSafe ==
  ASSUME TypeOK, Tally, Change
  PROVE  Safe
<1>1. /\ changes < MaxChanges /\ changes' = changes + 1
      /\ UNCHANGED <<cart, key, page, asks, call, strays, news, orders, wish, edits, mishaps>>
  BY DEF Change
<1>2. /\ shop' \in Terms /\ shop'.price + shop'.legal <= changes'
      /\ shop.legal <= shop'.legal
  <2>1. \A s \in Terms : s.price + s.legal <= changes =>
          /\ LET n == [s EXCEPT !.price = @ + 1] IN
             n \in Terms /\ n.price + n.legal <= changes + 1 /\ s.legal <= n.legal
          /\ LET n == [s EXCEPT !.legal = @ + 1] IN
             n \in Terms /\ n.price + n.legal <= changes + 1 /\ s.legal <= n.legal
    BY <1>1, BoundsNat, Counters DEF Terms
  <2>2. shop \in Terms /\ shop.price + shop.legal <= changes
    BY TypeParts DEF Tally
  <2>3. PICK n : /\ n = [shop EXCEPT !.price = @ + 1] \/ n = [shop EXCEPT !.legal = @ + 1]
                 /\ shop' = n
    BY DEF Change
  <2>4. n \in Terms /\ n.price + n.legal <= changes + 1 /\ shop.legal <= n.legal
    BY <2>1, <2>2, <2>3
  <2> QED BY <1>1, <2>3, <2>4
<1>3. Tally'
  <2>1. changes' \in 0 .. MaxChanges
    BY <1>1, BoundsNat, Counters
  <2> QED BY <1>1, <1>2, <2>1 DEF Tally
<1>4. TypeOK'
  BY <1>1, <1>2, TypeParts, TypeNext
<1>5. TabsKept
  BY <1>1, <1>2, Counters DEF TabsKept
<1> QED BY <1>1, <1>3, <1>4, <1>5 DEF Safe, Moves, CallsKept, OrdersKept, Requests

-----------------------------------------------------------------------------
(* Reloading, lost answers and expiry.                                     *)

Answered(c, a) == [c EXCEPT !.answer = a]

LEMMA AnsweredCall ==
  \A c \in Call : \A a \in Answers :
    Answered(c, a) \in Call /\ Answered(c, a).answer = a /\ Answered(c, a).request = c.request
BY DEF Answered, Call

\* A call gets an answer, or is lost and may still arrive.
LEMMA CallAnswered ==
  ASSUME TypeOK, NEW t \in Tab, call[t] # None, NEW a \in Answers,
         call' = [call EXCEPT ![t] = Answered(call[t], a)]
  PROVE  /\ call' \in [Tab -> Call \cup {None}]
         /\ call'[t].answer = a /\ call'[t].request = call[t].request
         /\ \A u \in Tab : u # t => call'[u] = call[u]
<1>1. call[t] \in Call
  BY RequestsTyped
<1> DEFINE c == Answered(call[t], a)
<1>2. c \in Call /\ c.answer = a /\ c.request = call[t].request
  BY <1>1, AnsweredCall
<1> HIDE DEF c
<1>3. call' = [call EXCEPT ![t] = c]
  BY DEF c
<1> QED BY <1>2, <1>3, TypeParts

LEMMA LoseCallSafe ==
  ASSUME TypeOK, Tally, NEW t \in Tab, LoseCall(t)
  PROVE  Safe
<1>1. /\ mishaps < MaxMishaps /\ mishaps' = mishaps + 1 /\ call[t] # None
      /\ strays' = strays \/ strays' = strays \cup {call[t].request}
      /\ UNCHANGED <<cart, key, page, asks, news, orders, shop, wish, edits, changes>>
  BY DEF LoseCall
<1>2. call' = [call EXCEPT ![t] = Answered(call[t], "failed")]
  BY DEF LoseCall, Answered
<1>3. /\ call' \in [Tab -> Call \cup {None}]
      /\ call'[t].answer = "failed" /\ call'[t].request = call[t].request
      /\ \A u \in Tab : u # t => call'[u] = call[u]
  BY <1>1, <1>2, CallAnswered DEF Answers
<1>4. Tally'
  BY <1>1, TallySame
<1>5. call[t].request \in Request /\ call[t].request \in Requests
  BY <1>1, RequestsTyped
<1>6. TypeOK'
  BY <1>1, <1>3, <1>5, TypeParts, TypeNext
<1>7. CallsKept
  BY <1>1, <1>3, <1>5 DEF CallsKept, Truthful, Requests
<1>8. TabsKept
  BY <1>1, TabsSame
<1> QED BY <1>1, <1>4, <1>6, <1>7, <1>8 DEF Safe, Moves, OrdersKept

LEMMA ExpireSafe ==
  ASSUME TypeOK, Tally, NEW t \in Tab, Expire(t)
  PROVE  Safe
<1>1. /\ mishaps < MaxMishaps /\ mishaps' = mishaps + 1
      /\ UNCHANGED <<cart, key, asks, strays, news, orders, shop, wish, edits, changes>>
  BY DEF Expire
<1>2. CASE page' = [page EXCEPT ![t] = Invalidated(page[t])] /\ UNCHANGED call
  BY <1>1, <1>2, PageSteps, FormKept, TypeParts
<1>3. CASE /\ call[t] # None /\ UNCHANGED page
           /\ call' = [call EXCEPT ![t] = Answered(call[t], "preview invalid")]
  <2>1. /\ call' \in [Tab -> Call \cup {None}]
        /\ call'[t].answer = "preview invalid" /\ call'[t].request = call[t].request
        /\ \A u \in Tab : u # t => call'[u] = call[u]
    BY <1>3, CallAnswered DEF Answers
  <2>2. Tally'
    BY <1>1, TallySame
  <2>3. TypeOK'
    BY <1>1, <1>3, <2>1, TypeParts, TypeNext
  <2>4. CallsKept
    BY <1>1, <1>3, <2>1 DEF CallsKept, Truthful, Requests
  <2>5. TabsKept
    BY <1>1, <1>3, TabsSame
  <2> QED BY <1>1, <2>2, <2>3, <2>4, <2>5 DEF Safe, Moves, OrdersKept
<1> QED BY <1>2, <1>3 DEF Expire, Answered

LEMMA ReloadSafe ==
  ASSUME TypeOK, Tally, NEW t \in Tab, Reload(t)
  PROVE  Safe
<1>1. /\ mishaps' = mishaps \/ (mishaps < MaxMishaps /\ mishaps' = mishaps + 1)
      /\ strays' = strays \/ (call[t] # None /\ strays' = strays \cup {call[t].request})
      /\ call' = [call EXCEPT ![t] = None] /\ asks' = [asks EXCEPT ![t] = {}]
      /\ news' = [news EXCEPT ![t] = FALSE]
      /\ UNCHANGED <<cart, key, orders, shop, wish, edits, changes>>
  BY DEF Reload
<1>2. page' = [page EXCEPT ![t] = Reloaded(page[t])]
  BY DEF Reload, Reloaded
<1> DEFINE p == Reloaded(page[t])
<1>3. p \in Page /\ p.details = page[t].details /\ p.terms = shop
  BY TypeParts, PageReads
<1> HIDE DEF p
<1>4. /\ page' \in [Tab -> Page] /\ page'[t] = p
      /\ \A u \in Tab : u # t => page'[u] = page[u]
  BY <1>2, <1>3, PutPage DEF p
<1>5. Tally'
  BY <1>1, TallySame
<1>6. strays' \subseteq Requests /\ Requests \subseteq Request
  BY <1>1, RequestsTyped DEF Requests
<1>7. call' \in [Tab -> Call \cup {None}] /\ call'[t] = None
      /\ \A u \in Tab : u # t => call'[u] = call[u]
  BY <1>1, TypeParts
<1>8. asks' \in [Tab -> SUBSET Ask] /\ news' \in [Tab -> BOOLEAN]
  BY <1>1, TypeParts
<1>9. TypeOK'
  BY <1>1, <1>4, <1>6, <1>7, <1>8, TypeParts, TypeNext
<1>10. CallsKept
  BY <1>6, <1>7 DEF CallsKept
<1>11. TabsKept
  BY <1>1, <1>3, <1>4, Counters DEF TabsKept
<1> QED BY <1>1, <1>5, <1>9, <1>10, <1>11 DEF Safe, Moves, OrdersKept

-----------------------------------------------------------------------------
(* The server.                                                             *)

Verdicts == {"confirmed", "key reused", "version mismatch", "price changed",
             "preview invalid", "failed", "placed"}

LEMMA VerdictSays ==
  ASSUME NEW r
  PROVE  /\ Verdict(r) \in Verdicts
         /\ Verdict(r) = "placed" =>
              Sold(r) = {} /\ r.accepted = shop.legal /\ r.price = shop.price /\ Bound(r)
              /\ ~NumberTaken(r)
         /\ Verdict(r) = "version mismatch" => r.accepted # shop.legal
         /\ Verdict(r) = "key reused" => \E o \in Sold(r) : ~SameRequest(o, r)
<1> DEFINE new == Sold(r) = {}
           current == r.accepted = shop.legal
           priced == r.price = shop.price
           same == \E o \in Sold(r) : SameRequest(o, r)
           other == \A o \in Sold(r) : ~SameRequest(o, r)
<1>1. CASE ~new /\ same
  <2>1. Verdict(r) = "confirmed"
    BY <1>1, Zenon DEF Verdict
  <2> QED BY <2>1 DEF Verdicts
<1>2. CASE ~new /\ ~same
  <2>1. ~new /\ other
    BY <1>2
  <2>2. Verdict(r) = "key reused"
    BY <2>1, <1>2, Zenon DEF Verdict
  <2>3. \E o \in Sold(r) : ~SameRequest(o, r)
    BY <2>1
  <2> QED BY <2>2, <2>3 DEF Verdicts
<1>3. CASE new /\ ~current
  <2>1. Verdict(r) = "version mismatch"
    BY <1>3, Zenon DEF Verdict
  <2> QED BY <1>3, <2>1 DEF Verdicts
<1>4. CASE new /\ current /\ ~priced
  <2>1. Verdict(r) = "price changed"
    BY <1>4, Zenon DEF Verdict
  <2> QED BY <2>1 DEF Verdicts
<1>5. CASE new /\ current /\ priced /\ ~Bound(r)
  <2>1. Verdict(r) = "preview invalid"
    BY <1>5, Zenon DEF Verdict
  <2> QED BY <2>1 DEF Verdicts
<1>6. CASE new /\ current /\ priced /\ Bound(r)
  <2>1. Verdict(r) = IF NumberTaken(r) THEN "failed" ELSE "placed"
    BY <1>6, Zenon DEF Verdict
  <2> QED BY <1>6, <2>1 DEF Verdicts
<1> QED BY <1>1, <1>2, <1>3, <1>4, <1>5, <1>6

Sale(r) == [tab |-> r.tab, key |-> r.key, wish |-> r.wish, number |-> r.token.number,
            basket |-> r.basket, details |-> r.details,
            terms |-> [price |-> shop.price, legal |-> r.accepted]]

LEMMA HandleIs ==
  ASSUME NEW r, Handle(r)
  PROVE  /\ Verdict(r) = "placed" => orders' = orders \cup {Sale(r)}
         /\ Verdict(r) # "placed" => orders' = orders
BY DEF Handle, Sale

LEMMA SaleTyped ==
  ASSUME TypeOK, NEW r \in Request
  PROVE  /\ Sale(r) \in Order /\ Sale(r).key = r.key /\ Sale(r).number = r.token.number
         /\ MarkOfOrder(Sale(r)) = MarkOfRequest(r)
<1>1. [price |-> shop.price, legal |-> r.accepted] \in Terms
  BY TypeParts, TermsFields, RequestFields DEF Terms
<1>2. r.token.number \in Number
  BY RequestFields, TokenFields
<1>3. Sale(r) \in Order
  BY <1>1, <1>2, RequestFields DEF Sale, Order
<1> QED BY <1>3 DEF Sale, MarkOfOrder, MarkOfRequest

LEMMA HandleSafe ==
  ASSUME TypeOK, NEW r \in Requests, Handle(r), UNCHANGED shop
  PROVE  /\ orders' \subseteq Order /\ orders \subseteq orders'
         /\ \A o1, o2 \in orders' : o1.key = o2.key \/ o1.number = o2.number => o1 = o2
         /\ OrdersKept
<1>1. r \in Request
  BY RequestsTyped
<1>2. CASE Verdict(r) # "placed"
  BY <1>2, HandleIs, TypeParts DEF OrdersKept
<1>3. CASE Verdict(r) = "placed"
  <2>1. orders' = orders \cup {Sale(r)}
    BY <1>3, HandleIs
  <2>2. /\ Sold(r) = {} /\ ~NumberTaken(r) /\ r.accepted = shop.legal
    BY <1>3, VerdictSays
  <2>3. \A o \in orders : o.key # Sale(r).key /\ o.number # Sale(r).number
    BY <1>1, <2>2, SaleTyped DEF Sold, NumberTaken
  <2>4. \A o1, o2 \in orders' : o1.key = o2.key \/ o1.number = o2.number => o1 = o2
    BY <2>1, <2>3, TypeParts
  <2>5. OrdersKept
    BY <1>1, <2>1, <2>2, SaleTyped DEF OrdersKept
  <2> QED BY <1>1, <2>1, <2>4, <2>5, SaleTyped, TypeParts
<1> QED BY <1>2, <1>3

LEMMA ServeStraySafe ==
  ASSUME TypeOK, Tally, ServeStray
  PROVE  Safe
<1>1. PICK r \in strays : Handle(r) /\ strays' = strays \ {r}
  BY DEF ServeStray
<1>2. /\ UNCHANGED <<cart, key, page, asks, call, news, shop, wish>>
      /\ UNCHANGED <<edits, changes, mishaps>>
  BY DEF ServeStray, bounds
<1>3. r \in Requests
  BY DEF Requests
<1>4. Tally'
  BY <1>2, TallySame
<1>5. TypeOK'
  BY <1>1, <1>2, <1>3, HandleSafe, TypeParts, TypeNext
<1>6. CallsKept
  BY <1>1, <1>2 DEF CallsKept, Requests
<1>7. TabsKept
  BY <1>2, TabsSame
<1> QED BY <1>1, <1>2, <1>3, <1>4, <1>5, <1>6, <1>7, HandleSafe DEF Safe, Moves

LEMMA ServeSafe ==
  ASSUME TypeOK, Tally, NEW t \in Tab, Serve(t)
  PROVE  Safe
<1> DEFINE r == call[t].request
           a == IF Verdict(r) = "placed" THEN "confirmed" ELSE Verdict(r)
<1>1. call[t] # None /\ Handle(r) /\ call' = [call EXCEPT ![t] = Answered(call[t], a)]
  BY DEF Serve, Answered
<1>2. /\ UNCHANGED <<cart, key, page, asks, strays, news, shop, wish>>
      /\ UNCHANGED <<edits, changes, mishaps>>
  BY DEF Serve, bounds
<1>3. a \in Answers
  BY VerdictSays DEF Verdicts, Answers
<1>4. r \in Requests
  BY <1>1, RequestsTyped
<1>5. /\ a = "version mismatch" => r.accepted # shop.legal
      /\ a = "key reused" => \E o \in orders' : o.key = r.key /\ ~SameRequest(o, r)
  <2>1. /\ a = "version mismatch" => Verdict(r) = "version mismatch"
        /\ a = "key reused" => Verdict(r) = "key reused"
    OBVIOUS
  <2>2. orders \subseteq orders'
    BY <1>1, <1>2, <1>4, HandleSafe
  <2> QED BY <2>1, <2>2, VerdictSays DEF Sold
<1> HIDE DEF a
<1>6. /\ call' \in [Tab -> Call \cup {None}]
      /\ call'[t].answer = a /\ call'[t].request = r
      /\ \A u \in Tab : u # t => call'[u] = call[u]
  BY <1>1, <1>3, CallAnswered
<1>7. Tally'
  BY <1>2, TallySame
<1>8. TypeOK'
  BY <1>1, <1>2, <1>4, <1>6, HandleSafe, TypeParts, TypeNext
<1>9. CallsKept
  BY <1>1, <1>2, <1>5, <1>6 DEF CallsKept, Truthful, Requests
<1>10. TabsKept
  BY <1>2, TabsSame
<1> QED BY <1>1, <1>2, <1>4, <1>7, <1>8, <1>9, <1>10, HandleSafe DEF Safe, Moves

-----------------------------------------------------------------------------
(* The answer of an order call, and the call itself.                       *)

LEMMA HearsConfirmed ==
  ASSUME TypeOK, Tally, NEW t \in Tab, call[t] # None,
         call' = [call EXCEPT ![t] = None], WriteCart(t, None),
         key' = [key EXCEPT ![t] = None], page' = [page EXCEPT ![t] = Thanking(page[t])],
         UNCHANGED <<asks, strays, orders, shop>>, UNCHANGED <<edits, changes, mishaps>>
  PROVE  Safe
<1> DEFINE p == Thanking(page[t])
<1>1. SameForm(p, page[t])
  BY TypeParts, PageSteps
<1> HIDE DEF p
<1>2. /\ page' \in [Tab -> Page] /\ page'[t] = p
      /\ \A u \in Tab : u # t => page'[u] = page[u]
  BY <1>1, PutPage DEF SameForm, p
<1>3. /\ cart' = None /\ news' \in [Tab -> BOOLEAN] /\ wish' \in [Tab -> Nat]
      /\ \A u \in Tab : /\ None # cart => wish'[u] = wish[u] + 1
                        /\ None = cart => wish'[u] = wish[u]
                        /\ wish[u] <= wish'[u]
                        /\ wish'[u] = wish[u] => cart' = cart
  BY WrittenCart
<1>4. /\ key' \in [Tab -> Key \cup {None}]
      /\ \A u \in Tab : key'[u] = key[u] \/ key'[u] = None
  BY TypeParts
<1>5. /\ call' \in [Tab -> Call \cup {None}] /\ call'[t] = None
      /\ \A u \in Tab : u # t => call'[u] = call[u]
  BY TypeParts
<1>6. Tally'
  <2>1. \A u \in Tab : wish'[u] <= 2 * edits + 1
    <3>1. CASE cart = None
      BY <1>3, <3>1, Counters
    <3>2. CASE cart # None
      <4> SUFFICES ASSUME NEW u \in Tab PROVE wish'[u] <= 2 * edits + 1
        OBVIOUS
      <4>1. wish[u] \in Nat /\ edits \in Nat /\ wish[u] <= 2 * edits /\ wish'[u] = wish[u] + 1
        BY <1>3, <3>2, Counters
      <4> QED BY <4>1
    <3> QED BY <3>1, <3>2
  <2>2. /\ cart' = None /\ edits' = edits /\ changes' = changes /\ mishaps' = mishaps
        /\ shop' = shop
    BY <1>3
  <2> QED BY <2>1, <2>2 DEF Tally
<1>7. TypeOK'
  BY <1>2, <1>3, <1>4, <1>5, <1>6, WishRoom, TypeParts, TypeNext
<1>8. TabsKept
  <2>1. \A u \in Tab : page'[u].terms = page[u].terms /\ page'[u].details = page[u].details
    BY <1>1, <1>2 DEF SameForm
  <2>2. \A u \in Tab : wish'[u] # wish[u] \/ cart = None
    <3>1. CASE cart = None
      BY <3>1
    <3>2. CASE cart # None
      BY <1>3, <3>2, Counters
    <3> QED BY <3>1, <3>2
  <2>3. shop.legal <= shop'.legal
    BY Counters
  <2> QED BY <1>3, <1>4, <2>1, <2>2, <2>3 DEF TabsKept, Released
<1>9. CallsKept
  BY <1>5 DEF CallsKept, Requests
<1> QED BY <1>6, <1>7, <1>8, <1>9 DEF Safe, Moves, OrdersKept

\* What a refusal does to the page.
LEMMA PageAnswered ==
  ASSUME TypeOK, NEW t \in Tab, NEW a \in Answers, a # "confirmed",
         page' = [page EXCEPT ![t] =
           CASE a = "preview invalid"  -> Invalidated(@)
             [] a = "version mismatch" -> [@ EXCEPT !.terms.legal = shop.legal]
             [] OTHER                  -> @]
  PROVE  /\ page' \in [Tab -> Page]
         /\ page'[t].details = page[t].details
         /\ \/ page'[t].terms = page[t].terms /\ a # "version mismatch"
            \/ page'[t].terms.legal = shop.legal /\ a = "version mismatch"
         /\ \A u \in Tab : u # t => page'[u] = page[u]
<1>1. page[t] \in Page
  BY TypeParts
<1>2. CASE a = "preview invalid"
  <2>1. page' = [page EXCEPT ![t] = Invalidated(page[t])]
    BY <1>2, Zenon
  <2> DEFINE p == Invalidated(page[t])
  <2>2. SameForm(p, page[t])
    BY <1>1, PageSteps
  <2> HIDE DEF p
  <2>3. /\ page' \in [Tab -> Page] /\ page'[t] = p
        /\ \A u \in Tab : u # t => page'[u] = page[u]
    BY <2>1, <2>2, PutPage DEF SameForm, p
  <2> QED BY <1>2, <2>2, <2>3 DEF SameForm
<1>3. CASE a = "version mismatch"
  <2>0. a # "preview invalid"
    BY <1>3
  <2>1. page' = [page EXCEPT ![t] = [page[t] EXCEPT !.terms.legal = shop.legal]]
    BY <1>3, <2>0, Zenon
  <2> DEFINE p == Rereading(page[t])
  <2>2. p \in Page /\ p.details = page[t].details /\ p.terms.legal = shop.legal
    BY <1>1, PageReads
  <2>3. page' = [page EXCEPT ![t] = p]
    BY <2>1 DEF Rereading
  <2> HIDE DEF p
  <2>4. /\ page' \in [Tab -> Page] /\ page'[t] = p
        /\ \A u \in Tab : u # t => page'[u] = page[u]
    BY <2>2, <2>3, PutPage
  <2> QED BY <1>3, <2>2, <2>4
<1>4. CASE a # "preview invalid" /\ a # "version mismatch"
  <2>1. page' = [page EXCEPT ![t] = page[t]]
    BY <1>4, Zenon
  <2>2. /\ page' \in [Tab -> Page] /\ page'[t] = page[t]
        /\ \A u \in Tab : u # t => page'[u] = page[u]
    BY <1>1, <2>1, PutPage
  <2> QED BY <1>4, <2>2
<1> QED BY <1>2, <1>3, <1>4

LEMMA HearsRefusal ==
  ASSUME TypeOK, Tally, NEW t \in Tab, call[t] # None, NEW a \in Answers, call[t].answer = a,
         a # "confirmed", call' = [call EXCEPT ![t] = None],
         key' = [key EXCEPT ![t] = IF ReleasesKey(a) THEN None ELSE @],
         page' = [page EXCEPT ![t] =
           CASE a = "preview invalid"  -> Invalidated(@)
             [] a = "version mismatch" -> [@ EXCEPT !.terms.legal = shop.legal]
             [] OTHER                  -> @],
         UNCHANGED <<cart, news, wish>>,
         UNCHANGED <<asks, strays, orders, shop>>, UNCHANGED <<edits, changes, mishaps>>
  PROVE  Safe
<1>1. /\ page' \in [Tab -> Page]
      /\ page'[t].details = page[t].details
      /\ \/ page'[t].terms = page[t].terms /\ a # "version mismatch"
         \/ page'[t].terms.legal = shop.legal /\ a = "version mismatch"
      /\ \A u \in Tab : u # t => page'[u] = page[u]
  BY PageAnswered, Zenon
<1>2. /\ key' \in [Tab -> Key \cup {None}]
      /\ key'[t] = key[t] \/ (key'[t] = None /\ a \in {"key reused", "version mismatch"})
      /\ \A u \in Tab : u # t => key'[u] = key[u]
  BY TypeParts DEF ReleasesKey
<1>3. /\ call' \in [Tab -> Call \cup {None}] /\ call'[t] = None
      /\ \A u \in Tab : u # t => call'[u] = call[u]
  BY TypeParts
<1>4. Tally'
  BY TallySame
<1>5. TypeOK'
  BY <1>1, <1>2, <1>3, TypeParts, TypeNext
<1>6. TabsKept
  <2>1. shop.legal <= shop'.legal /\ \A u \in Tab : wish[u] <= wish'[u] /\ wish'[u] = wish[u]
    BY WishSame
  <2>2. \A u \in Tab : /\ page'[u].details = page[u].details
                       /\ \/ page'[u].terms.legal = page[u].terms.legal
                          \/ page'[u].terms.legal = shop.legal
    BY <1>1
  <2>3. \A u \in Tab : key'[u] = key[u] \/ (key'[u] = None /\ Released(u))
    BY <1>1, <1>2 DEF Released
  <2>4. cart' = cart
    OBVIOUS
  <2> QED BY <2>1, <2>2, <2>3, <2>4 DEF TabsKept
<1>7. CallsKept
  BY <1>3 DEF CallsKept, Requests
<1> QED BY <1>4, <1>5, <1>6, <1>7 DEF Safe, Moves, OrdersKept

LEMMA HearSafe ==
  ASSUME TypeOK, Tally, NEW t \in Tab, Hear(t)
  PROVE  Safe
<1> DEFINE a == call[t].answer
<1>1. /\ call[t] # None /\ call' = [call EXCEPT ![t] = None]
      /\ UNCHANGED <<asks, strays, orders, shop>> /\ UNCHANGED <<edits, changes, mishaps>>
  BY DEF Hear, bounds
<1>2. a \in Answers
  BY <1>1, RequestsTyped
<1>3. CASE /\ WriteCart(t, None) /\ key' = [key EXCEPT ![t] = None]
           /\ page' = [page EXCEPT ![t] = Thanking(page[t])]
  BY <1>1, <1>3, HearsConfirmed
<1>4. CASE /\ a # "confirmed"
           /\ key' = [key EXCEPT ![t] = IF ReleasesKey(a) THEN None ELSE @]
           /\ page' = [page EXCEPT ![t] =
                CASE a = "preview invalid"  -> Invalidated(@)
                  [] a = "version mismatch" -> [@ EXCEPT !.terms.legal = shop.legal]
                  [] OTHER                  -> @]
           /\ UNCHANGED <<cart, news, wish>>
  BY <1>1, <1>2, <1>4, HearsRefusal, Zenon
<1> QED BY <1>3, <1>4, Zenon DEF Hear, Thanking

\* An order is asked for.
Requested(t, k) ==
  [tab |-> t, key |-> k, wish |-> wish[t], basket |-> cart, details |-> page[t].details,
   price |-> page[t].terms.price, accepted |-> page[t].terms.legal, token |-> page[t].preview]

LEMMA SubmitDoes ==
  ASSUME TypeOK, NEW t \in Tab, Submit(t)
  PROVE  \E k \in Key :
           /\ key[t] # None => k = key[t]
           /\ key[t] = None => k \notin UsedKeys
           /\ key' \in [Tab -> Key \cup {None}] /\ key'[t] = k
           /\ \A u \in Tab : u # t => key'[u] = key[u]
           /\ Requested(t, k) \in Request
           /\ call' \in [Tab -> Call \cup {None}]
           /\ call'[t] = [answer |-> "none", request |-> Requested(t, k)]
           /\ \A u \in Tab : u # t => call'[u] = call[u]
<1> DEFINE k == IF key[t] = None THEN FreshKey ELSE key[t]
<1>1. k \in Key /\ (key[t] # None => k = key[t]) /\ (key[t] = None => k \notin UsedKeys)
  <2>1. CASE key[t] = None
    BY <2>1 DEF Submit, KeysLeft, FreshKey
  <2>2. CASE key[t] # None
    BY <2>2, TypeParts
  <2> QED BY <2>1, <2>2
<1>2. /\ key' = [key EXCEPT ![t] = k]
      /\ call' = [call EXCEPT ![t] = [answer |-> "none", request |-> Requested(t, k)]]
  BY DEF Submit, Requested
<1>3. cart \in Basket /\ page[t] \in Page /\ page[t].preview \in Token
  BY TypeParts, PageFields DEF Submit, Ready
<1> HIDE DEF k
<1>4. Requested(t, k) \in Request
  <2>1. /\ page[t].details \in Details /\ page[t].terms.price \in 0 .. MaxChanges
        /\ page[t].terms.legal \in 0 .. MaxChanges /\ wish[t] \in Wishes
    BY <1>3, PageFields, TermsFields, TypeParts
  <2> QED BY <1>1, <1>3, <2>1 DEF Requested, Request
<1> DEFINE c == [answer |-> "none", request |-> Requested(t, k)]
<1>5. c \in Call
  BY <1>4 DEF Call, Answers
<1> HIDE DEF c
<1>6. /\ key' \in [Tab -> Key \cup {None}] /\ key'[t] = k
      /\ \A u \in Tab : u # t => key'[u] = key[u]
  BY <1>1, <1>2, TypeParts
<1>7. call' = [call EXCEPT ![t] = c]
  BY <1>2 DEF c
<1>8. /\ call' \in [Tab -> Call \cup {None}] /\ call'[t] = c
      /\ \A u \in Tab : u # t => call'[u] = call[u]
  BY <1>5, <1>7, TypeParts
<1> QED BY <1>1, <1>4, <1>6, <1>8 DEF c

LEMMA SubmitTypes ==
  ASSUME TypeOK, Tally, NEW t \in Tab, Submit(t)
  PROVE  TypeOK' /\ Tally'
<1>1. /\ UNCHANGED <<cart, page, asks, strays, news, orders, shop, wish>>
      /\ UNCHANGED <<edits, changes, mishaps>>
  BY DEF Submit, bounds
<1>2. key' \in [Tab -> Key \cup {None}] /\ call' \in [Tab -> Call \cup {None}]
  BY SubmitDoes
<1>3. Tally'
  BY <1>1, TallySame
<1> QED BY <1>1, <1>2, <1>3, TypeParts, TypeNext

\* The new request is all that is new on the trail.
LEMMA SubmitTrail ==
  ASSUME TypeOK, NEW t \in Tab, NEW k \in Key, UNCHANGED <<strays, orders, shop>>,
         call[t] = None, call'[t] = [answer |-> "none", request |-> Requested(t, k)],
         \A u \in Tab : u # t => call'[u] = call[u]
  PROVE  LET x == MarkOfRequest(Requested(t, k)) IN
         Trail' \subseteq Trail \cup {x} /\ Live' \subseteq Live \cup {x}
<1> DEFINE r == Requested(t, k)
           x == MarkOfRequest(r)
<1>1. Requests' \subseteq Requests \cup {r}
  BY DEF Requests
<1>2. Asked' \subseteq Asked \cup {x}
  BY <1>1 DEF Asked, MarkOfRequest
<1>3. Placed' = Placed
  BY DEF Placed, MarkOfOrder
<1> QED BY <1>2, <1>3 DEF Trail, Live

LEMMA SubmitKeeps ==
  ASSUME TypeOK, Tally, KeysInv, NEW t \in Tab, Submit(t)
  PROVE  KeysInv'
<1>1. PICK k \in Key :
        /\ key[t] # None => k = key[t]
        /\ key[t] = None => k \notin UsedKeys
        /\ key' \in [Tab -> Key \cup {None}] /\ key'[t] = k
        /\ \A u \in Tab : u # t => key'[u] = key[u]
        /\ Requested(t, k) \in Request
        /\ call' \in [Tab -> Call \cup {None}]
        /\ call'[t] = [answer |-> "none", request |-> Requested(t, k)]
        /\ \A u \in Tab : u # t => call'[u] = call[u]
  BY SubmitDoes
<1>2. UNCHANGED <<cart, page, strays, orders, shop, wish>> /\ call[t] = None
  BY DEF Submit, Ready
<1> DEFINE r == Requested(t, k)
           x == MarkOfRequest(r)
<1>3. Trail' \subseteq Trail \cup {x} /\ Live' \subseteq Live \cup {x}
  BY <1>1, <1>2, SubmitTrail
<1>4. /\ x.tab = t /\ x.key = k /\ x.wish = wish[t] /\ x.basket = cart
      /\ x.details = page[t].details /\ x.legal = page[t].terms.legal
  BY DEF MarkOfRequest, Requested
<1>5. /\ r.tab = t /\ r.key = k /\ r.wish = wish[t] /\ r.accepted = page[t].terms.legal
      /\ call'[t].answer = "none" /\ call'[t].request = r
  BY <1>1 DEF Requested
<1>6. x \in Mark /\ Trail \subseteq Mark /\ Live \subseteq Trail
  BY <1>1, MarkTyped, TrailTyped
<1> HIDE DEF x, r
<1>7. \A y \in Trail : /\ y.tab \in Tab /\ y.key \in Key /\ y.wish \in Nat /\ y.legal \in Nat
                       /\ y.key # None
  BY <1>6, MarkFields, StorefrontAssumption
<1>8. \A u \in Tab : wish[u] \in Nat /\ page[u].terms.legal \in Nat
  BY TypeParts, PageFields, WishesNat
\* A key that is in use and is k is the tab's own.
<1>9. /\ \A y \in Trail : y.key = k => y.tab = t
      /\ \A u \in Tab : key[u] = k => u = t
  <2>1. CASE key[t] # None
    BY <1>1, <2>1 DEF KeysInv, Owned
  <2>2. CASE key[t] = None
    <3>1. k \notin UsedKeys
      BY <1>1, <2>2
    <3>2. \A y \in Trail : y.key \in UsedKeys
      BY DEF Trail, Asked, Placed, MarkOfRequest, MarkOfOrder, UsedKeys
    <3>3. \A u \in Tab : key[u] \in UsedKeys
      BY DEF UsedKeys
    <3> QED BY <3>1, <3>2, <3>3
  <2> QED BY <2>1, <2>2
<1>10. Owned'
  <2>1. ASSUME NEW y \in Trail', NEW z \in Trail', y.key = z.key
        PROVE  y.tab = z.tab
    BY <1>3, <1>4, <1>9, <2>1 DEF KeysInv, Owned
  <2>2. ASSUME NEW y \in Trail', NEW u \in Tab, y.key = key'[u]
        PROVE  y.tab = u
    BY <1>1, <1>3, <1>4, <1>9, <2>2 DEF KeysInv, Owned
  <2>3. ASSUME NEW u \in Tab, NEW v \in Tab, key'[u] = key'[v], key'[u] # None
        PROVE  u = v
    BY <1>1, <1>9, <2>3 DEF KeysInv, Owned
  <2> QED BY <2>1, <2>2, <2>3 DEF Owned
<1>11. Behind'
  <2>1. ASSUME NEW y \in Trail'
        PROVE  y.wish <= wish[y.tab] /\ y.legal <= page[y.tab].terms.legal
    BY <1>3, <1>4, <1>8, <2>1 DEF KeysInv, Behind
  <2> QED BY <1>2, <2>1 DEF KeysInv, Behind
<1>12. SameText'
  <2>1. ASSUME NEW y \in Trail', y.wish = wish[y.tab]
        PROVE  y.basket = cart /\ y.details = page[y.tab].details
    BY <1>3, <1>4, <2>1 DEF KeysInv, SameText
  <2>2. ASSUME NEW y \in Trail', NEW z \in Trail', y.tab = z.tab, y.wish = z.wish
        PROVE  y.basket = z.basket /\ y.details = z.details
    BY <1>3, <1>4, <2>2 DEF KeysInv, SameText
  <2> QED BY <1>2, <2>1, <2>2 DEF SameText
<1>13. Waiting'
  <2> SUFFICES ASSUME NEW u \in Tab, call'[u] # None
               PROVE  /\ call'[u].request.tab = u /\ key'[u] \in {None, call'[u].request.key}
                      /\ \A y \in Trail' : y.tab = u =>
                           y.wish <= call'[u].request.wish /\ y.legal <= call'[u].request.accepted
                      /\ call'[u].answer = "version mismatch" =>
                           call'[u].request.accepted # shop.legal
                      /\ call'[u].answer = "key reused" =>
                           \E o \in orders : o.key = call'[u].request.key
                                             /\ ~SameRequest(o, call'[u].request)
    BY <1>2 DEF Waiting, SameRequest
  <2>1. CASE u = t
    <3>1. \A y \in Trail' : y.tab = t => y.wish <= wish[t] /\ y.legal <= page[t].terms.legal
      BY <1>3, <1>4, <1>8 DEF KeysInv, Behind
    <3> QED BY <1>1, <1>5, <2>1, <3>1
  <2>2. CASE u # t
    <3>1. call'[u] = call[u] /\ key'[u] = key[u]
      BY <1>1, <2>2
    <3>2. \A y \in Trail' : y.tab = u => y \in Trail
      BY <1>3, <1>4, <2>2
    <3> QED BY <3>1, <3>2 DEF KeysInv, Waiting
  <2> QED BY <2>1, <2>2
<1>14. \A y \in Live : y.tab = t /\ y.wish = wish[t] /\ y.legal = page[t].terms.legal => y.key = k
  BY <1>1, <1>6, <1>7 DEF KeysInv, Current
<1>15. Current'
  <2>1. ASSUME NEW y \in Live', y.wish = wish[y.tab], y.legal = page[y.tab].terms.legal
        PROVE  y.key = key'[y.tab]
    <3>1. CASE y = x
      BY <1>1, <1>4, <3>1
    <3>2. CASE y \in Live /\ y.tab = t
      BY <1>1, <1>14, <2>1, <3>2
    <3>3. CASE y \in Live /\ y.tab # t
      BY <1>1, <1>6, <1>7, <2>1, <3>3 DEF KeysInv, Current
    <3> QED BY <1>3, <3>1, <3>2, <3>3
  <2> QED BY <1>2, <2>1 DEF Current
<1>16. OneKey'
  BY <1>3, <1>4, <1>14 DEF KeysInv, OneKey
<1> QED BY <1>10, <1>11, <1>12, <1>13, <1>15, <1>16 DEF KeysInv

-----------------------------------------------------------------------------
(* The theorems.                                                           *)

LEMMA InitHolds ==
  ASSUME Init
  PROVE  IInv
<1>1. TypeOK
  <2>1. 0 \in Wishes /\ 0 \in 0 .. MaxChanges
    BY BoundsNat DEF Wishes
  <2>2. shop \in Terms
    BY <2>1 DEF Init, Terms
  <2>3. page \in [Tab -> Page]
    BY <2>2, StorefrontAssumption DEF Init, Page
  <2>4. \A t \in Tab : call[t] = None
    BY DEF Init
  <2>5. wish \in [Tab -> Wishes]
    BY <2>1 DEF Init
  <2>6. cart \in Basket \cup {None} /\ key \in [Tab -> Key \cup {None}]
        /\ asks \in [Tab -> SUBSET Ask] /\ call \in [Tab -> Call \cup {None}]
        /\ strays = {} /\ orders = {} /\ news \in [Tab -> BOOLEAN]
    BY StorefrontAssumption DEF Init
  <2> QED BY <2>2, <2>3, <2>5, <2>6, TypeParts
<1>2. Trail = {} /\ Live = {}
  BY DEF Init, Trail, Live, Asked, Placed, Requests
<1>3. Tally
  BY BoundsNat DEF Init, Tally
<1>4. \A t \in Tab : page[t].terms.legal <= shop.legal
  BY DEF Init
<1>5. KeysInv
  BY <1>2, <1>4 DEF Init, KeysInv, Owned, Behind, SameText, Waiting, Current, OneKey
<1> QED BY <1>1, <1>3, <1>5 DEF IInv

LEMMA StepHolds ==
  ASSUME IInv, [Next]_vars
  PROVE  IInv'
<1> USE DEF IInv
<1>1. CASE Safe
  BY <1>1, MovesKeep DEF Safe
<1>2. ASSUME NEW t \in Tab, EditCart(t) \/ HearOfCart(t)
      PROVE  IInv'
  BY <1>1, <1>2, EditCartSafe, HearOfCartSafe
<1>3. ASSUME NEW t \in Tab, BuyerStep(t)
      PROVE  IInv'
  <2>1. CASE EditDetails(t) \/ Prepare(t) \/ Refuse(t) \/ Reload(t)
    BY <1>1, <2>1, EditDetailsSafe, PrepareSafe, RefuseSafe, ReloadSafe
  <2>2. CASE Submit(t)
    BY <2>2, SubmitTypes, SubmitKeeps
  <2>3. CASE ShowPreview(t) \/ Serve(t) \/ Hear(t)
    BY <1>1, <2>3, ShowPreviewSafe, ServeSafe, HearSafe
  <2>4. CASE LoseCall(t) \/ LosePreview(t) \/ Expire(t)
    BY <1>1, <2>4, LoseCallSafe, LosePreviewSafe, ExpireSafe
  <2> QED BY <1>3, <2>1, <2>2, <2>3, <2>4 DEF BuyerStep
<1>4. CASE ServeStray \/ Change
  BY <1>1, <1>4, ServeStraySafe, ChangeSafe
<1>5. CASE UNCHANGED vars
  <2>1. TypeOK'
    BY <1>5 DEF vars, bounds, TypeOK
  <2>2. Tally'
    BY <1>5 DEF vars, bounds, Tally
  <2>3. Moves
    BY <1>5, TabsSame DEF vars, bounds, Moves, CallsKept, OrdersKept, Requests
  <2> QED BY <1>1, <2>1, <2>2, <2>3 DEF Safe
<1> QED BY <1>2, <1>3, <1>4, <1>5, StorefrontAssumption DEF Next

\* The inductive invariant: who has asked for what under which key.
THEOREM InvHolds == Spec => []IInv
<1>1. Init => IInv
  BY InitHolds
<1>2. IInv /\ [Next]_vars => IInv'
  BY StepHolds
<1> QED BY <1>1, <1>2, PTL DEF Spec

\* Type correctness: the bounds on wishes and versions, and the unique keys
\* and numbers of the orders table, hold however many tabs, edits and
\* mishaps there are (public/store-core.js, db/schema.ts:13).
THEOREM TypeCorrect == Spec => []TypeOK
<1>1. IInv => TypeOK
  BY DEF IInv
<1> QED BY <1>1, InvHolds, PTL

\* A retry dedupes: for one wish of one tab under one legal version there is
\* never a second order, whatever is lost, late, expired or loaded again
\* (public/store-core.js:566).
THEOREM RetriesDedupe == Spec => []OneOrderPerWish
<1>1. IInv => OneOrderPerWish
  <2> SUFFICES ASSUME IInv, NEW o1 \in orders, NEW o2 \in orders,
                      o1.tab = o2.tab, o1.wish = o2.wish, o1.terms.legal = o2.terms.legal
               PROVE  o1 = o2
    BY DEF OneOrderPerWish
  <2>1. MarkOfOrder(o1) \in Live /\ MarkOfOrder(o2) \in Live
    BY DEF Live, Placed
  <2>2. \A o \in {o1, o2} : /\ MarkOfOrder(o).tab = o.tab /\ MarkOfOrder(o).wish = o.wish
                            /\ MarkOfOrder(o).legal = o.terms.legal /\ MarkOfOrder(o).key = o.key
    BY DEF MarkOfOrder
  <2>3. o1.key = o2.key
    BY <2>1, <2>2 DEF IInv, KeysInv, OneKey
  <2> QED BY <2>3, TypeParts DEF IInv
<1> QED BY <1>1, InvHolds, PTL

\* Nothing is ordered but what was shown and accepted, while it is in force.
LEMMA SoldAsShown ==
  ASSUME TypeOK, NEW r \in Requests, Handle(r), NEW o \in orders' \ orders
  PROVE  /\ o.terms = shop /\ r.key = o.key /\ r.tab = o.tab
         /\ r.token = [number |-> o.number, basket |-> o.basket, details |-> o.details,
                       terms |-> o.terms]
<1>1. Verdict(r) = "placed" /\ o = Sale(r)
  BY HandleIs
<1>2. r.accepted = shop.legal /\ r.token.terms = shop /\ r.token.basket = r.basket
      /\ r.token.details = r.details
  BY <1>1, VerdictSays DEF Bound
<1>3. /\ o.key = r.key /\ o.tab = r.tab /\ o.number = r.token.number /\ o.basket = r.basket
      /\ o.details = r.details /\ o.terms = [price |-> shop.price, legal |-> r.accepted]
  BY <1>1 DEF Sale
<1>4. o.terms = shop
  BY <1>2, <1>3, TypeParts, TermsFields
<1>5. r.token = [number |-> r.token.number, basket |-> r.token.basket,
                 details |-> r.token.details, terms |-> r.token.terms]
  BY RequestsTyped, RequestFields, TokenFields
<1> QED BY <1>2, <1>3, <1>4, <1>5

\* The binding of an order to its preview: no step places an order whose
\* basket, details, price and documents are not those of the token of a
\* request, or no longer in force (lib/legal-preview-binding.ts:10).
THEOREM BoundToPreview == Spec => OrderedAsShown
<1> DEFINE Shown(o) ==
             /\ o.terms = shop
             /\ \E r \in Requests :
                  /\ r.key = o.key /\ r.tab = o.tab
                  /\ r.token = [number |-> o.number, basket |-> o.basket,
                                details |-> o.details, terms |-> o.terms]
           Step == \A o \in orders' \ orders : Shown(o)
<1>1. TypeOK /\ [Next]_vars => Step
  <2> SUFFICES ASSUME TypeOK, [Next]_vars, NEW o \in orders' \ orders
               PROVE  Shown(o)
    OBVIOUS
  <2>1. ASSUME NEW r \in Requests, Handle(r)
        PROVE  Shown(o)
    BY <2>1, SoldAsShown
  <2>2. ASSUME NEW t \in Tab, Serve(t)
        PROVE  Shown(o)
    <3>1. call[t].request \in Requests /\ Handle(call[t].request)
      BY <2>2, RequestsTyped DEF Serve
    <3> QED BY <2>1, <3>1
  <2>3. CASE ServeStray
    <3>1. PICK r \in strays : Handle(r)
      BY <2>3 DEF ServeStray
    <3> QED BY <2>1, <3>1 DEF Requests
  <2>4. orders' # orders
    OBVIOUS
  <2>5. ASSUME NEW t \in Tab, EditCart(t) \/ HearOfCart(t)
        PROVE  FALSE
    BY <2>4, <2>5 DEF EditCart, HearOfCart
  <2>6. ASSUME NEW t \in Tab, BuyerStep(t), ~Serve(t)
        PROVE  FALSE
    BY <2>4, <2>6 DEF BuyerStep, EditDetails, Prepare, Submit, Refuse, Reload, ShowPreview,
                      Hear, LoseCall, LosePreview, Expire
  <2> QED BY <2>2, <2>3, <2>4, <2>5, <2>6, StorefrontAssumption DEF Next, Change, vars
<1>2. Spec => [][Step]_vars
  BY <1>1, TypeCorrect, PTL DEF Spec
<1> QED BY <1>2 DEF OrderedAsShown
=============================================================================
