----------------------------- MODULE Storefront -----------------------------
(***************************************************************************)
(* The checkout as the customer's browser runs it: one cart in             *)
(* localStorage, shared by the tabs, an attempt key per tab in             *)
(* sessionStorage, and the legal preview, which lives in the memory of one *)
(* page (public/store-core.js).  The server signs what it showed           *)
(* (api/checkout/legal-preview) and takes an order only for that           *)
(* (api/orders, lib/legal-preview-binding.ts); what happens inside the     *)
(* order's transaction is module Stock.                                    *)
(*                                                                         *)
(* A basket is what the cart holds, details are the fields of the form     *)
(* that the server binds, a price stands for all the amounts and a legal   *)
(* version for all the required documents.                                 *)
(***************************************************************************)
EXTENDS Naturals, FiniteSets

CONSTANTS
  Tab,
  Buyer,        \* the tabs that show the checkout; the others show the shop
  Basket, Details,
  Key,          \* crypto.randomUUID() of the attempt keys: enough for the instance
  Number,       \* the order numbers that previews mint: enough, too
  None,
  FirstBasket, FirstDetails,
  MaxEdits,     \* changes of the cart and the form by the customer
  MaxChanges,   \* changes of a price or a legal document by the shop
  MaxMishaps,   \* lost calls, expired tokens and needless reloads
  MaxAsks       \* preview calls a page has under way at once

ASSUME StorefrontAssumption ==
  /\ Buyer \subseteq Tab
  /\ None \notin Basket \cup Key \cup Number
  /\ FirstBasket \in Basket /\ FirstDetails \in Details
  /\ {MaxEdits, MaxChanges, MaxMishaps, MaxAsks} \subseteq Nat

VARIABLES
  cart,         \* localStorage "ege-cart"
  key,          \* sessionStorage "ege-order-attempt" of each tab
  page,         \* the memory of each tab's page
  asks,         \* the preview calls under way of each page
  call,         \* the order call a page waits for
  strays,       \* order requests on their way that no page waits for
  news,         \* a "storage" event that a tab has not handled yet
  orders,       \* the orders table
  shop,         \* the price and the legal version in force
  wish,         \* how often what the tab would order has changed
  edits, changes, mishaps

vars == <<cart, key, page, asks, call, strays, news, orders, shop, wish,
          edits, changes, mishaps>>
bounds == <<edits, changes, mishaps>>

Wishes == 0 .. 2 * MaxEdits + 1
Terms == [price : 0 .. MaxChanges, legal : 0 .. MaxChanges]
Token == [number : Number, basket : Basket, details : Details, terms : Terms]
Request == [tab : Tab, key : Key, wish : Wishes, basket : Basket, details : Details,
            price : 0 .. MaxChanges, accepted : 0 .. MaxChanges, token : Token]
Order == [tab : Tab, key : Key, wish : Wishes, number : Number, basket : Basket,
          details : Details, terms : Terms]
Answers == {"none", "confirmed", "key reused", "version mismatch", "price changed",
            "preview invalid", "failed"}

-----------------------------------------------------------------------------
\* The tokens and keys that are in use; a new one is like none of them.
Requests == strays \cup {call[t].request : t \in {u \in Tab : call[u] # None}}
Tokens == {page[t].preview : t \in Tab} \ {None}
UsedKeys == {key[t] : t \in Tab} \cup {r.key : r \in Requests} \cup {o.key : o \in orders}
UsedNumbers == {p.number : p \in Tokens} \cup {r.token.number : r \in Requests}
               \cup {o.number : o \in orders}
FreshKey == CHOOSE k \in Key : k \notin UsedKeys
FreshNumber == CHOOSE n \in Number : n \notin UsedNumbers
KeysLeft == Key \ UsedKeys # {}              \* bounds of the instance: the code
NumbersLeft == Number \ UsedNumbers # {}     \* never runs out of either

StillLoading(p) == [p EXCEPT !.preview = None]       \* a fault

\* invalidateLegalPreview: also a call under way no longer blocks another one.
Invalidated(p) == [p EXCEPT !.preview = None, !.loading = FALSE]

\* writeCart by tab t: the other tabs hear of a changed cart by an event.
WriteCart(t, basket) ==
  /\ cart' = basket
  /\ news' = [u \in Tab |-> IF u # t /\ basket # cart THEN TRUE ELSE news[u]]
  /\ wish' = [u \in Tab |-> IF basket # cart THEN wish[u] + 1 ELSE wish[u]]

-----------------------------------------------------------------------------
\* ------------------------------ the customer ------------------------------

\* An "input" event of a field of LEGAL_PREVIEW_FIELDS.
EditDetails(t) ==
  /\ edits < MaxEdits /\ ~page[t].done
  /\ \E d \in Details \ {page[t].details} :
       page' = [page EXCEPT ![t] = [Invalidated(@) EXCEPT !.details = d]]
  /\ wish' = [wish EXCEPT ![t] = @ + 1]
  /\ edits' = edits + 1
  /\ UNCHANGED <<cart, key, asks, call, strays, news, orders, shop, changes, mishaps>>

\* addCart, changeCartQuantity, removeCart; a changed cart drops the tab's key.
EditCart(t) ==
  /\ edits < MaxEdits
  /\ \E basket \in (Basket \cup {None}) \ {cart} : WriteCart(t, basket)
  /\ key' = [key EXCEPT ![t] = None]
  /\ page' = [page EXCEPT ![t] = Invalidated(@)]
  /\ edits' = edits + 1
  /\ UNCHANGED <<asks, call, strays, orders, shop, changes, mishaps>>

\* requestLegalPreview, as far as its call.
Prepare(t) ==
  /\ ~page[t].done /\ ~page[t].loading /\ cart # None
  /\ Cardinality(asks[t]) < MaxAsks
  /\ asks' = [asks EXCEPT ![t] = @ \cup
       {[basket |-> cart, details |-> page[t].details, price |-> page[t].terms.price]}]
  /\ page' = [page EXCEPT ![t].loading = TRUE]
  /\ UNCHANGED <<cart, key, call, strays, news, orders, shop, wish, bounds>>

\* The customer has a preview and ticks every box the page offers.
Ready(t) ==
  /\ ~page[t].done /\ call[t] = None /\ cart # None /\ page[t].preview # None

\* The boxes are those of GET /api/legal/required as the page last read it.
BoxesMatch(t) == page[t].preview.terms.legal = page[t].terms.legal

\* submitOrder, as far as its call: cart and form as they are now, with the
\* token of the preview on the page.
Submit(t) ==
  /\ Ready(t) /\ BoxesMatch(t)
  /\ key[t] # None \/ KeysLeft
  /\ LET k == IF key[t] = None THEN FreshKey ELSE key[t] IN
     /\ key' = [key EXCEPT ![t] = k]
     /\ call' = [call EXCEPT ![t] =
          [answer  |-> "none",
           request |-> [tab |-> t, key |-> k, wish |-> wish[t], basket |-> cart,
                        details |-> page[t].details, price |-> page[t].terms.price,
                        accepted |-> page[t].terms.legal, token |-> page[t].preview]]]
  /\ UNCHANGED <<cart, page, asks, strays, news, orders, shop, wish, bounds>>

\* submitOrder refuses: the boxes are not those of the preview's documents.
Refuse(t) ==
  /\ Ready(t) /\ ~BoxesMatch(t)
  /\ page' = [page EXCEPT ![t] = Invalidated(@)]
  /\ UNCHANGED <<cart, key, asks, call, strays, news, orders, shop, wish, bounds>>

\* The page's catalogue and documents are out of date, or it shows an order
\* while the cart is full again: the customer has to load it again.
Outdated(t) == page[t].terms # shop \/ (page[t].done /\ cart # None)

\* The page is loaded again and reads catalogue and documents; the customer
\* fills in the form as before.  A call under way may still arrive.
Reload(t) ==
  LET waits == call[t] # None /\ call[t].answer = "none" IN
  /\ \/ Outdated(t) /\ call[t] = None /\ mishaps' = mishaps
     \/ mishaps < MaxMishaps /\ mishaps' = mishaps + 1
  /\ \/ strays' = strays
     \/ waits /\ strays' = strays \cup {call[t].request}
  /\ call' = [call EXCEPT ![t] = None]
  /\ asks' = [asks EXCEPT ![t] = {}]
  /\ news' = [news EXCEPT ![t] = FALSE]
  /\ page' = [page EXCEPT ![t] =
       [details |-> @.details, terms |-> shop, preview |-> None, loading |-> FALSE,
        done |-> FALSE]]
  /\ UNCHANGED <<cart, key, orders, shop, wish, edits, changes>>

-----------------------------------------------------------------------------
\* ------------------------------- the server -------------------------------

\* POST /api/checkout/legal-preview answers and the page shows what it got,
\* even if it was invalidated meanwhile.  The handler writes nothing and
\* reads the shop once, so its answer is as good as its arrival.
ShowPreview(t) ==
  /\ NumbersLeft
  /\ \E a \in asks[t] :
       /\ asks' = [asks EXCEPT ![t] = @ \ {a}]
       /\ page' = [page EXCEPT ![t] =
            IF a.price = shop.price
            THEN [@ EXCEPT !.loading = FALSE,
                           !.preview = [number |-> FreshNumber, basket |-> a.basket,
                                        details |-> a.details, terms |-> shop]]
            ELSE Invalidated(@)]
  /\ UNCHANGED <<cart, key, call, strays, news, orders, shop, wish, bounds>>

SameRequest(o, r) ==
  /\ o.basket = r.basket /\ o.details = r.details /\ o.terms.legal = r.accepted

BoundButForTheForm(r) ==                             \* a fault
  r.token.basket = r.basket /\ r.token.terms = shop

\* resolveLegalPreviewBinding: the digest of the current context is the token's.
Bound(r) ==
  /\ r.token.basket = r.basket /\ r.token.details = r.details
  /\ r.token.terms = shop

NothingSold(r) == {}                                 \* a fault

\* The replay: the order placed under the request's key.
Sold(r) == {o \in orders : o.key = r.key}

\* The unique order number: one preview makes one order.
NumberTaken(r) == \E o \in orders : o.number = r.token.number

Verdict(r) ==
  LET new == Sold(r) = {}
      current == r.accepted = shop.legal
      priced  == r.price = shop.price
  IN CASE ~new /\ (\E o \in Sold(r) : SameRequest(o, r)) -> "confirmed"
       [] ~new /\ (\A o \in Sold(r) : ~SameRequest(o, r)) -> "key reused"
       [] new /\ ~current -> "version mismatch"
       [] new /\ current /\ ~priced -> "price changed"
       [] new /\ current /\ priced /\ ~Bound(r) -> "preview invalid"
       [] new /\ current /\ priced /\ Bound(r) ->
            IF NumberTaken(r) THEN "failed" ELSE "placed"

\* POST /api/orders: the request is answered from the orders table by its
\* key, refused, or placed under the number of its preview.
Handle(r) ==
  orders' = IF Verdict(r) # "placed" THEN orders
            ELSE orders \cup {[tab |-> r.tab, key |-> r.key, wish |-> r.wish,
                               number |-> r.token.number, basket |-> r.basket,
                               details |-> r.details,
                               terms |-> [price |-> shop.price, legal |-> r.accepted]]}

Serve(t) ==
  /\ call[t] # None /\ call[t].answer = "none"
  /\ LET r == call[t].request IN
     /\ Handle(r)
     /\ call' = [call EXCEPT ![t].answer =
          IF Verdict(r) = "placed" THEN "confirmed" ELSE Verdict(r)]
  /\ UNCHANGED <<cart, key, page, asks, strays, news, shop, wish, bounds>>

ServeStray ==
  /\ \E r \in strays : Handle(r) /\ strays' = strays \ {r}
  /\ UNCHANGED <<cart, key, page, asks, call, news, shop, wish, bounds>>

\* A price or a legal document changes (one at a time).
Change ==
  /\ changes < MaxChanges /\ changes' = changes + 1
  /\ \/ shop' = [shop EXCEPT !.price = @ + 1]
     \/ shop' = [shop EXCEPT !.legal = @ + 1]
  /\ UNCHANGED <<cart, key, page, asks, call, strays, news, orders, wish, edits, mishaps>>

-----------------------------------------------------------------------------
\* -------------------------- answers and mishaps ---------------------------

NotConfirmed(answer) == answer # "confirmed"         \* a fault

\* The answers that make submitOrder drop the attempt key.
ReleasesKey(answer) == answer \in {"key reused", "version mismatch"}

\* submitOrder after its call.
Hear(t) ==
  /\ call[t] # None /\ call[t].answer # "none"
  /\ call' = [call EXCEPT ![t] = None]
  /\ LET answer == call[t].answer IN
     \/ /\ answer = "confirmed"
        /\ WriteCart(t, None) /\ key' = [key EXCEPT ![t] = None]
        /\ page' = [page EXCEPT ![t] = [Invalidated(@) EXCEPT !.done = TRUE]]
     \/ /\ answer # "confirmed"
        /\ key' = [key EXCEPT ![t] = IF ReleasesKey(answer) THEN None ELSE @]
        /\ page' = [page EXCEPT ![t] =
             CASE answer = "preview invalid"  -> Invalidated(@)
               [] answer = "version mismatch" -> [@ EXCEPT !.terms.legal = shop.legal]
               [] OTHER                       -> @]
        /\ UNCHANGED <<cart, news, wish>>
  /\ UNCHANGED <<asks, strays, orders, shop, bounds>>

\* The "storage" listener.
HearOfCart(t) ==
  /\ news[t]
  /\ news' = [news EXCEPT ![t] = FALSE]
  /\ page' = [page EXCEPT ![t] = Invalidated(@)]
  /\ UNCHANGED <<cart, key, asks, call, strays, orders, shop, wish, bounds>>

\* The connection of an order call breaks: before the request arrives, while
\* it is under way, or before the answer does.
LoseCall(t) ==
  /\ mishaps < MaxMishaps /\ mishaps' = mishaps + 1
  /\ call[t] # None
  /\ call' = [call EXCEPT ![t].answer = "failed"]
  /\ \/ strays' = strays
     \/ call[t].answer = "none" /\ strays' = strays \cup {call[t].request}
  /\ UNCHANGED <<cart, key, page, asks, news, orders, shop, wish, edits, changes>>

\* A preview call fails: network, rate limit or documents not published.
LosePreview(t) ==
  /\ mishaps < MaxMishaps /\ mishaps' = mishaps + 1
  /\ \E a \in asks[t] : asks' = [asks EXCEPT ![t] = @ \ {a}]
  /\ page' = [page EXCEPT ![t] = Invalidated(@)]
  /\ UNCHANGED <<cart, key, call, strays, news, orders, shop, wish, edits, changes>>

\* Fifteen minutes pass: the page drops the preview when it is used, or the
\* server refuses a token that expired on its way.
Expire(t) ==
  /\ mishaps < MaxMishaps /\ mishaps' = mishaps + 1
  /\ \/ /\ Ready(t)
        /\ page' = [page EXCEPT ![t] = Invalidated(@)]
        /\ UNCHANGED call
     \/ /\ call[t] # None /\ call[t].answer = "none"
        /\ \A o \in orders : o.key # call[t].request.key
        /\ call' = [call EXCEPT ![t].answer = "preview invalid"]
        /\ UNCHANGED page
  /\ UNCHANGED <<cart, key, asks, strays, news, orders, shop, wish, edits, changes>>

-----------------------------------------------------------------------------
Init ==
  /\ cart = FirstBasket
  /\ key = [t \in Tab |-> None]
  /\ shop = [price |-> 0, legal |-> 0]
  /\ page = [t \in Tab |-> [details |-> FirstDetails, terms |-> shop, preview |-> None,
                            loading |-> FALSE, done |-> FALSE]]
  /\ asks = [t \in Tab |-> {}]
  /\ call = [t \in Tab |-> None]
  /\ strays = {} /\ orders = {}
  /\ news = [t \in Tab |-> FALSE]
  /\ wish = [t \in Tab |-> 0]
  /\ edits = 0 /\ changes = 0 /\ mishaps = 0

BuyerStep(t) ==
  \/ EditDetails(t) \/ Prepare(t) \/ Submit(t) \/ Refuse(t) \/ Reload(t)
  \/ ShowPreview(t) \/ Serve(t) \/ Hear(t)
  \/ LoseCall(t) \/ LosePreview(t) \/ Expire(t)

Next ==
  \/ \E t \in Tab : EditCart(t) \/ HearOfCart(t)
  \/ \E t \in Buyer : BuyerStep(t)
  \/ ServeStray \/ Change

Spec == Init /\ [][Next]_vars

\* Calls are answered, events handled, and a customer with a full cart goes
\* on: prepares, accepts, submits, and reloads a page that is out of date or
\* shows an older order.
Fairness ==
  \A t \in Buyer :
    /\ WF_vars(page[t].preview = None /\ Prepare(t))
    /\ WF_vars(ShowPreview(t)) /\ WF_vars(Serve(t)) /\ WF_vars(Hear(t))
    /\ WF_vars(HearOfCart(t))
    /\ SF_vars(Submit(t)) /\ WF_vars(Refuse(t))
    /\ SF_vars(Outdated(t) /\ call[t] = None /\ Reload(t))

FairSpec == Spec /\ Fairness

-----------------------------------------------------------------------------
\* Type correctness of the browser's storage, the pages, the calls and the
\* orders table, whose keys and numbers are unique (public/store-core.js,
\* app/api/orders/route.ts, db/schema.ts:13).
TypeOK ==
  /\ cart \in Basket \cup {None}
  /\ key \in [Tab -> Key \cup {None}]
  /\ page \in [Tab -> [details : Details, terms : Terms, preview : Token \cup {None},
                       loading : BOOLEAN, done : BOOLEAN]]
  /\ asks \in [Tab -> SUBSET [basket : Basket, details : Details, price : 0 .. MaxChanges]]
  /\ call \in [Tab -> [answer : Answers, request : Request] \cup {None}]
  /\ strays \subseteq Request /\ orders \subseteq Order
  /\ \A o1, o2 \in orders : o1.key = o2.key \/ o1.number = o2.number => o1 = o2
  /\ news \in [Tab -> BOOLEAN] /\ shop \in Terms /\ wish \in [Tab -> Wishes]

\* "Network failures keep [the key] so a retry dedupes" (store-core.js:566):
\* as long as the customer changes neither cart nor form, lost answers,
\* expired previews, reloads and other tabs never make two orders of one;
\* only a new legal version, which the customer has to accept, can.
OneOrderPerWish ==
  \A o1, o2 \in orders :
    o1.tab = o2.tab /\ o1.wish = o2.wish /\ o1.terms.legal = o2.terms.legal => o1 = o2

\* An order is placed only while its basket, details, price and documents
\* are those of a text the customer was shown and accepted, under the number
\* in that text, and that is still in force (lib/legal-preview-binding.ts:10).
OrderedAsShown ==
  [][\A o \in orders' \ orders :
       /\ o.terms = shop
       /\ \E r \in Requests :
            /\ r.key = o.key /\ r.tab = o.tab
            /\ r.token = [number |-> o.number, basket |-> o.basket, details |-> o.details,
                          terms |-> o.terms]]_vars

\* A customer who leaves something in the cart and goes on gets an order in
\* the end: no answer, lost call or page state leaves the checkout stuck.
CheckoutEnds == cart # None ~> cart = None
=============================================================================
