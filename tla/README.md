# alpha-shop in TLA+

This directory holds TLA+ specifications of the shop in this repository, the TLC
configurations that model-check them on small instances, and TLAPS proofs of
the main safety properties for every instance. Run TLC and TLAPS inside this
directory:

    tlc -workers 4 -config OrderFaults.cfg MCOrderPlacement.tla
    tlapm OrderPlacementProofs.tla      (and SumTheorems, CartProofs, BuyPathProofs,
                                         AccountsProofs, ShopTabProofs, ListTheorems,
                                         BrowseProofs)

## 1. The system

Seven Go services, two AWS back ends and a browser application. Each service runs
two replicas behind a Kubernetes service; a rolling update sends SIGTERM and drains
for 10 s. Services call each other over HTTP with the caller's request context and a
client **without a timeout**; servers have a `WriteTimeout` of 10 s.

| Component | Code | State it keeps | Operations |
|---|---|---|---|
| web SPA: buying | `web/src/context`, `pages/Product`, `Cart`, `Checkout`, `Login`, `Signup` | query cache, anonymous session id, mutations in flight | change the cart, sign in and out, check out |
| web SPA: browsing | `pages/Category`, `pages/Search`, `components/Header`, `Pager` | address, query observer, page of the grid, open menu | filter, search, turn pages, use the menus |
| storefront (BFF) | `cmd/storefront` | none (cookie, header) | cart proxies, auth proxies, checkout with merge, order history, catalogue pages |
| accounts | `cmd/accounts`, `internal/accounts` | users table, sessions table | signup, login, verify, logout |
| cart | `cmd/cart`, `internal/cart` | a document per session | get, add, remove, set quantity, clear |
| checkout | `cmd/checkout` | none | fetch cart, place order, clear cart |
| orders | `cmd/orders`, `internal/orders` | a document per order, a history document per user | place, get, list |
| payment | `cmd/payment`, `internal/payment` | none | charge |
| catalog | `cmd/catalog`, `internal/catalog` | products table (seeded), in-memory copy | list, detail, facets |
| flags | `internal/flags` | last flag set seen | poll, resync |
| adapters | `internal/awskv`, `internal/awsqueue`, `internal/paymentclient`, `internal/dispatchclient` | - | whole-document get, put, delete; send; charge; create shipment |

What a purchase does, end to end:

    browser -> storefront: verify cookie at accounts
                           merge the anonymous cart into the user's (n + 2 cart calls)
            -> checkout:   fetch the user's cart
               -> orders:  charge -> dispatch -> save -> append to history -> event -> 200
               clear the user's cart if placed
            <- 200 placed / declined, 400, 401, 502

Nothing in this chain is transactional, nothing is retried, and nothing is
idempotent by key. What makes it hard, and what the models are about:

* **Interleaving.** Cart and history documents are changed by unlocked
  read-modify-writes on two replicas; two checkouts of a user overlap.
* **Stale reads.** DynamoDB `GetItem` is called without `ConsistentRead`.
* **Partial failure.** Every call can fail before or after it took effect. Some
  failures end the request (charge, save, fetch); the others are logged and skipped
  (dispatch, history, event, merge, clear).
* **Hangs.** A call without a timeout outlives the server's `WriteTimeout`: the
  handler runs on, its answer is dropped.
* **Optimism in the browser.** The tab writes the answers of mutations into its query
  cache in the order they arrive, keeps requests in flight across sign-in, sign-out and
  navigation, and shows the last listing while it waits for the next.
* **Disconnects and crashes.** The caller's going away cancels the context of every
  later call; a pod may die between any two steps and nothing resumes.
* **Machine integers.** Quantities, prices and page numbers come from the browser and
  are added and multiplied unchecked.

What makes each component correct:

* orders: nothing is recorded, shipped or announced unpaid; histories never lie; what
  the caller is told is true; a charge ends as a durable order while the essential
  collaborators hold and every call returns.
* cart: one line per product; quantities are positive as long as their sums fit an int;
  races lose updates but invent none; without overlap an operation is atomic.
* checkout and merge: no unit is lost or multiplied between the two carts and the
  orders; a cart is emptied only into its order; every checkout is answered.
* accounts: one owner per address, a token identifies one user, logout and expiry
  end it.
* catalog and browse pages: the pages of a listing partition what the address asks for,
  in the shop's order; the pager tells how many pages there are and which one is shown;
  "no matches" means none.
* SPA, buying: the cart shown is the cart stored once nothing is under way; an order has
  the lines that were shown; a visit of the checkout page buys once unless it was told of
  a failure or heard nothing; whoever is shown as signed in is whom the cookie stands for.
* header: no menu snaps shut under the pointer, none is left open over the page.
* flags: the resolver ends up with the flags of the source (not modelled, section 5).

`PROJECT.json` lists the components with their status, and the hazards at their lines.

## 2. The modules

| Module | What it is |
|---|---|
| `OrderBook` | abstract: what the orders service promises |
| `OrderPlacement` | the orders service, one action per remote call and outcome |
| `OrderPlacementProofs` | theorems about `OrderPlacement`: types, money, histories, answers; that it implements `OrderBook`, lossy and exact |
| `AtomicCart` | abstract: a cart changed by one operation at a time |
| `MachineInts` | the sums of Go's `int` |
| `CartService` | the cart service, split at the read of the document, its write and the answer |
| `Sums`, `SumTheorems` | sums over finite sets, and the facts about them that the proofs need |
| `CartProofs` | theorems about `CartService`, and that it implements `AtomicCart` |
| `BuyPath` | extends `CartService` with storefront's and checkout's handlers |
| `BuyPathProofs` | theorems about `BuyPath`: answers, orders, and where every unit is |
| `Accounts` | accounts service with the storefront's cookie handling |
| `AccountsProofs` | theorems about `Accounts`: types, where sessions come from and when they end |
| `QueryCache` | one entry of the browser's query cache (the library, as the pages use it) |
| `CartCache` | extends `QueryCache`: the cart of a tab and its mutations |
| `ShopTab` | extends `CartCache`: sign-in, pages, checkouts, and the server's answers |
| `ShopTabProofs` | theorems about `ShopTab`: types, session, buying once, what the screen shows and what is ordered |
| `NavMenu` | the header's drop-down menus |
| `Lists`, `ListTheorems` | sorting and filtering, and the facts about lists that the proofs need |
| `CatalogListing` | the catalog's listing, pure, in machine integers |
| `Pager` | the pager, pure |
| `BrowsePages` | extends the last three: category page, search page and header |
| `BrowseProofs` | theorems about `BrowsePages`: types, menus, pager, and what every page of a listing shows |
| `MC...` | instances for TLC: symmetry sets, the products of `BrowsePages` |

Operators whose comment starts with *Slip* are variants of the operator that follows
them with a plausible programming error (a dropped check, a missing return). They are
not part of any specification; a property is known to be sensitive to the code because
it fails when the variant takes the operator's place (`mutants` in `PROJECT.json`).

### OrderPlacement

A request is its order id (ids are 8 random bytes). `stage[r]` is the program counter
of the handler of `POST /api/orders`; its values name the remote call the handler is
waiting for. `draft[r]` is the local `o`, `seen[r]` the history read by
`AppendToUserIndex`, `answer[r]` the status written, `client[r]` whether the caller
still waits. A handler whose call never returns stays at that call for good. `charged`, `shipments`, `events` are what the payment service, the
dispatch service and the queue have done; `orders` and `index` are the two key spaces
of the orders table and `past` the older versions a stale read may return.

| Code | Actions |
|---|---|
| decode, total, empty cart | `Accept`, `Reject` |
| `pay.Charge` and the verdict | `Approve`, `Decline`, `ChargeFails` |
| `dispatch.CreateShipment` | `Ship`, `ShipFails` |
| `store.Save` | `Save`, `SaveFails` |
| `AppendToUserIndex` | `ReadIndex`, `ReadIndexFails`, `WriteIndex`, `WriteIndexFails` |
| `events.Send` | `Emit`, `EmitFails` |
| 200 | `Respond` |
| `WriteTimeout`, disconnect, pod death | `CutOff`, `Leave`, `Crash` |

A failed call either did nothing or took effect and lost its answer. A call fails when
its service is in `Outages`, or when the caller has gone and the context is cancelled.
Amounts, lines, addresses and texts are left out: a total is positive (`Accept`) or
not (`Reject`), and the card decides nondeterministically.

### CartService

A document is the set of its lines `[id, price, qty]`; their order is presentation.
`Receive` is a request's arrival, `Read` the `Get` with the change of the local copy,
`Write` the `Put` or `Delete`, `Reply` the answer with that copy, `Fail` any store failure
or the pod's death. Other calls come between any two of these.

`cart.go:92` adds the quantities of a line as machine integers, and nothing on the way from
the browser checks them. `Add` takes a quantity that is not positive for one (`Clamped`) and
adds with `Plus`, which wraps at `MaxInt`. The quantities a caller asks for are in
`0..MaxQty`, 0 standing for all that are not positive: the code treats them alike. `wrapped`
is a history variable: some sum of two quantities did not fit. From then on a line may have a
negative quantity, and what is said of quantities is said only until then.

### BuyPath

`at[c]` is where checkout `c` is in the chain browser - storefront - checkout - orders.
Its cart calls are made through `CartService`'s own actions, so they interleave with the
shopper's calls and other checkouts at the granularity of reads and writes. The orders
service appears as its caller sees it: an order that is durable or not, in either
status, and an answer or none; when the pod that waits for it dies (`Crash`), the order may
be made all the same. A 502 stands for every failure the browser sees.

### Accounts

A call is one request of a browser through storefront and accounts; the token it may mint
has its name. `users` and `sessions` are the two tables (an address is its user's id, a
user document is its password), `cookie` is what the browser holds, `lapsed` the tokens
past their `ExpiresAt`. `CheckUser` is the read of `Signup` and `Login`, `SaveUser` and
`NewSession` their writes, `ReadSession` and `ReadOwner` the two reads of `Verify`,
`Delete` is `Logout`, `Deliver` what the storefront does with the answer, and `Lose` an answer
that does not come through. `answer[h]` is the accounts service's answer while the call is
`answered`, and what the browser is told once it is `done`: the storefront turns every
verification that did not succeed into 401 (`Passed`). `late` is a
history variable: the calls received when what they ask for was already gone, a sign-up
of a registered address or a verification of an ended token. `Expire` lets a session
lapse at any time after it was stored.

### QueryCache, CartCache and ShopTab

A query is a record: `data` (`NoData` until something was cached), `status`, `fetch` (how
far its one request in flight is), `body` (what that request will be answered) and `tries`.
`Invalidate`, `SetData`, `Ask`, `Fail` are what TanStack Query does for the pages; the
library is external, and these operators are what `web/src` relies on.

A cart mutation is a record `act[a]` that goes from `sent` (fired) over `served` (applied
by the server, its answer `env` on the way) to `over`; one that was under way when the tab
was reloaded is `adrift`: the server may still apply it, and nobody hears of it. A checkout
`ck[k]` goes from `sent` over `merged` and `clearing` to `answered`; `by` says whether the
page that submitted it, only the tab, or nobody follows it. `sign[s]` is a login, sign-up
or sign-out; it goes from `sent` over `half`, when its headers have set or cleared the cookie,
to `over`, when its body has named the tab's user. `stored` is the visitor's cart in the cart
service and `owned[u]` the user's own; `past` and `before` are their earlier versions, which
any read may still find.

| Code | Actions |
|---|---|
| `pages/Product`, `pages/Cart`: buttons | `Press` (`PressAdd`, `PressStep`, `PressRemove`) |
| `CartContext`: `onSuccess`, `onError` | `ActDone`, `ActFails` |
| `CartContext`: the cart query | `ServeCart`, `CartArrives`, `CartFails` |
| `AuthContext`, sign-in and sign-up forms, header | `LogIn`, `SignUp`, `LogOut`, `SignHeaders`, `SignDone`, `SignFails`, `MeArrives`, `MeFails` |
| `pages/Checkout` | `Redirect`, `Submit`, `HearPlaced`, `HearNo`, `NotHeard` |
| storefront's merge, checkout service | `Unsigned`, `Merge`, `MergeFalters`, `RefuseEmpty`, `Decline`, `Place`, `ClearCart`, `ClearFails`, `ChainFails` |
| links; reload; network back | `Go`, `Reload`, `Reconnect` |

The server is coarser here than in the modules about it: a cart call is one step that reads
some version of the cart (`CartService` splits it), and the merge and the chain behind a
checkout are one step each with their ways to fail (`BuyPath` has each call). `Merge` is the
merge whose calls all succeed and read the carts as they are, `MergeFalters` every other one.
What this module adds is the order in
which answers reach the tab, and what the pages do with them.

Five history variables say what a property needs to know of the past: `blind` (a change of
the stored cart was never told to this tab, or its last read found an older cart), `overtaken`
(a sign-in or sign-out was answered while the sign-in state was being read or another one was
being answered, or its answer broke off), `kept` (whose own cart holds the lines the tab
still shows), `bought` (the checkout page has had an order placed and was told nothing else)
and each checkout's `offer` (the lines its page showed, if nothing else was under way). No
step is guarded by one of them.

### CatalogListing, Pager, NavMenu and BrowsePages

`CatalogListing` is `Store.List`, `ListPaged` and the handler's parsing of its query, as
pure operators; integers wrap at `Half`, and a listing for which the handler panics is
`NoListing`, which the storefront answers with a 502. Products are sorted by `Lists`; the sort
is stable, so `name` stands for the place by name and then by table. `Pager` is
`Pager.tsx`. `NavMenu` is the header: which menu is open, whether a close is scheduled, and
where pointer and keyboard focus are.

`BrowsePages` composes them. `url` is the address, which holds every filter; `obs` the
page's query observer, whose `shown` is the last listing it had; `gridPage` the local page
of the category grid; `strayed` a history variable: the page number was chosen on another
listing than the one asked for, or typed into the address. A query whose request failed keeps
the listing it was itself answered before, so the sidebar goes on listing brands; it does not
keep the one that was only shown as a placeholder.

| Code | Actions |
|---|---|
| `pages/Category`: sidebar, chips | `ToggleBrand`, `SetBracket`, `CommitPrice`, `ToggleSale`, `ClearAll` |
| `pages/Category`, `pages/Search`: pager and form | `SetGridPage`, `GoToPage`, `SubmitSearch` |
| links, header search, addresses | `OpenCategory`, `HeaderSearch`, `Visit`, `Leave`, `MenuLink` |
| `lib/hooks.ts`, error block | `Arrives`, `Fails`, `Refetch` |
| `components/Header` | `PointerEnters`, `PointerLeaves`, `FocusEnters`, `FocusLeaves`, `ToggleMenu`, `Escape`, `FollowLink`, `TimerFires` |

The category page asks once for `CATEGORY_PAGE_SIZE` products, filters them by brand and
cuts pages of `GRID_PAGE_SIZE` from them; the search page asks the catalog for each page.
The catalog does not change while it runs, so whether a listing is still cached only
decides whether the page waits; that is left open.

## 3. The runs

| Run | Instance | Shows |
|---|---|---|
| `OrderFaults` | 2 requests, 2 users, all outages, stale reads | type invariant, `HistorySound`, `NothingUnpaid`, `AnswerTruthful`, refinement of the lossy `OrderBook` |
| `OrderSerial` | 3 requests of one user, one after another, consistent store, dispatch and queue out: their calls fail or never return | `SerialHistoryComplete`, refinement of the exact `OrderBook`, `PaidIsRecorded` |
| `OrderDispatchHang` | 1 request, dispatch out | `DispatchIsBestEffort` is **violated** |
| `CartRaces` | 3 overlapping calls, 1 product, 2 prices, quantities 0..2, sums that overflow, stale reads, failures | type invariant, `CartsWellFormed`, `LinesExplained`, `ReplyIsStored` |
| `CartSerial` | 3 calls one at a time, 2 products, 2 prices, failures | refinement of `AtomicCart`, `ReplyIsStored` |
| `BuyRaces` | 2 overlapping checkouts, 1 add, 2 prices, stale reads, every failure, fairness | type invariant, `OrdersExplained`, `RepliesTruthful`, `EveryCheckoutEnds` |
| `BuySerial` | 2 checkouts and 3 adds of 2 products one after another, everything but the cart failing | `NothingLost`, `NothingMultiplied`, `ClearedWasBought` |
| `AccountsRaces` | 4 overlapping calls of any kind, 1 address, 2 passwords, failures, expiry, consistent reads | type invariant, `SessionsEarned`, `LateIsRefused`, `SignedInLasts` |
| `SignupRace` | 2 sign-ups of one address, nothing failing | `OneSignupPerAddress` is **violated** |
| `MergeTwice` | 2 checkouts, 1 add, the cart failing, nothing else | `MergedOnce` is **violated** |
| `ShopTab` | 2 users, 1 item, 2 mutations, 2 checkouts, 2 sign-ins or -outs, 1 reload or reconnect, at most 3 of these in all, every failure | type invariant, `ShownIsStored`, `OrderIsOffer`, `UserShownTrue`, `BoughtOnce` |
| `Browse` | 7 products, 2 categories of 2 kinds, 2 brands, 2 words, the sidebar's 4 brackets and a typed range, all menus | type invariant, `CategoryExact`, `SearchExact`, `NothingMeansNothing`, `PagerTellsWhere`, `NeverUnderPointer`, `NoneLeftOpen` |

Bounds. Two requests are enough for a lost update and for one request to write over what
another has read, and two users for an entry to land in the wrong history; the third
request of `OrderSerial` makes a history whose order is visible. Three cart calls allow
a stale read of a version that is not the first. Four calls of the accounts service are
a sign-up, a verification, a logout that overtakes it, and a verification after that.
Two checkouts are needed for a second merge, and two products for a merge of more than
one line. Three steps of a tab are two overlapping mutations and a checkout, a decline
with its retry and a disturbance, or a sign-in that a read of `/me` overtakes; the units
of a line count, so one item tells carts apart. A failed read of the cart is not
repeated there, though the query client repeats it once: a second read only comes later
(`CartRetries`; the theorems about the tab hold for any number, and a run with 1 finds
nothing else and takes half as long again). The products of `Browse` include one at the
edge of a bracket, one on sale, and one whose sale price is higher than its price; a
category has up to four, a page two, so that a grid has two pages and a search up to
four; `TypedPages` has a page beyond the last, one whose offset wraps and one that is no
machine integer, `TypedPrices` a price that wraps in cents. No counter is unbounded:
every handler runs once, quantities come from calls, `MaxQty` bounds what a call asks
for.

`MaxInt` is small where sums are to overflow: 3 in `CartRaces`, where two adds of 2 already
wrap, 2 in `CartSerial`, where the third add of 1 does, and 1 in `BuyRaces`, where a merge of
one unit into another does. `BuySerial` and `MergeTwice` count units and have a `MaxInt` of 3,
which everything they add fits.

Why some runs are restricted. The code does lose updates: `internal/orders/orders.go`
says so of the history, and concurrent cart changes overwrite each other. So
completeness is stated where the code can give it, for calls on one user or session
that do not overlap and a table read consistently, while `OrderFaults`, `CartRaces`
and `BuyRaces` state what holds without those restrictions.

The tab may stop at any time (the visitor does nothing more and the bounds are used up), so
`ShopTab` does not check for deadlock. The browse pages never stop, and `Browse` does.

### Conditions in the properties of the tab

Each of these names something the code does otherwise, and the line where it does:

* `~blind` in `ShownIsStored`. When the answer to a mutation is lost, `CartContext.tsx:100`
  shows a toast and reads nothing; the old cart stays until the next read. The same holds
  of a checkout that was placed and not heard of, and of a change that a tab fired before
  its reload. And the read that follows a mutation's answer may find an older cart, since
  `internal/awskv/awskv.go:51` reads without `ConsistentRead`: nothing reads again.
* `~overtaken` in `UserShownTrue`. An answer to `/me` that was on its way during a sign-in
  or sign-out is written over its result (`AuthContext.tsx:54-66`). The cookie comes with an
  answer's headers and the tab's user with its body (`lib/api.ts:64-85`): two answers at
  once may take turns in a way that leaves the user of one and the cookie of the other, and
  an answer that breaks off leaves the cookie alone changed.
* `~bought` in `BoughtOnce`, which is reset in three cases. `Checkout.tsx:284` disables the
  button only while a checkout of the page is under way. The page was told that its checkout
  failed: a 502 does not tell whether the order was placed, the user's cart may still hold
  its lines, and a second press orders them again. The page heard nothing: the same. The page was left: coming back allows a second submission, and the answer to the
  first then navigates away from wherever the tab is.
* `offer` in `OrderIsOffer`. It is set only when nothing else was under way and the user's
  own cart was empty or shown; otherwise the order has lines the page did not show,
  because the merge adds to what the user's cart held. It is dropped when a call of the merge
  fails or reads an older cart, or the fetch does: a retry after a decline may merge the
  anonymous cart that was just cleared once more, or order the user's cart of before.
* `Cardinality(InCategory) <= CATEGORY_PAGE_SIZE` in `CategoryExact`. Beyond 100 products,
  the rest of a category is not shown and brands are not counted (`Category.tsx:11-15`).
* `Fits` in `CategoryExact` and `SearchExact`. A price wraps in `cmd/catalog/main.go:128`,
  a page's start in `internal/catalog/store.go:133`; a negative start panics, and the shop
  answers 502. A page number that is no `int` at all becomes page 1, so the number itself
  has to fit too, not only the start of its page: with one product to a page the first
  number that does not has a start that does.
* `~strayed` in `NothingMeansNothing` and `PagerTellsWhere`. A page turned while the listing
  before is still shown leads to a blank grid, or to "No matches" for a search that has
  some.

The properties of the other modules have such conditions too:

* `~wrapped` in the type invariant of the cart and in what `BuyPath` says of quantities. An
  order with a negative quantity is refused only if its total is not positive.
* `SignedInLasts` is about the accounts service's answer. The storefront answers 401 also when
  that service failed or was not reached (`cmd/storefront/auth.go:94-100`), and the tab then
  shows nobody as signed in, although the session stands.

Other things met on the way, which no property is about: any failed checkout is worded as
"Payment declined" (`Checkout.tsx:59`), also one whose order exists; the checkout page says
that the cart is empty when it could not be loaded (`Checkout.tsx:85`), and after a decline
once the cart was read again; the order list is cached across users and purchases
(`Orders.tsx:13`); "Under $100" includes $100, which is also in "$100 - $500"; the
header's pending close is not tied to the menu the pointer left, so it also closes a menu
that the keyboard has since been using, or that a click has opened (`Header.tsx:53-56`);
`Related` promises in-stock products and does not look at the stock
(`internal/catalog/store.go:144`); the load test expects a checkout without a sign-in to
succeed (`loadtest/shop.js:73-74`), which the storefront answers with 401.

### Fairness

A goroutine that can run takes its next step: that much Go's scheduler gives. A remote call
is another matter. The clients have no timeout (`internal/telemetry/telemetry.go:143`), the
request's context has no deadline, and `WriteTimeout` ends neither the call nor the handler
that waits for it. So for the orders service, `Fairness` lets a handler run on after a call
only if the party it called holds (`Returns`): a party in `Outages` may answer, fail, or never
return. `PaidIsRecorded` names the two calls that then hold a paid order up for good: to
dispatch, before the order is saved, and to the queue, after it.

`PaidIsRecorded` further assumes that store, caller and pod hold (its run's `Outages`),
because without them it is false by design. No fairness is assumed of the environment: a
caller need not leave, a pod need not crash, and no call need succeed.

`EveryCheckoutEnds` (`BuyRaces`) is about the branches of the storefront and the checkout
service: it assumes that each of their calls answers or fails in the end, which the code does
not enforce. What a call that never returns does is `OrderDispatchHang` and `PaidIsRecorded`.

### What the three violated properties say

* `DispatchIsBestEffort`. `cmd/orders/main.go:110-112` promises that an unreachable
  dispatch does not fail a paid order. A refused call indeed does not; a hung one
  holds the handler beyond `WriteTimeout`, and the 200 is lost. `ShipFails` and
  `CutOff` are the two cases.
* `MergedOnce`. `cmd/storefront/auth.go:120-122` calls the merge safe on every checkout and
  a no-op once it has happened. It is, once the anonymous cart has been cleared. In the trace,
  one unit is in the anonymous cart; the first checkout adds it to the user's, the call that
  clears the anonymous cart fails and is logged, and the order is declined; the second
  checkout adds the unit again. Both were answered "declined", and the user's cart holds two.
* `OneSignupPerAddress`. `internal/accounts/model.go:67-68` promises `ErrEmailTaken` for
  a registered address. `Signup` checks, hashes and then puts unconditionally, so of two
  overlapping sign-ups both succeed and the later password wins. `LateIsRefused` states
  what does hold: a sign-up received once the address has an account never succeeds.

## 4. The proofs

### The orders service

`OrderPlacementProofs` proves, for any sets of requests and users, with or without
dispatch, stale reads and serial users, and any outages (the only assumption is
`OrderConstants`):

| Theorem | Statement |
|---|---|
| `TypeCorrect` | `Spec => []TypeOK` |
| `NothingUnpaidHolds` | `Spec => []NothingUnpaid` |
| `HistoryIsSound` | `Spec => []HistorySound` |
| `AnswersAreTruthful` | `Spec => []AnswerTruthful` |

None of the three safety properties is inductive. The invariant that is, `IInv`, has
three parts.

* `TypeInv`: the types, and that past the payment call the draft has its verdict.
* `RequestInv`, per request, by stage: what has been charged and shipped (`MoneyInv`),
  what the table holds of the order (`RecordInv`), what the answer implies
  (`AnswerInv`). It is where "the event comes after the save" is made a fact about
  stages.
* `HistoryInv`: `HistorySound`, the same of every document a handler has read but not
  yet written back (`seen`), and that a request that has not written its history entry
  is in no version of any history. Without the second conjunct a write of a stale copy
  could not be shown sound; without the third an append could not be shown to add no
  duplicate.

Each part has one lemma for a handler's step and one for what happens to it from
outside, with a step per action. Saved orders never change, so a sound history stays
sound while others move (`SoundStays`), and an append of an order that is saved and
not yet listed is sound (`SoundAppend`).

The refinement rests on `IInv` too, in the second half of the module:

| Theorem | Statement |
|---|---|
| `ImplementsOrderBook` | `Spec => ImplementsLossyBook` |
| `SerialHistoryIsComplete` | `Orderly => (Spec => []SerialHistoryComplete)` |
| `ImplementsOrderBookExactly` | `Orderly => (Spec => ImplementsExactBook)` |

The first holds for all constants: each step of a handler is one of the book or a stutter,
because stages order the charge, the save and the listing. The book that loses nothing
needs `Orderly`: users wait for their answers (`SerialUsers`), reads are consistent
(`~StaleReads`), and neither the store fails nor a caller leaves; dispatch and the queue may
fail and pods may crash. Its invariant `SerialInv` says that one request of a user is in
flight, that what it has read is still the history when it writes, and that past its write
it is listed.

### The cart service

`CartProofs` proves `CartSpec => []CartTypeOK` and `CartSpec => []CartsWellFormed` from
`CartConstants`, quantities in machine integers of any width. `CartTypeOK /\ CartsWellFormed`
is inductive, since it speaks of every version a stale read may return and of every
handler's copy. Quantities are proved positive until a sum overflows, which `wrapped` records.
The content of the other half is `ChangedWellFormed`: each operation, applied to any cart with one line per product,
gives one again. So the overlap of calls cannot break it, although `Add` and `SetQty`
stop at the first line they find.

`LinesAreExplained == CartSpec => []LinesExplained` needs no more assumptions either: stale
reads, failures and overlap are all in. `BackedInv` says it of every version of every document
and of every handler's copy, and counts only calls that have read. That is what makes it
inductive: the line a handler adds to was backed when that handler had not yet read, so it is
not among the calls counted for it, and adding it to them pays for what it adds (`OwedMore`).

Two more theorems are about what a call has done when it answers.

* `RepliesAreStored == CartSpec => ReplyIsStored`. The answer is a step of its own, so other
  calls may have written since. `HeldInv` says that what a handler is about to answer with is
  a version of the cart (a call that saves nothing changes nothing, `UnsavedIsSame`), and
  versions are only added. That it is the cart stored at that moment needs turns and a
  consistent table, which the property names, and `TurnsInv`.
* `CallsAreAtomic == TakingTurns /\ MaxQty > 0 => (CartSpec => ImplementsAtomicCart)`, where
  callers take turns on a session of a consistent table. `TurnsInv`: one
  handler at a time works on a session, so what it is about to write is the change it was
  asked for, of the cart that is stored. `ChangeInCart` maps each kind of change to an
  operation of `AtomicCart`; a store call that fails has written that change or nothing.

### Sums

The units of a line are a sum over a set of calls, and the units in the shop one over a set of
orders. `SumOver` is a fold, defined by a recursive function on the subsets of a set, in the
order in which `CHOOSE` takes their elements. `SumTheorems` proves what does not depend on
that order: the sum of nothing, of one element, of a set with an element more or less
(`SumRemove`, `SumAdd`), of more weight (`SumGrows`), and that it is a natural number. The
library's induction theorems take an operator as a parameter and cannot be used;
`StrongSetInduction` takes a set of sets in its place, and follows from the well-foundedness
of the strict subset ordering.

### The buy path

`BuyPathProofs` proves of a checkout from the browser to the orders service and back, with
all cart calls split as in `CartService`:

| Theorem | Statement |
|---|---|
| `BuyPathTypeCorrect` | `Spec => []TypeOK` |
| `RepliesAreTruthful` | `Spec => []RepliesTruthful` |
| `OrdersAreExplained` | `Spec => []OrdersExplained` |
| `ClearedLinesWereBought` | `InTurn => (Spec => ClearedWasBought)` |
| `NothingIsLost` | `Reliable => (Spec => []NothingLost)` |
| `NothingIsMultiplied` | `Reliable => (Spec => []NothingMultiplied)` |

The first three hold for all constants of `BuyPathConstants`: checkouts overlap, reads are
stale, everything may fail. What all six say of quantities, they say until a sum overflows.

* `BuyInv`: the types, one line per product everywhere (from `CartProofs`, whose steps the cart
  calls are), and at which places of the chain an order exists.
* `PricedInv`: a price the shopper did not bring is nowhere: not in a version of a document,
  a handler's copy, an `add` in flight, a merge's list, a basket or an order. Prices are
  passed on seven times, and each hand-over is a case.

The other three are about order in time. `InTurn` is `OneAtATime` with a consistent table;
`Reliable` adds that the carts do not fail. Both are needed, and the code says so: a merge
skips a line whose `add` failed and clears the anonymous cart all the same (lost), a failed
clear leaves it to be merged again (`MergeTwice`), and two checkouts at once buy one cart twice.

* `TurnInv`: one handler is at work, with the cart call it waits for; what it is about to write
  is the change of what is stored; what a chain asks for at each place, and that what it read
  is still there. From it `ClearedWasBought` follows step by step: a clear of the user's cart
  finds only lines of the order just placed. That needs no cart that holds.
* `AllCounted`, per product: what the two carts and the placed orders hold is at least what was
  put in, and no more unless a checkout died or was answered 502. While a chain merges
  neither cart alone can be counted: the anonymous one is about to be dropped, and part of it
  is in the user's. So the invariant counts, for a merging chain, the user's cart, what is
  being added and what is still to be added (`Moved`); a document whose deletion is under way
  counts for nothing (`Dropping`). Each hand-over leaves one of the two sums as it was:
  `MergeRead` exchanges the anonymous cart for the list of its lines, and an order that is
  placed for the cart it was read from.

### The accounts service

`AccountsProofs` proves `Spec => []TypeOK` and `Spec => []SessionsEarned` from
`AccountsConstants`, stale reads and failing stores included. `SessionsEarned` needs
`StageInv`: a handler about to mint a session holds a password that some version of the
user's document has. That is stable because versions are only ever added
(`PutUserGrows`), even when a racing sign-up replaces the password.

The second half of the module proves, on consistent tables (`StaleReads = FALSE`; with stale
reads both are false), also for failing stores and pods that die between two calls:

| Theorem | Statement |
|---|---|
| `TooLateIsRefused` | `StaleReads = FALSE => (Spec => []LateIsRefused)` |
| `SignInLasts` | `StaleReads = FALSE => (Spec => []SignedInLasts)` |

The invariant `EndInv` follows a token's life. A cookie or a request only ever holds a token
whose sign-up or login was answered (`TokenInv`); from that answer on its session is in the
table until a logout starts, and once a logout is answered it is not (`SessionInv`). A user
with a session is registered and stays so (`OwnerInv`), so the check cannot fail on a missing
user. `LateInv` says of a call that came too late that nothing it may still read lets it
succeed. `SignInLasts` is about what the accounts service answers; the storefront's 401 says
less.

### The tab

`ShopTabProofs` proves, for any items, users, retries and bounds (from
`CartCacheConstants` and `ShopTabConstants`):

| Theorem | Statement |
|---|---|
| `TabTypes` | `Spec => []TypeOK` |
| `ShownUserIsTrue` | `Spec => []UserShownTrue` |
| `NotBoughtTwice` | `Spec => BoughtOnce` |
| `ScreenIsTrue` | `Spec => []ShownIsStored` |
| `OrderedAsShown` | `Spec => []OrderIsOffer` |

* `TypeInv` adds to the types that a checkout past the storefront has a signed-in user and
  one that is clearing was placed (`Carried`); without it the carts of users could not be
  shown to stay carts.
* `SessionInv`: a read of `/me` that no sign-in overtook carries the cookie's user, and is
  never waiting to be served; an answer of which only the headers arrived set that cookie.
* `BuyInv`: at most one checkout is followed by a page, and if the page has had an order
  placed, that checkout is past the payment. So a followed checkout that places an order
  is the first. It is an action property, proved from the invariant.
* `ScreenInv` is what makes the screen converge. `Sync`: the tab is blind, or an answer
  that will have the cart read again is on its way, or a read is about to be served, or one
  was served and carries the cart it should show, or the cart shown is that cart; a read
  that found an older cart makes the tab blind until the next one. Answers
  of mutations may carry anything, in any order: each ends in a new read, and that is all
  the argument needs. `KeptInv` and `OfferInv` carry the same through a decline: the lines
  that were shown are moved, found by the checkout, and found again by the next.

### Lists

`Sorted` chooses the list of a set that is in order, and `OnlyIn` filters a list by sorting
the positions that stay. The library's `SortSeq` and `SelectSeq` would compute the same, but
the prover cannot look into them. `ListTheorems` proves that a finite set has such a list in
any strict order (`SortedExists`: an element's place is the number of those below it), that
each element of it has as many below it as stand before it (`PlaceInOrder`), what filtering
and cutting keep (`OnlyInIs`, `CutIs`), and that what the first of some lists has, and appending each
next one keeps, the flattened list has (`FlattenSeqBy`, by induction on the number of lists,
with a set in place of the hypothesis).
Orders are sets of pairs there, because a lemma with an operator as a parameter cannot be
used.

### The browse pages

`BrowseProofs` proves, for any catalog that fits in memory, any addresses, any sizes of
pages and any menus (from `CatalogConstants`, `BrowseConstants`, `NavMenuConstants`, and
`NoQueryIsNone`):

| Theorem | Statement |
|---|---|
| `BrowseTypeCorrect` | `Spec => []TypeOK` |
| `NoMenuSnapsShut` | `Spec => []NeverUnderPointer` |
| `NoMenuIsLeftOpen` | `Spec => []NoneLeftOpen` |
| `SearchPagesAreExact` | `Spec => []SearchExact` |
| `CategoryPagesAreExact` | `Spec => []CategoryExact` |
| `NothingIsNothing` | `Spec => []NothingMeansNothing` |
| `PagerNumbersAreRight` | `Spec => []PagerTellsWhere` |

Every step of `BrowsePages` is a step of `NavMenu` or leaves it alone; with the types, the
two properties of the menus are inductive.

The properties of the pages are not: each speaks of a settled page only, and what is on it
was chosen while another listing was on show. `PagesInv` says of every state that

* a page shows a listing of its own size, or none (`Observes`): this bounds the pages of a
  grid while the listing before is on show, which is what the type of `gridPage` needs, since
  the pager then counts pages of that listing;
* a settled page shows the listing of its address (`Observes`);
* a page number that did not stray is one the listing of the *address* has (`HasPage`), even
  while it is waited for.

From these the rest is about one listing. `ListPagedIs` reduces the catalog's answer to a cut
of the sorted list, or none if its start wrapped below zero; `CutByRank` says which products
a cut holds, by how many are listed before them. `CategoryMatches` shows that the catalog's
filter, after its arithmetic, is the one the address asks for; `SearchMatches` that only the
word narrows a search. `PageCount` says which page numbers a list has, and with it that a
number from a pager never wraps, so that `NothingMeansNothing` needs no `Fits`.

The pager is about one list of numbers. `WindowTells` goes along the chosen numbers in order:
`Tells` is what the list built so far says of the pages up to its last one, and each next
number, with or without a gap before it, keeps that (`TellsNext`).

### What is only model-checked

* Liveness (`PaidIsRecorded`, `EveryCheckoutEnds`): under fairness, outside what the prover
  handles.

Every other property of a passing run is stated by a theorem. The proofs assume what the
named assumptions on the constants say, and for those marked so above that reads are
consistent or that callers take turns.

## 5. Not modelled

* Tracing, logging, health checks, container builds, Kubernetes manifests, workflows,
  the load test, styles and presentational components: no logic of the shop.
* The flag sync (`internal/flags`): a plug-in of the flagd library, whose store, event
  order and calls to `Sync` and `ReSync` are not in this repository. The one flag the shop
  evaluates only words the checkout experience.
* The chaos switches of the storefront: injected latency and errors are among the
  failures every call may already have.
* The payment service's card rules: the verdict is either of the two.
* The total of an order: a sum in machine integers that may wrap; orders are positive or
  not. The amounts of a cart are derived from its lines.
* The seeding of the catalog at start-up, related products, and the home and menu reads:
  a table is filled and read once.
* Requests the caller abandons inside the cart service: the store call in progress
  fails or takes effect, which is what `Fail` does.
* Of the tab: a second tab, a browser without local storage, requests that are paused while
  the browser is offline, toasts, the drawer and the filter panel, price inputs while they
  are typed, the cart context's `clear` (no page calls it), and the pages that present one
  answer (home, product details, orders, information). Liveness of the tab is not stated:
  nothing obliges a browser to keep a page open.

## 6. Extensions

Worth adding where the code grows: the flag sync against a model of flagd; the order list
under a cache key per user; `ShopTab` with `CartService` in place of its atomic cart.
