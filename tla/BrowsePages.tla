---- MODULE BrowsePages ----
(***************************************************************************)
(* Browsing the shop: the category page with its filters (pages/Category), *)
(* the search page (pages/Search), the header's menus and search form, and *)
(* the listings the catalog answers.  The address holds what is asked for; *)
(* one query observer follows it and shows the last listing it had while   *)
(* it waits for the next (lib/hooks.ts, placeholderData).                  *)
(*                                                                         *)
(* The catalog does not change, so a cached listing is the one it would    *)
(* answer: whether a listing is still cached is left open.                 *)
(***************************************************************************)
EXTENDS CatalogListing, Pager, NavMenu

CONSTANTS
    Slugs, Brands, Words,                \* categories, brands, and what may be searched
    NoQuery,                             \* no listing was shown yet
    BRACKETS,                            \* price brackets of the sidebar, in dollars
    TypedPrices,                         \* bound: price ranges typed into the sidebar
    TypedPages,                          \* search pages reached by a typed or kept address
    CATEGORY_PAGE_SIZE, GRID_PAGE_SIZE,  \* of the category page
    PER_PAGE                             \* of the search page

ASSUME BrowseConstants ==
    /\ {CATEGORY_PAGE_SIZE, GRID_PAGE_SIZE, PER_PAGE} \subseteq 1..maxPerPage
    /\ \A r \in BRACKETS \cup TypedPrices : r.min \in Nat /\ r.max \in Nat
    /\ TypedPages \subseteq Nat \ {0}
    /\ Unset \notin Slugs

VARIABLES
    url,       \* where the tab is
    obs,       \* the page's query observer
    gridPage,  \* the page of the grid, on the category page
    strayed    \* the page number does not come from a pager of this listing (history)

browseVars == <<url, obs, gridPage, strayed>>
vars == <<browseVars, navVars>>

-----------------------------------------------------------------------------
(* Addresses, and what their pages ask for.                                *)

Category(c, b, r, s) ==
    [at |-> "category", slug |-> c, brands |-> b, min |-> r.min, max |-> r.max,
     sale |-> s, q |-> Unset, page |-> 1]
Search(w, p) ==
    [at |-> "search", slug |-> Unset, brands |-> {}, min |-> 0, max |-> 0,
     sale |-> FALSE, q |-> w, page |-> p]
Elsewhere ==
    [at |-> "other", slug |-> Unset, brands |-> {}, min |-> 0, max |-> 0,
     sale |-> FALSE, q |-> Unset, page |-> 1]

NoPrice == [min |-> 0, max |-> 0]
PriceRanges == BRACKETS \cup TypedPrices \cup {NoPrice}
SearchWords == Words \cup {Unset}

\* Bound: the pages of the search a tab goes to.
SearchPages == 1..TotalPages(Cardinality(Products), PER_PAGE) \cup TypedPages

Urls ==
    {Category(c, b, r, s) : c \in Slugs, b \in SUBSET Brands, r \in PriceRanges, s \in BOOLEAN}
    \cup {Search(w, p) : w \in SearchWords, p \in SearchPages}
    \cup {Elsewhere}

Query(u) ==
    [category |-> u.slug, q |-> u.q, minPrice |-> u.min, maxPrice |-> u.max, onSale |-> u.sale,
     page |-> u.page, perPage |-> IF u.at = "category" THEN CATEGORY_PAGE_SIZE ELSE PER_PAGE]

Queries == {Query(u) : u \in Urls \ {Elsewhere}}
ASSUME NoQueryIsNone == NoQuery \notin Queries

Listings == [q \in Queries |-> Answer(q)]
Asked == Query(url)

-----------------------------------------------------------------------------
(* What the pages show.                                                    *)

NoObserver == [got |-> "idle", shown |-> NoQuery]

\* The listing on the page: the last one there was, while the next is waited for.
\* A query that failed has only what it was answered itself.
Data ==
    IF obs.shown = NoQuery \/ (obs.got = "error" /\ obs.shown # Asked) THEN NoListing
    ELSE Listings[obs.shown]
Settled == obs.got = "ok"

InBrands(p) == url.brands = {} \/ p.brand \in url.brands
Found == IF url.at = "category" THEN OnlyIn(Data.products, {p \in Products : InBrands(p)}) ELSE Data.products

View ==
    CASE obs.got = "waiting" /\ obs.shown = NoQuery -> "loading"
      [] obs.got = "error" -> "error"
      [] OTHER -> IF Found = <<>> THEN "empty" ELSE "grid"

Slice(s, page) ==
    SubSeq(s, (page - 1) * GRID_PAGE_SIZE + 1,
              IF page * GRID_PAGE_SIZE > Len(s) THEN Len(s) ELSE page * GRID_PAGE_SIZE)
Grid(page) == IF url.at = "category" THEN Slice(Found, page) ELSE Found

Page == IF url.at = "category" THEN gridPage ELSE url.page
Pages ==
    IF url.at = "category" THEN TotalPages(Len(Found), GRID_PAGE_SIZE)
    ELSE IF Data = NoListing THEN 1 ELSE TotalPages(Data.total, Data.perPage)

\* The sidebar: brands of the listing, with how many of it are theirs, and the checked ones.
BrandCount(b) == Len(OnlyIn(Data.products, {p \in Products : p.brand = b}))
BrandsToShow == {b \in Brands : BrandCount(b) > 0 \/ b \in url.brands}
HasFilters == url.brands # {} \/ url.min > 0 \/ url.max > 0 \/ url.sale

-----------------------------------------------------------------------------

TypeOK ==
    /\ NavTypeOK
    /\ url \in Urls
    /\ obs \in [got : {"idle", "waiting", "ok", "error"}, shown : Queries \cup {NoQuery}]
    /\ (obs.got = "idle") = (url = Elsewhere)
    /\ gridPage \in 1..TotalPages(CATEGORY_PAGE_SIZE, GRID_PAGE_SIZE)
    /\ strayed \in BOOLEAN

Init ==
    /\ NavInit
    /\ url = Elsewhere /\ obs = NoObserver
    /\ gridPage = 1 /\ strayed = FALSE

-----------------------------------------------------------------------------
(* Going somewhere.                                                        *)

\* The query changes: its listing is still cached, or is asked for while the
\* page shows the one before.
Follow(o, q) ==
    \/ obs' = [o EXCEPT !.got = "waiting"]
    \/ Served(Listings[q]) /\ obs' = [got |-> "ok", shown |-> q]

\* Slip: a filter keeps the page of the grid.
KeepPage(u) == gridPage
FirstPage(u) == IF u = url THEN gridPage ELSE 1

\* The same page at another address keeps its observer; another page mounts one.
Land(u) ==
    /\ url' = u
    /\ gridPage' = IF u.at = url.at THEN FirstPage(u) ELSE 1
    /\ CASE u.at = "other" -> obs' = NoObserver
         [] u.at \notin {"other", url.at} -> Follow(NoObserver, Query(u))
         [] OTHER -> IF Query(u) = Asked THEN UNCHANGED obs ELSE Follow(obs, Query(u))

\* The links to a category (in the menus, the drawer, the home page, the product
\* page), the header's search form, and addresses that were typed, kept or gone
\* back to.
OpenCategory(c) ==
    LET u == Category(c, {}, NoPrice, FALSE) IN Land(u) /\ strayed' = (strayed /\ u = url)
HeaderSearch(w) == Land(Search(w, 1)) /\ strayed' = FALSE
Visit(p) == \E w \in SearchWords : Land(Search(w, p)) /\ strayed' = TRUE
Leave == url # Elsewhere /\ Land(Elsewhere) /\ strayed' = FALSE

-----------------------------------------------------------------------------
(* The filters of the category page: each is written to the address.       *)

Commit(u) ==
    /\ url.at = "category"
    /\ Land(u)
    /\ strayed' = (strayed /\ u = url)

ToggleBrand(b) ==
    /\ b \in BrandsToShow
    /\ Commit([url EXCEPT !.brands = IF b \in @ THEN @ \ {b} ELSE @ \cup {b}])

\* Pressing the active bracket takes it off.
SetBracket(r) ==
    LET active == url.min = r.min /\ url.max = r.max
        set    == IF active THEN NoPrice ELSE r
    IN Commit([url EXCEPT !.min = set.min, !.max = set.max])

CommitPrice(r) == Commit([url EXCEPT !.min = r.min, !.max = r.max])
ToggleSale == Commit([url EXCEPT !.sale = ~@])
ClearAll == HasFilters /\ Commit(Category(url.slug, {}, NoPrice, FALSE))

-----------------------------------------------------------------------------
(* Turning pages.                                                          *)

\* A page is on record if the listing it was chosen from is the one asked for.
Turned(p) == strayed' = ~(Settled /\ p <= Pages)

\* The category page cuts its grid from the one listing it has.
SetGridPage(p) ==
    /\ url.at = "category" /\ View = "grid" /\ p \in Offered(Page, Pages)
    /\ gridPage' = p
    /\ Turned(p)
    /\ UNCHANGED <<url, obs>>

\* The search page asks for another.
GoToPage(p) ==
    /\ url.at = "search" /\ View = "grid" /\ p \in Offered(Page, Pages) \cap SearchPages
    /\ Land(Search(url.q, p))
    /\ Turned(p)

\* Slip: a new search keeps the page number.
SamePage(w) == Search(w, url.page)
NewSearch(w) == Search(w, 1)

SubmitSearch(w) ==
    /\ url.at = "search"
    /\ Land(NewSearch(w))
    /\ strayed' = FALSE

-----------------------------------------------------------------------------
(* Answers.                                                                *)

Arrives ==
    /\ obs.got = "waiting" /\ Served(Listings[Asked])
    /\ obs' = [got |-> "ok", shown |-> Asked]
    /\ UNCHANGED <<url, gridPage, strayed>>

\* No answer, twice; or a listing that was shown is read again in vain.
Fails ==
    /\ obs.got \in {"waiting", "ok"}
    /\ obs' = [obs EXCEPT !.got = "error"]
    /\ UNCHANGED <<url, gridPage, strayed>>

\* The error block's button. A query that has data shows the error until it is answered.
Refetch ==
    /\ obs.got = "error"
    /\ obs' = [obs EXCEPT !.got = IF obs.shown = Asked THEN "ok" ELSE "waiting"]
    /\ UNCHANGED <<url, gridPage, strayed>>

-----------------------------------------------------------------------------

Filters ==
    \/ \E b \in Brands : ToggleBrand(b)
    \/ \E r \in BRACKETS : SetBracket(r)
    \/ \E r \in TypedPrices \cup {NoPrice} : CommitPrice(r)
    \/ ToggleSale \/ ClearAll

OnThePage ==
    \/ Filters
    \/ \E p \in Offered(Page, Pages) : SetGridPage(p) \/ GoToPage(p)
    \/ \E w \in SearchWords : SubmitSearch(w)
    \/ \E c \in Slugs : OpenCategory(c)
    \/ \E w \in Words : HeaderSearch(w)
    \/ \E p \in TypedPages : Visit(p)
    \/ Leave
    \/ Arrives \/ Fails \/ Refetch

\* A link of an open menu leads to a category of its kind.
MenuLink == \E k \in Kinds : FollowLink(k) /\ \E c \in Slugs : KindOf[c] = k /\ OpenCategory(c)

InMenus ==
    \/ \E k \in Kinds : PointerEnters(k) \/ FocusEnters(k) \/ ToggleMenu(k)
    \/ PointerLeaves \/ FocusLeaves \/ Escape \/ TimerFires

Next ==
    \/ OnThePage /\ UNCHANGED navVars
    \/ InMenus /\ UNCHANGED browseVars
    \/ MenuLink

Spec == Init /\ [][Next]_vars

-----------------------------------------------------------------------------
(* What the address asks for, by the price and the sale sign on the cards. *)

isOnSale(p) == p.sale > 0 /\ p.sale < p.price
effectiveCents(p) == IF isOnSale(p) THEN p.sale ELSE p.price

InRange(p) ==
    /\ url.min > 0 => effectiveCents(p) >= url.min * 100
    /\ url.max > 0 => effectiveCents(p) <= url.max * 100
InCategory == {p \in Products : p.category = url.slug /\ InRange(p) /\ (url.sale => isOnSale(p))}
Hits == {p \in Products : url.q = Unset \/ url.q \in p.words}

\* How many of S the shop lists before p.
Rank(p, S) == Cardinality({r \in S : Before(r, p)})

\* The numbers on their way fit into the service's machine integers.
Fits ==
    {url.min * 100, url.max * 100, url.page, (url.page - 1) * PER_PAGE} \subseteq 0..(Half - 1)

\* The pages of a category's grid are together the products the address asks
\* for, each on one of them, in the shop's order, and the number beside a brand
\* is what choosing it would leave; provided one request can hold them all
\* (Category.tsx:11-15) and the prices fit the catalog's integers.
CategoryExact ==
    (url.at = "category" /\ Settled /\ Fits /\ Cardinality(InCategory) <= CATEGORY_PAGE_SIZE) =>
        LET want == {p \in InCategory : url.brands = {} \/ p.brand \in url.brands} IN
        /\ \A p \in want : \A n \in 1..Pages :
             p \in ToSet(Grid(n)) <=> Rank(p, want) \in (n - 1) * GRID_PAGE_SIZE .. n * GRID_PAGE_SIZE - 1
        /\ \A n \in 1..Pages : ToSet(Grid(n)) \subseteq want
        /\ \A b \in Brands : BrandCount(b) = Cardinality({p \in InCategory : p.brand = b})

\* A search page shows the products of its rank in the result, and says how many
\* there are in all; provided the page number fits (store.go:133).
SearchExact ==
    (url.at = "search" /\ Settled /\ Fits) =>
        /\ ToSet(Found) = {p \in Hits : Rank(p, Hits) \in (url.page - 1) * PER_PAGE .. url.page * PER_PAGE - 1}
        /\ Data.total = Cardinality(Hits)

\* "No matches" means that nothing matches, and a grid has something on it,
\* unless the page was turned on the listing before (Search.tsx:31,
\* Category.tsx:82) or its number came with the address.
NothingMeansNothing ==
    Settled /\ ~strayed =>
        /\ url.at = "search" /\ View = "empty" => Hits = {}
        /\ View = "grid" => Grid(Page) # <<>>

\* The numbers of the pager tell how many pages there are and which of them is
\* shown: they run from the first page to the last, the shown one and those
\* beside it among them, one by one, and where pages are left out there is a gap,
\* and nowhere else (Pager.tsx:11-27).
PagerTellsWhere ==
    Settled /\ ~strayed /\ View = "grid" /\ Pages > 1 =>
        LET numbers == Window(Page, Pages)
            count == Len(numbers)
        IN
        /\ numbers[1] = 1 /\ numbers[count] = Pages
        /\ Page \in 1..Pages /\ (Page - 1 .. Page + 1) \cap 1..Pages \subseteq ToSet(numbers)
        /\ \A i \in 1..count : numbers[i] = Gap =>
             i > 1 /\ i < count /\ numbers[i + 1] - numbers[i - 1] > 1
        /\ \A i \in 2..count : {numbers[i - 1], numbers[i]} \subseteq 1..Pages =>
             numbers[i] = numbers[i - 1] + 1

====
