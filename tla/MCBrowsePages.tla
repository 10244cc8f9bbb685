---- MODULE MCBrowsePages ----
EXTENDS BrowsePages

\* Prices in cents; one product at the edge of a bracket, one sold below its price,
\* one whose sale price is none.
Bike(n, c, b, price, sale, f, w) ==
    [name |-> n, category |-> c, brand |-> b, price |-> price, sale |-> sale,
     featured |-> f, words |-> w]

MCProducts ==
    {Bike(1, "road", "axle", 9900, 0, FALSE, {"gravel"}),
     Bike(2, "road", "burr", 10000, 0, TRUE, {"gravel", "light"}),
     Bike(3, "road", "axle", 60000, 9000, FALSE, {"gravel"}),
     Bike(4, "bells", "burr", 12000, 13000, TRUE, {"gravel"}),
     Bike(5, "road", "axle", 20000, 15000, FALSE, {"gravel"}),
     Bike(6, "bells", "axle", 2000, 0, FALSE, {"gravel"}),
     Bike(7, "bells", "burr", 50000, 0, FALSE, {"light"})}

MCKindOf == [c \in {"road", "bells"} |-> IF c = "road" THEN "bikes" ELSE "parts"]

\* The four of the sidebar; and a price too large for Half once it is in cents.
MCBrackets ==
    {[min |-> 0, max |-> 100], [min |-> 100, max |-> 500],
     [min |-> 500, max |-> 2000], [min |-> 2000, max |-> 0]}
MCTypedPrices == {[min |-> 11000, max |-> 0]}
====
