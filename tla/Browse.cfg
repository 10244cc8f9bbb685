SPECIFICATION Spec
CONSTANTS
    Unset = Unset
    None = None
    NoQuery = NoQuery
    Products <- MCProducts
    KindOf <- MCKindOf
    Half = 1048576
    defaultPerPage = 2
    maxPerPage = 4
    Kinds = {"bikes", "parts"}
    Slugs = {"road", "bells"}
    Brands = {"axle", "burr"}
    Words = {"gravel", "light"}
    BRACKETS <- MCBrackets
    TypedPrices <- MCTypedPrices
    TypedPages = {5, 1000000, 1048577}
    CATEGORY_PAGE_SIZE = 4
    GRID_PAGE_SIZE = 2
    PER_PAGE = 2
INVARIANTS TypeOK CategoryExact SearchExact NothingMeansNothing PagerTellsWhere NeverUnderPointer NoneLeftOpen
