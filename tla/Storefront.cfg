\* Two products, two orders; lists that end within, and at the end of, a page.
CONSTANTS
    Products = {p1, p2}
    Quantities = {0, 1}
    Limit = 2
    Totals = {0, 2, 3, 4, 5}
    MaxOrders = 2
    MaxResets = 2
SPECIFICATION Spec
SYMMETRY Symmetry
INVARIANTS
    TypeOK
    PagesInOrder
    NothingShownBlank
PROPERTIES
    CartLeavesWithItsOrder
