------------------------------ MODULE Storefront ------------------------------
(***************************************************************************)
(* The shop that client-mx shows: the cart and the orders made from it     *)
(* (CartManager, CartForm, OrderService of server-nest), the endless list  *)
(* of products (useProductsInfiniteQuery, ProductsService), and the        *)
(* dialogs and toasts they report with (ModalManager, ToastManager).       *)
(*                                                                         *)
(* As in ClientSession a callback of the browser is one action.  Orders    *)
(* and requests go on when the component that began them has unmounted.    *)
(***************************************************************************)
EXTENDS Integers, Sequences

CONSTANTS
    Products,     \* products with a page of their own
    Quantities,   \* what the quantity field may hold
    Limit,        \* ENTITIES_LIMIT of the client, LIMIT_ITEMS of the server
    Totals,       \* how many products the server may have
    MaxOrders,    \* bound: orders made
    MaxResets     \* bound: timers of the modal or the toast that run at once

ASSUME StorefrontAssumption ==
    /\ 1 \in Quantities
    /\ Limit \in Nat \ {0}
    /\ Totals \subseteq Nat

VARIABLES
    visit,   \* bound: what the user came for
    page,    \* the page on display: a product, or one of those below
    cart,    \* productsInCart: the quantities of the products in it
    orders,  \* the calls of createOrder
    form,    \* the order that the mounted CartForm awaits (isPending), or 0
    touched, \* history: products added or edited since each order was sent
    total,   \* the products the server has
    list,    \* the query of the product list
    inView,  \* is the InfiniteLoader in view
    toast,   \* the toast and the modal
    modal,
    auth     \* the dialogs whose request is under way

vars == <<visit, page, cart, orders, form, touched, total, list, inView, toast, modal, auth>>
shop == <<cart, orders, touched>>
browse == <<list, inView>>
overlays == <<toast, modal, auth>>

Dialogs == {"LOGIN_MODAL", "SIGNUP_MODAL"}
PagesOf == [shop |-> Products \cup {"cart"}, browse |-> {"home", "cart"}, auth |-> {"cart"}]

-----------------------------------------------------------------------------
(* Toast and modal: content is reset 300 ms after closing.                 *)

\* hasty: history, it was shown while a reset was due.
Overlay(contents) ==
    [open : BOOLEAN, content : contents \cup {"none"}, resets : Nat, hasty : BOOLEAN]

Hidden == [open |-> FALSE, content |-> "none", resets |-> 0, hasty |-> FALSE]

Show(w, c) == [open |-> TRUE, content |-> c, resets |-> w.resets, hasty |-> w.resets > 0]

\* Variant that closes when the animation is over.
CloseLater(w) == [w EXCEPT !.resets = @ + 1]

Close(w) == [w EXCEPT !.open = FALSE, !.resets = @ + 1]
Reset(w) == [w EXCEPT !.content = "none", !.resets = @ - 1]

CloseToast ==
    /\ toast.open
    /\ toast.resets < MaxResets
    /\ toast' = Close(toast)
    /\ UNCHANGED <<visit, page, shop, form, total, browse, modal, auth>>

ResetToast ==
    /\ toast.resets > 0
    /\ toast' = Reset(toast)
    /\ UNCHANGED <<visit, page, shop, form, total, browse, modal, auth>>

Displayed == modal.open /\ modal.content # "none"

\* The buttons of the header, which a dialog on display covers.
OpenDialog(d) ==
    /\ visit = "auth"
    /\ ~Displayed
    /\ modal.resets < MaxResets
    /\ modal' = Show(modal, d)
    /\ UNCHANGED <<visit, page, shop, form, total, browse, toast, auth>>

CloseDialog ==
    /\ Displayed
    /\ modal.resets < MaxResets
    /\ modal' = Close(modal)
    /\ UNCHANGED <<visit, page, shop, form, total, browse, toast, auth>>

ResetModal ==
    /\ modal.resets > 0
    /\ modal' = Reset(modal)
    /\ UNCHANGED <<visit, page, shop, form, total, browse, toast, auth>>

Submit(d) ==
    /\ Displayed /\ modal.content = d
    /\ d \notin auth
    /\ auth' = auth \cup {d}
    /\ UNCHANGED <<visit, page, shop, form, total, browse, toast, modal>>

\* onSuccess closes the modal, whatever dialog it shows by now; only a
\* registration is confirmed with a toast.
SubmitAccepted(d) ==
    /\ d \in auth
    /\ auth' = auth \ {d}
    /\ modal' = Close(modal)
    /\ toast' = IF d = "SIGNUP_MODAL" THEN Show(toast, "success") ELSE toast
    /\ UNCHANGED <<visit, page, shop, form, total, browse>>

SubmitRefused(d) ==
    /\ d \in auth
    /\ auth' = auth \ {d}
    /\ toast' = Show(toast, "error")
    /\ UNCHANGED <<visit, page, shop, form, total, browse, modal>>

-----------------------------------------------------------------------------
(* The cart and its orders.                                                *)

UnderWay(o) == orders[o].status \in {"sent", "taken"}

Touch(p) ==
    touched' = [o \in DOMAIN orders |-> IF UnderWay(o) THEN touched[o] \cup {p} ELSE touched[o]]

Put(p, n) == cart' = [q \in DOMAIN cart \cup {p} |-> IF q = p THEN n ELSE cart[q]]

AddProductToCart(p) ==
    /\ visit = "shop" /\ page = p
    /\ p \notin DOMAIN cart
    /\ Put(p, 1)
    /\ Touch(p)
    /\ UNCHANGED <<visit, page, orders, form, total, browse, overlays>>

\* The cart page unmounts the form of an empty cart.
RemoveProductFromCart(p) ==
    /\ page \in {p, "cart"}
    /\ p \in DOMAIN cart
    /\ cart' = [q \in DOMAIN cart \ {p} |-> cart[q]]
    /\ form' = IF DOMAIN cart = {p} THEN 0 ELSE form
    /\ UNCHANGED <<visit, page, orders, touched, total, browse, overlays>>

UpdateCartItemQuantity(p, n) ==
    /\ page = "cart"
    /\ p \in DOMAIN cart
    /\ Put(p, n)
    /\ Touch(p)
    /\ UNCHANGED <<visit, page, orders, form, total, browse, overlays>>

\* handleCreateOrder up to its await; the button is disabled while the form
\* awaits an order.
CreateOrder ==
    /\ page = "cart"
    /\ DOMAIN cart # {}
    /\ form = 0
    /\ Len(orders) < MaxOrders
    /\ orders' = Append(orders, [status |-> "sent", items |-> cart])
    /\ touched' = Append(touched, {})
    /\ form' = Len(orders) + 1
    /\ UNCHANGED <<visit, page, cart, total, browse, overlays>>

\* OrderService answers after two seconds; it keeps nothing.
TakeOrder(o) ==
    /\ orders[o].status = "sent"
    /\ orders' = [orders EXCEPT ![o].status = "taken"]
    /\ UNCHANGED <<visit, page, cart, form, touched, total, browse, overlays>>

\* The rest of handleCreateOrder, on whatever page the user is by now.
OrderAnswered(o) ==
    /\ orders[o].status = "taken"
    /\ orders' = [orders EXCEPT ![o].status = "answered"]
    /\ cart' = <<>>
    /\ page' = "success"
    /\ form' = 0
    /\ UNCHANGED <<visit, touched, total, browse, overlays>>

\* Variant that clears the cart before it looks at the answer.
OrderFailsCleared(o) ==
    /\ UnderWay(o)
    /\ orders' = [orders EXCEPT ![o].status = "failed"]
    /\ toast' = Show(toast, "error")
    /\ cart' = <<>>
    /\ form' = 0
    /\ UNCHANGED <<visit, page, touched, total, browse, modal, auth>>

\* The request or its answer is lost, or refused.
OrderFails(o) ==
    /\ UnderWay(o)
    /\ orders' = [orders EXCEPT ![o].status = "failed"]
    /\ toast' = Show(toast, "error")
    /\ form' = IF form = o THEN 0 ELSE form
    /\ UNCHANGED <<visit, page, cart, touched, total, browse, modal, auth>>

-----------------------------------------------------------------------------
(* The list of products.                                                   *)

NoPages == [count |-> 0, entries |-> <<>>, offset |-> 0]

\* Variant of a server that fills its pages.
PageFilled(offset) == [i \in 1 .. Limit |-> offset + i]

\* getProducts; the products are numbered in the order of the database.
PageAt(offset) ==
    [i \in 1 .. (IF offset + Limit <= total THEN Limit ELSE total - offset) |-> offset + i]

\* Variant that goes on until a page is short.
NextPageUntilShort(pages) ==
    LET loaded == Len(pages.entries)
    IN  IF loaded % Limit # 0 \/ pages.offset > total THEN 0 ELSE loaded \div Limit + 1

\* getNextPageParam; 0 stands for undefined.
NextPage(pages) ==
    LET loaded == Len(pages.entries)
    IN  IF loaded % Limit # 0 \/ loaded = total \/ pages.offset > total
        THEN 0
        ELSE loaded \div Limit + 1

Extend(pages) ==
    LET offset == (NextPage(pages) - 1) * Limit
    IN  [count |-> pages.count + 1, entries |-> pages.entries \o PageAt(offset), offset |-> offset]

\* Where the page under way goes: behind the pages shown, or behind those
\* that replace them.
Base == IF list.fetch = "next" THEN list.pages ELSE list.fresh

\* The queryFn asks for this offset.
Offset == IF Base.count = 0 THEN 0 ELSE (NextPage(Base) - 1) * Limit

Fetch(kind) == [list EXCEPT !.fetch = kind, !.fresh = NoPages]

\* The list mounts, or the window regains focus: everything is fetched anew.
Mounted == IF list.fetch = "none" THEN Fetch("all") ELSE list

Focus ==
    /\ page = "home"
    /\ list.fetch = "none"
    /\ list' = Mounted
    /\ UNCHANGED <<visit, page, shop, form, total, inView, overlays>>

\* The loader is displayed below a list that is not complete.
Loading == page = "home" /\ list.pages.count > 0 /\ ~list.error /\ NextPage(list.pages) # 0

\* fetchNextPage abandons what is being fetched.
ScrollToLoader ==
    /\ Loading /\ ~inView
    /\ inView' = TRUE
    /\ list' = Fetch("next")
    /\ UNCHANGED <<visit, page, shop, form, total, overlays>>

LoaderLeavesView ==
    /\ inView
    /\ inView' = FALSE
    /\ UNCHANGED <<visit, page, shop, form, total, list, overlays>>

\* Home unmounts the list when an error is set, even with pages loaded.
FetchEnds(pages, error) ==
    /\ list' = [fetch |-> "none", pages |-> pages, fresh |-> NoPages, error |-> error]
    /\ inView' = (inView /\ ~error)

\* A fetch of everything stops at as many pages as there were.
PageArrives ==
    /\ list.fetch # "none"
    /\ Offset < total
    /\ LET pages == Extend(Base)
       IN  IF list.fetch = "all" /\ pages.count < list.pages.count /\ NextPage(pages) # 0
           THEN list' = [list EXCEPT !.fresh = pages] /\ UNCHANGED inView
           ELSE FetchEnds(pages, FALSE)
    /\ UNCHANGED <<visit, page, shop, form, total, overlays>>

\* Three retries have failed, or the server finds the offset too big.
FetchFails ==
    /\ list.fetch # "none"
    /\ FetchEnds(list.pages, TRUE)
    /\ UNCHANGED <<visit, page, shop, form, total, overlays>>

GoTo(q) ==
    /\ q \in PagesOf[visit] \ {page}
    /\ page' = q
    /\ form' = 0
    /\ inView' = FALSE
    /\ list' = IF q = "home" THEN Mounted ELSE list
    /\ UNCHANGED <<visit, shop, total, overlays>>

-----------------------------------------------------------------------------
Init ==
    /\ visit \in DOMAIN PagesOf
    /\ page \in PagesOf[visit]
    /\ cart = <<>>
    /\ orders = <<>>
    /\ form = 0
    /\ touched = <<>>
    /\ total \in Totals
    /\ visit # "browse" => total = CHOOSE n \in Totals : TRUE
    /\ list = [fetch |-> IF page = "home" THEN "all" ELSE "none", pages |-> NoPages,
               fresh |-> NoPages, error |-> FALSE]
    /\ inView = FALSE
    /\ toast = Hidden
    /\ modal = Hidden
    /\ auth = {}

Next ==
    \/ CloseToast \/ ResetToast \/ CloseDialog \/ ResetModal
    \/ \E d \in Dialogs : OpenDialog(d) \/ Submit(d) \/ SubmitAccepted(d) \/ SubmitRefused(d)
    \/ \E p \in Products :
          \/ AddProductToCart(p)
          \/ RemoveProductFromCart(p)
          \/ \E n \in Quantities : UpdateCartItemQuantity(p, n)
    \/ CreateOrder
    \/ \E o \in DOMAIN orders : TakeOrder(o) \/ OrderAnswered(o) \/ OrderFails(o)
    \/ Focus \/ ScrollToLoader \/ LoaderLeavesView \/ PageArrives \/ FetchFails
    \/ \E q \in PagesOf[visit] : GoTo(q)

Spec == Init /\ [][Next]_vars

-----------------------------------------------------------------------------
(* Properties.                                                             *)

Cart(S) == UNION {[T -> Quantities] : T \in SUBSET S}
Pages == [count : Nat, entries : Seq(1 .. total), offset : Nat]

TypeOK ==
    /\ page \in PagesOf[visit] \cup {"success"}
    /\ cart \in Cart(Products)
    /\ \A o \in DOMAIN orders :
          orders[o] \in [status : {"sent", "taken", "answered", "failed"}, items : Cart(Products)]
    /\ form \in 0 .. Len(orders)
    /\ touched \in [DOMAIN orders -> SUBSET Products]
    /\ list \in [fetch : {"none", "all", "next"}, pages : Pages, fresh : Pages, error : BOOLEAN]
    /\ inView \in BOOLEAN
    /\ toast \in Overlay({"success", "error"})
    /\ modal \in Overlay(Dialogs)
    /\ auth \subseteq Dialogs

\* While orders are under way the cart may be edited and the page left; an
\* answer still clears the cart.  What it clears has been ordered, in the
\* quantity shown, or came or changed after the order was sent; a failed order
\* leaves the cart as it is.
CartLeavesWithItsOrder ==
    [][orders' # orders /\ cart' # cart =>
         \E o \in DOMAIN orders :
            /\ orders[o].status = "taken" /\ orders'[o].status = "answered"
            /\ \A p \in DOMAIN cart :
                  p \in touched[o] \/ (p \in DOMAIN orders[o].items /\ orders[o].items[p] = cart[p])]_vars

\* The list is a prefix of the products, each once and in order, whatever
\* fetches are abandoned, repeated or fail; the list counts as complete only
\* with all of them, and no page is asked for beyond the end of a shop that
\* has products.
PagesInOrder ==
    /\ list.pages.entries = [i \in 1 .. Len(list.pages.entries) |-> i]
    /\ list.pages.count > 0 /\ NextPage(list.pages) = 0 => Len(list.pages.entries) = total
    /\ list.fetch # "none" /\ total > 0 => Offset < total

\* "Reset after animation completed" (toast-manager.ts:70): the reset never
\* takes the content of a toast or dialog on display, unless it was shown
\* while the reset of another was still due.
NothingShownBlank ==
    \A w \in {toast, modal} : w.open /\ w.content = "none" => w.hasty
=============================================================================
