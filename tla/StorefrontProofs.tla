--------------------------- MODULE StorefrontProofs ---------------------------
(***************************************************************************)
(* What module Storefront promises, for any products, quantities, page     *)
(* sizes and numbers of orders.                                            *)
(*                                                                         *)
(* Cart and orders, the list, and the overlays are three machines that     *)
(* share the page and the toast (Parts); each has its own invariant.       *)
(***************************************************************************)
EXTENDS Storefront, SequenceTheorems, TLAPS

-----------------------------------------------------------------------------
(* The inductive invariant                                                 *)

Orders == [status : {"sent", "taken", "answered", "failed"}, items : Cart(Products)]

\* What an answer to o would clear was ordered, or came or changed since.
Covered(o) ==
  \A p \in DOMAIN cart : p \in touched[o] \/ (p \in DOMAIN orders[o].items /\ orders[o].items[p] = cart[p])

ShopOK ==
  /\ cart \in Cart(Products)
  /\ orders \in Seq(Orders)
  /\ touched \in Seq(SUBSET Products)
  /\ Len(touched) = Len(orders)
  /\ form \in 0..Len(orders)
  /\ \A o \in 1..Len(orders) : UnderWay(o) => Covered(o)

\* Pages that are a prefix of the products, of whole pages unless they are all.
Good(pages) ==
  /\ pages \in Pages
  /\ pages.entries = [i \in 1..Len(pages.entries) |-> i]
  /\ Len(pages.entries) <= total
  /\ pages.offset <= total
  /\ Len(pages.entries) % Limit # 0 => Len(pages.entries) = total
  /\ pages.count = 0 => Len(pages.entries) = 0

\* A fetch begins anew or goes on behind pages that are not the last.
ListOK ==
  /\ total \in Nat
  /\ list \in [fetch : {"none", "all", "next"}, pages : Pages, fresh : Pages, error : BOOLEAN]
  /\ inView \in BOOLEAN
  /\ Good(list.pages) /\ Good(list.fresh)
  /\ list.fetch # "none" => Base.count = 0 \/ NextPage(Base) # 0

\* On display there is content, and no reset is due.
OverlayOK(w, contents) ==
  /\ w \in Overlay(contents)
  /\ w.open /\ (w.content = "none" \/ w.resets > 0) => w.hasty

OverlaysOK == OverlayOK(toast, {"success", "error"}) /\ OverlayOK(modal, Dialogs) /\ auth \subseteq Dialogs

PageOK == page \in PagesOf[visit] \cup {"success"}

IInv == ShopOK /\ ListOK /\ OverlaysOK /\ PageOK

-----------------------------------------------------------------------------
(* The steps of the three parts                                            *)

OverlayStep ==
  \/ CloseToast \/ ResetToast \/ CloseDialog \/ ResetModal
  \/ \E d \in Dialogs : OpenDialog(d) \/ Submit(d) \/ SubmitAccepted(d) \/ SubmitRefused(d)

CartStep ==
  \/ \E p \in Products :
        \/ AddProductToCart(p)
        \/ RemoveProductFromCart(p)
        \/ \E n \in Quantities : UpdateCartItemQuantity(p, n)
  \/ CreateOrder
  \/ \E o \in DOMAIN orders : TakeOrder(o) \/ OrderAnswered(o) \/ OrderFails(o)

ListStep == Focus \/ ScrollToLoader \/ LoaderLeavesView \/ PageArrives \/ FetchFails

Leave == \E q \in PagesOf[visit] : GoTo(q)

\* What each part leaves alone.
LEMMA Parts ==
  /\ Next => OverlayStep \/ CartStep \/ ListStep \/ Leave
  /\ OverlayStep => UNCHANGED <<visit, page, cart, orders, touched, form, total, list, inView>>
  /\ CartStep => UNCHANGED <<visit, total, list, inView, modal, auth>>
  /\ ListStep => UNCHANGED <<visit, page, cart, orders, touched, form, total, toast, modal, auth>>
  /\ Leave => UNCHANGED <<visit, cart, orders, touched, total, toast, modal, auth>> /\ form' = 0
<1>1. Next => OverlayStep \/ CartStep \/ ListStep \/ Leave
  BY DEF Next, OverlayStep, CartStep, ListStep, Leave
<1>2. OverlayStep => UNCHANGED <<visit, page, cart, orders, touched, form, total, list, inView>>
  BY DEF OverlayStep, CloseToast, ResetToast, CloseDialog, ResetModal, OpenDialog, Submit, SubmitAccepted,
         SubmitRefused, shop, browse
<1>3. CartStep => UNCHANGED <<visit, total, list, inView, modal, auth>>
  BY DEF CartStep, AddProductToCart, RemoveProductFromCart, UpdateCartItemQuantity, CreateOrder, TakeOrder,
         OrderAnswered, OrderFails, browse, overlays
<1>4. ListStep => UNCHANGED <<visit, page, cart, orders, touched, form, total, toast, modal, auth>>
  BY DEF ListStep, Focus, ScrollToLoader, LoaderLeavesView, PageArrives, FetchFails, shop, overlays
<1>5. Leave => UNCHANGED <<visit, cart, orders, touched, total, toast, modal, auth>> /\ form' = 0
  BY DEF Leave, GoTo, shop, overlays
<1> QED
  BY <1>1, <1>2, <1>3, <1>4, <1>5

-----------------------------------------------------------------------------
(* Toast and modal                                                         *)

\* An overlay field by field, and what the updates of the module make of it.
Fields(o, c, r, h) == [open |-> o, content |-> c, resets |-> r, hasty |-> h]

LEMMA Updated ==
  ASSUME NEW o, NEW c, NEW r, NEW h, NEW b
  PROVE  /\ [Fields(o, c, r, h) EXCEPT !.open = b] = Fields(b, c, r, h)
         /\ [Fields(o, c, r, h) EXCEPT !.content = b] = Fields(o, b, r, h)
         /\ [Fields(o, c, r, h) EXCEPT !.resets = b] = Fields(o, c, b, h)
         /\ Fields(o, c, r, h).open = o /\ Fields(o, c, r, h).content = c
         /\ Fields(o, c, r, h).resets = r /\ Fields(o, c, r, h).hasty = h
BY DEF Fields

LEMMA FieldsOK ==
  ASSUME NEW contents, NEW o \in BOOLEAN, NEW c \in contents \cup {"none"}, NEW r \in Nat, NEW h \in BOOLEAN,
         o /\ (c = "none" \/ r > 0) => h
  PROVE  OverlayOK(Fields(o, c, r, h), contents)
<1>1. Fields(o, c, r, h) \in Overlay(contents)
  BY DEF Fields, Overlay
<1>2. Fields(o, c, r, h).content = c /\ Fields(o, c, r, h).resets = r
  BY DEF Fields
<1>3. Fields(o, c, r, h).open = o /\ Fields(o, c, r, h).hasty = h
  BY DEF Fields
<1> QED
  BY <1>1, <1>2, <1>3 DEF OverlayOK

LEMMA OverlayMoves ==
  ASSUME NEW contents, "none" \notin contents, NEW w, OverlayOK(w, contents)
  PROVE  /\ \A c \in contents : OverlayOK(Show(w, c), contents)
         /\ OverlayOK(Close(w), contents)
         /\ w.resets > 0 => OverlayOK(Reset(w), contents)
<1>1. PICK o \in BOOLEAN, c \in contents \cup {"none"}, r \in Nat, h \in BOOLEAN : w = Fields(o, c, r, h)
  BY DEF OverlayOK, Overlay, Fields
<1>2. w.open = o /\ w.content = c /\ w.resets = r /\ w.hasty = h
  BY <1>1, Updated
<1>3. o /\ (c = "none" \/ r > 0) => h
  BY <1>2 DEF OverlayOK
<1>4. ASSUME NEW d \in contents PROVE OverlayOK(Show(w, d), contents)
  <2>1. PICK due \in BOOLEAN : due = (r > 0)
    <3>1. (r > 0) \in BOOLEAN
      OBVIOUS
    <3> QED
      BY <3>1, Zenon
  <2>2. PICK yes \in BOOLEAN : yes = TRUE
    OBVIOUS
  <2>3. Show(w, d) = Fields(yes, d, r, due)
    BY <1>2, <2>1, <2>2, Zenon DEF Show, Fields
  <2>4. OverlayOK(Fields(yes, d, r, due), contents)
    BY <2>1, FieldsOK
  <2> QED
    BY <2>3, <2>4
<1>5. OverlayOK(Close(w), contents)
  <2>1. PICK no \in BOOLEAN : no = FALSE
    OBVIOUS
  <2>2. Close(w) = [[w EXCEPT !.open = no] EXCEPT !.resets = r + 1]
    BY <1>2, <2>1, Zenon DEF Close
  <2>3. Close(w) = Fields(no, c, r + 1, h)
    <3>1. [w EXCEPT !.open = no] = Fields(no, c, r, h)
      BY <1>1, Updated
    <3>2. [Fields(no, c, r, h) EXCEPT !.resets = r + 1] = Fields(no, c, r + 1, h)
      BY Updated
    <3> QED
      BY <2>2, <3>1, <3>2
  <2>4. OverlayOK(Fields(no, c, r + 1, h), contents)
    BY <2>1, FieldsOK
  <2> QED
    BY <2>3, <2>4
<1>6. ASSUME w.resets > 0 PROVE OverlayOK(Reset(w), contents)
  <2>1. Reset(w) = [[w EXCEPT !.content = "none"] EXCEPT !.resets = r - 1]
    BY <1>2, Zenon DEF Reset
  <2>2. Reset(w) = Fields(o, "none", r - 1, h)
    <3>1. [w EXCEPT !.content = "none"] = Fields(o, "none", r, h)
      BY <1>1, Updated
    <3>2. [Fields(o, "none", r, h) EXCEPT !.resets = r - 1] = Fields(o, "none", r - 1, h)
      BY Updated
    <3> QED
      BY <2>1, <3>1, <3>2
  <2>3. r - 1 \in Nat /\ (o => h)
    BY <1>2, <1>3, <1>6
  <2>4. OverlayOK(Fields(o, "none", r - 1, h), contents)
    BY <2>3, FieldsOK
  <2> QED
    BY <2>2, <2>4
<1> QED
  BY <1>4, <1>5, <1>6

LEMMA OverlaysStep == ASSUME OverlaysOK, Next PROVE OverlaysOK'
<1>1. "none" \notin {"success", "error"} /\ "none" \notin Dialogs
  BY DEF Dialogs
<1>2. /\ \A c \in {"success", "error"} : OverlayOK(Show(toast, c), {"success", "error"})
      /\ OverlayOK(Close(toast), {"success", "error"})
      /\ toast.resets > 0 => OverlayOK(Reset(toast), {"success", "error"})
  BY <1>1, OverlayMoves DEF OverlaysOK
<1>3. /\ \A c \in Dialogs : OverlayOK(Show(modal, c), Dialogs)
      /\ OverlayOK(Close(modal), Dialogs)
      /\ modal.resets > 0 => OverlayOK(Reset(modal), Dialogs)
  BY <1>1, OverlayMoves DEF OverlaysOK
<1>4. ASSUME toast' \in {toast, Show(toast, "success"), Show(toast, "error")}, UNCHANGED <<modal, auth>> PROVE OverlaysOK'
  BY <1>2, <1>4 DEF OverlaysOK
<1>5. CASE CloseToast \/ ResetToast
  BY <1>2, <1>5 DEF CloseToast, ResetToast, OverlaysOK
<1>6. CASE CloseDialog \/ ResetModal
  BY <1>3, <1>6 DEF CloseDialog, ResetModal, OverlaysOK
<1>7. ASSUME NEW d \in Dialogs, OpenDialog(d) \/ Submit(d) PROVE OverlaysOK'
  BY <1>3, <1>7 DEF OpenDialog, Submit, OverlaysOK
<1>8. ASSUME NEW d \in Dialogs, SubmitAccepted(d) \/ SubmitRefused(d) PROVE OverlaysOK'
  BY <1>2, <1>3, <1>8 DEF SubmitAccepted, SubmitRefused, OverlaysOK
<1>9. CASE CartStep
  <2>1. toast' \in {toast, Show(toast, "success"), Show(toast, "error")}
    BY <1>9 DEF CartStep, AddProductToCart, RemoveProductFromCart, UpdateCartItemQuantity, CreateOrder, TakeOrder,
                OrderAnswered, OrderFails, overlays
  <2> QED
    BY <1>4, <1>9, <2>1, Parts
<1>10. CASE ListStep \/ Leave
  BY <1>4, <1>10, Parts
<1> QED
  BY <1>5, <1>6, <1>7, <1>8, <1>9, <1>10, Parts DEF OverlayStep

-----------------------------------------------------------------------------
(* Cart and orders                                                         *)

LEMMA Carts ==
  ASSUME NEW c
  PROVE  c \in Cart(Products) <=> /\ DOMAIN c \subseteq Products
                                  /\ c \in [DOMAIN c -> Quantities]
<1>1. ASSUME c \in Cart(Products) PROVE DOMAIN c \subseteq Products /\ c \in [DOMAIN c -> Quantities]
  <2>1. PICK T \in SUBSET Products : c \in [T -> Quantities]
    BY <1>1 DEF Cart
  <2> QED
    BY <2>1
<1>2. ASSUME DOMAIN c \subseteq Products, c \in [DOMAIN c -> Quantities] PROVE c \in Cart(Products)
  BY <1>2 DEF Cart
<1> QED
  BY <1>1, <1>2

LEMMA CartMoves ==
  ASSUME ShopOK, NEW p \in Products
  PROVE  /\ [q \in DOMAIN cart \ {p} |-> cart[q]] \in Cart(Products)
         /\ \A n \in Quantities : [q \in DOMAIN cart \cup {p} |-> IF q = p THEN n ELSE cart[q]] \in Cart(Products)
         /\ <<>> \in Cart(Products)
<1>1. DOMAIN cart \subseteq Products /\ cart \in [DOMAIN cart -> Quantities]
  BY Carts DEF ShopOK
<1>2. [q \in DOMAIN cart \ {p} |-> cart[q]] \in [DOMAIN cart \ {p} -> Quantities]
  BY <1>1
<1>3. ASSUME NEW n \in Quantities
      PROVE  [q \in DOMAIN cart \cup {p} |-> IF q = p THEN n ELSE cart[q]] \in [DOMAIN cart \cup {p} -> Quantities]
  BY <1>1
<1>4. <<>> \in Cart(Products)
  <2>1. <<>> \in [{} -> Quantities]
    OBVIOUS
  <2> QED
    BY <2>1 DEF Cart
<1> QED
  BY <1>1, <1>2, <1>3, <1>4 DEF Cart

\* Products added or edited are touched for every order under way.
LEMMA TouchMoves ==
  ASSUME ShopOK, NEW p \in Products, NEW n \in Quantities, Put(p, n), Touch(p), UNCHANGED <<orders, form>>
  PROVE  ShopOK'
<1>1. cart' = [q \in DOMAIN cart \cup {p} |-> IF q = p THEN n ELSE cart[q]]
  BY DEF Put
<1>2. cart' \in Cart(Products)
  BY <1>1, CartMoves
<1>3. orders \in Seq(Orders) /\ Len(orders) \in Nat /\ DOMAIN orders = 1..Len(orders) /\ touched \in Seq(SUBSET Products)
      /\ Len(touched) = Len(orders)
  BY DEF ShopOK
<1>4. touched' = [o \in 1..Len(orders) |-> IF UnderWay(o) THEN touched[o] \cup {p} ELSE touched[o]]
  BY <1>3 DEF Touch
<1>5. \A o \in 1..Len(orders) : touched[o] \in SUBSET Products
  BY <1>3
<1>6. \A o \in 1..Len(orders) : (IF UnderWay(o) THEN touched[o] \cup {p} ELSE touched[o]) \in SUBSET Products
  BY <1>5
<1>7. touched' \in Seq(SUBSET Products) /\ Len(touched') = Len(orders)
  BY <1>3, <1>4, <1>6
<1>8. ASSUME NEW o \in 1..Len(orders), UnderWay(o) PROVE Covered(o)'
  <2>1. touched'[o] = touched[o] \cup {p} /\ Covered(o)
    BY <1>4, <1>8 DEF ShopOK
  <2> QED
    BY <1>1, <2>1 DEF Covered
<1> QED
  BY <1>2, <1>3, <1>7, <1>8 DEF ShopOK, UnderWay

\* An order changes its status.
LEMMA StatusMoves ==
  ASSUME ShopOK, NEW o \in DOMAIN orders, NEW s \in {"taken", "answered", "failed"}, UnderWay(o),
         orders' = [orders EXCEPT ![o].status = s], UNCHANGED touched, form' \in {0, form},
         cart' = cart \/ cart' = <<>>
  PROVE  ShopOK' /\ orders'[o].status = s
<1>1. orders \in Seq(Orders) /\ o \in 1..Len(orders) /\ Len(orders) \in Nat
  BY DEF ShopOK
<1>2. orders[o] \in Orders
  BY <1>1
<1> DEFINE r == [orders[o] EXCEPT !.status = s]
<1>3. r \in Orders /\ r.status = s /\ r.items = orders[o].items
  BY <1>2 DEF Orders
<1>4. orders' = [orders EXCEPT ![o] = r]
  OBVIOUS
<1> HIDE DEF r
<1>5. orders' \in Seq(Orders) /\ Len(orders') = Len(orders)
  BY <1>1, <1>3, <1>4
<1>6. orders'[o] = r /\ \A i \in 1..Len(orders) : i # o => orders'[i] = orders[i]
  BY <1>1, <1>4
<1>7. \A i \in 1..Len(orders) : (UnderWay(i)' => UnderWay(i)) /\ orders'[i].items = orders[i].items
  BY <1>3, <1>6 DEF UnderWay
<1>8. cart' \in Cart(Products) /\ (cart' = cart \/ DOMAIN cart' = {})
  <2>1. <<>> \in Cart(Products)
    <3>1. <<>> \in [{} -> Quantities]
      OBVIOUS
    <3> QED
      BY <3>1 DEF Cart
  <2>2. DOMAIN <<>> = {}
    OBVIOUS
  <2> QED
    BY <2>1, <2>2 DEF ShopOK
<1>9. \A i \in 1..Len(orders) : UnderWay(i)' => Covered(i)'
  BY <1>7, <1>8 DEF ShopOK, Covered
<1>10. form' \in 0..Len(orders)
  BY <1>1 DEF ShopOK
<1> QED
  BY <1>3, <1>5, <1>6, <1>8, <1>9, <1>10 DEF ShopOK

LEMMA ShopStep == ASSUME ShopOK, Next PROVE ShopOK'
<1>1. orders \in Seq(Orders) /\ Len(orders) \in Nat /\ touched \in Seq(SUBSET Products) /\ form \in 0..Len(orders)
  BY DEF ShopOK
<1>2. ASSUME UNCHANGED <<cart, orders, touched>>, form' \in {0, form} PROVE ShopOK'
  BY <1>1, <1>2 DEF ShopOK, Covered, UnderWay
<1>3. ASSUME NEW p \in Products, AddProductToCart(p) PROVE ShopOK'
  BY <1>3, TouchMoves, StorefrontAssumption DEF AddProductToCart
<1>4. ASSUME NEW p \in Products, NEW n \in Quantities, UpdateCartItemQuantity(p, n) PROVE ShopOK'
  BY <1>4, TouchMoves DEF UpdateCartItemQuantity
<1>5. ASSUME NEW p \in Products, RemoveProductFromCart(p) PROVE ShopOK'
  <2>1. /\ cart' = [q \in DOMAIN cart \ {p} |-> cart[q]]
        /\ UNCHANGED <<orders, touched>> /\ form' \in {0, form}
    BY <1>5 DEF RemoveProductFromCart
  <2>2. cart' \in Cart(Products)
    BY <2>1, CartMoves
  <2>3. \A o \in 1..Len(orders) : Covered(o) => Covered(o)'
    BY <2>1 DEF Covered
  <2> QED
    BY <1>1, <2>1, <2>2, <2>3 DEF ShopOK, UnderWay
<1>6. CASE CreateOrder
  <2> DEFINE r == [status |-> "sent", items |-> cart]
  <2>1. r \in Orders /\ r.items = cart
    BY DEF ShopOK, Orders
  <2>2. orders' = Append(orders, r) /\ touched' = Append(touched, {}) /\ form' = Len(orders) + 1 /\ UNCHANGED cart
    BY <1>6 DEF CreateOrder
  <2> HIDE DEF r
  <2>3. /\ orders' \in Seq(Orders) /\ Len(orders') = Len(orders) + 1
        /\ orders'[Len(orders) + 1] = r /\ \A i \in 1..Len(orders) : orders'[i] = orders[i]
    BY <1>1, <2>1, <2>2, AppendProperties
  <2>4. /\ touched' \in Seq(SUBSET Products) /\ Len(touched') = Len(orders) + 1
        /\ \A i \in 1..Len(orders) : touched'[i] = touched[i]
    <3>1. {} \in SUBSET Products /\ Len(touched) = Len(orders)
      BY DEF ShopOK
    <3> QED
      BY <1>1, <2>2, <3>1, AppendProperties
  <2>5. ASSUME NEW i \in 1..Len(orders'), UnderWay(i)' PROVE Covered(i)'
    <3>1. CASE i = Len(orders) + 1
      BY <2>1, <2>2, <2>3, <3>1 DEF Covered
    <3>2. CASE i \in 1..Len(orders)
      BY <2>2, <2>3, <2>4, <2>5, <3>2 DEF ShopOK, Covered, UnderWay
    <3> QED
      BY <1>1, <2>3, <3>1, <3>2
  <2> QED
    BY <1>1, <2>2, <2>3, <2>4, <2>5 DEF ShopOK
<1>7. ASSUME NEW o \in DOMAIN orders, TakeOrder(o) \/ OrderAnswered(o) \/ OrderFails(o) PROVE ShopOK'
  BY <1>7, StatusMoves DEF TakeOrder, OrderAnswered, OrderFails, UnderWay
<1>8. CASE OverlayStep \/ ListStep \/ Leave
  BY <1>2, <1>8, Parts
<1> QED
  BY <1>3, <1>4, <1>5, <1>6, <1>7, <1>8, Parts DEF CartStep

-----------------------------------------------------------------------------
(* The list: arithmetic of whole pages                                     *)

LEMMA Division ==
  ASSUME NEW n \in Nat, NEW k \in Nat \ {0}
  PROVE  n \div k \in Nat /\ n % k \in 0..(k - 1) /\ n = k * (n \div k) + (n % k)
OBVIOUS

LEMMA NoMultipleBetween ==
  ASSUME NEW d \in Int, NEW k \in Nat \ {0}, d * k < k, 0 <= d * k
  PROVE  d = 0
<1>1. d >= 1 => d * k >= k
  OBVIOUS
<1>2. d <= -1 => d * k <= -k
  OBVIOUS
<1> QED
  BY <1>1, <1>2

LEMMA OnePageMore ==
  ASSUME NEW n \in Nat, NEW k \in Nat \ {0}, n % k = 0
  PROVE  (n + k) % k = 0
<1> DEFINE m == n + k
           q == n \div k
           p == m \div k
           r == m % k
<1>1. q \in Nat /\ n = k * q
  BY Division
<1>2. m \in Nat
  OBVIOUS
<1>3. p \in Nat /\ r \in 0..(k - 1) /\ m = k * p + r
  <2> HIDE DEF m
  <2> QED
    BY <1>2, Division
<1>4. n + k = k * p + r
  BY <1>3
<1> HIDE DEF m, p, q, r
<1>5. (q + 1 - p) * k = r
  BY <1>1, <1>3, <1>4
<1>6. q + 1 - p = 0
  BY <1>1, <1>3, <1>5, NoMultipleBetween
<1>7. r = 0
  BY <1>1, <1>3, <1>5, <1>6
<1> QED
  BY <1>7 DEF r, m

\* Products n + 1 to n + k behind products 1 to n.
LEMMA Joined ==
  ASSUME NEW n \in Nat, NEW k \in Nat, NEW s \in Seq(1..total), total \in Nat, n + k <= total,
         Len(s) = n, s = [i \in 1..n |-> i]
  PROVE  LET t == s \o [i \in 1..k |-> n + i]
         IN  t \in Seq(1..total) /\ Len(t) = n + k /\ t = [i \in 1..(n + k) |-> i]
<1> DEFINE u == [i \in 1..k |-> n + i]
           t == s \o u
<1>1. u \in Seq(1..total) /\ Len(u) = k
  <2>1. \A i \in 1..k : n + i \in 1..total
    OBVIOUS
  <2> QED
    BY <2>1
<1>2. \A i \in 1..k : u[i] = n + i
  OBVIOUS
<1> HIDE DEF u
<1>3. /\ t \in Seq(1..total) /\ Len(t) = n + k
      /\ \A i \in 1..(n + k) : t[i] = IF i <= n THEN s[i] ELSE u[i - n]
  <2>1. /\ s \o u \in Seq(1..total) /\ Len(s \o u) = Len(s) + Len(u)
        /\ \A i \in 1..(Len(s) + Len(u)) : (s \o u)[i] = IF i <= Len(s) THEN s[i] ELSE u[i - Len(s)]
    <3> DEFINE S == 1..total
    <3>1. s \in Seq(S) /\ u \in Seq(S)
      BY <1>1
    <3> HIDE DEF S
    <3>2. /\ s \o u \in Seq(S) /\ Len(s \o u) = Len(s) + Len(u)
          /\ \A i \in 1..(Len(s) + Len(u)) : (s \o u)[i] = IF i <= Len(s) THEN s[i] ELSE u[i - Len(s)]
      BY <3>1, ConcatProperties
    <3> QED
      BY <3>2 DEF S
  <2> HIDE DEF t
  <2>2. t = s \o u
    BY DEF t
  <2> QED
    BY <1>1, <2>1, <2>2
<1>4. \A i \in 1..n : s[i] = i
  OBVIOUS
<1>5. ASSUME NEW i \in 1..(n + k) PROVE t[i] = i
  <2>1. CASE i <= n
    BY <1>3, <1>4, <2>1
  <2>2. CASE ~(i <= n)
    <3>1. i - n \in 1..k
      BY <2>2
    <3>2. u[i - n] = n + (i - n)
      BY <1>2, <3>1
    <3> QED
      BY <1>3, <2>2, <3>2
  <2> QED
    BY <2>1, <2>2
<1> HIDE DEF t
<1>6. t = [i \in 1..Len(t) |-> t[i]]
  BY <1>3
<1>7. t = [i \in 1..(n + k) |-> i]
  BY <1>3, <1>5, <1>6
<1> QED
  BY <1>3, <1>7 DEF t, u

-----------------------------------------------------------------------------
(* The list: pages                                                         *)

\* Good pages have a next page exactly if products are left, which begin
\* where the pages end.
LEMMA NextOfGood ==
  ASSUME NEW pages, Good(pages), total \in Nat
  PROVE  LET loaded == Len(pages.entries)
         IN  /\ loaded \in Nat
             /\ NextPage(pages) = 0 <=> loaded = total
             /\ NextPage(pages) # 0 => loaded % Limit = 0 /\ (NextPage(pages) - 1) * Limit = loaded
<1> DEFINE loaded == Len(pages.entries)
<1>1. loaded \in Nat /\ Limit \in Nat \ {0} /\ pages.offset \in Nat /\ pages.offset <= total
  BY StorefrontAssumption DEF Good, Pages
<1>2. loaded % Limit # 0 => loaded = total
  BY DEF Good
<1>3. NextPage(pages) = IF loaded % Limit # 0 \/ loaded = total \/ pages.offset > total
                        THEN 0 ELSE loaded \div Limit + 1
  BY DEF NextPage
<1> HIDE DEF loaded
<1>4. loaded \div Limit \in Nat /\ loaded = Limit * (loaded \div Limit) + (loaded % Limit)
  BY <1>1, Division
<1>5. ~(pages.offset > total)
  BY <1>1
<1>6. CASE loaded = total
  <2>1. NextPage(pages) = 0
    BY <1>3, <1>6
  <2> QED
    BY <1>1, <1>6, <2>1 DEF loaded
<1>7. CASE loaded # total
  <2>1. loaded % Limit = 0
    BY <1>2, <1>7
  <2>2. NextPage(pages) = loaded \div Limit + 1
    BY <1>3, <1>5, <1>7, <2>1
  <2> DEFINE q == loaded \div Limit
  <2>3. q \in Nat /\ loaded = Limit * q + 0 /\ NextPage(pages) = q + 1
    BY <1>4, <2>1, <2>2
  <2> HIDE DEF q
  <2>4. NextPage(pages) # 0 /\ NextPage(pages) - 1 = q
    BY <2>3
  <2>5. q * Limit = loaded
    BY <1>1, <2>3
  <2> QED
    BY <1>1, <1>7, <2>1, <2>4, <2>5 DEF loaded
<1> QED
  BY <1>1, <1>6, <1>7 DEF loaded

\* The next page makes good pages longer and good.
LEMMA ExtendIsGood ==
  ASSUME NEW pages, Good(pages), total \in Nat, NextPage(pages) # 0
  PROVE  Good(Extend(pages)) /\ Extend(pages).count # 0
<1> DEFINE n == Len(pages.entries)
           k == IF n + Limit <= total THEN Limit ELSE total - n
           t == pages.entries \o [i \in 1..k |-> n + i]
<1>1. pages \in [count : Nat, entries : Seq(1..total), offset : Nat] /\ Limit \in Nat \ {0}
  BY StorefrontAssumption DEF Good, Pages
<1>2. n \in Nat /\ n # total /\ n % Limit = 0 /\ (NextPage(pages) - 1) * Limit = n
  BY NextOfGood
<1>3. n < total
  BY <1>2 DEF Good
<1>4. Extend(pages) = [count |-> pages.count + 1, entries |-> t, offset |-> n]
  BY <1>2 DEF Extend, PageAt
<1>5. pages.entries \in Seq(1..total) /\ pages.entries = [i \in 1..n |-> i]
  BY <1>1 DEF Good
<1>6. k \in Nat /\ n + k <= total /\ (n + k = total \/ k = Limit)
  <2> HIDE DEF n
  <2> QED
    BY <1>1, <1>2, <1>3
<1>7. t \in Seq(1..total) /\ Len(t) = n + k /\ t = [i \in 1..(n + k) |-> i]
  <2> DEFINE s == pages.entries
  <2>1. s \in Seq(1..total) /\ s = [i \in 1..n |-> i] /\ Len(s) = n
    BY <1>5
  <2> HIDE DEF n, k, s
  <2>2. LET w == s \o [i \in 1..k |-> n + i]
        IN  w \in Seq(1..total) /\ Len(w) = n + k /\ w = [i \in 1..(n + k) |-> i]
    BY <1>2, <1>6, <2>1, Joined
  <2> QED
    BY <2>2 DEF s
<1>8. Len(t) % Limit # 0 => Len(t) = total
  <2> HIDE DEF n, k, t
  <2>1. k = Limit => (n + k) % Limit = 0
    BY <1>1, <1>2, OnePageMore
  <2> QED
    BY <1>6, <1>7, <2>1
<1>9. pages.count \in Nat /\ pages.count + 1 \in Nat /\ pages.count + 1 # 0
  BY <1>1
<1> HIDE DEF n, k, t
<1> DEFINE e == [count |-> pages.count + 1, entries |-> t, offset |-> n]
<1>10. e \in Pages /\ e.count # 0 /\ e.entries = t /\ e.offset = n
  BY <1>2, <1>7, <1>9 DEF Pages
<1>11. Len(t) <= total /\ t = [i \in 1..Len(t) |-> i] /\ n <= total
  BY <1>2, <1>3, <1>6, <1>7
<1> HIDE DEF e
<1>12. Good(e)
  BY <1>8, <1>10, <1>11 DEF Good
<1> QED
  BY <1>4, <1>10, <1>12 DEF e

LEMMA NoPagesAreGood == ASSUME total \in Nat PROVE Good(NoPages) /\ NoPages.count = 0
<1>1. Limit \in Nat \ {0}
  BY StorefrontAssumption
<1>2. <<>> \in Seq(1..total) /\ Len(<<>>) = 0 /\ <<>> = [i \in 1..0 |-> i]
  OBVIOUS
<1>3. 0 % Limit = 0
  BY <1>1
<1>4. NoPages.count = 0 /\ NoPages.entries = <<>> /\ NoPages.offset = 0
  BY DEF NoPages
<1>5. NoPages \in Pages
  BY <1>2 DEF NoPages, Pages
<1> QED
  BY <1>2, <1>3, <1>4, <1>5 DEF Good

LEMMA ListMoves == ASSUME ListOK, ListStep \/ Leave PROVE ListOK'
<1>1. /\ total \in Nat /\ UNCHANGED total
      /\ list \in [fetch : {"none", "all", "next"}, pages : Pages, fresh : Pages, error : BOOLEAN]
      /\ inView \in BOOLEAN /\ Good(list.pages) /\ Good(list.fresh)
  BY Parts DEF ListOK
<1>2. Good(NoPages) /\ NoPages.count = 0 /\ NoPages \in Pages
  BY <1>1, NoPagesAreGood DEF Good
<1>3. \A pages : Good(pages)' <=> Good(pages)
  BY <1>1 DEF Good, Pages
<1>4. \A pages : NextPage(pages)' = NextPage(pages)
  BY <1>1 DEF NextPage
<1>5. Pages' = Pages
  BY <1>1 DEF Pages
\* A new fetch.
<1>6. ASSUME NEW kind \in {"all", "next"}, list' = Fetch(kind), inView' \in BOOLEAN,
             kind = "next" => NextPage(list.pages) # 0
      PROVE  ListOK'
  <2>1. [list EXCEPT !.fetch = kind] = [fetch |-> kind, pages |-> list.pages, fresh |-> list.fresh, error |-> list.error]
    BY <1>1
  <2>2. list' = [fetch |-> kind, pages |-> list.pages, fresh |-> NoPages, error |-> list.error]
    BY <1>6, <2>1 DEF Fetch
  <2>3. Base' = IF kind = "next" THEN list.pages ELSE NoPages
    BY <2>2 DEF Base
  <2>4. list'.pages = list.pages /\ list'.fresh = NoPages
    BY <2>2
  <2>5. list' \in [fetch : {"none", "all", "next"}, pages : Pages, fresh : Pages, error : BOOLEAN]
    BY <1>1, <1>2, <2>2
  <2>6. Base'.count = 0 \/ NextPage(Base') # 0
    BY <1>2, <1>6, <2>3
  <2>7. Base'.count = 0 \/ NextPage(Base)' # 0
    BY <1>1, <2>6 DEF NextPage
  <2> QED
    BY <1>1, <1>2, <1>3, <1>5, <1>6, <2>4, <2>5, <2>7 DEF ListOK
\* The end of a fetch.
<1>7. ASSUME NEW pages, Good(pages), NEW error \in BOOLEAN, FetchEnds(pages, error) PROVE ListOK'
  <2>1. list' = [fetch |-> "none", pages |-> pages, fresh |-> NoPages, error |-> error] /\ inView' \in BOOLEAN
    BY <1>1, <1>7 DEF FetchEnds
  <2>2. pages \in Pages
    BY <1>7 DEF Good
  <2>3. list'.fetch = "none" /\ list'.pages = pages /\ list'.fresh = NoPages
    BY <2>1
  <2>4. list' \in [fetch : {"none", "all", "next"}, pages : Pages, fresh : Pages, error : BOOLEAN]
    BY <1>2, <2>1, <2>2
  <2> QED
    BY <1>1, <1>2, <1>3, <1>5, <1>7, <2>1, <2>3, <2>4 DEF ListOK
<1>8. ASSUME UNCHANGED list, inView' \in BOOLEAN PROVE ListOK'
  <2>1. UNCHANGED Base
    BY <1>8 DEF Base
  <2>2. list.fetch # "none" => Base.count = 0 \/ NextPage(Base)' # 0
    BY <1>1, <2>1 DEF ListOK, NextPage
  <2> QED
    BY <1>1, <1>3, <1>5, <1>8, <2>1, <2>2 DEF ListOK
<1>9. CASE Focus
  BY <1>1, <1>6, <1>9 DEF Focus, Mounted
<1>10. CASE ScrollToLoader
  BY <1>1, <1>6, <1>10 DEF ScrollToLoader, Loading
<1>11. CASE LoaderLeavesView
  BY <1>8, <1>11 DEF LoaderLeavesView
<1>12. CASE FetchFails
  BY <1>1, <1>7, <1>12 DEF FetchFails
<1>13. CASE Leave
  BY <1>6, <1>8, <1>13 DEF Leave, GoTo, Mounted
<1>14. CASE PageArrives
  <2>1. list.fetch # "none" /\ Offset < total
    BY <1>14 DEF PageArrives
  <2>2. Good(Base)
    BY <1>1 DEF Base
  <2>3. NextPage(Base) # 0
    <3>1. CASE Base.count = 0
      <4>1. Len(Base.entries) = 0 /\ 0 < total
        BY <2>1, <2>2, <3>1 DEF Good, Offset
      <4> QED
        BY <1>1, <2>2, <4>1, NextOfGood
    <3>2. CASE Base.count # 0
      BY <2>1, <3>2 DEF ListOK
    <3> QED
      BY <3>1, <3>2
  <2> DEFINE pages == Extend(Base)
  <2>4. Good(pages) /\ pages \in Pages
    BY <1>1, <2>2, <2>3, ExtendIsGood DEF Good
  <2> HIDE DEF pages
  <2>5. CASE FetchEnds(pages, FALSE)
    BY <1>7, <2>4, <2>5
  <2>6. CASE /\ list.fetch = "all" /\ NextPage(pages) # 0
             /\ list' = [list EXCEPT !.fresh = pages] /\ UNCHANGED inView
    <3>1. list' = [fetch |-> "all", pages |-> list.pages, fresh |-> pages, error |-> list.error]
      BY <1>1, <2>6
    <3>2. list'.fetch = "all" /\ list'.pages = list.pages /\ list'.fresh = pages
      BY <3>1
    <3>3. list' \in [fetch : {"none", "all", "next"}, pages : Pages, fresh : Pages, error : BOOLEAN]
      BY <1>1, <2>4, <3>1
    <3>4. Base' = pages
      BY <3>2 DEF Base
    <3>5. NextPage(Base)' # 0
      BY <1>1, <2>6, <3>4 DEF NextPage
    <3> QED
      BY <1>1, <1>3, <1>5, <2>4, <2>6, <3>2, <3>3, <3>5 DEF ListOK
  <2>7. \/ FetchEnds(pages, FALSE)
        \/ /\ list.fetch = "all" /\ NextPage(pages) # 0
           /\ list' = [list EXCEPT !.fresh = pages] /\ UNCHANGED inView
    BY <1>14 DEF PageArrives, pages
  <2> QED
    BY <2>5, <2>6, <2>7
<1> QED
  BY <1>9, <1>10, <1>11, <1>12, <1>13, <1>14 DEF ListStep

-----------------------------------------------------------------------------
(* The theorems                                                            *)

\* Whoever neither scrolls nor fetches leaves the list alone.
LEMMA ListKept == ASSUME ListOK, UNCHANGED <<total, list, inView>> PROVE ListOK'
<1>1. UNCHANGED Base
  BY DEF Base
<1>2. NextPage(Base)' = NextPage(Base)
  BY <1>1 DEF NextPage
<1>3. \A pages : Good(pages)' <=> Good(pages)
  BY DEF Good, Pages
<1>4. Pages' = Pages
  BY DEF Pages
<1> QED
  BY <1>1, <1>2, <1>3, <1>4 DEF ListOK

LEMMA PageStep == ASSUME PageOK, Next PROVE PageOK'
<1>1. ASSUME UNCHANGED visit, page' \in PagesOf[visit] \cup {page, "success"} PROVE PageOK'
  BY <1>1 DEF PageOK
<1>2. CASE CartStep
  <2>1. page' \in {page, "success"}
    BY <1>2 DEF CartStep, AddProductToCart, RemoveProductFromCart, UpdateCartItemQuantity, CreateOrder, TakeOrder,
                OrderAnswered, OrderFails
  <2> QED
    BY <1>1, <1>2, <2>1, Parts
<1>3. CASE Leave
  BY <1>1, <1>3 DEF Leave, GoTo
<1>4. CASE OverlayStep \/ ListStep
  BY <1>1, <1>4, Parts
<1> QED
  BY <1>2, <1>3, <1>4, Parts

LEMMA InitIInv == ASSUME Init PROVE IInv
<1>1. ShopOK
  <2>1. <<>> \in Cart(Products)
    <3>1. <<>> \in [{} -> Quantities]
      OBVIOUS
    <3> QED
      BY <3>1 DEF Cart
  <2> QED
    BY <2>1 DEF Init, ShopOK
<1>2. ListOK
  <2>1. total \in Nat /\ inView = FALSE
    BY StorefrontAssumption DEF Init
  <2>2. list = [fetch |-> IF page = "home" THEN "all" ELSE "none", pages |-> NoPages, fresh |-> NoPages, error |-> FALSE]
    BY DEF Init
  <2>3. Good(NoPages) /\ NoPages.count = 0 /\ NoPages \in Pages
    BY <2>1, NoPagesAreGood DEF Good
  <2>4. Base = NoPages /\ list.pages = NoPages /\ list.fresh = NoPages
    BY <2>2 DEF Base
  <2>5. list \in [fetch : {"none", "all", "next"}, pages : Pages, fresh : Pages, error : BOOLEAN]
    BY <2>2, <2>3
  <2> QED
    BY <2>1, <2>3, <2>4, <2>5 DEF ListOK
<1>3. OverlaysOK
  BY DEF Init, Hidden, OverlaysOK, OverlayOK, Overlay
<1>4. PageOK
  BY DEF Init, PageOK
<1> QED
  BY <1>1, <1>2, <1>3, <1>4 DEF IInv

LEMMA NextIInv == ASSUME IInv, [Next]_vars PROVE IInv'
<1>1. CASE Next
  <2>1. ListOK'
    BY <1>1, ListMoves, ListKept, Parts DEF IInv
  <2> QED
    BY <1>1, <2>1, ShopStep, OverlaysStep, PageStep DEF IInv
<1>2. CASE UNCHANGED vars
  <2>1. UNCHANGED <<visit, page, cart, orders, form, touched, total, list, inView, toast, modal, auth>>
    BY <1>2 DEF vars
  <2>2. ListOK'
    BY <2>1, ListKept DEF IInv
  <2>3. ShopOK'
    BY <2>1 DEF IInv, ShopOK, Covered, UnderWay
  <2>4. OverlaysOK' /\ PageOK'
    BY <2>1 DEF IInv, OverlaysOK, PageOK
  <2> QED
    BY <2>2, <2>3, <2>4 DEF IInv
<1> QED
  BY <1>1, <1>2

THEOREM Invariance == Spec => []IInv
BY InitIInv, NextIInv, PTL DEF Spec

\* Cart, orders, pages, toast and modal stay well-formed through every
\* callback of the shop.
THEOREM TypeCorrect == Spec => []TypeOK
<1>1. ASSUME IInv PROVE TypeOK
  <2>1. ShopOK /\ ListOK /\ OverlaysOK /\ PageOK
    BY <1>1 DEF IInv
  <2>2. DOMAIN orders = 1..Len(orders) /\ \A o \in 1..Len(orders) : orders[o] \in Orders
    BY <2>1 DEF ShopOK
  <2>3. touched \in [1..Len(orders) -> SUBSET Products]
    BY <2>1, LenProperties DEF ShopOK
  <2> QED
    BY <2>1, <2>2, <2>3 DEF ShopOK, ListOK, OverlaysOK, OverlayOK, PageOK, TypeOK, Orders
<1> QED
  BY <1>1, Invariance, PTL

\* useProductsInfiniteQuery: for any page size and any number of products the
\* list is a prefix in order, complete exactly when no page is left, and no
\* page beyond the end is asked for.
THEOREM ListInOrder == Spec => []PagesInOrder
<1>1. ASSUME IInv PROVE PagesInOrder
  <2>1. ListOK
    BY <1>1 DEF IInv
  <2>2. Good(list.pages) /\ Good(Base) /\ total \in Nat
    BY <2>1 DEF ListOK, Base
  <2>3. list.pages.entries = [i \in 1..Len(list.pages.entries) |-> i]
    BY <2>2 DEF Good
  <2>4. NextPage(list.pages) = 0 => Len(list.pages.entries) = total
    BY <2>2, NextOfGood
  <2>5. ASSUME list.fetch # "none", total > 0 PROVE Offset < total
    <3>1. CASE Base.count = 0
      BY <2>5, <3>1 DEF Offset
    <3>2. CASE Base.count # 0
      <4>1. NextPage(Base) # 0
        BY <2>1, <2>5, <3>2 DEF ListOK
      <4>2. Offset = Len(Base.entries) /\ Len(Base.entries) # total /\ Len(Base.entries) \in Nat
        BY <2>2, <3>2, <4>1, NextOfGood DEF Offset
      <4>3. Len(Base.entries) <= total
        BY <2>2 DEF Good
      <4> QED
        BY <2>2, <4>2, <4>3
    <3> QED
      BY <3>1, <3>2
  <2> QED
    BY <2>3, <2>4, <2>5 DEF PagesInOrder
<1> QED
  BY <1>1, Invariance, PTL

\* ToastManager and ModalManager: the delayed reset never takes what is on
\* display, unless it was shown while a reset was due.
THEOREM ShownWithContent == Spec => []NothingShownBlank
<1>1. IInv => NothingShownBlank
  BY DEF IInv, OverlaysOK, OverlayOK, NothingShownBlank
<1> QED
  BY <1>1, Invariance, PTL

\* handleCreateOrder: an order clears nothing from the cart but what it
\* ordered or what came or changed since it was sent.
THEOREM ClearedWasOrdered == Spec => CartLeavesWithItsOrder
<1> DEFINE Leaves(o) ==
             /\ orders[o].status = "taken" /\ orders'[o].status = "answered"
             /\ \A p \in DOMAIN cart :
                   p \in touched[o] \/ (p \in DOMAIN orders[o].items /\ orders[o].items[p] = cart[p])
<1>1. ASSUME IInv, Next, orders' # orders, cart' # cart PROVE \E o \in DOMAIN orders : Leaves(o)
  <2>1. CartStep
    BY <1>1, Parts
  <2>2. PICK o \in DOMAIN orders : OrderAnswered(o)
    BY <1>1, <2>1 DEF CartStep, AddProductToCart, RemoveProductFromCart, UpdateCartItemQuantity, CreateOrder,
                      TakeOrder, OrderFails
  <2>3. ShopOK /\ UnderWay(o) /\ o \in 1..Len(orders) /\ orders[o].status = "taken"
    BY <1>1, <2>2 DEF IInv, ShopOK, OrderAnswered, UnderWay
  <2>4. orders'[o].status = "answered"
    BY <2>2, <2>3, StatusMoves DEF OrderAnswered
  <2>5. Covered(o)
    BY <2>3 DEF ShopOK
  <2> QED
    BY <2>3, <2>4, <2>5 DEF Covered
<1>2. ASSUME IInv, [Next]_vars, orders' # orders, cart' # cart PROVE \E o \in DOMAIN orders : Leaves(o)
  BY <1>1, <1>2 DEF vars
<1> QED
  BY <1>2, Invariance, PTL DEF Spec, CartLeavesWithItsOrder
=============================================================================
