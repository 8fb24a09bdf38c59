---------------------------- MODULE BookingEngine ----------------------------
(***************************************************************************)
(* Booking from the hotel's own page (BookingEngineService.book): what is  *)
(* on sale is looked up, the stay goes through the desk's create, then the *)
(* add-ons and the coupon go onto its folio, each in a statement of its    *)
(* own.  Other guests book, and the hotel edits its catalogues, between.   *)
(***************************************************************************)
EXTENDS PropertyConfig

CONSTANTS
    Guests,      \* one booking each
    RoomsOnSale, \* rooms left of the type for the stay
    HoldMinutes  \* {TRUE} when bookings are held, {FALSE} when confirmed, or both

VARIABLES
    stays,       \* guest -> [status, addons, discount], or Null
    visits,      \* guest -> where the request stands
    bursts       \* history: coupons redeemed twice at once, or whose limit moved meanwhile

engineVars == <<stays, visits, bursts>>

Steps == {"IDLE", "LOOKED", "CREATED", "POSTED", "VERDICT", "DISCOUNTED", "DONE", "REFUSED"}
NoVisit == [step |-> "IDLE", hotel |-> Null, coupon |-> Null, picks |-> {}]

EngineInit ==
    /\ ConfigInit
    /\ stays = [g \in Guests |-> Null]
    /\ visits = [g \in Guests |-> NoVisit]
    /\ bursts = {}

Goes(g, step) == visits' = [visits EXCEPT ![g].step = step]

\* A hold does not take a room, a confirmed stay does.
Sold == Cardinality({g \in Guests : stays[g] # Null /\ stays[g].status = "CONFIRMED"})

(***************************************************************************)
(* The page is on, a room is left, and a code given is good.               *)
(***************************************************************************)
Look(g) ==
    /\ visits[g] = NoVisit
    /\ \E slug \in Slugs, h \in Hotels, picks \in SUBSET AddOns, c \in Coupons \cup {Null} :
          /\ h \in settingsBySlug(slug)
          /\ Sold < RoomsOnSale
          /\ c # Null => redeemableCoupon(c)
          /\ visits' = [visits EXCEPT ![g] =
                           [step |-> "LOOKED", hotel |-> h, coupon |-> c, picks |-> picks]]
    /\ UNCHANGED <<configVars, stays, bursts>>

\* The desk's create checks again, unless the booking is only held.
Create(g) ==
    /\ visits[g].step = "LOOKED"
    /\ \E holds \in HoldMinutes :
          \/ /\ holds \/ Sold < RoomsOnSale
             /\ stays' = [stays EXCEPT ![g] = [status |-> IF holds THEN "PENDING" ELSE "CONFIRMED",
                                               addons |-> {}, discount |-> FALSE]]
             /\ Goes(g, "CREATED")
          \/ /\ ~holds /\ Sold >= RoomsOnSale
             /\ Goes(g, "REFUSED")
             /\ UNCHANGED stays
    /\ UNCHANGED <<configVars, bursts>>

\* The add-ons picked that are still sold are charged; others are passed over.
PostAddOns(g) ==
    /\ visits[g].step = "CREATED"
    /\ stays' = [stays EXCEPT ![g].addons = visits[g].picks \cap SoldOnline]
    /\ Goes(g, IF visits[g].coupon = Null THEN "DONE" ELSE "POSTED")
    /\ UNCHANGED <<configVars, bursts>>

Redeeming(c) == {g \in Guests : visits[g].coupon = c /\ visits[g].step \in {"VERDICT", "DISCOUNTED"}}

\* The code is asked about again, and its answer stands until it is consumed.
AskCoupon(g) ==
    LET c == visits[g].coupon
    IN  /\ visits[g].step = "POSTED"
        /\ IF redeemableCoupon(c) THEN Goes(g, "VERDICT") ELSE Goes(g, "REFUSED")
        /\ bursts' = IF redeemableCoupon(c) /\ Redeeming(c) # {} THEN bursts \cup {c} ELSE bursts
        /\ UNCHANGED <<configVars, stays>>

applyDiscount(g) ==
    /\ visits[g].step = "VERDICT"
    /\ stays' = [stays EXCEPT ![g].discount = TRUE]
    /\ Goes(g, "DISCOUNTED")
    /\ UNCHANGED <<configVars, bursts>>

consumeCoupon(g) ==
    /\ visits[g].step = "DISCOUNTED"
    /\ coupons' = Consumed(visits[g].coupon)
    /\ Goes(g, "DONE")
    /\ UNCHANGED <<settings, policies, addons, drafts, raced, stays, bursts>>

\* The desk confirms a held stay, or lets it go: nothing is given back.
DeskDecides(g) ==
    /\ stays[g] # Null /\ stays[g].status = "PENDING"
    /\ \/ Sold < RoomsOnSale /\ stays' = [stays EXCEPT ![g].status = "CONFIRMED"]
       \/ stays' = [stays EXCEPT ![g].status = "CANCELLED"]
    /\ UNCHANGED <<configVars, visits, bursts>>

\* The hotel edits its catalogues: the limit of a coupon may change under a guest.
HotelEdits ==
    /\ ConfigNext
    /\ bursts' = bursts \cup {c \in Coupons : coupons'[c].maxUses # coupons[c].maxUses
                                            /\ Redeeming(c) # {}}
    /\ UNCHANGED <<stays, visits>>

EngineNext ==
    \/ HotelEdits
    \/ \E g \in Guests : \/ Look(g) \/ Create(g) \/ PostAddOns(g) \/ AskCoupon(g)
                         \/ applyDiscount(g) \/ consumeCoupon(g) \/ DeskDecides(g)

EngineSpec == EngineInit /\ [][EngineNext]_<<configVars, engineVars>>

(***************************************************************************)
(* Properties.                                                             *)
(***************************************************************************)

\* Rows and requests have their columns.
EngineTypeOK ==
    /\ ConfigTypeOK
    /\ \A g \in Guests : stays[g] # Null =>
          stays[g] \in [status : {"PENDING", "CONFIRMED", "CANCELLED"}, addons : SUBSET AddOns,
                        discount : BOOLEAN]
    /\ \A g \in Guests : visits[g].step \in Steps
    /\ bursts \subseteq Coupons

Discounted(c) == {g \in Guests : visits[g].coupon = c /\ stays[g] # Null /\ stays[g].discount}

\* A coupon is given no more often than its uses are counted, or are about to be,
\* unless two requests redeemed it at once or the hotel moved its limit meanwhile.
DiscountsWithinUses ==
    \A c \in Coupons \ bursts :
        Cardinality(Discounted(c)) <= coupons[c].uses + Cardinality(Redeeming(c))

\* "Count a use. Guarded so a burst cannot exceed maxUses" (consumeCoupon): the count
\* does not, the discounts do.
BurstStaysWithinLimit ==
    \A c \in Coupons : Cardinality(Discounted(c)) <= coupons[c].uses + Cardinality(Redeeming(c))

\* "An invalid code refuses the booking rather than silently charging full price to a
\* guest who expected less" (book): the stay stands, at full price, when the code was
\* used up between the two times it is asked about.
RefusedIsNotBooked == \A g \in Guests : visits[g].step = "REFUSED" => stays[g] = Null
=============================================================================
