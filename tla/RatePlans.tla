------------------------------ MODULE RatePlans ------------------------------
(***************************************************************************)
(* Rate plans and fees (RatePlansService), the quote a guest is shown      *)
(* (previewPricing) and the GST of a line (computeGst).                    *)
(*                                                                         *)
(* An update reads the row, validates the patch merged into it, and writes *)
(* only the patch, in two statements: another update may come between.     *)
(***************************************************************************)
EXTENDS Absent, Integers, Sequences, FiniteSets, Functions

CONSTANTS
    Plans,
    Names,
    StayLimits,      \* nights a plan may ask for, at least or at most
    Fees,
    Calculations,    \* \subseteq {"PERCENT", "FIXED"}
    Values,          \* basis points or paise
    Editors,         \* staff that edit at once
    Quotes           \* inputs of previewPricing

VARIABLES
    plans,
    fees,
    editing,         \* updates that have read and not yet written
    contested,       \* history: plans and fees two updates met on
    quote            \* the stay being priced

planVars == <<plans, fees, editing, contested, quote>>

PlanRows == [status : {"LIVE", "DELETED"}, name : Names, selling : BOOLEAN,
             minStay : StayLimits \cup {Null}, maxStay : StayLimits \cup {Null}]

FeeRows == [status : {"LIVE", "DELETED"}, calculation : Calculations, value : Values]

\* A plan is not a fee, and null is neither, nor a row of one.
ASSUME PlansAndFeesAssumption ==
    Plans \cap Fees = {} /\ Null \notin Plans \cup Fees \cup PlanRows \cup FeeRows

\* A patch names the fields it writes.
PlanPatches == {[name |-> n] : n \in Names} \cup {[minStay |-> k] : k \in StayLimits \cup {Null}}
               \cup {[maxStay |-> k] : k \in StayLimits \cup {Null}}
               \cup [minStay : StayLimits, maxStay : StayLimits]

FeePatches == {[value |-> v] : v \in Values} \cup {[calculation |-> c] : c \in Calculations}
              \cup [value : Values, calculation : Calculations]

NoEdit == [target |-> Null, patch |-> Null]

PlansInit ==
    /\ plans = [p \in Plans |-> Null]
    /\ fees = [f \in Fees |-> Null]
    /\ editing = [e \in Editors |-> NoEdit]
    /\ contested = {}
    /\ quote \in Quotes

(***************************************************************************)
(* Plans and fees.                                                         *)
(***************************************************************************)

Merged(row, patch) == [k \in DOMAIN row |-> IF k \in DOMAIN patch THEN patch[k] ELSE row[k]]

\* Mutation for TermsAgree: the patch is validated by itself.
PatchAlone(row, patch) == patch

\* What is validated: the row as it would be.
Proposed(row, patch) == Merged(row, patch)

validatePlan(row) ==
    {"minStay", "maxStay"} \subseteq DOMAIN row =>
        (Null \notin {row.minStay, row.maxStay} => row.minStay <= row.maxStay)

validateFee(row) ==
    {"value", "calculation"} \subseteq DOMAIN row =>
        (row.value >= 0 /\ (row.calculation = "PERCENT" => row.value <= 10000))

LivePlan(p) == plans[p] # Null /\ plans[p].status = "LIVE"
LiveFee(f) == fees[f] # Null /\ fees[f].status = "LIVE"

\* The partial unique index: a deleted plan's name is free again.
NameFree(p, name) == \A q \in Plans \ {p} : LivePlan(q) => plans[q].name # name

createPlan(p) ==
    /\ plans[p] = Null
    /\ \E row \in PlanRows : /\ row.status = "LIVE"
                             /\ validatePlan(row)
                             /\ NameFree(p, row.name)
                             /\ plans' = [plans EXCEPT ![p] = row]
    /\ UNCHANGED <<fees, editing, contested, quote>>

createFee(f) ==
    /\ fees[f] = Null
    /\ \E row \in FeeRows : /\ row.status = "LIVE"
                            /\ validateFee(row)
                            /\ fees' = [fees EXCEPT ![f] = row]
    /\ UNCHANGED <<plans, editing, contested, quote>>

\* The update has read its row, and others may be at the same row.
ReadsTerms(e, target, patch) ==
    /\ editing[e] = NoEdit
    /\ editing' = [editing EXCEPT ![e] = [target |-> target, patch |-> patch]]
    /\ contested' = IF \E o \in Editors \ {e} : editing[o].target = target
                    THEN contested \cup {target} ELSE contested
    /\ UNCHANGED <<plans, fees, quote>>

ReadPlan(e, p) ==
    /\ LivePlan(p)
    /\ \E patch \in PlanPatches :
          /\ validatePlan(Proposed(plans[p], patch))
          /\ "name" \in DOMAIN patch => NameFree(p, patch.name)
          /\ ReadsTerms(e, p, patch)

ReadFee(e, f) ==
    /\ LiveFee(f)
    /\ \E patch \in FeePatches : /\ validateFee(Proposed(fees[f], patch))
                                 /\ ReadsTerms(e, f, patch)

\* The patch alone is written, to the row as it is by now; a taken name is
\* refused by the index.
updatePlan(e) ==
    LET p == editing[e].target
        row == Merged(plans[p], editing[e].patch)
    IN  /\ p \in Plans
        /\ plans' = IF row.status = "DELETED" \/ NameFree(p, row.name)
                    THEN [plans EXCEPT ![p] = row] ELSE plans
        /\ editing' = [editing EXCEPT ![e] = NoEdit]
        /\ UNCHANGED <<fees, contested, quote>>

updateFee(e) ==
    LET f == editing[e].target IN
    /\ f \in Fees
    /\ fees' = [fees EXCEPT ![f] = Merged(@, editing[e].patch)]
    /\ editing' = [editing EXCEPT ![e] = NoEdit]
    /\ UNCHANGED <<plans, contested, quote>>

setPlanStatus(p) ==
    /\ LivePlan(p)
    /\ plans' = [plans EXCEPT ![p].selling = ~@]
    /\ UNCHANGED <<fees, editing, contested, quote>>

removePlan(p) ==
    /\ LivePlan(p)
    /\ plans' = [plans EXCEPT ![p].status = "DELETED"]
    /\ UNCHANGED <<fees, editing, contested, quote>>

removeFee(f) ==
    /\ LiveFee(f)
    /\ fees' = [fees EXCEPT ![f].status = "DELETED"]
    /\ UNCHANGED <<plans, editing, contested, quote>>

PlansNext ==
    \/ \E p \in Plans : createPlan(p) \/ setPlanStatus(p) \/ removePlan(p)
    \/ \E f \in Fees : createFee(f) \/ removeFee(f)
    \/ \E e \in Editors : updatePlan(e) \/ updateFee(e)
    \/ \E e \in Editors, p \in Plans : ReadPlan(e, p)
    \/ \E e \in Editors, f \in Fees : ReadFee(e, f)

PlansSpec == PlansInit /\ [][PlansNext]_planVars

(***************************************************************************)
(* previewPricing.                                                         *)
(***************************************************************************)

BPS == 10000

\* Division to the nearest integer, halves away from zero.
Nearest(a, b) == IF a < 0 THEN -((b - 2 * a) \div (2 * b)) ELSE (2 * a + b) \div (2 * b)

feeMultiplier(fee, nights, guests) ==
    (IF fee.period = "PER_NIGHT" THEN nights ELSE 1) * (IF fee.basis = "PER_GUEST" THEN guests ELSE 1)

\* The sum over a sequence of fees of what F gives each.
Total(F(_), list) == FoldFunction(LAMBDA x, y : x + y, 0, [i \in DOMAIN list |-> F(list[i])])

\* The net rate of a night inside a price that contains the taxes.
NetNight(q) ==
    LET m(f) == feeMultiplier(f, q.nights, q.guests)
        fixed == Total(LAMBDA f : IF f.calculation = "FIXED" THEN f.value * m(f) ELSE 0, q.fees)
        weight == Total(LAMBDA f : IF f.calculation = "PERCENT" THEN f.value * m(f) ELSE 0, q.fees)
        net == Nearest((q.price * q.nights - fixed) * BPS, q.nights * BPS + weight)
    IN IF net < 0 THEN 0 ELSE net

\* The line of one fee, at the given net rate of a night.
FeeLine(q, f, perNight) ==
    (IF f.calculation = "PERCENT" THEN Nearest(perNight * f.value, BPS) ELSE f.value)
        * feeMultiplier(f, q.nights, q.guests)

previewPricing(q) ==
    LET perNight == IF q.inclusive THEN NetNight(q) ELSE q.price
        tax == Total(LAMBDA f : FeeLine(q, f, perNight), q.fees)
        base == IF q.inclusive THEN q.price * q.nights - tax ELSE q.price * q.nights
    IN IF q.nights = 0 THEN [perNight |-> 0, base |-> 0, tax |-> 0, guest |-> 0]
       ELSE [perNight |-> perNight, base |-> base, tax |-> tax, guest |-> base + tax]

(***************************************************************************)
(* GST: one rounding for the whole tax, and the odd paisa to CGST.         *)
(***************************************************************************)

resolveGstRate(category, amount) ==
    CASE category = "accommodation" -> IF amount <= 750000 THEN 12 ELSE 18
      [] category = "restaurant" -> 5
      [] OTHER -> 18

computeGst(taxable, rate, intraState) ==
    LET tax == (2 * taxable * rate + 100) \div 200
        sgst == IF intraState THEN tax \div 2 ELSE 0
    IN [sgst |-> sgst, cgst |-> IF intraState THEN tax - sgst ELSE 0,
        igst |-> IF intraState THEN 0 ELSE tax, tax |-> tax, total |-> taxable + tax]

(***************************************************************************)
(* Properties.                                                             *)
(***************************************************************************)

PlansTypeOK ==
    /\ plans \in [Plans -> PlanRows \cup {Null}]
    /\ fees \in [Fees -> FeeRows \cup {Null}]
    /\ contested \subseteq Plans \cup Fees

\* A plan's shortest stay is not longer than its longest, and a percentage
\* is not above the whole, unless two updates of the row overlapped: each is
\* validated against the row it read (updatePlan, updateFee).
TermsAgree ==
    /\ \A p \in Plans \ contested : plans[p] # Null => validatePlan(plans[p])
    /\ \A f \in Fees \ contested : fees[f] # Null => validateFee(fees[f])

\* The factors of the percentages of a quote.
Factors(q) ==
    Total(LAMBDA f : IF f.calculation = "PERCENT" THEN feeMultiplier(f, q.nights, q.guests) ELSE 0,
          q.fees)

\* A quote with the taxes inside undoes a quote with the taxes on top: taken
\* from what the guest pays for a net rate, the net rate comes back, but for
\* the rounding of its lines.  No paisa is lost between the lines and the
\* price the guest was shown.
QuotesAddUp ==
    LET shown == previewPricing(quote)
        net == previewPricing([quote EXCEPT !.inclusive = FALSE])
        back == previewPricing([quote EXCEPT !.inclusive = TRUE, !.price = net.guest \div quote.nights])
    IN  /\ quote.inclusive => shown.guest = quote.price * quote.nights
        /\ quote.nights > 0 /\ net.guest % quote.nights = 0 =>
              LET off == back.perNight - quote.price
              IN (IF off < 0 THEN -off ELSE off) <= 1 + Factors(quote) \div (2 * quote.nights)
=============================================================================
