---------------------------- MODULE RevenueEngine ----------------------------
(***************************************************************************)
(* The prices of one room type, night by night: the rates grid staff edit  *)
(* (RatesService.bulkUpdate), the date-range overrides and base rate under *)
(* it, and the revenue engine that writes rule prices into the same cells. *)
(*                                                                         *)
(* A run reads the rules, then the grid, then writes night after night in  *)
(* a transaction each; staff, the rules' editor and a second run may act   *)
(* between any two of these steps.                                         *)
(***************************************************************************)
EXTENDS Absent, Integers, FiniteSets

CONSTANTS
    Nights,          \* the nights of the horizon, integers
    Base,            \* the room type's base rate
    FloorPrice,      \* property_settings.min_room_price_paise
    HandPrices,      \* prices a person may type
    Deltas,          \* relative changes a person may make, basis points
    MaxPrice,        \* bound on what such a change makes
    Overrides,       \* date-range overrides
    OverrideOf,      \* [from, to, rate] of each
    Rules,
    Terms,           \* what a rule may say
    Rooms,           \* physical rooms of the type
    HourlyRun,       \* the run of the worker
    Demands          \* runs asked for by hand

VARIABLES
    days,            \* rate_inventory_days: price and the rule it came from
    overrides,       \* live overrides
    rules,           \* pricing_rules
    sold,            \* stays of the type that cover each night
    typed,           \* history: the price a person last put on each night
    crossed,         \* history: nights whose last hand price met a run, or a
                     \* rule's price that was the same
    pricing          \* the runs

engineVars == <<days, overrides, rules, sold, typed, crossed, pricing>>

Pricers == {HourlyRun} \cup Demands

Unpriced == [price |-> Null, rule |-> Null]

\* No rule and no override is not one of them; an override has a first night and a rate.
ASSUME PricesAssumption ==
    /\ Null \notin Rules /\ Null \notin Overrides /\ IsFiniteSet(Overrides)
    /\ \A o \in Overrides : OverrideOf[o].from \in Int /\ OverrideOf[o].rate \in Int

RuleRows == [status : {"NONE", "LIVE", "DELETED"}, enabled : BOOLEAN, terms : Terms]

NoPricing == [step |-> "IDLE", rules |-> << >>, cells |-> << >>, left |-> {}]

(***************************************************************************)
(* Arithmetic: basis points for PERCENT, paise for FIXED, halves up.       *)
(***************************************************************************)

AtLeast(low, x) == IF x < low THEN low ELSE x

ByPercent(price, bp) == (2 * price * (10000 + bp) + 10000) \div 20000

apply(price, t) ==
    AtLeast(0, IF t.kind = "PERCENT" THEN ByPercent(price, t.value) ELSE price + t.value)

compare(value, comparator, threshold) ==
    CASE comparator = "GT"  -> value > threshold
      [] comparator = "GTE" -> value >= threshold
      [] comparator = "LT"  -> value < threshold
      [] comparator = "LTE" -> value =< threshold
      [] OTHER              -> value = threshold

inRange(t, n) == (t.from # Null => n >= t.from) /\ (t.to # Null => n <= t.to)

\* ISO weekday of a night; night 1 is a Monday.
Weekday(n) == ((n - 1) % 7) + 1

matches(t, n, occupancy) ==
    \/ t.trigger = "OCCUPANCY" /\ compare(occupancy, t.comparator, t.threshold) /\ inRange(t, n)
    \/ t.trigger = "DAY_OF_WEEK" /\ Weekday(n) = t.threshold /\ inRange(t, n)
    \/ t.trigger \in {"SEASON", "SPECIAL_DATE"} /\ {t.from, t.to} # {Null} /\ inRange(t, n)

OccupancyPct(stays) == IF Rooms > 0 THEN (200 * stays + Rooms) \div (2 * Rooms) ELSE 0

(***************************************************************************)
(* The resolver: day, then override, then base.                            *)
(***************************************************************************)

Covering(n) == {o \in overrides : OverrideOf[o].from <= n /\ n <= OverrideOf[o].to}

RateOf(o) == IF o = Null THEN Base ELSE OverrideOf[o].rate

\* nightlyPrices takes the dearest override, baseWithoutRule the earliest.
Dearest(n) == CHOOSE o \in Covering(n) : \A p \in Covering(n) : RateOf(p) <= RateOf(o)
Earliest(n) == CHOOSE o \in Covering(n) : \A p \in Covering(n) : OverrideOf[o].from <= OverrideOf[p].from

nightlyPrice(n) ==
    IF days[n].price # Null THEN days[n].price
    ELSE IF Covering(n) # {} THEN RateOf(Dearest(n)) ELSE Base

\* Mutation for NeverCompounds: the rule's own price is taken for the base.
CompoundedBase(n) == nightlyPrice(n)

baseWithoutRule(n) ==
    IF Covering(n) = {} THEN Base
    ELSE IF days[n].price = Null THEN RateOf(Dearest(n)) ELSE RateOf(Earliest(n))

\* A cell that already has the value is not written, tag and all.
bulkUpdate(n, price, tag) ==
    days' = IF days[n].price = price THEN days ELSE [days EXCEPT ![n] = [price |-> price, rule |-> tag]]

EngineInit ==
    /\ days = [n \in Nights |-> Unpriced]
    /\ overrides = {}
    /\ rules \in [Rules -> {r \in RuleRows : r.status = "NONE" /\ ~r.enabled}]
    /\ sold = [n \in Nights |-> 0]
    /\ typed = [n \in Nights |-> Null]
    /\ crossed = {}
    /\ pricing = [c \in Pricers |-> NoPricing]

(***************************************************************************)
(* People.                                                                 *)
(***************************************************************************)

InFlight(n) == \E c \in Pricers : pricing[c].step = "PRICING" /\ n \in pricing[c].left

\* One cell of the grid: a price, or none.
TypePrice(n, price) ==
    /\ bulkUpdate(n, price, Null)
    /\ typed' = [typed EXCEPT ![n] = price]
    /\ crossed' = IF InFlight(n) \/ (days[n].rule # Null /\ days[n].price = price)
                  THEN crossed \cup {n} ELSE crossed \ {n}
    /\ UNCHANGED <<overrides, rules, sold, pricing>>

setPrice(n) == \E price \in HandPrices \cup {Null} : TypePrice(n, price)

\* priceDeltaBp, applied to the price the night resolves to.
changePrice(n) ==
    \E bp \in Deltas : /\ ByPercent(nightlyPrice(n), bp) <= MaxPrice
                       /\ TypePrice(n, AtLeast(0, ByPercent(nightlyPrice(n), bp)))

createOverride(o) ==
    /\ o \notin overrides
    /\ overrides' = overrides \cup {o}
    /\ UNCHANGED <<days, rules, sold, typed, crossed, pricing>>

removeOverride(o) ==
    /\ o \in overrides
    /\ overrides' = overrides \ {o}
    /\ UNCHANGED <<days, rules, sold, typed, crossed, pricing>>

\* validateRule: the dates of the merged rule agree.
ValidRule(t) == Null \notin {t.from, t.to} => t.from <= t.to

WriteRule(x, row) ==
    /\ ValidRule(row.terms)
    /\ rules' = [rules EXCEPT ![x] = row]
    /\ UNCHANGED <<days, overrides, sold, typed, crossed, pricing>>

createPricingRule(x) ==
    /\ rules[x].status = "NONE"
    /\ \E t \in Terms : WriteRule(x, [status |-> "LIVE", enabled |-> TRUE, terms |-> t])

updatePricingRule(x) ==
    /\ rules[x].status = "LIVE"
    /\ \E t \in Terms, on \in BOOLEAN : WriteRule(x, [rules[x] EXCEPT !.enabled = on, !.terms = t])

removePricingRule(x) ==
    /\ rules[x].status = "LIVE"
    /\ WriteRule(x, [rules[x] EXCEPT !.status = "DELETED"])

Sell(n) ==
    /\ \E stays \in 0 .. Rooms : stays # sold[n] /\ sold' = [sold EXCEPT ![n] = stays]
    /\ UNCHANGED <<days, overrides, rules, typed, crossed, pricing>>

(***************************************************************************)
(* A run of the engine.                                                    *)
(***************************************************************************)

Enabled == {x \in Rules : rules[x].status = "LIVE" /\ rules[x].enabled}

\* The worker visits a property that has an enabled rule; a person may ask
\* for a run at any time.
StartRun(c) ==
    /\ pricing[c].step = "IDLE"
    /\ c = HourlyRun => Enabled # {}
    /\ pricing' = [pricing EXCEPT ![c] = [NoPricing EXCEPT
                      !.step = "GRID", !.rules = [x \in Enabled |-> rules[x].terms]]]
    /\ UNCHANGED <<days, overrides, rules, sold, typed, crossed>>

\* The grid takes any override that covers the night: it asks for no order.
GridCell(n, o) ==
    [day |-> days[n], price |-> IF days[n].price # Null THEN days[n].price ELSE RateOf(o),
     occupancy |-> OccupancyPct(sold[n])]

ReadGrid(c) ==
    /\ pricing[c].step = "GRID"
    /\ \E pick \in [Nights -> overrides \cup {Null}] :
          /\ \A n \in Nights : pick[n] \in (IF Covering(n) = {} THEN {Null} ELSE Covering(n))
          /\ pricing' = [pricing EXCEPT ![c].step = "PRICING", ![c].left = Nights,
                                        ![c].cells = [n \in Nights |-> GridCell(n, pick[n])]]
    /\ UNCHANGED <<days, overrides, rules, sold, typed, crossed>>

handTyped(cell) == cell.day.price # Null /\ cell.day.rule = Null

\* The rules that match, of the highest priority; the sort leaves ties open.
Best(c, n) ==
    LET known == pricing[c].rules
        hits == {x \in DOMAIN known : matches(known[x], n, pricing[c].cells[n].occupancy)}
    IN {x \in hits : \A y \in hits : known[y].priority <= known[x].priority}

Target(c, n, x) ==
    AtLeast(FloorPrice, apply(IF pricing[c].cells[n].day.price # Null THEN baseWithoutRule(n)
                         ELSE pricing[c].cells[n].price, pricing[c].rules[x]))

Current(cell) == IF cell.day.rule # Null THEN cell.day.price ELSE Null

ApplyRule(c, n, x) ==
    IF Target(c, n, x) # Current(pricing[c].cells[n]) THEN bulkUpdate(n, Target(c, n, x), x)
    ELSE UNCHANGED days

\* Mutation for UnmatchedReverts: what a rule wrote is left there.
KeptPrice(c, n) == UNCHANGED days

Revert(c, n) ==
    IF pricing[c].cells[n].day.rule # Null THEN bulkUpdate(n, Null, Null) ELSE UNCHANGED days

PriceNight(c, n) ==
    /\ pricing[c].step = "PRICING"
    /\ n \in pricing[c].left
    /\ \A k \in pricing[c].left : n <= k
    /\ \/ handTyped(pricing[c].cells[n]) /\ UNCHANGED days
       \/ /\ ~handTyped(pricing[c].cells[n])
          /\ \E x \in Best(c, n) : ApplyRule(c, n, x)
       \/ /\ ~handTyped(pricing[c].cells[n])
          /\ Best(c, n) = {}
          /\ Revert(c, n)
    /\ pricing' = [pricing EXCEPT ![c] = IF pricing[c].left = {n} THEN NoPricing
                                         ELSE [pricing[c] EXCEPT !.left = @ \ {n}]]
    /\ UNCHANGED <<overrides, rules, sold, typed, crossed>>

RunStep(c) == StartRun(c) \/ ReadGrid(c) \/ \E n \in Nights : PriceNight(c, n)

EngineNext ==
    \/ \E n \in Nights : setPrice(n) \/ changePrice(n) \/ Sell(n)
    \/ \E o \in Overrides : createOverride(o) \/ removeOverride(o)
    \/ \E x \in Rules : createPricingRule(x) \/ updatePricingRule(x) \/ removePricingRule(x)
    \/ \E c \in Pricers : RunStep(c)

EngineSpec == EngineInit /\ [][EngineNext]_engineVars

\* The worker runs every hour and works a run off.
EngineFairness == WF_engineVars(RunStep(HourlyRun))

(***************************************************************************)
(* Properties.                                                             *)
(***************************************************************************)

EngineTypeOK ==
    /\ \A n \in Nights : /\ days[n].rule \in Rules \cup {Null}
                         /\ days[n].price = Null => days[n].rule = Null
                         /\ days[n].price # Null => days[n].price \in Nat
    /\ rules \in [Rules -> RuleRows]
    /\ overrides \subseteq Overrides

\* A rule never compounds on its own output: whatever was edited between two
\* runs, and however many runs overlap, a night a rule priced costs what one
\* application of some rule to an override or to the base rate gives (run,
\* baseWithoutRule).
NeverCompounds ==
    \A n \in Nights : days[n].rule # Null =>
        days[n].price \in {AtLeast(FloorPrice, apply(b, t)) :
                              b \in {Base} \cup {OverrideOf[o].rate : o \in Overrides}, t \in Terms}

\* What the engine's comment promises of a price a person typed: no rule
\* overwrites it (run, "the person wins").
HandPriceStands ==
    \A n \in Nights : typed[n] # Null => days[n].price = typed[n]

\* The same, unless the price was typed between a run's reading of the night
\* and its writing, or was the very price a rule had put there.
PersonWins ==
    \A n \in Nights \ crossed : typed[n] # Null => days[n].price = typed[n]

\* RevenueEngineService.run: a rule never compounds on its own output, and what
\* a person typed stands unless a run was under way.
PricesStand == NeverCompounds /\ PersonWins

\* A night whose price is a rule's, when no rule that is on matches it.
Orphaned(n) ==
    /\ days[n].rule # Null
    /\ \A x \in Enabled : ~matches(rules[x].terms, n, OccupancyPct(sold[n]))

\* A night no rule matches any longer goes back to its own price, as long as
\* the property keeps some rule on (run, auto-revert).
UnmatchedReverts == \A n \in Nights : Orphaned(n) ~> (~Orphaned(n) \/ Enabled = {})

\* What the worker's comment says of any rule that is switched off
\* (RevenueRuleWorker): within the hour its nights are reverted.
SwitchedOffReverts == \A n \in Nights : Orphaned(n) ~> ~Orphaned(n)
=============================================================================
