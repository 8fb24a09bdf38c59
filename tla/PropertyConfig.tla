---------------------------- MODULE PropertyConfig ----------------------------
(***************************************************************************)
(* What a hotel configures about itself (PropertyConfigService): the       *)
(* settings with the address of its booking page, its policies with one    *)
(* default per kind, the add-ons it sells and its coupons.                 *)
(***************************************************************************)
EXTENDS Integers, FiniteSets

CONSTANTS
    Hotels,
    Slugs,           \* addresses of booking pages
    Policies,        \* rows that may be inserted
    Kinds,           \* kinds of policy
    AddOns,          \* rows of add-on services
    Coupons,         \* rows of coupons, each of a code of its own
    UseLimits,       \* values of maxUses
    Editors,         \* staff that edit at once
    Null

VARIABLES
    settings,        \* hotel -> [slug, enabled], or Null: not read yet
    policies,        \* row -> [status, kind, default, active]
    addons,          \* row -> [status, active, online]
    coupons,         \* row -> [status, active, uses, maxUses]
    drafts,          \* editor -> what it has read and is about to write
    raced            \* history: kinds two defaults were being made in at once

configVars == <<settings, policies, addons, coupons, drafts, raced>>

RowStatuses == {"NONE", "LIVE", "DELETED"}
NoDraft == [step |-> "IDLE"]

ConfigInit ==
    /\ settings = [h \in Hotels |-> Null]
    /\ policies \in [Policies -> {[status |-> "NONE", kind |-> k, default |-> FALSE,
                                   active |-> TRUE] : k \in Kinds}]
    /\ addons = [a \in AddOns |-> [status |-> "NONE", active |-> TRUE, online |-> TRUE]]
    /\ coupons = [c \in Coupons |->
                     [status |-> "NONE", active |-> TRUE, uses |-> 0, maxUses |-> Null]]
    /\ drafts = [e \in Editors |-> NoDraft]
    /\ raced = {}

(***************************************************************************)
(* Settings: a row made on first read; an address no other hotel has.      *)
(***************************************************************************)
SlugFree(h, slug) ==
    \A o \in Hotels \ {h} : settings[o] # Null => settings[o].slug # slug

\* The row is made, and the address asked for is free when it is looked up ...
ReadSettings(e, h) ==
    /\ drafts[e] = NoDraft
    /\ \E slug \in Slugs \cup {Null}, on \in BOOLEAN :
          /\ slug # Null => SlugFree(h, slug)
          /\ settings' = [settings EXCEPT ![h] =
                             IF @ = Null THEN [slug |-> Null, enabled |-> FALSE] ELSE @]
          /\ drafts' = [drafts EXCEPT ![e] =
                             [step |-> "SETTINGS", hotel |-> h, slug |-> slug, on |-> on]]
    /\ UNCHANGED <<policies, addons, coupons, raced>>

SlugTaken(h, slug) == slug # Null /\ ~SlugFree(h, slug)

\* ... and by the unique index when it is written.
updateSettings(e) ==
    LET h == drafts[e].hotel
        slug == IF drafts[e].slug = Null THEN settings[h].slug ELSE drafts[e].slug
    IN  /\ drafts[e].step = "SETTINGS"
        /\ settings' = IF SlugTaken(h, slug) THEN settings
                       ELSE [settings EXCEPT ![h] = [slug |-> slug, enabled |-> drafts[e].on]]
        /\ drafts' = [drafts EXCEPT ![e] = NoDraft]
        /\ UNCHANGED <<policies, addons, coupons, raced>>

\* The hotel whose booking page an address opens.
settingsBySlug(slug) ==
    {h \in Hotels : settings[h] # Null /\ settings[h].slug = slug /\ settings[h].enabled}

(***************************************************************************)
(* Policies.  Making one the default demotes those of its kind in the same *)
(* transaction: those the demoting statement sees, which a row another     *)
(* transaction has not committed yet is not.                               *)
(***************************************************************************)
LivePolicies == {p \in Policies : policies[p].status = "LIVE"}

\* The rows the statement demotes: of the kind, deleted ones too.
Demoted(kind) ==
    {p \in Policies : policies[p].status # "NONE" /\ policies[p].kind = kind}

WritingDefault(kind) ==
    \E e \in Editors : drafts[e].step = "POLICY" /\ drafts[e].default = "yes" /\ drafts[e].kind = kind

\* A policy is created, or one found live is updated.
BeginPolicy(e, p) ==
    /\ drafts[e] = NoDraft
    /\ policies[p].status \in {"NONE", "LIVE"}
    /\ \A o \in Editors \ {e} : drafts[o].step = "POLICY" => drafts[o].policy # p
    /\ \E default \in {"yes", "no", "unsaid"}, active \in BOOLEAN :
          LET kind == policies[p].kind
          IN  /\ drafts' = [drafts EXCEPT ![e] =
                     [step |-> "POLICY", policy |-> p, kind |-> kind, default |-> default,
                      active |-> active, demoted |-> IF default = "yes" THEN Demoted(kind) ELSE {}]]
              /\ raced' = IF default = "yes" /\ WritingDefault(kind) THEN raced \cup {kind} ELSE raced
    /\ UNCHANGED <<settings, policies, addons, coupons>>

\* What the transaction writes, and commits.  An update that does not speak of
\* the default leaves it as it is.
CommitPolicy(e) ==
    LET w == drafts[e]
    IN  /\ w.step = "POLICY"
        /\ policies' = [p \in Policies |->
               IF p = w.policy
               THEN [policies[p] EXCEPT !.status = IF @ = "NONE" THEN "LIVE" ELSE @,
                                        !.default = (w.default = "yes") \/ (w.default = "unsaid" /\ @),
                                        !.active = w.active]
               ELSE IF p \in w.demoted THEN [policies[p] EXCEPT !.default = FALSE]
               ELSE policies[p]]
        /\ drafts' = [drafts EXCEPT ![e] = NoDraft]
        /\ UNCHANGED <<settings, addons, coupons, raced>>

deletePolicy(p) ==
    /\ policies[p].status = "LIVE"
    /\ policies' = [policies EXCEPT ![p].status = "DELETED"]
    /\ UNCHANGED <<settings, addons, coupons, drafts, raced>>

\* The default active policies of a kind: the folio takes the first.
defaultPolicy(kind) ==
    {p \in LivePolicies : policies[p].kind = kind /\ policies[p].active /\ policies[p].default}

(***************************************************************************)
(* Add-ons and coupons: rows created, edited and soft-deleted.             *)
(***************************************************************************)
EditAddon(a) ==
    /\ addons[a].status # "DELETED"
    /\ \E active, online \in BOOLEAN :
          addons' = [addons EXCEPT ![a] = [status |-> "LIVE", active |-> active, online |-> online]]
    /\ UNCHANGED <<settings, policies, coupons, drafts, raced>>

deleteAddon(a) ==
    /\ addons[a].status = "LIVE"
    /\ addons' = [addons EXCEPT ![a].status = "DELETED"]
    /\ UNCHANGED <<settings, policies, coupons, drafts, raced>>

\* What a guest may pick.
SoldOnline == {a \in AddOns : addons[a] = [status |-> "LIVE", active |-> TRUE, online |-> TRUE]}

EditCoupon(c) ==
    /\ coupons[c].status # "DELETED"
    /\ \E active \in BOOLEAN, limit \in UseLimits \cup {Null} :
          coupons' = [coupons EXCEPT ![c] = [@ EXCEPT !.status = "LIVE", !.active = active,
                                                      !.maxUses = limit]]
    /\ UNCHANGED <<settings, policies, addons, drafts, raced>>

deleteCoupon(c) ==
    /\ coupons[c].status = "LIVE"
    /\ coupons' = [coupons EXCEPT ![c].status = "DELETED"]
    /\ UNCHANGED <<settings, policies, addons, drafts, raced>>

UsesLeft(c) == coupons[c].maxUses # Null => coupons[c].uses < coupons[c].maxUses

redeemableCoupon(c) == coupons[c].status = "LIVE" /\ coupons[c].active /\ UsesLeft(c)

\* Counting a use: an UPDATE that counts none beyond the limit.
Consumed(c) ==
    [coupons EXCEPT ![c].uses = IF UsesLeft(c) THEN @ + 1 ELSE @]

ConfigNext ==
    \/ \E e \in Editors : \/ \E h \in Hotels : ReadSettings(e, h)
                          \/ updateSettings(e)
                          \/ \E p \in Policies : BeginPolicy(e, p)
                          \/ CommitPolicy(e)
    \/ \E p \in Policies : deletePolicy(p)
    \/ \E a \in AddOns : EditAddon(a) \/ deleteAddon(a)
    \/ \E c \in Coupons : EditCoupon(c) \/ deleteCoupon(c)

ConfigSpec == ConfigInit /\ [][ConfigNext]_configVars

(***************************************************************************)
(* Properties.                                                             *)
(***************************************************************************)

\* Every row has the columns of its table.
ConfigTypeOK ==
    /\ settings \in [Hotels -> [slug : Slugs \cup {Null}, enabled : BOOLEAN] \cup {Null}]
    /\ policies \in [Policies -> [status : RowStatuses, kind : Kinds, default : BOOLEAN,
                                  active : BOOLEAN]]
    /\ addons \in [AddOns -> [status : RowStatuses, active : BOOLEAN, online : BOOLEAN]]
    /\ \A c \in Coupons : /\ coupons[c].status \in RowStatuses
                          /\ coupons[c].maxUses \in UseLimits \cup {Null}
                          /\ coupons[c].uses \in Nat
    /\ raced \subseteq Kinds

\* "two hotels cannot share one" (updateSettings): an address opens one page, even
\* when two hotels look it up free at once.
SlugIsOneHotels == \A slug \in Slugs : Cardinality(settingsBySlug(slug)) <= 1

\* A kind has one default policy at most, unless two were made default at once.
OneDefaultUnlessRaced ==
    \A k \in Kinds \ raced :
        Cardinality({p \in LivePolicies : policies[p].kind = k /\ policies[p].default}) <= 1

\* "One default per kind: a new default demotes the old one in the same transaction,
\* so there is never a moment with two" (createPolicy): neither of two transactions
\* sees the row of the other.
OneDefaultPerKind == \A k \in Kinds : Cardinality(defaultPolicy(k)) <= 1
=============================================================================
