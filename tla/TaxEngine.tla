------------------------------- MODULE TaxEngine -------------------------------
(***************************************************************************)
(* propose_tax: what tax one sale would carry, from the company's own      *)
(* codes, classes and ordered rules, and nothing else.  It answers with a  *)
(* code, or blocks; it never guesses.                                      *)
(*                                                                         *)
(* `codes` maps a code to its row, `classes` a class key to the code it    *)
(* points at, `rulings` a context to the rule that answers in it.  The       *)
(* sentences (reasons, legal notes, labels) are left out; of the warnings, *)
(* only what a rule declares is kept.                                      *)
(***************************************************************************)
EXTENDS Naturals, FiniteSets

CONSTANTS EUMembers, None

Regions == {"same_country", "eu_other", "non_eu"}
BuyerTypes == {"business", "private"}
SupplyKinds == {"goods", "services"}

Categories == {"S", "Z", "E", "AE", "K", "G", "O", "L", "M"}
ZeroRateCategories == {"Z", "E", "AE", "K", "G", "O"}

\* validate_rate_for_category: an exempt code with a rate is a contradiction.
RateFits(category, rate) == category \in ZeroRateCategories => rate = 0

\* region_of: where the buyer is, relative to the seller.
Region(seller, buyer) ==
    IF seller = buyer THEN "same_country"
    ELSE IF {seller, buyer} \subseteq EUMembers THEN "eu_other" ELSE "non_eu"

\* What a rule's conditions can ask about.
Context(in) ==
    [seller_is_kleinunternehmer |-> in.kleinunternehmer,
     buyer_region |-> Region(in.seller_country, in.buyer_country),
     buyer_type |-> in.buyer_type,
     buyer_vat_verified |-> in.buyer_vat_verified,
     supply_kind |-> in.supply_kind]

\* Everything a rule's conditions can tell apart.
Contexts ==
    [seller_is_kleinunternehmer: BOOLEAN, buyer_region: Regions, buyer_type: BuyerTypes,
     buyer_vat_verified: BOOLEAN, supply_kind: SupplyKinds]

\* Mutant: what a rule says of verification is not looked at.
Matches_AnyVat(rule, context) ==
    \A key \in DOMAIN rule.conditions \ {"buyer_vat_verified"} :
        context[key] = rule.conditions[key]

\* Every condition of the rule holds; none is a match for anything.
Matches(rule, context) ==
    \A key \in DOMAIN rule.conditions : context[key] = rule.conditions[key]

\* The first active rule, by position, whose conditions all hold, or None.
FirstMatching(rules, context) ==
    LET matching == {rule \in rules : rule.is_active /\ Matches(rule, context)}
    IN IF matching = {} THEN None
       ELSE CHOOSE rule \in matching : \A other \in matching : rule.position <= other.position

\* Which rule of a set answers, worked out once for every context.
RulingsOf(rules) == [context \in Contexts |-> FirstMatching(rules, context)]

\* {class: ...} or {code: ...}: the code it names, or None.
TargetCode(target, item_class, codes, classes) ==
    LET key == IF target.name = "@item" THEN item_class ELSE target.name
        name == IF target.kind = "code" THEN target.name
                ELSE IF key \in DOMAIN classes THEN classes[key] ELSE None
    IN IF name \in DOMAIN codes THEN name ELSE None

\* An intermediate answer; a code of None is its failure.
Outcome(treatment, code, rule, warning) ==
    [treatment |-> treatment, code |-> code, rule |-> rule, warning |-> warning]

\* What the rules answer: the outcome of the one that matches.
FromRules(in, codes, classes, rulings) ==
    LET rule == rulings[Context(in)]
    IN IF rule = None THEN Outcome(None, None, None, None)
       ELSE Outcome(rule.treatment, TargetCode(rule.target, in.item_class, codes, classes),
                    rule.position, rule.warning)

\* Which treatment a fixed code implies, where its category has one meaning.
CategoryTreatment(category) ==
    CASE category = "S" -> "domestic"
      [] category = "AE" -> "eu_reverse_charge"
      [] category = "K" -> "intra_community_supply"
      [] category = "G" -> "export"
      [] category = "O" -> "not_taxable_in_country"
      [] OTHER -> "custom"

\* "Use the domestic rate for foreign business buyers" says nothing of others.
Applies(override, in) ==
    /\ override # None
    /\ override.kind = "domestic_for_foreign_business" =>
          /\ Region(in.seller_country, in.buyer_country) # "same_country"
          /\ in.buyer_type = "business"

FromOverride(override, in, codes, classes) ==
    IF override.kind = "code"
    THEN IF override.code \in DOMAIN codes
         THEN Outcome(CategoryTreatment(codes[override.code].category), override.code,
                      "override", None)
         ELSE Outcome("custom", None, "override", None)
    ELSE Outcome("domestic",
                 TargetCode([kind |-> "class", name |-> "@item"], in.item_class, codes, classes),
                 "override", None)

Blocked == [blocking |-> TRUE, treatment |-> None, code |-> None, rule |-> None,
            warning |-> None, would |-> None]

\* Nothing resolved or an inactive code blocks; an override that changed the
\* answer carries what the rules alone would have said.
Combined(chosen, by_rules, codes) ==
    IF chosen.code = None \/ ~codes[chosen.code].is_active
    THEN [Blocked EXCEPT !.warning = chosen.warning]
    ELSE [blocking |-> FALSE, treatment |-> chosen.treatment, code |-> chosen.code,
          rule |-> chosen.rule, warning |-> chosen.warning,
          would |-> IF <<by_rules.code, by_rules.treatment>> # <<chosen.code, chosen.treatment>>
                    THEN by_rules ELSE None]

\* Item override, then party override, then the rules.
Propose(in, codes, classes, rulings) ==
    LET by_rules == FromRules(in, codes, classes, rulings)
        chosen == IF Applies(in.item_override, in)
                  THEN FromOverride(in.item_override, in, codes, classes)
                  ELSE IF Applies(in.party_override, in)
                  THEN FromOverride(in.party_override, in, codes, classes)
                  ELSE by_rules
    IN IF None \in {in.seller_country, in.buyer_country} THEN Blocked
       ELSE Combined(chosen, by_rules, codes)
=============================================================================
