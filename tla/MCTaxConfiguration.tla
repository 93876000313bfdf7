-------------------------- MODULE MCTaxConfiguration ---------------------------
(* The shipped packs, cut down to what tells countries apart: the generic  *)
(* pack's unset standard rate and its five treatment codes, two Austrian   *)
(* rates of which one has no German counterpart, one German rate; and one  *)
(* pack nobody could load.                                                 *)
EXTENDS TaxConfiguration, TLC

CONSTANTS r1, r2

Code(category, rate, active) == [category |-> category, rate |-> rate, is_active |-> active]
Class(code, active) == [code |-> code, is_active |-> active]

Rule(position, conditions, treatment, kind, name, warning) ==
    [position |-> position, conditions |-> conditions, treatment |-> treatment,
     target |-> [kind |-> kind, name |-> name], warning |-> warning, is_active |-> TRUE]

ShippedRules ==
    {Rule(10, [seller_is_kleinunternehmer |-> TRUE], "small_business_exemption", "code", "EU-KU", None),
     Rule(20, [buyer_region |-> "same_country"], "domestic", "class", "@item", None),
     Rule(30, [buyer_region |-> "eu_other", buyer_type |-> "business",
               buyer_vat_verified |-> TRUE, supply_kind |-> "services"],
          "eu_reverse_charge", "code", "EU-AE", None),
     Rule(40, [buyer_region |-> "eu_other", buyer_type |-> "business",
               buyer_vat_verified |-> TRUE, supply_kind |-> "goods"],
          "intra_community_supply", "code", "EU-K", None),
     Rule(50, [buyer_region |-> "eu_other", buyer_type |-> "business",
               buyer_vat_verified |-> FALSE],
          "domestic", "class", "@item", "buyer_vat_id_not_verified"),
     Rule(60, [buyer_type |-> "private"], "domestic", "class", "@item", None),
     Rule(70, [buyer_region |-> "non_eu", buyer_type |-> "business", supply_kind |-> "services"],
          "not_taxable_in_country", "code", "EU-O", None),
     Rule(80, [buyer_region |-> "non_eu", buyer_type |-> "business", supply_kind |-> "goods"],
          "export", "code", "EU-G", None)}

Generic ==
    [extends |-> None, countries |-> {}, drop_codes |-> {}, rules |-> ShippedRules,
     codes |-> "EU-STD" :> Code("S", 0, FALSE) @@ "EU-AE" :> Code("AE", 0, TRUE)
                  @@ "EU-K" :> Code("K", 0, TRUE) @@ "EU-G" :> Code("G", 0, TRUE)
                  @@ "EU-O" :> Code("O", 0, TRUE) @@ "EU-KU" :> Code("E", 0, TRUE),
     classes |-> "standard" :> Class("EU-STD", TRUE)]

Austria ==
    [extends |-> "eu_generic", countries |-> {"AT"}, drop_codes |-> {"EU-STD"}, rules |-> {},
     codes |-> "AT-20" :> Code("S", 20, TRUE) @@ "AT-13" :> Code("S", 13, TRUE),
     classes |-> "standard" :> Class("AT-20", TRUE) @@ "reduced_2" :> Class("AT-13", TRUE)]

Germany ==
    [extends |-> "eu_generic", countries |-> {"DE"}, drop_codes |-> {"EU-STD"}, rules |-> {},
     codes |-> "DE-19" :> Code("S", 19, TRUE),
     classes |-> "standard" :> Class("DE-19", TRUE)]

\* It drops the code its own class points at.
Broken == [Germany EXCEPT !.countries = {"US"}, !.classes = "standard" :> Class("EU-STD", TRUE)]

ShippedPacks == "eu_generic" :> Generic @@ "at" :> Austria @@ "de" :> Germany @@ "us" :> Broken

\* What the theorems ask of packs and names holds here.
ASSUME OwnNamesApart /\ UnsetShipsOff /\ ClassesAgree /\ RulesAgree /\ RulesHaveReasons

Custom == <<"custom_1">>

Symmetry == Permutations(Requests)
=============================================================================
