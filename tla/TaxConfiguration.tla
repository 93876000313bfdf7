--------------------------- MODULE TaxConfiguration ----------------------------
(***************************************************************************)
(* One company's tax configuration: its country, codes, classes and rules, *)
(* seeded from a region pack, edited by hand, extended with rates and      *)
(* no-tax cases of its own, and moved to another country by a plan that    *)
(* must not destroy any of that.                                           *)
(*                                                                         *)
(* A request reads the tables, works out what they should be, and commits; *)
(* nothing is locked, so another may commit in between.  The commit writes *)
(* the columns that changed over the rows as they then are, and fails on a *)
(* code or class key somebody else inserted.  A refused request changes    *)
(* nothing and is not a step.                                              *)
(***************************************************************************)
EXTENDS TaxPacks

CONSTANTS
    Countries,    \* countries a company may be in
    OwnCodes,     \* codes a user, or the default naming, may give a row
    CustomKeys,   \* <<"custom_1", ...>>: class keys in the order they are given
    TypedRates,   \* rates a user may type
    Requests,     \* requests of people who may edit the settings (reusable)
    MaxEdits,     \* bound: requests that edit, create or move
    MaxOverlaps   \* bound: requests that arrive while another is under way

ASSUME ConfigurationAssumption ==
    /\ None \notin Countries \cup OwnCodes \cup PackNames
    /\ GenericPack \in SoundPacks
    /\ TypedRates \subseteq Nat /\ DOMAIN CustomKeys \subseteq Nat
    /\ MaxEdits \in Nat /\ MaxOverlaps \in Nat

VARIABLES
    tables,    \* the committed country, codes, classes and rules
    work,      \* each request: what it does, what it read, what it will write
    edits,     \* how many requests have begun
    overlaps   \* how many of them while another was under way

vars == <<tables, work, edits, overlaps>>

PackCodes == UNION {DOMAIN Pack(name).codes : name \in SoundPacks}
PackKeys == UNION {DOMAIN Pack(name).classes : name \in SoundPacks}
Codes == PackCodes \cup OwnCodes
Keys == PackKeys \cup {CustomKeys[n] : n \in DOMAIN CustomKeys}
Rates == {0} \cup TypedRates \cup UNION {{RawPacks[name].codes[code].rate : code \in DOMAIN RawPacks[name].codes}
                                             : name \in PackNames}

\* `edited`: the name, the notes or the reviewed flag are not the pack's.
CodeRow == [category: Categories, rate: Rates, is_active: BOOLEAN, edited: BOOLEAN,
            origin: PackNames \cup {None}]
ClassRow == [code: Codes, is_active: BOOLEAN, origin: PackNames \cup {None}]

ASSUME TaxNullAssumption == None \notin Codes /\ None \notin CodeRow /\ None \notin ClassRow

\* `rules` names the pack whose rules these are: nothing edits one.
Tables == [country: Countries \cup {None}, codes: [Codes -> CodeRow \cup {None}],
           classes: [Keys -> ClassRow \cup {None}], rules: PackNames \cup {None}]

Empty == [country |-> None, codes |-> [code \in Codes |-> None],
          classes |-> [key \in Keys |-> None], rules |-> None]

Kinds == {"patch_code", "patch_class", "create", "country", "country_change"}

Present(rows) == {key \in DOMAIN rows : rows[key] # None}

RulesOf(t) == IF t.rules = None THEN {} ELSE Pack(t.rules).rules

-----------------------------------------------------------------------------
(* Seeding (tax_service).                                                  *)

SeededCode(entry) == [category |-> entry.category, rate |-> entry.rate,
                      is_active |-> entry.is_active, edited |-> FALSE, origin |-> entry.origin]

SeededClass(entry) == [code |-> entry.code, is_active |-> entry.is_active, origin |-> entry.origin]

\* The pack every country gets, and which of a pack's rules answers where.
PackOf == [country \in Countries |-> PackFor(country)]
Rulings == [name \in SoundPacks |-> RulingsOf(Pack(name).rules)]

\* Mutant: what the pack has replaces what the company has.
WithCode_Refreshed(t, pack, code) ==
    IF code \in DOMAIN pack.codes THEN SeededCode(pack.codes[code]) ELSE t.codes[code]

\* A code the company has not got is the pack's; its own stay as they are.
WithCode(t, pack, code) ==
    IF t.codes[code] = None /\ code \in DOMAIN pack.codes
    THEN SeededCode(pack.codes[code]) ELSE t.codes[code]

\* The same for a class.
WithClass(t, pack, key) ==
    IF t.classes[key] = None /\ key \in DOMAIN pack.classes
    THEN SeededClass(pack.classes[key]) ELSE t.classes[key]

\* seed_tax_configuration, for a company now in `country`: missing codes,
\* missing classes, and the rules only where there are none; nothing without
\* a country.
Seeded(t, country) ==
    IF country = None THEN t
    ELSE [country |-> country,
          codes |-> [code \in Codes |-> WithCode(t, Pack(PackOf[country]), code)],
          classes |-> [key \in Keys |-> WithClass(t, Pack(PackOf[country]), key)],
          rules |-> IF t.rules = None THEN PackOf[country] ELSE t.rules]

-----------------------------------------------------------------------------
(* Who still points at a code or a class (tax_references).                 *)

\* Mutant: nobody does.
RefersToCode_Nobody(t, code) == FALSE

\* An active rule that names the code.  `@item` refers to no class.
RefersToCode(t, code) ==
    \E rule \in RulesOf(t) : rule.is_active /\ rule.target = [kind |-> "code", name |-> code]

RefersToClass(t, key) ==
    \/ \E rule \in RulesOf(t) : rule.is_active /\ rule.target = [kind |-> "class", name |-> key]
    \/ RefersToCode(t, t.classes[key].code)

-----------------------------------------------------------------------------
(* Changing the country (tax_country).                                     *)

\* An S code at 0 %: a rate nobody has set.
IsUnsetRate(row) == row.category = "S" /\ row.rate = 0

\* Mutant: a class switches on whatever code it is given.
ActivationFor_Class(row, class_active) == class_active

\* A class carries its flag onto its new code, but never switches on a rate
\* nobody set.
ActivationFor(row, class_active) == ~IsUnsetRate(row) /\ class_active

\* _code_is_pristine: the row still says what its pack declared.
Pristine(row, code) ==
    /\ ~row.edited
    /\ code \in DOMAIN Pack(row.origin).codes
    /\ row.rate = Pack(row.origin).codes[code].rate

\* The flag a class of the company or the pack will have: its own, if it has
\* one.
FlagAfter(t, pack, key) ==
    IF t.classes[key] = None THEN pack.classes[key].is_active ELSE t.classes[key].is_active

\* _class_wanting: will an active class of the pack point at the code?
ClassWanting(t, pack, code) ==
    \E key \in DOMAIN pack.classes : pack.classes[key].code = code /\ FlagAfter(t, pack, key)

\* The code a class will point at.
Target(t, pack, key) ==
    IF key \in DOMAIN pack.classes THEN pack.classes[key].code ELSE t.classes[key].code

\* The classes a plan handles, those it adds and those a pack once brought,
\* that will point at the code; and those of them that do not point at it yet.
PointingAt(t, pack, code) ==
    {key \in DOMAIN pack.classes \cup Present(t.classes) :
        /\ t.classes[key] = None \/ t.classes[key].origin # None
        /\ Target(t, pack, key) = code}

MovingOnto(t, pack, code) ==
    {key \in PointingAt(t, pack, code) : t.classes[key] = None \/ t.classes[key].code # code}

\* A pack's code goes when the new pack lacks it, nobody touched it and
\* nothing points at it.
Deactivated(t, pack, code) ==
    /\ t.codes[code] # None /\ code \notin DOMAIN pack.codes
    /\ t.codes[code].origin # None
    /\ Pristine(t.codes[code], code)
    /\ PointingAt(t, pack, code) = {}
    /\ ~RefersToCode(t, code)

\* It comes back when the new pack has it and an active class wants it.
Reactivated(t, pack, code) ==
    /\ t.codes[code] # None /\ code \in DOMAIN pack.codes
    /\ t.codes[code].origin # None
    /\ ~IsUnsetRate(t.codes[code])
    /\ ClassWanting(t, pack, code)

ActiveAfter(t, pack, code) ==
    IF Deactivated(t, pack, code) THEN FALSE
    ELSE IF Reactivated(t, pack, code) THEN TRUE
    ELSE IF MovingOnto(t, pack, code) = {} THEN WithCode(t, pack, code).is_active
    ELSE \E key \in MovingOnto(t, pack, code) :
            ActivationFor(WithCode(t, pack, code), FlagAfter(t, pack, key))

CodeAfter(t, pack, code) ==
    IF WithCode(t, pack, code) = None THEN None
    ELSE [WithCode(t, pack, code) EXCEPT !.is_active = ActiveAfter(t, pack, code)]

ClassAfter(t, pack, key) ==
    IF t.classes[key] = None \/ t.classes[key].origin = None THEN WithClass(t, pack, key)
    ELSE [t.classes[key] EXCEPT !.code = Target(t, pack, key)]

\* plan_country_change and apply_country_change, onto the country's pack.
PackApplied(t, country) ==
    [country |-> country,
     codes |-> [code \in Codes |-> CodeAfter(t, Pack(PackOf[country]), code)],
     classes |-> [key \in Keys |-> ClassAfter(t, Pack(PackOf[country]), key)],
     rules |-> IF RulesOf(t) # Pack(PackOf[country]).rules THEN PackOf[country] ELSE t.rules]

\* Only the country; or the first configuration; or the new country's pack.
CountryChanged(t, country, mode) ==
    IF mode = "country_only" THEN [t EXCEPT !.country = country]
    ELSE IF Present(t.codes) = {} THEN Seeded(t, country)
    ELSE PackApplied(t, country)

-----------------------------------------------------------------------------
(* A request reads the tables and works out what they should be.           *)

Calm == overlaps = 0

Idle == [pc |-> "idle", kind |-> "create", code |-> None, seen |-> Empty, new |-> Empty]

\* A request that may still arrive.
Free(r) == work[r].pc = "idle" /\ edits < MaxEdits

Open(r, kind, code, new) ==
    /\ Free(r) /\ edits' = edits + 1
    /\ work' = [work EXCEPT ![r] = [pc |-> "open", kind |-> kind, code |-> code,
                                    seen |-> tables, new |-> new]]
    /\ overlaps' = IF \A q \in Requests : work[q].pc = "idle" THEN overlaps ELSE overlaps + 1
    /\ overlaps' <= MaxOverlaps
    /\ UNCHANGED tables

\* PATCH codes/{id}: the rate, or the name, notes and reviewed flag.
UpdateTaxCode(r) ==
    \E code \in Present(tables.codes) :
        LET row == tables.codes[code]
        IN \/ \E rate \in TypedRates \ {row.rate} :
                /\ RateFits(row.category, rate)
                /\ Open(r, "patch_code", code, [tables EXCEPT !.codes[code].rate = rate])
           \/ /\ ~row.edited
              /\ Open(r, "patch_code", code, [tables EXCEPT !.codes[code].edited = TRUE])

\* PATCH codes/{id}, is_active: not for the code of a rate, and not off while
\* a rule resolves to it.
SwitchTaxCode(r) ==
    \E code \in Present(tables.codes) :
        /\ \A key \in Present(tables.classes) : tables.classes[key].code # code
        /\ tables.codes[code].is_active => ~RefersToCode(tables, code)
        /\ Open(r, "patch_code", code, [tables EXCEPT !.codes[code].is_active = ~@])

\* Mutant: the class is switched, its code is forgotten.
Switched_ClassOnly(t, key, active) == [t EXCEPT !.classes[key].is_active = active]

\* A rate is a class and its code together.
Switched(t, key, active) ==
    [t EXCEPT !.classes[key].is_active = active,
              !.codes[t.classes[key].code].is_active = active]

\* PATCH classes/{id}: retire a rate, or bring it back.
UpdateTaxClass(r) ==
    \E key \in Present(tables.classes), active \in BOOLEAN :
        /\ ~active => ~(tables.classes[key].is_active /\ RefersToClass(tables, key))
        /\ \E new \in {Switched(tables, key, active)} \ {tables} :
              Open(r, "patch_class", tables.classes[key].code, new)

OwnRow(category, rate) == [category |-> category, rate |-> rate, is_active |-> TRUE,
                           edited |-> FALSE, origin |-> None]

\* next_custom_class_key: one past the highest.
IsNext(t, n) ==
    /\ \A m \in DOMAIN CustomKeys : m >= n => t.classes[CustomKeys[m]] = None
    /\ n > 1 => t.classes[CustomKeys[n - 1]] # None

\* create_rate: a code of category S and the class that points at it.
RateCreated(t, key, code, rate) ==
    [t EXCEPT !.codes[code] = OwnRow("S", rate),
              !.classes[key] = [code |-> code, is_active |-> TRUE, origin |-> None]]

\* create_no_tax_case: a code at 0 % and no class.
NoTaxCaseCreated(t, code) == [t EXCEPT !.codes[code] = OwnRow("O", 0)]

\* POST rates.
CreateTaxRate(r) ==
    \E n \in DOMAIN CustomKeys :
        /\ IsNext(tables, n)
        /\ \E code \in OwnCodes \ Present(tables.codes), rate \in TypedRates \ {0} :
              Open(r, "create", code, RateCreated(tables, CustomKeys[n], code, rate))

\* POST no-tax-cases.
CreateNoTaxCase(r) ==
    \E code \in OwnCodes \ Present(tables.codes) :
        Open(r, "create", code, NoTaxCaseCreated(tables, code))

\* PATCH /company: a first country seeds, a second one is refused here.
UpdateActiveCompany(r) ==
    /\ Present(tables.codes) = {} /\ tables.country = None
    /\ \E country \in Countries :
          Open(r, "country", None, Seeded(tables, country))

\* POST country-change.
ChangeCountry(r) ==
    /\ Free(r)
    /\ \E country \in Countries, mode \in {"apply_pack", "country_only"} :
          \E new \in {CountryChanged(tables, country, mode)} \ {tables} :
             Open(r, "country_change", None, new)

-----------------------------------------------------------------------------
(* It commits.                                                             *)

\* A row as it is, with the columns the request changed.
Over(seen, new, now) ==
    IF seen = None \/ new = None \/ now = None THEN IF new # seen THEN new ELSE now
    ELSE [column \in DOMAIN now |-> IF new[column] # seen[column] THEN new[column]
                                    ELSE now[column]]

\* An insert meets a row that was not there: a unique constraint.
Conflicts(seen, new, now) ==
    \E key \in DOMAIN now : seen[key] = None /\ new[key] # None /\ now[key] # None

Commit(r) ==
    LET w == work[r]
    IN /\ w.pc = "open"
       /\ ~Conflicts(w.seen.codes, w.new.codes, tables.codes)
       /\ ~Conflicts(w.seen.classes, w.new.classes, tables.classes)
       /\ tables' = [country |-> IF w.new.country # w.seen.country THEN w.new.country
                                 ELSE tables.country,
                     codes |-> [code \in Codes |->
                         Over(w.seen.codes[code], w.new.codes[code], tables.codes[code])],
                     classes |-> [key \in Keys |->
                         Over(w.seen.classes[key], w.new.classes[key], tables.classes[key])],
                     rules |-> IF w.new.rules # w.seen.rules THEN w.new.rules ELSE tables.rules]
       /\ work' = [work EXCEPT ![r] = Idle]
       /\ UNCHANGED <<edits, overlaps>>

\* A conflict, or a request that dies: the transaction is rolled back.
Rollback(r) ==
    /\ work[r].pc = "open"
    /\ work' = [work EXCEPT ![r] = Idle]
    /\ UNCHANGED <<tables, edits, overlaps>>

\* create_company seeds; the installation's first company has no country.
Init ==
    /\ \E country \in Countries \cup {None} : tables = Seeded(Empty, country)
    /\ work = [r \in Requests |-> Idle]
    /\ edits = 0 /\ overlaps = 0

Next == \E r \in Requests :
            \/ UpdateTaxCode(r) \/ SwitchTaxCode(r) \/ UpdateTaxClass(r)
            \/ CreateTaxRate(r) \/ CreateNoTaxCase(r)
            \/ UpdateActiveCompany(r) \/ ChangeCountry(r)
            \/ Commit(r) \/ Rollback(r)

Spec == Init /\ [][Next]_vars

-----------------------------------------------------------------------------
(* What the engine makes of it.                                            *)

\* engine_tables: the codes, the classes, and the rules.
EngineTables(t) ==
    [codes |-> Restrict(t.codes, Present(t.codes)),
     classes |-> [key \in Present(t.classes) |-> t.classes[key].code],
     rulings |-> Rulings[t.rules]]

Proposed(sale, engine) == Propose(sale, engine.codes, engine.classes, engine.rulings)

Overrides == {None, [kind |-> "domestic_for_foreign_business", code |-> None]}

Sales(t) ==
    [seller_country: {t.country}, buyer_country: Countries, buyer_type: BuyerTypes,
     buyer_vat_verified: BOOLEAN, supply_kind: SupplyKinds, item_class: Present(t.classes),
     item_override: {None}, party_override: Overrides, kleinunternehmer: BOOLEAN]

-----------------------------------------------------------------------------
(* What is true of the packs that ship and of the names people choose, and *)
(* what the theorems below ask for: nothing in the code refuses a pack or a  *)
(* name without it.                                                        *)

\* No code of the company's own is named like one of a pack's.
OwnNamesApart == OwnCodes \cap PackCodes = {}

\* A rate nobody has set ships switched off.
UnsetShipsOff ==
    \A name \in SoundPacks : \A code \in DOMAIN Pack(name).codes :
        IsUnsetRate(Pack(name).codes[code]) => ~Pack(name).codes[code].is_active

\* A code is charged by the class of one key, whichever pack says so, and no
\* class ships switched off with its code on.
ClassesAgree ==
    \A name, other \in SoundPacks :
        /\ \A key \in DOMAIN Pack(name).classes, elsewhere \in DOMAIN Pack(other).classes :
              Pack(name).classes[key].code = Pack(other).classes[elsewhere].code => key = elsewhere
        /\ \A key \in DOMAIN Pack(name).classes :
              Pack(name).codes[Pack(name).classes[key].code].is_active
                  => Pack(name).classes[key].is_active

\* The rules a pack applies, and the codes they name.
ActiveRules(name) == {rule \in Pack(name).rules : rule.is_active}
RuleCodes(name) == {rule.target.name : rule \in {r \in ActiveRules(name) : r.target.kind = "code"}}

\* Every pack has the same rules, which cover every context, name a code or
\* "@item", and name codes that are on and that no class charges.
RulesAgree ==
    \A name, other \in SoundPacks :
        /\ Pack(name).rules = Pack(other).rules
        /\ \A rule \in ActiveRules(name) :
              /\ rule.target.kind = "code" \/ rule.target = [kind |-> "class", name |-> "@item"]
              /\ rule.target.kind = "code" => rule.target = [kind |-> "code", name |-> rule.target.name]
        /\ \A context \in Contexts : \E rule \in ActiveRules(name) : Matches(rule, context)
        /\ \A code \in RuleCodes(name) :
              /\ Pack(name).codes[code].is_active
              /\ \A key \in DOMAIN Pack(other).classes : Pack(other).classes[key].code # code

\* A rule that does not leave the sale to the item's own rate is for a small
\* business, or for a business abroad, in the EU a verified one.
Requires(rule, key, value) == key \in DOMAIN rule.conditions /\ rule.conditions[key] = value

RulesHaveReasons ==
    \A name \in SoundPacks : \A rule \in ActiveRules(name) :
        \/ rule.target = [kind |-> "class", name |-> "@item"]
        \/ Requires(rule, "seller_is_kleinunternehmer", TRUE)
        \/ /\ Requires(rule, "buyer_type", "business")
           /\ \/ Requires(rule, "buyer_region", "non_eu")
              \/ /\ Requires(rule, "buyer_region", "eu_other")
                 /\ Requires(rule, "buyer_vat_verified", TRUE)

-----------------------------------------------------------------------------
(* Properties.                                                             *)

\* Every value is of its type, and every rate names a code that exists.
TypeOK ==
    /\ tables \in Tables
    /\ \A key \in Present(tables.classes) : tables.classes[key].code \in Present(tables.codes)
    /\ \A r \in Requests :
          /\ work[r].pc \in {"idle", "open"} /\ work[r].kind \in Kinds
          /\ work[r].seen \in Tables /\ work[r].new \in Tables
    /\ edits \in 0..MaxEdits /\ overlaps \in 0..MaxOverlaps

\* No request is under way.  One that is can always be rolled back, so every
\* value the tables take is also seen settled: the two properties below lose
\* nothing by asking only then.
Settled == \A r \in Requests : work[r].pc = "idle"

\* A company with a configuration can price every sale of an item whose rate
\* is switched on: the rules cover every combination, what they name exists
\* and is active, whatever was edited, retired, created or moved, and however
\* requests overlapped (tax_references: an unpriceable sale surfaces at the
\* worst moment, to somebody who did not make the change).
EverySalePriced ==
    Settled /\ tables.rules # None =>
        \A engine \in {EngineTables(tables)}, sale \in Sales(tables) :
            engine.codes[engine.classes[sale.item_class]].is_active
                => ~Proposed(sale, engine).blocking

\* Without tax only for a reason: a small business, or a business buyer
\* abroad, verified where the EU asks for it.  Whatever happened to the
\* tables, nobody else gets an answer other than the item's own rate.
OwnRateUnlessReason ==
    Settled /\ tables.rules # None =>
        \A engine \in {EngineTables(tables)}, sale \in Sales(tables) :
            \/ sale.kleinunternehmer
            \/ /\ sale.buyer_type = "business" /\ sale.party_override = None
               /\ sale.buyer_country # tables.country
               /\ {sale.buyer_country, tables.country} \subseteq EUMembers
                      => sale.buyer_vat_verified
            \/ Proposed(sale, engine).code \in {None, engine.classes[sale.item_class]}

\* A class and its code are switched together (tax_classes.is_active): while
\* requests come one at a time, no rate that can be charged is left behind a
\* class somebody retired.
PairsAgree ==
    Calm => \A key \in Present(tables.classes) :
                tables.codes[tables.classes[key].code].is_active
                    => tables.classes[key].is_active

\* What a user typed is changed only by a user: no seeding and no country
\* change, however late it commits, touches a rate, a text or a row of the
\* company's own ("Seeding never overwrites. Not usually: never").
EditsSurvive ==
    [][\A code \in Present(tables.codes) :
          LET before == tables.codes[code]
              after == tables'.codes[code]
          IN \/ after # None /\ after.rate = before.rate /\ after.edited = before.edited
                   /\ (before.origin = None => after = before)
             \/ \E r \in Requests : work[r].kind \in {"patch_code", "patch_class"}
                                       /\ work[r].code = code /\ work'[r].pc = "idle"]_vars

\* Machinery never switches on a rate nobody set: a 0 % standard code would
\* quietly propose no tax.
UnsetStaysOff ==
    [][\A code \in Codes :
          (Calm /\ tables'.codes[code] # None /\ IsUnsetRate(tables'.codes[code])
             /\ tables'.codes[code].is_active
             /\ (tables.codes[code] = None \/ ~tables.codes[code].is_active))
          => \E r \in Requests : work[r].kind \in {"patch_code", "patch_class"}
                                    /\ work'[r].pc = "idle" /\ work[r].pc = "open"]_vars
=============================================================================
