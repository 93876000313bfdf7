------------------------------- MODULE TaxPacks --------------------------------
(***************************************************************************)
(* Region packs: the YAML files a company's tax configuration starts from. *)
(* A country pack extends the generic one: its codes and classes replace   *)
(* the inherited ones by key, codes it drops take inherited classes with   *)
(* them, and it inherits the rules unless it declares its own.             *)
(*                                                                         *)
(* RawPacks gives the files: each a record of `extends`, `countries`,      *)
(* `drop_codes`, `codes`, `classes` and `rules`.  Reading YAML and the     *)
(* refusal of malformed entries are left out; what can only be seen on the *)
(* whole pack (_check) is WellFormed.                                      *)
(***************************************************************************)
EXTENDS TaxEngine, Functions

CONSTANTS RawPacks, GenericPack

PackNames == DOMAIN RawPacks

\* What reading a file has made sure of, and that the generic pack is there.
\* (A position may be any integer; in a finite list, counting from the lowest
\* changes nothing.)
ASSUME PackAssumption ==
    /\ GenericPack \in PackNames
    /\ \A name \in PackNames :
         /\ \A code \in DOMAIN RawPacks[name].codes :
               RawPacks[name].codes[code] \in [category: Categories, rate: Nat, is_active: BOOLEAN]
         /\ \A key \in DOMAIN RawPacks[name].classes :
               RawPacks[name].classes[key].is_active \in BOOLEAN
         /\ \A rule \in RawPacks[name].rules : rule # None /\ rule.position \in Nat

\* How deep `extends` may go before it is a mistake.
MaxExtendsDepth == 5

\* Every code and class carries the pack it came from.
CodesOf(raw, pack) ==
    [code \in DOMAIN raw.codes |->
        [category |-> raw.codes[code].category, rate |-> raw.codes[code].rate,
         is_active |-> raw.codes[code].is_active, origin |-> pack]]

ClassesOf(raw, pack) ==
    [key \in DOMAIN raw.classes |->
        [code |-> raw.classes[key].code, is_active |-> raw.classes[key].is_active,
         origin |-> pack]]

\* Child over parent, by key.
Overlaid(child, parent) ==
    [key \in DOMAIN child \cup DOMAIN parent |->
        IF key \in DOMAIN child THEN child[key] ELSE parent[key]]

\* _merge: child over parent by key; a class whose code was dropped goes with
\* it, unless the child declared it (then the pack is refused).
Merged(parent, raw, pack) ==
    LET codes == Restrict(Overlaid(CodesOf(raw, pack), parent.codes),
                          (DOMAIN raw.codes \cup DOMAIN parent.codes) \ raw.drop_codes)
        classes == Overlaid(ClassesOf(raw, pack), parent.classes)
        kept == {key \in DOMAIN classes :
                    classes[key].code \in DOMAIN codes \/ classes[key].origin = pack}
    IN [codes |-> codes, classes |-> Restrict(classes, kept),
        rules |-> IF raw.rules = {} THEN parent.rules ELSE raw.rules]

\* _check: what nothing would notice until an invoice is wrong.
WellFormed(pack) ==
    /\ \A key \in DOMAIN pack.classes : pack.classes[key].code \in DOMAIN pack.codes
    /\ \A code \in DOMAIN pack.codes : RateFits(pack.codes[code].category, pack.codes[code].rate)
    /\ "standard" \in DOMAIN pack.classes
    /\ pack.rules # {}
    /\ \A rule \in pack.rules :
          IF rule.target.kind = "code" THEN rule.target.name \in DOMAIN pack.codes
          ELSE rule.target.name \in DOMAIN pack.classes \cup {"@item"}

\* One file, read over what its parent may have loaded to; None for a
\* PackError.
Resolved(name, parents) ==
    LET raw == RawPacks[name]
        parent == IF raw.extends \in PackNames THEN parents[raw.extends] ELSE None
        pack == IF raw.extends = None
                THEN [codes |-> CodesOf(raw, name), classes |-> ClassesOf(raw, name),
                      rules |-> raw.rules]
                ELSE Merged(parent, raw, name)
        refused == raw.extends # None
                       /\ (parent = None \/ ~(raw.drop_codes \subseteq
                                                (DOMAIN raw.codes \cup DOMAIN parent.codes)))
    IN IF refused \/ ~WellFormed(pack) THEN None ELSE pack

LoadedOver(parents) == [name \in PackNames |-> Resolved(name, parents)]

\* _load: the packs as they load so many `extends` deep; one deeper is too
\* deep, which is also how files that extend each other end.
Load[depth \in 0..MaxExtendsDepth] ==
    LoadedOver(IF depth < MaxExtendsDepth THEN Load[depth + 1] ELSE [name \in PackNames |-> None])

Packs == Load[0]

Pack(name) == Packs[name]

\* The packs that load.
SoundPacks == {name \in PackNames : Packs[name] # None}

\* pack_name_for_country: the first sound pack that names the country, else
\* the generic one.
PackFor(country) ==
    LET naming == {name \in SoundPacks \ {GenericPack} : country \in RawPacks[name].countries}
    IN IF naming = {} THEN GenericPack ELSE CHOOSE name \in naming : TRUE
=============================================================================
