------------------------------ MODULE Recipients -------------------------------
(***************************************************************************)
(* What a document addressed to a party would say and what tax it would    *)
(* carry: the party and its ancestors, what each level has of its own, how *)
(* the levels are merged, when a tax identifier counts as verified, and    *)
(* what the tax engine makes of it.                                        *)
(*                                                                         *)
(* Requests come one at a time here: how checks, edits and the scheduler   *)
(* interleave is the business of TaxIdChecks.                              *)
(***************************************************************************)
EXTENDS Overlaps, Sequences

CONSTANTS
    Chains,        \* sequences of party types, innermost first
    KindOf,        \* numbers -> the kind of identifier each is
    Covered,       \* the numbers whose country VIES answers for
    Heard,         \* what the registers may reply on each of two tries
    AddressForms,  \* addresses a user may add
    TaxCountries,  \* countries a user may put on a party
    Override,      \* a tax override a user may put on a party
    HasGuid,       \* has the operator configured the Australian register?
    EUMembers, SellerCountry, SellerCodes, SellerClasses, SellerRules

Engine == INSTANCE TaxEngine
Registry == INSTANCE Registers

VARIABLE levels     \* the party the behaviour is about, then its ancestors

recipientVars == levels

TaxNumbers == DOMAIN KindOf
VatLike == {"vat", "uid_ch", "abn"}
Completed == {"valid", "invalid", "not_checkable"}

\* `placed`: a street or a city.
Address == [country: TaxCountries \cup {form.country : form \in AddressForms},
            placed: BOOLEAN, is_default: BOOLEAN]

\* `vat_id`: the number asked about; `stale`: older than max_check_age_days.
Check == [vat_id: TaxNumbers, status: Completed \cup {"unavailable", "not_configured"},
          provider: {"vies", "abn", "none", "manual"}, response: Registry!Replies \cup {None},
          stale: BOOLEAN]

TaxId == [value: TaxNumbers, is_primary: BOOLEAN, is_active: BOOLEAN, checks: Seq(Check)]

PartyTypes == {"person", "department", "organisation"}

\* Addresses and identifiers in the order they were created, checks in the
\* order they were made.
Level == [level: PartyTypes,
          business_status: {"auto", "business", "private"},
          tax_country: TaxCountries \cup {None}, tax_override: {Override, None},
          addresses: Seq(Address), tax_ids: Seq(TaxId)]

\* Without tax because the buyer is a business elsewhere in the EU.
Untaxed == {"eu_reverse_charge", "intra_community_supply"}

\* Nobody is above a person (validate_parent).
ASSUME RecipientsAssumption ==
    /\ \A chain \in Chains :
          chain \in Seq(PartyTypes) /\ \A n \in DOMAIN chain : n > 1 => chain[n] # "person"
    /\ AddressForms \subseteq Address
    /\ Heard \subseteq Registry!Exchanges
    /\ None \notin Level /\ None \notin Check /\ None \notin Untaxed

BlankParty(type) == [level |-> type, business_status |-> "auto", tax_country |-> None,
                tax_override |-> None, addresses |-> <<>>, tax_ids |-> <<>>]

\* _first: of what each level has, innermost first, the first that is something.
First(values, nothing) ==
    LET said == {n \in DOMAIN values : values[n] # nothing}
    IN IF said = {} THEN nothing ELSE values[CHOOSE n \in said : \A m \in said : n <= m]

\* .first() of the rows a query looks for: None when it finds nothing.
FirstRow(rows, Wanted(_)) ==
    First([n \in DOMAIN rows |-> IF Wanted(rows[n]) THEN rows[n] ELSE None], None)

FirstOf(preferred, otherwise) == IF preferred # None THEN preferred ELSE otherwise

-----------------------------------------------------------------------------
(* One level (party_service).                                              *)

\* The default billing address, or the first one there is.
DefaultAddress(level) ==
    FirstOf(FirstRow(level.addresses, LAMBDA address : address.is_default),
            FirstRow(level.addresses, LAMBDA address : TRUE))

IsVatLike(id) == id.is_active /\ KindOf[id.value] \in VatLike

\* primary_tax_id: the primary active VAT-like one, or the oldest.
PrimaryTaxId(level) ==
    FirstOf(FirstRow(level.tax_ids, LAMBDA id : IsVatLike(id) /\ id.is_primary),
            FirstRow(level.tax_ids, IsVatLike))

\* latest_completed_check: the newest that reached an answer.
LatestCompleted(id) ==
    FirstRow([n \in DOMAIN id.checks |-> id.checks[Len(id.checks) + 1 - n]],
             LAMBDA check : check.status \notin {"unavailable", "not_configured"})

\* The conditions vat_is_verified and tax_id_evidence share: a valid answer,
\* not a person's for an EU VAT ID, not older than the policy allows.
ReliesOn(id, check) ==
    /\ check # None /\ check.status = "valid"
    /\ ~(check.provider = "manual" /\ KindOf[id.value] = "vat")
    /\ ~check.stale

VatIsVerified(level) ==
    LET id == PrimaryTaxId(level) IN id # None /\ ReliesOn(id, LatestCompleted(id))

TaxIdEvidence(level) ==
    LET id == PrimaryTaxId(level)
    IN IF VatIsVerified(level) THEN [value |-> id.value, check |-> LatestCompleted(id)] ELSE None

-----------------------------------------------------------------------------
(* The chain merged (billing/parties/resolver).                            *)

\* Mutant: an address is empty only when every field of it is.
IsEmpty_EveryField(address) == ~address.placed /\ address.country = None

\* No street and no city; a country alone is not an address.
IsEmpty(address) == ~address.placed

HasNumber(level) == PrimaryTaxId(level) # None

\* The innermost level with a number of its own.
NumberedLevel(c) == FirstRow(c, HasNumber)

VatId(c) == IF NumberedLevel(c) = None THEN None ELSE PrimaryTaxId(NumberedLevel(c)).value

\* Mutant: any level's verification will do.
VatVerified_AnyLevel(c) == \E n \in DOMAIN c : VatIsVerified(c[n])

\* The flag and the evidence come from the level the number came from.
VatVerified(c) == NumberedLevel(c) # None /\ VatIsVerified(NumberedLevel(c))

HasAddress(level) == DefaultAddress(level) # None /\ ~IsEmpty(DefaultAddress(level))

\* `auto` is nobody having said.
BusinessStatus(c) == First([n \in DOMAIN c |-> c[n].business_status], "auto")

\* The nearest level that says, else the country of the billing address.
TaxCountry(c) ==
    LET placed == FirstRow(c, HasAddress)
    IN FirstOf(First([n \in DOMAIN c |-> c[n].tax_country], None),
               IF placed = None THEN None ELSE DefaultAddress(placed).country)

\* recipient_buyer_type: said, or an organisation or inside one, or numbered.
BuyerType(c) ==
    IF BusinessStatus(c) # "auto" THEN BusinessStatus(c)
    ELSE IF (\E n \in DOMAIN c : c[n].level # "person") \/ VatId(c) # None
    THEN "business" ELSE "private"

\* resolve_recipient and tax_inputs: what propose_tax is told about the buyer.
TaxInputs(c) ==
    [buyer_country |-> TaxCountry(c), buyer_type |-> BuyerType(c),
     buyer_vat_verified |-> VatVerified(c),
     party_override |-> First([n \in DOMAIN c |-> c[n].tax_override], None),
     evidence |-> IF NumberedLevel(c) = None THEN None ELSE TaxIdEvidence(NumberedLevel(c))]

SellerRulings == Engine!RulingsOf(SellerRules)

\* preview_tax: the seller's side comes from the company, the buyer's from
\* the resolved recipient.
Preview(c, supply_kind) ==
    LET inputs == TaxInputs(c)
    IN Engine!Propose(
        [seller_country |-> SellerCountry, kleinunternehmer |-> FALSE,
         buyer_country |-> inputs.buyer_country, buyer_type |-> inputs.buyer_type,
         buyer_vat_verified |-> inputs.buyer_vat_verified, supply_kind |-> supply_kind,
         item_class |-> "standard", item_override |-> None,
         party_override |-> inputs.party_override],
        SellerCodes, SellerClasses, SellerRulings)

-----------------------------------------------------------------------------
(* The requests.                                                           *)

\* uq_party_tax_ids_primary_vat_like, and one row for a number.
FitsIndexes(tax_ids) ==
    \A m, n \in DOMAIN tax_ids :
        m # n => /\ tax_ids[m].value # tax_ids[n].value
                 /\ ~(/\ IsVatLike(tax_ids[m]) /\ tax_ids[m].is_primary
                      /\ IsVatLike(tax_ids[n]) /\ tax_ids[n].is_primary)

\* A request that leaves the party at l with `level`.
Edits(l, level) ==
    /\ edits < MaxEdits /\ edits' = edits + 1
    /\ FitsIndexes(level.tax_ids)
    /\ levels' = [levels EXCEPT ![l] = level]
    /\ UNCHANGED overlaps

UpdateRecipient(l) ==
    LET level == levels[l]
    IN \/ \E status \in {"auto", "business", "private"} \ {level.business_status} :
            Edits(l, [level EXCEPT !.business_status = status])
       \/ \E country \in (TaxCountries \cup {None}) \ {level.tax_country} :
            Edits(l, [level EXCEPT !.tax_country = country])
       \/ \E override \in {Override, None} \ {level.tax_override} :
            Edits(l, [level EXCEPT !.tax_override = override])

\* A new default takes the flag from the old one.
AddAddress(l) ==
    \E form \in AddressForms :
        LET kept == [n \in DOMAIN levels[l].addresses |->
                        IF form.is_default
                        THEN [levels[l].addresses[n] EXCEPT !.is_default = FALSE]
                        ELSE levels[l].addresses[n]]
        IN Edits(l, [levels[l] EXCEPT !.addresses = Append(kept, form)])

\* _clear_other_primaries: among the active ones of the group.
Cleared(tax_ids, kind) ==
    LET group == IF kind \in VatLike THEN VatLike ELSE {kind}
    IN [n \in DOMAIN tax_ids |->
            IF tax_ids[n].is_active /\ KindOf[tax_ids[n].value] \in group
            THEN [tax_ids[n] EXCEPT !.is_primary = FALSE] ELSE tax_ids[n]]

ClearedIf(wanted, tax_ids, kind) == IF wanted THEN Cleared(tax_ids, kind) ELSE tax_ids

NewTaxId(value, is_primary) ==
    [value |-> value, is_primary |-> is_primary, is_active |-> TRUE, checks |-> <<>>]

\* A number the party had before comes back with its checks; the first
\* VAT-like one is primary without being asked.
CreateTaxId(l) ==
    LET level == levels[l]
    IN \E value \in TaxNumbers, asked \in {TRUE, FALSE, None} :
        \/ LET first == KindOf[value] \in VatLike /\ PrimaryTaxId(level) = None
               wanted == IF asked = None THEN first ELSE asked
           IN /\ \A n \in DOMAIN level.tax_ids : level.tax_ids[n].value # value
              /\ Edits(l, [level EXCEPT !.tax_ids =
                    Append(ClearedIf(wanted, @, KindOf[value]), NewTaxId(value, wanted))])
        \/ \E n \in DOMAIN level.tax_ids :
              LET revived == [level.tax_ids EXCEPT ![n].is_active = TRUE]
              IN /\ level.tax_ids[n].value = value /\ ~level.tax_ids[n].is_active
                 /\ Edits(l, [level EXCEPT !.tax_ids =
                       IF asked = TRUE
                       THEN [Cleared(revived, KindOf[value]) EXCEPT ![n].is_primary = TRUE]
                       ELSE revived])

Retired(id) == [id EXCEPT !.is_active = FALSE, !.is_primary = FALSE]

\* A changed number retires its row and starts a new one without checks.
Replaced(tax_ids, n, value, wanted) ==
    Append(ClearedIf(wanted, [tax_ids EXCEPT ![n] = Retired(@)], KindOf[value]),
           NewTaxId(value, wanted))

UpdateTaxId(l) ==
    LET level == levels[l]
    IN \E n \in DOMAIN level.tax_ids :
        LET id == level.tax_ids[n]
            kind == KindOf[id.value]
        IN \/ \E value \in TaxNumbers \ {id.value}, asked \in {TRUE, FALSE, None} :
                /\ KindOf[value] = kind
                /\ Edits(l, [level EXCEPT !.tax_ids =
                        Replaced(@, n, value, IF asked = None THEN id.is_primary ELSE asked)])
           \/ \E asked \in BOOLEAN \ {id.is_primary} :
                Edits(l, [level EXCEPT !.tax_ids =
                    [ClearedIf(asked, @, kind) EXCEPT ![n].is_primary = asked]])

RetireTaxId(l) ==
    \E n \in DOMAIN levels[l].tax_ids :
        /\ levels[l].tax_ids[n].is_active
        /\ Edits(l, [levels[l] EXCEPT !.tax_ids[n] = Retired(@)])

ReactivateTaxId(l) ==
    \E n \in DOMAIN levels[l].tax_ids :
        /\ ~levels[l].tax_ids[n].is_active
        /\ Edits(l, [levels[l] EXCEPT !.tax_ids[n].is_active = TRUE])

\* record_check: a row more, never a row changed.
Recorded(l, n, answer) ==
    Edits(l, [levels[l] EXCEPT !.tax_ids[n].checks = Append(@,
        [vat_id |-> levels[l].tax_ids[n].value, status |-> answer.status,
         provider |-> answer.provider, response |-> answer.response, stale |-> FALSE])])

\* On demand or by the scheduler.
CheckTaxId(l) ==
    \E n \in DOMAIN levels[l].tax_ids, exchanges \in Heard :
        LET value == levels[l].tax_ids[n].value
        IN Recorded(l, n, Registry!Verify(KindOf[value], value \in Covered, exchanges))

ConfirmManually(l) ==
    \E n \in DOMAIN levels[l].tax_ids : Recorded(l, n, Registry!Answered("valid", "manual", None))

Aged(id) == [id EXCEPT !.checks = [k \in DOMAIN @ |-> [@[k] EXCEPT !.stale = TRUE]]]

\* Time passes: every answer on file is older than the policy allows.
AnswersGrowStale ==
    /\ levels' = [l \in DOMAIN levels |->
           [levels[l] EXCEPT !.tax_ids = [n \in DOMAIN @ |-> Aged(@[n])]]]
    /\ UNCHANGED <<edits, overlaps>>

RecipientsInit ==
    \E chain \in Chains : levels = [n \in DOMAIN chain |-> BlankParty(chain[n])]

RecipientsNext ==
    \/ \E l \in DOMAIN levels :
        \/ UpdateRecipient(l) \/ AddAddress(l)
        \/ CreateTaxId(l) \/ UpdateTaxId(l) \/ RetireTaxId(l) \/ ReactivateTaxId(l)
        \/ CheckTaxId(l) \/ ConfirmManually(l)
    \/ AnswersGrowStale

\* What the theorem about sales without tax asks of the seller's rules, as the
\* shipped ones are: a rule that lets such a sale go asks for a verified buyer.
UntaxedAreVerified ==
    \A rule \in SellerRules :
        /\ rule.position \in Nat
        /\ rule.treatment \in Untaxed =>
              "buyer_vat_verified" \in DOMAIN rule.conditions /\ rule.conditions.buyer_vat_verified

-----------------------------------------------------------------------------
(* Properties.                                                             *)

RecipientsTypeOK == levels \in Seq(Level)

\* The party itself and each of its ancestors, as the party of a document.
Parts == {SubSeq(levels, n, Len(levels)) : n \in DOMAIN levels}

\* The register's own words, read by a person.
Confirms(check) ==
    LET reply == check.response
    IN /\ reply # None /\ reply.ok /\ reply.readable /\ reply.valid = TRUE
       /\ check.provider = "vies" => ~reply.failed

\* The innermost level with a number of its own has this one, and the last
\* answer about it, not too old, is its register's in so many words, or a
\* person's about a number no EU register knows.
Proved(c) ==
    \E n \in DOMAIN c : \E m \in DOMAIN c[n].tax_ids : \E k \in DOMAIN c[n].tax_ids[m].checks :
        LET id == c[n].tax_ids[m]
            answer == id.checks[k]
        IN /\ \A outer \in 1..(n - 1) : ~HasNumber(c[outer])
           /\ id.is_active /\ id.value = VatId(c)
           /\ answer.status \in Completed
           /\ \A later \in DOMAIN id.checks : later > k => id.checks[later].status \notin Completed
           /\ answer.vat_id = VatId(c) /\ ~answer.stale
           /\ \/ Confirms(answer)
              \/ answer.provider = "manual" /\ KindOf[id.value] # "vat"

\* No rule lets a sale go without tax because the buyer is an EU business
\* unless the very number the document would show is proved.  An unreachable
\* register, a failure dressed as an answer, another level's number, the
\* number this one replaced: none of them will do (check_vat, record_check,
\* vat_is_verified, resolve_recipient, propose_tax together).
NothingUntaxedUnproved ==
    \A c \in Parts, supply_kind \in {"goods", "services"} :
        (/\ TaxInputs(c).party_override = None
         /\ Preview(c, supply_kind).treatment \in Untaxed)
            => Proved(c)

\* A level says nothing when it has no address with a street or city, no
\* identifier that stands for it, and leaves the rest open.
SaysNothing(level) ==
    /\ level.business_status = "auto" /\ level.tax_country = None /\ level.tax_override = None
    /\ \A n \in DOMAIN level.addresses : ~level.addresses[n].placed
    /\ ~HasNumber(level)

\* A person or department that says nothing of its own is taxed exactly like
\* the level above it: a department created for its name alone, or one with
\* no more than a country in its address, shadows nothing (resolve_recipient).
BlankLevelTransparent ==
    \A c \in Parts :
        (Len(c) > 1 /\ SaysNothing(Head(c))) => TaxInputs(c) = TaxInputs(Tail(c))
=============================================================================
