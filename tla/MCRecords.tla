-------------------------------- MODULE MCRecords -------------------------------
(* The tree of parties, what documents to them would say, the company's     *)
(* bank accounts, the installation's accounts and their backup addresses    *)
(* for TLC.  They share no state, so what one of them does is the same      *)
(* whatever the others do: a behaviour picks one and the others stay as     *)
(* they are, which spares TLC their product.                                *)
EXTENDS Parties, Recipients, BankAccounts, Accounts, BackupEmails, TLC

CONSTANTS q1, q2, i1, i2, i3   \* i1 ... are the ids of whatever the behaviour is about

VARIABLE component

vars == <<partyVars, recipientVars, accountVars, userVars, backupVars, edits, overlaps, component>>

Init ==
    /\ PartiesInit /\ AccountsInit /\ UsersInit /\ BackupsInit
    /\ edits = 0 /\ overlaps = 0
    /\ \/ component = "recipients" /\ RecipientsInit
       \/ component \in {"parties", "bank accounts", "accounts", "backups"} /\ levels = <<>>

Next ==
    /\ UNCHANGED component
    /\ \/ /\ component = "parties" /\ PartiesNext
          /\ UNCHANGED <<recipientVars, accountVars, userVars, backupVars>>
       \/ /\ component = "recipients" /\ RecipientsNext
          /\ UNCHANGED <<partyVars, accountVars, userVars, backupVars>>
       \/ /\ component = "bank accounts" /\ AccountsNext
          /\ UNCHANGED <<partyVars, recipientVars, userVars, backupVars>>
       \/ /\ component = "accounts" /\ UsersNext
          /\ UNCHANGED <<partyVars, recipientVars, accountVars, backupVars>>
       \/ /\ component = "backups" /\ BackupsNext
          /\ UNCHANGED <<partyVars, recipientVars, accountVars, userVars>>

Spec == Init /\ [][Next]_vars

\* A customer or nobody in particular to begin with; edits add and take away
\* each role.
RolesGiven == {[is_customer |-> customer, is_supplier |-> FALSE] : customer \in BOOLEAN}

\* A number somebody brought along, which the series gives as well.
TypedNumbers == {<<"customer", 1>>}

Symmetry == Permutations(Requests) \cup Permutations(Ids)

-----------------------------------------------------------------------------
(* What recipients are made of: an Austrian seller with the shipped rules   *)
(* cut down to the ones that ask about the buyer, German and Swiss buyers.  *)

Trees == {<<"person">>, <<"person", "organisation">>}

Identifiers == "DE1" :> "vat" @@ "NO1" :> "vat" @@ "AU1" :> "abn"

Forms == {[country |-> "DE", placed |-> FALSE, is_default |-> TRUE],
          [country |-> "CH", placed |-> TRUE, is_default |-> FALSE]}

Reply(ok, failed, message, valid) ==
    [ok |-> ok, readable |-> TRUE, failed |-> failed, message |-> message, valid |-> valid]

\* A verdict in a 500; an error in a 200 that even carries one; the words of
\* the Australian register; a verdict.
SecondReplies == {Reply(FALSE, FALSE, None, TRUE), Reply(TRUE, TRUE, None, TRUE),
                  Reply(TRUE, FALSE, "no record", None),
                  Reply(TRUE, FALSE, None, TRUE), Reply(TRUE, FALSE, None, FALSE)}

Tries == {<<None, reply>> : reply \in SecondReplies}

DomesticAlways == [kind |-> "domestic_for_foreign_business", code |-> None]

CodeRow(category, rate) == [category |-> category, rate |-> rate, is_active |-> TRUE]

AustrianCodes == "AT-20" :> CodeRow("S", 20) @@ "EU-AE" :> CodeRow("AE", 0)
                    @@ "EU-K" :> CodeRow("K", 0) @@ "EU-O" :> CodeRow("O", 0)

AustrianClasses == "standard" :> "AT-20"

RuleRow(position, conditions, treatment, kind, name) ==
    [position |-> position, conditions |-> conditions, treatment |-> treatment,
     target |-> [kind |-> kind, name |-> name], warning |-> None, is_active |-> TRUE]

AustrianRules ==
    {RuleRow(30, [buyer_region |-> "eu_other", buyer_type |-> "business",
                  buyer_vat_verified |-> TRUE, supply_kind |-> "services"],
             "eu_reverse_charge", "code", "EU-AE"),
     RuleRow(40, [buyer_region |-> "eu_other", buyer_type |-> "business",
                  buyer_vat_verified |-> TRUE, supply_kind |-> "goods"],
             "intra_community_supply", "code", "EU-K"),
     RuleRow(50, [buyer_region |-> "eu_other", buyer_type |-> "business",
                  buyer_vat_verified |-> FALSE],
             "domestic", "class", "@item"),
     RuleRow(60, [buyer_type |-> "private"], "domestic", "class", "@item"),
     RuleRow(70, [buyer_region |-> "non_eu", buyer_type |-> "business"],
             "not_taxable_in_country", "code", "EU-O")}

\* They meet the hypothesis of the theorem about sales without tax.
ASSUME RulesAssumption == UntaxedAreVerified
=============================================================================
