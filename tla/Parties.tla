-------------------------------- MODULE Parties ---------------------------------
(***************************************************************************)
(* The tree of customers and suppliers: organisations, their departments   *)
(* and the people in them; what a party inherits from those above it; its  *)
(* number, drawn from the customers' or the suppliers' series while there  *)
(* is one, and the tax code it may be pinned to.                           *)
(*                                                                         *)
(* The codes are the company's tax codes, of which only the switch is kept *)
(* here: turning one off asks who is pinned to it, archiving and           *)
(* reactivating a customer ask nothing about codes.  Of the two number     *)
(* series only the switch and the next number are kept; how a number is    *)
(* drawn from a locked row is NumberSeries'.                               *)
(***************************************************************************)
EXTENDS Overlaps, Sequences

CONSTANTS
    Ids,        \* parties
    Codes,      \* the company's tax codes
    PartyRoles, \* what new parties are: customers, suppliers, both, neither
    Typed,      \* the numbers people type
    MaxNumber   \* bound: the largest number of a series

ASSUME PartiesAssumption == MaxNumber \in Nat

VARIABLES
    parties,   \* the committed rows
    codes,     \* which tax codes are active
    drawing,   \* which of the two series are active
    counters,  \* the next number of each
    work       \* each request: what it does, what it loaded, what it will write

partyVars == <<parties, codes, drawing, counters, work>>

Types == {"organisation", "department", "person"}
AllowedParents == [organisation |-> {}, department |-> {"organisation"},
                   person |-> {"organisation", "department"}]

MaxDepth == 3

\* The series parties draw from, and what they print: the seeded patterns differ
\* in their letters, so numbers of different series never meet.
PartySeries == {"customer", "supplier"}
Numbers == PartySeries \X (1..MaxNumber)

Party == [type: Types, parent: Ids \cup {None}, is_active: BOOLEAN,
          is_customer: BOOLEAN, is_supplier: BOOLEAN,
          party_number: Numbers \cup {None}, tax_override: Codes \cup {None}]

ASSUME PartyNullAssumption ==
    None \notin Ids \cup Codes \cup Numbers \cup Party \cup PartySeries
ASSUME PartyInputsAssumption ==
    Typed \subseteq Numbers /\ PartyRoles \subseteq [is_customer: BOOLEAN, is_supplier: BOOLEAN]

Blank == [type |-> "person", parent |-> None, is_active |-> TRUE,
          is_customer |-> FALSE, is_supplier |-> FALSE,
          party_number |-> None, tax_override |-> None]

PartyWork == [pc: {"idle", "open"}, kind: {"create", "update", "archive", "reactivate", "switch"},
              id: Ids \cup Codes \cup {None}, seen: Party, new: Party]

IdleParty == [pc |-> "idle", kind |-> "update", id |-> None, seen |-> Blank, new |-> Blank]

-----------------------------------------------------------------------------
(* The chain.                                                              *)

Parent(id) == IF id = None THEN None ELSE parties[id].parent

\* build_chain: the party and those above it, innermost first, never longer
\* than one past the depth.  (A cycle, which OneLevelEach rules out, would be
\* cut at its first repeat.)
Chain(id) ==
    IF Parent(id) = None THEN <<id>>
    ELSE IF Parent(Parent(id)) = None THEN <<id, Parent(id)>>
    ELSE IF Parent(Parent(Parent(id))) = None THEN <<id, Parent(id), Parent(Parent(id))>>
    ELSE <<id, Parent(id), Parent(Parent(id)), Parent(Parent(Parent(id)))>>

Above(id) == {Chain(id)[n] : n \in DOMAIN Chain(id)}

\* Mutant: the parent's type is not looked at.
ValidParent_AnyType(type, parent, id) ==
    IF parent = None THEN type # "department"
    ELSE /\ type # "organisation"
         /\ id \notin Above(parent)
         /\ Len(Chain(parent)) < MaxDepth

\* validate_parent.
ValidParent(type, parent, id) ==
    IF parent = None THEN type # "department"
    ELSE /\ parties[parent].type \in AllowedParents[type]
         /\ id \notin Above(parent)
         /\ Len(Chain(parent)) < MaxDepth

\* resolve_recipient, _first: the nearest level that says.
TaxOverride(id) ==
    LET saying == {n \in DOMAIN Chain(id) : parties[Chain(id)[n]].tax_override # None}
    IN IF saying = {} THEN None
       ELSE parties[Chain(id)[CHOOSE n \in saying : \A m \in saying : n <= m]].tax_override

\* preview_tax: a sale to somebody pinned to an inactive code is blocked.
Priceable(id, active) == TaxOverride(id) \in {None} \cup active

-----------------------------------------------------------------------------
(* Requests.                                                               *)

Loads(r, kind, id, seen, new) ==
    /\ Begins(work, r)
    /\ work' = [work EXCEPT ![r] = [pc |-> "open", kind |-> kind, id |-> id,
                                    seen |-> seen, new |-> new]]
    /\ UNCHANGED <<parties, codes, drawing, counters>>

Editing(r, kind, id, new) == new # parties[id] /\ Loads(r, kind, id, parties[id], new)

\* POST /parties.
CreateParty(r) ==
    \E id \in Ids \ ({work[q].id : q \in Requests} \cup Present(parties)), type \in Types,
       parent \in Present(parties) \cup {None}, override \in Codes \cup {None},
       role \in PartyRoles, number \in Typed \cup {None} :
        /\ ValidParent(type, parent, id)
        /\ Loads(r, "create", id, Blank,
                 [Blank EXCEPT !.type = type, !.parent = parent, !.tax_override = override,
                               !.is_customer = role.is_customer,
                               !.is_supplier = role.is_supplier, !.party_number = number])

\* PATCH /parties/{id}: a parent, the pinned code, a role, the number.
UpdateParty(r) ==
    \E id \in Present(parties) :
        LET row == parties[id]
        IN \/ \E parent \in Present(parties) \cup {None} :
                /\ ValidParent(row.type, parent, id)
                /\ Editing(r, "update", id, [row EXCEPT !.parent = parent])
           \/ \E override \in Codes \cup {None} :
                Editing(r, "update", id, [row EXCEPT !.tax_override = override])
           \/ Editing(r, "update", id, [row EXCEPT !.is_customer = ~@])
           \/ Editing(r, "update", id, [row EXCEPT !.is_supplier = ~@])
           \/ \E number \in Typed \cup {None} :
                Editing(r, "update", id, [row EXCEPT !.party_number = number])

\* Not while it has active entries below it.
ArchiveParty(r) ==
    \E id \in Present(parties) :
        /\ \A below \in Present(parties) : parties[below].parent = id => ~parties[below].is_active
        /\ Editing(r, "archive", id, [parties[id] EXCEPT !.is_active = FALSE])

ReactivateParty(r) ==
    \E id \in Present(parties) :
        Editing(r, "reactivate", id, [parties[id] EXCEPT !.is_active = TRUE])

\* Mutant: only who is a customer today counts.
PartiesOverridingTo_Customers(code) ==
    {id \in Present(parties) : parties[id].is_active /\ parties[id].is_customer
                                  /\ parties[id].tax_override = code}

\* _parties_overriding_to, asked before a tax code is turned off.
PartiesOverridingTo(code) ==
    {id \in Present(parties) : parties[id].is_active /\ parties[id].tax_override = code}

SwitchCode(r) ==
    \E code \in Codes :
        /\ code \in codes => PartiesOverridingTo(code) = {}
        /\ Loads(r, "switch", code, Blank, [Blank EXCEPT !.is_active = code \notin codes])

-----------------------------------------------------------------------------
(* Commit.                                                                 *)

\* One number for who is both, and that is a customer's.
DocumentType(row) ==
    IF row.is_customer THEN "customer" ELSE IF row.is_supplier THEN "supplier" ELSE None

\* Mutant: an edited party that gains a role draws no number.
Draws_OnCreate(w) ==
    /\ w.kind = "create" /\ w.new.party_number = None
    /\ DocumentType(w.new) \in drawing

\* allocate_party_number: who has a role and no number, while the series is
\* there; with NumberSeriesMissing the party is saved without one.
Draws(w) ==
    /\ w.kind \in {"create", "update"} /\ w.new.party_number = None
    /\ DocumentType(w.new) \in drawing

\* The row as it lands.  A number is taken under the series' row lock, which
\* is held to the commit, so it is the counter's value as of then.
Landing(w) ==
    LET row == IF w.kind = "create" THEN w.new ELSE Over(w.seen, w.new, parties[w.id])
        type == DocumentType(w.new)
    IN IF Draws(w) THEN [row EXCEPT !.party_number = <<type, counters[type]>>] ELSE row

\* A number another party carries fails the unique index, and the request.
CommitParty(r) ==
    LET w == work[r]
        row == Landing(w)
        type == DocumentType(w.new)
    IN /\ w.pc = "open" /\ w.kind # "switch"
       /\ Draws(w) => counters[type] <= MaxNumber
       /\ \A id \in Present(parties) \ {w.id} :
             row.party_number # None => parties[id].party_number # row.party_number
       /\ parties' = [parties EXCEPT ![w.id] = row]
       /\ counters' = IF Draws(w) THEN [counters EXCEPT ![type] = @ + 1] ELSE counters
       /\ work' = [work EXCEPT ![r] = IdleParty]
       /\ UNCHANGED <<codes, drawing, edits, overlaps>>

CommitSwitch(r) ==
    /\ work[r].pc = "open" /\ work[r].kind = "switch"
    /\ codes' = IF work[r].new.is_active THEN codes \cup {work[r].id} ELSE codes \ {work[r].id}
    /\ work' = [work EXCEPT ![r] = IdleParty]
    /\ UNCHANGED <<parties, drawing, counters, edits, overlaps>>

\* The index refused it, or it died: the transaction is rolled back.
RollbackParty(r) ==
    /\ work[r].pc = "open"
    /\ work' = [work EXCEPT ![r] = IdleParty]
    /\ UNCHANGED <<parties, codes, drawing, counters, edits, overlaps>>

\* PATCH and POST /company/number-series: a series is retired; or there is one
\* again, the same or another, which starts where it is told.
SwitchSeries ==
    /\ edits < MaxEdits /\ edits' = edits + 1
    /\ \E type \in PartySeries :
        \/ type \in drawing /\ drawing' = drawing \ {type} /\ UNCHANGED counters
        \/ /\ type \notin drawing /\ drawing' = drawing \cup {type}
           /\ \E value \in 1..MaxNumber + 1 : counters' = [counters EXCEPT ![type] = value]
    /\ UNCHANGED <<parties, codes, work, overlaps>>

PartiesInit ==
    /\ parties = [id \in Ids |-> None] /\ codes = Codes
    /\ drawing = PartySeries /\ counters = [type \in PartySeries |-> 1]
    /\ work = [r \in Requests |-> IdleParty]

PartiesNext ==
    \/ SwitchSeries
    \/ \E r \in Requests :
        \/ CreateParty(r) \/ UpdateParty(r) \/ ArchiveParty(r) \/ ReactivateParty(r)
        \/ SwitchCode(r) \/ CommitParty(r) \/ CommitSwitch(r) \/ RollbackParty(r)

-----------------------------------------------------------------------------
(* Properties.                                                             *)

PartiesTypeOK ==
    /\ parties \in [Ids -> Party \cup {None}]
    /\ codes \subseteq Codes /\ drawing \subseteq PartySeries
    /\ counters \in [PartySeries -> 1..MaxNumber + 1]
    /\ work \in [Requests -> PartyWork]

\* However re-parentings overlap, a chain is a person, a department and an
\* organisation at most, each kind once and in that order: no cycle, nothing
\* too deep, and a level's type names it (resolve_recipient looks levels up
\* by type when it carries a flag along with the number it belongs to).
OneLevelEach ==
    \A id \in Present(parties) :
        LET chain == Chain(id)
        IN /\ Len(chain) <= MaxDepth
           /\ \A n \in 2..Len(chain) :
                 parties[chain[n]].type \in AllowedParents[parties[chain[n - 1]].type]

\* While requests come one at a time, turning a tax code off leaves nobody
\* without an answer who is active along with everybody above them: what such
\* a party inherits is somebody's whom the switch asked about.
SwitchStrandsNobody ==
    [][Calm /\ codes' # codes =>
          \A id \in Present(parties) :
              (Priceable(id, codes) /\ \A above \in Above(id) : parties[above].is_active)
                  => Priceable(id, codes')]_<<partyVars, edits, overlaps>>

\* While requests come one at a time, whoever is created or edited as a customer
\* or a supplier while that series is active comes out with a number, whatever
\* became of the series before: those without one were left so while it was
\* missing, and have at most been archived or reactivated since (only create
\* and update call allocate_party_number).  And a number in hand is kept until
\* somebody types another or none.
NumberedUnlessMissing ==
    [][Calm => \A id \in Present(parties') :
         LET now == parties'[id]
         IN /\ DocumentType(now) \in drawing /\ now.party_number = None =>
                 /\ id \in Present(parties)
                 /\ now = [parties[id] EXCEPT !.is_active = now.is_active]
            /\ id \in Present(parties) /\ now.party_number # parties[id].party_number =>
                 \/ parties[id].party_number = None
                 \/ \E r \in Requests :
                       /\ work[r].pc = "open" /\ work[r].id = id
                       /\ work[r].new.party_number # work[r].seen.party_number
      ]_<<partyVars, edits, overlaps>>
=============================================================================
