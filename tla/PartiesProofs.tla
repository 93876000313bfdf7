----------------------------- MODULE PartiesProofs -----------------------------
(***************************************************************************)
(* What holds of Parties for any parties, codes and requests: types and    *)
(* the shape of the tree under every interleaving; that roles draw numbers *)
(* and that switching a tax code off strands nobody, while requests        *)
(* come one at a time.  And of Recipients, for any chain of levels and any *)
(* replies: no sale goes without tax unproved, and a level that says       *)
(* nothing changes nothing.                                                *)
(***************************************************************************)
EXTENDS Parties, Recipients, SequenceTheorems, WellFoundedInduction, TLAPS

partiesVars == <<partyVars, edits, overlaps>>

PartiesSpec ==
    PartiesInit /\ edits = 0 /\ overlaps = 0 /\ [][PartiesNext]_partiesVars

\* A row hangs under a party that is there and may have it.
Attached(rows, row) ==
    row.parent # None =>
        row.parent \in Present(rows) /\ rows[row.parent].type \in AllowedParents[row.type]

\* A request about parties: a row that may be hung where it wants to be; a new
\* party is nobody else's new party, another one is there and keeps its type.
OpenInv(r) ==
    work[r].pc = "open" /\ work[r].kind # "switch" =>
        /\ work[r].id \in Ids
        /\ Attached(parties, work[r].new)
        /\ work[r].kind = "create" =>
            /\ parties[work[r].id] = None
            /\ \A q \in Requests \ {r} :
                  work[q].pc = "open" /\ work[q].kind = "create" => work[q].id # work[r].id
        /\ work[r].kind # "create" =>
            /\ parties[work[r].id] # None
            /\ work[r].new.type = parties[work[r].id].type
            /\ work[r].seen.type = parties[work[r].id].type

TreeInv ==
    /\ PartiesTypeOK
    /\ \A id \in Present(parties) : Attached(parties, parties[id])
    /\ \A r \in Requests : OpenInv(r)
    /\ \A r \in Requests :
          work[r].pc = "open" /\ work[r].kind = "switch" => work[r].id \in Codes

\* PartiesOverridingTo, of any rows.
Pinned(rows, code) ==
    {id \in Present(rows) : rows[id].is_active /\ rows[id].tax_override = code}

\* One request at a time: it sees what is there, archiving and reactivating
\* change nothing but the switch, and a code is turned off only while no active
\* party is pinned to it.
CalmInv ==
    /\ overlaps \in Nat
    /\ Calm =>
        \A r \in Requests :
            work[r].pc = "open" =>
                /\ \A q \in Requests \ {r} : work[q].pc = "idle"
                /\ work[r].kind \in {"update", "archive", "reactivate"} =>
                     work[r].seen = parties[work[r].id]
                /\ work[r].kind \in {"archive", "reactivate"} =>
                     work[r].new = [work[r].seen EXCEPT !.is_active = work[r].new.is_active]
                /\ work[r].kind = "switch" /\ ~work[r].new.is_active =>
                     Pinned(parties, work[r].id) = {}

PartiesInv == TreeInv /\ CalmInv

-----------------------------------------------------------------------------
(* Rows.                                                                   *)

LEMMA BlankTyped == Blank \in Party /\ IdleParty \in PartyWork /\ IdleParty.pc = "idle"
BY DEF Blank, Party, Types, IdleParty, PartyWork

LEMMA RowsTyped ==
    ASSUME PartiesTypeOK, NEW id \in Present(parties)
    PROVE  id \in Ids /\ parties[id] \in Party
BY DEF PartiesTypeOK, Present

\* What the UPDATE leaves is a row again, column by column.
LEMMA OverTyped ==
    ASSUME NEW seen \in Party, NEW new \in Party, NEW now \in Party
    PROVE  /\ Over(seen, new, now) \in Party
           /\ Over(seen, new, now).type = IF new.type # seen.type THEN new.type ELSE now.type
           /\ Over(seen, new, now).parent
                = IF new.parent # seen.parent THEN new.parent ELSE now.parent
BY DEF Over, Party

\* Over what was loaded, what lands is what was asked for.
LEMMA OverWhatWasSeen ==
    ASSUME NEW seen \in Party, NEW new \in Party
    PROVE  Over(seen, new, seen) = new
BY DEF Over, Party

\* A number drawn is one of the series' numbers.
LEMMA DrawsANumber ==
    ASSUME TreeInv, NEW r \in Requests, Draws(work[r]),
           counters[DocumentType(work[r].new)] <= MaxNumber
    PROVE  /\ DocumentType(work[r].new) \in PartySeries
           /\ <<DocumentType(work[r].new), counters[DocumentType(work[r].new)]>> \in Numbers
<1> DEFINE type == DocumentType(work[r].new)
<1>1. type \in drawing /\ drawing \subseteq PartySeries
  BY DEF Draws, TreeInv, PartiesTypeOK
<1> HIDE DEF type
<1>2. type \in PartySeries /\ counters[type] \in 1..MaxNumber + 1
  BY <1>1 DEF TreeInv, PartiesTypeOK
<1>3. counters[type] <= MaxNumber  BY DEF type
<1>4. counters[type] \in 1..MaxNumber  BY <1>2, <1>3, PartiesAssumption
<1> QED  BY <1>2, <1>4 DEF Numbers, type

\* The row a request leaves.
LEMMA LandingTyped ==
    ASSUME TreeInv, NEW r \in Requests, work[r].pc = "open", work[r].kind # "switch",
           Draws(work[r]) => counters[DocumentType(work[r].new)] <= MaxNumber
    PROVE  /\ Landing(work[r]) \in Party
           /\ work[r].kind # "create" => Landing(work[r]).type = parties[work[r].id].type
           /\ Landing(work[r]).type = work[r].new.type
           /\ Landing(work[r]).parent = work[r].new.parent
              \/ /\ work[r].kind # "create"
                 /\ Landing(work[r]).parent = parties[work[r].id].parent
<1> DEFINE w == work[r]
           row == IF w.kind = "create" THEN w.new ELSE Over(w.seen, w.new, parties[w.id])
           drawn == <<DocumentType(w.new), counters[DocumentType(w.new)]>>
<1>1. w \in PartyWork /\ w.new \in Party /\ w.seen \in Party
  BY DEF TreeInv, PartiesTypeOK, PartyWork
<1>2. w.id \in Ids /\ OpenInv(r)
  BY DEF TreeInv, OpenInv
<1>3. w.kind # "create" => parties[w.id] \in Party
  BY <1>2, RowsTyped DEF TreeInv, OpenInv, Present, PartiesTypeOK
<1>4. /\ row \in Party /\ row.type = w.new.type
      /\ \/ row.parent = w.new.parent
         \/ w.kind # "create" /\ row.parent = parties[w.id].parent
  <2>1. CASE w.kind = "create"  BY <1>1, <2>1
  <2>2. CASE w.kind # "create"
    BY <1>1, <1>2, <1>3, <2>2, OverTyped DEF OpenInv
  <2> QED  BY <2>1, <2>2
<1>5. Landing(w) = IF Draws(w) THEN [row EXCEPT !.party_number = drawn] ELSE row
  BY DEF Landing
<1>6. w.kind # "create" => w.new.type = parties[w.id].type
  BY <1>2 DEF OpenInv
<1>7. Draws(w) => drawn \in Numbers  BY DrawsANumber
<1> HIDE DEF row, drawn
<1>8. Draws(w) =>
        /\ [row EXCEPT !.party_number = drawn] \in Party
        /\ [row EXCEPT !.party_number = drawn].type = row.type
        /\ [row EXCEPT !.party_number = drawn].parent = row.parent
  BY <1>4, <1>7 DEF Party
<1> QED  BY <1>4, <1>5, <1>6, <1>8

-----------------------------------------------------------------------------
(* A request begins.                                                       *)

LEMMA LoadsStep ==
    ASSUME TreeInv, NEW r \in Requests, NEW kind, NEW id, NEW seen \in Party, NEW new \in Party,
           kind \in {"create", "update", "archive", "reactivate", "switch"},
           id \in Ids \cup Codes \cup {None},
           Loads(r, kind, id, seen, new),
           kind = "switch" => id \in Codes,
           kind # "switch" =>
            /\ id \in Ids
            /\ Attached(parties, new)
            /\ kind = "create" =>
                 parties[id] = None /\ \A q \in Requests : work[q].id # id
            /\ kind # "create" =>
                 /\ parties[id] # None /\ new.type = parties[id].type
                 /\ seen.type = parties[id].type
    PROVE  TreeInv'
<1> DEFINE w == [pc |-> "open", kind |-> kind, id |-> id, seen |-> seen, new |-> new]
<1>1. w \in PartyWork /\ w.pc = "open" /\ w.kind = kind /\ w.id = id /\ w.seen = seen /\ w.new = new
  BY DEF PartyWork
<1>2. work' = [work EXCEPT ![r] = w] /\ UNCHANGED <<parties, codes, drawing, counters>>
  BY DEF Loads
<1> HIDE DEF w
<1>3. PartiesTypeOK'  BY <1>1, <1>2 DEF TreeInv, PartiesTypeOK
<1>4. \A q \in Requests : work'[q] = IF q = r THEN w ELSE work[q]
  BY <1>2 DEF TreeInv, PartiesTypeOK
<1>5. \A row : Attached(parties', row) <=> Attached(parties, row)
  BY <1>2 DEF Attached, Present
<1>6. \A q \in Requests : OpenInv(q)'
  <2> SUFFICES ASSUME NEW q \in Requests PROVE OpenInv(q)'
    OBVIOUS
  <2>1. CASE q = r
    BY <1>1, <1>2, <1>4, <2>1 DEF OpenInv, Attached, Present
  <2>2. CASE q # r
    BY <1>1, <1>2, <1>4, <2>2 DEF TreeInv, OpenInv, Attached, Present
  <2> QED  BY <2>1, <2>2
<1>7. \A i \in Present(parties)' : Attached(parties', parties'[i])
  BY <1>2 DEF TreeInv, Attached, Present
<1>8. \A q \in Requests :
        work'[q].pc = "open" /\ work'[q].kind = "switch" => work'[q].id \in Codes
  BY <1>1, <1>4 DEF TreeInv
<1> QED  BY <1>3, <1>6, <1>7, <1>8 DEF TreeInv

\* A legal parent is one a row may hang under.
LEMMA ValidParentAttaches ==
    ASSUME TreeInv, NEW row \in Party, NEW id, row.parent \in Present(parties) \cup {None},
           ValidParent(row.type, row.parent, id)
    PROVE  Attached(parties, row)
BY DEF ValidParent, Attached

LEMMA CreateStep ==
    ASSUME TreeInv, NEW r \in Requests, CreateParty(r)
    PROVE  TreeInv'
<1>1. PICK id \in Ids \ ({work[q].id : q \in Requests} \cup Present(parties)), type \in Types,
           parent \in Present(parties) \cup {None}, override \in Codes \cup {None},
           role \in PartyRoles, number \in Typed \cup {None} :
        /\ ValidParent(type, parent, id)
        /\ Loads(r, "create", id, Blank,
                 [Blank EXCEPT !.type = type, !.parent = parent, !.tax_override = override,
                               !.is_customer = role.is_customer,
                                !.is_supplier = role.is_supplier, !.party_number = number])
  BY DEF CreateParty
<1> DEFINE new == [Blank EXCEPT !.type = type, !.parent = parent, !.tax_override = override,
                                !.is_customer = role.is_customer,
                                !.is_supplier = role.is_supplier, !.party_number = number]
<1>2. parent \in Ids \cup {None}  BY DEF Present, TreeInv, PartiesTypeOK
<1>3. new \in Party /\ new.type = type /\ new.parent = parent
  BY <1>2, BlankTyped, PartyInputsAssumption DEF Party
<1> HIDE DEF new
<1>4. Loads(r, "create", id, Blank, new)  BY <1>1 DEF new
<1>5. Attached(parties, new)  BY <1>1, <1>3, ValidParentAttaches
<1>6. parties[id] = None /\ \A q \in Requests : work[q].id # id
  BY DEF Present, TreeInv, PartiesTypeOK
<1> QED  BY <1>3, <1>4, <1>5, <1>6, BlankTyped, LoadsStep

\* Editing a party that is there, without touching its type.
LEMMA EditingStep ==
    ASSUME TreeInv, NEW r \in Requests, NEW kind \in {"update", "archive", "reactivate"},
           NEW id \in Present(parties), NEW new \in Party, Editing(r, kind, id, new),
           new.type = parties[id].type, Attached(parties, new)
    PROVE  TreeInv'
<1>1. id \in Ids /\ parties[id] \in Party /\ parties[id] # None
  BY RowsTyped DEF TreeInv, Present
<1>2. Loads(r, kind, id, parties[id], new)  BY DEF Editing
<1> QED  BY <1>1, <1>2, LoadsStep

LEMMA UpdateStep ==
    ASSUME TreeInv, NEW r \in Requests, UpdateParty(r)
    PROVE  TreeInv'
<1>1. PICK id \in Present(parties) :
        \/ \E parent \in Present(parties) \cup {None} :
             /\ ValidParent(parties[id].type, parent, id)
             /\ Editing(r, "update", id, [parties[id] EXCEPT !.parent = parent])
        \/ \E override \in Codes \cup {None} :
             Editing(r, "update", id, [parties[id] EXCEPT !.tax_override = override])
        \/ Editing(r, "update", id, [parties[id] EXCEPT !.is_customer = ~@])
        \/ Editing(r, "update", id, [parties[id] EXCEPT !.is_supplier = ~@])
        \/ \E number \in Typed \cup {None} :
             Editing(r, "update", id, [parties[id] EXCEPT !.party_number = number])
  BY DEF UpdateParty
<1>2. parties[id] \in Party /\ Attached(parties, parties[id])  BY RowsTyped DEF TreeInv
<1>3. CASE \E parent \in Present(parties) \cup {None} :
             /\ ValidParent(parties[id].type, parent, id)
             /\ Editing(r, "update", id, [parties[id] EXCEPT !.parent = parent])
  <2>1. PICK parent \in Present(parties) \cup {None} :
             /\ ValidParent(parties[id].type, parent, id)
             /\ Editing(r, "update", id, [parties[id] EXCEPT !.parent = parent])
    BY <1>3
  <2>2. parent \in Ids \cup {None}  BY DEF Present, TreeInv, PartiesTypeOK
  <2> DEFINE new == [parties[id] EXCEPT !.parent = parent]
  <2>3. new \in Party /\ new.type = parties[id].type /\ new.parent = parent
    BY <1>2, <2>2 DEF Party
  <2> HIDE DEF new
  <2>4. Editing(r, "update", id, new)  BY <2>1 DEF new
  <2>5. Attached(parties, new)  BY <2>1, <2>3, ValidParentAttaches
  <2> QED  BY <2>3, <2>4, <2>5, EditingStep
<1>4. ASSUME NEW new \in Party, new.type = parties[id].type, new.parent = parties[id].parent,
             Editing(r, "update", id, new)
      PROVE  TreeInv'
  <2>1. Attached(parties, new)  BY <1>2, <1>4 DEF Attached
  <2> QED  BY <1>4, <2>1, EditingStep
<1>5. CASE \E override \in Codes \cup {None} :
             Editing(r, "update", id, [parties[id] EXCEPT !.tax_override = override])
  <2>1. PICK override \in Codes \cup {None} :
             Editing(r, "update", id, [parties[id] EXCEPT !.tax_override = override])
    BY <1>5
  <2> DEFINE new == [parties[id] EXCEPT !.tax_override = override]
  <2>2. new \in Party /\ new.type = parties[id].type /\ new.parent = parties[id].parent
    BY <1>2 DEF Party
  <2> HIDE DEF new
  <2>3. Editing(r, "update", id, new)  BY <2>1 DEF new
  <2> QED  BY <2>2, <2>3, <1>4
<1>6. CASE Editing(r, "update", id, [parties[id] EXCEPT !.is_customer = ~@])
  <2> DEFINE new == [parties[id] EXCEPT !.is_customer = ~@]
  <2>2. new \in Party /\ new.type = parties[id].type /\ new.parent = parties[id].parent
    BY <1>2 DEF Party
  <2> HIDE DEF new
  <2>3. Editing(r, "update", id, new)  BY <1>6 DEF new
  <2> QED  BY <2>2, <2>3, <1>4
<1>7. CASE \E number \in Typed \cup {None} :
             Editing(r, "update", id, [parties[id] EXCEPT !.party_number = number])
  <2>1. PICK number \in Typed \cup {None} :
             Editing(r, "update", id, [parties[id] EXCEPT !.party_number = number])
    BY <1>7
  <2> DEFINE new == [parties[id] EXCEPT !.party_number = number]
  <2>2. new \in Party /\ new.type = parties[id].type /\ new.parent = parties[id].parent
    BY <1>2, PartyInputsAssumption DEF Party
  <2> HIDE DEF new
  <2>3. Editing(r, "update", id, new)  BY <2>1 DEF new
  <2> QED  BY <2>2, <2>3, <1>4
<1>8. CASE Editing(r, "update", id, [parties[id] EXCEPT !.is_supplier = ~@])
  <2> DEFINE new == [parties[id] EXCEPT !.is_supplier = ~@]
  <2>2. new \in Party /\ new.type = parties[id].type /\ new.parent = parties[id].parent
    BY <1>2 DEF Party
  <2> HIDE DEF new
  <2>3. Editing(r, "update", id, new)  BY <1>8 DEF new
  <2> QED  BY <2>2, <2>3, <1>4
<1> QED  BY <1>1, <1>3, <1>5, <1>6, <1>7, <1>8

\* Archiving and reactivating touch the flag alone.
LEMMA FlagStep ==
    ASSUME TreeInv, NEW r \in Requests, NEW kind \in {"archive", "reactivate"},
           NEW id \in Present(parties), NEW flag \in BOOLEAN,
           Editing(r, kind, id, [parties[id] EXCEPT !.is_active = flag])
    PROVE  TreeInv'
<1>1. parties[id] \in Party /\ Attached(parties, parties[id])  BY RowsTyped DEF TreeInv
<1> DEFINE new == [parties[id] EXCEPT !.is_active = flag]
<1>2. new \in Party /\ new.type = parties[id].type /\ new.parent = parties[id].parent
  BY <1>1 DEF Party
<1> HIDE DEF new
<1>3. Attached(parties, new)  BY <1>1, <1>2 DEF Attached
<1>4. Editing(r, kind, id, new)  BY DEF new
<1> QED  BY <1>2, <1>3, <1>4, EditingStep

LEMMA SwitchStep ==
    ASSUME TreeInv, NEW r \in Requests, SwitchCode(r)
    PROVE  TreeInv'
<1>1. PICK code \in Codes :
        Loads(r, "switch", code, Blank, [Blank EXCEPT !.is_active = code \notin codes])
  BY DEF SwitchCode
<1> DEFINE new == [Blank EXCEPT !.is_active = code \notin codes]
<1>2. new \in Party  BY BlankTyped DEF Party
<1> HIDE DEF new
<1>3. Loads(r, "switch", code, Blank, new)  BY <1>1 DEF new
<1> QED  BY <1>2, <1>3, BlankTyped, LoadsStep

-----------------------------------------------------------------------------
(* It commits.                                                             *)

LEMMA CommitPartyStep ==
    ASSUME TreeInv, NEW r \in Requests, CommitParty(r)
    PROVE  TreeInv'
<1> DEFINE w == work[r]
           row == Landing(work[r])
<1>1. /\ w.pc = "open" /\ w.kind # "switch" /\ w.id \in Ids /\ OpenInv(r)
      /\ w \in PartyWork
  BY DEF CommitParty, TreeInv, OpenInv, PartiesTypeOK
<1>2. Draws(w) => counters[DocumentType(w.new)] <= MaxNumber  BY DEF CommitParty
<1>3. /\ row \in Party /\ row.type = w.new.type
      /\ w.kind # "create" => row.type = parties[w.id].type
      /\ \/ row.parent = w.new.parent
         \/ w.kind # "create" /\ row.parent = parties[w.id].parent
  BY <1>1, <1>2, LandingTyped
<1>4. /\ parties' = [parties EXCEPT ![w.id] = row]
      /\ counters' = IF Draws(w) THEN [counters EXCEPT ![DocumentType(w.new)] = @ + 1]
                     ELSE counters
      /\ work' = [work EXCEPT ![r] = IdleParty]
      /\ codes' = codes /\ drawing' = drawing
  BY DEF CommitParty
<1> HIDE DEF row
<1>5. row # None  BY <1>3, PartyNullAssumption
<1>6. /\ parties' \in [Ids -> Party \cup {None}]
      /\ \A id \in Ids : parties'[id] = IF id = w.id THEN row ELSE parties[id]
  BY <1>1, <1>3, <1>4 DEF TreeInv, PartiesTypeOK
<1>7. /\ Present(parties)' = Present(parties) \cup {w.id}
      /\ Present(parties) \subseteq Ids
  BY <1>5, <1>6, <1>1 DEF Present, TreeInv, PartiesTypeOK
<1>8. \A id \in Present(parties) : parties'[id].type = parties[id].type
  BY <1>1, <1>3, <1>6, <1>7 DEF OpenInv, Present
<1>9. \A old \in Party : Attached(parties, old) => Attached(parties', old)
  BY <1>7, <1>8 DEF Attached
<1>10. Attached(parties', row)
  <2>1. CASE row.parent = w.new.parent
    <3>1. Attached(parties, w.new) /\ w.new \in Party  BY <1>1 DEF OpenInv, PartyWork
    <3>2. Attached(parties', w.new)  BY <3>1, <1>9
    <3> QED  BY <3>2, <2>1, <1>3 DEF Attached
  <2>2. CASE w.kind # "create" /\ row.parent = parties[w.id].parent
    <3>1. w.id \in Present(parties)  BY <1>1, <2>2 DEF OpenInv, Present, TreeInv, PartiesTypeOK
    <3>2. Attached(parties, parties[w.id]) /\ parties[w.id] \in Party  BY <3>1, RowsTyped DEF TreeInv
    <3>3. Attached(parties, parties[w.id]) => (row.parent # None =>
              row.parent \in Present(parties)
              /\ parties[row.parent].type \in AllowedParents[row.type])
      BY <1>3, <2>2 DEF Attached
    <3> QED  BY <3>2, <3>3, <1>7, <1>8 DEF Attached
  <2> QED  BY <1>3, <2>1, <2>2
<1>11. PartiesTypeOK'
  <2>1. counters' \in [PartySeries -> 1..MaxNumber + 1]
    <3>1. counters \in [PartySeries -> 1..MaxNumber + 1]  BY DEF TreeInv, PartiesTypeOK
    <3>2. ASSUME Draws(w)
          PROVE  counters[DocumentType(w.new)] + 1 \in 1..MaxNumber + 1
      <4> DEFINE type == DocumentType(w.new)
      <4>1. type \in PartySeries /\ counters[type] <= MaxNumber  BY <1>2, <3>2, DrawsANumber
      <4> HIDE DEF type
      <4>2. counters[type] \in 1..MaxNumber + 1  BY <3>1, <4>1
      <4> QED  BY <4>1, <4>2, PartiesAssumption DEF type
    <3> QED  BY <1>4, <3>1, <3>2
  <2> QED  BY <1>4, <1>6, <2>1, BlankTyped DEF TreeInv, PartiesTypeOK
<1>12. \A id \in Present(parties)' : Attached(parties', parties'[id])
  <2> SUFFICES ASSUME NEW id \in Present(parties)' PROVE Attached(parties', parties'[id])
    OBVIOUS
  <2>1. CASE id = w.id
    <3>1. parties'[id] = row  BY <1>1, <1>6, <2>1
    <3> QED  BY <3>1, <1>10 DEF Attached
  <2>2. CASE id # w.id
    <3>1. id \in Present(parties) /\ parties'[id] = parties[id]  BY <1>6, <1>7, <2>2
    <3>2. Attached(parties, parties[id]) /\ parties[id] \in Party  BY <3>1, RowsTyped DEF TreeInv
    <3>3. Attached(parties, parties[id]) => (parties[id].parent # None =>
              parties[id].parent \in Present(parties)
              /\ parties[parties[id].parent].type \in AllowedParents[parties[id].type])
      BY DEF Attached
    <3> QED  BY <3>1, <3>2, <3>3, <1>7, <1>8 DEF Attached
  <2> QED  BY <2>1, <2>2
<1>13. \A q \in Requests : OpenInv(q)'
  <2> SUFFICES ASSUME NEW q \in Requests, work'[q].pc = "open", work'[q].kind # "switch"
               PROVE  OpenInv(q)'
    BY DEF OpenInv
  <2>1. q # r /\ work'[q] = work[q]
    BY <1>4, BlankTyped DEF TreeInv, PartiesTypeOK
  <2>2. OpenInv(q) /\ work[q] \in PartyWork /\ work[q].id \in Ids /\ work[q].new \in Party
    BY <2>1 DEF TreeInv, PartiesTypeOK, OpenInv, PartyWork
  <2>3. Attached(parties', work[q].new)
    BY <2>1, <2>2, <1>9 DEF OpenInv, Attached
  <2>4. work[q].kind = "create" => work[q].id # w.id
    BY <1>1, <2>1, <2>2 DEF OpenInv
  <2>5. work[q].kind # "create" => work[q].id \in Present(parties)
    BY <2>1, <2>2 DEF OpenInv, Present, TreeInv, PartiesTypeOK
  <2>6. \A p \in Requests \ {q} :
            work'[p].pc = "open" /\ work'[p].kind = "create" => work[p] = work'[p]
    BY <1>4, BlankTyped DEF TreeInv, PartiesTypeOK
  <2>7. work[q].kind = "create" =>
            /\ parties'[work[q].id] = None
            /\ \A p \in Requests \ {q} :
                 work'[p].pc = "open" /\ work'[p].kind = "create" => work'[p].id # work[q].id
    BY <2>1, <2>2, <2>4, <2>6, <1>6 DEF OpenInv
  <2>8. work[q].kind # "create" =>
            /\ parties'[work[q].id] # None
            /\ work[q].new.type = parties'[work[q].id].type
            /\ work[q].seen.type = parties'[work[q].id].type
    BY <2>1, <2>2, <2>5, <1>7, <1>8 DEF OpenInv, Present
  <2> QED  BY <2>1, <2>2, <2>3, <2>7, <2>8 DEF OpenInv, Attached
<1>14. \A q \in Requests :
        work'[q].pc = "open" /\ work'[q].kind = "switch" => work'[q].id \in Codes
  BY <1>4, BlankTyped DEF TreeInv, PartiesTypeOK
<1> QED  BY <1>11, <1>12, <1>13, <1>14 DEF TreeInv

\* A step that only ends a request, and perhaps switches a code.
LEMMA EndStep ==
    ASSUME TreeInv, NEW r \in Requests, work' = [work EXCEPT ![r] = IdleParty],
           UNCHANGED <<parties, drawing, counters>>, codes' \subseteq Codes
    PROVE  TreeInv'
<1>1. PartiesTypeOK'  BY BlankTyped DEF TreeInv, PartiesTypeOK
<1>2. \A q \in Requests : work'[q] = IF q = r THEN IdleParty ELSE work[q]
  BY DEF TreeInv, PartiesTypeOK
<1>3. \A q \in Requests : OpenInv(q)'
  <2> SUFFICES ASSUME NEW q \in Requests, work'[q].pc = "open" PROVE OpenInv(q)'
    BY DEF OpenInv
  <2>1. q # r /\ work'[q] = work[q]  BY <1>2, BlankTyped
  <2>2. OpenInv(q)  BY DEF TreeInv
  <2>3. \A p \in Requests : work'[p].pc = "open" => work'[p] = work[p]
    BY <1>2, BlankTyped
  <2> QED  BY <2>1, <2>2, <2>3 DEF OpenInv, Attached, Present
<1>4. \A id \in Present(parties)' : Attached(parties', parties'[id])
  BY DEF TreeInv, Attached, Present
<1>5. \A q \in Requests :
        work'[q].pc = "open" /\ work'[q].kind = "switch" => work'[q].id \in Codes
  BY <1>2, BlankTyped DEF TreeInv
<1> QED  BY <1>1, <1>3, <1>4, <1>5 DEF TreeInv

LEMMA CommitSwitchStep ==
    ASSUME TreeInv, NEW r \in Requests, CommitSwitch(r)
    PROVE  TreeInv'
<1>1. work[r].id \in Codes /\ codes \subseteq Codes
  BY DEF CommitSwitch, TreeInv, PartiesTypeOK
<1>2. codes' \subseteq Codes /\ work' = [work EXCEPT ![r] = IdleParty]
      /\ UNCHANGED <<parties, drawing, counters>>
  BY <1>1 DEF CommitSwitch
<1> QED  BY <1>2, EndStep

LEMMA RollbackPartyStep ==
    ASSUME TreeInv, NEW r \in Requests, RollbackParty(r)
    PROVE  TreeInv'
<1>1. codes \subseteq Codes  BY DEF TreeInv, PartiesTypeOK
<1> QED  BY <1>1, EndStep DEF RollbackParty

\* Switching a series touches no row.
LEMMA SwitchSeriesStep ==
    ASSUME TreeInv, SwitchSeries
    PROVE  TreeInv'
<1>1. UNCHANGED <<parties, codes, work>>  BY DEF SwitchSeries
<1>2. PICK type \in PartySeries :
        \/ drawing' = drawing \ {type} /\ UNCHANGED counters
        \/ /\ drawing' = drawing \cup {type}
           /\ \E value \in 1..MaxNumber + 1 : counters' = [counters EXCEPT ![type] = value]
  BY DEF SwitchSeries
<1>3. drawing' \subseteq PartySeries /\ counters' \in [PartySeries -> 1..MaxNumber + 1]
  BY <1>2 DEF TreeInv, PartiesTypeOK
<1>4. PartiesTypeOK'  BY <1>1, <1>3 DEF TreeInv, PartiesTypeOK
<1> QED  BY <1>1, <1>4 DEF TreeInv, OpenInv, Attached, Present

-----------------------------------------------------------------------------
(* The tree, under every interleaving.                                     *)

LEMMA TreeInit == PartiesInit => TreeInv
<1> SUFFICES ASSUME PartiesInit PROVE TreeInv
  OBVIOUS
<1>1. Present(parties) = {}  BY DEF PartiesInit, Present
<1>2. PartiesTypeOK
  BY BlankTyped, PartiesAssumption DEF PartiesInit, PartiesTypeOK
<1>3. \A r \in Requests : work[r].pc = "idle"  BY BlankTyped DEF PartiesInit
<1> QED  BY <1>1, <1>2, <1>3 DEF TreeInv, OpenInv

LEMMA TreeStep ==
    ASSUME TreeInv, [PartiesNext]_partiesVars
    PROVE  TreeInv'
<1>1. CASE UNCHANGED partiesVars
  BY <1>1 DEF partiesVars, partyVars, TreeInv, OpenInv, Attached, Present, PartiesTypeOK
<1>2. ASSUME NEW r \in Requests, CreateParty(r) PROVE TreeInv'  BY <1>2, CreateStep
<1>3. ASSUME NEW r \in Requests, UpdateParty(r) PROVE TreeInv'  BY <1>3, UpdateStep
<1>4. ASSUME NEW r \in Requests, ArchiveParty(r) PROVE TreeInv'
  BY <1>4, FlagStep DEF ArchiveParty
<1>5. ASSUME NEW r \in Requests, ReactivateParty(r) PROVE TreeInv'
  BY <1>5, FlagStep DEF ReactivateParty
<1>6. ASSUME NEW r \in Requests, SwitchCode(r) PROVE TreeInv'  BY <1>6, SwitchStep
<1>7. ASSUME NEW r \in Requests, CommitParty(r) PROVE TreeInv'  BY <1>7, CommitPartyStep
<1>8. ASSUME NEW r \in Requests, CommitSwitch(r) PROVE TreeInv'  BY <1>8, CommitSwitchStep
<1>9. ASSUME NEW r \in Requests, RollbackParty(r) PROVE TreeInv'  BY <1>9, RollbackPartyStep
<1> QED
  BY <1>1, <1>2, <1>3, <1>4, <1>5, <1>6, <1>7, <1>8, <1>9, SwitchSeriesStep DEF PartiesNext

\* Types hold whatever requests overlap: a number the column can store, a
\* parent and a pinned code that exist.
THEOREM PartiesTypeCorrect == PartiesSpec => []PartiesTypeOK
<1>1. PartiesInit => TreeInv  BY TreeInit
<1>2. TreeInv /\ [PartiesNext]_partiesVars => TreeInv'  BY TreeStep
<1>3. TreeInv => PartiesTypeOK  BY DEF TreeInv
<1> QED  BY <1>1, <1>2, <1>3, PTL DEF PartiesSpec

\* What the chain of a party that is there is made of.
LEMMA ChainLevels ==
    ASSUME TreeInv, NEW id \in Present(parties)
    PROVE  /\ Chain(id) \in Seq(Present(parties)) /\ Len(Chain(id)) \in 1..MaxDepth
           /\ \A n \in 2..Len(Chain(id)) :
                 parties[Chain(id)[n]].type \in AllowedParents[parties[Chain(id)[n - 1]].type]
<1>1. \A i \in Present(parties) :
        /\ i # None /\ parties[i].type \in Types /\ Attached(parties, parties[i])
  BY RowsTyped, PartyNullAssumption DEF TreeInv, Party
<1>2. \A i \in Present(parties) :
        Parent(i) # None =>
            /\ Parent(i) = parties[i].parent /\ Parent(i) \in Present(parties)
            /\ \/ parties[i].type = "department" /\ parties[Parent(i)].type = "organisation"
               \/ /\ parties[i].type = "person"
                  /\ parties[Parent(i)].type \in {"organisation", "department"}
  BY <1>1 DEF Parent, Attached, AllowedParents, Types
<1>3. CASE Parent(id) = None
  <2>1. Chain(id) = <<id>>  BY <1>3 DEF Chain
  <2> QED  BY <2>1 DEF MaxDepth
<1>4. CASE Parent(id) # None /\ Parent(Parent(id)) = None
  <2>1. Chain(id) = <<id, Parent(id)>>  BY <1>4 DEF Chain
  <2>2. parties[Parent(id)].type \in AllowedParents[parties[id].type]
    BY <1>2, <1>4 DEF AllowedParents
  <2> QED  BY <1>2, <1>4, <2>1, <2>2 DEF MaxDepth
<1>5. CASE Parent(id) # None /\ Parent(Parent(id)) # None
  <2>1. Parent(id) \in Present(parties) /\ Parent(Parent(id)) \in Present(parties)
    BY <1>2, <1>5
  <2>2. Parent(Parent(Parent(id))) = None  BY <1>2, <1>5, <2>1
  <2>3. Chain(id) = <<id, Parent(id), Parent(Parent(id))>>  BY <1>5, <2>2 DEF Chain
  <2>4. /\ parties[Parent(id)].type \in AllowedParents[parties[id].type]
        /\ parties[Parent(Parent(id))].type \in AllowedParents[parties[Parent(id)].type]
    BY <1>2, <1>5, <2>1 DEF AllowedParents
  <2> QED  BY <2>1, <2>3, <2>4 DEF MaxDepth
<1> QED  BY <1>3, <1>4, <1>5

\* However edits of parents overlap, the tree stays a tree of three levels,
\* each of its own type.
THEOREM TreeHoldsItsShape == PartiesSpec => []OneLevelEach
<1>1. PartiesInit => TreeInv  BY TreeInit
<1>2. TreeInv /\ [PartiesNext]_partiesVars => TreeInv'  BY TreeStep
<1>3. TreeInv => OneLevelEach
  <2> SUFFICES ASSUME TreeInv, NEW id \in Present(parties)
               PROVE  /\ Len(Chain(id)) <= MaxDepth
                      /\ \A n \in 2..Len(Chain(id)) :
                            parties[Chain(id)[n]].type
                                \in AllowedParents[parties[Chain(id)[n - 1]].type]
    BY DEF OneLevelEach
  <2>1. Len(Chain(id)) \in 1..MaxDepth  BY ChainLevels
  <2>2. \A n \in 2..Len(Chain(id)) :
          parties[Chain(id)[n]].type \in AllowedParents[parties[Chain(id)[n - 1]].type]
    BY ChainLevels
  <2> QED  BY <2>1, <2>2 DEF MaxDepth
<1> QED  BY <1>1, <1>2, <1>3, PTL DEF PartiesSpec

-----------------------------------------------------------------------------
(* One request at a time.                                                  *)

LEMMA CalmInit == PartiesInit /\ overlaps = 0 => CalmInv
<1> SUFFICES ASSUME PartiesInit, overlaps = 0 PROVE CalmInv
  OBVIOUS
<1>1. Present(parties) = {}  BY DEF PartiesInit, Present
<1>2. \A r \in Requests : work[r].pc = "idle"  BY BlankTyped DEF PartiesInit
<1> QED  BY <1>1, <1>2 DEF CalmInv

\* A request that begins while all is calm is alone, with what it loaded.
LEMMA CalmLoads ==
    ASSUME TreeInv, CalmInv, NEW r \in Requests, NEW kind, NEW id, NEW seen \in Party,
           NEW new \in Party, Loads(r, kind, id, seen, new),
           kind \in {"update", "archive", "reactivate"} => seen = parties[id],
           kind \in {"archive", "reactivate"} =>
            new = [seen EXCEPT !.is_active = new.is_active],
           kind = "switch" /\ ~new.is_active => PartiesOverridingTo(id) = {}
    PROVE  CalmInv'
<1> DEFINE w == [pc |-> "open", kind |-> kind, id |-> id, seen |-> seen, new |-> new]
<1>1. w.pc = "open" /\ w.kind = kind /\ w.id = id /\ w.seen = seen /\ w.new = new
  OBVIOUS
<1>2. /\ work' = [work EXCEPT ![r] = w] /\ parties' = parties
      /\ overlaps' \in Nat
      /\ overlaps' = 0 => overlaps = 0 /\ \A q \in Requests : work[q].pc = "idle"
  BY DEF Loads, Begins, CalmInv
<1> HIDE DEF w
<1>3. \A q \in Requests : work'[q] = IF q = r THEN w ELSE work[q]
  BY <1>2 DEF TreeInv, PartiesTypeOK
<1>4. ASSUME Calm', NEW q \in Requests, work'[q].pc = "open"
      PROVE  /\ \A p \in Requests \ {q} : work'[p].pc = "idle"
             /\ work'[q].kind \in {"update", "archive", "reactivate"} =>
                  work'[q].seen = parties'[work'[q].id]
             /\ work'[q].kind \in {"archive", "reactivate"} =>
                  work'[q].new = [work'[q].seen EXCEPT !.is_active = work'[q].new.is_active]
             /\ work'[q].kind = "switch" /\ ~work'[q].new.is_active =>
                  Pinned(parties', work'[q].id) = {}
  <2>1. \A p \in Requests : work[p].pc = "idle"  BY <1>2, <1>4 DEF Calm
  <2>2. q = r /\ work'[q] = w  BY <1>3, <1>4, <2>1
  <2>3. \A p \in Requests \ {q} : work'[p].pc = "idle"  BY <1>3, <2>1, <2>2
  <2>4. PartiesOverridingTo(id) = Pinned(parties, id)  BY DEF PartiesOverridingTo, Pinned
  <2> QED  BY <1>1, <1>2, <2>2, <2>3, <2>4
<1> QED  BY <1>2, <1>4 DEF CalmInv

LEMMA CalmEditing ==
    ASSUME TreeInv, CalmInv, NEW r \in Requests, NEW id \in Present(parties),
           NEW kind \in {"update", "archive", "reactivate"}, NEW new \in Party,
           Editing(r, kind, id, new),
           kind # "update" => new = [parties[id] EXCEPT !.is_active = new.is_active]
    PROVE  CalmInv'
<1>1. parties[id] \in Party  BY RowsTyped DEF TreeInv
<1>2. Loads(r, kind, id, parties[id], new)  BY DEF Editing
<1> QED  BY <1>1, <1>2, CalmLoads

LEMMA CalmCreate ==
    ASSUME TreeInv, CalmInv, NEW r \in Requests, CreateParty(r)
    PROVE  CalmInv'
<1>1. PICK id \in Ids \ ({work[q].id : q \in Requests} \cup Present(parties)), type \in Types,
           parent \in Present(parties) \cup {None}, override \in Codes \cup {None},
           role \in PartyRoles, number \in Typed \cup {None} :
        Loads(r, "create", id, Blank,
              [Blank EXCEPT !.type = type, !.parent = parent, !.tax_override = override,
                            !.is_customer = role.is_customer,
                                !.is_supplier = role.is_supplier, !.party_number = number])
  BY DEF CreateParty
<1> DEFINE new == [Blank EXCEPT !.type = type, !.parent = parent, !.tax_override = override,
                                !.is_customer = role.is_customer,
                                !.is_supplier = role.is_supplier, !.party_number = number]
<1>2. parent \in Ids \cup {None}  BY DEF Present, TreeInv, PartiesTypeOK
<1>3. new \in Party  BY <1>2, BlankTyped, PartyInputsAssumption DEF Party
<1> HIDE DEF new
<1>4. Loads(r, "create", id, Blank, new)  BY <1>1 DEF new
<1> QED  BY <1>3, <1>4, BlankTyped, CalmLoads

LEMMA CalmUpdate ==
    ASSUME TreeInv, CalmInv, NEW r \in Requests, UpdateParty(r)
    PROVE  CalmInv'
<1>1. PICK id \in Present(parties) :
        \/ \E parent \in Present(parties) \cup {None} :
             Editing(r, "update", id, [parties[id] EXCEPT !.parent = parent])
        \/ \E override \in Codes \cup {None} :
             Editing(r, "update", id, [parties[id] EXCEPT !.tax_override = override])
        \/ Editing(r, "update", id, [parties[id] EXCEPT !.is_customer = ~@])
        \/ Editing(r, "update", id, [parties[id] EXCEPT !.is_supplier = ~@])
        \/ \E number \in Typed \cup {None} :
             Editing(r, "update", id, [parties[id] EXCEPT !.party_number = number])
  BY DEF UpdateParty
<1>2. parties[id] \in Party  BY RowsTyped DEF TreeInv
<1>3. Present(parties) \subseteq Ids  BY DEF Present, TreeInv, PartiesTypeOK
<1>4. ASSUME NEW parent \in Present(parties) \cup {None}
      PROVE  [parties[id] EXCEPT !.parent = parent] \in Party
  BY <1>2, <1>3 DEF Party
<1>5. ASSUME NEW override \in Codes \cup {None}
      PROVE  [parties[id] EXCEPT !.tax_override = override] \in Party
  BY <1>2 DEF Party
<1>6. /\ [parties[id] EXCEPT !.is_customer = ~@] \in Party
      /\ [parties[id] EXCEPT !.is_supplier = ~@] \in Party
  BY <1>2 DEF Party
<1>7. ASSUME NEW number \in Typed \cup {None}
      PROVE  [parties[id] EXCEPT !.party_number = number] \in Party
  BY <1>2, PartyInputsAssumption DEF Party
<1>8. ASSUME NEW new \in Party, Editing(r, "update", id, new)
      PROVE  CalmInv'
  BY <1>8, CalmEditing
<1>9. CASE \E parent \in Present(parties) \cup {None} :
             Editing(r, "update", id, [parties[id] EXCEPT !.parent = parent])
  BY <1>4, <1>8, <1>9
<1>10. CASE \E override \in Codes \cup {None} :
             Editing(r, "update", id, [parties[id] EXCEPT !.tax_override = override])
  BY <1>5, <1>8, <1>10
<1>11. CASE \/ Editing(r, "update", id, [parties[id] EXCEPT !.is_customer = ~@])
            \/ Editing(r, "update", id, [parties[id] EXCEPT !.is_supplier = ~@])
  BY <1>6, <1>8, <1>11
<1>12. CASE \E number \in Typed \cup {None} :
             Editing(r, "update", id, [parties[id] EXCEPT !.party_number = number])
  BY <1>7, <1>8, <1>12
<1> QED  BY <1>1, <1>9, <1>10, <1>11, <1>12

LEMMA CalmFlag ==
    ASSUME TreeInv, CalmInv, NEW r \in Requests, NEW kind \in {"archive", "reactivate"},
           NEW id \in Present(parties), NEW flag \in BOOLEAN,
           Editing(r, kind, id, [parties[id] EXCEPT !.is_active = flag])
    PROVE  CalmInv'
<1>1. parties[id] \in Party  BY RowsTyped DEF TreeInv
<1> DEFINE new == [parties[id] EXCEPT !.is_active = flag]
<1>2. new \in Party /\ new = [parties[id] EXCEPT !.is_active = new.is_active]
  BY <1>1 DEF Party
<1> HIDE DEF new
<1>3. Editing(r, kind, id, new)  BY DEF new
<1> QED  BY <1>2, <1>3, CalmEditing

LEMMA CalmSwitch ==
    ASSUME TreeInv, CalmInv, NEW r \in Requests, SwitchCode(r)
    PROVE  CalmInv'
<1>1. PICK code \in Codes :
        /\ code \in codes => PartiesOverridingTo(code) = {}
        /\ Loads(r, "switch", code, Blank, [Blank EXCEPT !.is_active = code \notin codes])
  BY DEF SwitchCode
<1> DEFINE new == [Blank EXCEPT !.is_active = code \notin codes]
<1>2. new \in Party /\ (new.is_active <=> code \notin codes)
  BY BlankTyped DEF Party
<1> HIDE DEF new
<1>3. Loads(r, "switch", code, Blank, new)  BY <1>1 DEF new
<1>4. ~new.is_active => PartiesOverridingTo(code) = {}  BY <1>1, <1>2
<1> QED  BY <1>2, <1>3, <1>4, BlankTyped, CalmLoads

\* A request that ends leaves nobody under way, if nobody overlapped.
LEMMA CalmEnds ==
    ASSUME TreeInv, CalmInv, NEW r \in Requests, work[r].pc = "open",
           work' = [work EXCEPT ![r] = IdleParty], overlaps' = overlaps
    PROVE  CalmInv'
<1>1. \A q \in Requests : work'[q] = IF q = r THEN IdleParty ELSE work[q]
  BY DEF TreeInv, PartiesTypeOK
<1>2. Calm => \A q \in Requests \ {r} : work[q].pc = "idle"  BY Zenon DEF CalmInv
<1>3. Calm' => \A q \in Requests : work'[q].pc = "idle"
  BY <1>1, <1>2, BlankTyped DEF Calm
<1> QED  BY <1>3 DEF CalmInv

LEMMA CalmSwitchSeries ==
    ASSUME CalmInv, SwitchSeries
    PROVE  CalmInv'
BY DEF SwitchSeries, CalmInv, Calm, Pinned, Present

LEMMA CalmStep ==
    ASSUME TreeInv, CalmInv, [PartiesNext]_partiesVars
    PROVE  CalmInv'
<1>1. CASE UNCHANGED partiesVars
  BY <1>1 DEF partiesVars, partyVars, CalmInv, Calm, Present, Pinned
<1>2. ASSUME NEW r \in Requests, CreateParty(r) PROVE CalmInv'  BY <1>2, CalmCreate
<1>3. ASSUME NEW r \in Requests, UpdateParty(r) PROVE CalmInv'  BY <1>3, CalmUpdate
<1>4. ASSUME NEW r \in Requests, ArchiveParty(r) PROVE CalmInv'
  BY <1>4, CalmFlag DEF ArchiveParty
<1>5. ASSUME NEW r \in Requests, ReactivateParty(r) PROVE CalmInv'
  BY <1>5, CalmFlag DEF ReactivateParty
<1>6. ASSUME NEW r \in Requests, SwitchCode(r) PROVE CalmInv'  BY <1>6, CalmSwitch
<1>7. ASSUME NEW r \in Requests, CommitParty(r) \/ CommitSwitch(r) \/ RollbackParty(r)
      PROVE  CalmInv'
  BY <1>7, CalmEnds DEF CommitParty, CommitSwitch, RollbackParty
<1> QED
  BY <1>1, <1>2, <1>3, <1>4, <1>5, <1>6, <1>7, CalmSwitchSeries DEF PartiesNext

LEMMA PartiesInvariant == PartiesSpec => []PartiesInv
<1>1. PartiesInit /\ overlaps = 0 => PartiesInv  BY TreeInit, CalmInit DEF PartiesInv
<1>2. PartiesInv /\ [PartiesNext]_partiesVars => PartiesInv'
  BY TreeStep, CalmStep DEF PartiesInv
<1> QED  BY <1>1, <1>2, PTL DEF PartiesSpec

\* Whatever a request does, it writes no row when it begins.
LEMMA LoadingChangesNoRow ==
    ASSUME NEW r \in Requests,
           \/ CreateParty(r) \/ UpdateParty(r) \/ ArchiveParty(r) \/ ReactivateParty(r)
           \/ SwitchCode(r)
    PROVE  parties' = parties /\ codes' = codes
<1>1. ASSUME NEW kind, NEW id, NEW seen, NEW new, Loads(r, kind, id, seen, new)
      PROVE  parties' = parties /\ codes' = codes
  BY <1>1 DEF Loads
<1>2. ASSUME NEW kind, NEW id, NEW new, Editing(r, kind, id, new)
      PROVE  parties' = parties /\ codes' = codes
  BY <1>1, <1>2 DEF Editing
<1>3. CASE CreateParty(r)  BY <1>1, <1>3, Zenon DEF CreateParty
<1>4. CASE UpdateParty(r)  BY <1>2, <1>4, Zenon DEF UpdateParty
<1>5. CASE ArchiveParty(r)  BY <1>2, <1>5, Zenon DEF ArchiveParty
<1>6. CASE ReactivateParty(r)  BY <1>2, <1>6, Zenon DEF ReactivateParty
<1>7. CASE SwitchCode(r)  BY <1>1, <1>7, Zenon DEF SwitchCode
<1> QED  BY <1>3, <1>4, <1>5, <1>6, <1>7

\* What NumberedUnlessMissing says of one party.
NumberedStep(id) ==
    LET now == parties'[id]
    IN /\ DocumentType(now) \in drawing /\ now.party_number = None =>
            /\ id \in Present(parties)
            /\ now = [parties[id] EXCEPT !.is_active = now.is_active]
       /\ id \in Present(parties) /\ now.party_number # parties[id].party_number =>
            \/ parties[id].party_number = None
            \/ \E r \in Requests :
                  /\ work[r].pc = "open" /\ work[r].id = id
                  /\ work[r].new.party_number # work[r].seen.party_number

\* A party whose row does not change keeps what it has.
LEMMA SameRowStep ==
    ASSUME TreeInv, NEW id \in Present(parties), parties'[id] = parties[id]
    PROVE  NumberedStep(id)
<1>1. parties[id] \in Party  BY RowsTyped DEF TreeInv
<1>2. parties[id] = [parties[id] EXCEPT !.is_active = parties[id].is_active]
  BY <1>1 DEF Party
<1> QED  BY <1>2 DEF NumberedStep

\* The row that lands: drawn for, typed for, or switched alone.
LEMMA NumberedCommit ==
    ASSUME PartiesInv, Calm, NEW r \in Requests, CommitParty(r),
           NEW id, id \in Present(parties')
    PROVE  NumberedStep(id)
<1> DEFINE w == work[r]
           row == Landing(work[r])
           drawn == <<DocumentType(w.new), counters[DocumentType(w.new)]>>
<1>1. /\ w.pc = "open" /\ w.kind # "switch" /\ w \in PartyWork /\ OpenInv(r)
      /\ parties' = [parties EXCEPT ![w.id] = row]
      /\ Draws(w) => counters[DocumentType(w.new)] <= MaxNumber
  BY DEF CommitParty, PartiesInv, TreeInv, PartiesTypeOK
<1>2. /\ w.id \in Ids /\ w.new \in Party /\ w.seen \in Party
      /\ w.kind \in {"create", "update", "archive", "reactivate"}
  BY <1>1 DEF OpenInv, PartyWork
<1>3. w.kind # "create" => w.id \in Present(parties) /\ w.seen = parties[w.id]
  BY <1>1, <1>2 DEF OpenInv, Present, PartiesInv, CalmInv, TreeInv, PartiesTypeOK
<1>4. row = IF Draws(w) THEN [w.new EXCEPT !.party_number = drawn] ELSE w.new
  <2>1. w.kind # "create" => Over(w.seen, w.new, parties[w.id]) = w.new
    BY <1>2, <1>3, OverWhatWasSeen
  <2> QED  BY <2>1 DEF Landing
<1>5. Draws(w) => drawn \in Numbers  BY <1>1, DrawsANumber DEF PartiesInv
<1>6. w.kind \in {"archive", "reactivate"} =>
        w.new = [w.seen EXCEPT !.is_active = w.new.is_active]
  BY <1>1 DEF PartiesInv, CalmInv
<1> HIDE DEF row, drawn
<1>7. Draws(w) => /\ row.party_number = drawn /\ drawn # None
                  /\ w.new.party_number = None
  BY <1>2, <1>4, <1>5, PartyNullAssumption DEF Party, Draws
<1>8. ~Draws(w) => row = w.new  BY <1>4
<1>9. ASSUME id = w.id PROVE NumberedStep(id)
  <2>1. parties'[id] = row
    BY <1>1, <1>2, <1>9 DEF PartiesInv, TreeInv, PartiesTypeOK
  <2>2. ASSUME DocumentType(row) \in drawing, row.party_number = None
        PROVE  /\ id \in Present(parties)
               /\ row = [parties[id] EXCEPT !.is_active = row.is_active]
    <3>1. ~Draws(w) /\ row = w.new  BY <1>7, <1>8, <2>2
    <3>2. w.kind \in {"archive", "reactivate"}  BY <1>2, <2>2, <3>1 DEF Draws
    <3> QED  BY <1>3, <1>6, <1>9, <3>1, <3>2
  <2>3. ASSUME id \in Present(parties), row.party_number # parties[id].party_number,
               parties[id].party_number # None
        PROVE  w.new.party_number # w.seen.party_number
    <3>1. w.kind # "create"  BY <1>1, <1>9, <2>3 DEF OpenInv, Present
    <3> QED  BY <1>3, <1>7, <1>8, <1>9, <2>3, <3>1
  <2> QED  BY <1>1, <1>9, <2>1, <2>2, <2>3 DEF NumberedStep
<1>10. ASSUME id # w.id PROVE NumberedStep(id)
  <2>1. parties'[id] = parties[id] /\ id \in Present(parties)
    BY <1>1, <1>10 DEF PartiesInv, TreeInv, PartiesTypeOK, Present
  <2> QED  BY <2>1, SameRowStep DEF PartiesInv
<1> QED  BY <1>9, <1>10

\* While requests come one at a time, who is created or edited as a customer
\* or a supplier while that series is active comes out with a number, and a
\* number in hand is kept until another or none is typed: whatever is retired,
\* replaced, archived and brought back in between (allocate_party_number and
\* its callers).
THEOREM RolesDrawNumbers == PartiesSpec => NumberedUnlessMissing
<1>1. ASSUME PartiesInv, [PartiesNext]_partiesVars, Calm, NEW id \in Present(parties')
      PROVE  NumberedStep(id)
  <2>1. ASSUME NEW r \in Requests, CommitParty(r) PROVE NumberedStep(id)
    BY <1>1, <2>1, NumberedCommit
  <2>2. CASE parties' = parties
    <3>1. id \in Present(parties) /\ parties'[id] = parties[id]  BY <1>1, <2>2
    <3> QED  BY <1>1, <3>1, SameRowStep DEF PartiesInv
  <2>3. parties' = parties \/ \E r \in Requests : CommitParty(r)
    BY <1>1, LoadingChangesNoRow
    DEF PartiesNext, partiesVars, partyVars, CommitSwitch, RollbackParty, SwitchSeries
  <2> QED  BY <2>1, <2>2, <2>3
<1>2. PartiesInv /\ [PartiesNext]_partiesVars =>
        [Calm => \A id \in Present(parties') : NumberedStep(id)]_<<partyVars, edits, overlaps>>
  BY <1>1
<1>3. PartiesSpec =>
        [][Calm => \A id \in Present(parties') :
              NumberedStep(id)]_<<partyVars, edits, overlaps>>
  BY <1>2, PartiesInvariant, PTL DEF PartiesSpec, partiesVars
<1> QED  BY <1>3 DEF NumberedUnlessMissing, NumberedStep

-----------------------------------------------------------------------------
(* Turning a code off.                                                     *)

LEMMA FirstOfFew ==
    ASSUME NEW S \in SUBSET (1..MaxDepth), S # {}
    PROVE  \E n \in S : \A m \in S : n <= m
<1>1. S \subseteq {1, 2, 3}  BY DEF MaxDepth
<1>2. CASE 1 \in S  BY <1>1, <1>2
<1>3. CASE 1 \notin S /\ 2 \in S  BY <1>1, <1>3
<1>4. CASE 1 \notin S /\ 2 \notin S
  <2>1. S = {3}  BY <1>1, <1>4
  <2> QED  BY <2>1
<1> QED  BY <1>2, <1>3, <1>4

\* What a party inherits is pinned on somebody in its chain.
LEMMA OverrideIsSomebodys ==
    ASSUME TreeInv, NEW id \in Present(parties), TaxOverride(id) # None
    PROVE  \E above \in Above(id) \cap Present(parties) :
              parties[above].tax_override = TaxOverride(id)
<1> DEFINE saying == {n \in DOMAIN Chain(id) : parties[Chain(id)[n]].tax_override # None}
           first == CHOOSE n \in saying : \A m \in saying : n <= m
<1>1. /\ Chain(id) \in Seq(Present(parties)) /\ Len(Chain(id)) \in 1..MaxDepth
      /\ DOMAIN Chain(id) = 1..Len(Chain(id))
  BY ChainLevels
<1>2. TaxOverride(id) = IF saying = {} THEN None ELSE parties[Chain(id)[first]].tax_override
  BY DEF TaxOverride
<1>3. saying # {} /\ saying \in SUBSET (1..MaxDepth)
  <2>1. saying # {}  BY <1>2
  <2>2. saying \subseteq DOMAIN Chain(id)  OBVIOUS
  <2> HIDE DEF saying
  <2>3. DOMAIN Chain(id) \subseteq 1..MaxDepth  BY <1>1 DEF MaxDepth
  <2> QED  BY <2>1, <2>2, <2>3
<1>4. \E n \in saying : \A m \in saying : n <= m
  <2> HIDE DEF saying
  <2> QED  BY <1>3, FirstOfFew
<1>5. first \in saying
  <2> HIDE DEF saying
  <2> QED  BY <1>4
<1> HIDE DEF first
<1>6. first \in DOMAIN Chain(id)  BY <1>5
<1>7. Chain(id)[first] \in Present(parties) /\ Chain(id)[first] \in Above(id)
  BY <1>1, <1>6 DEF Above
<1> QED  BY <1>2, <1>3, <1>7

\* While requests come one at a time, a code is turned off only when no party
\* that is active with everybody above it is priced by it: the switch asks who
\* is pinned to the code, and what is inherited is somebody's.
THEOREM SwitchingOffStrandsNobody == PartiesSpec => SwitchStrandsNobody
<1>1. ASSUME PartiesInv, [PartiesNext]_partiesVars, Calm, codes' # codes,
             NEW id \in Present(parties), Priceable(id, codes),
             \A above \in Above(id) : parties[above].is_active
      PROVE  Priceable(id, codes')
  <2>1. PICK r \in Requests : CommitSwitch(r)
    BY <1>1, LoadingChangesNoRow
    DEF PartiesNext, partiesVars, partyVars, CommitParty, RollbackParty, SwitchSeries
  <2>2. TreeInv /\ TaxOverride(id) \in {None} \cup codes  BY <1>1 DEF PartiesInv, Priceable
  <2>3. CASE TaxOverride(id) = None  BY <2>3 DEF Priceable
  <2>4. CASE work[r].new.is_active  BY <2>1, <2>2, <2>4 DEF CommitSwitch, Priceable
  <2>5. CASE ~work[r].new.is_active /\ TaxOverride(id) # None
    <3>1. Pinned(parties, work[r].id) = {}
      BY <1>1, <2>1, <2>5 DEF PartiesInv, CalmInv, CommitSwitch
    <3>2. PICK above \in Above(id) \cap Present(parties) :
              parties[above].tax_override = TaxOverride(id)
      BY <2>2, <2>5, OverrideIsSomebodys
    <3>3. parties[above].is_active  BY <1>1, <3>2
    <3>4. TaxOverride(id) # work[r].id  BY <3>1, <3>2, <3>3 DEF Pinned
    <3> QED  BY <2>1, <2>2, <2>5, <3>4 DEF CommitSwitch, Priceable
  <2> QED  BY <2>3, <2>4, <2>5
<1>2. PartiesInv /\ [PartiesNext]_partiesVars =>
        [Calm /\ codes' # codes =>
            \A id \in Present(parties) :
                (Priceable(id, codes) /\ \A above \in Above(id) : parties[above].is_active)
                    => Priceable(id, codes')]_<<partyVars, edits, overlaps>>
  BY <1>1
<1> QED
  BY <1>2, PartiesInvariant, PTL DEF PartiesSpec, SwitchStrandsNobody, partiesVars
-----------------------------------------------------------------------------
(* Recipients: searching the levels of a chain, and the rows of a level.   *)

recipientsVars == <<recipientVars, edits, overlaps>>

RecipientsSpec ==
    RecipientsInit /\ edits = 0 /\ overlaps = 0 /\ [][RecipientsNext]_recipientsVars

\* Some place is the first of those that are not empty.
LEMMA LeastPlace ==
    ASSUME NEW places, places \subseteq Nat, places # {}
    PROVE  \E n \in places : \A m \in places : n <= m
<1> DEFINE less == {pair \in Nat \X Nat : pair[1] < pair[2]}
<1>1. IsWellFoundedOn(less, Nat)  BY NatLessThanWellFounded DEF OpToRel
<1>2. \E n \in places : \A m \in places : <<m, n>> \notin less
  <2> HIDE DEF less
  <2> QED  BY <1>1, WFMin
<1>3. PICK n \in places : \A m \in places : <<m, n>> \notin less  BY <1>2
<1>4. \A m \in places : n <= m
  <2> SUFFICES ASSUME NEW m \in places PROVE n <= m  OBVIOUS
  <2>1. m \in Nat /\ n \in Nat  BY <1>3
  <2>2. m < n => <<m, n>> \in less  BY <2>1
  <2> HIDE DEF less
  <2> QED  BY <1>3, <2>1, <2>2
<1> QED  BY <1>3, <1>4

\* Nothing was found among the first k, or what was found comes first.
Found(values, nothing, k, what) ==
    \/ what = nothing /\ \A n \in 1..k : values[n] = nothing
    \/ \E n \in 1..k :
         /\ what = values[n] /\ values[n] # nothing
         /\ \A m \in 1..(n - 1) : values[m] = nothing

LEMMA FirstIs ==
    ASSUME NEW values, NEW k \in Nat, DOMAIN values = 1..k, NEW nothing
    PROVE  Found(values, nothing, k, First(values, nothing))
<1> DEFINE said == {n \in DOMAIN values : values[n] # nothing}
<1>1. CASE said = {}  BY <1>1 DEF First, Found
<1>2. CASE said # {}
  <2> DEFINE first == CHOOSE n \in said : \A m \in said : n <= m
  <2>1. said \subseteq Nat  OBVIOUS
  <2>2. First(values, nothing) = values[first]  BY <1>2 DEF First
  <2>3. first \in said /\ \A m \in said : first <= m
    <3> HIDE DEF said
    <3> QED  BY <1>2, <2>1, LeastPlace
  <2> HIDE DEF first
  <2>4. first \in 1..k /\ values[first] # nothing  BY <2>3
  <2>5. \A m \in 1..(first - 1) : values[m] = nothing  BY <2>3, <2>4
  <2> QED  BY <2>2, <2>4, <2>5 DEF Found
<1> QED  BY <1>1, <1>2

\* The same answers, behind one that says nothing.
Shifted(values, others, nothing, k) ==
    /\ k \in Nat /\ DOMAIN values = 1..(k + 1) /\ DOMAIN others = 1..k
    /\ values[1] = nothing
    /\ \A n \in 1..k : others[n] = values[n + 1]

LEMMA FirstShifts ==
    ASSUME NEW values, NEW others, NEW nothing, NEW k, Shifted(values, others, nothing, k)
    PROVE  First(values, nothing) = First(others, nothing)
<1>1. k \in Nat /\ DOMAIN values = 1..(k + 1) /\ DOMAIN others = 1..k /\ values[1] = nothing
  BY DEF Shifted
<1>2. \A n \in 1..k : others[n] = values[n + 1]  BY DEF Shifted
<1>3. Found(values, nothing, k + 1, First(values, nothing))
  <2>1. k + 1 \in Nat  BY <1>1
  <2> QED  BY <1>1, <2>1, FirstIs
<1>4. CASE First(others, nothing) = nothing /\ \A n \in 1..k : others[n] = nothing
  <2>1. ASSUME NEW n \in 1..(k + 1) PROVE values[n] = nothing
    <3>1. n # 1 => n - 1 \in 1..k /\ (n - 1) + 1 = n  BY <1>1
    <3> QED  BY <1>1, <1>2, <1>4, <3>1
  <2> QED  BY <1>3, <1>4, <2>1 DEF Found
<1>5. ASSUME NEW n \in 1..k, First(others, nothing) = others[n], others[n] # nothing,
             \A m \in 1..(n - 1) : others[m] = nothing
      PROVE  First(values, nothing) = First(others, nothing)
  <2>1. n \in Nat /\ n + 1 \in 1..(k + 1)  BY <1>1
  <2>2. values[n + 1] # nothing  BY <1>2, <1>5
  <2>3. PICK f \in 1..(k + 1) :
          /\ First(values, nothing) = values[f] /\ values[f] # nothing
          /\ \A m \in 1..(f - 1) : values[m] = nothing
    BY <1>3, <2>1, <2>2 DEF Found
  <2>4. f # 1  BY <1>1, <2>3
  <2>5. f \in Nat /\ f - 1 \in 1..k /\ (f - 1) + 1 = f  BY <1>1, <2>4
  <2>6. others[f - 1] = values[f]  BY <1>2, <2>5
  <2>7. f - 1 < n => f - 1 \in 1..(n - 1)  BY <2>1, <2>5
  <2>8. n + 1 < f => n + 1 \in 1..(f - 1)  BY <2>1, <2>5
  <2>9. ~(f - 1 < n) /\ ~(n + 1 < f)  BY <1>5, <2>2, <2>3, <2>6, <2>7, <2>8
  <2>10. f = n + 1  BY <2>1, <2>5, <2>9
  <2> QED  BY <1>2, <1>5, <2>3, <2>10
<1> QED  BY <1>1, <1>4, <1>5, FirstIs DEF Found

\* The number of a level is one of its numbers that may stand for it.
LEMMA PrimaryIs ==
    ASSUME NEW level, NEW S, level.tax_ids \in Seq(S)
    PROVE  \/ PrimaryTaxId(level) = None
           \/ \E m \in DOMAIN level.tax_ids :
                PrimaryTaxId(level) = level.tax_ids[m] /\ IsVatLike(level.tax_ids[m])
<1> DEFINE k == Len(level.tax_ids)
           marked == [n \in DOMAIN level.tax_ids |->
                        IF IsVatLike(level.tax_ids[n]) /\ level.tax_ids[n].is_primary
                        THEN level.tax_ids[n] ELSE None]
           oldest == [n \in DOMAIN level.tax_ids |->
                        IF IsVatLike(level.tax_ids[n]) THEN level.tax_ids[n] ELSE None]
<1>1. k \in Nat /\ DOMAIN level.tax_ids = 1..k  BY LenProperties
<1>2. PrimaryTaxId(level) = FirstOf(First(marked, None), First(oldest, None))
  BY DEF PrimaryTaxId, FirstRow
<1> HIDE DEF k
<1>3. \/ First(marked, None) = None
      \/ \E n \in 1..k : First(marked, None) = marked[n] /\ marked[n] # None
  <2>1. DOMAIN marked = 1..k  BY <1>1
  <2> HIDE DEF marked
  <2> QED  BY <1>1, <2>1, FirstIs DEF Found
<1>4. \/ First(oldest, None) = None
      \/ \E n \in 1..k : First(oldest, None) = oldest[n] /\ oldest[n] # None
  <2>1. DOMAIN oldest = 1..k  BY <1>1
  <2> HIDE DEF oldest
  <2> QED  BY <1>1, <2>1, FirstIs DEF Found
<1>5. \A n \in 1..k : marked[n] # None =>
        marked[n] = level.tax_ids[n] /\ IsVatLike(level.tax_ids[n])
  BY <1>1
<1>6. \A n \in 1..k : oldest[n] # None =>
        oldest[n] = level.tax_ids[n] /\ IsVatLike(level.tax_ids[n])
  BY <1>1
<1> HIDE DEF marked, oldest
<1> QED  BY <1>1, <1>2, <1>3, <1>4, <1>5, <1>6 DEF FirstOf

Answered(check) == check.status \notin {"unavailable", "not_configured"}

\* The answer that counts is a check with none after it that reached one.
LEMMA LatestIs ==
    ASSUME NEW id, id.checks \in Seq(Check)
    PROVE  \/ LatestCompleted(id) = None
           \/ \E k \in DOMAIN id.checks :
                /\ LatestCompleted(id) = id.checks[k] /\ Answered(id.checks[k])
                /\ \A later \in DOMAIN id.checks : later > k => ~Answered(id.checks[later])
<1> DEFINE k == Len(id.checks)
           newest == [n \in DOMAIN id.checks |-> id.checks[k + 1 - n]]
           done == [n \in DOMAIN newest |-> IF Answered(newest[n]) THEN newest[n] ELSE None]
<1>1. k \in Nat /\ DOMAIN id.checks = 1..k  BY LenProperties
<1>2. LatestCompleted(id) = First(done, None)  BY DEF LatestCompleted, FirstRow, Answered
<1>3. \A n \in 1..k : newest[n] = id.checks[k + 1 - n]  BY <1>1
<1>4. DOMAIN done = 1..k  BY <1>1
<1>5. \A n \in 1..k : done[n] = IF Answered(newest[n]) THEN newest[n] ELSE None
  BY <1>1
<1>6. \A n \in 1..k : id.checks[n] # None
  BY <1>1, ElementOfSeq, RecipientsAssumption
<1> HIDE DEF k, newest, done
<1>7. CASE First(done, None) = None  BY <1>2, <1>7
<1>8. ASSUME NEW n \in 1..k, First(done, None) = done[n], done[n] # None,
             \A m \in 1..(n - 1) : done[m] = None
      PROVE  \E f \in DOMAIN id.checks :
                /\ LatestCompleted(id) = id.checks[f] /\ Answered(id.checks[f])
                /\ \A later \in DOMAIN id.checks : later > f => ~Answered(id.checks[later])
  <2> DEFINE f == k + 1 - n
  <2>1. f \in 1..k  BY <1>1
  <2>2. done[n] = newest[n] /\ Answered(newest[n])  BY <1>5, <1>8
  <2>3. LatestCompleted(id) = id.checks[f] /\ Answered(id.checks[f])
    BY <1>2, <1>3, <1>8, <2>2
  <2>4. ASSUME NEW later \in 1..k, later > f PROVE ~Answered(id.checks[later])
    <3> DEFINE m == k + 1 - later
    <3>1. m \in 1..(n - 1) /\ m \in 1..k /\ k + 1 - m = later  BY <1>1, <2>4
    <3> HIDE DEF m
    <3>2. newest[m] = id.checks[later]  BY <1>3, <3>1
    <3> QED  BY <1>5, <1>6, <1>8, <3>1, <3>2
  <2> HIDE DEF f
  <2> QED  BY <1>1, <2>1, <2>3, <2>4
<1> QED  BY <1>1, <1>4, <1>7, <1>8, FirstIs DEF Found

\* The level the number comes from has one, and nothing below it has.
LEMMA NumberedIs ==
    ASSUME NEW c \in Seq(Level)
    PROVE  \/ NumberedLevel(c) = None
           \/ \E n \in DOMAIN c :
                /\ NumberedLevel(c) = c[n] /\ HasNumber(c[n])
                /\ \A outer \in 1..(n - 1) : ~HasNumber(c[outer])
<1> DEFINE k == Len(c)
           numbered == [n \in DOMAIN c |-> IF HasNumber(c[n]) THEN c[n] ELSE None]
<1>1. k \in Nat /\ DOMAIN c = 1..k  BY LenProperties
<1>2. NumberedLevel(c) = First(numbered, None)  BY DEF NumberedLevel, FirstRow
<1>3. DOMAIN numbered = 1..k  BY <1>1
<1>4. \A n \in 1..k : numbered[n] = (IF HasNumber(c[n]) THEN c[n] ELSE None) /\ c[n] # None
  BY <1>1, ElementOfSeq, RecipientsAssumption
<1> HIDE DEF k, numbered
<1>5. CASE First(numbered, None) = None  BY <1>2, <1>5
<1>6. ASSUME NEW n \in 1..k, First(numbered, None) = numbered[n], numbered[n] # None,
             \A m \in 1..(n - 1) : numbered[m] = None
      PROVE  /\ NumberedLevel(c) = c[n] /\ HasNumber(c[n])
             /\ \A outer \in 1..(n - 1) : ~HasNumber(c[outer])
  <2>1. numbered[n] = c[n] /\ HasNumber(c[n])  BY <1>4, <1>6
  <2>2. \A outer \in 1..(n - 1) : outer \in 1..k  BY <1>1
  <2> QED  BY <1>2, <1>4, <1>6, <2>1, <2>2
<1> QED  BY <1>1, <1>3, <1>5, <1>6, FirstIs DEF Found

-----------------------------------------------------------------------------
(* A level that says nothing shadows nothing.                              *)

\* No address of such a level will do.
LEMMA NothingPlaced ==
    ASSUME NEW level \in Level, SaysNothing(level)
    PROVE  ~HasAddress(level)
<1> DEFINE k == Len(level.addresses)
           default == [n \in DOMAIN level.addresses |->
                         IF level.addresses[n].is_default THEN level.addresses[n] ELSE None]
           oldest == [n \in DOMAIN level.addresses |-> level.addresses[n]]
<1>1. level.addresses \in Seq(Address)  BY DEF Level
<1>2. k \in Nat /\ DOMAIN level.addresses = 1..k  BY <1>1, LenProperties
<1>3. DefaultAddress(level) = FirstOf(First(default, None), First(oldest, None))
  BY DEF DefaultAddress, FirstRow
<1>4. \A n \in 1..k : ~level.addresses[n].placed  BY <1>2 DEF SaysNothing
<1>5. First(default, None) = None \/ ~First(default, None).placed
  <2>1. DOMAIN default = 1..k  BY <1>2
  <2>2. \A n \in 1..k : default[n] = None \/ default[n] = level.addresses[n]  BY <1>2
  <2> HIDE DEF default, oldest, k
  <2>3. Found(default, None, k, First(default, None))  BY <1>2, <2>1, FirstIs
  <2> QED  BY <1>4, <2>2, <2>3 DEF Found
<1>6. First(oldest, None) = None \/ ~First(oldest, None).placed
  <2>1. DOMAIN oldest = 1..k  BY <1>2
  <2>2. \A n \in 1..k : oldest[n] = level.addresses[n]  BY <1>2
  <2> HIDE DEF default, oldest, k
  <2>3. Found(oldest, None, k, First(oldest, None))  BY <1>2, <2>1, FirstIs
  <2> QED  BY <1>4, <2>2, <2>3 DEF Found
<1> HIDE DEF default, oldest
<1> QED  BY <1>3, <1>5, <1>6 DEF HasAddress, IsEmpty, FirstOf

LEMMA BlankHeadIsSkipped ==
    ASSUME NEW c \in Seq(Level), Len(c) > 1, SaysNothing(c[1]), c[2].level # "person"
    PROVE  TaxInputs(c) = TaxInputs(Tail(c))
<1> DEFINE k == Len(c) - 1
           rest == Tail(c)
<1>1. /\ k \in Nat /\ 1 \in 1..k /\ k + 1 = Len(c)
      /\ rest \in Seq(Level) /\ Len(rest) = k
      /\ \A n \in 1..k : rest[n] = c[n + 1]
  <2>1. Len(c) \in Nat  BY LenProperties
  <2>2. c # <<>>  BY <2>1, EmptySeq
  <2> QED  BY <2>1, <2>2, HeadTailProperties
<1>2. DOMAIN c = 1..(k + 1) /\ DOMAIN rest = 1..k  BY <1>1, LenProperties
<1>3. c[1] \in Level  BY <1>1, ElementOfSeq
<1> HIDE DEF k, rest
<1>4. NumberedLevel(c) = NumberedLevel(rest)
  <2> DEFINE here == [n \in DOMAIN c |-> IF HasNumber(c[n]) THEN c[n] ELSE None]
             above == [n \in DOMAIN rest |-> IF HasNumber(rest[n]) THEN rest[n] ELSE None]
  <2>1. NumberedLevel(c) = First(here, None) /\ NumberedLevel(rest) = First(above, None)
    BY DEF NumberedLevel, FirstRow
  <2>2. Shifted(here, above, None, k)
    BY <1>1, <1>2 DEF SaysNothing, Shifted
  <2> HIDE DEF here, above
  <2> QED  BY <2>1, <2>2, FirstShifts
<1>5. FirstRow(c, HasAddress) = FirstRow(rest, HasAddress)
  <2> DEFINE here == [n \in DOMAIN c |-> IF HasAddress(c[n]) THEN c[n] ELSE None]
             above == [n \in DOMAIN rest |-> IF HasAddress(rest[n]) THEN rest[n] ELSE None]
  <2>1. /\ FirstRow(c, HasAddress) = First(here, None)
        /\ FirstRow(rest, HasAddress) = First(above, None)
    BY DEF FirstRow
  <2>2. ~HasAddress(c[1])  BY <1>3, NothingPlaced
  <2>3. Shifted(here, above, None, k)
    BY <1>1, <1>2, <2>2 DEF Shifted
  <2> HIDE DEF here, above
  <2> QED  BY <2>1, <2>3, FirstShifts
<1>6. First([n \in DOMAIN c |-> c[n].tax_country], None)
          = First([n \in DOMAIN rest |-> rest[n].tax_country], None)
  <2> DEFINE here == [n \in DOMAIN c |-> c[n].tax_country]
             above == [n \in DOMAIN rest |-> rest[n].tax_country]
  <2>1. Shifted(here, above, None, k)
    BY <1>1, <1>2 DEF SaysNothing, Shifted
  <2> HIDE DEF here, above
  <2>2. First(here, None) = First(above, None)  BY <2>1, FirstShifts
  <2> QED  BY <2>2 DEF here, above
<1>7. First([n \in DOMAIN c |-> c[n].tax_override], None)
          = First([n \in DOMAIN rest |-> rest[n].tax_override], None)
  <2> DEFINE here == [n \in DOMAIN c |-> c[n].tax_override]
             above == [n \in DOMAIN rest |-> rest[n].tax_override]
  <2>1. Shifted(here, above, None, k)
    BY <1>1, <1>2 DEF SaysNothing, Shifted
  <2> HIDE DEF here, above
  <2>2. First(here, None) = First(above, None)  BY <2>1, FirstShifts
  <2> QED  BY <2>2 DEF here, above
<1>8. BusinessStatus(c) = BusinessStatus(rest)
  <2> DEFINE here == [n \in DOMAIN c |-> c[n].business_status]
             above == [n \in DOMAIN rest |-> rest[n].business_status]
  <2>1. Shifted(here, above, "auto", k)
    BY <1>1, <1>2 DEF SaysNothing, Shifted
  <2> HIDE DEF here, above
  <2>2. First(here, "auto") = First(above, "auto")  BY <2>1, FirstShifts
  <2> QED  BY <2>2 DEF here, above, BusinessStatus
<1>9. /\ \E n \in DOMAIN c : c[n].level # "person"
      /\ \E n \in DOMAIN rest : rest[n].level # "person"
  <2>1. 2 \in DOMAIN c /\ 1 \in DOMAIN rest /\ rest[1] = c[2]  BY <1>1, <1>2
  <2> QED  BY <2>1
<1>10. VatId(c) = VatId(rest) /\ VatVerified(c) = VatVerified(rest)
  BY <1>4 DEF VatId, VatVerified
<1>11. TaxCountry(c) = TaxCountry(rest)  BY <1>5, <1>6 DEF TaxCountry
<1>12. BuyerType(c) = BuyerType(rest)  BY <1>8, <1>9, <1>10 DEF BuyerType
<1> QED  BY <1>4, <1>7, <1>10, <1>11, <1>12 DEF TaxInputs, rest

-----------------------------------------------------------------------------
(* A sale without tax rests on a verified number.                          *)

\* Positions have a least one: where some rule matches, one of them answers.
LEMMA SomeRuleAnswers ==
    ASSUME UntaxedAreVerified, NEW context, Engine!FirstMatching(SellerRules, context) # None
    PROVE  LET rule == Engine!FirstMatching(SellerRules, context)
           IN rule \in SellerRules /\ Engine!Matches(rule, context)
<1> DEFINE matching == {rule \in SellerRules : rule.is_active /\ Engine!Matches(rule, context)}
           positions == {rule.position : rule \in matching}
           first == CHOOSE rule \in matching : \A other \in matching : rule.position <= other.position
<1>1. matching # {} /\ Engine!FirstMatching(SellerRules, context) = first
  BY DEF Engine!FirstMatching
<1>2. positions \subseteq Nat /\ positions # {}  BY <1>1 DEF UntaxedAreVerified
<1>3. \E rule \in matching : \A other \in matching : rule.position <= other.position
  <2>1. PICK least \in positions : \A n \in positions : least <= n
    <3> HIDE DEF positions
    <3> QED  BY <1>2, LeastPlace
  <2>2. PICK rule \in matching : rule.position = least  BY <2>1
  <2>3. \A other \in matching : other.position \in positions  OBVIOUS
  <2> HIDE DEF positions, matching
  <2> QED  BY <2>1, <2>2, <2>3
<1>4. first \in matching
  <2> HIDE DEF matching
  <2> QED  BY <1>3
<1> HIDE DEF first
<1> QED  BY <1>1, <1>4

LEMMA StatusIs ==
    ASSUME NEW c \in Seq(Level)
    PROVE  BusinessStatus(c) \in {"auto", "business", "private"}
<1> DEFINE k == Len(c)
           said == [n \in DOMAIN c |-> c[n].business_status]
<1>1. k \in Nat /\ DOMAIN c = 1..k /\ \A n \in 1..k : c[n] \in Level
  BY LenProperties, ElementOfSeq
<1>2. DOMAIN said = 1..k /\ \A n \in 1..k : said[n] \in {"auto", "business", "private"}
  BY <1>1 DEF Level
<1>3. BusinessStatus(c) = First(said, "auto")  BY DEF BusinessStatus
<1> HIDE DEF said, k
<1> QED  BY <1>1, <1>2, <1>3, FirstIs DEF Found

LEMMA UntaxedIsVerified ==
    ASSUME UntaxedAreVerified, NEW c \in Seq(Level), NEW supply_kind \in {"goods", "services"},
           TaxInputs(c).party_override = None, Preview(c, supply_kind).treatment \in Untaxed
    PROVE  VatVerified(c)
<1> DEFINE inputs == TaxInputs(c)
           in == [seller_country |-> SellerCountry, kleinunternehmer |-> FALSE,
                  buyer_country |-> inputs.buyer_country, buyer_type |-> inputs.buyer_type,
                  buyer_vat_verified |-> inputs.buyer_vat_verified, supply_kind |-> supply_kind,
                  item_class |-> "standard", item_override |-> None,
                  party_override |-> inputs.party_override]
           context == Engine!Context(in)
           rule == Engine!FirstMatching(SellerRules, context)
           by_rules == Engine!FromRules(in, SellerCodes, SellerClasses, SellerRulings)
           answer == Engine!Propose(in, SellerCodes, SellerClasses, SellerRulings)
<1>1. Preview(c, supply_kind) = answer  BY DEF Preview
<1>2. /\ in.item_override = None /\ in.party_override = None
      /\ in.buyer_type = BuyerType(c) /\ in.buyer_vat_verified = VatVerified(c)
      /\ in.kleinunternehmer = FALSE /\ in.supply_kind = supply_kind
  BY DEF TaxInputs
<1> HIDE DEF inputs, in
<1>3. context \in Engine!Contexts
  <2>1. BuyerType(c) \in Engine!BuyerTypes  BY StatusIs DEF BuyerType, Engine!BuyerTypes
  <2>2. Engine!Region(in.seller_country, in.buyer_country) \in Engine!Regions
    BY DEF Engine!Region, Engine!Regions
  <2>3. VatVerified(c) \in BOOLEAN  BY DEF VatVerified, VatIsVerified, ReliesOn
  <2>4. in.kleinunternehmer \in BOOLEAN /\ in.supply_kind \in Engine!SupplyKinds
    BY <1>2 DEF Engine!SupplyKinds
  <2> QED  BY <1>2, <2>1, <2>2, <2>3, <2>4 DEF Engine!Context, Engine!Contexts
<1>4. SellerRulings[context] = rule  BY <1>3 DEF SellerRulings, Engine!RulingsOf
<1>5. context.buyer_vat_verified = VatVerified(c)  BY <1>2 DEF Engine!Context
<1>6. ~Engine!Applies(in.item_override, in) /\ ~Engine!Applies(in.party_override, in)
  BY <1>2 DEF Engine!Applies
<1>7. answer = Engine!Blocked \/ answer = Engine!Combined(by_rules, by_rules, SellerCodes)
  BY <1>6 DEF Engine!Propose
<1> HIDE DEF context, rule, answer
<1>8. by_rules.treatment = IF rule = None THEN None ELSE rule.treatment
  BY <1>4 DEF Engine!FromRules, Engine!Outcome, context
<1> HIDE DEF by_rules
<1>9. answer.treatment \in {None, by_rules.treatment}
  BY <1>7 DEF Engine!Combined, Engine!Blocked
<1>10. rule # None /\ rule.treatment \in Untaxed
  BY <1>1, <1>8, <1>9, RecipientsAssumption
<1>11. rule \in SellerRules /\ Engine!Matches(rule, context)
  BY <1>10, SomeRuleAnswers DEF rule
<1>12. /\ "buyer_vat_verified" \in DOMAIN rule.conditions
       /\ rule.conditions["buyer_vat_verified"]
  BY <1>10, <1>11 DEF UntaxedAreVerified
<1>13. context["buyer_vat_verified"] = rule.conditions["buyer_vat_verified"]
  BY <1>11, <1>12 DEF Engine!Matches
<1> QED  BY <1>5, <1>12, <1>13

\* What is on file about a number is about that very number, and it was the
\* register that said it is valid, or a person.
Honest(id) ==
    \A k \in DOMAIN id.checks :
        /\ id.checks[k].vat_id = id.value
        /\ id.checks[k].status = "valid" =>
              Confirms(id.checks[k]) \/ id.checks[k].provider = "manual"

HonestIds == {id \in TaxId : Honest(id)}
HonestLevels == {level \in Level : level.tax_ids \in Seq(HonestIds)}

LEMMA VerifiedIsProved ==
    ASSUME NEW c \in Seq(HonestLevels), VatVerified(c)
    PROVE  Proved(c)
<1>1. c \in Seq(Level)  BY SeqMonotonic DEF HonestLevels
<1>2. NumberedLevel(c) # None /\ VatIsVerified(NumberedLevel(c))  BY DEF VatVerified
<1>3. PICK n \in DOMAIN c :
        /\ NumberedLevel(c) = c[n] /\ HasNumber(c[n])
        /\ \A outer \in 1..(n - 1) : ~HasNumber(c[outer])
  BY <1>1, <1>2, NumberedIs
<1> DEFINE level == c[n]
           id == PrimaryTaxId(level)
           check == LatestCompleted(id)
<1>4. level \in Level /\ level.tax_ids \in Seq(HonestIds)
  BY LenProperties, ElementOfSeq DEF HonestLevels
<1>5. id # None /\ ReliesOn(id, check)  BY <1>2, <1>3 DEF VatIsVerified
<1>6. VatId(c) = id.value  BY <1>2, <1>3 DEF VatId
<1>7. PICK m \in DOMAIN level.tax_ids : id = level.tax_ids[m] /\ IsVatLike(level.tax_ids[m])
  BY <1>4, <1>5, PrimaryIs
<1>8. id \in TaxId /\ Honest(id)
  BY <1>4, <1>7, LenProperties, ElementOfSeq DEF HonestIds
<1>9. id.checks \in Seq(Check)  BY <1>8 DEF TaxId
<1>10. PICK k \in DOMAIN id.checks :
        /\ check = id.checks[k] /\ Answered(id.checks[k])
        /\ \A later \in DOMAIN id.checks : later > k => ~Answered(id.checks[later])
  BY <1>5, <1>9, LatestIs DEF ReliesOn
<1>11. /\ check.vat_id = id.value
       /\ check.status = "valid" => Confirms(check) \/ check.provider = "manual"
  BY <1>8, <1>10 DEF Honest
<1>12. /\ check.status = "valid" /\ ~check.stale
       /\ ~(check.provider = "manual" /\ KindOf[id.value] = "vat")
  BY <1>5 DEF ReliesOn
<1>13. id.is_active  BY <1>7 DEF IsVatLike
<1>14. \A later \in DOMAIN id.checks : later > k => id.checks[later].status \notin Completed
  BY <1>10 DEF Answered, Completed
<1>15. check.status \in Completed  BY <1>12 DEF Completed
<1> HIDE DEF id, check
<1>16. /\ id.value = VatId(c) /\ check.vat_id = VatId(c)
       /\ \/ Confirms(check)
          \/ check.provider = "manual" /\ KindOf[id.value] # "vat"
  <2>1. Confirms(check) \/ check.provider = "manual"  BY <1>11, <1>12, Zenon
  <2>2. check.provider = "manual" => KindOf[id.value] # "vat"  BY <1>12
  <2> QED  BY <1>6, <1>11, <2>1, <2>2, Zenon
<1>17. /\ level.tax_ids[m] = id /\ level.tax_ids[m].checks[k] = check
  BY <1>7, <1>10
<1>18. k \in DOMAIN level.tax_ids[m].checks  BY <1>10, <1>17
<1> QED  BY <1>3, <1>12, <1>13, <1>14, <1>15, <1>16, <1>17, <1>18 DEF Proved

\* A register is asked about the number, and "valid" is its own word.
LEMMA VerifyIs ==
    ASSUME NEW kind, NEW covered \in BOOLEAN, NEW exchanges \in Registry!Exchanges
    PROVE  LET answer == Registry!Verify(kind, covered, exchanges)
               reply == answer.response
           IN /\ answer.status \in Completed \cup {"unavailable", "not_configured"}
              /\ answer.provider \in {"vies", "abn", "none"}
              /\ reply \in Registry!Replies \cup {None}
              /\ answer.status = "valid" =>
                   /\ reply # None /\ reply.ok /\ reply.readable /\ reply.valid = TRUE
                   /\ answer.provider = "vies" => ~reply.failed
<1> DEFINE vies == [n \in 1..2 |-> Registry!ViesVerdict(exchanges[n])]
           abn == [n \in 1..2 |-> Registry!AbnVerdict(exchanges[n])]
           Fine(answer) ==
              /\ answer.status \in Completed \cup {"unavailable", "not_configured"}
              /\ answer.provider \in {"vies", "abn", "none"}
              /\ answer.response \in Registry!Replies \cup {None}
              /\ answer.status = "valid" =>
                   /\ answer.response # None /\ answer.response.ok /\ answer.response.readable
                   /\ answer.response.valid = TRUE
                   /\ answer.provider = "vies" => ~answer.response.failed
<1>1. \A n \in 1..2 : exchanges[n] \in Registry!Replies \cup {None}
  BY DEF Registry!Exchanges
<1>2. ASSUME NEW reply \in Registry!Replies, reply.valid # None
      PROVE  reply.valid = TRUE \/ reply.valid = FALSE
  BY <1>2 DEF Registry!Replies
<1>3. ASSUME NEW n \in 1..2 PROVE Fine(Registry!Answered(vies[n], "vies", exchanges[n]))
  <2>1. vies[n] = Registry!ViesVerdict(exchanges[n])  OBVIOUS
  <2>2. vies[n] \in {"valid", "invalid", "unavailable"}  BY <2>1 DEF Registry!ViesVerdict
  <2>3. vies[n] = "valid" =>
          /\ exchanges[n] # None /\ exchanges[n].ok /\ exchanges[n].readable
          /\ ~exchanges[n].failed /\ exchanges[n].valid # None /\ exchanges[n].valid
    BY <2>1 DEF Registry!ViesVerdict
  <2>4. vies[n] = "valid" => exchanges[n].valid = TRUE  BY <1>1, <1>2, <2>3
  <2> HIDE DEF vies
  <2> QED  BY <1>1, <2>2, <2>3, <2>4 DEF Registry!Answered, Completed
<1>4. ASSUME NEW n \in 1..2 PROVE Fine(Registry!Answered(abn[n], "abn", exchanges[n]))
  <2>1. abn[n] = Registry!AbnVerdict(exchanges[n])  OBVIOUS
  <2>2. abn[n] \in {"valid", "invalid", "unavailable", "not_configured"}
    BY <2>1 DEF Registry!AbnVerdict
  <2>3. abn[n] = "valid" =>
          /\ exchanges[n] # None /\ exchanges[n].ok /\ exchanges[n].readable
          /\ exchanges[n].valid # None /\ exchanges[n].valid
    BY <2>1 DEF Registry!AbnVerdict
  <2>4. abn[n] = "valid" => exchanges[n].valid = TRUE  BY <1>1, <1>2, <2>3
  <2> HIDE DEF abn
  <2> QED  BY <1>1, <2>2, <2>3, <2>4 DEF Registry!Answered, Completed
<1>5. Fine(Registry!CheckVat(exchanges))
  <2>1. PICK n \in 1..2 :
          Registry!CheckVat(exchanges) = Registry!Answered(vies[n], "vies", exchanges[n])
    BY DEF Registry!CheckVat, Registry!AfterRetry
  <2> HIDE DEF Fine, vies
  <2> QED  BY <1>3, <2>1
<1>6. Fine(Registry!Answered("not_configured", "abn", None))
    /\ Fine(Registry!Answered("not_checkable", "none", None))
  BY DEF Registry!Answered, Completed
<1>7. Fine(Registry!CheckAbn(exchanges))
  <2>1. \/ Registry!CheckAbn(exchanges) = Registry!Answered("not_configured", "abn", None)
        \/ \E n \in 1..2 :
             Registry!CheckAbn(exchanges) = Registry!Answered(abn[n], "abn", exchanges[n])
    BY DEF Registry!CheckAbn, Registry!AfterRetry
  <2> HIDE DEF Fine, abn
  <2> QED  BY <1>4, <1>6, <2>1
<1>8. Registry!Verify(kind, covered, exchanges)
        \in {Registry!CheckVat(exchanges), Registry!CheckAbn(exchanges),
             Registry!Answered("not_checkable", "none", None)}
  BY DEF Registry!Verify
<1>9. Fine(Registry!Verify(kind, covered, exchanges))
  <2> HIDE DEF Fine
  <2> QED  BY <1>5, <1>6, <1>7, <1>8
<1> QED  BY <1>9

-----------------------------------------------------------------------------
(* What every request leaves true of the levels of a recipient.            *)

\* Every level is of its type, everything on file honest, and nobody is above
\* a person.
RecipientsInv ==
    /\ levels \in Seq(HonestLevels)
    /\ \A n \in DOMAIN levels : n > 1 => levels[n].level # "person"

\* A change of each entry of a sequence.
LEMMA EachIn ==
    ASSUME NEW S, NEW T, NEW s \in Seq(S), NEW changed \in [DOMAIN s -> T]
    PROVE  changed \in Seq(T)
<1>1. Len(s) \in Nat /\ DOMAIN s = 1..Len(s)  BY LenProperties
<1> QED  BY <1>1, SeqDef

\* The flags of an identifier say nothing about the checks of it.
LEMMA FlagsAreFree ==
    ASSUME NEW id \in HonestIds, NEW primary \in BOOLEAN, NEW active \in BOOLEAN
    PROVE  /\ [id EXCEPT !.is_primary = primary] \in HonestIds
           /\ [id EXCEPT !.is_active = active] \in HonestIds
           /\ Retired(id) \in HonestIds
<1>1. id \in TaxId /\ Honest(id)  BY DEF HonestIds
<1>2. ASSUME NEW new \in TaxId, new.checks = id.checks, new.value = id.value
      PROVE  new \in HonestIds
  BY <1>1, <1>2 DEF HonestIds, Honest
<1>3. [id EXCEPT !.is_primary = primary] \in HonestIds
  <2> DEFINE new == [id EXCEPT !.is_primary = primary]
  <2>1. new \in TaxId /\ new.checks = id.checks /\ new.value = id.value  BY <1>1 DEF TaxId
  <2> HIDE DEF new
  <2>2. new \in HonestIds  BY <1>2, <2>1
  <2> QED  BY <2>2 DEF new
<1>4. [id EXCEPT !.is_active = active] \in HonestIds
  <2> DEFINE new == [id EXCEPT !.is_active = active]
  <2>1. new \in TaxId /\ new.checks = id.checks /\ new.value = id.value  BY <1>1 DEF TaxId
  <2> HIDE DEF new
  <2>2. new \in HonestIds  BY <1>2, <2>1
  <2> QED  BY <2>2 DEF new
<1>5. Retired(id) \in HonestIds
  <2> DEFINE new == Retired(id)
  <2>1. new \in TaxId /\ new.checks = id.checks /\ new.value = id.value
    BY <1>1 DEF TaxId, Retired
  <2> HIDE DEF new
  <2>2. new \in HonestIds  BY <1>2, <2>1
  <2> QED  BY <2>2 DEF new
<1> QED  BY <1>3, <1>4, <1>5

LEMMA NewIsHonest ==
    ASSUME NEW value \in TaxNumbers, NEW wanted \in BOOLEAN
    PROVE  NewTaxId(value, wanted) \in HonestIds
<1> DEFINE new == NewTaxId(value, wanted)
<1>1. /\ new.checks = <<>> /\ DOMAIN new.checks = {}
      /\ new = [value |-> value, is_primary |-> wanted, is_active |-> TRUE, checks |-> <<>>]
  BY DEF NewTaxId
<1>2. << >> \in Seq(Check)  BY EmptySeq
<1>3. new \in TaxId  BY <1>1, <1>2 DEF TaxId
<1> HIDE DEF new
<1>4. Honest(new)  BY <1>1 DEF Honest
<1>5. new \in HonestIds  BY <1>3, <1>4 DEF HonestIds
<1> QED  BY <1>5 DEF new

LEMMA ClearedIn ==
    ASSUME NEW ids \in Seq(HonestIds), NEW wanted, NEW kind
    PROVE  Cleared(ids, kind) \in Seq(HonestIds) /\ ClearedIf(wanted, ids, kind) \in Seq(HonestIds)
<1> DEFINE cleared == Cleared(ids, kind)
<1>1. DOMAIN ids = 1..Len(ids) /\ \A n \in DOMAIN ids : ids[n] \in HonestIds
  BY LenProperties, ElementOfSeq
<1>2. \A n \in DOMAIN ids : [ids[n] EXCEPT !.is_primary = FALSE] \in HonestIds
  BY <1>1, FlagsAreFree
<1>3. cleared \in [DOMAIN ids -> HonestIds]  BY <1>1, <1>2 DEF Cleared
<1> HIDE DEF cleared
<1>4. cleared \in Seq(HonestIds)  BY <1>3, EachIn
<1> QED  BY <1>4 DEF ClearedIf, cleared

\* One identifier of several is changed.
LEMMA OneChanged ==
    ASSUME NEW ids \in Seq(HonestIds), NEW n \in DOMAIN ids, NEW new \in HonestIds
    PROVE  [ids EXCEPT ![n] = new] \in Seq(HonestIds)
BY ExceptSeq, LenProperties

LEMMA IdAt ==
    ASSUME NEW ids \in Seq(HonestIds), NEW n \in DOMAIN ids
    PROVE  ids[n] \in HonestIds
BY LenProperties, ElementOfSeq

LEMMA LevelAt ==
    ASSUME RecipientsInv, NEW l \in DOMAIN levels
    PROVE  /\ levels[l] \in HonestLevels /\ levels[l] \in Level
           /\ levels[l].tax_ids \in Seq(HonestIds)
<1>1. levels[l] \in HonestLevels  BY LenProperties, ElementOfSeq DEF RecipientsInv
<1> QED  BY <1>1 DEF HonestLevels

LEMMA EditKeeps ==
    ASSUME RecipientsInv, NEW l \in DOMAIN levels, NEW new \in HonestLevels,
           new.level = levels[l].level, Edits(l, new)
    PROVE  RecipientsInv'
<1>1. levels' = [levels EXCEPT ![l] = new]  BY DEF Edits
<1>2. levels \in Seq(HonestLevels)  BY DEF RecipientsInv
<1>3. l \in 1..Len(levels)  BY <1>2, LenProperties
<1>4. levels' \in Seq(HonestLevels)  BY <1>1, <1>2, <1>3, ExceptSeq
<1>5. DOMAIN levels' = DOMAIN levels /\ \A n \in DOMAIN levels : levels'[n].level = levels[n].level
  BY <1>1
<1> QED  BY <1>4, <1>5 DEF RecipientsInv

\* A request about the identifiers leaves the rest of the level alone.
LEMMA NumbersKeep ==
    ASSUME RecipientsInv, NEW l \in DOMAIN levels, NEW ids \in Seq(HonestIds),
           Edits(l, [levels[l] EXCEPT !.tax_ids = ids])
    PROVE  RecipientsInv'
<1> DEFINE new == [levels[l] EXCEPT !.tax_ids = ids]
<1>1. levels[l] \in Level  BY LevelAt
<1>2. ids \in Seq(TaxId)  BY SeqMonotonic DEF HonestIds
<1>3. new \in Level /\ new.tax_ids = ids /\ new.level = levels[l].level
  BY <1>1, <1>2 DEF Level
<1> HIDE DEF new
<1>4. new \in HonestLevels  BY <1>3 DEF HonestLevels
<1>5. Edits(l, new)  BY DEF new
<1> QED  BY <1>3, <1>4, <1>5, EditKeeps

-----------------------------------------------------------------------------
(* The requests, one by one.                                               *)

LEMMA UpdateRecipientKeeps ==
    ASSUME RecipientsInv, NEW l \in DOMAIN levels, UpdateRecipient(l)
    PROVE  RecipientsInv'
<1> DEFINE level == levels[l]
<1>1. level \in Level /\ level.tax_ids \in Seq(HonestIds)  BY LevelAt
<1>2. ASSUME NEW new \in Level, new.tax_ids = level.tax_ids, new.level = level.level,
             Edits(l, new)
      PROVE  RecipientsInv'
  <2>1. new \in HonestLevels  BY <1>1, <1>2 DEF HonestLevels
  <2> QED  BY <1>2, <2>1, EditKeeps
<1>3. ASSUME NEW status \in {"auto", "business", "private"},
             Edits(l, [level EXCEPT !.business_status = status])
      PROVE  RecipientsInv'
  <2> DEFINE new == [level EXCEPT !.business_status = status]
  <2>1. new \in Level /\ new.tax_ids = level.tax_ids /\ new.level = level.level
    BY <1>1 DEF Level
  <2>2. Edits(l, new)  BY <1>3
  <2> HIDE DEF new
  <2> QED  BY <1>2, <2>1, <2>2
<1>4. ASSUME NEW country \in TaxCountries \cup {None},
             Edits(l, [level EXCEPT !.tax_country = country])
      PROVE  RecipientsInv'
  <2> DEFINE new == [level EXCEPT !.tax_country = country]
  <2>1. new \in Level /\ new.tax_ids = level.tax_ids /\ new.level = level.level
    BY <1>1 DEF Level
  <2>2. Edits(l, new)  BY <1>4
  <2> HIDE DEF new
  <2> QED  BY <1>2, <2>1, <2>2
<1>5. ASSUME NEW override \in {Override, None},
             Edits(l, [level EXCEPT !.tax_override = override])
      PROVE  RecipientsInv'
  <2> DEFINE new == [level EXCEPT !.tax_override = override]
  <2>1. new \in Level /\ new.tax_ids = level.tax_ids /\ new.level = level.level
    BY <1>1 DEF Level
  <2>2. Edits(l, new)  BY <1>5
  <2> HIDE DEF new
  <2> QED  BY <1>2, <2>1, <2>2
<1> QED  BY <1>3, <1>4, <1>5 DEF UpdateRecipient

LEMMA AddAddressKeeps ==
    ASSUME RecipientsInv, NEW l \in DOMAIN levels, AddAddress(l)
    PROVE  RecipientsInv'
<1> DEFINE level == levels[l]
           Kept(form) == [n \in DOMAIN level.addresses |->
                            IF form.is_default
                            THEN [level.addresses[n] EXCEPT !.is_default = FALSE]
                            ELSE level.addresses[n]]
           New(form) == [level EXCEPT !.addresses = Append(Kept(form), form)]
<1>1. /\ level \in Level /\ level.tax_ids \in Seq(HonestIds)
      /\ level.addresses \in Seq(Address)
  BY LevelAt DEF Level
<1>2. PICK form \in AddressForms : Edits(l, New(form))  BY DEF AddAddress
<1>3. form \in Address  BY <1>2, RecipientsAssumption
<1>4. \A n \in DOMAIN level.addresses : level.addresses[n] \in Address
  BY <1>1, LenProperties, ElementOfSeq
<1>5. Kept(form) \in Seq(Address)
  <2>1. \A n \in DOMAIN level.addresses :
          [level.addresses[n] EXCEPT !.is_default = FALSE] \in Address
    BY <1>4 DEF Address
  <2>2. Kept(form) \in [DOMAIN level.addresses -> Address]  BY <1>4, <2>1
  <2> HIDE DEF Kept
  <2> QED  BY <1>1, <2>2, EachIn
<1>6. Append(Kept(form), form) \in Seq(Address)  BY <1>3, <1>5, AppendProperties
<1> HIDE DEF Kept
<1>7. New(form) \in Level /\ New(form).tax_ids = level.tax_ids /\ New(form).level = level.level
  BY <1>1, <1>6 DEF Level
<1> HIDE DEF New
<1>8. New(form) \in HonestLevels  BY <1>1, <1>7 DEF HonestLevels
<1> QED  BY <1>2, <1>7, <1>8, EditKeeps

LEMMA CreateTaxIdKeeps ==
    ASSUME RecipientsInv, NEW l \in DOMAIN levels, CreateTaxId(l)
    PROVE  RecipientsInv'
<1> DEFINE ids == levels[l].tax_ids
<1>1. ids \in Seq(HonestIds)  BY LevelAt
<1>2. ASSUME NEW value \in TaxNumbers, NEW wanted \in BOOLEAN,
             Edits(l, [levels[l] EXCEPT !.tax_ids =
                Append(ClearedIf(wanted, @, KindOf[value]), NewTaxId(value, wanted))])
      PROVE  RecipientsInv'
  <2> DEFINE new == Append(ClearedIf(wanted, ids, KindOf[value]), NewTaxId(value, wanted))
  <2>1. new \in Seq(HonestIds)  BY <1>1, ClearedIn, NewIsHonest, AppendProperties
  <2>2. Edits(l, [levels[l] EXCEPT !.tax_ids = new])  BY <1>2
  <2> HIDE DEF new
  <2> QED  BY <2>1, <2>2, NumbersKeep
<1>3. ASSUME NEW value \in TaxNumbers, NEW asked \in {TRUE, FALSE, None}, NEW n \in DOMAIN ids,
             Edits(l, [levels[l] EXCEPT !.tax_ids =
                LET revived == [ids EXCEPT ![n].is_active = TRUE]
                IN IF asked = TRUE
                   THEN [Cleared(revived, KindOf[value]) EXCEPT ![n].is_primary = TRUE]
                   ELSE revived])
      PROVE  RecipientsInv'
  <2> DEFINE back == [ids[n] EXCEPT !.is_active = TRUE]
             revived == [ids EXCEPT ![n] = back]
             cleared == Cleared(revived, KindOf[value])
             marked == [cleared[n] EXCEPT !.is_primary = TRUE]
             chosen == [cleared EXCEPT ![n] = marked]
             new == IF asked = TRUE THEN chosen ELSE revived
  <2>1. Edits(l, [levels[l] EXCEPT !.tax_ids = new])  BY <1>3
  <2>2. back \in HonestIds  BY <1>1, IdAt, FlagsAreFree
  <2>3. revived \in Seq(HonestIds) /\ DOMAIN revived = DOMAIN ids  BY <1>1, <2>2, OneChanged
  <2>4. cleared \in Seq(HonestIds) /\ DOMAIN cleared = DOMAIN ids
    <3>1. DOMAIN cleared = DOMAIN revived  BY DEF Cleared
    <3> HIDE DEF revived
    <3> QED  BY <2>3, <3>1, ClearedIn
  <2> HIDE DEF revived, cleared
  <2>5. marked \in HonestIds  BY <2>4, IdAt, FlagsAreFree
  <2> HIDE DEF marked
  <2>6. chosen \in Seq(HonestIds)  BY <2>4, <2>5, OneChanged
  <2>7. new \in Seq(HonestIds)  BY <2>3, <2>6
  <2> HIDE DEF new
  <2> QED  BY <2>1, <2>7, NumbersKeep
<1>4. PICK value \in TaxNumbers, asked \in {TRUE, FALSE, None} :
        \/ LET first == KindOf[value] \in VatLike /\ PrimaryTaxId(levels[l]) = None
               wanted == IF asked = None THEN first ELSE asked
           IN Edits(l, [levels[l] EXCEPT !.tax_ids =
                Append(ClearedIf(wanted, @, KindOf[value]), NewTaxId(value, wanted))])
        \/ \E n \in DOMAIN ids :
             LET revived == [ids EXCEPT ![n].is_active = TRUE]
             IN Edits(l, [levels[l] EXCEPT !.tax_ids =
                  IF asked = TRUE
                  THEN [Cleared(revived, KindOf[value]) EXCEPT ![n].is_primary = TRUE]
                  ELSE revived])
  BY DEF CreateTaxId
<1>5. (IF asked = None THEN KindOf[value] \in VatLike /\ PrimaryTaxId(levels[l]) = None
       ELSE asked) \in BOOLEAN
  <2>1. CASE asked = None  BY <2>1
  <2>2. CASE asked # None
    <3>1. asked \in BOOLEAN  BY <1>4, <2>2, Zenon
    <3> QED  BY <2>2, <3>1, Zenon
  <2> QED  BY <2>1, <2>2
<1> QED  BY <1>2, <1>3, <1>4, <1>5

LEMMA UpdateTaxIdKeeps ==
    ASSUME RecipientsInv, NEW l \in DOMAIN levels, UpdateTaxId(l)
    PROVE  RecipientsInv'
<1> DEFINE ids == levels[l].tax_ids
<1>1. ids \in Seq(HonestIds)  BY LevelAt
<1>2. PICK n \in DOMAIN ids :
        \/ \E value \in TaxNumbers \ {ids[n].value}, asked \in {TRUE, FALSE, None} :
             Edits(l, [levels[l] EXCEPT !.tax_ids =
                Replaced(@, n, value, IF asked = None THEN ids[n].is_primary ELSE asked)])
        \/ \E asked \in BOOLEAN \ {ids[n].is_primary} :
             Edits(l, [levels[l] EXCEPT !.tax_ids =
                [ClearedIf(asked, @, KindOf[ids[n].value]) EXCEPT ![n].is_primary = asked]])
  BY Zenon DEF UpdateTaxId
<1>3. ids[n] \in HonestIds /\ ids[n].is_primary \in BOOLEAN
  BY <1>1, IdAt DEF HonestIds, TaxId
<1>4. ASSUME NEW value \in TaxNumbers, NEW wanted \in BOOLEAN,
             Edits(l, [levels[l] EXCEPT !.tax_ids = Replaced(@, n, value, wanted)])
      PROVE  RecipientsInv'
  <2> DEFINE retired == [ids EXCEPT ![n] = Retired(ids[n])]
             new == Replaced(ids, n, value, wanted)
  <2>1. retired \in Seq(HonestIds)  BY <1>1, <1>3, FlagsAreFree, OneChanged
  <2>2. new = Append(ClearedIf(wanted, retired, KindOf[value]), NewTaxId(value, wanted))
    BY DEF Replaced
  <2>3. Edits(l, [levels[l] EXCEPT !.tax_ids = new])  BY <1>4
  <2> HIDE DEF retired, new
  <2>4. new \in Seq(HonestIds)  BY <2>1, <2>2, ClearedIn, NewIsHonest, AppendProperties
  <2> QED  BY <2>3, <2>4, NumbersKeep
<1>5. ASSUME NEW asked \in BOOLEAN,
             Edits(l, [levels[l] EXCEPT !.tax_ids =
                [ClearedIf(asked, @, KindOf[ids[n].value]) EXCEPT ![n].is_primary = asked]])
      PROVE  RecipientsInv'
  <2> DEFINE cleared == ClearedIf(asked, ids, KindOf[ids[n].value])
             marked == [cleared[n] EXCEPT !.is_primary = asked]
             new == [cleared EXCEPT ![n] = marked]
  <2>1. Edits(l, [levels[l] EXCEPT !.tax_ids = new])  BY <1>5
  <2>2. cleared \in Seq(HonestIds)  BY <1>1, ClearedIn
  <2>3. DOMAIN cleared = DOMAIN ids  BY DEF Cleared, ClearedIf
  <2> HIDE DEF cleared
  <2>4. marked \in HonestIds  BY <2>2, <2>3, IdAt, FlagsAreFree
  <2> HIDE DEF marked
  <2>5. new \in Seq(HonestIds)  BY <2>2, <2>3, <2>4, OneChanged
  <2> HIDE DEF new
  <2> QED  BY <2>1, <2>5, NumbersKeep
<1>6. ASSUME NEW asked \in {TRUE, FALSE, None}
      PROVE  (IF asked = None THEN ids[n].is_primary ELSE asked) \in BOOLEAN
  <2>1. CASE asked = None  BY <1>3, <2>1, Zenon
  <2>2. CASE asked # None
    <3>1. asked \in BOOLEAN  BY <2>2, Zenon
    <3> QED  BY <2>2, <3>1, Zenon
  <2> QED  BY <2>1, <2>2
<1>7. CASE \E value \in TaxNumbers \ {ids[n].value}, asked \in {TRUE, FALSE, None} :
             Edits(l, [levels[l] EXCEPT !.tax_ids =
                Replaced(@, n, value, IF asked = None THEN ids[n].is_primary ELSE asked)])
  <2>1. PICK value \in TaxNumbers, asked \in {TRUE, FALSE, None} :
             Edits(l, [levels[l] EXCEPT !.tax_ids =
                Replaced(@, n, value, IF asked = None THEN ids[n].is_primary ELSE asked)])
    BY <1>7, Zenon
  <2> DEFINE wanted == IF asked = None THEN ids[n].is_primary ELSE asked
  <2>2. wanted \in BOOLEAN  BY <1>6
  <2>3. Edits(l, [levels[l] EXCEPT !.tax_ids = Replaced(@, n, value, wanted)])  BY <2>1
  <2> HIDE DEF wanted
  <2> QED  BY <1>4, <2>2, <2>3
<1>8. CASE \E asked \in BOOLEAN \ {ids[n].is_primary} :
             Edits(l, [levels[l] EXCEPT !.tax_ids =
                [ClearedIf(asked, @, KindOf[ids[n].value]) EXCEPT ![n].is_primary = asked]])
  BY <1>5, <1>8, Zenon
<1> QED  BY <1>2, <1>7, <1>8, Zenon

LEMMA RetireTaxIdKeeps ==
    ASSUME RecipientsInv, NEW l \in DOMAIN levels, RetireTaxId(l) \/ ReactivateTaxId(l)
    PROVE  RecipientsInv'
<1> DEFINE ids == levels[l].tax_ids
<1>1. ids \in Seq(HonestIds)  BY LevelAt
<1>2. PICK n \in DOMAIN ids :
        \/ Edits(l, [levels[l] EXCEPT !.tax_ids = [ids EXCEPT ![n] = Retired(ids[n])]])
        \/ Edits(l, [levels[l] EXCEPT !.tax_ids =
                [ids EXCEPT ![n] = [ids[n] EXCEPT !.is_active = TRUE]]])
  BY DEF RetireTaxId, ReactivateTaxId
<1>3. /\ [ids EXCEPT ![n] = Retired(ids[n])] \in Seq(HonestIds)
      /\ [ids EXCEPT ![n] = [ids[n] EXCEPT !.is_active = TRUE]] \in Seq(HonestIds)
  BY <1>1, IdAt, FlagsAreFree, OneChanged
<1> HIDE DEF ids
<1> QED  BY <1>2, <1>3, NumbersKeep

\* An answer about the number it was asked about keeps the file honest.
LEMMA FiledIsHonest ==
    ASSUME NEW id \in HonestIds, NEW row \in Check, row.vat_id = id.value,
           row.status = "valid" => (Confirms(row) \/ row.provider = "manual")
    PROVE  [id EXCEPT !.checks = Append(id.checks, row)] \in HonestIds
<1> DEFINE k == Len(id.checks)
           filed == Append(id.checks, row)
           new == [id EXCEPT !.checks = filed]
<1>1. id \in TaxId /\ Honest(id) /\ id.checks \in Seq(Check)  BY DEF HonestIds, TaxId
<1>2. k \in Nat /\ DOMAIN id.checks = 1..k  BY <1>1, LenProperties
<1>3. /\ filed \in Seq(Check) /\ DOMAIN filed = 1..(k + 1)
      /\ \A n \in 1..k : filed[n] = id.checks[n]
      /\ filed[k + 1] = row
  BY <1>1, AppendProperties, LenProperties
<1> HIDE DEF filed, k
<1>4. new \in TaxId /\ new.checks = filed /\ new.value = id.value
  BY <1>1, <1>3 DEF TaxId
<1> HIDE DEF new
<1>5. ASSUME NEW n \in 1..(k + 1)
      PROVE  /\ filed[n].vat_id = id.value
             /\ filed[n].status = "valid" => (Confirms(filed[n]) \/ filed[n].provider = "manual")
  <2>1. CASE n \in 1..k  BY <1>1, <1>2, <1>3, <2>1 DEF Honest
  <2>2. CASE n = k + 1  BY <1>3, <2>2
  <2> QED  BY <1>2, <2>1, <2>2
<1>6. Honest(new)  BY <1>3, <1>4, <1>5 DEF Honest
<1>7. new \in HonestIds  BY <1>4, <1>6 DEF HonestIds
<1> QED  BY <1>7 DEF new, filed

LEMMA RecordedKeeps ==
    ASSUME RecipientsInv, NEW l \in DOMAIN levels, NEW n \in DOMAIN levels[l].tax_ids, NEW answer,
           answer.status \in Completed \cup {"unavailable", "not_configured"},
           answer.provider \in {"vies", "abn", "none", "manual"},
           answer.response \in Registry!Replies \cup {None},
           answer.status = "valid" =>
              (\/ answer.provider = "manual"
               \/ /\ answer.response # None /\ answer.response.ok /\ answer.response.readable
                  /\ answer.response.valid = TRUE
                  /\ answer.provider = "vies" => ~answer.response.failed),
           Recorded(l, n, answer)
    PROVE  RecipientsInv'
<1> DEFINE ids == levels[l].tax_ids
           row == [vat_id |-> ids[n].value, status |-> answer.status,
                   provider |-> answer.provider, response |-> answer.response, stale |-> FALSE]
           filed == [ids[n] EXCEPT !.checks = Append(ids[n].checks, row)]
           new == [ids EXCEPT ![n] = filed]
<1>1. ids \in Seq(HonestIds)  BY LevelAt
<1>2. ids[n] \in HonestIds /\ ids[n].value \in TaxNumbers
  BY <1>1, IdAt DEF HonestIds, TaxId
<1>3. Edits(l, [levels[l] EXCEPT !.tax_ids = new])  BY DEF Recorded
<1> HIDE DEF ids
<1>4. row \in Check /\ row.vat_id = ids[n].value  BY <1>2 DEF Check
<1>5. row.status = "valid" => (Confirms(row) \/ row.provider = "manual")
  BY DEF Confirms
<1> HIDE DEF row
<1>6. filed \in HonestIds  BY <1>2, <1>4, <1>5, FiledIsHonest
<1> HIDE DEF filed
<1>7. new \in Seq(HonestIds)  BY <1>1, <1>6, OneChanged DEF ids
<1> HIDE DEF new
<1> QED  BY <1>3, <1>7, NumbersKeep

LEMMA CheckTaxIdKeeps ==
    ASSUME RecipientsInv, NEW l \in DOMAIN levels, CheckTaxId(l)
    PROVE  RecipientsInv'
<1>1. PICK n \in DOMAIN levels[l].tax_ids, exchanges \in Heard :
        LET value == levels[l].tax_ids[n].value
        IN Recorded(l, n, Registry!Verify(KindOf[value], value \in Covered, exchanges))
  BY DEF CheckTaxId
<1> DEFINE value == levels[l].tax_ids[n].value
           kind == KindOf[value]
           covered == value \in Covered
           answer == Registry!Verify(kind, covered, exchanges)
<1>2. exchanges \in Registry!Exchanges  BY <1>1, RecipientsAssumption
<1>3. Recorded(l, n, answer)  BY <1>1
<1>4. covered \in BOOLEAN  OBVIOUS
<1> HIDE DEF kind, covered
<1>5. /\ answer.status \in Completed \cup {"unavailable", "not_configured"}
      /\ answer.provider \in {"vies", "abn", "none"}
      /\ answer.response \in Registry!Replies \cup {None}
      /\ answer.status = "valid" =>
           /\ answer.response # None /\ answer.response.ok /\ answer.response.readable
           /\ answer.response.valid = TRUE
           /\ answer.provider = "vies" => ~answer.response.failed
  BY <1>2, <1>4, VerifyIs
<1> HIDE DEF answer
<1>6. answer.provider \in {"vies", "abn", "none", "manual"}  BY <1>5
<1> QED  BY <1>3, <1>5, <1>6, RecordedKeeps

LEMMA ConfirmManuallyKeeps ==
    ASSUME RecipientsInv, NEW l \in DOMAIN levels, ConfirmManually(l)
    PROVE  RecipientsInv'
<1> DEFINE answer == Registry!Answered("valid", "manual", None)
<1>1. PICK n \in DOMAIN levels[l].tax_ids : Recorded(l, n, answer)  BY DEF ConfirmManually
<1>2. /\ answer.status = "valid" /\ answer.provider = "manual" /\ answer.response = None
      /\ answer.status \in Completed \cup {"unavailable", "not_configured"}
      /\ answer.provider \in {"vies", "abn", "none", "manual"}
      /\ answer.response \in Registry!Replies \cup {None}
  BY DEF Registry!Answered, Completed
<1> HIDE DEF answer
<1> QED  BY <1>1, <1>2, RecordedKeeps

\* Older answers say what they said.
LEMMA AgedIsHonest ==
    ASSUME NEW id \in HonestIds
    PROVE  Aged(id) \in HonestIds
<1> DEFINE aged == [k \in DOMAIN id.checks |-> [id.checks[k] EXCEPT !.stale = TRUE]]
           new == [id EXCEPT !.checks = aged]
<1>1. id \in TaxId /\ Honest(id) /\ id.checks \in Seq(Check)  BY DEF HonestIds, TaxId
<1>2. \A k \in DOMAIN id.checks : id.checks[k] \in Check
  BY <1>1, LenProperties, ElementOfSeq
<1>3. ASSUME NEW k \in DOMAIN id.checks
      PROVE  /\ aged[k] \in Check
             /\ aged[k].vat_id = id.checks[k].vat_id
             /\ aged[k].status = id.checks[k].status
             /\ aged[k].provider = id.checks[k].provider
             /\ aged[k].response = id.checks[k].response
  BY <1>2 DEF Check
<1>4. aged \in [DOMAIN id.checks -> Check]  BY <1>3
<1> HIDE DEF aged
<1>5. aged \in Seq(Check) /\ DOMAIN aged = DOMAIN id.checks  BY <1>1, <1>4, EachIn
<1>6. new \in TaxId /\ new.checks = aged /\ new.value = id.value
  BY <1>1, <1>5 DEF TaxId
<1> HIDE DEF new
<1>7. ASSUME NEW k \in DOMAIN aged
      PROVE  /\ aged[k].vat_id = new.value
             /\ aged[k].status = "valid" => (Confirms(aged[k]) \/ aged[k].provider = "manual")
  BY <1>1, <1>3, <1>5, <1>6 DEF Honest, Confirms
<1>8. Honest(new)  BY <1>6, <1>7 DEF Honest
<1>9. new \in HonestIds  BY <1>6, <1>8 DEF HonestIds
<1> QED  BY <1>9 DEF Aged, new, aged

LEMMA StalenessKeeps ==
    ASSUME RecipientsInv, AnswersGrowStale
    PROVE  RecipientsInv'
<1> DEFINE Older(level) == [level EXCEPT !.tax_ids = [n \in DOMAIN @ |-> Aged(@[n])]]
<1>1. levels' = [l \in DOMAIN levels |-> Older(levels[l])]  BY DEF AnswersGrowStale
<1>2. ASSUME NEW l \in DOMAIN levels
      PROVE  Older(levels[l]) \in HonestLevels /\ Older(levels[l]).level = levels[l].level
  <2> DEFINE ids == levels[l].tax_ids
             aged == [n \in DOMAIN ids |-> Aged(ids[n])]
  <2>1. levels[l] \in Level /\ ids \in Seq(HonestIds)  BY <1>2, LevelAt
  <2>2. \A n \in DOMAIN ids : Aged(ids[n]) \in HonestIds  BY <2>1, IdAt, AgedIsHonest
  <2>3. Older(levels[l]) = [levels[l] EXCEPT !.tax_ids = aged]  BY <2>1 DEF Level
  <2> HIDE DEF Older
  <2>4. aged \in [DOMAIN ids -> HonestIds]  BY <2>2
  <2> HIDE DEF aged
  <2>5. aged \in Seq(HonestIds)  BY <2>1, <2>4, EachIn
  <2>6. aged \in Seq(TaxId)  BY <2>5, SeqMonotonic DEF HonestIds
  <2>7. /\ Older(levels[l]) \in Level /\ Older(levels[l]).tax_ids = aged
        /\ Older(levels[l]).level = levels[l].level
    BY <2>1, <2>3, <2>6 DEF Level
  <2> QED  BY <2>5, <2>7 DEF HonestLevels
<1> HIDE DEF Older
<1>3. levels' \in [DOMAIN levels -> HonestLevels]  BY <1>1, <1>2
<1>4. levels' \in Seq(HonestLevels)
  <2>1. levels \in Seq(HonestLevels)  BY DEF RecipientsInv
  <2> QED  BY <1>3, <2>1, EachIn
<1>5. DOMAIN levels' = DOMAIN levels /\ \A n \in DOMAIN levels : levels'[n].level = levels[n].level
  BY <1>1, <1>2
<1> QED  BY <1>4, <1>5 DEF RecipientsInv

-----------------------------------------------------------------------------
(* The invariant, and what follows from it.                                *)

LEMMA RecipientsStartRight ==
    ASSUME RecipientsInit
    PROVE  RecipientsInv
<1>1. PICK chain \in Chains : levels = [n \in DOMAIN chain |-> BlankParty(chain[n])]
  BY DEF RecipientsInit
<1>2. /\ chain \in Seq(PartyTypes)
      /\ \A n \in DOMAIN chain : n > 1 => chain[n] # "person"
  BY <1>1, RecipientsAssumption
<1>3. \A n \in DOMAIN chain : chain[n] \in PartyTypes
  BY <1>2, LenProperties, ElementOfSeq
<1>4. ASSUME NEW type \in PartyTypes
      PROVE  BlankParty(type) \in HonestLevels /\ BlankParty(type).level = type
  <2>1. << >> \in Seq(Address) /\ << >> \in Seq(TaxId) /\ << >> \in Seq(HonestIds)
    BY EmptySeq
  <2> QED  BY <2>1 DEF BlankParty, HonestLevels, Level
<1>5. levels \in [DOMAIN chain -> HonestLevels]  BY <1>1, <1>3, <1>4
<1>6. levels \in Seq(HonestLevels)  BY <1>2, <1>5, EachIn
<1>7. \A n \in DOMAIN levels : levels[n].level = chain[n]  BY <1>1, <1>3, <1>4
<1> QED  BY <1>1, <1>2, <1>6, <1>7 DEF RecipientsInv

LEMMA RecipientsStep ==
    ASSUME RecipientsInv, [RecipientsNext]_recipientsVars
    PROVE  RecipientsInv'
<1>1. ASSUME NEW l \in DOMAIN levels,
             \/ UpdateRecipient(l) \/ AddAddress(l)
             \/ CreateTaxId(l) \/ UpdateTaxId(l) \/ RetireTaxId(l) \/ ReactivateTaxId(l)
             \/ CheckTaxId(l) \/ ConfirmManually(l)
      PROVE  RecipientsInv'
  BY <1>1, UpdateRecipientKeeps, AddAddressKeeps, CreateTaxIdKeeps, UpdateTaxIdKeeps,
     RetireTaxIdKeeps, CheckTaxIdKeeps, ConfirmManuallyKeeps
<1>2. CASE UNCHANGED recipientsVars
  BY <1>2 DEF RecipientsInv, recipientsVars, recipientVars
<1> QED  BY <1>1, <1>2, StalenessKeeps DEF RecipientsNext

LEMMA RecipientsAlwaysInv == RecipientsSpec => []RecipientsInv
BY RecipientsStartRight, RecipientsStep, PTL DEF RecipientsSpec

LEMMA PartsAre ==
    ASSUME RecipientsInv, NEW c \in Parts
    PROVE  /\ c \in Seq(HonestLevels) /\ c \in Seq(Level)
           /\ Len(c) > 1 => c[2].level # "person"
<1> DEFINE k == Len(levels)
<1>1. levels \in Seq(HonestLevels) /\ k \in Nat /\ DOMAIN levels = 1..k
  BY LenProperties DEF RecipientsInv
<1>2. PICK n \in 1..k : c = SubSeq(levels, n, k)  BY <1>1 DEF Parts
<1>3. \A m \in 1..k : levels[m] \in HonestLevels  BY <1>1, ElementOfSeq
<1>4. \A m \in n..k : levels[m] \in HonestLevels  BY <1>1, <1>3
<1>5. n \in Int /\ k \in Int /\ n <= k  BY <1>1
<1> HIDE DEF k
<1>6. /\ c \in Seq(HonestLevels) /\ Len(c) = k - n + 1
      /\ \A m \in 1..(k - n + 1) : c[m] = levels[n + m - 1]
  BY <1>2, <1>4, <1>5, SubSeqProperties
<1>7. c \in Seq(Level)  BY <1>6, SeqMonotonic DEF HonestLevels
<1>8. Len(c) > 1 => c[2].level # "person"
  <2> SUFFICES ASSUME Len(c) > 1 PROVE c[2].level # "person"  OBVIOUS
  <2>1. 2 \in 1..(k - n + 1) /\ n + 2 - 1 = n + 1 /\ n + 1 \in 1..k /\ n + 1 > 1
    BY <1>1, <1>5, <1>6
  <2>2. c[2] = levels[n + 1]  BY <1>6, <2>1
  <2> QED  BY <1>1, <2>1, <2>2 DEF RecipientsInv
<1> QED  BY <1>6, <1>7, <1>8

\* Whatever the requests, registers and the clock do, every level keeps well
\* formed addresses, identifiers and answers (models/party.py, the routers).
THEOREM RecipientsTypeCorrect == RecipientsSpec => []RecipientsTypeOK
<1>1. RecipientsInv => RecipientsTypeOK
  BY SeqMonotonic DEF RecipientsInv, RecipientsTypeOK, HonestLevels
<1> QED  BY <1>1, RecipientsAlwaysInv, PTL

\* With rules that ask for a verified buyer, no sale goes without tax as one
\* to an EU business unless the number of the document is proved: by its
\* register in so many words, or by a person where no EU register knows it
\* (check_vat, record_check, vat_is_verified, resolve_recipient, propose_tax).
THEOREM SalesUntaxedAreProved ==
    ASSUME UntaxedAreVerified
    PROVE  RecipientsSpec => []NothingUntaxedUnproved
<1>1. ASSUME RecipientsInv PROVE NothingUntaxedUnproved
  <2> SUFFICES ASSUME NEW c \in Parts, NEW supply_kind \in {"goods", "services"},
                      TaxInputs(c).party_override = None,
                      Preview(c, supply_kind).treatment \in Untaxed
               PROVE  Proved(c)
    BY DEF NothingUntaxedUnproved
  <2>1. c \in Seq(HonestLevels) /\ c \in Seq(Level)  BY <1>1, PartsAre
  <2>2. VatVerified(c)  BY <2>1, UntaxedIsVerified
  <2> QED  BY <2>1, <2>2, VerifiedIsProved
<1> QED  BY <1>1, RecipientsAlwaysInv, PTL

\* A level that says nothing of its own is taxed like the one above it, at
\* any depth (resolve_recipient).  That nobody is above a person is needed:
\* under a person, a department for its name alone would make the buyer a
\* business (recipient_buyer_type).
THEOREM BlankLevelsAreTransparent == RecipientsSpec => []BlankLevelTransparent
<1>1. ASSUME RecipientsInv PROVE BlankLevelTransparent
  <2> SUFFICES ASSUME NEW c \in Parts, Len(c) > 1, SaysNothing(Head(c))
               PROVE  TaxInputs(c) = TaxInputs(Tail(c))
    BY DEF BlankLevelTransparent
  <2>1. c \in Seq(Level) /\ c[2].level # "person"  BY <1>1, PartsAre
  <2>2. SaysNothing(c[1])
    <3>1. c # << >> /\ Head(c) = c[1]  BY <2>1, EmptySeq, HeadTailProperties
    <3> QED  BY <3>1
  <2> QED  BY <2>1, <2>2, BlankHeadIsSkipped
<1> QED  BY <1>1, RecipientsAlwaysInv, PTL
=============================================================================
