------------------------- MODULE TaxConfigurationProofs -------------------------
(***************************************************************************)
(* What holds of a company's tax tables for any packs, codes, rates and    *)
(* requests, however they overlap: types, and what a user typed; and, of    *)
(* packs that agree the way those that ship do, that every sale is priced, *)
(* by the item's own rate unless there is a reason.                        *)
(***************************************************************************)
EXTENDS TaxConfiguration, WellFoundedInduction, TLAPS

-----------------------------------------------------------------------------
(* Packs.                                                                  *)

CodeEntry(entry) ==
    /\ entry.category \in Categories /\ entry.rate \in Rates /\ entry.rate \in Nat
    /\ entry.is_active \in BOOLEAN /\ entry.origin \in PackNames

ClassEntry(entry) == entry.is_active \in BOOLEAN /\ entry.origin \in PackNames

EntriesTyped(pack) ==
    /\ \A code \in DOMAIN pack.codes : CodeEntry(pack.codes[code])
    /\ \A key \in DOMAIN pack.classes : ClassEntry(pack.classes[key])
    /\ \A rule \in pack.rules : rule # None /\ rule.position \in Nat

\* What one file declares.
LEMMA DeclaredTyped ==
    ASSUME NEW name \in PackNames
    PROVE  /\ \A code \in DOMAIN CodesOf(RawPacks[name], name) :
                CodeEntry(CodesOf(RawPacks[name], name)[code])
           /\ \A key \in DOMAIN ClassesOf(RawPacks[name], name) :
                ClassEntry(ClassesOf(RawPacks[name], name)[key])
<1> DEFINE raw == RawPacks[name]
<1>1. ASSUME NEW code \in DOMAIN CodesOf(raw, name)
      PROVE  CodeEntry(CodesOf(raw, name)[code])
  <2>1. code \in DOMAIN raw.codes  BY <1>1 DEF CodesOf
  <2>2. raw.codes[code] \in [category: Categories, rate: Nat, is_active: BOOLEAN]
    BY <2>1, PackAssumption
  <2>3. raw.codes[code].rate \in Rates  BY <2>1 DEF Rates
  <2>4. CodesOf(raw, name)[code] = [category |-> raw.codes[code].category,
            rate |-> raw.codes[code].rate, is_active |-> raw.codes[code].is_active,
            origin |-> name]
    BY <2>1 DEF CodesOf
  <2> QED  BY <2>2, <2>3, <2>4 DEF CodeEntry
<1>2. ASSUME NEW key \in DOMAIN ClassesOf(raw, name)
      PROVE  ClassEntry(ClassesOf(raw, name)[key])
  <2>1. key \in DOMAIN raw.classes  BY <1>2 DEF ClassesOf
  <2>2. raw.classes[key].is_active \in BOOLEAN  BY <2>1, PackAssumption
  <2>3. ClassesOf(raw, name)[key] = [code |-> raw.classes[key].code,
            is_active |-> raw.classes[key].is_active, origin |-> name]
    BY <2>1 DEF ClassesOf
  <2> QED  BY <2>2, <2>3 DEF ClassEntry
<1> QED  BY <1>1, <1>2

\* Every entry of an overlay is the child's or the parent's.
LEMMA OverlaidEntries ==
    ASSUME NEW child, NEW parent, NEW kept \in SUBSET (DOMAIN child \cup DOMAIN parent),
           NEW key \in DOMAIN Restrict(Overlaid(child, parent), kept)
    PROVE  \/ key \in DOMAIN child /\ Restrict(Overlaid(child, parent), kept)[key] = child[key]
           \/ key \in DOMAIN parent /\ Restrict(Overlaid(child, parent), kept)[key] = parent[key]
<1>1. key \in kept /\ Restrict(Overlaid(child, parent), kept)[key] = Overlaid(child, parent)[key]
  BY DEF Restrict
<1>2. Overlaid(child, parent)[key] = IF key \in DOMAIN child THEN child[key] ELSE parent[key]
  BY <1>1 DEF Overlaid
<1> QED  BY <1>1, <1>2

\* A pack that inherits has typed entries when what it inherits has.
LEMMA MergedTyped ==
    ASSUME NEW name \in PackNames, NEW parent, EntriesTyped(parent)
    PROVE  EntriesTyped(Merged(parent, RawPacks[name], name))
<1> DEFINE raw == RawPacks[name]
           declared == CodesOf(raw, name)
           left == (DOMAIN raw.codes \cup DOMAIN parent.codes) \ raw.drop_codes
           codes == Restrict(Overlaid(declared, parent.codes), left)
           listed == ClassesOf(raw, name)
           classes == Overlaid(listed, parent.classes)
           kept == {key \in DOMAIN classes :
                       classes[key].code \in DOMAIN codes \/ classes[key].origin = name}
           pack == Merged(parent, raw, name)
<1>1. pack.codes = codes /\ pack.classes = Restrict(classes, kept)  BY DEF Merged
<1>2. DOMAIN declared = DOMAIN raw.codes  BY DEF CodesOf
<1>3. left \subseteq DOMAIN declared \cup DOMAIN parent.codes  BY <1>2
<1>4. DOMAIN classes = DOMAIN listed \cup DOMAIN parent.classes  BY DEF Overlaid
<1>5. kept \subseteq DOMAIN listed \cup DOMAIN parent.classes  BY <1>4
<1>6. /\ \A code \in DOMAIN declared : CodeEntry(declared[code])
      /\ \A key \in DOMAIN listed : ClassEntry(listed[key])
  BY DeclaredTyped
<1>10. \A rule \in pack.rules : rule # None /\ rule.position \in Nat
  <2>1. pack.rules = IF raw.rules = {} THEN parent.rules ELSE raw.rules  BY DEF Merged
  <2>2. \A rule \in raw.rules : rule # None /\ rule.position \in Nat  BY PackAssumption
  <2> HIDE DEF pack, raw
  <2> QED  BY <2>1, <2>2 DEF EntriesTyped
<1> HIDE DEF declared, left, listed, kept
<1>7. ASSUME NEW code \in DOMAIN codes PROVE CodeEntry(codes[code])
  <2>1. \/ code \in DOMAIN declared /\ codes[code] = declared[code]
        \/ code \in DOMAIN parent.codes /\ codes[code] = parent.codes[code]
    BY <1>3, <1>7, OverlaidEntries
  <2> QED  BY <1>6, <2>1 DEF EntriesTyped
<1>8. ASSUME NEW key \in DOMAIN Restrict(classes, kept)
      PROVE  ClassEntry(Restrict(classes, kept)[key])
  <2>1. \/ key \in DOMAIN listed /\ Restrict(classes, kept)[key] = listed[key]
        \/ key \in DOMAIN parent.classes /\ Restrict(classes, kept)[key] = parent.classes[key]
    BY <1>5, <1>8, OverlaidEntries
  <2> QED  BY <1>6, <2>1 DEF EntriesTyped
<1> HIDE DEF codes, classes, pack
<1>9. EntriesTyped(pack)  BY <1>1, <1>7, <1>8, <1>10 DEF EntriesTyped
<1> QED  BY <1>9 DEF pack

\* Packs that load over typed packs are typed and have passed the checks.
Loaded(pack) == EntriesTyped(pack) /\ WellFormed(pack)

LEMMA ResolvedLoads ==
    ASSUME NEW parents, \A name \in PackNames : parents[name] = None \/ Loaded(parents[name])
    PROVE  \A name \in PackNames :
              LoadedOver(parents)[name] = None \/ Loaded(LoadedOver(parents)[name])
<1> SUFFICES ASSUME NEW name \in PackNames, Resolved(name, parents) # None
             PROVE  Loaded(Resolved(name, parents))
  BY DEF LoadedOver
<1> DEFINE raw == RawPacks[name]
           parent == IF raw.extends \in PackNames THEN parents[raw.extends] ELSE None
           base == [codes |-> CodesOf(raw, name), classes |-> ClassesOf(raw, name),
                    rules |-> raw.rules]
           merged == Merged(parent, raw, name)
           pack == IF raw.extends = None THEN base ELSE merged
<1>1. /\ Resolved(name, parents) = pack /\ WellFormed(pack)
      /\ raw.extends # None => parent # None
  BY DEF Resolved
<1>2. parent # None => EntriesTyped(parent)  BY DEF Loaded
<1> HIDE DEF parent
<1>3. raw.extends # None => EntriesTyped(merged)  BY <1>1, <1>2, MergedTyped
<1>4. EntriesTyped(base)
  <2>1. base.codes = CodesOf(raw, name) /\ base.classes = ClassesOf(raw, name)
            /\ base.rules = raw.rules
    OBVIOUS
  <2>2. \A rule \in raw.rules : rule # None /\ rule.position \in Nat  BY PackAssumption
  <2> HIDE DEF base
  <2> QED  BY <2>1, <2>2, DeclaredTyped DEF EntriesTyped
<1> HIDE DEF base, merged
<1> QED  BY <1>1, <1>3, <1>4 DEF Loaded

\* The recursion is what it says, six files deep.
NoPacks == [name \in PackNames |-> None]

LEMMA LoadUnfolds ==
    Load = [depth \in 0..MaxExtendsDepth |->
               LoadedOver(IF depth < MaxExtendsDepth THEN Load[depth + 1] ELSE NoPacks)]
<1> DEFINE L5 == LoadedOver(NoPacks)
           L4 == LoadedOver(L5)
           L3 == LoadedOver(L4)
           L2 == LoadedOver(L3)
           L1 == LoadedOver(L2)
           L0 == LoadedOver(L1)
           load == [depth \in 0..5 |-> IF depth = 0 THEN L0 ELSE IF depth = 1 THEN L1
                       ELSE IF depth = 2 THEN L2 ELSE IF depth = 3 THEN L3
                       ELSE IF depth = 4 THEN L4 ELSE L5]
           Rest(depth) == IF depth < 5 THEN load[depth + 1] ELSE NoPacks
<1>1. \A depth \in 0..5 : load[depth] = LoadedOver(Rest(depth))
  <2>1. Rest(0) = L1 /\ Rest(1) = L2 /\ Rest(2) = L3 /\ Rest(3) = L4 /\ Rest(4) = L5
    <3> HIDE DEF L0, L1, L2, L3, L4, L5
    <3> QED  OBVIOUS
  <2>2. Rest(5) = NoPacks  OBVIOUS
  <2>3. \A depth \in 0..5 : depth \in {0, 1, 2, 3, 4, 5}  OBVIOUS
  <2>4. load[0] = L0 /\ load[1] = L1 /\ load[2] = L2 /\ load[3] = L3 /\ load[4] = L4
            /\ load[5] = L5
    <3> HIDE DEF L0, L1, L2, L3, L4, L5
    <3> QED  OBVIOUS
  <2> HIDE DEF load, Rest
  <2> QED  BY <2>1, <2>2, <2>3, <2>4
<1>2. load = [depth \in 0..5 |-> LoadedOver(Rest(depth))]
  <2>1. load = [depth \in 0..5 |-> load[depth]]  OBVIOUS
  <2> HIDE DEF load, Rest
  <2> QED  BY <1>1, <2>1
<1> DEFINE Fixed(f) == f = [depth \in 0..MaxExtendsDepth |->
               LoadedOver(IF depth < MaxExtendsDepth THEN f[depth + 1] ELSE NoPacks)]
<1>3. Fixed(load)  BY <1>2 DEF MaxExtendsDepth
<1>4. Load = CHOOSE f : Fixed(f)  BY DEF Load, NoPacks
<1> HIDE DEF load, Fixed
<1>5. Fixed(Load)  BY <1>3, <1>4
<1> QED  BY <1>5 DEF Fixed

\* A sound pack is typed and has passed the checks, whatever it extends.
LEMMA PacksLoad == \A name \in SoundPacks : Loaded(Pack(name))
<1> DEFINE Typed(packs) == \A name \in PackNames : packs[name] = None \/ Loaded(packs[name])
<1>1. \A depth \in 0..4 : Load[depth] = LoadedOver(Load[depth + 1])
  BY LoadUnfolds DEF MaxExtendsDepth
<1>2. Load[5] = LoadedOver(NoPacks)
  BY LoadUnfolds DEF MaxExtendsDepth
<1>3. Typed(NoPacks)  BY DEF NoPacks
<1>4. ASSUME NEW packs, Typed(packs) PROVE Typed(LoadedOver(packs))
  BY <1>4, ResolvedLoads
<1> HIDE DEF Typed
<1>5. Typed(Load[5])  BY <1>2, <1>3, <1>4
<1>6. Typed(Load[4])  BY <1>1, <1>4, <1>5
<1>7. Typed(Load[3])  BY <1>1, <1>4, <1>6
<1>8. Typed(Load[2])  BY <1>1, <1>4, <1>7
<1>9. Typed(Load[1])  BY <1>1, <1>4, <1>8
<1>10. Typed(Load[0])  BY <1>1, <1>4, <1>9
<1> QED  BY <1>10 DEF Typed, SoundPacks, Packs, Pack

\* What a row says of where it comes from.
CodeHome(code, row) == IF row.origin = None THEN code \in OwnCodes ELSE code \in PackCodes

ClassHome(key, row) ==
    IF row.origin = None THEN row.code \in OwnCodes
    ELSE \E name \in SoundPacks :
            key \in DOMAIN Pack(name).classes /\ Pack(name).classes[key].code = row.code

\* The rows a pack seeds.
LEMMA PackCodesSeed ==
    ASSUME NEW name \in SoundPacks, NEW code \in DOMAIN Pack(name).codes
    PROVE  LET entry == Pack(name).codes[code]
               row == SeededCode(entry)
           IN /\ code \in PackCodes /\ code \in Codes
              /\ row \in CodeRow /\ row # None /\ CodeHome(code, row) /\ row.origin # None
              /\ row.category = entry.category /\ row.rate = entry.rate
              /\ row.is_active = entry.is_active
<1> DEFINE entry == Pack(name).codes[code]
<1>1. code \in PackCodes /\ code \in Codes  BY DEF PackCodes, Codes
<1>2. CodeEntry(entry)  BY PacksLoad DEF Loaded, EntriesTyped
<1> HIDE DEF entry
<1>3. /\ SeededCode(entry) \in CodeRow /\ SeededCode(entry).origin \in PackNames
      /\ SeededCode(entry).category = entry.category /\ SeededCode(entry).rate = entry.rate
      /\ SeededCode(entry).is_active = entry.is_active
  BY <1>2 DEF SeededCode, CodeRow, CodeEntry
<1>4. SeededCode(entry).origin # None /\ SeededCode(entry) # None
  BY <1>3, ConfigurationAssumption, TaxNullAssumption
<1>5. CodeHome(code, SeededCode(entry))  BY <1>1, <1>4 DEF CodeHome
<1> QED  BY <1>1, <1>3, <1>4, <1>5 DEF entry

LEMMA PackClassesSeed ==
    ASSUME NEW name \in SoundPacks, NEW key \in DOMAIN Pack(name).classes
    PROVE  LET entry == Pack(name).classes[key]
               row == SeededClass(entry)
           IN /\ key \in Keys /\ entry.code \in DOMAIN Pack(name).codes /\ entry.code \in Codes
              /\ entry.code \in PackCodes /\ entry.is_active \in BOOLEAN
              /\ row \in ClassRow /\ row # None /\ ClassHome(key, row) /\ row.origin # None
              /\ row.code = entry.code /\ row.is_active = entry.is_active
<1> DEFINE entry == Pack(name).classes[key]
<1>1. key \in Keys  BY DEF PackKeys, Keys
<1>2. ClassEntry(entry) /\ entry.code \in DOMAIN Pack(name).codes
  BY PacksLoad DEF Loaded, EntriesTyped, WellFormed
<1>3. entry.code \in Codes /\ entry.code \in PackCodes  BY <1>2 DEF PackCodes, Codes
<1>4. entry = Pack(name).classes[key]  OBVIOUS
<1> HIDE DEF entry
<1>5. /\ SeededClass(entry) \in ClassRow /\ SeededClass(entry).origin \in PackNames
      /\ SeededClass(entry).code = entry.code /\ SeededClass(entry).is_active = entry.is_active
  BY <1>2, <1>3 DEF SeededClass, ClassRow, ClassEntry
<1>6. SeededClass(entry).origin # None /\ SeededClass(entry) # None
  BY <1>5, ConfigurationAssumption, TaxNullAssumption
<1>7. ClassHome(key, SeededClass(entry))  BY <1>4, <1>5, <1>6 DEF ClassHome
<1> QED  BY <1>1, <1>2, <1>3, <1>5, <1>6, <1>7 DEF entry, ClassEntry

\* Every country has a sound pack.
LEMMA PackOfIsSound == \A country \in Countries : PackOf[country] \in SoundPacks
<1> SUFFICES ASSUME NEW country \in Countries PROVE PackFor(country) \in SoundPacks
  BY DEF PackOf
<1> DEFINE naming == {name \in SoundPacks \ {GenericPack} : country \in RawPacks[name].countries}
<1>1. CASE naming = {}  BY <1>1, ConfigurationAssumption DEF PackFor
<1>2. CASE naming # {}
  <2>1. PackFor(country) = CHOOSE name \in naming : TRUE  BY <1>2 DEF PackFor
  <2>2. PackFor(country) \in naming  BY <1>2, <2>1
  <2> QED  BY <2>2
<1> QED  BY <1>1, <1>2

-----------------------------------------------------------------------------
(* Tables.                                                                 *)

\* A class points at a code that is there, rows come from where they say, and
\* rules come with a country.
Whole(t) ==
    /\ t \in Tables
    /\ t.rules # None => t.rules \in SoundPacks /\ t.country # None
    /\ \A code \in Codes : t.codes[code] # None => CodeHome(code, t.codes[code])
    /\ \A key \in Keys : t.classes[key] # None =>
          ClassHome(key, t.classes[key]) /\ t.codes[t.classes[key].code] # None

\* Nothing goes away, and no row changes hands.
Kept(t, new) ==
    /\ t.country # None => new.country # None
    /\ t.rules # None => new.rules # None
    /\ \A code \in Codes : t.codes[code] # None =>
          new.codes[code] # None /\ new.codes[code].origin = t.codes[code].origin
    /\ \A key \in Keys : t.classes[key] # None =>
          new.classes[key] # None /\ new.classes[key].origin = t.classes[key].origin

LEMMA KeptSelf == \A t : Kept(t, t)
BY DEF Kept

LEMMA KeptOn ==
    ASSUME NEW t, NEW u, NEW v, Kept(t, u), Kept(u, v)
    PROVE  Kept(t, v)
BY DEF Kept

LEMMA TablesTyped ==
    ASSUME NEW t \in Tables
    PROVE  /\ t.country \in Countries \cup {None} /\ t.rules \in PackNames \cup {None}
           /\ DOMAIN t.codes = Codes /\ DOMAIN t.classes = Keys
           /\ \A code \in Codes : t.codes[code] # None => t.codes[code] \in CodeRow
           /\ \A key \in Keys : t.classes[key] # None =>
                t.classes[key] \in ClassRow /\ t.classes[key].code \in Codes
           /\ t = [country |-> t.country, codes |-> t.codes, classes |-> t.classes,
                   rules |-> t.rules]
BY DEF Tables, ClassRow

\* What grows out of whole tables is whole when what is new in it has a home.
LEMMA GrownWhole ==
    ASSUME NEW t, Whole(t), NEW new \in Tables, Kept(t, new),
           new.rules # None => new.rules \in SoundPacks /\ new.country # None,
           \A code \in Codes : t.codes[code] = None /\ new.codes[code] # None =>
                CodeHome(code, new.codes[code]),
           \A key \in Keys : new.classes[key] # None =>
                \/ /\ t.classes[key] # None
                   /\ new.classes[key].code = t.classes[key].code
                \/ /\ ClassHome(key, new.classes[key])
                   /\ new.codes[new.classes[key].code] # None
    PROVE  Whole(new)
<1>1. t \in Tables /\ \A key \in Keys : t.classes[key] # None => t.classes[key].code \in Codes
  BY TablesTyped DEF Whole
<1>2. \A code \in Codes : new.codes[code] # None => CodeHome(code, new.codes[code])
  BY DEF Whole, Kept, CodeHome
<1>3. ASSUME NEW key \in Keys, new.classes[key] # None
      PROVE  ClassHome(key, new.classes[key]) /\ new.codes[new.classes[key].code] # None
  <2>1. CASE t.classes[key] # None /\ new.classes[key].code = t.classes[key].code
    <3>1. ClassHome(key, t.classes[key]) /\ t.codes[t.classes[key].code] # None
      BY <2>1 DEF Whole
    <3>2. new.classes[key].origin = t.classes[key].origin  BY <2>1 DEF Kept
    <3>3. new.codes[new.classes[key].code] # None  BY <1>1, <2>1, <3>1 DEF Kept
    <3> QED  BY <2>1, <3>1, <3>2, <3>3 DEF ClassHome
  <2> QED  BY <1>3, <2>1
<1> QED  BY <1>2, <1>3 DEF Whole

LEMMA EmptyWhole ==
    /\ Empty \in Tables /\ Whole(Empty) /\ \A t : Kept(Empty, t)
    /\ Empty.country = None /\ Empty.rules = None
    /\ \A code \in Codes : Empty.codes[code] = None
    /\ \A key \in Keys : Empty.classes[key] = None
BY DEF Empty, Tables, Whole, Kept

-----------------------------------------------------------------------------
(* What a request works out.                                               *)

\* One row of a code replaced.
Replaced(t, code, row) == [t EXCEPT !.codes = [t.codes EXCEPT ![code] = row]]

LEMMA ReplacedParts ==
    ASSUME NEW t, Whole(t), NEW code \in Codes, t.codes[code] # None,
           NEW row \in CodeRow, row.origin = t.codes[code].origin
    PROVE  LET new == Replaced(t, code, row)
           IN /\ Whole(new) /\ Kept(t, new)
              /\ new.country = t.country /\ new.classes = t.classes /\ new.rules = t.rules
              /\ new.codes[code] = row
              /\ \A other \in Codes \ {code} : new.codes[other] = t.codes[other]
<1> DEFINE new == Replaced(t, code, row)
           codes == [t.codes EXCEPT ![code] = row]
<1>1. /\ t \in Tables /\ DOMAIN t.codes = Codes /\ t.codes \in [Codes -> CodeRow \cup {None}]
  BY DEF Whole, Tables
<1>2. /\ codes \in [Codes -> CodeRow \cup {None}] /\ codes[code] = row
      /\ \A other \in Codes \ {code} : codes[other] = t.codes[other]
  BY <1>1
<1>3. new = [t EXCEPT !.codes = codes]  BY DEF Replaced
<1> HIDE DEF codes, new
<1>4. /\ new \in Tables /\ new.codes = codes
      /\ new.country = t.country /\ new.classes = t.classes /\ new.rules = t.rules
  BY <1>1, <1>2, <1>3 DEF Tables
<1>5. row # None  BY TaxNullAssumption
<1>6. Kept(t, new)  BY <1>2, <1>4, <1>5 DEF Kept
<1>7. Whole(new)
  <2>1. \A c \in Codes : t.codes[c] = None => new.codes[c] = None  BY <1>2, <1>4
  <2> QED  BY <1>4, <1>6, <2>1, GrownWhole DEF Whole
<1> QED  BY <1>2, <1>4, <1>6, <1>7 DEF new

\* A rate retired or brought back.
SwitchedFrom(t, key, code, active, new) ==
    /\ Whole(new) /\ Kept(t, new) /\ code \in Codes /\ t.codes[code] # None
    /\ new.country = t.country /\ new.rules = t.rules
    /\ new.codes[code] = [t.codes[code] EXCEPT !.is_active = active]
    /\ \A other \in Codes \ {code} : new.codes[other] = t.codes[other]
    /\ new.classes[key] = [t.classes[key] EXCEPT !.is_active = active]
    /\ \A other \in Keys \ {key} : new.classes[other] = t.classes[other]

LEMMA SwitchedParts ==
    ASSUME NEW t, Whole(t), NEW key \in Keys, t.classes[key] # None, NEW active \in BOOLEAN
    PROVE  SwitchedFrom(t, key, t.classes[key].code, active, Switched(t, key, active))
<1> DEFINE new == Switched(t, key, active)
           code == t.classes[key].code
           line == [t.classes[key] EXCEPT !.is_active = active]
           row == [t.codes[code] EXCEPT !.is_active = active]
           classes == [t.classes EXCEPT ![key] = line]
           codes == [t.codes EXCEPT ![code] = row]
<1>1. /\ t \in Tables /\ DOMAIN t.codes = Codes /\ t.codes \in [Codes -> CodeRow \cup {None}]
      /\ t.classes \in [Keys -> ClassRow \cup {None}]
  BY DEF Whole, Tables
<1>2. t.classes[key] \in ClassRow /\ code \in Codes  BY <1>1, TablesTyped
<1>3. t.codes[code] # None  BY DEF Whole
<1>4. t.codes[code] \in CodeRow  BY <1>1, <1>2, <1>3
<1>5. new = [t EXCEPT !.classes = classes, !.codes = codes]  BY <1>1 DEF Switched, Tables
<1>6. code = t.classes[key].code  OBVIOUS
<1> HIDE DEF code
<1>7. /\ line \in ClassRow /\ line.code = code /\ line.origin = t.classes[key].origin
  BY <1>2, <1>6 DEF ClassRow
<1>8. row \in CodeRow /\ row.origin = t.codes[code].origin  BY <1>4 DEF CodeRow
<1>9. line # None /\ row # None  BY <1>7, <1>8, TaxNullAssumption
<1>10. /\ line = [t.classes[key] EXCEPT !.is_active = active]
       /\ row = [t.codes[code] EXCEPT !.is_active = active]
  OBVIOUS
<1> HIDE DEF line, row
<1>11. /\ codes \in [Codes -> CodeRow \cup {None}] /\ codes[code] = row
       /\ \A other \in Codes \ {code} : codes[other] = t.codes[other]
       /\ classes \in [Keys -> ClassRow \cup {None}] /\ classes[key] = line
       /\ \A other \in Keys \ {key} : classes[other] = t.classes[other]
  BY <1>1, <1>2, <1>7, <1>8
<1> HIDE DEF classes, codes, new
<1>12. /\ new \in Tables /\ new.codes = codes /\ new.classes = classes
       /\ new.country = t.country /\ new.rules = t.rules
  BY <1>1, <1>5, <1>11 DEF Tables
<1>13. Kept(t, new)  BY <1>7, <1>8, <1>9, <1>11, <1>12 DEF Kept
<1>14. Whole(new)
  <2>1. \A c \in Codes : t.codes[c] = None => new.codes[c] = None  BY <1>3, <1>11, <1>12
  <2>2. \A k \in Keys : new.classes[k] # None =>
          t.classes[k] # None /\ new.classes[k].code = t.classes[k].code
    BY <1>6, <1>7, <1>11, <1>12
  <2> QED  BY <1>12, <1>13, <2>1, <2>2, GrownWhole DEF Whole
<1>15. SwitchedFrom(t, key, code, active, new)
  BY <1>2, <1>3, <1>10, <1>11, <1>12, <1>13, <1>14 DEF SwitchedFrom
<1> QED  BY <1>6, <1>15 DEF new

LEMMA OwnRowTyped ==
    ASSUME NEW category \in {"S", "O"}, NEW rate \in TypedRates \cup {0}
    PROVE  LET row == OwnRow(category, rate)
           IN /\ row \in CodeRow /\ row # None /\ row.origin = None
              /\ row.category = category /\ row.rate = rate
<1>1. OwnRow(category, rate) \in CodeRow  BY DEF OwnRow, CodeRow, Categories, Rates
<1> QED  BY <1>1, TaxNullAssumption DEF OwnRow

\* A rate of the company's own, or a no-tax case.
CreatedFrom(t, key, code, rate, new) ==
    /\ Whole(new) /\ Kept(t, new) /\ code \in Codes
    /\ new.country = t.country /\ new.rules = t.rules
    /\ new.codes[code] = OwnRow("S", rate)
    /\ \A other \in Codes \ {code} : new.codes[other] = t.codes[other]
    /\ new.classes[key] = [code |-> code, is_active |-> TRUE, origin |-> None]
    /\ \A other \in Keys \ {key} : new.classes[other] = t.classes[other]

LEMMA CreatedParts ==
    ASSUME NEW t, Whole(t), NEW code \in OwnCodes, t.codes[code] = None, NEW key \in Keys,
           t.classes[key] = None, NEW rate \in TypedRates
    PROVE  CreatedFrom(t, key, code, rate, RateCreated(t, key, code, rate))
<1> DEFINE new == RateCreated(t, key, code, rate)
           line == [code |-> code, is_active |-> TRUE, origin |-> None]
           row == OwnRow("S", rate)
           classes == [t.classes EXCEPT ![key] = line]
           codes == [t.codes EXCEPT ![code] = row]
<1>1. /\ t \in Tables /\ DOMAIN t.codes = Codes /\ t.codes \in [Codes -> CodeRow \cup {None}]
      /\ t.classes \in [Keys -> ClassRow \cup {None}] /\ code \in Codes
  BY DEF Whole, Tables, Codes
<1>2. row \in CodeRow /\ row # None /\ row.origin = None  BY OwnRowTyped
<1>3. line \in ClassRow /\ line.origin = None /\ line.code = code  BY <1>1 DEF ClassRow
<1>4. line # None  BY <1>3, TaxNullAssumption
<1>5. new = [t EXCEPT !.codes = codes, !.classes = classes]  BY <1>1 DEF RateCreated, Tables
<1>6. row = OwnRow("S", rate) /\ line = [code |-> code, is_active |-> TRUE, origin |-> None]
  OBVIOUS
<1> HIDE DEF line, row
<1>7. /\ codes \in [Codes -> CodeRow \cup {None}] /\ codes[code] = row
      /\ \A other \in Codes \ {code} : codes[other] = t.codes[other]
      /\ classes \in [Keys -> ClassRow \cup {None}] /\ classes[key] = line
      /\ \A other \in Keys \ {key} : classes[other] = t.classes[other]
  BY <1>1, <1>2, <1>3
<1> HIDE DEF classes, codes, new
<1>8. /\ new \in Tables /\ new.codes = codes /\ new.classes = classes
      /\ new.country = t.country /\ new.rules = t.rules
  BY <1>1, <1>5, <1>7 DEF Tables
<1>9. Kept(t, new)  BY <1>7, <1>8 DEF Kept
<1>10. Whole(new)
  <2>1. \A c \in Codes : t.codes[c] = None /\ new.codes[c] # None => CodeHome(c, new.codes[c])
    BY <1>2, <1>7, <1>8 DEF CodeHome
  <2>2. ClassHome(key, line) /\ new.codes[line.code] # None
    BY <1>2, <1>3, <1>7, <1>8 DEF ClassHome
  <2>3. \A k \in Keys : new.classes[k] # None =>
          \/ t.classes[k] # None /\ new.classes[k].code = t.classes[k].code
          \/ ClassHome(k, new.classes[k]) /\ new.codes[new.classes[k].code] # None
    BY <1>7, <1>8, <2>2
  <2> QED  BY <1>8, <1>9, <2>1, <2>3, GrownWhole DEF Whole
<1>11. CreatedFrom(t, key, code, rate, new)
  BY <1>1, <1>6, <1>7, <1>8, <1>9, <1>10 DEF CreatedFrom
<1> QED  BY <1>11 DEF new

LEMMA NoTaxCaseParts ==
    ASSUME NEW t, Whole(t), NEW code \in OwnCodes, t.codes[code] = None
    PROVE  LET new == NoTaxCaseCreated(t, code)
           IN /\ Whole(new) /\ Kept(t, new) /\ code \in Codes
              /\ new.country = t.country /\ new.rules = t.rules /\ new.classes = t.classes
              /\ new.codes[code] = OwnRow("O", 0)
              /\ \A other \in Codes \ {code} : new.codes[other] = t.codes[other]
<1> DEFINE new == NoTaxCaseCreated(t, code)
           row == OwnRow("O", 0)
           codes == [t.codes EXCEPT ![code] = row]
<1>1. /\ t \in Tables /\ DOMAIN t.codes = Codes /\ t.codes \in [Codes -> CodeRow \cup {None}]
      /\ code \in Codes
  BY DEF Whole, Tables, Codes
<1>2. row \in CodeRow /\ row # None /\ row.origin = None  BY OwnRowTyped
<1>3. new = [t EXCEPT !.codes = codes]  BY <1>1 DEF NoTaxCaseCreated, Tables
<1>4. row = OwnRow("O", 0)  OBVIOUS
<1> HIDE DEF row
<1>5. /\ codes \in [Codes -> CodeRow \cup {None}] /\ codes[code] = row
      /\ \A other \in Codes \ {code} : codes[other] = t.codes[other]
  BY <1>1, <1>2
<1> HIDE DEF codes, new
<1>6. /\ new \in Tables /\ new.codes = codes /\ new.classes = t.classes
      /\ new.country = t.country /\ new.rules = t.rules
  BY <1>1, <1>3, <1>5 DEF Tables
<1>7. Kept(t, new)  BY <1>5, <1>6 DEF Kept
<1>8. Whole(new)
  <2>1. \A c \in Codes : t.codes[c] = None /\ new.codes[c] # None => CodeHome(c, new.codes[c])
    BY <1>2, <1>5, <1>6 DEF CodeHome
  <2>2. \A k \in Keys : new.classes[k] # None =>
          t.classes[k] # None /\ new.classes[k].code = t.classes[k].code
    BY <1>6
  <2> QED  BY <1>6, <1>7, <2>1, <2>2, GrownWhole DEF Whole
<1> QED  BY <1>1, <1>4, <1>5, <1>6, <1>7, <1>8 DEF new

\* The row of a code the company has stays, one it lacks is the pack's.
LEMMA WithCodeRow ==
    ASSUME NEW t, Whole(t), NEW name \in SoundPacks, NEW code \in Codes
    PROVE  LET row == WithCode(t, Pack(name), code)
           IN /\ t.codes[code] # None => row = t.codes[code]
              /\ t.codes[code] = None =>
                   IF code \in DOMAIN Pack(name).codes
                   THEN row = SeededCode(Pack(name).codes[code]) ELSE row = None
              /\ row # None => row \in CodeRow /\ CodeHome(code, row)
              /\ code \in DOMAIN Pack(name).codes => row # None
<1>1. t.codes[code] # None => t.codes[code] \in CodeRow /\ CodeHome(code, t.codes[code])
  BY TablesTyped DEF Whole
<1>2. code \in DOMAIN Pack(name).codes =>
        /\ SeededCode(Pack(name).codes[code]) \in CodeRow
        /\ SeededCode(Pack(name).codes[code]) # None
        /\ CodeHome(code, SeededCode(Pack(name).codes[code]))
  BY PackCodesSeed
<1> QED  BY <1>1, <1>2 DEF WithCode

LEMMA WithClassRow ==
    ASSUME NEW t, Whole(t), NEW name \in SoundPacks, NEW key \in Keys
    PROVE  LET row == WithClass(t, Pack(name), key)
           IN /\ t.classes[key] # None => row = t.classes[key]
              /\ t.classes[key] = None =>
                   IF key \in DOMAIN Pack(name).classes
                   THEN row = SeededClass(Pack(name).classes[key]) ELSE row = None
              /\ row # None => row \in ClassRow /\ ClassHome(key, row)
              /\ key \in DOMAIN Pack(name).classes => row # None
              /\ t.classes[key] = None /\ row # None => row.code \in DOMAIN Pack(name).codes
<1>1. t.classes[key] # None => t.classes[key] \in ClassRow /\ ClassHome(key, t.classes[key])
  BY TablesTyped DEF Whole
<1>2. key \in DOMAIN Pack(name).classes =>
        /\ SeededClass(Pack(name).classes[key]) \in ClassRow
        /\ SeededClass(Pack(name).classes[key]) # None
        /\ ClassHome(key, SeededClass(Pack(name).classes[key]))
        /\ SeededClass(Pack(name).classes[key]).code \in DOMAIN Pack(name).codes
  BY PackClassesSeed
<1> QED  BY <1>1, <1>2 DEF WithClass

\* Seeding.
LEMMA SeededParts ==
    ASSUME NEW t, Whole(t), NEW country \in Countries
    PROVE  LET new == Seeded(t, country)
               pack == Pack(PackOf[country])
           IN /\ Whole(new) /\ Kept(t, new) /\ new.country = country
              /\ \A code \in Codes : new.codes[code] = WithCode(t, pack, code)
              /\ \A key \in Keys : new.classes[key] = WithClass(t, pack, key)
              /\ new.rules = IF t.rules = None THEN PackOf[country] ELSE t.rules
<1> DEFINE new == Seeded(t, country)
           name == PackOf[country]
           pack == Pack(PackOf[country])
           codes == [code \in Codes |-> WithCode(t, pack, code)]
           classes == [key \in Keys |-> WithClass(t, pack, key)]
           rules == IF t.rules = None THEN PackOf[country] ELSE t.rules
<1>1. country # None /\ PackOf[country] \in SoundPacks
  BY PackOfIsSound, ConfigurationAssumption
<1>2. new = [country |-> country, codes |-> codes, classes |-> classes, rules |-> rules]
  BY <1>1 DEF Seeded
<1>3. rules \in SoundPacks /\ rules # None /\ rules \in PackNames
  BY <1>1, ConfigurationAssumption DEF Whole, SoundPacks
<1>4. \A code \in Codes :
        /\ codes[code] = WithCode(t, pack, code)
        /\ t.codes[code] # None => codes[code] = t.codes[code]
        /\ codes[code] # None => codes[code] \in CodeRow /\ CodeHome(code, codes[code])
        /\ code \in DOMAIN pack.codes => codes[code] # None
  BY <1>1, WithCodeRow
<1>5. \A key \in Keys :
        /\ classes[key] = WithClass(t, pack, key)
        /\ t.classes[key] # None => classes[key] = t.classes[key]
        /\ classes[key] # None => classes[key] \in ClassRow /\ ClassHome(key, classes[key])
        /\ t.classes[key] = None /\ classes[key] # None => classes[key].code \in DOMAIN pack.codes
  BY <1>1, WithClassRow
<1>6. codes \in [Codes -> CodeRow \cup {None}] /\ classes \in [Keys -> ClassRow \cup {None}]
  BY <1>4, <1>5
<1>7. rules = IF t.rules = None THEN PackOf[country] ELSE t.rules  OBVIOUS
<1>8. \A code \in DOMAIN pack.codes : code \in Codes  BY <1>1, PackCodesSeed
<1> HIDE DEF codes, classes, rules, new, pack
<1>9. /\ new \in Tables /\ new.country = country /\ new.codes = codes
      /\ new.classes = classes /\ new.rules = rules
  BY <1>2, <1>3, <1>6 DEF Tables
<1>10. Kept(t, new)  BY <1>1, <1>3, <1>4, <1>5, <1>9 DEF Kept
<1>11. Whole(new)
  <2>1. \A key \in Keys : new.classes[key] # None =>
          \/ t.classes[key] # None /\ new.classes[key].code = t.classes[key].code
          \/ ClassHome(key, new.classes[key]) /\ new.codes[new.classes[key].code] # None
    BY <1>4, <1>5, <1>8, <1>9
  <2> QED  BY <1>1, <1>3, <1>4, <1>9, <1>10, <2>1, GrownWhole
<1> QED  BY <1>4, <1>5, <1>7, <1>9, <1>10, <1>11 DEF new, pack

\* A country change decides flags by cases.
LEMMA ActiveAfterIs ==
    ASSUME NEW t, Whole(t), NEW name \in SoundPacks, NEW code \in Codes,
           WithCode(t, Pack(name), code) # None
    PROVE  /\ ActiveAfter(t, Pack(name), code) \in BOOLEAN
           /\ ActiveAfter(t, Pack(name), code) =>
                \/ Reactivated(t, Pack(name), code)
                \/ /\ MovingOnto(t, Pack(name), code) = {}
                   /\ WithCode(t, Pack(name), code).is_active
                \/ \E key \in MovingOnto(t, Pack(name), code) :
                     ActivationFor(WithCode(t, Pack(name), code), FlagAfter(t, Pack(name), key))
<1>1. WithCode(t, Pack(name), code).is_active \in BOOLEAN
  BY WithCodeRow DEF CodeRow
<1> QED  BY <1>1 DEF ActiveAfter

LEMMA CodeAfterRow ==
    ASSUME NEW t, Whole(t), NEW name \in SoundPacks, NEW code \in Codes
    PROVE  LET row == WithCode(t, Pack(name), code)
               after == CodeAfter(t, Pack(name), code)
           IN /\ row = None => after = None
              /\ row # None =>
                   /\ after \in CodeRow /\ after # None /\ CodeHome(code, after)
                   /\ after.category = row.category /\ after.rate = row.rate
                   /\ after.edited = row.edited /\ after.origin = row.origin
                   /\ after.is_active = ActiveAfter(t, Pack(name), code)
                   /\ ActiveAfter(t, Pack(name), code) = row.is_active => after = row
<1> DEFINE row == WithCode(t, Pack(name), code)
           flag == ActiveAfter(t, Pack(name), code)
           after == CodeAfter(t, Pack(name), code)
<1>1. row = None => after = None  BY DEF CodeAfter
<1>2. row # None => after = [row EXCEPT !.is_active = flag]  BY DEF CodeAfter
<1>3. row # None => row \in CodeRow /\ CodeHome(code, row)  BY WithCodeRow
<1>4. row # None => flag \in BOOLEAN  BY ActiveAfterIs
<1> HIDE DEF row, flag, after
<1>5. row # None =>
        /\ after \in CodeRow
        /\ after.category = row.category /\ after.rate = row.rate
        /\ after.edited = row.edited /\ after.origin = row.origin
        /\ after.is_active = flag
        /\ flag = row.is_active => after = row
  BY <1>2, <1>3, <1>4 DEF CodeRow
<1>6. row # None => after # None /\ CodeHome(code, after)
  BY <1>3, <1>5, TaxNullAssumption DEF CodeHome
<1> QED  BY <1>1, <1>5, <1>6 DEF row, flag, after

LEMMA ClassAfterRow ==
    ASSUME NEW t, Whole(t), NEW name \in SoundPacks, NEW key \in Keys
    PROVE  LET after == ClassAfter(t, Pack(name), key)
           IN /\ t.classes[key] = None => after = WithClass(t, Pack(name), key)
              /\ t.classes[key] # None =>
                   /\ after # None /\ after.origin = t.classes[key].origin
                   /\ after.is_active = t.classes[key].is_active
                   /\ after.code = IF t.classes[key].origin = None THEN t.classes[key].code
                                   ELSE Target(t, Pack(name), key)
              /\ after # None => after \in ClassRow /\ ClassHome(key, after)
              /\ after # None =>
                   \/ after.code \in DOMAIN Pack(name).codes
                   \/ t.classes[key] # None /\ after.code = t.classes[key].code
<1> DEFINE after == ClassAfter(t, Pack(name), key)
<1>1. CASE t.classes[key] = None
  <2>1. after = WithClass(t, Pack(name), key)  BY <1>1 DEF ClassAfter
  <2> QED  BY <1>1, <2>1, WithClassRow
<1>2. CASE t.classes[key] # None /\ t.classes[key].origin = None
  <2>1. after = WithClass(t, Pack(name), key)  BY <1>2 DEF ClassAfter
  <2>2. after = t.classes[key]  BY <1>2, <2>1, WithClassRow
  <2> QED  BY <1>2, <2>1, <2>2, WithClassRow
<1>3. CASE t.classes[key] # None /\ t.classes[key].origin # None
  <2> DEFINE row == t.classes[key]
             code == Target(t, Pack(name), key)
  <2>1. after = [row EXCEPT !.code = code]  BY <1>3 DEF ClassAfter
  <2>2. row \in ClassRow /\ ClassHome(key, row) /\ row.code \in Codes
    BY <1>3, TablesTyped DEF Whole
  <2>3. CASE key \in DOMAIN Pack(name).classes
    <3>1. code = Pack(name).classes[key].code  BY <2>3 DEF Target
    <3>2. code \in Codes /\ code \in DOMAIN Pack(name).codes  BY <2>3, <3>1, PackClassesSeed
    <3>3. after \in ClassRow /\ after.code = code /\ after.origin = row.origin
          /\ after.is_active = row.is_active
      <4> HIDE DEF row, code
      <4> QED  BY <2>1, <2>2, <3>2 DEF ClassRow
    <3>4. ClassHome(key, after)  BY <1>3, <2>3, <3>1, <3>3 DEF ClassHome
    <3> QED  BY <1>3, <3>2, <3>3, <3>4, TaxNullAssumption
  <2>4. CASE key \notin DOMAIN Pack(name).classes
    <3>1. code = row.code  BY <2>4 DEF Target
    <3>2. after = row
      <4> HIDE DEF row, code
      <4> QED  BY <2>1, <2>2, <3>1 DEF ClassRow
    <3> QED  BY <1>3, <2>2, <3>1, <3>2
  <2> QED  BY <2>3, <2>4
<1> QED  BY <1>1, <1>2, <1>3

\* The new country's pack.
LEMMA AppliedParts ==
    ASSUME NEW t, Whole(t), NEW country \in Countries
    PROVE  LET new == PackApplied(t, country)
               pack == Pack(PackOf[country])
           IN /\ Whole(new) /\ Kept(t, new) /\ new.country = country
              /\ \A code \in Codes : new.codes[code] = CodeAfter(t, pack, code)
              /\ \A key \in Keys : new.classes[key] = ClassAfter(t, pack, key)
              /\ new.rules = IF RulesOf(t) # pack.rules THEN PackOf[country] ELSE t.rules
<1> DEFINE new == PackApplied(t, country)
           pack == Pack(PackOf[country])
           codes == [code \in Codes |-> CodeAfter(t, pack, code)]
           classes == [key \in Keys |-> ClassAfter(t, pack, key)]
           rules == IF RulesOf(t) # pack.rules THEN PackOf[country] ELSE t.rules
<1>1. country # None /\ PackOf[country] \in SoundPacks
  BY PackOfIsSound, ConfigurationAssumption
<1>2. new = [country |-> country, codes |-> codes, classes |-> classes, rules |-> rules]
  BY DEF PackApplied
<1>3. /\ rules \in PackNames \cup {None}
      /\ rules # None => rules \in SoundPacks
      /\ t.rules # None => rules # None
  BY <1>1, TablesTyped, ConfigurationAssumption DEF Whole, SoundPacks
<1>4. \A code \in Codes :
        /\ codes[code] = CodeAfter(t, pack, code)
        /\ codes[code] # None => codes[code] \in CodeRow /\ CodeHome(code, codes[code])
        /\ t.codes[code] # None => codes[code] # None /\ codes[code].origin = t.codes[code].origin
        /\ code \in DOMAIN pack.codes => codes[code] # None
  BY <1>1, WithCodeRow, CodeAfterRow
<1>5. \A key \in Keys :
        /\ classes[key] = ClassAfter(t, pack, key)
        /\ classes[key] # None => classes[key] \in ClassRow /\ ClassHome(key, classes[key])
        /\ t.classes[key] # None =>
             classes[key] # None /\ classes[key].origin = t.classes[key].origin
        /\ classes[key] # None =>
             \/ classes[key].code \in DOMAIN pack.codes
             \/ t.classes[key] # None /\ classes[key].code = t.classes[key].code
  BY <1>1, ClassAfterRow
<1>6. codes \in [Codes -> CodeRow \cup {None}] /\ classes \in [Keys -> ClassRow \cup {None}]
  BY <1>4, <1>5
<1>7. rules = IF RulesOf(t) # pack.rules THEN PackOf[country] ELSE t.rules  OBVIOUS
<1>8. \A code \in DOMAIN pack.codes : code \in Codes  BY <1>1, PackCodesSeed
<1> HIDE DEF codes, classes, rules, new, pack
<1>9. /\ new \in Tables /\ new.country = country /\ new.codes = codes
      /\ new.classes = classes /\ new.rules = rules
  BY <1>2, <1>3, <1>6 DEF Tables
<1>10. Kept(t, new)  BY <1>1, <1>3, <1>4, <1>5, <1>9 DEF Kept
<1>11. Whole(new)
  <2>1. \A key \in Keys : new.classes[key] # None =>
          \/ t.classes[key] # None /\ new.classes[key].code = t.classes[key].code
          \/ ClassHome(key, new.classes[key]) /\ new.codes[new.classes[key].code] # None
    BY <1>4, <1>5, <1>8, <1>9
  <2> QED  BY <1>1, <1>3, <1>4, <1>9, <1>10, <2>1, GrownWhole
<1> QED  BY <1>4, <1>5, <1>7, <1>9, <1>10, <1>11 DEF new, pack

\* The country alone.
LEMMA MovedParts ==
    ASSUME NEW t, Whole(t), NEW country \in Countries
    PROVE  LET new == [t EXCEPT !.country = country]
           IN /\ Whole(new) /\ Kept(t, new) /\ new.country = country
              /\ new.codes = t.codes /\ new.classes = t.classes /\ new.rules = t.rules
<1> DEFINE new == [t EXCEPT !.country = country]
<1>1. /\ new \in Tables /\ new.country = country /\ country # None
      /\ new.codes = t.codes /\ new.classes = t.classes /\ new.rules = t.rules
  BY ConfigurationAssumption DEF Whole, Tables
<1> HIDE DEF new
<1>2. Kept(t, new)  BY <1>1 DEF Kept
<1>3. Whole(new)  BY <1>1, <1>2, GrownWhole DEF Whole
<1> QED  BY <1>1, <1>2, <1>3 DEF new

-----------------------------------------------------------------------------
(* What a commit makes of the rows.                                        *)

CodeColumns == {"category", "rate", "is_active", "edited", "origin"}

\* A code row somebody else may have changed: column by column.
LEMMA OverCode ==
    ASSUME NEW seen \in CodeRow, NEW new \in CodeRow, NEW now \in CodeRow
    PROVE  LET row == Over(seen, new, now)
           IN /\ row \in CodeRow /\ row # None
              /\ row.category = IF new.category # seen.category THEN new.category ELSE now.category
              /\ row.rate = IF new.rate # seen.rate THEN new.rate ELSE now.rate
              /\ row.is_active = IF new.is_active # seen.is_active THEN new.is_active
                                 ELSE now.is_active
              /\ row.edited = IF new.edited # seen.edited THEN new.edited ELSE now.edited
              /\ row.origin = IF new.origin # seen.origin THEN new.origin ELSE now.origin
              /\ new = seen => row = now
              /\ now = seen => row = new
<1> DEFINE row == Over(seen, new, now)
           Column(c) == IF new[c] # seen[c] THEN new[c] ELSE now[c]
<1>1. seen # None /\ new # None /\ now # None  BY TaxNullAssumption
<1>2. DOMAIN now = CodeColumns /\ DOMAIN new = CodeColumns /\ DOMAIN seen = CodeColumns
  BY DEF CodeRow, CodeColumns
<1>3. row = [c \in CodeColumns |-> Column(c)]  BY <1>1, <1>2 DEF Over
<1>4. /\ row["category"] = Column("category") /\ row["rate"] = Column("rate")
      /\ row["is_active"] = Column("is_active") /\ row["edited"] = Column("edited")
      /\ row["origin"] = Column("origin")
  BY <1>3 DEF CodeColumns
<1>5. row = [category |-> row["category"], rate |-> row["rate"],
             is_active |-> row["is_active"], edited |-> row["edited"], origin |-> row["origin"]]
  BY <1>3 DEF CodeColumns
<1> HIDE DEF row
<1>6. /\ row.category = Column("category") /\ row.rate = Column("rate")
      /\ row.is_active = Column("is_active") /\ row.edited = Column("edited")
      /\ row.origin = Column("origin")
  BY <1>4
<1>7. row \in CodeRow
  <2>1. Column("category") \in Categories  BY DEF CodeRow
  <2>2. Column("rate") \in Rates  BY DEF CodeRow
  <2>3. Column("is_active") \in BOOLEAN  BY DEF CodeRow
  <2>4. Column("edited") \in BOOLEAN  BY DEF CodeRow
  <2>5. Column("origin") \in PackNames \cup {None}  BY DEF CodeRow
  <2> HIDE DEF Column
  <2> QED  BY <1>4, <1>5, <2>1, <2>2, <2>3, <2>4, <2>5 DEF CodeRow
<1>8. new = seen => row = now
  <2> SUFFICES ASSUME new = seen PROVE row = now  OBVIOUS
  <2>1. \A c \in CodeColumns : row[c] = now[c]  BY <1>3
  <2>2. now = [c \in CodeColumns |-> now[c]]  BY <1>2 DEF CodeRow
  <2>3. row = [c \in CodeColumns |-> row[c]]  BY <1>3
  <2> QED  BY <2>1, <2>2, <2>3
<1>9. now = seen => row = new
  <2> SUFFICES ASSUME now = seen PROVE row = new  OBVIOUS
  <2>1. \A c \in CodeColumns : row[c] = new[c]  BY <1>3
  <2>2. new = [c \in CodeColumns |-> new[c]]  BY <1>2 DEF CodeRow
  <2>3. row = [c \in CodeColumns |-> row[c]]  BY <1>3
  <2> QED  BY <2>1, <2>2, <2>3
<1>10. row # None  BY <1>7, TaxNullAssumption
<1> QED  BY <1>6, <1>7, <1>8, <1>9, <1>10 DEF row

ClassColumns == {"code", "is_active", "origin"}

\* A class row.
LEMMA OverClass ==
    ASSUME NEW seen \in ClassRow, NEW new \in ClassRow, NEW now \in ClassRow
    PROVE  LET row == Over(seen, new, now)
           IN /\ row \in ClassRow /\ row # None
              /\ row.code = IF new.code # seen.code THEN new.code ELSE now.code
              /\ row.is_active = IF new.is_active # seen.is_active THEN new.is_active
                                 ELSE now.is_active
              /\ row.origin = IF new.origin # seen.origin THEN new.origin ELSE now.origin
              /\ new = seen => row = now
              /\ now = seen => row = new
<1> DEFINE row == Over(seen, new, now)
           Column(c) == IF new[c] # seen[c] THEN new[c] ELSE now[c]
<1>1. seen # None /\ new # None /\ now # None  BY TaxNullAssumption
<1>2. DOMAIN now = ClassColumns /\ DOMAIN new = ClassColumns /\ DOMAIN seen = ClassColumns
  BY DEF ClassRow, ClassColumns
<1>3. row = [c \in ClassColumns |-> Column(c)]  BY <1>1, <1>2 DEF Over
<1>4. /\ row["code"] = Column("code") /\ row["is_active"] = Column("is_active")
      /\ row["origin"] = Column("origin")
  BY <1>3 DEF ClassColumns
<1>5. row = [code |-> row["code"], is_active |-> row["is_active"], origin |-> row["origin"]]
  BY <1>3 DEF ClassColumns
<1> HIDE DEF row
<1>6. /\ row.code = Column("code") /\ row.is_active = Column("is_active")
      /\ row.origin = Column("origin")
  BY <1>4
<1>7. row \in ClassRow
  <2>1. Column("code") \in Codes  BY DEF ClassRow
  <2>2. Column("is_active") \in BOOLEAN  BY DEF ClassRow
  <2>3. Column("origin") \in PackNames \cup {None}  BY DEF ClassRow
  <2> HIDE DEF Column
  <2> QED  BY <1>4, <1>5, <2>1, <2>2, <2>3 DEF ClassRow
<1>8. new = seen => row = now
  <2> SUFFICES ASSUME new = seen PROVE row = now  OBVIOUS
  <2>1. \A c \in ClassColumns : row[c] = now[c]  BY <1>3
  <2>2. now = [c \in ClassColumns |-> now[c]]  BY <1>2 DEF ClassRow
  <2>3. row = [c \in ClassColumns |-> row[c]]  BY <1>3
  <2> QED  BY <2>1, <2>2, <2>3
<1>9. now = seen => row = new
  <2> SUFFICES ASSUME now = seen PROVE row = new  OBVIOUS
  <2>1. \A c \in ClassColumns : row[c] = new[c]  BY <1>3
  <2>2. new = [c \in ClassColumns |-> new[c]]  BY <1>2 DEF ClassRow
  <2>3. row = [c \in ClassColumns |-> row[c]]  BY <1>3
  <2> QED  BY <2>1, <2>2, <2>3
<1>10. row # None  BY <1>7, TaxNullAssumption
<1> QED  BY <1>6, <1>7, <1>8, <1>9, <1>10 DEF row

\* The tables a commit leaves: what a request works out, over what there is.
Merge(seen, new, now) ==
    [country |-> IF new.country # seen.country THEN new.country ELSE now.country,
     codes |-> [code \in Codes |-> Over(seen.codes[code], new.codes[code], now.codes[code])],
     classes |-> [key \in Keys |-> Over(seen.classes[key], new.classes[key], now.classes[key])],
     rules |-> IF new.rules # seen.rules THEN new.rules ELSE now.rules]

\* What a request saw, what it makes of it, and what is there when it
\* commits, without a conflict.
Mergeable(seen, new, now) ==
    /\ Whole(seen) /\ Whole(new) /\ Whole(now)
    /\ Kept(seen, new) /\ Kept(seen, now)
    /\ ~Conflicts(seen.codes, new.codes, now.codes)
    /\ ~Conflicts(seen.classes, new.classes, now.classes)

LEMMA MergedCode ==
    ASSUME NEW seen, NEW new, NEW now, Mergeable(seen, new, now), NEW code \in Codes
    PROVE  LET row == Over(seen.codes[code], new.codes[code], now.codes[code])
           IN /\ row \in CodeRow \cup {None}
              /\ seen.codes[code] = None =>
                   IF new.codes[code] = None THEN row = now.codes[code]
                   ELSE now.codes[code] = None /\ row = new.codes[code]
              /\ seen.codes[code] # None =>
                   /\ seen.codes[code] \in CodeRow /\ new.codes[code] \in CodeRow
                   /\ now.codes[code] \in CodeRow /\ row # None
              /\ now.codes[code] # None => row # None /\ row.origin = now.codes[code].origin
              /\ new.codes[code] # None => row # None /\ row.origin = new.codes[code].origin
              /\ row # None => CodeHome(code, row)
<1> DEFINE row == Over(seen.codes[code], new.codes[code], now.codes[code])
<1>1. /\ seen.codes[code] # None => seen.codes[code] \in CodeRow
      /\ new.codes[code] # None => new.codes[code] \in CodeRow /\ CodeHome(code, new.codes[code])
      /\ now.codes[code] # None => now.codes[code] \in CodeRow /\ CodeHome(code, now.codes[code])
      /\ DOMAIN now.codes = Codes
  BY TablesTyped DEF Whole, Mergeable
<1>2. CASE seen.codes[code] = None
  <2>1. CASE new.codes[code] = None
    <3>1. row = now.codes[code]  BY <1>2, <2>1 DEF Over
    <3> QED  BY <1>1, <1>2, <2>1, <3>1
  <2>2. CASE new.codes[code] # None
    <3>1. now.codes[code] = None  BY <1>1, <1>2, <2>2 DEF Mergeable, Conflicts
    <3>2. row = new.codes[code]  BY <1>2, <2>2 DEF Over
    <3> QED  BY <1>1, <1>2, <2>2, <3>1, <3>2
  <2> QED  BY <2>1, <2>2
<1>3. CASE seen.codes[code] # None
  <2>1. /\ new.codes[code] # None /\ new.codes[code].origin = seen.codes[code].origin
        /\ now.codes[code] # None /\ now.codes[code].origin = seen.codes[code].origin
    BY <1>3 DEF Mergeable, Kept
  <2>2. row \in CodeRow /\ row # None /\ row.origin = now.codes[code].origin
    BY <1>1, <1>3, <2>1, OverCode
  <2>3. CodeHome(code, row)  BY <1>1, <2>1, <2>2 DEF CodeHome
  <2> QED  BY <1>1, <1>3, <2>1, <2>2, <2>3
<1> QED  BY <1>2, <1>3

LEMMA MergedClass ==
    ASSUME NEW seen, NEW new, NEW now, Mergeable(seen, new, now), NEW key \in Keys
    PROVE  LET row == Over(seen.classes[key], new.classes[key], now.classes[key])
           IN /\ row \in ClassRow \cup {None}
              /\ seen.classes[key] = None =>
                   IF new.classes[key] = None THEN row = now.classes[key]
                   ELSE now.classes[key] = None /\ row = new.classes[key]
              /\ seen.classes[key] # None =>
                   /\ seen.classes[key] \in ClassRow /\ new.classes[key] \in ClassRow
                   /\ now.classes[key] \in ClassRow /\ row # None
              /\ now.classes[key] # None => row # None /\ row.origin = now.classes[key].origin
              /\ row # None => ClassHome(key, row)
              /\ row # None => \/ now.classes[key] # None /\ row.code = now.classes[key].code
                               \/ new.classes[key] # None /\ row.code = new.classes[key].code
<1> DEFINE row == Over(seen.classes[key], new.classes[key], now.classes[key])
<1>1. /\ seen.classes[key] # None => seen.classes[key] \in ClassRow
      /\ new.classes[key] # None => new.classes[key] \in ClassRow /\ ClassHome(key, new.classes[key])
      /\ now.classes[key] # None => now.classes[key] \in ClassRow /\ ClassHome(key, now.classes[key])
      /\ DOMAIN now.classes = Keys
  BY TablesTyped DEF Whole, Mergeable
<1>2. CASE seen.classes[key] = None
  <2>1. CASE new.classes[key] = None
    <3>1. row = now.classes[key]  BY <1>2, <2>1 DEF Over
    <3> QED  BY <1>1, <1>2, <2>1, <3>1
  <2>2. CASE new.classes[key] # None
    <3>1. now.classes[key] = None  BY <1>1, <1>2, <2>2 DEF Mergeable, Conflicts
    <3>2. row = new.classes[key]  BY <1>2, <2>2 DEF Over
    <3> QED  BY <1>1, <1>2, <2>2, <3>1, <3>2
  <2> QED  BY <2>1, <2>2
<1>3. CASE seen.classes[key] # None
  <2>1. /\ new.classes[key] # None /\ new.classes[key].origin = seen.classes[key].origin
        /\ now.classes[key] # None /\ now.classes[key].origin = seen.classes[key].origin
    BY <1>3 DEF Mergeable, Kept
  <2>2. /\ row \in ClassRow /\ row # None /\ row.origin = now.classes[key].origin
        /\ row.code = now.classes[key].code \/ row.code = new.classes[key].code
    BY <1>1, <1>3, <2>1, OverClass
  <2>3. ClassHome(key, row)  BY <1>1, <2>1, <2>2 DEF ClassHome
  <2> QED  BY <1>1, <1>3, <2>1, <2>2, <2>3
<1> QED  BY <1>2, <1>3

LEMMA MergeParts ==
    ASSUME NEW seen, NEW new, NEW now, Mergeable(seen, new, now)
    PROVE  LET after == Merge(seen, new, now)
           IN /\ Whole(after) /\ Kept(now, after)
              /\ after.country = IF new.country # seen.country THEN new.country ELSE now.country
              /\ after.rules = IF new.rules # seen.rules THEN new.rules ELSE now.rules
              /\ \A code \in Codes : after.codes[code] =
                   Over(seen.codes[code], new.codes[code], now.codes[code])
              /\ \A key \in Keys : after.classes[key] =
                   Over(seen.classes[key], new.classes[key], now.classes[key])
<1> DEFINE after == Merge(seen, new, now)
           codes == [code \in Codes |-> Over(seen.codes[code], new.codes[code], now.codes[code])]
           classes == [key \in Keys |->
                          Over(seen.classes[key], new.classes[key], now.classes[key])]
           country == IF new.country # seen.country THEN new.country ELSE now.country
           rules == IF new.rules # seen.rules THEN new.rules ELSE now.rules
<1>1. after = [country |-> country, codes |-> codes, classes |-> classes, rules |-> rules]
  BY DEF Merge
<1>2. \A code \in Codes :
        codes[code] = Over(seen.codes[code], new.codes[code], now.codes[code])
  OBVIOUS
<1>3. \A key \in Keys :
        classes[key] = Over(seen.classes[key], new.classes[key], now.classes[key])
  OBVIOUS
<1>4. codes \in [Codes -> CodeRow \cup {None}]  BY MergedCode
<1>5. classes \in [Keys -> ClassRow \cup {None}]  BY MergedClass
<1>6. /\ country \in Countries \cup {None} /\ rules \in PackNames \cup {None}
      /\ now.country # None => country # None
      /\ now.rules # None => rules # None
      /\ rules # None => rules \in SoundPacks /\ country # None
  BY TablesTyped DEF Mergeable, Whole, Kept
<1>7. country = (IF new.country # seen.country THEN new.country ELSE now.country)
      /\ rules = (IF new.rules # seen.rules THEN new.rules ELSE now.rules)
  OBVIOUS
<1> HIDE DEF after, codes, classes, country, rules
<1>8. /\ after \in Tables /\ after.codes = codes /\ after.classes = classes
      /\ after.country = country /\ after.rules = rules
  BY <1>1, <1>4, <1>5, <1>6 DEF Tables
<1>9. Kept(now, after)
  <2>1. \A code \in Codes : now.codes[code] # None =>
          after.codes[code] # None /\ after.codes[code].origin = now.codes[code].origin
    BY <1>2, <1>8, MergedCode
  <2>2. \A key \in Keys : now.classes[key] # None =>
          after.classes[key] # None /\ after.classes[key].origin = now.classes[key].origin
    BY <1>3, <1>8, MergedClass
  <2> QED  BY <1>6, <1>8, <2>1, <2>2 DEF Kept
<1>10. Whole(after)
  <2>1. \A code \in Codes : /\ after.codes[code] # None => CodeHome(code, after.codes[code])
                            /\ new.codes[code] # None => after.codes[code] # None
    BY <1>2, <1>8, MergedCode
  <2>2. ASSUME NEW key \in Keys, after.classes[key] # None
        PROVE  \/ now.classes[key] # None /\ after.classes[key].code = now.classes[key].code
               \/ /\ ClassHome(key, after.classes[key])
                  /\ after.codes[after.classes[key].code] # None
    <3>1. /\ ClassHome(key, after.classes[key])
          /\ \/ now.classes[key] # None /\ after.classes[key].code = now.classes[key].code
             \/ new.classes[key] # None /\ after.classes[key].code = new.classes[key].code
      BY <1>3, <1>8, <2>2, MergedClass
    <3>2. new.classes[key] # None =>
            new.classes[key].code \in Codes /\ new.codes[new.classes[key].code] # None
      BY TablesTyped DEF Mergeable, Whole
    <3> QED  BY <2>1, <3>1, <3>2
  <2>3. Whole(now)  BY DEF Mergeable
  <2> QED  BY <1>6, <1>8, <1>9, <2>1, <2>2, <2>3, GrownWhole
<1> QED  BY <1>2, <1>3, <1>7, <1>8, <1>9, <1>10 DEF after

-----------------------------------------------------------------------------
(* What a request may set out to do, and the steps.                        *)

\* A rate, a text or a flag of one code.  The flag only where no class points
\* at the code and, to switch it off, no rule names it.
CodePatched(code, t, new) ==
    /\ code \in Codes /\ t.codes[code] # None
    /\ \E row \in CodeRow :
         /\ new = Replaced(t, code, row)
         /\ row.origin = t.codes[code].origin
         /\ \/ row.is_active = t.codes[code].is_active
            \/ /\ \A key \in Keys : t.classes[key] # None => t.classes[key].code # code
               /\ t.codes[code].is_active => ~RefersToCode(t, code)

ClassPatched(code, t, new) ==
    \E key \in Keys, active \in BOOLEAN :
        t.classes[key] # None /\ code = t.classes[key].code /\ new = Switched(t, key, active)

RateAdded(code, t, new) ==
    /\ code \in OwnCodes /\ t.codes[code] = None
    /\ \E key \in Keys, rate \in TypedRates \ {0} :
         t.classes[key] = None /\ new = RateCreated(t, key, code, rate)

CaseAdded(code, t, new) ==
    code \in OwnCodes /\ t.codes[code] = None /\ new = NoTaxCaseCreated(t, code)

FirstSeeded(t, new) ==
    \E country \in Countries :
        (\A code \in Codes : t.codes[code] = None) /\ new = Seeded(t, country)

Moved(t, new) == \E country \in Countries : new = [t EXCEPT !.country = country]

Applied(t, new) == \E country \in Countries : new = PackApplied(t, country)

SetOut(kind, code, t, new) ==
    \/ kind = "patch_code" /\ CodePatched(code, t, new)
    \/ kind = "patch_class" /\ ClassPatched(code, t, new)
    \/ kind = "create" /\ (RateAdded(code, t, new) \/ CaseAdded(code, t, new))
    \/ kind \in {"country", "country_change"} /\ code = None
          /\ (FirstSeeded(t, new) \/ Moved(t, new) \/ Applied(t, new))

\* The actions that begin a request do nothing else.
Begun(r) ==
    \E kind, code, new :
        kind \in Kinds /\ SetOut(kind, code, tables, new) /\ Open(r, kind, code, new)

LEMMA PresentIs ==
    ASSUME NEW t, Whole(t)
    PROVE  /\ Present(t.codes) = {code \in Codes : t.codes[code] # None}
           /\ Present(t.classes) = {key \in Keys : t.classes[key] # None}
BY TablesTyped DEF Whole, Present

LEMMA PatchBegins ==
    ASSUME Whole(tables), NEW r \in Requests, UpdateTaxCode(r) \/ SwitchTaxCode(r)
    PROVE  Begun(r)
<1>1. ASSUME NEW code \in Codes, tables.codes[code] # None, NEW row \in CodeRow,
             NEW new, new = Replaced(tables, code, row),
             row.origin = tables.codes[code].origin,
             \/ row.is_active = tables.codes[code].is_active
             \/ /\ \A key \in Keys : tables.classes[key] # None => tables.classes[key].code # code
                /\ tables.codes[code].is_active => ~RefersToCode(tables, code),
             Open(r, "patch_code", code, new)
      PROVE  Begun(r)
  <2>1. CodePatched(code, tables, new)  BY <1>1 DEF CodePatched
  <2>2. SetOut("patch_code", code, tables, new)  BY <2>1 DEF SetOut
  <2> QED  BY <1>1, <2>2 DEF Begun, Kinds
<1>2. CASE UpdateTaxCode(r)
  <2>1. PICK code \in Present(tables.codes) :
          \/ \E rate \in TypedRates \ {tables.codes[code].rate} :
                Open(r, "patch_code", code, [tables EXCEPT !.codes[code].rate = rate])
          \/ Open(r, "patch_code", code, [tables EXCEPT !.codes[code].edited = TRUE])
    BY <1>2 DEF UpdateTaxCode
  <2> DEFINE row == tables.codes[code]
  <2>2. code \in Codes /\ row # None /\ row \in CodeRow
    BY PresentIs, TablesTyped DEF Whole
  <2>3. ASSUME NEW rate \in TypedRates, Open(r, "patch_code", code,
                                             [tables EXCEPT !.codes[code].rate = rate])
        PROVE  Begun(r)
    <3>1. [tables EXCEPT !.codes[code].rate = rate]
              = Replaced(tables, code, [row EXCEPT !.rate = rate])
      BY DEF Replaced
    <3>2. /\ [row EXCEPT !.rate = rate] \in CodeRow
          /\ [row EXCEPT !.rate = rate].origin = row.origin
          /\ [row EXCEPT !.rate = rate].is_active = row.is_active
      <4> HIDE DEF row
      <4> QED  BY <2>2 DEF CodeRow, Rates
    <3> HIDE DEF row
    <3> QED  BY <1>1, <2>2, <2>3, <3>1, <3>2 DEF row
  <2>4. ASSUME Open(r, "patch_code", code, [tables EXCEPT !.codes[code].edited = TRUE])
        PROVE  Begun(r)
    <3>1. [tables EXCEPT !.codes[code].edited = TRUE]
              = Replaced(tables, code, [row EXCEPT !.edited = TRUE])
      BY DEF Replaced
    <3>2. /\ [row EXCEPT !.edited = TRUE] \in CodeRow
          /\ [row EXCEPT !.edited = TRUE].origin = row.origin
          /\ [row EXCEPT !.edited = TRUE].is_active = row.is_active
      <4> HIDE DEF row
      <4> QED  BY <2>2 DEF CodeRow
    <3> HIDE DEF row
    <3> QED  BY <1>1, <2>2, <2>4, <3>1, <3>2 DEF row
  <2> QED  BY <2>1, <2>3, <2>4
<1>3. CASE SwitchTaxCode(r)
  <2>1. PICK code \in Present(tables.codes) :
          /\ \A key \in Present(tables.classes) : tables.classes[key].code # code
          /\ tables.codes[code].is_active => ~RefersToCode(tables, code)
          /\ Open(r, "patch_code", code, [tables EXCEPT !.codes[code].is_active = ~@])
    BY <1>3 DEF SwitchTaxCode
  <2> DEFINE row == tables.codes[code]
             after == [row EXCEPT !.is_active = ~row.is_active]
  <2>2. code \in Codes /\ row # None /\ row \in CodeRow
    BY PresentIs, TablesTyped DEF Whole
  <2>3. [tables EXCEPT !.codes[code].is_active = ~@] = Replaced(tables, code, after)
    BY <2>2 DEF Replaced, Whole, Tables
  <2>4. after \in CodeRow /\ after.origin = row.origin
    <3> HIDE DEF row
    <3> QED  BY <2>2 DEF CodeRow
  <2>5. \A key \in Keys : tables.classes[key] # None => tables.classes[key].code # code
    BY <2>1, PresentIs
  <2> HIDE DEF after
  <2> QED  BY <1>1, <2>1, <2>2, <2>3, <2>4, <2>5
<1> QED  BY <1>2, <1>3

LEMMA CustomKeyIsKey == \A n \in DOMAIN CustomKeys : CustomKeys[n] \in Keys
BY DEF Keys

\* Every action that begins a request is such a beginning.
LEMMA RequestBegins ==
    ASSUME Whole(tables), NEW r \in Requests,
           \/ UpdateTaxCode(r) \/ SwitchTaxCode(r) \/ UpdateTaxClass(r)
           \/ CreateTaxRate(r) \/ CreateNoTaxCase(r)
           \/ UpdateActiveCompany(r) \/ ChangeCountry(r)
    PROVE  Begun(r)
<1>1. CASE UpdateTaxCode(r) \/ SwitchTaxCode(r)  BY <1>1, PatchBegins
<1>2. CASE UpdateTaxClass(r)
  <2>1. PICK key \in Present(tables.classes), active \in BOOLEAN :
          Open(r, "patch_class", tables.classes[key].code, Switched(tables, key, active))
    BY <1>2 DEF UpdateTaxClass
  <2>2. key \in Keys /\ tables.classes[key] # None  BY PresentIs
  <2>3. ClassPatched(tables.classes[key].code, tables, Switched(tables, key, active))
    BY <2>2 DEF ClassPatched
  <2>4. SetOut("patch_class", tables.classes[key].code, tables, Switched(tables, key, active))
    BY <2>3 DEF SetOut
  <2> QED  BY <2>1, <2>4 DEF Begun, Kinds
<1>3. CASE CreateTaxRate(r)
  <2>1. PICK n \in DOMAIN CustomKeys :
          /\ IsNext(tables, n)
          /\ \E code \in OwnCodes \ Present(tables.codes), rate \in TypedRates \ {0} :
                Open(r, "create", code, RateCreated(tables, CustomKeys[n], code, rate))
    BY <1>3 DEF CreateTaxRate
  <2>2. PICK code \in OwnCodes \ Present(tables.codes), rate \in TypedRates \ {0} :
            Open(r, "create", code, RateCreated(tables, CustomKeys[n], code, rate))
    BY <2>1
  <2> DEFINE new == RateCreated(tables, CustomKeys[n], code, rate)
  <2>3. CustomKeys[n] \in Keys /\ tables.codes[code] = None
    BY CustomKeyIsKey, PresentIs DEF Codes
  <2>4. tables.classes[CustomKeys[n]] = None  BY <2>1, ConfigurationAssumption DEF IsNext
  <2>5. RateAdded(code, tables, new)  BY <2>3, <2>4 DEF RateAdded
  <2>6. SetOut("create", code, tables, new)  BY <2>5 DEF SetOut
  <2> QED  BY <2>2, <2>6 DEF Begun, Kinds
<1>4. CASE CreateNoTaxCase(r)
  <2>1. PICK code \in OwnCodes \ Present(tables.codes) :
            Open(r, "create", code, NoTaxCaseCreated(tables, code))
    BY <1>4 DEF CreateNoTaxCase
  <2>2. tables.codes[code] = None  BY PresentIs DEF Codes
  <2>3. CaseAdded(code, tables, NoTaxCaseCreated(tables, code))  BY <2>2 DEF CaseAdded
  <2>4. SetOut("create", code, tables, NoTaxCaseCreated(tables, code))  BY <2>3 DEF SetOut
  <2> QED  BY <2>1, <2>4 DEF Begun, Kinds
<1>5. CASE UpdateActiveCompany(r)
  <2>1. PICK country \in Countries : Open(r, "country", None, Seeded(tables, country))
    BY <1>5 DEF UpdateActiveCompany
  <2>2. \A code \in Codes : tables.codes[code] = None
    BY <1>5, PresentIs DEF UpdateActiveCompany
  <2>3. FirstSeeded(tables, Seeded(tables, country))  BY <2>2 DEF FirstSeeded
  <2>4. SetOut("country", None, tables, Seeded(tables, country))  BY <2>3 DEF SetOut
  <2> QED  BY <2>1, <2>4 DEF Begun, Kinds
<1>6. CASE ChangeCountry(r)
  <2>1. PICK country \in Countries, mode \in {"apply_pack", "country_only"} :
            Open(r, "country_change", None, CountryChanged(tables, country, mode))
    BY <1>6 DEF ChangeCountry
  <2> DEFINE new == CountryChanged(tables, country, mode)
  <2>2. \/ new = [tables EXCEPT !.country = country]
        \/ Present(tables.codes) = {} /\ new = Seeded(tables, country)
        \/ new = PackApplied(tables, country)
    BY DEF CountryChanged
  <2>3. Present(tables.codes) = {} => \A code \in Codes : tables.codes[code] = None
    BY PresentIs
  <2> HIDE DEF new
  <2>4. FirstSeeded(tables, new) \/ Moved(tables, new) \/ Applied(tables, new)
    BY <2>2, <2>3 DEF FirstSeeded, Moved, Applied
  <2>5. SetOut("country_change", None, tables, new)  BY <2>4 DEF SetOut
  <2> QED  BY <2>1, <2>5 DEF Begun, Kinds, new
<1> QED  BY <1>1, <1>2, <1>3, <1>4, <1>5, <1>6

-----------------------------------------------------------------------------
(* Whatever the packs and names.                                           *)

Patches == {"patch_code", "patch_class"}

\* A request that is no patch of a code leaves its rate and its text.
Spares(kind, code, t, new) ==
    \A other \in Codes :
        t.codes[other] # None /\ ~(kind \in Patches /\ code = other) =>
            /\ new.codes[other].rate = t.codes[other].rate
            /\ new.codes[other].edited = t.codes[other].edited

LEMMA SetOutParts ==
    ASSUME NEW t, Whole(t), NEW kind, NEW code, NEW new, SetOut(kind, code, t, new)
    PROVE  /\ Whole(new) /\ Kept(t, new) /\ Spares(kind, code, t, new)
           /\ code \in Codes \cup {None}
<1>1. CASE kind = "patch_code" /\ CodePatched(code, t, new)
  <2>1. PICK row \in CodeRow : new = Replaced(t, code, row) /\ row.origin = t.codes[code].origin
    BY <1>1 DEF CodePatched
  <2>2. code \in Codes /\ t.codes[code] # None  BY <1>1 DEF CodePatched
  <2>3. /\ Whole(new) /\ Kept(t, new)
        /\ \A other \in Codes \ {code} : new.codes[other] = t.codes[other]
    BY <2>1, <2>2, ReplacedParts
  <2> QED  BY <1>1, <2>2, <2>3 DEF Spares, Patches
<1>2. CASE kind = "patch_class" /\ ClassPatched(code, t, new)
  <2>1. PICK key \in Keys, active \in BOOLEAN :
          t.classes[key] # None /\ code = t.classes[key].code /\ new = Switched(t, key, active)
    BY <1>2 DEF ClassPatched
  <2>2. SwitchedFrom(t, key, code, active, new)
    <3>1. t.classes[key] # None  BY <2>1
    <3>2. SwitchedFrom(t, key, t.classes[key].code, active, Switched(t, key, active))
      BY <3>1, SwitchedParts
    <3> QED  BY <2>1, <3>2
  <2>3. /\ Whole(new) /\ Kept(t, new) /\ code \in Codes
        /\ \A other \in Codes \ {code} : new.codes[other] = t.codes[other]
    BY <2>2 DEF SwitchedFrom
  <2> QED  BY <1>2, <2>3 DEF Spares, Patches
<1>3. CASE kind = "create" /\ RateAdded(code, t, new)
  <2>1. PICK key \in Keys, rate \in TypedRates \ {0} :
          t.classes[key] = None /\ new = RateCreated(t, key, code, rate)
    BY <1>3 DEF RateAdded
  <2>2. code \in OwnCodes /\ t.codes[code] = None  BY <1>3 DEF RateAdded
  <2>3. /\ Whole(new) /\ Kept(t, new) /\ code \in Codes
        /\ \A other \in Codes \ {code} : new.codes[other] = t.codes[other]
    <3>1. CreatedFrom(t, key, code, rate, new)  BY <2>1, <2>2, CreatedParts
    <3> QED  BY <3>1 DEF CreatedFrom
  <2> QED  BY <2>2, <2>3 DEF Spares
<1>4. CASE kind = "create" /\ CaseAdded(code, t, new)
  <2>1. /\ Whole(new) /\ Kept(t, new) /\ code \in Codes
        /\ \A other \in Codes \ {code} : new.codes[other] = t.codes[other]
    BY <1>4, NoTaxCaseParts DEF CaseAdded
  <2>2. t.codes[code] = None  BY <1>4 DEF CaseAdded
  <2> QED  BY <2>1, <2>2 DEF Spares
<1>5. CASE code = None /\ FirstSeeded(t, new)
  <2>1. PICK country \in Countries :
          (\A other \in Codes : t.codes[other] = None) /\ new = Seeded(t, country)
    BY <1>5 DEF FirstSeeded
  <2>2. Whole(new) /\ Kept(t, new)  BY <2>1, SeededParts
  <2> QED  BY <1>5, <2>1, <2>2 DEF Spares
<1>6. CASE code = None /\ Moved(t, new)
  <2>1. PICK country \in Countries : new = [t EXCEPT !.country = country]
    BY <1>6 DEF Moved
  <2>2. Whole(new) /\ Kept(t, new) /\ new.codes = t.codes  BY <2>1, MovedParts
  <2> QED  BY <1>6, <2>2 DEF Spares
<1>7. CASE code = None /\ Applied(t, new)
  <2>1. PICK country \in Countries : new = PackApplied(t, country)  BY <1>7 DEF Applied
  <2>2. /\ Whole(new) /\ Kept(t, new) /\ PackOf[country] \in SoundPacks
        /\ \A other \in Codes : new.codes[other] = CodeAfter(t, Pack(PackOf[country]), other)
    BY <2>1, AppliedParts, PackOfIsSound
  <2>3. \A other \in Codes : t.codes[other] # None =>
          /\ new.codes[other].rate = t.codes[other].rate
          /\ new.codes[other].edited = t.codes[other].edited
    BY <2>2, WithCodeRow, CodeAfterRow
  <2> QED  BY <1>7, <2>2, <2>3 DEF Spares
<1> QED  BY <1>1, <1>2, <1>3, <1>4, <1>5, <1>6, <1>7 DEF SetOut

WorkRecords == [pc: {"idle", "open"}, kind: Kinds, code: Codes \cup {None},
                seen: Tables, new: Tables]

WorkWhole(w) ==
    /\ Whole(w.seen) /\ Whole(w.new) /\ Kept(w.seen, w.new)
    /\ Spares(w.kind, w.code, w.seen, w.new)

\* Tables stay whole, a request only adds to what it saw, and what it saw is
\* still there.
ConfigInv ==
    /\ Whole(tables)
    /\ work \in [Requests -> WorkRecords]
    /\ edits \in 0..MaxEdits /\ overlaps \in 0..MaxOverlaps
    /\ \A r \in Requests : WorkWhole(work[r]) /\ Kept(work[r].seen, tables)

LEMMA IdleWhole == Idle \in WorkRecords /\ WorkWhole(Idle) /\ \A t : Kept(Idle.seen, t)
<1>1. Idle \in WorkRecords /\ Idle.seen = Empty /\ Idle.new = Empty
  BY EmptyWhole DEF Idle, WorkRecords, Kinds
<1> HIDE DEF Idle
<1> QED  BY <1>1, EmptyWhole DEF WorkWhole, Spares

\* The first tables: the pack of the company's country, or nothing.
LEMMA InitTables ==
    ASSUME Init
    PROVE  tables = Empty \/ \E country \in Countries : tables = Seeded(Empty, country)
<1>1. PICK country \in Countries \cup {None} : tables = Seeded(Empty, country)  BY DEF Init
<1>2. country = None => tables = Empty  BY <1>1 DEF Seeded
<1> QED  BY <1>1, <1>2

LEMMA ConfigInit == Init => ConfigInv
<1> SUFFICES ASSUME Init PROVE ConfigInv  OBVIOUS
<1>1. Whole(tables)  BY InitTables, EmptyWhole, SeededParts
<1>2. work = [r \in Requests |-> Idle] /\ edits = 0 /\ overlaps = 0  BY DEF Init
<1>3. \A r \in Requests : work[r] = Idle  BY <1>2
<1>4. work \in [Requests -> WorkRecords]  BY <1>2, IdleWhole
<1>5. edits \in 0..MaxEdits /\ overlaps \in 0..MaxOverlaps  BY <1>2, ConfigurationAssumption
<1> HIDE DEF Idle
<1> QED  BY <1>1, <1>3, <1>4, <1>5, IdleWhole DEF ConfigInv

\* A request that has begun.
LEMMA BegunWork ==
    ASSUME ConfigInv, NEW r \in Requests, NEW kind \in Kinds, NEW code, NEW new,
           SetOut(kind, code, tables, new), Open(r, kind, code, new)
    PROVE  /\ work' \in [Requests -> WorkRecords]
           /\ work'[r].pc = "open" /\ work'[r].kind = kind /\ work'[r].code = code
           /\ work'[r].seen = tables /\ work'[r].new = new
           /\ \A q \in Requests \ {r} : work'[q] = work[q]
           /\ WorkWhole(work'[r]) /\ Kept(tables, tables)
           /\ work[r].pc = "idle" /\ tables' = tables
<1> DEFINE w == [pc |-> "open", kind |-> kind, code |-> code, seen |-> tables, new |-> new]
<1>1. /\ Whole(tables) /\ Whole(new) /\ Kept(tables, new) /\ Spares(kind, code, tables, new)
      /\ code \in Codes \cup {None}
  BY SetOutParts DEF ConfigInv
<1>2. /\ w \in WorkRecords /\ w.pc = "open" /\ w.kind = kind /\ w.code = code
      /\ w.seen = tables /\ w.new = new
  BY <1>1 DEF WorkRecords, Whole
<1>3. work' = [work EXCEPT ![r] = w] /\ work[r].pc = "idle" /\ tables' = tables
  BY DEF Open, Free
<1> HIDE DEF w
<1>4. WorkWhole(w)  BY <1>1, <1>2 DEF WorkWhole
<1>5. /\ work' \in [Requests -> WorkRecords] /\ work'[r] = w
      /\ \A q \in Requests \ {r} : work'[q] = work[q]
  BY <1>2, <1>3 DEF ConfigInv
<1> QED  BY <1>2, <1>3, <1>4, <1>5, KeptSelf

\* A request that has ended.
LEMMA EndedWork ==
    ASSUME ConfigInv, NEW r \in Requests, Commit(r) \/ Rollback(r)
    PROVE  /\ work' \in [Requests -> WorkRecords] /\ work'[r] = Idle /\ work'[r].pc = "idle"
           /\ work[r].pc = "open" /\ edits' = edits /\ overlaps' = overlaps
           /\ \A q \in Requests \ {r} : work'[q] = work[q]
<1>1. work' = [work EXCEPT ![r] = Idle] /\ work[r].pc = "open"
      /\ edits' = edits /\ overlaps' = overlaps
  BY DEF Commit, Rollback
<1>2. Idle \in WorkRecords /\ Idle.pc = "idle"  BY IdleWhole DEF Idle
<1> HIDE DEF Idle
<1> QED  BY <1>1, <1>2 DEF ConfigInv

\* A commit merges.
LEMMA CommitMerges ==
    ASSUME ConfigInv, NEW r \in Requests, Commit(r)
    PROVE  /\ Mergeable(work[r].seen, work[r].new, tables)
           /\ tables' = Merge(work[r].seen, work[r].new, tables)
           /\ Whole(tables') /\ Kept(tables, tables')
<1>1. Mergeable(work[r].seen, work[r].new, tables)
  BY DEF Commit, Mergeable, ConfigInv, WorkWhole
<1>2. tables' = Merge(work[r].seen, work[r].new, tables)  BY DEF Commit, Merge
<1> QED  BY <1>1, <1>2, MergeParts

LEMMA NextCases ==
    ASSUME ConfigInv, [Next]_vars
    PROVE  UNCHANGED vars \/ \E r \in Requests : Begun(r) \/ Commit(r) \/ Rollback(r)
BY RequestBegins DEF Next, ConfigInv

LEMMA ConfigStep == ConfigInv /\ [Next]_vars => ConfigInv'
<1> SUFFICES ASSUME ConfigInv, [Next]_vars PROVE ConfigInv'  OBVIOUS
<1>1. CASE UNCHANGED vars  BY <1>1 DEF vars, ConfigInv
<1>2. ASSUME NEW r \in Requests, Begun(r) PROVE ConfigInv'
  <2>1. PICK kind, code, new :
          kind \in Kinds /\ SetOut(kind, code, tables, new) /\ Open(r, kind, code, new)
    BY <1>2 DEF Begun
  <2>2. /\ work' \in [Requests -> WorkRecords] /\ work'[r].seen = tables
        /\ \A q \in Requests \ {r} : work'[q] = work[q]
        /\ WorkWhole(work'[r]) /\ Kept(tables, tables) /\ tables' = tables
    BY <2>1, BegunWork
  <2>3. edits' \in 0..MaxEdits /\ overlaps' \in 0..MaxOverlaps
    BY <2>1, ConfigurationAssumption DEF Open, Free, ConfigInv
  <2>4. \A q \in Requests : WorkWhole(work'[q]) /\ Kept(work'[q].seen, tables')
    BY <2>2 DEF ConfigInv
  <2> QED  BY <2>2, <2>3, <2>4 DEF ConfigInv
<1>3. ASSUME NEW r \in Requests, Commit(r) \/ Rollback(r) PROVE ConfigInv'
  <2>1. Whole(tables') /\ Kept(tables, tables')
    BY <1>3, CommitMerges, KeptSelf DEF Rollback, ConfigInv
  <2>2. /\ work' \in [Requests -> WorkRecords] /\ work'[r] = Idle
        /\ edits' = edits /\ overlaps' = overlaps
        /\ \A q \in Requests \ {r} : work'[q] = work[q]
    BY <1>3, EndedWork
  <2>3. \A q \in Requests : WorkWhole(work'[q]) /\ Kept(work'[q].seen, tables')
    BY <2>1, <2>2, IdleWhole, KeptOn DEF ConfigInv
  <2> QED  BY <2>1, <2>2, <2>3 DEF ConfigInv
<1> QED  BY <1>1, <1>2, <1>3, NextCases

LEMMA ConfigAlways == Spec => []ConfigInv
BY ConfigInit, ConfigStep, PTL DEF Spec

\* Every value keeps its type and every rate names a code that exists, for
\* any packs, names and overlapping requests: the country-change plan, the
\* seeding and the column-wise commit between them leave no class behind
\* without its code.
THEOREM ConfigurationTypeOK == Spec => []TypeOK
<1>1. ASSUME ConfigInv PROVE TypeOK
  <2>1. Whole(tables) /\ tables \in Tables  BY <1>1 DEF ConfigInv, Whole
  <2>2. \A key \in Present(tables.classes) :
          tables.classes[key].code \in Present(tables.codes)
    BY <2>1, PresentIs, TablesTyped DEF Whole
  <2>3. \A r \in Requests :
          /\ work[r].pc \in {"idle", "open"} /\ work[r].kind \in Kinds
          /\ work[r].seen \in Tables /\ work[r].new \in Tables
    BY <1>1 DEF ConfigInv, WorkRecords
  <2> QED  BY <1>1, <2>1, <2>2, <2>3 DEF TypeOK, ConfigInv
<1> QED  BY <1>1, ConfigAlways, PTL

-----------------------------------------------------------------------------
(* What a user typed.                                                      *)

\* The code a class of a pack points at, or will, is a pack's.
LEMMA PointedAtIsPack ==
    ASSUME NEW t, Whole(t), NEW name \in SoundPacks, NEW code \in Codes,
           NEW key \in PointingAt(t, Pack(name), code)
    PROVE  /\ key \in Keys /\ code \in PackCodes
           /\ \E other \in SoundPacks :
                key \in DOMAIN Pack(other).classes /\ Pack(other).classes[key].code = code
<1>1. /\ key \in DOMAIN Pack(name).classes \cup Present(t.classes)
      /\ t.classes[key] = None \/ t.classes[key].origin # None
      /\ Target(t, Pack(name), key) = code
  BY DEF PointingAt
<1>2. CASE key \in DOMAIN Pack(name).classes
  <2>1. Pack(name).classes[key].code = code  BY <1>1, <1>2 DEF Target
  <2> QED  BY <1>2, <2>1, PackClassesSeed
<1>3. CASE key \notin DOMAIN Pack(name).classes
  <2>1. key \in Keys /\ t.classes[key] # None  BY <1>1, <1>3, PresentIs
  <2>2. t.classes[key].origin # None /\ t.classes[key].code = code
    BY <1>1, <1>3, <2>1 DEF Target
  <2>3. ClassHome(key, t.classes[key])  BY <2>1 DEF Whole
  <2>4. PICK other \in SoundPacks :
          key \in DOMAIN Pack(other).classes /\ Pack(other).classes[key].code = code
    BY <2>2, <2>3 DEF ClassHome
  <2> QED  BY <2>1, <2>4, PackClassesSeed
<1> QED  BY <1>2, <1>3

\* A country change leaves a row of the company's own alone, given that names
\* are apart.
LEMMA OwnRowKept ==
    ASSUME OwnNamesApart, NEW t, Whole(t), NEW name \in SoundPacks, NEW code \in Codes,
           t.codes[code] # None, t.codes[code].origin = None
    PROVE  CodeAfter(t, Pack(name), code) = t.codes[code]
<1>1. code \notin PackCodes  BY DEF Whole, CodeHome, OwnNamesApart
<1>2. PointingAt(t, Pack(name), code) = {}  BY <1>1, PointedAtIsPack
<1>3. MovingOnto(t, Pack(name), code) = {}  BY <1>2 DEF MovingOnto
<1>4. ~Deactivated(t, Pack(name), code) /\ ~Reactivated(t, Pack(name), code)
  BY DEF Deactivated, Reactivated
<1>5. WithCode(t, Pack(name), code) = t.codes[code]  BY WithCodeRow
<1>6. ActiveAfter(t, Pack(name), code) = t.codes[code].is_active
  BY <1>3, <1>4, <1>5 DEF ActiveAfter
<1> QED  BY <1>5, <1>6, CodeAfterRow

\* A request that is no patch of it leaves such a row as it is.
OwnSpared(kind, code, t, new) ==
    \A other \in Codes :
        t.codes[other] # None /\ ~(kind \in Patches /\ code = other)
            /\ t.codes[other].origin = None => new.codes[other] = t.codes[other]

LEMMA SetOutSparesOwn ==
    ASSUME OwnNamesApart, NEW t, Whole(t), NEW kind, NEW code, NEW new,
           SetOut(kind, code, t, new)
    PROVE  OwnSpared(kind, code, t, new)
<1>1. CASE kind = "patch_code" /\ CodePatched(code, t, new)
  <2>1. PICK row \in CodeRow : new = Replaced(t, code, row) /\ row.origin = t.codes[code].origin
    BY <1>1 DEF CodePatched
  <2>2. code \in Codes /\ t.codes[code] # None  BY <1>1 DEF CodePatched
  <2>3. \A other \in Codes \ {code} : new.codes[other] = t.codes[other]
    BY <2>1, <2>2, ReplacedParts
  <2> QED  BY <1>1, <2>3 DEF OwnSpared, Patches
<1>2. CASE kind = "patch_class" /\ ClassPatched(code, t, new)
  <2>1. PICK key \in Keys, active \in BOOLEAN :
          t.classes[key] # None /\ code = t.classes[key].code /\ new = Switched(t, key, active)
    BY <1>2 DEF ClassPatched
  <2>2. SwitchedFrom(t, key, code, active, new)
    <3>1. t.classes[key] # None  BY <2>1
    <3>2. SwitchedFrom(t, key, t.classes[key].code, active, Switched(t, key, active))
      BY <3>1, SwitchedParts
    <3> QED  BY <2>1, <3>2
  <2>3. \A other \in Codes \ {code} : new.codes[other] = t.codes[other]
    BY <2>2 DEF SwitchedFrom
  <2> QED  BY <1>2, <2>3 DEF OwnSpared, Patches
<1>3. CASE kind = "create" /\ RateAdded(code, t, new)
  <2>1. PICK key \in Keys, rate \in TypedRates \ {0} :
          t.classes[key] = None /\ new = RateCreated(t, key, code, rate)
    BY <1>3 DEF RateAdded
  <2>2. code \in OwnCodes /\ t.codes[code] = None  BY <1>3 DEF RateAdded
  <2>3. \A other \in Codes \ {code} : new.codes[other] = t.codes[other]
    <3>1. CreatedFrom(t, key, code, rate, new)  BY <2>1, <2>2, CreatedParts
    <3> QED  BY <3>1 DEF CreatedFrom
  <2> QED  BY <2>2, <2>3 DEF OwnSpared
<1>4. CASE kind = "create" /\ CaseAdded(code, t, new)
  <2>1. \A other \in Codes \ {code} : new.codes[other] = t.codes[other]
    BY <1>4, NoTaxCaseParts DEF CaseAdded
  <2>2. t.codes[code] = None  BY <1>4 DEF CaseAdded
  <2> QED  BY <2>1, <2>2 DEF OwnSpared
<1>5. CASE FirstSeeded(t, new)  BY <1>5 DEF FirstSeeded, OwnSpared
<1>6. CASE Moved(t, new)
  <2>1. PICK country \in Countries : new = [t EXCEPT !.country = country]
    BY <1>6 DEF Moved
  <2>2. new.codes = t.codes  BY <2>1, MovedParts
  <2> QED  BY <2>2 DEF OwnSpared
<1>7. CASE Applied(t, new)
  <2>1. PICK country \in Countries : new = PackApplied(t, country)  BY <1>7 DEF Applied
  <2>2. /\ PackOf[country] \in SoundPacks
        /\ \A other \in Codes : new.codes[other] = CodeAfter(t, Pack(PackOf[country]), other)
    BY <2>1, AppliedParts, PackOfIsSound
  <2> QED  BY <2>2, OwnRowKept DEF OwnSpared
<1> QED  BY <1>1, <1>2, <1>3, <1>4, <1>5, <1>6, <1>7 DEF SetOut

OwnInv == \A r \in Requests : OwnSpared(work[r].kind, work[r].code, work[r].seen, work[r].new)

LEMMA OwnAlways == ASSUME OwnNamesApart PROVE Spec => []OwnInv
<1>1. \A kind, code, t : OwnSpared(kind, code, Empty, t)  BY EmptyWhole DEF OwnSpared
<1>2. OwnSpared(Idle.kind, Idle.code, Idle.seen, Idle.new)  BY <1>1 DEF Idle
<1>3. Init => OwnInv
  <2> SUFFICES ASSUME Init PROVE OwnInv  OBVIOUS
  <2>1. \A r \in Requests : work[r] = Idle  BY DEF Init
  <2> HIDE DEF Idle
  <2> QED  BY <1>2, <2>1 DEF OwnInv
<1>4. ConfigInv /\ OwnInv /\ [Next]_vars => OwnInv'
  <2> SUFFICES ASSUME ConfigInv, OwnInv, [Next]_vars PROVE OwnInv'  OBVIOUS
  <2>1. CASE UNCHANGED vars  BY <2>1 DEF vars, OwnInv
  <2>2. ASSUME NEW r \in Requests, Begun(r) PROVE OwnInv'
    <3>1. PICK kind, code, new :
            kind \in Kinds /\ SetOut(kind, code, tables, new) /\ Open(r, kind, code, new)
      BY <2>2 DEF Begun
    <3>2. /\ work'[r].kind = kind /\ work'[r].code = code
          /\ work'[r].seen = tables /\ work'[r].new = new
          /\ \A q \in Requests \ {r} : work'[q] = work[q]
      BY <3>1, BegunWork
    <3>3. OwnSpared(kind, code, tables, new)  BY <3>1, SetOutSparesOwn DEF ConfigInv
    <3> QED  BY <3>2, <3>3 DEF OwnInv
  <2>3. ASSUME NEW r \in Requests, Commit(r) \/ Rollback(r) PROVE OwnInv'
    <3>1. work'[r] = Idle /\ \A q \in Requests \ {r} : work'[q] = work[q]
      BY <2>3, EndedWork
    <3> HIDE DEF Idle
    <3> QED  BY <1>2, <3>1 DEF OwnInv
  <2> QED  BY <2>1, <2>2, <2>3, NextCases
<1> QED  BY <1>3, <1>4, ConfigAlways, PTL DEF Spec

\* What a user typed is changed only by a user: with a company's own codes
\* named unlike a pack's, no seeding and no country change, however late it
\* commits over whatever others committed, touches a rate, a text or a row of
\* the company's own.
THEOREM EditsAlwaysSurvive == ASSUME OwnNamesApart PROVE Spec => EditsSurvive
<1> DEFINE Survives(code) ==
            LET before == tables.codes[code]
                after == tables'.codes[code]
            IN \/ after # None /\ after.rate = before.rate /\ after.edited = before.edited
                     /\ (before.origin = None => after = before)
               \/ \E r \in Requests : work[r].kind \in {"patch_code", "patch_class"}
                                         /\ work[r].code = code /\ work'[r].pc = "idle"
<1>1. ASSUME ConfigInv, OwnInv, [Next]_vars
      PROVE  [\A code \in Present(tables.codes) : Survives(code)]_vars
  <2>1. CASE tables' = tables
    BY <2>1, <1>1, PresentIs DEF ConfigInv
  <2>2. ASSUME NEW r \in Requests, Commit(r), NEW code \in Present(tables.codes)
        PROVE  Survives(code)
    <3> DEFINE seen == work[r].seen.codes[code]
               new == work[r].new.codes[code]
               now == tables.codes[code]
               after == Over(seen, new, now)
    <3>1. code \in Codes /\ now # None  BY <1>1, PresentIs DEF ConfigInv
    <3>2. /\ Mergeable(work[r].seen, work[r].new, tables)
          /\ tables' = Merge(work[r].seen, work[r].new, tables)
      BY <1>1, <2>2, CommitMerges
    <3>3. tables'.codes[code] = after  BY <3>1, <3>2, MergeParts
    <3>4. CASE work[r].kind \in Patches /\ work[r].code = code
      <4>1. work'[r].pc = "idle"  BY <1>1, <2>2, EndedWork
      <4> QED  BY <3>4, <4>1 DEF Patches
    <3>5. CASE ~(work[r].kind \in Patches /\ work[r].code = code)
      <4>1. CASE seen = None
        <5>1. after = now  BY <3>1, <3>2, <4>1, MergedCode
        <5> QED  BY <3>1, <3>3, <5>1
      <4>2. CASE seen # None
        <5>1. /\ seen \in CodeRow /\ new \in CodeRow /\ now \in CodeRow /\ after # None
              /\ after.origin = now.origin
          BY <3>1, <3>2, <4>2, MergedCode
        <5>2. new.rate = seen.rate /\ new.edited = seen.edited
          BY <1>1, <3>1, <3>5, <4>2 DEF ConfigInv, WorkWhole, Spares
        <5>3. seen.origin = None => new = seen
          BY <1>1, <3>1, <3>5, <4>2 DEF OwnInv, OwnSpared
        <5>4. now.origin = seen.origin
          BY <1>1, <3>1, <4>2 DEF ConfigInv, Kept
        <5> HIDE DEF seen, new, now, after
        <5>5. /\ after.rate = now.rate /\ after.edited = now.edited
              /\ now.origin = None => after = now
          BY <5>1, <5>2, <5>3, <5>4, OverCode DEF after
        <5> QED  BY <3>3, <5>1, <5>5 DEF now
      <4> QED  BY <4>1, <4>2
    <3> QED  BY <3>4, <3>5
  <2>3. UNCHANGED vars \/ \E r \in Requests : Begun(r) \/ Commit(r) \/ Rollback(r)
    BY <1>1, NextCases
  <2>4. ASSUME NEW r \in Requests, Begun(r) \/ Rollback(r) PROVE tables' = tables
    BY <2>4 DEF Begun, Open, Rollback
  <2> HIDE DEF Survives
  <2> QED  BY <2>1, <2>2, <2>3, <2>4 DEF vars
<1> QED  BY <1>1, ConfigAlways, OwnAlways, PTL DEF Spec, EditsSurvive

-----------------------------------------------------------------------------
(* Rates nobody has set.                                                   *)

\* While requests come one at a time, the one there is sees the tables as
\* they are.
Alone ==
    Calm => \A r \in Requests : work[r].pc = "open" =>
                work[r].seen = tables /\ \A q \in Requests \ {r} : work[q].pc = "idle"

LEMMA AloneAlways == Spec => []Alone
<1>1. Init => Alone
  <2> SUFFICES ASSUME Init, NEW r \in Requests PROVE work[r].pc = "idle"  BY DEF Alone
  <2> QED  BY DEF Init, Idle
<1>2. ConfigInv /\ Alone /\ [Next]_vars => Alone'
  <2> SUFFICES ASSUME ConfigInv, Alone, [Next]_vars PROVE Alone'  OBVIOUS
  <2>1. CASE UNCHANGED vars  BY <2>1 DEF vars, Alone, Calm
  <2>2. ASSUME NEW r \in Requests, Begun(r) PROVE Alone'
    <3>1. PICK kind, code, new :
            kind \in Kinds /\ SetOut(kind, code, tables, new) /\ Open(r, kind, code, new)
      BY <2>2 DEF Begun
    <3>2. /\ work'[r].seen = tables /\ tables' = tables
          /\ \A q \in Requests \ {r} : work'[q] = work[q]
      BY <3>1, BegunWork
    <3>3. overlaps' = 0 => overlaps = 0 /\ \A q \in Requests : work[q].pc = "idle"
      BY <3>1 DEF Open, ConfigInv
    <3> QED  BY <3>2, <3>3 DEF Alone, Calm
  <2>3. ASSUME NEW r \in Requests, Commit(r) \/ Rollback(r) PROVE Alone'
    <3>1. /\ work'[r].pc = "idle" /\ \A q \in Requests \ {r} : work'[q] = work[q]
          /\ work[r].pc = "open" /\ overlaps' = overlaps
      BY <2>3, EndedWork
    <3> QED  BY <3>1 DEF Alone, Calm
  <2> QED  BY <2>1, <2>2, <2>3, NextCases
<1> QED  BY <1>1, <1>2, ConfigAlways, PTL DEF Spec

\* A commit that nobody overlapped leaves what the request worked out.
LEMMA CommitAlone ==
    ASSUME ConfigInv, Alone, Calm, NEW r \in Requests, Commit(r)
    PROVE  /\ work[r].seen = tables
           /\ \A code \in Codes : tables'.codes[code] = work[r].new.codes[code]
           /\ \A key \in Keys : tables'.classes[key] = work[r].new.classes[key]
           /\ tables'.country = work[r].new.country /\ tables'.rules = work[r].new.rules
<1> DEFINE new == work[r].new
<1>1. work[r].seen = tables  BY DEF Alone, Commit
<1>2. Mergeable(tables, new, tables) /\ tables' = Merge(tables, new, tables)
  BY <1>1, CommitMerges
<1> HIDE DEF new
<1>3. ASSUME NEW code \in Codes PROVE tables'.codes[code] = new.codes[code]
  <2>1. tables'.codes[code] = Over(tables.codes[code], new.codes[code], tables.codes[code])
    BY <1>2, MergeParts
  <2>2. CASE tables.codes[code] = None  BY <1>2, <2>1, <2>2, MergedCode
  <2>3. CASE tables.codes[code] # None
    <3>1. tables.codes[code] \in CodeRow /\ new.codes[code] \in CodeRow
      BY <1>2, <2>3, MergedCode
    <3> QED  BY <2>1, <3>1, OverCode
  <2> QED  BY <2>2, <2>3
<1>4. ASSUME NEW key \in Keys PROVE tables'.classes[key] = new.classes[key]
  <2>1. tables'.classes[key]
            = Over(tables.classes[key], new.classes[key], tables.classes[key])
    BY <1>2, MergeParts
  <2>2. CASE tables.classes[key] = None  BY <1>2, <2>1, <2>2, MergedClass
  <2>3. CASE tables.classes[key] # None
    <3>1. tables.classes[key] \in ClassRow /\ new.classes[key] \in ClassRow
      BY <1>2, <2>3, MergedClass
    <3> QED  BY <2>1, <3>1, OverClass
  <2> QED  BY <2>2, <2>3
<1>5. tables'.country = new.country /\ tables'.rules = new.rules  BY <1>2, MergeParts
<1> QED  BY <1>1, <1>3, <1>4, <1>5 DEF new

\* A rate nobody has set that is on was on before.
Dark(t, new) ==
    \A code \in Codes :
        new.codes[code] # None /\ IsUnsetRate(new.codes[code]) /\ new.codes[code].is_active
            => t.codes[code] # None /\ t.codes[code].is_active

\* A row the pack would seed is dark, one there is stays as it is.
LEMMA WithCodeDark ==
    ASSUME UnsetShipsOff, NEW t, Whole(t), NEW name \in SoundPacks, NEW code \in Codes,
           WithCode(t, Pack(name), code) # None, IsUnsetRate(WithCode(t, Pack(name), code)),
           WithCode(t, Pack(name), code).is_active
    PROVE  t.codes[code] # None /\ t.codes[code].is_active
<1>1. CASE t.codes[code] = None
  <2> DEFINE entry == Pack(name).codes[code]
  <2>1. code \in DOMAIN Pack(name).codes /\ WithCode(t, Pack(name), code) = SeededCode(entry)
    BY <1>1, WithCodeRow
  <2>2. /\ SeededCode(entry).category = entry.category /\ SeededCode(entry).rate = entry.rate
        /\ SeededCode(entry).is_active = entry.is_active
    BY <2>1, PackCodesSeed
  <2>3. IsUnsetRate(entry) => ~entry.is_active  BY <2>1 DEF UnsetShipsOff
  <2> HIDE DEF entry
  <2> QED  BY <2>1, <2>2, <2>3 DEF IsUnsetRate
<1>2. CASE t.codes[code] # None  BY <1>2, WithCodeRow
<1> QED  BY <1>1, <1>2

LEMMA SetOutDark ==
    ASSUME UnsetShipsOff, NEW t, Whole(t), NEW kind, NEW code, NEW new,
           SetOut(kind, code, t, new), kind \notin Patches
    PROVE  Dark(t, new)
<1>1. CASE kind = "create" /\ RateAdded(code, t, new)
  <2>1. PICK key \in Keys, rate \in TypedRates \ {0} :
          t.classes[key] = None /\ new = RateCreated(t, key, code, rate)
    BY <1>1 DEF RateAdded
  <2>2. code \in OwnCodes /\ t.codes[code] = None  BY <1>1 DEF RateAdded
  <2>3. CreatedFrom(t, key, code, rate, new)  BY <2>1, <2>2, CreatedParts
  <2>4. OwnRow("S", rate).rate = rate /\ rate # 0  BY DEF OwnRow
  <2>5. ~IsUnsetRate(OwnRow("S", rate))  BY <2>4 DEF IsUnsetRate
  <2> QED  BY <2>3, <2>5 DEF Dark, CreatedFrom
<1>2. CASE kind = "create" /\ CaseAdded(code, t, new)
  <2>1. /\ new.codes[code] = OwnRow("O", 0)
        /\ \A other \in Codes \ {code} : new.codes[other] = t.codes[other]
    BY <1>2, NoTaxCaseParts DEF CaseAdded
  <2>2. OwnRow("O", 0).category = "O"  BY DEF OwnRow
  <2>3. ~IsUnsetRate(OwnRow("O", 0))  BY <2>2 DEF IsUnsetRate
  <2> QED  BY <2>1, <2>3 DEF Dark
<1>3. CASE FirstSeeded(t, new)
  <2>1. PICK country \in Countries : new = Seeded(t, country)  BY <1>3 DEF FirstSeeded
  <2>2. /\ PackOf[country] \in SoundPacks
        /\ \A other \in Codes : new.codes[other] = WithCode(t, Pack(PackOf[country]), other)
    BY <2>1, SeededParts, PackOfIsSound
  <2> QED  BY <2>2, WithCodeDark DEF Dark
<1>4. CASE Moved(t, new)
  <2>1. PICK country \in Countries : new = [t EXCEPT !.country = country]
    BY <1>4 DEF Moved
  <2>2. new.codes = t.codes  BY <2>1, MovedParts
  <2> QED  BY <2>2 DEF Dark
<1>5. CASE Applied(t, new)
  <2>1. PICK country \in Countries : new = PackApplied(t, country)  BY <1>5 DEF Applied
  <2> DEFINE name == PackOf[country]
  <2>2. /\ name \in SoundPacks
        /\ \A other \in Codes : new.codes[other] = CodeAfter(t, Pack(name), other)
    BY <2>1, AppliedParts, PackOfIsSound
  <2> HIDE DEF name
  <2>3. ASSUME NEW other \in Codes, new.codes[other] # None, IsUnsetRate(new.codes[other]),
               new.codes[other].is_active
        PROVE  t.codes[other] # None /\ t.codes[other].is_active
    <3> DEFINE row == WithCode(t, Pack(name), other)
    <3>1. /\ row # None /\ new.codes[other].category = row.category
          /\ new.codes[other].rate = row.rate
          /\ new.codes[other].is_active = ActiveAfter(t, Pack(name), other)
      BY <2>2, <2>3, CodeAfterRow
    <3>2. IsUnsetRate(row)  BY <2>3, <3>1 DEF IsUnsetRate
    <3>3. ~Reactivated(t, Pack(name), other)
      BY <2>2, <3>2, WithCodeRow DEF Reactivated
    <3>4. ~\E key \in MovingOnto(t, Pack(name), other) :
             ActivationFor(row, FlagAfter(t, Pack(name), key))
      BY <3>2 DEF ActivationFor
    <3>5. ActiveAfter(t, Pack(name), other)  BY <2>3, <3>1
    <3>6. row.is_active  BY <2>2, <3>1, <3>3, <3>4, <3>5, ActiveAfterIs
    <3> QED  BY <2>2, <3>1, <3>2, <3>6, WithCodeDark
  <2> QED  BY <2>3 DEF Dark
<1> QED  BY <1>1, <1>2, <1>3, <1>4, <1>5 DEF SetOut, Patches

DarkInv == \A r \in Requests : work[r].kind \notin Patches => Dark(work[r].seen, work[r].new)

LEMMA DarkAlways == ASSUME UnsetShipsOff PROVE Spec => []DarkInv
<1>1. Dark(Idle.seen, Idle.new)
  <2>1. Idle.new = Empty  BY DEF Idle
  <2> QED  BY <2>1, EmptyWhole DEF Dark
<1>2. Init => DarkInv
  <2> SUFFICES ASSUME Init PROVE DarkInv  OBVIOUS
  <2>1. \A r \in Requests : work[r] = Idle  BY DEF Init
  <2> HIDE DEF Idle
  <2> QED  BY <1>1, <2>1 DEF DarkInv
<1>3. ConfigInv /\ DarkInv /\ [Next]_vars => DarkInv'
  <2> SUFFICES ASSUME ConfigInv, DarkInv, [Next]_vars PROVE DarkInv'  OBVIOUS
  <2>1. CASE UNCHANGED vars  BY <2>1 DEF vars, DarkInv
  <2>2. ASSUME NEW r \in Requests, Begun(r) PROVE DarkInv'
    <3>1. PICK kind, code, new :
            kind \in Kinds /\ SetOut(kind, code, tables, new) /\ Open(r, kind, code, new)
      BY <2>2 DEF Begun
    <3>2. /\ work'[r].kind = kind /\ work'[r].seen = tables /\ work'[r].new = new
          /\ \A q \in Requests \ {r} : work'[q] = work[q]
      BY <3>1, BegunWork
    <3>3. kind \notin Patches => Dark(tables, new)  BY <3>1, SetOutDark DEF ConfigInv
    <3> QED  BY <3>2, <3>3 DEF DarkInv
  <2>3. ASSUME NEW r \in Requests, Commit(r) \/ Rollback(r) PROVE DarkInv'
    <3>1. work'[r] = Idle /\ \A q \in Requests \ {r} : work'[q] = work[q]
      BY <2>3, EndedWork
    <3> HIDE DEF Idle
    <3> QED  BY <1>1, <3>1 DEF DarkInv
  <2> QED  BY <2>1, <2>2, <2>3, NextCases
<1> QED  BY <1>2, <1>3, ConfigAlways, PTL DEF Spec

\* Machinery never switches on a rate nobody set: of packs that ship such
\* rates switched off, and while requests come one at a time, only a person's
\* patch does, never a seeding, a move to another country or a new rate.
THEOREM UnsetAlwaysStaysOff == ASSUME UnsetShipsOff PROVE Spec => UnsetStaysOff
<1> DEFINE Lit(code) ==
            (Calm /\ tables'.codes[code] # None /\ IsUnsetRate(tables'.codes[code])
               /\ tables'.codes[code].is_active
               /\ (tables.codes[code] = None \/ ~tables.codes[code].is_active))
           ByHand == \E r \in Requests : work[r].kind \in {"patch_code", "patch_class"}
                                            /\ work'[r].pc = "idle" /\ work[r].pc = "open"
<1>1. ASSUME ConfigInv, Alone, DarkInv, [Next]_vars
      PROVE  [\A code \in Codes : Lit(code) => ByHand]_vars
  <2>1. ASSUME tables' = tables, NEW code \in Codes PROVE ~Lit(code)
    BY <2>1
  <2>2. ASSUME NEW r \in Requests, Commit(r), NEW code \in Codes, Lit(code) PROVE ByHand
    <3>1. work[r].seen = tables /\ tables'.codes[code] = work[r].new.codes[code]
      BY <1>1, <2>2, CommitAlone
    <3>2. work[r].kind \notin Patches => Dark(tables, work[r].new)
      BY <1>1, <3>1 DEF DarkInv
    <3>3. work[r].kind \in Patches  BY <2>2, <3>1, <3>2 DEF Dark
    <3>4. work'[r].pc = "idle" /\ work[r].pc = "open"  BY <1>1, <2>2, EndedWork
    <3> QED  BY <3>3, <3>4 DEF Patches
  <2>3. UNCHANGED vars \/ \E r \in Requests : Begun(r) \/ Commit(r) \/ Rollback(r)
    BY <1>1, NextCases
  <2>4. ASSUME NEW r \in Requests, Begun(r) \/ Rollback(r) PROVE tables' = tables
    BY <2>4 DEF Begun, Open, Rollback
  <2>5. tables' = tables \/ \E r \in Requests : Commit(r)  BY <2>3, <2>4 DEF vars
  <2>6. ASSUME NEW code \in Codes, Lit(code) PROVE ByHand
    <3>1. PICK r \in Requests : Commit(r)  BY <2>1, <2>5, <2>6
    <3> QED  BY <2>2, <2>6, <3>1
  <2> HIDE DEF Lit, ByHand
  <2> QED  BY <2>6
<1> QED  BY <1>1, ConfigAlways, AloneAlways, DarkAlways, PTL DEF Spec, UnsetStaysOff

-----------------------------------------------------------------------------
(* What the rules answer.                                                  *)

\* Positions have a least one, so where some rule matches one is chosen.
LEMMA FirstMatches ==
    ASSUME NEW rules, \A rule \in rules : rule.position \in Nat, NEW context
    PROVE  LET matching == {rule \in rules : rule.is_active /\ Matches(rule, context)}
           IN IF matching = {} THEN FirstMatching(rules, context) = None
              ELSE FirstMatching(rules, context) \in matching
<1> DEFINE matching == {rule \in rules : rule.is_active /\ Matches(rule, context)}
           positions == {rule.position : rule \in matching}
           less == {pair \in Nat \X Nat : pair[1] < pair[2]}
<1>1. CASE matching = {}  BY <1>1 DEF FirstMatching
<1>2. CASE matching # {}
  <2>1. IsWellFoundedOn(less, Nat)  BY NatLessThanWellFounded DEF OpToRel
  <2>2. positions \subseteq Nat /\ positions # {}  BY <1>2
  <2>3. \E least \in positions : \A other \in positions : <<other, least>> \notin less
    <3> HIDE DEF less, positions
    <3> QED  BY <2>1, <2>2, WFMin
  <2>4. PICK least \in positions : \A other \in positions : <<other, least>> \notin less
    BY <2>3
  <2>5. ASSUME NEW other \in positions PROVE least <= other
    <3>1. other \in Nat /\ least \in Nat  BY <2>2
    <3>2. other < least => <<other, least>> \in less
      <4> HIDE DEF positions
      <4> QED  BY <3>1
    <3> HIDE DEF positions, less
    <3> QED  BY <2>4, <3>1, <3>2
  <2>6. PICK first \in matching : first.position = least
    <3> HIDE DEF matching
    <3> QED  BY <2>4
  <2>7. \A other \in matching : first.position <= other.position
    <3>1. \A other \in matching : other.position \in positions  OBVIOUS
    <3> HIDE DEF positions, matching
    <3> QED  BY <2>5, <2>6, <3>1
  <2>8. FirstMatching(rules, context)
            = CHOOSE rule \in matching : \A other \in matching : rule.position <= other.position
    BY <1>2 DEF FirstMatching
  <2> HIDE DEF matching
  <2>9. FirstMatching(rules, context) \in matching  BY <2>7, <2>8
  <2> QED  BY <1>2, <2>9 DEF matching
<1> QED  BY <1>1, <1>2

\* In an engine made from whole tables: its codes, its classes, its rules.
LEMMA EngineParts ==
    ASSUME NEW t, Whole(t), t.rules # None
    PROVE  LET engine == EngineTables(t)
           IN /\ t.rules \in SoundPacks
              /\ DOMAIN engine.codes = {code \in Codes : t.codes[code] # None}
              /\ \A code \in DOMAIN engine.codes : engine.codes[code] = t.codes[code]
              /\ DOMAIN engine.classes = {key \in Keys : t.classes[key] # None}
              /\ \A key \in DOMAIN engine.classes :
                   /\ engine.classes[key] = t.classes[key].code
                   /\ engine.classes[key] \in DOMAIN engine.codes
              /\ \A context \in Contexts :
                   engine.rulings[context] = FirstMatching(Pack(t.rules).rules, context)
<1> DEFINE engine == EngineTables(t)
<1>1. /\ engine.codes = Restrict(t.codes, Present(t.codes))
      /\ engine.classes = [key \in Present(t.classes) |-> t.classes[key].code]
      /\ engine.rulings = Rulings[t.rules]
  BY DEF EngineTables
<1>2. t.rules \in SoundPacks  BY DEF Whole
<1>3. engine.rulings = RulingsOf(Pack(t.rules).rules)  BY <1>1, <1>2 DEF Rulings
<1> HIDE DEF engine
<1>4. /\ DOMAIN engine.codes = {code \in Codes : t.codes[code] # None}
      /\ \A code \in DOMAIN engine.codes : engine.codes[code] = t.codes[code]
  BY <1>1, PresentIs DEF Restrict
<1>5. /\ DOMAIN engine.classes = {key \in Keys : t.classes[key] # None}
      /\ \A key \in DOMAIN engine.classes : engine.classes[key] = t.classes[key].code
  BY <1>1, PresentIs
<1>6. \A key \in Keys : t.classes[key] # None =>
        t.classes[key].code \in Codes /\ t.codes[t.classes[key].code] # None
  BY TablesTyped DEF Whole
<1>7. \A context \in Contexts :
        engine.rulings[context] = FirstMatching(Pack(t.rules).rules, context)
  BY <1>3 DEF RulingsOf
<1> QED  BY <1>2, <1>4, <1>5, <1>6, <1>7 DEF engine

LEMMA SaleParts ==
    ASSUME NEW t, Whole(t), t.rules # None, NEW sale \in Sales(t)
    PROVE  /\ sale.seller_country = t.country /\ t.country # None
           /\ sale.buyer_country \in Countries /\ sale.buyer_country # None
           /\ sale.item_override = None
           /\ \/ sale.party_override = None
              \/ sale.party_override # None
                   /\ sale.party_override.kind = "domestic_for_foreign_business"
           /\ sale.item_class \in Keys /\ t.classes[sale.item_class] # None
           /\ Context(sale) \in Contexts
<1>1. /\ sale.seller_country \in {t.country} /\ sale.buyer_country \in Countries
      /\ sale.item_override \in {None} /\ sale.party_override \in Overrides
      /\ sale.item_class \in Present(t.classes)
      /\ sale.buyer_type \in BuyerTypes /\ sale.buyer_vat_verified \in BOOLEAN
      /\ sale.supply_kind \in SupplyKinds /\ sale.kleinunternehmer \in BOOLEAN
  BY DEF Sales
<1>2. t.country # None  BY DEF Whole
<1>3. sale.buyer_country # None  BY <1>1, ConfigurationAssumption
<1>4. sale.item_class \in Keys /\ t.classes[sale.item_class] # None  BY <1>1, PresentIs
<1>5. sale.party_override = None \/ (sale.party_override # None
          /\ sale.party_override.kind = "domestic_for_foreign_business")
  BY <1>1 DEF Overrides
<1>6. Region(sale.seller_country, sale.buyer_country) \in Regions  BY DEF Region, Regions
<1>7. Context(sale) \in Contexts  BY <1>1, <1>6 DEF Context, Contexts
<1> QED  BY <1>1, <1>2, <1>3, <1>4, <1>5, <1>7

\* The answer is the item's own rate, or the answer of the rule that matches.
LEMMA ProposedIs ==
    ASSUME NEW t, Whole(t), t.rules # None, NEW sale \in Sales(t)
    PROVE  LET engine == EngineTables(t)
               rule == FirstMatching(Pack(t.rules).rules, Context(sale))
               own == engine.classes[sale.item_class]
               code == IF Applies(sale.party_override, sale) THEN own
                       ELSE IF rule = None THEN None
                       ELSE TargetCode(rule.target, sale.item_class, engine.codes, engine.classes)
           IN /\ Proposed(sale, engine).code \in {None, code}
              /\ code # None /\ engine.codes[code].is_active => ~Proposed(sale, engine).blocking
<1> DEFINE engine == EngineTables(t)
           rule == FirstMatching(Pack(t.rules).rules, Context(sale))
           own == engine.classes[sale.item_class]
           target == TargetCode(rule.target, sale.item_class, engine.codes, engine.classes)
           by_rules == FromRules(sale, engine.codes, engine.classes, engine.rulings)
           overridden == FromOverride(sale.party_override, sale, engine.codes, engine.classes)
           chosen == IF Applies(sale.party_override, sale) THEN overridden ELSE by_rules
           code == IF Applies(sale.party_override, sale) THEN own
                   ELSE IF rule = None THEN None ELSE target
           answer == Proposed(sale, engine)
<1>1. /\ sale.seller_country # None /\ sale.buyer_country # None /\ sale.item_override = None
      /\ \/ sale.party_override = None
         \/ sale.party_override.kind = "domestic_for_foreign_business"
      /\ sale.item_class \in DOMAIN engine.classes
      /\ engine.classes[sale.item_class] \in DOMAIN engine.codes
      /\ engine.rulings[Context(sale)] = rule
  BY SaleParts, EngineParts
<1>2. by_rules.code = IF rule = None THEN None ELSE target
  BY <1>1 DEF FromRules, Outcome
<1>3. Applies(sale.party_override, sale) => overridden.code = own
  <2>1. Applies(sale.party_override, sale) => sale.party_override # None  BY DEF Applies
  <2>2. TargetCode([kind |-> "class", name |-> "@item"], sale.item_class, engine.codes,
                   engine.classes) = own
    BY <1>1 DEF TargetCode
  <2>3. sale.party_override.kind # "code" => overridden.code = own
    BY <2>2 DEF FromOverride, Outcome
  <2> QED  BY <1>1, <2>1, <2>3
<1>4. ~Applies(sale.item_override, sale)  BY <1>1 DEF Applies
<1>5. answer = Combined(chosen, by_rules, engine.codes)
  BY <1>1, <1>4 DEF Proposed, Propose
<1> HIDE DEF engine, own, rule, target, by_rules, overridden, answer
<1>6. chosen.code = code  BY <1>2, <1>3
<1> HIDE DEF chosen, code
<1>7. IF code = None \/ ~engine.codes[code].is_active
      THEN answer.code = None
      ELSE answer.code = code /\ ~answer.blocking
  BY <1>5, <1>6 DEF Combined, Blocked
<1> QED  BY <1>7 DEF answer, code, engine, own, rule, target

-----------------------------------------------------------------------------
(* Every sale is priced.                                                   *)

\* The codes the rules name are there as soon as there are rules, and on.
Ready(t) ==
    \A code \in RuleCodes(GenericPack) :
        /\ (t.codes[code] # None) <=> (t.rules # None)
        /\ t.codes[code] # None => t.codes[code].is_active

\* A rule's code, in packs whose rules agree: every pack has it, switched on;
\* no class of a pack charges it; and an active rule of any tables names it.
LEMMA RuleCodeParts ==
    ASSUME RulesAgree, NEW code \in RuleCodes(GenericPack), NEW name \in SoundPacks
    PROVE  /\ code \in Codes /\ code \in PackCodes
           /\ code \in DOMAIN Pack(name).codes /\ Pack(name).codes[code].is_active
           /\ \A key \in DOMAIN Pack(name).classes : Pack(name).classes[key].code # code
           /\ \E rule \in Pack(name).rules :
                rule.is_active /\ rule.target = [kind |-> "code", name |-> code]
<1>1. GenericPack \in SoundPacks  BY ConfigurationAssumption
<1>2. Pack(name).rules = Pack(GenericPack).rules  BY <1>1 DEF RulesAgree
<1>3. code \in RuleCodes(name)  BY <1>2 DEF RuleCodes, ActiveRules
<1>4. PICK rule \in ActiveRules(name) : rule.target.kind = "code" /\ rule.target.name = code
  BY <1>3 DEF RuleCodes
<1>5. rule \in Pack(name).rules /\ rule.is_active  BY DEF ActiveRules
<1>6. rule.target = [kind |-> "code", name |-> code]  BY <1>4 DEF RulesAgree
<1>7. code \in DOMAIN Pack(name).codes
  BY <1>4, <1>5, PacksLoad DEF Loaded, WellFormed
<1>8. Pack(name).codes[code].is_active
          /\ \A key \in DOMAIN Pack(name).classes : Pack(name).classes[key].code # code
  BY <1>3 DEF RulesAgree
<1>9. code \in Codes /\ code \in PackCodes  BY <1>7 DEF PackCodes, Codes
<1> QED  BY <1>5, <1>6, <1>7, <1>8, <1>9

\* So no class of whole tables points at it,
LEMMA RuleCodeUncharged ==
    ASSUME RulesAgree, OwnNamesApart, NEW t, Whole(t), NEW code \in RuleCodes(GenericPack),
           NEW key \in Keys, t.classes[key] # None
    PROVE  t.classes[key].code # code
<1>1. GenericPack \in SoundPacks  BY ConfigurationAssumption
<1>2. code \in PackCodes  BY <1>1, RuleCodeParts
<1>3. ClassHome(key, t.classes[key])  BY DEF Whole
<1>4. CASE t.classes[key].origin = None
  <2>1. t.classes[key].code \in OwnCodes  BY <1>3, <1>4 DEF ClassHome
  <2> QED  BY <1>2, <2>1 DEF OwnNamesApart
<1>5. CASE t.classes[key].origin # None
  <2>1. PICK name \in SoundPacks :
          key \in DOMAIN Pack(name).classes /\ Pack(name).classes[key].code = t.classes[key].code
    BY <1>3, <1>5 DEF ClassHome
  <2>2. Pack(name).classes[key].code # code  BY <2>1, RuleCodeParts
  <2> QED  BY <2>1, <2>2
<1> QED  BY <1>4, <1>5

\* and while there are rules one of them refers to it.
LEMMA RuleCodeReferred ==
    ASSUME RulesAgree, NEW t, Whole(t), t.rules # None, NEW code \in RuleCodes(GenericPack)
    PROVE  RefersToCode(t, code)
BY RuleCodeParts DEF Whole, RefersToCode, RulesOf

\* A rule's code after seeding: the row that was on, or the pack's.
LEMMA WithCodeReady ==
    ASSUME RulesAgree, NEW t, Whole(t), Ready(t), NEW name \in SoundPacks,
           NEW code \in RuleCodes(GenericPack)
    PROVE  WithCode(t, Pack(name), code) # None /\ WithCode(t, Pack(name), code).is_active
<1>1. /\ code \in Codes /\ code \in DOMAIN Pack(name).codes
      /\ Pack(name).codes[code].is_active
  BY RuleCodeParts
<1>2. CASE t.codes[code] = None
  <2>1. WithCode(t, Pack(name), code) = SeededCode(Pack(name).codes[code])
    BY <1>1, <1>2, WithCodeRow
  <2>2. /\ SeededCode(Pack(name).codes[code]) # None
        /\ SeededCode(Pack(name).codes[code]).is_active = Pack(name).codes[code].is_active
    BY <1>1, PackCodesSeed
  <2> QED  BY <1>1, <2>1, <2>2
<1>3. CASE t.codes[code] # None
  <2>1. WithCode(t, Pack(name), code) = t.codes[code]  BY <1>1, <1>3, WithCodeRow
  <2> QED  BY <1>3, <2>1 DEF Ready
<1> QED  BY <1>2, <1>3

\* What any request sets out to do keeps them there and on.
LEMMA SetOutReady ==
    ASSUME RulesAgree, OwnNamesApart, NEW t, Whole(t), Ready(t), NEW kind, NEW code, NEW new,
           SetOut(kind, code, t, new)
    PROVE  Ready(new)
<1> USE DEF Ready
<1>1. \A rc \in RuleCodes(GenericPack) : rc \in Codes /\ rc \in PackCodes
  BY RuleCodeParts, ConfigurationAssumption
<1>2. CASE kind = "patch_code" /\ CodePatched(code, t, new)
  <2>1. PICK row \in CodeRow :
          /\ new = Replaced(t, code, row) /\ row.origin = t.codes[code].origin
          /\ \/ row.is_active = t.codes[code].is_active
             \/ t.codes[code].is_active => ~RefersToCode(t, code)
    BY <1>2 DEF CodePatched
  <2>2. code \in Codes /\ t.codes[code] # None  BY <1>2 DEF CodePatched
  <2>3. /\ new.rules = t.rules /\ new.codes[code] = row
        /\ \A other \in Codes \ {code} : new.codes[other] = t.codes[other]
    BY <2>1, <2>2, ReplacedParts
  <2>4. row # None  BY TaxNullAssumption
  <2>5. code \in RuleCodes(GenericPack) => row.is_active
    <3> SUFFICES ASSUME code \in RuleCodes(GenericPack) PROVE row.is_active  OBVIOUS
    <3>1. t.rules # None /\ t.codes[code].is_active  BY <2>2
    <3>2. RefersToCode(t, code)  BY <3>1, RuleCodeReferred
    <3> QED  BY <2>1, <3>1, <3>2
  <2> QED  BY <1>1, <2>2, <2>3, <2>4, <2>5
<1>3. CASE kind = "patch_class" /\ ClassPatched(code, t, new)
  <2>1. PICK key \in Keys, active \in BOOLEAN :
          t.classes[key] # None /\ code = t.classes[key].code /\ new = Switched(t, key, active)
    BY <1>3 DEF ClassPatched
  <2>2. SwitchedFrom(t, key, code, active, new)
    <3>1. t.classes[key] # None  BY <2>1
    <3>2. SwitchedFrom(t, key, t.classes[key].code, active, Switched(t, key, active))
      BY <3>1, SwitchedParts
    <3> QED  BY <2>1, <3>2
  <2>3. code \notin RuleCodes(GenericPack)
    <3>1. t.classes[key] # None /\ code = t.classes[key].code  BY <2>1
    <3> QED  BY <3>1, RuleCodeUncharged
  <2>4. new.rules = t.rules /\ \A other \in Codes \ {code} : new.codes[other] = t.codes[other]
    BY <2>2 DEF SwitchedFrom
  <2> QED  BY <1>1, <2>3, <2>4
<1>4. CASE kind = "create" /\ RateAdded(code, t, new)
  <2>1. PICK key \in Keys, rate \in TypedRates \ {0} :
          t.classes[key] = None /\ new = RateCreated(t, key, code, rate)
    BY <1>4 DEF RateAdded
  <2>2. code \in OwnCodes /\ t.codes[code] = None  BY <1>4 DEF RateAdded
  <2>3. CreatedFrom(t, key, code, rate, new)  BY <2>1, <2>2, CreatedParts
  <2>4. code \notin RuleCodes(GenericPack)  BY <1>1, <2>2 DEF OwnNamesApart
  <2>5. new.rules = t.rules /\ \A other \in Codes \ {code} : new.codes[other] = t.codes[other]
    BY <2>3 DEF CreatedFrom
  <2> QED  BY <1>1, <2>4, <2>5
<1>5. CASE kind = "create" /\ CaseAdded(code, t, new)
  <2>1. /\ new.rules = t.rules
        /\ \A other \in Codes \ {code} : new.codes[other] = t.codes[other]
    BY <1>5, NoTaxCaseParts DEF CaseAdded
  <2>2. code \notin RuleCodes(GenericPack)  BY <1>1, <1>5 DEF OwnNamesApart, CaseAdded
  <2> QED  BY <1>1, <2>1, <2>2
<1>6. CASE FirstSeeded(t, new)
  <2>1. PICK country \in Countries : new = Seeded(t, country)  BY <1>6 DEF FirstSeeded
  <2> DEFINE name == PackOf[country]
  <2>2. /\ name \in SoundPacks /\ name # None
        /\ new.rules = (IF t.rules = None THEN name ELSE t.rules)
        /\ \A other \in Codes : new.codes[other] = WithCode(t, Pack(name), other)
    BY <2>1, SeededParts, PackOfIsSound, ConfigurationAssumption DEF SoundPacks
  <2> HIDE DEF name
  <2>3. new.rules # None  BY <2>2
  <2>4. ASSUME NEW rc \in RuleCodes(GenericPack)
        PROVE  new.codes[rc] # None /\ new.codes[rc].is_active
    BY <2>2, <1>1, WithCodeReady
  <2> QED  BY <2>3, <2>4
<1>7. CASE Moved(t, new)
  <2>1. PICK country \in Countries : new = [t EXCEPT !.country = country]
    BY <1>7 DEF Moved
  <2>2. new.codes = t.codes /\ new.rules = t.rules  BY <2>1, MovedParts
  <2> QED  BY <2>2
<1>8. CASE Applied(t, new)
  <2>1. PICK country \in Countries : new = PackApplied(t, country)  BY <1>8 DEF Applied
  <2> DEFINE name == PackOf[country]
  <2>2. /\ name \in SoundPacks /\ name # None
        /\ new.rules = (IF RulesOf(t) # Pack(name).rules THEN name ELSE t.rules)
        /\ \A other \in Codes : new.codes[other] = CodeAfter(t, Pack(name), other)
    BY <2>1, AppliedParts, PackOfIsSound, ConfigurationAssumption DEF SoundPacks
  <2> HIDE DEF name
  <2>3. new.rules # None
    <3>1. Pack(name).rules # {}  BY <2>2, PacksLoad DEF Loaded, WellFormed
    <3> QED  BY <2>2, <3>1 DEF RulesOf
  <2>4. ASSUME NEW rc \in RuleCodes(GenericPack)
        PROVE  new.codes[rc] # None /\ new.codes[rc].is_active
    <3>1. /\ WithCode(t, Pack(name), rc) # None
          /\ WithCode(t, Pack(name), rc).is_active
      BY <1>1, <2>2, WithCodeReady
    <3>2. PointingAt(t, Pack(name), rc) = {}
      <4>1. ASSUME NEW key \in PointingAt(t, Pack(name), rc) PROVE FALSE
        <5>1. \E other \in SoundPacks :
                key \in DOMAIN Pack(other).classes /\ Pack(other).classes[key].code = rc
          BY <1>1, <2>2, PointedAtIsPack
        <5> QED  BY <5>1, RuleCodeParts
      <4> QED  BY <4>1
    <3>3. MovingOnto(t, Pack(name), rc) = {}  BY <3>2 DEF MovingOnto
    <3>4. rc \in DOMAIN Pack(name).codes  BY <2>2, RuleCodeParts
    <3>5. ActiveAfter(t, Pack(name), rc)  BY <3>1, <3>3, <3>4 DEF ActiveAfter, Deactivated
    <3> QED  BY <1>1, <2>2, <3>1, <3>5, CodeAfterRow
  <2> QED  BY <2>3, <2>4
<1> QED  BY <1>2, <1>3, <1>4, <1>5, <1>6, <1>7, <1>8 DEF SetOut

\* A commit over what others committed keeps them too.
LEMMA MergeReady ==
    ASSUME RulesAgree, NEW seen, NEW new, NEW now, Mergeable(seen, new, now),
           Ready(seen), Ready(new), Ready(now)
    PROVE  Ready(Merge(seen, new, now))
<1> DEFINE after == Merge(seen, new, now)
<1>1. after.rules = IF new.rules # seen.rules THEN new.rules ELSE now.rules
  BY MergeParts
<1>2. (after.rules # None) <=> (new.rules # None \/ now.rules # None)
  BY <1>1 DEF Mergeable, Kept
<1>3. ASSUME NEW code \in RuleCodes(GenericPack)
      PROVE  /\ (after.codes[code] # None) <=> (after.rules # None)
             /\ after.codes[code] # None => after.codes[code].is_active
  <2> DEFINE s == seen.codes[code]
             n == new.codes[code]
             w == now.codes[code]
             a == after.codes[code]
  <2>1. code \in Codes  BY RuleCodeParts, ConfigurationAssumption
  <2>2. a = Over(s, n, w)  BY <2>1, MergeParts
  <2>3. /\ (n # None) <=> (new.rules # None)
        /\ (w # None) <=> (now.rules # None)
        /\ s # None => s.is_active
        /\ n # None => n.is_active
        /\ w # None => w.is_active
    BY DEF Ready
  <2>4. CASE s = None
    <3>1. IF n = None THEN a = w ELSE w = None /\ a = n  BY <2>1, <2>2, <2>4, MergedCode
    <3> QED  BY <1>2, <2>3, <3>1
  <2>5. CASE s # None
    <3>1. s \in CodeRow /\ n \in CodeRow /\ w \in CodeRow  BY <2>1, <2>5, MergedCode
    <3>2. n # None /\ w # None  BY <3>1, TaxNullAssumption
    <3> HIDE DEF s, n, w, a
    <3>3. /\ Over(s, n, w) # None
          /\ Over(s, n, w).is_active = IF n.is_active # s.is_active THEN n.is_active
                                       ELSE w.is_active
      BY <3>1, OverCode
    <3> QED  BY <1>2, <2>2, <2>3, <3>2, <3>3 DEF a
  <2> QED  BY <2>4, <2>5
<1> QED  BY <1>3 DEF Ready

ReadyInv == Ready(tables) /\ \A r \in Requests : Ready(work[r].seen) /\ Ready(work[r].new)

LEMMA ReadyAlways == ASSUME RulesAgree, OwnNamesApart PROVE Spec => []ReadyInv
<1>1. Ready(Empty)
  <2>1. \A code \in RuleCodes(GenericPack) : code \in Codes
    BY RuleCodeParts, ConfigurationAssumption
  <2> QED  BY <2>1, EmptyWhole DEF Ready
<1>2. Idle.seen = Empty /\ Idle.new = Empty  BY DEF Idle
<1>3. Init => ReadyInv
  <2> SUFFICES ASSUME Init PROVE ReadyInv  OBVIOUS
  <2>1. \A r \in Requests : work[r] = Idle  BY DEF Init
  <2>2. ASSUME NEW country \in Countries PROVE Ready(Seeded(Empty, country))
    <3>1. FirstSeeded(Empty, Seeded(Empty, country))  BY EmptyWhole DEF FirstSeeded
    <3>2. SetOut("country", None, Empty, Seeded(Empty, country))  BY <3>1 DEF SetOut
    <3> QED  BY <1>1, <3>2, EmptyWhole, SetOutReady
  <2>3. Ready(tables)  BY <1>1, <2>2, InitTables
  <2> HIDE DEF Idle
  <2> QED  BY <1>1, <1>2, <2>1, <2>3 DEF ReadyInv
<1>4. ConfigInv /\ ReadyInv /\ [Next]_vars => ReadyInv'
  <2> SUFFICES ASSUME ConfigInv, ReadyInv, [Next]_vars PROVE ReadyInv'  OBVIOUS
  <2>1. CASE UNCHANGED vars  BY <2>1 DEF vars, ReadyInv
  <2>2. ASSUME NEW r \in Requests, Begun(r) PROVE ReadyInv'
    <3>1. PICK kind, code, new :
            kind \in Kinds /\ SetOut(kind, code, tables, new) /\ Open(r, kind, code, new)
      BY <2>2 DEF Begun
    <3>2. /\ work'[r].seen = tables /\ work'[r].new = new /\ tables' = tables
          /\ \A q \in Requests \ {r} : work'[q] = work[q]
      BY <3>1, BegunWork
    <3>3. Ready(new)  BY <3>1, SetOutReady DEF ConfigInv, ReadyInv
    <3> QED  BY <3>2, <3>3 DEF ReadyInv
  <2>3. ASSUME NEW r \in Requests, Commit(r) \/ Rollback(r) PROVE ReadyInv'
    <3>1. work'[r] = Idle /\ \A q \in Requests \ {r} : work'[q] = work[q]
      BY <2>3, EndedWork
    <3>2. ASSUME Commit(r) PROVE Ready(tables')
      <4>1. /\ Mergeable(work[r].seen, work[r].new, tables)
            /\ tables' = Merge(work[r].seen, work[r].new, tables)
        BY <3>2, CommitMerges
      <4> QED  BY <4>1, MergeReady DEF ReadyInv
    <3>3. Ready(tables')  BY <2>3, <3>2 DEF Rollback, ReadyInv
    <3> HIDE DEF Idle
    <3> QED  BY <1>1, <1>2, <3>1, <3>3 DEF ReadyInv
  <2> QED  BY <2>1, <2>2, <2>3, NextCases
<1> QED  BY <1>3, <1>4, ConfigAlways, PTL DEF Spec

\* With rules, in every context one of them answers, and the code it names is
\* there and on.
LEMMA RulesPrice ==
    ASSUME RulesAgree, NEW t, Whole(t), Ready(t), t.rules # None, NEW sale \in Sales(t)
    PROVE  LET engine == EngineTables(t)
               rule == FirstMatching(Pack(t.rules).rules, Context(sale))
               own == engine.classes[sale.item_class]
               target == TargetCode(rule.target, sale.item_class, engine.codes, engine.classes)
           IN /\ rule # None
              /\ target # None
              /\ target = own \/ engine.codes[target].is_active
<1> DEFINE engine == EngineTables(t)
           name == t.rules
           rule == FirstMatching(Pack(t.rules).rules, Context(sale))
           own == engine.classes[sale.item_class]
           target == TargetCode(rule.target, sale.item_class, engine.codes, engine.classes)
<1>1. name \in SoundPacks /\ Context(sale) \in Contexts  BY EngineParts, SaleParts
<1>2. \A r \in Pack(name).rules : r # None /\ r.position \in Nat
  BY <1>1, PacksLoad DEF Loaded, EntriesTyped
<1>3. \E r \in ActiveRules(name) : Matches(r, Context(sale))  BY <1>1 DEF RulesAgree
<1>4. rule \in Pack(name).rules /\ rule.is_active
  BY <1>2, <1>3, FirstMatches DEF ActiveRules
<1>5. rule \in ActiveRules(name) /\ rule # None  BY <1>2, <1>4 DEF ActiveRules
<1>6. /\ own \in DOMAIN engine.codes /\ own \in Codes /\ sale.item_class \in DOMAIN engine.classes
      /\ DOMAIN engine.codes = {code \in Codes : t.codes[code] # None}
      /\ \A code \in DOMAIN engine.codes : engine.codes[code] = t.codes[code]
  BY SaleParts, EngineParts
<1>7. CASE rule.target = [kind |-> "class", name |-> "@item"]
  <2>1. target = own
    <3> HIDE DEF rule, engine
    <3> QED  BY <1>6, <1>7 DEF TargetCode, own
  <2> QED  BY <1>5, <1>6, <2>1, TaxNullAssumption
<1>8. CASE rule.target.kind = "code"
  <2> DEFINE code == rule.target.name
  <2>1. code \in RuleCodes(name)  BY <1>5, <1>8 DEF RuleCodes
  <2>2. Pack(name).rules = Pack(GenericPack).rules
    BY <1>1, ConfigurationAssumption DEF RulesAgree
  <2>3. code \in RuleCodes(GenericPack)  BY <2>1, <2>2 DEF RuleCodes, ActiveRules
  <2>4. code \in Codes  BY <1>1, <2>3, RuleCodeParts
  <2>5. t.codes[code] # None /\ t.codes[code].is_active  BY <2>3 DEF Ready
  <2>6. code \in DOMAIN engine.codes /\ engine.codes[code].is_active
    BY <1>6, <2>4, <2>5
  <2>7. target = code
    <3> HIDE DEF rule, engine
    <3> QED  BY <1>8, <2>6 DEF TargetCode
  <2> QED  BY <1>5, <2>4, <2>6, <2>7, TaxNullAssumption
<1> QED  BY <1>1, <1>5, <1>7, <1>8 DEF RulesAgree

\* A company with a configuration can price every sale of an item whose rate
\* is switched on, whatever was edited, retired, created or moved, and however
\* requests overlapped: where packs have the same rules, which answer in every
\* context with the item's rate or with codes that are on and that no class
\* charges, and no code of the company's own is named like a pack's.
THEOREM EverySaleAlwaysPriced ==
    ASSUME RulesAgree, OwnNamesApart PROVE Spec => []EverySalePriced
<1>1. ASSUME ConfigInv, ReadyInv PROVE EverySalePriced
  <2> SUFFICES ASSUME tables.rules # None, NEW engine \in {EngineTables(tables)},
                      NEW sale \in Sales(tables),
                      engine.codes[engine.classes[sale.item_class]].is_active
               PROVE  ~Proposed(sale, engine).blocking
    BY DEF EverySalePriced
  <2> DEFINE rule == FirstMatching(Pack(tables.rules).rules, Context(sale))
             own == engine.classes[sale.item_class]
             target == TargetCode(rule.target, sale.item_class, engine.codes, engine.classes)
             code == IF Applies(sale.party_override, sale) THEN own
                     ELSE IF rule = None THEN None ELSE target
  <2>1. Whole(tables) /\ Ready(tables) /\ engine = EngineTables(tables)
    BY <1>1 DEF ConfigInv, ReadyInv
  <2>2. rule # None /\ target # None /\ (target = own \/ engine.codes[target].is_active)
    BY <2>1, RulesPrice
  <2>3. own \in DOMAIN engine.codes /\ own \in Codes
    BY <2>1, SaleParts, EngineParts
  <2>4. own # None  BY <2>3, TaxNullAssumption
  <2>5. code # None /\ engine.codes[code].is_active => ~Proposed(sale, engine).blocking
    BY <2>1, ProposedIs
  <2> HIDE DEF rule, target
  <2> QED  BY <2>2, <2>4, <2>5
<1> QED  BY <1>1, ConfigAlways, ReadyAlways, PTL

\* Without tax only for a reason: whatever happened to the tables, and however
\* requests overlapped, a sale gets an answer other than the item's own rate
\* only for a small business, or for a business buyer abroad, verified where
\* the EU asks for it; of packs whose rules say so.
THEOREM OwnRateAlwaysUnlessReason ==
    ASSUME RulesHaveReasons PROVE Spec => []OwnRateUnlessReason
<1>1. ASSUME ConfigInv PROVE OwnRateUnlessReason
  <2> SUFFICES ASSUME tables.rules # None, NEW engine \in {EngineTables(tables)},
                      NEW sale \in Sales(tables), ~sale.kleinunternehmer,
                      ~(/\ sale.buyer_type = "business" /\ sale.party_override = None
                        /\ sale.buyer_country # tables.country
                        /\ {sale.buyer_country, tables.country} \subseteq EUMembers
                               => sale.buyer_vat_verified)
               PROVE  Proposed(sale, engine).code \in {None, engine.classes[sale.item_class]}
    BY DEF OwnRateUnlessReason
  <2> DEFINE rule == FirstMatching(Pack(tables.rules).rules, Context(sale))
             own == engine.classes[sale.item_class]
             target == TargetCode(rule.target, sale.item_class, engine.codes, engine.classes)
             code == IF Applies(sale.party_override, sale) THEN own
                     ELSE IF rule = None THEN None ELSE target
  <2>1. Whole(tables) /\ engine = EngineTables(tables) /\ tables.rules \in SoundPacks
    BY <1>1 DEF ConfigInv, Whole
  <2>2. Proposed(sale, engine).code \in {None, code}  BY <2>1, ProposedIs
  <2>3. ASSUME ~Applies(sale.party_override, sale), rule # None PROVE target = own
    <3>1. \A r \in Pack(tables.rules).rules : r.position \in Nat
      BY <2>1, PacksLoad DEF Loaded, EntriesTyped
    <3>2. rule \in ActiveRules(tables.rules) /\ Matches(rule, Context(sale))
      BY <2>3, <3>1, FirstMatches DEF ActiveRules
    <3>3. /\ sale.seller_country = tables.country
          /\ \/ sale.party_override = None
             \/ sale.party_override # None
                  /\ sale.party_override.kind = "domestic_for_foreign_business"
          /\ sale.item_class \in DOMAIN engine.classes /\ own \in DOMAIN engine.codes
      BY <2>1, SaleParts, EngineParts
    <3> HIDE DEF rule, own
    <3>4. ~Requires(rule, "seller_is_kleinunternehmer", TRUE)
      BY <3>2 DEF Requires, Matches, Context
    <3>5. Requires(rule, "buyer_type", "business") => sale.buyer_type = "business"
      BY <3>2 DEF Requires, Matches, Context
    <3>6. \A region : Requires(rule, "buyer_region", region) =>
            region = Region(tables.country, sale.buyer_country)
      BY <3>2, <3>3 DEF Requires, Matches, Context
    <3>7. Requires(rule, "buyer_vat_verified", TRUE) => sale.buyer_vat_verified
      BY <3>2 DEF Requires, Matches, Context
    <3>8. ASSUME sale.buyer_type = "business",
                 \/ Region(tables.country, sale.buyer_country) = "non_eu"
                 \/ /\ Region(tables.country, sale.buyer_country) = "eu_other"
                    /\ sale.buyer_vat_verified
          PROVE  FALSE
      <4>1. sale.buyer_country # tables.country  BY <3>8 DEF Region
      <4>2. sale.party_override = None
        BY <2>3, <3>3, <3>8 DEF Applies
      <4>3. {sale.buyer_country, tables.country} \subseteq EUMembers
               => sale.buyer_vat_verified
        BY <3>8, <4>1 DEF Region
      <4> QED  BY <3>8, <4>1, <4>2, <4>3
    <3>9. rule.target = [kind |-> "class", name |-> "@item"]
      BY <2>1, <3>2, <3>4, <3>5, <3>6, <3>7, <3>8 DEF RulesHaveReasons
    <3> QED  BY <3>3, <3>9 DEF TargetCode, own
  <2> HIDE DEF rule, target
  <2> QED  BY <2>2, <2>3
<1> QED  BY <1>1, ConfigAlways, PTL

-----------------------------------------------------------------------------
(* A class and its code are switched together.                             *)

\* No two classes point at one code,
Single(t) ==
    \A key, other \in Keys :
        t.classes[key] # None /\ t.classes[other] # None
            /\ t.classes[key].code = t.classes[other].code => key = other

\* and a code that is on has its class on.
Paired(t) ==
    \A key \in Keys :
        t.classes[key] # None /\ t.codes[t.classes[key].code].is_active
            => t.classes[key].is_active

\* Tables whose own classes are those of tables with one class for a code have
\* one class for a code: the packs see to the others.
LEMMA SingleKept ==
    ASSUME ClassesAgree, OwnNamesApart, NEW t, Single(t), NEW new, Whole(new),
           \A key \in Keys : new.classes[key] # None /\ new.classes[key].origin = None =>
                t.classes[key] # None /\ t.classes[key].code = new.classes[key].code
    PROVE  Single(new)
<1> SUFFICES ASSUME NEW key \in Keys, NEW other \in Keys,
                    new.classes[key] # None, new.classes[other] # None,
                    new.classes[key].code = new.classes[other].code
             PROVE  key = other
  BY DEF Single
<1>1. \A k \in Keys : new.classes[k] # None =>
        IF new.classes[k].origin = None THEN new.classes[k].code \in OwnCodes
        ELSE /\ new.classes[k].code \in PackCodes
             /\ \E name \in SoundPacks :
                  k \in DOMAIN Pack(name).classes
                    /\ Pack(name).classes[k].code = new.classes[k].code
  BY PackClassesSeed DEF Whole, ClassHome
<1>2. CASE new.classes[key].origin = None /\ new.classes[other].origin = None
  BY <1>2 DEF Single
<1>3. CASE new.classes[key].origin # None /\ new.classes[other].origin # None
  <2>1. PICK name \in SoundPacks :
          key \in DOMAIN Pack(name).classes
            /\ Pack(name).classes[key].code = new.classes[key].code
    BY <1>1, <1>3
  <2>2. PICK elsewhere \in SoundPacks :
          other \in DOMAIN Pack(elsewhere).classes
            /\ Pack(elsewhere).classes[other].code = new.classes[other].code
    BY <1>1, <1>3
  <2> QED  BY <2>1, <2>2 DEF ClassesAgree
<1>4. CASE (new.classes[key].origin = None) # (new.classes[other].origin = None)
  BY <1>1, <1>4 DEF OwnNamesApart
<1> QED  BY <1>2, <1>3, <1>4

\* The new country's pack switches a code on only with its class.
LEMMA AppliedPaired ==
    ASSUME ClassesAgree, OwnNamesApart, NEW t, Whole(t), Paired(t), NEW name \in SoundPacks,
           NEW key \in Keys, ClassAfter(t, Pack(name), key) # None,
           CodeAfter(t, Pack(name), ClassAfter(t, Pack(name), key).code).is_active
    PROVE  ClassAfter(t, Pack(name), key).is_active
<1> DEFINE line == ClassAfter(t, Pack(name), key)
           code == line.code
<1>1. line \in ClassRow /\ ClassHome(key, line) /\ code \in Codes
  BY ClassAfterRow DEF ClassRow
<1>2. CASE t.classes[key] # None /\ t.classes[key].origin = None
  <2>1. /\ code = t.classes[key].code /\ line.is_active = t.classes[key].is_active
        /\ line.origin = None
    BY <1>2, ClassAfterRow
  <2>2. code \in OwnCodes  BY <1>1, <2>1 DEF ClassHome
  <2>3. t.codes[code] # None /\ CodeHome(code, t.codes[code])
    BY <1>1, <1>2, <2>1 DEF Whole
  <2>4. t.codes[code].origin = None  BY <2>2, <2>3 DEF CodeHome, OwnNamesApart
  <2>5. CodeAfter(t, Pack(name), code) = t.codes[code]  BY <1>1, <2>3, <2>4, OwnRowKept
  <2>6. t.codes[t.classes[key].code].is_active  BY <2>1, <2>5
  <2> QED  BY <1>2, <2>1, <2>6 DEF Paired
<1>3. CASE t.classes[key] = None \/ t.classes[key].origin # None
  <2>1. /\ code = Target(t, Pack(name), key)
        /\ line.is_active = FlagAfter(t, Pack(name), key)
        /\ key \in DOMAIN Pack(name).classes \cup Present(t.classes)
    <3>1. CASE t.classes[key] = None
      <4>1. /\ line = WithClass(t, Pack(name), key)
            /\ key \in DOMAIN Pack(name).classes
            /\ line = SeededClass(Pack(name).classes[key])
        BY <3>1, ClassAfterRow, WithClassRow
      <4>2. /\ line.code = Pack(name).classes[key].code
            /\ line.is_active = Pack(name).classes[key].is_active
        BY <4>1, PackClassesSeed
      <4> QED  BY <3>1, <4>1, <4>2 DEF Target, FlagAfter
    <3>2. CASE t.classes[key] # None
      BY <1>3, <3>2, ClassAfterRow, PresentIs DEF FlagAfter
    <3> QED  BY <3>1, <3>2
  <2>2. key \in PointingAt(t, Pack(name), code)  BY <1>3, <2>1 DEF PointingAt
  <2>3. \A other \in PointingAt(t, Pack(name), code) : other = key
    <3>1. \A k \in PointingAt(t, Pack(name), code) : \E pack \in SoundPacks :
            k \in DOMAIN Pack(pack).classes /\ Pack(pack).classes[k].code = code
      BY <1>1, PointedAtIsPack
    <3> HIDE DEF code, line
    <3> QED  BY <2>2, <3>1 DEF ClassesAgree
  <2>4. WithCode(t, Pack(name), code) # None /\ ActiveAfter(t, Pack(name), code)
    <3>1. WithCode(t, Pack(name), code) # None
      <4>1. \/ code \in DOMAIN Pack(name).codes
            \/ t.classes[key] # None /\ code = t.classes[key].code
        BY ClassAfterRow
      <4>2. t.classes[key] # None /\ code = t.classes[key].code => t.codes[code] # None
        BY DEF Whole
      <4> HIDE DEF code, line
      <4> QED  BY <1>1, <4>1, <4>2, WithCodeRow
    <3>2. CodeAfter(t, Pack(name), code).is_active  OBVIOUS
    <3> HIDE DEF code, line
    <3> QED  BY <1>1, <3>1, <3>2, CodeAfterRow
  <2>5. CASE Reactivated(t, Pack(name), code)
    <3>1. PICK other \in DOMAIN Pack(name).classes :
            Pack(name).classes[other].code = code /\ FlagAfter(t, Pack(name), other)
      BY <2>5 DEF Reactivated, ClassWanting
    <3>2. key \in Keys /\ \E pack \in SoundPacks :
            key \in DOMAIN Pack(pack).classes /\ Pack(pack).classes[key].code = code
      BY <1>1, <2>2, PointedAtIsPack
    <3> HIDE DEF code, line
    <3>3. other = key  BY <3>1, <3>2 DEF ClassesAgree
    <3> QED  BY <2>1, <3>1, <3>3 DEF line
  <2>6. CASE MovingOnto(t, Pack(name), code) = {} /\ WithCode(t, Pack(name), code).is_active
    <3>1. t.classes[key] # None /\ t.classes[key].code = code
      <4> HIDE DEF code
      <4> QED  BY <2>2, <2>6 DEF MovingOnto
    <3>2. t.codes[code] # None  BY <3>1 DEF Whole
    <3>3. t.codes[code].is_active  BY <1>1, <2>6, <3>2, WithCodeRow
    <3>4. t.classes[key].is_active  BY <3>1, <3>3 DEF Paired
    <3> QED  BY <2>1, <3>1, <3>4 DEF FlagAfter
  <2>7. CASE \E other \in MovingOnto(t, Pack(name), code) :
               ActivationFor(WithCode(t, Pack(name), code), FlagAfter(t, Pack(name), other))
    <3>1. PICK other \in MovingOnto(t, Pack(name), code) : FlagAfter(t, Pack(name), other)
      BY <2>7 DEF ActivationFor
    <3>2. other = key  BY <2>3, <3>1 DEF MovingOnto
    <3> QED  BY <2>1, <3>1, <3>2
  <2> QED  BY <1>1, <2>4, <2>5, <2>6, <2>7, ActiveAfterIs
<1> QED  BY <1>2, <1>3

\* What any request sets out to do keeps classes and codes together.
LEMMA SetOutPaired ==
    ASSUME ClassesAgree, OwnNamesApart, NEW t, Whole(t), Single(t), Paired(t),
           NEW kind, NEW code, NEW new, SetOut(kind, code, t, new)
    PROVE  Single(new) /\ Paired(new)
<1>1. \A key \in Keys : t.classes[key] # None =>
        /\ t.classes[key] \in ClassRow /\ t.classes[key].code \in Codes
        /\ t.codes[t.classes[key].code] # None
        /\ t.codes[t.classes[key].code] \in CodeRow
  BY TablesTyped DEF Whole
<1>2. CASE kind = "patch_code" /\ CodePatched(code, t, new)
  <2>1. PICK row \in CodeRow :
          /\ new = Replaced(t, code, row) /\ row.origin = t.codes[code].origin
          /\ \/ row.is_active = t.codes[code].is_active
             \/ \A key \in Keys : t.classes[key] # None => t.classes[key].code # code
    BY <1>2 DEF CodePatched
  <2>2. code \in Codes /\ t.codes[code] # None  BY <1>2 DEF CodePatched
  <2>3. /\ new.classes = t.classes /\ new.codes[code] = row
        /\ \A other \in Codes \ {code} : new.codes[other] = t.codes[other]
    BY <2>1, <2>2, ReplacedParts
  <2>4. Single(new)  BY <2>3 DEF Single
  <2>5. Paired(new)  BY <1>1, <2>1, <2>3 DEF Paired
  <2> QED  BY <2>4, <2>5
<1>3. CASE kind = "patch_class" /\ ClassPatched(code, t, new)
  <2>1. PICK key \in Keys, active \in BOOLEAN :
          t.classes[key] # None /\ code = t.classes[key].code /\ new = Switched(t, key, active)
    BY <1>3 DEF ClassPatched
  <2>2. SwitchedFrom(t, key, code, active, new)
    <3>1. t.classes[key] # None  BY <2>1
    <3>2. SwitchedFrom(t, key, t.classes[key].code, active, Switched(t, key, active))
      BY <3>1, SwitchedParts
    <3> QED  BY <2>1, <3>2
  <2>3. t.classes[key] # None /\ code = t.classes[key].code  BY <2>1
  <2>4. /\ new.classes[key] = [t.classes[key] EXCEPT !.is_active = active]
        /\ new.codes[code] = [t.codes[code] EXCEPT !.is_active = active]
    BY <2>2 DEF SwitchedFrom
  <2>5. /\ \A other \in Codes \ {code} : new.codes[other] = t.codes[other]
        /\ \A other \in Keys \ {key} : new.classes[other] = t.classes[other]
    BY <2>2 DEF SwitchedFrom
  <2>6. /\ new.classes[key].code = code /\ new.classes[key].is_active = active
        /\ new.codes[code].is_active = active
    BY <1>1, <2>3, <2>4 DEF ClassRow, CodeRow
  <2>7. Single(new)  BY <2>3, <2>5, <2>6 DEF Single
  <2>8. ASSUME NEW other \in Keys, new.classes[other] # None,
               new.codes[new.classes[other].code].is_active
        PROVE  new.classes[other].is_active
    <3>1. CASE other = key  BY <2>6, <2>8, <3>1
    <3>2. CASE other # key
      <4>1. new.classes[other] = t.classes[other] /\ t.classes[other] # None
        BY <2>5, <2>8, <3>2
      <4>2. t.classes[other].code # code  BY <2>3, <3>2, <4>1 DEF Single
      <4>3. new.codes[t.classes[other].code] = t.codes[t.classes[other].code]
        BY <1>1, <2>5, <4>1, <4>2
      <4> QED  BY <2>8, <4>1, <4>3 DEF Paired
    <3> QED  BY <3>1, <3>2
  <2> QED  BY <2>7, <2>8 DEF Paired
<1>4. CASE kind = "create" /\ RateAdded(code, t, new)
  <2>1. PICK key \in Keys, rate \in TypedRates \ {0} :
          t.classes[key] = None /\ new = RateCreated(t, key, code, rate)
    BY <1>4 DEF RateAdded
  <2>2. code \in OwnCodes /\ t.codes[code] = None  BY <1>4 DEF RateAdded
  <2>3. CreatedFrom(t, key, code, rate, new)  BY <2>1, <2>2, CreatedParts
  <2>4. /\ new.classes[key] = [code |-> code, is_active |-> TRUE, origin |-> None]
        /\ \A other \in Codes \ {code} : new.codes[other] = t.codes[other]
        /\ \A other \in Keys \ {key} : new.classes[other] = t.classes[other]
    BY <2>3 DEF CreatedFrom
  <2>5. new.classes[key].code = code /\ new.classes[key].is_active  BY <2>4
  <2>6. \A other \in Keys : t.classes[other] # None => t.classes[other].code # code
    BY <1>1, <2>2
  <2>7. Single(new)  BY <2>4, <2>5, <2>6 DEF Single
  <2>8. Paired(new)
    <3> SUFFICES ASSUME NEW other \in Keys, new.classes[other] # None,
                        new.codes[new.classes[other].code].is_active
                 PROVE  new.classes[other].is_active
      BY DEF Paired
    <3>1. CASE other = key  BY <2>5, <3>1
    <3>2. CASE other # key
      <4>1. new.classes[other] = t.classes[other] /\ t.classes[other] # None
        BY <2>4, <3>2
      <4>2. new.codes[t.classes[other].code] = t.codes[t.classes[other].code]
        BY <1>1, <2>4, <2>6, <4>1
      <4> QED  BY <4>1, <4>2 DEF Paired
    <3> QED  BY <3>1, <3>2
  <2> QED  BY <2>7, <2>8
<1>5. CASE kind = "create" /\ CaseAdded(code, t, new)
  <2>1. /\ new.classes = t.classes
        /\ \A other \in Codes \ {code} : new.codes[other] = t.codes[other]
    BY <1>5, NoTaxCaseParts DEF CaseAdded
  <2>2. \A other \in Keys : t.classes[other] # None => t.classes[other].code # code
    BY <1>1, <1>5 DEF CaseAdded
  <2>3. Single(new)  BY <2>1 DEF Single
  <2>4. Paired(new)  BY <1>1, <2>1, <2>2 DEF Paired
  <2> QED  BY <2>3, <2>4
<1>6. CASE FirstSeeded(t, new)
  <2>1. PICK country \in Countries :
          (\A other \in Codes : t.codes[other] = None) /\ new = Seeded(t, country)
    BY <1>6 DEF FirstSeeded
  <2> DEFINE name == PackOf[country]
  <2>2. /\ name \in SoundPacks /\ Whole(new)
        /\ \A other \in Codes : new.codes[other] = WithCode(t, Pack(name), other)
        /\ \A key \in Keys : new.classes[key] = WithClass(t, Pack(name), key)
    BY <2>1, SeededParts, PackOfIsSound
  <2> HIDE DEF name
  <2>3. \A key \in Keys : t.classes[key] = None  BY <1>1, <2>1
  <2>4. ASSUME NEW key \in Keys, new.classes[key] # None
        PROVE  /\ key \in DOMAIN Pack(name).classes
               /\ new.classes[key].origin # None
               /\ new.classes[key].code = Pack(name).classes[key].code
               /\ new.classes[key].is_active = Pack(name).classes[key].is_active
               /\ new.codes[new.classes[key].code].is_active
                    = Pack(name).codes[Pack(name).classes[key].code].is_active
    <3> DEFINE entry == Pack(name).classes[key]
    <3>1. key \in DOMAIN Pack(name).classes /\ new.classes[key] = SeededClass(entry)
      BY <2>2, <2>3, <2>4, WithClassRow DEF Whole, WithClass
    <3>2. /\ SeededClass(entry).origin # None /\ SeededClass(entry).code = entry.code
          /\ SeededClass(entry).is_active = entry.is_active
          /\ entry.code \in DOMAIN Pack(name).codes /\ entry.code \in Codes
      BY <2>2, <3>1, PackClassesSeed
    <3>3. new.codes[entry.code] = SeededCode(Pack(name).codes[entry.code])
      BY <2>1, <2>2, <3>2 DEF WithCode
    <3>4. new.codes[entry.code].is_active = Pack(name).codes[entry.code].is_active
      BY <2>2, <3>2, <3>3, PackCodesSeed
    <3> QED  BY <3>1, <3>2, <3>4
  <2>5. Single(new)  BY <2>2, <2>4, SingleKept
  <2>6. Paired(new)  BY <2>2, <2>4 DEF Paired, ClassesAgree
  <2> QED  BY <2>5, <2>6
<1>7. CASE Moved(t, new)
  <2>1. PICK country \in Countries : new = [t EXCEPT !.country = country]
    BY <1>7 DEF Moved
  <2>2. new.codes = t.codes /\ new.classes = t.classes  BY <2>1, MovedParts
  <2> QED  BY <2>2 DEF Single, Paired
<1>8. CASE Applied(t, new)
  <2>1. PICK country \in Countries : new = PackApplied(t, country)  BY <1>8 DEF Applied
  <2> DEFINE name == PackOf[country]
  <2>2. /\ name \in SoundPacks /\ Whole(new)
        /\ \A other \in Codes : new.codes[other] = CodeAfter(t, Pack(name), other)
        /\ \A key \in Keys : new.classes[key] = ClassAfter(t, Pack(name), key)
    BY <2>1, AppliedParts, PackOfIsSound
  <2> HIDE DEF name
  <2>3. \A key \in Keys : new.classes[key] # None /\ new.classes[key].origin = None =>
          t.classes[key] # None /\ t.classes[key].code = new.classes[key].code
    <3> SUFFICES ASSUME NEW key \in Keys, new.classes[key] # None,
                        new.classes[key].origin = None
                 PROVE  t.classes[key] # None /\ t.classes[key].code = new.classes[key].code
      OBVIOUS
    <3>1. ASSUME t.classes[key] = None PROVE FALSE
      <4>1. /\ key \in DOMAIN Pack(name).classes
            /\ new.classes[key] = SeededClass(Pack(name).classes[key])
        BY <2>2, <3>1, ClassAfterRow, WithClassRow
      <4> QED  BY <2>2, <4>1, PackClassesSeed
    <3> QED  BY <2>2, <3>1, ClassAfterRow
  <2>4. Single(new)  BY <2>2, <2>3, SingleKept
  <2>5. \A key \in Keys : new.classes[key] # None => new.classes[key].code \in Codes
    BY <2>2, TablesTyped DEF Whole
  <2>6. Paired(new)  BY <2>2, <2>5, AppliedPaired DEF Paired
  <2> QED  BY <2>4, <2>6
<1> QED  BY <1>2, <1>3, <1>4, <1>5, <1>6, <1>7, <1>8 DEF SetOut

\* Alone, a request sees classes and codes together and leaves them so.
PairedInv ==
    Calm => /\ Single(tables) /\ Paired(tables)
            /\ \A r \in Requests : work[r].pc = "open" =>
                 Single(work[r].new) /\ Paired(work[r].new)

LEMMA PairedAlways == ASSUME ClassesAgree, OwnNamesApart PROVE Spec => []PairedInv
<1>1. Single(Empty) /\ Paired(Empty)  BY EmptyWhole DEF Single, Paired
<1>2. Init => PairedInv
  <2> SUFFICES ASSUME Init PROVE PairedInv  OBVIOUS
  <2>1. \A r \in Requests : work[r].pc = "idle"  BY DEF Init, Idle
  <2>2. ASSUME NEW country \in Countries
        PROVE  Single(Seeded(Empty, country)) /\ Paired(Seeded(Empty, country))
    <3>1. FirstSeeded(Empty, Seeded(Empty, country))  BY EmptyWhole DEF FirstSeeded
    <3>2. SetOut("country", None, Empty, Seeded(Empty, country))  BY <3>1 DEF SetOut
    <3> QED  BY <1>1, <3>2, EmptyWhole, SetOutPaired
  <2>3. Single(tables) /\ Paired(tables)  BY <1>1, <2>2, InitTables
  <2> QED  BY <2>1, <2>3 DEF PairedInv
<1>3. ConfigInv /\ Alone /\ PairedInv /\ [Next]_vars => PairedInv'
  <2> SUFFICES ASSUME ConfigInv, Alone, PairedInv, [Next]_vars PROVE PairedInv'  OBVIOUS
  <2>1. CASE UNCHANGED vars  BY <2>1 DEF vars, PairedInv, Calm
  <2>2. ASSUME NEW r \in Requests, Begun(r) PROVE PairedInv'
    <3>1. PICK kind, code, new :
            kind \in Kinds /\ SetOut(kind, code, tables, new) /\ Open(r, kind, code, new)
      BY <2>2 DEF Begun
    <3>2. /\ work'[r].new = new /\ tables' = tables
          /\ \A q \in Requests \ {r} : work'[q] = work[q]
      BY <3>1, BegunWork
    <3>3. Calm' => Calm  BY <3>1 DEF Open, Calm, ConfigInv
    <3>4. Calm => Single(new) /\ Paired(new)
      BY <3>1, SetOutPaired DEF ConfigInv, PairedInv
    <3> QED  BY <3>2, <3>3, <3>4 DEF PairedInv
  <2>3. ASSUME NEW r \in Requests, Commit(r) \/ Rollback(r) PROVE PairedInv'
    <3>1. /\ work'[r].pc = "idle" /\ \A q \in Requests \ {r} : work'[q] = work[q]
          /\ Calm' = Calm /\ work[r].pc = "open"
      BY <2>3, EndedWork DEF Calm
    <3>2. ASSUME Calm, Commit(r) PROVE Single(tables') /\ Paired(tables')
      <4>1. Single(work[r].new) /\ Paired(work[r].new)  BY <3>1, <3>2 DEF PairedInv
      <4>2. /\ \A code \in Codes : tables'.codes[code] = work[r].new.codes[code]
            /\ \A key \in Keys : tables'.classes[key] = work[r].new.classes[key]
        BY <3>2, CommitAlone
      <4>3. \A key \in Keys : work[r].new.classes[key] # None =>
              work[r].new.classes[key].code \in Codes
        BY TablesTyped DEF ConfigInv, WorkWhole, Whole
      <4> QED  BY <4>1, <4>2, <4>3 DEF Single, Paired
    <3>3. Calm => Single(tables') /\ Paired(tables')
      BY <2>3, <3>2 DEF Rollback, PairedInv
    <3> QED  BY <3>1, <3>3 DEF PairedInv
  <2> QED  BY <2>1, <2>2, <2>3, NextCases
<1> QED  BY <1>2, <1>3, ConfigAlways, AloneAlways, PTL DEF Spec

\* While requests come one at a time, no rate that can be charged is left
\* behind a class somebody retired: of packs that agree which class charges a
\* code and ship none switched off with its code on, and with a company's own
\* codes named unlike a pack's.
THEOREM PairsAlwaysAgree ==
    ASSUME ClassesAgree, OwnNamesApart PROVE Spec => []PairsAgree
<1>1. ConfigInv /\ PairedInv => PairsAgree
  BY PresentIs DEF ConfigInv, PairedInv, Paired, PairsAgree
<1> QED  BY <1>1, ConfigAlways, PairedAlways, PTL
=============================================================================
