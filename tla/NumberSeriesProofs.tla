-------------------------- MODULE NumberSeriesProofs --------------------------
(***************************************************************************)
(* Theorems about NumberSeries, for every value of its constants.          *)
(***************************************************************************)
EXTENDS NumberSeries, TLAPS

USE SeriesAssumption, DatesAssumption, MaxValueAssumption, NoTxnAssumption, EditsAssumption

\* The constants' members that the placeholder records are built from exist.
LEMMA Placeholders ==
    /\ AnyDate \in Dates
    /\ AnySeries \in Series
    /\ NoRow \in SeriesRow
    /\ \A d \in Dates : PeriodOf[d] \in Periods /\ PeriodOf[d] \in Nat /\ PeriodOf[d] # NoPeriod
    /\ Periods \subseteq Nat
<1>1. AnyDate \in Dates /\ AnySeries \in Series  BY DEF AnyDate, AnySeries
<1>2. \A d \in Dates : PeriodOf[d] \in Periods /\ PeriodOf[d] \in Nat /\ PeriodOf[d] # NoPeriod
  BY DEF Periods
<1>3. Periods \subseteq Nat  BY DEF Periods
<1>4. NoRow \in SeriesRow  BY DEF NoRow, SeriesRow
<1> QED  BY <1>1, <1>2, <1>3, <1>4

LEMMA PlaceholdersTyped ==
    /\ NoAllocation \in Allocation
    /\ Idle \in Work
    /\ NoEdit \in Edit
<1>1. NoAllocation \in Allocation
  BY Placeholders DEF NoAllocation, Allocation, Render, Number, Values
<1>2. Idle \in Work  BY <1>1, Placeholders DEF Idle, Work
<1>3. NoEdit \in Edit  BY Placeholders DEF NoEdit, Edit
<1> QED  BY <1>1, <1>2, <1>3

\* Issuing a value of a document date keeps a counter row well formed.
LEMMA AdvancedRowTyped ==
    ASSUME NEW row \in SeriesRow, NEW d \in Dates, NEW v \in Values
    PROVE  AdvancedRow(row, d, v) \in SeriesRow
<1>1. row.next_value \in 1..(MaxValue + 1) /\ v + 1 \in 1..(MaxValue + 1)
  BY DEF SeriesRow, Values
<1>2. PeriodOf[d] \in Periods /\ row.current_period \in Periods \cup {NoPeriod}
  BY Placeholders DEF SeriesRow
<1>3. /\ (IF row.reset = "never" \/ PeriodOf[d] >= row.current_period
          THEN v + 1 ELSE row.next_value) \in 1..(MaxValue + 1)
      /\ (IF PeriodOf[d] >= row.current_period
          THEN PeriodOf[d] ELSE row.current_period) \in Periods \cup {NoPeriod}
  BY <1>1, <1>2
<1> QED  BY <1>3 DEF AdvancedRow, SeriesRow

LEMMA PlannedAllocationTyped ==
    ASSUME TypeOK, NEW t \in Txns, NEW v \in Values
    PROVE  PlannedAllocation(t, v) \in Allocation
<1>1. work[t] \in Work  BY DEF TypeOK
<1> QED  BY <1>1, Placeholders DEF PlannedAllocation, Allocation, Work, Render, Number, SeriesRow

LEMMA WrittenRowTyped ==
    ASSUME NEW row \in SeriesRow, NEW loaded \in SeriesRow, NEW wanted \in SeriesRow
    PROVE  WrittenRow(row, loaded, wanted) \in SeriesRow
BY DEF WrittenRow, SeriesRow

\* What a PATCH of a row may put into its fields.
LEMMA ChoicesTyped ==
    ASSUME NEW row \in SeriesRow
    PROVE  /\ Choices("next_value", Values, row.next_value) \subseteq 1..(MaxValue + 1)
           /\ Choices("reset", {"yearly", "never"}, row.reset) \subseteq {"yearly", "never"}
           /\ Choices("pattern", {"year", "plain"}, row.pattern) \subseteq {"year", "plain"}
           /\ Choices("is_active", BOOLEAN, row.is_active) \subseteq BOOLEAN
BY DEF Choices, SeriesRow, Values

LEMMA EndTyped ==
    ASSUME TypeOK, NEW t \in Txns, End(t)
    PROVE  /\ lock' \in [Series -> Txns \cup {NoTxn}]
           /\ work' \in [Txns -> Work]
BY PlaceholdersTyped DEF End, TypeOK

LEMMA InitTyped == Init => TypeOK
<1> SUFFICES ASSUME Init PROVE TypeOK  OBVIOUS
<1>1. Seeds \subseteq SeriesRow  BY DEF Seeds, SeriesRow
<1>2. series \in [Series -> SeriesRow]  BY <1>1, Placeholders DEF Init
<1> QED  BY <1>2, PlaceholdersTyped DEF Init, TypeOK

LEMMA StepTyped == TypeOK /\ [Next]_vars => TypeOK'
<1> SUFFICES ASSUME TypeOK, [Next]_vars PROVE TypeOK'  OBVIOUS
<1>0. /\ \A t \in Txns : work[t] \in Work
      /\ \A e \in Editors : edit[e] \in Edit
      /\ \A s \in Series : series[s] \in SeriesRow
  BY DEF TypeOK
<1>1. ASSUME NEW t \in Txns, NEW d \in Dates, Begin(t, d) PROVE TypeOK'
  <2>1. [work[t] EXCEPT !.pc = "begun", !.date = d] \in Work  BY <1>0 DEF Work
  <2> QED  BY <1>1, <2>1 DEF Begin, TypeOK
<1>2. ASSUME NEW t \in Txns, NEW s \in Series, Acquire(t, s)
      PROVE  work' \in [Txns -> Work] /\ lock' \in [Series -> Txns \cup {NoTxn}]
  <2>1. [work[t] EXCEPT !.pc = "locked", !.series = s, !.row = series[s]] \in Work
    BY <1>0 DEF Work
  <2> QED  BY <1>2, <2>1 DEF Acquire, TypeOK
<1>2a. ASSUME NEW t \in Txns, Select(t) PROVE TypeOK'
  <2>1. PICK s \in Series :
          \/ Acquire(t, s)
          \/ /\ work' = [work EXCEPT ![t] = [@ EXCEPT !.pc = "waiting", !.series = s]]
             /\ UNCHANGED lock
    BY <1>2a DEF Select, ActiveSeries
  <2>2. [work[t] EXCEPT !.pc = "waiting", !.series = s] \in Work  BY <1>0 DEF Work
  <2>3. work' \in [Txns -> Work] /\ lock' \in [Series -> Txns \cup {NoTxn}]
    BY <1>2, <2>1, <2>2 DEF TypeOK
  <2> QED  BY <1>2a, <2>3 DEF Select, TypeOK
<1>3. ASSUME NEW t \in Txns, Wake(t) PROVE TypeOK'
  <2>1. work[t].series \in Series  BY <1>0 DEF Work
  <2>2. work' \in [Txns -> Work] /\ lock' \in [Series -> Txns \cup {NoTxn}]
    BY <1>2, <1>3, <2>1 DEF Wake
  <2> QED  BY <1>3, <2>2 DEF Wake, TypeOK
<1>4. ASSUME NEW t \in Txns, Missing(t) PROVE TypeOK'
  BY <1>4, EndTyped DEF Missing, TypeOK
<1>5. ASSUME NEW t \in Txns, Allocate(t) PROVE TypeOK'
  <2>1. PICK v \in Values :
          work' = [work EXCEPT ![t] = [@ EXCEPT
                !.pc = "allocated",
                !.row = AdvancedRow(work[t].row, work[t].date, v),
                !.alloc = PlannedAllocation(t, v),
                !.late = OutOfOrder(work[t].series, work[t].date)]]
    BY <1>5 DEF Allocate
  <2>2. AdvancedRow(work[t].row, work[t].date, v) \in SeriesRow
    BY <1>0, AdvancedRowTyped DEF Work
  <2>3. PlannedAllocation(t, v) \in Allocation  BY PlannedAllocationTyped
  <2>4. OutOfOrder(work[t].series, work[t].date) \in BOOLEAN  BY DEF OutOfOrder
  <2>5. [work[t] EXCEPT
                !.pc = "allocated",
                !.row = AdvancedRow(work[t].row, work[t].date, v),
                !.alloc = PlannedAllocation(t, v),
                !.late = OutOfOrder(work[t].series, work[t].date)] \in Work
    BY <1>0, <2>2, <2>3, <2>4 DEF Work
  <2> QED  BY <1>5, <2>1, <2>5 DEF Allocate, TypeOK
<1>6. ASSUME NEW t \in Txns, Collide(t) PROVE TypeOK'
  BY <1>6, EndTyped DEF Collide, TypeOK
<1>7. ASSUME NEW t \in Txns, Commit(t) PROVE TypeOK'
  <2>1. work[t].row \in SeriesRow /\ work[t].alloc \in Allocation  BY <1>0 DEF Work
  <2>2. series' \in [Series -> SeriesRow]  BY <1>7, <2>1 DEF Commit, TypeOK
  <2>3. allocs' \subseteq Allocation /\ audit' \subseteq Allocation
    BY <1>7, <2>1 DEF Commit, TypeOK
  <2> QED  BY <1>7, <2>2, <2>3, EndTyped DEF Commit, TypeOK
<1>8. ASSUME NEW t \in Txns, Rollback(t) PROVE TypeOK'
  BY <1>8, EndTyped DEF Rollback, RolledBackRow, TypeOK
<1>9. ASSUME NEW e \in Editors, NEW s \in Series, LoadForEdit(e, s) PROVE TypeOK'
  <2>1. PICK n \in Choices("next_value", Values, series[s].next_value),
             r \in Choices("reset", {"yearly", "never"}, series[s].reset),
             p \in Choices("pattern", {"year", "plain"}, series[s].pattern),
             a \in Choices("is_active", BOOLEAN, series[s].is_active) :
          edit' = [edit EXCEPT ![e] =
            [pc |-> "loaded", series |-> s, loaded |-> series[s],
             wanted |-> [series[s] EXCEPT
                !.next_value = n, !.reset = r, !.pattern = p, !.is_active = a]]]
    BY <1>9 DEF LoadForEdit
  <2>2. [series[s] EXCEPT !.next_value = n, !.reset = r, !.pattern = p, !.is_active = a] \in SeriesRow
    <3>1. /\ n \in 1..(MaxValue + 1) /\ r \in {"yearly", "never"}
          /\ p \in {"year", "plain"} /\ a \in BOOLEAN
      BY <1>0, ChoicesTyped
    <3> QED  BY <1>0, <3>1 DEF SeriesRow
  <2>3. [pc |-> "loaded", series |-> s, loaded |-> series[s],
         wanted |-> [series[s] EXCEPT
            !.next_value = n, !.reset = r, !.pattern = p, !.is_active = a]] \in Edit
    BY <1>0, <2>2 DEF Edit
  <2> QED  BY <1>9, <2>1, <2>3 DEF LoadForEdit, TypeOK
<1>10. ASSUME NEW e \in Editors, NEW today \in Dates, CheckEdit(e, today) PROVE TypeOK'
  <2>1. [edit[e] EXCEPT !.pc = "checked"] \in Edit  BY <1>0 DEF Edit
  <2> QED  BY <1>10, <2>1, PlaceholdersTyped DEF CheckEdit, TypeOK
<1>11. ASSUME NEW e \in Editors, ApplyEdit(e) PROVE TypeOK'
  <2>1. WrittenRow(series[edit[e].series], edit[e].loaded, edit[e].wanted) \in SeriesRow
    BY <1>0, WrittenRowTyped DEF Edit
  <2>2. series' \in [Series -> SeriesRow]  BY <1>11, <2>1 DEF ApplyEdit, TypeOK
  <2> QED  BY <1>11, <2>2, PlaceholdersTyped DEF ApplyEdit, TypeOK
<1>12. ASSUME NEW e \in Editors, DropEdit(e) PROVE TypeOK'
  BY <1>12, PlaceholdersTyped DEF DropEdit, TypeOK
<1>13. ASSUME NEW s \in Series, NEW reset \in {"yearly", "never"},
              NEW pattern \in {"year", "plain"}, NEW n \in Values, Create(s, reset, pattern, n)
       PROVE TypeOK'
  <2>1. [exists |-> TRUE, is_active |-> TRUE, reset |-> reset, pattern |-> pattern,
         next_value |-> n, current_period |-> NoPeriod] \in SeriesRow
    BY DEF SeriesRow, Values
  <2> QED  BY <1>13, <2>1 DEF Create, TypeOK
<1>14. CASE UNCHANGED vars  BY <1>14 DEF vars, TypeOK
<1> QED
  BY <1>1, <1>2a, <1>3, <1>4, <1>5, <1>6, <1>7, <1>8, <1>9, <1>10, <1>11, <1>12, <1>13, <1>14
  DEF Next, Request, Settings, CreateSeries

\* Every reachable state is well typed: a planned number is a real number of a
\* real series, and no field of a counter row is ever left undefined.
THEOREM TypeCorrect == Spec => []TypeOK
<1> QED  BY InitTyped, StepTyped, PTL DEF Spec

-----------------------------------------------------------------------------
(* Locks.                                                                  *)

LEMMA EndUnlocks ==
    ASSUME TypeOK, LockInv, NEW t \in Txns, End(t)
    PROVE  LockInv'
<1>1. /\ \A u \in Txns : work'[u] = IF u = t THEN Idle ELSE work[u]
      /\ \A s \in Series : lock'[s] = IF lock[s] = t THEN NoTxn ELSE lock[s]
  BY DEF End, TypeOK
<1>2. ~Holding(t)'  BY <1>1 DEF Holding, Idle
<1>3. \A u \in Txns : work[u].series \in Series  BY DEF TypeOK, Work
<1>4. \A u \in Txns \ {t} : Holding(u)' <=> Holding(u)  BY <1>1 DEF Holding
<1>5. \A u \in Txns : Holding(u)' => lock'[work'[u].series] = u
  BY <1>1, <1>2, <1>3, <1>4 DEF LockInv
<1>6. \A s \in Series : lock'[s] # NoTxn =>
        lock'[s] \in Txns /\ work'[lock'[s]].pc \in {"locked", "allocated"} /\ work'[lock'[s]].series = s
  BY <1>1, <1>4 DEF LockInv, Holding, TypeOK
<1> QED  BY <1>5, <1>6 DEF LockInv, Holding

\* A transaction's step that neither takes nor gives back a row.
LEMMA WorkingKeepsLocks ==
    ASSUME TypeOK, LockInv, NEW t \in Txns, UNCHANGED lock, NEW w \in Work,
           work' = [work EXCEPT ![t] = w],
           (w.pc \in {"locked", "allocated"}) <=> Holding(t),
           Holding(t) => w.series = work[t].series
    PROVE  LockInv'
<1>1. \A u \in Txns : work'[u] = IF u = t THEN w ELSE work[u]  BY DEF TypeOK
<1>2. \A u \in Txns : /\ Holding(u)' <=> Holding(u)
                      /\ Holding(u) => work'[u].series = work[u].series
  BY <1>1 DEF Holding
<1> QED  BY <1>2 DEF LockInv, Holding

LEMMA AcquireLocks ==
    ASSUME TypeOK, LockInv, NEW t \in Txns, NEW s \in Series, ~Holding(t), RowFree(s), Acquire(t, s)
    PROVE  LockInv'
<1>0. /\ \A u \in Txns : work[u] \in Work
      /\ \A r \in Series : series[r] \in SeriesRow
  BY DEF TypeOK
<1>1. [work[t] EXCEPT !.pc = "locked", !.series = s, !.row = series[s]] \in Work
  BY <1>0 DEF Work
<1>2. /\ \A u \in Txns \ {t} : work'[u] = work[u]
      /\ work'[t] = [work[t] EXCEPT !.pc = "locked", !.series = s, !.row = series[s]]
      /\ \A r \in Series : lock'[r] = IF r = s THEN t ELSE lock[r]
  BY DEF Acquire, TypeOK
<1>3. Holding(t)' /\ work'[t].series = s  BY <1>0, <1>1, <1>2 DEF Holding, Work
<1>4. \A u \in Txns \ {t} : Holding(u)' <=> Holding(u)  BY <1>2 DEF Holding
<1>5. \A u \in Txns : Holding(u)' => lock'[work'[u].series] = u
  <2> SUFFICES ASSUME NEW u \in Txns, Holding(u)' PROVE lock'[work'[u].series] = u  OBVIOUS
  <2>1. CASE u = t  BY <2>1, <1>2, <1>3
  <2>2. CASE u # t
    <3>1. Holding(u) /\ lock[work[u].series] = u  BY <2>2, <1>4 DEF LockInv
    <3>2. work[u].series \in Series /\ work[u].series # s
      BY <3>1, <1>0, NoTxnAssumption DEF RowFree, Work
    <3> QED  BY <2>2, <3>1, <3>2, <1>2
  <2> QED  BY <2>1, <2>2
<1>6. \A r \in Series : lock'[r] # NoTxn =>
        lock'[r] \in Txns /\ work'[lock'[r]].pc \in {"locked", "allocated"} /\ work'[lock'[r]].series = r
  <2> SUFFICES ASSUME NEW r \in Series, lock'[r] # NoTxn
               PROVE  lock'[r] \in Txns /\ work'[lock'[r]].pc \in {"locked", "allocated"} /\ work'[lock'[r]].series = r
    OBVIOUS
  <2>1. CASE r = s  BY <2>1, <1>2, <1>3 DEF Holding
  <2>2. CASE r # s
    <3>1. lock'[r] = lock[r] /\ lock[r] \in Txns /\ Holding(lock[r]) /\ work[lock[r]].series = r
      BY <2>2, <1>2 DEF LockInv
    <3>2. lock[r] # t  BY <3>1
    <3> QED  BY <3>1, <3>2, <1>2, <1>4 DEF Holding
  <2> QED  BY <2>1, <2>2
<1> QED  BY <1>5, <1>6 DEF LockInv, Holding

LEMMA StepLocks == TypeOK /\ LockInv /\ [Next]_vars => LockInv'
<1> SUFFICES ASSUME TypeOK, LockInv, [Next]_vars PROVE LockInv'  OBVIOUS
<1>0. /\ \A t \in Txns : work[t] \in Work
      /\ \A s \in Series : series[s] \in SeriesRow
  BY DEF TypeOK
<1>1. ASSUME NEW t \in Txns, NEW d \in Dates, Begin(t, d) PROVE LockInv'
  <2>1. [work[t] EXCEPT !.pc = "begun", !.date = d] \in Work  BY <1>0 DEF Work
  <2>2. [work[t] EXCEPT !.pc = "begun", !.date = d].pc = "begun"  BY <1>0 DEF Work
  <2> QED  BY <1>1, <2>1, <2>2, WorkingKeepsLocks DEF Begin, Holding
<1>2. ASSUME NEW t \in Txns, Select(t) PROVE LockInv'
  <2>1. PICK s \in Series :
          \/ RowFree(s) /\ Acquire(t, s)
          \/ /\ work' = [work EXCEPT ![t] = [@ EXCEPT !.pc = "waiting", !.series = s]]
             /\ UNCHANGED lock
    BY <1>2 DEF Select, ActiveSeries
  <2>2. ~Holding(t)  BY <1>2 DEF Select, Holding
  <2>3. CASE RowFree(s) /\ Acquire(t, s)  BY <2>2, <2>3, AcquireLocks
  <2>4. CASE work' = [work EXCEPT ![t] = [@ EXCEPT !.pc = "waiting", !.series = s]] /\ UNCHANGED lock
    <3>1. [work[t] EXCEPT !.pc = "waiting", !.series = s] \in Work  BY <1>0 DEF Work
    <3>2. [work[t] EXCEPT !.pc = "waiting", !.series = s].pc = "waiting"  BY <1>0 DEF Work
    <3> QED  BY <2>2, <2>4, <3>1, <3>2, WorkingKeepsLocks
  <2> QED  BY <2>1, <2>3, <2>4
<1>3. ASSUME NEW t \in Txns, Wake(t) PROVE LockInv'
  <2>1. work[t].series \in Series /\ ~Holding(t)  BY <1>0, <1>3 DEF Wake, Work, Holding
  <2> QED  BY <1>3, <2>1, AcquireLocks DEF Wake
<1>4. ASSUME NEW t \in Txns, Allocate(t) PROVE LockInv'
  <2>1. PICK v \in Values :
          work' = [work EXCEPT ![t] = [@ EXCEPT
                !.pc = "allocated",
                !.row = AdvancedRow(work[t].row, work[t].date, v),
                !.alloc = PlannedAllocation(t, v),
                !.late = OutOfOrder(work[t].series, work[t].date)]]
    BY <1>4 DEF Allocate
  <2> DEFINE w == [work[t] EXCEPT
                !.pc = "allocated",
                !.row = AdvancedRow(work[t].row, work[t].date, v),
                !.alloc = PlannedAllocation(t, v),
                !.late = OutOfOrder(work[t].series, work[t].date)]
  <2>2. \A u \in Txns : work'[u] = IF u = t THEN w ELSE work[u]  BY <2>1 DEF TypeOK
  <2>3. w.pc = "allocated" /\ w.series = work[t].series  BY <1>0 DEF Work
  <2>4. \A u \in Txns : /\ Holding(u)' <=> Holding(u)
                        /\ work'[u].series = work[u].series
    BY <1>4, <2>2, <2>3 DEF Holding, Allocate
  <2> QED  BY <1>4, <2>4 DEF Allocate, LockInv, Holding
<1>5. ASSUME NEW t \in Txns, Missing(t) \/ Collide(t) \/ Commit(t) \/ Rollback(t) PROVE LockInv'
  BY <1>5, EndUnlocks DEF Missing, Collide, Commit, Rollback
<1>6. ASSUME UNCHANGED <<lock, work>> PROVE LockInv'
  BY <1>6 DEF LockInv, Holding
<1>7. ASSUME NEW e \in Editors, Settings(e) PROVE LockInv'
  BY <1>6, <1>7 DEF Settings, LoadForEdit, CheckEdit, ApplyEdit, DropEdit
<1>8. CASE CreateSeries  BY <1>6, <1>8 DEF CreateSeries, Create
<1>9. CASE UNCHANGED vars  BY <1>6, <1>9 DEF vars
<1> QED  BY <1>1, <1>2, <1>3, <1>4, <1>5, <1>7, <1>8, <1>9 DEF Next, Request

-----------------------------------------------------------------------------
(* Rows and edits.                                                         *)

\* What the settings requests and the creation of a series may change.
LEMMA SettingsFrame ==
    ASSUME TypeOK, NEW e \in Editors, Settings(e)
    PROVE  /\ UNCHANGED <<allocs, audit, lock, work>>
           /\ \A s \in Series : series'[s] # series[s] => RowFree(s) /\ edit[e].series = s
           /\ \A s \in Series : series'[s].exists <=> series[s].exists
<1>1. CASE UNCHANGED <<series, allocs, audit, lock, work>>  BY <1>1
<1>2. CASE ApplyEdit(e)
  <2> DEFINE s == edit[e].series
             row == WrittenRow(series[s], edit[e].loaded, edit[e].wanted)
  <2>1. s \in Series  BY DEF TypeOK, Edit
  <2>2. series' = series \/ series' = [series EXCEPT ![s] = row]  BY <1>2 DEF ApplyEdit
  <2>3. series[s] \in SeriesRow  BY <2>1 DEF TypeOK
  <2>4. row.exists = series[s].exists  BY <2>3 DEF WrittenRow, SeriesRow
  <2>5. \A r \in Series : series'[r] = series[r] \/ (r = s /\ series'[r] = row)
    BY <2>1, <2>2 DEF TypeOK
  <2>6. RowFree(s) /\ UNCHANGED <<allocs, audit, lock, work>>  BY <1>2 DEF ApplyEdit
  <2> QED  BY <2>4, <2>5, <2>6
<1> QED  BY <1>1, <1>2 DEF Settings, LoadForEdit, CheckEdit, DropEdit

LEMMA CreateFrame ==
    ASSUME TypeOK, RowInv, CreateSeries
    PROVE  /\ UNCHANGED <<allocs, audit, lock, work, edit>>
           /\ \A s \in Series : series'[s] # series[s] =>
                    ~series[s].exists /\ series'[s].exists /\ RowFree(s)
                    /\ Issued(s) = {} /\ series[s] = NoRow
                    /\ series'[s].current_period = NoPeriod
                    /\ ValidPattern(series'[s].pattern, series'[s].reset)
           /\ \A s \in Series : series[s].exists => series'[s] = series[s]
<1>1. PICK s \in Series, reset \in {"yearly", "never"}, pattern \in {"year", "plain"}, n \in Values :
        Create(s, reset, pattern, n)
  BY DEF CreateSeries
<1>2. \A r \in Series : series'[r] = IF r = s
            THEN [exists |-> TRUE, is_active |-> TRUE, reset |-> reset, pattern |-> pattern,
                  next_value |-> n, current_period |-> NoPeriod]
            ELSE series[r]
  BY <1>1 DEF Create, TypeOK
<1>3. /\ ~series[s].exists /\ UNCHANGED <<allocs, audit, lock, work, edit>>
      /\ ValidPattern(pattern, reset)
  BY <1>1 DEF Create
<1> QED  BY <1>2, <1>3 DEF RowInv, RowFree

\* A request changes a row, or its history, only by committing, and then it is
\* the row it holds.
LEMMA RequestFrame ==
    ASSUME TypeOK, LockInv, NEW t \in Txns, Request(t)
    PROVE  /\ UNCHANGED edit
           /\ \A u \in Txns \ {t} : work'[u] = work[u]
           /\ Commit(t) \/ UNCHANGED <<series, allocs, audit>>
           /\ Commit(t) => /\ Holding(t) /\ work[t].series \in Series
                           /\ \A s \in Series \ {work[t].series} : series'[s] = series[s]
                           /\ series'[work[t].series] = work[t].row
                           /\ allocs' = allocs \cup {work[t].alloc}
<1>1. \A u \in Txns \ {t} : work'[u] = work[u]
  BY DEF Request, Begin, Select, Wake, Acquire, Missing, Allocate, Collide, Commit, Rollback, End, TypeOK
<1>2. Rollback(t) => UNCHANGED series
  <2> SUFFICES ASSUME Rollback(t) PROVE series' = series  OBVIOUS
  <2>1. series' = series \/ series' = [series EXCEPT ![work[t].series] = series[work[t].series]]
    BY DEF Rollback, RolledBackRow
  <2> QED  BY <2>1 DEF TypeOK
<1>3. Commit(t) \/ UNCHANGED <<series, allocs, audit>>
  BY <1>2 DEF Request, Begin, Select, Wake, Acquire, Missing, Allocate, Collide, Rollback
<1>4. ASSUME Commit(t)
      PROVE  /\ Holding(t) /\ work[t].series \in Series
             /\ \A s \in Series \ {work[t].series} : series'[s] = series[s]
             /\ series'[work[t].series] = work[t].row
             /\ allocs' = allocs \cup {work[t].alloc}
  <2>1. work[t].series \in Series  BY DEF TypeOK, Work
  <2> QED  BY <1>4, <2>1 DEF Commit, Holding, TypeOK
<1>5. UNCHANGED edit
  BY DEF Request, Begin, Select, Wake, Acquire, Missing, Allocate, Collide, Commit, Rollback
<1> QED  BY <1>1, <1>3, <1>4, <1>5

\* While a transaction holds a row, nobody else changes the row or its history.
LEMMA HeldRowStable ==
    ASSUME TypeOK, LockInv, RowInv, WorkInv, [Next]_vars, NEW u \in Txns, Holding(u), work'[u] = work[u]
    PROVE  /\ series'[work[u].series] = series[work[u].series]
           /\ Issued(work[u].series)' = Issued(work[u].series)
<1> DEFINE s == work[u].series
<1>0. s \in Series /\ lock[s] = u /\ ~RowFree(s)
  BY NoTxnAssumption DEF TypeOK, Work, LockInv, RowFree
<1>1. ASSUME NEW t \in Txns, Request(t) PROVE series'[s] = series[s] /\ Issued(s)' = Issued(s)
  <2>1. CASE UNCHANGED <<series, allocs>>  BY <2>1 DEF Issued
  <2>2. CASE Commit(t)
    <3>1. work'[t] = Idle  BY <2>2 DEF Commit, End, TypeOK
    <3>2. t # u  BY <3>1 DEF Holding, Idle
    <3>3. Holding(t) /\ allocs' = allocs \cup {work[t].alloc}
          /\ \A r \in Series \ {work[t].series} : series'[r] = series[r]
      BY <1>1, <2>2, RequestFrame
    <3>4. work[t].series # s  BY <3>2, <3>3, <1>0 DEF LockInv
    <3>5. work[t].alloc.series = work[t].series  BY <2>2 DEF Commit, WorkInv, EngineOutput
    <3>6. series'[s] = series[s]  BY <3>3, <3>4, <1>0
    <3>7. \A a \in allocs' : a.series = s => a \in allocs  BY <3>3, <3>4, <3>5
    <3> QED  BY <3>3, <3>6, <3>7 DEF Issued
  <2> QED  BY <1>1, <2>1, <2>2, RequestFrame
<1>2. ASSUME NEW e \in Editors, Settings(e) PROVE series'[s] = series[s] /\ Issued(s)' = Issued(s)
  BY <1>0, <1>2, SettingsFrame DEF Issued
<1>3. CASE CreateSeries  BY <1>0, <1>3, CreateFrame DEF Issued
<1>4. CASE UNCHANGED vars  BY <1>4 DEF vars, Issued
<1> QED  BY <1>1, <1>2, <1>3, <1>4 DEF Next

\* The row a committing transaction writes is the one it holds, advanced.
LEMMA CommittedRow ==
    ASSUME TypeOK, LockInv, WorkInv, RowInv, NEW t \in Txns, Commit(t)
    PROVE  LET s == work[t].series
           IN  /\ s \in Series /\ work[t].date \in Dates /\ work[t].alloc.value \in Values
               /\ series[s] \in SeriesRow /\ series[s].exists
               /\ work[t].row = AdvancedRow(series[s], work[t].date, work[t].alloc.value)
               /\ work[t].alloc.series = s
               /\ work[t].row.exists
<1> DEFINE s == work[t].series
<1>1. /\ work[t].pc = "allocated" /\ s \in Series
      /\ work[t].date \in Dates /\ work[t].alloc.value \in Values
  BY DEF Commit, TypeOK, Work, Allocation
<1>2. lock[s] = t /\ t # NoTxn  BY <1>1, NoTxnAssumption DEF LockInv, Holding
<1>3. series[s].exists  BY <1>1, <1>2 DEF RowInv
<1>4. /\ work[t].row = AdvancedRow(series[s], work[t].date, work[t].alloc.value)
      /\ work[t].alloc.series = s
  BY <1>1 DEF WorkInv, EngineOutput
<1>5. series[s] \in SeriesRow  BY <1>1 DEF TypeOK
<1>6. work[t].row.exists  BY <1>3, <1>4, <1>5 DEF AdvancedRow, SeriesRow
<1> QED  BY <1>1, <1>3, <1>4, <1>5, <1>6

\* A series row, once created, is never deleted.
LEMMA RowsStay ==
    ASSUME TypeOK, LockInv, WorkInv, RowInv, [Next]_vars, NEW s \in Series, series[s].exists
    PROVE  series'[s].exists
<1>1. ASSUME NEW t \in Txns, Request(t) PROVE series'[s].exists
  <2>1. CASE UNCHANGED series  BY <2>1
  <2>2. CASE Commit(t)  BY <1>1, <2>2, RequestFrame, CommittedRow
  <2> QED  BY <1>1, <2>1, <2>2, RequestFrame
<1>2. ASSUME NEW e \in Editors, Settings(e) PROVE series'[s].exists
  BY <1>2, SettingsFrame
<1>3. CASE CreateSeries  BY <1>3, CreateFrame
<1>4. CASE UNCHANGED vars  BY <1>4 DEF vars
<1> QED  BY <1>1, <1>2, <1>3, <1>4 DEF Next

LEMMA StepRows == TypeOK /\ LockInv /\ WorkInv /\ RowInv /\ [Next]_vars => RowInv'
<1> SUFFICES ASSUME TypeOK, LockInv, WorkInv, RowInv, [Next]_vars PROVE RowInv'  OBVIOUS
<1>a. ASSUME NEW s \in Series, ~series'[s].exists
      PROVE  series'[s] = NoRow /\ Issued(s)' = {} /\ lock'[s] = NoTxn
  <2>1. ASSUME NEW t \in Txns, Request(t)
        PROVE  series'[s] = NoRow /\ Issued(s)' = {} /\ lock'[s] = NoTxn
    <3>1. CASE UNCHANGED <<series, allocs>>
      <4>1. ~series[s].exists /\ series[s] = NoRow /\ Issued(s) = {} /\ lock[s] = NoTxn
        BY <1>a, <3>1 DEF RowInv
      <4>2. lock' = lock \/ End(t) \/ \E r \in Series : series[r].exists /\ Acquire(t, r)
        <5>1. work[t].series \in Series  BY DEF TypeOK, Work
        <5>2. ASSUME NEW r \in ActiveSeries PROVE series[r].exists
          BY <5>2 DEF RowInv, ActiveSeries, NoRow
        <5>3. Select(t) => lock' = lock \/ \E r \in Series : series[r].exists /\ Acquire(t, r)
          BY <5>2 DEF Select, ActiveSeries
        <5>4. Wake(t) => Acquire(t, work[t].series) /\ series[work[t].series].exists
          BY <5>1 DEF Wake, RowInv, NoRow
        <5>5. Select(t) \/ Wake(t) \/ lock' = lock \/ End(t)
          BY <2>1 DEF Request, Begin, Missing, Allocate, Collide, Commit, Rollback
        <5> QED  BY <5>1, <5>3, <5>4, <5>5
      <4>3. lock'[s] = NoTxn  BY <4>1, <4>2 DEF End, Acquire, TypeOK
      <4> QED  BY <3>1, <4>1, <4>3 DEF Issued
    <3>2. CASE Commit(t)
      <4>1. work[t].row.exists /\ work[t].series \in Series /\ work[t].alloc.series = work[t].series
        BY <3>2, CommittedRow
      <4>2. s # work[t].series  BY <1>a, <2>1, <3>2, <4>1, RequestFrame
      <4>3. series'[s] = series[s] /\ allocs' = allocs \cup {work[t].alloc}
        BY <2>1, <3>2, <4>2, RequestFrame
      <4>5. series[s] = NoRow /\ Issued(s) = {} /\ lock[s] = NoTxn
        BY <1>a, <4>3 DEF RowInv
      <4>6. lock'[s] = NoTxn  BY <3>2, <4>5 DEF Commit, End, TypeOK
      <4> QED  BY <4>1, <4>2, <4>3, <4>5, <4>6 DEF Issued
    <3> QED  BY <2>1, <3>1, <3>2, RequestFrame
  <2>2. ASSUME NEW e \in Editors, Settings(e)
        PROVE  series'[s] = NoRow /\ Issued(s)' = {} /\ lock'[s] = NoTxn
    <3>1. ~series[s].exists  BY <1>a, <2>2, SettingsFrame
    <3>2. series[s] = NoRow /\ Issued(s) = {} /\ lock[s] = NoTxn  BY <3>1 DEF RowInv
    <3>3. UNCHANGED <<allocs, lock>>  BY <2>2, SettingsFrame
    <3>4. series'[s] = series[s]
      <4>1. CASE UNCHANGED series  BY <4>1
      <4>2. CASE ApplyEdit(e)
        <5>1. edit[e].series # s  BY <3>1, <4>2 DEF ApplyEdit, RowInv
        <5> QED  BY <2>2, <5>1, SettingsFrame
      <4> QED  BY <2>2, <4>1, <4>2 DEF Settings, LoadForEdit, CheckEdit, DropEdit
    <3> QED  BY <3>2, <3>3, <3>4 DEF Issued
  <2>3. CASE CreateSeries
    <3>1. series'[s] = series[s] /\ UNCHANGED <<allocs, lock>>  BY <1>a, <2>3, CreateFrame
    <3> QED  BY <1>a, <3>1 DEF RowInv, Issued
  <2>4. CASE UNCHANGED vars  BY <1>a, <2>4 DEF vars, RowInv, Issued
  <2> QED  BY <2>1, <2>2, <2>3, <2>4 DEF Next
<1>b. ASSUME NEW t \in Txns, work'[t].pc = "waiting" PROVE series'[work'[t].series].exists
  <2>0. /\ work[t] \in Work
        /\ \A s \in ActiveSeries : series[s].exists
    BY DEF TypeOK, RowInv, ActiveSeries, NoRow
  <2>1. CASE work'[t] = work[t]
    <3>1. work[t].series \in Series /\ series[work[t].series].exists
      BY <1>b, <2>0, <2>1 DEF RowInv, Work
    <3> QED  BY <2>1, <3>1, RowsStay
  <2>2. CASE Select(t)
    <3>1. PICK s \in ActiveSeries :
            \/ Acquire(t, s)
            \/ work' = [work EXCEPT ![t] = [@ EXCEPT !.pc = "waiting", !.series = s]]
      BY <2>2 DEF Select
    <3>2. [work[t] EXCEPT !.pc = "locked", !.series = s, !.row = series[s]].pc = "locked"
      BY <2>0 DEF Work
    <3>3. ~Acquire(t, s)  BY <1>b, <3>2 DEF Acquire, TypeOK
    <3>4. work'[t] = [work[t] EXCEPT !.pc = "waiting", !.series = s]
      BY <3>1, <3>3 DEF TypeOK
    <3>5. s \in Series /\ work'[t].series = s /\ series[s].exists
      BY <2>0, <3>4 DEF ActiveSeries, Work
    <3> QED  BY <3>5, RowsStay
  <2>3. ~(Wake(t) \/ Missing(t) \/ Allocate(t) \/ Collide(t) \/ Commit(t) \/ Rollback(t))
    <3>1. ~End(t)
      <4>1. Idle.pc = "idle"  BY DEF Idle
      <4> QED  BY <1>b, <4>1 DEF End, TypeOK
    <3>2. ASSUME NEW s \in Series PROVE ~Acquire(t, s)
      <4>1. [work[t] EXCEPT !.pc = "locked", !.series = s, !.row = series[s]].pc = "locked"
        BY <2>0 DEF Work
      <4> QED  BY <1>b, <4>1 DEF Acquire, TypeOK
    <3>3. ~Wake(t)
      <4>1. work[t].series \in Series  BY <2>0 DEF Work
      <4> QED  BY <3>2, <4>1 DEF Wake
    <3>4. ~Allocate(t)
      <4>1. ASSUME NEW v \in Values
            PROVE [work[t] EXCEPT
                !.pc = "allocated",
                !.row = AdvancedRow(work[t].row, work[t].date, v),
                !.alloc = PlannedAllocation(t, v),
                !.late = OutOfOrder(work[t].series, work[t].date)].pc = "allocated"
        BY <2>0 DEF Work
      <4> QED  BY <1>b, <4>1 DEF Allocate, TypeOK
    <3> QED  BY <3>1, <3>3, <3>4 DEF Missing, Collide, Commit, Rollback
  <2>4. ASSUME NEW d \in Dates, Begin(t, d) PROVE work'[t].pc = "begun"
    <3>1. [work[t] EXCEPT !.pc = "begun", !.date = d].pc = "begun"  BY <2>0 DEF Work
    <3> QED  BY <2>4, <3>1 DEF Begin, TypeOK
  <2>5. ASSUME NEW u \in Txns, Request(u) PROVE Request(t) \/ work'[t] = work[t]
    BY <2>5, RequestFrame
  <2>6. UNCHANGED work \/ \E u \in Txns : Request(u)
    <3>1. ASSUME NEW e \in Editors, Settings(e) PROVE UNCHANGED work
      BY <3>1, SettingsFrame
    <3>2. CreateSeries => UNCHANGED work  BY CreateFrame
    <3> QED  BY <3>1, <3>2 DEF Next, vars
  <2> QED  BY <1>b, <2>1, <2>2, <2>3, <2>4, <2>5, <2>6 DEF Request
<1>c. ASSUME NEW e \in Editors, edit'[e].pc # "idle" PROVE series'[edit'[e].series].exists
  <2>1. CASE edit'[e] = edit[e]
    <3>1. edit[e].series \in Series /\ series[edit[e].series].exists
      BY <1>c, <2>1 DEF RowInv, TypeOK, Edit
    <3> QED  BY <2>1, <3>1, RowsStay
  <2>2. ASSUME NEW s \in Series, LoadForEdit(e, s) PROVE series'[edit'[e].series].exists
    BY <2>2, RowsStay DEF LoadForEdit, TypeOK
  <2>3. ASSUME NEW today \in Dates, CheckEdit(e, today) PROVE edit'[e].series = edit[e].series
    BY <1>c, <2>3 DEF CheckEdit, TypeOK, Edit, NoEdit
  <2>4. CASE ApplyEdit(e) \/ DropEdit(e)  BY <1>c, <2>4 DEF ApplyEdit, DropEdit, TypeOK, NoEdit
  <2>5. ASSUME NEW today \in Dates, CheckEdit(e, today) PROVE series'[edit'[e].series].exists
    <3>1. edit[e].series \in Series /\ series[edit[e].series].exists
      BY <2>5 DEF RowInv, TypeOK, Edit, CheckEdit
    <3> QED  BY <2>3, <2>5, <3>1, RowsStay
  <2>6. Settings(e) \/ edit'[e] = edit[e]
    <3>1. ASSUME NEW f \in Editors, Settings(f) PROVE f = e \/ edit'[e] = edit[e]
      BY <3>1 DEF Settings, LoadForEdit, CheckEdit, ApplyEdit, DropEdit, TypeOK
    <3>2. ASSUME NEW t \in Txns, Request(t) PROVE edit'[e] = edit[e]
      BY <3>2, RequestFrame
    <3>3. CreateSeries => edit'[e] = edit[e]  BY CreateFrame
    <3> QED  BY <3>1, <3>2, <3>3 DEF Next, vars
  <2> QED  BY <2>1, <2>2, <2>4, <2>5, <2>6 DEF Settings
<1> QED  BY <1>a, <1>b, <1>c DEF RowInv

-----------------------------------------------------------------------------
(* What a transaction has read and written.                                *)

LEMMA StepWork == TypeOK /\ LockInv /\ WorkInv /\ RowInv /\ [Next]_vars => WorkInv'
<1> SUFFICES ASSUME TypeOK, LockInv, WorkInv, RowInv, [Next]_vars,
                    NEW u \in Txns, work'[u].pc \in {"locked", "allocated"}
             PROVE  /\ work'[u].pc = "locked" => work'[u].row = series'[work'[u].series]
                    /\ work'[u].pc = "allocated" => EngineOutput(work[u], series[work[u].series])'
  BY DEF WorkInv
<1>0. work[u] \in Work /\ work[u].series \in Series  BY DEF TypeOK, Work
<1>1. CASE work'[u] = work[u]
  <2> DEFINE s == work[u].series
  <2>1. Holding(u)  BY <1>1 DEF Holding
  <2>2. /\ series'[s] = series[s]
        /\ {a \in allocs' : a.series = s} = {a \in allocs : a.series = s}
    BY <1>1, <2>1, HeldRowStable DEF Issued
  <2>3. CASE work[u].pc = "locked"  BY <1>1, <2>2, <2>3 DEF WorkInv
  <2>4. CASE work[u].pc = "allocated"
    <3>1. EngineOutput(work[u], series[s])  BY <2>4 DEF WorkInv
    <3>2. EngineOutput(work[u], series[s])'
      BY <1>1, <2>2, <3>1
      DEF EngineOutput, PlansValue, IsHighest, ValuesIn, Collides, OutOfOrder, Issued
    <3> QED  BY <1>1, <2>4, <3>2
  <2> QED  BY <1>1, <2>1, <2>3, <2>4 DEF Holding
<1>2. ASSUME NEW s \in Series, Acquire(u, s), UNCHANGED series
      PROVE  work'[u].pc = "locked" /\ work'[u].row = series'[work'[u].series]
  <2>1. work'[u] = [work[u] EXCEPT !.pc = "locked", !.series = s, !.row = series[s]]
    BY <1>2 DEF Acquire, TypeOK
  <2>2. work'[u].pc = "locked" /\ work'[u].series = s /\ work'[u].row = series[s]
    BY <1>0, <2>1 DEF Work
  <2> QED  BY <1>2, <2>2
<1>3. CASE Select(u)
  <2>1. PICK s \in Series :
          \/ Acquire(u, s)
          \/ work' = [work EXCEPT ![u] = [@ EXCEPT !.pc = "waiting", !.series = s]]
    BY <1>3 DEF Select, ActiveSeries
  <2>2. [work[u] EXCEPT !.pc = "waiting", !.series = s].pc = "waiting"  BY <1>0 DEF Work
  <2>3. Acquire(u, s)  BY <2>1, <2>2 DEF TypeOK
  <2> QED  BY <1>2, <1>3, <2>3 DEF Select
<1>4. CASE Wake(u)  BY <1>0, <1>2, <1>4 DEF Wake
<1>5. CASE Allocate(u)
  <2>1. PICK v \in Values :
          /\ PlansValue(work[u].series, work[u].row, work[u].date, v)
          /\ ~Collides(work[u].series, PlannedAllocation(u, v))
          /\ work'[u] = [work[u] EXCEPT
                !.pc = "allocated",
                !.row = AdvancedRow(work[u].row, work[u].date, v),
                !.alloc = PlannedAllocation(u, v),
                !.late = OutOfOrder(work[u].series, work[u].date)]
    BY <1>5 DEF Allocate, TypeOK
  <2>2. /\ work'[u].pc = "allocated" /\ work'[u].series = work[u].series
        /\ work'[u].date = work[u].date
        /\ work'[u].row = AdvancedRow(work[u].row, work[u].date, v)
        /\ work'[u].alloc = PlannedAllocation(u, v)
        /\ work'[u].late = OutOfOrder(work[u].series, work[u].date)
    BY <1>0, <2>1 DEF Work
  <2>3. work[u].row = series[work[u].series]  BY <1>5 DEF Allocate, WorkInv
  <2>4. PlannedAllocation(u, v) =
          [series |-> work[u].series, period |-> PeriodOf[work[u].date], value |-> v,
           number |-> Render(work[u].row.pattern, PeriodOf[work[u].date], v),
           date |-> work[u].date]
    BY DEF PlannedAllocation
  <2>5. series' = series /\ allocs' = allocs  BY <1>5 DEF Allocate
  <2>6. EngineOutput(work[u], series[work[u].series])'
    BY <2>1, <2>2, <2>3, <2>4, <2>5
    DEF EngineOutput, PlansValue, IsHighest, ValuesIn, Collides, OutOfOrder, Issued
  <2> QED  BY <2>2, <2>6
<1>6. ASSUME End(u) PROVE FALSE
  <2>1. Idle.pc = "idle"  BY DEF Idle
  <2> QED  BY <1>6, <2>1 DEF End, TypeOK
<1>7. ASSUME NEW d \in Dates, Begin(u, d) PROVE FALSE
  <2>1. [work[u] EXCEPT !.pc = "begun", !.date = d].pc = "begun"  BY <1>0 DEF Work
  <2> QED  BY <1>7, <2>1 DEF Begin, TypeOK
<1>8. Request(u) \/ work'[u] = work[u]
  <2>1. ASSUME NEW t \in Txns, Request(t) PROVE Request(u) \/ work'[u] = work[u]
    BY <2>1, RequestFrame
  <2>2. ASSUME NEW e \in Editors, Settings(e) PROVE UNCHANGED work
    BY <2>2, SettingsFrame
  <2>3. CreateSeries => UNCHANGED work  BY CreateFrame
  <2> QED  BY <2>1, <2>2, <2>3 DEF Next, vars
<1> QED
  BY <1>1, <1>3, <1>4, <1>5, <1>6, <1>7, <1>8 DEF Request, Missing, Collide, Commit, Rollback

LEMMA StepEdit == TypeOK /\ LockInv /\ RowInv /\ EditInv /\ [Next]_vars => EditInv'
<1> SUFFICES ASSUME TypeOK, LockInv, RowInv, EditInv, [Next]_vars, NEW e \in Editors
             PROVE  /\ "next_value" \in Edits \/ edit'[e].wanted.next_value = edit'[e].loaded.next_value
                    /\ "reset" \in Edits \/ edit'[e].wanted.reset = edit'[e].loaded.reset
                    /\ "pattern" \in Edits \/ edit'[e].wanted.pattern = edit'[e].loaded.pattern
  BY DEF EditInv
<1>1. CASE edit'[e] = edit[e]  BY <1>1 DEF EditInv
<1>2. ASSUME NEW s \in Series, LoadForEdit(e, s)
      PROVE  /\ "next_value" \in Edits \/ edit'[e].wanted.next_value = edit'[e].loaded.next_value
             /\ "reset" \in Edits \/ edit'[e].wanted.reset = edit'[e].loaded.reset
             /\ "pattern" \in Edits \/ edit'[e].wanted.pattern = edit'[e].loaded.pattern
  <2>1. PICK n \in Choices("next_value", Values, series[s].next_value),
             r \in Choices("reset", {"yearly", "never"}, series[s].reset),
             p \in Choices("pattern", {"year", "plain"}, series[s].pattern),
             a \in Choices("is_active", BOOLEAN, series[s].is_active) :
          edit' = [edit EXCEPT ![e] =
            [pc |-> "loaded", series |-> s, loaded |-> series[s],
             wanted |-> [series[s] EXCEPT
                !.next_value = n, !.reset = r, !.pattern = p, !.is_active = a]]]
    BY <1>2 DEF LoadForEdit
  <2> DEFINE wanted == [series[s] EXCEPT
                !.next_value = n, !.reset = r, !.pattern = p, !.is_active = a]
  <2>2. wanted.next_value = n /\ wanted.reset = r /\ wanted.pattern = p
    <3>1. series[s] \in SeriesRow  BY DEF TypeOK
    <3> QED  BY <3>1 DEF SeriesRow
  <2>3. edit'[e].loaded = series[s] /\ edit'[e].wanted = wanted
    BY <2>1 DEF TypeOK
  <2> HIDE DEF wanted
  <2> QED  BY <2>2, <2>3 DEF Choices
<1>3. ASSUME NEW today \in Dates, CheckEdit(e, today)
      PROVE  edit'[e] = NoEdit \/ (edit'[e].loaded = edit[e].loaded /\ edit'[e].wanted = edit[e].wanted)
  BY <1>3 DEF CheckEdit, TypeOK, Edit
<1>4. ApplyEdit(e) \/ DropEdit(e) => edit'[e] = NoEdit  BY DEF ApplyEdit, DropEdit, TypeOK
<1>5. NoEdit.wanted = NoEdit.loaded  BY DEF NoEdit
<1>6. Settings(e) \/ edit'[e] = edit[e]
  <2>1. ASSUME NEW f \in Editors, Settings(f) PROVE f = e \/ edit'[e] = edit[e]
    BY <2>1 DEF Settings, LoadForEdit, CheckEdit, ApplyEdit, DropEdit, TypeOK
  <2>2. ASSUME NEW t \in Txns, Request(t) PROVE edit'[e] = edit[e]
    BY <2>2, RequestFrame
  <2>3. CreateSeries => edit'[e] = edit[e]  BY CreateFrame
  <2> QED  BY <2>1, <2>2, <2>3 DEF Next, vars
<1> QED  BY <1>1, <1>2, <1>3, <1>4, <1>5, <1>6 DEF Settings, EditInv

LEMMA InitInductive == Init => IInv
<1> SUFFICES ASSUME Init PROVE IInv  OBVIOUS
<1>1. TypeOK  BY InitTyped
<1>2. /\ \A t \in Txns : work[t].pc = "idle"
      /\ \A e \in Editors : edit[e].pc = "idle" /\ edit[e].wanted = edit[e].loaded
      /\ \A s \in Series : lock[s] = NoTxn /\ Issued(s) = {}
  BY DEF Init, Idle, NoEdit, Issued
<1>3. \A s \in Series : ~series[s].exists => series[s] = NoRow
  BY DEF Init, Seeds
<1>4. AuditInv  BY DEF Init, AuditInv
<1> QED  BY <1>1, <1>2, <1>3, <1>4 DEF IInv, LockInv, WorkInv, RowInv, EditInv, Holding

\* Nobody but a committing request touches the history or the events.
LEMMA HistoryFrame ==
    ASSUME TypeOK, LockInv, RowInv, [Next]_vars
    PROVE  \/ UNCHANGED <<allocs, audit>>
           \/ \E t \in Txns : Commit(t)
<1>1. ASSUME NEW e \in Editors, Settings(e) PROVE UNCHANGED <<allocs, audit>>
  BY <1>1, SettingsFrame
<1>2. CreateSeries => UNCHANGED <<allocs, audit>>  BY CreateFrame
<1>3. ASSUME NEW t \in Txns, Request(t) PROVE Commit(t) \/ UNCHANGED <<allocs, audit>>
  BY <1>3, RequestFrame
<1> QED  BY <1>1, <1>2, <1>3 DEF Next, vars

LEMMA StepAudit == TypeOK /\ LockInv /\ RowInv /\ AuditInv /\ [Next]_vars => AuditInv'
<1> SUFFICES ASSUME TypeOK, LockInv, RowInv, AuditInv, [Next]_vars PROVE AuditInv'  OBVIOUS
<1>1. ASSUME NEW t \in Txns, Commit(t) PROVE AuditInv'  BY <1>1 DEF Commit, AuditInv
<1>2. UNCHANGED <<allocs, audit>> => AuditInv'  BY DEF AuditInv
<1> QED  BY <1>1, <1>2, HistoryFrame

LEMMA StepInductive == IInv /\ [Next]_vars => IInv'
BY StepTyped, StepLocks, StepWork, StepRows, StepEdit, StepAudit DEF IInv

\* What the row lock buys, for any number of concurrent requests and editors:
\* whatever a request read under the lock is still the committed state when it
\* writes, and what it is about to commit is exactly what the engine makes of it.
THEOREM LockedWorkIsCurrent == Spec => []IInv
<1> QED  BY InitInductive, StepInductive, PTL DEF Spec

-----------------------------------------------------------------------------
(* Step properties, under every edit an administrator can make.            *)

LEMMA PeriodsAreNumbers == \A row \in SeriesRow : row.current_period \in Nat
<1>1. ASSUME NEW row \in SeriesRow PROVE row.current_period \in Nat
  <2>1. row.current_period \in Periods \cup {NoPeriod}  BY DEF SeriesRow
  <2>2. NoPeriod \in Nat  BY DEF NoPeriod
  <2> QED  BY <2>1, <2>2, Placeholders
<1> QED  BY <1>1

\* The largest a counter row's period can do is move forward.
LEMMA AdvancedRowFields ==
    ASSUME NEW row \in SeriesRow, NEW d \in Dates, NEW v \in Values
    PROVE  LET new == AdvancedRow(row, d, v)
           IN  /\ new.current_period >= row.current_period
               /\ new.next_value # row.next_value => new.next_value = v + 1
               /\ row.reset = "yearly" /\ PeriodOf[d] < row.current_period => new = row
               /\ new.reset = row.reset /\ new.pattern = row.pattern
<1>1. row.current_period \in Nat /\ PeriodOf[d] \in Nat
  BY PeriodsAreNumbers, Placeholders
<1> DEFINE forward == PeriodOf[d] >= row.current_period
<1>3. AdvancedRow(row, d, v) = [row EXCEPT
        !.next_value = IF row.reset = "never" \/ forward THEN v + 1 ELSE row.next_value,
        !.current_period = IF forward THEN PeriodOf[d] ELSE row.current_period]
  BY DEF AdvancedRow
<1>4. ASSUME row.reset = "yearly", PeriodOf[d] < row.current_period
      PROVE  AdvancedRow(row, d, v) = row
  <2>1. ~forward /\ row.reset # "never"  BY <1>1, <1>4
  <2>2. AdvancedRow(row, d, v) =
          [row EXCEPT !.next_value = row.next_value, !.current_period = row.current_period]
    BY <1>3, <2>1
  <2> QED  BY <2>2 DEF SeriesRow
<1>5. /\ AdvancedRow(row, d, v).next_value \in {v + 1, row.next_value}
      /\ AdvancedRow(row, d, v).current_period =
            IF forward THEN PeriodOf[d] ELSE row.current_period
      /\ AdvancedRow(row, d, v).reset = row.reset
      /\ AdvancedRow(row, d, v).pattern = row.pattern
  BY <1>3 DEF SeriesRow
<1> QED  BY <1>1, <1>4, <1>5

\* current_period only moves forward, whatever is issued, edited or replaced.
THEOREM PeriodsMoveForward == Spec => PeriodNeverBack
<1>1. IInv /\ [Next]_vars => \A s \in Series : series'[s].current_period >= series[s].current_period
  <2> SUFFICES ASSUME IInv, [Next]_vars, NEW s \in Series
               PROVE  series'[s].current_period >= series[s].current_period
    OBVIOUS
  <2>0. TypeOK /\ LockInv /\ WorkInv /\ RowInv  BY DEF IInv
  <2>1. series[s].current_period \in Nat
    BY <2>0, PeriodsAreNumbers DEF TypeOK
  <2>2. ASSUME NEW t \in Txns, Request(t), series'[s] # series[s]
        PROVE  series'[s].current_period >= series[s].current_period
    <3>1. Commit(t) /\ s = work[t].series /\ series'[s] = work[t].row
      BY <2>0, <2>2, RequestFrame
    <3>2. /\ series[s] \in SeriesRow /\ work[t].date \in Dates /\ work[t].alloc.value \in Values
          /\ series'[s] = AdvancedRow(series[s], work[t].date, work[t].alloc.value)
      BY <2>0, <3>1, CommittedRow
    <3> QED  BY <3>2, AdvancedRowFields
  <2>3. ASSUME NEW e \in Editors, Settings(e)
        PROVE  series'[s].current_period = series[s].current_period
    <3>1. CASE UNCHANGED series  BY <3>1
    <3>2. CASE ApplyEdit(e)
      <4> DEFINE r == edit[e].series
                 row == WrittenRow(series[r], edit[e].loaded, edit[e].wanted)
      <4>1. r \in Series /\ series[r] \in SeriesRow  BY <2>0 DEF TypeOK, Edit
      <4>2. row.current_period = series[r].current_period  BY <4>1 DEF WrittenRow, SeriesRow
      <4>3. series' = series \/ series' = [series EXCEPT ![r] = row]  BY <3>2 DEF ApplyEdit
      <4> QED  BY <2>0, <4>1, <4>2, <4>3 DEF TypeOK
    <3> QED  BY <2>3, <3>1, <3>2 DEF Settings, LoadForEdit, CheckEdit, DropEdit
  <2>4. ASSUME CreateSeries, series'[s] # series[s]
        PROVE  series'[s].current_period = series[s].current_period
    BY <2>0, <2>4, CreateFrame DEF NoRow
  <2>5. CASE UNCHANGED vars  BY <2>1, <2>5 DEF vars
  <2> QED  BY <2>1, <2>2, <2>3, <2>4, <2>5 DEF Next
<1> QED  BY <1>1, LockedWorkIsCurrent, PTL DEF Spec, PeriodNeverBack

\* A document back-dated into a closed year leaves the counter row alone.
THEOREM ClosedYearsLeaveTheCounter == Spec => BackDatedLeavesCounter
<1>1. IInv /\ [Next]_vars => \A a \in allocs' \ allocs :
        series[a.series].reset = "yearly" /\ a.period < series[a.series].current_period
            => series'[a.series] = series[a.series]
  <2> SUFFICES ASSUME IInv, [Next]_vars, NEW a \in allocs' \ allocs,
                      series[a.series].reset = "yearly",
                      a.period < series[a.series].current_period
               PROVE  series'[a.series] = series[a.series]
    OBVIOUS
  <2>0. TypeOK /\ LockInv /\ WorkInv /\ RowInv  BY DEF IInv
  <2>1. PICK t \in Txns : Commit(t)  BY <2>0, HistoryFrame
  <2>2. a = work[t].alloc  BY <2>1 DEF Commit
  <2>3. /\ a.series = work[t].series /\ a.period = PeriodOf[work[t].date]
        /\ work[t].series \in Series
        /\ series[work[t].series] \in SeriesRow /\ work[t].date \in Dates
        /\ work[t].alloc.value \in Values
        /\ work[t].row = AdvancedRow(series[work[t].series], work[t].date, work[t].alloc.value)
    BY <2>0, <2>1, <2>2, CommittedRow DEF Commit, WorkInv, EngineOutput
  <2>4. work[t].row = series[work[t].series]  BY <2>3, AdvancedRowFields
  <2>5. series' = [series EXCEPT ![work[t].series] = work[t].row]  BY <2>1 DEF Commit
  <2> QED  BY <2>0, <2>3, <2>4, <2>5 DEF TypeOK
<1> QED  BY <1>1, LockedWorkIsCurrent, PTL DEF Spec, BackDatedLeavesCounter

\* The number a commit adds to the history was not in it.
LEMMA CommitAddsOne ==
    ASSUME IInv, NEW t \in Txns, Commit(t)
    PROVE  /\ allocs' \ allocs = {work[t].alloc}
           /\ work[t].alloc.series = work[t].series
           /\ work[t].alloc.date = work[t].date
           /\ work[t].alloc.period = PeriodOf[work[t].date]
           /\ work[t].late <=> OutOfOrder(work[t].series, work[t].date)
<1>1. work[t].pc = "allocated" /\ EngineOutput(work[t], series[work[t].series])
  BY DEF IInv, Commit, WorkInv
<1>2. work[t].alloc \notin allocs
  BY <1>1 DEF EngineOutput, Collides, Issued
<1> QED  BY <1>1, <1>2 DEF Commit, EngineOutput

\* Every late number has its event, and no other number has one, whatever else
\* commits, rolls back or is edited around it.
THEOREM LateNumbersAreAudited == Spec => EventForEveryLateNumber
<1>1. IInv /\ [Next]_vars => \A a \in allocs' \ allocs :
        a \in audit' <=> \E b \in allocs : b.series = a.series /\ b.date > a.date
  <2> SUFFICES ASSUME IInv, [Next]_vars, NEW a \in allocs' \ allocs
               PROVE  a \in audit' <=> \E b \in allocs : b.series = a.series /\ b.date > a.date
    OBVIOUS
  <2>1. PICK t \in Txns : Commit(t)  BY HistoryFrame DEF IInv
  <2>2. /\ a = work[t].alloc /\ a.series = work[t].series /\ a.date = work[t].date
        /\ work[t].late <=> OutOfOrder(work[t].series, work[t].date)
    BY <2>1, CommitAddsOne
  <2>3. a \notin audit  BY DEF IInv, AuditInv
  <2>4. a \in audit' <=> work[t].late  BY <2>1, <2>2, <2>3 DEF Commit
  <2> QED  BY <2>2, <2>4 DEF OutOfOrder, Issued
<1> QED  BY <1>1, LockedWorkIsCurrent, PTL DEF Spec, EventForEveryLateNumber

\* The counter moves only behind a committed number or at somebody's request:
\* no stale edit rewinds it and no rolled-back request leaves a trace in it.
THEOREM CounterMovesForAReason == Spec => CounterMovesWithReason
<1> DEFINE Reason(s) ==
        \/ \E a \in allocs' \ allocs :
            a.series = s /\ series'[s].next_value = a.value + 1
        \/ \E e \in Editors :
            /\ edit[e].pc = "checked" /\ edit[e].series = s
            /\ edit[e].wanted.next_value # edit[e].loaded.next_value
            /\ series'[s].next_value = edit[e].wanted.next_value
<1>1. IInv /\ [Next]_vars => \A s \in Series :
        series[s].exists /\ series'[s].next_value # series[s].next_value => Reason(s)
  <2> SUFFICES ASSUME IInv, [Next]_vars, NEW s \in Series, series[s].exists,
                      series'[s].next_value # series[s].next_value
               PROVE  Reason(s)
    OBVIOUS
  <2>0. TypeOK /\ LockInv /\ WorkInv /\ RowInv  BY DEF IInv
  <2>1. ASSUME NEW t \in Txns, Request(t) PROVE Reason(s)
    <3>1. Commit(t) /\ s = work[t].series /\ series'[s] = work[t].row
      BY <2>0, <2>1, RequestFrame
    <3>2. /\ series[s] \in SeriesRow /\ work[t].date \in Dates /\ work[t].alloc.value \in Values
          /\ series'[s] = AdvancedRow(series[s], work[t].date, work[t].alloc.value)
      BY <2>0, <3>1, CommittedRow
    <3> DEFINE d == work[t].date
               v == work[t].alloc.value
    <3>3. series'[s].next_value = v + 1
      <4>1. AdvancedRow(series[s], d, v).next_value # series[s].next_value
                => AdvancedRow(series[s], d, v).next_value = v + 1
        <5> HIDE DEF d, v
        <5>1. d \in Dates /\ v \in Values /\ series[s] \in SeriesRow  BY <3>2 DEF d, v
        <5> QED  BY <5>1, AdvancedRowFields
      <4> QED  BY <3>2, <4>1
    <3>4. work[t].alloc \in allocs' \ allocs /\ work[t].alloc.series = s
      BY <3>1, CommitAddsOne
    <3> QED  BY <3>3, <3>4
  <2>2. ASSUME NEW e \in Editors, Settings(e) PROVE Reason(s)
    <3>1. ApplyEdit(e)
      BY <2>2 DEF Settings, LoadForEdit, CheckEdit, DropEdit
    <3> DEFINE row == WrittenRow(series[s], edit[e].loaded, edit[e].wanted)
    <3>2. s = edit[e].series /\ edit[e].pc = "checked"
      BY <2>0, <2>2, <3>1, SettingsFrame DEF ApplyEdit
    <3>3. series'[s] = row  BY <2>0, <3>1, <3>2 DEF ApplyEdit, TypeOK
    <3>4. row.next_value = IF edit[e].wanted.next_value # edit[e].loaded.next_value
                           THEN edit[e].wanted.next_value ELSE series[s].next_value
      BY <2>0 DEF WrittenRow, TypeOK, SeriesRow
    <3> QED  BY <3>2, <3>3, <3>4
  <2>3. ~CreateSeries  BY <2>0, CreateFrame
  <2>4. ~UNCHANGED vars  BY DEF vars
  <2> QED  BY <2>1, <2>2, <2>3, <2>4 DEF Next
<1> QED  BY <1>1, LockedWorkIsCurrent, PTL DEF Spec, CounterMovesWithReason

-----------------------------------------------------------------------------
(* Gap-free numbers, while nobody edits next_value or reset.               *)

\* What happens to one series in one step.
LEMMA RowMoves ==
    ASSUME IInv, [Next]_vars, NEW s \in Series
    PROVE  \/ /\ series'[s] = series[s] /\ Issued(s)' = Issued(s)
           \/ \E t \in Txns :
                /\ Commit(t) /\ s = work[t].series /\ work[t].pc = "allocated"
                /\ series'[s] = AdvancedRow(series[s], work[t].date, work[t].alloc.value)
                /\ Issued(s)' = Issued(s) \cup {work[t].alloc}
           \/ /\ CreateSeries /\ series[s] = NoRow /\ Issued(s) = {} /\ Issued(s)' = {}
              /\ series'[s].current_period = NoPeriod
              /\ ValidPattern(series'[s].pattern, series'[s].reset)
           \/ \E e \in Editors :
                /\ edit[e].pc = "checked" /\ edit[e].series = s
                /\ series'[s] = WrittenRow(series[s], edit[e].loaded, edit[e].wanted)
                /\ Issued(s)' = Issued(s)
<1>0. TypeOK /\ LockInv /\ WorkInv /\ RowInv  BY DEF IInv
<1>1. ASSUME NEW t \in Txns, Request(t)
      PROVE  \/ series'[s] = series[s] /\ Issued(s)' = Issued(s)
             \/ /\ Commit(t) /\ s = work[t].series /\ work[t].pc = "allocated"
                /\ series'[s] = AdvancedRow(series[s], work[t].date, work[t].alloc.value)
                /\ Issued(s)' = Issued(s) \cup {work[t].alloc}
  <2>1. CASE UNCHANGED <<series, allocs>>  BY <2>1 DEF Issued
  <2>2. CASE Commit(t)
    <3>1. /\ work[t].pc = "allocated" /\ allocs' = allocs \cup {work[t].alloc}
          /\ work[t].alloc.series = work[t].series
          /\ work[t].row =
               AdvancedRow(series[work[t].series], work[t].date, work[t].alloc.value)
      BY <1>0, <2>2, CommittedRow DEF Commit
    <3>2. Issued(s)' = Issued(s) \cup (IF s = work[t].series THEN {work[t].alloc} ELSE {})
      BY <3>1 DEF Issued
    <3>3. series'[s] = IF s = work[t].series THEN work[t].row ELSE series[s]
      BY <1>0, <1>1, <2>2, RequestFrame
    <3> QED  BY <2>2, <3>1, <3>2, <3>3
  <2> QED  BY <1>0, <1>1, <2>1, <2>2, RequestFrame
<1>2. ASSUME NEW e \in Editors, Settings(e)
      PROVE  /\ Issued(s)' = Issued(s)
             /\ \/ series'[s] = series[s]
                \/ /\ edit[e].pc = "checked" /\ edit[e].series = s
                   /\ series'[s] = WrittenRow(series[s], edit[e].loaded, edit[e].wanted)
  <2>1. Issued(s)' = Issued(s)  BY <1>0, <1>2, SettingsFrame DEF Issued
  <2>2. CASE UNCHANGED series  BY <2>1, <2>2
  <2>3. CASE ApplyEdit(e)
    <3>1. edit[e].pc = "checked"  BY <2>3 DEF ApplyEdit
    <3>2. \/ series' = series
          \/ series' = [series EXCEPT ![edit[e].series] =
                WrittenRow(series[edit[e].series], edit[e].loaded, edit[e].wanted)]
      BY <2>3 DEF ApplyEdit
    <3> QED  BY <1>0, <2>1, <3>1, <3>2 DEF TypeOK
  <2> QED  BY <1>2, <2>1, <2>2, <2>3 DEF Settings, LoadForEdit, CheckEdit, DropEdit
<1>3. CASE CreateSeries
  <2>1. Issued(s)' = Issued(s)  BY <1>0, <1>3, CreateFrame DEF Issued
  <2> QED  BY <1>0, <1>3, <2>1, CreateFrame
<1>4. CASE UNCHANGED vars  BY <1>4 DEF vars, Issued
<1> QED  BY <1>1, <1>2, <1>3, <1>4 DEF Next

LEMMA AdvancedRowIs ==
    ASSUME NEW row \in SeriesRow, NEW d \in Dates, NEW v \in Values
    PROVE  LET new == AdvancedRow(row, d, v)
               forward == PeriodOf[d] >= row.current_period
           IN  /\ new.reset = row.reset /\ new.pattern = row.pattern
               /\ new.next_value = IF row.reset = "never" \/ forward THEN v + 1
                                   ELSE row.next_value
               /\ new.current_period = IF forward THEN PeriodOf[d] ELSE row.current_period
BY DEF AdvancedRow, SeriesRow

\* A series' history: the values of a year, and what a row plans on it.
ValuesOf(history, period) == {a.value : a \in {b \in history : b.period = period}}

Plans(row, history, d, v) ==
    IF row.reset = "yearly" /\ PeriodOf[d] # row.current_period
    THEN IsHighest(ValuesOf(history, PeriodOf[d]), v - 1)
    ELSE v = row.next_value

\* A yearly counter stands right behind the largest value of its year, and no
\* year is later than it; a continuous one stands behind everything issued.
Counts(row, history) ==
    IF row.reset = "yearly"
    THEN /\ \A a \in history : a.period <= row.current_period
         /\ row.current_period # NoPeriod =>
                IsHighest(ValuesOf(history, row.current_period), row.next_value - 1)
    ELSE /\ \A a \in history : a.value < row.next_value
         /\ history # {} => \E a \in history : a.value = row.next_value - 1

\* GapFree, of one series.
Gapless(row, history) ==
    IF row.reset = "yearly"
    THEN \A a \in history : \A v \in 1..a.value : v \in ValuesOf(history, a.period)
    ELSE \A a, b \in history : \A v \in a.value..b.value : \E c \in history : c.value = v

CounterInv == \A s \in Series : Counts(series[s], Issued(s)) /\ Gapless(series[s], Issued(s))

\* The value a yearly row plans comes right after the largest of its year.
LEMMA PlannedIsNext ==
    ASSUME NEW row \in SeriesRow, NEW history \in SUBSET Allocation, NEW d \in Dates,
           NEW v \in Values, Counts(row, history), Plans(row, history, d, v),
           row.reset = "yearly"
    PROVE  IsHighest(ValuesOf(history, PeriodOf[d]), v - 1)
BY Placeholders DEF Counts, Plans

\* One more number, in the year of its document.
LEMMA HistoryGrows ==
    ASSUME NEW history, NEW a
    PROVE  /\ ValuesOf(history \cup {a}, a.period) = ValuesOf(history, a.period) \cup {a.value}
           /\ \A q : q # a.period => ValuesOf(history \cup {a}, q) = ValuesOf(history, q)
BY DEF ValuesOf

\* Issuing what the row plans keeps the row behind its history and leaves no gap.
LEMMA IssuingCounts ==
    ASSUME NEW row \in SeriesRow, NEW history \in SUBSET Allocation, NEW a \in Allocation,
           NEW d \in Dates, a.period = PeriodOf[d],
           Plans(row, history, d, a.value), Counts(row, history), Gapless(row, history)
    PROVE  /\ Counts(AdvancedRow(row, d, a.value), history \cup {a})
           /\ Gapless(AdvancedRow(row, d, a.value), history \cup {a})
<1> DEFINE p == PeriodOf[d]
           v == a.value
           cur == row.current_period
           grown == history \cup {a}
           new == AdvancedRow(row, d, v)
<1>1. /\ v \in Values /\ v \in Nat /\ v >= 1 /\ p \in Nat /\ p # NoPeriod /\ cur \in Nat
      /\ row.next_value \in Nat /\ row.reset \in {"yearly", "never"}
      /\ \A b \in history : b.value \in Nat /\ b.value >= 1 /\ b.period \in Nat
  <2>1. v \in Values /\ v \in Nat /\ v >= 1  BY DEF Allocation, Values
  <2>2. p \in Nat /\ p # NoPeriod /\ cur \in Nat  BY Placeholders, PeriodsAreNumbers
  <2>3. row.next_value \in Nat /\ row.reset \in {"yearly", "never"}  BY DEF SeriesRow
  <2>4. \A b \in history : b.value \in Values /\ b.period \in Nat
    BY Placeholders DEF Allocation
  <2> QED  BY <2>1, <2>2, <2>3, <2>4 DEF Values
<1>2. /\ new.reset = row.reset
      /\ new.next_value = IF row.reset = "never" \/ p >= cur THEN v + 1 ELSE row.next_value
      /\ new.current_period = IF p >= cur THEN p ELSE cur
  BY <1>1, AdvancedRowIs
<1>3. /\ ValuesOf(grown, p) = ValuesOf(history, p) \cup {v}
      /\ \A q : q # p => ValuesOf(grown, q) = ValuesOf(history, q)
  <2>1. /\ ValuesOf(grown, a.period) = ValuesOf(history, a.period) \cup {v}
        /\ \A q : q # a.period => ValuesOf(grown, q) = ValuesOf(history, q)
    BY HistoryGrows
  <2> QED  BY <2>1
<1>4. \A b \in grown : b \in history \/ b = a  OBVIOUS
<1> HIDE DEF new
<1>5. CASE row.reset = "yearly"
  <2>1. IsHighest(ValuesOf(history, p), v - 1)  BY <1>1, <1>5, PlannedIsNext
  <2>2. IsHighest(ValuesOf(grown, p), v)
    <3>1. \A u \in ValuesOf(history, p) : u \in Nat  BY <1>1 DEF ValuesOf
    <3> QED  BY <1>1, <1>3, <2>1, <3>1 DEF IsHighest
  <2>3. \A b \in grown : b.period <= new.current_period
    <3>1. \A b \in history : b.period <= cur  BY <1>5 DEF Counts
    <3> QED  BY <1>1, <1>2, <1>4, <3>1
  <2>4. new.current_period # NoPeriod =>
          IsHighest(ValuesOf(grown, new.current_period), new.next_value - 1)
    <3>1. CASE p >= cur
      <4>1. new.current_period = p /\ new.next_value = v + 1  BY <1>2, <3>1
      <4>2. new.next_value - 1 = v  BY <1>1, <4>1
      <4> QED  BY <2>2, <4>1, <4>2
    <3>2. CASE ~(p >= cur)
      <4>1. new.current_period = cur /\ new.next_value = row.next_value /\ cur # p
        BY <1>1, <1>2, <1>5, <3>2
      <4> QED  BY <1>3, <1>5, <4>1 DEF Counts
    <3> QED  BY <3>1, <3>2
  <2>5. ASSUME NEW b \in grown, NEW u \in 1..b.value PROVE u \in ValuesOf(grown, b.period)
    <3>1. CASE b \in history
      <4>1. u \in ValuesOf(history, b.period)  BY <1>5, <2>5, <3>1 DEF Gapless
      <4> QED  BY <1>3, <4>1
    <3>2. CASE b = a
      <4>1. CASE u = v  BY <1>3, <3>2, <4>1
      <4>2. CASE u # v
        <5>1. u \in 1..(v - 1) /\ v - 1 # 0  BY <1>1, <2>5, <3>2, <4>2
        <5>2. v - 1 \in ValuesOf(history, p)  BY <2>1, <5>1 DEF IsHighest
        <5>3. PICK c \in history : c.period = p /\ c.value = v - 1  BY <5>2 DEF ValuesOf
        <5>4. u \in ValuesOf(history, p)  BY <1>5, <5>1, <5>3 DEF Gapless
        <5> QED  BY <1>3, <3>2, <5>4
      <4> QED  BY <4>1, <4>2
    <3> QED  BY <1>4, <3>1, <3>2
  <2>6. Counts(new, grown)  BY <1>2, <1>5, <2>3, <2>4 DEF Counts
  <2>7. Gapless(new, grown)  BY <1>2, <1>5, <2>5 DEF Gapless
  <2> QED  BY <2>6, <2>7 DEF new
<1>6. CASE row.reset = "never"
  <2>1. v = row.next_value /\ new.next_value = v + 1  BY <1>2, <1>6 DEF Plans
  <2>2. /\ \A b \in history : b.value < v
        /\ history # {} => \E c \in history : c.value = v - 1
    BY <1>6, <2>1 DEF Counts
  <2>3. Counts(new, grown)
    <3>1. \A b \in grown : b.value < v + 1  BY <1>1, <1>4, <2>2
    <3>2. a \in grown /\ a.value = (v + 1) - 1  BY <1>1
    <3> QED  BY <1>2, <1>6, <2>1, <3>1, <3>2 DEF Counts
  <2>4. ASSUME NEW x \in grown, NEW y \in grown, NEW u \in x.value..y.value
        PROVE  \E c \in grown : c.value = u
    <3>1. CASE u = v  BY <3>1
    <3>2. CASE u # v
      <4>1. x.value \in Nat /\ y.value \in Nat /\ x.value <= v /\ y.value <= v
        BY <1>1, <1>4, <2>2
      <4>2. u \in Nat /\ u < v /\ x.value < v  BY <1>1, <2>4, <3>2, <4>1
      <4>3. x \in history  BY <1>1, <1>4, <4>2
      <4>4. PICK c \in history : c.value = v - 1  BY <2>2, <4>3
      <4>5. u \in x.value..c.value  BY <1>1, <2>4, <4>1, <4>2, <4>4
      <4> QED  BY <1>6, <4>3, <4>4, <4>5 DEF Gapless
    <3> QED  BY <3>1, <3>2
  <2>5. Gapless(new, grown)  BY <1>2, <1>6, <2>4 DEF Gapless
  <2> QED  BY <2>3, <2>5 DEF new
<1> QED  BY <1>1, <1>5, <1>6

\* The columns an UPDATE leaves alone.
LEMMA WrittenFields ==
    ASSUME IInv, NEW e \in Editors, NEW row \in SeriesRow
    PROVE  LET new == WrittenRow(row, edit[e].loaded, edit[e].wanted) IN
           /\ new.current_period = row.current_period
           /\ "next_value" \notin Edits => new.next_value = row.next_value
           /\ "reset" \notin Edits => new.reset = row.reset
           /\ "pattern" \notin Edits => new.pattern = row.pattern
           /\ new.reset = IF edit[e].wanted.reset # edit[e].loaded.reset
                          THEN edit[e].wanted.reset ELSE row.reset
           /\ new.pattern = IF edit[e].wanted.pattern # edit[e].loaded.pattern
                            THEN edit[e].wanted.pattern ELSE row.pattern
<1>1. /\ "next_value" \in Edits \/ edit[e].wanted.next_value = edit[e].loaded.next_value
      /\ "reset" \in Edits \/ edit[e].wanted.reset = edit[e].loaded.reset
      /\ "pattern" \in Edits \/ edit[e].wanted.pattern = edit[e].loaded.pattern
  BY DEF IInv, EditInv
<1> QED  BY <1>1 DEF WrittenRow, SeriesRow

\* What a commit writes, in terms of the history of its series.
LEMMA CommitPlans ==
    ASSUME IInv, NEW t \in Txns, Commit(t)
    PROVE  LET s == work[t].series
               a == work[t].alloc
           IN  /\ s \in Series /\ series[s] \in SeriesRow /\ Issued(s) \in SUBSET Allocation
               /\ work[t].date \in Dates /\ a \in Allocation /\ a.value \in Values
               /\ a.series = s /\ a.period = PeriodOf[work[t].date]
               /\ a.number = Render(series[s].pattern, a.period, a.value)
               /\ Plans(series[s], Issued(s), work[t].date, a.value)
<1> DEFINE s == work[t].series
           a == work[t].alloc
<1>1. /\ s \in Series /\ series[s] \in SeriesRow /\ work[t].date \in Dates
      /\ a.value \in Values /\ a.series = s
  BY CommittedRow DEF IInv
<1>2. Issued(s) \in SUBSET Allocation /\ a \in Allocation  BY DEF Issued, IInv, TypeOK, Work
<1>3. EngineOutput(work[t], series[s])  BY DEF Commit, IInv, WorkInv
<1>4. /\ a.period = PeriodOf[work[t].date]
      /\ a.number = Render(series[s].pattern, a.period, a.value)
      /\ Plans(series[s], Issued(s), work[t].date, a.value)
  BY <1>3 DEF EngineOutput, PlansValue, Plans, ValuesIn, ValuesOf
<1> QED  BY <1>1, <1>2, <1>4

LEMMA CounterInit == Init => CounterInv
<1> SUFFICES ASSUME Init, NEW s \in Series
             PROVE  Counts(series[s], Issued(s)) /\ Gapless(series[s], Issued(s))
  BY DEF CounterInv
<1>1. Issued(s) = {} /\ series[s].current_period = NoPeriod
  BY DEF Init, Issued, Seeds, NoRow
<1> QED  BY <1>1 DEF Counts, Gapless

LEMMA CounterStep ==
    ASSUME "next_value" \notin Edits, "reset" \notin Edits, IInv, CounterInv, [Next]_vars
    PROVE  CounterInv'
<1> SUFFICES ASSUME NEW s \in Series
             PROVE  Counts(series[s], Issued(s))' /\ Gapless(series[s], Issued(s))'
  BY DEF CounterInv
<1> DEFINE row == series[s]
           history == Issued(s)
<1>1. row \in SeriesRow /\ Counts(row, history) /\ Gapless(row, history)
  BY DEF IInv, TypeOK, CounterInv
<1>2. CASE row' = row /\ history' = history
  BY <1>1, <1>2 DEF Counts, Gapless, IsHighest, ValuesOf
<1>3. ASSUME NEW t \in Txns, Commit(t), s = work[t].series,
             row' = AdvancedRow(row, work[t].date, work[t].alloc.value),
             history' = history \cup {work[t].alloc}
      PROVE  Counts(row, history)' /\ Gapless(row, history)'
  <2> DEFINE a == work[t].alloc
             d == work[t].date
  <2>1. /\ history \in SUBSET Allocation /\ d \in Dates /\ a \in Allocation
        /\ a.period = PeriodOf[d] /\ Plans(row, history, d, a.value)
    BY <1>3, CommitPlans
  <2>2. row' = AdvancedRow(row, d, a.value) /\ history' = history \cup {a}  BY <1>3
  <2> HIDE DEF a, d, row, history
  <2>3. /\ Counts(AdvancedRow(row, d, a.value), history \cup {a})
        /\ Gapless(AdvancedRow(row, d, a.value), history \cup {a})
    BY <1>1, <2>1, IssuingCounts
  <2> QED  BY <2>2, <2>3 DEF Counts, Gapless, IsHighest, ValuesOf
<1>4. CASE history' = {} /\ row'.current_period = NoPeriod
  BY <1>4 DEF Counts, Gapless
<1>5. ASSUME NEW e \in Editors, row' = WrittenRow(row, edit[e].loaded, edit[e].wanted),
             history' = history
      PROVE  Counts(row, history)' /\ Gapless(row, history)'
  <2>1. /\ row'.current_period = row.current_period
        /\ row'.next_value = row.next_value /\ row'.reset = row.reset
    BY <1>1, <1>5, WrittenFields
  <2> HIDE DEF row, history
  <2> QED  BY <1>1, <1>5, <2>1 DEF Counts, Gapless, IsHighest, ValuesOf
<1> QED  BY <1>2, <1>3, <1>4, <1>5, RowMoves

LEMMA CounterInvariance ==
    ASSUME "next_value" \notin Edits, "reset" \notin Edits
    PROVE  Spec => [](IInv /\ CounterInv)
<1>1. IInv /\ CounterInv /\ [Next]_vars => CounterInv'  BY CounterStep
<1> QED  BY <1>1, CounterInit, LockedWorkIsCurrent, PTL DEF Spec

\* Gap-free, however many requests draw, fail and back-date at once: while nobody
\* edits next_value or reset, years are unbroken from 1 and a continuous series
\* is one unbroken run.
THEOREM NumbersHaveNoGaps ==
    ASSUME "next_value" \notin Edits, "reset" \notin Edits
    PROVE  Spec => []GapFree
<1>1. CounterInv => GapFree  BY DEF CounterInv, Gapless, GapFree, ValuesIn, ValuesOf
<1> QED  BY <1>1, CounterInvariance, PTL

-----------------------------------------------------------------------------
(* The engine implements the abstract issuer.                              *)

\* A row that exists keeps the columns nobody edits.
LEMMA ColumnsStay ==
    ASSUME IInv, [Next]_vars, NEW s \in Series, series[s].exists
    PROVE  /\ "reset" \notin Edits => series'[s].reset = series[s].reset
           /\ "pattern" \notin Edits => series'[s].pattern = series[s].pattern
<1>1. series[s] \in SeriesRow  BY DEF IInv, TypeOK
<1>2. ASSUME NEW t \in Txns, Commit(t), s = work[t].series,
             series'[s] = AdvancedRow(series[s], work[t].date, work[t].alloc.value)
      PROVE  series'[s].reset = series[s].reset /\ series'[s].pattern = series[s].pattern
  <2>1. PICK d \in Dates, v \in Values : series'[s] = AdvancedRow(series[s], d, v)
    BY <1>2, CommitPlans
  <2> QED  BY <1>1, <2>1, AdvancedRowIs
<1>3. series[s] # NoRow  BY DEF NoRow
<1> QED  BY <1>1, <1>2, <1>3, RowMoves, WrittenFields

\* While nobody edits reset, a number stays in the bucket it was issued in.
LEMMA BucketsStay ==
    ASSUME "reset" \notin Edits, IInv, [Next]_vars, NEW a \in allocs
    PROVE  Bucket(a.series, a.period)' = Bucket(a.series, a.period)
<1>1. a.series \in Series  BY DEF IInv, TypeOK, Allocation
<1>2. series[a.series].exists  BY <1>1 DEF IInv, RowInv, Issued
<1> QED  BY <1>1, <1>2, ColumnsStay DEF Bucket

LEMMA BucketsTyped ==
    ASSUME NEW a \in Allocation
    PROVE  Bucket(a.series, a.period) \in AllBuckets
BY DEF Bucket, AllBuckets, Allocation

\* What a series has issued in the bucket of a period.
LEMMA BucketHolds ==
    ASSUME NEW s \in Series, NEW p \in Periods
    PROVE  IssuedInBucket(Bucket(s, p)) =
             IF series[s].reset = "yearly" THEN ValuesOf(Issued(s), p)
             ELSE {a.value : a \in Issued(s)}
<1> DEFINE here == {a \in allocs : Bucket(a.series, a.period) = Bucket(s, p)}
<1>1. CASE series[s].reset = "yearly"
  <2>1. here = {a \in Issued(s) : a.period = p}  BY <1>1 DEF Bucket, Issued
  <2> QED  BY <1>1, <2>1 DEF IssuedInBucket, ValuesOf
<1>2. CASE series[s].reset # "yearly"
  <2>1. here = Issued(s)  BY <1>2 DEF Bucket, Issued
  <2> QED  BY <1>2, <2>1 DEF IssuedInBucket
<1> QED  BY <1>1, <1>2

\* A number that commits is the next one of its bucket.
LEMMA CommittedIsNext ==
    ASSUME IInv, CounterInv, NEW t \in Txns, Commit(t)
    PROVE  LET a == work[t].alloc
               had == IssuedInBucket(Bucket(a.series, a.period))
           IN  /\ \A w \in had : w < a.value
               /\ had # {} => a.value - 1 \in had
<1> DEFINE s == work[t].series
           a == work[t].alloc
           d == work[t].date
           row == series[s]
           history == Issued(s)
           had == IssuedInBucket(Bucket(s, a.period))
<1>1. /\ s \in Series /\ row \in SeriesRow /\ history \in SUBSET Allocation /\ d \in Dates
      /\ a \in Allocation /\ a.value \in Values /\ a.value \in Nat
      /\ a.series = s /\ a.period = PeriodOf[d] /\ Plans(row, history, d, a.value)
  BY CommitPlans DEF Values
<1>2. Counts(row, history)  BY <1>1 DEF CounterInv
<1>3. a.period \in Periods  BY <1>1, Placeholders
<1>4. \A b \in history : b.value \in Nat /\ b.value >= 1  BY <1>1 DEF Allocation, Values
<1>5. had = IF row.reset = "yearly" THEN ValuesOf(history, a.period)
            ELSE {b.value : b \in history}
  BY <1>1, <1>3, BucketHolds
<1> HIDE DEF s, a, d, row, history, had
<1>6. ASSUME row.reset = "yearly"
      PROVE  (\A w \in had : w < a.value) /\ (had # {} => a.value - 1 \in had)
  <2>1. IsHighest(had, a.value - 1)  BY <1>1, <1>2, <1>5, <1>6, PlannedIsNext
  <2>2. \A w \in had : w \in Nat /\ w >= 1  BY <1>4, <1>5, <1>6 DEF ValuesOf
  <2>3. \A w \in had : w < a.value  BY <1>1, <2>1, <2>2 DEF IsHighest
  <2>4. ASSUME NEW w \in had PROVE a.value - 1 \in had
    <3>1. a.value - 1 # 0  BY <1>1, <2>1, <2>2, <2>4 DEF IsHighest
    <3> QED  BY <2>1, <3>1 DEF IsHighest
  <2> QED  BY <2>3, <2>4
<1>7. ASSUME row.reset # "yearly"
      PROVE  (\A w \in had : w < a.value) /\ (had # {} => a.value - 1 \in had)
  <2>1. a.value = row.next_value  BY <1>1, <1>7 DEF Plans
  <2>2. /\ \A b \in history : b.value < a.value
        /\ history # {} => \E b \in history : b.value = a.value - 1
    BY <1>2, <1>7, <2>1 DEF Counts
  <2>3. \A w \in had : w < a.value  BY <1>5, <1>7, <2>2
  <2>4. had # {} => a.value - 1 \in had  BY <1>5, <1>7, <2>2
  <2> QED  BY <2>3, <2>4
<1>8. (\A w \in had : w < a.value) /\ (had # {} => a.value - 1 \in had)  BY <1>6, <1>7
<1>9. work[t].alloc = a /\ IssuedInBucket(Bucket(work[t].alloc.series, work[t].alloc.period)) = had
  BY <1>1 DEF a, had
<1> QED  BY <1>8, <1>9

\* While nobody edits next_value or reset, every step of every interleaving is
\* one consecutive number in one bucket, or nothing: the database implements the
\* issuer of ConsecutiveNumbers.
THEOREM ImplementsTheIssuer ==
    ASSUME "next_value" \notin Edits, "reset" \notin Edits
    PROVE  Spec => IssuesConsecutively
<1>1. Init => Issuer!CInit
  BY DEF Init, Issuer!CInit, IssuedSoFar, IssuedInBucket
<1>2. IInv /\ CounterInv /\ [Next]_vars => [Issuer!CNext]_IssuedSoFar
  <2> SUFFICES ASSUME IInv, CounterInv, [Next]_vars
               PROVE  Issuer!CNext \/ UNCHANGED IssuedSoFar
    OBVIOUS
  <2>1. CASE UNCHANGED <<allocs, audit>>
    <3>1. ASSUME NEW b \in AllBuckets PROVE IssuedInBucket(b)' = IssuedInBucket(b)
      <4>1. \A a \in allocs : Bucket(a.series, a.period)' = Bucket(a.series, a.period)
        BY BucketsStay
      <4>2. {c \in allocs : Bucket(c.series, c.period) = b}'
              = {c \in allocs : Bucket(c.series, c.period) = b}
        BY <2>1, <4>1
      <4> QED  BY <4>2 DEF IssuedInBucket
    <3> QED  BY <3>1 DEF IssuedSoFar
  <2>2. ASSUME NEW t \in Txns, Commit(t), NEW a \in Allocation, a = work[t].alloc
        PROVE  Issuer!CNext
    <3>1. a.value \in 1..MaxValue /\ a.series = work[t].series /\ a.series \in Series
      BY <2>2, CommitPlans DEF Values
    <3>2. PICK here \in AllBuckets : here = Bucket(a.series, a.period)  BY BucketsTyped
    <3>3. /\ \A w \in IssuedInBucket(here) : w < a.value
          /\ IssuedInBucket(here) # {} => a.value - 1 \in IssuedInBucket(here)
      BY <2>2, <3>2, CommittedIsNext
    <3>4. allocs' = allocs \cup {a}  BY <2>2 DEF Commit
    <3>5. Bucket(a.series, a.period)' = here
      <4>1. series[a.series].exists  BY <2>2, <3>1, CommittedRow DEF IInv
      <4>2. series'[a.series].reset = series[a.series].reset  BY <3>1, <4>1, ColumnsStay
      <4> QED  BY <3>2, <4>2 DEF Bucket
    <3>6. ASSUME NEW b \in AllBuckets
          PROVE  IssuedInBucket(b)' = IssuedInBucket(b) \cup (IF b = here THEN {a.value} ELSE {})
      <4>1. \A c \in allocs : Bucket(c.series, c.period)' = Bucket(c.series, c.period)
        BY BucketsStay
      <4>2. {c \in allocs : Bucket(c.series, c.period) = b}'
              = {c \in allocs : Bucket(c.series, c.period) = b} \cup (IF b = here THEN {a} ELSE {})
        BY <3>4, <3>5, <4>1
      <4> QED  BY <4>2 DEF IssuedInBucket
    <3>7. IssuedSoFar' = [IssuedSoFar EXCEPT ![here] = @ \cup {a.value}]
      BY <3>2, <3>6 DEF IssuedSoFar
    <3>8. IssuedSoFar[here] = IssuedInBucket(here)  BY <3>2 DEF IssuedSoFar
    <3>9. Issuer!Issue(here)
      <4>1. IssuedSoFar'[here] = IssuedSoFar[here] \cup {a.value}
        BY <3>2, <3>7, <3>8 DEF IssuedSoFar
      <4>2. a.value \notin IssuedSoFar[here]  BY <3>1, <3>3, <3>8
      <4>3. IssuedSoFar'[here] # IssuedSoFar[here]  BY <4>1, <4>2
      <4> QED  BY <3>1, <3>3, <3>7, <3>8, <4>3 DEF Issuer!Issue
    <3> QED  BY <3>2, <3>9 DEF Issuer!CNext
  <2>3. \A t \in Txns : Commit(t) => work[t].alloc \in Allocation  BY CommitPlans
  <2> QED  BY <2>1, <2>2, <2>3, HistoryFrame DEF IInv
<1> QED  BY <1>1, <1>2, CounterInvariance, PTL DEF Issuer!CSpec, IssuesConsecutively, Spec

-----------------------------------------------------------------------------
(* Numbers collide neither within a year nor across a switch of modes.     *)

\* An edit under way is the one that was, or has just read its row.
LEMMA EditMoves ==
    ASSUME IInv, [Next]_vars, NEW e \in Editors, edit'[e].pc # "idle"
    PROVE  \/ /\ edit[e].pc # "idle" /\ edit'[e].series = edit[e].series
              /\ edit'[e].loaded = edit[e].loaded /\ edit'[e].wanted = edit[e].wanted
           \/ \E s \in Series :
                /\ UNCHANGED series /\ edit'[e].series = s
                /\ series[s].exists /\ edit'[e].loaded = series[s]
                /\ ValidPattern(edit'[e].wanted.pattern, edit'[e].wanted.reset)
<1>0. TypeOK /\ LockInv /\ RowInv  BY DEF IInv
<1>1. CASE edit'[e] = edit[e]  BY <1>1
<1>2. ASSUME NEW s \in Series, LoadForEdit(e, s)
      PROVE  /\ UNCHANGED series /\ edit'[e].series = s
             /\ series[s].exists /\ edit'[e].loaded = series[s]
             /\ ValidPattern(edit'[e].wanted.pattern, edit'[e].wanted.reset)
  <2>0. UNCHANGED series /\ series[s].exists  BY <1>2 DEF LoadForEdit
  <2>1. PICK n \in Choices("next_value", Values, series[s].next_value),
             r \in Choices("reset", {"yearly", "never"}, series[s].reset),
             p \in Choices("pattern", {"year", "plain"}, series[s].pattern),
             a \in Choices("is_active", BOOLEAN, series[s].is_active) :
          /\ ValidPattern(p, r)
          /\ edit' = [edit EXCEPT ![e] =
            [pc |-> "loaded", series |-> s, loaded |-> series[s],
             wanted |-> [series[s] EXCEPT
                !.next_value = n, !.reset = r, !.pattern = p, !.is_active = a]]]
    BY <1>2 DEF LoadForEdit
  <2> DEFINE wanted == [series[s] EXCEPT
                !.next_value = n, !.reset = r, !.pattern = p, !.is_active = a]
  <2>2. wanted.reset = r /\ wanted.pattern = p
    <3>1. series[s] \in SeriesRow  BY <1>0 DEF TypeOK
    <3> QED  BY <3>1 DEF SeriesRow
  <2>3. edit'[e].series = s /\ edit'[e].loaded = series[s] /\ edit'[e].wanted = wanted
    BY <1>0, <2>1 DEF TypeOK
  <2> HIDE DEF wanted
  <2> QED  BY <2>0, <2>1, <2>2, <2>3
<1>3. ASSUME NEW today \in Dates, CheckEdit(e, today)
      PROVE  /\ edit[e].pc # "idle" /\ edit'[e].series = edit[e].series
             /\ edit'[e].loaded = edit[e].loaded /\ edit'[e].wanted = edit[e].wanted
  <2>1. edit'[e] # NoEdit  BY DEF NoEdit
  <2> QED  BY <1>0, <1>3, <2>1 DEF CheckEdit, TypeOK, Edit
<1>4. ~ApplyEdit(e) /\ ~DropEdit(e)
  <2>1. ApplyEdit(e) \/ DropEdit(e) => edit'[e] = NoEdit  BY <1>0 DEF ApplyEdit, DropEdit, TypeOK
  <2> QED  BY <2>1 DEF NoEdit
<1>5. Settings(e) \/ edit'[e] = edit[e]
  <2>1. ASSUME NEW f \in Editors, Settings(f) PROVE f = e \/ edit'[e] = edit[e]
    BY <1>0, <2>1 DEF Settings, LoadForEdit, CheckEdit, ApplyEdit, DropEdit, TypeOK
  <2>2. ASSUME NEW t \in Txns, Request(t) PROVE edit'[e] = edit[e]
    BY <1>0, <2>2, RequestFrame
  <2>3. CreateSeries => edit'[e] = edit[e]  BY <1>0, CreateFrame
  <2> QED  BY <2>1, <2>2, <2>3 DEF Next, vars
<1> QED  BY <1>1, <1>2, <1>3, <1>4, <1>5 DEF Settings

\* An edit under way wants a pattern that fits its mode, and what it read of the
\* columns nobody edits is still what is committed.
EditsFresh ==
    \A e \in Editors : edit[e].pc # "idle" =>
        /\ ValidPattern(edit[e].wanted.pattern, edit[e].wanted.reset)
        /\ "reset" \notin Edits => edit[e].loaded.reset = series[edit[e].series].reset
        /\ "pattern" \notin Edits => edit[e].loaded.pattern = series[edit[e].series].pattern

LEMMA EditsFreshStep ==
    ASSUME IInv, EditsFresh, [Next]_vars
    PROVE  EditsFresh'
<1> SUFFICES ASSUME NEW e \in Editors, edit'[e].pc # "idle"
             PROVE  /\ ValidPattern(edit'[e].wanted.pattern, edit'[e].wanted.reset)
                    /\ "reset" \notin Edits =>
                         edit'[e].loaded.reset = series'[edit'[e].series].reset
                    /\ "pattern" \notin Edits =>
                         edit'[e].loaded.pattern = series'[edit'[e].series].pattern
  BY DEF EditsFresh, ValidPattern
<1>1. CASE /\ edit[e].pc # "idle" /\ edit'[e].series = edit[e].series
           /\ edit'[e].loaded = edit[e].loaded /\ edit'[e].wanted = edit[e].wanted
  <2> DEFINE s == edit[e].series
  <2>1. s \in Series /\ series[s].exists  BY <1>1 DEF IInv, TypeOK, Edit, RowInv
  <2>2. /\ "reset" \notin Edits => series'[s].reset = series[s].reset
        /\ "pattern" \notin Edits => series'[s].pattern = series[s].pattern
    BY <2>1, ColumnsStay
  <2> QED  BY <1>1, <2>2 DEF EditsFresh
<1> QED  BY <1>1, EditMoves

\* A row that is edited keeps a pattern that fits its mode, as long as one of the
\* two columns is not edited.
LEMMA EditKeepsPattern ==
    ASSUME IInv, EditsFresh, NEW e \in Editors, edit[e].pc = "checked",
           "reset" \notin Edits \/ "pattern" \notin Edits,
           NEW s \in Series, s = edit[e].series,
           ValidPattern(series[s].pattern, series[s].reset),
           series'[s] = WrittenRow(series[s], edit[e].loaded, edit[e].wanted)
    PROVE  ValidPattern(series'[s].pattern, series'[s].reset)
<1>1. series[s] \in SeriesRow  BY DEF IInv, TypeOK
<1>2. /\ series'[s].reset = IF edit[e].wanted.reset # edit[e].loaded.reset
                            THEN edit[e].wanted.reset ELSE series[s].reset
      /\ series'[s].pattern = IF edit[e].wanted.pattern # edit[e].loaded.pattern
                              THEN edit[e].wanted.pattern ELSE series[s].pattern
  BY <1>1, WrittenFields
<1>3. /\ ValidPattern(edit[e].wanted.pattern, edit[e].wanted.reset)
      /\ "reset" \notin Edits => edit[e].loaded.reset = series[s].reset
      /\ "pattern" \notin Edits => edit[e].loaded.pattern = series[s].pattern
  BY DEF EditsFresh
<1>4. /\ "reset" \in Edits \/ edit[e].wanted.reset = edit[e].loaded.reset
      /\ "pattern" \in Edits \/ edit[e].wanted.pattern = edit[e].loaded.pattern
  BY DEF IInv, EditInv
<1> QED  BY <1>2, <1>3, <1>4 DEF ValidPattern

\* The numbers of a yearly series carry their year, and every number its value.
Dated(row, history) ==
    /\ ValidPattern(row.pattern, row.reset)
    /\ \A a \in history :
        /\ a.number.value = a.value
        /\ row.reset = "yearly" => a.number.year = a.period

DatedInv == \A s \in Series : Dated(series[s], Issued(s))

LEMMA DatedInit == Init => DatedInv /\ EditsFresh
<1> SUFFICES ASSUME Init PROVE DatedInv /\ EditsFresh  OBVIOUS
<1>1. \A s \in Series : Issued(s) = {} /\ ValidPattern(series[s].pattern, series[s].reset)
  BY DEF Init, Issued, Seeds, NoRow, ValidPattern
<1>2. EditsFresh  BY DEF Init, NoEdit, EditsFresh
<1> QED  BY <1>1, <1>2 DEF DatedInv, Dated

LEMMA DatedStep ==
    ASSUME "reset" \notin Edits, IInv, DatedInv, EditsFresh, [Next]_vars
    PROVE  DatedInv'
<1> SUFFICES ASSUME NEW s \in Series PROVE Dated(series[s], Issued(s))'
  BY DEF DatedInv
<1>1. Dated(series[s], Issued(s)) /\ series[s] \in SeriesRow  BY DEF DatedInv, IInv, TypeOK
<1>2. CASE series'[s] = series[s] /\ Issued(s)' = Issued(s)
  BY <1>1, <1>2 DEF Dated, ValidPattern
<1>3. ASSUME NEW t \in Txns, Commit(t), s = work[t].series,
             series'[s] = AdvancedRow(series[s], work[t].date, work[t].alloc.value),
             Issued(s)' = Issued(s) \cup {work[t].alloc}
      PROVE  Dated(series[s], Issued(s))'
  <2>1. PICK d \in Dates, a \in Allocation :
          /\ d = work[t].date /\ a = work[t].alloc /\ a.value \in Values
          /\ a.number = Render(series[s].pattern, a.period, a.value)
    BY <1>3, CommitPlans
  <2>2. series'[s].reset = series[s].reset /\ series'[s].pattern = series[s].pattern
    <3>1. series'[s] = AdvancedRow(series[s], d, a.value)  BY <1>3, <2>1
    <3> QED  BY <1>1, <2>1, <3>1, AdvancedRowIs
  <2>3. a.number.value = a.value /\ (series[s].reset = "yearly" => a.number.year = a.period)
    BY <1>1, <2>1 DEF Dated, ValidPattern, Render
  <2>4. Issued(s)' = Issued(s) \cup {a}  BY <1>3, <2>1
  <2> QED  BY <1>1, <2>2, <2>3, <2>4 DEF Dated, ValidPattern
<1>4. CASE Issued(s)' = {} /\ ValidPattern(series'[s].pattern, series'[s].reset)
  BY <1>4 DEF Dated, ValidPattern
<1>5. ASSUME NEW e \in Editors, edit[e].pc = "checked", edit[e].series = s,
             series'[s] = WrittenRow(series[s], edit[e].loaded, edit[e].wanted),
             Issued(s)' = Issued(s)
      PROVE  Dated(series[s], Issued(s))'
  <2>1. ValidPattern(series'[s].pattern, series'[s].reset)
    BY <1>1, <1>5, EditKeepsPattern DEF Dated
  <2>2. series'[s].reset = series[s].reset  BY <1>1, <1>5, WrittenFields
  <2> QED  BY <1>1, <1>5, <2>1, <2>2 DEF Dated, ValidPattern
<1> QED  BY <1>2, <1>3, <1>4, <1>5, RowMoves

\* What a request that holds its row is about to issue.
LEMMA LockedPlans ==
    ASSUME IInv, NEW t \in Txns, NEW v \in Values, work[t].pc = "locked",
           PlansValue(work[t].series, work[t].row, work[t].date, v)
    PROVE  \E s \in Series, d \in Dates :
            /\ s = work[t].series /\ d = work[t].date /\ series[s] \in SeriesRow
            /\ work[t].row = series[s] /\ Issued(s) \in SUBSET Allocation
            /\ Plans(series[s], Issued(s), d, v)
            /\ PlannedAllocation(t, v).period = PeriodOf[d]
            /\ PlannedAllocation(t, v).value = v
            /\ PlannedAllocation(t, v).number = Render(series[s].pattern, PeriodOf[d], v)
<1> DEFINE s == work[t].series
           d == work[t].date
<1>1. s \in Series /\ d \in Dates /\ series[s] \in SeriesRow  BY DEF IInv, TypeOK, Work
<1>2. work[t].row = series[s]  BY DEF IInv, WorkInv
<1>3. Issued(s) \in SUBSET Allocation  BY DEF Issued, IInv, TypeOK
<1>4. Plans(series[s], Issued(s), d, v)
  BY <1>2 DEF PlansValue, Plans, ValuesIn, ValuesOf
<1> QED  BY <1>1, <1>2, <1>3, <1>4 DEF PlannedAllocation

\* While nobody edits next_value or reset, no request ever meets NumberCollision:
\* the number it plans under the row lock is new as a number and as a value.
THEOREM LockedNumbersAreFresh ==
    ASSUME "next_value" \notin Edits, "reset" \notin Edits
    PROVE  Spec => []NoCollision
<1>1. IInv /\ CounterInv /\ DatedInv => NoCollision
  <2> SUFFICES ASSUME IInv, CounterInv, DatedInv, NEW t \in Txns, NEW v \in Values,
                      work[t].pc = "locked",
                      PlansValue(work[t].series, work[t].row, work[t].date, v)
               PROVE  ~Collides(work[t].series, PlannedAllocation(t, v))
    BY DEF NoCollision
  <2>1. PICK s \in Series, d \in Dates :
          /\ s = work[t].series /\ d = work[t].date /\ series[s] \in SeriesRow
          /\ work[t].row = series[s] /\ Issued(s) \in SUBSET Allocation
          /\ Plans(series[s], Issued(s), d, v)
          /\ PlannedAllocation(t, v).period = PeriodOf[d]
          /\ PlannedAllocation(t, v).value = v
          /\ PlannedAllocation(t, v).number = Render(series[s].pattern, PeriodOf[d], v)
    BY LockedPlans
  <2>2. Counts(series[s], Issued(s)) /\ Dated(series[s], Issued(s))  BY DEF CounterInv, DatedInv
  <2>3. ASSUME NEW b \in Issued(s), b.value = v PROVE b.period # PeriodOf[d] /\ series[s].reset = "yearly"
    <3>0. v \in Nat /\ b.value \in Nat  BY <2>3 DEF Values
    <3>1. CASE series[s].reset = "yearly"
      <4>1. IsHighest(ValuesOf(Issued(s), PeriodOf[d]), v - 1)
        BY <2>1, <2>2, <3>1, PlannedIsNext
      <4>2. b.period = PeriodOf[d] => v \in ValuesOf(Issued(s), PeriodOf[d])
        BY <2>3 DEF ValuesOf
      <4> QED  BY <3>0, <3>1, <4>1, <4>2 DEF IsHighest
    <3>2. CASE series[s].reset # "yearly"
      <4>1. v = series[s].next_value /\ b.value < series[s].next_value
        BY <2>1, <2>2, <3>2 DEF Plans, Counts
      <4> QED  BY <2>3, <3>0, <4>1
    <3> QED  BY <3>1, <3>2
  <2>4. ASSUME NEW b \in Issued(s)
        PROVE  /\ b.number # PlannedAllocation(t, v).number
               /\ ~(b.period = PlannedAllocation(t, v).period
                    /\ b.value = PlannedAllocation(t, v).value)
    <3>1. ~(b.period = PeriodOf[d] /\ b.value = v)  BY <2>3
    <3>2. ASSUME b.number = Render(series[s].pattern, PeriodOf[d], v) PROVE FALSE
      <4>1. b.number.value = v /\ b.value = v  BY <2>2, <3>2 DEF Dated, Render
      <4>2. series[s].reset = "yearly" /\ b.period # PeriodOf[d]  BY <2>3, <4>1
      <4>3. b.number.year = b.period /\ series[s].pattern = "year"
        BY <2>2, <4>2 DEF Dated, ValidPattern
      <4> QED  BY <3>2, <4>2, <4>3 DEF Render
    <3> QED  BY <2>1, <3>1, <3>2
  <2> QED  BY <2>1, <2>4 DEF Collides
<1>2. IInv /\ DatedInv /\ EditsFresh /\ [Next]_vars => DatedInv' /\ EditsFresh'
  BY DatedStep, EditsFreshStep
<1> QED  BY <1>1, <1>2, DatedInit, CounterInvariance, PTL DEF Spec

\* The counter is ahead of everything its own year has issued, and a series whose
\* numbers carry no year is ahead of everything it has issued at all. Every
\* number was spelled with the pattern the series has now.
Ahead(row, history) ==
    /\ ValidPattern(row.pattern, row.reset)
    /\ \A a \in history :
        /\ a.period <= row.current_period
        /\ a.period = row.current_period \/ row.pattern = "plain" => a.value < row.next_value
        /\ a.number = Render(row.pattern, a.period, a.value)

AheadInv == \A s \in Series : Ahead(series[s], Issued(s))

\* Issuing what the row plans leaves it ahead, in either mode.
LEMMA IssuingStaysAhead ==
    ASSUME NEW row \in SeriesRow, NEW history \in SUBSET Allocation, NEW a \in Allocation,
           NEW d \in Dates, a.period = PeriodOf[d],
           a.number = Render(row.pattern, a.period, a.value),
           Plans(row, history, d, a.value), Ahead(row, history)
    PROVE  Ahead(AdvancedRow(row, d, a.value), history \cup {a})
<1> DEFINE p == PeriodOf[d]
           v == a.value
           cur == row.current_period
           new == AdvancedRow(row, d, v)
<1>1. /\ v \in Values /\ v \in Nat /\ p \in Nat /\ cur \in Nat /\ row.next_value \in Nat
      /\ row.reset \in {"yearly", "never"} /\ row.pattern \in {"year", "plain"}
      /\ \A b \in history : b.value \in Nat /\ b.period \in Nat
  <2>1. v \in Values  BY DEF Allocation
  <2>2. p \in Nat /\ cur \in Nat  BY Placeholders, PeriodsAreNumbers
  <2>3. /\ row.next_value \in Nat /\ row.reset \in {"yearly", "never"}
        /\ row.pattern \in {"year", "plain"}
    BY DEF SeriesRow
  <2>4. \A b \in history : b.value \in Values /\ b.period \in Nat
    BY Placeholders DEF Allocation
  <2> QED  BY <2>1, <2>2, <2>3, <2>4 DEF Values
<1>2. /\ new.reset = row.reset /\ new.pattern = row.pattern
      /\ new.next_value = IF row.reset = "never" \/ p >= cur THEN v + 1 ELSE row.next_value
      /\ new.current_period = IF p >= cur THEN p ELSE cur
  BY <1>1, AdvancedRowIs
<1>3. /\ ValidPattern(row.pattern, row.reset)
      /\ \A b \in history :
            /\ b.period <= cur
            /\ b.period = cur \/ row.pattern = "plain" => b.value < row.next_value
            /\ b.number = Render(row.pattern, b.period, b.value)
  BY DEF Ahead
<1>4. row.reset = "never" \/ p = cur => v = row.next_value
  BY <1>1 DEF Plans
<1>5. row.pattern = "plain" => row.reset = "never"  BY <1>1, <1>3 DEF ValidPattern
<1>6. a.period = p /\ a.number = Render(row.pattern, p, v)  OBVIOUS
<1> HIDE DEF p, v, cur, new
<1>7. ASSUME NEW b \in history
      PROVE  /\ b.period <= new.current_period
             /\ b.period = new.current_period \/ row.pattern = "plain" => b.value < new.next_value
  <2>1. b.period <= new.current_period  BY <1>1, <1>2, <1>3
  <2>2. ASSUME row.pattern = "plain" PROVE b.value < new.next_value
    BY <1>1, <1>2, <1>3, <1>4, <1>5, <2>2
  <2>3. ASSUME b.period = new.current_period PROVE b.value < new.next_value
    <3>1. b.period = cur /\ (p >= cur => p = cur)  BY <1>1, <1>2, <1>3, <2>3
    <3>2. b.value < row.next_value  BY <1>3, <3>1
    <3> QED  BY <1>1, <1>2, <1>4, <3>1, <3>2
  <2> QED  BY <2>1, <2>2, <2>3
<1>8. /\ p <= new.current_period
      /\ p = new.current_period \/ row.pattern = "plain" => v < new.next_value
  <2>1. p <= new.current_period  BY <1>1, <1>2
  <2>2. p = new.current_period \/ row.pattern = "plain" => row.reset = "never" \/ p >= cur
    BY <1>1, <1>2, <1>5
  <2> QED  BY <1>1, <1>2, <2>1, <2>2
<1>9. Ahead(new, history \cup {a})  BY <1>2, <1>3, <1>6, <1>7, <1>8 DEF Ahead, v
<1> QED  BY <1>9 DEF new, v

LEMMA AheadInit == Init => AheadInv
BY DatedInit DEF Init, Issued, Dated, DatedInv, Ahead, AheadInv

LEMMA AheadStep ==
    ASSUME "next_value" \notin Edits, "pattern" \notin Edits,
           IInv, AheadInv, EditsFresh, [Next]_vars
    PROVE  AheadInv'
<1> SUFFICES ASSUME NEW s \in Series PROVE Ahead(series'[s], Issued(s)')
  BY DEF AheadInv, Ahead, ValidPattern, Render
<1>1. Ahead(series[s], Issued(s)) /\ series[s] \in SeriesRow  BY DEF AheadInv, IInv, TypeOK
<1>2. CASE series'[s] = series[s] /\ Issued(s)' = Issued(s)  BY <1>1, <1>2
<1>3. ASSUME NEW t \in Txns, Commit(t), s = work[t].series,
             series'[s] = AdvancedRow(series[s], work[t].date, work[t].alloc.value),
             Issued(s)' = Issued(s) \cup {work[t].alloc}
      PROVE  Ahead(series'[s], Issued(s)')
  <2>1. PICK d \in Dates, a \in Allocation :
          /\ d = work[t].date /\ a = work[t].alloc /\ a.period = PeriodOf[d]
          /\ a.number = Render(series[s].pattern, a.period, a.value)
          /\ Plans(series[s], Issued(s), d, a.value) /\ Issued(s) \in SUBSET Allocation
    BY <1>3, CommitPlans
  <2>2. Ahead(AdvancedRow(series[s], d, a.value), Issued(s) \cup {a})
    BY <1>1, <2>1, IssuingStaysAhead
  <2> QED  BY <1>3, <2>1, <2>2
<1>4. CASE Issued(s)' = {} /\ ValidPattern(series'[s].pattern, series'[s].reset)
  BY <1>4 DEF Ahead
<1>5. ASSUME NEW e \in Editors, edit[e].pc = "checked", edit[e].series = s,
             series'[s] = WrittenRow(series[s], edit[e].loaded, edit[e].wanted),
             Issued(s)' = Issued(s)
      PROVE  Ahead(series'[s], Issued(s)')
  <2>1. ValidPattern(series'[s].pattern, series'[s].reset)
    BY <1>1, <1>5, EditKeepsPattern DEF Ahead
  <2>2. /\ series'[s].current_period = series[s].current_period
        /\ series'[s].next_value = series[s].next_value
        /\ series'[s].pattern = series[s].pattern
    BY <1>1, <1>5, WrittenFields
  <2> QED  BY <1>1, <1>5, <2>1, <2>2 DEF Ahead
<1> QED  BY <1>2, <1>3, <1>4, <1>5, RowMoves

\* Switching a series between yearly and continuous, retiring it and reviving it
\* never makes a document of the current or a later year repeat a number, while
\* nobody edits next_value or pattern.
THEOREM SwitchesStayAhead ==
    ASSUME "next_value" \notin Edits, "pattern" \notin Edits
    PROVE  Spec => []SwitchesNeverReissue
<1>1. IInv /\ AheadInv => SwitchesNeverReissue
  <2> SUFFICES ASSUME IInv, AheadInv, NEW t \in Txns, NEW v \in Values,
                      work[t].pc = "locked",
                      PeriodOf[work[t].date] >= work[t].row.current_period,
                      PlansValue(work[t].series, work[t].row, work[t].date, v)
               PROVE  ~Collides(work[t].series, PlannedAllocation(t, v))
    BY DEF SwitchesNeverReissue
  <2>1. PICK s \in Series, d \in Dates :
          /\ s = work[t].series /\ d = work[t].date /\ series[s] \in SeriesRow
          /\ work[t].row = series[s] /\ Issued(s) \in SUBSET Allocation
          /\ Plans(series[s], Issued(s), d, v)
          /\ PlannedAllocation(t, v).period = PeriodOf[d]
          /\ PlannedAllocation(t, v).value = v
          /\ PlannedAllocation(t, v).number = Render(series[s].pattern, PeriodOf[d], v)
    BY LockedPlans
  <2>2. /\ PeriodOf[d] >= series[s].current_period /\ PeriodOf[d] \in Nat
        /\ series[s].current_period \in Nat /\ v \in Nat /\ series[s].next_value \in Nat
        /\ series[s].reset \in {"yearly", "never"} /\ series[s].pattern \in {"year", "plain"}
    BY <2>1, Placeholders, PeriodsAreNumbers DEF Values, SeriesRow
  <2>3. Ahead(series[s], Issued(s))  BY DEF AheadInv
  <2>4. ASSUME NEW b \in Issued(s), b.value = v
        PROVE  b.period # PeriodOf[d] /\ series[s].pattern = "year"
    <3>1. b.period \in Nat /\ b.period <= series[s].current_period
      BY <2>1, <2>3, Placeholders DEF Ahead, Allocation
    <3>2. series[s].reset = "never" \/ PeriodOf[d] = series[s].current_period
            => v = series[s].next_value
      BY <2>1 DEF Plans
    <3>3. ASSUME b.period = PeriodOf[d] PROVE FALSE
      <4>1. b.period = series[s].current_period  BY <2>2, <3>1, <3>3
      <4>2. b.value < series[s].next_value  BY <2>3, <4>1 DEF Ahead
      <4> QED  BY <2>2, <2>4, <3>2, <3>3, <4>1, <4>2
    <3>4. ASSUME series[s].pattern = "plain" PROVE FALSE
      <4>1. series[s].reset = "never"  BY <2>2, <2>3, <3>4 DEF Ahead, ValidPattern
      <4>2. b.value < series[s].next_value  BY <2>3, <3>4 DEF Ahead
      <4> QED  BY <2>2, <2>4, <3>2, <4>1, <4>2
    <3> QED  BY <2>2, <3>3, <3>4
  <2>5. ASSUME NEW b \in Issued(s), b.number = Render(series[s].pattern, PeriodOf[d], v)
        PROVE  FALSE
    <3>1. b.number = Render(series[s].pattern, b.period, b.value)  BY <2>3 DEF Ahead
    <3>2. b.value = v  BY <2>5, <3>1 DEF Render
    <3>3. b.period # PeriodOf[d] /\ series[s].pattern = "year"  BY <2>4, <3>2
    <3> QED  BY <2>5, <3>1, <3>3 DEF Render
  <2> QED  BY <2>1, <2>4, <2>5 DEF Collides
<1>2. IInv /\ AheadInv /\ EditsFresh /\ [Next]_vars => AheadInv' /\ EditsFresh'
  BY AheadStep, EditsFreshStep
<1> QED  BY <1>1, <1>2, AheadInit, DatedInit, LockedWorkIsCurrent, PTL DEF Spec
===============================================================================
