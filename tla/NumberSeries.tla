---------------------------- MODULE NumberSeries ----------------------------
(***************************************************************************)
(* The number series of one company and one document type: the counter     *)
(* rows (number_series), the append-only history (number_allocations), the *)
(* request transactions that draw numbers under the counter's row lock and *)
(* the settings requests that create, edit and retire counters.            *)
(*                                                                         *)
(* Concurrency is PostgreSQL's READ COMMITTED: a statement sees what was   *)
(* committed when it started; SELECT ... FOR UPDATE and UPDATE wait for    *)
(* the transaction that holds the row and then see its committed version.  *)
(* A transaction's own writes stay in its `work` record until it commits.  *)
(***************************************************************************)
EXTENDS Naturals, FiniteSets

CONSTANTS
    Series,      \* the counter rows this document type may ever have
    Txns,        \* request transactions that allocate a number (reusable)
    Editors,     \* settings requests (reusable)
    Dates,       \* document dates
    PeriodOf,    \* [Dates -> year], models period_key
    Edits,       \* the fields people edit: a subset of EditableFields
    MaxValue,    \* bound: the largest sequence value ever issued or typed
    NoTxn        \* "nobody holds this row"

\* `None` in current_period. Below every year, so that the code's
\* "current is None or period > current" is one comparison.
NoPeriod == 0

EditableFields == {"next_value", "reset", "pattern", "is_active"}

ASSUME SeriesAssumption == Series # {}
ASSUME DatesAssumption ==
    /\ Dates \subseteq Nat /\ Dates # {}
    /\ PeriodOf \in [Dates -> Nat \ {NoPeriod}]
ASSUME MaxValueAssumption == MaxValue \in Nat \ {0}
ASSUME NoTxnAssumption == NoTxn \notin Txns
ASSUME EditsAssumption == Edits \subseteq EditableFields

VARIABLES
    series,     \* the committed counter rows
    allocs,     \* the committed number_allocations
    audit,      \* the allocations a committed "number.out_of_order" event names
    lock,       \* who holds each counter row (SELECT ... FOR UPDATE)
    work,       \* each allocating transaction: where it is, what it read and wrote
    edit        \* each settings request: where it is, what it read and wants

vars == <<series, allocs, audit, lock, work, edit>>
Values == 1..MaxValue
Periods == {PeriodOf[d] : d \in Dates}

\* A pattern either carries a year token ("year", AR-{YYYY}-{SEQ}) or does not
\* ("plain", K-{SEQ}); `exists` tells a row from an id not used yet.
SeriesRow ==
    [exists: BOOLEAN, is_active: BOOLEAN,
     reset: {"yearly", "never"}, pattern: {"year", "plain"},
     next_value: 1..(MaxValue + 1), current_period: Periods \cup {NoPeriod}]

\* What a rendered number tells apart: its literal text and year, its value.
Number == [year: Periods \cup {NoPeriod}, value: Values]

Allocation == [series: Series, period: Periods, value: Values,
               number: Number, date: Dates]

\* A transaction at work: where it is, the date it numbers, the row it took and
\* (once allocated) what it has written: row, allocation, out-of-order event.
Work == [pc: {"idle", "begun", "waiting", "locked", "allocated"}, date: Dates,
         series: Series, row: SeriesRow, alloc: Allocation, late: BOOLEAN]

\* A settings request: the row it loaded and the row it wants.
Edit == [pc: {"idle", "loaded", "checked"}, series: Series,
         loaded: SeriesRow, wanted: SeriesRow]

\* A year token is required when the counter restarts every year.
ValidPattern(pattern, reset) == reset = "yearly" => pattern = "year"

NoRow == [exists |-> FALSE, is_active |-> FALSE, reset |-> "never",
          pattern |-> "plain", next_value |-> 1, current_period |-> NoPeriod]

-----------------------------------------------------------------------------
(* Reading a series' state.                                                *)

Issued(s) == {a \in allocs : a.series = s}

ValuesIn(s, period) == {a.value : a \in {b \in Issued(s) : b.period = period}}

\* highest_value_in_period, as a relation: m is the largest of S, 0 if none.
IsHighest(S, m) == /\ \A v \in S : v <= m
                   /\ m \in S \cup {0}

ActiveSeries == {s \in Series : series[s].is_active}

\* MUTANT of RowFree: active_series without with_for_update().
RowFree_NoForUpdate(s) == s \in Series

RowFree(s) == lock[s] = NoTxn

-----------------------------------------------------------------------------
(* The engine: plan_number and the writes of allocate_number.              *)

Render(pattern, period, value) ==
    [year |-> IF pattern = "year" THEN period ELSE NoPeriod, value |-> value]

\* MUTANT of PlansValue: a closed period draws from the current counter.
PlansValue_CounterForClosedPeriod(s, row, d, v) ==
    IF row.reset = "yearly" /\ PeriodOf[d] > row.current_period
    THEN IsHighest(ValuesIn(s, PeriodOf[d]), v - 1)
    ELSE v = row.next_value

\* The value plan_number decides on. A yearly series reads its counter only in
\* the current period; a later period and a closed one both continue from the
\* highest value allocated in that period.
PlansValue(s, row, d, v) ==
    IF row.reset = "yearly" /\ PeriodOf[d] # row.current_period
    THEN IsHighest(ValuesIn(s, PeriodOf[d]), v - 1)
    ELSE v = row.next_value

\* The counter row after issuing v: only the current or a later period moves a
\* yearly counter, and current_period never goes backwards in either mode.
AdvancedRow(row, d, v) ==
    LET forward == PeriodOf[d] >= row.current_period IN
    [row EXCEPT
        !.next_value = IF row.reset = "never" \/ forward THEN v + 1 ELSE @,
        !.current_period = IF forward THEN PeriodOf[d] ELSE @]

\* The two unique constraints of number_allocations.
Collides(s, a) ==
    \E b \in Issued(s) : b.number = a.number \/ (b.period = a.period /\ b.value = a.value)

\* MUTANT of OutOfOrder: compares with the documents of the same year only.
OutOfOrder_SameYear(s, d) ==
    \E a \in Issued(s) : a.date > d /\ a.period = PeriodOf[d]

\* Dated before the latest document date already numbered in the series.
OutOfOrder(s, d) == \E a \in Issued(s) : a.date > d

-----------------------------------------------------------------------------
(* One allocating request.                                                 *)

AnyDate == CHOOSE d \in Dates : TRUE
AnySeries == CHOOSE s \in Series : TRUE
NoAllocation == [series |-> AnySeries, period |-> PeriodOf[AnyDate], value |-> 1,
                 number |-> Render("year", PeriodOf[AnyDate], 1), date |-> AnyDate]

Idle == [pc |-> "idle", date |-> AnyDate, series |-> AnySeries, row |-> NoRow,
         alloc |-> NoAllocation, late |-> FALSE]

Holding(t) == work[t].pc \in {"locked", "allocated"}

\* MUTANT of End: the session goes back to the pool inside its transaction.
End_KeepsLock(t) == work' = [work EXCEPT ![t] = Idle] /\ UNCHANGED lock

\* The request ends: its lock goes, its unwritten work is forgotten.
End(t) ==
    /\ work' = [work EXCEPT ![t] = Idle]
    /\ lock' = [s \in Series |-> IF lock[s] = t THEN NoTxn ELSE lock[s]]

Begin(t, d) ==
    /\ work[t].pc = "idle"
    /\ work' = [work EXCEPT ![t] = [@ EXCEPT !.pc = "begun", !.date = d]]
    /\ UNCHANGED <<series, allocs, audit, lock, edit>>

Acquire(t, s) ==
    /\ lock' = [lock EXCEPT ![s] = t]
    /\ work' = [work EXCEPT ![t] =
            [@ EXCEPT !.pc = "locked", !.series = s, !.row = series[s]]]

\* active_series(lock=True): the statement finds the active row and takes it,
\* or queues behind the transaction that holds it.
Select(t) ==
    /\ work[t].pc = "begun"
    /\ \E s \in ActiveSeries :
        \/ RowFree(s) /\ Acquire(t, s)
        \/ /\ ~RowFree(s)
           /\ work' = [work EXCEPT ![t] = [@ EXCEPT !.pc = "waiting", !.series = s]]
           /\ UNCHANGED lock
    /\ UNCHANGED <<series, allocs, audit, edit>>

\* The queued statement wakes up and re-checks the row it waited for.
Wake(t) ==
    /\ work[t].pc = "waiting"
    /\ RowFree(work[t].series)
    /\ series[work[t].series].is_active
    /\ Acquire(t, work[t].series)
    /\ UNCHANGED <<series, allocs, audit, edit>>

\* NumberSeriesMissing: nothing active when the statement started, or the row
\* it waited for was retired meanwhile (its replacement is newer than the
\* statement's snapshot and not seen).
Missing(t) ==
    /\ \/ work[t].pc = "begun" /\ ActiveSeries = {}
       \/ /\ work[t].pc = "waiting"
          /\ RowFree(work[t].series)
          /\ ~series[work[t].series].is_active
    /\ End(t)
    /\ UNCHANGED <<series, allocs, audit, edit>>

PlannedAllocation(t, v) ==
    LET w == work[t]
        period == PeriodOf[w.date]
    IN [series |-> w.series, period |-> period, value |-> v,
        number |-> Render(w.row.pattern, period, v), date |-> w.date]

\* plan_number, the counter update and the insert of the allocation, all in
\* the caller's transaction and under the row lock. A value over MaxValue is
\* outside the model: such a request can only roll back.
Allocate(t) ==
    /\ work[t].pc = "locked"
    /\ \E v \in Values :
        /\ PlansValue(work[t].series, work[t].row, work[t].date, v)
        /\ ~Collides(work[t].series, PlannedAllocation(t, v))
        /\ work' = [work EXCEPT ![t] = [@ EXCEPT
                !.pc = "allocated",
                !.row = AdvancedRow(work[t].row, work[t].date, v),
                !.alloc = PlannedAllocation(t, v),
                !.late = OutOfOrder(work[t].series, work[t].date)]]
    /\ UNCHANGED <<series, allocs, audit, lock, edit>>

\* NumberCollision: the database refuses the row, and the caller's transaction
\* ends without a number.
Collide(t) ==
    /\ work[t].pc = "locked"
    /\ \E v \in Values :
        /\ PlansValue(work[t].series, work[t].row, work[t].date, v)
        /\ Collides(work[t].series, PlannedAllocation(t, v))
    /\ End(t)
    /\ UNCHANGED <<series, allocs, audit, edit>>

\* The caller commits: counter, allocation and audit event land together.
Commit(t) ==
    /\ work[t].pc = "allocated"
    /\ series' = [series EXCEPT ![work[t].series] = work[t].row]
    /\ allocs' = allocs \cup {work[t].alloc}
    /\ audit' = IF work[t].late THEN audit \cup {work[t].alloc} ELSE audit
    /\ End(t)
    /\ UNCHANGED edit

\* MUTANT of RolledBackRow: the counter was committed on its own.
RolledBackRow_KeepsCounter(t) == work[t].row

\* What a rollback leaves of the row the transaction held: what was committed.
RolledBackRow(t) == series[work[t].series]

\* The caller raises, the connection drops or the process dies, at any point.
Rollback(t) ==
    /\ work[t].pc # "idle"
    /\ series' = IF Holding(t) THEN [series EXCEPT ![work[t].series] = RolledBackRow(t)]
                 ELSE series
    /\ End(t)
    /\ UNCHANGED <<allocs, audit, edit>>

-----------------------------------------------------------------------------
(* Settings: create and edit a series.                                     *)

NoEdit == [pc |-> "idle", series |-> AnySeries, loaded |-> NoRow, wanted |-> NoRow]

\* POST /company/number-series. The counter starts where the request says and
\* belongs to no period; a second active row is refused by the partial index.
Create(s, reset, pattern, n) ==
    /\ ~series[s].exists
    /\ ActiveSeries = {}
    /\ ValidPattern(pattern, reset)
    /\ series' = [series EXCEPT ![s] =
            [exists |-> TRUE, is_active |-> TRUE, reset |-> reset, pattern |-> pattern,
             next_value |-> n, current_period |-> NoPeriod]]
    /\ UNCHANGED <<allocs, audit, lock, work, edit>>

\* The values a PATCH may give a field: any, if people edit it.
Choices(field, all, now) == IF field \in Edits THEN all ELSE {now}

\* PATCH, its first statement: the row is loaded WITHOUT a lock. What is wanted
\* must differ from it and pass validate_pattern.
LoadForEdit(e, s) ==
    /\ edit[e].pc = "idle"
    /\ series[s].exists
    /\ \E n \in Choices("next_value", Values, series[s].next_value),
          r \in Choices("reset", {"yearly", "never"}, series[s].reset),
          p \in Choices("pattern", {"year", "plain"}, series[s].pattern),
          a \in Choices("is_active", BOOLEAN, series[s].is_active) :
        LET w == [series[s] EXCEPT
                    !.next_value = n, !.reset = r, !.pattern = p, !.is_active = a]
        IN  /\ w # series[s] /\ ValidPattern(p, r)
            /\ edit' = [edit EXCEPT ![e] =
                    [pc |-> "loaded", series |-> s, loaded |-> series[s], wanted |-> w]]
    /\ UNCHANGED <<series, allocs, audit, lock, work>>

\* _refuse_reissuing_an_allocated_number, first half: the wanted counter is at
\* or below a value issued in the (loaded) current period.
WalksBack(s, row, w) ==
    /\ row.current_period # NoPeriod
    /\ \E v \in ValuesIn(s, row.current_period) : w.next_value <= v

\* Second half: what the wanted settings would print for a document of `today`
\* is a number this series has already issued.
Respells(s, w, today) ==
    \E v \in Values :
        /\ PlansValue(s, w, today, v)
        /\ \E a \in Issued(s) : a.number = Render(w.pattern, PeriodOf[today], v)

\* The request's checks, against what is committed now. `today` is the day the
\* request is served, in the company's timezone.
CheckEdit(e, today) ==
    /\ edit[e].pc = "loaded"
    /\ LET c == edit[e] IN
       IF WalksBack(c.series, c.loaded, c.wanted) \/ Respells(c.series, c.wanted, today)
       THEN edit' = [edit EXCEPT ![e] = NoEdit]
       ELSE edit' = [edit EXCEPT ![e] = [@ EXCEPT !.pc = "checked"]]
    /\ UNCHANGED <<series, allocs, audit, lock, work>>

\* MUTANT of WrittenRow: the whole loaded row is written back.
WrittenRow_WholeRow(row, loaded, wanted) == wanted

\* The UPDATE writes the columns whose value differs from the loaded one.
WrittenRow(row, loaded, wanted) ==
    LET written(now, was, new) == IF new # was THEN new ELSE now IN
    [row EXCEPT
        !.next_value = written(@, loaded.next_value, wanted.next_value),
        !.reset = written(@, loaded.reset, wanted.reset),
        !.pattern = written(@, loaded.pattern, wanted.pattern),
        !.is_active = written(@, loaded.is_active, wanted.is_active)]

\* The UPDATE waits for the row lock, writes and commits; activating a second
\* row is refused by the partial index and nothing is written.
ApplyEdit(e) ==
    /\ edit[e].pc = "checked"
    /\ RowFree(edit[e].series)
    /\ LET s == edit[e].series
           row == WrittenRow(series[s], edit[e].loaded, edit[e].wanted)
       IN series' = IF row.is_active /\ ActiveSeries \ {s} # {}
                    THEN series
                    ELSE [series EXCEPT ![s] = row]
    /\ edit' = [edit EXCEPT ![e] = NoEdit]
    /\ UNCHANGED <<allocs, audit, lock, work>>

\* The settings request dies before it writes.
DropEdit(e) ==
    /\ edit[e].pc # "idle"
    /\ edit' = [edit EXCEPT ![e] = NoEdit]
    /\ UNCHANGED <<series, allocs, audit, lock, work>>

-----------------------------------------------------------------------------
(* seed_number_series: one active row, yearly with a year token (documents)*)
(* or continuous without one (customers and suppliers).                    *)
Seeds ==
    {[exists |-> TRUE, is_active |-> TRUE, reset |-> "yearly", pattern |-> "year",
      next_value |-> 1, current_period |-> NoPeriod],
     [exists |-> TRUE, is_active |-> TRUE, reset |-> "never", pattern |-> "plain",
      next_value |-> 1, current_period |-> NoPeriod]}

Init ==
    /\ \E s \in Series, row \in Seeds :
        series = [r \in Series |-> IF r = s THEN row ELSE NoRow]
    /\ allocs = {}
    /\ audit = {}
    /\ lock = [s \in Series |-> NoTxn]
    /\ work = [t \in Txns |-> Idle]
    /\ edit = [e \in Editors |-> NoEdit]

Request(t) ==
    \/ \E d \in Dates : Begin(t, d)
    \/ Select(t)
    \/ Wake(t)
    \/ Missing(t)
    \/ Allocate(t)
    \/ Collide(t)
    \/ Commit(t)
    \/ Rollback(t)

Settings(e) ==
    \/ \E s \in Series : LoadForEdit(e, s)
    \/ \E today \in Dates : CheckEdit(e, today)
    \/ ApplyEdit(e)
    \/ DropEdit(e)

CreateSeries ==
    \E s \in Series, reset \in {"yearly", "never"}, pattern \in {"year", "plain"}, n \in Values :
        Create(s, reset, pattern, n)

Next ==
    \/ \E t \in Txns : Request(t)
    \/ \E e \in Editors : Settings(e)
    \/ CreateSeries

Spec == Init /\ [][Next]_vars

\* A request the server has started goes on: its statement runs, and once it
\* holds the row it commits or fails. A statement queued on a row is not
\* overtaken for ever (PostgreSQL's lock queue is FIFO), hence strong fairness
\* for the steps that leave the queue. Giving up while queued is never assumed,
\* and nothing makes a client start a request or an administrator edit.
Fairness ==
    \A t \in Txns :
        /\ WF_vars(Select(t) \/ (work[t].pc = "begun" /\ Missing(t)))
        /\ WF_vars(Allocate(t) \/ Collide(t) \/ Commit(t) \/ (Holding(t) /\ Rollback(t)))
        /\ SF_vars(Wake(t) \/ Missing(t))

FairSpec == Spec /\ Fairness

-----------------------------------------------------------------------------
(* Properties.                                                             *)

\* Every variable has its type.
TypeOK ==
    /\ series \in [Series -> SeriesRow]
    /\ allocs \subseteq Allocation
    /\ audit \subseteq Allocation
    /\ lock \in [Series -> Txns \cup {NoTxn}]
    /\ work \in [Txns -> Work]
    /\ edit \in [Editors -> Edit]

\* Gap-free, with any number of concurrent, failing and back-dated requests: on
\* a yearly series each year's values are 1..n, on a continuous one the values
\* are one unbroken run whatever years the documents fall in. (rule 5; holds
\* while nobody edits next_value or reset)
GapFree ==
    \A s \in Series : \A a \in Issued(s) :
        IF series[s].reset = "yearly"
        THEN \A v \in 1..a.value : v \in ValuesIn(s, a.period)
        ELSE \A b \in Issued(s) : \A v \in a.value..b.value :
                \E c \in Issued(s) : c.value = v

\* No request meets NumberCollision: under the row lock the planned number is
\* always a fresh one. (holds while nobody edits next_value or reset)
NoCollision ==
    \A t \in Txns : \A v \in Values :
        work[t].pc = "locked" /\ PlansValue(work[t].series, work[t].row, work[t].date, v)
            => ~Collides(work[t].series, PlannedAllocation(t, v))

\* Switching a series between yearly and continuous, retiring and reviving it,
\* never makes a document of the current or a later year meet a collision: the
\* counter stays ahead of everything its own year has issued.
SwitchesNeverReissue ==
    \A t \in Txns : \A v \in Values :
        (/\ work[t].pc = "locked"
         /\ PeriodOf[work[t].date] >= work[t].row.current_period
         /\ PlansValue(work[t].series, work[t].row, work[t].date, v))
            => ~Collides(work[t].series, PlannedAllocation(t, v))

\* A committed number has a number.out_of_order event exactly when a document
\* with a later date had been numbered in its series before it committed.
EventForEveryLateNumber ==
    [][\A a \in allocs' \ allocs :
            a \in audit' <=> \E b \in allocs : b.series = a.series /\ b.date > a.date]_vars

\* A document back-dated into a closed year of a yearly series leaves the
\* counter row exactly as it was.
BackDatedLeavesCounter ==
    [][\A a \in allocs' \ allocs :
            series[a.series].reset = "yearly" /\ a.period < series[a.series].current_period
                => series'[a.series] = series[a.series]]_vars

\* current_period never goes backwards, whatever is edited meanwhile: a later
\* switch to yearly always takes effect at a boundary that is still ahead.
PeriodNeverBack ==
    [][\A s \in Series : series'[s].current_period >= series[s].current_period]_vars

\* The counter of an existing series moves only to follow a number that commits
\* in the same step, or because somebody asked for that very counter. A rename
\* or a mode switch that loaded an older row does not rewind it, and a request
\* that rolls back leaves no trace in it.
CounterMovesWithReason ==
    [][\A s \in Series :
        series[s].exists /\ series'[s].next_value # series[s].next_value =>
            \/ \E a \in allocs' \ allocs :
                a.series = s /\ series'[s].next_value = a.value + 1
            \/ \E e \in Editors :
                /\ edit[e].pc = "checked" /\ edit[e].series = s
                /\ edit[e].wanted.next_value # edit[e].loaded.next_value
                /\ series'[s].next_value = edit[e].wanted.next_value]_vars

\* The engine is the abstract issuer: under every interleaving, each step of
\* the database is one consecutive number in one bucket, or nothing.
\* (reset and next_value not edited)
Bucket(s, period) == <<s, IF series[s].reset = "yearly" THEN period ELSE NoPeriod>>

IssuedInBucket(b) ==
    {a.value : a \in {c \in allocs : Bucket(c.series, c.period) = b}}

AllBuckets == Series \X (Periods \cup {NoPeriod})

IssuedSoFar == [b \in AllBuckets |-> IssuedInBucket(b)]

Issuer == INSTANCE ConsecutiveNumbers WITH Buckets <- AllBuckets, issued <- IssuedSoFar

IssuesConsecutively == Issuer!CSpec

\* Every request for a number ends, and with it its row lock: no request waits
\* for ever, whoever else rolls back, retires the series or edits it.
EveryRequestEnds == \A t \in Txns : work[t].pc # "idle" ~> work[t].pc = "idle"

-----------------------------------------------------------------------------
(* What comments of the code say and the code does not do.                 *)

\* A series created to continue an older numbering issues its next_value first.
\* (schemas/number_series.py on NumberSeriesCreate.next_value; a yearly series
\* reads its counter only in the current period, and a new one has none)
StartingNumberHonoured ==
    [][\A a \in allocs' \ allocs :
            Issued(a.series) = {} => a.value = series[a.series].next_value]_vars

\* On a continuous series the value about to be issued is new in its year.
\* (models/number_series.py on uq_number_allocations_value; a series switched
\* from yearly carries values of closed years that its counter has yet to pass)
ContinuousValueNeverRepeats ==
    \A t \in Txns : \A v \in Values :
        (/\ work[t].pc = "locked" /\ work[t].row.reset = "never"
         /\ PlansValue(work[t].series, work[t].row, work[t].date, v))
            => v \notin ValuesIn(work[t].series, PeriodOf[work[t].date])

\* An edit never leaves the counter at or below a value its current year has
\* issued. (routers/number_series.py on _refuse_reissuing_an_allocated_number;
\* the check reads without the row lock and the UPDATE comes later)
EditNeverWalksBack ==
    [][\A s \in Series :
            (/\ series[s].exists /\ allocs' = allocs
             /\ series'[s].next_value # series[s].next_value)
                => \A v \in ValuesIn(s, series[s].current_period) :
                        v < series'[s].next_value]_vars

-----------------------------------------------------------------------------
(* The inductive invariant behind the properties.                          *)

\* A row lock names the one transaction that is at work on that row.
LockInv ==
    /\ \A t \in Txns : Holding(t) => lock[work[t].series] = t
    /\ \A s \in Series : lock[s] # NoTxn =>
            lock[s] \in Txns /\ Holding(lock[s]) /\ work[lock[s]].series = s

\* What the engine makes of a committed row: the allocation carries the planned
\* value and its rendering, and clashes with nothing; the row is the advanced
\* one; lateness is judged against the whole series.
EngineOutput(w, row) ==
    /\ w.alloc.series = w.series
    /\ w.alloc.date = w.date
    /\ w.alloc.period = PeriodOf[w.date]
    /\ w.alloc.number = Render(row.pattern, PeriodOf[w.date], w.alloc.value)
    /\ PlansValue(w.series, row, w.date, w.alloc.value)
    /\ ~Collides(w.series, w.alloc)
    /\ w.row = AdvancedRow(row, w.date, w.alloc.value)
    /\ w.late <=> OutOfOrder(w.series, w.date)

\* What a transaction read under the lock is still what is committed, and what
\* it has written is what the engine makes of that.
WorkInv ==
    \A t \in Txns :
        /\ work[t].pc = "locked" => work[t].row = series[work[t].series]
        /\ work[t].pc = "allocated" => EngineOutput(work[t], series[work[t].series])

\* A row that is not there is blank, not locked and has no history, and no
\* edit is under way on it.
RowInv ==
    /\ \A s \in Series :
        ~series[s].exists => series[s] = NoRow /\ Issued(s) = {} /\ lock[s] = NoTxn
    /\ \A t \in Txns : work[t].pc = "waiting" => series[work[t].series].exists
    /\ \A e \in Editors : edit[e].pc # "idle" => series[edit[e].series].exists

\* An edit asks for nothing but the fields people edit.
EditInv ==
    \A e \in Editors :
        /\ "next_value" \in Edits \/ edit[e].wanted.next_value = edit[e].loaded.next_value
        /\ "reset" \in Edits \/ edit[e].wanted.reset = edit[e].loaded.reset
        /\ "pattern" \in Edits \/ edit[e].wanted.pattern = edit[e].loaded.pattern

\* Only numbers that were committed have an event.
AuditInv == audit \subseteq allocs

IInv == TypeOK /\ LockInv /\ WorkInv /\ RowInv /\ EditInv /\ AuditInv
=============================================================================
