------------------------- MODULE TaxIdChecksProofs -------------------------
(***************************************************************************)
(* Proofs about TaxIdChecks, for any identifiers, workers and requests at  *)
(* the same time.  Nothing is locked, so what the invariant says is which  *)
(* columns an open session is going to write together: whatever it finds   *)
(* underneath, a retry comes with its streak and the interval with the     *)
(* count that justifies it.                                                *)
(***************************************************************************)
EXTENDS TaxIdChecks, FiniteSetTheorems, TLAPS

\* The messages the workers hold are messages of the queue.
HeldMessages ==
    \A i \in Ids : Cardinality({w \in Workers : work[w].id = i}) <= queue[i]

\* A row that was never added is blank, and a session works on one that was.
RowsExist ==
    /\ \A i \in Ids : ids[i].exists \/ ids[i] = Absent
    /\ \A s \in Sessions : work[s].id # None => ids[work[s].id].exists

\* What a session is in each of its states; a worker only checks.
Shape(s, w) ==
    /\ w.pc = "idle" => w.id = None /\ w.new = None /\ w.cols = {}
    /\ w.pc = "asking" => w.id # None /\ w.cols = {} /\ w.new = None
    /\ s \in Workers /\ w.pc # "idle" => w.does = "check" /\ w.id # None /\ w.new = None

\* Who may raise or lower the two Booleans a person decides about.
Authorised(w) ==
    /\ "exists" \notin w.cols
    /\ "active" \in w.cols /\ w.row.active => w.does = "restart"
    /\ "attention" \in w.cols /\ ~w.row.attention => w.does = "acknowledge"

IInv ==
    /\ TypeOK
    /\ HeldMessages
    /\ RowsExist
    /\ \A s \in Sessions : Shape(s, work[s]) /\ Authorised(work[s])

-----------------------------------------------------------------------------
(* Facts about the operators.                                              *)

\* Writing the schedule keeps a row a row.
LEMMA ScheduledIsRow ==
    ASSUME NEW row \in TaxIdRow, NEW n \in Nexts,
           NEW d \in 0..(SeriesLength + 1), NEW k \in 0..(Retries + 1)
    PROVE  /\ [row EXCEPT !.done = d, !.streak = k, !.next = n] \in TaxIdRow
           /\ [row EXCEPT !.streak = k, !.done = d, !.next = n] \in TaxIdRow
           /\ [row EXCEPT !.streak = k, !.next = n] \in TaxIdRow
  BY DEF TaxIdRow

\* Zero, the lengths and what AtMost caps are in the ranges of the counters.
LEMMA CountersInRange ==
    ASSUME NEW row \in TaxIdRow
    PROVE  /\ 0 \in 0..(SeriesLength + 1) /\ 0 \in 0..(Retries + 1)
           /\ SeriesLength \in 0..(SeriesLength + 1)
           /\ AtMost(row.streak + 1, Retries + 1) \in 0..(Retries + 1)
           /\ AtMost(row.done + 1, SeriesLength + 1) \in 0..(SeriesLength + 1)
<1>1. row.streak \in Nat /\ row.done \in Nat
  BY PolicyAssumption DEF TaxIdRow
<1>2. SeriesLength \in Nat /\ Retries \in Nat
  BY PolicyAssumption
<1>3. QED
  BY <1>1, <1>2 DEF AtMost

\* A restart keeps a row a row.
LEMMA RestartedIsRow ==
    ASSUME NEW row \in TaxIdRow
    PROVE  /\ Restarted(row) \in TaxIdRow
           /\ Restarted(row).exists = row.exists
           /\ Restarted(row).active = row.active
           /\ Restarted(row).attention = row.attention
<1> DEFINE n == IF Verifiable THEN "series" ELSE "never"
<1>1. n \in Nexts
  BY DEF Nexts
<1>2. Restarted(row) = [row EXCEPT !.done = 0, !.streak = 0, !.next = n]
  BY DEF Restarted
<1>3. 0 \in 0..(SeriesLength + 1) /\ 0 \in 0..(Retries + 1)
  BY CountersInRange
<1> HIDE DEF n
<1>4. [row EXCEPT !.done = 0, !.streak = 0, !.next = n] \in TaxIdRow
  BY <1>1, <1>3, ScheduledIsRow
<1>5. QED
  BY <1>2, <1>4 DEF TaxIdRow

\* A recorded answer keeps a row a row and leaves alone what is not the
\* schedule's: existence, use and flag.
LEMMA AdvancedIsRow ==
    ASSUME NEW row \in TaxIdRow, NEW a \in Answer
    PROVE  /\ Advanced(row, a) \in TaxIdRow
           /\ Advanced(row, a).exists = row.exists
           /\ Advanced(row, a).active = row.active
           /\ Advanced(row, a).attention = row.attention
<1> DEFINE n == IF row.streak + 1 <= Retries THEN "retry" ELSE RegularNext
           m == IF row.done + 1 < SeriesLength THEN "series" ELSE RegularNext
           k == AtMost(row.streak + 1, Retries + 1)
           d == AtMost(row.done + 1, SeriesLength + 1)
<1>1. n \in Nexts /\ m \in Nexts /\ "never" \in Nexts
  BY DEF Nexts, RegularNext
<1>2. k \in 0..(Retries + 1) /\ d \in 0..(SeriesLength + 1)
  BY CountersInRange
<1>3. /\ AfterFailure(row) = [row EXCEPT !.streak = k, !.next = n]
      /\ AfterNotCheckable(row) = [row EXCEPT !.streak = 0, !.done = SeriesLength, !.next = "never"]
      /\ AfterAnswer(row) = [row EXCEPT !.streak = 0, !.done = d, !.next = m]
  BY DEF AfterFailure, AfterNotCheckable, AfterAnswer
<1> HIDE DEF n, m, k, d
<1>4. /\ 0 \in 0..(Retries + 1)
      /\ SeriesLength \in 0..(SeriesLength + 1)
  BY CountersInRange
<1>5. [row EXCEPT !.streak = k, !.next = n] \in TaxIdRow
  BY <1>1, <1>2, ScheduledIsRow
<1>6. [row EXCEPT !.streak = 0, !.done = SeriesLength, !.next = "never"] \in TaxIdRow
  BY <1>1, <1>4, ScheduledIsRow
<1>7. [row EXCEPT !.streak = 0, !.done = d, !.next = m] \in TaxIdRow
  BY <1>1, <1>2, <1>4, ScheduledIsRow
<1>8. QED
  BY <1>3, <1>5, <1>6, <1>7 DEF Advanced, TaxIdRow

\* The blank row, the idle session and the two fixed answers are typed.
LEMMA BlanksAreTyped ==
    /\ Absent \in TaxIdRow
    /\ Idle \in Session
    /\ Confirmation \in Answer /\ NoRegister \in Answer
<1>1. 0 \in 0..(SeriesLength + 1) /\ 0 \in 0..(Retries + 1)
  BY PolicyAssumption
<1>2. Absent \in TaxIdRow
  BY <1>1 DEF Absent, TaxIdRow, Nexts
<1>3. Confirmation \in Answer /\ NoRegister \in Answer
  BY AnswerAssumption DEF Confirmation, NoRegister, Answer, Statuses
<1>4. Idle \in Session
  BY <1>2 DEF Idle, Session
<1>5. QED
  BY <1>2, <1>3, <1>4

\* An UPDATE leaves a row a row, and each column is one of two values.
LEMMA UpdatedIsRow ==
    ASSUME NEW row \in TaxIdRow, NEW s, work[s] \in Session
    PROVE  /\ Updated(row, s) \in TaxIdRow
           /\ "exists" \notin work[s].cols => Updated(row, s).exists = row.exists
<1>1. work[s].row \in TaxIdRow
  BY DEF Session
<1>2. QED
  BY <1>1 DEF Updated, TaxIdRow

-----------------------------------------------------------------------------
(* The invariant, step by step.                                            *)

Held(i) == {w \in Workers : work[w].id = i}

\* The held messages are finitely many.
LEMMA HeldCounts ==
    ASSUME NEW i \in Ids
    PROVE  IsFiniteSet(Held(i)) /\ Cardinality(Held(i)) \in Nat
<1>1. IsFiniteSet(Workers) /\ Held(i) \in SUBSET Workers
  BY SessionAssumption DEF Held
<1>2. QED
  BY <1>1, FS_Subset, FS_CardinalityType

\* A session that reads a row and starts to work on it, or goes on with its
\* work, keeps the invariant if what it will write does.
LEMMA SessionStep ==
    ASSUME IInv, NEW s \in Sessions, NEW w0 \in Session,
           work' = [work EXCEPT ![s] = w0], UNCHANGED <<ids, latest, queue>>,
           Shape(s, w0), Authorised(w0),
           w0.id # None => ids[w0.id].exists,
           s \in Workers /\ w0.id # work[s].id => Waiting(w0.id) > 0
    PROVE  IInv'
<1>1. TypeOK'
  BY DEF IInv, TypeOK
<1>2. \A t \in Sessions : work'[t] = IF t = s THEN w0 ELSE work[t]
  BY DEF IInv, TypeOK
<1>3. RowsExist'
  BY <1>2 DEF IInv, RowsExist
<1>4. \A t \in Sessions : Shape(t, work'[t]) /\ Authorised(work'[t])
  BY <1>2 DEF IInv
<1>5. ASSUME NEW i \in Ids
      PROVE  Cardinality({w \in Workers : work'[w].id = i}) <= queue[i]
  <2> DEFINE held == {w \in Workers : work'[w].id = i}
  <2>1. /\ queue[i] \in Nat /\ Cardinality(Held(i)) <= queue[i]
        /\ IsFiniteSet(Held(i)) /\ Cardinality(Held(i)) \in Nat
    BY HeldCounts, PolicyAssumption DEF IInv, TypeOK, HeldMessages, Held
  <2>2. CASE held \subseteq Held(i)
    BY <2>1, <2>2, FS_Subset, FS_CardinalityType
  <2>3. CASE ~(held \subseteq Held(i))
    <3>1. s \in Workers /\ w0.id = i /\ work[s].id # i
      BY <2>3, <1>2 DEF Held, Sessions
    <3>2. s \notin Held(i) /\ held = Held(i) \cup {s}
      BY <3>1, <1>2 DEF Held, Sessions
    <3>3. Cardinality(held) = Cardinality(Held(i)) + 1
      BY <2>1, <3>2, FS_AddElement
    <3>4. queue[i] - Cardinality(Held(i)) > 0
      BY <3>1 DEF Waiting, Held
    <3>5. QED
      BY <2>1, <3>3, <3>4
  <2>4. QED
    BY <2>2, <2>3
<1>6. HeldMessages'
  BY <1>5 DEF HeldMessages
<1>7. QED
  BY <1>1, <1>3, <1>4, <1>6 DEF IInv

\* A session that ends gives back its message, if it has one, and leaves the
\* others as they were but for who overtook whom.
LEMMA ClosedSessions ==
    ASSUME IInv, NEW s \in Sessions, NEW b \in BOOLEAN, work' = Closed(s, b)
    PROVE  /\ work' \in [Sessions -> Session]
           /\ \A t \in Sessions :
                IF t = s THEN work'[t] = Idle
                ELSE /\ work'[t].id = work[t].id /\ work'[t].pc = work[t].pc
                     /\ work'[t].does = work[t].does /\ work'[t].new = work[t].new
                     /\ work'[t].row = work[t].row /\ work'[t].cols = work[t].cols
           /\ \A t \in Sessions : Shape(t, work'[t]) /\ Authorised(work'[t])
<1> DEFINE Left(t) == [work[t] EXCEPT !.before = @ \ {s},
                                      !.overtaken = @ \/ (b /\ t \in work[s].before)]
<1>1. /\ work' = [t \in Sessions |-> IF t = s THEN Idle ELSE Left(t)]
      /\ \A t \in Sessions : work'[t] = IF t = s THEN Idle ELSE Left(t)
  BY DEF Closed
<1>2. ASSUME NEW t \in Sessions
      PROVE  /\ Left(t) \in Session
             /\ Left(t).id = work[t].id /\ Left(t).pc = work[t].pc
             /\ Left(t).does = work[t].does /\ Left(t).new = work[t].new
             /\ Left(t).row = work[t].row /\ Left(t).cols = work[t].cols
  <2> DEFINE before == work[t].before \ {s}
             over == work[t].overtaken \/ (b /\ t \in work[s].before)
  <2>1. work[t] \in Session
    BY DEF IInv, TypeOK
  <2>2. before \in SUBSET Sessions /\ over \in BOOLEAN
    BY <2>1 DEF Session
  <2>3. Left(t) = [work[t] EXCEPT !.before = before, !.overtaken = over]
    BY <2>1 DEF Session
  <2> HIDE DEF before, over, Left
  <2>4. QED
    BY <2>1, <2>2, <2>3 DEF Session
<1> HIDE DEF Left
<1>3. work' \in [Sessions -> Session]
  BY <1>1, <1>2, BlanksAreTyped
<1>4. Shape(s, Idle) /\ Authorised(Idle)
  BY DEF Shape, Authorised, Idle
<1>5. \A t \in Sessions : Shape(t, work'[t]) /\ Authorised(work'[t])
  <2>1. SUFFICES ASSUME NEW t \in Sessions, t # s
                 PROVE  Shape(t, Left(t)) /\ Authorised(Left(t))
    BY <1>1, <1>4
  <2>2. Shape(t, work[t]) /\ Authorised(work[t])
    BY DEF IInv
  <2>3. QED
    BY <1>2, <2>2 DEF Shape, Authorised
<1>6. QED
  BY <1>1, <1>2, <1>3, <1>5

\* The queue after a session ended: typed, and still holding what is held.
LEMMA ClosedQueue ==
    ASSUME IInv, NEW s \in Sessions, work[s].pc # "idle",
           NEW b \in BOOLEAN, work' = Closed(s, b),
           queue' = Acked(s) \/ (s \in Workers /\ queue' = queue)
    PROVE  queue' \in [Ids -> 0..MaxQueue] /\ HeldMessages'
<1>1. \A t \in Sessions : work'[t].id = IF t = s THEN None ELSE work[t].id
  BY ClosedSessions DEF Idle
<1>2. \A i \in Ids : {w \in Workers : work'[w].id = i} = Held(i) \ {s}
  BY <1>1, NoneAssumption DEF Held, Sessions
<1>3. ASSUME NEW i \in Ids
      PROVE  /\ queue[i] \in 0..MaxQueue /\ queue[i] \in Nat
             /\ Cardinality(Held(i)) <= queue[i]
             /\ Cardinality(Held(i)) \in Nat
             /\ Cardinality(Held(i) \ {s}) \in Nat
             /\ Cardinality(Held(i) \ {s}) =
                    IF s \in Held(i) THEN Cardinality(Held(i)) - 1 ELSE Cardinality(Held(i))
  <2>1. /\ queue[i] \in 0..MaxQueue /\ queue[i] \in Nat
        /\ Cardinality(Held(i)) <= queue[i]
    BY PolicyAssumption DEF IInv, TypeOK, HeldMessages, Held
  <2>2. IsFiniteSet(Held(i)) /\ Cardinality(Held(i)) \in Nat
    BY HeldCounts
  <2>3. /\ IsFiniteSet(Held(i) \ {s})
        /\ Cardinality(Held(i) \ {s}) =
              IF s \in Held(i) THEN Cardinality(Held(i)) - 1 ELSE Cardinality(Held(i))
    BY <2>2, FS_RemoveElement
  <2>4. Cardinality(Held(i) \ {s}) \in Nat
    BY <2>3, FS_CardinalityType
  <2>5. QED
    BY <2>1, <2>2, <2>3, <2>4
<1>4. CASE queue' = queue
  <2>1. HeldMessages'
    BY <1>2, <1>3, <1>4 DEF HeldMessages
  <2>2. QED
    BY <1>4, <2>1 DEF IInv, TypeOK
<1>5. CASE s \in Workers /\ queue' = [queue EXCEPT ![work[s].id] = @ - 1]
  <2>1. work[s].id \in Ids
    BY <1>5 DEF IInv, Shape, TypeOK, Session
  <2>2. s \in Held(work[s].id)
    BY <1>5 DEF Held
  <2>3. \A i \in Ids : queue'[i] = IF i = work[s].id THEN queue[i] - 1 ELSE queue[i]
    BY <1>5 DEF IInv, TypeOK
  <2>4. \A i \in Ids : s \in Held(i) <=> i = work[s].id
    BY <1>5 DEF Held
  <2>5. \A i \in Ids : queue'[i] \in 0..MaxQueue
                      /\ Cardinality(Held(i) \ {s}) <= queue'[i]
    BY <1>3, <2>3, <2>4, PolicyAssumption
  <2>6. queue' \in [Ids -> 0..MaxQueue]
    BY <1>5, <2>5 DEF IInv, TypeOK
  <2>7. HeldMessages'
    BY <1>2, <2>5 DEF HeldMessages
  <2>8. QED
    BY <2>6, <2>7
<1>6. QED
  BY <1>4, <1>5 DEF Acked

\* What recording an answer makes of a session.
LEMMA RecordedSession ==
    ASSUME NEW s, NEW a \in Answer, work[s] \in Session
    PROVE  /\ Recorded(s, a) \in Session
           /\ Recorded(s, a).pc = "writing" /\ Recorded(s, a).answer = a
           /\ Recorded(s, a).id = work[s].id /\ Recorded(s, a).new = work[s].new
           /\ Recorded(s, a).does = work[s].does
           /\ Recorded(s, a).row \in TaxIdRow
           /\ Recorded(s, a).row.exists = work[s].row.exists
           /\ Recorded(s, a).row.active = work[s].row.active
           /\ Recorded(s, a).row.next = Advanced(work[s].row, a).next
           /\ Recorded(s, a).row.done = Advanced(work[s].row, a).done
           /\ Recorded(s, a).row.streak = Advanced(work[s].row, a).streak
           /\ work[s].row.attention => Recorded(s, a).row.attention
           /\ Recorded(s, a).cols = Written(work[s].row, Recorded(s, a).row, MovedBy(a))
<1> DEFINE seen == work[s].row
           flag == seen.attention \/ Changes(latest[work[s].id], a) # {}
           next == Advanced(seen, a)
           now == [next EXCEPT !.attention = flag]
           cols == Written(seen, now, MovedBy(a))
<1>1. seen \in TaxIdRow
  BY DEF Session
<1>2. /\ next \in TaxIdRow /\ next.exists = seen.exists /\ next.active = seen.active
  BY <1>1, AdvancedIsRow
<1>3. flag \in BOOLEAN /\ (seen.attention => flag)
  BY <1>1 DEF TaxIdRow
<1>4. /\ now \in TaxIdRow /\ now.attention = flag
      /\ now.exists = next.exists /\ now.active = next.active
      /\ now.next = next.next /\ now.done = next.done /\ now.streak = next.streak
  <2> HIDE DEF next, flag
  <2>1. QED
    BY <1>2, <1>3 DEF TaxIdRow
<1>5. cols \in SUBSET Columns
  BY DEF Written, MovedBy, Columns
<1>6. Recorded(s, a) = [work[s] EXCEPT !.pc = "writing", !.row = now, !.answer = a, !.cols = cols]
  BY DEF Recorded
<1> HIDE DEF now, cols
<1>7. /\ [work[s] EXCEPT !.pc = "writing", !.row = now, !.answer = a, !.cols = cols] \in Session
      /\ Recorded(s, a).pc = "writing" /\ Recorded(s, a).answer = a
      /\ Recorded(s, a).id = work[s].id /\ Recorded(s, a).new = work[s].new
      /\ Recorded(s, a).does = work[s].does
      /\ Recorded(s, a).row = now /\ Recorded(s, a).cols = cols
  BY <1>4, <1>5, <1>6 DEF Session
<1>8. QED
  BY <1>2, <1>3, <1>4, <1>6, <1>7 DEF cols

\* A session that opens to ask, and one that opens to write.
LEMMA OpenedSessions ==
    ASSUME TypeOK, NEW i \in Ids
    PROVE  /\ \A does \in {"check", "confirm"} :
                /\ Asking(does, i) \in Session
                /\ Asking(does, i).pc = "asking" /\ Asking(does, i).does = does
                /\ Asking(does, i).id = i /\ Asking(does, i).new = None
                /\ Asking(does, i).row = ids[i] /\ Asking(does, i).cols = {}
           /\ \A does \in {"supersede", "retire", "restart", "acknowledge"} :
              \A row \in TaxIdRow : \A moved \in SUBSET Columns :
                /\ Writing(does, i, row, moved) \in Session
                /\ Writing(does, i, row, moved).pc = "writing"
                /\ Writing(does, i, row, moved).does = does
                /\ Writing(does, i, row, moved).id = i
                /\ Writing(does, i, row, moved).new = None
                /\ Writing(does, i, row, moved).row = row
                /\ Writing(does, i, row, moved).cols = Written(ids[i], row, moved)
<1>1. ids[i] \in TaxIdRow /\ Idle \in Session
  BY BlanksAreTyped DEF TypeOK
<1>2. ASSUME NEW does \in {"check", "confirm"}
      PROVE  /\ Asking(does, i) \in Session
             /\ Asking(does, i).pc = "asking" /\ Asking(does, i).does = does
             /\ Asking(does, i).id = i /\ Asking(does, i).new = None
             /\ Asking(does, i).row = ids[i] /\ Asking(does, i).cols = {}
  <2> DEFINE row == ids[i]
             flying == InFlight(i)
  <2>1. flying \in SUBSET Sessions /\ row \in TaxIdRow
    BY <1>1 DEF InFlight
  <2>2. Asking(does, i) = [Idle EXCEPT !.pc = "asking", !.does = does, !.id = i,
                                       !.row = row, !.before = flying]
    BY DEF Asking
  <2>3. Idle.new = None /\ Idle.cols = {}
    BY DEF Idle
  <2> HIDE DEF row, flying
  <2>4. /\ Asking(does, i) \in Session
        /\ Asking(does, i).pc = "asking" /\ Asking(does, i).does = does
        /\ Asking(does, i).id = i /\ Asking(does, i).new = Idle.new
        /\ Asking(does, i).row = row /\ Asking(does, i).cols = Idle.cols
    BY <1>1, <2>1, <2>2 DEF Session
  <2>5. QED
    BY <2>3, <2>4 DEF row
<1>3. ASSUME NEW does \in {"supersede", "retire", "restart", "acknowledge"},
             NEW row \in TaxIdRow, NEW moved \in SUBSET Columns
      PROVE  /\ Writing(does, i, row, moved) \in Session
             /\ Writing(does, i, row, moved).pc = "writing"
             /\ Writing(does, i, row, moved).does = does
             /\ Writing(does, i, row, moved).id = i
             /\ Writing(does, i, row, moved).new = None
             /\ Writing(does, i, row, moved).row = row
             /\ Writing(does, i, row, moved).cols = Written(ids[i], row, moved)
  <2> DEFINE cols == Written(ids[i], row, moved)
  <2>1. cols \in SUBSET Columns
    BY DEF Written
  <2>2. Writing(does, i, row, moved) =
          [Idle EXCEPT !.pc = "writing", !.does = does, !.id = i, !.row = row, !.cols = cols]
    BY DEF Writing
  <2>3. Idle.new = None
    BY DEF Idle
  <2> HIDE DEF cols
  <2>4. /\ Writing(does, i, row, moved) \in Session
        /\ Writing(does, i, row, moved).pc = "writing"
        /\ Writing(does, i, row, moved).does = does
        /\ Writing(does, i, row, moved).id = i
        /\ Writing(does, i, row, moved).new = Idle.new
        /\ Writing(does, i, row, moved).row = row
        /\ Writing(does, i, row, moved).cols = cols
    BY <1>1, <2>1, <2>2 DEF Session
  <2>5. QED
    BY <2>3, <2>4 DEF cols
<1>4. QED
  BY <1>2, <1>3

\* A request that changes a row it has read: the invariant holds if the
\* change is one its kind of request may make.
LEMMA WritingStep ==
    ASSUME IInv, NEW r \in Requests, NEW i \in Ids, work[r].pc = "idle", ids[i].exists,
           NEW does \in {"supersede", "retire", "restart", "acknowledge"},
           NEW row \in TaxIdRow, NEW moved \in SUBSET {"next"}, NEW w0 \in Session,
           w0.pc = "writing", w0.does = does, w0.id = i, w0.row = row,
           w0.cols = Written(ids[i], row, moved),
           work' = [work EXCEPT ![r] = w0], UNCHANGED <<ids, latest, queue>>,
           row.exists = ids[i].exists,
           row.active /\ ~ids[i].active => does = "restart",
           ~row.attention /\ ids[i].attention => does = "acknowledge"
    PROVE  IInv'
<1>1. r \in Sessions /\ r \notin Workers
  BY SessionAssumption DEF Sessions
<1>2. ids[i] \in TaxIdRow
  BY DEF IInv, TypeOK
<1>3. Shape(r, w0)
  BY <1>1 DEF Shape
<1>4. Authorised(w0)
  BY <1>2 DEF Authorised, Written, TaxIdRow
<1>5. QED
  BY <1>1, <1>3, <1>4, SessionStep

LEMMA RequestKeepsIInv ==
    ASSUME IInv, NEW r \in Requests, Request(r)
    PROVE  IInv'
<1>1. r \in Sessions /\ r \notin Workers /\ Edited \subseteq Ids
  BY SessionAssumption DEF Sessions
<1>2. TypeOK
  BY DEF IInv
<1>3. \A i \in Ids : ids[i] \in TaxIdRow
  BY DEF IInv, TypeOK
<1>4. ASSUME NEW i \in Edited, CheckNow(r, i) \/ ConfirmManually(r, i)
      PROVE  IInv'
  <2>1. PICK does \in {"check", "confirm"} :
            /\ ids[i].exists
            /\ work' = [work EXCEPT ![r] = Asking(does, i)]
            /\ UNCHANGED <<ids, latest, queue>>
    BY <1>4 DEF CheckNow, ConfirmManually
  <2> DEFINE w0 == Asking(does, i)
  <2>2. /\ w0 \in Session /\ w0.pc = "asking" /\ w0.id = i
        /\ w0.new = None /\ w0.cols = {}
    BY <1>1, <1>2, OpenedSessions
  <2>3. work' = [work EXCEPT ![r] = w0]
    BY <2>1
  <2> HIDE DEF w0
  <2>4. Shape(r, w0) /\ Authorised(w0)
    BY <1>1, <2>2, NoneAssumption DEF Shape, Authorised
  <2>5. QED
    BY <1>1, <2>1, <2>2, <2>3, <2>4, SessionStep
<1>5. ASSUME NEW i \in Edited, AddTaxId(r, i)
      PROVE  IInv'
  <2> DEFINE w0 == [Idle EXCEPT !.pc = "writing", !.does = "add", !.new = i]
  <2>1. w0 \in Session
    BY <1>1, BlanksAreTyped DEF Session
  <2>2. /\ w0.pc = "writing" /\ w0.id = None /\ w0.cols = {}
        /\ work' = [work EXCEPT ![r] = w0] /\ UNCHANGED <<ids, latest, queue>>
    BY <1>5 DEF AddTaxId, Idle
  <2> HIDE DEF w0
  <2>3. Shape(r, w0) /\ Authorised(w0)
    BY <1>1, <2>2 DEF Shape, Authorised
  <2>4. QED
    BY <1>1, <2>1, <2>2, <2>3, SessionStep
<1>6. ASSUME NEW i \in Edited, Retire(r, i)
      PROVE  IInv'
  <2> DEFINE row == [ids[i] EXCEPT !.active = FALSE, !.next = "never"]
             w0 == Writing("retire", i, row, {})
  <2>1. /\ row \in TaxIdRow /\ row.exists = ids[i].exists /\ ~row.active
        /\ row.attention = ids[i].attention
    BY <1>1, <1>3 DEF TaxIdRow, Nexts
  <2>2. /\ work[r].pc = "idle" /\ ids[i].exists /\ UNCHANGED <<ids, latest, queue>>
        /\ work' = [work EXCEPT ![r] = w0]
    BY <1>6 DEF Retire
  <2> HIDE DEF row
  <2>3. /\ w0 \in Session /\ w0.pc = "writing" /\ w0.does = "retire" /\ w0.id = i
        /\ w0.row = row /\ w0.cols = Written(ids[i], row, {})
    BY <1>1, <1>2, <2>1, OpenedSessions
  <2> HIDE DEF w0
  <2>4. QED
    BY <1>1, <2>1, <2>2, <2>3, WritingStep
<1>7. ASSUME NEW i \in Edited, Restart(r, i)
      PROVE  IInv'
  <2> DEFINE used == [ids[i] EXCEPT !.active = TRUE]
             row == Restarted(used)
             w0 == Writing("restart", i, row, {"next"})
  <2>1. used \in TaxIdRow /\ used.exists = ids[i].exists /\ used.attention = ids[i].attention
    BY <1>1, <1>3 DEF TaxIdRow
  <2>2. /\ work[r].pc = "idle" /\ ids[i].exists /\ UNCHANGED <<ids, latest, queue>>
        /\ work' = [work EXCEPT ![r] = w0]
    BY <1>7 DEF Restart
  <2> HIDE DEF used
  <2>3. /\ row \in TaxIdRow /\ row.exists = ids[i].exists
        /\ row.attention = ids[i].attention
    BY <2>1, RestartedIsRow
  <2> HIDE DEF row
  <2>4. /\ w0 \in Session /\ w0.pc = "writing" /\ w0.does = "restart" /\ w0.id = i
        /\ w0.row = row /\ w0.cols = Written(ids[i], row, {"next"})
    BY <1>1, <1>2, <2>3, OpenedSessions DEF Columns
  <2> HIDE DEF w0
  <2>5. QED
    BY <1>1, <2>2, <2>3, <2>4, WritingStep
<1>8. ASSUME NEW i \in Edited, Acknowledge(r, i)
      PROVE  IInv'
  <2> DEFINE row == [ids[i] EXCEPT !.attention = FALSE]
             w0 == Writing("acknowledge", i, row, {})
  <2>1. /\ row \in TaxIdRow /\ row.exists = ids[i].exists /\ row.active = ids[i].active
    BY <1>1, <1>3 DEF TaxIdRow
  <2>2. /\ work[r].pc = "idle" /\ UNCHANGED <<ids, latest, queue>>
        /\ work' = [work EXCEPT ![r] = w0]
    BY <1>8 DEF Acknowledge
  <2>3. ids[i].exists
    BY <1>1, <1>8 DEF Acknowledge, IInv, RowsExist, Absent
  <2> HIDE DEF row
  <2>4. /\ w0 \in Session /\ w0.pc = "writing" /\ w0.does = "acknowledge" /\ w0.id = i
        /\ w0.row = row /\ w0.cols = Written(ids[i], row, {})
    BY <1>1, <1>2, <2>1, OpenedSessions
  <2> HIDE DEF w0
  <2>5. QED
    BY <1>1, <2>1, <2>2, <2>3, <2>4, WritingStep
<1>9. ASSUME NEW i \in Edited, NEW j \in Ids, Supersede(r, i, j)
      PROVE  IInv'
  <2> DEFINE row == [ids[i] EXCEPT !.active = FALSE]
             w1 == Writing("supersede", i, row, {})
             w0 == [w1 EXCEPT !.new = j]
  <2>1. /\ row \in TaxIdRow /\ row.exists = ids[i].exists /\ ~row.active
        /\ row.attention = ids[i].attention
    BY <1>1, <1>3 DEF TaxIdRow
  <2>2. /\ work[r].pc = "idle" /\ ids[i].exists /\ UNCHANGED <<ids, latest, queue>>
        /\ work' = [work EXCEPT ![r] = w0]
    BY <1>9 DEF Supersede
  <2> HIDE DEF row
  <2>3. /\ w1 \in Session /\ w1.pc = "writing" /\ w1.does = "supersede" /\ w1.id = i
        /\ w1.row = row /\ w1.cols = Written(ids[i], row, {})
    BY <1>1, <1>2, <2>1, OpenedSessions
  <2> HIDE DEF w1
  <2>4. /\ w0 \in Session /\ w0.pc = "writing" /\ w0.does = "supersede" /\ w0.id = i
        /\ w0.row = row /\ w0.cols = Written(ids[i], row, {})
    BY <2>3 DEF Session
  <2> HIDE DEF w0
  <2>5. QED
    BY <1>1, <2>1, <2>2, <2>4, WritingStep
<1>10. QED
  BY <1>4, <1>5, <1>6, <1>7, <1>8, <1>9 DEF Request

\* The scheduler and the clock do not touch a session.
LEMMA SchedulerKeepsIInv ==
    ASSUME IInv,
           \/ \E taken \in SUBSET Ids : RunDue(taken)
           \/ \E i \in Ids : Elapse(i)
    PROVE  IInv'
<1>1. ASSUME NEW taken \in SUBSET Ids, RunDue(taken)
      PROVE  IInv'
  <2>1. \A i \in Ids : queue'[i] = IF i \in taken THEN queue[i] + 1 ELSE queue[i]
    BY <1>1 DEF RunDue
  <2>2. \A i \in Ids : queue[i] \in 0..MaxQueue /\ Cardinality(Held(i)) \in Nat
                      /\ (i \in taken => queue[i] < MaxQueue)
    BY <1>1, HeldCounts DEF IInv, TypeOK, RunDue
  <2>3. \A i \in Ids : queue'[i] \in 0..MaxQueue /\ queue[i] <= queue'[i]
    BY <2>1, <2>2, PolicyAssumption
  <2>4. \A i \in Ids : Cardinality(Held(i)) <= queue'[i]
    <3>1. SUFFICES ASSUME NEW i \in Ids
                   PROVE  Cardinality(Held(i)) <= queue'[i]
      OBVIOUS
    <3>2. Cardinality(Held(i)) <= queue[i]
      BY DEF IInv, HeldMessages, Held
    <3>3. QED
      BY <2>2, <2>3, <3>2, PolicyAssumption
  <2>5. HeldMessages'
    BY <1>1, <2>4 DEF HeldMessages, Held, RunDue
  <2>6. TypeOK'
    BY <1>1, <2>3 DEF IInv, TypeOK, RunDue
  <2>7. QED
    BY <1>1, <2>5, <2>6 DEF IInv, RowsExist, RunDue
<1>2. ASSUME NEW i \in Ids, Elapse(i)
      PROVE  IInv'
  <2> DEFINE row == [ids[i] EXCEPT !.next = "due"]
  <2>1. /\ ids' = [ids EXCEPT ![i] = row] /\ UNCHANGED <<latest, queue, work>>
        /\ ids[i].next # "never"
    BY <1>2 DEF Elapse
  <2>2. row \in TaxIdRow /\ row.exists = ids[i].exists
    BY DEF IInv, TypeOK, TaxIdRow, Nexts
  <2>3. ids[i].exists
    BY <2>1 DEF IInv, RowsExist, Absent
  <2> HIDE DEF row
  <2>4. TypeOK' /\ HeldMessages'
    BY <2>1, <2>2 DEF IInv, TypeOK, HeldMessages
  <2>5. \A j \in Ids : ids'[j] = IF j = i THEN row ELSE ids[j]
    BY <2>1 DEF IInv, TypeOK
  <2>6. \A s \in Sessions : work[s].id # None => work[s].id \in Ids
    BY DEF IInv, TypeOK, Session
  <2>7. RowsExist'
    BY <2>1, <2>2, <2>3, <2>5, <2>6 DEF IInv, RowsExist
  <2>8. QED
    BY <2>1, <2>4, <2>7 DEF IInv
<1>3. QED
  BY <1>1, <1>2

\* A worker that takes a message or skips it.
LEMMA TakeKeepsIInv ==
    ASSUME IInv, NEW w \in Workers, NEW i \in Ids, Take(w, i) \/ Skip(w, i)
    PROVE  IInv'
<1>1. w \in Sessions
  BY DEF Sessions
<1>2. CASE Take(w, i)
  <2> DEFINE w0 == Asking("check", i)
  <2>1. /\ work' = [work EXCEPT ![w] = w0] /\ UNCHANGED <<ids, latest, queue>>
        /\ Waiting(i) > 0 /\ ids[i].active
    BY <1>2 DEF Take
  <2>2. /\ w0 \in Session /\ w0.pc = "asking" /\ w0.does = "check" /\ w0.id = i
        /\ w0.new = None /\ w0.cols = {}
    BY OpenedSessions DEF IInv
  <2>3. ids[i].exists
    BY <2>1 DEF IInv, RowsExist, Absent
  <2> HIDE DEF w0
  <2>4. Shape(w, w0) /\ Authorised(w0)
    BY <2>2, NoneAssumption DEF Shape, Authorised
  <2>5. QED
    BY <1>1, <2>1, <2>2, <2>3, <2>4, SessionStep
<1>3. CASE Skip(w, i)
  <2>1. /\ queue' = [queue EXCEPT ![i] = @ - 1] /\ UNCHANGED <<ids, latest, work>>
        /\ queue[i] - Cardinality(Held(i)) > 0
    BY <1>3 DEF Skip, Waiting, Held
  <2>2. \A j \in Ids : queue'[j] = IF j = i THEN queue[j] - 1 ELSE queue[j]
    BY <2>1 DEF IInv, TypeOK
  <2>3. \A j \in Ids : queue[j] \in 0..MaxQueue /\ Cardinality(Held(j)) \in Nat
    BY HeldCounts DEF IInv, TypeOK
  <2>4. \A j \in Ids : Cardinality(Held(j)) <= queue[j]
    BY DEF IInv, HeldMessages, Held
  <2>5. \A j \in Ids : queue'[j] \in 0..MaxQueue /\ Cardinality(Held(j)) <= queue'[j]
    BY <2>1, <2>2, <2>3, <2>4, PolicyAssumption
  <2>6. HeldMessages'
    BY <2>1, <2>5 DEF HeldMessages, Held
  <2>7. TypeOK'
    BY <2>1, <2>5 DEF IInv, TypeOK
  <2>8. QED
    BY <2>1, <2>6, <2>7 DEF IInv, RowsExist
<1>4. QED
  BY <1>2, <1>3

\* Recording an answer raises the flag or leaves it, and changes no use.
LEMMA RecordKeepsIInv ==
    ASSUME IInv, NEW s \in Sessions, Record(s)
    PROVE  IInv'
<1>1. /\ work[s] \in Session /\ work[s].pc = "asking" /\ work[s].id \in Ids
      /\ Shape(s, work[s])
  BY DEF IInv, TypeOK, Record, Shape, Session
<1>2. PICK a \in Answer : /\ work' = [work EXCEPT ![s] = Recorded(s, a)]
                          /\ UNCHANGED <<ids, latest, queue>>
  BY BlanksAreTyped, AnswerAssumption DEF Record, AnswersAbout
<1> DEFINE w0 == Recorded(s, a)
<1>3. /\ w0 \in Session /\ w0.pc = "writing" /\ w0.id = work[s].id
      /\ w0.new = work[s].new /\ w0.does = work[s].does
      /\ w0.row.exists = work[s].row.exists /\ w0.row.active = work[s].row.active
      /\ work[s].row.attention => w0.row.attention
      /\ w0.cols = Written(work[s].row, w0.row, MovedBy(a))
  BY <1>1, RecordedSession
<1>4. w0.row \in TaxIdRow /\ work[s].row \in TaxIdRow
  BY <1>1, <1>3 DEF Session
<1>5. work' = [work EXCEPT ![s] = w0]
  BY <1>2
<1> HIDE DEF w0
<1>6. Shape(s, w0)
  BY <1>1, <1>3 DEF Shape
<1>7. "exists" \notin w0.cols /\ "active" \notin w0.cols
  BY <1>3 DEF Written, MovedBy
<1>8. "attention" \in w0.cols => w0.row.attention
  BY <1>3, <1>4 DEF Written, MovedBy, TaxIdRow
<1>9. Authorised(w0)
  BY <1>7, <1>8 DEF Authorised
<1>10. w0.id # None => ids[w0.id].exists
  BY <1>1, <1>3 DEF IInv, RowsExist
<1>11. QED
  BY <1>2, <1>3, <1>5, <1>6, <1>9, <1>10, SessionStep

\* What a commit makes of the rows: a new one starts its series, the one the
\* session worked on takes the columns written, the others stay.
LEMMA CommittedRows ==
    ASSUME IInv, NEW s \in Sessions, Commit(s), NEW i \in Ids
    PROVE  /\ ids'[i] \in TaxIdRow
           /\ i = work[s].new => ids[i] = Absent /\ ids'[i].exists /\ ~ids'[i].attention
           /\ i # work[s].new /\ i = work[s].id =>
                 ids'[i] = Updated(ids[i], s) /\ ids'[i].exists = ids[i].exists
           /\ i # work[s].new /\ i # work[s].id => ids'[i] = ids[i]
<1>1. /\ work[s] \in Session /\ ids[i] \in TaxIdRow /\ Authorised(work[s])
  BY DEF IInv, TypeOK
<1>2. ids'[i] = CommittedRow(i, s)
  BY DEF Commit
<1>3. CASE i = work[s].new
  <2> DEFINE fresh == [Absent EXCEPT !.exists = TRUE, !.active = TRUE]
  <2>1. ids[i] = Absent
    BY <1>3, NoneAssumption DEF Commit, IInv, RowsExist
  <2>2. fresh \in TaxIdRow /\ fresh.exists /\ ~fresh.attention
    BY BlanksAreTyped DEF TaxIdRow, Absent
  <2>3. ids'[i] = Restarted(fresh)
    BY <1>2, <1>3 DEF CommittedRow
  <2> HIDE DEF fresh
  <2>4. ids'[i] \in TaxIdRow /\ ids'[i].exists /\ ~ids'[i].attention
    BY <2>2, <2>3, RestartedIsRow
  <2>5. QED
    BY <1>3, <2>1, <2>4
<1>4. CASE i # work[s].new /\ i = work[s].id
  <2>1. ids'[i] = Updated(ids[i], s)
    BY <1>2, <1>4 DEF CommittedRow
  <2>2. Updated(ids[i], s) \in TaxIdRow /\ Updated(ids[i], s).exists = ids[i].exists
    BY <1>1, UpdatedIsRow DEF Authorised
  <2>3. QED
    BY <1>4, <2>1, <2>2
<1>5. CASE i # work[s].new /\ i # work[s].id
  BY <1>1, <1>2, <1>5 DEF CommittedRow
<1>6. QED
  BY <1>3, <1>4, <1>5

LEMMA CommitKeepsIInv ==
    ASSUME IInv, NEW s \in Sessions, Commit(s)
    PROVE  IInv'
<1> DEFINE b == work[s].answer # None /\ work[s].answer.status \in Completed
<1>1. /\ b \in BOOLEAN /\ work' = Closed(s, b) /\ queue' = Acked(s)
      /\ work[s].pc # "idle"
  BY DEF Commit
<1> HIDE DEF b
<1>2. /\ work' \in [Sessions -> Session]
      /\ \A t \in Sessions : work'[t].id = IF t = s THEN None ELSE work[t].id
      /\ \A t \in Sessions : Shape(t, work'[t]) /\ Authorised(work'[t])
  BY <1>1, ClosedSessions DEF Idle
<1>3. queue' \in [Ids -> 0..MaxQueue] /\ HeldMessages'
  BY <1>1, ClosedQueue
<1>4. ids' \in [Ids -> TaxIdRow]
  BY CommittedRows DEF Commit
<1>5. latest' \in [Ids -> Answer \cup {None}]
  BY DEF Commit, IInv, TypeOK, Session
<1>6. \A t \in Sessions : work[t].id # None => work[t].id \in Ids /\ ids[work[t].id].exists
  BY DEF IInv, TypeOK, Session, RowsExist
<1>7. \A i \in Ids : ids[i].exists => ids'[i].exists
  BY CommittedRows
<1>8. \A i \in Ids : ids'[i].exists \/ ids'[i] = Absent
  <2>1. SUFFICES ASSUME NEW i \in Ids
                 PROVE  ids'[i].exists \/ ids'[i] = Absent
    OBVIOUS
  <2>2. ids[i].exists \/ ids[i] = Absent
    BY DEF IInv, RowsExist
  <2>3. CASE i = work[s].new
    BY <2>3, CommittedRows
  <2>4. CASE i # work[s].new /\ i = work[s].id
    BY <1>6, <1>7, <2>4, NoneAssumption
  <2>5. CASE i # work[s].new /\ i # work[s].id
    <3>1. ids'[i] = ids[i]
      BY <2>5, CommittedRows
    <3>2. QED
      BY <2>2, <3>1
  <2>6. QED
    BY <2>3, <2>4, <2>5
<1>9. RowsExist'
  BY <1>2, <1>6, <1>7, <1>8 DEF RowsExist
<1>10. QED
  BY <1>2, <1>3, <1>4, <1>5, <1>9 DEF IInv, TypeOK

LEMMA AbortKeepsIInv ==
    ASSUME IInv, NEW s \in Sessions, Fail(s) \/ (s \in Workers /\ Crash(s))
    PROVE  IInv'
<1>1. PICK b \in BOOLEAN :
      /\ work' = Closed(s, b) /\ UNCHANGED <<ids, latest>> /\ work[s].pc # "idle"
      /\ queue' = Acked(s) \/ (s \in Workers /\ queue' = queue)
  BY DEF Fail, Crash
<1>2. /\ work' \in [Sessions -> Session]
      /\ \A t \in Sessions : work'[t].id = IF t = s THEN None ELSE work[t].id
      /\ \A t \in Sessions : Shape(t, work'[t]) /\ Authorised(work'[t])
  BY <1>1, ClosedSessions DEF Idle
<1>3. queue' \in [Ids -> 0..MaxQueue] /\ HeldMessages'
  BY <1>1, ClosedQueue
<1>4. RowsExist'
  BY <1>1, <1>2 DEF IInv, RowsExist
<1>5. QED
  BY <1>1, <1>2, <1>3, <1>4 DEF IInv, TypeOK

LEMMA InitIInv == Init => IInv
<1>1. SUFFICES ASSUME Init PROVE IInv
  OBVIOUS
<1>2. TypeOK
  BY <1>1, BlanksAreTyped, PolicyAssumption DEF Init, TypeOK
<1>3. HeldMessages
  <2>1. SUFFICES ASSUME NEW i \in Ids
                 PROVE  Cardinality({w \in Workers : work[w].id = i}) <= queue[i]
    BY DEF HeldMessages
  <2>2. {w \in Workers : work[w].id = i} = {}
    BY <1>1, NoneAssumption DEF Init, Sessions, Idle
  <2>3. Cardinality({}) = 0 /\ queue[i] = 0
    BY <1>1, FS_EmptySet DEF Init
  <2>4. QED
    BY <2>2, <2>3
<1>4. QED
  BY <1>1, <1>2, <1>3 DEF Init, IInv, RowsExist, Shape, Authorised, Idle

LEMMA NextIInv == IInv /\ [Next]_vars => IInv'
<1>1. SUFFICES ASSUME IInv, [Next]_vars PROVE IInv'
  OBVIOUS
<1>2. CASE UNCHANGED vars
  BY <1>1, <1>2 DEF IInv, TypeOK, HeldMessages, RowsExist, vars
<1>3. CASE Next
  <2>1. CASE \/ \E taken \in SUBSET Ids : RunDue(taken)
             \/ \E i \in Ids : Elapse(i)
    BY <1>1, <2>1, SchedulerKeepsIInv
  <2>2. CASE \E w \in Workers, i \in Ids : Take(w, i) \/ Skip(w, i)
    BY <1>1, <2>2, TakeKeepsIInv
  <2>3. CASE \E r \in Requests : Request(r)
    BY <1>1, <2>3, RequestKeepsIInv
  <2>4. CASE \E s \in Sessions : Record(s)
    BY <1>1, <2>4, RecordKeepsIInv
  <2>5. CASE \E s \in Sessions : Commit(s)
    BY <1>1, <2>5, CommitKeepsIInv
  <2>6. CASE (\E s \in Sessions : Fail(s)) \/ (\E w \in Workers : Crash(w))
    BY <1>1, <2>6, AbortKeepsIInv DEF Sessions
  <2>7. QED
    BY <1>3, <2>1, <2>2, <2>3, <2>4, <2>5, <2>6 DEF Next
<1>4. QED
  BY <1>1, <1>2, <1>3

THEOREM Invariance == Spec => []IInv
  BY InitIInv, NextIInv, PTL DEF Spec

-----------------------------------------------------------------------------
(* What follows from it.                                                   *)

\* Every reachable state is well typed: no interleaving of tasks, crashes and
\* requests takes more messages off the queue than there are.
THEOREM ChecksTypeCorrect == Spec => []TypeOK
<1>1. IInv => TypeOK
  BY DEF IInv
<1>2. QED
  BY <1>1, Invariance, PTL

\* Which steps change a row that is there: the clock, and a commit.
LEMMA RowsChangeByCommit ==
    ASSUME IInv, [Next]_vars, NEW i \in Ids,
           ids'[i].active # ids[i].active \/ ids'[i].attention # ids[i].attention
    PROVE  \E s \in Sessions : Commit(s)
<1>1. ASSUME NEW j \in Ids, Elapse(j)
      PROVE  ids'[i].active = ids[i].active /\ ids'[i].attention = ids[i].attention
  <2>1. ids' = [ids EXCEPT ![j] = [ids[j] EXCEPT !.next = "due"]]
    BY <1>1 DEF Elapse
  <2>2. ids \in [Ids -> TaxIdRow]
    BY DEF IInv, TypeOK
  <2>3. /\ [ids[j] EXCEPT !.next = "due"].active = ids[j].active
        /\ [ids[j] EXCEPT !.next = "due"].attention = ids[j].attention
    BY <2>2 DEF TaxIdRow
  <2>4. QED
    BY <2>1, <2>2, <2>3
<1>2. (\E s \in Sessions : Commit(s)) \/ (\E j \in Ids : Elapse(j)) \/ ids' = ids
  BY DEF Next, vars, RunDue, Take, Skip, Crash, Fail, Record, Request, CheckNow,
         ConfirmManually, AddTaxId, Supersede, Retire, Restart, Acknowledge
<1>3. QED
  BY <1>1, <1>2

\* A session that commits what a person decided is a request, and it ends.
LEMMA CommitEnds ==
    ASSUME IInv, NEW s \in Sessions, Commit(s), NEW i \in Ids, work[s].id = i,
           NEW does \in {"restart", "acknowledge"}, work[s].does = does
    PROVE  s \in Requests /\ Ends(s, does, i)
<1>1. work[s].pc = "writing" /\ work'[s] = Idle
  BY DEF Commit, Closed
<1>2. s \in Requests
  BY <1>1 DEF IInv, Shape, Sessions
<1>3. QED
  BY <1>1, <1>2 DEF Ends, Idle

\* A retired identifier is used again only because a person asked.
THEOREM RetirementsLast == Spec => RetiredStaysRetired
<1>1. ASSUME IInv, [Next]_vars, NEW i \in Ids,
             ids[i].exists, ~ids[i].active, ids'[i].active
      PROVE  \E r \in Requests : Ends(r, "restart", i)
  <2>1. PICK s \in Sessions : Commit(s)
    BY <1>1, RowsChangeByCommit
  <2>2. i # work[s].new
    BY <1>1, <2>1, CommittedRows DEF Absent
  <2>3. i = work[s].id /\ ids'[i] = Updated(ids[i], s)
    BY <1>1, <2>1, <2>2, CommittedRows
  <2>4. "active" \in work[s].cols /\ work[s].row.active
    BY <1>1, <2>3 DEF Updated
  <2>5. work[s].does = "restart"
    BY <1>1, <2>4 DEF IInv, Authorised
  <2>6. QED
    BY <1>1, <2>1, <2>3, <2>5, CommitEnds
<1>2. IInv /\ [Next]_vars =>
        [\A i \in Ids : ids[i].exists /\ ~ids[i].active /\ ids'[i].active =>
            \E r \in Requests : Ends(r, "restart", i)]_vars
  BY <1>1
<1>3. QED
  BY <1>2, Invariance, PTL DEF Spec, RetiredStaysRetired

\* The flag goes down only by an acknowledgement.
THEOREM FlagsLast == Spec => FlagClearedOnlyByAcknowledge
<1>1. ASSUME IInv, [Next]_vars, NEW i \in Ids, ids[i].attention, ~ids'[i].attention
      PROVE  \E r \in Requests : Ends(r, "acknowledge", i)
  <2>1. PICK s \in Sessions : Commit(s)
    BY <1>1, RowsChangeByCommit
  <2>2. i # work[s].new
    BY <1>1, <2>1, CommittedRows DEF Absent
  <2>3. i = work[s].id /\ ids'[i] = Updated(ids[i], s)
    BY <1>1, <2>1, <2>2, CommittedRows
  <2>4. "attention" \in work[s].cols /\ ~work[s].row.attention
    BY <1>1, <2>3 DEF Updated
  <2>5. work[s].does = "acknowledge"
    BY <1>1, <2>4 DEF IInv, Authorised
  <2>6. QED
    BY <1>1, <2>1, <2>3, <2>5, CommitEnds
<1>2. IInv /\ [Next]_vars =>
        [\A i \in Ids : ids[i].attention /\ ~ids'[i].attention =>
            \E r \in Requests : Ends(r, "acknowledge", i)]_vars
  BY <1>1
<1>3. QED
  BY <1>2, Invariance, PTL DEF Spec, FlagClearedOnlyByAcknowledge

-----------------------------------------------------------------------------
(* The schedule, where there is a register to ask and an interval.         *)

\* What the schedule columns a session is going to write say of each other.
Together(w) ==
    /\ "next" \in w.cols /\ w.row.next = "retry" =>
          "streak" \in w.cols /\ w.row.streak <= Retries
    /\ "next" \in w.cols /\ w.row.next = "regular" =>
          \/ "done" \in w.cols /\ w.row.done >= SeriesLength
          \/ "streak" \in w.cols /\ w.row.streak > Retries
    /\ "next" \notin w.cols =>
          "streak" \notin w.cols /\ ("done" \in w.cols => w.row.done >= SeriesLength)

\* Where no provider is asked, none is ever out of reach.
NeverOutOfReach ==
    /\ \A i \in Ids \ Covered : ids[i].streak = 0
    /\ \A s \in Sessions : work[s].id \in Ids \ Covered => work[s].row.streak = 0

ScheduleInv ==
    /\ IInv
    /\ RetriesBounded /\ SeriesBeforeInterval
    /\ NeverOutOfReach
    /\ \A s \in Sessions : Together(work[s])

\* The columns that record an answer belong together.
LEMMA AnswersTogether ==
    ASSUME Rechecks, NEW seen \in TaxIdRow, NEW a \in Answer,
           a.status = "not_checkable" => seen.streak = 0,
           NEW w, w.row \in TaxIdRow, w.cols = Written(seen, w.row, MovedBy(a)),
           w.row.next = Advanced(seen, a).next,
           w.row.done = Advanced(seen, a).done,
           w.row.streak = Advanced(seen, a).streak
    PROVE  /\ Together(w)
           /\ a.status \in Completed => w.row.streak = 0
<1>1. /\ SeriesLength \in Nat /\ Retries \in Nat
      /\ seen.streak \in Nat /\ seen.done \in Nat
  BY PolicyAssumption DEF TaxIdRow
<1>2. CASE a.status \notin Completed
  <2>1. /\ w.row.streak = AtMost(seen.streak + 1, Retries + 1)
        /\ w.row.next = IF seen.streak + 1 <= Retries THEN "retry" ELSE "regular"
    BY <1>2 DEF Advanced, AfterFailure, TaxIdRow, RegularNext
  <2>2. "next" \in w.cols /\ "streak" \in w.cols
    BY <1>2, <2>1 DEF Written, MovedBy
  <2>3. QED
    BY <1>1, <1>2, <2>1, <2>2 DEF Together, AtMost
<1>3. CASE a.status = "not_checkable"
  <2>1. w.row.streak = 0 /\ w.row.next = "never" /\ w.row.done >= SeriesLength
    BY <1>1, <1>3 DEF Advanced, AfterNotCheckable, TaxIdRow, Completed
  <2>2. "streak" \notin w.cols
    BY <1>3, <2>1 DEF Written, MovedBy, Completed
  <2>3. QED
    BY <2>1, <2>2 DEF Together
<1>4. CASE a.status \in Completed /\ a.status # "not_checkable"
  <2>1. /\ w.row.streak = 0 /\ w.row.done = AtMost(seen.done + 1, SeriesLength + 1)
        /\ w.row.next = IF seen.done + 1 < SeriesLength THEN "series" ELSE "regular"
    BY <1>4 DEF Advanced, AfterAnswer, TaxIdRow, RegularNext
  <2>2. "next" \in w.cols /\ "done" \in w.cols
    BY <1>4, <2>1 DEF Written, MovedBy
  <2>3. QED
    BY <1>1, <2>1, <2>2 DEF Together, AtMost
<1>5. QED
  BY <1>2, <1>3, <1>4

\* A session that opens or goes on keeps the schedule's invariant if the
\* columns it will write belong together.
LEMMA ScheduleSessionStep ==
    ASSUME ScheduleInv, IInv', NEW s \in Sessions, NEW w0 \in Session,
           work' = [work EXCEPT ![s] = w0], UNCHANGED <<ids, latest, queue>>,
           Together(w0), w0.id \in Ids \ Covered => w0.row.streak = 0
    PROVE  ScheduleInv'
<1>1. \A t \in Sessions : work'[t] = IF t = s THEN w0 ELSE work[t]
  BY DEF ScheduleInv, IInv, TypeOK
<1>2. RetriesBounded' /\ SeriesBeforeInterval'
  BY DEF ScheduleInv, RetriesBounded, SeriesBeforeInterval
<1>3. NeverOutOfReach'
  BY <1>1 DEF ScheduleInv, NeverOutOfReach
<1>4. \A t \in Sessions : Together(work'[t])
  BY <1>1 DEF ScheduleInv
<1>5. QED
  BY <1>2, <1>3, <1>4 DEF ScheduleInv

\* What the requests write of the schedule: a restart writes all of it, the
\* others nothing but "never".
LEMMA RequestKeepsSchedule ==
    ASSUME Verifiable, ScheduleInv, IInv', NEW r \in Requests, Request(r)
    PROVE  ScheduleInv'
<1>1. r \in Sessions /\ Edited \subseteq Ids /\ TypeOK
  BY SessionAssumption DEF Sessions, ScheduleInv, IInv
<1>2. \A i \in Ids : /\ ids[i] \in TaxIdRow
                     /\ i \notin Covered => ids[i].streak = 0
  BY DEF ScheduleInv, IInv, TypeOK, NeverOutOfReach
<1>3. ASSUME NEW i \in Edited, CheckNow(r, i) \/ ConfirmManually(r, i)
      PROVE  ScheduleInv'
  <2>1. PICK does \in {"check", "confirm"} :
            /\ work' = [work EXCEPT ![r] = Asking(does, i)]
            /\ UNCHANGED <<ids, latest, queue>>
    BY <1>3 DEF CheckNow, ConfirmManually
  <2> DEFINE w0 == Asking(does, i)
  <2>2. w0 \in Session /\ w0.id = i /\ w0.row = ids[i] /\ w0.cols = {}
    BY <1>1, OpenedSessions
  <2>3. work' = [work EXCEPT ![r] = w0]
    BY <2>1
  <2> HIDE DEF w0
  <2>4. Together(w0) /\ (w0.id \in Ids \ Covered => w0.row.streak = 0)
    BY <1>1, <1>2, <2>2 DEF Together
  <2>5. QED
    BY <1>1, <2>1, <2>2, <2>3, <2>4, ScheduleSessionStep
<1>4. ASSUME NEW i \in Edited, AddTaxId(r, i)
      PROVE  ScheduleInv'
  <2> DEFINE w0 == [Idle EXCEPT !.pc = "writing", !.does = "add", !.new = i]
  <2>1. w0 \in Session
    BY <1>1, BlanksAreTyped DEF Session
  <2>2. /\ w0.id = None /\ w0.cols = {}
        /\ work' = [work EXCEPT ![r] = w0] /\ UNCHANGED <<ids, latest, queue>>
    BY <1>4 DEF AddTaxId, Idle
  <2> HIDE DEF w0
  <2>3. Together(w0) /\ w0.id \notin Ids
    BY <2>2, NoneAssumption DEF Together
  <2>4. QED
    BY <1>1, <2>1, <2>2, <2>3, ScheduleSessionStep
<1>5. ASSUME NEW i \in Edited, Retire(r, i)
      PROVE  ScheduleInv'
  <2> DEFINE row == [ids[i] EXCEPT !.active = FALSE, !.next = "never"]
             w0 == Writing("retire", i, row, {})
  <2>1. /\ row \in TaxIdRow /\ row.next = "never"
        /\ row.done = ids[i].done /\ row.streak = ids[i].streak
    BY <1>1, <1>2 DEF TaxIdRow, Nexts
  <2>2. UNCHANGED <<ids, latest, queue>> /\ work' = [work EXCEPT ![r] = w0]
    BY <1>5 DEF Retire
  <2> HIDE DEF row
  <2>3. w0 \in Session /\ w0.id = i /\ w0.row = row /\ w0.cols = Written(ids[i], row, {})
    BY <1>1, <2>1, OpenedSessions
  <2> HIDE DEF w0
  <2>4. Together(w0) /\ (w0.id \in Ids \ Covered => w0.row.streak = 0)
    BY <1>2, <2>1, <2>3 DEF Together, Written
  <2>5. QED
    BY <1>1, <2>2, <2>3, <2>4, ScheduleSessionStep
<1>6. ASSUME NEW i \in Edited, Restart(r, i)
      PROVE  ScheduleInv'
  <2> DEFINE used == [ids[i] EXCEPT !.active = TRUE]
             row == Restarted(used)
             w0 == Writing("restart", i, row, {"next"})
  <2>1. used \in TaxIdRow
    BY <1>1, <1>2 DEF TaxIdRow
  <2>2. UNCHANGED <<ids, latest, queue>> /\ work' = [work EXCEPT ![r] = w0]
    BY <1>6 DEF Restart
  <2> HIDE DEF used
  <2>3. row.next = "series" /\ row.streak = 0
    BY <2>1 DEF Restarted, TaxIdRow
  <2>4. row \in TaxIdRow
    BY <2>1, RestartedIsRow
  <2> HIDE DEF row
  <2>5. /\ w0 \in Session /\ w0.id = i /\ w0.row = row
        /\ w0.cols = Written(ids[i], row, {"next"})
    BY <1>1, <2>4, OpenedSessions DEF Columns
  <2> HIDE DEF w0
  <2>6. Together(w0)
    BY <2>3, <2>5 DEF Together, Written
  <2>7. QED
    BY <1>1, <2>2, <2>3, <2>5, <2>6, ScheduleSessionStep
<1>7. ASSUME NEW i \in Edited, Acknowledge(r, i)
      PROVE  ScheduleInv'
  <2> DEFINE row == [ids[i] EXCEPT !.attention = FALSE]
             w0 == Writing("acknowledge", i, row, {})
  <2>1. /\ row \in TaxIdRow /\ row.next = ids[i].next
        /\ row.done = ids[i].done /\ row.streak = ids[i].streak
    BY <1>1, <1>2 DEF TaxIdRow
  <2>2. UNCHANGED <<ids, latest, queue>> /\ work' = [work EXCEPT ![r] = w0]
    BY <1>7 DEF Acknowledge
  <2> HIDE DEF row
  <2>3. w0 \in Session /\ w0.id = i /\ w0.row = row /\ w0.cols = Written(ids[i], row, {})
    BY <1>1, <2>1, OpenedSessions
  <2> HIDE DEF w0
  <2>4. Together(w0) /\ (w0.id \in Ids \ Covered => w0.row.streak = 0)
    BY <1>2, <2>1, <2>3 DEF Together, Written
  <2>5. QED
    BY <1>1, <2>2, <2>3, <2>4, ScheduleSessionStep
<1>8. ASSUME NEW i \in Edited, NEW j \in Ids, Supersede(r, i, j)
      PROVE  ScheduleInv'
  <2> DEFINE row == [ids[i] EXCEPT !.active = FALSE]
             w1 == Writing("supersede", i, row, {})
             w0 == [w1 EXCEPT !.new = j]
  <2>1. /\ row \in TaxIdRow /\ row.next = ids[i].next
        /\ row.done = ids[i].done /\ row.streak = ids[i].streak
    BY <1>1, <1>2 DEF TaxIdRow
  <2>2. UNCHANGED <<ids, latest, queue>> /\ work' = [work EXCEPT ![r] = w0]
    BY <1>8 DEF Supersede
  <2> HIDE DEF row
  <2>3. w1 \in Session /\ w1.id = i /\ w1.row = row /\ w1.cols = Written(ids[i], row, {})
    BY <1>1, <2>1, OpenedSessions
  <2> HIDE DEF w1
  <2>4. w0 \in Session /\ w0.id = i /\ w0.row = row /\ w0.cols = Written(ids[i], row, {})
    BY <2>3 DEF Session
  <2> HIDE DEF w0
  <2>5. Together(w0) /\ (w0.id \in Ids \ Covered => w0.row.streak = 0)
    BY <1>2, <2>1, <2>4 DEF Together, Written
  <2>6. QED
    BY <1>1, <2>2, <2>4, <2>5, ScheduleSessionStep
<1>9. QED
  BY <1>3, <1>4, <1>5, <1>6, <1>7, <1>8 DEF Request

\* A worker that takes a message or skips it writes nothing.
LEMMA TakeKeepsSchedule ==
    ASSUME ScheduleInv, IInv', NEW w \in Workers, NEW i \in Ids, Take(w, i) \/ Skip(w, i)
    PROVE  ScheduleInv'
<1>1. w \in Sessions /\ TypeOK
  BY DEF Sessions, ScheduleInv, IInv
<1>2. CASE Take(w, i)
  <2> DEFINE w0 == Asking("check", i)
  <2>1. work' = [work EXCEPT ![w] = w0] /\ UNCHANGED <<ids, latest, queue>>
    BY <1>2 DEF Take
  <2>2. w0 \in Session /\ w0.id = i /\ w0.row = ids[i] /\ w0.cols = {}
    BY <1>1, OpenedSessions
  <2> HIDE DEF w0
  <2>3. Together(w0) /\ (w0.id \in Ids \ Covered => w0.row.streak = 0)
    BY <2>2 DEF Together, ScheduleInv, NeverOutOfReach
  <2>4. QED
    BY <1>1, <2>1, <2>2, <2>3, ScheduleSessionStep
<1>3. CASE Skip(w, i)
  BY <1>3 DEF Skip, ScheduleInv, RetriesBounded, SeriesBeforeInterval, NeverOutOfReach
<1>4. QED
  BY <1>2, <1>3

\* An answer is recorded with the columns that belong together.
LEMMA RecordKeepsSchedule ==
    ASSUME Rechecks, ScheduleInv, IInv', NEW s \in Sessions, Record(s)
    PROVE  ScheduleInv'
<1>1. /\ work[s] \in Session /\ work[s].row \in TaxIdRow /\ work[s].id \in Ids
  BY DEF ScheduleInv, IInv, TypeOK, Record, Shape, Session
<1>2. PICK a \in Answer :
        /\ work' = [work EXCEPT ![s] = Recorded(s, a)]
        /\ UNCHANGED <<ids, latest, queue>>
        /\ a.status = "not_checkable" => work[s].id \notin Covered
        /\ work[s].id \notin Covered => a.status \in Completed
  BY BlanksAreTyped, AnswerAssumption
  DEF Record, AnswersAbout, Confirmation, NoRegister, Completed
<1> DEFINE w0 == Recorded(s, a)
<1>3. /\ w0 \in Session /\ w0.id = work[s].id /\ w0.row \in TaxIdRow
      /\ w0.cols = Written(work[s].row, w0.row, MovedBy(a))
      /\ w0.row.next = Advanced(work[s].row, a).next
      /\ w0.row.done = Advanced(work[s].row, a).done
      /\ w0.row.streak = Advanced(work[s].row, a).streak
  BY <1>1, RecordedSession
<1>4. work' = [work EXCEPT ![s] = w0]
  BY <1>2
<1> HIDE DEF w0
<1>5. a.status = "not_checkable" => work[s].row.streak = 0
  BY <1>1, <1>2 DEF ScheduleInv, NeverOutOfReach
<1>6. Together(w0) /\ (a.status \in Completed => w0.row.streak = 0)
  BY <1>1, <1>3, <1>5, AnswersTogether
<1>7. QED
  BY <1>2, <1>3, <1>4, <1>6, ScheduleSessionStep

\* Whatever row a session finds when it commits, what it leaves is a schedule
\* with its reasons.
LEMMA CommittedSchedule ==
    ASSUME Verifiable, ScheduleInv, NEW s \in Sessions, Commit(s), NEW i \in Ids
    PROVE  /\ ids'[i].next = "retry" => ids'[i].streak \in 0..Retries
           /\ ids'[i].next = "regular" =>
                 ids'[i].done >= SeriesLength \/ ids'[i].streak > Retries
           /\ i \notin Covered => ids'[i].streak = 0
<1>1. /\ IInv /\ Together(work[s]) /\ work[s].row \in TaxIdRow /\ ids[i] \in TaxIdRow
      /\ Retries \in Nat
  BY PolicyAssumption DEF ScheduleInv, IInv, TypeOK, Session
<1>2. /\ ids[i].next = "retry" => ids[i].streak \in 0..Retries
      /\ ids[i].next = "regular" => ids[i].done >= SeriesLength \/ ids[i].streak > Retries
      /\ i \notin Covered => ids[i].streak = 0
  BY DEF ScheduleInv, RetriesBounded, SeriesBeforeInterval, NeverOutOfReach
<1>3. CASE i = work[s].new
  <2> DEFINE fresh == [Absent EXCEPT !.exists = TRUE, !.active = TRUE]
  <2>1. fresh \in TaxIdRow
    BY BlanksAreTyped DEF TaxIdRow
  <2>2. ids'[i] = Restarted(fresh)
    BY <1>3 DEF Commit, CommittedRow
  <2> HIDE DEF fresh
  <2>3. ids'[i].next = "series" /\ ids'[i].streak = 0
    BY <2>1, <2>2 DEF Restarted, TaxIdRow
  <2>4. QED
    BY <2>3
<1>4. CASE i # work[s].new /\ i = work[s].id
  <2> DEFINE cols == work[s].cols
             row == work[s].row
  <2>1. ids'[i] = Updated(ids[i], s)
    BY <1>1, <1>4, CommittedRows
  <2>2. /\ ids'[i].next = IF "next" \in cols THEN row.next ELSE ids[i].next
        /\ ids'[i].done = IF "done" \in cols THEN row.done ELSE ids[i].done
        /\ ids'[i].streak = IF "streak" \in cols THEN row.streak ELSE ids[i].streak
    BY <2>1 DEF Updated
  <2>3. /\ "next" \in cols /\ row.next = "retry" => "streak" \in cols /\ row.streak <= Retries
        /\ "next" \in cols /\ row.next = "regular" =>
              \/ "done" \in cols /\ row.done >= SeriesLength
              \/ "streak" \in cols /\ row.streak > Retries
        /\ "next" \notin cols =>
              "streak" \notin cols /\ ("done" \in cols => row.done >= SeriesLength)
    BY <1>1 DEF Together
  <2>4. row.streak \in Nat
    BY <1>1, PolicyAssumption DEF TaxIdRow
  <2>5. i \notin Covered => row.streak = 0
    BY <1>4 DEF ScheduleInv, NeverOutOfReach
  <2> HIDE DEF cols, row
  <2>6. ids'[i].next = "retry" => ids'[i].streak \in 0..Retries
    BY <1>1, <1>2, <2>2, <2>3, <2>4
  <2>7. ids'[i].next = "regular" =>
          ids'[i].done >= SeriesLength \/ ids'[i].streak > Retries
    BY <1>2, <2>2, <2>3
  <2>8. QED
    BY <1>2, <2>2, <2>5, <2>6, <2>7
<1>5. CASE i # work[s].new /\ i # work[s].id
  <2>1. ids'[i] = ids[i]
    BY <1>1, <1>5, CommittedRows
  <2>2. QED
    BY <1>2, <2>1
<1>6. QED
  BY <1>3, <1>4, <1>5

\* A session that ends, well or badly.
LEMMA EndKeepsSchedule ==
    ASSUME Verifiable, ScheduleInv, IInv', NEW s \in Sessions,
           Commit(s) \/ Fail(s) \/ (s \in Workers /\ Crash(s))
    PROVE  ScheduleInv'
<1>1. PICK b \in BOOLEAN : work' = Closed(s, b)
  <2>1. (work[s].answer # None /\ work[s].answer.status \in Completed) \in BOOLEAN
    OBVIOUS
  <2>2. QED
    BY <2>1 DEF Commit, Fail, Crash
<1>2. \A t \in Sessions :
        IF t = s THEN work'[t] = Idle
        ELSE /\ work'[t].id = work[t].id
             /\ work'[t].row = work[t].row /\ work'[t].cols = work[t].cols
  BY <1>1, ClosedSessions DEF ScheduleInv
<1>3. ASSUME NEW t \in Sessions
      PROVE  Together(work'[t])
  <2>1. CASE t = s
    BY <1>2, <2>1 DEF Together, Idle
  <2>2. CASE t # s
    <3>1. Together(work[t])
      BY DEF ScheduleInv
    <3>2. QED
      BY <1>2, <2>2, <3>1 DEF Together
  <2>3. QED
    BY <2>1, <2>2
<1>4. ASSUME NEW t \in Sessions, work'[t].id \in Ids \ Covered
      PROVE  work'[t].row.streak = 0
  <2>1. t # s
    BY <1>2, <1>4, NoneAssumption DEF Idle
  <2>2. QED
    BY <1>2, <1>4, <2>1 DEF ScheduleInv, NeverOutOfReach
<1>5. \A i \in Ids :
        /\ ids'[i].next = "retry" => ids'[i].streak \in 0..Retries
        /\ ids'[i].next = "regular" =>
              ids'[i].done >= SeriesLength \/ ids'[i].streak > Retries
        /\ i \notin Covered => ids'[i].streak = 0
  <2>1. CASE Commit(s)
    BY <2>1, CommittedSchedule
  <2>2. CASE ids' = ids
    BY <2>2 DEF ScheduleInv, RetriesBounded, SeriesBeforeInterval, NeverOutOfReach
  <2>3. QED
    BY <2>1, <2>2 DEF Fail, Crash
<1>6. RetriesBounded' /\ SeriesBeforeInterval'
  BY <1>5 DEF RetriesBounded, SeriesBeforeInterval
<1>7. NeverOutOfReach'
  BY <1>4, <1>5 DEF NeverOutOfReach
<1>8. QED
  BY <1>3, <1>6, <1>7 DEF ScheduleInv

\* Dispatching and the passing of time.
LEMMA SchedulerKeepsSchedule ==
    ASSUME ScheduleInv, IInv',
           \/ \E taken \in SUBSET Ids : RunDue(taken)
           \/ \E i \in Ids : Elapse(i)
    PROVE  ScheduleInv'
<1>1. ASSUME NEW taken \in SUBSET Ids, RunDue(taken)
      PROVE  ScheduleInv'
  BY <1>1 DEF RunDue, ScheduleInv, RetriesBounded, SeriesBeforeInterval, NeverOutOfReach
<1>2. ASSUME NEW i \in Ids, Elapse(i)
      PROVE  ScheduleInv'
  <2> DEFINE row == [ids[i] EXCEPT !.next = "due"]
  <2>1. ids' = [ids EXCEPT ![i] = row] /\ UNCHANGED <<latest, queue, work>>
    BY <1>2 DEF Elapse
  <2>2. row.next = "due" /\ row.done = ids[i].done /\ row.streak = ids[i].streak
    BY DEF ScheduleInv, IInv, TypeOK, TaxIdRow
  <2> HIDE DEF row
  <2>3. \A j \in Ids : ids'[j] = IF j = i THEN row ELSE ids[j]
    BY <2>1 DEF ScheduleInv, IInv, TypeOK
  <2>4. RetriesBounded' /\ SeriesBeforeInterval'
    BY <2>2, <2>3 DEF ScheduleInv, RetriesBounded, SeriesBeforeInterval
  <2>5. NeverOutOfReach'
    BY <2>1, <2>2, <2>3 DEF ScheduleInv, NeverOutOfReach
  <2>6. QED
    BY <2>1, <2>4, <2>5 DEF ScheduleInv
<1>3. QED
  BY <1>1, <1>2

LEMMA InitSchedule == Init => ScheduleInv
<1>1. SUFFICES ASSUME Init PROVE ScheduleInv
  OBVIOUS
<1>2. IInv
  BY <1>1, InitIInv
<1>3. \A i \in Ids : ids[i].next = "never" /\ ids[i].streak = 0
  BY <1>1 DEF Init, Absent
<1>4. \A s \in Sessions : work[s].cols = {} /\ work[s].row.streak = 0
  BY <1>1 DEF Init, Idle, Absent
<1>5. QED
  BY <1>2, <1>3, <1>4
  DEF ScheduleInv, RetriesBounded, SeriesBeforeInterval, NeverOutOfReach, Together

LEMMA NextSchedule ==
    ASSUME Verifiable, Rechecks
    PROVE  ScheduleInv /\ [Next]_vars => ScheduleInv'
<1>1. SUFFICES ASSUME ScheduleInv, [Next]_vars PROVE ScheduleInv'
  OBVIOUS
<1>2. IInv'
  BY <1>1, NextIInv DEF ScheduleInv
<1>3. CASE UNCHANGED vars
  BY <1>1, <1>2, <1>3
  DEF ScheduleInv, RetriesBounded, SeriesBeforeInterval, NeverOutOfReach, vars
<1>4. CASE Next
  <2>1. CASE \/ \E taken \in SUBSET Ids : RunDue(taken)
             \/ \E i \in Ids : Elapse(i)
    BY <1>1, <1>2, <2>1, SchedulerKeepsSchedule
  <2>2. CASE \E w \in Workers, i \in Ids : Take(w, i) \/ Skip(w, i)
    BY <1>1, <1>2, <2>2, TakeKeepsSchedule
  <2>3. CASE \E r \in Requests : Request(r)
    BY <1>1, <1>2, <2>3, RequestKeepsSchedule
  <2>4. CASE \E s \in Sessions : Record(s)
    BY <1>1, <1>2, <2>4, RecordKeepsSchedule
  <2>5. CASE \E s \in Sessions : Commit(s) \/ Fail(s) \/ (s \in Workers /\ Crash(s))
    BY <1>1, <1>2, <2>5, EndKeepsSchedule
  <2>6. QED
    BY <1>4, <2>1, <2>2, <2>3, <2>4, <2>5 DEF Next, Sessions
<1>5. QED
  BY <1>1, <1>3, <1>4

THEOREM ScheduleInvariance ==
    ASSUME Verifiable, Rechecks
    PROVE  Spec => []ScheduleInv
  BY InitSchedule, NextSchedule, PTL DEF Spec

\* A registry that does not answer is retried RETRY_HOURS times in a row and
\* no more, whatever requests and duplicate tasks are in flight.
THEOREM RetriesAreBounded ==
    ASSUME Verifiable, Rechecks
    PROVE  Spec => []RetriesBounded
<1>1. ScheduleInv => RetriesBounded
  BY DEF ScheduleInv
<1>2. QED
  BY <1>1, ScheduleInvariance, PTL

\* The interval takes over only from a complete series or after the retries.
THEOREM SeriesComesFirst ==
    ASSUME Verifiable, Rechecks
    PROVE  Spec => []SeriesBeforeInterval
<1>1. ScheduleInv => SeriesBeforeInterval
  BY DEF ScheduleInv
<1>2. QED
  BY <1>1, ScheduleInvariance, PTL

-----------------------------------------------------------------------------
(* One request at a time: an identifier in use keeps its next check.       *)

OneRequest == \E r : Requests = {r}

\* What an open session is going to write leaves nothing in use without a next
\* check: only a restart puts a row into use, and with a date; only the request
\* takes the date away, from a row it retires or has found retired.
KeepsDate(s, w) ==
    /\ "active" \in w.cols /\ w.row.active => "next" \in w.cols /\ w.row.next # "never"
    /\ w.id \in Covered \cap Ids /\ "next" \in w.cols /\ w.row.next = "never" =>
        /\ s \in Requests /\ ~w.row.active
        /\ "active" \in w.cols \/ ~ids[w.id].active

DateInv ==
    /\ IInv
    /\ \A i \in Covered \cap Ids : ids[i].active => ids[i].next # "never"
    /\ \A s \in Sessions : KeepsDate(s, work[s])

\* A session that opens or goes on.
LEMMA DateSessionStep ==
    ASSUME DateInv, IInv', NEW s \in Sessions, NEW w0,
           work' = [work EXCEPT ![s] = w0], UNCHANGED <<ids, latest, queue>>,
           KeepsDate(s, w0)
    PROVE  DateInv'
<1>1. \A t \in Sessions : work'[t] = IF t = s THEN w0 ELSE work[t]
  BY DEF DateInv, IInv, TypeOK
<1>2. ASSUME NEW t \in Sessions PROVE KeepsDate(t, work[t])'
  <2>1. KeepsDate(t, work'[t])
    BY <1>1 DEF DateInv
  <2>2. QED
    BY <2>1 DEF KeepsDate
<1>3. QED
  BY <1>2 DEF DateInv

LEMMA RequestKeepsDate ==
    ASSUME Verifiable, DateInv, IInv', NEW r \in Requests, Request(r)
    PROVE  DateInv'
<1>1. r \in Sessions /\ Edited \subseteq Ids /\ TypeOK
  BY SessionAssumption DEF Sessions, DateInv, IInv
<1>2. \A i \in Ids : ids[i] \in TaxIdRow
  BY DEF DateInv, IInv, TypeOK
<1>3. ASSUME NEW i \in Edited, CheckNow(r, i) \/ ConfirmManually(r, i)
      PROVE  DateInv'
  <2>1. PICK does \in {"check", "confirm"} :
            /\ work' = [work EXCEPT ![r] = Asking(does, i)]
            /\ UNCHANGED <<ids, latest, queue>>
    BY <1>3 DEF CheckNow, ConfirmManually
  <2> DEFINE w0 == Asking(does, i)
  <2>2. w0.cols = {}
    BY <1>1, OpenedSessions
  <2>3. work' = [work EXCEPT ![r] = w0]
    BY <2>1
  <2> HIDE DEF w0
  <2>4. KeepsDate(r, w0)
    BY <2>2 DEF KeepsDate
  <2>5. QED
    BY <1>1, <2>1, <2>3, <2>4, DateSessionStep
<1>4. ASSUME NEW i \in Edited, AddTaxId(r, i)
      PROVE  DateInv'
  <2> DEFINE w0 == [Idle EXCEPT !.pc = "writing", !.does = "add", !.new = i]
  <2>1. /\ w0.cols = {} /\ work' = [work EXCEPT ![r] = w0]
        /\ UNCHANGED <<ids, latest, queue>>
    BY <1>4 DEF AddTaxId, Idle
  <2> HIDE DEF w0
  <2>2. KeepsDate(r, w0)
    BY <2>1 DEF KeepsDate
  <2>3. QED
    BY <1>1, <2>1, <2>2, DateSessionStep
<1>5. ASSUME NEW i \in Edited, Retire(r, i)
      PROVE  DateInv'
  <2> DEFINE row == [ids[i] EXCEPT !.active = FALSE, !.next = "never"]
             w0 == Writing("retire", i, row, {})
  <2>1. row \in TaxIdRow /\ ~row.active /\ ids[i].active \in BOOLEAN
    BY <1>1, <1>2 DEF TaxIdRow, Nexts
  <2>2. UNCHANGED <<ids, latest, queue>> /\ work' = [work EXCEPT ![r] = w0]
    BY <1>5 DEF Retire
  <2> HIDE DEF row
  <2>3. w0.id = i /\ w0.row = row /\ w0.cols = Written(ids[i], row, {})
    BY <1>1, <2>1, OpenedSessions
  <2> HIDE DEF w0
  <2>4. "active" \in w0.cols \/ ~ids[w0.id].active
    BY <2>1, <2>3 DEF Written, Columns
  <2>5. KeepsDate(r, w0)
    BY <2>1, <2>3, <2>4 DEF KeepsDate
  <2>6. QED
    BY <1>1, <2>2, <2>5, DateSessionStep
<1>6. ASSUME NEW i \in Edited, Restart(r, i)
      PROVE  DateInv'
  <2> DEFINE used == [ids[i] EXCEPT !.active = TRUE]
             row == Restarted(used)
             w0 == Writing("restart", i, row, {"next"})
  <2>1. used \in TaxIdRow
    BY <1>1, <1>2 DEF TaxIdRow
  <2>2. UNCHANGED <<ids, latest, queue>> /\ work' = [work EXCEPT ![r] = w0]
    BY <1>6 DEF Restart
  <2> HIDE DEF used
  <2>3. row.next = "series"
    BY <2>1 DEF Restarted, TaxIdRow
  <2>4. row \in TaxIdRow
    BY <2>1, RestartedIsRow
  <2> HIDE DEF row
  <2>5. w0.row = row /\ w0.cols = Written(ids[i], row, {"next"})
    BY <1>1, <2>4, OpenedSessions DEF Columns
  <2> HIDE DEF w0
  <2>6. KeepsDate(r, w0)
    BY <2>3, <2>5 DEF KeepsDate, Written
  <2>7. QED
    BY <1>1, <2>2, <2>6, DateSessionStep
<1>7. ASSUME NEW i \in Edited, Acknowledge(r, i)
      PROVE  DateInv'
  <2> DEFINE row == [ids[i] EXCEPT !.attention = FALSE]
             w0 == Writing("acknowledge", i, row, {})
  <2>1. row \in TaxIdRow /\ row.next = ids[i].next /\ row.active = ids[i].active
    BY <1>1, <1>2 DEF TaxIdRow
  <2>2. UNCHANGED <<ids, latest, queue>> /\ work' = [work EXCEPT ![r] = w0]
    BY <1>7 DEF Acknowledge
  <2> HIDE DEF row
  <2>3. w0.row = row /\ w0.cols = Written(ids[i], row, {})
    BY <1>1, <2>1, OpenedSessions
  <2> HIDE DEF w0
  <2>4. KeepsDate(r, w0)
    BY <2>1, <2>3 DEF KeepsDate, Written
  <2>5. QED
    BY <1>1, <2>2, <2>4, DateSessionStep
<1>8. ASSUME NEW i \in Edited, NEW j \in Ids, Supersede(r, i, j)
      PROVE  DateInv'
  <2> DEFINE row == [ids[i] EXCEPT !.active = FALSE]
             w1 == Writing("supersede", i, row, {})
             w0 == [w1 EXCEPT !.new = j]
  <2>1. row \in TaxIdRow /\ row.next = ids[i].next /\ ~row.active
    BY <1>1, <1>2 DEF TaxIdRow
  <2>2. UNCHANGED <<ids, latest, queue>> /\ work' = [work EXCEPT ![r] = w0]
    BY <1>8 DEF Supersede
  <2> HIDE DEF row
  <2>3. w1 \in Session /\ w1.row = row /\ w1.cols = Written(ids[i], row, {})
    BY <1>1, <2>1, OpenedSessions
  <2> HIDE DEF w1
  <2>4. w0.row = row /\ w0.cols = Written(ids[i], row, {})
    BY <2>3 DEF Session
  <2> HIDE DEF w0
  <2>5. KeepsDate(r, w0)
    BY <2>1, <2>4 DEF KeepsDate, Written
  <2>6. QED
    BY <1>1, <2>2, <2>5, DateSessionStep
<1>9. QED
  BY <1>3, <1>4, <1>5, <1>6, <1>7, <1>8 DEF Request

\* An answer about a covered row always comes with a next date, and recording
\* one never touches is_active.
LEMMA RecordKeepsDate ==
    ASSUME Rechecks, DateInv, IInv', NEW s \in Sessions, Record(s)
    PROVE  DateInv'
<1>1. work[s] \in Session /\ work[s].row \in TaxIdRow
  BY DEF DateInv, IInv, TypeOK, Session
<1>2. PICK a \in Answer :
        /\ work' = [work EXCEPT ![s] = Recorded(s, a)]
        /\ UNCHANGED <<ids, latest, queue>>
        /\ a.status = "not_checkable" => work[s].id \notin Covered
  BY BlanksAreTyped, AnswerAssumption DEF Record, AnswersAbout, Confirmation, NoRegister
<1> DEFINE w0 == Recorded(s, a)
<1>3. /\ w0.id = work[s].id
      /\ w0.cols = Written(work[s].row, w0.row, MovedBy(a))
      /\ w0.row.active = work[s].row.active
      /\ w0.row.next = Advanced(work[s].row, a).next
  BY <1>1, RecordedSession
<1>4. work' = [work EXCEPT ![s] = w0]
  BY <1>2
<1> HIDE DEF w0
<1>5. "active" \notin w0.cols
  BY <1>3 DEF Written, MovedBy
<1>6. ASSUME a.status # "not_checkable"
      PROVE  w0.row.next \in {"retry", "series", "regular"}
  BY <1>1, <1>3, <1>6 DEF Advanced, AfterFailure, AfterAnswer, TaxIdRow, RegularNext
<1>7. KeepsDate(s, w0)
  BY <1>2, <1>3, <1>5, <1>6 DEF KeepsDate
<1>8. QED
  BY <1>2, <1>4, <1>7, DateSessionStep

\* Whatever row a session finds when it commits.
LEMMA CommittedDate ==
    ASSUME Verifiable, DateInv, NEW s \in Sessions, Commit(s), NEW i \in Covered \cap Ids,
           ids'[i].active
    PROVE  ids'[i].next # "never"
<1>1. /\ IInv /\ KeepsDate(s, work[s]) /\ work[s].row \in TaxIdRow /\ ids[i] \in TaxIdRow
      /\ ids[i].active => ids[i].next # "never"
  BY DEF DateInv, IInv, TypeOK, Session
<1>2. CASE i = work[s].new
  <2> DEFINE fresh == [Absent EXCEPT !.exists = TRUE, !.active = TRUE]
  <2>1. fresh \in TaxIdRow
    BY BlanksAreTyped DEF TaxIdRow
  <2>2. ids'[i] = Restarted(fresh)
    BY <1>2 DEF Commit, CommittedRow
  <2> HIDE DEF fresh
  <2>3. QED
    BY <2>1, <2>2 DEF Restarted, TaxIdRow
<1>3. CASE i # work[s].new /\ i = work[s].id
  <2>1. ids'[i] = Updated(ids[i], s)
    BY <1>1, <1>3, CommittedRows
  <2>2. ids'[i].next = IF "next" \in work[s].cols THEN work[s].row.next ELSE ids[i].next
    BY <2>1 DEF Updated
  <2>3. IF "active" \in work[s].cols THEN work[s].row.active ELSE ids[i].active
    BY <2>1 DEF Updated
  <2>4. QED
    BY <1>1, <1>3, <2>2, <2>3 DEF KeepsDate
<1>4. CASE i # work[s].new /\ i # work[s].id
  BY <1>1, <1>4, CommittedRows
<1>5. QED
  BY <1>2, <1>3, <1>4

\* A worker's check puts no row into use.
LEMMA WorkersActivateNothing ==
    ASSUME IInv, NEW s \in Workers, Commit(s), NEW i \in Ids, ids'[i].active
    PROVE  ids[i].active
<1>1. /\ s \in Sessions /\ work[s].pc = "writing" /\ work[s].new = None
      /\ work[s].does = "check"
      /\ ~("active" \in work[s].cols /\ work[s].row.active)
  BY DEF Sessions, Commit, IInv, Shape, Authorised
<1>2. i # work[s].new
  BY <1>1, NoneAssumption
<1>3. CASE i = work[s].id
  <2>1. ids'[i] = Updated(ids[i], s)
    BY <1>1, <1>2, <1>3, CommittedRows
  <2>2. IF "active" \in work[s].cols THEN work[s].row.active ELSE ids[i].active
    BY <2>1 DEF Updated
  <2>3. QED
    BY <1>1, <2>2
<1>4. CASE i # work[s].id
  BY <1>1, <1>2, <1>4, CommittedRows
<1>5. QED
  BY <1>3, <1>4

LEMMA EndKeepsDate ==
    ASSUME OneRequest, Verifiable, DateInv, IInv', NEW s \in Sessions,
           Commit(s) \/ Fail(s) \/ (s \in Workers /\ Crash(s))
    PROVE  DateInv'
<1>1. PICK b \in BOOLEAN : work' = Closed(s, b)
  <2>1. (work[s].answer # None /\ work[s].answer.status \in Completed) \in BOOLEAN
    OBVIOUS
  <2>2. QED
    BY <2>1 DEF Commit, Fail, Crash
<1>2. \A t \in Sessions :
        IF t = s THEN work'[t] = Idle
        ELSE /\ work'[t].id = work[t].id
             /\ work'[t].row = work[t].row /\ work'[t].cols = work[t].cols
  BY <1>1, ClosedSessions DEF DateInv
<1>3. ASSUME NEW i \in Covered \cap Ids, ids'[i].active
      PROVE  ids'[i].next # "never"
  <2>1. CASE Commit(s)
    BY <1>3, <2>1, CommittedDate
  <2>2. CASE ids' = ids
    BY <1>3, <2>2 DEF DateInv
  <2>3. QED
    BY <2>1, <2>2 DEF Fail, Crash
<1>4. ASSUME NEW t \in Sessions
      PROVE  KeepsDate(t, work[t])'
  <2>1. CASE t = s
    BY <1>2, <2>1 DEF KeepsDate, Idle
  <2>2. CASE t # s
    <3>1. KeepsDate(t, work[t])
      BY DEF DateInv
    <3>2. ASSUME t \in Requests, NEW i \in Ids, ids'[i].active
          PROVE  ids[i].active
      <4>1. s \in Workers
        BY <2>2, <3>2 DEF OneRequest, Sessions
      <4>2. CASE Commit(s)
        BY <3>2, <4>1, <4>2, WorkersActivateNothing DEF DateInv
      <4>3. CASE ids' = ids
        BY <3>2, <4>3
      <4>4. QED
        BY <4>2, <4>3 DEF Fail, Crash
    <3>3. QED
      BY <1>2, <2>2, <3>1, <3>2 DEF KeepsDate
  <2>3. QED
    BY <2>1, <2>2
<1>5. QED
  BY <1>3, <1>4 DEF DateInv

\* Dispatching, taking a message, skipping one, and the passing of time.
LEMMA SchedulerKeepsDate ==
    ASSUME DateInv, IInv',
           \/ \E taken \in SUBSET Ids : RunDue(taken)
           \/ \E i \in Ids : Elapse(i)
           \/ \E w \in Workers, i \in Ids : Take(w, i) \/ Skip(w, i)
    PROVE  DateInv'
<1>1. CASE UNCHANGED <<ids, work>>
  BY <1>1 DEF DateInv, KeepsDate
<1>2. ASSUME NEW i \in Ids, Elapse(i)
      PROVE  DateInv'
  <2> DEFINE row == [ids[i] EXCEPT !.next = "due"]
  <2>1. ids' = [ids EXCEPT ![i] = row] /\ UNCHANGED work
    BY <1>2 DEF Elapse
  <2>2. row.next = "due" /\ row.active = ids[i].active
    BY DEF DateInv, IInv, TypeOK, TaxIdRow
  <2> HIDE DEF row
  <2>3. \A j \in Ids : ids'[j] = IF j = i THEN row ELSE ids[j]
    BY <2>1 DEF DateInv, IInv, TypeOK
  <2>4. QED
    BY <2>1, <2>2, <2>3 DEF DateInv, KeepsDate
<1>3. ASSUME NEW w \in Workers, NEW i \in Ids, Take(w, i)
      PROVE  DateInv'
  <2> DEFINE w0 == Asking("check", i)
  <2>1. work' = [work EXCEPT ![w] = w0] /\ UNCHANGED <<ids, latest, queue>>
    BY <1>3 DEF Take
  <2>2. w0.cols = {} /\ w \in Sessions
    BY OpenedSessions DEF DateInv, IInv, Sessions
  <2> HIDE DEF w0
  <2>3. KeepsDate(w, w0)
    BY <2>2 DEF KeepsDate
  <2>4. QED
    BY <2>1, <2>2, <2>3, DateSessionStep
<1>4. QED
  BY <1>1, <1>2, <1>3 DEF RunDue, Skip

LEMMA InitDate == Init => DateInv
<1>1. SUFFICES ASSUME Init PROVE DateInv
  OBVIOUS
<1>2. IInv
  BY <1>1, InitIInv
<1>3. \A i \in Ids : ids[i].active = FALSE
  BY <1>1 DEF Init, Absent
<1>4. \A s \in Sessions : work[s].cols = {}
  BY <1>1 DEF Init, Idle
<1>5. QED
  BY <1>2, <1>3, <1>4 DEF DateInv, KeepsDate

LEMMA NextDate ==
    ASSUME OneRequest, Verifiable, Rechecks
    PROVE  DateInv /\ [Next]_vars => DateInv'
<1>1. SUFFICES ASSUME DateInv, [Next]_vars PROVE DateInv'
  OBVIOUS
<1>2. IInv'
  BY <1>1, NextIInv DEF DateInv
<1>3. CASE UNCHANGED vars
  BY <1>1, <1>2, <1>3 DEF DateInv, KeepsDate, vars
<1>4. CASE Next
  <2>1. CASE \/ \E taken \in SUBSET Ids : RunDue(taken)
             \/ \E i \in Ids : Elapse(i)
             \/ \E w \in Workers, i \in Ids : Take(w, i) \/ Skip(w, i)
    BY <1>1, <1>2, <2>1, SchedulerKeepsDate
  <2>2. CASE \E r \in Requests : Request(r)
    BY <1>1, <1>2, <2>2, RequestKeepsDate
  <2>3. CASE \E s \in Sessions : Record(s)
    BY <1>1, <1>2, <2>3, RecordKeepsDate
  <2>4. CASE \E s \in Sessions : Commit(s) \/ Fail(s) \/ (s \in Workers /\ Crash(s))
    BY <1>1, <1>2, <2>4, EndKeepsDate
  <2>5. QED
    BY <1>4, <2>1, <2>2, <2>3, <2>4 DEF Next, Sessions
<1>5. QED
  BY <1>1, <1>3, <1>4

\* With one request at a time and any number of workers, an identifier in use
\* always has a next check: no order of answers, crashes, duplicate tasks,
\* retirements and restarts drops it out of the schedule.
THEOREM InUseIsScheduled ==
    ASSUME OneRequest, Verifiable, Rechecks
    PROVE  Spec => []ScheduledWhileActive
<1>1. DateInv => ScheduledWhileActive
  BY DEF DateInv, ScheduledWhileActive
<1>2. DateInv /\ [Next]_vars => DateInv'
  BY NextDate
<1>3. QED
  BY <1>1, <1>2, InitDate, PTL DEF Spec
=============================================================================
