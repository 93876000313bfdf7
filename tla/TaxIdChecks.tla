---------------------------- MODULE TaxIdChecks ----------------------------
(***************************************************************************)
(* The checks of one party's tax identifiers of one kind: the hourly       *)
(* scheduler and its Celery tasks, the requests that add, replace, retire, *)
(* restart, check, confirm and acknowledge, and the schedule they share.   *)
(*                                                                         *)
(* No task and no request locks the row of an identifier.  A session reads *)
(* it, may wait seconds for a registry, and writes back the columns it     *)
(* changed; whatever committed in between is underneath.  Time is what     *)
(* next_check_at is good for: a scheduled row may come due at any moment.  *)
(***************************************************************************)
EXTENDS Naturals, FiniteSets

CONSTANTS
    Ids,            \* the identifier rows this party may come to have
    Workers,        \* processes of the "maintenance" queue
    Requests,       \* requests the router serves at the same time
    Verifiable,     \* does schedule_initial consider this kind checkable?
    Covered,        \* the rows whose country a provider answers about
    Rechecks,       \* is there a re-check interval (company or party)?
    SeriesLength,   \* the length of policy.initial_check_offsets
    Retries,        \* the length of RETRY_HOURS
    Answers,        \* what the provider may come back with
    Names,          \* the names registers have on file, "" among them
    MaxQueue,       \* bound: messages of one identifier at a time
    Edited,         \* bound: the rows requests work on (others may replace them)
    None

Statuses == {"valid", "invalid", "unavailable", "not_configured", "not_checkable"}
Completed == {"valid", "invalid", "not_checkable"}
Registrations == {"registration_active", "gst_registered"}
Matches == {"match", "partial", "mismatch", "unknown"}
Answer == [status: Statuses, name: Names, match: Matches \cup {None},
           held: SUBSET Registrations, ended: SUBSET Registrations]

ASSUME NoneAssumption ==
    /\ None \notin Ids
    /\ None \notin Answer
ASSUME PolicyAssumption ==
    /\ Verifiable \in BOOLEAN /\ Rechecks \in BOOLEAN
    /\ SeriesLength \in Nat \ {0} /\ Retries \in Nat \ {0} /\ MaxQueue \in Nat \ {0}
ASSUME SessionAssumption ==
    /\ IsFiniteSet(Workers) /\ Workers \cap Requests = {}
    /\ Edited \subseteq Ids
ASSUME AnswerAssumption ==
    /\ "" \in Names
    /\ Answers \subseteq Answer
    /\ \A a \in Answers : a.status # "not_checkable"

VARIABLES
    ids,      \* ids[i]: the committed row of identifier i
    latest,   \* latest[i]: the completed check of i with the newest checked_at
    queue,    \* queue[i]: messages check_one(i) that are not acknowledged
    work      \* work[s]: the open session of a worker or request

vars == <<ids, latest, queue, work>>

Sessions == Workers \cup Requests

-----------------------------------------------------------------------------
(* The row.  next stands for next_check_at: NULL, due, or a future moment  *)
(* put there by the initial series, a retry or the interval.  done and     *)
(* streak stop counting one beyond the last value a decision looks at.     *)

Nexts == {"never", "series", "retry", "regular", "due"}

TaxIdRow == [exists: BOOLEAN, active: BOOLEAN, next: Nexts,
             done: 0..(SeriesLength + 1), streak: 0..(Retries + 1), attention: BOOLEAN]

Columns == {"exists", "active", "next", "done", "streak", "attention"}

Absent == [exists |-> FALSE, active |-> FALSE, next |-> "never",
           done |-> 0, streak |-> 0, attention |-> FALSE]

AtMost(n, limit) == IF n < limit THEN n ELSE limit

RegularNext == IF Rechecks THEN "regular" ELSE "never"

\* Mutant: a restart resets the counters and forgets next_check_at.
Restarted_CountersOnly(row) == [row EXCEPT !.done = 0, !.streak = 0]

\* schedule_initial
Restarted(row) ==
    [row EXCEPT !.done = 0, !.streak = 0,
                !.next = IF Verifiable THEN "series" ELSE "never"]

\* Mutant: the retries never run out.
AfterFailure_AlwaysRetries(row) ==
    [row EXCEPT !.streak = AtMost(row.streak + 1, Retries + 1), !.next = "retry"]

\* Mutant: a failure is counted and nothing is scheduled.
AfterFailure_CountsOnly(row) ==
    [row EXCEPT !.streak = AtMost(row.streak + 1, Retries + 1)]

\* Mutant: the last check of the initial series is left out.
AfterAnswer_SeriesShort(row) ==
    [row EXCEPT !.streak = 0, !.done = AtMost(row.done + 1, SeriesLength + 1),
                !.next = IF row.done + 2 < SeriesLength THEN "series" ELSE RegularNext]

\* _advance_schedule, in its three parts: no answer, nothing to ask, an answer
AfterFailure(row) ==
    [row EXCEPT !.streak = AtMost(row.streak + 1, Retries + 1),
                !.next = IF row.streak + 1 <= Retries THEN "retry" ELSE RegularNext]

AfterNotCheckable(row) ==
    [row EXCEPT !.streak = 0, !.done = SeriesLength, !.next = "never"]

AfterAnswer(row) ==
    [row EXCEPT !.streak = 0, !.done = AtMost(row.done + 1, SeriesLength + 1),
                !.next = IF row.done + 1 < SeriesLength THEN "series" ELSE RegularNext]

Advanced(row, a) ==
    IF a.status \notin Completed THEN AfterFailure(row)
    ELSE IF a.status = "not_checkable" THEN AfterNotCheckable(row)
    ELSE AfterAnswer(row)

\* detect_changes, as the set of things that changed for the worse or at all
Changes(before, after) ==
    IF before = None \/ after.status \notin Completed THEN {}
    ELSE {c \in {"status", "name", "name_match", "registration"} :
            \/ c = "status" /\ before.status # after.status
            \/ c = "name" /\ before.name # "" /\ after.name # "" /\ before.name # after.name
            \/ c = "name_match" /\ after.match = "mismatch" /\ before.match \notin {None, "mismatch"}
            \/ c = "registration" /\ before.held \cap after.ended # {}}

\* Mutant: an UPDATE writes the whole row back as it was loaded and changed.
Written_WholeRow(seen, now, moved) == Columns

\* The columns an UPDATE names: those whose value changed.  Two moments are
\* never equal and a counter that moved is written, so those are named even
\* where the abstraction gives old and new one value.
Written(seen, now, moved) ==
    {c \in Columns : seen[c] # now[c]}
        \cup {c \in moved : c # "next" \/ now.next # "never"}

MovedBy(a) ==
    IF a.status \notin Completed THEN {"next", "streak"}
    ELSE IF a.status = "not_checkable" THEN {}
    ELSE {"next", "done"}

-----------------------------------------------------------------------------
(* Sessions.  checked_at is the start of the transaction, so a check that  *)
(* commits after one that started later is not the latest: such a session  *)
(* is overtaken.  before holds the checks in flight when this one started. *)

Session == [pc: {"idle", "asking", "writing"},
            does: {"nothing", "check", "confirm", "add", "supersede",
                   "retire", "restart", "acknowledge"},
            id: Ids \cup {None}, new: Ids \cup {None},
            row: TaxIdRow, cols: SUBSET Columns,
            answer: Answer \cup {None}, overtaken: BOOLEAN, before: SUBSET Sessions]

Idle == [pc |-> "idle", does |-> "nothing", id |-> None, new |-> None,
         row |-> Absent, cols |-> {}, answer |-> None,
         overtaken |-> FALSE, before |-> {}]

Confirmation ==
    [status |-> "valid", name |-> "", match |-> None, held |-> {}, ended |-> {}]

NoRegister ==
    [status |-> "not_checkable", name |-> "", match |-> None, held |-> {}, ended |-> {}]

AnswersAbout(i) == IF i \in Covered THEN Answers ELSE {NoRegister}

InFlight(i) == {s \in Sessions : work[s].id = i /\ work[s].does \in {"check", "confirm"}}

\* a session that has read row i and will record a check of it
Asking(does, i) ==
    [Idle EXCEPT !.pc = "asking", !.does = does, !.id = i,
                 !.row = ids[i], !.before = InFlight(i)]

\* a session that has read row i, changed it to row and will commit
Writing(does, i, row, moved) ==
    [Idle EXCEPT !.pc = "writing", !.does = does, !.id = i,
                 !.row = row, !.cols = Written(ids[i], row, moved)]

\* messages of i that no worker has taken
Waiting(i) == queue[i] - Cardinality({w \in Workers : work[w].id = i})

-----------------------------------------------------------------------------
(* The scheduler and its tasks.                                            *)

Due == {i \in Ids : ids[i].next = "due" /\ ids[i].active}

\* run_due: select due rows, stepping over locked ones, commit, dispatch.
\* Nothing in the rows says that they were dispatched.
RunDue(taken) ==
    /\ taken # {} /\ taken \subseteq Due
    /\ \A i \in taken : queue[i] < MaxQueue
    /\ queue' = [i \in Ids |-> IF i \in taken THEN queue[i] + 1 ELSE queue[i]]
    /\ UNCHANGED <<ids, latest, work>>

\* check_one, up to the registry: an active identifier is loaded ...
Take(w, i) ==
    /\ work[w].pc = "idle" /\ Waiting(i) > 0
    /\ ids[i].active
    /\ work' = [work EXCEPT ![w] = Asking("check", i)]
    /\ UNCHANGED <<ids, latest, queue>>

\* ... a retired one is skipped and its message acknowledged.
Skip(w, i) ==
    /\ work[w].pc = "idle" /\ Waiting(i) > 0
    /\ ~ids[i].active
    /\ queue' = [queue EXCEPT ![i] = @ - 1]
    /\ UNCHANGED <<ids, latest, work>>

\* Mutant: a check that finds no change takes the flag down.
Recorded_ClearsFlag(s, a) ==
    LET seen == work[s].row
        next == Advanced(seen, a)
        flag == Changes(latest[work[s].id], a) # {}
        now  == [next EXCEPT !.attention = flag]
    IN  [work[s] EXCEPT !.pc = "writing", !.row = now, !.answer = a,
                        !.cols = Written(seen, now, MovedBy(a))]

\* record_check: the answer is here; compare it with the latest committed
\* check, advance the schedule of the row as it was loaded, raise the flag.
Recorded(s, a) ==
    LET seen == work[s].row
        next == Advanced(seen, a)
        flag == Changes(latest[work[s].id], a) # {}
        now  == [next EXCEPT !.attention = seen.attention \/ flag]
    IN  [work[s] EXCEPT !.pc = "writing", !.row = now, !.answer = a,
                        !.cols = Written(seen, now, MovedBy(a))]

Record(s) ==
    /\ work[s].pc = "asking"
    /\ \E a \in IF work[s].does = "confirm" THEN {Confirmation}
                ELSE AnswersAbout(work[s].id) :
         work' = [work EXCEPT ![s] = Recorded(s, a)]
    /\ UNCHANGED <<ids, latest, queue>>

-----------------------------------------------------------------------------
(* The router.  An identifier outlives its use: a row is never deleted.    *)

CheckNow(r, i) ==
    /\ work[r].pc = "idle" /\ ids[i].exists
    /\ work' = [work EXCEPT ![r] = Asking("check", i)]
    /\ UNCHANGED <<ids, latest, queue>>

ConfirmManually(r, i) ==
    /\ work[r].pc = "idle" /\ ids[i].exists
    /\ work' = [work EXCEPT ![r] = Asking("confirm", i)]
    /\ UNCHANGED <<ids, latest, queue>>

\* create_tax_id with a number this party does not have
AddTaxId(r, i) ==
    /\ work[r].pc = "idle" /\ ~ids[i].exists
    /\ work' = [work EXCEPT ![r] = [Idle EXCEPT !.pc = "writing", !.does = "add", !.new = i]]
    /\ UNCHANGED <<ids, latest, queue>>

\* update_tax_id with another value: retire the row, add its replacement.
\* A value the party already has (a change of country alone keeps the value)
\* violates the unique index and changes nothing.
Supersede(r, i, j) ==
    /\ work[r].pc = "idle" /\ ids[i].exists /\ ~ids[j].exists
    /\ work' = [work EXCEPT ![r] =
                  [Writing("supersede", i, [ids[i] EXCEPT !.active = FALSE], {}) EXCEPT !.new = j]]
    /\ UNCHANGED <<ids, latest, queue>>

Retire(r, i) ==
    /\ work[r].pc = "idle" /\ ids[i].exists
    /\ work' = [work EXCEPT ![r] =
                  Writing("retire", i, [ids[i] EXCEPT !.active = FALSE, !.next = "never"], {})]
    /\ UNCHANGED <<ids, latest, queue>>

\* reactivate_tax_id, and create_tax_id with a number that was retired
Restart(r, i) ==
    /\ work[r].pc = "idle" /\ ids[i].exists
    /\ work' = [work EXCEPT ![r] =
                  Writing("restart", i, Restarted([ids[i] EXCEPT !.active = TRUE]), {"next"})]
    /\ UNCHANGED <<ids, latest, queue>>

\* acknowledge_change; without a flag it writes nothing and is left out
Acknowledge(r, i) ==
    /\ work[r].pc = "idle" /\ ids[i].attention
    /\ work' = [work EXCEPT ![r] =
                  Writing("acknowledge", i, [ids[i] EXCEPT !.attention = FALSE], {})]
    /\ UNCHANGED <<ids, latest, queue>>

-----------------------------------------------------------------------------
(* The end of a session.                                                   *)

\* UPDATE of the named columns over whatever is committed by now
Updated(row, s) ==
    LET Now(c) == IF c \in work[s].cols THEN work[s].row[c] ELSE row[c]
    IN  [exists |-> Now("exists"), active |-> Now("active"), next |-> Now("next"),
         done |-> Now("done"), streak |-> Now("streak"), attention |-> Now("attention")]

CommittedRow(i, s) ==
    IF i = work[s].new
    THEN Restarted([Absent EXCEPT !.exists = TRUE, !.active = TRUE])
    ELSE IF i = work[s].id THEN Updated(ids[i], s) ELSE ids[i]

\* the check is an answer and no check that started later has answered
BecomesLatest(s) ==
    /\ work[s].answer # None /\ work[s].answer.status \in Completed
    /\ ~work[s].overtaken

\* a task's message is acknowledged when the task ends, however it ends
Acked(s) ==
    IF s \in Workers THEN [queue EXCEPT ![work[s].id] = @ - 1] ELSE queue

Closed(s, overtaking) ==
    [t \in Sessions |->
        IF t = s THEN Idle
        ELSE [work[t] EXCEPT !.before = @ \ {s},
                             !.overtaken = @ \/ (overtaking /\ t \in work[s].before)]]

Commit(s) ==
    /\ work[s].pc = "writing"
    /\ work[s].new # None => ~ids[work[s].new].exists
    /\ ids' = [i \in Ids |-> CommittedRow(i, s)]
    /\ latest' = [i \in Ids |-> IF i = work[s].id /\ BecomesLatest(s)
                                THEN work[s].answer ELSE latest[i]]
    /\ queue' = Acked(s)
    /\ work' = Closed(s, work[s].answer # None /\ work[s].answer.status \in Completed)

\* an exception: rollback, and the task is acknowledged as failed
Fail(s) ==
    /\ work[s].pc # "idle"
    /\ queue' = Acked(s)
    /\ work' = Closed(s, FALSE)
    /\ UNCHANGED <<ids, latest>>

\* the worker process is lost: rollback, and the message is delivered again
Crash(w) ==
    /\ work[w].pc # "idle"
    /\ work' = Closed(w, FALSE)
    /\ UNCHANGED <<ids, latest, queue>>

\* next_check_at passes
Elapse(i) ==
    /\ ids[i].next \in {"series", "retry", "regular"}
    /\ ids' = [ids EXCEPT ![i].next = "due"]
    /\ UNCHANGED <<latest, queue, work>>

-----------------------------------------------------------------------------
Init ==
    /\ ids = [i \in Ids |-> Absent]
    /\ latest = [i \in Ids |-> None]
    /\ queue = [i \in Ids |-> 0]
    /\ work = [s \in Sessions |-> Idle]

Request(r) ==
    \/ \E i \in Edited :
        \/ CheckNow(r, i)
        \/ ConfirmManually(r, i)
        \/ AddTaxId(r, i)
        \/ Retire(r, i)
        \/ Restart(r, i)
        \/ Acknowledge(r, i)
    \/ \E i \in Edited, j \in Ids : Supersede(r, i, j)

Next ==
    \/ \E taken \in SUBSET Ids : RunDue(taken)
    \/ \E w \in Workers, i \in Ids : Take(w, i)
    \/ \E w \in Workers, i \in Ids : Skip(w, i)
    \/ \E w \in Workers : Crash(w)
    \/ \E r \in Requests : Request(r)
    \/ \E s \in Sessions : Record(s)
    \/ \E s \in Sessions : Commit(s)
    \/ \E s \in Sessions : Fail(s)
    \/ \E i \in Ids : Elapse(i)

\* Beat runs hourly and locks last a commit, so a row that stays due is
\* selected; the queue is first in, first out, so a waiting message is taken.
\* Registries time out after eight seconds; and of the attempts at one
\* identifier not every one dies or raises.
Fairness ==
    /\ \A i \in Ids : WF_vars(\E taken \in SUBSET Ids : i \in taken /\ RunDue(taken))
    /\ \A w \in Workers, i \in Ids :
        /\ SF_vars(Take(w, i) \/ Skip(w, i))
        /\ SF_vars(work[w].id = i /\ Record(w))
        /\ SF_vars(work[w].id = i /\ Commit(w))

Spec == Init /\ [][Next]_vars
FairSpec == Spec /\ Fairness

-----------------------------------------------------------------------------
(* Properties.                                                             *)

\* Every variable has its type.
TypeOK ==
    /\ ids \in [Ids -> TaxIdRow]
    /\ latest \in [Ids -> Answer \cup {None}]
    /\ queue \in [Ids -> 0..MaxQueue]
    /\ work \in [Sessions -> Session]

\* Where there is a register and an interval, an identifier in use always has
\* a next check: no order of answers, failures, retirements and restarts drops
\* it out of the schedule (reactivate_tax_id: "Use it again, and check it again").
ScheduledWhileActive ==
    Verifiable /\ Rechecks =>
        \A i \in Covered \cap Ids : ids[i].active => ids[i].next # "never"

\* A registry that does not answer is retried at most RETRY_HOURS times in a
\* row: a near retry is pending only while the streak allows one.
RetriesBounded ==
    \A i \in Ids : ids[i].next = "retry" => ids[i].streak \in 0..Retries

\* The interval takes over from the initial series only when the series is
\* complete or the registry was out of reach for all the retries.
SeriesBeforeInterval ==
    \A i \in Ids : ids[i].next = "regular" =>
        ids[i].done >= SeriesLength \/ ids[i].streak > Retries

Ends(s, does, i) ==
    work[s].does = does /\ work[s].id = i /\ work[s].pc = "writing" /\ work'[s].pc = "idle"

\* A retired identifier is used again only because a person asked: no check
\* that was in flight when it was retired brings it back.
RetiredStaysRetired ==
    [][\A i \in Ids : ids[i].exists /\ ~ids[i].active /\ ids'[i].active =>
          \E r \in Requests : Ends(r, "restart", i)]_vars

\* The attention flag goes down only by an acknowledgement, never by a later
\* check or an edit (models/party.py: "Cleared only by an explicit
\* acknowledgement").
FlagClearedOnlyByAcknowledge ==
    [][\A i \in Ids : ids[i].attention /\ ~ids'[i].attention =>
          \E r \in Requests : Ends(r, "acknowledge", i)]_vars

\* A due identifier in use is checked, whatever tasks fail, die or are
\* delivered twice on the way.
DueIsChecked ==
    \A i \in Ids : (i \in Due) ~> (i \notin Due)

\* "A kind with no provider is not scheduled at all" (models/party.py).
UnverifiableNeverScheduled ==
    ~Verifiable => \A i \in Ids : ids[i].next = "never"
=============================================================================
