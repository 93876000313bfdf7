-------------------------------- MODULE Overlaps --------------------------------
(***************************************************************************)
(* What the request handlers have in common.  A request loads rows, looks  *)
(* at them, and commits; no row is locked, so another request may commit   *)
(* in between.  The commit names only the columns that differ from what    *)
(* was loaded.  A refused request changes nothing and is not a step.       *)
(***************************************************************************)
EXTENDS Naturals, FiniteSets

CONSTANTS
    Requests,     \* requests under way, one at most each (reusable)
    MaxEdits,     \* bound: requests that begin
    MaxOverlaps,  \* bound: requests that begin while another is under way
    None          \* SQL NULL, and a row that is not there

ASSUME OverlapsAssumption == MaxEdits \in Nat /\ MaxOverlaps \in Nat

VARIABLES
    edits,     \* how many requests have begun
    overlaps   \* how many of them while another was under way

\* One request at a time so far.
Calm == overlaps = 0

\* Request r begins; `work` is where its component keeps its requests.
Begins(work, r) ==
    /\ work[r].pc = "idle"
    /\ edits < MaxEdits /\ edits' = edits + 1
    /\ overlaps' = IF \A q \in Requests : work[q].pc = "idle" THEN overlaps ELSE overlaps + 1
    /\ overlaps' <= MaxOverlaps

\* The UPDATE: a column is written when it differs from what was loaded.
Over(seen, new, now) ==
    [column \in DOMAIN now |-> IF new[column] # seen[column] THEN new[column] ELSE now[column]]

Present(rows) == {id \in DOMAIN rows : rows[id] # None}
=============================================================================
