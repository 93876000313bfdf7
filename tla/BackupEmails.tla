------------------------------ MODULE BackupEmails -----------------------------
(***************************************************************************)
(* The backup address of an account, where password resets go: proposed,   *)
(* proved with a mailed code, replaced.  The code lives in Redis under the *)
(* address, not under the account, with a counter of wrong tries; a        *)
(* request reads both, compares, and only then counts or deletes.          *)
(***************************************************************************)
EXTENDS Overlaps

CONSTANTS
    Owners,        \* accounts
    Mailboxes,     \* addresses they may propose
    MailedCodes,   \* values a generated code may have
    MaxAttempts    \* MAX_BACKUP_EMAIL_ATTEMPTS

ASSUME BackupAssumption ==
    /\ MaxAttempts \in Nat \ {0} /\ IsFiniteSet(Requests)
    /\ None \notin Mailboxes /\ None \notin MailedCodes

VARIABLES
    backups,     \* each account's backup address and whether it is verified
    mailed,      \* Redis: each mailbox's live code
    attempts,    \* Redis: wrong tries at it
    backupWork   \* each request: what it does, what it loaded, the code it holds

backupVars == <<backups, mailed, attempts, backupWork>>

Backup == [backup_email: Mailboxes \cup {None}, verified: BOOLEAN]
NoBackup == [backup_email |-> None, verified |-> FALSE]

BackupWork == [pc: {"idle", "loaded", "sending", "right", "wrong"}, owner: Owners \cup {None},
               seen: Backup, email: Mailboxes \cup {None}, code: MailedCodes \cup {None}]

IdleBackup == [pc |-> "idle", owner |-> None, seen |-> NoBackup, email |-> None, code |-> None]

-----------------------------------------------------------------------------
(* The code of a mailbox (redis_service).                                  *)

\* setex: a new code, and its tries start over.
Stored(email, code) ==
    /\ mailed' = [mailed EXCEPT ![email] = code]
    /\ attempts' = [attempts EXCEPT ![email] = 0]

CodeCleared(email) ==
    IF email = None THEN UNCHANGED <<mailed, attempts>>
    ELSE /\ mailed' = [mailed EXCEPT ![email] = None]
         /\ attempts' = [attempts EXCEPT ![email] = 0]

\* Mutant: tries are counted and nothing is made of the count.
MayTry_Always(email) == mailed[email] # None

\* Not too many wrong tries, and a code to compare with.
MayTry(email) == attempts[email] < MaxAttempts /\ mailed[email] # None

-----------------------------------------------------------------------------
(* Requests.                                                               *)

LoadsBackup(r, pc, owner, email, code) ==
    /\ Begins(backupWork, r)
    /\ backupWork' = [backupWork EXCEPT ![r] =
            [pc |-> pc, owner |-> owner, seen |-> backups[owner], email |-> email, code |-> code]]
    /\ UNCHANGED <<backups, mailed, attempts>>

Moves(r, pc) == backupWork' = [backupWork EXCEPT ![r].pc = pc]

Ends(r) ==
    /\ backupWork' = [backupWork EXCEPT ![r] = IdleBackup]
    /\ UNCHANGED <<edits, overlaps>>

\* Proposing an address; replacing a verified one takes the second factor.
SetBackupEmail(r) ==
    \E owner \in Owners, email \in Mailboxes : LoadsBackup(r, "loaded", owner, email, None)

\* Mutant: a new address inherits the old one's proof.
Proposed_StillVerified(row, email) == [row EXCEPT !.backup_email = email]

\* A different mailbox until it proves otherwise.
Proposed(row, email) == [row EXCEPT !.backup_email = email, !.verified = FALSE]

\* The replaced pending address loses its code, then the row changes.
CommitBackupEmail(r) ==
    LET w == backupWork[r]
    IN /\ w.pc = "loaded"
       /\ CodeCleared(IF ~w.seen.verified /\ w.seen.backup_email # w.email
                  THEN w.seen.backup_email ELSE None)
       /\ backups' = [backups EXCEPT ![w.owner] = Over(w.seen, Proposed(w.seen, w.email), @)]
       /\ Moves(r, "sending")
       /\ UNCHANGED <<edits, overlaps>>

ResendBackupEmailCode(r) ==
    \E owner \in Owners :
        /\ backups[owner].backup_email # None /\ ~backups[owner].verified
        /\ LoadsBackup(r, "sending", owner, backups[owner].backup_email, None)

\* _send_backup_email_code: to the address the request was about.
SendBackupEmailCode(r) ==
    /\ backupWork[r].pc = "sending"
    /\ \E code \in MailedCodes : Stored(backupWork[r].email, code)
    /\ Ends(r)
    /\ UNCHANGED backups

\* verify_backup_email, up to the comparison: the code of the address on the
\* loaded row, never of one the caller names.
VerifyBackupEmail(r) ==
    \E owner \in Owners, code \in MailedCodes :
        LET email == backups[owner].backup_email
        IN /\ email # None /\ MayTry(email)
           /\ LoadsBackup(r, IF code = mailed[email] THEN "right" ELSE "wrong", owner, email, code)

\* A wrong code is counted ...
CountWrongCode(r) ==
    LET w == backupWork[r]
    IN /\ w.pc = "wrong"
       /\ attempts' = [attempts EXCEPT ![w.email] = @ + 1]
       /\ Ends(r)
       /\ UNCHANGED <<backups, mailed>>

\* ... a right one is deleted, and the row says verified.
CommitVerified(r) ==
    LET w == backupWork[r]
    IN /\ w.pc = "right"
       /\ CodeCleared(w.email)
       /\ backups' = [backups EXCEPT ![w.owner] = Over(w.seen, [w.seen EXCEPT !.verified = TRUE], @)]
       /\ Ends(r)

\* Fifteen minutes.
CodeExpires ==
    \E email \in Mailboxes :
        /\ mailed[email] # None
        /\ mailed' = [mailed EXCEPT ![email] = None]
        /\ UNCHANGED <<backups, attempts, backupWork, edits, overlaps>>

BackupsInit ==
    /\ backups = [owner \in Owners |-> NoBackup]
    /\ mailed = [email \in Mailboxes |-> None]
    /\ attempts = [email \in Mailboxes |-> 0]
    /\ backupWork = [r \in Requests |-> IdleBackup]

BackupsNext ==
    \/ \E r \in Requests :
        \/ SetBackupEmail(r) \/ CommitBackupEmail(r)
        \/ ResendBackupEmailCode(r) \/ SendBackupEmailCode(r)
        \/ VerifyBackupEmail(r) \/ CountWrongCode(r) \/ CommitVerified(r)
    \/ CodeExpires

-----------------------------------------------------------------------------
(* Properties.                                                             *)

BackupsTypeOK ==
    /\ backups \in [Owners -> Backup]
    /\ mailed \in [Mailboxes -> MailedCodes \cup {None}]
    /\ attempts \in [Mailboxes -> Nat]
    /\ backupWork \in [Requests -> BackupWork]

\* While requests come one at a time, an account's verified address is one
\* its owner was asked about: it comes to be verified, or changes while it is
\* verified, only by a request that held the live code of that very mailbox
\* (set_backup_email voids the old proof, verify_backup_email checks the row).
AddressProved ==
    [][\A owner \in Owners :
          (/\ Calm /\ backups'[owner].verified
           /\ backups'[owner] # backups[owner])
              => \E r \in Requests :
                    /\ backupWork[r].owner = owner
                    /\ backupWork[r].pc = "right"
                    /\ backupWork[r].email = backups'[owner].backup_email]_<<backupVars, edits, overlaps>>

\* One mailed code stands no more wrong tries than the limit, and one for
\* every other request that looked at the counter before it was raised,
\* however requests overlap (the counter is read before it is raised).
TriesBounded ==
    \A email \in Mailboxes :
        mailed[email] # None => attempts[email] < MaxAttempts + Cardinality(Requests)
=============================================================================
