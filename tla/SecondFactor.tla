------------------------------ MODULE SecondFactor ------------------------------
(***************************************************************************)
(* One account's sign-in and second factor: the two ways in, the pending   *)
(* token between the factors, enrolment staged in Redis and promoted by    *)
(* its confirmation, backup codes, and the token_version that ends every   *)
(* session opened under an older arrangement.                              *)
(*                                                                         *)
(* A request loads the user row, looks at the code it was sent (in Redis   *)
(* or in what it loaded), and commits; nothing is locked in between, so    *)
(* two requests on one account may interleave at those points.  A refused  *)
(* request changes nothing and is not a step.  What expires (codes, staged *)
(* setups, pending tokens) is simply not presented any more.               *)
(***************************************************************************)
EXTENDS Naturals, FiniteSets

CONSTANTS
    Requests,     \* requests to /auth and /admin/users (reusable)
    Secrets,      \* authenticator secrets an enrolment may generate
    Codes,        \* the backup codes of one set
    MaxVersion,   \* bound: the largest token_version
    MaxSessions,  \* bound: kinds of session open at once
    MaxOverlaps,  \* bound: requests that arrive while another is under way
    None          \* SQL NULL, and "nothing staged"

ASSUME BoundAssumption == MaxVersion \in Nat /\ MaxSessions \in Nat /\ MaxOverlaps \in Nat
ASSUME NoneAssumption ==
    None \notin Secrets \cup {"totp", "email", "authenticator", "mailbox", "paper"}

VARIABLES
    user,      \* the committed row
    codes,     \* the Redis pools with a live code for a second factor
    staged,    \* the enrolment waiting to be confirmed (Redis)
    sessions,  \* token pairs: their `tv` and how they were come by
    overlaps,  \* how many requests arrived while another was under way
    work       \* each request: what it is, what it loaded, what it matched

vars == <<user, codes, staged, sessions, overlaps, work>>

Methods == {"totp", "email"}
Vias == {"password", "magic"}
Pools == {"challenge", "enrol"}
Factors == {"authenticator", "mailbox", "paper"}
Versions == 0..MaxVersion

\* What a session rests on: one factor, or two that are different channels; or
\* it was handed out by a confirmation whose requests showed a mailbox and
\* nothing else the account had.  Enrolling from a session is left to its owner.
Kinds == {"one", "two", "mailed"}

\* A list of backup codes: what is left of one generated set.  Two sets that
\* follow each other never compare equal: that is all `batch` is for.
CodeLists == [batch: 0..1, left: SUBSET Codes]
NoCodes == [batch |-> 0, left |-> {}]

Row == [password: BOOLEAN, token_version: Versions, two_factor_enabled: BOOLEAN,
        two_factor_method: Methods \cup {None}, totp_secret: Secrets \cup {None},
        backup_codes: CodeLists]

\* A staged factor.  `mailed` is history no step decides by: whoever staged this
\* authenticator had shown a mailbox and nothing else.
Staged == [method: Methods, secret: Secrets \cup {None}, mailed: BOOLEAN]
Mail == [method |-> "email", secret |-> None, mailed |-> FALSE]

Session == [tv: Versions, kind: Kinds]

Ops == {"login", "verify", "setup", "confirm", "disable", "regenerate", "password", "admin"}

Unset == [password |-> FALSE, token_version |-> 0, two_factor_enabled |-> FALSE,
          two_factor_method |-> None, totp_secret |-> None, backup_codes |-> NoCodes]

\* A request: `caller` is the via of its pending token or the kind of its
\* session; `candidate` the staged factor a confirmation read.
Work == [pc: {"idle", "open", "matched", "clearing"}, op: Ops, caller: Vias \cup Kinds,
         seen: Row, factor: Factors \cup {None}, candidate: Staged]

Idle == [pc |-> "idle", op |-> "login", caller |-> "password", seen |-> Unset,
         factor |-> None, candidate |-> Mail]

-----------------------------------------------------------------------------
(* What a request writes.                                                  *)

\* Mutant: the version stays.
Bumped_Forgotten(row) == row

\* bump_token_version: one more than what this request loaded.
Bumped(row) == [row EXCEPT !.token_version = @ + 1]

\* generate_backup_codes: a new set in place of whatever was left.
FreshCodes(row) == [batch |-> 1 - row.backup_codes.batch, left |-> Codes]

\* Mutant: the factor is switched on with its secret, the method is forgotten.
Confirmed_NoMethod(row, candidate) ==
    Bumped([row EXCEPT !.two_factor_enabled = TRUE, !.totp_secret = candidate.secret])

\* Mutant: mail enrolled over an authenticator keeps the old secret.
Confirmed_KeepsSecret(row, candidate) ==
    Bumped([row EXCEPT !.two_factor_enabled = TRUE,
                       !.two_factor_method = candidate.method,
                       !.totp_secret = IF candidate.secret = None THEN @ ELSE candidate.secret,
                       !.backup_codes = FreshCodes(row)])

\* confirm-setup: the staged factor goes live with a fresh set of codes.
Confirmed(row, candidate) ==
    Bumped([row EXCEPT !.two_factor_enabled = TRUE,
                       !.two_factor_method = candidate.method,
                       !.totp_secret = candidate.secret,
                       !.backup_codes = FreshCodes(row)])

\* disable, by the owner or an administrator: all four columns go.
Disabled(row) ==
    Bumped([row EXCEPT !.two_factor_enabled = FALSE, !.two_factor_method = None,
                       !.totp_secret = None, !.backup_codes = NoCodes])

\* Mutant: a code is checked and not spent.
Remaining_Kept(list, code) == list

\* consume_backup_code: the loaded list without the code that matched.
Remaining(list, code) == [list EXCEPT !.left = @ \ {code}]

\* The ORM's UPDATE: only the columns that differ from what was loaded.
Written(seen, new) ==
    [column \in DOMAIN user |->
        IF new[column] # seen[column] THEN new[column] ELSE user[column]]

\* get_current_user: a session counts while its version is the row's.
Valid(s) == s.tv = user.token_version

\* Tokens stamped with the version on the row.
Minted(tv, kind) ==
    /\ sessions' = sessions \cup {[tv |-> tv, kind |-> kind]}
    /\ Cardinality(sessions') <= MaxSessions

-----------------------------------------------------------------------------
(* Codes by mail.  A sign-in or reset code can be had at any time.         *)

\* The `via` of the pending tokens about: a mailed code can always be had, and
\* a password, once set, is never unset.
Pendings == {"magic"} \cup (IF user.password THEN {"password"} ELSE {})

Sent == /\ codes' = codes \cup {"challenge"}
        /\ UNCHANGED <<user, staged, sessions, overlaps, work>>

\* 2fa/send-email-fallback: from a session, or mid-login after a password.
SendEmailFallback ==
    /\ (\E s \in sessions : Valid(s)) \/ "password" \in Pendings
    /\ user.two_factor_enabled
    /\ Sent

\* 2fa/send-reauth-code: only for whom mail is the factor.
SendReauthCode ==
    /\ \E s \in sessions : Valid(s)
    /\ user.two_factor_enabled /\ user.two_factor_method = "email"
    /\ Sent

-----------------------------------------------------------------------------
(* A request arrives, is authenticated and loads the row.                  *)

Open(r, op, caller) ==
    /\ work[r].pc = "idle"
    /\ work' = [work EXCEPT ![r] = [pc |-> "open", op |-> op, caller |-> caller,
                    seen |-> user, factor |-> None, candidate |-> Mail]]
    /\ overlaps' = IF \A q \in Requests : work[q].pc = "idle" THEN overlaps ELSE overlaps + 1
    /\ overlaps' <= MaxOverlaps
    /\ UNCHANGED <<user, codes, staged, sessions>>

BySession(r, op) == \E s \in sessions : Valid(s) /\ Open(r, op, s.kind)

ByPending(r, op) == \E via \in Pendings : Open(r, op, via)

Login(r) == user.password /\ Open(r, "login", "password")

VerifyTwoFactorLogin(r) == user.two_factor_enabled /\ ByPending(r, "verify")

SetupTwoFactor(r) == BySession(r, "setup") \/ ByPending(r, "setup")

ConfirmTwoFactorSetup(r) == BySession(r, "confirm") \/ ByPending(r, "confirm")

\* disable and regenerate return early on an account that is not enrolled.
DisableTwoFactor(r) == user.two_factor_enabled /\ BySession(r, "disable")

RegenerateBackupCodes(r) == user.two_factor_enabled /\ BySession(r, "regenerate")

SetPassword(r) == BySession(r, "password")

AdminDisableTwoFactor(r) == Open(r, "admin", "password")

-----------------------------------------------------------------------------
(* It looks at the code it was sent.                                       *)

\* Mutant: disable and regenerate ask for nothing.
NeedsFactor_SignInAndSetup(w) ==
    \/ w.op = "verify"
    \/ w.op \in {"setup", "password"} /\ w.seen.two_factor_enabled

\* _require_step_up and the endpoints that always ask: who has a second
\* factor must show it, except to set a first password.
NeedsFactor(w) ==
    \/ w.op \in {"verify", "disable", "regenerate"}
    \/ w.op = "setup" /\ w.seen.two_factor_enabled
    \/ w.op = "password" /\ w.seen.password /\ w.seen.two_factor_enabled

\* Mutant: mail always counts.
EmailFactorAllowed_Always(w) == TRUE

\* A mailed code is no second factor after a mailed first one.
EmailFactorAllowed(w) == ~(w.op = "verify" /\ w.caller = "magic")

Matched(r, factor) == [work[r] EXCEPT !.pc = "matched", !.factor = factor]

\* _second_factor_matches: authenticator, then mail, then a backup code.
\* A backup code is spent at once: the list is committed, the row reloaded.
SecondFactorMatches(r) ==
    /\ work[r].pc = "open" /\ NeedsFactor(work[r])
    /\ \/ /\ work[r].seen.totp_secret # None
          /\ work' = [work EXCEPT ![r] = Matched(r, "authenticator")]
          /\ UNCHANGED user
       \/ /\ EmailFactorAllowed(work[r]) /\ "challenge" \in codes
          /\ work' = [work EXCEPT ![r] = Matched(r, "mailbox")]
          /\ UNCHANGED user
       \/ \E code \in work[r].seen.backup_codes.left :
          /\ user' = Written(work[r].seen, [work[r].seen EXCEPT
                         !.backup_codes = Remaining(@, code)])
          /\ work' = [work EXCEPT ![r] = [Matched(r, "paper") EXCEPT !.seen = user']]
    /\ UNCHANGED <<codes, staged, sessions, overlaps>>

\* confirm-setup: the code must be one of the factor that was staged.
StagedFactorMatches(r) ==
    /\ work[r].pc = "open" /\ work[r].op = "confirm"
    /\ staged # None
    /\ staged.method = "email" => "enrol" \in codes
    /\ work' = [work EXCEPT ![r] = [Matched(r, IF staged.method = "email" THEN "mailbox"
                                               ELSE "authenticator")
                                    EXCEPT !.candidate = staged]]
    /\ UNCHANGED <<user, codes, staged, sessions, overlaps>>

\* The code a request matched, deleted on success.
Used(w) == IF w.factor # "mailbox" THEN {}
           ELSE IF w.op = "confirm" THEN {"enrol"} ELSE {"challenge"}

-----------------------------------------------------------------------------
(* It commits, and answers.                                                *)

Ready(r, op) ==
    /\ work[r].op = op
    /\ \/ work[r].pc = "matched"
       \/ work[r].pc = "open" /\ op # "confirm" /\ ~NeedsFactor(work[r])

Done(r) == work' = [work EXCEPT ![r] = Idle]

\* _login_outcome: ask for the second factor, force enrolment where the
\* instance or a membership requires it (either may change at any time), or
\* let in.  Mail is sent only to whom it is the factor and not the first one.
LoginOutcome(row, via) ==
    /\ codes' = IF row.two_factor_enabled /\ row.two_factor_method = "email" /\ via # "magic"
                THEN codes \cup {"challenge"} ELSE codes
    /\ \/ UNCHANGED sessions
       \/ ~row.two_factor_enabled /\ Minted(row.token_version, "one")
    /\ UNCHANGED <<user, staged, overlaps>>

\* A password login answers from the row it loaded before checking the hash.
FinishLogin(r) ==
    /\ Ready(r, "login")
    /\ LoginOutcome(work[r].seen, "password")
    /\ Done(r)

\* A code login commits "e-mail verified" and answers from the reloaded row.
VerifyMagicCode == LoginOutcome(user, "magic") /\ UNCHANGED work

\* Two factors are two channels, unless both were read in a mailbox.
KindOf(w) == IF w.caller = "magic" /\ w.factor = "mailbox" THEN "one" ELSE "two"

FinishVerify(r) ==
    /\ Ready(r, "verify")
    /\ codes' = codes \ Used(work[r])
    /\ Minted(work[r].seen.token_version, KindOf(work[r]))
    /\ Done(r)
    /\ UNCHANGED <<user, staged, overlaps>>

\* A new secret is nobody's: not live, not staged, nor in a request's hands.
FreshSecrets == Secrets \ ({user.totp_secret} \cup (IF staged = None THEN {} ELSE {staged.secret})
    \cup UNION {{work[r].seen.totp_secret, work[r].candidate.secret} : r \in Requests})

\* A login that began with a mailed code may not enrol mail.
MayEnrol(caller, candidate) == ~(candidate = Mail /\ caller = "magic")

\* Callers who showed their mailbox on the way in, and nothing besides.
ByMail == {"magic", "mailed"}

\* ... and have shown no more since: a mailed code proves setup's step-up too,
\* whatever came first (allow_email_factor is left at its default).
OnlyMailbox(w) == w.caller \in ByMail /\ w.factor \in {None, "mailbox"}

\* setup stages a candidate in place of any other, and writes no row.
FinishSetup(r) ==
    /\ Ready(r, "setup")
    /\ \E candidate \in {Mail} \cup [method: {"totp"}, secret: FreshSecrets,
                                      mailed: {OnlyMailbox(work[r])}] :
          /\ MayEnrol(work[r].caller, candidate)
          /\ staged' = candidate
          /\ codes' = (codes \ Used(work[r])) \cup (IF candidate = Mail THEN {"enrol"} ELSE {})
    /\ Done(r)
    /\ UNCHANGED <<user, sessions, overlaps>>

\* A change to the row that ends the other sessions and hands out new tokens.
Change(r, new, kind) ==
    /\ work[r].seen.token_version < MaxVersion
    /\ user' = Written(work[r].seen, new)
    /\ codes' = codes \ Used(work[r])
    /\ Minted(user'.token_version, kind)
    /\ UNCHANGED <<staged, overlaps>>

\* An account's first authenticator is a second channel, and so is mail to who
\* came by a password.  Mail to who came by mail is not, nor is an authenticator
\* put in place of the account's factor by who showed a mailbox alone: its
\* secret is known to whoever staged it, and to nobody else.
ConfirmedKind(w) ==
    IF /\ w.caller \in ByMail
       /\ \/ w.candidate = Mail
          \/ w.seen.two_factor_enabled /\ w.candidate.mailed
    THEN "mailed" ELSE "two"

FinishConfirm(r) ==
    /\ Ready(r, "confirm")
    /\ Change(r, Confirmed(work[r].seen, work[r].candidate), ConfirmedKind(work[r]))
    /\ work' = [work EXCEPT ![r] = [Idle EXCEPT !.pc = "clearing", !.op = "confirm"]]

\* After the commit: whatever is staged now, and any enrolment code.
ClearStaged(r) ==
    /\ work[r].pc = "clearing"
    /\ staged' = None
    /\ codes' = codes \ {"enrol"}
    /\ Done(r)
    /\ UNCHANGED <<user, sessions, overlaps>>

FinishDisable(r) ==
    /\ Ready(r, "disable")
    /\ Change(r, Disabled(work[r].seen), work[r].caller)
    /\ Done(r)

FinishRegenerate(r) ==
    /\ Ready(r, "regenerate")
    /\ Change(r, Bumped([work[r].seen EXCEPT !.backup_codes = FreshCodes(work[r].seen)]),
              work[r].caller)
    /\ Done(r)

FinishPassword(r) ==
    /\ Ready(r, "password")
    /\ Change(r, Bumped([work[r].seen EXCEPT !.password = TRUE]), work[r].caller)
    /\ Done(r)

\* The administrator's reset ends the target's sessions and mints none.
FinishAdminDisable(r) ==
    /\ Ready(r, "admin")
    /\ work[r].seen.token_version < MaxVersion
    /\ user' = Written(work[r].seen, Disabled(work[r].seen))
    /\ Done(r)
    /\ UNCHANGED <<codes, staged, sessions, overlaps>>

\* A wrong or expired code, or a request that dies before its commit.
Refuse(r) ==
    /\ work[r].pc \in {"open", "matched"}
    /\ codes' = codes \ Used(work[r])
    /\ Done(r)
    /\ UNCHANGED <<user, staged, sessions, overlaps>>

\* A token pair runs out, or its owner signs out.
SignOut ==
    /\ \E s \in sessions : sessions' = sessions \ {s}
    /\ UNCHANGED <<user, codes, staged, overlaps, work>>

Init ==
    /\ \E password \in BOOLEAN : user = [Unset EXCEPT !.password = password]
    /\ codes = {} /\ staged = None /\ sessions = {} /\ overlaps = 0
    /\ work = [r \in Requests |-> Idle]

Next ==
    \/ SendEmailFallback \/ SendReauthCode \/ VerifyMagicCode \/ SignOut
    \/ \E r \in Requests :
        \/ Login(r) \/ VerifyTwoFactorLogin(r)
        \/ SetupTwoFactor(r) \/ ConfirmTwoFactorSetup(r)
        \/ DisableTwoFactor(r) \/ RegenerateBackupCodes(r)
        \/ SetPassword(r) \/ AdminDisableTwoFactor(r)
        \/ SecondFactorMatches(r) \/ StagedFactorMatches(r)
        \/ FinishLogin(r) \/ FinishVerify(r) \/ FinishSetup(r)
        \/ FinishConfirm(r) \/ ClearStaged(r) \/ FinishDisable(r)
        \/ FinishRegenerate(r) \/ FinishPassword(r) \/ FinishAdminDisable(r)
        \/ Refuse(r)

Spec == Init /\ [][Next]_vars

-----------------------------------------------------------------------------
(* Properties.                                                             *)

TypeOK ==
    /\ user \in Row
    /\ codes \subseteq Pools
    /\ staged \in Staged \cup {None}
    /\ sessions \subseteq Session
    /\ overlaps \in 0..MaxOverlaps
    /\ work \in [Requests -> Work]

\* One request at a time so far.
Calm == overlaps = 0

\* An account that asks for a second factor has one it can be asked for: a
\* method, and a secret when the method is the authenticator.  One request
\* that overlaps another, whatever they write over each other, never leaves
\* the owner locked out (models/user.py, two_factor_enabled); several can.
NeverLockedOut ==
    overlaps <= 1 /\ user.two_factor_enabled =>
        /\ user.two_factor_method # None
        /\ user.two_factor_method = "totp" => user.totp_secret # None

\* An authenticator from an earlier enrolment does not stay a way in for an
\* account whose second factor is mail (confirm-setup, the e-mail branch).
NoForgottenAuthenticator ==
    user.two_factor_enabled /\ user.two_factor_method = "email" => user.totp_secret = None

\* While no requests have overlapped, the four columns tell one story: off
\* with nothing kept, or on with the chosen method and its secret alone.
OneStory ==
    Calm => IF user.two_factor_enabled
            THEN (user.two_factor_method = "totp") <=> (user.totp_secret # None)
            ELSE user.two_factor_method = None /\ user.totp_secret = None
                     /\ user.backup_codes.left = {}

\* While no requests have overlapped, no live session of an enrolled account
\* was signed in on one channel: verify-login never takes mail after mail
\* (VIA_MAGIC_CODE), and enrolling ends the sessions from before it.  (Sessions
\* a confirmation hands out are left to ReplacedOnTwoChannels.)
SignedInOnTwoChannels ==
    Calm /\ user.two_factor_enabled => \A s \in sessions : Valid(s) => s.kind # "one"

\* While no requests overlap, an accepted backup code leaves the list, and
\* none comes back but with a whole new set (consume_backup_code: single use
\* is the whole point).
BackupCodesSingleUse ==
    [][Calm =>
        /\ \A r \in Requests :
              work'[r].factor = "paper" /\ work[r].pc = "open"
                  => user'.backup_codes.left # user.backup_codes.left
        /\ user'.backup_codes.batch = user.backup_codes.batch
              => user'.backup_codes.left \subseteq user.backup_codes.left]_vars

\* What the second factor of the account is.
FactorOf(row) == <<row.two_factor_enabled, row.two_factor_method, row.totp_secret>>

\* While no requests overlap, whoever was signed in before the factor or the
\* password changed is signed out by the change, other sessions included.
ChangeEndsSessions ==
    [][Calm /\ (FactorOf(user') # FactorOf(user) \/ user'.password # user.password)
          => \A s \in sessions : s.tv # user'.token_version]_vars

\* Starting an enrolment changes nothing: the live factor moves only when a
\* request commits that matched a code of the new one, or proved the old one,
\* or came from an administrator.
FactorMovesOnlyProved ==
    [][FactorOf(user') # FactorOf(user) =>
          \E r \in Requests :
              /\ work'[r].pc \in {"idle", "clearing"} /\ work[r].pc \in {"matched", "open"}
              /\ \/ work[r].op = "confirm" /\ work[r].factor # None
                       /\ user'.totp_secret \in {user.totp_secret, work[r].candidate.secret}
                 \/ work[r].op = "disable" /\ work[r].factor # None
                       /\ user'.totp_secret \in {user.totp_secret, None}
                 \/ work[r].op = "admin" /\ user'.totp_secret \in {user.totp_secret, None}]_vars

-----------------------------------------------------------------------------
(* What a comment of the code says and the code does not do.               *)

\* Whoever puts a new authenticator in place of the factor of an enrolled
\* account has shown two channels, one request at a time: an e-mailed code is
\* no second factor after a mailed first one, and those who may give it have a
\* session (the docstring of _second_factor_matches).  setup takes it from a
\* pending token as well.
ReplacedOnTwoChannels ==
    [][Calm /\ user.two_factor_enabled /\ user'.totp_secret \notin {user.totp_secret, None}
          => \A s \in sessions' \ sessions : s.kind # "mailed"]_vars
=============================================================================
