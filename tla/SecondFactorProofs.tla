--------------------------- MODULE SecondFactorProofs ---------------------------
(***************************************************************************)
(* What holds of SecondFactor for any secrets, codes and requests: types   *)
(* and what moves the factor, under every interleaving; the one story the  *)
(* columns tell, sign-in on two channels, single use of backup codes and   *)
(* the end of sessions, while requests come one at a time; a way in for    *)
(* the owner, while at most one request has overlapped another.            *)
(***************************************************************************)
EXTENDS SecondFactor, TLAPS

\* A staged factor is mail, or an authenticator with its secret.
WellFormed(candidate) == (candidate.method = "totp") <=> (candidate.secret # None)

\* A request that matched has what it matched; mail never proves a code login;
\* a change asked for from a session goes back to that kind of session.
WorkOK(w) ==
    /\ w.pc = "open" => w.factor = None
    /\ w.pc = "matched" =>
         /\ w.factor # None
         /\ w.op = "confirm" => WellFormed(w.candidate)
         /\ w.op = "verify" /\ w.factor = "mailbox" => w.caller # "magic"
    /\ w.op \in {"disable", "regenerate", "password"} => w.caller \in Kinds

FactorInv ==
    /\ TypeOK
    /\ staged # None => WellFormed(staged)
    /\ \A r \in Requests : WorkOK(work[r])

\* What the columns tell while all is calm.
Consistent(row) ==
    IF row.two_factor_enabled
    THEN (row.two_factor_method = "totp") <=> (row.totp_secret # None)
    ELSE row.two_factor_method = None /\ row.totp_secret = None /\ row.backup_codes.left = {}

\* Alone, a request still sees the row it loaded; no session is ahead of the
\* row, and none of an enrolled account that counts was signed in on one channel,
\* nor does a request renew such a one.
SerialInv ==
    Calm =>
        /\ \A r \in Requests :
             work[r].pc # "idle" =>
                /\ \A q \in Requests \ {r} : work[q].pc = "idle"
                /\ work[r].pc \in {"open", "matched"} =>
                     /\ work[r].seen = user
                     /\ work[r].op \in {"regenerate", "password"} /\ user.two_factor_enabled =>
                          work[r].caller # "one"
                     /\ work[r].op = "regenerate" => user.two_factor_enabled
        /\ \A s \in sessions : s.tv <= user.token_version
        /\ user.two_factor_enabled => \A s \in sessions : Valid(s) => s.kind # "one"
        /\ Consistent(user)

-----------------------------------------------------------------------------
(* Rows.                                                                   *)

\* What a confirmation leaves to be cleared.
Clearing == [Idle EXCEPT !.pc = "clearing", !.op = "confirm"]

LEMMA IdleTyped ==
    /\ Idle \in Work /\ Idle.pc = "idle" /\ Idle.op = "login"
    /\ Clearing \in Work /\ Clearing.pc = "clearing" /\ Clearing.op = "confirm"
<1>1. Unset \in Row
  BY BoundAssumption DEF Unset, Row, NoCodes, CodeLists, Methods, Versions
<1>2. Mail \in Staged  BY DEF Mail, Staged, Methods
<1>3. Idle \in Work /\ Idle.pc = "idle" /\ Idle.op = "login"
  <2> HIDE DEF Unset, Mail
  <2> QED  BY <1>1, <1>2 DEF Idle, Work, Ops, Vias
<1>4. Clearing \in Work /\ Clearing.pc = "clearing" /\ Clearing.op = "confirm"
  <2> DEFINE idle == Idle
  <2>1. idle \in Work /\ Clearing = [idle EXCEPT !.pc = "clearing", !.op = "confirm"]
    BY <1>3 DEF Clearing
  <2> HIDE DEF idle
  <2> QED  BY <2>1 DEF Work, Ops
<1> QED  BY <1>3, <1>4

LEMMA WrittenTyped ==
    ASSUME user \in Row, NEW seen \in Row, NEW new \in Row
    PROVE  /\ Written(seen, new) \in Row
           /\ seen = user => Written(seen, new) = new
           /\ \A column \in {"password", "token_version", "two_factor_enabled",
                             "two_factor_method", "totp_secret", "backup_codes"} :
                Written(seen, new)[column] =
                    IF new[column] # seen[column] THEN new[column] ELSE user[column]
BY DEF Written, Row

LEMMA FreshCodesTyped ==
    ASSUME NEW row \in Row
    PROVE  /\ FreshCodes(row) \in CodeLists /\ FreshCodes(row).left = Codes
           /\ FreshCodes(row).batch # row.backup_codes.batch
           /\ NoCodes \in CodeLists /\ NoCodes.left = {}
BY DEF FreshCodes, Row, CodeLists, NoCodes

LEMMA BumpedTyped ==
    ASSUME NEW row \in Row, row.token_version < MaxVersion
    PROVE  /\ Bumped(row) \in Row /\ Bumped(row).token_version = row.token_version + 1
           /\ Bumped(row).password = row.password
           /\ Bumped(row).two_factor_enabled = row.two_factor_enabled
           /\ Bumped(row).two_factor_method = row.two_factor_method
           /\ Bumped(row).totp_secret = row.totp_secret
           /\ Bumped(row).backup_codes = row.backup_codes
BY BoundAssumption DEF Bumped, Row, Versions

LEMMA ConfirmedTyped ==
    ASSUME NEW row \in Row, NEW candidate \in Staged, row.token_version < MaxVersion
    PROVE  /\ Confirmed(row, candidate) \in Row
           /\ Confirmed(row, candidate).token_version = row.token_version + 1
           /\ Confirmed(row, candidate).password = row.password
           /\ Confirmed(row, candidate).two_factor_enabled
           /\ Confirmed(row, candidate).two_factor_method = candidate.method
           /\ Confirmed(row, candidate).totp_secret = candidate.secret
           /\ Confirmed(row, candidate).backup_codes = FreshCodes(row)
<1> DEFINE fresh == FreshCodes(row)
           base == [row EXCEPT !.two_factor_enabled = TRUE,
                               !.two_factor_method = candidate.method,
                               !.totp_secret = candidate.secret,
                               !.backup_codes = fresh]
<1>1. fresh \in CodeLists  BY FreshCodesTyped
<1> HIDE DEF fresh
<1>2. /\ base \in Row /\ base.token_version = row.token_version
      /\ base.password = row.password /\ base.two_factor_enabled
      /\ base.two_factor_method = candidate.method
      /\ base.totp_secret = candidate.secret /\ base.backup_codes = fresh
  BY <1>1 DEF Row, Staged
<1> HIDE DEF base
<1>3. Confirmed(row, candidate) = Bumped(base)  BY DEF Confirmed, base, fresh
<1>4. fresh = FreshCodes(row)  BY DEF fresh
<1> QED  BY <1>2, <1>3, <1>4, BumpedTyped

LEMMA DisabledTyped ==
    ASSUME NEW row \in Row, row.token_version < MaxVersion
    PROVE  /\ Disabled(row) \in Row
           /\ Disabled(row).token_version = row.token_version + 1
           /\ Disabled(row).password = row.password
           /\ ~Disabled(row).two_factor_enabled
           /\ Disabled(row).two_factor_method = None
           /\ Disabled(row).totp_secret = None
           /\ Disabled(row).backup_codes = NoCodes
<1> DEFINE base == [row EXCEPT !.two_factor_enabled = FALSE, !.two_factor_method = None,
                               !.totp_secret = None, !.backup_codes = NoCodes]
<1>1. /\ base \in Row /\ base.token_version = row.token_version
      /\ base.password = row.password /\ ~base.two_factor_enabled
      /\ base.two_factor_method = None /\ base.totp_secret = None
      /\ base.backup_codes = NoCodes
  BY FreshCodesTyped DEF Row
<1> HIDE DEF base
<1>2. Disabled(row) = Bumped(base)  BY DEF Disabled, base
<1> QED  BY <1>1, <1>2, BumpedTyped

\* The row a change means to leave.
NewRow(w) ==
    CASE w.op = "confirm"    -> Confirmed(w.seen, w.candidate)
      [] w.op = "disable"    -> Disabled(w.seen)
      [] w.op = "admin"      -> Disabled(w.seen)
      [] w.op = "regenerate" -> Bumped([w.seen EXCEPT !.backup_codes = FreshCodes(w.seen)])
      [] w.op = "password"   -> Bumped([w.seen EXCEPT !.password = TRUE])

\* ... is one version on, and changes what the operation is about alone.
LEMMA NewRowTyped ==
    ASSUME NEW w \in Work, w.seen.token_version < MaxVersion,
           w.op \in {"confirm", "disable", "admin", "regenerate", "password"}
    PROVE  /\ NewRow(w) \in Row /\ NewRow(w).token_version = w.seen.token_version + 1
           /\ w.op = "confirm" =>
                /\ NewRow(w) = Confirmed(w.seen, w.candidate)
                /\ NewRow(w).two_factor_enabled
                /\ NewRow(w).two_factor_method = w.candidate.method
                /\ NewRow(w).totp_secret = w.candidate.secret
                /\ NewRow(w).backup_codes.batch # w.seen.backup_codes.batch
           /\ w.op \in {"disable", "admin"} =>
                /\ NewRow(w) = Disabled(w.seen)
                /\ ~NewRow(w).two_factor_enabled /\ NewRow(w).two_factor_method = None
                /\ NewRow(w).totp_secret = None /\ NewRow(w).backup_codes.left = {}
           /\ w.op \in {"regenerate", "password"} =>
                /\ NewRow(w).two_factor_enabled = w.seen.two_factor_enabled
                /\ NewRow(w).two_factor_method = w.seen.two_factor_method
                /\ NewRow(w).totp_secret = w.seen.totp_secret
           /\ w.op = "regenerate" => NewRow(w).backup_codes.batch # w.seen.backup_codes.batch
           /\ w.op = "password" => NewRow(w).backup_codes = w.seen.backup_codes
<1>1. w.seen \in Row /\ w.candidate \in Staged  BY DEF Work
<1>2. CASE w.op = "confirm"
  <2>1. NewRow(w) = Confirmed(w.seen, w.candidate)  BY <1>2 DEF NewRow
  <2>2. NewRow(w).backup_codes = FreshCodes(w.seen)  BY <1>1, <2>1, ConfirmedTyped
  <2>3. NewRow(w).backup_codes.batch # w.seen.backup_codes.batch
    BY <1>1, <2>2, FreshCodesTyped
  <2> QED  BY <1>1, <1>2, <2>1, <2>3, ConfirmedTyped
<1>3. CASE w.op \in {"disable", "admin"}
  <2>1. NewRow(w) = Disabled(w.seen)  BY <1>3 DEF NewRow
  <2>2. NewRow(w).backup_codes.left = {}  BY <1>1, <2>1, DisabledTyped, FreshCodesTyped
  <2> QED  BY <1>1, <1>3, <2>1, <2>2, DisabledTyped
<1>4. CASE w.op = "regenerate"
  <2> DEFINE fresh == FreshCodes(w.seen)
             base == [w.seen EXCEPT !.backup_codes = fresh]
  <2>1. fresh \in CodeLists /\ fresh.batch # w.seen.backup_codes.batch
    BY <1>1, FreshCodesTyped
  <2>2. NewRow(w) = Bumped(base)  BY <1>4 DEF NewRow
  <2> HIDE DEF fresh
  <2>3. /\ base \in Row /\ base.token_version = w.seen.token_version
        /\ base.two_factor_enabled = w.seen.two_factor_enabled
        /\ base.two_factor_method = w.seen.two_factor_method
        /\ base.totp_secret = w.seen.totp_secret /\ base.backup_codes = fresh
    BY <1>1, <2>1 DEF Row
  <2> HIDE DEF base
  <2> QED  BY <1>4, <2>1, <2>2, <2>3, BumpedTyped
<1>5. CASE w.op = "password"
  <2> DEFINE base == [w.seen EXCEPT !.password = TRUE]
  <2>1. NewRow(w) = Bumped(base)  BY <1>5 DEF NewRow
  <2>2. /\ base \in Row /\ base.token_version = w.seen.token_version
        /\ base.two_factor_enabled = w.seen.two_factor_enabled
        /\ base.two_factor_method = w.seen.two_factor_method
        /\ base.totp_secret = w.seen.totp_secret /\ base.backup_codes = w.seen.backup_codes
    BY <1>1 DEF Row
  <2> HIDE DEF base
  <2> QED  BY <1>5, <2>1, <2>2, BumpedTyped
<1> QED  BY <1>2, <1>3, <1>4, <1>5

-----------------------------------------------------------------------------
(* The steps that change the row.                                          *)

Finishes(r) ==
    \/ FinishConfirm(r) \/ FinishDisable(r) \/ FinishRegenerate(r) \/ FinishPassword(r)
    \/ FinishAdminDisable(r)

\* The session a change hands out.
Renewed(w) == IF w.op = "confirm" THEN ConfirmedKind(w) ELSE w.caller

LEMMA FinishesFacts ==
    ASSUME FactorInv, NEW r \in Requests, Finishes(r)
    PROVE  /\ work[r] \in Work /\ work[r].seen \in Row
           /\ work[r].seen.token_version < MaxVersion
           /\ work[r].op \in {"confirm", "disable", "admin", "regenerate", "password"}
           /\ work[r].pc \in {"open", "matched"}
           /\ work[r].op \in {"confirm", "disable"} => work[r].pc = "matched"
           /\ user' = Written(work[r].seen, NewRow(work[r]))
           /\ work' = [work EXCEPT ![r] = IF work[r].op = "confirm" THEN Clearing ELSE Idle]
           /\ codes' \subseteq codes /\ staged' = staged /\ overlaps' = overlaps
           /\ work[r].op = "admin" => sessions' = sessions
           /\ work[r].op # "admin" =>
                sessions' = sessions \cup {[tv |-> user'.token_version, kind |-> Renewed(work[r])]}
<1>1. work[r] \in Work /\ work[r].seen \in Row  BY DEF FactorInv, TypeOK, Work
<1>2. CASE FinishConfirm(r)
  BY <1>1, <1>2 DEF FinishConfirm, Ready, Change, Minted, NewRow, Renewed, Clearing
<1>3. CASE FinishDisable(r)
  BY <1>1, <1>3 DEF FinishDisable, Ready, Change, Minted, NewRow, Renewed, Done, NeedsFactor
<1>4. CASE FinishRegenerate(r)
  BY <1>1, <1>4 DEF FinishRegenerate, Ready, Change, Minted, NewRow, Renewed, Done
<1>5. CASE FinishPassword(r)
  BY <1>1, <1>5 DEF FinishPassword, Ready, Change, Minted, NewRow, Renewed, Done
<1>6. CASE FinishAdminDisable(r)
  BY <1>1, <1>6 DEF FinishAdminDisable, Ready, NewRow, Done
<1> QED  BY <1>2, <1>3, <1>4, <1>5, <1>6 DEF Finishes

\* A backup code is spent: the list loses it, the request reloads the row.
SpendsCode(r) ==
    /\ work[r].pc = "open" /\ NeedsFactor(work[r])
    /\ \E code \in work[r].seen.backup_codes.left :
        /\ user' = Written(work[r].seen, [work[r].seen EXCEPT !.backup_codes = Remaining(@, code)])
        /\ work' = [work EXCEPT ![r] = [Matched(r, "paper") EXCEPT !.seen = user']]
    /\ UNCHANGED <<codes, staged, sessions, overlaps>>

LEMMA SpendsFacts ==
    ASSUME FactorInv, NEW r \in Requests, SpendsCode(r)
    PROVE  /\ work[r] \in Work /\ work[r].pc = "open" /\ work[r].seen \in Row
           /\ UNCHANGED <<codes, staged, sessions, overlaps>>
           /\ user' \in Row
           /\ user'.two_factor_enabled = user.two_factor_enabled
           /\ user'.two_factor_method = user.two_factor_method
           /\ user'.totp_secret = user.totp_secret
           /\ user'.password = user.password /\ user'.token_version = user.token_version
           /\ work[r].seen = user =>
                /\ user'.backup_codes.batch = user.backup_codes.batch
                /\ user'.backup_codes.left \subseteq user.backup_codes.left
                /\ user'.backup_codes.left # user.backup_codes.left
           /\ DOMAIN work' = Requests
           /\ \A q \in Requests \ {r} : work'[q] = work[q]
           /\ work'[r] \in Work /\ work'[r].pc = "matched" /\ work'[r].factor = "paper"
           /\ work'[r].op = work[r].op /\ work'[r].caller = work[r].caller
           /\ work'[r].seen = user' /\ work'[r].candidate = work[r].candidate
<1> DEFINE seen == work[r].seen
<1>1. /\ work[r] \in Work /\ work[r].pc = "open" /\ seen \in Row /\ user \in Row
      /\ DOMAIN work = Requests
  BY DEF SpendsCode, FactorInv, TypeOK, Work
<1>2. PICK code \in seen.backup_codes.left :
        /\ user' = Written(seen, [seen EXCEPT !.backup_codes = Remaining(@, code)])
        /\ work' = [work EXCEPT ![r] = [Matched(r, "paper") EXCEPT !.seen = user']]
  BY DEF SpendsCode
<1> DEFINE list == Remaining(seen.backup_codes, code)
           new == [seen EXCEPT !.backup_codes = list]
<1>3. /\ list \in CodeLists /\ list.batch = seen.backup_codes.batch
      /\ list.left = seen.backup_codes.left \ {code}
  BY <1>1 DEF Remaining, Row, CodeLists
<1>4. user' = Written(seen, new)  BY <1>2
<1> HIDE DEF list
<1>5. /\ new \in Row /\ new.backup_codes = list /\ new.password = seen.password
      /\ new.token_version = seen.token_version
      /\ new.two_factor_enabled = seen.two_factor_enabled
      /\ new.two_factor_method = seen.two_factor_method /\ new.totp_secret = seen.totp_secret
  BY <1>1, <1>3 DEF Row
<1> HIDE DEF new
<1>6. /\ Written(seen, new) \in Row /\ (seen = user => Written(seen, new) = new)
      /\ \A column \in {"password", "token_version", "two_factor_enabled",
                        "two_factor_method", "totp_secret", "backup_codes"} :
           Written(seen, new)[column] =
               IF new[column] # seen[column] THEN new[column] ELSE user[column]
  BY <1>1, <1>5, WrittenTyped
<1>7. /\ user'.two_factor_enabled = user.two_factor_enabled
      /\ user'.two_factor_method = user.two_factor_method
      /\ user'.totp_secret = user.totp_secret
      /\ user'.password = user.password /\ user'.token_version = user.token_version
  BY <1>4, <1>5, <1>6
<1>8. user' \in Row  BY <1>4, <1>6
<1>9. seen = user =>
        /\ user'.backup_codes.batch = user.backup_codes.batch
        /\ user'.backup_codes.left = user.backup_codes.left \ {code}
  BY <1>3, <1>4, <1>5, <1>6
<1> DEFINE row == user'
           matched == Matched(r, "paper")
           done == [matched EXCEPT !.seen = row]
<1>10. /\ matched \in Work /\ matched.pc = "matched" /\ matched.factor = "paper"
       /\ matched.op = work[r].op /\ matched.caller = work[r].caller
       /\ matched.candidate = work[r].candidate
  BY <1>1 DEF Matched, Work, Factors
<1>11. row \in Row /\ work' = [work EXCEPT ![r] = done]  BY <1>2, <1>8
<1> HIDE DEF row, matched
<1>12. /\ done \in Work /\ done.pc = "matched" /\ done.factor = "paper"
       /\ done.op = work[r].op /\ done.caller = work[r].caller
       /\ done.candidate = work[r].candidate /\ done.seen = row
  BY <1>10, <1>11 DEF Work
<1> HIDE DEF done
<1>13. /\ DOMAIN work' = Requests /\ work'[r] = done
       /\ \A q \in Requests \ {r} : work'[q] = work[q]
  BY <1>1, <1>11
<1>14. row = user'  BY DEF row
<1>15. UNCHANGED <<codes, staged, sessions, overlaps>>  BY DEF SpendsCode
<1>16. seen = user => user'.backup_codes.left # user.backup_codes.left
  BY <1>2, <1>9
<1> QED  BY <1>1, <1>7, <1>8, <1>9, <1>12, <1>13, <1>14, <1>15, <1>16

-----------------------------------------------------------------------------
(* Types, under every interleaving.                                        *)

LEMMA WorkMoves ==
    ASSUME FactorInv, NEW r \in Requests, NEW w \in Work, WorkOK(w),
           DOMAIN work' = Requests, work'[r] = w,
           \A q \in Requests \ {r} : work'[q] = work[q],
           work' \in [Requests -> Work],
           user' \in Row, codes' \subseteq Pools, sessions' \subseteq Session,
           staged' \in Staged \cup {None}, staged' # None => WellFormed(staged'),
           overlaps' \in 0..MaxOverlaps
    PROVE  FactorInv'
<1>1. TypeOK'  BY DEF TypeOK
<1>2. \A q \in Requests : WorkOK(work'[q])  BY DEF FactorInv
<1> QED  BY <1>1, <1>2 DEF FactorInv

\* A request moves and nothing else does, or only mailed codes.
LEMMA QuietMoves ==
    ASSUME FactorInv, NEW r \in Requests, NEW w \in Work, WorkOK(w),
           work' = [work EXCEPT ![r] = w], user' = user, staged' = staged,
           codes' \subseteq Pools, sessions' \subseteq Session, overlaps' \in 0..MaxOverlaps
    PROVE  FactorInv'
<1>1. /\ work \in [Requests -> Work] /\ user \in Row /\ staged \in Staged \cup {None}
      /\ staged # None => WellFormed(staged)
  BY DEF FactorInv, TypeOK
<1>2. /\ DOMAIN work' = Requests /\ work'[r] = w /\ work' \in [Requests -> Work]
      /\ \A q \in Requests \ {r} : work'[q] = work[q]
  BY <1>1
<1> QED  BY <1>1, <1>2, WorkMoves

LEMMA MintedTyped ==
    ASSUME TypeOK, NEW tv \in Versions, NEW kind \in Kinds, Minted(tv, kind)
    PROVE  sessions' \subseteq Session
BY DEF TypeOK, Minted, Session

\* An operation a session or a pending token may open.
LEMMA OpenStep ==
    ASSUME FactorInv, NEW r \in Requests, NEW op \in Ops, NEW caller \in Vias \cup Kinds,
           Open(r, op, caller),
           op \in {"disable", "regenerate", "password"} => caller \in Kinds
    PROVE  FactorInv'
<1> DEFINE w == [pc |-> "open", op |-> op, caller |-> caller, seen |-> user, factor |-> None,
                 candidate |-> Mail]
<1>1. user \in Row /\ Mail \in Staged  BY DEF FactorInv, TypeOK, Mail, Staged, Methods
<1>2. w \in Work
  <2> HIDE DEF Mail
  <2> QED  BY <1>1 DEF Work
<1>3. WorkOK(w)  BY DEF WorkOK
<1>4. /\ work' = [work EXCEPT ![r] = w] /\ UNCHANGED <<user, codes, staged, sessions>>
      /\ overlaps' \in {overlaps, overlaps + 1} /\ overlaps' <= MaxOverlaps
  BY DEF Open
<1>5. /\ codes \subseteq Pools /\ sessions \subseteq Session
      /\ overlaps' \in 0..MaxOverlaps
  BY <1>4, BoundAssumption DEF FactorInv, TypeOK
<1> HIDE DEF w
<1> QED  BY <1>2, <1>3, <1>4, <1>5, QuietMoves

Opens(r) ==
    \/ Login(r) \/ VerifyTwoFactorLogin(r) \/ SetupTwoFactor(r) \/ ConfirmTwoFactorSetup(r)
    \/ DisableTwoFactor(r) \/ RegenerateBackupCodes(r) \/ SetPassword(r)
    \/ AdminDisableTwoFactor(r)

\* Who opened it: for a change of what sign-in takes, a live session.
LEMMA OpensFacts ==
    ASSUME FactorInv, NEW r \in Requests, Opens(r)
    PROVE  \E op \in Ops, caller \in Vias \cup Kinds :
             /\ Open(r, op, caller)
             /\ op \in {"disable", "regenerate", "password"} =>
                  \E s \in sessions : Valid(s) /\ caller = s.kind /\ caller \in Kinds
             /\ op = "regenerate" => user.two_factor_enabled
<1>1. \A s \in sessions : s.kind \in Kinds  BY DEF FactorInv, TypeOK, Session
<1>2. \A via \in Pendings : via \in Vias  BY DEF Pendings, Vias
<1>3. ASSUME NEW op \in Ops, BySession(r, op)
      PROVE  \E caller \in Vias \cup Kinds :
               /\ Open(r, op, caller)
               /\ \E s \in sessions : Valid(s) /\ caller = s.kind /\ caller \in Kinds
  BY <1>1, <1>3 DEF BySession
<1>4. ASSUME NEW op \in Ops, ByPending(r, op)
      PROVE  \E caller \in Vias \cup Kinds : Open(r, op, caller)
  BY <1>2, <1>4 DEF ByPending
<1>5. CASE Login(r) \/ AdminDisableTwoFactor(r)
  BY <1>5 DEF Login, AdminDisableTwoFactor, Ops, Vias
<1>6. CASE VerifyTwoFactorLogin(r) \/ SetupTwoFactor(r) \/ ConfirmTwoFactorSetup(r)
  <2>1. PICK op \in {"verify", "setup", "confirm"} : BySession(r, op) \/ ByPending(r, op)
    BY <1>6 DEF VerifyTwoFactorLogin, SetupTwoFactor, ConfirmTwoFactorSetup
  <2>2. op \in Ops /\ op \notin {"disable", "regenerate", "password"}  BY DEF Ops
  <2>3. PICK caller \in Vias \cup Kinds : Open(r, op, caller)  BY <1>3, <1>4, <2>1, <2>2
  <2> QED  BY <2>2, <2>3
<1>7. CASE DisableTwoFactor(r) \/ RegenerateBackupCodes(r) \/ SetPassword(r)
  <2>1. PICK op \in {"disable", "regenerate", "password"} :
          BySession(r, op) /\ (op = "regenerate" => user.two_factor_enabled)
    BY <1>7 DEF DisableTwoFactor, RegenerateBackupCodes, SetPassword
  <2>2. op \in Ops  BY DEF Ops
  <2> QED  BY <1>3, <2>1, <2>2
<1> QED  BY <1>5, <1>6, <1>7 DEF Opens

LEMMA OpensStep ==
    ASSUME FactorInv, NEW r \in Requests, Opens(r)
    PROVE  FactorInv'
BY OpensFacts, OpenStep

\* An authenticator or a mailed code matched: the request moves on, nothing else.
MatchesQuietly(r) ==
    \E factor \in {"authenticator", "mailbox"} :
        /\ work[r].pc = "open" /\ NeedsFactor(work[r])
        /\ factor = "mailbox" => EmailFactorAllowed(work[r])
        /\ work' = [work EXCEPT ![r] = Matched(r, factor)]
        /\ UNCHANGED <<user, codes, staged, sessions, overlaps>>

LEMMA MatchesSplit ==
    ASSUME NEW r \in Requests, SecondFactorMatches(r)
    PROVE  MatchesQuietly(r) \/ SpendsCode(r)
BY DEF SecondFactorMatches, MatchesQuietly, SpendsCode

\* What a match changes of the request.
LEMMA MatchedTyped ==
    ASSUME FactorInv, NEW r \in Requests, NEW factor \in Factors
    PROVE  /\ Matched(r, factor) \in Work /\ Matched(r, factor).pc = "matched"
           /\ Matched(r, factor).factor = factor /\ factor # None
           /\ Matched(r, factor).op = work[r].op /\ Matched(r, factor).caller = work[r].caller
           /\ Matched(r, factor).seen = work[r].seen
<1>1. work[r] \in Work  BY DEF FactorInv, TypeOK
<1> QED  BY <1>1, NoneAssumption DEF Matched, Work, Factors

LEMMA MatchesQuietlyStep ==
    ASSUME FactorInv, NEW r \in Requests, MatchesQuietly(r)
    PROVE  FactorInv'
<1>1. PICK factor \in {"authenticator", "mailbox"} :
        /\ work[r].pc = "open" /\ NeedsFactor(work[r])
        /\ factor = "mailbox" => EmailFactorAllowed(work[r])
        /\ work' = [work EXCEPT ![r] = Matched(r, factor)]
        /\ UNCHANGED <<user, codes, staged, sessions, overlaps>>
  BY DEF MatchesQuietly
<1> DEFINE w == Matched(r, factor)
<1>2. /\ w \in Work /\ w.pc = "matched" /\ w.factor = factor /\ factor # None
      /\ w.op = work[r].op /\ w.caller = work[r].caller
  BY MatchedTyped DEF Factors
<1>3. WorkOK(work[r])  BY DEF FactorInv
<1> HIDE DEF w
<1>4. WorkOK(w)
  BY <1>1, <1>2, <1>3 DEF WorkOK, NeedsFactor, EmailFactorAllowed
<1>5. codes' \subseteq Pools /\ sessions' \subseteq Session /\ overlaps' \in 0..MaxOverlaps
  BY <1>1 DEF FactorInv, TypeOK
<1> QED  BY <1>1, <1>2, <1>4, <1>5, QuietMoves DEF w

LEMMA SpendsStep ==
    ASSUME FactorInv, NEW r \in Requests, SpendsCode(r)
    PROVE  FactorInv'
<1> DEFINE w == work'[r]
<1>1. /\ w \in Work /\ w.pc = "matched" /\ w.factor = "paper" /\ w.op = work[r].op
      /\ w.caller = work[r].caller /\ w.candidate = work[r].candidate
      /\ NeedsFactor(work[r]) /\ WorkOK(work[r])
      /\ user' \in Row /\ UNCHANGED <<codes, staged, sessions, overlaps>>
      /\ DOMAIN work' = Requests /\ \A q \in Requests \ {r} : work'[q] = work[q]
  BY SpendsFacts DEF SpendsCode, FactorInv
<1>2. WorkOK(w)  BY <1>1, NoneAssumption DEF WorkOK, NeedsFactor
<1>3. work' \in [Requests -> Work]
  <2>1. work \in [Requests -> Work]  BY DEF FactorInv, TypeOK
  <2>2. \A q \in Requests : work'[q] \in Work  BY <1>1, <2>1
  <2>3. work' = [q \in Requests |-> work'[q]]
    BY <2>1 DEF SpendsCode
  <2> QED  BY <2>2, <2>3
<1> QED  BY <1>1, <1>2, <1>3, WorkMoves DEF FactorInv, TypeOK

LEMMA StagedMatchesStep ==
    ASSUME FactorInv, NEW r \in Requests, StagedFactorMatches(r)
    PROVE  FactorInv'
<1> DEFINE factor == IF staged.method = "email" THEN "mailbox" ELSE "authenticator"
           base == Matched(r, factor)
           candidate == staged
           w == [base EXCEPT !.candidate = candidate]
<1>1. /\ staged \in Staged /\ WellFormed(staged) /\ factor \in Factors
      /\ WorkOK(work[r]) /\ work[r].op = "confirm"
      /\ work' = [work EXCEPT ![r] = w] /\ UNCHANGED <<user, codes, staged, sessions, overlaps>>
  BY DEF StagedFactorMatches, FactorInv, TypeOK, Factors
<1> HIDE DEF factor
<1>2. /\ base \in Work /\ base.pc = "matched" /\ base.factor = factor /\ factor # None
      /\ base.op = work[r].op /\ base.caller = work[r].caller
  BY <1>1, MatchedTyped
<1> HIDE DEF base, candidate
<1>3. /\ w \in Work /\ w.pc = "matched" /\ w.factor = factor /\ w.op = work[r].op
      /\ w.caller = work[r].caller /\ w.candidate = candidate
  BY <1>1, <1>2 DEF Work, candidate
<1>4. candidate = staged  BY DEF candidate
<1> HIDE DEF w
<1>5. WorkOK(w)  BY <1>1, <1>2, <1>3, <1>4 DEF WorkOK
<1>6. codes' \subseteq Pools /\ sessions' \subseteq Session /\ overlaps' \in 0..MaxOverlaps
  BY <1>1 DEF FactorInv, TypeOK
<1> QED  BY <1>1, <1>3, <1>5, <1>6, QuietMoves

\* A request is done, and has not touched the row.
LEMMA DoneMoves ==
    ASSUME FactorInv, NEW r \in Requests, Done(r), user' = user,
           codes' \subseteq Pools, sessions' \subseteq Session, overlaps' = overlaps,
           staged' \in Staged \cup {None}, staged' # None => WellFormed(staged')
    PROVE  FactorInv'
<1>1. WorkOK(Idle)  BY IdleTyped DEF WorkOK
<1>2. work' = [work EXCEPT ![r] = Idle]  BY DEF Done
<1>3. work \in [Requests -> Work] /\ user \in Row /\ overlaps \in 0..MaxOverlaps
  BY DEF FactorInv, TypeOK
<1>4. /\ DOMAIN work' = Requests /\ work'[r] = Idle
      /\ \A q \in Requests \ {r} : work'[q] = work[q]
      /\ work' \in [Requests -> Work]
  BY <1>2, <1>3, IdleTyped
<1> QED  BY <1>1, <1>3, <1>4, IdleTyped, WorkMoves

\* An answer to a login: at most a session of one channel, and mail.
LEMMA OutcomeTyped ==
    ASSUME FactorInv, NEW row \in Row, NEW via, LoginOutcome(row, via)
    PROVE  /\ codes' \subseteq Pools /\ sessions' \subseteq Session
           /\ UNCHANGED <<user, staged, overlaps>>
           /\ \/ sessions' = sessions
              \/ /\ ~row.two_factor_enabled
                 /\ sessions' = sessions \cup {[tv |-> row.token_version, kind |-> "one"]}
<1>1. codes \subseteq Pools /\ sessions \subseteq Session /\ row.token_version \in Versions
  BY DEF FactorInv, TypeOK, Row
<1>2. codes' \subseteq Pools  BY <1>1 DEF LoginOutcome, Pools
<1>3. \/ sessions' = sessions
      \/ /\ ~row.two_factor_enabled
         /\ sessions' = sessions \cup {[tv |-> row.token_version, kind |-> "one"]}
  BY DEF LoginOutcome, Minted
<1>4. [tv |-> row.token_version, kind |-> "one"] \in Session  BY <1>1 DEF Session, Kinds
<1> QED  BY <1>1, <1>2, <1>3, <1>4 DEF LoginOutcome

\* The ends that leave the row alone.
EndsQuietly(r) ==
    FinishLogin(r) \/ FinishVerify(r) \/ FinishSetup(r) \/ ClearStaged(r) \/ Refuse(r)

\* What they leave: the row, the overlaps, and the sessions, to which a sign-in
\* of an account that is not enrolled adds one of one channel, and one that
\* asked for a second factor adds one of two.
LEMMA EndsQuietlyFacts ==
    ASSUME FactorInv, NEW r \in Requests, EndsQuietly(r)
    PROVE  /\ work[r].pc # "idle" /\ Done(r) /\ user' = user /\ overlaps' = overlaps
           /\ codes' \subseteq Pools /\ sessions' \subseteq Session
           /\ staged' \in Staged \cup {None} /\ (staged' # None => WellFormed(staged'))
           /\ \/ sessions' = sessions
              \/ /\ work[r].pc \in {"open", "matched"}
                 /\ \E kind \in Kinds :
                      /\ sessions' = sessions
                            \cup {[tv |-> work[r].seen.token_version, kind |-> kind]}
                      /\ kind # "one" \/ ~work[r].seen.two_factor_enabled
<1>1. /\ work[r] \in Work /\ work[r].seen \in Row /\ WorkOK(work[r])
      /\ work[r].seen.token_version \in Versions
      /\ codes \subseteq Pools /\ sessions \subseteq Session
      /\ staged \in Staged \cup {None} /\ (staged # None => WellFormed(staged))
  BY DEF FactorInv, TypeOK, Work, Row
<1>2. CASE FinishLogin(r)
  <2>1. /\ codes' \subseteq Pools /\ sessions' \subseteq Session
        /\ UNCHANGED <<user, staged, overlaps>>
        /\ \/ sessions' = sessions
           \/ /\ ~work[r].seen.two_factor_enabled
              /\ sessions' = sessions \cup {[tv |-> work[r].seen.token_version, kind |-> "one"]}
    BY <1>1, <1>2, OutcomeTyped DEF FinishLogin
  <2>2. work[r].pc \in {"open", "matched"} /\ Done(r)  BY <1>2 DEF FinishLogin, Ready
  <2> QED  BY <1>1, <2>1, <2>2 DEF Kinds
<1>3. CASE FinishVerify(r)
  <2>1. /\ work[r].op = "verify" /\ work[r].pc = "matched" /\ Done(r)
        /\ codes' \subseteq codes /\ UNCHANGED <<user, staged, overlaps>>
        /\ sessions' = sessions
              \cup {[tv |-> work[r].seen.token_version, kind |-> KindOf(work[r])]}
    BY <1>3 DEF FinishVerify, Ready, NeedsFactor, Minted
  <2>2. KindOf(work[r]) = "two"  BY <1>1, <2>1 DEF WorkOK, KindOf
  <2>3. [tv |-> work[r].seen.token_version, kind |-> "two"] \in Session
    BY <1>1 DEF Session, Kinds
  <2> QED  BY <1>1, <2>1, <2>2, <2>3 DEF Kinds
<1>4. CASE FinishSetup(r)
  <2>1. /\ work[r].pc # "idle" /\ Done(r) /\ UNCHANGED <<user, sessions, overlaps>>
    BY <1>4 DEF FinishSetup, Ready
  <2>2. PICK candidate \in {Mail} \cup [method: {"totp"}, secret: FreshSecrets,
                                            mailed: {OnlyMailbox(work[r])}] :
          /\ staged' = candidate
          /\ codes' = (codes \ Used(work[r])) \cup (IF candidate = Mail THEN {"enrol"} ELSE {})
    BY <1>4 DEF FinishSetup
  <2>3. codes' \subseteq Pools  BY <1>1, <2>2 DEF Pools
  <2>4. FreshSecrets \subseteq Secrets  BY DEF FreshSecrets
  <2>5. candidate \in Staged /\ WellFormed(candidate)
    <3>1. Mail \in Staged /\ WellFormed(Mail)  BY DEF Mail, Staged, Methods, WellFormed
    <3>2. OnlyMailbox(work[r]) \in BOOLEAN  BY DEF OnlyMailbox
    <3>3. ASSUME NEW c \in [method: {"totp"}, secret: FreshSecrets, mailed: {OnlyMailbox(work[r])}]
          PROVE  c \in Staged /\ WellFormed(c)
      BY <2>4, <3>2, NoneAssumption DEF Staged, Methods, WellFormed
    <3> QED  BY <2>2, <3>1, <3>3
  <2> QED  BY <1>1, <2>1, <2>2, <2>3, <2>5
<1>5. CASE ClearStaged(r)  BY <1>1, <1>5 DEF ClearStaged
<1>6. CASE Refuse(r)  BY <1>1, <1>6 DEF Refuse
<1> QED  BY <1>2, <1>3, <1>4, <1>5, <1>6 DEF EndsQuietly

LEMMA EndsQuietlyStep ==
    ASSUME FactorInv, NEW r \in Requests, EndsQuietly(r)
    PROVE  FactorInv'
BY EndsQuietlyFacts, DoneMoves

LEMMA FinishesStep ==
    ASSUME FactorInv, NEW r \in Requests, Finishes(r)
    PROVE  FactorInv'
<1> DEFINE w == work[r]
           next == IF work[r].op = "confirm" THEN Clearing ELSE Idle
<1>1. /\ w \in Work /\ w.seen \in Row /\ w.seen.token_version < MaxVersion
      /\ w.op \in {"confirm", "disable", "admin", "regenerate", "password"}
      /\ user' = Written(w.seen, NewRow(w)) /\ work' = [work EXCEPT ![r] = next]
      /\ codes' \subseteq codes /\ staged' = staged /\ overlaps' = overlaps
      /\ w.op = "admin" => sessions' = sessions
      /\ w.op # "admin" =>
           sessions' = sessions \cup {[tv |-> user'.token_version, kind |-> Renewed(w)]}
  BY FinishesFacts
<1>2. /\ work \in [Requests -> Work] /\ user \in Row /\ codes \subseteq Pools
      /\ sessions \subseteq Session /\ overlaps \in 0..MaxOverlaps
      /\ staged \in Staged \cup {None} /\ (staged # None => WellFormed(staged))
      /\ WorkOK(w)
  BY DEF FactorInv, TypeOK
<1>3. NewRow(w) \in Row  BY <1>1, NewRowTyped
<1>4. user' \in Row  BY <1>1, <1>2, <1>3, WrittenTyped
<1>5. sessions' \subseteq Session
  <2>1. user'.token_version \in Versions  BY <1>4 DEF Row
  <2>2. w.op # "admin" => Renewed(w) \in Kinds  BY <1>1, <1>2 DEF WorkOK, Renewed, ConfirmedKind, Kinds
  <2>3. w.op # "admin" => [tv |-> user'.token_version, kind |-> Renewed(w)] \in Session
    BY <2>1, <2>2 DEF Session
  <2> QED  BY <1>1, <1>2, <2>3
<1>6. next \in Work /\ WorkOK(next)  BY IdleTyped DEF WorkOK
<1> HIDE DEF next
<1>7. /\ DOMAIN work' = Requests /\ work'[r] = next /\ work' \in [Requests -> Work]
      /\ \A q \in Requests \ {r} : work'[q] = work[q]
  BY <1>1, <1>2, <1>6
<1>8. codes' \subseteq Pools  BY <1>1, <1>2
<1> QED  BY <1>1, <1>2, <1>4, <1>5, <1>6, <1>7, <1>8, WorkMoves

\* Mail that is sent, a code login, a sign-out: no request moves.
Between == SendEmailFallback \/ SendReauthCode \/ VerifyMagicCode \/ SignOut

LEMMA BetweenFacts ==
    ASSUME FactorInv, Between
    PROVE  /\ UNCHANGED <<user, staged, overlaps, work>>
           /\ codes' \subseteq Pools /\ sessions' \subseteq Session
           /\ \/ sessions' \subseteq sessions
              \/ /\ ~user.two_factor_enabled
                 /\ sessions' = sessions \cup {[tv |-> user.token_version, kind |-> "one"]}
<1>1. codes \subseteq Pools /\ sessions \subseteq Session /\ user \in Row
  BY DEF FactorInv, TypeOK
<1>2. CASE SendEmailFallback \/ SendReauthCode
  BY <1>1, <1>2 DEF SendEmailFallback, SendReauthCode, Sent, Pools
<1>3. CASE VerifyMagicCode
  BY <1>1, <1>3, OutcomeTyped DEF VerifyMagicCode
<1>4. CASE SignOut  BY <1>1, <1>4 DEF SignOut
<1> QED  BY <1>2, <1>3, <1>4 DEF Between

\* Next, sorted by what a step does to the row and to the request.
LEMMA NextSorted ==
    ASSUME Next
    PROVE  \/ Between
           \/ \E r \in Requests :
                \/ Opens(r) \/ MatchesQuietly(r) \/ SpendsCode(r) \/ StagedFactorMatches(r)
                \/ EndsQuietly(r) \/ Finishes(r)
BY MatchesSplit DEF Next, Between, Opens, EndsQuietly, Finishes

LEMMA FactorStep ==
    ASSUME FactorInv, [Next]_vars
    PROVE  FactorInv'
<1>1. CASE UNCHANGED vars  BY <1>1 DEF vars, FactorInv, TypeOK
<1>2. CASE Between
  BY <1>2, BetweenFacts DEF FactorInv, TypeOK
<1>3. ASSUME NEW r \in Requests, Opens(r) PROVE FactorInv'  BY <1>3, OpensStep
<1>4. ASSUME NEW r \in Requests, MatchesQuietly(r) PROVE FactorInv'
  BY <1>4, MatchesQuietlyStep
<1>5. ASSUME NEW r \in Requests, SpendsCode(r) PROVE FactorInv'  BY <1>5, SpendsStep
<1>6. ASSUME NEW r \in Requests, StagedFactorMatches(r) PROVE FactorInv'
  BY <1>6, StagedMatchesStep
<1>7. ASSUME NEW r \in Requests, EndsQuietly(r) PROVE FactorInv'  BY <1>7, EndsQuietlyStep
<1>8. ASSUME NEW r \in Requests, Finishes(r) PROVE FactorInv'  BY <1>8, FinishesStep
<1> QED  BY <1>1, <1>2, <1>3, <1>4, <1>5, <1>6, <1>7, <1>8, NextSorted

\* The rows an account may start with.
LEMMA InitTyped ==
    ASSUME Init
    PROVE  /\ user \in Row /\ ~user.two_factor_enabled /\ user.two_factor_method = None
           /\ user.totp_secret = None /\ user.backup_codes = NoCodes
<1>1. PICK password \in BOOLEAN : user = [Unset EXCEPT !.password = password]
  BY DEF Init
<1>2. /\ Unset \in Row /\ ~Unset.two_factor_enabled /\ Unset.two_factor_method = None
      /\ Unset.totp_secret = None /\ Unset.backup_codes = NoCodes
  BY BoundAssumption DEF Unset, Row, NoCodes, CodeLists, Methods, Versions
<1> QED  BY <1>1, <1>2 DEF Row

LEMMA FactorInit == Init => FactorInv
<1> SUFFICES ASSUME Init PROVE FactorInv
  OBVIOUS
<1>1. TypeOK
  <2>1. user \in Row  BY InitTyped
  <2>2. work \in [Requests -> Work]  BY IdleTyped DEF Init
  <2>3. overlaps \in 0..MaxOverlaps  BY BoundAssumption DEF Init
  <2> QED  BY <2>1, <2>2, <2>3 DEF Init, TypeOK
<1>2. \A r \in Requests : WorkOK(work[r])  BY IdleTyped DEF Init, WorkOK
<1> QED  BY <1>1, <1>2 DEF Init, FactorInv

\* Types hold under every interleaving: versions stay in their range, and every
\* row written column by column is a row.
THEOREM TypeCorrect == Spec => []TypeOK
<1>1. FactorInv => TypeOK  BY DEF FactorInv
<1> QED  BY <1>1, FactorInit, FactorStep, PTL DEF Spec

-----------------------------------------------------------------------------
(* What moves the factor, under every interleaving.                        *)

\* Only a change and a spent backup code write the row.
LEMMA OnlyTheseWrite ==
    ASSUME FactorInv, [Next]_vars, user' # user
    PROVE  \E r \in Requests : Finishes(r) \/ SpendsCode(r)
<1>1. ~UNCHANGED vars /\ ~Between  BY BetweenFacts DEF vars
<1>2. \A r \in Requests :
        /\ ~Opens(r) /\ ~MatchesQuietly(r) /\ ~StagedFactorMatches(r) /\ ~EndsQuietly(r)
  <2>1. \A r \in Requests : ~Opens(r)  BY OpensFacts DEF Open
  <2>2. \A r \in Requests : ~EndsQuietly(r)  BY EndsQuietlyFacts
  <2> QED  BY <2>1, <2>2 DEF MatchesQuietly, StagedFactorMatches
<1> QED  BY <1>1, <1>2, NextSorted

\* The columns a change writes, whatever was committed since it loaded the row.
LEMMA FinishedColumns ==
    ASSUME FactorInv, NEW r \in Requests, Finishes(r)
    PROVE  LET w == work[r] IN
           /\ user' \in Row
           /\ w.op = "confirm" => user'.totp_secret \in {user.totp_secret, w.candidate.secret}
           /\ w.op \in {"disable", "admin"} => user'.totp_secret \in {user.totp_secret, None}
           /\ w.op \in {"regenerate", "password"} => FactorOf(user') = FactorOf(user)
           /\ w.seen = user => user' = NewRow(w)
           /\ w.op \in {"confirm", "disable", "admin"} =>
                work'[r].pc \in {"idle", "clearing"}
<1> DEFINE w == work[r]
<1>1. /\ w \in Work /\ w.seen \in Row /\ w.seen.token_version < MaxVersion
      /\ w.op \in {"confirm", "disable", "admin", "regenerate", "password"}
      /\ user' = Written(w.seen, NewRow(w))
      /\ work' = [work EXCEPT ![r] = IF w.op = "confirm" THEN Clearing ELSE Idle]
      /\ user \in Row /\ DOMAIN work = Requests
  BY FinishesFacts DEF FactorInv, TypeOK
<1> DEFINE new == NewRow(w)
<1>2. /\ new \in Row
      /\ w.op = "confirm" => new.totp_secret = w.candidate.secret
      /\ w.op \in {"disable", "admin"} => new.totp_secret = None
      /\ w.op \in {"regenerate", "password"} =>
           /\ new.two_factor_enabled = w.seen.two_factor_enabled
           /\ new.two_factor_method = w.seen.two_factor_method
           /\ new.totp_secret = w.seen.totp_secret
  BY <1>1, NewRowTyped
<1>3. user' = Written(w.seen, new)  BY <1>1
<1>4. new = NewRow(w)  OBVIOUS
<1> HIDE DEF new
<1>5. /\ Written(w.seen, new) \in Row
      /\ w.seen = user => Written(w.seen, new) = new
      /\ \A column \in {"password", "token_version", "two_factor_enabled",
                        "two_factor_method", "totp_secret", "backup_codes"} :
           Written(w.seen, new)[column] =
               IF new[column] # w.seen[column] THEN new[column] ELSE user[column]
  BY <1>1, <1>2, WrittenTyped
<1>6. user'.totp_secret \in {user.totp_secret, new.totp_secret}  BY <1>3, <1>5
<1>7. w.op \in {"regenerate", "password"} => FactorOf(user') = FactorOf(user)
  BY <1>2, <1>3, <1>5 DEF FactorOf
<1>8. work'[r].pc \in {"idle", "clearing"}  BY <1>1, IdleTyped
<1> QED  BY <1>2, <1>3, <1>4, <1>5, <1>6, <1>7, <1>8

\* However requests overlap, the live factor moves only by a confirmation that
\* matched a code of the new one, by its proof, or by an administrator.
THEOREM FactorMovesOnlyOnProof == Spec => FactorMovesOnlyProved
<1>1. ASSUME FactorInv, [Next]_vars, FactorOf(user') # FactorOf(user)
      PROVE  \E r \in Requests :
              /\ work'[r].pc \in {"idle", "clearing"} /\ work[r].pc \in {"matched", "open"}
              /\ \/ work[r].op = "confirm" /\ work[r].factor # None
                       /\ user'.totp_secret \in {user.totp_secret, work[r].candidate.secret}
                 \/ work[r].op = "disable" /\ work[r].factor # None
                       /\ user'.totp_secret \in {user.totp_secret, None}
                 \/ work[r].op = "admin" /\ user'.totp_secret \in {user.totp_secret, None}
  <2>1. PICK r \in Requests : Finishes(r) \/ SpendsCode(r)
    BY <1>1, OnlyTheseWrite DEF FactorOf
  <2>2. ~SpendsCode(r)  BY <1>1, SpendsFacts DEF FactorOf
  <2>3. Finishes(r)  BY <2>1, <2>2
  <2>4. /\ work[r].op \in {"confirm", "disable", "admin", "regenerate", "password"}
        /\ work[r].pc \in {"open", "matched"}
        /\ work[r].op \in {"confirm", "disable"} => work[r].pc = "matched"
    BY <1>1, <2>3, FinishesFacts
  <2>5. work[r].op \in {"confirm", "disable", "admin"}  BY <1>1, <2>3, <2>4, FinishedColumns
  <2>6. work[r].op \in {"confirm", "disable"} => work[r].factor # None
    BY <1>1, <2>4 DEF FactorInv, WorkOK
  <2>7. /\ work[r].op = "confirm" =>
             user'.totp_secret \in {user.totp_secret, work[r].candidate.secret}
        /\ work[r].op \in {"disable", "admin"} => user'.totp_secret \in {user.totp_secret, None}
        /\ work'[r].pc \in {"idle", "clearing"}
    BY <1>1, <2>3, <2>5, FinishedColumns
  <2> QED  BY <2>4, <2>5, <2>6, <2>7
<1>2. FactorInv /\ [Next]_vars =>
        [FactorOf(user') # FactorOf(user) =>
          \E r \in Requests :
              /\ work'[r].pc \in {"idle", "clearing"} /\ work[r].pc \in {"matched", "open"}
              /\ \/ work[r].op = "confirm" /\ work[r].factor # None
                       /\ user'.totp_secret \in {user.totp_secret, work[r].candidate.secret}
                 \/ work[r].op = "disable" /\ work[r].factor # None
                       /\ user'.totp_secret \in {user.totp_secret, None}
                 \/ work[r].op = "admin" /\ user'.totp_secret \in {user.totp_secret, None}]_vars
  BY <1>1
<1> QED  BY <1>2, FactorInit, FactorStep, PTL DEF Spec, FactorMovesOnlyProved

-----------------------------------------------------------------------------
(* One request at a time.                                                  *)

LEMMA SerialInit == Init => SerialInv
<1> SUFFICES ASSUME Init PROVE SerialInv
  OBVIOUS
<1>1. \A r \in Requests : work[r].pc = "idle"  BY IdleTyped DEF Init
<1>2. sessions = {}  BY DEF Init
<1>3. Consistent(user)  BY InitTyped, FreshCodesTyped DEF Consistent
<1> QED  BY <1>1, <1>2, <1>3, InitTyped DEF SerialInv

\* The part about sessions, when the row stays and one that counts may be added.
LEMMA SessionsKept ==
    ASSUME FactorInv, SerialInv, Calm, user' = user,
           \/ sessions' \subseteq sessions
           \/ \E kind \in Kinds :
                /\ sessions' = sessions \cup {[tv |-> user.token_version, kind |-> kind]}
                /\ kind # "one" \/ ~user.two_factor_enabled
    PROVE  /\ \A s \in sessions' : s.tv <= user'.token_version
           /\ user'.two_factor_enabled =>
                \A s \in sessions' : s.tv = user'.token_version => s.kind # "one"
<1>1. user.token_version \in Nat  BY BoundAssumption DEF FactorInv, TypeOK, Row, Versions
<1>2. /\ \A s \in sessions : s.tv <= user.token_version
      /\ user.two_factor_enabled =>
           \A s \in sessions : s.tv = user.token_version => s.kind # "one"
  BY DEF SerialInv, Valid
<1>3. CASE sessions' \subseteq sessions  BY <1>2, <1>3
<1>4. ASSUME NEW kind \in Kinds,
             sessions' = sessions \cup {[tv |-> user.token_version, kind |-> kind]},
             kind # "one" \/ ~user.two_factor_enabled
      PROVE  /\ \A s \in sessions' : s.tv <= user'.token_version
             /\ user'.two_factor_enabled =>
                  \A s \in sessions' : s.tv = user'.token_version => s.kind # "one"
  BY <1>1, <1>2, <1>4
<1> QED  BY <1>3, <1>4

\* Putting the parts together.
LEMMA SerialParts ==
    ASSUME Calm' =>
             /\ \A r \in Requests :
                  work'[r].pc # "idle" =>
                     /\ \A q \in Requests \ {r} : work'[q].pc = "idle"
                     /\ work'[r].pc \in {"open", "matched"} =>
                          /\ work'[r].seen = user'
                          /\ work'[r].op \in {"regenerate", "password"}
                                /\ user'.two_factor_enabled => work'[r].caller # "one"
                          /\ work'[r].op = "regenerate" => user'.two_factor_enabled
             /\ \A s \in sessions' : s.tv <= user'.token_version
             /\ user'.two_factor_enabled =>
                  \A s \in sessions' : s.tv = user'.token_version => s.kind # "one"
             /\ Consistent(user')
    PROVE  SerialInv'
BY DEF SerialInv, Valid

\* What SerialInv says of a request under way.
LEMMA Alone ==
    ASSUME SerialInv, Calm, NEW r \in Requests, work[r].pc # "idle"
    PROVE  /\ \A q \in Requests \ {r} : work[q].pc = "idle"
           /\ work[r].pc \in {"open", "matched"} =>
                /\ work[r].seen = user
                /\ work[r].op \in {"regenerate", "password"} /\ user.two_factor_enabled =>
                     work[r].caller # "one"
                /\ work[r].op = "regenerate" => user.two_factor_enabled
           /\ \A s \in sessions : s.tv <= user.token_version
           /\ Consistent(user)
BY DEF SerialInv

\* Nothing happens to the row or to a request.
LEMMA SerialBetween ==
    ASSUME FactorInv, SerialInv, UNCHANGED <<user, overlaps, work>>,
           \/ sessions' \subseteq sessions
           \/ /\ ~user.two_factor_enabled
              /\ sessions' = sessions \cup {[tv |-> user.token_version, kind |-> "one"]}
    PROVE  SerialInv'
<1> SUFFICES ASSUME Calm PROVE SerialInv'
  BY DEF Calm, SerialInv
<1>1. "one" \in Kinds  BY DEF Kinds
<1>2. /\ \A s \in sessions' : s.tv <= user'.token_version
      /\ user'.two_factor_enabled =>
           \A s \in sessions' : s.tv = user'.token_version => s.kind # "one"
  BY <1>1, SessionsKept
<1>3. Consistent(user') /\ \A r \in Requests : work'[r].pc # "idle" =>
          /\ \A q \in Requests \ {r} : work'[q].pc = "idle"
          /\ work'[r].pc \in {"open", "matched"} =>
               /\ work'[r].seen = user'
               /\ work'[r].op \in {"regenerate", "password"} /\ user'.two_factor_enabled =>
                    work'[r].caller # "one"
               /\ work'[r].op = "regenerate" => user'.two_factor_enabled
  BY DEF SerialInv
<1> QED  BY <1>2, <1>3, SerialParts

\* A request opens while every other is idle, or the calm is over.
LEMMA SerialOpens ==
    ASSUME FactorInv, SerialInv, NEW r \in Requests, Opens(r)
    PROVE  SerialInv'
<1>1. PICK op \in Ops, caller \in Vias \cup Kinds :
        /\ Open(r, op, caller)
        /\ op \in {"disable", "regenerate", "password"} =>
             \E s \in sessions : Valid(s) /\ caller = s.kind /\ caller \in Kinds
        /\ op = "regenerate" => user.two_factor_enabled
  BY OpensFacts
<1> DEFINE w == [pc |-> "open", op |-> op, caller |-> caller, seen |-> user, factor |-> None,
                 candidate |-> Mail]
<1>2. /\ work' = [work EXCEPT ![r] = w] /\ UNCHANGED <<user, sessions>>
      /\ overlaps' = IF \A q \in Requests : work[q].pc = "idle" THEN overlaps ELSE overlaps + 1
      /\ overlaps \in Nat /\ DOMAIN work = Requests
  BY <1>1, BoundAssumption DEF Open, FactorInv, TypeOK
<1>3. w.pc = "open" /\ w.op = op /\ w.caller = caller /\ w.seen = user  OBVIOUS
<1> HIDE DEF w
<1> SUFFICES ASSUME Calm' PROVE SerialInv'
  BY DEF SerialInv
<1>4. Calm /\ \A q \in Requests : work[q].pc = "idle"  BY <1>2 DEF Calm
<1>5. work'[r] = w /\ \A q \in Requests \ {r} : work'[q].pc = "idle"  BY <1>2, <1>4
<1>6. op \in {"regenerate", "password"} /\ user.two_factor_enabled => caller # "one"
  BY <1>1, <1>4 DEF SerialInv
<1>7. \A q \in Requests : work'[q].pc # "idle" =>
          /\ \A p \in Requests \ {q} : work'[p].pc = "idle"
          /\ work'[q].pc \in {"open", "matched"} =>
               /\ work'[q].seen = user'
               /\ work'[q].op \in {"regenerate", "password"} /\ user'.two_factor_enabled =>
                    work'[q].caller # "one"
               /\ work'[q].op = "regenerate" => user'.two_factor_enabled
  BY <1>1, <1>2, <1>3, <1>5, <1>6
<1>8. /\ \A s \in sessions' : s.tv <= user'.token_version
      /\ user'.two_factor_enabled =>
           \A s \in sessions' : s.tv = user'.token_version => s.kind # "one"
      /\ Consistent(user')
  BY <1>2, <1>4, SessionsKept DEF SerialInv
<1> QED  BY <1>7, <1>8, SerialParts

\* A request that matched still sees the row, which keeps its factor.
LEMMA SerialMatched ==
    ASSUME FactorInv, SerialInv, NEW r \in Requests, work[r].pc = "open",
           work'[r].pc = "matched", work'[r].op = work[r].op,
           work'[r].caller = work[r].caller,
           work[r].seen = user => work'[r].seen = user',
           \A q \in Requests \ {r} : work'[q] = work[q],
           UNCHANGED <<sessions, overlaps>>,
           user'.token_version = user.token_version,
           user'.two_factor_enabled = user.two_factor_enabled,
           Calm /\ Consistent(user) => Consistent(user')
    PROVE  SerialInv'
<1> SUFFICES ASSUME Calm PROVE SerialInv'
  BY DEF Calm, SerialInv
<1>1. /\ \A q \in Requests \ {r} : work[q].pc = "idle"
      /\ work[r].seen = user
      /\ work[r].op \in {"regenerate", "password"} /\ user.two_factor_enabled =>
           work[r].caller # "one"
      /\ work[r].op = "regenerate" => user.two_factor_enabled
      /\ Consistent(user')
  BY Alone
<1>2. \A q \in Requests : work'[q].pc # "idle" =>
          /\ \A p \in Requests \ {q} : work'[p].pc = "idle"
          /\ work'[q].pc \in {"open", "matched"} =>
               /\ work'[q].seen = user'
               /\ work'[q].op \in {"regenerate", "password"} /\ user'.two_factor_enabled =>
                    work'[q].caller # "one"
               /\ work'[q].op = "regenerate" => user'.two_factor_enabled
  BY <1>1
<1>3. /\ \A s \in sessions' : s.tv <= user'.token_version
      /\ user'.two_factor_enabled =>
           \A s \in sessions' : s.tv = user'.token_version => s.kind # "one"
  BY DEF SerialInv, Valid
<1> QED  BY <1>1, <1>2, <1>3, SerialParts

LEMMA SerialMatches ==
    ASSUME FactorInv, SerialInv, NEW r \in Requests,
           MatchesQuietly(r) \/ SpendsCode(r) \/ StagedFactorMatches(r)
    PROVE  SerialInv'
<1>1. work[r] \in Work /\ DOMAIN work = Requests  BY DEF FactorInv, TypeOK
<1>2. CASE MatchesQuietly(r)
  <2>1. PICK factor \in {"authenticator", "mailbox"} :
          /\ work[r].pc = "open" /\ work' = [work EXCEPT ![r] = Matched(r, factor)]
          /\ UNCHANGED <<user, sessions, overlaps>>
    BY <1>2 DEF MatchesQuietly
  <2>2. /\ work'[r] = Matched(r, factor)
        /\ \A q \in Requests \ {r} : work'[q] = work[q]
    BY <1>1, <2>1
  <2>3. /\ work'[r].pc = "matched" /\ work'[r].op = work[r].op
        /\ work'[r].caller = work[r].caller /\ work'[r].seen = work[r].seen
    BY <2>2, MatchedTyped DEF Factors
  <2> QED  BY <2>1, <2>2, <2>3, SerialMatched
<1>3. CASE SpendsCode(r)
  <2>1. ASSUME Calm, Consistent(user) PROVE Consistent(user')
    <3>1. work[r].seen = user  BY <1>3, <2>1, Alone, SpendsFacts
    <3>2. user'.backup_codes.left \subseteq user.backup_codes.left  BY <1>3, <3>1, SpendsFacts
    <3> QED  BY <1>3, <2>1, <3>2, SpendsFacts DEF Consistent
  <2> QED  BY <1>3, <2>1, SpendsFacts, SerialMatched
<1>4. CASE StagedFactorMatches(r)
  <2> DEFINE factor == IF staged.method = "email" THEN "mailbox" ELSE "authenticator"
             base == Matched(r, factor)
             candidate == staged
             w == [base EXCEPT !.candidate = candidate]
  <2>1. /\ work[r].pc = "open" /\ work' = [work EXCEPT ![r] = w]
        /\ UNCHANGED <<user, sessions, overlaps>> /\ factor \in Factors
    BY <1>4 DEF StagedFactorMatches, Factors
  <2> HIDE DEF factor
  <2>2. /\ base \in Work /\ base.pc = "matched" /\ base.op = work[r].op
        /\ base.caller = work[r].caller /\ base.seen = work[r].seen
    BY <2>1, MatchedTyped
  <2> HIDE DEF base, candidate
  <2>3. /\ w.pc = "matched" /\ w.op = work[r].op /\ w.caller = work[r].caller
        /\ w.seen = work[r].seen
    BY <2>2 DEF Work
  <2> HIDE DEF w
  <2>4. work'[r] = w /\ \A q \in Requests \ {r} : work'[q] = work[q]  BY <1>1, <2>1
  <2> QED  BY <2>1, <2>3, <2>4, SerialMatched
<1> QED  BY <1>2, <1>3, <1>4

\* A request that is done leaves all the others idle.
LEMMA SerialDone ==
    ASSUME FactorInv, SerialInv, NEW r \in Requests, EndsQuietly(r)
    PROVE  SerialInv'
<1>1. /\ work[r].pc # "idle" /\ work' = [work EXCEPT ![r] = Idle]
      /\ user' = user /\ overlaps' = overlaps /\ DOMAIN work = Requests
      /\ \/ sessions' = sessions
         \/ /\ work[r].pc \in {"open", "matched"}
            /\ \E kind \in Kinds :
                 /\ sessions' = sessions \cup {[tv |-> work[r].seen.token_version, kind |-> kind]}
                 /\ kind # "one" \/ ~work[r].seen.two_factor_enabled
  BY EndsQuietlyFacts DEF Done, FactorInv, TypeOK
<1> SUFFICES ASSUME Calm PROVE SerialInv'
  BY <1>1 DEF Calm, SerialInv
<1>2. /\ \A q \in Requests \ {r} : work[q].pc = "idle"
      /\ work[r].pc \in {"open", "matched"} => work[r].seen = user
      /\ Consistent(user')
  BY <1>1, Alone
<1>3. \A q \in Requests : work'[q].pc = "idle"  BY <1>1, <1>2, IdleTyped
<1>4. \/ sessions' \subseteq sessions
      \/ \E kind \in Kinds :
           /\ sessions' = sessions \cup {[tv |-> user.token_version, kind |-> kind]}
           /\ kind # "one" \/ ~user.two_factor_enabled
  BY <1>1, <1>2
<1>5. /\ \A s \in sessions' : s.tv <= user'.token_version
      /\ user'.two_factor_enabled =>
           \A s \in sessions' : s.tv = user'.token_version => s.kind # "one"
  BY <1>1, <1>4, SessionsKept
<1> QED  BY <1>2, <1>3, <1>5, SerialParts

\* A change committed by a request that was alone: one version on, consistent,
\* and ahead of every session but the one it hands out.
LEMMA ChangedRow ==
    ASSUME FactorInv, SerialInv, Calm, NEW r \in Requests, Finishes(r)
    PROVE  /\ work[r].seen = user /\ user' = NewRow(work[r])
           /\ user'.token_version = user.token_version + 1
           /\ \A s \in sessions : s.tv < user'.token_version
           /\ Consistent(user')
           /\ user'.two_factor_enabled /\ work[r].op # "admin" => Renewed(work[r]) # "one"
<1> DEFINE w == work[r]
<1>1. /\ w \in Work /\ w.seen \in Row /\ w.seen.token_version < MaxVersion
      /\ w.op \in {"confirm", "disable", "admin", "regenerate", "password"}
      /\ w.pc \in {"open", "matched"}
      /\ w.op = "confirm" => w.pc = "matched"
  BY FinishesFacts
<1>2. /\ w.seen = user
      /\ w.op \in {"regenerate", "password"} /\ user.two_factor_enabled => w.caller # "one"
      /\ w.op = "regenerate" => user.two_factor_enabled
      /\ \A s \in sessions : s.tv <= user.token_version
      /\ Consistent(user)
  BY <1>1, Alone
<1>3. user' = NewRow(w)  BY <1>2, FinishedColumns
<1>4. w.op = "confirm" => WellFormed(w.candidate)  BY <1>1 DEF FactorInv, WorkOK
<1> DEFINE new == NewRow(w)
<1>5. /\ new.token_version = user.token_version + 1
      /\ w.op = "confirm" =>
           /\ new.two_factor_enabled /\ new.two_factor_method = w.candidate.method
           /\ new.totp_secret = w.candidate.secret
      /\ w.op \in {"disable", "admin"} =>
           /\ ~new.two_factor_enabled /\ new.two_factor_method = None
           /\ new.totp_secret = None /\ new.backup_codes.left = {}
      /\ w.op \in {"regenerate", "password"} =>
           /\ new.two_factor_enabled = user.two_factor_enabled
           /\ new.two_factor_method = user.two_factor_method
           /\ new.totp_secret = user.totp_secret
      /\ w.op = "password" => new.backup_codes = user.backup_codes
  BY <1>1, <1>2, NewRowTyped
<1>6. new = user'  BY <1>3
<1> HIDE DEF new
<1>7. user.token_version \in Nat /\ \A s \in sessions : s.tv \in Nat
  BY BoundAssumption DEF FactorInv, TypeOK, Row, Session, Versions
<1>8. \A s \in sessions : s.tv < new.token_version  BY <1>2, <1>5, <1>7
<1>9. Consistent(new)
  <2>1. CASE w.op = "confirm"  BY <1>4, <1>5, <2>1 DEF Consistent, WellFormed
  <2>2. CASE w.op \in {"disable", "admin"}  BY <1>5, <2>2 DEF Consistent
  <2>3. CASE w.op = "regenerate"  BY <1>2, <1>5, <2>3 DEF Consistent
  <2>4. CASE w.op = "password"  BY <1>2, <1>5, <2>4 DEF Consistent
  <2> QED  BY <1>1, <2>1, <2>2, <2>3, <2>4
<1>10. new.two_factor_enabled /\ w.op # "admin" => Renewed(w) # "one"
  BY <1>1, <1>2, <1>5 DEF Renewed, ConfirmedKind
<1> QED  BY <1>2, <1>3, <1>5, <1>6, <1>8, <1>9, <1>10

LEMMA SerialFinishes ==
    ASSUME FactorInv, SerialInv, NEW r \in Requests, Finishes(r)
    PROVE  SerialInv'
<1> DEFINE next == IF work[r].op = "confirm" THEN Clearing ELSE Idle
<1>1. /\ work' = [work EXCEPT ![r] = next] /\ overlaps' = overlaps
      /\ work[r].pc # "idle" /\ DOMAIN work = Requests
      /\ work[r].op = "admin" => sessions' = sessions
      /\ work[r].op # "admin" =>
           sessions' = sessions \cup {[tv |-> user'.token_version, kind |-> Renewed(work[r])]}
  BY FinishesFacts DEF FactorInv, TypeOK
<1>2. next.pc \in {"idle", "clearing"}  BY IdleTyped
<1> HIDE DEF next
<1> SUFFICES ASSUME Calm PROVE SerialInv'
  BY <1>1 DEF Calm, SerialInv
<1>3. /\ \A s \in sessions : s.tv < user'.token_version
      /\ user'.token_version = user.token_version + 1
      /\ Consistent(user')
      /\ user'.two_factor_enabled /\ work[r].op # "admin" => Renewed(work[r]) # "one"
  BY ChangedRow
<1>4. user.token_version \in Nat /\ \A s \in sessions : s.tv \in Nat
  BY BoundAssumption DEF FactorInv, TypeOK, Row, Session, Versions
<1>5. /\ \A s \in sessions' : s.tv <= user'.token_version
      /\ user'.two_factor_enabled =>
           \A s \in sessions' : s.tv = user'.token_version => s.kind # "one"
  BY <1>1, <1>3, <1>4
<1>6. \A q \in Requests \ {r} : work[q].pc = "idle"  BY <1>1, Alone
<1>7. \A q \in Requests : work'[q].pc # "idle" =>
          /\ \A p \in Requests \ {q} : work'[p].pc = "idle"
          /\ work'[q].pc \notin {"open", "matched"}
  BY <1>1, <1>2, <1>6
<1> QED  BY <1>3, <1>5, <1>7, SerialParts

LEMMA SerialStep ==
    ASSUME FactorInv, SerialInv, [Next]_vars
    PROVE  SerialInv'
<1>1. CASE UNCHANGED vars  BY <1>1, SerialBetween DEF vars
<1>2. CASE Between  BY <1>2, BetweenFacts, SerialBetween
<1>3. ASSUME NEW r \in Requests, Opens(r) PROVE SerialInv'  BY <1>3, SerialOpens
<1>4. ASSUME NEW r \in Requests,
             MatchesQuietly(r) \/ SpendsCode(r) \/ StagedFactorMatches(r)
      PROVE  SerialInv'
  BY <1>4, SerialMatches
<1>5. ASSUME NEW r \in Requests, EndsQuietly(r) PROVE SerialInv'  BY <1>5, SerialDone
<1>6. ASSUME NEW r \in Requests, Finishes(r) PROVE SerialInv'  BY <1>6, SerialFinishes
<1> QED  BY <1>1, <1>2, <1>3, <1>4, <1>5, <1>6, NextSorted

\* Until requests overlap, the four columns tell one story: off with nothing
\* kept, or on with the method and, for the authenticator alone, its secret.
THEOREM ColumnsTellOneStory == Spec => []OneStory
<1>1. SerialInv => OneStory  BY DEF SerialInv, OneStory, Consistent
<1> QED  BY <1>1, FactorInit, FactorStep, SerialInit, SerialStep, PTL DEF Spec

\* Until requests overlap, no live session of an enrolled account was signed in
\* on one channel: verify-login takes no mail after mail, and the sessions from
\* before the enrolment are over.
THEOREM EnrolledSignInOnTwoChannels == Spec => []SignedInOnTwoChannels
<1>1. SerialInv => SignedInOnTwoChannels  BY DEF SerialInv, SignedInOnTwoChannels
<1> QED  BY <1>1, FactorInit, FactorStep, SerialInit, SerialStep, PTL DEF Spec

\* Until requests overlap, a change of factor or password leaves no session
\* that was there before it with the version the row now has.
THEOREM ChangesSignEveryoneOut == Spec => ChangeEndsSessions
<1>1. ASSUME FactorInv, SerialInv, [Next]_vars, Calm,
             FactorOf(user') # FactorOf(user) \/ user'.password # user.password
      PROVE  \A s \in sessions : s.tv # user'.token_version
  <2>1. user' # user  BY <1>1
  <2>2. PICK r \in Requests : Finishes(r) \/ SpendsCode(r)  BY <1>1, <2>1, OnlyTheseWrite
  <2>3. ~SpendsCode(r)  BY <1>1, SpendsFacts DEF FactorOf
  <2>4. /\ \A s \in sessions : s.tv < user'.token_version
        /\ user'.token_version = user.token_version + 1
    BY <1>1, <2>2, <2>3, ChangedRow
  <2>5. user.token_version \in Nat /\ \A s \in sessions : s.tv \in Nat
    BY <1>1, BoundAssumption DEF FactorInv, TypeOK, Row, Session, Versions
  <2> QED  BY <2>4, <2>5
<1>2. FactorInv /\ SerialInv /\ [Next]_vars =>
        [Calm /\ (FactorOf(user') # FactorOf(user) \/ user'.password # user.password)
          => \A s \in sessions : s.tv # user'.token_version]_vars
  BY <1>1
<1> QED  BY <1>2, FactorInit, FactorStep, SerialInit, SerialStep, PTL
         DEF Spec, ChangeEndsSessions

\* Only SpendsCode leaves an open request with a backup code in its hands.
LEMMA OnlySpendingMatchesPaper ==
    ASSUME FactorInv, [Next]_vars, NEW r \in Requests,
           work'[r].factor = "paper", work[r].pc = "open"
    PROVE  SpendsCode(r)
<1>1. work[r].factor # "paper" /\ DOMAIN work = Requests /\ work \in [Requests -> Work]
  BY NoneAssumption DEF FactorInv, TypeOK, WorkOK
<1>2. Idle.factor = None /\ Clearing.factor = None
  BY DEF Idle, Clearing
<1>3. work' # work  BY <1>1
<1>4. PICK q \in Requests :
        \/ Opens(q) \/ MatchesQuietly(q) \/ SpendsCode(q) \/ StagedFactorMatches(q)
        \/ EndsQuietly(q) \/ Finishes(q)
  BY <1>3, NextSorted, BetweenFacts DEF vars
<1>5. ~Opens(q)
  <2>1. SUFFICES ASSUME NEW op \in Ops, NEW caller \in Vias \cup Kinds, Open(q, op, caller)
                 PROVE FALSE
    BY OpensFacts
  <2>2. work[q].pc = "idle" /\ \A p \in Requests \ {q} : work'[p] = work[p]
    BY <1>1, <2>1 DEF Open
  <2> QED  BY <1>1, <2>2
<1>6. ~MatchesQuietly(q)
  <2>1. SUFFICES ASSUME NEW factor \in {"authenticator", "mailbox"},
                        work' = [work EXCEPT ![q] = Matched(q, factor)]
                 PROVE FALSE
    BY DEF MatchesQuietly
  <2>2. Matched(q, factor).factor = factor  BY MatchedTyped DEF Factors
  <2> QED  BY <1>1, <2>1, <2>2
<1>7. ~StagedFactorMatches(q)
  <2>1. SUFFICES ASSUME StagedFactorMatches(q) PROVE FALSE
    OBVIOUS
  <2> DEFINE factor == IF staged.method = "email" THEN "mailbox" ELSE "authenticator"
             base == Matched(q, factor)
             candidate == staged
             w == [base EXCEPT !.candidate = candidate]
  <2>2. work' = [work EXCEPT ![q] = w] /\ factor \in Factors /\ factor # "paper"
    BY <2>1 DEF StagedFactorMatches, Factors
  <2> HIDE DEF factor
  <2>3. base \in Work /\ base.factor = factor  BY <2>2, MatchedTyped
  <2> HIDE DEF base, candidate
  <2>4. w.factor = factor  BY <2>3 DEF Work
  <2> HIDE DEF w
  <2> QED  BY <1>1, <2>2, <2>4
<1>8. ~EndsQuietly(q)
  BY <1>1, <1>2, NoneAssumption, EndsQuietlyFacts DEF Done
<1>9. ~Finishes(q)
  <2>1. SUFFICES ASSUME work' = [work EXCEPT ![q] = IF work[q].op = "confirm" THEN Clearing
                                                    ELSE Idle]
                 PROVE FALSE
    BY FinishesFacts
  <2>2. work'[r].factor \in {work[r].factor, None}  BY <1>1, <1>2, <2>1
  <2> QED  BY <1>1, <2>2, NoneAssumption
<1>10. SpendsCode(q)  BY <1>4, <1>5, <1>6, <1>7, <1>8, <1>9
<1>11. q = r  BY <1>1, <1>10, SpendsFacts
<1> QED  BY <1>10, <1>11

\* Until requests overlap, an accepted backup code leaves the list, and none
\* returns but with a whole new set.
THEOREM BackupCodesAreSpentOnce == Spec => BackupCodesSingleUse
<1>1. ASSUME FactorInv, SerialInv, [Next]_vars, Calm, NEW r \in Requests,
             work'[r].factor = "paper", work[r].pc = "open"
      PROVE  user'.backup_codes.left # user.backup_codes.left
  <2>1. SpendsCode(r)  BY <1>1, OnlySpendingMatchesPaper
  <2>2. work[r].seen = user  BY <1>1, Alone
  <2> QED  BY <1>1, <2>1, <2>2, SpendsFacts
<1>2. ASSUME FactorInv, SerialInv, [Next]_vars, Calm,
             user'.backup_codes.batch = user.backup_codes.batch
      PROVE  user'.backup_codes.left \subseteq user.backup_codes.left
  <2>1. CASE user' = user  BY <2>1
  <2>2. CASE user' # user
    <3>1. PICK r \in Requests : Finishes(r) \/ SpendsCode(r)  BY <1>2, <2>2, OnlyTheseWrite
    <3>2. CASE SpendsCode(r)
      <4>1. work[r].seen = user  BY <1>2, <3>2, Alone, SpendsFacts
      <4> QED  BY <1>2, <3>2, <4>1, SpendsFacts
    <3>3. CASE Finishes(r)
      <4>1. /\ work[r] \in Work /\ work[r].seen.token_version < MaxVersion
            /\ work[r].op \in {"confirm", "disable", "admin", "regenerate", "password"}
        BY <1>2, <3>3, FinishesFacts
      <4>2. work[r].seen = user /\ user' = NewRow(work[r])  BY <1>2, <3>3, ChangedRow
      <4>3. CASE work[r].op \in {"confirm", "regenerate"}
        BY <1>2, <4>1, <4>2, <4>3, NewRowTyped
      <4>4. CASE work[r].op \in {"disable", "admin"}
        BY <4>1, <4>2, <4>4, NewRowTyped
      <4>5. CASE work[r].op = "password"
        BY <4>1, <4>2, <4>5, NewRowTyped
      <4> QED  BY <4>1, <4>3, <4>4, <4>5
    <3> QED  BY <3>1, <3>2, <3>3
  <2> QED  BY <2>1, <2>2
<1>3. FactorInv /\ SerialInv /\ [Next]_vars =>
        [Calm =>
          /\ \A r \in Requests :
                work'[r].factor = "paper" /\ work[r].pc = "open"
                    => user'.backup_codes.left # user.backup_codes.left
          /\ user'.backup_codes.batch = user.backup_codes.batch
                => user'.backup_codes.left \subseteq user.backup_codes.left]_vars
  BY <1>1, <1>2
<1> QED  BY <1>3, FactorInit, FactorStep, SerialInit, SerialStep, PTL
         DEF Spec, BackupCodesSingleUse

-----------------------------------------------------------------------------
(* One overlap.                                                            *)

Busy(w) == w.pc \in {"open", "matched"}

\* What NeverLockedOut asks of the row.
Able(row) ==
    row.two_factor_enabled =>
        /\ row.two_factor_method # None
        /\ row.two_factor_method = "totp" => row.totp_secret # None

\* What the columns of the factor tell while nothing was written over.
Story(row) ==
    IF row.two_factor_enabled
    THEN /\ row.two_factor_method # None
         /\ (row.two_factor_method = "totp") <=> (row.totp_secret # None)
    ELSE row.two_factor_method = None /\ row.totp_secret = None

\* A staged secret is not the live one: a confirmation will write it.
Unused(candidate, row) == candidate.secret = None \/ candidate.secret # row.totp_secret
StagedUnused(row) == staged # None => Unused(staged, row)

\* A request still sees the factor, or saw one whole and will write a new one.
Current(w) == FactorOf(w.seen) = FactorOf(user)
Guarded(w) ==
    /\ Story(w.seen) /\ StagedUnused(w.seen)
    /\ w.pc = "matched" /\ w.op = "confirm" => Unused(w.candidate, w.seen)

\* Until the first of two overlapping requests has committed.
Tight(r) == Calm \/ \E q \in Requests \ {r} : Busy(work[q])

AtMostTwo ==
    \A p, q, r \in Requests :
        work[p].pc # "idle" /\ work[q].pc # "idle" /\ work[r].pc # "idle" =>
            p = q \/ q = r \/ p = r

Prepared(r) ==
    Busy(work[r]) =>
        /\ Current(work[r]) \/ Guarded(work[r])
        /\ Tight(r) => Current(work[r]) /\ Guarded(work[r])

\* While the first of two overlapping requests has not committed, both see the
\* live factor; the second then writes only columns that leave a way in, even
\* though what it saw is stale.
AbleInv ==
    overlaps <= 1 =>
        /\ Able(user)
        /\ AtMostTwo
        /\ \A r \in Requests : Prepared(r)
        /\ Calm =>
             /\ Story(user)
             /\ (\A r \in Requests : work[r].pc # "clearing") => StagedUnused(user)

LEMMA AbleInit == Init => AbleInv
<1> SUFFICES ASSUME Init PROVE AbleInv
  OBVIOUS
<1>1. \A r \in Requests : work[r].pc = "idle"  BY IdleTyped DEF Init
<1>2. Able(user) /\ Story(user)  BY InitTyped DEF Able, Story
<1>3. StagedUnused(user)  BY DEF Init, StagedUnused
<1>4. AtMostTwo /\ \A r \in Requests : Prepared(r)
  BY <1>1 DEF AtMostTwo, Prepared, Busy
<1> QED  BY <1>2, <1>3, <1>4 DEF AbleInv

\* What is said of a row is said of the columns of its factor.
LEMMA SameFactor ==
    ASSUME NEW row, NEW other, FactorOf(row) = FactorOf(other)
    PROVE  /\ Able(row) <=> Able(other)
           /\ Story(row) <=> Story(other)
           /\ StagedUnused(row) <=> StagedUnused(other)
           /\ \A candidate : Unused(candidate, row) <=> Unused(candidate, other)
<1>1. /\ row.two_factor_enabled = other.two_factor_enabled
      /\ row.two_factor_method = other.two_factor_method
      /\ row.totp_secret = other.totp_secret
  BY DEF FactorOf
<1> QED  BY <1>1 DEF Able, Story, StagedUnused, Unused

LEMMA StoryIsAble == \A row : Story(row) => Able(row)
BY DEF Story, Able

\* Nothing happens to the row, to what is staged or to a request.
LEMMA AbleBetween ==
    ASSUME AbleInv, UNCHANGED <<user, staged, overlaps, work>>
    PROVE  AbleInv'
<1>1. Calm' = Calm  BY DEF Calm
<1>2. AtMostTwo => AtMostTwo'  BY DEF AtMostTwo
<1>3. \A r \in Requests : Prepared(r) => Prepared(r)'
  BY <1>1 DEF Prepared, Busy, Tight, Current, Guarded, StagedUnused
<1> QED  BY <1>1, <1>2, <1>3 DEF AbleInv, StagedUnused

\* A request that opens sees the live factor; when it is the second, the calm
\* that is over says that the factor is whole and what is staged unused.
LEMMA AbleOpens ==
    ASSUME FactorInv, SerialInv, AbleInv, NEW r \in Requests, Opens(r)
    PROVE  AbleInv'
<1>1. PICK op \in Ops, caller \in Vias \cup Kinds : Open(r, op, caller)
  BY OpensFacts
<1> DEFINE w == [pc |-> "open", op |-> op, caller |-> caller, seen |-> user, factor |-> None,
                 candidate |-> Mail]
<1>2. /\ work[r].pc = "idle" /\ work' = [work EXCEPT ![r] = w]
      /\ UNCHANGED <<user, staged>>
      /\ overlaps' = IF \A q \in Requests : work[q].pc = "idle" THEN overlaps ELSE overlaps + 1
      /\ overlaps \in Nat /\ DOMAIN work = Requests
  BY <1>1, BoundAssumption DEF Open, FactorInv, TypeOK
<1>3. w.pc = "open" /\ w.seen = user  OBVIOUS
<1> HIDE DEF w
<1>4. work'[r] = w /\ \A q \in Requests \ {r} : work'[q] = work[q]  BY <1>2
<1> SUFFICES ASSUME overlaps' <= 1 PROVE AbleInv'
  BY DEF AbleInv
<1>5. /\ Able(user) /\ AtMostTwo /\ \A q \in Requests : Prepared(q)
      /\ Calm => Story(user)
      /\ Calm /\ (\A q \in Requests : work[q].pc # "clearing") => StagedUnused(user)
  BY <1>2 DEF AbleInv
<1>6. Current(work[r])' /\ ((Story(user) /\ StagedUnused(user)) => Guarded(work[r])')
  BY <1>2, <1>3, <1>4 DEF Current, Guarded, StagedUnused
<1>7. Busy(w)  BY <1>3 DEF Busy
<1>8. CASE \A q \in Requests : work[q].pc = "idle"
  <2>1. \A q \in Requests \ {r} : work'[q].pc = "idle"  BY <1>4, <1>8
  <2>2. AtMostTwo'  BY <2>1 DEF AtMostTwo
  <2>3. overlaps' = overlaps /\ Calm' = Calm  BY <1>2, <1>8 DEF Calm
  <2>4. Calm => Story(user) /\ StagedUnused(user)  BY <1>5, <1>8
  <2>5. \A q \in Requests \ {r} : ~Busy(work'[q])  BY <2>1 DEF Busy
  <2>6. \A q \in Requests \ {r} : Prepared(q)'  BY <2>5 DEF Prepared, Busy
  <2>7. Prepared(r)'
    BY <1>4, <1>6, <2>3, <2>4, <2>5 DEF Prepared, Tight, Busy
  <2>8. /\ Able(user)' /\ (Calm' => Story(user)')
        /\ Calm' => StagedUnused(user)'
    BY <1>2, <1>5, <2>3, <2>4 DEF StagedUnused
  <2> QED  BY <2>2, <2>6, <2>7, <2>8 DEF AbleInv
<1>9. CASE ~\A q \in Requests : work[q].pc = "idle"
  <2>1. overlaps = 0 /\ overlaps' = 1  BY <1>2, <1>9
  <2>2. Calm /\ ~Calm'  BY <2>1 DEF Calm
  <2>3. PICK q \in Requests : work[q].pc # "idle"  BY <1>9
  <2>4. /\ \A p \in Requests \ {q} : work[p].pc = "idle"
        /\ r # q
    BY <1>2, <2>2, <2>3, Alone
  <2>5. AtMostTwo'
    <3>1. \A p \in Requests : work'[p].pc # "idle" => p = r \/ p = q  BY <1>4, <2>4
    <3> QED  BY <3>1 DEF AtMostTwo
  <2>6. CASE Busy(work[q])
    <3>1. \A p \in Requests : work[p].pc # "clearing"  BY <2>4, <2>6 DEF Busy
    <3>2. Story(user) /\ StagedUnused(user)  BY <1>5, <2>2, <3>1
    <3>3. Current(work[q]) /\ Guarded(work[q])
      BY <1>5, <2>2, <2>6 DEF Prepared, Tight
    <3>4. work'[q] = work[q]  BY <1>4, <2>4
    <3>5. Current(work[q])' /\ Guarded(work[q])'
      BY <1>2, <3>3, <3>4 DEF Current, Guarded, StagedUnused
    <3>6. Prepared(r)' /\ Prepared(q)'  BY <1>4, <1>6, <3>2, <3>5 DEF Prepared
    <3>7. \A p \in Requests \ {q, r} : Prepared(p)'  BY <1>4, <2>4 DEF Prepared, Busy
    <3>8. \A p \in Requests : Prepared(p)'  BY <3>6, <3>7
    <3> QED  BY <1>2, <1>5, <2>2, <2>5, <3>8 DEF AbleInv
  <2>7. CASE ~Busy(work[q])
    <3>1. \A p \in Requests \ {r} : ~Busy(work'[p])  BY <1>4, <2>4, <2>7 DEF Busy
    <3>2. ~Tight(r)'  BY <2>2, <3>1 DEF Tight, Busy
    <3>3. Prepared(r)'  BY <1>4, <1>6, <3>2 DEF Prepared
    <3>4. \A p \in Requests \ {r} : Prepared(p)'  BY <3>1 DEF Prepared, Busy
    <3>5. \A p \in Requests : Prepared(p)'  BY <3>3, <3>4
    <3> QED  BY <1>2, <1>5, <2>2, <2>5, <3>5 DEF AbleInv
  <2> QED  BY <2>6, <2>7
<1> QED  BY <1>8, <1>9

\* A request that matched stays prepared: it saw the same, or has just looked.
LEMMA AbleMatched ==
    ASSUME AbleInv, NEW r \in Requests, work[r].pc = "open", work'[r].pc = "matched",
           \A q \in Requests \ {r} : work'[q] = work[q],
           UNCHANGED <<staged, overlaps>>, FactorOf(user') = FactorOf(user),
           FactorOf(work'[r].seen) \in {FactorOf(work[r].seen), FactorOf(user)},
           work'[r].op = "confirm" =>
              /\ FactorOf(work'[r].seen) = FactorOf(work[r].seen)
              /\ staged # None /\ work'[r].candidate = staged
    PROVE  AbleInv'
<1> SUFFICES ASSUME overlaps <= 1 PROVE AbleInv'
  BY DEF AbleInv
<1>1. /\ Able(user) /\ AtMostTwo /\ (\A q \in Requests : Prepared(q))
      /\ Calm => Story(user)
      /\ Calm /\ (\A q \in Requests : work[q].pc # "clearing") => StagedUnused(user)
  BY DEF AbleInv
<1>2. Calm' = Calm  BY DEF Calm
<1>3. /\ Able(user') /\ (Story(user) => Story(user'))
      /\ StagedUnused(user) => StagedUnused(user)'
  BY <1>1, SameFactor DEF StagedUnused
<1>4. AtMostTwo'
  <2>1. \A q \in Requests : work'[q].pc # "idle" <=> work[q].pc # "idle"  OBVIOUS
  <2> QED  BY <1>1, <2>1 DEF AtMostTwo
<1>5. \A q \in Requests : Busy(work[q]) = Busy(work[q])'  BY DEF Busy
<1>6. \A q \in Requests : Tight(q)' => Tight(q)  BY <1>2, <1>5 DEF Tight
<1>7. \A q \in Requests \ {r} :
        Current(work[q])' = Current(work[q]) /\ Guarded(work[q])' = Guarded(work[q])
  BY DEF Current, Guarded, StagedUnused
<1>8. \A q \in Requests \ {r} : Prepared(q)'  BY <1>1, <1>5, <1>6, <1>7 DEF Prepared
<1>9. Prepared(r)'
  <2>1. /\ Current(work[r]) \/ Guarded(work[r])
        /\ Tight(r) => Current(work[r]) /\ Guarded(work[r])
    BY <1>1 DEF Prepared, Busy
  <2>2. CASE FactorOf(work'[r].seen) = FactorOf(work[r].seen)
    <3>1. Current(work[r]) => Current(work[r])'  BY <2>2 DEF Current
    <3>2. Story(work[r].seen) => Story(work'[r].seen)  BY <2>2, SameFactor
    <3>3. StagedUnused(work[r].seen) => StagedUnused(work[r].seen)'
      BY <2>2, SameFactor DEF StagedUnused
    <3>4. StagedUnused(work[r].seen)' /\ work'[r].op = "confirm"
              => Unused(work'[r].candidate, work'[r].seen)
      BY DEF StagedUnused
    <3>5. Guarded(work[r]) => Guarded(work[r])'  BY <3>2, <3>3, <3>4 DEF Guarded
    <3> QED  BY <1>6, <2>1, <3>1, <3>5 DEF Prepared
  <2>3. CASE FactorOf(work'[r].seen) = FactorOf(user) /\ work'[r].op # "confirm"
    <3>1. Current(work[r])'  BY <2>3 DEF Current
    <3>2. Current(work[r]) /\ Guarded(work[r]) => Guarded(work[r])'
      <4>1. SUFFICES ASSUME Current(work[r]), Guarded(work[r]) PROVE Guarded(work[r])'
        OBVIOUS
      <4>2. FactorOf(work'[r].seen) = FactorOf(work[r].seen)  BY <2>3, <4>1 DEF Current
      <4>3. Story(work'[r].seen)  BY <4>1, <4>2, SameFactor DEF Guarded
      <4>4. StagedUnused(work[r].seen)'  BY <4>1, <4>2, SameFactor DEF Guarded, StagedUnused
      <4> QED  BY <2>3, <4>3, <4>4 DEF Guarded
    <3> QED  BY <1>6, <2>1, <3>1, <3>2 DEF Prepared
  <2> QED  BY <2>2, <2>3
<1>10. \A q \in Requests : Prepared(q)'  BY <1>8, <1>9
<1>11. (\A q \in Requests : work'[q].pc # "clearing")
          => \A q \in Requests : work[q].pc # "clearing"
  BY DEF Busy
<1> QED  BY <1>1, <1>2, <1>3, <1>4, <1>10, <1>11 DEF AbleInv

LEMMA AbleMatches ==
    ASSUME FactorInv, AbleInv, NEW r \in Requests,
           MatchesQuietly(r) \/ SpendsCode(r) \/ StagedFactorMatches(r)
    PROVE  AbleInv'
<1>1. work[r] \in Work /\ DOMAIN work = Requests  BY DEF FactorInv, TypeOK
<1>2. CASE MatchesQuietly(r)
  <2>1. PICK factor \in {"authenticator", "mailbox"} :
          /\ work[r].pc = "open" /\ NeedsFactor(work[r])
          /\ work' = [work EXCEPT ![r] = Matched(r, factor)]
          /\ UNCHANGED <<user, staged, overlaps>>
    BY <1>2 DEF MatchesQuietly
  <2>2. /\ work'[r] = Matched(r, factor)
        /\ \A q \in Requests \ {r} : work'[q] = work[q]
    BY <1>1, <2>1
  <2>3. /\ work'[r].pc = "matched" /\ work'[r].op = work[r].op
        /\ work'[r].seen = work[r].seen
    BY <2>2, MatchedTyped DEF Factors
  <2>4. work'[r].op # "confirm"  BY <2>1, <2>3 DEF NeedsFactor
  <2> QED  BY <2>1, <2>2, <2>3, <2>4, AbleMatched
<1>3. CASE SpendsCode(r)
  <2>1. NeedsFactor(work[r])  BY <1>3 DEF SpendsCode
  <2>2. /\ work[r].pc = "open" /\ UNCHANGED <<staged, overlaps>>
        /\ user'.two_factor_enabled = user.two_factor_enabled
        /\ user'.two_factor_method = user.two_factor_method
        /\ user'.totp_secret = user.totp_secret
        /\ \A q \in Requests \ {r} : work'[q] = work[q]
        /\ work'[r].pc = "matched" /\ work'[r].op = work[r].op /\ work'[r].seen = user'
    BY <1>3, SpendsFacts
  <2>3. FactorOf(user') = FactorOf(user) /\ FactorOf(work'[r].seen) = FactorOf(user)
    BY <2>2 DEF FactorOf
  <2>4. work'[r].op # "confirm"  BY <2>1, <2>2 DEF NeedsFactor
  <2> QED  BY <2>2, <2>3, <2>4, AbleMatched
<1>4. CASE StagedFactorMatches(r)
  <2> DEFINE factor == IF staged.method = "email" THEN "mailbox" ELSE "authenticator"
             base == Matched(r, factor)
             candidate == staged
             w == [base EXCEPT !.candidate = candidate]
  <2>1. /\ work[r].pc = "open" /\ work' = [work EXCEPT ![r] = w]
        /\ UNCHANGED <<user, staged, overlaps>> /\ factor \in Factors /\ staged # None
    BY <1>4 DEF StagedFactorMatches, Factors
  <2> HIDE DEF factor
  <2>2. base \in Work /\ base.pc = "matched" /\ base.seen = work[r].seen
    BY <2>1, MatchedTyped
  <2> HIDE DEF base, candidate
  <2>3. w.pc = "matched" /\ w.seen = work[r].seen /\ w.candidate = candidate
    BY <2>2 DEF Work
  <2> HIDE DEF w
  <2>4. work'[r] = w /\ \A q \in Requests \ {r} : work'[q] = work[q]  BY <1>1, <2>1
  <2>5. candidate = staged  BY DEF candidate
  <2> QED  BY <2>1, <2>3, <2>4, <2>5, AbleMatched
<1> QED  BY <1>2, <1>3, <1>4

\* What the quiet ends leave staged: what there was, unless it was to be
\* cleared; nothing; or a candidate no request and no row has.
LEMMA StagedByEnds ==
    ASSUME FactorInv, NEW r \in Requests, EndsQuietly(r)
    PROVE  \/ staged' = staged /\ work[r].pc # "clearing"
           \/ staged' = None
           \/ /\ Unused(staged', user)
              /\ \A q \in Requests : Unused(staged', work[q].seen)
<1>1. CASE FinishLogin(r)
  BY <1>1 DEF FinishLogin, Ready, LoginOutcome
<1>2. CASE FinishVerify(r)
  BY <1>2 DEF FinishVerify, Ready
<1>3. CASE FinishSetup(r)
  <2>1. PICK candidate \in {Mail} \cup [method: {"totp"}, secret: FreshSecrets,
                                            mailed: {OnlyMailbox(work[r])}] :
          staged' = candidate
    BY <1>3 DEF FinishSetup
  <2>2. candidate.secret = None \/ candidate.secret \in FreshSecrets
    <3>1. Mail.secret = None  BY DEF Mail
    <3> QED  BY <2>1, <3>1
  <2>3. \A secret \in FreshSecrets :
          /\ secret # user.totp_secret
          /\ \A q \in Requests : secret # work[q].seen.totp_secret
    BY DEF FreshSecrets
  <2> QED  BY <2>1, <2>2, <2>3 DEF Unused
<1>4. CASE ClearStaged(r)  BY <1>4 DEF ClearStaged
<1>5. CASE Refuse(r)  BY <1>5 DEF Refuse
<1> QED  BY <1>1, <1>2, <1>3, <1>4, <1>5 DEF EndsQuietly

\* A request that is done leaves the others as they were prepared.
LEMMA AbleDone ==
    ASSUME FactorInv, SerialInv, AbleInv, NEW r \in Requests, EndsQuietly(r)
    PROVE  AbleInv'
<1>1. /\ work[r].pc # "idle" /\ work' = [work EXCEPT ![r] = Idle]
      /\ user' = user /\ overlaps' = overlaps /\ DOMAIN work = Requests
  BY EndsQuietlyFacts DEF Done, FactorInv, TypeOK
<1>2. /\ work'[r].pc = "idle" /\ \A q \in Requests \ {r} : work'[q] = work[q]
  BY <1>1, IdleTyped
<1> SUFFICES ASSUME overlaps <= 1 PROVE AbleInv'
  BY <1>1 DEF AbleInv
<1>3. /\ Able(user) /\ AtMostTwo /\ (\A q \in Requests : Prepared(q))
      /\ Calm => Story(user)
      /\ Calm /\ (\A q \in Requests : work[q].pc # "clearing") => StagedUnused(user)
  BY DEF AbleInv
<1>4. Calm' = Calm  BY <1>1 DEF Calm
<1>5. AtMostTwo'
  <2>1. \A q \in Requests : work'[q].pc # "idle" => work[q].pc # "idle"  BY <1>2
  <2> QED  BY <1>3, <2>1 DEF AtMostTwo
<1>6. \A q \in Requests : Busy(work[q])' => q # r /\ Busy(work[q]) /\ work'[q] = work[q]
  BY <1>2 DEF Busy
<1>7. \A q \in Requests : Tight(q)' => Tight(q)  BY <1>4, <1>6 DEF Tight
<1>8. \A q \in Requests : StagedUnused(work[q].seen) => (staged' # None => Unused(staged', work[q].seen))
  BY StagedByEnds DEF StagedUnused
<1>9. \A q \in Requests : Busy(work[q])' /\ Guarded(work[q]) => Guarded(work[q])'
  <2>1. SUFFICES ASSUME NEW q \in Requests, work'[q] = work[q], Guarded(work[q])
                 PROVE  Guarded(work[q])'
    BY <1>6
  <2>2. staged' # None => Unused(staged', work[q].seen)  BY <1>8, <2>1 DEF Guarded
  <2> QED  BY <2>1, <2>2 DEF Guarded, StagedUnused
<1>10. \A q \in Requests : Busy(work[q])' /\ Current(work[q]) => Current(work[q])'
  BY <1>1, <1>6 DEF Current
<1>11. \A q \in Requests : Prepared(q)'
  BY <1>3, <1>6, <1>7, <1>9, <1>10 DEF Prepared
<1>12. Calm => StagedUnused(user)'
  <2>1. SUFFICES ASSUME Calm, staged' # None PROVE Unused(staged', user)
    BY <1>1 DEF StagedUnused
  <2>2. \A q \in Requests \ {r} : work[q].pc = "idle"  BY <1>1, <2>1, Alone
  <2>3. CASE staged' = staged /\ work[r].pc # "clearing"
    <3>1. StagedUnused(user)  BY <1>3, <2>1, <2>2, <2>3
    <3> QED  BY <2>1, <2>3, <3>1 DEF StagedUnused
  <2> QED  BY <2>1, <2>3, StagedByEnds
<1> QED  BY <1>1, <1>3, <1>4, <1>5, <1>11, <1>12 DEF AbleInv

\* A change from a row whose factor is still the live one leaves it as meant,
\* and one from a stale row writes a method, a secret that is new, or nothing.
LEMMA FinishedAble ==
    ASSUME FactorInv, NEW r \in Requests, Finishes(r), Able(user),
           Current(work[r]) \/ Guarded(work[r])
    PROVE  /\ Able(user')
           /\ Current(work[r]) /\ Story(user) => Story(user')
           /\ work[r].op # "confirm" /\ Current(work[r]) => user'.totp_secret \in {user.totp_secret, None}
<1> DEFINE w == work[r]
           new == NewRow(w)
           old == user
           seen == w.seen
           row == user'
<1>1. /\ w \in Work /\ seen \in Row /\ w.seen.token_version < MaxVersion
      /\ w.op \in {"confirm", "disable", "admin", "regenerate", "password"}
      /\ w.pc \in {"open", "matched"} /\ (w.op = "confirm" => w.pc = "matched")
      /\ user' = Written(seen, new) /\ old \in Row
  BY FinishesFacts DEF FactorInv, TypeOK
<1>2. w.op = "confirm" => WellFormed(w.candidate) /\ w.candidate \in Staged
  BY <1>1 DEF FactorInv, WorkOK, Work
<1> DEFINE method == w.candidate.method
           secret == w.candidate.secret
<1>3. /\ new \in Row
      /\ w.op = "confirm" =>
           /\ new.two_factor_enabled /\ new.two_factor_method = method
           /\ new.totp_secret = secret
      /\ w.op \in {"disable", "admin"} =>
           /\ ~new.two_factor_enabled /\ new.two_factor_method = None
           /\ new.totp_secret = None
      /\ w.op \in {"regenerate", "password"} =>
           /\ new.two_factor_enabled = seen.two_factor_enabled
           /\ new.two_factor_method = seen.two_factor_method
           /\ new.totp_secret = seen.totp_secret
  BY <1>1, NewRowTyped
<1>4. w.op = "confirm" =>
        method # None /\ method \in Methods /\ (method = "totp" <=> secret # None)
  BY <1>2, NoneAssumption DEF WellFormed, Staged, Methods
<1> HIDE DEF new
<1>5. /\ row.two_factor_enabled = IF new.two_factor_enabled # seen.two_factor_enabled
                                  THEN new.two_factor_enabled ELSE old.two_factor_enabled
      /\ row.two_factor_method = IF new.two_factor_method # seen.two_factor_method
                                 THEN new.two_factor_method ELSE old.two_factor_method
      /\ row.totp_secret = IF new.totp_secret # seen.totp_secret
                           THEN new.totp_secret ELSE old.totp_secret
  BY <1>1, <1>3, WrittenTyped
<1>6. /\ seen.two_factor_enabled \in BOOLEAN /\ old.two_factor_enabled \in BOOLEAN
      /\ new.two_factor_enabled \in BOOLEAN
  BY <1>1, <1>3 DEF Row
<1>7. w.op \in {"regenerate", "password"} => FactorOf(row) = FactorOf(old)
  BY FinishedColumns
<1> HIDE DEF row, old, seen, method, secret, w
<1>8. ASSUME FactorOf(seen) = FactorOf(old)
      PROVE  /\ row.two_factor_enabled = new.two_factor_enabled
             /\ row.two_factor_method = new.two_factor_method
             /\ row.totp_secret = new.totp_secret
  BY <1>5, <1>8 DEF FactorOf
<1>9. ASSUME FactorOf(seen) = FactorOf(old), Able(old)
      PROVE  Able(row) /\ (Story(old) => Story(row))
             /\ (w.op # "confirm" => row.totp_secret \in {old.totp_secret, None})
  <2>1. CASE w.op = "confirm"
    BY <1>3, <1>4, <1>8, <1>9, <2>1 DEF Able, Story
  <2>2. CASE w.op \in {"disable", "admin"}
    BY <1>3, <1>8, <1>9, <2>2 DEF Able, Story
  <2>3. CASE w.op \in {"regenerate", "password"}
    <3>1. FactorOf(row) = FactorOf(old)  BY <1>7, <2>3
    <3>2. row.totp_secret = old.totp_secret  BY <3>1 DEF FactorOf
    <3> QED  BY <1>9, <3>1, <3>2, SameFactor
  <2> QED  BY <1>1, <2>1, <2>2, <2>3
<1>10. ASSUME Story(seen), w.op = "confirm" => secret = None \/ secret # seen.totp_secret,
              Able(old)
       PROVE  Able(row)
  <2>1. CASE w.op = "confirm"
    <3>1. CASE method = "totp"
      <4>1. secret # None /\ row.totp_secret = secret
        BY <1>3, <1>4, <1>5, <1>10, <2>1, <3>1
      <4>2. CASE seen.two_factor_method = "totp"
        <5>1. seen.two_factor_enabled  BY <1>10, <4>2, NoneAssumption DEF Story
        <5>2. row.two_factor_enabled = old.two_factor_enabled
              /\ row.two_factor_method = old.two_factor_method
          BY <1>3, <1>5, <1>6, <2>1, <3>1, <4>2, <5>1
        <5> QED  BY <1>10, <4>1, <5>2 DEF Able
      <4>3. CASE seen.two_factor_method # "totp"
        <5>1. row.two_factor_method = "totp"  BY <1>3, <1>5, <2>1, <3>1, <4>3
        <5> QED  BY <4>1, <5>1, NoneAssumption DEF Able
      <4> QED  BY <4>2, <4>3
    <3>2. CASE method # "totp"
      <4>1. method = "email" /\ secret = None /\ method # None
        BY <1>4, <2>1, <3>2 DEF Methods
      <4>2. CASE seen.two_factor_method = "email"
        <5>1. seen.two_factor_enabled /\ seen.totp_secret = None
          BY <1>10, <4>2, NoneAssumption DEF Story
        <5>2. /\ row.two_factor_enabled = old.two_factor_enabled
              /\ row.two_factor_method = old.two_factor_method
              /\ row.totp_secret = old.totp_secret
          BY <1>3, <1>5, <1>6, <2>1, <4>1, <4>2, <5>1
        <5> QED  BY <1>10, <5>2 DEF Able
      <4>3. CASE seen.two_factor_method # "email"
        <5>1. row.two_factor_method = "email"  BY <1>3, <1>5, <2>1, <4>1, <4>3
        <5> QED  BY <4>1, <5>1 DEF Able
      <4> QED  BY <4>2, <4>3
    <3> QED  BY <3>1, <3>2
  <2>2. CASE w.op \in {"disable", "admin"}
    <3>1. CASE seen.two_factor_enabled
      <4>1. ~row.two_factor_enabled  BY <1>3, <1>5, <1>6, <2>2, <3>1
      <4> QED  BY <4>1 DEF Able
    <3>2. CASE ~seen.two_factor_enabled
      <4>1. seen.two_factor_method = None /\ seen.totp_secret = None
        BY <1>10, <3>2 DEF Story
      <4>2. /\ row.two_factor_enabled = old.two_factor_enabled
            /\ row.two_factor_method = old.two_factor_method
            /\ row.totp_secret = old.totp_secret
        BY <1>3, <1>5, <1>6, <2>2, <3>2, <4>1
      <4> QED  BY <1>10, <4>2 DEF Able
    <3> QED  BY <3>1, <3>2
  <2>3. CASE w.op \in {"regenerate", "password"}
    BY <1>7, <1>10, <2>3, SameFactor
  <2> QED  BY <1>1, <2>1, <2>2, <2>3
<1>11. Able(old)  BY DEF old
<1>12. Current(work[r]) <=> FactorOf(seen) = FactorOf(old)  BY DEF Current, seen, old, w
<1>13. Guarded(work[r]) => Story(seen) /\ (w.op = "confirm" => secret = None \/ secret # seen.totp_secret)
  BY <1>1 DEF Guarded, Unused, seen, secret, w
<1>14. Able(row) /\ (Current(work[r]) /\ Story(old) => Story(row))
       /\ (w.op # "confirm" /\ Current(work[r]) => row.totp_secret \in {old.totp_secret, None})
  BY <1>9, <1>10, <1>11, <1>12, <1>13
<1> QED  BY <1>14 DEF row, old, w

\* A change commits: the factor the other request saw, if there is another, was
\* whole, and that is all it needs from now on.
LEMMA AbleFinishes ==
    ASSUME FactorInv, SerialInv, AbleInv, NEW r \in Requests, Finishes(r)
    PROVE  AbleInv'
<1> DEFINE next == IF work[r].op = "confirm" THEN Clearing ELSE Idle
<1>1. /\ work' = [work EXCEPT ![r] = next] /\ overlaps' = overlaps /\ staged' = staged
      /\ Busy(work[r]) /\ DOMAIN work = Requests
  BY FinishesFacts DEF FactorInv, TypeOK, Busy
<1>2. /\ next.pc \in {"idle", "clearing"}
      /\ work[r].op = "confirm" => next.pc = "clearing"
  BY IdleTyped
<1> HIDE DEF next
<1>3. work'[r] = next /\ \A q \in Requests \ {r} : work'[q] = work[q]  BY <1>1
<1> SUFFICES ASSUME overlaps <= 1 PROVE AbleInv'
  BY <1>1 DEF AbleInv
<1>4. /\ Able(user) /\ AtMostTwo /\ (\A q \in Requests : Prepared(q))
      /\ Calm => Story(user)
      /\ Calm /\ (\A q \in Requests : work[q].pc # "clearing") => StagedUnused(user)
  BY DEF AbleInv
<1>5. Calm' = Calm  BY <1>1 DEF Calm
<1>6. /\ Current(work[r]) \/ Guarded(work[r])
      /\ Tight(r) => Current(work[r])
  BY <1>1, <1>4 DEF Prepared
<1>7. /\ Able(user')
      /\ Current(work[r]) /\ Story(user) => Story(user')
      /\ work[r].op # "confirm" /\ Current(work[r]) => user'.totp_secret \in {user.totp_secret, None}
  BY <1>4, <1>6, FinishedAble
<1>8. AtMostTwo'
  <2>1. \A q \in Requests : work'[q].pc # "idle" => work[q].pc # "idle"
    BY <1>1, <1>3 DEF Busy
  <2> QED  BY <1>4, <2>1 DEF AtMostTwo
<1>9. \A q \in Requests : Busy(work[q])' => q # r /\ Busy(work[q]) /\ work'[q] = work[q]
  BY <1>2, <1>3 DEF Busy
<1>10. \A q \in Requests : Prepared(q)'
  <2>1. SUFFICES ASSUME NEW q \in Requests, Busy(work[q])' PROVE Prepared(q)'
    BY DEF Prepared
  <2>2. q # r /\ Busy(work[q]) /\ work'[q] = work[q]  BY <1>9, <2>1
  <2>3. ~Calm  BY <1>1, <2>2, Alone DEF Busy
  <2>4. Guarded(work[q])
    <3>1. Tight(q)  BY <1>1, <2>2 DEF Tight
    <3> QED  BY <1>4, <2>2, <3>1 DEF Prepared
  <2>5. Guarded(work[q])'  BY <1>1, <2>2, <2>4 DEF Guarded, StagedUnused
  <2>6. ~Tight(q)'
    <3>1. SUFFICES ASSUME NEW p \in Requests \ {q}, Busy(work[p])' PROVE FALSE
      BY <1>5, <2>3 DEF Tight
    <3>2. p # r /\ Busy(work[p])  BY <1>9, <3>1
    <3> QED  BY <1>1, <1>4, <2>2, <3>1, <3>2 DEF AtMostTwo, Busy
  <2> QED  BY <2>5, <2>6 DEF Prepared
<1>11. Calm => Story(user')
  BY <1>4, <1>6, <1>7 DEF Tight
<1>12. ASSUME Calm, \A q \in Requests : work'[q].pc # "clearing"
       PROVE  StagedUnused(user)'
  <2>1. work[r].op # "confirm"  BY <1>2, <1>3, <1>12
  <2>2. user'.totp_secret \in {user.totp_secret, None}
    BY <1>6, <1>7, <1>12, <2>1 DEF Tight
  <2>3. \A q \in Requests : work[q].pc # "clearing"  BY <1>1, <1>3, <1>12 DEF Busy
  <2>4. StagedUnused(user)  BY <1>4, <1>12, <2>3
  <2> QED  BY <1>1, <2>2, <2>4 DEF StagedUnused, Unused
<1> QED  BY <1>5, <1>7, <1>8, <1>10, <1>11, <1>12 DEF AbleInv

LEMMA AbleStep ==
    ASSUME FactorInv, SerialInv, AbleInv, [Next]_vars
    PROVE  AbleInv'
<1>1. CASE UNCHANGED vars  BY <1>1, AbleBetween DEF vars
<1>2. CASE Between  BY <1>2, BetweenFacts, AbleBetween
<1>3. ASSUME NEW r \in Requests, Opens(r) PROVE AbleInv'  BY <1>3, AbleOpens
<1>4. ASSUME NEW r \in Requests,
             MatchesQuietly(r) \/ SpendsCode(r) \/ StagedFactorMatches(r)
      PROVE  AbleInv'
  BY <1>4, AbleMatches
<1>5. ASSUME NEW r \in Requests, EndsQuietly(r) PROVE AbleInv'  BY <1>5, AbleDone
<1>6. ASSUME NEW r \in Requests, Finishes(r) PROVE AbleInv'  BY <1>6, AbleFinishes
<1> QED  BY <1>1, <1>2, <1>3, <1>4, <1>5, <1>6, NextSorted

\* One request that overlaps another, whatever the two write over each other,
\* leaves an account that asks for a second factor with one to ask for.
THEOREM OneOverlapLocksNobodyOut == Spec => []NeverLockedOut
<1>1. AbleInv => NeverLockedOut  BY DEF AbleInv, Able, NeverLockedOut
<1> QED  BY <1>1, FactorInit, FactorStep, SerialInit, SerialStep, AbleInit, AbleStep, PTL
         DEF Spec
=============================================================================
