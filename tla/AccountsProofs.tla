----------------------------- MODULE AccountsProofs -----------------------------
(***************************************************************************)
(* What holds of Accounts for any people and requests: types under every   *)
(* interleaving; that roles leave a superadmin and that a deactivation     *)
(* holds, while requests come one at a time.  And of BackupEmails, the     *)
(* address a reset goes to, for any accounts, mailboxes, codes, limit and  *)
(* requests: how many wrong tries a mailed code can stand under every      *)
(* interleaving, and that an address is verified only by its own code      *)
(* while requests come one at a time.                                      *)
(***************************************************************************)
EXTENDS Accounts, BackupEmails, FiniteSetTheorems, TLAPS

usersVars == <<userVars, edits, overlaps>>

UsersSpec ==
    UsersInit /\ edits = 0 /\ overlaps = 0 /\ [][UsersNext]_usersVars

\* A request is about somebody; a row it saw is still there.
RequestsInv ==
    /\ UsersTypeOK
    /\ \A r \in Requests :
          userWork[r].pc = "open" =>
            /\ userWork[r].id \in People
            /\ userWork[r].seen # None => users[userWork[r].id] # None

\* What a request may write over a row it saw: it leaves role and deletion
\* alone, or deletes, or leaves a superadmin, or another one asked for it.
SparesSuperadmin(id, by, seen, new) ==
    \/ new.role = seen.role /\ new.deleted = seen.deleted
    \/ new.deleted
    \/ new.role = "superadmin" /\ ~new.deleted
    \/ by \in Superadmins \ {id}

\* It opens a deactivated account by an invitation, or another administrator
\* who is not deactivated asked for it.
OpensRightly(id, by, seen, new) ==
    seen.status = "deactivated" /\ new.status # "deactivated" =>
        seen.invite_token \/ (by \in Superadmins \ {id} /\ users[by].status # "deactivated")

\* Alone, a request still sees what it loaded.
SerialInv ==
    /\ overlaps \in Nat
    /\ Calm => \A r \in Requests :
         userWork[r].pc = "open" =>
            /\ \A q \in Requests \ {r} : userWork[q].pc = "idle"
            /\ userWork[r].seen = users[userWork[r].id]
            /\ userWork[r].seen # None =>
                 /\ SparesSuperadmin(userWork[r].id, userWork[r].by, userWork[r].seen,
                                     userWork[r].new)
                 /\ OpensRightly(userWork[r].id, userWork[r].by, userWork[r].seen,
                                 userWork[r].new)

UsersInv == RequestsInv /\ SerialInv

-----------------------------------------------------------------------------
(* Rows.                                                                   *)

LEMMA IdleTyped == IdleUser \in UserWork /\ IdleUser.pc = "idle"
BY DEF IdleUser, UserWork, UserKinds, Newcomer, User, Roles, Statuses

LEMMA OverTyped ==
    ASSUME NEW seen \in User, NEW new \in User, NEW now \in User
    PROVE  /\ Over(seen, new, now) \in User
           /\ seen = now => Over(seen, new, now) = new
BY DEF Over, User

LEMMA RowsTyped ==
    ASSUME UsersTypeOK
    PROVE  /\ \A p : p \in Present(users) <=> p \in People /\ users[p] # None
           /\ \A p \in Present(users) : users[p] \in User
           /\ \A p : p \in Live <=> p \in Present(users) /\ ~users[p].deleted
           /\ \A p : p \in Superadmins <=> p \in Live /\ users[p].role = "superadmin"
           /\ \A p \in People : p \notin Present(users) => users[p] = None
BY DEF UsersTypeOK, Present, Live, Superadmins

\* The rows that are made from scratch.
LEMMA NewcomersTyped ==
    /\ Newcomer \in User
    /\ [Newcomer EXCEPT !.role = "superadmin"] \in User
    /\ [Newcomer EXCEPT !.status = "pending_invite", !.invite_token = TRUE] \in User
    /\ \A role \in {"superadmin", "user"} :
          [Newcomer EXCEPT !.status = "pending_verification", !.role = role] \in User
BY DEF Newcomer, User, Roles, Statuses

\* And those made from a row: what they keep of it.
LEMMA ChangedTyped ==
    ASSUME NEW row \in User
    PROVE  /\ \A role \in Roles :
                /\ [row EXCEPT !.role = role] \in User
                /\ [row EXCEPT !.role = role].role = role
                /\ [row EXCEPT !.role = role].deleted = row.deleted
                /\ [row EXCEPT !.role = role].status = row.status
           /\ \A status \in Statuses :
                /\ [row EXCEPT !.status = status] \in User
                /\ [row EXCEPT !.status = status].role = row.role
                /\ [row EXCEPT !.status = status].deleted = row.deleted
                /\ [row EXCEPT !.status = status].status = status
           /\ [row EXCEPT !.deleted = TRUE] \in User
           /\ [row EXCEPT !.deleted = TRUE].deleted
           /\ [row EXCEPT !.deleted = TRUE].status = row.status
           /\ [row EXCEPT !.status = "active", !.invite_token = FALSE] \in User
           /\ [row EXCEPT !.status = "active", !.invite_token = FALSE].role = row.role
           /\ [row EXCEPT !.status = "active", !.invite_token = FALSE].deleted = row.deleted
           /\ Verified(row) \in User /\ Verified(row).role = row.role
           /\ Verified(row).deleted = row.deleted
           /\ row.status = "deactivated" => Verified(row).status = "deactivated"
BY DEF User, Verified, Roles, Statuses

-----------------------------------------------------------------------------
(* A request begins.                                                       *)

LEMMA LoadsStep ==
    ASSUME UsersInv, NEW r \in Requests, NEW kind \in UserKinds, NEW id \in People,
           NEW by \in People \cup {None}, NEW new \in User, LoadsUser(r, kind, id, by, new),
           setup_complete' \in BOOLEAN,
           id \in Present(users) =>
             SparesSuperadmin(id, by, users[id], new) /\ OpensRightly(id, by, users[id], new)
    PROVE  UsersInv'
<1> DEFINE w == [pc |-> "open", kind |-> kind, id |-> id, by |-> by,
                 seen |-> users[id], new |-> new]
<1>1. users[id] \in User \cup {None} /\ (users[id] # None => id \in Present(users))
  BY RowsTyped DEF UsersInv, RequestsInv, UsersTypeOK
<1>2. /\ w \in UserWork /\ w.pc = "open" /\ w.id = id /\ w.by = by /\ w.seen = users[id]
      /\ w.new = new
  BY <1>1 DEF UserWork
<1>3. /\ userWork' = [userWork EXCEPT ![r] = w] /\ users' = users
      /\ overlaps' \in Nat
      /\ overlaps' = 0 => \A q \in Requests : userWork[q].pc = "idle"
  BY DEF LoadsUser, Begins, UsersInv, SerialInv
<1> HIDE DEF w
<1>4. \A q \in Requests : userWork'[q] = IF q = r THEN w ELSE userWork[q]
  BY <1>3 DEF UsersInv, RequestsInv, UsersTypeOK
<1>5. RequestsInv'
  BY <1>2, <1>3, <1>4 DEF UsersInv, RequestsInv, UsersTypeOK
<1>6. ASSUME Calm', NEW q \in Requests, userWork'[q].pc = "open"
      PROVE  /\ \A p \in Requests \ {q} : userWork'[p].pc = "idle"
             /\ userWork'[q].seen = users'[userWork'[q].id]
             /\ userWork'[q].seen # None =>
                  /\ SparesSuperadmin(userWork[q].id, userWork[q].by, userWork[q].seen,
                                      userWork[q].new)'
                  /\ OpensRightly(userWork[q].id, userWork[q].by, userWork[q].seen,
                                  userWork[q].new)'
  <2>1. \A p \in Requests : userWork[p].pc = "idle"  BY <1>3, <1>6 DEF Calm
  <2>2. q = r /\ userWork'[q] = w  BY <1>4, <1>6, <2>1
  <2>3. \A p \in Requests \ {q} : userWork'[p].pc = "idle"  BY <1>4, <2>1, <2>2
  <2>4. userWork'[q].seen = users'[userWork'[q].id]  BY <1>2, <1>3, <2>2
  <2>5. Superadmins' = Superadmins  BY <1>3 DEF Superadmins, Live, Present
  <2>6. ASSUME users[id] # None
        PROVE  /\ SparesSuperadmin(userWork[q].id, userWork[q].by, userWork[q].seen,
                                   userWork[q].new)'
               /\ OpensRightly(userWork[q].id, userWork[q].by, userWork[q].seen,
                               userWork[q].new)'
    <3>1. /\ SparesSuperadmin(id, by, users[id], new) /\ OpensRightly(id, by, users[id], new)
          /\ userWork'[q].id = id /\ userWork'[q].by = by /\ userWork'[q].seen = users[id]
          /\ userWork'[q].new = new
      BY <1>1, <1>2, <2>2, <2>6
    <3> QED  BY <1>3, <2>5, <3>1 DEF SparesSuperadmin, OpensRightly
  <2> QED  BY <1>2, <2>2, <2>3, <2>4, <2>6
<1> QED  BY <1>3, <1>5, <1>6 DEF UsersInv, SerialInv

\* A new account, for an address that has none.
LEMMA JoinsStep ==
    ASSUME UsersInv, NEW r \in Requests, NEW kind \in UserKinds, NEW id \in Free,
           NEW new \in User, LoadsUser(r, kind, id, None, new), setup_complete' \in BOOLEAN
    PROVE  UsersInv'
<1>1. id \in People /\ id \notin Present(users)  BY DEF Free
<1> QED  BY <1>1, LoadsStep

\* An administrator's change.
LEMMA AdministersStep ==
    ASSUME UsersInv, NEW r \in Requests, NEW id \in Live, NEW actor \in Live, NEW new \in User,
           Administers(r, id, actor, new),
           \/ new.role = users[id].role /\ new.deleted = users[id].deleted
           \/ new.deleted /\ new.status = users[id].status
           \/ (actor # id \/ new.role = "superadmin") /\ new.deleted = users[id].deleted
              /\ new.status = users[id].status
    PROVE  UsersInv'
<1>1. /\ id \in People /\ actor \in People /\ id \in Present(users) /\ ~users[id].deleted
      /\ actor \in Superadmins /\ users[actor].status # "deactivated"
      /\ users[id] \in User
  BY RowsTyped DEF UsersInv, RequestsInv, Administers, MayAct
<1>2. setup_complete' \in BOOLEAN /\ LoadsUser(r, "admin", id, actor, new)
  BY DEF Administers, PastGuard
<1>3. SparesSuperadmin(id, actor, users[id], new)  BY <1>1 DEF SparesSuperadmin
<1>4. OpensRightly(id, actor, users[id], new)  BY <1>1 DEF OpensRightly
<1> QED  BY <1>1, <1>2, <1>3, <1>4, LoadsStep DEF UserKinds

LEMMA JoiningStep ==
    ASSUME UsersInv, NEW r \in Requests,
           CreateSuperadmin(r) \/ InviteUser(r) \/ Register(r) \/ SendMagicCode(r)
    PROVE  UsersInv'
<1>1. setup_complete' \in BOOLEAN
  BY DEF CreateSuperadmin, InviteUser, Register, SendMagicCode, PastGuard, UsersInv, RequestsInv,
         UsersTypeOK
<1>2. ASSUME NEW kind \in UserKinds, NEW id \in Free, NEW new \in User,
             LoadsUser(r, kind, id, None, new)
      PROVE  UsersInv'
  BY <1>1, <1>2, JoinsStep
<1>3. CASE CreateSuperadmin(r)
  BY <1>2, <1>3, NewcomersTyped DEF CreateSuperadmin, UserKinds
<1>4. CASE InviteUser(r)  BY <1>2, <1>4, NewcomersTyped DEF InviteUser, UserKinds
<1>5. CASE Register(r)  BY <1>2, <1>5, NewcomersTyped DEF Register, UserKinds
<1>6. CASE SendMagicCode(r)
  <2>1. PICK id \in Free, role \in {"superadmin", "user"} :
          LoadsUser(r, "join", id, None,
                    [Newcomer EXCEPT !.status = "pending_verification", !.role = role])
    BY <1>6 DEF SendMagicCode
  <2>2. [Newcomer EXCEPT !.status = "pending_verification", !.role = role] \in User
    BY NewcomersTyped
  <2> QED  BY <1>2, <2>1, <2>2 DEF UserKinds
<1> QED  BY <1>3, <1>4, <1>5, <1>6

LEMMA OwnStep ==
    ASSUME UsersInv, NEW r \in Requests, VerifyMagicCode(r) \/ AcceptInvite(r)
    PROVE  UsersInv'
<1>1. setup_complete' \in BOOLEAN  BY DEF VerifyMagicCode, AcceptInvite, PastGuard
<1>2. \A id \in Live : id \in People /\ id \in Present(users) /\ users[id] \in User
  BY RowsTyped DEF UsersInv, RequestsInv
<1>3. CASE VerifyMagicCode(r)
  <2>1. PICK id \in Live : /\ users[id].status # "deactivated"
                           /\ LoadsUser(r, "verify", id, None, Verified(users[id]))
    BY <1>3 DEF VerifyMagicCode
  <2>2. /\ Verified(users[id]) \in User
        /\ SparesSuperadmin(id, None, users[id], Verified(users[id]))
        /\ OpensRightly(id, None, users[id], Verified(users[id]))
    BY <1>2, <2>1, ChangedTyped DEF SparesSuperadmin, OpensRightly
  <2> QED  BY <1>1, <1>2, <2>1, <2>2, LoadsStep DEF UserKinds
<1>4. CASE AcceptInvite(r)
  <2>1. PICK id \in Live :
          /\ users[id].invite_token
          /\ LoadsUser(r, "accept", id, None,
                       [users[id] EXCEPT !.status = "active", !.invite_token = FALSE])
    BY <1>4 DEF AcceptInvite
  <2> DEFINE new == [users[id] EXCEPT !.status = "active", !.invite_token = FALSE]
  <2>2. new \in User /\ new.role = users[id].role /\ new.deleted = users[id].deleted
    BY <1>2, ChangedTyped
  <2> HIDE DEF new
  <2>3. LoadsUser(r, "accept", id, None, new)  BY <2>1 DEF new
  <2>4. SparesSuperadmin(id, None, users[id], new) /\ OpensRightly(id, None, users[id], new)
    BY <2>1, <2>2 DEF SparesSuperadmin, OpensRightly
  <2> QED  BY <1>1, <1>2, <2>2, <2>3, <2>4, LoadsStep DEF UserKinds
<1> QED  BY <1>3, <1>4

LEMMA AdminStep ==
    ASSUME UsersInv, NEW r \in Requests,
           UpdateUserRole(r) \/ DeactivateUser(r) \/ ReactivateUser(r) \/ DeleteUser(r)
    PROVE  UsersInv'
<1>1. \A id \in Live : users[id] \in User /\ ~users[id].deleted
  BY RowsTyped DEF UsersInv, RequestsInv
<1>2. CASE UpdateUserRole(r)
  <2>1. PICK id \in Live, actor \in Live, role \in {"superadmin", "superuser"} :
          /\ MaySetRole(actor, id, role)
          /\ Administers(r, id, actor, [users[id] EXCEPT !.role = role])
    BY <1>2 DEF UpdateUserRole
  <2> DEFINE new == [users[id] EXCEPT !.role = role]
  <2>2. /\ new \in User /\ new.role = role /\ new.deleted = users[id].deleted
        /\ new.status = users[id].status
    <3>1. role \in Roles /\ users[id] \in User  BY <1>1 DEF Roles
    <3> QED  BY <3>1, ChangedTyped
  <2> HIDE DEF new
  <2>3. Administers(r, id, actor, new)  BY <2>1 DEF new
  <2>4. actor # id \/ new.role = "superadmin"  BY <2>1, <2>2 DEF MaySetRole
  <2> QED  BY <2>2, <2>3, <2>4, AdministersStep
<1>3. ASSUME NEW id \in Live, NEW actor \in Live, NEW status \in Statuses,
             Administers(r, id, actor, [users[id] EXCEPT !.status = status])
      PROVE  UsersInv'
  <2> DEFINE new == [users[id] EXCEPT !.status = status]
  <2>1. new \in User /\ new.role = users[id].role /\ new.deleted = users[id].deleted
    BY <1>1, ChangedTyped
  <2> HIDE DEF new
  <2>2. Administers(r, id, actor, new)  BY <1>3 DEF new
  <2> QED  BY <2>1, <2>2, AdministersStep
<1>4. CASE DeactivateUser(r) \/ ReactivateUser(r)
  BY <1>3, <1>4 DEF DeactivateUser, ReactivateUser, Statuses
<1>5. CASE DeleteUser(r)
  <2>1. PICK id \in Live, actor \in Live :
          Administers(r, id, actor, [users[id] EXCEPT !.deleted = TRUE])
    BY <1>5 DEF DeleteUser
  <2> DEFINE new == [users[id] EXCEPT !.deleted = TRUE]
  <2>2. new \in User /\ new.deleted /\ new.status = users[id].status
    BY <1>1, ChangedTyped
  <2> HIDE DEF new
  <2>3. Administers(r, id, actor, new)  BY <2>1 DEF new
  <2> QED  BY <2>2, <2>3, AdministersStep
<1> QED  BY <1>2, <1>4, <1>5

-----------------------------------------------------------------------------
(* It ends.                                                                *)

LEMMA EndStep ==
    ASSUME UsersInv, NEW r \in Requests, userWork[r].pc = "open",
           userWork' = [userWork EXCEPT ![r] = IdleUser],
           users' \in [People -> User \cup {None}],
           \A p \in People : users[p] # None => users'[p] # None,
           setup_complete' = setup_complete, overlaps' = overlaps
    PROVE  UsersInv'
<1>1. \A q \in Requests : userWork'[q] = IF q = r THEN IdleUser ELSE userWork[q]
  BY DEF UsersInv, RequestsInv, UsersTypeOK
<1>2. RequestsInv'  BY <1>1, IdleTyped DEF UsersInv, RequestsInv, UsersTypeOK
<1>3. Calm' => \A q \in Requests : userWork'[q].pc = "idle"
  BY <1>1, IdleTyped DEF UsersInv, SerialInv, Calm
<1>4. SerialInv'  BY <1>3 DEF UsersInv, SerialInv, Calm
<1> QED  BY <1>2, <1>4 DEF UsersInv

\* What a commit leaves, row by row; while all is calm, exactly what the
\* request meant to write.
LEMMA CommitFacts ==
    ASSUME UsersInv, NEW r \in Requests, CommitUser(r)
    PROVE  /\ UsersInv'
           /\ userWork[r].pc = "open" /\ userWork[r].id \in People /\ userWork[r].new \in User
           /\ DOMAIN users' = People
           /\ users' \in [People -> User \cup {None}]
           /\ \A p \in People \ {userWork[r].id} : users'[p] = users[p]
           /\ Calm => users'[userWork[r].id] = userWork[r].new
<1> DEFINE w == userWork[r]
           lands == IF w.seen = None THEN w.new ELSE Over(w.seen, w.new, users[w.id])
<1>1. /\ w.pc = "open" /\ w \in UserWork /\ w.id \in People
      /\ users' = [users EXCEPT ![w.id] = lands]
      /\ userWork' = [userWork EXCEPT ![r] = IdleUser]
      /\ UNCHANGED <<setup_complete, overlaps>>
  BY DEF CommitUser, UsersInv, RequestsInv, UsersTypeOK
<1>2. w.new \in User /\ w.seen \in User \cup {None}  BY <1>1 DEF UserWork
<1>3. lands \in User /\ (Calm => lands = w.new)
  <2>1. CASE w.seen = None  BY <1>2, <2>1
  <2>2. CASE w.seen # None
    <3>1. w.seen \in User /\ users[w.id] \in User
      BY <1>1, <1>2, <2>2 DEF UsersInv, RequestsInv, UsersTypeOK
    <3>2. Calm => w.seen = users[w.id]  BY <1>1 DEF UsersInv, SerialInv
    <3>3. /\ Over(w.seen, w.new, users[w.id]) \in User
          /\ w.seen = users[w.id] => Over(w.seen, w.new, users[w.id]) = w.new
      BY <1>2, <3>1, OverTyped
    <3> QED  BY <2>2, <3>2, <3>3
  <2> QED  BY <2>1, <2>2
<1> HIDE DEF lands
<1>4. /\ users' \in [People -> User \cup {None}]
      /\ \A p \in People : users'[p] = IF p = w.id THEN lands ELSE users[p]
  BY <1>1, <1>3 DEF UsersInv, RequestsInv, UsersTypeOK
<1>5. \A p \in People : users[p] # None => users'[p] # None
  BY <1>3, <1>4, PeopleAssumption
<1>6. UsersInv'  BY <1>1, <1>4, <1>5, EndStep
<1> QED  BY <1>1, <1>2, <1>3, <1>4, <1>6

LEMMA UsersStep ==
    ASSUME UsersInv, [UsersNext]_usersVars
    PROVE  UsersInv'
<1>1. CASE UNCHANGED usersVars
  BY <1>1 DEF usersVars, userVars, UsersInv, RequestsInv, SerialInv, UsersTypeOK, Calm,
              SparesSuperadmin, OpensRightly, Superadmins, Live, Present
<1>2. ASSUME NEW r \in Requests, RollbackUser(r) PROVE UsersInv'
  <2>1. /\ userWork[r].pc = "open" /\ userWork' = [userWork EXCEPT ![r] = IdleUser]
        /\ UNCHANGED <<users, setup_complete, overlaps>>
    BY <1>2 DEF RollbackUser
  <2>2. users' \in [People -> User \cup {None}]
    BY <2>1 DEF UsersInv, RequestsInv, UsersTypeOK
  <2> QED  BY <2>1, <2>2, EndStep
<1>3. ASSUME NEW r \in Requests, CommitUser(r) PROVE UsersInv'  BY <1>3, CommitFacts
<1>4. ASSUME NEW r \in Requests,
             CreateSuperadmin(r) \/ InviteUser(r) \/ Register(r) \/ SendMagicCode(r)
      PROVE  UsersInv'
  BY <1>4, JoiningStep
<1>5. ASSUME NEW r \in Requests, VerifyMagicCode(r) \/ AcceptInvite(r) PROVE UsersInv'
  BY <1>5, OwnStep
<1>6. ASSUME NEW r \in Requests,
             UpdateUserRole(r) \/ DeactivateUser(r) \/ ReactivateUser(r) \/ DeleteUser(r)
      PROVE  UsersInv'
  BY <1>6, AdminStep
<1> QED  BY <1>1, <1>2, <1>3, <1>4, <1>5, <1>6 DEF UsersNext

LEMMA UsersInvariant == UsersSpec => []UsersInv
<1>1. UsersInit /\ overlaps = 0 => UsersInv
  <2> SUFFICES ASSUME UsersInit, overlaps = 0 PROVE UsersInv
    OBVIOUS
  <2>1. \A r \in Requests : userWork[r].pc = "idle"  BY IdleTyped DEF UsersInit
  <2>2. UsersTypeOK  BY IdleTyped DEF UsersInit, UsersTypeOK
  <2>3. SerialInv  BY <2>1 DEF SerialInv
  <2> QED  BY <2>1, <2>2, <2>3 DEF UsersInv, RequestsInv
<1>2. UsersInv /\ [UsersNext]_usersVars => UsersInv'  BY UsersStep
<1> QED  BY <1>1, <1>2, PTL DEF UsersSpec

\* Rows and requests keep their types under every interleaving, and a row once
\* there stays.
THEOREM UsersTypeCorrect == UsersSpec => []UsersTypeOK
<1>1. UsersInv => UsersTypeOK  BY DEF UsersInv, RequestsInv
<1> QED  BY <1>1, UsersInvariant, PTL

-----------------------------------------------------------------------------
(* Superadmins and deactivations.                                          *)

\* Rows change only by a commit.
LEMMA OnlyCommits ==
    ASSUME UsersInv, [UsersNext]_usersVars, users' # users
    PROVE  \E r \in Requests : CommitUser(r)
BY DEF UsersNext, usersVars, userVars, CreateSuperadmin, InviteUser, Register, SendMagicCode,
       VerifyMagicCode, AcceptInvite, UpdateUserRole, DeactivateUser, ReactivateUser,
       DeleteUser, Administers, LoadsUser, RollbackUser

\* While requests come one at a time, only deleting accounts takes the last
\* superadmin away.
THEOREM RolesLeaveASuperadmin == UsersSpec => SuperadminRemains
<1>1. ASSUME UsersInv, [UsersNext]_usersVars, Calm, Superadmins # {}, Superadmins' = {}
      PROVE  \E p \in Superadmins : users'[p].deleted
  <2>1. PICK r \in Requests : CommitUser(r)
    BY <1>1, OnlyCommits DEF Superadmins, Live, Present
  <2> DEFINE w == userWork[r]
  <2>2. /\ w.pc = "open" /\ w.id \in People /\ w.new \in User /\ DOMAIN users' = People
        /\ \A p \in People \ {w.id} : users'[p] = users[p]
        /\ users'[w.id] = w.new
    BY <1>1, <2>1, CommitFacts
  <2>3. w.seen = users[w.id] /\ (w.seen # None => SparesSuperadmin(w.id, w.by, w.seen, w.new))
    BY <1>1, <2>2 DEF UsersInv, SerialInv
  <2>4. UsersTypeOK  BY <1>1 DEF UsersInv, RequestsInv
  <2>5. \A p : p \in Superadmins <=>
          /\ p \in People /\ users[p] # None /\ ~users[p].deleted
          /\ users[p].role = "superadmin"
    BY <2>4, RowsTyped
  <2>6. \A p : p \in Superadmins' <=>
          /\ p \in People /\ users'[p] # None /\ ~users'[p].deleted
          /\ users'[p].role = "superadmin"
    BY <2>2 DEF Superadmins, Live, Present
  <2>7. Superadmins \subseteq {w.id}  BY <1>1, <2>2, <2>5, <2>6
  <2>8. w.id \in Superadmins  BY <1>1, <2>7
  <2>9. w.seen = users[w.id] /\ w.seen # None /\ ~w.seen.deleted /\ w.seen.role = "superadmin"
    BY <2>3, <2>5, <2>8
  <2>10. SparesSuperadmin(w.id, w.by, w.seen, w.new)  BY <2>3, <2>9
  <2>11. w.new.deleted \/ (~w.new.deleted /\ w.new.role = "superadmin")
    BY <2>7, <2>9, <2>10 DEF SparesSuperadmin
  <2>12. w.new.deleted
    BY <1>1, <2>2, <2>6, <2>11, PeopleAssumption
  <2> QED  BY <2>2, <2>8, <2>12
<1>2. UsersInv /\ [UsersNext]_usersVars =>
        [Calm /\ Superadmins # {} /\ Superadmins' = {}
            => \E p \in Superadmins : users'[p].deleted]_<<userVars, edits, overlaps>>
  BY <1>1
<1> QED  BY <1>2, UsersInvariant, PTL DEF UsersSpec, SuperadminRemains, usersVars

\* While requests come one at a time, a deactivated account is opened by its
\* unused invitation or another administrator who is not deactivated.
THEOREM DeactivationsHold == UsersSpec => DeactivationHolds
<1>1. ASSUME UsersInv, [UsersNext]_usersVars, NEW p \in Live, Calm,
             users[p].status = "deactivated", users'[p].status # "deactivated"
      PROVE  \/ users[p].invite_token
             \/ \E r \in Requests, actor \in Superadmins \ {p} :
                   userWork[r].id = p /\ userWork[r].by = actor
                      /\ users[actor].status # "deactivated"
  <2>1. users' # users  BY <1>1
  <2>2. PICK r \in Requests : CommitUser(r)  BY <1>1, <2>1, OnlyCommits
  <2> DEFINE w == userWork[r]
  <2>3. /\ w.pc = "open" /\ users'[w.id] = w.new
        /\ \A q \in People \ {w.id} : users'[q] = users[q]
    BY <1>1, <2>2, CommitFacts
  <2>4. p \in People /\ users[p] # None
    BY <1>1, RowsTyped DEF UsersInv, RequestsInv
  <2>5. p = w.id  BY <1>1, <2>3, <2>4
  <2>6. w.seen = users[p] /\ w.seen # None  BY <1>1, <2>3, <2>4, <2>5 DEF UsersInv, SerialInv
  <2>7. OpensRightly(w.id, w.by, w.seen, w.new)
    BY <1>1, <2>3, <2>6 DEF UsersInv, SerialInv
  <2> QED  BY <1>1, <2>3, <2>5, <2>6, <2>7 DEF OpensRightly
<1>2. UsersInv /\ [UsersNext]_usersVars =>
        [\A p \in Live :
          (Calm /\ users[p].status = "deactivated" /\ users'[p].status # "deactivated")
              => \/ users[p].invite_token
                 \/ \E r \in Requests, actor \in Superadmins \ {p} :
                       userWork[r].id = p /\ userWork[r].by = actor
                          /\ users[actor].status # "deactivated"]_<<userVars, edits, overlaps>>
  BY <1>1
<1> QED  BY <1>2, UsersInvariant, PTL DEF UsersSpec, DeactivationHolds, usersVars

-----------------------------------------------------------------------------
(* Backup addresses.                                                       *)

backupsVars == <<backupVars, edits, overlaps>>

BackupsSpec ==
    BackupsInit /\ edits = 0 /\ overlaps = 0 /\ [][BackupsNext]_backupsVars

\* A request is about an account and a mailbox; one that compares a code has
\* the mailbox from the row it loaded.
BackupRequestInv(r) ==
    backupWork[r].pc # "idle" =>
        /\ backupWork[r].owner \in Owners
        /\ backupWork[r].email \in Mailboxes
        /\ backupWork[r].pc \in {"right", "wrong"} =>
             backupWork[r].email = backupWork[r].seen.backup_email

BackupRequestsInv == BackupsTypeOK /\ \A r \in Requests : BackupRequestInv(r)

\* The wrong codes that were compared and are not counted yet.
Uncounted(email) ==
    {r \in Requests : backupWork[r].pc = "wrong" /\ backupWork[r].email = email}

\* Tries, counted and to be counted: the last one that passed the check found
\* less than the limit, and every request may hold one more.
TriesInv ==
    \A email \in Mailboxes :
        attempts[email] + Cardinality(Uncounted(email)) < MaxAttempts + Cardinality(Requests)

\* Alone, a request still sees the row it loaded.
BackupSerialInv ==
    /\ overlaps \in Nat
    /\ Calm => \A r \in Requests :
         backupWork[r].pc # "idle" =>
            /\ \A q \in Requests \ {r} : backupWork[q].pc = "idle"
            /\ backupWork[r].pc \in {"loaded", "right"} =>
                 backupWork[r].seen = backups[backupWork[r].owner]

-----------------------------------------------------------------------------
(* Types.                                                                  *)

LEMMA BackupIdleTyped == IdleBackup \in BackupWork /\ IdleBackup.pc = "idle"
BY DEF IdleBackup, BackupWork, NoBackup, Backup

LEMMA BackupOverTyped ==
    ASSUME NEW seen \in Backup, NEW new \in Backup, NEW now \in Backup
    PROVE  /\ Over(seen, new, now) \in Backup
           /\ seen = now => Over(seen, new, now) = new
BY DEF Over, Backup

\* The rows a request would write.
LEMMA BackupRowsTyped ==
    ASSUME NEW row \in Backup, NEW email \in Mailboxes
    PROVE  /\ Proposed(row, email) \in Backup /\ ~Proposed(row, email).verified
           /\ [row EXCEPT !.verified = TRUE] \in Backup
           /\ [row EXCEPT !.verified = TRUE].backup_email = row.backup_email
BY DEF Proposed, Backup

LEMMA BackupLoadsStep ==
    ASSUME BackupRequestsInv, NEW r \in Requests,
           NEW pc \in {"loaded", "sending", "right", "wrong"},
           NEW owner \in Owners, NEW email \in Mailboxes, NEW code \in MailedCodes \cup {None},
           LoadsBackup(r, pc, owner, email, code),
           pc \in {"right", "wrong"} => email = backups[owner].backup_email
    PROVE  BackupRequestsInv'
<1> DEFINE w == [pc |-> pc, owner |-> owner, seen |-> backups[owner], email |-> email,
                 code |-> code]
<1>1. backups[owner] \in Backup  BY DEF BackupRequestsInv, BackupsTypeOK
<1>2. /\ w \in BackupWork /\ w.pc = pc /\ w.owner = owner /\ w.seen = backups[owner]
      /\ w.email = email
  BY <1>1 DEF BackupWork
<1>3. /\ backupWork' = [backupWork EXCEPT ![r] = w]
      /\ UNCHANGED <<backups, mailed, attempts>>
  BY DEF LoadsBackup
<1> HIDE DEF w
<1>4. BackupsTypeOK'  BY <1>2, <1>3 DEF BackupRequestsInv, BackupsTypeOK
<1>5. \A q \in Requests : backupWork'[q] = IF q = r THEN w ELSE backupWork[q]
  BY <1>3 DEF BackupRequestsInv, BackupsTypeOK
<1>6. \A q \in Requests : BackupRequestInv(q)'
  BY <1>2, <1>5 DEF BackupRequestsInv, BackupRequestInv
<1> QED  BY <1>4, <1>6 DEF BackupRequestsInv

LEMMA BackupEndStep ==
    ASSUME BackupRequestsInv, NEW r \in Requests,
           backupWork' = [backupWork EXCEPT ![r] = IdleBackup],
           backups' \in [Owners -> Backup], mailed' \in [Mailboxes -> MailedCodes \cup {None}],
           attempts' \in [Mailboxes -> Nat]
    PROVE  BackupRequestsInv'
<1>1. BackupsTypeOK'  BY BackupIdleTyped DEF BackupRequestsInv, BackupsTypeOK
<1>2. \A q \in Requests : backupWork'[q] = IF q = r THEN IdleBackup ELSE backupWork[q]
  BY DEF BackupRequestsInv, BackupsTypeOK
<1>3. \A q \in Requests : BackupRequestInv(q)'
  BY <1>2, BackupIdleTyped DEF BackupRequestsInv, BackupRequestInv
<1> QED  BY <1>1, <1>3 DEF BackupRequestsInv

\* Clearing a code, or storing one: typed, and no counter above the one it had.
LEMMA ClearedTyped ==
    ASSUME BackupsTypeOK, NEW email \in Mailboxes \cup {None}, CodeCleared(email)
    PROVE  /\ mailed' \in [Mailboxes -> MailedCodes \cup {None}]
           /\ attempts' \in [Mailboxes -> Nat]
           /\ \A box \in Mailboxes : attempts'[box] <= attempts[box]
BY DEF CodeCleared, BackupsTypeOK

LEMMA StoredTyped ==
    ASSUME BackupsTypeOK, NEW email \in Mailboxes, NEW code \in MailedCodes, Stored(email, code)
    PROVE  /\ mailed' \in [Mailboxes -> MailedCodes \cup {None}]
           /\ attempts' \in [Mailboxes -> Nat]
           /\ \A box \in Mailboxes : attempts'[box] <= attempts[box]
BY DEF Stored, BackupsTypeOK

\* The two commits.
LEMMA CommitBackupFacts ==
    ASSUME BackupRequestsInv, NEW r \in Requests, CommitBackupEmail(r)
    PROVE  /\ BackupRequestsInv'
           /\ \A box \in Mailboxes : attempts'[box] <= attempts[box]
           /\ \A q \in Requests \ {r} : backupWork'[q] = backupWork[q]
           /\ backupWork'[r].pc = "sending" /\ backupWork[r].pc = "loaded"
           /\ backupWork[r].owner \in Owners /\ backupWork[r].seen \in Backup
           /\ backups' = [backups EXCEPT ![backupWork[r].owner] =
                Over(backupWork[r].seen, Proposed(backupWork[r].seen, backupWork[r].email), @)]
           /\ overlaps' = overlaps
           /\ backupWork[r].email \in Mailboxes
<1> DEFINE w == backupWork[r]
           sending == [backupWork[r] EXCEPT !.pc = "sending"]
<1>1. /\ w \in BackupWork /\ BackupRequestInv(r) /\ w.pc = "loaded"
      /\ backupWork' = [backupWork EXCEPT ![r] = sending]
      /\ backups' = [backups EXCEPT ![w.owner] = Over(w.seen, Proposed(w.seen, w.email), @)]
      /\ overlaps' = overlaps
  BY DEF CommitBackupEmail, Moves, BackupRequestsInv, BackupsTypeOK
<1>2. w.owner \in Owners /\ w.email \in Mailboxes /\ w.seen \in Backup
  BY <1>1 DEF BackupRequestInv, BackupWork
<1>3. sending \in BackupWork /\ sending.pc = "sending" /\ sending.owner = w.owner
      /\ sending.email = w.email
  BY <1>1 DEF BackupWork
<1> HIDE DEF sending
<1>4. /\ mailed' \in [Mailboxes -> MailedCodes \cup {None}] /\ attempts' \in [Mailboxes -> Nat]
      /\ \A box \in Mailboxes : attempts'[box] <= attempts[box]
  <2>1. w.seen.backup_email \in Mailboxes \cup {None}  BY <1>2 DEF Backup
  <2>2. PICK email \in Mailboxes \cup {None} : CodeCleared(email)
    BY <2>1 DEF CommitBackupEmail
  <2> QED  BY <2>2, ClearedTyped DEF BackupRequestsInv
<1>5. Over(w.seen, Proposed(w.seen, w.email), backups[w.owner]) \in Backup
  BY <1>2, BackupOverTyped, BackupRowsTyped DEF BackupRequestsInv, BackupsTypeOK
<1>6. backups' \in [Owners -> Backup]
  BY <1>1, <1>2, <1>5 DEF BackupRequestsInv, BackupsTypeOK
<1>7. BackupsTypeOK'  BY <1>1, <1>3, <1>4, <1>6 DEF BackupRequestsInv, BackupsTypeOK
<1>8. \A q \in Requests : backupWork'[q] = IF q = r THEN sending ELSE backupWork[q]
  BY <1>1 DEF BackupRequestsInv, BackupsTypeOK
<1>9. \A q \in Requests : BackupRequestInv(q)'
  BY <1>2, <1>3, <1>8 DEF BackupRequestsInv, BackupRequestInv
<1> QED  BY <1>1, <1>2, <1>3, <1>4, <1>7, <1>8, <1>9 DEF BackupRequestsInv

LEMMA CommitVerifiedFacts ==
    ASSUME BackupRequestsInv, NEW r \in Requests, CommitVerified(r)
    PROVE  /\ BackupRequestsInv'
           /\ \A box \in Mailboxes : attempts'[box] <= attempts[box]
           /\ backupWork' = [backupWork EXCEPT ![r] = IdleBackup]
           /\ backupWork[r].pc = "right" /\ backupWork[r].owner \in Owners
           /\ backupWork[r].seen \in Backup
           /\ backupWork[r].email = backupWork[r].seen.backup_email
           /\ backups' = [backups EXCEPT ![backupWork[r].owner] =
                Over(backupWork[r].seen, [backupWork[r].seen EXCEPT !.verified = TRUE], @)]
           /\ overlaps' = overlaps
           /\ backupWork[r].email \in Mailboxes
<1> DEFINE w == backupWork[r]
<1>1. /\ w \in BackupWork /\ BackupRequestInv(r) /\ w.pc = "right"
      /\ backupWork' = [backupWork EXCEPT ![r] = IdleBackup]
      /\ backups' = [backups EXCEPT ![w.owner] =
            Over(w.seen, [w.seen EXCEPT !.verified = TRUE], @)]
      /\ CodeCleared(w.email) /\ overlaps' = overlaps
  BY DEF CommitVerified, Ends, BackupRequestsInv, BackupsTypeOK
<1>2. w.owner \in Owners /\ w.email \in Mailboxes /\ w.seen \in Backup
      /\ w.email = w.seen.backup_email
  BY <1>1 DEF BackupRequestInv, BackupWork
<1>3. /\ mailed' \in [Mailboxes -> MailedCodes \cup {None}] /\ attempts' \in [Mailboxes -> Nat]
      /\ \A box \in Mailboxes : attempts'[box] <= attempts[box]
  BY <1>1, <1>2, ClearedTyped DEF BackupRequestsInv
<1>4. Over(w.seen, [w.seen EXCEPT !.verified = TRUE], backups[w.owner]) \in Backup
  BY <1>2, BackupOverTyped, BackupRowsTyped DEF BackupRequestsInv, BackupsTypeOK
<1>5. backups' \in [Owners -> Backup]
  BY <1>1, <1>2, <1>4 DEF BackupRequestsInv, BackupsTypeOK
<1>6. BackupRequestsInv'  BY <1>1, <1>3, <1>5, BackupEndStep
<1> QED  BY <1>1, <1>2, <1>3, <1>6

\* What the other steps that end a request do.
LEMMA SendFacts ==
    ASSUME BackupRequestsInv, NEW r \in Requests, SendBackupEmailCode(r)
    PROVE  /\ BackupRequestsInv'
           /\ backupWork[r].pc # "idle" /\ backupWork' = [backupWork EXCEPT ![r] = IdleBackup]
           /\ backups' = backups /\ overlaps' = overlaps
           /\ \A box \in Mailboxes : attempts'[box] <= attempts[box]
<1>1. /\ backupWork[r].pc = "sending" /\ backupWork' = [backupWork EXCEPT ![r] = IdleBackup]
      /\ backups' = backups /\ overlaps' = overlaps
  BY DEF SendBackupEmailCode, Ends
<1>2. backupWork[r].email \in Mailboxes  BY <1>1 DEF BackupRequestsInv, BackupRequestInv
<1>3. PICK code \in MailedCodes : Stored(backupWork[r].email, code)
  BY DEF SendBackupEmailCode
<1>4. /\ mailed' \in [Mailboxes -> MailedCodes \cup {None}] /\ attempts' \in [Mailboxes -> Nat]
      /\ \A box \in Mailboxes : attempts'[box] <= attempts[box]
  BY <1>2, <1>3, StoredTyped DEF BackupRequestsInv
<1>5. backups' \in [Owners -> Backup]  BY <1>1 DEF BackupRequestsInv, BackupsTypeOK
<1> QED  BY <1>1, <1>4, <1>5, BackupEndStep

LEMMA CountFacts ==
    ASSUME BackupRequestsInv, NEW r \in Requests, CountWrongCode(r)
    PROVE  /\ BackupRequestsInv'
           /\ backupWork[r].pc = "wrong" /\ backupWork[r].email \in Mailboxes
           /\ backupWork' = [backupWork EXCEPT ![r] = IdleBackup]
           /\ backups' = backups /\ overlaps' = overlaps
           /\ \A box \in Mailboxes :
                attempts'[box] = IF box = backupWork[r].email THEN attempts[box] + 1
                                 ELSE attempts[box]
<1>1. /\ backupWork[r].pc = "wrong" /\ backupWork' = [backupWork EXCEPT ![r] = IdleBackup]
      /\ attempts' = [attempts EXCEPT ![backupWork[r].email] = @ + 1]
      /\ backups' = backups /\ mailed' = mailed /\ overlaps' = overlaps
  BY DEF CountWrongCode, Ends
<1>2. backupWork[r].email \in Mailboxes  BY <1>1 DEF BackupRequestsInv, BackupRequestInv
<1>3. attempts' \in [Mailboxes -> Nat]  BY <1>1, <1>2 DEF BackupRequestsInv, BackupsTypeOK
<1>4. BackupRequestsInv'
  BY <1>1, <1>3, BackupEndStep DEF BackupRequestsInv, BackupsTypeOK
<1> QED  BY <1>1, <1>2, <1>4 DEF BackupRequestsInv, BackupsTypeOK

\* The three ways to begin, as one.
LEMMA BeginsFacts ==
    ASSUME BackupRequestsInv, NEW r \in Requests,
           SetBackupEmail(r) \/ ResendBackupEmailCode(r) \/ VerifyBackupEmail(r)
    PROVE  \E pc \in {"loaded", "sending", "right", "wrong"}, owner \in Owners,
              email \in Mailboxes, code \in MailedCodes \cup {None} :
            /\ LoadsBackup(r, pc, owner, email, code)
            /\ pc \in {"right", "wrong"} => email = backups[owner].backup_email /\ MayTry(email)
<1>1. \A owner \in Owners : backups[owner].backup_email \in Mailboxes \cup {None}
  BY DEF BackupRequestsInv, BackupsTypeOK, Backup
<1>2. CASE SetBackupEmail(r)  BY <1>2 DEF SetBackupEmail
<1>3. CASE ResendBackupEmailCode(r)  BY <1>1, <1>3 DEF ResendBackupEmailCode
<1>4. CASE VerifyBackupEmail(r)
  <2>1. PICK owner \in Owners, code \in MailedCodes :
          /\ backups[owner].backup_email # None /\ MayTry(backups[owner].backup_email)
          /\ LoadsBackup(r, IF code = mailed[backups[owner].backup_email] THEN "right" ELSE "wrong",
                         owner, backups[owner].backup_email, code)
    BY <1>4 DEF VerifyBackupEmail
  <2>2. backups[owner].backup_email \in Mailboxes  BY <1>1, <2>1
  <2>3. CASE code = mailed[backups[owner].backup_email]
    <3>1. LoadsBackup(r, "right", owner, backups[owner].backup_email, code)  BY <2>1, <2>3
    <3> QED  BY <2>1, <2>2, <3>1
  <2>4. CASE code # mailed[backups[owner].backup_email]
    <3>1. LoadsBackup(r, "wrong", owner, backups[owner].backup_email, code)  BY <2>1, <2>4
    <3> QED  BY <2>1, <2>2, <3>1
  <2> QED  BY <2>3, <2>4
<1> QED  BY <1>2, <1>3, <1>4

LEMMA ExpiresFacts ==
    ASSUME BackupRequestsInv, CodeExpires
    PROVE  BackupRequestsInv' /\ UNCHANGED <<backups, attempts, backupWork, overlaps>>
<1>1. mailed' \in [Mailboxes -> MailedCodes \cup {None}]
  BY DEF CodeExpires, BackupRequestsInv, BackupsTypeOK
<1> QED  BY <1>1 DEF CodeExpires, BackupRequestsInv, BackupRequestInv, BackupsTypeOK

LEMMA RequestsStep ==
    ASSUME BackupRequestsInv, [BackupsNext]_backupsVars
    PROVE  BackupRequestsInv'
<1>1. CASE UNCHANGED backupsVars
  BY <1>1 DEF backupsVars, backupVars, BackupRequestsInv, BackupRequestInv, BackupsTypeOK
<1>2. CASE CodeExpires  BY <1>2, ExpiresFacts
<1>3. ASSUME NEW r \in Requests,
             SetBackupEmail(r) \/ ResendBackupEmailCode(r) \/ VerifyBackupEmail(r)
      PROVE  BackupRequestsInv'
  BY <1>3, BeginsFacts, BackupLoadsStep
<1>4. ASSUME NEW r \in Requests, CommitBackupEmail(r) \/ SendBackupEmailCode(r)
                                   \/ CountWrongCode(r) \/ CommitVerified(r)
      PROVE  BackupRequestsInv'
  BY <1>4, CommitBackupFacts, SendFacts, CountFacts, CommitVerifiedFacts
<1> QED  BY <1>1, <1>2, <1>3, <1>4 DEF BackupsNext

LEMMA RequestsInit == BackupsInit => BackupRequestsInv
BY BackupIdleTyped
DEF BackupsInit, BackupRequestsInv, BackupRequestInv, BackupsTypeOK, NoBackup, Backup

\* Rows, codes and counters keep their types under every interleaving.
THEOREM BackupsTypeCorrect == BackupsSpec => []BackupsTypeOK
<1>1. BackupRequestsInv => BackupsTypeOK  BY DEF BackupRequestsInv
<1> QED  BY <1>1, RequestsInit, RequestsStep, PTL DEF BackupsSpec

-----------------------------------------------------------------------------
(* Wrong tries.                                                            *)

LEMMA UncountedFinite ==
    ASSUME NEW email
    PROVE  /\ IsFiniteSet(Uncounted(email)) /\ Cardinality(Uncounted(email)) \in Nat
           /\ Cardinality(Requests) \in Nat
           /\ Cardinality(Uncounted(email)) <= Cardinality(Requests)
<1>1. Uncounted(email) \subseteq Requests  BY DEF Uncounted
<1>2. IsFiniteSet(Requests)  BY BackupAssumption
<1>3. /\ IsFiniteSet(Uncounted(email))
      /\ Cardinality(Uncounted(email)) <= Cardinality(Requests)
  BY <1>1, <1>2, FS_Subset
<1> QED  BY <1>2, <1>3, FS_CardinalityType

\* No counter grows and no wrong code is added.
LEMMA TriesFall ==
    ASSUME BackupRequestsInv, BackupRequestsInv', TriesInv,
           NEW box \in Mailboxes, attempts'[box] <= attempts[box],
           NEW open, open = Uncounted(box)', open \subseteq Uncounted(box)
    PROVE  attempts'[box] + Cardinality(open) < MaxAttempts + Cardinality(Requests)
<1>1. /\ IsFiniteSet(Uncounted(box)) /\ Cardinality(Uncounted(box)) \in Nat
      /\ Cardinality(Requests) \in Nat
  BY UncountedFinite
<1>2. IsFiniteSet(open) /\ Cardinality(open) <= Cardinality(Uncounted(box))
  BY <1>1, FS_Subset
<1>3. Cardinality(open) \in Nat  BY <1>2, FS_CardinalityType
<1>4. attempts[box] \in Nat /\ attempts'[box] \in Nat /\ MaxAttempts \in Nat
  BY BackupAssumption DEF BackupRequestsInv, BackupsTypeOK
<1>5. attempts[box] + Cardinality(Uncounted(box)) < MaxAttempts + Cardinality(Requests)
  BY DEF TriesInv
<1> QED  BY <1>1, <1>2, <1>3, <1>4, <1>5

LEMMA TriesStep ==
    ASSUME BackupRequestsInv, BackupRequestsInv', TriesInv, [BackupsNext]_backupsVars
    PROVE  TriesInv'
<1> SUFFICES ASSUME NEW box \in Mailboxes
             PROVE  attempts'[box] + Cardinality(Uncounted(box)')
                        < MaxAttempts + Cardinality(Requests)
  BY DEF TriesInv
<1>1. attempts[box] \in Nat /\ MaxAttempts \in Nat \ {0} /\ Cardinality(Requests) \in Nat
  BY BackupAssumption, FS_CardinalityType DEF BackupRequestsInv, BackupsTypeOK
<1>2. ASSUME attempts'[box] <= attempts[box], Uncounted(box)' \subseteq Uncounted(box)
      PROVE  attempts'[box] + Cardinality(Uncounted(box)')
                        < MaxAttempts + Cardinality(Requests)
  BY <1>2, TriesFall
<1>3. CASE UNCHANGED backupsVars \/ CodeExpires
  <2>1. UNCHANGED <<attempts, backupWork>>
    BY <1>3, ExpiresFacts DEF backupsVars, backupVars
  <2>2. Uncounted(box)' = Uncounted(box)  BY <2>1 DEF Uncounted
  <2> QED  BY <1>1, <1>2, <2>1, <2>2
<1>4. ASSUME NEW r \in Requests,
             SetBackupEmail(r) \/ ResendBackupEmailCode(r) \/ VerifyBackupEmail(r)
      PROVE  attempts'[box] + Cardinality(Uncounted(box)')
                        < MaxAttempts + Cardinality(Requests)
  <2>1. PICK pc \in {"loaded", "sending", "right", "wrong"}, owner \in Owners,
              email \in Mailboxes, code \in MailedCodes \cup {None} :
            /\ LoadsBackup(r, pc, owner, email, code)
            /\ pc \in {"right", "wrong"} => MayTry(email)
    BY <1>4, BeginsFacts
  <2>2. /\ attempts' = attempts /\ backupWork[r].pc = "idle"
        /\ backupWork' = [backupWork EXCEPT ![r] =
             [pc |-> pc, owner |-> owner, seen |-> backups[owner], email |-> email,
              code |-> code]]
    BY <2>1 DEF LoadsBackup, Begins
  <2>3. /\ \A q \in Requests \ {r} : backupWork'[q] = backupWork[q]
        /\ backupWork'[r].pc = pc /\ backupWork'[r].email = email
    BY <2>2 DEF BackupRequestsInv, BackupsTypeOK
  <2>4. CASE pc = "wrong" /\ box = email
    <3>1. attempts[box] < MaxAttempts  BY <2>1, <2>4 DEF MayTry
    <3>2. Uncounted(box)' \subseteq Requests  BY DEF Uncounted
    <3>3. /\ Cardinality(Uncounted(box)') <= Cardinality(Requests)
          /\ Cardinality(Uncounted(box)') \in Nat
      BY <3>2, BackupAssumption, FS_Subset, FS_CardinalityType
    <3> QED  BY <1>1, <2>2, <3>1, <3>3
  <2>5. CASE ~(pc = "wrong" /\ box = email)
    <3>1. Uncounted(box)' \subseteq Uncounted(box)  BY <2>2, <2>3, <2>5 DEF Uncounted
    <3> QED  BY <1>1, <1>2, <2>2, <3>1
  <2> QED  BY <2>4, <2>5
<1>5. ASSUME NEW r \in Requests, CommitBackupEmail(r)
      PROVE  attempts'[box] + Cardinality(Uncounted(box)')
                        < MaxAttempts + Cardinality(Requests)
  <2>1. /\ \A q \in Requests \ {r} : backupWork'[q] = backupWork[q]
        /\ backupWork'[r].pc = "sending" /\ attempts'[box] <= attempts[box]
    BY <1>5, CommitBackupFacts
  <2>2. Uncounted(box)' \subseteq Uncounted(box)  BY <2>1 DEF Uncounted
  <2> QED  BY <1>2, <2>1, <2>2
<1>6. ASSUME NEW r \in Requests, SendBackupEmailCode(r) \/ CommitVerified(r)
      PROVE  attempts'[box] + Cardinality(Uncounted(box)')
                        < MaxAttempts + Cardinality(Requests)
  <2>1. backupWork' = [backupWork EXCEPT ![r] = IdleBackup] /\ attempts'[box] <= attempts[box]
    BY <1>6, SendFacts, CommitVerifiedFacts
  <2>2. \A q \in Requests : backupWork'[q] = IF q = r THEN IdleBackup ELSE backupWork[q]
    BY <2>1 DEF BackupRequestsInv, BackupsTypeOK
  <2>3. Uncounted(box)' \subseteq Uncounted(box)  BY <2>2, BackupIdleTyped DEF Uncounted
  <2> QED  BY <1>2, <2>1, <2>3
<1>7. ASSUME NEW r \in Requests, CountWrongCode(r)
      PROVE  attempts'[box] + Cardinality(Uncounted(box)')
                        < MaxAttempts + Cardinality(Requests)
  <2>1. /\ backupWork[r].pc = "wrong" /\ backupWork' = [backupWork EXCEPT ![r] = IdleBackup]
        /\ attempts'[box] = IF box = backupWork[r].email THEN attempts[box] + 1
                            ELSE attempts[box]
    BY <1>7, CountFacts
  <2>2. \A q \in Requests : backupWork'[q] = IF q = r THEN IdleBackup ELSE backupWork[q]
    BY <2>1 DEF BackupRequestsInv, BackupsTypeOK
  <2>3. CASE box # backupWork[r].email
    <3>1. Uncounted(box)' \subseteq Uncounted(box)  BY <2>2, BackupIdleTyped DEF Uncounted
    <3> QED  BY <1>1, <1>2, <2>1, <2>3, <3>1
  <2>4. CASE box = backupWork[r].email
    <3>1. r \in Uncounted(box) /\ Uncounted(box)' = Uncounted(box) \ {r}
      BY <2>1, <2>2, <2>4, BackupIdleTyped DEF Uncounted
    <3>2. IsFiniteSet(Uncounted(box)) /\ Cardinality(Uncounted(box)) \in Nat
      BY UncountedFinite
    <3>3. Cardinality(Uncounted(box)') = Cardinality(Uncounted(box)) - 1
      BY <3>1, <3>2, FS_RemoveElement
    <3>4. attempts[box] + Cardinality(Uncounted(box)) < MaxAttempts + Cardinality(Requests)
      BY DEF TriesInv
    <3>5. attempts'[box] = attempts[box] + 1  BY <2>1, <2>4
    <3> QED  BY <1>1, <3>2, <3>3, <3>4, <3>5
  <2> QED  BY <2>3, <2>4
<1> QED  BY <1>3, <1>4, <1>5, <1>6, <1>7 DEF BackupsNext

\* However requests overlap, one mailed code stands less wrong tries than the
\* limit and one for every request.
THEOREM WrongTriesAreBounded == BackupsSpec => []TriesBounded
<1>1. BackupsInit => TriesInv
  <2> SUFFICES ASSUME BackupsInit, NEW box \in Mailboxes
               PROVE  attempts[box] + Cardinality(Uncounted(box))
                        < MaxAttempts + Cardinality(Requests)
    BY DEF TriesInv
  <2>1. Uncounted(box) = {} /\ attempts[box] = 0
    BY BackupIdleTyped DEF BackupsInit, Uncounted
  <2>2. Cardinality(Uncounted(box)) = 0  BY <2>1, FS_EmptySet
  <2>3. MaxAttempts \in Nat \ {0} /\ Cardinality(Requests) \in Nat
    BY BackupAssumption, FS_CardinalityType
  <2> QED  BY <2>1, <2>2, <2>3
<1>2. BackupRequestsInv /\ TriesInv => TriesBounded
  <2> SUFFICES ASSUME BackupRequestsInv, TriesInv, NEW email \in Mailboxes
               PROVE  attempts[email] < MaxAttempts + Cardinality(Requests)
    BY DEF TriesBounded
  <2>1. attempts[email] \in Nat /\ MaxAttempts \in Nat
    BY BackupAssumption DEF BackupRequestsInv, BackupsTypeOK
  <2>2. attempts[email] + Cardinality(Uncounted(email)) < MaxAttempts + Cardinality(Requests)
    BY DEF TriesInv
  <2> QED  BY <2>1, <2>2, UncountedFinite
<1>3. BackupRequestsInv /\ BackupRequestsInv' /\ TriesInv /\ [BackupsNext]_backupsVars => TriesInv'
  BY TriesStep
<1> QED
  BY <1>1, <1>2, <1>3, RequestsInit, RequestsStep, PTL DEF BackupsSpec

-----------------------------------------------------------------------------
(* Proof of the address.                                                   *)

LEMMA SerialStep ==
    ASSUME BackupRequestsInv, BackupSerialInv, [BackupsNext]_backupsVars
    PROVE  BackupSerialInv'
<1>1. CASE UNCHANGED backupsVars \/ CodeExpires
  <2>1. UNCHANGED <<backups, backupWork, overlaps>>
    BY <1>1, ExpiresFacts DEF backupsVars, backupVars
  <2> QED  BY <2>1 DEF BackupSerialInv, Calm
<1>2. ASSUME NEW r \in Requests,
             SetBackupEmail(r) \/ ResendBackupEmailCode(r) \/ VerifyBackupEmail(r)
      PROVE  BackupSerialInv'
  <2>1. PICK pc \in {"loaded", "sending", "right", "wrong"}, owner \in Owners,
              email \in Mailboxes, code \in MailedCodes \cup {None} :
            LoadsBackup(r, pc, owner, email, code)
    BY <1>2, BeginsFacts
  <2>2. /\ backups' = backups /\ overlaps' \in Nat
        /\ overlaps' = 0 => \A q \in Requests : backupWork[q].pc = "idle"
        /\ backupWork' = [backupWork EXCEPT ![r] =
             [pc |-> pc, owner |-> owner, seen |-> backups[owner], email |-> email,
              code |-> code]]
    BY <2>1 DEF LoadsBackup, Begins, BackupSerialInv
  <2>3. /\ \A q \in Requests \ {r} : backupWork'[q] = backupWork[q]
        /\ backupWork'[r].seen = backups[owner] /\ backupWork'[r].owner = owner
    BY <2>2 DEF BackupRequestsInv, BackupsTypeOK
  <2> QED  BY <2>2, <2>3 DEF BackupSerialInv, Calm
<1>3. ASSUME NEW r \in Requests, CommitBackupEmail(r)
      PROVE  BackupSerialInv'
  BY <1>3, CommitBackupFacts DEF BackupSerialInv, Calm
<1>4. ASSUME NEW r \in Requests,
             SendBackupEmailCode(r) \/ CountWrongCode(r) \/ CommitVerified(r)
      PROVE  BackupSerialInv'
  <2>1. /\ backupWork[r].pc # "idle" /\ backupWork' = [backupWork EXCEPT ![r] = IdleBackup]
        /\ overlaps' = overlaps
    BY <1>4, SendFacts, CountFacts, CommitVerifiedFacts
  <2>2. \A q \in Requests : backupWork'[q] = IF q = r THEN IdleBackup ELSE backupWork[q]
    BY <2>1 DEF BackupRequestsInv, BackupsTypeOK
  <2> QED  BY <2>1, <2>2, BackupIdleTyped DEF BackupSerialInv, Calm
<1> QED  BY <1>1, <1>2, <1>3, <1>4 DEF BackupsNext

\* While requests come one at a time, an address is verified only by a request
\* that held the code mailed to it.
THEOREM AddressesAreProved == BackupsSpec => AddressProved
<1>1. BackupsInit /\ overlaps = 0 => BackupSerialInv
  BY BackupIdleTyped DEF BackupsInit, BackupSerialInv
<1>2. ASSUME BackupRequestsInv, BackupSerialInv, [BackupsNext]_backupsVars, NEW owner \in Owners,
             Calm, backups'[owner].verified, backups'[owner] # backups[owner]
      PROVE  \E r \in Requests :
                /\ backupWork[r].owner = owner /\ backupWork[r].pc = "right"
                /\ backupWork[r].email = backups'[owner].backup_email
  <2>1. backups' # backups  BY <1>2
  <2>2. PICK r \in Requests : CommitBackupEmail(r) \/ CommitVerified(r)
    <3>1. ~UNCHANGED backupsVars /\ ~CodeExpires
      BY <2>1, ExpiresFacts, <1>2 DEF backupsVars, backupVars
    <3>2. \A q \in Requests :
            /\ ~SetBackupEmail(q) /\ ~ResendBackupEmailCode(q) /\ ~VerifyBackupEmail(q)
            /\ ~SendBackupEmailCode(q) /\ ~CountWrongCode(q)
      BY <2>1 DEF SetBackupEmail, ResendBackupEmailCode, VerifyBackupEmail, LoadsBackup,
                  SendBackupEmailCode, CountWrongCode
    <3> QED  BY <1>2, <3>1, <3>2 DEF BackupsNext
  <2> DEFINE w == backupWork[r]
  <2>3. DOMAIN backups = Owners /\ \A o \in Owners : backups[o] \in Backup
    BY <1>2 DEF BackupRequestsInv, BackupsTypeOK
  <2>4. CASE CommitBackupEmail(r)
    <3>1. /\ w.pc = "loaded" /\ w.owner \in Owners /\ w.seen \in Backup
          /\ w.email \in Mailboxes
          /\ backups' = [backups EXCEPT ![w.owner] = Over(w.seen, Proposed(w.seen, w.email), @)]
      BY <1>2, <2>4, CommitBackupFacts
    <3>2. w.seen = backups[w.owner]  BY <1>2, <3>1 DEF BackupSerialInv
    <3>3. /\ owner = w.owner
          /\ backups'[owner] = Over(w.seen, Proposed(w.seen, w.email), backups[w.owner])
      BY <1>2, <2>3, <3>1
    <3>4. Proposed(w.seen, w.email) \in Backup /\ ~Proposed(w.seen, w.email).verified
      BY <3>1, BackupRowsTyped
    <3>5. Over(w.seen, Proposed(w.seen, w.email), backups[w.owner]) = Proposed(w.seen, w.email)
      BY <2>3, <3>1, <3>2, <3>4, BackupOverTyped
    <3> QED  BY <1>2, <3>3, <3>4, <3>5
  <2>5. CASE CommitVerified(r)
    <3>1. /\ w.pc = "right" /\ w.owner \in Owners /\ w.seen \in Backup
          /\ w.email = w.seen.backup_email
          /\ w.email \in Mailboxes
          /\ backups' = [backups EXCEPT ![w.owner] =
                Over(w.seen, [w.seen EXCEPT !.verified = TRUE], @)]
      BY <1>2, <2>5, CommitVerifiedFacts
    <3>2. w.seen = backups[w.owner]  BY <1>2, <3>1 DEF BackupSerialInv
    <3>3. /\ owner = w.owner
          /\ backups'[owner] =
                Over(w.seen, [w.seen EXCEPT !.verified = TRUE], backups[w.owner])
      BY <1>2, <2>3, <3>1
    <3>4. backups'[owner] = [w.seen EXCEPT !.verified = TRUE]
      BY <2>3, <3>1, <3>2, <3>3, BackupOverTyped, BackupRowsTyped
    <3>5. backups'[owner].backup_email = w.email  BY <3>1, <3>4, BackupRowsTyped
    <3> QED  BY <3>1, <3>3, <3>5
  <2> QED  BY <2>2, <2>4, <2>5
<1>3. BackupRequestsInv /\ BackupSerialInv /\ [BackupsNext]_backupsVars =>
        [\A owner \in Owners :
            (/\ Calm /\ backups'[owner].verified
             /\ backups'[owner] # backups[owner])
                => \E r \in Requests :
                      /\ backupWork[r].owner = owner
                      /\ backupWork[r].pc = "right"
                      /\ backupWork[r].email = backups'[owner].backup_email]_<<backupVars, edits, overlaps>>
  BY <1>2
<1>4. BackupRequestsInv /\ BackupSerialInv /\ [BackupsNext]_backupsVars => BackupSerialInv'
  BY SerialStep
<1> QED
  BY <1>1, <1>3, <1>4, RequestsInit, RequestsStep, PTL DEF BackupsSpec, AddressProved, backupsVars
=============================================================================
