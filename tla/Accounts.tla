-------------------------------- MODULE Accounts --------------------------------
(***************************************************************************)
(* Who may use the installation: how accounts come about (setup, an        *)
(* invitation, registering, asking for a sign-in code), what administrators *)
(* do to them, and the guard that keeps everything shut until there is a   *)
(* superadmin.                                                             *)
(***************************************************************************)
EXTENDS Overlaps

CONSTANT People   \* e-mail addresses, each of one account for ever

VARIABLES
    users,            \* the committed rows
    setup_complete,   \* a process has seen a superadmin and stopped asking
    userWork          \* each request: what it does, what it loaded, what it will write

userVars == <<users, setup_complete, userWork>>

Roles == {"user", "superuser", "superadmin"}
Statuses == {"active", "deactivated", "pending_invite", "pending_verification"}

User == [role: Roles, status: Statuses, deleted: BOOLEAN, invite_token: BOOLEAN]

ASSUME PeopleAssumption == None \notin People /\ None \notin User

Newcomer == [role |-> "user", status |-> "active", deleted |-> FALSE, invite_token |-> FALSE]

UserKinds == {"setup", "join", "verify", "accept", "admin"}

UserWork == [pc: {"idle", "open"}, kind: UserKinds, id: People \cup {None},
             by: People \cup {None}, seen: User \cup {None}, new: User]

IdleUser == [pc |-> "idle", kind |-> "admin", id |-> None, by |-> None,
             seen |-> None, new |-> Newcomer]

\* Every lookup leaves the deleted out.
Live == {p \in Present(users) : ~users[p].deleted}

Superadmins == {p \in Live : users[p].role = "superadmin"}

\* Mutant: a session outlives the deactivation.
MayAct_Whoever == Live

\* get_current_user: a session is refused once its account is deactivated.
MayAct == {p \in Live : users[p].status # "deactivated"}

-----------------------------------------------------------------------------
(* Requests.                                                               *)

LoadsUser(r, kind, id, by, new) ==
    /\ Begins(userWork, r)
    /\ new # users[id]
    /\ userWork' = [userWork EXCEPT ![r] = [pc |-> "open", kind |-> kind, id |-> id, by |-> by,
                                            seen |-> users[id], new |-> new]]
    /\ UNCHANGED users

\* SetupGuardMiddleware: nothing but setup until there is a superadmin, and
\* never asked again once there was one.
PastGuard == /\ setup_complete \/ Superadmins # {}
             /\ setup_complete' = TRUE

Free == People \ Present(users)

CreateSuperadmin(r) ==
    /\ Superadmins = {}
    /\ \E id \in Free : LoadsUser(r, "setup", id, None, [Newcomer EXCEPT !.role = "superadmin"])
    /\ UNCHANGED setup_complete

\* POST /users/invite asks for a global role; adding a company member who has no
\* account asks for company.members.manage in that company, which an account of
\* any role may hold.
InviteUser(r) ==
    /\ PastGuard /\ MayAct # {}
    /\ \E id \in Free : LoadsUser(r, "join", id, None, [Newcomer EXCEPT
            !.status = "pending_invite", !.invite_token = TRUE])

Register(r) ==
    /\ PastGuard
    /\ \E id \in Free : LoadsUser(r, "join", id, None, Newcomer)

\* send-magic-code to an address without an account makes one; the first of
\* all is the superadmin's.
SendMagicCode(r) ==
    /\ PastGuard
    /\ \E id \in Free : LoadsUser(r, "join", id, None, [Newcomer EXCEPT
            !.status = "pending_verification",
            !.role = IF Live = {} THEN "superadmin" ELSE "user"])

\* The address is proved; that is all a pending verification waits for.
Verified(row) == IF row.status = "pending_verification" THEN [row EXCEPT !.status = "active"] ELSE row

VerifyMagicCode(r) ==
    /\ PastGuard
    /\ \E id \in Live :
        /\ users[id].status # "deactivated"
        /\ LoadsUser(r, "verify", id, None, Verified(users[id]))

\* The link sets a password and activates, once.
AcceptInvite(r) ==
    /\ PastGuard
    /\ \E id \in Live :
        /\ users[id].invite_token
        /\ LoadsUser(r, "accept", id, None, [users[id] EXCEPT !.status = "active", !.invite_token = FALSE])

\* Mutant: an administrator may demote anybody, himself too.
MaySetRole_Own(actor, id, role) == TRUE

\* Nobody takes his own superadmin role away.
MaySetRole(actor, id, role) == id # actor \/ role = "superadmin"

\* An administrator's change of an account.
Administers(r, id, actor, new) ==
    /\ PastGuard
    /\ actor \in MayAct \cap Superadmins
    /\ LoadsUser(r, "admin", id, actor, new)

UpdateUserRole(r) ==
    \E id \in Live, actor \in Live, role \in {"superadmin", "superuser"} :
        /\ MaySetRole(actor, id, role)
        /\ Administers(r, id, actor, [users[id] EXCEPT !.role = role])

\* /admin/users refuses one's own account, /users does not.
DeactivateUser(r) ==
    \E id \in Live, actor \in Live :
        Administers(r, id, actor, [users[id] EXCEPT !.status = "deactivated"])

ReactivateUser(r) ==
    \E id \in Live, actor \in Live :
        Administers(r, id, actor, [users[id] EXCEPT !.status = "active"])

DeleteUser(r) ==
    \E id \in Live, actor \in Live :
        Administers(r, id, actor, [users[id] EXCEPT !.deleted = TRUE])

-----------------------------------------------------------------------------
(* Commit.                                                                 *)

\* The address is unique, deleted accounts included.
CommitUser(r) ==
    LET w == userWork[r]
    IN /\ w.pc = "open"
       /\ w.seen = None => users[w.id] = None
       /\ users' = [users EXCEPT ![w.id] = IF w.seen = None THEN w.new ELSE Over(w.seen, w.new, @)]
       /\ userWork' = [userWork EXCEPT ![r] = IdleUser]
       /\ UNCHANGED <<setup_complete, edits, overlaps>>

RollbackUser(r) ==
    /\ userWork[r].pc = "open"
    /\ userWork' = [userWork EXCEPT ![r] = IdleUser]
    /\ UNCHANGED <<users, setup_complete, edits, overlaps>>

UsersInit ==
    /\ users = [p \in People |-> None] /\ setup_complete = FALSE
    /\ userWork = [r \in Requests |-> IdleUser]

UsersNext ==
    \E r \in Requests :
        \/ CreateSuperadmin(r) \/ InviteUser(r) \/ Register(r) \/ SendMagicCode(r)
        \/ VerifyMagicCode(r) \/ AcceptInvite(r)
        \/ UpdateUserRole(r) \/ DeactivateUser(r) \/ ReactivateUser(r) \/ DeleteUser(r)
        \/ CommitUser(r) \/ RollbackUser(r)

-----------------------------------------------------------------------------
(* Properties.                                                             *)

UsersTypeOK ==
    /\ users \in [People -> User \cup {None}]
    /\ setup_complete \in BOOLEAN
    /\ userWork \in [Requests -> UserWork]

\* While requests come one at a time, no change of roles leaves the
\* installation without a superadmin, whom only setup, open to anybody, could
\* replace; deleting accounts can (update_user_role guards itself, delete_user
\* does not).
SuperadminRemains ==
    [][Calm /\ Superadmins # {} /\ Superadmins' = {}
          => \E p \in Superadmins : users'[p].deleted]_<<userVars, edits, overlaps>>

\* While requests come one at a time, a deactivated account stays shut until
\* another administrator, himself not deactivated, opens it or its own unused
\* invitation does; reading its mailbox is not enough, nor is the session of
\* an administrator who was deactivated himself.
DeactivationHolds ==
    [][\A p \in Live :
          (Calm /\ users[p].status = "deactivated" /\ users'[p].status # "deactivated")
              => \/ users[p].invite_token
                 \/ \E r \in Requests, actor \in Superadmins \ {p} :
                       userWork[r].id = p /\ userWork[r].by = actor
                          /\ users[actor].status # "deactivated"]_<<userVars, edits, overlaps>>
=============================================================================
