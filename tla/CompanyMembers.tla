---------------------------- MODULE CompanyMembers ----------------------------
(***************************************************************************)
(* The memberships of one company and the sessions of its people: adding,  *)
(* changing and revoking a member, the last-owner check, expiry by time,   *)
(* and the token_version each change bumps to end the sessions that were   *)
(* minted under the old entitlements.                                      *)
(*                                                                         *)
(* A request is authorised, reads its target, checks and commits in that   *)
(* order with nothing locked (READ COMMITTED, no FOR UPDATE). What it has  *)
(* read stays in its ORM session: a row it loaded is not read again.       *)
(***************************************************************************)
EXTENDS Naturals, FiniteSets

CONSTANTS
    Users,        \* people with an account
    Rows,         \* membership ids this company may ever use
    Requests,     \* requests to the members endpoints (reusable)
    Expiries,     \* the expires_at values people type (Never: no expiry)
    MaxTime,      \* bound: the last moment modelled
    MaxVersion,   \* bound: the largest token_version
    NoUser,       \* the user of an id not used yet
    NoRow         \* "no row read yet"

\* `expires_at is None`: later than every moment.
Never == MaxTime + 1

ASSUME TimeAssumption == MaxTime \in Nat /\ Expiries \subseteq 0..Never
ASSUME VersionAssumption == MaxVersion \in Nat
ASSUME UserAssumption == Users # {} /\ NoUser \notin Users
ASSUME RowAssumption == Rows # {} /\ NoRow \notin Rows

VARIABLES
    members,    \* the committed membership rows
    version,    \* users.token_version
    tokens,     \* the `tv` of every token ever minted for a user
    now,        \* the clock
    work        \* each request: where it is, what it read and wants

vars == <<members, version, tokens, now, work>>

\* "member" stands for the roles without company.members.manage.
Roles == {"owner", "admin", "member"}
Managers == {"owner", "admin"}
Versions == 0..MaxVersion

MemberRow == [user: Users \cup {NoUser}, role: Roles, expires_at: 0..Never, revoked: BOOLEAN]

Unused == [user |-> NoUser, role |-> "member", expires_at |-> Never, revoked |-> FALSE]

\* A request: the row it is authorised by, the target as loaded (Unused when
\* adding), what it shall become, and the token_version it read: the actor's
\* first, then the target user's.
Work == [pc: {"idle", "authorised", "loaded", "checked"},
         own: Rows \cup {NoRow}, ownSeen: MemberRow,
         target: Rows \cup {NoRow}, seen: MemberRow, want: MemberRow, version: Versions]

Idle == [pc |-> "idle", own |-> NoRow, ownSeen |-> Unused,
         target |-> NoRow, seen |-> Unused, want |-> Unused, version |-> 0]

-----------------------------------------------------------------------------
(* Reading.                                                                *)

\* CompanyMembership.is_active, at this moment.
IsActive(m) == ~m.revoked /\ m.expires_at > now

\* The rows `revoked_at IS NULL` finds for a user; .first() may be any of them.
Unrevoked(u) == {r \in Rows : members[r].user = u /\ ~members[r].revoked}

ActiveOwners == {r \in Rows :
    members[r].user # NoUser /\ members[r].role = "owner" /\ IsActive(members[r])}

\* A row as request q has it: the copy in its session if it loaded the row.
InSession(q, r) == IF r = work[q].own THEN work[q].ownSeen
                   ELSE IF work[q].pc = "loaded" /\ r = work[q].target THEN work[q].seen
                   ELSE members[r]

\* A user's token_version as request q has it: the actor's was read first.
VersionSeen(q, u) == IF u = work[q].ownSeen.user THEN work[q].version ELSE version[u]

\* What active_owner_count counts: the query filters what is committed, Python
\* asks is_active() of the rows as the session has them.
OwnersSeen(q) == {r \in Rows :
    /\ members[r].user # NoUser /\ members[r].role = "owner" /\ ~members[r].revoked
    /\ IsActive(InSession(q, r))}

-----------------------------------------------------------------------------
(* Requests.                                                               *)

Set(q, w) == work' = [work EXCEPT ![q] = w]

\* get_current_user and require("company.members.manage"): a live session and
\* an active membership whose role may manage members.
Authorise(q, u) ==
    /\ work[q].pc = "idle"
    /\ version[u] \in tokens[u]
    /\ \E r \in Unrevoked(u) :
        /\ IsActive(members[r]) /\ members[r].role \in Managers
        /\ Set(q, [Idle EXCEPT !.pc = "authorised", !.own = r, !.ownSeen = members[r],
                               !.version = version[u]])
    /\ UNCHANGED <<members, version, tokens, now>>

\* MUTANT of MayMake: anybody who manages members may make an owner.
MayMake_AnyManager(q, role) == work[q].ownSeen.role \in Managers

\* Only an owner may make somebody an owner.
MayMake(q, role) == role = "owner" => work[q].ownSeen.role = "owner"

\* An existing unrevoked row refuses the request if it is active; which of
\* several is looked at is the database's choice.
MayAdd(q, u) ==
    Unrevoked(u) # {} => \E r \in Unrevoked(u) : ~IsActive(InSession(q, r))

\* add_member, up to its checks.
LoadAdd(q, u) ==
    /\ work[q].pc = "authorised"
    /\ MayAdd(q, u)
    /\ \E role \in Roles, expires_at \in Expiries :
        /\ MayMake(q, role)
        /\ Set(q, [work[q] EXCEPT
                !.pc = "checked", !.seen = Unused, !.version = VersionSeen(q, u),
                !.want = [user |-> u, role |-> role, expires_at |-> expires_at,
                          revoked |-> FALSE]])
    /\ UNCHANGED <<members, version, tokens, now>>

\* MUTANT of NeedsOwner: only a revocation is checked, a demotion is not.
NeedsOwner_RevokeOnly(seen, want) == seen.role = "owner" /\ IsActive(seen) /\ want.revoked

\* The edits _refuse_last_owner looks at: an active owner's row loses its role
\* or is revoked. A new expiry is not among them.
NeedsOwner(seen, want) ==
    /\ seen.role = "owner" /\ IsActive(seen)
    /\ want.role # seen.role \/ want.revoked

LoadTarget(q, r, want) ==
    LET seen == InSession(q, r) IN
    Set(q, [work[q] EXCEPT
        !.pc = IF NeedsOwner(seen, want) THEN "loaded" ELSE "checked",
        !.target = r, !.seen = seen, !.want = want,
        !.version = VersionSeen(q, members[r].user)])

\* update_member, up to its checks: a role, an expiry, both or neither. A
\* revoked row may be edited too. A role that is the loaded one is no change.
LoadUpdate(q, r) ==
    /\ work[q].pc = "authorised"
    /\ members[r].user # NoUser
    /\ LET seen == InSession(q, r) IN
       \E role \in Roles, expires_at \in Expiries \cup {seen.expires_at} :
        /\ role # seen.role => MayMake(q, role)
        /\ LoadTarget(q, r, [seen EXCEPT !.role = role, !.expires_at = expires_at])
    /\ UNCHANGED <<members, version, tokens, now>>

\* revoke_member, up to its checks. A row already revoked is answered as is.
LoadRevoke(q, r) ==
    /\ work[q].pc = "authorised"
    /\ members[r].user # NoUser
    /\ ~InSession(q, r).revoked
    /\ LoadTarget(q, r, [InSession(q, r) EXCEPT !.revoked = TRUE])
    /\ UNCHANGED <<members, version, tokens, now>>

\* _refuse_last_owner: more than one owner, or the request is refused. A
\* revocation loads its target user only after the check.
CheckOwners(q) ==
    /\ work[q].pc = "loaded"
    /\ Set(q, IF Cardinality(OwnersSeen(q)) > 1
              THEN [work[q] EXCEPT !.pc = "checked",
                        !.version = IF work[q].want.revoked
                                    THEN VersionSeen(q, work[q].want.user) ELSE @]
              ELSE Idle)
    /\ UNCHANGED <<members, version, tokens, now>>

\* MUTANT of WrittenRow: the whole loaded row is written back.
WrittenRow_WholeRow(row, seen, want) == want

\* The UPDATE writes the columns that differ from what was loaded.
WrittenRow(row, seen, want) ==
    [row EXCEPT
        !.role = IF want.role # seen.role THEN want.role ELSE @,
        !.expires_at = IF want.expires_at # seen.expires_at THEN want.expires_at ELSE @,
        !.revoked = @ \/ want.revoked # seen.revoked]

\* MUTANT of BumpedVersion: the change forgets to end the sessions.
BumpedVersion_Forgotten(q) == work[q].version

\* bump_token_version: the version as this session loaded it, plus one.
BumpedVersion(q) == work[q].version + 1

\* grant_, update_ and revoke_membership_and_bump, and the commit: the row and
\* the version land together. A version over MaxVersion is outside the model.
Commit(q) ==
    /\ work[q].pc = "checked"
    /\ work[q].version < MaxVersion
    /\ LET w == work[q] IN
       \/ /\ w.seen.user = NoUser
          /\ \E r \in Rows :
                /\ members[r].user = NoUser
                /\ members' = [members EXCEPT ![r] = w.want]
       \/ /\ w.seen.user # NoUser
          /\ members' = [members EXCEPT ![w.target] = WrittenRow(@, w.seen, w.want)]
    /\ version' = [version EXCEPT ![work[q].want.user] = BumpedVersion(q)]
    /\ Set(q, Idle)
    /\ UNCHANGED <<tokens, now>>

\* Refused, disconnected or dead before it writes.
Drop(q) ==
    /\ work[q].pc # "idle"
    /\ Set(q, Idle)
    /\ UNCHANGED <<members, version, tokens, now>>

-----------------------------------------------------------------------------
(* Sessions and time.                                                      *)

\* _issue_tokens: a token carries the token_version of the moment. /auth/refresh
\* mints the same `tv` again, and only for a token that is still good.
Login(u) ==
    /\ tokens' = [tokens EXCEPT ![u] = @ \cup {version[u]}]
    /\ UNCHANGED <<members, version, now, work>>

Tick ==
    /\ now < MaxTime
    /\ now' = now + 1
    /\ UNCHANGED <<members, version, tokens, work>>

\* create_company: the company and its owner, together.
Init ==
    /\ \E u \in Users, r \in Rows :
        members = [s \in Rows |->
            IF s = r THEN [Unused EXCEPT !.user = u, !.role = "owner"] ELSE Unused]
    /\ version = [u \in Users |-> 0]
    /\ tokens = [u \in Users |-> {}]
    /\ now = 0
    /\ work = [q \in Requests |-> Idle]

Request(q) ==
    \/ \E u \in Users : Authorise(q, u) \/ LoadAdd(q, u)
    \/ \E r \in Rows : LoadUpdate(q, r) \/ LoadRevoke(q, r)
    \/ CheckOwners(q)
    \/ Commit(q)
    \/ Drop(q)

Next ==
    \/ \E q \in Requests : Request(q)
    \/ \E u \in Users : Login(u)
    \/ Tick

Spec == Init /\ [][Next]_vars

-----------------------------------------------------------------------------
(* Properties.                                                             *)

\* Every variable has its type.
TypeOK ==
    /\ members \in [Rows -> MemberRow]
    /\ version \in [Users -> Versions]
    /\ tokens \in [Users -> SUBSET Versions]
    /\ now \in 0..MaxTime
    /\ work \in [Requests -> Work]

\* Access taken away stays away: no edit that was loaded before the revocation
\* and commits after it gives the row back.
RevokedStaysRevoked ==
    [][\A r \in Rows : members[r].revoked => members'[r].revoked]_vars

\* Nobody becomes an owner but by the request of an owner: an administrator who
\* "keeps" a role that somebody else has taken away meanwhile does not restore
\* it.
OnlyOwnersMakeOwners ==
    [][\A r \in Rows :
        members'[r].role = "owner" /\ members[r].role # "owner" =>
            \E q \in Requests :
                /\ work[q].pc = "checked" /\ work'[q].pc = "idle"
                /\ work[q].ownSeen.role = "owner" /\ work[q].want.role = "owner"]_vars

\* A time-limited grant changes its expiry only because somebody asked for that
\* expiry: a role edit that was loaded earlier never makes it permanent again.
ExpiryOnlyAsAsked ==
    [][\A r \in Rows :
        members[r].user # NoUser /\ members'[r].expires_at # members[r].expires_at =>
            \E q \in Requests :
                /\ work[q].pc = "checked" /\ work[q].target = r
                /\ work[q].want.expires_at # work[q].seen.expires_at
                /\ work[q].want.expires_at = members'[r].expires_at]_vars

\* The company has an active owner. (requests one at a time, nobody types an
\* expiry)
AlwaysAnOwner == ActiveOwners # {}

\* A user holds at most one active membership. (as above)
OneMembershipEach ==
    \A r, s \in Rows :
        /\ r # s /\ members[r].user = members[s].user /\ members[r].user # NoUser
        => ~(IsActive(members[r]) /\ IsActive(members[s]))

\* A change of somebody's entitlements ends every session they hold: after it,
\* no token minted before it is good. (requests one at a time)
ChangeEndsSessions ==
    [][\A r \in Rows :
        members'[r] # members[r] =>
            version'[members'[r].user] \notin tokens[members'[r].user]]_vars
=============================================================================
