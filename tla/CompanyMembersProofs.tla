------------------------- MODULE CompanyMembersProofs -------------------------
(***************************************************************************)
(* What holds of CompanyMembers for any people, rows and requests: types,  *)
(* and the three action properties that say a stale edit gives nothing     *)
(* back. With one request at a time a change ends the sessions of the one  *)
(* it is about; without expiries too, an owner remains and nobody is added *)
(* twice.                                                                  *)
(***************************************************************************)
EXTENDS CompanyMembers, FiniteSetTheorems, TLAPS

\* Never is a moment like the others, and later than all of them.
LEMMA NeverIsLast == MaxTime \in Nat /\ Never \in Nat /\ Never > MaxTime
BY TimeAssumption DEF Never

\* The parts of a blank row.
LEMMA UnusedTyped ==
    /\ Unused \in MemberRow
    /\ Unused.user = NoUser /\ Unused.role = "member"
    /\ Unused.revoked = FALSE /\ Unused.expires_at = Never
BY NeverIsLast DEF Unused, MemberRow, Roles

LEMMA IdleTyped == Idle \in Work /\ Idle.pc = "idle"
BY UnusedTyped, VersionAssumption DEF Idle, Work, Versions

\* A request's copy of a row is a row, and its version a version.
LEMMA ReadsTyped ==
    ASSUME TypeOK, NEW q \in Requests, NEW r \in Rows, NEW u \in Users
    PROVE  InSession(q, r) \in MemberRow /\ VersionSeen(q, u) \in Versions
BY DEF TypeOK, Work, InSession, VersionSeen

\* What the UPDATE writes is a row again.
LEMMA WrittenRowTyped ==
    ASSUME NEW row \in MemberRow, NEW seen \in MemberRow, NEW want \in MemberRow
    PROVE  /\ WrittenRow(row, seen, want) \in MemberRow
           /\ WrittenRow(row, seen, want).user = row.user
           /\ WrittenRow(row, seen, want).role
                = IF want.role # seen.role THEN want.role ELSE row.role
           /\ WrittenRow(row, seen, want).expires_at
                = IF want.expires_at # seen.expires_at THEN want.expires_at ELSE row.expires_at
           /\ row.revoked => WrittenRow(row, seen, want).revoked
           /\ WrittenRow(row, seen, want).revoked
                => row.revoked \/ want.revoked # seen.revoked
BY DEF WrittenRow, MemberRow

\* A change a request asks for: what it read, what it wants, and that an owner
\* stands behind every row it would make an owner's.
AskInv ==
    /\ \A r \in Rows : members[r].user = NoUser => members[r] = Unused
    /\ \A q \in Requests :
        /\ work[q].pc = "authorised" => work[q].ownSeen.user \in Users
        /\ work[q].pc \in {"loaded", "checked"} =>
            /\ work[q].want.user \in Users
            /\ work[q].seen.user = NoUser => work[q].seen = Unused
            /\ work[q].seen.user # NoUser =>
                /\ work[q].target \in Rows
                /\ members[work[q].target].user # NoUser
            /\ work[q].want.role = "owner" /\ work[q].seen.role # "owner"
                => work[q].ownSeen.role = "owner"

MInv == TypeOK /\ AskInv

LEMMA InitMInv == Init => MInv
<1> SUFFICES ASSUME Init PROVE MInv
  OBVIOUS
<1>1. PICK u \in Users, r \in Rows :
        members = [s \in Rows |->
            IF s = r THEN [Unused EXCEPT !.user = u, !.role = "owner"] ELSE Unused]
  BY DEF Init
<1>2. [Unused EXCEPT !.user = u, !.role = "owner"] \in MemberRow
  BY UnusedTyped DEF MemberRow, Roles
<1>3. [Unused EXCEPT !.user = u, !.role = "owner"].user = u
  BY UnusedTyped DEF MemberRow
<1>4. TypeOK
  BY <1>1, <1>2, UnusedTyped, IdleTyped, NeverIsLast, VersionAssumption
  DEF Init, TypeOK, Versions
<1>5. AskInv
  BY <1>1, <1>3, IdleTyped, UserAssumption DEF Init, AskInv
<1> QED  BY <1>4, <1>5 DEF MInv

\* The step of one request that writes nothing but its own record.
LEMMA SetStep ==
    ASSUME MInv, NEW q \in Requests, NEW w, w \in Work,
           Set(q, w), UNCHANGED <<members, version, tokens, now>>,
           w.pc = "authorised" => w.ownSeen.user \in Users,
           w.pc \in {"loaded", "checked"} =>
            /\ w.want.user \in Users
            /\ w.seen.user = NoUser => w.seen = Unused
            /\ w.seen.user # NoUser =>
                w.target \in Rows /\ members[w.target].user # NoUser
            /\ w.want.role = "owner" /\ w.seen.role # "owner" => w.ownSeen.role = "owner"
    PROVE  MInv'
<1>1. work' = [work EXCEPT ![q] = w]  BY DEF Set
<1>2. TypeOK'  BY <1>1 DEF MInv, TypeOK
<1>3. \A p \in Requests : work'[p] = IF p = q THEN w ELSE work[p]
  BY <1>1 DEF MInv, TypeOK
<1>4. AskInv'  BY <1>3 DEF MInv, AskInv
<1> QED  BY <1>2, <1>4 DEF MInv

\* Reading the row it is authorised by.
LEMMA AuthoriseStep ==
    ASSUME MInv, NEW q \in Requests, NEW u \in Users, Authorise(q, u)
    PROVE  MInv'
<1>1. PICK r \in Unrevoked(u) :
        Set(q, [Idle EXCEPT !.pc = "authorised", !.own = r, !.ownSeen = members[r],
                            !.version = version[u]])
  BY DEF Authorise
<1> DEFINE w == [Idle EXCEPT !.pc = "authorised", !.own = r, !.ownSeen = members[r],
                             !.version = version[u]]
<1>2. r \in Rows /\ members[r] \in MemberRow /\ members[r].user = u
  BY <1>1 DEF Unrevoked, MInv, TypeOK
<1>3. version[u] \in Versions  BY DEF MInv, TypeOK
<1>4. w \in Work /\ w.pc = "authorised" /\ w.ownSeen = members[r]
  BY <1>2, <1>3, IdleTyped DEF Work
<1> HIDE DEF w
<1>5. Set(q, w)  BY <1>1 DEF w
<1> QED  BY <1>2, <1>4, <1>5, SetStep DEF Authorise

\* Reading for a new membership.
LEMMA LoadAddStep ==
    ASSUME MInv, NEW q \in Requests, NEW u \in Users, LoadAdd(q, u)
    PROVE  MInv'
<1>1. PICK role \in Roles, expires_at \in Expiries :
        /\ MayMake(q, role)
        /\ Set(q, [work[q] EXCEPT
                !.pc = "checked", !.seen = Unused, !.version = VersionSeen(q, u),
                !.want = [user |-> u, role |-> role, expires_at |-> expires_at,
                          revoked |-> FALSE]])
  BY DEF LoadAdd
<1> DEFINE want == [user |-> u, role |-> role, expires_at |-> expires_at, revoked |-> FALSE]
           w == [work[q] EXCEPT !.pc = "checked", !.seen = Unused,
                                !.version = VersionSeen(q, u), !.want = want]
<1>2. want \in MemberRow  BY TimeAssumption DEF MemberRow
<1>3. want.user = u /\ want.role = role  OBVIOUS
<1> HIDE DEF want
<1>4. work[q] \in Work /\ VersionSeen(q, u) \in Versions
  BY ReadsTyped, RowAssumption DEF MInv, TypeOK, VersionSeen, Work
<1>5. /\ w \in Work /\ w.pc = "checked" /\ w.seen = Unused
      /\ w.want = want /\ w.ownSeen = work[q].ownSeen
  BY <1>2, <1>4, UnusedTyped DEF Work
<1> HIDE DEF w
<1>6. Set(q, w)  BY <1>1 DEF w, want
<1>7. w.want.role = "owner" => w.ownSeen.role = "owner"
  BY <1>1, <1>3, <1>5 DEF MayMake
<1> QED  BY <1>3, <1>5, <1>6, <1>7, UnusedTyped, SetStep DEF LoadAdd

\* Reading a row that is to be changed.
LEMMA LoadTargetStep ==
    ASSUME MInv, NEW q \in Requests, NEW r \in Rows, NEW want \in MemberRow,
           work[q].pc = "authorised", members[r].user # NoUser,
           want.user = InSession(q, r).user,
           want.role = "owner" /\ InSession(q, r).role # "owner"
               => work[q].ownSeen.role = "owner",
           LoadTarget(q, r, want), UNCHANGED <<members, version, tokens, now>>
    PROVE  MInv'
<1> DEFINE seen == InSession(q, r)
           w == [work[q] EXCEPT
                    !.pc = IF NeedsOwner(seen, want) THEN "loaded" ELSE "checked",
                    !.target = r, !.seen = seen, !.want = want,
                    !.version = VersionSeen(q, members[r].user)]
<1>1. members[r].user \in Users  BY DEF MInv, TypeOK, MemberRow
<1>2. work[q] \in Work  BY DEF MInv, TypeOK
<1>3. seen \in MemberRow /\ VersionSeen(q, members[r].user) \in Versions
  BY <1>1, ReadsTyped DEF MInv
<1>4. seen.user \in Users
  BY <1>1 DEF InSession, MInv, AskInv
<1> HIDE DEF seen
<1>5. /\ w \in Work /\ w.pc \in {"loaded", "checked"} /\ w.target = r /\ w.seen = seen
      /\ w.want = want /\ w.ownSeen = work[q].ownSeen
  BY <1>2, <1>3 DEF Work
<1> HIDE DEF w
<1>6. Set(q, w)  BY DEF LoadTarget, w, seen
<1>7. seen.user # NoUser  BY <1>4, UserAssumption
<1>8. want.user \in Users  BY <1>4 DEF seen
<1>9. w.pc # "authorised"  BY <1>5
<1>10. w.want.role = "owner" /\ w.seen.role # "owner" => w.ownSeen.role = "owner"
  BY <1>5 DEF seen
<1> QED  BY <1>5, <1>6, <1>7, <1>8, <1>9, <1>10, SetStep

LEMMA LoadUpdateStep ==
    ASSUME MInv, NEW q \in Requests, NEW r \in Rows, LoadUpdate(q, r)
    PROVE  MInv'
<1> DEFINE seen == InSession(q, r)
<1>1. PICK role \in Roles, expires_at \in Expiries \cup {seen.expires_at} :
        /\ role # seen.role => MayMake(q, role)
        /\ LoadTarget(q, r, [seen EXCEPT !.role = role, !.expires_at = expires_at])
  BY DEF LoadUpdate
<1>2. seen \in MemberRow
  BY ReadsTyped, UserAssumption DEF MInv
<1> HIDE DEF seen
<1> DEFINE want == [seen EXCEPT !.role = role, !.expires_at = expires_at]
<1>3. expires_at \in 0..Never  BY <1>2, TimeAssumption DEF MemberRow
<1>4. want \in MemberRow /\ want.user = seen.user /\ want.role = role
  BY <1>2, <1>3 DEF MemberRow
<1>5. want.role = "owner" /\ seen.role # "owner" => work[q].ownSeen.role = "owner"
  BY <1>1, <1>4 DEF MayMake
<1>6. LoadTarget(q, r, want)  BY <1>1
<1> HIDE DEF want
<1> QED  BY <1>4, <1>5, <1>6, LoadTargetStep DEF LoadUpdate, seen

LEMMA LoadRevokeStep ==
    ASSUME MInv, NEW q \in Requests, NEW r \in Rows, LoadRevoke(q, r)
    PROVE  MInv'
<1> DEFINE seen == InSession(q, r)
           want == [seen EXCEPT !.revoked = TRUE]
<1>1. LoadTarget(q, r, want)  BY DEF LoadRevoke
<1>2. seen \in MemberRow  BY ReadsTyped, UserAssumption DEF MInv
<1> HIDE DEF seen
<1>3. want \in MemberRow /\ want.user = seen.user /\ want.role = seen.role
  BY <1>2 DEF MemberRow
<1> HIDE DEF want
<1> QED  BY <1>1, <1>3, LoadTargetStep DEF LoadRevoke, seen

\* The last-owner check only lets a request go on or ends it.
LEMMA CheckOwnersStep ==
    ASSUME MInv, NEW q \in Requests, CheckOwners(q)
    PROVE  MInv'
<1>1. CASE Set(q, Idle)
  BY <1>1, IdleTyped, SetStep DEF CheckOwners
<1>2. CASE Set(q, [work[q] EXCEPT !.pc = "checked",
                    !.version = IF work[q].want.revoked
                                THEN VersionSeen(q, work[q].want.user) ELSE @])
  <2> DEFINE w == [work[q] EXCEPT !.pc = "checked",
                    !.version = IF work[q].want.revoked
                                THEN VersionSeen(q, work[q].want.user) ELSE @]
  <2>1. work[q] \in Work /\ work[q].pc = "loaded" /\ work[q].want.user \in Users
    BY DEF CheckOwners, MInv, TypeOK, AskInv
  <2>2. VersionSeen(q, work[q].want.user) \in Versions
    BY <2>1 DEF VersionSeen, MInv, TypeOK, Work
  <2>3. /\ w \in Work /\ w.pc = "checked" /\ w.target = work[q].target
        /\ w.seen = work[q].seen /\ w.want = work[q].want /\ w.ownSeen = work[q].ownSeen
    BY <2>1, <2>2 DEF Work
  <2>4. Set(q, w)  BY <1>2
  <2> HIDE DEF w
  <2>5. /\ work[q].seen.user = NoUser => work[q].seen = Unused
        /\ work[q].seen.user # NoUser =>
            work[q].target \in Rows /\ members[work[q].target].user # NoUser
        /\ work[q].want.role = "owner" /\ work[q].seen.role # "owner"
            => work[q].ownSeen.role = "owner"
    BY <2>1 DEF MInv, AskInv
  <2> QED  BY <2>1, <2>3, <2>4, <2>5, SetStep DEF CheckOwners
<1> QED  BY <1>1, <1>2 DEF CheckOwners

\* What a commit does to the rows: a blank one becomes the wanted one, or the
\* target gets the columns that were changed.
LEMMA CommitEffect ==
    ASSUME MInv, NEW q \in Requests, Commit(q)
    PROVE  /\ work[q].pc = "checked" /\ work[q] \in Work /\ work[q].want.user \in Users
           /\ \E r \in Rows :
                /\ members' = [members EXCEPT ![r] = members'[r]]
                /\ members'[r] \in MemberRow
                /\ \/ /\ work[q].seen = Unused /\ members[r] = Unused
                      /\ members'[r] = work[q].want
                   \/ /\ work[q].seen.user # NoUser
                      /\ r = work[q].target /\ members[r].user # NoUser
                      /\ members'[r] = WrittenRow(members[r], work[q].seen, work[q].want)
                      /\ members'[r].user = members[r].user
<1>1. work[q].pc = "checked" /\ work[q] \in Work /\ work[q].want.user \in Users
  BY DEF Commit, MInv, TypeOK, AskInv
<1>2. work[q].want \in MemberRow /\ work[q].seen \in MemberRow  BY <1>1 DEF Work
<1>3. members \in [Rows -> MemberRow]  BY DEF MInv, TypeOK
<1>4. CASE work[q].seen.user = NoUser
  <2>1. PICK r \in Rows : /\ members[r].user = NoUser
                          /\ members' = [members EXCEPT ![r] = work[q].want]
    BY <1>4 DEF Commit
  <2>2. members[r] = Unused /\ work[q].seen = Unused
    BY <1>1, <1>4, <2>1 DEF MInv, AskInv
  <2>3. members'[r] = work[q].want  BY <1>3, <2>1
  <2> QED  BY <1>1, <1>2, <2>1, <2>2, <2>3
<1>5. CASE work[q].seen.user # NoUser
  <2> DEFINE r == work[q].target
             new == WrittenRow(members[r], work[q].seen, work[q].want)
  <2>1. r \in Rows /\ members[r].user # NoUser
    BY <1>1, <1>5 DEF MInv, AskInv
  <2>2. members' = [members EXCEPT ![r] = new]
    BY <1>5 DEF Commit
  <2>3. new \in MemberRow /\ new.user = members[r].user
    BY <1>2, <1>3, <2>1, WrittenRowTyped
  <2> HIDE DEF new
  <2>4. members'[r] = new  BY <1>3, <2>1, <2>2
  <2>5. members'[r] = WrittenRow(members[r], work[q].seen, work[q].want)
    BY <2>4 DEF new
  <2>6. members' = [members EXCEPT ![r] = members'[r]]  BY <2>2, <2>4
  <2> HIDE DEF r
  <2> QED  BY <1>1, <1>5, <2>1, <2>3, <2>4, <2>5, <2>6 DEF r
<1> QED  BY <1>1, <1>4, <1>5

LEMMA CommitStep ==
    ASSUME MInv, NEW q \in Requests, Commit(q)
    PROVE  MInv'
<1>1. PICK r \in Rows :
        /\ members' = [members EXCEPT ![r] = members'[r]]
        /\ members'[r] \in MemberRow
        /\ \/ members[r] = Unused /\ members'[r] = work[q].want
           \/ members[r].user # NoUser /\ members'[r].user = members[r].user
  BY CommitEffect
<1>2. work[q] \in Work /\ work[q].want.user \in Users  BY CommitEffect
<1>3. members'[r].user # NoUser
  BY <1>1, <1>2, UserAssumption
<1>4. \A s \in Rows : s # r => members'[s] = members[s]
  BY <1>1 DEF MInv, TypeOK
<1>5. members' \in [Rows -> MemberRow]
  BY <1>1 DEF MInv, TypeOK
<1>6. BumpedVersion(q) \in Versions
  BY <1>2, VersionAssumption DEF Commit, BumpedVersion, Work, Versions
<1>7. version' \in [Users -> Versions]
  BY <1>6 DEF Commit, MInv, TypeOK
<1>8. work' = [work EXCEPT ![q] = Idle]  BY DEF Commit, Set
<1>9. work' \in [Requests -> Work]  BY <1>8, IdleTyped DEF MInv, TypeOK
<1>10. TypeOK'  BY <1>5, <1>7, <1>9 DEF Commit, MInv, TypeOK
<1>11. \A p \in Requests : work'[p] = IF p = q THEN Idle ELSE work[p]
  BY <1>8 DEF MInv, TypeOK
<1>12. AskInv'
  <2>1. \A s \in Rows : members'[s].user = NoUser => members'[s] = Unused
    BY <1>3, <1>4 DEF MInv, AskInv
  <2>2. \A s \in Rows : members[s].user # NoUser => members'[s].user # NoUser
    BY <1>3, <1>4
  <2> QED  BY <1>11, <2>1, <2>2, IdleTyped DEF MInv, AskInv
<1> QED  BY <1>10, <1>12 DEF MInv

LEMMA DropStep ==
    ASSUME MInv, NEW q \in Requests, Drop(q)
    PROVE  MInv'
BY IdleTyped, SetStep DEF Drop

LEMMA OutsideStep ==
    ASSUME MInv, Tick \/ (\E u \in Users : Login(u)) \/ UNCHANGED vars
    PROVE  MInv'
<1>1. CASE Tick
  BY <1>1, TimeAssumption DEF Tick, MInv, TypeOK, AskInv
<1>2. ASSUME NEW u \in Users, Login(u) PROVE MInv'
  BY <1>2 DEF Login, MInv, TypeOK, AskInv
<1>3. CASE UNCHANGED vars
  BY <1>3 DEF vars, MInv, TypeOK, AskInv
<1> QED  BY <1>1, <1>2, <1>3

LEMMA StepMInv == MInv /\ [Next]_vars => MInv'
<1> SUFFICES ASSUME MInv, [Next]_vars PROVE MInv'
  OBVIOUS
<1>1. ASSUME NEW q \in Requests, Request(q) PROVE MInv'
  BY <1>1, AuthoriseStep, LoadAddStep, LoadUpdateStep, LoadRevokeStep, CheckOwnersStep,
     CommitStep, DropStep DEF Request
<1> QED  BY <1>1, OutsideStep DEF Next

\* The invariant behind the theorems below: every state is well typed and every
\* request asks for what its actor may ask for.
THEOREM RequestsAskWithinTheirRole == Spec => []MInv
<1> QED  BY InitMInv, StepMInv, PTL DEF Spec

\* Every reachable state is well typed.
THEOREM MembersTypeCorrect == Spec => []TypeOK
<1>1. MInv => TypeOK  BY DEF MInv
<1> QED  BY <1>1, RequestsAskWithinTheirRole, PTL

\* Only a commit writes the membership rows.
LEMMA OnlyCommitsWrite ==
    ASSUME [Next]_vars, members' # members
    PROVE  \E q \in Requests : Commit(q)
BY DEF Next, vars, Request, Authorise, LoadAdd, LoadUpdate, LoadRevoke, CheckOwners, Drop,
       Login, Tick

\* The row a commit writes, with its old and its new content.
LEMMA WrittenBy ==
    ASSUME MInv, [Next]_vars, NEW r \in Rows, members'[r] # members[r]
    PROVE  \E q \in Requests :
            /\ work[q].pc = "checked" /\ work'[q].pc = "idle"
            /\ work[q].seen \in MemberRow /\ work[q].want \in MemberRow
            /\ work[q].want.role = "owner" /\ work[q].seen.role # "owner"
                => work[q].ownSeen.role = "owner"
            /\ \/ /\ work[q].seen = Unused /\ members[r] = Unused
                  /\ members'[r] = work[q].want
               \/ /\ r = work[q].target /\ members[r].user # NoUser
                  /\ members'[r] = WrittenRow(members[r], work[q].seen, work[q].want)
<1>1. PICK q \in Requests : Commit(q)  BY OnlyCommitsWrite
<1>2. PICK s \in Rows :
        /\ members' = [members EXCEPT ![s] = members'[s]]
        /\ \/ /\ work[q].seen = Unused /\ members[s] = Unused
              /\ members'[s] = work[q].want
           \/ /\ s = work[q].target /\ members[s].user # NoUser
              /\ members'[s] = WrittenRow(members[s], work[q].seen, work[q].want)
  BY <1>1, CommitEffect
<1>3. s = r  BY <1>2 DEF MInv, TypeOK
<1>4. work[q].pc = "checked" /\ work[q] \in Work  BY <1>1, CommitEffect
<1>5. work'[q] = Idle  BY <1>1 DEF Commit, Set, MInv, TypeOK
<1>6. work[q].seen \in MemberRow /\ work[q].want \in MemberRow  BY <1>4 DEF Work
<1>7. work[q].want.role = "owner" /\ work[q].seen.role # "owner"
        => work[q].ownSeen.role = "owner"
  BY <1>4 DEF MInv, AskInv
<1> QED  BY <1>2, <1>3, <1>4, <1>5, <1>6, <1>7, IdleTyped

\* A revoked membership stays revoked under every interleaving of requests.
THEOREM RevocationsLast == Spec => RevokedStaysRevoked
<1>1. MInv /\ [Next]_vars => [\A r \in Rows : members[r].revoked => members'[r].revoked]_vars
  <2> SUFFICES ASSUME MInv, [Next]_vars, NEW r \in Rows, members[r].revoked,
                      members'[r] # members[r]
               PROVE  members'[r].revoked
    OBVIOUS
  <2>1. members[r] \in MemberRow /\ members[r] # Unused
    BY UnusedTyped DEF MInv, TypeOK
  <2> QED  BY <2>1, WrittenBy, WrittenRowTyped
<1> QED  BY <1>1, RequestsAskWithinTheirRole, PTL DEF Spec, RevokedStaysRevoked

\* Every new owner is made by a request that was authorised for an owner, even
\* when rows change between its reads and its commit.
THEOREM OwnersMakeOwners == Spec => OnlyOwnersMakeOwners
<1> DEFINE Made(r) ==
            members'[r].role = "owner" /\ members[r].role # "owner" =>
                \E q \in Requests :
                    /\ work[q].pc = "checked" /\ work'[q].pc = "idle"
                    /\ work[q].ownSeen.role = "owner" /\ work[q].want.role = "owner"
<1>1. MInv /\ [Next]_vars => [\A r \in Rows : Made(r)]_vars
  <2> SUFFICES ASSUME MInv, [Next]_vars, NEW r \in Rows,
                      members'[r].role = "owner", members[r].role # "owner"
               PROVE  \E q \in Requests :
                        /\ work[q].pc = "checked" /\ work'[q].pc = "idle"
                        /\ work[q].ownSeen.role = "owner" /\ work[q].want.role = "owner"
    OBVIOUS
  <2>1. members[r] \in MemberRow  BY DEF MInv, TypeOK
  <2>2. members'[r] # members[r]  OBVIOUS
  <2>3. PICK q \in Requests :
            /\ work[q].pc = "checked" /\ work'[q].pc = "idle"
            /\ work[q].seen \in MemberRow /\ work[q].want \in MemberRow
            /\ work[q].want.role = "owner" /\ work[q].seen.role # "owner"
                => work[q].ownSeen.role = "owner"
            /\ \/ /\ work[q].seen = Unused /\ members[r] = Unused
                  /\ members'[r] = work[q].want
               \/ /\ r = work[q].target /\ members[r].user # NoUser
                  /\ members'[r] = WrittenRow(members[r], work[q].seen, work[q].want)
    BY <2>2, WrittenBy
  <2>4. work[q].want.role = "owner" /\ work[q].seen.role # "owner"
    BY <2>1, <2>3, UnusedTyped, WrittenRowTyped
  <2> QED  BY <2>3, <2>4
<1> QED  BY <1>1, RequestsAskWithinTheirRole, PTL DEF Spec, OnlyOwnersMakeOwners

\* An expiry changes only to one that somebody asked for.
THEOREM ExpiriesAsAsked == Spec => ExpiryOnlyAsAsked
<1> DEFINE Asked(r) ==
            members[r].user # NoUser /\ members'[r].expires_at # members[r].expires_at =>
                \E q \in Requests :
                    /\ work[q].pc = "checked" /\ work[q].target = r
                    /\ work[q].want.expires_at # work[q].seen.expires_at
                    /\ work[q].want.expires_at = members'[r].expires_at
<1>1. MInv /\ [Next]_vars => [\A r \in Rows : Asked(r)]_vars
  <2> SUFFICES ASSUME MInv, [Next]_vars, NEW r \in Rows,
                      members[r].user # NoUser,
                      members'[r].expires_at # members[r].expires_at
               PROVE  \E q \in Requests :
                        /\ work[q].pc = "checked" /\ work[q].target = r
                        /\ work[q].want.expires_at # work[q].seen.expires_at
                        /\ work[q].want.expires_at = members'[r].expires_at
    OBVIOUS
  <2>1. members[r] \in MemberRow  BY DEF MInv, TypeOK
  <2>2. members'[r] # members[r] /\ members[r] # Unused  BY UnusedTyped
  <2>3. PICK q \in Requests :
            /\ work[q].pc = "checked"
            /\ work[q].seen \in MemberRow /\ work[q].want \in MemberRow
            /\ r = work[q].target
            /\ members'[r] = WrittenRow(members[r], work[q].seen, work[q].want)
    BY <2>2, WrittenBy
  <2> QED  BY <2>1, <2>3, WrittenRowTyped
<1> QED  BY <1>1, RequestsAskWithinTheirRole, PTL DEF Spec, ExpiryOnlyAsAsked

-----------------------------------------------------------------------------
(* One request at a time, nobody types an expiry: the last owner stays.    *)

Serial ==
    /\ \E q : Requests = {q}
    /\ Expiries \subseteq {Never}
    /\ IsFiniteSet(Rows)

\* Nothing lapses, and what the request has read is still what is committed. A
\* change that takes an owner away has seen another one, who is still there.
SerialInv ==
    /\ AlwaysAnOwner
    /\ \A r \in Rows : members[r].user # NoUser => members[r].expires_at = Never
    /\ \A q \in Requests :
        /\ work[q].pc # "idle" =>
            work[q].own \in Rows /\ work[q].ownSeen = members[work[q].own]
        /\ work[q].pc = "loaded" => work[q].seen.user # NoUser
        /\ work[q].pc \in {"loaded", "checked"} =>
            /\ work[q].want.expires_at = Never
            /\ work[q].seen.user # NoUser => work[q].seen = members[work[q].target]
        /\ work[q].pc = "checked" /\ work[q].seen.user # NoUser
            /\ NeedsOwner(work[q].seen, work[q].want)
                => ActiveOwners \ {work[q].target} # {}

\* A row that never lapses is active while it is not revoked.
LEMMA ActiveUnlessRevoked ==
    ASSUME now \in 0..MaxTime, NEW m, m.expires_at = Never
    PROVE  IsActive(m) <=> ~m.revoked
BY NeverIsLast DEF IsActive

\* More than one member means another one.
LEMMA AnotherOne ==
    ASSUME NEW S, NEW x, S \subseteq Rows, IsFiniteSet(Rows), Cardinality(S) > 1
    PROVE  S \ {x} # {}
<1> SUFFICES ASSUME S \subseteq {x} PROVE FALSE
  OBVIOUS
<1>1. IsFiniteSet({x}) /\ Cardinality({x}) = 1  BY FS_Singleton
<1>2. Cardinality(S) <= 1  BY <1>1, FS_Subset
<1>3. Cardinality(S) \in Nat  BY <1>1, FS_Subset, FS_CardinalityType
<1> QED  BY <1>2, <1>3

\* The row a request has in its session is the committed one.
LEMMA SessionIsCurrent ==
    ASSUME MInv, SerialInv, NEW q \in Requests, work[q].pc # "idle", NEW r \in Rows
    PROVE  InSession(q, r) = members[r]
<1>1. CASE r = work[q].own
  BY <1>1 DEF InSession, SerialInv
<1>2. CASE r # work[q].own /\ work[q].pc = "loaded" /\ r = work[q].target
  BY <1>2 DEF InSession, SerialInv
<1> QED  BY <1>1, <1>2 DEF InSession

\* So the owners it counts are the owners there are.
LEMMA CountsAllOwners ==
    ASSUME MInv, SerialInv, NEW q \in Requests, work[q].pc # "idle"
    PROVE  OwnersSeen(q) = ActiveOwners
BY SessionIsCurrent DEF OwnersSeen, ActiveOwners, IsActive

LEMMA InitSerial == Init => SerialInv
<1> SUFFICES ASSUME Init PROVE SerialInv
  OBVIOUS
<1>1. PICK u \in Users, r \in Rows :
        members = [s \in Rows |->
            IF s = r THEN [Unused EXCEPT !.user = u, !.role = "owner"] ELSE Unused]
  BY DEF Init
<1>2. members[r] = [Unused EXCEPT !.user = u, !.role = "owner"]  BY <1>1
<1>3. /\ members[r].user = u /\ members[r].role = "owner"
      /\ members[r].expires_at = Never /\ members[r].revoked = FALSE
  BY <1>2, UnusedTyped DEF MemberRow
<1>4. now \in 0..MaxTime  BY TimeAssumption DEF Init
<1>5. r \in ActiveOwners
  BY <1>3, <1>4, ActiveUnlessRevoked, UserAssumption DEF ActiveOwners
<1>6. \A s \in Rows : members[s].user # NoUser => members[s].expires_at = Never
  BY <1>1, <1>3, UnusedTyped
<1> QED  BY <1>5, <1>6, IdleTyped DEF SerialInv, AlwaysAnOwner, Init

\* The step of the request that writes nothing but its own record.
LEMMA SerialSet ==
    ASSUME MInv, SerialInv, NEW q \in Requests, NEW w \in Work,
           Set(q, w), UNCHANGED <<members, version, tokens, now>>,
           w.pc # "idle" => w.own \in Rows /\ w.ownSeen = members[w.own],
           w.pc = "loaded" => w.seen.user # NoUser,
           w.pc \in {"loaded", "checked"} =>
            /\ w.want.expires_at = Never
            /\ w.seen.user # NoUser => w.seen = members[w.target],
           (w.pc = "checked" /\ w.seen.user # NoUser /\ NeedsOwner(w.seen, w.want))
                => ActiveOwners \ {w.target} # {}
    PROVE  SerialInv'
<1>1. \A p \in Requests : work'[p] = IF p = q THEN w ELSE work[p]
  BY DEF Set, MInv, TypeOK
<1>2. ActiveOwners' = ActiveOwners  BY DEF ActiveOwners, IsActive
<1>3. members' = members /\ now' = now  OBVIOUS
<1>4. AlwaysAnOwner'  BY <1>2 DEF SerialInv, AlwaysAnOwner
<1>5. ASSUME NEW p \in Requests, work'[p].pc = "checked", work'[p].seen.user # NoUser,
             NeedsOwner(work[p].seen, work[p].want)'
      PROVE  ActiveOwners' \ {work'[p].target} # {}
  <2>1. CASE p = q
    <3>1. work'[p] = w  BY <1>1, <2>1
    <3>2. NeedsOwner(w.seen, w.want)  BY <1>3, <1>5, <3>1 DEF NeedsOwner, IsActive
    <3> QED  BY <1>2, <1>5, <3>1, <3>2
  <2>2. CASE p # q
    <3>1. work'[p] = work[p]  BY <1>1, <2>2
    <3>2. NeedsOwner(work[p].seen, work[p].want)
      BY <1>3, <1>5, <3>1 DEF NeedsOwner, IsActive
    <3> QED  BY <1>2, <1>5, <3>1, <3>2 DEF SerialInv
  <2> QED  BY <2>1, <2>2
<1>6. \A r \in Rows : members'[r].user # NoUser => members'[r].expires_at = Never
  BY DEF SerialInv
<1>7. ASSUME NEW p \in Requests
      PROVE  /\ work'[p].pc # "idle" =>
                 work'[p].own \in Rows /\ work'[p].ownSeen = members'[work'[p].own]
             /\ work'[p].pc = "loaded" => work'[p].seen.user # NoUser
             /\ work'[p].pc \in {"loaded", "checked"} =>
                 /\ work'[p].want.expires_at = Never
                 /\ work'[p].seen.user # NoUser => work'[p].seen = members'[work'[p].target]
  <2>1. CASE p = q  BY <1>1, <1>3, <2>1
  <2>2. CASE p # q  BY <1>1, <1>3, <2>2 DEF SerialInv
  <2> QED  BY <2>1, <2>2
<1> QED  BY <1>4, <1>5, <1>6, <1>7 DEF SerialInv

LEMMA SerialAuthorise ==
    ASSUME MInv, SerialInv, NEW q \in Requests, NEW u \in Users, Authorise(q, u)
    PROVE  SerialInv'
<1>1. PICK r \in Unrevoked(u) :
        Set(q, [Idle EXCEPT !.pc = "authorised", !.own = r, !.ownSeen = members[r],
                            !.version = version[u]])
  BY DEF Authorise
<1> DEFINE w == [Idle EXCEPT !.pc = "authorised", !.own = r, !.ownSeen = members[r],
                             !.version = version[u]]
<1>2. r \in Rows /\ members[r] \in MemberRow /\ version[u] \in Versions
  BY <1>1 DEF Unrevoked, MInv, TypeOK
<1>3. w \in Work /\ w.pc = "authorised" /\ w.own = r /\ w.ownSeen = members[r]
  BY <1>2, IdleTyped DEF Work
<1> HIDE DEF w
<1>4. Set(q, w)  BY <1>1 DEF w
<1> QED  BY <1>2, <1>3, <1>4, SerialSet DEF Authorise

LEMMA SerialLoadAdd ==
    ASSUME Serial, MInv, SerialInv, NEW q \in Requests, NEW u \in Users, LoadAdd(q, u)
    PROVE  SerialInv'
<1>1. PICK role \in Roles, expires_at \in Expiries :
        Set(q, [work[q] EXCEPT
                !.pc = "checked", !.seen = Unused, !.version = VersionSeen(q, u),
                !.want = [user |-> u, role |-> role, expires_at |-> expires_at,
                          revoked |-> FALSE]])
  BY DEF LoadAdd
<1> DEFINE want == [user |-> u, role |-> role, expires_at |-> expires_at, revoked |-> FALSE]
           w == [work[q] EXCEPT !.pc = "checked", !.seen = Unused,
                                !.version = VersionSeen(q, u), !.want = want]
<1>2. want \in MemberRow /\ want.expires_at = Never
  BY TimeAssumption DEF MemberRow, Serial
<1> HIDE DEF want
<1>3. work[q] \in Work /\ VersionSeen(q, u) \in Versions
  BY ReadsTyped, RowAssumption DEF MInv, TypeOK, VersionSeen, Work
<1>4. /\ w \in Work /\ w.pc = "checked" /\ w.seen = Unused /\ w.want = want
      /\ w.own = work[q].own /\ w.ownSeen = work[q].ownSeen
  BY <1>2, <1>3, UnusedTyped DEF Work
<1> HIDE DEF w
<1>5. Set(q, w)  BY <1>1 DEF w, want
<1>6. w.own \in Rows /\ w.ownSeen = members[w.own]  BY <1>4 DEF LoadAdd, SerialInv
<1> QED  BY <1>2, <1>4, <1>5, <1>6, UnusedTyped, SerialSet DEF LoadAdd

LEMMA SerialLoadTarget ==
    ASSUME MInv, SerialInv, NEW q \in Requests, NEW r \in Rows, NEW want \in MemberRow,
           work[q].pc = "authorised", members[r].user # NoUser,
           want.expires_at = Never,
           LoadTarget(q, r, want), UNCHANGED <<members, version, tokens, now>>
    PROVE  SerialInv'
<1> DEFINE w == [work[q] EXCEPT
                    !.pc = IF NeedsOwner(members[r], want) THEN "loaded" ELSE "checked",
                    !.target = r, !.seen = members[r], !.want = want,
                    !.version = VersionSeen(q, members[r].user)]
<1>1. members[r].user \in Users /\ members[r] \in MemberRow /\ work[q] \in Work
  BY DEF MInv, TypeOK, MemberRow
<1>2. VersionSeen(q, members[r].user) \in Versions  BY <1>1, ReadsTyped DEF MInv
<1>3. /\ w \in Work /\ w.target = r /\ w.seen = members[r] /\ w.want = want
      /\ w.own = work[q].own /\ w.ownSeen = work[q].ownSeen
      /\ w.pc = IF NeedsOwner(members[r], want) THEN "loaded" ELSE "checked"
  BY <1>1, <1>2 DEF Work
<1>4. Set(q, w)  BY SessionIsCurrent DEF LoadTarget
<1> HIDE DEF w
<1>5. w.own \in Rows /\ w.ownSeen = members[w.own]  BY <1>3 DEF SerialInv
<1> QED  BY <1>3, <1>4, <1>5, SerialSet

LEMMA SerialLoadUpdate ==
    ASSUME Serial, MInv, SerialInv, NEW q \in Requests, NEW r \in Rows, LoadUpdate(q, r)
    PROVE  SerialInv'
<1>1. InSession(q, r) = members[r] /\ members[r] \in MemberRow /\ members[r].expires_at = Never
  BY SessionIsCurrent DEF LoadUpdate, MInv, TypeOK, SerialInv
<1>2. PICK role \in Roles, expires_at \in Expiries \cup {members[r].expires_at} :
        LoadTarget(q, r, [members[r] EXCEPT !.role = role, !.expires_at = expires_at])
  BY <1>1 DEF LoadUpdate
<1> DEFINE want == [members[r] EXCEPT !.role = role, !.expires_at = expires_at]
<1>3. expires_at = Never  BY <1>1 DEF Serial
<1>4. want \in MemberRow /\ want.expires_at = Never
  BY <1>1, <1>3, NeverIsLast DEF MemberRow
<1>5. LoadTarget(q, r, want)  BY <1>2
<1> HIDE DEF want
<1> QED  BY <1>4, <1>5, SerialLoadTarget DEF LoadUpdate

LEMMA SerialLoadRevoke ==
    ASSUME MInv, SerialInv, NEW q \in Requests, NEW r \in Rows, LoadRevoke(q, r)
    PROVE  SerialInv'
<1>1. InSession(q, r) = members[r] /\ members[r] \in MemberRow /\ members[r].expires_at = Never
  BY SessionIsCurrent DEF LoadRevoke, MInv, TypeOK, SerialInv
<1> DEFINE want == [members[r] EXCEPT !.revoked = TRUE]
<1>2. want \in MemberRow /\ want.expires_at = Never  BY <1>1 DEF MemberRow
<1>3. LoadTarget(q, r, want)  BY <1>1 DEF LoadRevoke
<1> HIDE DEF want
<1> QED  BY <1>2, <1>3, SerialLoadTarget DEF LoadRevoke

\* The check: the request that goes on has seen an owner who is not its target.
LEMMA SerialCheckOwners ==
    ASSUME Serial, MInv, SerialInv, NEW q \in Requests, CheckOwners(q)
    PROVE  SerialInv'
<1>1. CASE Set(q, Idle)
  BY <1>1, IdleTyped, SerialSet DEF CheckOwners
<1> DEFINE w == [work[q] EXCEPT !.pc = "checked",
                    !.version = IF work[q].want.revoked
                                THEN VersionSeen(q, work[q].want.user) ELSE @]
<1>2. CASE Cardinality(OwnersSeen(q)) > 1 /\ Set(q, w)
  <2>1. work[q] \in Work /\ work[q].pc = "loaded" /\ work[q].want.user \in Users
    BY DEF CheckOwners, MInv, TypeOK, AskInv
  <2>2. VersionSeen(q, work[q].want.user) \in Versions
    BY <2>1 DEF VersionSeen, MInv, TypeOK, Work
  <2>3. /\ w \in Work /\ w.pc = "checked" /\ w.target = work[q].target
        /\ w.seen = work[q].seen /\ w.want = work[q].want
        /\ w.own = work[q].own /\ w.ownSeen = work[q].ownSeen
    BY <2>1, <2>2 DEF Work
  <2> HIDE DEF w
  <2>4. ActiveOwners \ {work[q].target} # {}
    BY <1>2, <2>1, CountsAllOwners, AnotherOne DEF ActiveOwners, Serial
  <2>5. w.own \in Rows /\ w.ownSeen = members[w.own]
    BY <2>1, <2>3 DEF SerialInv
  <2>6. /\ w.want.expires_at = Never
        /\ w.seen.user # NoUser => w.seen = members[w.target]
    BY <2>1, <2>3 DEF SerialInv
  <2> QED  BY <1>2, <2>3, <2>4, <2>5, <2>6, SerialSet DEF CheckOwners
<1> QED  BY <1>1, <1>2 DEF CheckOwners

\* The commit: who is no owner any more was not the only one.
LEMMA SerialCommit ==
    ASSUME Serial, MInv, SerialInv, NEW q \in Requests, Commit(q)
    PROVE  SerialInv'
<1>1. PICK r \in Rows :
        /\ members' = [members EXCEPT ![r] = members'[r]]
        /\ members'[r] \in MemberRow
        /\ \/ /\ work[q].seen = Unused /\ members[r] = Unused
              /\ members'[r] = work[q].want
           \/ /\ work[q].seen.user # NoUser
              /\ r = work[q].target /\ members[r].user # NoUser
              /\ members'[r] = WrittenRow(members[r], work[q].seen, work[q].want)
              /\ members'[r].user = members[r].user
  BY CommitEffect
<1>2. work[q].pc = "checked" /\ work[q] \in Work /\ now' = now
  BY CommitEffect DEF Commit
<1>3. work[q].want \in MemberRow /\ work[q].want.expires_at = Never
  BY <1>2 DEF Work, SerialInv
<1>4. \A s \in Rows : s # r => members'[s] = members[s]
  BY <1>1 DEF MInv, TypeOK
<1>5. now \in 0..MaxTime /\ members[r] \in MemberRow  BY DEF MInv, TypeOK
<1>6. \A p \in Requests : work'[p] = Idle
  BY DEF Commit, Set, Serial, MInv, TypeOK
<1>7. CASE work[q].seen = Unused /\ members[r] = Unused /\ members'[r] = work[q].want
  <2>1. ActiveOwners \subseteq ActiveOwners'
    BY <1>2, <1>4, <1>7, UnusedTyped DEF ActiveOwners, IsActive
  <2>2. \A s \in Rows : members'[s].user # NoUser => members'[s].expires_at = Never
    BY <1>3, <1>4, <1>7 DEF SerialInv
  <2>3. AlwaysAnOwner'  BY <2>1 DEF SerialInv, AlwaysAnOwner
  <2> QED  BY <1>6, <2>2, <2>3, IdleTyped DEF SerialInv
<1>8. CASE /\ work[q].seen.user # NoUser
           /\ r = work[q].target /\ members[r].user # NoUser
           /\ members'[r] = WrittenRow(members[r], work[q].seen, work[q].want)
           /\ members'[r].user = members[r].user
  <2>1. work[q].seen = members[r] /\ members[r].expires_at = Never
    BY <1>2, <1>8 DEF SerialInv
  <2>2. /\ members'[r].role = work[q].want.role
        /\ members'[r].expires_at = Never
        /\ members'[r].revoked => members[r].revoked \/ work[q].want.revoked
    <3>1. work[q].want.revoked \in BOOLEAN /\ members[r].revoked \in BOOLEAN
      BY <1>3, <1>5 DEF MemberRow
    <3> QED  BY <1>3, <1>5, <1>8, <2>1, <3>1, WrittenRowTyped
  <2>3. \A s \in Rows : members'[s].user # NoUser => members'[s].expires_at = Never
    BY <1>4, <2>2 DEF SerialInv
  <2>4. \A s \in Rows \ {r} : s \in ActiveOwners => s \in ActiveOwners'
    BY <1>2, <1>4 DEF ActiveOwners, IsActive
  <2>5. ASSUME NeedsOwner(work[q].seen, work[q].want) PROVE AlwaysAnOwner'
    <3>1. ActiveOwners \ {r} # {}  BY <1>2, <1>8, <2>5 DEF SerialInv
    <3> QED  BY <2>4, <3>1 DEF AlwaysAnOwner, ActiveOwners
  <2>6. ASSUME ~NeedsOwner(work[q].seen, work[q].want), r \in ActiveOwners
        PROVE  AlwaysAnOwner'
    <3>1. members[r].role = "owner" /\ IsActive(members[r])
      BY <2>6 DEF ActiveOwners
    <3>2. work[q].want.role = "owner" /\ ~work[q].want.revoked
      BY <2>1, <2>6, <3>1 DEF NeedsOwner
    <3>3. ~members[r].revoked  BY <3>1 DEF IsActive
    <3>4. members'[r].role = "owner" /\ ~members'[r].revoked  BY <2>2, <3>2, <3>3
    <3>5. members'[r].expires_at > now'  BY <1>2, <1>5, <2>2, NeverIsLast
    <3>6. r \in ActiveOwners'
      BY <1>8, <3>4, <3>5 DEF ActiveOwners, IsActive
    <3> QED  BY <3>6 DEF AlwaysAnOwner
  <2>7. ASSUME r \notin ActiveOwners PROVE AlwaysAnOwner'
    BY <2>4, <2>7 DEF SerialInv, AlwaysAnOwner, ActiveOwners
  <2>8. AlwaysAnOwner'  BY <2>5, <2>6, <2>7
  <2> QED  BY <1>6, <2>3, <2>8, IdleTyped DEF SerialInv
<1> QED  BY <1>1, <1>7, <1>8

LEMMA SerialDrop ==
    ASSUME MInv, SerialInv, NEW q \in Requests, Drop(q)
    PROVE  SerialInv'
BY IdleTyped, SerialSet DEF Drop

\* Sessions and time: a row without an expiry is as active as it was.
LEMMA SerialOutside ==
    ASSUME MInv, MInv', SerialInv, UNCHANGED <<members, work>>
    PROVE  SerialInv'
<1>1. now \in 0..MaxTime /\ now' \in 0..MaxTime  BY DEF MInv, TypeOK
<1>2. \A m : m.expires_at = Never => (IsActive(m) <=> IsActive(m)')
  BY <1>1, NeverIsLast DEF IsActive
<1>3. ActiveOwners' = ActiveOwners
  BY <1>1, NeverIsLast DEF ActiveOwners, IsActive, SerialInv
<1>4. AlwaysAnOwner'  BY <1>3 DEF SerialInv, AlwaysAnOwner
<1>5. ASSUME NEW p \in Requests, work[p].pc = "checked", work[p].seen.user # NoUser,
             NeedsOwner(work[p].seen, work[p].want)'
      PROVE  ActiveOwners' \ {work[p].target} # {}
  <2>1. work[p].target \in Rows /\ work[p].seen = members[work[p].target]
    BY <1>5 DEF SerialInv, MInv, AskInv
  <2>2. work[p].seen.expires_at = Never  BY <1>5, <2>1 DEF SerialInv
  <2>3. NeedsOwner(work[p].seen, work[p].want)
    BY <1>1, <1>5, <2>2, NeverIsLast DEF NeedsOwner, IsActive
  <2> QED  BY <1>3, <1>5, <2>3 DEF SerialInv
<1> QED  BY <1>4, <1>5 DEF SerialInv

LEMMA StepSerial == Serial /\ MInv /\ MInv' /\ SerialInv /\ [Next]_vars => SerialInv'
<1> SUFFICES ASSUME Serial, MInv, MInv', SerialInv, [Next]_vars PROVE SerialInv'
  OBVIOUS
<1>1. ASSUME NEW q \in Requests, Request(q) PROVE SerialInv'
  BY <1>1, SerialAuthorise, SerialLoadAdd, SerialLoadUpdate, SerialLoadRevoke,
     SerialCheckOwners, SerialCommit, SerialDrop DEF Request
<1>2. CASE Tick \/ (\E u \in Users : Login(u)) \/ UNCHANGED vars
  BY <1>2, SerialOutside DEF Tick, Login, vars
<1> QED  BY <1>1, <1>2 DEF Next

\* With one request at a time and no expiries the company never loses its last
\* owner, however many people, rows and requests in a row there are.
THEOREM OwnerKept == ASSUME Serial PROVE Spec => []AlwaysAnOwner
<1>1. MInv /\ MInv' /\ SerialInv /\ [Next]_vars => SerialInv'  BY StepSerial
<1>2. SerialInv => AlwaysAnOwner  BY DEF SerialInv
<1> QED  BY <1>1, <1>2, InitSerial, RequestsAskWithinTheirRole, PTL DEF Spec

-----------------------------------------------------------------------------
(* One request at a time: a change ends the sessions of the one it is about.*)

OneAtATime == \E q : Requests = {q}

\* No token is younger than its user's version, and the version a request has
\* read is the current one of the person it is about.
SessionInv ==
    /\ \A u \in Users : \A tv \in tokens[u] : tv <= version[u]
    /\ \A q \in Requests :
        /\ work[q].pc # "idle" =>
            work[q].own \in Rows /\ work[q].ownSeen.user = members[work[q].own].user
        /\ work[q].pc = "authorised" => work[q].version = version[work[q].ownSeen.user]
        /\ work[q].pc \in {"loaded", "checked"} =>
            /\ work[q].version = version[work[q].want.user]
            /\ work[q].seen.user # NoUser => members[work[q].target].user = work[q].want.user

LEMMA InitSession == Init => SessionInv
BY IdleTyped DEF Init, SessionInv

\* The step of the request that writes nothing but its own record.
LEMMA SessionSet ==
    ASSUME MInv, SessionInv, NEW q \in Requests, NEW w,
           Set(q, w), UNCHANGED <<members, version, tokens, now>>,
           w.pc # "idle" => w.own \in Rows /\ w.ownSeen.user = members[w.own].user,
           w.pc = "authorised" => w.version = version[w.ownSeen.user],
           w.pc \in {"loaded", "checked"} =>
            /\ w.version = version[w.want.user]
            /\ w.seen.user # NoUser => members[w.target].user = w.want.user
    PROVE  SessionInv'
<1>1. \A p \in Requests : work'[p] = IF p = q THEN w ELSE work[p]
  BY DEF Set, MInv, TypeOK
<1>2. ASSUME NEW p \in Requests
      PROVE  /\ work'[p].pc # "idle" =>
                 work'[p].own \in Rows /\ work'[p].ownSeen.user = members[work'[p].own].user
             /\ work'[p].pc = "authorised" => work'[p].version = version[work'[p].ownSeen.user]
             /\ work'[p].pc \in {"loaded", "checked"} =>
                 /\ work'[p].version = version[work'[p].want.user]
                 /\ work'[p].seen.user # NoUser =>
                        members[work'[p].target].user = work'[p].want.user
  BY <1>1 DEF SessionInv
<1> QED  BY <1>2 DEF SessionInv

LEMMA SessionAuthorise ==
    ASSUME MInv, SessionInv, NEW q \in Requests, NEW u \in Users, Authorise(q, u)
    PROVE  SessionInv'
<1>1. PICK r \in Unrevoked(u) :
        Set(q, [Idle EXCEPT !.pc = "authorised", !.own = r, !.ownSeen = members[r],
                            !.version = version[u]])
  BY DEF Authorise
<1> DEFINE w == [Idle EXCEPT !.pc = "authorised", !.own = r, !.ownSeen = members[r],
                             !.version = version[u]]
<1>2. r \in Rows /\ members[r] \in MemberRow /\ members[r].user = u /\ version[u] \in Versions
  BY <1>1 DEF Unrevoked, MInv, TypeOK
<1>3. w.pc = "authorised" /\ w.own = r /\ w.ownSeen = members[r] /\ w.version = version[u]
  BY <1>2, IdleTyped DEF Work
<1> HIDE DEF w
<1>4. Set(q, w)  BY <1>1 DEF w
<1> QED  BY <1>2, <1>3, <1>4, SessionSet DEF Authorise

\* An authorised request reads the current version of anybody.
LEMMA VersionIsCurrent ==
    ASSUME MInv, SessionInv, NEW q \in Requests, work[q].pc = "authorised", NEW u \in Users
    PROVE  VersionSeen(q, u) = version[u]
BY DEF SessionInv, VersionSeen

LEMMA SessionLoadAdd ==
    ASSUME MInv, SessionInv, NEW q \in Requests, NEW u \in Users, LoadAdd(q, u)
    PROVE  SessionInv'
<1>1. PICK role \in Roles, expires_at \in Expiries :
        Set(q, [work[q] EXCEPT
                !.pc = "checked", !.seen = Unused, !.version = VersionSeen(q, u),
                !.want = [user |-> u, role |-> role, expires_at |-> expires_at,
                          revoked |-> FALSE]])
  BY DEF LoadAdd
<1> DEFINE want == [user |-> u, role |-> role, expires_at |-> expires_at, revoked |-> FALSE]
           w == [work[q] EXCEPT !.pc = "checked", !.seen = Unused,
                                !.version = VersionSeen(q, u), !.want = want]
<1>2. work[q] \in Work /\ VersionSeen(q, u) = version[u]
  BY VersionIsCurrent DEF MInv, TypeOK, LoadAdd
<1>3. want.user = u  OBVIOUS
<1> HIDE DEF want
<1>4. /\ w.pc = "checked" /\ w.seen = Unused /\ w.want = want
      /\ w.version = version[u] /\ w.own = work[q].own /\ w.ownSeen = work[q].ownSeen
  BY <1>2 DEF Work
<1> HIDE DEF w
<1>5. Set(q, w)  BY <1>1 DEF w, want
<1>6. w.own \in Rows /\ w.ownSeen.user = members[w.own].user
  BY <1>4 DEF LoadAdd, SessionInv
<1> QED  BY <1>3, <1>4, <1>5, <1>6, UnusedTyped, SessionSet DEF LoadAdd

LEMMA SessionLoadTarget ==
    ASSUME MInv, SessionInv, NEW q \in Requests, NEW r \in Rows, NEW want \in MemberRow,
           work[q].pc = "authorised", members[r].user # NoUser,
           want.user = InSession(q, r).user,
           LoadTarget(q, r, want), UNCHANGED <<members, version, tokens, now>>
    PROVE  SessionInv'
<1> DEFINE seen == InSession(q, r)
           w == [work[q] EXCEPT
                    !.pc = IF NeedsOwner(seen, want) THEN "loaded" ELSE "checked",
                    !.target = r, !.seen = seen, !.want = want,
                    !.version = VersionSeen(q, members[r].user)]
<1>1. members[r].user \in Users /\ work[q] \in Work  BY DEF MInv, TypeOK, MemberRow
<1>2. VersionSeen(q, members[r].user) = version[members[r].user]
  BY <1>1, VersionIsCurrent
<1>3. want.user = members[r].user  BY DEF InSession, SessionInv
<1>4. Set(q, w)  BY DEF LoadTarget
<1> HIDE DEF seen
<1>5. /\ w.pc \in {"loaded", "checked"} /\ w.target = r /\ w.want = want
      /\ w.version = version[members[r].user]
      /\ w.own = work[q].own /\ w.ownSeen = work[q].ownSeen
  BY <1>1, <1>2 DEF Work
<1> HIDE DEF w
<1>6. w.own \in Rows /\ w.ownSeen.user = members[w.own].user  BY <1>5 DEF SessionInv
<1> QED  BY <1>3, <1>4, <1>5, <1>6, SessionSet

LEMMA SessionLoadUpdate ==
    ASSUME MInv, SessionInv, NEW q \in Requests, NEW r \in Rows, LoadUpdate(q, r)
    PROVE  SessionInv'
<1> DEFINE seen == InSession(q, r)
<1>1. PICK role \in Roles, expires_at \in Expiries \cup {seen.expires_at} :
        LoadTarget(q, r, [seen EXCEPT !.role = role, !.expires_at = expires_at])
  BY DEF LoadUpdate
<1>2. seen \in MemberRow  BY ReadsTyped, UserAssumption DEF MInv
<1> HIDE DEF seen
<1> DEFINE want == [seen EXCEPT !.role = role, !.expires_at = expires_at]
<1>3. expires_at \in 0..Never  BY <1>2, TimeAssumption DEF MemberRow
<1>4. want \in MemberRow /\ want.user = seen.user  BY <1>2, <1>3 DEF MemberRow
<1>5. LoadTarget(q, r, want)  BY <1>1
<1> HIDE DEF want
<1> QED  BY <1>4, <1>5, SessionLoadTarget DEF LoadUpdate, seen

LEMMA SessionLoadRevoke ==
    ASSUME MInv, SessionInv, NEW q \in Requests, NEW r \in Rows, LoadRevoke(q, r)
    PROVE  SessionInv'
<1> DEFINE seen == InSession(q, r)
           want == [seen EXCEPT !.revoked = TRUE]
<1>1. LoadTarget(q, r, want)  BY DEF LoadRevoke
<1>2. seen \in MemberRow  BY ReadsTyped, UserAssumption DEF MInv
<1> HIDE DEF seen
<1>3. want \in MemberRow /\ want.user = seen.user  BY <1>2 DEF MemberRow
<1> HIDE DEF want
<1> QED  BY <1>1, <1>3, SessionLoadTarget DEF LoadRevoke, seen

LEMMA SessionCheckOwners ==
    ASSUME MInv, SessionInv, NEW q \in Requests, CheckOwners(q)
    PROVE  SessionInv'
<1>1. CASE Set(q, Idle)
  BY <1>1, IdleTyped, SessionSet DEF CheckOwners
<1> DEFINE w == [work[q] EXCEPT !.pc = "checked",
                    !.version = IF work[q].want.revoked
                                THEN VersionSeen(q, work[q].want.user) ELSE @]
<1>2. CASE Set(q, w)
  <2>1. work[q] \in Work /\ work[q].pc = "loaded"  BY DEF CheckOwners, MInv, TypeOK
  <2>2. work[q].version = version[work[q].want.user]  BY <2>1 DEF SessionInv
  <2>3. VersionSeen(q, work[q].want.user) = version[work[q].want.user]
    BY <2>2 DEF VersionSeen
  <2>4. /\ w.pc = "checked" /\ w.target = work[q].target
        /\ w.seen = work[q].seen /\ w.want = work[q].want
        /\ w.own = work[q].own /\ w.ownSeen = work[q].ownSeen
        /\ w.version = version[work[q].want.user]
    BY <2>1, <2>2, <2>3 DEF Work
  <2> HIDE DEF w
  <2>5. /\ w.own \in Rows /\ w.ownSeen.user = members[w.own].user
        /\ w.seen.user # NoUser => members[w.target].user = w.want.user
    BY <2>1, <2>4 DEF SessionInv
  <2> QED  BY <1>2, <2>4, <2>5, SessionSet DEF CheckOwners
<1> QED  BY <1>1, <1>2 DEF CheckOwners

\* The commit makes the version newer than every token of the person it is about.
LEMMA CommitOutdates ==
    ASSUME MInv, SessionInv, NEW q \in Requests, Commit(q)
    PROVE  LET u == work[q].want.user IN
           /\ u \in Users /\ version[u] \in Nat /\ tokens[u] \subseteq Nat
           /\ version' = [version EXCEPT ![u] = version[u] + 1]
           /\ version'[u] = version[u] + 1 /\ version'[u] \notin tokens[u]
<1> DEFINE u == work[q].want.user
<1>1. /\ u \in Users /\ work[q].pc = "checked" /\ version[u] \in Nat
      /\ tokens[u] \subseteq Nat /\ version \in [Users -> Versions]
  BY CommitEffect, VersionAssumption DEF MInv, TypeOK, Versions
<1>2. work[q].version = version[u]  BY <1>1 DEF SessionInv
<1>3. version' = [version EXCEPT ![u] = version[u] + 1]
  BY <1>2 DEF Commit, BumpedVersion
<1>4. version'[u] = version[u] + 1  BY <1>1, <1>3
<1>5. \A tv \in tokens[u] : tv <= version[u]  BY <1>1 DEF SessionInv
<1>6. version'[u] \notin tokens[u]  BY <1>1, <1>4, <1>5
<1> QED  BY <1>1, <1>3, <1>4, <1>6

LEMMA SessionCommit ==
    ASSUME OneAtATime, MInv, SessionInv, NEW q \in Requests, Commit(q)
    PROVE  SessionInv'
<1>1. \A p \in Requests : work'[p] = Idle
  BY DEF Commit, Set, OneAtATime, MInv, TypeOK
<1>2. ASSUME NEW u \in Users, NEW tv \in tokens'[u] PROVE tv <= version'[u]
  <2>1. tokens' = tokens /\ version[u] \in Nat /\ tv \in Nat
    BY <1>2, VersionAssumption DEF Commit, MInv, TypeOK, Versions
  <2>2. version'[u] = version[u] \/ version'[u] = version[u] + 1
    BY CommitOutdates DEF MInv, TypeOK
  <2>3. tv <= version[u]  BY <1>2, <2>1 DEF SessionInv
  <2> QED  BY <2>1, <2>2, <2>3
<1> QED  BY <1>1, <1>2, IdleTyped DEF SessionInv

LEMMA SessionOutside ==
    ASSUME MInv, SessionInv, Tick \/ (\E u \in Users : Login(u)) \/ UNCHANGED vars
    PROVE  SessionInv'
<1>1. ASSUME NEW u \in Users, Login(u) PROVE SessionInv'
  <2>1. \A v \in Users : version[v] \in Nat  BY VersionAssumption DEF MInv, TypeOK, Versions
  <2>2. \A v \in Users : tokens'[v] = tokens[v] \cup (IF v = u THEN {version[u]} ELSE {})
    BY <1>1 DEF Login, MInv, TypeOK
  <2>3. \A v \in Users : \A tv \in tokens'[v] : tv <= version[v]
    BY <2>1, <2>2 DEF SessionInv
  <2> QED  BY <1>1, <2>3 DEF Login, SessionInv
<1>2. CASE Tick \/ UNCHANGED vars  BY <1>2 DEF Tick, vars, SessionInv
<1> QED  BY <1>1, <1>2

LEMMA StepSession == OneAtATime /\ MInv /\ SessionInv /\ [Next]_vars => SessionInv'
<1> SUFFICES ASSUME OneAtATime, MInv, SessionInv, [Next]_vars PROVE SessionInv'
  OBVIOUS
<1>1. ASSUME NEW q \in Requests, Drop(q) PROVE SessionInv'
  BY <1>1, IdleTyped, SessionSet DEF Drop
<1>2. ASSUME NEW q \in Requests, Request(q) PROVE SessionInv'
  BY <1>1, <1>2, SessionAuthorise, SessionLoadAdd, SessionLoadUpdate, SessionLoadRevoke,
     SessionCheckOwners, SessionCommit DEF Request
<1> QED  BY <1>2, SessionOutside DEF Next

\* With one request at a time, a change of somebody's membership leaves no token
\* of theirs good: the version it writes is one that was never handed out.
THEOREM ChangesEndSessions == ASSUME OneAtATime PROVE Spec => ChangeEndsSessions
<1>1. MInv /\ SessionInv /\ [Next]_vars => SessionInv'  BY StepSession
<1>2. MInv /\ SessionInv /\ [Next]_vars =>
        [\A r \in Rows : members'[r] # members[r] =>
            version'[members'[r].user] \notin tokens[members'[r].user]]_vars
  <2> SUFFICES ASSUME MInv, SessionInv, [Next]_vars, NEW r \in Rows, members'[r] # members[r]
               PROVE  version'[members'[r].user] \notin tokens[members'[r].user]
    OBVIOUS
  <2>1. PICK q \in Requests : Commit(q)  BY OnlyCommitsWrite
  <2>2. members'[r].user = work[q].want.user
    <3>1. PICK s \in Rows :
            /\ members' = [members EXCEPT ![s] = members'[s]]
            /\ \/ members'[s] = work[q].want
               \/ /\ work[q].seen.user # NoUser /\ s = work[q].target
                  /\ members'[s].user = members[s].user
      BY <2>1, CommitEffect
    <3>2. s = r  BY <3>1 DEF MInv, TypeOK
    <3>3. work[q].pc = "checked"  BY <2>1 DEF Commit
    <3> QED  BY <3>1, <3>2, <3>3 DEF SessionInv
  <2> QED  BY <2>1, <2>2, CommitOutdates
<1> QED  BY <1>1, <1>2, InitSession, RequestsAskWithinTheirRole, PTL DEF Spec, ChangeEndsSessions

-----------------------------------------------------------------------------
(* One request at a time, nobody types an expiry: nobody is added twice.    *)

\* Of the rows of one person at most one is in use, and a request that passed
\* add_member's check has found that the person has none.
SingleInv ==
    /\ \A r, s \in Rows :
        r # s /\ members[r].user = members[s].user /\ members[r].user # NoUser =>
            members[r].revoked \/ members[s].revoked
    /\ \A q \in Requests :
        work[q].pc = "checked" /\ work[q].seen.user = NoUser =>
            \A r \in Rows : members[r].user = work[q].want.user => members[r].revoked

LEMMA InitSingle == Init => SingleInv
BY UnusedTyped, IdleTyped DEF Init, SingleInv

\* A step that writes no row: only a request that now passes the check matters.
LEMMA QuietSingle ==
    ASSUME SingleInv, members' = members,
           \A p \in Requests :
             work'[p].pc = "checked" /\ work'[p].seen.user = NoUser =>
                \/ work[p].pc = "checked" /\ work'[p] = work[p]
                \/ \A r \in Rows : members[r].user = work'[p].want.user => members[r].revoked
    PROVE  SingleInv'
BY DEF SingleInv

LEMMA SingleAuthorise ==
    ASSUME MInv, SingleInv, NEW q \in Requests, NEW u \in Users, Authorise(q, u)
    PROVE  SingleInv'
<1>1. PICK r \in Unrevoked(u) :
        Set(q, [Idle EXCEPT !.pc = "authorised", !.own = r, !.ownSeen = members[r],
                            !.version = version[u]])
  BY DEF Authorise
<1> DEFINE w == [Idle EXCEPT !.pc = "authorised", !.own = r, !.ownSeen = members[r],
                             !.version = version[u]]
<1>2. w.pc = "authorised"  BY DEF Idle
<1> HIDE DEF w
<1>3. Set(q, w)  BY <1>1 DEF w
<1>4. \A p \in Requests : work'[p] = IF p = q THEN w ELSE work[p]
  BY <1>3 DEF Set, MInv, TypeOK
<1> QED  BY <1>2, <1>4, QuietSingle DEF Authorise

\* The check of add_member: nothing lapses, so every unrevoked row refuses.
LEMMA SingleLoadAdd ==
    ASSUME MInv, SerialInv, SingleInv, NEW q \in Requests, NEW u \in Users, LoadAdd(q, u)
    PROVE  SingleInv'
<1>1. PICK role \in Roles, expires_at \in Expiries :
        Set(q, [work[q] EXCEPT
                !.pc = "checked", !.seen = Unused, !.version = VersionSeen(q, u),
                !.want = [user |-> u, role |-> role, expires_at |-> expires_at,
                          revoked |-> FALSE]])
  BY DEF LoadAdd
<1> DEFINE want == [user |-> u, role |-> role, expires_at |-> expires_at, revoked |-> FALSE]
           w == [work[q] EXCEPT !.pc = "checked", !.seen = Unused,
                                !.version = VersionSeen(q, u), !.want = want]
<1>2. want.user = u  OBVIOUS
<1> HIDE DEF want
<1>3. w.want = want  BY DEF MInv, TypeOK, Work
<1> HIDE DEF w
<1>4. Set(q, w)  BY <1>1 DEF w, want
<1>5. \A p \in Requests : work'[p] = IF p = q THEN w ELSE work[p]
  BY <1>4 DEF Set, MInv, TypeOK
<1>6. ASSUME NEW r \in Rows, members[r].user = u PROVE members[r].revoked
  <2>1. SUFFICES ASSUME ~members[r].revoked PROVE FALSE
    OBVIOUS
  <2>2. r \in Unrevoked(u)  BY <1>6, <2>1 DEF Unrevoked
  <2>3. PICK s \in Unrevoked(u) : ~IsActive(InSession(q, s))
    BY <2>2 DEF LoadAdd, MayAdd
  <2>4. s \in Rows /\ members[s].user = u /\ ~members[s].revoked  BY DEF Unrevoked
  <2>5. InSession(q, s) = members[s]  BY <2>4, SessionIsCurrent DEF LoadAdd
  <2>6. u \in Users /\ u # NoUser  BY UserAssumption
  <2>7. members[s].expires_at = Never /\ now \in 0..MaxTime
    BY <2>4, <2>6 DEF SerialInv, MInv, TypeOK
  <2> QED  BY <2>3, <2>4, <2>5, <2>7, ActiveUnlessRevoked
<1>7. \A r \in Rows : members[r].user = w.want.user => members[r].revoked
  BY <1>2, <1>3, <1>6
<1> QED  BY <1>5, <1>7, QuietSingle DEF LoadAdd

LEMMA SingleLoadTarget ==
    ASSUME MInv, SerialInv, SingleInv, NEW q \in Requests, NEW r \in Rows, NEW want,
           work[q].pc = "authorised", members[r].user # NoUser,
           LoadTarget(q, r, want), members' = members
    PROVE  SingleInv'
<1> DEFINE pc == IF NeedsOwner(members[r], want) THEN "loaded" ELSE "checked"
           w == [work[q] EXCEPT !.pc = pc, !.target = r, !.seen = members[r], !.want = want,
                                !.version = VersionSeen(q, members[r].user)]
<1>1. Set(q, w)  BY SessionIsCurrent DEF LoadTarget
<1> HIDE DEF pc
<1>2. w.seen = members[r]  BY DEF MInv, TypeOK, Work
<1> HIDE DEF w
<1>3. \A p \in Requests : work'[p] = IF p = q THEN w ELSE work[p]
  BY <1>1 DEF Set, MInv, TypeOK
<1> QED  BY <1>2, <1>3, QuietSingle

LEMMA SingleCheckOwners ==
    ASSUME MInv, SerialInv, SingleInv, NEW q \in Requests, CheckOwners(q)
    PROVE  SingleInv'
<1>1. PICK w :
        /\ Set(q, w)
        /\ w = Idle \/ w.seen = work[q].seen
  <2> DEFINE v == IF work[q].want.revoked THEN VersionSeen(q, work[q].want.user)
                  ELSE work[q].version
             w == [work[q] EXCEPT !.pc = "checked", !.version = v]
  <2>1. w.seen = work[q].seen  BY DEF MInv, TypeOK, Work
  <2>2. Set(q, Idle) \/ Set(q, w)  BY DEF CheckOwners
  <2> HIDE DEF w
  <2> QED  BY <2>1, <2>2
<1>2. work[q].seen.user # NoUser  BY DEF CheckOwners, SerialInv
<1>3. \A p \in Requests : work'[p] = IF p = q THEN w ELSE work[p]
  BY <1>1 DEF Set, MInv, TypeOK
<1>4. members' = members  BY DEF CheckOwners
<1> QED  BY <1>1, <1>2, <1>3, <1>4, IdleTyped, QuietSingle

\* The commit: a new row is the only one in use, an edit takes none back.
LEMMA SingleCommit ==
    ASSUME Serial, MInv, SerialInv, SingleInv, NEW q \in Requests, Commit(q)
    PROVE  SingleInv'
<1>1. PICK r \in Rows :
        /\ members' = [members EXCEPT ![r] = members'[r]]
        /\ \/ /\ work[q].seen = Unused /\ members[r] = Unused
              /\ members'[r] = work[q].want
           \/ /\ work[q].seen.user # NoUser
              /\ r = work[q].target /\ members[r].user # NoUser
              /\ members'[r] = WrittenRow(members[r], work[q].seen, work[q].want)
              /\ members'[r].user = members[r].user
  BY CommitEffect
<1>2. work[q].pc = "checked" /\ work[q] \in Work  BY CommitEffect
<1>3. work[q].seen \in MemberRow /\ work[q].want \in MemberRow /\ members[r] \in MemberRow
  BY <1>2 DEF Work, MInv, TypeOK
<1>4. \A s \in Rows : s # r => members'[s] = members[s]
  BY <1>1 DEF MInv, TypeOK
<1>5. \A p \in Requests : work'[p].pc = "idle"
  BY IdleTyped DEF Commit, Set, Serial, MInv, TypeOK
<1>6. CASE work[q].seen = Unused /\ members'[r] = work[q].want
  <2>1. \A s \in Rows : members[s].user = members'[r].user => members[s].revoked
    BY <1>2, <1>6, UnusedTyped DEF SingleInv
  <2> QED  BY <1>4, <1>5, <2>1 DEF SingleInv
<1>7. CASE /\ members'[r] = WrittenRow(members[r], work[q].seen, work[q].want)
           /\ members'[r].user = members[r].user
  <2>1. members[r].revoked => members'[r].revoked  BY <1>3, <1>7, WrittenRowTyped
  <2> QED  BY <1>4, <1>5, <1>7, <2>1 DEF SingleInv
<1> QED  BY <1>1, <1>6, <1>7

LEMMA StepSingle == Serial /\ MInv /\ SerialInv /\ SingleInv /\ [Next]_vars => SingleInv'
<1> SUFFICES ASSUME Serial, MInv, SerialInv, SingleInv, [Next]_vars PROVE SingleInv'
  OBVIOUS
<1>1. ASSUME NEW q \in Requests, NEW r \in Rows, LoadUpdate(q, r) PROVE SingleInv'
  BY <1>1, SingleLoadTarget DEF LoadUpdate
<1>2. ASSUME NEW q \in Requests, NEW r \in Rows, LoadRevoke(q, r) PROVE SingleInv'
  BY <1>2, SingleLoadTarget DEF LoadRevoke
<1>3. ASSUME NEW q \in Requests, Drop(q) PROVE SingleInv'
  <2>1. \A p \in Requests : work'[p] = IF p = q THEN Idle ELSE work[p]
    BY <1>3 DEF Drop, Set, MInv, TypeOK
  <2> QED  BY <1>3, <2>1, IdleTyped, QuietSingle DEF Drop
<1>4. ASSUME NEW q \in Requests, Request(q) PROVE SingleInv'
  BY <1>1, <1>2, <1>3, <1>4, SingleAuthorise, SingleLoadAdd, SingleCheckOwners,
     SingleCommit DEF Request
<1>5. CASE Tick \/ (\E u \in Users : Login(u)) \/ UNCHANGED vars
  BY <1>5, QuietSingle DEF Tick, Login, vars
<1> QED  BY <1>4, <1>5 DEF Next

\* With one request at a time and no expiries nobody ever holds two active
\* memberships: what add_member's look before the insert does achieve, without a
\* constraint in the database.
THEOREM NobodyTwice == ASSUME Serial PROVE Spec => []OneMembershipEach
<1>1. MInv /\ MInv' /\ SerialInv /\ [Next]_vars => SerialInv'  BY StepSerial
<1>2. MInv /\ SerialInv /\ SingleInv /\ [Next]_vars => SingleInv'  BY StepSingle
<1>3. SingleInv => OneMembershipEach  BY DEF SingleInv, OneMembershipEach, IsActive
<1> QED
  BY <1>1, <1>2, <1>3, InitSerial, InitSingle, RequestsAskWithinTheirRole, PTL DEF Spec
=============================================================================
