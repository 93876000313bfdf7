--------------------------- MODULE BankAccountsProofs ---------------------------
(***************************************************************************)
(* What holds of BankAccounts for any accounts, IBANs and requests: that   *)
(* the default moves only as asked under every interleaving, and that      *)
(* there is exactly one while requests come one at a time.                 *)
(***************************************************************************)
EXTENDS BankAccounts, FiniteSetTheorems, TLAPS

accountsVars == <<accountVars, edits, overlaps>>

AccountsSpec ==
    AccountsInit /\ edits = 0 /\ overlaps = 0 /\ [][AccountsNext]_accountsVars

\* A request is about an account, and what it wants fits a row; only one that
\* promotes its account writes before it commits.
RequestInv(r) ==
    accountWork[r].pc # "idle" =>
        /\ accountWork[r].id \in Accounts
        /\ accountWork[r].kind # "delete" => accountWork[r].iban \in Ibans
        /\ accountWork[r].kind = "delete" => ~accountWork[r].promote
        /\ accountWork[r].kind = "update" => accountWork[r].seen \in Account
        /\ accountWork[r].pc = "writing" => accountWork[r].promote

RequestsInv == AccountsTypeOK /\ \A r \in Requests : RequestInv(r)

OnlyDefault == \E d \in Present(accounts) : Defaults = {d}

\* Alone, a request still sees what it loaded: the first account becomes the
\* default, the default is deleted only as the last, and the rows the bulk
\* UPDATE found are the other defaults there are.
AloneInv(r) ==
    accountWork[r].pc # "idle" =>
        /\ \A q \in Requests \ {r} : accountWork[q].pc = "idle"
        /\ accountWork[r].kind = "create" =>
             /\ accounts[accountWork[r].id] = None
             /\ accountWork[r].promote \/ Present(accounts) # {}
        /\ accountWork[r].kind # "create" =>
             /\ accounts[accountWork[r].id] # None
             /\ accountWork[r].seen = accounts[accountWork[r].id]
        /\ accountWork[r].kind = "delete" /\ accounts[accountWork[r].id].is_default =>
             Present(accounts) = {accountWork[r].id}
        /\ accountWork[r].pc = "open" => accountWork[r].demoted = {}
        /\ accountWork[r].pc = "writing" =>
             accountWork[r].demoted = Defaults \ {accountWork[r].id}

SerialInv ==
    /\ overlaps \in Nat
    /\ Calm => /\ Present(accounts) # {} => OnlyDefault
               /\ \A r \in Requests : AloneInv(r)

AccountsInv == RequestsInv /\ SerialInv

-----------------------------------------------------------------------------
(* Types.                                                                  *)

LEMMA IdleTyped == IdleAccount \in AccountWork /\ IdleAccount.pc = "idle"
BY DEF IdleAccount, AccountWork

LEMMA RowTyped ==
    ASSUME AccountsTypeOK
    PROVE  /\ Present(accounts) = {id \in Accounts : accounts[id] # None}
           /\ \A id \in Present(accounts) : accounts[id] \in Account
           /\ \A id \in Accounts : id \notin Present(accounts) => accounts[id] = None
           /\ Defaults \subseteq Present(accounts)
BY DEF AccountsTypeOK, Present, Defaults

\* Beginning, for any of the three kinds.
LEMMA LoadsAccountStep ==
    ASSUME RequestsInv, NEW r \in Requests, NEW kind \in {"create", "update", "delete"},
           NEW id \in Accounts, NEW iban \in Ibans \cup {None}, NEW promote \in BOOLEAN,
           LoadsAccount(r, kind, id, iban, promote),
           kind # "delete" => iban \in Ibans, kind = "delete" => ~promote,
           kind = "update" => id \in Present(accounts)
    PROVE  RequestsInv'
<1> DEFINE w == [pc |-> "open", kind |-> kind, id |-> id, seen |-> accounts[id], iban |-> iban,
                 promote |-> promote, demoted |-> {}]
<1>1. accounts[id] \in Account \cup {None}  BY DEF RequestsInv, AccountsTypeOK
<1>2. /\ w \in AccountWork /\ w.pc = "open" /\ w.kind = kind /\ w.id = id
      /\ w.seen = accounts[id] /\ w.iban = iban /\ w.promote = promote
  BY <1>1 DEF AccountWork
<1>3. accountWork' = [accountWork EXCEPT ![r] = w] /\ accounts' = accounts
  BY DEF LoadsAccount
<1> HIDE DEF w
<1>4. AccountsTypeOK'  BY <1>2, <1>3 DEF RequestsInv, AccountsTypeOK
<1>5. \A q \in Requests : accountWork'[q] = IF q = r THEN w ELSE accountWork[q]
  BY <1>3 DEF RequestsInv, AccountsTypeOK
<1>6. kind = "update" => accounts[id] \in Account  BY RowTyped DEF RequestsInv
<1>7. \A q \in Requests : RequestInv(q)'
  BY <1>2, <1>5, <1>6 DEF RequestsInv, RequestInv
<1> QED  BY <1>4, <1>7 DEF RequestsInv

LEMMA SetDefaultStep ==
    ASSUME RequestsInv, NEW r \in Requests, SetDefault(r)
    PROVE  RequestsInv'
<1> DEFINE w == [accountWork[r] EXCEPT !.pc = "writing", !.demoted = Demoted(accountWork[r].id)]
<1>1. Demoted(accountWork[r].id) \in SUBSET Accounts
  BY RowTyped DEF RequestsInv, Demoted
<1>2. /\ accountWork[r] \in AccountWork /\ accountWork[r].pc = "open"
      /\ accountWork[r].promote
  BY DEF SetDefault, RequestsInv, AccountsTypeOK
<1>3. /\ w \in AccountWork /\ w.pc = "writing" /\ w.kind = accountWork[r].kind
      /\ w.id = accountWork[r].id /\ w.seen = accountWork[r].seen
      /\ w.iban = accountWork[r].iban /\ w.promote = accountWork[r].promote
  BY <1>1, <1>2 DEF AccountWork
<1>4. accountWork' = [accountWork EXCEPT ![r] = w] /\ accounts' = accounts
  BY DEF SetDefault, RequestsInv, AccountsTypeOK
<1> HIDE DEF w
<1>5. AccountsTypeOK'  BY <1>3, <1>4 DEF RequestsInv, AccountsTypeOK
<1>6. \A q \in Requests : accountWork'[q] = IF q = r THEN w ELSE accountWork[q]
  BY <1>4 DEF RequestsInv, AccountsTypeOK
<1>7. \A q \in Requests : RequestInv(q)'
  BY <1>2, <1>3, <1>6 DEF RequestsInv, RequestInv
<1> QED  BY <1>5, <1>7 DEF RequestsInv

LEMMA EndStep ==
    ASSUME RequestsInv, NEW r \in Requests,
           accountWork' = [accountWork EXCEPT ![r] = IdleAccount],
           accounts' \in [Accounts -> Account \cup {None}]
    PROVE  RequestsInv'
<1>1. AccountsTypeOK'  BY IdleTyped DEF RequestsInv, AccountsTypeOK
<1>2. \A q \in Requests : accountWork'[q] = IF q = r THEN IdleAccount ELSE accountWork[q]
  BY DEF RequestsInv, AccountsTypeOK
<1>3. \A q \in Requests : RequestInv(q)'
  BY <1>2, IdleTyped DEF RequestsInv, RequestInv
<1> QED  BY <1>1, <1>3 DEF RequestsInv

-----------------------------------------------------------------------------
(* What a commit leaves.                                                   *)

\* The rows, one by one: the request's own, those it demoted, and the rest.
LEMMA CommitRows ==
    ASSUME RequestsInv, NEW r \in Requests, CommitAccount(r)
    PROVE  LET w == accountWork[r] IN
           /\ w \in AccountWork /\ w.id \in Accounts /\ w.pc # "idle"
           /\ w.promote <=> w.pc = "writing"
           /\ accountWork' = [accountWork EXCEPT ![r] = IdleAccount]
           /\ accounts' \in [Accounts -> Account \cup {None}]
           /\ w.kind = "create" =>
                accounts'[w.id] \in Account /\ accounts'[w.id].is_default = w.promote
           /\ w.kind = "update" =>
                /\ accounts[w.id] \in Account /\ accounts'[w.id] \in Account
                /\ accounts'[w.id].is_default =
                     IF w.promote /\ ~w.seen.is_default THEN TRUE ELSE accounts[w.id].is_default
           /\ w.kind = "delete" => accounts'[w.id] = None
           /\ \A id \in Accounts \ {w.id} :
                /\ accounts'[id] = None <=> accounts[id] = None
                /\ accounts[id] # None =>
                     /\ accounts'[id] \in Account
                     /\ accounts'[id].is_default =
                          (accounts[id].is_default /\ id \notin w.demoted)
<1> DEFINE w == accountWork[r]
           created == [iban |-> w.iban, is_default |-> w.promote]
           written == WrittenAccount(w)
           lands == CASE w.kind = "create" -> created
                      [] w.kind = "update" -> written
                      [] w.kind = "delete" -> None
           lowered(id) == [accounts[id] EXCEPT !.is_default = FALSE]
<1>1. /\ w \in AccountWork /\ RequestInv(r)
      /\ w.pc = (IF w.promote THEN "writing" ELSE "open")
      /\ w.kind # "create" => accounts[w.id] # None
      /\ accountWork' = [accountWork EXCEPT ![r] = IdleAccount]
  BY DEF CommitAccount, RequestsInv, AccountsTypeOK
<1>2. /\ w.kind \in {"create", "update", "delete"} /\ w.promote \in BOOLEAN
      /\ w.pc # "idle" /\ w.id \in Accounts
      /\ w.kind # "delete" => w.iban \in Ibans
      /\ w.kind = "update" => w.seen \in Account /\ accounts[w.id] \in Account
  BY <1>1, RowTyped DEF RequestInv, AccountWork, RequestsInv, AccountsTypeOK, Present
<1>3. w.kind = "create" => created \in Account /\ created.is_default = w.promote
  BY <1>2 DEF Account
<1>4. w.kind = "update" =>
        /\ written \in Account
        /\ written.is_default =
             IF w.promote /\ ~w.seen.is_default THEN TRUE ELSE accounts[w.id].is_default
  BY <1>2 DEF WrittenAccount, Account
<1>5. \A id \in Accounts : accounts[id] # None =>
        lowered(id) \in Account /\ lowered(id).is_default = FALSE
  BY DEF RequestsInv, AccountsTypeOK, Account
<1>6. accounts' = [id \in Accounts |->
        IF id = w.id THEN lands
        ELSE IF id \in w.demoted \cap Present(accounts) THEN lowered(id) ELSE accounts[id]]
  BY DEF CommitAccount
<1> HIDE DEF created, written, lowered
<1>7. /\ w.kind = "create" => lands = created
      /\ w.kind = "update" => lands = written
      /\ w.kind = "delete" => lands = None
  BY <1>2
<1> HIDE DEF lands
<1>8. lands \in Account \cup {None}  BY <1>2, <1>3, <1>4, <1>7
<1>9. \A id \in Accounts : accounts[id] \in Account \cup {None}
  BY DEF RequestsInv, AccountsTypeOK
<1>10. \A id \in Accounts :
        accounts'[id] = IF id = w.id THEN lands
                        ELSE IF id \in w.demoted \cap Present(accounts) THEN lowered(id)
                        ELSE accounts[id]
  BY <1>6
<1>11. \A id \in Accounts : id \in Present(accounts) <=> accounts[id] # None
  BY DEF Present, RequestsInv, AccountsTypeOK
<1>12. accounts' \in [Accounts -> Account \cup {None}]
  BY <1>5, <1>6, <1>8, <1>9, <1>11
<1>13. \A id \in Accounts \ {w.id} :
         /\ accounts'[id] = None <=> accounts[id] = None
         /\ accounts[id] # None =>
              /\ accounts'[id] \in Account
              /\ accounts'[id].is_default = (accounts[id].is_default /\ id \notin w.demoted)
  <2> SUFFICES ASSUME NEW id \in Accounts \ {w.id}
               PROVE  /\ accounts'[id] = None <=> accounts[id] = None
                      /\ accounts[id] # None =>
                           /\ accounts'[id] \in Account
                           /\ accounts'[id].is_default =
                                (accounts[id].is_default /\ id \notin w.demoted)
    OBVIOUS
  <2>1. CASE id \in w.demoted \cap Present(accounts)
    BY <1>5, <1>10, <1>11, <2>1, AccountsAssumption
  <2>2. CASE id \notin w.demoted \cap Present(accounts)
    <3>1. accounts'[id] = accounts[id]  BY <1>10, <2>2
    <3>2. accounts[id] # None => accounts[id].is_default \in BOOLEAN  BY <1>9 DEF Account
    <3> QED  BY <1>9, <1>11, <2>2, <3>1, <3>2
  <2> QED  BY <2>1, <2>2
<1> QED  BY <1>1, <1>2, <1>3, <1>4, <1>7, <1>10, <1>12, <1>13

LEMMA RequestsStep ==
    ASSUME RequestsInv, [AccountsNext]_accountsVars
    PROVE  RequestsInv'
<1>1. CASE UNCHANGED accountsVars
  BY <1>1 DEF accountsVars, accountVars, RequestsInv, RequestInv, AccountsTypeOK
<1>2. ASSUME NEW r \in Requests, CreateBankAccount(r) PROVE RequestsInv'
  BY <1>2, LoadsAccountStep DEF CreateBankAccount, BecomesDefault
<1>3. ASSUME NEW r \in Requests, UpdateBankAccount(r) PROVE RequestsInv'
  BY <1>3, LoadsAccountStep, RowTyped DEF UpdateBankAccount, RequestsInv
<1>4. ASSUME NEW r \in Requests, DeleteBankAccount(r) PROVE RequestsInv'
  BY <1>4, LoadsAccountStep, RowTyped DEF DeleteBankAccount, RequestsInv
<1>5. ASSUME NEW r \in Requests, SetDefault(r) PROVE RequestsInv'  BY <1>5, SetDefaultStep
<1>6. ASSUME NEW r \in Requests, CommitAccount(r) PROVE RequestsInv'
  BY <1>6, CommitRows, EndStep
<1>7. ASSUME NEW r \in Requests, RollbackAccount(r) PROVE RequestsInv'
  BY <1>7, EndStep DEF RollbackAccount, RequestsInv, AccountsTypeOK
<1> QED  BY <1>1, <1>2, <1>3, <1>4, <1>5, <1>6, <1>7 DEF AccountsNext

LEMMA RequestsInit == AccountsInit => RequestsInv
BY IdleTyped DEF AccountsInit, RequestsInv, RequestInv, AccountsTypeOK

\* Rows and requests keep their types under every interleaving.
THEOREM AccountsTypeCorrect == AccountsSpec => []AccountsTypeOK
<1>1. RequestsInv => AccountsTypeOK  BY DEF RequestsInv
<1> QED  BY <1>1, RequestsInit, RequestsStep, PTL DEF AccountsSpec

-----------------------------------------------------------------------------
(* The default moves only as asked.                                        *)

\* However requests overlap, an account becomes the default only by a request
\* that set out to make it so.
THEOREM DefaultMovesOnlyAsAsked == AccountsSpec => DefaultOnlyAsAsked
<1>1. ASSUME RequestsInv, [AccountsNext]_accountsVars, NEW id \in Accounts,
             accounts'[id] # None, accounts'[id].is_default, id \notin Defaults
      PROVE  \E r \in Requests : accountWork[r].pc = "writing" /\ accountWork[r].id = id
                                    /\ accountWork[r].promote
  <2>1. accounts[id] # None => ~accounts[id].is_default
    BY <1>1 DEF Defaults, Present, RequestsInv, AccountsTypeOK
  <2>2. PICK r \in Requests : CommitAccount(r)
    BY <1>1, <2>1 DEF AccountsNext, accountsVars, accountVars, CreateBankAccount,
          UpdateBankAccount, DeleteBankAccount, LoadsAccount, SetDefault, RollbackAccount
  <2> DEFINE w == accountWork[r]
  <2>3. /\ w.kind \in {"create", "update", "delete"} /\ w.promote \in BOOLEAN
        /\ w.promote <=> w.pc = "writing"
        /\ w.kind = "create" => accounts'[w.id].is_default = w.promote
        /\ w.kind = "update" =>
             /\ accounts[w.id] \in Account
             /\ accounts'[w.id].is_default =
                  IF w.promote /\ ~w.seen.is_default THEN TRUE ELSE accounts[w.id].is_default
        /\ w.kind = "delete" => accounts'[w.id] = None
    BY <1>1, <2>2, CommitRows DEF AccountWork
  <2>4. CASE id # w.id
    <3>1. /\ accounts'[id] = None <=> accounts[id] = None
          /\ accounts[id] # None =>
               accounts'[id].is_default = (accounts[id].is_default /\ id \notin w.demoted)
      BY <1>1, <2>2, <2>4, CommitRows
    <3> QED  BY <1>1, <2>1, <3>1
  <2>5. CASE id = w.id
    <3>1. w.kind = "update" => accounts[id] # None  BY <2>3, <2>5, AccountsAssumption
    <3>2. w.promote  BY <1>1, <2>1, <2>3, <2>5, <3>1
    <3> QED  BY <2>3, <2>5, <3>2
  <2> QED  BY <2>4, <2>5
<1>2. RequestsInv /\ [AccountsNext]_accountsVars =>
        [\A id \in Accounts :
            (accounts'[id] # None /\ accounts'[id].is_default /\ id \notin Defaults)
              => \E r \in Requests : accountWork[r].pc = "writing" /\ accountWork[r].id = id
                                        /\ accountWork[r].promote]_<<accountVars, edits, overlaps>>
  BY <1>1
<1> QED
  BY <1>2, RequestsInit, RequestsStep, PTL DEF AccountsSpec, DefaultOnlyAsAsked, accountsVars

-----------------------------------------------------------------------------
(* One request at a time: exactly one default.                             *)

LEMMA SerialInit == AccountsInit /\ overlaps = 0 => SerialInv
<1> SUFFICES ASSUME AccountsInit, overlaps = 0 PROVE SerialInv
  OBVIOUS
<1>1. Present(accounts) = {}  BY DEF AccountsInit, Present
<1> QED  BY <1>1, IdleTyped DEF AccountsInit, SerialInv, AloneInv

\* Beginning while nobody else is under way.
LEMMA SerialLoads ==
    ASSUME RequestsInv, SerialInv, NEW r \in Requests,
           NEW kind \in {"create", "update", "delete"}, NEW id \in Accounts, NEW iban, NEW promote,
           LoadsAccount(r, kind, id, iban, promote),
           kind = "create" => accounts[id] = None /\ (promote \/ Present(accounts) # {}),
           kind # "create" => accounts[id] # None,
           kind = "delete" /\ accounts[id].is_default => Present(accounts) = {id}
    PROVE  SerialInv'
<1> DEFINE w == [pc |-> "open", kind |-> kind, id |-> id, seen |-> accounts[id], iban |-> iban,
                 promote |-> promote, demoted |-> {}]
<1>1. /\ w.pc = "open" /\ w.kind = kind /\ w.id = id /\ w.seen = accounts[id]
      /\ w.promote = promote /\ w.demoted = {}
  OBVIOUS
<1>2. /\ accountWork' = [accountWork EXCEPT ![r] = w] /\ accounts' = accounts
      /\ overlaps' \in Nat
      /\ overlaps' = 0 => overlaps = 0 /\ \A q \in Requests : accountWork[q].pc = "idle"
  BY DEF LoadsAccount, Begins, SerialInv
<1> HIDE DEF w
<1>3. \A q \in Requests : accountWork'[q] = IF q = r THEN w ELSE accountWork[q]
  BY <1>2 DEF RequestsInv, AccountsTypeOK
<1>4. (Present(accounts) # {} => OnlyDefault) <=> (Present(accounts) # {} => OnlyDefault)'
  BY <1>2 DEF OnlyDefault, Present, Defaults
<1>5. ASSUME Calm', NEW q \in Requests PROVE AloneInv(q)'
  <2>1. \A p \in Requests : accountWork[p].pc = "idle"  BY <1>2, <1>5 DEF Calm
  <2>2. CASE q # r  BY <1>3, <2>1, <2>2 DEF AloneInv
  <2>3. CASE q = r
    BY <1>1, <1>2, <1>3, <2>1, <2>3 DEF AloneInv, Present
  <2> QED  BY <2>2, <2>3
<1> QED  BY <1>2, <1>4, <1>5 DEF SerialInv, Calm

LEMMA SerialSetDefault ==
    ASSUME RequestsInv, SerialInv, NEW r \in Requests, SetDefault(r)
    PROVE  SerialInv'
<1> DEFINE w == [accountWork[r] EXCEPT !.pc = "writing", !.demoted = Demoted(accountWork[r].id)]
<1>1. accountWork[r] \in AccountWork /\ accountWork[r].pc = "open"
  BY DEF SetDefault, RequestsInv, AccountsTypeOK
<1>2. /\ w.pc = "writing" /\ w.kind = accountWork[r].kind /\ w.id = accountWork[r].id
      /\ w.seen = accountWork[r].seen /\ w.promote = accountWork[r].promote
      /\ w.demoted = Defaults \ {accountWork[r].id}
  BY <1>1 DEF AccountWork, Demoted
<1>3. accountWork' = [accountWork EXCEPT ![r] = w] /\ accounts' = accounts /\ overlaps' = overlaps
  BY DEF SetDefault, RequestsInv, AccountsTypeOK
<1> HIDE DEF w
<1>4. \A q \in Requests : accountWork'[q] = IF q = r THEN w ELSE accountWork[q]
  BY <1>3 DEF RequestsInv, AccountsTypeOK
<1>5. Defaults' = Defaults /\ Present(accounts') = Present(accounts)
  BY <1>3 DEF Defaults
<1>6. ASSUME Calm', NEW q \in Requests PROVE AloneInv(q)'
  <2>1. Calm /\ AloneInv(r) /\ AloneInv(q)  BY <1>3, <1>6 DEF Calm, SerialInv
  <2>2. CASE q # r  BY <1>1, <1>4, <2>1, <2>2 DEF AloneInv
  <2>3. CASE q = r
    BY <1>1, <1>2, <1>3, <1>4, <1>5, <2>1, <2>3 DEF AloneInv
  <2> QED  BY <2>2, <2>3
<1> QED  BY <1>3, <1>5, <1>6 DEF SerialInv, Calm, OnlyDefault

\* A request that ends alone leaves nobody under way.
LEMMA SerialEnds ==
    ASSUME RequestsInv, SerialInv, NEW r \in Requests, accountWork[r].pc # "idle",
           accountWork' = [accountWork EXCEPT ![r] = IdleAccount], overlaps' = overlaps,
           Calm => (Present(accounts) # {} => OnlyDefault)'
    PROVE  SerialInv'
<1>1. \A q \in Requests : accountWork'[q] = IF q = r THEN IdleAccount ELSE accountWork[q]
  BY DEF RequestsInv, AccountsTypeOK
<1>2. Calm => \A q \in Requests : accountWork'[q].pc = "idle"
  BY <1>1, IdleTyped DEF SerialInv, AloneInv
<1> QED  BY <1>2 DEF SerialInv, Calm, AloneInv

\* The commit of a request that was alone: its account is the only default, or
\* the default is where it was, or the last account is gone.
LEMMA SerialCommit ==
    ASSUME RequestsInv, SerialInv, NEW r \in Requests, CommitAccount(r)
    PROVE  SerialInv'
<1> DEFINE w == accountWork[r]
<1>1. /\ w.kind \in {"create", "update", "delete"} /\ w.promote \in BOOLEAN
      /\ w.pc \in {"idle", "open", "writing"}
      /\ w.id \in Accounts /\ w.pc # "idle" /\ (w.promote <=> w.pc = "writing")
      /\ w.kind = "create" => accounts'[w.id] \in Account /\ accounts'[w.id].is_default = w.promote
      /\ w.kind = "update" =>
           /\ accounts[w.id] \in Account /\ accounts'[w.id] \in Account
           /\ accounts'[w.id].is_default =
                IF w.promote /\ ~w.seen.is_default THEN TRUE ELSE accounts[w.id].is_default
      /\ w.kind = "delete" => accounts'[w.id] = None /\ ~w.promote
      /\ accountWork' = [accountWork EXCEPT ![r] = IdleAccount]
      /\ overlaps' = overlaps
  BY CommitRows DEF AccountWork, CommitAccount, RequestsInv, RequestInv
<1>2. \A id \in Accounts \ {w.id} :
        /\ accounts'[id] = None <=> accounts[id] = None
        /\ accounts[id] # None =>
             accounts'[id].is_default = (accounts[id].is_default /\ id \notin w.demoted)
  BY CommitRows
<1>3. DOMAIN accounts = Accounts /\ DOMAIN accounts' = Accounts
  BY CommitRows DEF RequestsInv, AccountsTypeOK
<1>4. /\ \A id : id \in Present(accounts) <=> id \in Accounts /\ accounts[id] # None
      /\ \A id : id \in Present(accounts') <=> id \in Accounts /\ accounts'[id] # None
      /\ \A id : id \in Defaults <=> id \in Present(accounts) /\ accounts[id].is_default
      /\ \A id : id \in Defaults' <=> id \in Present(accounts') /\ accounts'[id].is_default
  BY <1>3 DEF Present, Defaults
<1>5. ASSUME Calm, Present(accounts') # {} PROVE OnlyDefault'
  <2>1. /\ w.kind = "create" => accounts[w.id] = None /\ (w.promote \/ Present(accounts) # {})
        /\ w.kind # "create" => accounts[w.id] # None /\ w.seen = accounts[w.id]
        /\ w.kind = "delete" /\ accounts[w.id].is_default => Present(accounts) = {w.id}
        /\ ~w.promote => w.demoted = {}
        /\ w.promote => w.demoted = Defaults \ {w.id}
        /\ Present(accounts) # {} => \E d \in Present(accounts) : Defaults = {d}
    BY <1>1, <1>5 DEF SerialInv, AloneInv, OnlyDefault
  <2>2. CASE w.promote
    <3>1. w.id \in Present(accounts') /\ accounts'[w.id].is_default
      BY <1>1, <1>4, <2>1, <2>2, AccountsAssumption
    <3>2. \A id \in Accounts \ {w.id} : id \notin Defaults'
      BY <1>2, <1>4, <2>1, <2>2
    <3>3. Defaults' = {w.id}  BY <1>4, <3>1, <3>2
    <3> QED  BY <3>1, <3>3 DEF OnlyDefault
  <2>3. CASE ~w.promote /\ w.kind = "delete" /\ accounts[w.id].is_default
    <3>1. \A id \in Accounts : id \notin Present(accounts')
      BY <1>1, <1>2, <1>4, <2>1, <2>3
    <3> QED  BY <1>4, <1>5, <3>1
  <2>4. CASE ~w.promote /\ ~(w.kind = "delete" /\ accounts[w.id].is_default)
    <3>1. Present(accounts) # {}  BY <1>1, <1>4, <2>1, <2>4
    <3>2. PICK d \in Present(accounts) : Defaults = {d}  BY <2>1, <3>1
    <3>3. \A id \in Accounts : id \in Defaults' <=> id \in Defaults
      <4> SUFFICES ASSUME NEW id \in Accounts PROVE id \in Defaults' <=> id \in Defaults
        OBVIOUS
      <4>1. CASE id # w.id  BY <1>2, <1>4, <2>1, <2>4, <4>1
      <4>2. CASE id = w.id /\ w.kind = "create"  BY <1>1, <1>4, <2>1, <2>4, <4>2
      <4>3. CASE id = w.id /\ w.kind = "update"
        <5>1. accounts'[id].is_default = accounts[id].is_default  BY <1>1, <2>4, <4>3
        <5>2. accounts'[id] # None /\ accounts[id] # None
          BY <1>1, <4>3, AccountsAssumption
        <5> QED  BY <1>4, <5>1, <5>2
      <4>4. CASE id = w.id /\ w.kind = "delete"  BY <1>1, <1>4, <2>4, <4>4
      <4> QED  BY <1>1, <4>1, <4>2, <4>3, <4>4
    <3>4. Defaults' = {d} /\ d \in Present(accounts')  BY <1>4, <3>2, <3>3
    <3> QED  BY <3>4 DEF OnlyDefault
  <2> QED  BY <1>1, <2>2, <2>3, <2>4
<1> QED  BY <1>1, <1>5, SerialEnds

LEMMA SerialStep ==
    ASSUME RequestsInv, SerialInv, [AccountsNext]_accountsVars
    PROVE  SerialInv'
<1>1. CASE UNCHANGED accountsVars
  BY <1>1 DEF accountsVars, accountVars, SerialInv, AloneInv, Calm, OnlyDefault, Defaults
<1>2. ASSUME NEW r \in Requests, CreateBankAccount(r) PROVE SerialInv'
  <2>1. PICK id \in Accounts \ ({accountWork[q].id : q \in Requests} \cup Present(accounts)),
             iban \in Ibans, asked \in BOOLEAN :
          LoadsAccount(r, "create", id, iban, BecomesDefault(asked))
    BY <1>2 DEF CreateBankAccount
  <2>2. accounts[id] = None  BY <2>1, RowTyped DEF RequestsInv
  <2>3. BecomesDefault(asked) \/ Present(accounts) # {}  BY DEF BecomesDefault
  <2> QED  BY <2>1, <2>2, <2>3, SerialLoads
<1>3. ASSUME NEW r \in Requests, UpdateBankAccount(r) PROVE SerialInv'
  BY <1>3, SerialLoads, RowTyped DEF UpdateBankAccount, RequestsInv
<1>4. ASSUME NEW r \in Requests, DeleteBankAccount(r) PROVE SerialInv'
  BY <1>4, SerialLoads, RowTyped DEF DeleteBankAccount, RequestsInv
<1>5. ASSUME NEW r \in Requests, SetDefault(r) PROVE SerialInv'  BY <1>5, SerialSetDefault
<1>6. ASSUME NEW r \in Requests, CommitAccount(r) PROVE SerialInv'  BY <1>6, SerialCommit
<1>7. ASSUME NEW r \in Requests, RollbackAccount(r) PROVE SerialInv'
  <2>1. /\ accountWork[r].pc # "idle" /\ accountWork' = [accountWork EXCEPT ![r] = IdleAccount]
        /\ accounts' = accounts /\ overlaps' = overlaps
    BY <1>7 DEF RollbackAccount
  <2>2. Calm => (Present(accounts) # {} => OnlyDefault)'
    BY <2>1 DEF SerialInv, OnlyDefault, Defaults
  <2> QED  BY <2>1, <2>2, SerialEnds
<1> QED  BY <1>1, <1>2, <1>3, <1>4, <1>5, <1>6, <1>7 DEF AccountsNext

\* While requests come one at a time, a company that has accounts has exactly
\* one default account.
THEOREM ExactlyOneDefault == AccountsSpec => []OneDefault
<1>1. AccountsInit /\ overlaps = 0 => AccountsInv
  BY RequestsInit, SerialInit DEF AccountsInv
<1>2. AccountsInv /\ [AccountsNext]_accountsVars => AccountsInv'
  BY RequestsStep, SerialStep DEF AccountsInv
<1>3. AccountsInv => OneDefault
  BY FS_Singleton DEF AccountsInv, SerialInv, OnlyDefault, OneDefault
<1> QED  BY <1>1, <1>2, <1>3, PTL DEF AccountsSpec
================================================================================
