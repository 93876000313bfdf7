------------------------------ MODULE BankAccounts ------------------------------
(***************************************************************************)
(* One company's bank accounts, one of which is the default: the one a     *)
(* document is paid into.  The company may not lock anything, so what the  *)
(* handlers keep is kept one request at a time only.                       *)
(***************************************************************************)
EXTENDS Overlaps

CONSTANTS
    Accounts,   \* ids of bank accounts
    Ibans       \* IBANs, normalised

VARIABLES
    accounts,      \* the committed rows
    accountWork    \* each request: what it loaded, wants and has seen

accountVars == <<accounts, accountWork>>

Account == [iban: Ibans, is_default: BOOLEAN]

ASSUME AccountsAssumption == None \notin Accounts /\ None \notin Account

\* A request: `promote` is whether it makes the account the default, `demoted`
\* what its bulk UPDATE found to demote.
AccountWork == [pc: {"idle", "open", "writing"}, kind: {"create", "update", "delete"},
                id: Accounts \cup {None}, seen: Account \cup {None}, iban: Ibans \cup {None},
                promote: BOOLEAN, demoted: SUBSET Accounts]

IdleAccount == [pc |-> "idle", kind |-> "update", id |-> None, seen |-> None, iban |-> None,
                promote |-> FALSE, demoted |-> {}]

Defaults == {id \in Present(accounts) : accounts[id].is_default}

\* find_bank_account_with_iban, and the unique constraint behind it.
IbanTaken(iban, id) == \E other \in Present(accounts) \ {id} : accounts[other].iban = iban

-----------------------------------------------------------------------------
(* A request loads and checks.                                             *)

LoadsAccount(r, kind, id, iban, promote) ==
    /\ Begins(accountWork, r)
    /\ accountWork' = [accountWork EXCEPT ![r] =
            [pc |-> "open", kind |-> kind, id |-> id, seen |-> accounts[id], iban |-> iban,
             promote |-> promote, demoted |-> {}]]
    /\ UNCHANGED accounts

\* Mutant: the first account is not the default unless it asks to be.
BecomesDefault_Asked(asked) == asked

\* The first account is the default whether it asked to be or not.
BecomesDefault(asked) == asked \/ Present(accounts) = {}

CreateBankAccount(r) ==
    \E id \in Accounts \ ({accountWork[q].id : q \in Requests} \cup Present(accounts)),
       iban \in Ibans, asked \in BOOLEAN :
        /\ ~IbanTaken(iban, id)
        /\ LoadsAccount(r, "create", id, iban, BecomesDefault(asked))

\* is_default false is refused for the default and means nothing elsewhere.
UpdateBankAccount(r) ==
    \E id \in Present(accounts), iban \in Ibans, promote \in BOOLEAN :
        /\ ~IbanTaken(iban, id)
        /\ promote \/ iban # accounts[id].iban
        /\ LoadsAccount(r, "update", id, iban, promote)

\* The default goes only when it is the last one.
DeleteBankAccount(r) ==
    \E id \in Present(accounts) :
        /\ accounts[id].is_default => Present(accounts) = {id}
        /\ LoadsAccount(r, "delete", id, None, FALSE)

-----------------------------------------------------------------------------
(* It writes and commits.                                                  *)

\* set_default_bank_account: one UPDATE over the others that are the default.
Demoted(id) == Defaults \ {id}

\* The UPDATE finds its rows.  A row that another transaction is writing is
\* waited for and looked at again; a row that becomes the default meanwhile is
\* not among them.
SetDefault(r) ==
    /\ accountWork[r].pc = "open" /\ accountWork[r].promote
    /\ accountWork' = [accountWork EXCEPT ![r].pc = "writing",
                                          ![r].demoted = Demoted(accountWork[r].id)]
    /\ UNCHANGED <<accounts, edits, overlaps>>

\* Mutant: the columns as the request knows them, flag and all.
WrittenAccount_WholeRow(w) == [iban |-> w.iban, is_default |-> w.promote \/ w.seen.is_default]

\* The flag is written only over a row that was loaded without it.
WrittenAccount(w) ==
    [iban |-> IF w.iban # w.seen.iban THEN w.iban ELSE accounts[w.id].iban,
     is_default |-> IF w.promote /\ ~w.seen.is_default THEN TRUE ELSE accounts[w.id].is_default]

\* An account gone meanwhile, or an IBAN taken, fails the request.
CommitAccount(r) ==
    LET w == accountWork[r]
    IN /\ w.pc = (IF w.promote THEN "writing" ELSE "open")
       /\ w.kind # "create" => accounts[w.id] # None
       /\ w.kind # "delete" => ~IbanTaken(w.iban, w.id)
       /\ accounts' = [id \in Accounts |->
             IF id = w.id
             THEN CASE w.kind = "create" -> [iban |-> w.iban, is_default |-> w.promote]
                    [] w.kind = "update" -> WrittenAccount(w)
                    [] w.kind = "delete" -> None
             ELSE IF id \in w.demoted \cap Present(accounts)
             THEN [accounts[id] EXCEPT !.is_default = FALSE] ELSE accounts[id]]
       /\ accountWork' = [accountWork EXCEPT ![r] = IdleAccount]
       /\ UNCHANGED <<edits, overlaps>>

RollbackAccount(r) ==
    /\ accountWork[r].pc # "idle"
    /\ accountWork' = [accountWork EXCEPT ![r] = IdleAccount]
    /\ UNCHANGED <<accounts, edits, overlaps>>

AccountsInit ==
    /\ accounts = [id \in Accounts |-> None]
    /\ accountWork = [r \in Requests |-> IdleAccount]

AccountsNext ==
    \E r \in Requests :
        \/ CreateBankAccount(r) \/ UpdateBankAccount(r) \/ DeleteBankAccount(r)
        \/ SetDefault(r) \/ CommitAccount(r) \/ RollbackAccount(r)

-----------------------------------------------------------------------------
(* Properties.                                                             *)

AccountsTypeOK ==
    /\ accounts \in [Accounts -> Account \cup {None}]
    /\ accountWork \in [Requests -> AccountWork]

\* While requests come one at a time, a company that has accounts has exactly
\* one default: with none the next invoice names no account, with two it is
\* anybody's guess (create_bank_account, set_default_bank_account).
OneDefault == Calm /\ Present(accounts) # {} => Cardinality(Defaults) = 1

\* However requests overlap, money is led to an account only because somebody
\* promoted it or it was the first: saving an old form over a row that was
\* demoted meanwhile does not give the flag back.
DefaultOnlyAsAsked ==
    [][\A id \in Accounts :
          (accounts'[id] # None /\ accounts'[id].is_default /\ id \notin Defaults)
              => \E r \in Requests : accountWork[r].pc = "writing" /\ accountWork[r].id = id
                                        /\ accountWork[r].promote]_<<accountVars, edits, overlaps>>
=============================================================================
