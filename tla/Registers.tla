------------------------------- MODULE Registers -------------------------------
(***************************************************************************)
(* Asking a register about a tax identifier: VIES for an EU VAT ID, the    *)
(* Australian register for an ABN, nobody for anything else.  Both answer  *)
(* their own failures with a readable 200, and neither failure may become  *)
(* a verdict about the number.  Names, addresses and the consultation      *)
(* reference are left out.                                                 *)
(***************************************************************************)
EXTENDS Naturals, Sequences

CONSTANTS
    None,
    HasGuid      \* has the operator configured the Australian register?

\* What comes back from one HTTP exchange, for both registers.  `failed`: an
\* error wrapped in the reply; `message`: the Australian register's words;
\* `valid`: the verdict of VIES, or whether the ABN's record is active.
Replies == [ok: BOOLEAN, readable: BOOLEAN, failed: BOOLEAN,
            message: {"guid", "no record", "busy", None}, valid: BOOLEAN \cup {None}]

\* One try and one retry; None is a transport that failed.
Exchanges == [1..2 -> Replies \cup {None}]

Answered(status, provider, reply) == [status |-> status, provider |-> provider, response |-> reply]

\* _interpret, in its order: not a 200, not readable, an error, no verdict.
ViesVerdict(reply) ==
    IF reply = None \/ ~reply.ok \/ ~reply.readable \/ reply.failed \/ reply.valid = None
    THEN "unavailable"
    ELSE IF reply.valid THEN "valid" ELSE "invalid"

\* A message without a record is a refused credential, no such number, or
\* nothing; a record that is not active is a verdict too.
AbnVerdict(reply) ==
    IF reply = None \/ ~reply.ok \/ ~reply.readable THEN "unavailable"
    ELSE IF reply.valid = None
         THEN CASE reply.message = "guid" -> "not_configured"
                [] reply.message = "no record" -> "invalid"
                [] OTHER -> "unavailable"
    ELSE IF reply.valid THEN "valid" ELSE "invalid"

\* The first exchange that is not `unavailable`, else the second.  A transport
\* that failed on the last try leaves no reply behind.
AfterRetry(provider, exchanges, verdicts) ==
    LET n == IF verdicts[1] # "unavailable" THEN 1 ELSE 2
    IN Answered(verdicts[n], provider, exchanges[n])

CheckVat(exchanges) ==
    AfterRetry("vies", exchanges, [n \in 1..2 |-> ViesVerdict(exchanges[n])])

CheckAbn(exchanges) ==
    IF HasGuid THEN AfterRetry("abn", exchanges, [n \in 1..2 |-> AbnVerdict(exchanges[n])])
    ELSE Answered("not_configured", "abn", None)

\* verify: the first provider that supports the kind and country.
Verify(kind, covered, exchanges) ==
    CASE kind = "vat" /\ covered -> CheckVat(exchanges)
      [] kind = "abn" -> CheckAbn(exchanges)
      [] OTHER -> Answered("not_checkable", "none", None)
=============================================================================
