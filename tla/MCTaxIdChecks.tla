--------------------------- MODULE MCTaxIdChecks ---------------------------
(* Values for the constants of TaxIdChecks.                                *)
EXTENDS TaxIdChecks

answer(status, name, match, held, ended) ==
    [status |-> status, name |-> name, match |-> match, held |-> held, ended |-> ended]

\* The registry knows the party; or it knows another name, no match and no
\* registration any more; or it does not answer.
Known == answer("valid", "A", "match", {"gst_registered"}, {})
Turned == answer("valid", "B", "mismatch", {}, {"gst_registered"})
Unavailable == answer("unavailable", "", None, {}, {})

SomeNames == {"", "A", "B"}

SomeAnswers == {Known, Turned, Unavailable}

\* An end of registration, which differs from a confirmation, and no answer.
Ended == answer("invalid", "", None, {}, {"gst_registered"})

FewAnswers == {Ended, Unavailable}
=============================================================================
