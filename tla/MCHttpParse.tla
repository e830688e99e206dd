---------------------------- MODULE MCHttpParse ----------------------------
(* Instances of HttpParse for TLC. *)
EXTENDS HttpParse

MCLengths == [len0 |-> 0, len2 |-> 2, len3 |-> 3, minus5 |-> -5, minus20 |-> -20, most |-> 40]

End == <<CR, LF>>

Get(lines)        == <<"get">> \o End \o lines \o End
Post(lines, body) == <<"post">> \o End \o lines \o End \o body

MCWellFormed ==
  { Get(<<>>), Get(<<"other">> \o End), Get(<<"keep">> \o End), Get(<<"keep">> \o End \o <<"other">> \o End),
    <<"get/">> \o End \o End, <<"post/">> \o End \o <<"keep">> \o End \o End,
    Post(<<"len0">> \o End, <<>>),
    Post(<<"len2">> \o End \o <<"keep">> \o End, <<"byte", "byte">>),
    Post(<<"len3">> \o End, <<"byte", CR, LF>>) }

ASSUME MCWellFormedAssumption == \A r \in MCWellFormed : WellFormed(r)

MCBadLines == { <<"other">> \o End \o End, End \o Get(<<>>) }

\* Longer than the buffer of these instances.
MCTooLong == Get(<<"other">> \o End \o <<"other">> \o End \o <<"other">> \o End \o <<"other">> \o End)

MCMalformed == { <<"get", LF, LF>>, Get(<<"other", LF>>), <<"get", CR, "other">> \o End \o End }

\* Bodies shorter and longer than announced, negative lengths, and one whose sum
\* with m_checked_idx is no int.
MCWrongLength ==
  { Post(<<"len3">> \o End, <<"byte", "byte">>), Post(<<"len2">> \o End, <<"byte", "other", "byte", "byte", "byte">>),
    Post(<<"minus5">> \o End, <<"byte">>), Post(<<"keep">> \o End \o <<"minus20">> \o End, <<>>),
    Post(<<"most">> \o End, <<"byte">>) }

MCRequests == MCWellFormed \cup MCBadLines \cup MCMalformed \cup MCWrongLength \cup {MCTooLong}
=============================================================================
