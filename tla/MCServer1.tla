------------------------------ MODULE MCServer1 ------------------------------
EXTENDS Server1

Ask(what, body) == [what |-> what, body |-> body]

\* With pipes of one byte an echoed body of 3 bytes passes and one of 4 jams, and
\* so does a body of 2 for a script that reads nothing.
MCAsks == {Ask("page", 0), Ask("other", 0), Ask("length", 2), Ask("echo", 3),
           Ask("echo", 4), Ask("eof", 0), Ask("deaf", 2)}
=============================================================================
