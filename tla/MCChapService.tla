--------------------------- MODULE MCChapService ---------------------------
\* Small instances of ChapService for TLC.
EXTENDS ChapService, TLC

CONSTANTS c1, c2, c3,   \* requests
          u1, u2,       \* userids
          p1, p2        \* passwords

MCClients == {c1, c2, c3}
MCTwoClients == {c1, c2}

\* The userid "none", as u2 is, is read back as if nothing was set; other values
\* are read back as they are stored.
WithNone == [v \in Values |-> IF v = u2 THEN None ELSE v]

\* Of a userid with a "=", as u2 is, the part after it is all that is read
\* back; other values are read back as they are stored.
WithEquals == [v \in Values |-> IF v = u2 THEN u1 ELSE v]

Symmetric == Permutations(Clients) \union Permutations(Passwords)
=============================================================================
