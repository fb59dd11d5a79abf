----------------------------- MODULE MCStoreLock -----------------------------
EXTENDS StoreLock, TLC

CONSTANTS c1, c2, c3, p1, p2, p3

\* Three commands, each in a process of its own.
OwnProcess == (c1 :> p1) @@ (c2 :> p2) @@ (c3 :> p3)

\* Two commands served by one MCP server, and a third at the terminal.
SharedProcess == (c1 :> p1) @@ (c2 :> p1) @@ (c3 :> p2)

\* With a process each, the callers differ in nothing but their names.
Renaming ==
    { [x \in {c1, c2, c3} |-> f[x]] @@ [x \in {p1, p2, p3} |->
            OwnProcess[f[CHOOSE c \in {c1, c2, c3} : OwnProcess[c] = x]]]
      : f \in Permutations({c1, c2, c3}) }
==============================================================================
