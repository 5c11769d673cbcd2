--------------------------- MODULE MCHomeConnect ---------------------------
EXTENDS HomeConnect

\* 85 % of the ports is the limit: below it, and at it.
MCPortUsages == {<<84, 100>>, <<85, 100>>}
MCMaxFlow == [sent |-> 2, received |-> 1]
MCMaxCounter == [sent |-> 2, received |-> 1]

=============================================================================
