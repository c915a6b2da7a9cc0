------------------------------ MODULE MCAccounts ------------------------------
\* Two calls at once, of one address; a counter admits two calls.
EXTENDS Accounts, TLC

CONSTANTS c1, c2

CallSymmetry == Permutations(Calls)

=============================================================================
