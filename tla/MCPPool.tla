------------------------------ MODULE MCPPool ------------------------------
(***************************************************************************)
(* Instance of PPool for TLC.                                              *)
(***************************************************************************)
EXTENDS PPool, TLC

CONSTANTS c1, c2

\* pool_max_num = 0 is refused; one and two workers.
MCPoolSizes == {0, 1, 2}

\* -1 is refused; two priorities make both orders and ties happen.
MCPriorities == {-1, 0, 1}

\* The clients run the same code.
ClientSymmetry == Permutations(Clients)

=============================================================================
