----------------------------- MODULE MCAccounts -----------------------------
(* Small instance of Accounts: two requests, and two jobs on one machine.   *)
EXTENDS Accounts, TLC

CONSTANT m1

MCMachineOf == [j \in Jobs |-> m1]

(* Requests, jobs and values are interchangeable among themselves.          *)
MCSymmetry == Permutations(Requests) \cup Permutations(Jobs) \cup Permutations(Values)

=============================================================================
