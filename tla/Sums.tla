-------------------------------- MODULE Sums --------------------------------
(***************************************************************************)
(* Amounts that are added up: of memory, of time, of energy, of carbon.    *)
(***************************************************************************)
EXTENDS Integers, FiniteSets, Folds

(* The sum of f over the members of S.                                     *)
Sum(f, S) ==
  MapThenFoldSet(LAMBDA x, y : x + y, 0, LAMBDA s : f[s],
                 LAMBDA T : CHOOSE t \in T : TRUE, S)

=============================================================================
