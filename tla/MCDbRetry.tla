----------------------------- MODULE MCDbRetry ------------------------------
(* Small instance of DbRetry: one call of each kind but one, or a copy alone.*)
EXTENDS DbRetry

CONSTANTS insert, update, copy, transaction

MCKind == [c \in Callers |->
  CASE c = insert -> "insert" [] c = update -> "update" [] c = copy -> "copy"
    [] OTHER -> "transaction"]

=============================================================================
