----------------------------- MODULE MCCarbonDb -----------------------------
(***************************************************************************)
(* Small instance of CarbonDb: a measurement of a pipeline, of a desktop   *)
(* or of a run alone, or two of the same user, which may share a day. What *)
(* is sent along is what the two behaviours of a client are: everything,   *)
(* or nothing, or all but the carbon.                                      *)
(***************************************************************************)
EXTENDS CarbonDb

CONSTANTS m1, m2, p1, p2

Pair(k1, k2) == [m \in Measurements |-> IF m = m1 THEN k1 ELSE k2]
MCLoads == {Pair("eco", "none"), Pair("hog", "none"), Pair("run", "none"),
            Pair("custom", "custom")}

Form(g, i, c) == [geo |-> g, intensity |-> i, carbon |-> c]
MCForms == [k \in Kinds |->
  CASE k = "eco" -> {Form(FALSE, FALSE, FALSE), Form(TRUE, TRUE, FALSE)}
    [] k = "hog" -> {Form(FALSE, FALSE, FALSE), Form(FALSE, TRUE, TRUE)}
    [] OTHER     -> {Form(FALSE, FALSE, FALSE), Form(FALSE, TRUE, FALSE)}]
MCGroup == [m \in Measurements |-> "user"]
MCPlace == Pair(p1, p2)

=============================================================================
