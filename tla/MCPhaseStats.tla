---------------------------- MODULE MCPhaseStats -----------------------------
(* An instance of PhaseStats for TLC.                                      *)
EXTENDS PhaseStats, TLC

MCLead == <<"[BASELINE]">>
MCIntensities == <<"coarse", "fine">>
MCContainers == {"a", "b"}

Steady == [t \in 1 .. MaxTime |-> 3]
Uneven == [t \in 1 .. MaxTime |-> IF t % 3 = 0 THEN 5 ELSE 2]

At(times, value) == [t \in times |-> value]
Constant(value) == [t \in 1 .. MaxTime |-> value]

Every(m, f) == [x \in {m} |-> f]

(* Two intensities of which one changes, two containers, of which one is   *)
(* sampled rarely, and units of work in some of the flows.                 *)
Busy ==
  Every(Load, Constant(60))
    @@ Every(Metric("intensity", "coarse"), [t \in {1, 6} |-> IF t = 1 THEN 4 ELSE 9])
    @@ Every(Metric("intensity", "fine"), Constant(7))
    @@ Every(Metric("share", "a"), [t \in 1 .. MaxTime |-> 10 + (10 * (t % 3))])
    @@ Every(Metric("share", "b"), At({4, 5, 9}, 17))
    @@ Every(Metric("bytes", "a"), [t \in 1 .. MaxTime |-> t])
    @@ Every(Metric("custom", "a"), [t \in {7, 8, 9} |-> IF t = 8 THEN 0 ELSE 2])

(* Next to nothing happens, and only late intensities are known.           *)
Quiet ==
  Every(Load, At({2, 6}, 1))
    @@ Every(Metric("intensity", "fine"), [t \in {5, 9} |-> t])
    @@ Every(Metric("share", "a"), [t \in 1 .. MaxTime |-> t % 2])
    @@ Every(Metric("share", "b"), At({3, 6, 7}, 0))

World(power, hidden, sci, tracks) ==
  [power |-> power, hidden |-> hidden, sci |-> sci, tracks |-> tracks]
MCWorlds ==
  {World(Uneven, <<FALSE, TRUE>>, {"N", "embodied", "metrics"}, Busy),
   World(Steady, <<FALSE, FALSE>>, {"embodied", "metrics"}, Busy),
   World(Steady, <<TRUE, FALSE>>, {"N"}, Quiet),
   World(Uneven, <<TRUE>>, {}, Quiet)}

MCLosses ==
  {[unread |-> {}, broken |-> {}, cut |-> FALSE],
   [unread |-> {}, broken |-> {}, cut |-> TRUE],
   [unread |-> {Energy}, broken |-> {}, cut |-> FALSE],
   [unread |-> {Load}, broken |-> {Metric("share", "a")}, cut |-> FALSE]}
=============================================================================
