----------------------------- MODULE MCWatchlist -----------------------------
(***************************************************************************)
(* Small instances of Watchlist. The items are named after their schedule. *)
(***************************************************************************)
EXTENDS Watchlist

CONSTANTS nightly, weekly, series, gone, branch, cron

(* One by the calendar, one with a series of three runs per commit, and    *)
(* one whose branch was deleted.                                           *)
MixedItems == {nightly, series, gone}
MixedModes ==
  [i \in MixedItems |-> CASE i = nightly -> "daily"
                          [] i = series  -> "commit-variance"
                          [] i = gone    -> "tag"]

WeeklyModes == [i \in {weekly} |-> "weekly"]
BranchModes == [i \in {branch} |-> "commit"]

=============================================================================
