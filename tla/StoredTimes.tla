----------------------------- MODULE StoredTimes -----------------------------
(***************************************************************************)
(* What the drivers' stores do to a time they are given.  Postgres and     *)
(* SQLite keep it ("sql"); a TIMESTAMP column of MySQL ("mysql") is        *)
(* rounded to the nearest second; Redis ("redis") keeps the milliseconds a *)
(* key has left to live.                                                   *)
(***************************************************************************)
EXTENDS Naturals

CONSTANT Resolution \* the ticks of the model's clock in a second

ASSUME ResolutionAssumption == Resolution \in Nat \ {0}

Drivers == {"sql", "mysql", "redis"}

Rounded(t) == ((2 * t + Resolution) \div (2 * Resolution)) * Resolution

(* Faulty: the fraction of a second is cut off. *)
StoredTruncated(driver, t) ==
    IF driver = "mysql" THEN (t \div Resolution) * Resolution ELSE t

Stored(driver, t) == IF driver = "mysql" THEN Rounded(t) ELSE t

(* How much earlier than the time it was given a driver's store may be. *)
Slack(driver) == IF driver = "mysql" THEN Resolution \div 2 ELSE 0

(* An UPDATE counts the rows it matched or, in MySQL, only those whose      *)
(* values it changed.                                                       *)
CountsMatched(driver) == driver # "mysql"
=============================================================================
