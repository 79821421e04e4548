--------------------------- MODULE ReconnectPolicy ---------------------------
(***************************************************************************)
(* The decisions of reconnect.go that involve no channel and no goroutine: *)
(* what the end of an attempt means (judge), what it costs                 *)
(* (reconnectBudget.record) and how long to wait (backoff).  Durations are *)
(* whole seconds.                                                          *)
(***************************************************************************)
EXTENDS Integers

HealthySession     == 30
DeviceBlockedDelay == 2
MaxBackoff         == 30

Exits == {"Closed", "DeviceBlocked", "Errored", "NoTTWID"}
Ends  == {"Healthy", "Failed", "Blocked"}

-----------------------------------------------------------------------------
(* A definition whose comment calls it a slip is the next definition with  *)
(* a plausible bug in it; the mutation runs put it in the place of the     *)
(* real one and look for the property that notices.                        *)

(* Slip: a blocked device keeps its ttwid and user agent.                  *)
JudgeNeverRotatesBlocked(exit, lived) ==
    LET end == IF lived >= HealthySession THEN "Healthy" ELSE "Failed" IN
    [end    |-> IF exit = "DeviceBlocked" THEN "Blocked" ELSE end,
     rotate |-> exit = "NoTTWID" \/ (exit = "Errored" /\ end = "Failed")]

(* judge: an attempt that lasted HealthySession is healthy however it      *)
(* ended, except that a blocked device is blocked.  rotate tells the loop  *)
(* to drop the ttwid and the user agent.                                   *)
Judge(exit, lived) ==
    LET end == IF lived >= HealthySession THEN "Healthy" ELSE "Failed" IN
    CASE exit = "DeviceBlocked" -> [end |-> "Blocked", rotate |-> TRUE]
      [] exit = "NoTTWID"       -> [end |-> "Failed",  rotate |-> TRUE]
      [] exit = "Errored"       -> [end |-> end, rotate |-> end = "Failed"]
      [] exit = "Closed"        -> [end |-> end, rotate |-> FALSE]

-----------------------------------------------------------------------------
(* Slip: a healthy end does not count itself as the attempt to repeat.     *)
NextAttemptResetsToZero(end, attempt) ==
    IF end = "Healthy" THEN 0 ELSE attempt + 1

(* Slip: a blocked attempt is not charged.                                 *)
NextAttemptResetsOnBlocked(end, attempt) ==
    IF end # "Failed" THEN 1 ELSE attempt + 1

(* The three results of record: the attempt number, whether it exceeds the *)
(* budget, and the pause before the next attempt.                          *)
NextAttempt(end, attempt) == IF end = "Healthy" THEN 1 ELSE attempt + 1

GivesUp(attempt, maxRetries) == attempt > maxRetries

Backoff(attempt) == IF attempt >= 5 THEN MaxBackoff ELSE 2 ^ attempt

Delay(end, attempt) ==
    IF end = "Blocked" THEN DeviceBlockedDelay ELSE Backoff(attempt)

=============================================================================
