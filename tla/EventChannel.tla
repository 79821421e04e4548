---------------------------- MODULE EventChannel ----------------------------
(***************************************************************************)
(* The event channel as its writers and its reader share it: its capacity, *)
(* the client's retry limit that its notices mention, and the events.      *)
(***************************************************************************)
EXTENDS Integers, Sequences

CONSTANTS Cap,          \* capacity of the channel (256 in the code)
          MaxRetries    \* the Client's retry limit

ASSUME CapAssumption        == Cap \in Nat \ {0}
ASSUME MaxRetriesAssumption == MaxRetries \in Int

EventTypes == {"Connected", "Data", "Reconnecting", "Disconnected"}

(* attempt and delay are the numbers a Reconnecting notice carries.        *)
Events == [type : EventTypes, attempt : Nat, delay : Nat]

Event(t)           == [type |-> t, attempt |-> 0, delay |-> 0]
Reconnecting(n, d) == [type |-> "Reconnecting", attempt |-> n, delay |-> d]

=============================================================================
