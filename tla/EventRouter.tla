----------------------------- MODULE EventRouter -----------------------------
(***************************************************************************)
(* events.Decode: the events one message of the server becomes.  All       *)
(* methods that are decoded into a single event are one method here,       *)
(* "direct"; "other" is a method the router does not know.                 *)
(***************************************************************************)
EXTENDS Integers, Sequences

Methods  == {"social", "member", "control", "direct", "other"}
Messages == [method : Methods, action : 0..6, readable : BOOLEAN]

RawTypes    == {"Social", "Member", "Control", "Direct", "Unknown"}
Convenience == {"Follow", "Share", "Join", "LiveEnded"}

Raw(method) ==
    CASE method = "social"  -> "Social"
      [] method = "member"  -> "Member"
      [] method = "control" -> "Control"
      [] method = "direct"  -> "Direct"

(* decodeSocial, decodeMember and decodeControl read an action.            *)
Derived(m) ==
    CASE m.method = "social" /\ m.action = 1     -> <<"Follow">>
      [] m.method = "social" /\ m.action \in 2..5 -> <<"Share">>
      [] m.method = "member" /\ m.action = 1     -> <<"Join">>
      [] m.method = "control" /\ m.action = 3    -> <<"LiveEnded">>
      [] OTHER                                   -> << >>

(* Slip: the convenience event comes before the raw one.                   *)
DecodeDerivedFirst(m) ==
    IF m.method = "other" \/ ~m.readable THEN <<"Unknown">>
    ELSE Derived(m) \o <<Raw(m.method)>>

(* What cannot be read is passed on as unknown.                            *)
Decode(m) ==
    IF m.method = "other" \/ ~m.readable THEN <<"Unknown">>
    ELSE <<Raw(m.method)>> \o Derived(m)

=============================================================================
