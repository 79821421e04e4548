----------------------------- MODULE EventStream -----------------------------
(***************************************************************************)
(* What the channel returned by Client.Connect promises its reader,        *)
(* whatever happens on the network: Connected first, then stream events    *)
(* and numbered Reconnecting notices, Disconnected last, then close.       *)
(* Stream events may be dropped.  A lifecycle event may be dropped only    *)
(* when the context is cancelled and the buffer is full.  This is the      *)
(* abstract specification that Supervisor implements.                      *)
(***************************************************************************)
EXTENDS EventChannel, ReconnectPolicy

VARIABLES
    status,     \* "unopened", "open", "ended" (last event decided), "closed"
    buf,        \* what the channel holds
    seen,       \* type of the last event the reader took, "none" before
    retryNo,    \* number of the last Reconnecting put in the channel
    cancelled   \* the caller's context is done

vars == <<status, buf, seen, retryNo, cancelled>>

TypeOK ==
    /\ status \in {"unopened", "open", "ended", "closed"}
    /\ buf \in Seq(Events)
    /\ Len(buf) <= Cap
    /\ seen \in EventTypes \cup {"none"}
    /\ retryNo \in Nat
    /\ cancelled \in BOOLEAN

Room == Len(buf) < Cap

Init ==
    /\ status = "unopened"
    /\ buf = << >>
    /\ seen = "none"
    /\ retryNo = 0
    /\ cancelled \in BOOLEAN

Open ==
    /\ status = "unopened"
    /\ status' = "open"
    /\ buf' = <<Event("Connected")>>
    /\ UNCHANGED <<seen, retryNo, cancelled>>

PostData ==
    /\ status = "open" /\ Room
    /\ buf' = Append(buf, Event("Data"))
    /\ UNCHANGED <<status, seen, retryNo, cancelled>>

(* A notice continues the count or restarts it at 1, and announces a pause *)
(* neither shorter than the blocked delay nor longer than the backoff cap. *)
PostReconnecting ==
    /\ status = "open" /\ Room
    /\ \E n \in {1, retryNo + 1}, d \in DeviceBlockedDelay..MaxBackoff :
          /\ n <= MaxRetries
          /\ buf' = Append(buf, Reconnecting(n, d))
          /\ retryNo' = n
    /\ UNCHANGED <<status, seen, cancelled>>

End ==
    /\ status = "open"
    /\ status' = "ended"
    /\ \/ Room /\ buf' = Append(buf, Event("Disconnected"))
       \/ cancelled /\ ~Room /\ UNCHANGED buf
    /\ UNCHANGED <<seen, retryNo, cancelled>>

Close ==
    /\ status = "ended"
    /\ status' = "closed"
    /\ UNCHANGED <<buf, seen, retryNo, cancelled>>

Receive ==
    /\ buf # << >>
    /\ buf' = Tail(buf)
    /\ seen' = Head(buf).type
    /\ UNCHANGED <<status, retryNo, cancelled>>

Cancel ==
    /\ ~cancelled
    /\ cancelled' = TRUE
    /\ UNCHANGED <<status, buf, seen, retryNo>>

Next ==
    \/ Open \/ PostData \/ PostReconnecting \/ End \/ Close
    \/ Receive \/ Cancel

SafeSpec == Init /\ [][Next]_vars

(* Once cancelled, the stream is closed without the reader's help.         *)
Spec == SafeSpec /\ WF_vars(cancelled /\ (End \/ Close))

-----------------------------------------------------------------------------
(* The reader sees Connected first and once.                               *)
ConnectedFirst ==
    /\ status = "unopened" <=> seen = "none" /\ buf = << >>
    /\ seen = "none" /\ buf # << >> => buf[1].type = "Connected"
    /\ \A i \in 1..Len(buf) :
          buf[i].type = "Connected" => i = 1 /\ seen = "none"

(* The reader sees Disconnected last and once.                             *)
DisconnectedLast ==
    /\ \A i \in 1..Len(buf) :
          buf[i].type = "Disconnected" =>
             i = Len(buf) /\ status \in {"ended", "closed"}
    /\ seen = "Disconnected" => buf = << >> /\ status \in {"ended", "closed"}

StreamWellFormed == ConnectedFirst /\ DisconnectedLast

=============================================================================
