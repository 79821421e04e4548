------------------------------ MODULE Supervisor ------------------------------
(***************************************************************************)
(* Client.Connect and the goroutine it starts: supervise, reconnectLoop    *)
(* and emitLifecycle, together with the caller's context and the reader of *)
(* the event channel.  A WebSocket session is seen from outside: it posts  *)
(* stream events without blocking and ends with a sessionExit.             *)
(*                                                                         *)
(* pc follows the goroutine: "connect" and "failed" are the caller inside  *)
(* Connect, "loop" the loop condition, "fresh" freshSession, "run" the     *)
(* WebSocket session, "ended" the code after it, "emit" and "tryEmit" the  *)
(* two selects of emitLifecycle, "sleep" sleepCtx, "close" and "done" the  *)
(* deferred close before and after it has run.                             *)
(***************************************************************************)
EXTENDS EventChannel, ReconnectPolicy

CONSTANT Lifetimes      \* how long, in seconds, an attempt may last

ASSUME LifetimesAssumption == Lifetimes \subseteq Nat /\ Lifetimes # {}

VARIABLES
    pc, ctxDone,
    held,       \* the loop holds a ttwid and a user agent
    attempt,    \* reconnectBudget.attempt
    outcome,    \* how the last attempt ended: [exit, lived]
    pending,    \* the event emitLifecycle was last called with
    buf, closed,
    seen,       \* type of the last event the reader took
    retryNo     \* number of the last Reconnecting put in the channel

(* History, which no guard reads; counts stop at CountBound.               *)
VARIABLES
    fails,      \* unhealthy ends since the start or the last healthy end
    healed,     \* some attempt has ended healthy
    dead,       \* attempts in a row that never got a connection
    uses,       \* sessions run with the held credentials, counted up to 2
    flagged     \* the held credentials were blocked or died young

chan    == <<buf, closed, seen, retryNo>>
history == <<fails, healed, dead, uses, flagged>>
vars    == <<pc, ctxDone, held, attempt, outcome, pending, chan, history>>

CountBound == IF MaxRetries > 0 THEN MaxRetries + 2 ELSE 2

OneMore(n) == IF n < CountBound THEN n + 1 ELSE n

PCs == {"connect", "failed", "loop", "fresh", "run", "ended", "emit",
        "tryEmit", "sleep", "close", "done"}

(* Slip: one event too many.                                               *)
RoomForOneMore == Len(buf) <= Cap

Room == Len(buf) < Cap

-----------------------------------------------------------------------------
Init ==
    /\ pc = "connect"
    /\ ctxDone \in BOOLEAN
    /\ held = FALSE
    /\ attempt = 0
    /\ outcome = [exit |-> "NoTTWID", lived |-> 0]
    /\ pending = Event("Connected")
    /\ buf = << >> /\ closed = FALSE /\ seen = "none" /\ retryNo = 0
    /\ fails = 0 /\ healed = FALSE /\ dead = 0 /\ uses = 0 /\ flagged = FALSE

(* Connect returns an error before it makes a channel: nothing is retried. *)
(* What CheckOnline makes of which reply is RoomLookup's; LiveClient joins *)
(* the two.                                                                *)
CheckOnlineFails ==
    /\ pc = "connect"
    /\ pc' = "failed"
    /\ UNCHANGED <<ctxDone, held, attempt, outcome, pending, chan, history>>

Connect ==
    /\ pc = "connect"
    /\ pc' = "loop"
    /\ buf' = <<Event("Connected")>>
    /\ UNCHANGED <<ctxDone, held, attempt, outcome, pending, closed, seen,
                   retryNo, history>>

(* supervise calls emitLifecycle(Disconnected) once the loop returns.      *)
EndLoop ==
    /\ pc' = "emit"
    /\ pending' = Event("Disconnected")

(* Slip: the loop does not look at the context.                            *)
LoopTopForgetsCtx ==
    /\ pc = "loop"
    /\ pc' = IF held THEN "run" ELSE "fresh"
    /\ UNCHANGED <<ctxDone, held, attempt, outcome, pending, chan, history>>

LoopTop ==
    /\ pc = "loop"
    /\ \/ ctxDone /\ EndLoop
       \/ ~ctxDone /\ ~held /\ pc' = "fresh" /\ UNCHANGED pending
       \/ ~ctxDone /\ held /\ pc' = "run" /\ UNCHANGED pending
    /\ UNCHANGED <<ctxDone, held, attempt, outcome, chan, history>>

FreshSession ==
    /\ pc = "fresh"
    /\ \/ /\ pc' = "run"
          /\ held' = TRUE
          /\ uses' = 0 /\ flagged' = FALSE
          /\ UNCHANGED <<outcome, dead>>
       \/ /\ pc' = "ended"
          /\ outcome' = [exit |-> "NoTTWID", lived |-> 0]
          /\ dead' = OneMore(dead)
          /\ UNCHANGED <<held, uses, flagged>>
    /\ UNCHANGED <<ctxDone, attempt, pending, chan, fails, healed>>

(* processFrame posts a stream event if the channel has room and drops it  *)
(* otherwise.                                                              *)
SessionEvent ==
    /\ pc = "run" /\ Room
    /\ buf' = Append(buf, Event("Data"))
    /\ UNCHANGED <<pc, ctxDone, held, attempt, outcome, pending, closed, seen,
                   retryNo, history>>

(* deps.run returns.  The time lived counts from before the dial, so an    *)
(* attempt may be long without a connection; a device is blocked only in   *)
(* the handshake, and a session closes cleanly only once it was open.      *)
EndSession ==
    /\ pc = "run"
    /\ pc' = "ended"
    /\ \E exit \in Exits \ {"NoTTWID"}, lived \in Lifetimes,
          connected \in BOOLEAN :
          /\ exit = "DeviceBlocked" => ~connected
          /\ exit = "Closed" => connected
          /\ outcome' = [exit |-> exit, lived |-> lived]
          /\ flagged' = \/ exit = "DeviceBlocked"
                        \/ exit = "Errored" /\ lived < 30
          /\ dead' = IF connected THEN 0 ELSE OneMore(dead)
    /\ uses' = IF uses < 2 THEN uses + 1 ELSE uses
    /\ UNCHANGED <<ctxDone, held, attempt, pending, chan, fails, healed>>

-----------------------------------------------------------------------------
(* After the session: leave if the context is done, else judge the attempt *)
(* and charge the budget, then give up or announce the next attempt.       *)
Settle ==
    /\ pc = "ended"
    /\ \/ ctxDone /\ EndLoop /\ UNCHANGED <<held, attempt, fails, healed>>
       \/ LET j == Judge(outcome.exit, outcome.lived)
              n == NextAttempt(j.end, attempt) IN
          /\ ~ctxDone
          /\ held' = (held /\ ~j.rotate)
          /\ attempt' = n
          /\ fails'  = IF j.end = "Healthy" THEN 0 ELSE OneMore(fails)
          /\ healed' = (healed \/ j.end = "Healthy")
          /\ \/ GivesUp(n, MaxRetries) /\ EndLoop
             \/ /\ ~GivesUp(n, MaxRetries)
                /\ pc' = "emit"
                /\ pending' = Reconnecting(n, Delay(j.end, n))
    /\ UNCHANGED <<ctxDone, outcome, chan, dead, uses, flagged>>

(* Slip: after the last event the loop goes on.                            *)
AfterEmitAlwaysRetries == "sleep"

(* Where emitLifecycle returns to.                                         *)
AfterEmit == IF pending.type = "Disconnected" THEN "close" ELSE "sleep"

Post ==
    /\ buf' = Append(buf, pending)
    /\ retryNo' = IF pending.type = "Reconnecting" THEN pending.attempt
                  ELSE retryNo
    /\ UNCHANGED <<closed, seen>>

(* Slip: the first send does not wait for the reader.                      *)
EmitSendDropsWhenFull ==
    /\ pc = "emit"
    /\ IF Room THEN Post ELSE UNCHANGED chan
    /\ pc' = AfterEmit
    /\ UNCHANGED <<ctxDone, held, attempt, outcome, pending, history>>

(* First select of emitLifecycle: whichever is ready, the room or the done *)
(* context; Go picks either when both are.                                 *)
EmitSend ==
    /\ pc = "emit" /\ Room
    /\ Post
    /\ pc' = AfterEmit
    /\ UNCHANGED <<ctxDone, held, attempt, outcome, pending, history>>

(* Slip: the first send waits for the reader even after a cancel.          *)
EmitCancelledNever ==
    /\ pc = "emit" /\ ctxDone /\ Room
    /\ pc' = "tryEmit"
    /\ UNCHANGED <<ctxDone, held, attempt, outcome, pending, chan, history>>

EmitCancelled ==
    /\ pc = "emit" /\ ctxDone
    /\ pc' = "tryEmit"
    /\ UNCHANGED <<ctxDone, held, attempt, outcome, pending, chan, history>>

(* Slip: a done context loses the event even when there is room.           *)
TryEmitGivesUp ==
    /\ pc = "tryEmit"
    /\ pc' = AfterEmit
    /\ UNCHANGED chan
    /\ UNCHANGED <<ctxDone, held, attempt, outcome, pending, history>>

(* Second select: send if there is room, never wait.                       *)
TryEmit ==
    /\ pc = "tryEmit"
    /\ IF Room THEN Post ELSE UNCHANGED chan
    /\ pc' = AfterEmit
    /\ UNCHANGED <<ctxDone, held, attempt, outcome, pending, history>>

(* The timer fires, or the context is done: with both ready, either.       *)
Sleep ==
    /\ pc = "sleep"
    /\ \/ pc' = "loop" /\ UNCHANGED pending
       \/ ctxDone /\ EndLoop
    /\ UNCHANGED <<ctxDone, held, attempt, outcome, chan, history>>

Close ==
    /\ pc = "close"
    /\ pc' = "done"
    /\ closed' = TRUE
    /\ UNCHANGED <<ctxDone, held, attempt, outcome, pending, buf, seen,
                   retryNo, history>>

Receive ==
    /\ buf # << >>
    /\ buf' = Tail(buf)
    /\ seen' = Head(buf).type
    /\ UNCHANGED <<pc, ctxDone, held, attempt, outcome, pending, closed,
                   retryNo, history>>

Cancel ==
    /\ ~ctxDone
    /\ ctxDone' = TRUE
    /\ UNCHANGED <<pc, held, attempt, outcome, pending, chan, history>>

Supervise ==
    \/ CheckOnlineFails \/ Connect \/ LoopTop \/ FreshSession \/ Settle
    \/ EmitSend \/ EmitCancelled \/ TryEmit \/ Sleep \/ Close

Next == Supervise \/ SessionEvent \/ EndSession \/ Receive \/ Cancel

SafeSpec == Init /\ [][Next]_vars

(* The goroutine keeps running, the HTTP calls behind Connect and          *)
(* freshSession have timeouts and a session ends once the context is done. *)
(* Nothing is assumed of the reader, of the caller or of the length of a   *)
(* session that nobody cancels.                                            *)
Spec == SafeSpec /\ WF_vars(Supervise) /\ WF_vars(ctxDone /\ EndSession)

-----------------------------------------------------------------------------
TypeOK ==
    /\ pc \in PCs
    /\ ctxDone \in BOOLEAN
    /\ held \in BOOLEAN
    /\ attempt \in Nat
    /\ outcome \in [exit : Exits, lived : Nat]
    /\ pending \in Events
    /\ buf \in Seq(Events) /\ Len(buf) <= Cap
    /\ closed \in BOOLEAN
    /\ seen \in EventTypes \cup {"none"}
    /\ retryNo \in Nat
    /\ fails \in 0..CountBound /\ healed \in BOOLEAN
    /\ dead \in 0..CountBound /\ uses \in 0..2 /\ flagged \in BOOLEAN

(* The channel as EventStream describes it: open from Connect on, ended    *)
(* once emitLifecycle has dealt with Disconnected.                         *)
status ==
    CASE pc \in {"connect", "failed"} -> "unopened"
      [] pc = "close"                 -> "ended"
      [] pc = "done"                  -> "closed"
      [] OTHER                        -> "open"

ES == INSTANCE EventStream WITH cancelled <- ctxDone

(* The goroutine and the sessions it runs keep the promise of the channel: *)
(* every lifecycle event numbered without a gap and in its place, losses   *)
(* only of stream events or after a cancel, and a close after every cancel *)
(* even when the reader has stopped.                                       *)
ImplementsEventStream == ES!Spec

(* Connected is the first event and Disconnected the last, each at most    *)
(* once, however posts, the reader and a cancel interleave.                *)
StreamWellFormed == ES!StreamWellFormed

(* The budget counts failures in a row: the loop never runs another        *)
(* attempt after more than MaxRetries of them, and without a cancel it     *)
(* never gives up before there were MaxRetries; a healthy end makes the    *)
(* failed run that follows it count from one.                              *)
BudgetHonest ==
    /\ pc \in {"loop", "fresh", "run", "sleep"} =>
          fails <= IF MaxRetries > 0 THEN MaxRetries ELSE 0
    /\ pc \in {"emit", "close", "done"} /\ pending.type = "Disconnected"
          /\ ~ctxDone => fails >= MaxRetries
    /\ attempt = IF healed THEN fails + 1 ELSE fails

(* Credentials that were blocked, or whose connection died young, never    *)
(* open another session; credentials without a mark are never dropped.     *)
SessionDiscipline ==
    [][/\ pc' = "run" => ~flagged'
       /\ held /\ ~held' => flagged]_vars

(* emitLifecycle returns without having posted its event only when the     *)
(* context is done and the channel is full.                                *)
NeverDropsWhileLive ==
    [][(pc \in {"emit", "tryEmit"} /\ pc' \in {"sleep", "close"})
         => (buf' = Append(buf, pending) \/ (ctxDone /\ ~Room))]_vars

(* No pause before a retry is shorter than two seconds, and after n        *)
(* failures in a row the pause is at least 2^n seconds (or the cap) unless *)
(* the last of them was a block.                                           *)
RetriesArePaced ==
    [][pc = "ended" /\ pc' = "emit" /\ pending'.type = "Reconnecting" =>
          /\ pending'.delay >= 2
          /\ outcome.exit # "DeviceBlocked" =>
                pending'.delay >= IF fails' >= 5 THEN 30 ELSE 2 ^ fails']_vars

(* Once the context is done no credentials are fetched and no session is   *)
(* opened any more, but for the session whose fetch was under way.         *)
CancelStopsRetries ==
    [][ctxDone => /\ pc' = "fresh" => pc = "fresh"
                  /\ pc' = "run" => pc \in {"fresh", "run"}]_vars

(* A cancel ends everything whatever the loop was doing, with no reader.   *)
CancelCloses == ctxDone ~> pc \in {"done", "failed"}

HealthyEnd ==
    pc = "ended" /\ Judge(outcome.exit, outcome.lived).end = "Healthy"

(* The loop does not retry for ever: unless healthy ends keep coming, it   *)
(* finishes, or sits in one session, or waits for a reader that stopped.   *)
RetriesEnd ==
    \/ []<>HealthyEnd
    \/ <>(pc \in {"done", "failed"})
    \/ <>[](pc = "run")
    \/ <>[](pc = "emit" /\ ~Room)

=============================================================================
