--------------------------- MODULE SupervisorProofs ---------------------------
(***************************************************************************)
(* For every capacity, retry limit and set of lifetimes: the supervisor    *)
(* keeps its types, counts failures as it should, treats credentials and   *)
(* lifecycle events as it should, and implements EventStream.              *)
(***************************************************************************)
EXTENDS Supervisor, SequenceTheorems, TLAPS

ESP == INSTANCE EventStreamProofs WITH cancelled <- ctxDone

-----------------------------------------------------------------------------
(* The inductive invariant.  attempt counts the failures since the last    *)
(* healthy end, which itself counts as the attempt to repeat.              *)
Accounting == attempt = IF healed THEN fails + 1 ELSE fails

(* The loop goes round only within the budget, and leaves it uncancelled   *)
(* only beyond it.                                                         *)
WithinBudget ==
    /\ pc \in {"fresh", "run", "loop", "sleep", "ended"} =>
          attempt = 0 \/ attempt <= MaxRetries
    /\ pc \in {"emit", "close", "done"} /\ pending.type = "Disconnected"
          /\ ~ctxDone => attempt > MaxRetries

(* While the context is live the last number posted is the attempt, except *)
(* between the judgement and the post, when the pending notice carries the *)
(* attempt and continues or restarts the count.                            *)
Numbering ==
    /\ pc \in {"connect", "loop", "fresh", "run", "ended", "sleep"} /\ ~ctxDone
          => attempt = retryNo
    /\ pc \in {"emit", "tryEmit"} =>
          \/ pending.type = "Reconnecting"
          \/ pending = Event("Disconnected") /\ pending.type = "Disconnected"
    /\ pc \in {"emit", "tryEmit"} /\ pending.type = "Reconnecting" =>
          /\ pending.attempt = attempt
          /\ attempt \in {1, retryNo + 1}
          /\ attempt <= MaxRetries
          /\ pending.delay \in DeviceBlockedDelay..MaxBackoff
    /\ pc = "tryEmit" => ctxDone
    /\ pc = "connect" => attempt = 0 /\ retryNo = 0 /\ ~held /\ ~flagged
    /\ pc \in {"connect", "failed"} => buf = << >> /\ seen = "none"
    /\ pc \in {"close", "done"} => pending.type = "Disconnected"

(* Marked credentials are dropped before the loop goes round.              *)
Credentials ==
    /\ pc \in {"loop", "fresh", "run", "sleep"} => ~(held /\ flagged)
    /\ pc \in {"emit", "tryEmit"} /\ pending.type = "Reconnecting"
          => ~(held /\ flagged)
    /\ pc = "run" => held
    /\ pc = "fresh" => ~held
    /\ pc = "ended" /\ held =>
          flagged = Judge(outcome.exit, outcome.lived).rotate

IInv == TypeOK /\ Accounting /\ WithinBudget /\ Numbering /\ Credentials

-----------------------------------------------------------------------------
(* judge returns a verdict for every exit.                                 *)
LEMMA JudgeType ==
    ASSUME NEW exit \in Exits, NEW lived \in Nat
    PROVE  /\ Judge(exit, lived).end \in Ends
           /\ Judge(exit, lived).rotate \in BOOLEAN
BY DEF Judge, Exits, Ends, HealthySession

(* Only blocked or failed credentials are rotated.                         *)
LEMMA JudgeRotates ==
    ASSUME NEW exit \in Exits \ {"NoTTWID"}, NEW lived \in Nat
    PROVE  Judge(exit, lived).rotate
             = (exit = "DeviceBlocked" \/ (exit = "Errored" /\ lived < 30))
<1>1. CASE exit = "DeviceBlocked"
  BY <1>1 DEF Judge
<1>2. CASE exit = "Errored"
  <2>1. Judge(exit, lived).rotate
          = ((IF lived >= 30 THEN "Healthy" ELSE "Failed") = "Failed")
    BY <1>2 DEF Judge, HealthySession
  <2>2. CASE lived >= 30
    BY <1>2, <2>1, <2>2
  <2>3. CASE lived < 30
    BY <1>2, <2>1, <2>3
  <2> QED
    BY <2>2, <2>3
<1>3. CASE exit = "Closed"
  BY <1>3 DEF Judge
<1> QED
  BY <1>1, <1>2, <1>3 DEF Exits

(* record returns an attempt number that starts or continues the count.    *)
LEMMA NextAttemptType ==
    ASSUME NEW end \in Ends, NEW n \in Nat
    PROVE  /\ NextAttempt(end, n) \in Nat \ {0}
           /\ NextAttempt(end, n) \in {1, n + 1}
BY DEF NextAttempt, Ends

(* The pause announced is within the bounds the stream promises.           *)
LEMMA DelayBounds ==
    ASSUME NEW n \in Nat \ {0}, NEW end
    PROVE  Delay(end, n) \in DeviceBlockedDelay..MaxBackoff
<1>1. CASE n >= 5
  BY <1>1 DEF Delay, Backoff, DeviceBlockedDelay, MaxBackoff
<1>2. CASE n = 1
  BY <1>2, 2 ^ 1 = 2 DEF Delay, Backoff, DeviceBlockedDelay, MaxBackoff
<1>3. CASE n = 2
  BY <1>3, 2 ^ 2 = 4 DEF Delay, Backoff, DeviceBlockedDelay, MaxBackoff
<1>4. CASE n = 3
  BY <1>4, 2 ^ 3 = 8 DEF Delay, Backoff, DeviceBlockedDelay, MaxBackoff
<1>5. CASE n = 4
  BY <1>5, 2 ^ 4 = 16 DEF Delay, Backoff, DeviceBlockedDelay, MaxBackoff
<1> QED
  BY <1>1, <1>2, <1>3, <1>4, <1>5

(* Events are well typed whatever their numbers.                           *)
LEMMA EventTypesOK ==
    /\ \A t \in EventTypes : Event(t) \in Events /\ Event(t).type = t
    /\ \A n, d \in Nat : /\ Reconnecting(n, d) \in Events
                         /\ Reconnecting(n, d).type = "Reconnecting"
                         /\ Reconnecting(n, d).attempt = n
                         /\ Reconnecting(n, d).delay = d
BY DEF Event, Reconnecting, Events, EventTypes

(* Posting where there is room keeps the channel within its capacity.      *)
LEMMA Posting ==
    ASSUME TypeOK, Room, NEW e \in Events
    PROVE  Append(buf, e) \in Seq(Events) /\ Len(Append(buf, e)) <= Cap
BY AppendProperties, CapAssumption DEF TypeOK, Room

-----------------------------------------------------------------------------
(* A history count stays within its bound.                                 *)
LEMMA OneMoreType ==
    ASSUME NEW n \in 0..CountBound
    PROVE  OneMore(n) \in 0..CountBound
BY MaxRetriesAssumption DEF OneMore, CountBound

(* The initial states.                                                     *)
LEMMA InitInv == Init => IInv
<1> SUFFICES ASSUME Init PROVE IInv
  OBVIOUS
<1> USE DEF Init
<1>1. dead \in 0..CountBound /\ fails \in 0..CountBound
  BY MaxRetriesAssumption DEF CountBound
<1>2. pending \in Events
  BY EventTypesOK DEF EventTypes
<1>3. buf \in Seq(Events) /\ Len(buf) <= Cap
  BY CapAssumption
<1>4. outcome \in [exit : Exits, lived : Nat]
  BY DEF Exits
<1>5. /\ ctxDone \in BOOLEAN /\ held \in BOOLEAN /\ closed \in BOOLEAN
      /\ healed \in BOOLEAN /\ flagged \in BOOLEAN
  BY Zenon
<1>6. /\ pc \in PCs /\ attempt \in Nat /\ retryNo \in Nat
      /\ uses \in 0..2 /\ seen \in EventTypes \cup {"none"}
  BY DEF PCs
<1>7. TypeOK
  BY <1>1, <1>2, <1>3, <1>4, <1>5, <1>6 DEF TypeOK
<1>8. Accounting /\ WithinBudget /\ Numbering /\ Credentials
  BY DEF Accounting, WithinBudget, Numbering, Credentials
<1> QED
  BY <1>7, <1>8 DEF IInv

(* Every step keeps the types.                                             *)
LEMMA TypeStep == TypeOK /\ [Next]_vars => TypeOK'
<1> SUFFICES ASSUME TypeOK, [Next]_vars
             PROVE  TypeOK'
  OBVIOUS
<1> USE DEF PCs, EndLoop, chan, history
<1>0. /\ Event("Connected") \in Events /\ Event("Data") \in Events
      /\ Event("Disconnected") \in Events
  BY EventTypesOK DEF EventTypes
<1>1. CASE CheckOnlineFails
  BY <1>1 DEF CheckOnlineFails, TypeOK
<1>2. CASE Connect
  <2>1. buf' \in Seq(Events) /\ Len(buf') = 1
    BY <1>0, <1>2 DEF Connect
  <2> QED
    BY <1>2, <2>1, CapAssumption DEF Connect, TypeOK
<1>3. CASE LoopTop
  BY <1>0, <1>3 DEF LoopTop, TypeOK
<1>4. CASE FreshSession
  <2>1. dead' \in 0..CountBound
    BY <1>4, OneMoreType DEF FreshSession, TypeOK
  <2>2. outcome' \in [exit : Exits, lived : Nat]
    BY <1>4 DEF FreshSession, TypeOK, Exits
  <2>3. pc' \in PCs /\ uses' \in 0..2
    BY <1>4 DEF FreshSession, TypeOK
  <2>4. held' \in BOOLEAN /\ flagged' \in BOOLEAN
    BY <1>4, Zenon DEF FreshSession, TypeOK
  <2> QED
    BY <1>4, <2>1, <2>2, <2>3, <2>4 DEF FreshSession, TypeOK
<1>5. CASE SessionEvent
  BY <1>0, <1>5, Posting DEF SessionEvent, TypeOK
<1>6. CASE EndSession
  <2>1. outcome' \in [exit : Exits, lived : Nat]
    BY <1>6, LifetimesAssumption DEF EndSession
  <2>2. dead' \in 0..CountBound /\ uses' \in 0..2 /\ flagged' \in BOOLEAN
    BY <1>6, OneMoreType, MaxRetriesAssumption
       DEF EndSession, TypeOK, CountBound
  <2> QED
    BY <1>6, <2>1, <2>2 DEF EndSession, TypeOK
<1>7. CASE Settle
  <2> DEFINE j == Judge(outcome.exit, outcome.lived)
             n == NextAttempt(j.end, attempt)
  <2>1. CASE ctxDone
    BY <1>0, <1>7, <2>1 DEF Settle, TypeOK
  <2>2. CASE ~ctxDone
    <3>1. outcome.exit \in Exits /\ outcome.lived \in Nat
      BY DEF TypeOK
    <3>2. j.end \in Ends /\ j.rotate \in BOOLEAN
      BY <3>1, JudgeType
    <3>3. n \in Nat \ {0}
      BY <3>2, NextAttemptType DEF TypeOK
    <3>4. Delay(j.end, n) \in Nat
      BY <3>3, DelayBounds DEF DeviceBlockedDelay, MaxBackoff
    <3>5. Reconnecting(n, Delay(j.end, n)) \in Events
      BY <3>3, <3>4, EventTypesOK
    <3>6. /\ held' = (held /\ ~j.rotate) /\ attempt' = n
          /\ fails' = IF j.end = "Healthy" THEN 0 ELSE OneMore(fails)
          /\ healed' = (healed \/ j.end = "Healthy")
          /\ pc' = "emit"
          /\ \/ pending' = Event("Disconnected")
             \/ pending' = Reconnecting(n, Delay(j.end, n))
          /\ UNCHANGED <<ctxDone, outcome, chan, dead, uses, flagged>>
      BY <1>7, <2>2 DEF Settle
    <3>7. held' \in BOOLEAN /\ healed' \in BOOLEAN
      BY <3>6 DEF TypeOK
    <3>8. fails' \in 0..CountBound
      BY <3>6, OneMoreType, MaxRetriesAssumption DEF TypeOK, CountBound
    <3> HIDE DEF j, n
    <3> QED
      BY <1>0, <3>3, <3>5, <3>6, <3>7, <3>8 DEF TypeOK
  <2> QED
    BY <2>1, <2>2 DEF TypeOK
<1>8. CASE EmitSend
  BY <1>8, Posting DEF EmitSend, Post, AfterEmit, TypeOK, Events
<1>9. CASE EmitCancelled
  BY <1>9 DEF EmitCancelled, TypeOK
<1>10. CASE TryEmit
  BY <1>10, Posting DEF TryEmit, Post, AfterEmit, TypeOK, Events
<1>11. CASE Sleep
  BY <1>0, <1>11 DEF Sleep, TypeOK
<1>12. CASE Close
  BY <1>12 DEF Close, TypeOK
<1>13. CASE Receive
  <2>1. /\ Tail(buf) \in Seq(Events) /\ Len(Tail(buf)) = Len(buf) - 1
        /\ Head(buf) \in Events /\ Len(buf) \in Nat
    BY <1>13, HeadTailProperties, LenProperties DEF Receive, TypeOK
  <2>2. Head(buf).type \in EventTypes
    BY <2>1 DEF Events
  <2> QED
    BY <1>13, <2>1, <2>2, CapAssumption DEF Receive, TypeOK
<1>14. CASE Cancel
  BY <1>14 DEF Cancel, TypeOK
<1>15. CASE UNCHANGED vars
  BY <1>15 DEF vars, TypeOK
<1> QED
  BY <1>1, <1>2, <1>3, <1>4, <1>5, <1>6, <1>7, <1>8, <1>9, <1>10, <1>11,
     <1>12, <1>13, <1>14, <1>15 DEF Next, Supervise

(* Every step keeps the rest of the invariant.                             *)
LEMMA InvStep == IInv /\ [Next]_vars => IInv'
<1> SUFFICES ASSUME IInv, [Next]_vars
             PROVE  /\ Accounting' /\ WithinBudget'
                    /\ Numbering' /\ Credentials'
  BY TypeStep DEF IInv
<1> USE DEF IInv, Accounting, WithinBudget, Numbering, Credentials, EndLoop,
            chan, history
<1>1. CASE CheckOnlineFails
  BY <1>1 DEF CheckOnlineFails
<1>2. CASE Connect
  BY <1>2 DEF Connect
<1>3. CASE LoopTop
  BY <1>3, EventTypesOK DEF LoopTop, TypeOK, EventTypes
<1>4. CASE FreshSession
  BY <1>4 DEF FreshSession, TypeOK
<1>5. CASE SessionEvent
  BY <1>5 DEF SessionEvent
<1>6. CASE EndSession
  <2>1. PICK exit \in Exits \ {"NoTTWID"}, lived \in Lifetimes :
           /\ outcome' = [exit |-> exit, lived |-> lived]
           /\ flagged' = (\/ exit = "DeviceBlocked"
                          \/ exit = "Errored" /\ lived < 30)
    BY <1>6 DEF EndSession
  <2>2. lived \in Nat /\ outcome'.exit = exit /\ outcome'.lived = lived
    BY <2>1, LifetimesAssumption
  <2>3. flagged' = Judge(outcome'.exit, outcome'.lived).rotate
    BY <2>1, <2>2, JudgeRotates
  <2>4. /\ pc = "run" /\ pc' = "ended"
        /\ UNCHANGED <<ctxDone, held, attempt, pending, chan, fails, healed>>
    BY <1>6 DEF EndSession
  <2>5. Credentials'
    BY <2>3, <2>4
  <2>6. Accounting' /\ WithinBudget' /\ Numbering'
    BY <2>4
  <2> QED
    BY <2>5, <2>6
<1>7. CASE Settle
  <2> DEFINE j == Judge(outcome.exit, outcome.lived)
             n == NextAttempt(j.end, attempt)
  <2>1. CASE ctxDone
    BY <1>7, <2>1, EventTypesOK DEF Settle, EventTypes
  <2>2. CASE ~ctxDone
    <3>1. outcome.exit \in Exits /\ outcome.lived \in Nat
      BY DEF TypeOK
    <3>2. j.end \in Ends /\ j.rotate \in BOOLEAN
      BY <3>1, JudgeType
    <3>3. n \in Nat \ {0} /\ n \in {1, attempt + 1}
      BY <3>2, NextAttemptType DEF TypeOK
    <3>4. Delay(j.end, n) \in DeviceBlockedDelay..MaxBackoff
      BY <3>3, DelayBounds
    <3>5. /\ pc' = "emit" /\ pc = "ended"
          /\ held' = (held /\ ~j.rotate) /\ attempt' = n
          /\ UNCHANGED <<ctxDone, retryNo, flagged>>
      BY <1>7, <2>2 DEF Settle
    <3>6. \/ n > MaxRetries /\ pending' = Event("Disconnected")
          \/ /\ n <= MaxRetries
             /\ pending' = Reconnecting(n, Delay(j.end, n))
      BY <1>7, <2>2, <3>3, MaxRetriesAssumption DEF Settle, GivesUp
    <3>7. Accounting'
      <4>1. /\ attempt' = NextAttempt(j.end, attempt)
            /\ fails' = IF j.end = "Healthy" THEN 0 ELSE OneMore(fails)
            /\ healed' = (healed \/ j.end = "Healthy")
        BY <1>7, <2>2 DEF Settle
      <4> HIDE DEF j
      <4>2. CASE j.end = "Healthy"
        <5>1. healed'
          BY <4>1, <4>2, Zenon
        <5>2. attempt' = 1 /\ fails' = 0
          BY <4>1, <4>2 DEF NextAttempt
        <5> QED
          BY <5>1, <5>2
      <4>3. CASE j.end # "Healthy"
        <5>1. healed' = healed
          BY <4>1, <4>3, Zenon DEF TypeOK
        <5>2. fails < CountBound /\ fails \in Nat
          BY <1>7, MaxRetriesAssumption DEF Settle, TypeOK, CountBound
        <5>3. attempt' = attempt + 1 /\ fails' = fails + 1
          BY <4>1, <4>3, <5>2 DEF NextAttempt, OneMore
        <5> QED
          BY <5>1, <5>3 DEF TypeOK
      <4> QED
        BY <4>2, <4>3
    <3>8. /\ pending' = Event("Disconnected") =>
                pending'.type = "Disconnected"
          /\ pending' = Reconnecting(n, Delay(j.end, n)) =>
                /\ pending'.type = "Reconnecting" /\ pending'.attempt = n
                /\ pending'.delay \in DeviceBlockedDelay..MaxBackoff
      BY <3>4 DEF Event, Reconnecting
    <3>9. attempt = retryNo
      BY <2>2, <3>5
    <3> HIDE DEF j, n
    <3>10. WithinBudget' /\ Numbering'
      BY <3>3, <3>5, <3>6, <3>8, <3>9, MaxRetriesAssumption
    <3>11. Credentials'
      <4>1. held' => ~flagged'
        BY <3>2, <3>5, Zenon DEF j
      <4> QED
        BY <3>5, <4>1
    <3> QED
      BY <3>7, <3>10, <3>11
  <2> QED
    BY <2>1, <2>2 DEF TypeOK
<1>8. CASE EmitSend
  BY <1>8 DEF EmitSend, Post, AfterEmit, TypeOK, Events
<1>9. CASE EmitCancelled
  BY <1>9 DEF EmitCancelled
<1>10. CASE TryEmit
  BY <1>10 DEF TryEmit, Post, AfterEmit, TypeOK
<1>11. CASE Sleep
  BY <1>11, EventTypesOK DEF Sleep, EventTypes
<1>12. CASE Close
  BY <1>12 DEF Close
<1>13. CASE Receive
  BY <1>13 DEF Receive
<1>14. CASE Cancel
  BY <1>14 DEF Cancel
<1>15. CASE UNCHANGED vars
  BY <1>15 DEF vars
<1> QED
  BY <1>1, <1>2, <1>3, <1>4, <1>5, <1>6, <1>7, <1>8, <1>9, <1>10, <1>11,
     <1>12, <1>13, <1>14, <1>15 DEF Next, Supervise

(* The invariant holds of every behaviour.                                 *)
LEMMA Invariance == SafeSpec => []IInv
BY InitInv, InvStep, PTL DEF SafeSpec

-----------------------------------------------------------------------------
(* Every variable keeps its type, and the channel its capacity.            *)
THEOREM Typing == SafeSpec => []TypeOK
<1>1. IInv => TypeOK
  BY DEF IInv
<1> QED
  BY <1>1, Invariance, PTL

(* The budget counts failures in a row, lets no attempt start beyond       *)
(* MaxRetries of them and, uncancelled, stops no earlier.                  *)
THEOREM Budget == SafeSpec => []BudgetHonest
<1>1. IInv => BudgetHonest
  BY MaxRetriesAssumption DEF IInv, TypeOK, Accounting, WithinBudget,
     BudgetHonest
<1> QED
  BY <1>1, Invariance, PTL

(* Marked credentials open no further session and unmarked ones are kept.  *)
THEOREM Discipline == SafeSpec => SessionDiscipline
<1> DEFINE A == /\ pc' = "run" => ~flagged'
                /\ held /\ ~held' => flagged
<1>1. ASSUME IInv, IInv', [Next]_vars
      PROVE  [A]_vars
  <2>1. pc' = "run" => ~flagged'
    BY <1>1 DEF IInv, Credentials
  <2>2. ASSUME held, ~held' PROVE flagged
    <3>1. CASE Settle
      BY <1>1, <2>2, <3>1 DEF Settle, IInv, Credentials
    <3>2. CASE ~Settle
      BY <1>1, <2>2, <3>2 DEF Next, Supervise, CheckOnlineFails, Connect,
         LoopTop, FreshSession, EmitSend, EmitCancelled, TryEmit, Sleep,
         Close, SessionEvent, EndSession, Receive, Cancel, vars
    <3> QED
      BY <3>1, <3>2
  <2> QED
    BY <2>1, <2>2
<1> QED
  BY <1>1, Invariance, PTL DEF SafeSpec, SessionDiscipline

(* emitLifecycle loses an event only after a cancel and to a full channel. *)
THEOREM Delivery == SafeSpec => NeverDropsWhileLive
<1> DEFINE A == (pc \in {"emit", "tryEmit"} /\ pc' \in {"sleep", "close"})
                  => (buf' = Append(buf, pending) \/ (ctxDone /\ ~Room))
<1>1. ASSUME IInv, [Next]_vars
      PROVE  [A]_vars
  BY <1>1 DEF IInv, Numbering, Next, Supervise, CheckOnlineFails, Connect,
     LoopTop, FreshSession, Settle, EndLoop, EmitSend, EmitCancelled,
     TryEmit, Post, Sleep, Close, SessionEvent, EndSession, Receive, Cancel,
     vars, chan
<1> QED
  BY <1>1, Invariance, PTL DEF SafeSpec, NeverDropsWhileLive

(* After a cancel nothing is fetched and no session is opened but the one  *)
(* whose fetch was under way.                                              *)
THEOREM Cancelled == SafeSpec => CancelStopsRetries
<1> DEFINE A == ctxDone => /\ pc' = "fresh" => pc = "fresh"
                           /\ pc' = "run" => pc \in {"fresh", "run"}
<1>1. [Next]_vars => [A]_vars
  BY DEF Next, Supervise, CheckOnlineFails, Connect, LoopTop, FreshSession,
     Settle, EndLoop, EmitSend, EmitCancelled, TryEmit, AfterEmit, Sleep,
     Close, SessionEvent, EndSession, Receive, Cancel, vars
<1> QED
  BY <1>1, PTL DEF SafeSpec, CancelStopsRetries

(* The pause before attempt n is no shorter than the one its failures in a *)
(* row, n or n - 1 of them, call for.                                      *)
LEMMA BackoffGrows ==
    ASSUME NEW n \in Nat \ {0}, NEW m \in {n, n - 1}
    PROVE  Backoff(n) >= IF m >= 5 THEN 30 ELSE 2 ^ m
<1> USE DEF Backoff, MaxBackoff
<1>0. 2 ^ 0 = 1 /\ 2 ^ 1 = 2 /\ 2 ^ 2 = 4 /\ 2 ^ 3 = 8 /\ 2 ^ 4 = 16
  OBVIOUS
<1>1. CASE m = n
  BY <1>1
<1>2. CASE m = n - 1
  <2>1. CASE n > 5
    BY <1>2, <2>1
  <2>2. CASE n = 1
    <3>1. m = 0
      BY <1>2, <2>2
    <3> QED
      BY <1>0, <2>2, <3>1
  <2>3. CASE n = 2
    <3>1. m = 1
      BY <1>2, <2>3
    <3> QED
      BY <1>0, <2>3, <3>1
  <2>4. CASE n = 3
    <3>1. m = 2
      BY <1>2, <2>4
    <3> QED
      BY <1>0, <2>4, <3>1
  <2>5. CASE n = 4
    <3>1. m = 3
      BY <1>2, <2>5
    <3> QED
      BY <1>0, <2>5, <3>1
  <2>6. CASE n = 5
    <3>1. m = 4
      BY <1>2, <2>6
    <3> QED
      BY <1>0, <2>6, <3>1
  <2> QED
    BY <2>1, <2>2, <2>3, <2>4, <2>5, <2>6
<1> QED
  BY <1>1, <1>2

(* No retry comes sooner than the failures in a row before it allow: a     *)
(* healthy end in between does not make the next pause too short, and only *)
(* a block cuts it to two seconds.                                         *)
THEOREM Paced == SafeSpec => RetriesArePaced
<1> DEFINE A == pc = "ended" /\ pc' = "emit" /\ pending'.type = "Reconnecting" =>
          /\ pending'.delay >= 2
          /\ outcome.exit # "DeviceBlocked" =>
                pending'.delay >= IF fails' >= 5 THEN 30 ELSE 2 ^ fails'
<1>1. ASSUME IInv, IInv', [Next]_vars
      PROVE  [A]_vars
  <2>1. SUFFICES ASSUME pc = "ended", pc' = "emit",
                        pending'.type = "Reconnecting"
                 PROVE  A
    OBVIOUS
  <2> HIDE DEF A
  <2> DEFINE j == Judge(outcome.exit, outcome.lived)
             n == NextAttempt(j.end, attempt)
  <2>2. pending'.delay \in DeviceBlockedDelay..MaxBackoff
    BY <1>1, <2>1 DEF IInv, Numbering
  <2>3. Settle
    BY <1>1, <2>1 DEF Next, Supervise, CheckOnlineFails, Connect, LoopTop,
       FreshSession, EmitSend, EmitCancelled, TryEmit, AfterEmit, Sleep,
       Close, SessionEvent, EndSession, Receive, Cancel, vars
  <2>4. ~ctxDone
    BY <2>1, <2>3 DEF Settle, EndLoop, Event
  <2>5. /\ attempt' = n
        /\ \/ pending' = Event("Disconnected")
           \/ pending' = Reconnecting(n, Delay(j.end, n))
    BY <2>3, <2>4 DEF Settle, EndLoop
  <2>6. pending'.delay = Delay(j.end, n)
    BY <2>1, <2>5 DEF Event, Reconnecting
  <2>7. ASSUME outcome.exit # "DeviceBlocked"
        PROVE  pending'.delay >= IF fails' >= 5 THEN 30 ELSE 2 ^ fails'
    <3>1. j.end # "Blocked"
      <4>1. outcome.exit \in Exits
        BY <1>1 DEF IInv, TypeOK
      <4> QED
        BY <2>7, <4>1 DEF Judge, Exits
    <3>2. n \in Nat \ {0}
      <4>1. outcome.exit \in Exits /\ outcome.lived \in Nat /\ attempt \in Nat
        BY <1>1 DEF IInv, TypeOK
      <4> QED
        BY <4>1, JudgeType, NextAttemptType
    <3>3. fails' \in {n, n - 1}
      BY <1>1, <2>5, <3>2, MaxRetriesAssumption
         DEF IInv, Accounting, TypeOK, CountBound
    <3> HIDE DEF j, n
    <3> QED
      BY <2>6, <3>1, <3>2, <3>3, BackoffGrows DEF Delay
  <2> QED
    BY <2>2, <2>7 DEF A, DeviceBlockedDelay, MaxBackoff
<1> QED
  BY <1>1, Invariance, PTL DEF SafeSpec, RetriesArePaced

-----------------------------------------------------------------------------
(* The stream's status at each position of the goroutine.                  *)
LEMMA StatusOf ==
    /\ pc \in {"connect", "failed"} => status = "unopened"
    /\ pc = "close" => status = "ended"
    /\ pc = "done" => status = "closed"
    /\ pc \in PCs \ {"connect", "failed", "close", "done"} => status = "open"
BY DEF status, PCs

(* A supervisor about to call Connect is a stream that is not open yet.    *)
LEMMA StreamInit == Init => ESP!Init
BY StatusOf DEF Init, ESP!Init

(* Every step of the supervisor is a step of the stream or leaves it as it *)
(* was: what EventStream promises of a step, reconnect.go keeps.           *)
LEMMA StreamStep == IInv /\ [Next]_vars => [ESP!Next]_(ESP!vars)
<1> SUFFICES ASSUME IInv, [Next]_vars
             PROVE  [ESP!Next]_(ESP!vars)
  OBVIOUS
<1> DEFINE s == status
           t == status'
<1> USE DEF chan
<1>0. /\ pc \in {"connect", "failed"} => s = "unopened"
      /\ pc = "close" => s = "ended"
      /\ pc = "done" => s = "closed"
      /\ pc \in {"loop", "fresh", "run", "ended", "emit", "tryEmit", "sleep"}
           => s = "open"
      /\ pc' \in {"connect", "failed"} => t = "unopened"
      /\ pc' = "close" => t = "ended"
      /\ pc' = "done" => t = "closed"
      /\ pc' \in {"loop", "fresh", "run", "ended", "emit", "tryEmit", "sleep"}
           => t = "open"
      /\ pc' = pc => t = s
  BY DEF status
<1>1. ASSUME \/ CheckOnlineFails \/ LoopTop \/ FreshSession \/ EndSession
             \/ Settle \/ EmitCancelled \/ Sleep
      PROVE  UNCHANGED ESP!vars
  <2>1. UNCHANGED <<buf, seen, retryNo, ctxDone>>
    BY <1>1 DEF CheckOnlineFails, LoopTop, FreshSession, EndSession, Settle,
       EmitCancelled, Sleep
  <2>2. \/ pc = "connect" /\ pc' = "failed"
        \/ /\ pc  \in {"loop", "fresh", "run", "ended", "emit", "sleep"}
           /\ pc' \in {"loop", "fresh", "run", "ended", "emit", "tryEmit"}
    BY <1>1 DEF CheckOnlineFails, LoopTop, FreshSession, EndSession, Settle,
       EmitCancelled, Sleep, EndLoop
  <2>3. t = s
    BY <1>0, <2>2
  <2> QED
    BY <2>1, <2>3 DEF ESP!vars
<1>2. ASSUME Connect PROVE ESP!Open
  <2>1. s = "unopened" /\ t = "open"
    BY <1>0, <1>2 DEF Connect
  <2> QED
    BY <1>2, <2>1 DEF Connect, ESP!Open, ESP!Event, Event
<1>3. ASSUME SessionEvent PROVE ESP!PostData
  <2>1. s = "open" /\ t = "open"
    BY <1>0, <1>3 DEF SessionEvent
  <2> QED
    BY <1>3, <2>1 DEF SessionEvent, ESP!PostData, ESP!Event, Event, ESP!Room,
       Room
<1>4. ASSUME pc \in {"emit", "tryEmit"}, Room, Post, pc' = AfterEmit,
             UNCHANGED ctxDone
      PROVE  ESP!PostReconnecting \/ ESP!End
  <2>0. pending \in Events
    BY DEF IInv, TypeOK
  <2>1. CASE pending.type = "Reconnecting"
    <3>1. s = "open" /\ t = "open"
      BY <1>0, <1>4, <2>1 DEF AfterEmit
    <3>2. /\ pending.attempt \in {1, retryNo + 1}
          /\ pending.attempt <= MaxRetries
          /\ pending.delay \in DeviceBlockedDelay..MaxBackoff
      BY <1>4, <2>1 DEF IInv, Numbering
    <3>3. pending = ESP!Reconnecting(pending.attempt, pending.delay)
      BY <2>0, <2>1 DEF Events, ESP!Reconnecting
    <3>4. /\ buf' = Append(buf, pending) /\ retryNo' = pending.attempt
          /\ UNCHANGED <<seen, ctxDone>> /\ ESP!Room
      BY <1>4, <2>1 DEF Post, ESP!Room, Room
    <3>5. \E n \in {1, retryNo + 1}, d \in DeviceBlockedDelay..MaxBackoff :
             /\ n <= MaxRetries
             /\ buf' = Append(buf, ESP!Reconnecting(n, d))
             /\ retryNo' = n
      BY <3>2, <3>3, <3>4
    <3> QED
      BY <3>1, <3>4, <3>5
         DEF ESP!PostReconnecting, ESP!DeviceBlockedDelay, ESP!MaxBackoff,
             DeviceBlockedDelay, MaxBackoff
  <2>2. CASE pending.type = "Disconnected"
    <3>1. s = "open" /\ t = "ended"
      BY <1>0, <1>4, <2>2 DEF AfterEmit
    <3>2. pending = ESP!Event("Disconnected")
      BY <1>4, <2>2 DEF IInv, Numbering, Event, ESP!Event
    <3> QED
      BY <1>4, <2>2, <3>1, <3>2 DEF Post, ESP!End, ESP!Room, Room
  <2> QED
    BY <1>4, <2>1, <2>2 DEF IInv, Numbering
<1>5. ASSUME EmitSend PROVE ESP!PostReconnecting \/ ESP!End
  BY <1>4, <1>5 DEF EmitSend
<1>6. ASSUME TryEmit
      PROVE  ESP!PostReconnecting \/ ESP!End \/ UNCHANGED ESP!vars
  <2>1. CASE Room
    BY <1>4, <1>6, <2>1 DEF TryEmit
  <2>2. CASE ~Room
    <3>1. /\ UNCHANGED <<buf, seen, retryNo, ctxDone>>
          /\ ctxDone /\ pc = "tryEmit" /\ pc' = AfterEmit
      BY <1>6, <2>2 DEF TryEmit, IInv, Numbering
    <3>2. s = "open" /\ t \in {"open", "ended"}
      BY <1>0, <3>1 DEF AfterEmit
    <3> QED
      BY <2>2, <3>1, <3>2 DEF ESP!End, ESP!Room, Room, ESP!vars
  <2> QED
    BY <2>1, <2>2
<1>7. ASSUME Close PROVE ESP!Close
  <2>1. s = "ended" /\ t = "closed"
    BY <1>0, <1>7 DEF Close
  <2> QED
    BY <1>7, <2>1 DEF Close, ESP!Close
<1>8. ASSUME Receive PROVE ESP!Receive
  <2>1. t = s
    BY <1>0, <1>8 DEF Receive
  <2> QED
    BY <1>8, <2>1 DEF Receive, ESP!Receive
<1>9. ASSUME Cancel PROVE ESP!Cancel
  <2>1. t = s
    BY <1>0, <1>9 DEF Cancel
  <2> QED
    BY <1>9, <2>1 DEF Cancel, ESP!Cancel
<1>10. ASSUME UNCHANGED vars PROVE UNCHANGED ESP!vars
  <2>1. t = s
    BY <1>0, <1>10 DEF vars
  <2> QED
    BY <1>10, <2>1 DEF vars, ESP!vars
<1> QED
  BY <1>1, <1>2, <1>3, <1>5, <1>6, <1>7, <1>8, <1>9, <1>10
     DEF Next, Supervise, ESP!Next

(* The supervisor keeps the safety part of the promise of the channel.     *)
THEOREM Refinement == SafeSpec => ES!SafeSpec
<1>1. ESP!Init => ES!Init
  BY DEF ESP!Init, ES!Init
<1>2. [ESP!Next]_(ESP!vars) => [ES!Next]_(ES!vars)
  <2>1. ESP!Open => ES!Open
    BY DEF ESP!Open, ES!Open, ESP!Event, ES!Event
  <2>2. ESP!PostData => ES!PostData
    BY DEF ESP!PostData, ES!PostData, ESP!Event, ES!Event, ESP!Room, ES!Room
  <2>3. ESP!PostReconnecting => ES!PostReconnecting
    BY DEF ESP!PostReconnecting, ES!PostReconnecting, ESP!Reconnecting,
       ES!Reconnecting, ESP!Room, ES!Room, ESP!DeviceBlockedDelay,
       ES!DeviceBlockedDelay, ESP!MaxBackoff, ES!MaxBackoff
  <2>4. ESP!End => ES!End
    BY DEF ESP!End, ES!End, ESP!Event, ES!Event, ESP!Room, ES!Room
  <2>5. /\ ESP!Close => ES!Close
        /\ ESP!Receive => ES!Receive
        /\ ESP!Cancel => ES!Cancel
        /\ UNCHANGED ESP!vars => UNCHANGED ES!vars
    BY DEF ESP!Close, ES!Close, ESP!Receive, ES!Receive, ESP!Cancel,
       ES!Cancel, ESP!vars, ES!vars
  <2> QED
    BY <2>1, <2>2, <2>3, <2>4, <2>5 DEF ESP!Next, ES!Next
<1> QED
  BY <1>1, <1>2, StreamInit, StreamStep, Invariance, PTL
     DEF SafeSpec, ES!SafeSpec

(* Connected first, Disconnected last, each at most once.                  *)
THEOREM Shape == SafeSpec => []StreamWellFormed
<1>1. SafeSpec => ESP!SafeSpec
  BY StreamInit, StreamStep, Invariance, PTL DEF SafeSpec, ESP!SafeSpec
<1>2. ESP!SafeSpec => []ESP!StreamWellFormed
  BY ESP!WellFormed, CapAssumption, MaxRetriesAssumption
<1>3. ESP!StreamWellFormed => StreamWellFormed
  BY DEF ESP!StreamWellFormed, StreamWellFormed, ES!StreamWellFormed,
     ESP!ConnectedFirst, ES!ConnectedFirst, ESP!DisconnectedLast,
     ES!DisconnectedLast
<1> QED
  BY <1>1, <1>2, <1>3, PTL

=============================================================================
