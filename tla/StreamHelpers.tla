--------------------------- MODULE StreamHelpers ----------------------------
(***************************************************************************)
(* The two helpers a reader of the event channel feeds, one message after  *)
(* the other: GiftStreakTracker, which turns the running total of a gift   *)
(* streak into what each message adds, and LikeAccumulator, which keeps    *)
(* the like total from going back.  A gift that does not streak touches    *)
(* nothing and is not an action here.                                      *)
(*                                                                         *)
(* The messages are whatever survived the way: totals may jump (messages   *)
(* were dropped), stand still, go back or come after the final one (the    *)
(* server repeated itself after a reconnect), and pauses are of any        *)
(* length.  A gift total is an int32, here of a width given by MaxCount,   *)
(* and may be negative; nothing checks it.  Like totals are not negative.  *)
(***************************************************************************)
EXTENDS Integers

CONSTANTS Groups,     \* streaks, by their group id
          MaxCount,   \* largest total in a message, MaxInt32 in the code
          MaxUpsets,  \* upsets of a streak that are counted
          StaleAfter  \* ticks after which a silent streak is evicted (60 s)

ASSUME CountAssumption == MaxCount \in Nat
ASSUME UpsetsAssumption == MaxUpsets \in Nat \ {0}
ASSUME StaleAssumption == StaleAfter \in Nat \ {0}

VARIABLES
    tracked,    \* groups that have an entry
    last,       \* lastRepeatCount of each entry, 0 without one
    idle,       \* time since lastSeen, counted up to StaleAfter
    maxTotal    \* LikeAccumulator.maxTotal

(* History.  An upset of a streak is what may make the tracker count gifts *)
(* of it again: a total below the last one, a message after the final one, *)
(* or an entry evicted or reset in mid-streak.  A negative total counts as *)
(* more upsets than are counted.                                           *)
VARIABLES
    credited,   \* sum of the EventGiftCounts of a group, up to MaxCredit,
                \* or MaxCount when its upsets are no longer counted
    peak,       \* highest total processed of a group
    ended,      \* groups whose last message was final
    upsets,     \* upsets of a group, up to MaxUpsets
    wrapped,    \* groups with a difference that an int32 does not hold
    totals      \* like totals processed since the last Reset

gifts   == <<tracked, last, idle>>
likes   == <<maxTotal, totals>>
history == <<credited, peak, ended, upsets, wrapped>>
vars    == <<gifts, likes, history>>

MinCount  == -(MaxCount + 1)
MaxCredit == MaxUpsets * MaxCount + 1

CreditLimit(n) == IF n = MaxUpsets THEN MaxCount ELSE MaxCredit

TypeOK ==
    /\ tracked \subseteq Groups
    /\ last \in [Groups -> MinCount..MaxCount]
    /\ idle \in [Groups -> 0..StaleAfter]
    /\ maxTotal \in 0..MaxCount
    /\ credited \in [Groups -> 0..MaxCredit]
    /\ peak \in [Groups -> 0..MaxCount]
    /\ upsets \in [Groups -> 0..MaxUpsets]
    /\ ended \subseteq Groups /\ wrapped \subseteq Groups
    /\ totals \subseteq 0..MaxCount

Init ==
    /\ tracked = {}
    /\ last = [g \in Groups |-> 0] /\ idle = [g \in Groups |-> 0]
    /\ maxTotal = 0
    /\ credited = [g \in Groups |-> 0] /\ peak = [g \in Groups |-> 0]
    /\ upsets = [g \in Groups |-> 0]
    /\ ended = {} /\ wrapped = {}
    /\ totals = {}

UpTo(bound, n) == IF n > bound THEN bound ELSE n

-----------------------------------------------------------------------------
(* evictStale: entries that were silent too long.                          *)
Stale == {g \in tracked : idle[g] >= StaleAfter}

Live == tracked \ Stale

(* What is stored of the entries that are not evicted.                     *)
Kept(stored) == [g \in Groups |-> IF g \in Live THEN stored[g] ELSE 0]

(* The total an entry holds, 0 if there is none.                           *)
Previous(g) == Kept(last)[g]

Fits(n) == n \in MinCount..MaxCount

(* A difference of two totals, as an int32 holds it.                       *)
Wrapped(n) ==
    IF Fits(n) THEN n
    ELSE IF n < 0 THEN n + 2 * (MaxCount + 1) ELSE n - 2 * (MaxCount + 1)

(* Slip: every total counts in full.                                       *)
DeltaIsTotal(g, total) == total

(* Slip: the difference is not kept from being negative.                   *)
DeltaUnclamped(g, total) == Wrapped(total - Previous(g))

(* Slip: a total that fell counts by how far it fell.                      *)
DeltaAbsolute(g, total) ==
    LET delta == Wrapped(total - Previous(g)) IN
    IF delta < 0 THEN -delta ELSE delta

(* EventGiftCount: what this total adds to the last one, never negative.   *)
Delta(g, total) ==
    LET delta == Wrapped(total - Previous(g)) IN
    IF delta < 0 THEN 0 ELSE delta

(* Groups upset by a message of g.                                         *)
Upset(g, total) ==
    Stale \cup (IF total < Previous(g) \/ g \in ended THEN {g} ELSE {})

UpsetsAfter(S) ==
    [h \in Groups |-> IF h \in S THEN UpTo(MaxUpsets, upsets[h] + 1)
                      ELSE upsets[h]]

(* Process for a combo gift: evict, take the difference, then store the    *)
(* total or, after the final message, forget the streak.                   *)
ProcessGift(g, total, final) ==
    /\ upsets' = [UpsetsAfter(Upset(g, total)) EXCEPT
                    ![g] = IF total < 0 THEN MaxUpsets ELSE @]
    /\ credited' = [credited EXCEPT ![g] =
                       UpTo(CreditLimit(upsets'[g]), @ + Delta(g, total))]
    /\ peak' = [peak EXCEPT ![g] = IF total > @ THEN total ELSE @]
    /\ wrapped' = wrapped \cup (IF Fits(total - Previous(g)) THEN {} ELSE {g})
    /\ IF final
       THEN /\ tracked' = Live \ {g}
            /\ ended' = ended \cup {g}
            /\ last' = [Kept(last) EXCEPT ![g] = 0]
       ELSE /\ tracked' = Live \cup {g}
            /\ ended' = ended \ {g}
            /\ last' = [Kept(last) EXCEPT ![g] = total]
    /\ idle' = [Kept(idle) EXCEPT ![g] = 0]
    /\ UNCHANGED likes

ResetGifts ==
    /\ tracked' = {}
    /\ upsets' = UpsetsAfter(tracked)
    /\ last' = [g \in Groups |-> 0] /\ idle' = [g \in Groups |-> 0]
    /\ UNCHANGED <<likes, credited, peak, ended, wrapped>>

Tick ==
    /\ idle' = [g \in Groups |-> IF g \in tracked
                                 THEN UpTo(StaleAfter, idle[g] + 1) ELSE 0]
    /\ UNCHANGED <<tracked, last, likes, history>>

-----------------------------------------------------------------------------
(* Slip: the total follows the message.                                    *)
ProcessLikeFollows(total) ==
    /\ maxTotal' = total
    /\ totals' = totals \cup {total}
    /\ UNCHANGED <<gifts, history>>

WentBackwards(total) == total < maxTotal

(* LikeAccumulator.Process; accumulated, a plain sum, is left out.         *)
ProcessLike(total) ==
    /\ maxTotal' = IF total > maxTotal THEN total ELSE maxTotal
    /\ totals' = totals \cup {total}
    /\ UNCHANGED <<gifts, history>>

(* Slip: Reset leaves a value that no total has.                           *)
ResetLikesToNone ==
    /\ maxTotal' = -1 /\ totals' = {}
    /\ UNCHANGED <<gifts, history>>

ResetLikes ==
    /\ maxTotal' = 0 /\ totals' = {}
    /\ UNCHANGED <<gifts, history>>

Next ==
    \/ \E g \in Groups, total \in MinCount..MaxCount, final \in BOOLEAN :
          ProcessGift(g, total, final)
    \/ \E total \in 0..MaxCount : ProcessLike(total)
    \/ ResetGifts \/ ResetLikes \/ Tick

Spec == Init /\ [][Next]_vars

-----------------------------------------------------------------------------
(* No gift is lost: whatever was dropped, repeated, forgotten or evicted,  *)
(* the counts handed out for a streak add up to its highest total at least,*)
(* unless the difference of two totals wraps round.                        *)
NeverUndercounts == \A g \in Groups \ wrapped : credited[g] >= peak[g]

(* No gift is counted twice either, as long as totals do not go back and   *)
(* the tracker is not made to forget the streak while it runs: then the    *)
(* counts add up to the total exactly, with messages missing or not.       *)
ExactUnlessUpset ==
    \A g \in Groups : upsets[g] = 0 => credited[g] = peak[g]

(* Each upset makes a streak count once more at most: n of them hand out   *)
(* no more than n + 1 times its highest total.                             *)
OvercountIsBounded ==
    \A g \in Groups : upsets[g] < MaxUpsets =>
                         credited[g] <= (upsets[g] + 1) * peak[g]

(* A like message is said to have gone backwards exactly if some message   *)
(* since the last Reset had a higher total, so the total handed out is the *)
(* highest of them.                                                        *)
BackwardsIsReal ==
    \A t \in 0..MaxCount : WentBackwards(t) <=> \E u \in totals : t < u

=============================================================================
