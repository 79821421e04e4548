------------------------- MODULE StreamHelpersProofs ------------------------
(***************************************************************************)
(* The gift tracker loses no gift and, left alone, counts none twice, each *)
(* upset makes it count a streak once more at most, and the like           *)
(* accumulator reports the highest total, for every set of groups and      *)
(* every bound.                                                            *)
(***************************************************************************)
EXTENDS StreamHelpers, TLAPS

(* A streak has an entry, or has ended, or neither; an entry never holds   *)
(* more than the highest total, and without one there is nothing held.     *)
EntriesFit ==
    /\ tracked \cap ended = {}
    /\ \A g \in Groups : last[g] <= peak[g]
    /\ \A g \in Groups \ tracked : last[g] = 0

(* What the tracker handed out since the last upset of a streak is what    *)
(* the entry holds or, after the final message, the highest total.         *)
Held(g) == IF g \in ended THEN peak[g] ELSE last[g]

Budget(g) ==
    /\ last[g] >= 0
    /\ credited[g] <= upsets[g] * peak[g] + Held(g)

(* Without an upset the highest total is held, and all of it handed out.   *)
Untouched(g) == Held(g) = peak[g] /\ credited[g] = peak[g]

Counted ==
    /\ \A g \in Groups : upsets[g] < MaxUpsets => Budget(g)
    /\ \A g \in Groups : upsets[g] = 0 => Untouched(g)

(* The accumulator holds the highest total, or nothing.                    *)
HoldsHighest ==
    /\ \A t \in totals : t <= maxTotal
    /\ totals # {} => maxTotal \in totals
    /\ totals = {} => maxTotal = 0

IInv ==
    /\ TypeOK
    /\ NeverUndercounts /\ EntriesFit /\ Counted
    /\ HoldsHighest

-----------------------------------------------------------------------------
(* A product of naturals grows with either factor.                         *)
LEMMA Products ==
    ASSUME NEW u \in Nat, NEW p \in Nat, NEW q \in Nat, p <= q
    PROVE  /\ u * p \in Nat /\ u * p <= u * q
           /\ (u + 1) * p = u * p + p
<1>1. u * (q - p) \in Nat /\ u * q = u * p + u * (q - p)
  OBVIOUS
<1>2. QED
  BY <1>1

(* The limits of the count are wide enough for a highest total.            *)
LEMMA Limits ==
    /\ MaxCredit \in Nat
    /\ \A n \in Nat : CreditLimit(n) \in MaxCount..MaxCredit
    /\ \A n \in Nat : n < MaxUpsets => CreditLimit(n) = MaxCredit
<1>1. PICK k \in Nat : MaxUpsets = k + 1
  BY UpsetsAssumption
<1>2. (k + 1) * MaxCount = k * MaxCount + MaxCount /\ k * MaxCount \in Nat
  BY Products, CountAssumption
<1>3. MaxCredit \in Nat /\ MaxCount <= MaxCredit
  BY <1>1, <1>2, CountAssumption DEF MaxCredit
<1>4. QED
  BY <1>3, CountAssumption, UpsetsAssumption DEF CreditLimit

(* Two new helpers have seen nothing.                                      *)
LEMMA InitInv == Init => IInv
<1>1. MaxCredit \in Nat
  BY Limits
<1>2. QED
  BY <1>1, CountAssumption, StaleAssumption, UpsetsAssumption
     DEF Init, IInv, TypeOK, MinCount, NeverUndercounts, EntriesFit, Counted,
         Budget, Untouched, Held, HoldsHighest

(* A message adds what its total exceeds the last total by, if the tracker *)
(* still has one and the difference fits.                                  *)
LEMMA DeltaOf ==
    ASSUME TypeOK, NEW g \in Groups, NEW total \in MinCount..MaxCount
    PROVE  /\ Previous(g) \in MinCount..MaxCount
           /\ Delta(g, total) \in 0..MaxCount
           /\ Fits(total - Previous(g)) =>
                 Delta(g, total) = IF total < Previous(g) THEN 0
                                   ELSE total - Previous(g)
           /\ Previous(g) >= 0 /\ total >= 0 => Fits(total - Previous(g))
<1>1. Previous(g) \in MinCount..MaxCount
  BY CountAssumption DEF Previous, Kept, TypeOK, MinCount
<1>2. QED
  BY <1>1, CountAssumption DEF Delta, Wrapped, Fits, MinCount

(* An upset is counted, until there are too many.                          *)
LEMMA UpsetsOf ==
    ASSUME TypeOK, NEW S, NEW g \in Groups
    PROVE  /\ UpsetsAfter(S)[g] \in 0..MaxUpsets
           /\ g \notin S => UpsetsAfter(S)[g] = upsets[g]
           /\ g \in S => UpsetsAfter(S)[g] > 0
           /\ UpsetsAfter(S)[g] < MaxUpsets =>
                 /\ upsets[g] < MaxUpsets
                 /\ g \in S => UpsetsAfter(S)[g] = upsets[g] + 1
BY UpsetsAssumption DEF TypeOK, UpsetsAfter, UpTo

(* A streak that is forgotten in the middle keeps to its counts: the upset *)
(* makes up for what is held no longer.                                    *)
LEMMA Forgotten ==
    ASSUME IInv, NEW g \in Groups, upsets[g] < MaxUpsets
    PROVE  /\ credited[g] <= (upsets[g] + 1) * peak[g]
           /\ (upsets[g] + 1) * peak[g] \in Nat
<1>1. upsets[g] \in Nat /\ peak[g] \in Nat /\ credited[g] \in Nat /\ last[g] \in Int
  BY CountAssumption, UpsetsAssumption, Limits DEF IInv, TypeOK, MinCount
<1>2. Held(g) \in Int /\ Held(g) <= peak[g]
  BY <1>1 DEF IInv, EntriesFit, Held
<1>3. credited[g] <= upsets[g] * peak[g] + Held(g)
  BY DEF IInv, Counted, Budget
<1>4. /\ upsets[g] * peak[g] \in Nat
      /\ (upsets[g] + 1) * peak[g] = upsets[g] * peak[g] + peak[g]
  BY <1>1, Products
<1>5. QED
  BY <1>1, <1>2, <1>3, <1>4

-----------------------------------------------------------------------------
(* After a message of g, what was handed out for g is within what its      *)
(* upsets and this total allow.                                            *)
LEMMA Charge ==
    ASSUME IInv, NEW g \in Groups, NEW total \in 0..MaxCount, NEW n,
           n = UpsetsAfter(Upset(g, total))[g], n < MaxUpsets
    PROVE  /\ n \in Nat
           /\ credited[g] + Delta(g, total) <= n * peak[g] + total
           /\ n = 0 => /\ credited[g] + Delta(g, total) = total
                       /\ total >= peak[g]
<1> USE CountAssumption, UpsetsAssumption DEF IInv
<1> DEFINE d == Delta(g, total)
           u == upsets[g]
           p == peak[g]
<1>1. /\ n \in Nat /\ u \in Nat /\ p \in Nat /\ last[g] \in Int
      /\ credited[g] \in Nat /\ u < MaxUpsets
      /\ g \notin Upset(g, total) => n = u
      /\ g \in Upset(g, total) => n = u + 1
  BY UpsetsOf, Limits DEF TypeOK, MinCount
<1>2. Budget(g)
  BY <1>1 DEF Counted
<1>3. total \in MinCount..MaxCount
  BY DEF MinCount
<1>4. /\ Previous(g) = IF g \in Live THEN last[g] ELSE 0
      /\ Previous(g) >= 0
  BY <1>1, <1>2 DEF Previous, Kept, Budget
<1>5. d = IF total < Previous(g) THEN 0 ELSE total - Previous(g)
  BY <1>3, <1>4, DeltaOf
<1>6. u * p \in Nat
  BY <1>1, Products
<1>7. CASE g \in Upset(g, total)
  <2>1. credited[g] <= n * p /\ n * p \in Nat
    BY <1>1, <1>7, Forgotten
  <2>2. d <= total
    BY <1>1, <1>4, <1>5
  <2>3. n # 0 /\ d \in Int
    BY <1>1, <1>4, <1>5, <1>7
  <2>4. QED
    BY <1>1, <2>1, <2>2, <2>3
<1>8. CASE g \notin Upset(g, total)
  <2>1. g \notin ended /\ total >= Previous(g) /\ (g \in Live <=> g \in tracked)
    BY <1>1, <1>4, <1>8 DEF Upset, Live
  <2>2. Previous(g) = last[g]
    BY <1>4, <2>1 DEF EntriesFit
  <2>3. d = total - last[g] /\ Held(g) = last[g]
    BY <1>1, <1>5, <2>1, <2>2 DEF Held
  <2>4. credited[g] + d <= u * p + total
    BY <1>1, <1>2, <1>6, <2>3 DEF Budget
  <2>5. ASSUME n = 0
        PROVE  credited[g] + d = total /\ total >= p
    <3>1. last[g] = p /\ credited[g] = p
      BY <1>1, <1>8, <2>3, <2>5 DEF Counted, Untouched
    <3>2. QED
      BY <1>1, <2>1, <2>2, <2>3, <3>1
  <2>6. QED
    BY <1>1, <1>8, <2>4, <2>5
<1>9. QED
  BY <1>7, <1>8

(* A gift message keeps the counts of its group right, and upsets no other *)
(* group but those it evicts.                                              *)
LEMMA GiftStep ==
    ASSUME IInv, NEW g \in Groups, NEW total \in MinCount..MaxCount,
           NEW final \in BOOLEAN, ProcessGift(g, total, final)
    PROVE  IInv'
<1> USE CountAssumption, StaleAssumption, UpsetsAssumption DEF IInv
<1> DEFINE d == Delta(g, total)
           U == UpsetsAfter(Upset(g, total))
           n == upsets'[g]
<1>1. /\ d \in 0..MaxCount
      /\ Previous(g) \in MinCount..MaxCount
      /\ Fits(total - Previous(g)) => d >= total - Previous(g)
  BY DeltaOf DEF MinCount
<1>2. /\ upsets' = [U EXCEPT ![g] = IF total < 0 THEN MaxUpsets ELSE @]
      /\ credited' = [credited EXCEPT ![g] = UpTo(CreditLimit(n), @ + d)]
      /\ peak' = [peak EXCEPT ![g] = IF total > @ THEN total ELSE @]
      /\ wrapped' = wrapped \cup (IF Fits(total - Previous(g)) THEN {} ELSE {g})
      /\ idle' = [Kept(idle) EXCEPT ![g] = 0]
      /\ UNCHANGED likes
  BY DEF ProcessGift
<1>3. /\ \A h \in Groups : U[h] \in 0..MaxUpsets
      /\ U \in [Groups -> 0..MaxUpsets]
  BY UpsetsOf DEF UpsetsAfter
<1>4. /\ upsets' \in [Groups -> 0..MaxUpsets]
      /\ \A h \in Groups \ {g} : upsets'[h] = U[h]
      /\ n < MaxUpsets => total >= 0 /\ n = U[g]
  BY <1>2, <1>3 DEF MinCount
<1>5. /\ n \in Nat /\ n <= MaxUpsets
      /\ CreditLimit(n) \in MaxCount..MaxCredit /\ MaxCredit \in Nat
      /\ n < MaxUpsets => CreditLimit(n) = MaxCredit
  BY <1>4, Limits
<1>6. /\ credited[g] \in 0..MaxCredit /\ peak[g] \in 0..MaxCount
      /\ last[g] \in MinCount..MaxCount
  BY DEF TypeOK
<1>7. /\ \A h \in Groups \ {g} : credited'[h] = credited[h] /\ peak'[h] = peak[h]
      /\ credited'[g] = UpTo(CreditLimit(n), credited[g] + d)
      /\ peak'[g] = IF total > peak[g] THEN total ELSE peak[g]
  BY <1>2 DEF TypeOK
<1>8. /\ \A h \in Groups \ {g} : last'[h] = IF h \in Live THEN last[h] ELSE 0
      /\ \A h \in Groups \ {g} : h \in tracked' <=> h \in Live
      /\ \A h \in Groups \ {g} : h \in ended' <=> h \in ended
      /\ g \in tracked' <=> ~final
      /\ g \in ended' <=> final
      /\ last'[g] = IF final THEN 0 ELSE total
      /\ last' \in [Groups -> MinCount..MaxCount]
  <2>1. 0 \in MinCount..MaxCount
    BY DEF MinCount
  <2>2. Kept(last) \in [Groups -> MinCount..MaxCount]
    BY <2>1 DEF Kept, TypeOK
  <2>3. last' = [Kept(last) EXCEPT ![g] = IF final THEN 0 ELSE total]
    BY DEF ProcessGift
  <2>4. QED
    BY <2>1, <2>2, <2>3 DEF ProcessGift, Kept
<1>9. TypeOK'
  <2>1. credited' \in [Groups -> 0..MaxCredit]
    BY <1>1, <1>2, <1>5, <1>6 DEF TypeOK, UpTo
  <2>2. peak' \in [Groups -> 0..MaxCount]
    BY <1>2, <1>6 DEF TypeOK, MinCount
  <2>3. idle' \in [Groups -> 0..StaleAfter]
    BY <1>2 DEF TypeOK, Kept
  <2>4. /\ tracked' \subseteq Groups /\ ended' \subseteq Groups
        /\ wrapped' \subseteq Groups
    BY <1>2 DEF ProcessGift, TypeOK, Live
  <2>5. QED
    BY <1>2, <1>4, <1>8, <2>1, <2>2, <2>3, <2>4 DEF TypeOK, likes
<1>10. NeverUndercounts'
  <2>1. ASSUME g \notin wrapped'
        PROVE  credited'[g] >= peak'[g]
    <3>1. credited[g] >= peak[g] /\ d >= total - Previous(g)
      BY <1>1, <1>2, <2>1 DEF NeverUndercounts
    <3>2. Previous(g) <= peak[g]
      BY <1>6 DEF EntriesFit, Previous, Kept
    <3>3. credited[g] + d >= total
      BY <1>1, <1>6, <3>1, <3>2 DEF MinCount
    <3>4. QED
      BY <1>1, <1>5, <1>6, <1>7, <3>1, <3>3 DEF UpTo, MinCount
  <2>2. QED
    BY <1>2, <1>7, <2>1 DEF NeverUndercounts
<1>11. EntriesFit'
  <2>1. last'[g] <= peak'[g]
    BY <1>6, <1>7, <1>8 DEF MinCount
  <2>2. \A h \in Groups \ {g} : last'[h] <= peak'[h]
    BY <1>7, <1>8 DEF EntriesFit, TypeOK
  <2>3. tracked' \cap ended' = {}
    BY <1>8, <1>9 DEF EntriesFit, Live, TypeOK
  <2>4. \A h \in Groups \ tracked' : last'[h] = 0
    BY <1>8
  <2>5. QED
    BY <2>1, <2>2, <2>3, <2>4 DEF EntriesFit
<1>12. ASSUME n < MaxUpsets
       PROVE  Budget(g)' /\ (n = 0 => Untouched(g)')
  <2> USE <1>12
  <2>1. total \in 0..MaxCount /\ n = U[g]
    BY <1>4
  <2>2. /\ credited[g] + d <= n * peak[g] + total
        /\ n = 0 => credited[g] + d = total /\ total >= peak[g]
    BY <2>1, Charge
  <2>3. n * peak[g] \in Nat /\ n * peak[g] <= n * peak'[g] /\ n * peak'[g] \in Nat
    BY <1>5, <1>6, <1>7, <2>1, Products
  <2>4. Held(g)' = IF final THEN peak'[g] ELSE total
    BY <1>8 DEF Held
  <2>5. credited'[g] <= credited[g] + d
    BY <1>1, <1>5, <1>6, <1>7 DEF UpTo
  <2>6. Budget(g)'
    <3>1. total <= Held(g)' /\ last'[g] >= 0
      BY <1>6, <1>7, <1>8, <2>1, <2>4
    <3>2. credited'[g] \in Int /\ credited[g] + d \in Int /\ Held(g)' \in Int
      BY <1>1, <1>6, <1>7, <1>9, <2>1, <2>4 DEF TypeOK
    <3>3. credited'[g] <= n * peak'[g] + Held(g)'
      <4> HIDE DEF n, d
      <4>1. credited'[g] <= n * peak[g] + total
        BY <2>2, <2>3, <2>5, <3>2
      <4>2. QED
        BY <2>1, <2>3, <3>1, <3>2, <4>1
    <3>4. QED
      BY <3>1, <3>3 DEF Budget
  <2>7. ASSUME n = 0
        PROVE  Untouched(g)'
    <3>1. peak'[g] = total /\ Held(g)' = total
      BY <1>6, <1>7, <2>1, <2>2, <2>4, <2>7
    <3>2. credited'[g] = total
      BY <1>5, <1>7, <2>1, <2>2, <2>7 DEF UpTo
    <3>3. QED
      BY <3>1, <3>2 DEF Untouched
  <2>8. QED
    BY <2>6, <2>7
<1>13. ASSUME NEW h \in Groups \ {g}, upsets'[h] < MaxUpsets
       PROVE  Budget(h)' /\ (upsets'[h] = 0 => Untouched(h)')
  <2> USE <1>13
  <2>1. /\ upsets'[h] = U[h] /\ upsets[h] < MaxUpsets
        /\ h \in Upset(g, total) <=> h \in Stale
    BY <1>4, UpsetsOf DEF Upset
  <2>2. peak'[h] = peak[h] /\ credited'[h] = credited[h]
    BY <1>7
  <2>3. CASE h \in Stale
    <3>1. upsets'[h] = upsets[h] + 1 /\ upsets'[h] # 0
      BY <2>1, <2>3, UpsetsOf
    <3>2. h \in tracked /\ h \notin Live
      BY <2>3 DEF Stale, Live
    <3>3. last'[h] = 0 /\ Held(h)' = 0
      BY <1>8, <3>2 DEF Held, EntriesFit
    <3>4. QED
      BY <2>1, <2>2, <3>1, <3>3, Forgotten DEF Budget
  <2>4. CASE h \notin Stale
    <3>1. upsets'[h] = upsets[h]
      BY <2>1, <2>4, UpsetsOf
    <3>2. last'[h] = last[h]
      BY <1>8, <2>4 DEF Live, EntriesFit
    <3>3. Held(h)' = Held(h)
      BY <1>8, <2>2, <3>2 DEF Held
    <3>4. QED
      BY <2>1, <2>2, <3>1, <3>2, <3>3 DEF Counted, Budget, Untouched
  <2>5. QED
    BY <2>3, <2>4
<1>14. Counted'
  BY <1>12, <1>13 DEF Counted
<1>15. HoldsHighest'
  BY <1>2 DEF HoldsHighest, likes
<1>16. QED
  BY <1>9, <1>10, <1>11, <1>14, <1>15

(* Reset forgets every streak that runs, and counts an upset of each.      *)
LEMMA ResetStep == IInv /\ ResetGifts => IInv'
<1> SUFFICES ASSUME IInv, ResetGifts
             PROVE  IInv'
  OBVIOUS
<1> USE CountAssumption, StaleAssumption, UpsetsAssumption DEF IInv
<1>1. TypeOK'
  <2>1. UpsetsAfter(tracked) \in [Groups -> 0..MaxUpsets]
    BY UpsetsOf DEF UpsetsAfter
  <2>2. QED
    BY <2>1 DEF ResetGifts, likes, TypeOK, MinCount
<1>2. NeverUndercounts' /\ HoldsHighest'
  BY DEF ResetGifts, likes, NeverUndercounts, HoldsHighest
<1>3. EntriesFit'
  BY DEF ResetGifts, EntriesFit, TypeOK
<1>4. ASSUME NEW h \in Groups, upsets'[h] < MaxUpsets
      PROVE  Budget(h)' /\ (upsets'[h] = 0 => Untouched(h)')
  <2>1. /\ upsets'[h] = UpsetsAfter(tracked)[h] /\ upsets[h] < MaxUpsets
        /\ last'[h] = 0 /\ peak' = peak /\ credited' = credited /\ ended' = ended
    BY <1>4, UpsetsOf DEF ResetGifts
  <2>2. CASE h \in tracked
    <3>1. upsets'[h] = upsets[h] + 1 /\ upsets'[h] # 0
      BY <1>4, <2>1, <2>2, UpsetsOf
    <3>2. Held(h)' = 0
      BY <2>1, <2>2 DEF Held, EntriesFit
    <3>3. QED
      BY <2>1, <3>1, <3>2, Forgotten DEF Budget
  <2>3. CASE h \notin tracked
    <3>1. upsets'[h] = upsets[h]
      BY <2>1, <2>3, UpsetsOf
    <3>2. Held(h)' = Held(h) /\ last'[h] = last[h]
      BY <2>1, <2>3 DEF Held, EntriesFit
    <3>3. QED
      BY <2>1, <3>1, <3>2 DEF Counted, Budget, Untouched
  <2>4. QED
    BY <2>2, <2>3
<1>5. QED
  BY <1>1, <1>2, <1>3, <1>4 DEF Counted

(* A like message keeps the highest total.                                 *)
LEMMA LikeStep ==
    ASSUME IInv, NEW total \in 0..MaxCount, ProcessLike(total)
    PROVE  IInv'
<1>1. HoldsHighest'
  BY DEF IInv, TypeOK, ProcessLike, HoldsHighest
<1>2. QED
  BY <1>1 DEF IInv, ProcessLike, TypeOK, gifts, history, NeverUndercounts,
              EntriesFit, Counted, Budget, Untouched, Held

(* Every step of the helpers keeps the invariant.                          *)
LEMMA Step == IInv /\ [Next]_vars => IInv'
<1> SUFFICES ASSUME IInv, [Next]_vars
             PROVE  IInv'
  OBVIOUS
<1> USE CountAssumption, StaleAssumption DEF IInv
<1>1. ASSUME NEW g \in Groups, NEW total \in MinCount..MaxCount,
             NEW final \in BOOLEAN, ProcessGift(g, total, final)
      PROVE  IInv'
  BY <1>1, GiftStep
<1>2. ASSUME NEW total \in 0..MaxCount, ProcessLike(total)
      PROVE  IInv'
  BY <1>2, LikeStep
<1>3. CASE ResetGifts
  BY <1>3, ResetStep
<1>4. CASE ResetLikes
  BY <1>4 DEF ResetLikes, gifts, history, TypeOK, NeverUndercounts, EntriesFit,
              Counted, Budget, Untouched, Held, HoldsHighest
<1>5. CASE Tick
  <2>1. idle' \in [Groups -> 0..StaleAfter]
    BY <1>5 DEF Tick, UpTo, TypeOK
  <2>2. QED
    BY <1>5, <2>1 DEF Tick, likes, history, TypeOK, NeverUndercounts, EntriesFit,
                      Counted, Budget, Untouched, Held, HoldsHighest
<1>6. CASE UNCHANGED vars
  BY <1>6 DEF vars, gifts, likes, history, TypeOK, NeverUndercounts, EntriesFit,
              Counted, Budget, Untouched, Held, HoldsHighest
<1>7. QED
  BY <1>1, <1>2, <1>3, <1>4, <1>5, <1>6 DEF Next

(* The invariant holds of the helpers for ever.                            *)
LEMMA Invariance == Spec => []IInv
BY InitInv, Step, PTL DEF Spec

-----------------------------------------------------------------------------
(* Entries, counts and totals stay within their bounds; in particular no   *)
(* message takes a count below zero.                                       *)
THEOREM Typing == Spec => []TypeOK
<1>1. IInv => TypeOK
  BY DEF IInv
<1>2. QED
  BY <1>1, Invariance, PTL

(* Whatever the tracker is fed and made to forget, its counts for a streak *)
(* add up to at least the highest total it was given.                      *)
THEOREM NoGiftLost == Spec => []NeverUndercounts
<1>1. IInv => NeverUndercounts
  BY DEF IInv
<1>2. QED
  BY <1>1, Invariance, PTL

(* For a streak that is not forgotten in the middle and whose totals do    *)
(* not go back, they add up to exactly that.                               *)
THEOREM NoGiftTwice == Spec => []ExactUnlessUpset
<1>1. IInv => ExactUnlessUpset
  BY DEF IInv, Counted, Untouched, ExactUnlessUpset
<1>2. QED
  BY <1>1, Invariance, PTL

(* For every other streak they add up to no more than its highest total    *)
(* and once that again for each upset.                                     *)
THEOREM OvercountBound == Spec => []OvercountIsBounded
<1>1. IInv => OvercountIsBounded
  BY Forgotten DEF OvercountIsBounded
<1>2. QED
  BY <1>1, Invariance, PTL

(* The accumulator reports a step back exactly when there was one.         *)
THEOREM LikesNeverFall == Spec => []BackwardsIsReal
<1>1. IInv => BackwardsIsReal
  BY CountAssumption
     DEF IInv, TypeOK, HoldsHighest, BackwardsIsReal, WentBackwards
<1>2. QED
  BY <1>1, Invariance, PTL

=============================================================================
