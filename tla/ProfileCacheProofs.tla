------------------------- MODULE ProfileCacheProofs -------------------------
(***************************************************************************)
(* ProfileCache never hands out anything too old, and goes back in time    *)
(* only where fetches overlap, for every set of goroutines and names and   *)
(* every TTL and request timeout.                                          *)
(***************************************************************************)
EXTENDS ProfileCache, TLAPS

(* An entry was read by the server at most one request before it was       *)
(* stored, and a reply no longer ago than its request began.               *)
AgesBounded ==
    /\ \A n \in Names :
          stored[n].kind # "none" => stored[n].read <= age[n] + ScrapeTimeout
    /\ \A c \in Callers : pc[c] = "reply" => got[c].read <= waited[c]

(* Entries and replies are no older than the floor of their name, fresh or *)
(* not, and the floor is no newer than the profile.                        *)
VersionsOrdered ==
    /\ \A n \in Names : floor[n] <= web[n]
    /\ \A n \in Names : stored[n].kind # "none" =>
          floor[n] <= stored[n].version /\ stored[n].version <= web[n]
    /\ \A c \in Callers : pc[c] = "reply" =>
          floor[name[c]] <= got[c].version /\ got[c].version <= web[name[c]]

IInv == TypeOK /\ AgesBounded /\ VersionsOrdered

-----------------------------------------------------------------------------
(* An empty entry is an entry.                                             *)
LEMMA NothingType == Nothing \in Data /\ Nothing \in Replies
BY TimeAssumption, VersionAssumption DEF Nothing, Data, Replies, Horizon

(* Ageing changes nothing of what the server said but its age, which stays *)
(* within the horizon.                                                     *)
LEMMA AgedType ==
    ASSUME NEW d \in Data \cup Replies
    PROVE  /\ d \in Data => Aged(d) \in Data
           /\ d \in Replies => Aged(d) \in Replies
           /\ Aged(d).kind = d.kind /\ Aged(d).version = d.version
           /\ Aged(d).read <= d.read + 1 /\ Aged(d).read <= Horizon
BY TimeAssumption DEF Data, Replies, Aged, Later, Horizon

(* The floor only rises to the version given out, and only for a name that *)
(* no other goroutine is fetching.                                         *)
LEMMA GivingOut ==
    ASSUME TypeOK, NEW c \in Callers, NEW n \in Names, NEW v \in 0..MaxVersion,
           GivenOut({c}, n, v)
    PROVE  /\ floor' \in [Names -> 0..MaxVersion]
           /\ \A m \in Names : floor'[m] = floor[m] \/ (m = n /\ floor'[m] = v)
           /\ \A d \in Callers \ {c} :
                 pc[d] # "idle" => floor'[name[d]] = floor[name[d]]
BY DEF TypeOK, GivenOut, QuietBut, AtLeast

(* An Invalidate raises the floor to the profile as it is, and only for    *)
(* names that nobody is fetching.                                          *)
LEMMA Forgetting ==
    ASSUME TypeOK, NEW S \in SUBSET Names, Forgotten(S)
    PROVE  /\ floor' \in [Names -> 0..MaxVersion]
           /\ \A m \in Names : floor'[m] = floor[m]
                               \/ (m \in S /\ floor'[m] = web[m])
           /\ \A d \in Callers :
                 pc[d] # "idle" => floor'[name[d]] = floor[name[d]]
BY DEF TypeOK, Forgotten, QuietBut, AtLeast

(* A new cache is empty.                                                   *)
LEMMA InitInv == Init => IInv
<1> SUFFICES ASSUME Init
             PROVE  IInv
  OBVIOUS
<1>1. TypeOK
  <2>1. ttwid \in BOOLEAN
    BY Zenon DEF Init
  <2>2. got \in [Callers -> Replies] /\ stored \in [Names -> Data]
    BY NothingType DEF Init
  <2>3. /\ waited \in [Callers -> 0..ScrapeTimeout]
        /\ age \in [Names -> 0..TTL]
        /\ web \in [Names -> 0..MaxVersion]
        /\ floor \in [Names -> 0..MaxVersion]
    BY TimeAssumption, VersionAssumption DEF Init
  <2>4. QED
    BY <2>1, <2>2, <2>3 DEF Init, TypeOK
<1>2. /\ \A n \in Names : stored[n].kind = "none"
      /\ \A c \in Callers : pc[c] = "idle"
      /\ \A n \in Names : floor[n] = 0 /\ web[n] = 0
  BY DEF Init, Nothing
<1>3. QED
  BY <1>1, <1>2 DEF IInv, AgesBounded, VersionsOrdered

(* A lookup that hits, by Fetch or by Cached, keeps the invariant.         *)
LEMMA OnlyGivenOut ==
    ASSUME IInv, NEW c \in Callers, NEW n \in Names,
           stored[n].version \in 0..MaxVersion,
           GivenOut({c}, n, stored[n].version),
           pc[c] = "idle", stored[n].kind # "none",
           UNCHANGED <<pc, name, got, waited, stored, age, ttwid, web>>
    PROVE  IInv'
<1>1. /\ floor' \in [Names -> 0..MaxVersion]
      /\ \A m \in Names : floor'[m] = floor[m]
                          \/ (m = n /\ floor'[m] = stored[n].version)
      /\ \A d \in Callers \ {c} :
            pc[d] # "idle" => floor'[name[d]] = floor[name[d]]
  BY GivingOut DEF IInv
<1>2. TypeOK'
  BY <1>1 DEF IInv, TypeOK
<1>3. AgesBounded'
  BY DEF IInv, AgesBounded
<1>4. \A d \in Callers :
         pc[d] = "reply" => floor'[name[d]] = floor[name[d]]
  BY <1>1
<1>5. VersionsOrdered'
  <2>1. \A m \in Names : floor'[m] <= web[m]
    BY <1>1 DEF IInv, VersionsOrdered
  <2>2. \A m \in Names :
           stored[m].kind # "none" => floor'[m] <= stored[m].version
    BY <1>1 DEF IInv, VersionsOrdered
  <2>3. QED
    BY <2>1, <2>2, <1>4 DEF IInv, VersionsOrdered
<1>6. QED
  BY <1>2, <1>3, <1>5 DEF IInv

(* Invalidate and InvalidateAll keep the invariant.                        *)
LEMMA OnlyForgotten ==
    ASSUME IInv, NEW S \in SUBSET Names, Forgotten(S),
           stored' = [n \in Names |-> IF n \in S THEN Nothing ELSE stored[n]],
           UNCHANGED <<pc, name, got, waited, age, ttwid, web>>
    PROVE  IInv'
<1>1. /\ floor' \in [Names -> 0..MaxVersion]
      /\ \A m \in Names : floor'[m] = floor[m]
                          \/ (m \in S /\ floor'[m] = web[m])
      /\ \A d \in Callers :
            pc[d] # "idle" => floor'[name[d]] = floor[name[d]]
  BY Forgetting DEF IInv
<1>2. stored' \in [Names -> Data]
  BY NothingType DEF IInv, TypeOK
<1>3. TypeOK'
  BY <1>1, <1>2 DEF IInv, TypeOK
<1>4. \A m \in Names : stored'[m].kind # "none" =>
         m \notin S /\ stored'[m] = stored[m]
  BY DEF Nothing
<1>5. AgesBounded'
  BY <1>4 DEF IInv, AgesBounded
<1>6. VersionsOrdered'
  <2>1. \A m \in Names : floor'[m] <= web[m]
    BY <1>1 DEF IInv, TypeOK, VersionsOrdered
  <2>2. \A m \in Names : stored'[m].kind # "none" =>
           floor'[m] <= stored'[m].version /\ stored'[m].version <= web[m]
    BY <1>1, <1>4 DEF IInv, VersionsOrdered
  <2>3. \A d \in Callers :
           pc[d] = "reply" => floor'[name[d]] = floor[name[d]]
    BY <1>1
  <2>4. QED
    BY <2>1, <2>2, <2>3 DEF IInv, VersionsOrdered
<1>7. QED
  BY <1>3, <1>5, <1>6 DEF IInv

-----------------------------------------------------------------------------
(* Every call, request, change and tick keeps the invariant: the order of  *)
(* the locked sections of profile_cache.go does not matter.                *)
LEMMA Step == IInv /\ [Next]_vars => IInv'
<1> SUFFICES ASSUME IInv, [Next]_vars
             PROVE  IInv'
  OBVIOUS
<1> USE TimeAssumption, VersionAssumption DEF IInv
<1>1. ASSUME NEW c \in Callers, NEW n \in Names, Fetch(c, n)
      PROVE  IInv'
  <2>1. CASE Hit(c, n)
    <3>1. stored[n].version \in 0..MaxVersion
      BY DEF TypeOK, Data
    <3>2. GivenOut({c}, n, stored[n].version)
      BY <2>1 DEF Hit
    <3>3. pc[c] = "idle" /\ stored[n].kind # "none"
      BY <1>1, <2>1 DEF Fetch, Hit, Fresh
    <3>4. UNCHANGED <<pc, name, got, waited, stored, age, ttwid, web>>
      BY <1>1, <2>1 DEF Fetch, Hit
    <3>5. QED
      BY <3>1, <3>2, <3>3, <3>4, OnlyGivenOut
  <2>2. CASE Miss(c, n)
    BY <1>1, <2>2 DEF Fetch, Miss, TypeOK, AgesBounded, VersionsOrdered
  <2>3. QED
    BY <1>1, <2>1, <2>2 DEF Fetch
<1>2. ASSUME NEW c \in Callers, NEW n \in Names, Cached(c, n)
      PROVE  IInv'
  <2>1. stored[n].version \in 0..MaxVersion
    BY DEF TypeOK, Data
  <2>2. GivenOut({c}, n, stored[n].version)
    BY <1>2 DEF Cached
  <2>3. pc[c] = "idle" /\ stored[n].kind # "none"
    BY <1>2 DEF Cached, Fresh
  <2>4. UNCHANGED <<pc, name, got, waited, stored, age, ttwid, web>>
    BY <1>2 DEF Cached
  <2>5. QED
    BY <2>1, <2>2, <2>3, <2>4, OnlyGivenOut
<1>3. ASSUME NEW c \in Callers, EnsureTTWID(c)
      PROVE  IInv'
  BY <1>3 DEF EnsureTTWID, TypeOK, AgesBounded, VersionsOrdered
<1>4. ASSUME NEW c \in Callers, TTWIDArrives(c)
      PROVE  IInv'
  BY <1>4 DEF TTWIDArrives, TypeOK, AgesBounded, VersionsOrdered
<1>5. ASSUME NEW c \in Callers, TTWIDFails(c)
      PROVE  IInv'
  BY <1>5, NothingType
     DEF TTWIDFails, NoAnswer, TypeOK, AgesBounded, VersionsOrdered
<1>6. ASSUME NEW c \in Callers, ServerReads(c)
      PROVE  IInv'
  <2>1. PICK k \in Answers :
           got' = [got EXCEPT ![c] = [kind |-> k, version |-> web[name[c]],
                                      read |-> 0]]
    BY <1>6 DEF ServerReads
  <2>2. web[name[c]] \in 0..MaxVersion
    BY DEF TypeOK
  <2>3. [kind |-> k, version |-> web[name[c]], read |-> 0] \in Replies
    BY <2>2 DEF Replies, Horizon
  <2>4. TypeOK'
    BY <1>6, <2>1, <2>3 DEF ServerReads, TypeOK
  <2>5. AgesBounded'
    BY <1>6, <2>1 DEF ServerReads, TypeOK, AgesBounded
  <2>6. VersionsOrdered'
    BY <1>6, <2>1, <2>2 DEF ServerReads, TypeOK, VersionsOrdered
  <2>7. QED
    BY <2>4, <2>5, <2>6
<1>7. ASSUME NEW c \in Callers, ScrapeFails(c)
      PROVE  IInv'
  BY <1>7, NothingType
     DEF ScrapeFails, NoAnswer, TypeOK, AgesBounded, VersionsOrdered
<1>8. ASSUME NEW c \in Callers, Store(c)
      PROVE  IInv'
  <2>1. name[c] \in Names /\ got[c] \in Data
        /\ got[c].version \in 0..MaxVersion
    BY <1>8 DEF Store, IsNegativeCacheable, TypeOK, Data, Replies, Verdicts
  <2>2. GivenOut({c}, name[c], got[c].version)
    BY <1>8 DEF Store
  <2>3. /\ floor' \in [Names -> 0..MaxVersion]
        /\ \A m \in Names : floor'[m] = floor[m]
                            \/ (m = name[c] /\ floor'[m] = got[c].version)
        /\ \A d \in Callers \ {c} :
              pc[d] # "idle" => floor'[name[d]] = floor[name[d]]
    BY <2>1, <2>2, GivingOut
  <2>4. TypeOK'
    <3>1. stored' \in [Names -> Data] /\ got' \in [Callers -> Replies]
      BY <1>8, <2>1, NothingType DEF Store, TypeOK
    <3>2. age' \in [Names -> 0..TTL] /\ waited' \in [Callers -> 0..ScrapeTimeout]
      BY <1>8 DEF Store, TypeOK
    <3>3. QED
      BY <1>8, <2>3, <3>1, <3>2 DEF Store, TypeOK
  <2>5. got[c].read <= ScrapeTimeout
    BY <1>8, <2>1 DEF Store, TypeOK, Data, AgesBounded
  <2>6. AgesBounded'
    BY <1>8, <2>5 DEF Store, TypeOK, AgesBounded
  <2>7. VersionsOrdered'
    BY <1>8, <2>1, <2>3 DEF Store, TypeOK, VersionsOrdered
  <2>8. QED
    BY <2>4, <2>6, <2>7
<1>9. ASSUME NEW n \in Names, Invalidate(n)
      PROVE  IInv'
  <2>1. /\ Forgotten({n})
        /\ stored' = [m \in Names |-> IF m \in {n} THEN Nothing
                                      ELSE stored[m]]
        /\ UNCHANGED <<pc, name, got, waited, age, ttwid, web>>
    BY <1>9 DEF Invalidate, TypeOK
  <2>2. QED
    BY <2>1, OnlyForgotten
<1>10. CASE InvalidateAll
  <2>1. /\ Forgotten(Names)
        /\ stored' = [m \in Names |-> IF m \in Names THEN Nothing
                                      ELSE stored[m]]
        /\ UNCHANGED <<pc, name, got, waited, age, ttwid, web>>
    BY <1>10 DEF InvalidateAll
  <2>2. QED
    BY <2>1, OnlyForgotten
<1>11. ASSUME NEW n \in Names, WebChanges(n)
       PROVE  IInv'
  BY <1>11 DEF WebChanges, TypeOK, Data, Replies, AgesBounded, VersionsOrdered
<1>12. CASE Tick
  <2>1. \A c \in Callers : got'[c] = got[c] \/
                           (pc[c] = "reply" /\ got'[c] = Aged(got[c]))
    BY <1>12 DEF Tick
  <2>2. \A n \in Names : /\ stored'[n] = Aged(stored[n])
                         /\ age'[n] = Later(age[n], TTL)
    BY <1>12 DEF Tick
  <2>3. \A c \in Callers : waited'[c] \in 0..ScrapeTimeout
    BY <1>12 DEF Tick, TypeOK
  <2>4. TypeOK'
    <3>1. got' \in [Callers -> Replies]
      BY <1>12, AgedType DEF Tick, TypeOK
    <3>2. stored' \in [Names -> Data]
      BY <1>12, AgedType DEF Tick, TypeOK
    <3>3. waited' \in [Callers -> 0..ScrapeTimeout]
      BY <1>12, <2>3 DEF Tick
    <3>4. age' \in [Names -> 0..TTL]
      BY <1>12 DEF Tick, TypeOK, Later
    <3>5. QED
      BY <1>12, <3>1, <3>2, <3>3, <3>4 DEF Tick, TypeOK
  <2>5. AgesBounded'
    <3>1. ASSUME NEW n \in Names, stored'[n].kind # "none"
          PROVE  stored'[n].read <= age'[n] + ScrapeTimeout
      <4>1. /\ stored[n] \in Data /\ stored[n].read \in Nat
            /\ stored'[n].read \in Nat /\ age[n] \in 0..TTL
        BY <2>4 DEF TypeOK, Data
      <4>2. stored[n].read <= age[n] + ScrapeTimeout
        BY <2>2, <3>1, <4>1, AgedType DEF AgesBounded
      <4>3. /\ stored'[n].read <= stored[n].read + 1
            /\ stored'[n].read <= TTL + ScrapeTimeout
        BY <2>2, <4>1, AgedType DEF Horizon
      <4>4. QED
        BY <2>2, <4>1, <4>2, <4>3 DEF Later
    <3>2. ASSUME NEW c \in Callers, pc'[c] = "reply"
          PROVE  got'[c].read <= waited'[c]
      <4>1. /\ got[c] \in Replies /\ got[c].read \in Nat
            /\ got'[c].read \in Nat /\ waited[c] \in Nat
        BY <2>4 DEF TypeOK, Replies
      <4>2. pc[c] = "reply" /\ waited'[c] = waited[c] + 1
        BY <1>12, <3>2 DEF Tick, Scraping
      <4>3. got[c].read <= waited[c]
        BY <4>2 DEF AgesBounded
      <4>4. got'[c].read <= got[c].read + 1
        BY <2>1, <4>1, AgedType
      <4>5. QED
        BY <4>1, <4>2, <4>3, <4>4
    <3>3. QED
      BY <3>1, <3>2 DEF AgesBounded
  <2>6. VersionsOrdered'
    <3>1. \A n \in Names : /\ stored'[n].kind = stored[n].kind
                           /\ stored'[n].version = stored[n].version
      BY <2>2, AgedType DEF TypeOK
    <3>2. \A c \in Callers : got'[c].version = got[c].version
      BY <2>1, AgedType DEF TypeOK
    <3>3. QED
      BY <1>12, <3>1, <3>2 DEF Tick, VersionsOrdered
  <2>7. QED
    BY <2>4, <2>5, <2>6
<1>13. CASE UNCHANGED vars
  BY <1>13 DEF vars, TypeOK, AgesBounded, VersionsOrdered
<1>14. QED
  BY <1>1, <1>2, <1>3, <1>4, <1>5, <1>6, <1>7, <1>8, <1>9, <1>10, <1>11,
     <1>12, <1>13 DEF Next

(* The invariant holds of the cache for ever.                              *)
LEMMA Invariance == Spec => []IInv
BY InitInv, Step, PTL DEF Spec

-----------------------------------------------------------------------------
(* Nothing is cached but profiles and refusals: an error that says nothing *)
(* about the name is never kept.                                           *)
THEOREM OnlyVerdictsCached == Spec => []TypeOK
BY Invariance, PTL DEF IInv

(* No answer of Fetch or Cached is older than the TTL and the timeout of   *)
(* one request together.                                                   *)
THEOREM NeverTooOld == Spec => []FreshEnough
<1>1. IInv => FreshEnough
  BY TimeAssumption
     DEF IInv, TypeOK, Data, Replies, AgesBounded, FreshEnough, Fresh,
         Horizon
<1>2. QED
  BY <1>1, Invariance, PTL

(* A stale answer takes an overlap: after a moment at which nobody else is *)
(* fetching a name, what was given out or invalidated then is never        *)
(* followed by anything older.                                             *)
THEOREM Forward == Spec => []NeverGoesBack
<1>1. IInv => NeverGoesBack
  BY DEF IInv, TypeOK, Data, Replies, VersionsOrdered, NeverGoesBack, Fresh
<1>2. QED
  BY <1>1, Invariance, PTL

(* No step of any goroutine turns an error of ScrapeProfile into an entry, *)
(* or lets it displace one.                                                *)
THEOREM ErrorsNeverCached == Spec => ErrorsKeepTheCache
<1>1. ASSUME TypeOK, [Next]_vars, NEW c \in Callers,
             pc[c] = "reply", got[c].kind = "scrapeError", pc'[c] = "idle"
      PROVE  stored' = stored /\ age' = age
  <2>1. ~Store(c)
    BY <1>1 DEF Store, IsNegativeCacheable
  <2>2. \A d \in Callers \ {c} : ~Store(d)
    BY <1>1 DEF Store, TypeOK
  <2>3. ~Tick /\ ~InvalidateAll /\ \A n \in Names : ~Invalidate(n)
    BY <1>1 DEF Tick, InvalidateAll, Invalidate
  <2>4. CASE UNCHANGED vars
    BY <2>4 DEF vars
  <2>5. CASE Next
    BY <2>1, <2>2, <2>3, <2>5
       DEF Next, Fetch, Cached, EnsureTTWID, TTWIDArrives, TTWIDFails,
           ServerReads, ScrapeFails, WebChanges
  <2>6. QED
    BY <1>1, <2>4, <2>5
<1>2. TypeOK /\ [Next]_vars =>
        [\A c \in Callers :
            pc[c] = "reply" /\ got[c].kind = "scrapeError" /\ pc'[c] = "idle"
              => stored' = stored /\ age' = age]_vars
  BY <1>1
<1>3. IInv => TypeOK
  BY DEF IInv
<1>4. QED
  BY <1>2, <1>3, Invariance, PTL DEF Spec, ErrorsKeepTheCache

=============================================================================
