---------------------------- MODULE ProfileCache ----------------------------
(***************************************************************************)
(* ProfileCache of the helpers package: Fetch, Cached, Invalidate and      *)
(* InvalidateAll called from several goroutines.  The mutex is held only   *)
(* for a lookup or a store, never over a request, so a Fetch is a sequence *)
(* of atomic steps: the lookup, the look at the ttwid, the ttwid request,  *)
(* the profile request (the server reads the profile, then the reply       *)
(* travels back) and the store.                                            *)
(*                                                                         *)
(* pc[c] is the position of goroutine c in Fetch: "idle" outside, "ensure" *)
(* before ensureTTWID, "ttwid" in FetchTTWID, "scrape" while the request   *)
(* has not been answered, "reply" while the answer is on its way.          *)
(*                                                                         *)
(* Time passes in ticks, and only ages are kept: that of an entry up to    *)
(* TTL and that of what the server said up to Horizon, above which no      *)
(* decision and no property tells them apart.  A request ends within       *)
(* ScrapeTimeout, the timeout of the http.Client.  Names are as            *)
(* normalizeKey leaves them.                                               *)
(***************************************************************************)
EXTENDS Integers

CONSTANTS Callers, Names,
          TTL,            \* 300 s by default
          ScrapeTimeout,  \* 15 s
          MaxVersion      \* how often a profile changes, at the most

ASSUME TimeAssumption    == TTL \in Nat /\ ScrapeTimeout \in Nat
ASSUME VersionAssumption == MaxVersion \in Nat

Horizon == TTL + ScrapeTimeout

(* A profile page: whether its JSON blob is there and can be read down to  *)
(* the user detail, the status in it, and whether it holds a user.         *)
Pages == [blob : {"missing", "broken", "read"}, user : BOOLEAN,
          status : {"ok", "private", "notFound", "other"}]

(* What ScrapeProfile makes of it; the refusals are one here.              *)
ScrapeProfile(page) ==
    CASE page.blob = "read" /\ page.status # "ok"              -> "refusal"
      [] page.blob = "read" /\ page.status = "ok" /\ page.user -> "profile"
      [] OTHER                                                 -> "scrapeError"

Answers == {ScrapeProfile(page) : page \in Pages}

(* Slip: every error of ScrapeProfile is worth keeping.                    *)
EveryErrorIsCacheable(answer) == answer # "profile"

(* Private, not found and any other status: the page speaks of the name.   *)
IsNegativeCacheable(answer) == answer = "refusal"

(* An entry of the cache, or a reply: version is the state of the profile  *)
(* that the server saw, read the time since then.                          *)
Verdicts == {"profile", "refusal"}
Data     == [kind : Verdicts \cup {"none"}, version : 0..MaxVersion,
             read : 0..Horizon]
Replies  == [kind : Answers \cup {"none"}, version : 0..MaxVersion,
             read : 0..Horizon]

Nothing == [kind |-> "none", version |-> 0, read |-> 0]

VARIABLES
    pc, name,   \* what each goroutine is doing, and for which name
    got,        \* what the server answered a goroutine in a Fetch
    waited,     \* how long its profile request has been under way
    stored,     \* the map of entries, Nothing where there is none
    age,        \* time since an entry was stored
    ttwid,      \* the cache holds a ttwid
    web,        \* the profile as it is now, by its version
    floor       \* history: a version of each name that was given out, or
                \* was current at an Invalidate, while no other Fetch of
                \* that name was under way

vars == <<pc, name, got, waited, stored, age, ttwid, web, floor>>

TypeOK ==
    /\ pc \in [Callers -> {"idle", "ensure", "ttwid", "scrape", "reply"}]
    /\ name \in [Callers -> Names]
    /\ got \in [Callers -> Replies]
    /\ waited \in [Callers -> 0..ScrapeTimeout]
    /\ stored \in [Names -> Data]
    /\ age \in [Names -> 0..TTL]
    /\ ttwid \in BOOLEAN
    /\ web \in [Names -> 0..MaxVersion]
    /\ floor \in [Names -> 0..MaxVersion]

Init ==
    /\ pc = [c \in Callers |-> "idle"]
    /\ name \in [Callers -> Names]
    /\ got = [c \in Callers |-> Nothing]
    /\ waited = [c \in Callers |-> 0]
    /\ stored = [n \in Names |-> Nothing]
    /\ age = [n \in Names |-> 0]
    /\ ttwid = FALSE
    /\ web = [n \in Names |-> 0]
    /\ floor = [n \in Names |-> 0]

(* No goroutine but those of S is inside a Fetch of n.                     *)
QuietBut(S, n) == \A c \in Callers \ S : pc[c] # "idle" => name[c] # n

AtLeast(v, w) == IF v < w THEN w ELSE v

(* History: the goroutines of S, and they only, have to do with n as its   *)
(* version v is given out.                                                 *)
GivenOut(S, n, v) ==
    floor' = IF QuietBut(S, n) THEN [floor EXCEPT ![n] = AtLeast(@, v)]
             ELSE floor

-----------------------------------------------------------------------------
(* An entry that is not older than the TTL.                                *)
Fresh(n) == stored[n].kind # "none" /\ age[n] < TTL

(* A call that is answered from the cache returns at once.                 *)
Hit(c, n) ==
    /\ Fresh(n)
    /\ GivenOut({c}, n, stored[n].version)
    /\ UNCHANGED <<pc, name>>

Miss(c, n) ==
    /\ ~Fresh(n)
    /\ pc' = [pc EXCEPT ![c] = "ensure"]
    /\ name' = [name EXCEPT ![c] = n]
    /\ UNCHANGED floor

(* Slip: an entry that is asked for stays fresh.                           *)
FetchRenews(c, n) ==
    /\ pc[c] = "idle"
    /\ Hit(c, n) \/ Miss(c, n)
    /\ age' = [age EXCEPT ![n] = IF Fresh(n) THEN 0 ELSE @]
    /\ UNCHANGED <<got, waited, stored, ttwid, web>>

(* The lookup of Fetch, under the lock.                                    *)
Fetch(c, n) ==
    /\ pc[c] = "idle"
    /\ Hit(c, n) \/ Miss(c, n)
    /\ UNCHANGED <<got, waited, stored, age, ttwid, web>>

EnsureTTWID(c) ==
    /\ pc[c] = "ensure"
    /\ pc' = [pc EXCEPT ![c] = IF ttwid THEN "scrape" ELSE "ttwid"]
    /\ UNCHANGED <<name, got, waited, stored, age, ttwid, web, floor>>

(* Goroutines that found no ttwid each fetch one; the last to return sets  *)
(* it.                                                                     *)
TTWIDArrives(c) ==
    /\ pc[c] = "ttwid"
    /\ ttwid' = TRUE
    /\ pc' = [pc EXCEPT ![c] = "scrape"]
    /\ UNCHANGED <<name, got, waited, stored, age, web, floor>>

(* The answer to a call that has no profile and no verdict.                *)
NoAnswer(c) ==
    /\ pc' = [pc EXCEPT ![c] = "idle"]
    /\ got' = [got EXCEPT ![c] = Nothing]
    /\ waited' = [waited EXCEPT ![c] = 0]

TTWIDFails(c) ==
    /\ pc[c] = "ttwid"
    /\ NoAnswer(c)
    /\ UNCHANGED <<name, stored, age, ttwid, web, floor>>

(* The server answers the profile request with what it has now, or with a  *)
(* page that says nothing about the profile.                               *)
ServerReads(c) ==
    /\ pc[c] = "scrape"
    /\ pc' = [pc EXCEPT ![c] = "reply"]
    /\ \E k \in Answers :
          got' = [got EXCEPT ![c] = [kind |-> k, version |-> web[name[c]],
                                     read |-> 0]]
    /\ UNCHANGED <<name, waited, stored, age, ttwid, web, floor>>

(* Slip: every error of ScrapeProfile is cached.                           *)
ScrapeFailsCached(c) ==
    /\ pc[c] \in {"scrape", "reply"}
    /\ NoAnswer(c)
    /\ stored' = [stored EXCEPT ![name[c]] = [Nothing EXCEPT !.kind = "error"]]
    /\ age' = [age EXCEPT ![name[c]] = 0]
    /\ UNCHANGED <<name, ttwid, web, floor>>

(* The request fails or times out, or the page has no verdict: not cached. *)
ScrapeFails(c) ==
    /\ pc[c] \in {"scrape", "reply"}
    /\ NoAnswer(c)
    /\ UNCHANGED <<name, stored, age, ttwid, web, floor>>

(* The verdict is stored, whatever the entry is by now, and returned.      *)
Store(c) ==
    /\ pc[c] = "reply"
    /\ got[c].kind = "profile" \/ IsNegativeCacheable(got[c].kind)
    /\ stored' = [stored EXCEPT ![name[c]] = got[c]]
    /\ age' = [age EXCEPT ![name[c]] = 0]
    /\ pc' = [pc EXCEPT ![c] = "idle"]
    /\ got' = [got EXCEPT ![c] = Nothing]
    /\ waited' = [waited EXCEPT ![c] = 0]
    /\ GivenOut({c}, name[c], got[c].version)
    /\ UNCHANGED <<name, ttwid, web>>

(* Cached never asks the server and keeps refusals to itself; on a miss or *)
(* a refusal it returns nil and nothing changes.                           *)
Cached(c, n) ==
    /\ pc[c] = "idle"
    /\ Fresh(n) /\ stored[n].kind = "profile"
    /\ GivenOut({c}, n, stored[n].version)
    /\ UNCHANGED <<pc, name, got, waited, stored, age, ttwid, web>>

-----------------------------------------------------------------------------
(* History: S is invalidated.                                              *)
Forgotten(S) ==
    floor' = [n \in Names |-> IF n \in S /\ QuietBut({}, n)
                              THEN AtLeast(floor[n], web[n]) ELSE floor[n]]

(* Slip: the name is not normalised and misses the entry.                  *)
InvalidateMisses(n) ==
    /\ Forgotten({n})
    /\ UNCHANGED <<pc, name, got, waited, stored, age, ttwid, web>>

Invalidate(n) ==
    /\ stored' = [stored EXCEPT ![n] = Nothing]
    /\ Forgotten({n})
    /\ UNCHANGED <<pc, name, got, waited, age, ttwid, web>>

InvalidateAll ==
    /\ stored' = [n \in Names |-> Nothing]
    /\ Forgotten(Names)
    /\ UNCHANGED <<pc, name, got, waited, age, ttwid, web>>

WebChanges(n) ==
    /\ web[n] < MaxVersion
    /\ web' = [web EXCEPT ![n] = @ + 1]
    /\ UNCHANGED <<pc, name, got, waited, stored, age, ttwid, floor>>

Later(t, bound) == IF t < bound THEN t + 1 ELSE t

Aged(d) == [d EXCEPT !.read = Later(@, Horizon)]

Scraping(c) == pc[c] \in {"scrape", "reply"}

(* Time passes for the entries and for the requests under way, none of     *)
(* which outlives its timeout.                                             *)
Tick ==
    /\ \A c \in Callers : Scraping(c) => waited[c] < ScrapeTimeout
    /\ waited' = [c \in Callers |-> IF Scraping(c) THEN waited[c] + 1
                                    ELSE waited[c]]
    /\ got' = [c \in Callers |-> IF pc[c] = "reply" THEN Aged(got[c])
                                 ELSE got[c]]
    /\ stored' = [n \in Names |-> Aged(stored[n])]
    /\ age' = [n \in Names |-> Later(age[n], TTL)]
    /\ UNCHANGED <<pc, name, ttwid, web, floor>>

Next ==
    \/ \E c \in Callers :
          \/ \E n \in Names : Fetch(c, n) \/ Cached(c, n)
          \/ EnsureTTWID(c) \/ TTWIDArrives(c) \/ TTWIDFails(c)
          \/ ServerReads(c) \/ ScrapeFails(c) \/ Store(c)
    \/ \E n \in Names : Invalidate(n) \/ WebChanges(n)
    \/ InvalidateAll \/ Tick

Spec == Init /\ [][Next]_vars

-----------------------------------------------------------------------------
(* Whatever order and overlap of calls produced it, an entry that can      *)
(* still be handed out describes the profile as it was less than the TTL   *)
(* and one request timeout ago, and an answer that a Fetch is about to     *)
(* store and return as it was no more than the request timeout ago.        *)
FreshEnough ==
    /\ \A n \in Names : Fresh(n) => stored[n].read < Horizon
    /\ \A c \in Callers : pc[c] = "reply" => got[c].read <= ScrapeTimeout

(* The cache goes back in time only through fetches that overlap: what was *)
(* given out, or invalidated, while no other Fetch of the name was under   *)
(* way is never followed by anything older, from the cache or from a       *)
(* request still under way.                                                *)
NeverGoesBack ==
    /\ \A n \in Names : Fresh(n) => stored[n].version >= floor[n]
    /\ \A c \in Callers :
          pc[c] = "reply" => got[c].version >= floor[name[c]]

(* A page without a verdict, a challenge to a flagged ttwid say, costs its *)
(* caller the answer and nobody else the entry that is there: the cache    *)
(* never takes an error of its own for something said about the name.      *)
ErrorsKeepTheCache ==
    [][\A c \in Callers :
          pc[c] = "reply" /\ got[c].kind = "scrapeError" /\ pc'[c] = "idle"
            => stored' = stored /\ age' = age]_vars

=============================================================================
