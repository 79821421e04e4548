# A TLA+ model of PirateTok live-go

`live-go` is a client library for TikTok Live chat: it resolves a username to a
room over HTTP, opens a WebSocket to the webcast gateway, decodes protobuf
frames into events, and hands them to the caller on one Go channel, reconnecting
in the background. This directory holds TLA+ modules for the parts with state
and concurrency, TLC configurations that check them on small instances, and
proofs for TLAPS.

Contents: 1 the system, 2 the modules, 3 the runs, 4 fairness, 5 the proofs,
6 disagreements found, 7 what is left out, 8 the plan.

## 1. The system

### 1.1 Components

| Component | Source | State it keeps | Operations | Hard behaviour |
|---|---|---|---|---|
| Supervision | `client.go` (`Connect`), `reconnect.go` | held session (ttwid, user agent), retry budget, the channel | `Connect`, `supervise`, `reconnectLoop`, `emitLifecycle`, `sleepCtx` | cancel between any two steps; a reader that stops; retries that never end |
| Reconnect decisions | `reconnect.go` (`judge`, `reconnectBudget`, `backoff`) | `attempt` | pure | off-by-one in the budget, delay of `1<<attempt` |
| WebSocket session | `connection/wss.go`, `connection/frames.go` | the connection, the heartbeat goroutine | `RunWebSocket`, `readLoop`, `processFrame`, heartbeat | two writers on one connection without a lock; a join before the close; a peer that does not read |
| Proxy dialing | `connection/proxy.go` | the connection to the proxy | `proxyNetDial`, `dialThrough`, `httpConnect`, `socks5Connect` | a reply cut short, a length off by one, a silent proxy |
| ttwid acquisition | `auth/ttwid.go` | attempt counter | `FetchTTWID` | bounded retries that do not see the context |
| Profile cache | `helpers/profile_cache.go` | entries with their time, ttwid, a mutex | `Fetch`, `Cached`, `Invalidate`, `InvalidateAll` | the mutex is not held over a request: fetches overlap with each other and with invalidations |
| Gift streaks, likes | `helpers/gift_streak.go`, `helpers/like_accumulator.go` | last total per streak with its time; highest like total | `Process`, `Reset`, eviction | messages dropped, repeated, late; eviction in mid-streak; an `int32` difference |
| Event decoding | `events/router.go`, `events/types.go` | none | `Decode`, sub-routing | which events one message becomes |
| HTTP calls | `http/api.go`, `http/audience.go`, `http/sigi.go` | none | `CheckOnline`, `FetchRoomInfo`, `FetchRoomAudience`, `ScrapeProfile` | which error a reply becomes: block, absence, login, age, or no verdict |
| Locale, user agents, URL, frames, generated protobuf, examples, tests | various | none | formatting, encoding | none that is concurrent |

### 1.2 How they interact

`Connect` checks that the user is online (the room id it gets is the one for
every session that follows), makes a channel of 256 places, puts `Connected` in it and starts one goroutine, `supervise`. That
goroutine is the only one that posts to the channel and the only one that closes
it. It runs `reconnectLoop`: take or fetch credentials (`freshSession`, which
calls `FetchTTWID`), run a session (`RunWebSocket`, in the same goroutine),
judge how it ended, announce the next attempt with `Reconnecting`, sleep, and so
on. A session posts its events to the same channel without ever waiting; a
lifecycle event waits for room until the context is done. Inside a session a
second goroutine writes heartbeats to the connection the read loop also writes
acks to. The caller shares with all this only the context, which it cancels, and
the channel, which it reads or stops reading. The helpers are called by the
reader, outside of all this; the profile cache is safe for several goroutines,
the two accumulators are fed by one.

### 1.3 What makes each component correct

- Supervision: the reader sees `Connected` first, `Disconnected` last, then the
  close; `Reconnecting` notices are numbered without gaps and announce a pause
  in range; nothing but stream events is lost unless the caller cancelled; bad
  credentials are not used again; failures in a row are bounded; a cancel ends
  everything, with or without a reader.
- Session: events in the order of the frames, each once; while the read loop runs
  its room was entered and, as long as the link takes writes, the heartbeat
  lives, and not longer than the loop; the connection is closed, and not under
  a writer; a silent server or a cancel ends the session.
- An acknowledged frame has all its events offered to the channel.
- HTTP calls: a stream opens only for a live room, and its sessions get the room
  id of that reply; a missing login is told as such; an error of the scraper is
  never cached as a verdict on the name.
- Setup: both sides of a handshake agree where they are; the first byte after it
  belongs to the tunnel; a failed setup leaves no connection; the cookie is
  given up on after as many answers as the code says.
- Profile cache: how old an answer can be, and when the cache may go back to an
  older profile.
- Helpers: no gift lost, none counted twice without a cause, and with one no more
  often than there were causes; the like total does not fall.

## 2. The modules

| Module | Models | State and actions against the code |
|---|---|---|
| `EventChannel` | what a channel holds | `Event`, `Reconnecting(n, d)`, the capacity and `MaxRetries` as constants with their assumptions |
| `ReconnectPolicy` | `judge`, `reconnectBudget.record`, `backoff` | pure operators `Judge`, `NextAttempt`, `GivesUp`, `Delay` |
| `EventStream` | abstract: the promise of the channel | `status` of the stream, `buf`, `retryNo`; `Open`, `PostData`, `PostReconnecting`, `End`, `Close`, `Receive`, `Cancel` |
| `Supervisor` | `Connect`, `supervise`, `reconnectLoop`, `emitLifecycle`, `freshSession`, `sleepCtx` | `pc` is the position of the goroutine; the two selects of `emitLifecycle` are `EmitSend`/`EmitCancelled` and `TryEmit`; everything between the return of a session and the next select is one action, `Settle`, as it touches only locals of the goroutine and one look at the context |
| `WssSession` | `RunWebSocket`, `readLoop`, `processFrame`, the heartbeat goroutine, with the server and the reader | `rpc`, `hpc` are the two goroutines; a frame goes out in `WriteHeader` and `WritePayload`, as the library calls `Write` twice; `Stop`, `Join` and the deferred close are steps of their own |
| `EventRouter` | `events.Decode` | operator `Decode`: the events of one message, the raw one and, for three methods and some actions, a convenience event after it |
| `LiveClient` | the two above together: `deps.run` is `runSession` is `RunWebSocket` | instantiates `Supervisor` and `WssSession` on one `buf` and one `ctxDone`; `Resolve` takes the reply to `CheckOnline`, which decides whether there is a loop, and its room id, which every session gets; a session begins with the step of the supervisor into `run`, `EndSession` waits for the return of `RunWebSocket`, passes its result on and drops what was still on its way (`NoConnection`) |
| `RoomLookup` | `CheckOnline`, `FetchRoomInfo`, `resolveAnchorID`, `FetchRoomAudience`, `parseRoomAudience` | operators from a reply (transport, body, status code, the fields that decide) to what the caller is told; `LiveClient` uses `CheckOnline`, where `Supervisor` has a choice between its two outcomes |
| `SessionSetup` | `FetchTTWID`, `proxyNetDial`, `dialThrough`, `httpConnect`, `socks5Connect`, with the proxy | each `Read` is an `io.ReadFull` of that many bytes from `inbox`; the proxy answers in full, breaks off at any byte, or is silent |
| `DialedSession` | one attempt of the loop: `FetchTTWID`, the proxy, the upgrade, the session | `SessionSetup` and `WssSession` one after the other on one context; `conn` is the TCP connection, `wsConn` the WebSocket on it, and closing the second closes the first |
| `ProfileCache` | `ProfileCache` for several goroutines, with time, and `ScrapeProfile` | a `Fetch` is cut where the code takes or drops the mutex or waits for the server; what a page becomes is the operator `ScrapeProfile`, what is kept of it `IsNegativeCacheable` |
| `StreamHelpers` | `GiftStreakTracker`, `LikeAccumulator` | one action per call; the message content is any total and any final flag |

`WssSession` extends `EventRouter`, `LiveClient` extends `RoomLookup`.
`Supervisor` uses `ReconnectPolicy` and instantiates `EventStream` through a
refinement mapping: `status` is a function of `pc`, `cancelled` is `ctxDone`,
and the other variables are its own. `LiveClient` is mapped to `Supervisor` by
forgetting what a stream event says. So a run of the composition is, seen from
the caller, a behaviour of `EventStream`. From the other end, `DialedSession`
implements `WssSession` by forgetting how the dial went, so the chain is:
the dial in its steps inside one step of `WssSession`, `WssSession` inside
`LiveClient`, `LiveClient` inside `Supervisor`, `Supervisor` inside
`EventStream`. `MC*` modules give a module its small
instance and, for a run that is expected to fail, the statement taken from the
documentation. `*Proofs` modules hold the theorems; those of a composition
extend the composition and instantiate the proofs of its parts (section 5).

Some definitions start with "Slip:". They are the forms a definition would have
with a plausible mistake in the code; nothing uses them. `PROJECT.json` pairs
each with the property that notices it, so that every property is known to be
able to fail.

Variables marked "history" are read by no guard. They record what a property
compares with, for instance the number of failures in a row as opposed to the
counter the code keeps.

### Abstractions to know about

- A stream event is one value, `Data`, in `Supervisor`; in `WssSession` it
  carries its type and its place in what the server sent: frame, message and
  position among the events of that message. The content of a message is its
  method, its action and whether it can be decoded; the some sixty methods that
  become one event are one method, `direct`. A frame that cannot be decompressed
  or decoded is only logged and counts among the frames of kind `other`.
- The server of `LiveClient` numbers frames on from session to session. What a
  real server says again after a reconnect is a new frame here;
  `InOrderOverSessions` is about what the client does to the order.
- `Supervisor` sees a session as posts and an end. The end is any exit that is
  possible with or without a connection, and any lifetime of `Lifetimes`. The
  only use of a lifetime is the comparison with 30 s, so one value on each side
  is enough.
- The retry number of a notice, `retryNo`, is the attempt of the last notice put
  in the channel; the channel's content is never compared beyond types, numbers
  and pauses.
- What the server sends right behind its handshake answer may be in the buffered
  reader that `wss.go:97` puts back unread. `DialOpens` loses any number of frames
  this way, and the last of them possibly in part: its end (`Remains`, a frame of
  kind `torn`) is then the first the read loop meets. What a reader makes of bytes
  without framing is open: more frames of whatever kind, a wait that the read
  deadline ends, or an error; while the torn bytes last the server adds to them.
- A link is `up`, `deaf` or `down`. A deaf one takes no more writes and still
  brings messages, so that a failed beat ends the heartbeat goroutine alone
  (`wss.go:137`), while the loop reads on.
- The dial of `WssSession` is one step that opens or fails; `DialedSession` is the
  same session with the steps of the dial.
- A room id is one of three kinds, by what `strconv` makes of it: both frame
  builders take it, only the heartbeat does (above 2^63 - 1), or none. A negative
  number, which only the room entry would take, fails like the last.
- In `DialedSession` a setup that never got a ttwid ends the attempt with an
  error; the loop calls that `exitNoTTWID` and `Supervisor` has it as a case of
  its own. The context interrupts the TLS and WebSocket handshakes (the dialer
  sets a deadline on the connection when it is done) and the TCP dial, not the
  proxy handshake between them.
- `RoomLookup` has each field of a reply by the values its code tells apart. Of
  403 and 429 and of owners there is one each; of room ids one of each kind that
  a session tells apart. A status code may be missing, which Go decodes to zero
  (`CodeIsZero`). The bodies of
  `Pages` in `ProfileCache` are the same for profile pages; private, not found
  and any other status are one refusal, as the cache treats them alike.
- `NameLengths` are the lengths a proxy may give the bound domain of a SOCKS reply,
  any set of bytes 0..255; the runs take the ends.
- In `SessionSetup` the HTTP status and header block is one token, so a byte
  count is checked for SOCKS only. (For HTTP the client speaks first in the
  tunnel, hence nothing of the target can be read too early.) A target host of
  more than 255 bytes and a port that is not a number are not in the model;
  they end the setup as any other proxy error does.
- `ProfileCache` counts time in ticks, and only requests take any. Names are
  already normalised. (`normalizeKey` trims and drops the leading `@`s; for
  `"@ name"` it leaves a leading blank, so it is not idempotent. A caller that
  passes the same string each time is not affected.) The `With*` setters are
  taken to be called before use, as their comments ask.
- `StreamHelpers` has gift totals of both signs, `-(MaxCount + 1)..MaxCount`, and a
  difference that leaves this range wraps round, as an `int32` does with
  `MaxCount` = 2^31 - 1. Like totals are natural numbers. `accumulated`, a plain
  sum, and the diamond products are left out. `upsets` counts what may make the
  tracker count gifts again: a total below the last one, a message after the
  final one, an entry evicted or reset in mid-streak. A negative total counts as
  more upsets than are counted, so only `NeverUndercounts` speaks of streaks with
  one, and of those only when no difference wrapped.

## 3. The runs

| Run | Instance | Shows |
|---|---|---|
| `supervisor` | `Cap` 2, `MaxRetries` 5 (the default), lifetimes 29 and 30 s | order, numbering, loss, budget, credentials, pauses; a cancel closes; the retries end; implements `EventStream` |
| `wss_session` | `Cap` 2, 2 frames, each without messages or with two, up to three events | each kind of room id; order of events, raw before convenience, events of an acknowledged frame, life of the heartbeat and of the connection, ends of a session |
| `live_client` | `Cap` 1, `MaxRetries` 1, lifetimes 29 and 30 s, 2 frames of one event over all sessions, every reply of `CheckOnline` | what `Supervisor` assumes of a session is true of `WssSession`; sessions do not overlap; order over reconnects |
| `session_setup` | 3 ttwid attempts (8 in the code), names of 0 and 255 bytes, every scheme, every credential case, every cut of every reply, and behind each a session of one frame with each kind of room id | agreement, alignment, honest count, no connection left at any step, an end, and that the attempt implements `WssSession` |
| `profile_cache` | 2 goroutines, 2 names, TTL 2 ticks, request timeout 1, one change of a profile | every kind of page; age of answers; no step back without overlap; errors are not cached |
| `stream_helpers` | 2 streaks, totals -3..2, eviction after 2 ticks, 2 upsets | exactness of gift counts, what an upset and an overflow cost; likes never fall |
| `unreachable_host`, `user_agent`, `disconnected_once` | `Cap` 2, `MaxRetries` 2 | see section 6 |
| `frame_interleaving`, `stalled_peer`, `silent_proxy` | one or two frames, two attempts, names of 0 and 255 bytes | see section 6 |

Why the bounds are enough:

- `Cap` 2 lets the channel be empty, neither, and full, with a lifecycle event
  behind a stream event. A lifecycle event waits exactly when the channel is
  full, whatever that takes. The theorems of section 5 hold for every `Cap`.
- `MaxRetries` 5 is the default, and reaches the backoff cap (2^5 = 32 > 30), the
  case where the power and the cap meet. `dead` and `uses` are counted up to
  the value where a property can tell.
- Two frames of up to three events overflow a channel of two both between frames
  and inside one, between the two events of a message too, and leave a frame to
  be acked while a beat is half out.
- In `live_client` one place in the channel makes stream events and notices
  compete for it at every reconnect, two frames let an event of an old session
  meet one of a new one, and `MaxRetries` 1 allows any number of sessions, as
  healthy ends reset the budget.
- One change of a profile makes two versions, which is what it takes to go back.
  Two goroutines give every overlap of two fetches of a name; a third adds
  fetches that overlap both, and the property speaks of pairs. Symmetry of
  goroutines and of names is used, with invariants and with one action property
  that treats all of them alike, and no liveness.
- Three ttwid attempts are a first, one in the middle and a last. The count is
  compared with `FetchAttempts` and used for nothing else, so eight add only
  repetitions. A name of 0 bytes leaves the port alone to be read, one of 255 is
  the longest its byte can say; what is between differs in nothing but the count,
  and `Aligned` is proved for every length. One frame behind the setup is enough for `ImplementsWssSession`:
  the steps of the session are those of `WssSession`, and the run is about what
  comes before them and what they leave open.
- Totals up to 2 give a first, a next and a repeated one, and a jump over one.
  Their range of six values wraps in both directions. Upsets are told apart up
  to one and "more" (`MaxUpsets` 2), so `OvercountIsBounded` is checked for none
  and one here and proved for every number. `credited` stops above the largest
  value a property allows: an excess is visible and stays so.

`CHECK_DEADLOCK FALSE` is set where the system stops: a closed stream that has
been drained, a session that has returned, a setup that is over. `ProfileCache`
and `StreamHelpers` never stop and are checked for deadlock.

## 4. Fairness

- `Supervisor`: `WF(Supervise)`: the goroutine runs, and what it waits for in
  there has a timeout (the HTTP calls) or a timer. `WF(ctxDone /\ EndSession)`:
  a session ends once the context is done. That is an assumption about the
  session. `WssSession` shows it (`CancelReturns`) for a peer that keeps
  reading, and `LiveClient` does without it: its fairness is that of the
  supervisor's own steps and of `WssSession`, and `ImplementsSupervisor`, which
  includes the assumption, holds. `stalled_peer` shows that it fails for a peer
  that stops reading, and `silent_proxy` for a proxy that stops talking. Nothing
  is assumed of the reader, of the caller, or of a session that nobody cancels,
  so `CancelCloses` holds with a reader that has gone.
- `WssSession`: weak fairness of the two goroutines' own steps, of the read
  deadline, and of writes that fail on a dead link or a room id (`GreetFails`,
  `BeatFails`). Strong fairness of
  `HeartbeatStops`: in the goroutine's `select` the done channel and the tick may
  both be ready, and Go picks at random, so the tick cannot win for ever.
  `Spec` adds that writes complete (the peer reads); `ClientFairSpec` does not.
- `SessionSetup`: `ClientSpec` has weak fairness of the client only. `Spec` adds
  that the proxy answers or leaves.
- `DialedSession`: the fairness of `SessionSetup` and of `WssSession`, the
  second for a step together with what it does to the TCP connection. The
  fairness of `WssSession` (a done context ends a dial) is among what
  `ImplementsWssSession` shows of it, as long as the proxy answers or leaves.
- `EventStream`: weak fairness of `cancelled /\ (End \/ Close)`.

## 5. The proofs

All are checked by `tlapm`, for every value of the constants that their
assumptions allow: `Cap` at least one, `MaxRetries` any integer the code takes
(a non-positive one means no retry), `Lifetimes` any non-empty set of naturals,
any set of goroutines, names and streaks, any TTL and timeout, any number of
ttwid attempts from one, any number of frames, and for the bodies of frames any
non-empty set of sequences of messages. `DialedSession` and `LiveClient` assume
of their constants what their parts do (`SessionAssumption`,
`ClientAssumption`), since the prover does not pass an assumption through an
`INSTANCE`.

### The supervisor

- `EventStreamProofs`: `Typed`, `WellFormed`. `StreamWellFormed` is inductive
  together with the types.
- `SupervisorProofs`: `Typing`, `Budget`, `Discipline`, `Delivery`, `Cancelled`,
  `Paced`, `Refinement`, `Shape`. The invariant is `IInv`: the types, the budget with
  what it means at each position (the code's `attempt` is `fails`, or one more
  once an attempt was healthy; between the select and the next attempt the
  retry limit is respected), the link of `pending` to the position, and the
  link of `retryNo` to `attempt`, without which the numbering of notices is not
  preserved. The step proof has one step per action. `Refinement` maps every
  action to an action of `EventStream` or to a stutter: `Connect` is `Open`,
  `SessionEvent` is `PostData`, a post of a notice is `PostReconnecting`, a post
  or a permitted loss of `Disconnected` is `End`, and the rest stutters. `Shape`
  is not proved again: it follows from `WellFormed` and the refinement.
  `Paced` needs that `attempt` is `fails` or one more, and what `backoff` makes of
  that. `BackoffGrows` says it: the exponents the code can reach are the few
  below its cap, and the lemma goes through them.

### A session

- `WssSessionProofs`: `Typing`, `HeartbeatKept`, `Quiet`, `Ordered`, `RawFirst`,
  `Acked`. None of the invariants is inductive alone. `Positions` ties the two
  goroutines to each other, to the connection and to the half-written frames; it
  gives `QuietAfterReturn`. `Greeted` says that the loop is reached, and a heartbeat exists, only for a room
  id that both frames take; without it, a heartbeat that fails to build its frame
  would end while the loop reads. `Arrived` orders the frames on their way by
  their number, behind the frame in work; `Placed` and `Posted` say that an event
  in the channel lies before the place reached in the frame in work and before
  all that has not been read. So what `Deliver` appends is later than what the
  channel holds. `Parsed` says that this place exists, from
  `DecodeShape`: a message gives one event or two, the first of them raw. The
  lemmas of a step ask nothing of what else the channel holds (`SessionInv` leaves
  it out), so that they serve a client with several sessions on one channel.
- `SessionSetupProofs`: `Agreed`, `Aligned`, `Honest`, and `Typing`; `UnderFairness`
  states them for the specification the runs use. The invariant follows the bytes: between
  two exchanges nothing is asked and nothing unread (`BetweenExchanges`); in an
  exchange the reply is whole, or cut short by a proxy that has left
  (`ShortReplies`, `RequestReply`). For the reply to a SOCKS request this says how
  many bytes are left at each read, by the address type and, for a domain, the
  byte with its length. `TunnelAligned` is then arithmetic: `skip + 2` bytes are
  left and as many are read. A reply cut short never has that many, which is
  what rules out a tunnel on half a reply.

### The compositions

`DialedSessionProofs` and `LiveClientProofs` take the lemmas of the parts by
`WP == INSTANCE WssSessionProofs` and `SP == INSTANCE SupervisorProofs`. `W` and
`WP`, `Sup` and `SP` are the same modules with the same substitutions, but to the
prover they are different names; the lemmas called `Same...` say that they agree,
definition by definition.

- `DialedSessionProofs`: `DialedTyping`, `NothingLeft`, `SetupPromises`, `Refines`,
  `SessionPromises`. The invariant is that of the setup, that of the session, and
  `Stages`: until the setup is over the session is in its dial and has no
  connection, and from then on the TCP connection is open exactly until
  `RunWebSocket` has returned. `NothingLeftOpen` needs this to hold across the
  handover. `Refines` is the safety part of `ImplementsWssSession`; `SessionPromises`
  carries the theorems of `WssSessionProofs` over, so they are true behind every
  proxy and every setup.
- `LiveClientProofs`: `LiveTyping`, `OneAtATime`, `InOrder`, `Refines`,
  `SupervisorPromises`, `ChannelPromise`, `AckedOverSessions`. The invariant is that of the supervisor, which sees the
  channel without numbers, that of the session, the placing of events over all
  sessions, and `Alternate`: outside `run` the session has returned, and
  before `Connect` has found a room there was none. `NewSessionInv`
  is the step in which the proof meets the reconnect: a new session begins with
  nothing of the last one, and what the last one posted stays earlier than
  whatever comes. `PlainAppend` and `PlainTail` say that forgetting the numbers
  commutes with posting and taking. `Refines` is the safety part of
  `ImplementsSupervisor`: what `Supervisor` takes for granted of a session is true of
  `RunWebSocket`. `SupervisorPromises` carries the theorems of `SupervisorProofs`
  over to real sessions, and `ChannelPromise` the refinement of `EventStream`: from
  sockets to the promise of the channel in one chain. `AckedOverSessions` needs
  `Alternate`: the step from one session to the next drops no frame in work.
  `SessionRequiredIsTold` is about `RoomLookup` alone: what a caller of
  `FetchRoomAudience` without a login is told, by cases on the two replies; there
  is no state and no invariant.

### The helpers

- `ProfileCacheProofs`: `OnlyVerdictsCached`, `NeverTooOld`, `Forward`,
  `ErrorsNeverCached` (an action property, from the types). The
  invariant adds two facts to the types: an entry's data is older than the entry
  by no more than the request timeout, and versions are ordered (what a
  goroutine holds, what is stored and what was given out never exceed the
  current one, and no request under way without overlap holds less than the
  floor).
- `StreamHelpersProofs`: `Typing`, `NoGiftLost`, `NoGiftTwice`, `OvercountBound`,
  `LikesNeverFall`. The invariant (`EntriesFit`, `Counted`, `HoldsHighest`) says that
  an entry's total is within the highest one; that what was handed out of a streak
  is at most its highest total for each upset and, on top, what is `Held` (the
  entry's total or, after the final message, the highest); that a streak without
  upsets holds its highest total; and that `maxTotal` is the highest like total
  since the last reset. What is held is what an upset may lose and the next total
  counts again, so each upset pays for one highest total (`Forgotten`, `Charge`).

### Only model-checked

Every safety property of a passing run has a theorem. What rests on TLC alone
is liveness, which the provers at hand do not reach: `CancelCloses`,
`RetriesEnd`, `CancelReturns`, `OpenSessionEnds`, `SetupEnds`, and the fairness
part of `ImplementsEventStream`, `ImplementsSupervisor` and
`ImplementsWssSession`.

## 6. Disagreements found

Each is a run that checks what a document, comment or test says, and fails.

- `unreachable_host`. `lived` is measured from before the dial
  (`reconnect.go:49`), and the dialer has no timeout of its own. An attempt that
  takes 30 s to fail counts as a healthy session and resets the budget, so a host
  that never answers is retried for ever, against `README.md:99`.
- `user_agent`. The user agent stays with the session until it is rotated, so a
  reconnect may use the same one again; `client.go:91` says one is picked on
  each reconnect.
- `disconnected_once`. After a cancel with a full channel, `Disconnected` is
  dropped and the channel is closed without it; `reconnect.go:30` and the
  changelog say exactly once. (`EventStream` states what does hold.)
- `frame_interleaving`. The heartbeat goroutine and an ack write to one
  connection without a lock, each frame in two writes, so they can mix. The
  test server requires every frame to decode.
- `stalled_peer`. Writes have no deadline and the connection is closed only after
  the heartbeat goroutine was joined, so a peer that stops reading holds the
  session after a cancel.
- `silent_proxy`. The handshake with a proxy runs without deadline and without
  the context, so a silent proxy holds the setup after a cancel.

Behaviours worth knowing that no run fails on: from the start the loop gives
up after `MaxRetries + 1` failures in a row, after a healthy session after
`MaxRetries` (`BudgetHonest` says both). `README.md:99` has "Max consecutive failed
attempts (reset after a 30s healthy session)" and `README.md:143` "until the
context is cancelled or `MaxRetries` consecutive attempts fail", which fits the
second only; `client.go:78` counts reconnection attempts and `reconnect_test.go`
expects the first. The "8 retries" for a ttwid are eight
attempts; a session closed cleanly within 30 s keeps its credentials; entries of
the profile cache stay in the map after they expire; a fetch that overlaps an
`Invalidate` can bring the old profile back (`NeverGoesBack` says exactly when).
Further:

- `CheckOnline` looks at no HTTP status but 403 and 429, and takes a missing status
  code for zero: any other JSON object, `{}` or the body of a server error, is told
  as `HostNotOnlineError` (`api.go:136`).
- After a streak's total was negative, the difference to a later one may leave the
  range of an `int32`: then a total is lost, or one that fell is counted as a rise
  (`gift_streak.go:68`). Totals of 0 or more cannot do that.
- A beat that fails on a link that still reads ends the heartbeat for the rest of
  the session (`wss.go:137`); the session goes on until the server or the read
  deadline ends it.
- A silent server ends a session with no error after 60 s, long enough to be a
  healthy end, so a room that has gone quiet is reconnected to for as long as the
  context lasts. `RetriesEnd` names this exception.
- `FetchRoomAudience` with an empty anchor id asks room info first, with the same
  cookies. Without a login an 18+ room is then told as `AgeRestrictedError`, and
  a room without an owner as a plain error, where `README.md:131` names
  `SessionRequiredError` (`SessionRequiredIsTold` says exactly when).
- A room id above 2^63 - 1 passes the heartbeat and fails the room entry: every
  session ends right after its first frame, until the retries are used up. The
  ids TikTok gives out are far below.
- The room id is resolved once per `Connect`. A host who ends the stream and
  starts another is not found again by the loop, which goes on with the old room.
- A profile status the code does not know (`ProfileError`) is cached for the TTL
  like a private or missing profile.
- The streak tracker counts a gift that is not a combo as one; `DiamondTotal`
  multiplies by `RepeatCount` for any gift. The two agree when such a gift comes
  with a count of one.

## 7. What is left out, and why

- Generated protobuf code: 17 500 of the repository's 20 800 lines of
  implementation, produced by `protoc` from the two `.proto` files. Its getters
  and setters decide nothing. The models cover about two fifths of the
  rest, which also counts the programs and test tools below, and most of the
  reconnect, session, proxy, event and helper code.
- URL and query building, header values, copying JSON fields into the result
  structs (`parseStreamURLs`, `audienceViewer`, `jsonStr_field` and the like), the
  search for the script tag in a profile page: what can go wrong there is a page
  that cannot be read, which is a kind of reply in the models.
- Locale, time zone, user agent pool: string work on the environment, without
  state; the outcome goes into URLs and headers only.
- Frame encoding and gzip but for the conversion of the room id: a frame that
  cannot be decoded is of kind `other`.
- Viewer ranking: a filter and a stable sort over one message.
- Example programs: callers of the library, which appear as the reader of the
  channel and the owner of the context. The source discipline scanner and the
  test fakes: no logic of the library.

## 8. The plan

Order, with what is done:

1. `ReconnectPolicy`, `EventStream`, `Supervisor`: the core, and the refinement
   between the last two. Done, proved.
2. `WssSession`: the session under it. Done, proved.
3. `ProfileCache`, `StreamHelpers`: the helpers with state. Done, proved.
4. `SessionSetup`: what comes before a session. Done, proved.
5. `EventRouter`, used by `WssSession`, and `LiveClient`: `WssSession` inside
   `Supervisor`. Done, proved.
6. `DialedSession`: `SessionSetup` as the dial of `WssSession`, and that it
   implements it. Done, proved. `RoomLookup` and the pages of
   `ProfileCache`: the decisions of the HTTP calls, used where `LiveClient` and
   `ProfileCache` took their outcomes as given. Done, proved.
7. Proofs still to do: what `Decode` makes of every message, what `Judge` makes of
   every exit and what `ScrapeProfile` makes of every page, as theorems of their
   own; that `SessionPromises` and `ChannelPromise` hold of one client whose
   sessions are dialed, which needs a module that composes all three.
