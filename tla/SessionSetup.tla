---------------------------- MODULE SessionSetup ----------------------------
(***************************************************************************)
(* What a session goes through before its first frame: FetchTTWID, then    *)
(* the dial of RunWebSocket, straight or through a proxy with httpConnect  *)
(* or socks5Connect.  The proxy is the other party; it may accept, refuse, *)
(* choose a method nobody offered, break off in the middle of a reply, or  *)
(* say nothing.                                                            *)
(*                                                                         *)
(* pc: "ttwid" (a request is out), "pause" between two requests, "dial",   *)
(* then the exchange with the proxy, "greet", "method", "login",           *)
(* "verdict", "ask", "status" (HTTP), "head", "domain", "bound" (SOCKS),   *)
(* and "open" or "failed".  The handshakes of TLS and WebSocket that       *)
(* follow are DialedSession's.                                             *)
(***************************************************************************)
EXTENDS Integers, Sequences

CONSTANTS FetchAttempts,    \* 8 in the code
          NameLengths       \* lengths of the domain names a proxy binds to

ASSUME AttemptsAssumption == FetchAttempts \in Nat \ {0}
ASSUME LengthsAssumption  == NameLengths \subseteq 0..255

Schemes   == {"direct", "http", "socks5", "other"}
Messages  == {"greeting", "login", "request"}

VARIABLES
    scheme,     \* how the proxy URL says to dial
    creds,      \* its credentials: "none", "fit", or "tooLong" for SOCKS
    pc, ctxDone,
    tries,      \* ttwid requests that brought no cookie
    skip,       \* bytes of the bound address still to read, without port
    conn,       \* "none", "open", "closed"
    why,        \* what failed
    asked,      \* the client's message on its way to the proxy
    proxy,      \* what the proxy waits for, or "tunnel", or "gone"
    inbox       \* bytes from the proxy that have not been read

client == <<pc, tries, skip, conn, why>>
peer   == <<proxy, inbox>>
setup  == <<scheme, creds>>
vars   == <<setup, client, ctxDone, asked, peer>>

TypeOK ==
    /\ scheme \in Schemes /\ creds \in {"none", "fit", "tooLong"}
    /\ pc \in {"ttwid", "pause", "dial", "greet", "method", "login",
               "verdict", "ask", "status", "head", "domain", "bound",
               "open", "failed"}
    /\ ctxDone \in BOOLEAN
    /\ tries \in 0..FetchAttempts
    /\ skip \in Nat
    /\ conn \in {"none", "open", "closed"}
    /\ why \in {"none", "transport", "noCookie", "scheme", "dial", "proxy"}
    /\ asked \in Messages \cup {"none"}
    /\ proxy \in Messages \cup {"tunnel", "gone"}
    /\ inbox \in Seq(Nat)

Init ==
    /\ scheme \in Schemes /\ creds \in {"none", "fit", "tooLong"}
    /\ pc = "ttwid" /\ ctxDone \in BOOLEAN
    /\ tries = 0 /\ skip = 0
    /\ conn = "none" /\ why = "none"
    /\ asked = "none" /\ inbox = << >>
    /\ proxy = IF scheme = "socks5" THEN "greeting" ELSE "request"

(* Slip: the connection to the proxy stays open.                           *)
FailLeaks(reason) ==
    /\ pc' = "failed" /\ why' = reason
    /\ UNCHANGED <<tries, skip, conn>>

(* Whatever fails after the connection to the proxy is up closes it.       *)
Fail(reason) ==
    /\ pc' = "failed" /\ why' = reason
    /\ conn' = IF conn = "open" THEN "closed" ELSE conn
    /\ UNCHANGED <<tries, skip>>

GoOn(next) ==
    /\ pc' = next
    /\ UNCHANGED <<tries, skip, conn, why>>

-----------------------------------------------------------------------------
(* Slip: one attempt too many.                                             *)
NoCookieOnceMore ==
    /\ pc = "ttwid"
    /\ IF tries > FetchAttempts
       THEN Fail("noCookie")
       ELSE /\ pc' = "pause" /\ tries' = tries + 1
            /\ UNCHANGED <<skip, conn, why>>
    /\ UNCHANGED <<setup, ctxDone, asked, peer>>

(* Slip: giving up one attempt early.                                      *)
NoCookieTooSoon ==
    /\ pc = "ttwid"
    /\ tries' = tries + 1
    /\ IF tries' >= FetchAttempts - 1
       THEN pc' = "failed" /\ why' = "noCookie"
       ELSE pc' = "pause" /\ UNCHANGED why
    /\ UNCHANGED <<setup, skip, conn, ctxDone, asked, peer>>

(* Slip: the attempts are not counted.                                     *)
NoCookieUncounted ==
    /\ pc = "ttwid"
    /\ GoOn("pause")
    /\ UNCHANGED <<setup, ctxDone, asked, peer>>

(* A response without the cookie: give up after FetchAttempts of them.     *)
NoCookie ==
    /\ pc = "ttwid"
    /\ tries' = tries + 1
    /\ IF tries' >= FetchAttempts
       THEN pc' = "failed" /\ why' = "noCookie"
       ELSE pc' = "pause" /\ UNCHANGED why
    /\ UNCHANGED <<setup, skip, conn, ctxDone, asked, peer>>

(* A response with the cookie, or no response: no second try for the       *)
(* latter.  Nothing here looks at the context.                             *)
TTWIDAnswers ==
    /\ pc = "ttwid"
    /\ GoOn("dial") \/ Fail("transport")
    /\ UNCHANGED <<setup, ctxDone, asked, peer>>

RetryTTWID ==
    /\ pc = "pause"
    /\ GoOn("ttwid")
    /\ UNCHANGED <<setup, ctxDone, asked, peer>>

(* proxyNetDial and dialThrough.  A done context makes the dial fail.      *)
Dial ==
    /\ pc = "dial"
    /\ \/ scheme = "other" /\ Fail("scheme")
       \/ scheme # "other" /\ Fail("dial")
       \/ /\ scheme # "other" /\ ~ctxDone
          /\ conn' = "open"
          /\ pc' = CASE scheme = "direct" -> "open"
                     [] scheme = "http"   -> "ask"
                     [] OTHER             -> "greet"
          /\ UNCHANGED <<tries, skip, why>>
    /\ UNCHANGED <<setup, ctxDone, asked, peer>>

-----------------------------------------------------------------------------
(* The three messages to the proxy.                                        *)
Send(msg, next) ==
    /\ \/ proxy # "gone" /\ asked' = msg /\ GoOn(next)
       \/ proxy = "gone" /\ Fail("proxy") /\ UNCHANGED asked
    /\ UNCHANGED <<setup, ctxDone, peer>>

Greet == pc = "greet" /\ Send("greeting", "method")

Login ==
    /\ pc = "login"
    /\ \/ creds = "fit" /\ Send("login", "verdict")
       \/ /\ creds = "tooLong" /\ Fail("proxy")
          /\ UNCHANGED <<setup, ctxDone, asked, peer>>

Ask ==
    /\ pc = "ask"
    /\ Send("request", IF scheme = "http" THEN "status" ELSE "head")

(* io.ReadFull of n bytes: all of them, or an error when the proxy has     *)
(* left before sending so many.                                            *)
Read(n) ==
    /\ Len(inbox) >= n
    /\ inbox' = SubSeq(inbox, n + 1, Len(inbox))
    /\ UNCHANGED <<setup, ctxDone, asked, proxy>>

CutShort(n) == Len(inbox) < n /\ proxy = "gone"

Method == IF creds = "none" THEN 0 ELSE 2

(* Slip: the method the proxy chose is not compared with the one offered.  *)
ReadMethodUnchecked ==
    /\ pc = "method" /\ Read(2)
    /\ IF inbox[1] = 5 /\ inbox[2] # 255
       THEN GoOn(IF creds = "none" THEN "ask" ELSE "login")
       ELSE Fail("proxy")

ReadMethod ==
    /\ pc = "method" /\ Read(2)
    /\ IF inbox[1] = 5 /\ inbox[2] = Method
       THEN GoOn(IF creds = "none" THEN "ask" ELSE "login")
       ELSE Fail("proxy")

ReadVerdict ==
    /\ pc = "verdict" /\ Read(2)
    /\ IF inbox[2] = 0 THEN GoOn("ask") ELSE Fail("proxy")

(* http.ReadResponse: one token stands for the response.                   *)
ReadStatus ==
    /\ pc = "status" /\ Read(1)
    /\ IF inbox[1] = 200 THEN GoOn("open") ELSE Fail("proxy")

(* The length of the bound address follows from its type: IPv4, IPv6, or a *)
(* domain name whose length comes first.                                   *)
ReadHead ==
    /\ pc = "head" /\ Read(4)
    /\ IF inbox[2] # 0 \/ inbox[4] \notin {1, 3, 4}
       THEN Fail("proxy")
       ELSE /\ pc' = IF inbox[4] = 3 THEN "domain" ELSE "bound"
            /\ skip' = CASE inbox[4] = 1 -> 4 [] inbox[4] = 4 -> 16
                         [] OTHER -> skip
            /\ UNCHANGED <<tries, conn, why>>

ReadDomain ==
    /\ pc = "domain" /\ Read(1)
    /\ pc' = "bound" /\ skip' = inbox[1]
    /\ UNCHANGED <<tries, conn, why>>

(* Slip: the port behind the address is left unread.                       *)
ReadBoundNoPort ==
    /\ pc = "bound" /\ Read(skip)
    /\ GoOn("open")

ReadBound ==
    /\ pc = "bound" /\ Read(skip + 2)
    /\ GoOn("open")

(* How much each reading position waits for.                               *)
Wanted ==
    CASE pc \in {"method", "verdict"} -> 2
      [] pc \in {"status", "domain"}  -> 1
      [] pc = "head"                  -> 4
      [] OTHER                        -> skip + 2

ReadFails ==
    /\ pc \in {"method", "verdict", "status", "head", "domain", "bound"}
    /\ CutShort(Wanted)
    /\ Fail("proxy")
    /\ UNCHANGED <<setup, ctxDone, asked, peer>>

-----------------------------------------------------------------------------
(* The proxy.                                                              *)
Zeros(n) == [i \in 1..n |-> 0]

(* What it may answer to the message it waits for, and what it does then.  *)
Answers ==
    CASE proxy = "greeting" ->
           {[bytes |-> <<5, 2>>,   then |-> "login"],
            [bytes |-> <<5, 0>>,   then |-> "request"],
            [bytes |-> <<5, 255>>, then |-> "gone"],
            [bytes |-> <<4, 0>>,   then |-> "gone"]}
      [] proxy = "login" ->
           {[bytes |-> <<1, 0>>, then |-> "request"],
            [bytes |-> <<1, 1>>, then |-> "gone"]}
      [] proxy = "request" /\ scheme = "http" ->
           {[bytes |-> <<200>>, then |-> "tunnel"],
            [bytes |-> <<502>>, then |-> "gone"]}
      [] OTHER ->
           {[bytes |-> <<5, 0, 0, 1>> \o Zeros(6),  then |-> "tunnel"],
            [bytes |-> <<5, 0, 0, 4>> \o Zeros(18), then |-> "tunnel"],
            [bytes |-> <<5, 5, 0, 1>> \o Zeros(6),  then |-> "gone"],
            [bytes |-> <<5, 0, 0, 9>> \o Zeros(6),  then |-> "gone"]}
           \cup {[bytes |-> <<5, 0, 0, 3, l>> \o Zeros(l + 2),
                  then  |-> "tunnel"] : l \in NameLengths}

ProxyAnswers ==
    /\ asked # "none" /\ asked = proxy
    /\ asked' = "none"
    /\ \E a \in Answers :
          \/ inbox' = inbox \o a.bytes /\ proxy' = a.then
          \/ \E n \in 0..(Len(a.bytes) - 1) :
                inbox' = inbox \o SubSeq(a.bytes, 1, n) /\ proxy' = "gone"
    /\ UNCHANGED <<setup, client, ctxDone>>

ProxyLeaves ==
    /\ conn = "open" /\ proxy \in Messages
    /\ proxy' = "gone"
    /\ UNCHANGED <<setup, client, ctxDone, asked, inbox>>

Cancel ==
    /\ ~ctxDone
    /\ ctxDone' = TRUE
    /\ UNCHANGED <<setup, client, asked, peer>>

-----------------------------------------------------------------------------
ClientStep ==
    \/ NoCookie \/ TTWIDAnswers \/ RetryTTWID \/ Dial
    \/ Greet \/ Login \/ Ask
    \/ ReadMethod \/ ReadVerdict \/ ReadStatus \/ ReadHead \/ ReadDomain
    \/ ReadBound \/ ReadFails

Next == ClientStep \/ ProxyAnswers \/ ProxyLeaves \/ Cancel

(* The client goes on as long as it has something to go on with; the ttwid *)
(* requests have a timeout.  The proxy may stay silent.                    *)
ClientSpec == Init /\ [][Next]_vars /\ WF_vars(ClientStep)

(* The proxy answers, or leaves.                                           *)
Spec == ClientSpec /\ WF_vars(ProxyAnswers \/ ProxyLeaves)

-----------------------------------------------------------------------------
(* The two parties agree on where they are: what the client sends is what  *)
(* the proxy waits for, whatever the proxy chose before.                   *)
InStep == asked # "none" => proxy \in {asked, "gone"}

(* The tunnel opens with both sides knowing it and with the whole reply of *)
(* the proxy read and nothing more: the next byte belongs to the target.   *)
TunnelAligned ==
    pc = "open" /\ scheme # "direct" => proxy = "tunnel" /\ inbox = << >>

(* The missing cookie is blamed only after FetchAttempts responses without *)
(* it, and never more requests than those are made.                        *)
NoCookieIsHonest ==
    /\ why = "noCookie" => tries = FetchAttempts
    /\ pc \in {"ttwid", "pause"} => tries < FetchAttempts

(* With a proxy that answers or leaves, the setup comes to an end.         *)
SetupEnds == <>(pc \in {"open", "failed"})

=============================================================================
