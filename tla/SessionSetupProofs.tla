-------------------------- MODULE SessionSetupProofs --------------------------
(***************************************************************************)
(* For every number of ttwid requests and all lengths of a bound name: the *)
(* client and the proxy keep in step, a tunnel opens on the whole reply    *)
(* and nothing more, and a missing cookie is blamed honestly.              *)
(***************************************************************************)
EXTENDS SessionSetup, SequenceTheorems, TLAPS

(* Without the fairness of ClientSpec and Spec.                            *)
SafeSpec == Init /\ [][Next]_vars

-----------------------------------------------------------------------------
(* The inductive invariant.  Which schemes lead where, and that a failure  *)
(* has a reason, and only a failure.                                       *)
Positions ==
    /\ pc \in {"greet", "method", "login", "verdict"} => scheme = "socks5"
    /\ pc = "ask" => scheme \in {"http", "socks5"}
    /\ pc = "status" => scheme = "http"
    /\ pc \in {"head", "domain", "bound"} => scheme = "socks5"
    /\ pc # "failed" => why = "none"

(* The connection is open exactly while the client and the proxy talk;     *)
(* what becomes of it after "open" is not the setup's business.            *)
Connection ==
    /\ pc \in {"ttwid", "pause", "dial"} => conn = "none"
    /\ pc = "failed" => conn # "open"
    /\ pc \notin {"ttwid", "pause", "dial", "open", "failed"} => conn = "open"

(* Between two exchanges nothing is asked and nothing unread, and the      *)
(* proxy, unless it is gone, waits for what the client sends next.         *)
Quiet == asked = "none" /\ inbox = << >>

NextMessage ==
    CASE pc = "greet" -> "greeting"
      [] pc = "login" -> "login"
      [] pc = "ask"   -> "request"
      [] OTHER        -> IF scheme = "socks5" THEN "greeting" ELSE "request"

BetweenExchanges ==
    /\ pc \in {"ttwid", "pause", "dial"} => Quiet /\ proxy = NextMessage
    /\ pc \in {"greet", "login", "ask"} => Quiet /\ proxy \in {NextMessage, "gone"}
    /\ pc = "open" =>
          Quiet /\ (IF scheme = "direct" THEN proxy # "tunnel" ELSE proxy = "tunnel")
    /\ pc = "failed" => asked = "none" \/ proxy = "gone"

(* A message that has not been answered.                                   *)
Unanswered(msg) == asked = msg /\ proxy \in {msg, "gone"} /\ inbox = << >>

(* The two short replies: as a whole, or cut short by a proxy that left.   *)
ShortReplies ==
    /\ pc = "method" =>
          \/ Unanswered("greeting")
          \/ /\ asked = "none"
             /\ \/ inbox = <<5, 2>> /\ proxy = "login"
                \/ inbox = <<5, 0>> /\ proxy = "request"
                \/ proxy = "gone" /\ Len(inbox) <= 2
    /\ pc = "verdict" =>
          \/ Unanswered("login")
          \/ /\ asked = "none"
             /\ \/ inbox = <<1, 0>> /\ proxy = "request"
                \/ proxy = "gone" /\ Len(inbox) <= 2
    /\ pc = "status" =>
          \/ Unanswered("request")
          \/ /\ asked = "none"
             /\ \/ inbox = <<200>> /\ proxy = "tunnel"
                \/ inbox \in {<< >>, <<502>>} /\ proxy = "gone"

(* The length a reply has that accepts the request, by its head: address   *)
(* and port follow, for a domain name behind a byte with its length.       *)
Accepts   == Len(inbox) >= 4 /\ inbox[2] = 0 /\ inbox[4] \in {1, 3, 4}
HasLength == inbox[4] = 3 => Len(inbox) >= 5
FullLength ==
    CASE inbox[4] = 1 -> 10
      [] inbox[4] = 4 -> 22
      [] OTHER        -> 7 + inbox[5]

(* What is left of the reply to the request: all of it if the proxy opened *)
(* the tunnel, and too little of it, or a refusal, if it is gone.          *)
RequestReply ==
    /\ pc = "head" =>
          \/ Unanswered("request")
          \/ /\ asked = "none"
             /\ \/ /\ proxy = "tunnel"
                   /\ Accepts /\ HasLength /\ Len(inbox) = FullLength
                \/ /\ proxy = "gone"
                   /\ Accepts /\ HasLength => Len(inbox) < FullLength
    /\ pc = "domain" =>
          /\ asked = "none"
          /\ \/ proxy = "tunnel" /\ Len(inbox) >= 1 /\ Len(inbox) = 3 + inbox[1]
             \/ proxy = "gone" /\ (Len(inbox) >= 1 => Len(inbox) < 3 + inbox[1])
    /\ pc = "bound" =>
          /\ asked = "none"
          /\ \/ proxy = "tunnel" /\ Len(inbox) = skip + 2
             \/ proxy = "gone" /\ Len(inbox) < skip + 2

IInv ==
    /\ TypeOK /\ InStep /\ NoCookieIsHonest
    /\ Positions /\ Connection
    /\ BetweenExchanges /\ ShortReplies /\ RequestReply

-----------------------------------------------------------------------------
(* Nothing has been asked before the first request.                        *)
LEMMA InitInv == Init => IInv
<1> SUFFICES ASSUME Init PROVE IInv
  OBVIOUS
<1> USE AttemptsAssumption DEF Init
<1>1. TypeOK
  <2>1. inbox \in Seq(Nat)
    BY EmptySeq
  <2>2. ctxDone \in BOOLEAN
    OBVIOUS
  <2> QED
    BY <2>1, <2>2 DEF TypeOK, Messages
<1>2. InStep /\ NoCookieIsHonest
  BY DEF InStep, NoCookieIsHonest
<1>3. Positions /\ Connection
  BY DEF Positions, Connection
<1>4. BetweenExchanges /\ ShortReplies /\ RequestReply
  BY DEF BetweenExchanges, ShortReplies, RequestReply, Quiet, NextMessage
<1> QED
  BY <1>1, <1>2, <1>3, <1>4 DEF IInv

(* What is left after n bytes were read.                                   *)
LEMMA Reading ==
    ASSUME TypeOK, NEW n \in Nat, Read(n)
    PROVE  /\ inbox' \in Seq(Nat) /\ Len(inbox) \in Nat
           /\ Len(inbox) >= n /\ Len(inbox') = Len(inbox) - n
           /\ \A i \in 1..Len(inbox') : inbox'[i] = inbox[n + i]
           /\ Len(inbox) = n => inbox' = << >>
           /\ \A i \in 1..Len(inbox) : inbox[i] \in Nat
           /\ UNCHANGED <<setup, ctxDone, asked, proxy>>
<1>1. /\ inbox \in Seq(Nat) /\ Len(inbox) \in Nat
      /\ \A i \in 1..Len(inbox) : inbox[i] \in Nat
  BY ElementOfSeq, LenProperties DEF TypeOK
<1>2. Len(inbox) >= n /\ inbox' = SubSeq(inbox, n + 1, Len(inbox))
  BY DEF Read
<1>3. \A i \in (n + 1)..Len(inbox) : inbox[i] \in Nat
  BY <1>1
<1>4. /\ inbox' \in Seq(Nat)
      /\ Len(inbox') = IF n + 1 <= Len(inbox) THEN Len(inbox) - (n + 1) + 1
                       ELSE 0
      /\ \A i \in 1..(Len(inbox) - (n + 1) + 1) :
            inbox'[i] = inbox[(n + 1) + i - 1]
  BY <1>1, <1>2, <1>3, SubSeqProperties
<1>5. Len(inbox') = Len(inbox) - n
  BY <1>1, <1>2, <1>4
<1>6. \A i \in 1..Len(inbox') : inbox'[i] = inbox[n + i]
  BY <1>1, <1>2, <1>4, <1>5
<1>7. Len(inbox) = n => inbox' = << >>
  BY <1>1, <1>2, SubSeqEmpty
<1> QED
  BY <1>1, <1>2, <1>4, <1>5, <1>6, <1>7 DEF Read

(* A row of zeros.                                                         *)
LEMMA ZerosShape ==
    ASSUME NEW n \in Nat
    PROVE  Zeros(n) \in Seq(Nat) /\ Len(Zeros(n)) = n
BY DEF Zeros

(* A reply of a head and zeros.                                            *)
LEMMA ReplyShape ==
    ASSUME NEW head \in Seq(Nat), NEW n \in Nat
    PROVE  /\ head \o Zeros(n) \in Seq(Nat)
           /\ Len(head \o Zeros(n)) = Len(head) + n
           /\ \A i \in 1..Len(head) : (head \o Zeros(n))[i] = head[i]
<1>1. Zeros(n) \in Seq(Nat) /\ Len(Zeros(n)) = n /\ Len(head) \in Nat
  BY ZerosShape, LenProperties
<1>2. /\ head \o Zeros(n) \in Seq(Nat)
      /\ Len(head \o Zeros(n)) = Len(head) + Len(Zeros(n))
      /\ \A i \in 1..Len(head) + Len(Zeros(n)) : (head \o Zeros(n))[i] =
            IF i <= Len(head) THEN head[i] ELSE Zeros(n)[i - Len(head)]
  BY <1>1, ConcatProperties
<1>3. \A i \in 1..Len(head) : i \in 1..Len(head) + n
  BY <1>1
<1> QED
  BY <1>1, <1>2, <1>3

(* The replies, one by one.                                                *)
LEMMA AnswerTo ==
    ASSUME NEW a \in Answers
    PROVE  /\ proxy = "greeting" =>
                 \/ a.bytes = <<5, 2>> /\ a.then = "login"
                 \/ a.bytes = <<5, 0>> /\ a.then = "request"
                 \/ a.bytes \in {<<5, 255>>, <<4, 0>>} /\ a.then = "gone"
           /\ proxy = "login" =>
                 \/ a.bytes = <<1, 0>> /\ a.then = "request"
                 \/ a.bytes = <<1, 1>> /\ a.then = "gone"
           /\ proxy = "request" /\ scheme = "http" =>
                 \/ a.bytes = <<200>> /\ a.then = "tunnel"
                 \/ a.bytes = <<502>> /\ a.then = "gone"
           /\ proxy = "request" /\ scheme # "http" =>
                 \/ a.bytes = <<5, 0, 0, 1>> \o Zeros(6)  /\ a.then = "tunnel"
                 \/ a.bytes = <<5, 0, 0, 4>> \o Zeros(18) /\ a.then = "tunnel"
                 \/ a.bytes = <<5, 5, 0, 1>> \o Zeros(6)  /\ a.then = "gone"
                 \/ a.bytes = <<5, 0, 0, 9>> \o Zeros(6)  /\ a.then = "gone"
                 \/ /\ \E l \in Nat : a.bytes = <<5, 0, 0, 3, l>> \o Zeros(l + 2)
                    /\ a.then = "tunnel"
<1>1. ASSUME proxy = "greeting"
      PROVE  \/ a.bytes = <<5, 2>> /\ a.then = "login"
             \/ a.bytes = <<5, 0>> /\ a.then = "request"
             \/ a.bytes \in {<<5, 255>>, <<4, 0>>} /\ a.then = "gone"
  <2>1. a \in {[bytes |-> <<5, 2>>,   then |-> "login"],
               [bytes |-> <<5, 0>>,   then |-> "request"],
               [bytes |-> <<5, 255>>, then |-> "gone"],
               [bytes |-> <<4, 0>>,   then |-> "gone"]}
    BY <1>1 DEF Answers
  <2> QED
    BY <2>1
<1>2. ASSUME proxy = "login"
      PROVE  \/ a.bytes = <<1, 0>> /\ a.then = "request"
             \/ a.bytes = <<1, 1>> /\ a.then = "gone"
  <2>1. a \in {[bytes |-> <<1, 0>>, then |-> "request"],
               [bytes |-> <<1, 1>>, then |-> "gone"]}
    BY <1>2 DEF Answers
  <2> QED
    BY <2>1
<1>3. ASSUME proxy = "request", scheme = "http"
      PROVE  \/ a.bytes = <<200>> /\ a.then = "tunnel"
             \/ a.bytes = <<502>> /\ a.then = "gone"
  <2>1. a \in {[bytes |-> <<200>>, then |-> "tunnel"],
               [bytes |-> <<502>>, then |-> "gone"]}
    BY <1>3 DEF Answers
  <2> QED
    BY <2>1
<1>4. ASSUME proxy = "request", scheme # "http"
      PROVE  \/ a.bytes = <<5, 0, 0, 1>> \o Zeros(6)  /\ a.then = "tunnel"
             \/ a.bytes = <<5, 0, 0, 4>> \o Zeros(18) /\ a.then = "tunnel"
             \/ a.bytes = <<5, 5, 0, 1>> \o Zeros(6)  /\ a.then = "gone"
             \/ a.bytes = <<5, 0, 0, 9>> \o Zeros(6)  /\ a.then = "gone"
             \/ /\ \E l \in Nat : a.bytes = <<5, 0, 0, 3, l>> \o Zeros(l + 2)
                /\ a.then = "tunnel"
  <2>1. \/ a \in {[bytes |-> <<5, 0, 0, 1>> \o Zeros(6),  then |-> "tunnel"],
                  [bytes |-> <<5, 0, 0, 4>> \o Zeros(18), then |-> "tunnel"],
                  [bytes |-> <<5, 5, 0, 1>> \o Zeros(6),  then |-> "gone"],
                  [bytes |-> <<5, 0, 0, 9>> \o Zeros(6),  then |-> "gone"]}
        \/ a \in {[bytes |-> <<5, 0, 0, 3, l>> \o Zeros(l + 2),
                   then  |-> "tunnel"] : l \in NameLengths}
    BY <1>4 DEF Answers
  <2>2. CASE a \in {[bytes |-> <<5, 0, 0, 3, l>> \o Zeros(l + 2),
                     then  |-> "tunnel"] : l \in NameLengths}
    <3>1. PICK l \in NameLengths :
             a = [bytes |-> <<5, 0, 0, 3, l>> \o Zeros(l + 2),
                  then  |-> "tunnel"]
      BY <2>2
    <3>2. l \in Nat
      BY LengthsAssumption
    <3> QED
      BY <3>1, <3>2
  <2>3. CASE a \in {[bytes |-> <<5, 0, 0, 1>> \o Zeros(6),  then |-> "tunnel"],
                   [bytes |-> <<5, 0, 0, 4>> \o Zeros(18), then |-> "tunnel"],
                   [bytes |-> <<5, 5, 0, 1>> \o Zeros(6),  then |-> "gone"],
                   [bytes |-> <<5, 0, 0, 9>> \o Zeros(6),  then |-> "gone"]}
    BY <2>3
  <2> QED
    BY <2>1, <2>2, <2>3
<1> QED
  BY <1>1, <1>2, <1>3, <1>4

(* They are bytes.                                                         *)
LEMMA AnswerBytes ==
    ASSUME proxy \in Messages
    PROVE  \A a \in Answers : a.bytes \in Seq(Nat) /\ Len(a.bytes) \in Nat
<1> SUFFICES ASSUME NEW a \in Answers PROVE a.bytes \in Seq(Nat)
  BY LenProperties
<1>1. CASE proxy \in {"greeting", "login"}
  <2>1. \E b, c \in Nat : a.bytes = <<b, c>>
    BY <1>1, AnswerTo
  <2>2. \A b, c \in Nat : <<b, c>> \in Seq(Nat)
    OBVIOUS
  <2> QED
    BY <2>1, <2>2
<1>2. CASE proxy = "request" /\ scheme = "http"
  <2>1. \E b \in Nat : a.bytes = <<b>>
    BY <1>2, AnswerTo
  <2>2. \A b \in Nat : <<b>> \in Seq(Nat)
    OBVIOUS
  <2> QED
    BY <2>1, <2>2
<1>3. CASE proxy = "request" /\ scheme # "http"
  <2>1. \A l \in Nat : <<5, 0, 0, 3, l>> \in Seq(Nat) /\ l + 2 \in Nat
    OBVIOUS
  <2>2. /\ <<5, 0, 0, 1>> \in Seq(Nat) /\ <<5, 0, 0, 4>> \in Seq(Nat)
        /\ <<5, 5, 0, 1>> \in Seq(Nat) /\ <<5, 0, 0, 9>> \in Seq(Nat)
        /\ 6 \in Nat /\ 18 \in Nat
    OBVIOUS
  <2>3. \E head \in Seq(Nat), n \in Nat : a.bytes = head \o Zeros(n)
    BY <1>3, <2>1, <2>2, AnswerTo
  <2> QED
    BY <2>3, ReplyShape
<1> QED
  BY <1>1, <1>2, <1>3 DEF Messages

(* The proxy answers what it was asked, with nothing unread before it: its *)
(* reply, whole, or the beginning of one.                                  *)
LEMMA Answering ==
    ASSUME IInv, ProxyAnswers
    PROVE  /\ pc \in {"method", "verdict", "status", "head"}
           /\ asked = proxy /\ asked' = "none"
           /\ inbox' \in Seq(Nat) /\ Len(inbox') \in Nat
           /\ \E a \in Answers :
                 \/ inbox' = a.bytes /\ proxy' = a.then
                 \/ /\ proxy' = "gone" /\ Len(inbox') < Len(a.bytes)
                    /\ \A i \in 1..Len(inbox') : inbox'[i] = a.bytes[i]
<1>1. asked # "none" /\ asked = proxy /\ asked' = "none"
  BY DEF ProxyAnswers
<1>2. pc \in {"method", "verdict", "status", "head"} /\ inbox = << >>
  BY <1>1
     DEF IInv, BetweenExchanges, ShortReplies, RequestReply, Quiet,
         Unanswered, TypeOK, Messages
<1>3. PICK a \in Answers :
         \/ inbox' = inbox \o a.bytes /\ proxy' = a.then
         \/ \E n \in 0..(Len(a.bytes) - 1) :
               inbox' = inbox \o SubSeq(a.bytes, 1, n) /\ proxy' = "gone"
  BY DEF ProxyAnswers
<1>4. /\ a.bytes \in Seq(Nat) /\ Len(a.bytes) \in Nat
      /\ \A i \in 1..Len(a.bytes) : a.bytes[i] \in Nat
  <2>1. proxy \in Messages
    BY <1>1 DEF IInv, TypeOK
  <2>2. a.bytes \in Seq(Nat) /\ Len(a.bytes) \in Nat
    BY <2>1, AnswerBytes
  <2> QED
    BY <2>2, ElementOfSeq
<1>5. CASE inbox' = inbox \o a.bytes /\ proxy' = a.then
  <2>1. inbox' = a.bytes
    BY <1>2, <1>4, <1>5, ConcatEmptySeq
  <2> QED
    BY <1>1, <1>2, <1>4, <1>5, <2>1
<1>6. ASSUME NEW n \in 0..(Len(a.bytes) - 1),
             inbox' = inbox \o SubSeq(a.bytes, 1, n), proxy' = "gone"
      PROVE  /\ inbox' \in Seq(Nat) /\ Len(inbox') \in Nat
             /\ Len(inbox') < Len(a.bytes)
             /\ \A i \in 1..Len(inbox') : inbox'[i] = a.bytes[i]
  <2>1. n \in Nat /\ n < Len(a.bytes) /\ \A i \in 1..n : a.bytes[i] \in Nat
    BY <1>4
  <2>2. /\ SubSeq(a.bytes, 1, n) \in Seq(Nat)
        /\ Len(SubSeq(a.bytes, 1, n)) = IF 1 <= n THEN n - 1 + 1 ELSE 0
        /\ \A i \in 1..(n - 1 + 1) : SubSeq(a.bytes, 1, n)[i] = a.bytes[1 + i - 1]
    BY <1>4, <2>1, SubSeqProperties
  <2>3. inbox' = SubSeq(a.bytes, 1, n)
    BY <1>2, <1>6, <2>2, ConcatEmptySeq
  <2>4. Len(inbox') = n
    BY <2>1, <2>2, <2>3
  <2> QED
    BY <2>1, <2>2, <2>3, <2>4
<1> QED
  BY <1>1, <1>2, <1>3, <1>5, <1>6

-----------------------------------------------------------------------------
(* The conjuncts that tie the two parties together.                        *)
Exchange == BetweenExchanges /\ ShortReplies /\ RequestReply

(* The steps before the proxy is dialed, the dial, and the messages.       *)
Talking == NoCookie \/ TTWIDAnswers \/ RetryTTWID \/ Dial \/ Greet \/ Login \/ Ask

LEMMA TalkingKept ==
    ASSUME IInv, Talking
    PROVE  IInv'
<1> USE AttemptsAssumption DEF IInv, Fail, GoOn, Send
<1>1. TypeOK' /\ Positions' /\ Connection' /\ NoCookieIsHonest'
  <2> USE DEF TypeOK, Positions, Connection, NoCookieIsHonest, setup, peer, Messages
  <2>1. CASE NoCookie
    BY <2>1 DEF NoCookie
  <2>2. CASE TTWIDAnswers
    BY <2>2 DEF TTWIDAnswers
  <2>3. CASE RetryTTWID
    BY <2>3 DEF RetryTTWID
  <2>4. CASE Dial
    BY <2>4 DEF Dial, Schemes
  <2>5. CASE Greet
    BY <2>5 DEF Greet
  <2>6. CASE Login
    BY <2>6 DEF Login
  <2>7. CASE Ask
    BY <2>7 DEF Ask
  <2> QED
    BY <2>1, <2>2, <2>3, <2>4, <2>5, <2>6, <2>7 DEF Talking
<1>2. InStep' /\ Exchange'
  <2> USE DEF InStep, Exchange, BetweenExchanges, ShortReplies, RequestReply,
              Quiet, NextMessage, Unanswered, Positions, TypeOK, setup, peer,
              Messages
  <2>1. CASE NoCookie \/ TTWIDAnswers \/ RetryTTWID
    BY <2>1 DEF NoCookie, TTWIDAnswers, RetryTTWID
  <2>4. CASE Dial
    BY <2>4 DEF Dial, Schemes
  <2>5. CASE Greet
    BY <2>5 DEF Greet
  <2>6. CASE Login
    BY <2>6 DEF Login
  <2>7. CASE Ask
    BY <2>7 DEF Ask
  <2> QED
    BY <2>1, <2>4, <2>5, <2>6, <2>7 DEF Talking
<1> QED
  BY <1>1, <1>2 DEF Exchange

(* What the client reads off the connection.                               *)
Reads ==
    \/ ReadMethod \/ ReadVerdict \/ ReadStatus
    \/ ReadHead \/ ReadDomain \/ ReadBound

(* The two-byte replies and the HTTP status: whoever read a yes has read   *)
(* the whole of it, and the proxy has gone on to the next message.         *)
LEMMA ShortReadKept ==
    ASSUME IInv, ReadMethod \/ ReadVerdict \/ ReadStatus
    PROVE  IInv'
<1> USE DEF IInv, Fail, GoOn
<1>1. CASE ReadMethod
  <2>1. pc = "method" /\ Read(2)
    BY <1>1 DEF ReadMethod
  <2>2. /\ inbox' \in Seq(Nat) /\ Len(inbox) \in Nat /\ Len(inbox) >= 2
        /\ Len(inbox) = 2 => inbox' = << >>
        /\ UNCHANGED <<setup, ctxDone, asked, proxy>>
    BY <2>1, Reading
  <2>3. CASE inbox[1] = 5 /\ inbox[2] = Method
    <3>1. /\ asked = "none"
          /\ IF creds = "none" THEN proxy = "request" \/ proxy = "gone"
             ELSE proxy = "login" \/ proxy = "gone"
          /\ Len(inbox) = 2
      <4>1. inbox # << >>
        BY <2>2
      <4>2. /\ asked = "none"
            /\ \/ inbox = <<5, 2>> /\ proxy = "login"
               \/ inbox = <<5, 0>> /\ proxy = "request"
               \/ proxy = "gone" /\ Len(inbox) <= 2
        BY <2>1, <4>1 DEF ShortReplies, Unanswered
      <4>3. Len(inbox) = 2
        <5>1. Len(inbox) <= 2 => Len(inbox) = 2
          <6>1. Len(inbox) \in Nat /\ Len(inbox) >= 2
            BY <2>2
          <6> QED
            BY <6>1
        <5>2. Len(<<5, 2>>) = 2 /\ Len(<<5, 0>>) = 2
          OBVIOUS
        <5> QED
          BY <4>2, <5>1, <5>2, Zenon
      <4> QED
        BY <2>3, <4>2, <4>3 DEF Method
    <3>2. /\ pc' = IF creds = "none" THEN "ask" ELSE "login"
          /\ UNCHANGED <<tries, skip, conn, why>>
      BY <1>1, <2>3 DEF ReadMethod
    <3>3. TypeOK' /\ Positions' /\ Connection' /\ NoCookieIsHonest'
      BY <2>1, <2>2, <3>2
         DEF TypeOK, Positions, Connection, NoCookieIsHonest, setup
    <3>4. InStep' /\ BetweenExchanges' /\ ShortReplies' /\ RequestReply'
      BY <2>1, <2>2, <3>1, <3>2
         DEF InStep, BetweenExchanges, ShortReplies, RequestReply, Quiet,
             NextMessage
    <3> QED
      BY <3>3, <3>4
  <2>4. CASE ~(inbox[1] = 5 /\ inbox[2] = Method)
    <3>1. asked = "none"
      BY <2>1, <2>2 DEF ShortReplies, Unanswered
    <3>2. Fail("proxy")
      BY <1>1, <2>4 DEF ReadMethod
    <3>3. TypeOK' /\ Positions' /\ Connection' /\ NoCookieIsHonest'
      BY <2>1, <2>2, <3>2
         DEF TypeOK, Positions, Connection, NoCookieIsHonest, setup
    <3>4. InStep' /\ BetweenExchanges' /\ ShortReplies' /\ RequestReply'
      BY <2>1, <2>2, <3>1, <3>2
         DEF InStep, BetweenExchanges, ShortReplies, RequestReply
    <3> QED
      BY <3>3, <3>4
  <2> QED
    BY <2>3, <2>4
<1>2. CASE ReadVerdict
  <2>1. pc = "verdict" /\ Read(2)
    BY <1>2 DEF ReadVerdict
  <2>2. /\ inbox' \in Seq(Nat) /\ Len(inbox) \in Nat /\ Len(inbox) >= 2
        /\ Len(inbox) = 2 => inbox' = << >>
        /\ UNCHANGED <<setup, ctxDone, asked, proxy>>
    BY <2>1, Reading
  <2>3. asked = "none" /\ inbox' = << >> /\ proxy \in {"request", "gone"}
    <3>1. inbox # << >>
      BY <2>2
    <3>2. /\ asked = "none"
          /\ \/ inbox = <<1, 0>> /\ proxy = "request"
             \/ proxy = "gone" /\ Len(inbox) <= 2
      BY <2>1, <3>1 DEF ShortReplies, Unanswered
    <3>3. Len(inbox) = 2
      <4>1. Len(inbox) <= 2 => Len(inbox) = 2
        <5>1. Len(inbox) \in Nat /\ Len(inbox) >= 2
          BY <2>2
        <5> QED
          BY <5>1
      <4>2. Len(<<1, 0>>) = 2
        OBVIOUS
      <4> QED
        BY <3>2, <4>1, <4>2, Zenon
    <3> QED
      BY <2>2, <3>2, <3>3
  <2>4. TypeOK' /\ Positions' /\ Connection' /\ NoCookieIsHonest'
    BY <1>2, <2>1, <2>2
       DEF ReadVerdict, TypeOK, Positions, Connection, NoCookieIsHonest, setup
  <2>5. InStep' /\ BetweenExchanges' /\ ShortReplies' /\ RequestReply'
    BY <1>2, <2>1, <2>2, <2>3
       DEF ReadVerdict, InStep, BetweenExchanges, ShortReplies, RequestReply,
           Quiet, NextMessage
  <2> QED
    BY <2>4, <2>5
<1>3. CASE ReadStatus
  <2>1. pc = "status" /\ Read(1)
    BY <1>3 DEF ReadStatus
  <2>2. /\ inbox' \in Seq(Nat) /\ Len(inbox) >= 1
        /\ Len(inbox) = 1 => inbox' = << >>
        /\ UNCHANGED <<setup, ctxDone, asked, proxy>>
    BY <2>1, Reading
  <2>3. /\ asked = "none" /\ inbox' = << >> /\ scheme = "http"
        /\ inbox[1] = 200 => proxy = "tunnel"
    BY <2>1, <2>2 DEF ShortReplies, Unanswered, Positions
  <2>4. TypeOK' /\ Positions' /\ Connection' /\ NoCookieIsHonest'
    BY <1>3, <2>1, <2>2
       DEF ReadStatus, TypeOK, Positions, Connection, NoCookieIsHonest, setup
  <2>5. InStep' /\ BetweenExchanges' /\ ShortReplies' /\ RequestReply'
    BY <1>3, <2>1, <2>2, <2>3
       DEF ReadStatus, InStep, BetweenExchanges, ShortReplies, RequestReply,
           Quiet, setup
  <2> QED
    BY <2>4, <2>5
<1> QED
  BY <1>1, <1>2, <1>3

(* The SOCKS reply to the request, read in two or three parts: what is     *)
(* left behind each is what the part announced.                            *)
LEMMA RequestReadKept ==
    ASSUME IInv, ReadHead \/ ReadDomain \/ ReadBound
    PROVE  IInv'
<1> USE DEF IInv, Fail, GoOn
<1>1. CASE ReadHead
  <2>1. pc = "head" /\ Read(4)
    BY <1>1 DEF ReadHead
  <2>2. /\ inbox' \in Seq(Nat)
        /\ UNCHANGED <<setup, ctxDone, asked, proxy>>
    BY <2>1, Reading
  <2>3. /\ Len(inbox) \in Nat /\ Len(inbox) >= 4 /\ Len(inbox') = Len(inbox) - 4
        /\ Len(inbox') >= 1 => inbox'[1] = inbox[5]
        /\ Len(inbox) >= 5 => inbox[5] \in Nat
    BY <2>1, Reading
  <2>4. /\ asked = "none"
        /\ \/ /\ proxy = "tunnel"
              /\ Accepts /\ HasLength /\ Len(inbox) = FullLength
           \/ /\ proxy = "gone"
              /\ Accepts /\ HasLength => Len(inbox) < FullLength
    <3>1. inbox # << >>
      BY <2>3
    <3> QED
      BY <2>1, <3>1 DEF RequestReply, Unanswered
  <2>5. CASE inbox[2] # 0 \/ inbox[4] \notin {1, 3, 4}
    <3>1. Fail("proxy")
      BY <1>1, <2>5 DEF ReadHead
    <3>2. TypeOK' /\ Positions' /\ Connection' /\ NoCookieIsHonest'
      BY <2>1, <2>2, <3>1
         DEF TypeOK, Positions, Connection, NoCookieIsHonest, setup
    <3>3. InStep' /\ BetweenExchanges' /\ ShortReplies' /\ RequestReply'
      BY <2>2, <2>4, <3>1
         DEF InStep, BetweenExchanges, ShortReplies, RequestReply
    <3> QED
      BY <3>2, <3>3
  <2>6. CASE ~(inbox[2] # 0 \/ inbox[4] \notin {1, 3, 4})
    <3>1. /\ pc' = IF inbox[4] = 3 THEN "domain" ELSE "bound"
          /\ skip' = CASE inbox[4] = 1 -> 4 [] inbox[4] = 4 -> 16
                       [] OTHER -> skip
          /\ UNCHANGED <<tries, conn, why>>
      BY <1>1, <2>6 DEF ReadHead
    <3>2. TypeOK' /\ Positions' /\ Connection' /\ NoCookieIsHonest'
      BY <2>1, <2>2, <2>6, <3>1
         DEF TypeOK, Positions, Connection, NoCookieIsHonest, setup
    <3>3. Accepts
      BY <2>3, <2>6 DEF Accepts
    <3>4. RequestReply'
      <4>1. CASE inbox[4] = 1
        BY <2>2, <2>3, <2>4, <3>1, <3>3, <4>1
           DEF RequestReply, HasLength, FullLength
      <4>2. CASE inbox[4] = 4
        BY <2>2, <2>3, <2>4, <3>1, <3>3, <4>2
           DEF RequestReply, HasLength, FullLength
      <4>3. CASE inbox[4] = 3
        BY <2>2, <2>3, <2>4, <3>1, <3>3, <4>3
           DEF RequestReply, HasLength, FullLength
      <4> QED
        BY <2>6, <4>1, <4>2, <4>3
    <3>5. InStep' /\ BetweenExchanges' /\ ShortReplies'
      BY <2>2, <2>4, <3>1 DEF InStep, BetweenExchanges, ShortReplies
    <3> QED
      BY <3>2, <3>4, <3>5
  <2> QED
    BY <2>5, <2>6
<1>2. CASE ReadDomain
  <2>1. /\ pc = "domain" /\ Read(1)
        /\ pc' = "bound" /\ skip' = inbox[1] /\ UNCHANGED <<tries, conn, why>>
    BY <1>2 DEF ReadDomain
  <2>2. /\ inbox' \in Seq(Nat)
        /\ UNCHANGED <<setup, ctxDone, asked, proxy>>
    BY <2>1, Reading
  <2>3. /\ Len(inbox) \in Nat /\ Len(inbox) >= 1 /\ Len(inbox') = Len(inbox) - 1
        /\ inbox[1] \in Nat
    BY <2>1, Reading
  <2>4. TypeOK' /\ Positions' /\ Connection' /\ NoCookieIsHonest'
    BY <2>1, <2>2, <2>3
       DEF TypeOK, Positions, Connection, NoCookieIsHonest, setup
  <2>5. RequestReply'
    BY <2>1, <2>2, <2>3 DEF RequestReply
  <2>6. InStep' /\ BetweenExchanges' /\ ShortReplies'
    BY <2>1, <2>2
       DEF RequestReply, InStep, BetweenExchanges, ShortReplies
  <2> QED
    BY <2>4, <2>5, <2>6
<1>3. CASE ReadBound
  <2>1. pc = "bound" /\ Read(skip + 2) /\ GoOn("open")
    BY <1>3 DEF ReadBound
  <2>2. skip + 2 \in Nat
    BY DEF TypeOK
  <2>3. /\ inbox' \in Seq(Nat)
        /\ Len(inbox) = skip + 2 => inbox' = << >>
        /\ UNCHANGED <<setup, ctxDone, asked, proxy>>
    BY <2>1, <2>2, Reading
  <2>4. Len(inbox) \in Nat /\ Len(inbox) >= skip + 2
    BY <2>1, <2>2, Reading
  <2>5. asked = "none" /\ proxy = "tunnel" /\ Len(inbox) = skip + 2
    <3>1. ~(Len(inbox) < skip + 2)
      BY <2>2, <2>4
    <3> QED
      BY <2>1, <3>1 DEF RequestReply
  <2>6. TypeOK' /\ Positions' /\ Connection' /\ NoCookieIsHonest'
    BY <2>1, <2>3
       DEF TypeOK, Positions, Connection, NoCookieIsHonest, setup
  <2>7. scheme = "socks5" /\ pc' = "open" /\ inbox' = << >>
    BY <2>1, <2>3, <2>5 DEF Positions
  <2>8. InStep' /\ BetweenExchanges' /\ ShortReplies' /\ RequestReply'
    BY <2>3, <2>5, <2>7
       DEF InStep, BetweenExchanges, ShortReplies, RequestReply, Quiet, setup
  <2> QED
    BY <2>6, <2>8
<1> QED
  BY <1>1, <1>2, <1>3

(* A read the proxy will never complete.                                   *)
LEMMA ReadFailsKept ==
    ASSUME IInv, ReadFails
    PROVE  IInv'
<1>1. /\ pc \in {"method", "verdict", "status", "head", "domain", "bound"}
      /\ proxy = "gone" /\ pc' = "failed" /\ why' = "proxy"
      /\ conn' = IF conn = "open" THEN "closed" ELSE conn
      /\ UNCHANGED <<tries, skip, scheme, creds, ctxDone, asked, proxy, inbox>>
  BY DEF ReadFails, CutShort, Fail, setup, peer
<1>2. TypeOK' /\ Positions' /\ Connection' /\ NoCookieIsHonest'
  BY <1>1 DEF IInv, TypeOK, Positions, Connection, NoCookieIsHonest
<1>3. InStep' /\ BetweenExchanges' /\ ShortReplies' /\ RequestReply'
  BY <1>1 DEF IInv, InStep, BetweenExchanges, ShortReplies, RequestReply
<1> QED
  BY <1>2, <1>3 DEF IInv

-----------------------------------------------------------------------------
(* The replies to a SOCKS request announce their own length, or refuse.    *)
LEMMA RequestAnswers ==
    ASSUME proxy = "request", scheme # "http", NEW a \in Answers
    PROVE  \/ /\ a.then = "tunnel" /\ Len(a.bytes) = 10
              /\ a.bytes[2] = 0 /\ a.bytes[4] = 1
           \/ /\ a.then = "tunnel" /\ Len(a.bytes) = 22
              /\ a.bytes[2] = 0 /\ a.bytes[4] = 4
           \/ /\ a.then = "tunnel" /\ a.bytes[5] \in Nat
              /\ Len(a.bytes) = 7 + a.bytes[5]
              /\ a.bytes[2] = 0 /\ a.bytes[4] = 3
           \/ /\ a.then = "gone" /\ Len(a.bytes) = 10
              /\ a.bytes[2] = 5 \/ a.bytes[4] = 9
<1> DEFINE Padded(h, n) == /\ Len(h \o Zeros(n)) = Len(h) + n
                           /\ \A i \in 1..Len(h) : (h \o Zeros(n))[i] = h[i]
<1>1. \A h \in Seq(Nat), n \in Nat : Padded(h, n)
  BY ReplyShape
<1>4. ASSUME NEW l \in Nat
      PROVE  LET r == <<5, 0, 0, 3, l>> \o Zeros(l + 2)
             IN  Len(r) = 7 + l /\ r[2] = 0 /\ r[4] = 3 /\ r[5] = l
  <2>1. /\ <<5, 0, 0, 3, l>> \in Seq(Nat) /\ Len(<<5, 0, 0, 3, l>>) = 5
        /\ l + 2 \in Nat
    OBVIOUS
  <2>2. Padded(<<5, 0, 0, 3, l>>, l + 2)
    BY <1>1, <2>1
  <2> QED
    BY <2>1, <2>2
<1>5. \/ a.bytes = <<5, 0, 0, 1>> \o Zeros(6)  /\ a.then = "tunnel"
      \/ a.bytes = <<5, 0, 0, 4>> \o Zeros(18) /\ a.then = "tunnel"
      \/ a.bytes = <<5, 5, 0, 1>> \o Zeros(6)  /\ a.then = "gone"
      \/ a.bytes = <<5, 0, 0, 9>> \o Zeros(6)  /\ a.then = "gone"
      \/ /\ \E l \in Nat : a.bytes = <<5, 0, 0, 3, l>> \o Zeros(l + 2)
         /\ a.then = "tunnel"
  BY AnswerTo
<1>6. CASE a.bytes = <<5, 0, 0, 1>> \o Zeros(6) /\ a.then = "tunnel"
  <2>1. <<5, 0, 0, 1>> \in Seq(Nat) /\ Len(<<5, 0, 0, 1>>) = 4 /\ 6 \in Nat
    OBVIOUS
  <2>2. Padded(<<5, 0, 0, 1>>, 6)
    BY <1>1, <2>1
  <2>3. /\ Len(a.bytes) = 10
        /\ a.bytes[2] = 0 /\ a.bytes[4] = 1
    BY <1>6, <2>1, <2>2
  <2> QED
    BY <1>6, <2>3
<1>7. CASE a.bytes = <<5, 0, 0, 4>> \o Zeros(18) /\ a.then = "tunnel"
  <2>1. <<5, 0, 0, 4>> \in Seq(Nat) /\ Len(<<5, 0, 0, 4>>) = 4 /\ 18 \in Nat
    OBVIOUS
  <2>2. Padded(<<5, 0, 0, 4>>, 18)
    BY <1>1, <2>1
  <2>3. /\ Len(a.bytes) = 22
        /\ a.bytes[2] = 0 /\ a.bytes[4] = 4
    BY <1>7, <2>1, <2>2
  <2> QED
    BY <1>7, <2>3
<1>8. CASE a.bytes = <<5, 5, 0, 1>> \o Zeros(6) /\ a.then = "gone"
  <2>1. <<5, 5, 0, 1>> \in Seq(Nat) /\ Len(<<5, 5, 0, 1>>) = 4 /\ 6 \in Nat
    OBVIOUS
  <2>2. Padded(<<5, 5, 0, 1>>, 6)
    BY <1>1, <2>1
  <2>3. /\ Len(a.bytes) = 10
        /\ a.bytes[2] = 5 /\ a.bytes[4] = 1
    BY <1>8, <2>1, <2>2
  <2> QED
    BY <1>8, <2>3
<1>9. CASE a.bytes = <<5, 0, 0, 9>> \o Zeros(6) /\ a.then = "gone"
  <2>1. <<5, 0, 0, 9>> \in Seq(Nat) /\ Len(<<5, 0, 0, 9>>) = 4 /\ 6 \in Nat
    OBVIOUS
  <2>2. Padded(<<5, 0, 0, 9>>, 6)
    BY <1>1, <2>1
  <2>3. /\ Len(a.bytes) = 10
        /\ a.bytes[2] = 0 /\ a.bytes[4] = 9
    BY <1>9, <2>1, <2>2
  <2> QED
    BY <1>9, <2>3
<1>10. CASE /\ \E l \in Nat : a.bytes = <<5, 0, 0, 3, l>> \o Zeros(l + 2)
            /\ a.then = "tunnel"
  <2>1. PICK l \in Nat : a.bytes = <<5, 0, 0, 3, l>> \o Zeros(l + 2)
    BY <1>10
  <2> QED
    BY <1>4, <1>10, <2>1
<1> QED
  BY <1>5, <1>6, <1>7, <1>8, <1>9, <1>10

(* A reply, or the beginning of one, is what its reader expects.           *)
LEMMA AnsweringKept ==
    ASSUME IInv, ProxyAnswers
    PROVE  IInv'
<1>1. /\ pc \in {"method", "verdict", "status", "head"}
      /\ asked = proxy /\ asked' = "none"
      /\ inbox' \in Seq(Nat) /\ Len(inbox') \in Nat
  BY Answering
<1>2. UNCHANGED <<scheme, creds, pc, tries, skip, conn, why, ctxDone>>
  BY DEF ProxyAnswers, setup, client
<1>3. PICK a \in Answers :
         \/ inbox' = a.bytes /\ proxy' = a.then
         \/ /\ proxy' = "gone" /\ Len(inbox') < Len(a.bytes)
            /\ \A i \in 1..Len(inbox') : inbox'[i] = a.bytes[i]
  BY Answering
<1>4. proxy \in Messages
  BY <1>1 DEF IInv, TypeOK, BetweenExchanges, ShortReplies, RequestReply,
              Unanswered, ProxyAnswers, Messages
<1>5. a.then \in Messages \cup {"tunnel", "gone"}
  <2>1. CASE proxy = "request" /\ scheme # "http"
    BY <2>1, RequestAnswers DEF Messages
  <2>2. CASE ~(proxy = "request" /\ scheme # "http")
    BY <1>4, <2>2, AnswerTo DEF Messages
  <2> QED
    BY <2>1, <2>2
<1>6. TypeOK' /\ Positions' /\ Connection' /\ NoCookieIsHonest'
  <2>1. proxy' \in Messages \cup {"tunnel", "gone"}
    BY <1>3, <1>5
  <2> QED
    BY <1>1, <1>2, <2>1
       DEF IInv, TypeOK, Positions, Connection, NoCookieIsHonest
<1>7. InStep' /\ BetweenExchanges'
  BY <1>1, <1>2 DEF InStep, BetweenExchanges
<1>8. ShortReplies'
  <2>1. ASSUME pc = "method"
        PROVE  \/ inbox' = <<5, 2>> /\ proxy' = "login"
               \/ inbox' = <<5, 0>> /\ proxy' = "request"
               \/ proxy' = "gone" /\ Len(inbox') <= 2
    <3>1. proxy = "greeting"
      BY <1>1, <1>4, <2>1 DEF IInv, ShortReplies, Unanswered, Messages
    <3>2. \/ a.bytes = <<5, 2>> /\ a.then = "login"
          \/ a.bytes = <<5, 0>> /\ a.then = "request"
          \/ a.bytes \in {<<5, 255>>, <<4, 0>>} /\ a.then = "gone"
      BY <3>1, AnswerTo
    <3>3. Len(a.bytes) = 2
      BY <3>2
    <3>4. CASE inbox' = a.bytes /\ proxy' = a.then
      <4>1. Len(inbox') = 2
        BY <3>3, <3>4, Zenon
      <4>2. Len(inbox') <= 2
        BY <4>1
      <4> QED
        BY <3>2, <3>4, <4>2, Zenon
    <3>5. CASE proxy' = "gone" /\ Len(inbox') < Len(a.bytes)
      BY <1>1, <3>3, <3>5
    <3> QED
      BY <1>3, <3>4, <3>5
  <2>2. ASSUME pc = "verdict"
        PROVE  \/ inbox' = <<1, 0>> /\ proxy' = "request"
               \/ proxy' = "gone" /\ Len(inbox') <= 2
    <3>1. proxy = "login"
      BY <1>1, <1>4, <2>2 DEF IInv, ShortReplies, Unanswered, Messages
    <3>2. \/ a.bytes = <<1, 0>> /\ a.then = "request"
          \/ a.bytes = <<1, 1>> /\ a.then = "gone"
      BY <3>1, AnswerTo
    <3>3. Len(a.bytes) = 2
      BY <3>2
    <3>4. CASE inbox' = a.bytes /\ proxy' = a.then
      <4>1. Len(inbox') = 2
        BY <3>3, <3>4, Zenon
      <4>2. Len(inbox') <= 2
        BY <4>1
      <4> QED
        BY <3>2, <3>4, <4>2, Zenon
    <3>5. CASE proxy' = "gone" /\ Len(inbox') < Len(a.bytes)
      BY <1>1, <3>3, <3>5
    <3> QED
      BY <1>3, <3>4, <3>5
  <2>3. ASSUME pc = "status"
        PROVE  \/ inbox' = <<200>> /\ proxy' = "tunnel"
               \/ inbox' \in {<< >>, <<502>>} /\ proxy' = "gone"
    <3>1. proxy = "request" /\ scheme = "http"
      BY <1>1, <1>4, <2>3
         DEF IInv, ShortReplies, Positions, Unanswered, Messages
    <3>2. \/ a.bytes = <<200>> /\ a.then = "tunnel"
          \/ a.bytes = <<502>> /\ a.then = "gone"
      BY <3>1, AnswerTo
    <3>3. CASE inbox' = a.bytes /\ proxy' = a.then
      BY <3>2, <3>3, Zenon
    <3>4. CASE proxy' = "gone" /\ Len(inbox') < Len(a.bytes)
      <4>1. Len(a.bytes) = 1
        BY <3>2
      <4>2. inbox' = << >>
        BY <1>1, <3>4, <4>1, EmptySeq
      <4> QED
        BY <3>4, <4>2
    <3> QED
      BY <1>3, <3>3, <3>4
  <2> QED
    BY <1>1, <1>2, <2>1, <2>2, <2>3 DEF ShortReplies
<1>9. RequestReply'
  <2> SUFFICES ASSUME pc = "head"
               PROVE  \/ /\ proxy' = "tunnel"
                         /\ Accepts' /\ HasLength' /\ Len(inbox') = FullLength'
                      \/ /\ proxy' = "gone"
                         /\ Accepts' /\ HasLength' => Len(inbox') < FullLength'
    BY <1>1, <1>2 DEF RequestReply
  <2>1. proxy = "request" /\ scheme # "http"
    BY <1>1, <1>4 DEF IInv, RequestReply, Positions, Unanswered, Messages
  <2>2. \/ /\ a.then = "tunnel" /\ Len(a.bytes) = 10
           /\ a.bytes[2] = 0 /\ a.bytes[4] = 1
        \/ /\ a.then = "tunnel" /\ Len(a.bytes) = 22
           /\ a.bytes[2] = 0 /\ a.bytes[4] = 4
        \/ /\ a.then = "tunnel" /\ a.bytes[5] \in Nat
           /\ Len(a.bytes) = 7 + a.bytes[5]
           /\ a.bytes[2] = 0 /\ a.bytes[4] = 3
        \/ /\ a.then = "gone" /\ Len(a.bytes) = 10
           /\ a.bytes[2] = 5 \/ a.bytes[4] = 9
    BY <2>1, RequestAnswers
  <2>3. CASE inbox' = a.bytes /\ proxy' = a.then
    <3>1. /\ Len(inbox') = Len(a.bytes) /\ inbox'[2] = a.bytes[2]
          /\ inbox'[4] = a.bytes[4] /\ inbox'[5] = a.bytes[5]
      BY <2>3, Zenon
    <3>2. proxy' = a.then
      BY <2>3
    <3>3. CASE /\ a.then = "tunnel" /\ Len(a.bytes) = 10
               /\ a.bytes[2] = 0 /\ a.bytes[4] = 1
      BY <3>1, <3>2, <3>3 DEF Accepts, HasLength, FullLength
    <3>4. CASE /\ a.then = "tunnel" /\ Len(a.bytes) = 22
               /\ a.bytes[2] = 0 /\ a.bytes[4] = 4
      BY <3>1, <3>2, <3>4 DEF Accepts, HasLength, FullLength
    <3>5. CASE /\ a.then = "tunnel" /\ a.bytes[5] \in Nat
               /\ Len(a.bytes) = 7 + a.bytes[5]
               /\ a.bytes[2] = 0 /\ a.bytes[4] = 3
      BY <3>1, <3>2, <3>5 DEF Accepts, HasLength, FullLength
    <3>6. CASE /\ a.then = "gone"
               /\ a.bytes[2] = 5 \/ a.bytes[4] = 9
      BY <3>1, <3>2, <3>6 DEF Accepts
    <3> QED
      BY <2>2, <3>3, <3>4, <3>5, <3>6
  <2>4. CASE /\ proxy' = "gone" /\ Len(inbox') < Len(a.bytes)
             /\ \A i \in 1..Len(inbox') : inbox'[i] = a.bytes[i]
    <3>1. /\ Len(inbox') >= 4 => inbox'[2] = a.bytes[2] /\ inbox'[4] = a.bytes[4]
          /\ Len(inbox') >= 5 => inbox'[5] = a.bytes[5]
      BY <1>1, <2>4
    <3>2. proxy' = "gone" /\ Len(inbox') < Len(a.bytes) /\ Len(inbox') \in Nat
      BY <1>1, <2>4
    <3>3. Accepts' /\ HasLength' => Len(inbox') < FullLength'
      <4>1. CASE Len(a.bytes) = 10 /\ a.bytes[4] = 1
        BY <3>1, <3>2, <4>1 DEF Accepts, HasLength, FullLength
      <4>2. CASE Len(a.bytes) = 22 /\ a.bytes[4] = 4
        BY <3>1, <3>2, <4>2 DEF Accepts, HasLength, FullLength
      <4>3. CASE /\ a.bytes[5] \in Nat /\ Len(a.bytes) = 7 + a.bytes[5]
                 /\ a.bytes[4] = 3
        BY <3>1, <3>2, <4>3 DEF Accepts, HasLength, FullLength
      <4>4. CASE a.bytes[2] = 5 \/ a.bytes[4] = 9
        BY <3>1, <3>2, <4>4 DEF Accepts
      <4> QED
        BY <2>2, <4>1, <4>2, <4>3, <4>4
    <3> QED
      BY <3>2, <3>3
  <2> QED
    BY <1>3, <2>3, <2>4
<1> QED
  BY <1>6, <1>7, <1>8, <1>9 DEF IInv

(* The proxy leaves, or the caller's context is cancelled.                 *)
LEMMA AsideKept ==
    ASSUME IInv, ProxyLeaves \/ Cancel
    PROVE  IInv'
<1>1. CASE ProxyLeaves
  <2>1. /\ conn = "open" /\ proxy \in Messages /\ proxy' = "gone"
        /\ UNCHANGED <<scheme, creds, pc, ctxDone, tries, skip, conn, why,
                       asked, inbox>>
    BY <1>1 DEF ProxyLeaves, setup, client
  <2>2. TypeOK' /\ Positions' /\ Connection' /\ NoCookieIsHonest' /\ InStep'
    BY <2>1
       DEF IInv, TypeOK, Positions, Connection, NoCookieIsHonest, InStep
  <2>3. BetweenExchanges'
    BY <2>1
       DEF IInv, TypeOK, BetweenExchanges, Connection, NextMessage, Quiet,
           Messages
  <2>4. ShortReplies'
    <3>1. inbox \in {<<5, 2>>, <<5, 0>>, <<1, 0>>} => Len(inbox) <= 2
      <4>1. Len(<<5, 2>>) <= 2 /\ Len(<<5, 0>>) <= 2 /\ Len(<<1, 0>>) <= 2
        OBVIOUS
      <4> QED
        BY <4>1, Zenon
    <3>2. /\ pc = "method" => \/ Unanswered("greeting")
                              \/ asked = "none" /\ Len(inbox) <= 2
          /\ pc = "verdict" => \/ Unanswered("login")
                               \/ asked = "none" /\ Len(inbox) <= 2
          /\ pc = "status" => Unanswered("request")
      BY <2>1, <3>1 DEF IInv, ShortReplies, Messages
    <3> QED
      BY <2>1, <3>2 DEF ShortReplies, Unanswered
  <2>5. RequestReply'
    BY <2>1
       DEF IInv, RequestReply, Unanswered, Accepts, HasLength, FullLength,
           Messages
  <2> QED
    BY <2>2, <2>3, <2>4, <2>5 DEF IInv
<1>2. CASE Cancel
  <2>1. /\ ctxDone' = TRUE
        /\ UNCHANGED <<scheme, creds, pc, tries, skip, conn, why, asked,
                       proxy, inbox>>
    BY <1>2 DEF Cancel, setup, client, peer
  <2>2. TypeOK' /\ Positions' /\ Connection' /\ NoCookieIsHonest' /\ InStep'
    BY <2>1
       DEF IInv, TypeOK, Positions, Connection, NoCookieIsHonest, InStep
  <2>3. BetweenExchanges' /\ ShortReplies' /\ RequestReply'
    BY <2>1
       DEF IInv, BetweenExchanges, NextMessage, Quiet, ShortReplies,
           RequestReply, Unanswered, Accepts, HasLength, FullLength
  <2> QED
    BY <2>2, <2>3 DEF IInv
<1> QED
  BY <1>1, <1>2

(* What becomes of an established connection does not concern the setup.   *)
LEMMA ConnectionFree ==
    ASSUME IInv, pc = "open", conn' \in {"none", "open", "closed"},
           UNCHANGED <<setup, pc, tries, skip, why, ctxDone, asked, peer>>
    PROVE  IInv'
<1>1. TypeOK' /\ Positions' /\ Connection' /\ NoCookieIsHonest' /\ InStep'
  BY DEF IInv, TypeOK, Positions, Connection, NoCookieIsHonest, InStep, setup,
         peer
<1>2. BetweenExchanges' /\ ShortReplies' /\ RequestReply'
  BY DEF IInv, BetweenExchanges, NextMessage, Quiet, ShortReplies,
         RequestReply, setup, peer
<1> QED
  BY <1>1, <1>2 DEF IInv

LEMMA SetupUnchanged ==
    ASSUME IInv, UNCHANGED vars
    PROVE  IInv'
BY DEF IInv, vars, setup, client, peer, TypeOK, Positions, Connection,
       NoCookieIsHonest, InStep, BetweenExchanges, NextMessage, Quiet,
       ShortReplies, RequestReply, Unanswered, Accepts, HasLength, FullLength

LEMMA ClientStepKept ==
    ASSUME IInv, ClientStep
    PROVE  IInv'
BY TalkingKept, ShortReadKept, RequestReadKept, ReadFailsKept
   DEF ClientStep, Talking

-----------------------------------------------------------------------------
LEMMA Step == IInv /\ [Next]_vars => IInv'
<1> SUFFICES ASSUME IInv, [Next]_vars PROVE IInv'
  OBVIOUS
<1> QED
  BY ClientStepKept, AnsweringKept, AsideKept, SetupUnchanged DEF Next

THEOREM Invariance == SafeSpec => []IInv
BY InitInv, Step, PTL DEF SafeSpec

(* At the end of the setup the two parties agree that they have a tunnel.  *)
LEMMA OpenIsAligned == IInv => TunnelAligned
BY DEF IInv, BetweenExchanges, Quiet, TunnelAligned

(* The setup's own type invariant.                                         *)
THEOREM Typing == SafeSpec => []TypeOK
BY Invariance, PTL DEF IInv

(* Client and proxy agree on where they are: what httpConnect or           *)
(* socks5Connect sends is what the proxy waits for, unless it has left.    *)
THEOREM Agreed == SafeSpec => []InStep
BY Invariance, PTL DEF IInv

(* A tunnel opens with the whole reply of the proxy read and nothing more: *)
(* socks5Connect skips exactly the bound address, whatever its kind.       *)
THEOREM Aligned == SafeSpec => []TunnelAligned
BY Invariance, OpenIsAligned, PTL

(* FetchTTWID blames the missing cookie after exactly as many responses as *)
(* it has attempts, for every number of attempts.                          *)
THEOREM Honest == SafeSpec => []NoCookieIsHonest
BY Invariance, PTL DEF IInv

(* The three hold under the fairness the runs assume, too.                 *)
THEOREM UnderFairness ==
    ClientSpec => [](InStep /\ TunnelAligned /\ NoCookieIsHonest)
<1>1. ClientSpec => SafeSpec
  BY PTL DEF ClientSpec, SafeSpec
<1> QED
  BY <1>1, Invariance, OpenIsAligned, PTL DEF IInv

=============================================================================
