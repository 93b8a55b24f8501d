------------------------- MODULE SendSpigotProofs --------------------------
(***************************************************************************)
(* Theorems about SendSpigot for every rate, every budget and every set of *)
(* requests.                                                               *)
(***************************************************************************)
EXTENDS SendSpigot, SequenceTheorems, TLAPS

\* What keeps the rate: before the first request of a second inSecond is 0,
\* and afterwards reqThisSecond counts at least what was written.
RateKept ==
  /\ h.reqThisSecond <= maxReqPerSec
  /\ TickFirst => IF h.tick THEN inSecond = 0 ELSE inSecond <= h.reqThisSecond

\* Once the limit was reported the whole budget is spent.
LimitSpent == h.reqLimitReached => h.numReqSent = maxReqPerIp

\* What waits behind the timer is a request.
DelayedIsRequest == h.savedReqTimer => h.savedReq \in Requests

\* The inductive invariant.
IInv ==
  /\ TypeOK /\ Budget /\ RateKept
  /\ LimitSpent /\ DelayedIsRequest /\ LastAskedGoesOut

\* What a delayed request adds to the requests that are counted.
Pending(r) == IF r.savedReqTimer THEN 1 ELSE 0

\* Writing a request keeps the type, adds at most one request to sent and
\* changes nothing else that the throttle looks at.
LEMMA TransmitStep ==
  ASSUME NEW r \in HostFields, NEW live \in BOOLEAN, NEW next \in States,
         NEW req \in Requests
  PROVE  LET t == transmit(r, live, next, req)
         IN  /\ t \in HostFields
             /\ Len(t.sent) <= Len(r.sent) + 1
             /\ t.sent \in Seq(Requests)
             /\ t.tick = r.tick /\ t.reqThisSecond = r.reqThisSecond
             /\ t.numReqSent = r.numReqSent
             /\ t.savedReqTimer = r.savedReqTimer
             /\ t.reqLimitReached = r.reqLimitReached
<1>1. /\ Append(r.sent, req) \in Seq(Requests)
      /\ Len(Append(r.sent, req)) = Len(r.sent) + 1
      /\ Len(r.sent) \in Nat
  BY AppendProperties, LenProperties DEF HostFields
<1> DEFINE t == transmit(r, live, next, req)
           a == Append(r.sent, req)
<1>2. CASE live
  <2>1. t = [r EXCEPT !.sent = a, !.state = next]
    BY <1>2 DEF transmit, change_state
  <2> HIDE DEF a, t
  <2>2. t \in HostFields
    BY <1>1, <2>1 DEF HostFields, a
  <2>3. t.sent = a
    BY <2>1 DEF HostFields
  <2>4. /\ t.tick = r.tick /\ t.reqThisSecond = r.reqThisSecond
        /\ t.numReqSent = r.numReqSent
        /\ t.savedReqTimer = r.savedReqTimer
        /\ t.reqLimitReached = r.reqLimitReached
    BY <2>1 DEF HostFields
  <2>5. QED
    BY <1>1, <2>2, <2>3, <2>4 DEF a, t
<1>3. CASE ~live
  <2>1. t = [r EXCEPT !.closedSend = TRUE]
    BY <1>3 DEF transmit
  <2> HIDE DEF t
  <2>2. t \in HostFields /\ t.sent = r.sent
    BY <2>1 DEF HostFields
  <2>3. /\ t.tick = r.tick /\ t.reqThisSecond = r.reqThisSecond
        /\ t.numReqSent = r.numReqSent
        /\ t.savedReqTimer = r.savedReqTimer
        /\ t.reqLimitReached = r.reqLimitReached
    BY <2>1 DEF HostFields
  <2>4. QED
    BY <1>1, <2>2, <2>3 DEF t
<1>4. QED
  BY <1>2, <1>3

\* Counting a request, and clearing the timer that sent it, keep the type.
LEMMA CountType ==
  ASSUME NEW r \in HostFields
  PROVE  count(r) \in HostFields
<1> DEFINE a == [r EXCEPT !.reqThisSecond = @ + 1]
           b == [a EXCEPT !.numReqSent = @ + 1]
<1>1. a \in HostFields
  BY DEF HostFields
<1>2. b \in HostFields
  <2> HIDE DEF a
  <2>1. QED
    BY SMTT(30), <1>1 DEF HostFields
<1>3. b = count(r)
  BY DEF count, HostFields
<1>4. QED
  BY <1>2, <1>3

LEMMA FiredType ==
  ASSUME NEW r \in HostFields
  PROVE  [r EXCEPT !.savedReqTimer = FALSE, !.savedReq = NoRequest,
                   !.reqThisSecond = 1, !.tick = FALSE, !.numReqSent = @ + 1]
           \in HostFields
<1> DEFINE a == [r EXCEPT !.savedReqTimer = FALSE, !.savedReq = NoRequest]
           b == [a EXCEPT !.reqThisSecond = 1, !.tick = FALSE]
           c == [b EXCEPT !.numReqSent = @ + 1]
<1>1. a \in HostFields
  BY DEF HostFields, States
<1>2. b \in HostFields
  <2> HIDE DEF a
  <2>1. QED
    BY <1>1 DEF HostFields
<1>3. c \in HostFields
  <2> HIDE DEF b
  <2>1. QED
    BY SMTT(30), <1>2 DEF HostFields
<1>4. c = [r EXCEPT !.savedReqTimer = FALSE, !.savedReq = NoRequest,
                    !.reqThisSecond = 1, !.tick = FALSE, !.numReqSent = @ + 1]
  BY DEF HostFields
<1>5. QED
  BY <1>3, <1>4

\* One call of sendSpigot never overdraws the budget, counts what it writes,
\* and writes only when the second has room.
LEMMA SpigotStep ==
  ASSUME NEW r \in HostFields, r.sent = <<>>, NEW live \in BOOLEAN,
         NEW req \in Requests,
         r.numReqSent + Pending(r) <= maxReqPerIp,
         r.reqThisSecond <= maxReqPerSec
  PROVE  LET s == sendSpigot(r, live, req, req)
         IN  /\ s \in HostFields
             /\ s.numReqSent + Pending(s) <= maxReqPerIp
             /\ s.reqThisSecond <= maxReqPerSec
             /\ \/ s.sent = <<>> /\ s.tick = r.tick
                                 /\ s.reqThisSecond = r.reqThisSecond
                \/ s.sent = <<>> /\ ~s.tick /\ r.tick
                \/ /\ Len(s.sent) <= 1 /\ ~s.tick
                   /\ s.reqThisSecond = (IF r.tick THEN 0 ELSE r.reqThisSecond) + 1
<1> USE SpigotAssumption DEF SpigotAssumption, States
<1> DEFINE n == new_second(r)
           s == sendSpigot(r, live, req, req)
           t == transmit(n, live, req, req)
<1>1. /\ n \in HostFields /\ ~n.tick /\ n.sent = <<>>
      /\ n.reqThisSecond = IF r.tick THEN 0 ELSE r.reqThisSecond
      /\ n.numReqSent = r.numReqSent /\ n.savedReqTimer = r.savedReqTimer
  BY DEF new_second, HostFields
<1>2. CASE r.savedReqTimer
  <2>1. s = clobber(r, req, req)
    BY <1>2 DEF sendSpigot
  <2>2. QED
    BY <1>2, <2>1 DEF clobber, HostFields, Pending
<1>3. CASE ~r.savedReqTimer /\ limit_hit(r)
  <2>1. s = hit_limit(r)
    BY <1>3 DEF sendSpigot
  <2>2. QED
    BY <1>3, <2>1 DEF hit_limit, HostFields, Pending
<1>4. CASE ~r.savedReqTimer /\ ~limit_hit(r) /\ n.reqThisSecond >= maxReqPerSec
  <2>1. s = arm(n, req, req)
    BY <1>4 DEF sendSpigot
  <2>2. r.numReqSent + 1 <= maxReqPerIp
    BY <1>4 DEF limit_hit, HostFields
  <2> HIDE DEF n, s
  <2>3. s \in HostFields /\ s.sent = <<>> /\ ~s.tick
    BY <1>1, <2>1 DEF arm, HostFields
  <2>4. s.numReqSent = r.numReqSent /\ s.savedReqTimer
          /\ s.reqThisSecond = n.reqThisSecond
    BY <1>1, <2>1 DEF arm, HostFields
  <2>5. s.numReqSent + Pending(s) <= maxReqPerIp
    BY <2>2, <2>4 DEF Pending
  <2>6. /\ s.reqThisSecond <= maxReqPerSec
        /\ r.tick \/ s.reqThisSecond = r.reqThisSecond
    BY <1>1, <2>4 DEF HostFields
  <2>7. QED
    BY <2>3, <2>5, <2>6 DEF s, HostFields
<1>5. CASE ~r.savedReqTimer /\ ~limit_hit(r) /\ ~(n.reqThisSecond >= maxReqPerSec)
  <2>1. s = count(t)
    BY <1>5 DEF sendSpigot
  <2>2. r.numReqSent + 1 <= maxReqPerIp
    BY <1>5 DEF limit_hit, HostFields
  <2>3. /\ t \in HostFields /\ Len(t.sent) <= 1 /\ ~t.tick
        /\ t.reqThisSecond = n.reqThisSecond
        /\ t.numReqSent = r.numReqSent /\ t.savedReqTimer = FALSE
    <3>1. n.savedReqTimer = FALSE
      BY <1>1, <1>5 DEF HostFields
    <3>2. QED
      BY <1>1, <3>1, TransmitStep
  <2>4. n.reqThisSecond + 1 <= maxReqPerSec
    BY <1>1, <1>5 DEF HostFields
  <2> HIDE DEF n, t, s
  <2>5. s \in HostFields
    <3>1. t \in HostFields
      BY <2>3
    <3>2. QED
      BY <2>1, <3>1, CountType
  <2>6. /\ s.sent = t.sent /\ s.tick = t.tick
        /\ s.reqThisSecond = t.reqThisSecond + 1
        /\ s.numReqSent = t.numReqSent + 1
        /\ s.savedReqTimer = t.savedReqTimer
    BY <2>1, <2>3 DEF count, HostFields
  <2>7. s.numReqSent + Pending(s) <= maxReqPerIp
    <3>1. Pending(s) = 0
      <4>1. s.savedReqTimer = FALSE
        BY <2>3, <2>6
      <4>2. QED
        BY <4>1 DEF Pending
    <3>2. s.numReqSent = r.numReqSent + 1 /\ r.numReqSent \in Nat
      BY <2>3, <2>6 DEF HostFields
    <3>3. QED
      BY <2>2, <3>1, <3>2
  <2>8. QED
    BY <1>1, <2>3, <2>4, <2>5, <2>6, <2>7 DEF s
<1>6. QED
  BY <1>2, <1>3, <1>4, <1>5

\* One call of sendSpigot reports the limit only when the budget is spent, and
\* what it leaves behind the timer is the request it was called with.
LEMMA SpigotReports ==
  ASSUME NEW r \in HostFields, NEW live \in BOOLEAN, NEW req \in Requests,
         r.numReqSent + Pending(r) <= maxReqPerIp,
         r.reqLimitReached => r.numReqSent = maxReqPerIp
  PROVE  LET s == sendSpigot(r, live, req, req)
         IN  /\ s.reqLimitReached => s.numReqSent = maxReqPerIp
             /\ s.savedReqTimer => /\ s.savedReq = req
                                   /\ s.savedNextState = req
                                   /\ s.reqLimitReached = FALSE
<1> USE SpigotAssumption DEF SpigotAssumption, States
<1> DEFINE n == new_second(r)
           s == sendSpigot(r, live, req, req)
           t == transmit(n, live, req, req)
<1>1. /\ n \in HostFields
      /\ n.numReqSent = r.numReqSent /\ n.savedReqTimer = r.savedReqTimer
      /\ n.reqLimitReached = r.reqLimitReached
  BY DEF new_second, HostFields
<1>2. CASE r.savedReqTimer
  <2>1. s = clobber(r, req, req)
    BY <1>2 DEF sendSpigot
  <2>2. r.reqLimitReached = FALSE
    BY <1>2 DEF Pending, HostFields
  <2> HIDE DEF s
  <2>3. s.savedReq = req /\ s.savedNextState = req
          /\ s.reqLimitReached = r.reqLimitReached
    BY <2>1 DEF clobber, HostFields
  <2>4. QED
    BY <2>2, <2>3 DEF s
<1>3. CASE ~r.savedReqTimer /\ limit_hit(r)
  <2>1. s = hit_limit(r)
    BY <1>3 DEF sendSpigot
  <2>2. r.numReqSent = maxReqPerIp
    BY <1>3 DEF limit_hit, Pending, HostFields
  <2> HIDE DEF s
  <2>3. s.numReqSent = r.numReqSent /\ s.savedReqTimer = FALSE
    BY <1>3, <2>1 DEF hit_limit, HostFields
  <2>4. QED
    BY <2>2, <2>3 DEF s
<1>4. CASE ~r.savedReqTimer /\ ~limit_hit(r)
  <2>1. r.reqLimitReached = FALSE
    BY <1>4 DEF limit_hit, HostFields
  <2>2. CASE n.reqThisSecond >= maxReqPerSec
    <3>1. s = arm(n, req, req)
      BY <1>4, <2>2 DEF sendSpigot
    <3> HIDE DEF n, s
    <3>2. s.savedReq = req /\ s.savedNextState = req
            /\ s.reqLimitReached = n.reqLimitReached
      BY <1>1, <3>1 DEF arm, HostFields
    <3>3. QED
      BY <1>1, <2>1, <3>2 DEF s
  <2>3. CASE ~(n.reqThisSecond >= maxReqPerSec)
    <3>1. s = count(t)
      BY <1>4, <2>3 DEF sendSpigot
    <3>2. t \in HostFields /\ t.savedReqTimer = n.savedReqTimer
            /\ t.reqLimitReached = n.reqLimitReached
      BY <1>1, TransmitStep
    <3> HIDE DEF n, t, s
    <3>3. s.savedReqTimer = t.savedReqTimer
            /\ s.reqLimitReached = t.reqLimitReached
      BY <3>1, <3>2 DEF count, HostFields
    <3>4. s.savedReqTimer = FALSE /\ s.reqLimitReached = FALSE
      <4>1. r.savedReqTimer = FALSE
        BY <1>4 DEF HostFields
      <4>2. QED
        BY <1>1, <2>1, <3>2, <3>3, <4>1
    <3>5. QED
      BY <3>4 DEF s
  <2>4. QED
    BY <2>2, <2>3
<1>5. QED
  BY <1>2, <1>3, <1>4

\* The step's notes about the wire stay well formed.
LEMMA NoteType ==
  ASSUME TypeOK, h' \in HostFields, NoteSent
  PROVE  inSecond' \in Nat /\ lastSent' \in States
<1>1. h'.sent \in Seq(Requests) /\ Len(h'.sent) \in Nat
  BY LenProperties DEF HostFields
<1>2. inSecond' \in Nat
  BY <1>1 DEF TypeOK, NoteSent
<1>3. CASE h'.sent = <<>>
  BY <1>3 DEF TypeOK, NoteSent
<1>4. CASE h'.sent # <<>>
  <2>1. Len(h'.sent) \in 1..Len(h'.sent)
    BY <1>1, <1>4, EmptySeq
  <2>2. h'.sent[Len(h'.sent)] \in Requests
    BY <1>1, <2>1, ElementOfSeq
  <2>3. QED
    BY <1>2, <1>4, <2>2 DEF NoteSent, States
<1>5. QED
  BY <1>2, <1>3, <1>4

\* The record every step starts from.
LEMMA FreshType ==
  ASSUME NEW r \in HostFields
  PROVE  /\ Fresh(r) \in HostFields /\ Fresh(r).sent = <<>>
         /\ Fresh(r).tick = r.tick /\ Fresh(r).numReqSent = r.numReqSent
         /\ Fresh(r).reqThisSecond = r.reqThisSecond
         /\ Fresh(r).savedReqTimer = r.savedReqTimer
         /\ Fresh(r).savedReq = r.savedReq
         /\ Fresh(r).savedNextState = r.savedNextState
         /\ Fresh(r).reqLimitReached = r.reqLimitReached
BY EmptySeq DEF Fresh, HostFields

\* The start satisfies the invariant.
LEMMA IInvInit == Init => IInv
<1> SUFFICES ASSUME Init PROVE IInv
  OBVIOUS
<1>1. PICK t \in BOOLEAN :
        h = [state |-> NoRequest, sent |-> <<>>, tick |-> t,
             reqThisSecond |-> 0, numReqSent |-> 0, savedReqTimer |-> FALSE,
             savedReq |-> NoRequest, savedNextState |-> NoRequest,
             reqLimitReached |-> FALSE, terminationCode |-> "UNSET",
             closedSend |-> FALSE]
  BY DEF Init
<1>2. h \in HostFields
  BY <1>1, EmptySeq DEF HostFields, States
<1>3. h.numReqSent = 0 /\ ~h.savedReqTimer /\ h.reqThisSecond = 0
  BY <1>1
<1>4. inSecond = 0 /\ lastAsked \in States /\ lastSent \in States
  BY DEF Init, States
<1>5. TypeOK
  BY <1>2, <1>4 DEF TypeOK
<1>6. Budget /\ RateKept
  BY <1>3, <1>4, SpigotAssumption DEF Budget, RateKept, SpigotAssumption
<1>7. LimitSpent /\ DelayedIsRequest /\ LastAskedGoesOut
  BY <1>1 DEF LimitSpent, DelayedIsRequest, LastAskedGoesOut
<1>8. QED
  BY <1>5, <1>6, <1>7 DEF IInv

\* A second passes.
LEMMA TickStep == IInv /\ Tick => IInv'
<1> SUFFICES ASSUME IInv, Tick PROVE IInv'
  OBVIOUS
<1>1. h \in HostFields /\ h' = [Fresh(h) EXCEPT !.tick = TRUE]
  BY DEF IInv, TypeOK, Tick
<1> DEFINE f == Fresh(h)
<1>2. /\ f \in HostFields
      /\ f.numReqSent = h.numReqSent /\ f.reqThisSecond = h.reqThisSecond
      /\ f.savedReqTimer = h.savedReqTimer
      /\ f.savedReq = h.savedReq /\ f.savedNextState = h.savedNextState
      /\ f.reqLimitReached = h.reqLimitReached
  BY <1>1, FreshType
<1> HIDE DEF f
<1>3. h' = [f EXCEPT !.tick = TRUE]
  BY <1>1 DEF f
<1>4. /\ h' \in HostFields /\ h'.tick
      /\ h'.numReqSent = f.numReqSent
      /\ h'.reqThisSecond = f.reqThisSecond
      /\ h'.savedReqTimer = f.savedReqTimer
      /\ h'.savedReq = f.savedReq /\ h'.savedNextState = f.savedNextState
      /\ h'.reqLimitReached = f.reqLimitReached
  BY <1>2, <1>3 DEF HostFields
<1>5. TypeOK'
  BY <1>4 DEF IInv, TypeOK, Tick
<1>6. Budget'
  BY <1>2, <1>4 DEF IInv, Budget
<1>7. RateKept'
  BY <1>2, <1>4 DEF IInv, RateKept, Tick
<1>8. LimitSpent' /\ DelayedIsRequest' /\ LastAskedGoesOut'
  BY <1>2, <1>4 DEF IInv, Tick, LimitSpent, DelayedIsRequest, LastAskedGoesOut
<1>9. QED
  BY <1>5, <1>6, <1>7, <1>8 DEF IInv

\* A handler asks for a request.
LEMMA AskStep ==
  ASSUME IInv, NEW req \in Requests, NEW live \in BOOLEAN, Ask(req, live)
  PROVE  IInv'
<1> DEFINE f == Fresh(h)
<1>1. h \in HostFields /\ inSecond \in Nat
  BY DEF IInv, TypeOK
<1>2. /\ f \in HostFields /\ f.sent = <<>> /\ f.tick = h.tick
      /\ f.numReqSent = h.numReqSent /\ f.reqThisSecond = h.reqThisSecond
      /\ f.savedReqTimer = h.savedReqTimer
  BY <1>1, FreshType
<1>3. f.numReqSent + Pending(f) <= maxReqPerIp
  BY <1>2 DEF IInv, Budget, Pending
<1>4. f.reqThisSecond <= maxReqPerSec
  BY <1>2 DEF IInv, RateKept
<1>5. h' = sendSpigot(f, live, req, req) /\ NoteSent
  BY DEF Ask
<1> HIDE DEF f
<1>6. /\ h' \in HostFields
      /\ h'.numReqSent + Pending(h') <= maxReqPerIp
      /\ h'.reqThisSecond <= maxReqPerSec
      /\ \/ h'.sent = <<>> /\ h'.tick = f.tick
                           /\ h'.reqThisSecond = f.reqThisSecond
         \/ h'.sent = <<>> /\ ~h'.tick /\ f.tick
         \/ /\ Len(h'.sent) <= 1 /\ ~h'.tick
            /\ h'.reqThisSecond = (IF f.tick THEN 0 ELSE f.reqThisSecond) + 1
  BY <1>2, <1>3, <1>4, <1>5, SpigotStep
<1>7. TypeOK'
  <2>1. lastAsked' \in States
    BY DEF IInv, TypeOK, Ask, States
  <2>2. inSecond' \in Nat /\ lastSent' \in States
    BY <1>5, <1>6, NoteType DEF IInv
  <2>3. QED
    BY <1>6, <2>1, <2>2 DEF TypeOK
<1>8. Budget'
  BY <1>6 DEF Budget, Pending
<1>9. RateKept'
  <2>1. inSecond' = inSecond + Len(h'.sent) /\ Len(h'.sent) \in Nat
    BY <1>5, <1>6, LenProperties DEF NoteSent, HostFields
  <2>2. h.reqThisSecond \in Nat
    BY <1>1 DEF HostFields
  <2>3. TickFirst => IF h.tick THEN inSecond = 0 ELSE inSecond <= h.reqThisSecond
    BY DEF IInv, RateKept
  <2>4. CASE h'.sent = <<>> /\ h'.tick = f.tick
                            /\ h'.reqThisSecond = f.reqThisSecond
    BY <1>1, <1>2, <1>6, <2>1, <2>2, <2>3, <2>4 DEF RateKept
  <2>5. CASE h'.sent = <<>> /\ ~h'.tick /\ f.tick
    <3>1. h.tick
      BY <1>2, <2>5
    <3>2. h'.reqThisSecond \in Nat
      BY <1>6 DEF HostFields
    <3>3. QED
      BY <1>1, <1>6, <2>1, <2>3, <2>5, <3>1, <3>2 DEF RateKept
  <2>6. CASE /\ Len(h'.sent) <= 1 /\ ~h'.tick
             /\ h'.reqThisSecond = (IF f.tick THEN 0 ELSE f.reqThisSecond) + 1
    BY <1>1, <1>2, <1>6, <2>1, <2>2, <2>3, <2>6 DEF RateKept
  <2>7. QED
    BY <1>6, <2>4, <2>5, <2>6
<1>10. LimitSpent' /\ DelayedIsRequest' /\ LastAskedGoesOut'
  <2>1. f.reqLimitReached => f.numReqSent = maxReqPerIp
    BY <1>1, <1>2, FreshType DEF f, IInv, LimitSpent
  <2>2. /\ h'.reqLimitReached => h'.numReqSent = maxReqPerIp
        /\ h'.savedReqTimer => /\ h'.savedReq = req
                               /\ h'.savedNextState = req
                               /\ h'.reqLimitReached = FALSE
    <3> DEFINE s == sendSpigot(f, live, req, req)
    <3>1. /\ s.reqLimitReached => s.numReqSent = maxReqPerIp
          /\ s.savedReqTimer => /\ s.savedReq = req
                                /\ s.savedNextState = req
                                /\ s.reqLimitReached = FALSE
      BY ZenonT(60), <1>2, <1>3, <2>1, SpigotReports
    <3>2. QED
      BY <1>5, <3>1
  <2>3. h'.savedReqTimer => lastAsked' = req
    BY <2>2 DEF Ask
  <2>4. QED
    BY <2>2, <2>3 DEF LimitSpent, DelayedIsRequest, LastAskedGoesOut
<1>11. QED
  BY <1>7, <1>8, <1>9, <1>10 DEF IInv

\* The timer of a delayed request fires.
LEMMA FireStep ==
  ASSUME IInv, NEW live \in BOOLEAN, Fire(live)
  PROVE  IInv'
<1> USE SpigotAssumption DEF SpigotAssumption
<1> DEFINE f == Fresh(h)
           t == transmit(f, live, f.savedNextState, f.savedReq)
<1>1. h \in HostFields /\ inSecond \in Nat /\ h.savedReqTimer
  BY DEF IInv, TypeOK, Fire
<1>2. /\ f \in HostFields /\ f.sent = <<>>
      /\ f.numReqSent = h.numReqSent
      /\ f.reqLimitReached = h.reqLimitReached
      /\ f.savedNextState \in States /\ f.savedReq \in Requests
  <2>1. h.savedReq \in Requests
    BY <1>1 DEF IInv, DelayedIsRequest
  <2>2. QED
    BY <1>1, <2>1, FreshType DEF HostFields
<1>3. /\ t \in HostFields /\ Len(t.sent) <= 1
      /\ t.numReqSent = h.numReqSent
      /\ t.reqLimitReached = h.reqLimitReached
  BY <1>2, TransmitStep
<1>4. h' = [t EXCEPT !.savedReqTimer = FALSE, !.savedReq = NoRequest,
                     !.reqThisSecond = 1, !.tick = FALSE, !.numReqSent = @ + 1]
  BY DEF Fire, sendSpigot_cb
<1> HIDE DEF f, t
<1>5. /\ h' \in HostFields
      /\ h'.sent = t.sent /\ h'.tick = FALSE /\ h'.savedReqTimer = FALSE
      /\ h'.reqThisSecond = 1 /\ h'.numReqSent = t.numReqSent + 1
      /\ h'.reqLimitReached = t.reqLimitReached
  <2>1. t \in HostFields
    BY <1>3
  <2>2. h' \in HostFields
    BY <1>4, <2>1, FiredType
  <2>3. /\ h'.sent = t.sent /\ h'.tick = FALSE /\ h'.savedReqTimer = FALSE
        /\ h'.reqThisSecond = 1 /\ h'.numReqSent = t.numReqSent + 1
        /\ h'.reqLimitReached = t.reqLimitReached
    BY <1>4, <2>1 DEF HostFields
  <2>4. QED
    BY <2>2, <2>3
<1>6. h.numReqSent + 1 <= maxReqPerIp /\ h.numReqSent \in Nat
  BY <1>1 DEF IInv, Budget, HostFields
<1>7. TypeOK'
  <2>1. inSecond' \in Nat /\ lastSent' \in States
    BY <1>5, NoteType DEF IInv, Fire
  <2>2. lastAsked' \in States
    BY DEF IInv, TypeOK, Fire
  <2>3. QED
    BY <1>5, <2>1, <2>2 DEF TypeOK
<1>8. Budget'
  BY <1>3, <1>5, <1>6 DEF Budget
<1>9. RateKept'
  <2>1. inSecond' = inSecond + Len(h'.sent) /\ Len(h'.sent) \in Nat
    BY <1>5, LenProperties DEF Fire, NoteSent, HostFields
  <2>2. TickFirst => inSecond = 0
    BY DEF IInv, RateKept, Fire
  <2>3. QED
    BY <1>3, <1>5, <2>1, <2>2 DEF RateKept
<1>10. LimitSpent' /\ DelayedIsRequest' /\ LastAskedGoesOut'
  <2>1. h.reqLimitReached = FALSE
    BY <1>1, <1>6 DEF IInv, LimitSpent, HostFields
  <2>2. QED
    BY <1>3, <1>5, <2>1 DEF LimitSpent, DelayedIsRequest, LastAskedGoesOut
<1>11. QED
  BY <1>7, <1>8, <1>9, <1>10 DEF IInv

\* Every step keeps the strengthened invariant.
LEMMA IInvStep == IInv /\ [Next]_vars => IInv'
<1> SUFFICES ASSUME IInv, [Next]_vars PROVE IInv'
  OBVIOUS
<1>1. CASE Tick
  BY <1>1, TickStep
<1>2. CASE \E req \in Requests, live \in BOOLEAN : Ask(req, live)
  BY <1>2, AskStep
<1>3. CASE \E live \in BOOLEAN : Fire(live)
  BY <1>3, FireStep
<1>4. CASE UNCHANGED vars
  BY <1>4 DEF vars, IInv, TypeOK, Budget, RateKept, LimitSpent,
              DelayedIsRequest, LastAskedGoesOut
<1>5. QED
  BY <1>1, <1>2, <1>3, <1>4 DEF Next

\* For every rate and budget, the strengthened invariant.
THEOREM SpigotInvariant == Spec => []IInv
<1>1. Init => IInv
  BY IInvInit
<1>2. IInv /\ [Next]_vars => IInv'
  BY IInvStep
<1>3. QED
  BY <1>1, <1>2, PTL DEF Spec

\* The throttle's state is always well formed.
THEOREM SpigotTypes == Spec => []TypeOK
BY SpigotInvariant, PTL DEF IInv

\* No host is ever sent more than maxReqPerIp requests.
THEOREM BudgetKept == Spec => []Budget
BY SpigotInvariant, PTL DEF IInv

\* No more than maxReqPerSec requests are written in one value of second.
THEOREM RateBounded == Spec => []Rate
<1>1. IInv => Rate
  <2> SUFFICES ASSUME IInv, TickFirst PROVE inSecond <= maxReqPerSec
    BY DEF Rate
  <2>1. /\ inSecond \in Nat /\ h.reqThisSecond \in Nat
        /\ maxReqPerSec \in Nat
    BY SpigotAssumption DEF IInv, TypeOK, HostFields, SpigotAssumption
  <2>2. /\ h.reqThisSecond <= maxReqPerSec
        /\ h.tick => inSecond = 0
        /\ ~h.tick => inSecond <= h.reqThisSecond
    BY DEF IInv, RateKept
  <2>3. QED
    BY <2>1, <2>2
<1>2. QED
  BY <1>1, SpigotInvariant, PTL

\* A delayed request is the last one that was asked for.
THEOREM LastAskedDelayed == Spec => []LastAskedGoesOut
BY SpigotInvariant, PTL DEF IInv

-----------------------------------------------------------------------------
\* What is written, and the state it is written under.

\* From a record with nothing sent, transmit writes the request and changes to
\* its state, or does neither.
LEMMA TransmitWrites ==
  ASSUME NEW r \in HostFields, r.sent = <<>>, NEW live \in BOOLEAN,
         NEW next \in States, NEW req \in Requests
  PROVE  LET t == transmit(r, live, next, req)
         IN  \/ t.sent = <<>> /\ t.state = r.state
             \/ t.sent = <<req>> /\ t.state = next
<1> DEFINE t == transmit(r, live, next, req)
           a == Append(r.sent, req)
<1>1. a = <<req>>
  OBVIOUS
<1>2. CASE live
  <2>1. t = [r EXCEPT !.sent = a, !.state = next]
    BY <1>2 DEF transmit, change_state
  <2> HIDE DEF a, t
  <2>2. t.sent = a /\ t.state = next
    BY <2>1 DEF HostFields
  <2>3. QED
    BY <1>1, <2>2 DEF t
<1>3. CASE ~live
  <2>1. t = [r EXCEPT !.closedSend = TRUE]
    BY <1>3 DEF transmit
  <2> HIDE DEF t
  <2>2. t.sent = r.sent /\ t.state = r.state
    BY <2>1 DEF HostFields
  <2>3. QED
    BY <2>2 DEF t
<1>4. QED
  BY <1>2, <1>3

\* One call of sendSpigot writes nothing and keeps the state, or writes the
\* request it was called with and takes its state.
LEMMA SpigotWrites ==
  ASSUME NEW r \in HostFields, r.sent = <<>>, NEW live \in BOOLEAN,
         NEW req \in Requests
  PROVE  LET s == sendSpigot(r, live, req, req)
         IN  \/ s.sent = <<>> /\ s.state = r.state
             \/ s.sent = <<req>> /\ s.state = req
<1> DEFINE n == new_second(r)
           s == sendSpigot(r, live, req, req)
           t == transmit(n, live, req, req)
<1>1. n \in HostFields /\ n.sent = <<>> /\ n.state = r.state
  BY DEF new_second, HostFields
<1>2. req \in States
  BY DEF States
<1>3. CASE r.savedReqTimer
  <2>1. s = clobber(r, req, req)
    BY <1>3 DEF sendSpigot
  <2> HIDE DEF s
  <2>2. s.sent = r.sent /\ s.state = r.state
    BY <2>1 DEF clobber, HostFields
  <2>3. QED
    BY <2>2 DEF s
<1>4. CASE ~r.savedReqTimer /\ limit_hit(r)
  <2>1. s = hit_limit(r)
    BY <1>4 DEF sendSpigot
  <2> HIDE DEF s
  <2>2. s.sent = r.sent /\ s.state = r.state
    BY <2>1 DEF hit_limit, HostFields
  <2>3. QED
    BY <2>2 DEF s
<1>5. CASE /\ ~r.savedReqTimer /\ ~limit_hit(r)
           /\ n.reqThisSecond >= maxReqPerSec
  <2>1. s = arm(n, req, req)
    BY <1>5 DEF sendSpigot
  <2> HIDE DEF s, n
  <2>2. s.sent = n.sent /\ s.state = n.state
    BY <1>1, <2>1 DEF arm, HostFields
  <2>3. QED
    BY <1>1, <2>2 DEF s
<1>6. CASE /\ ~r.savedReqTimer /\ ~limit_hit(r)
           /\ ~(n.reqThisSecond >= maxReqPerSec)
  <2>1. s = count(t)
    BY <1>6 DEF sendSpigot
  <2>2. t \in HostFields
    BY <1>1, <1>2, TransmitStep
  <2>3. \/ t.sent = <<>> /\ t.state = r.state
        \/ t.sent = <<req>> /\ t.state = req
    BY <1>1, <1>2, TransmitWrites
  <2> HIDE DEF n, s, t
  <2>4. s.sent = t.sent /\ s.state = t.state
    BY <2>1, <2>2 DEF count, HostFields
  <2>5. QED
    BY <2>3, <2>4 DEF s
<1>7. QED
  BY <1>3, <1>4, <1>5, <1>6

\* The state follows the wire at the start and after every step.  A delayed
\* request is written under its own state because the two were saved together.
LEMMA FollowsInit == Init => StateFollowsWire
BY DEF Init, StateFollowsWire

LEMMA FollowsStep == IInv /\ StateFollowsWire /\ [Next]_vars => StateFollowsWire'
<1> SUFFICES ASSUME IInv, StateFollowsWire, [Next]_vars
             PROVE  StateFollowsWire'
  OBVIOUS
<1> DEFINE f == Fresh(h)
<1>1. h \in HostFields /\ h.state = lastSent
  BY DEF IInv, TypeOK, StateFollowsWire
<1>2. f \in HostFields /\ f.sent = <<>> /\ f.state = h.state
  BY <1>1, FreshType DEF Fresh, HostFields
<1>3. ASSUME NoteSent,
             NEW req \in Requests,
             \/ h'.sent = <<>> /\ h'.state = h.state
             \/ h'.sent = <<req>> /\ h'.state = req
      PROVE  StateFollowsWire'
  <2>1. CASE h'.sent = <<>> /\ h'.state = h.state
    BY <1>1, <1>3, <2>1 DEF NoteSent, StateFollowsWire
  <2>2. CASE h'.sent = <<req>> /\ h'.state = req
    <3>1. h'.sent # <<>> /\ h'.sent[Len(h'.sent)] = req
      BY <2>2
    <3>2. QED
      BY <1>3, <2>2, <3>1 DEF NoteSent, StateFollowsWire
  <2>3. QED
    BY <1>3, <2>1, <2>2
<1>4. CASE Tick
  <2>1. h' = [f EXCEPT !.tick = TRUE] /\ lastSent' = lastSent
    BY <1>4 DEF Tick
  <2> HIDE DEF f
  <2>2. h'.state = f.state
    BY <1>2, <2>1 DEF HostFields
  <2>3. QED
    BY <1>1, <1>2, <2>1, <2>2 DEF StateFollowsWire
<1>5. ASSUME NEW req \in Requests, NEW live \in BOOLEAN, Ask(req, live)
      PROVE  StateFollowsWire'
  <2>1. h' = sendSpigot(f, live, req, req) /\ NoteSent
    BY <1>5 DEF Ask
  <2> HIDE DEF f
  <2> DEFINE s == sendSpigot(f, live, req, req)
  <2>2. \/ s.sent = <<>> /\ s.state = f.state
        \/ s.sent = <<req>> /\ s.state = req
    BY <1>2, SpigotWrites
  <2> HIDE DEF s
  <2>3. h' = s
    BY <2>1 DEF s
  <2>4. QED
    BY <1>2, <1>3, <2>1, <2>2, <2>3
<1>6. ASSUME NEW live \in BOOLEAN, Fire(live) PROVE StateFollowsWire'
  <2> DEFINE req == f.savedReq
             t == transmit(f, live, f.savedNextState, req)
  <2>1. f.savedNextState = req /\ req \in Requests /\ req \in States
    BY <1>1, <1>6, FreshType
       DEF Fire, IInv, DelayedIsRequest, LastAskedGoesOut, States
  <2>2. h' = [t EXCEPT !.savedReqTimer = FALSE, !.savedReq = NoRequest,
                       !.reqThisSecond = 1, !.tick = FALSE, !.numReqSent = @ + 1]
        /\ NoteSent
    BY <1>6 DEF Fire, sendSpigot_cb
  <2> HIDE DEF f
  <2>3. t \in HostFields
    BY <1>2, <2>1, TransmitStep
  <2>4. \/ t.sent = <<>> /\ t.state = f.state
        \/ t.sent = <<req>> /\ t.state = req
    BY <1>2, <2>1, TransmitWrites
  <2> HIDE DEF req, t
  <2>5. h'.sent = t.sent /\ h'.state = t.state
    BY <2>2, <2>3 DEF HostFields
  <2>6. QED
    BY <1>2, <1>3, <2>1, <2>2, <2>4, <2>5
<1>7. CASE UNCHANGED vars
  BY <1>1, <1>7 DEF vars, StateFollowsWire
<1>8. QED
  BY <1>4, <1>5, <1>6, <1>7 DEF Next

\* The next reply is read in the state that follows the last request on the
\* wire, however often delayed requests replaced one another.
THEOREM StateFollows == Spec => []StateFollowsWire
<1>1. Init => IInv /\ StateFollowsWire
  BY IInvInit, FollowsInit
<1>2. IInv /\ StateFollowsWire /\ [Next]_vars => StateFollowsWire'
  BY FollowsStep
<1>3. QED
  BY <1>1, <1>2, SpigotInvariant, PTL DEF Spec

\* After the limit was reported a call of sendSpigot reports it again, and
\* neither writes nor counts.
LEMMA LimitAgain ==
  ASSUME NEW r \in HostFields, r.sent = <<>>, NEW live \in BOOLEAN,
         NEW req \in Requests,
         ~r.savedReqTimer, r.numReqSent = maxReqPerIp
  PROVE  LET s == sendSpigot(r, live, req, req)
         IN  s.reqLimitReached /\ s.sent = <<>> /\ s.numReqSent = r.numReqSent
<1> DEFINE s == sendSpigot(r, live, req, req)
<1>1. limit_hit(r)
  BY SpigotAssumption DEF SpigotAssumption, limit_hit
<1>2. s = hit_limit(r)
  BY <1>1 DEF sendSpigot
<1> HIDE DEF s
<1>3. s.reqLimitReached /\ s.sent = <<>> /\ s.numReqSent = r.numReqSent
  BY <1>2 DEF hit_limit, HostFields
<1>4. QED
  BY <1>3 DEF s

\* What no step may do once the limit was reported.
LEMMA LimitStep ==
  ASSUME IInv, Next, h.reqLimitReached
  PROVE  h'.reqLimitReached /\ h'.sent = <<>> /\ h'.numReqSent = h.numReqSent
<1> DEFINE f == Fresh(h)
<1>1. h \in HostFields
  BY DEF IInv, TypeOK
<1>2. h.numReqSent = maxReqPerIp /\ h.savedReqTimer = FALSE
  <2>1. h.numReqSent = maxReqPerIp
    BY DEF IInv, LimitSpent
  <2>2. ~h.savedReqTimer
    BY <1>1, <2>1, SpigotAssumption DEF IInv, Budget, SpigotAssumption
  <2>3. QED
    BY <1>1, <2>1, <2>2 DEF HostFields
<1>3. /\ f \in HostFields /\ f.sent = <<>> /\ f.numReqSent = h.numReqSent
      /\ ~f.savedReqTimer /\ f.reqLimitReached = h.reqLimitReached
  BY <1>1, <1>2, FreshType
<1>4. CASE Tick
  <2>1. h' = [f EXCEPT !.tick = TRUE]
    BY <1>4 DEF Tick
  <2> HIDE DEF f
  <2>2. h'.sent = f.sent /\ h'.numReqSent = f.numReqSent
          /\ h'.reqLimitReached = f.reqLimitReached
    BY <1>3, <2>1 DEF HostFields
  <2>3. QED
    BY <1>3, <2>2
<1>5. ASSUME NEW req \in Requests, NEW live \in BOOLEAN, Ask(req, live)
      PROVE  h'.reqLimitReached /\ h'.sent = <<>> /\ h'.numReqSent = h.numReqSent
  <2> DEFINE s == sendSpigot(f, live, req, req)
  <2>1. h' = s
    BY <1>5 DEF Ask
  <2> HIDE DEF f
  <2>2. s.reqLimitReached /\ s.sent = <<>> /\ s.numReqSent = f.numReqSent
    BY <1>2, <1>3, LimitAgain
  <2> HIDE DEF s
  <2>3. QED
    BY <1>3, <2>1, <2>2
<1>6. ASSUME NEW live \in BOOLEAN, Fire(live) PROVE FALSE
  BY <1>2, <1>6 DEF Fire
<1>7. QED
  BY <1>4, <1>5, <1>6 DEF Next

\* The invariant's last part: the limit was reported, so the budget is spent
\* and nothing is delayed.
LEMMA LimitMeansSpent ==
  ASSUME IInv, h.reqLimitReached
  PROVE  h.numReqSent = maxReqPerIp /\ ~h.savedReqTimer
<1>1. h \in HostFields /\ h.numReqSent = maxReqPerIp
  BY DEF IInv, TypeOK, LimitSpent
<1>2. ~h.savedReqTimer
  BY <1>1, SpigotAssumption DEF IInv, Budget, SpigotAssumption
<1>3. QED
  BY <1>1, <1>2

\* The limit is only reported with the budget spent and nothing delayed, and
\* the report is final: nothing is sent or counted after it.
THEOREM LimitFinal == Spec => LimitIsFinal
<1> DEFINE Spent == h.reqLimitReached => h.numReqSent = maxReqPerIp /\ ~h.savedReqTimer
<1>1. IInv => Spent
  BY LimitMeansSpent
<1>2. IInv' => Spent'
  BY <1>1, PTL
<1>3. IInv /\ [Next]_vars
        => [/\ h'.reqLimitReached => h'.numReqSent = maxReqPerIp /\ ~h'.savedReqTimer
            /\ h.reqLimitReached =>
                 h'.reqLimitReached /\ h'.sent = <<>> /\ h'.numReqSent = h.numReqSent]_vars
  BY <1>2, IInvStep, LimitStep
<1>4. QED
  BY <1>3, SpigotInvariant, PTL DEF Spec, LimitIsFinal
=============================================================================
