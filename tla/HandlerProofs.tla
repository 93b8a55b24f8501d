--------------------------- MODULE HandlerProofs ----------------------------
(***************************************************************************)
(* What every handler of HostState and CtrlHandlers keeps, whatever reply  *)
(* it is given.                                                            *)
(*                                                                         *)
(* A callback begins with a record g in which nothing was sent yet (Start) *)
(* and that is sound: Sound says what each state and each delayed request  *)
(* may find armed, open or known.  A handler turns g into a record k, and  *)
(* there is a lemma for each that k is still good, has ended in order, or  *)
(* has crashed the program in one of the ways there are (Good, Over,       *)
(* Broken), or is a new connection (Anew).  SessionProofs builds the       *)
(* callbacks from them.                                                    *)
(***************************************************************************)
EXTENDS CtrlHandlers, SequenceTheorems, TLAPS

\* The states of a login, of a handshake, and of what needs TLS or PASV first.
LoginStates == {"S_USER_SENT", "S_PASS_SENT"}
Handshakes == {"S_AUTH_TLS_SENT", "S_AUTH_SSL_SENT", "S_SECURITY_CONNECTING"}
SecPhase == Handshakes \cup {"S_PBSZ_INIT_SENT", "S_PROT_SENT"}
DataPhase == {"S_SYST_SENT", "S_PWD_SENT", "S_PASV_SENT", "S_DATA_CONN",
              "S_RETR_SENT", "S_RETR_XFER", "S_LIST_SENT", "S_LIST_XFER"}
Words == Commands \cup {"none"}

\* What a host will have cost its server, and where a delayed request leads.
Owing(k) == k.numReqSent + (IF k.savedReqTimer THEN 1 ELSE 0)
Later(k) == IF k.savedReqTimer THEN k.savedNextState ELSE "none"

\* The fields that matter here, and what they can be.
Fields ==
  {"state", "lastState", "terminationCode", "result", "hostIsFinished", "freed", "fault",
   "conn", "ctrlUsingSec", "ctrlSec", "secType", "secProbeStorage", "earlySecReq",
   "postSecConnectCB", "delayedCtrlCB", "sent", "numReqSent", "savedReqTimer",
   "savedReq", "savedNextState", "reqLimitReached", "multiRespState",
   "multiRespTimer", "multiRespEval", "resetWaitTimer", "retrWaitTimer", "dataBev",
   "dataUsingSec", "pasvAction", "pasvPost", "robotPresence", "robotObj", "connects", "staleData"}

Shaped(k) ==
  /\ Fields \subseteq DOMAIN k
  /\ k.state \in States
  /\ k.sent \in Seq(Words)
  /\ k.numReqSent \in Nat
  /\ k.connects \in Nat
  /\ k.savedReq \in Words
  /\ k.savedNextState \in ReplyStates \cup {"none"}
  /\ {k.hostIsFinished, k.freed, k.ctrlUsingSec, k.earlySecReq,
      k.savedReqTimer, k.reqLimitReached, k.multiRespTimer,
      k.resetWaitTimer, k.retrWaitTimer, k.dataBev,
      k.dataUsingSec, k.robotObj} \subseteq BOOLEAN
  /\ k.conn \in {"connecting", "up", "tls", "closed"}
  /\ k.secType \in {"SEC_UNK", "SEC_PRIMARY", "SEC_SECONDARY"}
  /\ k.postSecConnectCB \in
       {"none", "send_user", "disconnect_pleasant", "post_ending", "post_middle"}
  /\ k.delayedCtrlCB \in {"none", "ctrl_read_cb", "read_retr_done", "read_list_done"}
  /\ k.multiRespState \in {"UNK", "READ_ZERO", "READ_ONE"}
  /\ k.pasvAction \in {"none", "send_retr", "send_list"}

\* Everything sendSpigot leaves alone.
Keeps(k, m) ==
  /\ m.lastState = k.lastState /\ m.result = k.result
  /\ m.hostIsFinished = k.hostIsFinished /\ m.freed = k.freed /\ m.fault = k.fault
  /\ m.conn = k.conn /\ m.ctrlUsingSec = k.ctrlUsingSec /\ m.secType = k.secType
  /\ m.ctrlSec = k.ctrlSec
  /\ m.secProbeStorage = k.secProbeStorage /\ m.earlySecReq = k.earlySecReq
  /\ m.postSecConnectCB = k.postSecConnectCB /\ m.delayedCtrlCB = k.delayedCtrlCB
  /\ m.multiRespState = k.multiRespState /\ m.multiRespTimer = k.multiRespTimer
  /\ m.resetWaitTimer = k.resetWaitTimer /\ m.retrWaitTimer = k.retrWaitTimer
  /\ m.dataBev = k.dataBev /\ m.dataUsingSec = k.dataUsingSec
  /\ m.pasvAction = k.pasvAction /\ m.pasvPost = k.pasvPost
  /\ m.robotPresence = k.robotPresence /\ m.robotObj = k.robotObj
  /\ m.connects = k.connects

\* What sendSpigot can make of a request.
Delayed(k, m, next, req) ==
  /\ m.state = k.state /\ m.sent = k.sent /\ m.numReqSent = k.numReqSent
  /\ m.savedReqTimer /\ m.savedNextState = next /\ m.savedReq = req
  /\ k.savedReqTimer \/ k.numReqSent < maxReqPerIp
  /\ m.reqLimitReached = k.reqLimitReached /\ m.terminationCode = k.terminationCode

Refused(k, m) ==
  /\ m.state = k.state /\ m.sent = k.sent /\ m.numReqSent = k.numReqSent
  /\ ~k.savedReqTimer /\ ~m.savedReqTimer /\ k.numReqSent >= maxReqPerIp
  /\ m.reqLimitReached /\ m.terminationCode # "UNSET"

Sent(k, m, next, req) ==
  /\ m.state = next /\ m.sent = Append(k.sent, req) /\ m.numReqSent = k.numReqSent + 1
  /\ ~k.savedReqTimer /\ ~m.savedReqTimer /\ k.numReqSent < maxReqPerIp
  /\ m.reqLimitReached = k.reqLimitReached /\ m.terminationCode = k.terminationCode

\* The limit is a positive number.
LEMMA MaxNat == maxReqPerIp \in Nat \ {0}
BY HostStateAssumption DEF HostStateAssumption

\* sendSpigot delays the request, refuses it for good, or sends it: nothing else
\* changes (Delayed, Refused, Sent, Keeps).
LEMMA Spigot ==
  ASSUME NEW k, Shaped(k), NEW req \in Commands, NEW next \in ReplyStates
  PROVE  LET m == sendSpigot(k, TRUE, next, req)
         IN /\ Shaped(m) /\ Keeps(k, m)
            /\ Delayed(k, m, next, req) \/ Refused(k, m) \/ Sent(k, m, next, req)
<1> DEFINE n == new_second(k)
           m == sendSpigot(k, TRUE, next, req)
<1>1. Shaped(n) /\ Keeps(k, n) /\ n.state = k.state /\ n.sent = k.sent
      /\ n.numReqSent = k.numReqSent /\ n.savedReqTimer = k.savedReqTimer
      /\ n.reqLimitReached = k.reqLimitReached /\ n.terminationCode = k.terminationCode
  BY DEF new_second, Shaped, Keeps, Fields
<1>2. CASE k.savedReqTimer
  <2>1. m = clobber(k, next, req)
    BY <1>2 DEF sendSpigot
  <2> HIDE DEF m
  <2>2. Shaped(m)
    <3>1. m = [k EXCEPT !.savedReq = req, !.savedNextState = next] /\ req \in Words
      BY <2>1 DEF clobber, Words
    <3>2. QED
      BY <3>1 DEF Shaped, Fields
  <2>3. Keeps(k, m)
    BY <2>1, <1>2 DEF clobber, Shaped, Fields, Keeps
  <2>4. Delayed(k, m, next, req)
    BY <2>1, <1>2 DEF clobber, Shaped, Fields, Delayed
  <2>5. QED
    BY <2>2, <2>3, <2>4 DEF m
<1>3. CASE ~k.savedReqTimer /\ limit_hit(k)
  <2>1. m = hit_limit(k)
    BY <1>3 DEF sendSpigot
  <2>2. k.numReqSent >= maxReqPerIp
    BY <1>3, MaxNat DEF limit_hit, Shaped
  <2> HIDE DEF m
  <2>3. Shaped(m)
    BY <2>1 DEF hit_limit, Shaped, Fields
  <2>4. Keeps(k, m)
    BY <2>1 DEF hit_limit, Shaped, Fields, Keeps
  <2>5. Refused(k, m)
    BY <2>1, <2>2, <1>3 DEF hit_limit, Shaped, Fields, Refused
  <2>6. QED
    BY <2>3, <2>4, <2>5 DEF m
<1>4. CASE ~k.savedReqTimer /\ ~limit_hit(k) /\ n.reqThisSecond >= maxReqPerSec
  <2>1. m = arm(n, next, req)
    BY <1>4 DEF sendSpigot
  <2>2. k.numReqSent < maxReqPerIp
    BY <1>4, MaxNat DEF limit_hit, Shaped
  <2> HIDE DEF m, n
  <2>3. Shaped(m)
    BY <2>1, <1>1 DEF arm, Shaped, Fields, Words
  <2>4. Keeps(n, m)
    BY <2>1, <1>1 DEF arm, Shaped, Fields, Keeps
  <2>5. Delayed(n, m, next, req)
    BY <2>1, <2>2, <1>1 DEF arm, Shaped, Fields, Delayed
  <2>6. Keeps(k, m) /\ Delayed(k, m, next, req)
    BY <1>1, <2>4, <2>5 DEF Keeps, Delayed
  <2>7. QED
    BY <2>3, <2>6 DEF m
<1>5. CASE ~k.savedReqTimer /\ ~limit_hit(k) /\ ~(n.reqThisSecond >= maxReqPerSec)
  <2> DEFINE t == [n EXCEPT !.sent = Append(@, req), !.state = next]
  <2>1. m = count(t)
    BY <1>5 DEF sendSpigot, transmit, change_state
  <2>2. k.numReqSent < maxReqPerIp
    BY <1>5, MaxNat DEF limit_hit, Shaped
  <2> DEFINE a == Append(k.sent, req)
  <2>3. a \in Seq(Words)
    BY AppendProperties DEF Shaped, Words
  <2> HIDE DEF m, n, a
  <2>4. Shaped(t) /\ Keeps(n, t)
    <3>1. t = [n EXCEPT !.sent = a, !.state = next]
      BY <1>1 DEF a
    <3> HIDE DEF t
    <3>2. QED
      BY <3>1, <2>3, <1>1 DEF Shaped, Fields, States, Keeps
  <2>5. t.sent = a /\ t.state = next /\ t.numReqSent = n.numReqSent
        /\ t.savedReqTimer = n.savedReqTimer
        /\ t.reqLimitReached = n.reqLimitReached /\ t.terminationCode = n.terminationCode
    BY <1>1 DEF Shaped, Fields, a
  <2> HIDE DEF t
  <2>6. Shaped(m) /\ Keeps(t, m)
    BY <2>1, <2>4 DEF count, Shaped, Fields, Keeps
  <2>7. m.sent = t.sent /\ m.state = t.state /\ m.numReqSent = t.numReqSent + 1
        /\ m.savedReqTimer = t.savedReqTimer
        /\ m.reqLimitReached = t.reqLimitReached /\ m.terminationCode = t.terminationCode
    BY <2>1, <2>4 DEF count, Shaped, Fields
  <2>8. Keeps(k, m)
    BY <1>1, <2>4, <2>6 DEF Keeps
  <2>9. Sent(k, m, next, req)
    BY <1>1, <1>5, <2>2, <2>5, <2>7 DEF Sent, a
  <2>10. QED
    BY <2>6, <2>8, <2>9 DEF m
<1>6. QED
  BY <1>2, <1>3, <1>4, <1>5

-----------------------------------------------------------------------------
\* The host is alive and its record is still there.
Up(k) == k.fault = "none" /\ ~k.hostIsFinished /\ ~k.freed

\* The state the host is in, or the one its delayed request leads to, is in S.
Heading(k, S) == k.state \in S \/ Later(k) \in S

\* robots.txt was asked for, and nothing in it forbids to list.
Ready(k) ==
  IF crawlType = "NORMAL" THEN k.robotObj ELSE k.robotPresence = "ROBOTS_NO"

Listed(k) == \E i \in DOMAIN k.sent : k.sent[i] = "LIST"

\* The budget, and the delayed request.
Throttled(k) ==
  /\ Owing(k) <= maxReqPerIp
  /\ k.reqLimitReached => k.numReqSent = maxReqPerIp
  /\ k.savedReqTimer => k.savedNextState # "none"
  /\ k.savedReqTimer /\ k.savedReq = "LIST" => k.savedNextState = "S_LIST_SENT"

\* What QUIT needs, and what an end in a timer or at the limit will need.
Parting(k) ==
  /\ k.result = "none"
  /\ k.state = "S_QUIT_SENT" => k.numReqSent > 0
  /\ Heading(k, {"S_QUIT_SENT"}) =>
       k.lastState # "S_UNSET_STATE" /\ k.terminationCode # "UNSET"
  /\ k.resetWaitTimer \/ k.reqLimitReached => k.terminationCode # "UNSET"
  /\ k.postSecConnectCB = "post_middle" => k.secProbeStorage # "UNSET"

\* The new connections there can have been: one because the server wanted TLS
\* first, one because the first method of TLS failed.
Reconnects(k) ==
  (IF k.earlySecReq THEN 1 ELSE 0)
  + (IF k.secType = "SEC_UNK" \/ (k.secType = "SEC_PRIMARY" /\ k.ctrlUsingSec) THEN 0 ELSE 1)

\* The control channel and TLS.
Channelled(k) ==
  /\ k.state # "S_QUIT_ACK"
  /\ k.state = "S_INITIAL" => k.conn = "connecting"
  /\ k.connects <= 1 + Reconnects(k)
  /\ k.postSecConnectCB = "none" => ~Heading(k, SecPhase) /\ ~k.ctrlUsingSec
  /\ k.conn # "closed"
  /\ k.conn = "connecting" => ~k.ctrlUsingSec
  /\ k.ctrlUsingSec => k.secType # "SEC_UNK"
  /\ k.secType = "SEC_SECONDARY" => k.ctrlSec = "live" \/ k.earlySecReq
  /\ k.delayedCtrlCB = "ctrl_read_cb" => k.conn = "connecting"
  /\ k.conn = "tls" => k.state \in {"S_SECURITY_CONNECTING", "S_AUTH_SSL_SENT",
                                    "S_QUIT_SENT", "S_PBSZ_INIT_SENT"}
  /\ k.conn # "up" \/ k.state \in Handshakes =>
       Later(k) \in {"none", "S_AUTH_SSL_SENT", "S_QUIT_SENT", "S_PBSZ_INIT_SENT"}

\* The timers of a login.
LoggingIn(k) ==
  /\ (k.state \in LoginStates /\ k.multiRespState # "UNK") \/ k.multiRespTimer =>
       /\ k.state \in LoginStates /\ k.conn = "up"
       /\ Later(k) \in LoginStates \cup {"none"}
  /\ k.multiRespTimer => k.multiRespState = "READ_ONE"
  /\ k.resetWaitTimer =>
       /\ k.state \in LoginStates \cup {"S_RESET_WAIT"}
       /\ k.conn = "up" /\ k.multiRespState = "UNK" /\ ~k.multiRespTimer
       /\ Later(k) \in LoginStates \cup {"none"}

\* The walk: what was asked for, and what is known of robots.txt by then.
Walking(k) ==
  /\ k.pasvAction = "none" => ~Heading(k, DataPhase) /\ ~k.dataBev
  /\ crawlType = "SUPER_SHORT" => k.pasvAction = "none"
  /\ k.pasvAction = "send_retr" =>
       k.pasvPost = IF crawlType = "NORMAL" THEN "send_syst" ELSE "short_scan_ending"
  /\ k.pasvAction = "send_list" =>
       /\ k.pasvPost = IF crawlType = "SHORT" THEN "disconnect_pleasant" ELSE "walk_dir"
       /\ Ready(k)
  /\ Heading(k, {"S_RETR_SENT", "S_RETR_XFER"}) \/ k.retrWaitTimer
       \/ k.delayedCtrlCB = "read_retr_done" => k.pasvAction = "send_retr"
  /\ Heading(k, {"S_LIST_SENT", "S_LIST_XFER"}) \/ k.delayedCtrlCB = "read_list_done"
       => k.pasvAction = "send_list"
  /\ Heading(k, {"S_SYST_SENT", "S_PWD_SENT"}) => Ready(k)
  /\ Heading(k, {"S_PWD_SENT"}) => crawlType # "SHORT"
  /\ Later(k) \in {"S_RETR_SENT", "S_LIST_SENT"} => k.state = "S_DATA_CONN"
  /\ k.state = "S_DATA_CONN" => Later(k) \in {"none", "S_RETR_SENT", "S_LIST_SENT"}
  /\ k.state = "S_RETR_SENT" => Later(k) \in {"none", "S_QUIT_SENT"}

\* The data channel, and what waits for it.
Transferring(k) ==
  /\ k.retrWaitTimer =>
       /\ k.state \in {"S_RETR_XFER", "S_QUIT_SENT"} /\ ~k.dataBev /\ k.conn = "up"
       /\ Later(k) \in {"none", "S_QUIT_SENT"}
  /\ k.dataBev =>
       /\ k.conn = "up"
       /\ k.state \in {"S_DATA_CONN", "S_RETR_SENT", "S_RETR_XFER", "S_LIST_SENT",
                       "S_LIST_XFER", "S_QUIT_SENT"}
       /\ k.state # "S_DATA_CONN" => Later(k) \in {"none", "S_QUIT_SENT"}
  /\ k.delayedCtrlCB \in {"read_retr_done", "read_list_done"} =>
       k.dataBev /\ k.state \in {"S_RETR_XFER", "S_LIST_XFER", "S_QUIT_SENT"}
  /\ k.state \in {"S_RETR_XFER", "S_LIST_XFER"} /\ k.ctrlUsingSec /\ k.dataBev
       => k.dataUsingSec

Sound(k) ==
  /\ Throttled(k) /\ Parting(k) /\ Channelled(k)
  /\ LoggingIn(k) /\ Walking(k) /\ Transferring(k)

\* What the step that began with record g has cost so far.
Costs(g, k) ==
  /\ k.numReqSent >= g.numReqSent
  /\ Len(k.sent) = k.numReqSent - g.numReqSent
  /\ Owing(k) <= maxReqPerIp
  /\ Listed(k) => Ready(k)

\* The host goes on, on the connection on which the step began.
Good(g, k) ==
  /\ Shaped(k) /\ Costs(g, k) /\ Up(k) /\ Sound(k)
  /\ k.connects = g.connects
  /\ Owing(k) >= Owing(g)
  /\ k.conn = "connecting" => g.conn = "connecting"
  /\ k.delayedCtrlCB = "ctrl_read_cb" => g.delayedCtrlCB = "ctrl_read_cb"

\* A callback begins: nothing has been sent in this step.
Start(g) == Shaped(g) /\ Up(g) /\ Sound(g) /\ g.sent = <<>>

\* Where a request that leads to state next may be asked for.
May(k, next) ==
  /\ k.conn = "up" /\ ~k.multiRespTimer /\ ~k.resetWaitTimer
  /\ k.postSecConnectCB = "none" => next \notin SecPhase
  /\ k.pasvAction = "none" => next \notin DataPhase
  /\ k.state \in Handshakes => next \in {"S_AUTH_SSL_SENT", "S_QUIT_SENT", "S_PBSZ_INIT_SENT"}
  /\ k.state \in LoginStates /\ k.multiRespState # "UNK" => next \in LoginStates
  /\ k.state = "S_RETR_SENT" => next = "S_QUIT_SENT"
  /\ k.state = "S_DATA_CONN" => next \in {"S_RETR_SENT", "S_LIST_SENT"}
  /\ next = "S_QUIT_SENT" => k.lastState # "S_UNSET_STATE" /\ k.terminationCode # "UNSET"
  /\ next = "S_RETR_SENT" => k.state = "S_DATA_CONN" /\ k.pasvAction = "send_retr"
  /\ next = "S_LIST_SENT" => k.state = "S_DATA_CONN" /\ k.pasvAction = "send_list"
  /\ next \in {"S_SYST_SENT", "S_PWD_SENT"} => Ready(k)
  /\ next = "S_PWD_SENT" => crawlType # "SHORT"
  /\ k.retrWaitTimer => next = "S_QUIT_SENT"
  /\ k.dataBev /\ k.state # "S_DATA_CONN" => next = "S_QUIT_SENT"

\* Asking for a request keeps a host good where the request may be asked for.
LEMMA Ask ==
  ASSUME NEW g, NEW k, Start(g), Good(g, k),
         NEW req \in Commands, NEW next \in ReplyStates, May(k, next),
         (req = "LIST") <=> (next = "S_LIST_SENT")
  PROVE  LET m == ask(k, next, req)
         IN /\ Good(g, m) /\ Keeps(k, m)
            /\ m.state \in {k.state, next} /\ Later(m) \in {"none", next}
            /\ m.reqLimitReached => m.state = k.state
            /\ k.terminationCode # "UNSET" => m.terminationCode # "UNSET"
<1> DEFINE m == ask(k, next, req)
<1>1. m = sendSpigot(k, TRUE, next, req)
  BY DEF ask, Good, Up
<1> HIDE DEF m
<1>2. /\ Shaped(m) /\ Keeps(k, m)
      /\ Delayed(k, m, next, req) \/ Refused(k, m) \/ Sent(k, m, next, req)
  BY <1>1, Spigot DEF Good
<1>3. Shaped(k) /\ Costs(g, k) /\ Up(k) /\ Sound(k)
  BY DEF Good
<1>4. Up(m)
  BY <1>2, <1>3 DEF Up, Keeps
<1>5. Ready(m) <=> Ready(k)
  BY <1>2 DEF Ready, Keeps
<1>6. next \in States /\ next # "S_DATA_CONN" /\ next \notin {"S_RETR_XFER", "S_LIST_XFER"}
      /\ next # "none" /\ next # "S_INITIAL" /\ next # "S_QUIT_ACK" /\ next # "S_SECURITY_CONNECTING" /\ next # "S_RESET_WAIT"
  BY DEF ReplyStates, States
<1>7. Throttled(m)
  BY <1>2, <1>3, <1>6, MaxNat DEF Sound, Throttled, Owing, Delayed, Refused, Sent, Shaped
<1>8. Parting(m)
  BY <1>2, <1>3 DEF Sound, Parting, Keeps, Delayed, Refused, Sent, Shaped, Heading, Later, May
<1>9. Channelled(m)
  BY <1>2, <1>3, <1>6 DEF Sound, Channelled, Reconnects, Keeps, Delayed, Refused, Sent, Shaped, Heading, Later, May
<1>10. LoggingIn(m)
  BY <1>2, <1>3, <1>6 DEF Sound, LoggingIn, Keeps, Delayed, Refused, Sent, Shaped, Later, May
<1>11. Walking(m)
  <2>1. CASE Delayed(k, m, next, req)
    BY <1>2, <1>3, <1>5, <1>6, <2>1 DEF Sound, Walking, Keeps, Delayed, Heading, Later, May
  <2>2. CASE Refused(k, m)
    BY <1>2, <1>3, <1>5, <1>6, <2>2 DEF Sound, Walking, Keeps, Refused, Heading, Later, May
  <2>3. CASE Sent(k, m, next, req)
    BY <1>2, <1>3, <1>5, <1>6, <2>3 DEF Sound, Walking, Keeps, Sent, Heading, Later, May
  <2>4. QED
    BY <1>2, <2>1, <2>2, <2>3
<1>12. Transferring(m)
  BY <1>2, <1>3, <1>6 DEF Sound, Transferring, Keeps, Delayed, Refused, Sent, Shaped, Later, May
<1>13. Costs(g, m)
  <2>1. /\ k.sent \in Seq(Words) /\ req \in Words
        /\ k.numReqSent \in Nat /\ g.numReqSent \in Nat /\ Owing(m) <= maxReqPerIp
    BY <1>3, <1>7 DEF Start, Shaped, Words, Throttled
  <2>2. CASE m.sent = k.sent /\ m.numReqSent = k.numReqSent
    BY <1>3, <1>5, <2>1, <2>2 DEF Costs, Listed
  <2>3. CASE Sent(k, m, next, req)
    <3>1. /\ Len(m.sent) = Len(k.sent) + 1 /\ Len(k.sent) \in Nat
          /\ DOMAIN m.sent = 1..(Len(k.sent) + 1) /\ DOMAIN k.sent = 1..Len(k.sent)
          /\ \A i \in 1..Len(k.sent) : m.sent[i] = k.sent[i]
          /\ m.sent[Len(k.sent) + 1] = req
      BY <2>1, <2>3, AppendProperties, LenProperties DEF Sent
    <3>2. m.numReqSent = k.numReqSent + 1
      BY <2>3 DEF Sent
    <3>3. Listed(m) => Listed(k) \/ req = "LIST"
      BY <3>1 DEF Listed
    <3>4. req = "LIST" => Ready(k)
      BY <1>3 DEF May, Sound, Walking
    <3>5. QED
      BY <1>3, <1>5, <2>1, <3>1, <3>2, <3>3, <3>4 DEF Costs
  <2>4. QED
    BY <1>2, <2>2, <2>3 DEF Delayed, Refused
<1>14. Owing(m) >= Owing(k)
  BY <1>2, <1>3 DEF Owing, Delayed, Refused, Sent, Shaped
<1>15. /\ m.state \in {k.state, next} /\ Later(m) \in {"none", next}
       /\ m.reqLimitReached => m.state = k.state
       /\ k.terminationCode # "UNSET" => m.terminationCode # "UNSET"
  BY <1>2, <1>3, <1>7, MaxNat DEF Sound, Later, Delayed, Refused, Sent, Shaped, Throttled, Owing
<1>16. QED
  BY <1>2, <1>3, <1>4, <1>7, <1>8, <1>9, <1>10, <1>11, <1>12, <1>13, <1>14, <1>15
  DEF Good, Sound, Keeps, m, Start, Shaped, Owing

-----------------------------------------------------------------------------
Results == {"PLEASANT", "RUDE", "ABRUPT"}

\* What end_channel_now leaves behind.
Clean(k) ==
  /\ ~(k.savedReqTimer \/ k.multiRespTimer \/ k.resetWaitTimer \/ k.retrWaitTimer)
  /\ ~k.dataBev /\ k.conn = "closed"
  /\ k.result \in Results /\ k.lastState # "S_UNSET_STATE"
  /\ k.terminationCode # "UNSET"

\* What also holds of a host that has ended or crashed the program.
Safe(k) ==
  /\ k.hostIsFinished => Clean(k)
  /\ crawlType = "SUPER_SHORT" => ~k.dataBev
  /\ k.delayedCtrlCB \in {"read_retr_done", "read_list_done"} /\ ~k.hostIsFinished
       => k.dataBev
  /\ k.state \in {"S_RETR_XFER", "S_LIST_XFER"} /\ k.ctrlUsingSec /\ k.dataBev
       => k.dataUsingSec

\* The host has ended, and may have been freed.
Gone(g, k) ==
  /\ Shaped(k) /\ Costs(g, k)
  /\ k.fault = "none" /\ k.hostIsFinished /\ Clean(k)
  /\ k.connects = g.connects
  /\ k.result # "ABRUPT" => g.state = "S_QUIT_SENT"
  /\ k.result = "PLEASANT" => g.conn = "up"

\* The host has ended, and its callback will look for that.
Over(g, k) == Gone(g, k) /\ ~k.freed

\* The host begins again on a new connection.
Anew(g, k) ==
  /\ Shaped(k) /\ Costs(g, k) /\ Up(k) /\ Sound(k)
  /\ k.conn = "connecting" /\ k.connects = g.connects + 1
  /\ k.numReqSent = g.numReqSent
  /\ k.savedReqTimer => g.savedReqTimer
  /\ k.reqLimitReached = g.reqLimitReached
  /\ k.delayedCtrlCB = "ctrl_read_cb" => g.delayedCtrlCB = "ctrl_read_cb"

\* What a server can make the program do that C leaves undefined or that aborts.
Faults ==
  {"assert_multi_resp", "assert_secProbe", "null_data_bev", "stale_ssl", "use_after_free"}

\* ctrlSec is gone only where both methods were tried before the server wanted TLS.
Explained(k) == k.fault = "stale_ssl" => k.earlySecReq /\ k.secType = "SEC_SECONDARY"

\* The program has crashed.
Crashed(g, k) ==
  /\ Shaped(k) /\ Costs(g, k)
  /\ k.fault \in Faults /\ Explained(k) /\ Safe(k)
  /\ g.connects <= k.connects /\ k.connects <= 3
  /\ k.result \in Results \cup {"none"}

\* It has, but not over a host that was freed.
Broken(g, k) == Crashed(g, k) /\ k.fault # "use_after_free"

\* The ways a handler that began with record g can leave the host, unless it
\* connects anew, or was given too much data.
Out(g, k) == Good(g, k) \/ Over(g, k) \/ Broken(g, k)

\* A sound host that is alive is safe, and has connected three times at most.
LEMMA SoundIsSafe ==
  ASSUME NEW k, Shaped(k), Sound(k), ~k.hostIsFinished
  PROVE  Safe(k) /\ k.connects <= 3
<1>1. Safe(k)
  BY DEF Sound, Safe, Walking, Transferring
<1>2. k.connects <= 3
  BY DEF Sound, Channelled, Reconnects, Shaped
<1>3. QED
  BY <1>1, <1>2

\* end_channel_now ends a host that has its result and its last state.
LEMMA EndNow ==
  ASSUME NEW g, NEW k, Shaped(k), Costs(g, k), Up(k),
         k.lastState # "S_UNSET_STATE", k.terminationCode # "UNSET",
         k.result \in Results, k.connects = g.connects,
         k.result # "ABRUPT" => g.state = "S_QUIT_SENT",
         k.result = "PLEASANT" => g.conn = "up"
  PROVE  Over(g, end_channel_now(k))
<1> DEFINE m == end_channel_now(k)
<1>1. m = [[k EXCEPT !.savedReqTimer = FALSE, !.retrWaitTimer = FALSE,
                     !.multiRespTimer = FALSE, !.resetWaitTimer = FALSE] EXCEPT
             !.dataBev = FALSE, !.dirQueue = 0, !.conn = "closed",
             !.hostIsFinished = TRUE]
  BY DEF end_channel_now, delete_all_timers, Up
<1> HIDE DEF m
<1>2. /\ Shaped(m) /\ Clean(m) /\ m.hostIsFinished /\ m.fault = "none"
      /\ m.result = k.result /\ m.connects = k.connects
  BY <1>1 DEF Shaped, Fields, Clean, Up
<1>3. Costs(g, m)
  BY <1>1, MaxNat DEF Shaped, Fields, Costs, Owing, Listed, Ready
<1>4. ~m.freed
  BY <1>1 DEF Shaped, Fields, Up
<1>5. QED
  BY <1>2, <1>3, <1>4 DEF Over, Gone, m

\* Enough to end it.
Whole(g, k) == Shaped(k) /\ Costs(g, k) /\ Up(k) /\ k.connects = g.connects

\* disconnect_abrupt and disconnect_rude end a host that has a reason for it.
LEMMA Disconnected ==
  ASSUME NEW g, NEW k, Whole(g, k), k.terminationCode # "UNSET",
         NEW how \in {"RUDE", "ABRUPT"}, how = "RUDE" => g.state = "S_QUIT_SENT"
  PROVE  Over(g, disconnect(k, how))
<1> DEFINE m == [[k EXCEPT !.lastState = IF @ = "S_UNSET_STATE" THEN k.state ELSE @]
                   EXCEPT !.result = how]
<1>1. /\ Shaped(k) /\ Costs(g, k) /\ Up(k) /\ k.connects = g.connects
  BY DEF Whole
<1>2. k.state # "S_UNSET_STATE"
  BY <1>1 DEF Shaped, States, ReplyStates
<1>3. /\ Shaped(m) /\ Up(m) /\ m.lastState # "S_UNSET_STATE"
      /\ m.terminationCode = k.terminationCode /\ m.result = how
      /\ m.connects = k.connects
  BY <1>1, <1>2 DEF Shaped, Fields, Up
<1>4. Costs(g, m)
  BY <1>1 DEF Shaped, Fields, Costs, Owing, Listed, Ready
<1> HIDE DEF m
<1>5. Over(g, end_channel_now(m))
  BY <1>1, <1>3, <1>4, EndNow DEF Results
<1>6. QED
  BY <1>5 DEF disconnect, note_last_state, m

\* Setting the reason for the end keeps everything else.
LEMMA Fail ==
  ASSUME NEW g, NEW k, Good(g, k), NEW code, code # "UNSET"
  PROVE  /\ Good(g, fail(k, code)) /\ Keeps(k, fail(k, code))
         /\ fail(k, code).state = k.state /\ fail(k, code).terminationCode = code
<1> DEFINE m == fail(k, code)
<1>1. m = [k EXCEPT !.terminationCode = code] /\ Shaped(k)
  BY DEF fail, Good
<1> HIDE DEF m
<1>2. /\ Shaped(m) /\ Keeps(k, m) /\ m.state = k.state /\ m.terminationCode = code
      /\ m.numReqSent = k.numReqSent /\ m.savedReqTimer = k.savedReqTimer
      /\ m.savedNextState = k.savedNextState /\ m.savedReq = k.savedReq
      /\ m.reqLimitReached = k.reqLimitReached /\ m.sent = k.sent
  BY <1>1 DEF Shaped, Fields, Keeps
<1>3. Sound(m)
  BY <1>2 DEF Good, Sound, Throttled, Parting, Channelled, LoggingIn, Walking,
              Transferring, Reconnects, Owing, Later, Heading, Ready, Keeps
<1>4. QED
  BY <1>2, <1>3 DEF Good, Up, Costs, Owing, Listed, Ready, Keeps, m

\* A host is ended with its reason, whatever state its session is in.
LEMMA AbruptWhole ==
  ASSUME NEW g, NEW k, Whole(g, k), NEW code, code # "UNSET"
  PROVE  Over(g, abrupt(k, code))
<1> DEFINE m == fail(k, code)
<1>1. m = [k EXCEPT !.terminationCode = code] /\ Shaped(k)
  BY DEF fail, Whole
<1>2. Whole(g, m) /\ m.terminationCode = code
  BY <1>1 DEF Whole, Shaped, Fields, Up, Costs, Owing, Listed, Ready
<1> HIDE DEF m
<1>3. QED
  BY <1>2, Disconnected DEF abrupt, disconnect_abrupt, m

\* The same for a host that is good.
LEMMA Abrupt ==
  ASSUME NEW g, NEW k, Start(g), Good(g, k), NEW code, code # "UNSET"
  PROVE  Over(g, abrupt(k, code))
BY AbruptWhole DEF Good, Whole

\* Nothing is under way but perhaps a delayed request.
Open(k) ==
  /\ k.conn = "up" /\ ~k.multiRespTimer /\ ~k.resetWaitTimer
  /\ ~k.retrWaitTimer /\ ~k.dataBev
  /\ k.state \notin {"S_DATA_CONN", "S_RETR_SENT"}
  /\ k.state \in LoginStates => k.multiRespState = "UNK"

\* Where QUIT may be asked for.
MayQuit(k) ==
  /\ k.conn = "up" /\ ~k.multiRespTimer /\ ~k.resetWaitTimer
  /\ k.state # "S_DATA_CONN"
  /\ k.state \in LoginStates => k.multiRespState = "UNK"

\* QUIT is asked for: the host is good, at the limit it stays where it was, and
\* what is not under way does not come under way.
LEMMA DisconnectPleasant ==
  ASSUME NEW g, NEW k, Start(g), Good(g, k), MayQuit(k), k.terminationCode # "UNSET"
  PROVE  LET m == disconnect_pleasant(k)
         IN /\ Good(g, m) /\ MayQuit(m) /\ (Open(k) => Open(m))
            /\ m.state \in {k.state, "S_QUIT_SENT"} /\ Later(m) \in {"none", "S_QUIT_SENT"}
            /\ m.reqLimitReached => m.state = k.state
            /\ m.terminationCode # "UNSET"
<1> DEFINE n == note_last_state(k)
           m == disconnect_pleasant(k)
<1>1. n = [k EXCEPT !.lastState = IF @ = "S_UNSET_STATE" THEN k.state ELSE @] /\ Shaped(k)
  BY DEF note_last_state, Good
<1>2. k.state # "S_UNSET_STATE"
  BY <1>1 DEF Shaped, States, ReplyStates
<1>3. m = ask(n, "S_QUIT_SENT", "QUIT")
  BY DEF disconnect_pleasant, send_quit
<1> HIDE DEF m, n
<1>4. Good(g, n)
  <2>1. /\ Shaped(n) /\ n.lastState # "S_UNSET_STATE" /\ n.state = k.state
        /\ Keeps([k EXCEPT !.lastState = n.lastState], n)
        /\ n.terminationCode = k.terminationCode
        /\ n.numReqSent = k.numReqSent /\ n.savedReqTimer = k.savedReqTimer
        /\ n.savedNextState = k.savedNextState /\ n.savedReq = k.savedReq
        /\ n.reqLimitReached = k.reqLimitReached /\ n.sent = k.sent
    BY <1>1, <1>2 DEF Shaped, Fields, Keeps
  <2>2. Keeps(k, [n EXCEPT !.lastState = k.lastState])
    BY <1>1 DEF Shaped, Fields, Keeps
  <2>3. Sound(n)
    BY <1>1, <1>2 DEF Good, Sound, Throttled, Parting, Channelled, LoggingIn, Walking,
                Transferring, Reconnects, Owing, Later, Heading, Ready, Shaped, Fields
  <2>4. QED
    BY <1>1, <2>1, <2>3 DEF Good, Up, Costs, Owing, Listed, Ready, Shaped, Fields
<1>5. May(n, "S_QUIT_SENT")
  BY <1>1, <1>2 DEF Shaped, Fields, May, MayQuit, SecPhase, DataPhase, Handshakes
<1>6. /\ "QUIT" \in Commands /\ "S_QUIT_SENT" \in ReplyStates
  BY DEF Commands, ReplyStates
<1>7. /\ Good(g, m) /\ Keeps(n, m) /\ m.state \in {n.state, "S_QUIT_SENT"}
      /\ Later(m) \in {"none", "S_QUIT_SENT"}
      /\ m.reqLimitReached => m.state = n.state
      /\ n.terminationCode # "UNSET" => m.terminationCode # "UNSET"
  BY <1>3, <1>4, <1>5, <1>6, Ask
<1>8. /\ n.state = k.state /\ n.terminationCode = k.terminationCode
      /\ (Open(k) => Open(n)) /\ MayQuit(n)
  BY <1>1 DEF MayQuit, Open, Shaped, Fields
<1>9. (Open(n) => Open(m)) /\ MayQuit(m)
  BY <1>7, <1>8 DEF MayQuit, Open, Keeps, LoginStates
<1>10. QED
  BY <1>7, <1>8, <1>9 DEF m

\* The same where the reason is set first.
LEMMA Pleasant ==
  ASSUME NEW g, NEW k, Start(g), Good(g, k), MayQuit(k), NEW code, code # "UNSET"
  PROVE  LET m == pleasant(k, code)
         IN /\ Good(g, m) /\ MayQuit(m) /\ (Open(k) => Open(m))
            /\ m.state \in {k.state, "S_QUIT_SENT"} /\ Later(m) \in {"none", "S_QUIT_SENT"}
            /\ m.reqLimitReached => m.state = k.state
            /\ m.terminationCode # "UNSET"
<1>1. /\ Good(g, fail(k, code)) /\ MayQuit(fail(k, code))
      /\ (Open(k) => Open(fail(k, code)))
      /\ fail(k, code).state = k.state /\ fail(k, code).terminationCode = code
  BY Fail DEF MayQuit, Open, Keeps
<1>2. QED
  BY <1>1, DisconnectPleasant DEF pleasant

\* A fault leaves a crashed program, whether the host was good or had ended.
LEMMA Crash ==
  ASSUME NEW g, NEW k, Start(g), Good(g, k) \/ Gone(g, k), NEW what \in Faults,
         what = "stale_ssl" => k.earlySecReq /\ k.secType = "SEC_SECONDARY"
  PROVE  Crashed(g, crash(k, what)) /\ crash(k, what).fault = what
<1> DEFINE m == crash(k, what)
<1>1. m = [k EXCEPT !.fault = what] /\ Shaped(k) /\ Costs(g, k)
  BY DEF crash, Good, Gone, Up
<1>2. /\ Safe(k) /\ k.connects <= 3 /\ k.connects = g.connects
      /\ k.result \in Results \cup {"none"}
  <2>1. CASE Good(g, k)
    BY <2>1, SoundIsSafe DEF Good, Up, Sound, Parting
  <2>2. CASE Gone(g, k)
    <3>1. Safe(k)
      BY <2>2 DEF Gone, Safe, Clean
    <3>2. k.connects <= 3
      BY <2>2, SoundIsSafe DEF Gone, Start, Up
    <3>3. QED
      BY <2>2, <3>1, <3>2 DEF Gone, Clean
  <2>3. QED
    BY <2>1, <2>2
<1> HIDE DEF m
<1>3. /\ Shaped(m) /\ m.fault = what /\ m.connects = k.connects /\ m.result = k.result
      /\ m.earlySecReq = k.earlySecReq /\ m.secType = k.secType
  BY <1>1 DEF Shaped, Fields
<1>4. Safe(m)
  BY <1>1, <1>2 DEF Safe, Clean, Shaped, Fields
<1>5. Costs(g, m)
  BY <1>1 DEF Costs, Owing, Listed, Ready, Shaped, Fields
<1>6. Explained(m)
  BY <1>3 DEF Explained
<1>7. QED
  BY <1>2, <1>3, <1>4, <1>5, <1>6 DEF Crashed, Shaped, m

\* The verdicts of parse_response.
Sizes == {"FOUND", "EXTRA", "INCOMPLETE", "ERROR"}
Reply(r) == r.size \in Sizes /\ r.kind # "UNSET"

\* A reply is one of four things, and two of them are the same for all states.
LEMMA ParseResponse ==
  ASSUME NEW g, NEW k, Start(g), Good(g, k), NEW r, Reply(r), NEW extra, NEW found,
         r.size = "EXTRA" => Out(g, extra), r.size = "FOUND" => Out(g, found)
  PROVE  Out(g, parse_response(k, r, extra, found))
<1>1. ~k.hostIsFinished
  BY DEF Good, Up
<1>2. r.size = "ERROR" => Over(g, abrupt(k, r.kind))
  BY Abrupt DEF Reply
<1>3. QED
  BY <1>1, <1>2 DEF parse_response, Reply, Sizes, Out

\* A reply that counts whether or not another one follows it.
LEMMA ParseFirst ==
  ASSUME NEW g, NEW k, Start(g), Good(g, k), NEW r, Reply(r), NEW found
  PROVE  /\ r.size \in {"FOUND", "EXTRA"} => parse_first(k, r, found) = found
         /\ r.size \notin {"FOUND", "EXTRA"} => Out(g, parse_first(k, r, found))
<1>1. ~k.hostIsFinished
  BY DEF Good, Up
<1>2. r.size = "ERROR" => Over(g, abrupt(k, r.kind))
  BY Abrupt DEF Reply
<1>3. QED
  BY <1>1, <1>2 DEF parse_first, parse_response, Reply, Sizes, Out

\* A reply that must stand alone: a second one behind it ends in QUIT.
LEMMA Single ==
  ASSUME NEW g, NEW k, Start(g), Good(g, k), MayQuit(k), NEW r, Reply(r), NEW found,
         r.size = "FOUND" => Out(g, found)
  PROVE  Out(g, single(k, r, found))
<1>1. Good(g, handle_extra_resp_error(k))
  BY Pleasant DEF handle_extra_resp_error
<1>2. QED
  BY <1>1, ParseResponse DEF single, Out

\* A reply that stands alone is what its handler does with it.
LEMMA SingleFound ==
  ASSUME NEW k, Up(k), NEW r, Reply(r), NEW found
  PROVE  r.size = "FOUND" => single(k, r, found) = found
BY DEF Up, single, parse_response

\* Freeing a host that has ended, and no other.
LEMMA FreeIfFinished ==
  ASSUME NEW g, NEW k, Start(g), Good(g, k) \/ Gone(g, k) \/ Crashed(g, k)
  PROVE  LET m == free_if_finished(k)
         IN /\ m.fault = k.fault
            /\ Good(g, k) => m = k
            /\ Gone(g, k) => Gone(g, m)
            /\ Crashed(g, k) => Crashed(g, m)
            /\ m.hostIsFinished => m.freed
<1> DEFINE m == free_if_finished(k)
<1>1. CASE ~k.hostIsFinished
  BY <1>1 DEF free_if_finished
<1>2. CASE k.hostIsFinished
  <2>1. m = [k EXCEPT !.freed = TRUE] /\ Shaped(k) /\ Costs(g, k)
    BY <1>2 DEF free_if_finished, Good, Gone, Crashed
  <2>2. ~Good(g, k)
    BY <1>2 DEF Good, Up
  <2> HIDE DEF m
  <2>3. /\ Shaped(m) /\ m.fault = k.fault /\ m.connects = k.connects
        /\ m.result = k.result /\ m.hostIsFinished = k.hostIsFinished /\ m.freed = TRUE
        /\ m.earlySecReq = k.earlySecReq /\ m.secType = k.secType
    BY <2>1 DEF Shaped, Fields
  <2>4. Costs(g, m)
    BY <2>1 DEF Costs, Owing, Listed, Ready, Shaped, Fields
  <2>5. (Clean(k) => Clean(m)) /\ (Safe(k) => Safe(m))
    BY <2>1 DEF Clean, Safe, Shaped, Fields
  <2>6. Gone(g, k) => Gone(g, m)
    BY <1>2, <2>3, <2>4, <2>5 DEF Gone
  <2>7. Crashed(g, k) => Crashed(g, m)
    BY <2>3, <2>4, <2>5 DEF Crashed, Explained
  <2>8. QED
    BY <2>2, <2>3, <2>6, <2>7 DEF m
<1>3. QED
  BY <1>1, <1>2

-----------------------------------------------------------------------------
\* m differs from k at most in fields that none of the above looks at.
Alike(k, m) ==
  /\ Fields \subseteq DOMAIN m /\ Keeps(k, m)
  /\ m.state = k.state /\ m.terminationCode = k.terminationCode
  /\ m.sent = k.sent /\ m.numReqSent = k.numReqSent
  /\ m.savedReqTimer = k.savedReqTimer /\ m.savedReq = k.savedReq
  /\ m.savedNextState = k.savedNextState /\ m.reqLimitReached = k.reqLimitReached

\* A record that is alike is as good.
LEMMA AlikeGood ==
  ASSUME NEW g, NEW k, Good(g, k), NEW m, Alike(k, m)
  PROVE  Good(g, m) /\ (Open(k) => Open(m)) /\ (MayQuit(k) => MayQuit(m))
<1>1. Shaped(m) /\ Up(m)
  BY DEF Good, Alike, Keeps, Shaped, Up
<1>2. Sound(m)
  BY DEF Good, Sound, Throttled, Parting, Channelled, LoggingIn, Walking,
         Transferring, Reconnects, Owing, Later, Heading, Ready, Keeps, Alike
<1>3. QED
  BY <1>1, <1>2 DEF Good, Alike, Costs, Owing, Listed, Ready, Keeps, Open, MayQuit

\* A host whose state has no timer and no data channel of its own.
LEMMA OpenState ==
  ASSUME NEW k, Shaped(k), Sound(k), k.conn = "up",
         k.state \notin LoginStates \cup
           {"S_RESET_WAIT", "S_DATA_CONN", "S_RETR_SENT", "S_RETR_XFER",
            "S_LIST_SENT", "S_LIST_XFER", "S_QUIT_SENT"}
  PROVE  Open(k) /\ MayQuit(k)
BY DEF Sound, LoggingIn, Transferring, Open, MayQuit

\* Where nothing is under way QUIT may be asked for.
LEMMA OpenMayQuit ==
  ASSUME NEW k, Open(k)
  PROVE  MayQuit(k)
BY DEF Open, MayQuit

\* What a host with nothing under way may ask for next.
LEMMA OpenAsk ==
  ASSUME NEW g, NEW k, Start(g), Good(g, k), Open(k), k.state \notin Handshakes,
         NEW req \in Commands \ {"LIST"},
         NEW next \in ReplyStates \ {"S_RETR_SENT", "S_LIST_SENT", "S_QUIT_SENT"},
         next \in SecPhase => k.postSecConnectCB # "none",
         next \in DataPhase => k.pasvAction # "none",
         next \in {"S_SYST_SENT", "S_PWD_SENT"} => Ready(k),
         next = "S_PWD_SENT" => crawlType # "SHORT"
  PROVE  LET m == ask(k, next, req)
         IN /\ Good(g, m)
            /\ m.reqLimitReached => m.state = k.state
            /\ next \notin LoginStates => Open(m)
            /\ m.pasvAction = k.pasvAction /\ m.postSecConnectCB = k.postSecConnectCB
<1>1. May(k, next)
  BY DEF Open, May
<1>2. req \in Commands /\ next \in ReplyStates /\ (req = "LIST") <=> (next = "S_LIST_SENT")
  OBVIOUS
<1>3. next # "S_DATA_CONN"
  BY DEF ReplyStates
<1> DEFINE m == ask(k, next, req)
<1>4. /\ Good(g, m) /\ Keeps(k, m) /\ m.state \in {k.state, next}
      /\ m.reqLimitReached => m.state = k.state
  BY <1>1, <1>2, Ask
<1> HIDE DEF m
<1>5. next \notin LoginStates => Open(m)
  BY <1>3, <1>4 DEF Open, Keeps
<1>6. QED
  BY <1>4, <1>5 DEF Keeps, m

-----------------------------------------------------------------------------
\* ctrlSecurity.c

SecCallbacks == {"send_user", "disconnect_pleasant", "post_ending", "post_middle"}

\* AUTH TLS is asked for, and its callback noted.
LEMMA SecCheck ==
  ASSUME NEW g, NEW k, Start(g), Good(g, k), Open(k), k.state \notin Handshakes,
         NEW after \in SecCallbacks,
         after = "post_middle" => k.secProbeStorage # "UNSET"
  PROVE  LET m == sec_check(k, after)
         IN Good(g, m) /\ (m.reqLimitReached => m.state = k.state)
<1> DEFINE n == [k EXCEPT !.postSecConnectCB = after]
<1>1. Shaped(n) /\ n.state = k.state /\ n.postSecConnectCB = after
  BY DEF Shaped, Fields, Good, SecCallbacks
<1>2. Good(g, n)
  <2>1. Sound(n)
    BY DEF Good, Sound, Throttled, Parting, Channelled, LoggingIn, Walking,
         Transferring, Reconnects, Owing, Later, Heading, Ready, Shaped, Fields, SecCallbacks
  <2>2. QED
    BY <1>1, <2>1 DEF Good, Up, Costs, Owing, Listed, Ready, Shaped, Fields
<1>3. Open(n)
  BY DEF Open, Good, Shaped, Fields
<1>4. "AUTH_TLS" \in Commands \ {"LIST"}
      /\ "S_AUTH_TLS_SENT" \in ReplyStates \ {"S_RETR_SENT", "S_LIST_SENT", "S_QUIT_SENT"}
      /\ "S_AUTH_TLS_SENT" \notin DataPhase
  BY DEF Commands, ReplyStates, DataPhase
<1> HIDE DEF n
<1>5. QED
  BY <1>1, <1>2, <1>3, <1>4, OpenAsk DEF sec_check, send_auth_tls, n, SecCallbacks

\* An unhandled callback may leave a host at its limit, but not one that has
\* asked for AUTH TLS: the limit refuses a request before the state changes.
Held(k) == k.reqLimitReached => k.state # "S_AUTH_TLS_SENT"

\* A host is good when a callback begins.
LEMMA StartGood ==
  ASSUME NEW g, Start(g)
  PROVE  Good(g, g)
<1>1. g.numReqSent \in Nat /\ g.numReqSent - g.numReqSent = 0 /\ Len(g.sent) = 0
      /\ DOMAIN g.sent = {}
  BY DEF Start, Shaped
<1>2. g.numReqSent >= g.numReqSent /\ Owing(g) >= Owing(g)
  BY <1>1 DEF Owing, Shaped
<1>3. QED
  BY <1>1, <1>2 DEF Start, Good, Costs, Sound, Throttled, Listed

\* The login begins.
LEMMA SendUser ==
  ASSUME NEW g, NEW k, Start(g), Good(g, k), Open(k),
         k.state \notin Handshakes \cup LoginStates
  PROVE  Good(g, send_user(k))
<1> DEFINE n == multi_resp_init(k)
<1>1. n = [k EXCEPT !.multiRespState = "READ_ZERO"] /\ Shaped(k)
  BY DEF multi_resp_init, Good
<1> HIDE DEF n
<1>2. Shaped(n) /\ Open(n) /\ n.state = k.state
  BY <1>1 DEF Shaped, Fields, Open
<1>3. Sound(n)
  BY <1>1 DEF Good, Sound, Throttled, Parting, Channelled, LoggingIn, Walking,
       Transferring, Reconnects, Owing, Later, Heading, Ready, Shaped, Fields, Open
<1>4. Good(g, n)
  BY <1>1, <1>2, <1>3 DEF Good, Up, Costs, Owing, Listed, Ready, Shaped, Fields
<1>5. /\ "USER" \in Commands \ {"LIST"}
      /\ "S_USER_SENT" \in ReplyStates \ {"S_RETR_SENT", "S_LIST_SENT", "S_QUIT_SENT"}
      /\ "S_USER_SENT" \notin SecPhase \cup DataPhase \cup {"S_SYST_SENT", "S_PWD_SENT"}
  BY DEF Commands, ReplyStates, SecPhase, Handshakes, DataPhase
<1>6. QED
  BY <1>2, <1>4, <1>5, OpenAsk DEF send_user, n

\* The end of a probe.
LEMMA ProbeOver ==
  ASSUME NEW g, NEW k, Start(g), Good(g, k), MayQuit(k), IsProbe(k)
  PROVE  Good(g, send_after_sec(k))
<1>1. k.postSecConnectCB = "post_middle" => k.secProbeStorage # "UNSET"
  BY DEF Good, Sound, Parting
<1>2. "SUCCESS_EXIT" # "UNSET"
  OBVIOUS
<1>3. CASE k.postSecConnectCB = "post_ending"
  BY <1>2, <1>3, Pleasant DEF send_after_sec
<1>4. CASE k.postSecConnectCB = "post_middle"
  BY <1>1, <1>4, Pleasant DEF send_after_sec
<1>5. QED
  BY <1>3, <1>4 DEF IsProbe

\* The crawl is over: the probe for TLS begins.
LEMMA SetupEnding ==
  ASSUME NEW g, NEW k, Start(g), Good(g, k), Open(k), k.state \notin Handshakes
  PROVE  Good(g, setup_ending(k))
<1> DEFINE n == [k EXCEPT !.secProbe = TRUE]
<1>1. Alike(k, n)
  BY DEF Alike, Keeps, Good, Shaped, Fields
<1>2. Good(g, n) /\ Open(n) /\ n.state = k.state
  BY <1>1, AlikeGood DEF Alike
<1> HIDE DEF n
<1>3. QED
  BY <1>2, SecCheck DEF setup_ending, n, SecCallbacks

\* The login has failed: the probe for TLS begins, and the failure is kept.
LEMMA SetupMiddle ==
  ASSUME NEW g, NEW k, Start(g), Good(g, k), Open(k), k.state \notin Handshakes,
         k.terminationCode # "UNSET"
  PROVE  Good(g, setup_middle(k)) /\ Held(setup_middle(k))
<1> DEFINE n == [k EXCEPT !.secProbe = TRUE, !.secProbeStorage = k.terminationCode]
<1>1. CASE k.ctrlUsingSec
  <2>1. setup_middle(k) = disconnect_pleasant(k)
    BY <1>1 DEF setup_middle
  <2>2. QED
    BY <2>1, DisconnectPleasant, OpenMayQuit DEF Held, Handshakes
<1>2. CASE ~k.ctrlUsingSec
  <2>1. /\ Shaped(n) /\ n.state = k.state /\ n.secProbeStorage # "UNSET"
        /\ Good(g, k) => Alike([k EXCEPT !.secProbeStorage = k.terminationCode], n)
    BY DEF Good, Shaped, Fields, Alike, Keeps
  <2>2. Sound(n)
    BY DEF Good, Sound, Throttled, Parting, Channelled, LoggingIn, Walking,
       Transferring, Reconnects, Owing, Later, Heading, Ready, Shaped, Fields
  <2>3. Good(g, n) /\ Open(n)
    BY <2>1, <2>2 DEF Good, Up, Costs, Owing, Listed, Ready, Shaped, Fields, Open
  <2>4. setup_middle(k) = sec_check(n, "post_middle")
    BY <1>2 DEF setup_middle
  <2> HIDE DEF n
  <2>5. QED
    BY <2>1, <2>3, <2>4, SecCheck DEF SecCallbacks, Held, Handshakes
<1>3. QED
  BY <1>1, <1>2 DEF Good, Shaped

\* A handshake begins, or the program uses an SSL object that is gone.
LEMMA InitTls ==
  ASSUME NEW g, NEW k, Start(g), Good(g, k), k.conn = "up",
         k.state \in {"S_AUTH_TLS_SENT", "S_AUTH_SSL_SENT"}
  PROVE  Out(g, init_tls_connection(k))
<1> DEFINE tls(type) == [k EXCEPT !.secType = type, !.ctrlSec = "live",
                           !.ctrlUsingSec = TRUE, !.conn = "tls",
                           !.state = "S_SECURITY_CONNECTING"]
<1>1. ASSUME NEW type \in {"SEC_PRIMARY", "SEC_SECONDARY"},
             type = "SEC_PRIMARY" => k.secType = "SEC_UNK"
      PROVE  Good(g, tls(type))
  <2> DEFINE n == tls(type)
  <2>1. Shaped(n)
    BY DEF Good, Shaped, Fields, States
  <2>2. Sound(n)
    <3>1. Throttled(n) /\ Parting(n)
      BY DEF Good, Sound, Throttled, Parting, Owing, Later, Heading, Shaped, Fields
    <3>2. Channelled(n)
      BY <1>1 DEF Good, Sound, Channelled, Reconnects, Later, Heading, Shaped, Fields,
                  SecPhase, Handshakes
    <3>3. LoggingIn(n) /\ Transferring(n)
      BY DEF Good, Sound, LoggingIn, Transferring, Later, Shaped, Fields, LoginStates
    <3>4. Walking(n)
      BY DEF Good, Sound, Walking, Later, Heading, Ready, Shaped, Fields, DataPhase
    <3>5. QED
      BY <3>1, <3>2, <3>3, <3>4 DEF Sound
  <2>3. QED
    BY <2>1, <2>2 DEF Good, Up, Costs, Owing, Listed, Ready, Shaped, Fields
<1>2. k.secType = "SEC_SECONDARY" /\ k.ctrlSec # "live" => Broken(g, crash(k, "stale_ssl"))
  <2>1. k.secType = "SEC_SECONDARY" /\ k.ctrlSec # "live" => k.earlySecReq
    BY DEF Good, Sound, Channelled
  <2>2. QED
    BY <2>1, Crash DEF Broken, Faults
<1>3. k.secType \in {"SEC_UNK", "SEC_PRIMARY", "SEC_SECONDARY"}
  BY DEF Good, Shaped
<1>4. k.secType = "SEC_UNK" => init_tls_connection(k) = tls("SEC_PRIMARY")
  BY DEF init_tls_connection
<1>5. k.secType = "SEC_PRIMARY" => init_tls_connection(k) = tls("SEC_SECONDARY")
  BY DEF init_tls_connection
<1>6. k.secType = "SEC_SECONDARY" =>
        init_tls_connection(k) = IF k.ctrlSec = "live" THEN tls("SEC_SECONDARY")
                                 ELSE crash(k, "stale_ssl")
  BY DEF init_tls_connection
<1> HIDE DEF tls
<1>7. QED
  BY <1>1, <1>2, <1>3, <1>4, <1>5, <1>6 DEF Out

\* The second connection is made once, with nothing of the first one's.
LEMMA EarlySecReq ==
  ASSUME NEW g, NEW k, Start(g), Good(g, k),
         k.state \in LoginStates \cup Handshakes,
         k.numReqSent = g.numReqSent, k.reqLimitReached = g.reqLimitReached
  PROVE  /\ Anew(g, handle_early_sec_req(k)) \/ Over(g, handle_early_sec_req(k))
         /\ Anew(g, handle_early_sec_req(k)) => handle_early_sec_req(k).state = "S_INITIAL"
<1> DEFINE m == handle_early_sec_req(k)
<1>1. CASE k.earlySecReq
  <2>1. Over(g, m)
    BY <1>1, Abrupt DEF handle_early_sec_req
  <2>2. QED
    BY <2>1 DEF Over, Gone, Anew, Up
<1>2. CASE ~k.earlySecReq
  <2> DEFINE sec == IF k.ctrlUsingSec THEN "freed" ELSE k.ctrlSec
             n == [k EXCEPT !.savedReqTimer = FALSE, !.retrWaitTimer = FALSE,
                            !.multiRespTimer = FALSE, !.resetWaitTimer = FALSE,
                            !.earlySecReq = TRUE, !.ctrlSec = sec, !.state = "S_INITIAL",
                            !.ctrlUsingSec = FALSE, !.conn = "connecting",
                            !.connects = @ + 1]
  <2>1. m = [n EXCEPT !.item = "none"]
    BY <1>2 DEF handle_early_sec_req, delete_all_timers, ctrl_reconnect, Good, Shaped, Fields
  <2>2. Shaped(k)
    BY DEF Good
  <2> HIDE DEF m, sec
  <2>3. Shaped(n)
    <3> DEFINE l == k.connects + 1
    <3>1. n = [k EXCEPT !.savedReqTimer = FALSE, !.retrWaitTimer = FALSE,
                        !.multiRespTimer = FALSE, !.resetWaitTimer = FALSE,
                        !.earlySecReq = TRUE, !.ctrlSec = sec, !.state = "S_INITIAL",
                        !.ctrlUsingSec = FALSE, !.conn = "connecting", !.connects = l]
      BY <2>2 DEF Shaped, Fields
    <3>2. l \in Nat
      BY <2>2 DEF Shaped
    <3> HIDE DEF l, n
    <3>3. /\ DOMAIN n = DOMAIN k /\ n.connects = l
          /\ n.state = "S_INITIAL" /\ n.conn = "connecting"
          /\ {n.savedReqTimer, n.retrWaitTimer, n.multiRespTimer, n.resetWaitTimer,
              n.earlySecReq, n.ctrlUsingSec} \subseteq BOOLEAN
      BY <2>2, <3>1 DEF Shaped, Fields
    <3>4. /\ n.sent = k.sent /\ n.numReqSent = k.numReqSent /\ n.savedReq = k.savedReq
          /\ n.savedNextState = k.savedNextState /\ n.hostIsFinished = k.hostIsFinished
          /\ n.freed = k.freed /\ n.reqLimitReached = k.reqLimitReached
          /\ n.dataBev = k.dataBev /\ n.dataUsingSec = k.dataUsingSec
          /\ n.robotObj = k.robotObj /\ n.secType = k.secType
          /\ n.postSecConnectCB = k.postSecConnectCB /\ n.delayedCtrlCB = k.delayedCtrlCB
          /\ n.multiRespState = k.multiRespState /\ n.pasvAction = k.pasvAction
      BY <2>2, <3>1 DEF Shaped, Fields
    <3>5. QED
      BY <2>2, <3>2, <3>3, <3>4 DEF Shaped, States
  <2>6. Alike(n, m)
    <3> HIDE DEF n
    <3>1. QED
      BY <2>1, <2>3 DEF Alike, Keeps, Shaped, Fields
  <2>61. /\ n.numReqSent = k.numReqSent /\ ~n.savedReqTimer /\ Owing(k) <= maxReqPerIp
        /\ k.numReqSent \in Nat
    BY <2>2 DEF Good, Sound, Throttled, Shaped, Fields
  <2>62. Owing(n) = k.numReqSent /\ Owing(n) <= maxReqPerIp
    <3> HIDE DEF n
    <3>1. QED
      BY <2>61, MaxNat DEF Owing
  <2>7. Sound(n)
    <3>0. Throttled(n)
      BY <2>2, <2>62 DEF Good, Sound, Throttled, Shaped, Fields
    <3>1. Parting(n)
      BY <2>2 DEF Good, Sound, Parting, Later, Heading, Shaped, Fields
    <3>2. Channelled(n)
      BY <1>2, <2>2 DEF Good, Sound, Channelled, Reconnects, Later, Heading, Shaped, Fields,
                  SecPhase, Handshakes
    <3>3. LoggingIn(n) /\ Transferring(n)
      BY <2>2 DEF Good, Sound, LoggingIn, Transferring, Later, Shaped, Fields, LoginStates, Handshakes
    <3>4. Walking(n)
      BY <2>2 DEF Good, Sound, Walking, Later, Heading, Ready, Shaped, Fields, DataPhase
    <3>5. QED
      BY <3>0, <3>1, <3>2, <3>3, <3>4 DEF Sound
  <2>8. /\ Up(n) /\ n.conn = "connecting" /\ n.connects = k.connects + 1
        /\ n.state = "S_INITIAL"
        /\ n.numReqSent = k.numReqSent /\ ~n.savedReqTimer
        /\ n.reqLimitReached = k.reqLimitReached /\ n.delayedCtrlCB = k.delayedCtrlCB
    BY <2>2 DEF Good, Shaped, Fields, Up
  <2>9. Costs(g, n)
    BY <2>2, <2>62 DEF Good, Costs, Listed, Ready, Shaped, Fields
  <2> HIDE DEF n
  <2>10. Shaped(m) /\ Sound(m) /\ Up(m) /\ Costs(g, m)
    <3>1. Shaped(m)
      BY <2>3, <2>6 DEF Shaped, Alike, Keeps
    <3>2. Sound(m)
      BY <2>6, <2>7 DEF Sound, Throttled, Parting, Channelled, LoggingIn, Walking,
         Transferring, Reconnects, Owing, Later, Heading, Ready, Keeps, Alike
    <3>3. QED
      BY <2>6, <2>8, <2>9, <3>1, <3>2 DEF Up, Costs, Owing, Listed, Ready, Alike, Keeps
  <2>11. Anew(g, m) /\ m.state = "S_INITIAL"
    BY <2>6, <2>8, <2>10 DEF Good, Anew, Alike, Keeps
  <2>12. QED
    BY <2>11 DEF m
<1>3. QED
  BY <1>1, <1>2

\* A refused method ends the probe, or the session.
LEMMA SecRefused ==
  ASSUME NEW g, NEW k, Start(g), Good(g, k), MayQuit(k), NEW code, code # "UNSET"
  PROVE  Good(g, sec_refused(k, code))
<1>1. CASE k.postSecConnectCB = "disconnect_pleasant"
  <2>1. sec_refused(k, code) = pleasant(k, "SUCCESS_EXIT") /\ "SUCCESS_EXIT" # "UNSET"
    BY <1>1 DEF sec_refused, IsProbe
  <2>2. QED
    BY <2>1, Pleasant
<1>2. CASE IsProbe(k)
  <2>1. sec_refused(k, code) = send_after_sec(k)
    BY <1>2 DEF sec_refused, IsProbe
  <2>2. QED
    BY <1>2, <2>1, ProbeOver
<1>3. CASE k.postSecConnectCB # "disconnect_pleasant" /\ ~IsProbe(k)
  <2>1. sec_refused(k, code) = pleasant(k, code)
    BY <1>3 DEF sec_refused, unexpected_reply
  <2>2. QED
    BY <2>1, Pleasant
<1>4. QED
  BY <1>1, <1>2, <1>3

\* The states in which no callback of a login or of a transfer is under way.
Plain == States \ (LoginStates \cup
           {"S_RESET_WAIT", "S_DATA_CONN", "S_RETR_SENT", "S_RETR_XFER",
            "S_LIST_SENT", "S_LIST_XFER", "S_QUIT_SENT"})

\* In a plain state nothing is under way but perhaps a delayed request.
LEMMA PlainOpen ==
  ASSUME NEW g, NEW k, Good(g, k), k.conn = "up", k.state \in Plain
  PROVE  Open(k) /\ MayQuit(k)
BY OpenState DEF Plain, Good

\* The reply to AUTH TLS: only here can a handler begin a new connection.
LEMMA ReadAuthTls ==
  ASSUME NEW g, Start(g), g.conn = "up", g.state = "S_AUTH_TLS_SENT", NEW r, Reply(r)
  PROVE  Out(g, read_auth_tls_resp(g, r)) \/ Anew(g, read_auth_tls_resp(g, r))
<1>1. Good(g, g) /\ Open(g) /\ MayQuit(g)
  BY StartGood, PlainOpen DEF Plain, States, ReplyStates, LoginStates
<1>2. Out(g, init_tls_connection(g))
  BY <1>1, InitTls
<1>3. Good(g, send_auth_ssl(g))
  <2>1. "AUTH_SSL" \in Commands /\ "S_AUTH_SSL_SENT" \in ReplyStates /\ "AUTH_SSL" # "LIST"
        /\ "S_AUTH_SSL_SENT" \notin DataPhase
    BY DEF Commands, ReplyStates, DataPhase
  <2>2. May(g, "S_AUTH_SSL_SENT")
    BY <1>1, <2>1 DEF May, Open, Start, Sound, Channelled, Heading, SecPhase, Handshakes, LoginStates
  <2>3. QED
    BY <1>1, <2>1, <2>2, Ask DEF send_auth_ssl
<1>4. Out(g, handle_early_sec_req(g)) \/ Anew(g, handle_early_sec_req(g))
  BY <1>1, EarlySecReq DEF Out, Handshakes
<1>5. Out(g, crash(g, "assert_secProbe"))
  BY <1>1, Crash DEF Out, Broken, Faults
<1>6. Out(g, sec_refused(g, "FAIL_TLS_REFUSED"))
  BY <1>1, SecRefused DEF Out
<1> DEFINE found == CASE r.kind = "ok" -> init_tls_connection(g)
      [] r.kind = "534" -> send_auth_ssl(g)
      [] r.kind = "503" -> IF g.secProbe THEN handle_early_sec_req(g)
                           ELSE crash(g, "assert_secProbe")
      [] OTHER -> sec_refused(g, "FAIL_TLS_REFUSED")
<1>7. Out(g, found) \/ Anew(g, found)
  <2>1. CASE r.kind = "ok"
    BY <1>2, <2>1
  <2>2. CASE r.kind = "534"
    BY <1>3, <2>2 DEF Out
  <2>3. CASE r.kind = "503"
    BY <1>4, <1>5, <2>3
  <2>4. CASE r.kind \notin {"ok", "534", "503"}
    BY <1>6, <2>4
  <2>5. QED
    BY <2>1, <2>2, <2>3, <2>4
<1> HIDE DEF found
<1>8. r.size = "FOUND" => single(g, r, found) = found
  BY SingleFound DEF Start
<1>9. r.size # "FOUND" => Out(g, single(g, r, found))
  BY <1>1, Single
<1>10. QED
  BY <1>7, <1>8, <1>9 DEF read_auth_tls_resp, found

\* The reply to AUTH SSL.
LEMMA ReadAuthSsl ==
  ASSUME NEW g, Start(g), g.conn = "up", g.state = "S_AUTH_SSL_SENT", NEW r, Reply(r)
  PROVE  Out(g, read_auth_ssl_resp(g, r))
<1>1. Good(g, g) /\ Open(g) /\ MayQuit(g)
  BY StartGood, PlainOpen DEF Plain, States, ReplyStates, LoginStates
<1>2. Out(g, init_tls_connection(g))
  BY <1>1, InitTls
<1>3. Out(g, sec_refused(g, "FAIL_SSL_REFUSED"))
  BY <1>1, SecRefused DEF Out
<1>4. QED
  BY <1>1, <1>2, <1>3, Single DEF read_auth_ssl_resp

\* The reply to PBSZ.
LEMMA ReadPbsz ==
  ASSUME NEW g, Start(g), g.conn = "up", g.state = "S_PBSZ_INIT_SENT", NEW r, Reply(r)
  PROVE  Out(g, read_pbsz_resp(g, r))
<1>1. Good(g, g) /\ Open(g) /\ MayQuit(g)
  BY StartGood, PlainOpen DEF Plain, States, ReplyStates, LoginStates
<1>2. Out(g, send_prot(g))
  <2>1. "PROT" \in Commands \ {"LIST"}
        /\ "S_PROT_SENT" \in ReplyStates \ {"S_RETR_SENT", "S_LIST_SENT", "S_QUIT_SENT"}
        /\ "S_PROT_SENT" \notin DataPhase \cup {"S_SYST_SENT", "S_PWD_SENT"}
    BY DEF Commands, ReplyStates, DataPhase
  <2>2. g.postSecConnectCB # "none" /\ g.state \notin Handshakes
    BY DEF Start, Sound, Channelled, Heading, SecPhase, Handshakes
  <2>3. QED
    BY <1>1, <2>1, <2>2, OpenAsk DEF send_prot, Out
<1>3. g.postSecConnectCB = "post_ending" => Out(g, send_after_sec(g))
  BY <1>1, ProbeOver DEF Out, IsProbe
<1>4. Out(g, unexpected_reply(g, "FAIL_PBSZ_OK"))
  BY <1>1, Pleasant DEF Out, unexpected_reply
<1> DEFINE found == CASE r.kind = "ok" -> send_prot(g)
      [] r.kind = "no" /\ g.postSecConnectCB = "post_ending" -> send_after_sec(g)
      [] OTHER -> unexpected_reply(g, "FAIL_PBSZ_OK")
<1>5. Out(g, found)
  BY <1>2, <1>3, <1>4
<1> HIDE DEF found
<1>6. QED
  BY <1>1, <1>5, Single DEF read_pbsz_resp, found

\* The reply to PROT.
LEMMA ReadProt ==
  ASSUME NEW g, Start(g), g.conn = "up", g.state = "S_PROT_SENT", NEW r, Reply(r)
  PROVE  Out(g, read_prot_resp(g, r))
<1>1. Good(g, g) /\ Open(g) /\ MayQuit(g) /\ g.state \notin Handshakes \cup LoginStates
  BY StartGood, PlainOpen DEF Plain, States, ReplyStates, LoginStates, Handshakes
<1>2. Out(g, pleasant(g, "SUCCESS_EXIT")) /\ Out(g, unexpected_reply(g, "FAIL_PROT_OK"))
  BY <1>1, Pleasant DEF Out, unexpected_reply
<1>3. IsProbe(g) => Out(g, send_after_sec(g))
  BY <1>1, ProbeOver DEF Out
<1>4. g.postSecConnectCB = "send_user" => Out(g, send_after_sec(g))
  BY <1>1, SendUser DEF Out, send_after_sec
<1>5. g.postSecConnectCB \in {"send_user", "disconnect_pleasant", "post_ending", "post_middle"}
  BY DEF Start, Shaped, Sound, Channelled, Heading, SecPhase
<1> DEFINE found == CASE r.kind = "ok" ->
           IF g.postSecConnectCB = "disconnect_pleasant"
           THEN pleasant(g, "SUCCESS_EXIT") ELSE send_after_sec(g)
      [] r.kind = "no" /\ IsProbe(g) -> send_after_sec(g)
      [] OTHER -> unexpected_reply(g, "FAIL_PROT_OK")
<1>6. r.kind = "ok" => Out(g, found)
  BY <1>2, <1>3, <1>4, <1>5 DEF IsProbe
<1>7. r.kind # "ok" => Out(g, found)
  BY <1>2, <1>3
<1> HIDE DEF found
<1>8. QED
  BY <1>1, <1>6, <1>7, Single DEF read_prot_resp, found

-----------------------------------------------------------------------------
\* The banner.

\* A second reply behind the banner.
LEMMA AdditionalBanner ==
  ASSUME NEW g, NEW k, Start(g), Good(g, k), k.conn = "up", k.state = "S_CONNECTED",
         NEW r, Reply(r)
  PROVE  Out(g, read_additional_banner_resp(k, r))
<1>1. Open(k) /\ MayQuit(k) /\ k.state \notin Handshakes \cup LoginStates
  BY PlainOpen DEF Plain, States, ReplyStates, LoginStates, Handshakes
<1>2. Out(g, sec_check(k, "send_user"))
  BY <1>1, SecCheck DEF Out, SecCallbacks
<1>3. Out(g, sec_check(k, after_early_sec(k)))
  <2>1. after_early_sec(k) \in {"disconnect_pleasant", "send_user"}
    BY DEF after_early_sec
  <2>2. QED
    BY <1>1, <2>1, SecCheck DEF Out, SecCallbacks
<1>4. Out(g, send_user(k))
  BY <1>1, SendUser DEF Out
<1> DEFINE found == CASE r.kind = "early_sec" -> sec_check(k, "send_user")
      [] r.kind # "early_sec" /\ k.earlySecReq -> sec_check(k, after_early_sec(k))
      [] OTHER -> send_user(k)
<1>5. Out(g, found)
  BY <1>2, <1>3, <1>4
<1> HIDE DEF found
<1>6. QED
  BY <1>1, <1>5, Single DEF read_additional_banner_resp, found

\* The banner, and what came with it.
LEMMA ReadBanner ==
  ASSUME NEW g, NEW k, Start(g), Good(g, k), k.conn = "up", k.state = "S_CONNECTED",
         NEW r, Reply(r), NEW more, Reply(more)
  PROVE  Out(g, read_banner(k, r, more))
<1>1. Open(k) /\ MayQuit(k) /\ k.state \notin Handshakes \cup LoginStates
  BY PlainOpen DEF Plain, States, ReplyStates, LoginStates, Handshakes
<1>2. Out(g, setup_middle(fail(k, "FAIL_CFAA_BAN")))
  <2>1. /\ Good(g, fail(k, "FAIL_CFAA_BAN")) /\ Keeps(k, fail(k, "FAIL_CFAA_BAN"))
        /\ fail(k, "FAIL_CFAA_BAN").state = k.state
        /\ fail(k, "FAIL_CFAA_BAN").terminationCode # "UNSET"
    BY Fail
  <2>2. Open(fail(k, "FAIL_CFAA_BAN"))
    BY <1>1, <2>1 DEF Open, Keeps
  <2>3. QED
    BY <1>1, <2>1, <2>2, SetupMiddle DEF Out
<1>3. Out(g, read_additional_banner_resp(k, more))
  BY AdditionalBanner
<1>4. Out(g, sec_check(k, after_early_sec(k)))
  <2>1. after_early_sec(k) \in {"disconnect_pleasant", "send_user"}
    BY DEF after_early_sec
  <2>2. QED
    BY <1>1, <2>1, SecCheck DEF Out, SecCallbacks
<1>5. Out(g, send_user(k))
  BY <1>1, SendUser DEF Out
<1>6. Out(g, abrupt(k, r.kind))
  BY Abrupt DEF Reply, Out
<1>7. Out(g, unexpected_reply(k, "FAIL_BANNER_RET"))
  BY <1>1, Pleasant DEF Out, unexpected_reply
<1> DEFINE bad == {"FAIL_VPS_NO_HOST", "FAIL_VSFTPD_BANNER_ERROR", "FAIL_SESSION_LIMIT"}
           found ==
    CASE r.kind = "cfaa" -> setup_middle(fail(k, "FAIL_CFAA_BAN"))
      [] r.kind = "ok" /\ r.size = "EXTRA" -> read_additional_banner_resp(k, more)
      [] r.kind = "ok" /\ r.size = "FOUND" ->
           IF k.earlySecReq \/ k.secProbe
           THEN sec_check(k, after_early_sec(k)) ELSE send_user(k)
      [] r.kind \in {"FAIL_VPS_NO_HOST", "FAIL_VSFTPD_BANNER_ERROR",
                     "FAIL_SESSION_LIMIT"} -> abrupt(k, r.kind)
      [] OTHER -> unexpected_reply(k, "FAIL_BANNER_RET")
<1>8. ASSUME r.size \in {"FOUND", "EXTRA"} PROVE Out(g, found)
  <2>1. CASE r.kind = "cfaa"
    BY <1>2, <2>1
  <2>2. CASE r.kind = "ok" /\ r.size = "EXTRA"
    BY <1>3, <2>2
  <2>3. CASE r.kind = "ok" /\ r.size = "FOUND"
    BY <1>4, <1>5, <2>3
  <2>4. CASE r.kind \in bad
    BY <1>6, <2>4
  <2>5. CASE r.kind \notin bad \cup {"cfaa", "ok"}
    BY <1>7, <2>5
  <2>6. QED
    BY <1>8, <2>1, <2>2, <2>3, <2>4, <2>5
<1> HIDE DEF found
<1>9. QED
  BY <1>8, ParseResponse DEF read_banner, parse_first, found

-----------------------------------------------------------------------------
\* The walk over the directories.

\* HELP is asked for, after the walk.
LEMMA SendHelp ==
  ASSUME NEW g, NEW k, Start(g), Good(g, k), Open(k), k.state \notin Handshakes
  PROVE  Good(g, send_help(k)) /\ Held(send_help(k))
<1>1. "HELP" \in Commands \ {"LIST"}
      /\ "S_HELP_SENT" \in ReplyStates \ {"S_RETR_SENT", "S_LIST_SENT", "S_QUIT_SENT"}
      /\ "S_HELP_SENT" \notin SecPhase \cup DataPhase
  BY DEF Commands, ReplyStates, DataPhase, SecPhase, Handshakes
<1>2. QED
  BY <1>1, OpenAsk DEF send_help, Held, Handshakes

\* PASV is asked for, once it is known what for.
LEMMA SendPasv ==
  ASSUME NEW g, NEW k, Start(g), Good(g, k), Open(k), k.state \notin Handshakes,
         k.pasvAction # "none"
  PROVE  Good(g, send_pasv(k)) /\ Held(send_pasv(k))
<1>1. "PASV" \in Commands \ {"LIST"}
      /\ "S_PASV_SENT" \in ReplyStates \ {"S_RETR_SENT", "S_LIST_SENT", "S_QUIT_SENT"}
      /\ "S_PASV_SENT" \notin SecPhase
  BY DEF Commands, ReplyStates, SecPhase, Handshakes
<1>2. QED
  BY <1>1, OpenAsk DEF send_pasv, Held, Handshakes

\* SYST is asked for, once robots.txt is known.
LEMMA SendSyst ==
  ASSUME NEW g, NEW k, Start(g), Good(g, k), Open(k), k.state \notin Handshakes,
         k.pasvAction # "none", Ready(k)
  PROVE  Good(g, send_syst(k)) /\ Held(send_syst(k))
<1>1. "SYST" \in Commands \ {"LIST"}
      /\ "S_SYST_SENT" \in ReplyStates \ {"S_RETR_SENT", "S_LIST_SENT", "S_QUIT_SENT"}
      /\ "S_SYST_SENT" \notin SecPhase
  BY DEF Commands, ReplyStates, SecPhase, Handshakes
<1>2. QED
  BY <1>1, OpenAsk DEF send_syst, Held, Handshakes

\* QUIT at the limit leaves no host that waits for AUTH TLS.
LEMMA HeldPleasant ==
  ASSUME NEW g, NEW k, Start(g), Good(g, k), Open(k), k.state \notin Handshakes,
         NEW code, code # "UNSET"
  PROVE  Good(g, pleasant(k, code)) /\ Held(pleasant(k, code))
BY Pleasant, OpenMayQuit DEF Held, Handshakes

\* The crawl begins with PASV for robots.txt.
LEMMA FetchRobots ==
  ASSUME NEW g, NEW k, Start(g), Good(g, k), Open(k), crawlType # "SUPER_SHORT",
         k.state \in LoginStates \cup {"S_QUIT_SENT"}
  PROVE  Good(g, fetch_robots_txt(k)) /\ Held(fetch_robots_txt(k))
<1> DEFINE post == IF crawlType = "NORMAL" THEN "send_syst" ELSE "short_scan_ending"
           n == [k EXCEPT !.pasvAction = "send_retr", !.pasvPost = post]
           m == [k EXCEPT !.item = IF @ = "none" THEN "robots" ELSE "other",
                          !.xferType = "XFER_FILE", !.pasvAction = "send_retr",
                          !.pasvPost = post]
<1>1. Shaped(n) /\ Alike(n, m) /\ n.state = k.state /\ n.pasvAction = "send_retr"
  BY DEF Good, Shaped, Fields, Alike, Keeps
<1>2. Sound(n)
  <2>1. Throttled(n) /\ Parting(n) /\ Channelled(n)
    BY DEF Good, Sound, Throttled, Parting, Channelled, Reconnects, Owing, Later, Heading,
           Shaped, Fields
  <2>2. LoggingIn(n) /\ Transferring(n)
    BY DEF Good, Sound, LoggingIn, Transferring, Later, Shaped, Fields
  <2>3. Later(k) \notin {"S_RETR_XFER", "S_LIST_XFER"}
    BY DEF Good, Shaped, Later, ReplyStates
  <2>4. Walking(n)
    BY <2>3 DEF Good, Sound, Walking, Transferring, Open, Later, Heading, Ready, Shaped,
           Fields, LoginStates, DataPhase
  <2>5. QED
    BY <2>1, <2>2, <2>4 DEF Sound
<1>3. Good(g, n) /\ Open(n)
  BY <1>1, <1>2 DEF Good, Up, Costs, Owing, Listed, Ready, Shaped, Fields, Open
<1> HIDE DEF n, m
<1>4. Good(g, m) /\ Open(m) /\ m.state = k.state /\ m.pasvAction # "none"
  BY <1>1, <1>3, AlikeGood DEF Alike, Keeps
<1>5. fetch_robots_txt(k) = send_pasv(m)
  BY DEF fetch_robots_txt, m
<1>6. QED
  BY <1>4, <1>5, SendPasv DEF LoginStates, Handshakes

\* The walk is over.
LEMMA WalkEnds ==
  ASSUME NEW g, NEW k, Start(g), Good(g, k), Open(k), k.state \notin Handshakes
  PROVE  Good(g, end_walk(k)) /\ Held(end_walk(k))
<1> DEFINE n == [k EXCEPT !.dirQueue = 0, !.item = "none", !.listResp = 0]
<1>1. Alike(k, n)
  BY DEF Alike, Keeps, Good, Shaped, Fields
<1> HIDE DEF n
<1>2. Good(g, n) /\ Open(n) /\ n.state = k.state
  BY <1>1, AlikeGood DEF Alike
<1>3. QED
  BY <1>2, SendHelp, HeldPleasant DEF end_walk, n

\* The walk goes on with the next directory, or ends.
LEMMA WalkDir ==
  ASSUME NEW g, NEW k, Start(g), Good(g, k), Open(k), k.state \notin Handshakes,
         k.pasvAction # "none", NEW skip
  PROVE  Good(g, walk_dir(k, skip)) /\ Held(walk_dir(k, skip))
<1> DEFINE n == [k EXCEPT !.dirQueue = 0, !.item = "none", !.listResp = 0]
           d == [k EXCEPT !.dirQueue = @ - skip - 1, !.item = "dir", !.listResp = 0]
<1>1. Alike(k, n) /\ Alike(k, d)
  BY DEF Alike, Keeps, Good, Shaped, Fields
<1>2. walk_dir(k, skip) \in {send_help(n), send_pasv(d), end_walk(k)}
  BY DEF walk_dir
<1> HIDE DEF n, d
<1>3. Good(g, n) /\ Open(n) /\ n.state = k.state
  BY <1>1, AlikeGood DEF Alike
<1>4. Good(g, d) /\ Open(d) /\ d.state = k.state /\ d.pasvAction = k.pasvAction
  BY <1>1, AlikeGood DEF Alike, Keeps
<1>5. QED
  BY <1>2, <1>3, <1>4, SendHelp, SendPasv, WalkEnds

\* A SHORT crawl goes on only where there is no robots.txt.
LEMMA ShortScanEnding ==
  ASSUME NEW g, NEW k, Start(g), Good(g, k), Open(k), k.state \notin Handshakes,
         k.pasvAction # "none", crawlType # "NORMAL"
  PROVE  Good(g, short_scan_ending(k)) /\ Held(short_scan_ending(k))
<1>1. k.robotPresence = "ROBOTS_NO" => Ready(k)
  BY DEF Ready
<1>2. QED
  BY <1>1, SendSyst, HeldPleasant DEF short_scan_ending

\* What follows a transfer.
LEMMA PasvPost ==
  ASSUME NEW g, NEW k, Start(g), Good(g, k), Open(k), k.state \notin Handshakes,
         k.pasvAction # "none", NEW skip,
         crawlType = "NORMAL" => k.robotObj,
         crawlType = "SHORT" => k.pasvAction = "send_retr"
  PROVE  Good(g, pasvPost(k, skip)) /\ Held(pasvPost(k, skip))
<1>1. Walking(k) /\ k.pasvAction \in {"send_retr", "send_list"}
  BY DEF Good, Sound, Shaped
<1>2. crawlType \in {"SHORT", "NORMAL"}
  BY <1>1, HostStateAssumption DEF HostStateAssumption, Walking
<1>3. CASE k.pasvAction = "send_retr" /\ crawlType = "NORMAL"
  <2>1. pasvPost(k, skip) = send_syst(k)
    BY <1>1, <1>3 DEF Walking, pasvPost
  <2>2. Ready(k)
    BY <1>3 DEF Ready
  <2>3. QED
    BY <2>1, <2>2, SendSyst
<1>4. CASE k.pasvAction = "send_retr" /\ crawlType = "SHORT"
  <2>1. pasvPost(k, skip) = short_scan_ending(k)
    BY <1>1, <1>4 DEF Walking, pasvPost
  <2>2. QED
    BY <1>4, <2>1, ShortScanEnding
<1>5. CASE k.pasvAction = "send_list" /\ crawlType = "NORMAL"
  <2>1. pasvPost(k, skip) = walk_dir(k, skip)
    BY <1>1, <1>5 DEF Walking, pasvPost
  <2>2. QED
    BY <2>1, WalkDir
<1>6. QED
  BY <1>1, <1>2, <1>3, <1>4, <1>5

\* "/", or the first directory, may be listed now.
LEMMA ToList ==
  ASSUME NEW g, NEW k, Start(g), Good(g, k), Open(k), Ready(k), k.pasvAction # "none",
         k.state \in {"S_SYST_SENT", "S_PWD_SENT"}, NEW post,
         post = IF crawlType = "SHORT" THEN "disconnect_pleasant" ELSE "walk_dir"
  PROVE  LET n == [k EXCEPT !.pasvAction = "send_list", !.pasvPost = post]
         IN Good(g, n) /\ Open(n) /\ n.state = k.state /\ n.pasvAction = "send_list"
<1> DEFINE n == [k EXCEPT !.pasvAction = "send_list", !.pasvPost = post]
<1>1. Shaped(n) /\ n.state = k.state /\ n.pasvAction = "send_list"
  BY DEF Good, Shaped, Fields
<1>2. Sound(n)
  <2>1. Throttled(n) /\ Parting(n) /\ Channelled(n)
    BY DEF Good, Sound, Throttled, Parting, Channelled, Reconnects, Owing, Later, Heading,
           Shaped, Fields
  <2>2. LoggingIn(n) /\ Transferring(n)
    BY DEF Good, Sound, LoggingIn, Transferring, Later, Shaped, Fields
  <2>3. Later(k) \notin {"S_RETR_XFER", "S_LIST_XFER", "S_RETR_SENT", "S_LIST_SENT"}
    BY DEF Good, Sound, Walking, Shaped, Later, ReplyStates
  <2>4. Walking(n)
    BY <2>3 DEF Good, Sound, Walking, Transferring, Open, Later, Heading, Ready, Shaped,
           Fields, DataPhase
  <2>5. QED
    BY <2>1, <2>2, <2>4 DEF Sound
<1>3. QED
  BY <1>1, <1>2 DEF Good, Up, Costs, Owing, Listed, Ready, Shaped, Fields, Open

\* The reply to SYST.
LEMMA ReadSyst ==
  ASSUME NEW g, Start(g), g.conn = "up", g.state = "S_SYST_SENT", NEW r, Reply(r)
  PROVE  Out(g, read_syst_resp(g, r))
<1>1. Good(g, g) /\ Open(g) /\ MayQuit(g) /\ g.state \notin Handshakes
  BY StartGood, PlainOpen DEF Plain, States, ReplyStates, LoginStates, Handshakes
<1>2. g.pasvAction # "none" /\ Ready(g)
  BY DEF Start, Sound, Walking, Heading, DataPhase
<1> DEFINE n == [g EXCEPT !.pasvAction = "send_list", !.pasvPost = "disconnect_pleasant"]
           m == [g EXCEPT !.item = "root", !.pasvAction = "send_list",
                          !.pasvPost = "disconnect_pleasant"]
<1>3. crawlType = "SHORT" => Out(g, send_pasv(m))
  <2> SUFFICES ASSUME crawlType = "SHORT" PROVE Out(g, send_pasv(m))
    OBVIOUS
  <2>1. Good(g, n) /\ Open(n) /\ n.state = g.state /\ n.pasvAction = "send_list"
    BY <1>1, <1>2, ToList
  <2>2. Alike(n, m)
    BY <1>1 DEF Good, Shaped, Fields, Alike, Keeps
  <2> HIDE DEF n, m
  <2>3. Good(g, m) /\ Open(m) /\ m.state = g.state /\ m.pasvAction = "send_list"
    BY <2>1, <2>2, AlikeGood DEF Alike, Keeps
  <2>4. QED
    BY <1>1, <2>3, SendPasv DEF Out
<1>4. crawlType # "SHORT" => Out(g, send_pwd(g))
  <2>1. "PWD" \in Commands \ {"LIST"}
        /\ "S_PWD_SENT" \in ReplyStates \ {"S_RETR_SENT", "S_LIST_SENT", "S_QUIT_SENT"}
        /\ "S_PWD_SENT" \notin SecPhase
    BY DEF Commands, ReplyStates, SecPhase, Handshakes
  <2>2. QED
    BY <1>1, <1>2, <2>1, OpenAsk DEF send_pwd, Out
<1> HIDE DEF m
<1>5. QED
  BY <1>1, <1>3, <1>4, Single DEF read_syst_resp, m

\* The reply to PWD.
LEMMA ReadPwd ==
  ASSUME NEW g, Start(g), g.conn = "up", g.state = "S_PWD_SENT", NEW r, Reply(r),
         NEW skip
  PROVE  Out(g, read_pwd_resp(g, r, skip))
<1>1. Good(g, g) /\ Open(g) /\ MayQuit(g) /\ g.state \notin Handshakes
  BY StartGood, PlainOpen DEF Plain, States, ReplyStates, LoginStates, Handshakes
<1>2. g.pasvAction # "none" /\ Ready(g) /\ crawlType # "SHORT"
  BY DEF Start, Sound, Walking, Heading, DataPhase
<1> DEFINE n == [g EXCEPT !.pasvAction = "send_list", !.pasvPost = "walk_dir"]
           q == [g EXCEPT !.dirQueue = @ + 1]
           m == [q EXCEPT !.pasvAction = "send_list", !.pasvPost = "walk_dir"]
<1>3. Good(g, n) /\ Open(n) /\ n.state = g.state /\ n.pasvAction = "send_list"
  BY <1>1, <1>2, ToList
<1>4. Alike(n, m)
  BY <1>1 DEF Good, Shaped, Fields, Alike, Keeps
<1>5. walk_dir_init(q, skip) = walk_dir(m, skip)
  BY DEF walk_dir_init
<1> HIDE DEF n, m
<1>6. Good(g, m) /\ Open(m) /\ m.state = g.state /\ m.pasvAction = "send_list"
  BY <1>3, <1>4, AlikeGood DEF Alike, Keeps
<1>7. Out(g, walk_dir_init(q, skip))
  BY <1>1, <1>5, <1>6, WalkDir DEF Out
<1> HIDE DEF q
<1>8. QED
  BY <1>1, <1>7, Single DEF read_pwd_resp, q

\* The data channel is made and RETR or LIST asked for.  Whatever request was
\* still delayed is given up for it.
LEMMA AskTransfer ==
  ASSUME NEW g, Start(g), g.conn = "up", g.state = "S_PASV_SENT",
         NEW req, NEW next, NEW act,
         \/ req = "RETR" /\ next = "S_RETR_SENT" /\ act = "send_retr"
         \/ req = "LIST" /\ next = "S_LIST_SENT" /\ act = "send_list",
         g.pasvAction = act
  PROVE  LET k == [enter(g, "S_DATA_CONN") EXCEPT
                     !.dataBev = TRUE, !.dataIsConnected = FALSE, !.dataUsingSec = FALSE]
         IN Good(g, ask(k, next, req))
<1> DEFINE k == [enter(g, "S_DATA_CONN") EXCEPT
                   !.dataBev = TRUE, !.dataIsConnected = FALSE, !.dataUsingSec = FALSE]
           d == [g EXCEPT !.state = "S_DATA_CONN", !.dataBev = TRUE, !.dataUsingSec = FALSE]
<1>1. Shaped(g) /\ Sound(g) /\ Good(g, g) /\ Open(g)
  BY StartGood, PlainOpen DEF Start, Plain, States, ReplyStates, LoginStates
<1>2. Alike(d, k) /\ Shaped(d) /\ Shaped(k)
  BY <1>1 DEF Shaped, Fields, Alike, Keeps, enter, States
<1>3. req \in Commands /\ next \in ReplyStates /\ ((req = "LIST") <=> (next = "S_LIST_SENT"))
      /\ req \in Words
  BY DEF Commands, ReplyStates, Words
<1>4. CASE g.savedReqTimer
  <2> DEFINE n == [d EXCEPT !.savedReq = req, !.savedNextState = next]
             m == [k EXCEPT !.savedReq = req, !.savedNextState = next]
  <2>1. ask(k, next, req) = m
    <3>1. k.savedReqTimer /\ ~k.freed /\ ~k.hostIsFinished
      BY <1>1, <1>2, <1>4 DEF Alike, Keeps, Shaped, Fields, Start, Up
    <3> HIDE DEF k
    <3>2. QED
      BY <3>1 DEF ask, sendSpigot, clobber
  <2>2. Shaped(n) /\ Alike(n, m)
    <3> HIDE DEF d, k
    <3>1. QED
      BY <1>2, <1>3 DEF Shaped, Fields, Alike, Keeps
  <2>3. Sound(n)
    <3>1. /\ n = [g EXCEPT !.state = "S_DATA_CONN", !.dataBev = TRUE, !.dataUsingSec = FALSE,
                           !.savedReq = req, !.savedNextState = next]
      BY <1>1 DEF Shaped, Fields
    <3> HIDE DEF n
    <3>2. Throttled(n) /\ Parting(n)
      BY <1>1, <3>1 DEF Sound, Throttled, Parting, Owing, Later, Heading, Shaped, Fields
    <3>3. Channelled(n)
      BY <1>1, <3>1 DEF Sound, Channelled, Reconnects, Later, Heading, Shaped, Fields,
                        SecPhase, Handshakes
    <3>4. LoggingIn(n) /\ Transferring(n)
      BY <1>1, <3>1 DEF Sound, LoggingIn, Transferring, Open, Later, Shaped, Fields, LoginStates
    <3>5. Walking(n)
      BY <1>1, <3>1 DEF Sound, Walking, Transferring, Open, Later, Heading, Ready, Shaped,
                        Fields, DataPhase
    <3>6. QED
      BY <3>2, <3>3, <3>4, <3>5 DEF Sound
  <2>4. Good(g, n)
    <3>1. /\ n = [g EXCEPT !.state = "S_DATA_CONN", !.dataBev = TRUE, !.dataUsingSec = FALSE,
                           !.savedReq = req, !.savedNextState = next]
      BY <1>1 DEF Shaped, Fields
    <3> HIDE DEF n
    <3>2. QED
      BY <1>1, <2>2, <2>3, <3>1 DEF Good, Up, Costs, Owing, Listed, Ready, Shaped, Fields
  <2> HIDE DEF n, m, k
  <2>5. QED
    BY <2>1, <2>2, <2>4, AlikeGood DEF k
<1>5. CASE ~g.savedReqTimer
  <2>1. Sound(d)
    <3>2. Throttled(d) /\ Parting(d)
      BY <1>1 DEF Sound, Throttled, Parting, Owing, Later, Heading, Shaped, Fields
    <3>3. Channelled(d)
      BY <1>1 DEF Sound, Channelled, Reconnects, Later, Heading, Shaped, Fields,
                        SecPhase, Handshakes
    <3>4. LoggingIn(d) /\ Transferring(d)
      BY <1>1, <1>5 DEF Sound, LoggingIn, Transferring, Open, Later, Shaped, Fields, LoginStates
    <3>5. Walking(d)
      BY <1>1, <1>5 DEF Sound, Walking, Transferring, Open, Later, Heading, Ready, Shaped,
                        Fields, DataPhase
    <3>6. QED
      BY <3>2, <3>3, <3>4, <3>5 DEF Sound
  <2>2. Good(g, d)
    BY <1>1, <1>2, <2>1 DEF Good, Up, Costs, Owing, Listed, Ready, Shaped, Fields
  <2>3. /\ d.conn = "up" /\ ~d.multiRespTimer /\ ~d.resetWaitTimer /\ ~d.retrWaitTimer
        /\ d.state = "S_DATA_CONN" /\ d.pasvAction = act
    BY <1>1 DEF Shaped, Fields, Open
  <2> HIDE DEF d, k
  <2>4. Good(g, k)
    BY <1>2, <2>2, AlikeGood
  <2>5. May(k, next)
    <3>1. k.conn = "up" /\ ~k.multiRespTimer /\ ~k.resetWaitTimer /\ ~k.retrWaitTimer
          /\ k.state = "S_DATA_CONN" /\ k.pasvAction = act
      BY <1>2, <2>3 DEF Alike, Keeps
    <3>2. QED
      BY <3>1 DEF May, SecPhase, Handshakes, DataPhase, LoginStates
  <2>6. QED
    BY <1>3, <2>4, <2>5, Ask DEF k
<1>6. QED
  BY <1>1, <1>4, <1>5 DEF Shaped

\* The reply to PASV.
LEMMA ReadPasv ==
  ASSUME NEW g, Start(g), g.conn = "up", g.state = "S_PASV_SENT", NEW r, Reply(r),
         r.size = "FOUND" => r.kind \in {"ok", "no", "odd"}
  PROVE  Out(g, read_pasv_resp(g, r))
<1> DEFINE k == [enter(g, "S_DATA_CONN") EXCEPT
                   !.dataBev = TRUE, !.dataIsConnected = FALSE, !.dataUsingSec = FALSE]
           made == IF g.dataBev THEN crash(g, "data_bev_lost")
                   ELSE IF g.pasvAction = "send_retr" THEN send_retr(k) ELSE send_list(k)
           found == CASE r.kind = "no" -> unexpected_reply(g, "FAIL_PASV_RESP")
             [] r.kind = "odd" -> unexpected_reply(g, "FAIL_PASV_SCAN")
             [] r.kind = "ok" -> made
<1>1. Good(g, g) /\ Open(g) /\ MayQuit(g)
  BY StartGood, PlainOpen DEF Plain, States, ReplyStates, LoginStates
<1>2. g.pasvAction \in {"send_retr", "send_list"}
  BY DEF Start, Sound, Walking, Heading, DataPhase, Shaped
<1>3. ASSUME NEW m, Good(g, m), NEW t
      PROVE  Good(g, [m EXCEPT !.xferType = t])
  <2>1. Alike(m, [m EXCEPT !.xferType = t])
    BY <1>3 DEF Good, Shaped, Fields, Alike, Keeps
  <2>2. QED
    BY <1>3, <2>1, AlikeGood
<1>4. g.pasvAction = "send_retr" => Good(g, send_retr(k))
  BY <1>3, AskTransfer DEF send_retr
<1>5. g.pasvAction = "send_list" => Good(g, send_list(k))
  BY <1>3, AskTransfer DEF send_list
<1>6. ~g.dataBev
  BY <1>1 DEF Open
<1>7. Out(g, unexpected_reply(g, "FAIL_PASV_RESP")) /\ Out(g, unexpected_reply(g, "FAIL_PASV_SCAN"))
  BY <1>1, Pleasant DEF Out, unexpected_reply
<1> HIDE DEF k
<1>8. Out(g, made)
  BY <1>2, <1>4, <1>5, <1>6 DEF Out
<1> HIDE DEF made
<1>9. r.size = "FOUND" => Out(g, found)
  BY <1>7, <1>8
<1> HIDE DEF found
<1>10. QED
  BY <1>1, <1>9, Single DEF read_pasv_resp, found, made, k

-----------------------------------------------------------------------------
\* The data channel.

\* Too much data ends the host and frees it.
LEMMA DataOverflow ==
  ASSUME NEW g, NEW k, Start(g), Whole(g, k)
  PROVE  Gone(g, data_overflow(k)) /\ data_overflow(k).freed
<1>1. Gone(g, abrupt(k, "FAIL_TRAP_DATA_AMT"))
  BY AbruptWhole DEF Over
<1>2. Gone(g, data_overflow(k)) /\ (data_overflow(k).hostIsFinished => data_overflow(k).freed)
  BY <1>1, FreeIfFinished DEF data_overflow
<1>3. QED
  BY <1>2 DEF Gone

\* Parsing a listing changes only the walk.
LEMMA Parsed ==
  ASSUME NEW k, Shaped(k), NEW c
  PROVE  Alike(k, parse_list_data(k, c))
<1> DEFINE l == check_lie(k, c.text)
<1>1. Alike(k, l)
  BY DEF check_lie, Alike, Keeps, Shaped, Fields
<1> HIDE DEF l
<1>2. Alike(k, [l EXCEPT !.dirQueue = @ + c.dirs])
  BY <1>1 DEF Alike, Keeps, Fields
<1>3. Alike(k, k)
  BY DEF Alike, Keeps, Shaped
<1>4. QED
  BY <1>2, <1>3 DEF parse_list_data, l

\* The channel is closed and the handler that waited for it runs.
LEMMA CloseChannel ==
  ASSUME NEW k, Shaped(k), ~k.freed, k.dataBev, k.delayedCtrlCB # "ctrl_read_cb",
         NEW c, ~c.over
  PROVE  \E d : /\ Alike([k EXCEPT !.dataBev = FALSE, !.delayedCtrlCB = "none"], d)
                /\ k.delayedCtrlCB = "none" => data_close_channel(k, c) = d
                /\ k.delayedCtrlCB = "read_retr_done" =>
                     data_close_channel(k, c) = read_retr_done(d, c.more, c)
                /\ k.delayedCtrlCB = "read_list_done" =>
                     data_close_channel(k, c) = read_list_done(d, c.more, c)
<1> DEFINE p == parse_list_data(k, c)
           b == [p EXCEPT !.dataBev = FALSE, !.dataIsConnected = FALSE]
           d == [b EXCEPT !.delayedCtrlCB = "none"]
<1>1. Alike(k, p)
  BY Parsed
<1>2. close_data_bev(k, c) = b
  BY DEF close_data_bev
<1> HIDE DEF p
<1>3. /\ Alike([k EXCEPT !.dataBev = FALSE, !.delayedCtrlCB = "none"], d)
      /\ k.delayedCtrlCB = "none" =>
           Alike([k EXCEPT !.dataBev = FALSE, !.delayedCtrlCB = "none"], b)
      /\ b.freed = k.freed /\ b.delayedCtrlCB = k.delayedCtrlCB
  BY <1>1 DEF Alike, Keeps, Shaped, Fields
<1>4. data_close_channel(k, c) = run_delayed(b, d, c)
  BY <1>2 DEF data_close_channel, run_delayed_cb
<1> HIDE DEF b, d
<1>5. CASE k.delayedCtrlCB = "none"
  <2>1. data_close_channel(k, c) = b
    BY <1>3, <1>4, <1>5 DEF run_delayed
  <2>2. QED
    BY <1>3, <1>5, <2>1
<1>6. CASE k.delayedCtrlCB = "read_retr_done"
  <2>1. data_close_channel(k, c) = read_retr_done(d, c.more, c)
    BY <1>3, <1>4, <1>6 DEF run_delayed
  <2>2. QED
    BY <1>3, <1>6, <2>1
<1>7. CASE k.delayedCtrlCB = "read_list_done"
  <2>1. data_close_channel(k, c) = read_list_done(d, c.more, c)
    BY <1>3, <1>4, <1>7 DEF run_delayed
  <2>2. QED
    BY <1>3, <1>7, <2>1
<1>8. QED
  BY <1>5, <1>6, <1>7 DEF Shaped

\* Too much data when the channel closes ends the host and frees it.
LEMMA CloseOverflow ==
  ASSUME NEW g, NEW k, Start(g), Whole(g, k), k.dataBev, NEW c, c.over = TRUE
  PROVE  Gone(g, data_close_channel(k, c)) /\ data_close_channel(k, c).freed
<1>1. Gone(g, data_overflow(k)) /\ data_overflow(k).freed
  BY DataOverflow
<1>2. close_data_bev(k, c) = data_overflow(k)
  BY DEF close_data_bev
<1>3. data_close_channel(k, c) = data_overflow(k)
  BY <1>1, <1>2 DEF data_close_channel, run_delayed_cb, run_delayed
<1>4. QED
  BY <1>1, <1>3

\* A host without its data channel, and without what waited for it.
LEMMA Shut ==
  ASSUME NEW g, NEW k, Good(g, k), k.conn = "up"
  PROVE  LET n == [k EXCEPT !.dataBev = FALSE, !.delayedCtrlCB = "none"] IN Good(g, n)
<1> DEFINE n == [k EXCEPT !.dataBev = FALSE, !.delayedCtrlCB = "none"]
<1>1. Shaped(n)
  BY DEF Good, Shaped, Fields
<1>2. Throttled(n) /\ Parting(n) /\ Channelled(n)
  BY DEF Good, Sound, Throttled, Parting, Channelled, Reconnects, Owing, Later, Heading,
         Shaped, Fields
<1>3. LoggingIn(n) /\ Transferring(n) /\ Walking(n)
  BY DEF Good, Sound, LoggingIn, Transferring, Walking, Later, Heading, Ready, Shaped, Fields
<1>4. QED
  BY <1>1, <1>2, <1>3 DEF Good, Sound, Up, Costs, Owing, Listed, Ready, Shaped, Fields

-----------------------------------------------------------------------------
\* The replies around a transfer.  Their handlers also run where the limit is not
\* looked at.
Left(g, k) == Out(g, k) /\ (Good(g, k) => Held(k))

\* A reply that must stand alone, where the limit is not looked at.
LEMMA SingleLeft ==
  ASSUME NEW g, NEW k, Start(g), Good(g, k), MayQuit(k), NEW r, Reply(r), NEW found,
         k.state \notin Handshakes, r.size = "FOUND" => Left(g, found)
  PROVE  Left(g, single(k, r, found))
<1>1. ~k.hostIsFinished /\ Held(k)
  BY DEF Good, Up, Held, Handshakes
<1>2. r.size = "ERROR" => Left(g, abrupt(k, r.kind))
  BY Abrupt DEF Reply, Left, Out, Over, Gone, Good, Up
<1>3. Left(g, handle_extra_resp_error(k))
  BY Pleasant DEF handle_extra_resp_error, Left, Out, Held, Handshakes
<1>4. QED
  BY <1>1, <1>2, <1>3 DEF single, parse_response, Reply, Sizes, Left, Out

\* QUIT where the limit is not looked at.
LEMMA LeftPleasant ==
  ASSUME NEW g, NEW k, Start(g), Good(g, k), MayQuit(k), k.state \notin Handshakes,
         NEW code, code # "UNSET"
  PROVE  Left(g, unexpected_reply(k, code)) /\ Left(g, pleasant(k, code))
BY Pleasant DEF unexpected_reply, Left, Out, Held, Handshakes

\* A transfer whose data channel is closed.
LEMMA TransferOpen ==
  ASSUME NEW g, NEW k, Good(g, k), k.conn = "up", ~k.dataBev, ~k.retrWaitTimer,
         k.state \in {"S_RETR_XFER", "S_LIST_SENT", "S_LIST_XFER", "S_QUIT_SENT"}
  PROVE  Open(k) /\ MayQuit(k) /\ k.state \notin Handshakes
BY DEF Good, Sound, LoggingIn, Open, MayQuit, LoginStates, Handshakes

\* The wait after a refused RETR is over.
LEMMA NoRetrWait ==
  ASSUME NEW g, NEW k, Good(g, k)
  PROVE  LET n == [k EXCEPT !.retrWaitTimer = FALSE]
         IN Good(g, n) /\ ~n.retrWaitTimer /\ n.state = k.state /\ n.conn = k.conn
            /\ n.dataBev = k.dataBev /\ n.pasvAction = k.pasvAction
            /\ (MayQuit(k) => MayQuit(n))
<1> DEFINE n == [k EXCEPT !.retrWaitTimer = FALSE]
<1>1. /\ Shaped(n) /\ ~n.retrWaitTimer /\ n.state = k.state /\ n.conn = k.conn
      /\ n.dataBev = k.dataBev /\ n.pasvAction = k.pasvAction
      /\ (MayQuit(k) => MayQuit(n))
  BY DEF Good, Shaped, Fields, MayQuit
<1>2. Throttled(n) /\ Parting(n) /\ Channelled(n)
  BY DEF Good, Sound, Throttled, Parting, Channelled, Reconnects, Owing, Later, Heading,
         Shaped, Fields
<1>3. LoggingIn(n) /\ Transferring(n) /\ Walking(n)
  BY DEF Good, Sound, LoggingIn, Transferring, Walking, Later, Heading, Ready, Shaped, Fields
<1>4. QED
  BY <1>1, <1>2, <1>3 DEF Good, Sound, Up, Costs, Owing, Listed, Ready, Shaped, Fields

\* robots.txt is known, or known to be missing: the crawl may list from now on.
Knowing(k, p, o) == [k EXCEPT !.robotPresence = p, !.robotObj = o]

\* Knowing more of robots.txt forbids nothing that was allowed.
LEMMA RobotsKnown ==
  ASSUME NEW g, NEW k, Start(g), Good(g, k), NEW p,
         p = "ROBOTS_NO" \/ p = k.robotPresence, NEW o \in BOOLEAN,
         k.robotObj => o
  PROVE  LET n == Knowing(k, p, o)
         IN Good(g, n) /\ n.robotObj = o
            /\ n.state = k.state /\ (Open(k) => Open(n))
            /\ n.pasvAction = k.pasvAction
<1> DEFINE n == Knowing(k, p, o)
<1> USE DEF Knowing
<1>1. /\ Shaped(n) /\ n.robotObj = o /\ n.state = k.state /\ (Open(k) => Open(n))
      /\ n.pasvAction = k.pasvAction
  BY DEF Good, Shaped, Fields, Open
<1>2. Ready(k) => Ready(n)
  BY DEF Ready, Good, Shaped, Fields
<1>3. /\ n.pasvPost = k.pasvPost /\ n.retrWaitTimer = k.retrWaitTimer
      /\ n.delayedCtrlCB = k.delayedCtrlCB /\ n.dataBev = k.dataBev
      /\ Later(n) = Later(k) /\ \A S : Heading(n, S) <=> Heading(k, S)
  BY DEF Good, Shaped, Fields, Later, Heading
<1>4. Throttled(n) /\ Parting(n) /\ Channelled(n)
  BY DEF Good, Sound, Throttled, Parting, Channelled, Reconnects, Owing, Later, Heading,
         Shaped, Fields
<1>5. LoggingIn(n) /\ Transferring(n)
  BY DEF Good, Sound, LoggingIn, Transferring, Later, Shaped, Fields
<1>6. Walking(n)
  <2> HIDE DEF n
  <2>1. QED
    BY <1>1, <1>2, <1>3 DEF Good, Sound, Walking
<1>7. Costs(g, n)
  BY <1>2 DEF Good, Costs, Owing, Listed, Shaped, Fields
<1>8. Owing(n) >= Owing(g) /\ Up(n) /\ n.connects = k.connects /\ n.conn = k.conn
  BY DEF Good, Owing, Up, Shaped, Fields
<1>9. QED
  BY <1>1, <1>4, <1>5, <1>6, <1>7, <1>8 DEF Good, Sound

\* What follows robots.txt, refused or read.
LEMMA AfterRetr ==
  ASSUME NEW g, NEW k, Start(g), Good(g, k), k.conn = "up", ~k.dataBev,
         k.state \in {"S_RETR_XFER", "S_QUIT_SENT"}, k.pasvAction = "send_retr", NEW c
  PROVE  /\ Good(g, after_retr(k, c)) /\ Held(after_retr(k, c))
         /\ LET n == [k EXCEPT !.retrWaitTimer = FALSE]
            IN /\ Good(g, pasvPost(handle_robots_txt(n), c.skip))
               /\ Held(pasvPost(handle_robots_txt(n), c.skip))
<1> DEFINE n == [k EXCEPT !.retrWaitTimer = FALSE]
<1>1. /\ Good(g, n) /\ ~n.retrWaitTimer /\ n.state = k.state /\ n.conn = k.conn
      /\ n.dataBev = k.dataBev /\ n.pasvAction = k.pasvAction
  BY NoRetrWait
<1> HIDE DEF n
<1>2. Open(n) /\ n.state \notin Handshakes
  BY <1>1, TransferOpen
<1>3. ASSUME NEW p, p = "ROBOTS_NO" \/ p = n.robotPresence,
             NEW o \in BOOLEAN, n.robotObj => o, crawlType = "NORMAL" => o
      PROVE  LET m == Knowing(n, p, o)
             IN Good(g, pasvPost(m, c.skip)) /\ Held(pasvPost(m, c.skip))
  <2> DEFINE m == Knowing(n, p, o)
  <2>1. /\ Good(g, m) /\ m.robotObj = o /\ m.state = n.state /\ (Open(n) => Open(m))
        /\ m.pasvAction = n.pasvAction
    <3>1. Good(g, n) /\ Start(g)
      BY <1>1
    <3>2. (p = "ROBOTS_NO" \/ p = n.robotPresence) /\ o \in BOOLEAN
          /\ (n.robotObj => o)
      BY <1>3
    <3>3. QED
      BY <3>1, <3>2, RobotsKnown
  <2> HIDE DEF m
  <2>2. Good(g, pasvPost(m, c.skip)) /\ Held(pasvPost(m, c.skip))
    BY <1>1, <1>2, <1>3, <2>1, PasvPost
  <2>3. QED
    BY <2>2 DEF m
<1>4. Good(g, after_retr(k, c)) /\ Held(after_retr(k, c))
  <2> DEFINE p == IF k.item = "robots" THEN "ROBOTS_NO" ELSE n.robotPresence
             m == Knowing(n, p, TRUE)
  <2>1. Good(g, pasvPost(m, c.skip)) /\ Held(pasvPost(m, c.skip))
    BY <1>3
  <2>2. m = [k EXCEPT !.retrWaitTimer = FALSE,
                      !.robotPresence = IF k.item = "robots" THEN "ROBOTS_NO" ELSE @,
                      !.robotObj = TRUE]
    BY DEF n, Knowing
  <2>3. QED
    BY <2>1, <2>2 DEF after_retr
<1>5. /\ Good(g, pasvPost(handle_robots_txt(n), c.skip))
      /\ Held(pasvPost(handle_robots_txt(n), c.skip))
  <2> DEFINE o == n.robotObj \/ crawlType = "NORMAL"
             m == Knowing(n, n.robotPresence, o)
  <2>1. n.robotObj \in BOOLEAN
    BY <1>1 DEF Good, Shaped
  <2>2. Good(g, pasvPost(m, c.skip)) /\ Held(pasvPost(m, c.skip))
    BY <1>3, <2>1
  <2>3. m = handle_robots_txt(n)
    BY <1>1 DEF Knowing, handle_robots_txt, Good, Shaped, Fields
  <2>4. QED
    BY <2>2, <2>3
<1>6. QED
  BY <1>4, <1>5 DEF n

\* A reply that comes after a transfer.
Ended(c) == Reply(c.more) /\ (c.more.size = "FOUND" => c.more.kind \in {"ok", "no", "odd"})

\* The reply after RETR's transfer: it waits for the data channel to close.
LEMMA ReadRetrDone ==
  ASSUME NEW g, NEW k, Start(g), Good(g, k), k.conn = "up",
         k.state \in {"S_RETR_XFER", "S_QUIT_SENT"}, k.pasvAction = "send_retr",
         NEW r, Reply(r), r.size = "FOUND" => r.kind \in {"ok", "no", "odd"}, NEW c
  PROVE  Left(g, read_retr_done(k, r, c))
<1>1. CASE k.dataBev
  <2> DEFINE n == [k EXCEPT !.delayedCtrlCB = "read_retr_done"]
  <2>1. Shaped(n) /\ n.state = k.state
    BY DEF Good, Shaped, Fields
  <2>2. Throttled(n) /\ Parting(n) /\ Channelled(n)
    BY DEF Good, Sound, Throttled, Parting, Channelled, Reconnects, Owing, Later, Heading,
           Shaped, Fields
  <2>3. LoggingIn(n) /\ Transferring(n) /\ Walking(n)
    BY <1>1 DEF Good, Sound, LoggingIn, Transferring, Walking, Later, Heading, Ready, Shaped,
                Fields
  <2>4. Good(g, n)
    BY <2>1, <2>2, <2>3 DEF Good, Sound, Up, Costs, Owing, Listed, Ready, Shaped, Fields
  <2> HIDE DEF n
  <2>5. Left(g, n)
    BY <2>1, <2>4 DEF Left, Out, Held
  <2>6. QED
    BY <1>1, <2>5 DEF read_retr_done, n
<1>2. CASE ~k.dataBev
  <2> DEFINE n == [k EXCEPT !.retrWaitTimer = FALSE]
             found == CASE r.kind = "ok" -> pasvPost(handle_robots_txt(n), c.skip)
                        [] r.kind = "no" -> after_retr(n, c)
                        [] r.kind = "odd" -> unexpected_reply(n, "FAIL_RETR_DONE")
  <2>1. /\ Good(g, n) /\ ~n.retrWaitTimer /\ n.state = k.state /\ n.conn = k.conn
        /\ n.dataBev = k.dataBev /\ n.pasvAction = k.pasvAction
        /\ MayQuit(k) => MayQuit(n)
    BY NoRetrWait
  <2>2. /\ Good(g, pasvPost(handle_robots_txt(n), c.skip))
        /\ Held(pasvPost(handle_robots_txt(n), c.skip))
    BY <1>2, AfterRetr
  <2>3. read_retr_done(k, r, c) = single(k, r, found)
    BY <1>2 DEF read_retr_done
  <2> HIDE DEF n
  <2>4. Open(n) /\ MayQuit(n) /\ n.state \notin Handshakes
    BY <1>2, <2>1, TransferOpen
  <2>5. Good(g, after_retr(n, c)) /\ Held(after_retr(n, c))
    BY <1>2, <2>1, AfterRetr
  <2>6. Left(g, unexpected_reply(n, "FAIL_RETR_DONE"))
    BY <2>1, <2>4, LeftPleasant
  <2>7. r.size = "FOUND" => Left(g, found)
    BY <2>2, <2>5, <2>6 DEF Left, Out
  <2>8. MayQuit(k) /\ k.state \notin Handshakes
    <3>1. ~k.multiRespTimer /\ ~k.resetWaitTimer
      BY DEF Good, Sound, LoggingIn, LoginStates
    <3>2. QED
      BY <3>1 DEF MayQuit, LoginStates, Handshakes
  <2> HIDE DEF found
  <2>9. QED
    BY <2>3, <2>7, <2>8, SingleLeft
<1>3. QED
  BY <1>1, <1>2

\* After a failed LIST the walk goes on, or the crawl ends.
LEMMA ListFailed ==
  ASSUME NEW g, NEW k, Start(g), Good(g, k), Open(k), k.state \notin Handshakes,
         k.pasvAction = "send_list", NEW code, code # "UNSET", NEW skip
  PROVE  Left(g, list_failed(k, code, skip))
<1>1. Left(g, unexpected_reply(k, code))
  BY OpenMayQuit, LeftPleasant
<1>2. crawlType # "SHORT" => Good(g, pasvPost(k, skip)) /\ Held(pasvPost(k, skip))
  <2>1. crawlType = "NORMAL" => k.robotObj
    BY DEF Good, Sound, Walking, Ready
  <2>2. QED
    BY <2>1, PasvPost
<1>3. QED
  BY <1>1, <1>2 DEF list_failed, Left, Out

\* The error count is nothing the invariant looks at.
LEMMA ListError ==
  ASSUME NEW g, NEW k, Good(g, k)
  PROVE  Good(g, list_error(k)) /\ Alike(k, list_error(k)) /\ (Open(k) => Open(list_error(k)))
<1>1. Alike(k, list_error(k))
  BY DEF list_error, Alike, Keeps, Good, Shaped, Fields
<1>2. QED
  BY <1>1, AlikeGood

\* The reply after LIST's transfer: it waits for the data channel to close.
LEMMA ReadListDone ==
  ASSUME NEW g, NEW k, Start(g), Good(g, k), k.conn = "up",
         k.state \in {"S_LIST_XFER", "S_QUIT_SENT"}, k.pasvAction = "send_list",
         NEW r, Reply(r), NEW c
  PROVE  Left(g, read_list_done(k, r, c))
<1>1. CASE k.dataBev
  <2> DEFINE n == [k EXCEPT !.delayedCtrlCB = "read_list_done"]
  <2>1. Shaped(n) /\ n.state = k.state
    BY DEF Good, Shaped, Fields
  <2>2. Throttled(n) /\ Parting(n) /\ Channelled(n)
    BY DEF Good, Sound, Throttled, Parting, Channelled, Reconnects, Owing, Later, Heading,
           Shaped, Fields
  <2>3. LoggingIn(n) /\ Transferring(n) /\ Walking(n)
    BY <1>1 DEF Good, Sound, LoggingIn, Transferring, Walking, Later, Heading, Ready, Shaped,
                Fields
  <2>4. Good(g, n)
    BY <2>1, <2>2, <2>3 DEF Good, Sound, Up, Costs, Owing, Listed, Ready, Shaped, Fields
  <2> HIDE DEF n
  <2>5. Left(g, n)
    BY <2>1, <2>4 DEF Left, Out, Held
  <2>6. QED
    BY <1>1, <2>5 DEF read_list_done, n
<1>2. CASE ~k.dataBev
  <2> DEFINE e == list_error(k)
             found == IF r.kind # "ok" THEN list_failed(e, "FAIL_LIST_DONE", c.skip)
                      ELSE IF k.pasvPost = "disconnect_pleasant" THEN pleasant(k, "SUCCESS_EXIT")
                      ELSE pasvPost(k, c.skip)
  <2>1. Open(k) /\ MayQuit(k) /\ k.state \notin Handshakes
    <3>1. ~k.retrWaitTimer
      BY DEF Good, Sound, Walking
    <3>2. QED
      BY <1>2, <3>1, TransferOpen
  <2>2. Good(g, e) /\ Open(e) /\ e.state = k.state /\ e.pasvAction = k.pasvAction
    BY <2>1, ListError DEF Alike, Keeps
  <2>3. Left(g, list_failed(e, "FAIL_LIST_DONE", c.skip))
    <3> HIDE DEF e
    <3>1. QED
      BY <2>1, <2>2, ListFailed
  <2>4. Left(g, pleasant(k, "SUCCESS_EXIT"))
    BY <2>1, LeftPleasant
  <2>5. k.pasvPost # "disconnect_pleasant" => Left(g, pasvPost(k, c.skip))
    <3>1. k.pasvPost # "disconnect_pleasant" => crawlType # "SHORT"
      BY DEF Good, Sound, Walking
    <3>2. crawlType = "NORMAL" => k.robotObj
      BY DEF Good, Sound, Walking, Ready
    <3>3. QED
      BY <2>1, <3>1, <3>2, PasvPost DEF Left, Out
  <2>6. Left(g, found)
    BY <2>3, <2>4, <2>5
  <2>7. read_list_done(k, r, c) = single(k, r, found)
    BY <1>2 DEF read_list_done
  <2> HIDE DEF found
  <2>8. QED
    BY <2>1, <2>6, <2>7, SingleLeft
<1>3. QED
  BY <1>1, <1>2

\* The data channel ends, and the handler that waited for it runs.
LEMMA DataChannelClosed ==
  ASSUME NEW g, NEW k, Start(g), Good(g, k), k.dataBev, NEW c, c.over \in BOOLEAN, Ended(c)
  PROVE  /\ c.over => Gone(g, data_close_channel(k, c))
         /\ ~c.over => Left(g, data_close_channel(k, c))
<1> DEFINE n == [k EXCEPT !.dataBev = FALSE, !.delayedCtrlCB = "none"]
<1>1. k.conn = "up" /\ k.state # "S_AUTH_TLS_SENT" /\ k.delayedCtrlCB # "ctrl_read_cb"
  BY DEF Good, Sound, Transferring, Channelled
<1>2. CASE c.over
  BY <1>2, CloseOverflow DEF Good, Whole
<1>3. CASE ~c.over
  <2>1. PICK d : /\ Alike(n, d)
                 /\ k.delayedCtrlCB = "none" => data_close_channel(k, c) = d
                 /\ k.delayedCtrlCB = "read_retr_done" =>
                      data_close_channel(k, c) = read_retr_done(d, c.more, c)
                 /\ k.delayedCtrlCB = "read_list_done" =>
                      data_close_channel(k, c) = read_list_done(d, c.more, c)
    BY <1>1, <1>3, CloseChannel DEF Good, Up
  <2>2. Good(g, n)
    BY <1>1, Shut
  <2>3. n.state = k.state /\ n.conn = "up" /\ n.pasvAction = k.pasvAction /\ ~n.dataBev
    BY <1>1 DEF Good, Shaped, Fields
  <2> HIDE DEF n
  <2>4. /\ Good(g, d) /\ d.state = k.state /\ d.conn = "up" /\ ~d.dataBev
        /\ d.pasvAction = k.pasvAction
    BY <2>1, <2>2, <2>3, AlikeGood DEF Alike, Keeps
  <2>5. CASE k.delayedCtrlCB = "none"
    BY <1>1, <1>3, <2>1, <2>4, <2>5 DEF Left, Out, Held
  <2>6. CASE k.delayedCtrlCB = "read_retr_done"
    <3>1. k.pasvAction = "send_retr" /\ k.state \in {"S_RETR_XFER", "S_QUIT_SENT"}
      BY <2>6 DEF Good, Sound, Walking, Transferring, Heading
    <3>2. QED
      BY <1>3, <2>1, <2>4, <2>6, <3>1, ReadRetrDone DEF Ended
  <2>7. CASE k.delayedCtrlCB = "read_list_done"
    <3>1. k.pasvAction = "send_list" /\ k.state \in {"S_LIST_XFER", "S_QUIT_SENT"}
      BY <2>7 DEF Good, Sound, Walking, Transferring, Heading
    <3>2. QED
      BY <1>3, <2>1, <2>4, <2>7, <3>1, ReadListDone DEF Ended
  <2>8. QED
    BY <1>1, <2>5, <2>6, <2>7 DEF Good, Shaped
<1>4. QED
  BY <1>2, <1>3

\* The one-second wait after a refused RETR is over.
LEMMA PostRetrWait ==
  ASSUME NEW g, Start(g), g.retrWaitTimer, NEW c
  PROVE  Left(g, post_retr_wait(g, c))
<1> DEFINE m == [g EXCEPT !.retrWaitTimer = FALSE,
                          !.robotPresence = IF g.item = "robots" THEN "ROBOTS_NO" ELSE @,
                          !.robotObj = TRUE]
<1>1. /\ Good(g, g) /\ g.conn = "up" /\ ~g.dataBev /\ g.pasvAction = "send_retr"
      /\ g.state \in {"S_RETR_XFER", "S_QUIT_SENT"}
  BY StartGood DEF Start, Sound, Transferring, Walking
<1>2. after_retr(g, c) = pasvPost(m, c.skip)
  BY DEF after_retr
<1>3. ~m.dataBev /\ m.fault = "none" /\ ~m.freed
  BY <1>1 DEF Good, Shaped, Fields, Up
<1> HIDE DEF m
<1>4. data_close_channel(m, c) = m
  BY <1>3 DEF data_close_channel
<1>5. post_retr_go_on(m, c) = pasvPost(m, c.skip)
  BY <1>3 DEF post_retr_go_on, then_on
<1>6. post_retr_wait(g, c) = after_retr(g, c)
  BY <1>2, <1>4, <1>5 DEF post_retr_wait, m
<1>7. QED
  BY <1>1, <1>6, AfterRetr DEF Left, Out

\* A transfer begins: its data is protected where the session is, or the program
\* reads through the null pointer the closed data channel has left.
LEMMA BeginXfer ==
  ASSUME NEW g, NEW k, Start(g), Good(g, k), k.conn = "up", NEW state,
         \/ k.state = "S_RETR_SENT" /\ state = "S_RETR_XFER"
         \/ k.state = "S_LIST_SENT" /\ state = "S_LIST_XFER"
  PROVE  LET m == begin_xfer(k, state)
         IN \/ Broken(g, m)
            \/ Good(g, m) /\ m.state = state /\ m.conn = "up" /\ m.pasvAction = k.pasvAction
<1> DEFINE e == enter(k, state)
           left == IF e.dataIsConnected THEN e.staleData ELSE e.staleData + 1
           p == [e EXCEPT !.dataUsingSec = TRUE, !.staleData = left]
           m == begin_xfer(k, state)
<1>1. /\ e = [k EXCEPT !.state = state] /\ Shaped(e) /\ e.dataBev = k.dataBev
      /\ e.state = state /\ e.conn = "up" /\ e.pasvAction = k.pasvAction
      /\ e.ctrlUsingSec = k.ctrlUsingSec /\ e.secType = k.secType
      /\ e.dataUsingSec = k.dataUsingSec
  BY DEF enter, Good, Shaped, Fields, States
<1>2. /\ Shaped(p) /\ p.dataUsingSec = TRUE
      /\ p = [k EXCEPT !.state = state, !.dataUsingSec = TRUE, !.staleData = left]
      /\ p.state = state /\ p.conn = "up" /\ p.pasvAction = k.pasvAction
  BY <1>1 DEF Good, Shaped, Fields, States
<1>3. Channelled(k) /\ (k.ctrlUsingSec => k.secType # "SEC_UNK")
  BY DEF Good, Sound, Channelled
<1>4. ASSUME k.ctrlUsingSec /\ k.dataBev => k.dataUsingSec
      PROVE  Good(g, e)
  <2>1. Throttled(e) /\ Parting(e)
    BY <1>1 DEF Good, Sound, Throttled, Parting, Owing, Later, Heading, Shaped, Fields
  <2>2. Channelled(e)
    BY <1>1 DEF Good, Sound, Channelled, Reconnects, Later, Heading, Shaped, Fields, SecPhase,
                Handshakes
  <2>3. LoggingIn(e) /\ Transferring(e)
    BY <1>1, <1>4 DEF Good, Sound, LoggingIn, Transferring, Later, Shaped, Fields, LoginStates
  <2>4. Walking(e)
    BY <1>1 DEF Good, Sound, Walking, Later, Heading, Ready, Shaped, Fields, DataPhase
  <2>5. QED
    BY <1>1, <2>1, <2>2, <2>3, <2>4 DEF Good, Sound, Up, Costs, Owing, Listed, Ready, Shaped,
                                        Fields
<1>5. Good(g, p)
  <2> HIDE DEF p, e
  <2>1. Throttled(p) /\ Parting(p)
    BY <1>2 DEF Good, Sound, Throttled, Parting, Owing, Later, Heading, Shaped, Fields
  <2>2. Channelled(p)
    BY <1>2 DEF Good, Sound, Channelled, Reconnects, Later, Heading, Shaped, Fields, SecPhase,
                Handshakes
  <2>3. LoggingIn(p) /\ Transferring(p)
    BY <1>2 DEF Good, Sound, LoggingIn, Transferring, Later, Shaped, Fields, LoginStates
  <2>4. Walking(p)
    BY <1>2 DEF Good, Sound, Walking, Later, Heading, Ready, Shaped, Fields, DataPhase
  <2>5. QED
    BY <1>2, <2>1, <2>2, <2>3, <2>4 DEF Good, Sound, Up, Costs, Owing, Listed, Ready, Shaped,
                                        Fields
<1>6. m = IF k.ctrlUsingSec THEN data_tls_init(e) ELSE e
  BY DEF begin_xfer
<1> HIDE DEF m, e, p
<1>7. CASE ~k.ctrlUsingSec
  BY <1>1, <1>4, <1>6, <1>7 DEF m
<1>8. CASE k.ctrlUsingSec /\ ~k.dataBev
  <2>1. m = crash(e, "null_data_bev")
    BY <1>1, <1>3, <1>6, <1>8 DEF data_tls_init
  <2>2. Broken(g, m)
    BY <1>4, <1>8, <2>1, Crash DEF Broken, Faults
  <2>3. QED
    BY <2>2 DEF m
<1>9. CASE k.ctrlUsingSec /\ k.dataBev
  <2>1. m = p
    BY <1>1, <1>3, <1>6, <1>9 DEF data_tls_init, p
  <2>2. QED
    BY <1>2, <1>5, <2>1 DEF m
<1>10. QED
  BY <1>7, <1>8, <1>9 DEF Good, Shaped

\* What follows in the same reply does not follow a crash.
LEMMA ThenOnXfer ==
  ASSUME NEW g, NEW m, Start(g), Broken(g, m) \/ Good(g, m), NEW next,
         Good(g, m) => Out(g, next)
  PROVE  Out(g, then_on(m, next))
BY DEF then_on, Broken, Crashed, Faults, Good, Up, Out

\* The reply to RETR, and the one that may follow it.
LEMMA ReadRetr ==
  ASSUME NEW g, Start(g), g.conn = "up", g.state = "S_RETR_SENT", NEW r, Reply(r),
         r.size \in {"FOUND", "EXTRA"} => r.kind \in {"ok", "no", "odd"},
         NEW c, c.over \in BOOLEAN, r.size = "EXTRA" => Ended(c)
  PROVE  Out(g, read_retr_resp(g, r, c)) \/ (c.over /\ Crashed(g, read_retr_resp(g, r, c)))
<1> DEFINE f == IF g.item = "robots" THEN [g EXCEPT !.robotPresence = "ROBOTS_YES"] ELSE g
           b == begin_xfer(f, "S_RETR_XFER")
           closed == data_close_channel(enter(g, "S_RETR_XFER"), c)
           found == CASE r.kind = "ok" /\ r.size = "EXTRA" -> retr_done_too(b, c)
              [] r.kind = "ok" /\ r.size = "FOUND" -> b
              [] r.kind = "no" -> arm_retr_wait(closed)
              [] r.kind = "odd" -> unexpected_reply(g, "FAIL_RETR_OK")
<1>1. /\ Good(g, g) /\ Shaped(g) /\ ~g.retrWaitTimer /\ g.pasvAction = "send_retr"
      /\ g.delayedCtrlCB = "none" /\ Later(g) \in {"none", "S_QUIT_SENT"}
  BY StartGood DEF Start, Sound, Transferring, Walking, Heading, Shaped, Channelled
<1>2. Good(g, f) /\ f.state = "S_RETR_SENT" /\ f.conn = "up" /\ f.pasvAction = "send_retr"
  <2> DEFINE n == [g EXCEPT !.robotPresence = "ROBOTS_YES"]
  <2>1. Shaped(n) /\ n.state = "S_RETR_SENT" /\ n.conn = "up" /\ n.pasvAction = "send_retr"
    BY <1>1 DEF Shaped, Fields
  <2>2. Throttled(n) /\ Parting(n) /\ Channelled(n)
    BY <1>1 DEF Good, Sound, Throttled, Parting, Channelled, Reconnects, Owing, Later, Heading,
           Shaped, Fields
  <2>3. LoggingIn(n) /\ Transferring(n)
    BY <1>1 DEF Good, Sound, LoggingIn, Transferring, Later, Shaped, Fields
  <2>4. Walking(n)
    BY <1>1 DEF Good, Sound, Walking, Later, Heading, Ready, Shaped, Fields
  <2>5. Costs(g, n)
    <3>1. n.sent = <<>> /\ n.numReqSent = g.numReqSent /\ n.savedReqTimer = g.savedReqTimer
      BY DEF Start, Shaped, Fields
    <3>2. ~Listed(n)
      BY <3>1 DEF Listed
    <3>3. QED
      BY <1>1, <3>1, <3>2 DEF Good, Costs, Owing, Start
  <2>6. Good(g, n)
    BY <1>1, <2>1, <2>2, <2>3, <2>4, <2>5 DEF Good, Sound, Up, Owing, Shaped, Fields
  <2>7. QED
    BY <1>1, <2>1, <2>6
<1> HIDE DEF f
<1>3. \/ Broken(g, b)
      \/ Good(g, b) /\ b.state = "S_RETR_XFER" /\ b.conn = "up" /\ b.pasvAction = "send_retr"
  BY <1>2, BeginXfer
<1> HIDE DEF b
<1>4. r.size = "EXTRA" => Out(g, retr_done_too(b, c))
  <2>1. r.size = "EXTRA" /\ Good(g, b) => Out(g, read_retr_done(b, c.more, c))
    BY <1>3, ReadRetrDone DEF Ended, Left, Broken, Crashed, Faults, Good, Up
  <2>2. QED
    BY <1>3, <2>1, ThenOnXfer DEF retr_done_too
<1>5. Out(g, arm_retr_wait(closed)) \/ (c.over /\ Crashed(g, arm_retr_wait(closed)))
  <2> DEFINE e == enter(g, "S_RETR_XFER")
             n == [g EXCEPT !.state = "S_RETR_XFER", !.dataBev = FALSE, !.delayedCtrlCB = "none"]
  <2>1. /\ e = [g EXCEPT !.state = "S_RETR_XFER"] /\ Shaped(e) /\ e.dataBev = g.dataBev
        /\ e.delayedCtrlCB = "none" /\ ~e.freed
    <3>1. Shaped(g) /\ ~g.freed
      BY DEF Start, Up
    <3>2. e = [g EXCEPT !.state = "S_RETR_XFER"]
      BY DEF enter
    <3> HIDE DEF e
    <3>3. Shaped(e)
      BY <3>1, <3>2 DEF Shaped, Fields, States
    <3>4. QED
      BY <1>1, <3>1, <3>2, <3>3 DEF Shaped, Fields
  <2>2. Whole(g, e)
    BY <1>1, <2>1 DEF Whole, Good, Up, Costs, Owing, Listed, Ready, Shaped, Fields
  <2>3. g.dataBev /\ c.over => Gone(g, closed) /\ closed.freed
    BY <2>1, <2>2, CloseOverflow
  <2>4. ~(g.dataBev /\ c.over) => Alike(n, closed)
    <3>1. CASE ~g.dataBev
      <4>1. closed = e
        BY <2>1, <3>1 DEF data_close_channel
      <4>2. n = [e EXCEPT !.dataBev = FALSE, !.delayedCtrlCB = "none"]
        BY <1>1, <2>1 DEF Shaped, Fields
      <4>3. e.dataBev = FALSE /\ e.delayedCtrlCB = "none" /\ Fields \subseteq DOMAIN e
        BY <2>1, <3>1 DEF Shaped
      <4> HIDE DEF n, e
      <4>4. DOMAIN n = DOMAIN e /\ \A x \in Fields : n[x] = e[x]
        BY <4>2, <4>3 DEF Fields
      <4>5. Alike(n, e)
        BY <4>3, <4>4 DEF Alike, Keeps, Fields
      <4>6. QED
        BY <4>1, <4>5 DEF e
    <3>2. CASE g.dataBev /\ ~c.over
      <4> HIDE DEF e
      <4>1. \E d : Alike([e EXCEPT !.dataBev = FALSE, !.delayedCtrlCB = "none"], d)
                   /\ data_close_channel(e, c) = d
        BY <2>1, <3>2, CloseChannel
      <4>2. [e EXCEPT !.dataBev = FALSE, !.delayedCtrlCB = "none"] = n
        BY <1>1, <2>1 DEF Shaped, Fields
      <4> HIDE DEF n
      <4>3. QED
        BY <4>1, <4>2 DEF e
    <3>3. QED
      BY <1>1, <3>1, <3>2 DEF Shaped
  <2>5. /\ Shaped(n) /\ n.state = "S_RETR_XFER" /\ ~n.dataBev /\ n.conn = "up"
        /\ n.pasvAction = "send_retr" /\ Later(n) \in {"none", "S_QUIT_SENT"}
        /\ ~n.retrWaitTimer
    BY <1>1 DEF Shaped, Fields, States, Later
  <2>6. Good(g, n)
    <3>1. Throttled(n) /\ Parting(n)
      BY <1>1 DEF Good, Sound, Throttled, Parting, Owing, Later, Heading, Shaped, Fields
    <3>2. Channelled(n)
      BY <1>1 DEF Good, Sound, Channelled, Reconnects, Later, Heading, Shaped, Fields, SecPhase,
                  Handshakes
    <3>3. LoggingIn(n) /\ Transferring(n)
      BY <1>1 DEF Good, Sound, LoggingIn, Transferring, Later, Shaped, Fields, LoginStates
    <3>4. Walking(n)
      BY <1>1 DEF Good, Sound, Walking, Later, Heading, Ready, Shaped, Fields, DataPhase
    <3>5. QED
      BY <1>1, <2>5, <3>1, <3>2, <3>3, <3>4 DEF Good, Sound, Up, Costs, Owing, Listed, Ready,
                                                Shaped, Fields
  <2> HIDE DEF n, e
  <2>7. ASSUME Alike(n, closed)
        PROVE  Out(g, arm_retr_wait(closed))
    <3> HIDE DEF closed
    <3> DEFINE a == [closed EXCEPT !.retrWaitTimer = TRUE]
    <3>1. /\ Good(g, closed) /\ closed.state = "S_RETR_XFER" /\ ~closed.dataBev
          /\ closed.conn = "up" /\ closed.pasvAction = "send_retr"
          /\ Later(closed) \in {"none", "S_QUIT_SENT"} /\ ~closed.retrWaitTimer
      BY <2>5, <2>6, <2>7, AlikeGood DEF Alike, Keeps, Later
    <3>2. arm_retr_wait(closed) = a
      BY <3>1 DEF arm_retr_wait, then_on, Good, Up
    <3>3. Shaped(a)
      BY <3>1 DEF Good, Shaped, Fields
    <3>4. Throttled(a) /\ Parting(a) /\ Channelled(a)
      BY <3>1 DEF Good, Sound, Throttled, Parting, Channelled, Reconnects, Owing, Later,
                  Heading, Shaped, Fields
    <3>5. LoggingIn(a) /\ Transferring(a) /\ Walking(a)
      BY <3>1 DEF Good, Sound, LoggingIn, Transferring, Walking, Later, Heading, Ready,
                  Shaped, Fields
    <3>6. Good(g, a)
      BY <3>1, <3>3, <3>4, <3>5 DEF Good, Sound, Up, Costs, Owing, Listed, Ready, Shaped, Fields
    <3>7. QED
      BY <3>2, <3>6 DEF Out
  <2>8. ASSUME Gone(g, closed), closed.freed
        PROVE  Crashed(g, arm_retr_wait(closed))
    <3>1. arm_retr_wait(closed) = crash(closed, "use_after_free")
      BY <2>8 DEF arm_retr_wait, then_on, Gone
    <3>2. QED
      BY <2>8, <3>1, Crash DEF Faults
  <2>9. QED
    BY <2>3, <2>4, <2>7, <2>8
<1>6. Out(g, unexpected_reply(g, "FAIL_RETR_OK"))
  <2>1. MayQuit(g)
    BY <1>1 DEF MayQuit, Start, Sound, LoggingIn, LoginStates
  <2>2. QED
    BY <1>1, <2>1, Pleasant DEF Out, unexpected_reply
<1> HIDE DEF closed
<1>7. r.size \in {"FOUND", "EXTRA"} => Out(g, found) \/ (c.over /\ Crashed(g, found))
  BY <1>3, <1>4, <1>5, <1>6 DEF Out
<1>8. read_retr_resp(g, r, c) = parse_first(g, r, found)
  BY DEF read_retr_resp, found, closed, b, f
<1> HIDE DEF found
<1>9. QED
  BY <1>1, <1>7, <1>8, ParseFirst

\* The reply to LIST, and the one that may follow it.
LEMMA ReadList ==
  ASSUME NEW g, Start(g), g.conn = "up", g.state = "S_LIST_SENT", NEW r, Reply(r),
         NEW c, c.over \in BOOLEAN, r.size = "EXTRA" => Ended(c)
  PROVE  Out(g, read_list_resp(g, r, c)) \/ (c.over /\ Crashed(g, read_list_resp(g, r, c)))
<1> DEFINE noted == [g EXCEPT !.listResp = IF @ = 2 THEN @ ELSE @ + 1]
           b == begin_xfer(noted, "S_LIST_XFER")
           e == list_error(noted)
           closed == data_close_channel(e, c)
           found == CASE r.kind = "ok" /\ r.size = "EXTRA" -> list_done_too(b, c)
                      [] r.kind = "ok" /\ r.size = "FOUND" -> b
                      [] OTHER -> list_refused(closed, c)
<1>1. /\ Good(g, g) /\ Shaped(g) /\ ~g.retrWaitTimer /\ g.pasvAction = "send_list"
      /\ g.delayedCtrlCB = "none"
  BY StartGood DEF Start, Sound, Transferring, Walking, Heading, Shaped, Channelled
<1>2. Alike(g, noted)
  BY <1>1 DEF Alike, Keeps, Shaped, Fields
<1> HIDE DEF noted
<1>3. /\ Good(g, noted) /\ noted.state = "S_LIST_SENT" /\ noted.conn = "up"
      /\ noted.pasvAction = "send_list" /\ ~noted.retrWaitTimer
      /\ noted.delayedCtrlCB = "none"
  BY <1>1, <1>2, AlikeGood DEF Alike, Keeps
<1>4. /\ Good(g, e) /\ e.state = "S_LIST_SENT" /\ e.conn = "up"
      /\ e.pasvAction = "send_list" /\ ~e.retrWaitTimer /\ e.delayedCtrlCB = "none"
  BY <1>3, ListError DEF Alike, Keeps
<1>5. \/ Broken(g, b)
      \/ Good(g, b) /\ b.state = "S_LIST_XFER" /\ b.conn = "up" /\ b.pasvAction = "send_list"
  BY <1>3, BeginXfer
<1> HIDE DEF b, e
<1>6. r.size = "EXTRA" => Out(g, list_done_too(b, c))
  <2>1. r.size = "EXTRA" /\ Good(g, b) => Out(g, read_list_done(b, c.more, c))
    BY <1>5, ReadListDone DEF Ended, Left, Broken, Crashed, Faults, Good, Up
  <2>2. QED
    BY <1>5, <2>1, ThenOnXfer DEF list_done_too
<1>7. \/ c.over /\ Gone(g, closed) /\ closed.freed
      \/ /\ Good(g, closed) /\ ~closed.dataBev /\ closed.state = "S_LIST_SENT"
         /\ closed.conn = "up" /\ closed.pasvAction = "send_list" /\ ~closed.retrWaitTimer
  <2>1. CASE e.dataBev /\ c.over
    BY <1>4, <2>1, CloseOverflow DEF Good, Whole
  <2>2. CASE ~e.dataBev
    <3>1. closed = e
      BY <2>2 DEF data_close_channel
    <3>2. QED
      BY <1>4, <2>2, <3>1
  <2>3. CASE e.dataBev /\ ~c.over
    <3> DEFINE n == [e EXCEPT !.dataBev = FALSE, !.delayedCtrlCB = "none"]
    <3>1. Alike(n, closed)
      BY <1>4, <2>3, CloseChannel DEF Good, Up
    <3>2. Good(g, n)
      BY <1>4, Shut
    <3>3. /\ n.state = "S_LIST_SENT" /\ n.conn = "up" /\ n.pasvAction = "send_list"
          /\ ~n.retrWaitTimer /\ ~n.dataBev
      BY <1>4 DEF Good, Shaped, Fields
    <3> HIDE DEF n, closed
    <3>4. QED
      BY <3>1, <3>2, <3>3, AlikeGood DEF Alike, Keeps
  <2>4. QED
    BY <1>4, <2>1, <2>2, <2>3 DEF Good, Shaped
<1> HIDE DEF closed
<1>8. Out(g, list_refused(closed, c)) \/ (c.over /\ Crashed(g, list_refused(closed, c)))
  <2>1. CASE c.over /\ Gone(g, closed) /\ closed.freed
    <3>1. list_refused(closed, c) = crash(closed, "use_after_free")
      BY <2>1 DEF list_refused, then_on, Gone
    <3>2. QED
      BY <2>1, <3>1, Crash DEF Faults
  <2>2. CASE /\ Good(g, closed) /\ ~closed.dataBev /\ closed.state = "S_LIST_SENT"
             /\ closed.conn = "up" /\ closed.pasvAction = "send_list" /\ ~closed.retrWaitTimer
    <3>1. list_refused(closed, c) = list_failed(closed, "FAIL_LIST_IN", c.skip)
      BY <2>2 DEF list_refused, then_on, Good, Up
    <3>2. Open(closed) /\ closed.state \notin Handshakes
      BY <2>2, TransferOpen
    <3>3. QED
      BY <2>2, <3>1, <3>2, ListFailed DEF Left
  <2>3. QED
    BY <1>7, <2>1, <2>2
<1>9. r.size \in {"FOUND", "EXTRA"} => Out(g, found) \/ (c.over /\ Crashed(g, found))
  BY <1>5, <1>6, <1>8 DEF Out
<1>10. read_list_resp(g, r, c) = parse_first(g, r, found)
  BY DEF read_list_resp, found, closed, b, e, noted
<1> HIDE DEF found
<1>11. QED
  BY <1>1, <1>9, <1>10, ParseFirst
====
