--------------------------- MODULE SessionProofs ----------------------------
(***************************************************************************)
(* Theorems about CtrlSession for every set of Surprises, all of them      *)
(* included: whatever a server says, in whatever order, whenever its       *)
(* connections end, and at whatever moment the timers fire.                *)
(*                                                                         *)
(* HandlerProofs shows what each handler keeps.  Here each callback is     *)
(* shown to leave the host in one of four ways (Final), and from that      *)
(* follow the invariant of the session and the theorems behind it.  The    *)
(* last part is about the types of the host.                               *)
(***************************************************************************)
EXTENDS CtrlSession, HandlerProofs

-----------------------------------------------------------------------------
\* USER and PASS.

LoginWaits(g) == (g.state \in LoginStates /\ g.multiRespState # "UNK") \/ g.multiRespTimer

\* A login that was waiting for a second reply waits no more.
LEMMA MultiRespEnd ==
  ASSUME NEW g, Start(g), LoginWaits(g)
  PROVE  LET n == multi_resp_end(g)
         IN /\ Good(g, n) /\ Open(n) /\ MayQuit(n) /\ n.state = g.state
            /\ n.state \in LoginStates /\ n.multiRespState = "UNK"
            /\ n.numReqSent = g.numReqSent /\ n.reqLimitReached = g.reqLimitReached
            /\ Later(n) \in LoginStates \cup {"none"}
<1> DEFINE n == multi_resp_end(g)
           q == [g EXCEPT !.multiRespTimer = FALSE, !.multiRespState = "UNK"]
<1>1. /\ Shaped(g) /\ Sound(g) /\ Good(g, g) /\ g.state \in LoginStates
      /\ g.conn = "up" /\ ~g.resetWaitTimer /\ ~g.retrWaitTimer /\ ~g.dataBev
      /\ Later(g) \in LoginStates \cup {"none"}
  BY StartGood DEF Start, LoginWaits, Sound, LoggingIn, Transferring, LoginStates
<1>2. /\ Shaped(q) /\ Alike(q, n) /\ Open(q) /\ q.state = g.state
      /\ q.numReqSent = g.numReqSent /\ q.reqLimitReached = g.reqLimitReached
      /\ Later(q) = Later(g) /\ q.multiRespState = "UNK"
  BY <1>1 DEF multi_resp_end, Shaped, Fields, Alike, Keeps, Open, Later, LoginStates
<1>3. Sound(q)
  <2>1. Throttled(q) /\ Parting(q) /\ Channelled(q)
    BY <1>1 DEF Sound, Throttled, Parting, Channelled, Reconnects, Owing, Later, Heading,
           Shaped, Fields
  <2>2. LoggingIn(q) /\ Transferring(q) /\ Walking(q)
    BY <1>1 DEF Sound, LoggingIn, Transferring, Walking, Later, Heading, Ready, Shaped, Fields
  <2>3. QED
    BY <2>1, <2>2 DEF Sound
<1>4. Good(g, q)
  BY <1>1, <1>2, <1>3 DEF Good, Up, Costs, Owing, Listed, Ready, Shaped, Fields
<1> HIDE DEF n, q
<1>5. Good(g, n) /\ Open(n)
  BY <1>2, <1>4, AlikeGood
<1>6. QED
  BY <1>1, <1>2, <1>5, OpenMayQuit DEF Alike, Keeps, Later, n

\* The crawl begins, or a SUPER_SHORT one ends.
LEMMA LoggedIn ==
  ASSUME NEW g, NEW k, Start(g), Good(g, k), Open(k), k.state \in LoginStates \cup {"S_QUIT_SENT"}
  PROVE  Left(g, logged_in(k))
<1>1. k.state \notin Handshakes
  BY DEF LoginStates, Handshakes
<1>2. QED
  BY <1>1, HeldPleasant, FetchRobots DEF logged_in, Left, Out

\* Setting the reason for the end brings nothing under way.
LEMMA FailOpen ==
  ASSUME NEW g, NEW k, Good(g, k), Open(k), NEW code, code # "UNSET"
  PROVE  LET n == fail(k, code)
         IN /\ Good(g, n) /\ Open(n) /\ n.state = k.state /\ n.terminationCode = code
            /\ Keeps(k, n) /\ Later(n) = Later(k)
<1>1. Later(fail(k, code)) = Later(k)
  BY DEF fail, Later, Good, Shaped, Fields
<1>2. QED
  BY <1>1, Fail DEF Open, Keeps

\* PASS is asked for.
LEMMA SendPass ==
  ASSUME NEW g, NEW k, Start(g), Good(g, k), Open(k), k.state \in LoginStates,
         Later(k) \in LoginStates \cup {"none"}
  PROVE  Left(g, send_pass(k))
<1> DEFINE n == multi_resp_init(k)
<1>1. n = [k EXCEPT !.multiRespState = "READ_ZERO"] /\ Shaped(k)
  BY DEF multi_resp_init, Good
<1> HIDE DEF n
<1>2. /\ Shaped(n) /\ n.state = k.state /\ n.conn = "up" /\ ~n.multiRespTimer
      /\ ~n.resetWaitTimer /\ ~n.retrWaitTimer /\ ~n.dataBev
  BY <1>1 DEF Shaped, Fields, Open
<1>3. Sound(n)
  BY <1>1 DEF Good, Sound, Throttled, Parting, Channelled, LoggingIn, Walking,
       Transferring, Reconnects, Owing, Later, Heading, Ready, Shaped, Fields, Open
<1>4. Good(g, n)
  BY <1>1, <1>2, <1>3 DEF Good, Up, Costs, Owing, Listed, Ready, Shaped, Fields
<1>5. /\ "PASS" \in Commands /\ "S_PASS_SENT" \in ReplyStates
      /\ ("PASS" = "LIST" <=> "S_PASS_SENT" = "S_LIST_SENT")
  BY DEF Commands, ReplyStates
<1>6. May(n, "S_PASS_SENT")
  BY <1>2 DEF May, LoginStates, SecPhase, Handshakes, DataPhase
<1>7. Good(g, send_pass(k)) /\ send_pass(k).state \in {k.state, "S_PASS_SENT"}
  BY <1>2, <1>4, <1>5, <1>6, Ask DEF send_pass, n
<1>8. QED
  BY <1>7 DEF Left, Out, Held, LoginStates

\* What USER's reply was taken for: only a server that wants TLS first is
\* connected to anew.
LEMMA UserEval ==
  ASSUME NEW g, Start(g), LoginWaits(g), NEW id \in UserIDs \cup UserDoubleIDs
  PROVE  LET m == read_user_resp_eval(g, id)
         IN Left(g, m) \/ (id = "Early_Sec_Req" /\ Anew(g, m) /\ m.state = "S_INITIAL")
<1> DEFINE k == multi_resp_end(g)
           m == read_user_resp_eval(g, id)
<1>1. /\ Good(g, k) /\ Open(k) /\ MayQuit(k) /\ k.state \in LoginStates
      /\ k.numReqSent = g.numReqSent /\ k.reqLimitReached = g.reqLimitReached
      /\ Later(k) \in LoginStates \cup {"none"}
  BY MultiRespEnd
<1>2. k.state \notin Handshakes
  BY <1>1 DEF LoginStates, Handshakes
<1> HIDE DEF k
<1>3. ASSUME NEW code, code # "UNSET"
      PROVE  Left(g, pleasant(k, code)) /\ Left(g, setup_middle(fail(k, code)))
  <2>1. Left(g, pleasant(k, code))
    BY <1>1, <1>2, <1>3, LeftPleasant
  <2>2. Left(g, setup_middle(fail(k, code)))
    BY <1>1, <1>2, <1>3, FailOpen, SetupMiddle DEF Left, Out
  <2>3. QED
    BY <2>1, <2>2
<1>4. CASE id \in {"Virtual_Sites", "Extra", "Unexpected"}
  BY <1>3, <1>4 DEF read_user_resp_eval, unexpected_reply, k
<1>5. CASE id = "TLS"
  <2>1. Good(g, sec_check(k, "send_user"))
        /\ (sec_check(k, "send_user").reqLimitReached => sec_check(k, "send_user").state = k.state)
    BY <1>1, <1>2, SecCheck DEF SecCallbacks
  <2>2. m = sec_check(k, "send_user")
    BY <1>5 DEF read_user_resp_eval, k
  <2>3. QED
    BY <1>2, <2>1, <2>2 DEF Left, Out, Held, Handshakes
<1>6. CASE id \in {"Reject", "Bad_Config"}
  BY <1>3, <1>6 DEF read_user_resp_eval, k
<1>7. CASE id = "No_Pass"
  BY <1>1, <1>7, LoggedIn DEF read_user_resp_eval, k
<1>8. CASE id = "Accept_User"
  BY <1>1, <1>8, SendPass DEF read_user_resp_eval, k
<1>9. CASE id = "Early_Sec_Req"
  <2>1. m = handle_early_sec_req(k)
    BY <1>9 DEF read_user_resp_eval, k
  <2>2. (Anew(g, m) /\ m.state = "S_INITIAL") \/ Over(g, m)
    BY <1>1, <2>1, EarlySecReq
  <2>3. QED
    BY <1>9, <2>2 DEF Left, Out, Over, Gone, Good, Up
<1>10. QED
  BY <1>4, <1>5, <1>6, <1>7, <1>8, <1>9 DEF UserIDs, UserDoubleIDs

\* A refused PASS is waited out.
LEMMA ResetWait ==
  ASSUME NEW g, NEW k, Start(g), Good(g, k), Open(k), k.terminationCode # "UNSET",
         k.state \in LoginStates, Later(k) \in LoginStates \cup {"none"}
  PROVE  Left(g, reset_wait_setup(k))
<1> DEFINE n == [enter(k, "S_RESET_WAIT") EXCEPT !.resetWaitTimer = TRUE]
<1>1. /\ n = [k EXCEPT !.state = "S_RESET_WAIT", !.resetWaitTimer = TRUE] /\ Shaped(k)
      /\ k.multiRespState = "UNK" /\ k.conn = "up" /\ ~k.multiRespTimer
      /\ ~k.retrWaitTimer /\ ~k.dataBev
  BY DEF enter, Good, Open
<1>2. reset_wait_setup(k) = n
  BY DEF reset_wait_setup, Open
<1> HIDE DEF n
<1>3. Shaped(n) /\ n.state = "S_RESET_WAIT"
  BY <1>1 DEF Shaped, Fields, States
<1>4. Throttled(n) /\ Parting(n)
  BY <1>1 DEF Good, Sound, Throttled, Parting, Owing, Later, Heading, Shaped, Fields
<1>5. Channelled(n)
  BY <1>1 DEF Good, Sound, Channelled, Reconnects, Later, Heading, Shaped, Fields, SecPhase,
              Handshakes
<1>6. LoggingIn(n) /\ Transferring(n)
  BY <1>1 DEF Good, Sound, LoggingIn, Transferring, Later, Shaped, Fields, LoginStates
<1>7. Walking(n)
  BY <1>1 DEF Good, Sound, Walking, Later, Heading, Ready, Shaped, Fields, DataPhase, LoginStates
<1>8. Good(g, n)
  BY <1>1, <1>3, <1>4, <1>5, <1>6, <1>7
  DEF Good, Sound, Up, Costs, Owing, Listed, Ready, Shaped, Fields
<1>9. QED
  BY <1>2, <1>3, <1>8 DEF Left, Out, Held

\* What PASS's reply was taken for.
LEMMA PassEval ==
  ASSUME NEW g, Start(g), LoginWaits(g), NEW id \in PassIDs \cup PassDoubleIDs
  PROVE  Left(g, read_pass_resp_eval(g, id))
<1> DEFINE k == multi_resp_end(g)
           m == read_pass_resp_eval(g, id)
<1>1. /\ Good(g, k) /\ Open(k) /\ MayQuit(k) /\ k.state \in LoginStates
      /\ Later(k) \in LoginStates \cup {"none"}
  BY MultiRespEnd
<1>2. k.state \notin Handshakes
  BY <1>1 DEF LoginStates, Handshakes
<1> HIDE DEF k
<1>3. ASSUME NEW code, code # "UNSET"
      PROVE  Left(g, pleasant(k, code)) /\ Left(g, abrupt(k, code))
  <2>1. Left(g, pleasant(k, code))
    BY <1>1, <1>2, <1>3, LeftPleasant
  <2>2. Left(g, abrupt(k, code))
    BY <1>1, <1>3, Abrupt DEF Left, Out, Over, Gone, Good, Up
  <2>3. QED
    BY <2>1, <2>2
<1>4. CASE id \in {"Firewall", "Extra", "Unexpected"}
  BY <1>3, <1>4 DEF read_pass_resp_eval, unexpected_reply, k
<1>5. CASE id \in {"Bftpd_Crash", "Child_Died", "No_Entry"}
  BY <1>3, <1>5 DEF read_pass_resp_eval, k
<1>6. CASE id = "Reject"
  <2> DEFINE n == fail(k, "FAIL_PASS_REJECTED")
  <2>1. /\ Good(g, n) /\ Open(n) /\ n.state = k.state /\ n.terminationCode # "UNSET"
        /\ Later(n) = Later(k)
    BY <1>1, FailOpen
  <2> HIDE DEF n
  <2>2. Left(g, reset_wait_setup(n))
    BY <1>1, <2>1, ResetWait
  <2>3. QED
    BY <1>6, <2>2 DEF read_pass_resp_eval, n, k
<1>7. CASE id = "OK"
  <2> DEFINE n == IF k.secProbe THEN pleasant(k, "SUCCESS_EXIT") ELSE k
  <2>1. Good(g, n) /\ Open(n) /\ n.state \in LoginStates \cup {"S_QUIT_SENT"}
    BY <1>1, Pleasant
  <2> HIDE DEF n
  <2>2. Left(g, logged_in(n))
    BY <2>1, LoggedIn
  <2>3. QED
    BY <1>7, <2>2 DEF read_pass_resp_eval, n, k
<1>8. QED
  BY <1>4, <1>5, <1>6, <1>7 DEF PassIDs, PassDoubleIDs

\* The timer for a second reply is armed, and none was.
LEMMA MultiRespSetup ==
  ASSUME NEW g, Start(g), g.state \in LoginStates, g.multiRespState = "READ_ZERO", NEW eval
  PROVE  Out(g, multi_resp_setup(g, eval))
<1> DEFINE q == [g EXCEPT !.multiRespTimer = TRUE, !.multiRespState = "READ_ONE"]
           n == [g EXCEPT !.multiRespTimer = TRUE, !.multiRespState = "READ_ONE",
                          !.multiRespEval = eval]
<1>1. /\ Shaped(g) /\ Sound(g) /\ Good(g, g) /\ g.conn = "up" /\ ~g.resetWaitTimer
      /\ ~g.multiRespTimer /\ Later(g) \in LoginStates \cup {"none"}
  BY StartGood DEF Start, Sound, LoggingIn
<1>2. Shaped(q) /\ Alike(q, n)
  BY <1>1 DEF Shaped, Fields, Alike, Keeps
<1>3. Sound(q)
  <2>1. Throttled(q) /\ Parting(q) /\ Channelled(q)
    BY <1>1 DEF Sound, Throttled, Parting, Channelled, Reconnects, Owing, Later, Heading,
           Shaped, Fields
  <2>2. LoggingIn(q) /\ Transferring(q) /\ Walking(q)
    BY <1>1 DEF Sound, LoggingIn, Transferring, Walking, Later, Heading, Ready, Shaped, Fields
  <2>3. QED
    BY <2>1, <2>2 DEF Sound
<1>4. Good(g, q)
  BY <1>1, <1>2, <1>3 DEF Good, Up, Costs, Owing, Listed, Ready, Shaped, Fields
<1> HIDE DEF n, q
<1>5. Good(g, n)
  BY <1>2, <1>4, AlikeGood
<1>6. QED
  BY <1>1, <1>5 DEF multi_resp_setup, Out, n

\* The reply ids that a read of USER's or PASS's reply can come to.
Identified(g, r, id) ==
  g.multiRespState = "READ_ONE" \/ r.size = "EXTRA" =>
    id \in (IF g.state = "S_USER_SENT" THEN UserDoubleIDs ELSE PassDoubleIDs)

\* The reply to USER.
LEMMA ReadUser ==
  ASSUME NEW g, Start(g), g.state = "S_USER_SENT", NEW r, Reply(r), NEW id,
         Identified(g, r, id)
  PROVE  Out(g, read_user_resp(g, r, id))
<1>1. Good(g, g) /\ g.multiRespState \in {"UNK", "READ_ZERO", "READ_ONE"}
  BY StartGood DEF Good, Shaped
<1>2. id \in UserDoubleIDs /\ g.multiRespState # "UNK" => Out(g, read_user_resp_eval(g, id))
  BY UserEval DEF Left, LoginWaits, LoginStates, UserDoubleIDs
<1>3. CASE g.multiRespState = "READ_ONE"
  BY <1>2, <1>3 DEF read_user_resp, Identified
<1>4. CASE g.multiRespState = "UNK"
  BY <1>1, <1>4, Crash DEF read_user_resp, Out, Broken, Faults
<1>5. CASE g.multiRespState = "READ_ZERO"
  <2>1. Out(g, multi_resp_setup(g, "user"))
    BY <1>5, MultiRespSetup DEF LoginStates
  <2>2. r.size = "EXTRA" => Out(g, read_user_resp_eval(g, id))
    BY <1>2, <1>5 DEF Identified
  <2>3. QED
    BY <1>1, <1>5, <2>1, <2>2, ParseResponse DEF read_user_resp
<1>6. QED
  BY <1>1, <1>3, <1>4, <1>5

\* The reply to PASS.
LEMMA ReadPass ==
  ASSUME NEW g, Start(g), g.state = "S_PASS_SENT", NEW r, Reply(r), NEW id,
         Identified(g, r, id)
  PROVE  Out(g, read_pass_resp(g, r, id))
<1>1. Good(g, g) /\ g.multiRespState \in {"UNK", "READ_ZERO", "READ_ONE"}
  BY StartGood DEF Good, Shaped
<1>2. id \in PassDoubleIDs /\ g.multiRespState # "UNK" => Out(g, read_pass_resp_eval(g, id))
  BY PassEval DEF Left, LoginWaits, LoginStates
<1>3. CASE g.multiRespState = "READ_ONE"
  BY <1>2, <1>3 DEF read_pass_resp, Identified
<1>4. CASE g.multiRespState = "UNK"
  BY <1>1, <1>4, Crash DEF read_pass_resp, Out, Broken, Faults
<1>5. CASE g.multiRespState = "READ_ZERO"
  <2>1. Out(g, multi_resp_setup(g, "pass"))
    BY <1>5, MultiRespSetup DEF LoginStates
  <2>2. r.size = "EXTRA" => Out(g, read_pass_resp_eval(g, id))
    BY <1>2, <1>5 DEF Identified
  <2>3. QED
    BY <1>1, <1>5, <2>1, <2>2, ParseResponse DEF read_pass_resp
<1>6. QED
  BY <1>1, <1>3, <1>4, <1>5

-----------------------------------------------------------------------------
\* The end of a crawl.

\* QUIT where TLS is in use, the probe of TLS where it is not.
LEMMA Ending ==
  ASSUME NEW g, NEW k, Start(g), Good(g, k), Open(k), k.state \notin Handshakes
  PROVE  Out(g, ending(k))
BY Pleasant, OpenMayQuit, SetupEnding DEF ending, Out

\* The reply to PORT.
LEMMA ReadPort ==
  ASSUME NEW g, Start(g), g.conn = "up", g.state = "S_PORT_SENT", NEW r, Reply(r),
         r.size = "FOUND" => r.kind \in {"ok", "no", "odd"}
  PROVE  Out(g, read_port_resp(g, r))
<1> DEFINE a == ask(g, "S_PORT_LIST_SENT", "PORT_LIST")
           found == CASE r.kind = "no" -> ending(g)
                      [] r.kind = "ok" -> send_port_list(g)
                      [] r.kind = "odd" -> unexpected_reply(g, "FAIL_UNK_BOUNCE_RESP")
<1>1. Good(g, g) /\ Open(g) /\ MayQuit(g) /\ g.state \notin Handshakes
  BY StartGood, PlainOpen DEF Plain, States, ReplyStates, LoginStates, Handshakes
<1>2. Out(g, ending(g))
  BY <1>1, Ending
<1>3. Out(g, send_port_list(g))
  <2>1. "PORT_LIST" \in Commands \ {"LIST"}
        /\ "S_PORT_LIST_SENT" \in ReplyStates \ {"S_RETR_SENT", "S_LIST_SENT", "S_QUIT_SENT"}
        /\ "S_PORT_LIST_SENT" \notin SecPhase \cup DataPhase
    BY DEF Commands, ReplyStates, SecPhase, Handshakes, DataPhase
  <2>2. Good(g, a)
    BY <1>1, <2>1, OpenAsk
  <2> HIDE DEF a
  <2>3. Alike(a, [a EXCEPT !.xferType = "XFER_LIST"])
    BY <2>2 DEF Good, Shaped, Fields, Alike, Keeps
  <2>4. Good(g, [a EXCEPT !.xferType = "XFER_LIST"])
    BY <2>2, <2>3, AlikeGood
  <2>5. QED
    BY <2>4 DEF send_port_list, Out, a
<1>4. Out(g, unexpected_reply(g, "FAIL_UNK_BOUNCE_RESP"))
  BY <1>1, Pleasant DEF Out, unexpected_reply
<1>5. r.size = "FOUND" => Out(g, found)
  BY <1>2, <1>3, <1>4
<1> HIDE DEF found
<1>6. QED
  BY <1>1, <1>5, Single DEF read_port_resp, found

\* The reply after the listing that PORT sent elsewhere.
LEMMA ReadPortListDone ==
  ASSUME NEW g, NEW k, Start(g), Good(g, k), k.conn = "up", k.state = "S_PORT_LIST_XFER",
         NEW r, Reply(r)
  PROVE  Out(g, read_port_list_done(k, r))
<1>1. Open(k) /\ MayQuit(k) /\ k.state \notin Handshakes
  BY PlainOpen DEF Plain, States, LoginStates, Handshakes
<1>2. QED
  BY <1>1, Ending, Single DEF read_port_list_done

\* The reply to that LIST.
LEMMA ReadPortList ==
  ASSUME NEW g, Start(g), g.conn = "up", g.state = "S_PORT_LIST_SENT", NEW r, Reply(r),
         NEW more, Reply(more)
  PROVE  Out(g, read_port_list_resp(g, r, more))
<1> DEFINE x == enter(g, "S_PORT_LIST_XFER")
           found == CASE r.kind # "ok" -> unexpected_reply(g, "FAIL_BAD_PORT_LIST_RESP")
                      [] r.kind = "ok" /\ r.size = "EXTRA" -> read_port_list_done(x, more)
                      [] r.kind = "ok" /\ r.size # "EXTRA" -> x
<1>1. Good(g, g) /\ Open(g) /\ MayQuit(g) /\ Shaped(g)
  BY StartGood, PlainOpen DEF Plain, States, ReplyStates, LoginStates, Start
<1>2. /\ x = [g EXCEPT !.state = "S_PORT_LIST_XFER"] /\ Shaped(x)
      /\ x.state = "S_PORT_LIST_XFER" /\ x.conn = "up"
  BY <1>1 DEF enter, Shaped, Fields, States
<1> HIDE DEF x
<1>3. Throttled(x) /\ Parting(x)
  BY <1>1, <1>2 DEF Good, Sound, Throttled, Parting, Owing, Later, Heading, Shaped, Fields
<1>4. Channelled(x)
  BY <1>1, <1>2 DEF Good, Sound, Channelled, Reconnects, Later, Heading, Shaped, Fields,
              SecPhase, Handshakes
<1>5. LoggingIn(x) /\ Transferring(x)
  BY <1>1, <1>2 DEF Good, Sound, LoggingIn, Transferring, Later, Shaped, Fields, LoginStates
<1>6. Walking(x)
  BY <1>1, <1>2 DEF Good, Sound, Walking, Later, Heading, Ready, Shaped, Fields, DataPhase
<1>7. Good(g, x)
  BY <1>1, <1>2, <1>3, <1>4, <1>5, <1>6
  DEF Good, Sound, Up, Costs, Owing, Listed, Ready, Shaped, Fields
<1>8. Out(g, read_port_list_done(x, more))
  BY <1>2, <1>7, ReadPortListDone
<1>9. Out(g, unexpected_reply(g, "FAIL_BAD_PORT_LIST_RESP"))
  BY <1>1, Pleasant DEF Out, unexpected_reply
<1>10. Out(g, found)
  BY <1>7, <1>8, <1>9 DEF Out
<1>11. read_port_list_resp(g, r, more) = parse_first(g, r, found)
  BY DEF read_port_list_resp, found, x
<1> HIDE DEF found
<1>12. QED
  BY <1>1, <1>10, <1>11, ParseFirst

\* The reply to QUIT ends the host.
LEMMA ReadQuit ==
  ASSUME NEW g, Start(g), g.conn = "up", g.state = "S_QUIT_SENT", NEW r, Reply(r)
  PROVE  Out(g, read_quit_resp(g, r))
<1> DEFINE q == [enter(g, "S_QUIT_ACK") EXCEPT !.result = "PLEASANT"]
<1>1. /\ Good(g, g) /\ MayQuit(g) /\ g.lastState # "S_UNSET_STATE"
      /\ g.terminationCode # "UNSET"
  BY StartGood DEF Start, Sound, Parting, Heading, LoggingIn, MayQuit, LoginStates
<1>2. /\ q = [g EXCEPT !.state = "S_QUIT_ACK", !.result = "PLEASANT"]
      /\ Shaped(q) /\ q.lastState = g.lastState /\ q.terminationCode = g.terminationCode
      /\ q.result = "PLEASANT" /\ q.connects = g.connects
  BY <1>1 DEF enter, Good, Shaped, Fields, States
<1> HIDE DEF q
<1>3. Costs(g, q) /\ Up(q)
  BY <1>1, <1>2 DEF Good, Up, Costs, Owing, Listed, Ready, Shaped, Fields
<1>4. Over(g, end_channel_now(q))
  BY <1>1, <1>2, <1>3, EndNow DEF Results
<1>5. Over(g, disconnect_abrupt(g))
  BY <1>1, Disconnected DEF disconnect_abrupt, Good, Whole
<1>6. QED
  BY <1>1, <1>4, <1>5, Single DEF read_quit_resp, Out, q

-----------------------------------------------------------------------------
\* A reply that is read.

\* What the read callback can be given in state g.state.
Heard(g, c) ==
  /\ Reply(c.r) /\ Reply(c.more) /\ c.over \in BOOLEAN
  /\ g.state # "S_CONNECTED" => Ended(c)
  /\ g.state \in {"S_PASV_SENT", "S_RETR_XFER", "S_PORT_SENT"} /\ c.r.size = "FOUND"
       => c.r.kind \in {"ok", "no", "odd"}
  /\ g.state = "S_RETR_SENT" /\ c.r.size \in {"FOUND", "EXTRA"}
       => c.r.kind \in {"ok", "no", "odd"}
  /\ g.state \in LoginStates => Identified(g, c.r, c.id)

\* The replies to HELP, FEAT, STAT and SITE only lead to the next request.
LEMMA ReadAsk ==
  ASSUME NEW g, Start(g), g.conn = "up", NEW r, Reply(r),
         g.state \in {"S_HELP_SENT", "S_FEAT_SENT", "S_STAT_SENT", "S_SITE_SENT"}
  PROVE  /\ Out(g, single(g, r, send_feat(g))) /\ Out(g, single(g, r, send_stat(g)))
         /\ Out(g, single(g, r, send_site(g))) /\ Out(g, single(g, r, send_port(g)))
<1>1. /\ Good(g, g) /\ Open(g) /\ MayQuit(g) /\ g.state \notin Handshakes
  BY StartGood, PlainOpen DEF Plain, States, ReplyStates, LoginStates, Handshakes
<1>2. ASSUME NEW next \in {"S_FEAT_SENT", "S_STAT_SENT", "S_SITE_SENT", "S_PORT_SENT"},
             NEW req \in {"FEAT", "STAT", "SITE", "PORT"}
      PROVE  Out(g, single(g, r, ask(g, next, req)))
  <2>1. req \in Commands \ {"LIST"}
    BY <1>2 DEF Commands
  <2>2. /\ next \in ReplyStates \ {"S_RETR_SENT", "S_LIST_SENT", "S_QUIT_SENT"}
        /\ next \notin SecPhase /\ next \notin DataPhase
    BY <1>2 DEF ReplyStates, SecPhase, Handshakes, DataPhase
  <2>3. Out(g, ask(g, next, req))
    BY <1>1, <2>1, <2>2, OpenAsk DEF Out, DataPhase
  <2>4. QED
    BY <1>1, <2>3, Single
<1>3. QED
  BY <1>2 DEF send_feat, send_stat, send_site, send_port

\* Whatever the state, its handler goes on, ends the host, crashes the program, or,
\* where AUTH TLS was sent, connects anew; only where there was too much data can
\* the crash be over a host that was freed.
LEMMA ReadHandler ==
  ASSUME NEW g, Start(g), g.conn = "up", g.state # "S_DATA_CONN", NEW c, Heard(g, c)
  PROVE  \/ Out(g, read_handler(g, c))
         \/ g.state = "S_AUTH_TLS_SENT" /\ Anew(g, read_handler(g, c))
         \/ c.over /\ Crashed(g, read_handler(g, c))
<1>1. Good(g, g) /\ g.state \in States \ {"S_INITIAL", "S_DATA_CONN", "S_QUIT_ACK"}
  BY StartGood DEF Good, Shaped, Sound, Channelled
<1>2. Reply(c.r) /\ Reply(c.more) /\ c.over \in BOOLEAN
  BY DEF Heard
<1>3. CASE g.state = "S_CONNECTED"
  BY <1>1, <1>2, <1>3, ReadBanner DEF read_handler
<1>4. CASE g.state = "S_USER_SENT"
  BY <1>2, <1>4, ReadUser DEF read_handler, Heard, LoginStates
<1>5. CASE g.state = "S_PASS_SENT"
  BY <1>2, <1>5, ReadPass DEF read_handler, Heard, LoginStates
<1>6. CASE g.state = "S_SYST_SENT"
  BY <1>2, <1>6, ReadSyst DEF read_handler
<1>7. CASE g.state = "S_PWD_SENT"
  BY <1>2, <1>7, ReadPwd DEF read_handler
<1>8. CASE g.state = "S_PASV_SENT"
  BY <1>2, <1>8, ReadPasv DEF read_handler, Heard
<1>9. CASE g.state = "S_RETR_SENT"
  BY <1>2, <1>9, ReadRetr DEF read_handler, Heard
<1>10. CASE g.state = "S_RETR_XFER"
  <2>1. g.pasvAction = "send_retr"
    BY <1>1, <1>10 DEF Good, Sound, Walking, Heading
  <2>2. c.r.size = "FOUND" => c.r.kind \in {"ok", "no", "odd"}
    BY <1>10 DEF Heard
  <2>3. Out(g, read_retr_done(g, c.r, c))
    BY <1>1, <1>2, <1>10, <2>1, <2>2, ReadRetrDone DEF Left
  <2>4. QED
    BY <1>10, <2>3 DEF read_handler
<1>11. CASE g.state = "S_LIST_SENT"
  BY <1>2, <1>11, ReadList DEF read_handler, Heard
<1>12. CASE g.state = "S_LIST_XFER"
  <2>1. g.pasvAction = "send_list"
    BY <1>1, <1>12 DEF Good, Sound, Walking, Heading
  <2>2. Out(g, read_list_done(g, c.r, c))
    BY <1>1, <1>2, <1>12, <2>1, ReadListDone DEF Left
  <2>3. QED
    BY <1>12, <2>2 DEF read_handler
<1>13. CASE g.state \in {"S_HELP_SENT", "S_FEAT_SENT", "S_STAT_SENT", "S_SITE_SENT"}
  BY <1>2, <1>13, ReadAsk DEF read_handler
<1>14. CASE g.state = "S_PORT_SENT"
  BY <1>2, <1>14, ReadPort DEF read_handler, Heard
<1>15. CASE g.state = "S_PORT_LIST_SENT"
  BY <1>2, <1>15, ReadPortList DEF read_handler
<1>16. CASE g.state = "S_PORT_LIST_XFER"
  BY <1>1, <1>2, <1>16, ReadPortListDone DEF read_handler
<1>17. CASE g.state = "S_AUTH_TLS_SENT"
  BY <1>2, <1>17, ReadAuthTls DEF read_handler
<1>18. CASE g.state = "S_AUTH_SSL_SENT"
  BY <1>2, <1>18, ReadAuthSsl DEF read_handler
<1>19. CASE g.state = "S_SECURITY_CONNECTING"
  BY <1>1, <1>19, Abrupt DEF read_handler, Out
<1>20. CASE g.state = "S_PBSZ_INIT_SENT"
  BY <1>2, <1>20, ReadPbsz DEF read_handler
<1>21. CASE g.state = "S_PROT_SENT"
  BY <1>2, <1>21, ReadProt DEF read_handler
<1>22. CASE g.state = "S_QUIT_SENT"
  BY <1>2, <1>22, ReadQuit DEF read_handler
<1>23. CASE g.state = "S_RESET_WAIT"
  BY <1>1, <1>23 DEF read_handler, Out
<1>24. QED
  BY <1>1, <1>3, <1>4, <1>5, <1>6, <1>7, <1>8, <1>9, <1>10, <1>11, <1>12, <1>13, <1>14,
     <1>15, <1>16, <1>17, <1>18, <1>19, <1>20, <1>21, <1>22, <1>23 DEF States, ReplyStates

-----------------------------------------------------------------------------
\* What follows a handler in its callback: the limit ends the host, and a host
\* that has ended is freed.

\* The ways a callback that began with record g can leave the host.
Final(g, k) ==
  \/ Good(g, k) /\ Held(k)
  \/ Gone(g, k)
  \/ Anew(g, k) /\ Held(k)
  \/ Crashed(g, k)

\* A callback that goes over no host that was freed.
Sane(g, k) == Final(g, k) /\ k.fault # "use_after_free"

\* A callback that looks for a host that has ended.
Closed(g, k) ==
  /\ Final(g, k)
  /\ k.hostIsFinished => k.freed \/ k.fault # "none"

Tidy(g, k) == Closed(g, k) /\ k.fault # "use_after_free"

\* The handlers leave a host so, but for too much data.
LEMMA LeftSane ==
  ASSUME NEW g, NEW k, Left(g, k) \/ Over(g, k) \/ (Anew(g, k) /\ Held(k))
  PROVE  Sane(g, k)
BY DEF Sane, Final, Left, Out, Over, Gone, Broken, Good, Anew, Up

\* A finished host is freed; one that is freed already crashes the program.
LEMMA EventHandled ==
  ASSUME NEW g, Start(g), NEW k, Final(g, k)
  PROVE  /\ Closed(g, event_handled(k)) /\ Closed(g, free_if_finished(k))
         /\ Sane(g, k) => Tidy(g, free_if_finished(k))
         /\ Sane(g, k) /\ ~k.freed => Tidy(g, event_handled(k))
<1> DEFINE m == free_if_finished(k)
<1>1. k.hostIsFinished \in BOOLEAN /\ k.freed \in BOOLEAN
  BY DEF Final, Good, Gone, Anew, Crashed, Shaped
<1>2. CASE Crashed(g, k)
  <2>1. k.fault # "none" /\ event_handled(k) = k
    BY <1>2 DEF Crashed, Faults, event_handled, then_on
  <2>2. Crashed(g, m) /\ m.fault = k.fault
    BY <1>2, FreeIfFinished
  <2> HIDE DEF m
  <2>3. QED
    BY <1>2, <2>1, <2>2 DEF Closed, Tidy, Sane, Final, m
<1>3. CASE Gone(g, k)
  <2>1. k.fault = "none" /\ k.hostIsFinished
    BY <1>3 DEF Gone
  <2>2. Gone(g, m) /\ m.fault = k.fault /\ (m.hostIsFinished => m.freed)
    BY <1>3, FreeIfFinished
  <2>3. Closed(g, m) /\ m.fault = "none"
    BY <2>1, <2>2 DEF Closed, Final
  <2>4. CASE k.freed
    <3>1. event_handled(k) = crash(k, "use_after_free")
      BY <2>1, <2>4 DEF event_handled, then_on
    <3>2. /\ Crashed(g, crash(k, "use_after_free"))
          /\ crash(k, "use_after_free").fault = "use_after_free"
      BY <1>3, Crash DEF Faults
    <3>3. QED
      BY <2>3, <2>4, <3>1, <3>2 DEF Closed, Tidy, Final
  <2>5. CASE ~k.freed
    <3>1. event_handled(k) = m
      BY <2>1, <2>5 DEF event_handled, then_on
    <3>2. QED
      BY <2>3, <3>1 DEF Tidy
  <2>6. QED
    BY <2>4, <2>5
<1>4. CASE (Good(g, k) /\ Held(k)) \/ (Anew(g, k) /\ Held(k))
  <2>1. Up(k)
    BY <1>4 DEF Good, Anew
  <2>2. event_handled(k) = k /\ m = k
    BY <2>1 DEF event_handled, free_if_finished, then_on, Up
  <2>3. QED
    BY <2>1, <2>2 DEF Closed, Tidy, Sane, Up
<1>5. QED
  BY <1>2, <1>3, <1>4 DEF Final

\* The limit ends the host once the handler is through.
LEMMA Handled ==
  ASSUME NEW g, Start(g), NEW k,
         Out(g, k) \/ (Anew(g, k) /\ ~k.reqLimitReached) \/ Crashed(g, k)
  PROVE  /\ Closed(g, handled(k))
         /\ k.fault # "use_after_free" => Tidy(g, handled(k))
<1> DEFINE limited == k.reqLimitReached /\ ~k.hostIsFinished
           m == IF limited THEN disconnect_abrupt(k) ELSE k
<1>1. handled(k) = then_on(k, free_if_finished(m))
  BY DEF handled
<1>2. CASE Crashed(g, k)
  <2>1. k.fault # "none"
    BY <1>2 DEF Crashed, Faults
  <2>2. handled(k) = k
    BY <1>1, <2>1 DEF then_on
  <2>3. QED
    BY <1>2, <2>1, <2>2 DEF Closed, Tidy, Final
<1>3. CASE Over(g, k)
  <2>1. k.hostIsFinished /\ m = k /\ ~k.freed /\ Sane(g, k)
    BY <1>3, LeftSane DEF Over, Gone
  <2>2. handled(k) = event_handled(k)
    BY <1>1, <2>1 DEF event_handled
  <2>3. QED
    BY <2>1, <2>2, EventHandled DEF Sane
<1>4. CASE Good(g, k) /\ k.reqLimitReached
  <2>1. Up(k) /\ Whole(g, k) /\ k.terminationCode # "UNSET"
    BY <1>4 DEF Good, Whole, Sound, Parting
  <2>2. m = disconnect_abrupt(k)
    BY <1>4, <2>1 DEF Up
  <2> HIDE DEF m
  <2>3. Over(g, m)
    BY <2>1, <2>2, Disconnected DEF disconnect_abrupt
  <2>4. Tidy(g, free_if_finished(m))
    BY <2>3, LeftSane, EventHandled DEF Sane
  <2>5. QED
    BY <1>1, <2>1, <2>4 DEF then_on, Up, Tidy
<1>5. CASE (Good(g, k) \/ Anew(g, k)) /\ ~k.reqLimitReached
  <2>1. Up(k) /\ m = k
    BY <1>5 DEF Good, Anew
  <2>2. handled(k) = k
    BY <1>1, <2>1 DEF then_on, Up, free_if_finished
  <2>3. QED
    BY <1>5, <2>1, <2>2 DEF Closed, Tidy, Final, Held, Up
<1>6. QED
  <2>1. Good(g, k) => k.reqLimitReached \in BOOLEAN
    BY DEF Good, Shaped
  <2>2. QED
    BY <1>2, <1>3, <1>4, <1>5, <2>1 DEF Out, Broken

-----------------------------------------------------------------------------
\* The callbacks of the control channel.

\* ctrl_read_cb with a reply.
LEMMA ReadCallback ==
  ASSUME NEW g, Start(g), Held(g), g.conn = "up", NEW c, Heard(g, c)
  PROVE  /\ Final(g, ctrl_read_cb(g, c))
         /\ g.state # "S_DATA_CONN" => Closed(g, ctrl_read_cb(g, c))
         /\ ctrl_read_cb(g, c).fault = "use_after_free" => c.over
<1>1. Good(g, g) /\ g.state # "S_INITIAL"
  BY StartGood DEF Good, Sound, Channelled
<1>2. CASE g.state = "S_DATA_CONN"
  <2>1. Over(g, ctrl_read_cb(g, c))
    BY <1>1, <1>2, Abrupt DEF ctrl_read_cb
  <2>2. QED
    BY <1>2, <2>1, LeftSane DEF Sane
<1>3. CASE g.state # "S_DATA_CONN"
  <2> DEFINE k == read_handler(g, c)
  <2>1. ctrl_read_cb(g, c) = handled(k)
    BY <1>1, <1>3 DEF ctrl_read_cb
  <2>2. Out(g, k) \/ (g.state = "S_AUTH_TLS_SENT" /\ Anew(g, k)) \/ (c.over /\ Crashed(g, k))
    BY <1>3, ReadHandler
  <2> HIDE DEF k
  <2>3. Anew(g, k) /\ g.state = "S_AUTH_TLS_SENT" => ~k.reqLimitReached
    BY DEF Anew, Held
  <2>4. k.fault = "use_after_free" => c.over
    BY <2>2 DEF Out, Good, Over, Gone, Broken, Anew, Up
  <2>5. QED
    BY <2>1, <2>2, <2>3, <2>4, Handled DEF Closed, Tidy
<1>4. QED
  BY <1>2, <1>3

\* What a step costs and leads to is told from these.
Same(k, g) ==
  /\ g.conn = k.conn /\ g.state = k.state /\ g.connects = k.connects
  /\ g.result = k.result /\ g.numReqSent = k.numReqSent
  /\ g.savedReqTimer = k.savedReqTimer

\* The record of a connection whose banner has come before it is known to stand.
Early(g) == [g EXCEPT !.delayedCtrlCB = "ctrl_read_cb"]

\* ctrl_read_cb before the connection is known to stand.
LEMMA ReadInitial ==
  ASSUME NEW g, Start(g), g.conn = "connecting", g.state = "S_INITIAL",
         g.delayedCtrlCB # "ctrl_read_cb"
  PROVE  /\ Start(Early(g)) /\ Same(g, Early(g))
         /\ Tidy(Early(g), handled(read_initial(g)))
<1> DEFINE k == Early(g)
<1>1. Good(g, g) /\ Shaped(g) /\ g.sent = <<>>
  BY StartGood DEF Start
<1>2. k = [g EXCEPT !.delayedCtrlCB = "ctrl_read_cb"]
  BY DEF Early
<1> HIDE DEF k
<1>3. Shaped(k)
  <2>1. /\ DOMAIN k = DOMAIN g /\ k.delayedCtrlCB = "ctrl_read_cb"
        /\ k.state = g.state /\ k.sent = g.sent /\ k.numReqSent = g.numReqSent
        /\ k.connects = g.connects /\ k.savedReq = g.savedReq
        /\ k.savedNextState = g.savedNextState /\ k.conn = g.conn
        /\ k.secType = g.secType /\ k.postSecConnectCB = g.postSecConnectCB
        /\ k.multiRespState = g.multiRespState /\ k.pasvAction = g.pasvAction
    BY <1>1, <1>2 DEF Shaped, Fields
  <2>2. {k.hostIsFinished, k.freed, k.ctrlUsingSec, k.earlySecReq, k.savedReqTimer,
         k.reqLimitReached, k.multiRespTimer, k.resetWaitTimer, k.retrWaitTimer,
         k.dataBev, k.dataUsingSec, k.robotObj} \subseteq BOOLEAN
    BY <1>1, <1>2 DEF Shaped, Fields
  <2>3. QED
    BY <1>1, <2>1, <2>2 DEF Shaped
<1>4. g.delayedCtrlCB = "none"
  BY <1>1 DEF Good, Shaped, Sound, Transferring
<1>5. Throttled(k) /\ Parting(k) /\ Channelled(k)
  BY <1>1, <1>2 DEF Good, Sound, Throttled, Parting, Channelled, Reconnects, Owing, Later,
                    Heading, Shaped, Fields
<1>6. LoggingIn(k) /\ Transferring(k) /\ Walking(k)
  BY <1>1, <1>2, <1>4 DEF Good, Sound, LoggingIn, Transferring, Walking, Later, Heading,
                          Ready, Shaped, Fields
<1>7. Start(k)
  BY <1>1, <1>2, <1>3, <1>5, <1>6 DEF Good, Start, Sound, Up, Shaped, Fields
<1>8. read_initial(g) = k
  BY <1>2, <1>4 DEF read_initial
<1>9. Good(k, k)
  BY <1>7, StartGood
<1>10. k.fault # "use_after_free"
  BY <1>7 DEF Start, Up
<1>11. Tidy(k, handled(k))
  BY <1>7, <1>9, <1>10, Handled DEF Out
<1>12. Same(g, k)
  BY <1>1, <1>2 DEF Good, Shaped, Fields, Same
<1>13. QED
  BY <1>7, <1>8, <1>11, <1>12 DEF k

\* The connection stands, with nothing of an earlier one but a delayed request.
LEMMA Connected ==
  ASSUME NEW g, Start(g), g.conn = "connecting", g.state = "S_INITIAL",
         NEW c, Reply(c.r), Reply(c.more)
  PROVE  /\ Closed(g, ctrl_event_init_connected(g, c))
         /\ g.delayedCtrlCB # "ctrl_read_cb" => Tidy(g, ctrl_event_init_connected(g, c))
<1> DEFINE k == [enter(g, "S_CONNECTED") EXCEPT !.conn = "up", !.delayedCtrlCB = "none"]
<1>1. Good(g, g) /\ Shaped(g)
  BY StartGood DEF Start
<1>2. /\ k = [g EXCEPT !.state = "S_CONNECTED", !.conn = "up", !.delayedCtrlCB = "none"]
      /\ Shaped(k) /\ k.conn = "up" /\ k.state = "S_CONNECTED"
  BY <1>1 DEF Shaped, Fields, enter, States
<1>3. g.delayedCtrlCB \in {"none", "ctrl_read_cb"} /\ ~g.dataBev
  BY <1>1 DEF Good, Shaped, Sound, Transferring
<1> HIDE DEF k
<1>4. Throttled(k) /\ Parting(k)
  BY <1>1, <1>2 DEF Good, Sound, Throttled, Parting, Owing, Later, Heading, Shaped, Fields
<1>5. Channelled(k)
  BY <1>1, <1>2 DEF Good, Sound, Channelled, Reconnects, Later, Heading, Shaped, Fields,
              SecPhase, Handshakes
<1>6. LoggingIn(k) /\ Transferring(k)
  BY <1>1, <1>2, <1>3 DEF Good, Sound, LoggingIn, Transferring, Later, Shaped, Fields, LoginStates
<1>7. Walking(k)
  BY <1>1, <1>2, <1>3 DEF Good, Sound, Channelled, Walking, Later, Heading, Ready, Shaped, Fields,
              DataPhase
<1>8. Good(g, k) /\ Held(k)
  BY <1>1, <1>2, <1>4, <1>5, <1>6, <1>7
  DEF Good, Sound, Up, Costs, Owing, Listed, Ready, Shaped, Fields, Held
<1>9. Final(g, handled(read_banner(k, c.r, c.more)))
  BY <1>2, <1>8, ReadBanner, Handled DEF Closed
<1>10. CASE g.delayedCtrlCB = "none"
  <2>1. ctrl_event_init_connected(g, c) = event_handled(k)
    BY <1>10 DEF ctrl_event_init_connected, k
  <2>2. Sane(g, k) /\ ~k.freed
    BY <1>8 DEF Sane, Final, Good, Up
  <2>3. QED
    BY <2>1, <2>2, EventHandled DEF Sane, Tidy
<1>11. CASE g.delayedCtrlCB = "ctrl_read_cb"
  <2>1. ctrl_event_init_connected(g, c) = event_handled(handled(read_banner(k, c.r, c.more)))
    BY <1>11 DEF ctrl_event_init_connected, k
  <2>2. QED
    BY <1>9, <1>11, <2>1, EventHandled
<1>12. QED
  BY <1>3, <1>10, <1>11

\* The protected connection stands, or one whose state a timer has moved on.
LEMMA SecConnected ==
  ASSUME NEW g, Start(g),
         g.conn = "tls" \/ (g.conn = "connecting" /\ g.state # "S_INITIAL")
  PROVE  Tidy(g, ctrl_event_connected(g))
<1> DEFINE k == [g EXCEPT !.conn = "up"]
<1>1. Good(g, g) /\ Shaped(g)
  BY StartGood DEF Start
<1>2. Shaped(k) /\ k.conn = "up" /\ k.ctrlUsingSec = g.ctrlUsingSec /\ k.state = g.state
  BY <1>1 DEF Shaped, Fields
<1>3. CASE g.ctrlUsingSec
  <2>1. g.conn = "tls" /\ ~g.dataBev /\ ~g.multiRespTimer /\ ~g.resetWaitTimer /\ ~g.retrWaitTimer
        /\ g.state \in {"S_SECURITY_CONNECTING", "S_AUTH_SSL_SENT",
                        "S_QUIT_SENT", "S_PBSZ_INIT_SENT"}
        /\ g.postSecConnectCB # "none"
    BY <1>1, <1>3 DEF Good, Sound, Channelled, Transferring, LoggingIn
  <2>2. Throttled(k) /\ Parting(k)
    BY <1>1 DEF Good, Sound, Throttled, Parting, Owing, Later, Heading, Shaped, Fields
  <2>3. Channelled(k)
    BY <1>1, <2>1 DEF Good, Sound, Channelled, Reconnects, Later, Heading, Shaped, Fields
  <2>4. LoggingIn(k) /\ Transferring(k)
    BY <1>1, <2>1 DEF Good, Sound, LoggingIn, Transferring, Later, Shaped, Fields, LoginStates
  <2>5. Walking(k)
    BY <1>1 DEF Good, Sound, Walking, Later, Heading, Ready, Shaped, Fields
  <2>6. Good(g, k)
    BY <1>1, <1>2, <2>2, <2>3, <2>4, <2>5
    DEF Good, Sound, Up, Costs, Owing, Listed, Ready, Shaped, Fields
  <2>7. May(k, "S_PBSZ_INIT_SENT")
    BY <1>1, <2>1 DEF May, Shaped, Fields, LoginStates, DataPhase
  <2> HIDE DEF k
  <2>8. /\ "PBSZ" \in Commands /\ "S_PBSZ_INIT_SENT" \in ReplyStates
        /\ ("PBSZ" = "LIST" <=> "S_PBSZ_INIT_SENT" = "S_LIST_SENT")
    BY DEF Commands, ReplyStates
  <2>9. Good(g, send_pbsz(k)) /\ send_pbsz(k).state \in {k.state, "S_PBSZ_INIT_SENT"}
    BY <2>6, <2>7, <2>8, Ask DEF send_pbsz
  <2>10. Sane(g, send_pbsz(k))
    BY <1>2, <2>1, <2>9 DEF Sane, Final, Held, Good, Up
  <2>11. ctrl_event_connected(g) = free_if_finished(send_pbsz(k))
    BY <1>2, <1>3 DEF ctrl_event_connected, k
  <2>12. QED
    BY <2>10, <2>11, EventHandled DEF Sane
<1>4. CASE ~g.ctrlUsingSec
  <2>1. Whole(g, k)
    BY <1>1, <1>2 DEF Good, Whole, Up, Costs, Owing, Listed, Ready, Shaped, Fields
  <2> HIDE DEF k
  <2>2. Over(g, abrupt(k, "FAIL_BAD_CONNECT"))
    BY <2>1, AbruptWhole
  <2>3. ctrl_event_connected(g) = free_if_finished(abrupt(k, "FAIL_BAD_CONNECT"))
    BY <1>2, <1>4 DEF ctrl_event_connected, k
  <2>4. QED
    BY <2>2, <2>3, LeftSane, EventHandled DEF Sane
<1>5. QED
  BY <1>1, <1>3, <1>4 DEF Shaped

\* A handshake has failed: the second method is tried on a new connection.
LEMMA SecFails ==
  ASSUME NEW g, Start(g), SecFailed(g), NEW blank \in BOOLEAN, ~blank => g.ctrlUsingSec
  PROVE  Sane(g, sec_failed(g, blank))
<1>1. Good(g, g) /\ Shaped(g) /\ g.state \in Handshakes /\ g.secType \in {"SEC_PRIMARY", "SEC_SECONDARY"}
  BY StartGood DEF Start, SecFailed, Shaped, SecStates, Handshakes
<1>2. ASSUME NEW code, code # "UNSET"
      PROVE  Sane(g, abrupt(g, code))
  BY <1>1, <1>2, Abrupt, LeftSane
<1>3. CASE g.secType = "SEC_PRIMARY" /\ ~blank
  <2> DEFINE e == [g EXCEPT !.ctrlSec = "none"]
             n == [g EXCEPT !.ctrlSec = "none", !.state = "S_INITIAL", !.ctrlUsingSec = FALSE,
                            !.conn = "connecting", !.connects = @ + 1]
             m == sec_failed(g, blank)
  <2>1. m = ctrl_reconnect(e)
    BY <1>3 DEF sec_failed
  <2>2. /\ Fields \subseteq DOMAIN e
        /\ n = [e EXCEPT !.state = "S_INITIAL", !.ctrlUsingSec = FALSE,
                         !.conn = "connecting", !.connects = @ + 1]
    BY <1>1 DEF Shaped, Fields
  <2>3. m = [e EXCEPT !.state = "S_INITIAL", !.ctrlUsingSec = FALSE, !.item = "none",
                      !.conn = "connecting", !.connects = @ + 1]
    BY <2>1 DEF ctrl_reconnect
  <2> HIDE DEF e, m
  <2>4. Alike(n, m)
    <3> HIDE DEF n
    <3>1. QED
      BY <2>2, <2>3 DEF Alike, Keeps, Fields
  <2>5. Shaped(n) /\ n.state = "S_INITIAL"
    BY <1>1 DEF Shaped, Fields, States
  <2>6. /\ ~g.dataBev /\ ~g.multiRespTimer /\ ~g.resetWaitTimer /\ ~g.retrWaitTimer
        /\ g.ctrlUsingSec /\ g.delayedCtrlCB \in {"none", "ctrl_read_cb"}
        /\ Later(g) \in {"none", "S_AUTH_SSL_SENT", "S_QUIT_SENT", "S_PBSZ_INIT_SENT"}
    BY <1>1, <1>3 DEF Good, Shaped, Sound, Channelled, Transferring, LoggingIn, Handshakes, LoginStates
  <2>7. Throttled(n) /\ Parting(n)
    BY <1>1 DEF Good, Sound, Throttled, Parting, Owing, Later, Heading, Shaped, Fields
  <2>8. Channelled(n)
    BY <1>1, <1>3, <2>6 DEF Good, Sound, Channelled, Reconnects, Later, Heading, Shaped, Fields,
                SecPhase, Handshakes
  <2>9. LoggingIn(n) /\ Transferring(n)
    BY <1>1, <2>6 DEF Good, Sound, LoggingIn, Transferring, Later, Shaped, Fields, LoginStates
  <2>10. Walking(n)
    BY <1>1, <2>6 DEF Good, Sound, Walking, Later, Heading, Ready, Shaped, Fields, DataPhase
  <2>11. Costs(g, n) /\ Up(n)
    BY <1>1 DEF Good, Up, Costs, Owing, Listed, Ready, Shaped, Fields
  <2>12. /\ n.conn = "connecting" /\ n.connects = g.connects + 1
         /\ n.numReqSent = g.numReqSent /\ n.savedReqTimer = g.savedReqTimer
         /\ n.reqLimitReached = g.reqLimitReached /\ n.delayedCtrlCB = g.delayedCtrlCB
    BY <1>1 DEF Shaped, Fields
  <2>13. Sound(n)
    BY <2>7, <2>8, <2>9, <2>10 DEF Sound
  <2> HIDE DEF n
  <2>14. Shaped(m) /\ Sound(m) /\ Up(m) /\ Costs(g, m)
    <3>1. Shaped(m)
      BY <2>4, <2>5 DEF Shaped, Alike, Keeps
    <3>2. Sound(m)
      BY <2>4, <2>13 DEF Sound, Throttled, Parting, Channelled, LoggingIn, Walking,
         Transferring, Reconnects, Owing, Later, Heading, Ready, Keeps, Alike
    <3>3. QED
      BY <2>4, <2>11, <3>1, <3>2 DEF Up, Costs, Owing, Listed, Ready, Alike, Keeps
  <2>15. Anew(g, m) /\ Held(m)
    BY <1>1, <2>4, <2>5, <2>12, <2>14 DEF Shaped, Anew, Held, Alike, Keeps
  <2>16. QED
    BY <2>15, LeftSane DEF m
<1>4. CASE g.secType = "SEC_SECONDARY" \/ blank
  BY <1>1, <1>2, <1>4 DEF sec_failed
<1>5. QED
  BY <1>1, <1>3, <1>4

\* ctrl_event_cb with BEV_EVENT_ERROR.
LEMMA ErrorEvent ==
  ASSUME NEW g, Start(g), NEW reading \in BOOLEAN, NEW blank \in BOOLEAN,
         ~blank => g.ctrlUsingSec
  PROVE  Tidy(g, free_if_finished(ctrl_event_error(g, reading, blank)))
<1>1. Good(g, g)
  BY StartGood
<1>2. ASSUME NEW code, code # "UNSET"
      PROVE  Sane(g, abrupt(g, code))
  BY <1>1, <1>2, Abrupt, LeftSane
<1>3. Sane(g, ctrl_event_error(g, reading, blank))
  BY <1>2, SecFails DEF ctrl_event_error
<1>4. QED
  BY <1>3, EventHandled DEF Sane

\* ctrl_event_cb with BEV_EVENT_EOF.
LEMMA EofEvent ==
  ASSUME NEW g, Start(g), NEW cleartext \in BOOLEAN, NEW blank \in BOOLEAN,
         ~blank => g.ctrlUsingSec
  PROVE  Tidy(g, free_if_finished(ctrl_event_eof(g, cleartext, blank)))
<1> DEFINE m == ctrl_event_eof(g, cleartext, blank)
<1>1. Good(g, g) /\ Whole(g, g)
  BY StartGood DEF Good, Whole
<1>2. ASSUME NEW code, code # "UNSET"
      PROVE  Sane(g, abrupt(g, code))
  BY <1>1, <1>2, Abrupt, LeftSane
<1>3. g.state = "S_QUIT_SENT" => Sane(g, disconnect_rude(g))
  <2>1. g.state = "S_QUIT_SENT" => g.terminationCode # "UNSET"
    BY <1>1 DEF Good, Sound, Parting, Heading
  <2>2. QED
    BY <1>1, <2>1, Disconnected, LeftSane DEF disconnect_rude
<1>4. g.state = "S_USER_SENT" => Sane(g, handle_early_sec_req(g))
  BY <1>1, EarlySecReq, LeftSane DEF LoginStates, Held
<1>5. Sane(g, m)
  <2>1. CASE SecFailed(g)
    <3>1. g.state # "S_QUIT_SENT" /\ g.state # "S_USER_SENT"
      BY <2>1 DEF SecFailed, SecStates
    <3>2. m = sec_failed(g, blank)
      BY <2>1, <3>1 DEF ctrl_event_eof
    <3>3. QED
      BY <2>1, <3>2, SecFails
  <2>2. CASE ~SecFailed(g) /\ g.state = "S_QUIT_SENT"
    BY <1>3, <2>2 DEF ctrl_event_eof
  <2>3. CASE ~SecFailed(g) /\ g.state # "S_QUIT_SENT" /\ g.state = "S_USER_SENT" /\ cleartext
    BY <1>4, <2>3 DEF ctrl_event_eof
  <2>4. CASE ~SecFailed(g) /\ g.state # "S_QUIT_SENT" /\ ~(g.state = "S_USER_SENT" /\ cleartext)
    BY <1>2, <2>4 DEF ctrl_event_eof
  <2>5. QED
    BY <2>1, <2>2, <2>3, <2>4
<1>6. QED
  BY <1>5, EventHandled DEF Sane

\* ctrl_event_cb with BEV_EVENT_TIMEOUT.
LEMMA TimeoutEvent ==
  ASSUME NEW g, Start(g)
  PROVE  Tidy(g, free_if_finished(ctrl_event_timeout(g)))
<1>1. Good(g, g)
  BY StartGood
<1>2. ASSUME NEW code, code # "UNSET"
      PROVE  Sane(g, abrupt(g, code))
  BY <1>1, <1>2, Abrupt, LeftSane
<1>3. Sane(g, ctrl_event_timeout(g))
  BY <1>2 DEF ctrl_event_timeout
<1>4. QED
  BY <1>3, EventHandled DEF Sane

-----------------------------------------------------------------------------
\* The timers, none of which looks for the limit or for a host that has ended.

\* The delayed request goes out, under the state that was saved with it.
LEMMA DelayedSent ==
  ASSUME NEW g, Start(g), g.savedReqTimer
  PROVE  Good(g, sendSpigot_cb(g, TRUE)) /\ Held(sendSpigot_cb(g, TRUE))
<1> DEFINE s == <<g.savedReq>>
           m == sendSpigot_cb(g, TRUE)
           n == [g EXCEPT !.sent = s, !.state = g.savedNextState, !.savedReqTimer = FALSE,
                          !.savedReq = "none", !.numReqSent = g.numReqSent + 1]
<1>1. Good(g, g) /\ Shaped(g) /\ g.sent = <<>> /\ g.savedReqTimer
  BY StartGood DEF Start
<1>2. /\ Later(g) = g.savedNextState /\ g.savedNextState \in ReplyStates
      /\ Owing(g) = g.numReqSent + 1 /\ Owing(g) <= maxReqPerIp
      /\ ~g.reqLimitReached
  BY <1>1, MaxNat DEF Good, Sound, Throttled, Shaped, Later, Owing
<1>3. s \in Seq(Words) /\ Len(s) = 1 /\ Append(<<>>, g.savedReq) = s
  BY <1>1 DEF Shaped
<1> HIDE DEF s
<1>4. Alike(n, m)
  <2> DEFINE t == [g EXCEPT !.sent = Append(@, g.savedReq), !.state = g.savedNextState]
  <2>1. m = [t EXCEPT !.savedReqTimer = FALSE, !.savedReq = "none",
                      !.reqThisSecond = 1, !.tick = FALSE, !.numReqSent = @ + 1]
    BY DEF sendSpigot_cb, transmit, change_state
  <2>2. t = [g EXCEPT !.sent = s, !.state = g.savedNextState]
    BY <1>1, <1>3 DEF Shaped, Fields
  <2> HIDE DEF t, m
  <2>3. /\ Fields \subseteq DOMAIN t /\ t.numReqSent = g.numReqSent
    BY <1>1, <2>2 DEF Shaped, Fields
  <2>4. n = [t EXCEPT !.savedReqTimer = FALSE, !.savedReq = "none", !.numReqSent = @ + 1]
    BY <1>1, <2>2 DEF Shaped, Fields
  <2> HIDE DEF n
  <2>5. QED
    BY <2>1, <2>3, <2>4 DEF Alike, Keeps, Fields
<1>5. Shaped(n) /\ ~n.savedReqTimer /\ n.numReqSent = g.numReqSent + 1 /\ n.sent = s
      /\ n.state = Later(g) /\ n.reqLimitReached = g.reqLimitReached
  BY <1>1, <1>2, <1>3 DEF Shaped, Fields, States, Words
<1>6. Keeps(g, n) /\ n.terminationCode = g.terminationCode
  BY <1>1 DEF Keeps, Shaped, Fields
<1> HIDE DEF n
<1>7. Later(n) = "none" /\ Owing(n) = Owing(g)
  BY <1>2, <1>5 DEF Later, Owing, Shaped
<1>8. Throttled(n) /\ Parting(n)
  BY <1>1, <1>2, <1>5, <1>6, <1>7, MaxNat
  DEF Good, Sound, Throttled, Parting, Heading, Keeps, Shaped, ReplyStates
<1>9. Channelled(n)
  BY <1>1, <1>2, <1>5, <1>6, <1>7
  DEF Good, Sound, Channelled, Reconnects, Heading, Keeps, ReplyStates, SecPhase, Handshakes
<1>10. LoggingIn(n)
  BY <1>1, <1>2, <1>5, <1>6, <1>7
  DEF Good, Sound, Channelled, LoggingIn, Keeps, ReplyStates, LoginStates
<1>11. Walking(n)
  BY <1>1, <1>2, <1>5, <1>6, <1>7
  DEF Good, Sound, Walking, Heading, Ready, Keeps, ReplyStates, DataPhase
<1>12. Transferring(n)
  BY <1>1, <1>2, <1>5, <1>6, <1>7
  DEF Good, Sound, Transferring, Walking, Keeps, ReplyStates
<1>13. Costs(g, n)
  <2>1. Listed(n) => g.savedReq = "LIST"
    BY <1>3, <1>5 DEF Listed, s
  <2>2. g.savedReq = "LIST" => Ready(g)
    BY <1>1, <1>2 DEF Good, Sound, Throttled, Walking, Heading
  <2>3. Ready(g) => Ready(n)
    BY <1>6 DEF Ready, Keeps
  <2>4. QED
    BY <1>1, <1>2, <1>3, <1>5, <1>7, <2>1, <2>2, <2>3, MaxNat DEF Costs, Shaped
<1>14. Good(g, n)
  BY <1>1, <1>2, <1>5, <1>6, <1>7, <1>8, <1>9, <1>10, <1>11, <1>12, <1>13
  DEF Good, Sound, Up, Keeps, Shaped
<1> HIDE DEF m
<1>15. Good(g, m) /\ ~m.reqLimitReached
  BY <1>2, <1>4, <1>5, <1>14, AlikeGood DEF Alike
<1>16. QED
  BY <1>15 DEF Held, m

\* No second reply has come within a second.
LEMMA MultiRespEval ==
  ASSUME NEW g, Start(g), g.multiRespTimer,
         NEW id \in (IF g.multiRespEval = "user" THEN UserIDs ELSE PassIDs)
  PROVE  Sane(g, multi_resp_eval(g, id))
<1>1. LoginWaits(g)
  BY DEF LoginWaits
<1>2. CASE g.multiRespEval = "user"
  <2>1. id \in UserIDs \cup UserDoubleIDs /\ multi_resp_eval(g, id) = read_user_resp_eval(g, id)
    BY <1>2 DEF multi_resp_eval
  <2>2. QED
    BY <1>1, <2>1, UserEval, LeftSane DEF Held
<1>3. CASE g.multiRespEval # "user"
  <2>1. id \in PassIDs \cup PassDoubleIDs /\ multi_resp_eval(g, id) = read_pass_resp_eval(g, id)
    BY <1>3 DEF multi_resp_eval
  <2>2. QED
    BY <1>1, <2>1, PassEval, LeftSane
<1>4. QED
  BY <1>2, <1>3

\* The wait after a refused PASS is over.
LEMMA ResetWaitOver ==
  ASSUME NEW g, Start(g), g.resetWaitTimer
  PROVE  Sane(g, setup_middle([g EXCEPT !.resetWaitTimer = FALSE]))
<1> DEFINE n == [g EXCEPT !.resetWaitTimer = FALSE]
<1>1. /\ Good(g, g) /\ Shaped(g) /\ g.conn = "up" /\ g.state \in LoginStates \cup {"S_RESET_WAIT"}
      /\ g.terminationCode # "UNSET" /\ g.multiRespState = "UNK" /\ ~g.multiRespTimer
      /\ ~g.retrWaitTimer /\ ~g.dataBev
  BY StartGood DEF Start, Sound, LoggingIn, Parting, Transferring, LoginStates
<1>2. /\ Shaped(n) /\ Open(n) /\ n.state = g.state /\ n.terminationCode # "UNSET"
      /\ n.state \notin Handshakes
  BY <1>1 DEF Shaped, Fields, Open, LoginStates, Handshakes
<1>3. Sound(n)
  <2>1. Throttled(n) /\ Parting(n) /\ Channelled(n)
    BY <1>1 DEF Good, Sound, Throttled, Parting, Channelled, Reconnects, Owing, Later, Heading,
           Shaped, Fields
  <2>2. LoggingIn(n) /\ Transferring(n) /\ Walking(n)
    BY <1>1 DEF Good, Sound, LoggingIn, Transferring, Walking, Later, Heading, Ready, Shaped, Fields
  <2>3. QED
    BY <2>1, <2>2 DEF Sound
<1>4. Good(g, n)
  BY <1>1, <1>2, <1>3 DEF Good, Up, Costs, Owing, Listed, Ready, Shaped, Fields
<1> HIDE DEF n
<1>5. QED
  BY <1>2, <1>4, SetupMiddle, LeftSane DEF Left, Out, n

\* The second after a refused RETR is over.
LEMMA RetrWaitOver ==
  ASSUME NEW g, Start(g), g.retrWaitTimer, NEW c
  PROVE  Sane(g, post_retr_wait(g, c))
BY PostRetrWait, LeftSane

-----------------------------------------------------------------------------
\* The data channel, and the clock of the throttle.

\* The data channel ends, with whatever waited for it.
LEMMA DataEnds ==
  ASSUME NEW g, Start(g), g.dataBev, NEW c, c.over \in BOOLEAN, Ended(c)
  PROVE  Sane(g, data_close_channel(g, c))
<1>1. Good(g, g)
  BY StartGood
<1>2. /\ c.over => Gone(g, data_close_channel(g, c))
      /\ ~c.over => Left(g, data_close_channel(g, c))
  BY <1>1, DataChannelClosed
<1>3. QED
  BY <1>2, LeftSane DEF Sane, Final, Gone

\* The data channel brings too much.
LEMMA TooMuchData ==
  ASSUME NEW g, Start(g)
  PROVE  Tidy(g, data_overflow(g))
BY StartGood, DataOverflow DEF Good, Whole, Gone, Final, Closed, Tidy

\* The data connection cannot be made.
LEMMA RefusedData ==
  ASSUME NEW g, Start(g)
  PROVE  Tidy(g, free_if_finished(abrupt(g, "FAIL_DATA_CONNECT_RESET")))
<1>1. Over(g, abrupt(g, "FAIL_DATA_CONNECT_RESET"))
  BY StartGood, Abrupt
<1>2. QED
  BY <1>1, LeftSane, EventHandled DEF Sane

\* Neither the clock, nor a data connection that stands, nor what is left of one
\* that was overwritten changes anything that counts.
LEMMA Unnoticed ==
  ASSUME NEW g, Start(g), Held(g), NEW left
  PROVE  /\ Tidy(g, g)
         /\ Tidy(g, [g EXCEPT !.tick = TRUE])
         /\ Tidy(g, [g EXCEPT !.dataIsConnected = TRUE])
         /\ Tidy(g, [g EXCEPT !.staleData = left])
         /\ Tidy(g, [g EXCEPT !.dataIsConnected = TRUE, !.staleData = left])
<1>1. Good(g, g) /\ Shaped(g)
  BY StartGood DEF Start
<1>2. /\ Alike(g, g)
      /\ Alike(g, [g EXCEPT !.tick = TRUE]) /\ Alike(g, [g EXCEPT !.dataIsConnected = TRUE])
      /\ Alike(g, [g EXCEPT !.staleData = left])
      /\ Alike(g, [g EXCEPT !.dataIsConnected = TRUE, !.staleData = left])
  BY <1>1 DEF Alike, Keeps, Shaped, Fields
<1>3. ASSUME NEW m, Alike(g, m)
      PROVE  Tidy(g, m)
  <2>1. Good(g, m)
    BY <1>1, <1>3, AlikeGood
  <2>2. Held(m) /\ Up(m)
    BY <1>3, <2>1 DEF Held, Alike, Keeps, Good
  <2>3. QED
    BY <2>1, <2>2 DEF Closed, Tidy, Final, Up
<1>4. QED
  BY <1>2, <1>3

\* A connection attempt of the data channel is over: of the host's own, or of one
\* that was overwritten.
LEMMA DataEvent ==
  ASSUME NEW g, Start(g), Held(g), NEW connected \in BOOLEAN
  PROVE  LET m == data_event(g, connected)
         IN Tidy(g, m) /\ Tidy(g, Fired(m)) /\ m.fault = "none"
            /\ Fired(m).numReqSent = m.numReqSent /\ Fired(m).sent = m.sent
<1> DEFINE d == free_if_finished(abrupt(g, "FAIL_DATA_CONNECT_RESET"))
           left == g.staleData - 1
           e == [g EXCEPT !.dataIsConnected = TRUE]
<1>1. ~g.freed /\ g.fault = "none" /\ Shaped(g)
  BY DEF Start, Up
<1>2. CASE data_event(g, connected) = e
  <2>1. Fired(e) = [g EXCEPT !.dataIsConnected = TRUE, !.staleData = left]
        /\ e.fault = "none"
    BY <1>1 DEF Fired, Shaped, Fields
  <2>2. Tidy(g, e) /\ Tidy(g, Fired(e))
    <3>1. Tidy(g, e)
      BY Unnoticed
    <3> HIDE DEF left, e
    <3>2. Tidy(g, [g EXCEPT !.dataIsConnected = TRUE, !.staleData = left])
      BY Unnoticed
    <3>3. QED
      BY <2>1, <3>1, <3>2
  <2>3. Fired(e).numReqSent = e.numReqSent /\ Fired(e).sent = e.sent
    BY <1>1 DEF Fired, Shaped, Fields
  <2>4. QED
    BY <1>2, <2>1, <2>2, <2>3
<1>3. CASE data_event(g, connected) = g
  <2>1. Fired(g) = [g EXCEPT !.staleData = left]
    BY <1>1 DEF Fired
  <2>2. Tidy(g, g) /\ Tidy(g, Fired(g))
    <3> HIDE DEF left
    <3>1. Tidy(g, g) /\ Tidy(g, [g EXCEPT !.staleData = left])
      BY Unnoticed
    <3>2. QED
      BY <2>1, <3>1
  <2>3. Fired(g).numReqSent = g.numReqSent /\ Fired(g).sent = g.sent
    BY <1>1 DEF Fired, Shaped, Fields
  <2>4. QED
    BY <1>1, <1>3, <2>2, <2>3
<1>4. CASE data_event(g, connected) = d
  <2>1. Gone(g, d) /\ d.freed /\ Tidy(g, d)
    <3>1. Over(g, abrupt(g, "FAIL_DATA_CONNECT_RESET"))
      BY StartGood, Abrupt
    <3>2. QED
      BY <3>1, FreeIfFinished, RefusedData DEF Over, Gone
  <2> HIDE DEF d
  <2>2. Gone(g, Fired(d)) /\ Fired(d).freed
        /\ Fired(d).numReqSent = d.numReqSent /\ Fired(d).sent = d.sent
    BY <2>1 DEF Fired, Gone, Shaped, Fields, Costs, Owing, Listed, Ready, Clean
  <2>3. Tidy(g, Fired(d)) /\ d.fault = "none"
    BY <2>1, <2>2 DEF Tidy, Closed, Final, Gone
  <2>4. QED
    BY <1>4, <2>1, <2>2, <2>3
<1>5. QED
  BY <1>1, <1>2, <1>3, <1>4 DEF data_event

-----------------------------------------------------------------------------
\* What the environment can give a step is what the handlers can be given.

\* A reply is one its state can tell.
LEMMA RepliesHeard ==
  ASSUME NEW k, NEW r \in Replies(k)
  PROVE  /\ Reply(r)
         /\ k.state \in {"S_PASV_SENT", "S_RETR_XFER", "S_PORT_SENT"} /\ r.size = "FOUND"
              => r.kind \in {"ok", "no", "odd"}
         /\ k.state = "S_RETR_SENT" /\ r.size \in {"FOUND", "EXTRA"}
              => r.kind \in {"ok", "no", "odd"}
<1>1. ASSUME NEW x \in Kinds(k)
      PROVE  /\ x # "UNSET"
             /\ k.state \in {"S_PASV_SENT", "S_RETR_SENT", "S_RETR_XFER", "S_PORT_SENT"}
                  => x \in {"ok", "no", "odd"}
  BY <1>1 DEF Kinds
<1>2. CASE r \in Found(Kinds(k))
  BY <1>1, <1>2 DEF Found, Reply, Sizes
<1>3. CASE r \in Bad
  BY <1>3 DEF Bad, Reply, Sizes
<1>4. CASE r \in Extra({"ok"}) \/ r \in Extra(Kinds(k)) \/ (r \in Extra({"any"}) /\ k.state \notin Announcing)
  BY <1>1, <1>4 DEF Extra, Reply, Sizes, Announcing
<1>5. QED
  BY <1>2, <1>3, <1>4 DEF Replies, Extra

\* So is the reply behind it.
LEMMA MoresHeard ==
  ASSUME NEW k, NEW r, NEW more \in Mores(k, r)
  PROVE  /\ Reply(more)
         /\ k.state # "S_CONNECTED" /\ more.size = "FOUND" => more.kind \in {"ok", "no", "odd"}
<1>1. CASE more = Wait
  BY <1>1 DEF Wait, Reply, Sizes
<1>2. CASE more \in Bad
  BY <1>2 DEF Bad, Reply, Sizes
<1>3. CASE more \in Extra({"any"})
  BY <1>3 DEF Extra, Reply, Sizes
<1> DEFINE kinds == IF k.state = "S_CONNECTED" THEN {"ok", "early_sec"}
                    ELSE IF k.item = "robots" THEN {"ok", "no", "odd"} ELSE {"ok", "no"}
<1>4. CASE more \in Found(kinds)
  BY <1>4 DEF Found, Reply, Sizes
<1> HIDE DEF kinds
<1>5. QED
  BY <1>1, <1>2, <1>3, <1>4 DEF Mores, kinds

\* A reply to USER or PASS that is evaluated is told from the others.
LEMMA IDsHeard ==
  ASSUME NEW k, NEW r, NEW id \in LoginIDs(k, r), k.state \in LoginStates
  PROVE  Identified(k, r, id)
BY DEF LoginIDs, Identified, LoginStates

\* Data is too much or not, and too much only where a server sends that.
LEMMA DatasHeard ==
  ASSUME NEW k, NEW data \in Datas(k) \cup {NoData}
  PROVE  data.over \in BOOLEAN /\ (data.over => Rude("overflow"))
<1>1. CASE data = NoData
  BY <1>1 DEF NoData
<1>2. CASE data = [NoData EXCEPT !.over = TRUE] /\ Rude("overflow")
  BY <1>2 DEF NoData
<1>3. CASE \E t, n : data = [over |-> FALSE, text |-> t, dirs |-> n]
  BY <1>3
<1>4. QED
  BY <1>1, <1>2, <1>3 DEF Datas

-----------------------------------------------------------------------------
\* The steps of the session.

\* What holds of a host whatever has become of it.
Kept(k) ==
  /\ Shaped(k) /\ Safe(k)
  /\ Owing(k) <= maxReqPerIp /\ k.connects <= 3
  /\ k.result \in Results \cup {"none"}
  /\ k.fault \in Faults \cup {"ended_twice", "none"} /\ Explained(k)
  /\ Listed(k) => Ready(k)
  /\ ~k.hostIsFinished /\ k.fault = "none" => Sound(k) /\ ~k.freed /\ Held(k)

\* The record a step begins with, in which nothing has been sent yet.
Begun(k) == [k EXCEPT !.sent = <<>>]

\* A step begins with the host it finds.
LEMMA Begins ==
  ASSUME NEW k, Kept(k), ~k.hostIsFinished, k.fault = "none"
  PROVE  LET g == Begun(k)
         IN /\ Start(g) /\ Held(g) /\ Keeps(k, g) /\ Same(k, g)
            /\ g.state = k.state /\ g.numReqSent = k.numReqSent /\ Owing(g) = Owing(k)
            /\ g.savedReqTimer = k.savedReqTimer /\ g.multiRespEval = k.multiRespEval
<1> DEFINE g == Begun(k)
<1>1. g = [k EXCEPT !.sent = <<>>] /\ Shaped(k) /\ Sound(k) /\ ~k.freed /\ Held(k)
  BY DEF Begun, Kept
<1> HIDE DEF g
<1>2. /\ Shaped(g) /\ g.sent = <<>>
      /\ Keeps(k, g) /\ g.state = k.state /\ g.terminationCode = k.terminationCode
      /\ g.numReqSent = k.numReqSent /\ g.savedReqTimer = k.savedReqTimer
      /\ g.savedReq = k.savedReq /\ g.savedNextState = k.savedNextState
      /\ g.reqLimitReached = k.reqLimitReached /\ g.multiRespEval = k.multiRespEval
  BY <1>1 DEF Shaped, Fields, Keeps
<1>3. Throttled(g) /\ Parting(g) /\ Channelled(g) /\ Owing(g) = Owing(k) /\ Held(g)
  BY <1>1, <1>2 DEF Sound, Throttled, Parting, Channelled, Reconnects, Owing, Later, Heading,
              Keeps, Held
<1>4. LoggingIn(g) /\ Walking(g) /\ Transferring(g)
  BY <1>1, <1>2 DEF Sound, LoggingIn, Walking, Transferring, Later, Heading, Ready, Keeps
<1>5. QED
  BY <1>1, <1>2, <1>3, <1>4 DEF Start, Up, Sound, Keeps, Same, g

\* What a step that leaves the host as k does to the history.
LEMMA FinalKept ==
  ASSUME NEW g, NEW k, Start(g), Final(g, k)
  PROVE  /\ Kept(k)
         /\ k.numReqSent = g.numReqSent + Len(k.sent)
         /\ k.fault # "ended_twice"
<1>1. Shaped(k) /\ Costs(g, k) /\ Shaped(g)
  BY DEF Final, Good, Gone, Anew, Crashed, Start
<1>2. Len(k.sent) = k.numReqSent - g.numReqSent /\ k.numReqSent \in Nat /\ g.numReqSent \in Nat
  BY <1>1 DEF Costs, Shaped
<1>3. Owing(k) <= maxReqPerIp /\ (Listed(k) => Ready(k))
  BY <1>1 DEF Costs
<1>4. CASE (Good(g, k) \/ Anew(g, k)) /\ Held(k)
  <2>1. Sound(k) /\ Up(k) /\ Held(k) /\ k.result = "none"
    BY <1>4 DEF Good, Anew, Sound, Parting
  <2>2. Safe(k) /\ k.connects <= 3
    BY <1>1, <2>1, SoundIsSafe DEF Up
  <2>3. QED
    BY <1>1, <1>2, <1>3, <2>1, <2>2 DEF Kept, Up, Explained
<1>5. CASE Gone(g, k)
  <2>1. g.connects <= 3
    BY SoundIsSafe DEF Start, Up
  <2>2. Safe(k)
    BY <1>5 DEF Gone, Safe, Clean
  <2>3. QED
    BY <1>1, <1>2, <1>3, <1>5, <2>1, <2>2 DEF Kept, Gone, Clean, Explained
<1>6. CASE Crashed(g, k)
  BY <1>1, <1>2, <1>3, <1>6 DEF Kept, Crashed, Faults
<1>7. QED
  BY <1>4, <1>5, <1>6 DEF Final

\* The invariant.
IInv ==
  /\ Kept(h) /\ requests = h.numReqSent
  /\ Alive /\ h.delayedCtrlCB = "ctrl_read_cb" => Rude("early_read")
  /\ h.fault = "use_after_free" =>
       Rude("overflow") \/ Rude("early_read") \/ h.staleData > 0
  /\ h.fault = "ended_twice" => h.staleData > 0

\* What a step can begin with: the host as it is, or with its banner come early.
From(g) ==
  /\ Start(g) /\ Same(h, g)
  /\ g.delayedCtrlCB = "ctrl_read_cb" => Rude("early_read")

\* A step of the session: of a host that is alive, at the cost of what it sends.
\* Everything but a timer and the end of the data channel looks for a host that has
\* ended, unless it reads a reply that comes while PASV's data channel is made.
Stepped ==
  /\ Alive
  /\ \E g : From(g) /\ Final(g, h')
  /\ requests' = requests + Len(h'.sent)
  /\ h'.fault = "use_after_free" => Rude("overflow") \/ Rude("early_read")
  /\ \/ Timer \/ DataClosed \/ h.state = "S_DATA_CONN"
     \/ h'.hostIsFinished => h'.freed \/ h'.fault # "none"

\* A step begins with the host as it is.
LEMMA BeginsFresh ==
  ASSUME IInv, Alive
  PROVE  /\ Start(Fresh) /\ Held(Fresh) /\ From(Fresh) /\ Shaped(Fresh)
         /\ Fresh.state = h.state /\ Fresh.conn = h.conn
         /\ Fresh.ctrlUsingSec = h.ctrlUsingSec /\ Fresh.dataBev = h.dataBev
         /\ Fresh.delayedCtrlCB = h.delayedCtrlCB
         /\ Fresh.multiRespState = h.multiRespState
         /\ Fresh.multiRespTimer = h.multiRespTimer
         /\ Fresh.resetWaitTimer = h.resetWaitTimer
         /\ Fresh.retrWaitTimer = h.retrWaitTimer
         /\ Fresh.savedReqTimer = h.savedReqTimer
         /\ Fresh.multiRespEval = h.multiRespEval
<1>1. Fresh = Begun(h) /\ Kept(h) /\ ~h.hostIsFinished /\ h.fault = "none"
  BY DEF Fresh, Begun, IInv, Alive
<1>2. /\ Start(Fresh) /\ Held(Fresh) /\ Keeps(h, Fresh) /\ Same(h, Fresh)
      /\ Fresh.multiRespEval = h.multiRespEval
  BY <1>1, Begins
<1>3. h.delayedCtrlCB = "ctrl_read_cb" => Rude("early_read")
  BY DEF IInv
<1> HIDE DEF Fresh
<1>4. QED
  BY <1>2, <1>3 DEF From, Keeps, Same, Start

\* Such a step is one of the session.
LEMMA Steps ==
  ASSUME IInv, Alive, Final(Fresh, h'), requests' = requests + Len(h'.sent),
         h'.fault = "use_after_free" => Rude("overflow") \/ Rude("early_read"),
         \/ Timer \/ DataClosed \/ h.state = "S_DATA_CONN"
         \/ h'.hostIsFinished => h'.freed \/ h'.fault # "none"
  PROVE  Stepped
<1>1. From(Fresh)
  BY BeginsFresh
<1> HIDE DEF Fresh, From, Final
<1>2. \E g : From(g) /\ Final(g, h')
  BY <1>1
<1>3. QED
  BY <1>2 DEF Stepped

\* The read callback.
LEMMA ReadSteps ==
  ASSUME IInv, CtrlRead
  PROVE  Stepped
<1> DEFINE g == Fresh
<1>1. Alive /\ g.conn = "up"
  BY BeginsFresh DEF CtrlRead
<1>2. PICK r \in Replies(h) : Read(r) /\ requests' = requests + Len(h'.sent)
  BY DEF CtrlRead, Owes
<1>3. /\ Start(g) /\ Held(g) /\ g.state = h.state /\ g.multiRespState = h.multiRespState
  BY <1>1, BeginsFresh
<1>4. PICK more \in Mores(h, r), id \in LoginIDs(h, r), skip \in Skips(h),
           data \in Datas(h) \cup {NoData} :
             h' = ctrl_read_cb(g, Choice(r, more, id, data, skip))
  BY <1>2 DEF Read
<1> DEFINE c == Choice(r, more, id, data, skip)
<1>5. /\ c.r = r /\ c.more = more /\ c.id = id /\ c.over = data.over
  BY DEF Choice
<1> HIDE DEF g
<1>6. /\ Reply(r) /\ Reply(more) /\ data.over \in BOOLEAN /\ (data.over => Rude("overflow"))
      /\ g.state # "S_CONNECTED" /\ more.size = "FOUND" => more.kind \in {"ok", "no", "odd"}
      /\ g.state \in {"S_PASV_SENT", "S_RETR_XFER", "S_PORT_SENT"} /\ r.size = "FOUND"
           => r.kind \in {"ok", "no", "odd"}
      /\ g.state = "S_RETR_SENT" /\ r.size \in {"FOUND", "EXTRA"}
           => r.kind \in {"ok", "no", "odd"}
  BY <1>3, RepliesHeard, MoresHeard, DatasHeard
<1>7. g.state \in LoginStates => Identified(g, r, id)
  BY <1>3, IDsHeard DEF Identified
<1>8. h' = ctrl_read_cb(g, c)
  BY <1>4
<1> HIDE DEF c
<1>9. Heard(g, c)
  BY <1>5, <1>6, <1>7 DEF Heard, Ended
<1>10. /\ Final(g, h') /\ (g.state # "S_DATA_CONN" => Closed(g, h'))
       /\ h'.fault = "use_after_free" => Rude("overflow")
  BY <1>1, <1>3, <1>5, <1>6, <1>8, <1>9, ReadCallback
<1>11. QED
  BY <1>1, <1>2, <1>3, <1>10, Steps DEF Closed, g

\* The connection stands.
LEMMA ConnectedSteps ==
  ASSUME IInv, CtrlConnected
  PROVE  Stepped
<1> DEFINE g == Fresh
           up == enter(h, "S_CONNECTED")
<1>1. /\ Alive /\ Start(g) /\ g.conn = "connecting" /\ g.state = "S_INITIAL"
      /\ From(g) /\ requests' = requests + Len(h'.sent)
  BY BeginsFresh DEF CtrlConnected, Owes
<1>2. PICK r \in {Wait} \cup Replies(up) : \E more \in Mores(up, r) :
         h' = ctrl_event_init_connected(g, Choice(r, more, "none", NoData, 0))
  BY DEF CtrlConnected
<1>3. PICK more \in Mores(up, r) :
         h' = ctrl_event_init_connected(g, Choice(r, more, "none", NoData, 0))
  BY <1>2
<1> DEFINE c == Choice(r, more, "none", NoData, 0)
<1> HIDE DEF g, up
<1>4. Reply(r) /\ Reply(more)
  BY RepliesHeard, MoresHeard DEF Wait, Reply, Sizes
<1>5. Reply(c.r) /\ Reply(c.more)
  BY <1>4 DEF Choice
<1>6. h' = ctrl_event_init_connected(g, c)
  BY <1>3
<1> HIDE DEF c
<1>7. Closed(g, h') /\ (g.delayedCtrlCB # "ctrl_read_cb" => Tidy(g, h'))
  BY <1>1, <1>5, <1>6, Connected
<1>8. h'.fault = "use_after_free" => Rude("early_read")
  BY <1>1, <1>7 DEF From, Tidy
<1>9. QED
  BY <1>1, <1>7, <1>8, Steps DEF Closed, g

\* The callbacks of the control channel.
LEMMA ControlSteps ==
  ASSUME IInv, Control
  PROVE  Stepped
<1>1. ASSUME CtrlReadEarly
      PROVE  Stepped
  <2>1. /\ Alive /\ Start(Fresh) /\ Same(h, Fresh) /\ Fresh.conn = "connecting"
        /\ Fresh.state = "S_INITIAL" /\ Fresh.delayedCtrlCB # "ctrl_read_cb"
        /\ h' = handled(read_initial(Fresh)) /\ Rude("early_read")
        /\ requests' = requests + Len(h'.sent)
    BY <1>1, BeginsFresh DEF CtrlReadEarly, Owes, From
  <2> DEFINE g == Fresh
             e == Early(g)
  <2> HIDE DEF g
  <2>2. Start(e) /\ Same(g, e) /\ Tidy(e, h')
    BY <2>1, ReadInitial DEF g
  <2> HIDE DEF e
  <2>3. From(e)
    BY <2>1, <2>2 DEF From, Same, g
  <2>4. \E f : From(f) /\ Final(f, h')
    BY <2>2, <2>3 DEF Tidy, Closed
  <2>5. h'.hostIsFinished => h'.freed \/ h'.fault # "none"
    BY <2>2 DEF Tidy, Closed
  <2>6. QED
    BY <2>1, <2>4, <2>5 DEF Stepped
<1>2. ASSUME Tidy(Fresh, h'), Alive, requests' = requests + Len(h'.sent)
      PROVE  Stepped
  BY <1>2, Steps DEF Tidy, Closed
<1>3. ASSUME CtrlSecConnected
      PROVE  Stepped
  <2>1. Alive /\ Start(Fresh) /\ Fresh.conn = h.conn /\ Fresh.state = h.state
    BY <1>3, BeginsFresh DEF CtrlSecConnected
  <2>2. Tidy(Fresh, h')
    BY <1>3, <2>1, SecConnected DEF CtrlSecConnected
  <2>3. QED
    BY <1>2, <1>3, <2>2 DEF CtrlSecConnected, Owes
<1>4. ASSUME NEW blank \in Blanks, Alive
      PROVE  Start(Fresh) /\ blank \in BOOLEAN /\ (~blank => Fresh.ctrlUsingSec)
  BY <1>4, BeginsFresh DEF Blanks
<1>5. ASSUME CtrlError
      PROVE  Stepped
  <2>1. Alive /\ requests' = requests + Len(h'.sent)
    BY <1>5 DEF CtrlError, Owes
  <2>2. PICK reading \in BOOLEAN, blank \in Blanks :
           h' = free_if_finished(ctrl_event_error(Fresh, reading, blank))
    BY <1>5 DEF CtrlError
  <2>3. QED
    BY <1>2, <1>4, <2>1, <2>2, ErrorEvent
<1>6. ASSUME CtrlEof
      PROVE  Stepped
  <2>1. Alive /\ requests' = requests + Len(h'.sent)
    BY <1>6 DEF CtrlEof, Owes
  <2>2. PICK cleartext \in BOOLEAN, blank \in Blanks :
           h' = free_if_finished(ctrl_event_eof(Fresh, cleartext, blank))
    BY <1>6 DEF CtrlEof
  <2>3. QED
    BY <1>2, <1>4, <2>1, <2>2, EofEvent
<1>7. ASSUME CtrlTimeout
      PROVE  Stepped
  <2>1. Alive /\ requests' = requests + Len(h'.sent)
        /\ h' = free_if_finished(ctrl_event_timeout(Fresh))
    BY <1>7 DEF CtrlTimeout, Owes
  <2>2. QED
    BY <1>2, <2>1, BeginsFresh, TimeoutEvent
<1>8. QED
  BY <1>1, <1>3, <1>5, <1>6, <1>7, ReadSteps, ConnectedSteps DEF Control

\* The timers.
LEMMA TimerSteps ==
  ASSUME IInv, Timer
  PROVE  Stepped
<1>1. Alive /\ requests' = requests + Len(h'.sent)
  BY DEF Timer, SavedReqTimer, multi_resp_timeout, reset_wait_event, RetrWaitTimer, Owes
<1> DEFINE g == Fresh
<1>2. /\ Start(g) /\ g.savedReqTimer = h.savedReqTimer
      /\ g.multiRespTimer = h.multiRespTimer /\ g.resetWaitTimer = h.resetWaitTimer
      /\ g.retrWaitTimer = h.retrWaitTimer /\ g.multiRespEval = h.multiRespEval
  BY <1>1, BeginsFresh
<1>3. Sane(g, h')
  <2>1. CASE SavedReqTimer
    <3>1. h' = sendSpigot_cb(g, TRUE) /\ g.savedReqTimer
      BY <1>2, <2>1 DEF SavedReqTimer
    <3> HIDE DEF g
    <3>2. QED
      BY <1>2, <3>1, DelayedSent DEF Sane, Final, Good, Up
  <2>2. CASE multi_resp_timeout
    <3>1. PICK id \in (IF g.multiRespEval = "user" THEN UserIDs ELSE PassIDs) :
             h' = multi_resp_eval(g, id)
      BY <1>2, <2>2 DEF multi_resp_timeout
    <3>2. g.multiRespTimer
      BY <1>2, <2>2 DEF multi_resp_timeout
    <3> HIDE DEF g
    <3>3. QED
      BY <1>2, <3>1, <3>2, MultiRespEval
  <2>3. CASE reset_wait_event
    <3>1. h' = setup_middle([g EXCEPT !.resetWaitTimer = FALSE]) /\ g.resetWaitTimer
      BY <1>2, <2>3 DEF reset_wait_event
    <3> HIDE DEF g
    <3>2. QED
      BY <1>2, <3>1, ResetWaitOver
  <2>4. CASE RetrWaitTimer
    <3>1. PICK c : h' = post_retr_wait(g, c)
      BY <2>4 DEF RetrWaitTimer
    <3>2. g.retrWaitTimer
      BY <1>2, <2>4 DEF RetrWaitTimer
    <3> HIDE DEF g
    <3>3. QED
      BY <1>2, <3>1, <3>2, RetrWaitOver
  <2>5. QED
    BY <2>1, <2>2, <2>3, <2>4 DEF Timer
<1>4. QED
  BY <1>1, <1>3, Steps DEF Sane

\* A step that sends nothing.
LEMMA NothingSent ==
  ASSUME NEW g, Start(g), NEW k, Final(g, k), k.numReqSent = g.numReqSent, NEW n \in Nat
  PROVE  n = n + Len(k.sent)
<1>1. Len(k.sent) = 0
  BY DEF Final, Good, Gone, Anew, Crashed, Costs, Start, Shaped
<1>2. QED
  BY <1>1

\* The callbacks of the data channel, and the clock.
LEMMA DataSteps ==
  ASSUME IInv, Data \/ Tick \/ (StaleDataEvent /\ ~h.hostIsFinished)
  PROVE  Stepped
<1> DEFINE g == Fresh
<1>1. Alive /\ requests \in Nat
  BY DEF Data, DataConnected, DataRead, DataClosed, DataRefused, Tick, IInv, Kept, Shaped,
         StaleDataEvent, Alive
<1>2. Start(g) /\ Held(g) /\ Shaped(g) /\ g.dataBev = h.dataBev /\ g.state = h.state
  BY <1>1, BeginsFresh
<1>3. ASSUME Tidy(g, h'), requests' = requests + Len(h'.sent)
      PROVE  Stepped
  BY <1>1, <1>3, Steps DEF Tidy, Closed
<1>4. CASE DataConnected \/ Tick
  <2>1. /\ h' = data_event(g, TRUE) \/ h' = [g EXCEPT !.tick = TRUE]
        /\ requests' = requests
    BY <1>4 DEF DataConnected, Tick
  <2> HIDE DEF g
  <2>2. Tidy(g, h')
    BY <1>2, <2>1, Unnoticed, DataEvent
  <2>3. h'.numReqSent = g.numReqSent
    BY <1>2, <2>1 DEF Shaped, Fields, data_event, Start, Up
  <2>4. requests' = requests + Len(h'.sent)
    BY <1>1, <1>2, <2>1, <2>2, <2>3, NothingSent DEF Tidy, Closed
  <2>5. QED
    BY <1>3, <2>2, <2>4
<1>5. CASE DataRead \/ DataRefused \/ StaleDataEvent
  <2>1. /\ \/ h' = data_overflow(g) \/ h' = data_event(g, FALSE)
           \/ \E connected \in BOOLEAN : h' = Fired(data_event(g, connected))
        /\ requests' = requests + Len(h'.sent)
    BY <1>5 DEF DataRead, DataRefused, StaleDataEvent, Owes
  <2> HIDE DEF g
  <2>2. QED
    BY <1>2, <1>3, <2>1, TooMuchData, DataEvent
<1>6. CASE DataClosed
  <2>1. PICK data \in Datas(h), skip \in Skips(h), more \in Mores(h, Wait) :
           h' = data_close_channel(g, Choice(Wait, more, "none", data, skip))
    BY <1>6 DEF DataClosed
  <2> DEFINE c == Choice(Wait, more, "none", data, skip)
  <2>2. c.more = more /\ c.over = data.over
    BY DEF Choice
  <2>3. h' = data_close_channel(g, c) /\ requests' = requests + Len(h'.sent)
    BY <1>6, <2>1 DEF DataClosed, Owes
  <2> HIDE DEF c, g
  <2>4. g.dataBev
    BY <1>2, <1>6 DEF DataClosed, DataUp
  <2>5. h.state # "S_CONNECTED"
    BY <1>2, <2>4 DEF Start, Sound, Transferring
  <2>6. c.over \in BOOLEAN /\ Ended(c)
    BY <2>2, <2>5, MoresHeard, DatasHeard DEF Ended
  <2>7. Sane(g, h')
    BY <1>2, <2>3, <2>4, <2>6, DataEnds
  <2>8. QED
    BY <1>1, <1>6, <2>3, <2>7, Steps DEF Sane, g
<1>7. QED
  BY <1>4, <1>5, <1>6 DEF Data

-----------------------------------------------------------------------------
\* The invariant, and the theorems.

\* A new host.
LEMMA StartsKept == Init => IInv
<1> SUFFICES ASSUME Init PROVE IInv
  OBVIOUS
<1>1. PICK t \in BOOLEAN : h = [NewHost EXCEPT !.tick = t]
  BY DEF Init
<1> DEFINE k == [NewHost EXCEPT !.tick = t]
<1>2. Alike(NewHost, k) /\ NewHost.sent = <<>>
  BY DEF Alike, Keeps, Fields, NewHost
<1>3. Shaped(NewHost)
  BY DEF Shaped, Fields, NewHost, States, Words
<1>4. Throttled(NewHost) /\ Parting(NewHost) /\ Owing(NewHost) = 0
  BY MaxNat DEF NewHost, Throttled, Parting, Owing, Later, Heading
<1>5. Channelled(NewHost) /\ LoggingIn(NewHost) /\ Transferring(NewHost)
  BY DEF NewHost, Channelled, Reconnects, LoggingIn, Transferring, Later, Heading,
         SecPhase, Handshakes, LoginStates
<1>6. Walking(NewHost)
  BY DEF NewHost, Walking, Later, Heading, DataPhase
<1>7. Start(NewHost) /\ Held(NewHost)
  BY <1>2, <1>3, <1>4, <1>5, <1>6 DEF Start, Up, Sound, Held, NewHost
<1> HIDE DEF k
<1>8. Good(NewHost, k) /\ Held(k) /\ k.numReqSent = 0
  <2>1. Good(NewHost, NewHost)
    BY <1>7, StartGood
  <2>2. NewHost.numReqSent = 0 /\ NewHost.reqLimitReached = FALSE
    BY DEF NewHost
  <2>3. QED
    BY <1>2, <2>1, <2>2, AlikeGood DEF Alike, Held
<1>9. Kept(k)
  BY <1>7, <1>8, FinalKept DEF Final
<1>10. k.fault = "none" /\ k.delayedCtrlCB = "none"
  BY DEF k, NewHost
<1>11. QED
  BY <1>1, <1>8, <1>9, <1>10 DEF IInv, Init, k

\* The one step of a host that is gone: the event that data_tls_init left armed.
Haunted == StaleDataEvent /\ h.hostIsFinished

\* Every other step is the step of a host that is alive.
LEMMA NextSteps ==
  ASSUME IInv, Next
  PROVE  Stepped \/ Haunted
BY ControlSteps, TimerSteps, DataSteps DEF IInv, Next, Haunted

\* A host that has ended stays as it is when only its end is told anew.
LEMMA StillKept ==
  ASSUME NEW k, Kept(k), k.hostIsFinished, NEW m, Fields \subseteq DOMAIN m,
         m.lastState = k.lastState, m.hostIsFinished, m.freed \in BOOLEAN,
         m.conn = k.conn, m.ctrlUsingSec = k.ctrlUsingSec, m.secType = k.secType,
         m.earlySecReq = k.earlySecReq, m.postSecConnectCB = k.postSecConnectCB,
         m.delayedCtrlCB = k.delayedCtrlCB, m.multiRespState = k.multiRespState,
         m.multiRespTimer = k.multiRespTimer, m.resetWaitTimer = k.resetWaitTimer,
         m.retrWaitTimer = k.retrWaitTimer, m.dataBev = k.dataBev,
         m.dataUsingSec = k.dataUsingSec, m.pasvAction = k.pasvAction,
         m.robotObj = k.robotObj, m.connects = k.connects, m.state = k.state,
         m.numReqSent = k.numReqSent, m.savedReqTimer = k.savedReqTimer,
         m.savedReq = k.savedReq, m.savedNextState = k.savedNextState,
         m.reqLimitReached = k.reqLimitReached, m.sent = <<>>,
         m.terminationCode \in {k.terminationCode, "FAIL_DATA_CONNECT_RESET"},
         m.result \in Results,
         m.fault \in {"none", "use_after_free", "ended_twice"}
  PROVE  Kept(m)
<1>1. Shaped(k) /\ Safe(k) /\ Clean(k) /\ Owing(k) <= maxReqPerIp /\ k.connects <= 3
  BY DEF Kept, Safe
<1>2. m.sent \in Seq(Words)
  BY EmptySeq DEF Words
<1>3. Shaped(m)
  BY <1>1, <1>2 DEF Shaped
<1>4. Clean(m)
  BY <1>1 DEF Clean
<1>5. Safe(m)
  BY <1>1, <1>4 DEF Safe
<1>6. Owing(m) = Owing(k)
  BY DEF Owing
<1>7. Explained(m) /\ ~Listed(m)
  BY DEF Explained, Listed
<1>8. m.fault \in Faults \cup {"ended_twice", "none"}
  BY DEF Faults
<1>9. QED
  BY <1>1, <1>3, <1>5, <1>6, <1>7, <1>8 DEF Kept

\* The event itself: nothing changes but the channel and the count, or the host,
\* which is gone, is used or ended once more.
LEMMA HauntedForm ==
  ASSUME IInv, Haunted
  PROVE  LET g == Fresh
             left == g.staleData - 1
         IN \/ h' = [g EXCEPT !.fault = "use_after_free"]
            \/ h' = [g EXCEPT !.dataIsConnected = TRUE, !.staleData = left]
            \/ h' = [g EXCEPT !.staleData = left]
            \/ h' = [g EXCEPT !.terminationCode = "FAIL_DATA_CONNECT_RESET",
                              !.result = "ABRUPT", !.fault = "ended_twice", !.freed = TRUE]
<1> DEFINE g == Fresh
           left == g.staleData - 1
<1>1. PICK connected \in BOOLEAN : h' = Fired(data_event(g, connected))
  BY DEF Haunted, StaleDataEvent
<1>2. Fields \subseteq DOMAIN g
  BY DEF Haunted, StaleDataEvent, IInv, Kept, Shaped, Fresh
<1>3. g.hostIsFinished /\ g.fault = "none" /\ g.lastState # "S_UNSET_STATE"
  BY DEF Haunted, StaleDataEvent, IInv, Kept, Safe, Clean, Shaped, Fields, Fresh
<1> SUFFICES \/ h' = [g EXCEPT !.fault = "use_after_free"]
             \/ h' = [g EXCEPT !.dataIsConnected = TRUE, !.staleData = left]
             \/ h' = [g EXCEPT !.staleData = left]
             \/ h' = [g EXCEPT !.terminationCode = "FAIL_DATA_CONNECT_RESET",
                               !.result = "ABRUPT", !.fault = "ended_twice", !.freed = TRUE]
  OBVIOUS
<1> HIDE DEF g
<1>4. CASE g.freed
  <2>1. data_event(g, connected) = [g EXCEPT !.fault = "use_after_free"]
    BY <1>2, <1>3, <1>4 DEF data_event, crash, Fields
  <2>2. QED
    BY <1>1, <1>2, <2>1 DEF Fired, Fields
<1>5. CASE ~g.freed /\ connected
  BY <1>1, <1>2, <1>3, <1>5 DEF data_event, Fired, Fields
<1>6. CASE ~g.freed /\ ~connected /\ g.dataIsConnected
  BY <1>1, <1>2, <1>3, <1>6 DEF data_event, Fired, Fields
<1>7. CASE ~g.freed /\ ~connected /\ ~g.dataIsConnected
  <2> DEFINE n == [g EXCEPT !.terminationCode = "FAIL_DATA_CONNECT_RESET", !.result = "ABRUPT"]
  <2>1. abrupt(g, "FAIL_DATA_CONNECT_RESET") = end_channel_now(n)
    <3>1. [note_last_state(fail(g, "FAIL_DATA_CONNECT_RESET")) EXCEPT !.result = "ABRUPT"] = n
      BY <1>2, <1>3 DEF note_last_state, fail, Fields
    <3>2. QED
      BY <3>1 DEF abrupt, disconnect_abrupt, disconnect
  <2>2. n.hostIsFinished /\ n.fault = "none" /\ DOMAIN n = DOMAIN g
    BY <1>2, <1>3 DEF Fields
  <2>3. end_channel_now(n) = [n EXCEPT !.fault = "ended_twice"]
    BY <2>2 DEF end_channel_now, crash
  <2>4. [n EXCEPT !.fault = "ended_twice"].hostIsFinished
    BY <2>2
  <2>5. data_event(g, connected) = [[n EXCEPT !.fault = "ended_twice"] EXCEPT !.freed = TRUE]
    BY <1>7, <2>1, <2>3, <2>4 DEF data_event, free_if_finished
  <2>6. data_event(g, connected)
          = [g EXCEPT !.terminationCode = "FAIL_DATA_CONNECT_RESET", !.result = "ABRUPT",
                      !.fault = "ended_twice", !.freed = TRUE]
    BY <2>5
  <2> HIDE DEF n
  <2>7. QED
    BY <1>1, <1>2, <2>6 DEF Fired, Fields
<1>8. QED
  BY <1>3, <1>4, <1>5, <1>6, <1>7

\* What such an event makes of the host: nothing that counts, or a crash.
LEMMA HauntedIs ==
  ASSUME IInv, Haunted
  PROVE  /\ h.staleData > 0 /\ h.fault = "none" /\ requests' = requests
         /\ Kept(h') /\ h'.hostIsFinished /\ h'.sent = <<>>
         /\ h'.numReqSent = h.numReqSent /\ ~h'.savedReqTimer /\ ~h.savedReqTimer
         /\ h'.connects = h.connects
         /\ h'.fault = "none" => h'.result = h.result
         /\ h'.fault # "none" => h'.fault \in {"use_after_free", "ended_twice"} /\ h'.staleData > 0
<1> DEFINE g == [h EXCEPT !.sent = <<>>]
           left == g.staleData - 1
<1>1. /\ Kept(h) /\ Clean(h) /\ Shaped(h) /\ h.hostIsFinished /\ h.staleData > 0
      /\ h.fault = "none" /\ requests = h.numReqSent /\ requests \in Nat
  BY DEF Haunted, StaleDataEvent, IInv, Kept, Safe, Shaped
<1>3. requests' = requests + Len(h'.sent)
  BY DEF Haunted, StaleDataEvent, Owes
<1>4. /\ DOMAIN g = DOMAIN h /\ Fields \subseteq DOMAIN g
      /\ \A f \in Fields \ {"sent"} : g[f] = h[f]
      /\ g.sent = <<>>
  BY <1>1 DEF Shaped, Fields
<1> HIDE DEF g
<1>5. /\ g.hostIsFinished /\ g.staleData = h.staleData /\ g.staleData > 0
      /\ g.fault = "none" /\ g.sent = <<>> /\ g.numReqSent = h.numReqSent
      /\ g.connects = h.connects /\ g.result = h.result
      /\ g.savedReqTimer = h.savedReqTimer /\ ~g.savedReqTimer
      /\ g.lastState = h.lastState /\ g.terminationCode = h.terminationCode
      /\ g.lastState # "S_UNSET_STATE" /\ g.freed \in BOOLEAN /\ h.result \in Results
  BY <1>1, <1>4 DEF Clean, Shaped, Fields
<1>6. Kept(g)
  <2>1. /\ g.conn = h.conn /\ g.ctrlUsingSec = h.ctrlUsingSec /\ g.secType = h.secType
        /\ g.earlySecReq = h.earlySecReq /\ g.postSecConnectCB = h.postSecConnectCB
        /\ g.delayedCtrlCB = h.delayedCtrlCB /\ g.multiRespState = h.multiRespState
        /\ g.multiRespTimer = h.multiRespTimer /\ g.resetWaitTimer = h.resetWaitTimer
        /\ g.retrWaitTimer = h.retrWaitTimer /\ g.dataBev = h.dataBev
        /\ g.dataUsingSec = h.dataUsingSec /\ g.pasvAction = h.pasvAction
        /\ g.robotObj = h.robotObj /\ g.state = h.state
        /\ g.savedReq = h.savedReq /\ g.savedNextState = h.savedNextState
        /\ g.reqLimitReached = h.reqLimitReached
    BY <1>4 DEF Fields
  <2>2. QED
    BY <1>1, <1>4, <1>5, <2>1, StillKept
<1>7. ASSUME NEW m, Fields \subseteq DOMAIN m, NEW what \in {"none", "use_after_free", "ended_twice"},
             \A f \in Fields \ {"sent", "terminationCode", "result", "fault", "freed", "staleData"} :
               m[f] = g[f],
             m.sent = <<>>, m.terminationCode \in {g.terminationCode, "FAIL_DATA_CONNECT_RESET"},
             m.result \in Results, m.fault = what, m.freed \in BOOLEAN
      PROVE  /\ Kept(m) /\ m.hostIsFinished /\ m.numReqSent = h.numReqSent
             /\ ~m.savedReqTimer /\ m.connects = h.connects
  <2>1. /\ m.conn = g.conn /\ m.ctrlUsingSec = g.ctrlUsingSec /\ m.secType = g.secType
        /\ m.earlySecReq = g.earlySecReq /\ m.postSecConnectCB = g.postSecConnectCB
        /\ m.delayedCtrlCB = g.delayedCtrlCB /\ m.multiRespState = g.multiRespState
        /\ m.multiRespTimer = g.multiRespTimer /\ m.resetWaitTimer = g.resetWaitTimer
        /\ m.retrWaitTimer = g.retrWaitTimer /\ m.dataBev = g.dataBev
        /\ m.dataUsingSec = g.dataUsingSec /\ m.pasvAction = g.pasvAction
        /\ m.robotObj = g.robotObj /\ m.state = g.state
        /\ m.savedReq = g.savedReq /\ m.savedNextState = g.savedNextState
        /\ m.reqLimitReached = g.reqLimitReached /\ m.lastState = g.lastState
        /\ m.hostIsFinished = g.hostIsFinished /\ m.connects = g.connects
        /\ m.numReqSent = g.numReqSent /\ m.savedReqTimer = g.savedReqTimer
    BY <1>7 DEF Fields
  <2>2. Kept(m)
    BY <1>5, <1>6, <1>7, <2>1, StillKept
  <2>3. QED
    BY <1>5, <2>1, <2>2
<1>8. \/ h' = [g EXCEPT !.fault = "use_after_free"]
      \/ h' = [g EXCEPT !.dataIsConnected = TRUE, !.staleData = left]
      \/ h' = [g EXCEPT !.staleData = left]
      \/ h' = [g EXCEPT !.terminationCode = "FAIL_DATA_CONNECT_RESET", !.result = "ABRUPT",
                        !.fault = "ended_twice", !.freed = TRUE]
  BY HauntedForm DEF g, Fresh
<1> HIDE DEF left
<1>9. CASE h' = [g EXCEPT !.fault = "use_after_free"]
  <2>1. /\ Fields \subseteq DOMAIN h'
        /\ \A f \in Fields \ {"fault"} : h'[f] = g[f]
        /\ h'.fault = "use_after_free"
    BY <1>4, <1>9 DEF Fields
  <2>2. QED
    BY <1>1, <1>3, <1>5, <1>7, <2>1 DEF Fields
<1>10. CASE \/ h' = [g EXCEPT !.dataIsConnected = TRUE, !.staleData = left]
            \/ h' = [g EXCEPT !.staleData = left]
  <2>1. /\ Fields \subseteq DOMAIN h'
        /\ \A f \in Fields \ {"staleData"} : h'[f] = g[f]
    BY <1>4, <1>10 DEF Fields
  <2>2. /\ h'.sent = <<>> /\ h'.fault = "none" /\ h'.result = h.result
        /\ h'.terminationCode = g.terminationCode /\ h'.freed \in BOOLEAN
    BY <1>5, <2>1 DEF Fields
  <2>3. /\ Kept(h') /\ h'.hostIsFinished /\ h'.numReqSent = h.numReqSent
        /\ ~h'.savedReqTimer /\ h'.connects = h.connects
    BY <1>5, <1>7, <2>1, <2>2
  <2>4. requests' = requests
    BY <1>1, <1>3, <2>2
  <2>5. QED
    BY <1>1, <1>5, <2>2, <2>3, <2>4
<1>11. CASE h' = [g EXCEPT !.terminationCode = "FAIL_DATA_CONNECT_RESET", !.result = "ABRUPT",
                          !.fault = "ended_twice", !.freed = TRUE]
  <2>1. /\ Fields \subseteq DOMAIN h'
        /\ \A f \in Fields \ {"terminationCode", "result", "fault", "freed"} : h'[f] = g[f]
        /\ h'.terminationCode = "FAIL_DATA_CONNECT_RESET" /\ h'.result = "ABRUPT"
        /\ h'.fault = "ended_twice" /\ h'.freed = TRUE
    BY <1>4, <1>11 DEF Fields
  <2>2. h'.sent = <<>> /\ h'.staleData = h.staleData /\ h'.fault = "ended_twice"
    BY <1>5, <2>1 DEF Fields
  <2>3. /\ Kept(h') /\ h'.hostIsFinished /\ h'.numReqSent = h.numReqSent
        /\ ~h'.savedReqTimer /\ h'.connects = h.connects
    BY <1>5, <1>7, <2>1, <2>2 DEF Results
  <2>4. requests' = requests
    BY <1>1, <1>3, <2>2
  <2>5. QED
    BY <1>1, <1>5, <2>2, <2>3, <2>4
<1>12. QED
  BY <1>8, <1>9, <1>10, <1>11

\* And keeps the invariant.
LEMMA StepKeeps ==
  ASSUME IInv, Stepped \/ Haunted
  PROVE  IInv'
<1> SUFFICES ASSUME Stepped PROVE IInv'
  <2>1. ASSUME Haunted PROVE IInv'
    BY <2>1, HauntedIs DEF IInv, Alive
  <2>2. QED
    BY <2>1
<1>1. PICK g : From(g) /\ Final(g, h')
  BY DEF Stepped
<1>2. Start(g) /\ g.numReqSent = h.numReqSent
  BY <1>1 DEF From, Same
<1>3. /\ Kept(h') /\ h'.numReqSent = g.numReqSent + Len(h'.sent)
      /\ h'.fault # "ended_twice"
  BY <1>1, <1>2, FinalKept
<1>4. Alive' /\ h'.delayedCtrlCB = "ctrl_read_cb" => Rude("early_read")
  <2>1. Alive' => ~h'.hostIsFinished /\ h'.fault = "none"
    BY DEF Alive
  <2>2. Alive' => Good(g, h') \/ Anew(g, h')
    BY <1>1, <2>1 DEF Final, Gone, Crashed, Faults
  <2>3. QED
    BY <1>1, <2>2 DEF Good, Anew, From
<1>5. QED
  BY <1>2, <1>3, <1>4 DEF IInv, Stepped, Rude

\* The invariant of the session holds whatever the server does: types, budget and
\* connections, what each state and each delayed request may find armed, open or
\* known, and what an end or a crash leaves behind.
THEOREM SessionInvariant == Spec => []IInv
<1>1. Init => IInv
  BY StartsKept
<1>2. IInv /\ [Next]_vars => IInv'
  BY NextSteps, StepKeeps DEF vars, IInv, Alive
<1>3. QED
  BY <1>1, <1>2, PTL DEF Spec

\* A host that has ended leaves no timer and no channel behind, but for a bufferevent
\* that data_tls_init overwrote, and its record says how it ended (end_channel_now,
\* whoever calls it, at whatever moment).
THEOREM LeavesClean == Spec => []EndsClean
<1>1. IInv => EndsClean
  <2>1. Kept(h) /\ h.hostIsFinished => Clean(h)
    BY DEF Kept, Safe
  <2>2. QED
    BY <2>1 DEF IInv, EndsClean, Clean, Results
<1>2. QED
  BY <1>1, SessionInvariant, PTL

\* A reply that waits for the data channel always has one to wait for
\* (delayedCtrlCB, data_close_channel).
THEOREM WaitsForChannel == Spec => []ReplyIsWoken
<1>1. IInv => ReplyIsWoken
  BY DEF IInv, Kept, Safe, ReplyIsWoken
<1>2. QED
  BY <1>1, SessionInvariant, PTL

\* In a protected session no file and no listing is transferred in the clear
\* (read_retr_resp, read_list_resp, data_tls_init).
THEOREM ProtectedData == Spec => []PrivateListing
<1>1. IInv => PrivateListing
  BY DEF IInv, Kept, Safe, PrivateListing
<1>2. QED
  BY <1>1, SessionInvariant, PTL

\* No directory is listed before robots.txt was asked for, and in a SUPER_SHORT
\* crawl no data channel is ever made (fetch_robots_txt, short_scan_ending).
THEOREM AsksRobotsFirst == Spec => []RobotsFirst
<1>1. IInv => RobotsFirst
  <2> SUFFICES ASSUME IInv PROVE RobotsFirst
    OBVIOUS
  <2>1. "LIST" \in {h.sent[i] : i \in DOMAIN h.sent} => Listed(h)
    BY DEF Listed
  <2>2. (Listed(h) => Ready(h)) /\ (crawlType = "SUPER_SHORT" => ~h.dataBev)
    BY DEF IInv, Kept, Safe
  <2>3. QED
    BY <2>1, <2>2 DEF RobotsFirst, Ready
<1>2. QED
  BY <1>1, SessionInvariant, PTL

\* No armed timer is overwritten, PASV makes no second data channel over the first,
\* freed memory is used only after too much data, a banner that came early or by the
\* event of a bufferevent that data_tls_init overwrote, which alone can end a host
\* twice, and an SSL object that is gone only after both methods were tried and the
\* server wanted TLS first (multi_resp_setup, read_pasv_resp, end_channel_now,
\* event_handled, data_close_channel, data_tls_init, handle_early_sec_req).
THEOREM ForgetsNothing == Spec => []NothingForgotten
<1>1. IInv => NothingForgotten
  BY DEF IInv, Kept, Faults, Explained, NothingForgotten
<1>2. QED
  BY <1>1, SessionInvariant, PTL

\* A host that ends is freed at once, but where it ends in a timer, at the end of its
\* data channel, or over a reply that comes while that channel is made
\* (ctrl_read_cb, ctrl_event_cb, data_event_cb, data_read_cb).
THEOREM FreedAtOnce == Spec => Freed
<1>1. IInv /\ [Next]_vars =>
        [~h.hostIsFinished /\ h'.hostIsFinished /\ ~h'.freed
           => Timer \/ DataClosed \/ h.state = "S_DATA_CONN" \/ h'.fault # "none"]_vars
  <2>1. ASSUME IInv, Next
        PROVE  ~h.hostIsFinished /\ h'.hostIsFinished /\ ~h'.freed
                 => Timer \/ DataClosed \/ h.state = "S_DATA_CONN" \/ h'.fault # "none"
    BY <2>1, NextSteps DEF Stepped, Haunted
  <2>2. QED
    BY <2>1
<1>2. QED
  BY <1>1, SessionInvariant, PTL DEF Spec, Freed

-----------------------------------------------------------------------------
\* The types of CtrlSession.  Typed is what TypeOK says of a host, and that a delayed
\* request is one.  There is a lemma for each operation and handler, in the order of the
\* code, that it keeps the types (Types), whatever became of the host before; then one
\* for each callback.  Handlers rest on what was set before: a transfer on what follows
\* it, a refused PROT on what to do then.  Walks and Known say so, and IInv that it was
\* set.

\* The fields of a host.
Names ==
  {"state", "lastState", "terminationCode", "result", "hostIsFinished", "freed", "fault",
   "conn", "ctrlUsingSec", "ctrlSec", "secType", "secProbe", "earlySecReq",
   "secProbeStorage", "postSecConnectCB", "delayedCtrlCB", "sent", "tick",
   "reqThisSecond", "numReqSent", "savedReqTimer", "savedReq", "savedNextState",
   "reqLimitReached", "closedSend", "multiRespState", "multiRespTimer",
   "multiRespEval", "resetWaitTimer", "retrWaitTimer", "dataBev", "dataIsConnected",
   "dataUsingSec", "xferType", "pasvAction", "pasvPost", "item", "dirQueue",
   "robotPresence", "robotObj", "listErrCount", "lieHashSet", "lieCount",
   "provedHonest", "connects", "listResp", "staleData"}

\* What may stand where a code belongs.
Codes == TerminationCodes \cup {"UNSET"}

\* A data connection is only overwritten where the server is too early.
StaleCounts == IF Rude("late_data") THEN Nat ELSE {0}

\* What TypeOK says of a host, and what sendSpigot_cb and data_event_cb rely on.
Typed(k) ==
  /\ DOMAIN k = Names
  /\ k.state \in States /\ k.lastState \in States \cup {"S_UNSET_STATE"}
  /\ {k.terminationCode, k.secProbeStorage} \subseteq Codes
  /\ k.result \in {"none", "PLEASANT", "ABRUPT", "RUDE"}
  /\ k.conn \in {"connecting", "up", "tls", "closed"}
  /\ k.ctrlSec \in {"none", "live", "freed"}
  /\ k.secType \in {"SEC_UNK", "SEC_PRIMARY", "SEC_SECONDARY"}
  /\ k.postSecConnectCB \in
       {"none", "send_user", "disconnect_pleasant", "post_ending", "post_middle"}
  /\ k.delayedCtrlCB \in {"none", "ctrl_read_cb", "read_retr_done", "read_list_done"}
  /\ k.sent \in Seq(Commands) /\ k.savedReq \in Commands \cup {"none"}
  /\ k.savedNextState \in ReplyStates \cup {"none"}
  /\ {k.reqThisSecond, k.numReqSent, k.dirQueue, k.listErrCount, k.lieCount,
      k.connects, k.listResp} \subseteq Nat
  /\ k.staleData \in StaleCounts
  /\ k.multiRespState \in {"UNK", "READ_ZERO", "READ_ONE"}
  /\ k.multiRespEval \in {"none", "user", "pass"}
  /\ k.xferType \in {"XFER_UNK", "XFER_FILE", "XFER_LIST"}
  /\ k.pasvAction \in {"none", "send_retr", "send_list"}
  /\ k.pasvPost \in
       {"none", "send_syst", "short_scan_ending", "walk_dir", "disconnect_pleasant"}
  /\ k.item \in {"none", "robots", "other", "root", "dir"}
  /\ k.robotPresence \in {"ROBOTS_UNK", "ROBOTS_YES", "ROBOTS_NO"}
  /\ {k.hostIsFinished, k.freed, k.ctrlUsingSec, k.secProbe, k.earlySecReq,
      k.tick, k.savedReqTimer, k.reqLimitReached, k.closedSend, k.multiRespTimer,
      k.resetWaitTimer, k.retrWaitTimer, k.dataBev, k.dataIsConnected,
      k.dataUsingSec, k.robotObj, k.lieHashSet, k.provedHonest} \subseteq BOOLEAN
  /\ k.savedReqTimer => k.savedReq # "none" /\ k.savedNextState # "none"

\* A transfer is under way: what follows it is known, and no banner waits.
Walks(k) == k.pasvPost # "none" /\ k.delayedCtrlCB # "ctrl_read_cb"

\* A handler that turns k into m keeps the types.
Types(k, m) == Typed(m) /\ (Walks(k) => Walks(m))

\* The record of a new host has its types, and the names TypeOK asks for.
LEMMA NewTyped == Typed(NewHost) /\ DOMAIN NewHost = Names
<1>1. DOMAIN NewHost = Names
  BY DEF NewHost, Names
<1>2. <<>> \in Seq(Commands)
  BY EmptySeq
<1>3. Typed(NewHost)
  BY <1>1, <1>2 DEF NewHost, Typed, States, Codes, StaleCounts
<1>4. QED
  BY <1>1, <1>3

-----------------------------------------------------------------------------
\* HostState.

\* What ends a host, and what is noted before.
LEMMA NotesTypes ==
  ASSUME NEW k, Typed(k)
  PROVE  /\ \A what : Types(k, crash(k, what))
         /\ \A s \in States : Types(k, enter(k, s))
         /\ \A code \in Codes : Types(k, fail(k, code))
         /\ Types(k, delete_all_timers(k)) /\ Types(k, note_last_state(k))
         /\ Types(k, free_if_finished(k))
<1>1. ASSUME NEW what
      PROVE  Types(k, crash(k, what))
  BY DEF crash, Types, Walks, Typed, Names
<1>2. ASSUME NEW s \in States
      PROVE  Types(k, enter(k, s))
  BY DEF enter, Types, Walks, Typed, Names
<1>3. ASSUME NEW code \in Codes
      PROVE  Types(k, fail(k, code))
  BY DEF fail, Types, Walks, Typed, Names
<1>4. Types(k, delete_all_timers(k))
  BY DEF delete_all_timers, Types, Walks, Typed, Names
<1>5. Types(k, note_last_state(k))
  BY DEF note_last_state, Types, Walks, Typed, Names
<1>6. Types(k, free_if_finished(k))
  <2>1. Types(k, k) /\ Types(k, [k EXCEPT !.freed = TRUE])
    BY DEF Types, Walks, Typed, Names
  <2>2. QED
    BY <2>1 DEF free_if_finished
<1>7. QED
  BY <1>1, <1>2, <1>3, <1>4, <1>5, <1>6

\* The two ways of disconnecting without a word.
LEMMA EndTypes ==
  ASSUME NEW k, Typed(k)
  PROVE  /\ Types(k, end_channel_now(k))
         /\ \A how \in Results : Types(k, disconnect(k, how))
         /\ \A code \in Codes : Types(k, abrupt(k, code))
<1>1. ASSUME NEW m, Typed(m)
      PROVE  Types(m, end_channel_now(m))
  <2> DEFINE d == delete_all_timers(m)
  <2>1. Types(m, d)
    BY <1>1, NotesTypes
  <2> HIDE DEF d
  <2>2. Types(d, [d EXCEPT !.dataBev = FALSE, !.dirQueue = 0, !.conn = "closed",
                           !.hostIsFinished = TRUE])
    BY <2>1 DEF Types, Walks, Typed, Names
  <2>3. QED
    BY <1>1, <2>1, <2>2, NotesTypes DEF end_channel_now, Types, d
<1>2. ASSUME NEW m, Typed(m), NEW how \in Results
      PROVE  Types(m, disconnect(m, how))
  <2> DEFINE d == note_last_state(m)
             e == [d EXCEPT !.result = how]
  <2>1. Types(m, d)
    BY <1>2, NotesTypes
  <2> HIDE DEF d
  <2>2. Types(d, e)
    BY <2>1 DEF Types, Walks, Typed, Names, Results
  <2> HIDE DEF e
  <2>3. Types(e, end_channel_now(e))
    BY <1>1, <2>2 DEF Types
  <2>4. QED
    BY <2>1, <2>2, <2>3 DEF disconnect, Types, d, e
<1>3. ASSUME NEW code \in Codes
      PROVE  Types(k, abrupt(k, code))
  <2>1. Types(k, fail(k, code)) /\ "ABRUPT" \in Results
    BY <1>3, NotesTypes DEF Results
  <2>2. QED
    BY <2>1, <1>2 DEF abrupt, disconnect_abrupt, Types
<1>4. QED
  BY <1>1, <1>2, <1>3

\* A request is sent, delayed or refused: all of them keep the types.
LEMMA AskTypes ==
  ASSUME NEW k, Typed(k), NEW req \in Commands, NEW next \in ReplyStates
  PROVE  Types(k, ask(k, next, req))
<1> DEFINE n == new_second(k)
<1>1. Types(k, n)
  <2>1. Types(k, k) /\ Types(k, [k EXCEPT !.tick = FALSE, !.reqThisSecond = 0])
    BY DEF Types, Walks, Typed, Names
  <2>2. QED
    BY <2>1 DEF new_second
<1>2. req # "none" /\ next # "none"
  BY DEF Commands, ReplyStates
<1>3. Types(k, clobber(k, next, req))
  BY <1>2 DEF clobber, Types, Walks, Typed, Names
<1>4. Types(k, hit_limit(k))
  BY DEF hit_limit, Types, Walks, Typed, Names, Codes, TerminationCodes
<1> HIDE DEF n
<1>5. Types(n, arm(n, next, req))
  BY <1>1, <1>2 DEF arm, Types, Walks, Typed, Names
<1>6. ASSUME NEW m, Typed(m)
      PROVE  Types(m, transmit(m, TRUE, next, req)) /\ Types(m, count(m))
  <2> DEFINE a == Append(m.sent, req)
  <2>1. a \in Seq(Commands)
    BY <1>6, AppendProperties DEF Typed
  <2>2. next \in States
    BY DEF States
  <2> HIDE DEF a
  <2>3. Types(m, [m EXCEPT !.sent = a, !.state = next])
    BY <1>6, <2>1, <2>2 DEF Types, Walks, Typed, Names
  <2>4. Types(m, transmit(m, TRUE, next, req))
    BY <2>3 DEF transmit, change_state, a
  <2> DEFINE x == m.reqThisSecond + 1
             y == m.numReqSent + 1
  <2>5. x \in Nat /\ y \in Nat
    <3>1. m.reqThisSecond \in Nat /\ m.numReqSent \in Nat
      BY <1>6 DEF Typed
    <3>2. QED
      BY <3>1
  <2> HIDE DEF x, y
  <2>6. Types(m, [m EXCEPT !.reqThisSecond = x, !.numReqSent = y])
    BY <1>6, <2>5 DEF Types, Walks, Typed, Names
  <2>7. Types(m, count(m))
    BY <2>6 DEF count, x, y
  <2>8. QED
    BY <2>4, <2>7
<1> DEFINE t == transmit(n, TRUE, next, req)
<1>7. Types(n, t) /\ Types(t, count(t))
  BY <1>1, <1>6 DEF Types
<1> HIDE DEF t
<1>8. Types(k, sendSpigot(k, TRUE, next, req))
  BY <1>1, <1>3, <1>4, <1>5, <1>7 DEF sendSpigot, Types, n, t
<1>9. QED
  BY <1>8, NotesTypes DEF ask

\* So do the requests of the handlers.
LEMMA SendTypes ==
  ASSUME NEW k, Typed(k)
  PROVE  /\ Types(k, send_user(k)) /\ Types(k, send_pass(k)) /\ Types(k, send_syst(k))
         /\ Types(k, send_pwd(k)) /\ Types(k, send_pasv(k)) /\ Types(k, send_help(k))
         /\ Types(k, send_feat(k)) /\ Types(k, send_stat(k)) /\ Types(k, send_site(k))
         /\ Types(k, send_port(k)) /\ Types(k, send_quit(k)) /\ Types(k, send_pbsz(k))
         /\ Types(k, send_prot(k)) /\ Types(k, send_auth_tls(k))
         /\ Types(k, send_auth_ssl(k)) /\ Types(k, send_port_list(k))
         /\ Types(k, send_retr(k)) /\ Types(k, send_list(k))
<1> DEFINE i == multi_resp_init(k)
<1>1. Types(k, i)
  BY DEF multi_resp_init, Types, Walks, Typed, Names
<1>2. ASSUME NEW m, Typed(m), NEW x \in {"XFER_FILE", "XFER_LIST"}
      PROVE  Types(m, [m EXCEPT !.xferType = x])
  BY <1>2 DEF Types, Walks, Typed, Names
<1> HIDE DEF i
<1>3. Types(k, send_user(k)) /\ Types(k, send_pass(k))
  <2>1. Types(i, ask(i, "S_USER_SENT", "USER")) /\ Types(i, ask(i, "S_PASS_SENT", "PASS"))
    BY <1>1, AskTypes DEF Types, Commands, ReplyStates
  <2>2. QED
    BY <1>1, <2>1 DEF send_user, send_pass, Types, i
<1>4. /\ Types(k, send_syst(k)) /\ Types(k, send_pwd(k)) /\ Types(k, send_pasv(k))
      /\ Types(k, send_help(k)) /\ Types(k, send_feat(k)) /\ Types(k, send_stat(k))
  BY AskTypes DEF send_syst, send_pwd, send_pasv, send_help, send_feat, send_stat,
                  Commands, ReplyStates
<1>5. /\ Types(k, send_site(k)) /\ Types(k, send_port(k)) /\ Types(k, send_quit(k))
      /\ Types(k, send_pbsz(k)) /\ Types(k, send_prot(k)) /\ Types(k, send_auth_tls(k))
      /\ Types(k, send_auth_ssl(k))
  BY AskTypes DEF send_site, send_port, send_quit, send_pbsz, send_prot, send_auth_tls,
                  send_auth_ssl, Commands, ReplyStates
<1>6. /\ Types(k, ask(k, "S_PORT_LIST_SENT", "PORT_LIST"))
      /\ Types(k, ask(k, "S_RETR_SENT", "RETR")) /\ Types(k, ask(k, "S_LIST_SENT", "LIST"))
  BY AskTypes DEF Commands, ReplyStates
<1>7. Types(k, send_port_list(k)) /\ Types(k, send_retr(k)) /\ Types(k, send_list(k))
  BY <1>2, <1>6 DEF send_port_list, send_retr, send_list, Types
<1>8. QED
  BY <1>3, <1>4, <1>5, <1>7

\* And the way of disconnecting that says goodbye.
LEMMA PleasantTypes ==
  ASSUME NEW k, Typed(k)
  PROVE  /\ Types(k, disconnect_pleasant(k))
         /\ \A code \in Codes : Types(k, pleasant(k, code))
         /\ \A code \in Codes : Types(k, unexpected_reply(k, code))
<1>1. ASSUME NEW m, Typed(m)
      PROVE  Types(m, disconnect_pleasant(m))
  BY <1>1, NotesTypes, SendTypes DEF disconnect_pleasant, Types
<1>2. ASSUME NEW code \in Codes
      PROVE  Types(k, pleasant(k, code))
  <2>1. Types(k, fail(k, code))
    BY NotesTypes
  <2>2. QED
    BY <1>1, <2>1 DEF pleasant, Types
<1>3. QED
  BY <1>1, <1>2 DEF unexpected_reply

\* A reply that parse_response can give a verdict on.
Reported(r) == r.size \in Sizes /\ (r.size = "ERROR" => r.kind \in Codes)

\* parse_response keeps the types if what the caller does with a reply does.
LEMMA ParseTypes ==
  ASSUME NEW k, Typed(k), NEW r, Reported(r), NEW x, NEW m
  PROVE  /\ (r.size = "EXTRA" => Types(k, x)) /\ (r.size = "FOUND" => Types(k, m))
              => Types(k, parse_response(k, r, x, m))
         /\ (r.size \in {"FOUND", "EXTRA"} => Types(k, m)) => Types(k, parse_first(k, r, m))
         /\ (r.size = "FOUND" => Types(k, m)) => Types(k, single(k, r, m))
<1>1. /\ Types(k, crash(k, "no_channel")) /\ (r.size = "ERROR" => Types(k, abrupt(k, r.kind)))
      /\ Types(k, handle_extra_resp_error(k)) /\ Types(k, k)
  <2>1. "FAIL_EXTRA_RESP" \in Codes
    BY DEF Codes, TerminationCodes
  <2>2. QED
    BY <2>1, NotesTypes, EndTypes, PleasantTypes DEF handle_extra_resp_error, Reported, Types
<1>2. QED
  BY <1>1 DEF parse_first, single, parse_response, Reported, Sizes

\* A caller that goes on keeps the types if what it goes on to does.
LEMMA ThenTypes ==
  ASSUME NEW k, Typed(k), NEW m, k.fault = "none" /\ ~k.freed => Types(k, m)
  PROVE  Types(k, then_on(k, m))
<1>1. Types(k, crash(k, "use_after_free")) /\ Types(k, k) /\ k.freed \in BOOLEAN
  <2>1. k.freed \in BOOLEAN
    BY DEF Typed
  <2>2. QED
    BY <2>1, NotesTypes DEF Types
<1>2. QED
  BY <1>1 DEF then_on

\* Nothing done keeps the types.
LEMMA SelfTypes == \A k : Typed(k) => Types(k, k)
BY DEF Types

-----------------------------------------------------------------------------
\* ctrlSecurity.c

\* What leads to a handshake, and to a connection of its own.
LEMMA SecTypes ==
  ASSUME NEW k, Typed(k)
  PROVE  /\ \A after \in SecCallbacks : Types(k, sec_check(k, after))
         /\ Types(k, setup_ending(k)) /\ Types(k, setup_middle(k))
         /\ Types(k, init_tls_connection(k))
         /\ Types(k, ctrl_reconnect(k)) /\ Types(k, handle_early_sec_req(k))
<1>1. ASSUME NEW m, Typed(m), NEW after \in SecCallbacks
      PROVE  Types(m, sec_check(m, after))
  <2> DEFINE n == [m EXCEPT !.postSecConnectCB = after]
  <2>1. Types(m, n)
    BY <1>1 DEF Types, Walks, Typed, Names, SecCallbacks
  <2> HIDE DEF n
  <2>2. Types(n, send_auth_tls(n))
    BY <2>1, SendTypes DEF Types
  <2>3. QED
    BY <2>1, <2>2 DEF sec_check, Types, n
<1>2. Types(k, setup_ending(k))
  <2>1. Types(k, [k EXCEPT !.secProbe = TRUE]) /\ "post_ending" \in SecCallbacks
    BY DEF Types, Walks, Typed, Names, SecCallbacks
  <2>2. QED
    BY <1>1, <2>1 DEF setup_ending, Types
<1>3. Types(k, setup_middle(k))
  <2>1. /\ Types(k, [k EXCEPT !.secProbe = TRUE, !.secProbeStorage = k.terminationCode])
        /\ "post_middle" \in SecCallbacks
    BY DEF Types, Walks, Typed, Names, SecCallbacks
  <2>2. QED
    BY <1>1, <2>1, PleasantTypes DEF setup_middle, Types
<1>4. Types(k, init_tls_connection(k))
  <2>1. ASSUME NEW type \in {"SEC_PRIMARY", "SEC_SECONDARY"}
        PROVE  Types(k, [k EXCEPT !.secType = type, !.ctrlSec = "live",
                                  !.ctrlUsingSec = TRUE, !.conn = "tls",
                                  !.state = "S_SECURITY_CONNECTING"])
    BY DEF Types, Walks, Typed, Names, States
  <2>2. QED
    BY <2>1, NotesTypes DEF init_tls_connection
<1>5. ASSUME NEW m, Typed(m)
      PROVE  Types(m, ctrl_reconnect(m))
  <2> DEFINE x == m.connects + 1
  <2>1. x \in Nat
    <3>1. m.connects \in Nat
      BY <1>5 DEF Typed
    <3>2. QED
      BY <3>1
  <2> HIDE DEF x
  <2>2. Types(m, [m EXCEPT !.state = "S_INITIAL", !.ctrlUsingSec = FALSE, !.item = "none",
                           !.conn = "connecting", !.connects = x])
    BY <1>5, <2>1 DEF Types, Walks, Typed, Names, States
  <2>3. QED
    BY <2>2 DEF ctrl_reconnect, x
<1>6. Types(k, handle_early_sec_req(k))
  <2> DEFINE d == delete_all_timers(k)
             s == IF k.ctrlUsingSec THEN "freed" ELSE d.ctrlSec
             e == [d EXCEPT !.earlySecReq = TRUE, !.ctrlSec = s]
  <2>1. Types(k, d)
    BY NotesTypes
  <2> HIDE DEF d
  <2>2. s \in {"none", "live", "freed"}
    BY <2>1 DEF Types, Typed
  <2> HIDE DEF s
  <2>3. Types(d, e)
    BY <2>1, <2>2 DEF Types, Walks, Typed, Names
  <2>4. e = [d EXCEPT !.earlySecReq = TRUE, !.ctrlSec = IF k.ctrlUsingSec THEN "freed" ELSE @]
    BY DEF s
  <2> HIDE DEF e
  <2>5. Types(e, ctrl_reconnect(e))
    BY <1>5, <2>3 DEF Types
  <2>6. Types(k, abrupt(k, "FAIL_EARLY_SEC_LOOP"))
    BY EndTypes DEF Codes, TerminationCodes
  <2>7. QED
    BY <2>1, <2>3, <2>4, <2>5, <2>6 DEF handle_early_sec_req, Types, d
<1>7. QED
  BY <1>1, <1>2, <1>3, <1>4, <1>5, <1>6

\* What follows a handshake, or its refusal.
LEMMA SecEndTypes ==
  ASSUME NEW k, Typed(k)
  PROVE  /\ k.postSecConnectCB # "none" => Types(k, send_after_sec(k))
         /\ \A code \in Codes : Types(k, sec_refused(k, code))
<1>1. "SUCCESS_EXIT" \in Codes
  BY DEF Codes, TerminationCodes
<1>2. k.secProbeStorage \in Codes /\ k.postSecConnectCB \in SecCallbacks \cup {"none"}
  BY DEF Typed, SecCallbacks
<1>3. k.postSecConnectCB # "none" => Types(k, send_after_sec(k))
  BY <1>1, <1>2, SendTypes, PleasantTypes DEF send_after_sec, SecCallbacks
<1>4. ASSUME NEW code \in Codes
      PROVE  Types(k, sec_refused(k, code))
  BY <1>1, <1>3, PleasantTypes DEF sec_refused, IsProbe
<1>5. QED
  BY <1>3, <1>4

\* The replies to AUTH, PBSZ and PROT.
LEMMA ReadSecTypes ==
  ASSUME NEW k, Typed(k), NEW r, Reported(r)
  PROVE  /\ Types(k, read_auth_tls_resp(k, r)) /\ Types(k, read_auth_ssl_resp(k, r))
         /\ Types(k, read_pbsz_resp(k, r))
         /\ k.postSecConnectCB # "none" => Types(k, read_prot_resp(k, r))
<1>1. {"FAIL_TLS_REFUSED", "FAIL_SSL_REFUSED", "FAIL_PBSZ_OK", "FAIL_PROT_OK",
       "SUCCESS_EXIT"} \subseteq Codes
  BY DEF Codes, TerminationCodes
<1>2. /\ Types(k, init_tls_connection(k)) /\ Types(k, handle_early_sec_req(k))
      /\ Types(k, send_auth_ssl(k)) /\ Types(k, send_prot(k))
      /\ Types(k, crash(k, "assert_secProbe"))
  BY SecTypes, SendTypes, NotesTypes
<1>3. /\ \A code \in {"FAIL_TLS_REFUSED", "FAIL_SSL_REFUSED"} : Types(k, sec_refused(k, code))
      /\ Types(k, unexpected_reply(k, "FAIL_PBSZ_OK"))
      /\ Types(k, unexpected_reply(k, "FAIL_PROT_OK")) /\ Types(k, pleasant(k, "SUCCESS_EXIT"))
      /\ k.postSecConnectCB # "none" => Types(k, send_after_sec(k))
  BY <1>1, SecEndTypes, PleasantTypes
<1>4. Types(k, read_auth_tls_resp(k, r))
  <2> DEFINE m == CASE r.kind = "ok" -> init_tls_connection(k)
                    [] r.kind = "534" -> send_auth_ssl(k)
                    [] r.kind = "503" -> IF k.secProbe THEN handle_early_sec_req(k)
                                         ELSE crash(k, "assert_secProbe")
                    [] OTHER -> sec_refused(k, "FAIL_TLS_REFUSED")
  <2>1. Types(k, m)
    BY <1>2, <1>3
  <2> HIDE DEF m
  <2>2. QED
    BY <2>1, ParseTypes DEF read_auth_tls_resp, m
<1>5. Types(k, read_auth_ssl_resp(k, r))
  BY <1>2, <1>3, ParseTypes DEF read_auth_ssl_resp
<1>6. Types(k, read_pbsz_resp(k, r))
  <2> DEFINE m == CASE r.kind = "ok" -> send_prot(k)
                    [] r.kind = "no" /\ k.postSecConnectCB = "post_ending" -> send_after_sec(k)
                    [] OTHER -> unexpected_reply(k, "FAIL_PBSZ_OK")
  <2>1. Types(k, m)
    BY <1>2, <1>3
  <2> HIDE DEF m
  <2>2. QED
    BY <2>1, ParseTypes DEF read_pbsz_resp, m
<1>7. ASSUME k.postSecConnectCB # "none"
      PROVE  Types(k, read_prot_resp(k, r))
  <2> DEFINE m == CASE r.kind = "ok" ->
                         IF k.postSecConnectCB = "disconnect_pleasant"
                         THEN pleasant(k, "SUCCESS_EXIT") ELSE send_after_sec(k)
                    [] r.kind = "no" /\ IsProbe(k) -> send_after_sec(k)
                    [] OTHER -> unexpected_reply(k, "FAIL_PROT_OK")
  <2>1. Types(k, m)
    BY <1>3, <1>7
  <2> HIDE DEF m
  <2>2. QED
    BY <2>1, ParseTypes DEF read_prot_resp, m
<1>8. QED
  BY <1>4, <1>5, <1>6, <1>7

\* The banner, and the reply behind it.
LEMMA BannerTypes ==
  ASSUME NEW k, Typed(k), NEW r, Reported(r), NEW more, Reported(more)
  PROVE  Types(k, read_banner(k, r, more))
<1>1. after_early_sec(k) \in SecCallbacks /\ "send_user" \in SecCallbacks
  BY DEF after_early_sec, SecCallbacks
<1>2. /\ Types(k, sec_check(k, after_early_sec(k))) /\ Types(k, sec_check(k, "send_user"))
      /\ Types(k, send_user(k))
  BY <1>1, SecTypes, SendTypes
<1>3. Types(k, read_additional_banner_resp(k, more))
  <2> DEFINE m == CASE more.kind = "early_sec" -> sec_check(k, "send_user")
                    [] more.kind # "early_sec" /\ k.earlySecReq -> sec_check(k, after_early_sec(k))
                    [] OTHER -> send_user(k)
  <2>1. Types(k, m)
    BY <1>2
  <2> HIDE DEF m
  <2>2. QED
    BY <2>1, ParseTypes DEF read_additional_banner_resp, m
<1>4. {"FAIL_CFAA_BAN", "FAIL_VPS_NO_HOST", "FAIL_VSFTPD_BANNER_ERROR",
       "FAIL_SESSION_LIMIT", "FAIL_BANNER_RET"} \subseteq Codes
  BY DEF Codes, TerminationCodes
<1>5. Types(k, setup_middle(fail(k, "FAIL_CFAA_BAN")))
  BY <1>4, NotesTypes, SecTypes DEF Types
<1>6. /\ \A code \in {"FAIL_VPS_NO_HOST", "FAIL_VSFTPD_BANNER_ERROR", "FAIL_SESSION_LIMIT"} :
           Types(k, abrupt(k, code))
      /\ Types(k, unexpected_reply(k, "FAIL_BANNER_RET"))
  BY <1>4, EndTypes, PleasantTypes
<1> DEFINE m == CASE r.kind = "cfaa" -> setup_middle(fail(k, "FAIL_CFAA_BAN"))
                  [] r.kind = "ok" /\ r.size = "EXTRA" -> read_additional_banner_resp(k, more)
                  [] r.kind = "ok" /\ r.size = "FOUND" ->
                       IF k.earlySecReq \/ k.secProbe
                       THEN sec_check(k, after_early_sec(k)) ELSE send_user(k)
                  [] r.kind \in {"FAIL_VPS_NO_HOST", "FAIL_VSFTPD_BANNER_ERROR",
                                 "FAIL_SESSION_LIMIT"} -> abrupt(k, r.kind)
                  [] OTHER -> unexpected_reply(k, "FAIL_BANNER_RET")
<1>7. Types(k, m)
  BY <1>2, <1>3, <1>5, <1>6
<1> HIDE DEF m
<1>8. QED
  BY <1>7, ParseTypes DEF read_banner, m

-----------------------------------------------------------------------------
\* The directory walk.

\* What asks for robots.txt and for the directories.
LEMMA WalkTypes ==
  ASSUME NEW k, Typed(k), NEW skip \in Nat
  PROVE  /\ Types(k, fetch_robots_txt(k)) /\ Types(k, short_scan_ending(k))
         /\ Types(k, walk_dir(k, skip)) /\ Types(k, walk_dir_init(k, skip))
         /\ Types(k, handle_robots_txt(k))
<1>1. "SUCCESS_EXIT" \in Codes
  BY DEF Codes, TerminationCodes
<1>2. Types(k, fetch_robots_txt(k))
  <2> DEFINE i == IF k.item = "none" THEN "robots" ELSE "other"
             p == IF crawlType = "NORMAL" THEN "send_syst" ELSE "short_scan_ending"
             n == [k EXCEPT !.item = i, !.xferType = "XFER_FILE", !.pasvAction = "send_retr",
                            !.pasvPost = p]
  <2>1. i \in {"robots", "other"} /\ p \in {"send_syst", "short_scan_ending"}
    OBVIOUS
  <2>2. n = [k EXCEPT !.item = IF @ = "none" THEN "robots" ELSE "other",
                      !.xferType = "XFER_FILE", !.pasvAction = "send_retr",
                      !.pasvPost = IF crawlType = "NORMAL" THEN "send_syst"
                                   ELSE "short_scan_ending"]
    OBVIOUS
  <2> HIDE DEF i, p
  <2>3. Types(k, n)
    BY <2>1 DEF Types, Walks, Typed, Names
  <2> HIDE DEF n
  <2>4. QED
    BY <2>2, <2>3, SendTypes DEF fetch_robots_txt, Types
<1>3. Types(k, short_scan_ending(k))
  BY <1>1, SendTypes, PleasantTypes DEF short_scan_ending
<1>4. ASSUME NEW m, Typed(m)
      PROVE  Types(m, walk_dir(m, skip))
  <2> DEFINE e == [m EXCEPT !.dirQueue = 0, !.item = "none", !.listResp = 0]
             x == m.dirQueue - skip - 1
             n == [m EXCEPT !.dirQueue = x, !.item = "dir", !.listResp = 0]
  <2>1. m.dirQueue \in Nat /\ m.lieCount \in Nat
    BY <1>4 DEF Typed
  <2>2. Types(m, e)
    BY <1>4 DEF Types, Walks, Typed, Names
  <2>3. skip < m.dirQueue => x \in Nat
    BY <2>1
  <2> HIDE DEF x
  <2>4. skip < m.dirQueue => Types(m, n)
    BY <1>4, <2>3 DEF Types, Walks, Typed, Names
  <2>5. n = [m EXCEPT !.dirQueue = @ - skip - 1, !.item = "dir", !.listResp = 0]
    BY DEF x
  <2> HIDE DEF e, n
  <2>6. Types(m, send_help(e)) /\ Types(m, pleasant(e, "SUCCESS_EXIT"))
    BY <1>1, <2>2, SendTypes, PleasantTypes DEF Types
  <2>7. skip < m.dirQueue => Types(m, send_pasv(n))
    BY <2>4, SendTypes DEF Types
  <2>8. Types(m, end_walk(m))
    BY <2>6 DEF end_walk, e
  <2>9. QED
    BY <2>5, <2>6, <2>7, <2>8 DEF walk_dir, e
<1>5. Types(k, walk_dir_init(k, skip))
  <2>1. Types(k, [k EXCEPT !.pasvAction = "send_list", !.pasvPost = "walk_dir"])
    BY DEF Types, Walks, Typed, Names
  <2>2. QED
    BY <1>4, <2>1 DEF walk_dir_init, Types
<1>6. Types(k, handle_robots_txt(k))
  <2> DEFINE o == k.robotObj \/ crawlType = "NORMAL"
  <2>1. o \in BOOLEAN
    OBVIOUS
  <2>2. handle_robots_txt(k) = [k EXCEPT !.robotObj = o]
    BY DEF handle_robots_txt
  <2> HIDE DEF o
  <2>3. QED
    BY <2>1, <2>2 DEF Types, Walks, Typed, Names
<1>7. QED
  BY <1>2, <1>3, <1>4, <1>5, <1>6

\* What follows a transfer, where it is known.
LEMMA PostTypes ==
  ASSUME NEW k, Typed(k), Walks(k), NEW skip \in Nat
  PROVE  Types(k, pasvPost(k, skip))
<1>1. k.pasvPost \in {"send_syst", "short_scan_ending", "walk_dir", "disconnect_pleasant"}
  BY DEF Typed, Walks
<1>2. QED
  BY <1>1, SendTypes, WalkTypes, PleasantTypes DEF pasvPost

\* The replies to SYST, PWD and PASV.
LEMMA ReadAskTypes ==
  ASSUME NEW k, Typed(k), NEW r, Reported(r), NEW skip \in Nat
  PROVE  /\ Types(k, read_syst_resp(k, r)) /\ Types(k, read_pwd_resp(k, r, skip))
         /\ (r.size = "FOUND" => r.kind \in {"ok", "no", "odd"}) => Types(k, read_pasv_resp(k, r))
<1>1. Types(k, read_syst_resp(k, r))
  <2> DEFINE n == [k EXCEPT !.item = "root", !.pasvAction = "send_list",
                            !.pasvPost = "disconnect_pleasant"]
  <2>1. Types(k, n)
    BY DEF Types, Walks, Typed, Names
  <2> HIDE DEF n
  <2>2. Types(k, send_pasv(n)) /\ Types(k, send_pwd(k))
    BY <2>1, SendTypes DEF Types
  <2>3. QED
    BY <2>2, ParseTypes DEF read_syst_resp, n
<1>2. Types(k, read_pwd_resp(k, r, skip))
  <2> DEFINE x == k.dirQueue + 1
             n == [k EXCEPT !.dirQueue = x]
  <2>1. x \in Nat
    <3>1. k.dirQueue \in Nat
      BY DEF Typed
    <3>2. QED
      BY <3>1
  <2>2. n = [k EXCEPT !.dirQueue = @ + 1]
    OBVIOUS
  <2> HIDE DEF x
  <2>3. Types(k, n)
    BY <2>1 DEF Types, Walks, Typed, Names
  <2> HIDE DEF n
  <2>4. Types(k, walk_dir_init(n, skip))
    BY <2>3, WalkTypes DEF Types
  <2>5. QED
    BY <2>2, <2>4, ParseTypes DEF read_pwd_resp
<1>3. ASSUME r.size = "FOUND" => r.kind \in {"ok", "no", "odd"}
      PROVE  Types(k, read_pasv_resp(k, r))
  <2> DEFINE e == enter(k, "S_DATA_CONN")
             n == [e EXCEPT !.dataBev = TRUE, !.dataIsConnected = FALSE, !.dataUsingSec = FALSE]
             m == CASE r.kind = "no" -> unexpected_reply(k, "FAIL_PASV_RESP")
                    [] r.kind = "odd" -> unexpected_reply(k, "FAIL_PASV_SCAN")
                    [] r.kind = "ok" ->
                         IF k.dataBev THEN crash(k, "data_bev_lost")
                         ELSE IF k.pasvAction = "send_retr" THEN send_retr(n) ELSE send_list(n)
  <2>1. Types(k, e)
    BY NotesTypes DEF States
  <2> HIDE DEF e
  <2>2. Types(e, n)
    BY <2>1 DEF Types, Walks, Typed, Names
  <2> HIDE DEF n
  <2>3. Types(k, send_retr(n)) /\ Types(k, send_list(n))
    BY <2>1, <2>2, SendTypes DEF Types
  <2>4. /\ Types(k, unexpected_reply(k, "FAIL_PASV_RESP"))
        /\ Types(k, unexpected_reply(k, "FAIL_PASV_SCAN"))
    BY PleasantTypes DEF Codes, TerminationCodes
  <2>5. Types(k, crash(k, "data_bev_lost"))
    BY NotesTypes
  <2>6. r.size = "FOUND" => Types(k, m)
    BY <1>3, <2>3, <2>4, <2>5
  <2> HIDE DEF m
  <2>7. Types(k, single(k, r, m))
    BY <2>6, ParseTypes
  <2>8. QED
    BY <2>7 DEF read_pasv_resp, m, n, e
<1>4. QED
  BY <1>1, <1>2, <1>3
-----------------------------------------------------------------------------
\* The data channel, and the replies around a transfer.

\* What a step can be given.
Given(c) ==
  /\ Reported(c.r) /\ Reported(c.more) /\ c.over \in BOOLEAN
  /\ c.dirs \in Nat /\ c.skip \in Nat

\* The data channel closes, and its listing is read.
LEMMA CloseTypes ==
  ASSUME NEW k, Typed(k), NEW c, Given(c)
  PROVE  Types(k, data_overflow(k)) /\ Types(k, close_data_bev(k, c))
<1>1. Types(k, data_overflow(k))
  <2>1. Types(k, abrupt(k, "FAIL_TRAP_DATA_AMT"))
    BY EndTypes DEF Codes, TerminationCodes
  <2>2. QED
    BY <2>1, NotesTypes DEF data_overflow, Types
<1>2. Types(k, check_lie(k, c.text))
  <2> DEFINE x == k.lieCount + 1
  <2>1. x \in Nat
    <3>1. k.lieCount \in Nat
      BY DEF Typed
    <3>2. QED
      BY <3>1
  <2> HIDE DEF x
  <2>2. /\ Types(k, [k EXCEPT !.lieHashSet = TRUE, !.lieCount = 0])
        /\ Types(k, [k EXCEPT !.lieCount = x]) /\ Types(k, [k EXCEPT !.provedHonest = TRUE])
    BY <2>1 DEF Types, Walks, Typed, Names
  <2>3. QED
    BY <2>2, SelfTypes DEF check_lie, x
<1> DEFINE l == check_lie(k, c.text)
           y == l.dirQueue + c.dirs
           p == parse_list_data(k, c)
<1> HIDE DEF l
<1>3. y \in Nat
  <2>1. l.dirQueue \in Nat /\ c.dirs \in Nat
    BY <1>2 DEF l, Types, Typed, Given
  <2>2. QED
    BY <2>1
<1> HIDE DEF y
<1>4. Types(l, [l EXCEPT !.dirQueue = y])
  BY <1>2, <1>3 DEF l, Types, Walks, Typed, Names
<1>5. Types(k, p)
  BY <1>2, <1>4, SelfTypes DEF parse_list_data, Types, l, y
<1> HIDE DEF p
<1>6. Types(p, [p EXCEPT !.dataBev = FALSE, !.dataIsConnected = FALSE])
  BY <1>5 DEF Types, Walks, Typed, Names
<1>7. k.dataBev \in BOOLEAN /\ c.over \in BOOLEAN
  BY DEF Typed, Given
<1>8. Types(k, close_data_bev(k, c))
  BY <1>1, <1>5, <1>6, <1>7, SelfTypes DEF close_data_bev, Types, p
<1>9. QED
  BY <1>1, <1>8

\* The reply after a transfer of robots.txt, which may have to wait for the data.
LEMMA RetrDoneTypes ==
  ASSUME NEW k, Typed(k), Walks(k), NEW c, Given(c),
         NEW r, Reported(r), r.size = "FOUND" => r.kind \in {"ok", "no", "odd"}
  PROVE  Types(k, read_retr_done(k, r, c))
<1> DEFINE n == [k EXCEPT !.retrWaitTimer = FALSE]
           p == IF n.item = "robots" THEN "ROBOTS_NO" ELSE n.robotPresence
           a == [n EXCEPT !.retrWaitTimer = FALSE, !.robotPresence = p, !.robotObj = TRUE]
<1>1. Types(k, n) /\ Types(k, [k EXCEPT !.delayedCtrlCB = "read_retr_done"])
  BY DEF Types, Walks, Typed, Names
<1> HIDE DEF n
<1>2. p \in {"ROBOTS_UNK", "ROBOTS_YES", "ROBOTS_NO"}
  BY <1>1 DEF Types, Typed
<1>3. a = [n EXCEPT !.retrWaitTimer = FALSE,
                    !.robotPresence = IF n.item = "robots" THEN "ROBOTS_NO" ELSE @,
                    !.robotObj = TRUE]
  OBVIOUS
<1> HIDE DEF p
<1>4. Types(n, a)
  BY <1>1, <1>2 DEF Types, Walks, Typed, Names
<1> HIDE DEF a
<1>5. c.skip \in Nat
  BY DEF Given
<1>6. Types(n, after_retr(n, c))
  BY <1>1, <1>3, <1>4, <1>5, PostTypes DEF after_retr, Types
<1>7. Types(n, pasvPost(handle_robots_txt(n), c.skip))
  BY <1>1, <1>5, WalkTypes, PostTypes DEF Types
<1>8. Types(n, unexpected_reply(n, "FAIL_RETR_DONE"))
  BY <1>1, PleasantTypes DEF Types, Codes, TerminationCodes
<1> DEFINE m == CASE r.kind = "ok" -> pasvPost(handle_robots_txt(n), c.skip)
                  [] r.kind = "no" -> after_retr(n, c)
                  [] r.kind = "odd" -> unexpected_reply(n, "FAIL_RETR_DONE")
<1>9. r.size = "FOUND" => Types(k, m)
  BY <1>1, <1>6, <1>7, <1>8 DEF Types
<1> HIDE DEF m
<1>10. QED
  BY <1>1, <1>9, ParseTypes DEF read_retr_done, m, n

\* The reply after a listing, which may have to wait for the data as well.
LEMMA ListDoneTypes ==
  ASSUME NEW k, Typed(k)
  PROVE  /\ Types(k, list_error(k))
         /\ Walks(k) => \A skip \in Nat, code \in Codes : Types(k, list_failed(k, code, skip))
         /\ Walks(k) => \A r, c : Reported(r) /\ Given(c) => Types(k, read_list_done(k, r, c))
<1>1. Types(k, list_error(k))
  <2> DEFINE x == IF k.listErrCount > LIST_ERROR_CUTOFF THEN k.listErrCount ELSE k.listErrCount + 1
  <2>1. x \in Nat
    <3>1. k.listErrCount \in Nat
      BY DEF Typed
    <3>2. QED
      BY <3>1
  <2>2. list_error(k) = [k EXCEPT !.listErrCount = x]
    BY DEF list_error
  <2> HIDE DEF x
  <2>3. QED
    BY <2>1, <2>2 DEF Types, Walks, Typed, Names
<1>2. ASSUME NEW m, Typed(m), Walks(m), NEW skip \in Nat, NEW code \in Codes
      PROVE  Types(m, list_failed(m, code, skip))
  BY <1>2, PleasantTypes, PostTypes DEF list_failed
<1>3. ASSUME Walks(k), NEW r, NEW c, Reported(r), Given(c)
      PROVE  Types(k, read_list_done(k, r, c))
  <2>1. Types(k, [k EXCEPT !.delayedCtrlCB = "read_list_done"])
    BY <1>3 DEF Types, Walks, Typed, Names
  <2>2. c.skip \in Nat /\ "FAIL_LIST_DONE" \in Codes /\ "SUCCESS_EXIT" \in Codes
    BY <1>3 DEF Given, Codes, TerminationCodes
  <2>3. Types(k, list_failed(list_error(k), "FAIL_LIST_DONE", c.skip))
    BY <1>1, <1>2, <1>3, <2>2 DEF Types
  <2>4. Types(k, pleasant(k, "SUCCESS_EXIT")) /\ Types(k, pasvPost(k, c.skip))
    BY <1>3, <2>2, PleasantTypes, PostTypes
  <2> DEFINE m == IF r.kind # "ok" THEN list_failed(list_error(k), "FAIL_LIST_DONE", c.skip)
                  ELSE IF k.pasvPost = "disconnect_pleasant" THEN pleasant(k, "SUCCESS_EXIT")
                  ELSE pasvPost(k, c.skip)
  <2>5. Types(k, m)
    BY <2>3, <2>4
  <2> HIDE DEF m
  <2>6. QED
    BY <1>3, <2>1, <2>5, ParseTypes DEF read_list_done, m
<1>4. QED
  BY <1>1, <1>2, <1>3

\* A reply behind the one that is read: it can come after a transfer.
ReportedWell(r) == Reported(r) /\ (r.size = "FOUND" => r.kind \in {"ok", "no", "odd"})

\* The data channel closes, and the handler that waited for it runs.
LEMMA ShutTypes ==
  ASSUME NEW k, Typed(k), Walks(k), NEW c, Given(c), ReportedWell(c.more)
  PROVE  Types(k, data_close_channel(k, c))
<1> DEFINE n == close_data_bev(k, c)
           d == [n EXCEPT !.delayedCtrlCB = "none"]
<1>1. Types(k, n)
  BY CloseTypes
<1> HIDE DEF n
<1>2. Types(n, d) /\ Walks(d)
  BY <1>1 DEF Types, Walks, Typed, Names
<1> HIDE DEF d
<1>3. Types(n, read_retr_done(d, c.more, c)) /\ Types(n, read_list_done(d, c.more, c))
  BY <1>2, RetrDoneTypes, ListDoneTypes DEF Types, ReportedWell
<1>4. n.freed \in BOOLEAN /\ n.delayedCtrlCB \in {"none", "read_retr_done", "read_list_done"}
  BY <1>1 DEF Types, Typed, Walks
<1>5. Types(n, run_delayed(n, d, c))
  BY <1>1, <1>3, <1>4, SelfTypes DEF run_delayed, Types
<1>6. QED
  BY <1>1, <1>5, SelfTypes DEF data_close_channel, run_delayed_cb, Types, n, d

\* The second in which RETR's refusal may be followed by its data has passed.
LEMMA RetrWaitTypes ==
  ASSUME NEW k, Typed(k), Walks(k), NEW c, Given(c), ReportedWell(c.more)
  PROVE  Types(k, post_retr_wait(k, c))
<1> DEFINE p == IF k.item = "robots" THEN "ROBOTS_NO" ELSE k.robotPresence
           n == [k EXCEPT !.retrWaitTimer = FALSE, !.robotPresence = p, !.robotObj = TRUE]
<1>1. p \in {"ROBOTS_UNK", "ROBOTS_YES", "ROBOTS_NO"}
  BY DEF Typed
<1>2. n = [k EXCEPT !.retrWaitTimer = FALSE,
                    !.robotPresence = IF k.item = "robots" THEN "ROBOTS_NO" ELSE @,
                    !.robotObj = TRUE]
  OBVIOUS
<1> HIDE DEF p
<1>3. Types(k, n)
  BY <1>1 DEF Types, Walks, Typed, Names
<1> HIDE DEF n
<1> DEFINE s == data_close_channel(n, c)
<1>4. Types(n, s)
  BY <1>3, ShutTypes DEF Types
<1> HIDE DEF s
<1>5. Types(s, post_retr_go_on(s, c))
  BY <1>3, <1>4, PostTypes, ThenTypes DEF post_retr_go_on, Types, Given
<1>6. QED
  BY <1>2, <1>3, <1>4, <1>5 DEF post_retr_wait, Types, s

\* A transfer is announced: the data is protected where the session is.
LEMMA BeginTypes ==
  ASSUME NEW k, Typed(k), NEW s \in {"S_RETR_XFER", "S_LIST_XFER"},
         k.ctrlUsingSec /\ k.dataBev /\ ~k.dataIsConnected => Rude("late_data")
  PROVE  Types(k, begin_xfer(k, s))
<1>1. s \in States
  BY DEF States
<1> DEFINE e == enter(k, s)
<1>2. /\ Types(k, e) /\ e.ctrlUsingSec = k.ctrlUsingSec /\ e.dataBev = k.dataBev
      /\ e.dataIsConnected = k.dataIsConnected
  BY <1>1, NotesTypes DEF enter, Typed, Names
<1> HIDE DEF e
<1>3. k.ctrlUsingSec /\ e.dataBev =>
        Types(e, [e EXCEPT !.dataUsingSec = TRUE,
                           !.staleData = IF e.dataIsConnected THEN @ ELSE @ + 1])
  <2> DEFINE left == IF e.dataIsConnected THEN e.staleData ELSE e.staleData + 1
  <2>1. k.ctrlUsingSec /\ e.dataBev => left \in StaleCounts
    <3>1. e.staleData \in StaleCounts
      BY <1>2 DEF Types, Typed
    <3>2. QED
      BY <1>2, <3>1 DEF StaleCounts
  <2> HIDE DEF left
  <2>2. left \in StaleCounts => Types(e, [e EXCEPT !.dataUsingSec = TRUE, !.staleData = left])
    BY <1>2 DEF Types, Walks, Typed, Names
  <2>3. QED
    BY <2>1, <2>2 DEF left
<1>4. Types(e, free_if_finished(abrupt(e, "FAIL_UNK_SECURITY")))
  <2>1. Types(e, abrupt(e, "FAIL_UNK_SECURITY"))
    BY <1>2, EndTypes DEF Types, Codes, TerminationCodes
  <2>2. QED
    BY <2>1, NotesTypes DEF Types
<1>5. k.ctrlUsingSec => Types(e, data_tls_init(e))
  BY <1>2, <1>3, <1>4, NotesTypes DEF data_tls_init, Types
<1>6. QED
  BY <1>2, <1>5 DEF begin_xfer, Types, e

\* The reply to RETR.
LEMMA ReadRetrTypes ==
  ASSUME NEW k, Typed(k), Walks(k), NEW c, Given(c), ReportedWell(c.more), NEW r, Reported(r),
         r.size \in {"FOUND", "EXTRA"} => r.kind \in {"ok", "no", "odd"},
         k.state = "S_RETR_SENT", TooEarly(k, r) => Rude("late_data")
  PROVE  Types(k, read_retr_resp(k, r, c))
<1> DEFINE f == IF k.item = "robots" THEN [k EXCEPT !.robotPresence = "ROBOTS_YES"] ELSE k
           b == begin_xfer(f, "S_RETR_XFER")
           s == data_close_channel(enter(k, "S_RETR_XFER"), c)
           t == [s EXCEPT !.retrWaitTimer = TRUE]
<1>1. /\ Types(k, f) /\ f.ctrlUsingSec = k.ctrlUsingSec /\ f.dataBev = k.dataBev
      /\ f.dataIsConnected = k.dataIsConnected
  <2>1. Types(k, [k EXCEPT !.robotPresence = "ROBOTS_YES"])
    BY DEF Types, Walks, Typed, Names
  <2>2. QED
    BY <2>1, SelfTypes DEF Typed, Names
<1> HIDE DEF f
<1>2. r.kind = "ok" => Types(f, b)
  BY <1>1, BeginTypes DEF Types, TooEarly
<1> HIDE DEF b
<1>3. r.kind = "ok" => Types(b, retr_done_too(b, c))
  BY <1>1, <1>2, RetrDoneTypes, ThenTypes DEF retr_done_too, Types, ReportedWell
<1>4. Types(k, s)
  <2>1. Types(k, enter(k, "S_RETR_XFER"))
    BY NotesTypes DEF States
  <2>2. QED
    BY <2>1, ShutTypes DEF Types
<1> HIDE DEF s
<1>5. Types(s, arm_retr_wait(s))
  <2>1. Types(s, t)
    BY <1>4 DEF Types, Walks, Typed, Names
  <2> HIDE DEF t
  <2>2. Types(s, crash(s, "timer_lost"))
    BY <1>4, NotesTypes DEF Types
  <2>3. QED
    BY <1>4, <2>1, <2>2, ThenTypes DEF arm_retr_wait, Types, t
<1>6. Types(k, unexpected_reply(k, "FAIL_RETR_OK"))
  BY PleasantTypes DEF Codes, TerminationCodes
<1> DEFINE m == CASE r.kind = "ok" /\ r.size = "EXTRA" -> retr_done_too(b, c)
                  [] r.kind = "ok" /\ r.size = "FOUND" -> b
                  [] r.kind = "no" -> arm_retr_wait(s)
                  [] r.kind = "odd" -> unexpected_reply(k, "FAIL_RETR_OK")
<1>7. r.size \in {"FOUND", "EXTRA"} => Types(k, m)
  BY <1>1, <1>2, <1>3, <1>4, <1>5, <1>6 DEF Types
<1> HIDE DEF m
<1>8. Types(k, parse_first(k, r, m))
  BY <1>7, ParseTypes
<1>9. QED
  BY <1>8 DEF read_retr_resp, m, b, s, f

\* The reply to LIST.
LEMMA ReadListTypes ==
  ASSUME NEW k, Typed(k), Walks(k), NEW c, Given(c), ReportedWell(c.more), NEW r, Reported(r),
         k.state = "S_LIST_SENT", TooEarly(k, r) => Rude("late_data")
  PROVE  Types(k, read_list_resp(k, r, c))
<1> DEFINE x == IF k.listResp = 2 THEN k.listResp ELSE k.listResp + 1
           n == [k EXCEPT !.listResp = x]
<1>1. x \in Nat
  <2>1. k.listResp \in Nat
    BY DEF Typed
  <2>2. QED
    BY <2>1
<1>2. n = [k EXCEPT !.listResp = IF @ = 2 THEN @ ELSE @ + 1]
  OBVIOUS
<1> HIDE DEF x
<1>3. /\ Types(k, n) /\ n.ctrlUsingSec = k.ctrlUsingSec /\ n.dataBev = k.dataBev
      /\ n.dataIsConnected = k.dataIsConnected
  BY <1>1 DEF Types, Walks, Typed, Names
<1> HIDE DEF n
<1> DEFINE b == begin_xfer(n, "S_LIST_XFER")
           e == list_error(n)
           s == data_close_channel(e, c)
<1>4. r.kind = "ok" => Types(n, b)
  BY <1>3, BeginTypes DEF Types, TooEarly
<1> HIDE DEF b
<1>5. r.kind = "ok" => Types(b, list_done_too(b, c))
  BY <1>3, <1>4, ListDoneTypes, ThenTypes DEF list_done_too, Types, ReportedWell
<1>6. Types(n, e)
  BY <1>3, ListDoneTypes DEF Types
<1> HIDE DEF e
<1>7. Types(e, s)
  BY <1>3, <1>6, ShutTypes DEF Types
<1> HIDE DEF s
<1>8. c.skip \in Nat /\ "FAIL_LIST_IN" \in Codes
  BY DEF Given, Codes, TerminationCodes
<1>9. Types(s, list_refused(s, c))
  BY <1>3, <1>6, <1>7, <1>8, ListDoneTypes, ThenTypes DEF list_refused, Types
<1> DEFINE m == CASE r.kind = "ok" /\ r.size = "EXTRA" -> list_done_too(b, c)
                  [] r.kind = "ok" /\ r.size = "FOUND" -> b
                  [] OTHER -> list_refused(s, c)
<1>10. Types(k, m)
  BY <1>3, <1>4, <1>5, <1>6, <1>7, <1>9 DEF Types
<1> HIDE DEF m
<1>11. Types(k, parse_first(k, r, m))
  BY <1>10, ParseTypes
<1>12. QED
  BY <1>2, <1>11 DEF read_list_resp, m, b, s, e

-----------------------------------------------------------------------------
\* USER, PASS, and the end of a crawl.

\* A login that succeeds, and what waits for a second reply.
LEMMA LoginTypes ==
  ASSUME NEW k, Typed(k)
  PROVE  /\ Types(k, multi_resp_end(k)) /\ Types(k, logged_in(k))
         /\ Types(k, reset_wait_setup(k))
         /\ \A eval \in {"user", "pass"} : Types(k, multi_resp_setup(k, eval))
<1>1. Types(k, multi_resp_end(k))
  BY DEF multi_resp_end, Types, Walks, Typed, Names
<1>2. Types(k, logged_in(k))
  BY WalkTypes, PleasantTypes DEF logged_in, Codes, TerminationCodes
<1>3. Types(k, reset_wait_setup(k))
  <2> DEFINE e == enter(k, "S_RESET_WAIT")
  <2>1. Types(k, e)
    BY NotesTypes DEF States
  <2> HIDE DEF e
  <2>2. Types(e, [e EXCEPT !.resetWaitTimer = TRUE])
    BY <2>1 DEF Types, Walks, Typed, Names
  <2>3. QED
    BY <2>1, <2>2, NotesTypes DEF reset_wait_setup, Types, e
<1>4. ASSUME NEW eval \in {"user", "pass"}
      PROVE  Types(k, multi_resp_setup(k, eval))
  <2>1. Types(k, [k EXCEPT !.multiRespTimer = TRUE, !.multiRespState = "READ_ONE",
                           !.multiRespEval = eval])
    BY <1>4 DEF Types, Walks, Typed, Names
  <2>2. QED
    BY <2>1, NotesTypes DEF multi_resp_setup
<1>5. QED
  BY <1>1, <1>2, <1>3, <1>4

\* A reply to USER that is told.
LEMMA UserEvalTypes ==
  ASSUME NEW g, Typed(g), NEW id \in UserIDs \cup UserDoubleIDs
  PROVE  Types(g, read_user_resp_eval(g, id))
<1> DEFINE k == multi_resp_end(g)
<1>1. Types(g, k)
  BY LoginTypes
<1> HIDE DEF k
<1>2. {"FAIL_VIRTUAL_SITES", "FAIL_USER_REJECTED", "FAIL_BAD_USER_CONFIG",
       "FAIL_EXTRA_RESP", "FAIL_USER_RET"} \subseteq Codes
  BY DEF Codes, TerminationCodes
<1>3. /\ Types(k, pleasant(k, "FAIL_VIRTUAL_SITES")) /\ Types(k, pleasant(k, "FAIL_EXTRA_RESP"))
      /\ Types(k, unexpected_reply(k, "FAIL_USER_RET"))
  BY <1>1, <1>2, PleasantTypes DEF Types
<1>4. /\ Types(k, sec_check(k, "send_user")) /\ Types(k, logged_in(k)) /\ Types(k, send_pass(k))
      /\ Types(k, handle_early_sec_req(k))
  BY <1>1, SecTypes, LoginTypes, SendTypes DEF Types, SecCallbacks
<1>5. /\ Types(k, setup_middle(fail(k, "FAIL_USER_REJECTED")))
      /\ Types(k, setup_middle(fail(k, "FAIL_BAD_USER_CONFIG")))
  <2>1. Types(k, fail(k, "FAIL_USER_REJECTED")) /\ Types(k, fail(k, "FAIL_BAD_USER_CONFIG"))
    BY <1>1, <1>2, NotesTypes DEF Types
  <2>2. QED
    BY <2>1, SecTypes DEF Types
<1>6. Types(k, read_user_resp_eval(g, id))
  BY <1>3, <1>4, <1>5 DEF read_user_resp_eval, UserIDs, UserDoubleIDs, k
<1>7. QED
  BY <1>1, <1>6 DEF Types

\* A reply to PASS that is told.
LEMMA PassEvalTypes ==
  ASSUME NEW g, Typed(g), NEW id \in PassIDs \cup PassDoubleIDs
  PROVE  Types(g, read_pass_resp_eval(g, id))
<1> DEFINE k == multi_resp_end(g)
           p == IF k.secProbe THEN pleasant(k, "SUCCESS_EXIT") ELSE k
<1>1. Types(g, k)
  BY LoginTypes
<1> HIDE DEF k
<1>2. {"FAIL_FIREWALL_AUTH", "SUCCESS_EXIT", "FAIL_PASS_REJECTED", "FAIL_BFTPD_CRASH",
       "FAIL_PASS_CHILD_DIED", "FAIL_PASS_NO_ENTRY", "FAIL_EXTRA_RESP", "FAIL_PASS_OK"}
        \subseteq Codes
  BY DEF Codes, TerminationCodes
<1>3. /\ Types(k, pleasant(k, "FAIL_FIREWALL_AUTH")) /\ Types(k, pleasant(k, "FAIL_EXTRA_RESP"))
      /\ Types(k, pleasant(k, "SUCCESS_EXIT")) /\ Types(k, unexpected_reply(k, "FAIL_PASS_OK"))
  BY <1>1, <1>2, PleasantTypes DEF Types
<1>4. Types(k, p)
  BY <1>1, <1>3, SelfTypes DEF Types
<1> HIDE DEF p
<1>5. Types(k, logged_in(p))
  BY <1>4, LoginTypes DEF Types
<1>6. Types(k, reset_wait_setup(fail(k, "FAIL_PASS_REJECTED")))
  <2>1. Types(k, fail(k, "FAIL_PASS_REJECTED"))
    BY <1>1, <1>2, NotesTypes DEF Types
  <2>2. QED
    BY <2>1, LoginTypes DEF Types
<1>7. /\ Types(k, abrupt(k, "FAIL_BFTPD_CRASH")) /\ Types(k, abrupt(k, "FAIL_PASS_CHILD_DIED"))
      /\ Types(k, abrupt(k, "FAIL_PASS_NO_ENTRY"))
  BY <1>1, <1>2, EndTypes DEF Types
<1>8. Types(k, read_pass_resp_eval(g, id))
  BY <1>3, <1>5, <1>6, <1>7 DEF read_pass_resp_eval, PassIDs, PassDoubleIDs, k, p
<1>9. QED
  BY <1>1, <1>8 DEF Types

\* The replies to USER and PASS.
LEMMA ReadLoginTypes ==
  ASSUME NEW k, Typed(k), NEW r, Reported(r), NEW id, Identified(k, r, id)
  PROVE  /\ k.state = "S_USER_SENT" => Types(k, read_user_resp(k, r, id))
         /\ k.state = "S_PASS_SENT" => Types(k, read_pass_resp(k, r, id))
<1>1. /\ k.multiRespState \in {"UNK", "READ_ZERO", "READ_ONE"}
      /\ Types(k, crash(k, "assert_multi_resp"))
      /\ Types(k, multi_resp_setup(k, "user")) /\ Types(k, multi_resp_setup(k, "pass"))
  BY NotesTypes, LoginTypes DEF Typed
<1>2. ASSUME k.state = "S_USER_SENT"
      PROVE  Types(k, read_user_resp(k, r, id))
  <2> DEFINE e == read_user_resp_eval(k, id)
             p == parse_response(k, r, e, multi_resp_setup(k, "user"))
  <2>1. k.multiRespState = "READ_ONE" \/ r.size = "EXTRA" => Types(k, e)
    BY <1>2, UserEvalTypes DEF Identified
  <2> HIDE DEF e
  <2>2. Types(k, p)
    BY <1>1, <2>1, ParseTypes
  <2> HIDE DEF p
  <2>3. QED
    BY <1>1, <2>1, <2>2 DEF read_user_resp, e, p
<1>3. ASSUME k.state = "S_PASS_SENT"
      PROVE  Types(k, read_pass_resp(k, r, id))
  <2> DEFINE e == read_pass_resp_eval(k, id)
             p == parse_response(k, r, e, multi_resp_setup(k, "pass"))
  <2>1. k.multiRespState = "READ_ONE" \/ r.size = "EXTRA" => Types(k, e)
    BY <1>3, PassEvalTypes DEF Identified
  <2> HIDE DEF e
  <2>2. Types(k, p)
    BY <1>1, <2>1, ParseTypes
  <2> HIDE DEF p
  <2>3. QED
    BY <1>1, <2>1, <2>2 DEF read_pass_resp, e, p
<1>4. QED
  BY <1>2, <1>3

\* The replies to PORT, to the listing after it and to QUIT.
LEMMA ReadEndTypes ==
  ASSUME NEW k, Typed(k), NEW r, Reported(r), NEW more, Reported(more)
  PROVE  /\ (r.size = "FOUND" => r.kind \in {"ok", "no", "odd"}) => Types(k, read_port_resp(k, r))
         /\ Types(k, read_port_list_done(k, r)) /\ Types(k, read_port_list_resp(k, r, more))
         /\ Types(k, read_quit_resp(k, r))
<1>1. {"SUCCESS_EXIT", "FAIL_UNK_BOUNCE_RESP", "FAIL_BAD_PORT_LIST_RESP"} \subseteq Codes
  BY DEF Codes, TerminationCodes
<1>2. ASSUME NEW m, Typed(m), NEW x, Reported(x)
      PROVE  Types(m, ending(m)) /\ Types(m, read_port_list_done(m, x))
  <2>1. Types(m, ending(m))
    BY <1>1, <1>2, PleasantTypes, SecTypes DEF ending
  <2>2. QED
    BY <1>2, <2>1, ParseTypes DEF read_port_list_done
<1>3. ASSUME r.size = "FOUND" => r.kind \in {"ok", "no", "odd"}
      PROVE  Types(k, read_port_resp(k, r))
  <2> DEFINE m == CASE r.kind = "no" -> ending(k)
                    [] r.kind = "ok" -> send_port_list(k)
                    [] r.kind = "odd" -> unexpected_reply(k, "FAIL_UNK_BOUNCE_RESP")
  <2>1. /\ Types(k, ending(k)) /\ Types(k, send_port_list(k))
        /\ Types(k, unexpected_reply(k, "FAIL_UNK_BOUNCE_RESP"))
    BY <1>1, <1>2, SendTypes, PleasantTypes
  <2>2. r.size = "FOUND" => Types(k, m)
    BY <1>3, <2>1
  <2> HIDE DEF m
  <2>3. QED
    BY <2>2, ParseTypes DEF read_port_resp, m
<1>4. Types(k, read_port_list_resp(k, r, more))
  <2> DEFINE x == enter(k, "S_PORT_LIST_XFER")
             m == CASE r.kind # "ok" -> unexpected_reply(k, "FAIL_BAD_PORT_LIST_RESP")
                    [] r.kind = "ok" /\ r.size = "EXTRA" -> read_port_list_done(x, more)
                    [] r.kind = "ok" /\ r.size # "EXTRA" -> x
  <2>1. Types(k, x)
    BY NotesTypes DEF States
  <2> HIDE DEF x
  <2>2. Types(x, read_port_list_done(x, more))
    BY <1>2, <2>1 DEF Types
  <2>3. Types(k, unexpected_reply(k, "FAIL_BAD_PORT_LIST_RESP"))
    BY <1>1, PleasantTypes
  <2>4. Types(k, m)
    BY <2>1, <2>2, <2>3 DEF Types
  <2> HIDE DEF m
  <2>5. Types(k, parse_first(k, r, m))
    BY <2>4, ParseTypes
  <2>6. QED
    BY <2>5 DEF read_port_list_resp, m, x
<1>5. Types(k, read_quit_resp(k, r))
  <2> DEFINE e == enter(k, "S_QUIT_ACK")
             n == [e EXCEPT !.result = "PLEASANT"]
             m == IF r.kind = "ok" THEN end_channel_now(n) ELSE disconnect_abrupt(k)
  <2>1. Types(k, e)
    BY NotesTypes DEF States
  <2> HIDE DEF e
  <2>2. Types(e, n)
    BY <2>1 DEF Types, Walks, Typed, Names
  <2> HIDE DEF n
  <2>3. Types(n, end_channel_now(n)) /\ Types(k, disconnect_abrupt(k))
    BY <2>2, EndTypes DEF Types, disconnect_abrupt, Results
  <2>4. Types(k, m)
    BY <2>1, <2>2, <2>3 DEF Types
  <2> HIDE DEF m
  <2>5. QED
    BY <2>4, ParseTypes DEF read_quit_resp, m, n, e
<1>6. QED
  BY <1>2, <1>3, <1>4, <1>5

-----------------------------------------------------------------------------
\* The callbacks.

\* What a state needs to have been set before its reply is read.
Known(g) ==
  /\ g.state # "S_QUIT_ACK"
  /\ g.state = "S_PROT_SENT" => g.postSecConnectCB # "none"
  /\ g.state \in {"S_RETR_SENT", "S_RETR_XFER", "S_LIST_SENT", "S_LIST_XFER"} \/ g.dataBev
       \/ g.retrWaitTimer => Walks(g)
  /\ g.conn = "connecting" => g.delayedCtrlCB \in {"none", "ctrl_read_cb"}

\* A sound host has it.
LEMMA StartKnown ==
  ASSUME NEW g, Start(g), g.conn = "up" \/ g.conn = "connecting"
  PROVE  /\ g.conn = "up" => Known(g)
         /\ g.conn = "connecting" => g.delayedCtrlCB \in {"none", "ctrl_read_cb"}
<1>1. /\ Sound(g) /\ Later(g) \in {g.savedNextState, "none"}
      /\ g.delayedCtrlCB \in {"none", "ctrl_read_cb", "read_retr_done", "read_list_done"}
      /\ g.pasvAction \in {"none", "send_retr", "send_list"}
  BY DEF Start, Shaped, Later
<1>2. /\ g.state # "S_QUIT_ACK"
      /\ g.state = "S_PROT_SENT" => g.postSecConnectCB # "none"
      /\ g.delayedCtrlCB = "ctrl_read_cb" => g.conn = "connecting"
  BY <1>1 DEF Sound, Channelled, Heading, SecPhase
<1>3. g.pasvAction # "none" => g.pasvPost # "none"
  BY <1>1 DEF Sound, Walking
<1>4. g.state \in {"S_RETR_SENT", "S_RETR_XFER", "S_LIST_SENT", "S_LIST_XFER"} \/ g.dataBev
        \/ g.retrWaitTimer => g.pasvAction # "none"
  BY <1>1 DEF Sound, Walking, Heading
<1>5. g.conn = "connecting" => g.delayedCtrlCB \in {"none", "ctrl_read_cb"}
  BY <1>1 DEF Sound, Transferring
<1>6. QED
  BY <1>2, <1>3, <1>4, <1>5 DEF Known, Walks

\* Whatever the state, its handler keeps the types.
LEMMA HandlerTypes ==
  ASSUME NEW g, Typed(g), Known(g), g.state \notin {"S_INITIAL", "S_DATA_CONN"},
         NEW c, Given(c), Heard(g, c), TooEarly(g, c.r) => Rude("late_data")
  PROVE  Types(g, read_handler(g, c))
<1>1. /\ Reported(c.r) /\ Reported(c.more) /\ c.skip \in Nat
      /\ g.state \in {"S_PASV_SENT", "S_RETR_XFER", "S_PORT_SENT"} /\ c.r.size = "FOUND"
           => c.r.kind \in {"ok", "no", "odd"}
      /\ g.state = "S_RETR_SENT" /\ c.r.size \in {"FOUND", "EXTRA"}
           => c.r.kind \in {"ok", "no", "odd"}
      /\ g.state # "S_CONNECTED" => ReportedWell(c.more)
  BY DEF Given, Heard, Ended, ReportedWell
<1>2. Types(g, read_banner(g, c.r, c.more))
  BY <1>1, BannerTypes
<1>3. /\ g.state = "S_USER_SENT" => Types(g, read_user_resp(g, c.r, c.id))
      /\ g.state = "S_PASS_SENT" => Types(g, read_pass_resp(g, c.r, c.id))
  BY <1>1, ReadLoginTypes DEF Heard, LoginStates
<1>4. /\ Types(g, read_syst_resp(g, c.r)) /\ Types(g, read_pwd_resp(g, c.r, c.skip))
      /\ g.state = "S_PASV_SENT" => Types(g, read_pasv_resp(g, c.r))
  BY <1>1, ReadAskTypes
<1>5. /\ g.state = "S_RETR_SENT" => Types(g, read_retr_resp(g, c.r, c))
      /\ g.state = "S_RETR_XFER" => Types(g, read_retr_done(g, c.r, c))
  BY <1>1, ReadRetrTypes, RetrDoneTypes DEF Known
<1>6. /\ g.state = "S_LIST_SENT" => Types(g, read_list_resp(g, c.r, c))
      /\ g.state = "S_LIST_XFER" => Types(g, read_list_done(g, c.r, c))
  BY <1>1, ReadListTypes, ListDoneTypes DEF Known
<1>7. /\ Types(g, single(g, c.r, send_feat(g))) /\ Types(g, single(g, c.r, send_stat(g)))
      /\ Types(g, single(g, c.r, send_site(g))) /\ Types(g, single(g, c.r, send_port(g)))
  BY <1>1, SendTypes, ParseTypes
<1>8. /\ g.state = "S_PORT_SENT" => Types(g, read_port_resp(g, c.r))
      /\ Types(g, read_port_list_resp(g, c.r, c.more)) /\ Types(g, read_port_list_done(g, c.r))
      /\ Types(g, read_quit_resp(g, c.r))
  BY <1>1, ReadEndTypes
<1>9. /\ Types(g, read_auth_tls_resp(g, c.r)) /\ Types(g, read_auth_ssl_resp(g, c.r))
      /\ Types(g, read_pbsz_resp(g, c.r))
      /\ g.state = "S_PROT_SENT" => Types(g, read_prot_resp(g, c.r))
  BY <1>1, ReadSecTypes DEF Known
<1>10. Types(g, abrupt(g, "FAIL_REALLY_BAD_ERROR")) /\ Types(g, g)
  BY EndTypes, SelfTypes DEF Codes, TerminationCodes
<1>11. g.state \in States \ {"S_INITIAL", "S_DATA_CONN", "S_QUIT_ACK"}
  BY DEF Typed, Known
<1>12. QED
  BY <1>2, <1>3, <1>4, <1>5, <1>6, <1>7, <1>8, <1>9, <1>10, <1>11
  DEF read_handler, States, ReplyStates

\* What follows a handler keeps them too.
LEMMA HandledTypes ==
  ASSUME NEW k, Typed(k)
  PROVE  Types(k, handled(k)) /\ Types(k, event_handled(k))
<1> DEFINE m == IF k.reqLimitReached /\ ~k.hostIsFinished THEN disconnect_abrupt(k) ELSE k
<1>1. Types(k, m)
  BY EndTypes, SelfTypes DEF disconnect_abrupt, Results
<1> HIDE DEF m
<1>2. Types(k, free_if_finished(m)) /\ Types(k, free_if_finished(k))
  BY <1>1, NotesTypes DEF Types
<1>3. QED
  BY <1>2, ThenTypes DEF handled, event_handled, m

\* The first read, and the connection that stands.
LEMMA InitialTypes ==
  ASSUME NEW g, Typed(g)
  PROVE  /\ Typed(handled(read_initial(g)))
         /\ g.delayedCtrlCB \in {"none", "ctrl_read_cb"} =>
              \A c : Given(c) => Typed(ctrl_event_init_connected(g, c))
<1>1. Typed(handled(read_initial(g)))
  <2>1. Typed([g EXCEPT !.delayedCtrlCB = "ctrl_read_cb"])
    BY DEF Typed, Names
  <2>2. Typed(read_initial(g))
    BY <2>1, NotesTypes DEF read_initial, Types
  <2>3. QED
    BY <2>2, HandledTypes DEF Types
<1>2. ASSUME g.delayedCtrlCB \in {"none", "ctrl_read_cb"}, NEW c, Given(c)
      PROVE  Typed(ctrl_event_init_connected(g, c))
  <2> DEFINE e == enter(g, "S_CONNECTED")
             k == [e EXCEPT !.conn = "up", !.delayedCtrlCB = "none"]
  <2>1. Typed(e)
    BY NotesTypes DEF Types, States
  <2> HIDE DEF e
  <2>2. Typed(k)
    BY <2>1 DEF Typed, Names
  <2> HIDE DEF k
  <2>3. Typed(event_handled(k))
    BY <2>2, HandledTypes DEF Types
  <2>4. Typed(read_banner(k, c.r, c.more))
    BY <1>2, <2>2, BannerTypes DEF Given, Types
  <2>5. Typed(event_handled(handled(read_banner(k, c.r, c.more))))
    BY <2>4, HandledTypes DEF Types
  <2>6. QED
    BY <1>2, <2>3, <2>5 DEF ctrl_event_init_connected, k, e
<1>3. QED
  BY <1>1, <1>2

\* The read callback.
LEMMA CallbackTypes ==
  ASSUME NEW g, Typed(g), Known(g), NEW c, Given(c), Heard(g, c),
         TooEarly(g, c.r) => Rude("late_data")
  PROVE  Typed(ctrl_read_cb(g, c))
<1>1. g.state \notin {"S_INITIAL", "S_DATA_CONN"} => Typed(handled(read_handler(g, c)))
  BY HandlerTypes, HandledTypes DEF Types
<1>2. Typed(abrupt(g, "FAIL_REALLY_BAD_ERROR"))
  BY EndTypes DEF Types, Codes, TerminationCodes
<1>3. QED
  BY <1>1, <1>2, InitialTypes DEF ctrl_read_cb

\* The other events of the control channel.
LEMMA EventTypes ==
  ASSUME NEW g, Typed(g)
  PROVE  /\ Typed(ctrl_event_connected(g))
         /\ \A reading, blank : Typed(free_if_finished(ctrl_event_error(g, reading, blank)))
         /\ \A cleartext, blank : Typed(free_if_finished(ctrl_event_eof(g, cleartext, blank)))
         /\ Typed(free_if_finished(ctrl_event_timeout(g)))
<1>1. ASSUME NEW m, Types(g, m)
      PROVE  Typed(free_if_finished(m))
  BY <1>1, NotesTypes DEF Types
<1>2. \A code \in Codes : Types(g, abrupt(g, code))
  BY EndTypes
<1>3. ASSUME NEW blank, SecFailed(g)
      PROVE  Types(g, sec_failed(g, blank))
  <2> DEFINE n == [g EXCEPT !.ctrlSec = "none"]
  <2>1. Types(g, n)
    BY DEF Types, Walks, Typed, Names
  <2> HIDE DEF n
  <2>2. Types(g, ctrl_reconnect(n))
    BY <2>1, SecTypes DEF Types
  <2>3. g.secType \in {"SEC_PRIMARY", "SEC_SECONDARY"}
    BY <1>3 DEF SecFailed, Typed
  <2>4. /\ Types(g, abrupt(g, "FAIL_SECONDARY_NEGOTIATION"))
        /\ Types(g, abrupt(g, "FAIL_BLANK_SSL_ERROR"))
    BY <1>2 DEF Codes, TerminationCodes
  <2>5. QED
    BY <2>2, <2>3, <2>4 DEF sec_failed, n
<1>4. Typed(ctrl_event_connected(g))
  <2> DEFINE k == [g EXCEPT !.conn = "up"]
  <2>1. Types(g, k)
    BY DEF Types, Walks, Typed, Names
  <2> HIDE DEF k
  <2>2. Types(g, send_pbsz(k)) /\ Types(g, abrupt(k, "FAIL_BAD_CONNECT"))
    BY <2>1, SendTypes, EndTypes DEF Types, Codes, TerminationCodes
  <2>3. QED
    BY <1>1, <2>2 DEF ctrl_event_connected, k
<1>5. ASSUME NEW reading, NEW blank
      PROVE  Typed(free_if_finished(ctrl_event_error(g, reading, blank)))
  <2> DEFINE x == CASE g.state = "S_INITIAL" -> "FAIL_DEST_REFUSED"
                    [] g.state = "S_PASS_SENT" /\ reading -> "FAIL_DISCONNECT_PASS"
                    [] g.state = "S_CONNECTED" /\ reading -> "FAIL_DISCONNECT_BANNER"
                    [] g.state = "S_PORT_SENT" /\ reading -> "FAIL_DISCONNECT_PORT"
                    [] OTHER -> "FAIL_ERROR_EVENT"
  <2>1. x \in Codes
    BY DEF Codes, TerminationCodes
  <2> HIDE DEF x
  <2>2. Types(g, ctrl_event_error(g, reading, blank))
    BY <1>2, <1>3, <2>1 DEF ctrl_event_error, x
  <2>3. QED
    BY <1>1, <2>2
<1>6. ASSUME NEW cleartext, NEW blank
      PROVE  Typed(free_if_finished(ctrl_event_eof(g, cleartext, blank)))
  <2> DEFINE x == CASE g.state = "S_INITIAL" -> "FAIL_UNK_INIT_EVENT"
                    [] g.state = "S_USER_SENT" -> "FAIL_DISCONNECT_USER"
                    [] g.state = "S_CONNECTED" -> "FAIL_DISCONNECT_BANNER"
                    [] g.state = "S_PASS_SENT" -> "FAIL_DISCONNECT_PASS"
                    [] OTHER -> "FAIL_DISCONNECT_OTHER"
  <2>1. x \in Codes
    BY DEF Codes, TerminationCodes
  <2> HIDE DEF x
  <2>2. Types(g, disconnect_rude(g)) /\ Types(g, handle_early_sec_req(g))
    BY EndTypes, SecTypes DEF disconnect_rude, Results
  <2>3. Types(g, ctrl_event_eof(g, cleartext, blank))
    BY <1>2, <1>3, <2>1, <2>2 DEF ctrl_event_eof, x
  <2>4. QED
    BY <1>1, <2>3
<1>7. Typed(free_if_finished(ctrl_event_timeout(g)))
  <2> DEFINE x == CASE g.state = "S_INITIAL" -> "FAIL_DEST_NO_RESPONSE"
                    [] g.state = "S_CONNECTED" -> "FAIL_TIMEOUT_BANNER"
                    [] g.state = "S_PASS_SENT" -> "FAIL_TIMEOUT_PASS"
                    [] g.state = "S_SECURITY_CONNECTING" -> "FAIL_TIMEOUT_TLS"
                    [] OTHER -> "FAIL_TIMEOUT"
  <2>1. x \in Codes
    BY DEF Codes, TerminationCodes
  <2> HIDE DEF x
  <2>2. Types(g, ctrl_event_timeout(g))
    BY <1>2, <2>1 DEF ctrl_event_timeout, x
  <2>3. QED
    BY <1>1, <2>2
<1>8. QED
  BY <1>4, <1>5, <1>6, <1>7

\* The timers that ask for something.
LEMMA TimerTypes ==
  ASSUME NEW g, Typed(g)
  PROVE  /\ g.savedReqTimer => Typed(sendSpigot_cb(g, TRUE))
         /\ \A id \in (IF g.multiRespEval = "user" THEN UserIDs ELSE PassIDs) :
              Typed(multi_resp_eval(g, id))
         /\ Typed(setup_middle([g EXCEPT !.resetWaitTimer = FALSE]))
<1>1. ASSUME g.savedReqTimer
      PROVE  Typed(sendSpigot_cb(g, TRUE))
  <2> DEFINE a == Append(g.sent, g.savedReq)
             s == g.savedNextState
             x == g.numReqSent + 1
  <2>1. s \in States /\ g.savedReq \in Commands /\ g.sent \in Seq(Commands) /\ g.numReqSent \in Nat
    BY <1>1 DEF Typed, States
  <2>2. a \in Seq(Commands) /\ x \in Nat
    BY <2>1, AppendProperties
  <2> DEFINE t == [g EXCEPT !.sent = Append(@, g.savedReq), !.state = s]
             m == [t EXCEPT !.savedReqTimer = FALSE, !.savedReq = "none",
                            !.reqThisSecond = 1, !.tick = FALSE, !.numReqSent = @ + 1]
  <2>3. sendSpigot_cb(g, TRUE) = m
    BY DEF sendSpigot_cb, transmit, change_state
  <2>4. t = [g EXCEPT !.sent = a, !.state = s]
    OBVIOUS
  <2> HIDE DEF a, s, t
  <2>5. Typed(t)
    BY <2>1, <2>2, <2>4 DEF Typed, Names
  <2>6. t.numReqSent = g.numReqSent
    BY <2>4 DEF Typed, Names
  <2>7. m = [t EXCEPT !.savedReqTimer = FALSE, !.savedReq = "none",
                      !.reqThisSecond = 1, !.tick = FALSE, !.numReqSent = x]
    BY <2>6
  <2> HIDE DEF x, m
  <2>8. Typed(m)
    BY <2>2, <2>5, <2>7 DEF Typed, Names
  <2>9. QED
    BY <2>3, <2>8
<1>2. ASSUME NEW id \in (IF g.multiRespEval = "user" THEN UserIDs ELSE PassIDs)
      PROVE  Typed(multi_resp_eval(g, id))
  BY <1>2, UserEvalTypes, PassEvalTypes DEF multi_resp_eval, Types
<1>3. Typed(setup_middle([g EXCEPT !.resetWaitTimer = FALSE]))
  <2>1. Typed([g EXCEPT !.resetWaitTimer = FALSE])
    BY DEF Typed, Names
  <2>2. QED
    BY <2>1, SecTypes DEF Types
<1>4. QED
  BY <1>1, <1>2, <1>3

-----------------------------------------------------------------------------
\* The steps of the session.

\* What the environment can give a step has the types the handlers rely on.
LEMMA EnvTypes ==
  ASSUME NEW k
  PROVE  /\ \A r \in Replies(k) \cup {Wait} : Reported(r)
         /\ \A r : \A more \in Mores(k, r) : Reported(more)
         /\ \A data \in Datas(k) \cup {NoData} : data.over \in BOOLEAN /\ data.dirs \in Nat
         /\ Typed(k) => Skips(k) \subseteq Nat
<1>1. \A r \in Bad \cup {Wait} : Reported(r)
  BY DEF Bad, Wait, Reported, Sizes, Codes, TerminationCodes
<1>2. \A K : \A r \in Found(K) \cup Extra(K) : Reported(r)
  BY DEF Found, Extra, Reported, Sizes
<1>3. \A r \in Replies(k) \cup {Wait} : Reported(r)
  BY <1>1, <1>2 DEF Replies
<1>4. ASSUME NEW r, NEW more \in Mores(k, r)
      PROVE  Reported(more)
  <2> DEFINE kinds == IF k.state = "S_CONNECTED" THEN {"ok", "early_sec"}
                      ELSE IF k.item = "robots" THEN {"ok", "no", "odd"} ELSE {"ok", "no"}
  <2>1. more \in {Wait} \cup Bad \cup Found(kinds) \cup Extra({"any"})
    BY <1>4 DEF Mores
  <2> HIDE DEF kinds
  <2>2. QED
    BY <1>1, <1>2, <2>1
<1>5. ASSUME NEW data \in Datas(k) \cup {NoData}
      PROVE  data.over \in BOOLEAN /\ data.dirs \in Nat
  <2>1. CASE data = NoData
    BY <2>1 DEF NoData
  <2>2. CASE data = [NoData EXCEPT !.over = TRUE]
    BY <2>2 DEF NoData
  <2>3. CASE \E t : \E n \in {x \in {0, 1} : k.dirQueue + x <= MaxDirs} :
               data = [over |-> FALSE, text |-> t, dirs |-> n]
    BY <2>3
  <2>4. QED
    BY <1>5, <2>1, <2>2, <2>3 DEF Datas
<1>6. ASSUME Typed(k)
      PROVE  Skips(k) \subseteq Nat
  <2>1. k.dirQueue \in Nat
    BY <1>6 DEF Typed
  <2>2. QED
    BY <2>1 DEF Skips
<1>7. QED
  BY <1>3, <1>4, <1>5, <1>6

\* The invariant TypeOK follows from: the host's types, its delayed request's
\* included, and the counts.
AllTyped == Typed(h) /\ owed \in Nat /\ requests \in Nat

\* A step whose host has its types keeps the counts.
LEMMA CountsTyped ==
  ASSUME AllTyped, Typed(h'), NEW n, Owes(n), n \in Nat \/ Rude("unsolicited")
  PROVE  AllTyped'
<1>1. Len(h'.sent) \in Nat
  BY DEF Typed
<1>2. owed' \in Nat /\ requests' \in Nat
  BY <1>1 DEF Owes, AllTyped
<1>3. QED
  BY <1>2 DEF AllTyped

\* A step begins with a host of the same types.
LEMMA FreshTyped ==
  ASSUME AllTyped
  PROVE  Typed(Fresh)
<1>1. <<>> \in Seq(Commands)
  BY EmptySeq
<1>2. QED
  BY <1>1 DEF AllTyped, Fresh, Typed, Names

\* The read callback, and the connection that stands.
LEMMA ReadTyped ==
  ASSUME IInv, AllTyped, CtrlRead \/ CtrlReadEarly \/ CtrlConnected
  PROVE  AllTyped'
<1> DEFINE g == Fresh
<1>1. Alive /\ Typed(h) /\ owed \in Nat
  BY DEF CtrlRead, CtrlReadEarly, CtrlConnected, AllTyped
<1>2. /\ Start(g) /\ Typed(g) /\ g.state = h.state /\ g.conn = h.conn
      /\ g.multiRespState = h.multiRespState
  BY <1>1, BeginsFresh, FreshTyped
<1>3. CASE CtrlRead
  <2>1. h.conn = "up" /\ (owed > 0 \/ Rude("unsolicited"))
    BY <1>3 DEF CtrlRead
  <2>2. PICK r \in Replies(h) :
           /\ TooEarly(h, r) => Rude("late_data")
           /\ Read(r) /\ Owes(IF Settles(h, r) THEN owed - 1 ELSE owed)
    BY <1>3 DEF CtrlRead
  <2>0. TooEarly(g, r) => Rude("late_data")
    <3>1. /\ g.state = h.state /\ g.ctrlUsingSec = h.ctrlUsingSec /\ g.dataBev = h.dataBev
          /\ g.dataIsConnected = h.dataIsConnected
      BY DEF Fresh, AllTyped, Typed, Names
    <3> HIDE DEF g
    <3>2. QED
      BY <2>2, <3>1 DEF TooEarly
  <2>3. PICK more \in Mores(h, r), id \in LoginIDs(h, r), skip \in Skips(h),
             data \in Datas(h) \cup {NoData} :
               h' = ctrl_read_cb(g, Choice(r, more, id, data, skip))
    BY <2>2 DEF Read
  <2> DEFINE c == Choice(r, more, id, data, skip)
  <2>4. /\ c.r = r /\ c.more = more /\ c.id = id /\ c.over = data.over /\ c.dirs = data.dirs
        /\ c.skip = skip
    BY DEF Choice
  <2> HIDE DEF g
  <2>5. Reported(r) /\ Reported(more) /\ data.over \in BOOLEAN /\ data.dirs \in Nat /\ skip \in Nat
    BY <1>1, EnvTypes
  <2>6. /\ Reply(r) /\ Reply(more)
        /\ g.state # "S_CONNECTED" /\ more.size = "FOUND" => more.kind \in {"ok", "no", "odd"}
        /\ g.state \in {"S_PASV_SENT", "S_RETR_XFER", "S_PORT_SENT"} /\ r.size = "FOUND"
             => r.kind \in {"ok", "no", "odd"}
        /\ g.state = "S_RETR_SENT" /\ r.size \in {"FOUND", "EXTRA"}
             => r.kind \in {"ok", "no", "odd"}
    BY <1>2, RepliesHeard, MoresHeard
  <2>7. g.state \in LoginStates => Identified(g, r, id)
    BY <1>2, IDsHeard DEF Identified
  <2>8. h' = ctrl_read_cb(g, c)
    BY <2>3
  <2> HIDE DEF c
  <2>9. Given(c) /\ Heard(g, c)
    BY <2>4, <2>5, <2>6, <2>7 DEF Given, Heard, Ended
  <2>10. Known(g)
    BY <1>2, <2>1, StartKnown
  <2>11. Typed(h')
    BY <1>2, <2>0, <2>4, <2>8, <2>9, <2>10, CallbackTypes
  <2> DEFINE n == IF Settles(h, r) THEN owed - 1 ELSE owed
  <2>12. n \in Nat \/ Rude("unsolicited")
    BY <1>1, <2>1
  <2>13. Owes(n)
    BY <2>2
  <2> HIDE DEF n
  <2>14. QED
    BY <2>11, <2>12, <2>13, CountsTyped
<1>4. CASE CtrlReadEarly
  <2>1. Typed(h') /\ Owes(0)
    BY <1>2, <1>4, InitialTypes DEF CtrlReadEarly
  <2>2. QED
    BY <2>1, CountsTyped
<1>5. CASE CtrlConnected
  <2> DEFINE up == enter(h, "S_CONNECTED")
  <2>1. h.conn = "connecting" /\ Owes(IF h.delayedCtrlCB = "none" THEN 1 ELSE 0)
    BY <1>5 DEF CtrlConnected
  <2>2. PICK r \in {Wait} \cup Replies(up) : \E more \in Mores(up, r) :
           h' = ctrl_event_init_connected(g, Choice(r, more, "none", NoData, 0))
    BY <1>5 DEF CtrlConnected
  <2>3. PICK more \in Mores(up, r) :
           h' = ctrl_event_init_connected(g, Choice(r, more, "none", NoData, 0))
    BY <2>2
  <2> DEFINE c == Choice(r, more, "none", NoData, 0)
  <2> HIDE DEF up, g
  <2>4. Reported(r) /\ Reported(more)
    BY EnvTypes
  <2>5. Given(c)
    BY <2>4 DEF Given, Choice, NoData
  <2>6. h' = ctrl_event_init_connected(g, c)
    BY <2>3
  <2> HIDE DEF c
  <2>7. g.delayedCtrlCB \in {"none", "ctrl_read_cb"}
    BY <1>2, <2>1, StartKnown
  <2>8. Typed(h')
    BY <1>2, <2>5, <2>6, <2>7, InitialTypes
  <2> DEFINE n == IF h.delayedCtrlCB = "none" THEN 1 ELSE 0
  <2>9. n \in Nat /\ Owes(n)
    BY <2>1
  <2> HIDE DEF n
  <2>10. QED
    BY <2>8, <2>9, CountsTyped
<1>6. QED
  BY <1>3, <1>4, <1>5

\* The other events of the control channel.
LEMMA EventTyped ==
  ASSUME IInv, AllTyped, CtrlSecConnected \/ CtrlError \/ CtrlEof \/ CtrlTimeout
  PROVE  AllTyped'
<1>1. Typed(Fresh)
  BY FreshTyped
<1>2. Typed(h')
  <2>1. CASE CtrlSecConnected
    BY <1>1, <2>1, EventTypes DEF CtrlSecConnected
  <2>2. CASE CtrlError
    BY <1>1, <2>2, EventTypes DEF CtrlError
  <2>3. CASE CtrlEof
    BY <1>1, <2>3, EventTypes DEF CtrlEof
  <2>4. CASE CtrlTimeout
    BY <1>1, <2>4, EventTypes DEF CtrlTimeout
  <2>5. QED
    BY <2>1, <2>2, <2>3, <2>4
<1>3. \E n \in {owed, 0} : Owes(n)
  BY DEF CtrlSecConnected, CtrlError, CtrlEof, CtrlTimeout
<1>4. QED
  BY <1>2, <1>3, CountsTyped DEF AllTyped

\* The timers.
LEMMA TimerTyped ==
  ASSUME IInv, AllTyped, Timer
  PROVE  AllTyped'
<1> DEFINE g == Fresh
<1>1. Alive /\ Owes(owed)
  BY DEF Timer, SavedReqTimer, multi_resp_timeout, reset_wait_event, RetrWaitTimer
<1>2. /\ Start(g) /\ Typed(g) /\ g.savedReqTimer = h.savedReqTimer
      /\ g.retrWaitTimer = h.retrWaitTimer /\ g.multiRespEval = h.multiRespEval
      /\ g.state = h.state
  BY <1>1, BeginsFresh, FreshTyped
<1>3. Typed(h')
  <2>1. CASE SavedReqTimer
    <3>1. h' = sendSpigot_cb(g, TRUE) /\ g.savedReqTimer
      BY <1>2, <2>1 DEF SavedReqTimer
    <3> HIDE DEF g
    <3>2. QED
      BY <1>2, <3>1, TimerTypes
  <2>2. CASE multi_resp_timeout
    <3>1. PICK id \in (IF g.multiRespEval = "user" THEN UserIDs ELSE PassIDs) :
             h' = multi_resp_eval(g, id)
      BY <1>2, <2>2 DEF multi_resp_timeout
    <3> HIDE DEF g
    <3>2. QED
      BY <1>2, <3>1, TimerTypes
  <2>3. CASE reset_wait_event
    <3>1. h' = setup_middle([g EXCEPT !.resetWaitTimer = FALSE])
      BY <2>3 DEF reset_wait_event
    <3> HIDE DEF g
    <3>2. QED
      BY <1>2, <3>1, TimerTypes
  <2>4. CASE RetrWaitTimer
    <3>1. PICK data \in Datas(h), skip \in Skips(h), more \in Mores(h, Wait) :
             h' = post_retr_wait(g, Choice(Wait, more, "none", data, skip))
      BY <2>4 DEF RetrWaitTimer
    <3> DEFINE c == Choice(Wait, more, "none", data, skip)
    <3> HIDE DEF g
    <3>2. g.retrWaitTimer
      BY <1>2, <2>4 DEF RetrWaitTimer
    <3>3. g.conn = "up" /\ g.state # "S_CONNECTED"
      BY <1>2, <3>2 DEF Start, Sound, Transferring
    <3>4. Walks(g)
      BY <1>2, <3>2, <3>3, StartKnown DEF Known
    <3>5. Given(c) /\ ReportedWell(c.more)
      <4>1. Reported(Wait) /\ Reported(more) /\ data.over \in BOOLEAN /\ data.dirs \in Nat /\ skip \in Nat
        BY EnvTypes DEF AllTyped
      <4>2. more.size = "FOUND" => more.kind \in {"ok", "no", "odd"}
        BY <1>2, <3>3, MoresHeard
      <4>3. QED
        BY <4>1, <4>2 DEF Given, ReportedWell, Choice
    <3>6. h' = post_retr_wait(g, c)
      BY <3>1
    <3> HIDE DEF c
    <3>7. QED
      BY <1>2, <3>4, <3>5, <3>6, RetrWaitTypes DEF Types
  <2>5. QED
    BY <2>1, <2>2, <2>3, <2>4 DEF Timer
<1>4. QED
  BY <1>1, <1>3, CountsTyped DEF AllTyped

\* A connection attempt of the data channel is over.
LEMMA DataEventTypes ==
  ASSUME NEW g, Typed(g), NEW connected \in BOOLEAN
  PROVE  LET m == data_event(g, connected)
         IN Typed(m) /\ m.staleData = g.staleData
<1> DEFINE a == abrupt(g, "FAIL_DATA_CONNECT_RESET")
<1>1. Typed(a) /\ a.staleData = g.staleData
  <2>1. Typed(a)
    BY EndTypes DEF Types, Codes, TerminationCodes
  <2>2. a.staleData = g.staleData
    BY DEF abrupt, disconnect_abrupt, disconnect, end_channel_now, note_last_state, fail,
           crash, delete_all_timers, Typed, Names
  <2>3. QED
    BY <2>1, <2>2
<1> HIDE DEF a
<1>2. Typed(free_if_finished(a)) /\ free_if_finished(a).staleData = g.staleData
  <2>1. Typed(free_if_finished(a))
    BY <1>1, NotesTypes DEF Types
  <2>2. [a EXCEPT !.freed = TRUE].staleData = a.staleData
    BY <1>1 DEF Typed, Names
  <2>3. QED
    BY <1>1, <2>1, <2>2 DEF free_if_finished
<1>3. /\ Typed([g EXCEPT !.dataIsConnected = TRUE])
      /\ [g EXCEPT !.dataIsConnected = TRUE].staleData = g.staleData
  BY DEF Typed, Names
<1>4. /\ Typed(crash(g, "use_after_free"))
      /\ crash(g, "use_after_free").staleData = g.staleData
  BY NotesTypes DEF Types, crash, Typed, Names
<1>5. g.freed \in BOOLEAN /\ g.dataIsConnected \in BOOLEAN
  BY DEF Typed
<1>6. QED
  BY <1>2, <1>3, <1>4, <1>5 DEF data_event, a

\* The callbacks of the data channel, and the clock.
LEMMA DataTyped ==
  ASSUME IInv, AllTyped, Data \/ Tick
  PROVE  AllTyped'
<1> DEFINE g == Fresh
<1>1. Alive
  BY DEF Data, DataConnected, DataRead, DataClosed, DataRefused, Tick
<1>2. Start(g) /\ Typed(g) /\ g.dataBev = h.dataBev /\ g.state = h.state
  BY <1>1, BeginsFresh, FreshTyped
<1>3. CASE DataConnected \/ Tick
  <2>1. /\ h' = data_event(g, TRUE) \/ h' = [g EXCEPT !.tick = TRUE]
        /\ owed' = owed /\ requests' = requests
    BY <1>3 DEF DataConnected, Tick
  <2> HIDE DEF g
  <2>2. Typed(data_event(g, TRUE))
    BY <1>2, DataEventTypes
  <2>3. Typed([g EXCEPT !.tick = TRUE])
    BY <1>2 DEF Typed, Names
  <2>4. QED
    BY <2>1, <2>2, <2>3 DEF AllTyped
<1>4. CASE DataRead \/ DataRefused
  <2>1. /\ h' = data_overflow(g) \/ h' = data_event(g, FALSE)
        /\ Owes(0)
    BY <1>4 DEF DataRead, DataRefused
  <2> DEFINE c == Choice(Wait, Wait, "none", NoData, 0)
  <2> HIDE DEF g
  <2>2. Typed(data_overflow(g))
    <3>1. Given(c)
      BY EnvTypes DEF Given, Choice, NoData
    <3> HIDE DEF c
    <3>2. QED
      BY <1>2, <3>1, CloseTypes DEF Types
  <2>3. Typed(data_event(g, FALSE))
    BY <1>2, DataEventTypes
  <2>4. QED
    BY <2>1, <2>2, <2>3, CountsTyped
<1>5. CASE DataClosed
  <2>1. PICK data \in Datas(h), skip \in Skips(h), more \in Mores(h, Wait) :
           h' = data_close_channel(g, Choice(Wait, more, "none", data, skip))
    BY <1>5 DEF DataClosed
  <2> DEFINE c == Choice(Wait, more, "none", data, skip)
  <2> HIDE DEF g
  <2>2. g.dataBev /\ Owes(owed)
    BY <1>2, <1>5 DEF DataClosed, DataUp
  <2>3. g.conn = "up" /\ g.state # "S_CONNECTED"
    BY <1>2, <2>2 DEF Start, Sound, Transferring
  <2>4. Walks(g)
    BY <1>2, <2>2, <2>3, StartKnown DEF Known
  <2>5. Given(c) /\ ReportedWell(c.more)
    <3>1. Reported(Wait) /\ Reported(more) /\ data.over \in BOOLEAN /\ data.dirs \in Nat /\ skip \in Nat
      BY EnvTypes DEF AllTyped
    <3>2. more.size = "FOUND" => more.kind \in {"ok", "no", "odd"}
      BY <1>2, <2>3, MoresHeard
    <3>3. QED
      BY <3>1, <3>2 DEF Given, ReportedWell, Choice
  <2>6. h' = data_close_channel(g, c)
    BY <2>1
  <2> HIDE DEF c
  <2>7. Typed(h')
    BY <1>2, <2>4, <2>5, <2>6, ShutTypes DEF Types
  <2>8. QED
    BY <2>2, <2>7, CountsTyped DEF AllTyped
<1>6. QED
  BY <1>3, <1>4, <1>5 DEF Data

\* What data_tls_init has left connecting.
LEMMA StaleTyped ==
  ASSUME AllTyped, StaleDataEvent
  PROVE  AllTyped'
<1> DEFINE g == Fresh
<1>1. Typed(g) /\ g.staleData = h.staleData
  BY FreshTyped DEF Fresh, AllTyped, Typed, Names
<1>2. PICK connected \in BOOLEAN : h' = Fired(data_event(g, connected))
  BY DEF StaleDataEvent
<1>3. Owes(owed) /\ owed \in Nat /\ h.staleData > 0
  BY DEF StaleDataEvent, AllTyped
<1> HIDE DEF g
<1> DEFINE m == data_event(g, connected)
           left == IF m.fault = "none" THEN m.staleData - 1 ELSE m.staleData
<1>4. Typed(m) /\ m.staleData = g.staleData
  BY <1>1, DataEventTypes
<1>5. h' = [m EXCEPT !.staleData = left]
  BY <1>2 DEF Fired
<1>6. left \in StaleCounts
  <2>1. m.staleData \in StaleCounts /\ m.staleData > 0
    BY <1>1, <1>3, <1>4 DEF Typed
  <2> HIDE DEF m
  <2>2. QED
    BY <2>1 DEF StaleCounts
<1> HIDE DEF m, left
<1>7. Typed(h')
  BY <1>4, <1>5, <1>6 DEF Typed, Names
<1>8. QED
  BY <1>3, <1>7, CountsTyped

\* A new host has its types.
LEMMA StartsTyped == Init => AllTyped
<1> SUFFICES ASSUME Init PROVE AllTyped
  OBVIOUS
<1>1. PICK t \in BOOLEAN : h = [NewHost EXCEPT !.tick = t]
  BY DEF Init
<1>2. Typed([NewHost EXCEPT !.tick = t])
  BY NewTyped DEF Typed, Names
<1>3. QED
  BY <1>1, <1>2 DEF AllTyped, Init

\* Every step keeps the types.
LEMMA NextTyped ==
  ASSUME IInv, AllTyped, [Next]_vars
  PROVE  AllTyped'
<1>1. CASE UNCHANGED vars
  BY <1>1 DEF vars, AllTyped
<1>2. CASE Next
  BY <1>2, ReadTyped, EventTyped, TimerTyped, DataTyped, StaleTyped DEF Next, Control
<1>3. QED
  BY <1>1, <1>2

\* The types hold throughout, together with IInv.
LEMMA TypesKept == Spec => [](IInv /\ AllTyped)
<1>1. Init => AllTyped
  BY StartsTyped
<1>2. IInv /\ AllTyped /\ [Next]_vars => AllTyped'
  BY NextTyped
<1>3. QED
  BY <1>1, <1>2, SessionInvariant, PTL DEF Spec

\* The types of a session, whatever the server does: of its host, down to the code
\* it ends with, of the delayed request and of the counts of replies and requests.
\* AllTyped is inductive only together with IInv, which tells what a handler finds set.
THEOREM SessionTypes == Spec => []TypeOK
<1>1. AllTyped => TypeOK
  <2>1. DOMAIN NewHost = Names
    BY NewTyped
  <2>2. QED
    BY <2>1 DEF AllTyped, Typed, TypeOK, Codes, StaleCounts
<1>2. QED
  BY <1>1, TypesKept, PTL

-----------------------------------------------------------------------------
\* The session keeps the promises of HostLife.

\* The promise a step keeps is told by what it leaves the host as.
LEMMA StepLives ==
  ASSUME IInv, Stepped
  PROVE  Life!Next
<1>1. /\ Alive /\ Kept(h') /\ requests' = h'.numReqSent /\ requests = h.numReqSent
  <2>1. IInv'
    BY StepKeeps
  <2>2. QED
    BY <2>1 DEF IInv, Stepped
<1>2. PICK g : /\ Final(g, h')
               /\ Start(g) /\ g.conn = h.conn /\ g.state = h.state
               /\ g.connects = h.connects /\ g.result = h.result
               /\ g.numReqSent = h.numReqSent /\ Owing(g) = Owing(h)
               /\ g.savedReqTimer = h.savedReqTimer
  BY DEF Stepped, From, Same, Owing
<1>3. /\ requests + Pending = Owing(h) /\ (requests + Pending)' = Owing(h')
      /\ Owing(h) \in Nat /\ Owing(h') \in Nat /\ Owing(h') <= maxReqPerIp
      /\ h.connects \in Nat /\ h'.connects \in Nat /\ h'.connects <= 3
      /\ h.result = "none"
  BY <1>1, <1>2 DEF Kept, Shaped, Owing, Pending, IInv, Start, Sound, Parting
<1>4. /\ Phase = (IF h.conn = "connecting" THEN "connecting" ELSE "talking")
      /\ Life!Living
  BY <1>1 DEF Alive, Phase, Life!Living
<1>5. Owing(h') >= Owing(h) - 1
  BY <1>1, <1>2 DEF Final, Good, Gone, Anew, Crashed, Costs, Owing, Start, Shaped
<1>6. CASE Good(g, h')
  <2>1. /\ Phase' = (IF h'.conn = "connecting" THEN "connecting" ELSE "talking")
        /\ h'.conn = "connecting" => h.conn = "connecting"
    BY <1>2, <1>6 DEF Good, Up, Phase
  <2>2. h'.result = "none" /\ h'.connects = h.connects /\ Owing(h') >= Owing(h)
    BY <1>2, <1>6 DEF Good, Sound, Parting
  <2>3. Life!Spends
    BY <1>3, <2>2, MaxNat DEF Life!Spends
  <2>4. CASE Phase' = Phase
    BY <1>3, <1>4, <2>2, <2>3, <2>4 DEF Life!Talk, Life!Next
  <2>5. CASE Phase' # Phase
    BY <1>3, <1>4, <2>1, <2>2, <2>3, <2>5 DEF Life!Connect, Life!Next
  <2>6. QED
    BY <2>4, <2>5
<1>7. CASE Anew(g, h')
  <2>1. Phase' = "connecting" /\ h'.result = "none" /\ h'.connects = h.connects + 1
    BY <1>2, <1>7 DEF Anew, Up, Phase, Sound, Parting
  <2>2. Owing(h') \in {Owing(h) - 1, Owing(h)}
    BY <1>2, <1>3, <1>7 DEF Anew, Owing, Shaped
  <2>3. QED
    BY <1>3, <1>4, <2>1, <2>2 DEF Life!Reconnect, Life!Next
<1>8. CASE Gone(g, h')
  <2>1. Phase' = "ended" /\ h'.result \in Life!Results /\ h'.connects = h.connects
    BY <1>2, <1>8 DEF Gone, Clean, Phase, Results, Life!Results
  <2>2. h'.result # "ABRUPT" => Owing(h) > 0
    BY <1>2, <1>8 DEF Gone, Start, Sound, Parting, Owing, Shaped
  <2>3. h'.result = "PLEASANT" => Phase = "talking"
    BY <1>2, <1>4, <1>8 DEF Gone
  <2>4. (requests + Pending)' \in ((requests + Pending) - 1)..maxReqPerIp
    BY <1>3, <1>5, MaxNat
  <2>5. Life!End(h'.result)
    BY <1>3, <1>4, <2>1, <2>2, <2>3, <2>4 DEF Life!End
  <2>6. QED
    BY <2>1, <2>5 DEF Life!Next
<1>9. CASE Crashed(g, h')
  <2>1. Phase' = "crashed" /\ h'.result \in Life!Results \cup {"none"}
    BY <1>9 DEF Crashed, Faults, Phase, Results, Life!Results
  <2>2. h'.connects \in h.connects..3
    BY <1>2, <1>3, <1>9 DEF Crashed
  <2>3. (requests + Pending)' \in ((requests + Pending) - 1)..maxReqPerIp
    BY <1>3, <1>5, MaxNat
  <2>4. QED
    BY <1>4, <2>1, <2>2, <2>3 DEF Life!Crash, Life!Next
<1>10. QED
  BY <1>2, <1>6, <1>7, <1>8, <1>9 DEF Final

\* An event that outlives the session crashes the program, or is of no matter.
LEMMA HauntedLives ==
  ASSUME IInv, AllTyped, Haunted
  PROVE  Life!Next \/ UNCHANGED Life!vars
<1>1. /\ h.staleData > 0 /\ h.fault = "none" /\ requests' = requests /\ h.hostIsFinished
      /\ Kept(h') /\ h'.hostIsFinished /\ ~h'.savedReqTimer /\ ~h.savedReqTimer
      /\ h'.connects = h.connects
      /\ h'.fault = "none" => h'.result = h.result
  BY HauntedIs DEF Haunted
<1>2. Rude("late_data")
  BY <1>1 DEF AllTyped, Typed, StaleCounts
<1>3. h'.result \in Life!Results
  BY <1>1 DEF Kept, Safe, Clean, Results, Life!Results
<1>4. Phase = "ended" /\ Phase' = IF h'.fault = "none" THEN "ended" ELSE "crashed"
  <2>1. h.conn = "closed" /\ h'.conn = "closed"
    BY <1>1 DEF IInv, Kept, Safe, Clean
  <2>2. Phase = "ended"
    BY <1>1, <2>1 DEF Phase
  <2>3. Phase' = IF h'.fault = "none" THEN "ended" ELSE "crashed"
    <3>1. CASE h'.fault = "none"
      BY <1>1, <2>1, <3>1 DEF Phase
    <3>2. CASE h'.fault # "none"
      BY <3>2 DEF Phase
    <3>3. QED
      BY <3>1, <3>2
  <2>4. QED
    BY <2>2, <2>3
<1>5. (requests + Pending)' = requests + Pending
  BY <1>1 DEF Pending
<1>6. CASE h'.fault = "none"
  BY <1>1, <1>4, <1>5, <1>6 DEF Life!vars
<1>7. CASE h'.fault # "none"
  BY <1>1, <1>2, <1>3, <1>4, <1>5, <1>7 DEF Life!CrashLate, Life!Next
<1>8. QED
  BY <1>6, <1>7

\* Whatever the server does, a session costs it at most maxReqPerIp requests on at
\* most three connections, ends once, and politely only where QUIT was sent; only
\* after a protected transfer that was announced too early can it crash the program
\* when it is over (sendSpigot, ctrl_event_cb, handle_early_sec_req,
\* end_channel_now, data_tls_init).
THEOREM KeepsPromises == Spec => LivesAsPromised
<1>1. Init => Life!Init
  <2> SUFFICES ASSUME Init PROVE Life!Init
    OBVIOUS
  <2>1. PICK t \in BOOLEAN : h = [NewHost EXCEPT !.tick = t]
    BY DEF Init
  <2>2. /\ h.fault = "none" /\ ~h.hostIsFinished /\ h.conn = "connecting"
        /\ h.connects = 1 /\ h.result = "none" /\ ~h.savedReqTimer
    BY <2>1 DEF NewHost
  <2>3. QED
    BY <2>2 DEF Init, Life!Init, Phase, Pending
<1>2. IInv /\ AllTyped /\ [Next]_vars => [Life!Next]_(Life!vars)
  <2>1. ASSUME IInv, AllTyped, Next
        PROVE  Life!Next \/ UNCHANGED Life!vars
    BY <2>1, NextSteps, StepLives, HauntedLives
  <2>2. ASSUME UNCHANGED vars
        PROVE  UNCHANGED Life!vars
    BY <2>2 DEF vars, Life!vars, Phase, Pending
  <2>3. QED
    BY <2>1, <2>2
<1>3. QED
  BY <1>1, <1>2, TypesKept, PTL DEF Spec, LivesAsPromised, Life!Spec
=============================================================================
