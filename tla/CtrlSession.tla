---------------------------- MODULE CtrlSession -----------------------------
(***************************************************************************)
(* One host's session: the callbacks libevent runs for it, in any order    *)
(* the network and the timers allow.  ctrl_read_cb and ctrl_event_cb serve *)
(* the control channel, data_event_cb and data_read_cb the data channel,   *)
(* and four one-second timers are armed on the way.  Each callback is one  *)
(* action, for all of a host's callbacks run in the worker's event loop.   *)
(*                                                                         *)
(* The server is the environment.  As long as Surprises is empty it speaks *)
(* when it owes a reply, one reply at a time (owed counts them), and ends  *)
(* a data connection after it has announced the transfer.                  *)
(***************************************************************************)
EXTENDS CtrlHandlers

CONSTANTS
  Surprises,  \* what else the server and libevent may do: see SurpriseKinds
  MaxDirs     \* bound: directories waiting in dirQueue

SurpriseKinds ==
  {"unsolicited",  \* replies nobody asked for, two replies at once
   "overflow",     \* more than MAX_CTRL_AMT or MAX_DATA_AMT bytes, NUL bytes
   "early_read",   \* the read callback runs before the CONNECTED event
   "data_first",   \* the data connection ends before the transfer is announced
   "late_data",    \* a protected transfer is announced before its connection stands
   "logged_now",   \* AUTH TLS is answered "503 You are logged now."
   "sec_again",    \* USER is refused for want of TLS although TLS is on
   "tls_fails",    \* a TLS handshake or the protected connection after it fails
   "drop"}         \* the connection breaks, or the server falls silent

ASSUME CtrlSessionAssumption ==
  /\ Surprises \subseteq SurpriseKinds
  /\ MaxDirs \in Nat \ {0}

VARIABLES
  h,        \* the host
  owed,     \* the replies the server owes; 0 throughout if it may be unsolicited
  requests  \* history: the requests put on the wire, on all connections

vars == <<h, owed, requests>>

Rude(s) == s \in Surprises
Alive == ~h.hostIsFinished /\ h.fault = "none"

-----------------------------------------------------------------------------
\* USER and PASS: a second reply within a second changes what the first meant.

\* A plausible bug: the timer is left to fire again.
multi_resp_end_keeps(k) == [k EXCEPT !.multiRespState = "UNK", !.multiRespEval = "none"]

multi_resp_end(k) ==
  [k EXCEPT !.multiRespTimer = FALSE, !.multiRespState = "UNK",
            !.multiRespEval = "none"]

multi_resp_setup(k, eval) ==
  IF k.multiRespTimer THEN crash(k, "timer_lost")
  ELSE [k EXCEPT !.multiRespTimer = TRUE, !.multiRespState = "READ_ONE",
                 !.multiRespEval = eval]

reset_wait_setup(k) ==
  IF k.resetWaitTimer THEN crash(k, "timer_lost")
  ELSE [enter(k, "S_RESET_WAIT") EXCEPT !.resetWaitTimer = TRUE]

\* A plausible bug: a NORMAL crawl goes on without robots.txt.
logged_in_no_robots(k) ==
  CASE crawlType = "SUPER_SHORT" -> pleasant(k, "SUCCESS_EXIT")
    [] crawlType = "SHORT" -> fetch_robots_txt(k)
    [] crawlType = "NORMAL" -> send_syst(k)

logged_in(k) ==
  IF crawlType = "SUPER_SHORT" THEN pleasant(k, "SUCCESS_EXIT")
  ELSE fetch_robots_txt(k)

\* What id_user_resp and id_pass_resp can answer for one reply, and for two.
UserIDs == {"Virtual_Sites", "TLS", "Reject", "No_Pass", "Accept_User",
            "Early_Sec_Req", "Bad_Config", "Unexpected"}
PassIDs == {"Firewall", "OK", "Reject", "Bftpd_Crash", "No_Entry", "Unexpected"}
UserDoubleIDs == {"Reject", "Extra"}
PassDoubleIDs == {"Reject", "Child_Died", "Extra"}

read_user_resp_eval(k0, id) ==
  LET k == multi_resp_end(k0)
  IN  CASE id = "Virtual_Sites" -> pleasant(k, "FAIL_VIRTUAL_SITES")
        [] id = "TLS" -> sec_check(k, "send_user")
        [] id = "Reject" -> setup_middle(fail(k, "FAIL_USER_REJECTED"))
        [] id = "No_Pass" -> logged_in(k)
        [] id = "Accept_User" -> send_pass(k)
        [] id = "Early_Sec_Req" -> handle_early_sec_req(k)
        [] id = "Bad_Config" -> setup_middle(fail(k, "FAIL_BAD_USER_CONFIG"))
        [] id = "Extra" -> pleasant(k, "FAIL_EXTRA_RESP")
        [] id = "Unexpected" -> unexpected_reply(k, "FAIL_USER_RET")

\* After a probe the login goes on although QUIT was asked for.
read_pass_resp_eval(k0, id) ==
  LET k == multi_resp_end(k0)
  IN  CASE id = "Firewall" -> pleasant(k, "FAIL_FIREWALL_AUTH")
        [] id = "OK" -> logged_in(IF k.secProbe THEN pleasant(k, "SUCCESS_EXIT") ELSE k)
        [] id = "Reject" -> reset_wait_setup(fail(k, "FAIL_PASS_REJECTED"))
        [] id = "Bftpd_Crash" -> abrupt(k, "FAIL_BFTPD_CRASH")
        [] id = "Child_Died" -> abrupt(k, "FAIL_PASS_CHILD_DIED")
        [] id = "No_Entry" -> abrupt(k, "FAIL_PASS_NO_ENTRY")
        [] id = "Extra" -> pleasant(k, "FAIL_EXTRA_RESP")
        [] id = "Unexpected" -> unexpected_reply(k, "FAIL_PASS_OK")

multi_resp_eval(k, id) ==
  IF k.multiRespEval = "user" THEN read_user_resp_eval(k, id)
  ELSE read_pass_resp_eval(k, id)

read_user_resp(k, r, id) ==
  CASE k.multiRespState = "READ_ONE" -> read_user_resp_eval(k, id)
    [] k.multiRespState = "UNK" -> crash(k, "assert_multi_resp")
    [] k.multiRespState = "READ_ZERO" ->
         parse_response(k, r, read_user_resp_eval(k, id), multi_resp_setup(k, "user"))

read_pass_resp(k, r, id) ==
  CASE k.multiRespState = "READ_ONE" -> read_pass_resp_eval(k, id)
    [] k.multiRespState = "UNK" -> crash(k, "assert_multi_resp")
    [] k.multiRespState = "READ_ZERO" ->
         parse_response(k, r, read_pass_resp_eval(k, id), multi_resp_setup(k, "pass"))

-----------------------------------------------------------------------------
\* The end of a crawl: badPort.c and QUIT.

ending(k) == IF k.ctrlUsingSec THEN pleasant(k, "SUCCESS_EXIT") ELSE setup_ending(k)

read_port_resp(k, r) ==
  single(k, r, CASE r.kind = "no" -> ending(k)
                 [] r.kind = "ok" -> send_port_list(k)
                 [] r.kind = "odd" -> unexpected_reply(k, "FAIL_UNK_BOUNCE_RESP"))

read_port_list_done(k, r) == single(k, r, ending(k))

read_port_list_resp(k, r, more) ==
  LET x == enter(k, "S_PORT_LIST_XFER")
  IN  parse_first(k, r,
        CASE r.kind # "ok" -> unexpected_reply(k, "FAIL_BAD_PORT_LIST_RESP")
          [] r.kind = "ok" /\ r.size = "EXTRA" -> read_port_list_done(x, more)
          [] r.kind = "ok" /\ r.size # "EXTRA" -> x)

read_quit_resp(k, r) ==
  single(k, r,
    IF r.kind = "ok"
    THEN end_channel_now([enter(k, "S_QUIT_ACK") EXCEPT !.result = "PLEASANT"])
    ELSE disconnect_abrupt(k))

-----------------------------------------------------------------------------
\* The callbacks.

read_handler(k, c) ==
  CASE k.state = "S_CONNECTED" -> read_banner(k, c.r, c.more)
    [] k.state = "S_USER_SENT" -> read_user_resp(k, c.r, c.id)
    [] k.state = "S_PASS_SENT" -> read_pass_resp(k, c.r, c.id)
    [] k.state = "S_SYST_SENT" -> read_syst_resp(k, c.r)
    [] k.state = "S_PWD_SENT" -> read_pwd_resp(k, c.r, c.skip)
    [] k.state = "S_PASV_SENT" -> read_pasv_resp(k, c.r)
    [] k.state = "S_RETR_SENT" -> read_retr_resp(k, c.r, c)
    [] k.state = "S_RETR_XFER" -> read_retr_done(k, c.r, c)
    [] k.state = "S_LIST_SENT" -> read_list_resp(k, c.r, c)
    [] k.state = "S_LIST_XFER" -> read_list_done(k, c.r, c)
    [] k.state = "S_HELP_SENT" -> single(k, c.r, send_feat(k))
    [] k.state = "S_FEAT_SENT" -> single(k, c.r, send_stat(k))
    [] k.state = "S_STAT_SENT" -> single(k, c.r, send_site(k))
    [] k.state = "S_SITE_SENT" -> single(k, c.r, send_port(k))
    [] k.state = "S_PORT_SENT" -> read_port_resp(k, c.r)
    [] k.state = "S_PORT_LIST_SENT" -> read_port_list_resp(k, c.r, c.more)
    [] k.state = "S_PORT_LIST_XFER" -> read_port_list_done(k, c.r)
    [] k.state = "S_AUTH_TLS_SENT" -> read_auth_tls_resp(k, c.r)
    [] k.state = "S_AUTH_SSL_SENT" -> read_auth_ssl_resp(k, c.r)
    [] k.state = "S_SECURITY_CONNECTING" -> abrupt(k, "FAIL_REALLY_BAD_ERROR")
    [] k.state = "S_PBSZ_INIT_SENT" -> read_pbsz_resp(k, c.r)
    [] k.state = "S_PROT_SENT" -> read_prot_resp(k, c.r)
    [] k.state = "S_QUIT_SENT" -> read_quit_resp(k, c.r)
    [] k.state = "S_RESET_WAIT" -> k

\* The read callback that comes before CONNECTED has to wait for it.
read_initial(k) ==
  IF k.delayedCtrlCB = "none" THEN [k EXCEPT !.delayedCtrlCB = "ctrl_read_cb"]
  ELSE crash(k, "assert_delayed")

\* A plausible bug: only the host that the limit ends is freed.
handled_limit(k) ==
  then_on(k, IF k.reqLimitReached /\ ~k.hostIsFinished
             THEN free_if_finished(disconnect_abrupt(k)) ELSE k)

\* After the handler: the limit ends the host, and a finished host is freed.
handled(k) ==
  then_on(k, free_if_finished(
    IF k.reqLimitReached /\ ~k.hostIsFinished THEN disconnect_abrupt(k) ELSE k))

\* The default branch of the switch returns before the host could be freed.
ctrl_read_cb(k, c) ==
  CASE k.state = "S_DATA_CONN" -> abrupt(k, "FAIL_REALLY_BAD_ERROR")
    [] k.state = "S_INITIAL" -> handled(read_initial(k))
    [] OTHER -> handled(read_handler(k, c))

event_handled(k) == then_on(k, free_if_finished(k))

\* CONNECTED in state S_INITIAL, then the callback that came too early.
ctrl_event_init_connected(k0, c) ==
  LET k == [enter(k0, "S_CONNECTED") EXCEPT !.conn = "up", !.delayedCtrlCB = "none"]
  IN  event_handled(
        CASE k0.delayedCtrlCB = "none" -> k
          [] k0.delayedCtrlCB = "ctrl_read_cb" -> handled(read_banner(k, c.r, c.more))
          [] k0.delayedCtrlCB = "read_retr_done" -> read_retr_done(k, c.more, c)
          [] k0.delayedCtrlCB = "read_list_done" -> read_list_done(k, c.more, c))

\* A stale timer can have moved the state on while the socket was connecting.
ctrl_event_connected(k0) ==
  LET k == [k0 EXCEPT !.conn = "up"]
  IN  free_if_finished(IF k.ctrlUsingSec THEN send_pbsz(k) ELSE abrupt(k, "FAIL_BAD_CONNECT"))

SecStates == {"S_AUTH_TLS_SENT", "S_AUTH_SSL_SENT", "S_SECURITY_CONNECTING"}

\* The first kind of handshake is followed by a second on a new connection.
\* The timers of the old connection are not deleted.
sec_failed(k, blank) ==
  CASE k.secType = "SEC_SECONDARY" -> abrupt(k, "FAIL_SECONDARY_NEGOTIATION")
    [] k.secType = "SEC_PRIMARY" ->
         IF blank THEN abrupt(k, "FAIL_BLANK_SSL_ERROR")
         ELSE ctrl_reconnect([k EXCEPT !.ctrlSec = "none"])

SecFailed(k) == k.state \in SecStates /\ k.secType # "SEC_UNK"

ctrl_event_error(k, reading, blank) ==
  IF SecFailed(k) THEN sec_failed(k, blank)
  ELSE abrupt(k, CASE k.state = "S_INITIAL" -> "FAIL_DEST_REFUSED"
                   [] k.state = "S_PASS_SENT" /\ reading -> "FAIL_DISCONNECT_PASS"
                   [] k.state = "S_CONNECTED" /\ reading -> "FAIL_DISCONNECT_BANNER"
                   [] k.state = "S_PORT_SENT" /\ reading -> "FAIL_DISCONNECT_PORT"
                   [] OTHER -> "FAIL_ERROR_EVENT")

ctrl_event_eof(k, cleartext, blank) ==
  CASE SecFailed(k) -> sec_failed(k, blank)
    [] k.state = "S_QUIT_SENT" -> disconnect_rude(k)
    [] k.state = "S_USER_SENT" /\ cleartext -> handle_early_sec_req(k)
    [] OTHER ->
         abrupt(k, CASE k.state = "S_INITIAL" -> "FAIL_UNK_INIT_EVENT"
                     [] k.state = "S_USER_SENT" -> "FAIL_DISCONNECT_USER"
                     [] k.state = "S_CONNECTED" -> "FAIL_DISCONNECT_BANNER"
                     [] k.state = "S_PASS_SENT" -> "FAIL_DISCONNECT_PASS"
                     [] OTHER -> "FAIL_DISCONNECT_OTHER")

ctrl_event_timeout(k) ==
  abrupt(k, CASE k.state = "S_INITIAL" -> "FAIL_DEST_NO_RESPONSE"
              [] k.state = "S_CONNECTED" -> "FAIL_TIMEOUT_BANNER"
              [] k.state = "S_PASS_SENT" -> "FAIL_TIMEOUT_PASS"
              [] k.state = "S_SECURITY_CONNECTING" -> "FAIL_TIMEOUT_TLS"
              [] OTHER -> "FAIL_TIMEOUT")

-----------------------------------------------------------------------------
\* What the environment can give a step.

Found(kinds) == {[size |-> "FOUND", kind |-> x] : x \in kinds}
Extra(kinds) == {[size |-> "EXTRA", kind |-> x] : x \in kinds}
Wait == [size |-> "INCOMPLETE", kind |-> "any"]
Bad == IF Rude("overflow") THEN
         {[size |-> "ERROR", kind |-> x] : x \in {"FAIL_TRAP_CTRL_AMT", "FAIL_NULL_IN_RESP"}}
       ELSE {}

Kinds(k) ==
  CASE k.state = "S_CONNECTED" ->
         {"ok", "cfaa", "no", "FAIL_VPS_NO_HOST", "FAIL_VSFTPD_BANNER_ERROR",
          "FAIL_SESSION_LIMIT"}
    [] k.state = "S_AUTH_TLS_SENT" ->
         {"ok", "no", "534"} \cup (IF Rude("logged_now") THEN {"503"} ELSE {})
    [] k.state \in {"S_PASV_SENT", "S_RETR_SENT", "S_RETR_XFER", "S_PORT_SENT"} ->
         {"ok", "no", "odd"}
    [] k.state \in {"S_LIST_SENT", "S_LIST_XFER", "S_PORT_LIST_SENT", "S_AUTH_SSL_SENT",
                    "S_PBSZ_INIT_SENT", "S_PROT_SENT", "S_QUIT_SENT"} -> {"ok", "no"}
    [] OTHER -> {"ok"}

\* The states that take the first reply although another one follows it.
Announcing == {"S_RETR_SENT", "S_LIST_SENT", "S_PORT_LIST_SENT"}

\* A partial reply changes nothing, so it is no step of its own.
Replies(k) ==
  Found(Kinds(k)) \cup Bad \cup
  (IF k.state \in Announcing THEN Extra({"ok"}) ELSE {}) \cup
  (IF Rude("unsolicited") THEN
     Extra(IF k.state \in Announcing \cup {"S_CONNECTED"} THEN Kinds(k) ELSE {"any"})
   ELSE {})

Mores(k, r) ==
  IF r.size # "EXTRA" /\ k.delayedCtrlCB = "none" THEN {Wait}
  ELSE Found(IF k.state = "S_CONNECTED" THEN {"ok", "early_sec"}
             ELSE IF k.item = "robots" THEN {"ok", "no", "odd"} ELSE {"ok", "no"})
       \cup Bad \cup (IF Rude("unsolicited") THEN Extra({"any"}) \cup {Wait} ELSE {})

LoginIDs(k, r) ==
  IF k.state \notin {"S_USER_SENT", "S_PASS_SENT"} THEN {"none"}
  ELSE IF k.multiRespState # "READ_ONE" /\ r.size # "EXTRA" THEN {"none"}
  ELSE IF k.state = "S_USER_SENT" THEN UserDoubleIDs ELSE PassDoubleIDs

NoData == [over |-> FALSE, text |-> "none", dirs |-> 0]

\* The data channel can have brought something, or its end.
DataUp(k) == k.dataBev /\ (k.dataIsConnected \/ k.dataUsingSec)

\* The listing that is read when the data channel closes.
Datas(k) ==
  {NoData} \cup
  (IF DataUp(k) /\ Rude("overflow") THEN {[NoData EXCEPT !.over = TRUE]} ELSE {}) \cup
  (IF DataUp(k) /\ k.xferType = "XFER_LIST" /\ crawlType = "NORMAL"
   THEN {[over |-> FALSE, text |-> t, dirs |-> n] :
           t \in (IF k.lieHashSet THEN {"same", "other"} ELSE {"other"}),
           n \in {x \in {0, 1} : k.dirQueue + x <= MaxDirs}}
   ELSE {})

\* robots.txt may forbid any number of the directories that wait.
Skips(k) ==
  IF k.state = "S_PWD_SENT" \/ k.pasvPost = "walk_dir" THEN 0..(k.dirQueue + 1) ELSE {0}

Choice(r, more, id, data, skip) ==
  [r |-> r, more |-> more, id |-> id, over |-> data.over, text |-> data.text,
   dirs |-> data.dirs, skip |-> skip]

\* Does the reply r settle the request, or only announce a transfer?
Settles(k, r) == ~(k.state \in Announcing /\ r = [size |-> "FOUND", kind |-> "ok"])

\* The server announces a protected transfer whose data connection is pending.
TooEarly(k, r) ==
  /\ k.state \in {"S_RETR_SENT", "S_LIST_SENT"} /\ r.kind = "ok"
  /\ k.ctrlUsingSec /\ k.dataBev /\ ~k.dataIsConnected

\* The server's debt after a step, and what the host has cost it.
Owes(before) ==
  /\ owed' = IF Rude("unsolicited") \/ h'.conn \in {"connecting", "closed"} THEN 0
             ELSE before + Len(h'.sent)
  /\ requests' = requests + Len(h'.sent)

Fresh == [h EXCEPT !.sent = <<>>]

-----------------------------------------------------------------------------
\* The control channel.

Read(r) ==
  \E more \in Mores(h, r), id \in LoginIDs(h, r), skip \in Skips(h),
     data \in (IF h.state \in Announcing /\ r.kind = "no" THEN Datas(h) ELSE {NoData}) :
    h' = ctrl_read_cb(Fresh, Choice(r, more, id, data, skip))

CtrlRead ==
  /\ Alive /\ h.conn = "up"
  /\ owed > 0 \/ Rude("unsolicited")
  /\ \E r \in Replies(h) :
       /\ TooEarly(h, r) => Rude("late_data")
       /\ Read(r)
       /\ Owes(IF Settles(h, r) THEN owed - 1 ELSE owed)

\* The banner can only come early once before the CONNECTED event.
CtrlReadEarly ==
  /\ Alive /\ h.conn = "connecting" /\ Rude("early_read")
  /\ h.state = "S_INITIAL" /\ h.delayedCtrlCB # "ctrl_read_cb"
  /\ h' = handled(read_initial(Fresh))
  /\ Owes(0)

CtrlConnected ==
  /\ Alive /\ h.conn = "connecting" /\ h.state = "S_INITIAL"
  /\ LET up == enter(h, "S_CONNECTED")
     IN  \E r \in (IF h.delayedCtrlCB = "none" THEN {Wait} ELSE Replies(up)) :
           \E more \in Mores(up, r) :
             h' = ctrl_event_init_connected(Fresh, Choice(r, more, "none", NoData, 0))
  /\ Owes(IF h.delayedCtrlCB = "none" THEN 1 ELSE 0)

CtrlSecConnected ==
  /\ Alive
  /\ h.conn = "tls" \/ (h.conn = "connecting" /\ h.state # "S_INITIAL")
  /\ h' = ctrl_event_connected(Fresh)
  /\ Owes(owed)

\* OpenSSL has an error to tell only where there is an SSL bufferevent.
Blanks == IF h.ctrlUsingSec /\ Rude("tls_fails") THEN BOOLEAN ELSE {TRUE}

MayBreak == Rude("drop") \/ (Rude("tls_fails") /\ SecFailed(h))

CtrlError ==
  /\ Alive /\ MayBreak
  /\ \E reading \in BOOLEAN, blank \in Blanks :
       h' = free_if_finished(ctrl_event_error(Fresh, reading, blank))
  /\ Owes(0)

CtrlEof ==
  /\ Alive
  /\ MayBreak \/ (h.state = "S_QUIT_SENT" /\ h.conn = "up")
  /\ \E cleartext \in BOOLEAN, blank \in Blanks :
       /\ cleartext => ~h.ctrlUsingSec \/ Rude("sec_again")
       /\ h' = free_if_finished(ctrl_event_eof(Fresh, cleartext, blank))
  /\ Owes(0)

\* A server that owes nothing stays silent, and READ_TIMEOUT is longer than
\* the one-second timers.
Idle == /\ owed = 0 /\ h.conn = "up"
        /\ ~(h.savedReqTimer \/ h.multiRespTimer \/ h.resetWaitTimer \/ h.retrWaitTimer)

CtrlTimeout ==
  /\ Alive
  /\ Rude("drop") \/ Idle
  /\ h' = free_if_finished(ctrl_event_timeout(Fresh))
  /\ Owes(0)

-----------------------------------------------------------------------------
\* The timers.  Their callbacks never free the host.

Tick ==
  /\ Alive /\ ~h.tick
  /\ h' = [Fresh EXCEPT !.tick = TRUE]
  /\ UNCHANGED <<owed, requests>>

SavedReqTimer ==
  /\ Alive /\ h.savedReqTimer
  /\ h' = sendSpigot_cb(Fresh, TRUE)
  /\ Owes(owed)

\* The input buffer is empty: more bytes would have cancelled the timer.
multi_resp_timeout ==
  /\ Alive /\ h.multiRespTimer
  /\ \E id \in (IF h.multiRespEval = "user" THEN UserIDs ELSE PassIDs) :
       /\ id \in {"TLS", "Early_Sec_Req"} => ~h.ctrlUsingSec \/ Rude("sec_again")
       /\ h' = multi_resp_eval(Fresh, id)
  /\ Owes(owed)

reset_wait_event ==
  /\ Alive /\ h.resetWaitTimer
  /\ h' = setup_middle([Fresh EXCEPT !.resetWaitTimer = FALSE])
  /\ Owes(owed)

RetrWaitTimer ==
  /\ Alive /\ h.retrWaitTimer
  /\ \E data \in Datas(h), skip \in Skips(h) :
       \E more \in Mores(h, Wait) :
         h' = post_retr_wait(Fresh, Choice(Wait, more, "none", data, skip))
  /\ Owes(owed)

-----------------------------------------------------------------------------
\* The data channel.

DataConnected ==
  /\ Alive /\ h.dataBev /\ ~h.dataIsConnected
  /\ h' = data_event(Fresh, TRUE)
  /\ UNCHANGED <<owed, requests>>

\* Data only matters when there is too much of it.
DataRead ==
  /\ Alive /\ DataUp(h) /\ Rude("overflow")
  /\ h' = data_overflow(Fresh)
  /\ Owes(0)

\* Data connections end after the transfer was announced, or any time.
DataMayEnd == Rude("data_first") \/ h.state \notin {"S_DATA_CONN", "S_RETR_SENT", "S_LIST_SENT"}

\* EOF or a read error; a host that ends in here is not freed.
DataClosed ==
  /\ Alive /\ DataUp(h) /\ DataMayEnd
  /\ \E data \in Datas(h), skip \in Skips(h), more \in Mores(h, Wait) :
       h' = data_close_channel(Fresh, Choice(Wait, more, "none", data, skip))
  /\ Owes(owed)

\* An error before the connection stands.
DataRefused ==
  /\ Alive /\ h.dataBev /\ ~h.dataIsConnected /\ Rude("drop")
  /\ h' = data_event(Fresh, FALSE)
  /\ Owes(0)

\* It fires once; a crash leaves the count, which tells what it came from.
Fired(k) == [k EXCEPT !.staleData = IF k.fault = "none" THEN @ - 1 ELSE @]

\* The write event of a bufferevent that data_tls_init overwrote: its descriptor, or
\* the one that has its number by then, is ready.  It asks nobody whether the host
\* is still there.
StaleDataEvent ==
  /\ h.fault = "none" /\ h.staleData > 0
  /\ \E connected \in BOOLEAN : h' = Fired(data_event(Fresh, connected))
  /\ Owes(owed)

-----------------------------------------------------------------------------
Init ==
  /\ \E t \in BOOLEAN : h = [NewHost EXCEPT !.tick = t]
  /\ owed = 0
  /\ requests = 0

Control == CtrlRead \/ CtrlReadEarly \/ CtrlConnected \/ CtrlSecConnected
           \/ CtrlError \/ CtrlEof \/ CtrlTimeout

Timer == SavedReqTimer \/ multi_resp_timeout \/ reset_wait_event \/ RetrWaitTimer

Data == DataConnected \/ DataRead \/ DataClosed \/ DataRefused

Next == Control \/ Timer \/ Data \/ StaleDataEvent \/ Tick

Spec == Init /\ [][Next]_vars

\* The loop runs every callback whose time has come; a polite server answers
\* what it owes, accepts data connections and ends those it has announced.  The clock of
\* the throttle owes nothing: a request that has to wait has its own timer.
Fairness ==
  /\ WF_vars(CtrlRead) /\ WF_vars(CtrlConnected) /\ WF_vars(CtrlSecConnected)
  /\ WF_vars(CtrlTimeout) /\ WF_vars(Timer)
  /\ WF_vars(DataConnected) /\ WF_vars(DataClosed)

LiveSpec == Spec /\ Fairness

-----------------------------------------------------------------------------
TypeOK ==
  /\ owed \in Nat /\ requests \in Nat
  /\ DOMAIN h = DOMAIN NewHost
  /\ h.state \in States /\ h.lastState \in States \cup {"S_UNSET_STATE"}
  /\ {h.terminationCode, h.secProbeStorage} \subseteq TerminationCodes \cup {"UNSET"}
  /\ h.result \in {"none", "PLEASANT", "ABRUPT", "RUDE"}
  /\ h.conn \in {"connecting", "up", "tls", "closed"}
  /\ h.ctrlSec \in {"none", "live", "freed"}
  /\ h.secType \in {"SEC_UNK", "SEC_PRIMARY", "SEC_SECONDARY"}
  /\ h.postSecConnectCB \in
       {"none", "send_user", "disconnect_pleasant", "post_ending", "post_middle"}
  /\ h.delayedCtrlCB \in {"none", "ctrl_read_cb", "read_retr_done", "read_list_done"}
  /\ h.sent \in Seq(Commands) /\ h.savedReq \in Commands \cup {"none"}
  /\ h.savedNextState \in ReplyStates \cup {"none"}
  /\ {h.reqThisSecond, h.numReqSent, h.dirQueue, h.listErrCount, h.lieCount,
      h.connects, h.listResp, h.staleData} \subseteq Nat
  /\ h.multiRespState \in {"UNK", "READ_ZERO", "READ_ONE"}
  /\ h.multiRespEval \in {"none", "user", "pass"}
  /\ h.xferType \in {"XFER_UNK", "XFER_FILE", "XFER_LIST"}
  /\ h.pasvAction \in {"none", "send_retr", "send_list"}
  /\ h.pasvPost \in
       {"none", "send_syst", "short_scan_ending", "walk_dir", "disconnect_pleasant"}
  /\ h.item \in {"none", "robots", "other", "root", "dir"}
  /\ h.robotPresence \in {"ROBOTS_UNK", "ROBOTS_YES", "ROBOTS_NO"}
  /\ {h.hostIsFinished, h.freed, h.ctrlUsingSec, h.secProbe, h.earlySecReq,
      h.tick, h.savedReqTimer, h.reqLimitReached, h.closedSend, h.multiRespTimer,
      h.resetWaitTimer, h.retrWaitTimer, h.dataBev, h.dataIsConnected,
      h.dataUsingSec, h.robotObj, h.lieHashSet, h.provedHonest} \subseteq BOOLEAN

Pending == IF h.savedReqTimer THEN 1 ELSE 0

\* No step does what C leaves undefined, fails an assert, or loses a timer.
\* The handlers rest on one another for this: each takes the request it answers,
\* the timers and the data channel to be as the last handler left them.  The server
\* announces a protected transfer only once its data connection stands: without that
\* data_tls_init leaves an event armed.
NoFault == h.fault = "none"

\* Connections that break, end early or bring too much never put the session out
\* of step: no assert fails, no armed timer is lost, nothing is asked for without a
\* channel.  Memory is used after its free only where too much data, or a banner
\* handled late, ended the host under a caller (data_close_channel,
\* ctrl_event_init_state), or where the event of a bufferevent that data_tls_init
\* left connecting fires; only that event ends a session twice.  A null pointer is
\* used only where a protected transfer is announced after its data connection has
\* ended.
InStep ==
  CASE h.fault = "use_after_free" ->
         \/ h.terminationCode = "FAIL_TRAP_DATA_AMT" \/ h.state = "S_CONNECTED"
         \/ h.staleData > 0
    [] h.fault = "ended_twice" -> h.staleData > 0
    [] h.fault = "null_data_bev" ->
         h.ctrlUsingSec /\ h.state \in {"S_RETR_XFER", "S_LIST_XFER"}
    [] OTHER -> h.fault = "none"

\* Whatever a server says in whatever order, no timer is forgotten while it is
\* armed, PASV never makes a second data channel over the first, and nobody touches
\* or ends a host that is gone unless the server oversteps a size limit, speaks
\* before the connection stands, or announces a protected transfer before its data
\* connection stands: then the plain bufferevent that data_tls_init overwrites
\* still has an event to run for the host.
\* ctrlSec is used after its free (init_tls_connection) only once both methods
\* were tried and a server wanted TLS before the login.
NothingForgotten ==
  /\ h.fault \notin {"timer_lost", "data_bev_lost", "no_channel"}
  /\ h.fault = "ended_twice" => h.staleData > 0
  /\ h.fault = "use_after_free" =>
       Rude("overflow") \/ Rude("early_read") \/ h.staleData > 0
  /\ h.fault = "stale_ssl" => h.earlySecReq /\ h.secType = "SEC_SECONDARY"

\* end_channel_now leaves no timer and no channel behind that could run for a host
\* that is gone, but for what data_tls_init has overwritten, which it cannot reach;
\* and the record says how the host ended: terminationCode and result are set, which
\* translateRecords.py looks up in termCodeToStrDict.
EndsClean ==
  h.hostIsFinished =>
    /\ ~(h.savedReqTimer \/ h.multiRespTimer \/ h.resetWaitTimer \/ h.retrWaitTimer)
    /\ ~h.dataBev /\ h.conn = "closed"
    /\ h.result # "none" /\ h.lastState # "S_UNSET_STATE"
    /\ h.terminationCode # "UNSET"

\* No directory is listed before robots.txt was asked for: a NORMAL crawl has
\* its rules by then, a SHORT one lists "/" only where there is no robots.txt,
\* a SUPER_SHORT one never opens a data channel.
RobotsFirst ==
  /\ "LIST" \in {h.sent[i] : i \in DOMAIN h.sent} =>
       IF crawlType = "NORMAL" THEN h.robotObj ELSE h.robotPresence = "ROBOTS_NO"
  /\ crawlType = "SUPER_SHORT" => ~h.dataBev

\* What is transferred in a protected session is protected too (data_tls_init).
PrivateListing ==
  h.state \in {"S_RETR_XFER", "S_LIST_XFER"} /\ h.ctrlUsingSec /\ h.dataBev
    => h.dataUsingSec

\* A login that failed is not forgotten over the probe for TLS that follows it
\* (setup_middle_optional_sec_check, post_middle): the host never ends in
\* SUCCESS_EXIT, and if it ends after QUIT, then with the failure itself, unless
\* PBSZ was refused.  This takes a probe that needs no new connection: after one
\* it may end in SUCCESS_EXIT.
VerdictKept ==
  h.hostIsFinished /\ h.secProbeStorage # "UNSET" /\ h.connects = 1 =>
    /\ h.terminationCode # "SUCCESS_EXIT"
    /\ h.result # "ABRUPT" => h.terminationCode \in {h.secProbeStorage, "FAIL_PBSZ_OK"}

\* A reply that waits for the data channel is handled when that closes: it
\* never waits for a channel that is gone (delayedCtrlCB, data_close_channel).
ReplyIsWoken ==
  h.delayedCtrlCB \in {"read_retr_done", "read_list_done"} /\ ~h.hostIsFinished
    => h.dataBev

\* After LIST_ERROR_CUTOFF errors no directory is listed any more (list_failed):
\* the count is compared with ==, so no error may step over it.
ErrorsCutOff ==
  h.listErrCount >= LIST_ERROR_CUTOFF => "LIST" \notin {h.sent[i] : i \in DOMAIN h.sent}

\* The answer to LIST is recorded once for each directory: translateRecords.py
\* asserts it.
RecordedOnce == h.listResp <= 1

\* A host that ends is freed by the callback that ended it, or else never.  Only
\* those callbacks leave it that do not look: the timers', the end of the data
\* channel, and the default branch of ctrl_read_cb.
Freed ==
  [][~h.hostIsFinished /\ h'.hostIsFinished /\ ~h'.freed
       => Timer \/ DataClosed \/ h.state = "S_DATA_CONN" \/ h'.fault # "none"]_vars

\* The asserts of read_user_resp and read_pass_resp (ctrlRead.c:920, 1333).
MultiRespKnown == h.fault # "assert_multi_resp"

\* Once QUIT has been sent and its callback is over, nothing is sent any more.
QuitIsLast == [][h.state = "S_QUIT_SENT" => h'.sent = <<>>]_vars

\* The host as the scheduler and the server see it.
Phase ==
  CASE h.fault # "none" -> "crashed"
    [] h.fault = "none" /\ h.hostIsFinished -> "ended"
    [] h.fault = "none" /\ h.conn = "connecting" -> "connecting"
    [] OTHER -> "talking"

Life == INSTANCE HostLife WITH
  MaxRequests <- maxReqPerIp, MaxConnects <- 3, LateCrash <- Rude("late_data"),
  phase <- Phase,
  connects <- h.connects, spent <- requests + Pending, result <- h.result

\* A session keeps HostLife's promises: at most maxReqPerIp requests, the delayed
\* one included, however often it connects anew; three connections at most, for
\* TLS is tried with two methods and a server that wants TLS before the login is
\* obeyed once; and it ends once, politely only where QUIT was sent
\* (sendSpigot, handle_early_sec_req, ctrl_event_cb, end_channel_now).  Only a
\* server that announces a protected transfer too early can have it crash the
\* program after its end (data_tls_init).
LivesAsPromised == Life!Spec

\* The throttle, the limit and the reply timers never leave a session hanging:
\* the scheduler gets its slot back.
Ends == Life!LiveSpec
=============================================================================
