---------------------------- MODULE CtrlHandlers ----------------------------
(***************************************************************************)
(* What a host does with the replies of its server: ctrlRead.c,            *)
(* ctrlSecurity.c, badPort.c, the directory walk of ctrlChannel.c and      *)
(* data_close_channel, which runs the handlers that had to wait for it.    *)
(*                                                                         *)
(* A reply is [size, kind].  size is parse_response's verdict: FOUND,      *)
(* EXTRA (more bytes behind it), INCOMPLETE or ERROR (too long, a NUL      *)
(* byte).  kind is all a handler tells apart: "ok" is the code it hopes    *)
(* for, "no" a refusal, "odd" anything else; some states have more.        *)
(* c holds what a step is given: the reply r, the next reply more, the     *)
(* data (over: too much of it, text: "same" as the first listing, "other", *)
(* or "none" to parse; dirs: directories in it), and skip, how many of the *)
(* queued directories robots.txt forbids before one it allows.             *)
(***************************************************************************)
EXTENDS HostState

\* parse_response: a reply that is not well formed ends the host, a partial
\* one waits in ctrlDBuffer; extra and found say what the caller does.
parse_response(h, r, extra, found) ==
  IF h.hostIsFinished THEN crash(h, "no_channel")
  ELSE CASE r.size = "INCOMPLETE" -> h
         [] r.size = "ERROR" -> abrupt(h, r.kind)
         [] r.size = "EXTRA" -> extra
         [] r.size = "FOUND" -> found

\* The reply counts whether or not another one follows it.
parse_first(h, r, resp) == parse_response(h, r, resp, resp)

handle_extra_resp_error(h) == pleasant(h, "FAIL_EXTRA_RESP")

\* The reply must stand alone.
single(h, r, found) == parse_response(h, r, handle_extra_resp_error(h), found)

-----------------------------------------------------------------------------
\* ctrlSecurity.c

send_after_sec(h) ==
  CASE h.postSecConnectCB = "send_user" -> send_user(h)
    [] h.postSecConnectCB = "disconnect_pleasant" -> disconnect_pleasant(h)
    [] h.postSecConnectCB = "post_ending" -> pleasant(h, "SUCCESS_EXIT")
    [] h.postSecConnectCB = "post_middle" -> pleasant(h, h.secProbeStorage)

sec_check(h, after) == send_auth_tls([h EXCEPT !.postSecConnectCB = after])

setup_ending(h) == sec_check([h EXCEPT !.secProbe = TRUE], "post_ending")

\* A plausible bug: the failure that led here is not kept.
setup_middle_forgets(h) ==
  IF h.ctrlUsingSec THEN disconnect_pleasant(h)
  ELSE sec_check([h EXCEPT !.secProbe = TRUE, !.secProbeStorage = "SUCCESS_EXIT"],
                 "post_middle")

\* A failed login still probes for TLS, unless TLS is already on.
setup_middle(h) ==
  IF h.ctrlUsingSec THEN disconnect_pleasant(h)
  ELSE sec_check([h EXCEPT !.secProbe = TRUE,
                           !.secProbeStorage = h.terminationCode], "post_middle")

\* A plausible bug: the second handshake makes no SSL object of its own.
init_tls_connection_once(h) ==
  CASE h.secType = "SEC_UNK" \/ h.ctrlSec = "live" ->
         [h EXCEPT !.secType = "SEC_PRIMARY", !.ctrlSec = "live",
                   !.ctrlUsingSec = TRUE, !.conn = "tls",
                   !.state = "S_SECURITY_CONNECTING"]
    [] OTHER -> crash(h, "stale_ssl")

\* SSL_new for the first two handshakes; a third one takes ctrlSec as it is.
init_tls_connection(h) ==
  LET tls(type) == [h EXCEPT !.secType = type, !.ctrlSec = "live",
                             !.ctrlUsingSec = TRUE, !.conn = "tls",
                             !.state = "S_SECURITY_CONNECTING"]
  IN  CASE h.secType = "SEC_UNK" -> tls("SEC_PRIMARY")
        [] h.secType = "SEC_PRIMARY" -> tls("SEC_SECONDARY")
        [] h.secType = "SEC_SECONDARY" /\ h.ctrlSec = "live" -> tls("SEC_SECONDARY")
        [] OTHER -> crash(h, "stale_ssl")

\* A plausible bug: the new connection has a budget of its own.
ctrl_reconnect_resets(h) ==
  [h EXCEPT !.state = "S_INITIAL", !.ctrlUsingSec = FALSE, !.item = "none",
            !.conn = "connecting", !.connects = @ + 1, !.numReqSent = 0]

\* The old connection is given up for a new one; timers are the caller's.
ctrl_reconnect(h) ==
  [h EXCEPT !.state = "S_INITIAL", !.ctrlUsingSec = FALSE, !.item = "none",
            !.conn = "connecting", !.connects = @ + 1]

\* A plausible bug: the timers of the old connection stay.
handle_early_sec_req_timers(h) ==
  IF h.earlySecReq THEN abrupt(h, "FAIL_EARLY_SEC_LOOP")
  ELSE ctrl_reconnect([h EXCEPT !.earlySecReq = TRUE,
                         !.ctrlSec = IF h.ctrlUsingSec THEN "freed" ELSE @])

\* The server wants security first: once is enough.
handle_early_sec_req(h) ==
  IF h.earlySecReq THEN abrupt(h, "FAIL_EARLY_SEC_LOOP")
  ELSE ctrl_reconnect([delete_all_timers(h) EXCEPT
                         !.earlySecReq = TRUE,
                         !.ctrlSec = IF h.ctrlUsingSec THEN "freed" ELSE @])

\* The callbacks that are called whatever the server said.
IsProbe(h) == h.postSecConnectCB \in {"post_ending", "post_middle"}

sec_refused(h, code) ==
  CASE h.postSecConnectCB = "disconnect_pleasant" -> pleasant(h, "SUCCESS_EXIT")
    [] IsProbe(h) -> send_after_sec(h)
    [] OTHER -> unexpected_reply(h, code)

read_auth_tls_resp(h, r) ==
  single(h, r,
    CASE r.kind = "ok" -> init_tls_connection(h)
      [] r.kind = "534" -> send_auth_ssl(h)
      [] r.kind = "503" -> IF h.secProbe THEN handle_early_sec_req(h)
                           ELSE crash(h, "assert_secProbe")
      [] OTHER -> sec_refused(h, "FAIL_TLS_REFUSED"))

read_auth_ssl_resp(h, r) ==
  single(h, r, IF r.kind = "ok" THEN init_tls_connection(h)
               ELSE sec_refused(h, "FAIL_SSL_REFUSED"))

\* The condition names post_ending twice and post_middle not at all.
read_pbsz_resp(h, r) ==
  single(h, r,
    CASE r.kind = "ok" -> send_prot(h)
      [] r.kind = "no" /\ h.postSecConnectCB = "post_ending" -> send_after_sec(h)
      [] OTHER -> unexpected_reply(h, "FAIL_PBSZ_OK"))

read_prot_resp(h, r) ==
  single(h, r,
    CASE r.kind = "ok" ->
           IF h.postSecConnectCB = "disconnect_pleasant"
           THEN pleasant(h, "SUCCESS_EXIT") ELSE send_after_sec(h)
      [] r.kind = "no" /\ IsProbe(h) -> send_after_sec(h)
      [] OTHER -> unexpected_reply(h, "FAIL_PROT_OK"))

-----------------------------------------------------------------------------
\* The banner.

after_early_sec(h) == IF h.secProbe THEN "disconnect_pleasant" ELSE "send_user"

\* A second reply behind the banner; a probe that reconnected is not resumed.
read_additional_banner_resp(h, r) ==
  single(h, r,
    CASE r.kind = "early_sec" -> sec_check(h, "send_user")
      [] r.kind # "early_sec" /\ h.earlySecReq -> sec_check(h, after_early_sec(h))
      [] OTHER -> send_user(h))

read_banner(h, r, more) ==
  parse_first(h, r,
    CASE r.kind = "cfaa" -> setup_middle(fail(h, "FAIL_CFAA_BAN"))
      [] r.kind = "ok" /\ r.size = "EXTRA" -> read_additional_banner_resp(h, more)
      [] r.kind = "ok" /\ r.size = "FOUND" ->
           IF h.earlySecReq \/ h.secProbe
           THEN sec_check(h, after_early_sec(h)) ELSE send_user(h)
      [] r.kind \in {"FAIL_VPS_NO_HOST", "FAIL_VSFTPD_BANNER_ERROR",
                     "FAIL_SESSION_LIMIT"} -> abrupt(h, r.kind)
      [] OTHER -> unexpected_reply(h, "FAIL_BANNER_RET"))

-----------------------------------------------------------------------------
\* The directory walk of ctrlChannel.c.

\* The robots.txt path is appended to itemDBuffer, which must be empty.
fetch_robots_txt(h) ==
  send_pasv([h EXCEPT
    !.item = IF @ = "none" THEN "robots" ELSE "other",
    !.xferType = "XFER_FILE", !.pasvAction = "send_retr",
    !.pasvPost = IF crawlType = "NORMAL" THEN "send_syst" ELSE "short_scan_ending"])

handle_robots_txt(h) == [h EXCEPT !.robotObj = @ \/ crawlType = "NORMAL"]

\* A plausible bug: the short scan lists "/" whatever robots.txt says.
short_scan_ending_always(h) == send_syst(h)

short_scan_ending(h) ==
  IF h.robotPresence = "ROBOTS_NO" THEN send_syst(h)
  ELSE pleasant(h, "SUCCESS_EXIT")

end_walk(h) ==
  LET k == [h EXCEPT !.dirQueue = 0, !.item = "none", !.listResp = 0]
  IN  IF crawlType = "NORMAL" THEN send_help(k) ELSE pleasant(k, "SUCCESS_EXIT")

\* A plausible bug: one directory more is taken than the queue holds.
walk_dir_empty(h, skip) ==
  CASE h.lieCount > NUMBER_ALLOWED_LIES ->
         send_help([h EXCEPT !.dirQueue = 0, !.item = "none", !.listResp = 0])
    [] h.lieCount <= NUMBER_ALLOWED_LIES /\ skip <= h.dirQueue ->
         send_pasv([h EXCEPT !.dirQueue = @ - skip - 1, !.item = "dir",
                             !.listResp = 0])
    [] OTHER -> end_walk(h)

walk_dir(h, skip) ==
  CASE h.lieCount > NUMBER_ALLOWED_LIES ->
         send_help([h EXCEPT !.dirQueue = 0, !.item = "none", !.listResp = 0])
    [] h.lieCount <= NUMBER_ALLOWED_LIES /\ skip < h.dirQueue ->
         send_pasv([h EXCEPT !.dirQueue = @ - skip - 1, !.item = "dir",
                             !.listResp = 0])
    [] OTHER -> end_walk(h)

walk_dir_init(h, skip) ==
  walk_dir([h EXCEPT !.pasvAction = "send_list", !.pasvPost = "walk_dir"], skip)

pasvPost(h, skip) ==
  CASE h.pasvPost = "send_syst" -> send_syst(h)
    [] h.pasvPost = "short_scan_ending" -> short_scan_ending(h)
    [] h.pasvPost = "walk_dir" -> walk_dir(h, skip)
    [] h.pasvPost = "disconnect_pleasant" -> disconnect_pleasant(h)

read_syst_resp(h, r) ==
  single(h, r,
    IF crawlType = "SHORT"
    THEN send_pasv([h EXCEPT !.item = "root", !.pasvAction = "send_list",
                             !.pasvPost = "disconnect_pleasant"])
    ELSE send_pwd(h))

\* The path in the reply, or "/", is the first directory of the queue.
read_pwd_resp(h, r, skip) ==
  single(h, r, walk_dir_init([h EXCEPT !.dirQueue = @ + 1], skip))

read_pasv_resp(h, r) ==
  LET k == [enter(h, "S_DATA_CONN") EXCEPT
              !.dataBev = TRUE, !.dataIsConnected = FALSE, !.dataUsingSec = FALSE]
  IN  single(h, r,
        CASE r.kind = "no" -> unexpected_reply(h, "FAIL_PASV_RESP")
          [] r.kind = "odd" -> unexpected_reply(h, "FAIL_PASV_SCAN")
          [] r.kind = "ok" ->
               IF h.dataBev THEN crash(h, "data_bev_lost")
               ELSE IF h.pasvAction = "send_retr" THEN send_retr(k) ELSE send_list(k))

-----------------------------------------------------------------------------
\* The data channel (dataChannel.c) and the replies around a transfer.

\* read_data_buffer in data_read_cb and data_close_channel, and the free after.
data_overflow(h) == free_if_finished(abrupt(h, "FAIL_TRAP_DATA_AMT"))

\* data_event_cb when a connection attempt is over; the host is its argument.
data_event(h, connected) ==
  CASE h.freed -> crash(h, "use_after_free")
    [] ~h.freed /\ connected -> [h EXCEPT !.dataIsConnected = TRUE]
    [] ~h.freed /\ ~connected /\ h.dataIsConnected -> h
    [] OTHER -> free_if_finished(abrupt(h, "FAIL_DATA_CONNECT_RESET"))

\* check_lie: the second and later listings are compared with the first one.
check_lie(h, text) ==
  CASE h.provedHonest -> h
    [] ~h.provedHonest /\ ~h.lieHashSet ->
         [h EXCEPT !.lieHashSet = TRUE, !.lieCount = 0]
    [] ~h.provedHonest /\ h.lieHashSet /\ text = "same" ->
         [h EXCEPT !.lieCount = @ + 1]
    [] OTHER -> [h EXCEPT !.provedHonest = TRUE]

parse_list_data(h, c) ==
  IF h.xferType # "XFER_LIST" \/ c.text = "none" \/ crawlType = "SHORT" THEN h
  ELSE [check_lie(h, c.text) EXCEPT !.dirQueue = @ + c.dirs]

\* data_close_channel up to the point where it runs the waiting handler.
close_data_bev(h, c) ==
  CASE ~h.dataBev -> h
    [] h.dataBev /\ c.over -> data_overflow(h)
    [] OTHER -> [parse_list_data(h, c) EXCEPT
                   !.dataBev = FALSE, !.dataIsConnected = FALSE]

\* The only handlers that wait for the data channel find it closed now.
after_retr(h, c) ==
  pasvPost([h EXCEPT !.retrWaitTimer = FALSE,
                     !.robotPresence = IF h.item = "robots" THEN "ROBOTS_NO" ELSE @,
                     !.robotObj = TRUE], c.skip)

read_retr_done(h, r, c) ==
  LET k == [h EXCEPT !.retrWaitTimer = FALSE]
  IN  IF h.dataBev THEN [h EXCEPT !.delayedCtrlCB = "read_retr_done"]
      ELSE single(h, r,
             CASE r.kind = "ok" -> pasvPost(handle_robots_txt(k), c.skip)
               [] r.kind = "no" -> after_retr(k, c)
               [] r.kind = "odd" -> unexpected_reply(k, "FAIL_RETR_DONE"))

\* Only whether it is the cutoff, or how far below, is ever asked of the count.
list_error(h) ==
  [h EXCEPT !.listErrCount = IF @ > LIST_ERROR_CUTOFF THEN @ ELSE @ + 1]

\* A plausible bug: the crawl goes on after the last error.
list_failed_goes_on(h, code, skip) ==
  pasvPost(IF crawlType = "SHORT" \/ h.listErrCount = LIST_ERROR_CUTOFF
           THEN unexpected_reply(h, code) ELSE h, skip)

\* The error count is compared with the cutoff, not bounded by it.
list_failed(h, code, skip) ==
  IF crawlType = "SHORT" \/ h.listErrCount = LIST_ERROR_CUTOFF
  THEN unexpected_reply(h, code) ELSE pasvPost(h, skip)

read_list_done(h, r, c) ==
  IF h.dataBev THEN [h EXCEPT !.delayedCtrlCB = "read_list_done"]
  ELSE single(h, r,
         IF r.kind # "ok" THEN list_failed(list_error(h), "FAIL_LIST_DONE", c.skip)
         ELSE IF h.pasvPost = "disconnect_pleasant" THEN pleasant(h, "SUCCESS_EXIT")
         ELSE pasvPost(h, c.skip))

\* The handler that waited for the data channel, which is closed now.
run_delayed(h, d, c) ==
  CASE h.freed \/ h.delayedCtrlCB = "none" -> h
    [] ~h.freed /\ h.delayedCtrlCB = "read_retr_done" -> read_retr_done(d, c.more, c)
    [] ~h.freed /\ h.delayedCtrlCB = "read_list_done" -> read_list_done(d, c.more, c)

run_delayed_cb(h, c) == run_delayed(h, [h EXCEPT !.delayedCtrlCB = "none"], c)

\* A plausible bug: what waits is only done when there is a listing to parse.
data_close_channel_forgets(h, c) ==
  IF ~h.dataBev THEN h
  ELSE IF c.text = "none" THEN close_data_bev(h, c)
  ELSE run_delayed_cb(close_data_bev(h, c), c)

data_close_channel(h, c) ==
  IF ~h.dataBev THEN h ELSE run_delayed_cb(close_data_bev(h, c), c)

\* data_close_channel's caller goes on with the same record.
post_retr_go_on(h, c) == then_on(h, pasvPost(h, c.skip))

post_retr_wait(h, c) ==
  post_retr_go_on(
    data_close_channel([h EXCEPT !.retrWaitTimer = FALSE,
       !.robotPresence = IF h.item = "robots" THEN "ROBOTS_NO" ELSE @,
       !.robotObj = TRUE], c), c)

\* The plain bufferevent is disabled and its pointer overwritten, never freed.
\* If it is still connecting, libevent leaves its write event armed.
data_tls_init(h) ==
  IF h.secType = "SEC_UNK" THEN free_if_finished(abrupt(h, "FAIL_UNK_SECURITY"))
  ELSE IF ~h.dataBev THEN crash(h, "null_data_bev")
  ELSE [h EXCEPT !.dataUsingSec = TRUE,
                 !.staleData = IF h.dataIsConnected THEN @ ELSE @ + 1]

\* A plausible bug: only LIST protects its data.
begin_xfer_list_only(h, state) ==
  LET k == enter(h, state)
  IN  IF h.ctrlUsingSec /\ state = "S_LIST_XFER" THEN data_tls_init(k) ELSE k

\* A plausible bug: the state is not changed.
begin_xfer_stays(h, state) == IF h.ctrlUsingSec THEN data_tls_init(h) ELSE h

\* A transfer begins: a protected session protects the data as well.
begin_xfer(h, state) ==
  LET k == enter(h, state) IN IF h.ctrlUsingSec THEN data_tls_init(k) ELSE k

arm_retr_wait(h) ==
  then_on(h, IF h.retrWaitTimer THEN crash(h, "timer_lost")
             ELSE [h EXCEPT !.retrWaitTimer = TRUE])

retr_done_too(h, c) == then_on(h, read_retr_done(h, c.more, c))

read_retr_resp(h, r, c) ==
  LET found == IF h.item = "robots" THEN [h EXCEPT !.robotPresence = "ROBOTS_YES"] ELSE h
  IN  parse_first(h, r,
        CASE r.kind = "ok" /\ r.size = "EXTRA" ->
               retr_done_too(begin_xfer(found, "S_RETR_XFER"), c)
          [] r.kind = "ok" /\ r.size = "FOUND" -> begin_xfer(found, "S_RETR_XFER")
          [] r.kind = "no" -> arm_retr_wait(data_close_channel(enter(h, "S_RETR_XFER"), c))
          [] r.kind = "odd" -> unexpected_reply(h, "FAIL_RETR_OK"))

list_done_too(h, c) == then_on(h, read_list_done(h, c.more, c))

list_refused(h, c) == then_on(h, list_failed(h, "FAIL_LIST_IN", c.skip))

read_list_resp(h, r, c) ==
  LET noted == [h EXCEPT !.listResp = IF @ = 2 THEN @ ELSE @ + 1]
  IN  parse_first(h, r,
        CASE r.kind = "ok" /\ r.size = "EXTRA" ->
               list_done_too(begin_xfer(noted, "S_LIST_XFER"), c)
          [] r.kind = "ok" /\ r.size = "FOUND" -> begin_xfer(noted, "S_LIST_XFER")
          [] OTHER -> list_refused(data_close_channel(list_error(noted), c), c))
=============================================================================
