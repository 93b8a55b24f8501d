------------------------------ MODULE HostState ------------------------------
(***************************************************************************)
(* hoststate_t, and the operations every handler of a host ends in: asking *)
(* for a request (ctrlSend.c), arming and deleting timers, and the three   *)
(* ways of disconnecting (ctrlEnd.c).  An operation takes the host's       *)
(* record and gives the record it leaves behind.                           *)
(*                                                                         *)
(* fault names the first thing a step did that C leaves undefined or that  *)
(* aborts: a failed assert, a null pointer, freed memory, the only pointer *)
(* to an armed timer overwritten.  No step is taken after a fault.         *)
(***************************************************************************)
EXTENDS Integers, Sequences

CONSTANTS
  maxReqPerSec,          \* command line option -R
  maxReqPerIp,           \* command line option -L
  crawlType,             \* "SUPER_SHORT", "SHORT" or "NORMAL"
  LIST_ERROR_CUTOFF,
  NUMBER_ALLOWED_LIES

ASSUME HostStateAssumption ==
  /\ maxReqPerSec \in Nat \ {0}
  /\ maxReqPerIp \in Nat \ {0}
  /\ crawlType \in {"SUPER_SHORT", "SHORT", "NORMAL"}
  /\ LIST_ERROR_CUTOFF \in Nat \ {0}
  /\ NUMBER_ALLOWED_LIES \in Nat

Commands ==
  {"USER", "PASS", "SYST", "PWD", "PASV", "RETR", "LIST", "HELP", "FEAT",
   "STAT", "SITE", "PORT", "PORT_LIST", "AUTH_TLS", "AUTH_SSL", "PBSZ",
   "PROT", "QUIT"}

INSTANCE Spigot WITH Requests <- Commands, NoRequest <- "none"

ReplyStates ==
  {"S_USER_SENT", "S_PASS_SENT", "S_SYST_SENT", "S_PWD_SENT", "S_PASV_SENT",
   "S_RETR_SENT", "S_LIST_SENT", "S_HELP_SENT", "S_FEAT_SENT", "S_STAT_SENT",
   "S_SITE_SENT", "S_PORT_SENT", "S_PORT_LIST_SENT", "S_AUTH_TLS_SENT",
   "S_AUTH_SSL_SENT", "S_PBSZ_INIT_SENT", "S_PROT_SENT", "S_QUIT_SENT"}

States ==
  ReplyStates \cup
  {"S_INITIAL", "S_CONNECTED", "S_RESET_WAIT", "S_DATA_CONN", "S_RETR_XFER",
   "S_LIST_XFER", "S_PORT_LIST_XFER", "S_SECURITY_CONNECTING", "S_QUIT_ACK"}

\* The codes of terminationCodes.h that the handlers modelled here can give a host.
TerminationCodes ==
  {"FAIL_BANNER_RET", "FAIL_USER_RET", "FAIL_PASS_OK", "FAIL_UNK_BOUNCE_RESP",
   "FAIL_PASV_RESP", "FAIL_PASV_SCAN", "FAIL_LIST_IN", "FAIL_LIST_DONE",
   "FAIL_TIMEOUT", "FAIL_DISCONNECT_OTHER", "FAIL_TLS_REFUSED", "FAIL_PBSZ_OK",
   "FAIL_PROT_OK", "FAIL_DEST_NO_RESPONSE", "FAIL_DEST_REFUSED", "FAIL_RETR_OK",
   "FAIL_TRAP_CTRL_AMT", "FAIL_TRAP_DATA_AMT", "FAIL_UNK_SECURITY",
   "FAIL_EARLY_SEC_LOOP", "FAIL_DISCONNECT_USER", "FAIL_USER_REJECTED",
   "FAIL_EXTRA_RESP", "FAIL_SECONDARY_NEGOTIATION", "FAIL_SSL_REFUSED",
   "FAIL_PASS_REJECTED", "FAIL_MAX_REQ_REACHED", "FAIL_FIREWALL_AUTH",
   "FAIL_CFAA_BAN", "FAIL_RETR_DONE", "FAIL_TIMEOUT_BANNER",
   "FAIL_BAD_PORT_LIST_RESP", "FAIL_VIRTUAL_SITES", "FAIL_BAD_CONNECT",
   "FAIL_ERROR_EVENT", "FAIL_BAD_USER_CONFIG", "FAIL_TIMEOUT_TLS",
   "FAIL_BFTPD_CRASH", "FAIL_PASS_CHILD_DIED", "FAIL_VPS_NO_HOST",
   "FAIL_SESSION_LIMIT", "FAIL_VSFTPD_BANNER_ERROR", "FAIL_PASS_NO_ENTRY",
   "FAIL_DISCONNECT_PASS", "FAIL_DISCONNECT_BANNER", "FAIL_REALLY_BAD_ERROR",
   "FAIL_UNK_INIT_EVENT", "FAIL_DISCONNECT_PORT", "SUCCESS_EXIT",
   "FAIL_TIMEOUT_PASS", "FAIL_BLANK_SSL_ERROR", "FAIL_DATA_CONNECT_RESET",
   "FAIL_NULL_IN_RESP"}

\* connect_new (the record is all zeros) and ctrl_init.
NewHost ==
  [state |-> "S_INITIAL", lastState |-> "S_UNSET_STATE",
   terminationCode |-> "UNSET", result |-> "none",
   hostIsFinished |-> FALSE, freed |-> FALSE, fault |-> "none",
   \* ctrlBev as libevent sees it: connecting, up, tls (handshake), closed
   conn |-> "connecting", ctrlUsingSec |-> FALSE, ctrlSec |-> "none",
   secType |-> "SEC_UNK",
   secProbe |-> FALSE, earlySecReq |-> FALSE, secProbeStorage |-> "UNSET",
   postSecConnectCB |-> "none", delayedCtrlCB |-> "none",
   \* the request throttle
   sent |-> <<>>, tick |-> FALSE, reqThisSecond |-> 0, numReqSent |-> 0,
   savedReqTimer |-> FALSE, savedReq |-> "none", savedNextState |-> "none",
   reqLimitReached |-> FALSE, closedSend |-> FALSE,
   \* replies that may come in two parts, and the waiting timers
   multiRespState |-> "UNK", multiRespTimer |-> FALSE, multiRespEval |-> "none",
   resetWaitTimer |-> FALSE, retrWaitTimer |-> FALSE,
   \* the data channel and the walk over the directories
   dataBev |-> FALSE, dataIsConnected |-> FALSE, dataUsingSec |-> FALSE,
   \* plain data bufferevents still connecting that data_tls_init overwrote: the
   \* write event of each stays armed, with the host as its argument
   staleData |-> 0,
   xferType |-> "XFER_UNK", pasvAction |-> "none", pasvPost |-> "none",
   item |-> "none", dirQueue |-> 0, robotPresence |-> "ROBOTS_UNK",
   robotObj |-> FALSE, listErrCount |-> 0, lieHashSet |-> FALSE,
   lieCount |-> 0, provedHonest |-> FALSE,
   \* history: connections made, RECKEY_LIST_RESP records of this directory (2: too many)
   connects |-> 1, listResp |-> 0]

crash(h, what) == [h EXCEPT !.fault = IF @ = "none" THEN what ELSE @]
enter(h, s) == [h EXCEPT !.state = s]
fail(h, code) == [h EXCEPT !.terminationCode = code]

\* A caller goes on after an operation that may have freed the record.
then_on(h, next) ==
  CASE h.fault # "none" -> h
    [] h.fault = "none" /\ h.freed -> crash(h, "use_after_free")
    [] h.fault = "none" /\ ~h.freed -> next

\* if (state->hostIsFinished) free(state)
free_if_finished(h) == IF h.hostIsFinished THEN [h EXCEPT !.freed = TRUE] ELSE h

-----------------------------------------------------------------------------
\* ctrlEnd.c

\* A plausible bug: one of the four timers is forgotten.
delete_all_timers_three(h) ==
  [h EXCEPT !.savedReqTimer = FALSE, !.retrWaitTimer = FALSE,
            !.multiRespTimer = FALSE]

delete_all_timers(h) ==
  [h EXCEPT !.savedReqTimer = FALSE, !.retrWaitTimer = FALSE,
            !.multiRespTimer = FALSE, !.resetWaitTimer = FALSE]

\* The second time ctrlBev is NULL.
end_channel_now(h) ==
  IF h.hostIsFinished THEN crash(h, "ended_twice")
  ELSE [delete_all_timers(h) EXCEPT
          !.dataBev = FALSE, !.dirQueue = 0, !.conn = "closed",
          !.hostIsFinished = TRUE]

note_last_state(h) ==
  [h EXCEPT !.lastState = IF @ = "S_UNSET_STATE" THEN h.state ELSE @]

disconnect(h, how) == end_channel_now([note_last_state(h) EXCEPT !.result = how])
disconnect_abrupt(h) == disconnect(h, "ABRUPT")
disconnect_rude(h) == disconnect(h, "RUDE")

abrupt(h, code) == disconnect_abrupt(fail(h, code))

-----------------------------------------------------------------------------
\* ctrlSend.c.  Where ctrlBev is already gone there is nothing to write to.
ask(h, nextState, req) ==
  IF h.freed THEN crash(h, "use_after_free")
  ELSE IF h.hostIsFinished THEN crash(h, "no_channel")
  ELSE sendSpigot(h, TRUE, nextState, req)

multi_resp_init(h) == [h EXCEPT !.multiRespState = "READ_ZERO"]

send_user(h) == ask(multi_resp_init(h), "S_USER_SENT", "USER")
send_pass(h) == ask(multi_resp_init(h), "S_PASS_SENT", "PASS")
send_syst(h) == ask(h, "S_SYST_SENT", "SYST")
send_pwd(h)  == ask(h, "S_PWD_SENT", "PWD")
send_pasv(h) == ask(h, "S_PASV_SENT", "PASV")
send_help(h) == ask(h, "S_HELP_SENT", "HELP")
send_feat(h) == ask(h, "S_FEAT_SENT", "FEAT")
send_stat(h) == ask(h, "S_STAT_SENT", "STAT")
send_site(h) == ask(h, "S_SITE_SENT", "SITE")
send_port(h) == ask(h, "S_PORT_SENT", "PORT")
send_quit(h) == ask(h, "S_QUIT_SENT", "QUIT")
send_pbsz(h) == ask(h, "S_PBSZ_INIT_SENT", "PBSZ")
send_prot(h) == ask(h, "S_PROT_SENT", "PROT")
send_auth_tls(h) == ask(h, "S_AUTH_TLS_SENT", "AUTH_TLS")
send_auth_ssl(h) == ask(h, "S_AUTH_SSL_SENT", "AUTH_SSL")
send_port_list(h) ==
  [ask(h, "S_PORT_LIST_SENT", "PORT_LIST") EXCEPT !.xferType = "XFER_LIST"]

\* data_connect follows at once, also when the request was delayed or refused.
send_retr(h) == [ask(h, "S_RETR_SENT", "RETR") EXCEPT !.xferType = "XFER_FILE"]
send_list(h) == [ask(h, "S_LIST_SENT", "LIST") EXCEPT !.xferType = "XFER_LIST"]

disconnect_pleasant(h) == send_quit(note_last_state(h))
pleasant(h, code) == disconnect_pleasant(fail(h, code))

\* parseResp.c: a complete reply that the state has no use for.
unexpected_reply(h, code) == pleasant(h, code)
=============================================================================
