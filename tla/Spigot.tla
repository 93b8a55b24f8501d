------------------------------- MODULE Spigot -------------------------------
(***************************************************************************)
(* sendSpigot and sendSpigot_cb of ctrlChannel/ctrlSend.c as operators on  *)
(* a host's record.  Every command of a host goes through sendSpigot,      *)
(* which writes it, or delays it behind a one-second timer, or refuses it  *)
(* for good.  SendSpigot specifies them on their own; in CtrlSession the   *)
(* handlers call them.                                                     *)
(*                                                                         *)
(* gconfig.second is counted by another thread.  All the throttle ever     *)
(* reads of it is whether it is past state->thisSecond: the field tick.    *)
(***************************************************************************)
EXTENDS Integers, Sequences

CONSTANTS
  maxReqPerSec,  \* command line option -R
  maxReqPerIp,   \* command line option -L
  Requests,      \* the commands a handler may ask for
  NoRequest

ASSUME SpigotAssumption ==
  /\ maxReqPerSec \in Nat \ {0}
  /\ maxReqPerIp \in Nat \ {0}

ASSUME NoRequestAssumption == NoRequest \notin Requests

-----------------------------------------------------------------------------
\* A plausible bug: the delayed request is put out under the old state.
change_state_late(h, nextState, req) == [h EXCEPT !.sent = Append(@, req)]

\* evbuffer_add and change_state: sent is what this step put on the wire.
change_state(h, nextState, req) ==
  [h EXCEPT !.sent = Append(@, req), !.state = nextState]

\* A socket that is not live loses the request, but it is counted.
transmit(h, live, nextState, req) ==
  IF live THEN change_state(h, nextState, req)
          ELSE [h EXCEPT !.closedSend = TRUE]

\* A new second has begun: thisSecond = second, reqThisSecond = 0.
new_second(h) ==
  IF h.tick THEN [h EXCEPT !.tick = FALSE, !.reqThisSecond = 0] ELSE h

\* A plausible bug: the new request goes out under the old request's state.
clobber_req_only(h, nextState, req) == [h EXCEPT !.savedReq = req]

\* A timer is in flight: the request takes the place of the delayed one.
clobber(h, nextState, req) ==
  [h EXCEPT !.savedReq = req, !.savedNextState = nextState]

\* A plausible bug: the limit is off by one.
limit_hit_late(h) == h.numReqSent > maxReqPerIp

limit_hit(h) == h.numReqSent > maxReqPerIp - 1

\* A plausible bug: the count starts anew.
hit_limit_resets(h) ==
  [h EXCEPT !.terminationCode = "FAIL_MAX_REQ_REACHED",
            !.reqLimitReached = TRUE, !.numReqSent = 0]

hit_limit(h) ==
  [h EXCEPT !.terminationCode = "FAIL_MAX_REQ_REACHED",
            !.reqLimitReached = TRUE]

arm(h, nextState, req) ==
  [h EXCEPT !.savedReqTimer = TRUE, !.savedReq = req,
            !.savedNextState = nextState]

\* A plausible bug: the budget is counted down from nothing.
count_down(h) == [h EXCEPT !.reqThisSecond = @ + 1, !.numReqSent = @ - 1]

count(h) == [h EXCEPT !.reqThisSecond = @ + 1, !.numReqSent = @ + 1]

sendSpigot(h, live, nextState, req) ==
  LET n == new_second(h)
  IN  IF h.savedReqTimer THEN clobber(h, nextState, req)
      ELSE IF limit_hit(h) THEN hit_limit(h)
      ELSE IF n.reqThisSecond >= maxReqPerSec THEN arm(n, nextState, req)
      ELSE count(transmit(n, live, nextState, req))

\* A plausible bug: the second the delayed request falls in starts at none.
sendSpigot_cb_uncounted(h, live) ==
  LET t == transmit(h, live, h.savedNextState, h.savedReq)
  IN  [t EXCEPT !.savedReqTimer = FALSE, !.savedReq = NoRequest,
                !.reqThisSecond = 0, !.tick = FALSE, !.numReqSent = @ + 1]

\* A plausible bug: the timer waits for a second with room in it, but only a
\* new request makes the throttle look at the clock.
sendSpigot_cb_waits(h, live) ==
  IF h.reqThisSecond >= maxReqPerSec THEN h
  ELSE [transmit(h, live, h.savedNextState, h.savedReq) EXCEPT
          !.savedReqTimer = FALSE, !.savedReq = NoRequest,
          !.numReqSent = @ + 1]

\* The timer fires; savedReq is not read again.
sendSpigot_cb(h, live) ==
  LET t == transmit(h, live, h.savedNextState, h.savedReq)
  IN  [t EXCEPT !.savedReqTimer = FALSE, !.savedReq = NoRequest,
                !.reqThisSecond = 1, !.tick = FALSE, !.numReqSent = @ + 1]
=============================================================================
