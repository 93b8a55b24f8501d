----------------------------- MODULE SendSpigot -----------------------------
(***************************************************************************)
(* The request throttle on its own: the handlers ask for anything at any   *)
(* time, the timer of a delayed request fires, the other thread counts.    *)
(***************************************************************************)
EXTENDS Spigot

CONSTANT TickFirst  \* does second advance between arming and firing?

ASSUME TickAssumption == TickFirst \in BOOLEAN

-----------------------------------------------------------------------------
VARIABLES
  h,          \* the fields of hoststate_t that sendSpigot uses
  inSecond,   \* history: requests written while second had its present value
  lastAsked,  \* history: the last request that was not refused
  lastSent    \* history: the last request that was written

vars == <<h, inSecond, lastAsked, lastSent>>

\* In this module the state that follows a request bears its name.
States == Requests \cup {NoRequest}

HostFields ==
  [state : States, sent : Seq(Requests), tick : BOOLEAN,
   reqThisSecond : Nat, numReqSent : Nat, savedReqTimer : BOOLEAN,
   savedReq : States, savedNextState : States, reqLimitReached : BOOLEAN,
   terminationCode : {"UNSET", "FAIL_MAX_REQ_REACHED"}, closedSend : BOOLEAN]

\* ctrl_init: nothing sent, no timer; second may be 0 or past it already.
Init ==
  /\ \E t \in BOOLEAN :
       h = [state |-> NoRequest, sent |-> <<>>, tick |-> t,
            reqThisSecond |-> 0, numReqSent |-> 0, savedReqTimer |-> FALSE,
            savedReq |-> NoRequest, savedNextState |-> NoRequest,
            reqLimitReached |-> FALSE, terminationCode |-> "UNSET",
            closedSend |-> FALSE]
  /\ inSecond = 0
  /\ lastAsked = NoRequest
  /\ lastSent = NoRequest

Fresh(r) == [r EXCEPT !.sent = <<>>]

NoteSent ==
  /\ inSecond' = inSecond + Len(h'.sent)
  /\ lastSent' = IF h'.sent = <<>> THEN lastSent ELSE h'.sent[Len(h'.sent)]

\* The timer thread's incrementSecond.
Tick ==
  /\ h' = [Fresh(h) EXCEPT !.tick = TRUE]
  /\ inSecond' = 0
  /\ UNCHANGED <<lastAsked, lastSent>>

\* A handler asks for a request.
Ask(req, live) ==
  /\ h' = sendSpigot(Fresh(h), live, req, req)
  /\ lastAsked' = IF h'.reqLimitReached THEN lastAsked ELSE req
  /\ NoteSent

\* The timer of a delayed request fires.
Fire(live) ==
  /\ h.savedReqTimer
  /\ TickFirst => h.tick
  /\ h' = sendSpigot_cb(Fresh(h), live)
  /\ UNCHANGED lastAsked
  /\ NoteSent

Next ==
  \/ Tick
  \/ \E req \in Requests, live \in BOOLEAN : Ask(req, live)
  \/ \E live \in BOOLEAN : Fire(live)

Spec == Init /\ [][Next]_vars

\* libevent runs the timer it was given and the other thread keeps counting.
LiveSpec == Spec /\ WF_vars(Tick) /\ SF_vars(\E live \in BOOLEAN : Fire(live))

-----------------------------------------------------------------------------
TypeOK ==
  /\ h \in HostFields
  /\ inSecond \in Nat
  /\ lastAsked \in States
  /\ lastSent \in States

\* No host is ever sent more than -L requests, a delayed one included: the
\* limit is only tested when a request is asked for, not when its timer fires.
Budget == h.numReqSent + (IF h.savedReqTimer THEN 1 ELSE 0) <= maxReqPerIp

\* No more than -R requests are written while second keeps one value, if the
\* one-second timer never fires in the second it was armed in.
Rate == TickFirst => inSecond <= maxReqPerSec

\* The state in which the next reply is read is the state that follows the
\* last request on the wire, also when delayed requests replace one another.
StateFollowsWire == h.state = lastSent

\* A delayed request is the last one a handler asked for.
LastAskedGoesOut ==
  h.savedReqTimer => h.savedReq = lastAsked /\ h.savedNextState = lastAsked

\* The limit (sendSpigot's reqLimitReached) is only reported when the whole
\* budget has been sent and no request is delayed any more, and nothing is sent
\* or counted after the report.
LimitIsFinal ==
  [][/\ h'.reqLimitReached => h'.numReqSent = maxReqPerIp /\ ~h'.savedReqTimer
     /\ h.reqLimitReached =>
          h'.reqLimitReached /\ h'.sent = <<>> /\ h'.numReqSent = h.numReqSent]_vars

\* A delayed request is not delayed for ever, whatever is asked meanwhile.
DelayEnds == h.savedReqTimer ~> ~h.savedReqTimer
=============================================================================
