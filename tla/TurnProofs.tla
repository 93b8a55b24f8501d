----------------------------- MODULE TurnProofs ------------------------------
(***************************************************************************)
(* Theorems about CtrlSession for servers whose replies answer requests:   *)
(* connections may break, fall silent, end early or bring too much.        *)
(*                                                                         *)
(* The argument is that of a game in turns.  The server (owed), a delayed  *)
(* request, a timer, the end of the data channel or a new connection will  *)
(* take the session on, and never two of them (Tame).  A handler begins    *)
(* with a host whose turn it is (Placid) and passes the turn on (Turned).  *)
(***************************************************************************)
EXTENDS SessionProofs

\* A timer or the end of the data channel will take the session on.
Waits(k) ==
  \/ k.multiRespTimer \/ k.resetWaitTimer \/ k.retrWaitTimer
  \/ k.delayedCtrlCB \in {"read_retr_done", "read_list_done"}

\* A failure is kept for the probe, on the first connection.
Stored(k) == k.secProbeStorage # "UNSET" /\ k.connects = 1

Auths == {"S_AUTH_TLS_SENT", "S_AUTH_SSL_SENT"}

\* One of the server, a delayed request, and what waits has the turn.
OneTurn(k, w) ==
  /\ w \in {0, 1}
  /\ w = 1 \/ k.savedReqTimer => ~Waits(k) /\ k.conn = "up"
  /\ w = 1 => ~k.savedReqTimer
  /\ k.state = "S_QUIT_SENT" => ~k.savedReqTimer /\ ~Waits(k)

\* TLS begins once, and a probe does not log in again.
Secured(k, w) ==
  /\ k.secType = "SEC_UNK" \/ k.ctrlUsingSec
  /\ k.ctrlUsingSec => ~Heading(k, Auths \cup {"S_CONNECTED"})
  /\ k.conn = "tls" => k.state = "S_SECURITY_CONNECTING"
  /\ k.secProbe =>
       /\ k.postSecConnectCB # "send_user" /\ Later(k) \notin LoginStates
       /\ ~k.multiRespTimer /\ ~k.resetWaitTimer
       /\ w = 1 => k.state \notin LoginStates

\* A login begins with its first reply; a transfer has its data channel.
Provided(k, w) ==
  /\ (w = 1 /\ k.state \in LoginStates) \/ Later(k) \in LoginStates
       => k.multiRespState = "READ_ZERO"
  /\ ~Rude("data_first") =>
       /\ k.state = "S_DATA_CONN" => k.dataBev
       /\ w = 1 /\ k.state \in {"S_RETR_SENT", "S_LIST_SENT"} => k.dataBev

\* After the last error only QUIT is left; a directory that was answered is
\* not asked for again.
Walked(k, w) ==
  /\ k.listErrCount \in 0..LIST_ERROR_CUTOFF /\ k.listResp \in {0, 1}
  /\ k.listErrCount = LIST_ERROR_CUTOFF =>
       /\ w = 1 => k.state = "S_QUIT_SENT"
       /\ Later(k) \in {"none", "S_QUIT_SENT"} /\ ~Waits(k)
       /\ k.conn = "up" /\ k.state \notin LoginStates
  /\ k.listResp = 1 =>
       /\ w = 1 => k.state \in {"S_LIST_XFER", "S_QUIT_SENT"}
       /\ Later(k) \in {"none", "S_QUIT_SENT"}
       /\ k.conn = "up" /\ k.state \notin LoginStates
       /\ ~k.multiRespTimer /\ ~k.resetWaitTimer /\ ~k.retrWaitTimer
       /\ k.delayedCtrlCB # "read_retr_done"

\* The failure is kept as long as the probe lasts.
Remembered(k, w) ==
  /\ k.connects \in Nat \ {0}
  /\ k.resetWaitTimer => k.terminationCode \notin {"UNSET", "SUCCESS_EXIT"}
  /\ Stored(k) =>
       /\ k.secProbe /\ k.postSecConnectCB = "post_middle" /\ k.conn # "connecting"
       /\ k.secProbeStorage # "SUCCESS_EXIT" /\ k.terminationCode # "SUCCESS_EXIT"
       /\ w = 1 => k.state \in SecPhase \cup {"S_QUIT_SENT"}
       /\ Later(k) \in SecPhase \cup {"S_QUIT_SENT", "none"} /\ ~Waits(k)
       /\ Heading(k, {"S_QUIT_SENT"}) =>
            k.terminationCode \in {k.secProbeStorage, "FAIL_PBSZ_OK"}

Tame(k, w) ==
  OneTurn(k, w) /\ Secured(k, w) /\ Provided(k, w) /\ Walked(k, w) /\ Remembered(k, w)

-----------------------------------------------------------------------------
TurnFields ==
  {"state", "terminationCode", "result", "hostIsFinished", "freed", "fault", "conn",
   "ctrlUsingSec", "secType", "secProbe", "secProbeStorage", "postSecConnectCB",
   "delayedCtrlCB", "sent", "savedReqTimer", "savedNextState", "multiRespState",
   "multiRespTimer", "resetWaitTimer", "retrWaitTimer", "dataBev", "listErrCount",
   "listResp", "connects", "pasvAction", "pasvPost", "item"}

\* The host's own turn: nothing is under way, and nothing was sent in this step.
Placid(k) ==
  /\ TurnFields \subseteq DOMAIN k
  /\ Up(k) /\ k.conn = "up" /\ k.sent = <<>>
  /\ ~k.savedReqTimer /\ ~Waits(k) /\ k.state # "S_QUIT_SENT"
  /\ Tame(k, 0)

\* The faults that are left, each with its reason.
Excused(k) ==
  /\ k.fault \in {"none", "use_after_free", "null_data_bev"}
  /\ k.fault = "use_after_free" =>
       \/ Rude("overflow") /\ k.terminationCode = "FAIL_TRAP_DATA_AMT"
       \/ Rude("early_read") /\ k.state = "S_CONNECTED"
  /\ k.fault = "null_data_bev" =>
       Rude("data_first") /\ k.ctrlUsingSec /\ k.state \in {"S_RETR_XFER", "S_LIST_XFER"}

\* The verdict of a host that has ended.
Judged(k) ==
  Stored(k) =>
    /\ k.terminationCode # "SUCCESS_EXIT"
    /\ k.result # "ABRUPT" => k.terminationCode \in {k.secProbeStorage, "FAIL_PBSZ_OK"}

\* The host, whatever has become of it, when the server owes w replies.
InTurn(k, w) ==
  /\ TurnFields \subseteq DOMAIN k
  /\ k.listErrCount \in 0..LIST_ERROR_CUTOFF /\ k.listResp \in {0, 1}
  /\ k.listErrCount = LIST_ERROR_CUTOFF => ~Listed(k)
  /\ Excused(k)
  /\ k.hostIsFinished => Judged(k)
  /\ Up(k) => Tame(k, w)

\* The turn was passed on, the server owing b replies besides those asked for now.
Passed(k, b) == InTurn(k, b + Len(k.sent))

\* A handler frees the host itself only where it was given too much data.
Turned(k, b) ==
  /\ Passed(k, b)
  /\ k.freed /\ k.fault = "none"
       => Rude("overflow") /\ k.terminationCode = "FAIL_TRAP_DATA_AMT"

\* What may be asked for.
Fits(k, next) ==
  /\ next \in Auths => ~k.ctrlUsingSec
  /\ k.secProbe => next \notin LoginStates
  /\ next \in LoginStates => k.multiRespState = "READ_ZERO"
  /\ next \in {"S_RETR_SENT", "S_LIST_SENT"} /\ ~Rude("data_first") => k.dataBev
  /\ next # "S_QUIT_SENT" => k.listErrCount # LIST_ERROR_CUTOFF /\ k.listResp = 0
  /\ Stored(k) => next \in SecPhase \cup {"S_QUIT_SENT"}
  /\ Stored(k) /\ next = "S_QUIT_SENT"
       => k.terminationCode \in {k.secProbeStorage, "FAIL_PBSZ_OK"}

\* The request is sent, delayed or refused; nothing else changes.
Asked(k, m, next, req) ==
  /\ TurnFields \subseteq DOMAIN m
  /\ m.result = k.result /\ m.hostIsFinished = k.hostIsFinished /\ m.freed = k.freed
  /\ m.fault = k.fault /\ m.conn = k.conn /\ m.ctrlUsingSec = k.ctrlUsingSec
  /\ m.secType = k.secType /\ m.secProbe = k.secProbe
  /\ m.secProbeStorage = k.secProbeStorage /\ m.postSecConnectCB = k.postSecConnectCB
  /\ m.delayedCtrlCB = k.delayedCtrlCB /\ m.multiRespState = k.multiRespState
  /\ m.multiRespTimer = k.multiRespTimer /\ m.resetWaitTimer = k.resetWaitTimer
  /\ m.retrWaitTimer = k.retrWaitTimer /\ m.dataBev = k.dataBev
  /\ m.listErrCount = k.listErrCount /\ m.listResp = k.listResp /\ m.connects = k.connects
  /\ \/ /\ m.sent = <<req>> /\ m.state = next /\ ~m.savedReqTimer
        /\ m.terminationCode = k.terminationCode
     \/ /\ m.sent = <<>> /\ m.state = k.state /\ m.savedReqTimer /\ m.savedNextState = next
        /\ m.terminationCode = k.terminationCode
     \/ /\ m.sent = <<>> /\ m.state = k.state /\ ~m.savedReqTimer
        /\ m.terminationCode = "FAIL_MAX_REQ_REACHED"

LEMMA AskAsks ==
  ASSUME NEW k, Placid(k), NEW next, NEW req
  PROVE  Asked(k, ask(k, next, req), next, req)
<1> DEFINE n == new_second(k)
           m == ask(k, next, req)
<1> SUFFICES Asked(k, m, next, req)
  OBVIOUS
<1>1. /\ TurnFields \subseteq DOMAIN k /\ Up(k) /\ ~k.savedReqTimer /\ k.sent = <<>>
  BY DEF Placid
<1>2. m = sendSpigot(k, TRUE, next, req)
  BY <1>1 DEF ask, Up
<1>3. n = k \/ n = [k EXCEPT !.tick = FALSE, !.reqThisSecond = 0]
  BY DEF new_second
<1>4. \/ m = hit_limit(k)
      \/ m = arm(n, next, req)
      \/ m = count([n EXCEPT !.sent = Append(@, req), !.state = next])
  BY <1>1, <1>2 DEF sendSpigot, transmit, change_state
<1> HIDE DEF m
<1>5. CASE m = hit_limit(k)
  BY <1>1, <1>5 DEF hit_limit, Asked, TurnFields
<1>6. CASE m = arm(n, next, req)
  <2> HIDE DEF n
  <2>1. m = [n EXCEPT !.savedReqTimer = TRUE, !.savedReq = req, !.savedNextState = next]
    BY <1>6 DEF arm
  <2>2. QED
    BY <1>1, <1>3, <2>1 DEF Asked, TurnFields
<1>7. CASE m = count([n EXCEPT !.sent = Append(@, req), !.state = next])
  <2>1. n.sent = <<>> /\ "sent" \in DOMAIN n
    BY <1>1, <1>3 DEF TurnFields
  <2>2. Append(n.sent, req) = <<req>>
    BY <2>1
  <2> DEFINE one == <<req>>
  <2>3. [n EXCEPT !.sent = Append(@, req), !.state = next] = [n EXCEPT !.sent = one, !.state = next]
    BY <2>1, <2>2
  <2> HIDE DEF n, one
  <2>4. m = [[n EXCEPT !.sent = one, !.state = next]
               EXCEPT !.reqThisSecond = @ + 1, !.numReqSent = @ + 1]
    BY <1>7, <2>3 DEF count
  <2>5. m.sent = one /\ m.state = next /\ ~m.savedReqTimer
    BY <1>1, <1>3, <2>4 DEF TurnFields
  <2>6. QED
    BY <1>1, <1>3, <2>4, <2>5 DEF Asked, TurnFields, one
<1>8. QED
  BY <1>4, <1>5, <1>6, <1>7

\* Who asks in turn for what fits passes the turn on.
LEMMA AskedTurns ==
  ASSUME NEW k, Placid(k), NEW next \in ReplyStates, Fits(k, next),
         NEW req, req = "LIST" => next # "S_QUIT_SENT",
         NEW m, Asked(k, m, next, req)
  PROVE  Turned(m, 0)
<1>1. Len(m.sent) = IF m.sent = <<>> THEN 0 ELSE 1
  BY DEF Asked
<1>2. m.sent # <<>> => m.sent = <<req>> /\ m.state = next /\ ~m.savedReqTimer
  BY DEF Asked
<1>3. OneTurn(m, Len(m.sent))
  BY <1>1 DEF Asked, Placid, OneTurn, Waits
<1>4. Secured(m, Len(m.sent))
  BY <1>1 DEF Asked, Placid, Tame, Secured, Heading, Later, Fits, Auths, ReplyStates
<1>5. Provided(m, Len(m.sent))
  BY <1>1 DEF Asked, Placid, Tame, Provided, Later, Fits, ReplyStates, LoginStates
<1>6. Walked(m, Len(m.sent))
  BY <1>1 DEF Asked, Placid, Tame, Walked, Waits, Later, Fits, LoginStates, ReplyStates
<1>7. Remembered(m, Len(m.sent))
  BY <1>1 DEF Asked, Placid, Tame, Remembered, Waits, Later, Heading, Stored, Fits
<1>8. m.listErrCount = LIST_ERROR_CUTOFF => ~Listed(m)
  BY <1>2 DEF Asked, Listed, Fits
<1>9. QED
  BY <1>1, <1>3, <1>4, <1>5, <1>6, <1>7, <1>8
  DEF Turned, Passed, InTurn, Tame, Asked, Placid, Up, Excused, Walked

LEMMA AskTurns ==
  ASSUME NEW k, Placid(k), NEW next \in ReplyStates, Fits(k, next), NEW req,
         req = "LIST" => next # "S_QUIT_SENT"
  PROVE  Turned(ask(k, next, req), 0)
  BY AskAsks, AskedTurns

-----------------------------------------------------------------------------
\* n differs from k in none of these fields.
Unturned(k, n) ==
  /\ TurnFields \subseteq DOMAIN n
  /\ n.state = k.state /\ n.terminationCode = k.terminationCode
  /\ n.result = k.result /\ n.hostIsFinished = k.hostIsFinished /\ n.freed = k.freed
  /\ n.fault = k.fault /\ n.conn = k.conn /\ n.ctrlUsingSec = k.ctrlUsingSec
  /\ n.secType = k.secType /\ n.secProbe = k.secProbe
  /\ n.secProbeStorage = k.secProbeStorage /\ n.postSecConnectCB = k.postSecConnectCB
  /\ n.delayedCtrlCB = k.delayedCtrlCB /\ n.sent = k.sent
  /\ n.savedReqTimer = k.savedReqTimer /\ n.savedNextState = k.savedNextState
  /\ n.multiRespState = k.multiRespState /\ n.multiRespTimer = k.multiRespTimer
  /\ n.resetWaitTimer = k.resetWaitTimer /\ n.retrWaitTimer = k.retrWaitTimer
  /\ n.dataBev = k.dataBev /\ n.listErrCount = k.listErrCount
  /\ n.listResp = k.listResp /\ n.connects = k.connects

LEMMA UnturnedTame ==
  ASSUME NEW k, NEW n, Unturned(k, n), NEW w
  PROVE  Tame(k, w) <=> Tame(n, w)
<1>1. /\ Later(n) = Later(k) /\ (Waits(n) <=> Waits(k)) /\ (Stored(n) <=> Stored(k))
  BY DEF Unturned, Later, Waits, Stored
<1>2. /\ OneTurn(k, w) <=> OneTurn(n, w)
      /\ Secured(k, w) <=> Secured(n, w)
      /\ Provided(k, w) <=> Provided(n, w)
      /\ Walked(k, w) <=> Walked(n, w)
      /\ Remembered(k, w) <=> Remembered(n, w)
  BY <1>1 DEF Unturned, OneTurn, Secured, Provided, Walked, Remembered, Heading
<1>3. QED
  BY <1>2 DEF Tame

\* Such a record is in the same turn.
LEMMA UnturnedSame ==
  ASSUME NEW k, NEW n, Unturned(k, n)
  PROVE  /\ Placid(k) => Placid(n)
         /\ \A b : Turned(k, b) => Turned(n, b)
         /\ Stored(n) <=> Stored(k)
<1>1. \A w : Tame(k, w) <=> Tame(n, w)
  BY UnturnedTame
<1>2. Stored(n) <=> Stored(k)
  BY DEF Unturned, Stored
<1>3. Placid(k) => Placid(n)
  BY <1>1 DEF Placid, Unturned, Up, Waits
<1>4. ASSUME NEW b, Turned(k, b) PROVE Turned(n, b)
  BY <1>1, <1>2, <1>4 DEF Turned, Passed, InTurn, Unturned, Up, Excused, Judged, Listed
<1>5. QED
  BY <1>2, <1>3, <1>4

\* Whose turn it is may also leave it to others to go on.
LEMMA PlacidTurned ==
  ASSUME NEW k, Placid(k)
  PROVE  Turned(k, 0)
<1>1. Len(k.sent) = 0 /\ ~Listed(k)
  BY DEF Placid, Listed
<1>2. QED
  BY <1>1 DEF Placid, Up, Turned, Passed, InTurn, Tame, Walked, Excused

\* The walk is not over.
Going(k) == k.listErrCount # LIST_ERROR_CUTOFF /\ k.listResp = 0

\* The reason for an end is set.
LEMMA PlacidFail ==
  ASSUME NEW k, Placid(k), NEW code, Stored(k) => code # "SUCCESS_EXIT"
  PROVE  LET n == fail(k, code)
         IN /\ Placid(n) /\ n.terminationCode = code
            /\ n.secProbeStorage = k.secProbeStorage /\ n.state = k.state
            /\ (Stored(n) <=> Stored(k)) /\ n.ctrlUsingSec = k.ctrlUsingSec
            /\ (Going(n) <=> Going(k))
<1> DEFINE n == fail(k, code)
<1>1. n = [k EXCEPT !.terminationCode = code]
  BY DEF fail
<1>2. Unturned([k EXCEPT !.terminationCode = code], n) /\ n.terminationCode = code
  BY <1>1 DEF Placid, Unturned, TurnFields
<1> HIDE DEF n
<1>3. /\ TurnFields \subseteq DOMAIN n /\ Up(n) /\ n.conn = "up" /\ n.sent = <<>>
      /\ ~n.savedReqTimer /\ ~Waits(n) /\ n.state # "S_QUIT_SENT"
  BY <1>1 DEF Placid, TurnFields, Up, Waits
<1>4. OneTurn(n, 0) /\ Secured(n, 0) /\ Provided(n, 0) /\ Walked(n, 0)
  BY <1>1, <1>3 DEF Placid, Tame, TurnFields, OneTurn, Secured, Provided, Walked, Heading,
     Later, Waits
<1>5. Remembered(n, 0)
  BY <1>1, <1>3 DEF Placid, Tame, TurnFields, Remembered, Stored, Heading, Later, Waits
<1>6. QED
  BY <1>1, <1>3, <1>4, <1>5 DEF Placid, Tame, TurnFields, Stored, Going, n

-----------------------------------------------------------------------------
\* The ends of a session.

\* A host that can be ended.
Calm(k) ==
  /\ TurnFields \subseteq DOMAIN k /\ Up(k)
  /\ k.listErrCount \in 0..LIST_ERROR_CUTOFF /\ k.listResp \in {0, 1}
  /\ k.listErrCount = LIST_ERROR_CUTOFF => ~Listed(k)

\* n is k after its end.
Stopped(k, n) ==
  /\ n.hostIsFinished /\ ~n.freed /\ n.fault = "none"
  /\ n.sent = k.sent /\ n.state = k.state
  /\ \A b : Turned(n, b)

LEMMA PlacidCalm ==
  ASSUME NEW k, Placid(k)
  PROVE  Calm(k)
BY DEF Placid, Calm, Tame, Walked, Listed

LEMMA EndTurns ==
  ASSUME NEW k, Calm(k), Judged(k)
  PROVE  LET n == end_channel_now(k)
         IN /\ Stopped(k, n) /\ n.terminationCode = k.terminationCode
            /\ n.connects = k.connects /\ n.secProbeStorage = k.secProbeStorage
<1> DEFINE n == end_channel_now(k)
<1>1. n = [[k EXCEPT !.savedReqTimer = FALSE, !.retrWaitTimer = FALSE,
                     !.multiRespTimer = FALSE, !.resetWaitTimer = FALSE]
           EXCEPT !.dataBev = FALSE, !.dirQueue = 0, !.conn = "closed",
                  !.hostIsFinished = TRUE]
  BY DEF Calm, Up, end_channel_now, delete_all_timers
<1> HIDE DEF n
<1>2. /\ TurnFields \subseteq DOMAIN n
      /\ n.hostIsFinished /\ ~n.freed /\ n.fault = "none" /\ n.sent = k.sent
      /\ n.state = k.state /\ n.terminationCode = k.terminationCode
      /\ n.connects = k.connects /\ n.secProbeStorage = k.secProbeStorage
      /\ n.result = k.result /\ n.listErrCount = k.listErrCount /\ n.listResp = k.listResp
  BY <1>1 DEF Calm, Up, TurnFields
<1>3. Judged(n) /\ Excused(n) /\ ~Up(n) /\ (Listed(n) => Listed(k))
  BY <1>2 DEF Judged, Stored, Excused, Up, Listed
<1>4. QED
  BY <1>2, <1>3 DEF Turned, Passed, InTurn, Calm, Stopped, n

LEMMA DisconnectTurns ==
  ASSUME NEW k, Calm(k), NEW how,
         Stored(k) => /\ k.terminationCode # "SUCCESS_EXIT"
                      /\ how # "ABRUPT" => k.terminationCode \in {k.secProbeStorage, "FAIL_PBSZ_OK"}
  PROVE  Stopped(k, disconnect(k, how))
<1> DEFINE n == [note_last_state(k) EXCEPT !.result = how]
<1>1. n = [[k EXCEPT !.lastState = IF @ = "S_UNSET_STATE" THEN k.state ELSE @]
           EXCEPT !.result = how]
  BY DEF note_last_state
<1> HIDE DEF n
<1>2. /\ TurnFields \subseteq DOMAIN n /\ Up(n) /\ n.sent = k.sent /\ n.state = k.state
      /\ n.terminationCode = k.terminationCode /\ n.connects = k.connects
      /\ n.secProbeStorage = k.secProbeStorage /\ n.result = how
      /\ n.listErrCount = k.listErrCount /\ n.listResp = k.listResp
  BY <1>1 DEF Calm, Up, TurnFields
<1>3. Calm(n) /\ Judged(n)
  BY <1>2 DEF Calm, Judged, Stored, Listed
<1>4. Stopped(n, end_channel_now(n))
  BY <1>3, EndTurns
<1>5. disconnect(k, how) = end_channel_now(n)
  BY DEF disconnect, n
<1>6. QED
  BY <1>2, <1>4, <1>5 DEF Stopped

LEMMA AbruptTurns ==
  ASSUME NEW k, Calm(k), NEW code, code # "SUCCESS_EXIT"
  PROVE  Stopped(k, abrupt(k, code)) /\ abrupt(k, code).terminationCode = code
<1> DEFINE n == fail(k, code)
           m == [note_last_state(n) EXCEPT !.result = "ABRUPT"]
<1>1. n = [k EXCEPT !.terminationCode = code]
  BY DEF fail
<1>2. /\ TurnFields \subseteq DOMAIN n /\ Up(n) /\ n.sent = k.sent /\ n.state = k.state
      /\ n.terminationCode = code
      /\ n.listErrCount = k.listErrCount /\ n.listResp = k.listResp
  BY <1>1 DEF Calm, Up, TurnFields
<1> HIDE DEF n
<1>3. m = [[n EXCEPT !.lastState = IF @ = "S_UNSET_STATE" THEN n.state ELSE @]
           EXCEPT !.result = "ABRUPT"]
  BY DEF note_last_state
<1> HIDE DEF m
<1>4. /\ TurnFields \subseteq DOMAIN m /\ Up(m) /\ m.sent = k.sent /\ m.state = k.state
      /\ m.terminationCode = code /\ m.result = "ABRUPT"
      /\ m.listErrCount = k.listErrCount /\ m.listResp = k.listResp
  BY <1>2, <1>3 DEF Up, TurnFields
<1>5. Calm(m) /\ Judged(m)
  BY <1>4 DEF Calm, Judged, Listed
<1>6. Stopped(m, end_channel_now(m)) /\ end_channel_now(m).terminationCode = code
  BY <1>4, <1>5, EndTurns
<1>7. abrupt(k, code) = end_channel_now(m)
  BY DEF abrupt, disconnect_abrupt, disconnect, m, n
<1>8. QED
  BY <1>4, <1>6, <1>7 DEF Stopped

\* Who has the turn asks to leave.
LEMMA QuitTurns ==
  ASSUME NEW k, Placid(k),
         Stored(k) => k.terminationCode \in {k.secProbeStorage, "FAIL_PBSZ_OK"}
  PROVE  Turned(disconnect_pleasant(k), 0)
<1> DEFINE n == note_last_state(k)
<1>1. n = [k EXCEPT !.lastState = IF @ = "S_UNSET_STATE" THEN k.state ELSE @]
  BY DEF note_last_state
<1>2. Unturned(k, n)
  BY <1>1 DEF Placid, Unturned, TurnFields
<1>3. disconnect_pleasant(k) = ask(n, "S_QUIT_SENT", "QUIT")
  BY DEF disconnect_pleasant, send_quit
<1> HIDE DEF n
<1>4. Placid(n) /\ Fits(n, "S_QUIT_SENT")
  BY <1>2, UnturnedSame DEF Unturned, Fits, Auths, LoginStates
<1>5. QED
  BY <1>3, <1>4, AskTurns DEF ReplyStates

LEMMA PleasantTurns ==
  ASSUME NEW k, Placid(k), NEW code,
         Stored(k) => code \in {k.secProbeStorage, "FAIL_PBSZ_OK"}
  PROVE  Turned(pleasant(k, code), 0)
<1> DEFINE n == fail(k, code)
<1>1. Stored(k) => code # "SUCCESS_EXIT"
  BY DEF Placid, Tame, Remembered
<1>2. /\ Placid(n) /\ n.terminationCode = code
      /\ n.secProbeStorage = k.secProbeStorage /\ (Stored(n) <=> Stored(k))
  BY <1>1, PlacidFail
<1>3. pleasant(k, code) = disconnect_pleasant(n)
  BY DEF pleasant
<1> HIDE DEF n
<1>4. QED
  BY <1>2, <1>3, QuitTurns

-----------------------------------------------------------------------------
\* Replies that come one at a time.

Alone(r) ==
  /\ r.size \in {"FOUND", "INCOMPLETE", "ERROR"}
  /\ r.size = "ERROR" => r.kind # "SUCCESS_EXIT"

LEMMA SingleTurns ==
  ASSUME NEW k, Placid(k), NEW r, Alone(r), NEW found, r.size = "FOUND" => Turned(found, 0)
  PROVE  Turned(single(k, r, found), 0) /\ Turned(parse_first(k, r, found), 0)
<1>1. ~k.hostIsFinished
  BY DEF Placid, Up
<1>2. CASE r.size = "FOUND"
  BY <1>1, <1>2 DEF single, parse_first, parse_response
<1>3. CASE r.size = "INCOMPLETE"
  BY <1>1, <1>3, PlacidTurned DEF single, parse_first, parse_response
<1>4. CASE r.size = "ERROR"
  <2>1. Turned(abrupt(k, r.kind), 0)
    BY <1>4, PlacidCalm, AbruptTurns DEF Alone, Stopped
  <2>2. QED
    BY <1>1, <1>4, <2>1 DEF single, parse_first, parse_response
<1>5. QED
  BY <1>2, <1>3, <1>4 DEF Alone

-----------------------------------------------------------------------------
\* TLS and the probe for it.

LEMMA SecCheckTurns ==
  ASSUME NEW k, Placid(k), Going(k), ~k.ctrlUsingSec, NEW after,
         k.secProbe => after # "send_user", Stored(k) => after = "post_middle"
  PROVE  Turned(sec_check(k, after), 0)
<1> DEFINE n == [k EXCEPT !.postSecConnectCB = after]
<1>1. /\ TurnFields \subseteq DOMAIN n /\ Up(n) /\ n.conn = "up" /\ n.sent = <<>>
      /\ ~n.savedReqTimer /\ ~Waits(n) /\ n.state # "S_QUIT_SENT"
      /\ ~n.ctrlUsingSec /\ Going(n) /\ (Stored(n) <=> Stored(k))
      /\ n.postSecConnectCB = after /\ n.secProbe = k.secProbe
  BY DEF Placid, TurnFields, Up, Waits, Going, Stored
<1>2. OneTurn(n, 0) /\ Secured(n, 0) /\ Provided(n, 0) /\ Walked(n, 0) /\ Remembered(n, 0)
  BY <1>1 DEF Placid, Tame, TurnFields, OneTurn, Secured, Provided, Walked, Remembered,
         Heading, Later, Waits, Stored, LoginStates, SecPhase, Handshakes
<1>3. sec_check(k, after) = ask(n, "S_AUTH_TLS_SENT", "AUTH_TLS")
  BY DEF sec_check, send_auth_tls
<1> HIDE DEF n
<1>4. Placid(n) /\ Fits(n, "S_AUTH_TLS_SENT")
  BY <1>1, <1>2 DEF Placid, Tame, Fits, Going, LoginStates, SecPhase, Handshakes
<1>5. QED
  BY <1>3, <1>4, AskTurns DEF ReplyStates

LEMMA SetupEndingTurns ==
  ASSUME NEW k, Placid(k), Going(k), ~k.ctrlUsingSec, ~Stored(k)
  PROVE  Turned(setup_ending(k), 0)
<1> DEFINE p == [k EXCEPT !.secProbe = TRUE]
           n == [p EXCEPT !.postSecConnectCB = "post_ending"]
<1>1. n = [k EXCEPT !.secProbe = TRUE, !.postSecConnectCB = "post_ending"]
  BY DEF Placid, TurnFields
<1>2. setup_ending(k) = ask(n, "S_AUTH_TLS_SENT", "AUTH_TLS")
  BY DEF setup_ending, sec_check, send_auth_tls
<1> HIDE DEF n
<1>3. /\ TurnFields \subseteq DOMAIN n /\ Up(n) /\ n.conn = "up" /\ n.sent = <<>>
      /\ ~n.savedReqTimer /\ ~Waits(n) /\ n.state # "S_QUIT_SENT"
      /\ ~n.ctrlUsingSec /\ Going(n) /\ ~Stored(n)
      /\ n.postSecConnectCB = "post_ending" /\ n.secProbe
  BY <1>1 DEF Placid, TurnFields, Up, Waits, Going, Stored
<1>4. OneTurn(n, 0) /\ Secured(n, 0) /\ Provided(n, 0) /\ Walked(n, 0) /\ Remembered(n, 0)
  BY <1>1, <1>3 DEF Placid, Tame, TurnFields, OneTurn, Secured, Provided, Walked, Remembered,
         Heading, Later, Waits, LoginStates
<1>5. Placid(n) /\ Fits(n, "S_AUTH_TLS_SENT")
  BY <1>3, <1>4 DEF Placid, Tame, Fits, Going, LoginStates
<1>6. QED
  BY <1>2, <1>5, AskTurns DEF ReplyStates

\* The failure is kept.
LEMMA SetupMiddleTurns ==
  ASSUME NEW k, Placid(k), Going(k), ~Stored(k), k.terminationCode # "SUCCESS_EXIT"
  PROVE  Turned(setup_middle(k), 0)
<1>1. CASE k.ctrlUsingSec
  BY <1>1, QuitTurns DEF setup_middle
<1>2. CASE ~k.ctrlUsingSec
  <2> DEFINE p == [k EXCEPT !.secProbe = TRUE, !.secProbeStorage = k.terminationCode]
             n == [p EXCEPT !.postSecConnectCB = "post_middle"]
  <2>1. n = [k EXCEPT !.secProbe = TRUE, !.secProbeStorage = k.terminationCode,
                      !.postSecConnectCB = "post_middle"]
    BY DEF Placid, TurnFields
  <2>2. setup_middle(k) = ask(n, "S_AUTH_TLS_SENT", "AUTH_TLS")
    BY <1>2 DEF setup_middle, sec_check, send_auth_tls
  <2> HIDE DEF n
  <2>3. /\ TurnFields \subseteq DOMAIN n /\ Up(n) /\ n.conn = "up" /\ n.sent = <<>>
        /\ ~n.savedReqTimer /\ ~Waits(n) /\ n.state # "S_QUIT_SENT"
        /\ ~n.ctrlUsingSec /\ Going(n)
        /\ n.postSecConnectCB = "post_middle" /\ n.secProbe
    BY <1>2, <2>1 DEF Placid, TurnFields, Up, Waits, Going
  <2>4. OneTurn(n, 0) /\ Secured(n, 0) /\ Provided(n, 0) /\ Walked(n, 0)
    BY <2>1, <2>3 DEF Placid, Tame, TurnFields, OneTurn, Secured, Provided, Walked,
           Heading, Later, Waits, LoginStates
  <2>5. Remembered(n, 0)
    BY <2>1, <2>3 DEF Placid, Tame, TurnFields, Remembered, Stored, Heading, Later, Waits
  <2>6. Placid(n) /\ Fits(n, "S_AUTH_TLS_SENT")
    BY <2>3, <2>4, <2>5 DEF Placid, Tame, Fits, Going, LoginStates, SecPhase, Handshakes
  <2>7. QED
    BY <2>2, <2>6, AskTurns DEF ReplyStates
<1>3. QED
  BY <1>1, <1>2

\* The first reply of a login is waited for.
LEMMA SendLoginTurns ==
  ASSUME NEW k, Placid(k), Going(k), ~Stored(k), ~k.secProbe
  PROVE  Turned(send_user(k), 0) /\ Turned(send_pass(k), 0)
<1> DEFINE n == multi_resp_init(k)
<1>1. n = [k EXCEPT !.multiRespState = "READ_ZERO"]
  BY DEF multi_resp_init
<1>2. send_user(k) = ask(n, "S_USER_SENT", "USER") /\ send_pass(k) = ask(n, "S_PASS_SENT", "PASS")
  BY DEF send_user, send_pass
<1> HIDE DEF n
<1>3. /\ TurnFields \subseteq DOMAIN n /\ Up(n) /\ n.conn = "up" /\ n.sent = <<>>
      /\ ~n.savedReqTimer /\ ~Waits(n) /\ n.state # "S_QUIT_SENT"
      /\ Going(n) /\ ~Stored(n) /\ ~n.secProbe /\ n.multiRespState = "READ_ZERO"
  BY <1>1 DEF Placid, TurnFields, Up, Waits, Going, Stored
<1>4. OneTurn(n, 0) /\ Secured(n, 0) /\ Provided(n, 0) /\ Walked(n, 0) /\ Remembered(n, 0)
  BY <1>1, <1>3 DEF Placid, Tame, TurnFields, OneTurn, Secured, Provided, Walked, Remembered,
         Heading, Later, Waits
<1>5. Placid(n) /\ Fits(n, "S_USER_SENT") /\ Fits(n, "S_PASS_SENT")
  BY <1>3, <1>4 DEF Placid, Tame, Fits, Going, Auths
<1>6. Turned(ask(n, "S_USER_SENT", "USER"), 0) /\ Turned(ask(n, "S_PASS_SENT", "PASS"), 0)
  BY <1>5, AskTurns DEF ReplyStates
<1>7. QED
  BY <1>2, <1>6

LEMMA AfterSecTurns ==
  ASSUME NEW k, Placid(k), Going(k), k.postSecConnectCB \in SecCallbacks
  PROVE  Turned(send_after_sec(k), 0)
<1>1. Stored(k) => k.postSecConnectCB = "post_middle"
  BY DEF Placid, Tame, Remembered
<1>2. k.secProbe => k.postSecConnectCB # "send_user"
  BY DEF Placid, Tame, Secured
<1>3. CASE k.postSecConnectCB = "send_user"
  BY <1>1, <1>2, <1>3, SendLoginTurns DEF send_after_sec
<1>4. CASE k.postSecConnectCB = "disconnect_pleasant"
  BY <1>1, <1>4, QuitTurns DEF send_after_sec
<1>5. CASE k.postSecConnectCB = "post_ending"
  BY <1>1, <1>5, PleasantTurns DEF send_after_sec
<1>6. CASE k.postSecConnectCB = "post_middle"
  <2>1. Turned(pleasant(k, k.secProbeStorage), 0)
    BY PleasantTurns
  <2>2. QED
    BY <1>6, <2>1 DEF send_after_sec
<1>7. QED
  BY <1>3, <1>4, <1>5, <1>6 DEF SecCallbacks

LEMMA SecRefusedTurns ==
  ASSUME NEW k, Placid(k), Going(k), k.postSecConnectCB \in SecCallbacks, NEW code
  PROVE  Turned(sec_refused(k, code), 0)
<1>1. Stored(k) => k.postSecConnectCB = "post_middle"
  BY DEF Placid, Tame, Remembered
<1>2. CASE k.postSecConnectCB = "disconnect_pleasant"
  BY <1>1, <1>2, PleasantTurns DEF sec_refused, IsProbe
<1>3. CASE IsProbe(k)
  BY <1>3, AfterSecTurns DEF sec_refused, IsProbe
<1>4. CASE k.postSecConnectCB = "send_user"
  BY <1>1, <1>4, PleasantTurns DEF sec_refused, IsProbe, unexpected_reply
<1>5. QED
  BY <1>2, <1>3, <1>4 DEF SecCallbacks, IsProbe

\* The one handshake.
LEMMA InitTlsTurns ==
  ASSUME NEW k, Placid(k), Going(k), ~k.ctrlUsingSec
  PROVE  Turned(init_tls_connection(k), 0)
<1> DEFINE n == init_tls_connection(k)
<1>1. k.secType = "SEC_UNK"
  BY DEF Placid, Tame, Secured
<1>2. n = [k EXCEPT !.secType = "SEC_PRIMARY", !.ctrlSec = "live", !.ctrlUsingSec = TRUE,
                    !.conn = "tls", !.state = "S_SECURITY_CONNECTING"]
  BY <1>1 DEF init_tls_connection
<1> HIDE DEF n
<1>3. /\ TurnFields \subseteq DOMAIN n /\ Up(n) /\ n.sent = <<>> /\ Len(n.sent) = 0
      /\ ~n.savedReqTimer /\ ~Waits(n) /\ n.state = "S_SECURITY_CONNECTING"
      /\ Going(n) /\ (Stored(n) <=> Stored(k)) /\ ~Listed(n)
  BY <1>2 DEF Placid, TurnFields, Up, Waits, Going, Stored, Listed
<1>4. OneTurn(n, 0) /\ Secured(n, 0) /\ Provided(n, 0) /\ Walked(n, 0)
  BY <1>2, <1>3 DEF Placid, Tame, TurnFields, OneTurn, Secured, Provided, Walked, Going,
         Heading, Later, Waits, Auths, LoginStates
<1>5. Remembered(n, 0)
  BY <1>2, <1>3 DEF Placid, Tame, TurnFields, Remembered, Stored, Heading, Later, Waits
<1>6. QED
  BY <1>3, <1>4, <1>5 DEF Turned, Passed, InTurn, Tame, Up, Excused, Walked, n

\* A new connection has nothing under way.
LEMMA EarlySecTurns ==
  ASSUME NEW k, Calm(k), Going(k), ~k.ctrlUsingSec, k.sent = <<>>, NEW w, Tame(k, w),
         k.delayedCtrlCB \notin {"read_retr_done", "read_list_done"}
  PROVE  Turned(handle_early_sec_req(k), 0) /\ handle_early_sec_req(k).sent = <<>>
<1> DEFINE n == handle_early_sec_req(k)
<1>1. CASE k.earlySecReq
  BY <1>1, AbruptTurns DEF handle_early_sec_req, Stopped
<1>2. CASE ~k.earlySecReq
  <2> DEFINE p == delete_all_timers(k)
  <2>1. n = [[p EXCEPT !.earlySecReq = TRUE, !.ctrlSec = k.ctrlSec]
              EXCEPT !.state = "S_INITIAL", !.ctrlUsingSec = FALSE, !.item = "none",
                     !.conn = "connecting", !.connects = @ + 1]
    <3>1. ~p.ctrlUsingSec /\ p.ctrlSec = k.ctrlSec
      BY DEF Calm, TurnFields, delete_all_timers
    <3>2. QED
      BY <1>2, <3>1 DEF handle_early_sec_req, delete_all_timers, ctrl_reconnect
  <2>2. /\ TurnFields \subseteq DOMAIN p /\ Up(p) /\ p.sent = <<>> /\ ~p.savedReqTimer
        /\ ~Waits(p) /\ Going(p) /\ p.secType = k.secType /\ p.secProbe = k.secProbe
        /\ p.postSecConnectCB = k.postSecConnectCB /\ p.connects = k.connects
        /\ p.delayedCtrlCB = k.delayedCtrlCB /\ p.listErrCount = k.listErrCount
        /\ p.listResp = k.listResp /\ ~p.resetWaitTimer /\ ~p.multiRespTimer /\ ~p.retrWaitTimer
    BY DEF Calm, TurnFields, Up, Waits, Going, delete_all_timers
  <2> HIDE DEF n, p
  <2>3. /\ TurnFields \subseteq DOMAIN n /\ Up(n) /\ n.sent = <<>> /\ Len(n.sent) = 0
        /\ ~n.savedReqTimer /\ ~Waits(n) /\ n.state = "S_INITIAL" /\ ~n.ctrlUsingSec
        /\ Going(n) /\ ~Listed(n) /\ n.conn = "connecting"
    BY <2>1, <2>2 DEF TurnFields, Up, Waits, Going, Listed
  <2>4. n.connects \in Nat \ {0, 1} /\ ~Stored(n)
    BY <2>1, <2>2 DEF TurnFields, Tame, Remembered, Stored
  <2>5. OneTurn(n, 0) /\ Provided(n, 0)
    BY <2>1, <2>2, <2>3 DEF OneTurn, Provided, Later, Waits, LoginStates
  <2>6. Secured(n, 0)
    BY <2>1, <2>2, <2>3 DEF Tame, TurnFields, Secured, Heading, Later, Waits, Auths, LoginStates
  <2>7. Walked(n, 0)
    BY <2>1, <2>2, <2>3 DEF Calm, TurnFields, Walked, Going
  <2>8. Remembered(n, 0)
    BY <2>3, <2>4 DEF Remembered, Waits
  <2>9. QED
    BY <2>3, <2>5, <2>6, <2>7, <2>8 DEF Turned, Passed, InTurn, Tame, Up, Excused, Walked, n
<1>3. QED
  BY <1>1, <1>2 DEF n

LEMMA AuthTurns ==
  ASSUME NEW k, Placid(k), Going(k), ~k.ctrlUsingSec, k.postSecConnectCB \in SecCallbacks,
         NEW r, Alone(r), r.size = "FOUND" => r.kind # "503"
  PROVE  Turned(read_auth_tls_resp(k, r), 0) /\ Turned(read_auth_ssl_resp(k, r), 0)
<1>1. Fits(k, "S_AUTH_SSL_SENT")
  BY DEF Fits, Going, LoginStates, SecPhase, Handshakes
<1>2. Turned(send_auth_ssl(k), 0)
  BY <1>1, AskTurns DEF send_auth_ssl, ReplyStates
<1>3. Turned(init_tls_connection(k), 0)
  BY InitTlsTurns
<1>4. \A code : Turned(sec_refused(k, code), 0)
  BY SecRefusedTurns
<1>5. Turned(read_auth_tls_resp(k, r), 0)
  <2> DEFINE found == CASE r.kind = "ok" -> init_tls_connection(k)
                        [] r.kind = "534" -> send_auth_ssl(k)
                        [] r.kind = "503" -> IF k.secProbe THEN handle_early_sec_req(k)
                                             ELSE crash(k, "assert_secProbe")
                        [] OTHER -> sec_refused(k, "FAIL_TLS_REFUSED")
  <2>1. r.size = "FOUND" => Turned(found, 0)
    BY <1>2, <1>3, <1>4
  <2>2. read_auth_tls_resp(k, r) = single(k, r, found)
    BY DEF read_auth_tls_resp
  <2> HIDE DEF found
  <2>3. QED
    BY <2>1, <2>2, SingleTurns
<1>6. Turned(read_auth_ssl_resp(k, r), 0)
  <2> DEFINE found == IF r.kind = "ok" THEN init_tls_connection(k)
                      ELSE sec_refused(k, "FAIL_SSL_REFUSED")
  <2>1. Turned(found, 0)
    BY <1>3, <1>4
  <2>2. read_auth_ssl_resp(k, r) = single(k, r, found)
    BY DEF read_auth_ssl_resp
  <2> HIDE DEF found
  <2>3. QED
    BY <2>1, <2>2, SingleTurns
<1>7. QED
  BY <1>5, <1>6

LEMMA PbszProtTurns ==
  ASSUME NEW k, Placid(k), Going(k), k.postSecConnectCB \in SecCallbacks,
         NEW r, Alone(r), r.size = "FOUND" => r.kind \in {"ok", "no"}
  PROVE  Turned(read_pbsz_resp(k, r), 0) /\ Turned(read_prot_resp(k, r), 0)
<1>1. Fits(k, "S_PROT_SENT")
  BY DEF Fits, Going, LoginStates, SecPhase, Handshakes, Auths
<1>2. Turned(send_prot(k), 0)
  BY <1>1, AskTurns DEF send_prot, ReplyStates
<1>3. Turned(send_after_sec(k), 0)
  BY AfterSecTurns
<1>4. Stored(k) => k.postSecConnectCB = "post_middle"
  BY DEF Placid, Tame, Remembered
<1>5. Turned(unexpected_reply(k, "FAIL_PBSZ_OK"), 0)
  BY PleasantTurns DEF unexpected_reply
<1>6. Turned(read_pbsz_resp(k, r), 0)
  <2> DEFINE found == CASE r.kind = "ok" -> send_prot(k)
                        [] r.kind = "no" /\ k.postSecConnectCB = "post_ending" -> send_after_sec(k)
                        [] OTHER -> unexpected_reply(k, "FAIL_PBSZ_OK")
  <2>1. Turned(found, 0)
    BY <1>2, <1>3, <1>5
  <2>2. read_pbsz_resp(k, r) = single(k, r, found)
    BY DEF read_pbsz_resp
  <2> HIDE DEF found
  <2>3. QED
    BY <2>1, <2>2, SingleTurns
<1>7. Turned(read_prot_resp(k, r), 0)
  <2> DEFINE found == CASE r.kind = "ok" ->
                             IF k.postSecConnectCB = "disconnect_pleasant"
                             THEN pleasant(k, "SUCCESS_EXIT") ELSE send_after_sec(k)
                        [] r.kind = "no" /\ IsProbe(k) -> send_after_sec(k)
                        [] OTHER -> unexpected_reply(k, "FAIL_PROT_OK")
  <2>1. r.size = "FOUND" => Turned(found, 0)
    <3>1. k.postSecConnectCB # "post_middle" => \A code : Turned(pleasant(k, code), 0)
      BY <1>4, PleasantTurns
    <3>2. CASE r.kind = "ok"
      BY <1>3, <3>1, <3>2
    <3>3. CASE r.kind = "no" /\ IsProbe(k)
      BY <1>3, <3>3
    <3>4. CASE r.kind = "no" /\ ~IsProbe(k)
      BY <3>1, <3>4 DEF IsProbe, unexpected_reply
    <3>5. QED
      BY <3>2, <3>3, <3>4
  <2>2. read_prot_resp(k, r) = single(k, r, found)
    BY DEF read_prot_resp
  <2> HIDE DEF found
  <2>3. QED
    BY <2>1, <2>2, SingleTurns
<1>8. QED
  BY <1>6, <1>7

-----------------------------------------------------------------------------
\* The banner.

LEMMA BannerTurns ==
  ASSUME NEW k, Placid(k), Going(k), ~Stored(k), ~k.ctrlUsingSec,
         NEW r, Alone(r), r.size = "FOUND" => r.kind # "SUCCESS_EXIT", NEW more
  PROVE  Turned(read_banner(k, r, more), 0)
<1> DEFINE found ==
      CASE r.kind = "cfaa" -> setup_middle(fail(k, "FAIL_CFAA_BAN"))
        [] r.kind = "ok" /\ r.size = "EXTRA" -> read_additional_banner_resp(k, more)
        [] r.kind = "ok" /\ r.size = "FOUND" ->
             IF k.earlySecReq \/ k.secProbe
             THEN sec_check(k, after_early_sec(k)) ELSE send_user(k)
        [] r.kind \in {"FAIL_VPS_NO_HOST", "FAIL_VSFTPD_BANNER_ERROR",
                       "FAIL_SESSION_LIMIT"} -> abrupt(k, r.kind)
        [] OTHER -> unexpected_reply(k, "FAIL_BANNER_RET")
<1>1. Turned(setup_middle(fail(k, "FAIL_CFAA_BAN")), 0)
  <2> DEFINE n == fail(k, "FAIL_CFAA_BAN")
  <2>1. Placid(n) /\ n.terminationCode = "FAIL_CFAA_BAN" /\ ~Stored(n) /\ Going(n)
    BY PlacidFail
  <2> HIDE DEF n
  <2>2. Turned(setup_middle(n), 0)
    BY <2>1, SetupMiddleTurns
  <2>3. QED
    BY <2>2 DEF n
<1>2. Turned(sec_check(k, after_early_sec(k)), 0)
  <2>1. k.secProbe => after_early_sec(k) # "send_user"
    BY DEF after_early_sec
  <2>2. QED
    BY <2>1, SecCheckTurns
<1>3. ~k.secProbe => Turned(send_user(k), 0)
  BY SendLoginTurns
<1>4. \A code : code # "SUCCESS_EXIT" => Turned(abrupt(k, code), 0)
  BY PlacidCalm, AbruptTurns DEF Stopped
<1>5. Turned(unexpected_reply(k, "FAIL_BANNER_RET"), 0)
  BY PleasantTurns DEF unexpected_reply
<1>6. r.size = "FOUND" => Turned(found, 0)
  BY <1>1, <1>2, <1>3, <1>4, <1>5
<1>7. read_banner(k, r, more) = parse_first(k, r, found)
  BY DEF read_banner
<1> HIDE DEF found
<1>8. QED
  BY <1>6, <1>7, SingleTurns

-----------------------------------------------------------------------------
\* The walk over the directories.

\* A request of the walk, or after it.
LEMMA WalkAsks ==
  ASSUME NEW k, Placid(k), Going(k), ~Stored(k),
         NEW next \in ReplyStates \ (LoginStates \cup Auths \cup {"S_RETR_SENT", "S_LIST_SENT"}),
         NEW req, req = "LIST" => next # "S_QUIT_SENT"
  PROVE  Turned(ask(k, next, req), 0)
<1>1. Fits(k, next)
  BY DEF Fits, Going, Placid, Stored, Tame, Remembered
<1>2. QED
  BY <1>1, AskTurns

\* The walk's own fields do not matter to the turn.
LEMMA WalkFields ==
  ASSUME NEW k, Placid(k), NEW q, NEW i, NEW x, NEW a, NEW post
  PROVE  /\ Unturned(k, [k EXCEPT !.dirQueue = q, !.item = i])
         /\ Unturned(k, [k EXCEPT !.dirQueue = q])
         /\ Unturned(k, [k EXCEPT !.xferType = x])
         /\ Unturned(k, [k EXCEPT !.pasvAction = a, !.pasvPost = post])
         /\ Unturned(k, [k EXCEPT !.item = i, !.pasvAction = a, !.pasvPost = post])
         /\ Unturned(k, [k EXCEPT !.item = i, !.xferType = x, !.pasvAction = a,
                                  !.pasvPost = post])
BY DEF Placid, Unturned, TurnFields

\* A directory is left for the next one.
LEMMA NextDir ==
  ASSUME NEW k, Placid(k), ~Stored(k), k.listErrCount # LIST_ERROR_CUTOFF, NEW q, NEW i
  PROVE  LET n == [k EXCEPT !.dirQueue = q, !.item = i, !.listResp = 0]
         IN Placid(n) /\ Going(n) /\ ~Stored(n)
<1> DEFINE n == [k EXCEPT !.dirQueue = q, !.item = i, !.listResp = 0]
<1>1. /\ TurnFields \subseteq DOMAIN n /\ Up(n) /\ n.conn = "up" /\ n.sent = <<>>
      /\ ~n.savedReqTimer /\ ~Waits(n) /\ n.state # "S_QUIT_SENT"
      /\ Going(n) /\ ~Stored(n) /\ n.listResp = 0
  BY DEF Placid, TurnFields, Up, Waits, Going, Stored
<1>2. OneTurn(n, 0) /\ Secured(n, 0) /\ Provided(n, 0) /\ Walked(n, 0) /\ Remembered(n, 0)
  BY <1>1 DEF Placid, Tame, TurnFields, OneTurn, Secured, Provided, Walked, Remembered,
         Heading, Later, Waits
<1>3. QED
  BY <1>1, <1>2 DEF Placid, Tame

LEMMA EndWalkTurns ==
  ASSUME NEW k, Placid(k), ~Stored(k), k.listErrCount # LIST_ERROR_CUTOFF
  PROVE  Turned(end_walk(k), 0)
<1> DEFINE n == [k EXCEPT !.dirQueue = 0, !.item = "none", !.listResp = 0]
<1>1. Placid(n) /\ Going(n) /\ ~Stored(n)
  BY NextDir
<1>2. end_walk(k) = IF crawlType = "NORMAL" THEN send_help(n) ELSE pleasant(n, "SUCCESS_EXIT")
  BY DEF end_walk
<1> HIDE DEF n
<1>3. Turned(send_help(n), 0)
  BY <1>1, WalkAsks DEF send_help, ReplyStates, LoginStates, Auths
<1>4. Turned(pleasant(n, "SUCCESS_EXIT"), 0)
  BY <1>1, PleasantTurns
<1>5. QED
  BY <1>2, <1>3, <1>4

LEMMA WalkDirTurns ==
  ASSUME NEW k, Placid(k), ~Stored(k), k.listErrCount # LIST_ERROR_CUTOFF, NEW skip
  PROVE  Turned(walk_dir(k, skip), 0)
<1> DEFINE n == [k EXCEPT !.dirQueue = 0, !.item = "none", !.listResp = 0]
           d == [k EXCEPT !.dirQueue = @ - skip - 1, !.item = "dir", !.listResp = 0]
<1>1. walk_dir(k, skip) \in {send_help(n), send_pasv(d), end_walk(k)}
  BY DEF walk_dir
<1>2. Placid(n) /\ Going(n) /\ ~Stored(n)
  BY NextDir
<1>3. Placid(d) /\ Going(d) /\ ~Stored(d)
  BY NextDir
<1> HIDE DEF n, d
<1>4. Turned(send_help(n), 0)
  BY <1>2, WalkAsks DEF send_help, ReplyStates, LoginStates, Auths
<1>5. Turned(send_pasv(d), 0)
  BY <1>3, WalkAsks DEF send_pasv, ReplyStates, LoginStates, Auths
<1>6. QED
  BY <1>1, <1>4, <1>5, EndWalkTurns

LEMMA SystTurns ==
  ASSUME NEW k, Placid(k), Going(k), ~Stored(k)
  PROVE  Turned(send_syst(k), 0) /\ Turned(short_scan_ending(k), 0)
<1>1. Turned(send_syst(k), 0)
  BY WalkAsks DEF send_syst, ReplyStates, LoginStates, Auths
<1>2. QED
  BY <1>1, PleasantTurns DEF short_scan_ending

\* robots.txt is asked for on the way to the first directory.
Onwards(k) ==
  /\ Placid(k) /\ ~Stored(k) /\ k.listErrCount # LIST_ERROR_CUTOFF
  /\ k.pasvPost \in {"send_syst", "short_scan_ending", "walk_dir", "disconnect_pleasant"}
  /\ k.pasvPost \in {"send_syst", "short_scan_ending"} => k.listResp = 0

LEMMA PasvPostTurns ==
  ASSUME NEW k, Onwards(k), NEW skip
  PROVE  Turned(pasvPost(k, skip), 0)
<1> USE DEF Onwards
<1>1. k.pasvPost \in {"send_syst", "short_scan_ending"}
        => Turned(send_syst(k), 0) /\ Turned(short_scan_ending(k), 0)
  BY SystTurns DEF Going
<1>2. Turned(walk_dir(k, skip), 0) /\ Turned(disconnect_pleasant(k), 0)
  BY WalkDirTurns, QuitTurns
<1>3. QED
  BY <1>1, <1>2 DEF pasvPost

LEMMA LoggedInTurns ==
  ASSUME NEW k, Placid(k), Going(k), ~Stored(k)
  PROVE  Turned(logged_in(k), 0)
<1> DEFINE i == IF k.item = "none" THEN "robots" ELSE "other"
           post == IF crawlType = "NORMAL" THEN "send_syst" ELSE "short_scan_ending"
           n == [k EXCEPT !.item = i, !.xferType = "XFER_FILE", !.pasvAction = "send_retr",
                          !.pasvPost = post]
<1>1. fetch_robots_txt(k) = send_pasv(n)
  <2>1. "item" \in DOMAIN k
    BY DEF Placid, TurnFields
  <2>2. QED
    BY <2>1 DEF fetch_robots_txt
<1>2. Unturned(k, n)
  BY WalkFields
<1> HIDE DEF n
<1>3. Placid(n) /\ Going(n) /\ ~Stored(n)
  BY <1>2, UnturnedSame DEF Unturned, Going
<1>4. Turned(send_pasv(n), 0)
  BY <1>3, WalkAsks DEF send_pasv, ReplyStates, LoginStates, Auths
<1>5. QED
  BY <1>1, <1>4, PleasantTurns DEF logged_in

LEMMA SystPwdTurns ==
  ASSUME NEW k, Placid(k), Going(k), ~Stored(k), NEW r, Alone(r), NEW skip
  PROVE  Turned(read_syst_resp(k, r), 0) /\ Turned(read_pwd_resp(k, r, skip), 0)
<1>1. Turned(read_syst_resp(k, r), 0)
  <2> DEFINE n == [k EXCEPT !.item = "root", !.pasvAction = "send_list",
                            !.pasvPost = "disconnect_pleasant"]
  <2>1. Unturned(k, n)
    BY WalkFields
  <2>2. read_syst_resp(k, r)
          = single(k, r, IF crawlType = "SHORT" THEN send_pasv(n) ELSE send_pwd(k))
    BY DEF read_syst_resp
  <2> HIDE DEF n
  <2>3. Placid(n) /\ Going(n) /\ ~Stored(n)
    BY <2>1, UnturnedSame DEF Unturned, Going
  <2>4. Turned(send_pasv(n), 0)
    BY <2>3, WalkAsks DEF send_pasv, ReplyStates, LoginStates, Auths
  <2>5. Turned(send_pwd(k), 0)
    BY WalkAsks DEF send_pwd, ReplyStates, LoginStates, Auths
  <2>6. QED
    BY <2>2, <2>4, <2>5, SingleTurns
<1>2. Turned(read_pwd_resp(k, r, skip), 0)
  <2> DEFINE q == k.dirQueue + 1
             d == [k EXCEPT !.dirQueue = @ + 1]
             n == [d EXCEPT !.pasvAction = "send_list", !.pasvPost = "walk_dir"]
  <2>1. Unturned(k, d)
    BY DEF Placid, Unturned, TurnFields
  <2>2. read_pwd_resp(k, r, skip) = single(k, r, walk_dir(n, skip))
    BY DEF read_pwd_resp, walk_dir_init
  <2> HIDE DEF d
  <2>3. Placid(d) /\ Going(d) /\ ~Stored(d)
    BY <2>1, UnturnedSame DEF Unturned, Going
  <2>4. Unturned(d, n)
    BY <2>3, WalkFields
  <2> HIDE DEF n
  <2>5. Placid(n) /\ Going(n) /\ ~Stored(n)
    BY <2>3, <2>4, UnturnedSame DEF Unturned, Going
  <2>6. Turned(walk_dir(n, skip), 0)
    BY <2>5, WalkDirTurns DEF Going
  <2>7. QED
    BY <2>2, <2>6, SingleTurns
<1>3. QED
  BY <1>1, <1>2

\* The channel is there before the transfer is asked for.
LEMMA PasvTurns ==
  ASSUME NEW k, Placid(k), Going(k), ~Stored(k), ~k.dataBev,
         NEW r, Alone(r), r.size = "FOUND" => r.kind \in {"ok", "no", "odd"}
  PROVE  Turned(read_pasv_resp(k, r), 0)
<1> DEFINE n == [enter(k, "S_DATA_CONN") EXCEPT
                   !.dataBev = TRUE, !.dataIsConnected = FALSE, !.dataUsingSec = FALSE]
           found == CASE r.kind = "no" -> unexpected_reply(k, "FAIL_PASV_RESP")
                      [] r.kind = "odd" -> unexpected_reply(k, "FAIL_PASV_SCAN")
                      [] r.kind = "ok" ->
                           IF k.dataBev THEN crash(k, "data_bev_lost")
                           ELSE IF k.pasvAction = "send_retr" THEN send_retr(n) ELSE send_list(n)
<1>1. n = [k EXCEPT !.state = "S_DATA_CONN", !.dataBev = TRUE, !.dataIsConnected = FALSE,
                    !.dataUsingSec = FALSE]
  BY DEF enter
<1>2. read_pasv_resp(k, r) = single(k, r, found)
  BY DEF read_pasv_resp
<1> HIDE DEF n
<1>3. /\ TurnFields \subseteq DOMAIN n /\ Up(n) /\ n.conn = "up" /\ n.sent = <<>>
      /\ ~n.savedReqTimer /\ ~Waits(n) /\ n.state = "S_DATA_CONN"
      /\ Going(n) /\ ~Stored(n) /\ n.dataBev
  BY <1>1 DEF Placid, TurnFields, Up, Waits, Going, Stored
<1>4. OneTurn(n, 0) /\ Secured(n, 0) /\ Provided(n, 0) /\ Walked(n, 0) /\ Remembered(n, 0)
  BY <1>1, <1>3 DEF Placid, Tame, TurnFields, OneTurn, Secured, Provided, Walked, Remembered,
         Heading, Later, Waits, Auths, LoginStates
<1>5. Placid(n) /\ Fits(n, "S_RETR_SENT") /\ Fits(n, "S_LIST_SENT")
  BY <1>3, <1>4 DEF Placid, Tame, Fits, Going, LoginStates, Auths
<1>6. Turned(send_retr(n), 0) /\ Turned(send_list(n), 0)
  <2>1. ASSUME NEW a, NEW x, Turned(a, 0) PROVE Turned([a EXCEPT !.xferType = x], 0)
    <3> DEFINE b == [a EXCEPT !.xferType = x]
    <3>1. Unturned(a, b)
      BY <2>1 DEF Turned, Passed, InTurn, Unturned, TurnFields
    <3> HIDE DEF b
    <3>2. Turned(b, 0)
      BY <2>1, <3>1, UnturnedSame
    <3>3. QED
      BY <3>2 DEF b
  <2>2. /\ Turned(ask(n, "S_RETR_SENT", "RETR"), 0)
        /\ Turned(ask(n, "S_LIST_SENT", "LIST"), 0)
    BY <1>5, AskTurns DEF ReplyStates
  <2>3. QED
    BY <2>1, <2>2 DEF send_retr, send_list
<1>7. \A code : Turned(unexpected_reply(k, code), 0)
  BY PleasantTurns DEF unexpected_reply
<1>8. r.size = "FOUND" => Turned(found, 0)
  BY <1>6, <1>7
<1> HIDE DEF found
<1>9. QED
  BY <1>2, <1>8, SingleTurns

-----------------------------------------------------------------------------
\* The data channel.

\* A caller goes on with the record it has, whatever has become of it.
LEMMA ThenOnTurns ==
  ASSUME NEW k, NEW b, Turned(k, b), NEW next, k.fault = "none" /\ ~k.freed => Turned(next, b)
  PROVE  Turned(then_on(k, next), b)
<1>1. CASE k.fault # "none"
  BY <1>1 DEF then_on
<1>2. CASE k.fault = "none" /\ ~k.freed
  BY <1>2 DEF then_on
<1>3. CASE k.fault = "none" /\ k.freed
  <2> DEFINE n == [k EXCEPT !.fault = "use_after_free"]
  <2>1. then_on(k, next) = n
    <3>1. "fault" \in DOMAIN k
      BY DEF Turned, Passed, InTurn, TurnFields
    <3>2. QED
      BY <1>3, <3>1 DEF then_on, crash
  <2>2. /\ TurnFields \subseteq DOMAIN n /\ n.fault = "use_after_free"
        /\ n.terminationCode = k.terminationCode /\ n.result = k.result
        /\ n.hostIsFinished = k.hostIsFinished /\ n.connects = k.connects
        /\ n.secProbeStorage = k.secProbeStorage /\ n.sent = k.sent
        /\ n.listErrCount = k.listErrCount /\ n.listResp = k.listResp
    BY DEF Turned, Passed, InTurn, TurnFields
  <2> HIDE DEF n
  <2>3. Excused(n) /\ (n.hostIsFinished => Judged(n)) /\ (Listed(n) => Listed(k))
    BY <1>3, <2>2 DEF Turned, Passed, InTurn, Excused, Judged, Stored, Listed
  <2>4. QED
    BY <2>1, <2>2, <2>3 DEF Turned, Passed, InTurn, Up
<1>4. QED
  BY <1>1, <1>2, <1>3

\* A host that is over is freed.
LEMMA FreedTurns ==
  ASSUME NEW k, NEW b, Passed(k, b)
  PROVE  Passed(free_if_finished(k), b) /\ free_if_finished(k).sent = k.sent
<1> DEFINE n == [k EXCEPT !.freed = TRUE]
<1>1. CASE ~k.hostIsFinished
  BY <1>1 DEF free_if_finished
<1>2. CASE k.hostIsFinished
  <2>1. /\ TurnFields \subseteq DOMAIN n /\ n.fault = k.fault /\ n.freed
        /\ n.terminationCode = k.terminationCode /\ n.result = k.result
        /\ n.hostIsFinished = k.hostIsFinished /\ n.connects = k.connects
        /\ n.secProbeStorage = k.secProbeStorage /\ n.sent = k.sent
        /\ n.listErrCount = k.listErrCount /\ n.listResp = k.listResp
        /\ n.state = k.state /\ n.ctrlUsingSec = k.ctrlUsingSec
    BY DEF Passed, InTurn, TurnFields
  <2> HIDE DEF n
  <2>2. Excused(n) /\ (n.hostIsFinished => Judged(n)) /\ (Listed(n) => Listed(k))
    BY <2>1 DEF Passed, InTurn, Excused, Judged, Stored, Listed
  <2>3. Passed(n, b) /\ n.sent = k.sent
    BY <2>1, <2>2 DEF Passed, InTurn, Up
  <2>4. QED
    BY <1>2, <2>3 DEF free_if_finished, n
<1>3. QED
  BY <1>1, <1>2

LEMMA OverflowTurns ==
  ASSUME NEW k, Calm(k), Rude("overflow")
  PROVE  LET n == data_overflow(k)
         IN /\ n.freed /\ n.fault = "none" /\ n.hostIsFinished /\ n.sent = k.sent
            /\ \A b : Turned(n, b)
<1> DEFINE m == abrupt(k, "FAIL_TRAP_DATA_AMT")
           n == [m EXCEPT !.freed = TRUE]
<1>1. Stopped(k, m) /\ m.terminationCode = "FAIL_TRAP_DATA_AMT"
  BY AbruptTurns
<1>2. data_overflow(k) = n
  BY <1>1 DEF data_overflow, free_if_finished, Stopped
<1> HIDE DEF m
<1>3. ASSUME NEW b PROVE Turned(n, b)
  <2>1. /\ TurnFields \subseteq DOMAIN n /\ n.fault = m.fault /\ n.freed
        /\ n.terminationCode = m.terminationCode /\ n.result = m.result
        /\ n.hostIsFinished = m.hostIsFinished /\ n.connects = m.connects
        /\ n.secProbeStorage = m.secProbeStorage /\ n.sent = m.sent
        /\ n.listErrCount = m.listErrCount /\ n.listResp = m.listResp
    BY <1>1 DEF Stopped, Turned, Passed, InTurn, TurnFields
  <2> HIDE DEF n
  <2>2. Excused(n) /\ (n.hostIsFinished => Judged(n)) /\ (Listed(n) => Listed(m))
    BY <1>1, <2>1 DEF Stopped, Turned, Passed, InTurn, Excused, Judged, Stored, Listed
  <2>3. QED
    BY <1>1, <2>1, <2>2 DEF Stopped, Turned, Passed, InTurn, Up
<1>4. n.freed /\ n.fault = "none" /\ n.hostIsFinished /\ n.sent = k.sent
  BY <1>1 DEF Stopped, Turned, Passed, InTurn, TurnFields
<1>5. QED
  BY <1>2, <1>3, <1>4

\* n is k with its data channel closed.
Emptied(k, n) ==
  /\ TurnFields \subseteq DOMAIN n /\ ~n.dataBev
  /\ n.state = k.state /\ n.terminationCode = k.terminationCode
  /\ n.result = k.result /\ n.hostIsFinished = k.hostIsFinished /\ n.freed = k.freed
  /\ n.fault = k.fault /\ n.conn = k.conn /\ n.ctrlUsingSec = k.ctrlUsingSec
  /\ n.secType = k.secType /\ n.secProbe = k.secProbe
  /\ n.secProbeStorage = k.secProbeStorage /\ n.postSecConnectCB = k.postSecConnectCB
  /\ n.delayedCtrlCB = k.delayedCtrlCB /\ n.sent = k.sent
  /\ n.savedReqTimer = k.savedReqTimer /\ n.savedNextState = k.savedNextState
  /\ n.multiRespState = k.multiRespState /\ n.multiRespTimer = k.multiRespTimer
  /\ n.resetWaitTimer = k.resetWaitTimer /\ n.retrWaitTimer = k.retrWaitTimer
  /\ n.listErrCount = k.listErrCount /\ n.listResp = k.listResp
  /\ n.connects = k.connects /\ n.pasvPost = k.pasvPost

\* What is read of a listing does not matter to the turn.
LEMMA Empties ==
  ASSUME NEW k, TurnFields \subseteq DOMAIN k, k.dataBev, NEW c, ~c.over
  PROVE  Emptied(k, close_data_bev(k, c))
<1> DEFINE l == check_lie(k, c.text)
           p == parse_list_data(k, c)
           n == close_data_bev(k, c)
<1>1. Unturned(k, l) /\ l.pasvPost = k.pasvPost
  BY DEF check_lie, Unturned, TurnFields
<1>2. p = k \/ p = [l EXCEPT !.dirQueue = @ + c.dirs]
  BY DEF parse_list_data
<1> HIDE DEF l
<1>3. Unturned(k, p) /\ p.pasvPost = k.pasvPost
  BY <1>1, <1>2 DEF Unturned, TurnFields
<1>4. n = [p EXCEPT !.dataBev = FALSE, !.dataIsConnected = FALSE]
  BY DEF close_data_bev
<1> HIDE DEF p, n
<1>5. Emptied(k, n)
  BY <1>3, <1>4 DEF Unturned, Emptied, TurnFields
<1>6. QED
  BY <1>5 DEF n

LEMMA EmptiedTame ==
  ASSUME NEW k, NEW n, Emptied(k, n), NEW w, Tame(k, w),
         \/ Rude("data_first")
         \/ k.state # "S_DATA_CONN" /\ (w = 1 => k.state \notin {"S_RETR_SENT", "S_LIST_SENT"})
  PROVE  Tame(n, w)
<1>1. /\ Later(n) = Later(k) /\ (Waits(n) <=> Waits(k)) /\ (Stored(n) <=> Stored(k))
  BY DEF Emptied, Later, Waits, Stored
<1>2. OneTurn(n, w) /\ Secured(n, w) /\ Provided(n, w) /\ Walked(n, w) /\ Remembered(n, w)
  BY <1>1 DEF Emptied, Tame, OneTurn, Secured, Provided, Walked, Remembered, Heading
<1>3. QED
  BY <1>2 DEF Tame

\* Nothing waits for the data channel that a handler closes.
LEMMA ShutTurns ==
  ASSUME NEW k, Placid(k), k.state # "S_DATA_CONN", k.delayedCtrlCB = "none",
         NEW c, c.over => Rude("overflow")
  PROVE  LET n == data_close_channel(k, c)
         IN \/ Turned(n, 0) /\ n.freed /\ n.fault = "none"
            \/ /\ Placid(n) /\ ~n.dataBev /\ (Stored(n) <=> Stored(k))
               /\ n.listErrCount = k.listErrCount /\ n.listResp = k.listResp
               /\ n.pasvPost = k.pasvPost /\ n.state = k.state
<1> DEFINE n == data_close_channel(k, c)
           m == close_data_bev(k, c)
<1>1. CASE ~k.dataBev
  <2>1. n = k
    BY <1>1 DEF data_close_channel
  <2>2. QED
    BY <1>1, <2>1
<1>2. CASE k.dataBev /\ c.over
  <2>1. m = data_overflow(k)
    BY <1>2 DEF close_data_bev
  <2>2. Turned(m, 0) /\ m.freed /\ m.fault = "none"
    BY <1>2, <2>1, PlacidCalm, OverflowTurns
  <2> HIDE DEF m
  <2>3. run_delayed_cb(m, c) = m
    BY <2>2 DEF run_delayed_cb, run_delayed
  <2>4. n = m
    BY <1>2, <2>3 DEF data_close_channel, m
  <2>5. QED
    BY <2>2, <2>4
<1>3. CASE k.dataBev /\ ~c.over
  <2>1. Emptied(k, m)
    BY <1>3, Empties DEF Placid
  <2> HIDE DEF m
  <2>2. run_delayed_cb(m, c) = m
    BY <2>1 DEF run_delayed_cb, run_delayed, Emptied
  <2>3. n = m
    BY <1>3, <2>2 DEF data_close_channel, m
  <2>4. Tame(m, 0)
    BY <2>1, EmptiedTame DEF Placid
  <2>5. Placid(m) /\ (Stored(m) <=> Stored(k))
    BY <2>1, <2>4 DEF Placid, Emptied, Up, Waits, Stored
  <2>6. QED
    BY <2>1, <2>3, <2>5 DEF Emptied
<1>4. QED
  BY <1>1, <1>2, <1>3

-----------------------------------------------------------------------------
\* The end of a transfer.

\* A host that goes on when what waits for the end of RETR is done.
Retrieved(k) ==
  /\ TurnFields \subseteq DOMAIN k
  /\ Up(k) /\ k.conn = "up" /\ k.sent = <<>> /\ ~k.savedReqTimer /\ k.state # "S_QUIT_SENT"
  /\ ~k.multiRespTimer /\ ~k.resetWaitTimer
  /\ k.delayedCtrlCB \notin {"read_retr_done", "read_list_done"}
  /\ Tame(k, 0) /\ Going(k) /\ ~Stored(k)
  /\ k.pasvPost \in {"send_syst", "short_scan_ending", "walk_dir", "disconnect_pleasant"}

LEMMA RetrOver ==
  ASSUME NEW k, Retrieved(k), NEW n, TurnFields \subseteq DOMAIN n,
         n.retrWaitTimer = FALSE, n.pasvPost = k.pasvPost,
         Unturned(k, [n EXCEPT !.retrWaitTimer = k.retrWaitTimer])
  PROVE  Onwards(n) /\ Going(n) /\ Retrieved(n)
<1> DEFINE m == [n EXCEPT !.retrWaitTimer = k.retrWaitTimer]
<1>1. /\ n.state = k.state /\ n.terminationCode = k.terminationCode
      /\ n.result = k.result /\ n.hostIsFinished = k.hostIsFinished /\ n.freed = k.freed
      /\ n.fault = k.fault /\ n.conn = k.conn /\ n.ctrlUsingSec = k.ctrlUsingSec
      /\ n.secType = k.secType /\ n.secProbe = k.secProbe
      /\ n.secProbeStorage = k.secProbeStorage /\ n.postSecConnectCB = k.postSecConnectCB
      /\ n.delayedCtrlCB = k.delayedCtrlCB /\ n.sent = k.sent
      /\ n.savedReqTimer = k.savedReqTimer /\ n.savedNextState = k.savedNextState
      /\ n.multiRespState = k.multiRespState /\ n.multiRespTimer = k.multiRespTimer
      /\ n.resetWaitTimer = k.resetWaitTimer /\ n.dataBev = k.dataBev
      /\ n.listErrCount = k.listErrCount /\ n.listResp = k.listResp
      /\ n.connects = k.connects
  BY DEF Unturned, TurnFields
<1>2. /\ Up(n) /\ ~Waits(n) /\ Going(n) /\ ~Stored(n) /\ Later(n) = "none"
  BY <1>1 DEF Retrieved, Up, Waits, Going, Stored, Later
<1>3. OneTurn(n, 0) /\ Secured(n, 0) /\ Provided(n, 0) /\ Walked(n, 0) /\ Remembered(n, 0)
  BY <1>1, <1>2 DEF Retrieved, Tame, OneTurn, Secured, Provided, Walked, Remembered,
         Heading, Later, Going, LoginStates
<1>4. QED
  BY <1>1, <1>2, <1>3 DEF Retrieved, Onwards, Placid, Tame, Going

\* What robots.txt is found to be is no matter of turns.
LEMMA RetrOvers ==
  ASSUME NEW k, Retrieved(k), NEW x, NEW o
  PROVE  /\ LET n == [k EXCEPT !.retrWaitTimer = FALSE]
            IN Onwards(n) /\ Going(n) /\ Retrieved(n)
         /\ LET n == [k EXCEPT !.retrWaitTimer = FALSE, !.robotPresence = x, !.robotObj = TRUE]
            IN Onwards(n) /\ Going(n) /\ Retrieved(n)
         /\ LET n == [k EXCEPT !.robotObj = o]
            IN k.retrWaitTimer = FALSE => Onwards(n) /\ Going(n) /\ Retrieved(n)
<1>1. TurnFields \subseteq DOMAIN k
  BY DEF Retrieved
<1>2. ASSUME NEW n, n = [k EXCEPT !.retrWaitTimer = FALSE]
      PROVE  Onwards(n) /\ Going(n) /\ Retrieved(n)
  <2>1. /\ TurnFields \subseteq DOMAIN n /\ n.retrWaitTimer = FALSE /\ n.pasvPost = k.pasvPost
        /\ Unturned(k, [n EXCEPT !.retrWaitTimer = k.retrWaitTimer])
    BY <1>1, <1>2 DEF TurnFields, Unturned
  <2>2. QED
    BY <2>1, RetrOver
<1>3. ASSUME NEW n,
             n = [k EXCEPT !.retrWaitTimer = FALSE, !.robotPresence = x, !.robotObj = TRUE]
      PROVE  Onwards(n) /\ Going(n) /\ Retrieved(n)
  <2>1. /\ TurnFields \subseteq DOMAIN n /\ n.retrWaitTimer = FALSE /\ n.pasvPost = k.pasvPost
        /\ Unturned(k, [n EXCEPT !.retrWaitTimer = k.retrWaitTimer])
    BY <1>1, <1>3 DEF TurnFields, Unturned
  <2>2. QED
    BY <2>1, RetrOver
<1>4. ASSUME NEW n, n = [k EXCEPT !.robotObj = o], k.retrWaitTimer = FALSE
      PROVE  Onwards(n) /\ Going(n) /\ Retrieved(n)
  <2>1. /\ TurnFields \subseteq DOMAIN n /\ n.retrWaitTimer = FALSE /\ n.pasvPost = k.pasvPost
        /\ Unturned(k, [n EXCEPT !.retrWaitTimer = k.retrWaitTimer])
    BY <1>1, <1>4 DEF TurnFields, Unturned
  <2>2. QED
    BY <2>1, RetrOver
<1>5. QED
  BY <1>2, <1>3, <1>4

LEMMA RetrDoneTurns ==
  ASSUME NEW k, Onwards(k), Going(k), NEW c,
         NEW r, Alone(r), r.size = "FOUND" => r.kind \in {"ok", "no", "odd"}
  PROVE  Turned(read_retr_done(k, r, c), 0)
<1> DEFINE n == [k EXCEPT !.retrWaitTimer = FALSE]
           o == handle_robots_txt(n)
           x == [n EXCEPT !.retrWaitTimer = FALSE,
                          !.robotPresence = IF n.item = "robots" THEN "ROBOTS_NO" ELSE @,
                          !.robotObj = TRUE]
           d == [k EXCEPT !.delayedCtrlCB = "read_retr_done"]
<1>1. CASE k.dataBev
  <2>1. /\ TurnFields \subseteq DOMAIN d /\ Up(d) /\ d.conn = "up" /\ d.sent = <<>>
        /\ ~d.savedReqTimer /\ d.state # "S_QUIT_SENT" /\ Going(d) /\ ~Stored(d)
        /\ Len(d.sent) = 0 /\ ~Listed(d)
    BY DEF Onwards, Placid, TurnFields, Up, Going, Stored, Listed
  <2>2. OneTurn(d, 0) /\ Secured(d, 0) /\ Provided(d, 0) /\ Walked(d, 0) /\ Remembered(d, 0)
    BY <2>1 DEF Onwards, Placid, Tame, TurnFields, OneTurn, Secured, Provided, Walked,
           Remembered, Going, Heading, Later, Waits
  <2>3. Turned(d, 0)
    BY <2>1, <2>2 DEF Turned, Passed, InTurn, Tame, Up, Excused, Walked
  <2>4. QED
    BY <1>1, <2>3 DEF read_retr_done
<1>2. CASE ~k.dataBev
  <2>1. Retrieved(k)
    BY DEF Onwards, Placid, Retrieved, Waits
  <2>2. Onwards(n) /\ Going(n) /\ Retrieved(n) /\ n.retrWaitTimer = FALSE
    BY <2>1, RetrOvers DEF Onwards, Placid, TurnFields
  <2> HIDE DEF n
  <2>3. Turned(pasvPost(o, c.skip), 0)
    <3> DEFINE v == n.robotObj \/ crawlType = "NORMAL"
    <3>1. o = [n EXCEPT !.robotObj = v]
      BY DEF handle_robots_txt
    <3> HIDE DEF v
    <3>2. Onwards([n EXCEPT !.robotObj = v])
      BY <2>2, RetrOvers
    <3> HIDE DEF o
    <3>3. QED
      BY <3>1, <3>2, PasvPostTurns
  <2>4. Turned(after_retr(n, c), 0)
    <3> DEFINE p == IF n.item = "robots" THEN "ROBOTS_NO" ELSE n.robotPresence
    <3>1. x = [n EXCEPT !.retrWaitTimer = FALSE, !.robotPresence = p, !.robotObj = TRUE]
      OBVIOUS
    <3> HIDE DEF p
    <3>2. Onwards(x)
      BY <2>2, <3>1, RetrOvers
    <3>3. after_retr(n, c) = pasvPost(x, c.skip)
      BY DEF after_retr
    <3> HIDE DEF x
    <3>4. QED
      BY <3>2, <3>3, PasvPostTurns
  <2>5. Turned(unexpected_reply(n, "FAIL_RETR_DONE"), 0)
    BY <2>2, PleasantTurns DEF Onwards, unexpected_reply
  <2> DEFINE found == CASE r.kind = "ok" -> pasvPost(o, c.skip)
                        [] r.kind = "no" -> after_retr(n, c)
                        [] r.kind = "odd" -> unexpected_reply(n, "FAIL_RETR_DONE")
  <2>6. r.size = "FOUND" => Turned(found, 0)
    BY <2>3, <2>4, <2>5
  <2>7. read_retr_done(k, r, c) = single(k, r, found)
    BY <1>2 DEF read_retr_done, n
  <2> HIDE DEF found
  <2>8. QED
    BY <2>6, <2>7, SingleTurns DEF Onwards
<1>3. QED
  BY <1>1, <1>2

\* One error more, at most the last.
LEMMA ErrorTurns ==
  ASSUME NEW k, Placid(k), ~Stored(k), k.listErrCount # LIST_ERROR_CUTOFF,
         k.state \notin LoginStates
  PROVE  LET n == list_error(k)
         IN /\ Placid(n) /\ ~Stored(n) /\ n.pasvPost = k.pasvPost /\ n.state = k.state
            /\ n.listResp = k.listResp /\ n.delayedCtrlCB = k.delayedCtrlCB
<1> DEFINE n == list_error(k)
<1>1. k.listErrCount \in 0..LIST_ERROR_CUTOFF /\ LIST_ERROR_CUTOFF \in Nat \ {0}
  BY HostStateAssumption DEF HostStateAssumption, Placid, Tame, Walked
<1>2. n = [k EXCEPT !.listErrCount = k.listErrCount + 1]
  <2>1. ~(k.listErrCount > LIST_ERROR_CUTOFF)
    BY <1>1
  <2>2. QED
    BY <2>1 DEF list_error
<1> HIDE DEF n
<1>3. /\ TurnFields \subseteq DOMAIN n /\ Up(n) /\ n.conn = "up" /\ n.sent = <<>>
      /\ ~n.savedReqTimer /\ ~Waits(n) /\ n.state # "S_QUIT_SENT" /\ ~Stored(n)
      /\ n.pasvPost = k.pasvPost /\ n.state = k.state /\ n.listResp = k.listResp
      /\ n.delayedCtrlCB = k.delayedCtrlCB
      /\ n.listErrCount \in 0..LIST_ERROR_CUTOFF
  BY <1>1, <1>2 DEF Placid, TurnFields, Up, Waits, Stored
<1>4. OneTurn(n, 0) /\ Secured(n, 0) /\ Provided(n, 0) /\ Walked(n, 0) /\ Remembered(n, 0)
  BY <1>2, <1>3 DEF Placid, Tame, TurnFields, OneTurn, Secured, Provided, Walked, Remembered,
         Heading, Later, Waits
<1>5. QED
  BY <1>3, <1>4 DEF Placid, Tame, n

\* After the last error the crawl is over.
LEMMA ListFailedTurns ==
  ASSUME NEW k, Placid(k), ~Stored(k), k.pasvPost \in {"walk_dir", "disconnect_pleasant"},
         NEW code, NEW skip
  PROVE  Turned(list_failed(k, code, skip), 0)
<1>1. Turned(unexpected_reply(k, code), 0)
  BY PleasantTurns DEF unexpected_reply
<1>2. k.listErrCount # LIST_ERROR_CUTOFF => Turned(pasvPost(k, skip), 0)
  BY PasvPostTurns DEF Onwards
<1>3. QED
  BY <1>1, <1>2 DEF list_failed

LEMMA ListDoneTurns ==
  ASSUME NEW k, Onwards(k), k.pasvPost \in {"walk_dir", "disconnect_pleasant"},
         k.state \notin LoginStates, NEW c, NEW r, Alone(r)
  PROVE  Turned(read_list_done(k, r, c), 0)
<1> DEFINE d == [k EXCEPT !.delayedCtrlCB = "read_list_done"]
           e == list_error(k)
<1>1. CASE k.dataBev
  <2>1. /\ TurnFields \subseteq DOMAIN d /\ Up(d) /\ d.conn = "up" /\ d.sent = <<>>
        /\ ~d.savedReqTimer /\ d.state # "S_QUIT_SENT" /\ ~Stored(d)
        /\ Len(d.sent) = 0 /\ ~Listed(d) /\ d.listErrCount # LIST_ERROR_CUTOFF
        /\ d.delayedCtrlCB = "read_list_done"
    BY DEF Onwards, Placid, TurnFields, Up, Stored, Listed
  <2>2. OneTurn(d, 0) /\ Secured(d, 0) /\ Provided(d, 0) /\ Walked(d, 0) /\ Remembered(d, 0)
    BY <2>1 DEF Onwards, Placid, Tame, TurnFields, OneTurn, Secured, Provided, Walked,
           Remembered, Heading, Later, Waits
  <2>3. Turned(d, 0)
    BY <2>1, <2>2 DEF Turned, Passed, InTurn, Tame, Up, Excused, Walked
  <2>4. QED
    BY <1>1, <2>3 DEF read_list_done
<1>2. CASE ~k.dataBev
  <2>1. Placid(e) /\ ~Stored(e) /\ e.pasvPost = k.pasvPost
    BY ErrorTurns DEF Onwards
  <2> HIDE DEF e
  <2>2. Turned(list_failed(e, "FAIL_LIST_DONE", c.skip), 0)
    BY <2>1, ListFailedTurns
  <2>3. Turned(pleasant(k, "SUCCESS_EXIT"), 0) /\ Turned(pasvPost(k, c.skip), 0)
    BY PleasantTurns, PasvPostTurns DEF Onwards
  <2> DEFINE found == IF r.kind # "ok" THEN list_failed(e, "FAIL_LIST_DONE", c.skip)
                      ELSE IF k.pasvPost = "disconnect_pleasant" THEN pleasant(k, "SUCCESS_EXIT")
                      ELSE pasvPost(k, c.skip)
  <2>4. Turned(found, 0)
    BY <2>2, <2>3
  <2>5. read_list_done(k, r, c) = single(k, r, found)
    BY <1>2 DEF read_list_done, e
  <2> HIDE DEF found
  <2>6. QED
    BY <2>4, <2>5, SingleTurns DEF Onwards
<1>3. QED
  BY <1>1, <1>2

-----------------------------------------------------------------------------
\* The beginning of a transfer.

\* The data channel is there, if the server has waited for it, and so is TLS.
Fitted(k) ==
  /\ Placid(k) /\ ~Stored(k) /\ k.listErrCount # LIST_ERROR_CUTOFF
  /\ k.delayedCtrlCB = "none"
  /\ Rude("data_first") \/ k.dataBev
  /\ k.ctrlUsingSec => k.secType # "SEC_UNK"
  /\ k.pasvPost \in {"send_syst", "short_scan_ending", "walk_dir", "disconnect_pleasant"}

\* The transfer is under way, and its end owed; or its channel has ended before.
LEMMA XferTurns ==
  ASSUME NEW k, Fitted(k), NEW next \in {"S_RETR_XFER", "S_LIST_XFER"},
         next = "S_RETR_XFER" => k.listResp = 0
  PROVE  LET n == begin_xfer(k, next)
         IN \/ n.fault # "none" /\ \A b : Turned(n, b)
            \/ /\ Placid(n) /\ Turned(n, 1) /\ ~Stored(n) /\ n.state = next
               /\ n.listErrCount # LIST_ERROR_CUTOFF /\ n.listResp = k.listResp
               /\ n.pasvPost = k.pasvPost
<1> DEFINE e == [k EXCEPT !.state = next]
           n == begin_xfer(k, next)
<1>1. /\ TurnFields \subseteq DOMAIN e /\ Up(e) /\ e.conn = "up" /\ e.sent = <<>>
      /\ ~e.savedReqTimer /\ ~Waits(e) /\ e.state = next /\ ~Stored(e)
      /\ Len(e.sent) = 0 /\ ~Listed(e) /\ e.listErrCount # LIST_ERROR_CUTOFF
      /\ e.listResp = k.listResp /\ e.pasvPost = k.pasvPost /\ e.dataBev = k.dataBev
      /\ e.ctrlUsingSec = k.ctrlUsingSec /\ e.secType = k.secType
  BY DEF Fitted, Placid, TurnFields, Up, Waits, Stored, Listed
<1>2. ASSUME NEW w \in {0, 1}
      PROVE  OneTurn(e, w) /\ Secured(e, w) /\ Provided(e, w) /\ Walked(e, w) /\ Remembered(e, w)
  BY <1>1 DEF Fitted, Placid, Tame, TurnFields, OneTurn, Secured, Provided, Walked, Remembered,
         Heading, Later, Waits, Auths, LoginStates
<1>3. Placid(e) /\ Turned(e, 1)
  BY <1>1, <1>2 DEF Placid, Turned, Passed, InTurn, Tame, Up, Excused, Walked
<1>4. CASE ~k.ctrlUsingSec
  <2>1. n = e
    BY <1>4 DEF begin_xfer, enter
  <2> HIDE DEF e, n
  <2>2. QED
    BY <1>1, <1>3, <2>1 DEF n
<1>5. CASE k.ctrlUsingSec /\ k.dataBev
  <2> DEFINE left == IF e.dataIsConnected THEN e.staleData ELSE e.staleData + 1
             p == [e EXCEPT !.dataUsingSec = TRUE, !.staleData = left]
  <2>1. n = p
    BY <1>1, <1>5 DEF begin_xfer, enter, data_tls_init, Fitted
  <2> HIDE DEF e, left
  <2>2. Unturned(e, p) /\ p.pasvPost = e.pasvPost
    BY <1>1 DEF Unturned, TurnFields
  <2> HIDE DEF p, n
  <2>3. Placid(p) /\ Turned(p, 1) /\ ~Stored(p)
    BY <1>1, <1>3, <2>2, UnturnedSame
  <2>4. QED
    BY <1>1, <2>1, <2>2, <2>3 DEF Unturned, n
<1>6. CASE k.ctrlUsingSec /\ ~k.dataBev
  <2> DEFINE p == [e EXCEPT !.fault = "null_data_bev"]
  <2>1. n = p
    BY <1>1, <1>6 DEF begin_xfer, enter, data_tls_init, Fitted, crash, Up
  <2>2. Rude("data_first")
    BY <1>6 DEF Fitted
  <2> HIDE DEF e
  <2>3. /\ TurnFields \subseteq DOMAIN p /\ p.fault = "null_data_bev" /\ p.state = next
        /\ p.ctrlUsingSec /\ ~p.hostIsFinished /\ p.sent = e.sent
        /\ p.listErrCount = e.listErrCount /\ p.listResp = e.listResp
    BY <1>1, <1>6 DEF TurnFields, Up
  <2> HIDE DEF p, n
  <2>4. ASSUME NEW b PROVE Turned(p, b)
    BY <1>1, <1>3, <2>2, <2>3 DEF Turned, Passed, InTurn, Up, Excused
  <2>5. QED
    BY <2>1, <2>3, <2>4 DEF n
<1>7. QED
  BY <1>4, <1>5, <1>6

\* How many replies are still owed after reply r: the end of a transfer is.
Still(r) == IF r = [size |-> "FOUND", kind |-> "ok"] THEN 1 ELSE 0

\* The reply to RETR or LIST, and the one behind it.
Announced(r, c) ==
  /\ r.size \in {"FOUND", "EXTRA", "ERROR"} /\ DOMAIN r = {"size", "kind"}
  /\ r = [size |-> r.size, kind |-> r.kind]
  /\ r.size = "EXTRA" => r.kind = "ok"
  /\ r.size = "FOUND" => r.kind \in {"ok", "no", "odd"}
  /\ r.size = "ERROR" => r.kind # "SUCCESS_EXIT" /\ r.kind # "ok"
  /\ Alone(c.more) /\ (c.more.size = "FOUND" => c.more.kind \in {"ok", "no", "odd"})
  /\ c.over => Rude("overflow")

LEMMA FirstTurns ==
  ASSUME NEW k, Placid(k), NEW r, r.size \in {"FOUND", "EXTRA", "ERROR"},
         r.size = "ERROR" => r.kind # "SUCCESS_EXIT",
         NEW found, NEW b, r.size # "ERROR" => Turned(found, b)
  PROVE  Turned(parse_first(k, r, found), b)
<1>1. ~k.hostIsFinished
  BY DEF Placid, Up
<1>2. CASE r.size \in {"FOUND", "EXTRA"}
  BY <1>1, <1>2 DEF parse_first, parse_response
<1>3. CASE r.size = "ERROR"
  <2>1. Turned(abrupt(k, r.kind), b)
    BY <1>3, PlacidCalm, AbruptTurns DEF Stopped
  <2>2. QED
    BY <1>1, <1>3, <2>1 DEF parse_first, parse_response
<1>4. QED
  BY <1>2, <1>3

LEMMA RetrTurns ==
  ASSUME NEW k, Fitted(k), k.listResp = 0, NEW r, NEW c, Announced(r, c)
  PROVE  Turned(read_retr_resp(k, r, c), Still(r))
<1> DEFINE f == IF k.item = "robots" THEN [k EXCEPT !.robotPresence = "ROBOTS_YES"] ELSE k
           x == begin_xfer(f, "S_RETR_XFER")
           s == data_close_channel(enter(k, "S_RETR_XFER"), c)
           found == CASE r.kind = "ok" /\ r.size = "EXTRA" -> retr_done_too(x, c)
                      [] r.kind = "ok" /\ r.size = "FOUND" -> x
                      [] r.kind = "no" -> arm_retr_wait(s)
                      [] r.kind = "odd" -> unexpected_reply(k, "FAIL_RETR_OK")
<1>1. Fitted(f) /\ f.listResp = 0
  <2>1. Unturned(k, f) /\ f.pasvPost = k.pasvPost
    BY DEF Fitted, Placid, Unturned, TurnFields
  <2> HIDE DEF f
  <2>2. Placid(f) /\ (Stored(f) <=> Stored(k))
    BY <2>1, UnturnedSame DEF Fitted
  <2>3. QED
    BY <2>1, <2>2 DEF Unturned, Fitted
<1> HIDE DEF f
<1>2. \/ x.fault # "none" /\ \A b : Turned(x, b)
      \/ Onwards(x) /\ Going(x) /\ Turned(x, 1)
  BY <1>1, XferTurns DEF Onwards, Fitted, Going
<1> HIDE DEF x
<1>3. Turned(retr_done_too(x, c), 0)
  <2>1. CASE x.fault # "none" /\ \A b : Turned(x, b)
    BY <2>1, ThenOnTurns DEF retr_done_too
  <2>2. CASE Onwards(x) /\ Going(x)
    <3>1. Turned(x, 0)
      BY <2>2, PlacidTurned DEF Onwards
    <3>2. Turned(read_retr_done(x, c.more, c), 0)
      BY <2>2, RetrDoneTurns DEF Announced
    <3>3. QED
      BY <3>1, <3>2, ThenOnTurns DEF retr_done_too
  <2>3. QED
    BY <1>2, <2>1, <2>2
<1>4. Turned(x, 1)
  BY <1>2
<1>5. Turned(arm_retr_wait(s), 0)
  <2> DEFINE e == [k EXCEPT !.state = "S_RETR_XFER"]
  <2>1. /\ TurnFields \subseteq DOMAIN e /\ Up(e) /\ e.conn = "up" /\ e.sent = <<>>
        /\ ~e.savedReqTimer /\ ~Waits(e) /\ e.state = "S_RETR_XFER" /\ ~Stored(e)
        /\ e.listErrCount # LIST_ERROR_CUTOFF /\ e.listResp = 0 /\ e.delayedCtrlCB = "none"
    BY DEF Fitted, Placid, TurnFields, Up, Waits, Stored
  <2>2. OneTurn(e, 0) /\ Secured(e, 0) /\ Provided(e, 0) /\ Walked(e, 0) /\ Remembered(e, 0)
    BY <2>1 DEF Fitted, Placid, Tame, TurnFields, OneTurn, Secured, Provided, Walked,
           Remembered, Heading, Later, Waits, Auths, LoginStates
  <2>3. Placid(e)
    BY <2>1, <2>2 DEF Placid, Tame
  <2>4. s = data_close_channel(e, c)
    BY DEF enter
  <2> HIDE DEF e, s
  <2>5. \/ Turned(s, 0) /\ s.freed /\ s.fault = "none"
        \/ /\ Placid(s) /\ ~Stored(s) /\ s.listErrCount # LIST_ERROR_CUTOFF
           /\ s.listResp = 0 /\ s.state = "S_RETR_XFER"
    BY <2>1, <2>3, <2>4, ShutTurns DEF Announced
  <2>6. CASE Turned(s, 0) /\ s.freed /\ s.fault = "none"
    BY <2>6, ThenOnTurns DEF arm_retr_wait
  <2>7. CASE /\ Placid(s) /\ ~Stored(s) /\ s.listErrCount # LIST_ERROR_CUTOFF
             /\ s.listResp = 0 /\ s.state = "S_RETR_XFER"
    <3> DEFINE n == [s EXCEPT !.retrWaitTimer = TRUE]
    <3>1. arm_retr_wait(s) = n
      BY <2>7 DEF arm_retr_wait, then_on, Placid, Up, Waits
    <3>2. /\ TurnFields \subseteq DOMAIN n /\ Up(n) /\ n.conn = "up" /\ n.sent = <<>>
          /\ ~n.savedReqTimer /\ n.state = "S_RETR_XFER" /\ ~Stored(n)
          /\ Len(n.sent) = 0 /\ ~Listed(n) /\ n.listErrCount # LIST_ERROR_CUTOFF
          /\ n.listResp = 0
      BY <2>7 DEF Placid, TurnFields, Up, Stored, Listed
    <3>3. OneTurn(n, 0) /\ Secured(n, 0) /\ Provided(n, 0) /\ Walked(n, 0) /\ Remembered(n, 0)
      BY <2>7, <3>2 DEF Placid, Tame, TurnFields, OneTurn, Secured, Provided, Walked, Remembered,
             Heading, Later, Waits
    <3> HIDE DEF n
    <3>4. Turned(n, 0)
      BY <3>2, <3>3 DEF Turned, Passed, InTurn, Tame, Up, Excused, Walked
    <3>5. QED
      BY <3>1, <3>4
  <2>8. QED
    BY <2>5, <2>6, <2>7
<1>6. Turned(unexpected_reply(k, "FAIL_RETR_OK"), 0)
  BY PleasantTurns DEF Fitted, unexpected_reply
<1>7. read_retr_resp(k, r, c) = parse_first(k, r, found)
  BY DEF read_retr_resp, f, x
<1>8. r.size # "ERROR" => Turned(found, Still(r))
  <2>1. r.size = "EXTRA" => Still(r) = 0
    BY DEF Still
  <2>2. r.size = "FOUND" /\ r.kind = "ok" => Still(r) = 1
    BY DEF Still, Announced
  <2>3. r.kind \in {"no", "odd"} => Still(r) = 0
    BY DEF Still
  <2> HIDE DEF s
  <2>4. QED
    BY <1>3, <1>4, <1>5, <1>6, <2>1, <2>2, <2>3 DEF Announced, s
<1> HIDE DEF found
<1>9. QED
  BY <1>7, <1>8, FirstTurns DEF Fitted, Announced

\* The answer to LIST is recorded once for each directory.
LEMMA ListTurns ==
  ASSUME NEW k, Fitted(k), k.listResp = 0, k.state = "S_LIST_SENT",
         k.pasvPost \in {"walk_dir", "disconnect_pleasant"}, NEW r, NEW c, Announced(r, c)
  PROVE  Turned(read_list_resp(k, r, c), Still(r))
<1> DEFINE n == [k EXCEPT !.listResp = IF @ = 2 THEN @ ELSE @ + 1]
           x == begin_xfer(n, "S_LIST_XFER")
           e == list_error(n)
           s == data_close_channel(e, c)
           found == CASE r.kind = "ok" /\ r.size = "EXTRA" -> list_done_too(x, c)
                      [] r.kind = "ok" /\ r.size = "FOUND" -> x
                      [] OTHER -> list_refused(s, c)
<1>1. /\ TurnFields \subseteq DOMAIN n /\ Up(n) /\ n.conn = "up" /\ n.sent = <<>>
      /\ ~n.savedReqTimer /\ ~Waits(n) /\ n.state = "S_LIST_SENT" /\ ~Stored(n)
      /\ n.listErrCount # LIST_ERROR_CUTOFF /\ n.listResp = 1 /\ n.delayedCtrlCB = "none"
      /\ n.dataBev = k.dataBev /\ n.ctrlUsingSec = k.ctrlUsingSec /\ n.secType = k.secType
      /\ n.pasvPost = k.pasvPost
  BY DEF Fitted, Placid, TurnFields, Up, Waits, Stored
<1>2. OneTurn(n, 0) /\ Secured(n, 0) /\ Provided(n, 0) /\ Walked(n, 0) /\ Remembered(n, 0)
  BY <1>1 DEF Fitted, Placid, Tame, TurnFields, OneTurn, Secured, Provided, Walked, Remembered,
         Heading, Later, Waits, LoginStates
<1>3. Fitted(n)
  BY <1>1, <1>2 DEF Fitted, Placid, Tame
<1> HIDE DEF n
<1>4. \/ x.fault # "none" /\ \A b : Turned(x, b)
      \/ /\ Onwards(x) /\ x.pasvPost \in {"walk_dir", "disconnect_pleasant"}
         /\ x.state \notin LoginStates /\ Turned(x, 1)
  BY <1>1, <1>3, XferTurns DEF Onwards, LoginStates
<1> HIDE DEF x
<1>5. Turned(list_done_too(x, c), 0)
  <2>1. CASE x.fault # "none" /\ \A b : Turned(x, b)
    BY <2>1, ThenOnTurns DEF list_done_too
  <2>2. CASE /\ Onwards(x) /\ x.pasvPost \in {"walk_dir", "disconnect_pleasant"}
             /\ x.state \notin LoginStates
    <3>1. Turned(x, 0)
      BY <2>2, PlacidTurned DEF Onwards
    <3>2. Turned(read_list_done(x, c.more, c), 0)
      BY <2>2, ListDoneTurns DEF Announced
    <3>3. QED
      BY <3>1, <3>2, ThenOnTurns DEF list_done_too
  <2>3. QED
    BY <1>4, <2>1, <2>2
<1>6. Turned(x, 1)
  BY <1>4
<1>7. Turned(list_refused(s, c), 0)
  <2>1. /\ Placid(e) /\ ~Stored(e) /\ e.pasvPost = k.pasvPost /\ e.state = "S_LIST_SENT"
        /\ e.delayedCtrlCB = "none"
    BY <1>1, <1>3, ErrorTurns DEF Fitted, LoginStates
  <2> HIDE DEF e
  <2>2. \/ Turned(s, 0) /\ s.freed /\ s.fault = "none"
        \/ Placid(s) /\ ~Stored(s) /\ s.pasvPost = k.pasvPost
    BY <2>1, ShutTurns DEF Announced
  <2> HIDE DEF s
  <2>3. CASE Turned(s, 0) /\ s.freed /\ s.fault = "none"
    BY <2>3, ThenOnTurns DEF list_refused
  <2>4. CASE Placid(s) /\ ~Stored(s) /\ s.pasvPost = k.pasvPost
    <3>1. Turned(list_failed(s, "FAIL_LIST_IN", c.skip), 0)
      BY <2>4, ListFailedTurns
    <3>2. Turned(s, 0)
      BY <2>4, PlacidTurned
    <3>3. QED
      BY <3>1, <3>2, ThenOnTurns DEF list_refused
  <2>5. QED
    BY <2>2, <2>3, <2>4
<1>8. read_list_resp(k, r, c) = parse_first(k, r, found)
  BY DEF read_list_resp, n, x, e
<1>9. r.size # "ERROR" => Turned(found, Still(r))
  <2>1. r.size = "EXTRA" => Still(r) = 0 /\ r.kind = "ok"
    BY DEF Still, Announced
  <2>2. r.size = "FOUND" /\ r.kind = "ok" => Still(r) = 1
    BY DEF Still, Announced
  <2>3. r.kind # "ok" => Still(r) = 0
    BY DEF Still
  <2> HIDE DEF s
  <2>4. QED
    BY <1>5, <1>6, <1>7, <2>1, <2>2, <2>3 DEF Announced, s
<1> HIDE DEF found
<1>10. QED
  BY <1>8, <1>9, FirstTurns DEF Fitted, Announced

-----------------------------------------------------------------------------
\* The login.

\* A login goes on: it is no probe, and the walk has not begun.
Entering(k) == Going(k) /\ ~Stored(k) /\ ~k.secProbe

\* The first reply is kept for a second.
LEMMA RespSetupTurns ==
  ASSUME NEW k, Placid(k), Entering(k), NEW eval
  PROVE  Turned(multi_resp_setup(k, eval), 0)
<1> DEFINE n == multi_resp_setup(k, eval)
<1>1. n = [k EXCEPT !.multiRespTimer = TRUE, !.multiRespState = "READ_ONE",
                    !.multiRespEval = eval]
  BY DEF Placid, Waits, multi_resp_setup
<1> HIDE DEF n
<1>2. /\ TurnFields \subseteq DOMAIN n /\ Up(n) /\ n.conn = "up" /\ n.sent = <<>>
      /\ ~n.savedReqTimer /\ n.state # "S_QUIT_SENT" /\ Entering(n)
      /\ Len(n.sent) = 0 /\ ~Listed(n)
  BY <1>1 DEF Placid, TurnFields, Up, Entering, Going, Stored, Listed
<1>3. OneTurn(n, 0) /\ Secured(n, 0) /\ Provided(n, 0) /\ Walked(n, 0) /\ Remembered(n, 0)
  BY <1>1, <1>2 DEF Placid, Tame, TurnFields, OneTurn, Secured, Provided, Walked, Remembered,
         Entering, Going, Heading, Later, Waits, LoginStates
<1>4. QED
  BY <1>2, <1>3 DEF Turned, Passed, InTurn, Tame, Up, Excused, Walked, Entering, Going, n

\* It is evaluated when the second is over.
LEMMA RespEndTurns ==
  ASSUME NEW k, TurnFields \subseteq DOMAIN k, Up(k), k.conn = "up", k.sent = <<>>,
         ~k.savedReqTimer, k.state # "S_QUIT_SENT", ~k.resetWaitTimer, ~k.retrWaitTimer,
         k.delayedCtrlCB \notin {"read_retr_done", "read_list_done"},
         Entering(k), Tame(k, 0)
  PROVE  LET n == multi_resp_end(k)
         IN Placid(n) /\ Entering(n) /\ n.ctrlUsingSec = k.ctrlUsingSec
<1> DEFINE n == multi_resp_end(k)
<1>1. n = [k EXCEPT !.multiRespTimer = FALSE, !.multiRespState = "UNK",
                    !.multiRespEval = "none"]
  BY DEF multi_resp_end
<1> HIDE DEF n
<1>2. /\ TurnFields \subseteq DOMAIN n /\ Up(n) /\ n.conn = "up" /\ n.sent = <<>>
      /\ ~n.savedReqTimer /\ n.state # "S_QUIT_SENT" /\ Entering(n) /\ ~Waits(n)
      /\ n.ctrlUsingSec = k.ctrlUsingSec
  BY <1>1 DEF TurnFields, Up, Entering, Going, Stored, Waits
<1>3. OneTurn(n, 0) /\ Secured(n, 0) /\ Provided(n, 0) /\ Walked(n, 0) /\ Remembered(n, 0)
  BY <1>1, <1>2 DEF Tame, TurnFields, OneTurn, Secured, Provided, Walked, Remembered,
         Entering, Going, Heading, Later, Waits, LoginStates
<1>4. QED
  BY <1>2, <1>3 DEF Placid, Tame, n

\* A login that was refused is asked about in a second.
LEMMA ResetTurns ==
  ASSUME NEW k, Placid(k), Entering(k), k.terminationCode \notin {"UNSET", "SUCCESS_EXIT"}
  PROVE  Turned(reset_wait_setup(k), 0)
<1> DEFINE n == reset_wait_setup(k)
<1>1. n = [k EXCEPT !.state = "S_RESET_WAIT", !.resetWaitTimer = TRUE]
  BY DEF Placid, Waits, reset_wait_setup, enter
<1> HIDE DEF n
<1>2. /\ TurnFields \subseteq DOMAIN n /\ Up(n) /\ n.conn = "up" /\ n.sent = <<>>
      /\ ~n.savedReqTimer /\ n.state = "S_RESET_WAIT" /\ Entering(n)
      /\ Len(n.sent) = 0 /\ ~Listed(n)
      /\ n.terminationCode \notin {"UNSET", "SUCCESS_EXIT"}
  BY <1>1 DEF Placid, TurnFields, Up, Entering, Going, Stored, Listed
<1>3. OneTurn(n, 0) /\ Secured(n, 0) /\ Provided(n, 0) /\ Walked(n, 0) /\ Remembered(n, 0)
  BY <1>1, <1>2 DEF Placid, Tame, TurnFields, OneTurn, Secured, Provided, Walked, Remembered,
         Entering, Going, Heading, Later, Waits, Auths, LoginStates
<1>4. QED
  BY <1>2, <1>3 DEF Turned, Passed, InTurn, Tame, Up, Excused, Walked, Entering, Going, n

\* The host whose login is evaluated.
Answered(k) ==
  /\ TurnFields \subseteq DOMAIN k /\ Up(k) /\ k.conn = "up" /\ k.sent = <<>>
  /\ ~k.savedReqTimer /\ k.state # "S_QUIT_SENT" /\ ~k.resetWaitTimer /\ ~k.retrWaitTimer
  /\ k.delayedCtrlCB \notin {"read_retr_done", "read_list_done"}
  /\ Entering(k) /\ Tame(k, 0)

LEMMA FailTurns ==
  ASSUME NEW k, Placid(k), Entering(k), NEW code, code \notin {"UNSET", "SUCCESS_EXIT"}
  PROVE  Turned(setup_middle(fail(k, code)), 0) /\ Turned(reset_wait_setup(fail(k, code)), 0)
<1> DEFINE n == fail(k, code)
<1>1. n.secProbe = k.secProbe
  BY DEF fail, Placid, TurnFields
<1>2. Placid(n) /\ n.terminationCode = code /\ Entering(n)
  BY <1>1, PlacidFail DEF Entering
<1> HIDE DEF n
<1>3. Turned(setup_middle(n), 0) /\ Turned(reset_wait_setup(n), 0)
  BY <1>2, SetupMiddleTurns, ResetTurns DEF Entering
<1>4. QED
  BY <1>3 DEF n

LEMMA UserEvalTurns ==
  ASSUME NEW g, Answered(g), NEW id \in UserIDs,
         id \in {"TLS", "Early_Sec_Req"} => ~g.ctrlUsingSec
  PROVE  Turned(read_user_resp_eval(g, id), 0)
<1> DEFINE k == multi_resp_end(g)
<1>1. Placid(k) /\ Entering(k) /\ k.ctrlUsingSec = g.ctrlUsingSec
  BY RespEndTurns DEF Answered
<1>2. read_user_resp_eval(g, id) =
        CASE id = "Virtual_Sites" -> pleasant(k, "FAIL_VIRTUAL_SITES")
          [] id = "TLS" -> sec_check(k, "send_user")
          [] id = "Reject" -> setup_middle(fail(k, "FAIL_USER_REJECTED"))
          [] id = "No_Pass" -> logged_in(k)
          [] id = "Accept_User" -> send_pass(k)
          [] id = "Early_Sec_Req" -> handle_early_sec_req(k)
          [] id = "Bad_Config" -> setup_middle(fail(k, "FAIL_BAD_USER_CONFIG"))
          [] id = "Extra" -> pleasant(k, "FAIL_EXTRA_RESP")
          [] id = "Unexpected" -> unexpected_reply(k, "FAIL_USER_RET")
  BY DEF read_user_resp_eval
<1> HIDE DEF k
<1>3. \A code : Turned(pleasant(k, code), 0) /\ Turned(unexpected_reply(k, code), 0)
  BY <1>1, PleasantTurns DEF Entering, unexpected_reply
<1>4. /\ Turned(setup_middle(fail(k, "FAIL_USER_REJECTED")), 0)
      /\ Turned(setup_middle(fail(k, "FAIL_BAD_USER_CONFIG")), 0)
  BY <1>1, FailTurns
<1>5. Turned(logged_in(k), 0) /\ Turned(send_pass(k), 0)
  BY <1>1, LoggedInTurns, SendLoginTurns DEF Entering
<1>6. id = "TLS" => Turned(sec_check(k, "send_user"), 0)
  BY <1>1, SecCheckTurns DEF Entering
<1>7. id = "Early_Sec_Req" => Turned(handle_early_sec_req(k), 0)
  <2>1. /\ Calm(k) /\ k.sent = <<>> /\ Tame(k, 0)
        /\ k.delayedCtrlCB \notin {"read_retr_done", "read_list_done"}
    BY <1>1, PlacidCalm DEF Placid, Waits
  <2>2. QED
    BY <1>1, <2>1, EarlySecTurns DEF Entering
<1>8. QED
  BY <1>2, <1>3, <1>4, <1>5, <1>6, <1>7 DEF UserIDs

LEMMA PassEvalTurns ==
  ASSUME NEW g, Answered(g), NEW id \in PassIDs
  PROVE  Turned(read_pass_resp_eval(g, id), 0)
<1> DEFINE k == multi_resp_end(g)
<1>1. Placid(k) /\ Entering(k)
  BY RespEndTurns DEF Answered
<1>2. read_pass_resp_eval(g, id) =
        CASE id = "Firewall" -> pleasant(k, "FAIL_FIREWALL_AUTH")
          [] id = "OK" -> logged_in(IF k.secProbe THEN pleasant(k, "SUCCESS_EXIT") ELSE k)
          [] id = "Reject" -> reset_wait_setup(fail(k, "FAIL_PASS_REJECTED"))
          [] id = "Bftpd_Crash" -> abrupt(k, "FAIL_BFTPD_CRASH")
          [] id = "Child_Died" -> abrupt(k, "FAIL_PASS_CHILD_DIED")
          [] id = "No_Entry" -> abrupt(k, "FAIL_PASS_NO_ENTRY")
          [] id = "Extra" -> pleasant(k, "FAIL_EXTRA_RESP")
          [] id = "Unexpected" -> unexpected_reply(k, "FAIL_PASS_OK")
  BY DEF read_pass_resp_eval
<1> HIDE DEF k
<1>3. \A code : Turned(pleasant(k, code), 0) /\ Turned(unexpected_reply(k, code), 0)
  BY <1>1, PleasantTurns DEF Entering, unexpected_reply
<1>4. \A code : code # "SUCCESS_EXIT" => Turned(abrupt(k, code), 0)
  BY <1>1, PlacidCalm, AbruptTurns DEF Stopped
<1>5. Turned(reset_wait_setup(fail(k, "FAIL_PASS_REJECTED")), 0)
  BY <1>1, FailTurns
<1>6. Turned(logged_in(IF k.secProbe THEN pleasant(k, "SUCCESS_EXIT") ELSE k), 0)
  BY <1>1, LoggedInTurns DEF Entering
<1>7. QED
  BY <1>2, <1>3, <1>4, <1>5, <1>6 DEF PassIDs

LEMMA LoginTurns ==
  ASSUME NEW k, Placid(k), Entering(k), k.multiRespState = "READ_ZERO",
         NEW r, Alone(r), NEW id
  PROVE  Turned(read_user_resp(k, r, id), 0) /\ Turned(read_pass_resp(k, r, id), 0)
<1>1. Turned(multi_resp_setup(k, "user"), 0) /\ Turned(multi_resp_setup(k, "pass"), 0)
  BY RespSetupTurns
<1>2. Turned(k, 0) /\ (r.size = "ERROR" => Turned(abrupt(k, r.kind), 0)) /\ ~k.hostIsFinished
  BY PlacidTurned, PlacidCalm, AbruptTurns DEF Stopped, Alone, Placid, Up
<1>3. ASSUME NEW extra, NEW found, Turned(found, 0)
      PROVE  Turned(parse_response(k, r, extra, found), 0)
  BY <1>2, <1>3 DEF parse_response, Alone
<1>4. /\ Turned(parse_response(k, r, read_user_resp_eval(k, id), multi_resp_setup(k, "user")), 0)
      /\ Turned(parse_response(k, r, read_pass_resp_eval(k, id), multi_resp_setup(k, "pass")), 0)
  BY <1>1, <1>3
<1>5. QED
  BY <1>4 DEF read_user_resp, read_pass_resp

-----------------------------------------------------------------------------
\* The end of a crawl.

LEMMA EndingTurns ==
  ASSUME NEW k, Placid(k), Going(k), ~Stored(k)
  PROVE  Turned(ending(k), 0)
BY PleasantTurns, SetupEndingTurns DEF ending

LEMMA PortTurns ==
  ASSUME NEW k, Placid(k), Going(k), ~Stored(k), NEW r, Alone(r),
         r.size = "FOUND" => r.kind \in {"ok", "no", "odd"}
  PROVE  Turned(read_port_resp(k, r), 0) /\ Turned(read_port_list_done(k, r), 0)
<1>1. Turned(send_port_list(k), 0)
  <2> DEFINE a == ask(k, "S_PORT_LIST_SENT", "PORT_LIST")
             n == [a EXCEPT !.xferType = "XFER_LIST"]
  <2>1. Turned(a, 0)
    BY WalkAsks DEF ReplyStates, LoginStates, Auths
  <2> HIDE DEF a
  <2>2. Unturned(a, n)
    BY <2>1 DEF Turned, Passed, InTurn, Unturned, TurnFields
  <2> HIDE DEF n
  <2>3. Turned(n, 0)
    BY <2>1, <2>2, UnturnedSame
  <2>4. QED
    BY <2>3 DEF send_port_list, n, a
<1>2. Turned(ending(k), 0) /\ Turned(unexpected_reply(k, "FAIL_UNK_BOUNCE_RESP"), 0)
  BY EndingTurns, PleasantTurns DEF unexpected_reply
<1>3. Turned(read_port_resp(k, r), 0)
  BY <1>1, <1>2, SingleTurns DEF read_port_resp
<1>4. Turned(read_port_list_done(k, r), 0)
  BY <1>2, SingleTurns DEF read_port_list_done
<1>5. QED
  BY <1>3, <1>4

LEMMA PortListTurns ==
  ASSUME NEW k, Placid(k), Going(k), ~Stored(k), NEW r, NEW c, Announced(r, c)
  PROVE  Turned(read_port_list_resp(k, r, c.more), Still(r))
<1> DEFINE x == [k EXCEPT !.state = "S_PORT_LIST_XFER"]
           found == CASE r.kind # "ok" -> unexpected_reply(k, "FAIL_BAD_PORT_LIST_RESP")
                      [] r.kind = "ok" /\ r.size = "EXTRA" -> read_port_list_done(x, c.more)
                      [] r.kind = "ok" /\ r.size # "EXTRA" -> x
<1>1. /\ TurnFields \subseteq DOMAIN x /\ Up(x) /\ x.conn = "up" /\ x.sent = <<>>
      /\ ~x.savedReqTimer /\ ~Waits(x) /\ x.state = "S_PORT_LIST_XFER" /\ ~Stored(x)
      /\ Len(x.sent) = 0 /\ ~Listed(x) /\ Going(x)
  BY DEF Placid, TurnFields, Up, Waits, Stored, Listed, Going
<1>2. ASSUME NEW w \in {0, 1}
      PROVE  OneTurn(x, w) /\ Secured(x, w) /\ Provided(x, w) /\ Walked(x, w) /\ Remembered(x, w)
  BY <1>1 DEF Placid, Tame, TurnFields, OneTurn, Secured, Provided, Walked, Remembered,
         Going, Heading, Later, Waits, Auths, LoginStates
<1>3. Placid(x) /\ Turned(x, 1)
  BY <1>1, <1>2 DEF Placid, Turned, Passed, InTurn, Tame, Up, Excused, Walked
<1>4. read_port_list_resp(k, r, c.more) = parse_first(k, r, found)
  BY DEF read_port_list_resp, enter
<1> HIDE DEF x
<1>5. Turned(read_port_list_done(x, c.more), 0)
  BY <1>1, <1>3, PortTurns DEF Announced
<1>6. Turned(unexpected_reply(k, "FAIL_BAD_PORT_LIST_RESP"), 0)
  BY PleasantTurns DEF unexpected_reply
<1>7. r.size # "ERROR" => Turned(found, Still(r))
  <2>1. r.size = "EXTRA" => Still(r) = 0
    BY DEF Still
  <2>2. r.size = "FOUND" /\ r.kind = "ok" => Still(r) = 1
    BY DEF Still, Announced
  <2>3. r.kind # "ok" => Still(r) = 0
    BY DEF Still
  <2>4. QED
    BY <1>3, <1>5, <1>6, <2>1, <2>2, <2>3 DEF Announced
<1> HIDE DEF found
<1>8. QED
  BY <1>4, <1>7, FirstTurns DEF Announced

\* The reply to QUIT is the last.
LEMMA GoodbyeTurns ==
  ASSUME NEW k, Calm(k), k.state = "S_QUIT_SENT", k.sent = <<>>, NEW w, Tame(k, w),
         NEW r, Alone(r), r.size # "INCOMPLETE"
  PROVE  Turned(read_quit_resp(k, r), 0) /\ read_quit_resp(k, r).sent = <<>>
<1> DEFINE n == [k EXCEPT !.state = "S_QUIT_ACK", !.result = "PLEASANT"]
           found == IF r.kind = "ok"
                    THEN end_channel_now([enter(k, "S_QUIT_ACK") EXCEPT !.result = "PLEASANT"])
                    ELSE disconnect_abrupt(k)
<1>1. Stored(k) => /\ k.terminationCode # "SUCCESS_EXIT"
                   /\ k.terminationCode \in {k.secProbeStorage, "FAIL_PBSZ_OK"}
  BY DEF Tame, Remembered, Heading
<1>2. Stopped(n, end_channel_now(n)) /\ n.sent = <<>>
  <2>1. Calm(n) /\ Judged(n) /\ n.sent = <<>>
    BY <1>1 DEF Calm, TurnFields, Up, Judged, Stored, Listed
  <2>2. QED
    BY <2>1, EndTurns
<1>3. Stopped(k, disconnect_abrupt(k))
  BY <1>1, DisconnectTurns DEF disconnect_abrupt
<1>4. r.size = "ERROR" => Stopped(k, abrupt(k, r.kind))
  BY AbruptTurns DEF Alone
<1>5. Turned(found, 0) /\ found.sent = <<>>
  <2>1. [enter(k, "S_QUIT_ACK") EXCEPT !.result = "PLEASANT"] = n
    BY DEF enter
  <2> HIDE DEF n
  <2>2. QED
    BY <1>2, <1>3, <2>1 DEF Stopped
<1>6. read_quit_resp(k, r) = single(k, r, found)
  BY DEF read_quit_resp
<1> HIDE DEF found
<1>7. QED
  BY <1>4, <1>5, <1>6 DEF single, parse_response, Alone, Calm, Up, Stopped

-----------------------------------------------------------------------------
\* The read callback.

\* A server that answers requests, one reply to each.
Orderly ==
  Surprises \subseteq {"drop", "overflow", "early_read", "data_first", "late_data"}

\* What such a server can say to a host.
Told(k, c) ==
  /\ c.r.size \in {"FOUND", "EXTRA", "ERROR"} /\ DOMAIN c.r = {"size", "kind"}
  /\ c.r = [size |-> c.r.size, kind |-> c.r.kind]
  /\ c.r.size = "EXTRA" => c.r.kind = "ok" /\ k.state \in Announcing
  /\ c.r.size = "FOUND" => c.r.kind \in Kinds(k)
  /\ c.r.size = "ERROR" => c.r.kind \in {"FAIL_TRAP_CTRL_AMT", "FAIL_NULL_IN_RESP"}
  /\ Alone(c.more)
  /\ c.more.size = "FOUND" /\ k.state # "S_CONNECTED" => c.more.kind \in {"ok", "no", "odd"}
  /\ c.over => Rude("overflow")

LEMMA RepliesTold ==
  ASSUME Orderly, NEW k, NEW r \in Replies(k)
  PROVE  /\ r.size \in {"FOUND", "EXTRA", "ERROR"} /\ DOMAIN r = {"size", "kind"}
         /\ r = [size |-> r.size, kind |-> r.kind]
         /\ r.size = "EXTRA" => r.kind = "ok" /\ k.state \in Announcing
         /\ r.size = "FOUND" => r.kind \in Kinds(k)
         /\ r.size = "ERROR" => r.kind \in {"FAIL_TRAP_CTRL_AMT", "FAIL_NULL_IN_RESP"}
<1>1. ~Rude("unsolicited")
  BY DEF Orderly, Rude
<1>2. \/ r \in Found(Kinds(k)) \/ r \in Bad
      \/ r \in Extra({"ok"}) /\ k.state \in Announcing
  BY <1>1 DEF Replies
<1>3. CASE r \in Found(Kinds(k))
  BY <1>3 DEF Found
<1>4. CASE r \in Bad
  BY <1>4 DEF Bad
<1>5. CASE r \in Extra({"ok"}) /\ k.state \in Announcing
  BY <1>5 DEF Extra
<1>6. QED
  BY <1>2, <1>3, <1>4, <1>5

LEMMA MoresTold ==
  ASSUME Orderly, NEW k, NEW r, NEW more \in Mores(k, r)
  PROVE  /\ Alone(more)
         /\ more.size = "FOUND" /\ k.state # "S_CONNECTED" => more.kind \in {"ok", "no", "odd"}
<1>1. ~Rude("unsolicited")
  BY DEF Orderly, Rude
<1> DEFINE kinds == IF k.state = "S_CONNECTED" THEN {"ok", "early_sec"}
                    ELSE IF k.item = "robots" THEN {"ok", "no", "odd"} ELSE {"ok", "no"}
<1>2. more = Wait \/ more \in Bad \/ more \in Found(kinds)
  BY <1>1 DEF Mores
<1>3. CASE more = Wait
  BY <1>3 DEF Wait, Alone
<1>4. CASE more \in Bad
  BY <1>4 DEF Bad, Alone
<1>5. CASE more \in Found(kinds)
  <2>1. k.state # "S_CONNECTED" => kinds \subseteq {"ok", "no", "odd"}
    OBVIOUS
  <2> HIDE DEF kinds
  <2>2. QED
    BY <1>5, <2>1 DEF Found, Alone
<1>6. QED
  BY <1>2, <1>3, <1>4, <1>5

\* The host that a reply finds: it is its turn, and it is in the state to take it.
LEMMA AnswerTurns ==
  ASSUME NEW k, Start(k), TurnFields \subseteq DOMAIN k, Tame(k, 1), k.state # "S_QUIT_SENT"
  PROVE  /\ Placid(k) /\ k.listErrCount # LIST_ERROR_CUTOFF /\ k.delayedCtrlCB = "none"
         /\ k.state # "S_LIST_XFER" => Going(k)
         /\ k.state \notin SecPhase => ~Stored(k)
         /\ k.state \in Auths \cup {"S_CONNECTED"} => ~k.ctrlUsingSec
         /\ k.state \in SecPhase => k.postSecConnectCB \in SecCallbacks
         /\ k.state \in LoginStates => Entering(k) /\ k.multiRespState = "READ_ZERO"
         /\ k.state = "S_PASV_SENT" => ~k.dataBev
         /\ k.state \in {"S_RETR_SENT", "S_RETR_XFER"}
              => k.pasvPost \in {"send_syst", "short_scan_ending"}
         /\ k.state \in {"S_LIST_SENT", "S_LIST_XFER"}
              => k.pasvPost \in {"walk_dir", "disconnect_pleasant"}
         /\ k.state \in {"S_RETR_SENT", "S_LIST_SENT"} => Fitted(k)
         /\ k.state \in States \ {"S_INITIAL", "S_QUIT_ACK"}
<1>1. /\ Shaped(k) /\ Up(k) /\ Channelled(k) /\ Walking(k) /\ Transferring(k) /\ k.sent = <<>>
  BY DEF Start, Sound
<1>2. k.conn = "up" /\ ~k.savedReqTimer /\ ~Waits(k)
  BY DEF Tame, OneTurn
<1>3. Placid(k)
  <2>1. OneTurn(k, 0) /\ Secured(k, 0) /\ Provided(k, 0) /\ Walked(k, 0) /\ Remembered(k, 0)
    BY DEF Tame, OneTurn, Secured, Provided, Walked, Remembered
  <2>2. QED
    BY <1>1, <1>2, <2>1 DEF Placid, Tame
<1>4. k.listErrCount # LIST_ERROR_CUTOFF /\ (k.state # "S_LIST_XFER" => Going(k))
  BY DEF Tame, Walked, Going
<1>5. k.delayedCtrlCB = "none"
  BY <1>1, <1>2 DEF Shaped, Channelled, Waits
<1>6. k.state \notin SecPhase => ~Stored(k)
  BY DEF Tame, Remembered
<1>7. k.state \in Auths \cup {"S_CONNECTED"} => ~k.ctrlUsingSec
  BY DEF Tame, Secured, Heading
<1>8. k.state \in SecPhase => k.postSecConnectCB \in SecCallbacks
  BY <1>1 DEF Shaped, Channelled, Heading, SecCallbacks
<1>9. k.state \in LoginStates => Entering(k) /\ k.multiRespState = "READ_ZERO"
  BY <1>4, <1>6 DEF Tame, Secured, Provided, Entering, LoginStates, SecPhase, Handshakes
<1>10. k.state = "S_PASV_SENT" => ~k.dataBev
  BY <1>1 DEF Transferring
<1>11. k.state \in {"S_RETR_SENT", "S_RETR_XFER"}
         => k.pasvPost \in {"send_syst", "short_scan_ending"}
  BY <1>1 DEF Walking, Heading
<1>12. k.state \in {"S_LIST_SENT", "S_LIST_XFER"}
         => k.pasvPost \in {"walk_dir", "disconnect_pleasant"}
  BY <1>1 DEF Walking, Heading
<1>13. k.state \in {"S_RETR_SENT", "S_LIST_SENT"} => Fitted(k)
  <2>1. k.state \in {"S_RETR_SENT", "S_LIST_SENT"} => Rude("data_first") \/ k.dataBev
    BY DEF Tame, Provided
  <2>2. k.ctrlUsingSec => k.secType # "SEC_UNK"
    BY <1>1 DEF Channelled
  <2>3. QED
    BY <1>3, <1>4, <1>5, <1>6, <1>11, <1>12, <2>1, <2>2 DEF Fitted, SecPhase, Handshakes
<1>14. k.state \in States \ {"S_INITIAL", "S_QUIT_ACK"}
  BY <1>1, <1>2 DEF Shaped, Channelled
<1>15. QED
  BY <1>3, <1>4, <1>5, <1>6, <1>7, <1>8, <1>9, <1>10, <1>11, <1>12, <1>13, <1>14

\* What is still owed after a reply.
Rest(k, r) == IF Settles(k, r) THEN 0 ELSE 1

LEMMA RestIs ==
  ASSUME NEW k, NEW r
  PROVE  /\ k.state \in Announcing => Rest(k, r) = Still(r)
         /\ k.state \notin Announcing => Rest(k, r) = 0
BY DEF Rest, Settles, Still

\* The replies to HELP, FEAT, STAT and SITE.
LEMMA HelpTurns ==
  ASSUME NEW k, Placid(k), Going(k), ~Stored(k), NEW r, Alone(r)
  PROVE  /\ Turned(single(k, r, send_feat(k)), 0) /\ Turned(single(k, r, send_stat(k)), 0)
         /\ Turned(single(k, r, send_site(k)), 0) /\ Turned(single(k, r, send_port(k)), 0)
<1>1. /\ Turned(ask(k, "S_FEAT_SENT", "FEAT"), 0) /\ Turned(ask(k, "S_STAT_SENT", "STAT"), 0)
      /\ Turned(ask(k, "S_SITE_SENT", "SITE"), 0) /\ Turned(ask(k, "S_PORT_SENT", "PORT"), 0)
  BY WalkAsks DEF ReplyStates, LoginStates, Auths
<1>2. /\ Turned(send_feat(k), 0) /\ Turned(send_stat(k), 0)
      /\ Turned(send_site(k), 0) /\ Turned(send_port(k), 0)
  BY <1>1 DEF send_feat, send_stat, send_site, send_port
<1>3. QED
  BY <1>2, SingleTurns

\* Whatever is asked of the server in its state, its reply passes the turn on.
LEMMA HandlerTurns ==
  ASSUME Orderly, NEW k, Start(k), TurnFields \subseteq DOMAIN k, Tame(k, 1),
         k.state \notin {"S_QUIT_SENT", "S_DATA_CONN"}, NEW c, Told(k, c)
  PROVE  Turned(read_handler(k, c), Rest(k, c.r))
<1>1. Placid(k) /\ k.delayedCtrlCB = "none" /\ k.listErrCount # LIST_ERROR_CUTOFF
  BY AnswerTurns
<1>2. /\ k.state # "S_LIST_XFER" => Going(k)
      /\ k.state \notin SecPhase => ~Stored(k)
      /\ k.state \in Auths \cup {"S_CONNECTED"} => ~k.ctrlUsingSec
      /\ k.state \in SecPhase => k.postSecConnectCB \in SecCallbacks
      /\ k.state \in States \ {"S_INITIAL", "S_QUIT_ACK"}
  BY AnswerTurns
<1>3. /\ k.state \notin Announcing => Alone(c.r) /\ Rest(k, c.r) = 0
      /\ k.state \in Announcing => Rest(k, c.r) = Still(c.r)
  BY RestIs DEF Told, Alone
<1>4. c.r.size = "FOUND" => c.r.kind \in Kinds(k)
  BY DEF Told
<1>5. ~Rude("logged_now")
  BY DEF Orderly, Rude
<1>6. k.state \in Announcing => Announced(c.r, c)
  <2>1. k.state \in Announcing => k.state # "S_CONNECTED" /\ Kinds(k) \subseteq {"ok", "no", "odd"}
    BY DEF Announcing, Kinds
  <2>2. QED
    BY <1>4, <2>1 DEF Told, Announced
<1>7. CASE k.state = "S_CONNECTED"
  <2>1. ~Stored(k) /\ Going(k) /\ ~k.ctrlUsingSec /\ Alone(c.r) /\ Rest(k, c.r) = 0
    BY <1>2, <1>3, <1>7 DEF SecPhase, Handshakes, Announcing
  <2>2. c.r.size = "FOUND" => c.r.kind # "SUCCESS_EXIT"
    BY <1>4, <1>7 DEF Kinds
  <2>3. QED
    BY <1>1, <1>7, <2>1, <2>2, BannerTurns DEF read_handler
<1>8. CASE k.state \in LoginStates
  <2>1. Entering(k) /\ k.multiRespState = "READ_ZERO"
    BY <1>8, AnswerTurns
  <2>2. Alone(c.r) /\ Rest(k, c.r) = 0
    BY <1>3, <1>8 DEF LoginStates, Announcing
  <2>3. Turned(read_user_resp(k, c.r, c.id), 0) /\ Turned(read_pass_resp(k, c.r, c.id), 0)
    BY <1>1, <2>1, <2>2, LoginTurns
  <2>4. QED
    BY <1>8, <2>2, <2>3 DEF read_handler, LoginStates
<1>9. CASE k.state \in {"S_SYST_SENT", "S_PWD_SENT"}
  <2>1. ~Stored(k) /\ Going(k) /\ Alone(c.r) /\ Rest(k, c.r) = 0
    BY <1>2, <1>3, <1>9 DEF SecPhase, Handshakes, Announcing
  <2>2. Turned(read_syst_resp(k, c.r), 0) /\ Turned(read_pwd_resp(k, c.r, c.skip), 0)
    BY <1>1, <2>1, SystPwdTurns
  <2>3. QED
    BY <1>9, <2>1, <2>2 DEF read_handler
<1>10. CASE k.state = "S_PASV_SENT"
  <2>1. ~Stored(k) /\ Going(k) /\ Alone(c.r) /\ Rest(k, c.r) = 0 /\ ~k.dataBev
    BY <1>2, <1>3, <1>10, AnswerTurns DEF SecPhase, Handshakes, Announcing
  <2>2. c.r.size = "FOUND" => c.r.kind \in {"ok", "no", "odd"}
    BY <1>4, <1>10 DEF Kinds
  <2>3. QED
    BY <1>1, <1>10, <2>1, <2>2, PasvTurns DEF read_handler
<1>11. CASE k.state = "S_RETR_SENT"
  <2>1. Fitted(k) /\ Going(k) /\ Announced(c.r, c) /\ Rest(k, c.r) = Still(c.r)
    BY <1>2, <1>3, <1>6, <1>11, AnswerTurns DEF Announcing
  <2>2. QED
    BY <1>11, <2>1, RetrTurns DEF read_handler, Going
<1>12. CASE k.state = "S_RETR_XFER"
  <2>1. ~Stored(k) /\ Going(k) /\ Alone(c.r) /\ Rest(k, c.r) = 0
    BY <1>2, <1>3, <1>12 DEF SecPhase, Handshakes, Announcing
  <2>2. k.pasvPost \in {"send_syst", "short_scan_ending"}
    BY <1>12, AnswerTurns
  <2>3. c.r.size = "FOUND" => c.r.kind \in {"ok", "no", "odd"}
    BY <1>4, <1>12 DEF Kinds
  <2>4. Onwards(k)
    BY <1>1, <2>1, <2>2 DEF Onwards, Going
  <2>5. Turned(read_retr_done(k, c.r, c), 0)
    BY <2>1, <2>3, <2>4, RetrDoneTurns
  <2>6. QED
    BY <1>12, <2>1, <2>5 DEF read_handler
<1>13. CASE k.state = "S_LIST_SENT"
  <2>1. Fitted(k) /\ Going(k) /\ Announced(c.r, c) /\ Rest(k, c.r) = Still(c.r)
        /\ k.pasvPost \in {"walk_dir", "disconnect_pleasant"}
    BY <1>2, <1>3, <1>6, <1>13, AnswerTurns DEF Announcing
  <2>2. QED
    BY <1>13, <2>1, ListTurns DEF read_handler, Going
<1>14. CASE k.state = "S_LIST_XFER"
  <2>1. ~Stored(k) /\ Alone(c.r) /\ Rest(k, c.r) = 0 /\ k.state \notin LoginStates
    BY <1>2, <1>3, <1>14 DEF SecPhase, Handshakes, Announcing, LoginStates
  <2>2. k.pasvPost \in {"walk_dir", "disconnect_pleasant"}
    BY <1>14, AnswerTurns
  <2>3. Onwards(k)
    BY <1>1, <2>1, <2>2 DEF Onwards
  <2>4. Turned(read_list_done(k, c.r, c), 0)
    BY <2>1, <2>2, <2>3, ListDoneTurns
  <2>5. QED
    BY <1>14, <2>1, <2>4 DEF read_handler
<1>15. CASE k.state \in {"S_HELP_SENT", "S_FEAT_SENT", "S_STAT_SENT", "S_SITE_SENT"}
  <2>1. ~Stored(k) /\ Going(k) /\ Alone(c.r) /\ Rest(k, c.r) = 0
    BY <1>2, <1>3, <1>15 DEF SecPhase, Handshakes, Announcing
  <2>2. QED
    BY <1>1, <1>15, <2>1, HelpTurns DEF read_handler
<1>16. CASE k.state \in {"S_PORT_SENT", "S_PORT_LIST_XFER"}
  <2>1. ~Stored(k) /\ Going(k) /\ Alone(c.r) /\ Rest(k, c.r) = 0
    BY <1>2, <1>3, <1>16 DEF SecPhase, Handshakes, Announcing
  <2>2. c.r.size = "FOUND" => c.r.kind \in {"ok", "no", "odd"}
    BY <1>4, <1>16 DEF Kinds
  <2>3. Turned(read_port_resp(k, c.r), 0) /\ Turned(read_port_list_done(k, c.r), 0)
    BY <1>1, <2>1, <2>2, PortTurns
  <2>4. QED
    BY <1>16, <2>1, <2>3 DEF read_handler
<1>17. CASE k.state = "S_PORT_LIST_SENT"
  <2>1. ~Stored(k) /\ Going(k) /\ Announced(c.r, c) /\ Rest(k, c.r) = Still(c.r)
    BY <1>2, <1>3, <1>6, <1>17 DEF SecPhase, Handshakes, Announcing
  <2>2. QED
    BY <1>1, <1>17, <2>1, PortListTurns DEF read_handler
<1>18. CASE k.state \in Auths
  <2>1. /\ Going(k) /\ ~k.ctrlUsingSec /\ k.postSecConnectCB \in SecCallbacks
        /\ Alone(c.r) /\ Rest(k, c.r) = 0
    BY <1>2, <1>3, <1>18 DEF SecPhase, Handshakes, Announcing, Auths
  <2>2. c.r.size = "FOUND" => c.r.kind # "503"
    BY <1>4, <1>5, <1>18 DEF Kinds, Auths
  <2>3. Turned(read_auth_tls_resp(k, c.r), 0) /\ Turned(read_auth_ssl_resp(k, c.r), 0)
    BY <1>1, <2>1, <2>2, AuthTurns
  <2>4. QED
    BY <1>18, <2>1, <2>3 DEF read_handler, Auths
<1>19. CASE k.state = "S_SECURITY_CONNECTING"
  <2>1. Stopped(k, abrupt(k, "FAIL_REALLY_BAD_ERROR"))
    BY <1>1, PlacidCalm, AbruptTurns
  <2>2. Turned(abrupt(k, "FAIL_REALLY_BAD_ERROR"), Rest(k, c.r))
    BY <2>1 DEF Stopped
  <2>3. QED
    BY <1>19, <2>2 DEF read_handler
<1>20. CASE k.state \in {"S_PBSZ_INIT_SENT", "S_PROT_SENT"}
  <2>1. /\ Going(k) /\ k.postSecConnectCB \in SecCallbacks
        /\ Alone(c.r) /\ Rest(k, c.r) = 0
    BY <1>2, <1>3, <1>20 DEF SecPhase, Handshakes, Announcing
  <2>2. c.r.size = "FOUND" => c.r.kind \in {"ok", "no"}
    BY <1>4, <1>20 DEF Kinds
  <2>3. Turned(read_pbsz_resp(k, c.r), 0) /\ Turned(read_prot_resp(k, c.r), 0)
    BY <1>1, <2>1, <2>2, PbszProtTurns
  <2>4. QED
    BY <1>20, <2>1, <2>3 DEF read_handler
<1>21. CASE k.state = "S_RESET_WAIT"
  BY <1>1, <1>3, <1>21, PlacidTurned DEF read_handler, Announcing
<1>22. QED
  BY <1>2, <1>7, <1>8, <1>9, <1>10, <1>11, <1>12, <1>13, <1>14, <1>15, <1>16, <1>17,
     <1>18, <1>19, <1>20, <1>21 DEF States, ReplyStates, LoginStates, Auths

\* After the handler, the limit ends the host, and a host that is over is freed.
LEMMA HandledTurns ==
  ASSUME NEW k, NEW b, Turned(k, b)
  PROVE  /\ Passed(handled(k), b) /\ handled(k).sent = k.sent
         /\ Passed(event_handled(k), b) /\ event_handled(k).sent = k.sent
<1> DEFINE n == IF k.reqLimitReached /\ ~k.hostIsFinished THEN disconnect_abrupt(k) ELSE k
<1>1. handled(k) = then_on(k, free_if_finished(n))
      /\ event_handled(k) = then_on(k, free_if_finished(k))
  BY DEF handled, event_handled
<1>2. CASE k.fault # "none"
  <2>1. \A next : then_on(k, next) = k
    BY <1>2 DEF then_on
  <2> HIDE DEF n
  <2>2. QED
    BY <1>1, <2>1 DEF Turned
<1>3. CASE k.fault = "none" /\ k.freed
  <2>1. \A next : then_on(k, next) = crash(k, "use_after_free")
    BY <1>3 DEF then_on
  <2>2. \A next : Turned(then_on(k, next), b)
    BY <1>3, ThenOnTurns
  <2>3. crash(k, "use_after_free").sent = k.sent
    BY DEF crash, Turned, Passed, InTurn, TurnFields
  <2> HIDE DEF n
  <2>4. QED
    BY <1>1, <2>1, <2>2, <2>3 DEF Turned
<1>4. CASE k.fault = "none" /\ ~k.freed
  <2>1. handled(k) = free_if_finished(n) /\ event_handled(k) = free_if_finished(k)
    BY <1>1, <1>4 DEF then_on
  <2>2. Passed(free_if_finished(k), b) /\ free_if_finished(k).sent = k.sent
    BY <1>4, FreedTurns DEF Turned
  <2>3. CASE ~(k.reqLimitReached /\ ~k.hostIsFinished)
    BY <2>1, <2>2, <2>3
  <2>4. CASE k.reqLimitReached /\ ~k.hostIsFinished
    <3> DEFINE m == disconnect_abrupt(k)
    <3>1. Up(k) /\ Calm(k)
      BY <1>4, <2>4 DEF Up, Calm, Turned, Passed, InTurn
    <3>2. Stored(k) => k.terminationCode # "SUCCESS_EXIT"
      BY <3>1 DEF Turned, Passed, InTurn, Tame, Remembered
    <3>3. Stopped(k, m)
      BY <3>1, <3>2, DisconnectTurns DEF disconnect_abrupt
    <3>4. n = m
      BY <2>4
    <3> HIDE DEF m, n
    <3>5. Passed(free_if_finished(m), b) /\ free_if_finished(m).sent = m.sent
      BY <3>3, FreedTurns DEF Stopped, Turned
    <3>6. QED
      BY <2>1, <2>2, <3>3, <3>4, <3>5 DEF Stopped
  <2>5. QED
    BY <2>3, <2>4
<1>5. QED
  BY <1>2, <1>3, <1>4

-----------------------------------------------------------------------------
\* A banner that has come early.

\* The host that reads its banner, and is within its budget.
Brief(k) ==
  /\ {"state", "hostIsFinished", "freed", "reqLimitReached", "numReqSent",
      "savedReqTimer", "sent", "conn"} \subseteq DOMAIN k
  /\ k.state = "S_CONNECTED" /\ ~k.hostIsFinished /\ ~k.freed /\ ~k.savedReqTimer
  /\ k.reqLimitReached => k.numReqSent = maxReqPerIp

\* The limit, or the end, leaves the host where it was.
Stays(m) == m.reqLimitReached \/ m.hostIsFinished => m.state = "S_CONNECTED"

LEMMA AskStays ==
  ASSUME NEW k, Brief(k), NEW next, NEW req
  PROVE  Stays(ask(k, next, req))
<1> DEFINE n == new_second(k)
           m == ask(k, next, req)
<1> SUFFICES Stays(m)
  OBVIOUS
<1>1. m = sendSpigot(k, TRUE, next, req)
  BY DEF ask, Brief
<1>2. n = k \/ n = [k EXCEPT !.tick = FALSE, !.reqThisSecond = 0]
  BY DEF new_second
<1>3. \/ m = hit_limit(k)
      \/ m = arm(n, next, req)
      \/ m = count([n EXCEPT !.sent = Append(@, req), !.state = next]) /\ ~limit_hit(k)
  BY <1>1 DEF Brief, sendSpigot, transmit, change_state
<1>4. ~limit_hit(k) => ~k.reqLimitReached
  BY HostStateAssumption DEF Brief, limit_hit
<1> HIDE DEF m
<1>5. CASE m = hit_limit(k)
  BY <1>5 DEF Brief, Stays, hit_limit
<1>6. CASE m = arm(n, next, req)
  BY <1>2, <1>6 DEF Brief, Stays, arm
<1>7. CASE m = count([n EXCEPT !.sent = Append(@, req), !.state = next]) /\ ~limit_hit(k)
  <2>1. m.reqLimitReached = n.reqLimitReached /\ m.hostIsFinished = n.hostIsFinished
    BY <1>2, <1>7 DEF Brief, count
  <2>2. n.reqLimitReached = k.reqLimitReached /\ n.hostIsFinished = k.hostIsFinished
    BY <1>2 DEF Brief
  <2>3. QED
    BY <1>4, <1>7, <2>1, <2>2 DEF Brief, Stays
<1>8. QED
  BY <1>3, <1>5, <1>6, <1>7

\* So it is with all that the banner can lead to.
LEMMA EndsStay ==
  ASSUME NEW k, Brief(k), NEW code, NEW after
  PROVE  /\ Stays(abrupt(k, code)) /\ Stays(pleasant(k, code))
         /\ Stays(sec_check(k, after)) /\ Stays(send_user(k))
         /\ Stays(setup_middle(fail(k, code)))
<1> DEFINE f == fail(k, code)
           a == [k EXCEPT !.postSecConnectCB = after]
           u == multi_resp_init(k)
           s == [f EXCEPT !.secProbe = TRUE, !.secProbeStorage = f.terminationCode]
           p == [s EXCEPT !.postSecConnectCB = "post_middle"]
<1>1. f = [k EXCEPT !.terminationCode = code] /\ u = [k EXCEPT !.multiRespState = "READ_ZERO"]
  BY DEF fail, multi_resp_init
<1>2. Brief(f) /\ Brief(a) /\ Brief(u)
  BY <1>1 DEF Brief
<1>3. Brief(s) /\ Brief(p)
  <2> HIDE DEF f
  <2>1. Brief(s)
    BY <1>2 DEF Brief
  <2> HIDE DEF s
  <2>2. QED
    BY <2>1 DEF Brief
<1>4. \A x : Brief(x) => Stays(disconnect_pleasant(x))
  <2>1. SUFFICES ASSUME NEW x, Brief(x) PROVE Stays(disconnect_pleasant(x))
    OBVIOUS
  <2> DEFINE n == note_last_state(x)
             last == IF x.lastState = "S_UNSET_STATE" THEN x.state ELSE x.lastState
  <2>2. n = [x EXCEPT !.lastState = last]
    BY DEF note_last_state
  <2> HIDE DEF last
  <2>3. Brief(n)
    BY <2>1, <2>2 DEF Brief
  <2>4. QED
    BY <2>3, AskStays DEF disconnect_pleasant, send_quit
<1>5. Stays(abrupt(k, code))
  <2> DEFINE n == note_last_state(f)
             last == IF f.lastState = "S_UNSET_STATE" THEN f.state ELSE f.lastState
             e == [n EXCEPT !.result = "ABRUPT"]
  <2>1. n = [f EXCEPT !.lastState = last]
    BY DEF note_last_state
  <2>2. abrupt(k, code) = end_channel_now(e)
    BY DEF abrupt, disconnect_abrupt, disconnect
  <2> HIDE DEF last, f
  <2>3. Brief(n)
    BY <1>2, <2>1 DEF Brief
  <2> HIDE DEF n
  <2>4. Brief(e)
    BY <2>3 DEF Brief
  <2> HIDE DEF e
  <2>5. QED
    BY <2>2, <2>4 DEF Brief, Stays, end_channel_now, delete_all_timers
<1>6. Stays(pleasant(k, code))
  BY <1>2, <1>4 DEF pleasant
<1>7. Stays(sec_check(k, after)) /\ Stays(send_user(k))
  BY <1>2, AskStays DEF sec_check, send_auth_tls, send_user
<1>8. Stays(setup_middle(f))
  BY <1>2, <1>3, <1>4, AskStays DEF setup_middle, sec_check, send_auth_tls
<1>9. QED
  BY <1>5, <1>6, <1>7, <1>8

LEMMA BannerStays ==
  ASSUME NEW k, Brief(k), NEW r, r.size \in Sizes, NEW more, more.size \in Sizes
  PROVE  Stays(read_banner(k, r, more))
<1>1. /\ \A code : Stays(abrupt(k, code)) /\ Stays(pleasant(k, code))
                   /\ Stays(setup_middle(fail(k, code)))
      /\ \A after : Stays(sec_check(k, after))
      /\ Stays(send_user(k)) /\ Stays(k)
  BY EndsStay DEF Brief, Stays
<1>2. \A x, extra, found : x.size \in Sizes /\ Stays(extra) /\ Stays(found)
                             => Stays(parse_response(k, x, extra, found))
  <2>1. ASSUME NEW x, NEW extra, NEW found, x.size \in Sizes, Stays(extra), Stays(found)
        PROVE  Stays(parse_response(k, x, extra, found))
    BY <1>1, <2>1 DEF parse_response, Brief, Sizes
  <2>2. QED
    BY <2>1
<1>3. Stays(read_additional_banner_resp(k, more))
  <2> DEFINE found == CASE more.kind = "early_sec" -> sec_check(k, "send_user")
                        [] more.kind # "early_sec" /\ k.earlySecReq ->
                             sec_check(k, after_early_sec(k))
                        [] OTHER -> send_user(k)
  <2>1. Stays(found)
    BY <1>1
  <2>2. Stays(handle_extra_resp_error(k))
    BY <1>1 DEF handle_extra_resp_error
  <2> HIDE DEF found
  <2>3. Stays(single(k, more, found))
    BY <1>2, <2>1, <2>2 DEF single
  <2>4. QED
    BY <2>3 DEF read_additional_banner_resp, found
<1> DEFINE found ==
      CASE r.kind = "cfaa" -> setup_middle(fail(k, "FAIL_CFAA_BAN"))
        [] r.kind = "ok" /\ r.size = "EXTRA" -> read_additional_banner_resp(k, more)
        [] r.kind = "ok" /\ r.size = "FOUND" ->
             IF k.earlySecReq \/ k.secProbe
             THEN sec_check(k, after_early_sec(k)) ELSE send_user(k)
        [] r.kind \in {"FAIL_VPS_NO_HOST", "FAIL_VSFTPD_BANNER_ERROR",
                       "FAIL_SESSION_LIMIT"} -> abrupt(k, r.kind)
        [] OTHER -> unexpected_reply(k, "FAIL_BANNER_RET")
<1>4. Stays(found)
  BY <1>1, <1>3 DEF unexpected_reply
<1>5. read_banner(k, r, more) = parse_response(k, r, found, found)
  BY DEF read_banner, parse_first
<1> HIDE DEF found
<1>6. QED
  BY <1>2, <1>4, <1>5

\* The callback that connects looks once more for a host that is over.
LEMMA EarlyTurns ==
  ASSUME NEW m, NEW b, Turned(m, b), Stays(m), Rude("early_read")
  PROVE  Passed(event_handled(handled(m)), b)
<1> DEFINE n == handled(m)
           x == IF m.reqLimitReached /\ ~m.hostIsFinished THEN disconnect_abrupt(m) ELSE m
<1>1. Passed(n, b)
  BY HandledTurns
<1>2. n = then_on(m, free_if_finished(x)) /\ event_handled(n) = then_on(n, free_if_finished(n))
  BY DEF handled, event_handled
<1>3. CASE n.fault # "none"
  BY <1>1, <1>2, <1>3 DEF then_on
<1>4. CASE n.fault = "none" /\ ~n.freed
  BY <1>1, <1>2, <1>4, FreedTurns DEF then_on
<1>5. CASE n.fault = "none" /\ n.freed
  <2>1. event_handled(n) = [n EXCEPT !.fault = "use_after_free"]
    <3>1. "fault" \in DOMAIN n
      BY <1>1 DEF Passed, InTurn, TurnFields
    <3>2. QED
      BY <1>2, <1>5, <3>1 DEF then_on, crash
  <2>2. n.state = "S_CONNECTED"
    <3>1. m.fault = "none" /\ ~m.freed
      <4>1. m.fault # "none" => n = m
        BY <1>2 DEF then_on
      <4>2. m.fault = "none" /\ m.freed => n = crash(m, "use_after_free")
        BY <1>2 DEF then_on
      <4>3. "fault" \in DOMAIN m
        BY DEF Turned, Passed, InTurn, TurnFields
      <4>4. m.fault = "none" /\ m.freed => n.fault = "use_after_free"
        BY <4>2, <4>3 DEF crash
      <4>5. QED
        BY <1>5, <4>1, <4>4
    <3>2. n = free_if_finished(x)
      BY <1>2, <3>1 DEF then_on
    <3>3. x.state = m.state
      <4>1. CASE m.reqLimitReached /\ ~m.hostIsFinished
        <5>1. Up(m) /\ Calm(m)
          BY <3>1, <4>1 DEF Up, Calm, Turned, Passed, InTurn
        <5>2. Stored(m) => m.terminationCode # "SUCCESS_EXIT"
          BY <5>1 DEF Turned, Passed, InTurn, Tame, Remembered
        <5>3. Stopped(m, disconnect_abrupt(m))
          BY <5>1, <5>2, DisconnectTurns DEF disconnect_abrupt
        <5>4. QED
          BY <4>1, <5>3 DEF Stopped
      <4>2. QED
        BY <4>1
    <3>4. x.hostIsFinished => m.reqLimitReached \/ m.hostIsFinished
      OBVIOUS
    <3> HIDE DEF x, n
    <3>5. ~x.hostIsFinished => n = x
      BY <3>2 DEF free_if_finished
    <3>6. n.state = x.state
      BY <3>2, <3>5 DEF free_if_finished
    <3>7. x.hostIsFinished
      <4>1. ~x.hostIsFinished => x = m
        <5>1. Up(m) /\ m.reqLimitReached => Stopped(m, disconnect_abrupt(m))
          <6>1. ASSUME Up(m) PROVE Calm(m) /\ (Stored(m) => m.terminationCode # "SUCCESS_EXIT")
            BY <6>1 DEF Calm, Turned, Passed, InTurn, Tame, Remembered
          <6>2. QED
            BY <6>1, DisconnectTurns DEF disconnect_abrupt
        <5>2. QED
          BY <3>1, <5>1 DEF x, Up, Stopped
      <4>2. QED
        BY <1>5, <3>1, <3>5, <4>1
    <3>8. QED
      BY <3>3, <3>4, <3>6, <3>7 DEF Stays
  <2> DEFINE e == [n EXCEPT !.fault = "use_after_free"]
  <2>3. /\ TurnFields \subseteq DOMAIN e /\ e.fault = "use_after_free" /\ e.freed = n.freed
        /\ e.terminationCode = n.terminationCode /\ e.result = n.result
        /\ e.hostIsFinished = n.hostIsFinished /\ e.connects = n.connects
        /\ e.secProbeStorage = n.secProbeStorage /\ e.sent = n.sent
        /\ e.listErrCount = n.listErrCount /\ e.listResp = n.listResp /\ e.state = n.state
    BY <1>1 DEF Passed, InTurn, TurnFields
  <2> HIDE DEF e, n
  <2>4. Excused(e) /\ (e.hostIsFinished => Judged(e)) /\ (Listed(e) => Listed(n)) /\ ~Up(e)
    BY <1>1, <2>2, <2>3 DEF Passed, InTurn, Excused, Judged, Stored, Listed, Up
  <2>5. Passed(e, b)
    BY <1>1, <2>3, <2>4 DEF Passed, InTurn
  <2>6. QED
    BY <2>1, <2>5 DEF n, e
<1>6. QED
  BY <1>3, <1>4, <1>5

-----------------------------------------------------------------------------
\* The steps of the session.

\* The host has ended, and what data_tls_init had overwritten has used it since.
Late(k) ==
  /\ Rude("late_data") /\ k.staleData > 0 /\ k.hostIsFinished
  /\ k.fault \in {"use_after_free", "ended_twice"}
  /\ k.listErrCount \in 0..LIST_ERROR_CUTOFF /\ k.listResp \in {0, 1} /\ ~Listed(k)
  /\ Judged(k)

TInv == IInv /\ AllTyped /\ (InTurn(h, owed) \/ Late(h))

\* What a step does: it passes the turn on, and sends nothing after QUIT.
Carried ==
  /\ InTurn(h', owed') \/ Late(h')
  /\ h.state = "S_QUIT_SENT" => h'.sent = <<>>

\* A step begins with the host as it is, in its turn.
LEMMA FreshTurns ==
  ASSUME TInv, Alive
  PROVE  /\ Start(Fresh) /\ Calm(Fresh) /\ Turned(Fresh, owed) /\ Tame(Fresh, owed)
         /\ owed \in {0, 1} /\ Fresh.sent = <<>> /\ Fresh.state = h.state
         /\ Fresh.conn = h.conn /\ (h.conn # "up" => owed = 0)
         /\ Fresh.pasvPost = h.pasvPost
<1>1. Start(Fresh)
  BY BeginsFresh DEF TInv
<1>2. Up(h)
  BY DEF TInv, IInv, Kept, Alive, Up
<1>3. Tame(h, owed) /\ TurnFields \subseteq DOMAIN h
      /\ h.listErrCount \in 0..LIST_ERROR_CUTOFF /\ h.listResp \in {0, 1}
  BY <1>2 DEF TInv, InTurn, Late, Up
<1> DEFINE n == Fresh
<1>4. n = [h EXCEPT !.sent = <<>>]
  BY DEF Fresh
<1>5. Unturned([h EXCEPT !.sent = <<>>], n) /\ n.sent = <<>> /\ n.pasvPost = h.pasvPost
  BY <1>3, <1>4 DEF Unturned, TurnFields
<1>6. /\ TurnFields \subseteq DOMAIN n /\ n.state = h.state
      /\ n.terminationCode = h.terminationCode
      /\ n.result = h.result /\ n.hostIsFinished = h.hostIsFinished /\ n.freed = h.freed
      /\ n.fault = h.fault /\ n.conn = h.conn /\ n.ctrlUsingSec = h.ctrlUsingSec
      /\ n.secType = h.secType /\ n.secProbe = h.secProbe
      /\ n.secProbeStorage = h.secProbeStorage /\ n.postSecConnectCB = h.postSecConnectCB
      /\ n.delayedCtrlCB = h.delayedCtrlCB
      /\ n.savedReqTimer = h.savedReqTimer /\ n.savedNextState = h.savedNextState
      /\ n.multiRespState = h.multiRespState /\ n.multiRespTimer = h.multiRespTimer
      /\ n.resetWaitTimer = h.resetWaitTimer /\ n.retrWaitTimer = h.retrWaitTimer
      /\ n.dataBev = h.dataBev /\ n.listErrCount = h.listErrCount
      /\ n.listResp = h.listResp /\ n.connects = h.connects
  BY <1>3, <1>4 DEF TurnFields
<1> HIDE DEF n
<1>7. /\ Later(n) = Later(h) /\ (Waits(n) <=> Waits(h)) /\ (Stored(n) <=> Stored(h))
  BY <1>6 DEF Later, Waits, Stored
<1>8. /\ OneTurn(h, owed) <=> OneTurn(n, owed)
      /\ Secured(h, owed) <=> Secured(n, owed)
      /\ Provided(h, owed) <=> Provided(n, owed)
      /\ Walked(h, owed) <=> Walked(n, owed)
      /\ Remembered(h, owed) <=> Remembered(n, owed)
  BY <1>6, <1>7 DEF OneTurn, Secured, Provided, Walked, Remembered, Heading
<1>9. Tame(n, owed)
  BY <1>3, <1>8 DEF Tame
<1>10. owed \in {0, 1} /\ (h.conn # "up" => owed = 0)
  BY <1>3 DEF Tame, OneTurn
<1>11. ~Listed(n) /\ Up(n) /\ Len(n.sent) = 0 /\ owed + 0 = owed
  BY <1>2, <1>5, <1>6, <1>10 DEF Listed, Up
<1>12. Calm(n) /\ Turned(n, owed)
  BY <1>3, <1>5, <1>6, <1>9, <1>11 DEF Calm, Turned, Passed, InTurn, Up, Excused
<1>13. QED
  BY <1>1, <1>5, <1>6, <1>9, <1>10, <1>12 DEF n

\* What the server owes after a step is what the step leaves it to owe.
LEMMA OwesTurns ==
  ASSUME Orderly, NEW b \in Nat, Owes(b), Passed(h', b)
  PROVE  InTurn(h', owed')
<1>1. ~Rude("unsolicited")
  BY DEF Orderly, Rude
<1>2. CASE h'.conn \notin {"connecting", "closed"}
  BY <1>1, <1>2 DEF Owes, Passed
<1>3. CASE h'.conn \in {"connecting", "closed"}
  <2>1. owed' = 0
    BY <1>1, <1>3 DEF Owes
  <2>2. Up(h') => b + Len(h'.sent) = 0
    BY <1>3 DEF Passed, InTurn, Tame, OneTurn
  <2>3. QED
    BY <2>1, <2>2 DEF Passed, InTurn
<1>4. QED
  BY <1>2, <1>3

\* The reply that is owed comes.
LEMMA ReadCarries ==
  ASSUME Orderly, TInv, CtrlRead
  PROVE  Carried
<1>1. ~Rude("unsolicited")
  BY DEF Orderly, Rude
<1>2. /\ Start(Fresh) /\ Calm(Fresh) /\ Tame(Fresh, 1) /\ Fresh.sent = <<>> /\ owed = 1
      /\ Fresh.state = h.state /\ Fresh.conn = "up" /\ TurnFields \subseteq DOMAIN Fresh
  BY <1>1, FreshTurns DEF CtrlRead, Calm
<1>3. PICK r \in Replies(h) : Read(r) /\ Owes(IF Settles(h, r) THEN owed - 1 ELSE owed)
  BY DEF CtrlRead
<1>4. PICK more \in Mores(h, r), id \in LoginIDs(h, r), skip \in Skips(h),
           data \in Datas(h) \cup {NoData} :
        h' = ctrl_read_cb(Fresh, Choice(r, more, id, data, skip))
  BY <1>3 DEF Read
<1> DEFINE c == Choice(r, more, id, data, skip)
           k == Fresh
<1>5. c.r = r /\ c.more = more /\ c.over = data.over
  BY DEF Choice
<1>6. Told(k, c)
  <2>1. /\ r.size \in {"FOUND", "EXTRA", "ERROR"} /\ DOMAIN r = {"size", "kind"}
        /\ r = [size |-> r.size, kind |-> r.kind]
        /\ r.size = "EXTRA" => r.kind = "ok" /\ h.state \in Announcing
        /\ r.size = "FOUND" => r.kind \in Kinds(h)
        /\ r.size = "ERROR" => r.kind \in {"FAIL_TRAP_CTRL_AMT", "FAIL_NULL_IN_RESP"}
    BY RepliesTold
  <2>2. Alone(more)
        /\ (more.size = "FOUND" /\ h.state # "S_CONNECTED" => more.kind \in {"ok", "no", "odd"})
    BY MoresTold
  <2>3. data.over => Rude("overflow")
    BY DatasHeard
  <2>4. Kinds(k) = Kinds(h)
    BY <1>2 DEF Kinds
  <2> HIDE DEF c, k
  <2>5. QED
    BY <1>2, <1>5, <2>1, <2>2, <2>3, <2>4 DEF Told, k
<1>7. Owes(Rest(k, r)) /\ Rest(k, r) \in {0, 1}
  <2>1. Settles(h, r) <=> Settles(k, r)
    BY <1>2 DEF Settles
  <2>2. QED
    BY <1>2, <1>3, <2>1 DEF Rest
<1>8. h' = ctrl_read_cb(k, c)
  BY <1>4
<1>9. k.state # "S_INITIAL"
  BY <1>2 DEF Start, Sound, Channelled
<1> HIDE DEF c, k
<1>10. CASE h.state = "S_DATA_CONN"
  <2>1. h' = abrupt(k, "FAIL_REALLY_BAD_ERROR")
    BY <1>2, <1>8, <1>10 DEF ctrl_read_cb, k
  <2>2. Stopped(k, h')
    BY <1>2, <2>1, AbruptTurns DEF k
  <2>3. Passed(h', Rest(k, r))
    BY <2>2 DEF Stopped, Turned
  <2>4. QED
    BY <1>7, <1>10, <2>3, OwesTurns DEF Carried
<1>11. CASE h.state = "S_QUIT_SENT"
  <2> DEFINE m == read_quit_resp(k, r)
  <2>1. Alone(r) /\ r.size # "INCOMPLETE" /\ Rest(k, r) = 0
    BY <1>2, <1>5, <1>6, <1>11, RestIs DEF Told, Alone, Announcing, k
  <2>2. Turned(m, 0) /\ m.sent = <<>>
    BY <1>2, <1>11, <2>1, GoodbyeTurns DEF k
  <2>3. h' = handled(m)
    BY <1>2, <1>5, <1>8, <1>11 DEF ctrl_read_cb, read_handler, k
  <2> HIDE DEF m
  <2>4. Passed(h', 0) /\ h'.sent = <<>>
    BY <2>2, <2>3, HandledTurns
  <2>5. QED
    BY <1>7, <2>1, <2>4, OwesTurns DEF Carried
<1>12. CASE h.state \notin {"S_DATA_CONN", "S_QUIT_SENT"}
  <2> DEFINE m == read_handler(k, c)
  <2>1. Turned(m, Rest(k, r))
    BY <1>2, <1>5, <1>6, <1>12, HandlerTurns DEF k
  <2>2. h' = handled(m)
    BY <1>2, <1>8, <1>9, <1>12 DEF ctrl_read_cb, k
  <2> HIDE DEF m
  <2>3. Passed(h', Rest(k, r))
    BY <2>1, <2>2, HandledTurns
  <2>4. QED
    BY <1>7, <1>12, <2>3, OwesTurns DEF Carried
<1>13. QED
  BY <1>10, <1>11, <1>12

\* The banner comes before the connection stands.
LEMMA EarlyCarries ==
  ASSUME Orderly, TInv, CtrlReadEarly
  PROVE  Carried
<1>1. /\ Start(Fresh) /\ Calm(Fresh) /\ Turned(Fresh, owed) /\ Tame(Fresh, 0)
      /\ Fresh.sent = <<>> /\ Fresh.state = "S_INITIAL" /\ Fresh.conn = "connecting"
  BY FreshTurns DEF CtrlReadEarly
<1> DEFINE k == Fresh
           m == read_initial(k)
<1>2. k.delayedCtrlCB = "none"
  <2>1. k.delayedCtrlCB # "ctrl_read_cb"
    BY BeginsFresh DEF CtrlReadEarly, TInv
  <2>2. QED
    BY <1>1, <2>1 DEF Start, Shaped, Sound, Transferring
<1>3. m = [k EXCEPT !.delayedCtrlCB = "ctrl_read_cb"]
  BY <1>2 DEF read_initial
<1>4. h' = handled(m) /\ Owes(0)
  BY DEF CtrlReadEarly
<1> HIDE DEF k, m
<1>5. /\ TurnFields \subseteq DOMAIN m /\ m.delayedCtrlCB = "ctrl_read_cb"
      /\ Unturned([k EXCEPT !.delayedCtrlCB = m.delayedCtrlCB], m)
  BY <1>1, <1>3 DEF Unturned, Calm, TurnFields, k
<1>6. /\ m.state = k.state /\ m.terminationCode = k.terminationCode
      /\ m.result = k.result /\ m.hostIsFinished = k.hostIsFinished /\ m.freed = k.freed
      /\ m.fault = k.fault /\ m.conn = k.conn /\ m.ctrlUsingSec = k.ctrlUsingSec
      /\ m.secType = k.secType /\ m.secProbe = k.secProbe
      /\ m.secProbeStorage = k.secProbeStorage /\ m.postSecConnectCB = k.postSecConnectCB
      /\ m.sent = k.sent
      /\ m.savedReqTimer = k.savedReqTimer /\ m.savedNextState = k.savedNextState
      /\ m.multiRespState = k.multiRespState /\ m.multiRespTimer = k.multiRespTimer
      /\ m.resetWaitTimer = k.resetWaitTimer /\ m.retrWaitTimer = k.retrWaitTimer
      /\ m.dataBev = k.dataBev /\ m.listErrCount = k.listErrCount
      /\ m.listResp = k.listResp /\ m.connects = k.connects
  BY <1>1, <1>3 DEF Calm, TurnFields, k
<1>7. /\ Later(m) = Later(k) /\ (Waits(m) <=> Waits(k)) /\ (Stored(m) <=> Stored(k))
  BY <1>2, <1>5, <1>6 DEF Later, Waits, Stored
<1>8. Tame(m, 0)
  <2>1. OneTurn(m, 0) /\ Secured(m, 0) /\ Provided(m, 0) /\ Walked(m, 0) /\ Remembered(m, 0)
    BY <1>1, <1>5, <1>6, <1>7 DEF k, Tame, OneTurn, Secured, Provided, Walked, Remembered, Heading
  <2>2. QED
    BY <2>1 DEF Tame
<1>9. Up(m) /\ ~Listed(m) /\ Len(m.sent) = 0
  BY <1>1, <1>6 DEF k, Calm, Up, Listed
<1>10. Turned(m, 0)
  BY <1>1, <1>5, <1>6, <1>8, <1>9 DEF k, Calm, Turned, Passed, InTurn, Up, Excused
<1>11. Passed(h', 0)
  BY <1>4, <1>10, HandledTurns
<1>12. QED
  BY <1>4, <1>11, OwesTurns DEF Carried, CtrlReadEarly

\* The connection stands: the banner is owed, or has come before.
LEMMA ConnectedCarries ==
  ASSUME Orderly, TInv, CtrlConnected
  PROVE  Carried
<1>1. /\ Start(Fresh) /\ Calm(Fresh) /\ Tame(Fresh, 0)
      /\ Fresh.sent = <<>> /\ Fresh.state = "S_INITIAL" /\ Fresh.conn = "connecting"
      /\ Fresh.delayedCtrlCB = h.delayedCtrlCB
  BY FreshTurns, BeginsFresh DEF CtrlConnected, TInv
<1> DEFINE f == Fresh
           k == [enter(f, "S_CONNECTED") EXCEPT !.conn = "up", !.delayedCtrlCB = "none"]
           up == enter(h, "S_CONNECTED")
<1>2. f.delayedCtrlCB \in {"none", "ctrl_read_cb"}
  BY <1>1 DEF Start, Shaped, Sound, Transferring
<1>3. PICK r \in (IF h.delayedCtrlCB = "none" THEN {Wait} ELSE Replies(up)) :
        \E more \in Mores(up, r) :
          h' = ctrl_event_init_connected(f, Choice(r, more, "none", NoData, 0))
  BY DEF CtrlConnected
<1>4. PICK more \in Mores(up, r) :
        h' = ctrl_event_init_connected(f, Choice(r, more, "none", NoData, 0))
  BY <1>3
<1> DEFINE c == Choice(r, more, "none", NoData, 0)
<1>5. c.r = r /\ c.more = more
  BY DEF Choice
<1>6. h' = event_handled(IF f.delayedCtrlCB = "none" THEN k
                         ELSE handled(read_banner(k, r, more)))
  BY <1>1, <1>2, <1>4, <1>5 DEF ctrl_event_init_connected
<1>7. k = [f EXCEPT !.state = "S_CONNECTED", !.conn = "up", !.delayedCtrlCB = "none"]
  BY DEF enter
<1>8. up.state = "S_CONNECTED"
  <2>1. "state" \in DOMAIN h
    BY DEF TInv, IInv, Kept, Shaped, Fields
  <2>2. QED
    BY <2>1 DEF enter
<1>9. Owes(IF f.delayedCtrlCB = "none" THEN 1 ELSE 0)
  BY <1>1 DEF CtrlConnected
<1> HIDE DEF f, k, up, c
<1>10. /\ TurnFields \subseteq DOMAIN k /\ k.state = "S_CONNECTED" /\ k.conn = "up"
       /\ k.delayedCtrlCB = "none"
       /\ k.terminationCode = f.terminationCode
       /\ k.result = f.result /\ k.hostIsFinished = f.hostIsFinished /\ k.freed = f.freed
       /\ k.fault = f.fault /\ k.ctrlUsingSec = f.ctrlUsingSec
       /\ k.secType = f.secType /\ k.secProbe = f.secProbe
       /\ k.secProbeStorage = f.secProbeStorage /\ k.postSecConnectCB = f.postSecConnectCB
       /\ k.sent = f.sent
       /\ k.savedReqTimer = f.savedReqTimer /\ k.savedNextState = f.savedNextState
       /\ k.multiRespState = f.multiRespState /\ k.multiRespTimer = f.multiRespTimer
       /\ k.resetWaitTimer = f.resetWaitTimer /\ k.retrWaitTimer = f.retrWaitTimer
       /\ k.dataBev = f.dataBev /\ k.listErrCount = f.listErrCount
       /\ k.listResp = f.listResp /\ k.connects = f.connects
  BY <1>1, <1>7 DEF f, Calm, TurnFields
<1>11. ~f.savedReqTimer /\ ~f.ctrlUsingSec /\ ~Stored(f) /\ Going(f)
       /\ ~f.multiRespTimer /\ ~f.resetWaitTimer /\ ~f.retrWaitTimer
  <2>1. ~f.savedReqTimer
    BY <1>1 DEF f, Tame, OneTurn
  <2>2. ~Stored(f)
    BY <1>1 DEF f, Tame, Remembered
  <2>3. Going(f)
    BY <1>1 DEF f, Tame, Walked, Going, Calm
  <2>4. ~f.ctrlUsingSec /\ ~f.multiRespTimer /\ ~f.resetWaitTimer /\ ~f.retrWaitTimer
    BY <1>1 DEF f, Start, Sound, Channelled, LoggingIn, Transferring
  <2>5. QED
    BY <2>1, <2>2, <2>3, <2>4
<1>12. ~Stored(k) /\ Going(k) /\ ~k.ctrlUsingSec /\ Later(k) = "none" /\ ~Waits(k)
  BY <1>10, <1>11 DEF Stored, Going, Later, Waits
<1>13. ASSUME NEW w \in {0, 1} PROVE Tame(k, w)
  <2>1. OneTurn(k, w)
    BY <1>10, <1>11, <1>12 DEF OneTurn
  <2>2. Secured(k, w)
    BY <1>1, <1>10, <1>11, <1>12 DEF f, Tame, Secured, Heading, LoginStates
  <2>3. Provided(k, w)
    BY <1>10, <1>12 DEF Provided, LoginStates
  <2>4. Walked(k, w)
    BY <1>1, <1>10, <1>12 DEF f, Tame, Walked, Going
  <2>5. Remembered(k, w)
    BY <1>1, <1>10, <1>11, <1>12 DEF f, Tame, Remembered
  <2>6. QED
    BY <2>1, <2>2, <2>3, <2>4, <2>5 DEF Tame
<1>14. Up(k) /\ ~Listed(k) /\ Len(k.sent) = 0 /\ k.sent = <<>>
  BY <1>1, <1>10 DEF f, Calm, Up, Listed
<1>15. CASE f.delayedCtrlCB = "none"
  <2>1. Turned(k, 1)
    BY <1>1, <1>10, <1>13, <1>14 DEF f, Calm, Turned, Passed, InTurn, Up, Excused
  <2>2. Passed(h', 1) /\ Owes(1)
    BY <1>6, <1>9, <1>15, <2>1, HandledTurns
  <2>3. QED
    BY <2>2, OwesTurns DEF Carried, CtrlConnected
<1>16. CASE f.delayedCtrlCB = "ctrl_read_cb"
  <2> DEFINE m == read_banner(k, r, more)
  <2>1. Rude("early_read")
    BY <1>1, <1>16 DEF f, TInv, IInv, CtrlConnected
  <2>2. r \in Replies(up)
    BY <1>1, <1>3, <1>16 DEF f
  <2>3. /\ r.size \in {"FOUND", "ERROR"}
        /\ r.size = "FOUND" => r.kind \in Kinds(up)
        /\ r.size = "ERROR" => r.kind \in {"FAIL_TRAP_CTRL_AMT", "FAIL_NULL_IN_RESP"}
    BY <1>8, <2>2, RepliesTold DEF Announcing
  <2>4. Alone(r) /\ (r.size = "FOUND" => r.kind # "SUCCESS_EXIT")
    BY <1>8, <2>3 DEF Alone, Kinds
  <2>5. more.size \in Sizes /\ r.size \in Sizes
    BY <2>3, MoresTold DEF Alone, Sizes
  <2>6. Placid(k)
    BY <1>10, <1>11, <1>12, <1>13, <1>14 DEF Placid
  <2>7. Turned(m, 0)
    BY <1>12, <2>4, <2>6, BannerTurns
  <2>8. Brief(k)
    <3>1. Fields \cup TurnFields \subseteq DOMAIN f
      <4>1. Fields \subseteq DOMAIN f /\ TurnFields \subseteq DOMAIN f
        BY <1>1 DEF f, Start, Shaped, Calm
      <4>2. QED
        BY <4>1
    <3>2. k.reqLimitReached = f.reqLimitReached /\ k.numReqSent = f.numReqSent
      BY <1>7, <3>1 DEF Fields
    <3>3. DOMAIN k = DOMAIN f
      BY <1>7
    <3>4. f.reqLimitReached => f.numReqSent = maxReqPerIp
      BY <1>1 DEF f, Start, Sound, Throttled
    <3>5. QED
      BY <1>10, <1>11, <1>14, <3>1, <3>2, <3>3, <3>4 DEF Brief, Fields, Up
  <2>9. Stays(m)
    BY <2>5, <2>8, BannerStays
  <2>10. h' = event_handled(handled(m)) /\ Owes(0)
    BY <1>6, <1>9, <1>16
  <2> HIDE DEF m
  <2>11. Passed(h', 0)
    BY <2>1, <2>7, <2>9, <2>10, EarlyTurns
  <2>12. QED
    BY <2>10, <2>11, OwesTurns DEF Carried, CtrlConnected
<1>17. QED
  BY <1>2, <1>15, <1>16

\* The protected connection stands.
LEMMA ProtectedCarries ==
  ASSUME Orderly, TInv, CtrlSecConnected
  PROVE  Carried
<1>1. /\ Start(Fresh) /\ Calm(Fresh) /\ Tame(Fresh, 0) /\ owed = 0
      /\ Fresh.sent = <<>> /\ Fresh.state = h.state /\ Fresh.conn = h.conn /\ h.conn # "up"
      /\ h.conn = "tls" \/ (h.conn = "connecting" /\ h.state # "S_INITIAL")
  BY FreshTurns DEF CtrlSecConnected
<1> DEFINE f == Fresh
           k == [f EXCEPT !.conn = "up"]
<1>2. h' = free_if_finished(IF k.ctrlUsingSec THEN send_pbsz(k) ELSE abrupt(k, "FAIL_BAD_CONNECT"))
      /\ Owes(0)
  BY <1>1 DEF CtrlSecConnected, ctrl_event_connected
<1> HIDE DEF f
<1>3. k = [f EXCEPT !.conn = "up"]
  OBVIOUS
<1> HIDE DEF k
<1>4. /\ TurnFields \subseteq DOMAIN k /\ k.conn = "up" /\ k.state = f.state
      /\ k.delayedCtrlCB = f.delayedCtrlCB
      /\ k.terminationCode = f.terminationCode
      /\ k.result = f.result /\ k.hostIsFinished = f.hostIsFinished /\ k.freed = f.freed
      /\ k.fault = f.fault /\ k.ctrlUsingSec = f.ctrlUsingSec
      /\ k.secType = f.secType /\ k.secProbe = f.secProbe
      /\ k.secProbeStorage = f.secProbeStorage /\ k.postSecConnectCB = f.postSecConnectCB
      /\ k.sent = f.sent
      /\ k.savedReqTimer = f.savedReqTimer /\ k.savedNextState = f.savedNextState
      /\ k.multiRespState = f.multiRespState /\ k.multiRespTimer = f.multiRespTimer
      /\ k.resetWaitTimer = f.resetWaitTimer /\ k.retrWaitTimer = f.retrWaitTimer
      /\ k.dataBev = f.dataBev /\ k.listErrCount = f.listErrCount
      /\ k.listResp = f.listResp /\ k.connects = f.connects
  BY <1>1, <1>3 DEF f, Calm, TurnFields
<1>5. Calm(k) /\ Up(k) /\ ~Listed(k) /\ k.sent = <<>>
  BY <1>1, <1>4 DEF f, Calm, Up, Listed
<1>6. CASE ~k.ctrlUsingSec
  <2>1. Stopped(k, abrupt(k, "FAIL_BAD_CONNECT"))
    BY <1>5, AbruptTurns
  <2>2. Turned(abrupt(k, "FAIL_BAD_CONNECT"), 0) /\ abrupt(k, "FAIL_BAD_CONNECT").sent = <<>>
    BY <1>5, <2>1 DEF Stopped
  <2>3. h' = free_if_finished(abrupt(k, "FAIL_BAD_CONNECT"))
    BY <1>2, <1>6
  <2>4. Passed(h', 0) /\ h'.sent = <<>>
    BY <2>2, <2>3, FreedTurns DEF Turned
  <2>5. QED
    BY <1>2, <2>4, OwesTurns DEF Carried
<1>7. CASE k.ctrlUsingSec
  <2>1. f.conn = "tls" /\ f.state = "S_SECURITY_CONNECTING"
    BY <1>1, <1>4, <1>7 DEF f, Start, Sound, Channelled, Tame, Secured
  <2>2. /\ ~f.savedReqTimer /\ Going(f) /\ ~f.multiRespTimer /\ ~f.resetWaitTimer
        /\ ~f.retrWaitTimer /\ f.delayedCtrlCB \notin {"read_retr_done", "read_list_done"}
    <3>1. ~f.savedReqTimer /\ Going(f)
      BY <1>1 DEF f, Tame, OneTurn, Walked, Going, Calm
    <3>2. ~f.multiRespTimer /\ ~f.resetWaitTimer
          /\ ~f.retrWaitTimer /\ f.delayedCtrlCB \notin {"read_retr_done", "read_list_done"}
      BY <1>1, <2>1 DEF f, Start, Sound, LoggingIn, Transferring
    <3>3. QED
      BY <3>1, <3>2
  <2>3. Later(k) = "none" /\ ~Waits(k) /\ Going(k) /\ (Stored(k) <=> Stored(f)) /\ Later(f) = "none"
    BY <1>4, <2>2 DEF Later, Waits, Going, Stored
  <2>4. Tame(k, 0)
    <3>1. OneTurn(k, 0)
      BY <1>4, <2>2, <2>3 DEF OneTurn
    <3>2. Secured(k, 0)
      BY <1>1, <1>4, <2>1, <2>2, <2>3 DEF f, Tame, Secured, Heading, LoginStates, Auths
    <3>3. Provided(k, 0)
      BY <1>4, <2>1, <2>3 DEF Provided, LoginStates
    <3>4. Walked(k, 0)
      BY <1>1, <1>4, <2>3 DEF f, Tame, Walked, Going
    <3>5. Remembered(k, 0)
      BY <1>1, <1>4, <2>1, <2>2, <2>3 DEF f, Tame, Remembered, Heading
    <3>6. QED
      BY <3>1, <3>2, <3>3, <3>4, <3>5 DEF Tame
  <2>5. Placid(k)
    BY <1>4, <1>5, <2>1, <2>2, <2>3, <2>4 DEF Placid
  <2>6. Fits(k, "S_PBSZ_INIT_SENT")
    BY <2>3 DEF Fits, Going, Auths, LoginStates, SecPhase
  <2>7. Turned(send_pbsz(k), 0)
    BY <2>5, <2>6, AskTurns DEF send_pbsz, ReplyStates
  <2>8. h' = free_if_finished(send_pbsz(k))
    BY <1>2, <1>7
  <2>9. Passed(h', 0)
    BY <2>7, <2>8, FreedTurns DEF Turned
  <2>10. QED
    BY <1>1, <1>2, <2>1, <2>9, OwesTurns DEF f, Carried
<1>8. QED
  BY <1>6, <1>7

\* A host that has been ended is freed, or not.
LEMMA StoppedCarries ==
  ASSUME Orderly, NEW k, k.sent = <<>>, NEW m, Stopped(k, m), NEW b \in Nat, Owes(b),
         h' = m \/ h' = free_if_finished(m)
  PROVE  Carried
<1>1. Passed(m, b) /\ m.sent = <<>>
  BY DEF Stopped, Turned
<1>2. Passed(h', b) /\ h'.sent = <<>>
  BY <1>1, FreedTurns
<1>3. QED
  BY <1>2, OwesTurns DEF Carried

\* The connection breaks.
LEMMA ErrorCarries ==
  ASSUME Orderly, TInv, CtrlError
  PROVE  Carried
<1>1. Start(Fresh) /\ Calm(Fresh) /\ Fresh.sent = <<>> /\ Owes(0)
  BY FreshTurns DEF CtrlError
<1>2. Blanks = {TRUE}
  BY DEF Orderly, Rude, Blanks
<1>3. PICK reading \in BOOLEAN : h' = free_if_finished(ctrl_event_error(Fresh, reading, TRUE))
  BY <1>2 DEF CtrlError
<1> DEFINE k == Fresh
           m == ctrl_event_error(k, reading, TRUE)
<1>4. \A code : code # "SUCCESS_EXIT" => Stopped(k, abrupt(k, code))
  BY <1>1, AbruptTurns
<1>5. h' = free_if_finished(m) /\ (SecFailed(k) => k.secType \in {"SEC_PRIMARY", "SEC_SECONDARY"})
  BY <1>1, <1>3 DEF Start, Shaped, SecFailed
<1> HIDE DEF k
<1>6. Stopped(k, m)
  <2>1. CASE SecFailed(k)
    BY <1>4, <1>5, <2>1 DEF ctrl_event_error, sec_failed
  <2>2. CASE ~SecFailed(k)
    <3> DEFINE code == CASE k.state = "S_INITIAL" -> "FAIL_DEST_REFUSED"
                         [] k.state = "S_PASS_SENT" /\ reading -> "FAIL_DISCONNECT_PASS"
                         [] k.state = "S_CONNECTED" /\ reading -> "FAIL_DISCONNECT_BANNER"
                         [] k.state = "S_PORT_SENT" /\ reading -> "FAIL_DISCONNECT_PORT"
                         [] OTHER -> "FAIL_ERROR_EVENT"
    <3>1. m = abrupt(k, code)
      BY <2>2 DEF ctrl_event_error
    <3>2. code # "SUCCESS_EXIT"
      OBVIOUS
    <3> HIDE DEF code, m
    <3>3. QED
      BY <1>4, <3>1, <3>2
  <2>3. QED
    BY <2>1, <2>2
<1>7. QED
  BY <1>1, <1>5, <1>6, StoppedCarries DEF k

\* The server falls silent.
LEMMA TimeoutCarries ==
  ASSUME Orderly, TInv, CtrlTimeout
  PROVE  Carried
<1>1. Calm(Fresh) /\ Fresh.sent = <<>> /\ Owes(0)
  BY FreshTurns DEF CtrlTimeout
<1> DEFINE k == Fresh
           code == CASE k.state = "S_INITIAL" -> "FAIL_DEST_NO_RESPONSE"
                     [] k.state = "S_CONNECTED" -> "FAIL_TIMEOUT_BANNER"
                     [] k.state = "S_PASS_SENT" -> "FAIL_TIMEOUT_PASS"
                     [] k.state = "S_SECURITY_CONNECTING" -> "FAIL_TIMEOUT_TLS"
                     [] OTHER -> "FAIL_TIMEOUT"
<1>2. h' = free_if_finished(abrupt(k, code))
  BY DEF CtrlTimeout, ctrl_event_timeout
<1>3. code # "SUCCESS_EXIT"
  OBVIOUS
<1> HIDE DEF k, code
<1>4. Stopped(k, abrupt(k, code))
  BY <1>1, <1>3, AbruptTurns DEF k
<1>5. QED
  BY <1>1, <1>2, <1>4, StoppedCarries DEF k

\* The server ends the connection: it may want TLS first.
LEMMA EofCarries ==
  ASSUME Orderly, TInv, CtrlEof
  PROVE  Carried
<1>1. /\ Start(Fresh) /\ Calm(Fresh) /\ Fresh.sent = <<>> /\ Owes(0) /\ Tame(Fresh, owed)
      /\ Fresh.state = h.state /\ Fresh.ctrlUsingSec = h.ctrlUsingSec
  BY FreshTurns, BeginsFresh DEF CtrlEof, TInv
<1>2. Blanks = {TRUE} /\ ~Rude("sec_again")
  BY DEF Orderly, Rude, Blanks
<1>3. PICK cleartext \in BOOLEAN :
        /\ cleartext => ~h.ctrlUsingSec
        /\ h' = free_if_finished(ctrl_event_eof(Fresh, cleartext, TRUE))
  BY <1>2 DEF CtrlEof
<1> DEFINE k == Fresh
           m == ctrl_event_eof(k, cleartext, TRUE)
<1>4. \A code : code # "SUCCESS_EXIT" => Stopped(k, abrupt(k, code))
  BY <1>1, AbruptTurns
<1>5. h' = free_if_finished(m) /\ (SecFailed(k) => k.secType \in {"SEC_PRIMARY", "SEC_SECONDARY"})
  BY <1>1, <1>3 DEF Start, Shaped, SecFailed
<1>6. cleartext => ~k.ctrlUsingSec
  BY <1>1, <1>3
<1> HIDE DEF k
<1>7. CASE k.state = "S_USER_SENT" /\ cleartext /\ ~SecFailed(k)
  <2>1. m = handle_early_sec_req(k)
    BY <1>7 DEF ctrl_event_eof
  <2>2. Going(k) /\ k.delayedCtrlCB \notin {"read_retr_done", "read_list_done"}
    BY <1>1, <1>7 DEF k, Tame, Walked, Going, Calm, LoginStates, Start, Sound, Transferring
  <2> HIDE DEF m
  <2>3. Turned(m, 0) /\ m.sent = <<>>
    BY <1>1, <1>6, <1>7, <2>1, <2>2, EarlySecTurns DEF k
  <2>4. Passed(h', 0) /\ h'.sent = <<>>
    BY <1>5, <2>3, FreedTurns DEF Turned
  <2>5. QED
    BY <1>1, <2>4, OwesTurns DEF Carried
<1>8. CASE ~(k.state = "S_USER_SENT" /\ cleartext /\ ~SecFailed(k))
  <2>1. CASE SecFailed(k)
    <3>1. Stopped(k, m)
      <4>1. k.state \notin {"S_QUIT_SENT", "S_USER_SENT"}
        BY <2>1 DEF SecFailed, SecStates
      <4>2. m = sec_failed(k, TRUE)
        BY <2>1, <4>1 DEF ctrl_event_eof
      <4> HIDE DEF m
      <4>3. QED
        BY <1>4, <1>5, <2>1, <4>2 DEF sec_failed
    <3>2. QED
      BY <1>1, <1>5, <3>1, StoppedCarries DEF k
  <2>2. CASE ~SecFailed(k) /\ k.state = "S_QUIT_SENT"
    <3>1. m = disconnect(k, "RUDE")
      BY <2>2 DEF ctrl_event_eof, disconnect_rude
    <3>2. Stored(k) => k.terminationCode # "SUCCESS_EXIT"
                       /\ k.terminationCode \in {k.secProbeStorage, "FAIL_PBSZ_OK"}
      BY <1>1, <2>2 DEF k, Tame, Remembered, Heading
    <3>3. Stopped(k, m)
      BY <1>1, <3>1, <3>2, DisconnectTurns DEF k
    <3>4. QED
      BY <1>1, <1>5, <3>3, StoppedCarries DEF k
  <2>3. CASE ~SecFailed(k) /\ k.state # "S_QUIT_SENT"
    <3> DEFINE code == CASE k.state = "S_INITIAL" -> "FAIL_UNK_INIT_EVENT"
                         [] k.state = "S_USER_SENT" -> "FAIL_DISCONNECT_USER"
                         [] k.state = "S_CONNECTED" -> "FAIL_DISCONNECT_BANNER"
                         [] k.state = "S_PASS_SENT" -> "FAIL_DISCONNECT_PASS"
                         [] OTHER -> "FAIL_DISCONNECT_OTHER"
    <3>1. m = abrupt(k, code)
      BY <1>8, <2>3 DEF ctrl_event_eof
    <3>2. code # "SUCCESS_EXIT"
      OBVIOUS
    <3> HIDE DEF code, m
    <3>3. Stopped(k, m)
      BY <1>4, <3>1, <3>2
    <3>4. QED
      BY <1>1, <1>5, <3>3, StoppedCarries DEF k, m
  <2>4. QED
    BY <2>1, <2>2, <2>3
<1>9. QED
  BY <1>7, <1>8

-----------------------------------------------------------------------------
\* The clock and the data channel.

\* What is of no matter to the turn.
LEMMA UnnoticedCarries ==
  ASSUME Orderly, TInv, Tick \/ DataConnected
  PROVE  Carried
<1>1. /\ Turned(Fresh, owed) /\ owed \in {0, 1} /\ Fresh.sent = <<>> /\ owed' = owed
      /\ TurnFields \subseteq DOMAIN Fresh /\ ~Fresh.freed
  BY FreshTurns DEF Tick, DataConnected, Calm, Up
<1>2. h' = [Fresh EXCEPT !.tick = TRUE] \/ h' = [Fresh EXCEPT !.dataIsConnected = TRUE]
  BY <1>1 DEF Tick, DataConnected, data_event
<1> DEFINE k == Fresh
           m == h'
<1>3. m = [k EXCEPT !.tick = TRUE] \/ m = [k EXCEPT !.dataIsConnected = TRUE]
  BY <1>2
<1>4. TurnFields \subseteq DOMAIN k
  BY <1>1
<1> HIDE DEF k, m
<1>5. Unturned(k, m) /\ m.sent = k.sent
  BY <1>3, <1>4 DEF Unturned, TurnFields
<1>6. Turned(m, owed)
  BY <1>1, <1>5, UnturnedSame DEF k
<1>7. owed + Len(m.sent) = owed
  BY <1>1, <1>5 DEF k
<1>8. InTurn(m, owed) /\ m.sent = <<>>
  BY <1>1, <1>5, <1>6, <1>7 DEF Turned, Passed, k
<1>9. QED
  BY <1>1, <1>8 DEF Carried, m

\* Too much data comes.
LEMMA OverflowCarries ==
  ASSUME Orderly, TInv, DataRead
  PROVE  Carried
<1>1. Calm(Fresh) /\ Fresh.sent = <<>> /\ Rude("overflow") /\ h' = data_overflow(Fresh) /\ Owes(0)
  BY FreshTurns DEF DataRead
<1>2. Turned(h', 0) /\ h'.sent = <<>>
  BY <1>1, OverflowTurns
<1>3. QED
  BY <1>1, <1>2, OwesTurns DEF Carried, Turned

\* The data connection cannot be made.
LEMMA RefusedCarries ==
  ASSUME Orderly, TInv, DataRefused
  PROVE  Carried
<1>1. Calm(Fresh) /\ Fresh.sent = <<>> /\ Owes(0) /\ ~Fresh.dataIsConnected /\ ~Fresh.freed
  BY FreshTurns DEF DataRefused, Fresh, Calm, Up
<1>2. h' = free_if_finished(abrupt(Fresh, "FAIL_DATA_CONNECT_RESET"))
  BY <1>1 DEF DataRefused, data_event
<1>3. Stopped(Fresh, abrupt(Fresh, "FAIL_DATA_CONNECT_RESET"))
  BY <1>1, AbruptTurns
<1>4. QED
  BY <1>1, <1>2, <1>3, StoppedCarries

\* What data_tls_init left behind fires while the host is alive.
LEMMA StaleCarries ==
  ASSUME Orderly, TInv, StaleDataEvent, ~h.hostIsFinished
  PROVE  Carried
<1>1. Alive
  BY DEF Alive, StaleDataEvent
<1>2. /\ Calm(Fresh) /\ Turned(Fresh, owed) /\ owed \in {0, 1} /\ Fresh.sent = <<>>
      /\ TurnFields \subseteq DOMAIN Fresh /\ ~Fresh.freed /\ Fresh.fault = "none"
  BY <1>1, FreshTurns DEF Calm, Up
<1>3. Owes(owed)
  BY DEF StaleDataEvent
<1>4. PICK connected \in BOOLEAN : h' = Fired(data_event(Fresh, connected))
  BY DEF StaleDataEvent
<1> DEFINE k == Fresh
           left == k.staleData - 1
           n == abrupt(k, "FAIL_DATA_CONNECT_RESET")
           f == free_if_finished(n)
<1>5. CASE data_event(k, connected) \in {k, [k EXCEPT !.dataIsConnected = TRUE]}
  <2>1. \/ h' = [k EXCEPT !.staleData = left]
        \/ h' = [k EXCEPT !.dataIsConnected = TRUE, !.staleData = left]
    <3>1. CASE data_event(k, connected) = k
      BY <1>2, <1>4, <3>1 DEF Fired
    <3>2. CASE data_event(k, connected) = [k EXCEPT !.dataIsConnected = TRUE]
      <4> DEFINE e == [k EXCEPT !.dataIsConnected = TRUE]
      <4>1. e.fault = "none" /\ e.staleData = k.staleData
        BY <1>2 DEF TurnFields
      <4>2. h' = [e EXCEPT !.staleData = e.staleData - 1]
        BY <1>4, <3>2, <4>1 DEF Fired
      <4>3. QED
        BY <4>1, <4>2
    <3>3. QED
      BY <1>5, <3>1, <3>2
  <2>2. TurnFields \subseteq DOMAIN k
    BY <1>2
  <2> DEFINE m == h'
  <2>3. \/ m = [k EXCEPT !.staleData = left]
        \/ m = [k EXCEPT !.dataIsConnected = TRUE, !.staleData = left]
    BY <2>1
  <2> HIDE DEF k, m, left
  <2>4. Unturned(k, m) /\ m.sent = k.sent
    BY <2>2, <2>3 DEF Unturned, TurnFields
  <2>5. Turned(m, owed)
    BY <1>2, <2>4, UnturnedSame DEF k
  <2>6. m.sent = <<>> /\ Passed(m, owed)
    BY <1>2, <2>4, <2>5 DEF Turned, k
  <2>7. QED
    BY <1>2, <1>3, <2>6, OwesTurns DEF Carried, m
<1>6. CASE data_event(k, connected) = f
  <2>1. Stopped(k, n)
    BY <1>2, AbruptTurns
  <2>2. f = [n EXCEPT !.freed = TRUE]
    BY <2>1 DEF free_if_finished, Stopped
  <2>3. Passed(f, owed) /\ f.sent = <<>>
    BY <1>2, <2>1, FreedTurns DEF Stopped, Turned
  <2>4. f.fault = "none" /\ f.hostIsFinished /\ TurnFields \subseteq DOMAIN f
    BY <2>1, <2>2 DEF Stopped, Turned, Passed, InTurn, TurnFields
  <2> DEFINE m == h'
  <2>5. m = [f EXCEPT !.staleData = f.staleData - 1]
    BY <1>4, <1>6, <2>4 DEF Fired
  <2> HIDE DEF k, n, f, m
  <2>6. Unturned(f, m) /\ m.sent = f.sent /\ m.hostIsFinished
    BY <2>4, <2>5 DEF Unturned, TurnFields
  <2>7. Passed(m, owed)
    BY <2>3, <2>4, <2>6 DEF Passed, InTurn, Unturned, Up, Excused, Judged, Stored, Listed
  <2>8. QED
    BY <1>2, <1>3, <2>3, <2>6, <2>7, OwesTurns DEF Carried, m
<1>7. QED
  BY <1>2, <1>4, <1>5, <1>6 DEF data_event

\* It fires after the host has ended.
LEMMA HauntedCarries ==
  ASSUME Orderly, TInv, Haunted
  PROVE  Carried
<1>1. /\ h.staleData > 0 /\ h.fault = "none" /\ h'.sent = <<>> /\ h'.hostIsFinished
      /\ h'.fault # "none"
           => h'.fault \in {"use_after_free", "ended_twice"} /\ h'.staleData > 0
  BY HauntedIs DEF TInv
<1>2. Rude("late_data") /\ owed \in Nat
  BY <1>1 DEF TInv, AllTyped, Typed, StaleCounts
<1>3. InTurn(h, owed) /\ h.hostIsFinished
  BY <1>1 DEF TInv, Late, Haunted
<1> DEFINE g == Fresh
           left == g.staleData - 1
<1>4. /\ TurnFields \subseteq DOMAIN g
      /\ g.listErrCount = h.listErrCount /\ g.listResp = h.listResp
      /\ g.secProbeStorage = h.secProbeStorage /\ g.connects = h.connects
      /\ g.terminationCode = h.terminationCode /\ g.result = h.result
  BY <1>3 DEF InTurn, TurnFields, Fresh
<1>5. \/ h' = [g EXCEPT !.fault = "use_after_free"]
      \/ h' = [g EXCEPT !.dataIsConnected = TRUE, !.staleData = left]
      \/ h' = [g EXCEPT !.staleData = left]
      \/ h' = [g EXCEPT !.terminationCode = "FAIL_DATA_CONNECT_RESET", !.result = "ABRUPT",
                        !.fault = "ended_twice", !.freed = TRUE]
  BY HauntedForm DEF TInv
<1> DEFINE m == h'
<1>6. \/ m = [g EXCEPT !.fault = "use_after_free"]
      \/ m = [g EXCEPT !.dataIsConnected = TRUE, !.staleData = left]
      \/ m = [g EXCEPT !.staleData = left]
      \/ m = [g EXCEPT !.terminationCode = "FAIL_DATA_CONNECT_RESET", !.result = "ABRUPT",
                       !.fault = "ended_twice", !.freed = TRUE]
  BY <1>5
<1> HIDE DEF g, m, left
<1>7. /\ TurnFields \subseteq DOMAIN m
      /\ m.listErrCount = h.listErrCount /\ m.listResp = h.listResp
      /\ m.secProbeStorage = h.secProbeStorage /\ m.connects = h.connects
      /\ \/ m.terminationCode = h.terminationCode /\ m.result = h.result
         \/ m.terminationCode = "FAIL_DATA_CONNECT_RESET" /\ m.result = "ABRUPT"
  BY <1>4, <1>6 DEF TurnFields
<1>8. ~Listed(m) /\ m.sent = <<>> /\ m.hostIsFinished
  BY <1>1 DEF Listed, m
<1>9. Judged(m)
  BY <1>3, <1>7 DEF InTurn, Judged, Stored
<1>10. CASE m.fault = "none"
  <2>1. Passed(m, owed)
    BY <1>2, <1>3, <1>7, <1>8, <1>9, <1>10 DEF Passed, InTurn, Excused, Up
  <2>2. Owes(owed)
    BY DEF Haunted, StaleDataEvent
  <2>3. QED
    BY <1>2, <1>8, <2>1, <2>2, OwesTurns DEF Carried, m
<1>11. CASE m.fault # "none"
  BY <1>1, <1>2, <1>3, <1>7, <1>8, <1>9, <1>11 DEF Carried, Late, InTurn, m
<1>12. QED
  BY <1>10, <1>11

\* The data connection ends, with the reply that waited for that.
LEMMA ClosedCarries ==
  ASSUME Orderly, TInv, DataClosed
  PROVE  Carried
<1>1. /\ Start(Fresh) /\ Calm(Fresh) /\ Tame(Fresh, owed) /\ owed \in {0, 1}
      /\ Fresh.sent = <<>> /\ Fresh.state = h.state /\ Fresh.dataBev /\ Owes(owed)
      /\ DataMayEnd
  BY FreshTurns, BeginsFresh DEF DataClosed, DataUp, TInv
<1>2. PICK data \in Datas(h), skip \in Skips(h), more \in Mores(h, Wait) :
        h' = data_close_channel(Fresh, Choice(Wait, more, "none", data, skip))
  BY DEF DataClosed
<1> DEFINE c == Choice(Wait, more, "none", data, skip)
           f == Fresh
           k == close_data_bev(f, c)
<1>3. c.more = more /\ c.over = data.over
  BY DEF Choice
<1>4. h' = run_delayed_cb(k, c)
  BY <1>1, <1>2 DEF data_close_channel
<1>5. c.over => Rude("overflow")
  BY <1>3, DatasHeard
<1>6. /\ f.state \notin {"S_DATA_CONN", "S_RETR_SENT", "S_LIST_SENT"} \/ Rude("data_first")
      /\ f.conn = "up"
  BY <1>1 DEF DataMayEnd, Start, Sound, Transferring
<1>7. /\ Alone(c.more)
      /\ (f.state # "S_CONNECTED" /\ c.more.size = "FOUND"
            => c.more.kind \in {"ok", "no", "odd"})
  BY <1>1, <1>3, MoresTold
<1> HIDE DEF c
<1>8. CASE c.over
  <2>1. k = data_overflow(f)
    BY <1>1, <1>8 DEF close_data_bev
  <2>2. k.freed /\ Turned(k, owed) /\ k.sent = <<>>
    BY <1>1, <1>5, <1>8, <2>1, OverflowTurns
  <2> HIDE DEF k
  <2>3. h' = k
    BY <1>4, <2>2 DEF run_delayed_cb, run_delayed
  <2>4. QED
    BY <1>1, <2>2, <2>3, OwesTurns DEF Carried, Turned
<1>9. CASE ~c.over
  <2>1. Emptied(f, k)
    BY <1>1, <1>9, Empties DEF Calm
  <2>2. Up(k) /\ TurnFields \subseteq DOMAIN k /\ k.sent = <<>> /\ k.state = f.state
        /\ k.delayedCtrlCB = f.delayedCtrlCB /\ ~k.freed
    BY <1>1, <2>1 DEF Calm, Up, Emptied
  <2>3. Tame(k, owed)
    <3>1. \/ Rude("data_first")
          \/ /\ f.state # "S_DATA_CONN"
             /\ owed = 1 => f.state \notin {"S_RETR_SENT", "S_LIST_SENT"}
      BY <1>6
    <3> HIDE DEF k, f
    <3>2. QED
      BY <1>1, <2>1, <3>1, EmptiedTame DEF f
  <2>4. Calm(k) /\ ~Listed(k) /\ Len(k.sent) = 0
    BY <1>1, <2>1, <2>2 DEF Calm, Emptied, Listed
  <2> HIDE DEF k
  <2>5. CASE f.delayedCtrlCB = "none"
    <3>1. h' = k
      BY <1>4, <2>2, <2>5 DEF run_delayed_cb, run_delayed
    <3>2. Passed(k, owed)
      BY <1>1, <2>2, <2>3, <2>4 DEF Passed, InTurn, Calm, Up, Excused
    <3>3. QED
      BY <1>1, <2>2, <3>1, <3>2, OwesTurns DEF Carried
  <2>6. CASE f.delayedCtrlCB \in {"read_retr_done", "read_list_done"}
    <3> DEFINE d == [k EXCEPT !.delayedCtrlCB = "none"]
    <3>1. /\ TurnFields \subseteq DOMAIN d /\ d.delayedCtrlCB = "none"
          /\ d.state = k.state /\ d.terminationCode = k.terminationCode
          /\ d.result = k.result /\ d.hostIsFinished = k.hostIsFinished /\ d.freed = k.freed
          /\ d.fault = k.fault /\ d.conn = k.conn /\ d.ctrlUsingSec = k.ctrlUsingSec
          /\ d.secType = k.secType /\ d.secProbe = k.secProbe
          /\ d.secProbeStorage = k.secProbeStorage /\ d.postSecConnectCB = k.postSecConnectCB
          /\ d.sent = k.sent
          /\ d.savedReqTimer = k.savedReqTimer /\ d.savedNextState = k.savedNextState
          /\ d.multiRespState = k.multiRespState /\ d.multiRespTimer = k.multiRespTimer
          /\ d.resetWaitTimer = k.resetWaitTimer /\ d.retrWaitTimer = k.retrWaitTimer
          /\ d.dataBev = k.dataBev /\ d.listErrCount = k.listErrCount
          /\ d.listResp = k.listResp /\ d.connects = k.connects /\ d.pasvPost = k.pasvPost
      BY <2>2 DEF TurnFields
    <3>2. h' = IF f.delayedCtrlCB = "read_retr_done" THEN read_retr_done(d, c.more, c)
               ELSE read_list_done(d, c.more, c)
      BY <1>4, <2>2, <2>6 DEF run_delayed_cb, run_delayed
    <3> HIDE DEF d
    <3>3. /\ owed = 0 /\ ~k.savedReqTimer /\ k.state # "S_QUIT_SENT" /\ ~Stored(k)
          /\ k.listErrCount # LIST_ERROR_CUTOFF
          /\ (f.delayedCtrlCB = "read_retr_done" => k.listResp = 0)
      <4>1. Waits(k)
        BY <2>2, <2>6 DEF Waits
      <4>2. OneTurn(k, owed) /\ Walked(k, owed) /\ Remembered(k, owed)
        BY <2>3 DEF Tame
      <4>3. k.listResp \in {0, 1}
        BY <2>4 DEF Calm
      <4>4. QED
        BY <1>1, <2>2, <4>1, <4>2, <4>3 DEF OneTurn, Walked, Remembered
    <3>4. /\ ~f.multiRespTimer /\ ~f.resetWaitTimer /\ ~f.retrWaitTimer
          /\ f.state \in {"S_RETR_XFER", "S_LIST_XFER"}
          /\ f.delayedCtrlCB = "read_retr_done" => f.pasvPost \in {"send_syst", "short_scan_ending"}
          /\ f.delayedCtrlCB = "read_list_done" => f.pasvPost \in {"walk_dir", "disconnect_pleasant"}
      BY <1>1, <2>2, <2>6, <3>3 DEF Start, Sound, LoggingIn, Transferring, Walking, LoginStates
    <3>5. /\ ~Waits(d) /\ ~Stored(d) /\ Later(d) = "none" /\ Later(k) = "none"
          /\ d.conn = "up" /\ d.pasvPost = f.pasvPost
      BY <1>6, <2>1, <3>1, <3>3, <3>4 DEF Emptied, Waits, Stored, Later
    <3>6. Tame(d, 0)
      <4>1. OneTurn(d, 0)
        BY <3>1, <3>3, <3>5 DEF OneTurn
      <4>2. Secured(d, 0) /\ Provided(d, 0) /\ Walked(d, 0) /\ Remembered(d, 0)
        BY <2>3, <3>1, <3>3, <3>5 DEF Tame, Secured, Provided, Walked, Remembered, Heading, Stored
      <4>3. QED
        BY <4>1, <4>2 DEF Tame
    <3>7. Placid(d) /\ d.state \notin LoginStates
      BY <2>2, <3>1, <3>3, <3>4, <3>5, <3>6 DEF Placid, Up, LoginStates
    <3>8. Onwards(d)
      BY <2>6, <3>1, <3>3, <3>4, <3>5, <3>7 DEF Onwards
    <3>9. CASE f.delayedCtrlCB = "read_retr_done"
      <4>1. Going(d)
        BY <3>1, <3>3, <3>9 DEF Going
      <4>2. c.more.size = "FOUND" => c.more.kind \in {"ok", "no", "odd"}
        BY <1>7, <3>4
      <4>3. Turned(read_retr_done(d, c.more, c), 0)
        BY <1>7, <3>8, <4>1, <4>2, RetrDoneTurns
      <4>4. QED
        BY <1>1, <2>2, <3>2, <3>3, <3>9, <4>3, OwesTurns DEF Carried, Turned
    <3>10. CASE f.delayedCtrlCB = "read_list_done"
      <4>1. Turned(read_list_done(d, c.more, c), 0)
        BY <1>7, <3>4, <3>5, <3>7, <3>8, <3>10, ListDoneTurns
      <4>2. QED
        BY <1>1, <2>2, <3>2, <3>3, <3>10, <4>1, OwesTurns DEF Carried, Turned
    <3>11. QED
      BY <2>6, <3>9, <3>10
  <2>7. QED
    BY <1>1, <1>6, <2>5, <2>6 DEF Start, Shaped, Sound, Channelled
<1>10. QED
  BY <1>8, <1>9

-----------------------------------------------------------------------------
\* The timers.

\* The delayed request goes out.
LEMMA SavedCarries ==
  ASSUME Orderly, TInv, SavedReqTimer
  PROVE  Carried
<1>1. /\ Start(Fresh) /\ Calm(Fresh) /\ Tame(Fresh, owed) /\ owed \in {0, 1}
      /\ Fresh.sent = <<>> /\ Fresh.state = h.state /\ Fresh.savedReqTimer /\ Owes(owed)
  BY FreshTurns, BeginsFresh DEF SavedReqTimer, TInv
<1> DEFINE f == Fresh
           k == [f EXCEPT !.savedReqTimer = FALSE]
           next == f.savedNextState
           req == f.savedReq
           m == h'
<1>2. m = sendSpigot_cb(f, TRUE)
  BY DEF SavedReqTimer
<1>3. TurnFields \subseteq DOMAIN f /\ Shaped(f) /\ Throttled(f) /\ Walking(f) /\ Transferring(f)
  BY <1>1 DEF Calm, Start, Sound
<1>4. k = [f EXCEPT !.savedReqTimer = FALSE]
  OBVIOUS
<1> HIDE DEF f, k, m
<1>5. owed = 0 /\ ~Waits(f) /\ f.conn = "up" /\ f.state # "S_QUIT_SENT"
  BY <1>1 DEF f, Tame, OneTurn
<1>6. /\ TurnFields \subseteq DOMAIN k /\ ~k.savedReqTimer
      /\ k.state = f.state /\ k.terminationCode = f.terminationCode
      /\ k.result = f.result /\ k.hostIsFinished = f.hostIsFinished /\ k.freed = f.freed
      /\ k.fault = f.fault /\ k.conn = f.conn /\ k.ctrlUsingSec = f.ctrlUsingSec
      /\ k.secType = f.secType /\ k.secProbe = f.secProbe
      /\ k.secProbeStorage = f.secProbeStorage /\ k.postSecConnectCB = f.postSecConnectCB
      /\ k.delayedCtrlCB = f.delayedCtrlCB /\ k.sent = f.sent
      /\ k.multiRespState = f.multiRespState /\ k.multiRespTimer = f.multiRespTimer
      /\ k.resetWaitTimer = f.resetWaitTimer /\ k.retrWaitTimer = f.retrWaitTimer
      /\ k.dataBev = f.dataBev /\ k.listErrCount = f.listErrCount
      /\ k.listResp = f.listResp /\ k.connects = f.connects
  BY <1>3, <1>4 DEF TurnFields
<1>7. /\ ~Waits(k) /\ Later(k) = "none" /\ Later(f) = next /\ (Stored(k) <=> Stored(f))
      /\ next \in ReplyStates
  <2>1. next \in ReplyStates
    BY <1>1, <1>3 DEF f, Shaped, Throttled
  <2>2. QED
    BY <1>1, <1>5, <1>6, <2>1 DEF f, Waits, Later, Stored
<1>8. Placid(k)
  <2>1. OneTurn(k, 0)
    BY <1>5, <1>6, <1>7 DEF OneTurn
  <2>2. Secured(k, 0) /\ Provided(k, 0)
    <3>1. Later(k) \notin LoginStates \cup Auths \cup {"S_CONNECTED"}
      BY <1>7 DEF LoginStates, Auths
    <3>2. Secured(f, owed) /\ Provided(f, owed)
      BY <1>1 DEF f, Tame
    <3>3. Secured(k, 0)
      BY <1>5, <1>6, <3>1, <3>2 DEF Secured, Heading, Waits
    <3>4. Provided(k, 0)
      BY <1>6, <3>1, <3>2 DEF Provided
    <3>5. QED
      BY <3>3, <3>4
  <2>4. Walked(k, 0)
    BY <1>1, <1>5, <1>6, <1>7 DEF f, Tame, Walked
  <2>5. Remembered(k, 0)
    BY <1>1, <1>5, <1>6, <1>7 DEF f, Tame, Remembered, Heading
  <2>6. QED
    BY <1>1, <1>5, <1>6, <1>7, <2>1, <2>2, <2>4, <2>5 DEF f, Calm, Placid, Up, Tame
<1>9. Fits(k, next)
  <2>1. next \in Auths => ~f.ctrlUsingSec
    BY <1>1, <1>7 DEF f, Tame, Secured, Heading
  <2>2. f.secProbe => next \notin LoginStates
    BY <1>1, <1>7 DEF f, Tame, Secured
  <2>3. next \in LoginStates => f.multiRespState = "READ_ZERO"
    BY <1>1, <1>7 DEF f, Tame, Provided
  <2>4. next \in {"S_RETR_SENT", "S_LIST_SENT"} /\ ~Rude("data_first") => f.dataBev
    BY <1>1, <1>3, <1>7 DEF f, Tame, Provided, Walking
  <2>5. next # "S_QUIT_SENT" => f.listErrCount # LIST_ERROR_CUTOFF /\ f.listResp = 0
    BY <1>1, <1>7 DEF f, Tame, Walked, Calm, ReplyStates
  <2>6. Stored(f) => next \in SecPhase \cup {"S_QUIT_SENT"}
    BY <1>1, <1>7 DEF f, Tame, Remembered, ReplyStates
  <2>7. Stored(f) /\ next = "S_QUIT_SENT"
          => f.terminationCode \in {f.secProbeStorage, "FAIL_PBSZ_OK"}
    BY <1>1, <1>7 DEF f, Tame, Remembered, Heading
  <2> HIDE DEF next
  <2>8. QED
    BY <1>6, <1>7, <2>1, <2>2, <2>3, <2>4, <2>5, <2>6, <2>7 DEF Fits
<1>10. req = "LIST" => next # "S_QUIT_SENT"
  BY <1>1, <1>3 DEF f, Throttled
<1>11. Asked(k, m, next, req)
  <2> DEFINE one == <<req>>
             t == [f EXCEPT !.sent = one, !.state = next]
  <2>1. Append(f.sent, req) = one /\ "sent" \in DOMAIN f
    BY <1>1, <1>3 DEF f, TurnFields
  <2>2. transmit(f, TRUE, next, req) = [f EXCEPT !.sent = Append(@, req), !.state = next]
    BY DEF transmit, change_state
  <2>3. transmit(f, TRUE, next, req) = t
    BY <2>1, <2>2
  <2> HIDE DEF one, t
  <2>4. m = [t EXCEPT !.savedReqTimer = FALSE, !.savedReq = "none",
                      !.reqThisSecond = 1, !.tick = FALSE, !.numReqSent = @ + 1]
    BY <1>2, <2>3 DEF sendSpigot_cb
  <2>5. /\ TurnFields \subseteq DOMAIN t /\ t.sent = one /\ t.state = next
        /\ t.result = f.result /\ t.hostIsFinished = f.hostIsFinished /\ t.freed = f.freed
        /\ t.fault = f.fault /\ t.conn = f.conn /\ t.ctrlUsingSec = f.ctrlUsingSec
        /\ t.secType = f.secType /\ t.secProbe = f.secProbe
        /\ t.secProbeStorage = f.secProbeStorage /\ t.postSecConnectCB = f.postSecConnectCB
        /\ t.delayedCtrlCB = f.delayedCtrlCB /\ t.multiRespState = f.multiRespState
        /\ t.multiRespTimer = f.multiRespTimer /\ t.resetWaitTimer = f.resetWaitTimer
        /\ t.retrWaitTimer = f.retrWaitTimer /\ t.dataBev = f.dataBev
        /\ t.listErrCount = f.listErrCount /\ t.listResp = f.listResp
        /\ t.connects = f.connects /\ t.terminationCode = f.terminationCode
    BY <1>3 DEF t, TurnFields
  <2> HIDE DEF next, req
  <2>6. /\ TurnFields \subseteq DOMAIN m /\ m.sent = one /\ m.state = next /\ ~m.savedReqTimer
        /\ m.result = t.result /\ m.hostIsFinished = t.hostIsFinished /\ m.freed = t.freed
        /\ m.fault = t.fault /\ m.conn = t.conn /\ m.ctrlUsingSec = t.ctrlUsingSec
        /\ m.secType = t.secType /\ m.secProbe = t.secProbe
        /\ m.secProbeStorage = t.secProbeStorage /\ m.postSecConnectCB = t.postSecConnectCB
        /\ m.delayedCtrlCB = t.delayedCtrlCB /\ m.multiRespState = t.multiRespState
        /\ m.multiRespTimer = t.multiRespTimer /\ m.resetWaitTimer = t.resetWaitTimer
        /\ m.retrWaitTimer = t.retrWaitTimer /\ m.dataBev = t.dataBev
        /\ m.listErrCount = t.listErrCount /\ m.listResp = t.listResp
        /\ m.connects = t.connects /\ m.terminationCode = t.terminationCode
    BY <2>4, <2>5 DEF TurnFields
  <2>7. QED
    BY <1>6, <2>5, <2>6 DEF Asked, one
<1> HIDE DEF next, req
<1>12. Turned(m, 0)
  BY <1>7, <1>8, <1>9, <1>10, <1>11, AskedTurns
<1>13. QED
  BY <1>1, <1>5, <1>12, OwesTurns DEF f, m, Carried, Turned

\* No second reply to USER or PASS has come.
LEMMA AnswerCarries ==
  ASSUME Orderly, TInv, multi_resp_timeout
  PROVE  Carried
<1>1. /\ Start(Fresh) /\ Calm(Fresh) /\ Tame(Fresh, owed) /\ owed \in {0, 1}
      /\ Fresh.sent = <<>> /\ Fresh.state = h.state /\ Fresh.multiRespTimer /\ Owes(owed)
      /\ Fresh.ctrlUsingSec = h.ctrlUsingSec /\ Fresh.multiRespEval = h.multiRespEval
  BY FreshTurns, BeginsFresh DEF multi_resp_timeout, TInv
<1>2. ~Rude("sec_again")
  BY DEF Orderly, Rude
<1>3. PICK id \in (IF h.multiRespEval = "user" THEN UserIDs ELSE PassIDs) :
        /\ id \in {"TLS", "Early_Sec_Req"} => ~h.ctrlUsingSec
        /\ h' = multi_resp_eval(Fresh, id)
  BY <1>2 DEF multi_resp_timeout
<1> DEFINE f == Fresh
<1>4. /\ id \in {"TLS", "Early_Sec_Req"} => ~f.ctrlUsingSec
      /\ h' = IF f.multiRespEval = "user" THEN read_user_resp_eval(f, id)
              ELSE read_pass_resp_eval(f, id)
      /\ f.multiRespEval = "user" => id \in UserIDs
      /\ f.multiRespEval # "user" => id \in PassIDs
  BY <1>1, <1>3 DEF multi_resp_eval
<1> HIDE DEF f
<1>5. Waits(f) /\ f.state \in LoginStates /\ f.conn = "up"
  BY <1>1 DEF f, Waits, Start, Sound, LoggingIn
<1>6. owed = 0 /\ ~f.savedReqTimer /\ f.state # "S_QUIT_SENT"
  BY <1>1, <1>5 DEF f, Tame, OneTurn
<1>7. /\ ~f.resetWaitTimer /\ ~f.retrWaitTimer
      /\ f.delayedCtrlCB \notin {"read_retr_done", "read_list_done"}
  BY <1>1, <1>5 DEF f, Start, Sound, LoggingIn, Transferring, LoginStates
<1>8. Entering(f)
  <2>1. Going(f)
    BY <1>1, <1>5 DEF f, Tame, Walked, Calm, Going
  <2>2. ~Stored(f)
    BY <1>1, <1>5 DEF f, Tame, Remembered
  <2>3. ~f.secProbe
    BY <1>1 DEF f, Tame, Secured
  <2>4. QED
    BY <2>1, <2>2, <2>3 DEF Entering
<1>9. Answered(f)
  BY <1>1, <1>5, <1>6, <1>7, <1>8 DEF f, Answered, Calm
<1>10. Turned(h', 0)
  BY <1>4, <1>9, UserEvalTurns, PassEvalTurns
<1>11. QED
  BY <1>1, <1>6, <1>10, OwesTurns DEF f, Carried, Turned

\* The wait after a refused PASS is over.
LEMMA ResetCarries ==
  ASSUME Orderly, TInv, reset_wait_event
  PROVE  Carried
<1>1. /\ Start(Fresh) /\ Calm(Fresh) /\ Tame(Fresh, owed) /\ owed \in {0, 1}
      /\ Fresh.sent = <<>> /\ Fresh.state = h.state /\ Fresh.resetWaitTimer /\ Owes(owed)
  BY FreshTurns, BeginsFresh DEF reset_wait_event, TInv
<1> DEFINE f == Fresh
           k == [f EXCEPT !.resetWaitTimer = FALSE]
<1>2. h' = setup_middle(k)
  BY DEF reset_wait_event
<1> HIDE DEF f
<1>3. k = [f EXCEPT !.resetWaitTimer = FALSE]
  OBVIOUS
<1> HIDE DEF k
<1>4. /\ TurnFields \subseteq DOMAIN k /\ ~k.resetWaitTimer
      /\ k.state = f.state /\ k.terminationCode = f.terminationCode
      /\ k.result = f.result /\ k.hostIsFinished = f.hostIsFinished /\ k.freed = f.freed
      /\ k.fault = f.fault /\ k.conn = f.conn /\ k.ctrlUsingSec = f.ctrlUsingSec
      /\ k.secType = f.secType /\ k.secProbe = f.secProbe
      /\ k.secProbeStorage = f.secProbeStorage /\ k.postSecConnectCB = f.postSecConnectCB
      /\ k.delayedCtrlCB = f.delayedCtrlCB /\ k.sent = f.sent
      /\ k.savedReqTimer = f.savedReqTimer /\ k.savedNextState = f.savedNextState
      /\ k.multiRespState = f.multiRespState /\ k.multiRespTimer = f.multiRespTimer
      /\ k.retrWaitTimer = f.retrWaitTimer
      /\ k.dataBev = f.dataBev /\ k.listErrCount = f.listErrCount
      /\ k.listResp = f.listResp /\ k.connects = f.connects
  BY <1>1, <1>3 DEF f, Calm, TurnFields
<1>5. /\ Waits(f) /\ f.state \in LoginStates \cup {"S_RESET_WAIT"}
      /\ f.conn = "up" /\ ~f.multiRespTimer
  BY <1>1 DEF f, Waits, Start, Sound, LoggingIn
<1>6. owed = 0 /\ ~f.savedReqTimer /\ f.state # "S_QUIT_SENT"
  BY <1>1, <1>5 DEF f, Tame, OneTurn
<1>7. ~f.retrWaitTimer /\ f.delayedCtrlCB \notin {"read_retr_done", "read_list_done"}
  BY <1>1, <1>5 DEF f, Start, Sound, Transferring, LoginStates
<1>8. Going(f) /\ ~Stored(f) /\ f.terminationCode # "SUCCESS_EXIT"
  BY <1>1, <1>5 DEF f, Tame, Walked, Remembered, Calm, Going
<1>9. ~Waits(k) /\ Later(k) = "none" /\ Later(f) = "none" /\ ~Stored(k) /\ Going(k)
  BY <1>4, <1>5, <1>6, <1>7, <1>8 DEF Waits, Later, Stored, Going
<1>10. Placid(k)
  <2>1. OneTurn(k, 0)
    BY <1>4, <1>6, <1>9 DEF OneTurn
  <2>2. Secured(k, 0) /\ Provided(k, 0) /\ Walked(k, 0) /\ Remembered(k, 0)
    BY <1>1, <1>4, <1>6, <1>9 DEF f, Tame, Secured, Provided, Walked, Remembered, Heading, Going
  <2>3. QED
    BY <1>1, <1>4, <1>5, <1>6, <1>9, <2>1, <2>2 DEF f, Calm, Placid, Up, Tame
<1>11. Turned(h', 0)
  BY <1>2, <1>4, <1>8, <1>9, <1>10, SetupMiddleTurns
<1>12. QED
  BY <1>1, <1>6, <1>11, OwesTurns DEF f, Carried, Turned

\* The second after a refused RETR is over.
LEMMA RetrCarries ==
  ASSUME Orderly, TInv, RetrWaitTimer
  PROVE  Carried
<1>1. /\ Start(Fresh) /\ Calm(Fresh) /\ Tame(Fresh, owed) /\ owed \in {0, 1}
      /\ Fresh.sent = <<>> /\ Fresh.state = h.state /\ Fresh.retrWaitTimer /\ Owes(owed)
  BY FreshTurns, BeginsFresh DEF RetrWaitTimer, TInv
<1>2. PICK c : h' = post_retr_wait(Fresh, c)
  BY DEF RetrWaitTimer
<1> DEFINE f == Fresh
           x == IF f.item = "robots" THEN "ROBOTS_NO" ELSE f.robotPresence
           n == [f EXCEPT !.retrWaitTimer = FALSE, !.robotPresence = x, !.robotObj = TRUE]
<1>3. h' = post_retr_go_on(data_close_channel(n, c), c)
  BY <1>2 DEF post_retr_wait
<1> HIDE DEF x
<1>4. /\ n.dataBev = f.dataBev
      /\ n = [f EXCEPT !.retrWaitTimer = FALSE, !.robotPresence = x, !.robotObj = TRUE]
  BY <1>1 DEF Calm, TurnFields
<1> HIDE DEF f, n
<1>5. Waits(f) /\ f.conn = "up" /\ ~f.dataBev
      /\ f.state \in {"S_RETR_XFER", "S_QUIT_SENT"}
      /\ f.pasvPost \in {"send_syst", "short_scan_ending"}
  BY <1>1 DEF f, Waits, Start, Sound, Transferring, Walking
<1>6. owed = 0 /\ ~f.savedReqTimer /\ f.state # "S_QUIT_SENT"
  BY <1>1, <1>5 DEF f, Tame, OneTurn
<1>7. ~f.multiRespTimer /\ ~f.resetWaitTimer
      /\ f.delayedCtrlCB \notin {"read_retr_done", "read_list_done"}
  BY <1>1, <1>5 DEF f, Start, Sound, LoggingIn, Transferring, LoginStates
<1>8. Going(f) /\ ~Stored(f)
  BY <1>1, <1>5 DEF f, Tame, Walked, Remembered, Calm, Going
<1>9. Retrieved(f)
  BY <1>1, <1>5, <1>6, <1>7, <1>8 DEF f, Retrieved, Calm
<1>10. Onwards(n)
  BY <1>4, <1>9, RetrOvers
<1>11. h' = pasvPost(n, c.skip)
  BY <1>3, <1>4, <1>5, <1>10 DEF data_close_channel, post_retr_go_on, then_on, Onwards, Placid, Up
<1>12. Turned(h', 0)
  BY <1>10, <1>11, PasvPostTurns
<1>13. QED
  BY <1>1, <1>6, <1>12, OwesTurns DEF f, Carried, Turned

-----------------------------------------------------------------------------
\* The invariant, and the theorems.

\* A new host waits for its connection.
LEMMA StartsTurn == Init => TInv
<1> SUFFICES ASSUME Init PROVE TInv
  OBVIOUS
<1>1. PICK t \in BOOLEAN : h = [NewHost EXCEPT !.tick = t]
  BY DEF Init
<1>2. /\ TurnFields \subseteq DOMAIN h
      /\ h.state = "S_INITIAL" /\ h.terminationCode = "UNSET" /\ ~h.hostIsFinished
      /\ h.freed = FALSE /\ h.fault = "none" /\ h.conn = "connecting" /\ h.ctrlUsingSec = FALSE
      /\ h.secType = "SEC_UNK" /\ h.secProbe = FALSE /\ h.secProbeStorage = "UNSET"
      /\ h.delayedCtrlCB = "none" /\ h.sent = <<>> /\ h.savedReqTimer = FALSE
      /\ h.multiRespTimer = FALSE /\ h.resetWaitTimer = FALSE /\ h.retrWaitTimer = FALSE
      /\ h.listErrCount = 0 /\ h.listResp = 0 /\ h.connects = 1
  BY <1>1 DEF NewHost, TurnFields
<1>3. owed = 0 /\ IInv
  BY StartsKept DEF Init
<1>4. LIST_ERROR_CUTOFF \in Nat \ {0}
  BY HostStateAssumption
<1>5. Later(h) = "none" /\ ~Waits(h) /\ ~Stored(h) /\ ~Listed(h)
  BY <1>2 DEF Later, Waits, Stored, Listed
<1>6. OneTurn(h, 0) /\ Secured(h, 0) /\ Provided(h, 0)
  BY <1>2, <1>5 DEF OneTurn, Secured, Provided, LoginStates
<1>7. Walked(h, 0) /\ Remembered(h, 0)
  BY <1>2, <1>4, <1>5 DEF Walked, Remembered
<1>8. QED
  BY <1>2, <1>3, <1>4, <1>5, <1>6, <1>7, StartsTyped DEF TInv, InTurn, Tame, Excused

\* Every step passes the turn on.
LEMMA NextCarries ==
  ASSUME Orderly, TInv, Next
  PROVE  Carried
BY ReadCarries, EarlyCarries, ConnectedCarries, ProtectedCarries, ErrorCarries,
   EofCarries, TimeoutCarries, SavedCarries, AnswerCarries, ResetCarries, RetrCarries,
   UnnoticedCarries, OverflowCarries, ClosedCarries, RefusedCarries, StaleCarries,
   HauntedCarries
DEF Next, Control, Timer, Data, Haunted

LEMMA TurnKeeps ==
  ASSUME Orderly, TInv, [Next]_vars
  PROVE  TInv'
<1>1. CASE Next
  BY <1>1, NextCarries, NextSteps, StepKeeps, NextTyped DEF TInv, Carried
<1>2. CASE UNCHANGED vars
  BY <1>2, NextTyped DEF TInv, vars, IInv, Kept, Alive
<1>3. QED
  BY <1>1, <1>2

\* While each reply answers a request, one of the server, a delayed request, a timer
\* and the data channel has the turn, and a handler finds what it relies on: a login
\* its first reply, a transfer its data channel, a probe its failure, and after the
\* last error nothing but QUIT (ctrl_read_cb, ctrl_event_cb, the timers).
THEOREM TurnInvariant == Orderly => (Spec => []TInv)
<1> SUFFICES ASSUME Orderly PROVE Spec => []TInv
  OBVIOUS
<1>1. Init => TInv
  BY StartsTurn
<1>2. TInv /\ [Next]_vars => TInv'
  BY TurnKeeps
<1>3. QED
  BY <1>1, <1>2, PTL DEF Spec

\* Connections that break, fall silent, end early or bring too much leave the session
\* in step, and so does a protected transfer announced too early: no assert fails,
\* nothing is asked for without a channel, and freed memory or a missing data channel
\* is used, or a session ended twice, only where InStep says (multi_resp_setup,
\* read_auth_tls_resp, data_close_channel, ctrl_event_init_state, data_tls_init).
THEOREM StaysInStep == Orderly => (Spec => []InStep)
<1> SUFFICES ASSUME Orderly PROVE Spec => []InStep
  OBVIOUS
<1>1. TInv => InStep
  BY DEF TInv, InTurn, Late, Excused, InStep
<1>2. QED
  BY <1>1, TurnInvariant, PTL

\* With a server that does no more than drop the connection or fall silent, and that
\* announces a protected transfer only once its data connection stands, no step does
\* what C leaves undefined, fails an assert or loses a timer (data_tls_init).
THEOREM FaultFree == Surprises \subseteq {"drop"} => (Spec => []NoFault)
<1> SUFFICES ASSUME Surprises \subseteq {"drop"} PROVE Spec => []NoFault
  OBVIOUS
<1>1. Orderly
  BY DEF Orderly
<1>2. TInv => NoFault
  <2>1. /\ ~Rude("overflow") /\ ~Rude("early_read") /\ ~Rude("data_first")
        /\ ~Rude("late_data")
    BY DEF Rude
  <2>2. QED
    BY <2>1 DEF TInv, InTurn, Late, Excused, NoFault
<1>3. QED
  BY <1>1, <1>2, TurnInvariant, PTL

\* After LIST_ERROR_CUTOFF errors no directory is listed any more: the count never
\* steps over the cutoff it is compared with (list_failed).
THEOREM CutsErrorsOff == Orderly => (Spec => []ErrorsCutOff)
<1> SUFFICES ASSUME Orderly PROVE Spec => []ErrorsCutOff
  OBVIOUS
<1>1. TInv => ErrorsCutOff
  <2> SUFFICES ASSUME TInv PROVE ErrorsCutOff
    OBVIOUS
  <2>1. h.listErrCount \in 0..LIST_ERROR_CUTOFF
        /\ (h.listErrCount = LIST_ERROR_CUTOFF => ~Listed(h))
    BY DEF TInv, InTurn, Late
  <2>2. LIST_ERROR_CUTOFF \in Nat
    BY HostStateAssumption
  <2>3. "LIST" \in {h.sent[i] : i \in DOMAIN h.sent} => Listed(h)
    BY DEF Listed
  <2>4. QED
    BY <2>1, <2>2, <2>3 DEF ErrorsCutOff
<1>2. QED
  BY <1>1, TurnInvariant, PTL

\* The answer to LIST is recorded once for each directory, as translateRecords.py
\* asserts (read_list_resp, walk_dir).
THEOREM RecordsOnce == Orderly => (Spec => []RecordedOnce)
<1> SUFFICES ASSUME Orderly PROVE Spec => []RecordedOnce
  OBVIOUS
<1>1. TInv => RecordedOnce
  BY DEF TInv, InTurn, Late, RecordedOnce
<1>2. QED
  BY <1>1, TurnInvariant, PTL

\* A login that failed is not forgotten over the probe for TLS: on its first
\* connection the host never ends in success, and after QUIT it ends in the failure
\* that was kept, or in PBSZ's refusal (setup_middle_optional_sec_check, post_middle).
THEOREM KeepsVerdict == Orderly => (Spec => []VerdictKept)
<1> SUFFICES ASSUME Orderly PROVE Spec => []VerdictKept
  OBVIOUS
<1>1. TInv => VerdictKept
  BY DEF TInv, InTurn, Late, Judged, Stored, VerdictKept
<1>2. QED
  BY <1>1, TurnInvariant, PTL

\* After QUIT nothing is sent any more, neither by its reply, nor by a timer, nor by
\* the end of the data channel (read_quit_resp, ctrl_event_cb, sendSpigot_cb).
THEOREM NothingAfterQuit == Orderly => (Spec => QuitIsLast)
<1> SUFFICES ASSUME Orderly PROVE Spec => QuitIsLast
  OBVIOUS
<1>1. TInv /\ [Next]_vars => [h.state = "S_QUIT_SENT" => h'.sent = <<>>]_vars
  <2>1. ASSUME TInv, Next
        PROVE  h.state = "S_QUIT_SENT" => h'.sent = <<>>
    BY <2>1, NextCarries DEF Carried
  <2>2. QED
    BY <2>1
<1>2. QED
  BY <1>1, TurnInvariant, PTL DEF Spec, QuitIsLast
=============================================================================
