------------------------------- MODULE HostLife -------------------------------
(***************************************************************************)
(* What a host promises to everything outside its own session: to the      *)
(* scheduler, whose slot it holds, and to the server it visits.  It is     *)
(* connected a few times and then ends for good, with a result, and over   *)
(* all its connections it costs the server a bounded number of requests.   *)
(* CtrlSession implements it; Scheduler counts on the end.                 *)
(***************************************************************************)
EXTENDS Naturals

CONSTANTS
  MaxRequests,  \* on all connections together
  MaxConnects,
  LateCrash     \* BOOLEAN: can an event that outlives the session crash the program?

VARIABLES
  phase,     \* "connecting", "talking", "ended", or "crashed" with the program
  connects,
  spent,     \* requests sent, and the one that is delayed
  result

vars == <<phase, connects, spent, result>>

Results == {"PLEASANT", "RUDE", "ABRUPT"}
Living == phase \in {"connecting", "talking"}

Spends == spent' \in spent..MaxRequests

Connect ==
  /\ phase = "connecting" /\ phase' = "talking"
  /\ Spends
  /\ UNCHANGED <<connects, result>>

\* Requests go out also while a new connection is made: a delayed one may.
Talk ==
  /\ Living
  /\ Spends
  /\ UNCHANGED <<phase, connects, result>>

\* A new connection gives back nothing but the delayed request.
Reconnect ==
  /\ Living /\ phase' = "connecting"
  /\ connects < MaxConnects /\ connects' = connects + 1
  /\ spent' \in {spent - 1, spent}
  /\ UNCHANGED result

\* Only an open connection is left politely, and only after a request.  A QUIT
\* delayed on one connection can go out on the next, which then ends rudely.
End(how) ==
  /\ Living /\ phase' = "ended"
  /\ how # "ABRUPT" => spent > 0
  /\ how = "PLEASANT" => phase = "talking"
  /\ result' = how
  /\ spent' \in (spent - 1)..MaxRequests
  /\ UNCHANGED connects

Crash ==
  /\ Living /\ phase' = "crashed"
  /\ spent' \in (spent - 1)..MaxRequests
  /\ result' \in Results \cup {"none"}
  /\ connects' \in connects..MaxConnects

\* The session was over, and costs nobody anything more.
CrashLate ==
  /\ LateCrash
  /\ phase = "ended" /\ phase' = "crashed"
  /\ result' \in Results
  /\ UNCHANGED <<connects, spent>>

Init == phase = "connecting" /\ connects = 1 /\ spent = 0 /\ result = "none"

Next == Connect \/ Talk \/ Reconnect \/ (\E how \in Results : End(how)) \/ Crash
        \/ CrashLate

Spec == Init /\ [][Next]_vars

\* What the scheduler counts on.
LiveSpec == Spec /\ <>(phase \in {"ended", "crashed"})
===============================================================================
