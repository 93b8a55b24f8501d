----------------------------- MODULE Scheduler -----------------------------
(***************************************************************************)
(* The threads of tools/ftpEnumerator.c: readstdin feeds the queue of      *)
(* addresses, the worker's reload callback takes addresses off it once a   *)
(* second and starts at most maxConcurConn hosts at a time, and main joins *)
(* them and writes the metadata file.  A host is only its life cycle here: *)
(* what it does between its start and its end is module CtrlSession.       *)
(*                                                                         *)
(* The queue's mutex makes ip_enqueue and ip_dequeue atomic.  Nothing else *)
(* is: reload takes an address in one step and reads readinFinished in a   *)
(* later one, and the reader may run in between.                           *)
(*                                                                         *)
(* Covered: a connection attempt that libevent fails at once, which        *)
(* crashes the program and takes all its threads with it.  Not covered:    *)
(* crashes inside a session (module CtrlSession has those).                *)
(***************************************************************************)
EXTENDS Integers, Sequences, FiniteSets

CONSTANTS
  Inputs,          \* the possible contents of stdin: sequences of lines
  BadLine,         \* a line readstdin refuses (illegal size or format)
  maxConcurConn,   \* command line option -r
  Unconnectable    \* the addresses bufferevent_socket_connect fails on at once

\* ip_dequeue answers 0 for "the queue is empty", and 0 is also the address
\* 0.0.0.0, which readstdin accepts.
NoAddress == 0

ASSUME SchedulerAssumption ==
  /\ maxConcurConn \in Nat \ {0}
  /\ BadLine \notin Nat
  /\ Inputs \subseteq Seq(Nat \cup {BadLine})
  /\ Unconnectable \subseteq Nat

VARIABLES
  input,            \* the lines on stdin, fixed at the start
  nread,            \* how many of them readstdin has taken
  readinFinished,   \* gconfig.readinFinished: readstdin has met the end
  ipQueue,          \* gconfig.ipQueue, first element first
  reloadEvent,      \* the persistent one-second event of reload exists
  wpc,              \* where the worker thread is: see WorkerPlaces
  left,             \* in reload: numAvailConn - i
  hand,             \* in reload: ip, the last answer of ip_dequeue
  hosts,            \* one record per connect_new, in order
  open_connections, \* gconfig.open_connections
  count_attempts,   \* gconfig.count_attempts
  countComplete,    \* gconfig.countComplete
  main,             \* where the main thread is: see MainPlaces
  gFinished,        \* tells status_updates to return
  status,           \* the status thread: "running" or "returned"
  metadata,         \* the counters in the metadata file, or NoMetadata
  eofAtLastEmpty    \* history: readinFinished when ip_dequeue last answered 0

readerVars == <<input, nread, readinFinished>>
reloadVars == <<reloadEvent, left, hand, eofAtLastEmpty>>
hostVars == <<hosts, open_connections, count_attempts, countComplete>>
mainVars == <<main, gFinished, status, metadata>>
vars == <<readerVars, ipQueue, wpc, reloadVars, hostVars, mainVars>>

WorkerPlaces == {"loop", "dequeue", "test", "returned", "crashed"}
MainPlaces == {"joinWorker", "joinInput", "joinStatus", "done"}
NoMetadata == [targets |-> -1, completed |-> -1]

HostStatus == {"open", "ended"}
HostRecord == [ip : Nat, status : HostStatus]

\* The crash of the worker ends the process, whatever its other threads do.
Running == wpc # "crashed"

Init ==
  /\ input \in Inputs
  /\ nread = 0
  /\ readinFinished = FALSE
  /\ ipQueue = <<>>
  /\ reloadEvent = TRUE
  /\ wpc = "loop"
  /\ left = 0
  /\ hand = NoAddress
  /\ hosts = <<>>
  /\ open_connections = 0
  /\ count_attempts = 0
  /\ countComplete = 0
  /\ main = "joinWorker"
  /\ gFinished = FALSE
  /\ status = "running"
  /\ metadata = NoMetadata
  /\ eofAtLastEmpty = FALSE

-----------------------------------------------------------------------------
\* The thread readstdin.

\* A plausible bug: the new node goes in front of the queue.
ip_enqueue_front(ip) == ipQueue' = <<ip>> \o ipQueue

ip_enqueue(ip) == ipQueue' = Append(ipQueue, ip)

\* A plausible bug: a refused line ends the loop instead of being skipped.
readstdin_line_break ==
  /\ Running /\ ~readinFinished
  /\ nread < Len(input)
  /\ nread' = nread + 1
  /\ IF input[nread + 1] = BadLine
     THEN /\ readinFinished' = TRUE
          /\ UNCHANGED ipQueue
     ELSE /\ ip_enqueue(input[nread + 1])
          /\ UNCHANGED readinFinished
  /\ UNCHANGED <<input, wpc, reloadVars, hostVars, mainVars>>

\* A plausible bug: the format of a line is not looked at.
readstdin_line_unchecked ==
  /\ Running /\ ~readinFinished
  /\ nread < Len(input)
  /\ nread' = nread + 1
  /\ ip_enqueue(input[nread + 1])
  /\ UNCHANGED <<input, readinFinished, wpc, reloadVars, hostVars, mainVars>>

\* One turn of the read loop: a good line is queued, a bad one is skipped.
readstdin_line ==
  /\ Running /\ ~readinFinished
  /\ nread < Len(input)
  /\ nread' = nread + 1
  /\ \/ /\ input[nread + 1] # BadLine
        /\ ip_enqueue(input[nread + 1])
     \/ /\ input[nread + 1] = BadLine
        /\ UNCHANGED ipQueue
  /\ UNCHANGED <<input, readinFinished, wpc, reloadVars, hostVars, mainVars>>

\* getline fails: the thread raises readinFinished and returns.
readstdin_eof ==
  /\ Running /\ ~readinFinished
  /\ nread = Len(input)
  /\ readinFinished' = TRUE
  /\ UNCHANGED <<input, nread, ipQueue, wpc, reloadVars, hostVars, mainVars>>

-----------------------------------------------------------------------------
\* The worker thread: one event loop, in which reload is one callback and
\* every host has callbacks of its own.

\* A plausible bug: the connections that are already open are not subtracted.
numAvailConn_total == maxConcurConn

numAvailConn == maxConcurConn - open_connections

\* The reload event fires; the number of turns is fixed here.
reload_begin ==
  /\ wpc = "loop"
  /\ reloadEvent
  /\ left' = numAvailConn
  /\ wpc' = "dequeue"
  /\ UNCHANGED <<readerVars, ipQueue, reloadEvent, hand, eofAtLastEmpty,
                 hostVars, mainVars>>

\* The for loop runs out of turns.
reload_full ==
  /\ wpc = "dequeue"
  /\ left <= 0
  /\ wpc' = "loop"
  /\ UNCHANGED <<readerVars, ipQueue, reloadVars, hostVars, mainVars>>

\* ip_dequeue, under the queue's mutex.
reload_dequeue ==
  /\ wpc = "dequeue"
  /\ left > 0
  /\ \/ /\ ipQueue = <<>>
        /\ hand' = NoAddress
        /\ eofAtLastEmpty' = readinFinished
        /\ UNCHANGED ipQueue
     \/ /\ ipQueue # <<>>
        /\ hand' = Head(ipQueue)
        /\ ipQueue' = Tail(ipQueue)
        /\ eofAtLastEmpty' = IF hand' = NoAddress THEN readinFinished
                                                  ELSE eofAtLastEmpty
  /\ wpc' = "test"
  /\ UNCHANGED <<readerVars, reloadEvent, left, hostVars, mainVars>>

\* A plausible bug: the event is only deleted when a host was started before.
reload_end_of_queue_lazy ==
  /\ wpc = "test"
  /\ hand = NoAddress
  /\ reloadEvent' = ~(readinFinished /\ open_connections > 0)
  /\ wpc' = "loop"
  /\ UNCHANGED <<readerVars, ipQueue, left, hand, eofAtLastEmpty, hostVars,
                 mainVars>>

\* The answer was 0: reload returns, and never comes back if readinFinished
\* is set NOW, which may be later than the moment the queue was empty.
reload_end_of_queue ==
  /\ wpc = "test"
  /\ hand = NoAddress
  /\ reloadEvent' = ~readinFinished
  /\ wpc' = "loop"
  /\ UNCHANGED <<readerVars, ipQueue, left, hand, eofAtLastEmpty, hostVars,
                 mainVars>>

\* connect_new, ctrl_init and ctrl_connect.  The slot is taken before the
\* connection is tried.  If connect fails at once libevent 2.0.21 runs
\* ctrl_event_cb with BEV_EVENT_ERROR before bufferevent_socket_connect
\* returns: end_channel_now reads state->ctrlBev, which ctrl_connect only sets
\* afterwards, and NULL is read through.  The branch for rc < 0 is never reached.
reload_connect_new ==
  /\ wpc = "test"
  /\ hand # NoAddress
  /\ hosts' = Append(hosts, [ip |-> hand, status |-> "open"])
  /\ count_attempts' = count_attempts + 1
  /\ open_connections' = open_connections + 1
  /\ left' = left - 1
  /\ \/ hand \notin Unconnectable /\ wpc' = "dequeue"
     \/ hand \in Unconnectable /\ wpc' = "crashed"
  /\ UNCHANGED <<readerVars, ipQueue, reloadEvent, hand, eofAtLastEmpty,
                 countComplete, mainVars>>

\* A plausible bug: the slot of a finished host is not given back.
end_channel_now_keep(k) ==
  /\ wpc = "loop"
  /\ hosts[k].status = "open"
  /\ hosts' = [hosts EXCEPT ![k].status = "ended"]
  /\ countComplete' = countComplete + 1
  /\ UNCHANGED <<readerVars, ipQueue, wpc, reloadVars, open_connections,
                 count_attempts, mainVars>>

\* A callback of host k reaches end_channel_now.  Host callbacks run in the
\* event loop, so never while reload is running.
end_channel_now(k) ==
  /\ wpc = "loop"
  /\ hosts[k].status = "open"
  /\ hosts' = [hosts EXCEPT ![k].status = "ended"]
  /\ open_connections' = open_connections - 1
  /\ countComplete' = countComplete + 1
  /\ UNCHANGED <<readerVars, ipQueue, wpc, reloadVars, count_attempts, mainVars>>

\* A plausible bug: the loop is left as soon as the reload event is gone.
worker_returns_early ==
  /\ wpc = "loop"
  /\ ~reloadEvent
  /\ wpc' = "returned"
  /\ UNCHANGED <<readerVars, ipQueue, reloadVars, hostVars, mainVars>>

\* event_base_dispatch returns when no event is left: reload's is deleted and
\* no host has a bufferevent.
worker_returns ==
  /\ wpc = "loop"
  /\ ~reloadEvent
  /\ \A k \in DOMAIN hosts : hosts[k].status # "open"
  /\ wpc' = "returned"
  /\ UNCHANGED <<readerVars, ipQueue, reloadVars, hostVars, mainVars>>

-----------------------------------------------------------------------------
\* The main and the status threads.

main_join_worker ==
  /\ main = "joinWorker"
  /\ wpc = "returned"
  /\ main' = "joinInput"
  /\ UNCHANGED <<readerVars, ipQueue, wpc, reloadVars, hostVars, gFinished,
                 status, metadata>>

main_join_input ==
  /\ Running
  /\ main = "joinInput"
  /\ readinFinished
  /\ main' = "joinStatus"
  /\ gFinished' = TRUE
  /\ UNCHANGED <<readerVars, ipQueue, wpc, reloadVars, hostVars, status,
                 metadata>>

\* status_updates wakes up from its sleep and sees gFinished.
status_updates ==
  /\ Running
  /\ status = "running"
  /\ gFinished
  /\ status' = "returned"
  /\ UNCHANGED <<readerVars, ipQueue, wpc, reloadVars, hostVars, main,
                 gFinished, metadata>>

main_write_metadata ==
  /\ Running
  /\ main = "joinStatus"
  /\ status = "returned"
  /\ main' = "done"
  /\ metadata' = [targets |-> count_attempts, completed |-> countComplete]
  /\ UNCHANGED <<readerVars, ipQueue, wpc, reloadVars, hostVars, gFinished,
                 status>>

-----------------------------------------------------------------------------
readstdin == readstdin_line \/ readstdin_eof

reload == \/ reload_begin \/ reload_full \/ reload_dequeue
          \/ reload_end_of_queue \/ reload_connect_new

Next ==
  \/ readstdin
  \/ reload
  \/ \E k \in DOMAIN hosts : end_channel_now(k)
  \/ worker_returns
  \/ main_join_worker \/ main_join_input \/ main_write_metadata
  \/ status_updates

Spec == Init /\ [][Next]_vars

\* stdin ends, every thread is scheduled, the reload timer is persistent, and
\* every host ends: libevent runs an active host callback before it waits
\* again, and READ_TIMEOUT makes one active for a host that stays silent.
\* Host callbacks share the thread with reload, hence strong fairness.
MaxHosts == Cardinality(UNION {DOMAIN s : s \in Inputs})

LiveSpec ==
  /\ Spec
  /\ WF_vars(readstdin)
  /\ WF_vars(reload)
  /\ \A k \in 1..MaxHosts :
       SF_vars(k \in DOMAIN hosts /\ end_channel_now(k))
  /\ WF_vars(worker_returns)
  /\ WF_vars(main_join_worker \/ main_join_input \/ main_write_metadata)
  /\ WF_vars(status_updates)

-----------------------------------------------------------------------------
TypeOK ==
  /\ input \in Seq(Nat \cup {BadLine})
  /\ nread \in Nat
  /\ readinFinished \in BOOLEAN
  /\ ipQueue \in Seq(Nat)
  /\ reloadEvent \in BOOLEAN
  /\ wpc \in WorkerPlaces
  /\ left \in Int
  /\ hand \in Nat
  /\ hosts \in Seq(HostRecord)
  /\ open_connections \in Int
  /\ count_attempts \in Nat
  /\ countComplete \in Nat
  /\ main \in MainPlaces
  /\ gFinished \in BOOLEAN
  /\ status \in {"running", "returned"}
  /\ metadata \in [targets : Int, completed : Int]
  /\ eofAtLastEmpty \in BOOLEAN

\* At no time are more control connections open than option -r allows,
\* although reload computes the free slots once and then starts hosts in a
\* loop (reload, ctrl_init, end_channel_now).
SlotBound == open_connections <= maxConcurConn

\* Every slot is accounted for: the counter that reload trusts is exactly the
\* number of hosts that were started and have not gone through
\* end_channel_now, and the two progress counters add up with it.
Accounting ==
  /\ count_attempts = Len(hosts)
  /\ open_connections =
       Cardinality({k \in DOMAIN hosts : hosts[k].status # "ended"})
  /\ countComplete + open_connections = count_attempts

IsAddress(line) == line # BadLine /\ line # NoAddress
InHand == IF wpc = "test" /\ hand # NoAddress THEN <<hand>> ELSE <<>>
Attempted == [k \in DOMAIN hosts |-> hosts[k].ip]

\* s is the first n lines of the input, in their order, with nothing left out
\* but lines that are no address: at says which line each element is.
KeptOf(n, s) ==
  \E at \in [DOMAIN s -> 1..n] :
    /\ \A i, j \in DOMAIN s : i < j => at[i] < at[j]
    /\ \A i \in DOMAIN s : s[i] = input[at[i]]
    /\ \A m \in 1..n : IsAddress(input[m]) => \E i \in DOMAIN s : at[i] = m

\* No address is lost, repeated or overtaken between readstdin and
\* connect_new: the attempts, the address reload holds and the queue, put
\* together, are the addresses read so far (0.0.0.0 may be among them until
\* it is dequeued), and nothing else is attempted.
InOrder ==
  /\ KeptOf(nread, Attempted \o InHand \o ipQueue)
  /\ \A k \in DOMAIN hosts : IsAddress(Attempted[k])

\* What ftpEnumerator.c:4-6 says of the program: it attempts to connect to
\* each address of its input.  0.0.0.0 is left out here.
EveryAddressAttempted ==
  main = "done" => KeptOf(Len(input), Attempted)

\* The same promise when the queue was last found empty after readstdin had
\* finished and the input has no 0.0.0.0: nothing is lost.
AttemptedWhenEofSeenFirst ==
  main = "done" /\ eofAtLastEmpty /\ NoAddress \notin {input[i] : i \in DOMAIN input}
    => KeptOf(Len(input), Attempted)

\* The metadata that main writes after its joins is final: no host is at work
\* any more, each target has completed, and none of them was an address whose
\* connection fails at once (such a run crashes and writes no metadata).
MetadataIsFinal ==
  metadata # NoMetadata =>
    /\ metadata.targets = Len(hosts)
    /\ metadata.completed = Len(hosts)
    /\ \A k \in DOMAIN hosts :
         hosts[k].status = "ended" /\ hosts[k].ip \notin Unconnectable

\* The program ends: the worker runs out of events, main joins the threads
\* and writes the metadata.  Nothing but an attempt on an address whose
\* connection fails at once keeps it from that.
Terminates ==
  <>(main = "done" \/ \E k \in DOMAIN hosts : hosts[k].ip \in Unconnectable)
=============================================================================
