-------------------------- MODULE SchedulerProofs --------------------------
(***************************************************************************)
(* Theorems about Scheduler for every input and every number of slots.     *)
(***************************************************************************)
EXTENDS Scheduler, FiniteSetTheorems, SequenceTheorems, TLAPS

\* The hosts that hold a slot: started, and not through end_channel_now.
Holding(hs) == {k \in DOMAIN hs : hs[k].status # "ended"}

\* Inside reload the turns that are left never exceed the free slots, and
\* reload only looks at an answer of ip_dequeue when a turn is left.
ReloadRoom ==
  /\ wpc \in {"dequeue", "test"} => left <= maxConcurConn - open_connections
  /\ wpc = "test" => left > 0

\* The inductive invariant.
IInv == TypeOK /\ SlotBound /\ Accounting /\ ReloadRoom

\* The slot holders are finitely many, as many as the hosts at most.
LEMMA HoldingFinite ==
  ASSUME NEW hs \in Seq(HostRecord)
  PROVE  IsFiniteSet(Holding(hs)) /\ Cardinality(Holding(hs)) \in Nat
<1>1. IsFiniteSet(1..Len(hs))
  BY FS_Interval
<1>2. Holding(hs) \subseteq 1..Len(hs)
  BY DEF Holding
<1>3. QED
  BY <1>1, <1>2, FS_Subset, FS_CardinalityType

\* A host that was just started adds one slot holder.
LEMMA HoldingAppend ==
  ASSUME NEW hs \in Seq(HostRecord), NEW h \in HostRecord, h.status # "ended"
  PROVE  Cardinality(Holding(Append(hs, h))) = Cardinality(Holding(hs)) + 1
<1>1. Holding(Append(hs, h)) = Holding(hs) \cup {Len(hs) + 1}
  BY DEF Holding
<1>2. Len(hs) + 1 \notin Holding(hs)
  BY DEF Holding
<1>3. QED
  BY <1>1, <1>2, HoldingFinite, FS_AddElement

\* A host that ends removes one slot holder.
LEMMA HoldingEnd ==
  ASSUME NEW hs \in Seq(HostRecord), NEW k \in DOMAIN hs,
         hs[k].status = "open"
  PROVE  Cardinality(Holding([hs EXCEPT ![k].status = "ended"]))
           = Cardinality(Holding(hs)) - 1
<1>1. Holding([hs EXCEPT ![k].status = "ended"]) = Holding(hs) \ {k}
  BY DEF Holding, HostRecord
<1>2. k \in Holding(hs)
  BY DEF Holding
<1>3. QED
  BY <1>1, <1>2, HoldingFinite, FS_RemoveElement

\* The inductive invariant holds at the start.
LEMMA IInvInit == Init => IInv
<1> SUFFICES ASSUME Init PROVE IInv
  OBVIOUS
<1>1. TypeOK
  <2>1. input \in Seq(Nat \cup {BadLine})
    BY SchedulerAssumption DEF SchedulerAssumption, Init
  <2>2. metadata \in [targets : Int, completed : Int]
    BY DEF Init, NoMetadata
  <2>3. ipQueue \in Seq(Nat) /\ hosts \in Seq(HostRecord)
    BY DEF Init
  <2>4. /\ readinFinished \in BOOLEAN
        /\ reloadEvent \in BOOLEAN
        /\ gFinished \in BOOLEAN
        /\ eofAtLastEmpty \in BOOLEAN
    BY DEF Init
  <2>5. wpc \in WorkerPlaces /\ main \in MainPlaces
    BY DEF Init, WorkerPlaces, MainPlaces
  <2>6. nread \in Nat /\ left \in Int /\ hand \in Nat /\ open_connections \in Int
          /\ count_attempts \in Nat /\ countComplete \in Nat
    BY DEF Init, NoAddress
  <2>7. status \in {"running", "returned"}
    BY DEF Init
  <2>8. QED
    BY <2>1, <2>2, <2>3, <2>4, <2>5, <2>6, <2>7 DEF TypeOK
<1>2. {k \in DOMAIN hosts : hosts[k].status # "ended"} = {}
  BY DEF Init
<1>3. Accounting
  BY <1>2, FS_EmptySet DEF Init, Accounting
<1>4. SlotBound /\ ReloadRoom
  BY SchedulerAssumption DEF SchedulerAssumption, Init, SlotBound, ReloadRoom
<1>5. QED
  BY <1>1, <1>3, <1>4 DEF IInv

\* Every step keeps the types.
LEMMA TypeStep == TypeOK /\ [Next]_vars => TypeOK'
<1> SUFFICES ASSUME TypeOK, [Next]_vars PROVE TypeOK'
  OBVIOUS
<1> USE DEF TypeOK, readerVars, reloadVars, hostVars, mainVars
<1>1. CASE readstdin_line
  <2>1. input[nread + 1] \in Nat \cup {BadLine}
    BY <1>1 DEF readstdin_line
  <2>2. ipQueue' \in Seq(Nat)
    <3>1. CASE input[nread + 1] # BadLine
      <4>1. ipQueue' = Append(ipQueue, input[nread + 1])
        BY <1>1, <3>1 DEF readstdin_line, ip_enqueue
      <4>2. input[nread + 1] \in Nat
        BY <2>1, <3>1
      <4>3. QED
        BY <4>1, <4>2, AppendProperties
    <3>2. CASE input[nread + 1] = BadLine
      BY <1>1, <3>2 DEF readstdin_line
    <3>3. QED
      BY <3>1, <3>2
  <2>3. nread' \in Nat
    BY <1>1 DEF readstdin_line
  <2>4. QED
    BY <1>1, <2>2, <2>3 DEF readstdin_line
<1>2. CASE readstdin_eof
  BY <1>2 DEF readstdin_eof
<1>3. CASE reload_begin
  BY <1>3, SchedulerAssumption
     DEF reload_begin, numAvailConn, WorkerPlaces, SchedulerAssumption
<1>4. CASE reload_full
  BY <1>4 DEF reload_full, WorkerPlaces
<1>5. CASE reload_dequeue
  <2>1. ipQueue' \in Seq(Nat) /\ hand' \in Nat
    <3>1. CASE ipQueue = <<>>
      BY <1>5, <3>1 DEF reload_dequeue, NoAddress
    <3>2. CASE ipQueue # <<>>
      <4>1. ipQueue' = Tail(ipQueue) /\ hand' = Head(ipQueue)
        BY <1>5, <3>2 DEF reload_dequeue
      <4>2. QED
        BY <3>2, <4>1, HeadTailProperties
    <3>3. QED
      BY <3>1, <3>2
  <2>2. eofAtLastEmpty' \in BOOLEAN
    BY <1>5 DEF reload_dequeue
  <2>3. wpc' \in WorkerPlaces
    BY <1>5 DEF reload_dequeue, WorkerPlaces
  <2>4. QED
    BY <1>5, <2>1, <2>2, <2>3 DEF reload_dequeue
<1>6. CASE reload_end_of_queue
  BY <1>6 DEF reload_end_of_queue, WorkerPlaces
<1>7. CASE reload_connect_new
  BY <1>7 DEF reload_connect_new, HostRecord, HostStatus, WorkerPlaces
<1>8. ASSUME NEW k \in DOMAIN hosts, end_channel_now(k) PROVE TypeOK'
  <2>1. [hosts[k] EXCEPT !.status = "ended"] \in HostRecord
    <3>1. hosts[k] \in HostRecord
      BY ElementOfSeq
    <3>2. QED
      BY <3>1 DEF HostRecord, HostStatus
  <2>2. hosts' = [hosts EXCEPT ![k] = [hosts[k] EXCEPT !.status = "ended"]]
    BY <1>8 DEF end_channel_now
  <2>3. hosts' \in Seq(HostRecord)
    BY <2>1, <2>2, ExceptSeq
  <2>4. QED
    BY SMTT(30), <1>8, <2>3 DEF end_channel_now
<1>9. CASE worker_returns
  BY <1>9 DEF worker_returns, WorkerPlaces
<1>10. CASE main_join_worker
  BY <1>10 DEF main_join_worker, MainPlaces
<1>11. CASE main_join_input
  BY <1>11 DEF main_join_input, MainPlaces
<1>12. CASE main_write_metadata
  BY <1>12 DEF main_write_metadata, MainPlaces
<1>13. CASE status_updates
  BY <1>13 DEF status_updates
<1>14. CASE UNCHANGED vars
  BY <1>14 DEF vars
<1>15. QED
  BY <1>1, <1>2, <1>3, <1>4, <1>5, <1>6, <1>7, <1>8, <1>9, <1>10, <1>11, <1>12, <1>13, <1>14 DEF Next, readstdin, reload

\* Every step keeps the account of the slots and the room reload counts on.
LEMMA SlotStep ==
  IInv /\ [Next]_vars => SlotBound' /\ Accounting' /\ ReloadRoom'
<1> SUFFICES ASSUME IInv, [Next]_vars
             PROVE  SlotBound' /\ Accounting' /\ ReloadRoom'
  OBVIOUS
<1> DEFINE H == Cardinality(Holding(hosts))
<1> USE SchedulerAssumption DEF SchedulerAssumption
<1>1. /\ hosts \in Seq(HostRecord)
      /\ open_connections \in Int /\ left \in Int
      /\ count_attempts \in Nat /\ countComplete \in Nat
  BY DEF IInv, TypeOK
<1>2. /\ count_attempts = Len(hosts)
      /\ open_connections = H
      /\ countComplete + open_connections = count_attempts
  BY DEF IInv, Accounting, Holding
<1>3. ReloadRoom /\ SlotBound
  BY DEF IInv
<1>4. CASE UNCHANGED hostVars /\ UNCHANGED <<wpc, left>>
  BY <1>4, <1>2, <1>3
     DEF hostVars, SlotBound, Accounting, ReloadRoom, Holding
<1>5. CASE reload_begin
  BY <1>5, <1>1, <1>2, <1>3
     DEF reload_begin, hostVars, SlotBound, Accounting, ReloadRoom, Holding,
         numAvailConn
<1>6. CASE reload_full \/ reload_end_of_queue
  BY <1>6, <1>2, <1>3
     DEF reload_full, reload_end_of_queue, hostVars, SlotBound, Accounting,
         ReloadRoom, Holding
<1>7. CASE reload_dequeue
  BY <1>7, <1>2, <1>3
     DEF reload_dequeue, hostVars, SlotBound, Accounting, ReloadRoom, Holding
<1>8. CASE reload_connect_new
  <2> DEFINE new == [ip |-> hand, status |-> "open"]
  <2>1. new \in HostRecord /\ new.status # "ended"
    BY DEF IInv, TypeOK, HostRecord, HostStatus
  <2>2. hosts' = Append(hosts, new)
    BY <1>8 DEF reload_connect_new
  <2> HIDE DEF new
  <2>3. Cardinality(Holding(hosts')) = H + 1
    BY <1>1, <2>1, <2>2, HoldingAppend
  <2>4. Len(hosts') = Len(hosts) + 1
    BY <1>1, <2>1, <2>2, AppendProperties
  <2>5. /\ count_attempts' = count_attempts + 1
        /\ open_connections' = open_connections + 1
        /\ left' = left - 1
        /\ countComplete' = countComplete
        /\ wpc = "test" /\ wpc' \in {"dequeue", "crashed"}
    BY <1>8 DEF reload_connect_new
  <2>6. Accounting'
    BY <1>1, <1>2, <2>3, <2>4, <2>5 DEF Accounting, Holding
  <2>7. SlotBound' /\ ReloadRoom'
    BY <1>1, <1>3, <2>5 DEF SlotBound, ReloadRoom
  <2>8. QED
    BY <2>6, <2>7
<1>9. ASSUME NEW k \in DOMAIN hosts, end_channel_now(k)
      PROVE  SlotBound' /\ Accounting' /\ ReloadRoom'
  <2>1. Cardinality(Holding(hosts')) = H - 1
    BY <1>1, <1>9, HoldingEnd DEF end_channel_now
  <2>2. Len(hosts') = Len(hosts)
    BY <1>1, <1>9 DEF end_channel_now
  <2>3. /\ count_attempts' = count_attempts
        /\ open_connections' = open_connections - 1
        /\ countComplete' = countComplete + 1
        /\ wpc' = "loop"
    BY <1>9 DEF end_channel_now
  <2>4. Accounting'
    BY <1>1, <1>2, <2>1, <2>2, <2>3 DEF Accounting, Holding
  <2>5. SlotBound' /\ ReloadRoom'
    BY <1>1, <1>3, <2>3 DEF SlotBound, ReloadRoom
  <2>6. QED
    BY <2>4, <2>5
<1>10. CASE worker_returns
  BY <1>10, <1>2, <1>3
     DEF worker_returns, hostVars, SlotBound, Accounting, ReloadRoom, Holding
<1>11. CASE readstdin \/ main_join_worker \/ main_join_input
              \/ main_write_metadata \/ status_updates
  BY <1>11, <1>4
     DEF readstdin, readstdin_line, readstdin_eof, main_join_worker,
         main_join_input, main_write_metadata, status_updates, reloadVars
<1>12. CASE UNCHANGED vars
  BY <1>12, <1>4 DEF vars, reloadVars
<1>13. QED
  BY <1>5, <1>6, <1>7, <1>8, <1>9, <1>10, <1>11, <1>12 DEF Next, reload

\* For every input and every number of slots, the strengthened invariant.
THEOREM SchedulerInvariant == Spec => []IInv
<1>1. Init => IInv
  BY IInvInit
<1>2. IInv /\ [Next]_vars => IInv'
  BY TypeStep, SlotStep DEF IInv
<1>3. QED
  BY <1>1, <1>2, PTL DEF Spec

\* The state of the threads, the queue and the hosts is always well formed.
THEOREM SchedulerTypes == Spec => []TypeOK
BY SchedulerInvariant, PTL DEF IInv

\* Never more control connections than option -r allows.
THEOREM SlotsBounded == Spec => []SlotBound
BY SchedulerInvariant, PTL DEF IInv

\* open_connections is exactly the number of hosts that were started and not
\* ended, and the progress counters add up.
THEOREM SlotsAccounted == Spec => []Accounting
BY SchedulerInvariant, PTL DEF IInv

-----------------------------------------------------------------------------
\* The order of the addresses.  All of them are natural numbers in sequences.

\* The addresses of a sequence of hosts form a sequence as long.
LEMMA IpsSeq ==
  ASSUME NEW hs \in Seq(HostRecord)
  PROVE  /\ [k \in DOMAIN hs |-> hs[k].ip] \in Seq(Nat)
         /\ Len([k \in DOMAIN hs |-> hs[k].ip]) = Len(hs)
<1> DEFINE ips == [k \in DOMAIN hs |-> hs[k].ip]
<1>1. DOMAIN hs = 1..Len(hs) /\ Len(hs) \in Nat
  BY LenProperties
<1>2. ASSUME NEW k \in 1..Len(hs) PROVE hs[k].ip \in Nat
  <2>1. hs[k] \in HostRecord
    BY ElementOfSeq
  <2>2. QED
    BY <2>1 DEF HostRecord
<1>3. ips \in [1..Len(hs) -> Nat]
  BY <1>1, <1>2
<1> HIDE DEF ips
<1>4. ips \in Seq(Nat)
  BY <1>1, <1>3, SeqDef
<1>5. Len(ips) = Len(hs)
  BY <1>1, <1>3, <1>4, LenProperties
<1>6. QED
  BY <1>4, <1>5 DEF ips

\* One more line of input that becomes one more element.
LEMMA KeptAppend ==
  ASSUME NEW n \in Nat, NEW s \in Seq(Nat), NEW x \in Nat,
         x = input[n + 1], KeptOf(n, s)
  PROVE  KeptOf(n + 1, Append(s, x))
<1>1. PICK at \in [DOMAIN s -> 1..n] :
        /\ \A i, j \in DOMAIN s : i < j => at[i] < at[j]
        /\ \A i \in DOMAIN s : s[i] = input[at[i]]
        /\ \A m \in 1..n : IsAddress(input[m]) => \E i \in DOMAIN s : at[i] = m
  BY DEF KeptOf
<1> DEFINE t == Append(s, x)
           new == [i \in DOMAIN t |-> IF i = Len(s) + 1 THEN n + 1 ELSE at[i]]
<1>2. /\ DOMAIN s = 1..Len(s) /\ Len(s) \in Nat
      /\ DOMAIN t = 1..(Len(s) + 1)
      /\ t[Len(s) + 1] = x
      /\ \A i \in 1..Len(s) : t[i] = s[i]
  BY LenProperties, AppendProperties
<1> HIDE DEF t
<1>3. /\ new \in [DOMAIN t -> 1..(n + 1)]
      /\ new[Len(s) + 1] = n + 1
      /\ \A i \in 1..Len(s) : new[i] = at[i] /\ at[i] \in 1..n
  BY <1>1, <1>2
<1> HIDE DEF new
<1>4. ASSUME NEW i \in DOMAIN t, NEW j \in DOMAIN t, i < j
      PROVE  new[i] < new[j]
  <2>1. i \in 1..Len(s)
    BY <1>2, <1>4
  <2>2. CASE j \in 1..Len(s)
    BY <1>1, <1>2, <1>3, <1>4, <2>1, <2>2
  <2>3. CASE j = Len(s) + 1
    BY <1>3, <2>1, <2>3
  <2>4. QED
    BY <1>2, <2>2, <2>3
<1>5. ASSUME NEW i \in DOMAIN t PROVE t[i] = input[new[i]]
  <2>1. CASE i \in 1..Len(s)
    BY <1>1, <1>2, <1>3, <2>1
  <2>2. CASE i = Len(s) + 1
    BY <1>2, <1>3, <2>2
  <2>3. QED
    BY <1>2, <2>1, <2>2
<1>6. ASSUME NEW m \in 1..(n + 1), IsAddress(input[m])
      PROVE  \E i \in DOMAIN t : new[i] = m
  <2>1. CASE m = n + 1
    BY <1>2, <1>3, <2>1
  <2>2. CASE m # n + 1
    <3>1. PICK i \in DOMAIN s : at[i] = m
      BY <1>1, <1>6, <2>2
    <3>2. QED
      BY <1>2, <1>3, <3>1
  <2>3. QED
    BY <2>1, <2>2
<1>7. KeptOf(n + 1, t)
  BY <1>3, <1>4, <1>5, <1>6 DEF KeptOf
<1>8. QED
  BY <1>7 DEF t

\* One more line of input that is no address.
LEMMA KeptSkip ==
  ASSUME NEW n \in Nat, NEW s \in Seq(Nat),
         ~IsAddress(input[n + 1]), KeptOf(n, s)
  PROVE  KeptOf(n + 1, s)
<1>1. PICK at \in [DOMAIN s -> 1..n] :
        /\ \A i, j \in DOMAIN s : i < j => at[i] < at[j]
        /\ \A i \in DOMAIN s : s[i] = input[at[i]]
        /\ \A m \in 1..n : IsAddress(input[m]) => \E i \in DOMAIN s : at[i] = m
  BY DEF KeptOf
<1>2. at \in [DOMAIN s -> 1..(n + 1)]
  BY <1>1
<1>3. \A m \in 1..(n + 1) : IsAddress(input[m]) => \E i \in DOMAIN s : at[i] = m
  <2>1. \A m \in 1..(n + 1) : m \in 1..n \/ m = n + 1
    OBVIOUS
  <2>2. QED
    BY <1>1, <2>1
<1>4. QED
  BY <1>1, <1>2, <1>3 DEF KeptOf

\* An element that is no address can be left out.
LEMMA KeptDrop ==
  ASSUME NEW n \in Nat, NEW s \in Seq(Nat), NEW q \in Seq(Nat), q # <<>>,
         ~IsAddress(Head(q)), KeptOf(n, s \o q)
  PROVE  KeptOf(n, s \o Tail(q))
<1> DEFINE u == s \o q
           v == s \o Tail(q)
           k == Len(s) + 1
<1>1. PICK at \in [DOMAIN u -> 1..n] :
        /\ \A i, j \in DOMAIN u : i < j => at[i] < at[j]
        /\ \A i \in DOMAIN u : u[i] = input[at[i]]
        /\ \A m \in 1..n : IsAddress(input[m]) => \E i \in DOMAIN u : at[i] = m
  BY DEF KeptOf
<1>2. /\ Tail(q) \in Seq(Nat) /\ Len(s) \in Nat /\ Len(q) \in Nat \ {0}
      /\ Len(Tail(q)) = Len(q) - 1
      /\ \A i \in 1..(Len(q) - 1) : Tail(q)[i] = q[i + 1]
      /\ Head(q) = q[1]
  BY HeadTailProperties, LenProperties, EmptySeq
<1>3. /\ DOMAIN u = 1..(Len(s) + Len(q))
      /\ \A i \in DOMAIN u : u[i] = IF i < k THEN s[i] ELSE q[i - Len(s)]
  BY <1>2, ConcatProperties, LenProperties
<1>4. /\ DOMAIN v = 1..(Len(s) + Len(q) - 1)
      /\ \A i \in DOMAIN v : v[i] = IF i < k THEN s[i] ELSE Tail(q)[i - Len(s)]
  <2>1. /\ v \in Seq(Nat) /\ Len(v) = Len(s) + (Len(q) - 1)
        /\ \A i \in 1..(Len(s) + (Len(q) - 1)) :
             v[i] = IF i <= Len(s) THEN s[i] ELSE Tail(q)[i - Len(s)]
    BY <1>2, ConcatProperties
  <2>2. DOMAIN v = 1..Len(v)
    BY <2>1, LenProperties
  <2>3. QED
    BY SMTT(30), <1>2, <2>1, <2>2
<1>5. k \in Nat \ {0} /\ k \in DOMAIN u /\ ~IsAddress(u[k])
  BY <1>2, <1>3
<1>6. ASSUME NEW i \in DOMAIN v
      PROVE  v[i] = IF i < k THEN u[i] ELSE u[i + 1]
  <2>1. i \in 1..(Len(s) + Len(q) - 1) /\ i \in DOMAIN u /\ i + 1 \in DOMAIN u
    BY <1>2, <1>3, <1>4
  <2>2. CASE i < k
    BY <1>3, <1>4, <2>1, <2>2
  <2>3. CASE ~(i < k)
    <3>1. i - Len(s) \in 1..(Len(q) - 1) /\ ~(i + 1 < k)
      BY SMTT(30), <1>2, <2>1, <2>3
    <3>2. v[i] = Tail(q)[i - Len(s)]
      BY <1>4, <2>3
    <3>3. Tail(q)[i - Len(s)] = q[(i - Len(s)) + 1]
      BY <1>2, <3>1
    <3>4. u[i + 1] = q[(i + 1) - Len(s)]
      BY <1>3, <2>1, <3>1
    <3>5. (i - Len(s)) + 1 = (i + 1) - Len(s)
      BY <1>2, <2>1
    <3>6. QED
      BY <2>3, <3>2, <3>3, <3>4, <3>5
  <2>4. QED
    BY <2>2, <2>3
<1> DEFINE new == [i \in DOMAIN v |-> IF i < k THEN at[i] ELSE at[i + 1]]
<1> HIDE DEF u, v, k
<1>7. /\ \A i \in DOMAIN v : i \in DOMAIN u /\ i + 1 \in DOMAIN u
      /\ \A i \in DOMAIN u : i < k => i \in DOMAIN v
      /\ \A i \in DOMAIN u : i > k => i - 1 \in DOMAIN v
      /\ DOMAIN u \subseteq Nat
  BY <1>2, <1>3, <1>4, <1>5
<1>8. /\ new \in [DOMAIN v -> 1..n]
      /\ \A i \in DOMAIN v : new[i] = IF i < k THEN at[i] ELSE at[i + 1]
  BY <1>1, <1>7
<1> HIDE DEF new
<1>9. \A i, j \in DOMAIN v : i < j => new[i] < new[j]
  <2>1. ASSUME NEW i \in DOMAIN v, NEW j \in DOMAIN v, i < j
        PROVE  new[i] < new[j]
    <3>1. i \in Nat /\ j \in Nat
      BY <1>7
    <3>2. CASE i < k /\ j < k
      BY <1>1, <1>7, <1>8, <2>1, <3>2
    <3>3. CASE i < k /\ ~(j < k)
      BY <1>1, <1>7, <1>8, <2>1, <3>1, <3>3
    <3>4. CASE ~(i < k)
      BY SMTT(30), <1>1, <1>5, <1>7, <1>8, <2>1, <3>1, <3>4
    <3>5. QED
      BY <3>2, <3>3, <3>4
  <2>2. QED
    BY <2>1
<1>10. \A i \in DOMAIN v : v[i] = input[new[i]]
  BY <1>1, <1>6, <1>7, <1>8
<1>11. ASSUME NEW m \in 1..n, IsAddress(input[m])
       PROVE  \E i \in DOMAIN v : new[i] = m
  <2>1. PICK i \in DOMAIN u : at[i] = m
    BY <1>1, <1>11
  <2>2. i # k
    BY <1>1, <1>5, <1>11, <2>1
  <2>3. CASE i < k
    BY <1>7, <1>8, <2>1, <2>3
  <2>4. CASE i > k
    <3>1. i - 1 \in DOMAIN v /\ ~(i - 1 < k) /\ (i - 1) + 1 = i
      BY <1>5, <1>7, <2>4
    <3>2. QED
      BY <1>8, <2>1, <3>1
  <2>5. QED
    BY <1>5, <1>7, <2>2, <2>3, <2>4
<1>12. KeptOf(n, v)
  BY <1>8, <1>9, <1>10, <1>11 DEF KeptOf
<1>13. QED
  BY <1>12 DEF v

\* Concatenation of sequences of addresses is associative.
LEMMA ConcatNat ==
  ASSUME NEW s \in Seq(Nat), NEW t \in Seq(Nat), NEW u \in Seq(Nat)
  PROVE  (s \o t) \o u = s \o (t \o u)
BY SMTT(60), ConcatAssociative

\* The addresses on their way from stdin to connect_new.
Line == Attempted \o InHand \o ipQueue

\* What InOrder needs to be inductive: the end of the input is only noted
\* when every line has been read.
OrderInv ==
  /\ nread <= Len(input)
  /\ readinFinished => nread = Len(input)
  /\ InOrder

\* The three parts of the line are sequences of naturals.
LEMMA LineTypes ==
  ASSUME TypeOK
  PROVE  /\ Attempted \in Seq(Nat) /\ InHand \in Seq(Nat) /\ ipQueue \in Seq(Nat)
         /\ Attempted \o InHand \in Seq(Nat) /\ Line \in Seq(Nat)
<1>1. Attempted \in Seq(Nat)
  BY IpsSeq DEF TypeOK, Attempted
<1>2. InHand \in Seq(Nat) /\ ipQueue \in Seq(Nat)
  BY DEF TypeOK, InHand
<1>3. Attempted \o InHand \in Seq(Nat)
  BY <1>1, <1>2, ConcatProperties
<1>4. QED
  BY <1>1, <1>2, <1>3, ConcatProperties DEF Line

\* The order holds at the start.
LEMMA OrderInit == Init => OrderInv
<1> SUFFICES ASSUME Init PROVE OrderInv
  OBVIOUS
<1>1. Len(input) \in Nat
  BY SchedulerAssumption, LenProperties DEF SchedulerAssumption, Init
<1>2. hosts = <<>> /\ InHand = <<>> /\ ipQueue = <<>> /\ nread = 0 /\ ~readinFinished
  BY DEF Init, InHand
<1>3. Attempted = <<>>
  BY <1>2 DEF Attempted
<1>4. Attempted \o InHand \o ipQueue = <<>>
  BY <1>2, <1>3, ConcatEmptySeq, EmptySeq
<1>5. KeptOf(0, <<>>)
  <2>1. DOMAIN <<>> = {} /\ 1..0 = {}
    OBVIOUS
  <2>2. [i \in {} |-> 0] \in [DOMAIN <<>> -> 1..0]
    BY <2>1
  <2>3. QED
    BY <2>1, <2>2 DEF KeptOf
<1>6. QED
  BY <1>1, <1>2, <1>4, <1>5 DEF OrderInv, InOrder

\* Every step keeps the order.  Only a good line changes what is kept; the
\* other steps move an address from one part of the line to the next.
LEMMA OrderStep == TypeOK /\ OrderInv /\ [Next]_vars => OrderInv'
<1> SUFFICES ASSUME TypeOK, OrderInv, [Next]_vars PROVE OrderInv'
  OBVIOUS
<1> DEFINE A == Attempted
           q == ipQueue
<1>1. /\ TypeOK'
      /\ A \in Seq(Nat) /\ InHand \in Seq(Nat) /\ q \in Seq(Nat)
      /\ A \o InHand \in Seq(Nat) /\ Line \in Seq(Nat)
      /\ nread \in Nat /\ Len(input) \in Nat
  BY TypeStep, LineTypes, LenProperties DEF TypeOK
<1>2. /\ nread <= Len(input)
      /\ readinFinished => nread = Len(input)
      /\ KeptOf(nread, Line)
      /\ \A k \in DOMAIN hosts : IsAddress(Attempted[k])
  BY DEF OrderInv, InOrder, Line
<1>3. ASSUME input' = input, nread' <= Len(input),
             readinFinished' => nread' = Len(input),
             KeptOf(nread', Line'),
             \A k \in DOMAIN hosts' : IsAddress(Attempted'[k])
      PROVE  OrderInv'
  BY SMTT(30), <1>3 DEF OrderInv, InOrder, KeptOf, Line
<1>4. ASSUME UNCHANGED <<readerVars, ipQueue, hosts, InHand>>
      PROVE  OrderInv'
  BY <1>2, <1>3, <1>4 DEF readerVars, Line, Attempted
<1>5. CASE readstdin_line
  <2> DEFINE x == input[nread + 1]
  <2>1. /\ nread < Len(input) /\ nread' = nread + 1 /\ ~readinFinished
        /\ ~readinFinished' /\ input' = input
        /\ hosts' = hosts /\ InHand' = InHand /\ Attempted' = Attempted
    BY <1>5 DEF readstdin_line, hostVars, reloadVars, InHand, Attempted
  <2>2. x \in Nat \cup {BadLine}
    <3>1. input \in Seq(Nat \cup {BadLine})
      BY DEF TypeOK
    <3>2. nread \in Nat /\ Len(input) \in Nat
      BY <1>1
    <3>3. nread + 1 \in 1..Len(input)
      BY <2>1, <3>2
    <3>4. QED
      BY <3>1, <3>3, ElementOfSeq
  <2>3. KeptOf(nread + 1, Line')
    <3>1. CASE x # BadLine
      <4>1. x \in Nat /\ ipQueue' = Append(q, x)
        BY <1>5, <2>2, <3>1 DEF readstdin_line, ip_enqueue
      <4>2. Line' = Append(Line, x)
        <5>1. Append(q, x) = q \o <<x>> /\ Append(Line, x) = Line \o <<x>>
          BY <1>1, <4>1, AppendIsConcat
        <5> DEFINE e == <<x>>
                   b == A \o InHand
        <5>2. e \in Seq(Nat) /\ b \in Seq(Nat)
          BY <1>1, <4>1
        <5> HIDE DEF e, b
        <5>3. b \o (q \o e) = (b \o q) \o e
          <6>1. q \in Seq(Nat)
            BY <1>1
          <6>2. QED
            BY <6>1, <5>2, ConcatNat
        <5>4. QED
          BY <2>1, <4>1, <5>1, <5>3 DEF Line, e, b
      <4>3. QED
        BY <1>1, <1>2, <4>1, <4>2, KeptAppend
    <3>2. CASE x = BadLine
      <4>1. Line' = Line
        BY <1>5, <2>1, <3>2 DEF readstdin_line, Line
      <4>2. ~IsAddress(x)
        BY <3>2 DEF IsAddress
      <4>3. QED
        BY <1>1, <1>2, <4>1, <4>2, KeptSkip
    <3>3. QED
      BY <3>1, <3>2
  <2>4. QED
    BY <1>1, <1>2, <1>3, <2>1, <2>3
<1>6. CASE readstdin_eof
  <2>1. UNCHANGED <<input, nread, Line, hosts, Attempted>> /\ nread = Len(input)
    BY <1>6 DEF readstdin_eof, hostVars, reloadVars, InHand, Attempted, Line
  <2>2. QED
    BY <1>2, <1>3, <2>1
<1>7. CASE reload_begin \/ reload_full
  BY <1>4, <1>7
     DEF reload_begin, reload_full, hostVars, reloadVars, InHand
<1>8. CASE reload_dequeue
  <2>1. /\ UNCHANGED <<input, nread, readinFinished, hosts, Attempted>>
        /\ InHand = <<>> /\ wpc' = "test"
    BY <1>8 DEF reload_dequeue, hostVars, readerVars, InHand, Attempted
  <2>2. Line = A \o q
    BY <1>1, <2>1, ConcatEmptySeq DEF Line
  <2>3. KeptOf(nread, Line')
    <3>1. CASE q = <<>>
      <4>1. ipQueue' = q /\ InHand' = <<>>
        BY <1>8, <2>1, <3>1 DEF reload_dequeue, InHand
      <4>2. QED
        BY <1>2, <2>1, <4>1 DEF Line
    <3>2. CASE q # <<>>
      <4>1. ipQueue' = Tail(q) /\ hand' = Head(q)
        BY <1>8, <3>2 DEF reload_dequeue
      <4>2. Head(q) \in Nat /\ Tail(q) \in Seq(Nat)
        BY <1>1, <3>2, HeadTailProperties
      <4>3. CASE Head(q) = NoAddress
        <5>1. InHand' = <<>>
          BY <4>1, <4>3 DEF InHand
        <5>2. Line' = A \o Tail(q)
          BY <1>1, <2>1, <4>1, <5>1, ConcatEmptySeq DEF Line
        <5>3. QED
          BY <1>1, <1>2, <2>2, <3>2, <4>3, <5>2, KeptDrop DEF IsAddress
      <4>4. CASE Head(q) # NoAddress
        <5>1. InHand' = <<Head(q)>>
          BY <2>1, <4>1, <4>4 DEF InHand
        <5>2. Line' = (A \o <<Head(q)>>) \o Tail(q)
          BY <2>1, <4>1, <5>1 DEF Line
        <5>3. <<Head(q)>> \in Seq(Nat) /\ <<Head(q)>> \o Tail(q) = q
          BY <1>1, <3>2, <4>2
        <5> DEFINE e == <<Head(q)>>
                   r == Tail(q)
        <5> HIDE DEF e, r
        <5>4. (A \o e) \o r = A \o (e \o r)
          <6>1. e \in Seq(Nat) /\ r \in Seq(Nat)
            BY <4>2, <5>3 DEF e, r
          <6>2. A \in Seq(Nat)
            BY <1>1
          <6>3. QED
            BY <6>1, <6>2, ConcatNat
        <5>5. Line' = Line
          BY <2>2, <5>2, <5>3, <5>4 DEF e, r
        <5>6. QED
          BY <1>2, <2>1, <5>5
      <4>5. QED
        BY <4>3, <4>4
    <3>3. QED
      BY <3>1, <3>2
  <2>4. QED
    BY <1>2, <1>3, <2>1, <2>3
<1>9. CASE reload_end_of_queue
  BY <1>4, <1>9 DEF reload_end_of_queue, hostVars, reloadVars, InHand
<1>10. CASE reload_connect_new
  <2> DEFINE new == [ip |-> hand, status |-> "open"]
  <2>1. /\ UNCHANGED <<input, nread, readinFinished, ipQueue>>
        /\ InHand = <<hand>> /\ InHand' = <<>> /\ hand # NoAddress /\ hand \in Nat
        /\ hosts' = Append(hosts, new)
    BY <1>10 DEF reload_connect_new, readerVars, InHand, TypeOK
  <2>2. new \in HostRecord /\ new.ip = hand
    BY <2>1 DEF HostRecord, HostStatus
  <2> HIDE DEF new
  <2>3. /\ Len(hosts) \in Nat /\ Len(hosts') = Len(hosts) + 1
        /\ DOMAIN hosts = 1..Len(hosts) /\ DOMAIN hosts' = 1..(Len(hosts) + 1)
        /\ \A k \in DOMAIN hosts : hosts'[k] = hosts[k]
        /\ hosts'[Len(hosts) + 1] = new
    BY <2>1, <2>2, AppendProperties, LenProperties DEF TypeOK
  <2>4. /\ Attempted' \in Seq(Nat)
        /\ Len(Attempted') = Len(hosts) + 1
        /\ \A k \in DOMAIN hosts : Attempted'[k] = Attempted[k]
        /\ Attempted'[Len(hosts) + 1] = hand
    <3>1. Attempted' \in Seq(Nat)
      BY <1>1, IpsSeq DEF TypeOK, Attempted
    <3>2. \A k \in DOMAIN hosts' : Attempted'[k] = hosts'[k].ip
      BY DEF Attempted
    <3>3. \A k \in DOMAIN hosts : Attempted[k] = hosts[k].ip
      BY DEF Attempted
    <3>4. DOMAIN Attempted' = 1..(Len(hosts) + 1)
      BY <2>3 DEF Attempted
    <3>5. QED
      BY <2>2, <2>3, <3>1, <3>2, <3>3, <3>4, LenProperties
  <2>5. Len(A) = Len(hosts)
    BY IpsSeq DEF TypeOK, Attempted
  <2>6. Attempted' = Append(A, hand)
    <3>1. /\ Append(A, hand) \in Seq(Nat)
          /\ Len(Append(A, hand)) = Len(A) + 1
          /\ \A i \in 1..Len(A) : Append(A, hand)[i] = A[i]
          /\ Append(A, hand)[Len(A) + 1] = hand
      BY <1>1, <2>1, AppendProperties
    <3>2. \A i \in 1..(Len(hosts) + 1) : Attempted'[i] = Append(A, hand)[i]
      <4>1. \A i \in 1..(Len(hosts) + 1) : i \in 1..Len(A) \/ i = Len(A) + 1
        BY <2>3, <2>5
      <4>2. \A i \in 1..Len(A) : Attempted'[i] = A[i]
        BY <2>3, <2>4, <2>5
      <4>3. QED
        BY <2>4, <2>5, <3>1, <4>1, <4>2
    <3>3. QED
      BY <2>4, <2>5, <3>1, <3>2, SeqEqual
  <2>7. Line' = Line
    <3>1. Append(A, hand) = A \o <<hand>>
      BY <1>1, <2>1, AppendIsConcat
    <3>2. Attempted' \o <<>> = Attempted'
      BY <2>4, ConcatEmptySeq
    <3>3. QED
      BY <2>1, <2>6, <3>1, <3>2 DEF Line
  <2>8. \A k \in DOMAIN hosts' : IsAddress(Attempted'[k])
    <3>1. IsAddress(hand)
      BY <2>1, SchedulerAssumption DEF IsAddress, SchedulerAssumption
    <3>2. QED
      BY <1>2, <2>3, <2>4, <3>1
  <2>9. QED
    BY <1>2, <1>3, <2>1, <2>7, <2>8
<1>11. ASSUME NEW k \in DOMAIN hosts, end_channel_now(k) PROVE OrderInv'
  <2>1. /\ UNCHANGED <<input, nread, readinFinished, ipQueue, InHand>>
        /\ hosts' = [hosts EXCEPT ![k].status = "ended"]
    BY <1>11 DEF end_channel_now, readerVars, reloadVars, InHand
  <2>2. DOMAIN hosts' = DOMAIN hosts /\ \A j \in DOMAIN hosts : hosts'[j].ip = hosts[j].ip
    <3>1. hosts[k] \in HostRecord
      BY ElementOfSeq, LenProperties DEF TypeOK
    <3>2. [hosts[k] EXCEPT !.status = "ended"].ip = hosts[k].ip
      BY <3>1 DEF HostRecord
    <3>3. hosts' = [hosts EXCEPT ![k] = [hosts[k] EXCEPT !.status = "ended"]]
      BY <2>1
    <3>4. QED
      BY <3>2, <3>3
  <2>3. Attempted' = Attempted
    BY <2>2 DEF Attempted
  <2>4. QED
    BY <1>2, <1>3, <2>1, <2>2, <2>3 DEF Line
<1>12. CASE worker_returns \/ main_join_worker \/ main_join_input
              \/ main_write_metadata \/ status_updates
  BY <1>4, <1>12
     DEF worker_returns, main_join_worker, main_join_input, main_write_metadata,
         status_updates, hostVars, reloadVars, InHand
<1>13. CASE UNCHANGED vars
  BY <1>4, <1>13 DEF vars, hostVars, reloadVars, InHand
<1>14. QED
  BY <1>5, <1>6, <1>7, <1>8, <1>9, <1>10, <1>11, <1>12, <1>13
     DEF Next, readstdin, reload

\* How the threads wind down.  Main leaves its first join after the worker,
\* the worker leaves its loop when no host is open, an attempt that fails at
\* once is a crash, and the counters stand still from the metadata on.
WindDown ==
  /\ main # "joinWorker" => wpc = "returned"
  /\ wpc = "returned" => \A k \in DOMAIN hosts : hosts[k].status # "open"
  /\ \A k \in DOMAIN hosts : hosts[k].ip \in Unconnectable => wpc = "crashed"
  /\ metadata = IF main = "done"
                THEN [targets |-> count_attempts, completed |-> countComplete]
                ELSE NoMetadata

\* Once reload has found the queue empty after the end of the input, it stays
\* empty, unless the empty answer was the address 0.0.0.0.
NoZeroes == NoAddress \notin {input[i] : i \in DOMAIN input}
LastLook ==
  eofAtLastEmpty /\ NoZeroes
    => readinFinished /\ ipQueue = <<>> /\ hand = NoAddress

\* The wind-down holds at the start and is kept by every step.
LEMMA WindDownInit == Init => WindDown
BY DEF Init, WindDown

LEMMA WindDownStep == TypeOK /\ WindDown /\ [Next]_vars => WindDown'
<1> SUFFICES ASSUME TypeOK, WindDown, [Next]_vars PROVE WindDown'
  OBVIOUS
<1> USE DEF WindDown
<1>1. CASE UNCHANGED <<hostVars, main, metadata>>
           /\ (wpc = "returned" <=> wpc' = "returned")
           /\ (wpc = "crashed" => wpc' = "crashed")
  BY <1>1 DEF hostVars
<1>2. CASE readstdin
  BY <1>1, <1>2
     DEF readstdin, readstdin_line, readstdin_eof, mainVars
<1>3. CASE reload_begin \/ reload_full \/ reload_dequeue \/ reload_end_of_queue
  BY <1>1, <1>3
     DEF reload_begin, reload_full, reload_dequeue, reload_end_of_queue, mainVars
<1>4. CASE reload_connect_new
  <2> DEFINE new == [ip |-> hand, status |-> "open"]
  <2>1. /\ hosts' = Append(hosts, new) /\ wpc = "test"
        /\ wpc' = IF hand \in Unconnectable THEN "crashed" ELSE "dequeue"
        /\ UNCHANGED <<main, metadata>>
    BY <1>4 DEF reload_connect_new, mainVars
  <2>2. new \in HostRecord /\ new.ip = hand
    BY DEF TypeOK, HostRecord, HostStatus
  <2> HIDE DEF new
  <2>3. /\ DOMAIN hosts' = 1..(Len(hosts) + 1) /\ DOMAIN hosts = 1..Len(hosts)
        /\ Len(hosts) \in Nat
        /\ \A k \in DOMAIN hosts : hosts'[k] = hosts[k]
        /\ hosts'[Len(hosts) + 1] = new
    BY <2>1, <2>2, AppendProperties, LenProperties DEF TypeOK
  <2>4. \A k \in DOMAIN hosts' : k \in DOMAIN hosts \/ k = Len(hosts) + 1
    BY <2>3
  <2>5. main = "joinWorker" /\ metadata = NoMetadata
    BY <2>1
  <2>6. QED
    BY <2>1, <2>2, <2>3, <2>4, <2>5
<1>5. ASSUME NEW k \in DOMAIN hosts, end_channel_now(k) PROVE WindDown'
  <2>1. hosts[k] \in HostRecord
    BY ElementOfSeq, LenProperties DEF TypeOK
  <2>2. /\ hosts' = [hosts EXCEPT ![k] = [hosts[k] EXCEPT !.status = "ended"]]
        /\ hosts[k].status = "open" /\ wpc = "loop" /\ wpc' = "loop"
        /\ UNCHANGED <<main, metadata>>
    BY <1>5 DEF end_channel_now, mainVars
  <2> DEFINE new == [hosts[k] EXCEPT !.status = "ended"]
  <2>3. new.status = "ended" /\ new.ip = hosts[k].ip
    BY <2>1 DEF HostRecord
  <2> HIDE DEF new
  <2>4. /\ DOMAIN hosts' = DOMAIN hosts /\ hosts'[k] = new
        /\ \A j \in DOMAIN hosts : j # k => hosts'[j] = hosts[j]
    BY <2>2 DEF new
  <2>5. \A j \in DOMAIN hosts : hosts[j].ip \notin Unconnectable
    BY <2>2
  <2>6. \A j \in DOMAIN hosts' : hosts'[j].ip \notin Unconnectable
    BY <2>3, <2>4, <2>5
  <2>7. main = "joinWorker" /\ metadata = NoMetadata
    BY <2>2
  <2>8. QED
    BY <2>2, <2>6, <2>7
<1>6. CASE worker_returns
  BY <1>6 DEF worker_returns, hostVars, mainVars
<1>7. CASE main_join_worker \/ main_join_input \/ main_write_metadata
  BY <1>7 DEF main_join_worker, main_join_input, main_write_metadata, hostVars
<1>8. CASE status_updates
  BY <1>8 DEF status_updates, hostVars
<1>9. CASE UNCHANGED vars
  BY <1>9 DEF vars, hostVars, mainVars
<1>10. QED
  BY <1>2, <1>3, <1>4, <1>5, <1>6, <1>7, <1>8, <1>9 DEF Next, reload

\* The last look at the queue is kept by every step.
LEMMA LastLookStep ==
  TypeOK /\ OrderInv /\ LastLook /\ [Next]_vars => LastLook'
<1> SUFFICES ASSUME TypeOK, OrderInv, LastLook, [Next]_vars PROVE LastLook'
  OBVIOUS
<1>1. CASE UNCHANGED <<readerVars, ipQueue, hand, eofAtLastEmpty>>
  BY <1>1 DEF LastLook, NoZeroes, readerVars
<1>2. CASE readstdin
  BY <1>2
     DEF readstdin, readstdin_line, readstdin_eof, reloadVars, LastLook, NoZeroes
<1>3. CASE reload_dequeue
  <2>1. SUFFICES ASSUME eofAtLastEmpty', NoZeroes
                 PROVE  readinFinished /\ ipQueue' = <<>> /\ hand' = NoAddress
    BY <1>3 DEF reload_dequeue, readerVars, LastLook, NoZeroes
  <2>2. CASE ipQueue = <<>>
    BY <1>3, <2>1, <2>2 DEF reload_dequeue
  <2>3. CASE ipQueue # <<>>
    <3>1. Head(ipQueue) # NoAddress
      <4> DEFINE b == Attempted \o InHand
                 i == Len(b) + 1
      <4>1. b \in Seq(Nat) /\ ipQueue \in Seq(Nat)
        BY LineTypes
      <4>2. Len(b) \in Nat /\ Len(ipQueue) \in Nat \ {0}
        BY <2>3, <4>1, LenProperties, EmptySeq
      <4> HIDE DEF b
      <4>3. i \in DOMAIN (b \o ipQueue) /\ (b \o ipQueue)[i] = Head(ipQueue)
        BY <2>3, <4>1, <4>2, ConcatProperties, LenProperties, HeadTailProperties
      <4>4. KeptOf(nread, b \o ipQueue) /\ nread <= Len(input) /\ nread \in Nat
        BY DEF OrderInv, InOrder, TypeOK, b
      <4> HIDE DEF i
      <4>5. PICK m \in 1..nread : (b \o ipQueue)[i] = input[m]
        BY <4>3, <4>4 DEF KeptOf
      <4>6. m \in DOMAIN input
        BY <4>4, LenProperties DEF TypeOK
      <4>7. QED
        BY <2>1, <4>3, <4>5, <4>6 DEF NoZeroes
    <3>2. hand' = Head(ipQueue) /\ eofAtLastEmpty' = eofAtLastEmpty
      BY <1>3, <2>3, <3>1 DEF reload_dequeue
    <3>3. QED
      BY <2>1, <2>3, <3>2 DEF LastLook
  <2>4. QED
    BY <2>2, <2>3
<1>4. CASE reload_begin \/ reload_full \/ reload_end_of_queue \/ reload_connect_new
  BY <1>1, <1>4
     DEF reload_begin, reload_full, reload_end_of_queue, reload_connect_new, reloadVars
<1>5. ASSUME NEW k \in DOMAIN hosts, end_channel_now(k) PROVE LastLook'
  BY <1>1, <1>5 DEF end_channel_now, reloadVars
<1>6. CASE worker_returns \/ main_join_worker \/ main_join_input
              \/ main_write_metadata \/ status_updates
  BY <1>1, <1>6
     DEF worker_returns, main_join_worker, main_join_input, main_write_metadata,
         status_updates, reloadVars
<1>7. CASE UNCHANGED vars
  BY <1>1, <1>7 DEF vars, reloadVars
<1>8. QED
  BY <1>2, <1>3, <1>4, <1>5, <1>6, <1>7 DEF Next, reload

\* The second inductive invariant: what became of the addresses, and how the
\* program ends, on top of IInv.
FateInv == IInv /\ OrderInv /\ WindDown /\ LastLook

\* For every input, the order, the wind-down and the last look.
THEOREM SchedulerFate == Spec => []FateInv
<1>1. Init => FateInv
  <2>1. Init => LastLook
    BY DEF Init, LastLook
  <2>2. QED
    BY <2>1, IInvInit, OrderInit, WindDownInit DEF FateInv
<1>2. FateInv /\ [Next]_vars => FateInv'
  BY TypeStep, SlotStep, OrderStep, WindDownStep, LastLookStep DEF FateInv, IInv
<1>3. QED
  BY <1>1, <1>2, PTL DEF Spec

\* No address is lost, repeated or overtaken between readstdin and
\* connect_new, for every input, whatever the threads' order.
THEOREM AddressesInOrder == Spec => []InOrder
BY SchedulerFate, PTL DEF FateInv, OrderInv

\* Every address of the input was attempted when the program is done and the
\* queue was last found empty after the end of the input.
THEOREM NothingMissed == Spec => []AttemptedWhenEofSeenFirst
<1>1. FateInv => AttemptedWhenEofSeenFirst
  <2> SUFFICES ASSUME FateInv, main = "done", eofAtLastEmpty, NoZeroes
               PROVE  KeptOf(Len(input), Attempted)
    BY DEF AttemptedWhenEofSeenFirst, NoZeroes
  <2>1. readinFinished /\ ipQueue = <<>> /\ wpc = "returned"
    BY DEF FateInv, LastLook, WindDown
  <2>2. nread = Len(input) /\ KeptOf(nread, Line)
    BY <2>1 DEF FateInv, OrderInv, InOrder, Line
  <2>3. InHand = <<>>
    BY <2>1 DEF InHand
  <2>4. Attempted \in Seq(Nat)
    BY LineTypes DEF FateInv, IInv
  <2>5. Line = Attempted
    BY <2>1, <2>3, <2>4, ConcatEmptySeq DEF Line
  <2>6. QED
    BY <2>2, <2>5
<1>2. QED
  BY <1>1, SchedulerFate, PTL

\* The counters in the metadata file are final: every target has completed,
\* and none was an address whose connection fails at once.
THEOREM MetadataFinal == Spec => []MetadataIsFinal
<1>1. FateInv => MetadataIsFinal
  <2> SUFFICES ASSUME FateInv, metadata # NoMetadata
               PROVE  /\ metadata.targets = Len(hosts)
                      /\ metadata.completed = Len(hosts)
                      /\ \A k \in DOMAIN hosts :
                           hosts[k].status = "ended" /\ hosts[k].ip \notin Unconnectable
    BY DEF MetadataIsFinal
  <2>1. /\ main = "done" /\ wpc = "returned"
        /\ metadata = [targets |-> count_attempts, completed |-> countComplete]
    BY DEF FateInv, WindDown
  <2>2. /\ count_attempts = Len(hosts)
        /\ open_connections = Cardinality(Holding(hosts))
        /\ countComplete + open_connections = count_attempts
    BY DEF FateInv, IInv, Accounting, Holding
  <2>3. open_connections \in Int /\ count_attempts \in Nat /\ countComplete \in Nat
    BY DEF FateInv, IInv, TypeOK
  <2>4. ASSUME NEW k \in DOMAIN hosts
        PROVE  hosts[k].status = "ended" /\ hosts[k].ip \notin Unconnectable
    <3>1. hosts[k] \in HostRecord
      BY ElementOfSeq, LenProperties DEF FateInv, IInv, TypeOK
    <3>2. QED
      BY <2>1, <3>1 DEF FateInv, WindDown, HostRecord, HostStatus
  <2>5. Holding(hosts) = {}
    BY <2>4 DEF Holding
  <2>6. open_connections = 0
    BY <2>2, <2>5, FS_EmptySet
  <2>7. QED
    BY <2>1, <2>2, <2>3, <2>4, <2>6
<1>2. QED
  BY <1>1, SchedulerFate, PTL
=============================================================================
