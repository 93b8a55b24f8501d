----------------------------- MODULE CrawlProofs -----------------------------
(***************************************************************************)
(* Theorems about Crawl, whatever the servers say: for every robots.txt    *)
(* and every listing that has a meaning, for every number of lies allowed. *)
(*                                                                         *)
(* Each rests on an invariant of its own beside TypeInv: what was asked    *)
(* for is allowed (AskedAllowed); what was named was asked for, is queued  *)
(* or is not allowed (AsNamed); what was asked for and what is queued is a *)
(* tree that grows at one directory at a time (OneTree); and check_lie     *)
(* counts the listings that were the same (LieInv).  What files and        *)
(* listings tell is shown in ReadingProofs.                                *)
(***************************************************************************)
EXTENDS ReadingProofs

-----------------------------------------------------------------------------
\* Types of the state.

\* What the rules are: those of the file that was got, or none.
RobotsRead ==
  /\ robotObj = IF robotsKnown THEN robot_parser_init(server.text) ELSE NoRobots
  /\ pc = "retr" => ~robotsKnown

\* Where paths are kept, and when there are none yet.
Placed ==
  /\ dirQueue \in Seq(PathType) /\ asked \in Seq(PathType) /\ named \in SUBSET PathType
  /\ item = <<>> \/ item \in PathType
  /\ pc \in {"data", "done"} => item \in PathType
  /\ pc \in {"retr", "syst", "pwd"} => dirQueue = <<>> /\ asked = <<>> /\ named = {}

\* All that is not a path.
Scalars ==
  /\ pc \in {"retr", "syst", "pwd", "data", "done", "help", "lied", "quit"}
  /\ destType \in {"UNK", "UNIX", "WINDOWS", "VXWORKS"}
  /\ lieCount \in Nat /\ listErrCount \in Nat /\ lists \in Nat
  /\ lieHashSet \in BOOLEAN /\ provedHonest \in BOOLEAN
  /\ unclear \in BOOLEAN /\ robotsKnown \in BOOLEAN

\* The invariant behind TypeOK: rules that were read are those of the server's file.
TypeInv == server \in Servers /\ RobotsRead /\ Placed /\ Scalars

\* Where walk_dir goes: to the first path of the queue that is allowed, or it ends.
WalksTo(queue, k) ==
  /\ pc' = "data" /\ access_is_allowed(robotObj, queue[k])
  /\ \A i \in 1..(k - 1) : ~access_is_allowed(robotObj, queue[i])
  /\ item' = queue[k] /\ asked' = Append(asked, queue[k])
  /\ dirQueue' = SubSeq(queue, k + 1, Len(queue))

Stops(queue) ==
  /\ pc' \in {"lied", "help"} /\ dirQueue' = <<>> /\ item' = <<>> /\ asked' = asked
  /\ pc' = "help" => \A i \in DOMAIN queue : ~access_is_allowed(robotObj, queue[i])

LEMMA WalkIs ==
  ASSUME NEW queue \in Seq(PathType), NEW lies, walk_dir(queue, lies)
  PROVE  Stops(queue) \/ \E k \in 1..Len(queue) : WalksTo(queue, k)
<1> DEFINE allowed == {i \in DOMAIN queue : access_is_allowed(robotObj, queue[i])}
           k == Min(allowed)
<1>1. DOMAIN queue = 1..Len(queue) /\ Len(queue) \in Nat
  OBVIOUS
<1>2. allowed \in SUBSET Nat
  BY <1>1
<1>3. \/ /\ pc' = "lied" /\ dirQueue' = <<>> /\ item' = <<>> /\ UNCHANGED asked
      \/ /\ allowed = {}
         /\ pc' = "help" /\ dirQueue' = <<>> /\ item' = <<>> /\ UNCHANGED asked
      \/ /\ allowed # {}
         /\ pc' = "data" /\ item' = queue[k]
         /\ dirQueue' = SubSeq(queue, k + 1, Len(queue))
         /\ asked' = Append(asked, item')
  BY DEF walk_dir
<1>4. CASE pc' = "lied" /\ dirQueue' = <<>> /\ item' = <<>> /\ UNCHANGED asked
  BY <1>4 DEF Stops
<1>5. CASE allowed = {} /\ pc' = "help" /\ dirQueue' = <<>> /\ item' = <<>> /\ UNCHANGED asked
  <2>1. \A i \in DOMAIN queue : ~access_is_allowed(robotObj, queue[i])
    BY <1>5
  <2>2. QED
    BY <1>5, <2>1 DEF Stops
<1>6. CASE /\ allowed # {}
           /\ pc' = "data" /\ item' = queue[k]
           /\ dirQueue' = SubSeq(queue, k + 1, Len(queue))
           /\ asked' = Append(asked, item')
  <2>1. k \in allowed /\ \A y \in allowed : k <= y
    <3> HIDE DEF allowed
    <3>1. QED
      BY <1>2, <1>6, MinInSet
  <2>2. /\ pc' = "data" /\ item' = queue[k] /\ asked' = Append(asked, queue[k])
        /\ dirQueue' = SubSeq(queue, k + 1, Len(queue))
    BY <1>6
  <2> HIDE DEF k
  <2>3. k \in 1..Len(queue) /\ access_is_allowed(robotObj, queue[k])
    BY <1>1, <2>1
  <2>4. ASSUME NEW i \in 1..(k - 1) PROVE ~access_is_allowed(robotObj, queue[i])
    <3>1. i \in DOMAIN queue /\ ~(k <= i)
      BY <1>1, <2>3
    <3>2. QED
      BY <2>1, <3>1
  <2>5. QED
    BY <2>2, <2>3, <2>4 DEF WalksTo
<1>7. QED
  BY <1>3, <1>4, <1>5, <1>6

\* The walk begins in a directory, whatever PWD quotes.
LEMMA FirstDirType ==
  ASSUME server \in Servers
  PROVE  FirstDir(server.pwd) \in PathType
<1> DEFINE pwd == server.pwd
<1>1. pwd \in Seq(STRING) /\ (pwd # <<>> => Head(pwd) = "/")
  BY CrawlAssumption DEF CrawlAssumption
<1>2. pwd \in Seq(Symbol)
  BY <1>1, Symbols
<1> HIDE DEF pwd
<1>3. CASE pwd = <<>>
  <2>1. "/" \in Symbol
    BY Symbols
  <2>2. <<"/">> \in PathType
    BY <2>1 DEF PathType, Last
  <2>3. QED
    BY <1>3, <2>2 DEF FirstDir, pwd
<1>4. CASE pwd # <<>> /\ Last(pwd) = "/"
  <2>1. pwd \in PathType
    BY <1>1, <1>2, <1>4 DEF PathType
  <2>2. QED
    BY <1>4, <2>1 DEF FirstDir, pwd
<1>5. CASE pwd # <<>> /\ Last(pwd) # "/"
  <2> DEFINE a == Append(pwd, "/")
  <2>1. "/" \in Symbol
    BY Symbols
  <2>2. a \in Seq(Symbol) /\ a # <<>> /\ Len(a) = Len(pwd) + 1 /\ a[Len(pwd) + 1] = "/"
    BY <1>2, <2>1, AppendProperties
  <2>3. Head(a) = "/"
    BY <1>1, <1>2, <1>5, HeadTailAppend
  <2> HIDE DEF a
  <2>4. a \in PathType
    BY <2>2, <2>3 DEF PathType, Last
  <2>5. QED
    BY <1>5, <2>4 DEF FirstDir, pwd, a
<1>6. QED
  BY <1>3, <1>4, <1>5

\* The invariant holds at first.
LEMMA TypeInit == Init => TypeInv
<1> SUFFICES ASSUME Init PROVE TypeInv
  OBVIOUS
<1>1. <<>> \in Seq(PathType)
  OBVIOUS
<1>2. QED
  BY <1>1 DEF Init, TypeInv, RobotsRead, Placed, Scalars

\* walk_dir keeps the types of what it changes.
LEMMA WalkTypes ==
  ASSUME NEW queue \in Seq(PathType), NEW lies, walk_dir(queue, lies), asked \in Seq(PathType)
  PROVE  /\ dirQueue' \in Seq(PathType) /\ asked' \in Seq(PathType)
         /\ pc' \in {"data", "help", "lied"}
         /\ item' = <<>> \/ item' \in PathType
         /\ pc' = "data" => item' \in PathType
<1>1. CASE Stops(queue)
  <2>1. <<>> \in Seq(PathType)
    OBVIOUS
  <2>2. QED
    BY <1>1, <2>1 DEF Stops
<1>2. ASSUME NEW k \in 1..Len(queue), WalksTo(queue, k) PROVE dirQueue' \in Seq(PathType) /\ asked' \in Seq(PathType) /\ item' \in PathType /\ pc' = "data"
  <2>1. Len(queue) \in Nat /\ queue[k] \in PathType
    OBVIOUS
  <2>2. k + 1 \in 1..(Len(queue) + 1) /\ Len(queue) \in 0..Len(queue)
    BY <2>1
  <2>3. SubSeq(queue, k + 1, Len(queue)) \in Seq(PathType)
    BY <2>2, Slices
  <2>4. Append(asked, queue[k]) \in Seq(PathType)
    BY <2>1, AppendProperties
  <2>5. QED
    BY <1>2, <2>1, <2>3, <2>4 DEF WalksTo
<1>3. QED
  BY <1>1, <1>2, WalkIs

\* Every step keeps them.
LEMMA TypeStep == TypeInv /\ [Next]_vars => TypeInv'
<1> SUFFICES ASSUME TypeInv, [Next]_vars PROVE TypeInv'
  OBVIOUS
<1> USE DEF TypeInv
<1>1. server \in Servers /\ asked \in Seq(PathType) /\ dirQueue \in Seq(PathType)
  BY DEF Placed
<1>2. CASE RetrDone
  BY <1>2 DEF RetrDone, RobotsRead, Placed, Scalars, lie, history
<1>3. CASE RetrRefused
  <2>1. pc = "retr" /\ robotObj' = NoRobots /\ ~robotsKnown' /\ pc' = "syst"
    BY <1>3 DEF RetrRefused, RobotsRead
  <2>2. QED
    BY <1>3, <2>1 DEF RetrRefused, RobotsRead, Placed, Scalars, lie, history
<1>4. CASE ReadSyst
  <2>1. server.syst \in {"UNK", "UNIX", "WINDOWS", "VXWORKS"}
    BY <1>1, CrawlAssumption DEF CrawlAssumption
  <2>2. QED
    BY <1>4, <2>1 DEF ReadSyst, RobotsRead, Placed, Scalars, robots, lie, history
<1>5. CASE ReadPwd
  <2>1. /\ walk_dir(<<FirstDir(server.pwd)>>, lieCount) /\ named' = {FirstDir(server.pwd)}
        /\ UNCHANGED <<robots, destType, lie, listErrCount, unclear, heard, lists>>
    BY <1>5 DEF ReadPwd
  <2>2. FirstDir(server.pwd) \in PathType
    BY <1>1, FirstDirType
  <2>3. <<FirstDir(server.pwd)>> \in Seq(PathType)
    BY <2>2
  <2>4. Placed' /\ pc' \in {"data", "help", "lied"}
    BY <1>1, <2>1, <2>2, <2>3, WalkTypes DEF Placed
  <2>5. QED
    BY <2>1, <2>4 DEF RobotsRead, Scalars, robots, lie
<1>6. CASE DataClosed
  <2>1. /\ pc = "data" /\ pc' = "done" /\ Len(asked) \in DOMAIN Listings[server.lists]
        /\ UNCHANGED <<robots, item, listErrCount, asked>>
    BY <1>6 DEF DataClosed
  <2>2. PICK listing \in Listings[server.lists][Len(asked)] :
          /\ check_lie(listing)
          /\ dirQueue' = dirQueue \o parse_list_data(item, destType, Tokens(listing))
          /\ destType' = NewDestType(destType, Tokens(listing))
          /\ Hear(listing)
    BY <1>6 DEF DataClosed
  <2>3. server.lists \in DOMAIN Listings
    BY <1>1, CrawlAssumption DEF CrawlAssumption
  <2>4. IsListing(listing)
    BY <2>1, <2>3, ListingAssumption DEF ListingAssumption
  <2>5. item \in PathType /\ destType \in {"UNK", "UNIX", "WINDOWS", "VXWORKS"}
    BY <2>1 DEF Placed, Scalars
  <2>6. parse_list_data(item, destType, Tokens(listing)) \in Seq(PathType)
        /\ NewDestType(destType, Tokens(listing)) \in {"UNK", "UNIX", "WINDOWS", "VXWORKS"}
    BY <2>4, <2>5, ListingIs, ListDataType
  <2>7. dirQueue' \in Seq(PathType)
    BY <1>1, <2>2, <2>6, ConcatProperties
  <2>8. named' \in SUBSET PathType
    <3> DEFINE clear == IF ClearStyle(listing, destType) THEN ClearLines(listing) ELSE {}
               dirs == {l \in clear : l.means \notin {<<>>, Dot, DotDot}}
    <3>1. named' = named \cup ({DirOf(l) : l \in dirs} \ Useless)
      BY <2>2 DEF Hear
    <3>2. ASSUME NEW l \in dirs PROVE DirOf(l) \in PathType
      <4>1. l \in Range(listing.lines)
        BY DEF ClearLines
      <4>2. l \in LineType
        BY <2>4, <4>1, ListingIs, RangeOfSeq
      <4>3. l.means \in Seq(STRING)
        BY <4>2 DEF LineType
      <4>4. l.means \in Seq(Symbol)
        BY <4>3, Symbols
      <4>5. QED
        BY <2>5, <4>4, DirType DEF DirOf
    <3> HIDE DEF dirs
    <3>3. QED
      BY <3>1, <3>2 DEF Placed
  <2>9. lists' \in Nat /\ unclear' \in BOOLEAN
    BY <2>2 DEF Hear, Scalars
  <2>10. lieCount' \in Nat /\ lieHashSet' \in BOOLEAN /\ provedHonest' \in BOOLEAN
    <3>1. /\ lieCount' \in {lieCount, 0, lieCount + 1}
          /\ lieHashSet' = TRUE \/ lieHashSet' = lieHashSet
          /\ provedHonest' = TRUE \/ provedHonest' = provedHonest
      BY <2>2 DEF check_lie, lie
    <3>2. lieCount \in Nat
      BY DEF Scalars
    <3>3. lieCount' \in Nat
      BY <3>1, <3>2
    <3>4. lieHashSet' \in BOOLEAN /\ provedHonest' \in BOOLEAN
      BY <3>1, Zenon DEF Scalars
    <3>5. QED
      BY <3>3, <3>4
  <2>11. Placed'
    BY <2>1, <2>5, <2>7, <2>8 DEF Placed
  <2>12. Scalars'
    BY <2>1, <2>2, <2>6, <2>9, <2>10 DEF Scalars, robots
  <2>13. QED
    BY <2>1, <2>11, <2>12 DEF RobotsRead, robots
<1>7. CASE DataEmpty
  BY <1>7 DEF DataEmpty, RobotsRead, Placed, Scalars, robots, lie, history
<1>8. CASE ReadListDone
  <2>1. walk_dir(dirQueue, lieCount) /\ UNCHANGED <<robots, destType, lie, listErrCount, history>>
    BY <1>8 DEF ReadListDone
  <2>2. Placed' /\ pc' \in {"data", "help", "lied"}
    BY <1>1, <2>1, WalkTypes DEF Placed, history
  <2>3. QED
    BY <2>1, <2>2 DEF RobotsRead, Scalars, robots, lie, history
<1>9. CASE ListFailed
  <2>1. /\ listErrCount' = listErrCount + 1
        /\ UNCHANGED <<robots, destType, lie, history>>
        /\ \/ walk_dir(dirQueue, lieCount)
           \/ pc' = "quit" /\ UNCHANGED <<dirQueue, item, asked>>
    BY <1>9 DEF ListFailed
  <2>2. Placed' /\ pc' \in {"data", "help", "lied", "quit"}
    <3>1. CASE walk_dir(dirQueue, lieCount)
      BY <1>1, <2>1, <3>1, WalkTypes DEF Placed, history
    <3>2. CASE pc' = "quit" /\ UNCHANGED <<dirQueue, item, asked>>
      BY <2>1, <3>2 DEF Placed, history
    <3>3. QED
      BY <2>1, <3>1, <3>2
  <2>3. QED
    BY <2>1, <2>2 DEF RobotsRead, Scalars, robots, lie, history
<1>10. CASE UNCHANGED vars
  BY <1>10 DEF vars, RobotsRead, Placed, Scalars, robots, lie, history
<1>11. QED
  BY <1>2, <1>3, <1>4, <1>5, <1>6, <1>7, <1>8, <1>9, <1>10 DEF Next

\* They are what TypeOK says, and more.
LEMMA TypeInvOK == TypeInv => TypeOK
<1> SUFFICES ASSUME TypeInv PROVE TypeOK
  OBVIOUS
<1> USE DEF TypeInv
<1>1. \A p \in PathType : IsDir(p)
  BY DEF IsDir, PathType
<1>2. \A path \in Range(dirQueue) \cup Range(asked) \cup named : IsDir(path)
  BY <1>1, RangeOfSeq DEF Placed
<1>3. item = <<>> \/ IsDir(item)
  BY <1>1 DEF Placed
<1>4. RobotsType(robotObj)
  <2>1. server.text \in Seq(Seq(Symbol))
    BY CrawlAssumption, Symbols DEF CrawlAssumption
  <2>2. QED
    BY <2>1, RobotsTyped DEF RobotsRead
<1>5. QED
  BY <1>2, <1>3, <1>4 DEF TypeOK, Scalars, RobotsType

\* Every state of a walk has its types.
LEMMA AlwaysTyped == Spec => []TypeInv
BY TypeInit, TypeStep, PTL DEF Spec

\* Whatever servers answer, rules begin with a slash, every directory that is queued, asked
\* for or named is an absolute path with a slash at its end, and so is the one that is listed.
THEOREM CrawlTypes == Spec => []TypeOK
BY AlwaysTyped, TypeInvOK, PTL

-----------------------------------------------------------------------------
\* RobotsObeyed.

\* Whatever is asked for, the rules that are known allow.
AskedAllowed == \A path \in Range(asked) : access_is_allowed(robotObj, path)

\* walk_dir asks only for what is allowed.
LEMMA WalkObeys ==
  ASSUME NEW queue \in Seq(PathType), NEW lies, walk_dir(queue, lies), asked \in Seq(PathType),
         AskedAllowed, robotObj' = robotObj
  PROVE  AskedAllowed'
<1>1. CASE Stops(queue)
  BY <1>1 DEF Stops, AskedAllowed
<1>2. ASSUME NEW k \in 1..Len(queue), WalksTo(queue, k) PROVE AskedAllowed'
  <2>1. asked' = Append(asked, queue[k]) /\ access_is_allowed(robotObj, queue[k])
    BY <1>2 DEF WalksTo
  <2>2. queue[k] \in PathType
    OBVIOUS
  <2>3. \A path \in Range(asked') : path \in Range(asked) \/ path = queue[k]
    BY <2>1, <2>2 DEF Range
  <2>4. QED
    BY <2>1, <2>3 DEF AskedAllowed
<1>3. QED
  BY <1>1, <1>2, WalkIs

\* No step asks for anything else, or changes the rules when something was asked for.
LEMMA AskedStep == TypeInv /\ AskedAllowed /\ [Next]_vars => AskedAllowed'
<1> SUFFICES ASSUME TypeInv, AskedAllowed, [Next]_vars PROVE AskedAllowed'
  OBVIOUS
<1>1. asked \in Seq(PathType) /\ dirQueue \in Seq(PathType) /\ server \in Servers
  BY DEF TypeInv, Placed
<1>2. CASE RetrDone \/ RetrRefused
  <2>1. asked' = <<>>
    BY <1>2 DEF RetrDone, RetrRefused, TypeInv, Placed
  <2>2. QED
    BY <2>1 DEF AskedAllowed, Range
<1>3. CASE ReadPwd
  <2>1. walk_dir(<<FirstDir(server.pwd)>>, lieCount) /\ robotObj' = robotObj
    BY <1>3 DEF ReadPwd, robots
  <2>2. FirstDir(server.pwd) \in PathType
    BY <1>1, FirstDirType
  <2>3. <<FirstDir(server.pwd)>> \in Seq(PathType)
    BY <2>2
  <2>4. QED
    BY <1>1, <2>1, <2>3, WalkObeys
<1>4. CASE ReadListDone
  <2>1. walk_dir(dirQueue, lieCount) /\ robotObj' = robotObj
    BY <1>4 DEF ReadListDone, robots
  <2>2. QED
    BY <1>1, <2>1, WalkObeys
<1>5. CASE ListFailed
  <2>1. robotObj' = robotObj /\ (walk_dir(dirQueue, lieCount) \/ UNCHANGED asked)
    BY <1>5 DEF ListFailed, robots
  <2>2. UNCHANGED asked => AskedAllowed'
    BY <2>1 DEF AskedAllowed
  <2>3. QED
    BY <1>1, <2>1, <2>2, WalkObeys
<1>6. CASE ReadSyst \/ DataClosed \/ DataEmpty \/ UNCHANGED vars
  <2>1. robotObj' = robotObj /\ asked' = asked
    BY <1>6 DEF ReadSyst, DataClosed, DataEmpty, vars, robots
  <2>2. QED
    BY <2>1 DEF AskedAllowed
<1>7. QED
  BY <1>2, <1>3, <1>4, <1>5, <1>6 DEF Next

\* What is allowed is not forbidden.
LEMMA ObeyedThen == TypeInv /\ AskedAllowed => RobotsObeyed
<1> SUFFICES ASSUME TypeInv, AskedAllowed, robotsKnown, NEW path \in Range(asked)
             PROVE  ~Forbids(server.groups, path)
  BY DEF RobotsObeyed
<1>1. server \in Servers /\ robotObj = robot_parser_init(server.text)
  BY DEF TypeInv, RobotsRead
<1>2. asked \in Seq(PathType)
  BY DEF TypeInv, Placed
<1>3. path \in Seq(Symbol)
  BY <1>2, RangeOfSeq DEF PathType
<1>4. access_is_allowed(robot_parser_init(server.text), path)
  BY <1>1 DEF AskedAllowed
<1>5. QED
  BY <1>1, <1>3, <1>4, RobotsDecide

\* Whatever servers answer, no directory is listed that a plain robots.txt forbids.
THEOREM RobotsAreObeyed == Spec => []RobotsObeyed
<1>1. Init => AskedAllowed
  BY DEF Init, AskedAllowed, Range
<1>2. QED
  BY <1>1, AlwaysTyped, AskedStep, ObeyedThen, PTL DEF Spec

-----------------------------------------------------------------------------
\* AllAsked and NothingMadeUp.

\* What is heard is queued, and as long as all is clear nothing else.
LEMMA HearQueues ==
  ASSUME TypeInv, item \in PathType, NEW listing, IsListing(listing), Hear(listing)
  PROVE  LET added == Range(parse_list_data(item, destType, Tokens(listing)))
         IN  named \subseteq named' /\ named' \subseteq named \cup added
             /\ (unclear => unclear') /\ (~unclear' => added \subseteq named')
<1> DEFINE added == Range(parse_list_data(item, destType, Tokens(listing)))
           clear == IF ClearStyle(listing, destType) THEN ClearLines(listing) ELSE {}
           dirs == {l \in clear : l.means \notin {<<>>, Dot, DotDot}}
           n == Len(listing.lines)
<1>1. named' = named \cup ({DirOf(l) : l \in dirs} \ Useless)
      /\ unclear' = (unclear \/ clear # Range(listing.lines))
  BY DEF Hear
<1>2. destType \in {"UNK", "UNIX", "WINDOWS", "VXWORKS"} /\ unclear \in BOOLEAN
  BY DEF TypeInv, Scalars
<1>3. listing.lines \in Seq(LineType) /\ listing.lines # <<>>
  BY ListingIs
<1>4. n \in Nat \ {0} /\ Range(listing.lines) = {listing.lines[i] : i \in 1..n}
  BY <1>3 DEF Range
<1>5. CASE ClearStyle(listing, destType)
  <2>1. PICK parts : Tells(parts, listing, item)
                     /\ parse_list_data(item, destType, Tokens(listing)) = FlattenSeq(parts)
    BY <1>2, <1>5, ListingTells
  <2>2. parts \in Seq(Seq(PathType)) /\ DOMAIN parts = 1..n
    <3>1. \A a \in Added : a \in Seq(PathType)
      <4>1. <<>> \in Seq(PathType) /\ \A path \in PathType : <<path>> \in Seq(PathType)
        OBVIOUS
      <4>2. QED
        BY <4>1 DEF Added
    <3>2. parts \in Seq(Added) /\ Len(parts) = n
      BY <2>1 DEF Tells
    <3>3. QED
      BY <3>1, <3>2
  <2>3. added = UNION {Range(parts[i]) : i \in 1..n}
    BY <2>1, <2>2, FlattenRange
  <2>4. clear = ClearLines(listing)
    BY <1>5
  <2>5. ASSUME NEW i \in 1..n, listing.lines[i] \in clear
        PROVE  Range(parts[i]) = IF listing.lines[i] \in dirs /\ DirOf(listing.lines[i]) \notin Useless
                                 THEN {DirOf(listing.lines[i])} ELSE {}
    <3> DEFINE line == listing.lines[i]
    <3>1. ClearLine(listing.style, line)
      BY <2>4, <2>5 DEF ClearLines
    <3>2. parts[i] = Meant(item, line.means)
      BY <2>1, <3>1 DEF Tells
    <3>3. parts[i] = IF line \in dirs /\ DirOf(line) \notin Useless THEN <<DirOf(line)>> ELSE <<>>
      BY <2>5, <3>2 DEF Meant, DirOf
    <3>4. Range(<<>>) = {} /\ \A x : Range(<<x>>) = {x}
      BY DEF Range
    <3> HIDE DEF line, dirs, clear
    <3>5. QED
      BY <3>3, <3>4 DEF line
  <2> HIDE DEF added
  <2>6. ASSUME NEW l \in dirs, DirOf(l) \notin Useless PROVE DirOf(l) \in added
    <3>1. PICK i \in 1..n : l = listing.lines[i]
      BY <1>4, <2>4 DEF ClearLines
    <3>2. Range(parts[i]) = {DirOf(l)}
      BY <2>5, <2>6, <3>1
    <3>3. QED
      BY <2>3, <3>2
  <2>7. ASSUME clear = Range(listing.lines), NEW path \in added PROVE path \in named'
    <3>1. PICK i \in 1..n : path \in Range(parts[i])
      BY <2>3
    <3>2. listing.lines[i] \in clear
      BY <1>4, <2>7
    <3>3. listing.lines[i] \in dirs /\ DirOf(listing.lines[i]) \notin Useless /\ path = DirOf(listing.lines[i])
      BY <2>5, <3>1, <3>2
    <3> HIDE DEF dirs
    <3>4. QED
      BY <1>1, <3>3
  <2> HIDE DEF dirs, clear
  <2>8. QED
    BY <1>1, <1>2, <2>6, <2>7 DEF added
<1>6. CASE ~ClearStyle(listing, destType)
  <2>1. clear = {} /\ dirs = {}
    BY <1>6
  <2>2. 1 \in 1..n
    BY <1>4
  <2>3. clear # Range(listing.lines)
    <3>1. listing.lines[1] \in Range(listing.lines)
      BY <1>4, <2>2
    <3> HIDE DEF clear
    <3>2. QED
      BY <2>1, <3>1
  <2> HIDE DEF dirs, clear, added
  <2>4. named' = named /\ unclear'
    BY <1>1, <1>2, <2>1, <2>3
  <2>5. QED
    BY <2>4 DEF added
<1>7. QED
  BY <1>5, <1>6

\* What was to be asked still is, unless it is not allowed or the walk ends.
LEMMA WalkKeeps ==
  ASSUME NEW queue \in Seq(PathType), NEW lies, walk_dir(queue, lies), asked \in Seq(PathType)
  PROVE  /\ Range(asked') \cup Range(dirQueue') \subseteq Range(asked) \cup Range(queue)
         /\ pc' = "help" => dirQueue' = <<>>
         /\ pc' \in {"data", "help"} =>
              \A path \in Range(asked) \cup Range(queue) :
                path \in Range(asked') \cup Range(dirQueue') \/ ~access_is_allowed(robotObj, path)
<1>1. Len(queue) \in Nat /\ DOMAIN queue = 1..Len(queue) /\ Range(queue) = {queue[i] : i \in 1..Len(queue)}
  BY DEF Range
<1>2. CASE Stops(queue)
  <2>1. asked' = asked /\ dirQueue' = <<>> /\ pc' \in {"lied", "help"}
        /\ (pc' = "help" => \A i \in 1..Len(queue) : ~access_is_allowed(robotObj, queue[i]))
    BY <1>1, <1>2 DEF Stops
  <2>2. Range(dirQueue') = {}
    BY <2>1 DEF Range
  <2>3. QED
    BY <1>1, <2>1, <2>2
<1>3. ASSUME NEW k \in 1..Len(queue), WalksTo(queue, k)
      PROVE  /\ Range(asked') = Range(asked) \cup {queue[k]}
             /\ Range(dirQueue') = {queue[i] : i \in (k + 1)..Len(queue)}
             /\ pc' = "data" /\ \A i \in 1..(k - 1) : ~access_is_allowed(robotObj, queue[i])
  <2>1. /\ asked' = Append(asked, queue[k]) /\ dirQueue' = SubSeq(queue, k + 1, Len(queue))
        /\ pc' = "data" /\ \A i \in 1..(k - 1) : ~access_is_allowed(robotObj, queue[i])
    BY <1>3 DEF WalksTo
  <2>2. queue[k] \in PathType
    BY <1>1
  <2>3. Range(asked') = Range(asked) \cup {queue[k]}
    <3>1. Len(asked) \in Nat
      OBVIOUS
    <3>2. /\ asked' \in Seq(PathType) /\ Len(asked') = Len(asked) + 1
          /\ asked'[Len(asked) + 1] = queue[k] /\ \A i \in 1..Len(asked) : asked'[i] = asked[i]
      BY <2>1, <2>2, AppendProperties
    <3>3. Range(asked) = {asked[i] : i \in 1..Len(asked)} /\ Range(asked') = {asked'[i] : i \in 1..(Len(asked) + 1)}
      BY <3>2 DEF Range
    <3>4. \A i \in 1..(Len(asked) + 1) : i = Len(asked) + 1 \/ i \in 1..Len(asked)
      BY <3>1
    <3>5. Len(asked) + 1 \in 1..(Len(asked) + 1) /\ \A i \in 1..Len(asked) : i \in 1..(Len(asked) + 1)
      BY <3>1
    <3>6. QED
      BY <3>2, <3>3, <3>4, <3>5
  <2>4. Range(dirQueue') = {queue[i] : i \in (k + 1)..Len(queue)}
    <3> DEFINE rest == SubSeq(queue, k + 1, Len(queue))
               m == IF k + 1 <= Len(queue) THEN Len(queue) - (k + 1) + 1 ELSE 0
    <3>1. k + 1 \in 1..(Len(queue) + 1) /\ Len(queue) \in 0..Len(queue)
      BY <1>1
    <3>2. /\ rest \in Seq(PathType) /\ Len(rest) = m
          /\ \A i \in 1..(Len(queue) - (k + 1) + 1) : rest[i] = queue[(k + 1) + i - 1]
      BY <3>1, Slices
    <3>3. Range(rest) = {rest[i] : i \in 1..m}
      <4> HIDE DEF rest, m
      <4>1. DOMAIN rest = 1..m
        BY <3>2
      <4>2. QED
        BY <4>1 DEF Range
    <3> HIDE DEF rest
    <3>4. \A i \in 1..m : i \in 1..(Len(queue) - (k + 1) + 1) /\ (k + 1) + i - 1 \in (k + 1)..Len(queue)
      BY <1>1
    <3>5. \A i \in (k + 1)..Len(queue) : i - k \in 1..m /\ i - k \in 1..(Len(queue) - (k + 1) + 1) /\ (k + 1) + (i - k) - 1 = i
      BY <1>1
    <3> HIDE DEF m
    <3>6. QED
      BY <2>1, <3>2, <3>3, <3>4, <3>5 DEF rest
  <2>5. QED
    BY <2>1, <2>3, <2>4
<1>4. ASSUME NEW k \in 1..Len(queue), WalksTo(queue, k)
      PROVE  /\ Range(asked') \cup Range(dirQueue') \subseteq Range(asked) \cup Range(queue)
             /\ pc' = "data"
             /\ \A path \in Range(asked) \cup Range(queue) :
                  path \in Range(asked') \cup Range(dirQueue') \/ ~access_is_allowed(robotObj, path)
  <2>1. /\ Range(asked') = Range(asked) \cup {queue[k]}
        /\ Range(dirQueue') = {queue[i] : i \in (k + 1)..Len(queue)}
        /\ pc' = "data" /\ \A i \in 1..(k - 1) : ~access_is_allowed(robotObj, queue[i])
    BY <1>3, <1>4
  <2>2. \A i \in (k + 1)..Len(queue) : i \in 1..Len(queue)
    BY <1>1
  <2>3. \A i \in 1..Len(queue) : i = k \/ i \in 1..(k - 1) \/ i \in (k + 1)..Len(queue)
    BY <1>1
  <2>4. QED
    BY <1>1, <2>1, <2>2, <2>3
<1>5. QED
  BY <1>2, <1>4, WalkIs

\* What was named was or will be asked for, as far as it is allowed.
NamedAsked ==
  /\ pc = "help" => dirQueue = <<>>
  /\ pc \in {"data", "done", "help"} =>
       \A path \in named :
         path \in Range(asked) \cup Range(dirQueue) \/ ~access_is_allowed(robotObj, path)

\* The invariant behind AllAsked and NothingMadeUp.
AsNamed == NamedAsked /\ NothingMadeUp

\* Every step keeps it.
LEMMA NamedStep == TypeInv /\ AsNamed /\ [Next]_vars => AsNamed'
<1> SUFFICES ASSUME TypeInv, AsNamed, [Next]_vars PROVE AsNamed'
  OBVIOUS
<1>1. asked \in Seq(PathType) /\ dirQueue \in Seq(PathType) /\ server \in Servers
      /\ (pc \in {"data", "done"} => item \in PathType)
      /\ (pc \in {"retr", "syst", "pwd"} => dirQueue = <<>> /\ asked = <<>> /\ named = {})
  BY DEF TypeInv, Placed
<1>2. CASE RetrDone \/ RetrRefused
  BY <1>2 DEF RetrDone, RetrRefused, AsNamed, NamedAsked, NothingMadeUp, history
<1>3. CASE ReadSyst \/ DataEmpty \/ UNCHANGED vars
  BY <1>3 DEF ReadSyst, DataEmpty, AsNamed, NamedAsked, NothingMadeUp, vars, history, robots
<1>4. CASE ReadPwd
  <2> DEFINE queue == <<FirstDir(server.pwd)>>
  <2>1. walk_dir(queue, lieCount) /\ robotObj' = robotObj /\ named' = Range(queue) /\ asked = <<>>
    BY <1>1, <1>4 DEF ReadPwd, robots, Range
  <2>2. FirstDir(server.pwd) \in PathType
    BY <1>1, FirstDirType
  <2>3. queue \in Seq(PathType)
    BY <2>2
  <2> HIDE DEF queue
  <2>4. Range(asked) = {}
    BY <2>1 DEF Range
  <2>5. pc' \in {"data", "help", "lied"}
    BY <1>1, <2>1, <2>3, WalkTypes
  <2>6. /\ Range(asked') \cup Range(dirQueue') \subseteq Range(asked) \cup Range(queue)
        /\ pc' = "help" => dirQueue' = <<>>
        /\ pc' \in {"data", "help"} =>
             \A path \in Range(asked) \cup Range(queue) :
               path \in Range(asked') \cup Range(dirQueue') \/ ~access_is_allowed(robotObj, path)
    BY <1>1, <2>1, <2>3, WalkKeeps
  <2>7. QED
    BY <2>1, <2>4, <2>5, <2>6 DEF AsNamed, NamedAsked, NothingMadeUp
<1>5. CASE DataClosed
  <2>1. /\ pc = "data" /\ pc' = "done" /\ Len(asked) \in DOMAIN Listings[server.lists]
        /\ robotObj' = robotObj /\ asked' = asked
    BY <1>5 DEF DataClosed, robots
  <2>2. PICK listing \in Listings[server.lists][Len(asked)] :
          /\ dirQueue' = dirQueue \o parse_list_data(item, destType, Tokens(listing))
          /\ Hear(listing)
    BY <1>5 DEF DataClosed
  <2>3. server.lists \in DOMAIN Listings
    BY <1>1, CrawlAssumption DEF CrawlAssumption
  <2>4. IsListing(listing)
    BY <2>1, <2>3, ListingAssumption DEF ListingAssumption
  <2> DEFINE more == parse_list_data(item, destType, Tokens(listing))
  <2>5. more \in Seq(PathType)
    <3>1. item \in PathType /\ destType \in {"UNK", "UNIX", "WINDOWS", "VXWORKS"}
      BY <1>1, <2>1 DEF TypeInv, Scalars
    <3>2. QED
      BY <2>4, <3>1, ListingIs, ListDataType
  <2>6. /\ named \subseteq named' /\ named' \subseteq named \cup Range(more)
        /\ (unclear => unclear') /\ (~unclear' => Range(more) \subseteq named')
    BY <1>1, <2>1, <2>2, <2>4, HearQueues
  <2>7. dirQueue' = dirQueue \o more
    BY <2>2
  <2> HIDE DEF more
  <2>8. Range(dirQueue') = Range(dirQueue) \cup Range(more)
    BY <1>1, <2>5, <2>7, RangeConcatenation
  <2>9. NamedAsked'
    BY <2>1, <2>6, <2>8 DEF AsNamed, NamedAsked
  <2>10. NothingMadeUp'
    <3>1. SUFFICES ASSUME ~unclear' PROVE Range(asked') \cup Range(dirQueue') \subseteq named'
      BY DEF NothingMadeUp
    <3>2. Range(asked) \cup Range(dirQueue) \subseteq named
      BY <2>6, <3>1 DEF AsNamed, NothingMadeUp
    <3>3. QED
      BY <2>1, <2>6, <2>8, <3>1, <3>2
  <2>11. QED
    BY <2>9, <2>10 DEF AsNamed
<1>6. ASSUME walk_dir(dirQueue, lieCount), pc \in {"data", "done"}, robotObj' = robotObj, named' = named, unclear' = unclear
      PROVE  AsNamed'
  <2>1. pc' \in {"data", "help", "lied"}
    BY <1>1, <1>6, WalkTypes
  <2>2. /\ Range(asked') \cup Range(dirQueue') \subseteq Range(asked) \cup Range(dirQueue)
        /\ pc' = "help" => dirQueue' = <<>>
        /\ pc' \in {"data", "help"} =>
             \A path \in Range(asked) \cup Range(dirQueue) :
               path \in Range(asked') \cup Range(dirQueue') \/ ~access_is_allowed(robotObj, path)
    BY <1>1, <1>6, WalkKeeps
  <2>3. NamedAsked'
    BY <1>6, <2>1, <2>2 DEF AsNamed, NamedAsked
  <2>4. NothingMadeUp'
    BY <1>6, <2>2 DEF AsNamed, NothingMadeUp
  <2>5. QED
    BY <2>3, <2>4 DEF AsNamed
<1>7. CASE ReadListDone
  BY <1>6, <1>7 DEF ReadListDone, robots, history
<1>8. CASE ListFailed
  <2>1. CASE pc' = "quit" /\ UNCHANGED <<dirQueue, item, asked>>
    BY <1>8, <2>1 DEF ListFailed, AsNamed, NamedAsked, NothingMadeUp, robots, history
  <2>2. CASE walk_dir(dirQueue, lieCount)
    BY <1>6, <1>8, <2>2 DEF ListFailed, robots, history
  <2>3. QED
    BY <1>8, <2>1, <2>2 DEF ListFailed
<1>9. QED
  BY <1>2, <1>3, <1>4, <1>5, <1>7, <1>8 DEF Next

\* When nothing is queued any more, all that was named was asked for.
LEMMA AskedThen == TypeInv /\ AsNamed => AllAsked
<1> SUFFICES ASSUME TypeInv, AsNamed, pc = "help", NEW path \in named \ Range(asked)
             PROVE  robotsKnown /\ ~Permits(server.groups, path)
  BY DEF AllAsked
<1>1. Range(dirQueue) = {}
  BY DEF AsNamed, NamedAsked, Range
<1>2. ~access_is_allowed(robotObj, path)
  BY <1>1 DEF AsNamed, NamedAsked
<1>3. server \in Servers /\ robotObj = IF robotsKnown THEN robot_parser_init(server.text) ELSE NoRobots
  BY DEF TypeInv, RobotsRead
<1>4. robotsKnown
  BY <1>2, <1>3 DEF access_is_allowed, NoRobots
<1>5. path \in Seq(Symbol)
  BY DEF TypeInv, Placed, PathType
<1>6. QED
  BY <1>2, <1>3, <1>4, <1>5, RobotsDecide

\* It holds in every state of a walk.
LEMMA AlwaysNamed == Spec => []AsNamed
<1>1. Init => AsNamed
  BY DEF Init, AsNamed, NamedAsked, NothingMadeUp, Range
<1>2. QED
  BY <1>1, AlwaysTyped, NamedStep, PTL DEF Spec

\* Whatever servers answer, a complete walk has asked for every directory that was clearly
\* named, but for those a robots.txt has a say in.
THEOREM AllAreAsked == Spec => []AllAsked
BY AlwaysTyped, AlwaysNamed, AskedThen, PTL

\* Whatever servers answer, only named directories are asked for, as long as all is clear.
THEOREM NothingIsMadeUp == Spec => []NothingMadeUp
<1>1. AsNamed => NothingMadeUp
  BY DEF AsNamed
<1>2. QED
  BY <1>1, AlwaysNamed, PTL

-----------------------------------------------------------------------------
\* Paths by their directory and name.

\* The directory of this name below another one.
Below(dir, name) == Append(dir \o name, "/")

\* The path of a name below a directory, symbol by symbol.
LEMMA BelowIs ==
  ASSUME NEW dir \in PathType, NEW name \in Slashless
  PROVE  /\ Below(dir, name) \in PathType /\ Len(Below(dir, name)) = Len(dir) + Len(name) + 1
         /\ \A i \in 1..Len(dir) : Below(dir, name)[i] = dir[i]
         /\ \A i \in 1..Len(name) : Below(dir, name)[Len(dir) + i] = name[i] /\ name[i] # "/"
         /\ dir[Len(dir)] = "/" /\ Len(dir) \in Nat \ {0} /\ Len(name) \in Nat
<1> DEFINE d == Len(dir)
           m == Len(name)
           path == dir \o name
<1>1. dir \in Seq(Symbol) /\ name \in Seq(Symbol) /\ d \in Nat \ {0} /\ m \in Nat /\ "/" \in Symbol
  <2>1. dir \in Seq(Symbol) /\ name \in Seq(Symbol) /\ dir # <<>>
    BY DEF PathType, Slashless
  <2>2. "/" \in Symbol
    BY Symbols
  <2>3. QED
    BY <2>1, <2>2
<1>2. dir[d] = "/"
  BY DEF PathType, Last
<1>3. \A i \in 1..m : name[i] # "/"
  <2>1. DOMAIN name = 1..m /\ "/" \notin Range(name)
    BY <1>1 DEF Slashless
  <2>2. QED
    BY <2>1 DEF Range
<1>4. /\ path \in Seq(Symbol) /\ Len(path) = d + m
      /\ \A i \in 1..(d + m) : path[i] = IF i <= d THEN dir[i] ELSE name[i - d]
  BY <1>1, ConcatProperties
<1>5. Below(dir, name) = Append(path, "/") /\ Below(dir, name) \in PathType
  BY <1>1, DirType DEF Below
<1> HIDE DEF path, d, m
<1>6. Len(Append(path, "/")) = Len(path) + 1 /\ \A i \in 1..Len(path) : Append(path, "/")[i] = path[i]
  BY <1>1, <1>4, AppendProperties
<1>7. Len(Append(path, "/")) = d + m + 1 /\ \A i \in 1..(d + m) : Append(path, "/")[i] = path[i]
  BY <1>4, <1>6
<1> DEFINE whole == Append(path, "/")
<1>8. Len(whole) = d + m + 1 /\ \A i \in 1..(d + m) : whole[i] = path[i]
  BY <1>7
<1>9. Below(dir, name) = whole
  BY <1>5
<1> HIDE DEF whole
<1>10. \A i \in 1..d : i \in 1..(d + m) /\ i <= d
  BY <1>1
<1>11. \A i \in 1..m : d + i \in 1..(d + m) /\ ~(d + i <= d) /\ (d + i) - d = i
  BY <1>1
<1>12. /\ \A i \in 1..d : whole[i] = dir[i]
       /\ \A i \in 1..m : whole[d + i] = name[i]
  BY <1>4, <1>8, <1>10, <1>11
<1>13. QED
  BY <1>1, <1>2, <1>3, <1>5, <1>8, <1>9, <1>12 DEF d, m

\* Paths that are the same have directories that are equally long ...
LEMMA BelowNotLess ==
  ASSUME NEW p \in PathType, NEW q \in PathType, NEW m \in Slashless, NEW n \in Slashless,
         Below(p, m) = Below(q, n)
  PROVE  ~(Len(p) < Len(q))
<1> DEFINE a == Len(p)
           b == Len(q)
           x == Len(m)
           y == Len(n)
           path == Below(p, m)
<1>1. /\ a \in Nat \ {0} /\ b \in Nat \ {0} /\ x \in Nat /\ y \in Nat
      /\ Len(path) = a + x + 1 /\ Len(path) = b + y + 1 /\ q[b] = "/"
      /\ \A i \in 1..x : path[a + i] = m[i] /\ m[i] # "/"
      /\ \A i \in 1..b : path[i] = q[i]
  <2>1. /\ a \in Nat \ {0} /\ x \in Nat /\ Len(path) = a + x + 1
        /\ \A i \in 1..x : path[a + i] = m[i] /\ m[i] # "/"
    BY BelowIs
  <2> DEFINE other == Below(q, n)
  <2>2. /\ b \in Nat \ {0} /\ y \in Nat /\ Len(other) = b + y + 1 /\ q[b] = "/"
        /\ \A i \in 1..b : other[i] = q[i]
    BY BelowIs
  <2>3. path = other
    OBVIOUS
  <2> HIDE DEF other, path, a, b, x, y
  <2>4. QED
    BY <2>1, <2>2, <2>3
<1> HIDE DEF a, b, x, y, path
<1>2. SUFFICES ASSUME a < b PROVE FALSE
  BY DEF a, b
<1>3. b - a \in 1..x /\ a + (b - a) = b /\ b \in 1..b
  BY <1>1, <1>2
<1>4. path[b] = "/" /\ path[a + (b - a)] # "/"
  BY <1>1, <1>3
<1>5. QED
  BY <1>3, <1>4

\* ... and so the same directory and the same name.
LEMMA BelowOnce ==
  ASSUME NEW p \in PathType, NEW q \in PathType, NEW m \in Slashless, NEW n \in Slashless,
         Below(p, m) = Below(q, n)
  PROVE  p = q /\ m = n
<1> DEFINE a == Len(p)
           b == Len(q)
           x == Len(m)
           y == Len(n)
           path == Below(p, m)
<1>1. /\ a \in Nat \ {0} /\ b \in Nat \ {0} /\ x \in Nat /\ y \in Nat
      /\ Len(path) = a + x + 1 /\ Len(path) = b + y + 1
      /\ \A i \in 1..a : path[i] = p[i]
      /\ \A i \in 1..b : path[i] = q[i]
      /\ \A i \in 1..x : path[a + i] = m[i]
      /\ \A i \in 1..y : path[b + i] = n[i]
  <2>1. /\ a \in Nat \ {0} /\ x \in Nat /\ Len(path) = a + x + 1
        /\ \A i \in 1..a : path[i] = p[i]
        /\ \A i \in 1..x : path[a + i] = m[i]
    BY BelowIs
  <2> DEFINE other == Below(q, n)
  <2>2. /\ b \in Nat \ {0} /\ y \in Nat /\ Len(other) = b + y + 1
        /\ \A i \in 1..b : other[i] = q[i]
        /\ \A i \in 1..y : other[b + i] = n[i]
    BY BelowIs
  <2>3. path = other
    OBVIOUS
  <2> HIDE DEF other, path, a, b, x, y
  <2>4. QED
    BY <2>1, <2>2, <2>3
<1>2. ~(a < b) /\ ~(b < a)
  BY BelowNotLess
<1>3. p \in Seq(Symbol) /\ q \in Seq(Symbol) /\ m \in Seq(Symbol) /\ n \in Seq(Symbol)
  BY DEF PathType, Slashless
<1> HIDE DEF a, b, x, y, path
<1>4. a = b /\ x = y
  <2>1. a = b
    BY <1>1, <1>2
  <2>2. a + x + 1 = b + y + 1
    BY <1>1
  <2>3. QED
    BY <1>1, <2>1, <2>2
<1>5. \A i \in 1..a : p[i] = q[i]
  BY <1>1, <1>4
<1>6. \A i \in 1..x : m[i] = n[i]
  BY <1>1, <1>4
<1>7. p = q
  BY <1>3, <1>4, <1>5, SeqEqual DEF a, b
<1>8. m = n
  BY <1>3, <1>4, <1>6, SeqEqual DEF x, y
<1>9. QED
  BY <1>7, <1>8

-----------------------------------------------------------------------------
\* Canonical paths.

\* What ends in /x/ has x as its last name.
LEMMA SuffixIs ==
  ASSUME NEW T, NEW p \in Seq(T), NEW x \in T, "/" \in T, IsSuffix(<<"/", x, "/">>, p)
  PROVE  Len(p) >= 3 /\ p[Len(p) - 1] = x /\ p[Len(p) - 2] = "/"
<1> DEFINE s == <<"/", x, "/">>
           r == Reverse(s)
           t == Reverse(p)
           n == Len(p)
<1>1. n \in Nat
  OBVIOUS
<1>2. t \in Seq(T) /\ Len(t) = n /\ \A i \in 1..n : t[i] = p[n - i + 1]
  <2>1. \A i \in 1..n : (n - i) + 1 \in 1..n
    BY <1>1
  <2>2. \A i \in 1..n : p[(n - i) + 1] \in T
    BY <2>1
  <2>3. t = [i \in 1..n |-> p[(n - i) + 1]]
    BY DEF Reverse
  <2> HIDE DEF t, n
  <2>4. QED
    BY <1>1, <2>2, <2>3
<1>3. r \in Seq(T) /\ Len(r) = 3 /\ r[2] = x /\ r[3] = "/"
  <2>1. s \in Seq(T) /\ Len(s) = 3 /\ s[1] = "/" /\ s[2] = x /\ s[3] = "/"
    OBVIOUS
  <2> HIDE DEF s
  <2>2. r = [i \in 1..3 |-> s[(3 - i) + 1]]
    BY <2>1 DEF Reverse
  <2>3. \A i \in 1..3 : (3 - i) + 1 \in 1..3 /\ s[(3 - i) + 1] \in T
    BY <2>1
  <2> HIDE DEF r
  <2>4. QED
    BY <2>1, <2>2, <2>3
<1>4. IsPrefix(r, t)
  BY DEF IsSuffix
<1> HIDE DEF s, r, t, n
<1>5. 3 <= n /\ SubSeq(r, 1, 3) = SubSeq(t, 1, 3)
  BY <1>2, <1>3, <1>4 DEF IsPrefix
<1>6. 3 \in 0..Len(r) /\ 3 \in 0..Len(t) /\ 1 \in 1..(Len(r) + 1) /\ 1 \in 1..(Len(t) + 1)
  BY <1>1, <1>2, <1>3, <1>5
<1>7. \A i \in 1..3 : SubSeq(r, 1, 3)[i] = r[i] /\ SubSeq(t, 1, 3)[i] = t[i]
  <2>1. \A i \in 1..(3 - 1 + 1) : SubSeq(r, 1, 3)[i] = r[1 + i - 1]
    BY <1>3, <1>6, Slices
  <2>2. \A i \in 1..(3 - 1 + 1) : SubSeq(t, 1, 3)[i] = t[1 + i - 1]
    BY <1>2, <1>6, Slices
  <2>3. 3 - 1 + 1 = 3 /\ \A i \in 1..3 : 1 + i - 1 = i
    OBVIOUS
  <2>4. QED
    BY <2>1, <2>2, <2>3
<1>8. t[2] = x /\ t[3] = "/"
  BY <1>3, <1>5, <1>7
<1>9. n - 2 + 1 = n - 1 /\ n - 3 + 1 = n - 2 /\ 2 \in 1..n /\ 3 \in 1..n
  BY <1>1, <1>5
<1>10. QED
  BY <1>1, <1>2, <1>5, <1>8, <1>9 DEF n

\* A parent is no longer than its directory.
LEMMA ParentIs ==
  ASSUME NEW T, NEW p \in Seq(T)
  PROVE  Parent(p) \in Seq(T) /\ Len(Parent(p)) <= Len(p)
<1> DEFINE slashes == {i \in DOMAIN p : p[i] = "/" /\ i < Len(p)}
           k == Max(slashes)
<1>1. Parent(p) = IF slashes = {} THEN p ELSE SubSeq(p, 1, k)
  BY DEF Parent
<1>2. Len(p) \in Nat
  OBVIOUS
<1>3. slashes \in SUBSET Nat /\ \A i \in slashes : i \in 1..Len(p)
  OBVIOUS
<1> HIDE DEF slashes
<1>4. CASE slashes = {}
  BY <1>1, <1>2, <1>4
<1>5. CASE slashes # {}
  <2>1. k \in slashes
    <3>1. \A y \in slashes : y <= Len(p)
      BY <1>2, <1>3
    <3>2. QED
      BY <1>2, <1>3, <1>5, <3>1, MaxInSet
  <2> HIDE DEF k
  <2>2. k \in 0..Len(p) /\ 1 \in 1..(Len(p) + 1) /\ 1 <= k
    BY <1>2, <1>3, <2>1
  <2>3. SubSeq(p, 1, k) \in Seq(T) /\ Len(SubSeq(p, 1, k)) = (IF 1 <= k THEN k - 1 + 1 ELSE 0)
    BY <2>2, Slices
  <2>4. Len(SubSeq(p, 1, k)) <= Len(p)
    BY <1>2, <2>2, <2>3
  <2>5. QED
    BY <1>1, <1>5, <2>3, <2>4
<1>6. QED
  BY <1>4, <1>5

\* Nor is the canonical name of a directory.
LEMMA CanonicalShorter ==
  ASSUME NEW p \in Seq(Symbol)
  PROVE  Len(Canonical(p)) \in Nat /\ Len(Canonical(p)) <= Len(p)
<1> DEFINE q == Parent(p)
           r == Parent(q)
<1>1. q \in Seq(Symbol) /\ Len(q) <= Len(p)
  BY ParentIs
<1> HIDE DEF q
<1>2. r \in Seq(Symbol) /\ Len(r) <= Len(q)
  BY <1>1, ParentIs
<1>3. Canonical(p) \in {p, q, r}
  BY DEF Canonical, q
<1> HIDE DEF r
<1>4. Len(p) \in Nat /\ Len(q) \in Nat /\ Len(r) \in Nat
  BY <1>1, <1>2
<1>5. Len(r) <= Len(p)
  BY <1>1, <1>2, <1>4
<1>6. QED
  BY <1>1, <1>3, <1>4, <1>5

\* A name other than . and .. makes a canonical path.
LEMMA BelowCanonical ==
  ASSUME NEW dir \in PathType, NEW name \in Slashless, name \notin {<<>>, Dot, DotDot}
  PROVE  Canonical(Below(dir, name)) = Below(dir, name)
<1> DEFINE path == Below(dir, name)
           T == Symbol \cup {".."}
           d == Len(dir)
           m == Len(name)
<1>1. /\ path \in PathType /\ Len(path) = d + m + 1
      /\ \A i \in 1..m : path[d + i] = name[i] /\ name[i] # "/"
      /\ d \in Nat \ {0} /\ m \in Nat
  BY BelowIs
<1>2. path \in Seq(T) /\ "/" \in T /\ name \in Seq(Symbol)
  <2>1. path \in Seq(Symbol) /\ name \in Seq(Symbol)
    BY <1>1 DEF PathType, Slashless
  <2>2. Symbol \subseteq T
    OBVIOUS
  <2>3. "/" \in Symbol
    BY Symbols
  <2> HIDE DEF T, path
  <2>4. QED
    BY <2>1, <2>2, <2>3, SeqMonotonic
<1>3. ASSUME NEW x \in T, <<x>> # name PROVE ~IsSuffix(<<"/", x, "/">>, path)
  <2> HIDE DEF path, T
  <2>1. SUFFICES ASSUME IsSuffix(<<"/", x, "/">>, path) PROVE FALSE
    OBVIOUS
  <2>2. path[Len(path) - 1] = x /\ path[Len(path) - 2] = "/"
    BY <1>2, <2>1, SuffixIs
  <2>3. m # 0
    BY <1>2
  <2> HIDE DEF d, m
  <2>4. Len(path) - 1 = d + m /\ m \in 1..m /\ Len(path) - 2 = d + (m - 1)
    BY <1>1, <2>3
  <2>5. m = 1
    <3>1. SUFFICES ASSUME m # 1 PROVE FALSE
      OBVIOUS
    <3>2. m - 1 \in 1..m
      BY <1>1, <2>3, <3>1
    <3>3. QED
      BY <1>1, <2>2, <2>4, <3>2
  <2>6. name[1] = x
    BY <1>1, <2>2, <2>4, <2>5
  <2>7. name = <<x>>
    BY <1>2, <2>5, <2>6 DEF m
  <2>8. QED
    BY <1>3, <2>7
<1>4. "." \in T /\ ".." \in T
  BY DEF Symbol
<1>5. ~IsSuffix(<<"/", ".", "/">>, path) /\ ~IsSuffix(<<"/", "..", "/">>, path)
  <2> HIDE DEF path, T
  <2>1. QED
    BY <1>3, <1>4 DEF Dot, DotDot
<1> HIDE DEF path
<1>6. Canonical(path) = path
  BY <1>5 DEF Canonical
<1>7. QED
  BY <1>6 DEF path

-----------------------------------------------------------------------------
\* What is flattened has no element twice if each sequence has one at most.

\* No element comes twice.
Injects(s) == \A i, j \in 1..Len(s) : s[i] = s[j] => i = j

\* Sequences of one element or none, no two of them the same, make no element twice.
LEMMA FlattenOnce ==
  ASSUME NEW T, NEW s \in Seq(Seq(T)), \A i \in 1..Len(s) : Len(s[i]) <= 1,
         \A i, j \in 1..Len(s) : s[i] # <<>> /\ s[i] = s[j] => i = j
  PROVE  Injects(FlattenSeq(s))
<1> DEFINE n == Len(s)
<1>1. PICK f : Flattens(f, s, T) /\ FlattenSeq(s) = f[n]
  BY Flattened
<1>2. n \in Nat /\ n \in 0..Len(s)
  OBVIOUS
<1>3. \A i \in 1..n : s[i] \in Seq(T)
  OBVIOUS
<1> HIDE DEF n
<1>4. n = Len(s)
  BY DEF n
\* The element x comes from the g-th sequence.
<1> DEFINE At(x, g) == x = Len(f[g - 1]) + 1 /\ s[g] = <<f[n][x]>>
<1>5. ASSUME NEW x \in 1..Len(f[n]) PROVE \E g \in 1..n : At(x, g)
  <2>1. ComesFrom(f, s, n, x)
    BY <1>1, <1>2, FlattenFrom
  <2>2. PICK g \in 1..n : \E j \in 1..Len(s[g]) : x = Len(f[g - 1]) + j
    BY <2>1 DEF ComesFrom
  <2>3. PICK j \in 1..Len(s[g]) : x = Len(f[g - 1]) + j
    BY <2>2
  <2>4. s[g] \in Seq(T) /\ Len(s[g]) <= 1
    BY <1>3, <1>4
  <2>5. j = 1 /\ Len(s[g]) = 1
    <3> DEFINE l == Len(s[g])
    <3>1. l \in Nat /\ l <= 1 /\ j \in 1..l
      BY <2>4
    <3> HIDE DEF l
    <3>2. j = 1 /\ l = 1
      BY <3>1
    <3>3. QED
      BY <3>2 DEF l
  <2>6. Extends(f, s, T, g)
    BY <1>1, <1>4, FlattenStep
  <2>7. f[g][Len(f[g - 1]) + 1] = s[g][1] /\ Len(f[g]) = Len(f[g - 1]) + Len(s[g]) /\ f[g - 1] \in Seq(T)
    BY <2>5, <2>6 DEF Extends
  <2>8. BeginsAs(f[n], f[g])
    <3>1. g \in 0..Len(s) /\ n \in g..Len(s)
      BY <1>2, <1>4
    <3>2. QED
      BY <1>1, <3>1, FlattenKeeps
  <2>9. x \in 1..Len(f[g])
    <3>1. Len(f[g - 1]) \in Nat
      BY <2>7
    <3>2. QED
      BY <2>3, <2>5, <2>7, <3>1
  <2>10. f[n][x] = s[g][1]
    <3>1. f[n][x] = f[g][x]
      BY <2>8, <2>9 DEF BeginsAs
    <3>2. QED
      BY <2>3, <2>5, <2>7, <3>1
  <2>11. s[g] = <<f[n][x]>>
    BY <2>4, <2>5, <2>10
  <2>12. QED
    BY <2>3, <2>5, <2>11
<1>6. ASSUME NEW x \in 1..Len(f[n]), NEW y \in 1..Len(f[n]), f[n][x] = f[n][y] PROVE x = y
  <2>1. PICK g \in 1..n : At(x, g)
    BY <1>5
  <2>2. PICK h \in 1..n : At(y, h)
    BY <1>5
  <2>3. s[g] = s[h] /\ s[g] # <<>>
    BY <1>6, <2>1, <2>2
  <2>4. g = h
    BY <1>4, <2>3
  <2>5. QED
    BY <2>1, <2>2, <2>4
<1>7. QED
  BY <1>1, <1>6 DEF Injects

-----------------------------------------------------------------------------
\* The paths that are asked for and queued are a tree: each but the root is below
\* one of the first that were asked for, whose listings have come.

\* Names of directories; whether a path was found in one of the first directories asked
\* for; and the tree all this is: ask and queue together grow from the root.
DirNames == {name \in Slashless : name \notin {<<>>, Dot, DotDot}}
Found(ask, before, path) == \E k \in 1..before : \E name \in DirNames : path = Below(ask[k], name)

Tree(root, ask, queue, before) ==
  /\ root \in PathType /\ ask \in Seq(PathType) /\ queue \in Seq(PathType) /\ before \in 0..Len(ask)
  /\ Injects(ask) /\ Injects(queue)
  /\ \A i \in 1..Len(ask), j \in 1..Len(queue) : ask[i] # queue[j]
  /\ \A i \in 1..Len(ask) : IF i = 1 THEN ask[i] = root ELSE Found(ask, before, ask[i])
  /\ \A j \in 1..Len(queue) : Found(ask, before, queue[j])
  /\ \A i \in 1..Len(ask) : Len(root) <= Len(ask[i])

\* More listings came, or the queue is dropped.
LEMMA TreeKeeps ==
  ASSUME NEW root, NEW ask, NEW queue, NEW before, Tree(root, ask, queue, before),
         NEW rest \in {queue, <<>>}
  PROVE  Tree(root, ask, rest, Len(ask)) /\ Tree(root, ask, rest, before)
<1>1. Len(ask) \in Nat /\ before \in 0..Len(ask)
  BY DEF Tree
<1>2. \A path : Found(ask, before, path) => Found(ask, Len(ask), path)
  <2>1. \A k \in 1..before : k \in 1..Len(ask)
    BY <1>1
  <2>2. QED
    BY <2>1 DEF Found
<1>3. <<>> \in Seq(PathType) /\ Len(<<>>) = 0 /\ Injects(<<>>)
  BY DEF Injects
<1>4. Len(ask) \in 0..Len(ask)
  BY <1>1
<1>5. CASE rest = queue
  BY <1>2, <1>4, <1>5 DEF Tree
<1>6. CASE rest = <<>>
  <2> HIDE DEF Injects
  <2>1. QED
    BY <1>2, <1>3, <1>4, <1>6 DEF Tree
<1>7. QED
  BY <1>5, <1>6

\* The next one is asked for, those in front of it are left out.
LEMMA TreeWalks ==
  ASSUME NEW root, NEW ask, NEW queue, NEW before, Tree(root, ask, queue, before), ask # <<>>,
         NEW k \in 1..Len(queue)
  PROVE  Tree(root, Append(ask, queue[k]), SubSeq(queue, k + 1, Len(queue)), Len(ask))
<1> DEFINE a == Len(ask)
           q == Len(queue)
           new == Append(ask, queue[k])
           rest == SubSeq(queue, k + 1, Len(queue))
           r == q - k
<1>1. /\ root \in PathType /\ ask \in Seq(PathType) /\ queue \in Seq(PathType) /\ before \in 0..a
      /\ Injects(ask) /\ Injects(queue)
      /\ \A i \in 1..a, j \in 1..q : ask[i] # queue[j]
      /\ \A i \in 1..a : IF i = 1 THEN ask[i] = root ELSE Found(ask, before, ask[i])
      /\ \A j \in 1..q : Found(ask, before, queue[j])
      /\ \A i \in 1..a : Len(root) <= Len(ask[i])
  BY DEF Tree
<1>2. a \in Nat \ {0} /\ q \in Nat /\ k \in 1..q /\ queue[k] \in PathType /\ r \in Nat
  BY <1>1
<1>3. /\ new \in Seq(PathType) /\ Len(new) = a + 1 /\ new[a + 1] = queue[k]
      /\ \A i \in 1..a : new[i] = ask[i]
  BY <1>1, <1>2, AppendProperties
<1>4. rest \in Seq(PathType) /\ Len(rest) = r /\ \A i \in 1..r : rest[i] = queue[k + i] /\ k + i \in 1..q
  <2>1. k + 1 \in 1..(Len(queue) + 1) /\ Len(queue) \in 0..Len(queue)
    BY <1>2
  <2>2. /\ rest \in Seq(PathType) /\ Len(rest) = (IF k + 1 <= Len(queue) THEN Len(queue) - (k + 1) + 1 ELSE 0)
        /\ \A i \in 1..(Len(queue) - (k + 1) + 1) : rest[i] = queue[(k + 1) + i - 1]
    BY <1>1, <2>1, Slices
  <2> HIDE DEF rest
  <2>3. Len(rest) = r
    BY <1>2, <2>2
  <2>4. \A i \in 1..r : i \in 1..(Len(queue) - (k + 1) + 1) /\ (k + 1) + i - 1 = k + i /\ k + i \in 1..q
    BY <1>2
  <2>5. QED
    BY <2>2, <2>3, <2>4
<1> HIDE DEF new, rest, a, q, r
<1>5. Injects(ask) /\ \A i, j \in 1..a : ask[i] = ask[j] => i = j
  BY <1>1 DEF Injects, a
<1>6. \A i, j \in 1..q : queue[i] = queue[j] => i = j
  BY <1>1 DEF Injects, q
<1>7. \A i \in 1..(a + 1) : i = a + 1 \/ i \in 1..a
  BY <1>2
<1>8. \A path : Found(ask, before, path) => Found(new, a, path)
  <2>1. \A i \in 1..before : i \in 1..a
    BY <1>1, <1>2
  <2>2. QED
    BY <1>3, <2>1 DEF Found
<1>9. Injects(new)
  <2>1. ASSUME NEW i \in 1..(a + 1), NEW j \in 1..(a + 1), new[i] = new[j] PROVE i = j
    <3>1. CASE i \in 1..a /\ j \in 1..a
      BY <1>3, <1>5, <2>1, <3>1
    <3>2. CASE i = a + 1 /\ j \in 1..a
      BY <1>1, <1>2, <1>3, <2>1, <3>2
    <3>3. CASE j = a + 1 /\ i \in 1..a
      BY <1>1, <1>2, <1>3, <2>1, <3>3
    <3>4. QED
      BY <1>7, <3>1, <3>2, <3>3
  <2>2. QED
    BY <1>3, <2>1 DEF Injects
<1>10. Injects(rest)
  <2>1. ASSUME NEW i \in 1..r, NEW j \in 1..r, rest[i] = rest[j] PROVE i = j
    <3>1. k + i = k + j
      BY <1>4, <1>6, <2>1
    <3>2. QED
      BY <1>2, <3>1
  <2>2. QED
    BY <1>4, <2>1 DEF Injects
<1>11. ASSUME NEW i \in 1..(a + 1), NEW j \in 1..r PROVE new[i] # rest[j]
  <2>1. rest[j] = queue[k + j] /\ k + j \in 1..q /\ k + j # k
    BY <1>2, <1>4
  <2>2. CASE i \in 1..a
    BY <1>1, <1>3, <2>1, <2>2
  <2>3. CASE i = a + 1
    BY <1>2, <1>3, <1>6, <2>1, <2>3
  <2>4. QED
    BY <1>7, <2>2, <2>3
<1>12. ASSUME NEW i \in 1..(a + 1) PROVE IF i = 1 THEN new[i] = root ELSE Found(new, a, new[i])
  <2>1. CASE i \in 1..a
    BY <1>1, <1>3, <1>8, <2>1
  <2>2. CASE i = a + 1
    BY <1>1, <1>2, <1>3, <1>8, <2>2
  <2>3. QED
    BY <1>7, <2>1, <2>2
<1>13. \A j \in 1..r : Found(new, a, rest[j])
  BY <1>1, <1>4, <1>8
<1>14. ASSUME NEW i \in 1..(a + 1) PROVE Len(root) <= Len(new[i])
  <2>1. CASE i \in 1..a
    BY <1>1, <1>3, <2>1
  <2>2. CASE i = a + 1
    <3>1. PICK g \in 1..before : \E name \in DirNames : queue[k] = Below(ask[g], name)
      BY <1>1, <1>2 DEF Found
    <3>2. PICK name \in DirNames : queue[k] = Below(ask[g], name)
      BY <3>1
    <3>3. g \in 1..a
      BY <1>1, <1>2
    <3>4. ask[g] \in PathType /\ name \in Slashless /\ Len(root) <= Len(ask[g])
      BY <1>1, <3>3 DEF DirNames, a
    <3>5. Len(queue[k]) = Len(ask[g]) + Len(name) + 1 /\ Len(ask[g]) \in Nat /\ Len(name) \in Nat
      BY <3>2, <3>4, BelowIs
    <3>6. Len(root) \in Nat
      BY <1>1 DEF PathType
    <3> DEFINE x == Len(root)
               y == Len(ask[g])
               z == Len(name)
    <3>7. x \in Nat /\ y \in Nat /\ z \in Nat /\ x <= y /\ Len(queue[k]) = y + z + 1
      BY <3>4, <3>5, <3>6
    <3> HIDE DEF x, y, z
    <3>8. x <= y + z + 1
      BY <3>7
    <3>9. QED
      BY <1>3, <2>2, <3>7, <3>8 DEF x
  <2>3. QED
    BY <1>7, <2>1, <2>2
<1>15. a \in 0..Len(new)
  BY <1>2, <1>3
<1>16. Tree(root, new, rest, a)
  BY <1>1, <1>3, <1>4, <1>9, <1>10, <1>11, <1>12, <1>13, <1>14, <1>15 DEF Tree
<1>17. QED
  BY <1>16 DEF new, rest, a

\* The listing of the last one comes.
LEMMA TreeGrows ==
  ASSUME NEW root, NEW ask, NEW queue, Tree(root, ask, queue, Len(ask) - 1), ask # <<>>,
         NEW more \in Seq(PathType), Injects(more),
         \A j \in 1..Len(more) : \E name \in DirNames : more[j] = Below(Last(ask), name)
  PROVE  Tree(root, ask, queue \o more, Len(ask))
<1> DEFINE a == Len(ask)
           q == Len(queue)
           m == Len(more)
           all == queue \o more
<1>1. /\ root \in PathType /\ ask \in Seq(PathType) /\ queue \in Seq(PathType)
      /\ Injects(ask) /\ Injects(queue)
      /\ \A i \in 1..a, j \in 1..q : ask[i] # queue[j]
      /\ \A i \in 1..a : IF i = 1 THEN ask[i] = root ELSE Found(ask, a - 1, ask[i])
      /\ \A j \in 1..q : Found(ask, a - 1, queue[j])
      /\ \A i \in 1..a : Len(root) <= Len(ask[i])
  BY DEF Tree
<1>2. a \in Nat \ {0} /\ q \in Nat /\ m \in Nat
  BY <1>1
<1>3. /\ all \in Seq(PathType) /\ Len(all) = q + m
      /\ \A j \in 1..(q + m) : all[j] = IF j <= q THEN queue[j] ELSE more[j - q]
  BY <1>1, ConcatProperties
<1> HIDE DEF all, a, q, m
<1>4. ask[a] \in PathType /\ a \in 1..a /\ Last(ask) = ask[a]
  BY <1>1, <1>2 DEF Last, a
<1>5. \A j \in 1..m : \E name \in DirNames : more[j] = Below(ask[a], name)
  BY <1>4 DEF m
<1>6. \A i, j \in 1..a : ask[i] = ask[j] => i = j
  BY <1>1 DEF Injects, a
<1>7. ASSUME NEW path, Found(ask, a - 1, path), NEW j \in 1..m PROVE path # more[j]
  <2>1. PICK k \in 1..(a - 1) : \E name \in DirNames : path = Below(ask[k], name)
    BY <1>7 DEF Found
  <2>2. PICK name \in DirNames : path = Below(ask[k], name)
    BY <2>1
  <2>3. PICK other \in DirNames : more[j] = Below(ask[a], other)
    BY <1>5
  <2>4. k \in 1..a /\ k # a
    BY <1>2
  <2>5. ask[k] # ask[a]
    BY <1>4, <1>6, <2>4
  <2>6. ask[k] \in PathType /\ name \in Slashless /\ other \in Slashless
    BY <1>1, <2>4 DEF DirNames, a
  <2>7. SUFFICES ASSUME path = more[j] PROVE FALSE
    OBVIOUS
  <2>8. Below(ask[k], name) = Below(ask[a], other)
    BY <2>2, <2>3, <2>7
  <2>9. ask[k] = ask[a]
    BY <1>4, <2>6, <2>8, BelowOnce
  <2>10. QED
    BY <2>5, <2>9
<1>8. ASSUME NEW i \in 1..a, NEW j \in 1..m PROVE ask[i] # more[j]
  <2>1. CASE i # 1
    BY <1>1, <1>7, <2>1
  <2>2. CASE i = 1
    <3>1. PICK name \in DirNames : more[j] = Below(ask[a], name)
      BY <1>5
    <3>2. name \in Slashless
      BY DEF DirNames
    <3>3. Len(more[j]) = Len(ask[a]) + Len(name) + 1 /\ Len(ask[a]) \in Nat /\ Len(name) \in Nat
      <4> DEFINE dir == ask[a]
      <4>1. dir \in PathType
        BY <1>4
      <4> HIDE DEF dir
      <4>2. Len(Below(dir, name)) = Len(dir) + Len(name) + 1 /\ Len(dir) \in Nat /\ Len(name) \in Nat
        BY <3>2, <4>1, BelowIs
      <4>3. QED
        BY <3>1, <4>2 DEF dir
    <3>4. ask[i] = root /\ Len(root) <= Len(ask[a]) /\ Len(root) \in Nat
      BY <1>1, <1>4, <2>2 DEF PathType
    <3> DEFINE x == Len(root)
               y == Len(ask[a])
               z == Len(name)
    <3>5. x \in Nat /\ y \in Nat /\ z \in Nat /\ x <= y /\ Len(more[j]) = y + z + 1 /\ Len(ask[i]) = x
      BY <3>3, <3>4
    <3> HIDE DEF x, y, z
    <3>6. x # y + z + 1
      BY <3>5
    <3>7. QED
      BY <3>5, <3>6
  <2>3. QED
    BY <2>1, <2>2
<1>9. \A path : Found(ask, a - 1, path) => Found(ask, a, path)
  <2>1. \A k \in 1..(a - 1) : k \in 1..a
    BY <1>2
  <2>2. QED
    BY <2>1 DEF Found
<1>10. ASSUME NEW j \in 1..(q + m)
       PROVE  (j \in 1..q /\ all[j] = queue[j]) \/ (~(j <= q) /\ j - q \in 1..m /\ all[j] = more[j - q])
  BY <1>2, <1>3
<1>11. Injects(all)
  <2>1. \A i, j \in 1..q : queue[i] = queue[j] => i = j
    BY <1>1 DEF Injects, q
  <2>2. \A i, j \in 1..m : more[i] = more[j] => i = j
    BY DEF Injects, m
  <2>3. \A i \in 1..q, j \in 1..m : queue[i] # more[j]
    BY <1>1, <1>7
  <2>4. ASSUME NEW i \in 1..(q + m), NEW j \in 1..(q + m), all[i] = all[j] PROVE i = j
    <3>1. CASE i <= q /\ j <= q
      BY <1>10, <2>1, <2>4, <3>1
    <3>2. CASE ~(i <= q) /\ ~(j <= q)
      <4>1. i - q \in 1..m /\ j - q \in 1..m /\ more[i - q] = more[j - q]
        BY <1>2, <1>10, <2>4, <3>2
      <4>2. i - q = j - q
        BY <2>2, <4>1
      <4>3. QED
        BY <1>2, <4>2
    <3>3. CASE i <= q /\ ~(j <= q)
      <4>1. all[i] = queue[i] /\ i \in 1..q
        BY <1>10, <3>3
      <4>2. all[j] = more[j - q] /\ j - q \in 1..m
        BY <1>2, <1>10, <3>3
      <4>3. QED
        BY <2>3, <2>4, <4>1, <4>2
    <3>4. CASE ~(i <= q) /\ j <= q
      <4>1. all[j] = queue[j] /\ j \in 1..q
        BY <1>10, <3>4
      <4>2. all[i] = more[i - q] /\ i - q \in 1..m
        BY <1>2, <1>10, <3>4
      <4>3. QED
        BY <2>3, <2>4, <4>1, <4>2
    <3>5. QED
      BY <3>1, <3>2, <3>3, <3>4
  <2>5. QED
    BY <1>3, <2>4 DEF Injects
<1>12. ASSUME NEW i \in 1..a, NEW j \in 1..(q + m) PROVE ask[i] # all[j]
  BY <1>1, <1>8, <1>10
<1>13. ASSUME NEW j \in 1..(q + m) PROVE Found(ask, a, all[j])
  <2>1. CASE j \in 1..q /\ all[j] = queue[j]
    BY <1>1, <1>9, <2>1
  <2>2. CASE j - q \in 1..m /\ all[j] = more[j - q]
    <3>1. \E name \in DirNames : all[j] = Below(ask[a], name)
      BY <1>5, <2>2
    <3>2. QED
      BY <1>4, <3>1 DEF Found
  <2>3. QED
    BY <1>10, <2>1, <2>2
<1>14. a \in 0..Len(ask) /\ a = Len(ask)
  BY <1>2 DEF a
<1>15. Tree(root, ask, all, a)
  <2>1. \A i \in 1..a : IF i = 1 THEN ask[i] = root ELSE Found(ask, a, ask[i])
    BY <1>1, <1>9
  <2>2. QED
    BY <1>1, <1>3, <1>11, <1>12, <1>13, <1>14, <2>1 DEF Tree
<1>16. QED
  BY <1>15 DEF all, a

\* No path of a tree is met twice, however it is written.
LEMMA TreeOnce ==
  ASSUME NEW root, NEW ask, NEW queue, NEW before, Tree(root, ask, queue, before),
         NEW i \in 1..Len(ask), NEW j \in 1..Len(ask), Canonical(ask[i]) = Canonical(ask[j])
  PROVE  i = j
<1>1. /\ root \in PathType /\ ask \in Seq(PathType) /\ before \in 0..Len(ask) /\ Injects(ask)
      /\ \A k \in 1..Len(ask) : IF k = 1 THEN ask[k] = root ELSE Found(ask, before, ask[k])
      /\ \A k \in 1..Len(ask) : Len(root) <= Len(ask[k])
  BY DEF Tree
<1> DEFINE x == Len(root)
<1>2. x \in Nat /\ root \in Seq(Symbol) /\ Len(ask) \in Nat
  BY <1>1 DEF PathType
<1> HIDE DEF x
<1>3. ASSUME NEW k \in 1..Len(ask), k # 1
      PROVE  Canonical(ask[k]) = ask[k] /\ Len(ask[k]) \in Nat /\ x < Len(ask[k])
  <2>1. PICK g \in 1..before : \E name \in DirNames : ask[k] = Below(ask[g], name)
    BY <1>1, <1>3 DEF Found
  <2>2. PICK name \in DirNames : ask[k] = Below(ask[g], name)
    BY <2>1
  <2>3. g \in 1..Len(ask)
    BY <1>1, <1>2
  <2>4. ask[g] \in PathType /\ name \in Slashless /\ name \notin {<<>>, Dot, DotDot} /\ x <= Len(ask[g])
    BY <1>1, <2>3 DEF DirNames, x
  <2>5. Canonical(ask[k]) = ask[k]
    BY <2>2, <2>4, BelowCanonical
  <2> DEFINE y == Len(ask[g])
             z == Len(name)
  <2>6. Len(ask[k]) = y + z + 1 /\ y \in Nat /\ z \in Nat
    BY <2>2, <2>4, BelowIs
  <2>7. x <= y
    BY <2>4
  <2> HIDE DEF y, z
  <2>8. x < y + z + 1 /\ y + z + 1 \in Nat
    BY <1>2, <2>6, <2>7
  <2>9. QED
    BY <2>5, <2>6, <2>8
<1>4. Len(Canonical(root)) \in Nat /\ Len(Canonical(root)) <= x
  BY <1>2, CanonicalShorter DEF x
<1>5. ASSUME NEW k \in 1..Len(ask), k # 1 PROVE Canonical(ask[k]) # Canonical(root)
  <2> DEFINE c == Len(Canonical(root))
             l == Len(ask[k])
  <2>1. c \in Nat /\ c <= x /\ l \in Nat /\ x < l /\ Len(Canonical(ask[k])) = l
    BY <1>3, <1>4, <1>5
  <2> HIDE DEF c, l
  <2>2. c # l
    BY <1>2, <2>1
  <2>3. QED
    BY <2>1, <2>2 DEF c
<1>6. CASE i = 1 /\ j = 1
  BY <1>6
<1>7. CASE i = 1 /\ j # 1
  BY <1>1, <1>5, <1>7
<1>8. CASE i # 1 /\ j = 1
  BY <1>1, <1>5, <1>8
<1>9. CASE i # 1 /\ j # 1
  <2>1. ask[i] = ask[j]
    BY <1>3, <1>9
  <2>2. QED
    BY <1>1, <2>1 DEF Injects
<1>10. QED
  BY <1>6, <1>7, <1>8, <1>9

-----------------------------------------------------------------------------
\* NotTwice.

\* A listing that is clear adds directories below the one it is of, none twice.
LEMMA HearOnce ==
  ASSUME TypeInv, item \in PathType, NEW listing, IsListing(listing), Hear(listing), ~unclear'
  PROVE  LET more == parse_list_data(item, destType, Tokens(listing))
         IN  Injects(more) /\ \A j \in 1..Len(more) : \E name \in DirNames : more[j] = Below(item, name)
<1> DEFINE more == parse_list_data(item, destType, Tokens(listing))
           clear == IF ClearStyle(listing, destType) THEN ClearLines(listing) ELSE {}
           n == Len(listing.lines)
           Means(i) == listing.lines[i].means
<1>1. clear = Range(listing.lines)
  BY DEF Hear
<1>2. destType \in {"UNK", "UNIX", "WINDOWS", "VXWORKS"}
  BY DEF TypeInv, Scalars
<1>3. listing.lines \in Seq(LineType) /\ listing.lines # <<>>
  BY ListingIs
<1>4. n \in Nat \ {0} /\ Range(listing.lines) = {listing.lines[i] : i \in 1..n} /\ DOMAIN listing.lines = 1..n
  BY <1>3 DEF Range
<1>5. ClearStyle(listing, destType) /\ \A i \in 1..n : ClearLine(listing.style, listing.lines[i])
  <2>1. listing.lines[1] \in Range(listing.lines)
    BY <1>4
  <2>2. ClearStyle(listing, destType)
    BY <1>1, <2>1
  <2>3. \A i \in 1..n : listing.lines[i] \in ClearLines(listing)
    BY <1>1, <1>4, <2>2
  <2>4. QED
    BY <2>2, <2>3 DEF ClearLines
<1>6. PICK parts : Tells(parts, listing, item) /\ more = FlattenSeq(parts)
  BY <1>2, <1>5, ListingTells
<1>7. parts \in Seq(Added) /\ Len(parts) = n /\ \A i \in 1..n : parts[i] = Meant(item, Means(i))
  BY <1>5, <1>6 DEF Tells
<1>8. \A i \in 1..n : Means(i) \in Slashless
  BY LinesAre DEF LineOf
<1>9. \A i, j \in 1..n : Means(i) = Means(j) => i = j \/ Means(i) = <<>>
  <2>1. \A i \in 1..n : Names(listing)[i] = Means(i)
    BY <1>4 DEF Names
  <2>2. \A i, j \in 1..n : Names(listing)[i] = Names(listing)[j] => i = j \/ Names(listing)[i] = <<>>
    BY <1>4 DEF IsListing
  <2> HIDE DEF Means
  <2>3. QED
    BY <2>1, <2>2
<1> HIDE DEF Means, n, more
<1>10. \A i \in 1..n : \/ parts[i] = <<>>
                       \/ Means(i) \in DirNames /\ parts[i] = <<Below(item, Means(i))>>
  BY <1>7, <1>8 DEF Meant, Below, DirNames
<1>11. parts \in Seq(Seq(PathType)) /\ DOMAIN parts = 1..n
  <2>1. \A a \in Added : a \in Seq(PathType)
    <3>1. <<>> \in Seq(PathType) /\ \A path \in PathType : <<path>> \in Seq(PathType)
      OBVIOUS
    <3>2. QED
      BY <3>1 DEF Added
  <2>2. QED
    BY <1>7, <2>1
<1>12. \A i \in 1..n : Len(parts[i]) <= 1
  <2>1. Len(<<>>) <= 1 /\ \A x : Len(<<x>>) <= 1
    OBVIOUS
  <2>2. QED
    BY <1>10, <2>1
<1>13. ASSUME NEW i \in 1..n, NEW j \in 1..n, parts[i] # <<>>, parts[i] = parts[j] PROVE i = j
  <2>1. /\ Means(i) \in DirNames /\ parts[i] = <<Below(item, Means(i))>>
        /\ Means(j) \in DirNames /\ parts[j] = <<Below(item, Means(j))>>
    BY <1>10, <1>13
  <2> DEFINE a == Below(item, Means(i))
             b == Below(item, Means(j))
  <2>2. a = b
    <3>1. <<a>> = <<b>>
      BY <1>13, <2>1
    <3> HIDE DEF a, b
    <3>2. QED
      BY <3>1
  <2>3. Means(i) = Means(j)
    BY <1>8, <2>2, BelowOnce
  <2>4. Means(i) # <<>>
    BY <2>1 DEF DirNames
  <2>5. QED
    BY <1>9, <2>3, <2>4
<1>14. Injects(more)
  BY <1>6, <1>7, <1>11, <1>12, <1>13, FlattenOnce
<1>15. ASSUME NEW j \in 1..Len(more) PROVE \E name \in DirNames : more[j] = Below(item, name)
  <2>1. Range(more) = UNION {Range(parts[i]) : i \in 1..n} /\ more \in Seq(PathType)
    BY <1>6, <1>11, FlattenRange, FlattenType
  <2>2. more[j] \in Range(more)
    BY <2>1 DEF Range
  <2>3. PICK i \in 1..n : more[j] \in Range(parts[i])
    BY <2>1, <2>2
  <2>4. Range(<<>>) = {} /\ \A x : Range(<<x>>) = {x}
    BY DEF Range
  <2>5. QED
    BY <1>10, <2>3, <2>4
<1>16. QED
  BY <1>14, <1>15 DEF more

\* What is listed is the last one asked for; the listings of the others have come.
Listed == IF pc = "data" THEN Len(asked) - 1 ELSE Len(asked)

\* The invariant behind NotTwice.
OneTree ==
  /\ pc \in {"data", "done"} => asked # <<>> /\ item = Last(asked)
  /\ unclear \/ Tree(FirstDir(server.pwd), asked, dirQueue, Listed)

\* walk_dir goes from one directory of the tree to the next.
LEMMA WalkTree ==
  ASSUME TypeInv, OneTree, pc \in {"data", "done"}, walk_dir(dirQueue, lieCount),
         unclear' = unclear, server' = server
  PROVE  OneTree'
<1> DEFINE root == FirstDir(server.pwd)
<1>1. asked \in Seq(PathType) /\ dirQueue \in Seq(PathType) /\ asked # <<>> /\ root' = root
      /\ (unclear \/ Tree(root, asked, dirQueue, Listed))
  BY DEF TypeInv, Placed, OneTree
<1>2. CASE Stops(dirQueue)
  <2>1. pc' \in {"lied", "help"} /\ asked' = asked /\ dirQueue' = <<>>
    BY <1>2 DEF Stops
  <2>2. Listed' = Len(asked)
    BY <2>1 DEF Listed
  <2> HIDE DEF root
  <2>3. unclear \/ Tree(root, asked, <<>>, Len(asked))
    BY <1>1, TreeKeeps
  <2>4. QED
    BY <1>1, <2>1, <2>2, <2>3 DEF OneTree, root
<1>3. ASSUME NEW k \in 1..Len(dirQueue), WalksTo(dirQueue, k) PROVE OneTree'
  <2>1. /\ pc' = "data" /\ item' = dirQueue[k] /\ asked' = Append(asked, dirQueue[k])
        /\ dirQueue' = SubSeq(dirQueue, k + 1, Len(dirQueue))
    BY <1>3 DEF WalksTo
  <2>2. dirQueue[k] \in PathType
    BY <1>1
  <2>3. Len(asked') = Len(asked) + 1 /\ asked'[Len(asked) + 1] = dirQueue[k] /\ asked' # <<>> /\ Len(asked) \in Nat
    BY <1>1, <2>1, <2>2, AppendProperties
  <2>4. Listed' = Len(asked) /\ item' = Last(asked')
    <3>1. Listed' = Len(asked') - 1
      BY <2>1 DEF Listed
    <3>2. QED
      BY <2>1, <2>3, <3>1 DEF Last
  <2> HIDE DEF root
  <2>5. unclear \/ Tree(root, Append(asked, dirQueue[k]), SubSeq(dirQueue, k + 1, Len(dirQueue)), Len(asked))
    BY <1>1, TreeWalks
  <2>6. QED
    BY <1>1, <2>1, <2>3, <2>4, <2>5 DEF OneTree, root
<1>4. QED
  BY <1>1, <1>2, <1>3, WalkIs

\* The first directory alone is a tree.
LEMMA TreeStarts ==
  ASSUME NEW root \in PathType
  PROVE  Tree(root, <<>>, <<>>, 0) /\ Tree(root, <<root>>, <<>>, 0)
<1>1. <<>> \in Seq(PathType) /\ Len(<<>>) = 0 /\ Injects(<<>>)
  BY DEF Injects
<1>2. <<root>> \in Seq(PathType) /\ Len(<<root>>) = 1 /\ <<root>>[1] = root
  OBVIOUS
<1> DEFINE one == <<root>>
           none == <<>>
<1>3. none \in Seq(PathType) /\ Len(none) = 0 /\ Injects(none)
  BY <1>1
<1>4. one \in Seq(PathType) /\ Len(one) = 1 /\ one[1] = root
  BY <1>2
<1> HIDE DEF one, none
<1>5. Len(root) \in Nat
  BY DEF PathType
<1>6. \A i \in 1..Len(one) : i = 1
  BY <1>4
<1>7. Injects(one)
  BY <1>6 DEF Injects
<1>8. \A i \in 1..Len(none) : FALSE
  BY <1>3
<1>9. 0 \in 0..Len(none) /\ 0 \in 0..Len(one) /\ Len(root) <= Len(root)
  BY <1>3, <1>4, <1>5
<1>10. Tree(root, none, none, 0)
  BY <1>3, <1>8, <1>9 DEF Tree
<1>11. Tree(root, one, none, 0)
  BY <1>3, <1>4, <1>6, <1>7, <1>8, <1>9 DEF Tree
<1>12. QED
  BY <1>10, <1>11 DEF one, none

\* Every step keeps the tree.
LEMMA TreeStep == TypeInv /\ OneTree /\ [Next]_vars => OneTree'
<1> SUFFICES ASSUME TypeInv, OneTree, [Next]_vars PROVE OneTree'
  OBVIOUS
<1> DEFINE root == FirstDir(server.pwd)
<1>1. asked \in Seq(PathType) /\ dirQueue \in Seq(PathType) /\ server \in Servers
      /\ (pc \in {"data", "done"} => item \in PathType)
      /\ (pc \in {"retr", "syst", "pwd"} => dirQueue = <<>> /\ asked = <<>> /\ named = {})
  BY DEF TypeInv, Placed
<1>2. root \in PathType
  BY <1>1, FirstDirType
<1>3. /\ pc \in {"data", "done"} => asked # <<>> /\ item = Last(asked)
      /\ unclear \/ Tree(root, asked, dirQueue, Listed)
  BY DEF OneTree
<1>4. CASE RetrDone \/ RetrRefused \/ ReadSyst
  <2>1. /\ asked' = <<>> /\ dirQueue' = <<>> /\ pc' \in {"syst", "pwd"} /\ server' = server
    BY <1>1, <1>4 DEF RetrDone, RetrRefused, ReadSyst, robots
  <2>2. Listed' = 0
    <3>1. Listed' = Len(asked')
      BY <2>1 DEF Listed
    <3>2. QED
      BY <2>1, <3>1
  <2> HIDE DEF root
  <2>3. Tree(root, asked', dirQueue', 0)
    BY <1>2, <2>1, TreeStarts
  <2>4. root' = root
    BY <2>1 DEF root
  <2>5. QED
    BY <2>1, <2>2, <2>3, <2>4 DEF OneTree, root
<1>5. CASE ReadPwd
  <2> DEFINE queue == <<root>>
  <2>1. walk_dir(queue, lieCount) /\ server' = server /\ asked = <<>>
    BY <1>1, <1>5 DEF ReadPwd, robots
  <2>2. queue \in Seq(PathType) /\ Len(queue) = 1 /\ queue[1] = root
    BY <1>2
  <2>3. root' = root
    BY <2>1
  <2> HIDE DEF queue, root
  <2>4. CASE Stops(queue)
    <3>1. pc' \in {"lied", "help"} /\ asked' = <<>> /\ dirQueue' = <<>>
      BY <2>1, <2>4 DEF Stops
    <3>2. Listed' = 0
      <4>1. Listed' = Len(asked')
        BY <3>1 DEF Listed
      <4>2. QED
        BY <3>1, <4>1
    <3>3. Tree(root, asked', dirQueue', 0)
      BY <1>2, <3>1, TreeStarts
    <3>4. QED
      BY <2>3, <3>1, <3>2, <3>3 DEF OneTree, root
  <2>5. ASSUME NEW k \in 1..Len(queue), WalksTo(queue, k) PROVE OneTree'
    <3>1. k = 1
      BY <2>2
    <3>2. pc' = "data" /\ item' = root /\ asked' = Append(<<>>, root) /\ dirQueue' = SubSeq(queue, 2, 1)
      BY <2>1, <2>2, <2>5, <3>1 DEF WalksTo
    <3>3. asked' = <<root>> /\ asked' # <<>>
      BY <3>2
    <3>4. dirQueue' = <<>>
      <4>1. 2 \in 1..(Len(queue) + 1) /\ 1 \in 0..Len(queue)
        BY <2>2
      <4>2. SubSeq(queue, 2, 1) \in Seq(PathType) /\ Len(SubSeq(queue, 2, 1)) = (IF 2 <= 1 THEN 1 - 2 + 1 ELSE 0)
        BY <2>2, <4>1, Slices
      <4>3. QED
        BY <3>2, <4>2
    <3>5. Listed' = 0 /\ item' = Last(asked')
      <4>1. Len(asked') = 1 /\ asked'[1] = root
        BY <3>3
      <4>2. Listed' = Len(asked') - 1
        BY <3>2 DEF Listed
      <4>3. QED
        BY <3>2, <4>1, <4>2 DEF Last
    <3>6. Tree(root, asked', dirQueue', 0)
      BY <1>2, <3>3, <3>4, TreeStarts
    <3>7. QED
      BY <2>3, <3>3, <3>5, <3>6 DEF OneTree, root
  <2>6. QED
    BY <2>1, <2>2, <2>4, <2>5, WalkIs
<1>6. CASE DataClosed
  <2>1. /\ pc = "data" /\ pc' = "done" /\ Len(asked) \in DOMAIN Listings[server.lists]
        /\ server' = server /\ asked' = asked /\ item' = item
    BY <1>6 DEF DataClosed, robots
  <2>2. PICK listing \in Listings[server.lists][Len(asked)] :
          /\ dirQueue' = dirQueue \o parse_list_data(item, destType, Tokens(listing))
          /\ Hear(listing)
    BY <1>6 DEF DataClosed
  <2>3. server.lists \in DOMAIN Listings
    BY <1>1, CrawlAssumption DEF CrawlAssumption
  <2>4. IsListing(listing)
    BY <2>1, <2>3, ListingAssumption DEF ListingAssumption
  <2> DEFINE more == parse_list_data(item, destType, Tokens(listing))
  <2>5. more \in Seq(PathType)
    <3>1. item \in PathType /\ destType \in {"UNK", "UNIX", "WINDOWS", "VXWORKS"}
      BY <1>1, <2>1 DEF TypeInv, Scalars
    <3>2. QED
      BY <2>4, <3>1, ListingIs, ListDataType
  <2>6. ASSUME ~unclear'
        PROVE  ~unclear /\ Injects(more) /\ \A j \in 1..Len(more) : \E name \in DirNames : more[j] = Below(item, name)
    <3>1. item \in PathType
      BY <1>1, <2>1
    <3>2. ~unclear
      BY <2>2, <2>6 DEF Hear
    <3>3. QED
      BY <2>2, <2>4, <2>6, <3>1, <3>2, HearOnce
  <2>7. dirQueue' = dirQueue \o more
    BY <2>2
  <2>8. Listed = Len(asked) - 1 /\ Listed' = Len(asked) /\ asked # <<>> /\ item = Last(asked) /\ root' = root
    BY <1>3, <2>1 DEF Listed
  <2> HIDE DEF more, root
  <2>9. unclear' \/ Tree(root, asked, dirQueue \o more, Len(asked))
    <3>1. SUFFICES ASSUME ~unclear' PROVE Tree(root, asked, dirQueue \o more, Len(asked))
      OBVIOUS
    <3>2. Tree(root, asked, dirQueue, Len(asked) - 1)
      BY <1>3, <2>6, <2>8, <3>1
    <3>3. Injects(more) /\ \A j \in 1..Len(more) : \E name \in DirNames : more[j] = Below(Last(asked), name)
      BY <2>6, <2>8, <3>1
    <3>4. QED
      BY <2>5, <2>8, <3>2, <3>3, TreeGrows
  <2>10. QED
    BY <2>1, <2>7, <2>8, <2>9 DEF OneTree, root
<1>7. CASE DataEmpty
  <2>1. pc = "data" /\ pc' = "done" /\ server' = server /\ asked' = asked /\ item' = item
        /\ dirQueue' = dirQueue /\ unclear' = unclear
    BY <1>7 DEF DataEmpty, robots, history
  <2>2. Listed' = Len(asked) /\ root' = root
    BY <2>1 DEF Listed
  <2> HIDE DEF root
  <2>3. unclear \/ Tree(root, asked, dirQueue, Len(asked))
    BY <1>3, TreeKeeps
  <2>4. QED
    BY <1>3, <2>1, <2>2, <2>3 DEF OneTree, root
<1>8. CASE ReadListDone
  BY <1>8, WalkTree DEF ReadListDone, robots, history
<1>9. CASE ListFailed
  <2>1. pc \in {"data", "done"} /\ unclear' = unclear /\ server' = server
        /\ (walk_dir(dirQueue, lieCount) \/ (pc' = "quit" /\ UNCHANGED <<dirQueue, item, asked>>))
    BY <1>9 DEF ListFailed, robots, history
  <2>2. CASE pc' = "quit" /\ UNCHANGED <<dirQueue, item, asked>>
    <3>1. Listed' = Len(asked) /\ root' = root
      BY <2>1, <2>2 DEF Listed
    <3> HIDE DEF root
    <3>2. unclear \/ Tree(root, asked, dirQueue, Len(asked))
      BY <1>3, TreeKeeps
    <3>3. QED
      BY <2>1, <2>2, <3>1, <3>2 DEF OneTree, root
  <2>3. QED
    BY <2>1, <2>2, WalkTree
<1>10. CASE UNCHANGED vars
  BY <1>10 DEF OneTree, Listed, vars, robots, history
<1>11. QED
  BY <1>4, <1>5, <1>6, <1>7, <1>8, <1>9, <1>10 DEF Next

\* The directories of a tree are all different, under their canonical names too.
LEMMA TreeThen == TypeInv /\ OneTree => NotTwice
<1> SUFFICES ASSUME TypeInv, OneTree, ~unclear, NEW i \in DOMAIN asked, NEW j \in DOMAIN asked,
                    Canonical(asked[i]) = Canonical(asked[j])
             PROVE  i = j
  BY DEF NotTwice
<1>1. DOMAIN asked = 1..Len(asked)
  BY DEF TypeInv, Placed
<1>2. Tree(FirstDir(server.pwd), asked, dirQueue, Listed)
  BY DEF OneTree
<1>3. QED
  BY <1>1, <1>2, TreeOnce

\* Whatever servers answer, as long as all is clear no directory is asked for twice, be it
\* under its own name, as . or as the .. of one below.
THEOREM NoneIsAskedTwice == Spec => []NotTwice
<1>1. Init => OneTree
  <2> SUFFICES ASSUME Init PROVE OneTree
    OBVIOUS
  <2>1. FirstDir(server.pwd) \in PathType
    BY FirstDirType DEF Init
  <2>2. Tree(FirstDir(server.pwd), <<>>, <<>>, 0)
    BY <2>1, TreeStarts
  <2>3. asked = <<>> /\ dirQueue = <<>> /\ pc = "retr"
    BY DEF Init
  <2>4. Listed = 0
    BY <2>3 DEF Listed
  <2>5. QED
    BY <2>2, <2>3, <2>4 DEF OneTree
<1>2. QED
  BY <1>1, AlwaysTyped, TreeStep, TreeThen, PTL DEF Spec

-----------------------------------------------------------------------------
\* Liars.

Counts == lieCount \in Nat /\ lists \in Nat

\* What check_lie knows of the listings.  Before the first there were none; as
\* long as the server is not proved honest they were all the first one, which
\* lieCount did not count; and it is proved honest by a listing that was asked
\* for when the count was still allowed, so that the count stays allowed.
LieKnows ==
  /\ ~lieHashSet => heard = {} /\ lists = 0 /\ lieCount = 0 /\ ~provedHonest
  /\ lieHashSet /\ ~provedHonest => heard = {lieHash} /\ lists = lieCount + 1
  /\ provedHonest => /\ lieHashSet /\ lieCount <= NUMBER_ALLOWED_LIES
                     /\ \E a, b \in heard : a # b

\* walk_dir only goes on, or ends well, when the count is allowed.
WalkTests ==
  /\ pc \in {"data", "help"} => lieCount <= NUMBER_ALLOWED_LIES
  /\ pc = "lied" => lieCount > NUMBER_ALLOWED_LIES

LieInv == Counts /\ LieKnows /\ WalkTests /\ IsFiniteSet(heard)

\* Where walk_dir can lead.
LEMMA WalkLeads ==
  ASSUME NEW queue, NEW lies \in Nat, walk_dir(queue, lies)
  PROVE  /\ pc' \in {"data", "help", "lied"}
         /\ pc' = "lied" <=> lies > NUMBER_ALLOWED_LIES
BY CrawlAssumption DEF walk_dir, CrawlAssumption

\* A step that hears nothing new and goes where walk_dir leads, or nowhere near.
LEMMA LieKept ==
  ASSUME LieInv, UNCHANGED <<lie, heard, lists>>,
         \/ pc' \in {"retr", "syst", "pwd", "done", "quit"}
         \/ /\ pc' \in {"data", "help", "lied"}
            /\ pc' = "lied" <=> lieCount > NUMBER_ALLOWED_LIES
  PROVE  LieInv'
BY CrawlAssumption
   DEF LieInv, Counts, LieKnows, WalkTests, lie, CrawlAssumption

\* The bookkeeping is right at first ...
LEMMA LieInit == Init => LieInv
BY FS_EmptySet DEF Init, LieInv, Counts, LieKnows, WalkTests

\* ... and every step keeps it right.
LEMMA LieStep == LieInv /\ [Next]_vars => LieInv'
<1> SUFFICES ASSUME LieInv, [Next]_vars PROVE LieInv'
  OBVIOUS
<1>1. lieCount \in Nat /\ lists \in Nat
  BY DEF LieInv, Counts
<1>2. CASE RetrDone \/ RetrRefused \/ ReadSyst \/ DataEmpty
  BY <1>2, LieKept DEF RetrDone, RetrRefused, ReadSyst, DataEmpty, history
<1>3. CASE ReadPwd
  <2>1. walk_dir(<<FirstDir(server.pwd)>>, lieCount) /\ UNCHANGED <<lie, heard, lists>>
    BY <1>3 DEF ReadPwd
  <2>2. QED
    BY <1>1, <2>1, WalkLeads, LieKept
<1>4. CASE ReadListDone
  <2>1. walk_dir(dirQueue, lieCount) /\ UNCHANGED <<lie, heard, lists>>
    BY <1>4 DEF ReadListDone, history
  <2>2. QED
    BY <1>1, <2>1, WalkLeads, LieKept
<1>5. CASE ListFailed
  <2>1. /\ UNCHANGED <<lie, heard, lists>>
        /\ walk_dir(dirQueue, lieCount) \/ pc' = "quit"
    BY <1>5 DEF ListFailed, history
  <2>2. QED
    BY <1>1, <2>1, WalkLeads, LieKept
<1>6. CASE DataClosed
  <2>1. PICK listing \in Listings[server.lists][Len(asked)] :
          check_lie(listing) /\ Hear(listing)
    BY <1>6 DEF DataClosed
  <2> DEFINE new == Tokens(listing)
  <2>2. heard' = heard \cup {new} /\ lists' = lists + 1
    BY <2>1 DEF Hear
  <2>3. IsFiniteSet(heard')
    BY <2>2, FS_AddElement DEF LieInv
  <2>4. pc = "data" /\ pc' = "done"
    BY <1>6 DEF DataClosed
  <2>5. lieCount <= NUMBER_ALLOWED_LIES
    BY <2>4 DEF LieInv, WalkTests
  <2> HIDE DEF new
  <2>6. CASE ~provedHonest /\ ~lieHashSet
    <3>1. /\ lieHash' = new /\ lieCount' = 0 /\ lieHashSet' = TRUE
          /\ provedHonest' = provedHonest
      BY <2>1, <2>6 DEF check_lie, new
    <3>2. heard = {} /\ lists = 0
      BY <2>6 DEF LieInv, LieKnows
    <3>3. heard' = {lieHash'} /\ lists' = lieCount' + 1
      BY <2>2, <3>1, <3>2
    <3>4. QED
      BY <2>3, <2>4, <2>6, <3>1, <3>3 DEF LieInv, Counts, LieKnows, WalkTests
  <2>7. CASE ~provedHonest /\ lieHashSet /\ lieHash = new
    <3>1. /\ lieHash' = lieHash /\ lieCount' = lieCount + 1 /\ lieHashSet'
          /\ provedHonest' = provedHonest
      BY <2>1, <2>7 DEF check_lie, new
    <3>2. heard = {lieHash} /\ lists = lieCount + 1
      BY <2>7 DEF LieInv, LieKnows
    <3>3. heard' = {lieHash'} /\ lists' = lieCount' + 1
      BY <2>2, <2>7, <3>1, <3>2
    <3>4. QED
      BY <1>1, <2>3, <2>4, <2>7, <3>1, <3>3 DEF LieInv, Counts, LieKnows, WalkTests
  <2>8. CASE ~provedHonest /\ lieHashSet /\ lieHash # new
    <3>1. /\ lieHashSet' /\ lieCount' = lieCount /\ provedHonest'
      BY <2>1, <2>8 DEF check_lie, new
    <3>2. lieHash \in heard' /\ new \in heard'
      BY <2>2, <2>8 DEF LieInv, LieKnows
    <3>3. QED
      BY <1>1, <2>2, <2>3, <2>4, <2>5, <2>8, <3>1, <3>2
         DEF LieInv, Counts, LieKnows, WalkTests
  <2>9. CASE provedHonest
    <3>1. lieHashSet' = lieHashSet /\ lieCount' = lieCount /\ provedHonest'
      BY <2>1, <2>9 DEF check_lie, lie
    <3>2. lieHashSet /\ \E a, b \in heard' : a # b
      BY <2>2, <2>9 DEF LieInv, LieKnows
    <3>3. QED
      BY <1>1, <2>2, <2>3, <2>4, <2>5, <3>1, <3>2
         DEF LieInv, Counts, LieKnows, WalkTests
  <2>10. QED
    BY <2>6, <2>7, <2>8, <2>9
<1>7. CASE UNCHANGED vars
  BY <1>7 DEF vars, lie, history, LieInv, Counts, LieKnows, WalkTests
<1>8. QED
  BY <1>2, <1>3, <1>4, <1>5, <1>6, <1>7 DEF Next

\* check_lie's bookkeeping is right whatever the server lists.
THEOREM LiesCounted == Spec => []LieInv
<1>1. LieInv /\ [Next]_vars => LieInv'
  BY LieStep
<1>2. QED
  BY <1>1, LieInit, PTL DEF Spec

\* A server is given up as a liar exactly if all its listings were the same
\* and there were more of them than it is allowed.
THEOREM LiarsCaught == Spec => []LiarsAreCaught
<1>1. LieInv => LiarsAreCaught
  <2> SUFFICES ASSUME LieInv, pc \in {"data", "help", "lied"}
               PROVE  pc = "lied" <=> Cardinality(heard) = 1 /\ lists > NUMBER_ALLOWED_LIES + 1
    BY DEF LiarsAreCaught
  <2>1. NUMBER_ALLOWED_LIES \in Nat /\ lieCount \in Nat /\ lists \in Nat
    BY CrawlAssumption DEF CrawlAssumption, LieInv, Counts
  <2>2. pc = "lied" <=> lieCount > NUMBER_ALLOWED_LIES
    BY <2>1 DEF LieInv, WalkTests
  <2>3. CASE ~lieHashSet
    <3>1. lists = 0 /\ lieCount = 0
      BY <2>3 DEF LieInv, LieKnows
    <3>2. QED
      BY <2>1, <2>2, <3>1
  <2>4. CASE lieHashSet /\ ~provedHonest
    <3>1. heard = {lieHash} /\ lists = lieCount + 1
      BY <2>4 DEF LieInv, LieKnows
    <3>2. Cardinality(heard) = 1
      BY <3>1, FS_Singleton
    <3>3. QED
      BY <2>1, <2>2, <3>1, <3>2
  <2>5. CASE provedHonest
    <3>1. lieCount <= NUMBER_ALLOWED_LIES /\ \E a, b \in heard : a # b
      BY <2>5 DEF LieInv, LieKnows
    <3>2. Cardinality(heard) # 1
      <4>1. IsFiniteSet(heard) /\ ~(\E x : heard = {x})
        BY <3>1 DEF LieInv
      <4>2. QED
        BY <4>1, FS_Singleton
    <3>3. QED
      BY <2>1, <2>2, <3>1, <3>2
  <2>6. QED
    BY <2>3, <2>4, <2>5
<1>2. QED
  BY <1>1, LiesCounted, PTL
=============================================================================
