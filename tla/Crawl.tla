-------------------------------- MODULE Crawl --------------------------------
(***************************************************************************)
(* A NORMAL crawl with the data CtrlSession leaves out: which rules are    *)
(* taken from robots.txt, which directories a listing adds to dirQueue,    *)
(* which of them are listed next, and when a server is taken for a liar.   *)
(* Handlers are handle_robots_txt, read_syst_resp, read_pwd_resp,          *)
(* parse_list_data and walk_dir; what they are given is right as far as    *)
(* the protocol goes (CtrlSession).                                        *)
(*                                                                         *)
(* Files and listings come with their meaning, from which the properties   *)
(* are told: robots.txt with its groups, each a record of agents and       *)
(* rules, a listing with the system whose style it has, a line with the    *)
(* directory it means (<<>> for none), the date format and where the date  *)
(* stands among the words (0 where there is none).                         *)
(***************************************************************************)
EXTENDS RobotParser, ListParser

CONSTANTS
  Servers,   \* [text, groups: its robots.txt; syst: what SYST makes destType;
             \* pwd: the path PWD quotes, <<>> for none; lists: see Listings]
  Listings,  \* [lists -> what such a server may answer to each LIST]; bounds the walk
  NUMBER_ALLOWED_LIES,
  LIST_ERROR_CUTOFF

ASSUME CrawlAssumption ==
  /\ \A s \in Servers :
       /\ s.syst \in {"UNK", "UNIX", "WINDOWS", "VXWORKS"} /\ s.lists \in DOMAIN Listings
       /\ s.text \in Seq(Seq(STRING))
       /\ s.pwd \in Seq(STRING) /\ (s.pwd # <<>> => Head(s.pwd) = "/")
  /\ NUMBER_ALLOWED_LIES \in Nat /\ LIST_ERROR_CUTOFF \in Nat \ {0}
  /\ USER_AGENT \in Seq(STRING) /\ USER_AGENT # <<>>
  /\ \A w \in DOMAIN Word : Word[w].text \in Seq(STRING)

VARIABLES
  pc,            \* what is waited for: "retr", "syst", "pwd", "data", "done";
                 \* or how the walk ended: "help", "lied", "quit"
  robotObj, destType, dirQueue, item,
  lieHash, lieHashSet, lieCount, provedHonest, listErrCount,
  server,        \* one of Servers
  robotsKnown,   \* history: robots.txt was got
  asked,         \* history: the paths LIST was sent for, in order
  named,         \* history: the directories that were clearly named
  unclear,       \* history: something was named in a way that is misread
  heard,         \* history: the different listings that came ...
  lists          \* history: ... and how many came in all

robots == <<robotObj, robotsKnown, server>>
lie == <<lieHash, lieHashSet, lieCount, provedHonest>>
history == <<named, unclear, heard, lists>>
vars == <<pc, robots, destType, dirQueue, item, lie, listErrCount, asked, history>>

-----------------------------------------------------------------------------
Tokens(listing) == [i \in DOMAIN listing.lines |-> listing.lines[i].tokens]

\* A plausible bug: the path is taken as it is quoted.
FirstDir_asis(path) == IF path = <<>> THEN <<"/">> ELSE path

FirstDir(path) ==
  CASE path = <<>> -> <<"/">>
    [] path # <<>> /\ Last(path) = "/" -> path
    [] OTHER -> Append(path, "/")

\* ctrlChannel.c
walk_dir(queue, lies) ==
  LET allowed == {i \in DOMAIN queue : access_is_allowed(robotObj, queue[i])}
      next == Min(allowed)
  IN  \/ /\ lies > NUMBER_ALLOWED_LIES
         /\ pc' = "lied" /\ dirQueue' = <<>> /\ item' = <<>> /\ UNCHANGED asked
      \/ /\ lies <= NUMBER_ALLOWED_LIES /\ allowed = {}
         /\ pc' = "help" /\ dirQueue' = <<>> /\ item' = <<>> /\ UNCHANGED asked
      \/ /\ lies <= NUMBER_ALLOWED_LIES /\ allowed # {}
         /\ pc' = "data"
         /\ item' = queue[next]
         /\ dirQueue' = SubSeq(queue, next + 1, Len(queue))
         /\ asked' = Append(asked, item')

\* A plausible bug: a server is never proved honest.
check_lie_never(listing) ==
  /\ lieHashSet' = TRUE
  /\ lieHash' = IF lieHashSet THEN lieHash ELSE Tokens(listing)
  /\ lieCount' = IF lieHashSet /\ Tokens(listing) = lieHash THEN lieCount + 1 ELSE lieCount
  /\ UNCHANGED provedHonest

\* The second and later listings are compared with the first one.
check_lie(listing) ==
  \/ /\ ~provedHonest /\ ~lieHashSet
     /\ lieHash' = Tokens(listing) /\ lieCount' = 0 /\ lieHashSet' = TRUE
     /\ UNCHANGED provedHonest
  \/ /\ ~provedHonest /\ lieHashSet /\ lieHash = Tokens(listing)
     /\ lieCount' = lieCount + 1 /\ UNCHANGED <<lieHash, lieHashSet, provedHonest>>
  \/ /\ ~provedHonest /\ lieHashSet /\ lieHash # Tokens(listing)
     /\ provedHonest' = TRUE /\ UNCHANGED <<lieHash, lieHashSet, lieCount>>
  \/ provedHonest /\ UNCHANGED lie

-----------------------------------------------------------------------------
\* What files and listings mean, whatever the program makes of them.

Rules(groups) ==
  LET For(agent) == {i \in DOMAIN groups : agent \in Range(groups[i].agents)}
      ours == IF For(USER_AGENT) # {} THEN For(USER_AGENT) ELSE For(<<"*">>)
  IN  UNION {Range(groups[i].rules) : i \in ours}

Stars(rule) == {i \in DOMAIN rule : rule[i] = "*"}

\* At most one "*" stands for anything, a "$" at the end for the end.
Matches(rule, path) ==
  LET anchored == rule # <<>> /\ Last(rule) = "$"
      body == IF anchored THEN Front(rule) ELSE rule
      fits(s, rest) == IF anchored THEN s = rest ELSE IsPrefix(s, rest)
  IN  IF ~Has(body, "*") THEN fits(body, path)
      ELSE /\ IsPrefix(Before(body, "*"), path)
           /\ \E k \in Len(Before(body, "*"))..Len(path) :
                fits(Behind(body, "*"), SubSeq(path, k + 1, Len(path)))

Weight(rule) == Len(rule) - Cardinality(Stars(rule))

\* The files the program is known to read as they are meant: no agent is named
\* twice, none but ours begins as ours does, one of them is ours or "*" (or else
\* the first group is obeyed, whoever it is for); rules begin with a slash, have
\* no "?", "[" or backslash and at most one "*"; and there are no blanks, which would be dropped.
Plain(groups) ==
  LET agents == UNION {Range(groups[i].agents) : i \in DOMAIN groups}
      rules == UNION {Range(groups[i].rules) : i \in DOMAIN groups}
  IN  /\ \A i, j \in DOMAIN groups :
           \A a \in DOMAIN groups[i].agents, b \in DOMAIN groups[j].agents :
             groups[i].agents[a] = groups[j].agents[b] => i = j /\ a = b
      /\ \A a \in agents : a = USER_AGENT \/ (a # <<>> /\ Head(a) # Head(USER_AGENT))
      /\ \A a \in agents : Blank \notin Range(a)
      /\ agents # {} => agents \cap {USER_AGENT, <<"*">>} # {}
      /\ \A r \in rules :
           \/ r.path = <<>>
           \/ /\ Head(r.path) = "/" /\ {"?", "[", "\\", Blank} \cap Range(r.path) = {}
              /\ Cardinality(Stars(r.path)) <= 1

\* A rule against the path outweighs those for it, or one for it those against.
Outweighs(groups, path, allow) ==
  \E r \in Rules(groups) :
    /\ r.allow = allow /\ r.path # <<>> /\ Matches(r.path, path)
    /\ \A s \in Rules(groups) :
         s.allow = allow \/ Weight(s.path) < Weight(r.path) \/ ~Matches(s.path, path)

Forbids(groups, path) == Plain(groups) /\ Outweighs(groups, path, FALSE)

Permits(groups, path) ==
  Plain(groups) /\ (\/ Outweighs(groups, path, TRUE)
                    \/ \A r \in Rules(groups) : r.allow \/ ~Matches(r.path, path) \/ r.path = <<>>)

\* The records of a group: one for each line that is its agent's or its rule's.
GroupRecords(group) ==
  [i \in DOMAIN group.agents |-> [type |-> "START_OF_GROUP", value |-> group.agents[i]]] \o
  [i \in DOMAIN group.rules |->
     [type |-> IF group.rules[i].allow THEN "GROUP_MEMBER_ALLOW" ELSE "GROUP_MEMBER_DENY",
      value |-> group.rules[i].path]]

FileRecords(groups) == FlattenSeq([i \in DOMAIN groups |-> GroupRecords(groups[i])])

-----------------------------------------------------------------------------
\* Words of a line: j is the first one behind i; w is the last one.
Follows(tokens, i, j) ==
  i < j /\ tokens[j] # SP /\ \A k \in (i + 1)..(j - 1) : tokens[k] = SP
IsLast(tokens, w) == \A k \in (w + 1)..Len(tokens) : tokens[k] = SP

\* If there is a month at i, then a date of the format from there to e.
Dated(tokens, format, i, e) ==
  /\ IF WithDay(format)
     THEN \E d \in DOMAIN tokens : Follows(tokens, i, d) /\ is_day(tokens[d]) /\ Follows(tokens, d, e)
     ELSE Follows(tokens, i, e)
  /\ is_year_time(tokens[e])
\* The line ends within a date; there is a whole one before some word.
EndsInDate(tokens, format) ==
  \E i \in DOMAIN tokens :
    /\ tokens[i] # SP /\ Month(format, tokens[i])
    /\ \/ IsLast(tokens, i)
       \/ /\ WithDay(format)
          /\ \E d \in DOMAIN tokens :
               Follows(tokens, i, d) /\ is_day(tokens[d]) /\ IsLast(tokens, d)
HasDate(tokens, format, before) ==
  \E i \in 1..(before - 1) :
    /\ tokens[i] # SP /\ Month(format, tokens[i])
    /\ \E e \in DOMAIN tokens : Dated(tokens, format, i, e)

\* A date of an earlier format, or an earlier one of the same, takes the place of
\* the true one; and a line that ends within a date is given up.
ClearDate(line) ==
  /\ \A f \in 1..(line.format - 1) :
       ~HasDate(line.tokens, f, Len(line.tokens) + 1) /\ ~EndsInDate(line.tokens, f)
  /\ ~HasDate(line.tokens, line.format, line.date)

\* More blanks in a row than parse_windows_dir_name skips.
ManyBlanks(line) ==
  \E i \in 1..(Len(line.tokens) - 10) : \A j \in i..(i + 10) : line.tokens[j] = SP

ClearLine(style, line) ==
  CASE style = "UNIX" -> line.date # 0 => ClearDate(line)
    [] style = "WINDOWS" ->
         line.means \notin {Dot, DotDot} /\ ~ManyBlanks(line) /\ Last(line.tokens) # ""
    [] style = "VXWORKS" -> line.means = <<>> => ~SaysDIR(line.tokens)

\* Listings of Unix are known by their first line, of Windows by a directory.
ClearStyle(listing, dest) ==
  LET lines == Tokens(listing)
  IN  CASE listing.style = "UNIX" ->
             IF dest \in {"WINDOWS", "VXWORKS"} THEN begins_with_linux_permissions(lines)
             ELSE ~HasDIR(lines)
        [] listing.style = "WINDOWS" -> dest # "VXWORKS" /\ (dest = "WINDOWS" \/ HasDIR(lines))
        [] listing.style = "VXWORKS" -> dest = "VXWORKS"

\* Behind the date stands the name: of a directory, unless it is absolute, or of
\* a link, which names a directory for certain if its target ends in a slash.
UnixMeans(line) ==
  LET text == Joined(SubSeq(line.tokens, line.name, Len(line.tokens)))
      arrows == {i \in DOMAIN text : text[i] = "->"}
  IN  IF line.date = 0 THEN Initial(line.tokens) \notin {"d", "l"} /\ line.means = <<>>
      ELSE /\ line.format \in 1..4 /\ line.date \in DOMAIN line.tokens
           /\ line.tokens[line.date] # SP /\ Month(line.format, line.tokens[line.date])
           /\ line.name \in DOMAIN line.tokens
           /\ \E e \in DOMAIN line.tokens :
                Dated(line.tokens, line.format, line.date, e) /\ Follows(line.tokens, e, line.name)
           /\ CASE Initial(line.tokens) = "d" ->
                     line.means = IF Trimmed(text) # <<>> /\ Head(Trimmed(text)) = "/" THEN <<>>
                                  ELSE Trimmed(text)
                [] Initial(line.tokens) = "l" ->
                     \E k \in arrows :
                       /\ arrows = {k}
                       /\ line.means = IF Last(Trimmed(text)) = "/"
                                       THEN Trimmed(SubSeq(text, 1, k - 1)) ELSE <<>>
                [] OTHER -> line.means = <<>>

\* The name stands behind the first <DIR>, maybe with a slash of its own.
WindowsMeans(line) ==
  LET tokens == line.tokens
      Name(n) == Joined(SubSeq(tokens, n, Len(tokens)))
  IN  \/ DIR \notin Range(tokens) /\ line.means = <<>>
      \/ \E d \in DOMAIN tokens :
           /\ tokens[d] = DIR /\ \A i \in 1..(d - 1) : tokens[i] # DIR
           /\ \/ IsLast(tokens, d) /\ line.means = <<>>
              \/ \E n \in DOMAIN tokens :
                   /\ Follows(tokens, d, n)
                   /\ \/ Name(n) = line.means
                      \/ line.means # <<>> /\ Name(n) = Append(line.means, "/")

\* The name stands between size, date and time and a <DIR>.
VxWorksMeans(line) ==
  LET tokens == line.tokens
  IN  \/ DIR \notin Range(tokens) /\ line.means = <<>>
      \/ /\ line.means # <<>> /\ {i \in DOMAIN tokens : tokens[i] = DIR} = {Len(tokens)}
         /\ \E size, date, time, name \in DOMAIN tokens :
              /\ Follows(tokens, 0, size) /\ Follows(tokens, size, date)
              /\ Follows(tokens, date, time) /\ Follows(tokens, time, name)
              /\ Word[tokens[size]].digits # 0
              /\ Word[tokens[date]].vx = "date" /\ Word[tokens[time]].vx = "time"
              /\ line.means = Trimmed(Joined(SubSeq(tokens, name, Len(tokens) - 1)))

LineMeans(style, line) ==
  CASE style = "UNIX" -> UnixMeans(line)
    [] style = "WINDOWS" -> WindowsMeans(line)
    [] style = "VXWORKS" -> VxWorksMeans(line)

ClearLines(listing) ==
  {line \in Range(listing.lines) : ClearLine(listing.style, line)}

DirOf(line) == Append(item \o line.means, "/")

Hear(listing) ==
  LET clear == IF ClearStyle(listing, destType) THEN ClearLines(listing) ELSE {}
      dirs == {l \in clear : l.means \notin {<<>>, Dot, DotDot}}
  IN  /\ named' = named \cup ({DirOf(l) : l \in dirs} \ Useless)
      /\ unclear' = (unclear \/ clear # Range(listing.lines))
      /\ heard' = heard \cup {Tokens(listing)}
      /\ lists' = lists + 1

-----------------------------------------------------------------------------
\* What files and listings have to be: each with the meaning its lines have.  Lines
\* that the program is known to misread may mean anything.

Names(listing) == [i \in DOMAIN listing.lines |-> listing.lines[i].means]

IsListing(listing) ==
  LET lines == listing.lines
  IN  /\ listing.style \in {"UNIX", "WINDOWS", "VXWORKS"}
      /\ lines \in Seq([tokens : Seq(DOMAIN Word \cup {SP}), means : Seq(STRING),
                        format : Nat, date : Nat, name : Nat]) \ {<<>>}
      /\ \A line \in Range(lines) :
           /\ line.tokens # <<>> /\ Last(line.tokens) # SP /\ "/" \notin Range(line.means)
           /\ ClearLine(listing.style, line) => LineMeans(listing.style, line)
      \* entries of a directory have different names
      /\ \A i, j \in DOMAIN lines :
           Names(listing)[i] = Names(listing)[j] => i = j \/ Names(listing)[i] = <<>>
      \* only in the style of Unix do lines begin with a type or "total"
      /\ listing.style # "UNIX" => ~begins_with_linux_permissions(Tokens(listing))
      /\ \/ listing.style # "VXWORKS" \/ IsPrefix(VxHeader, Tokens(listing))
         \/ Range(Names(listing)) = {<<>>}

ASSUME ListingAssumption ==
  \A kind \in DOMAIN Listings : \A n \in DOMAIN Listings[kind] :
    \A listing \in Listings[kind][n] : IsListing(listing)

\* A line says one record, with blanks around its parts, or it says nothing: it has
\* no field that is known, or no colon.  Behind a "#" there is a comment.
Fields == [START_OF_GROUP |-> "user-agent", GROUP_MEMBER_ALLOW |-> "allow",
           GROUP_MEMBER_DENY |-> "disallow"]

Says(line, record) ==
  LET value == record.value
      end == Len(Before(line, "#"))
  IN  \E field, colon \in 1..end, before \in 0..end :
        /\ field < colon /\ colon <= before /\ before + Len(value) <= end
        /\ line[field] = Fields[record.type] /\ line[colon] = ":"
        /\ \A i \in 1..Len(value) : line[before + i] = value[i] /\ value[i] # Blank
        /\ \A i \in 1..end : line[i] = Blank \/ i \in {field, colon}
                              \/ i \in (before + 1)..(before + Len(value))

Silent(line) ==
  LET words == Range(Before(line, "#"))
  IN  ":" \notin words \/ words \cap Range(Fields) = {}

\* The lines that are not silent say these records, in their order.
IsWritten(text, records) ==
  LET Said(i) == Cardinality({j \in 1..i : ~Silent(text[j])})
  IN  /\ Said(Len(text)) = Len(records)
      /\ \A i \in DOMAIN text : Silent(text[i]) \/ Says(text[i], records[Said(i)])

ASSUME FileAssumption ==
  \A s \in Servers :
    /\ s.groups \in Seq([agents : Seq(Seq(STRING)) \ {<<>>},
                         rules : Seq([allow : BOOLEAN, path : Seq(STRING)]) \ {<<>>}])
    /\ Plain(s.groups) => IsWritten(s.text, FileRecords(s.groups))

-----------------------------------------------------------------------------
\* The file came, or the server has none.
RetrDone ==
  /\ pc = "retr" /\ pc' = "syst"
  /\ robotObj' = robot_parser_init(server.text) /\ robotsKnown' = TRUE
  /\ UNCHANGED <<server, destType, dirQueue, item, lie, listErrCount, asked, history>>

RetrRefused ==
  /\ pc = "retr" /\ pc' = "syst"
  /\ robotObj' = NoRobots
  /\ UNCHANGED <<server, robotsKnown, destType, dirQueue, item, lie, listErrCount, asked, history>>

ReadSyst ==
  /\ pc = "syst" /\ pc' = "pwd"
  /\ destType' = server.syst
  /\ UNCHANGED <<robots, dirQueue, item, lie, listErrCount, asked, history>>

ReadPwd ==
  /\ pc = "pwd"
  /\ walk_dir(<<FirstDir(server.pwd)>>, lieCount)
  /\ named' = {FirstDir(server.pwd)}
  /\ UNCHANGED <<robots, destType, lie, listErrCount, unclear, heard, lists>>

\* data_close_channel: what came through the data channel is parsed.
DataClosed ==
  /\ pc = "data" /\ pc' = "done"
  /\ Len(asked) \in DOMAIN Listings[server.lists]
  /\ \E listing \in Listings[server.lists][Len(asked)] :
       /\ check_lie(listing)
       /\ dirQueue' = dirQueue \o parse_list_data(item, destType, Tokens(listing))
       /\ destType' = NewDestType(destType, Tokens(listing))
       /\ Hear(listing)
  /\ UNCHANGED <<robots, item, listErrCount, asked>>

DataEmpty ==
  /\ pc = "data" /\ pc' = "done"
  /\ UNCHANGED <<robots, destType, dirQueue, item, lie, listErrCount, asked, history>>

ReadListDone ==
  /\ pc = "done"
  /\ walk_dir(dirQueue, lieCount)
  /\ UNCHANGED <<robots, destType, lie, listErrCount, history>>

\* The listing is refused, before or after what came of it.
ListFailed ==
  /\ pc \in {"data", "done"}
  /\ listErrCount' = listErrCount + 1
  /\ \/ listErrCount' # LIST_ERROR_CUTOFF /\ walk_dir(dirQueue, lieCount)
     \/ listErrCount' = LIST_ERROR_CUTOFF /\ pc' = "quit" /\ UNCHANGED <<dirQueue, item, asked>>
  /\ UNCHANGED <<robots, destType, lie, history>>

Init ==
  /\ pc = "retr" /\ server \in Servers
  /\ robotObj = NoRobots /\ robotsKnown = FALSE
  /\ destType = "UNK" /\ dirQueue = <<>> /\ item = <<>>
  /\ lieHash = <<>> /\ lieHashSet = FALSE /\ lieCount = 0 /\ provedHonest = FALSE
  /\ listErrCount = 0
  /\ asked = <<>> /\ named = {} /\ unclear = FALSE /\ heard = {} /\ lists = 0

Next == RetrDone \/ RetrRefused \/ ReadSyst \/ ReadPwd \/ DataClosed \/ DataEmpty
        \/ ReadListDone \/ ListFailed

Spec == Init /\ [][Next]_vars

-----------------------------------------------------------------------------
IsDir(path) == path # <<>> /\ Head(path) = "/" /\ Last(path) = "/"

TypeOK ==
  /\ pc \in {"retr", "syst", "pwd", "data", "done", "help", "lied", "quit"}
  /\ robotObj.noRobotsFound \in BOOLEAN
  /\ \A i \in DOMAIN robotObj.compareQueue :
       Head(robotObj.compareQueue[i].value) = "/"
  /\ destType \in {"UNK", "UNIX", "WINDOWS", "VXWORKS"}
  /\ \A path \in Range(dirQueue) \cup Range(asked) \cup named : IsDir(path)
  /\ item = <<>> \/ IsDir(item)
  /\ {lieCount, listErrCount, lists} \subseteq Nat
  /\ {lieHashSet, provedHonest, unclear, robotsKnown} \subseteq BOOLEAN

\* No directory is listed against robots.txt, as far as it is plain: the group
\* for this program, or else for all, its longest rule that matches
\* (extract_applicable_records, access_is_allowed, walk_dir).
RobotsObeyed ==
  robotsKnown => \A path \in Range(asked) : ~Forbids(server.groups, path)

\* When the enumeration is complete, every directory that some listing named
\* clearly was asked for, unless robots.txt has a say in it.
AllAsked ==
  pc = "help" =>
    \A path \in named \ Range(asked) : robotsKnown /\ ~Permits(server.groups, path)

\* Only what the server named is asked for, as long as it is clear.
NothingMadeUp == unclear \/ Range(asked) \cup Range(dirQueue) \subseteq named

Parent(path) ==
  LET slashes == {i \in DOMAIN path : path[i] = "/" /\ i < Len(path)}
  IN  IF slashes = {} THEN path ELSE SubSeq(path, 1, Max(slashes))
Canonical(path) ==
  CASE IsSuffix(<<"/", ".", "/">>, path) -> Parent(path)
    [] IsSuffix(<<"/", "..", "/">>, path) -> Parent(Parent(path))
    [] OTHER -> path

\* "Is guaranteed to be a directory we've already crawled, ignore"
\* (listParser.c): no directory is asked for twice, under whatever name, though
\* listings name the directory itself and its parent too.
NotTwice ==
  unclear \/ \A i, j \in DOMAIN asked : Canonical(asked[i]) = Canonical(asked[j]) => i = j

\* A server is given up as a liar exactly if all its listings were the same and
\* there were more of them than it is allowed, the first one not counted
\* (check_lie, walk_dir).
LiarsAreCaught ==
  pc \in {"data", "help", "lied"} =>
    (pc = "lied" <=> Cardinality(heard) = 1 /\ lists > NUMBER_ALLOWED_LIES + 1)
=============================================================================
