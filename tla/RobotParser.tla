----------------------------- MODULE RobotParser -----------------------------
(***************************************************************************)
(* robots.txt: from its lines to the rules of one group, and whether these *)
(* rules allow a path (robotParser.c; the record queue of robotStructs.c   *)
(* is a sequence).                                                         *)
(*                                                                         *)
(* A line, a value and a path are sequences of symbols.  A symbol is a     *)
(* character, or a word that is never looked into: the names of the three  *)
(* fields, and what stands between two slashes or blanks of a path.  Tabs  *)
(* are blanks, letters are small, a line fits its buffer.                  *)
(***************************************************************************)
EXTENDS Integers, SequencesExt

CONSTANTS
  USER_AGENT,
  Alphabet     \* the characters, in the order of their codes

Blank == " "

Has(s, x) == x \in Range(s)

\* What strsep and strchr find in front of the first x.
Before(s, x) == IF Has(s, x) THEN SubSeq(s, 1, SelectInSeq(s, LAMBDA y : y = x) - 1) ELSE s
Behind(s, x) == SubSeq(s, Len(Before(s, x)) + 2, Len(s))

-----------------------------------------------------------------------------
\* Lines to records.

\* Comments are cut off; the lines left empty make no record anyway.
clean_line(line) == Before(line, "#")

TokenOf(line, i) ==
  Cardinality({j \in 1..i : line[j] # Blank /\ (j = 1 \/ line[j - 1] = Blank)})

\* The line's first three tokens, with the blanks between them gone.
strippedLine(line) ==
  FlattenSeq([i \in DOMAIN line |->
    IF line[i] # Blank /\ TokenOf(line, i) <= 3 THEN <<line[i]>> ELSE <<>>])

field_type(field) ==
  CASE Has(field, "disallow") -> "GROUP_MEMBER_DENY"
    [] Has(field, "allow") -> "GROUP_MEMBER_ALLOW"
    [] Has(field, "user-agent") -> "START_OF_GROUP"
    [] OTHER -> "UNK_TYPE"

RecordsOf(s) ==
  LET type == field_type(Before(s, ":"))
  IN  IF ~Has(s, ":") \/ type = "UNK_TYPE" THEN <<>>
      ELSE <<[type |-> type, value |-> Behind(s, ":")]>>

parse_lines(lines) ==
  FlattenSeq([i \in DOMAIN lines |-> RecordsOf(strippedLine(clean_line(lines[i])))])

-----------------------------------------------------------------------------
\* Records to the rules of one group.

\* How many characters of the agent's name a group's name begins with.
user_agent_compare(value) == Len(LongestCommonPrefix({value, USER_AGENT}))

IsStart(r) == r.type = "START_OF_GROUP"

\* The first of the groups whose names agree best; the last "*" if none agrees.
MaxMatch(records) ==
  LET starts == {i \in DOMAIN records : IsStart(records[i])}
      best == Max({user_agent_compare(records[i].value) : i \in starts})
      stars == {i \in starts : records[i].value = <<"*">>}
  IN  IF best = 0 /\ stars # {} THEN Max(stars)
      ELSE Min({i \in starts : user_agent_compare(records[i].value) = best})

\* Further agents may follow before the members, which end at the next group.
Members(records, at) ==
  LET n == Len(records) + 1
      first == Min({i \in (at + 1)..n : i = n \/ ~IsStart(records[i])})
      last == Min({i \in first..n : i = n \/ IsStart(records[i])})
  IN  SubSeq(records, first, last - 1)

extract_applicable_records(records) ==
  IF \E i \in DOMAIN records : IsStart(records[i])
  THEN Members(records, MaxMatch(records)) ELSE <<>>

\* The byte before an empty value is read as its last one; its rule never counts.
patternize(base) ==
  LET temp == IF base = <<>> \/ base[1] # "/" THEN <<"/">> \o base ELSE base
  IN  IF base # <<>> /\ Last(base) = "$" THEN Front(temp) ELSE Append(temp, "*")

Rule(r) ==
  [type |-> r.type, value |-> patternize(r.value),
   len |-> Len(r.value) - (IF Has(r.value, "*") THEN 1 ELSE 0)]

\* The server has no robots.txt, or it is empty.
NoRobots == [noRobotsFound |-> TRUE, compareQueue |-> <<>>]

robot_parser_init(lines) ==
  IF lines = <<>> THEN NoRobots
  ELSE [noRobotsFound |-> FALSE,
        compareQueue |-> LET found == extract_applicable_records(parse_lines(lines))
                         IN  [i \in DOMAIN found |-> Rule(found[i])]]

-----------------------------------------------------------------------------
\* fnmatch without flags: "*" and "?" also match a slash, and a backslash takes the
\* meaning from what follows it.

\* An odd number of backslashes stands in front of j, counted back to i.
Escaped(p, i, j) == (j - Max({i} \cup {m \in (i + 1)..j : p[m - 1] # "\\"})) % 2 = 1

\* What a bracket at i lists begins here, and ends in front of one of these.
FirstListed(p, i) == i + (IF i < Len(p) /\ p[i + 1] \in {"!", "^"} THEN 2 ELSE 1)
Closing(p, i) ==
  {j \in (FirstListed(p, i) + 1)..Len(p) : p[j] = "]" /\ ~Escaped(p, FirstListed(p, i), j)}

\* The last symbol of the unit that begins at i.
UnitEnd(p, i) ==
  CASE p[i] = "\\" /\ i < Len(p) -> i + 1
    [] p[i] = "[" /\ Closing(p, i) # {} -> Min(Closing(p, i))
    [] OTHER -> i

Between(x, y) ==
  {Alphabet[i] : i \in {i \in DOMAIN Alphabet :
     \E m \in 1..i, n \in i..Len(Alphabet) : Alphabet[m] = x /\ Alphabet[n] = y}}

\* c is one of the symbols from m to n, or in one of their ranges, whose ends are
\* neither escaped nor "-".
Lists(p, m, n, c) ==
  \E j \in m..n :
    \/ /\ p[j] = c
       /\ p[j] = "\\" => Escaped(p, m, j)
       /\ p[j] = "-" => j \in {m, n} \/ Escaped(p, m, j)
    \/ j + 2 <= n /\ p[j + 1] = "-" /\ c \in Between(p[j], p[j + 2])

\* The unit from i to n, but "*", matches one symbol.  A last backslash matches nothing.
UnitMatches(p, i, n, c) ==
  CASE p[i] = "\\" -> i < n /\ p[n] = c
    [] p[i] = "[" /\ i < n -> Lists(p, FirstListed(p, i), n - 1, c) <=> FirstListed(p, i) = i + 1
    [] OTHER -> p[i] \in {"?", c}

\* How much of the path is matched behind the unit from i to n, if before it one of
\* these was.
Onward(p, i, n, path, before) ==
  IF p[i] = "*" THEN {k \in 0..Len(path) : \E j \in before : j <= k}
  ELSE {k \in 1..Len(path) : k - 1 \in before /\ UnitMatches(p, i, n, path[k])}

\* ends[i] is how much of the path the first i symbols of the pattern can match, if
\* no unit goes on behind them.
fnmatch(pattern, path) ==
  LET ends[i \in 0..Len(pattern)] ==
        IF i = 0 THEN {0}
        ELSE UNION {Onward(pattern, u, i, path, ends[u - 1]) :
                    u \in {u \in 1..i : UnitEnd(pattern, u) = i}}
  IN  Len(path) \in ends[Len(pattern)]

Deciding(rules, path) ==
  LET matching == {i \in DOMAIN rules : rules[i].len > 0 /\ fnmatch(rules[i].value, path)}
  IN  {i \in matching : \A j \in matching : rules[j].len <= rules[i].len}

\* A plausible bug: of the rules that match the last one decides.
access_is_allowed_last(robotObj, path) ==
  LET rules == robotObj.compareQueue
      match == {i \in DOMAIN rules : rules[i].len > 0 /\ fnmatch(rules[i].value, path)}
  IN  robotObj.noRobotsFound \/ match = {} \/ rules[Max(match)].type = "GROUP_MEMBER_ALLOW"

\* The first of the longest rules that match decides; without one all is allowed.
access_is_allowed(robotObj, path) ==
  LET rules == robotObj.compareQueue
      best == Deciding(rules, path)
  IN  robotObj.noRobotsFound \/ best = {} \/ rules[Min(best)].type = "GROUP_MEMBER_ALLOW"
=============================================================================
