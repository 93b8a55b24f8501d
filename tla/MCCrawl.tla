------------------------------- MODULE MCCrawl -------------------------------
(***************************************************************************)
(* Files and listings for TLC, each written down together with what it     *)
(* means.  The first listing is any of many single lines; the later ones   *)
(* are like those of real servers.                                         *)
(***************************************************************************)
EXTENDS Crawl

Agent == <<"f", "t", "p">>
All == <<"*">>
Letters == <<"/", "[", "\\", "]", "a", "b", "c">>

Allow(path) == [allow |-> TRUE, path |-> path]
Deny(path) == [allow |-> FALSE, path |-> path]
Group(agents, rules) == [agents |-> agents, rules |-> rules]

\* With and without blanks and comments; an unknown field in between.
AgentLine(agent) == <<" ", "user-agent", ":", " ">> \o agent
RuleLine(r) == <<IF r.allow THEN "allow" ELSE "disallow", " ", ":">> \o r.path \o <<" ", "#", "a">>
GroupText(g) ==
  [i \in DOMAIN g.agents |-> AgentLine(g.agents[i])] \o <<<<"a", ":", "b">>, <<"#">>>>
  \o [i \in DOMAIN g.rules |-> RuleLine(g.rules[i])]
File(groups) ==
  [groups |-> groups, text |-> FlattenSeq([i \in DOMAIN groups |-> GroupText(groups[i])])]

A == <<"/", "a", "/">>
RulesSets ==
  {<<Deny(A)>>, <<Deny(<<>>)>>, <<Allow(<<"/">>), Deny(<<"/", "a">>)>>,
   <<Deny(<<"/">>), Allow(A)>>, <<Deny(<<"/", "*", "b", "/", "$">>)>>,
   <<Deny(<<"/", "a", "/", "$">>), Allow(<<"/", "a">>), Deny(<<"/", "b">>)>>,
   <<Deny(<<"/", "a">>), Allow(<<"/", "a", "/", "b">>)>>}

SomeRobotsTxts ==
  {File(<<Group(<<All>>, rules)>>) : rules \in RulesSets} \cup
  {File(gs) : gs \in
     {<<>>,
      <<Group(<<All>>, <<Deny(<<"/">>)>>), Group(<<Agent>>, <<Deny(A)>>)>>,
      <<Group(<<Agent>>, <<Deny(<<"/", "b">>)>>), Group(<<<<"x">>>>, <<Deny(<<"/">>)>>)>>,
      <<Group(<<<<"x">>>>, <<Deny(<<"/">>)>>), Group(<<All, Agent>>, <<Deny(A)>>)>>,
      \* read in a way that is not plain
      <<Group(<<<<"x">>, All>>, <<Deny(A), Allow(<<"/", "a", " ", "b">>)>>)>>,
      <<Group(<<<<"x">>>>, <<Deny(A)>>)>>,
      <<Group(<<<<"f", "x">>>>, <<Deny(<<"/">>)>>), Group(<<All>>, <<Deny(A)>>)>>,
      <<Group(<<All>>, <<Deny(<<"*">>), Deny(<<"/", "?", "/">>), Allow(<<"b">>)>>)>>,
      <<Group(<<All>>, <<Deny(<<"/", "[", "b", "-", "c", "]", "\\", "/">>)>>)>>}}

-----------------------------------------------------------------------------
NoWord == [text |-> <<>>, first |-> "", month |-> FALSE, int |-> -1, digits |-> 0,
           colon |-> FALSE, clock |-> FALSE, vx |-> "", dir |-> FALSE]
Plainly(w) == [NoWord EXCEPT !.text = <<w>>]
Starts(w, c) == [Plainly(w) EXCEPT !.first = c]
Number(w, n, d) == [Plainly(w) EXCEPT !.int = n, !.digits = d]

SomeWord ==
  [w \in {"u", "a", "b", "proc", ".", "..", "->", "VX_WORKS_HEADER_SEP"} |-> Plainly(w)] @@
  "" :> NoWord @@ DIR :> [Plainly(DIR) EXCEPT !.dir = TRUE] @@
  "x<DIR>y" :> [Plainly("x<DIR>y") EXCEPT !.dir = TRUE] @@
  "drwx" :> Starts("drwx", "d") @@ "lrwx" :> Starts("lrwx", "l") @@
  "-rw-" :> Starts("-rw-", "-") @@ "total" :> Starts("total", "t") @@
  "VX_WORKS_HEADER" :> Starts("VX_WORKS_HEADER", " ") @@
  "Mar" :> [Plainly("Mar") EXCEPT !.month = TRUE] @@
  "2" :> Number("2", 2, 1) @@ "12" :> Number("12", 12, 2) @@
  "31" :> Number("31", 31, 2) @@ "512" :> Number("512", 512, 3) @@
  "2014" :> Number("2014", 2014, 4) @@ "31." :> Number("31.", 31, 0) @@
  "10:30" :> [Number("10:30", 10, 0) EXCEPT !.colon = TRUE, !.clock = TRUE] @@
  "24:00" :> [Number("24:00", 24, 0) EXCEPT !.colon = TRUE] @@
  "10:30:00" :> [Number("10:30:00", 10, 0) EXCEPT !.colon = TRUE, !.clock = TRUE, !.vx = "time"] @@
  "JAN-01-1980" :> [Plainly("JAN-01-1980") EXCEPT !.vx = "date"] @@
  "b/" :> [NoWord EXCEPT !.text = <<"b", "/">>] @@ "/a" :> [NoWord EXCEPT !.text = <<"/", "a">>]

Line(tokens, means, format, date, name) ==
  [tokens |-> tokens, means |-> means, format |-> format, date |-> date, name |-> name]
Undated(tokens, means) == Line(tokens, means, 0, 0, 0)

Spaced(words) == FlattenSeq([i \in DOMAIN words |-> <<words[i], SP>>])

\* type, other fields, a date of some format, and the name field
Unix(type, before, date, name, means) ==
  LET fields == Spaced(<<type>> \o before \o date.words)
  IN  Line(fields \o name, means, date.format, 2 * (Len(before) + date.month) + 1, Len(fields) + 1)

DatesOf ==
  {[format |-> 1, words |-> <<"Mar", "12", "10:30">>, month |-> 1],
   [format |-> 1, words |-> <<"Mar", "2", "2014">>, month |-> 1],
   [format |-> 2, words |-> <<"31.", "Mar", "2014">>, month |-> 2],
   [format |-> 3, words |-> <<"12", "31", "10:30">>, month |-> 1],
   [format |-> 4, words |-> <<"31.", "12", "2014">>, month |-> 2]}
Befores ==
  {<<"2", "u", "u", "512">>, <<"u", "12", "2">>, <<"2", "12", "2014">>, <<"Mar", "24:00">>,
   <<"2", "u", "2">>}
NameFields ==
  {<<"a">>, <<"a", SP, "b">>, <<"b", SP, SP, "">>, <<".">>, <<"..">>, <<"/a">>, <<"proc">>,
   <<"Mar">>, <<"12">>, <<"Mar", SP, "2">>, <<"2014">>, <<"">>}

\* An absolute name is taken for none.
Named(name) ==
  LET text == Trimmed(Joined(name)) IN IF text # <<>> /\ Head(text) = "/" THEN <<>> ELSE text

UnixLines ==
  {Unix("drwx", before, date, name, Named(name)) :
     before \in Befores, date \in DatesOf, name \in NameFields}

March == CHOOSE d \in DatesOf : d.words = <<"Mar", "2", "2014">>
Some == <<"2", "u", "u", "512">>
Dir(name) == Unix("drwx", Some, March, <<name>>, Word[name].text)
Link(name, to, means) == Unix("lrwx", Some, March, <<name, SP, "->", SP, to>>, means)
NoDir(type, name) == Unix(type, Some, March, <<name>>, <<>>)
Windows(tail, means) == Undated(<<"10:30", SP, SP, DIR>> \o tail, means)
WindowsFile == Undated(<<"10:30", SP, "512", SP, "a">>, <<>>)
VxWorks(tail, means) == Undated(<<"512", SP, "JAN-01-1980", SP, "10:30:00", SP>> \o tail, means)
Head2 == <<Undated(VxHeader[1], <<>>), Undated(VxHeader[2], <<>>)>>

Listing(style, lines) == [style |-> style, lines |-> lines]

FullListing ==
  Listing("UNIX", <<Undated(<<"total", SP, "2">>, <<>>), Dir("."), Dir(".."), Dir("a"),
                    NoDir("-rw-", "2014"), Link("b", "b/", <<"b">>), Link("2014", "a", <<>>)>>)
SameListing == Listing("UNIX", <<Dir("a"), Dir("b")>>)
DirInUnix == Listing("UNIX", <<Dir("a"), NoDir("-rw-", "x<DIR>y")>>)
DosListing == Listing("WINDOWS", <<Windows(<<SP, SP, "a">>, <<"a">>), WindowsFile,
                                   Windows(<<SP, "b/">>, <<"b">>)>>)
DosDot == Listing("WINDOWS", <<Windows(<<SP, ".">>, Dot), Windows(<<>>, <<>>)>>)
DosBlanks == Listing("WINDOWS", <<Windows([i \in 1..11 |-> SP] \o <<"a">>, <<"a">>)>>)
VxListing == Listing("VXWORKS", Head2 \o <<VxWorks(<<".", SP, SP, DIR>>, Dot),
                                           VxWorks(<<"a", SP, "b", SP, DIR>>, <<"a", SP, "b">>),
                                           VxWorks(<<"2014">>, <<>>)>>)
VxBlank == Listing("VXWORKS", Head2 \o <<VxWorks(<<DIR, SP, "">>, <<>>)>>)
VxPart == Listing("VXWORKS", Head2 \o <<VxWorks(<<"x<DIR>y">>, <<>>)>>)
VxNoHeader == Listing("VXWORKS", <<Head2[1], VxWorks(<<"a", SP, DIR>>, <<>>)>>)

RealListings == {FullListing, SameListing, DirInUnix, DosListing, VxListing}
OddListings == {DosDot, DosBlanks, VxBlank, VxPart, VxNoHeader}

SomeListings ==
  [any |-> << {Listing("UNIX", <<line>>) : line \in UnixLines} \cup RealListings \cup OddListings,
              RealListings \cup OddListings >>,
   real |-> << RealListings, {FullListing, SameListing}, {SameListing}, {SameListing} >>]

Server(file, syst, pwd, kind) ==
  [text |-> file.text, groups |-> file.groups, syst |-> syst, pwd |-> pwd, lists |-> kind]
NoFile == File(<<>>)
SomeServers ==
  {Server(file, "UNIX", <<>>, "real") : file \in SomeRobotsTxts} \cup
  {Server(NoFile, syst, <<"/", "a">>, "any") : syst \in {"UNK", "WINDOWS"}} \cup
  {Server(NoFile, syst, <<"/">>, "any") : syst \in {"UNIX", "VXWORKS"}}
=============================================================================
