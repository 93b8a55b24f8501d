------------------------------ MODULE ListParser ------------------------------
(***************************************************************************)
(* Which directories a listing names: listParser.c and the token queue of  *)
(* listParseHelper.c.  A line is a sequence of tokens as                   *)
(* break_tokens_preserve_space leaves them: words and blanks (tabs are     *)
(* blanks), the last of them always a word, the empty one if the line ends *)
(* in a blank.  Word says what the classifiers read in a word.  A path is  *)
(* a sequence of symbols; names and lines fit their buffers.               *)
(***************************************************************************)
EXTENDS Integers, SequencesExt

CONSTANT
  Word  \* [word -> [text, first, month, int, digits, colon, clock, vx, dir]]:
        \* its symbols and first character; is it a month's name; what
        \* sscanf("%d") reads (-1 if nothing); how many digits, if it has
        \* nothing else; has it a colon, and is it a time of day then; a
        \* VxWorks date or time; has it a <DIR> inside, as x<DIR>y has

SP == " "
DIR == "<DIR>"

\* The first character of a line.
Initial(line) == IF line[1] = SP THEN SP ELSE Word[line[1]].first

Text(token) == IF token = SP THEN <<SP>> ELSE Word[token].text

\* build_dbuffer_from_token_iter
Joined(tokens) == FlattenSeq([i \in DOMAIN tokens |-> Text(tokens[i])])

Without(s, x) == FlattenSeq([i \in DOMAIN s |-> IF s[i] = x THEN <<>> ELSE <<s[i]>>])

is_month_str(w) == Word[w].month
is_month_int(w) == Word[w].int \in 1..12
is_day(w) == Word[w].digits \in {1, 2}
is_year_time(w) == IF Word[w].colon THEN Word[w].clock ELSE Word[w].digits = 4

Useless == {<<"/", "proc", "/">>, <<"/", "dev", "/">>}
is_useful_dir(path) == path \notin Useless

\* Removing the trailing blanks.
Trimmed(s) ==
  LET solid == {i \in DOMAIN s : s[i] # SP}
  IN  SubSeq(s, 1, IF solid = {} THEN 0 ELSE Max(solid))

Dot == <<".">>
DotDot == <<"..">>

\* itemDBuffer, the name and a slash, if is_useful_dir.
Enqueued(item, name) ==
  LET path == item \o name
      full == IF Last(path) = "/" THEN path ELSE Append(path, "/")
  IN  IF is_useful_dir(full) THEN <<full>> ELSE <<>>

-----------------------------------------------------------------------------
\* token_queue_iter_next_string: where the next word is; 0 if there is none.
next_string(line, at) ==
  LET words == {i \in at..Len(line) : line[i] # SP}
  IN  IF words = {} THEN 0 ELSE Min(words)

Month(format, w) == IF format \in {1, 2} THEN is_month_str(w) ELSE is_month_int(w)
WithDay(format) == format \in {1, 3}

\* What follows the date, without the blanks in front of it.
NameAt(line, at) ==
  LET name == next_string(line, at)
  IN  IF name = 0 THEN <<>> ELSE Joined(SubSeq(line, name, Len(line)))

\* A plausible bug: one of the two rewinds after Month Day is forgotten.
search_forward(line, format) ==
  LET scan[at \in 1..(Len(line) + 1)] ==
        LET one == next_string(line, at)
            two == next_string(line, one + 1)
            date == IF WithDay(format) THEN next_string(line, two + 1) ELSE two
            month == Month(format, line[one])
            day == WithDay(format) => is_day(line[two])
        IN  CASE at > Len(line) -> <<>>
              [] at <= Len(line) /\ (one = 0 \/ (month /\ (two = 0 \/ (day /\ date = 0)))) ->
                   <<<<>>>>
              [] OTHER -> IF ~month \/ ~day THEN scan[one + 1]
                          ELSE IF is_year_time(line[date]) THEN <<NameAt(line, date + 1)>>
                          ELSE scan[date]
  IN  scan[1]

\* One format: Month Day Year, Month Year, the same with the month as a number.
\* Words are tried from the left, and after one that does not begin a date the
\* next one, to which the iterator is rewound.  The result is <<>> if the line
\* ends so; else it has one element, the name, or <<>> if the line ends in a date.
search(line, format) ==
  LET scan[at \in 1..(Len(line) + 1)] ==
        LET one == next_string(line, at)
            two == next_string(line, one + 1)
            date == IF WithDay(format) THEN next_string(line, two + 1) ELSE two
            month == Month(format, line[one])
            day == WithDay(format) => is_day(line[two])
        IN  CASE at > Len(line) -> <<>>
              [] at <= Len(line) /\ (one = 0 \/ (month /\ (two = 0 \/ (day /\ date = 0)))) ->
                   <<<<>>>>
              [] OTHER -> IF month /\ day /\ is_year_time(line[date])
                          THEN <<NameAt(line, date + 1)>> ELSE scan[one + 1]
  IN  scan[1]

\* The first format that comes to an end decides.
find_linux_name_field2(line) ==
  LET found == [format \in 1..4 |-> search(line, format)]
      ended == {format \in 1..4 : found[format] # <<>>}
  IN  IF ended = {} THEN <<>> ELSE found[Min(ended)][1]

-----------------------------------------------------------------------------
\* A plausible bug: the directory itself and its parent are not left out.
parse_unix_dir_name_dots(item, line) ==
  LET name == Trimmed(find_linux_name_field2(line))
  IN  IF name = <<>> \/ Head(name) = "/" THEN <<>> ELSE Enqueued(item, name)

parse_unix_dir_name(item, line) ==
  LET name == Trimmed(find_linux_name_field2(line))
  IN  IF name \in {<<>>, Dot, DotDot} \/ Head(name) = "/" THEN <<>>
      ELSE Enqueued(item, name)

\* The name field of a link is broken at the word "->", which is dropped.
Arrow(field) == SelectInSeq(field, LAMBDA x : x = "->")
Fake(field) ==
  Trimmed(IF Arrow(field) = 0 THEN field ELSE SubSeq(field, 1, Arrow(field) - 1))
Real(field) ==
  LET behind == IF Arrow(field) = 0 THEN <<>>
                ELSE Without(SubSeq(field, Arrow(field), Len(field)), "->")
      solid == {i \in DOMAIN behind : behind[i] # SP}
  IN  IF solid = {} THEN <<>> ELSE Trimmed(SubSeq(behind, Min(solid), Len(behind)))

\* A plausible bug: links to files are followed as well.
parse_unix_link_name_any(item, line) ==
  LET field == find_linux_name_field2(line)
  IN  IF Fake(field) \in {<<>>, Dot, DotDot} \/ Real(field) \in {<<>>, Dot, DotDot}
      THEN <<>> ELSE Enqueued(item, Fake(field))

\* FOLLOW_LINKS: only a target that ends in a slash is a directory for certain.
parse_unix_link_name(item, line) ==
  LET field == find_linux_name_field2(line)
      fake == Fake(field)
      real == Real(field)
  IN  IF fake \in {<<>>, Dot, DotDot} \/ real \in {<<>>, Dot, DotDot} \/ Last(real) # "/"
      THEN <<>> ELSE Enqueued(item, fake)

parse_unix_line(item, line) ==
  CASE Initial(line) = "d" -> parse_unix_dir_name(item, line)
    [] Initial(line) = "l" -> parse_unix_link_name(item, line)
    [] OTHER -> <<>>

\* Up to ten blanks behind <DIR> are skipped; the rest of the line is the name.
parse_windows_dir_name(item, line) ==
  LET dir == SelectInSeq(line, LAMBDA x : x = DIR)
      word == next_string(line, dir + 1)
      name == Joined(SubSeq(line, Min({word, dir + 11}), Len(line)))
  IN  IF dir = 0 \/ word = 0 \/ name = <<>> THEN <<>> ELSE Enqueued(item, name)

\* Size, date and time, then the name; <DIR> is dropped wherever it stands.
parse_vxworks_dir_name(item, line) ==
  LET size == next_string(line, 1)
      date == next_string(line, size + 1)
      time == next_string(line, date + 1)
      word == next_string(line, time + 1)
      name == Joined(Without(SubSeq(line, word, Len(line)), DIR))
  IN  IF 0 \in {size, date, time, word} \/ name = <<>> THEN <<>>
      ELSE IF \/ Word[line[size]].digits = 0
              \/ Word[line[date]].vx # "date" \/ Word[line[time]].vx # "time"
              \/ Trimmed(name) \in {Dot, DotDot}
      THEN <<>> ELSE Enqueued(item, Trimmed(name))

-----------------------------------------------------------------------------
\* The lines of one listing, and what kind of listing it is.

\* What strstr finds of <DIR>: the word, or a part of one.
SaysDIR(line) == \E w \in Range(line) \ {SP} : w = DIR \/ Word[w].dir
HasDIR(lines) == \E i \in DOMAIN lines : SaysDIR(lines[i])

begins_with_linux_permissions(lines) == Initial(Head(lines)) \in {"t", "-", "l", "d"}

\* What SYST told counts unless the listing looks like another system's; a
\* VxWorks or Windows server whose listing looks like Unix is Unix from then on.
id_list_type(destType, lines) ==
  IF destType \in {"VXWORKS", "WINDOWS"}
  THEN IF begins_with_linux_permissions(lines) THEN "UNIX" ELSE destType
  ELSE IF HasDIR(lines) THEN "WINDOWS" ELSE "UNIX"

NewDestType(destType, lines) ==
  IF destType \in {"VXWORKS", "WINDOWS"} THEN id_list_type(destType, lines) ELSE destType

CollectedFrom(lines, parse(_)) == FlattenSeq([i \in DOMAIN lines |-> parse(lines[i])])

parse_list_data_unix(item, lines) ==
  CollectedFrom(lines, LAMBDA line : parse_unix_line(item, line))

parse_list_data_windows(item, lines) ==
  CollectedFrom(lines, LAMBDA line : parse_windows_dir_name(item, line))

\* The two lines every VxWorks listing begins with, each taken as one word.
VxHeader == <<<<"VX_WORKS_HEADER">>, <<"VX_WORKS_HEADER_SEP">>>>

parse_list_data_vxworks(item, lines) ==
  IF ~IsPrefix(VxHeader, lines) THEN <<>>
  ELSE CollectedFrom(lines, LAMBDA line : IF SaysDIR(line)
                                          THEN parse_vxworks_dir_name(item, line) ELSE <<>>)

parse_list_data(item, destType, lines) ==
  LET type == id_list_type(destType, lines)
  IN  CASE type = "UNIX" -> parse_list_data_unix(item, lines)
        [] type = "WINDOWS" -> parse_list_data_windows(item, lines)
        [] type = "VXWORKS" -> parse_list_data_vxworks(item, lines)
=============================================================================
