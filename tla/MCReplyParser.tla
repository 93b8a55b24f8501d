---------------------------- MODULE MCReplyParser ----------------------------
(***************************************************************************)
(* Replies for TLC: one line, several lines, one longer than a copy, an    *)
(* announcement, and what a broken server sends.                           *)
(***************************************************************************)
EXTENDS ReplyParser

Line(code, sep) == <<code, code, code, sep>>
Eol == <<CR, LF>>

Reply(bytes, code) == [bytes |-> bytes, code |-> code]

OneLine == Reply(Line("2", SP) \o Eol, "2")
ManyLines == Reply(Line("5", "-") \o Eol \o <<SP, "x">> \o Eol \o Line("5", SP) \o Eol, "5")
LongLine == Reply(Line("3", SP) \o <<"x", "x">> \o Eol, "3")
TooMuch == Reply([i \in 1..19 |-> CASE i % 6 = 5 -> CR [] i % 6 = 0 -> LF [] OTHER -> "x"], "none")
WithNul == Reply(Line("2", SP) \o <<NUL>> \o Eol, "none")

SomeFinals == {OneLine, ManyLines, LongLine}
SomeAnnouncements == {Reply(Line("1", SP) \o Eol, "1")}
SomeNonsense == {TooMuch, WithNul}
=============================================================================
