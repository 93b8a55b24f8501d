----------------------------- MODULE ReplyParser -----------------------------
(***************************************************************************)
(* How replies become codes: the bytes of the control connection arrive in *)
(* pieces of any length, ctrl_read_cb calls a handler for what has         *)
(* arrived, and parse_response collects lines in ctrlDBuffer until one     *)
(* begins with three digits and a space (parseResp.c, DBuffer.c).          *)
(*                                                                         *)
(* A handler either wants one reply, or, for LIST and RETR, an announcing  *)
(* reply and a final one, which may arrive together (help_list_xfer).  The *)
(* server answers every request, once or twice, or with too many bytes or  *)
(* a NUL among them.  Only one request at a time is under way.             *)
(***************************************************************************)
EXTENDS Integers, SequencesExt

CONSTANTS
  Finals,                  \* replies that answer a request: [bytes, code]
  Announcements,           \* replies that announce a transfer
  Nonsense,                \* what a broken server may send instead; its code is "none"
  MAX_CTRL_AMT,
  MAX_STATIC_BUFFER_SIZE,
  MaxReplies               \* bound: replies on one connection

CR == "\r"
LF == "\n"
NUL == "NUL"
SP == " "
Digits == {"0", "1", "2", "3", "4", "5", "6", "7", "8", "9"}
Bytes == Digits \cup {CR, LF, NUL, SP, "-", "x"}

VARIABLES
  wire,            \* what the server has written and the network still holds
  input,           \* bufferevent_get_input(bev)
  ctrlDBuffer,
  foundReplyCode,  \* the code's first digit, or "none"
  res,             \* what fill_DBuffer_line returned last
  pc,              \* "wait" for the network, "fill" in parse_response's loop, "verdict"
  state,
  said,            \* history: codes the server sent, each with its last byte's place
  got,             \* history: the codes handlers acted on
  split            \* history: some CR LF was cut in two by a read or by a copy

vars == <<wire, input, ctrlDBuffer, foundReplyCode, res, pc, state, said, got, split>>

-----------------------------------------------------------------------------
\* parseResp.c

EolAt(b, i) == i > 0 /\ i < Len(b) /\ b[i] = CR /\ b[i + 1] = LF

EndsInEol(b) == EolAt(b, Len(b) - 1)

\* The pieces evbuffer_copyout takes: an EOL across two of them is not seen.
Cut(i) == i % MAX_STATIC_BUFFER_SIZE = 0
EolsSeen(b) == {i \in 1..Len(b) : EolAt(b, i) /\ ~Cut(i)}

\* A plausible bug: everything that is there is moved.
Filled_all(b) == Len(b)

\* How many bytes fill_DBuffer_line moves to the buffer.
Filled(b) == IF EolsSeen(b) = {} THEN Len(b) ELSE Min(EolsSeen(b)) + 1

\* A plausible bug: the trailing EOL is taken for the one before the last line.
get_last_line_trailing(b) ==
  LET starts == {i \in 2..Len(b) : EolAt(b, i - 1)}
  IN  SubSeq(b, (IF starts = {} THEN 0 ELSE Max(starts)) + 1, Len(b))

\* What follows the last EOL but the trailing one.
get_last_line(b) ==
  LET end == IF EndsInEol(b) THEN Len(b) - 2 ELSE Len(b)
      starts == {i \in 2..end : EolAt(b, i - 1)}
  IN  SubSeq(b, (IF starts = {} THEN 0 ELSE Max(starts)) + 1, Len(b))

\* A plausible bug: the continuation lines of a long reply count as well.
HasCode_any(line) == Len(line) >= 4 /\ \A i \in 1..3 : line[i] \in Digits

HasCode(line) ==
  Len(line) >= 4 /\ line[4] = SP /\ \A i \in 1..3 : line[i] \in Digits

\* A plausible bug: any line counts as a reply.
CodeOf_unchecked(b) == IF get_last_line(b) = <<>> THEN "none" ELSE get_last_line(b)[1]

CodeOf(b) == IF HasCode(get_last_line(b)) THEN get_last_line(b)[1] ELSE "none"

DBuffer_is_string(b) == \A i \in 1..Len(b) : b[i] # NUL

-----------------------------------------------------------------------------
\* What FTP calls a reply (RFC 959): of its lines only the last begins with a code
\* and a space.

LineStart(b, i) == i = 1 \/ EolAt(b, i - 2)

CodeStart(b, i) ==
  LineStart(b, i) /\ i + 3 <= Len(b) /\ {b[i], b[i + 1], b[i + 2]} \subseteq Digits /\ b[i + 3] = SP

OnlyLastCoded(b) ==
  \A i, q \in 1..Len(b) : CodeStart(b, i) /\ EolAt(b, q) /\ q >= i => q = Len(b) - 1

IsReply(r) ==
  /\ EndsInEol(r.bytes) /\ r.code \in Digits
  /\ \E i \in 1..Len(r.bytes) : CodeStart(r.bytes, i) /\ r.bytes[i] = r.code

\* What a broken server sends is too long, or has a NUL.
IsNonsense(r) ==
  /\ r.code = "none"
  /\ Len(r.bytes) > MAX_CTRL_AMT \/ ~DBuffer_is_string(r.bytes)

ASSUME ReplyParserAssumption ==
  /\ \A r \in Finals \cup Announcements \cup Nonsense :
       r.bytes \in Seq(Bytes) \ {<<>>} /\ r.bytes[1] # LF /\ OnlyLastCoded(r.bytes)
  /\ \A r \in Finals : IsReply(r) /\ r.code # "1"
  /\ \A r \in Announcements : IsReply(r) /\ r.code = "1"
  /\ \A r \in Nonsense : IsNonsense(r)
  /\ {MAX_CTRL_AMT, MaxReplies} \subseteq Nat
  /\ MAX_STATIC_BUFFER_SIZE \in Nat \ {0}

-----------------------------------------------------------------------------
Waiting == {"REPLY_SENT", "LIST_SENT", "LIST_XFER"}

LastByte == IF said = <<>> THEN 0 ELSE said[Len(said)].end
Delivered == LastByte - Len(wire)

\* The server writes a reply, or two, one behind the other.
Says(r) ==
  /\ wire' = wire \o r.bytes
  /\ said' = Append(said, [code |-> r.code, end |-> LastByte + Len(r.bytes)])

SaysBoth(r, next) ==
  LET end == LastByte + Len(r.bytes)
  IN  /\ wire' = wire \o r.bytes \o next.bytes
      /\ said' = said \o <<[code |-> r.code, end |-> end],
                          [code |-> next.code, end |-> end + Len(next.bytes)]>>

\* sendSpigot writes a request; change_state empties ctrlDBuffer.
Ask(next) ==
  /\ state = "READY" /\ pc = "wait" /\ Len(said) < MaxReplies
  /\ state' = next
  /\ ctrlDBuffer' = <<>>
  /\ UNCHANGED <<input, foundReplyCode, res, pc, got, split>>

AskReply ==
  /\ Ask("REPLY_SENT")
  /\ \/ \E r \in Finals \cup Nonsense : Says(r)
     \/ \E r, again \in Finals : SaysBoth(r, again)

AskList ==
  /\ Ask("LIST_SENT")
  /\ \/ \E r \in Finals : Says(r)
     \/ \E a \in Announcements, r \in Finals : SaysBoth(a, r)

\* Any number of bytes arrives, and ctrl_read_cb calls the handler.
Deliver ==
  /\ pc = "wait" /\ state \in Waiting
  /\ \E n \in 1..Len(wire) :
       /\ input' = input \o SubSeq(wire, 1, n)
       /\ wire' = SubSeq(wire, n + 1, Len(wire))
       /\ split' = (split \/ EolAt(wire, n))
  /\ pc' = "fill"
  /\ UNCHANGED <<ctrlDBuffer, foundReplyCode, res, state, said, got>>

\* One turn of the loop in parse_response: fill_DBuffer_line, then the code.
FillLine ==
  /\ pc = "fill"
  /\ LET n == Filled(input)
         b == ctrlDBuffer \o SubSeq(input, 1, n)
         line == EolsSeen(input) # {}
         code == IF line THEN CodeOf(b) ELSE "none"
     IN  /\ ctrlDBuffer' = b
         /\ input' = SubSeq(input, n + 1, Len(input))
         /\ res' = IF line THEN "VALID_LINE" ELSE "VALID_CHUNK"
         /\ foundReplyCode' = code
         /\ pc' = IF code # "none" \/ input' = <<>> THEN "verdict" ELSE "fill"
         /\ split' = (split \/ \E i \in 1..n : EolAt(input, i) /\ Cut(i))
  /\ UNCHANGED <<wire, state, said, got>>

TooLong == Len(ctrlDBuffer) > MAX_CTRL_AMT
RespError == TooLong \/ ~DBuffer_is_string(ctrlDBuffer)

\* RESP_ERROR: the connection is given up.
VerdictError ==
  /\ pc = "verdict" /\ RespError
  /\ pc' = "wait" /\ state' = "OVER"
  /\ ctrlDBuffer' = <<>>
  /\ UNCHANGED <<wire, input, foundReplyCode, res, said, got, split>>

\* RESP_INCOMPLETE: the handler waits for more.
VerdictIncomplete ==
  /\ pc = "verdict" /\ ~RespError /\ foundReplyCode = "none"
  /\ pc' = "wait"
  /\ UNCHANGED <<wire, input, ctrlDBuffer, foundReplyCode, res, state, said, got, split>>

\* A reply is acted on; the code tells an announcement from a refusal.
Taken(next, buffer) ==
  /\ pc = "verdict" /\ ~RespError /\ foundReplyCode # "none"
  /\ got' = Append(got, foundReplyCode)
  /\ state' = next
  /\ ctrlDBuffer' = buffer
  /\ UNCHANGED <<wire, foundReplyCode, res, said, split>>

\* The reply that ends a request must stand alone (RESP_FOUND) ...
VerdictFinal ==
  /\ state \in {"REPLY_SENT", "LIST_XFER"} /\ input = <<>>
  /\ Taken("READY", ctrlDBuffer)
  /\ pc' = "wait"
  /\ UNCHANGED input

\* ... or handle_extra_resp_error ends the session.
VerdictExtra ==
  /\ state \in {"REPLY_SENT", "LIST_XFER"} /\ input # <<>>
  /\ Taken("OVER", <<>>)
  /\ pc' = "wait" /\ input' = <<>>

\* help_list_xfer goes on at once with what is already in the buffer.
VerdictAnnounced ==
  /\ state = "LIST_SENT" /\ foundReplyCode = "1"
  /\ Taken("LIST_XFER", <<>>)
  /\ pc' = IF input = <<>> THEN "wait" ELSE "fill"
  /\ UNCHANGED input

\* The listing is refused, and the next directory is asked for.
VerdictRefused ==
  /\ state = "LIST_SENT" /\ foundReplyCode # "1"
  /\ Taken("READY", ctrlDBuffer)
  /\ pc' = "wait"
  /\ UNCHANGED input

\* READ_TIMEOUT: nothing more comes.
ReadTimeout ==
  /\ pc = "wait" /\ state \in Waiting /\ wire = <<>>
  /\ state' = "OVER"
  /\ UNCHANGED <<wire, input, ctrlDBuffer, foundReplyCode, res, pc, said, got, split>>

Init ==
  /\ wire = <<>> /\ input = <<>> /\ ctrlDBuffer = <<>>
  /\ foundReplyCode = "none" /\ res = "none"
  /\ pc = "wait" /\ state = "READY"
  /\ said = <<>> /\ got = <<>> /\ split = FALSE

Verdict == VerdictError \/ VerdictIncomplete \/ VerdictFinal \/ VerdictExtra
           \/ VerdictAnnounced \/ VerdictRefused

Next == AskReply \/ AskList \/ Deliver \/ FillLine \/ Verdict \/ ReadTimeout

Spec == Init /\ [][Next]_vars

-----------------------------------------------------------------------------
TypeOK ==
  /\ {wire, input, ctrlDBuffer} \subseteq Seq(Bytes)
  /\ foundReplyCode \in Digits \cup {"none"}
  /\ res \in {"none", "VALID_LINE", "VALID_CHUNK"}
  /\ pc \in {"wait", "fill", "verdict"}
  /\ state \in {"READY", "OVER"} \cup Waiting
  /\ said \in Seq([code : Digits \cup {"none"}, end : Nat])
  /\ got \in Seq(Digits)
  /\ split \in BOOLEAN

Codes == [i \in DOMAIN said |-> said[i].code]
Arrived == Cardinality({i \in DOMAIN said : said[i].end <= Delivered})

\* Handlers act on the server's replies one by one, in order, however the bytes
\* were cut into reads: none is skipped, repeated or made up.  Only a CR LF cut
\* in two can break this (parse_response, fill_DBuffer_line).
RepliesInOrder ==
  ~split => /\ Len(got) <= Len(said)
            /\ \A i \in DOMAIN got : got[i] = Codes[i]

\* A reply is never acted on before its last byte is there, even if it has many
\* lines and each of them begins with its code.
NotBeforeItsEnd == Len(got) <= Arrived

\* A host does not wait for what it already has: when everything has arrived, and
\* no CR LF was cut in two, its request is answered or the session is over.
NoNeedlessWait ==
  ~(pc = "wait" /\ state \in Waiting /\ wire = <<>> /\ ~split)

\* "There is no EOL, must be a chunk" (fill_DBuffer_line): a reply is only taken
\* for a partial one while it does not end in an EOL.
ChunkHasNoEol == res = "VALID_CHUNK" => ~EndsInEol(ctrlDBuffer)
=============================================================================
