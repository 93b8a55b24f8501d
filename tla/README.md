# A verification model of ftp-enumerator

ftp-enumerator reads IP addresses from stdin, opens an FTP control connection
to each, logs in anonymously, reads robots.txt, lists directories, tries TLS,
and writes one JSON record per host. It is a C program of four threads around
a libevent 2.0 loop, with two Python scripts behind it that read the records.
This directory holds TLA+ modules that model its logic, the TLC configurations
that check them on small instances, and proofs for TLAPS.

## 1. Inventory

| Component | Source (under `src/`) | State | Operations |
|---|---|---|---|
| Scheduler | `tools/ftpEnumerator.c`, `dataStructures/ipQueue.c` | `gconfig`: address queue, open connections, counters, `readinFinished`, reload event | `readstdin`, `reload`, `connect_new`, `worker`, `status_updates`, `main` |
| Request throttle | `ctrlChannel/ctrlSend.c` | per host: requests this second and in all, delayed request and its timer | `sendSpigot`, `sendSpigot_cb`, one `send_*` per command |
| Host state and its end | `ctrlChannel/ctrlEnd.c`, `include/ftpEnumerator.h` | `hoststate_t` | `delete_all_timers`, `end_channel_now`, three disconnects |
| Control channel | `ctrlChannel/ctrlChannel.c`, `ctrlRead.c`, `ctrlDeciders.c` | `state`, `multiRespState`, timers, directory queue, error and lie counters | `ctrl_read_cb`, `ctrl_event_cb`, one handler per state, `walk_dir` |
| TLS | `ctrlChannel/ctrlSecurity.c` | `secType`, `ctrlSec`, `secProbe`, what to do after the handshake | AUTH TLS/SSL, handshake, PBSZ, PROT, probe |
| Data channel | `dataChannel/dataChannel.c` | `dataBev`, `dataIsConnected`, `dataUsingSec`, `delayedCtrlCB` | `data_connect`, `data_event_cb`, `data_read_cb`, `data_close_channel`, `data_tls_init` |
| Bounce test | `ctrlChannel/badPort.c`, `tools/portListener.c` | none of its own | PORT and the LIST after it |
| Reply parser | `ctrlChannel/parseResp.c`, `DBuffer.c` | `ctrlDBuffer` | `parse_response`, `fill_DBuffer_line`, `get_last_line` |
| Listing parser | `dataChannel/listParser.c`, `listParseHelper.c` | `destType`, `dirQueue`, lie hash and count | `id_list_type`, three parsers, `find_linux_name_field2`, `check_lie` |
| robots.txt parser | `robotParser/` | `robotObj` | `parse_lines`, `extract_applicable_records`, `access_is_allowed` |
| Queues | `ipQueue.c`, `strQueue.c` | linked lists | enqueue, dequeue, iterate |
| Recorder and readers | `recorder/`, `translateRecords.py`, `onlineProcessing.py` | JSON per host | `record_*`, translation with asserts |
| Tools, logger, configuration | `tools/parseCerts.c`, `listParseDump.c`, `logger/`, `pythonLibs/` | - | - |

How they interact. `readstdin` (a thread) feeds the address queue, whose mutex
is the only lock of the program. The worker thread runs the event loop: once a
second `reload` takes addresses off the queue and calls `connect_new`; every
other callback belongs to one host and runs in the same loop. The throttle's
clock, `gconfig.second`, is counted by a third thread without a lock. `main`
joins worker, reader and status thread in this order, then writes the metadata.

Inside a host, control and data channel meet in two places: a reply that ends
a transfer may come before the data connection closes, and then its handler
waits in `delayedCtrlCB`; and `data_close_channel`, called from handlers, may
end the host under its caller. Four one-second timers are armed on the way
(delayed request, second login reply, wait after a refused password, wait
after a refused RETR).

What is hard: those timers racing replies and reconnects; replies nobody asked
for while a request is delayed, for then `state` is still the old request's;
connections that break during a TLS handshake, where the program connects
anew; the unlocked flags between the threads; replies cut anywhere by the
network; and text formats that are guessed from a few lines. `PROJECT.json`
lists the hazards one by one, with their lines.

What makes each part correct, in a sentence: the scheduler attempts each
address once, in order, within its slots, and ends; the throttle keeps rate and
budget whatever is asked of it; a session never gets out of step with its
server, ends once, with a verdict that is true, and leaves nothing behind; a
reply is acted on once, when it is complete; the directories listed are those
the listings name, each once, and none that robots.txt forbids.

## 2. Modules

| Module | What it models |
|---|---|
| `Scheduler` | the four threads, one action per step that others can observe |
| `MCScheduler` | inputs and failing addresses for TLC |
| `SchedulerProofs` | theorems about `Scheduler` |
| `Spigot` | `sendSpigot` and its timer callback as operators on a host's record |
| `SendSpigot` | a specification of the throttle alone: any request at any time |
| `MCSendSpigot` | the module its configuration runs |
| `SendSpigotProofs` | theorems about `SendSpigot` |
| `HostLife` | what a host promises: connects a few times, spends a budget, ends once |
| `HostState` | `hoststate_t` and the operations every handler ends in |
| `CtrlHandlers` | reply handlers, directory walk, TLS, data channel |
| `CtrlSession` | the callbacks of one host and its server: the specification |
| `HandlerProofs` | what every handler keeps, whatever reply it is given |
| `SessionProofs` | theorems about `CtrlSession`: its types, and its refinement of `HostLife` |
| `TurnProofs` | theorems about `CtrlSession` for servers whose replies answer requests |
| `MCCtrlSession` | the module its configurations run |
| `ReplyParser` | the bytes of the control connection, and when they are a reply |
| `ReplyProofs` | theorems about `ReplyParser` |
| `MCReplyParser` | replies for TLC |
| `RobotParser` | robots.txt: lines, groups, rules, which path is allowed |
| `ListParser` | listings of Unix, Windows and VxWorks: which directories they name |
| `Crawl` | a walk over a server's directories with both parsers |
| `ReadingProofs` | what the parsers make of files and listings, for all of them |
| `CrawlProofs` | theorems about `Crawl` |
| `MCCrawl` | files and listings for TLC, with their meaning |

`Scheduler` is self-contained: a host there is `open` or `ended`.
`HostState` instantiates `Spigot`, so the throttle that is proved about is the
one the handlers call. `CtrlSession` extends `CtrlHandlers`, which extends
`HostState`, and implements `HostLife`. `Crawl` extends `RobotParser` and
`ListParser`. A session is looked at three times, each time with the data the
question needs: `CtrlSession` has all of the control and little data,
`ReplyParser` one request at a time but every byte, `Crawl` one crawl that
goes well but every line and path.

### Scheduler

One action per atomic step: `ip_enqueue`/`ip_dequeue` are atomic (mutex);
`reload` is cut into begin, dequeue, test and connect, because the reader runs
in between and `readinFinished` is read after the dequeue. `wpc` is the place
of the worker; host callbacks are possible only at `"loop"`. A line of input is
an address (a number) or `BadLine`. `0` is the answer of an empty queue and
also the address 0.0.0.0, as in the code. An attempt that fails at once (an
address in `Unconnectable`) takes the worker to `"crashed"`, and with it the
process: libevent 2.0.21 runs `ctrl_event_cb` inside `bufferevent_socket_connect`,
and `end_channel_now` then reads `state->ctrlBev` (`ctrlEnd.c:124`), which
`ctrl_connect` sets only afterwards (`ctrlChannel.c:887`). The branch for `rc < 0`
(`ctrlChannel.c:874`) is not reached.

### Spigot, SendSpigot

The clock is reduced to what the code reads of it: `tick`, whether `second` is
past the host's `thisSecond`. `sent` is what the step put on the wire. A
request is its command; the state that follows it is remembered with it.
`TickFirst` says whether the clock advances between arming a timer and its
firing: the two threads have timers of the same length and nothing
synchronises them. The theorems are for both; the run takes the clock that
keeps up, the only one with which the rate is bounded (`Rate`).

### HostState, CtrlHandlers, CtrlSession

A host is one record `h`, with the fields of `hoststate_t` that steer control
flow. Operators take the record and give the one the C function leaves
behind; an action runs one whole callback, with every handler it calls and the
free at its end. `fault` names the first thing a step did that C does not
define or that aborts (a failed assert, freed or NULL memory, an armed timer
whose only pointer is overwritten); no step follows a fault.

A reply is `[size, kind]`: the verdict of `parse_response` and all that the
handler tells apart. `dirQueue` is a length, the text of a listing is the same
as the first or not, robots.txt forbids some number of the waiting directories.

The server is the environment. With `Surprises = {}` it is polite: it answers
what it owes (`owed`), one reply at a time, and ends data connections after it
announced the transfer. Each member of `SurpriseKinds` lets it do more:
`unsolicited` replies, `overflow` of the size limits, `early_read` before
CONNECTED, `data_first` (the data connection ends before the announcement),
`late_data` (a protected transfer is announced before its data connection stands),
`logged_now` (503 to AUTH TLS), `sec_again` (TLS wanted inside TLS),
`tls_fails`, `drop` (connections break or fall silent).

`late_data` is about `data_tls_init`, which disables the plain bufferevent of the
data channel and overwrites its pointer, but never frees it
(`dataChannel.c:255-256`). One whose connection stood is leaked memory and no more,
which the model does not keep. One that is still connecting keeps its write event,
with the host as argument: `staleData` counts these, and `StaleDataEvent` lets them
fire at any time, once each, with or without a connection, and whether or not the
host is still there. What they run is `data_event` (`data_event_cb`): it may set
`dataIsConnected` for the wrong channel, end the host, end it once more, or use it
after its free.

Left out:

* `bufferevent_socket_connect` failing at once for a data connection or a
  reconnect. libevent 2.0 then runs the event callback synchronously.
  `data_event_cb` frees the host within `data_connect`, which goes on to free
  `state->dataBev` and returns to a handler that uses the host
  (`dataChannel.c:188-201`); `ctrl_event_cb` ends a host whose callback is still
  running. Both misuse freed memory, so the theorems about faults are about
  attempts that do start;
* sockets that are not live when a request is written: in `SendSpigot`, not
  in `CtrlSession`;
* events libevent does not produce here (`FAIL_UNK_EVENT`,
  `FAIL_TIMEOUT_UNK`), failures inside OpenSSL set-up (`FAIL_HARD_INTERNAL`),
  functions nobody calls (`send_type`, `read_type_resp`);
* at most one read callback comes before CONNECTED, and the input buffer is
  empty when `multi_resp_timeout` runs (more bytes cancel that timer);
* record keeping, except how often a directory's LIST reply is recorded.

### HostLife

The promise on which everything outside a session rests. `Scheduler` assumes
that an open host ends (its fairness of host callbacks); the server is owed
that all connections together cost it at most `maxReqPerIp` requests.
`CtrlSession` maps to it with `Phase` (from `fault`, `hostIsFinished` and
`conn`), the connections it counts, requests on the wire plus the one that is
delayed, and `result`. `LivesAsPromised` is the refinement of its `Spec`,
`Ends` that of its `LiveSpec`. The abstract steps tell what may surprise: a
request may go out while a new connection is being made (a QUIT delayed on the
old one, `ctrlChannel.c:484`), and such a host ends rudely, not politely; a new
connection gives back at most the one delayed request; an end is polite only on
an open connection after a request. A failed assert is the phase `crashed`. A host
that has ended can still crash the program (`CrashLate`), but only if `LateCrash`
holds, which for a session is `late_data`.

### ReplyParser

`wire` holds what the server has written, `input` what libevent has read,
`ctrlDBuffer` what `parse_response` has collected. `Deliver` moves any number
of bytes, `FillLine` is one turn of the loop around `fill_DBuffer_line`
(which copies at most `MAX_STATIC_BUFFER_SIZE` bytes at once), and the verdicts
are the four results with what the handlers make of them: a final reply must
stand alone, an announcement may be followed by the final reply in the same
buffer (`help_list_xfer`). `said` and `got` are histories: the replies the
server sent, with the place of their last byte, and the codes acted on. `split`
remembers that a CR LF was cut in two; the properties that fail then are stated
for `~split`, and `reply_split` shows the failure.

What the server sends are constants, and `ReplyParserAssumption` says what it
can be: a reply ends in CR LF and only its last line begins with three digits
and a space (RFC 959 has servers pad other lines that would), or it is nonsense,
longer than `MAX_CTRL_AMT` or with a NUL. A reply that breaks this is taken in
two by the code, and nothing in the program could tell.

### RobotParser, ListParser, Crawl

Lines, names and paths are sequences of symbols: a character where the code
looks at one (`*`, `$`, `/`, blank), a whole word where it does not. What the
word classifiers (`is_month_str`, `is_year_time`, ...) read in a word is given
by the table `Word`, and whether `strstr` finds `<DIR>` in it as well (`SaysDIR`).
`fnmatch` is external: a call with flags 0 (`robotParser.c:387`) interprets `*`,
`?`, backslashes, and brackets with ranges, `!` or `^`, and a leading `]`; an
unclosed `[` is a character. The order of characters in ranges is `Alphabet`.
Classes like `[:alpha:]`, and ranges that end in an escaped character or in `-`, are
not modelled. `patternize`, the comparison of agents by common prefix, the choice of
the group, the weight of rules, the blanks in names, links (with `FOLLOW_LINKS`,
which `magicNumbers.h` defines) and the change of `destType` by a listing are as
in the code. `find_linux_name_field2` has four loops, one for each date format:
`search` is one of them. A loop that rewinds its iterator tries a date at every
word from the left; one that meets the end of the line within a date ends the
search with no name.

`Crawl` has one action per handler that touches this data. Each file and each
listing comes with its meaning: a file with its groups (agents and rules), a
listing with the system whose style it has, a line with the directory it means
and where its date and its name stand. `RobotsObeyed`, `AllAsked`,
`NothingMadeUp` and `NotTwice` compare what the program does with what the
server meant. Two assumptions tie meaning and text, in their own terms and not
in those of the parsers:

* `FileAssumption`: a line `Says` one record, with any blanks between its parts
  and any comment behind it, or is `Silent` (no colon, or no field that is
  known); the lines that are not silent say the agents and rules of the groups,
  in their order (`IsWritten`).
* `ListingAssumption` (`IsListing`): behind the date stands the name, of a
  directory or a link (`UnixMeans`); behind `<DIR>` (`WindowsMeans`); between
  size, date, time and `<DIR>` (`VxWorksMeans`). Names have no slash, and no two
  entries of a listing have the same one.

Where the program is known to read things otherwise, the text may have any
meaning, the properties make an exception, and the exception has a name:

* `Plain` files: no agent twice, no foreign agent that begins as ours does
  (a common prefix beats `*`); if there are agents, ours or `*` is one of them
  (otherwise the code obeys the first group, whoever it is for:
  `robotParser.c:206` takes a match of no characters for better than none);
  no blanks within agents or rules (they are dropped); rules that begin with a
  slash and have no `?`, `[` or backslash, which `fnmatch` reads as patterns
  (`Disallow: /a[1]/` does not forbid `/a[1]/`), and at most one `*`;
* `ClearLine`: no word before the date that reads as a date of an earlier
  format, or an earlier one of the same, and no line that ends within a date (it
  is given up); in Windows listings no `.` or `..` (that parser does not test for
  them), at most ten blanks in a row and none at the end; in VxWorks listings no
  nameless directory, and no file whose name contains `<DIR>`;
* `ClearStyle`: no text that contains `<DIR>`, as a word or within a name, in a
  Unix listing of a server that did not say what it is (`listParser.c:1316`, `1337`);
  VxWorks only where SYST said so.

Buffers that names, lines or tokens do not fit, and bytes read before the
beginning of a buffer (empty names and values), are left out.

## 3. Runs

| Run | Instance | Checks |
|---|---|---|
| `scheduler` | 2 slots, 10 inputs up to 4 lines, one failing address, fair threads | `TypeOK`, `SlotBound`, `Accounting`, `InOrder`, `AttemptedWhenEofSeenFirst`, `MetadataIsFinal`, `Terminates` |
| `scheduler_lost` | 2 addresses | violates `EveryAddressAttempted` |
| `spigot` | 2 per second, 5 in all, 3 commands, the clock keeps up, fair | `TypeOK`, `Budget`, `Rate`, `StateFollowsWire`, `LastAskedGoesOut`, `LimitIsFinal`, `DelayEnds` |
| `session_normal` | NORMAL, polite, 1 per second, 22 in all | `TypeOK`, `NoFault` |
| `session_drop` | NORMAL, `drop`, `overflow`, `early_read`, `data_first`, `late_data`, 1 per second, 14 in all | `InStep`, `ReplyIsWoken`, `EndsClean`, `VerdictKept`, `PrivateListing`, `ErrorsCutOff`, `RobotsFirst`, `RecordedOnce`, `Freed`, `QuitIsLast` |
| `session_rude` | SHORT, `unsolicited`, `logged_now`, `sec_again`, `tls_fails`, `late_data`, `drop`; 2 per second, 6 in all | `NothingForgotten`, `LivesAsPromised` |
| `session_live` | SHORT, polite, fair, 15 in all | `RobotsFirst`, `Ends` |
| `session_stale_timer` | SHORT, `tls_fails` | violates `MultiRespKnown` |
| `session_twice` | NORMAL, `unsolicited` | violates `RecordedOnce` |
| `replies` | up to 4 replies: of one and of three lines, longer than a copy, two to one request, too long, with a NUL; a copy takes 7 bytes | `TypeOK`, `RepliesInOrder`, `NotBeforeItsEnd`, `NoNeedlessWait` |
| `reply_split` | the same | violates `ChunkHasNoEol` |
| `crawl` | 15 files, 325 single lines and 9 whole listings, up to 4 listings: servers with any file and real listings, and four servers without a file and any listing | `TypeOK`, `RobotsObeyed`, `AllAsked`, `NothingMadeUp`, `NotTwice`, `LiarsAreCaught` |

Bounds. The only unbounded counter, requests sent, is bounded by the program's
own `-L`; 22 requests take a NORMAL crawl through login, robots.txt, several
listings up to the lie cutoff, the probe and QUIT, and smaller budgets cut the
crawl at every request. `maxReqPerSec = 1` delays every second request, so that
every handler is met with and without a delay; in `session_rude` it is 2, which
lets a host get as far as the third connection within 6 requests. `MaxDirs = 1`
bounds the waiting directories: the queue is only compared with empty and with
how many robots.txt forbids. `LIST_ERROR_CUTOFF` (6) and
`NUMBER_ALLOWED_LIES` (6) are 2 and 1, in `Crawl` too, whose walks are bounded
by the listings there are for a server: four are one more than a liar gets. Each
of the 325 lines is a first listing, read for each of the four systems SYST may
tell, below `/` or below `/a/`. The
replies of `ReplyParser` are at most 19 bytes and a copy takes 7 of them, so
that lines lie within one copy, end at its edge, and go over it; up to
four of them are enough for what is left over from one request to meet the
next two. A session that is over has no successor, so neither the session runs
nor `replies` and `crawl` check for deadlock; `Ends`, `ReplyIsWoken` and
`NoNeedlessWait` say what a deadlock check would.

Fairness. Scheduler: stdin ends, each thread is scheduled, the reload timer is
persistent, and every host ends (READ_TIMEOUT); host callbacks share the
thread with `reload`, hence strong fairness for them. SendSpigot: the other
thread keeps counting and libevent runs an armed timer. CtrlSession: the loop
runs what is due; the read timeout is due only when the server owes nothing
and no timer is armed (READ_TIMEOUT is 8 s, the timers 1 s); the polite server
answers, accepts and closes. Nothing is assumed about `Tick`.

### What the runs show beyond "no error"

* `scheduler_lost`: `reload` finds the queue empty, the reader queues the
  last addresses and finishes, `reload` then reads `readinFinished` and
  deletes its event. `AttemptedWhenEofSeenFirst` is what remains true.
* `scheduler`: an address whose connection fails at once ends the program, the
  hosts at work and the metadata with it. `Terminates` and `MetadataIsFinal` say
  that nothing else keeps the program from its end, and that metadata, if written,
  are complete.
* `session_stale_timer`: the reconnect after a failed primary handshake keeps
  the old connection's timers, until `read_user_resp` finds `multiRespState` UNK,
  which it asserts it is not (`ctrlRead.c:920`).
* `session_twice`: an assert of the record reader that a server's replies can
  fail.
* `reply_split`: a reply whose CR LF is cut in two waits for the read timeout.
* `InStep`: connections that break, end early or bring too much lead to no
  failed assert and no lost timer, but to memory used after its free in two
  places (`ctrlRead.c:270`, `ctrlChannel.c:225`) and to a null pointer in one
  (`dataChannel.c:277`). A protected transfer that is announced while its data
  connection is pending (`dataChannel.c:255`) leads to memory used after its free
  as well, or to a host that ends twice. `NothingForgotten` says what is left of
  it for a rude server: asserts can fail, but no armed timer is lost, PASV makes
  no second data channel over the first, memory is used after its free only where
  the server oversteps a size limit, speaks early or announces a protected
  transfer too early, a host ends twice only by the last, and an SSL object is
  used after its free only after both methods of TLS were tried and the server
  wanted TLS before the login (a third handshake).
* `VerdictKept` is stated for hosts that never reconnected: a login failure
  kept for the probe becomes SUCCESS_EXIT when the probe needs a new
  connection, which `read_banner` resumes with `disconnect_pleasant`. A refused
  PBSZ in the probe takes its place too.
* `Freed`: hosts that end in a timer's callback, in the end of the data channel
  or in the default branch of `ctrl_read_cb` are never freed, although a comment
  (`ftpEnumerator.c:139`) relies on it; all others are, by the callback that
  ended them.
* `ErrorsCutOff` holds as long as replies answer requests; an unasked reply
  while QUIT is delayed lets the count step over the cutoff.
* With `unsolicited` or `sec_again`, `NoFault` and `InStep` do not hold, nor
  with `logged_now`, which fails an assert (`ctrlSecurity.c:373`). The run with
  these surprises checks what holds all the same.
* `crawl`: the exceptions above are the only ways the program misses, makes up
  or repeats a directory on these files and listings.

## 4. Proofs

The theorems hold for every value of the constants that the named assumptions
allow: `SchedulerAssumption`, `SpigotAssumption`, `NoRequestAssumption`,
`TickAssumption`, `HostStateAssumption`, `CtrlSessionAssumption`,
`ReplyParserAssumption`, `CrawlAssumption`, `FileAssumption` and
`ListingAssumption`, all evaluated by TLC in the runs.

### Scheduler: every safety invariant

* `SchedulerTypes`, `SlotsBounded`, `SlotsAccounted` (`TypeOK`, `SlotBound`,
  `Accounting`). Neither bound is inductive alone: `reload` computes `left` once
  and uses it after other steps, so `IInv` adds that, while reload runs, `left`
  plus the open connections never exceeds the slots. The count of hosts that
  are not ended is kept exact by cardinality lemmas for one appended and one
  ended host.
* `AddressesInOrder`, `NothingMissed`, `MetadataFinal` (`InOrder`,
  `AttemptedWhenEofSeenFirst`, `MetadataIsFinal`), from a second invariant,
  `FateInv`. Its first part says where the addresses are: those of the hosts,
  the one in the worker's hand and those in the queue are, in this order, the
  addresses among the lines read so far (`KeptOf`; lemmas say what an appended
  address, a skipped line and a dropped head do to it). Its second part is how
  the threads wind down: the worker returns only when no host is open, `main`
  goes on only then, an address whose connection fails at once has crashed the
  worker, and the metadata are the counters at that time. Its third is
  what the last look at the queue settles: found empty after the end of the
  input, it stays empty.

### The throttle: every safety property

* `SpigotTypes`, `BudgetKept`, `RateBounded`, `LastAskedDelayed`. The budget is
  tested only when a request is asked for, so the invariant says that a timer
  in flight still has a place left; the rate needs that `inSecond` is covered
  by `reqThisSecond` as long as no tick is pending.
* `StateFollows` and `LimitFinal`: whatever is asked, delayed and overwritten,
  `state` is the state of the last request on the wire; the limit is reported only
  when the whole budget is spent and nothing is delayed, and after the report
  nothing is written or counted. The lemma `SpigotWrites` says that a
  call either writes one request and takes its state, or neither.

### Crawl: every property

`CrawlProofs` holds for all servers: for every robots.txt and every listing that
the assumptions allow, of any length and number, for every table of words, agent
and number of lies allowed.

| Theorem | Property | In words |
|---|---|---|
| `CrawlTypes` | `TypeOK` | patterns begin with a slash; paths are absolute and end in one |
| `RobotsAreObeyed` | `RobotsObeyed` | nothing is listed that robots.txt forbids |
| `AllAreAsked` | `AllAsked` | a complete walk asked for all that was named and permitted |
| `NothingIsMadeUp` | `NothingMadeUp` | only what was named is asked for |
| `NoneIsAskedTwice` | `NotTwice` | no directory twice, under whatever name |
| `LiarsCaught` | `LiarsAreCaught` | a liar is who sends the same listing too often |

Each has an invariant beside the types (`TypeInv`, which knows that the rules are
those of the server's own file):

* `AskedAllowed`: what was asked for, the rules that are known allow. When it was
  asked for they were known already, as no LIST comes before robots.txt.
* `AsNamed`: what was named was asked for, is queued, or is not allowed;
  `walk_dir` drops only what is not allowed.
* `OneTree`: what was asked for and what is queued are the nodes of a tree, each
  the child of one whose listing has come (`Tree`). A listing adds children of
  the directory just listed, which has none yet and whose names differ
  (`TreeGrows`); so paths, which determine their parents, never meet. `.` and
  `..` are not in the tree, but the path PWD quotes may end in them: what it then
  stands for is no longer than the root, and all below the root is longer, which
  is why `Tree` bounds lengths as well.
* `LieInv`: what `check_lie` keeps (a hash, a count, a verdict) agrees with the set
  of listings heard, through all the steps between two listings; `walk_dir` is
  reached with that relation intact.

What is left is a matter of the parsers alone, and `ReadingProofs` settles it:

* `RobotsDecide`: what a plain file's groups forbid is denied, what they permit is
  allowed, for every path. `FileIs`: whatever blanks and comments it has, the file
  is read as the records of its groups (`StrippedSays`, `LineSilent`). `MatchIsOurs`,
  `MembersOfGroup`: the group that is ours, or that of `*`, is found, and all its
  rules and no others are members. `PatternMatches`: `fnmatch` of the pattern that
  `patternize` makes is the meaning of a rule. `RuleJudges`, `VerdictIs`: the first
  of the longest rules that match says what the heaviest rule means.
* `ListingTells`: a listing of clear style is parsed line by line, and each clear
  line adds the directory it means, if it means one, and nothing else.
  `SearchFinds`: in a line with a clear date the four formats find this date and no
  other, so the name is what stands behind it; `UnixAdds`, `WindowsAdds`,
  `VxWorksAdds`: what blanks, links and `<DIR>` are dropped, the name keeps.

The definitions these lemmas are about fold over data or recur, and the library's
induction theorems cannot be used, for they take an operator. `SetInduction` and
`Recursion` do without: the first is induction over a *set* of numbers, from the
least element that is missing; the second says that an equation in which values
depend on values of lower rank has a solution, the body being a set of pairs
like any function. With them each recursive function is told by its equation
(`Flattened`, `SearchScans`, `FnmatchEnds`), and what follows is by `SetInduction`
on the set of indices for which the claim holds.

### A session, for every set of surprises

`SessionProofs` proves for every `Surprises` (TLC runs two sets of them), every
kind of crawl, every limit and every `MaxDirs`:

| Theorem | Property | In words |
|---|---|---|
| `LeavesClean` | `EndsClean` | an ended host leaves no timer and no channel that it knows of, and has a verdict |
| `WaitsForChannel` | `ReplyIsWoken` | a reply that waits has a channel whose end wakes it |
| `ProtectedData` | `PrivateListing` | a transfer in a protected session is protected |
| `AsksRobotsFirst` | `RobotsFirst` | no LIST before robots.txt allowed it |
| `FreedAtOnce` | `Freed` | who ends a host frees it, but in three places |
| `KeepsPromises` | `LivesAsPromised` | the refinement of `HostLife` |
| `ForgetsNothing` | `NothingForgotten` | no armed timer is overwritten; the only ways to use freed memory or end a host twice |
| `SessionTypes` | `TypeOK` | the types, after an end and after a fault as well |

None of these is inductive: a LIST is innocent only because of the PASV before
it, a timer is not overwritten only because the state in which it was armed
has been left. The argument has two layers.

`HandlerProofs` is about operators alone. `Start(g)` is a record at the
beginning of a callback; `Sound` says what each state, and each state to which
a delayed request leads (`Heading`), may find armed, open or known, in six
parts: `Throttled` (the budget), `Parting` (what an end needs to have noted),
`Channelled` (control channel, TLS, and how many connections there can have
been), `LoggingIn` and `Transferring` (which timers and channels belong to which
states), `Walking` (what was asked for, and what is known of robots.txt). `May`
says where a request may be asked for, and the lemma `Ask` that asking there
keeps a record sound, be the request sent, delayed or refused. Then there is a
lemma per handler, in the order of the code, that a sound record becomes one of
four: `Good` (the host goes on, sound), `Gone` (it ended in order), `Anew` (a
new connection) or `Crashed` (a fault of a known kind, with its explanation).
The reply is arbitrary in them: nothing is assumed of the server.

`SessionProofs` puts the callbacks together (`then_on`, `handled`,
`free_if_finished`), shows that every action of `Next` takes a sound record to
one of the four outcomes (`Stepped`), and that the outcomes keep `IInv`. One step
is not of that kind: the event of an overwritten data bufferevent, fired for a host
that has ended (`Haunted`). It leaves the host as it is, or ends it or uses it once
more; so `IInv` says that a host ends twice, and that freed memory is used without
`overflow` or `early_read`, only where `staleData` is not zero. The properties, and
each step of `HostLife` (`StepLives`, `HauntedLives`), are read off `IInv`,
`Stepped` and `Haunted`; `KeepsPromises` needs `AllTyped` (below) as well, which
knows that `staleData` only counts where `late_data` is among the `Surprises`.

The last part of `SessionProofs` has a lemma per handler once more, but needs no sound record for
most: what is typed stays typed through a crash, an end or a free. Where a
handler branches on what was set before, its types do rest on `IInv`: what
follows a transfer (`pasvPost`) is known in every state that runs it (`Walks`),
what to do after PROT is known when PROT is answered, and no banner waits while
a data channel is open (`Known`). So the inductive invariant is `IInv` with
`AllTyped`, which adds to `TypeOK` that an armed timer has a request and a state
to go to: without it `sendSpigot_cb` would send nothing, and call it a request. The types of
`terminationCode` and of `secProbeStorage` were once just strings; they are now
the codes the handlers give (`TerminationCodes`).

### A session whose server answers requests

`IInv` holds for servers that speak unasked as well, so it cannot say that a
handler is called at the right moment. `TurnProofs` does, for servers of which
`Orderly` holds: `Surprises` within `drop`, `overflow`, `early_read`,
`data_first` and `late_data`, the set of `session_drop`.

| Theorem | Property | In words |
|---|---|---|
| `StaysInStep` | `InStep` | no assert fails, no timer is lost; the only ways to use freed memory or no data channel, or to end twice |
| `FaultFree` | `NoFault` | no fault at all if the server does no more than break the connection, and announces protected transfers on data connections that stand |
| `CutsErrorsOff` | `ErrorsCutOff` | no LIST after the cutoff, and the count never passes it |
| `RecordsOnce` | `RecordedOnce` | a directory's LIST reply is recorded once |
| `KeepsVerdict` | `VerdictKept` | a failed login is not forgotten over the probe |
| `NothingAfterQuit` | `QuitIsLast` | nothing is sent after QUIT |

`Orderly` is as weak as the properties allow. Unasked replies (`unsolicited`)
make `RecordedOnce` fail (`session_twice`); `logged_now` and `sec_again` bring
a handler into a state whose asserts it fails; `tls_fails` reconnects with the
old connection's timers still armed (`session_stale_timer`).

The argument is that of a game in turns: the server (`owed`), a delayed request,
a timer or the end of the data channel will take the session on, and never two
of them. `Tame(h, owed)` is that sentence (`OneTurn`) and what it protects:
`Secured` (TLS begins once, and a probe does not log in again), `Provided` (a
login begins with its first reply, a transfer has its data channel), `Walked`
(after the last error only QUIT is left) and `Remembered` (the failure stays
where it was put). `TInv` is `IInv` and `AllTyped` together with `InTurn(h, owed)`,
which adds what is true of hosts that crashed or ended, or with `Late(h)`: the
host had ended, and an overwritten data bufferevent has used it since. TLC checked
it on the instances of `session_drop` and `session_normal` before it was proved.

The proof follows the code again. A handler begins with a `Placid` host, one
whose turn it is, and its lemma says that it passes the turn on (`Turned`): by a
request (`Asked`, under the conditions `Fits`), by a timer, by waiting for the
data channel, or by ending the host. `RepliesTold` and `MoresTold` say what an
orderly server can reply, `OwesTurns` that it then owes the replies to what the
callback sent; and one lemma per action (`ReadCarries`, `SavedCarries`, ...) that
the callback begins in its turn and carries `TInv` on.

### Replies: every property

`ReplyProofs` holds for all replies that `ReplyParserAssumption` allows, however
they are cut into reads, and for every size of a copy and of the buffer. Nothing
folds over the replies: `Unread` is the stream that was sent and not yet taken
(`ctrlDBuffer`, `input` and `wire`, one behind the other), `Before` the number of
bytes in front of it, and each reply of `said` has its place.

* `ReplyTypes` (`TypeOK`).
* `NoneBeforeItsEnd` (`NotBeforeItsEnd`) holds even when a CR LF is cut, so its
  invariant `PlaceInv` must not know which reply a handler acts on. It says that
  every line end behind a code in the stream has the end of a reply between the
  two (`Ended`); a verdict on a code takes the buffer away at such an end
  (`CodeFound`), so every code is paid for with one more reply (`PastGrows`).
* `RepliesKeepOrder` (`RepliesInOrder`) and `AnswersAreSeen` (`NoNeedlessWait`)
  need that no CR LF was cut. `OrderInv` adds that the stream then begins where
  the replies end that were acted on and holds the others byte by byte (`Left`),
  that no CR LF lies across the edge of a buffer (`Uncut`), and that the buffer
  holds no code with a line end behind it but at its very end (`OnlyLastCoded`,
  `Uncoded`; `LineAdded` is the step of the loop). So what a verdict takes is the
  first reply and all of it (`FirstTaken`). TLC checked `PlaceInv` and `OrderInv`
  on the instance of `replies` before they were proved.

The proof of `AnswersAreSeen` showed that an exception the property once made,
for a server whose last reply is nonsense, is not needed: its error is seen in
time as well.

### Only model-checked

Liveness: `Terminates`, `DelayEnds` and `Ends`. Fairness and `ENABLED` are out of
the prover's reach. Every other property of a passing run is a theorem.

The runs that find a violation are examples and stay with TLC: there is nothing
to prove about them.

## 5. Plan

All modules that were planned are written, and every safety and action property
that is checked is proved. What could still be added:

1. In `ListParser`, the exceptions to `ClearLine`: what a line with two dates is
   read as.
2. In `CtrlSession`, a reconnect and a data connection that fail at once: two more
   ways to misuse freed memory.
3. `tools/portListener.c` as the other end of the bounce test.

## 6. Not modelled

* The linked lists of `ipQueue.c` and `strQueue.c`: used as sequences. Every
  operation of the first runs under its mutex; the second belongs to one host.
* `recorder/` and the Python readers, but for two things they assert of a
  record (`RecordedOnce`, `EndsClean`): writing JSON keeps no state that a
  crawl depends on.
* `tools/portListener.c`: a program of its own.
* `tools/parseCerts.c`, `tools/listParseDump.c`, `logger/`, `cfaaBannerCheck.c`,
  `pythonLibs/`, command line and configuration: straight-line code, output or
  offline analysis. Results of the last are the constants of the modules; the
  banner check is a choice of the server's reply.
