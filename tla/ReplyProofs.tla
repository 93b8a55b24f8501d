----------------------------- MODULE ReplyProofs -----------------------------
(***************************************************************************)
(* Theorems about ReplyParser for all replies, all ways in which their     *)
(* bytes arrive, and every size of the buffers.                            *)
(*                                                                         *)
(* The stream is what was sent and not yet taken: ctrlDBuffer, the input   *)
(* buffer and the wire, one behind the other (Unread).  A code is only     *)
(* taken at the end of a line, where the stream is cut; so what remains    *)
(* begins with a line again.                                               *)
(***************************************************************************)
EXTENDS ReplyParser, FiniteSetTheorems, SequenceTheorems, WellFoundedInduction, TLAPS

-----------------------------------------------------------------------------
\* Least and greatest elements.

LEMMA MinOfNats ==
  ASSUME NEW S \in SUBSET Nat, S # {}
  PROVE  Min(S) \in S /\ \A y \in S : Min(S) <= y
<1>1. PICK x \in S : \A y \in S : <<y, x>> \notin OpToRel(<, Nat)
  BY NatLessThanWellFounded, WFMin
<1>2. ASSUME NEW y \in S PROVE x <= y
  <2>1. y \in Nat /\ x \in Nat
    OBVIOUS
  <2>2. y < x => <<y, x>> \in {ss \in Nat \X Nat : ss[1] < ss[2]}
    BY <2>1
  <2>3. ~(y < x)
    BY <1>1, <2>2 DEF OpToRel
  <2>4. QED
    BY <2>1, <2>3
<1>3. QED
  BY <1>2 DEF Min

LEMMA MaxOfNats ==
  ASSUME NEW n \in Nat, NEW S \in SUBSET (0..n), S # {}
  PROVE  Max(S) \in S /\ \A y \in S : Max(S) >= y
<1> DEFINE T == {n - y : y \in S}
<1>1. T \in SUBSET Nat /\ T # {}
  <2>1. \A y \in S : y \in 0..n /\ n - y \in Nat
    OBVIOUS
  <2>2. QED
    BY <2>1
<1>2. Min(T) \in T /\ \A z \in T : Min(T) <= z
  BY <1>1, MinOfNats
<1>3. PICK x \in S : Min(T) = n - x
  BY <1>2
<1>4. ASSUME NEW y \in S PROVE x >= y
  <2>1. n - x <= n - y
    BY <1>2, <1>3
  <2>2. QED
    BY <2>1
<1>5. QED
  BY <1>4 DEF Max

-----------------------------------------------------------------------------
\* Lines in a sequence of bytes.

\* The end of a line in two pieces is the end of a line in one of them, or is cut.
LEMMA EolsJoined ==
  ASSUME NEW s \in Seq(Bytes), NEW t \in Seq(Bytes)
  PROVE  /\ s \o t \in Seq(Bytes) /\ Len(s \o t) = Len(s) + Len(t)
         /\ \A i \in 1..Len(s) : (s \o t)[i] = s[i]
         /\ \A i \in 1..Len(t) : (s \o t)[Len(s) + i] = t[i]
         /\ \A i \in Int : i < Len(s) => (EolAt(s \o t, i) <=> EolAt(s, i))
         /\ \A i \in Int : i > 0 => (EolAt(s \o t, Len(s) + i) <=> EolAt(t, i))
<1> DEFINE u == s \o t
<1>1. /\ u \in Seq(Bytes) /\ Len(u) = Len(s) + Len(t)
      /\ Len(s) \in Nat /\ Len(t) \in Nat
      /\ \A i \in 1..(Len(s) + Len(t)) : u[i] = IF i <= Len(s) THEN s[i] ELSE t[i - Len(s)]
  BY ConcatProperties, LenProperties
<1> HIDE DEF u
<1>2. \A i \in 1..Len(s) : u[i] = s[i]
  BY <1>1
<1>3. \A i \in 1..Len(t) : u[Len(s) + i] = t[i]
  BY <1>1
<1>4. ASSUME NEW i \in Int, i < Len(s) PROVE EolAt(u, i) <=> EolAt(s, i)
  BY <1>1, <1>2, <1>4 DEF EolAt
<1>5. ASSUME NEW i \in Int, i > 0 PROVE EolAt(u, Len(s) + i) <=> EolAt(t, i)
  <2>1. CASE i < Len(t)
    <3>1. u[Len(s) + i] = t[i] /\ u[Len(s) + i + 1] = t[i + 1]
      BY <1>1, <1>3, <1>5, <2>1
    <3>2. QED
      BY <1>1, <1>5, <2>1, <3>1 DEF EolAt
  <2>2. CASE ~(i < Len(t))
    BY <1>1, <1>5, <2>2 DEF EolAt
  <2>3. QED
    BY <2>1, <2>2
<1>6. QED
  BY <1>1, <1>2, <1>3, <1>4, <1>5 DEF u

\* The end of a line stays one when bytes before and behind it are moved.
LEMMA EolMoved ==
  ASSUME NEW b \in Seq(Bytes), NEW p \in Seq(Bytes), NEW rest \in Seq(Bytes),
         Len(p) >= 2, EolAt(p \o rest, Len(p) - 1)
  PROVE  EndsInEol(p) /\ EndsInEol(b \o p)
<1>1. Len(p) \in Nat /\ Len(b) \in Nat
  BY LenProperties
<1> DEFINE q == Len(p) - 1
<1>2. q \in Int /\ q < Len(p) /\ q > 0
  BY <1>1
<1>3. EolAt(p \o rest, q)
  OBVIOUS
<1> HIDE DEF q
<1>4. EolAt(p, q)
  BY <1>2, <1>3, EolsJoined
<1>5. EolAt(b \o p, Len(b) + q) /\ Len(b \o p) = Len(b) + Len(p)
  BY <1>2, <1>4, EolsJoined
<1>6. Len(b \o p) - 1 = Len(b) + q
  BY <1>1, <1>5 DEF q
<1>7. QED
  BY <1>4, <1>5, <1>6 DEF EndsInEol, q

\* Codes at the beginning of lines, likewise.
LEMMA CodesJoined ==
  ASSUME NEW s \in Seq(Bytes), NEW t \in Seq(Bytes)
  PROVE  /\ \A i \in 1..Len(s) : i + 3 <= Len(s) => (CodeStart(s \o t, i) <=> CodeStart(s, i))
         /\ t = <<>> \/ t[1] # LF =>
              \A i \in 1..Len(t) : CodeStart(s \o t, Len(s) + i) => CodeStart(t, i)
         /\ s = <<>> \/ EndsInEol(s) =>
              \A i \in 1..Len(t) : CodeStart(t, i) => CodeStart(s \o t, Len(s) + i)
<1> DEFINE u == s \o t
<1>1. Len(u) = Len(s) + Len(t) /\ Len(s) \in Nat /\ Len(t) \in Nat
  BY EolsJoined, LenProperties
<1>2. /\ \A i \in 1..Len(s) : u[i] = s[i]
      /\ \A i \in 1..Len(t) : u[Len(s) + i] = t[i]
  BY EolsJoined
<1>3. /\ \A i \in Int : i < Len(s) => (EolAt(u, i) <=> EolAt(s, i))
      /\ \A i \in Int : i > 0 => (EolAt(u, Len(s) + i) <=> EolAt(t, i))
  BY EolsJoined
<1> HIDE DEF u
<1>4. ASSUME NEW i \in 1..Len(s), i + 3 <= Len(s)
      PROVE  CodeStart(u, i) <=> CodeStart(s, i)
  <2>1. i - 2 \in Int /\ i - 2 < Len(s) /\ {i, i + 1, i + 2, i + 3} \subseteq 1..Len(s)
    BY <1>1, <1>4
  <2>2. EolAt(u, i - 2) <=> EolAt(s, i - 2)
    BY <1>3, <2>1
  <2>3. u[i] = s[i] /\ u[i + 1] = s[i + 1] /\ u[i + 2] = s[i + 2] /\ u[i + 3] = s[i + 3]
    BY <1>2, <2>1
  <2>4. QED
    BY <1>1, <1>4, <2>2, <2>3 DEF CodeStart, LineStart
<1>5. ASSUME NEW i \in 1..Len(t), i + 3 <= Len(t)
      PROVE  /\ u[Len(s) + i] = t[i] /\ u[Len(s) + i + 1] = t[i + 1]
             /\ u[Len(s) + i + 2] = t[i + 2] /\ u[Len(s) + i + 3] = t[i + 3]
  <2>1. {i, i + 1, i + 2, i + 3} \subseteq 1..Len(t)
    BY <1>1, <1>5
  <2>2. /\ Len(s) + i + 1 = Len(s) + (i + 1) /\ Len(s) + i + 2 = Len(s) + (i + 2)
        /\ Len(s) + i + 3 = Len(s) + (i + 3)
    BY <1>1
  <2>3. QED
    BY <1>2, <2>1, <2>2
<1>6. ASSUME t = <<>> \/ t[1] # LF, NEW i \in 1..Len(t), CodeStart(u, Len(s) + i)
      PROVE  CodeStart(t, i)
  <2>1. i + 3 <= Len(t)
    BY <1>1, <1>6 DEF CodeStart
  <2>2. LineStart(t, i)
    <3>1. Len(s) + i = 1 \/ EolAt(u, Len(s) + i - 2)
      BY <1>6 DEF CodeStart, LineStart
    <3>2. CASE i = 1
      BY <3>2 DEF LineStart
    <3>3. CASE i = 2
      <4>1. EolAt(u, Len(s))
        BY <1>1, <3>1, <3>3
      <4>2. u[Len(s) + 1] = LF
        BY <4>1 DEF EolAt
      <4>3. t[1] = LF /\ t # <<>>
        BY <1>1, <1>2, <2>1, <4>2
      <4>4. QED
        BY <1>6, <4>3
    <3>4. CASE i > 2
      <4>1. EolAt(u, Len(s) + (i - 2))
        BY <1>1, <3>1, <3>4
      <4>2. QED
        BY <1>3, <3>4, <4>1 DEF LineStart
    <3>5. QED
      BY <3>2, <3>3, <3>4
  <2>3. QED
    BY <1>1, <1>5, <1>6, <2>1, <2>2 DEF CodeStart
<1>7. ASSUME s = <<>> \/ EndsInEol(s), NEW i \in 1..Len(t), CodeStart(t, i)
      PROVE  CodeStart(u, Len(s) + i)
  <2>1. LineStart(u, Len(s) + i)
    <3>1. CASE i = 1
      <4>1. s = <<>> => Len(s) = 0
        OBVIOUS
      <4>2. EndsInEol(s) => EolAt(u, Len(s) - 1)
        BY <1>1, <1>3 DEF EndsInEol
      <4>3. QED
        BY <1>1, <1>3, <1>7, <3>1, <4>1, <4>2 DEF LineStart
    <3>2. CASE i # 1
      <4>1. EolAt(t, i - 2) /\ i - 2 > 0
        BY <1>7, <3>2 DEF CodeStart, LineStart, EolAt
      <4>2. EolAt(u, Len(s) + (i - 2)) /\ Len(s) + (i - 2) = Len(s) + i - 2
        BY <1>1, <1>3, <4>1
      <4>3. QED
        BY <4>2 DEF LineStart
    <3>3. QED
      BY <3>1, <3>2
  <2>2. QED
    BY <1>1, <1>5, <1>7, <2>1 DEF CodeStart
<1>8. QED
  BY <1>4, <1>6, <1>7 DEF u

-----------------------------------------------------------------------------
\* The end of a line that begins with a code is the end of a reply, or comes after one:
\* b bytes before s, replies ss.
Ended(s, b, ss) ==
  \A i, q \in 1..Len(s) : CodeStart(s, i) /\ EolAt(s, q) /\ q >= i =>
    \E k \in DOMAIN ss : b + i - 1 < ss[k].end /\ ss[k].end <= b + q + 1

\* A reply that is sent behind the others ends what it begins.
LEMMA EndedSaid ==
  ASSUME NEW s \in Seq(Bytes), NEW b \in Nat, NEW ss,
         \A k \in DOMAIN ss : ss[k].end \in Nat, Ended(s, b, ss),
         b + Len(s) = 0 \/ \E k \in DOMAIN ss : ss[k].end = b + Len(s),
         NEW t \in Seq(Bytes), t[1] # LF, OnlyLastCoded(t),
         NEW tt, DOMAIN ss \subseteq DOMAIN tt, \A k \in DOMAIN ss : tt[k] = ss[k],
         \E k \in DOMAIN tt : tt[k].end = b + Len(s) + Len(t)
  PROVE  Ended(s \o t, b, tt)
<1> DEFINE u == s \o t
<1>1. Len(u) = Len(s) + Len(t) /\ Len(s) \in Nat /\ Len(t) \in Nat
  BY EolsJoined, LenProperties
<1>2. /\ \A i \in 1..Len(s) : u[i] = s[i]
      /\ \A i \in 1..Len(t) : u[Len(s) + i] = t[i]
  BY EolsJoined
<1>3. /\ \A i \in Int : i < Len(s) => (EolAt(u, i) <=> EolAt(s, i))
      /\ \A i \in Int : i > 0 => (EolAt(u, Len(s) + i) <=> EolAt(t, i))
  BY EolsJoined
<1>4. /\ \A i \in 1..Len(s) : i + 3 <= Len(s) => (CodeStart(u, i) <=> CodeStart(s, i))
      /\ \A i \in 1..Len(t) : CodeStart(u, Len(s) + i) => CodeStart(t, i)
  BY CodesJoined
<1> SUFFICES ASSUME NEW i \in 1..Len(u), NEW q \in 1..Len(u),
                    CodeStart(u, i), EolAt(u, q), q >= i
             PROVE  \E k \in DOMAIN tt : b + i - 1 < tt[k].end /\ tt[k].end <= b + q + 1
  BY DEF Ended, u
<1> HIDE DEF u
<1>5. CASE i <= Len(s) /\ q >= Len(s)
  <2>1. PICK k \in DOMAIN ss : ss[k].end = b + Len(s)
    BY <1>1, <1>5
  <2>2. b + i - 1 < ss[k].end /\ ss[k].end <= b + q + 1
    BY <1>1, <1>5, <2>1
  <2>3. QED
    BY <2>2
<1>6. CASE i <= Len(s) /\ q < Len(s)
  <2>1. EolAt(s, q)
    BY <1>1, <1>3, <1>6
  <2>2. CASE i + 3 <= Len(s)
    <3>1. CodeStart(s, i)
      BY <1>1, <1>4, <1>6, <2>2
    <3>2. PICK k \in DOMAIN ss : b + i - 1 < ss[k].end /\ ss[k].end <= b + q + 1
      BY <1>1, <1>6, <2>1, <3>1 DEF Ended
    <3>3. QED
      BY <3>2
  <2>3. CASE ~(i + 3 <= Len(s))
    <3>1. q \in {i, i + 1, i + 2} /\ u[q] = CR
      BY <1>1, <1>6, <2>3 DEF EolAt
    <3>2. u[q] \in Digits
      BY <3>1 DEF CodeStart
    <3>3. CR \notin Digits
      BY DEF CR, Digits
    <3>4. QED
      BY <3>1, <3>2, <3>3
  <2>4. QED
    BY <2>2, <2>3
<1>7. CASE i > Len(s)
  <2> DEFINE j == i - Len(s)
             p == q - Len(s)
  <2>1. j \in 1..Len(t) /\ p \in 1..Len(t) /\ i = Len(s) + j /\ q = Len(s) + p /\ p >= j
    BY <1>1, <1>7
  <2> HIDE DEF j, p
  <2>2. CodeStart(t, j) /\ EolAt(t, p)
    BY <1>1, <1>3, <1>4, <2>1
  <2>3. p = Len(t) - 1
    BY <2>1, <2>2 DEF OnlyLastCoded
  <2>4. PICK k \in DOMAIN tt : tt[k].end = b + Len(s) + Len(t)
    OBVIOUS
  <2>5. b + i - 1 < tt[k].end /\ tt[k].end <= b + q + 1
    BY <1>1, <2>1, <2>3, <2>4
  <2>6. QED
    BY <2>5
<1>8. QED
  BY <1>1, <1>5, <1>6, <1>7

\* What remains behind the end of a line begins with a line.
LEMMA EndedRest ==
  ASSUME NEW s \in Seq(Bytes), NEW t \in Seq(Bytes), NEW b \in Nat, NEW ss,
         s = <<>> \/ EndsInEol(s), Ended(s \o t, b, ss),
         \A k \in DOMAIN ss : ss[k].end \in Nat
  PROVE  Ended(t, b + Len(s), ss)
<1>1. Len(s \o t) = Len(s) + Len(t) /\ Len(s) \in Nat /\ Len(t) \in Nat
  BY EolsJoined, LenProperties
<1> SUFFICES ASSUME NEW i \in 1..Len(t), NEW q \in 1..Len(t),
                    CodeStart(t, i), EolAt(t, q), q >= i
             PROVE  \E k \in DOMAIN ss : /\ b + Len(s) + i - 1 < ss[k].end
                                         /\ ss[k].end <= b + Len(s) + q + 1
  BY DEF Ended
<1>2. CodeStart(s \o t, Len(s) + i)
  BY CodesJoined
<1>3. EolAt(s \o t, Len(s) + q)
  <2>1. q \in Int /\ q > 0
    BY <1>1
  <2>2. QED
    BY <2>1, EolsJoined
<1> DEFINE j == Len(s) + i
           p == Len(s) + q
<1>4. j \in 1..Len(s \o t) /\ p \in 1..Len(s \o t) /\ p >= j
  BY <1>1
<1>5. CodeStart(s \o t, j) /\ EolAt(s \o t, p)
  BY <1>2, <1>3
<1> HIDE DEF j, p
<1>6. PICK k \in DOMAIN ss : b + j - 1 < ss[k].end /\ ss[k].end <= b + p + 1
  BY <1>4, <1>5 DEF Ended
<1>7. b + Len(s) + i - 1 < ss[k].end /\ ss[k].end <= b + Len(s) + q + 1
  BY <1>1, <1>6 DEF j, p
<1>8. QED
  BY <1>7

-----------------------------------------------------------------------------
\* The last line of what was collected.

\* get_last_line gives a line that begins after the last EOL but the trailing one.
LEMMA LastLine ==
  ASSUME NEW b \in Seq(Bytes), EndsInEol(b), HasCode(get_last_line(b))
  PROVE  \E i \in 1..(Len(b) - 1) :
           /\ CodeStart(b, i) /\ CodeOf(b) = b[i]
           /\ \A q \in i..(Len(b) - 2) : ~EolAt(b, q)
<1> DEFINE end == Len(b) - 2
           starts == {i \in 2..end : EolAt(b, i - 1)}
           i == (IF starts = {} THEN 0 ELSE Max(starts)) + 1
           line == SubSeq(b, i, Len(b))
<1>1. Len(b) \in Nat /\ Len(b) >= 2 /\ end \in Nat
  <2>1. Len(b) \in Nat
    BY LenProperties
  <2>2. QED
    BY <2>1 DEF EndsInEol, EolAt
<1>2. get_last_line(b) = line
  BY DEF get_last_line
<1>3. starts # {} => Max(starts) \in starts /\ \A y \in starts : Max(starts) >= y
  <2>1. starts \in SUBSET (0..end)
    BY <1>1
  <2>2. QED
    BY <1>1, <2>1, MaxOfNats
<1>4. /\ i \in 1..(Len(b) - 1)
      /\ i = 1 \/ EolAt(b, i - 2)
      /\ \A y \in starts : i > y
  <2>1. CASE starts = {}
    <3> HIDE DEF starts
    <3>1. (IF starts = {} THEN 0 ELSE Max(starts)) = 0
      BY <2>1
    <3>2. i = 1
      BY <3>1
    <3> HIDE DEF i
    <3>3. QED
      BY <1>1, <2>1, <3>2
  <2>2. CASE starts # {}
    <3>1. Max(starts) \in 2..end /\ EolAt(b, Max(starts) - 1) /\ i = Max(starts) + 1
      BY <1>3, <2>2
    <3> DEFINE m == Max(starts)
    <3>2. m \in 2..end /\ EolAt(b, m - 1) /\ i = m + 1 /\ \A y \in starts : m >= y
      BY <1>3, <2>2, <3>1
    <3>3. \A y \in starts : y \in Int
      OBVIOUS
    <3> HIDE DEF m, starts, i
    <3>4. i - 2 = m - 1
      BY <3>2
    <3>5. QED
      BY <1>1, <3>2, <3>3, <3>4
  <2>3. QED
    BY <2>1, <2>2
<1> HIDE DEF i
<1>5. /\ Len(line) = Len(b) - i + 1
      /\ \A j \in 1..(Len(b) - i + 1) : line[j] = b[i + j - 1]
  <2>1. i \in Int /\ Len(b) \in Int /\ \A j \in i..Len(b) : b[j] \in Bytes
    BY <1>1, <1>4, ElementOfSeq
  <2>2. QED
    BY <1>1, <1>4, <2>1, SubSeqProperties
<1>6. HasCode(line)
  BY <1>2
<1>7. /\ Len(line) >= 4 /\ line[4] = SP
      /\ line[1] \in Digits /\ line[2] \in Digits /\ line[3] \in Digits
  <2> HIDE DEF line
  <2>1. QED
    BY <1>6 DEF HasCode
<1> HIDE DEF line
<1>8. /\ i + 3 <= Len(b) /\ line[1] = b[i] /\ line[2] = b[i + 1]
      /\ line[3] = b[i + 2] /\ line[4] = b[i + 3]
  <2>1. i + 3 <= Len(b) /\ i \in Nat
    BY <1>1, <1>4, <1>5, <1>7
  <2>2. {1, 2, 3, 4} \subseteq 1..(Len(b) - i + 1)
    BY <1>1, <2>1
  <2>3. line[1] = b[i + 1 - 1] /\ line[2] = b[i + 2 - 1] /\ line[3] = b[i + 3 - 1]
        /\ line[4] = b[i + 4 - 1]
    BY <1>5, <2>2
  <2>4. i + 1 - 1 = i /\ i + 2 - 1 = i + 1 /\ i + 3 - 1 = i + 2 /\ i + 4 - 1 = i + 3
    BY <2>1
  <2>5. QED
    BY <2>1, <2>3, <2>4
<1>9. CodeStart(b, i)
  BY <1>4, <1>7, <1>8 DEF CodeStart, LineStart
<1>10. CodeOf(b) = b[i]
  BY <1>2, <1>6, <1>8 DEF CodeOf
<1>11. ASSUME NEW q \in i..(Len(b) - 2), EolAt(b, q) PROVE FALSE
  <2>1. q # Len(b) - 2
    BY <1>1, <1>11 DEF EndsInEol, EolAt, CR, LF
  <2>2. q + 1 \in 2..end /\ q + 1 - 1 = q
    BY <1>1, <1>4, <2>1
  <2>3. q + 1 \in starts
    BY <1>11, <2>2
  <2>4. i > q + 1
    BY <1>4, <2>3
  <2>5. QED
    BY <1>1, <1>4, <2>4
<1>12. QED
  BY <1>4, <1>9, <1>10, <1>11

-----------------------------------------------------------------------------
\* Types.

\* fill_DBuffer_line moves what is there, or up to the first end of a line it sees.
LEMMA FilledMoves ==
  ASSUME NEW b \in Seq(Bytes)
  PROVE  /\ Filled(b) \in 0..Len(b)
         /\ EolsSeen(b) = {} => Filled(b) = Len(b)
         /\ EolsSeen(b) # {} =>
              /\ Filled(b) >= 2 /\ EolAt(b, Filled(b) - 1)
              /\ \A q \in 1..(Filled(b) - 2) : q \notin EolsSeen(b)
<1>1. Len(b) \in Nat
  BY LenProperties
<1>2. CASE EolsSeen(b) = {}
  BY <1>1, <1>2 DEF Filled
<1>3. CASE EolsSeen(b) # {}
  <2>1. EolsSeen(b) \in SUBSET Nat /\ \A m \in EolsSeen(b) : m \in 1..Len(b) /\ EolAt(b, m)
    BY <1>1 DEF EolsSeen
  <2> DEFINE m == Min(EolsSeen(b))
  <2>2. m \in EolsSeen(b) /\ \A y \in EolsSeen(b) : m <= y
    BY <1>3, <2>1, MinOfNats
  <2>3. Filled(b) = m + 1
    BY <1>3 DEF Filled
  <2> HIDE DEF m
  <2>4. m \in 1..Len(b) /\ EolAt(b, m)
    BY <2>1, <2>2
  <2>5. m < Len(b)
    BY <2>4 DEF EolAt
  <2>6. Filled(b) - 1 = m /\ Filled(b) >= 2 /\ Filled(b) \in 0..Len(b)
    BY <1>1, <2>3, <2>4, <2>5
  <2>7. ASSUME NEW q \in 1..(Filled(b) - 2), q \in EolsSeen(b) PROVE FALSE
    BY <2>2, <2>4, <2>6, <2>7
  <2>8. QED
    BY <1>3, <2>4, <2>6, <2>7
<1>4. QED
  BY <1>2, <1>3

All == Finals \cup Announcements \cup Nonsense

Saying == [code : Digits \cup {"none"}, end : Nat]

\* What is said is a reply with its code.
LEMMA AllReplies ==
  ASSUME NEW r \in All
  PROVE  /\ r.bytes \in Seq(Bytes) /\ r.bytes[1] # LF /\ OnlyLastCoded(r.bytes)
         /\ Len(r.bytes) \in Nat \ {0}
         /\ r.code \in Digits \cup {"none"}
<1>1. r.bytes \in Seq(Bytes) \ {<<>>} /\ r.bytes[1] # LF /\ OnlyLastCoded(r.bytes)
  BY ReplyParserAssumption DEF All
<1>2. r.code \in Digits \cup {"none"}
  BY ReplyParserAssumption DEF All, IsReply, IsNonsense
<1>3. QED
  BY <1>1, <1>2, EmptySeq

LEMMA LastByteType ==
  ASSUME said \in Seq(Saying)
  PROVE  LastByte \in Nat /\ (said # <<>> => Len(said) \in DOMAIN said)
<1>1. CASE said = <<>>
  BY <1>1 DEF LastByte
<1>2. CASE said # <<>>
  <2>1. Len(said) \in Nat \ {0} /\ DOMAIN said = 1..Len(said)
    BY <1>2, EmptySeq, LenProperties
  <2>2. said[Len(said)] \in Saying
    BY <2>1, ElementOfSeq
  <2>3. QED
    BY <1>2, <2>1, <2>2 DEF LastByte, Saying
<1>3. QED
  BY <1>1, <1>2

\* What one reply, or two, add to the stream.
LEMMA SaysOne ==
  ASSUME TypeOK, NEW r \in All, Says(r)
  PROVE  /\ wire' = wire \o r.bytes /\ wire' \in Seq(Bytes)
         /\ said' = Append(said, [code |-> r.code, end |-> LastByte + Len(r.bytes)])
         /\ said' \in Seq(Saying)
<1>1. /\ r.bytes \in Seq(Bytes) /\ Len(r.bytes) \in Nat /\ r.code \in Digits \cup {"none"}
      /\ wire \in Seq(Bytes) /\ said \in Seq(Saying)
  BY AllReplies DEF TypeOK, Saying
<1>2. LastByte \in Nat
  BY <1>1, LastByteType
<1>3. [code |-> r.code, end |-> LastByte + Len(r.bytes)] \in Saying
  BY <1>1, <1>2 DEF Saying
<1>4. QED
  BY <1>1, <1>3, ConcatProperties, AppendProperties DEF Says

LEMMA SaysTwo ==
  ASSUME TypeOK, NEW r \in All, NEW next \in All, SaysBoth(r, next)
  PROVE  /\ wire' = wire \o r.bytes \o next.bytes /\ wire' \in Seq(Bytes)
         /\ said' = Append(Append(said, [code |-> r.code, end |-> LastByte + Len(r.bytes)]),
                           [code |-> next.code,
                            end |-> LastByte + Len(r.bytes) + Len(next.bytes)])
         /\ said' \in Seq(Saying)
<1>1. /\ r.bytes \in Seq(Bytes) /\ Len(r.bytes) \in Nat /\ r.code \in Digits \cup {"none"}
      /\ next.bytes \in Seq(Bytes) /\ Len(next.bytes) \in Nat
      /\ next.code \in Digits \cup {"none"}
      /\ wire \in Seq(Bytes) /\ said \in Seq(Saying)
  BY AllReplies DEF TypeOK, Saying
<1>2. LastByte \in Nat
  BY <1>1, LastByteType
<1> DEFINE x == [code |-> r.code, end |-> LastByte + Len(r.bytes)]
           y == [code |-> next.code, end |-> LastByte + Len(r.bytes) + Len(next.bytes)]
<1>3. x \in Saying /\ y \in Saying
  <2>1. /\ LastByte + Len(r.bytes) \in Nat
        /\ LastByte + Len(r.bytes) + Len(next.bytes) \in Nat
    <3>1. \A a, b, c \in Nat : a + b \in Nat /\ a + b + c \in Nat
      OBVIOUS
    <3>2. Len(r.bytes) \in Nat /\ Len(next.bytes) \in Nat
      BY <1>1
    <3>3. QED
      BY <1>2, <3>1, <3>2
  <2>2. QED
    BY <1>1, <2>1 DEF Saying
<1>4. said' = said \o <<x, y>> /\ wire' = wire \o r.bytes \o next.bytes
  BY DEF SaysBoth
<1> HIDE DEF x, y
<1>5. said \o <<x, y>> = Append(Append(said, x), y)
  BY <1>1, <1>3
<1>6. Append(said, x) \in Seq(Saying) /\ Append(Append(said, x), y) \in Seq(Saying)
  BY <1>1, <1>3, AppendProperties
<1>7. wire' \in Seq(Bytes)
  BY <1>1, <1>4, ConcatProperties
<1>8. QED
  BY <1>4, <1>5, <1>6, <1>7 DEF x, y

\* What an action leaves in the buffers.
LEMMA DeliverMoves ==
  ASSUME TypeOK, Deliver
  PROVE  \E n \in 1..Len(wire) :
           /\ input' = input \o SubSeq(wire, 1, n) /\ wire' = SubSeq(wire, n + 1, Len(wire))
           /\ split' = (split \/ EolAt(wire, n))
           /\ SubSeq(wire, 1, n) \in Seq(Bytes) /\ Len(SubSeq(wire, 1, n)) = n
           /\ wire' \in Seq(Bytes) /\ wire = SubSeq(wire, 1, n) \o wire'
<1>1. PICK n \in 1..Len(wire) :
        /\ input' = input \o SubSeq(wire, 1, n) /\ wire' = SubSeq(wire, n + 1, Len(wire))
        /\ split' = (split \/ EolAt(wire, n))
  BY DEF Deliver
<1>2. wire \in Seq(Bytes) /\ Len(wire) \in Nat
  BY LenProperties DEF TypeOK
<1>3. SubSeq(wire, 1, n) \in Seq(Bytes) /\ Len(SubSeq(wire, 1, n)) = n
  <2>1. \A i \in 1..n : wire[i] \in Bytes
    BY <1>2, ElementOfSeq
  <2>2. QED
    BY <1>2, <2>1, SubSeqProperties
<1>4. wire' \in Seq(Bytes)
  <2>1. \A i \in (n + 1)..Len(wire) : wire[i] \in Bytes
    BY <1>2, ElementOfSeq
  <2>2. QED
    BY <1>1, <1>2, <2>1, SubSeqProperties
<1>5. SubSeq(wire, 1, n) \o SubSeq(wire, n + 1, Len(wire)) = SubSeq(wire, 1, Len(wire))
  <2>1. 1 \in 1..(Len(wire) + 1) /\ n \in (1 - 1)..Len(wire) /\ Len(wire) \in n..Len(wire)
    BY <1>2
  <2>2. QED
    BY <1>2, <2>1, ConcatAdjacentSubSeq
<1>6. QED
  BY <1>1, <1>2, <1>3, <1>4, <1>5, SubSeqFull

LEMMA FillMoves ==
  ASSUME TypeOK, FillLine
  PROVE  \E p \in Seq(Bytes) :
           /\ ctrlDBuffer' = ctrlDBuffer \o p /\ ctrlDBuffer' \in Seq(Bytes)
           /\ input = p \o input' /\ input' \in Seq(Bytes)
           /\ p = SubSeq(input, 1, Filled(input)) /\ Len(p) = Filled(input)
<1> DEFINE n == Filled(input)
           p == SubSeq(input, 1, n)
<1>1. input \in Seq(Bytes) /\ Len(input) \in Nat /\ ctrlDBuffer \in Seq(Bytes)
  BY LenProperties DEF TypeOK
<1>2. n \in 0..Len(input)
  BY <1>1, FilledMoves
<1>3. ctrlDBuffer' = ctrlDBuffer \o p /\ input' = SubSeq(input, n + 1, Len(input))
  BY DEF FillLine
<1> HIDE DEF n
<1>4. p \in Seq(Bytes) /\ Len(p) = n
  <2>1. \A i \in 1..n : input[i] \in Bytes
    BY <1>1, <1>2, ElementOfSeq
  <2>2. QED
    BY <1>1, <1>2, <2>1, SubSeqProperties
<1>5. input' \in Seq(Bytes)
  <2>1. \A i \in (n + 1)..Len(input) : input[i] \in Bytes
    BY <1>1, <1>2, ElementOfSeq
  <2>2. QED
    BY <1>1, <1>2, <1>3, <2>1, SubSeqProperties
<1>6. p \o SubSeq(input, n + 1, Len(input)) = SubSeq(input, 1, Len(input))
  <2>1. 1 \in 1..(Len(input) + 1) /\ n \in (1 - 1)..Len(input) /\ Len(input) \in n..Len(input)
    BY <1>1, <1>2
  <2>2. QED
    BY <1>1, <2>1, ConcatAdjacentSubSeq
<1>7. input = p \o input'
  BY <1>1, <1>3, <1>6, SubSeqFull
<1>8. ctrlDBuffer' \in Seq(Bytes)
  BY <1>1, <1>3, <1>4, ConcatProperties
<1> HIDE DEF p
<1>9. QED
  BY <1>3, <1>4, <1>5, <1>7, <1>8 DEF n, p

\* A code is a digit.
LEMMA CodeType == \A b : CodeOf(b) \in Digits \cup {"none"}
  BY DEF CodeOf, HasCode

LEMMA TypeStep ==
  ASSUME TypeOK, [Next]_vars
  PROVE  TypeOK'
<1> USE DEF TypeOK
<1>1. ASSUME NEW next \in {"REPLY_SENT", "LIST_SENT"}, Ask(next),
             wire' \in Seq(Bytes), said' \in Seq(Saying)
      PROVE  TypeOK'
  BY <1>1, EmptySeq DEF Ask, Waiting, Saying
<1>2. CASE AskReply
  <2>1. wire' \in Seq(Bytes) /\ said' \in Seq(Saying)
    BY <1>2, SaysOne, SaysTwo DEF AskReply, All
  <2>2. QED
    BY <1>1, <1>2, <2>1 DEF AskReply
<1>3. CASE AskList
  <2>1. wire' \in Seq(Bytes) /\ said' \in Seq(Saying)
    BY <1>3, SaysOne, SaysTwo DEF AskList, All
  <2>2. QED
    BY <1>1, <1>3, <2>1 DEF AskList
<1>4. CASE Deliver
  <2>1. input' \in Seq(Bytes) /\ wire' \in Seq(Bytes) /\ split' \in BOOLEAN
    <3>1. PICK n \in 1..Len(wire) :
            /\ input' = input \o SubSeq(wire, 1, n) /\ SubSeq(wire, 1, n) \in Seq(Bytes)
            /\ split' = (split \/ EolAt(wire, n)) /\ wire' \in Seq(Bytes)
      BY <1>4, DeliverMoves
    <3>2. input' \in Seq(Bytes)
      BY <3>1, ConcatProperties
    <3>3. EolAt(wire, n) \in BOOLEAN
      BY DEF EolAt
    <3>4. QED
      BY <3>1, <3>2, <3>3
  <2>2. QED
    BY <1>4, <2>1 DEF Deliver
<1>5. CASE FillLine
  <2>1. ctrlDBuffer' \in Seq(Bytes) /\ input' \in Seq(Bytes)
    BY <1>5, FillMoves
  <2>2. /\ foundReplyCode' \in Digits \cup {"none"} /\ res' \in {"VALID_LINE", "VALID_CHUNK"}
        /\ pc' \in {"verdict", "fill"} /\ split' \in BOOLEAN
        /\ UNCHANGED <<wire, state, said, got>>
    BY <1>5, CodeType DEF FillLine
  <2>3. QED
    BY <2>1, <2>2
<1>6. ASSUME NEW next \in {"READY", "OVER"} \cup Waiting, NEW b \in Seq(Bytes), Taken(next, b)
      PROVE  /\ state' = next /\ ctrlDBuffer' = b /\ got' \in Seq(Digits)
             /\ UNCHANGED <<wire, foundReplyCode, res, said, split>>
  <2>1. foundReplyCode \in Digits
    BY <1>6 DEF Taken
  <2>2. QED
    BY <1>6, <2>1, AppendProperties DEF Taken
<1>7. CASE VerdictFinal
  BY <1>6, <1>7 DEF VerdictFinal
<1>8. CASE VerdictExtra
  BY <1>6, <1>8, EmptySeq DEF VerdictExtra
<1>9. CASE VerdictAnnounced
  BY <1>6, <1>9, EmptySeq DEF VerdictAnnounced, Waiting
<1>10. CASE VerdictRefused
  BY <1>6, <1>10 DEF VerdictRefused
<1>11. CASE VerdictError \/ VerdictIncomplete \/ ReadTimeout
  BY <1>11, EmptySeq DEF VerdictError, VerdictIncomplete, ReadTimeout
<1>12. CASE UNCHANGED vars
  BY <1>12 DEF vars
<1>13. QED
  BY <1>2, <1>3, <1>4, <1>5, <1>7, <1>8, <1>9, <1>10, <1>11, <1>12 DEF Next, Verdict

LEMMA TypeInit == Init => TypeOK
  BY EmptySeq DEF Init, TypeOK

\* The buffers hold bytes, codes are digits, and every reply has its place
\* (parse_response, fill_DBuffer_line, get_last_line).
THEOREM ReplyTypes == Spec => []TypeOK
<1>1. TypeOK /\ [Next]_vars => TypeOK'
  BY TypeStep
<1>2. QED
  BY <1>1, TypeInit, PTL DEF Spec

-----------------------------------------------------------------------------
\* What remains of the stream.

Buffer == IF state = "READY" THEN <<>> ELSE ctrlDBuffer
Unread == Buffer \o input \o wire

\* How many bytes were taken, or given up.
Before == LastByte - Len(Unread)

\* The replies that end there or earlier.
Past(ss, n) == {k \in DOMAIN ss : ss[k].end <= n}

EndOf(ss) == IF ss = <<>> THEN 0 ELSE ss[Len(ss)].end

\* Handlers act on no more codes than replies were taken; every code that
\* remains is followed by the end of a reply.
PlaceInv ==
  /\ TypeOK
  /\ pc # "wait" => state \in Waiting
  /\ Before \in Nat
  /\ Len(got) <= Cardinality(Past(said, Before))
  /\ state # "OVER" => Ended(Unread, Before, said)
  /\ pc = "verdict" /\ foundReplyCode # "none" =>
       EndsInEol(ctrlDBuffer) /\ CodeOf(ctrlDBuffer) = foundReplyCode

LEMMA Assoc == \A x, y, z \in Seq(Bytes) : (x \o y) \o z = x \o (y \o z) /\ x \o y \in Seq(Bytes)
  BY ConcatAssociative, ConcatProperties

LEMMA Pieces ==
  ASSUME NEW x \in Seq(Bytes), NEW y \in Seq(Bytes), NEW z \in Seq(Bytes)
  PROVE  /\ x \o y \o z \in Seq(Bytes) /\ x \o y \o z = x \o (y \o z)
         /\ Len(x) \in Nat /\ Len(y) \in Nat /\ Len(z) \in Nat
         /\ Len(x \o y \o z) = Len(x) + Len(y) + Len(z)
<1>1. x \o y \in Seq(Bytes) /\ Len(x \o y) = Len(x) + Len(y)
  BY ConcatProperties
<1>2. x \o y \o z \in Seq(Bytes) /\ Len(x \o y \o z) = Len(x \o y) + Len(z)
  BY <1>1, ConcatProperties
<1>3. x \o y \o z = x \o (y \o z)
  BY ConcatAssociative
<1>4. QED
  BY <1>1, <1>2, <1>3, LenProperties

LEMMA UnreadType ==
  ASSUME TypeOK
  PROVE  /\ Buffer \in Seq(Bytes) /\ Unread \in Seq(Bytes)
         /\ Len(Buffer) \in Nat /\ Len(input) \in Nat /\ Len(wire) \in Nat
         /\ Len(Unread) = Len(Buffer) + Len(input) + Len(wire)
         /\ Unread = Buffer \o (input \o wire)
<1>1. Buffer \in Seq(Bytes) /\ input \in Seq(Bytes) /\ wire \in Seq(Bytes)
  BY EmptySeq DEF Buffer, TypeOK
<1>2. QED
  BY <1>1, Pieces DEF Unread

LEMMA SayingTypes ==
  ASSUME NEW ss \in Seq(Saying)
  PROVE  /\ Len(ss) \in Nat /\ DOMAIN ss = 1..Len(ss) /\ EndOf(ss) \in Nat
         /\ \A k \in DOMAIN ss : ss[k].end \in Nat /\ ss[k].code \in Digits \cup {"none"}
         /\ ss # <<>> => Len(ss) \in DOMAIN ss
<1>1. Len(ss) \in Nat /\ DOMAIN ss = 1..Len(ss)
  BY LenProperties
<1>2. ASSUME NEW k \in DOMAIN ss
      PROVE  ss[k].end \in Nat /\ ss[k].code \in Digits \cup {"none"}
  <2>1. ss[k] \in Saying
    BY <1>1, ElementOfSeq
  <2>2. QED
    BY <2>1 DEF Saying
<1>3. ss # <<>> => Len(ss) \in DOMAIN ss
  BY <1>1, EmptySeq
<1>4. EndOf(ss) \in Nat
  BY <1>2, <1>3 DEF EndOf
<1>5. QED
  BY <1>1, <1>2, <1>3, <1>4

\* Later places have more replies before them, and more again where one ends between.
LEMMA PastGrows ==
  ASSUME NEW ss \in Seq(Saying), NEW m \in Nat, NEW n \in Nat, m <= n
  PROVE  /\ Cardinality(Past(ss, m)) \in Nat /\ Cardinality(Past(ss, n)) \in Nat
         /\ Cardinality(Past(ss, m)) <= Cardinality(Past(ss, n))
         /\ (\E k \in DOMAIN ss : m < ss[k].end /\ ss[k].end <= n)
              => Cardinality(Past(ss, m)) + 1 <= Cardinality(Past(ss, n))
<1>1. IsFiniteSet(DOMAIN ss)
  BY SayingTypes, FS_Interval
<1>2. Past(ss, m) \subseteq Past(ss, n) /\ Past(ss, n) \subseteq DOMAIN ss
  BY SayingTypes DEF Past
<1>3. /\ IsFiniteSet(Past(ss, n)) /\ IsFiniteSet(Past(ss, m))
      /\ Cardinality(Past(ss, m)) <= Cardinality(Past(ss, n))
  BY <1>1, <1>2, FS_Subset
<1>4. Cardinality(Past(ss, m)) \in Nat /\ Cardinality(Past(ss, n)) \in Nat
  BY <1>3, FS_CardinalityType
<1>5. ASSUME NEW k \in DOMAIN ss, m < ss[k].end, ss[k].end <= n
      PROVE  Cardinality(Past(ss, m)) + 1 <= Cardinality(Past(ss, n))
  <2>1. ss[k].end \in Nat
    BY SayingTypes
  <2>2. k \notin Past(ss, m) /\ k \in Past(ss, n)
    BY <1>5, <2>1 DEF Past
  <2>3. Cardinality(Past(ss, m) \cup {k}) = Cardinality(Past(ss, m)) + 1
    BY <1>3, <2>2, FS_AddElement
  <2>4. Past(ss, m) \cup {k} \in SUBSET Past(ss, n)
    BY <1>2, <2>2
  <2>5. Cardinality(Past(ss, m) \cup {k}) <= Cardinality(Past(ss, n))
    BY <1>3, <2>4, FS_Subset
  <2>6. QED
    BY <2>3, <2>5
<1>6. QED
  BY <1>3, <1>4, <1>5


\* s is what remains, behind b bytes, of the replies ss.
Stream(s, b, ss) ==
  s \in Seq(Bytes) /\ b \in Nat /\ ss \in Seq(Saying) /\ Ended(s, b, ss) /\ EndOf(ss) = b + Len(s)

\* tt goes on where ss ends.
Longer(ss, tt) ==
  /\ DOMAIN ss \subseteq DOMAIN tt /\ \A k \in DOMAIN ss : tt[k] = ss[k]
  /\ \A n \in Nat : Cardinality(Past(ss, n)) <= Cardinality(Past(tt, n))

Said(ss, r) == [code |-> r.code, end |-> EndOf(ss) + Len(r.bytes)]

LEMMA SaidLast ==
  ASSUME NEW ss \in Seq(Saying), NEW r \in All
  PROVE  /\ Said(ss, r) \in Saying
         /\ Append(ss, Said(ss, r)) \in Seq(Saying) /\ Append(ss, Said(ss, r)) # <<>>
         /\ Len(Append(ss, Said(ss, r))) = Len(ss) + 1 /\ Len(ss) \in Nat
         /\ \A k \in 1..Len(ss) : Append(ss, Said(ss, r))[k] = ss[k]
         /\ Append(ss, Said(ss, r))[Len(ss) + 1] = Said(ss, r)
         /\ EndOf(Append(ss, Said(ss, r))) = EndOf(ss) + Len(r.bytes)
<1> DEFINE x == Said(ss, r)
<1>1. x \in Saying /\ x.end = EndOf(ss) + Len(r.bytes)
  <2>1. EndOf(ss) \in Nat /\ Len(r.bytes) \in Nat /\ r.code \in Digits \cup {"none"}
    BY AllReplies, SayingTypes
  <2>2. EndOf(ss) + Len(r.bytes) \in Nat
    BY <2>1
  <2>3. QED
    BY <2>1, <2>2 DEF Said, Saying
<1> HIDE DEF x
<1>2. /\ Append(ss, x) \in Seq(Saying) /\ Append(ss, x) # <<>>
      /\ Len(Append(ss, x)) = Len(ss) + 1 /\ Len(ss) \in Nat
      /\ \A k \in 1..Len(ss) : Append(ss, x)[k] = ss[k]
      /\ Append(ss, x)[Len(ss) + 1] = x
  BY <1>1, AppendProperties, LenProperties
<1>3. EndOf(Append(ss, x)) = x.end
  BY <1>2 DEF EndOf
<1>4. QED
  BY <1>1, <1>2, <1>3 DEF x

\* One more reply behind the stream.
LEMMA OneMore ==
  ASSUME NEW s, NEW b, NEW ss, Stream(s, b, ss), NEW r \in All
  PROVE  /\ Stream(s \o r.bytes, b, Append(ss, Said(ss, r)))
         /\ Longer(ss, Append(ss, Said(ss, r)))
         /\ EndOf(Append(ss, Said(ss, r))) = EndOf(ss) + Len(r.bytes)
<1> DEFINE x == Said(ss, r)
           tt == Append(ss, x)
           u == s \o r.bytes
           l == Len(r.bytes)
<1>1. /\ s \in Seq(Bytes) /\ b \in Nat /\ ss \in Seq(Saying) /\ Ended(s, b, ss)
      /\ EndOf(ss) = b + Len(s)
  BY DEF Stream
<1>2. l \in Nat /\ Len(s) \in Nat /\ EndOf(ss) \in Nat
  BY <1>1, AllReplies, LenProperties, SayingTypes
<1>3. /\ r.bytes \in Seq(Bytes) /\ r.bytes[1] # LF /\ OnlyLastCoded(r.bytes)
      /\ r.code \in Digits \cup {"none"}
  BY AllReplies
<1>4. u \in Seq(Bytes) /\ Len(u) = Len(s) + l
  BY <1>1, <1>3, ConcatProperties
<1>5. x.end = EndOf(ss) + l
  BY DEF Said
<1>6. /\ tt \in Seq(Saying) /\ tt # <<>> /\ Len(tt) = Len(ss) + 1
      /\ \A k \in 1..Len(ss) : tt[k] = ss[k]
      /\ tt[Len(ss) + 1] = x
  BY <1>1, SaidLast
<1> HIDE DEF tt, x
<1>7. /\ DOMAIN ss = 1..Len(ss) /\ Len(ss) \in Nat /\ DOMAIN tt = 1..Len(tt)
      /\ \A k \in DOMAIN ss : ss[k].end \in Nat
  BY <1>1, <1>6, SayingTypes
<1>8. DOMAIN ss \subseteq DOMAIN tt /\ \A k \in DOMAIN ss : tt[k] = ss[k]
  BY <1>6, <1>7
<1>9. Len(ss) + 1 \in DOMAIN tt /\ tt[Len(ss) + 1].end = b + Len(s) + l
  <2>1. x.end = b + Len(s) + l
    BY <1>1, <1>5
  <2>2. Len(ss) + 1 \in DOMAIN tt
    BY <1>6, <1>7
  <2>3. QED
    BY <1>6, <2>1, <2>2
<1>10. EndOf(tt) = b + Len(u) /\ EndOf(tt) = EndOf(ss) + l
  <2>1. EndOf(tt) = b + Len(s) + l
    BY <1>6, <1>9 DEF EndOf
  <2> HIDE DEF l, u
  <2>2. b + Len(s) + l = b + (Len(s) + l) /\ b + Len(s) + l = (b + Len(s)) + l
    BY <1>1, <1>2
  <2>3. QED
    BY <1>1, <1>4, <2>1, <2>2
<1>11. Ended(u, b, tt)
  <2>1. \E k \in DOMAIN tt : tt[k].end = b + Len(s) + Len(r.bytes)
    BY <1>9
  <2>2. b + Len(s) = 0 \/ \E k \in DOMAIN ss : ss[k].end = b + Len(s)
    BY <1>1, SayingTypes DEF EndOf
  <2>3. QED
    BY <1>1, <1>3, <1>7, <1>8, <2>1, <2>2, EndedSaid
<1>12. ASSUME NEW n \in Nat PROVE Cardinality(Past(ss, n)) <= Cardinality(Past(tt, n))
  <2>1. IsFiniteSet(DOMAIN tt)
    BY <1>6, SayingTypes, FS_Interval
  <2>2. Past(tt, n) \in SUBSET DOMAIN tt /\ Past(ss, n) \in SUBSET Past(tt, n)
    BY <1>8 DEF Past
  <2>3. IsFiniteSet(Past(tt, n))
    BY <2>1, <2>2, FS_Subset
  <2>4. QED
    BY <2>2, <2>3, FS_Subset
<1>13. Stream(u, b, tt) /\ Longer(ss, tt)
  BY <1>1, <1>4, <1>6, <1>8, <1>10, <1>11, <1>12 DEF Stream, Longer
<1>14. QED
  BY <1>10, <1>13 DEF tt, x

\* What an action takes from the stream lies before it.
LEMMA StreamCut ==
  ASSUME PlaceInv, TypeOK', said' = said, NEW p \in Seq(Bytes), Unread = p \o Unread'
  PROVE  /\ Before' = Before + Len(p) /\ Before' \in Nat
         /\ Cardinality(Past(said, Before)) <= Cardinality(Past(said, Before'))
         /\ state # "OVER" /\ (p = <<>> \/ EndsInEol(p)) => Ended(Unread', Before', said')
<1>1. /\ Unread' \in Seq(Bytes) /\ Unread \in Seq(Bytes)
      /\ Len(Unread') \in Nat /\ Len(Unread) \in Nat /\ Len(p) \in Nat
  <2>1. Unread' \in Seq(Bytes)
    <3>1. Buffer' \in Seq(Bytes) /\ input' \in Seq(Bytes) /\ wire' \in Seq(Bytes)
      BY EmptySeq DEF Buffer, TypeOK
    <3>2. QED
      BY <3>1, Pieces DEF Unread
  <2>2. Unread \in Seq(Bytes)
    BY UnreadType DEF PlaceInv
  <2>3. QED
    BY <2>1, <2>2, LenProperties
<1>2. Len(Unread) = Len(p) + Len(Unread')
  BY <1>1, ConcatProperties
<1>3. LastByte' = LastByte /\ LastByte \in Nat /\ said \in Seq(Saying)
  BY LastByteType DEF LastByte, PlaceInv, TypeOK, Saying
<1>4. Before' = Before + Len(p)
  <2>1. Before' = LastByte - Len(Unread') /\ Before = LastByte - Len(Unread)
    BY <1>3 DEF Before
  <2>2. QED
    BY <1>1, <1>2, <1>3, <2>1
<1>5. Before \in Nat /\ Before' \in Nat /\ Before <= Before'
  BY <1>1, <1>4 DEF PlaceInv
<1>6. Cardinality(Past(said, Before)) <= Cardinality(Past(said, Before'))
  BY <1>3, <1>5, PastGrows
<1>7. ASSUME state # "OVER", p = <<>> \/ EndsInEol(p) PROVE Ended(Unread', Before', said')
  <2>1. Ended(p \o Unread', Before, said)
    BY <1>7 DEF PlaceInv
  <2>2. \A k \in DOMAIN said : said[k].end \in Nat
    BY <1>3, SayingTypes
  <2>3. Ended(Unread', Before + Len(p), said)
    BY <1>1, <1>5, <1>7, <2>1, <2>2, EndedRest
  <2>4. QED
    BY <1>4, <2>3
<1>8. QED
  BY <1>4, <1>5, <1>6, <1>7

-----------------------------------------------------------------------------
\* What each action does to the stream.

\* Nothing, while bytes move on.
LEMMA DeliverKeeps ==
  ASSUME TypeOK, Deliver
  PROVE  Unread' = Unread /\ said' = said /\ got' = got
<1>1. PICK n \in 1..Len(wire) :
        /\ input' = input \o SubSeq(wire, 1, n) /\ SubSeq(wire, 1, n) \in Seq(Bytes)
        /\ wire' \in Seq(Bytes) /\ wire = SubSeq(wire, 1, n) \o wire'
  BY DeliverMoves
<1> DEFINE p == SubSeq(wire, 1, n)
<1>2. /\ Buffer' = Buffer /\ Buffer \in Seq(Bytes) /\ input \in Seq(Bytes) /\ p \in Seq(Bytes)
      /\ said' = said /\ got' = got
  BY <1>1, UnreadType DEF Deliver, Buffer, TypeOK
<1>3. input' = input \o p /\ wire = p \o wire'
  BY <1>1
<1> HIDE DEF p
<1>4. Buffer \o (input \o p) = (Buffer \o input) \o p /\ Buffer \o input \in Seq(Bytes)
  BY <1>2, ConcatAssociative, ConcatProperties
<1>5. ((Buffer \o input) \o p) \o wire' = (Buffer \o input) \o (p \o wire')
  BY <1>1, <1>2, <1>4, Assoc
<1>6. QED
  BY <1>2, <1>3, <1>4, <1>5 DEF Unread

LEMMA FillKeeps ==
  ASSUME TypeOK, FillLine, state \in Waiting
  PROVE  /\ Unread' = Unread /\ said' = said /\ got' = got
         /\ Buffer = ctrlDBuffer /\ Buffer' = ctrlDBuffer'
<1>1. PICK p \in Seq(Bytes) :
        /\ ctrlDBuffer' = ctrlDBuffer \o p /\ input' \in Seq(Bytes) /\ input = p \o input'
  BY FillMoves
<1>2. /\ ctrlDBuffer \in Seq(Bytes) /\ Buffer = ctrlDBuffer /\ Buffer' = ctrlDBuffer'
      /\ said' = said /\ got' = got /\ wire' = wire
  BY DEF FillLine, Buffer, TypeOK, Waiting
<1>3. (ctrlDBuffer \o p) \o input' = ctrlDBuffer \o (p \o input')
  BY <1>1, <1>2, ConcatAssociative
<1>4. QED
  BY <1>1, <1>2, <1>3 DEF Unread

\* With a verdict on a reply, the buffer is taken from it.
LEMMA TakenCuts ==
  ASSUME TypeOK, state \in Waiting, NEW next, NEW b,
         Taken(next, b), next = "READY" \/ b = <<>>, input' = input
  PROVE  Unread = ctrlDBuffer \o Unread' /\ Buffer = ctrlDBuffer
<1>1. /\ Buffer' = <<>> /\ Buffer = ctrlDBuffer /\ wire' = wire
      /\ input \in Seq(Bytes) /\ wire \in Seq(Bytes)
  BY DEF Taken, Buffer, TypeOK, Waiting
<1>2. <<>> \o input = input
  BY <1>1, ConcatEmptySeq
<1>3. Unread' = input \o wire
  BY <1>1, <1>2 DEF Unread
<1>4. QED
  BY <1>1, <1>3, UnreadType

\* A code that was found ends a line, and the end of a reply is behind it.
LEMMA CodeFound ==
  ASSUME PlaceInv, pc = "verdict", foundReplyCode # "none"
  PROVE  /\ EndsInEol(ctrlDBuffer) /\ ctrlDBuffer \in Seq(Bytes)
         /\ \E k \in DOMAIN said :
              Before < said[k].end /\ said[k].end <= Before + Len(ctrlDBuffer)
<1> DEFINE b == ctrlDBuffer
           rest == input \o wire
<1>1. /\ EndsInEol(b) /\ CodeOf(b) # "none" /\ b \in Seq(Bytes) /\ rest \in Seq(Bytes)
      /\ state # "OVER" /\ Unread = b \o rest
  <2>1. /\ EndsInEol(b) /\ CodeOf(b) # "none" /\ state \in Waiting /\ TypeOK
    BY DEF PlaceInv
  <2>2. Buffer = b /\ state # "OVER"
    BY <2>1 DEF Waiting, Buffer
  <2>3. b \in Seq(Bytes) /\ rest \in Seq(Bytes)
    BY <2>1, ConcatProperties DEF TypeOK
  <2>4. QED
    BY <2>1, <2>2, <2>3, UnreadType
<1>2. HasCode(get_last_line(b))
  BY <1>1 DEF CodeOf
<1>3. PICK i \in 1..(Len(b) - 1) : CodeStart(b, i)
  BY <1>1, <1>2, LastLine
<1> HIDE DEF b, rest
<1> DEFINE q == Len(b) - 1
<1>4. /\ Len(b) \in Nat /\ Len(rest) \in Nat /\ Len(Unread) = Len(b) + Len(rest)
      /\ i + 3 <= Len(b) /\ EolAt(b, q)
  BY <1>1, <1>3, EolsJoined, LenProperties DEF CodeStart, EndsInEol
<1>5. i \in 1..Len(b) /\ i \in 1..Len(Unread) /\ q \in 1..Len(Unread) /\ q >= i
  BY <1>3, <1>4
<1>6. CodeStart(Unread, i)
  BY <1>1, <1>3, <1>4, <1>5, CodesJoined
<1>7. EolAt(Unread, q)
  <2>1. q \in Int /\ q < Len(b)
    BY <1>4
  <2> HIDE DEF q
  <2>2. QED
    BY <1>1, <1>4, <2>1, EolsJoined
<1>8. Ended(Unread, Before, said)
  BY <1>1 DEF PlaceInv
<1>9. PICK k \in DOMAIN said : Before + i - 1 < said[k].end /\ said[k].end <= Before + q + 1
  BY <1>5, <1>6, <1>7, <1>8 DEF Ended
<1>10. Before \in Nat /\ said[k].end \in Nat
  BY SayingTypes DEF PlaceInv, TypeOK, Saying
<1>11. Before < said[k].end /\ said[k].end <= Before + Len(b)
  BY <1>3, <1>4, <1>9, <1>10
<1>12. QED
  BY <1>1, <1>11 DEF b

-----------------------------------------------------------------------------
\* PlaceInv is inductive.

LEMMA PlaceInit == Init => PlaceInv
<1> SUFFICES ASSUME Init PROVE PlaceInv
  OBVIOUS
<1>1. TypeOK
  BY TypeInit
<1>2. Unread = <<>> /\ got = <<>> /\ said = <<>>
  BY DEF Init, Unread, Buffer
<1>3. Before = 0
  <2>1. Len(Unread) = 0
    BY <1>2
  <2>2. LastByte = 0
    BY <1>2 DEF LastByte
  <2>3. QED
    BY <2>1, <2>2 DEF Before
<1>4. Cardinality(Past(said, 0)) \in Nat
  <2>1. said \in Seq(Saying) /\ 0 \in Nat /\ 0 <= 0
    BY <1>1 DEF TypeOK, Saying
  <2>2. QED
    BY <2>1, PastGrows
<1>5. Ended(Unread, Before, said)
  BY <1>2 DEF Ended
<1>6. QED
  BY <1>1, <1>2, <1>3, <1>4, <1>5 DEF Init, PlaceInv

\* The server's replies go behind the stream.
LEMMA AskAdds ==
  ASSUME TypeOK, state = "READY", NEW next, Ask(next), next \in Waiting
  PROVE  /\ \A r \in All : Says(r) =>
              /\ wire' = wire \o r.bytes
              /\ Unread' = Unread \o r.bytes /\ said' = Append(said, Said(said, r))
         /\ \A r, again \in All : SaysBoth(r, again) => \E ss :
              /\ wire' = (wire \o r.bytes) \o again.bytes
              /\ Unread' = (Unread \o r.bytes) \o again.bytes
              /\ ss = Append(said, Said(said, r)) /\ said' = Append(ss, Said(ss, again))
<1>1. said \in Seq(Saying)
  BY DEF TypeOK, Saying
<1>2. Unread = input \o wire /\ input \in Seq(Bytes) /\ wire \in Seq(Bytes)
  <2>1. Buffer = <<>> /\ input \in Seq(Bytes) /\ wire \in Seq(Bytes)
    BY DEF Buffer, TypeOK
  <2>2. QED
    BY <2>1, ConcatEmptySeq DEF Unread
<1>3. Unread' = input \o wire'
  <2>1. Buffer' = <<>> /\ input' = input
    BY DEF Ask, Buffer, Waiting
  <2>2. QED
    BY <1>2, <2>1, ConcatEmptySeq DEF Unread
<1>4. LastByte = EndOf(said)
  BY <1>1, SayingTypes DEF LastByte, EndOf
<1>5. ASSUME NEW r \in All, Says(r)
      PROVE  /\ wire' = wire \o r.bytes
             /\ Unread' = Unread \o r.bytes /\ said' = Append(said, Said(said, r))
  <2>1. wire' = wire \o r.bytes /\ said' = Append(said, Said(said, r))
    BY <1>4, <1>5, SaysOne DEF Said
  <2>2. Unread' = Unread \o r.bytes
    <3>1. r.bytes \in Seq(Bytes)
      BY AllReplies
    <3>2. (input \o wire) \o r.bytes = input \o (wire \o r.bytes)
      BY <1>2, <3>1, Assoc
    <3>3. QED
      BY <1>2, <1>3, <2>1, <3>2
  <2>3. QED
    BY <2>1, <2>2
<1>6. ASSUME NEW r \in All, NEW again \in All, SaysBoth(r, again)
      PROVE  \E ss : /\ wire' = (wire \o r.bytes) \o again.bytes
                     /\ Unread' = (Unread \o r.bytes) \o again.bytes
                     /\ ss = Append(said, Said(said, r)) /\ said' = Append(ss, Said(ss, again))
  <2> DEFINE ss == Append(said, Said(said, r))
             s == Unread \o r.bytes
             w == wire \o r.bytes
  <2>1. EndOf(ss) = EndOf(said) + Len(r.bytes)
    BY <1>1, SaidLast
  <2>2. wire' = w \o again.bytes /\ said' = Append(ss, Said(ss, again))
    <3>1. /\ wire' = w \o again.bytes
          /\ said' = Append(ss, [code |-> again.code,
                                 end |-> LastByte + Len(r.bytes) + Len(again.bytes)])
      BY <1>4, <1>6, SaysTwo DEF Said
    <3> HIDE DEF ss, w
    <3>2. QED
      BY <1>4, <2>1, <3>1 DEF Said
  <2>3. w \in Seq(Bytes) /\ again.bytes \in Seq(Bytes) /\ s = input \o w
    <3>1. r.bytes \in Seq(Bytes) /\ again.bytes \in Seq(Bytes)
      BY AllReplies
    <3>2. QED
      BY <1>2, <3>1, Assoc
  <2> HIDE DEF s, ss, w
  <2>4. Unread' = s \o again.bytes
    <3>1. (input \o w) \o again.bytes = input \o (w \o again.bytes)
      BY <1>2, <2>3, Assoc
    <3>2. QED
      BY <1>3, <2>2, <2>3, <3>1
  <2>5. QED
    BY <2>2, <2>4 DEF s, ss, w
<1>7. QED
  BY <1>5, <1>6

LEMMA StreamSaid ==
  ASSUME PlaceInv, state = "READY", NEW next, Ask(next), next \in Waiting,
         \/ \E r \in All : Says(r)
         \/ \E r, again \in All : SaysBoth(r, again)
  PROVE  Stream(Unread', Before, said') /\ Longer(said, said')
<1>1. TypeOK /\ said \in Seq(Saying) /\ Before \in Nat
  BY DEF PlaceInv, TypeOK, Saying
<1>2. Stream(Unread, Before, said)
  <2>1. LastByte = EndOf(said) /\ LastByte \in Nat
    BY <1>1, SayingTypes DEF LastByte, EndOf
  <2>2. Unread \in Seq(Bytes) /\ Len(Unread) \in Nat
    BY <1>1, UnreadType, LenProperties
  <2>3. EndOf(said) = Before + Len(Unread)
    BY <2>1, <2>2 DEF Before
  <2>4. QED
    BY <1>1, <2>1, <2>2, <2>3 DEF PlaceInv, Stream
<1>3. ASSUME NEW r \in All, Says(r) PROVE Stream(Unread', Before, said') /\ Longer(said, said')
  <2>1. Unread' = Unread \o r.bytes /\ said' = Append(said, Said(said, r))
    BY <1>1, <1>3, AskAdds
  <2>2. QED
    BY <1>2, <2>1, OneMore
<1>4. ASSUME NEW r \in All, NEW again \in All, SaysBoth(r, again)
      PROVE  Stream(Unread', Before, said') /\ Longer(said, said')
  <2>1. PICK ss : /\ wire' = (wire \o r.bytes) \o again.bytes
                  /\ Unread' = (Unread \o r.bytes) \o again.bytes
                  /\ ss = Append(said, Said(said, r)) /\ said' = Append(ss, Said(ss, again))
    BY <1>1, <1>4, AskAdds
  <2> DEFINE s == Unread \o r.bytes
  <2>2. Stream(s, Before, ss) /\ Longer(said, ss)
    BY <1>2, <2>1, OneMore
  <2>3. Unread' = s \o again.bytes
    BY <2>1
  <2> HIDE DEF s
  <2>4. Stream(Unread', Before, said') /\ Longer(ss, said')
    BY <2>1, <2>2, <2>3, OneMore
  <2>5. \A n \in Nat : /\ Cardinality(Past(said, n)) \in Nat /\ Cardinality(Past(ss, n)) \in Nat
                       /\ Cardinality(Past(said', n)) \in Nat
    <3>1. ss \in Seq(Saying) /\ said' \in Seq(Saying)
      BY <2>2, <2>4 DEF Stream
    <3>2. \A n \in Nat : n <= n
      OBVIOUS
    <3>3. QED
      BY <1>1, <3>1, <3>2, PastGrows
  <2>6. Longer(said, said')
    <3>1. DOMAIN said \subseteq DOMAIN said' /\ \A k \in DOMAIN said : said'[k] = said[k]
      BY <2>2, <2>4 DEF Longer
    <3>2. ASSUME NEW n \in Nat
          PROVE  Cardinality(Past(said, n)) <= Cardinality(Past(said', n))
      <4>1. /\ Cardinality(Past(said, n)) <= Cardinality(Past(ss, n))
            /\ Cardinality(Past(ss, n)) <= Cardinality(Past(said', n))
        BY <2>2, <2>4 DEF Longer
      <4>2. QED
        BY <2>5, <4>1
    <3>3. QED
      BY <3>1, <3>2 DEF Longer
  <2>7. QED
    BY <2>4, <2>6
<1>5. QED
  BY <1>3, <1>4

LEMMA PlaceSaid ==
  ASSUME PlaceInv, TypeOK', state = "READY", NEW next, Ask(next), next \in Waiting,
         \/ \E r \in All : Says(r)
         \/ \E r, again \in All : SaysBoth(r, again)
  PROVE  PlaceInv' /\ Before' = Before
<1>1. Stream(Unread', Before, said') /\ Longer(said, said')
  BY StreamSaid
<1>2. got' = got /\ pc' = "wait" /\ state' # "OVER"
  BY DEF Ask, Waiting
<1>3. Before' = Before
  <2>1. LastByte' = EndOf(said')
    BY DEF LastByte, EndOf
  <2>2. EndOf(said') = Before + Len(Unread') /\ Before \in Nat /\ Len(Unread') \in Nat
    BY <1>1, LenProperties DEF Stream
  <2>3. Before' = EndOf(said') - Len(Unread')
    BY <2>1 DEF Before
  <2>4. QED
    BY <2>2, <2>3
<1>4. Len(got') <= Cardinality(Past(said', Before'))
  <2>1. Before \in Nat /\ Len(got) \in Nat /\ Len(got) <= Cardinality(Past(said, Before))
    BY LenProperties DEF PlaceInv, TypeOK
  <2>2. Cardinality(Past(said, Before)) <= Cardinality(Past(said', Before))
    BY <1>1, <2>1 DEF Longer
  <2>3. Cardinality(Past(said, Before)) \in Nat /\ Cardinality(Past(said', Before)) \in Nat
    <3>1. said \in Seq(Saying) /\ said' \in Seq(Saying)
      BY <1>1 DEF Stream, PlaceInv, TypeOK, Saying
    <3>2. QED
      BY <2>1, <3>1, PastGrows
  <2>4. QED
    BY <1>2, <1>3, <2>1, <2>2, <2>3
<1>5. QED
  BY <1>1, <1>2, <1>3, <1>4 DEF PlaceInv, Stream

\* While bytes move on, or nothing happens, the stream is as it was.
LEMMA PlaceKept ==
  ASSUME PlaceInv, TypeOK', Unread' = Unread, said' = said, got' = got,
         state' = "OVER" \/ state # "OVER", pc' # "wait" => state' \in Waiting,
         pc' = "verdict" /\ foundReplyCode' # "none" =>
           EndsInEol(ctrlDBuffer') /\ CodeOf(ctrlDBuffer') = foundReplyCode'
  PROVE  PlaceInv' /\ Before' = Before
<1>1. Before' = Before
  BY DEF Before, LastByte
<1>2. QED
  BY <1>1 DEF PlaceInv

\* A verdict on a reply: what was taken ends behind one more reply.
LEMMA PlaceTaken ==
  ASSUME PlaceInv, TypeOK', pc = "verdict", NEW next, NEW b, Taken(next, b), pc' # "verdict",
         pc' # "wait" => state' \in Waiting,
         NEW p \in Seq(Bytes), Unread = p \o Unread', Len(p) >= Len(ctrlDBuffer),
         state' = "OVER" \/ p = ctrlDBuffer
  PROVE  PlaceInv'
<1>1. /\ said' = said /\ got' = Append(got, foundReplyCode) /\ foundReplyCode # "none"
      /\ TypeOK /\ state # "OVER" /\ Before \in Nat
      /\ Len(got) <= Cardinality(Past(said, Before))
  BY DEF Taken, PlaceInv, Waiting
<1>2. Len(got') = Len(got) + 1 /\ Len(got) \in Nat
  BY <1>1, AppendProperties, LenProperties DEF TypeOK
<1>3. /\ Before' = Before + Len(p) /\ Before' \in Nat
      /\ state # "OVER" /\ (p = <<>> \/ EndsInEol(p)) => Ended(Unread', Before', said')
  BY <1>1, StreamCut
<1>4. /\ EndsInEol(ctrlDBuffer) /\ ctrlDBuffer \in Seq(Bytes)
      /\ \E k \in DOMAIN said : Before < said[k].end /\ said[k].end <= Before + Len(ctrlDBuffer)
  BY <1>1, CodeFound
<1>5. \E k \in DOMAIN said : Before < said[k].end /\ said[k].end <= Before'
  <2>1. PICK k \in DOMAIN said :
          Before < said[k].end /\ said[k].end <= Before + Len(ctrlDBuffer)
    BY <1>4
  <2>2. said[k].end \in Nat /\ Len(ctrlDBuffer) \in Nat /\ Len(p) \in Nat
    BY <1>1, <1>4, SayingTypes, LenProperties DEF TypeOK, Saying
  <2>3. said[k].end <= Before'
    BY <1>1, <1>3, <2>1, <2>2
  <2>4. QED
    BY <2>1, <2>3
<1>6. Len(got') <= Cardinality(Past(said', Before'))
  <2>1. /\ Cardinality(Past(said, Before)) \in Nat /\ Cardinality(Past(said, Before')) \in Nat
        /\ Cardinality(Past(said, Before)) + 1 <= Cardinality(Past(said, Before'))
    <3>1. Before <= Before' /\ said \in Seq(Saying)
      BY <1>1, <1>3, LenProperties DEF TypeOK, Saying
    <3>2. QED
      BY <1>1, <1>3, <1>5, <3>1, PastGrows
  <2>2. QED
    BY <1>1, <1>2, <2>1
<1>7. QED
  BY <1>1, <1>3, <1>4, <1>6 DEF PlaceInv

LEMMA PlaceStep ==
  ASSUME PlaceInv, [Next]_vars
  PROVE  PlaceInv'
<1>1. TypeOK /\ TypeOK'
  BY TypeStep DEF PlaceInv
<1>2. CASE AskReply
  <2>1. \/ \E r \in All : Says(r)
        \/ \E r, again \in All : SaysBoth(r, again)
    BY <1>2 DEF AskReply, All
  <2>2. Ask("REPLY_SENT") /\ state = "READY" /\ "REPLY_SENT" \in Waiting
    BY <1>2 DEF AskReply, Ask, Waiting
  <2>3. QED
    BY <1>1, <2>1, <2>2, PlaceSaid
<1>3. CASE AskList
  <2>1. \/ \E r \in All : Says(r)
        \/ \E r, again \in All : SaysBoth(r, again)
    BY <1>3 DEF AskList, All
  <2>2. Ask("LIST_SENT") /\ state = "READY" /\ "LIST_SENT" \in Waiting
    BY <1>3 DEF AskList, Ask, Waiting
  <2>3. QED
    BY <1>1, <2>1, <2>2, PlaceSaid
<1>4. CASE Deliver
  <2>1. Unread' = Unread /\ said' = said /\ got' = got
    BY <1>1, <1>4, DeliverKeeps
  <2>2. state' = state /\ state \in Waiting /\ pc' = "fill"
    BY <1>4 DEF Deliver
  <2>3. QED
    BY <1>1, <2>1, <2>2, PlaceKept DEF Waiting
<1>5. CASE FillLine
  <2>1. state \in Waiting /\ state' = state
    BY <1>5 DEF FillLine, PlaceInv
  <2>2. Unread' = Unread /\ said' = said /\ got' = got
    BY <1>1, <1>5, <2>1, FillKeeps
  <2>3. ASSUME foundReplyCode' # "none"
        PROVE  EndsInEol(ctrlDBuffer') /\ CodeOf(ctrlDBuffer') = foundReplyCode'
    <3>1. PICK p \in Seq(Bytes) :
            /\ ctrlDBuffer' = ctrlDBuffer \o p
            /\ p = SubSeq(input, 1, Filled(input)) /\ Len(p) = Filled(input)
            /\ input = p \o input' /\ input' \in Seq(Bytes)
      BY <1>1, <1>5, FillMoves
    <3>2. EolsSeen(input) # {} /\ CodeOf(ctrlDBuffer') = foundReplyCode'
      BY <1>5, <2>3, <3>1 DEF FillLine
    <3>3. /\ ctrlDBuffer \in Seq(Bytes) /\ input \in Seq(Bytes)
          /\ Len(p) >= 2 /\ EolAt(input, Len(p) - 1) /\ Len(p) \in Nat
      BY <1>1, <3>1, <3>2, FilledMoves, LenProperties DEF TypeOK
    <3>4. EndsInEol(ctrlDBuffer')
      BY <3>1, <3>3, EolMoved
    <3>5. QED
      BY <3>2, <3>4
  <2>4. QED
    BY <1>1, <2>1, <2>2, <2>3, PlaceKept DEF Waiting
<1>6. CASE VerdictIncomplete \/ ReadTimeout \/ UNCHANGED vars
  <2>1. Unread' = Unread /\ said' = said /\ got' = got
    BY <1>6 DEF VerdictIncomplete, ReadTimeout, vars, Unread, Buffer, Waiting
  <2>2. /\ state' = "OVER" \/ state # "OVER" \/ UNCHANGED vars
        /\ pc' = "wait" \/ UNCHANGED vars
    BY <1>6 DEF VerdictIncomplete, ReadTimeout, PlaceInv, Waiting
  <2>3. CASE UNCHANGED vars
    BY <2>3, <1>1 DEF vars, PlaceInv, Before, Unread, Buffer, LastByte
  <2>4. CASE ~UNCHANGED vars
    BY <1>1, <2>1, <2>2, <2>4, PlaceKept
  <2>5. QED
    BY <2>3, <2>4
<1>7. ASSUME pc = "verdict" PROVE state \in Waiting /\ state # "OVER" /\ state # "READY"
  BY <1>7 DEF PlaceInv, Waiting
<1>8. ctrlDBuffer \in Seq(Bytes) /\ input \in Seq(Bytes) /\ wire \in Seq(Bytes)
  BY <1>1 DEF TypeOK
<1>9. CASE VerdictFinal \/ VerdictRefused \/ VerdictAnnounced
  <2>1. PICK next, b : /\ Taken(next, b) /\ input' = input
                       /\ next = "READY" \/ b = <<>>
                       /\ pc' = "wait" \/ (pc' = "fill" /\ next = "LIST_XFER")
    BY <1>9 DEF VerdictFinal, VerdictRefused, VerdictAnnounced
  <2>2. pc = "verdict" /\ state' = next
    BY <2>1 DEF Taken
  <2>3. Unread = ctrlDBuffer \o Unread'
    BY <1>1, <1>7, <2>1, <2>2, TakenCuts
  <2>4. pc' # "verdict" /\ (pc' # "wait" => state' \in Waiting)
    BY <2>1, <2>2 DEF Waiting
  <2>5. Len(ctrlDBuffer) >= Len(ctrlDBuffer)
    BY <1>8, LenProperties
  <2>6. QED
    BY <1>1, <1>8, <2>1, <2>2, <2>3, <2>4, <2>5, PlaceTaken
<1>10. CASE VerdictExtra
  <2>1. /\ Taken("OVER", <<>>) /\ pc' = "wait" /\ input' = <<>> /\ pc = "verdict"
        /\ state' = "OVER" /\ wire' = wire
    BY <1>10 DEF VerdictExtra, Taken
  <2>2. Unread = (ctrlDBuffer \o input) \o Unread'
    <3>1. Unread = (ctrlDBuffer \o input) \o wire
      BY <1>7, <2>1 DEF Unread, Buffer
    <3>2. Unread' = wire
      BY <1>8, <2>1, ConcatEmptySeq DEF Unread, Buffer, Taken
    <3>3. QED
      BY <3>1, <3>2
  <2>3. /\ ctrlDBuffer \o input \in Seq(Bytes)
        /\ Len(ctrlDBuffer \o input) >= Len(ctrlDBuffer)
    BY <1>8, ConcatProperties, LenProperties
  <2>4. QED
    BY <1>1, <2>1, <2>2, <2>3, PlaceTaken
<1>11. CASE VerdictError
  <2>1. /\ pc' = "wait" /\ state' = "OVER" /\ ctrlDBuffer' = <<>> /\ pc = "verdict"
        /\ wire' = wire /\ input' = input /\ said' = said /\ got' = got
    BY <1>11 DEF VerdictError
  <2>2. Unread = ctrlDBuffer \o Unread'
    <3>1. Unread' = input \o wire
      BY <1>8, <2>1, ConcatEmptySeq DEF Unread, Buffer
    <3>2. Buffer = ctrlDBuffer
      BY <1>7, <2>1 DEF Buffer
    <3>3. QED
      BY <1>1, <3>1, <3>2, UnreadType
  <2>3. /\ Before' \in Nat
        /\ Cardinality(Past(said, Before)) <= Cardinality(Past(said, Before'))
    BY <1>1, <1>8, <2>1, <2>2, StreamCut
  <2>4. Len(got') <= Cardinality(Past(said', Before'))
    <3>1. /\ Len(got) \in Nat /\ Len(got) <= Cardinality(Past(said, Before))
          /\ Before \in Nat /\ said \in Seq(Saying)
      BY <1>1, LenProperties DEF PlaceInv, TypeOK, Saying
    <3>2. /\ Cardinality(Past(said, Before)) \in Nat
          /\ Cardinality(Past(said, Before')) \in Nat
      <4>1. Before <= Before /\ Before' <= Before'
        BY <2>3, <3>1
      <4>2. QED
        BY <2>3, <3>1, <4>1, PastGrows
    <3>3. QED
      BY <2>1, <2>3, <3>1, <3>2
  <2>5. QED
    BY <1>1, <2>1, <2>3, <2>4 DEF PlaceInv
<1>12. QED
  BY <1>2, <1>3, <1>4, <1>5, <1>6, <1>9, <1>10, <1>11 DEF Next, Verdict

\* The places where replies are taken.
THEOREM ReplyPlaces == Spec => []PlaceInv
<1>1. PlaceInv /\ [Next]_vars => PlaceInv'
  BY PlaceStep
<1>2. QED
  BY <1>1, PlaceInit, PTL DEF Spec

\* Handlers act on no more codes than complete replies have arrived, in whatever
\* pieces they come and wherever lines are cut (parse_response, get_last_line).
THEOREM NoneBeforeItsEnd == Spec => []NotBeforeItsEnd
<1>1. PlaceInv => NotBeforeItsEnd
  <2> SUFFICES ASSUME PlaceInv PROVE NotBeforeItsEnd
    OBVIOUS
  <2>1. TypeOK /\ said \in Seq(Saying) /\ Before \in Nat
    BY DEF PlaceInv, TypeOK, Saying
  <2>2. LastByte \in Nat /\ Len(wire) \in Nat /\ Len(Unread) \in Nat /\ Len(wire) <= Len(Unread)
    BY <2>1, LastByteType, UnreadType, LenProperties
  <2>3. Delivered \in Nat /\ Before <= Delivered
    BY <2>1, <2>2 DEF Delivered, Before
  <2>4. Arrived = Cardinality(Past(said, Delivered))
    BY DEF Arrived, Past
  <2>5. /\ Cardinality(Past(said, Before)) <= Cardinality(Past(said, Delivered))
        /\ Cardinality(Past(said, Before)) \in Nat
        /\ Cardinality(Past(said, Delivered)) \in Nat
    BY <2>1, <2>3, PastGrows
  <2>6. Len(got) \in Nat /\ Len(got) <= Cardinality(Past(said, Before))
    BY <2>1, LenProperties DEF PlaceInv, TypeOK
  <2>7. QED
    BY <2>4, <2>5, <2>6 DEF NotBeforeItsEnd
<1>2. QED
  BY <1>1, ReplyPlaces, PTL

-----------------------------------------------------------------------------
\* Replies in order, as long as no CR LF is cut in two.

EndAt(ss, n) == IF n = 0 THEN 0 ELSE ss[n].end

\* s holds, behind b bytes, every reply of ss but the first g.
Whole(s, b, ss, g) ==
  \A k \in (g + 1)..Len(ss) : \E r \in All :
    /\ r.code = ss[k].code /\ ss[k].end = EndAt(ss, k - 1) + Len(r.bytes)
    /\ \A j \in 1..Len(r.bytes) : s[EndAt(ss, k - 1) - b + j] = r.bytes[j]

Mono(ss) == \A j, k \in DOMAIN ss : j <= k => ss[j].end <= ss[k].end

Uncoded(b) == \A i, q \in 1..Len(b) : ~(CodeStart(b, i) /\ EolAt(b, q) /\ q >= i)

\* No CR LF lies across the edge of a buffer.
Uncut == ~EolAt(input \o wire, Len(input)) /\ ~EolAt(Unread, Len(Buffer))

\* A line has one code, at its beginning.
LEMMA OneCode ==
  ASSUME NEW b \in Seq(Bytes), OnlyLastCoded(b),
         NEW i \in 1..Len(b), NEW j \in 1..Len(b), CodeStart(b, i), CodeStart(b, j), i < j
  PROVE  FALSE
<1>1. Len(b) \in Nat /\ j + 3 <= Len(b)
  BY LenProperties DEF CodeStart
<1>2. EolAt(b, j - 2) /\ j - 2 > 0
  BY DEF CodeStart, LineStart, EolAt
<1>3. j - 2 # i - 1
  <2>1. b[i] # LF
    BY DEF CodeStart, LF, Digits
  <2>2. b[j - 2 + 1] = LF
    BY <1>2 DEF EolAt
  <2>3. QED
    BY <2>1, <2>2
<1>4. j - 2 \in 1..Len(b) /\ j - 2 >= i
  BY <1>1, <1>2, <1>3
<1>5. j - 2 = Len(b) - 1
  <2> DEFINE q == j - 2
  <2>1. q \in 1..Len(b) /\ q >= i /\ EolAt(b, q)
    BY <1>2, <1>4
  <2> HIDE DEF q
  <2>2. q = Len(b) - 1
    BY <2>1 DEF OnlyLastCoded
  <2>3. QED
    BY <2>2 DEF q
<1>6. QED
  BY <1>1, <1>5

\* The end of a line behind a code lies behind all of it.
LEMMA EolBehind ==
  ASSUME NEW b, NEW i \in Int, NEW q \in Int, CodeStart(b, i), EolAt(b, q), q >= i
  PROVE  q > i + 3
<1>1. b[q] = CR
  BY DEF EolAt
<1>2. b[i] # CR /\ b[i + 1] # CR /\ b[i + 2] # CR /\ b[i + 3] # CR
  BY DEF CodeStart, CR, SP, Digits
<1>3. QED
  BY <1>1, <1>2

\* get_last_line finds the code that OnlyLastCoded allows.
LEMMA CodedLine ==
  ASSUME NEW b \in Seq(Bytes), EndsInEol(b), OnlyLastCoded(b),
         NEW i \in 1..Len(b), CodeStart(b, i)
  PROVE  CodeOf(b) = b[i]
<1> DEFINE end == Len(b) - 2
           starts == {y \in 2..end : EolAt(b, y - 1)}
           m == IF starts = {} THEN 0 ELSE Max(starts)
           line == SubSeq(b, m + 1, Len(b))
<1>1. Len(b) \in Nat /\ i + 3 <= Len(b)
  BY LenProperties DEF CodeStart
<1>2. i + 3 < Len(b) - 1
  <2>1. EolAt(b, Len(b) - 1) /\ Len(b) - 1 >= i
    BY <1>1 DEF EndsInEol
  <2>2. QED
    BY <1>1, <2>1, EolBehind
<1>3. get_last_line(b) = line
  BY DEF get_last_line
<1>4. ASSUME NEW y \in starts PROVE y <= i - 1
  <2>1. y \in 2..end /\ EolAt(b, y - 1)
    OBVIOUS
  <2>2. y # i
    BY <2>1 DEF EolAt, CodeStart, LF, Digits
  <2>3. CASE y > i
    <3> DEFINE q == y - 1
    <3>1. q \in 1..Len(b) /\ q >= i /\ EolAt(b, q) /\ q # Len(b) - 1
      BY <1>1, <2>1, <2>3
    <3> HIDE DEF q
    <3>2. QED
      BY <3>1 DEF OnlyLastCoded
  <2>4. QED
    BY <1>1, <2>1, <2>2, <2>3
<1>5. m = i - 1
  <2>1. CASE i = 1
    <3>1. starts = {}
      <4>1. \A y \in starts : y \in 2..end /\ y <= 0
        BY <1>4, <2>1
      <4>2. QED
        BY <1>1, <4>1
    <3> HIDE DEF starts
    <3>2. QED
      BY <2>1, <3>1
  <2>2. CASE i # 1
    <3>1. EolAt(b, i - 2) /\ i - 2 > 0
      BY <2>2 DEF CodeStart, LineStart, EolAt
    <3>2. i - 1 \in 2..end /\ i - 1 - 1 = i - 2
      BY <1>1, <1>2, <3>1
    <3>3. i - 1 \in starts
      BY <3>1, <3>2
    <3>4. end \in Nat
      BY <1>1, <1>2
    <3>5. \A y \in starts : y \in 2..end /\ y <= i - 1
      BY <1>4
    <3> HIDE DEF starts, end
    <3>6. starts \in SUBSET (0..end) /\ starts # {}
      BY <3>3, <3>4, <3>5
    <3>7. Max(starts) \in starts /\ Max(starts) >= i - 1
      BY <3>3, <3>4, <3>6, MaxOfNats
    <3>8. Max(starts) <= i - 1 /\ Max(starts) \in 2..end
      BY <3>5, <3>7
    <3>9. QED
      BY <1>1, <3>4, <3>6, <3>7, <3>8
  <2>3. QED
    BY <2>1, <2>2
<1> HIDE DEF m
<1>6. /\ Len(line) = Len(b) - i + 1
      /\ \A j \in 1..(Len(b) - i + 1) : line[j] = b[i + j - 1]
  <2>1. m + 1 = i /\ \A j \in i..Len(b) : b[j] \in Bytes
    BY <1>1, <1>5, ElementOfSeq
  <2>2. QED
    BY <1>1, <2>1, SubSeqProperties
<1> HIDE DEF line
<1>7. Len(line) >= 4 /\ line[1] = b[i] /\ line[2] = b[i + 1] /\ line[3] = b[i + 2]
      /\ line[4] = b[i + 3]
  <2>1. {1, 2, 3, 4} \subseteq 1..(Len(b) - i + 1) /\ Len(line) >= 4
    BY <1>1, <1>6
  <2>2. line[1] = b[i + 1 - 1] /\ line[2] = b[i + 2 - 1] /\ line[3] = b[i + 3 - 1]
        /\ line[4] = b[i + 4 - 1]
    BY <1>6, <2>1
  <2>3. i + 1 - 1 = i /\ i + 2 - 1 = i + 1 /\ i + 3 - 1 = i + 2 /\ i + 4 - 1 = i + 3
    BY <1>1
  <2>4. QED
    BY <2>1, <2>2, <2>3
<1>8. HasCode(line)
  <2>1. \A j \in 1..3 : j = 1 \/ j = 2 \/ j = 3
    OBVIOUS
  <2>2. line[1] \in Digits /\ line[2] \in Digits /\ line[3] \in Digits /\ line[4] = SP
    BY <1>7 DEF CodeStart
  <2>3. QED
    BY <1>7, <2>1, <2>2 DEF HasCode
<1>9. QED
  BY <1>3, <1>7, <1>8 DEF CodeOf

\* What begins with a reply begins with its code, or is a verdict's error.
LEMMA HeadKnown ==
  ASSUME NEW r \in All, NEW x \in Seq(Bytes), NEW b, b = r.bytes \o x
  PROVE  \/ Len(b) > MAX_CTRL_AMT \/ ~DBuffer_is_string(b)
         \/ \E i \in 1..Len(b) : /\ CodeStart(b, i) /\ b[i] = r.code
                                 /\ Len(r.bytes) - 1 \in 1..Len(b)
                                 /\ Len(r.bytes) - 1 >= i /\ EolAt(b, Len(r.bytes) - 1)
<1> DEFINE t == r.bytes
<1>1. /\ t \in Seq(Bytes) /\ Len(t) \in Nat /\ Len(x) \in Nat
      /\ b \in Seq(Bytes) /\ Len(b) = Len(t) + Len(x)
      /\ \A i \in 1..Len(t) : b[i] = t[i]
  BY AllReplies, EolsJoined, LenProperties
<1>2. CASE r \in Nonsense
  <2>1. Len(t) > MAX_CTRL_AMT \/ ~DBuffer_is_string(t)
    BY <1>2, ReplyParserAssumption DEF IsNonsense
  <2>2. CASE Len(t) > MAX_CTRL_AMT
    <3>1. MAX_CTRL_AMT \in Nat
      BY ReplyParserAssumption
    <3> HIDE DEF t
    <3>2. QED
      BY <1>1, <2>2, <3>1
  <2>3. CASE ~DBuffer_is_string(t)
    <3> HIDE DEF t
    <3>1. PICK i \in 1..Len(t) : t[i] = NUL
      BY <2>3 DEF DBuffer_is_string
    <3>2. i \in 1..Len(b) /\ b[i] = NUL
      BY <1>1, <3>1
    <3>3. QED
      BY <3>2 DEF DBuffer_is_string
  <2>4. QED
    BY <2>1, <2>2, <2>3
<1>3. CASE r \notin Nonsense
  <2>1. IsReply(r)
    BY <1>3, ReplyParserAssumption DEF All
  <2>2. PICK i \in 1..Len(t) : CodeStart(t, i) /\ t[i] = r.code
    BY <2>1 DEF IsReply
  <2>3. EndsInEol(t)
    BY <2>1 DEF IsReply
  <2>a. b = t \o x
    OBVIOUS
  <2> HIDE DEF t
  <2> DEFINE q == Len(t) - 1
  <2>4. /\ i + 3 <= Len(t) /\ i \in 1..Len(b) /\ b[i] = r.code /\ EolAt(t, q)
        /\ q \in 1..Len(b) /\ q >= i /\ q < Len(t)
    BY <1>1, <2>2, <2>3 DEF CodeStart, EndsInEol
  <2>5. CodeStart(b, i)
    BY <1>1, <2>a, <2>2, <2>4, CodesJoined
  <2> HIDE DEF q
  <2>6. EolAt(b, q)
    BY <1>1, <2>a, <2>4, EolsJoined
  <2>7. QED
    BY <2>4, <2>5, <2>6 DEF q, t
<1>4. QED
  BY <1>2, <1>3

\* A sequence that has the bytes of another at its beginning begins with it.
LEMMA Beginning ==
  ASSUME NEW b \in Seq(Bytes), NEW r \in Seq(Bytes),
         Len(r) <= Len(b), \A j \in 1..Len(r) : b[j] = r[j]
  PROVE  \E y \in Seq(Bytes) : b = r \o y
<1> DEFINE y == SubSeq(b, Len(r) + 1, Len(b))
           z == SubSeq(b, 1, Len(r))
<1>1. Len(r) \in Nat /\ Len(b) \in Nat
  BY LenProperties
<1>2. y \in Seq(Bytes)
  <2>1. \A j \in (Len(r) + 1)..Len(b) : b[j] \in Bytes
    BY <1>1, ElementOfSeq
  <2>2. QED
    BY <1>1, <2>1, SubSeqProperties
<1>3. /\ z \in Seq(Bytes) /\ Len(z) = Len(r)
      /\ \A j \in 1..Len(r) : z[j] = b[j]
  <2>1. \A j \in 1..Len(r) : b[j] \in Bytes
    BY <1>1, ElementOfSeq
  <2>2. /\ z \in Seq(Bytes) /\ Len(z) = Len(r)
        /\ \A j \in 1..(Len(r) - 1 + 1) : z[j] = b[1 + j - 1]
    BY <1>1, <2>1, SubSeqProperties
  <2> HIDE DEF z
  <2>3. QED
    BY <1>1, <2>2
<1>4. b = z \o y
  <2>1. 1 \in 1..(Len(b) + 1) /\ Len(r) \in (1 - 1)..Len(b) /\ Len(b) \in Len(r)..Len(b)
    BY <1>1
  <2>2. z \o y = SubSeq(b, 1, Len(b))
    BY <2>1, ConcatAdjacentSubSeq
  <2>3. QED
    BY <2>2, SubSeqFull
<1> HIDE DEF y, z
<1>5. z = r
  BY <1>3, SeqEqual
<1>6. QED
  BY <1>2, <1>4, <1>5

\* Replies end one behind the other.
LEMMA EndsOrdered ==
  ASSUME NEW ss \in Seq(Saying), Mono(ss)
  PROVE  /\ \A n \in 0..Len(ss) : EndAt(ss, n) \in Nat
         /\ \A m, n \in 0..Len(ss) : m <= n => EndAt(ss, m) <= EndAt(ss, n)
         /\ EndAt(ss, Len(ss)) = EndOf(ss)
<1>1. /\ Len(ss) \in Nat /\ DOMAIN ss = 1..Len(ss)
      /\ \A k \in DOMAIN ss : ss[k].end \in Nat
      /\ ss = <<>> <=> Len(ss) = 0
  BY SayingTypes, EmptySeq
<1>2. \A n \in 0..Len(ss) : n = 0 \/ n \in DOMAIN ss
  BY <1>1
<1>3. \A n \in 0..Len(ss) : EndAt(ss, n) \in Nat
  BY <1>1, <1>2 DEF EndAt
<1>4. ASSUME NEW m \in 0..Len(ss), NEW n \in 0..Len(ss), m <= n
      PROVE  EndAt(ss, m) <= EndAt(ss, n)
  <2>1. CASE m = 0
    <3>1. EndAt(ss, m) = 0 /\ EndAt(ss, n) \in Nat
      BY <1>3, <2>1 DEF EndAt
    <3>2. QED
      BY <3>1
  <2>2. CASE m # 0
    <3>1. m \in DOMAIN ss /\ n \in DOMAIN ss /\ n # 0
      BY <1>1, <1>4, <2>2
    <3>2. ss[m].end <= ss[n].end
      BY <1>4, <3>1 DEF Mono
    <3>3. QED
      BY <2>2, <3>1, <3>2 DEF EndAt
  <2>3. QED
    BY <2>1, <2>2
<1>5. EndAt(ss, Len(ss)) = EndOf(ss)
  BY <1>1 DEF EndAt, EndOf
<1>6. QED
  BY <1>3, <1>4, <1>5

\* s, behind b bytes, is what remains of ss when g replies were acted on.
Left(s, b, ss, g) ==
  /\ s \in Seq(Bytes) /\ b \in Nat /\ ss \in Seq(Saying) /\ Mono(ss)
  /\ EndOf(ss) = b + Len(s) /\ g \in 0..Len(ss) /\ b = EndAt(ss, g) /\ Whole(s, b, ss, g)

\* Where the replies lie in what remains.
LEMMA InLeft ==
  ASSUME NEW s, NEW b, NEW ss, NEW g, Left(s, b, ss, g), NEW k \in (g + 1)..Len(ss)
  PROVE  /\ k \in DOMAIN ss /\ k - 1 \in 0..Len(ss)
         /\ EndAt(ss, k - 1) \in Nat /\ b <= EndAt(ss, k - 1)
         /\ ss[k].end <= b + Len(s)
         /\ \E r \in All :
              /\ r.code = ss[k].code /\ ss[k].end = EndAt(ss, k - 1) + Len(r.bytes)
              /\ \A j \in 1..Len(r.bytes) : s[EndAt(ss, k - 1) - b + j] = r.bytes[j]
<1>1. /\ s \in Seq(Bytes) /\ b \in Nat /\ ss \in Seq(Saying) /\ Mono(ss)
      /\ EndOf(ss) = b + Len(s) /\ g \in 0..Len(ss) /\ b = EndAt(ss, g) /\ Whole(s, b, ss, g)
  BY DEF Left
<1>2. Len(ss) \in Nat /\ DOMAIN ss = 1..Len(ss)
  BY <1>1, SayingTypes
<1>3. /\ k \in DOMAIN ss /\ k - 1 \in 0..Len(ss) /\ g <= k - 1 /\ k # 0
      /\ k \in 0..Len(ss) /\ k <= Len(ss) /\ Len(ss) \in 0..Len(ss)
  BY <1>1, <1>2
<1>4. /\ EndAt(ss, k - 1) \in Nat /\ EndAt(ss, g) <= EndAt(ss, k - 1)
      /\ EndAt(ss, k) <= EndAt(ss, Len(ss)) /\ EndAt(ss, Len(ss)) = EndOf(ss)
  BY <1>1, <1>3, EndsOrdered
<1>5. EndAt(ss, k) = ss[k].end
  BY <1>3 DEF EndAt
<1>6. \E r \in All :
        /\ r.code = ss[k].code /\ ss[k].end = EndAt(ss, k - 1) + Len(r.bytes)
        /\ \A j \in 1..Len(r.bytes) : s[EndAt(ss, k - 1) - b + j] = r.bytes[j]
  BY <1>1 DEF Whole
<1>7. QED
  BY <1>1, <1>3, <1>4, <1>5, <1>6

\* One more reply remains.
LEMMA LeftMore ==
  ASSUME NEW s, NEW b, NEW ss, NEW g, Left(s, b, ss, g), NEW r \in All
  PROVE  Left(s \o r.bytes, b, Append(ss, Said(ss, r)), g)
<1> DEFINE x == Said(ss, r)
           tt == Append(ss, x)
           t == r.bytes
           u == s \o t
<1>1. /\ s \in Seq(Bytes) /\ b \in Nat /\ ss \in Seq(Saying) /\ Mono(ss)
      /\ EndOf(ss) = b + Len(s) /\ g \in 0..Len(ss) /\ b = EndAt(ss, g)
  BY DEF Left
<1>2. t \in Seq(Bytes) /\ Len(t) \in Nat /\ r.code \in Digits \cup {"none"}
  BY AllReplies
<1>3. /\ Len(s) \in Nat /\ EndOf(ss) \in Nat /\ Len(ss) \in Nat
      /\ DOMAIN ss = 1..Len(ss) /\ \A k \in DOMAIN ss : ss[k].end \in Nat
  BY <1>1, LenProperties, SayingTypes
<1>4. x.code = r.code /\ x.end = EndOf(ss) + Len(t)
  BY DEF Said
<1>5. /\ tt \in Seq(Saying) /\ Len(tt) = Len(ss) + 1
      /\ \A k \in 1..Len(ss) : tt[k] = ss[k]
      /\ tt[Len(ss) + 1] = x
  BY <1>1, SaidLast
<1> HIDE DEF x, t
<1>6. /\ u \in Seq(Bytes) /\ Len(u) = Len(s) + Len(t)
      /\ \A j \in 1..Len(s) : u[j] = s[j]
      /\ \A j \in 1..Len(t) : u[Len(s) + j] = t[j]
  BY <1>1, <1>2, EolsJoined
<1> HIDE DEF tt, u
<1>7. /\ \A n \in 0..Len(ss) : EndAt(tt, n) = EndAt(ss, n) /\ EndAt(ss, n) <= EndOf(ss)
      /\ EndAt(ss, Len(ss)) = EndOf(ss)
  <2>1. \A n \in 0..Len(ss) : n = 0 \/ tt[n] = ss[n]
    BY <1>3, <1>5
  <2>2. \A n \in 0..Len(ss) : EndAt(tt, n) = EndAt(ss, n)
    BY <2>1 DEF EndAt
  <2>3. \A n \in 0..Len(ss) : n <= Len(ss) /\ Len(ss) \in 0..Len(ss)
    BY <1>3
  <2>4. QED
    BY <1>1, <2>2, <2>3, EndsOrdered
<1>8. Mono(tt)
  <2> SUFFICES ASSUME NEW j \in DOMAIN tt, NEW k \in DOMAIN tt, j <= k
               PROVE  tt[j].end <= tt[k].end
    BY DEF Mono
  <2>1. DOMAIN tt = 1..(Len(ss) + 1)
    BY <1>5, LenProperties
  <2>2. CASE k \in DOMAIN ss
    <3>1. j \in DOMAIN ss /\ tt[j] = ss[j] /\ tt[k] = ss[k]
      BY <1>3, <1>5, <2>1, <2>2
    <3>2. ss[j].end <= ss[k].end
      BY <1>1, <2>2, <3>1 DEF Mono
    <3>3. QED
      BY <3>1, <3>2
  <2>3. CASE k \notin DOMAIN ss /\ j \in DOMAIN ss
    <3>1. k = Len(ss) + 1 /\ tt[k].end = EndOf(ss) + Len(t) /\ tt[j] = ss[j]
      BY <1>3, <1>4, <1>5, <2>1, <2>3
    <3>2. EndAt(ss, j) = ss[j].end /\ EndAt(ss, j) <= EndOf(ss)
      <4>1. j \in 0..Len(ss) /\ j # 0
        BY <1>3, <2>3
      <4>2. QED
        BY <1>7, <4>1 DEF EndAt
    <3>3. ss[j].end \in Nat
      BY <1>3, <2>3
    <3>4. QED
      BY <1>2, <1>3, <3>1, <3>2, <3>3
  <2>4. CASE k \notin DOMAIN ss /\ j \notin DOMAIN ss
    <3>1. j = k /\ tt[k].end = EndOf(ss) + Len(t)
      BY <1>3, <1>4, <1>5, <2>1, <2>4
    <3>2. EndOf(ss) + Len(t) \in Nat
      BY <1>2, <1>3
    <3>3. QED
      BY <3>1, <3>2
  <2>5. QED
    BY <2>2, <2>3, <2>4
<1>9. EndOf(tt) = b + Len(u)
  <2>1. tt # <<>> /\ EndOf(tt) = tt[Len(tt)].end
    BY <1>3, <1>5, EmptySeq DEF EndOf
  <2>2. EndOf(tt) = EndOf(ss) + Len(t)
    BY <1>4, <1>5, <2>1
  <2>3. QED
    BY <1>1, <1>2, <1>3, <1>6, <2>2
<1>10. ASSUME NEW k \in (g + 1)..Len(tt)
       PROVE  \E rr \in All :
                /\ rr.code = tt[k].code /\ tt[k].end = EndAt(tt, k - 1) + Len(rr.bytes)
                /\ \A j \in 1..Len(rr.bytes) : u[EndAt(tt, k - 1) - b + j] = rr.bytes[j]
  <2>1. CASE k <= Len(ss)
    <3>1. k \in (g + 1)..Len(ss) /\ tt[k] = ss[k]
      BY <1>1, <1>3, <1>5, <2>1
    <3>2. /\ k - 1 \in 0..Len(ss) /\ EndAt(ss, k - 1) \in Nat /\ b <= EndAt(ss, k - 1)
          /\ ss[k].end <= b + Len(s)
      BY <3>1, InLeft
    <3>3. PICK rr \in All :
            /\ rr.code = ss[k].code /\ ss[k].end = EndAt(ss, k - 1) + Len(rr.bytes)
            /\ \A j \in 1..Len(rr.bytes) : s[EndAt(ss, k - 1) - b + j] = rr.bytes[j]
      BY <3>1, InLeft
    <3> DEFINE l == Len(rr.bytes)
               e == EndAt(ss, k - 1)
    <3>4. l \in Nat
      BY AllReplies
    <3>5. ASSUME NEW j \in 1..Len(rr.bytes)
          PROVE  u[EndAt(tt, k - 1) - b + j] = rr.bytes[j]
      <4>1. s[e - b + j] = rr.bytes[j]
        BY <3>3, <3>5
      <4>2. j \in 1..l /\ e \in Nat /\ b <= e /\ e + l <= b + Len(s)
        BY <3>2, <3>3, <3>5
      <4>3. EndAt(tt, k - 1) = e
        BY <1>7, <3>2
      <4> HIDE DEF e, l
      <4>4. e - b + j \in 1..Len(s)
        BY <1>1, <1>3, <3>4, <4>2
      <4>5. QED
        BY <1>6, <4>1, <4>3, <4>4
    <3>6. QED
      BY <1>7, <3>1, <3>2, <3>3, <3>5
  <2>2. CASE ~(k <= Len(ss))
    <3>1. k = Len(ss) + 1 /\ k - 1 = Len(ss)
      BY <1>1, <1>3, <1>5, <2>2
    <3>2. EndAt(tt, k - 1) = EndOf(ss) /\ tt[k] = x
      <4>1. Len(ss) \in 0..Len(ss)
        BY <1>3
      <4>2. QED
        BY <1>5, <1>7, <3>1, <4>1
    <3>3. EndAt(tt, k - 1) - b = Len(s)
      BY <1>1, <1>3, <3>2
    <3>4. \A j \in 1..Len(r.bytes) : u[EndAt(tt, k - 1) - b + j] = r.bytes[j]
      BY <1>6, <3>3 DEF t
    <3>5. r.code = tt[k].code /\ tt[k].end = EndAt(tt, k - 1) + Len(r.bytes)
      BY <1>4, <3>2 DEF t
    <3>6. QED
      BY <3>4, <3>5
  <2>3. QED
    BY <2>1, <2>2
<1>11. Whole(u, b, tt, g)
  BY <1>10 DEF Whole
<1>12. g \in 0..Len(tt) /\ b = EndAt(tt, g)
  BY <1>1, <1>3, <1>5, <1>7
<1>13. Left(u, b, tt, g)
  BY <1>1, <1>6, <1>5, <1>8, <1>9, <1>11, <1>12 DEF Left
<1>14. QED
  BY <1>13 DEF u, t, tt, x

\* The reply that remains first begins the stream.
LEMMA LeftFirst ==
  ASSUME NEW s, NEW b, NEW ss, NEW g, Left(s, b, ss, g), g < Len(ss)
  PROVE  \E r \in All : /\ r.code = ss[g + 1].code /\ ss[g + 1].end = b + Len(r.bytes)
                        /\ Len(r.bytes) <= Len(s)
                        /\ \A j \in 1..Len(r.bytes) : s[j] = r.bytes[j]
<1>1. /\ s \in Seq(Bytes) /\ b \in Nat /\ ss \in Seq(Saying)
      /\ g \in 0..Len(ss) /\ b = EndAt(ss, g)
  BY DEF Left
<1> DEFINE k == g + 1
<1>2. k \in (g + 1)..Len(ss) /\ k - 1 = g
  BY <1>1, SayingTypes
<1> HIDE DEF k
<1>3. ss[k].end <= b + Len(s)
  BY <1>2, InLeft
<1>4. PICK r \in All :
        /\ r.code = ss[k].code /\ ss[k].end = EndAt(ss, k - 1) + Len(r.bytes)
        /\ \A j \in 1..Len(r.bytes) : s[EndAt(ss, k - 1) - b + j] = r.bytes[j]
  BY <1>2, InLeft
<1>5. Len(r.bytes) \in Nat /\ Len(s) \in Nat
  BY <1>1, AllReplies, LenProperties
<1>6. ss[k].end = b + Len(r.bytes) /\ EndAt(ss, k - 1) - b = 0
  BY <1>1, <1>2, <1>4
<1>7. Len(r.bytes) <= Len(s)
  BY <1>1, <1>3, <1>5, <1>6
<1>8. \A j \in 1..Len(r.bytes) : EndAt(ss, k - 1) - b + j = j
  BY <1>6
<1>9. QED
  BY <1>4, <1>6, <1>7, <1>8 DEF k

\* One reply less remains.
LEMMA LeftRest ==
  ASSUME NEW p \in Seq(Bytes), NEW t \in Seq(Bytes), NEW b, NEW ss, NEW g,
         Left(p \o t, b, ss, g), g < Len(ss), b + Len(p) = ss[g + 1].end
  PROVE  Left(t, b + Len(p), ss, g + 1)
<1> DEFINE s == p \o t
           c == b + Len(p)
<1>1. /\ s \in Seq(Bytes) /\ b \in Nat /\ ss \in Seq(Saying) /\ Mono(ss)
      /\ EndOf(ss) = b + Len(s) /\ g \in 0..Len(ss) /\ b = EndAt(ss, g)
  BY DEF Left
<1>2. /\ Len(p) \in Nat /\ Len(t) \in Nat /\ Len(s) = Len(p) + Len(t)
      /\ \A j \in 1..Len(t) : s[Len(p) + j] = t[j]
  BY EolsJoined, LenProperties
<1>3. Len(ss) \in Nat /\ g + 1 \in 0..Len(ss) /\ g + 1 # 0
  BY <1>1, SayingTypes
<1>4. EndAt(ss, g + 1) = c
  BY <1>3 DEF EndAt
<1>i. Left(s, b, ss, g)
  OBVIOUS
<1> HIDE DEF s
<1>5. c \in Nat /\ EndOf(ss) = c + Len(t)
  BY <1>1, <1>2
<1>6. ASSUME NEW k \in (g + 1 + 1)..Len(ss)
      PROVE  \E r \in All :
               /\ r.code = ss[k].code /\ ss[k].end = EndAt(ss, k - 1) + Len(r.bytes)
               /\ \A j \in 1..Len(r.bytes) : t[EndAt(ss, k - 1) - c + j] = r.bytes[j]
  <2>1. k \in (g + 1)..Len(ss) /\ g + 1 <= k - 1
    BY <1>1, <1>3
  <2>2. /\ k - 1 \in 0..Len(ss) /\ EndAt(ss, k - 1) \in Nat /\ ss[k].end <= b + Len(s)
    BY <1>i, <2>1, InLeft
  <2>3. PICK r \in All :
          /\ r.code = ss[k].code /\ ss[k].end = EndAt(ss, k - 1) + Len(r.bytes)
          /\ \A j \in 1..Len(r.bytes) : s[EndAt(ss, k - 1) - b + j] = r.bytes[j]
    BY <1>i, <2>1, InLeft
  <2> DEFINE e == EndAt(ss, k - 1)
             l == Len(r.bytes)
  <2>4. c <= e
    BY <1>1, <1>3, <1>4, <2>1, <2>2, EndsOrdered
  <2>5. l \in Nat
    BY AllReplies
  <2>6. ASSUME NEW j \in 1..Len(r.bytes) PROVE t[e - c + j] = r.bytes[j]
    <3>1. s[e - b + j] = r.bytes[j] /\ j \in 1..l /\ e \in Nat /\ e + l <= b + Len(s)
      BY <2>2, <2>3, <2>6
    <3>2. c = b + Len(p)
      OBVIOUS
    <3> HIDE DEF e, l, c
    <3>3. /\ b \in Nat /\ Len(p) \in Nat /\ Len(t) \in Nat /\ Len(s) = Len(p) + Len(t)
          /\ e \in Nat /\ l \in Nat /\ j \in 1..l /\ c <= e /\ e + l <= b + Len(s)
      BY <1>1, <1>2, <2>4, <2>5, <3>1
    <3>4. e - c + j \in 1..Len(t) /\ Len(p) + (e - c + j) = e - b + j
      BY <3>2, <3>3
    <3>5. QED
      BY <1>2, <3>1, <3>4
  <2>7. QED
    BY <2>3, <2>6
<1>7. Whole(t, c, ss, g + 1)
  BY <1>6 DEF Whole
<1>8. QED
  BY <1>1, <1>3, <1>4, <1>5, <1>7 DEF Left

\* What is known of the stream while no CR LF was cut: codes were acted on in
\* order, the rest of the replies remains, and the buffer holds no more than one.
InOrder ==
  /\ Len(got) <= Len(said) /\ \A i \in DOMAIN got : got[i] = said[i].code
  /\ state # "OVER" => Left(Unread, Before, said, Len(got)) /\ Uncut
  /\ state \in Waiting =>
       /\ Len(got) < Len(said) /\ OnlyLastCoded(ctrlDBuffer)
       /\ pc # "verdict" \/ foundReplyCode = "none" => Uncoded(ctrlDBuffer)

\* What is known of the loop: an announcement is followed by an answer, a handler
\* only waits for bytes that are on their way, and without a verdict it has used up
\* what was there.
Calm ==
  /\ said # <<>> => said[Len(said)].code # "1"
  /\ pc = "wait" /\ state \in Waiting => ~RespError /\ (input = <<>> \/ wire # <<>>)
  /\ pc = "verdict" /\ foundReplyCode = "none" => input = <<>>

OrderInv == PlaceInv /\ Calm /\ (~split => InOrder)

\* A request is answered, by an announcement only with an answer behind it.
LEMMA Answered ==
  ASSUME TypeOK, AskReply \/ AskList
  PROVE  /\ \E next \in Waiting : Ask(next)
         /\ state = "READY" /\ state' \in Waiting /\ pc' = "wait" /\ ctrlDBuffer' = <<>>
         /\ UNCHANGED <<input, got, split>>
         /\ \/ \E r \in All : Says(r) /\ r.code # "1"
            \/ \E r, again \in All : SaysBoth(r, again) /\ again.code # "1"
<1>1. \A r \in Finals \cup Nonsense : r \in All /\ r.code # "1"
  BY ReplyParserAssumption DEF IsNonsense, All
<1>2. CASE AskReply
  <2>1. Ask("REPLY_SENT") /\ "REPLY_SENT" \in Waiting
    BY <1>2 DEF AskReply, Waiting
  <2>2. \/ \E r \in All : Says(r) /\ r.code # "1"
        \/ \E r, again \in All : SaysBoth(r, again) /\ again.code # "1"
    BY <1>1, <1>2 DEF AskReply, All
  <2>3. QED
    BY <2>1, <2>2 DEF Ask
<1>3. CASE AskList
  <2>1. Ask("LIST_SENT") /\ "LIST_SENT" \in Waiting
    BY <1>3 DEF AskList, Waiting
  <2>2. \/ \E r \in All : Says(r) /\ r.code # "1"
        \/ \E r, again \in All : SaysBoth(r, again) /\ again.code # "1"
    BY <1>1, <1>3 DEF AskList, All
  <2>3. QED
    BY <2>1, <2>2 DEF Ask
<1>4. QED
  BY <1>2, <1>3

\* The last reply that was asked for ends the request, and is on its way.
LEMMA AskCalm ==
  ASSUME TypeOK, AskReply \/ AskList
  PROVE  /\ said' # <<>> /\ said'[Len(said')].code # "1"
         /\ wire' # <<>>
<1>1. PICK next \in Waiting : Ask(next)
  BY Answered
<1>2. state = "READY"
  BY Answered
<1>3. ASSUME NEW ss \in Seq(Saying), NEW r \in All, r.code # "1", said' = Append(ss, Said(ss, r)),
             NEW w \in Seq(Bytes), wire' = w \o r.bytes
      PROVE  said' # <<>> /\ said'[Len(said')].code # "1" /\ wire' # <<>>
  <2> DEFINE x == Said(ss, r)
  <2>1. x.code # "1"
    BY <1>3 DEF Said
  <2>2. /\ Append(ss, x) # <<>> /\ Append(ss, x)[Len(ss) + 1] = x
        /\ Len(Append(ss, x)) = Len(ss) + 1
    BY SaidLast
  <2>3. Len(wire') = Len(w) + Len(r.bytes) /\ Len(w) \in Nat /\ Len(r.bytes) \in Nat \ {0}
    BY <1>3, AllReplies, ConcatProperties, LenProperties
  <2>4. wire' # <<>>
    BY <2>3
  <2>5. said' = Append(ss, x)
    BY <1>3
  <2> HIDE DEF x
  <2>6. QED
    BY <2>1, <2>2, <2>4, <2>5
<1>4. said \in Seq(Saying) /\ wire \in Seq(Bytes)
  BY DEF TypeOK, Saying
<1>5. ASSUME NEW r \in All, Says(r), r.code # "1"
      PROVE  said' # <<>> /\ said'[Len(said')].code # "1" /\ wire' # <<>>
  <2>1. wire' = wire \o r.bytes /\ said' = Append(said, Said(said, r))
    BY <1>1, <1>2, <1>5, AskAdds
  <2>2. QED
    BY <1>3, <1>4, <1>5, <2>1
<1>6. ASSUME NEW r \in All, NEW again \in All, SaysBoth(r, again), again.code # "1"
      PROVE  said' # <<>> /\ said'[Len(said')].code # "1" /\ wire' # <<>>
  <2>1. PICK ss : /\ wire' = (wire \o r.bytes) \o again.bytes
                  /\ Unread' = (Unread \o r.bytes) \o again.bytes
                  /\ ss = Append(said, Said(said, r)) /\ said' = Append(ss, Said(ss, again))
    BY <1>1, <1>2, <1>6, AskAdds
  <2>2. ss \in Seq(Saying)
    BY <1>4, <2>1, SaidLast
  <2>3. wire \o r.bytes \in Seq(Bytes)
    BY <1>4, AllReplies, ConcatProperties
  <2>4. QED
    BY <1>3, <1>6, <2>1, <2>2, <2>3
<1>7. QED
  BY <1>5, <1>6, Answered

\* Without a byte there is no error.
LEMMA EmptyIsNoError == ctrlDBuffer' = <<>> => ~RespError'
<1> SUFFICES ASSUME ctrlDBuffer' = <<>> PROVE ~RespError'
  OBVIOUS
<1>1. Len(ctrlDBuffer') = 0 /\ MAX_CTRL_AMT \in Nat
  BY ReplyParserAssumption
<1>2. QED
  BY <1>1 DEF RespError, TooLong, DBuffer_is_string

LEMMA CalmStep ==
  ASSUME PlaceInv, Calm, [Next]_vars
  PROVE  Calm'
<1>1. TypeOK
  BY DEF PlaceInv
<1>2. CASE AskReply \/ AskList
  BY <1>1, <1>2, Answered, AskCalm, EmptyIsNoError DEF Calm
<1>3. CASE Deliver \/ ReadTimeout \/ VerdictError \/ VerdictFinal \/ VerdictExtra \/ VerdictRefused
  <2>1. said' = said /\ pc' # "verdict" /\ (pc' = "wait" => state' \notin Waiting)
    BY <1>3 DEF Deliver, ReadTimeout, VerdictError, VerdictFinal, VerdictExtra,
                VerdictRefused, Taken, Waiting
  <2>2. QED
    BY <2>1 DEF Calm
<1>4. CASE FillLine
  BY <1>4 DEF FillLine, Calm
<1>5. CASE VerdictIncomplete
  BY <1>5 DEF VerdictIncomplete, Calm, RespError, TooLong
<1>6. CASE VerdictAnnounced
  <2>1. /\ said' = said /\ pc' # "verdict" /\ ctrlDBuffer' = <<>>
        /\ pc' = "wait" => input' = <<>>
    BY <1>6 DEF VerdictAnnounced, Taken
  <2>2. QED
    BY <2>1, EmptyIsNoError DEF Calm
<1>7. CASE UNCHANGED vars
  BY <1>7 DEF vars, Calm, RespError, TooLong
<1>8. QED
  BY <1>2, <1>3, <1>4, <1>5, <1>6, <1>7 DEF Next, Verdict

\* Bytes behind the stream cut no CR LF unless they begin with LF.
LEMMA UncutMore ==
  ASSUME NEW s \in Seq(Bytes), NEW t \in Seq(Bytes), NEW x \in Seq(Bytes),
         ~EolAt(s \o t, Len(s)), x[1] # LF
  PROVE  ~EolAt(s \o (t \o x), Len(s))
<1>1. Len(s) \in Nat /\ Len(t) \in Nat /\ Len(x) \in Nat
  BY LenProperties
<1>2. s \o (t \o x) = (s \o t) \o x /\ s \o t \in Seq(Bytes)
  BY Assoc
<1>3. CASE Len(t) > 0
  <2> DEFINE i == Len(s)
             u == s \o t
  <2>1. i \in Int /\ i < Len(u) /\ u \in Seq(Bytes)
    BY <1>1, <1>2, <1>3, EolsJoined
  <2>2. ~EolAt(u, i) /\ s \o (t \o x) = u \o x
    BY <1>2
  <2> HIDE DEF i, u
  <2>3. ~EolAt(u \o x, i)
    BY <2>1, <2>2, EolsJoined
  <2>4. QED
    BY <2>2, <2>3 DEF i
<1>4. CASE Len(t) = 0
  <2>1. t \o x = x
    BY <1>4, EmptySeq, ConcatEmptySeq
  <2>2. \A i \in 1..Len(x) : (s \o x)[Len(s) + i] = x[i]
    BY EolsJoined
  <2>3. Len(s \o x) = Len(s) + Len(x)
    BY EolsJoined
  <2>4. SUFFICES ASSUME EolAt(s \o x, Len(s)) PROVE FALSE
    BY <2>1
  <2>5. Len(s) < Len(s \o x) /\ (s \o x)[Len(s) + 1] = LF
    BY <2>4 DEF EolAt
  <2>6. 1 \in 1..Len(x)
    BY <1>1, <2>3, <2>5
  <2>7. QED
    BY <2>2, <2>5, <2>6
<1>5. QED
  BY <1>1, <1>3, <1>4

LEMMA OrderSaid ==
  ASSUME OrderInv, InOrder, PlaceInv', AskReply \/ AskList
  PROVE  InOrder'
<1>1. TypeOK /\ PlaceInv /\ TypeOK' /\ state = "READY"
  BY Answered DEF OrderInv, PlaceInv
<1>2. PICK next \in Waiting : Ask(next)
  BY <1>1, Answered
<1>3. Left(Unread, Before, said, Len(got)) /\ ~EolAt(input \o wire, Len(input))
  BY <1>1 DEF InOrder, Uncut
<1>4. /\ input \in Seq(Bytes) /\ wire \in Seq(Bytes) /\ said \in Seq(Saying)
      /\ Len(got) \in Nat /\ DOMAIN got = 1..Len(got)
  BY <1>1, LenProperties DEF TypeOK, Saying
<1>5. /\ state' \in Waiting /\ pc' = "wait" /\ ctrlDBuffer' = <<>>
      /\ input' = input /\ got' = got
      /\ \/ \E r \in All : Says(r)
         \/ \E r, again \in All : SaysBoth(r, again)
  BY <1>1, Answered
<1>6. Before' = Before
  BY <1>1, <1>2, <1>5, PlaceSaid
<1>7. ASSUME NEW ss \in Seq(Saying), Len(got) <= Len(ss),
             \A i \in DOMAIN got : got[i] = ss[i].code,
             NEW r \in All, said' = Append(ss, Said(ss, r))
      PROVE  /\ Len(got) < Len(said') /\ \A i \in DOMAIN got : got[i] = said'[i].code
             /\ said' \in Seq(Saying)
  <2>1. /\ said' \in Seq(Saying) /\ Len(said') = Len(ss) + 1 /\ Len(ss) \in Nat
        /\ \A i \in 1..Len(ss) : said'[i] = ss[i]
    BY <1>7, SaidLast
  <2>2. QED
    BY <1>4, <1>7, <2>1
<1>8. ASSUME NEW r \in All, Says(r)
      PROVE  /\ Len(got) < Len(said') /\ \A i \in DOMAIN got : got[i] = said'[i].code
             /\ Left(Unread', Before, said', Len(got)) /\ ~EolAt(input \o wire', Len(input))
  <2>1. /\ wire' = wire \o r.bytes
        /\ Unread' = Unread \o r.bytes /\ said' = Append(said, Said(said, r))
    BY <1>1, <1>2, <1>8, AskAdds
  <2>2. Left(Unread', Before, said', Len(got))
    BY <1>3, <2>1, LeftMore
  <2>3. ~EolAt(input \o wire', Len(input))
    BY <1>3, <1>4, <2>1, AllReplies, UncutMore
  <2>4. Len(got) < Len(said') /\ \A i \in DOMAIN got : got[i] = said'[i].code
    BY <1>4, <1>7, <2>1 DEF InOrder
  <2>5. QED
    BY <2>2, <2>3, <2>4
<1>9. ASSUME NEW r \in All, NEW again \in All, SaysBoth(r, again)
      PROVE  /\ Len(got) < Len(said') /\ \A i \in DOMAIN got : got[i] = said'[i].code
             /\ Left(Unread', Before, said', Len(got)) /\ ~EolAt(input \o wire', Len(input))
  <2>1. PICK ss : /\ wire' = (wire \o r.bytes) \o again.bytes
                  /\ Unread' = (Unread \o r.bytes) \o again.bytes
                  /\ ss = Append(said, Said(said, r)) /\ said' = Append(ss, Said(ss, again))
    BY <1>1, <1>2, <1>9, AskAdds
  <2> DEFINE s == Unread \o r.bytes
             w == wire \o r.bytes
  <2>2. Left(s, Before, ss, Len(got))
    BY <1>3, <2>1, LeftMore
  <2>3. Unread' = s \o again.bytes /\ wire' = w \o again.bytes
    BY <2>1
  <2>4. ~EolAt(input \o w, Len(input)) /\ w \in Seq(Bytes)
    BY <1>3, <1>4, AllReplies, ConcatProperties, UncutMore
  <2> HIDE DEF s, w
  <2>5. Left(Unread', Before, said', Len(got))
    BY <2>1, <2>2, <2>3, LeftMore
  <2>6. ~EolAt(input \o wire', Len(input))
    BY <1>4, <2>3, <2>4, AllReplies, UncutMore
  <2>7. Len(got) <= Len(ss) /\ \A i \in DOMAIN got : got[i] = ss[i].code
    <3>1. /\ Len(ss) = Len(said) + 1 /\ Len(said) \in Nat
          /\ \A i \in 1..Len(said) : ss[i] = said[i]
      BY <1>4, <2>1, SaidLast
    <3>2. QED
      BY <1>4, <3>1 DEF InOrder
  <2>8. Len(got) < Len(said') /\ \A i \in DOMAIN got : got[i] = said'[i].code
    <3>1. ss \in Seq(Saying)
      BY <2>2 DEF Left
    <3>2. QED
      BY <1>7, <2>1, <2>7, <3>1
  <2>9. QED
    BY <2>5, <2>6, <2>8
<1>10. /\ Len(got) < Len(said') /\ \A i \in DOMAIN got : got[i] = said'[i].code
       /\ Left(Unread', Before, said', Len(got)) /\ ~EolAt(input \o wire', Len(input))
  BY <1>5, <1>8, <1>9
<1>11. Uncut'
  <2>1. Buffer' = <<>> /\ Len(<<>>) = 0
    BY <1>5 DEF Buffer
  <2>2. ~EolAt(Unread', Len(Buffer'))
    BY <2>1 DEF EolAt
  <2>3. QED
    BY <1>5, <1>10, <2>2 DEF Uncut
<1>12. OnlyLastCoded(ctrlDBuffer') /\ Uncoded(ctrlDBuffer')
  BY <1>5 DEF OnlyLastCoded, Uncoded
<1>13. Len(got) <= Len(said')
  <2>1. Len(said') \in Nat
    BY <1>1, LenProperties DEF TypeOK
  <2>2. QED
    BY <1>4, <1>10, <2>1
<1>14. QED
  BY <1>5, <1>6, <1>10, <1>11, <1>12, <1>13 DEF InOrder

\* A reply that is acted on is the one that remains first, and all of it.
LEMMA FirstTaken ==
  ASSUME OrderInv, InOrder, pc = "verdict", foundReplyCode # "none", ~RespError
  PROVE  /\ Len(got) < Len(said) /\ foundReplyCode = said[Len(got) + 1].code
         /\ Before + Len(ctrlDBuffer) = said[Len(got) + 1].end
<1> DEFINE b == ctrlDBuffer
           g == Len(got)
<1>1. PlaceInv /\ TypeOK /\ state \in Waiting /\ state # "OVER" /\ Before \in Nat
  BY DEF OrderInv, PlaceInv, Waiting
<1>2. /\ Left(Unread, Before, said, g) /\ g < Len(said) /\ OnlyLastCoded(b)
  BY <1>1 DEF InOrder
<1>3. /\ EndsInEol(b) /\ b \in Seq(Bytes) /\ CodeOf(b) = foundReplyCode
      /\ \E k \in DOMAIN said : Before < said[k].end /\ said[k].end <= Before + Len(b)
  BY <1>1, CodeFound DEF PlaceInv
<1>4. /\ said \in Seq(Saying) /\ Mono(said) /\ g \in 0..Len(said) /\ Before = EndAt(said, g)
  BY <1>2 DEF Left
<1>5. PICK r \in All :
        /\ r.code = said[g + 1].code /\ said[g + 1].end = Before + Len(r.bytes)
        /\ Len(r.bytes) <= Len(Unread)
        /\ \A j \in 1..Len(r.bytes) : Unread[j] = r.bytes[j]
  BY <1>2, LeftFirst
<1>6. Len(r.bytes) \in Nat /\ r.bytes \in Seq(Bytes) /\ Len(b) \in Nat /\ Len(said) \in Nat
  BY <1>3, <1>4, AllReplies, LenProperties
<1>7. Len(r.bytes) <= Len(b)
  <2>1. PICK k \in DOMAIN said : Before < said[k].end /\ said[k].end <= Before + Len(b)
    BY <1>3
  <2>2. k \in 1..Len(said) /\ k # 0
    BY <1>4, LenProperties
  <2>3. g + 1 \in 0..Len(said) /\ g + 1 # 0 /\ g \in 0..Len(said) /\ k \in 0..Len(said)
    BY <1>2, <1>4, <1>6, <2>2
  <2>4. EndAt(said, k) = said[k].end /\ EndAt(said, g + 1) = said[g + 1].end
    BY <2>2, <2>3 DEF EndAt
  <2>5. EndAt(said, k) \in Nat /\ EndAt(said, g + 1) \in Nat
    BY <1>4, <2>3, EndsOrdered
  <2>6. CASE k <= g
    <3>1. EndAt(said, k) <= EndAt(said, g)
      BY <1>4, <2>3, <2>6, EndsOrdered
    <3>2. QED
      BY <1>1, <1>4, <2>1, <2>4, <2>5, <3>1
  <2>7. CASE g + 1 <= k
    <3>1. EndAt(said, g + 1) <= EndAt(said, k)
      BY <1>4, <2>3, <2>7, EndsOrdered
    <3>2. said[k].end \in Nat
      BY <2>4, <2>5
    <3>3. Before + Len(r.bytes) <= said[k].end
      BY <1>5, <2>4, <3>1
    <3>4. QED
      BY <1>1, <1>6, <2>1, <3>2, <3>3
  <2>8. QED
    BY <2>3, <2>6, <2>7
<1>8. \A j \in 1..Len(r.bytes) : b[j] = r.bytes[j]
  <2>1. Unread = b \o (input \o wire) /\ input \o wire \in Seq(Bytes)
    <3>1. Buffer = b
      BY <1>1 DEF Buffer, Waiting
    <3>2. QED
      BY <1>1, <3>1, UnreadType, ConcatProperties DEF TypeOK
  <2>2. \A j \in 1..Len(b) : Unread[j] = b[j]
    BY <1>3, <2>1, EolsJoined
  <2>3. \A j \in 1..Len(r.bytes) : j \in 1..Len(b)
    BY <1>6, <1>7
  <2>4. QED
    BY <1>5, <2>2, <2>3
<1> HIDE DEF b, g
<1>9. PICK x \in Seq(Bytes) : b = r.bytes \o x
  BY <1>3, <1>6, <1>7, <1>8, Beginning
<1>10. ~(Len(b) > MAX_CTRL_AMT) /\ DBuffer_is_string(b)
  BY DEF RespError, TooLong, b
<1>11. PICK i \in 1..Len(b) : /\ CodeStart(b, i) /\ b[i] = r.code
                              /\ Len(r.bytes) - 1 \in 1..Len(b)
                              /\ Len(r.bytes) - 1 >= i /\ EolAt(b, Len(r.bytes) - 1)
  BY <1>9, <1>10, HeadKnown
<1>12. Len(r.bytes) - 1 = Len(b) - 1
  <2> DEFINE q == Len(r.bytes) - 1
  <2>1. q \in 1..Len(b) /\ q >= i /\ EolAt(b, q)
    BY <1>11
  <2> HIDE DEF q
  <2>2. q = Len(b) - 1
    BY <1>2, <1>11, <2>1 DEF OnlyLastCoded
  <2>3. QED
    BY <2>2 DEF q
<1>13. CodeOf(b) = r.code
  BY <1>2, <1>3, <1>11, CodedLine
<1>14. Len(r.bytes) = Len(b)
  BY <1>6, <1>12
<1>15. QED
  BY <1>2, <1>3, <1>5, <1>13, <1>14 DEF b, g

\* With one more line, or a part of one, the buffer still holds at most one reply.
LEMMA LineAdded ==
  ASSUME TypeOK, FillLine, state \in Waiting, ~split',
         Uncoded(ctrlDBuffer), ~EolAt(Unread, Len(ctrlDBuffer))
  PROVE  /\ OnlyLastCoded(ctrlDBuffer')
         /\ foundReplyCode' = "none" => Uncoded(ctrlDBuffer')
<1> DEFINE b == ctrlDBuffer
           c == ctrlDBuffer'
           n == Filled(input)
<1>1. PICK p \in Seq(Bytes) :
        /\ c = b \o p /\ c \in Seq(Bytes)
        /\ input = p \o input' /\ input' \in Seq(Bytes)
        /\ p = SubSeq(input, 1, n) /\ Len(p) = n
  BY FillMoves
<1>2. /\ b \in Seq(Bytes) /\ input \in Seq(Bytes) /\ wire \in Seq(Bytes)
      /\ Len(b) \in Nat /\ Len(p) \in Nat /\ Len(input) \in Nat
      /\ Len(c) = Len(b) + Len(p) /\ n \in 0..Len(input)
  BY <1>1, EolsJoined, LenProperties, FilledMoves DEF TypeOK
<1>3. \A i \in 1..n : EolAt(input, i) => ~Cut(i)
  BY DEF FillLine
<1>4. EolsSeen(input) # {} =>
        foundReplyCode' = CodeOf(c) /\ n >= 2 /\ \A q \in 1..(n - 2) : q \notin EolsSeen(input)
  BY <1>2, FilledMoves DEF FillLine
<1>5. ~EolAt(c, Len(b))
  <2>1. Unread = c \o (input' \o wire) /\ input' \o wire \in Seq(Bytes)
    <3>1. Unread' = Unread /\ Buffer' = c /\ wire' = wire
      BY FillKeeps DEF FillLine
    <3>2. Unread = c \o input' \o wire
      BY <3>1 DEF Unread
    <3>3. ctrlDBuffer' \in Seq(Bytes) /\ input' \in Seq(Bytes) /\ wire \in Seq(Bytes)
      BY <1>1, <1>2
    <3>4. (c \o input') \o wire = c \o (input' \o wire) /\ input' \o wire \in Seq(Bytes)
      BY <3>3, Assoc
    <3>5. QED
      BY <3>2, <3>4
  <2>2. CASE Len(b) < Len(c)
    <3> DEFINE q == Len(b)
    <3>1. q \in Int /\ q < Len(c) /\ ~EolAt(Unread, q)
      BY <1>2, <2>2
    <3> HIDE DEF q, c
    <3>2. QED
      BY <1>1, <2>1, <3>1, EolsJoined DEF q
  <2>3. CASE ~(Len(b) < Len(c))
    BY <2>3 DEF EolAt
  <2>4. QED
    BY <2>2, <2>3
<1> HIDE DEF b, c, n
<1>6. ASSUME NEW i \in 1..Len(c), NEW q \in 1..Len(c), CodeStart(c, i), EolAt(c, q), q >= i
      PROVE  q = Len(c) - 1 /\ EolsSeen(input) # {}
  <2>1. i \in Int /\ q \in Int /\ q > i + 3
    BY <1>2, <1>6, EolBehind
  <2>2. CASE q < Len(b)
    <3>1. i \in 1..Len(b) /\ q \in 1..Len(b) /\ i + 3 <= Len(b)
      BY <1>2, <2>1, <2>2
    <3>2. CodeStart(b, i)
      BY <1>1, <1>2, <1>6, <3>1, CodesJoined
    <3>3. EolAt(b, q)
      BY <1>1, <1>2, <1>6, <2>1, <2>2, EolsJoined
    <3>4. QED
      BY <1>6, <3>1, <3>2, <3>3 DEF Uncoded, b
  <2>3. CASE q = Len(b)
    BY <1>5, <1>6, <2>3
  <2>4. CASE q > Len(b)
    <3> DEFINE j == q - Len(b)
    <3>1. j \in Int /\ j > 0 /\ q = Len(b) + j
      BY <1>2, <2>1, <2>4
    <3> HIDE DEF j
    <3>2. EolAt(p, j)
      BY <1>1, <1>2, <1>6, <3>1, EolsJoined
    <3>3. j < Len(p)
      BY <3>2 DEF EolAt
    <3>4. EolAt(input, j)
      BY <1>1, <3>1, <3>2, <3>3, EolsJoined
    <3>5. j \in 1..n /\ j \in 1..Len(input)
      BY <1>1, <1>2, <3>1, <3>3
    <3>6. j \in EolsSeen(input)
      BY <1>3, <3>4, <3>5 DEF EolsSeen
    <3>7. ~(j \in 1..(n - 2)) /\ n \in Nat
      BY <1>2, <1>4, <3>6
    <3>8. j = n - 1
      BY <1>1, <3>3, <3>5, <3>7
    <3>9. QED
      BY <1>1, <1>2, <3>1, <3>6, <3>8
  <2>5. QED
    BY <1>2, <2>1, <2>2, <2>3, <2>4
<1>7. OnlyLastCoded(c)
  BY <1>6 DEF OnlyLastCoded
<1>8. ASSUME foundReplyCode' = "none" PROVE Uncoded(c)
  <2> SUFFICES ASSUME NEW i \in 1..Len(c), NEW q \in 1..Len(c),
                      CodeStart(c, i), EolAt(c, q), q >= i
               PROVE  FALSE
    BY DEF Uncoded
  <2>1. q = Len(c) - 1 /\ EolsSeen(input) # {}
    BY <1>6
  <2>2. EndsInEol(c)
    BY <2>1 DEF EndsInEol
  <2>3. CodeOf(c) = c[i]
    BY <1>1, <1>7, <2>2, CodedLine
  <2>4. c[i] \in Digits /\ "none" \notin Digits
    BY DEF CodeStart, Digits
  <2>5. QED
    BY <1>4, <1>8, <2>1, <2>3, <2>4
<1>9. QED
  BY <1>7, <1>8 DEF c

LEMMA OrderFilled ==
  ASSUME OrderInv, InOrder, PlaceInv', FillLine, ~split'
  PROVE  InOrder'
<1>1. TypeOK /\ state \in Waiting /\ state # "OVER" /\ pc = "fill" /\ state' = state
  BY DEF OrderInv, PlaceInv, FillLine, Waiting
<1>2. /\ Unread' = Unread /\ said' = said /\ got' = got /\ wire' = wire
      /\ Buffer = ctrlDBuffer /\ Buffer' = ctrlDBuffer'
  BY <1>1, FillKeeps DEF FillLine
<1>3. Before' = Before
  BY <1>2 DEF Before, LastByte
<1>4. /\ Left(Unread, Before, said, Len(got)) /\ Uncoded(ctrlDBuffer)
      /\ ~EolAt(Unread, Len(ctrlDBuffer)) /\ ~EolAt(input \o wire, Len(input))
  BY <1>1, <1>2 DEF InOrder, Uncut
<1>5. PICK p \in Seq(Bytes) :
        /\ ctrlDBuffer' = ctrlDBuffer \o p
        /\ input = p \o input' /\ input' \in Seq(Bytes)
        /\ Len(p) = Filled(input)
  BY <1>1, FillMoves
<1>6. /\ ctrlDBuffer \in Seq(Bytes) /\ input \in Seq(Bytes) /\ wire \in Seq(Bytes)
      /\ Len(p) \in Nat /\ Len(input') \in Nat /\ Len(ctrlDBuffer) \in Nat
      /\ Len(input) = Len(p) + Len(input')
      /\ Len(ctrlDBuffer') = Len(ctrlDBuffer) + Len(p)
  BY <1>1, <1>5, EolsJoined, LenProperties DEF TypeOK
<1>7. input \o wire = p \o (input' \o wire) /\ input' \o wire \in Seq(Bytes)
  <2>1. p \in Seq(Bytes) /\ input' \in Seq(Bytes) /\ wire \in Seq(Bytes)
    BY <1>5, <1>6
  <2>2. (p \o input') \o wire = p \o (input' \o wire) /\ input' \o wire \in Seq(Bytes)
    BY <2>1, Assoc
  <2>3. QED
    BY <1>5, <2>2
<1>8. ~EolAt(input' \o wire, Len(input'))
  <2> DEFINE i == Len(input')
             t == input' \o wire
  <2>1. CASE i > 0
    <3>1. i \in Int /\ t \in Seq(Bytes) /\ Len(input) = Len(p) + i /\ input \o wire = p \o t
      BY <1>6, <1>7
    <3> HIDE DEF i, t
    <3>2. ~EolAt(p \o t, Len(p) + i)
      BY <1>4, <3>1
    <3>3. ~EolAt(t, i)
      BY <2>1, <3>1, <3>2, EolsJoined
    <3>4. QED
      BY <3>3 DEF i, t
  <2>2. CASE ~(i > 0)
    BY <2>2 DEF EolAt
  <2>3. QED
    BY <2>1, <2>2
<1>9. ~EolAt(Unread', Len(Buffer'))
  <2>1. Unread = ctrlDBuffer \o (input \o wire) /\ input \o wire \in Seq(Bytes)
    BY <1>1, <1>2, <1>6, UnreadType, ConcatProperties
  <2> DEFINE i == Len(p)
             t == input \o wire
  <2>2. CASE i = 0
    BY <1>2, <1>4, <1>6, <2>2
  <2>3. CASE i > 0
    <3>1. ~EolAt(t, i)
      <4>1. CASE Len(input') = 0
        BY <1>4, <1>6, <4>1
      <4>2. CASE Len(input') > 0
        <5>1. EolsSeen(input) # {} /\ EolAt(input, i - 1) /\ i >= 2
          <6>1. Filled(input) # Len(input) /\ i = Filled(input)
            BY <1>5, <1>6, <4>2
          <6>2. input \in Seq(Bytes)
            BY <1>6
          <6>3. EolsSeen(input) # {}
            BY <6>1, <6>2, FilledMoves
          <6> HIDE DEF i
          <6>4. QED
            BY <6>1, <6>2, <6>3, FilledMoves
        <5>2. i - 1 \in Int /\ i - 1 + 1 = i /\ i \in 1..Len(input) /\ i < Len(input)
          BY <1>6, <2>3, <4>2
        <5>3. input[i] = LF
          BY <5>1, <5>2 DEF EolAt
        <5>4. ~EolAt(input, i)
          BY <5>3 DEF EolAt, CR, LF
        <5> HIDE DEF i
        <5>5. QED
          BY <1>6, <5>2, <5>4, EolsJoined
      <4>3. QED
        BY <1>6, <4>1, <4>2
    <3>2. i \in Int /\ Len(Buffer') = Len(ctrlDBuffer) + i /\ Unread' = ctrlDBuffer \o t
      BY <1>2, <1>6, <2>1
    <3>3. t \in Seq(Bytes)
      BY <2>1
    <3> HIDE DEF i, t
    <3>4. ~EolAt(ctrlDBuffer \o t, Len(ctrlDBuffer) + i)
      BY <1>6, <2>3, <3>1, <3>2, <3>3, EolsJoined
    <3>5. QED
      BY <3>2, <3>4
  <2>4. QED
    BY <1>6, <2>2, <2>3
<1>10. /\ OnlyLastCoded(ctrlDBuffer')
       /\ foundReplyCode' = "none" => Uncoded(ctrlDBuffer')
  BY <1>1, <1>4, LineAdded
<1>11. pc' # "verdict" => foundReplyCode' = "none"
  BY DEF FillLine
<1>12. Uncut'
  BY <1>2, <1>8, <1>9 DEF Uncut
<1>13. QED
  BY <1>1, <1>2, <1>3, <1>4, <1>10, <1>11, <1>12 DEF InOrder

LEMMA OrderDelivered ==
  ASSUME OrderInv, InOrder, PlaceInv', Deliver, ~split'
  PROVE  InOrder'
<1>1. TypeOK /\ state \in Waiting /\ state # "OVER" /\ pc = "wait" /\ state' = state
  BY DEF OrderInv, PlaceInv, Deliver, Waiting
<1>2. /\ Unread' = Unread /\ said' = said /\ got' = got /\ ctrlDBuffer' = ctrlDBuffer
      /\ Buffer' = Buffer
  BY <1>1, DeliverKeeps DEF Deliver, Buffer
<1>3. Before' = Before
  BY <1>2 DEF Before, LastByte
<1>4. PICK n \in 1..Len(wire) :
        /\ input' = input \o SubSeq(wire, 1, n)
        /\ split' = (split \/ EolAt(wire, n))
        /\ SubSeq(wire, 1, n) \in Seq(Bytes) /\ Len(SubSeq(wire, 1, n)) = n
        /\ wire' \in Seq(Bytes) /\ wire = SubSeq(wire, 1, n) \o wire'
  BY <1>1, DeliverMoves
<1> DEFINE p == SubSeq(wire, 1, n)
<1>5. /\ input \in Seq(Bytes) /\ wire \in Seq(Bytes) /\ n \in Int /\ n > 0
      /\ input' = input \o p /\ wire = p \o wire' /\ p \in Seq(Bytes) /\ Len(p) = n
      /\ ~EolAt(wire, n)
  <2>1. input \in Seq(Bytes) /\ wire \in Seq(Bytes) /\ Len(wire) \in Nat
    BY <1>1, LenProperties DEF TypeOK
  <2>2. n \in Int /\ n > 0
    BY <2>1
  <2>3. ~EolAt(wire, n)
    BY <1>4
  <2>4. input' = input \o p /\ wire = p \o wire' /\ p \in Seq(Bytes) /\ Len(p) = n
    BY <1>4
  <2>5. QED
    BY <2>1, <2>2, <2>3, <2>4
<1> HIDE DEF p
<1>6. input' \o wire' = input \o wire /\ Len(input') = Len(input) + n
  <2>0. input \in Seq(Bytes) /\ p \in Seq(Bytes) /\ wire' \in Seq(Bytes)
    BY <1>4, <1>5
  <2>1. (input \o p) \o wire' = input \o (p \o wire')
    BY <2>0, Assoc
  <2>2. QED
    BY <1>5, <2>1, EolsJoined
<1>7. ~EolAt(input' \o wire', Len(input'))
  <2>1. ~EolAt(input \o wire, Len(input) + n)
    BY <1>5, EolsJoined
  <2>2. QED
    BY <1>6, <2>1
<1>8. Uncut'
  BY <1>1, <1>2, <1>7 DEF Uncut, InOrder
<1>9. QED
  BY <1>1, <1>2, <1>3, <1>8 DEF InOrder, Deliver

\* A verdict takes the first reply from what remains.
LEMMA OrderTaken ==
  ASSUME OrderInv, InOrder, PlaceInv', NEW next, NEW b, Taken(next, b),
         next = "OVER" \/ (input' = input /\ (next = "READY" \/ b = <<>>)),
         next \in Waiting => foundReplyCode = "1"
  PROVE  InOrder'
<1>1. /\ PlaceInv /\ TypeOK /\ TypeOK' /\ state \in Waiting /\ state # "OVER"
      /\ pc = "verdict" /\ foundReplyCode # "none" /\ ~RespError
      /\ Before \in Nat /\ ctrlDBuffer \in Seq(Bytes) /\ said \in Seq(Saying)
      /\ got \in Seq(Digits) /\ foundReplyCode \in Digits
  BY DEF OrderInv, PlaceInv, Taken, TypeOK, Saying, Waiting
<1>2. /\ said' = said /\ got' = Append(got, foundReplyCode) /\ state' = next
      /\ ctrlDBuffer' = b /\ wire' = wire
  BY DEF Taken
<1>3. /\ Len(got) < Len(said) /\ foundReplyCode = said[Len(got) + 1].code
      /\ Before + Len(ctrlDBuffer) = said[Len(got) + 1].end
  BY <1>1, FirstTaken
<1>4. /\ Len(got) \in Nat /\ Len(said) \in Nat /\ Len(got') = Len(got) + 1
      /\ DOMAIN got = 1..Len(got) /\ DOMAIN got' = 1..(Len(got) + 1)
      /\ \A i \in 1..Len(got) : got'[i] = got[i]
      /\ got'[Len(got) + 1] = foundReplyCode
  BY <1>1, <1>2, AppendProperties, LenProperties
<1>5. Len(got') <= Len(said') /\ \A i \in DOMAIN got' : got'[i] = said'[i].code
  <2>1. Len(got') <= Len(said')
    BY <1>2, <1>3, <1>4
  <2>2. ASSUME NEW i \in DOMAIN got' PROVE got'[i] = said'[i].code
    <3>1. CASE i \in 1..Len(got)
      BY <1>2, <1>4, <3>1 DEF InOrder
    <3>2. CASE i = Len(got) + 1
      BY <1>2, <1>3, <1>4, <3>2
    <3>3. QED
      BY <1>4, <3>1, <3>2
  <2>3. QED
    BY <2>1, <2>2
<1>6. ASSUME next # "OVER"
      PROVE  Left(Unread', Before', said', Len(got')) /\ Uncut'
  <2>1. input' = input /\ (next = "READY" \/ b = <<>>)
    BY <1>6
  <2>2. Unread = ctrlDBuffer \o Unread'
    BY <1>1, <2>1, TakenCuts
  <2>3. Before' = Before + Len(ctrlDBuffer)
    BY <1>1, <1>2, <2>2, StreamCut
  <2>4. Unread' \in Seq(Bytes)
    <3>1. Buffer' \in Seq(Bytes) /\ input' \in Seq(Bytes) /\ wire' \in Seq(Bytes)
      BY <1>1, EmptySeq DEF Buffer, TypeOK
    <3>2. QED
      BY <3>1, Pieces DEF Unread
  <2>5. Left(ctrlDBuffer \o Unread', Before, said, Len(got))
    BY <1>1, <2>2 DEF InOrder
  <2>6. Left(Unread', Before + Len(ctrlDBuffer), said, Len(got) + 1)
    BY <1>1, <1>3, <2>4, <2>5, LeftRest
  <2>7. Uncut'
    <3>1. Buffer' = <<>>
      BY <1>2, <2>1 DEF Buffer
    <3>2. ~EolAt(Unread', Len(Buffer'))
      BY <3>1 DEF EolAt
    <3>3. ~EolAt(input \o wire, Len(input))
      BY <1>1 DEF InOrder, Uncut
    <3>4. QED
      BY <1>2, <2>1, <3>2, <3>3 DEF Uncut
  <2>8. QED
    BY <1>2, <1>4, <2>3, <2>6, <2>7
<1>7. ASSUME next \in Waiting
      PROVE  Len(got') < Len(said') /\ OnlyLastCoded(ctrlDBuffer') /\ Uncoded(ctrlDBuffer')
  <2>1. b = <<>>
    BY <1>7 DEF Waiting
  <2>2. OnlyLastCoded(<<>>) /\ Uncoded(<<>>)
    BY DEF OnlyLastCoded, Uncoded
  <2>3. Len(got) + 1 # Len(said)
    <3>1. said # <<>>
      BY <1>3, <1>4, EmptySeq
    <3>2. said[Len(said)].code # "1"
      BY <3>1 DEF OrderInv, Calm
    <3>3. said[Len(got) + 1].code = "1"
      BY <1>3, <1>7
    <3>4. QED
      BY <3>2, <3>3
  <2>4. QED
    BY <1>2, <1>3, <1>4, <2>1, <2>2, <2>3
<1>8. QED
  BY <1>2, <1>5, <1>6, <1>7 DEF InOrder

LEMMA OrderStep ==
  ASSUME OrderInv, [Next]_vars
  PROVE  OrderInv'
<1>1. PlaceInv /\ Calm /\ TypeOK /\ (pc = "verdict" => state \in Waiting)
  BY DEF OrderInv, PlaceInv
<1>2. PlaceInv' /\ Calm'
  BY <1>1, PlaceStep, CalmStep
<1>3. SUFFICES ASSUME ~split' PROVE InOrder'
  BY <1>2 DEF OrderInv
<1>4. ~split /\ InOrder
  <2>1. split => split'
    BY DEF Next, AskReply, AskList, Ask, Deliver, FillLine, Verdict, VerdictError,
           VerdictIncomplete, VerdictFinal, VerdictExtra, VerdictAnnounced, VerdictRefused,
           Taken, ReadTimeout, vars
  <2>2. QED
    BY <1>3, <2>1 DEF OrderInv
<1>5. CASE AskReply \/ AskList
  BY <1>2, <1>4, <1>5, OrderSaid
<1>6. CASE Deliver
  BY <1>2, <1>3, <1>4, <1>6, OrderDelivered
<1>7. CASE FillLine
  BY <1>2, <1>3, <1>4, <1>7, OrderFilled
<1>8. CASE VerdictFinal \/ VerdictExtra \/ VerdictAnnounced \/ VerdictRefused
  <2>1. PICK next, b : /\ Taken(next, b)
                       /\ next = "OVER" \/ (input' = input /\ (next = "READY" \/ b = <<>>))
                       /\ next \in Waiting => foundReplyCode = "1"
    BY <1>8 DEF VerdictFinal, VerdictExtra, VerdictAnnounced, VerdictRefused, Waiting
  <2>2. QED
    BY <1>2, <1>4, <2>1, OrderTaken
<1>9. CASE VerdictError \/ ReadTimeout
  <2>1. state' = "OVER" /\ got' = got /\ said' = said
    BY <1>9 DEF VerdictError, ReadTimeout
  <2>2. QED
    BY <1>4, <2>1 DEF InOrder, Waiting
<1>10. CASE VerdictIncomplete
  <2>1. /\ UNCHANGED <<wire, input, ctrlDBuffer, foundReplyCode, state, said, got>>
        /\ foundReplyCode = "none"
    BY <1>10 DEF VerdictIncomplete
  <2>2. Unread' = Unread /\ Buffer' = Buffer /\ Before' = Before
    BY <2>1 DEF Unread, Buffer, Before, LastByte
  <2>3. QED
    BY <1>4, <2>1, <2>2 DEF InOrder, Uncut
<1>11. CASE UNCHANGED vars
  <2>1. UNCHANGED <<wire, input, ctrlDBuffer, foundReplyCode, state, pc, said, got>>
    BY <1>11 DEF vars
  <2>2. Unread' = Unread /\ Buffer' = Buffer /\ Before' = Before
    BY <2>1 DEF Unread, Buffer, Before, LastByte
  <2>3. QED
    BY <1>4, <2>1, <2>2 DEF InOrder, Uncut
<1>12. QED
  BY <1>5, <1>6, <1>7, <1>8, <1>9, <1>10, <1>11 DEF Next, Verdict

LEMMA OrderInit == Init => OrderInv
<1> SUFFICES ASSUME Init PROVE OrderInv
  OBVIOUS
<1>1. PlaceInv /\ TypeOK
  BY PlaceInit, TypeInit
<1>2. Unread = <<>> /\ got = <<>> /\ said = <<>> /\ state = "READY" /\ input = <<>>
  BY DEF Init, Unread, Buffer
<1>3. Before = 0
  <2>1. Len(Unread) = 0 /\ LastByte = 0
    BY <1>2 DEF LastByte
  <2>2. QED
    BY <2>1 DEF Before
<1>4. Left(Unread, Before, said, Len(got))
  <2>1. <<>> \in Seq(Saying) /\ <<>> \in Seq(Bytes)
    BY EmptySeq
  <2>2. Mono(<<>>) /\ Whole(<<>>, 0, <<>>, 0)
    BY DEF Mono, Whole
  <2>3. QED
    BY <1>2, <1>3, <2>1, <2>2 DEF Left, EndOf, EndAt
<1>5. Uncut
  BY <1>2 DEF Uncut, Buffer, EolAt
<1>6. QED
  BY <1>1, <1>2, <1>4, <1>5 DEF OrderInv, Calm, InOrder, Init, Waiting

\* What remains of the stream begins where the replies end that were acted on.
THEOREM ReplyOrder == Spec => []OrderInv
<1>1. OrderInv /\ [Next]_vars => OrderInv'
  BY OrderStep
<1>2. QED
  BY <1>1, OrderInit, PTL DEF Spec

\* The codes that handlers act on are the codes that the server sent, in order, as
\* long as no CR LF was cut in two (parse_response, fill_DBuffer_line).
THEOREM RepliesKeepOrder == Spec => []RepliesInOrder
<1>1. OrderInv => RepliesInOrder
  <2> SUFFICES ASSUME OrderInv, ~split PROVE RepliesInOrder
    BY DEF RepliesInOrder
  <2>1. Len(got) <= Len(said) /\ \A i \in DOMAIN got : got[i] = said[i].code
    BY DEF OrderInv, InOrder
  <2>2. \A i \in DOMAIN got : i \in DOMAIN said
    <3>1. /\ DOMAIN got = 1..Len(got) /\ DOMAIN said = 1..Len(said)
          /\ Len(got) \in Nat /\ Len(said) \in Nat
      BY LenProperties DEF OrderInv, PlaceInv, TypeOK
    <3>2. QED
      BY <2>1, <3>1
  <2>3. QED
    BY <2>1, <2>2 DEF RepliesInOrder, Codes
<1>2. QED
  BY <1>1, ReplyOrder, PTL

\* When all the bytes are there and no CR LF was cut in two, no handler waits for
\* more (RESP_INCOMPLETE, ctrl_read_cb).
THEOREM AnswersAreSeen == Spec => []NoNeedlessWait
<1>1. OrderInv => NoNeedlessWait
  <2> SUFFICES ASSUME OrderInv, pc = "wait", state \in Waiting, wire = <<>>, ~split PROVE FALSE
    BY DEF NoNeedlessWait
  <2>1. TypeOK /\ state # "OVER" /\ ctrlDBuffer \in Seq(Bytes)
    BY DEF OrderInv, PlaceInv, TypeOK, Waiting
  <2>2. input = <<>> /\ ~RespError
    BY DEF OrderInv, Calm
  <2>3. Unread = ctrlDBuffer
    <3>1. Buffer = ctrlDBuffer
      BY DEF Buffer, Waiting
    <3>2. QED
      BY <2>1, <2>2, <3>1, ConcatEmptySeq DEF Unread
  <2>4. /\ Left(Unread, Before, said, Len(got)) /\ Len(got) < Len(said)
        /\ Uncoded(ctrlDBuffer)
    BY <2>1 DEF OrderInv, InOrder
  <2>5. PICK r \in All : /\ Len(r.bytes) <= Len(Unread)
                         /\ \A j \in 1..Len(r.bytes) : Unread[j] = r.bytes[j]
    BY <2>4, LeftFirst
  <2>6. PICK x \in Seq(Bytes) : ctrlDBuffer = r.bytes \o x
    BY <2>1, <2>3, <2>5, AllReplies, Beginning
  <2>7. ~(Len(ctrlDBuffer) > MAX_CTRL_AMT) /\ DBuffer_is_string(ctrlDBuffer)
    BY <2>2 DEF RespError, TooLong
  <2>8. PICK i \in 1..Len(ctrlDBuffer) :
          /\ CodeStart(ctrlDBuffer, i) /\ Len(r.bytes) - 1 \in 1..Len(ctrlDBuffer)
          /\ Len(r.bytes) - 1 >= i /\ EolAt(ctrlDBuffer, Len(r.bytes) - 1)
    BY <2>6, <2>7, HeadKnown
  <2>9. QED
    BY <2>4, <2>8 DEF Uncoded
<1>2. QED
  BY <1>1, ReplyOrder, PTL
=============================================================================
