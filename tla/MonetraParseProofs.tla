------------------------- MODULE MonetraParseProofs -------------------------
(***************************************************************************)
(* What MonetraParse promises, proved for any ids, any number of answers   *)
(* and any segmentation.                                                   *)
(***************************************************************************)
EXTENDS MonetraParse, SequenceTheorems, WellFoundedInduction, TLAPS

-----------------------------------------------------------------------------
(* The stream.  What is buffered and in flight are the frames behind the   *)
(* first n, which have been parsed off.                                     *)

Length == Len(inbuf) + Len(flight)
Byte(p) == IF p <= Len(inbuf) THEN inbuf[p] ELSE flight[p - Len(inbuf)]

AnswersOK ==
    /\ answers \in Seq([id : Ids, body : Bodies, end : Nat])
    /\ \A k \in 1 .. Len(answers) : Sent(k) = Sent(k - 1) + Len(FrameOf(k))
    /\ \A j, k \in 0 .. Len(answers) : j <= k => Sent(j) <= Sent(k)

Aligned(n) ==
    /\ Length = Sent(Len(answers)) - Sent(n)
    /\ \A k \in n + 1 .. Len(answers) : \A j \in 1 .. Len(FrameOf(k)) :
          Byte(Sent(k - 1) - Sent(n) + j) = FrameOf(k)[j]

(* What the transactions have got out of the first n answers.               *)
First(k, id) == answers[k].id = id /\ \A j \in 1 .. k - 1 : answers[j].id # id

Taken(r) == {r} \cup (IF r.type = "CSV" THEN {CsvTaken(r)} ELSE {})

ReadFine(n, id) ==
    /\ tstatus[id] = "PENDING" => \A k \in 1 .. n : answers[k].id # id
    /\ tstatus[id] # "DONE" => response[id] = NoResponse
    /\ tstatus[id] = "DONE" =>
          \E k \in 1 .. n : First(k, id) /\ response[id] \in Taken(ResponseTo(Serialize(answers[k].body)))

ParseTypeOK ==
    /\ AnswersOK
    /\ inbuf \in Seq(Bytes) /\ flight \in Seq(Bytes)
    /\ verdict \in {"rest", "parse", "error"}
    /\ tstatus \in [Ids -> {"FREE", "PENDING", "DONE"}]
    /\ DOMAIN response = Ids

(* The READ loop stops only where no complete message can be.               *)
Parsed(n) ==
    /\ n \in 0 .. Len(answers)
    /\ \A id \in Ids : ReadFine(n, id)
    /\ verdict # "error" => Aligned(n)
    /\ verdict = "rest" => Len(inbuf) < MinMessage \/ Etxs = {}

ParseInv ==
    /\ ParseTypeOK
    /\ \E n \in Nat : Parsed(n)
    /\ ErrorNeedsEmptyAnswer

-----------------------------------------------------------------------------
(* Concatenation, by the positions of its two halves.                       *)
LEMMA Join ==
    ASSUME NEW S, NEW s \in Seq(S), NEW t \in Seq(S)
    PROVE  /\ s \o t \in Seq(S) /\ Len(s) \in Nat /\ Len(t) \in Nat /\ Len(s \o t) = Len(s) + Len(t)
           /\ \A i \in 1 .. Len(s) : (s \o t)[i] = s[i]
           /\ \A i \in 1 .. Len(t) : (s \o t)[Len(s) + i] = t[i]
  <1> DEFINE u == s \o t
  <1>1. Len(s) \in Nat /\ Len(t) \in Nat
    BY LenProperties
  <1>2. /\ u \in Seq(S) /\ Len(u) = Len(s) + Len(t)
        /\ \A i \in 1 .. Len(s) + Len(t) : u[i] = IF i <= Len(s) THEN s[i] ELSE t[i - Len(s)]
    BY ConcatProperties
  <1> HIDE DEF u
  <1>3. ASSUME NEW i \in 1 .. Len(s) PROVE u[i] = s[i]
    BY <1>1, <1>2
  <1>4. ASSUME NEW i \in 1 .. Len(t) PROVE u[Len(s) + i] = t[i]
    <2>1. /\ Len(s) + i \in 1 .. Len(s) + Len(t) /\ ~(Len(s) + i <= Len(s))
          /\ (Len(s) + i) - Len(s) = i
      BY <1>1
    <2>2. QED BY <1>2, <2>1
  <1>5. QED BY <1>1, <1>2, <1>3, <1>4 DEF u

LEMMA Single ==
    ASSUME NEW S, NEW x \in S
    PROVE  <<x>> \in Seq(S) /\ Len(<<x>>) = 1 /\ <<x>>[1] = x
  OBVIOUS

(* A frame: STX, the id, FS, the data and the one ETX.                      *)
LEMMA FrameShape ==
    ASSUME NEW id \in Ids, NEW body \in Bodies
    PROVE  LET f == Frame(id, body)
               d == Serialize(body)
           IN  /\ f \in Seq(Bytes) /\ id \in Seq(Digits) /\ d \in Seq(Bytes)
               /\ Len(id) \in Nat \ {0} /\ Len(d) \in Nat
               /\ Len(f) = Len(id) + Len(d) + 3
               /\ f[1] = "STX" /\ f[Len(id) + 2] = "FS" /\ f[Len(f)] = "ETX"
               /\ \A i \in 1 .. Len(id) : f[i + 1] = id[i] /\ id[i] \in Digits
               /\ \A i \in 1 .. Len(d) : f[Len(id) + 2 + i] = d[i]
               /\ \A i \in 1 .. Len(f) - 1 : f[i] # "ETX"
  <1> DEFINE d == Serialize(body)
             stx == <<"STX">>
             fs == <<"FS">>
             etx == <<"ETX">>
             a == stx \o id
             b == a \o fs
             c == b \o d
             f == c \o etx
  <1>1. id \in Seq(Digits) /\ id # <<>> /\ d \in Seq(Bytes \ {"ETX"})
    BY ParseAssumption, BodyAssumption
  <1> HIDE DEF d
  <1>2. id \in Seq(Bytes)
    <2>1. Digits \subseteq Bytes BY DEF Bytes
    <2>2. QED BY <1>1, <2>1, SeqMonotonic
  <1>3. d \in Seq(Bytes)
    BY <1>1, SeqMonotonic
  <1>4. Len(id) \in Nat \ {0} /\ Len(d) \in Nat
    BY <1>1, EmptySeq, LenProperties
  <1>5. /\ \A i \in 1 .. Len(id) : id[i] \in Digits
        /\ \A i \in 1 .. Len(d) : d[i] # "ETX"
    BY <1>1, ElementOfSeq
  <1>6. "STX" \in Bytes /\ "FS" \in Bytes /\ "ETX" \in Bytes
    BY DEF Bytes
  <1>7. /\ stx \in Seq(Bytes) /\ Len(stx) = 1 /\ stx[1] = "STX"
        /\ fs \in Seq(Bytes) /\ Len(fs) = 1 /\ fs[1] = "FS"
        /\ etx \in Seq(Bytes) /\ Len(etx) = 1 /\ etx[1] = "ETX"
    BY <1>6, Single
  <1>8. f = Frame(id, body)
    BY DEF Frame, d
  <1> HIDE DEF stx, fs, etx
  <1>9. /\ a \in Seq(Bytes) /\ Len(a) = Len(id) + 1
        /\ a[1] = "STX" /\ \A i \in 1 .. Len(id) : a[i + 1] = id[i]
    <2>1. /\ a \in Seq(Bytes) /\ Len(a) = 1 + Len(id)
          /\ \A i \in 1 .. 1 : a[i] = stx[i]
          /\ \A i \in 1 .. Len(id) : a[1 + i] = id[i]
      BY <1>2, <1>7, Join, SMTT(30)
    <2> HIDE DEF a
    <2>2. \A i \in 1 .. Len(id) : a[i + 1] = id[i]
      <3> SUFFICES ASSUME NEW i \in 1 .. Len(id) PROVE a[i + 1] = id[i] OBVIOUS
      <3>1. i + 1 = 1 + i BY <1>4
      <3>2. QED BY <2>1, <3>1
    <2>3. QED BY <1>4, <1>7, <2>1, <2>2
  <1> HIDE DEF a
  <1>10. /\ b \in Seq(Bytes) /\ Len(b) = Len(id) + 2 /\ b[Len(id) + 2] = "FS"
         /\ \A i \in 1 .. Len(id) + 1 : b[i] = a[i]
    <2>1. /\ b \in Seq(Bytes) /\ Len(b) = Len(a) + 1
          /\ \A i \in 1 .. Len(a) : b[i] = a[i]
          /\ \A i \in 1 .. 1 : b[Len(a) + i] = fs[i]
      BY <1>7, <1>9, Join, SMTT(30)
    <2> HIDE DEF b
    <2>2. b[Len(a) + 1] = "FS" BY <1>7, <2>1
    <2>3. Len(a) + 1 = Len(id) + 2 BY <1>4, <1>9
    <2>4. QED BY <1>9, <2>1, <2>2, <2>3
  <1> HIDE DEF b
  <1>11. /\ c \in Seq(Bytes) /\ Len(c) = Len(id) + 2 + Len(d)
         /\ \A i \in 1 .. Len(id) + 2 : c[i] = b[i]
         /\ \A i \in 1 .. Len(d) : c[Len(id) + 2 + i] = d[i]
    <2>1. /\ c \in Seq(Bytes) /\ Len(c) = Len(b) + Len(d)
          /\ \A i \in 1 .. Len(b) : c[i] = b[i]
          /\ \A i \in 1 .. Len(d) : c[Len(b) + i] = d[i]
      <3>1. b \in Seq(Bytes) BY <1>10
      <3>2. QED BY <1>3, <3>1, Join
    <2> HIDE DEF c
    <2>2. QED BY <1>10, <2>1
  <1> HIDE DEF c
  <1>12. /\ f \in Seq(Bytes) /\ Len(f) = Len(c) + 1
         /\ \A i \in 1 .. Len(c) : f[i] = c[i]
         /\ \A i \in 1 .. 1 : f[Len(c) + i] = etx[i]
    <2>1. c \in Seq(Bytes) /\ etx \in Seq(Bytes) BY <1>7, <1>11
    <2>2. /\ f \in Seq(Bytes) /\ Len(f) = Len(c) + Len(etx)
          /\ \A i \in 1 .. Len(c) : f[i] = c[i]
          /\ \A i \in 1 .. Len(etx) : f[Len(c) + i] = etx[i]
      BY <2>1, Join
    <2> HIDE DEF f
    <2>3. QED BY <1>7, <2>2
  <1> HIDE DEF f
  <1>13. Len(f) = Len(id) + Len(d) + 3 /\ f[Len(f)] = "ETX"
    <2>1. f[Len(c) + 1] = "ETX" BY <1>7, <1>12
    <2>2. QED BY <1>4, <1>11, <1>12, <2>1
  <1>14. ASSUME NEW i \in 1 .. Len(id) + 2 PROVE f[i] = b[i] /\ (i <= Len(id) + 1 => f[i] = a[i])
    <2>1. i \in 1 .. Len(c) BY <1>4, <1>11
    <2>2. i <= Len(id) + 1 => i \in 1 .. Len(id) + 1 BY <1>4
    <2>3. QED BY <1>10, <1>11, <1>12, <2>1, <2>2
  <1>15. f[1] = "STX" /\ f[Len(id) + 2] = "FS"
    <2>1. 1 \in 1 .. Len(id) + 2 /\ Len(id) + 2 \in 1 .. Len(id) + 2 /\ 1 <= Len(id) + 1 BY <1>4
    <2>2. QED BY <1>9, <1>10, <1>14, <2>1
  <1>16. ASSUME NEW i \in 1 .. Len(id) PROVE f[i + 1] = id[i]
    <2>1. i + 1 \in 1 .. Len(id) + 2 /\ i + 1 <= Len(id) + 1 BY <1>4
    <2>2. QED BY <1>9, <1>14, <2>1
  <1>17. ASSUME NEW i \in 1 .. Len(d) PROVE f[Len(id) + 2 + i] = d[i]
    <2>1. Len(id) + 2 + i \in 1 .. Len(c) BY <1>4, <1>11
    <2>2. QED BY <1>11, <1>12, <2>1
  <1>18. ASSUME NEW i \in 1 .. Len(f) - 1 PROVE f[i] # "ETX"
    <2>1. i \in Nat /\ i >= 1 /\ i <= Len(id) + 2 + Len(d)
      BY <1>4, <1>13
    <2>2. CASE i > Len(id) + 2
      <3>1. PICK j \in 1 .. Len(d) : i = Len(id) + 2 + j
        <4>1. i - Len(id) - 2 \in 1 .. Len(d) /\ i = Len(id) + 2 + (i - Len(id) - 2)
          BY <1>4, <2>1, <2>2
        <4>2. QED BY <4>1
      <3>2. QED BY <1>5, <1>17, <3>1
    <2>3. CASE i \in 2 .. Len(id) + 1
      <3>1. PICK j \in 1 .. Len(id) : i = j + 1
        <4>1. i - 1 \in 1 .. Len(id) /\ i = (i - 1) + 1
          BY <1>4, <2>1, <2>3
        <4>2. QED BY <4>1
      <3>2. QED BY <1>5, <1>16, <3>1 DEF Digits
    <2>4. i = 1 \/ i = Len(id) + 2 \/ i > Len(id) + 2 \/ i \in 2 .. Len(id) + 1
      BY <1>4, <2>1
    <2>5. QED BY <1>15, <2>2, <2>3, <2>4
  <1>19. QED BY <1>1, <1>3, <1>4, <1>5, <1>8, <1>12, <1>13, <1>15, <1>16, <1>17, <1>18 DEF d

(* A part of a sequence, by its positions.                                  *)
LEMMA Part ==
    ASSUME NEW S, NEW s \in Seq(S), NEW m \in 1 .. Len(s) + 1, NEW n \in m - 1 .. Len(s)
    PROVE  /\ SubSeq(s, m, n) \in Seq(S) /\ Len(SubSeq(s, m, n)) = n - m + 1
           /\ \A i \in 1 .. n - m + 1 : SubSeq(s, m, n)[i] = s[m + i - 1]
  <1>1. Len(s) \in Nat /\ m \in Int /\ n \in Int /\ n >= m - 1
    BY LenProperties
  <1>2. ASSUME NEW i \in m .. n PROVE s[i] \in S
    <2>1. i \in 1 .. Len(s) BY <1>1
    <2>2. QED BY <2>1, ElementOfSeq
  <1> DEFINE u == SubSeq(s, m, n)
  <1>3. /\ u \in Seq(S) /\ Len(u) = IF m <= n THEN n - m + 1 ELSE 0
        /\ \A i \in 1 .. n - m + 1 : u[i] = s[m + i - 1]
    BY <1>1, <1>2, SubSeqProperties
  <1> HIDE DEF u
  <1>4. Len(u) = n - m + 1
    BY <1>1, <1>3
  <1>5. QED BY <1>3, <1>4 DEF u

LEMMA MinIs ==
    ASSUME NEW S \in SUBSET Int, NEW x \in S, \A y \in S : x <= y
    PROVE  Min(S) = x
  <1>1. \A z \in S : (\A y \in S : z <= y) => z = x
    OBVIOUS
  <1>2. QED BY <1>1 DEF Min

LEMMA MaxIs ==
    ASSUME NEW S \in SUBSET Int, NEW x \in S, \A y \in S : x >= y
    PROVE  Max(S) = x
  <1>1. \A z \in S : (\A y \in S : z >= y) => z = x
    OBVIOUS
  <1>2. QED BY <1>1 DEF Max

(* A buffer that begins with a frame holds the id and the data that were    *)
(* put into it.                                                             *)
LEMMA MessageShape ==
    ASSUME NEW id \in Ids, NEW body \in Bodies, NEW buf \in Seq(Bytes),
           Len(Frame(id, body)) <= Len(buf),
           \A j \in 1 .. Len(Frame(id, body)) : buf[j] = Frame(id, body)[j]
    PROVE  LET msg == SubSeq(buf, 2, Len(Frame(id, body)) - 1)
           IN  /\ WellFormed(msg) /\ IdOf(msg) = id
               /\ SubSeq(msg, IdLength(msg) + 2, Len(msg)) = Serialize(body)
  <1> DEFINE f == Frame(id, body)
             d == Serialize(body)
             msg == SubSeq(buf, 2, Len(f) - 1)
  <1>1. /\ f \in Seq(Bytes) /\ id \in Seq(Digits) /\ d \in Seq(Bytes)
        /\ Len(id) \in Nat \ {0} /\ Len(d) \in Nat
        /\ Len(f) = Len(id) + Len(d) + 3
        /\ f[Len(id) + 2] = "FS"
        /\ \A i \in 1 .. Len(id) : f[i + 1] = id[i] /\ id[i] \in Digits
        /\ \A i \in 1 .. Len(d) : f[Len(id) + 2 + i] = d[i]
    BY FrameShape
  <1>2. Len(f) <= Len(buf) /\ \A j \in 1 .. Len(f) : buf[j] = f[j]
    OBVIOUS
  <1> HIDE DEF f, d
  <1>3. Len(buf) \in Nat
    BY LenProperties
  <1>4. /\ msg \in Seq(Bytes) /\ Len(msg) = Len(id) + Len(d) + 1
        /\ \A i \in 1 .. Len(msg) : msg[i] = f[i + 1]
    <2>1. 2 \in 1 .. Len(buf) + 1 /\ Len(f) - 1 \in 2 - 1 .. Len(buf)
      BY <1>1, <1>2, <1>3
    <2>2. /\ msg \in Seq(Bytes) /\ Len(msg) = (Len(f) - 1) - 2 + 1
          /\ \A i \in 1 .. (Len(f) - 1) - 2 + 1 : msg[i] = buf[2 + i - 1]
      BY <2>1, Part
    <2> HIDE DEF msg
    <2>3. Len(msg) = Len(id) + Len(d) + 1 /\ Len(f) = Len(msg) + 2 /\ Len(msg) \in Nat
      BY <1>1, <2>2
    <2>4. ASSUME NEW i \in 1 .. Len(msg) PROVE msg[i] = f[i + 1]
      <3>1. i \in 1 .. (Len(f) - 1) - 2 + 1 /\ 2 + i - 1 = i + 1 /\ i + 1 \in 1 .. Len(f)
        BY <1>1, <2>3
      <3>2. QED BY <1>2, <2>2, <3>1
    <2>5. QED BY <2>2, <2>3, <2>4
  <1> HIDE DEF msg
  <1>5. ASSUME NEW i \in 1 .. Len(id) PROVE msg[i] = id[i] /\ msg[i] \in Digits
    <2>1. i \in 1 .. Len(msg) BY <1>1, <1>4
    <2>2. QED BY <1>1, <1>4, <2>1
  <1>6. msg[Len(id) + 1] = "FS" /\ Len(id) + 1 <= Len(msg)
    <2>1. Len(id) + 1 \in 1 .. Len(msg) /\ (Len(id) + 1) + 1 = Len(id) + 2 BY <1>1, <1>4
    <2>2. QED BY <1>1, <1>4, <2>1
  <1>7. IdLength(msg) = Len(id)
    <2> DEFINE K == {k \in 0 .. Len(msg) : \A i \in 1 .. k : msg[i] \in Digits}
    <2>1. Len(id) \in K
      BY <1>1, <1>4, <1>5
    <2>2. ASSUME NEW k \in K PROVE Len(id) >= k
      <3> SUFFICES ASSUME Len(id) < k PROVE FALSE
        BY <1>1, <1>4
      <3>1. Len(id) + 1 \in 1 .. k
        BY <1>1, <1>4
      <3>2. QED BY <1>6, <3>1 DEF Digits
    <2>3. K \in SUBSET Int
      BY <1>1, <1>4
    <2> HIDE DEF K
    <2>4. Max(K) = Len(id)
      BY <2>1, <2>2, <2>3, MaxIs
    <2>5. QED BY <2>4 DEF IdLength, K
  <1>8. IdOf(msg) = id
    <2> DEFINE u == SubSeq(msg, 1, Len(id))
    <2>1. 1 \in 1 .. Len(msg) + 1 /\ Len(id) \in 1 - 1 .. Len(msg) /\ Len(id) - 1 + 1 = Len(id)
      BY <1>1, <1>4
    <2>2. /\ u \in Seq(Bytes) /\ Len(u) = Len(id) - 1 + 1
          /\ \A i \in 1 .. Len(id) - 1 + 1 : u[i] = msg[1 + i - 1]
      BY <1>4, <2>1, Part
    <2> HIDE DEF u
    <2>3. id \in Seq(Bytes)
      <3>1. Digits \subseteq Bytes BY DEF Bytes
      <3>2. QED BY <1>1, <3>1, SeqMonotonic
    <2>4. ASSUME NEW i \in 1 .. Len(u) PROVE u[i] = id[i]
      <3>1. i \in 1 .. Len(id) - 1 + 1 /\ i \in 1 .. Len(id) /\ 1 + i - 1 = i
        BY <1>1, <2>1, <2>2
      <3>2. QED BY <1>5, <2>2, <3>1
    <2>5. Len(u) = Len(id) BY <2>1, <2>2
    <2>6. u = id BY <2>2, <2>3, <2>4, <2>5, SeqEqual
    <2>7. QED BY <1>7, <2>6 DEF IdOf, u
  <1>9. SubSeq(msg, IdLength(msg) + 2, Len(msg)) = d
    <2> DEFINE u == SubSeq(msg, Len(id) + 2, Len(msg))
    <2>1. /\ Len(id) + 2 \in 1 .. Len(msg) + 1 /\ Len(msg) \in (Len(id) + 2) - 1 .. Len(msg)
          /\ Len(msg) - (Len(id) + 2) + 1 = Len(d)
      BY <1>1, <1>4
    <2>2. /\ u \in Seq(Bytes) /\ Len(u) = Len(msg) - (Len(id) + 2) + 1
          /\ \A i \in 1 .. Len(msg) - (Len(id) + 2) + 1 : u[i] = msg[(Len(id) + 2) + i - 1]
      BY <1>4, <2>1, Part
    <2> HIDE DEF u
    <2>3. ASSUME NEW i \in 1 .. Len(u) PROVE u[i] = d[i]
      <3>1. i \in 1 .. Len(msg) - (Len(id) + 2) + 1 /\ i \in 1 .. Len(d) BY <2>1, <2>2
      <3>2. /\ (Len(id) + 2) + i - 1 \in 1 .. Len(msg)
            /\ ((Len(id) + 2) + i - 1) + 1 = Len(id) + 2 + i
        BY <1>1, <1>4, <3>1
      <3>3. u[i] = f[Len(id) + 2 + i]
        BY <1>4, <2>2, <3>1, <3>2
      <3>4. QED BY <1>1, <3>1, <3>3
    <2>4. Len(u) = Len(d) BY <2>1, <2>2
    <2>5. u = d BY <1>1, <2>2, <2>3, <2>4, SeqEqual
    <2>6. QED BY <1>7, <2>5 DEF u
  <1>10. WellFormed(msg)
    BY <1>1, <1>4, <1>6, <1>7 DEF WellFormed
  <1>11. QED BY <1>8, <1>9, <1>10 DEF msg, d, f

-----------------------------------------------------------------------------
(* The stream in any state of the invariant.                                *)
LEMMA AnswerTypes ==
    ASSUME AnswersOK
    PROVE  /\ Len(answers) \in Nat /\ DOMAIN answers = 1 .. Len(answers)
           /\ \A k \in 0 .. Len(answers) : Sent(k) \in Nat
           /\ \A k \in 1 .. Len(answers) :
                 /\ answers[k].id \in Ids /\ answers[k].body \in Bodies /\ answers[k].end \in Nat
                 /\ Len(FrameOf(k)) \in Nat /\ Len(FrameOf(k)) >= 4
                 /\ Sent(k) = Sent(k - 1) + Len(FrameOf(k))
           /\ \A j, k \in 0 .. Len(answers) : j <= k => Sent(j) <= Sent(k)
  <1>1. answers \in Seq([id : Ids, body : Bodies, end : Nat])
    BY DEF AnswersOK
  <1>2. Len(answers) \in Nat /\ DOMAIN answers = 1 .. Len(answers)
    BY <1>1, LenProperties
  <1>3. ASSUME NEW k \in 1 .. Len(answers)
        PROVE  /\ answers[k].id \in Ids /\ answers[k].body \in Bodies /\ answers[k].end \in Nat
               /\ Len(FrameOf(k)) \in Nat /\ Len(FrameOf(k)) >= 4
    <2>1. answers[k] \in [id : Ids, body : Bodies, end : Nat]
      BY <1>1, ElementOfSeq
    <2>2. answers[k].id \in Ids /\ answers[k].body \in Bodies /\ answers[k].end \in Nat
      BY <2>1
    <2>3. /\ Len(answers[k].id) \in Nat \ {0} /\ Len(Serialize(answers[k].body)) \in Nat
          /\ Len(FrameOf(k)) = Len(answers[k].id) + Len(Serialize(answers[k].body)) + 3
      BY <2>2, FrameShape DEF FrameOf
    <2> DEFINE a == Len(answers[k].id)
               b == Len(Serialize(answers[k].body))
               c == Len(FrameOf(k))
    <2>4. a \in Nat \ {0} /\ b \in Nat /\ c = a + b + 3
      BY <2>3
    <2> HIDE DEF a, b, c
    <2>5. c \in Nat /\ c >= 4
      BY <2>4
    <2>6. QED BY <2>2, <2>5 DEF c
  <1>4. \A k \in 0 .. Len(answers) : Sent(k) \in Nat
    BY <1>2, <1>3 DEF Sent
  <1>5. QED BY <1>2, <1>3, <1>4 DEF AnswersOK

LEMMA HeadFrame ==
    ASSUME ParseTypeOK, NEW n \in 0 .. Len(answers), Aligned(n), Len(inbuf) > 0
    PROVE  /\ n + 1 \in 1 .. Len(answers)
           /\ inbuf[1] = "STX"
           /\ \A j \in 1 .. Len(FrameOf(n + 1)) : j <= Len(inbuf) => inbuf[j] = FrameOf(n + 1)[j]
           /\ Etxs = {} <=> Len(inbuf) < Len(FrameOf(n + 1))
           /\ UptoEtx = IF Len(inbuf) < Len(FrameOf(n + 1)) THEN 0 ELSE Len(FrameOf(n + 1))
  <1>1. AnswersOK /\ inbuf \in Seq(Bytes) /\ flight \in Seq(Bytes)
    BY DEF ParseTypeOK
  <1>2. Len(inbuf) \in Nat /\ Len(flight) \in Nat /\ DOMAIN inbuf = 1 .. Len(inbuf)
    BY <1>1, LenProperties
  <1>3. /\ Len(answers) \in Nat
        /\ \A k \in 0 .. Len(answers) : Sent(k) \in Nat
    BY <1>1, AnswerTypes
  <1>4. n + 1 \in 1 .. Len(answers)
    <2>1. Length = Sent(Len(answers)) - Sent(n) /\ Length > 0
      BY <1>2 DEF Aligned, Length
    <2>2. n # Len(answers)
      BY <1>3, <2>1
    <2>3. QED BY <1>3, <2>2
  <1> DEFINE f == FrameOf(n + 1)
             id == answers[n + 1].id
             body == answers[n + 1].body
  <1>5. id \in Ids /\ body \in Bodies /\ Len(f) \in Nat /\ Len(f) >= 4
    BY <1>1, <1>4, AnswerTypes
  <1>6. /\ f[1] = "STX" /\ f[Len(f)] = "ETX"
        /\ \A i \in 1 .. Len(f) - 1 : f[i] # "ETX"
    BY <1>5, FrameShape DEF FrameOf
  <1>7. ASSUME NEW j \in 1 .. Len(f), j <= Len(inbuf) PROVE inbuf[j] = f[j]
    <2>1. Byte(Sent((n + 1) - 1) - Sent(n) + j) = f[j]
      BY <1>4 DEF Aligned
    <2>2. (n + 1) - 1 = n BY <1>3
    <2>3. Sent(n) - Sent(n) + j = j BY <1>3, <1>5
    <2>4. QED BY <1>7, <2>1, <2>2, <2>3 DEF Byte
  <1> HIDE DEF f, id, body
  <1>8. inbuf[1] = "STX"
    <2>1. 1 \in 1 .. Len(f) /\ 1 <= Len(inbuf) BY <1>2, <1>5
    <2>2. QED BY <1>6, <1>7, <2>1
  <1>9. CASE Len(inbuf) < Len(f)
    <2>1. ASSUME NEW i \in 1 .. Len(inbuf) PROVE inbuf[i] # "ETX"
      <3>1. i \in 1 .. Len(f) /\ i <= Len(inbuf) /\ i \in 1 .. Len(f) - 1 BY <1>2, <1>5, <1>9
      <3>2. QED BY <1>6, <1>7, <3>1
    <2>2. Etxs = {} BY <1>2, <2>1 DEF Etxs
    <2>3. UptoEtx = 0 BY <2>2 DEF UptoEtx
    <2>4. QED BY <1>4, <1>7, <1>8, <1>9, <2>2, <2>3 DEF f
  <1>10. CASE ~(Len(inbuf) < Len(f))
    <2>1. Len(f) \in 1 .. Len(f) /\ Len(f) <= Len(inbuf) /\ Len(f) \in 1 .. Len(inbuf)
      BY <1>2, <1>5, <1>10
    <2>2. Len(f) \in Etxs
      BY <1>2, <1>6, <1>7, <2>1 DEF Etxs
    <2>3. ASSUME NEW i \in Etxs PROVE Len(f) <= i
      <3> SUFFICES ASSUME i < Len(f) PROVE FALSE
        BY <1>2, <1>5 DEF Etxs
      <3>1. i \in 1 .. Len(f) /\ i <= Len(inbuf) /\ i \in 1 .. Len(f) - 1 /\ inbuf[i] = "ETX"
        BY <1>2, <1>5 DEF Etxs
      <3>2. QED BY <1>6, <1>7, <3>1
    <2>4. Etxs \in SUBSET Int
      BY <1>2 DEF Etxs
    <2>5. Min(Etxs) = Len(f)
      BY <2>2, <2>3, <2>4, MinIs
    <2>6. UptoEtx = Len(f)
      BY <2>2, <2>5 DEF UptoEtx
    <2>7. Etxs # {} BY <2>2
    <2>8. QED BY <1>4, <1>7, <1>8, <1>10, <2>6, <2>7 DEF f
  <1>11. QED BY <1>9, <1>10

(* A complete message is the next answer.                                   *)
LEMMA HeadMessage ==
    ASSUME ParseTypeOK, NEW n \in 0 .. Len(answers), Aligned(n), Len(inbuf) > 0, UptoEtx > 0
    PROVE  /\ n + 1 \in 1 .. Len(answers)
           /\ UptoEtx = Len(FrameOf(n + 1)) /\ UptoEtx <= Len(inbuf)
           /\ WellFormed(Message)
           /\ IdOf(Message) = answers[n + 1].id
           /\ SubSeq(Message, IdLength(Message) + 2, Len(Message)) = Serialize(answers[n + 1].body)
  <1>1. AnswersOK /\ inbuf \in Seq(Bytes)
    BY DEF ParseTypeOK
  <1>2. Len(inbuf) \in Nat
    BY <1>1, LenProperties
  <1>3. /\ n + 1 \in 1 .. Len(answers)
        /\ \A j \in 1 .. Len(FrameOf(n + 1)) : j <= Len(inbuf) => inbuf[j] = FrameOf(n + 1)[j]
        /\ UptoEtx = IF Len(inbuf) < Len(FrameOf(n + 1)) THEN 0 ELSE Len(FrameOf(n + 1))
    BY HeadFrame
  <1> DEFINE id == answers[n + 1].id
             body == answers[n + 1].body
             f == Frame(id, body)
  <1>4. FrameOf(n + 1) = f BY DEF FrameOf
  <1>5. id \in Ids /\ body \in Bodies /\ Len(f) \in Nat
    BY <1>1, <1>3, <1>4, AnswerTypes
  <1>6. UptoEtx = Len(f) /\ Len(f) <= Len(inbuf)
    BY <1>2, <1>3, <1>4, <1>5
  <1>7. \A j \in 1 .. Len(f) : inbuf[j] = f[j]
    <2> SUFFICES ASSUME NEW j \in 1 .. Len(f) PROVE inbuf[j] = f[j] OBVIOUS
    <2>1. j <= Len(inbuf) BY <1>2, <1>5, <1>6
    <2>2. QED BY <1>3, <1>4, <2>1
  <1>8. Message = SubSeq(inbuf, 2, Len(f) - 1)
    BY <1>6 DEF Message
  <1> HIDE DEF id, body
  <1>9. LET msg == SubSeq(inbuf, 2, Len(f) - 1)
        IN  /\ WellFormed(msg) /\ IdOf(msg) = id
            /\ SubSeq(msg, IdLength(msg) + 2, Len(msg)) = Serialize(body)
    BY <1>1, <1>5, <1>6, <1>7, MessageShape
  <1>10. QED BY <1>3, <1>4, <1>6, <1>8, <1>9 DEF id, body

(* Every byte of an answer that has not been parsed off is in the stream.   *)
LEMMA Positions ==
    ASSUME AnswersOK, NEW n \in 0 .. Len(answers), Length = Sent(Len(answers)) - Sent(n),
           NEW k \in n + 1 .. Len(answers), NEW j \in 1 .. Len(FrameOf(k))
    PROVE  Sent(k - 1) - Sent(n) + j \in 1 .. Length
  <1>1. /\ Len(answers) \in Nat /\ k \in 1 .. Len(answers) /\ k - 1 \in 0 .. Len(answers)
        /\ k \in 0 .. Len(answers) /\ Len(answers) \in 0 .. Len(answers) /\ n <= k - 1 /\ k <= Len(answers)
    BY AnswerTypes
  <1>2. /\ Sent(k - 1) \in Nat /\ Sent(k) \in Nat /\ Sent(n) \in Nat /\ Sent(Len(answers)) \in Nat
        /\ Len(FrameOf(k)) \in Nat /\ Sent(k) = Sent(k - 1) + Len(FrameOf(k))
        /\ Sent(n) <= Sent(k - 1) /\ Sent(k) <= Sent(Len(answers))
    BY <1>1, AnswerTypes
  <1>3. QED BY <1>2, SMTT(30)

-----------------------------------------------------------------------------
(* Each step keeps the invariant.                                           *)

(* A new answer lies behind the old ones.                                   *)
LEMMA AnswerGrows ==
    ASSUME AnswersOK, NEW id \in Ids, NEW body \in Bodies, Answer(id, body),
           NEW N, N = Len(answers)
    PROVE  /\ Len(answers') = N + 1
           /\ \A k \in 1 .. N : answers'[k] = answers[k] /\ FrameOf(k)' = FrameOf(k)
           /\ \A k \in 0 .. N : Sent(k)' = Sent(k)
           /\ FrameOf(N + 1)' = Frame(id, body)
           /\ Sent(N + 1)' = Sent(N) + Len(Frame(id, body))
           /\ AnswersOK'
  <1> DEFINE R == [id : Ids, body : Bodies, end : Nat]
             L == Len(Frame(id, body))
             e == [id |-> id, body |-> body, end |-> Sent(N) + L]
  <1>1. answers \in Seq(R) /\ answers' = Append(answers, e)
    BY DEF AnswersOK, Answer, Sent
  <1>2. N \in Nat /\ Sent(N) \in Nat
    <2>1. N \in Nat BY AnswerTypes
    <2>2. N \in 0 .. N BY <2>1
    <2>3. QED BY <2>1, <2>2, AnswerTypes
  <1>3. L \in Nat
    <2>1. Frame(id, body) \in Seq(Bytes) BY FrameShape
    <2>2. QED BY <2>1, LenProperties
  <1> HIDE DEF L
  <1>4. e \in R
    BY <1>2, <1>3
  <1>5. /\ answers' \in Seq(R) /\ Len(answers') = N + 1
        /\ \A k \in 1 .. N : answers'[k] = answers[k]
        /\ answers'[N + 1] = e
    BY <1>1, <1>4, AppendProperties
  <1> HIDE DEF e
  <1>6. \A k \in 1 .. N : FrameOf(k)' = FrameOf(k)
    BY <1>5 DEF FrameOf
  <1>7. ASSUME NEW k \in 0 .. N PROVE Sent(k)' = Sent(k)
    <2>1. k = 0 \/ k \in 1 .. N BY <1>2
    <2>2. QED BY <1>5, <2>1 DEF Sent
  <1>8. FrameOf(N + 1)' = Frame(id, body)
    BY <1>5 DEF FrameOf, e
  <1>9. Sent(N + 1)' = Sent(N) + L
    BY <1>2, <1>5 DEF Sent, e
  <1>10. AnswersOK'
    <2>1. ASSUME NEW k \in 1 .. N + 1 PROVE Sent(k)' = Sent(k - 1)' + Len(FrameOf(k)')
      <3>1. CASE k = N + 1
        <4>1. k - 1 = N /\ N \in 0 .. N BY <1>2, <3>1
        <4>2. QED BY <1>7, <1>8, <1>9, <3>1, <4>1 DEF L
      <3>2. CASE k # N + 1
        <4>1. k \in 1 .. N /\ k \in 0 .. N /\ k - 1 \in 0 .. N BY <1>2, <3>2
        <4>2. Sent(k) = Sent(k - 1) + Len(FrameOf(k)) BY <4>1 DEF AnswersOK
        <4>3. QED BY <1>6, <1>7, <4>1, <4>2
      <3>3. QED BY <3>1, <3>2
    <2>2. ASSUME NEW j \in 0 .. N + 1, NEW k \in 0 .. N + 1, j <= k PROVE Sent(j)' <= Sent(k)'
      <3>1. CASE k = N + 1
        <4>1. CASE j = N + 1
          BY <1>2, <1>3, <1>9, <3>1, <4>1
        <4>2. CASE j # N + 1
          <5>1. j \in 0 .. N /\ N \in 0 .. N /\ j <= N BY <1>2, <4>2
          <5>2. Sent(j) <= Sent(N) /\ Sent(j) \in Nat BY <5>1, AnswerTypes
          <5>3. Sent(j)' = Sent(j) BY <1>7, <5>1
          <5>4. QED BY <1>2, <1>3, <1>9, <3>1, <5>2, <5>3
        <4>3. QED BY <4>1, <4>2
      <3>2. CASE k # N + 1
        <4>1. j \in 0 .. N /\ k \in 0 .. N BY <1>2, <2>2, <3>2
        <4>2. Sent(j) <= Sent(k) BY <2>2, <4>1 DEF AnswersOK
        <4>3. QED BY <1>7, <4>1, <4>2
      <3>3. QED BY <3>1, <3>2
    <2>3. QED BY <1>5, <2>1, <2>2 DEF AnswersOK
  <1>11. QED BY <1>5, <1>6, <1>7, <1>8, <1>9, <1>10 DEF L

LEMMA AnswerAligned ==
    ASSUME ParseTypeOK, NEW n \in 0 .. Len(answers), Aligned(n),
           NEW id \in Ids, NEW body \in Bodies, Answer(id, body)
    PROVE  Aligned(n)'
  <1> DEFINE f == Frame(id, body)
  <1>0. PICK N : N = Len(answers) OBVIOUS
  <1>1. /\ AnswersOK /\ inbuf \in Seq(Bytes) /\ flight \in Seq(Bytes)
        /\ inbuf' = inbuf /\ flight' = flight \o f
    BY DEF ParseTypeOK, Answer
  <1>2. f \in Seq(Bytes) BY FrameShape
  <1>3. /\ N \in Nat /\ N \in 0 .. N /\ n \in 0 .. N
        /\ \A k \in 0 .. N : Sent(k) \in Nat
        /\ \A k \in 1 .. N : Len(FrameOf(k)) \in Nat
    <2>1. N \in Nat BY <1>0, <1>1, AnswerTypes
    <2>2. N \in 0 .. N BY <2>1
    <2>3. QED BY <1>0, <1>1, <2>1, <2>2, AnswerTypes
  <1>4. /\ Len(answers') = N + 1
        /\ \A k \in 1 .. N : FrameOf(k)' = FrameOf(k)
        /\ \A k \in 0 .. N : Sent(k)' = Sent(k)
        /\ FrameOf(N + 1)' = f
        /\ Sent(N + 1)' = Sent(N) + Len(f)
    BY <1>0, <1>1, AnswerGrows
  <1> HIDE DEF f
  <1>5. /\ Len(inbuf) \in Nat /\ Len(flight) \in Nat /\ Len(f) \in Nat
        /\ Len(flight') = Len(flight) + Len(f)
        /\ \A i \in 1 .. Len(flight) : flight'[i] = flight[i]
        /\ \A i \in 1 .. Len(f) : flight'[Len(flight) + i] = f[i]
    <2>1. Len(inbuf) \in Nat BY <1>1, LenProperties
    <2>2. QED BY <1>1, <1>2, <2>1, Join
  <1>6. Length = Sent(N) - Sent(n) /\ Length = Len(inbuf) + Len(flight)
    BY <1>0 DEF Aligned, Length
  <1>7. Length' = Sent(Len(answers))' - Sent(n)'
    <2>1. Sent(Len(answers))' = Sent(N) + Len(f)
      <3>1. Sent(Len(answers))' = Sent(N + 1)' BY <1>4 DEF Sent
      <3>2. QED BY <1>4, <3>1
    <2>2. Sent(n)' = Sent(n) BY <1>3, <1>4
    <2>3. Length' = Len(inbuf) + Len(flight) + Len(f) BY <1>1, <1>5 DEF Length
    <2>4. Sent(N) \in Nat /\ Sent(n) \in Nat BY <1>3
    <2>5. QED BY <1>5, <1>6, <2>1, <2>2, <2>3, <2>4, SMTT(30)
  <1>8. ASSUME NEW p \in 1 .. Length PROVE Byte(p)' = Byte(p)
    <2>1. CASE p <= Len(inbuf) BY <1>1, <2>1 DEF Byte
    <2>2. CASE ~(p <= Len(inbuf))
      <3>1. p - Len(inbuf) \in 1 .. Len(flight) BY <1>5, <1>6, <2>2
      <3>2. QED BY <1>1, <1>5, <2>2, <3>1 DEF Byte
    <2>3. QED BY <2>1, <2>2
  <1>9. ASSUME NEW j \in 1 .. Len(f), NEW p, p = Length + j PROVE Byte(p)' = f[j]
    <2>1. ~(p <= Len(inbuf)) /\ p - Len(inbuf) = Len(flight) + j
      BY <1>5, <1>6, <1>9
    <2>2. Byte(p)' = flight'[Len(flight) + j]
      BY <1>1, <2>1 DEF Byte
    <2>3. QED BY <1>5, <2>2
  <1>10. ASSUME NEW k \in n + 1 .. N + 1, NEW j \in 1 .. Len(FrameOf(k)')
         PROVE  Byte(Sent(k - 1) - Sent(n) + j)' = FrameOf(k)'[j]
    <2>1. k - 1 \in 0 .. N BY <1>3
    <2>2. Sent(k - 1)' = Sent(k - 1) /\ Sent(n)' = Sent(n) BY <1>3, <1>4, <2>1
    <2> DEFINE q == Sent(k - 1) - Sent(n) + j
    <2>3. PICK p : p = q OBVIOUS
    <2>4. (Sent(k - 1) - Sent(n) + j)' = p BY <2>2, <2>3
    <2>5. Byte(Sent(k - 1) - Sent(n) + j)' = Byte(p)' BY <2>4 DEF Byte
    <2>6. CASE k = N + 1
      <3>1. k - 1 = N BY <1>3, <2>6
      <3>2. j \in 1 .. Len(f) /\ p = Length + j BY <1>4, <1>6, <2>3, <2>6, <3>1
      <3>3. QED BY <1>4, <1>9, <2>5, <2>6, <3>2
    <2>7. CASE k # N + 1
      <3>1. k \in n + 1 .. N /\ k \in 1 .. N BY <1>3, <2>7
      <3>2. j \in 1 .. Len(FrameOf(k)) BY <1>4, <3>1
      <3>3. p \in 1 .. Length BY <1>0, <1>1, <1>6, <2>3, <3>1, <3>2, Positions
      <3>4. Byte(p) = FrameOf(k)[j] BY <1>0, <2>3, <3>1, <3>2 DEF Aligned
      <3>5. QED BY <1>4, <1>8, <2>5, <3>1, <3>3, <3>4
    <2>8. QED BY <2>6, <2>7
  <1>11. QED BY <1>4, <1>7, <1>10 DEF Aligned

(* What has been read stays read.                                           *)
LEMMA ReadKept ==
    ASSUME NEW n \in Nat, \A k \in 1 .. n : answers'[k] = answers[k],
           tstatus' = tstatus, response' = response, NEW id, ReadFine(n, id)
    PROVE  ReadFine(n, id)'
  <1>1. ASSUME NEW k \in 1 .. n, First(k, id) PROVE First(k, id)'
    <2>1. \A j \in 1 .. k - 1 : j \in 1 .. n
      OBVIOUS
    <2>2. QED BY <1>1, <2>1 DEF First
  <1>2. tstatus[id] = "PENDING" => \A k \in 1 .. n : answers'[k].id # id
    BY DEF ReadFine
  <1>3. tstatus[id] # "DONE" => response[id] = NoResponse
    BY DEF ReadFine
  <1>4. ASSUME tstatus[id] = "DONE"
        PROVE  \E k \in 1 .. n :
                  First(k, id)' /\ response[id] \in Taken(ResponseTo(Serialize(answers'[k].body)))
    <2>1. PICK k \in 1 .. n : First(k, id) /\ response[id] \in Taken(ResponseTo(Serialize(answers[k].body)))
      BY <1>4 DEF ReadFine
    <2>2. answers'[k] = answers[k]
      OBVIOUS
    <2>3. QED BY <1>1, <2>1, <2>2
  <1>5. QED BY <1>2, <1>3, <1>4 DEF ReadFine, Taken

LEMMA AnswerStep ==
    ASSUME ParseInv, NEW id \in Ids, NEW body \in Bodies, Answer(id, body)
    PROVE  ParseInv'
  <1>1. /\ ParseTypeOK /\ AnswersOK /\ inbuf' = inbuf /\ verdict' = verdict
        /\ tstatus' = tstatus /\ response' = response /\ flight' = flight \o Frame(id, body)
    BY DEF ParseInv, ParseTypeOK, Answer
  <1>2. PICK n \in Nat : Parsed(n)
    BY DEF ParseInv
  <1>3. PICK N : N = Len(answers)
    OBVIOUS
  <1>4. N \in Nat /\ DOMAIN answers = 1 .. N
    BY <1>1, <1>3, AnswerTypes
  <1>5. /\ Len(answers') = N + 1
        /\ \A k \in 1 .. N : answers'[k] = answers[k] /\ FrameOf(k)' = FrameOf(k)
        /\ AnswersOK'
    BY <1>1, <1>3, AnswerGrows
  <1>6. ParseTypeOK'
    <2>1. Frame(id, body) \in Seq(Bytes) BY FrameShape
    <2>2. flight \in Seq(Bytes) BY <1>1 DEF ParseTypeOK
    <2>3. flight' \in Seq(Bytes) BY <1>1, <2>1, <2>2, Join
    <2>4. QED BY <1>1, <1>5, <2>3 DEF ParseTypeOK
  <1>7. Parsed(n)'
    <2>1. n \in 0 .. N /\ n \in 0 .. N + 1
      BY <1>2, <1>3, <1>4 DEF Parsed
    <2>2. \A k \in 1 .. n : answers'[k] = answers[k]
      BY <1>4, <1>5, <2>1
    <2>3. \A i \in Ids : ReadFine(n, i)'
      BY <1>1, <1>2, <2>2, ReadKept DEF Parsed
    <2>4. verdict' # "error" => Aligned(n)'
      BY <1>1, <1>2, <1>3, <2>1, AnswerAligned DEF Parsed
    <2>5. Etxs' = Etxs
      BY <1>1 DEF Etxs
    <2>6. verdict' = "rest" => Len(inbuf') < MinMessage \/ Etxs' = {}
      BY <1>1, <1>2, <2>5 DEF Parsed
    <2>7. QED BY <1>5, <2>1, <2>3, <2>4, <2>6 DEF Parsed, MinMessage
  <1>8. ErrorNeedsEmptyAnswer'
    <2> SUFFICES ASSUME verdict' = "error" PROVE \E k \in DOMAIN answers' : Len(FrameOf(k)') < 5
      BY DEF ErrorNeedsEmptyAnswer
    <2>1. PICK k \in DOMAIN answers : Len(FrameOf(k)) < 5
      BY <1>1 DEF ParseInv, ErrorNeedsEmptyAnswer
    <2>2. DOMAIN answers' = 1 .. N + 1
      <3>1. answers' \in Seq([id : Ids, body : Bodies, end : Nat]) BY <1>5 DEF AnswersOK
      <3>2. QED BY <1>5, <3>1, LenProperties
    <2>3. k \in 1 .. N /\ k \in DOMAIN answers'
      BY <1>4, <2>1, <2>2
    <2>4. QED BY <1>5, <2>1, <2>3
  <1>9. QED BY <1>2, <1>6, <1>7, <1>8 DEF ParseInv

(* Receiving moves bytes, and reorders none.                                *)
LEMMA ReceiveMoves ==
    ASSUME inbuf \in Seq(Bytes), flight \in Seq(Bytes), NEW m \in 1 .. Len(flight), Receive(m)
    PROVE  /\ inbuf' \in Seq(Bytes) /\ flight' \in Seq(Bytes) /\ Length' = Length
           /\ \A p \in 1 .. Length : Byte(p)' = Byte(p)
  <1> DEFINE a == SubSeq(flight, 1, m)
  <1>1. Len(inbuf) \in Nat /\ Len(flight) \in Nat
    BY LenProperties
  <1>2. /\ a \in Seq(Bytes) /\ Len(a) = m
        /\ \A i \in 1 .. m : a[i] = flight[i]
    <2>1. /\ 1 \in 1 .. Len(flight) + 1 /\ m \in 1 - 1 .. Len(flight) /\ m - 1 + 1 = m
          /\ \A i \in 1 .. m : 1 + i - 1 = i
      BY <1>1
    <2>2. /\ a \in Seq(Bytes) /\ Len(a) = m - 1 + 1
          /\ \A i \in 1 .. m - 1 + 1 : a[i] = flight[1 + i - 1]
      BY <2>1, Part
    <2> HIDE DEF a
    <2>3. QED BY <2>1, <2>2
  <1>3. /\ flight' \in Seq(Bytes) /\ Len(flight') = Len(flight) - m
        /\ \A i \in 1 .. Len(flight) - m : flight'[i] = flight[m + i]
    <2>1. /\ m + 1 \in 1 .. Len(flight) + 1 /\ Len(flight) \in (m + 1) - 1 .. Len(flight)
          /\ Len(flight) - (m + 1) + 1 = Len(flight) - m
          /\ \A i \in 1 .. Len(flight) - m : (m + 1) + i - 1 = m + i
      BY <1>1
    <2> DEFINE b == SubSeq(flight, m + 1, Len(flight))
    <2>2. /\ b \in Seq(Bytes) /\ Len(b) = Len(flight) - (m + 1) + 1
          /\ \A i \in 1 .. Len(flight) - (m + 1) + 1 : b[i] = flight[(m + 1) + i - 1]
      <3>1. m + 1 \in 1 .. Len(flight) + 1 /\ Len(flight) \in (m + 1) - 1 .. Len(flight) BY <2>1
      <3>2. QED BY <3>1, Part
    <2>3. flight' = b BY DEF Receive
    <2> HIDE DEF b
    <2>4. QED BY <2>1, <2>2, <2>3
  <1>4. inbuf' = inbuf \o a BY DEF Receive
  <1> HIDE DEF a
  <1>5. /\ inbuf' \in Seq(Bytes) /\ Len(inbuf') = Len(inbuf) + m
        /\ \A i \in 1 .. Len(inbuf) : inbuf'[i] = inbuf[i]
        /\ \A i \in 1 .. m : inbuf'[Len(inbuf) + i] = a[i]
    <2>1. a \in Seq(Bytes) /\ Len(a) = m BY <1>2
    <2>2. QED BY <1>4, <2>1, Join
  <1>6. Length' = Length
    BY <1>1, <1>3, <1>5 DEF Length
  <1>7. ASSUME NEW p \in 1 .. Length PROVE Byte(p)' = Byte(p)
    <2>1. p \in Nat /\ p >= 1 /\ p <= Len(inbuf) + Len(flight)
      BY <1>1 DEF Length
    <2>2. CASE p <= Len(inbuf)
      <3>1. p \in 1 .. Len(inbuf) /\ p <= Len(inbuf') BY <1>1, <1>5, <2>1, <2>2
      <3>2. QED BY <1>5, <2>2, <3>1 DEF Byte
    <2>3. CASE ~(p <= Len(inbuf)) /\ p <= Len(inbuf) + m
      <3>1. PICK i \in 1 .. m : p = Len(inbuf) + i
        <4>1. p - Len(inbuf) \in 1 .. m /\ p = Len(inbuf) + (p - Len(inbuf)) BY <1>1, <2>1, <2>3
        <4>2. QED BY <4>1
      <3>2. p <= Len(inbuf') /\ p - Len(inbuf) = i BY <1>1, <1>5, <2>3, <3>1
      <3>3. inbuf'[p] = flight[i] BY <1>2, <1>5, <3>1
      <3>4. QED BY <2>3, <3>2, <3>3 DEF Byte
    <2>4. CASE ~(p <= Len(inbuf) + m)
      <3>1. /\ p - Len(inbuf') \in 1 .. Len(flight) - m /\ ~(p <= Len(inbuf')) /\ ~(p <= Len(inbuf))
            /\ m + (p - Len(inbuf')) = p - Len(inbuf)
        BY <1>1, <1>5, <2>1, <2>4
      <3>2. flight'[p - Len(inbuf')] = flight[p - Len(inbuf)] BY <1>3, <3>1
      <3>3. QED BY <3>1, <3>2 DEF Byte
    <2>5. QED BY <2>2, <2>3, <2>4
  <1>8. QED BY <1>3, <1>5, <1>6, <1>7

LEMMA ReceiveStep ==
    ASSUME ParseInv, NEW m \in 1 .. Len(flight), Receive(m)
    PROVE  ParseInv'
  <1>1. /\ ParseTypeOK /\ AnswersOK /\ inbuf \in Seq(Bytes) /\ flight \in Seq(Bytes)
        /\ verdict = "rest" /\ verdict' = "parse"
        /\ answers' = answers /\ tstatus' = tstatus /\ response' = response
    BY DEF ParseInv, ParseTypeOK, Receive
  <1>2. PICK n \in Nat : Parsed(n)
    BY DEF ParseInv
  <1>3. /\ inbuf' \in Seq(Bytes) /\ flight' \in Seq(Bytes) /\ Length' = Length
        /\ \A p \in 1 .. Length : Byte(p)' = Byte(p)
    BY <1>1, ReceiveMoves
  <1>4. AnswersOK'
    BY <1>1 DEF AnswersOK, Sent, FrameOf
  <1>5. ParseTypeOK'
    BY <1>1, <1>3, <1>4 DEF ParseTypeOK
  <1>6. Aligned(n)'
    <2>1. Aligned(n) /\ n \in 0 .. Len(answers) BY <1>1, <1>2 DEF Parsed
    <2>2. /\ \A k : Sent(k)' = Sent(k) /\ FrameOf(k)' = FrameOf(k)
      BY <1>1 DEF Sent, FrameOf
    <2>3. Length' = Sent(Len(answers))' - Sent(n)'
      <3>1. Length = Sent(Len(answers)) - Sent(n) BY <2>1 DEF Aligned
      <3>2. Sent(Len(answers))' = Sent(Len(answers)) BY <1>1 DEF Sent
      <3>3. QED BY <1>3, <2>2, <3>1, <3>2
    <2>4. ASSUME NEW k \in n + 1 .. Len(answers'), NEW j \in 1 .. Len(FrameOf(k)')
          PROVE  Byte(Sent(k - 1) - Sent(n) + j)' = FrameOf(k)'[j]
      <3>1. k \in n + 1 .. Len(answers) /\ j \in 1 .. Len(FrameOf(k)) BY <1>1, <2>2
      <3>2. PICK p : p = Sent(k - 1) - Sent(n) + j OBVIOUS
      <3>3. (Sent(k - 1) - Sent(n) + j)' = p BY <2>2, <3>2
      <3>4. Byte(Sent(k - 1) - Sent(n) + j)' = Byte(p)' BY <3>3 DEF Byte
      <3>5. p \in 1 .. Length BY <1>1, <2>1, <3>1, <3>2, Positions DEF Aligned
      <3>6. Byte(p) = FrameOf(k)[j] BY <2>1, <3>1, <3>2 DEF Aligned
      <3>7. QED BY <1>3, <2>2, <3>4, <3>5, <3>6
    <2>5. QED BY <2>3, <2>4 DEF Aligned
  <1>7. \A i \in Ids : ReadFine(n, i)'
    BY <1>1, <1>2, ReadKept DEF Parsed
  <1>8. Parsed(n)'
    BY <1>1, <1>2, <1>6, <1>7 DEF Parsed
  <1>9. ErrorNeedsEmptyAnswer'
    BY <1>1 DEF ErrorNeedsEmptyAnswer
  <1>10. QED BY <1>5, <1>8, <1>9 DEF ParseInv

LEMMA ParseWaitStep == ParseInv /\ ParseWait => ParseInv'
  <1> SUFFICES ASSUME ParseInv, ParseWait PROVE ParseInv'
    OBVIOUS
  <1>1. /\ ParseTypeOK /\ verdict = "parse" /\ verdict' = "rest"
        /\ answers' = answers /\ tstatus' = tstatus /\ response' = response
        /\ inbuf' = inbuf /\ flight' = flight
    BY DEF ParseInv, ParseWait
  <1>2. PICK n \in Nat : Parsed(n)
    BY DEF ParseInv
  <1>3. Aligned(n) /\ n \in 0 .. Len(answers)
    BY <1>1, <1>2 DEF Parsed
  <1>4. Len(inbuf) \in Nat
    BY <1>1, LenProperties DEF ParseTypeOK
  <1>5. Len(inbuf) < MinMessage \/ Etxs = {}
    <2> SUFFICES ASSUME Len(inbuf) >= 5 PROVE Etxs = {}
      BY <1>4 DEF MinMessage
    <2>1. UptoEtx = 0
      BY <1>1 DEF ParseWait, Buffered, MinMessage
    <2>2. /\ n + 1 \in 1 .. Len(answers)
          /\ Etxs = {} <=> Len(inbuf) < Len(FrameOf(n + 1))
          /\ UptoEtx = IF Len(inbuf) < Len(FrameOf(n + 1)) THEN 0 ELSE Len(FrameOf(n + 1))
      BY <1>1, <1>3, <1>4, HeadFrame
    <2>3. Len(FrameOf(n + 1)) >= 4 /\ Len(FrameOf(n + 1)) \in Nat
      BY <1>1, <2>2, AnswerTypes DEF ParseTypeOK
    <2>4. QED BY <2>1, <2>2, <2>3
  <1>6. Etxs' = Etxs /\ AnswersOK' /\ Aligned(n)'
    BY <1>1, <1>3 DEF ParseTypeOK, AnswersOK, Sent, FrameOf, Etxs, Aligned, Length, Byte
  <1>7. \A i \in Ids : ReadFine(n, i)'
    BY <1>1, <1>2, ReadKept DEF Parsed
  <1>8. ParseTypeOK'
    BY <1>1, <1>6 DEF ParseTypeOK
  <1>9. Parsed(n)'
    BY <1>1, <1>3, <1>5, <1>6, <1>7 DEF Parsed, MinMessage
  <1>10. ErrorNeedsEmptyAnswer'
    BY <1>1 DEF ErrorNeedsEmptyAnswer
  <1>11. QED BY <1>8, <1>9, <1>10 DEF ParseInv

(* The only answer taken for a malformed message is one without data.       *)
LEMMA ParseErrorStep == ParseInv /\ ParseError => ParseInv'
  <1> SUFFICES ASSUME ParseInv, ParseError PROVE ParseInv'
    OBVIOUS
  <1>1. /\ ParseTypeOK /\ AnswersOK /\ verdict = "parse" /\ verdict' = "error"
        /\ answers' = answers /\ tstatus' = tstatus /\ response' = response
        /\ inbuf' = <<>> /\ flight' = flight /\ Len(inbuf) >= 5
        /\ \/ inbuf[1] # "STX"
           \/ UptoEtx > 0 /\ (UptoEtx < 5 \/ ~WellFormed(Message))
    BY DEF ParseInv, ParseTypeOK, ParseError, Buffered, MinMessage
  <1>2. PICK n \in Nat : Parsed(n)
    BY DEF ParseInv
  <1>3. Aligned(n) /\ n \in 0 .. Len(answers)
    BY <1>1, <1>2 DEF Parsed
  <1>4. Len(inbuf) \in Nat
    BY <1>1, LenProperties DEF ParseTypeOK
  <1>5. inbuf[1] = "STX"
    BY <1>1, <1>3, <1>4, HeadFrame
  <1>6. UptoEtx > 0
    BY <1>1, <1>5
  <1>7. n + 1 \in 1 .. Len(answers) /\ UptoEtx = Len(FrameOf(n + 1)) /\ WellFormed(Message)
    BY <1>1, <1>3, <1>4, <1>6, HeadMessage
  <1>8. Len(FrameOf(n + 1)) < 5
    BY <1>1, <1>5, <1>7
  <1>9. ErrorNeedsEmptyAnswer'
    <2>1. n + 1 \in DOMAIN answers
      BY <1>1, <1>7, AnswerTypes
    <2>2. FrameOf(n + 1)' = FrameOf(n + 1)
      BY <1>1 DEF FrameOf
    <2>3. QED BY <1>1, <1>8, <2>1, <2>2 DEF ErrorNeedsEmptyAnswer
  <1>10. AnswersOK'
    BY <1>1 DEF AnswersOK, Sent, FrameOf
  <1>11. ParseTypeOK'
    <2>1. <<>> \in Seq(Bytes) BY EmptySeq
    <2>2. QED BY <1>1, <1>10, <2>1 DEF ParseTypeOK
  <1>12. \A i \in Ids : ReadFine(n, i)'
    BY <1>1, <1>2, ReadKept DEF Parsed
  <1>13. Parsed(n)'
    BY <1>1, <1>3, <1>12 DEF Parsed
  <1>14. QED BY <1>9, <1>11, <1>13 DEF ParseInv

(* Behind a message the stream goes on with the next answer.                *)
LEMMA MsgAligned ==
    ASSUME ParseTypeOK, NEW n \in 0 .. Len(answers), Aligned(n), ParseMsg
    PROVE  n + 1 \in 1 .. Len(answers) /\ inbuf' \in Seq(Bytes) /\ Aligned(n + 1)'
  <1>1. /\ AnswersOK /\ inbuf \in Seq(Bytes) /\ flight \in Seq(Bytes)
        /\ Len(inbuf) >= 5 /\ UptoEtx >= 5
        /\ inbuf' = SubSeq(inbuf, UptoEtx + 1, Len(inbuf))
        /\ answers' = answers /\ flight' = flight
    BY DEF ParseTypeOK, ParseMsg, Buffered, MinMessage
  <1>2. Len(inbuf) \in Nat /\ Len(flight) \in Nat
    BY <1>1, LenProperties
  <1>3. PICK L : L = Len(FrameOf(n + 1))
    OBVIOUS
  <1>4. UptoEtx > 0
    <2>1. UptoEtx = 0 \/ UptoEtx \in Nat
      <3>1. n + 1 \in 1 .. Len(answers) /\ UptoEtx \in {0, Len(FrameOf(n + 1))}
        BY <1>1, <1>2, HeadFrame
      <3>2. Len(FrameOf(n + 1)) \in Nat BY <1>1, <3>1, AnswerTypes
      <3>3. QED BY <3>1, <3>2
    <2>2. QED BY <1>1, <2>1
  <1>5. n + 1 \in 1 .. Len(answers) /\ UptoEtx = L /\ L <= Len(inbuf)
    BY <1>1, <1>2, <1>3, <1>4, HeadMessage
  <1>6. L \in Nat /\ L >= 5 /\ Len(answers) \in Nat
    BY <1>1, <1>3, <1>5, AnswerTypes
  <1>7. /\ inbuf' \in Seq(Bytes) /\ Len(inbuf') = Len(inbuf) - L
        /\ \A i \in 1 .. Len(inbuf) - L : inbuf'[i] = inbuf[L + i]
    <2> DEFINE b == SubSeq(inbuf, L + 1, Len(inbuf))
    <2>1. L + 1 \in 1 .. Len(inbuf) + 1 /\ Len(inbuf) \in (L + 1) - 1 .. Len(inbuf)
      BY <1>2, <1>5, <1>6
    <2>2. /\ b \in Seq(Bytes) /\ Len(b) = Len(inbuf) - (L + 1) + 1
          /\ \A i \in 1 .. Len(inbuf) - (L + 1) + 1 : b[i] = inbuf[(L + 1) + i - 1]
      BY <1>1, <2>1, Part
    <2>3. inbuf' = b BY <1>1, <1>5
    <2> HIDE DEF b
    <2>4. /\ Len(inbuf) - (L + 1) + 1 = Len(inbuf) - L
          /\ \A i \in 1 .. Len(inbuf) - L : (L + 1) + i - 1 = L + i
      BY <1>2, <1>6
    <2>5. QED BY <2>2, <2>3, <2>4
  <1>8. /\ \A k : Sent(k)' = Sent(k) /\ FrameOf(k)' = FrameOf(k)
    BY <1>1 DEF Sent, FrameOf
  <1>9. /\ Sent(n) \in Nat /\ Sent(n + 1) \in Nat /\ Sent(Len(answers)) \in Nat
        /\ Sent(n + 1) = Sent(n) + L
    <2>1. /\ n + 1 \in 0 .. Len(answers) /\ Len(answers) \in 0 .. Len(answers) /\ (n + 1) - 1 = n
      BY <1>5, <1>6
    <2>2. Sent(n + 1) = Sent((n + 1) - 1) + L BY <1>1, <1>3, <1>5, AnswerTypes
    <2>3. QED BY <1>1, <2>1, <2>2, AnswerTypes
  <1>10. Length = Sent(Len(answers)) - Sent(n) /\ Length = Len(inbuf) + Len(flight)
    BY DEF Aligned, Length
  <1>11. Length' = Sent(Len(answers))' - Sent(n + 1)'
    <2>1. Sent(Len(answers))' = Sent(Len(answers)) BY <1>1 DEF Sent
    <2>2. Length' = Len(inbuf) - L + Len(flight) BY <1>1, <1>7 DEF Length
    <2>3. Sent(n + 1)' = Sent(n) + L BY <1>8, <1>9
    <2>4. \A a, b, c, d \in Nat : a + b = c - d => a - L + b = c - (d + L)
      BY <1>6
    <2>5. Len(inbuf) - L + Len(flight) = Sent(Len(answers)) - (Sent(n) + L)
      BY <1>2, <1>9, <1>10, <2>4, SMTT(30)
    <2>6. QED BY <2>1, <2>2, <2>3, <2>5
  <1>12. ASSUME NEW p \in Nat, NEW q, q = p + L, p >= 1, q <= Length PROVE Byte(p)' = Byte(q)
    <2>1. CASE q <= Len(inbuf)
      <3>1. p \in 1 .. Len(inbuf) - L /\ p <= Len(inbuf') /\ q = L + p
        BY <1>2, <1>6, <1>7, <1>12, <2>1
      <3>2. QED BY <1>7, <2>1, <3>1 DEF Byte
    <2>2. CASE ~(q <= Len(inbuf))
      <3>1. ~(p <= Len(inbuf')) /\ p - Len(inbuf') = q - Len(inbuf)
        BY <1>2, <1>6, <1>7, <1>12, <2>2
      <3>2. QED BY <1>1, <2>2, <3>1 DEF Byte
    <2>3. QED BY <2>1, <2>2
  <1>13. ASSUME NEW k \in (n + 1) + 1 .. Len(answers'), NEW j \in 1 .. Len(FrameOf(k)')
         PROVE  Byte(Sent(k - 1) - Sent(n + 1) + j)' = FrameOf(k)'[j]
    <2>1. /\ k \in n + 1 .. Len(answers) /\ k \in 1 .. Len(answers) /\ k - 1 \in 0 .. Len(answers)
          /\ n + 1 \in 0 .. Len(answers) /\ n + 1 <= k - 1
      BY <1>1, <1>5, <1>6
    <2>2. j \in 1 .. Len(FrameOf(k)) BY <1>8
    <2>3. Sent(k - 1) \in Nat /\ Sent(n + 1) <= Sent(k - 1) /\ Len(FrameOf(k)) \in Nat
      BY <1>1, <2>1, AnswerTypes
    <2>4. PICK p : p = Sent(k - 1) - Sent(n + 1) + j OBVIOUS
    <2>5. PICK q : q = Sent(k - 1) - Sent(n) + j OBVIOUS
    <2>6. (Sent(k - 1) - Sent(n + 1) + j)' = p BY <1>8, <2>4
    <2>7. Byte(Sent(k - 1) - Sent(n + 1) + j)' = Byte(p)' BY <2>6 DEF Byte
    <2>8. q \in 1 .. Length BY <1>1, <1>10, <2>1, <2>2, <2>5, Positions
    <2>9. Byte(q) = FrameOf(k)[j] BY <2>1, <2>2, <2>5 DEF Aligned
    <2>10. p \in Nat /\ q = p + L /\ p >= 1 /\ q <= Length
      <3>1. j \in Nat /\ j >= 1 BY <2>2, <2>3
      <3>2. L \in Nat BY <1>6
      <3>3. p \in Nat /\ q = p + L /\ p >= 1
        <4> DEFINE a == Sent(k - 1)
                   b == Sent(n + 1)
                   c == Sent(n)
        <4>1. /\ a \in Nat /\ b \in Nat /\ c \in Nat /\ b <= a /\ b = c + L
              /\ p = a - b + j /\ q = a - c + j
          BY <1>9, <2>3, <2>4, <2>5
        <4> HIDE DEF a, b, c
        <4>2. QED BY <3>1, <3>2, <4>1
      <3>4. Length \in Nat BY <1>2 DEF Length
      <3>5. QED BY <2>8, <3>3, <3>4
    <2>11. QED BY <1>8, <1>12, <2>7, <2>9, <2>10
  <1>14. Aligned(n + 1)'
    BY <1>11, <1>13 DEF Aligned
  <1>15. QED BY <1>5, <1>7, <1>14

LEMMA ParseMsgStep == ParseInv /\ ParseMsg => ParseInv'
  <1> SUFFICES ASSUME ParseInv, ParseMsg PROVE ParseInv'
    OBVIOUS
  <1>1. /\ ParseTypeOK /\ AnswersOK /\ verdict = "parse" /\ verdict' = "parse"
        /\ answers' = answers /\ flight' = flight /\ flight \in Seq(Bytes)
        /\ tstatus \in [Ids -> {"FREE", "PENDING", "DONE"}] /\ DOMAIN response = Ids
        /\ inbuf \in Seq(Bytes) /\ Len(inbuf) >= 5 /\ UptoEtx >= 5
    BY DEF ParseInv, ParseTypeOK, ParseMsg, Buffered, MinMessage
  <1>2. PICK n \in Nat : Parsed(n)
    BY DEF ParseInv
  <1>3. Aligned(n) /\ n \in 0 .. Len(answers)
    BY <1>1, <1>2 DEF Parsed
  <1>4. n + 1 \in 1 .. Len(answers) /\ inbuf' \in Seq(Bytes) /\ Aligned(n + 1)'
    BY <1>1, <1>3, MsgAligned
  <1> DEFINE a == answers[n + 1]
  <1>5. a.id \in Ids
    BY <1>1, <1>4, AnswerTypes
  <1>6. IF tstatus[a.id] = "PENDING"
        THEN /\ tstatus' = [tstatus EXCEPT ![a.id] = "DONE"]
             /\ response' = [response EXCEPT ![a.id] = ResponseTo(Serialize(a.body))]
        ELSE tstatus' = tstatus /\ response' = response
    <2>1. Len(inbuf) \in Nat BY <1>1, LenProperties
    <2>2. UptoEtx \in {0, Len(FrameOf(n + 1))} /\ Len(FrameOf(n + 1)) \in Nat
      <3>1. UptoEtx \in {0, Len(FrameOf(n + 1))} BY <1>1, <1>3, <2>1, HeadFrame
      <3>2. Len(FrameOf(n + 1)) \in Nat BY <1>1, <1>4, AnswerTypes
      <3>3. QED BY <3>1, <3>2
    <2>3. UptoEtx > 0 BY <1>1, <2>2
    <2>4. /\ IdOf(Message) = a.id
          /\ SubSeq(Message, IdLength(Message) + 2, Len(Message)) = Serialize(a.body)
      BY <1>1, <1>3, <2>1, <2>3, HeadMessage
    <2>5. QED BY <1>5, <2>4 DEF ParseMsg
  <1>7. \A i \in Ids : ReadFine(n, i)
    BY <1>2 DEF Parsed
  <1>8. ASSUME NEW i \in Ids PROVE ReadFine(n + 1, i)'
    <2>1. 1 .. n + 1 = (1 .. n) \cup {n + 1} /\ n + 1 \in 1 .. n + 1
      OBVIOUS
    <2>2. \A k : First(k, i)' <=> First(k, i)
      BY <1>1 DEF First
    <2>3. CASE i = a.id /\ tstatus[i] = "PENDING"
      <3>1. tstatus'[i] = "DONE" /\ response'[i] = ResponseTo(Serialize(a.body))
        BY <1>1, <1>6, <2>3
      <3>2. \A k \in 1 .. n : answers[k].id # i
        BY <1>7, <2>3 DEF ReadFine
      <3>3. First(n + 1, i)
        BY <2>3, <3>2 DEF First
      <3>4. response'[i] \in Taken(ResponseTo(Serialize(a.body)))
        BY <3>1 DEF Taken
      <3>5. QED BY <1>1, <2>1, <2>2, <3>1, <3>3, <3>4 DEF ReadFine, Taken
    <2>4. CASE ~(i = a.id /\ tstatus[i] = "PENDING")
      <3>1. tstatus'[i] = tstatus[i] /\ response'[i] = response[i]
        BY <1>1, <1>6, <2>4
      <3>2. tstatus[i] = "PENDING" => \A k \in 1 .. n + 1 : answers[k].id # i
        BY <1>7, <2>1, <2>4 DEF ReadFine
      <3>3. tstatus[i] # "DONE" => response[i] = NoResponse
        BY <1>7 DEF ReadFine
      <3>4. ASSUME tstatus[i] = "DONE"
            PROVE  \E k \in 1 .. n + 1 :
                      First(k, i) /\ response[i] \in Taken(ResponseTo(Serialize(answers[k].body)))
        <4>1. PICK k \in 1 .. n : First(k, i) /\ response[i] \in Taken(ResponseTo(Serialize(answers[k].body)))
          BY <1>7, <3>4 DEF ReadFine
        <4>2. k \in 1 .. n + 1 BY <2>1
        <4>3. QED BY <4>1, <4>2
      <3>5. QED BY <1>1, <2>2, <3>1, <3>2, <3>3, <3>4 DEF ReadFine, Taken
    <2>5. QED BY <2>3, <2>4
  <1>9. AnswersOK'
    BY <1>1 DEF AnswersOK, Sent, FrameOf
  <1>10. ParseTypeOK'
    <2>1. tstatus' \in [Ids -> {"FREE", "PENDING", "DONE"}] /\ DOMAIN response' = Ids
      BY <1>1, <1>5, <1>6
    <2>2. QED BY <1>1, <1>4, <1>9, <2>1 DEF ParseTypeOK
  <1>11. Parsed(n + 1)'
    <2>1. n + 1 \in 0 .. Len(answers') BY <1>1, <1>4
    <2>2. QED BY <1>1, <1>4, <1>8, <2>1 DEF Parsed
  <1>12. ErrorNeedsEmptyAnswer'
    BY <1>1 DEF ErrorNeedsEmptyAnswer
  <1>13. n + 1 \in Nat OBVIOUS
  <1>14. QED BY <1>10, <1>11, <1>12, <1>13 DEF ParseInv

(* A response as the parser leaves it.                                      *)
LEMMA ResponseShape ==
    ASSUME NEW data
    PROVE  /\ ResponseTo(data) = [type |-> ResponseTo(data).type, params |-> ResponseTo(data).params,
                                  raw |-> ResponseTo(data).raw, csv |-> NULL]
           /\ ResponseTo(data).type = "KV" \/ ResponseTo(data).raw = <<data>>
  BY DEF ResponseTo, KeyValue, Raw, Holds

LEMMA CsvStep ==
    ASSUME ParseInv, NEW id \in Ids, LM_trans_response_csv(id)
    PROVE  ParseInv'
  <1>1. /\ ParseTypeOK /\ answers' = answers /\ flight' = flight /\ inbuf' = inbuf
        /\ verdict' = verdict /\ tstatus' = tstatus /\ DOMAIN response = Ids
        /\ tstatus[id] = "DONE" /\ response[id].type = "CSV"
        /\ response[id].csv = NULL /\ response[id].raw # NULL
        /\ response' = [response EXCEPT ![id] = CsvTaken(response[id])]
    BY DEF ParseInv, ParseTypeOK, LM_trans_response_csv
  <1>2. PICK n \in Nat : Parsed(n)
    BY DEF ParseInv
  <1>3. ASSUME NEW i \in Ids PROVE ReadFine(n, i)'
    <2>1. ReadFine(n, i) BY <1>2 DEF Parsed
    <2>2. \A k : First(k, i)' <=> First(k, i) BY <1>1 DEF First
    <2>3. CASE i # id
      <3>1. response'[i] = response[i] BY <1>1, <2>3
      <3>2. QED BY <1>1, <2>1, <2>2, <3>1 DEF ReadFine
    <2>4. CASE i = id
      <3>1. PICK k \in 1 .. n : First(k, i) /\ response[i] \in Taken(ResponseTo(Serialize(answers[k].body)))
        BY <1>1, <2>1, <2>4 DEF ReadFine
      <3> DEFINE r == ResponseTo(Serialize(answers[k].body))
      <3>2. r = [type |-> r.type, params |-> r.params, raw |-> r.raw, csv |-> NULL]
        BY ResponseShape
      <3> HIDE DEF r
      <3>3. CsvTaken(r).raw = NULL
        BY <3>2 DEF CsvTaken
      <3>4. response[i] = r
        BY <1>1, <2>4, <3>1, <3>3 DEF Taken, r
      <3>5. response'[i] = CsvTaken(r) /\ r.type = "CSV"
        BY <1>1, <2>4, <3>4
      <3>6. response'[i] \in Taken(r)
        BY <3>5 DEF Taken
      <3>7. QED BY <1>1, <2>2, <2>4, <3>1, <3>6 DEF ReadFine, Taken, r
    <2>5. QED BY <2>3, <2>4
  <1>4. AnswersOK' /\ Etxs' = Etxs
    BY <1>1 DEF ParseTypeOK, AnswersOK, Sent, FrameOf, Etxs
  <1>5. ParseTypeOK'
    BY <1>1, <1>4 DEF ParseTypeOK
  <1>6. Parsed(n)'
    <2>1. Aligned(n)' = Aligned(n)
      BY <1>1 DEF Aligned, Length, Byte, Sent, FrameOf
    <2>2. QED BY <1>1, <1>2, <1>3, <1>4, <2>1 DEF Parsed, MinMessage
  <1>7. ErrorNeedsEmptyAnswer'
    BY <1>1 DEF ParseInv, ErrorNeedsEmptyAnswer, FrameOf
  <1>8. QED BY <1>5, <1>6, <1>7 DEF ParseInv

LEMMA ParseStutter == ParseInv /\ UNCHANGED vars => ParseInv'
  <1> SUFFICES ASSUME ParseInv, UNCHANGED vars PROVE ParseInv'
    OBVIOUS
  <1>1. /\ answers' = answers /\ flight' = flight /\ inbuf' = inbuf
        /\ verdict' = verdict /\ tstatus' = tstatus /\ response' = response
    BY DEF vars
  <1>2. PICK n \in Nat : Parsed(n)
    BY DEF ParseInv
  <1>3. ParseTypeOK'
    BY <1>1 DEF ParseInv, ParseTypeOK, AnswersOK, Sent, FrameOf
  <1>4. Parsed(n)'
    <2>1. \A i \in Ids : ReadFine(n, i)'
      BY <1>1, <1>2, ReadKept DEF Parsed
    <2>2. Aligned(n)' = Aligned(n) /\ Etxs' = Etxs
      BY <1>1 DEF Aligned, Length, Byte, Sent, FrameOf, Etxs
    <2>3. QED BY <1>1, <1>2, <2>1, <2>2 DEF Parsed, MinMessage
  <1>5. ErrorNeedsEmptyAnswer'
    BY <1>1 DEF ParseInv, ErrorNeedsEmptyAnswer, FrameOf
  <1>6. QED BY <1>3, <1>4, <1>5 DEF ParseInv

(* It holds in the beginning.                                               *)
LEMMA ParseInit == Init => ParseInv
  <1> SUFFICES ASSUME Init PROVE ParseInv
    OBVIOUS
  <1>1. /\ answers = <<>> /\ flight = <<>> /\ inbuf = <<>> /\ verdict = "rest"
        /\ tstatus \in [Ids -> {"FREE", "PENDING"}] /\ response = [id \in Ids |-> NoResponse]
    BY DEF Init
  <1>2. Len(answers) = 0 /\ Len(flight) = 0 /\ Len(inbuf) = 0
    BY <1>1
  <1>3. ParseTypeOK
    BY <1>1, <1>2 DEF ParseTypeOK, AnswersOK, Sent
  <1>4. \A id \in Ids : ReadFine(0, id)
    BY <1>1 DEF ReadFine
  <1>5. Aligned(0)
    BY <1>2 DEF Aligned, Length, Sent
  <1>6. Parsed(0)
    BY <1>1, <1>2, <1>4, <1>5 DEF Parsed, MinMessage
  <1>7. ErrorNeedsEmptyAnswer
    BY <1>1 DEF ErrorNeedsEmptyAnswer
  <1>8. QED BY <1>3, <1>6, <1>7 DEF ParseInv
(* ParseInv is an invariant.                                                *)
LEMMA ParseInvariant == Spec => []ParseInv
  <1>1. ParseInv /\ [Next]_vars => ParseInv'
    <2> SUFFICES ASSUME ParseInv, [Next]_vars PROVE ParseInv'
      OBVIOUS
    <2>1. CASE \E id \in Ids, body \in Bodies : Answer(id, body)
      BY <2>1, AnswerStep
    <2>2. CASE \E m \in 1 .. Len(flight) : Receive(m)
      BY <2>2, ReceiveStep
    <2>3. CASE ParseWait
      BY <2>3, ParseWaitStep
    <2>4. CASE ParseError
      BY <2>4, ParseErrorStep
    <2>5. CASE ParseMsg
      BY <2>5, ParseMsgStep
    <2>6. CASE \E id \in Ids : LM_trans_response_csv(id)
      BY <2>6, CsvStep
    <2>7. CASE UNCHANGED vars
      BY <2>7, ParseStutter
    <2>8. QED BY <2>1, <2>2, <2>3, <2>4, <2>5, <2>6, <2>7 DEF Next
  <1>2. QED BY ParseInit, <1>1, PTL DEF Spec

-----------------------------------------------------------------------------
(* The properties.                                                          *)

(* Whatever the server answers and however its bytes are cut up,            *)
(* LM_conn_parse_trans_buffer reports a malformed stream only after an      *)
(* answer without data.                                                     *)
THEOREM OnlyEmptyAnswersFail == Spec => []ErrorNeedsEmptyAnswer
  <1>1. ParseInv => ErrorNeedsEmptyAnswer
    BY DEF ParseInv
  <1>2. QED BY <1>1, ParseInvariant, PTL

(* When the READ handler has come to rest, every answer that has arrived in *)
(* full, save one without data, has reached its transaction: nothing waits  *)
(* in conn->inbuf for bytes that need not come.                             *)
THEOREM AllArrivedAreParsed == Spec => []NoAnswerWaits
  <1>1. ParseInv => NoAnswerWaits
    <2> SUFFICES ASSUME ParseInv, verdict = "rest", NEW k \in DOMAIN answers,
                        Delivered(k), Len(FrameOf(k)) >= 5
                 PROVE  tstatus[answers[k].id] # "PENDING"
      BY DEF NoAnswerWaits
    <2>1. PICK n \in Nat : Parsed(n)
      BY DEF ParseInv
    <2>2. /\ ParseTypeOK /\ AnswersOK /\ n \in 0 .. Len(answers) /\ Aligned(n)
          /\ Len(inbuf) < 5 \/ Etxs = {}
          /\ \A id \in Ids : ReadFine(n, id)
      BY <2>1 DEF ParseInv, ParseTypeOK, Parsed, MinMessage
    <2>3. Len(inbuf) \in Nat /\ Len(flight) \in Nat
      BY <2>2, LenProperties DEF ParseTypeOK
    <2>4. /\ Len(answers) \in Nat /\ k \in 1 .. Len(answers) /\ answers[k].id \in Ids
      BY <2>2, AnswerTypes
    <2>5. k <= n
      <3> SUFFICES ASSUME n < k PROVE FALSE
        BY <2>2, <2>4
      <3>1. /\ n + 1 \in 1 .. Len(answers) /\ n + 1 \in 0 .. Len(answers) /\ k \in 0 .. Len(answers)
            /\ Len(answers) \in 0 .. Len(answers) /\ n + 1 <= k /\ (n + 1) - 1 = n
        BY <2>2, <2>4
      <3>2. /\ Sent(k) \in Nat /\ Sent(n) \in Nat /\ Sent(n + 1) \in Nat /\ Sent(Len(answers)) \in Nat
            /\ Sent(n + 1) <= Sent(k) /\ Sent(n + 1) = Sent(n) + Len(FrameOf(n + 1))
            /\ Len(FrameOf(n + 1)) \in Nat /\ Len(FrameOf(n + 1)) >= 4
        BY <2>2, <3>1, AnswerTypes
      <3>3. Len(inbuf) + Len(flight) = Sent(Len(answers)) - Sent(n)
        BY <2>2 DEF Aligned, Length
      <3>4. Sent(k) + Len(flight) <= Sent(Len(answers))
        BY DEF Delivered
      <3>5. Len(inbuf) >= Sent(k) - Sent(n)
        <4> DEFINE a == Sent(n)
                   d == Sent(k)
                   e == Sent(Len(answers))
                   i == Len(inbuf)
                   f == Len(flight)
        <4>1. /\ a \in Nat /\ d \in Nat /\ e \in Nat /\ i \in Nat /\ f \in Nat
              /\ i + f = e - a /\ d + f <= e
          BY <2>3, <3>2, <3>3, <3>4
        <4> HIDE DEF a, d, e, i, f
        <4>2. i >= d - a BY <4>1
        <4>3. QED BY <4>2 DEF a, d, i
      <3>6. Len(inbuf) >= Len(FrameOf(n + 1)) /\ Len(inbuf) > 0
        BY <2>3, <3>2, <3>5, SMTT(30)
      <3>7. Etxs # {}
        BY <2>2, <2>3, <3>2, <3>6, HeadFrame
      <3>8. Len(inbuf) < 5 BY <2>2, <3>7
      <3>9. CASE k = n + 1
        BY <2>3, <3>2, <3>6, <3>8, <3>9
      <3>10. CASE k # n + 1
        <4>1. n + 2 \in 1 .. Len(answers) /\ n + 2 \in 0 .. Len(answers) /\ n + 2 <= k /\ (n + 2) - 1 = n + 1
          BY <2>4, <3>1, <3>10
        <4>2. /\ Sent(n + 2) \in Nat /\ Sent(n + 2) <= Sent(k)
              /\ Sent(n + 2) = Sent(n + 1) + Len(FrameOf(n + 2))
              /\ Len(FrameOf(n + 2)) \in Nat /\ Len(FrameOf(n + 2)) >= 4
          BY <2>2, <3>1, <4>1, AnswerTypes
        <4>3. Sent(k) - Sent(n) >= 8
          <5> DEFINE a == Sent(n)
                     b == Sent(n + 1)
                     c == Sent(n + 2)
                     d == Sent(k)
                     g == Len(FrameOf(n + 1))
                     h == Len(FrameOf(n + 2))
          <5>1. /\ a \in Nat /\ b \in Nat /\ c \in Nat /\ d \in Nat /\ g \in Nat /\ h \in Nat
                /\ b = a + g /\ c = b + h /\ c <= d /\ g >= 4 /\ h >= 4
            BY <3>2, <4>2
          <5> HIDE DEF a, b, c, d, g, h
          <5>2. d - a >= 8 BY <5>1
          <5>3. QED BY <5>2 DEF a, d
        <4>4. QED BY <2>3, <3>2, <3>5, <3>8, <4>3, SMTT(30)
      <3>11. QED BY <3>9, <3>10
    <2>6. k \in 1 .. n BY <2>2, <2>4, <2>5
    <2>7. QED BY <2>2, <2>4, <2>6 DEF ReadFine
  <1>2. QED BY <1>1, ParseInvariant, PTL

-----------------------------------------------------------------------------
(* LM_conn_determine_response_type, for data of any length.                 *)

(* The least number principle, from which inductions over data are made.    *)
LEMMA Smallest ==
    ASSUME NEW T \in SUBSET Nat, T # {}
    PROVE  \E x \in T : \A y \in T : x <= y
  <1> DEFINE R == OpToRel(<, Nat)
  <1>1. IsWellFoundedOn(R, Nat)
    BY NatLessThanWellFounded
  <1>2. \A x, y \in Nat : y < x => <<y, x>> \in R
    BY DEF OpToRel
  <1> HIDE DEF R
  <1>3. PICK x \in T : \A y \in T : ~(<<y, x>> \in R)
    BY <1>1, WFMin
  <1>4. ASSUME NEW y \in T PROVE x <= y
    <2>1. x \in Nat /\ y \in Nat OBVIOUS
    <2>2. ~(y < x) BY <1>2, <1>3, <2>1
    <2>3. QED BY <2>1, <2>2
  <1>5. QED BY <1>4

LEMMA MinOf ==
    ASSUME NEW T \in SUBSET Nat, T # {}
    PROVE  Min(T) \in T /\ \A y \in T : Min(T) <= y
  <1>1. PICK x \in T : \A y \in T : x <= y
    BY Smallest
  <1>2. T \in SUBSET Int OBVIOUS
  <1>3. Min(T) = x BY <1>1, <1>2, MinIs
  <1>4. QED BY <1>1, <1>3

(* The telling bytes from i on, and what the scan makes of them.            *)
TellingFrom(data, i) == {j \in i .. Scanned(data) : Ends(data[j])}
Verdict(data, i) ==
    IF TellingFrom(data, i) = {} THEN "BULK" ELSE TypeBy(data[Min(TellingFrom(data, i))])

LEMMA VerdictStep ==
    ASSUME NEW data, Scanned(data) \in Nat, NEW i \in 1 .. Scanned(data) + 1
    PROVE  Verdict(data, i) = IF i > Scanned(data) THEN "BULK"
                              ELSE IF Ends(data[i]) THEN TypeBy(data[i]) ELSE Verdict(data, i + 1)
  <1> DEFINE n == Scanned(data)
  <1> HIDE DEF n
  <1>1. n \in Nat /\ i \in 1 .. n + 1 BY DEF n
  <1>2. CASE i > n
    <2>1. i .. n = {} BY <1>1, <1>2
    <2>2. TellingFrom(data, i) = {} BY <2>1 DEF TellingFrom, n
    <2>3. QED BY <1>2, <2>2 DEF Verdict, n
  <1>3. CASE i <= n /\ Ends(data[i])
    <2>1. i \in TellingFrom(data, i) /\ \A y \in TellingFrom(data, i) : i <= y
      BY <1>1, <1>3 DEF TellingFrom, n
    <2>2. TellingFrom(data, i) \in SUBSET Int
      BY <1>1 DEF TellingFrom, n
    <2>3. Min(TellingFrom(data, i)) = i
      BY <2>1, <2>2, MinIs
    <2>4. ~(i > n) BY <1>1, <1>3
    <2>5. QED BY <1>3, <2>1, <2>3, <2>4 DEF Verdict, n
  <1>4. CASE i <= n /\ ~Ends(data[i])
    <2>1. i .. n = {i} \cup (i + 1 .. n)
      BY <1>1, <1>4
    <2>2. TellingFrom(data, i) = TellingFrom(data, i + 1)
      BY <1>4, <2>1 DEF TellingFrom, n
    <2>3. ~(i > n) BY <1>1, <1>4
    <2>4. QED BY <1>4, <2>2, <2>3 DEF Verdict, n
  <1>5. QED BY <1>1, <1>2, <1>3, <1>4

(* The scan returns what the first telling byte says.                       *)
LEMMA ScanIs ==
    ASSUME NEW data, Scanned(data) \in Nat, NEW i \in 1 .. Scanned(data) + 1
    PROVE  Scan(data)[i] = Verdict(data, i)
  <1> DEFINE n == Scanned(data)
             D == 1 .. n + 1
             F(h) == [j \in D |-> IF j > n THEN "BULK"
                                  ELSE IF Ends(data[j]) THEN TypeBy(data[j]) ELSE h[j + 1]]
             g == [j \in D |-> Verdict(data, j)]
             f == Scan(data)
  <1>1. f = CHOOSE h : h = F(h)
    BY DEF Scan
  <1>2. n \in Nat OBVIOUS
  <1> HIDE DEF n, f
  <1>3. g = F(g)
    <2>1. ASSUME NEW j \in D
          PROVE  g[j] = IF j > n THEN "BULK" ELSE IF Ends(data[j]) THEN TypeBy(data[j]) ELSE g[j + 1]
      <3>1. j > n \/ j + 1 \in D BY <1>2
      <3>2. Verdict(data, j) = IF j > n THEN "BULK"
                               ELSE IF Ends(data[j]) THEN TypeBy(data[j]) ELSE Verdict(data, j + 1)
        BY <1>2, VerdictStep DEF n
      <3>3. QED BY <3>1, <3>2
    <2>2. QED BY <2>1
  <1>4. f = F(f)
    BY <1>1, <1>3
  <1>5. \A j \in D : f[j] = IF j > n THEN "BULK" ELSE IF Ends(data[j]) THEN TypeBy(data[j]) ELSE f[j + 1]
    BY <1>4
  <1>6. \A j \in D : f[j] = Verdict(data, j)
    <2> DEFINE T == {m \in Nat : \E j \in D : m = n + 1 - j /\ f[j] # Verdict(data, j)}
    <2> SUFFICES ASSUME NEW j0 \in D, f[j0] # Verdict(data, j0) PROVE FALSE
      OBVIOUS
    <2>1. n + 1 - j0 \in T
      BY <1>2
    <2>2. PICK m \in T : \A y \in T : m <= y
      <3>1. T \in SUBSET Nat /\ T # {} BY <2>1
      <3> HIDE DEF T
      <3>2. QED BY <3>1, Smallest
    <2>3. PICK j \in D : m = n + 1 - j /\ f[j] # Verdict(data, j)
      OBVIOUS
    <2>4. Verdict(data, j) = IF j > n THEN "BULK"
                             ELSE IF Ends(data[j]) THEN TypeBy(data[j]) ELSE Verdict(data, j + 1)
      BY <1>2, VerdictStep DEF n
    <2>5. j <= n /\ j \in Nat /\ f[j + 1] # Verdict(data, j + 1)
      BY <1>2, <1>5, <2>3, <2>4
    <2>6. j + 1 \in D /\ m - 1 \in Nat /\ m - 1 = n + 1 - (j + 1)
      BY <1>2, <2>3, <2>5
    <2>7. m - 1 \in T
      BY <2>5, <2>6
    <2>8. QED BY <2>2, <2>6, <2>7
  <1>7. QED BY <1>6 DEF n, f

(* The type of a response is what its first telling byte says.              *)
LEMMA TypeIs ==
    ASSUME NEW d \in Seq(Bytes)
    PROVE  /\ ResponseType(d) \in {"KV", "CSV", "BULK"}
           /\ ResponseType(d) = "KV" <=> SaysBy(d, "=")
           /\ ResponseType(d) = "CSV" <=> SaysBy(d, ",") \/ SaysBy(d, "newline")
  <1> DEFINE n == Scanned(d)
             telling == Telling(d)
  <1>1. ResponseType(d) = IF n = 0 \/ d[1] \in {"=", ","} THEN "BULK" ELSE Scan(d)[2]
    BY DEF ResponseType
  <1>2. Len(d) \in Nat /\ ScanLimit \in Nat \ {0} /\ (d = <<>> <=> Len(d) = 0)
    BY ParseAssumption, LenProperties, EmptySeq
  <1>3. n \in Nat /\ (n = 0 <=> Len(d) = 0)
    BY <1>2 DEF Scanned
  <1>4. telling = TellingFrom(d, 2)
    <2>1. \A i \in Int : (i \in 2 .. Len(d) /\ i <= ScanLimit) <=> i \in 2 .. Scanned(d)
      BY <1>2 DEF Scanned
    <2>2. 2 .. Len(d) \in SUBSET Int /\ 2 .. Scanned(d) \in SUBSET Int
      BY <1>2, <1>3
    <2>3. QED BY <2>1, <2>2 DEF TellingFrom, Telling, Ends, PassedOver
  <1> HIDE DEF n
  <1>5. CASE n = 0 \/ d[1] \in {"=", ","}
    <2>1. ResponseType(d) = "BULK" BY <1>1, <1>5
    <2>2. \A b : ~SaysBy(d, b) BY <1>2, <1>3, <1>5 DEF SaysBy
    <2>3. QED BY <2>1, <2>2
  <1>6. CASE ~(n = 0 \/ d[1] \in {"=", ","})
    <2>1. ResponseType(d) = Verdict(d, 2)
      <3>0. n \in Nat /\ n # 0 BY <1>3, <1>6
      <3>1. 2 \in 1 .. n + 1 BY <3>0
      <3>2. Scan(d)[2] = Verdict(d, 2) BY <1>3, <3>1, ScanIs DEF n
      <3>3. QED BY <1>1, <1>6, <3>2
    <2>2. CASE telling = {}
      <3>1. ResponseType(d) = "BULK" BY <1>4, <2>1, <2>2 DEF Verdict
      <3>2. \A b : ~SaysBy(d, b) BY <2>2 DEF SaysBy
      <3>3. QED BY <3>1, <3>2
    <2>3. CASE telling # {}
      <3>1. telling \in SUBSET Nat
        <4>1. 2 .. Len(d) \in SUBSET Nat BY <1>2
        <4>2. QED BY <4>1 DEF Telling
      <3> DEFINE m == Min(telling)
      <3>2. m \in telling /\ \A y \in telling : m <= y
        BY <2>3, <3>1, MinOf
      <3>3. ResponseType(d) = TypeBy(d[m]) BY <1>4, <2>1, <2>3 DEF Verdict
      <3>5. \A b : SaysBy(d, b) <=> d[m] = b
        <4> HIDE DEF m, telling
        <4>1. \A i \in telling : (\A j \in telling : i <= j) <=> i = m
          BY <3>1, <3>2
        <4>2. d # <<>> /\ d[1] \notin {"=", ","} BY <1>2, <1>3, <1>6
        <4>3. QED BY <3>2, <4>1, <4>2 DEF SaysBy, telling
      <3> HIDE DEF m
      <3>4. QED BY <3>3, <3>5 DEF TypeBy
    <2>4. QED BY <2>2, <2>3
  <1>7. QED BY <1>5, <1>6

(* A body is decoded as it was meant.                                       *)
Decoded(body) == ResponseTo(Serialize(body)) = Meaning(body)

(* What is not meant as pairs is, whatever its bytes.                       *)
LEMMA DataDecoded ==
    ASSUME NEW body \in Bodies, body.kind = "data"
    PROVE  Decoded(body)
  <1> DEFINE d == Serialize(body)
  <1>1. d = body.data
    BY DEF Serialize
  <1>2. d \in Seq(Bytes \ {"ETX"}) /\ ~SaysBy(d, "=")
    BY <1>1, BodyAssumption
  <1>3. d \in Seq(Bytes)
    BY <1>2, SeqMonotonic
  <1>4. body.kind # "pairs" /\ body.kind # "badpairs"
    OBVIOUS
  <1>5. Meaning(body) = IF SaysBy(d, ",") \/ SaysBy(d, "newline") THEN Raw("CSV", d) ELSE Raw("BULK", d)
    BY <1>4 DEF Meaning
  <1> HIDE DEF d
  <1>6. /\ ResponseType(d) \in {"CSV", "BULK"}
        /\ ResponseType(d) = "CSV" <=> SaysBy(d, ",") \/ SaysBy(d, "newline")
    BY <1>2, <1>3, TypeIs
  <1>7. ResponseTo(d) = Raw(ResponseType(d), d)
    BY <1>6 DEF ResponseTo
  <1>8. QED BY <1>5, <1>6, <1>7 DEF Decoded, d

-----------------------------------------------------------------------------
(* Quoting and M_hash_dict_deserialize_unquote, for values of any length.   *)

(* A function that puts together a[i], and what follows it at nxt[i].       *)
Chain(S, N, a, nxt) ==
    /\ N \in Nat /\ a \in [1 .. N -> Seq(S)] /\ nxt \in [1 .. N -> Nat]
    /\ \A i \in 1 .. N : nxt[i] \in i + 1 .. N + 1
Chained(S, N, a, nxt) ==
    \E f \in [1 .. N + 1 -> Seq(S)] :
        \A i \in 1 .. N + 1 : f[i] = IF i > N THEN <<>> ELSE a[i] \o f[nxt[i]]

LEMMA ChainExists ==
    ASSUME NEW S, NEW N, NEW a, NEW nxt, Chain(S, N, a, nxt)
    PROVE  Chained(S, N, a, nxt)
  <1> SUFFICES ASSUME N \in Nat, a \in [1 .. N -> Seq(S)], nxt \in [1 .. N -> Nat],
                      \A i \in 1 .. N : nxt[i] \in i + 1 .. N + 1
               PROVE  \E f \in [1 .. N + 1 -> Seq(S)] :
                         \A i \in 1 .. N + 1 : f[i] = IF i > N THEN <<>> ELSE a[i] \o f[nxt[i]]
    BY DEF Chain, Chained
  <1> DEFINE D(m) == N + 1 - m .. N + 1
             Good(m) == \E f \in [D(m) -> Seq(S)] :
                           \A i \in D(m) : f[i] = IF i > N THEN <<>> ELSE a[i] \o f[nxt[i]]
             T == {m \in 0 .. N : ~Good(m)}
  <1>1. Good(0)
    <2> DEFINE f == [i \in D(0) |-> <<>>]
    <2>1. D(0) = {N + 1} OBVIOUS
    <2>2. <<>> \in Seq(S) BY EmptySeq
    <2>3. f \in [D(0) -> Seq(S)] BY <2>2
    <2>4. ASSUME NEW i \in D(0) PROVE f[i] = IF i > N THEN <<>> ELSE a[i] \o f[nxt[i]]
      <3>1. i > N BY <2>1
      <3>2. f[i] = <<>> OBVIOUS
      <3>3. QED BY <3>1, <3>2
    <2>5. QED BY <2>3, <2>4
  <1>2. ASSUME NEW m \in 1 .. N, Good(m - 1) PROVE Good(m)
    <2>1. PICK f \in [D(m - 1) -> Seq(S)] :
             \A i \in D(m - 1) : f[i] = IF i > N THEN <<>> ELSE a[i] \o f[nxt[i]]
      BY <1>2
    <2> DEFINE k == N + 1 - m
               g == [i \in D(m) |-> IF i = k THEN a[k] \o f[nxt[k]] ELSE f[i]]
    <2>2. k \in 1 .. N /\ D(m) = {k} \cup D(m - 1) /\ k \notin D(m - 1) /\ k + 1 .. N + 1 = D(m - 1)
      BY SMTT(30)
    <2>3. nxt[k] \in D(m - 1)
      BY <2>2
    <2>4. \A i \in D(m - 1) : ~(i > N) => i \in 1 .. N /\ nxt[i] \in D(m - 1)
      <3> SUFFICES ASSUME NEW i \in D(m - 1), ~(i > N) PROVE i \in 1 .. N /\ nxt[i] \in D(m - 1)
        OBVIOUS
      <3>1. i \in 1 .. N /\ i >= k + 1 BY <2>2
      <3>2. nxt[i] \in i + 1 .. N + 1 BY <3>1
      <3>3. nxt[i] \in k + 1 .. N + 1 BY <2>2, <3>1, <3>2
      <3>4. QED BY <2>2, <3>1, <3>3
    <2> HIDE DEF D, k
    <2>5. a[k] \in Seq(S) /\ f[nxt[k]] \in Seq(S)
      BY <2>2, <2>3
    <2>6. a[k] \o f[nxt[k]] \in Seq(S)
      BY <2>5, ConcatProperties
    <2>7. g \in [D(m) -> Seq(S)]
      BY <2>2, <2>6
    <2>8. ASSUME NEW i \in D(m) PROVE g[i] = IF i > N THEN <<>> ELSE a[i] \o g[nxt[i]]
      <3>1. CASE i = k
        <4>1. ~(i > N) BY <2>2, <3>1
        <4>2. g[i] = a[k] \o f[nxt[k]] BY <3>1
        <4>3. nxt[k] \in D(m) /\ nxt[k] # k BY <2>2, <2>3
        <4>4. g[nxt[k]] = f[nxt[k]] BY <4>3
        <4>5. QED BY <3>1, <4>1, <4>2, <4>4
      <3>2. CASE i # k
        <4>1. i \in D(m - 1) BY <2>2, <3>2
        <4>2. g[i] = f[i] BY <3>2
        <4>3. CASE i > N BY <2>1, <4>1, <4>2, <4>3
        <4>4. CASE ~(i > N)
          <5>1. nxt[i] \in D(m - 1) BY <2>4, <4>1, <4>4
          <5>2. nxt[i] \in D(m) /\ nxt[i] # k BY <2>2, <5>1
          <5>3. g[nxt[i]] = f[nxt[i]] BY <5>2
          <5>4. QED BY <2>1, <4>1, <4>2, <4>4, <5>3
        <4>5. QED BY <4>3, <4>4
      <3>3. QED BY <3>1, <3>2
    <2> HIDE DEF g
    <2>9. QED BY <2>7, <2>8
  <1>3. Good(N)
    <2> SUFFICES ASSUME ~Good(N) PROVE FALSE
      OBVIOUS
    <2> HIDE DEF Good
    <2>1. T \in SUBSET Nat /\ N \in T
      OBVIOUS
    <2>2. PICK m \in T : \A y \in T : m <= y
      <3> HIDE DEF T
      <3>1. QED BY <2>1, Smallest
    <2>3. m \in 0 .. N /\ ~Good(m)
      OBVIOUS
    <2>4. m # 0
      BY <1>1, <2>3
    <2>5. m \in 1 .. N /\ m - 1 \in 0 .. N /\ ~(m <= m - 1)
      BY <2>3, <2>4
    <2>6. Good(m - 1)
      BY <2>2, <2>5
    <2>7. QED BY <1>2, <2>3, <2>5, <2>6
  <1>4. D(N) = 1 .. N + 1
    OBVIOUS
  <1>5. QED BY <1>3, <1>4

(* What it puts together is a sequence.                                     *)
LEMMA ChainType ==
    ASSUME NEW S, NEW N \in Nat, NEW a \in [1 .. N -> Seq(S)], NEW nxt \in [1 .. N -> Nat],
           \A i \in 1 .. N : nxt[i] \in i + 1 .. N + 1,
           NEW f, \A i \in 1 .. N + 1 : f[i] = IF i > N THEN <<>> ELSE a[i] \o f[nxt[i]]
    PROVE  \A i \in 1 .. N + 1 : f[i] \in Seq(S)
  <1> DEFINE T == {m \in 0 .. N : f[N + 1 - m] \notin Seq(S)}
  <1>1. T = {}
    <2> SUFFICES ASSUME T # {} PROVE FALSE
      OBVIOUS
    <2>1. PICK m \in T : \A y \in T : m <= y
      <3>1. T \in SUBSET Nat OBVIOUS
      <3> HIDE DEF T
      <3>2. QED BY <3>1, Smallest
    <2> DEFINE k == N + 1 - m
    <2>2. m \in 0 .. N /\ k \in 1 .. N + 1 /\ f[k] \notin Seq(S)
      OBVIOUS
    <2>3. CASE k > N
      <3>1. f[k] = <<>> BY <2>2, <2>3
      <3>2. QED BY <2>2, <3>1, EmptySeq
    <2>4. CASE ~(k > N)
      <3>1. k \in 1 .. N BY <2>2, <2>4
      <3>2. nxt[k] \in k + 1 .. N + 1 BY <3>1
      <3>0. PICK q \in k + 1 .. N + 1 : q = nxt[k] BY <3>2
      <3> DEFINE y == N + 1 - q
      <3>3. y \in 0 .. N /\ ~(m <= y) /\ N + 1 - y = nxt[k]
        <4>1. m \in 0 .. N /\ q \in Nat /\ q >= N + 2 - m /\ q <= N + 1 BY <2>2, <3>0
        <4> HIDE DEF T, k
        <4>2. y \in 0 .. N /\ ~(m <= y) /\ N + 1 - y = q BY <4>1
        <4>3. QED BY <3>0, <4>2
      <3>4. f[nxt[k]] \in Seq(S) BY <2>1, <3>3
      <3>5. a[k] \in Seq(S) BY <3>1
      <3>6. a[k] \o f[nxt[k]] \in Seq(S) BY <3>4, <3>5, ConcatProperties
      <3>7. f[k] = a[k] \o f[nxt[k]] BY <2>2, <2>4
      <3>8. QED BY <2>2, <3>6, <3>7
    <2>5. QED BY <2>3, <2>4
  <1>2. ASSUME NEW i \in 1 .. N + 1 PROVE f[i] \in Seq(S)
    <2>1. N + 1 - i \in 0 .. N /\ N + 1 - (N + 1 - i) = i OBVIOUS
    <2>2. N + 1 - i \notin T BY <1>1
    <2>3. QED BY <2>1, <2>2
  <1>3. QED BY <1>2

(* The two loops.                                                           *)
Unit(b) == IF b = "quote" THEN <<"quote", "quote">> ELSE <<b>>
After(s, i) == IF s[i] = "quote" /\ i < Len(s) /\ s[i + 1] = "quote" THEN i + 2 ELSE i + 1

LEMMA DoublingIs ==
    ASSUME NEW v \in Seq(Bytes)
    PROVE  /\ \A i \in 1 .. Len(v) + 1 : Doubling(v)[i] \in Seq(Bytes)
           /\ Doubling(v)[Len(v) + 1] = <<>>
           /\ \A i \in 1 .. Len(v) : Doubling(v)[i] = Unit(v[i]) \o Doubling(v)[i + 1]
  <1> DEFINE N == Len(v)
             a == [i \in 1 .. N |-> Unit(v[i])]
             nxt == [i \in 1 .. N |-> i + 1]
             F(h) == [i \in 1 .. N + 1 |-> IF i > N THEN <<>> ELSE Unit(v[i]) \o h[i + 1]]
             d == Doubling(v)
  <1>1. d = CHOOSE h : h = F(h)
    BY DEF Doubling, Unit
  <1>2. N \in Nat
    BY LenProperties
  <1>3. a \in [1 .. N -> Seq(Bytes)]
    <2>1. ASSUME NEW i \in 1 .. N PROVE Unit(v[i]) \in Seq(Bytes)
      <3>1. v[i] \in Bytes BY ElementOfSeq
      <3>2. "quote" \in Bytes BY DEF Bytes
      <3>3. <<v[i]>> \in Seq(Bytes) BY <3>1
      <3>4. <<"quote", "quote">> \in Seq(Bytes) BY <3>2
      <3>5. QED BY <3>3, <3>4 DEF Unit
    <2>2. QED BY <2>1
  <1>4. nxt \in [1 .. N -> Nat] /\ \A i \in 1 .. N : nxt[i] \in i + 1 .. N + 1
    BY <1>2
  <1>5. \A i \in 1 .. N : a[i] = Unit(v[i]) /\ nxt[i] = i + 1
    OBVIOUS
  <1>6. \A i \in 1 .. N + 1 : ~(i > N) => i \in 1 .. N
    BY <1>2
  <1> HIDE DEF N, a, nxt, d
  <1>7. PICK g \in [1 .. N + 1 -> Seq(Bytes)] :
           \A i \in 1 .. N + 1 : g[i] = IF i > N THEN <<>> ELSE a[i] \o g[nxt[i]]
    <2>1. Chain(Bytes, N, a, nxt) BY <1>2, <1>3, <1>4 DEF Chain
    <2>2. QED BY <2>1, ChainExists DEF Chained
  <1>8. \A i \in 1 .. N + 1 : g[i] = IF i > N THEN <<>> ELSE Unit(v[i]) \o g[i + 1]
    BY <1>5, <1>6, <1>7
  <1>9. g = F(g)
    BY <1>8
  <1>10. d = F(d)
    BY <1>1, <1>9
  <1>11. \A i \in 1 .. N + 1 : d[i] = IF i > N THEN <<>> ELSE Unit(v[i]) \o d[i + 1]
    BY <1>10
  <1>12. \A i \in 1 .. N + 1 : d[i] = IF i > N THEN <<>> ELSE a[i] \o d[nxt[i]]
    BY <1>5, <1>6, <1>11
  <1>13. \A i \in 1 .. N + 1 : d[i] \in Seq(Bytes)
    BY <1>2, <1>3, <1>4, <1>12, ChainType
  <1>14. d[N + 1] = <<>>
    BY <1>2, <1>11
  <1>15. \A i \in 1 .. N : d[i] = Unit(v[i]) \o d[i + 1]
    <2> SUFFICES ASSUME NEW i \in 1 .. N PROVE d[i] = Unit(v[i]) \o d[i + 1] OBVIOUS
    <2>1. i \in 1 .. N + 1 /\ ~(i > N) BY <1>2
    <2>2. QED BY <1>11, <2>1
  <1>16. QED BY <1>13, <1>14, <1>15 DEF N, d

LEMMA CopyingIs ==
    ASSUME NEW s \in Seq(Bytes)
    PROVE  /\ Copying(s)[Len(s) + 1] = <<>>
           /\ \A i \in 1 .. Len(s) : Copying(s)[i] = <<s[i]>> \o Copying(s)[After(s, i)]
  <1> DEFINE N == Len(s)
             a == [i \in 1 .. N |-> <<s[i]>>]
             nxt == [i \in 1 .. N |-> After(s, i)]
             F(h) == [i \in 1 .. N + 1 |-> IF i > N THEN <<>> ELSE <<s[i]>> \o h[After(s, i)]]
             d == Copying(s)
  <1>1. d = CHOOSE h : h = F(h)
    BY DEF Copying, After
  <1>2. N \in Nat
    BY LenProperties
  <1>3. a \in [1 .. N -> Seq(Bytes)]
    <2>1. ASSUME NEW i \in 1 .. N PROVE <<s[i]>> \in Seq(Bytes)
      <3>1. s[i] \in Bytes BY ElementOfSeq
      <3>2. QED BY <3>1
    <2>2. QED BY <2>1
  <1>4. nxt \in [1 .. N -> Nat] /\ \A i \in 1 .. N : nxt[i] \in i + 1 .. N + 1
    <2>1. ASSUME NEW i \in 1 .. N PROVE After(s, i) \in i + 1 .. N + 1 /\ After(s, i) \in Nat
      BY <1>2 DEF After
    <2>2. QED BY <2>1
  <1>5. \A i \in 1 .. N : a[i] = <<s[i]>> /\ nxt[i] = After(s, i)
    OBVIOUS
  <1>6. \A i \in 1 .. N + 1 : ~(i > N) => i \in 1 .. N
    BY <1>2
  <1> HIDE DEF N, a, nxt, d
  <1>7. PICK g \in [1 .. N + 1 -> Seq(Bytes)] :
           \A i \in 1 .. N + 1 : g[i] = IF i > N THEN <<>> ELSE a[i] \o g[nxt[i]]
    <2>1. Chain(Bytes, N, a, nxt) BY <1>2, <1>3, <1>4 DEF Chain
    <2>2. QED BY <2>1, ChainExists DEF Chained
  <1>8. \A i \in 1 .. N + 1 : g[i] = IF i > N THEN <<>> ELSE <<s[i]>> \o g[After(s, i)]
    BY <1>5, <1>6, <1>7
  <1>9. g = F(g)
    BY <1>8
  <1>10. d = F(d)
    BY <1>1, <1>9
  <1>11. \A i \in 1 .. N + 1 : d[i] = IF i > N THEN <<>> ELSE <<s[i]>> \o d[After(s, i)]
    BY <1>10
  <1>12. d[N + 1] = <<>>
    <2>1. N + 1 \in 1 .. N + 1 /\ N + 1 > N BY <1>2
    <2>2. QED BY <1>11, <2>1
  <1>13. \A i \in 1 .. N : d[i] = <<s[i]>> \o d[After(s, i)]
    <2> SUFFICES ASSUME NEW i \in 1 .. N PROVE d[i] = <<s[i]>> \o d[After(s, i)] OBVIOUS
    <2>1. i \in 1 .. N + 1 /\ ~(i > N) BY <1>2
    <2>2. QED BY <1>11, <2>1
  <1>14. QED BY <1>12, <1>13 DEF N, d

(* If w holds the bytes of v at p[1], p[2], ..., where the copying loop     *)
(* stops, then the loop copies v.                                           *)
LEMMA CopiedIs ==
    ASSUME NEW v \in Seq(Bytes), NEW w \in Seq(Bytes), NEW p,
           p[1] = 1, p[Len(v) + 1] = Len(w) + 1,
           \A i \in 1 .. Len(v) : p[i] \in 1 .. Len(w) /\ w[p[i]] = v[i] /\ After(w, p[i]) = p[i + 1]
    PROVE  Copying(w)[1] = v
  <1> DEFINE n == Len(v)
             c == Copying(w)
             T == {m \in 0 .. n : c[p[n + 1 - m]] # SubSeq(v, n + 1 - m, n)}
  <1>1. n \in Nat BY LenProperties
  <1>2. c[Len(w) + 1] = <<>> /\ \A i \in 1 .. Len(w) : c[i] = <<w[i]>> \o c[After(w, i)]
    BY CopyingIs
  <1> HIDE DEF c
  <1>3. T = {}
    <2> SUFFICES ASSUME T # {} PROVE FALSE
      OBVIOUS
    <2>1. PICK m \in T : \A y \in T : m <= y
      <3>1. T \in SUBSET Nat BY <1>1
      <3> HIDE DEF T
      <3>2. QED BY <3>1, Smallest
    <2> DEFINE i == n + 1 - m
    <2>2. m \in 0 .. n /\ i \in 1 .. n + 1 /\ c[p[i]] # SubSeq(v, i, n)
      <3>1. m \in 0 .. n /\ c[p[i]] # SubSeq(v, i, n) OBVIOUS
      <3> HIDE DEF T
      <3>2. i \in 1 .. n + 1 BY <1>1, <3>1
      <3>3. QED BY <3>1, <3>2
    <2>3. CASE m = 0
      <3>1. i = n + 1 BY <1>1, <2>3
      <3>2. SubSeq(v, n + 1, n) = <<>> BY <1>1, SubSeqEmpty
      <3>3. QED BY <1>2, <2>2, <3>1, <3>2
    <2>4. CASE m # 0
      <3>1. i \in 1 .. n /\ m - 1 \in 0 .. n /\ ~(m <= m - 1) /\ n + 1 - (m - 1) = i + 1
        BY <1>1, <2>2, <2>4
      <3>2. c[p[i + 1]] = SubSeq(v, i + 1, n)
        BY <2>1, <3>1
      <3> HIDE DEF i
      <3>3. p[i] \in 1 .. Len(w) /\ w[p[i]] = v[i] /\ After(w, p[i]) = p[i + 1]
        BY <3>1
      <3>4. c[p[i]] = <<v[i]>> \o SubSeq(v, i + 1, n)
        BY <1>2, <3>2, <3>3
      <3>5. n \in i .. Len(v) BY <1>1, <3>1
      <3>6. SubSeq(v, i, n) = <<v[i]>> \o SubSeq(v, i + 1, n)
        BY <3>1, <3>5, SubSeqRecursiveFirst
      <3>7. QED BY <2>2, <3>4, <3>6
    <2>5. QED BY <2>3, <2>4
  <1>4. c[1] = SubSeq(v, 1, n)
    <2>1. n \in 0 .. n /\ n + 1 - n = 1 BY <1>1
    <2>2. n \notin T BY <1>3
    <2>3. QED BY <2>1, <2>2
  <1>5. QED BY <1>4, SubSeqFull DEF c

(* Copying undoes doubling.                                                 *)
LEMMA CopyingUndoesDoubling ==
    ASSUME NEW v \in Seq(Bytes)
    PROVE  Doubling(v)[1] \in Seq(Bytes) /\ Copying(Doubling(v)[1])[1] = v
  <1> DEFINE n == Len(v)
             d == Doubling(v)
             w == d[1]
             L == Len(w)
             p == [i \in 1 .. n + 1 |-> L - Len(d[i]) + 1]
  <1>1. n \in Nat
    BY LenProperties
  <1>2. /\ \A i \in 1 .. n + 1 : d[i] \in Seq(Bytes)
        /\ d[n + 1] = <<>>
        /\ \A i \in 1 .. n : d[i] = Unit(v[i]) \o d[i + 1]
    BY DoublingIs
  <1> HIDE DEF d, n
  <1>3. w \in Seq(Bytes)
    <2>1. 1 \in 1 .. n + 1 BY <1>1
    <2>2. QED BY <1>2, <2>1
  <1>4. \A i \in 1 .. n + 1 : Len(d[i]) \in Nat
    BY <1>2, LenProperties
  <1>5. ASSUME NEW i \in 1 .. n
        PROVE  LET u == Unit(v[i])
               IN  /\ Len(u) = (IF v[i] = "quote" THEN 2 ELSE 1) /\ Len(d[i]) = Len(u) + Len(d[i + 1])
                   /\ d[i][1] = v[i] /\ (v[i] = "quote" => d[i][2] = "quote")
                   /\ \A j \in 1 .. Len(d[i + 1]) : d[i][Len(u) + j] = d[i + 1][j]
    <2> DEFINE u == Unit(v[i])
    <2>1. v[i] \in Bytes BY ElementOfSeq DEF n
    <2>2. /\ u \in Seq(Bytes) /\ Len(u) = (IF v[i] = "quote" THEN 2 ELSE 1)
          /\ u[1] = v[i] /\ (v[i] = "quote" => u[2] = "quote")
      <3>1. CASE v[i] = "quote"
        <4>1. u = <<"quote", "quote">> BY <3>1 DEF Unit
        <4>2. "quote" \in Bytes BY DEF Bytes
        <4>3. <<"quote", "quote">> \in Seq(Bytes) BY <4>2
        <4>4. Len(<<"quote", "quote">>) = 2 OBVIOUS
        <4>5. u[1] = "quote" /\ u[2] = "quote" BY <4>1
        <4>6. QED BY <3>1, <4>1, <4>3, <4>4, <4>5
      <3>2. CASE v[i] # "quote"
        <4>1. u = <<v[i]>> BY <3>2 DEF Unit
        <4>2. QED BY <2>1, <3>2, <4>1
      <3>3. QED BY <3>1, <3>2
    <2>3. i + 1 \in 1 .. n + 1 /\ i \in 1 .. n + 1 BY <1>1
    <2>4. d[i] = u \o d[i + 1] /\ d[i + 1] \in Seq(Bytes) BY <1>2, <2>3
    <2> HIDE DEF u
    <2>5. /\ Len(d[i]) = Len(u) + Len(d[i + 1])
          /\ \A j \in 1 .. Len(u) : d[i][j] = u[j]
          /\ \A j \in 1 .. Len(d[i + 1]) : d[i][Len(u) + j] = d[i + 1][j]
      <3>1. u \in Seq(Bytes) BY <2>2
      <3>2. QED BY <2>4, <3>1, Join
    <2>6. d[i][1] = v[i] /\ (v[i] = "quote" => d[i][2] = "quote")
      BY <2>2, <2>5
    <2>7. QED BY <2>2, <2>5, <2>6 DEF u
  <1> DEFINE Suffix(i) == Len(d[i]) <= L /\ \A j \in 1 .. Len(d[i]) : w[L - Len(d[i]) + j] = d[i][j]
             T == {i \in 1 .. n + 1 : ~Suffix(i)}
  <1>6. Suffix(1)
    <2>1. L \in Nat BY <1>3, LenProperties
    <2>2. \A j \in 1 .. L : L - L + j = j BY <2>1
    <2>3. QED BY <2>1, <2>2
  <1>7. ASSUME NEW i \in 1 .. n, Suffix(i) PROVE Suffix(i + 1)
    <2> DEFINE a == Len(Unit(v[i]))
               b == Len(d[i])
               c == Len(d[i + 1])
    <2>1. i \in 1 .. n + 1 /\ i + 1 \in 1 .. n + 1 BY <1>1
    <2>2. a \in Nat /\ b \in Nat /\ c \in Nat /\ b = a + c
      <3>1. a = (IF v[i] = "quote" THEN 2 ELSE 1) /\ b = a + c BY <1>5
      <3>2. b \in Nat /\ c \in Nat BY <1>4, <2>1
      <3>3. a \in Nat BY <3>1
      <3>4. QED BY <3>1, <3>2, <3>3
    <2>3. L \in Nat BY <1>3, LenProperties
    <2>4. /\ b <= L /\ \A j \in 1 .. b : w[L - b + j] = d[i][j]
          /\ \A j \in 1 .. c : d[i][a + j] = d[i + 1][j]
      BY <1>5, <1>7
    <2> HIDE DEF L, w, a, b, c
    <2>5. ASSUME NEW j \in 1 .. c PROVE w[L - c + j] = d[i + 1][j]
      <3>1. a + j \in 1 .. b /\ L - b + (a + j) = L - c + j BY <2>2, <2>3, <2>4
      <3>2. QED BY <2>4, <3>1
    <2>6. c <= L BY <2>2, <2>3, <2>4
    <2>7. QED BY <2>5, <2>6 DEF c
  <1>8. \A i \in 1 .. n + 1 : Suffix(i)
    <2> HIDE DEF Suffix
    <2> SUFFICES ASSUME T # {} PROVE FALSE
      OBVIOUS
    <2>1. PICK i \in T : \A y \in T : i <= y
      <3>1. T \in SUBSET Nat BY <1>1
      <3> HIDE DEF T
      <3>2. QED BY <3>1, Smallest
    <2>2. i \in 1 .. n + 1 /\ ~Suffix(i) OBVIOUS
    <2>3. i # 1 BY <1>6, <2>2
    <2>4. i - 1 \in 1 .. n /\ i - 1 \in 1 .. n + 1 /\ ~(i <= i - 1) /\ (i - 1) + 1 = i BY <1>1, <2>2, <2>3
    <2>5. Suffix(i - 1) BY <2>1, <2>4
    <2>6. Suffix((i - 1) + 1) BY <1>7, <2>4, <2>5
    <2>7. QED BY <2>2, <2>4, <2>6
  <1>9. p[1] = 1 /\ p[n + 1] = L + 1
    <2>1. L \in Nat BY <1>3, LenProperties
    <2>2. 1 \in 1 .. n + 1 /\ n + 1 \in 1 .. n + 1 BY <1>1
    <2>3. Len(d[n + 1]) = 0 BY <1>2, EmptySeq
    <2>4. p[1] = L - L + 1 /\ p[n + 1] = L - 0 + 1 BY <2>2, <2>3
    <2> HIDE DEF p, L
    <2>5. QED BY <2>1, <2>4
  <1>10. ASSUME NEW i \in 1 .. n
         PROVE  p[i] \in 1 .. L /\ w[p[i]] = v[i] /\ After(w, p[i]) = p[i + 1]
    <2> DEFINE a == Len(Unit(v[i]))
               b == Len(d[i])
               c == Len(d[i + 1])
    <2>1. i \in 1 .. n + 1 /\ i + 1 \in 1 .. n + 1 BY <1>1
    <2>2. /\ b \in Nat /\ c \in Nat /\ b = a + c /\ a = (IF v[i] = "quote" THEN 2 ELSE 1)
          /\ d[i][1] = v[i] /\ (v[i] = "quote" => d[i][2] = "quote")
      BY <1>4, <1>5, <2>1
    <2>3. L \in Nat BY <1>3, LenProperties
    <2>4. b <= L /\ \A j \in 1 .. b : w[L - b + j] = d[i][j]
      BY <1>8, <2>1
    <2>5. p[i] = L - b + 1 /\ p[i + 1] = L - c + 1
      BY <2>1
    <2> HIDE DEF a, b, c, p, w, Suffix
    <2>6. DOMAIN w = 1 .. L BY <1>3, LenProperties
    <2> HIDE DEF L
    <2>7. a \in {1, 2} /\ b >= 1 BY <2>2
    <2>8. p[i] \in 1 .. L BY <2>2, <2>3, <2>4, <2>5, <2>7
    <2>9. w[p[i]] = v[i]
      <3>1. 1 \in 1 .. b BY <2>2, <2>7
      <3>2. QED BY <2>2, <2>4, <2>5, <3>1
    <2>10. CASE v[i] = "quote"
      <3>1. a = 2 /\ b >= 2 /\ 2 \in 1 .. b BY <2>2, <2>10
      <3>2. w[L - b + 2] = "quote" BY <2>2, <2>4, <2>10, <3>1
      <3>3. p[i] + 1 = L - b + 2 /\ p[i] < L /\ p[i] + 2 = p[i + 1]
        BY <2>2, <2>3, <2>4, <2>5, <3>1
      <3>4. After(w, p[i]) = p[i] + 2
        BY <2>9, <2>10, <3>2, <3>3 DEF After, L
      <3>5. QED BY <2>8, <2>9, <3>3, <3>4
    <2>11. CASE v[i] # "quote"
      <3>1. a = 1 BY <2>2, <2>11
      <3>2. p[i] + 1 = p[i + 1] BY <2>2, <2>3, <2>5, <3>1
      <3>3. After(w, p[i]) = p[i] + 1
        BY <2>9, <2>11 DEF After
      <3>4. QED BY <2>8, <2>9, <3>2, <3>3
    <2>12. QED BY <2>10, <2>11
  <1> HIDE DEF p, w
  <1>11. Copying(w)[1] = v
    BY <1>3, <1>9, <1>10, CopiedIs DEF n
  <1>12. QED BY <1>3, <1>11 DEF w, d

(* Whatever a value holds, quotes, newlines and '=' included, the value the *)
(* key/value reader hands out is the one that was quoted, an empty one      *)
(* being NULL.                                                              *)
THEOREM QuotingRoundTrip == \A v \in Seq(Bytes) : Unquote(Quote(v)) = ValueOf(v)
  <1> SUFFICES ASSUME NEW v \in Seq(Bytes) PROVE Unquote(Quote(v)) = ValueOf(v)
    OBVIOUS
  <1>1. Len(v) \in Nat /\ DOMAIN v = 1 .. Len(v)
    BY LenProperties
  <1>2. CASE \A i \in DOMAIN v : v[i] = "a"
    <2>1. Quote(v) = v BY <1>2 DEF Quote
    <2>2. Stripped(v) = v
      <3>1. CASE Len(v) >= 2
        <4>1. 1 \in DOMAIN v BY <1>1, <3>1
        <4>2. v[1] # "quote" BY <1>2, <4>1
        <4>3. QED BY <4>2 DEF Stripped
      <3>2. QED BY <3>1 DEF Stripped
    <2> DEFINE p == [i \in 1 .. Len(v) + 1 |-> i]
    <2>3. p[1] = 1 /\ p[Len(v) + 1] = Len(v) + 1
      BY <1>1
    <2>4. ASSUME NEW i \in 1 .. Len(v)
          PROVE  p[i] \in 1 .. Len(v) /\ v[p[i]] = v[i] /\ After(v, p[i]) = p[i + 1]
      <3>1. p[i] = i /\ p[i + 1] = i + 1 BY <1>1
      <3>2. v[i] # "quote" BY <1>1, <1>2
      <3>3. QED BY <3>1, <3>2 DEF After
    <2> HIDE DEF p
    <2>5. Copying(v)[1] = v
      BY <2>3, <2>4, CopiedIs
    <2>6. QED BY <2>1, <2>2, <2>5 DEF Unquote, ValueOf
  <1>3. CASE ~(\A i \in DOMAIN v : v[i] = "a")
    <2> DEFINE w == Doubling(v)[1]
               q == <<"quote">>
               x == q \o w
               y == x \o q
    <2>1. Quote(v) = y BY <1>3 DEF Quote
    <2>2. w \in Seq(Bytes) /\ Copying(w)[1] = v
      BY CopyingUndoesDoubling
    <2>3. q \in Seq(Bytes) /\ Len(q) = 1 /\ q[1] = "quote"
      <3>1. "quote" \in Bytes BY DEF Bytes
      <3>2. QED BY <3>1, Single
    <2> HIDE DEF w, q
    <2>4. Len(w) \in Nat BY <2>2, LenProperties
    <2>5. /\ x \in Seq(Bytes) /\ Len(x) = Len(q) + Len(w)
          /\ \A i \in 1 .. Len(q) : x[i] = q[i]
          /\ \A i \in 1 .. Len(w) : x[Len(q) + i] = w[i]
      <3>1. q \in Seq(Bytes) /\ w \in Seq(Bytes) BY <2>2, <2>3
      <3>2. QED BY <3>1, Join
    <2> HIDE DEF x
    <2>6. /\ y \in Seq(Bytes) /\ Len(y) = Len(x) + Len(q)
          /\ \A i \in 1 .. Len(x) : y[i] = x[i]
          /\ \A i \in 1 .. Len(q) : y[Len(x) + i] = q[i]
      <3>1. q \in Seq(Bytes) /\ x \in Seq(Bytes) BY <2>3, <2>5
      <3>2. QED BY <3>1, Join
    <2> HIDE DEF y
    <2>7. Len(y) = Len(w) + 2 /\ Len(x) = Len(w) + 1
      BY <2>3, <2>4, <2>5, <2>6
    <2>8. y[1] = "quote" /\ y[Len(y)] = "quote"
      <3>1. 1 \in 1 .. Len(x) /\ 1 \in 1 .. Len(q) /\ Len(y) = Len(x) + 1 BY <2>3, <2>4, <2>7
      <3>2. QED BY <2>3, <2>5, <2>6, <3>1
    <2>9. ASSUME NEW i \in 1 .. Len(w) PROVE y[i + 1] = w[i]
      <3>1. Len(q) + i = i + 1 /\ i + 1 \in 1 .. Len(x) BY <2>3, <2>4, <2>7
      <3>2. QED BY <2>5, <2>6, <3>1
    <2>10. SubSeq(y, 2, Len(y) - 1) = w
      <3> DEFINE z == SubSeq(y, 2, Len(y) - 1)
      <3>1. 2 \in 1 .. Len(y) + 1 /\ Len(y) - 1 \in 2 - 1 .. Len(y) /\ (Len(y) - 1) - 2 + 1 = Len(w)
        BY <2>4, <2>7
      <3>2. /\ z \in Seq(Bytes) /\ Len(z) = (Len(y) - 1) - 2 + 1
            /\ \A i \in 1 .. (Len(y) - 1) - 2 + 1 : z[i] = y[2 + i - 1]
        <4>1. y \in Seq(Bytes) BY <2>6
        <4>2. 2 \in 1 .. Len(y) + 1 /\ Len(y) - 1 \in 2 - 1 .. Len(y) BY <3>1
        <4>3. QED BY <4>1, <4>2, Part
      <3> HIDE DEF z
      <3>3. Len(z) = Len(w) BY <3>1, <3>2
      <3>4. ASSUME NEW i \in 1 .. Len(z) PROVE z[i] = w[i]
        <4>1. i \in 1 .. Len(w) /\ 2 + i - 1 = i + 1 BY <2>4, <3>3
        <4>2. z[i] = y[i + 1] BY <3>1, <3>2, <4>1
        <4>3. QED BY <2>9, <4>1, <4>2
      <3>5. z = w BY <2>2, <3>2, <3>3, <3>4, SeqEqual
      <3>6. QED BY <3>5 DEF z
    <2>11. Len(y) >= 2 BY <2>4, <2>7
    <2>12. Stripped(y) = w
      BY <2>8, <2>10, <2>11 DEF Stripped
    <2>13. y # <<>>
      <3>1. Len(y) # 0 BY <2>4, <2>7
      <3>2. QED BY <3>1, EmptySeq
    <2>14. v # <<>>
      <3>1. v = <<>> => DOMAIN v = {} BY <1>1, EmptySeq
      <3>2. QED BY <1>3, <3>1
    <2>15. QED BY <2>1, <2>2, <2>12, <2>13, <2>14 DEF Unquote, ValueOf
  <1>4. QED BY <1>2, <1>3

-----------------------------------------------------------------------------
(* LM_hash_dict_deserialize, for lists of any length.                       *)

LEMMA QuoteType ==
    ASSUME NEW v \in Seq(Bytes)
    PROVE  Quote(v) \in Seq(Bytes)
  <1> DEFINE w == Doubling(v)[1]
             q == <<"quote">>
             x == q \o w
  <1>1. w \in Seq(Bytes) BY CopyingUndoesDoubling
  <1>2. "quote" \in Bytes BY DEF Bytes
  <1>3. q \in Seq(Bytes) BY <1>2, Single
  <1>4. Quote(v) = v \/ Quote(v) = x \o q BY DEF Quote
  <1> HIDE DEF w, q
  <1>5. x \in Seq(Bytes) BY <1>1, <1>3, ConcatProperties
  <1> HIDE DEF x
  <1>6. x \o q \in Seq(Bytes) BY <1>3, <1>5, ConcatProperties
  <1>7. QED BY <1>4, <1>6

(* A list of pairs, as BodyAssumption has them.                             *)
PairLists == Seq([key : Seq(KeyBytes) \ {<<>>}, value : Seq(Bytes)]) \ {<<>>}

LEMMA PairIs ==
    ASSUME NEW list \in PairLists
    PROVE  /\ Len(list) \in Nat /\ Len(list) > 0 /\ DOMAIN list = 1 .. Len(list)
           /\ \A i \in 1 .. Len(list) :
                 /\ list[i].key \in Seq(KeyBytes) /\ list[i].key # <<>> /\ list[i].key \in Seq(Bytes)
                 /\ list[i].value \in Seq(Bytes)
  <1> DEFINE P == [key : Seq(KeyBytes) \ {<<>>}, value : Seq(Bytes)]
  <1>1. list \in Seq(P) /\ list # <<>> BY DEF PairLists
  <1>2. KeyBytes \subseteq Bytes BY DEF KeyBytes, Bytes
  <1>3. ASSUME NEW i \in 1 .. Len(list)
        PROVE  /\ list[i].key \in Seq(KeyBytes) /\ list[i].key # <<>> /\ list[i].key \in Seq(Bytes)
               /\ list[i].value \in Seq(Bytes)
    <2>1. list[i] \in P BY <1>1, ElementOfSeq
    <2>2. list[i].key \in Seq(KeyBytes) \ {<<>>} /\ list[i].value \in Seq(Bytes) BY <2>1
    <2>3. list[i].key \in Seq(Bytes) BY <1>2, <2>2, SeqMonotonic
    <2>4. QED BY <2>2, <2>3
  <1>4. Len(list) \in Nat /\ DOMAIN list = 1 .. Len(list) BY <1>1, LenProperties
  <1>5. Len(list) # 0 BY <1>1, EmptySeq
  <1>6. QED BY <1>3, <1>4, <1>5

(* A line: the key, '=', the quoted value.                                  *)
LEMMA LineIs ==
    ASSUME NEW list \in PairLists, NEW i \in 1 .. Len(list)
    PROVE  LET l == Line(list[i])
               k == list[i].key
               q == Quote(list[i].value)
           IN  /\ l \in Seq(Bytes) /\ Len(k) \in Nat \ {0} /\ Len(q) \in Nat /\ q \in Seq(Bytes)
               /\ Len(l) = Len(k) + 1 + Len(q)
               /\ \A j \in 1 .. Len(k) : l[j] = k[j] /\ k[j] \in KeyBytes
               /\ l[Len(k) + 1] = "="
               /\ \A j \in 1 .. Len(q) : l[Len(k) + 1 + j] = q[j]
  <1> DEFINE l == Line(list[i])
             k == list[i].key
             q == Quote(list[i].value)
             e == <<"=">>
             a == k \o e
  <1>1. k \in Seq(KeyBytes) /\ k # <<>> /\ k \in Seq(Bytes) /\ list[i].value \in Seq(Bytes)
    BY PairIs
  <1>2. q \in Seq(Bytes) BY <1>1, QuoteType
  <1>3. l = a \o q BY DEF Line
  <1>4. e \in Seq(Bytes) /\ Len(e) = 1 /\ e[1] = "="
    <2>1. "=" \in Bytes BY DEF Bytes
    <2>2. QED BY <2>1, Single
  <1> HIDE DEF l, k, q, e
  <1>5. Len(k) \in Nat /\ Len(k) # 0 /\ Len(q) \in Nat
    BY <1>1, <1>2, LenProperties, EmptySeq
  <1>6. /\ a \in Seq(Bytes) /\ Len(a) = Len(k) + Len(e)
        /\ \A j \in 1 .. Len(k) : a[j] = k[j]
        /\ \A j \in 1 .. Len(e) : a[Len(k) + j] = e[j]
    <2>1. k \in Seq(Bytes) /\ e \in Seq(Bytes) BY <1>1, <1>4
    <2>2. QED BY <2>1, Join
  <1> HIDE DEF a
  <1>7. /\ l \in Seq(Bytes) /\ Len(l) = Len(a) + Len(q)
        /\ \A j \in 1 .. Len(a) : l[j] = a[j]
        /\ \A j \in 1 .. Len(q) : l[Len(a) + j] = q[j]
    <2>1. a \in Seq(Bytes) /\ q \in Seq(Bytes) BY <1>2, <1>6
    <2>2. QED BY <1>3, <2>1, Join
  <1>8. Len(a) = Len(k) + 1 BY <1>4, <1>6
  <1>9. \A j \in 1 .. Len(k) : l[j] = k[j] /\ k[j] \in KeyBytes
    <2> SUFFICES ASSUME NEW j \in 1 .. Len(k) PROVE l[j] = k[j] /\ k[j] \in KeyBytes OBVIOUS
    <2>1. j \in 1 .. Len(a) BY <1>5, <1>8
    <2>2. k[j] \in KeyBytes BY <1>1, ElementOfSeq
    <2>3. QED BY <1>6, <1>7, <2>1, <2>2
  <1>10. l[Len(k) + 1] = "="
    <2>1. Len(k) + 1 \in 1 .. Len(a) /\ 1 \in 1 .. Len(e) BY <1>4, <1>5, <1>8
    <2>2. QED BY <1>4, <1>6, <1>7, <2>1
  <1>11. Len(k) \in Nat \ {0} BY <1>5
  <1>12. Len(l) = Len(k) + 1 + Len(q) BY <1>7, <1>8
  <1>13. QED BY <1>2, <1>5, <1>7, <1>8, <1>9, <1>10, <1>11, <1>12 DEF l, k, q

(* The text is put together line by line.                                   *)
Ended(pair) == Line(pair) \o <<"newline">>

LEMMA EndedIs ==
    ASSUME NEW list \in PairLists, NEW i \in 1 .. Len(list)
    PROVE  LET l == Line(list[i])
               a == Ended(list[i])
           IN  /\ l \in Seq(Bytes) /\ Len(l) \in Nat /\ a \in Seq(Bytes) /\ Len(a) = Len(l) + 1
               /\ a = l \o <<"newline">> /\ a[Len(l) + 1] = "newline"
               /\ \A j \in 1 .. Len(l) : a[j] = l[j]
  <1> DEFINE l == Line(list[i])
             a == Ended(list[i])
             nl == <<"newline">>
  <1>1. l \in Seq(Bytes)
    BY LineIs
  <1>2. nl \in Seq(Bytes) /\ Len(nl) = 1 /\ nl[1] = "newline"
    <2>1. "newline" \in Bytes BY DEF Bytes
    <2>2. QED BY <2>1, Single
  <1>3. a = l \o nl
    BY DEF Ended
  <1> HIDE DEF l, nl, a
  <1>4. /\ Len(l) \in Nat /\ a \in Seq(Bytes) /\ Len(a) = Len(l) + Len(nl)
        /\ \A j \in 1 .. Len(l) : a[j] = l[j]
        /\ \A j \in 1 .. Len(nl) : a[Len(l) + j] = nl[j]
    <2>1. l \in Seq(Bytes) /\ nl \in Seq(Bytes) BY <1>1, <1>2
    <2>2. QED BY <1>3, <2>1, Join
  <1>5. a[Len(l) + 1] = "newline"
    <2>1. 1 \in 1 .. Len(nl) BY <1>2
    <2>2. QED BY <1>2, <1>4, <2>1
  <1>6. QED BY <1>1, <1>2, <1>3, <1>4, <1>5 DEF l, a, nl

LEMMA WritingIs ==
    ASSUME NEW list \in PairLists
    PROVE  LET d == Writing(list)
               n == Len(list)
           IN  /\ \A i \in 1 .. n + 1 : d[i] \in Seq(Bytes)
               /\ d[n + 1] = <<>>
               /\ \A i \in 1 .. n : d[i] = Ended(list[i]) \o d[i + 1]
  <1> DEFINE N == Len(list)
             L(i) == Ended(list[i])
             a == [i \in 1 .. N |-> L(i)]
             nxt == [i \in 1 .. N |-> i + 1]
             F(h) == [i \in 1 .. N + 1 |-> IF i > N THEN <<>> ELSE L(i) \o h[i + 1]]
             d == Writing(list)
  <1>1. d = CHOOSE h : h = F(h)
    BY DEF Writing, Ended
  <1>2. N \in Nat
    BY PairIs
  <1>3. \A i \in 1 .. N : L(i) \in Seq(Bytes)
    BY EndedIs
  <1> HIDE DEF L
  <1>4. a \in [1 .. N -> Seq(Bytes)]
    BY <1>3
  <1>5. nxt \in [1 .. N -> Nat] /\ \A i \in 1 .. N : nxt[i] \in i + 1 .. N + 1
    BY <1>2
  <1>6. \A i \in 1 .. N : a[i] = L(i) /\ nxt[i] = i + 1
    OBVIOUS
  <1>7. \A i \in 1 .. N + 1 : ~(i > N) => i \in 1 .. N
    BY <1>2
  <1> HIDE DEF N, a, nxt, d
  <1>8. PICK g \in [1 .. N + 1 -> Seq(Bytes)] :
           \A i \in 1 .. N + 1 : g[i] = IF i > N THEN <<>> ELSE a[i] \o g[nxt[i]]
    <2>1. Chain(Bytes, N, a, nxt) BY <1>2, <1>4, <1>5 DEF Chain
    <2>2. QED BY <2>1, ChainExists DEF Chained
  <1>9. \A i \in 1 .. N + 1 : g[i] = IF i > N THEN <<>> ELSE L(i) \o g[i + 1]
    BY <1>6, <1>7, <1>8
  <1>10. g = F(g)
    BY <1>9
  <1>11. d = F(d)
    BY <1>1, <1>10
  <1>12. \A i \in 1 .. N + 1 : d[i] = IF i > N THEN <<>> ELSE L(i) \o d[i + 1]
    BY <1>11
  <1>13. \A i \in 1 .. N + 1 : d[i] = IF i > N THEN <<>> ELSE a[i] \o d[nxt[i]]
    BY <1>6, <1>7, <1>12
  <1>14. \A i \in 1 .. N + 1 : d[i] \in Seq(Bytes)
    BY <1>2, <1>4, <1>5, <1>13, ChainType
  <1>15. d[N + 1] = <<>>
    BY <1>2, <1>12
  <1>16. \A i \in 1 .. N : d[i] = L(i) \o d[i + 1]
    <2> SUFFICES ASSUME NEW i \in 1 .. N PROVE d[i] = L(i) \o d[i + 1] OBVIOUS
    <2>1. i \in 1 .. N + 1 /\ ~(i > N) BY <1>2
    <2>2. QED BY <1>12, <2>1
  <1>17. QED BY <1>14, <1>15, <1>16 DEF d, N, L

(* What is left from a line on begins with that line.                       *)
LEMMA RestIs ==
    ASSUME NEW list \in PairLists, NEW i \in 1 .. Len(list)
    PROVE  LET d == Writing(list)
               a == Ended(list[i])
           IN  /\ d[i] \in Seq(Bytes) /\ d[i + 1] \in Seq(Bytes) /\ d[i] = a \o d[i + 1]
               /\ Len(d[i]) \in Nat /\ Len(d[i + 1]) \in Nat /\ Len(d[i]) = Len(a) + Len(d[i + 1])
               /\ \A j \in 1 .. Len(a) : d[i][j] = a[j]
               /\ \A j \in 1 .. Len(d[i + 1]) : d[i][Len(a) + j] = d[i + 1][j]
  <1> DEFINE d == Writing(list)
             a == Ended(list[i])
  <1>1. Len(list) \in Nat BY PairIs
  <1>2. i \in 1 .. Len(list) + 1 /\ i + 1 \in 1 .. Len(list) + 1 BY <1>1
  <1>3. d[i] \in Seq(Bytes) /\ d[i + 1] \in Seq(Bytes) /\ d[i] = a \o d[i + 1]
    BY <1>2, WritingIs
  <1>4. a \in Seq(Bytes) BY EndedIs
  <1> HIDE DEF d, a
  <1>5. /\ Len(d[i + 1]) \in Nat /\ Len(a) \in Nat /\ Len(d[i]) = Len(a) + Len(d[i + 1])
        /\ \A j \in 1 .. Len(a) : d[i][j] = a[j]
        /\ \A j \in 1 .. Len(d[i + 1]) : d[i][Len(a) + j] = d[i + 1][j]
    <2>1. a \in Seq(Bytes) /\ d[i + 1] \in Seq(Bytes) BY <1>3, <1>4
    <2>2. QED BY <1>3, <2>1, Join
  <1>6. Len(d[i]) \in Nat BY <1>5
  <1>7. QED BY <1>3, <1>5, <1>6 DEF d, a

(* The scan finds the '=' behind the first key, if it is within reach.      *)
LEMMA PairsType ==
    ASSUME NEW list \in PairLists
    PROVE  ResponseType(Writing(list)[1]) = IF Len(list[1].key) < ScanLimit THEN "KV" ELSE "BULK"
  <1> DEFINE w == Writing(list)[1]
             l == Line(list[1])
             k == list[1].key
             e == Len(k) + 1
             telling == Telling(w)
  <1>2. 1 \in 1 .. Len(list)
    <2>1. Len(list) \in Nat /\ Len(list) > 0 BY PairIs
    <2>2. QED BY <2>1
  <1>1. w \in Seq(Bytes) /\ Len(w) \in Nat /\ Len(w) > Len(l) /\ \A i \in 1 .. Len(l) : w[i] = l[i]
    <2> DEFINE a == Ended(list[1])
    <2>1. Len(l) \in Nat /\ Len(a) = Len(l) + 1 /\ \A j \in 1 .. Len(l) : a[j] = l[j]
      BY <1>2, EndedIs
    <2>2. /\ w \in Seq(Bytes) /\ Len(w) \in Nat /\ Len(w) >= Len(a)
          /\ \A j \in 1 .. Len(a) : w[j] = a[j]
      <3> DEFINE r == Writing(list)[1 + 1]
      <3>1. /\ w \in Seq(Bytes) /\ Len(w) \in Nat /\ Len(r) \in Nat /\ Len(w) = Len(a) + Len(r)
            /\ \A j \in 1 .. Len(a) : w[j] = a[j]
        BY <1>2, RestIs
      <3>2. Len(a) \in Nat BY <2>1
      <3> HIDE DEF w, r, a
      <3>3. QED BY <3>1, <3>2
    <2> HIDE DEF w, l, a
    <2>3. ASSUME NEW i \in 1 .. Len(l) PROVE w[i] = l[i]
      <3>1. i \in 1 .. Len(a) BY <2>1
      <3>2. QED BY <2>1, <2>2, <3>1
    <2>4. Len(w) > Len(l) BY <2>1, <2>2
    <2>5. QED BY <2>2, <2>3, <2>4
  <1>3. /\ Len(k) \in Nat \ {0} /\ Len(l) \in Nat /\ Len(l) >= e /\ l[e] = "="
        /\ \A j \in 1 .. Len(k) : l[j] \in KeyBytes
    <2> DEFINE q == Quote(list[1].value)
    <2>1. /\ Len(k) \in Nat \ {0} /\ Len(q) \in Nat /\ Len(l) = Len(k) + 1 + Len(q)
          /\ \A j \in 1 .. Len(k) : l[j] = k[j] /\ k[j] \in KeyBytes
          /\ l[Len(k) + 1] = "="
      BY <1>2, LineIs, ZenonT(30)
    <2> HIDE DEF q, l, k
    <2>2. Len(l) \in Nat /\ Len(l) >= e BY <2>1
    <2>3. QED BY <2>1, <2>2
  <1> HIDE DEF w, l, k
  <1>4. e \in Nat /\ e >= 2 /\ e \in 2 .. Len(w) /\ w[e] = "="
    <2>1. e \in Nat /\ e >= 2 /\ e \in 2 .. Len(w) /\ e \in 1 .. Len(l) BY <1>1, <1>3
    <2>2. QED BY <1>1, <1>3, <2>1
  <1>5. \A j \in 1 .. Len(k) : w[j] \in KeyBytes
    <2> SUFFICES ASSUME NEW j \in 1 .. Len(k) PROVE w[j] \in KeyBytes
      OBVIOUS
    <2>1. j \in 1 .. Len(l) BY <1>3
    <2>2. QED BY <1>1, <1>3, <2>1
  <1>6. w # <<>> /\ w[1] \notin {"=", ","}
    <2>1. 1 \in 1 .. Len(k) /\ Len(w) # 0 BY <1>1, <1>3
    <2>2. w # <<>> BY <2>1, EmptySeq
    <2>3. w[1] \in KeyBytes BY <1>5, <2>1
    <2>4. QED BY <2>2, <2>3 DEF KeyBytes, Digits
  <1>7. ScanLimit \in Nat BY ParseAssumption
  <1>8. \A j \in telling : j \in Nat /\ j >= e /\ j <= ScanLimit
    <2> SUFFICES ASSUME NEW j \in telling PROVE j \in Nat /\ j >= e /\ j <= ScanLimit OBVIOUS
    <2>1. j \in 2 .. Len(w) /\ j <= ScanLimit /\ w[j] \notin KeyBytes BY DEF Telling
    <2>2. ~(j \in 1 .. Len(k)) BY <1>5, <2>1
    <2> HIDE DEF telling
    <2>3. Len(w) \in Nat /\ Len(k) \in Nat BY <1>1, <1>3
    <2>4. j \in 2 .. Len(w) BY <2>1
    <2>5. j \in Nat /\ j >= 2 BY <2>3, <2>4
    <2>6. j >= e BY <2>2, <2>3, <2>5
    <2>7. QED BY <2>1, <2>5, <2>6
  <1>9. CASE Len(k) < ScanLimit
    <2>1. e <= ScanLimit BY <1>3, <1>7, <1>9
    <2>2. e \in telling BY <1>4, <2>1 DEF Telling, KeyBytes, Digits
    <2>3. \A j \in telling : e <= j BY <1>4, <1>8
    <2>4. SaysBy(w, "=") BY <1>4, <1>6, <2>2, <2>3 DEF SaysBy
    <2>5. ResponseType(w) = "KV" BY <1>1, <2>4, TypeIs
    <2>6. QED BY <1>9, <2>5 DEF w, k
  <1>10. CASE ~(Len(k) < ScanLimit)
    <2>1. ~(e <= ScanLimit) BY <1>3, <1>7, <1>10
    <2>2. \A j \in telling : FALSE BY <1>4, <1>7, <1>8, <2>1
    <2>3. \A b : ~SaysBy(w, b) BY <2>2 DEF SaysBy
    <2>4. ResponseType(w) = "BULK" BY <1>1, <2>3, TypeIs
    <2>5. QED BY <1>10, <2>4 DEF w, k
  <1>11. QED BY <1>9, <1>10

(* The dictionary of the first i pairs: the last value of each key.         *)
Latest(list, i) ==
    [k \in {list[j].key : j \in 1 .. i} |-> ValueOf(list[Max({j \in 1 .. i : list[j].key = k})].value)]

LEMMA LatestStep ==
    ASSUME NEW list, NEW i \in Nat \ {0}
    PROVE  Latest(list, i) = Insert(Latest(list, i - 1), list[i].key, ValueOf(list[i].value))
  <1> DEFINE K(m) == {list[j].key : j \in 1 .. m}
             J(m, k) == {j \in 1 .. m : list[j].key = k}
             f == Insert(Latest(list, i - 1), list[i].key, ValueOf(list[i].value))
  <1>1. 1 .. i = {i} \cup 1 .. i - 1 /\ i \notin 1 .. i - 1
    OBVIOUS
  <1>2. f = [k \in K(i - 1) \cup {list[i].key} |->
               IF k = list[i].key THEN ValueOf(list[i].value) ELSE Latest(list, i - 1)[k]]
    BY DEF Insert, Latest
  <1>3. K(i) = K(i - 1) \cup {list[i].key}
    BY <1>1
  <1>4. ASSUME NEW k \in K(i)
        PROVE  ValueOf(list[Max(J(i, k))].value) =
                 IF k = list[i].key THEN ValueOf(list[i].value) ELSE Latest(list, i - 1)[k]
    <2>1. CASE k = list[i].key
      <3>1. J(i, k) \in SUBSET Int /\ i \in J(i, k) /\ \A y \in J(i, k) : i >= y
        BY <2>1
      <3> HIDE DEF J
      <3>2. Max(J(i, k)) = i BY <3>1, MaxIs
      <3>3. QED BY <2>1, <3>2
    <2>2. CASE k # list[i].key
      <3>1. k \in K(i - 1) BY <1>3, <2>2
      <3>2. J(i, k) = J(i - 1, k) BY <1>1, <2>2
      <3>3. Latest(list, i - 1)[k] = ValueOf(list[Max(J(i - 1, k))].value) BY <3>1 DEF Latest
      <3>4. QED BY <2>2, <3>2, <3>3
    <2>3. QED BY <2>1, <2>2
  <1>5. Latest(list, i) = [k \in K(i) |-> ValueOf(list[Max(J(i, k))].value)]
    BY DEF Latest
  <1> HIDE DEF K, J, f
  <1>6. QED BY <1>2, <1>3, <1>4, <1>5 DEF f

-----------------------------------------------------------------------------
(* M_str_explode_quoted, on what the server puts together.                  *)

Flip(s, i, q) == IF s[i] = "quote" THEN 1 - q ELSE q

LEMMA QuotingIs ==
    ASSUME NEW s \in Seq(Bytes)
    PROVE  /\ Quoting(s)[0] = 0
           /\ \A i \in 0 .. Len(s) : Quoting(s)[i] \in {0, 1}
           /\ \A i \in 1 .. Len(s) : Quoting(s)[i] = Flip(s, i, Quoting(s)[i - 1])
  <1> DEFINE N == Len(s)
             F(h) == [i \in 0 .. N |-> IF i = 0 THEN 0 ELSE Flip(s, i, h[i - 1])]
             d == Quoting(s)
             Good(m) == \E f \in [0 .. m -> {0, 1}] :
                           \A i \in 0 .. m : f[i] = IF i = 0 THEN 0 ELSE Flip(s, i, f[i - 1])
             T == {m \in 0 .. N : ~Good(m)}
  <1>1. d = CHOOSE h : h = F(h)
    BY DEF Quoting, Flip
  <1>2. N \in Nat
    BY LenProperties
  <1> HIDE DEF N, d
  <1>3. Good(0)
    <2> DEFINE f == [i \in 0 .. 0 |-> 0]
    <2>1. f \in [0 .. 0 -> {0, 1}] OBVIOUS
    <2>2. \A i \in 0 .. 0 : i = 0 /\ f[i] = 0 OBVIOUS
    <2>3. \A i \in 0 .. 0 : f[i] = IF i = 0 THEN 0 ELSE Flip(s, i, f[i - 1]) BY <2>2
    <2> HIDE DEF f
    <2>4. QED BY <2>1, <2>3
  <1>4. ASSUME NEW m \in 1 .. N, Good(m - 1) PROVE Good(m)
    <2>1. PICK f \in [0 .. m - 1 -> {0, 1}] :
             \A i \in 0 .. m - 1 : f[i] = IF i = 0 THEN 0 ELSE Flip(s, i, f[i - 1])
      BY <1>4
    <2>2. m \in Nat /\ m # 0 /\ 0 .. m = {m} \cup 0 .. m - 1 /\ m \notin 0 .. m - 1 /\ m - 1 \in 0 .. m - 1
      BY <1>2
    <2> DEFINE x == Flip(s, m, f[m - 1])
               g == [i \in 0 .. m |-> IF i = m THEN x ELSE f[i]]
    <2>3. x \in {0, 1}
      <3>1. f[m - 1] \in {0, 1} BY <2>2
      <3>2. QED BY <3>1 DEF Flip
    <2>4. g \in [0 .. m -> {0, 1}]
      <3> HIDE DEF x
      <3>1. \A i \in 0 .. m : (IF i = m THEN x ELSE f[i]) \in {0, 1} BY <2>2, <2>3
      <3>2. QED BY <3>1
    <2>5. ASSUME NEW i \in 0 .. m PROVE g[i] = IF i = 0 THEN 0 ELSE Flip(s, i, g[i - 1])
      <3>1. CASE i = m
        <4>1. g[i] = x /\ g[i - 1] = f[m - 1] /\ i # 0 BY <2>2, <3>1
        <4>2. QED BY <3>1, <4>1
      <3>2. CASE i # m
        <4>1. i \in 0 .. m - 1 /\ (i # 0 => i - 1 \in 0 .. m /\ i - 1 # m) BY <2>2, <3>2
        <4>2. g[i] = f[i] /\ (i # 0 => g[i - 1] = f[i - 1]) BY <3>2, <4>1
        <4>3. QED BY <2>1, <4>1, <4>2
      <3>3. QED BY <3>1, <3>2
    <2> HIDE DEF g
    <2>6. QED BY <2>4, <2>5
  <1>5. Good(N)
    <2> SUFFICES ASSUME ~Good(N) PROVE FALSE
      OBVIOUS
    <2> HIDE DEF Good
    <2>1. T \in SUBSET Nat /\ N \in T
      BY <1>2
    <2>2. PICK m \in T : \A y \in T : m <= y
      <3> HIDE DEF T
      <3>1. QED BY <2>1, Smallest
    <2>3. m \in 0 .. N /\ ~Good(m)
      OBVIOUS
    <2>4. m # 0
      BY <1>3, <2>3
    <2>5. m \in 1 .. N /\ m - 1 \in 0 .. N /\ ~(m <= m - 1)
      BY <1>2, <2>3, <2>4
    <2>6. Good(m - 1)
      BY <2>2, <2>5
    <2>7. QED BY <1>4, <2>3, <2>5, <2>6
  <1>6. PICK g \in [0 .. N -> {0, 1}] :
           \A i \in 0 .. N : g[i] = IF i = 0 THEN 0 ELSE Flip(s, i, g[i - 1])
    BY <1>5
  <1> HIDE DEF Good
  <1>7. g = F(g)
    BY <1>6
  <1>8. d = F(d)
    BY <1>1, <1>7
  <1>9. \A i \in 0 .. N : d[i] = IF i = 0 THEN 0 ELSE Flip(s, i, d[i - 1])
    BY <1>8
  <1>10. d[0] = 0 BY <1>2, <1>9
  <1>11. \A i \in 1 .. N : i \in 0 .. N /\ i - 1 \in 0 .. N /\ i # 0
    BY <1>2
  <1>12. \A i \in 1 .. N : d[i] = Flip(s, i, d[i - 1])
    BY <1>9, <1>11
  <1>13. \A i \in 0 .. N : d[i] \in {0, 1}
    <2> DEFINE U == {i \in 0 .. N : d[i] \notin {0, 1}}
    <2> SUFFICES ASSUME U # {} PROVE FALSE
      OBVIOUS
    <2>1. PICK i \in U : \A y \in U : i <= y
      <3>1. U \in SUBSET Nat BY <1>2
      <3> HIDE DEF U
      <3>2. QED BY <3>1, Smallest
    <2>2. i \in 0 .. N /\ d[i] \notin {0, 1} OBVIOUS
    <2>3. i # 0 BY <1>10, <2>2
    <2>4. i \in 1 .. N /\ i - 1 \in 0 .. N /\ ~(i <= i - 1) BY <1>2, <2>2, <2>3
    <2>5. d[i - 1] \in {0, 1} BY <2>1, <2>4
    <2>6. d[i] \in {0, 1}
      <3>1. d[i] = Flip(s, i, d[i - 1]) BY <1>12, <2>4
      <3>2. QED BY <2>5, <3>1 DEF Flip
    <2>7. QED BY <2>2, <2>6
  <1>14. QED BY <1>10, <1>12, <1>13 DEF d, N

(* What is behind t does not matter to s, and s only by what it leaves open. *)
LEMMA QuotingJoin ==
    ASSUME NEW s \in Seq(Bytes), NEW t \in Seq(Bytes)
    PROVE  /\ \A i \in 0 .. Len(s) : Quoting(s \o t)[i] = Quoting(s)[i]
           /\ \A i \in 0 .. Len(t) : Quoting(s \o t)[Len(s) + i] =
                 IF Quoting(s)[Len(s)] = 0 THEN Quoting(t)[i] ELSE 1 - Quoting(t)[i]
  <1> DEFINE u == s \o t
             m == Len(s)
             n == Len(t)
             a == Quoting(s)
             b == Quoting(t)
             c == Quoting(u)
             X(i) == IF a[m] = 0 THEN b[i] ELSE 1 - b[i]
  <1>1. /\ u \in Seq(Bytes) /\ m \in Nat /\ n \in Nat /\ Len(u) = m + n
        /\ \A i \in 1 .. m : u[i] = s[i]
        /\ \A i \in 1 .. n : u[m + i] = t[i]
    BY Join
  <1> HIDE DEF u
  <1>2. /\ a[0] = 0 /\ (\A i \in 0 .. m : a[i] \in {0, 1})
        /\ \A i \in 1 .. m : a[i] = Flip(s, i, a[i - 1])
    BY QuotingIs
  <1>3. /\ b[0] = 0 /\ (\A i \in 0 .. n : b[i] \in {0, 1})
        /\ \A i \in 1 .. n : b[i] = Flip(t, i, b[i - 1])
    BY QuotingIs
  <1>4. /\ c[0] = 0 /\ (\A i \in 1 .. Len(u) : c[i] = Flip(u, i, c[i - 1]))
    <2>1. u \in Seq(Bytes) BY <1>1
    <2>2. QED BY <2>1, QuotingIs
  <1> HIDE DEF m, n, a, b, c
  <1>5. \A i \in 0 .. m : c[i] = a[i]
    <2> DEFINE T == {i \in 0 .. m : c[i] # a[i]}
    <2> SUFFICES ASSUME T # {} PROVE FALSE
      OBVIOUS
    <2>1. PICK i \in T : \A y \in T : i <= y
      <3>1. T \in SUBSET Nat BY <1>1
      <3> HIDE DEF T
      <3>2. QED BY <3>1, Smallest
    <2>2. i \in 0 .. m /\ c[i] # a[i] OBVIOUS
    <2>3. i # 0 BY <1>2, <1>4, <2>2
    <2>4. i \in 1 .. m /\ i - 1 \in 0 .. m /\ ~(i <= i - 1) /\ i \in 1 .. Len(u)
      <3>1. m \in Nat /\ n \in Nat /\ Len(u) = m + n BY <1>1
      <3> HIDE DEF T
      <3>2. QED BY <2>2, <2>3, <3>1
    <2>5. c[i - 1] = a[i - 1] BY <2>1, <2>4
    <2>6. u[i] = s[i] BY <1>1, <2>4
    <2>7. c[i] = Flip(u, i, c[i - 1]) /\ a[i] = Flip(s, i, a[i - 1]) BY <1>2, <1>4, <2>4
    <2>8. QED BY <2>2, <2>5, <2>6, <2>7 DEF Flip
  <1>6. \A i \in 0 .. n : c[m + i] = X(i)
    <2> DEFINE T == {i \in 0 .. n : c[m + i] # X(i)}
    <2> SUFFICES ASSUME T # {} PROVE FALSE
      OBVIOUS
    <2>1. PICK i \in T : \A y \in T : i <= y
      <3>1. T \in SUBSET Nat BY <1>1
      <3> HIDE DEF T
      <3>2. QED BY <3>1, Smallest
    <2>2. i \in 0 .. n /\ c[m + i] # X(i) OBVIOUS
    <2>3. a[m] \in {0, 1} /\ c[m] = a[m]
      <3>1. m \in 0 .. m BY <1>1
      <3>2. QED BY <1>2, <1>5, <3>1
    <2>4. i # 0
      <3>1. X(0) = c[m] BY <1>3, <2>3
      <3>2. m + 0 = m BY <1>1
      <3>3. QED BY <2>2, <3>1, <3>2
    <2>5. i \in 1 .. n /\ i - 1 \in 0 .. n /\ ~(i <= i - 1) /\ m + i \in 1 .. Len(u) /\ m + i - 1 = m + (i - 1)
      <3>1. m \in Nat /\ n \in Nat /\ Len(u) = m + n BY <1>1
      <3> HIDE DEF T, X
      <3>2. QED BY <2>2, <2>4, <3>1
    <2>6. c[m + (i - 1)] = X(i - 1) BY <2>1, <2>5
    <2>7. u[m + i] = t[i] BY <1>1, <2>5
    <2>8. c[m + i] = Flip(u, m + i, c[m + (i - 1)])
      <3>1. PICK k \in 1 .. Len(u) : k = m + i BY <2>5
      <3>2. c[k] = Flip(u, k, c[k - 1]) BY <1>4
      <3> HIDE DEF T, X
      <3>3. m \in Nat /\ n \in Nat BY <1>1
      <3>4. i \in Nat BY <2>5, <3>3
      <3>5. k - 1 = m + (i - 1) BY <3>1, <3>3, <3>4
      <3>6. QED BY <3>1, <3>2, <3>5
    <2>9. b[i] = Flip(t, i, b[i - 1]) /\ b[i - 1] \in {0, 1} BY <1>3, <2>5
    <2> HIDE DEF T
    <2>10. QED BY <2>2, <2>6, <2>7, <2>8, <2>9 DEF Flip
  <1>7. QED BY <1>5, <1>6 DEF u, m, n, a, b, c

(* Without quotes nothing is ever open.                                     *)
LEMMA QuotingNone ==
    ASSUME NEW s \in Seq(Bytes), NEW m \in 0 .. Len(s), \A i \in 1 .. m : s[i] # "quote"
    PROVE  \A i \in 0 .. m : Quoting(s)[i] = 0
  <1> DEFINE a == Quoting(s)
             T == {i \in 0 .. m : a[i] # 0}
  <1>1. Len(s) \in Nat BY LenProperties
  <1>2. a[0] = 0 /\ \A i \in 1 .. Len(s) : a[i] = Flip(s, i, a[i - 1])
    BY QuotingIs
  <1> HIDE DEF a
  <1> SUFFICES ASSUME T # {} PROVE FALSE
    BY DEF a
  <1>3. PICK i \in T : \A y \in T : i <= y
    <2>1. T \in SUBSET Nat BY <1>1
    <2> HIDE DEF T
    <2>2. QED BY <2>1, Smallest
  <1>4. i \in 0 .. m /\ a[i] # 0 OBVIOUS
  <1>5. i # 0 BY <1>2, <1>4
  <1>6. i \in 1 .. m /\ i - 1 \in 0 .. m /\ ~(i <= i - 1) /\ i \in 1 .. Len(s)
    <2> HIDE DEF T
    <2>1. QED BY <1>1, <1>4, <1>5
  <1>7. a[i - 1] = 0 BY <1>3, <1>6
  <1>8. QED BY <1>2, <1>4, <1>6, <1>7 DEF Flip

(* A value that is quoted leaves no quote open, and shows no newline.       *)
Closed(s) == Quoting(s)[Len(s)] = 0
Bare(s) == \A i \in 1 .. Len(s) : s[i] # "quote" => Quoting(s)[i] = 0
Hides(s) == \A i \in 1 .. Len(s) : s[i] = "newline" => Quoting(s)[i] = 1

LEMMA BareJoin ==
    ASSUME NEW s \in Seq(Bytes), NEW t \in Seq(Bytes), Closed(s), Bare(s), Closed(t), Bare(t)
    PROVE  Closed(s \o t) /\ Bare(s \o t)
  <1> DEFINE u == s \o t
  <1>1. /\ u \in Seq(Bytes) /\ Len(s) \in Nat /\ Len(t) \in Nat /\ Len(u) = Len(s) + Len(t)
        /\ \A i \in 1 .. Len(s) : u[i] = s[i]
        /\ \A i \in 1 .. Len(t) : u[Len(s) + i] = t[i]
    BY Join
  <1>2. /\ \A i \in 0 .. Len(s) : Quoting(u)[i] = Quoting(s)[i]
        /\ \A i \in 0 .. Len(t) : Quoting(u)[Len(s) + i] = Quoting(t)[i]
    BY QuotingJoin DEF Closed
  <1> HIDE DEF u
  <1>3. Closed(u)
    <2>1. Len(t) \in 0 .. Len(t) BY <1>1
    <2>2. Quoting(u)[Len(s) + Len(t)] = Quoting(t)[Len(t)] BY <1>2, <2>1
    <2>3. QED BY <1>1, <2>2 DEF Closed
  <1>4. Bare(u)
    <2> SUFFICES ASSUME NEW i \in 1 .. Len(u), u[i] # "quote" PROVE Quoting(u)[i] = 0
      BY DEF Bare
    <2>1. CASE i <= Len(s)
      <3>1. i \in 1 .. Len(s) /\ i \in 0 .. Len(s) BY <1>1, <2>1
      <3>2. QED BY <1>1, <1>2, <3>1 DEF Bare
    <2>2. CASE ~(i <= Len(s))
      <3>0. Len(s) \in Nat /\ Len(t) \in Nat /\ i \in 1 .. Len(s) + Len(t) BY <1>1
      <3>1. PICK j \in Nat : j = i - Len(s)
        <4>1. i - Len(s) \in Nat BY <2>2, <3>0
        <4>2. QED BY <4>1
      <3>2. j \in 1 .. Len(t) /\ j \in 0 .. Len(t) /\ i = Len(s) + j BY <2>2, <3>0, <3>1
      <3>3. u[i] = t[j] /\ Quoting(u)[i] = Quoting(t)[j] BY <1>1, <1>2, <3>2
      <3>4. QED BY <3>2, <3>3 DEF Bare
    <2>3. QED BY <2>1, <2>2
  <1>5. QED BY <1>3, <1>4 DEF u

LEMMA UnitBare ==
    ASSUME NEW b \in Bytes
    PROVE  Unit(b) \in Seq(Bytes) /\ Closed(Unit(b)) /\ Bare(Unit(b))
  <1> DEFINE u == Unit(b)
  <1>1. CASE b = "quote"
    <2>1. u = <<"quote", "quote">> BY <1>1 DEF Unit
    <2>2. u \in Seq(Bytes) /\ Len(u) = 2 /\ u[1] = "quote" /\ u[2] = "quote"
      <3>1. <<b, b>> \in Seq(Bytes) OBVIOUS
      <3>2. u \in Seq(Bytes) BY <1>1, <2>1, <3>1
      <3>3. Len(<<"quote", "quote">>) = 2 OBVIOUS
      <3>4. u[1] = "quote" /\ u[2] = "quote" BY <2>1
      <3>5. QED BY <2>1, <3>2, <3>3, <3>4
    <2> HIDE DEF u
    <2>3. Quoting(u)[0] = 0 /\ \A i \in 1 .. 2 : Quoting(u)[i] = Flip(u, i, Quoting(u)[i - 1])
      BY <2>2, QuotingIs
    <2>4. Quoting(u)[1] = 1
      <3>1. Quoting(u)[1] = Flip(u, 1, Quoting(u)[1 - 1]) BY <2>3
      <3>2. QED BY <2>2, <2>3, <3>1 DEF Flip
    <2>5. Quoting(u)[2] = 0
      <3>1. Quoting(u)[2] = Flip(u, 2, Quoting(u)[2 - 1]) BY <2>3
      <3>2. QED BY <2>2, <2>4, <3>1 DEF Flip
    <2>6. Bare(u)
      <3>1. \A i \in 1 .. 2 : i = 1 \/ i = 2 OBVIOUS
      <3>2. QED BY <2>2, <3>1 DEF Bare
    <2>7. QED BY <2>2, <2>5, <2>6 DEF Closed, u
  <1>2. CASE b # "quote"
    <2>1. u = <<b>> BY <1>2 DEF Unit
    <2>2. u \in Seq(Bytes) /\ Len(u) = 1 /\ u[1] = b BY <2>1
    <2> HIDE DEF u
    <2>3. \A i \in 0 .. 1 : Quoting(u)[i] = 0
      <3>1. \A i \in 1 .. 1 : u[i] # "quote" BY <1>2, <2>2
      <3>2. 1 \in 0 .. Len(u) BY <2>2
      <3>3. QED BY <2>2, <3>1, <3>2, QuotingNone
    <2>4. Closed(u) BY <2>2, <2>3 DEF Closed
    <2>5. Bare(u) BY <2>2, <2>3 DEF Bare
    <2>6. QED BY <2>2, <2>4, <2>5 DEF u
  <1>3. QED BY <1>1, <1>2

LEMMA EmptyBare == Closed(<<>>) /\ Bare(<<>>)
  <1>1. <<>> \in Seq(Bytes) /\ Len(<<>>) = 0 BY EmptySeq
  <1>2. Quoting(<<>>)[0] = 0 BY <1>1, QuotingIs
  <1>3. 1 .. 0 = {} OBVIOUS
  <1>4. QED BY <1>1, <1>2, <1>3 DEF Closed, Bare

LEMMA DoublingBare ==
    ASSUME NEW v \in Seq(Bytes)
    PROVE  Closed(Doubling(v)[1]) /\ Bare(Doubling(v)[1])
  <1> DEFINE n == Len(v)
             d == Doubling(v)
             T == {m \in 0 .. n : ~(Closed(d[n + 1 - m]) /\ Bare(d[n + 1 - m]))}
  <1>1. n \in Nat
    BY LenProperties
  <1>2. /\ \A i \in 1 .. n + 1 : d[i] \in Seq(Bytes)
        /\ d[n + 1] = <<>>
        /\ \A i \in 1 .. n : d[i] = Unit(v[i]) \o d[i + 1]
    BY DoublingIs
  <1>3. \A i \in 1 .. n : v[i] \in Bytes
    BY ElementOfSeq
  <1> HIDE DEF d, n
  <1>4. T = {}
    <2> SUFFICES ASSUME T # {} PROVE FALSE
      OBVIOUS
    <2>1. PICK m \in T : \A y \in T : m <= y
      <3>1. T \in SUBSET Nat BY <1>1
      <3> HIDE DEF T
      <3>2. QED BY <3>1, Smallest
    <2>2. PICK i \in Int : i = n + 1 - m BY <1>1
    <2>3. m \in 0 .. n /\ ~(Closed(d[i]) /\ Bare(d[i])) BY <2>2
    <2>4. i \in 1 .. n + 1 BY <1>1, <2>2, <2>3
    <2>5. i # n + 1 BY <1>2, <2>3, EmptyBare
    <2>6. i \in 1 .. n /\ i + 1 \in 1 .. n + 1 /\ m - 1 \in 0 .. n /\ ~(m <= m - 1) /\ n + 1 - (m - 1) = i + 1
      <3> HIDE DEF T
      <3>1. QED BY <1>1, <2>2, <2>3, <2>4, <2>5
    <2>7. Closed(d[i + 1]) /\ Bare(d[i + 1]) BY <2>1, <2>6
    <2>8. d[i] = Unit(v[i]) \o d[i + 1] /\ d[i + 1] \in Seq(Bytes) BY <1>2, <2>6
    <2>9. Unit(v[i]) \in Seq(Bytes) /\ Closed(Unit(v[i])) /\ Bare(Unit(v[i]))
      BY <1>3, <2>6, UnitBare
    <2> HIDE DEF T
    <2>10. QED BY <2>3, <2>7, <2>8, <2>9, BareJoin
  <1>5. n \in 0 .. n /\ n + 1 - n = 1 BY <1>1
  <1>6. n \notin T BY <1>4
  <1>7. Closed(d[1]) /\ Bare(d[1]) BY <1>5, <1>6
  <1>8. QED BY <1>7 DEF d

LEMMA QuoteHides ==
    ASSUME NEW v \in Seq(Bytes)
    PROVE  Closed(Quote(v)) /\ Hides(Quote(v))
  <1>1. Len(v) \in Nat /\ DOMAIN v = 1 .. Len(v)
    BY LenProperties
  <1>2. CASE \A i \in DOMAIN v : v[i] = "a"
    <2>1. Quote(v) = v BY <1>2 DEF Quote
    <2>2. \A i \in 1 .. Len(v) : v[i] # "quote" /\ v[i] # "newline" BY <1>1, <1>2
    <2>3. Len(v) \in 0 .. Len(v) BY <1>1
    <2>4. Quoting(v)[Len(v)] = 0 BY <2>2, <2>3, QuotingNone
    <2>5. QED BY <2>1, <2>2, <2>4 DEF Closed, Hides
  <1>3. CASE ~(\A i \in DOMAIN v : v[i] = "a")
    <2> DEFINE w == Doubling(v)[1]
               q == <<"quote">>
               x == q \o w
               y == x \o q
    <2>1. Quote(v) = y BY <1>3 DEF Quote
    <2>2. w \in Seq(Bytes) /\ Closed(w) /\ Bare(w)
      BY CopyingUndoesDoubling, DoublingBare
    <2>3. q \in Seq(Bytes) /\ Len(q) = 1 /\ q[1] = "quote"
      <3>1. "quote" \in Bytes BY DEF Bytes
      <3>2. QED BY <3>1, Single
    <2> HIDE DEF w, q
    <2>4. Quoting(q)[0] = 0 /\ Quoting(q)[1] = 1
      <3>1. Quoting(q)[0] = 0 /\ \A i \in 1 .. Len(q) : Quoting(q)[i] = Flip(q, i, Quoting(q)[i - 1])
        BY <2>3, QuotingIs
      <3>2. 1 \in 1 .. Len(q) BY <2>3
      <3>3. Quoting(q)[1] = Flip(q, 1, Quoting(q)[1 - 1]) BY <3>1, <3>2
      <3>4. QED BY <2>3, <3>1, <3>3 DEF Flip
    <2>5. /\ x \in Seq(Bytes) /\ Len(w) \in Nat /\ Len(x) = Len(q) + Len(w)
          /\ \A i \in 1 .. Len(q) : x[i] = q[i]
          /\ \A i \in 1 .. Len(w) : x[Len(q) + i] = w[i]
      <3>1. q \in Seq(Bytes) /\ w \in Seq(Bytes) BY <2>2, <2>3
      <3>2. QED BY <3>1, Join
    <2>6. \A i \in 0 .. Len(w) : Quoting(x)[Len(q) + i] = 1 - Quoting(w)[i]
      <3>1. q \in Seq(Bytes) /\ w \in Seq(Bytes) BY <2>2, <2>3
      <3>2. \A i \in 0 .. Len(w) : Quoting(x)[Len(q) + i] =
               IF Quoting(q)[Len(q)] = 0 THEN Quoting(w)[i] ELSE 1 - Quoting(w)[i]
        BY <3>1, QuotingJoin
      <3>3. Quoting(q)[Len(q)] # 0 BY <2>3, <2>4
      <3>4. QED BY <3>2, <3>3
    <2> HIDE DEF x
    <2>7. /\ y \in Seq(Bytes) /\ Len(x) \in Nat /\ Len(y) = Len(x) + Len(q)
          /\ \A i \in 1 .. Len(x) : y[i] = x[i]
          /\ \A i \in 1 .. Len(q) : y[Len(x) + i] = q[i]
      <3>1. q \in Seq(Bytes) /\ x \in Seq(Bytes) BY <2>3, <2>5
      <3>2. QED BY <3>1, Join
    <2>8. Len(x) = Len(w) + 1 /\ Len(y) = Len(w) + 2
      BY <2>3, <2>5, <2>7
    <2>9. Quoting(x)[Len(x)] = 1
      <3>1. Len(w) \in 0 .. Len(w) /\ Len(x) = Len(q) + Len(w) BY <2>5
      <3>2. Quoting(x)[Len(x)] = 1 - Quoting(w)[Len(w)] BY <2>6, <3>1
      <3>3. QED BY <2>2, <3>2 DEF Closed
    <2>10. /\ \A i \in 0 .. Len(x) : Quoting(y)[i] = Quoting(x)[i]
           /\ \A i \in 0 .. Len(q) : Quoting(y)[Len(x) + i] =
                IF Quoting(x)[Len(x)] = 0 THEN Quoting(q)[i] ELSE 1 - Quoting(q)[i]
      <3>1. q \in Seq(Bytes) /\ x \in Seq(Bytes) BY <2>3, <2>5
      <3>2. QED BY <3>1, QuotingJoin
    <2> HIDE DEF y
    <2>11. Closed(y)
      <3>1. Len(q) \in 0 .. Len(q) BY <2>3
      <3>2. Quoting(y)[Len(x) + Len(q)] = 1 - Quoting(q)[Len(q)] BY <2>9, <2>10, <3>1
      <3>3. Quoting(q)[Len(q)] = 1 BY <2>3, <2>4
      <3>4. QED BY <2>7, <3>2, <3>3 DEF Closed
    <2>12. ASSUME NEW i \in 1 .. Len(y), y[i] = "newline" PROVE Quoting(y)[i] = 1
      <3>1. CASE i = 1
        <4>1. 1 \in 1 .. Len(x) /\ 1 \in 1 .. Len(q) BY <2>3, <2>5, <2>8
        <4>2. y[i] = "quote" BY <2>3, <2>5, <2>7, <3>1, <4>1
        <4>3. QED BY <2>12, <4>2
      <3>2. CASE i = Len(y)
        <4>1. 1 \in 1 .. Len(q) /\ i = Len(x) + 1 BY <2>3, <2>7, <3>2
        <4>2. y[i] = "quote" BY <2>3, <2>7, <4>1
        <4>3. QED BY <2>12, <4>2
      <3>3. CASE i # 1 /\ i # Len(y)
        <4>1. PICK j \in Int : j = i - 1 BY <2>8
        <4>2. j \in 1 .. Len(w) /\ j \in 0 .. Len(w) /\ i = 1 + j /\ i \in 1 .. Len(x) /\ i \in 0 .. Len(x)
          BY <2>5, <2>8, <3>3, <4>1
        <4>3. y[i] = w[j] BY <2>3, <2>5, <2>7, <4>2
        <4>4. Quoting(w)[j] = 0 BY <2>2, <2>12, <4>2, <4>3 DEF Bare
        <4>5. Quoting(x)[i] = 1 - Quoting(w)[j] BY <2>3, <2>6, <4>2
        <4>6. Quoting(y)[i] = Quoting(x)[i] BY <2>10, <4>2
        <4>7. QED BY <4>4, <4>5, <4>6
      <3>4. QED BY <3>1, <3>2, <3>3
    <2>13. QED BY <2>1, <2>11, <2>12 DEF Hides
  <1>4. QED BY <1>2, <1>3

(* A line shows no newline, and its first '=' is the one behind the key.    *)
LEMMA LineHides ==
    ASSUME NEW list \in PairLists, NEW i \in 1 .. Len(list)
    PROVE  LET l == Line(list[i])
               k == list[i].key
           IN  /\ Closed(l) /\ Hides(l)
               /\ Delimiters(l, "=") # {} /\ KeyEnd(l) = Len(k) + 1
  <1> DEFINE l == Line(list[i])
             k == list[i].key
             q == Quote(list[i].value)
             e == <<"=">>
             a == k \o e
  <1>1. k \in Seq(Bytes) /\ list[i].value \in Seq(Bytes)
    BY PairIs
  <1>2. /\ l \in Seq(Bytes) /\ Len(k) \in Nat \ {0} /\ Len(q) \in Nat /\ q \in Seq(Bytes)
        /\ Len(l) = Len(k) + 1 + Len(q)
        /\ \A j \in 1 .. Len(k) : l[j] = k[j] /\ k[j] \in KeyBytes
        /\ l[Len(k) + 1] = "="
        /\ \A j \in 1 .. Len(q) : l[Len(k) + 1 + j] = q[j]
    BY LineIs
  <1>3. Closed(q) /\ Hides(q)
    BY <1>1, QuoteHides
  <1>4. l = a \o q
    BY DEF Line
  <1>5. e \in Seq(Bytes) /\ Len(e) = 1
    <2>1. "=" \in Bytes BY DEF Bytes
    <2>2. QED BY <2>1, Single
  <1> HIDE DEF l, k, q, e
  <1>6. a \in Seq(Bytes) /\ Len(a) = Len(k) + 1
    <2>1. a \in Seq(Bytes) /\ Len(a) = Len(k) + Len(e)
      <3>1. k \in Seq(Bytes) /\ e \in Seq(Bytes) BY <1>1, <1>5
      <3>2. QED BY <3>1, Join
    <2>2. QED BY <1>5, <2>1
  <1> HIDE DEF a
  <1>7. \A j \in 0 .. Len(k) + 1 : Quoting(l)[j] = 0
    <2>1. \A j \in 1 .. Len(k) + 1 : l[j] # "quote"
      <3> SUFFICES ASSUME NEW j \in 1 .. Len(k) + 1 PROVE l[j] # "quote" OBVIOUS
      <3>1. j \in 1 .. Len(k) \/ j = Len(k) + 1 BY <1>2
      <3>2. j \in 1 .. Len(k) => l[j] \in KeyBytes BY <1>2
      <3>3. QED BY <1>2, <3>1, <3>2 DEF KeyBytes, Digits
    <2>2. Len(k) + 1 \in 0 .. Len(l) BY <1>2
    <2>3. l \in Seq(Bytes) BY <1>2
    <2>4. QED BY <2>1, <2>2, <2>3, QuotingNone
  <1>8. \A j \in 0 .. Len(q) : Quoting(l)[Len(k) + 1 + j] = Quoting(q)[j]
    <2>1. a \in Seq(Bytes) /\ q \in Seq(Bytes) BY <1>2, <1>6
    <2>2. /\ \A j \in 0 .. Len(a) : Quoting(l)[j] = Quoting(a)[j]
          /\ \A j \in 0 .. Len(q) : Quoting(l)[Len(a) + j] =
                IF Quoting(a)[Len(a)] = 0 THEN Quoting(q)[j] ELSE 1 - Quoting(q)[j]
      BY <1>4, <2>1, QuotingJoin
    <2>3. Len(a) \in 0 .. Len(a) /\ Len(a) \in 0 .. Len(k) + 1 BY <1>2, <1>6
    <2>4. Quoting(a)[Len(a)] = 0 BY <1>7, <2>2, <2>3
    <2>5. QED BY <1>6, <2>2, <2>4
  <1>9. Closed(l)
    <2>1. Len(q) \in 0 .. Len(q) BY <1>2
    <2>2. Quoting(l)[Len(k) + 1 + Len(q)] = 0 BY <1>3, <1>8, <2>1 DEF Closed
    <2>3. QED BY <1>2, <2>2 DEF Closed
  <1>10. Hides(l)
    <2> SUFFICES ASSUME NEW j \in 1 .. Len(l), l[j] = "newline" PROVE Quoting(l)[j] = 1
      BY DEF Hides
    <2>0. j \in Nat /\ Len(k) \in Nat /\ Len(q) \in Nat /\ j >= 1 /\ j <= Len(k) + 1 + Len(q) BY <1>2
    <2>1. ~(j \in 1 .. Len(k)) /\ j # Len(k) + 1
      <3>1. j \in 1 .. Len(k) => l[j] \in KeyBytes BY <1>2
      <3>2. QED BY <1>2, <3>1 DEF KeyBytes, Digits
    <2>2. PICK m \in Int : m = j - (Len(k) + 1)
      <3>1. j - (Len(k) + 1) \in Int BY <2>0
      <3>2. QED BY <3>1
    <2>3. m \in 1 .. Len(q) /\ m \in 0 .. Len(q) /\ j = Len(k) + 1 + m BY <2>0, <2>1, <2>2
    <2>4. q[m] = "newline" BY <1>2, <2>3
    <2>5. QED BY <1>3, <1>8, <2>3, <2>4 DEF Hides
  <1>11. Len(k) + 1 \in Delimiters(l, "=") /\ \A y \in Delimiters(l, "=") : Len(k) + 1 <= y
    <2>1. Len(k) + 1 \in 1 .. Len(l) /\ Len(k) + 1 \in 0 .. Len(k) + 1 BY <1>2
    <2>2. Len(k) + 1 \in Delimiters(l, "=") BY <1>2, <1>7, <2>1 DEF Delimiters
    <2>3. ASSUME NEW y \in Delimiters(l, "=") PROVE Len(k) + 1 <= y
      <3>1. y \in 1 .. Len(l) /\ l[y] = "=" BY DEF Delimiters
      <3>2. ~(y \in 1 .. Len(k))
        <4>1. y \in 1 .. Len(k) => l[y] \in KeyBytes BY <1>2
        <4>2. QED BY <3>1, <4>1 DEF KeyBytes, Digits
      <3>3. Len(k) \in Nat /\ y \in Nat /\ y >= 1 BY <1>2, <3>1
      <3>4. QED BY <3>2, <3>3
    <2>4. QED BY <2>2, <2>3
  <1>12. Delimiters(l, "=") \in SUBSET Int
    BY <1>2 DEF Delimiters
  <1>13. KeyEnd(l) = Len(k) + 1
    BY <1>11, <1>12, MinIs DEF KeyEnd
  <1>14. QED BY <1>9, <1>10, <1>11, <1>13 DEF l, k

(* From the beginning of a line on, the text is what the rest would be.     *)
Rest(list, i) ==
    LET d == Writing(list)
        o == Len(d[1]) - Len(d[i])
    IN  /\ Len(d[i]) <= Len(d[1])
        /\ \A j \in 1 .. Len(d[i]) : d[1][o + j] = d[i][j]
        /\ \A j \in 0 .. Len(d[i]) : Quoting(d[1])[o + j] = Quoting(d[i])[j]

LEMMA EndedCloses ==
    ASSUME NEW list \in PairLists, NEW i \in 1 .. Len(list)
    PROVE  LET l == Line(list[i])
               a == Ended(list[i])
               d == Writing(list)
           IN  /\ \A j \in 1 .. Len(l) : d[i][j] = "newline" => Quoting(d[i])[j] = 1
               /\ d[i][Len(l) + 1] = "newline" /\ Quoting(d[i])[Len(l) + 1] = 0
               /\ \A j \in 0 .. Len(d[i + 1]) : Quoting(d[i])[Len(a) + j] = Quoting(d[i + 1])[j]
  <1> DEFINE l == Line(list[i])
             a == Ended(list[i])
             d == Writing(list)
             nl == <<"newline">>
             r == d[i + 1]
             t == d[i]
  <1>1. /\ l \in Seq(Bytes) /\ Len(l) \in Nat /\ a \in Seq(Bytes) /\ Len(a) = Len(l) + 1
        /\ a = l \o nl /\ a[Len(l) + 1] = "newline"
        /\ \A j \in 1 .. Len(l) : a[j] = l[j]
    BY EndedIs
  <1>2. /\ t \in Seq(Bytes) /\ r \in Seq(Bytes) /\ t = a \o r
        /\ Len(r) \in Nat /\ \A j \in 1 .. Len(a) : t[j] = a[j]
    BY RestIs
  <1>3. Closed(l) /\ Hides(l)
    BY LineHides
  <1>4. nl \in Seq(Bytes) /\ Len(nl) = 1 /\ nl[1] # "quote"
    <2>1. "newline" \in Bytes BY DEF Bytes
    <2>2. nl[1] # "quote" OBVIOUS
    <2>3. QED BY <2>1, <2>2, Single
  <1> HIDE DEF l, a, d, nl, r, t
  <1>5. /\ \A j \in 0 .. Len(l) : Quoting(a)[j] = Quoting(l)[j]
        /\ Quoting(a)[Len(l) + 1] = 0
    <2>1. l \in Seq(Bytes) /\ nl \in Seq(Bytes) BY <1>1, <1>4
    <2>2. /\ \A j \in 0 .. Len(l) : Quoting(a)[j] = Quoting(l)[j]
          /\ \A j \in 0 .. Len(nl) : Quoting(a)[Len(l) + j] =
                IF Quoting(l)[Len(l)] = 0 THEN Quoting(nl)[j] ELSE 1 - Quoting(nl)[j]
      BY <1>1, <2>1, QuotingJoin
    <2>3. Quoting(nl)[1] = 0
      <3>1. 1 \in 0 .. Len(nl) /\ \A j \in 1 .. 1 : nl[j] # "quote" BY <1>4
      <3>2. QED BY <2>1, <3>1, QuotingNone
    <2>4. 1 \in 0 .. Len(nl) BY <1>4
    <2>5. QED BY <1>3, <2>2, <2>3, <2>4 DEF Closed
  <1>6. /\ \A j \in 0 .. Len(a) : Quoting(t)[j] = Quoting(a)[j]
        /\ \A j \in 0 .. Len(r) : Quoting(t)[Len(a) + j] = Quoting(r)[j]
    <2>1. a \in Seq(Bytes) /\ r \in Seq(Bytes) BY <1>1, <1>2
    <2>2. /\ \A j \in 0 .. Len(a) : Quoting(t)[j] = Quoting(a)[j]
          /\ \A j \in 0 .. Len(r) : Quoting(t)[Len(a) + j] =
                IF Quoting(a)[Len(a)] = 0 THEN Quoting(r)[j] ELSE 1 - Quoting(r)[j]
      BY <1>2, <2>1, QuotingJoin
    <2>3. Quoting(a)[Len(a)] = 0 BY <1>1, <1>5
    <2>4. QED BY <2>2, <2>3
  <1>7. ASSUME NEW j \in 1 .. Len(l), t[j] = "newline" PROVE Quoting(t)[j] = 1
    <2>1. j \in 0 .. Len(l) /\ j \in 0 .. Len(a) /\ j \in 1 .. Len(a) BY <1>1
    <2>2. l[j] = "newline" BY <1>1, <1>2, <1>7, <2>1
    <2>3. Quoting(l)[j] = 1 BY <1>3, <2>2 DEF Hides
    <2>4. QED BY <1>5, <1>6, <2>1, <2>3
  <1>8. t[Len(l) + 1] = "newline" /\ Quoting(t)[Len(l) + 1] = 0
    <2>1. Len(l) + 1 \in 1 .. Len(a) /\ Len(l) + 1 \in 0 .. Len(a) BY <1>1
    <2>2. QED BY <1>1, <1>2, <1>5, <1>6, <2>1
  <1>9. QED BY <1>6, <1>7, <1>8 DEF l, a, d, r, t

LEMMA RestAligned ==
    ASSUME NEW list \in PairLists
    PROVE  \A i \in 1 .. Len(list) + 1 : Rest(list, i)
  <1> DEFINE n == Len(list)
             d == Writing(list)
             w == d[1]
             T == {i \in 1 .. n + 1 : ~Rest(list, i)}
  <1>1. n \in Nat BY PairIs
  <1>2. \A i \in 1 .. n + 1 : d[i] \in Seq(Bytes) /\ Len(d[i]) \in Nat
    <2>1. \A i \in 1 .. n + 1 : d[i] \in Seq(Bytes) BY WritingIs
    <2>2. QED BY <2>1, LenProperties
  <1>3. Len(w) \in Nat
    <2>1. 1 \in 1 .. n + 1 BY <1>1
    <2>2. QED BY <1>2, <2>1
  <1>4. Rest(list, 1)
    <2>1. Len(w) <= Len(w) /\ \A j \in Int : Len(w) - Len(w) + j = j BY <1>3
    <2>2. \A j \in 1 .. Len(w) : w[Len(w) - Len(w) + j] = w[j] BY <1>3, <2>1
    <2>3. \A j \in 0 .. Len(w) : Quoting(w)[Len(w) - Len(w) + j] = Quoting(w)[j] BY <1>3, <2>1
    <2>4. QED BY <2>1, <2>2, <2>3 DEF Rest
  <1>5. ASSUME NEW i \in 1 .. n, Rest(list, i) PROVE Rest(list, i + 1)
    <2> DEFINE a == Len(Ended(list[i]))
               b == Len(d[i])
               c == Len(d[i + 1])
               L == Len(w)
               v == Quoting(w)
               x == Quoting(d[i])
               y == Quoting(d[i + 1])
    <2>1. a \in Nat
      <3>1. Ended(list[i]) \in Seq(Bytes) BY EndedIs
      <3>2. QED BY <3>1, LenProperties
    <2>2. b \in Nat /\ c \in Nat /\ b = a + c /\ \A j \in 1 .. c : d[i][a + j] = d[i + 1][j]
      BY RestIs
    <2>3. \A j \in 0 .. c : x[a + j] = y[j]
      BY EndedCloses
    <2>4. /\ b <= L /\ (\A j \in 1 .. b : w[L - b + j] = d[i][j])
          /\ \A j \in 0 .. b : v[L - b + j] = x[j]
      BY <1>5 DEF Rest
    <2>5. L \in Nat BY <1>3
    <2>6. Rest(list, i + 1) <=>
            /\ c <= L /\ (\A j \in 1 .. c : w[L - c + j] = d[i + 1][j])
            /\ \A j \in 0 .. c : v[L - c + j] = y[j]
      BY DEF Rest
    <2> HIDE DEF a, b, c, L, w, d, v, x, y
    <2>7. c <= L BY <2>1, <2>2, <2>4, <2>5
    <2>8. ASSUME NEW j \in 0 .. c
          PROVE  a + j \in 0 .. b /\ L - b + (a + j) = L - c + j /\ (j # 0 => a + j \in 1 .. b)
      BY <2>1, <2>2, <2>4, <2>5
    <2>9. ASSUME NEW j \in 1 .. c PROVE w[L - c + j] = d[i + 1][j]
      <3>1. j \in 0 .. c /\ j # 0 BY <2>2
      <3>2. a + j \in 1 .. b /\ L - b + (a + j) = L - c + j BY <2>8, <3>1
      <3>3. QED BY <2>2, <2>4, <3>2
    <2>10. ASSUME NEW j \in 0 .. c PROVE v[L - c + j] = y[j]
      <3>1. a + j \in 0 .. b /\ L - b + (a + j) = L - c + j BY <2>8
      <3>2. QED BY <2>3, <2>4, <3>1
    <2>11. QED BY <2>6, <2>7, <2>9, <2>10
  <1>6. T = {}
    <2> SUFFICES ASSUME T # {} PROVE FALSE
      OBVIOUS
    <2>1. PICK i \in T : \A y \in T : i <= y
      <3>1. T \in SUBSET Nat BY <1>1
      <3> HIDE DEF T
      <3>2. QED BY <3>1, Smallest
    <2>2. i \in 1 .. n + 1 /\ ~Rest(list, i) OBVIOUS
    <2>3. i # 1 BY <1>4, <2>2
    <2>4. i - 1 \in 1 .. n /\ i - 1 \in 1 .. n + 1 /\ ~(i <= i - 1) /\ (i - 1) + 1 = i
      <3> HIDE DEF T
      <3>1. QED BY <1>1, <2>2, <2>3
    <2>5. Rest(list, i - 1) BY <2>1, <2>4
    <2>6. Rest(list, (i - 1) + 1) BY <1>5, <2>4, <2>5
    <2>7. QED BY <2>2, <2>4, <2>6
  <1>7. QED BY <1>6

(* The splitting loop: a piece, and what follows the delimiter behind it.   *)
LEMMA ExplodingIs ==
    ASSUME NEW s \in Seq(Bytes), NEW b
    PROVE  LET e == Exploding(s, b)
           IN  /\ e[Len(s) + 2] = <<>>
               /\ \A i \in 1 .. Len(s) + 1 :
                     /\ PieceEnd(s, b, i) \in i .. Len(s) + 1
                     /\ e[i] = <<SubSeq(s, i, PieceEnd(s, b, i) - 1)>> \o e[PieceEnd(s, b, i) + 1]
  <1> DEFINE n == Len(s)
             N == n + 1
             E(i) == PieceEnd(s, b, i)
             P(i) == SubSeq(s, i, E(i) - 1)
             S == Seq(Bytes)
             a == [i \in 1 .. N |-> <<P(i)>>]
             nxt == [i \in 1 .. N |-> E(i) + 1]
             F(h) == [i \in 1 .. N + 1 |-> IF i > N THEN <<>> ELSE <<P(i)>> \o h[E(i) + 1]]
             d == Exploding(s, b)
  <1>1. n \in Nat /\ N \in Nat /\ N + 1 = n + 2
    BY LenProperties
  <1>2. d = CHOOSE h : h = F(h)
    <2> DEFINE G(h) == [i \in 1 .. n + 2 |-> IF i > n + 1 THEN <<>> ELSE <<P(i)>> \o h[E(i) + 1]]
    <2>1. d = CHOOSE h : h = G(h) BY DEF Exploding
    <2>2. 1 .. n + 2 = 1 .. N + 1 BY <1>1
    <2>3. QED BY <2>1, <2>2
  <1>3. ASSUME NEW i \in 1 .. N PROVE E(i) \in i .. N
    <2> DEFINE D == {j \in Delimiters(s, b) : j >= i} \cup {n + 1}
    <2>1. D \in SUBSET Nat /\ n + 1 \in D /\ \A y \in D : y \in i .. N
      <3>1. \A y \in Delimiters(s, b) : y \in 1 .. n BY DEF Delimiters
      <3>2. \A y \in D : y \in i .. N
        <4> HIDE DEF n
        <4>1. QED BY <1>1, <3>1
      <3>3. i .. N \in SUBSET Nat BY <1>1
      <3>4. QED BY <3>2, <3>3
    <2>2. E(i) = Min(D) BY DEF PieceEnd
    <2> HIDE DEF D
    <2>3. D # {} BY <2>1
    <2>4. Min(D) \in D BY <2>1, <2>3, MinOf
    <2>5. QED BY <2>1, <2>2, <2>4
  <1>4. ASSUME NEW i \in 1 .. N PROVE <<P(i)>> \in Seq(S)
    <2>1. PICK e \in i .. N : e = E(i) BY <1>3
    <2>2. i \in 1 .. Len(s) + 1 /\ e - 1 \in i - 1 .. Len(s) BY <1>1, <2>1
    <2>3. SubSeq(s, i, e - 1) \in S BY <2>2, Part
    <2>4. P(i) \in S BY <2>1, <2>3
    <2> HIDE DEF P, S
    <2>5. QED BY <2>4
  <1> HIDE DEF E, P, S, d
  <1>5. a \in [1 .. N -> Seq(S)] BY <1>4
  <1>6. nxt \in [1 .. N -> Nat] /\ \A i \in 1 .. N : nxt[i] \in i + 1 .. N + 1
    <2>1. ASSUME NEW i \in 1 .. N PROVE E(i) + 1 \in i + 1 .. N + 1 /\ E(i) + 1 \in Nat
      <3>1. PICK e \in i .. N : e = E(i) BY <1>3
      <3>2. e + 1 \in i + 1 .. N + 1 /\ e + 1 \in Nat BY <1>1
      <3>3. QED BY <3>1, <3>2
    <2>2. QED BY <2>1
  <1>7. \A i \in 1 .. N : a[i] = <<P(i)>> /\ nxt[i] = E(i) + 1
    OBVIOUS
  <1>8. \A i \in 1 .. N + 1 : ~(i > N) => i \in 1 .. N
    BY <1>1
  <1> HIDE DEF N, a, nxt
  <1>9. PICK g \in [1 .. N + 1 -> Seq(S)] :
           \A i \in 1 .. N + 1 : g[i] = IF i > N THEN <<>> ELSE a[i] \o g[nxt[i]]
    <2>1. Chain(S, N, a, nxt) BY <1>1, <1>5, <1>6 DEF Chain
    <2>2. QED BY <2>1, ChainExists DEF Chained
  <1>10. \A i \in 1 .. N + 1 : g[i] = IF i > N THEN <<>> ELSE <<P(i)>> \o g[E(i) + 1]
    BY <1>7, <1>8, <1>9
  <1>11. g = F(g)
    BY <1>10
  <1>12. d = F(d)
    BY <1>2, <1>11
  <1>13. \A i \in 1 .. N + 1 : d[i] = IF i > N THEN <<>> ELSE <<P(i)>> \o d[E(i) + 1]
    BY <1>12
  <1>14. d[N + 1] = <<>>
    <2>1. N + 1 \in 1 .. N + 1 /\ N + 1 > N BY <1>1
    <2>2. QED BY <1>13, <2>1
  <1>15. \A i \in 1 .. N : d[i] = <<P(i)>> \o d[E(i) + 1]
    <2> SUFFICES ASSUME NEW i \in 1 .. N PROVE d[i] = <<P(i)>> \o d[E(i) + 1] OBVIOUS
    <2>1. i \in 1 .. N + 1 /\ ~(i > N) BY <1>1
    <2>2. QED BY <1>13, <2>1
  <1>16. d[n + 2] = <<>> BY <1>1, <1>14
  <1>17. QED BY <1>3, <1>15, <1>16 DEF N, E, P, d

(* The lines of the text, and a blank one behind the last newline.          *)
LinesOf(list) ==
    [i \in 1 .. Len(list) + 1 |-> IF i <= Len(list) THEN Line(list[i]) ELSE <<>>]

(* Where line i begins.                                                     *)
Begin(list, i) == Len(Writing(list)[1]) - Len(Writing(list)[i]) + 1

(* Splitting at the beginning of a line yields the line.                    *)
LEMMA PieceIs ==
    ASSUME NEW list \in PairLists, NEW i \in 1 .. Len(list)
    PROVE  LET w == Writing(list)[1]
               p == Begin(list, i)
               e == PieceEnd(w, "newline", p)
           IN  /\ p \in 1 .. Len(w) + 1 /\ e + 1 = Begin(list, i + 1)
               /\ SubSeq(w, p, e - 1) = Line(list[i])
  <1> DEFINE d == Writing(list)
             w == d[1]
             t == d[i]
             l == Line(list[i])
             a == Ended(list[i])
             r == d[i + 1]
             o == Len(w) - Len(t)
             p == Begin(list, i)
             m == p + Len(l)
             D == {j \in Delimiters(w, "newline") : j >= p} \cup {Len(w) + 1}
  <1>1. w \in Seq(Bytes) /\ Len(w) \in Nat
    <2>1. Len(list) \in Nat BY PairIs
    <2>2. 1 \in 1 .. Len(list) + 1 BY <2>1
    <2>3. w \in Seq(Bytes) BY <2>2, WritingIs
    <2>4. QED BY <2>3, LenProperties
  <1>2. Len(list) \in Nat /\ i \in 1 .. Len(list) + 1
    <2>1. Len(list) \in Nat BY PairIs
    <2>2. QED BY <2>1
  <1>3. /\ Len(t) <= Len(w)
        /\ (\A j \in 1 .. Len(t) : w[o + j] = t[j])
        /\ \A j \in 0 .. Len(t) : Quoting(w)[o + j] = Quoting(t)[j]
    <2>1. Rest(list, i) BY <1>2, RestAligned
    <2>2. QED BY <2>1 DEF Rest
  <1>4. /\ Len(t) \in Nat /\ Len(r) \in Nat /\ Len(t) = Len(a) + Len(r)
        /\ \A j \in 1 .. Len(a) : t[j] = a[j]
    BY RestIs
  <1>5. /\ l \in Seq(Bytes) /\ Len(l) \in Nat /\ Len(a) = Len(l) + 1
        /\ \A j \in 1 .. Len(l) : a[j] = l[j]
    BY EndedIs
  <1>6. /\ \A j \in 1 .. Len(l) : t[j] = "newline" => Quoting(t)[j] = 1
        /\ t[Len(l) + 1] = "newline" /\ Quoting(t)[Len(l) + 1] = 0
    BY EndedCloses
  <1>7. p = o + 1 /\ Begin(list, i + 1) = Len(w) - Len(r) + 1
    BY DEF Begin
  <1>8. PieceEnd(w, "newline", p) = Min(D)
    BY DEF PieceEnd
  <1> HIDE DEF d, w, t, l, a, r, p
  <1>9. /\ o \in Nat /\ p \in Nat /\ p \in 1 .. Len(w) /\ m \in 1 .. Len(w) /\ m >= p
        /\ m = o + (Len(l) + 1) /\ m + 1 = Begin(list, i + 1)
        /\ Len(l) + 1 \in 1 .. Len(t) /\ Len(l) + 1 \in 0 .. Len(t)
    <2>1. Len(t) = Len(l) + 1 + Len(r) BY <1>4, <1>5
    <2>2. Len(t) \in Nat /\ Len(r) \in Nat /\ Len(l) \in Nat /\ Len(w) \in Nat /\ Len(t) <= Len(w)
      BY <1>1, <1>3, <1>4, <1>5
    <2>3. QED BY <1>7, <2>1, <2>2
  <1>10. m \in D
    <2>1. w[m] = "newline" /\ Quoting(w)[m] = 0 BY <1>3, <1>6, <1>9
    <2>2. m \in Delimiters(w, "newline") BY <1>9, <2>1 DEF Delimiters
    <2>3. QED BY <1>9, <2>2
  <1>11. ASSUME NEW y \in D PROVE m <= y /\ y \in Nat
    <2>1. CASE y = Len(w) + 1 BY <1>1, <1>9, <2>1
    <2>2. CASE y # Len(w) + 1
      <3>1. y \in 1 .. Len(w) /\ y >= p /\ w[y] = "newline" /\ Quoting(w)[y] = 0
        BY <2>2 DEF Delimiters
      <3>2. y \in Nat BY <1>1, <3>1
      <3>3. ~(y < m)
        <4> SUFFICES ASSUME y < m PROVE FALSE OBVIOUS
        <4>1. y - o \in 1 .. Len(l) /\ o + (y - o) = y
          <5>1. p = o + 1 /\ m = o + (Len(l) + 1) /\ o \in Nat /\ Len(l) \in Nat BY <1>5, <1>7, <1>9
          <5> HIDE DEF D, o, m
          <5>2. QED BY <3>1, <3>2, <5>1
        <4>2. PICK j \in 1 .. Len(l) : y = o + j BY <4>1
        <4>3. j \in 1 .. Len(t) /\ j \in 0 .. Len(t)
          <5>1. Len(t) \in Nat /\ Len(l) \in Nat /\ Len(l) + 1 \in 1 .. Len(t) BY <1>4, <1>5, <1>9
          <5> HIDE DEF D, o, m
          <5>2. QED BY <5>1
        <4>4. t[j] = "newline" /\ Quoting(t)[j] = 0 BY <1>3, <3>1, <4>2, <4>3
        <4>5. QED BY <1>6, <4>4
      <3>4. QED BY <1>9, <3>2, <3>3
    <2>3. QED BY <2>1, <2>2
  <1>12. Min(D) = m
    <2>1. D \in SUBSET Int /\ \A y \in D : m <= y BY <1>11
    <2> HIDE DEF D, m
    <2>2. QED BY <1>10, <2>1, MinIs
  <1>13. SubSeq(w, p, m - 1) = l
    <2> DEFINE z == SubSeq(w, p, m - 1)
    <2>1. p \in 1 .. Len(w) + 1 /\ m - 1 \in p - 1 .. Len(w) /\ (m - 1) - p + 1 = Len(l)
      BY <1>1, <1>5, <1>9
    <2>2. /\ z \in Seq(Bytes) /\ Len(z) = (m - 1) - p + 1
          /\ \A j \in 1 .. (m - 1) - p + 1 : z[j] = w[p + j - 1]
      <3>1. w \in Seq(Bytes) /\ p \in 1 .. Len(w) + 1 /\ m - 1 \in p - 1 .. Len(w) BY <1>1, <2>1
      <3> HIDE DEF m
      <3>2. QED BY <3>1, Part
    <2> HIDE DEF z
    <2>3. Len(z) = Len(l) BY <2>1, <2>2
    <2>4. ASSUME NEW j \in 1 .. Len(z) PROVE z[j] = l[j]
      <3>1. j \in 1 .. Len(l) BY <2>3
      <3>2. p + j - 1 = o + j /\ j \in 1 .. Len(a) /\ j \in 1 .. Len(t)
        <4>1. Len(l) \in Nat /\ Len(a) = Len(l) + 1 /\ Len(t) \in Nat /\ o \in Nat /\ p = o + 1
              /\ Len(l) + 1 \in 1 .. Len(t)
          BY <1>4, <1>5, <1>7, <1>9
        <4> HIDE DEF o, m
        <4>2. QED BY <3>1, <4>1
      <3>3. z[j] = w[o + j] BY <2>1, <2>2, <3>1, <3>2
      <3>4. w[o + j] = t[j] BY <1>3, <3>2
      <3>5. t[j] = l[j] BY <1>4, <1>5, <3>1, <3>2
      <3>6. QED BY <3>3, <3>4, <3>5
    <2>5. z = l BY <1>5, <2>2, <2>3, <2>4, SeqEqual
    <2>6. QED BY <2>5 DEF z
  <1>14. p \in 1 .. Len(w) + 1 BY <1>1, <1>9
  <1>15. QED BY <1>8, <1>9, <1>12, <1>13, <1>14 DEF w, d, p, l

LEMMA LinesAre ==
    ASSUME NEW list \in PairLists
    PROVE  /\ LinesOf(list) \in Seq(Seq(Bytes)) /\ Len(LinesOf(list)) = Len(list) + 1
           /\ Lines(Writing(list)[1]) = LinesOf(list)
  <1> DEFINE n == Len(list)
             w == Writing(list)[1]
             e == Exploding(w, "newline")
             t == LinesOf(list)
             B(i) == Begin(list, i)
             T == {m \in 0 .. n : e[B(n + 1 - m)] # SubSeq(t, n + 1 - m, n + 1)}
  <1>1. n \in Nat BY PairIs
  <1>2. w \in Seq(Bytes) /\ Len(w) \in Nat
    <2>1. 1 \in 1 .. n + 1 BY <1>1
    <2>2. w \in Seq(Bytes) BY <2>1, WritingIs
    <2>3. QED BY <2>2, LenProperties
  <1>3. t \in Seq(Seq(Bytes)) /\ Len(t) = n + 1 /\ t[n + 1] = <<>> /\ \A i \in 1 .. n : t[i] = Line(list[i])
    <2> DEFINE X(i) == IF i <= n THEN Line(list[i]) ELSE <<>>
    <2>1. \A i \in 1 .. n + 1 : X(i) \in Seq(Bytes)
      <3> SUFFICES ASSUME NEW i \in 1 .. n + 1 PROVE X(i) \in Seq(Bytes) OBVIOUS
      <3>1. CASE i <= n
        <4>1. i \in 1 .. n BY <1>1, <3>1
        <4>2. QED BY <3>1, <4>1, LineIs
      <3>2. CASE ~(i <= n) BY <3>2, EmptySeq
      <3>3. QED BY <3>1, <3>2
    <2>2. t = [i \in 1 .. n + 1 |-> X(i)] BY DEF LinesOf
    <2>3. X(n + 1) = <<>> /\ n + 1 \in 1 .. n + 1 BY <1>1
    <2>4. \A i \in 1 .. n : X(i) = Line(list[i]) /\ i \in 1 .. n + 1 BY <1>1
    <2> HIDE DEF X, t, n
    <2>5. t \in Seq(Seq(Bytes)) /\ Len(t) = n + 1 BY <1>1, <2>1, <2>2
    <2>6. QED BY <2>2, <2>3, <2>4, <2>5
  <1>4. /\ e[Len(w) + 2] = <<>>
        /\ \A i \in 1 .. Len(w) + 1 :
              /\ PieceEnd(w, "newline", i) \in i .. Len(w) + 1
              /\ e[i] = <<SubSeq(w, i, PieceEnd(w, "newline", i) - 1)>> \o e[PieceEnd(w, "newline", i) + 1]
    BY <1>2, ExplodingIs
  <1>5. \A i \in 1 .. n : e[B(i)] = <<t[i]>> \o e[B(i + 1)]
    <2> SUFFICES ASSUME NEW i \in 1 .. n PROVE e[B(i)] = <<t[i]>> \o e[B(i + 1)]
      OBVIOUS
    <2> DEFINE p == B(i)
               q == PieceEnd(w, "newline", p)
    <2>1. p \in 1 .. Len(w) + 1 /\ q + 1 = B(i + 1) /\ SubSeq(w, p, q - 1) = Line(list[i])
      BY PieceIs
    <2>2. e[p] = <<SubSeq(w, p, q - 1)>> \o e[q + 1] BY <1>4, <2>1
    <2>3. QED BY <1>3, <2>1, <2>2
  <1>6. e[B(n + 1)] = <<t[n + 1]>>
    <2>1. Writing(list)[n + 1] = <<>> BY WritingIs
    <2>2. B(n + 1) = Len(w) - Len(<<>>) + 1 BY <2>1 DEF Begin
    <2>3. Len(<<>>) = 0 BY EmptySeq
    <2> HIDE DEF e, w
    <2>4. B(n + 1) = Len(w) + 1
      <3>1. Len(w) - 0 + 1 = Len(w) + 1 BY <1>2
      <3>2. QED BY <2>2, <2>3, <3>1
    <2>5. Len(w) + 1 \in 1 .. Len(w) + 1 BY <1>2
    <2>6. PieceEnd(w, "newline", Len(w) + 1) = Len(w) + 1
      <3>1. PieceEnd(w, "newline", Len(w) + 1) \in Len(w) + 1 .. Len(w) + 1 BY <1>4, <2>5
      <3>2. QED BY <1>2, <3>1
    <2>7. e[Len(w) + 1] = <<SubSeq(w, Len(w) + 1, Len(w))>> \o <<>>
      <3>1. Len(w) + 1 - 1 = Len(w) /\ Len(w) + 1 + 1 = Len(w) + 2 BY <1>2
      <3>2. e[Len(w) + 1] = <<SubSeq(w, Len(w) + 1, Len(w) + 1 - 1)>> \o e[Len(w) + 1 + 1]
        <4>1. PICK k \in 1 .. Len(w) + 1 : k = Len(w) + 1 BY <2>5
        <4>2. PICK z : z = PieceEnd(w, "newline", k) OBVIOUS
        <4>3. e[k] = <<SubSeq(w, k, z - 1)>> \o e[z + 1] BY <1>4, <4>2
        <4>4. z = k BY <2>6, <4>1, <4>2
        <4>5. QED BY <4>1, <4>3, <4>4
      <3>3. QED BY <1>4, <3>1, <3>2
    <2>8. SubSeq(w, Len(w) + 1, Len(w)) = <<>> BY <1>2, SubSeqEmpty
    <2>9. <<t[n + 1]>> \o <<>> = <<t[n + 1]>>
      <3>1. <<t[n + 1]>> \in Seq(Seq(Bytes)) BY <1>3, EmptySeq
      <3>2. QED BY <3>1, ConcatEmptySeq
    <2>10. QED BY <1>3, <2>4, <2>7, <2>8, <2>9
  <1> HIDE DEF e, t, B, w, n
  <1>7. T = {}
    <2> SUFFICES ASSUME T # {} PROVE FALSE
      OBVIOUS
    <2>1. PICK m \in T : \A y \in T : m <= y
      <3>1. T \in SUBSET Nat BY <1>1
      <3> HIDE DEF T
      <3>2. QED BY <3>1, Smallest
    <2>2. PICK i \in Int : i = n + 1 - m
      <3>1. m \in Int BY <1>1
      <3>2. n + 1 - m \in Int BY <1>1, <3>1
      <3>3. QED BY <3>2
    <2>3. m \in 0 .. n /\ e[B(i)] # SubSeq(t, i, n + 1) BY <2>2
    <2>4. i \in 1 .. n + 1
      <3> HIDE DEF T
      <3>1. QED BY <1>1, <2>2, <2>3
    <2>5. CASE i = n + 1
      <3>1. n + 1 \in 1 .. Len(t) /\ n + 1 \in n + 1 .. Len(t) BY <1>1, <1>3
      <3>2. SubSeq(t, n + 1, n + 1) = <<t[n + 1]>> \o SubSeq(t, (n + 1) + 1, n + 1)
        BY <1>3, <3>1, SubSeqRecursiveFirst
      <3>3. SubSeq(t, (n + 1) + 1, n + 1) = <<>>
        <4>1. (n + 1) + 1 > n + 1 /\ n + 1 \in Int /\ (n + 1) + 1 \in Int BY <1>1
        <4>2. QED BY <4>1, SubSeqEmpty
      <3>4. <<t[n + 1]>> \o <<>> = <<t[n + 1]>>
        <4>1. <<t[n + 1]>> \in Seq(Seq(Bytes)) BY <1>3, EmptySeq
        <4>2. QED BY <4>1, ConcatEmptySeq
      <3>5. QED BY <1>6, <2>3, <2>5, <3>2, <3>3, <3>4
    <2>6. CASE i # n + 1
      <3>1. i \in 1 .. n /\ m - 1 \in 0 .. n /\ ~(m <= m - 1) /\ n + 1 - (m - 1) = i + 1
        <4> HIDE DEF T
        <4>1. QED BY <1>1, <2>2, <2>3, <2>4, <2>6
      <3>2. e[B(i + 1)] = SubSeq(t, i + 1, n + 1) BY <2>1, <3>1
      <3>3. i \in 1 .. Len(t) /\ n + 1 \in i .. Len(t) BY <1>1, <1>3, <3>1
      <3>4. SubSeq(t, i, n + 1) = <<t[i]>> \o SubSeq(t, i + 1, n + 1)
        BY <1>3, <3>3, SubSeqRecursiveFirst
      <3>5. e[B(i)] = <<t[i]>> \o e[B(i + 1)] BY <1>5, <3>1
      <3>6. QED BY <2>3, <3>2, <3>4, <3>5
    <2>7. QED BY <2>5, <2>6
  <1>8. e[B(1)] = SubSeq(t, 1, n + 1)
    <2>1. n \in 0 .. n /\ n + 1 - n = 1 BY <1>1
    <2>2. n \notin T BY <1>7
    <2>3. QED BY <2>1, <2>2
  <1>9. SubSeq(t, 1, n + 1) = t
    BY <1>3, SubSeqFull
  <1>10. B(1) = 1
    <2>1. B(1) = Len(w) - Len(w) + 1 BY DEF B, Begin, w
    <2>2. QED BY <1>2, <2>1
  <1>11. Lines(w) = t BY <1>8, <1>9, <1>10 DEF Lines, e
  <1>12. QED BY <1>3, <1>11 DEF w, t, n

(* Inserting those lines one after the other makes that dictionary.         *)
LEMMA InsertingIs ==
    ASSUME NEW list, NEW lines, Len(list) \in Nat, Len(lines) = Len(list) + 1,
           lines[Len(list) + 1] = <<>>,
           \A i \in 1 .. Len(list) :
              /\ lines[i] # <<>>
              /\ SubSeq(lines[i], 1, KeyEnd(lines[i]) - 1) = list[i].key
              /\ Unquote(SubSeq(lines[i], KeyEnd(lines[i]) + 1, Len(lines[i]))) = ValueOf(list[i].value)
    PROVE  Inserting(lines)[Len(lines)] = Latest(list, Len(list))
  <1> DEFINE n == Len(list)
             N == Len(lines)
             D == 0 .. N
             Key(i) == SubSeq(lines[i], 1, KeyEnd(lines[i]) - 1)
             Val(i) == Unquote(SubSeq(lines[i], KeyEnd(lines[i]) + 1, Len(lines[i])))
             Add(h, i) == IF lines[i] = <<>> THEN h ELSE Insert(h, Key(i), Val(i))
             F(h) == [i \in D |-> IF i = 0 THEN <<>> ELSE Add(h[i - 1], i)]
             G(i) == IF i <= n THEN Latest(list, i) ELSE Latest(list, n)
             g == [i \in D |-> G(i)]
             f == Inserting(lines)
  <1>1. f = CHOOSE h : h = F(h)
    BY DEF Inserting
  <1>2. \A i \in 1 .. n : lines[i] # <<>> /\ Key(i) = list[i].key /\ Val(i) = ValueOf(list[i].value)
    OBVIOUS
  <1>3. n \in Nat /\ N = n + 1 /\ lines[n + 1] = <<>> OBVIOUS
  <1> HIDE DEF n, N, f, Key, Val
  <1>4. Latest(list, 0) = <<>>
    <2>1. {list[j].key : j \in 1 .. 0} = {} OBVIOUS
    <2>2. Latest(list, 0) = [k \in {} |-> ValueOf(list[Max({j \in 1 .. 0 : list[j].key = k})].value)]
      BY <2>1 DEF Latest
    <2>3. QED BY <2>2
  <1>5. G(0) = <<>>
    BY <1>3, <1>4
  <1>6. \A i \in D : i # 0 => i - 1 \in D /\ G(i) = Add(G(i - 1), i)
    <2> SUFFICES ASSUME NEW i \in D, i # 0 PROVE i - 1 \in D /\ G(i) = Add(G(i - 1), i)
      OBVIOUS
    <2>1. i - 1 \in D /\ (i \in 1 .. n \/ i = n + 1) BY <1>3
    <2>2. CASE i \in 1 .. n
      <3>1. i <= n /\ i - 1 <= n /\ i \in Nat \ {0} BY <1>3, <2>2
      <3>2. Latest(list, i) = Insert(Latest(list, i - 1), list[i].key, ValueOf(list[i].value))
        BY <3>1, LatestStep
      <3>3. G(i) = Latest(list, i) /\ G(i - 1) = Latest(list, i - 1) BY <3>1
      <3>4. Add(G(i - 1), i) = Insert(G(i - 1), list[i].key, ValueOf(list[i].value))
        <4>1. lines[i] # <<>> /\ Key(i) = list[i].key /\ Val(i) = ValueOf(list[i].value) BY <1>2, <2>2
        <4> HIDE DEF G
        <4>2. QED BY <4>1
      <3> HIDE DEF G, Add
      <3>5. QED BY <2>1, <3>2, <3>3, <3>4
    <2>3. CASE i = n + 1
      <3>1. ~(i <= n) /\ i - 1 <= n /\ i - 1 = n BY <1>3, <2>3
      <3>2. G(i) = Latest(list, n) /\ G(i - 1) = Latest(list, n) BY <3>1
      <3> HIDE DEF G
      <3>3. lines[i] = <<>> BY <1>3, <2>3
      <3>4. Add(G(i - 1), i) = G(i - 1) BY <3>3
      <3>5. QED BY <2>1, <3>2, <3>4
    <2>4. QED BY <2>1, <2>2, <2>3
  <1> HIDE DEF G, Add
  <1>7. g = F(g)
    <2>1. ASSUME NEW i \in D PROVE g[i] = IF i = 0 THEN <<>> ELSE Add(g[i - 1], i)
      <3>1. g[i] = G(i) /\ (i # 0 => g[i - 1] = G(i - 1)) BY <1>6
      <3>2. QED BY <1>5, <1>6, <3>1
    <2>2. QED BY <2>1
  <1>8. f = F(f)
    BY <1>1, <1>7 DEF Add
  <1>9. \A i \in D : f[i] = IF i = 0 THEN <<>> ELSE Add(f[i - 1], i)
    BY <1>8
  <1> DEFINE T == {i \in D : f[i] # G(i)}
  <1>10. T = {}
    <2> SUFFICES ASSUME T # {} PROVE FALSE
      OBVIOUS
    <2>1. PICK i \in T : \A y \in T : i <= y
      <3>1. T \in SUBSET Nat BY <1>3
      <3> HIDE DEF T
      <3>2. QED BY <3>1, Smallest
    <2>2. i \in D /\ f[i] # G(i) OBVIOUS
    <2>3. i # 0 BY <1>5, <1>9, <2>2
    <2>4. i - 1 \in D /\ G(i) = Add(G(i - 1), i) BY <1>6, <2>2, <2>3
    <2>5. ~(i <= i - 1)
      <3> HIDE DEF T
      <3>1. QED BY <1>3, <2>2
    <2>6. f[i - 1] = G(i - 1) BY <2>1, <2>4, <2>5
    <2>7. f[i] = Add(f[i - 1], i) BY <1>9, <2>2, <2>3
    <2>8. QED BY <2>2, <2>4, <2>6, <2>7
  <1>11. N \in D /\ ~(N <= n) BY <1>3
  <1>12. f[N] = G(N) BY <1>10, <1>11
  <1>13. QED BY <1>11, <1>12 DEF f, n, N, G

(* What is put together from pairs, whatever the values hold, the reader    *)
(* takes apart into the same pairs (an empty value as NULL); of a repeated  *)
(* key the last value stays.                                                *)
THEOREM PairsRoundTrip ==
    \A list \in PairLists : Deserialize(Writing(list)[1]) = Holds(Latest(list, Len(list)))
  <1> SUFFICES ASSUME NEW list \in PairLists
               PROVE  Deserialize(Writing(list)[1]) = Holds(Latest(list, Len(list)))
    OBVIOUS
  <1> DEFINE d == Writing(list)[1]
             lines == Lines(d)
             n == Len(list)
  <1>1. n \in Nat BY PairIs
  <1>2. lines = LinesOf(list) /\ lines \in Seq(Seq(Bytes)) /\ Len(lines) = n + 1
    BY LinesAre
  <1>3. DOMAIN lines = 1 .. n + 1 /\ lines[n + 1] = <<>> /\ \A i \in 1 .. n : lines[i] = Line(list[i])
    <2>1. ~(n + 1 <= n) /\ n + 1 \in 1 .. n + 1 BY <1>1
    <2>2. \A i \in 1 .. n : i <= n /\ i \in 1 .. n + 1 BY <1>1
    <2> HIDE DEF lines
    <2>3. QED BY <1>2, <2>1, <2>2 DEF LinesOf
  <1> HIDE DEF d, lines
  <1>4. \A i \in 1 .. n : /\ Delimiters(Line(list[i]), "=") # {}
                          /\ KeyEnd(Line(list[i])) = Len(list[i].key) + 1
    BY LineHides
  <1>5. ~HalfLine(lines)
    <2>1. \A i \in 1 .. n + 1 : i \in 1 .. n \/ i = n + 1 BY <1>1
    <2>2. QED BY <1>3, <1>4, <2>1 DEF HalfLine
  <1>6. ASSUME NEW i \in 1 .. n
         PROVE  /\ lines[i] # <<>>
                /\ SubSeq(lines[i], 1, KeyEnd(lines[i]) - 1) = list[i].key
                /\ Unquote(SubSeq(lines[i], KeyEnd(lines[i]) + 1, Len(lines[i]))) = ValueOf(list[i].value)
    <2> DEFINE l == Line(list[i])
               k == list[i].key
               q == Quote(list[i].value)
               x == SubSeq(l, 1, Len(k))
               y == SubSeq(l, Len(k) + 2, Len(l))
    <2>1. lines[i] = l /\ KeyEnd(l) = Len(k) + 1 BY <1>3, <1>4
    <2>2. /\ l \in Seq(Bytes) /\ Len(k) \in Nat \ {0} /\ Len(q) \in Nat /\ q \in Seq(Bytes)
          /\ Len(l) = Len(k) + 1 + Len(q)
          /\ \A j \in 1 .. Len(k) : l[j] = k[j]
          /\ \A j \in 1 .. Len(q) : l[Len(k) + 1 + j] = q[j]
      BY LineIs
    <2>3. k \in Seq(Bytes) /\ Unquote(q) = ValueOf(list[i].value)
      BY PairIs, QuotingRoundTrip
    <2> HIDE DEF l, k, q
    <2>4. x = k
      <3>1. 1 \in 1 .. Len(l) + 1 /\ Len(k) \in 1 - 1 .. Len(l) /\ Len(k) - 1 + 1 = Len(k)
        BY <2>2
      <3>2. /\ x \in Seq(Bytes) /\ Len(x) = Len(k) - 1 + 1
            /\ \A j \in 1 .. Len(k) - 1 + 1 : x[j] = l[1 + j - 1]
        <4>1. l \in Seq(Bytes) BY <2>2
        <4>2. 1 \in 1 .. Len(l) + 1 /\ Len(k) \in 1 - 1 .. Len(l) BY <3>1
        <4>3. QED BY <4>1, <4>2, Part
      <3> HIDE DEF x
      <3>3. Len(x) = Len(k) BY <3>1, <3>2
      <3>4. ASSUME NEW j \in 1 .. Len(x) PROVE x[j] = k[j]
        <4>1. j \in 1 .. Len(k) /\ 1 + j - 1 = j BY <2>2, <3>3
        <4>2. QED BY <2>2, <3>1, <3>2, <4>1
      <3>5. QED BY <2>3, <3>2, <3>3, <3>4, SeqEqual
    <2>5. y = q
      <3>1. /\ Len(k) + 2 \in 1 .. Len(l) + 1 /\ Len(l) \in (Len(k) + 2) - 1 .. Len(l)
            /\ Len(l) - (Len(k) + 2) + 1 = Len(q)
        BY <2>2
      <3>2. /\ y \in Seq(Bytes) /\ Len(y) = Len(l) - (Len(k) + 2) + 1
            /\ \A j \in 1 .. Len(l) - (Len(k) + 2) + 1 : y[j] = l[(Len(k) + 2) + j - 1]
        <4>1. l \in Seq(Bytes) BY <2>2
        <4>2. Len(k) + 2 \in 1 .. Len(l) + 1 /\ Len(l) \in (Len(k) + 2) - 1 .. Len(l) BY <3>1
        <4>3. QED BY <4>1, <4>2, Part
      <3> HIDE DEF y
      <3>3. Len(y) = Len(q) BY <3>1, <3>2
      <3>4. ASSUME NEW j \in 1 .. Len(y) PROVE y[j] = q[j]
        <4>1. j \in 1 .. Len(q) /\ (Len(k) + 2) + j - 1 = Len(k) + 1 + j BY <2>2, <3>3
        <4>2. y[j] = l[Len(k) + 1 + j] BY <3>1, <3>2, <4>1
        <4>3. QED BY <2>2, <4>1, <4>2
      <3>5. QED BY <2>2, <3>2, <3>3, <3>4, SeqEqual
    <2>6. KeyEnd(l) - 1 = Len(k) /\ KeyEnd(l) + 1 = Len(k) + 2 BY <2>1, <2>2
    <2>7. l # <<>>
      <3>1. Len(l) # 0 BY <2>2
      <3>2. QED BY <3>1, EmptySeq
    <2>8. QED BY <2>1, <2>3, <2>4, <2>5, <2>6, <2>7 DEF k
  <1>7. Inserting(lines)[Len(lines)] = Latest(list, n)
    BY <1>1, <1>2, <1>3, <1>6, InsertingIs
  <1>8. QED BY <1>5, <1>7 DEF Deserialize, lines, d

LEMMA PairsDecoded ==
    ASSUME NEW body \in Bodies, body.kind = "pairs"
    PROVE  Decoded(body)
  <1> DEFINE list == body.data
             d == Writing(list)[1]
             n == Len(list)
             short == Len(list[1].key) < ScanLimit
  <1>1. list \in PairLists
    BY BodyAssumption DEF PairLists
  <1>2. Serialize(body) = d
    BY DEF Serialize
  <1>3. Meaning(body) = IF short THEN KeyValue(Holds(Latest(list, n))) ELSE Raw("BULK", d)
    <2>1. DOMAIN list = 1 .. n BY <1>1, PairIs
    <2>2. body.kind # "badpairs" /\ body.kind # "data" OBVIOUS
    <2>3. QED BY <1>2, <2>1, <2>2 DEF Meaning, Latest
  <1>4. ResponseType(d) = IF short THEN "KV" ELSE "BULK"
    BY <1>1, PairsType
  <1>5. Deserialize(d) = Holds(Latest(list, n))
    BY <1>1, PairsRoundTrip
  <1> HIDE DEF list, d
  <1>6. ResponseTo(d) = Meaning(body)
    BY <1>3, <1>4, <1>5 DEF ResponseTo
  <1>7. QED BY <1>2, <1>6 DEF Decoded

(* A list that breaks off inside a line is refused as a whole.              *)
LEMMA BadPairsDecoded ==
    ASSUME NEW body \in Bodies, body.kind = "badpairs"
    PROVE  Decoded(body)
  <1> DEFINE d == body.data
  <1>1. Serialize(body) = d
    BY DEF Serialize
  <1>2. d \in Seq(Bytes \ {"ETX"}) /\ SaysBy(d, "=") /\ HalfLine(Lines(d))
    BY <1>1, BodyAssumption
  <1>3. d \in Seq(Bytes)
    BY <1>2, SeqMonotonic
  <1>4. body.kind # "pairs" OBVIOUS
  <1>5. Meaning(body) = KeyValue(NULL)
    BY <1>4 DEF Meaning
  <1>6. ResponseType(d) = "KV"
    BY <1>2, <1>3, TypeIs
  <1>7. Deserialize(d) = NULL
    BY <1>2 DEF Deserialize
  <1>8. QED BY <1>1, <1>5, <1>6, <1>7 DEF Decoded, ResponseTo

-----------------------------------------------------------------------------
(* What LM_trans_response_params, _raw and _csv give the application is     *)
(* what the server meant with its first answer to that transaction,         *)
(* whatever the segmentation and whatever answers surround it.              *)
THEOREM AnswersAreUnderstood == Spec => []AnswersUnderstood
  <1>1. \A body \in Bodies : Decoded(body)
    <2> SUFFICES ASSUME NEW body \in Bodies PROVE Decoded(body)
      OBVIOUS
    <2>1. body.kind \in {"pairs", "badpairs", "data"} BY BodyAssumption
    <2>2. CASE body.kind = "pairs" BY <2>2, PairsDecoded
    <2>3. CASE body.kind = "badpairs" BY <2>3, BadPairsDecoded
    <2>4. CASE body.kind = "data" BY <2>4, DataDecoded
    <2>5. QED BY <2>1, <2>2, <2>3, <2>4
  <1>2. ParseInv => AnswersUnderstood
    <2> SUFFICES ASSUME ParseInv, NEW id \in Ids
                 PROVE  IF tstatus[id] # "DONE" THEN response[id] = NoResponse
                        ELSE LET m == Meaning(answers[FirstAnswer(id)].body)
                             IN  response[id] \in {m, IF m.type = "CSV" THEN CsvTaken(m) ELSE m}
      BY DEF AnswersUnderstood
    <2>1. PICK n \in Nat : Parsed(n)
      BY DEF ParseInv
    <2>2. ReadFine(n, id) /\ n \in 0 .. Len(answers) /\ AnswersOK
      BY <2>1 DEF Parsed, ParseInv, ParseTypeOK
    <2>3. CASE tstatus[id] # "DONE"
      BY <2>2, <2>3 DEF ReadFine
    <2>4. CASE tstatus[id] = "DONE"
      <3>1. PICK k \in 1 .. n : First(k, id) /\ response[id] \in Taken(ResponseTo(Serialize(answers[k].body)))
        BY <2>2, <2>4 DEF ReadFine
      <3>2. Len(answers) \in Nat /\ DOMAIN answers = 1 .. Len(answers)
        BY <2>2, AnswerTypes
      <3>3. k \in 1 .. Len(answers)
        BY <2>2, <3>2
      <3>4. FirstAnswer(id) = k
        <4> DEFINE K == {i \in DOMAIN answers : answers[i].id = id}
        <4>1. K \in SUBSET Int /\ k \in K
          BY <3>1, <3>2, <3>3 DEF First
        <4>2. ASSUME NEW y \in K PROVE k <= y
          <5>1. y \in 1 .. Len(answers) /\ answers[y].id = id BY <3>2
          <5>2. ~(y \in 1 .. k - 1) BY <3>1, <5>1 DEF First
          <5>3. QED BY <3>2, <3>3, <5>1, <5>2
        <4> HIDE DEF K
        <4>3. Min(K) = k BY <4>1, <4>2, MinIs
        <4>4. QED BY <4>3 DEF FirstAnswer, K
      <3>5. answers[k].body \in Bodies
        BY <2>2, <3>3, AnswerTypes
      <3>6. ResponseTo(Serialize(answers[k].body)) = Meaning(answers[k].body)
        BY <1>1, <3>5 DEF Decoded
      <3>7. QED BY <2>4, <3>1, <3>4, <3>6 DEF Taken
    <2>5. QED BY <2>3, <2>4
  <1>3. QED BY <1>2, ParseInvariant, PTL

=============================================================================
