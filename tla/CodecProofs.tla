----------------------------- MODULE CodecProofs -----------------------------
(* What frames carry comes back, and what is not the same is told apart, for *)
(* every value: the facts about protocol.py the other modules rely on.       *)
EXTENDS Codec, WellFoundedInduction, TLAPS

Uint32 == {v \in Nat : v <= 4294967295}

LEMMA DivMod ==
    ASSUME NEW v \in Nat, NEW n \in Nat \ {0}
    PROVE  /\ v \div n \in Nat /\ v % n \in 0..(n - 1)
           /\ v = n * (v \div n) + (v % n)
  OBVIOUS

\* A number of 32 bits is four bytes and comes back from them.
THEOREM NumberRoundTrip ==
    ASSUME NEW v \in Uint32
    PROVE  PackUint(v) \in Word /\ UnpackUint(PackUint(v)) = v
  <1> DEFINE q1 == v \div 256
             q2 == v \div 65536
             q3 == v \div 16777216
  <1>1. v \in Nat /\ v <= 4294967295
    BY SMT DEF Uint32
  <1>2. q1 \in Nat /\ q2 \in Nat /\ q3 \in Nat
    BY SMT, <1>1
  <1>3. /\ v = 256 * q1 + (v % 256) /\ v % 256 \in Byte
        /\ q1 = 256 * q2 + (q1 % 256) /\ q1 % 256 \in Byte
        /\ q2 = 256 * q3 + (q2 % 256) /\ q2 % 256 \in Byte
    BY SMT, <1>1 DEF Byte
  <1>4. q3 \in Byte
    BY SMT, <1>1 DEF Byte
  <1>5. PackUint(v) \in Word
    BY SMT, <1>3, <1>4 DEF PackUint, Word
  <1>6. UnpackUint(PackUint(v)) = ((q3 * 256 + (q2 % 256)) * 256 + (q1 % 256)) * 256 + (v % 256)
    BY SMT DEF PackUint, UnpackUint
  <1>7. q3 * 256 + (q2 % 256) = q2 /\ q2 * 256 + (q1 % 256) = q1 /\ q1 * 256 + (v % 256) = v
    BY SMT, <1>1, <1>2, <1>3
  <1> HIDE DEF q1, q2, q3
  <1> QED BY SMT, <1>5, <1>6, <1>7

-----------------------------------------------------------------------------
(* Clock and offset *)

\* The bytes of a number made of three bytes.
LEMMA ThreeBytes ==
    ASSUME NEW x \in Byte, NEW y \in Byte, NEW z \in Byte
    PROVE  PackUint(x * 65536 + y * 256 + z) = <<0, x, y, z>>
  <1> DEFINE v == x * 65536 + y * 256 + z
  <1>1. /\ v \div 16777216 = 0
        /\ (v \div 65536) % 256 = x
        /\ (v \div 256) % 256 = y
        /\ v % 256 = z
    BY SMT DEF Byte
  <1> QED BY SMT, <1>1 DEF PackUint

\* The UTC offset reads back as it was set, for every offset the setter takes.
THEOREM TimezoneRoundTrip ==
    ASSUME NEW h, NEW m, OffsetInRange(h, m)
    PROVE  Timezone(h, m) \in Word /\ TimezoneOf(Timezone(h, m)) = <<h, m>>
  <1>1. h \in Byte /\ m \in Byte /\ 0 \in Byte
    BY DEF OffsetInRange, Byte
  <1>2. Timezone(h, m) = <<0, 0, h, m>>
    <2>1. PackUint(0 * 65536 + h * 256 + m) = <<0, 0, h, m>>
      BY SMT, <1>1, ThreeBytes
    <2>2. 0 * 65536 + h * 256 + m = h * 256 + m
      BY SMT, <1>1 DEF Byte
    <2> QED BY <2>1, <2>2 DEF Timezone
  <1>3. UnpackUint(<<0, 0, h, m>>) = h * 256 + m
    BY SMT, <1>1 DEF UnpackUint, Byte
  <1>4. ((h * 256 + m) \div 256) % 256 = h /\ (h * 256 + m) % 256 = m
    BY SMT, <1>1 DEF Byte
  <1>5. <<0, 0, h, m>> \in Word
    BY <1>1 DEF Word
  <1> QED BY <1>2, <1>3, <1>4, <1>5 DEF TimezoneOf

\* The charger's clock shows the time and date that were sent, at every edge of
\* their ranges; no part runs over into another byte.
THEOREM ClockRoundTrip ==
    ASSUME NEW h, NEW m, NEW s, TimeInRange(h, m, s),
           NEW y, NEW mo, NEW d, DateInRange(y, mo, d)
    PROVE  /\ ClockTime(h, m, s) \in Word /\ TimeOf(ClockTime(h, m, s)) = <<h, m, s>>
           /\ ClockDate(y, mo, d) \in Word /\ DateOf(ClockDate(y, mo, d)) = <<y, mo, d>>
  <1>1. h \in Byte /\ m \in Byte /\ s \in Byte
    BY DEF TimeInRange, Byte
  <1>2. y - 1900 \in Byte /\ mo - 1 \in Byte /\ d \in Byte /\ y \in Int /\ mo \in Int
    BY SMT DEF DateInRange, Byte
  <1>3. ClockTime(h, m, s) = <<0, s, m, h>>
    BY SMT, <1>1, ThreeBytes DEF ClockTime
  <1>4. ClockDate(y, mo, d) = <<0, d, mo - 1, y - 1900>>
    <2> DEFINE month == mo - 1
               year == y - 1900
    <2>1. month \in Byte /\ year \in Byte /\ d \in Byte
      BY <1>2
    <2> HIDE DEF month, year
    <2>2. PackUint(d * 65536 + month * 256 + year) = <<0, d, month, year>>
      BY SMT, <2>1, ThreeBytes
    <2> QED BY SMT, <2>2 DEF ClockDate, month, year
  <1>5. 1900 + (y - 1900) = y /\ (mo - 1) + 1 = mo
    BY SMT, <1>2
  <1>6. <<0, s, m, h>> \in Word /\ <<0, d, mo - 1, y - 1900>> \in Word
    BY SMT, <1>1, <1>2 DEF Word, Byte
  <1> QED BY <1>3, <1>4, <1>5, <1>6 DEF TimeOf, DateOf

-----------------------------------------------------------------------------
(* Payloads *)

\* What is a reply is no record, whatever text it carries and however long it
\* is; every frame is a reply.  So the order of the tests in _on_notify does
\* not matter, and no reply is lost among the records.
THEOREM ReplyIsNoRecord ==
    ASSUME NEW data \in Seq(Byte)
    PROVE  /\ ~(IsReply(data) /\ IsHistoryRecord(data))
           /\ IsFrame(data) => IsReply(data)
           /\ IsSession(data) => IsHistoryRecord(data)
  <1>1. Header[1] = 16
    BY DEF Header
  <1>2. IsReply(data) => data[1] = 16
    BY <1>1 DEF IsReply, StartsWithHeader
  <1>3. IsHistoryRecord(data) => data[1] = 124
    BY DEF IsHistoryRecord
  <1>4. IsFrame(data) => IsReply(data)
    BY SMT DEF IsFrame, IsReply
  <1>5. IsSession(data) => IsHistoryRecord(data)
    BY DEF IsSession, IsHistoryRecord
  <1> QED BY <1>2, <1>3, <1>4, <1>5

-----------------------------------------------------------------------------
(* Control commands *)

\* The words of two commands are the same only if the commands are, and the
\* charger's refusal is the word of none.
LEMMA CommandWord ==
    ASSUME NEW c \in DOMAIN Command, NEW p, PasswordFits(p)
    PROVE  /\ Command[c] * 16777216 + p \in Uint32
           /\ (Command[c] * 16777216 + p) \div 16777216 = Command[c]
  <1>1. Command[c] \in {1, 16}
    BY DEF Command
  <1>2. p \in Nat /\ p <= 16777215
    BY SMT DEF PasswordFits
  <1>3. CASE Command[c] = 1
    <2>1. 1 * 16777216 + p \in Uint32 /\ (1 * 16777216 + p) \div 16777216 = 1
      BY SMT, <1>2 DEF Uint32
    <2> QED BY SMT, <1>3, <2>1
  <1>4. CASE Command[c] = 16
    <2>1. 16 * 16777216 + p \in Uint32 /\ (16 * 16777216 + p) \div 16777216 = 16
      BY SMT, <1>2 DEF Uint32
    <2> QED BY SMT, <1>4, <2>1
  <1> QED BY SMT, <1>1, <1>3, <1>4

\* The value and register of a control command as they lie in its frame.
LEMMA CommandFrame ==
    ASSUME NEW c \in DOMAIN Command, NEW p, PasswordFits(p)
    PROVE  LET word == PackUint(Command[c] * 16777216 + p)
               sent == BuildControl(c, p)
           IN  /\ IsFrame(sent) /\ sent[3] = CONTROL
               /\ word \in Word /\ ValueOf(sent) = word
               /\ UnpackUint(word) = Command[c] * 16777216 + p
               /\ word[1] = Command[c]
  <1> DEFINE n == Command[c] * 16777216 + p
             word == PackUint(n)
             sent == BuildControl(c, p)
  <1>1. n \in Uint32 /\ n \div 16777216 = Command[c]
    BY SMT, CommandWord
  <1> HIDE DEF n
  <1>2. word \in Word /\ UnpackUint(word) = n
    BY <1>1, NumberRoundTrip
  <1>3. word[1] = Command[c]
    BY SMT, <1>1 DEF PackUint
  <1>5. sent = <<16, 172, 60, 1, word[1], word[2], word[3], word[4]>>
    <2>1. Header[1] = 16 /\ Header[2] = 172
      BY DEF Header
    <2> HIDE DEF word
    <2>2. sent = BuildFrame(CONTROL, WRITE, word)
      BY SMT DEF BuildControl, n, word
    <2> QED BY SMT, <2>1, <2>2 DEF BuildFrame, CONTROL, WRITE
  <1> HIDE DEF word, sent
  <1>6. Len(sent) = 8 /\ sent[1] = 16 /\ sent[2] = 172 /\ sent[3] = 60
    BY <1>5
  <1>7. ValueOf(sent) = word
    <2>1. /\ sent[5] = word[1] /\ sent[6] = word[2] /\ sent[7] = word[3] /\ sent[8] = word[4]
      BY <1>5
    <2>2. ASSUME NEW j \in 1..4 PROVE sent[4 + j] = word[j]
      BY <2>1, SMT
    <2> QED BY <1>2, <2>2 DEF ValueOf, Word
  <1> QED BY <1>2, <1>3, <1>6, <1>7 DEF IsFrame, StartsWithHeader, Header, CONTROL, word, sent, n

\* check_control_reply lets an echo through for the command that was sent with
\* the password it was sent with, and for no other; a refusal is the echo of no
\* command there is.
THEOREM EchoConfirmsItsCommand ==
    ASSUME NEW c \in DOMAIN Command, NEW p, PasswordFits(p),
           NEW d \in DOMAIN Command, NEW q, PasswordFits(q)
    PROVE  LET sent == BuildControl(c, p)
               reply == BuildControl(d, q)
           IN  /\ ControlReply(sent, reply) = IF c = d /\ p = q THEN "ok" ELSE "protocol"
               /\ ValueOf(sent) # CONTROL_REJECTED
  <1> DEFINE sent == BuildControl(c, p)
             reply == BuildControl(d, q)
             word == PackUint(Command[c] * 16777216 + p)
             echo == PackUint(Command[d] * 16777216 + q)
  <1>1. /\ IsFrame(reply) /\ reply[3] = CONTROL
        /\ ValueOf(sent) = word /\ ValueOf(reply) = echo
    BY CommandFrame
  <1>2. word # CONTROL_REJECTED /\ echo # CONTROL_REJECTED
    <2>1. word[1] \in {1, 16} /\ echo[1] \in {1, 16}
      BY CommandFrame DEF Command
    <2> QED BY <2>1 DEF CONTROL_REJECTED
  <1>3. word = echo => c = d /\ p = q
    <2> SUFFICES ASSUME word = echo PROVE c = d /\ p = q
      OBVIOUS
    <2>1. Command[c] = Command[d]
      BY CommandFrame
    <2>2. Command[c] * 16777216 + p = Command[d] * 16777216 + q
      BY SMT, CommandFrame
    <2>3. c = d
      BY <2>1 DEF Command
    <2>4. Command[c] \in Int /\ p \in Int /\ q \in Int
      BY DEF Command, PasswordFits
    <2> QED BY SMT, <2>2, <2>3, <2>4
  <1> QED BY <1>1, <1>2, <1>3 DEF ControlReply

-----------------------------------------------------------------------------
(* Alarms *)

\* The two words on one register are asked for with different flags, and a
\* read is a read: the answer to one is not taken for the other's.
LEMMA BanksToldApart ==
    ASSUME NEW b \in Bank, NEW other \in Bank, b # other
    PROVE  /\ AlarmFlag(b) # AlarmFlag(other)
           /\ AlarmFlag(b) # WRITE
  BY DEF Bank, AlarmFlag, READ, WRITE

\* The weights of the bits of a byte.
Weight == <<1, 2, 4, 8, 16, 32, 64, 128>>
Weights == {1, 2, 4, 8, 16, 32, 64, 128}

LEMMA Product ==
    ASSUME NEW n \in Nat, NEW t \in Nat
    PROVE  n * t \in Nat
  BY SMT

\* A quotient is what the division says it is.
LEMMA Quotient ==
    ASSUME NEW n \in Nat \ {0}, NEW x \in Nat, NEW r \in Nat, r < n, NEW u, u = n * x + r
    PROVE  u \div n = x
  <1> DEFINE p == u \div n
             s == u % n
  <1>1. u \in Nat
    BY SMT, Product
  <1>2. p \in Nat /\ s \in 0..(n - 1) /\ u = n * p + s
    BY <1>1, DivMod
  <1> HIDE DEF p, s
  <1>3. ASSUME NEW i \in Nat, NEW j \in Nat, i < j
        PROVE  n * i + n <= n * j
    <2> DEFINE t == j - i - 1
    <2>1. t \in Nat /\ j = i + 1 + t
      BY SMT, <1>3
    <2> HIDE DEF t
    <2>2. n * t \in Nat
      BY SMT, <2>1, Product
    <2>3. n * j = n * i + n + n * t
      BY SMT, <2>1
    <2>4. n * i \in Nat
      BY SMT, Product
    <2> DEFINE a == n * i
               b == n * t
    <2> HIDE DEF a, b
    <2>5. n * j = a + n + b /\ a \in Nat /\ b \in Nat
      BY <2>2, <2>3, <2>4 DEF a, b
    <2>6. a + n <= n * j
      BY SMT, <2>5
    <2> QED BY <2>6 DEF a
  <1>4. n * x \in Nat /\ n * p \in Nat
    BY SMT, <1>2, Product
  <1>5. /\ p < x => n * p + n <= n * x
        /\ x < p => n * x + n <= n * p
    BY <1>2, <1>3
  <1> DEFINE a == n * x
             b == n * p
  <1>6. /\ a \in Nat /\ b \in Nat /\ b + s = a + r
        /\ p < x => b + n <= a
        /\ x < p => a + n <= b
    BY <1>2, <1>4, <1>5
  <1> HIDE DEF a, b
  <1>7. p = x
    BY SMT, <1>2, <1>6
  <1> QED BY <1>7 DEF p

\* What lies below a unit does not count in units of it.
LEMMA Above ==
    ASSUME NEW v \in Nat, NEW m \in Nat \ {0}, NEW l \in Nat, l < m, NEW q \in Nat \ {0}
    PROVE  (v * m + l) \div (q * m) = v \div q
  <1> DEFINE x == v \div q
             y == v % q
  <1>1. x \in Nat /\ y \in 0..(q - 1) /\ v = q * x + y
    BY DivMod
  <1> HIDE DEF x, y
  <1>2. q * m \in Nat \ {0} /\ m * y \in Nat
    BY SMT, <1>1
  <1>3. m * y + l \in Nat /\ m * y + l < q * m
    <2> DEFINE t == q - 1 - y
    <2>1. t \in Nat /\ q = y + 1 + t
      BY SMT, <1>1
    <2> HIDE DEF t
    <2>2. m * t \in Nat /\ q * m = m * y + m + m * t
      BY SMT, <1>1, <2>1
    <2> DEFINE a == m * y
               b == m * t
               c == q * m
    <2>3. a \in Nat /\ b \in Nat /\ c = a + m + b
      BY <1>2, <2>2
    <2> HIDE DEF a, b, c
    <2>4. a + l \in Nat /\ a + l < c
      BY SMT, <2>3
    <2> QED BY <2>4 DEF a, c
  <1>4. v * m + l = (q * m) * x + (m * y + l)
    BY SMT, <1>1
  <1> DEFINE n == q * m
             r == m * y + l
             u == v * m + l
  <1>5. n \in Nat \ {0} /\ r \in Nat /\ r < n /\ u = n * x + r
    BY <1>2, <1>3, <1>4
  <1> HIDE DEF n, r, u
  <1>6. u \div n = x
    BY <1>1, <1>5, Quotient
  <1> QED BY <1>6 DEF u, n, x

\* Nor do the bytes above one count in its bits.
LEMMA InByte ==
    ASSUME NEW h \in Nat, NEW b \in Byte, NEW q \in Weights
    PROVE  ((256 * h + b) \div q) % 2 = (b \div q) % 2
  <1>1. b \in Nat
    BY SMT DEF Byte
  <1>3. CASE q = 1
    BY SMTT(40), <1>1, <1>3
  <1>4. CASE q = 2
    BY SMTT(40), <1>1, <1>4
  <1>5. CASE q = 4
    BY SMTT(40), <1>1, <1>5
  <1>6. CASE q = 8
    BY SMTT(40), <1>1, <1>6
  <1>7. CASE q = 16
    BY SMTT(40), <1>1, <1>7
  <1>8. CASE q = 32
    BY SMTT(40), <1>1, <1>8
  <1>9. CASE q = 64
    BY SMTT(40), <1>1, <1>9
  <1>10. CASE q = 128
    BY SMTT(40), <1>1, <1>10
  <1> QED BY <1>3, <1>4, <1>5, <1>6, <1>7, <1>8, <1>9, <1>10 DEF Weights

\* The next eight powers of two.
LEMMA Doubling ==
    ASSUME NEW pow, NEW n \in {0, 8, 16, 24}, NEW m \in Nat, pow[n] = m,
           \A k \in 0..30 : pow[k + 1] = 2 * pow[k]
    PROVE  /\ \A i \in 1..8 : pow[n + (i - 1)] = Weight[i] * m
           /\ n < 24 => pow[n + 8] = 256 * m
  <1>1. ASSUME NEW j \in 0..7, n + j <= 30, NEW c \in Nat, pow[n + j] = c * m
        PROVE  pow[n + j + 1] = (2 * c) * m
    <2>1. n + j \in 0..30
      BY SMT, <1>1
    <2>2. pow[n + j + 1] = 2 * (c * m)
      BY <1>1, <2>1
    <2> QED BY SMT, <2>2
  <1>2. pow[n] = 1 * m /\ n + 0 = n /\ n \in Nat
    BY SMT
  <1>3. pow[n + 1] = 2 * m
    BY SMT, <1>1, <1>2
  <1>4. pow[n + 2] = 4 * m
    BY SMT, <1>1, <1>2, <1>3
  <1>5. pow[n + 3] = 8 * m
    BY SMT, <1>1, <1>2, <1>4
  <1>6. pow[n + 4] = 16 * m
    BY SMT, <1>1, <1>2, <1>5
  <1>7. pow[n + 5] = 32 * m
    BY SMT, <1>1, <1>2, <1>6
  <1>8. pow[n + 6] = 64 * m
    BY SMT, <1>1, <1>2, <1>7
  <1>9. pow[n + 7] = 128 * m
    BY SMT, <1>1, <1>2, <1>8
  <1>10. n < 24 => pow[n + 8] = 256 * m
    BY SMT, <1>1, <1>2, <1>9
  <1>11. \A i \in 1..8 : pow[n + (i - 1)] = Weight[i] * m
    BY SMT, <1>2, <1>3, <1>4, <1>5, <1>6, <1>7, <1>8, <1>9 DEF Weight
  <1> QED BY <1>10, <1>11

\* An alarm is active exactly when its bit is set in the word taken as one
\* number, as decode_alarm_defs asks; the powers of two are any function that
\* doubles.
THEOREM AlarmByItsBit ==
    ASSUME NEW w \in Word, NEW bit \in 0..31,
           NEW pow, pow[0] = 1, \A k \in 0..30 : pow[k + 1] = 2 * pow[k]
    PROVE  BitSet(w, bit) <=> (UnpackUint(w) \div pow[bit]) % 2 = 1
  <1>1. w[1] \in Byte /\ w[2] \in Byte /\ w[3] \in Byte /\ w[4] \in Byte
    BY DEF Word
  <1>2. w[1] \in Nat /\ w[2] \in Nat /\ w[3] \in Nat /\ w[4] \in Nat
    BY SMT, <1>1 DEF Byte
  <1>a. w[2] <= 255 /\ w[3] <= 255 /\ w[4] <= 255
    BY SMT, <1>1 DEF Byte
  <1> DEFINE i == (bit % 8) + 1
             q == Weight[i]
             hi == w[1] * 256 + w[2]
             mid == hi * 256 + w[3]
  <1>3. i \in 1..8 /\ hi \in Nat /\ mid \in Nat
    BY SMT, <1>2
  <1>4. q \in Weights /\ q \in Nat \ {0}
    BY SMT, <1>3 DEF Weight, Weights
  <1>5. BitSet(w, bit) <=> (w[4 - bit \div 8] \div q) % 2 = 1
    BY DEF BitSet, Weight
  <1>6. ASSUME NEW x \in Byte, NEW h \in Nat, NEW m \in Nat \ {0}, NEW l \in Nat, l < m,
               UnpackUint(w) = (256 * h + x) * m + l, pow[bit] = q * m
        PROVE  (UnpackUint(w) \div pow[bit]) % 2 = (x \div q) % 2
    <2>1. 256 * h + x \in Nat
      BY SMT, <1>6 DEF Byte
    <2> DEFINE v == 256 * h + x
    <2> HIDE DEF q
    <2>2. (v \div q) % 2 = (x \div q) % 2
      BY <1>4, InByte
    <2>3. v \in Nat /\ UnpackUint(w) = v * m + l
      BY <1>6, <2>1
    <2> HIDE DEF v
    <2>4. (v * m + l) \div (q * m) = v \div q
      <3>1. v \in Nat /\ q \in Nat \ {0} /\ l < m
        BY <1>4, <1>6, <2>3
      <3> QED BY ONLY <3>1, l \in Nat, m \in Nat \ {0}, Above
    <2> QED BY <1>6, <2>2, <2>3, <2>4
  <1>7. /\ \A k \in 1..8 : pow[0 + (k - 1)] = Weight[k] * 1
        /\ pow[8] = 256
    BY SMT, Doubling
  <1>8. /\ \A k \in 1..8 : pow[8 + (k - 1)] = Weight[k] * 256
        /\ pow[16] = 65536
    BY SMT, <1>7, Doubling
  <1>9. /\ \A k \in 1..8 : pow[16 + (k - 1)] = Weight[k] * 65536
        /\ pow[24] = 16777216
    BY SMT, <1>8, Doubling
  <1>10. \A k \in 1..8 : pow[24 + (k - 1)] = Weight[k] * 16777216
    BY SMT, <1>9, Doubling
  <1>11. bit \div 8 \in 0..3 /\ bit = 8 * (bit \div 8) + (i - 1)
    BY SMT
  <1>12. UnpackUint(w) = ((w[1] * 256 + w[2]) * 256 + w[3]) * 256 + w[4]
    BY DEF UnpackUint
  <1> HIDE DEF q
  <1>13. CASE bit \div 8 = 0
    <2>1. pow[bit] = q * 1
      <3>1. bit = 0 + (i - 1)
        BY SMT, <1>3, <1>11, <1>13
      <3> QED BY <3>1, <1>3, <1>7 DEF q
    <2>2. UnpackUint(w) = (256 * mid + w[4]) * 1 + 0
      BY SMT, <1>2, <1>12
    <2>3. (UnpackUint(w) \div pow[bit]) % 2 = (w[4] \div q) % 2
      <3> HIDE DEF mid
      <3>1. 1 \in Nat \ {0} /\ 0 \in Nat /\ 0 < 1
        BY SMT
      <3> QED BY <3>1, <1>1, <1>3, <1>6, <2>1, <2>2
    <2>4. 4 - bit \div 8 = 4
      BY SMT, <1>13
    <2> QED BY <1>5, <2>3, <2>4
  <1>14. CASE bit \div 8 = 1
    <2>1. pow[bit] = q * 256
      <3>1. bit = 8 + (i - 1)
        BY SMT, <1>3, <1>11, <1>14
      <3> QED BY <3>1, <1>3, <1>8 DEF q
    <2>2. UnpackUint(w) = (256 * hi + w[3]) * 256 + w[4]
      BY SMT, <1>2, <1>12
    <2>3. (UnpackUint(w) \div pow[bit]) % 2 = (w[3] \div q) % 2
      <3>1. 256 \in Nat \ {0} /\ w[4] < 256
        BY SMT, <1>1 DEF Byte
      <3> HIDE DEF hi
      <3> QED BY <3>1, <1>1, <1>2, <1>3, <1>6, <2>1, <2>2
    <2>4. 4 - bit \div 8 = 3
      BY SMT, <1>14
    <2> QED BY <1>5, <2>3, <2>4
  <1>15. CASE bit \div 8 = 2
    <2>1. pow[bit] = q * 65536
      <3>1. bit = 16 + (i - 1)
        BY SMT, <1>3, <1>11, <1>15
      <3> QED BY <3>1, <1>3, <1>9 DEF q
    <2> DEFINE l == w[3] * 256 + w[4]
    <2>2. UnpackUint(w) = (256 * w[1] + w[2]) * 65536 + l
      BY SMT, <1>2, <1>12
    <2>3. (UnpackUint(w) \div pow[bit]) % 2 = (w[2] \div q) % 2
      <3>1. 65536 \in Nat \ {0} /\ l \in Nat /\ l < 65536
        BY SMT, <1>2, <1>a
      <3> HIDE DEF l
      <3> QED BY <3>1, <1>1, <1>2, <1>6, <2>1, <2>2
    <2>4. 4 - bit \div 8 = 2
      BY SMT, <1>15
    <2> QED BY <1>5, <2>3, <2>4
  <1>16. CASE bit \div 8 = 3
    <2>1. pow[bit] = q * 16777216
      <3>1. bit = 24 + (i - 1)
        BY SMT, <1>3, <1>11, <1>16
      <3> QED BY <3>1, <1>3, <1>10 DEF q
    <2> DEFINE l == (w[2] * 256 + w[3]) * 256 + w[4]
    <2>2. UnpackUint(w) = (256 * 0 + w[1]) * 16777216 + l
      BY SMT, <1>2, <1>12
    <2>3. (UnpackUint(w) \div pow[bit]) % 2 = (w[1] \div q) % 2
      <3>1. 16777216 \in Nat \ {0} /\ l \in Nat /\ l < 16777216 /\ 0 \in Nat
        BY SMT, <1>2, <1>a
      <3> HIDE DEF l
      <3> QED BY <3>1, <1>1, <1>2, <1>6, <2>1, <2>2
    <2>4. 4 - bit \div 8 = 1
      BY SMT, <1>16
    <2> QED BY <1>5, <2>3, <2>4
  <1>17. bit \div 8 = 0 \/ bit \div 8 = 1 \/ bit \div 8 = 2 \/ bit \div 8 = 3
    BY SMT, <1>11
  <1> QED BY <1>13, <1>14, <1>15, <1>16, <1>17

-----------------------------------------------------------------------------
(* Texts *)

LEMMA LessThanWellFounded == IsWellFoundedOn({ss \in Nat \X Nat : ss[1] < ss[2]}, Nat)
  BY NatLessThanWellFounded DEF OpToRel

\* A set of numbers has a least one.
LEMMA Least ==
    ASSUME NEW T, T \subseteq Nat, T # {}
    PROVE  \E x \in T : \A y \in T : x <= y
  <1> DEFINE R == {ss \in Nat \X Nat : ss[1] < ss[2]}
  <1>1. IsWellFoundedOn(R, Nat)
    BY LessThanWellFounded
  <1> HIDE DEF R
  <1>2. PICK x \in T : \A y \in T : <<y, x>> \notin R
    BY <1>1, WFMin, Zenon
  <1>3. ASSUME NEW y \in T PROVE x <= y
    <2>1. <<y, x>> \notin R
      BY <1>2
    <2>2. x \in Nat /\ y \in Nat
      OBVIOUS
    <2>3. ~(y < x)
      BY <2>1, <2>2 DEF R
    <2> QED BY <2>2, <2>3
  <1> QED BY <1>3

\* And a greatest one, if a number bounds it.
LEMMA Greatest ==
    ASSUME NEW T, T \subseteq Nat, T # {}, NEW n \in Nat, \A y \in T : y <= n
    PROVE  \E x \in T : \A y \in T : y <= x
  <1> DEFINE U == {k \in Nat : \A y \in T : y <= k}
  <1>1. PICK x \in U : \A k \in U : x <= k
    <2>1. U \subseteq Nat /\ U # {}
      OBVIOUS
    <2> QED BY <2>1, Least
  <1>2. x \in T
    <2> SUFFICES ASSUME x \notin T PROVE FALSE
      OBVIOUS
    <2>1. \A y \in T : y <= x - 1
      OBVIOUS
    <2>2. x - 1 \in Nat
      <3>1. PICK y \in T : TRUE
        OBVIOUS
      <3> QED BY <2>1, <3>1
    <2>3. x - 1 \in U
      BY <2>1, <2>2
    <2> QED BY <1>1, <2>3
  <1> QED BY <1>1, <1>2

\* How far a text reaches is determined by where its first NUL is.
LEMMA ExtentIs ==
    ASSUME NEW w \in Nat, NEW raw, Len(raw) = w, NEW n \in 0..w,
           \A i \in 1..n : raw[i] # Nul, n < w => raw[n + 1] = Nul
    PROVE  Extent(raw) = n
  <1> DEFINE Reach(k) == (\A i \in 1..k : raw[i] # Nul) /\ (k < Len(raw) => raw[k + 1] = Nul)
  <1>1. \A k \in 0..w : Reach(k) => k = n
    <2> SUFFICES ASSUME NEW k \in 0..w, Reach(k), k # n PROVE FALSE
      OBVIOUS
    <2>1. CASE k < n
      <3>1. k + 1 \in 1..n /\ k < Len(raw)
        BY <2>1
      <3> QED BY <3>1
    <2>2. CASE n < k
      <3>1. n + 1 \in 1..k /\ n < w
        BY <2>2
      <3> QED BY <3>1
    <2> QED BY <2>1, <2>2
  <1>2. Reach(n)
    OBVIOUS
  <1> HIDE DEF Reach
  <1>3. (CHOOSE k \in 0..w : Reach(k)) = n
    BY <1>1, <1>2
  <1> QED BY <1>3 DEF Extent, Reach

\* Every field has such a place.
LEMMA ExtentExists ==
    ASSUME NEW w \in Nat, NEW raw, Len(raw) = w
    PROVE  /\ Extent(raw) \in 0..w
           /\ \A i \in 1..Extent(raw) : raw[i] # Nul
  <1> DEFINE Z == {i \in 1..w : raw[i] = Nul}
  <1>1. CASE Z = {}
    <2>1. \A i \in 1..w : raw[i] # Nul
      BY <1>1
    <2>2. Extent(raw) = w
      BY <2>1, ExtentIs
    <2> QED BY <2>1, <2>2
  <1>2. CASE Z # {}
    <2>1. PICK z \in Z : \A y \in Z : z <= y
      <3>1. Z \subseteq Nat
        OBVIOUS
      <3> HIDE DEF Z
      <3> QED BY <1>2, <3>1, Least
    <2>2. z \in 1..w /\ raw[z] = Nul /\ z - 1 \in 0..w /\ (z - 1) + 1 = z
      BY <2>1
    <2>3. \A i \in 1..(z - 1) : raw[i] # Nul
      BY <2>1, <2>2
    <2>4. Extent(raw) = z - 1
      BY <2>2, <2>3, ExtentIs
    <2> QED BY <2>2, <2>3, <2>4
  <1> QED BY <1>1, <1>2

Bare(v) == v # <<>> => v[1] \notin Blank /\ v[Len(v)] \notin Blank

\* strip() takes nothing off a text without blanks around it.
LEMMA StrippedSame ==
    ASSUME NEW v \in Seq(Nat), Bare(v)
    PROVE  Stripped(v) = v
  <1> DEFINE inked == {i \in 1..Len(v) : v[i] \notin Blank}
  <1>1. CASE v = <<>>
    <2>1. inked = {}
      BY <1>1
    <2> QED BY <1>1, <2>1 DEF Stripped
  <1>2. CASE v # <<>>
    <2>1. Len(v) \in Nat /\ Len(v) >= 1 /\ v \in [1..Len(v) -> Nat]
      BY <1>2
    <2>2. 1 \in inked /\ Len(v) \in inked
      BY <1>2, <2>1 DEF Bare
    <2>3. \A i \in inked : i \in Int /\ 1 <= i /\ i <= Len(v)
      BY <2>1
    <2> HIDE DEF inked
    <2>4. Min(inked) = 1
      BY <2>2, <2>3 DEF Min
    <2>5. Max(inked) = Len(v)
      BY <2>1, <2>2, <2>3, SMTT(40) DEF Max
    <2>6. Stripped(v) = [i \in 1..(Len(v) - 1 + 1) |-> v[1 + i - 1]]
      BY <2>2, <2>4, <2>5, ZenonT(60) DEF Stripped, inked
    <2>7. Len(v) - 1 + 1 = Len(v) /\ \A i \in 1..Len(v) : 1 + i - 1 = i
      BY <2>1
    <2> QED BY <2>1, <2>6, <2>7
  <1> QED BY <1>1, <1>2

\* What it leaves is a piece of the text, without blanks around it.
LEMMA StrippedIsPiece ==
    ASSUME NEW v \in Seq(Nat)
    PROVE  /\ Stripped(v) \in Seq(Nat) /\ Bare(Stripped(v))
           /\ \A i \in 1..Len(Stripped(v)) : \E k \in 1..Len(v) : Stripped(v)[i] = v[k]
  <1> DEFINE inked == {i \in 1..Len(v) : v[i] \notin Blank}
  <1>1. CASE inked = {}
    <2>1. Stripped(v) = <<>>
      BY <1>1 DEF Stripped
    <2> QED BY <2>1 DEF Bare
  <1>2. CASE inked # {}
    <2>1. inked \subseteq Nat /\ Len(v) \in Nat /\ \A i \in inked : i <= Len(v)
      OBVIOUS
    <2>2. PICK least \in inked : \A i \in inked : least <= i
      <3> HIDE DEF inked
      <3> QED BY <1>2, <2>1, Least
    <2>3. PICK most \in inked : \A i \in inked : i <= most
      <3> HIDE DEF inked
      <3> QED BY <1>2, <2>1, Greatest
    <2> HIDE DEF inked
    <2>4. Min(inked) = least
      <3>1. \A x \in inked : (\A y \in inked : x <= y) => x = least
        BY <2>1, <2>2
      <3> QED BY <2>2, <3>1 DEF Min
    <2>5. Max(inked) = most
      <3>1. \A x \in inked : (\A y \in inked : x >= y) => x = most
        BY <2>1, <2>3
      <3>2. \A y \in inked : most >= y
        BY <2>1, <2>3
      <3> QED BY <3>1, <3>2 DEF Max
    <2> DEFINE n == most - least + 1
    <2>6. Stripped(v) = [i \in 1..n |-> v[least + i - 1]]
      BY <1>2, <2>4, <2>5 DEF Stripped, inked
    <2>7. /\ least \in 1..Len(v) /\ most \in 1..Len(v) /\ least <= most
          /\ v[least] \notin Blank /\ v[most] \notin Blank
      BY <2>1, <2>2, <2>3 DEF inked
    <2>8. n \in Nat /\ n >= 1 /\ \A i \in 1..n : least + i - 1 \in 1..Len(v)
      BY <2>7
    <2>9. Stripped(v) \in Seq(Nat) /\ Len(Stripped(v)) = n
      <3>1. \A i \in 1..n : v[least + i - 1] \in Nat
        BY <2>8
      <3> HIDE DEF n
      <3> QED BY <2>6, <2>8, <3>1
    <2>10. Stripped(v)[1] = v[least] /\ Stripped(v)[n] = v[most]
      BY <2>6, <2>7, <2>8
    <2>11. \A i \in 1..n : Stripped(v)[i] = v[least + i - 1]
      BY <2>6
    <2> HIDE DEF n
    <2> QED BY <2>7, <2>8, <2>9, <2>10, <2>11 DEF Bare
  <1> QED BY <1>1, <1>2

\* A text that fits its field reads back from it, if it is ASCII without a NUL
\* and without blanks around it; whatever is shorter than the field is padded.
THEOREM TextRoundTrip ==
    ASSUME NEW w \in Nat, NEW v \in Seq(Nat), Len(v) <= w, Ascii(v), Plain(v)
    PROVE  DecodeString(Padded(v, w)) = v
  <1> DEFINE raw == Padded(v, w)
  <1>1. /\ Len(v) \in 0..w /\ Len(raw) = w /\ v \in [1..Len(v) -> Nat]
        /\ \A i \in 1..w : raw[i] = IF i <= Len(v) THEN v[i] ELSE Nul
    BY DEF Padded
  <1> HIDE DEF raw
  <1>2. \A i \in 1..Len(v) : raw[i] = v[i] /\ raw[i] # Nul /\ raw[i] < 128
    BY <1>1 DEF Plain, Whole, Ascii
  <1>3. Len(v) < w => raw[Len(v) + 1] = Nul
    BY <1>1
  <1>4. Extent(raw) = Len(v)
    BY <1>1, <1>2, <1>3, ExtentIs
  <1>5. [i \in 1..Len(v) |-> IF raw[i] < 128 THEN raw[i] ELSE Replacement] = v
    BY <1>1, <1>2
  <1>6. Stripped(v) = v
    BY StrippedSame DEF Plain, Bare
  <1> QED BY <1>4, <1>5, <1>6 DEF DecodeString, raw

\* Whatever a field holds, what is read from it has neither a NUL in it nor
\* blanks around it.
THEOREM DecodedIsPlain ==
    ASSUME NEW w \in Nat, NEW raw \in [1..w -> Byte]
    PROVE  DecodeString(raw) \in Seq(Nat) /\ Plain(DecodeString(raw))
  <1> DEFINE n == Extent(raw)
             v == [i \in 1..n |-> IF raw[i] < 128 THEN raw[i] ELSE Replacement]
  <1>1. n \in 0..w /\ \A i \in 1..n : raw[i] # Nul
    <2>1. Len(raw) = w
      OBVIOUS
    <2> QED BY <2>1, ExtentExists
  <1> HIDE DEF n
  <1>2. \A i \in 1..n : raw[i] \in Nat
    <2>1. n \in Nat /\ n <= w
      BY <1>1
    <2> SUFFICES ASSUME NEW i \in 1..n PROVE raw[i] \in Nat
      OBVIOUS
    <2>2. i \in 1..w
      BY <2>1
    <2>3. raw[i] \in Byte
      BY <2>2
    <2>4. Byte \subseteq Nat
      BY DEF Byte
    <2> QED BY <2>3, <2>4
  <1>3. v \in Seq(Nat) /\ Len(v) = n /\ \A i \in 1..n : v[i] # Nul
    BY <1>1, <1>2 DEF Replacement, Nul
  <1> HIDE DEF v
  <1>4. /\ Stripped(v) \in Seq(Nat) /\ Bare(Stripped(v))
        /\ \A i \in 1..Len(Stripped(v)) : Stripped(v)[i] # Nul
    BY <1>3, StrippedIsPiece
  <1>5. DecodeString(raw) = Stripped(v)
    BY DEF DecodeString, v, n
  <1>6. DOMAIN Stripped(v) = 1..Len(Stripped(v))
    BY <1>4
  <1> QED BY <1>4, <1>5, <1>6 DEF Plain, Whole, Bare
=============================================================================
