------------------------------- MODULE Codec -------------------------------
(***************************************************************************)
(* Frames and values of the charger's protocol (protocol.py): four-byte    *)
(* words, texts in four-byte pieces, control commands, alarm words, and    *)
(* what a payload is taken for.  Pure operators; Settings uses them, and   *)
(* CodecProofs proves what the rest of the library takes for granted.      *)
(*                                                                         *)
(* A payload is a sequence of bytes, a text a sequence of code points.     *)
(***************************************************************************)
EXTENDS Integers, Sequences, FiniteSetsExt

Byte == 0..255
Word == [1..4 -> Byte]

\* Operation and Register, as far as they are used here; Command.
READ == 0
WRITE == 1
ALARMS == 57
CONTROL == 60
Command == [start |-> 1, stop |-> 16]
Header == <<16, 172>>

-----------------------------------------------------------------------------
(* Numbers *)

\* struct.pack(">I")
PackUint(v) == <<v \div 16777216, (v \div 65536) % 256, (v \div 256) % 256, v % 256>>
UnpackUint(w) == ((w[1] * 256 + w[2]) * 256 + w[3]) * 256 + w[4]

\* The clock and the UTC offset: the parts are in range where these are used,
\* so | is +.
ClockTime(hour, minute, second) == PackUint(second * 65536 + minute * 256 + hour)
ClockDate(year, month, day) == PackUint(day * 65536 + (month - 1) * 256 + (year - 1900))
Timezone(hours, minutes) == PackUint(hours * 256 + minutes)
TimezoneOf(w) == <<(UnpackUint(w) \div 256) % 256, UnpackUint(w) % 256>>

TimeInRange(hour, minute, second) == hour \in 0..23 /\ minute \in 0..59 /\ second \in 0..59
DateInRange(year, month, day) == year \in 1900..2155 /\ month \in 1..12 /\ day \in 1..31

\* The variant lets a negative offset through.
OffsetNotAbove(hours, minutes) == hours <= 23 /\ minutes <= 59
OffsetInRange(hours, minutes) == hours \in 0..23 /\ minutes \in 0..59

\* The charger shows its clock as const.py lays the words out.
TimeOf(w) == <<w[4], w[3], w[2]>>
DateOf(w) == <<1900 + w[4], w[3] + 1, w[2]>>

-----------------------------------------------------------------------------
(* Texts *)

Nul == 0
\* What str.isspace says of a code point.
Blank == (9..13) \cup (28..32) \cup (8192..8202)
         \cup {133, 160, 5760, 8232, 8233, 8239, 8287, 12288}
Quote == 34
Replacement == 65533

Ascii(v) == \A i \in DOMAIN v : v[i] < 128

\* A text without a NUL; and one without blanks around it.
Whole(v) == \A i \in DOMAIN v : v[i] # Nul
Plain(v) == /\ Whole(v)
            /\ v # <<>> => v[1] \notin Blank /\ v[Len(v)] \notin Blank

\* A text as it lies in a field of the given width, and its p-th piece.
Padded(v, width) == [i \in 1..width |-> IF i <= Len(v) THEN v[i] ELSE Nul]
PieceOf(raw, p) == [j \in 1..4 |-> raw[4 * (p - 1) + j]]

\* How far a text reaches in its field: to the first NUL.
Extent(raw) == CHOOSE n \in 0..Len(raw) : /\ \A i \in 1..n : raw[i] # Nul
                                          /\ n < Len(raw) => raw[n + 1] = Nul

\* str.strip
Stripped(v) == LET inked == {i \in 1..Len(v) : v[i] \notin Blank}
               IN  IF inked = {} THEN <<>>
                   ELSE [i \in 1..(Max(inked) - Min(inked) + 1) |-> v[Min(inked) + i - 1]]

DecodeString(raw) ==
    Stripped([i \in 1..Extent(raw) |-> IF raw[i] < 128 THEN raw[i] ELSE Replacement])

-----------------------------------------------------------------------------
(* Payloads *)

\* build_read and build_write_uint
BuildFrame(register, flag, word) ==
    <<Header[1], Header[2], register, flag, word[1], word[2], word[3], word[4]>>

StartsWithHeader(data) == data[1] = Header[1] /\ data[2] = Header[2]

\* parse_frame and is_reply
IsFrame(data) == Len(data) = 8 /\ StartsWithHeader(data)
IsReply(data) == Len(data) > 4 /\ StartsWithHeader(data)

\* is_history_record
IsHistoryRecord(data) == Len(data) \in {26, 20} /\ data[1] = 124 /\ data[Len(data)] = 37

\* decode_session_record: the days a month has, two timestamps, the energy.
DaysIn(year, month) ==
    CASE month = 2 -> IF year % 4 = 0 /\ (year % 100 # 0 \/ year % 400 = 0) THEN 29 ELSE 28
      [] month \in {4, 6, 9, 11} -> 30
      [] OTHER -> 31

\* The date and time whose time starts at byte i + 1 and date at byte i + 6.
StampAt(data, i) == <<1900 + data[i + 6], data[i + 7], data[i + 8],
                      data[i + 1], data[i + 2], data[i + 3]>>
StampExists(s) == /\ s[2] \in 1..12 /\ s[3] \in 1..DaysIn(s[1], s[2])
                  /\ TimeInRange(s[4], s[5], s[6])

IsSession(data) ==
    /\ Len(data) = 26 /\ data[1] = 124 /\ data[26] = 37
    /\ StampExists(StampAt(data, 1)) /\ StampExists(StampAt(data, 11))
SessionOf(data) == [start |-> StampAt(data, 1), end |-> StampAt(data, 11),
                    energy |-> UnpackUint([j \in 1..4 |-> data[21 + j]])]

-----------------------------------------------------------------------------
(* Control commands and alarms *)

CONTROL_REJECTED == <<255, 255, 255, 255>>
PasswordFits(password) == password \in Nat /\ password <= 16777215

BuildControl(command, password) ==
    BuildFrame(CONTROL, WRITE, PackUint(Command[command] * 16777216 + password))

\* check_control_reply
ValueOf(data) == [j \in 1..4 |-> data[4 + j]]
ControlReply(sent, reply) ==
    IF ~IsFrame(reply) \/ reply[3] # CONTROL THEN "protocol"
    ELSE IF ValueOf(reply) = CONTROL_REJECTED THEN "rejected"
    ELSE IF ValueOf(reply) # ValueOf(sent) THEN "protocol"
    ELSE "ok"

Bank == {1, 2}
AlarmFlag(bank) == IF bank = 1 THEN READ ELSE 16
BuildAlarmRead(bank) == BuildFrame(ALARMS, AlarmFlag(bank), PackUint(0))

\* The bits ALARMS names in each bank, and those of them set in a word.
AlarmBits == [bank \in Bank |-> IF bank = 1 THEN 0..17 ELSE 0..25]
BitSet(w, bit) == (w[4 - bit \div 8] \div <<1, 2, 4, 8, 16, 32, 64, 128>>[(bit % 8) + 1]) % 2 = 1
ActiveAlarms(w, bank) == {bit \in AlarmBits[bank] : BitSet(w, bit)}
=============================================================================
