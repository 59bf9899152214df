--------------------------- MODULE SettingsProofs ---------------------------
(* What the setters and the ocpp command write is what is read back and in   *)
(* effect, for every call, every request and every charger.                  *)
EXTENDS Settings, CodecProofs, SequenceTheorems

-----------------------------------------------------------------------------
(* Fields and their values *)

\* A value its field can hold.
Fits(f, v) ==
    /\ f \in TextField => v \in Text /\ Ascii(v) /\ Len(v) <= 4 * Pieces(f)
    /\ f = "zone" => v \in Int \X Int /\ OffsetInRange(v[1], v[2])
    /\ f = "time" => v \in Int \X Int \X Int /\ TimeInRange(v[1], v[2], v[3])
    /\ f = "date" => v \in Int \X Int \X Int /\ DateInRange(v[1], v[2], v[3])
    /\ f \in NumberField => v \in Uint32

LEMMA FieldKinds ==
    ASSUME NEW f \in Field
    PROVE  /\ f \in TextField \/ f = "zone" \/ f = "time" \/ f = "date" \/ f \in NumberField
           /\ f \in TextField => f # "zone" /\ f # "time" /\ f # "date" /\ f \notin NumberField
           /\ f \in NumberField => f # "zone" /\ f # "time" /\ f # "date"
  BY DEF Field, TextField, NumberField

\* The cases of Encode and Decode, one by one.
LEMMA EncodeCases ==
    ASSUME NEW f \in Field, NEW v
    PROVE  /\ f \in TextField => Encode(f, v) = Padded(v, 4 * Pieces(f))
           /\ f = "zone" => Encode(f, v) = Timezone(v[1], v[2])
           /\ f = "time" => Encode(f, v) = ClockTime(v[1], v[2], v[3])
           /\ f = "date" => Encode(f, v) = ClockDate(v[1], v[2], v[3])
           /\ f \in NumberField => Encode(f, v) = PackUint(v)
  BY FieldKinds DEF Encode

LEMMA DecodeCases ==
    ASSUME NEW f \in Field, NEW w
    PROVE  /\ f \in TextField => Decode(f, w) = DecodeString(w)
           /\ f = "zone" => Decode(f, w) = TimezoneOf(w)
           /\ f = "time" => Decode(f, w) = TimeOf(w)
           /\ f = "date" => Decode(f, w) = DateOf(w)
           /\ f \in NumberField => Decode(f, w) = UnpackUint(w)
  BY FieldKinds DEF Decode

LEMMA RawCases ==
    ASSUME NEW f \in Field
    PROVE  f \notin TextField => Pieces(f) = 1 /\ Raw(f) = Word
  <1>1. f \notin TextField => Pieces(f) = 1
    BY DEF Field, TextField, NumberField, Pieces
  <1> QED BY <1>1 DEF Raw, Word

LEMMA PiecesType == \A f \in Field : Pieces(f) \in Nat /\ Pieces(f) >= 1
  BY WidthsAssumption DEF Pieces

LEMMA LimitsFit ==
    ASSUME NEW v \in Int, v \in 1..MaxPort \/ v \in 0..MaxDelay \/ v \in {0, 1}
    PROVE  v \in Uint32
  BY SMT, LimitsAssumption DEF Uint32

\* A value that fits is encoded in the bytes of its field, and read back from
\* them as far as it can be read at all.
LEMMA EncodeFits ==
    ASSUME NEW f \in Field, NEW v, Fits(f, v)
    PROVE  /\ Encode(f, v) \in Raw(f)
           /\ Readable(f, v) => Decode(f, Encode(f, v)) = v
  <1>1. CASE f \in TextField
    <2> DEFINE w == 4 * Pieces(f)
    <2>1. w \in Nat
      BY PiecesType
    <2>2. v \in Seq(Nat) /\ Ascii(v) /\ Len(v) <= w
      BY <1>1 DEF Fits, Text
    <2>3. Encode(f, v) = Padded(v, w)
      BY <1>1, EncodeCases
    <2>4. Raw(f) = [1..w -> Byte]
      BY DEF Raw
    <2> HIDE DEF w
    <2>5. Padded(v, w) \in [1..w -> Byte]
      <3>1. \A i \in 1..w : i <= Len(v) => v[i] \in Nat /\ v[i] < 128
        BY <2>1, <2>2 DEF Ascii
      <3>2. ASSUME NEW i \in 1..w PROVE (IF i <= Len(v) THEN v[i] ELSE Nul) \in Byte
        <4>1. Nul \in Byte
          BY DEF Byte, Nul
        <4>2. ASSUME i <= Len(v) PROVE v[i] \in Byte
          <5>1. v[i] \in Nat /\ v[i] < 128
            BY <3>1, <4>2
          <5> QED BY <5>1 DEF Byte
        <4> QED BY <4>1, <4>2
      <3> QED BY <3>2 DEF Padded
    <2>6. Plain(v) => DecodeString(Padded(v, w)) = v
      BY <2>1, <2>2, TextRoundTrip
    <2>7. Readable(f, v) => Plain(v)
      BY <1>1 DEF Readable
    <2> QED BY <1>1, <2>3, <2>4, <2>5, <2>6, <2>7, DecodeCases
  <1>2. CASE f = "zone"
    <2>1. OffsetInRange(v[1], v[2]) /\ v = <<v[1], v[2]>>
      BY <1>2 DEF Fits
    <2>2. Timezone(v[1], v[2]) \in Word /\ TimezoneOf(Timezone(v[1], v[2])) = v
      BY <2>1, TimezoneRoundTrip
    <2> QED BY <1>2, <2>2, FieldKinds, EncodeCases, DecodeCases, RawCases
  <1>3. CASE f = "time"
    <2>1. TimeInRange(v[1], v[2], v[3]) /\ v = <<v[1], v[2], v[3]>>
      BY <1>3 DEF Fits
    <2>2. DateInRange(1900, 1, 1)
      BY DEF DateInRange
    <2>3. ClockTime(v[1], v[2], v[3]) \in Word /\ TimeOf(ClockTime(v[1], v[2], v[3])) = v
      BY <2>1, <2>2, ClockRoundTrip
    <2> QED BY <1>3, <2>3, FieldKinds, EncodeCases, DecodeCases, RawCases
  <1>4. CASE f = "date"
    <2>1. DateInRange(v[1], v[2], v[3]) /\ v = <<v[1], v[2], v[3]>>
      BY <1>4 DEF Fits
    <2>2. TimeInRange(0, 0, 0)
      BY DEF TimeInRange
    <2>3. ClockDate(v[1], v[2], v[3]) \in Word /\ DateOf(ClockDate(v[1], v[2], v[3])) = v
      BY <2>1, <2>2, ClockRoundTrip
    <2> QED BY <1>4, <2>3, FieldKinds, EncodeCases, DecodeCases, RawCases
  <1>5. CASE f \in NumberField
    <2>1. PackUint(v) \in Word /\ UnpackUint(PackUint(v)) = v
      BY <1>5, NumberRoundTrip DEF Fits
    <2> QED BY <1>5, <2>1, FieldKinds, EncodeCases, DecodeCases, RawCases
  <1> QED BY <1>1, <1>2, <1>3, <1>4, <1>5, FieldKinds

\* What the checks let through fits.
LEMMA AcceptedFits ==
    ASSUME NEW c, IsCall(c), ~RefusedBySetter(c), ~RefusedByBuild(c),
           NEW f \in FieldsOf(c)
    PROVE  f \in Field /\ Fits(f, c.values[f])
  <1> DEFINE v == c.values[f]
  <1>1. v \in Value(f) /\ c.op \in Setter
    BY DEF IsCall
  <1>2. f \in Field
    BY <1>1 DEF FieldsOf, Fields, Setter, Field, TextField, NumberField
  <1>3. CASE f \in TextField
    <2>1. v \in Text
      BY <1>1, <1>3 DEF Value
    <2>2. Ascii(v) /\ ~(Len(v) > 4 * Pieces(f))
      BY <1>3 DEF RefusedByBuild
    <2>3. Len(v) \in Nat /\ 4 * Pieces(f) \in Nat
      BY <1>2, <2>1, PiecesType DEF Text
    <2>4. Len(v) <= 4 * Pieces(f)
      BY <2>2, <2>3
    <2> QED BY <1>2, <1>3, <2>1, <2>2, <2>4, FieldKinds DEF Fits
  <1>4. CASE f = "zone"
    <2>1. c.op = "zone"
      BY <1>1, <1>4 DEF FieldsOf, Fields, Setter
    <2>2. OffsetInRange(v[1], v[2])
      BY <1>4, <2>1 DEF RefusedBySetter
    <2>3. v \in Int \X Int
      BY <1>1, <1>4 DEF Value, TextField
    <2> QED BY <1>2, <1>4, <2>2, <2>3, FieldKinds DEF Fits
  <1>5. CASE f = "time" \/ f = "date"
    <2>1. c.op = "clock"
      BY <1>1, <1>5 DEF FieldsOf, Fields, Setter
    <2>2. LET t == c.values["time"]  d == c.values["date"]
          IN  TimeInRange(t[1], t[2], t[3]) /\ DateInRange(d[1], d[2], d[3])
      BY <2>1 DEF RefusedByBuild
    <2>3. v \in Int \X Int \X Int
      BY <1>1, <1>2, <1>5, FieldKinds DEF Value
    <2> QED BY <1>2, <1>5, <2>2, <2>3, FieldKinds DEF Fits
  <1>6. CASE f \in NumberField
    <2>1. v \in Uint32
      <3>1. v \in Int
        BY <1>1, <1>2, <1>6, FieldKinds DEF Value
      <3>2. CASE f = "port"
        <4>1. c.op = "ocpp"
          BY <1>1, <3>2 DEF FieldsOf, Fields, Setter
        <4> QED BY <3>1, <3>2, <4>1, LimitsFit DEF RefusedBySetter
      <3>3. CASE f = "delay"
        <4>1. c.op = "delay"
          BY <1>1, <3>3 DEF FieldsOf, Fields, Setter
        <4> QED BY <3>1, <3>3, <4>1, LimitsFit DEF RefusedBySetter
      <3>4. CASE f = "internet"
        <4>1. v \in {0, 1}
          BY <1>1, <3>4 DEF Value, TextField
        <4> QED BY <3>1, <4>1, LimitsFit
      <3> QED BY <1>6, <3>2, <3>3, <3>4 DEF NumberField
    <2> QED BY <1>2, <1>6, <2>1, FieldKinds DEF Fits
  <1> QED BY <1>2, <1>3, <1>4, <1>5, <1>6, FieldKinds

-----------------------------------------------------------------------------
(* The texts of the ocpp command *)

\* What the command reads are settings, and its texts are plain.
LEMMA ReadsAreSettings ==
    ASSUME NEW m, IsMemory(m)
    PROVE  LET cur == ReadOcpp(m) IN
           /\ cur.host \in Text /\ cur.port \in Int /\ cur.path \in Text /\ cur.id \in Text
           /\ Plain(cur.host) /\ Plain(cur.path) /\ Plain(cur.id)
  <1>1. ASSUME NEW f \in {"host", "path", "id"}
        PROVE  DecodeString(m[f]) \in Text /\ Plain(DecodeString(m[f]))
    <2>1. f \in Field /\ m[f] \in Raw(f)
      BY DEF IsMemory, Field, TextField
    <2>2. 4 * Pieces(f) \in Nat
      BY <2>1, PiecesType
    <2> QED BY <2>1, <2>2, DecodedIsPlain DEF Raw, Text
  <1>2. UnpackUint(m["port"]) \in Int
    <2>1. m["port"] \in Word
      BY RawCases DEF IsMemory, Field, TextField, NumberField
    <2> HIDE DEF IsMemory
    <2>2. \A i \in 1..4 : m["port"][i] \in Int
      BY <2>1 DEF Word, Byte
    <2> QED BY <2>2 DEF UnpackUint
  <1> QED BY <1>1, <1>2 DEF ReadOcpp

\* A host as the charger is given it has no blanks around it.
LEMMA HostIsPlain ==
    ASSUME NEW h \in Text
    PROVE  /\ Stripped(h) \in Text /\ ChargerHost(h) \in Text
           /\ Whole(Stripped(h)) => Plain(ChargerHost(h))
           /\ Whole(h) => Whole(Stripped(h))
  <1> DEFINE s == Stripped(h)
  <1>1. /\ s \in Seq(Nat) /\ Bare(s)
        /\ \A i \in 1..Len(s) : \E k \in 1..Len(h) : s[i] = h[k]
    BY StrippedIsPiece DEF Text
  <1>2. Whole(h) => Whole(s)
    <2>1. DOMAIN h = 1..Len(h) /\ DOMAIN s = 1..Len(s)
      BY <1>1 DEF Text
    <2> HIDE DEF s
    <2> QED BY <1>1, <2>1 DEF Whole
  <1> HIDE DEF s
  <1>3. CASE s \in Address \/ Marked(s)
    <2>1. ChargerHost(h) = s
      BY <1>3 DEF ChargerHost, HostMarked, s
    <2> QED BY <1>1, <1>2, <2>1 DEF Plain, Bare, Text, s
  <1>4. CASE ~(s \in Address \/ Marked(s))
    <2> DEFINE d == DNS_PREFIX
               t == d \o s
    <2>1. ChargerHost(h) = t
      BY <1>4 DEF ChargerHost, HostMarked, s
    <2>2. d \in Seq(Nat) /\ Len(d) = 4 /\ d[1] = 100 /\ d[4] = 58 /\ \A i \in 1..4 : d[i] # Nul
      BY DEF DNS_PREFIX, Nul
    <2>3. 100 \notin Blank /\ 58 \notin Blank
      BY DEF Blank
    <2> HIDE DEF d
    <2>4. /\ t \in Seq(Nat) /\ Len(t) = 4 + Len(s) /\ Len(s) \in Nat
          /\ \A i \in 1..4 : t[i] = d[i]
          /\ \A i \in 1..Len(s) : t[i + 4] = s[i]
      <3>1. d \in Seq(Nat) /\ s \in Seq(Nat) /\ Len(s) \in Nat
        BY <1>1, <2>2
      <3>2. /\ t \in Seq(Nat) /\ Len(t) = Len(d) + Len(s)
            /\ \A i \in 1..Len(d) + Len(s) :
                 t[i] = IF i <= Len(d) THEN d[i] ELSE s[i - Len(d)]
        BY <3>1, ConcatProperties, Zenon
      <3> HIDE DEF t
      <3>3. ASSUME NEW i \in 1..4 PROVE t[i] = d[i]
        <4>1. i \in 1..Len(d) + Len(s) /\ i <= Len(d)
          BY <2>2, <3>1
        <4> QED BY <3>2, <4>1
      <3>4. ASSUME NEW i \in 1..Len(s) PROVE t[i + 4] = s[i]
        <4>1. i + 4 \in 1..Len(d) + Len(s) /\ ~(i + 4 <= Len(d)) /\ i + 4 - Len(d) = i
          BY <2>2, <3>1
        <4> QED BY <3>2, <4>1
      <3> QED BY <2>2, <3>1, <3>2, <3>3, <3>4
    <2> HIDE DEF t
    <2>5. t[1] \notin Blank /\ t[Len(t)] \notin Blank
      <3>1. t[1] = 100
        BY <1>1, <2>2, <2>4
      <3>2. CASE s = <<>>
        <4>1. Len(t) = 4 /\ t[4] = 58
          BY <2>2, <2>4, <3>2
        <4> QED BY <2>3, <3>1, <4>1
      <3>3. CASE s # <<>>
        <4>1. Len(s) \in 1..Len(s) /\ Len(t) = Len(s) + 4
          BY <1>1, <2>4, <3>3
        <4>2. t[Len(t)] = s[Len(s)]
          BY <2>4, <4>1
        <4> QED BY <1>1, <2>3, <3>1, <3>3, <4>2 DEF Bare
      <3> QED BY <3>2, <3>3
    <2>6. Whole(s) => Whole(t)
      <3> SUFFICES ASSUME Whole(s), NEW i \in 1..Len(t) PROVE t[i] # Nul
        BY <2>4 DEF Whole
      <3>1. CASE i \in 1..4
        BY <2>2, <2>4, <3>1
      <3>2. CASE i \notin 1..4
        <4>1. i - 4 \in 1..Len(s) /\ i = (i - 4) + 4
          BY <2>4, <3>2
        <4>2. s[i - 4] # Nul
          BY <1>1, <4>1 DEF Whole
        <4> QED BY <2>4, <4>1, <4>2
      <3> QED BY <3>1, <3>2
    <2> QED BY <1>1, <1>2, <2>1, <2>4, <2>5, <2>6 DEF Plain, Text, s
  <1> QED BY <1>3, <1>4

\* What the command wants is a call of the setter.
LEMMA WantedIsCall ==
    ASSUME NEW m, IsMemory(m), NEW a, IsRequest(a), a.host # None
    PROVE  IsCall([op |-> "ocpp", values |-> WantedOcpp(ReadOcpp(m), a), commit |-> TRUE])
  <1> DEFINE cur == ReadOcpp(m)
             w == WantedOcpp(cur, a)
             c == [op |-> "ocpp", values |-> w, commit |-> TRUE]
  <1>1. cur.host \in Text /\ cur.port \in Int /\ cur.path \in Text /\ cur.id \in Text
    BY ReadsAreSettings
  <1> HIDE DEF cur
  <1>2. w.host \in Text
    BY HostIsPlain DEF WantedOcpp, IsRequest
  <1>3. w.port \in Int
    BY <1>1 DEF WantedOcpp, IsRequest
  <1>4. w.path \in Text
    <2>1. DEFAULT_OCPP_PATH \in Text
      BY DEF DEFAULT_OCPP_PATH, Text
    <2> HIDE DEF DEFAULT_OCPP_PATH, Text
    <2> QED BY <1>1, <2>1 DEF WantedOcpp, WantedPath, IsRequest
  <1>5. w.id \in Text
    BY <1>1 DEF WantedOcpp, WantedId, IsRequest
  <1> HIDE DEF w
  <1>6. c.op \in Setter /\ c.commit \in BOOLEAN
    BY DEF Setter, Fields
  <1>7. FieldsOf(c) = {"host", "port", "path", "id"}
    BY DEF FieldsOf, Fields
  <1>8. Value("host") = Text /\ Value("path") = Text /\ Value("id") = Text /\ Value("port") = Int
    BY DEF Value, TextField
  <1>9. c.values["host"] = w.host /\ c.values["port"] = w.port
        /\ c.values["path"] = w.path /\ c.values["id"] = w.id
    OBVIOUS
  <1> HIDE DEF c
  <1>10. IsCall(c)
    BY <1>2, <1>3, <1>4, <1>5, <1>6, <1>7, <1>8, <1>9 DEF IsCall
  <1> QED BY <1>10 DEF c, w, cur

-----------------------------------------------------------------------------
(* The inductive invariant *)

Accepted(c) == IsCall(c) /\ ~RefusedBySetter(c) /\ ~RefusedByBuild(c)

\* A call under way, or done, was accepted, and stands inside its fields.
CallInv ==
    /\ pc # "idle" \/ outcome = "ok" => Accepted(call)
    /\ pc = "writing" => at \in 1..Len(Fields[call.op]) /\ piece \in 1..Pieces(TheField)

\* The pieces written so far lie in the field.
WrittenInv ==
    pc = "writing" =>
        \A i \in 1..4 * (piece - 1) : held[TheField][i] = Encode(TheField, TheValue)[i]

\* A settled field holds its value, padding included.
SettledInv ==
    \A f \in Field : \A v \in settled[f] : Fits(f, v) /\ held[f] = Encode(f, v)

\* The fields a call is done with are settled to its values; a call that
\* committed has them in effect.
DoneWith == IF pc = "writing" THEN {Fields[call.op][i] : i \in 1..(at - 1)} ELSE FieldsOf(call)
DoneInv ==
    /\ pc # "idle" \/ outcome = "ok" => \A f \in DoneWith : settled[f] = {call.values[f]}
    /\ pc = "idle" /\ outcome = "ok" /\ call.commit =>
         \A f \in FieldsOf(call) : applied[f] = held[f]

\* An ocpp command writes what it worked out from plain texts, and an id.
RequestInv ==
    (pc # "idle" \/ outcome = "ok") /\ request # None =>
        /\ request.host # None
        /\ call = [op |-> "ocpp", values |-> WantedOcpp(current, request), commit |-> TRUE]
        /\ Plain(current.path) /\ Plain(current.id) /\ call.values.id # <<>>

IInv == TypeOK /\ CallInv /\ WrittenInv /\ SettledInv /\ DoneInv /\ RequestInv

LEMMA FieldsDistinct ==
    ASSUME NEW o \in Setter
    PROVE  /\ Len(Fields[o]) \in Nat
           /\ \A i \in 1..Len(Fields[o]) : Fields[o][i] \in Field
           /\ \A i, j \in 1..Len(Fields[o]) : Fields[o][i] = Fields[o][j] => i = j
           /\ Fields[o] # <<>> => 1 \in 1..Len(Fields[o])
  <1> USE DEF Fields, Field, TextField, NumberField
  <1>1. CASE o = "wifi"
    BY <1>1
  <1>2. CASE o = "ocpp"
    BY <1>2
  <1>3. CASE o = "clock"
    BY <1>3
  <1>4. CASE o \in {"zone", "delay", "internet"}
    BY <1>4
  <1>5. CASE o = "commit"
    BY <1>5
  <1> QED BY <1>1, <1>2, <1>3, <1>4, <1>5 DEF Setter

LEMMA FieldsOfIs ==
    ASSUME NEW c, IsCall(c)
    PROVE  /\ c.op \in Setter
           /\ FieldsOf(c) = {Fields[c.op][i] : i \in 1..Len(Fields[c.op])}
           /\ FieldsOf(c) \subseteq Field
  <1>1. c.op \in Setter
    BY DEF IsCall
  <1>2. DOMAIN Fields[c.op] = 1..Len(Fields[c.op])
    BY <1>1, SMT DEF Setter, Fields
  <1> QED BY <1>1, <1>2, FieldsDistinct DEF FieldsOf

\* The field being written, and what it gets.
LEMMA TheFieldFits ==
    ASSUME TypeOK, CallInv, pc = "writing"
    PROVE  /\ TheField \in Field /\ TheField \in FieldsOf(call)
           /\ TheValue \in Value(TheField) /\ Fits(TheField, TheValue)
           /\ Encode(TheField, TheValue) \in Raw(TheField)
  <1>1. Accepted(call) /\ at \in 1..Len(Fields[call.op])
    BY DEF CallInv
  <1>2. TheField \in FieldsOf(call)
    BY <1>1, FieldsOfIs DEF TheField, Accepted
  <1>3. TheField \in Field /\ Fits(TheField, TheValue)
    BY <1>1, <1>2, AcceptedFits DEF Accepted, TheValue
  <1>4. TheValue \in Value(TheField)
    BY <1>1, <1>2 DEF Accepted, IsCall, TheValue
  <1> QED BY <1>2, <1>3, <1>4, EncodeFits

\* A frame that lands takes its field four bytes further.
LEMMA LandsIs ==
    ASSUME TypeOK, CallInv, WrittenInv, pc = "writing", Lands
    PROVE  /\ IsMemory(held') /\ applied' = applied
           /\ \A i \in 1..4 * piece : held'[TheField][i] = Encode(TheField, TheValue)[i]
           /\ LastPiece => held'[TheField] = Encode(TheField, TheValue)
           /\ \A g \in Field \ {TheField} : held'[g] = held[g] /\ settled'[g] = settled[g]
           /\ settled'[TheField] = IF LastPiece THEN {TheValue} ELSE {}
           /\ DOMAIN settled' = Field
  <1> DEFINE f == TheField
             e == Encode(f, TheValue)
             n == Pieces(f)
             new == [i \in DOMAIN held[f] |-> IF (i - 1) \div 4 = piece - 1
                                  THEN PieceOf(e, piece)[((i - 1) % 4) + 1] ELSE held[f][i]]
             now == IF LastPiece THEN {TheValue} ELSE {}
  <1>1. f \in Field /\ e \in Raw(f) /\ held[f] \in Raw(f) /\ DOMAIN held = Field
        /\ DOMAIN settled = Field /\ \A g \in Field : held[g] \in Raw(g)
    BY TheFieldFits DEF TypeOK, IsMemory
  <1>2. n \in Nat /\ n >= 1 /\ piece \in 1..n
    BY <1>1, PiecesType DEF CallInv
  <1>3. /\ held' = [held EXCEPT ![f] = new] /\ applied' = applied
        /\ settled' = [settled EXCEPT ![f] = now]
    BY DEF Lands
  <1>4. Raw(f) = [1..4 * n -> Byte]
    BY DEF Raw
  <1>5. \A i \in 1..4 * (piece - 1) : held[f][i] = e[i]
    BY DEF WrittenInv
  <1>6. /\ held'[f] = new /\ DOMAIN held' = Field /\ DOMAIN settled' = Field
        /\ settled'[f] = now
        /\ \A g \in Field \ {f} : held'[g] = held[g] /\ settled'[g] = settled[g]
    <2> HIDE DEF f, new, now
    <2> QED BY <1>1, <1>3
  <1>7. LastPiece <=> piece = n
    BY DEF LastPiece, FramesOf
  <1> HIDE DEF f, e, n
  <1>8. ASSUME NEW i \in 1..4 * n
        PROVE  new[i] = IF (i - 1) \div 4 = piece - 1 THEN e[i] ELSE held[f][i]
    <2>1. new[i] = IF (i - 1) \div 4 = piece - 1
                   THEN PieceOf(e, piece)[((i - 1) % 4) + 1] ELSE held[f][i]
      BY <1>1, <1>4
    <2>2. CASE (i - 1) \div 4 = piece - 1
      <3>1. ((i - 1) % 4) + 1 \in 1..4 /\ 4 * (piece - 1) + ((i - 1) % 4) + 1 = i
        BY <1>2, <2>2
      <3>2. PieceOf(e, piece)[((i - 1) % 4) + 1] = e[4 * (piece - 1) + (((i - 1) % 4) + 1)]
        BY <3>1 DEF PieceOf
      <3>3. 4 * (piece - 1) + (((i - 1) % 4) + 1) = i
        BY <1>2, <3>1
      <3> QED BY <2>1, <2>2, <3>2, <3>3
    <2> QED BY <2>1, <2>2
  <1>9. new \in Raw(f)
    <2>1. new = [i \in 1..4 * n |-> new[i]]
      BY <1>1, <1>4
    <2>2. \A i \in 1..4 * n : new[i] \in Byte
      <3> HIDE DEF new
      <3> QED BY <1>1, <1>4, <1>8
    <2> HIDE DEF new
    <2> QED BY <1>4, <2>1, <2>2
  <1> HIDE DEF new
  <1>10. ASSUME NEW i \in 1..4 * piece PROVE new[i] = e[i]
    <2>1. i \in 1..4 * n
      BY <1>2
    <2>2. (i - 1) \div 4 = piece - 1 \/ i \in 1..4 * (piece - 1)
      BY <1>2
    <2> QED BY <1>5, <1>8, <2>1, <2>2
  <1>11. piece = n => new = e
    <2>1. e = [i \in 1..4 * n |-> e[i]] /\ new = [i \in 1..4 * n |-> new[i]]
      BY <1>1, <1>4, <1>9
    <2> QED BY <1>10, <2>1
  <1>12. IsMemory(held')
    <2>1. ASSUME NEW g \in Field PROVE held'[g] \in Raw(g)
      <3>1. g # f => held'[g] = held[g] /\ held[g] \in Raw(g)
        BY <1>1, <1>6
      <3> QED BY <1>6, <1>9, <3>1
    <2> QED BY <1>6, <2>1 DEF IsMemory
  <1>13. (LastPiece => held'[f] = e) /\ \A i \in 1..4 * piece : held'[f][i] = e[i]
    BY <1>6, <1>7, <1>10, <1>11
  <1> QED BY <1>3, <1>6, <1>12, <1>13 DEF f, e

\* Whether it is the last of a field or not, what is settled stays so.
LEMMA LandsKeeps ==
    ASSUME IInv, pc = "writing", Lands
    PROVE  /\ IsMemory(held') /\ IsMemory(applied')
           /\ DOMAIN settled' = Field /\ \A f \in Field : settled'[f] \subseteq Value(f)
           /\ SettledInv'
  <1>1. /\ TheField \in Field /\ TheValue \in Value(TheField) /\ Fits(TheField, TheValue)
        /\ IsMemory(applied) /\ \A f \in Field : settled[f] \subseteq Value(f)
    BY TheFieldFits DEF IInv, TypeOK
  <1>2. /\ IsMemory(held') /\ applied' = applied
        /\ LastPiece => held'[TheField] = Encode(TheField, TheValue)
        /\ \A g \in Field \ {TheField} : held'[g] = held[g] /\ settled'[g] = settled[g]
        /\ settled'[TheField] = IF LastPiece THEN {TheValue} ELSE {}
        /\ DOMAIN settled' = Field
    BY LandsIs DEF IInv
  <1>3. ASSUME NEW f \in Field, NEW v \in settled'[f]
        PROVE  Fits(f, v) /\ held'[f] = Encode(f, v) /\ v \in Value(f)
    <2>1. CASE f = TheField
      BY <1>1, <1>2, <1>3, <2>1
    <2>2. CASE f # TheField
      BY <1>1, <1>2, <1>3, <2>2 DEF IInv, SettledInv
    <2> QED BY <2>1, <2>2
  <1> QED BY <1>1, <1>2, <1>3 DEF SettledInv

-----------------------------------------------------------------------------
(* Every step keeps the invariant *)

LEMMA InitInv == Init => IInv
  <1> SUFFICES ASSUME Init PROVE IInv
    OBVIOUS
  <1>1. held \in Preset /\ applied = held /\ settled = [f \in Field |-> {}] /\ IsMemory(held)
    BY ArgumentsAssumption DEF Init
  <1>2. \A f \in Field : settled[f] = {}
    BY <1>1
  <1>3. TypeOK
    BY <1>1, <1>2, LimitsAssumption DEF TypeOK, Init
  <1>4. SettledInv
    BY <1>2 DEF SettledInv
  <1>5. CallInv /\ WrittenInv /\ DoneInv /\ RequestInv
    BY DEF CallInv, WrittenInv, DoneInv, RequestInv, Init
  <1> QED BY <1>3, <1>4, <1>5 DEF IInv

\* A call that starts has nothing written yet.
LEMMA StartsKeeps ==
    ASSUME NEW c, IsCall(c), Starts(c)
    PROVE  /\ CallInv' /\ WrittenInv' /\ DoneInv' /\ IsCall(call')
           /\ at' = 1 /\ piece' = 1 /\ call' = c
           /\ pc' \in {"idle", "writing", "committing"}
           /\ outcome' \in {"none", "value", "protocol"}
  <1>1. call' = c /\ at' = 1 /\ piece' = 1 /\ c.op \in Setter
    BY FieldsOfIs DEF Starts
  <1>2. \/ pc' = "idle" /\ outcome' \in {"value", "protocol"}
        \/ /\ pc' = "committing" /\ outcome' = "none"
           /\ Fields[c.op] = <<>> /\ Accepted(c)
        \/ /\ pc' = "writing" /\ outcome' = "none"
           /\ Fields[c.op] # <<>> /\ Accepted(c)
    BY DEF Starts, Accepted
  <1>3. CASE pc' = "idle" /\ outcome' \in {"value", "protocol"}
    BY <1>1, <1>3 DEF CallInv, WrittenInv, DoneInv
  <1>4. CASE pc' = "committing" /\ outcome' = "none" /\ Fields[c.op] = <<>> /\ Accepted(c)
    <2>1. FieldsOf(c) = {}
      BY <1>4 DEF FieldsOf
    <2>2. DoneWith' = {}
      BY <1>1, <1>4, <2>1 DEF DoneWith
    <2> QED BY <1>1, <1>4, <2>2 DEF CallInv, WrittenInv, DoneInv
  <1>5. CASE pc' = "writing" /\ outcome' = "none" /\ Fields[c.op] # <<>> /\ Accepted(c)
    <2>1. TheField' = Fields[c.op][1] /\ TheField' \in Field /\ 1 \in 1..Len(Fields[c.op])
      BY <1>1, <1>5, FieldsDistinct DEF TheField
    <2>2. 1 \in 1..Pieces(TheField')
      BY <2>1, PiecesType
    <2>3. DoneWith' = {}
      BY <1>1, <1>5 DEF DoneWith
    <2>4. CallInv'
      BY <1>1, <1>5, <2>1, <2>2 DEF CallInv
    <2>5. WrittenInv'
      BY <1>1 DEF WrittenInv
    <2> QED BY <1>1, <1>5, <2>3, <2>4, <2>5 DEF DoneInv
  <1> QED BY <1>2, <1>3, <1>4, <1>5

LEMMA BeginKeeps ==
    ASSUME IInv, NEW c \in Offered, Begin(c)
    PROVE  IInv'
  <1>1. IsCall(c) /\ Starts(c) /\ request' = None /\ current' = None
        /\ held' = held /\ applied' = applied /\ settled' = settled
        /\ calls < MaxCalls /\ calls' = calls + 1
    BY ArgumentsAssumption DEF Begin, charger
  <1>2. /\ CallInv' /\ WrittenInv' /\ DoneInv' /\ IsCall(call')
        /\ at' = 1 /\ piece' = 1
        /\ pc' \in {"idle", "writing", "committing"}
        /\ outcome' \in {"none", "value", "protocol"}
    BY <1>1, StartsKeeps
  <1>3. calls' \in 0..MaxCalls
    BY <1>1, LimitsAssumption DEF IInv, TypeOK
  <1>4. TypeOK'
    BY <1>1, <1>2, <1>3 DEF IInv, TypeOK
  <1>5. SettledInv'
    BY <1>1 DEF IInv, SettledInv
  <1>6. RequestInv'
    BY <1>1 DEF RequestInv
  <1> QED BY <1>2, <1>4, <1>5, <1>6 DEF IInv

LEMMA OcppCommandKeeps ==
    ASSUME IInv, NEW a \in Requests, OcppCommand(a)
    PROVE  IInv'
  <1>1. /\ IsRequest(a) /\ request' = a /\ pc = "idle"
        /\ held' = held /\ applied' = applied /\ settled' = settled
        /\ calls < MaxCalls /\ calls' = calls + 1
    BY ArgumentsAssumption DEF OcppCommand, charger
  <1>2. PICK shown \in {held, applied} :
          LET cur == ReadOcpp(shown)
              wanted == WantedOcpp(cur, a)
          IN  /\ current' = cur
              /\ \/ /\ outcome' \in {"shown", "exit", "unchanged"}
                    /\ UNCHANGED <<pc, call, at, piece>>
                 \/ /\ a.host # None /\ wanted.id # <<>>
                    /\ Starts([op |-> "ocpp", values |-> wanted, commit |-> TRUE])
    BY DEF OcppCommand
  <1> DEFINE cur == ReadOcpp(shown)
             wanted == WantedOcpp(cur, a)
             c == [op |-> "ocpp", values |-> wanted, commit |-> TRUE]
  <1>3. IsMemory(shown)
    BY DEF IInv, TypeOK
  <1>4. /\ cur.host \in Text /\ cur.port \in Int /\ cur.path \in Text /\ cur.id \in Text
        /\ Plain(cur.path) /\ Plain(cur.id)
    BY <1>3, ReadsAreSettings
  <1>5. current' = cur /\ IsRequest(current')
    BY <1>2, <1>4 DEF IsRequest
  <1>6. calls' \in 0..MaxCalls
    BY <1>1, LimitsAssumption DEF IInv, TypeOK
  <1>7. SettledInv'
    BY <1>1 DEF IInv, SettledInv
  <1>8. CASE outcome' \in {"shown", "exit", "unchanged"} /\ UNCHANGED <<pc, call, at, piece>>
    <2>1. pc' = "idle"
      BY <1>1, <1>8
    <2>2. TypeOK'
      BY <1>1, <1>5, <1>6, <1>8 DEF IInv, TypeOK
    <2>3. CallInv' /\ WrittenInv' /\ DoneInv' /\ RequestInv'
      BY <1>8, <2>1 DEF CallInv, WrittenInv, DoneInv, RequestInv
    <2> QED BY <1>7, <2>2, <2>3 DEF IInv
  <1>9. CASE a.host # None /\ wanted.id # <<>> /\ Starts(c)
    <2>1. IsCall(c)
      BY <1>1, <1>3, <1>9, WantedIsCall
    <2>2. /\ CallInv' /\ WrittenInv' /\ DoneInv' /\ IsCall(call')
          /\ at' = 1 /\ piece' = 1 /\ call' = c
          /\ pc' \in {"idle", "writing", "committing"}
          /\ outcome' \in {"none", "value", "protocol"}
      BY <1>9, <2>1, StartsKeeps
    <2>3. TypeOK'
      BY <1>1, <1>5, <1>6, <2>2 DEF IInv, TypeOK
    <2>4. RequestInv'
      <3>1. call'.values.id # <<>>
        BY <1>9, <2>2
      <3>2. call' = [op |-> "ocpp", values |-> WantedOcpp(current', request'), commit |-> TRUE]
        BY <1>1, <1>5, <2>2
      <3> QED BY <1>1, <1>4, <1>5, <1>9, <3>1, <3>2 DEF RequestInv
    <2> QED BY <1>7, <2>2, <2>3, <2>4 DEF IInv
  <1> QED BY <1>2, <1>8, <1>9

LEMMA ReadFailsKeeps ==
    ASSUME IInv, NEW a \in Requests, OcppReadFails(a)
    PROVE  IInv'
  <1>1. /\ request' = a /\ current' = None /\ outcome' = "error" /\ pc = "idle"
        /\ UNCHANGED <<pc, call, at, piece, held, applied, settled>>
        /\ calls < MaxCalls /\ calls' = calls + 1
    BY DEF OcppReadFails, charger
  <1>2. calls' \in 0..MaxCalls
    BY <1>1, LimitsAssumption DEF IInv, TypeOK
  <1>3. TypeOK'
    BY <1>1, <1>2 DEF IInv, TypeOK
  <1>4. SettledInv'
    BY <1>1 DEF IInv, SettledInv
  <1>5. CallInv' /\ WrittenInv' /\ DoneInv' /\ RequestInv'
    BY <1>1 DEF CallInv, WrittenInv, DoneInv, RequestInv
  <1> QED BY <1>3, <1>4, <1>5 DEF IInv

LEMMA FrameWrittenKeeps ==
    ASSUME IInv, FrameWritten
    PROVE  IInv'
  <1> DEFINE f == TheField
             n == Len(Fields[call.op])
  <1>1. pc = "writing" /\ Lands /\ UNCHANGED <<call, request, current, calls>>
    BY DEF FrameWritten
  <1>2. /\ IsMemory(held') /\ IsMemory(applied')
        /\ DOMAIN settled' = Field /\ \A g \in Field : settled'[g] \subseteq Value(g)
        /\ SettledInv'
    BY <1>1, LandsKeeps
  <1>3. /\ Accepted(call) /\ at \in 1..n /\ piece \in 1..Pieces(f)
        /\ call.op \in Setter /\ n \in Nat /\ f = Fields[call.op][at]
    BY <1>1, FieldsOfIs DEF IInv, CallInv, Accepted, TheField
  <1>4. /\ f \in Field /\ Pieces(f) \in Nat
        /\ TheValue = call.values[f]
    BY <1>1, TheFieldFits, PiecesType DEF IInv, TheValue
  <1>5. /\ \A i \in 1..4 * piece : held'[f][i] = Encode(f, TheValue)[i]
        /\ \A g \in Field \ {f} : settled'[g] = settled[g]
        /\ LastPiece => settled'[f] = {TheValue}
    BY <1>1, LandsIs DEF IInv
  <1>6. \A i \in 1..(at - 1) : settled'[Fields[call.op][i]] = {call.values[Fields[call.op][i]]}
    <2> SUFFICES ASSUME NEW i \in 1..(at - 1)
                 PROVE  settled'[Fields[call.op][i]] = {call.values[Fields[call.op][i]]}
      OBVIOUS
    <2>1. i \in 1..n /\ at \in 1..n /\ i # at
      BY <1>3
    <2>2. Fields[call.op][i] \in Field \ {f}
      BY <1>3, <2>1, FieldsDistinct
    <2>3. settled[Fields[call.op][i]] = {call.values[Fields[call.op][i]]}
      BY <1>1 DEF IInv, DoneInv, DoneWith
    <2> QED BY <1>5, <2>2, <2>3
  <1>7. LastPiece <=> piece = Pieces(f)
    BY DEF LastPiece, FramesOf
  <1>8. TypeOK /\ RequestInv
    BY DEF IInv
  <1>9. CASE ~LastPiece
    <2>1. piece' = piece + 1 /\ UNCHANGED <<pc, at, outcome>>
      BY <1>9 DEF FrameWritten
    <2>2. TheField' = f /\ TheValue' = TheValue
      BY <1>1, <2>1 DEF TheField, TheValue
    <2>3. piece + 1 \in 1..Pieces(f) /\ piece + 1 \in Nat \ {0} /\ (piece + 1) - 1 = piece
      BY <1>3, <1>4, <1>7, <1>9
    <2>4. TypeOK'
      BY <1>1, <1>2, <1>8, <2>1, <2>3 DEF TypeOK
    <2>5. CallInv'
      BY <1>1, <1>3, <2>1, <2>2, <2>3 DEF CallInv
    <2>6. WrittenInv'
      BY <1>5, <2>1, <2>2, <2>3 DEF WrittenInv
    <2>7. DoneInv'
      BY <1>1, <1>6, <2>1 DEF DoneInv, DoneWith
    <2>8. RequestInv'
      BY <1>1, <1>8, <2>1 DEF RequestInv
    <2> QED BY <1>2, <2>4, <2>5, <2>6, <2>7, <2>8 DEF IInv
  <1>10. \A i \in 1..at :
           LastPiece => settled'[Fields[call.op][i]] = {call.values[Fields[call.op][i]]}
    <2> SUFFICES ASSUME LastPiece, NEW i \in 1..at
                 PROVE  settled'[Fields[call.op][i]] = {call.values[Fields[call.op][i]]}
      OBVIOUS
    <2>1. i = at \/ i \in 1..(at - 1)
      BY <1>3
    <2> QED BY <1>3, <1>4, <1>5, <1>6, <2>1
  <1>11. CASE LastPiece /\ at < n
    <2>1. at' = at + 1 /\ piece' = 1 /\ UNCHANGED <<pc, outcome>>
      BY <1>11 DEF FrameWritten
    <2>2. at + 1 \in 1..n /\ at + 1 \in Nat \ {0} /\ (at + 1) - 1 = at
      BY <1>3, <1>11
    <2>3. TheField' \in Field /\ 1 \in 1..Pieces(TheField')
      <3>1. TheField' \in Field
        BY <1>1, <1>3, <2>1, <2>2, FieldsDistinct DEF TheField
      <3> QED BY <3>1, PiecesType
    <2>4. TypeOK'
      BY <1>1, <1>2, <1>8, <2>1, <2>2 DEF TypeOK
    <2>5. CallInv'
      BY <1>1, <1>3, <2>1, <2>2, <2>3 DEF CallInv
    <2>6. WrittenInv'
      BY <2>1 DEF WrittenInv
    <2>7. DoneInv'
      BY <1>1, <1>10, <1>11, <2>1, <2>2 DEF DoneInv, DoneWith
    <2>8. RequestInv'
      BY <1>1, <1>8, <2>1 DEF RequestInv
    <2> QED BY <1>2, <2>4, <2>5, <2>6, <2>7, <2>8 DEF IInv
  <1>12. CASE LastPiece /\ ~(at < n)
    <2>1. /\ UNCHANGED <<at, piece>>
          /\ \/ pc' = "committing" /\ UNCHANGED outcome
             \/ pc' = "idle" /\ outcome' = "ok" /\ ~call.commit
      BY <1>12 DEF FrameWritten, CommitIf
    <2>2. at = n
      BY <1>3, <1>12
    <2>3. DoneWith' = {Fields[call.op][i] : i \in 1..n}
      BY <1>1, <1>3, <2>1, FieldsOfIs DEF DoneWith, Accepted
    <2>4. TypeOK'
      BY <1>1, <1>2, <1>8, <2>1 DEF TypeOK
    <2>5. CallInv'
      BY <1>1, <1>3, <2>1 DEF CallInv
    <2>6. WrittenInv'
      BY <2>1 DEF WrittenInv
    <2>7. DoneInv'
      BY <1>1, <1>10, <1>12, <2>1, <2>2, <2>3 DEF DoneInv
    <2>8. RequestInv'
      BY <1>1, <1>8 DEF RequestInv
    <2> QED BY <1>2, <2>4, <2>5, <2>6, <2>7, <2>8 DEF IInv
  <1> QED BY <1>9, <1>11, <1>12

LEMMA CommittedKeeps ==
    ASSUME IInv, Committed
    PROVE  IInv'
  <1>1. /\ pc = "committing" /\ pc' = "idle" /\ outcome' = "ok"
        /\ applied' = held /\ held' = held /\ settled' = settled
        /\ UNCHANGED <<call, request, current, at, piece, calls>>
    BY DEF Committed, CommitLands
  <1>2. TypeOK'
    BY <1>1 DEF IInv, TypeOK
  <1>3. CallInv' /\ WrittenInv' /\ SettledInv' /\ RequestInv'
    BY <1>1 DEF IInv, CallInv, WrittenInv, SettledInv, RequestInv
  <1>4. DoneInv'
    BY <1>1 DEF IInv, DoneInv, DoneWith
  <1> QED BY <1>2, <1>3, <1>4 DEF IInv

LEMMA FrameFailsKeeps ==
    ASSUME IInv, FrameFails
    PROVE  IInv'
  <1>1. pc' = "idle" /\ outcome' = "error"
        /\ UNCHANGED <<call, request, current, at, piece, calls>>
    BY DEF FrameFails
  <1>2. /\ IsMemory(held') /\ IsMemory(applied')
        /\ DOMAIN settled' = Field /\ \A f \in Field : settled'[f] \subseteq Value(f)
        /\ SettledInv'
    <2>1. CASE pc = "writing" /\ Lands
      BY <2>1, LandsKeeps
    <2>2. CASE CommitLands
      BY <2>2 DEF CommitLands, IInv, TypeOK, SettledInv
    <2>3. CASE UNCHANGED charger
      BY <2>3 DEF charger, IInv, TypeOK, SettledInv
    <2> QED BY <2>1, <2>2, <2>3 DEF FrameFails
  <1>3. TypeOK'
    BY <1>1, <1>2 DEF IInv, TypeOK
  <1>4. CallInv' /\ WrittenInv' /\ DoneInv' /\ RequestInv'
    BY <1>1 DEF CallInv, WrittenInv, DoneInv, RequestInv
  <1> QED BY <1>2, <1>3, <1>4 DEF IInv

LEMMA Invariance == Spec => []IInv
  <1>1. IInv /\ [Next]_vars => IInv'
    <2> SUFFICES ASSUME IInv, [Next]_vars PROVE IInv'
      OBVIOUS
    <2>1. CASE Next
      BY <2>1, BeginKeeps, OcppCommandKeeps, ReadFailsKeeps, FrameWrittenKeeps,
         CommittedKeeps, FrameFailsKeeps DEF Next
    <2>2. CASE UNCHANGED vars
      BY <2>2 DEF vars, IInv, TypeOK, CallInv, WrittenInv, SettledInv, DoneInv, DoneWith,
                  RequestInv, TheField, TheValue
    <2> QED BY <2>1, <2>2
  <1> QED BY <1>1, InitInv, PTL DEF Spec

-----------------------------------------------------------------------------
(* What the setters and the command promise *)

\* The state stays typed: the charger's fields keep their widths and bytes
\* whatever is written to them, and no call under way is outside its rules.
THEOREM TypeCorrect == Spec => []TypeOK
  <1>1. IInv => TypeOK
    BY DEF IInv
  <1> QED BY <1>1, Invariance, PTL

\* A field whose frames were all written reads back as the value.
THEOREM WrittenReadsBack == Spec => []ReadsBack
  <1>1. IInv => ReadsBack
    <2> SUFFICES ASSUME IInv, NEW f \in Field, NEW v \in settled[f], Readable(f, v)
                 PROVE  Decode(f, held[f]) = v
      BY DEF ReadsBack
    <2>1. Fits(f, v) /\ held[f] = Encode(f, v)
      BY DEF IInv, SettledInv
    <2> QED BY <2>1, EncodeFits
  <1> QED BY <1>1, Invariance, PTL

\* What a call that committed has in effect.
LEMMA DoneInEffect ==
    ASSUME IInv, pc = "idle", outcome = "ok", call.commit,
           NEW f \in FieldsOf(call), Readable(f, call.values[f])
    PROVE  /\ Decode(f, applied[f]) = call.values[f]
           /\ Decode(f, held[f]) = call.values[f]
  <1>1. settled[f] = {call.values[f]} /\ applied[f] = held[f] /\ f \in Field
    BY FieldsOfIs DEF IInv, DoneInv, DoneWith, CallInv, Accepted
  <1>2. Fits(f, call.values[f]) /\ held[f] = Encode(f, call.values[f])
    BY <1>1 DEF IInv, SettledInv
  <1> QED BY <1>1, <1>2, EncodeFits

\* A setter that was told to commit and returns has all its fields in effect
\* as they were given.
THEOREM ReturnMeansInEffect == Spec => []OkMeansInEffect
  <1>1. IInv => OkMeansInEffect
    <2> SUFFICES ASSUME IInv, pc = "idle", outcome = "ok", call.commit,
                        NEW f \in FieldsOf(call), Readable(f, call.values[f])
                 PROVE  Decode(f, applied[f]) = call.values[f]
      BY DEF OkMeansInEffect
    <2> QED BY DoneInEffect
  <1> QED BY <1>1, Invariance, PTL

\* The four settings after a command that was carried out, read either way.
LEMMA CommandInEffect ==
    ASSUME IInv, pc = "idle", outcome = "ok", request # None, NEW m \in {held, applied}
    PROVE  LET now == ReadOcpp(m)  w == WantedOcpp(current, request) IN
           /\ IsMemory(m) /\ IsRequest(request) /\ request.host # None /\ w.id # <<>>
           /\ Plain(current.path) /\ Plain(current.id)
           /\ now.port = w.port
           /\ Plain(w.host) => now.host = w.host
           /\ Plain(w.path) => now.path = w.path
           /\ Plain(w.id) => now.id = w.id
  <1> DEFINE now == ReadOcpp(m)
             w == WantedOcpp(current, request)
  <1>1. /\ call = [op |-> "ocpp", values |-> w, commit |-> TRUE]
        /\ request.host # None /\ call.values.id # <<>>
        /\ Plain(current.path) /\ Plain(current.id)
    BY DEF IInv, RequestInv
  <1>2. IsMemory(m) /\ IsRequest(request)
    BY ArgumentsAssumption DEF IInv, TypeOK
  <1> HIDE DEF w
  <1>3. call.commit /\ call.op = "ocpp" /\ call.values = w
    BY <1>1
  <1>4. FieldsOf(call) = {"host", "port", "path", "id"}
    BY <1>3 DEF FieldsOf, Fields
  <1>5. \A f \in {"host", "port", "path", "id"} :
          Readable(f, w[f]) => Decode(f, m[f]) = w[f]
    BY <1>3, <1>4, DoneInEffect
  <1>6. /\ Decode("host", m["host"]) = now.host /\ Decode("port", m["port"]) = now.port
        /\ Decode("path", m["path"]) = now.path /\ Decode("id", m["id"]) = now.id
    <2>1. /\ {"host", "path", "id"} \subseteq TextField \cap Field
          /\ "port" \in NumberField \cap Field
      BY DEF Field, TextField, NumberField
    <2> QED BY <2>1, DecodeCases DEF ReadOcpp
  <1>7. /\ w["host"] = w.host /\ w["port"] = w.port /\ w["path"] = w.path /\ w["id"] = w.id
    OBVIOUS
  <1>8. Readable("port", w.port)
    BY DEF Readable, TextField
  <1>9. /\ Plain(w.host) => Readable("host", w.host)
        /\ Plain(w.path) => Readable("path", w.path)
        /\ Plain(w.id) => Readable("id", w.id)
    BY DEF Readable
  <1> HIDE DEF now
  <1>10. /\ now.port = w.port
         /\ Plain(w.host) => now.host = w.host
         /\ Plain(w.path) => now.path = w.path
         /\ Plain(w.id) => now.id = w.id
    BY <1>5, <1>6, <1>7, <1>8, <1>9
  <1>11. w.id # <<>>
    BY <1>1, <1>3
  <1> QED BY <1>1, <1>2, <1>10, <1>11 DEF now, w

LEMMA DefaultIsPlain == Plain(DEFAULT_OCPP_PATH) /\ DEFAULT_OCPP_PATH # <<>>
  BY DEF Plain, Whole, DEFAULT_OCPP_PATH, Blank, Nul

\* The ocpp command that reports settings written has done as it was asked.
THEOREM CommandKeepsItsWord == Spec => []CommandDoesAsAsked
  <1>1. ASSUME IInv, pc = "idle", outcome = "ok", request # None
        PROVE  CommandDoesAsAsked
    <2> DEFINE now == ReadOcpp(applied)
               w == WantedOcpp(current, request)
               h == Stripped(request.host)
    <2>1. /\ IsRequest(request) /\ request.host # None
          /\ Plain(current.path) /\ Plain(current.id)
          /\ now.port = w.port
          /\ Plain(w.host) => now.host = w.host
          /\ Plain(w.path) => now.path = w.path
          /\ Plain(w.id) => now.id = w.id
      BY <1>1, CommandInEffect
    <2>2. request.host \in Text
      BY <2>1 DEF IsRequest
    <2> HIDE DEF now
    <2>3. /\ w.host = ChargerHost(request.host)
          /\ w.port = IF request.port # None THEN request.port ELSE current.port
          /\ w.path = WantedPath(request.path, current.path)
          /\ w.id = WantedId(request.id, current.id)
      BY DEF WantedOcpp
    <2> HIDE DEF w
    <2>4. Whole(h) => now.host = IF h \in Address \/ Marked(h) THEN h ELSE DNS_PREFIX \o h
      <3>1. Whole(h) => now.host = ChargerHost(request.host)
        BY <2>1, <2>2, <2>3, HostIsPlain
      <3> QED BY <3>1 DEF ChargerHost, HostMarked
    <2>5. now.port = IF request.port = None THEN current.port ELSE request.port
      BY <2>1, <2>3
    <2>6. request.path = None => now.path = IF current.path = <<>> THEN DEFAULT_OCPP_PATH
                                            ELSE current.path
      BY <2>1, <2>3, DefaultIsPlain DEF WantedPath
    <2>7. request.path # None /\ Plain(request.path) => now.path = request.path
      BY <2>1, <2>3 DEF WantedPath
    <2>8. request.id \in {None, <<>>} => now.id = current.id
      BY <2>1, <2>3 DEF WantedId
    <2>9. request.id \notin {None, <<>>} /\ Plain(request.id) => now.id = request.id
      BY <2>1, <2>3 DEF WantedId
    <2> QED BY <2>4, <2>5, <2>6, <2>7, <2>8, <2>9 DEF CommandDoesAsAsked, now, h
  <1>2. IInv => CommandDoesAsAsked
    BY <1>1 DEF CommandDoesAsAsked
  <1> QED BY <1>2, Invariance, PTL

\* Given again, the command finds what it wrote and writes nothing: the charger
\* is not restarted for nothing.
THEOREM RepeatIsIdle == Spec => RepeatChangesNothing
  <1> DEFINE A == pc = "idle" /\ outcome = "ok" /\ request # None /\ request' = request
                    /\ calls' # calls /\ Whole(request.host)
                    /\ (request.path = None \/ Plain(request.path))
                    /\ (request.id = None \/ Plain(request.id))
                  => outcome' \in {"unchanged", "error"}
  <1>1. IInv /\ [Next]_vars => A
    <2> SUFFICES ASSUME IInv, [Next]_vars, pc = "idle", outcome = "ok", request # None,
                        request' = request, calls' # calls, Whole(request.host),
                        request.path = None \/ Plain(request.path),
                        request.id = None \/ Plain(request.id)
                 PROVE  outcome' \in {"unchanged", "error"}
      OBVIOUS
    <2>1. OcppCommand(request) \/ OcppReadFails(request)
      <3>1. Next
        BY DEF vars
      <3>2. ASSUME NEW c \in Offered, Begin(c) PROVE FALSE
        BY <3>2 DEF Begin
      <3>3. ASSUME NEW a \in Requests, OcppCommand(a) \/ OcppReadFails(a)
            PROVE  a = request
        BY <3>3 DEF OcppCommand, OcppReadFails
      <3>4. ~FrameWritten /\ ~Committed /\ ~FrameFails
        BY DEF FrameWritten, Committed, FrameFails
      <3> QED BY <3>1, <3>2, <3>3, <3>4 DEF Next
    <2>2. CASE OcppReadFails(request)
      BY <2>2 DEF OcppReadFails
    <2>3. CASE OcppCommand(request)
      <3>1. PICK shown \in {held, applied} :
              LET cur == ReadOcpp(shown)
                  wanted == WantedOcpp(cur, request)
              IN  (request.host # None /\ wanted.id # <<>> /\ wanted = cur)
                    => outcome' = "unchanged"
        BY <2>3 DEF OcppCommand
      <3> DEFINE now == ReadOcpp(shown)
                 w == WantedOcpp(current, request)
                 again == WantedOcpp(now, request)
      <3>2. /\ IsRequest(request) /\ request.host # None /\ w.id # <<>>
            /\ Plain(current.path) /\ Plain(current.id)
            /\ now.port = w.port
            /\ Plain(w.host) => now.host = w.host
            /\ Plain(w.path) => now.path = w.path
            /\ Plain(w.id) => now.id = w.id
        BY CommandInEffect
      <3>3. /\ w.host = ChargerHost(request.host)
            /\ w.port = IF request.port # None THEN request.port ELSE current.port
            /\ w.path = WantedPath(request.path, current.path)
            /\ w.id = WantedId(request.id, current.id)
        BY DEF WantedOcpp
      <3>4. now = [host |-> now.host, port |-> now.port, path |-> now.path, id |-> now.id]
        BY DEF ReadOcpp
      <3>5. again = [host |-> ChargerHost(request.host),
                     port |-> IF request.port # None THEN request.port ELSE now.port,
                     path |-> WantedPath(request.path, now.path),
                     id   |-> WantedId(request.id, now.id)]
        BY DEF WantedOcpp
      <3> HIDE DEF now, w, again
      <3>6. now.host = ChargerHost(request.host)
        <4>1. Plain(w.host)
          BY <3>2, <3>3, HostIsPlain DEF IsRequest
        <4> QED BY <3>2, <3>3, <4>1
      <3>7. now.port = IF request.port # None THEN request.port ELSE now.port
        BY <3>2, <3>3
      <3>8. now.path = WantedPath(request.path, now.path)
        <4>1. Plain(w.path) /\ (request.path = None => w.path # <<>>)
          BY <3>2, <3>3, DefaultIsPlain DEF WantedPath
        <4> QED BY <3>2, <3>3, <4>1 DEF WantedPath
      <3>9. now.id = WantedId(request.id, now.id) /\ now.id # <<>>
        <4>1. Plain(w.id)
          BY <3>2, <3>3 DEF WantedId
        <4> QED BY <3>2, <3>3, <4>1 DEF WantedId
      <3>10. again = now
        BY <3>4, <3>5, <3>6, <3>7, <3>8, <3>9
      <3>11. again.id # <<>>
        BY <3>9, <3>10
      <3> QED BY <3>1, <3>2, <3>10, <3>11 DEF now, again
    <2> QED BY <2>1, <2>2, <2>3
  <1>2. [][A]_vars <=> RepeatChangesNothing
    BY DEF RepeatChangesNothing
  <1> QED BY <1>1, <1>2, Invariance, PTL DEF Spec

-----------------------------------------------------------------------------
(* The setters implement Configuration *)

LEMMA IdleWritesNothing ==
    /\ pc # "writing" => DOMAIN ToWrite = {} /\ Unsettled = {}
    /\ pc # "writing" /\ pc' # "writing" => ToWrite' = ToWrite
    /\ pc' # "writing" => DOMAIN ToWrite' = {}
  BY DEF ToWrite, Unsettled

\* A call as it starts changes nothing in the charger, and opens a list at most.
LEMMA StartsConfigures ==
    ASSUME pc = "idle", NEW c, IsCall(c), Starts(c), UNCHANGED charger
    PROVE  [Promise!Next]_(Promise!vars)
  <1>1. /\ call' = c /\ at' = 1 /\ held' = held /\ applied' = applied
        /\ c.op \in Setter /\ pc' \in {"idle", "committing", "writing"}
        /\ pc' = "writing" => Fields[c.op] # <<>>
    BY FieldsOfIs DEF Starts, charger
  <1>2. CASE pc' # "writing"
    BY <1>1, <1>2, IdleWritesNothing DEF Promise!vars
  <1>3. CASE pc' = "writing"
    <2>1. Unsettled' = {Fields[c.op][i] : i \in 1..Len(Fields[c.op])}
      BY <1>1, <1>3 DEF Unsettled
    <2>2. Unsettled' \subseteq Field /\ Fields[c.op][1] \in Unsettled'
      BY <1>1, <1>3, <2>1, FieldsDistinct
    <2>3. DOMAIN ToWrite' = Unsettled'
      BY DEF ToWrite
    <2>4. DOMAIN ToWrite = {}
      BY IdleWritesNothing
    <2> QED BY <1>1, <2>2, <2>3, <2>4 DEF Promise!Next, Promise!Open
  <1> QED BY <1>2, <1>3

\* A frame that lands reaches the field at hand; the last fills it.
LEMMA LandsReaches ==
    ASSUME IInv, pc = "writing", Lands
    PROVE  /\ TheField \in Field /\ Promise!Reaches(TheField) /\ applied' = applied
           /\ ToWrite[TheField] = TheValue
           /\ LastPiece => held'[TheField] = Encode(TheField, TheValue)
  <1>1. /\ applied' = applied
        /\ LastPiece => held'[TheField] = Encode(TheField, TheValue)
        /\ \A g \in Field \ {TheField} : held'[g] = held[g]
    BY LandsIs DEF IInv
  <1>2. TheField \in Field
    BY TheFieldFits DEF IInv
  <1>3. TheField \in Unsettled
    <2>1. call.op \in Setter /\ at \in 1..Len(Fields[call.op])
      BY FieldsOfIs DEF IInv, CallInv, Accepted
    <2>2. at \in at..Len(Fields[call.op])
      BY <2>1, FieldsDistinct
    <2> QED BY <2>2 DEF Unsettled, TheField
  <1> QED BY <1>1, <1>2, <1>3 DEF Promise!Reaches, ToWrite, TheValue

LEMMA FrameWrittenConfigures ==
    ASSUME IInv, FrameWritten
    PROVE  [Promise!Next]_(Promise!vars)
  <1> DEFINE n == Len(Fields[call.op])
             F(i) == Fields[call.op][i]
  <1>1. pc = "writing" /\ Lands /\ call' = call
    BY DEF FrameWritten
  <1>2. /\ TheField \in Field /\ Promise!Reaches(TheField) /\ applied' = applied
        /\ ToWrite[TheField] = TheValue
        /\ LastPiece => held'[TheField] = Encode(TheField, TheValue)
    BY <1>1, LandsReaches
  <1>3. /\ call.op \in Setter /\ at \in 1..n /\ n \in Nat
        /\ \A i, j \in 1..n : F(i) = F(j) => i = j
    BY <1>1, FieldsOfIs, FieldsDistinct DEF IInv, CallInv, Accepted
  <1>4. TheField = F(at) /\ Unsettled = {F(i) : i \in at..n}
    BY <1>1 DEF TheField, Unsettled
  <1>5. CASE ~LastPiece
    <2>1. pc' = pc /\ at' = at
      BY <1>5 DEF FrameWritten
    <2>2. Unsettled' = Unsettled
      BY <1>1, <2>1 DEF Unsettled
    <2>3. ToWrite' = ToWrite
      BY <1>1, <2>2 DEF ToWrite
    <2> QED BY <1>2, <2>3 DEF Promise!Next, Promise!Touch
  <1>6. ASSUME LastPiece, Unsettled' = Unsettled \ {TheField}
        PROVE  [Promise!Next]_(Promise!vars)
    <2>1. DOMAIN ToWrite = Unsettled
      BY DEF ToWrite
    <2>2. ToWrite' = [f \in DOMAIN ToWrite \ {TheField} |-> ToWrite[f]]
      BY <1>1, <1>6, <2>1 DEF ToWrite
    <2> QED BY <1>2, <1>6, <2>2 DEF Promise!Next, Promise!Settle
  <1>7. CASE LastPiece /\ at < n
    <2>1. pc' = "writing" /\ at' = at + 1
      BY <1>1, <1>7 DEF FrameWritten
    <2>2. Unsettled' = {F(i) : i \in (at + 1)..n}
      BY <1>1, <2>1 DEF Unsettled
    <2>3. \A i \in at..n : i \in 1..n /\ (i = at \/ i \in (at + 1)..n)
      BY <1>3
    <2>4. \A i \in (at + 1)..n : i \in at..n /\ i \in 1..n /\ i # at
      BY <1>3
    <2> HIDE DEF F, n
    <2>5. Unsettled' = Unsettled \ {TheField}
      BY <1>3, <1>4, <2>2, <2>3, <2>4
    <2> QED BY <1>6, <1>7, <2>5
  <1>8. CASE LastPiece /\ ~(at < n)
    <2>1. pc' # "writing"
      BY <1>8 DEF FrameWritten
    <2>2. Unsettled' = {}
      BY <2>1 DEF Unsettled
    <2>3. \A i \in at..n : i = at
      BY <1>3, <1>8
    <2> HIDE DEF F, n
    <2>4. Unsettled \ {TheField} = {}
      BY <1>4, <2>3
    <2> QED BY <1>6, <1>8, <2>2, <2>4
  <1> QED BY <1>5, <1>7, <1>8

LEMMA FrameFailsConfigures ==
    ASSUME IInv, FrameFails
    PROVE  [Promise!Next]_(Promise!vars)
  <1>1. pc' # "writing" /\ DOMAIN ToWrite' = {}
    BY IdleWritesNothing DEF FrameFails
  <1>2. CASE pc = "writing" /\ Lands
    <2>1. TheField \in Field /\ Promise!Reaches(TheField) /\ applied' = applied
      BY <1>2, LandsReaches
    <2> QED BY <1>1, <2>1 DEF Promise!Next, Promise!GiveUp
  <1>3. CASE pc = "committing" /\ CommitLands
    BY <1>1, <1>3, IdleWritesNothing DEF Promise!Next, Promise!Commit, CommitLands
  <1>4. CASE UNCHANGED charger
    BY <1>1, <1>4 DEF Promise!Next, Promise!GiveUp, charger
  <1> QED BY <1>2, <1>3, <1>4 DEF FrameFails

\* The setters and the command implement the abstract configuration: the
\* fields named and no others, each filled with the encoding of its value.
THEOREM SettersConfigure == Spec => ConfiguresAsAsked
  <1>1. Init => Promise!Init
    BY IdleWritesNothing DEF Init, Promise!Init
  <1>2. IInv /\ [Next]_vars => [Promise!Next]_(Promise!vars)
    <2> SUFFICES ASSUME IInv, [Next]_vars PROVE [Promise!Next]_(Promise!vars)
      OBVIOUS
    <2>1. ASSUME NEW c \in Offered, Begin(c) PROVE [Promise!Next]_(Promise!vars)
      BY <2>1, StartsConfigures, ArgumentsAssumption DEF Begin
    <2>2. ASSUME NEW a \in Requests, OcppCommand(a) PROVE [Promise!Next]_(Promise!vars)
      <3>1. /\ pc = "idle" /\ UNCHANGED charger
            /\ \/ pc' = pc
               \/ /\ a.host # None
                  /\ \E shown \in {held, applied} :
                       Starts([op |-> "ocpp", values |-> WantedOcpp(ReadOcpp(shown), a),
                               commit |-> TRUE])
        BY <2>2 DEF OcppCommand
      <3>2. CASE pc' = pc
        BY <3>1, <3>2, IdleWritesNothing DEF Promise!vars, charger
      <3>3. CASE pc' # pc
        <4>1. PICK shown \in {held, applied} :
                Starts([op |-> "ocpp", values |-> WantedOcpp(ReadOcpp(shown), a),
                        commit |-> TRUE])
          BY <3>1, <3>3
        <4>2. IsCall([op |-> "ocpp", values |-> WantedOcpp(ReadOcpp(shown), a), commit |-> TRUE])
          BY <3>1, <3>3, ArgumentsAssumption, WantedIsCall DEF IInv, TypeOK
        <4> QED BY <3>1, <4>1, <4>2, StartsConfigures
      <3> QED BY <3>2, <3>3
    <2>3. ASSUME NEW a \in Requests, OcppReadFails(a) PROVE [Promise!Next]_(Promise!vars)
      BY <2>3, IdleWritesNothing DEF OcppReadFails, Promise!vars, charger
    <2>4. CASE Committed
      BY <2>4, IdleWritesNothing DEF Committed, CommitLands, Promise!Next, Promise!Commit
    <2>5. CASE UNCHANGED vars
      <3>1. Unsettled' = Unsettled /\ call' = call /\ held' = held /\ applied' = applied
        BY <2>5 DEF vars, Unsettled
      <3> QED BY <3>1 DEF ToWrite, Promise!vars
    <2> QED BY <2>1, <2>2, <2>3, <2>4, <2>5, FrameWrittenConfigures, FrameFailsConfigures DEF Next
  <1> QED BY <1>1, <1>2, Invariance, PTL DEF Spec, ConfiguresAsAsked, Promise!Spec
=============================================================================
