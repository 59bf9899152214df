----------------------------- MODULE MCSettings -----------------------------
(* Small values of the constants of Settings for TLC: arguments on both    *)
(* sides of each boundary, and one for each rule.                          *)
EXTENDS Settings

a == 97
b == 98
accent == 233
Long == <<a, b, a, b, a, b, a, b>>  \* as long as a WiFi field

Wifi(s, p, c) == [op |-> "wifi", values |-> [ssid |-> s, password |-> p], commit |-> c]
Ocpp(h, n, p, i, c) == [op |-> "ocpp", values |-> [host |-> h, port |-> n, path |-> p, id |-> i],
                        commit |-> c]
Zone(h, m, c) == [op |-> "zone", values |-> [zone |-> <<h, m>>], commit |-> c]
Clock(t, d) == [op |-> "clock", values |-> [time |-> t, date |-> d], commit |-> TRUE]
Delay(n) == [op |-> "delay", values |-> [delay |-> n], commit |-> TRUE]
Internet(n) == [op |-> "internet", values |-> [internet |-> n], commit |-> FALSE]
Commit == [op |-> "commit", values |-> <<>>, commit |-> TRUE]

WifiCalls == {Wifi(<<a>>, Long, TRUE), Wifi(Long, <<a, 32, b, a, b>>, FALSE),
              Wifi(<<>>, <<32, a>>, TRUE), Wifi(<<a, Nul, b>>, <<b>>, FALSE),
              Wifi(<<a>>, Long \o <<a>>, TRUE), Wifi(<<Quote>>, <<a>>, TRUE),
              Wifi(<<a>>, <<accent>>, TRUE)}
OcppCalls == {Ocpp(<<a>>, 65535, <<>>, <<b>>, TRUE), Ocpp(Long, 256, Long, Long, FALSE),
              Ocpp(<<>>, 80, <<a>>, <<a>>, TRUE), Ocpp(<<a>>, 65536, <<a>>, <<a>>, TRUE)}
NumberCalls == {Zone(23, 59, TRUE), Zone(5, 30, FALSE), Zone(24, 0, TRUE), Zone(-5, 0, TRUE),
                Clock(<<23, 59, 58>>, <<2155, 12, 31>>), Clock(<<0, 1, 2>>, <<1900, 1, 1>>),
                Clock(<<0, 0, 0>>, <<1899, 12, 31>>), Delay(0), Delay(1800), Delay(1801),
                Internet(0), Internet(1), Commit}
MCOffered == WifiCalls \cup OcppCalls \cup NumberCalls
WifiOnly == WifiCalls

Ask(h, n, p, i) == [host |-> h, port |-> n, path |-> p, id |-> i]
Ip == <<49, 48>>
MCAddress == {Ip}
MCRequests == {Ask(None, None, None, None), Ask(<<32, a, 32>>, None, None, None),
               Ask(Ip, 257, <<>>, None), Ask(DNS_PREFIX \o <<b>>, 80, <<a>>, Long),
               Ask(<<a, 8195>>, None, <<a, 32>>, <<>>)}
NoRequests == {}

\* Fresh from the factory: some settings, or no id and port.
Field0 == [f \in Field |-> [i \in 1..4 * Pieces(f) |-> Nul]]
MCPreset == {Field0,
             [Field0 EXCEPT !["host"] = Padded(<<a, 32>>, 4 * TextPieces),
                            !["port"] = PackUint(9000),
                            !["path"] = Padded(<<32, b>>, 4 * TextPieces),
                            !["id"] = Padded(Long, 4 * IdPieces)]}

-----------------------------------------------------------------------------
(* The lemmas of CodecProofs, evaluated on a few values. *)

Edges == {0, 1, 127, 128, 255, 256, 65535, 65536, 16777215}
Short == UNION {[1..n -> {Nul, 9, 32, a, 200}] : n \in 0..4}
IsPlain(v) == Plain(v) /\ Ascii(v)
Record(n, first, last) == [i \in 1..n |-> IF i = 1 THEN first ELSE IF i = n THEN last ELSE 5]

ASSUME NumbersChecked ==
    /\ \A v \in Edges : PackUint(v) \in Word /\ UnpackUint(PackUint(v)) = v
    /\ \A h \in 0..23, m \in 0..59 : TimezoneOf(Timezone(h, m)) = <<h, m>>
    /\ \A s \in {0, 59}, m \in {0, 59}, h \in 0..23 : TimeOf(ClockTime(h, m, s)) = <<h, m, s>>
    /\ \A y \in {1900, 2026, 2155}, m \in 1..12, d \in {1, 31} :
         DateOf(ClockDate(y, m, d)) = <<y, m, d>>

ASSUME TextsChecked ==
    /\ \A v \in Short : IsPlain(v) => DecodeString(Padded(v, 8)) = v
    /\ \A v \in Short : Plain(DecodeString(v))

ASSUME PayloadsChecked ==
    /\ \A n \in {8, 20, 26}, p \in {16, 124} : LET data == Record(n, p, 37) IN
         /\ ~(IsReply([data EXCEPT ![2] = 172]) /\ IsHistoryRecord(data))
         /\ IsHistoryRecord(data) <=> n # 8 /\ p = 124
    /\ IsSession([i \in 1..26 |-> CASE i = 1 -> 124 [] i = 26 -> 37
                                    [] i \in {8, 18} -> 2 [] OTHER -> 28 % (i + 20)]) \in BOOLEAN
    /\ DaysIn(2000, 2) = 29 /\ DaysIn(1900, 2) = 28 /\ DaysIn(2155, 12) = 31

ASSUME CommandsChecked ==
    /\ \A c, d \in DOMAIN Command, p, q \in Edges :
         LET sent == BuildControl(c, p)
             other == BuildControl(d, q)
         IN  ControlReply(sent, other) = IF sent = other THEN "ok" ELSE "protocol"
    /\ \A bit \in 0..31, bank \in Bank :
         ActiveAlarms([j \in 1..4 |-> IF j = 4 - bit \div 8 THEN 2 ^ (bit % 8) ELSE 0], bank)
             = {bit} \cap AlarmBits[bank]
    /\ \A v \in Edges, bit \in 0..30 :
         BitSet(PackUint(v), bit) <=> (v \div 2 ^ bit) % 2 = 1
=============================================================================
