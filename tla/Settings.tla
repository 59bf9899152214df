------------------------------ MODULE Settings ------------------------------
(***************************************************************************)
(* The configuration setters of SpinEvCharger, the commit that puts what   *)
(* they wrote into effect, and the command line's ocpp command, which      *)
(* reads the settings, works out what is wanted, and writes that if it     *)
(* differs.  A value goes to the charger as one frame or as numbered       *)
(* four-byte pieces.                                                       *)
(*                                                                         *)
(* The charger is external: it puts a piece where its number says, keeps   *)
(* what it has when a list of frames breaks off, puts all it holds into    *)
(* effect on a commit, and answers reads with what it holds or what is in  *)
(* effect.  Calls do not overlap: ChargerClient and ChargerMethods have    *)
(* the calls of several tasks.                                             *)
(***************************************************************************)
EXTENDS Codec

CONSTANTS Offered,     \* calls of the setters
          Requests,    \* ocpp commands, as [host, port, path, id]
          Preset,      \* what a charger may come with
          Address,     \* texts that ip_address accepts
          WifiPieces, TextPieces, IdPieces,  \* the widths of fields, in pieces
          MaxLen,      \* MAX_WIFI_FIELD_LEN
          MaxPort, MaxDelay,
          MaxCalls,    \* bound: calls in one behaviour
          None         \* an argument not given

TextField == {"ssid", "password", "host", "path", "id"}
NumberField == {"port", "delay", "internet"}
Field == TextField \cup NumberField \cup {"zone", "time", "date"}

\* The fields a setter writes, in order.
Fields == [wifi |-> <<"ssid", "password">>,
           ocpp |-> <<"host", "port", "path", "id">>,
           zone |-> <<"zone">>, clock |-> <<"time", "date">>,
           delay |-> <<"delay">>, internet |-> <<"internet">>,
           commit |-> <<>>]
Setter == DOMAIN Fields
FieldsOf(c) == {Fields[c.op][i] : i \in DOMAIN Fields[c.op]}

Text == Seq(Nat)
Value(f) == IF f \in TextField THEN Text
            ELSE IF f = "zone" THEN Int \X Int
            ELSE IF f \in {"time", "date"} THEN Int \X Int \X Int
            ELSE IF f = "internet" THEN {0, 1}
            ELSE Int

\* A number frame carries flag WRITE, which is also the number of a first piece.
Pieces(f) == CASE f \in {"ssid", "password"} -> WifiPieces
               [] f \in {"host", "path"} -> TextPieces
               [] f = "id" -> IdPieces
               [] OTHER -> 1
Raw(f) == [1..4 * Pieces(f) -> Byte]
IsMemory(m) == DOMAIN m = Field /\ \A f \in Field : m[f] \in Raw(f)

IsCall(c) == /\ c.op \in Setter /\ c.commit \in BOOLEAN
             /\ \A f \in FieldsOf(c) : c.values[f] \in Value(f)
IsRequest(a) == /\ a.host \in Text \cup {None} /\ a.port \in Int \cup {None}
                /\ a.path \in Text \cup {None} /\ a.id \in Text \cup {None}

ASSUME ArgumentsAssumption ==
    /\ \A c \in Offered : IsCall(c)
    /\ \A a \in Requests : IsRequest(a)
    /\ \A m \in Preset : IsMemory(m)
    /\ Address \subseteq Text
    /\ None \notin Text /\ None \notin Int
ASSUME WidthsAssumption ==
    WifiPieces \in Nat \ {0} /\ TextPieces \in Nat \ {0} /\ IdPieces \in Nat \ {0}
ASSUME LimitsAssumption ==
    /\ MaxLen \in Nat /\ MaxCalls \in Nat
    /\ MaxPort \in Nat /\ MaxPort <= 65535 /\ MaxDelay \in Nat /\ MaxDelay <= 65535

VARIABLES
    pc,       \* where the call under way stands
    call,     \* that call, or the last
    request,  \* the ocpp command it was made for, or None
    current,  \* what that command read
    at,       \* the field being written, as an index into Fields
    piece,    \* the next piece of it
    outcome,  \* how the last call ended
    held,     \* per field: what the charger holds
    applied,  \* per field: what is in effect
    settled,  \* per field: the value the last list wrote whole, as {value}; {} before
              \* that, and from the first frame of a list until its last in the field
    calls

vars == <<pc, call, request, current, at, piece, outcome, held, applied, settled, calls>>
charger == <<held, applied, settled>>

\* What async_get_ocpp_config returns of a charger that shows raw.
ReadOcpp(raw) == [host |-> DecodeString(raw["host"]), port |-> UnpackUint(raw["port"]),
                  path |-> DecodeString(raw["path"]), id |-> DecodeString(raw["id"])]

TypeOK ==
    /\ pc \in {"idle", "writing", "committing"}
    /\ call # None => IsCall(call)
    /\ request \in Requests \cup {None}
    /\ current # None => IsRequest(current)
    /\ at \in Nat \ {0} /\ piece \in Nat \ {0}
    /\ outcome \in {"none", "ok", "value", "protocol", "error", "exit", "shown", "unchanged"}
    /\ IsMemory(held) /\ IsMemory(applied)
    /\ DOMAIN settled = Field /\ \A f \in Field : settled[f] \subseteq Value(f)
    /\ calls \in 0..MaxCalls

Init ==
    /\ pc = "idle" /\ call = None /\ request = None /\ current = None
    /\ at = 1 /\ piece = 1
    /\ outcome = "none"
    /\ held \in Preset /\ applied = held
    /\ settled = [f \in Field |-> {}]
    /\ calls = 0

-----------------------------------------------------------------------------
(* What a call refuses, and what it writes *)

\* The checks of the setters; a negative number is refused as well.
RefusedBySetter(c) ==
    CASE c.op = "wifi" -> \E f \in {"ssid", "password"} :
                             Len(c.values[f]) > MaxLen \/ Quote \in Range(c.values[f])
      [] c.op = "ocpp" -> c.values["host"] = <<>> \/ c.values["port"] \notin 1..MaxPort
      [] c.op = "zone" -> ~OffsetInRange(c.values["zone"][1], c.values["zone"][2])
      [] c.op = "delay" -> c.values["delay"] \notin 0..MaxDelay
      [] OTHER -> FALSE

\* The checks made while the frames are built.
RefusedByBuild(c) ==
    \/ \E f \in FieldsOf(c) \cap TextField :
         ~Ascii(c.values[f]) \/ Len(c.values[f]) > 4 * Pieces(f)
    \/ c.op = "clock" /\ LET t == c.values["time"]  d == c.values["date"]
                         IN  ~TimeInRange(t[1], t[2], t[3]) \/ ~DateInRange(d[1], d[2], d[3])

\* A value as its field has it.
Encode(f, v) == CASE f \in TextField -> Padded(v, 4 * Pieces(f))
                  [] f = "zone" -> Timezone(v[1], v[2])
                  [] f = "time" -> ClockTime(v[1], v[2], v[3])
                  [] f = "date" -> ClockDate(v[1], v[2], v[3])
                  [] OTHER -> PackUint(v)

\* A field as the library, or the charger's clock, reads it.
Decode(f, raw) == CASE f \in TextField -> DecodeString(raw)
                    [] f = "zone" -> TimezoneOf(raw)
                    [] f = "time" -> TimeOf(raw)
                    [] f = "date" -> DateOf(raw)
                    [] OTHER -> UnpackUint(raw)

\* How many frames a value takes: as many as the field has, whatever it is.
\* The variant sends those the value fills.
FramesFilled(f, v) == IF f \in TextField /\ v # <<>> THEN ((Len(v) + 3) \div 4) ELSE 1
FramesOf(f, v) == Pieces(f)

-----------------------------------------------------------------------------
(* The setters *)

\* All frames are built before the first is written.
Starts(c) ==
    /\ call' = c
    /\ at' = 1 /\ piece' = 1
    /\ IF RefusedBySetter(c) THEN pc' = "idle" /\ outcome' = "value"
       ELSE IF RefusedByBuild(c) THEN pc' = "idle" /\ outcome' = "protocol"
       ELSE /\ pc' = IF Fields[c.op] = <<>> THEN "committing" ELSE "writing"
            /\ outcome' = "none"

Begin(c) ==
    /\ pc = "idle" /\ calls < MaxCalls
    /\ calls' = calls + 1
    /\ request' = None /\ current' = None
    /\ Starts(c)
    /\ UNCHANGED charger

TheField == Fields[call.op][at]
TheValue == call.values[TheField]
LastPiece == piece = FramesOf(TheField, TheValue)

\* The frame reaches the charger.
Lands ==
    LET f == TheField
        sent == PieceOf(Encode(f, TheValue), piece)
    IN  /\ held' = [held EXCEPT ![f] =
                      [i \in DOMAIN @ |-> IF (i - 1) \div 4 = piece - 1
                                          THEN sent[((i - 1) % 4) + 1] ELSE @[i]]]
        /\ settled' = [settled EXCEPT ![f] = IF LastPiece THEN {TheValue} ELSE {}]
        /\ UNCHANGED applied

\* _commit_if; the variant forgets the commit.
CommitNever(c) == FALSE
CommitIf(c) == c.commit

FrameWritten ==
    /\ pc = "writing"
    /\ Lands
    /\ IF ~LastPiece THEN piece' = piece + 1 /\ UNCHANGED <<pc, at, outcome>>
       ELSE IF at < Len(Fields[call.op]) THEN at' = at + 1 /\ piece' = 1 /\ UNCHANGED <<pc, outcome>>
       ELSE /\ IF CommitIf(call) THEN pc' = "committing" /\ UNCHANGED outcome
               ELSE pc' = "idle" /\ outcome' = "ok"
            /\ UNCHANGED <<at, piece>>
    /\ UNCHANGED <<call, request, current, calls>>

\* All that is held takes effect.
CommitLands == applied' = held /\ UNCHANGED <<held, settled>>

Committed ==
    /\ pc = "committing"
    /\ CommitLands
    /\ pc' = "idle" /\ outcome' = "ok"
    /\ UNCHANGED <<call, request, current, at, piece, calls>>

\* A frame fails, times out or is cancelled, delivered or not: the call ends.
FrameFails ==
    /\ \/ pc = "writing" /\ Lands
       \/ pc = "committing" /\ CommitLands
       \/ pc # "idle" /\ UNCHANGED charger
    /\ pc' = "idle" /\ outcome' = "error"
    /\ UNCHANGED <<call, request, current, at, piece, calls>>

-----------------------------------------------------------------------------
(* The ocpp command *)

DNS_PREFIX == <<100, 110, 115, 58>>
Marked(host) == Len(host) >= 4 /\ SubSeq(host, 1, 4) = DNS_PREFIX

\* _charger_host; the variant leaves the blanks around it.
HostMarked(host) == IF host \in Address \/ Marked(host) THEN host ELSE DNS_PREFIX \o host
HostUnstripped(host) == HostMarked(host)
ChargerHost(host) == HostMarked(Stripped(host))

\* _wanted_ocpp's path; the variant takes the default for any path not given.
DEFAULT_OCPP_PATH == <<111, 99, 112, 112>>
PathNotKept(given, path) == IF given # None THEN given ELSE DEFAULT_OCPP_PATH
WantedPath(given, path) == IF given # None THEN given
                           ELSE IF path = <<>> THEN DEFAULT_OCPP_PATH ELSE path

\* An id that is empty counts as not given.
WantedId(given, id) == IF given \in {None, <<>>} THEN id ELSE given

WantedOcpp(cur, a) ==
    [host |-> ChargerHost(a.host),
     port |-> IF a.port # None THEN a.port ELSE cur.port,
     path |-> WantedPath(a.path, cur.path),
     id   |-> WantedId(a.id, cur.id)]

\* The reads, what they lead to, and the setter as far as its first frame.
OcppCommand(a) ==
    /\ pc = "idle" /\ calls < MaxCalls
    /\ calls' = calls + 1
    /\ request' = a
    /\ \E shown \in {held, applied} :
         LET cur == ReadOcpp(shown)
             wanted == WantedOcpp(cur, a)
             ends(o) == outcome' = o /\ UNCHANGED <<pc, call, at, piece>>
         IN  /\ current' = cur
             /\ IF a.host = None THEN ends("shown")
                ELSE IF wanted.id = <<>> THEN ends("exit")
                ELSE IF wanted = cur THEN ends("unchanged")
                ELSE Starts([op |-> "ocpp", values |-> wanted, commit |-> TRUE])
    /\ UNCHANGED charger

\* One of the reads fails.
OcppReadFails(a) ==
    /\ pc = "idle" /\ calls < MaxCalls
    /\ calls' = calls + 1
    /\ request' = a /\ current' = None
    /\ outcome' = "error"
    /\ UNCHANGED <<pc, call, at, piece, charger>>

Next ==
    \/ \E c \in Offered : Begin(c)
    \/ \E a \in Requests : OcppCommand(a) \/ OcppReadFails(a)
    \/ FrameWritten \/ Committed \/ FrameFails

Spec == Init /\ [][Next]_vars

-----------------------------------------------------------------------------
(* Properties *)

\* What can be read back at all.
Readable(f, v) == f \in TextField => Plain(v)

\* A field whose frames were all written reads back as the value, whatever
\* longer value it held and whatever earlier list broke off in the middle of
\* it; a number reads back at both ends of its range.
ReadsBack ==
    \A f \in Field : \A v \in settled[f] : Readable(f, v) => Decode(f, held[f]) = v

\* A setter told to commit that returns has every one of its fields in effect
\* as it was given, also when earlier calls left fields half written or
\* written without a commit.
OkMeansInEffect ==
    pc = "idle" /\ outcome = "ok" /\ call.commit =>
        \A f \in FieldsOf(call) : LET v == call.values[f]
                                  IN  Readable(f, v) => Decode(f, applied[f]) = v

\* The ocpp command that reports new settings written has pointed the charger
\* where it was asked to, and left the settings not given as it had read them:
\* with the default for a path that was empty.
CommandDoesAsAsked ==
    pc = "idle" /\ outcome = "ok" /\ request # None =>
        LET now == ReadOcpp(applied) IN
        /\ LET h == Stripped(request.host) IN
           Whole(h) =>
               now.host = IF h \in Address \/ Marked(h) THEN h ELSE DNS_PREFIX \o h
        /\ now.port = IF request.port = None THEN current.port ELSE request.port
        /\ request.path = None => now.path = IF current.path = <<>> THEN DEFAULT_OCPP_PATH
                                             ELSE current.path
        /\ request.path # None /\ Plain(request.path) => now.path = request.path
        /\ request.id \in {None, <<>>} => now.id = current.id
        /\ request.id \notin {None, <<>>} /\ Plain(request.id) => now.id = request.id

\* The same command given again finds nothing to change, so it does not restart
\* the charger and end a session for nothing: what was written is what is read,
\* marked host, default path and padding included.
RepeatChangesNothing ==
    [][pc = "idle" /\ outcome = "ok" /\ request # None /\ request' = request /\ calls' # calls
         /\ Whole(request.host)
         /\ (request.path = None \/ Plain(request.path))
         /\ (request.id = None \/ Plain(request.id))
       => outcome' \in {"unchanged", "error"}]_vars

\* What async_set_wifi says of its arguments: ASCII, no longer than the limit,
\* without a double quote, or else SpinEvValueError.
WifiRulesAreValueErrors ==
    [][calls' # calls /\ request' = None /\ call'.op = "wifi"
         /\ (\E f \in {"ssid", "password"} : LET v == call'.values[f]
                 IN  Len(v) > MaxLen \/ Quote \in Range(v) \/ ~Ascii(v))
       => outcome' = "value"]_vars

-----------------------------------------------------------------------------
(* The abstract specification *)

\* The fields the call under way has still to settle, with their values.
Unsettled == IF pc = "writing" THEN {Fields[call.op][i] : i \in at..Len(Fields[call.op])} ELSE {}
ToWrite == [f \in Unsettled |-> call.values[f]]

Promise == INSTANCE Configuration WITH Item <- Field, Image <- Encode,
                                       todo <- ToWrite, effect <- applied

\* A call, a command included, writes the fields it names in order, each until
\* it holds the encoding of its value to the last byte, and no other field.
ConfiguresAsAsked == Promise!Spec
=============================================================================
