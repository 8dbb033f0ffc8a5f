------------------------------- MODULE Codec -------------------------------
(***************************************************************************)
(* The body of a message as a stack (NetMessages.h): operator<< appends a  *)
(* value's bytes, operator>> takes the last ones off, and nothing in the   *)
(* body says what they were.  A writer fills a message as the structs of   *)
(* msgDetail.h and the two programs do, field after field; a reader takes  *)
(* the fields off as the struct does that header.id names.                 *)
(*                                                                         *)
(* A value that is memcpy'd is its bytes; numbers are little-endian, as on *)
(* every machine the programs are built for.  PlayerInfo is declared in a  *)
(* file the repository lacks: here, a value of PlayerSize bytes.           *)
(***************************************************************************)
EXTENDS Integers, Sequences

CONSTANTS Texts,       \* the strings, as their bytes
          Words,       \* the values of four bytes: uint32_t, float
          Times,       \* the values of a time_point, eight bytes
          Players,     \* the values of a PlayerInfo
          PlayerSize,  \* sizeof(server_Util::PlayerInfo)
          MaxPlayers   \* bound: players in a room

Byte == 0..255

\* uint32_t data = n: its bytes, lowest first, and back.
Bytes4(n) == <<n % 256, (n \div 256) % 256, (n \div 65536) % 256, n \div 16777216>>
Number(w) == w[1] + 256 * w[2] + 65536 * w[3] + 16777216 * w[4]

\* n < 2^32, in a form TLC can evaluate.
FitsWord(n) == n \in Nat /\ n \div 16777216 \in Byte

ASSUME TextsAssumption == Texts \subseteq Seq(Byte) /\ \A t \in Texts : FitsWord(Len(t))
ASSUME PodsAssumption ==
    /\ PlayerSize \in Nat
    /\ Words \subseteq [1..4 -> Byte] /\ Times \subseteq [1..8 -> Byte]
    /\ Players \subseteq [1..PlayerSize -> Byte]
ASSUME PlayersAssumption == FitsWord(MaxPlayers)

-----------------------------------------------------------------------------
(* operator<< and operator>>.                                              *)

Put(b, v) == b \o v

\* Mutation of PutText: the length is written before the characters.
PutTextLengthFirst(b, v) == Put(Put(b, Bytes4(Len(v))), v)

\* A string: the characters, then their number, so that it is read first.
PutText(b, v) == Put(Put(b, v), Bytes4(Len(v)))

Last(b, k) == SubSeq(b, Len(b) - k + 1, Len(b))
Without(b, k) == SubSeq(b, 1, Len(b) - k)

\* What the last four bytes of b say is the length of the string below them.
TextLength(b) == Number(Last(b, 4))

\* Mutation of SizeAfter: the commented-out sizeof(header_type).
SizeAfterWithHeader(b) == 8 + Len(b)

\* msg.header.size = msg.size().
SizeAfter(b) == Len(b)

-----------------------------------------------------------------------------
(* The structs: the id their operator<< sets, and the order in which it    *)
(* writes their fields and operator>> reads them.                          *)

FieldTypes == {"text", "word", "count", "time", "player"}

RequestServerSeedReq ==
    [id |-> "RequestServerSeedReq", writes |-> <<"text">>, reads |-> <<"text">>]

\* It sets the id of the request.
RequestServerSeedack ==
    [id |-> "RequestServerSeedReq", writes |-> <<"text", "word">>, reads |-> <<"word", "text">>]

RequestRoomInfoReq ==
    [id |-> "RequestRoomInfoReq", writes |-> <<"text", "word">>, reads |-> <<"word", "text">>]

\* With n players: info.size() when it is written, data.playercount when read.
Repeat(type, n) == [i \in 1..n |-> type]
RequestRoomInfoAck(n) ==
    [id |-> "RequestRoomInfoAck",
     writes |-> <<"text", "word", "word">> \o Repeat("player", n) \o <<"count">>,
     reads |-> <<"count">> \o Repeat("player", n) \o <<"word", "word", "text">>]

RequestAddPLayerReq ==
    [id |-> "RequestAddPLayerReq", writes |-> <<"text">>, reads |-> <<"text">>]

RequestAddPlayerAck ==
    [id |-> "RequestAddPlayerAck", writes |-> <<"text", "word">>, reads |-> <<"word", "text">>]

RequestMovePLayerReq ==
    [id |-> "RequestMovePLayerReq",
     writes |-> <<"text", "word", "word", "word", "text">>,
     reads |-> <<"text", "word", "word", "word", "text">>]

SendPlayerMovement ==
    [id |-> "SendPlayerMovement",
     writes |-> <<"text", "word", "word", "word", "text">>,
     reads |-> <<"text", "word", "word", "word", "text">>]

\* What the two programs put in a message themselves.
ServerPing == [id |-> "ServerPing", writes |-> <<"time">>, reads |-> <<"time">>]
ServerMessage == [id |-> "ServerMessage", writes |-> <<"word">>, reads |-> <<"word">>]

Structs == {"RequestServerSeedReq", "RequestServerSeedack", "RequestRoomInfoReq",
            "RequestRoomInfoAck", "RequestAddPLayerReq", "RequestAddPlayerAck",
            "RequestMovePLayerReq", "SendPlayerMovement", "ServerPing", "ServerMessage"}

Struct(s, n) ==
    CASE s = "RequestServerSeedReq" -> RequestServerSeedReq
      [] s = "RequestServerSeedack" -> RequestServerSeedack
      [] s = "RequestRoomInfoReq" -> RequestRoomInfoReq
      [] s = "RequestRoomInfoAck" -> RequestRoomInfoAck(n)
      [] s = "RequestAddPLayerReq" -> RequestAddPLayerReq
      [] s = "RequestAddPlayerAck" -> RequestAddPlayerAck
      [] s = "RequestMovePLayerReq" -> RequestMovePLayerReq
      [] s = "SendPlayerMovement" -> SendPlayerMovement
      [] s = "ServerPing" -> ServerPing
      [] s = "ServerMessage" -> ServerMessage

WriteOrder(s, n) == Struct(s, n).writes
ReadOrder(s, n) == Struct(s, n).reads

-----------------------------------------------------------------------------
VARIABLES
    kind,     \* the struct the writer writes
    players,  \* info.size() of it
    fields,   \* the fields written so far: [type, bytes]
    phase,    \* "write", "read", "done"; "outside" after reading beyond the body
    body,     \* message::body
    size,     \* header.size
    got       \* the fields read so far

vars == <<kind, players, fields, phase, body, size, got>>

\* The struct that the reader takes the message for.
readAs == Struct(kind, 0).id

ValuesOf(type) ==
    CASE type = "text" -> Texts
      [] type = "word" -> Words
      [] type = "count" -> {Bytes4(players)}
      [] type = "time" -> Times
      [] type = "player" -> Players

Width(type) ==
    CASE type = "time" -> 8 [] type = "player" -> PlayerSize [] OTHER -> 4

Init ==
    /\ kind \in Structs
    /\ players \in IF kind = "RequestRoomInfoAck" THEN 0..MaxPlayers ELSE {0}
    /\ fields = <<>> /\ got = <<>>
    /\ phase = "write"
    /\ body = <<>> /\ size = 0

\* One operator<< of the struct's.
WriteField ==
    /\ phase = "write" /\ Len(fields) < Len(WriteOrder(kind, players))
    /\ LET type == WriteOrder(kind, players)[Len(fields) + 1]
       IN  \E v \in ValuesOf(type) :
              /\ fields' = Append(fields, [type |-> type, bytes |-> v])
              /\ body' = IF type = "text" THEN PutText(body, v) ELSE Put(body, v)
    /\ size' = SizeAfter(body')
    /\ UNCHANGED <<kind, players, phase, got>>

\* The message reaches the reader as it is (module Connection).
Deliver ==
    /\ phase = "write" /\ Len(fields) = Len(WriteOrder(kind, players))
    /\ phase' = "read"
    /\ UNCHANGED <<kind, players, fields, body, size, got>>

\* data.playercount, once it has been read.
playercount == IF readAs = "RequestRoomInfoAck" /\ got # <<>> THEN Number(got[1].bytes) ELSE 0
Remaining == Len(ReadOrder(readAs, playercount)) - Len(got)
Wanted == ReadOrder(readAs, playercount)[Len(got) + 1]

Take(v, rest) ==
    /\ got' = Append(got, [type |-> Wanted, bytes |-> v])
    /\ body' = rest
    /\ size' = SizeAfter(rest)
    /\ UNCHANGED <<kind, players, fields, phase>>

\* Mutation of ReadPod: it takes the first bytes.
ReadPodFromFront ==
    /\ phase = "read" /\ Remaining > 0 /\ Wanted # "text"
    /\ Len(body) >= Width(Wanted)
    /\ Take(SubSeq(body, 1, Width(Wanted)), SubSeq(body, Width(Wanted) + 1, Len(body)))

\* operator>> of a standard-layout type.
ReadPod ==
    /\ phase = "read" /\ Remaining > 0 /\ Wanted # "text"
    /\ Len(body) >= Width(Wanted)
    /\ Take(Last(body, Width(Wanted)), Without(body, Width(Wanted)))

\* operator>> of a string.
ReadText ==
    /\ phase = "read" /\ Remaining > 0 /\ Wanted = "text"
    /\ Len(body) >= 4 /\ Len(body) - 4 >= TextLength(body)
    /\ LET chars == Without(body, 4)
       IN  Take(Last(chars, TextLength(body)), Without(chars, TextLength(body)))

\* Either asks for more bytes than there are: body.size() - size wraps, and
\* memcpy reads outside the body.
ReadOutside ==
    /\ phase = "read" /\ Remaining > 0
    /\ \/ Len(body) < Width(Wanted)
       \/ Wanted = "text" /\ Len(body) - 4 < TextLength(body)
    /\ phase' = "outside"
    /\ UNCHANGED <<kind, players, fields, body, size, got>>

ReadDone ==
    /\ phase = "read" /\ Remaining = 0
    /\ phase' = "done"
    /\ UNCHANGED <<kind, players, fields, body, size, got>>

Next == WriteField \/ Deliver \/ ReadPod \/ ReadText \/ ReadOutside \/ ReadDone

Spec == Init /\ [][Next]_vars

-----------------------------------------------------------------------------
(* Properties.                                                             *)

\* The fields are those of the structs, the body is bytes, and header.size,
\* which the peer will read the body by, is their number at every moment.
TypeOK ==
    /\ kind \in Structs /\ players \in 0..MaxPlayers
    /\ phase \in {"write", "read", "done", "outside"}
    /\ \A i \in DOMAIN fields :
          fields[i].type \in FieldTypes /\ fields[i].bytes \in ValuesOf(fields[i].type)
    /\ body \in Seq(Byte) /\ size = Len(body)

\* A message read as the struct it was written from gives back every field, the
\* last written first (so the players of a room come back in reverse), and
\* leaves nothing in the body.
RoundTrip ==
    phase = "done" /\ readAs = kind =>
        /\ Len(got) = Len(fields)
        /\ \A i \in 1..Len(fields) : got[i] = fields[Len(fields) + 1 - i]
        /\ body = <<>>

\* No operator>> reads outside the body unless the id names another struct than
\* the one that was written: the order of the reads is all that protects it.
\* (RequestServerSeedack, which has the request's id, is read outside.)
OutsideOnlyIfMislabelled == phase = "outside" => readAs # kind
=============================================================================
