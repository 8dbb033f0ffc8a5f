---------------------------- MODULE CodecProofs ----------------------------
(***************************************************************************)
(* Proofs about Codec, for all strings, numbers and lists of players.      *)
(*                                                                         *)
(* What operator<< puts on a body operator>> takes off again, whatever is  *)
(* below (PodBack, TextBack).  A read therefore walks back down the bodies *)
(* that the writes walked up: IndInv says that those bodies exist, which   *)
(* stands in for an induction over the fields.  The other half of the      *)
(* argument is that the reads of every struct mirror its writes (Mirror).  *)
(***************************************************************************)
EXTENDS Codec, SequenceTheorems, TLAPS

FieldSet == [type : FieldTypes, bytes : Seq(Byte)]

\* The body after the field f has been put on top of b.
Above(b, f) == IF f.type = "text" THEN PutText(b, f.bytes) ELSE Put(b, f.bytes)

\* The bodies between the writes: bodies[i] is what lies below field i.
IsTrail(bodies) ==
    /\ bodies \in Seq(Seq(Byte)) /\ Len(bodies) = Len(fields) + 1
    /\ bodies[1] = <<>>
    /\ \A i \in 1..Len(fields) : bodies[i + 1] = Above(bodies[i], fields[i])

\* The inductive invariant: the fields are of the struct's types; a rightly
\* labelled message has been read back down its trail.
IndInv ==
    /\ TypeOK
    /\ fields \in Seq(FieldSet) /\ Len(fields) <= Len(WriteOrder(kind, players))
    /\ \A i \in 1..Len(fields) : fields[i].type = WriteOrder(kind, players)[i]
    /\ got \in Seq(FieldSet) /\ (phase = "write" => got = <<>>)
    /\ phase # "write" => Len(fields) = Len(WriteOrder(kind, players))
    /\ readAs = kind =>
          /\ phase # "outside"
          /\ phase = "done" => Len(got) = Len(fields)
          /\ Len(got) <= Len(fields)
          /\ \A i \in 1..Len(got) : got[i] = fields[Len(fields) + 1 - i]
          /\ \E bodies : IsTrail(bodies) /\ body = bodies[Len(fields) + 1 - Len(got)]

-----------------------------------------------------------------------------
(* Numbers, and the laws of the two operators.                             *)

LEMMA NumberBack ==
    ASSUME NEW n, FitsWord(n)
    PROVE  Bytes4(n) \in Seq(Byte) /\ Len(Bytes4(n)) = 4 /\ Number(Bytes4(n)) = n
<1>1. n \in Nat /\ n \div 16777216 \in Byte
    BY SMT DEF FitsWord
<1>2. n % 256 \in Byte /\ (n \div 256) % 256 \in Byte /\ (n \div 65536) % 256 \in Byte
    BY <1>1, SMT DEF Byte
<1>3. (n % 256) + 256 * ((n \div 256) % 256) + 65536 * ((n \div 65536) % 256)
        + 16777216 * (n \div 16777216) = n
    BY <1>1, SMT
<1>4. Bytes4(n) \in Seq(Byte) /\ Len(Bytes4(n)) = 4
    BY <1>1, <1>2, SMT DEF Bytes4
<1>5. /\ Bytes4(n)[1] = n % 256 /\ Bytes4(n)[2] = (n \div 256) % 256
      /\ Bytes4(n)[3] = (n \div 65536) % 256 /\ Bytes4(n)[4] = n \div 16777216
    BY SMT DEF Bytes4
<1>6. Number(Bytes4(n)) = n
    BY <1>3, <1>5, SMT DEF Number
<1> QED BY <1>4, <1>6, SMT

LEMMA SumNat ==
    ASSUME NEW a \in Byte, NEW b \in Byte, NEW c \in Byte, NEW d \in Byte
    PROVE  a + 256 * b + 65536 * c + 16777216 * d \in Nat
BY SMT DEF Byte

LEMMA NumberNat ==
    ASSUME NEW w \in Seq(Byte), Len(w) = 4
    PROVE  Number(w) \in Nat
<1>1. w[1] \in Byte /\ w[2] \in Byte /\ w[3] \in Byte /\ w[4] \in Byte
    OBVIOUS
<1>2. w[1] + 256 * w[2] + 65536 * w[3] + 16777216 * w[4] \in Nat
    BY <1>1, SumNat, SMT
<1> QED BY <1>2, SMT DEF Number

\* Take after put, memcpy'd: operator>> returns the bytes that operator<< wrote
\* and leaves the body as it was (NetMessages.h:49-75).
THEOREM PodBack ==
    ASSUME NEW b \in Seq(Byte), NEW v \in Seq(Byte)
    PROVE  /\ Put(b, v) \in Seq(Byte) /\ Len(Put(b, v)) = Len(b) + Len(v)
           /\ Last(Put(b, v), Len(v)) = v
           /\ Without(Put(b, v), Len(v)) = b
<1> DEFINE t == b \o v
<1>1. t \in Seq(Byte) /\ Len(t) = Len(b) + Len(v)
    OBVIOUS
<1>2. SubSeq(t, Len(t) - Len(v) + 1, Len(t)) = v
  <2>1. SubSeq(t, Len(b) + 1, Len(b) + Len(v)) \in Seq(Byte)
        /\ Len(SubSeq(t, Len(b) + 1, Len(b) + Len(v))) = Len(v)
      BY <1>1
  <2>2. \A i \in 1..Len(v) : SubSeq(t, Len(b) + 1, Len(b) + Len(v))[i] = v[i]
      BY <1>1
  <2> QED BY <1>1, <2>1, <2>2, SeqEqual
<1>3. SubSeq(t, 1, Len(t) - Len(v)) = b
  <2>1. SubSeq(t, 1, Len(b)) \in Seq(Byte) /\ Len(SubSeq(t, 1, Len(b))) = Len(b)
      BY <1>1
  <2>2. \A i \in 1..Len(b) : SubSeq(t, 1, Len(b))[i] = b[i]
      BY <1>1
  <2> QED BY <1>1, <2>1, <2>2, SeqEqual
<1> QED BY <1>1, <1>2, <1>3 DEF Put, Last, Without

\* Take after put of a string: the length that lies on top is the string's, and
\* with it come back the characters and the body below (NetMessages.h:78-108).
THEOREM TextBack ==
    ASSUME NEW b \in Seq(Byte), NEW v \in Seq(Byte), FitsWord(Len(v))
    PROVE  /\ PutText(b, v) \in Seq(Byte) /\ Len(PutText(b, v)) = Len(b) + Len(v) + 4
           /\ TextLength(PutText(b, v)) = Len(v)
           /\ Last(Without(PutText(b, v), 4), Len(v)) = v
           /\ Without(Without(PutText(b, v), 4), Len(v)) = b
<1>1. Put(b, v) \in Seq(Byte) /\ Len(Put(b, v)) = Len(b) + Len(v)
    BY PodBack
<1>2. Bytes4(Len(v)) \in Seq(Byte) /\ Len(Bytes4(Len(v))) = 4
      /\ Number(Bytes4(Len(v))) = Len(v)
    BY NumberBack
<1>3. /\ PutText(b, v) \in Seq(Byte) /\ Len(PutText(b, v)) = Len(b) + Len(v) + 4
      /\ Last(PutText(b, v), 4) = Bytes4(Len(v))
      /\ Without(PutText(b, v), 4) = Put(b, v)
  <2> DEFINE w == Bytes4(Len(v))
             p == Put(b, v)
  <2>1. w \in Seq(Byte) /\ Len(w) = 4 /\ p \in Seq(Byte) /\ Len(p) = Len(b) + Len(v)
      BY <1>1, <1>2
  <2> HIDE DEF w, p
  <2>2. /\ Put(p, w) \in Seq(Byte) /\ Len(Put(p, w)) = Len(p) + Len(w)
        /\ Last(Put(p, w), Len(w)) = w
        /\ Without(Put(p, w), Len(w)) = p
      BY <2>1, PodBack
  <2>3. /\ Put(p, w) \in Seq(Byte) /\ Len(Put(p, w)) = Len(b) + Len(v) + 4
        /\ Last(Put(p, w), 4) = w
        /\ Without(Put(p, w), 4) = p
      BY <2>1, <2>2
  <2> QED BY <2>3 DEF PutText, p, w
<1> QED BY <1>2, <1>3, PodBack DEF TextLength

LEMMA TakeType ==
    ASSUME NEW b \in Seq(Byte), NEW k \in 0..Len(b)
    PROVE  /\ Last(b, k) \in Seq(Byte) /\ Len(Last(b, k)) = k
           /\ Without(b, k) \in Seq(Byte) /\ Len(Without(b, k)) = Len(b) - k
BY DEF Last, Without

-----------------------------------------------------------------------------
(* The orders of the fields.                                               *)

\* The orders, spelled out.
LEMMA Orders ==
    ASSUME NEW s \in Structs, NEW n
    PROVE  /\ s \in {"RequestServerSeedReq", "RequestAddPLayerReq"} =>
                 WriteOrder(s, n) = <<"text">> /\ ReadOrder(s, n) = <<"text">>
           /\ s \in {"RequestServerSeedack", "RequestRoomInfoReq", "RequestAddPlayerAck"} =>
                 WriteOrder(s, n) = <<"text", "word">> /\ ReadOrder(s, n) = <<"word", "text">>
           /\ s = "RequestRoomInfoAck" =>
                 /\ WriteOrder(s, n) = <<"text", "word", "word">> \o Repeat("player", n) \o <<"count">>
                 /\ ReadOrder(s, n) = <<"count">> \o Repeat("player", n) \o <<"word", "word", "text">>
           /\ s \in {"RequestMovePLayerReq", "SendPlayerMovement"} =>
                 /\ WriteOrder(s, n) = <<"text", "word", "word", "word", "text">>
                 /\ ReadOrder(s, n) = <<"text", "word", "word", "word", "text">>
           /\ s = "ServerPing" => WriteOrder(s, n) = <<"time">> /\ ReadOrder(s, n) = <<"time">>
           /\ s = "ServerMessage" => WriteOrder(s, n) = <<"word">> /\ ReadOrder(s, n) = <<"word">>
BY DEF WriteOrder, ReadOrder, Struct, RequestServerSeedReq, RequestServerSeedack,
   RequestRoomInfoReq, RequestRoomInfoAck, RequestAddPLayerReq, RequestAddPlayerAck,
   RequestMovePLayerReq, SendPlayerMovement, ServerPing, ServerMessage

\* The one struct that sets the id of another.
LEMMA Labels ==
    ASSUME NEW s \in Structs
    PROVE  Struct(s, 0).id = IF s = "RequestServerSeedack" THEN "RequestServerSeedReq" ELSE s
BY DEF Structs, Struct, RequestServerSeedReq, RequestServerSeedack,
   RequestRoomInfoReq, RequestRoomInfoAck, RequestAddPLayerReq, RequestAddPlayerAck,
   RequestMovePLayerReq, SendPlayerMovement, ServerPing, ServerMessage

LEMMA OrderType ==
    ASSUME NEW s \in Structs, NEW n \in Nat
    PROVE  WriteOrder(s, n) \in Seq(FieldTypes) /\ ReadOrder(s, n) \in Seq(FieldTypes)
<1>1. Repeat("player", n) \in Seq(FieldTypes)
    BY DEF Repeat, FieldTypes
<1>2. CASE s = "RequestRoomInfoAck"
  <2>1. <<"text", "word", "word">> \in Seq(FieldTypes) /\ <<"count">> \in Seq(FieldTypes)
        /\ <<"word", "word", "text">> \in Seq(FieldTypes)
      BY DEF FieldTypes
  <2>2. /\ WriteOrder(s, n) = <<"text", "word", "word">> \o Repeat("player", n) \o <<"count">>
        /\ ReadOrder(s, n) = <<"count">> \o Repeat("player", n) \o <<"word", "word", "text">>
      BY <1>2, Orders
  <2> QED BY <1>1, <2>1, <2>2, ConcatProperties
<1>3. CASE s # "RequestRoomInfoAck"
  <2>1. /\ <<"text">> \in Seq(FieldTypes) /\ <<"time">> \in Seq(FieldTypes)
        /\ <<"word">> \in Seq(FieldTypes)
        /\ <<"text", "word">> \in Seq(FieldTypes) /\ <<"word", "text">> \in Seq(FieldTypes)
        /\ <<"text", "word", "word", "word", "text">> \in Seq(FieldTypes)
      BY DEF FieldTypes
  <2>2. WriteOrder(s, n) \in Seq(FieldTypes)
      BY <1>3, <2>1, Orders DEF Structs
  <2>3. ReadOrder(s, n) \in Seq(FieldTypes)
      BY <1>3, <2>1, Orders DEF Structs
  <2> QED BY <2>2, <2>3
<1> QED BY <1>2, <1>3

\* Every struct reads its fields in the reverse of the order it writes them in.
LEMMA Mirror ==
    ASSUME NEW s \in Structs, NEW n \in Nat
    PROVE  LET w == WriteOrder(s, n)
               r == ReadOrder(s, n)
           IN  Len(r) = Len(w) /\ \A i \in 1..Len(w) : r[i] = w[Len(w) + 1 - i]
<1>1. CASE s = "RequestRoomInfoAck"
  <2> DEFINE p == Repeat("player", n)
             w == <<"text", "word", "word">> \o p \o <<"count">>
             r == <<"count">> \o p \o <<"word", "word", "text">>
  <2>1. p \in Seq(FieldTypes) /\ Len(p) = n /\ \A i \in 1..n : p[i] = "player"
      BY DEF Repeat, FieldTypes
  <2>2. Len(w) = n + 4 /\ Len(r) = n + 4
      BY <2>1 DEF FieldTypes
  <2>3. /\ w[1] = "text" /\ w[2] = "word" /\ w[3] = "word" /\ w[n + 4] = "count"
        /\ \A i \in 4..(n + 3) : w[i] = "player"
      BY <2>1
  <2>4. /\ r[1] = "count" /\ r[n + 2] = "word" /\ r[n + 3] = "word" /\ r[n + 4] = "text"
        /\ \A i \in 2..(n + 1) : r[i] = "player"
      BY <2>1
  <2> HIDE DEF w, r
  <2>5. \A i \in 1..(n + 4) : r[i] = w[n + 5 - i]
    <3> TAKE i \in 1..(n + 4)
    <3>1. CASE i \in 2..(n + 1)
        BY <2>3, <2>4, <3>1
    <3>2. CASE i \in {1, n + 2, n + 3, n + 4}
        BY <2>3, <2>4, <3>2
    <3> QED BY <3>1, <3>2
  <2>6. w = WriteOrder(s, n) /\ r = ReadOrder(s, n)
      BY <1>1, Orders DEF w, r
  <2> QED BY <2>2, <2>5, <2>6
<1>2. CASE s # "RequestRoomInfoAck"
  <2> DEFINE w == WriteOrder(s, n)
             r == ReadOrder(s, n)
  <2>1. \/ w = <<"text">> /\ r = <<"text">>
        \/ w = <<"text", "word">> /\ r = <<"word", "text">>
        \/ /\ w = <<"text", "word", "word", "word", "text">>
           /\ r = <<"text", "word", "word", "word", "text">>
        \/ w = <<"time">> /\ r = <<"time">>
        \/ w = <<"word">> /\ r = <<"word">>
      BY <1>2, Orders DEF Structs
  <2> HIDE DEF w, r
  <2>2. CASE w \in {<<"text">>, <<"time">>, <<"word">>} /\ r = w
    <3>1. Len(w) = 1 /\ Len(r) = 1 /\ r[1] = w[1]
        BY <2>2
    <3> QED BY <3>1 DEF w, r
  <2>3. CASE w = <<"text", "word">> /\ r = <<"word", "text">>
    <3>1. Len(w) = 2 /\ Len(r) = 2 /\ r[1] = w[2] /\ r[2] = w[1]
        BY <2>3
    <3> QED BY <3>1 DEF w, r
  <2>4. CASE /\ w = <<"text", "word", "word", "word", "text">>
             /\ r = <<"text", "word", "word", "word", "text">>
    <3>1. /\ Len(w) = 5 /\ Len(r) = 5
          /\ r[1] = w[5] /\ r[2] = w[4] /\ r[3] = w[3] /\ r[4] = w[2] /\ r[5] = w[1]
        BY <2>4
    <3>2. \A i \in 1..5 : r[i] = w[6 - i]
        BY <3>1
    <3> QED BY <3>1, <3>2 DEF w, r
  <2>5. Len(r) = Len(w) /\ \A i \in 1..Len(w) : r[i] = w[Len(w) + 1 - i]
      BY <2>1, <2>2, <2>3, <2>4 DEF w, r
  <2> QED BY <2>5 DEF w, r
<1> QED BY <1>1, <1>2

\* The number of players matters to the room's order alone; its count comes first.
LEMMA RoomOrder ==
    ASSUME NEW s \in Structs, NEW n \in Nat, NEW m \in Nat
    PROVE  /\ s # "RequestRoomInfoAck" => ReadOrder(s, n) = ReadOrder(s, m)
           /\ s = "RequestRoomInfoAck" =>
                 Len(ReadOrder(s, n)) > 0 /\ ReadOrder(s, n)[1] = "count"
<1>1. CASE s = "RequestRoomInfoAck"
  <2>1. Repeat("player", n) \in Seq(FieldTypes)
      BY DEF Repeat, FieldTypes
  <2> DEFINE r == <<"count">> \o Repeat("player", n) \o <<"word", "word", "text">>
  <2>2. Len(r) > 0 /\ r[1] = "count"
      BY <2>1 DEF FieldTypes
  <2>3. r = ReadOrder(s, n)
      BY <1>1, Orders
  <2> HIDE DEF r
  <2> QED BY <1>1, <2>2, <2>3
<1>2. CASE s # "RequestRoomInfoAck"
    BY <1>2, Orders DEF Structs
<1> QED BY <1>1, <1>2

-----------------------------------------------------------------------------
(* What IndInv says of a value, of a field, and of the next field to read. *)

LEMMA PlayersFit ==
    ASSUME NEW n \in 0..MaxPlayers
    PROVE  n \in Nat /\ FitsWord(n)
BY PlayersAssumption, SMT DEF FitsWord, Byte

LEMMA ValueType ==
    ASSUME TypeOK, NEW type \in FieldTypes, NEW v \in ValuesOf(type)
    PROVE  /\ v \in Seq(Byte)
           /\ type = "text" => FitsWord(Len(v))
           /\ type # "text" => Len(v) = Width(type)
           /\ type = "count" => Number(v) = players
<1>1. CASE type = "text"
    BY <1>1, TextsAssumption DEF ValuesOf
<1>2. CASE type = "count"
  <2>1. v = Bytes4(players)
      BY <1>2 DEF ValuesOf
  <2>2. FitsWord(players)
      BY PlayersFit DEF TypeOK
  <2>3. v \in Seq(Byte) /\ Len(v) = 4 /\ Number(v) = players
      BY <2>1, <2>2, NumberBack
  <2> QED BY <1>2, <2>3 DEF Width
<1>3. CASE type \in {"word", "time", "player"}
  <2>1. v \in [1..Width(type) -> Byte] /\ Width(type) \in Nat
      BY <1>3, PodsAssumption DEF ValuesOf, Width
  <2> QED BY <1>3, <2>1
<1> QED BY <1>1, <1>2, <1>3 DEF FieldTypes

LEMMA AboveType ==
    ASSUME NEW b \in Seq(Byte), NEW f \in FieldSet, f.type = "text" => FitsWord(Len(f.bytes))
    PROVE  Above(b, f) \in Seq(Byte)
<1>1. f.bytes \in Seq(Byte)
    BY DEF FieldSet
<1>2. CASE f.type = "text"
    BY <1>1, <1>2, TextBack DEF Above
<1>3. CASE f.type # "text"
    BY <1>1, <1>3, PodBack DEF Above
<1> QED BY <1>2, <1>3

\* A field that lies on top can be read without leaving the body.
LEMMA FieldInside ==
    ASSUME NEW b \in Seq(Byte), NEW f \in FieldSet,
           f.type = "text" => FitsWord(Len(f.bytes)),
           f.type # "text" => Len(f.bytes) = Width(f.type)
    PROVE  /\ ~(Len(Above(b, f)) < Width(f.type))
           /\ f.type = "text" => ~(Len(Above(b, f)) - 4 < TextLength(Above(b, f)))
<1>1. f.bytes \in Seq(Byte) /\ Len(f.bytes) \in Nat /\ Len(b) \in Nat
    BY DEF FieldSet
<1>2. CASE f.type = "text"
  <2>1. Len(Above(b, f)) = Len(b) + Len(f.bytes) + 4 /\ TextLength(Above(b, f)) = Len(f.bytes)
      BY <1>1, <1>2, TextBack DEF Above
  <2>2. Width(f.type) = 4
      BY <1>2 DEF Width
  <2> QED BY <1>1, <2>1, <2>2
<1>3. CASE f.type # "text"
  <2>1. Len(Above(b, f)) = Len(b) + Len(f.bytes)
      BY <1>1, <1>3, PodBack DEF Above
  <2> QED BY <1>1, <1>3, <2>1
<1> QED BY <1>2, <1>3

LEMMA WrittenFields ==
    ASSUME IndInv, NEW i \in 1..Len(fields)
    PROVE  /\ fields[i] \in FieldSet
           /\ fields[i].type = "text" => FitsWord(Len(fields[i].bytes))
           /\ fields[i].type # "text" => Len(fields[i].bytes) = Width(fields[i].type)
           /\ fields[i].type = "count" => Number(fields[i].bytes) = players
<1>1. fields[i].type \in FieldTypes /\ fields[i].bytes \in ValuesOf(fields[i].type)
    BY DEF IndInv, TypeOK
<1>2. fields[i] \in FieldSet
    BY DEF IndInv
<1> QED BY <1>1, <1>2, ValueType DEF IndInv

\* A rightly labelled message is read field by field as it was written, backwards.
LEMMA ReadsMirrorWrites ==
    ASSUME IndInv, phase = "read", readAs = kind
    PROVE  /\ playercount \in Nat
           /\ Remaining > 0 <=> Len(got) < Len(fields)
           /\ Remaining = 0 => Len(got) = Len(fields)
           /\ Remaining > 0 => Wanted = fields[Len(fields) - Len(got)].type
<1> DEFINE w == WriteOrder(kind, players)
           r == ReadOrder(kind, players)
<1>1. /\ kind \in Structs /\ players \in Nat
      /\ fields \in Seq(FieldSet) /\ got \in Seq(FieldSet)
      /\ Len(fields) = Len(w) /\ Len(got) <= Len(fields)
      /\ \A i \in 1..Len(fields) : fields[i].type = w[i]
      /\ \A i \in 1..Len(got) : got[i] = fields[Len(fields) + 1 - i]
    BY PlayersFit DEF IndInv, TypeOK
<1>2. Len(r) = Len(w) /\ \A i \in 1..Len(w) : r[i] = w[Len(w) + 1 - i]
    BY <1>1, Mirror
<1> HIDE DEF w, r
<1>3. CASE kind = "RequestRoomInfoAck" /\ got = <<>>
  <2>1. playercount = 0
      BY <1>3 DEF playercount
  <2>2. Len(r) > 0 /\ r[1] = "count"
      BY <1>1, <1>3, RoomOrder DEF r
  <2>3. Len(ReadOrder(readAs, 0)) > 0 /\ ReadOrder(readAs, 0)[1] = "count"
      BY <1>1, <1>3, RoomOrder
  <2>4. ReadOrder(readAs, 0) \in Seq(FieldTypes)
      BY <1>1, OrderType
  <2>5. Remaining > 0 /\ Wanted = "count" /\ Len(got) = 0
      BY <1>3, <2>1, <2>3, <2>4 DEF Remaining, Wanted
  <2>6. fields[Len(fields)].type = "count"
      BY <1>1, <1>2, <2>2
  <2> QED BY <1>1, <1>2, <2>1, <2>2, <2>5, <2>6
<1>4. CASE ~(kind = "RequestRoomInfoAck" /\ got = <<>>)
  <2>1. playercount \in Nat /\ ReadOrder(readAs, playercount) = r
    <3>1. CASE kind = "RequestRoomInfoAck"
      <4>1. Len(got) > 0 /\ got[1] = fields[Len(fields)]
          BY <1>1, <1>4, <3>1, EmptySeq
      <4>2. fields[Len(fields)].type = "count"
        <5>1. Len(r) > 0 /\ r[1] = "count"
            BY <1>1, <3>1, RoomOrder DEF r
        <5> QED BY <1>1, <1>2, <5>1
      <4>3. playercount = players
        <5>1. Number(fields[Len(fields)].bytes) = players
            BY <1>1, <4>1, <4>2, WrittenFields
        <5> QED BY <1>4, <3>1, <4>1, <5>1 DEF playercount
      <4> QED BY <1>1, <4>3 DEF r
    <3>2. CASE kind # "RequestRoomInfoAck"
      <4>1. playercount = 0
          BY <3>2 DEF playercount
      <4> QED BY <1>1, <3>2, <4>1, RoomOrder DEF r
    <3> QED BY <3>1, <3>2
  <2>2. r \in Seq(FieldTypes)
      BY <1>1, OrderType DEF r
  <2>3. Remaining = Len(fields) - Len(got)
      BY <1>1, <1>2, <2>1 DEF Remaining
  <2>4. ASSUME Remaining > 0
        PROVE  Wanted = fields[Len(fields) - Len(got)].type
    <3>1. Len(got) + 1 \in 1..Len(w) /\ Len(fields) - Len(got) \in 1..Len(fields)
        BY <1>1, <2>3, <2>4
    <3>2. Wanted = r[Len(got) + 1]
        BY <2>1 DEF Wanted
    <3>3. r[Len(got) + 1] = w[Len(w) + 1 - (Len(got) + 1)]
        BY <1>2, <3>1
    <3>4. Len(w) + 1 - (Len(got) + 1) = Len(fields) - Len(got)
        BY <1>1
    <3> QED BY <1>1, <3>1, <3>2, <3>3, <3>4
  <2> QED BY <1>1, <2>1, <2>3, <2>4
<1> QED BY <1>3, <1>4

LEMMA WantedType ==
    ASSUME IndInv, phase = "read", Remaining > 0
    PROVE  Wanted \in FieldTypes /\ Width(Wanted) \in Nat
<1>1. readAs \in Structs /\ (readAs # kind => readAs = "RequestServerSeedReq")
    BY Labels DEF readAs, IndInv, TypeOK, Structs
<1>2. playercount \in Nat
    BY <1>1, ReadsMirrorWrites DEF playercount
<1>3. ReadOrder(readAs, playercount) \in Seq(FieldTypes) /\ got \in Seq(FieldSet)
    BY <1>1, <1>2, OrderType DEF IndInv
<1>4. Wanted \in FieldTypes
    BY <1>3 DEF Wanted, Remaining
<1> QED BY <1>4, PodsAssumption DEF Width

-----------------------------------------------------------------------------
(* IndInv holds, action by action.                                         *)

LEMMA InitInd == Init => IndInv
<1> SUFFICES ASSUME Init PROVE IndInv
    OBVIOUS
<1>0. MaxPlayers \in Nat
    BY PlayersAssumption, SMT DEF FitsWord
<1>1. TypeOK
    BY <1>0 DEF Init, TypeOK
<1>2. kind \in Structs /\ players \in Nat
    BY <1>1, PlayersFit DEF TypeOK
<1>3. WriteOrder(kind, players) \in Seq(FieldTypes)
    BY <1>2, OrderType
<1>4. IsTrail(<< <<>> >>) /\ body = << <<>> >>[Len(fields) + 1 - Len(got)]
    BY DEF Init, IsTrail
<1> QED BY <1>1, <1>3, <1>4 DEF Init, IndInv

LEMMA WriteFieldInd == IndInv /\ WriteField => IndInv'
<1> SUFFICES ASSUME IndInv, WriteField PROVE IndInv'
    OBVIOUS
<1> DEFINE w == WriteOrder(kind, players)
           n == Len(fields)
           type == w[n + 1]
<1>1. /\ kind \in Structs /\ players \in Nat /\ body \in Seq(Byte)
      /\ fields \in Seq(FieldSet) /\ n \in Nat /\ n < Len(w)
      /\ got = <<>> /\ phase = "write" /\ phase' = "write"
      /\ UNCHANGED <<kind, players, got, readAs>>
    BY PlayersFit DEF IndInv, TypeOK, WriteField, readAs
<1>2. w \in Seq(FieldTypes)
    BY <1>1, OrderType
<1>3. type \in FieldTypes
    BY <1>1, <1>2
<1>4. PICK v \in ValuesOf(type) :
        /\ fields' = Append(fields, [type |-> type, bytes |-> v])
        /\ body' = IF type = "text" THEN PutText(body, v) ELSE Put(body, v)
    BY DEF WriteField
<1> DEFINE f == [type |-> type, bytes |-> v]
<1>5. v \in Seq(Byte) /\ (type = "text" => FitsWord(Len(v)))
    BY <1>3, ValueType DEF IndInv
<1>6. f \in FieldSet /\ f.type = type /\ f.bytes = v
    BY <1>3, <1>5 DEF FieldSet
<1>7. body' = Above(body, f) /\ body' \in Seq(Byte)
    BY <1>1, <1>4, <1>5, <1>6, AboveType DEF Above
<1> HIDE DEF w, type, f
<1>8. /\ fields' = Append(fields, f) /\ fields' \in Seq(FieldSet) /\ Len(fields') = n + 1
      /\ fields'[n + 1] = f /\ \A i \in 1..n : fields'[i] = fields[i]
    BY <1>1, <1>4, <1>6 DEF f
<1>9. TypeOK'
  <2>1. size' = Len(body')
      BY DEF WriteField, SizeAfter
  <2>2. \A t \in FieldTypes : ValuesOf(t)' = ValuesOf(t)
      BY <1>1 DEF ValuesOf
  <2>3. \A i \in 1..(n + 1) :
           fields'[i].type \in FieldTypes /\ fields'[i].bytes \in ValuesOf(fields'[i].type)
      BY <1>1, <1>3, <1>4, <1>6, <1>8 DEF IndInv, TypeOK
  <2>4. DOMAIN fields' = 1..(n + 1)
      BY <1>8
  <2> QED BY <1>1, <1>7, <2>1, <2>2, <2>3, <2>4 DEF IndInv, TypeOK
<1>10. \A i \in 1..(n + 1) : fields'[i].type = w[i]
    BY <1>1, <1>6, <1>8 DEF IndInv, w, type
<1>11. ASSUME readAs = kind
       PROVE  \E bodies : IsTrail(bodies)' /\ body' = bodies[n + 2]
  <2>1. PICK bodies : IsTrail(bodies) /\ body = bodies[n + 1]
      BY <1>1, <1>11 DEF IndInv
  <2>2. /\ bodies \in Seq(Seq(Byte)) /\ Len(bodies) = n + 1 /\ bodies[1] = <<>>
        /\ \A i \in 1..n : bodies[i + 1] = Above(bodies[i], fields[i])
      BY <2>1 DEF IsTrail
  <2> DEFINE appended == Append(bodies, body')
  <2>a. /\ appended \in Seq(Seq(Byte)) /\ Len(appended) = n + 2 /\ appended[n + 2] = body'
        /\ \A i \in 1..(n + 1) : appended[i] = bodies[i]
      BY <1>1, <1>7, <2>2
  <2> HIDE DEF appended
  <2>3. PICK longer :
           /\ longer \in Seq(Seq(Byte)) /\ Len(longer) = n + 2 /\ longer[n + 2] = body'
           /\ \A i \in 1..(n + 1) : longer[i] = bodies[i]
      BY <2>a
  <2>4. \A i \in 1..(n + 1) : longer[i + 1] = Above(longer[i], fields'[i])
    <3> TAKE i \in 1..(n + 1)
    <3>1. CASE i = n + 1
      <4>1. i + 1 = n + 2 /\ i \in 1..(n + 1)
          BY <1>1, <3>1
      <4>2. longer[i + 1] = body'
          BY <2>3, <4>1
      <4>3. longer[i] = bodies[i]
          BY <2>3, <4>1
      <4>4. bodies[i] = body /\ fields'[i] = f
          BY <1>8, <2>1, <3>1
      <4> QED BY <1>7, <4>2, <4>3, <4>4
    <3>2. CASE i \in 1..n
      <4>1. i + 1 \in 1..(n + 1)
          BY <1>1, <3>2
      <4>2. longer[i + 1] = bodies[i + 1] /\ longer[i] = bodies[i] /\ fields'[i] = fields[i]
          BY <1>8, <2>3, <3>2, <4>1
      <4> QED BY <2>2, <3>2, <4>2
    <3> QED BY <1>1, <3>1, <3>2
  <2>5. IsTrail(longer)'
    <3>1. longer[1] = <<>> /\ Len(longer) = Len(fields') + 1 /\ Len(fields') = n + 1
        BY <1>1, <1>8, <2>2, <2>3
    <3> QED BY <2>3, <2>4, <3>1 DEF IsTrail
  <2> QED BY <2>3, <2>5
<1>12. n + 1 <= Len(w)
    BY <1>1, <1>2
<1> QED BY <1>1, <1>8, <1>9, <1>10, <1>11, <1>12 DEF IndInv, w

LEMMA DeliverInd == IndInv /\ Deliver => IndInv'
<1> SUFFICES ASSUME IndInv, Deliver PROVE IndInv'
    OBVIOUS
<1>1. TypeOK'
    BY DEF IndInv, TypeOK, Deliver, ValuesOf
<1>2. \A bodies : IsTrail(bodies)' <=> IsTrail(bodies)
    BY DEF IsTrail, Deliver
<1> QED BY <1>1, <1>2 DEF IndInv, Deliver, readAs

LEMMA ReadDoneInd == IndInv /\ ReadDone => IndInv'
<1> SUFFICES ASSUME IndInv, ReadDone PROVE IndInv'
    OBVIOUS
<1>1. TypeOK'
    BY DEF IndInv, TypeOK, ReadDone, ValuesOf
<1>2. \A bodies : IsTrail(bodies)' <=> IsTrail(bodies)
    BY DEF IsTrail, ReadDone
<1>3. readAs = kind => Len(got) = Len(fields)
    BY ReadsMirrorWrites DEF ReadDone
<1> QED BY <1>1, <1>2, <1>3 DEF IndInv, ReadDone, readAs

\* What a read takes from a rightly labelled message, and what it leaves.
LEMMA TopField ==
    ASSUME IndInv, phase = "read", readAs = kind, Remaining > 0
    PROVE  LET n == Len(fields) - Len(got)
           IN  /\ n \in 1..Len(fields) /\ Wanted = fields[n].type
               /\ fields[n] \in FieldSet
               /\ \E bodies :
                    /\ IsTrail(bodies)
                    /\ bodies[n] \in Seq(Byte) /\ body = Above(bodies[n], fields[n])
<1> DEFINE n == Len(fields) - Len(got)
<1>1. fields \in Seq(FieldSet) /\ got \in Seq(FieldSet)
    BY DEF IndInv
<1>2. n \in 1..Len(fields) /\ Wanted = fields[n].type
    BY <1>1, ReadsMirrorWrites
<1>3. fields[n] \in FieldSet
    BY <1>2, WrittenFields
<1>4. PICK bodies : IsTrail(bodies) /\ body = bodies[Len(fields) + 1 - Len(got)]
    BY DEF IndInv
<1>5. Len(fields) + 1 - Len(got) = n + 1
    BY <1>1
<1> HIDE DEF n
<1>6. bodies[n] \in Seq(Byte) /\ bodies[n + 1] = Above(bodies[n], fields[n])
    BY <1>1, <1>2, <1>4 DEF IsTrail
<1> QED BY <1>2, <1>3, <1>4, <1>5, <1>6 DEF n

\* A read that takes the top field keeps the rest of IndInv.
LEMMA TakeInd ==
    ASSUME IndInv, phase = "read", Remaining > 0,
           NEW v, NEW rest, v \in Seq(Byte), rest \in Seq(Byte), Take(v, rest),
           readAs = kind =>
              \E bodies : /\ IsTrail(bodies) /\ rest = bodies[Len(fields) - Len(got)]
                          /\ v = fields[Len(fields) - Len(got)].bytes
    PROVE  IndInv'
<1> DEFINE f == [type |-> Wanted, bytes |-> v]
<1>1. /\ got' = Append(got, f) /\ body' = rest /\ size' = Len(rest)
      /\ UNCHANGED <<kind, players, fields, phase, readAs>>
    BY DEF Take, SizeAfter, readAs
<1>2. f \in FieldSet
    BY WantedType DEF FieldSet
<1>3. TypeOK'
    BY <1>1 DEF IndInv, TypeOK, ValuesOf
<1>4. \A bodies : IsTrail(bodies)' <=> IsTrail(bodies)
    BY <1>1 DEF IsTrail
<1>5. fields \in Seq(FieldSet) /\ got \in Seq(FieldSet)
    BY DEF IndInv
<1> HIDE DEF f
<1>6. /\ got' \in Seq(FieldSet) /\ Len(got') = Len(got) + 1 /\ got'[Len(got) + 1] = f
      /\ \A i \in 1..Len(got) : got'[i] = got[i]
    BY <1>1, <1>2, <1>5
<1>7. ASSUME readAs = kind
      PROVE  /\ Len(got') <= Len(fields)
             /\ \A i \in 1..Len(got') : got'[i] = fields[Len(fields) + 1 - i]
             /\ \E bodies : IsTrail(bodies) /\ rest = bodies[Len(fields) + 1 - Len(got')]
  <2> DEFINE n == Len(fields) - Len(got)
  <2>1. n \in 1..Len(fields) /\ Wanted = fields[n].type /\ fields[n] \in FieldSet
      BY <1>7, TopField
  <2>2. v = fields[n].bytes
      BY <1>7
  <2>3. fields[n] = f
      BY <2>1, <2>2 DEF f, FieldSet
  <2>4. \A i \in 1..Len(got) : got[i] = fields[Len(fields) + 1 - i]
      BY <1>7 DEF IndInv
  <2>5. Len(fields) + 1 - (Len(got) + 1) = n
      BY <1>5
  <2>6. Len(got') <= Len(fields)
      BY <1>5, <1>6, <2>1
  <2>7. \A i \in 1..Len(got') : got'[i] = fields[Len(fields) + 1 - i]
    <3> TAKE i \in 1..Len(got')
    <3>1. CASE i = Len(got) + 1
        BY <1>6, <2>3, <2>5, <3>1
    <3>2. CASE i \in 1..Len(got)
        BY <1>6, <2>4, <3>2
    <3> QED BY <1>5, <1>6, <3>1, <3>2
  <2> QED BY <1>6, <1>7, <2>5, <2>6, <2>7
<1> QED BY <1>1, <1>3, <1>4, <1>5, <1>6, <1>7 DEF IndInv

LEMMA ReadPodInd == IndInv /\ ReadPod => IndInv'
<1> SUFFICES ASSUME IndInv, ReadPod PROVE IndInv'
    OBVIOUS
<1> DEFINE k == Width(Wanted)
<1>1. phase = "read" /\ Remaining > 0 /\ Wanted # "text" /\ Len(body) >= k
      /\ Take(Last(body, k), Without(body, k)) /\ body \in Seq(Byte)
    BY DEF ReadPod, IndInv, TypeOK
<1>2. k \in 0..Len(body)
    BY <1>1, WantedType
<1>3. Last(body, k) \in Seq(Byte) /\ Without(body, k) \in Seq(Byte)
    BY <1>1, <1>2, TakeType
<1>4. ASSUME readAs = kind
      PROVE  \E bodies : /\ IsTrail(bodies)
                         /\ Without(body, k) = bodies[Len(fields) - Len(got)]
                         /\ Last(body, k) = fields[Len(fields) - Len(got)].bytes
  <2> DEFINE n == Len(fields) - Len(got)
  <2>1. n \in 1..Len(fields) /\ Wanted = fields[n].type /\ fields[n] \in FieldSet
      BY <1>1, <1>4, TopField
  <2>2. PICK bodies : /\ IsTrail(bodies) /\ bodies[n] \in Seq(Byte)
                      /\ body = Above(bodies[n], fields[n])
      BY <1>1, <1>4, TopField
  <2>3. fields[n].bytes \in Seq(Byte) /\ Len(fields[n].bytes) = k
      BY <1>1, <2>1, WrittenFields DEF FieldSet
  <2>4. body = Put(bodies[n], fields[n].bytes)
      BY <1>1, <2>1, <2>2 DEF Above
  <2> HIDE DEF n, k
  <2>5. Last(body, k) = fields[n].bytes /\ Without(body, k) = bodies[n]
      BY <2>2, <2>3, <2>4, PodBack
  <2> QED BY <2>2, <2>5 DEF n
<1> HIDE DEF k
<1> QED BY <1>1, <1>3, <1>4, TakeInd

LEMMA ReadTextInd == IndInv /\ ReadText => IndInv'
<1> SUFFICES ASSUME IndInv, ReadText PROVE IndInv'
    OBVIOUS
<1> DEFINE chars == Without(body, 4)
           k == TextLength(body)
<1>1. phase = "read" /\ Remaining > 0 /\ Wanted = "text" /\ Len(body) >= 4
      /\ Len(body) - 4 >= k /\ Take(Last(chars, k), Without(chars, k)) /\ body \in Seq(Byte)
    BY DEF ReadText, IndInv, TypeOK
<1>2. /\ chars \in Seq(Byte) /\ Len(chars) = Len(body) - 4
      /\ Last(body, 4) \in Seq(Byte) /\ Len(Last(body, 4)) = 4
  <2>1. 4 \in 0..Len(body)
      BY <1>1
  <2> QED BY <1>1, <2>1, TakeType
<1>3. k \in Nat
    BY <1>2, NumberNat DEF TextLength
<1>4. Last(chars, k) \in Seq(Byte) /\ Without(chars, k) \in Seq(Byte)
  <2> HIDE DEF chars, k
  <2>1. k \in 0..Len(chars)
      BY <1>1, <1>2, <1>3
  <2> QED BY <1>2, <2>1, TakeType
<1>5. ASSUME readAs = kind
      PROVE  \E bodies : /\ IsTrail(bodies)
                         /\ Without(chars, k) = bodies[Len(fields) - Len(got)]
                         /\ Last(chars, k) = fields[Len(fields) - Len(got)].bytes
  <2> DEFINE n == Len(fields) - Len(got)
  <2>1. n \in 1..Len(fields) /\ Wanted = fields[n].type /\ fields[n] \in FieldSet
      BY <1>1, <1>5, TopField
  <2>2. PICK bodies : /\ IsTrail(bodies) /\ bodies[n] \in Seq(Byte)
                      /\ body = Above(bodies[n], fields[n])
      BY <1>1, <1>5, TopField
  <2>3. fields[n].bytes \in Seq(Byte) /\ FitsWord(Len(fields[n].bytes))
      BY <1>1, <2>1, WrittenFields DEF FieldSet
  <2>4. body = PutText(bodies[n], fields[n].bytes)
      BY <1>1, <2>1, <2>2 DEF Above
  <2> HIDE DEF n
  <2>5. /\ k = Len(fields[n].bytes)
        /\ Last(chars, k) = fields[n].bytes /\ Without(chars, k) = bodies[n]
      BY <2>2, <2>3, <2>4, TextBack
  <2> QED BY <2>2, <2>5 DEF n
<1> HIDE DEF chars, k
<1> QED BY <1>1, <1>4, <1>5, TakeInd

LEMMA ReadOutsideInd == IndInv /\ ReadOutside => IndInv'
<1> SUFFICES ASSUME IndInv, ReadOutside PROVE IndInv'
    OBVIOUS
<1>1. TypeOK'
    BY DEF IndInv, TypeOK, ReadOutside, ValuesOf
<1>2. ASSUME readAs = kind PROVE FALSE
  <2> DEFINE n == Len(fields) - Len(got)
  <2>1. phase = "read" /\ Remaining > 0
      BY DEF ReadOutside
  <2>2. n \in 1..Len(fields) /\ Wanted = fields[n].type
      BY <1>2, <2>1, TopField
  <2>3. PICK bodies : bodies[n] \in Seq(Byte) /\ body = Above(bodies[n], fields[n])
      BY <1>2, <2>1, TopField
  <2>4. /\ fields[n] \in FieldSet
        /\ fields[n].type = "text" => FitsWord(Len(fields[n].bytes))
        /\ fields[n].type # "text" => Len(fields[n].bytes) = Width(fields[n].type)
      BY <2>2, WrittenFields
  <2> HIDE DEF n
  <2>5. ~(Len(body) < Width(Wanted)) /\ (Wanted = "text" => ~(Len(body) - 4 < TextLength(body)))
      BY <2>2, <2>3, <2>4, FieldInside
  <2> QED BY <2>5 DEF ReadOutside
<1> QED BY <1>1, <1>2 DEF IndInv, ReadOutside, readAs

LEMMA StutterInd == IndInv /\ UNCHANGED vars => IndInv'
<1> SUFFICES ASSUME IndInv, UNCHANGED vars PROVE IndInv'
    OBVIOUS
<1>1. TypeOK'
    BY DEF IndInv, TypeOK, vars, ValuesOf
<1>2. \A bodies : IsTrail(bodies)' <=> IsTrail(bodies)
    BY DEF IsTrail, vars
<1> QED BY <1>1, <1>2 DEF IndInv, vars, readAs

LEMMA Invariance == Spec => []IndInv
<1>1. IndInv /\ [Next]_vars => IndInv'
    BY WriteFieldInd, DeliverInd, ReadPodInd, ReadTextInd, ReadOutsideInd, ReadDoneInd,
       StutterInd DEF Next
<1> QED BY InitInd, <1>1, PTL DEF Spec

-----------------------------------------------------------------------------
(* The theorems.                                                           *)

\* header.size is the length of the body after every operator<< and operator>>,
\* whatever is written and however it is read.
THEOREM TypeCorrect == Spec => []TypeOK
<1>1. IndInv => TypeOK
    BY DEF IndInv
<1> QED BY <1>1, Invariance, PTL

\* Every struct that is read as what it is comes back whole, field by field,
\* for all strings, numbers and lists of players.
THEOREM ComesBackWhole == Spec => []RoundTrip
<1>1. IndInv => RoundTrip
  <2> SUFFICES ASSUME IndInv, phase = "done", readAs = kind
               PROVE  /\ Len(got) = Len(fields)
                      /\ \A i \in 1..Len(fields) : got[i] = fields[Len(fields) + 1 - i]
                      /\ body = <<>>
      BY DEF RoundTrip
  <2>1. Len(got) = Len(fields) /\ \A i \in 1..Len(got) : got[i] = fields[Len(fields) + 1 - i]
      BY DEF IndInv
  <2>2. PICK bodies : IsTrail(bodies) /\ body = bodies[Len(fields) + 1 - Len(got)]
      BY DEF IndInv
  <2>3. Len(fields) + 1 - Len(got) = 1
      BY <2>1 DEF IndInv
  <2> QED BY <2>1, <2>2, <2>3 DEF IsTrail
<1> QED BY <1>1, Invariance, PTL

\* operator>> reads outside the body only in a message whose id names another
\* struct.
THEOREM StaysInside == Spec => []OutsideOnlyIfMislabelled
<1>1. IndInv => OutsideOnlyIfMislabelled
    BY DEF IndInv, OutsideOnlyIfMislabelled
<1> QED BY <1>1, Invariance, PTL
=============================================================================
