------------------------------ MODULE WireCodec ------------------------------
(***************************************************************************)
(* The byte formats of the streaming server, and the reader that cuts a    *)
(* connection into SPDY frames: parse_frame on a buffer that grows by      *)
(* whatever a read returns.  Bytes are 0..255; a 32-bit word is its four   *)
(* bytes, so that nothing depends on the width of TLC's integers.  The     *)
(* compression of header blocks (zlib) and JSON are left out.              *)
(***************************************************************************)
EXTENDS Integers, Sequences, SequencesExt

CONSTANTS
  Sent,        \* sequences of frames a client may send
  HeaderLists, \* lists of <<name, value>>, each a sequence of bytes
  Payloads,    \* payloads of websocket frames
  LastDay      \* days since 1970 to which the calendar is followed, and the log dated

SpdyVersion == 3
TypeOf == [SynStream |-> 1, SynReply |-> 2, Rst |-> 3, Settings |-> 4, Ping |-> 6,
           GoAway |-> 7, Headers |-> 8, WindowUpdate |-> 9]

\* How the payload of each control frame begins: four-byte words, then single bytes.  The
\* first word is an id, but in a Ping; so is the second of a SYN_STREAM, and the delta of
\* a WINDOW_UPDATE has 31 bits like an id.
WordsOf == [SynStream |-> 2, SynReply |-> 1, Rst |-> 2, Settings |-> 0, Ping |-> 1,
            GoAway |-> 2, Headers |-> 1, WindowUpdate |-> 2]
IdsOf == [SynStream |-> {1, 2}, SynReply |-> {1}, Rst |-> {1}, Settings |-> {}, Ping |-> {},
          GoAway |-> {1}, Headers |-> {1}, WindowUpdate |-> {1, 2}]
HasFlags == {"SynStream", "SynReply", "Headers"}
HasBlock == {"SynStream", "SynReply", "Headers", "Settings"}

\* & 0x7fff_ffff
Id(w) == [w EXCEPT ![1] = @ % 128]
Word(b, at) == SubSeq(b, at, at + 3)
Length(n) == <<(n \div 65536) % 256, (n \div 256) % 256, n % 256>>

\* The fixed part of a control frame: the words, and for a SYN_STREAM the priority in the
\* upper three bits of a byte, and the slot.
FixedLength(t) == 4 * WordsOf[t] + IF t = "SynStream" THEN 2 ELSE 0
Fixed(f) ==
  FlattenSeq([i \in DOMAIN f.words |-> IF i \in IdsOf[f.type] THEN Id(f.words[i]) ELSE f.words[i]])
    \o IF f.type = "SynStream" THEN <<(f.priority * 32) % 256, 0>> ELSE <<>>

Serialize(f) ==
  IF f.type = "Data" THEN Id(f.words[1]) \o <<f.flags>> \o Length(Len(f.block)) \o f.block
  ELSE LET payload == Fixed(f) \o f.block
       IN <<128 + SpdyVersion \div 256, SpdyVersion % 256, 0, TypeOf[f.type], f.flags>>
            \o Length(Len(payload)) \o payload

\* A frame whose payload is too short for its type is malformed; one that is too long for a
\* type without a block is accepted.
Control(t, flags, payload) ==
  [type |-> t,
   flags |-> IF t \in HasFlags THEN flags ELSE 0,
   priority |-> IF t = "SynStream" THEN payload[9] \div 32 ELSE 0,
   words |-> [i \in 1..WordsOf[t] |->
                LET w == Word(payload, 4 * i - 3) IN IF i \in IdsOf[t] THEN Id(w) ELSE w],
   block |-> IF t \in HasBlock THEN SubSeq(payload, FixedLength(t) + 1, Len(payload)) ELSE <<>>]

NeedMore == [is |-> "more"]
Malformed == [is |-> "error"]
ParseFrame(buf) ==
  IF Len(buf) < 8 THEN NeedMore ELSE
  LET total == 8 + buf[6] * 65536 + buf[7] * 256 + buf[8]
      payload == SubSeq(buf, 9, total)
      types == {t \in DOMAIN TypeOf : TypeOf[t] = buf[3] * 256 + buf[4]}
      t == CHOOSE u \in types : TRUE IN
  IF Len(buf) < total THEN NeedMore
  ELSE IF buf[1] < 128
  THEN [is |-> "frame", used |-> total,
        frame |-> [type |-> "Data", flags |-> buf[5], priority |-> 0,
                   words |-> <<Id(Word(buf, 1))>>, block |-> payload]]
  ELSE IF (buf[1] - 128) * 256 + buf[2] # SpdyVersion \/ types = {} \/ Len(payload) < FixedLength(t)
  THEN Malformed
  ELSE [is |-> "frame", used |-> total, frame |-> Control(t, buf[5], payload)]
-----------------------------------------------------------------------------
(* Header blocks.  A word that counts or measures is below 2^24 here.      *)

Number(w) == w[2] * 65536 + w[3] * 256 + w[4]
Size(n) == <<0>> \o Length(n)

SerializeHeaders(h) ==
  Size(Len(h)) \o FlattenSeq([i \in DOMAIN h |->
    Size(Len(h[i][1])) \o h[i][1] \o Size(Len(h[i][2])) \o h[i][2]])

MaxHeaders == 1024
Truncated == [ok |-> FALSE, pos |-> 0, out |-> <<>>]

\* One string: its length, its bytes.
TakeString(st, buf) ==
  IF ~st.ok \/ st.pos + 4 > Len(buf) THEN Truncated
  ELSE LET n == Number(Word(buf, st.pos + 1))  end == st.pos + 4 + n IN
       IF end > Len(buf) THEN Truncated
       ELSE [ok |-> TRUE, pos |-> end, out |-> Append(st.out, SubSeq(buf, st.pos + 5, end))]

DeserializeHeaders(buf) ==
  IF Len(buf) < 4 THEN Truncated ELSE
  LET count == Number(Word(buf, 1))
      strings == FoldLeft(LAMBDA st, i : TakeString(st, buf), [ok |-> TRUE, pos |-> 4, out |-> <<>>],
                          [i \in 1..(2 * count) |-> i]) IN
  IF count > MaxHeaders \/ ~strings.ok THEN Truncated
  ELSE [ok |-> TRUE, pos |-> strings.pos,
        out |-> [i \in 1..count |-> <<strings.out[2 * i - 1], strings.out[2 * i]>>]]
-----------------------------------------------------------------------------
(* Websocket frames: a channel byte, or a digit and base64, whose symbols  *)
(* are their values 0..63 here, Pad, a line break and whatever else.        *)

Pad == 64
Break == 65
Else == 66
Digit(ch) == 48 + ch
EncodeBinary(ch, p) == <<ch>> \o p
DecodeBinary(f) == IF f = <<>> THEN Truncated ELSE [ok |-> TRUE, pos |-> Head(f), out |-> Tail(f)]

EncodeChunk(c) ==
  LET n == c[1] * 65536 + (IF Len(c) > 1 THEN c[2] * 256 ELSE 0) + (IF Len(c) > 2 THEN c[3] ELSE 0)
      all == <<n \div 262144, (n \div 4096) % 64, (n \div 64) % 64, n % 64>>
  IN [i \in 1..4 |-> IF i <= Len(c) + 1 THEN all[i] ELSE Pad]

EncodeStd(p) ==
  FlattenSeq([k \in 1..((Len(p) + 2) \div 3) |->
    EncodeChunk(SubSeq(p, 3 * k - 2, IF 3 * k < Len(p) THEN 3 * k ELSE Len(p)))])

\* A symbol that is none makes it fail, whatever comes after.
Invalid(st) == [st EXCEPT !.ok = FALSE]

\* Mutant: a byte is taken out when there are more than eight bits.
Bug_DecodeStep(st, v) ==
  IF v \in {Pad, Break} THEN st ELSE IF v = Else THEN Invalid(st) ELSE
  LET acc == (st.acc * 64 + v) % 65536  bits == st.bits + 6 IN
  IF bits <= 8 THEN [st EXCEPT !.acc = acc, !.bits = bits]
  ELSE [st EXCEPT !.acc = acc, !.bits = bits - 8, !.out = Append(@, (acc \div 2 ^ (bits - 8)) % 256)]

\* The accumulator is a u32 of which at most 14 bits are used.
DecodeStep(st, v) ==
  IF v \in {Pad, Break} THEN st ELSE IF v = Else THEN Invalid(st) ELSE
  LET acc == (st.acc * 64 + v) % 65536  bits == st.bits + 6 IN
  IF bits < 8 THEN [st EXCEPT !.acc = acc, !.bits = bits]
  ELSE [st EXCEPT !.acc = acc, !.bits = bits - 8, !.out = Append(@, (acc \div 2 ^ (bits - 8)) % 256)]
DecodeStd(s) == FoldLeft(DecodeStep, [ok |-> TRUE, acc |-> 0, bits |-> 0, out |-> <<>>], s)

EncodeBase64(ch, p) == <<Digit(ch)>> \o EncodeStd(p)
DecodeBase64(f) ==
  IF f = <<>> \/ Head(f) \notin 48..57 THEN Truncated
  ELSE LET d == DecodeStd(Tail(f))
       IN IF d.ok THEN [ok |-> TRUE, pos |-> Head(f) - 48, out |-> d.out] ELSE Truncated
-----------------------------------------------------------------------------
(* The date of a log line, from the days since 1970 (epoch_to_ymd_hms).    *)

\* Mutant: no correction for centuries.
Bug_Ymd(days) ==
  LET z == days + 719468
      era == z \div 146097
      doe == z % 146097
      yoe == (doe - doe \div 1460) \div 365
      doy == doe - (365 * yoe + yoe \div 4 - yoe \div 100)
      mp == (5 * doy + 2) \div 153
      mo == IF mp < 10 THEN mp + 3 ELSE mp - 9
  IN <<yoe + era * 400 + (IF mo <= 2 THEN 1 ELSE 0), mo, doy - (153 * mp + 2) \div 5 + 1>>

Ymd(days) ==
  LET z == days + 719468
      era == z \div 146097
      doe == z % 146097
      yoe == (doe - doe \div 1460 + doe \div 36524 - doe \div 146096) \div 365
      doy == doe - (365 * yoe + yoe \div 4 - yoe \div 100)
      mp == (5 * doy + 2) \div 153
      mo == IF mp < 10 THEN mp + 3 ELSE mp - 9
  IN <<yoe + era * 400 + (IF mo <= 2 THEN 1 ELSE 0), mo, doy - (153 * mp + 2) \div 5 + 1>>

\* The reference: the calendar.
Leap(y) == y % 4 = 0 /\ (y % 100 = 0 => y % 400 = 0)
DaysIn(y, mo) ==
  IF mo = 2 THEN IF Leap(y) THEN 29 ELSE 28 ELSE IF mo \in {4, 6, 9, 11} THEN 30 ELSE 31
Tomorrow(d) ==
  IF d[3] < DaysIn(d[1], d[2]) THEN <<d[1], d[2], d[3] + 1>>
  ELSE IF d[2] < 12 THEN <<d[1], d[2] + 1, 1>> ELSE <<d[1] + 1, 1, 1>>
-----------------------------------------------------------------------------
VARIABLES
  cd_sent,    \* the frames of the client
  cd_wire,    \* their bytes that are still on their way
  cd_buf,     \* the buffer of read_frame
  cd_got,     \* the frames it has returned
  cd_failed   \* has it returned an error?

cdvars == <<cd_sent, cd_wire, cd_buf, cd_got, cd_failed>>

\* A client may also send a frame that is malformed, given by its bytes.
BytesOf(f) == IF f.type = "raw" THEN f.bytes ELSE Serialize(f)

Init ==
  /\ cd_sent \in Sent
  /\ cd_wire = FlattenSeq([i \in DOMAIN cd_sent |-> BytesOf(cd_sent[i])])
  /\ cd_buf = <<>> /\ cd_got = <<>> /\ cd_failed = FALSE

\* A read returns some of what is there.
Read ==
  /\ ~cd_failed /\ ParseFrame(cd_buf) = NeedMore
  /\ \E n \in 1..Len(cd_wire) :
       /\ cd_buf' = cd_buf \o SubSeq(cd_wire, 1, n)
       /\ cd_wire' = SubSeq(cd_wire, n + 1, Len(cd_wire))
  /\ UNCHANGED <<cd_sent, cd_got, cd_failed>>

\* Mutant: what the buffer holds after the frame is dropped with it.
Bug_Return ==
  LET r == ParseFrame(cd_buf) IN
  /\ ~cd_failed /\ r.is = "frame"
  /\ cd_got' = Append(cd_got, r.frame)
  /\ cd_buf' = <<>>
  /\ UNCHANGED <<cd_sent, cd_wire, cd_failed>>

Return ==
  LET r == ParseFrame(cd_buf) IN
  /\ ~cd_failed /\ r.is = "frame"
  /\ cd_got' = Append(cd_got, r.frame)
  /\ cd_buf' = SubSeq(cd_buf, r.used + 1, Len(cd_buf))
  /\ UNCHANGED <<cd_sent, cd_wire, cd_failed>>

Fail ==
  /\ ~cd_failed /\ ParseFrame(cd_buf) = Malformed
  /\ cd_failed' = TRUE
  /\ UNCHANGED <<cd_sent, cd_wire, cd_buf, cd_got>>

Next == Read \/ Return \/ Fail

Spec == Init /\ [][Next]_cdvars
-----------------------------------------------------------------------------
\* The frames up to the first malformed one.
WellFormed ==
  LET bad == {i \in DOMAIN cd_sent : cd_sent[i].type = "raw"}
  IN IF bad = {} THEN cd_sent ELSE SubSeq(cd_sent, 1, (CHOOSE i \in bad : \A j \in bad : i <= j) - 1)

\* However the connection is cut into reads, the server gets the frames the client sent,
\* in order, up to one that is malformed, and none is lost when all has arrived.
FramesReassembled ==
  /\ IsPrefix(cd_got, WellFormed)
  /\ cd_failed => cd_got = WellFormed /\ cd_got # cd_sent
  /\ (cd_wire = <<>> /\ ParseFrame(cd_buf) = NeedMore) => cd_got = cd_sent

\* The rest is about functions of their arguments: one state is enough to look at them.
Idle == cd_sent = <<>>

\* What one side encodes the other decodes: header blocks, whole but not cut short, and
\* websocket frames in both framings, broken into lines or not, but nothing with a symbol
\* that is not of the alphabet.
RoundTrips ==
  Idle =>
    /\ \A h \in HeaderLists :
         /\ DeserializeHeaders(SerializeHeaders(h)).out = h
         /\ \A n \in 1..Len(SerializeHeaders(h)) :
              ~DeserializeHeaders(SubSeq(SerializeHeaders(h), 1, n - 1)).ok
    /\ \A ch \in 0..4, p \in Payloads :
         /\ DecodeBinary(EncodeBinary(ch, p)) = [ok |-> TRUE, pos |-> ch, out |-> p]
         /\ LET sent == EncodeBase64(ch, p) IN
            /\ DecodeBase64(sent) = [ok |-> TRUE, pos |-> ch, out |-> p]
            /\ \A at \in 1..Len(sent) :
                 /\ DecodeBase64(InsertAt(sent, at + 1, Break)).out = p
                 /\ ~DecodeBase64(InsertAt(sent, at + 1, Else)).ok

\* The date in the log starts right and moves as the calendar does, leap years of every
\* kind included.
DateIsCalendar ==
  Idle => /\ Ymd(0) = <<1970, 1, 1>>
          /\ \A day \in 1..LastDay : Ymd(day) = Tomorrow(Ymd(day - 1))
=============================================================================
