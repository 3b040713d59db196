---------------------------- MODULE MessageCodec ----------------------------
(***************************************************************************)
(* The wire format of ClusteredMessage.h: to_cstring writes a frame into a *)
(* buffer of fixed size, to_message takes one apart.  Bytes are numbers,   *)
(* strings are sequences of bytes, int is 32 bits wide.                    *)
(*                                                                         *)
(* One behaviour encodes a message, puts its frame into memory in front of *)
(* whatever lies there (another frame of the same read, or the terminator  *)
(* of c_str() and old bytes) and parses it.                                *)
(***************************************************************************)
EXTENDS Integers, Sequences

CONSTANTS
  Strings,  \* byte strings an address, a host or a body may be
  Ports,    \* ports
  Tails,    \* terminator and old bytes that may follow a frame in memory
  Seconds,  \* messages whose frame may arrive in the same read
  Buffer,   \* the 2048 bytes of to_string
  None      \* _reply holds no string, no second frame, nothing parsed

Byte == 0 .. 255

\* An int: the first of its four bytes has the sign.
Int32 == {i \in Int : ((i \div 256) \div 256) \div 256 \in -128 .. 127}

\* There is memory behind a frame for one more int.
ASSUME CodecAssumption ==
  /\ Strings \subseteq Seq(Byte) /\ None \notin Strings
  /\ Ports \subseteq Int32 /\ Buffer \in Nat \cap Int32
  /\ Tails \subseteq Seq(Byte) /\ \A b \in Tails : Len(b) >= 4

VARIABLES
  msg,     \* the message to send
  second,  \* the message whose frame is read together with it, or None
  old,     \* what lies in memory behind the string that was read
  frame,   \* what to_string returned
  got,     \* what to_message made of it
  stage    \* "built", "sent", "parsed"; "overrun": to_string left its buffer

vars == <<msg, second, old, frame, got, stage>>

Message == [address : Strings, replay : Strings, port : Ports, host : Strings,
            reply : Strings \cup {None}]

-----------------------------------------------------------------------------
(* int <-> four bytes, big-endian, two's complement; i \div 256 is i >> 8.  *)

\* The third byte taken from the wrong place.
set_intMut(i) ==
  <<(((i \div 256) \div 256) \div 256) % 256, ((i \div 256) \div 256) % 256,
    ((i \div 256) \div 256) % 256, i % 256>>

\* \div rounds down, so the bytes of a negative number are those of its two's
\* complement.
set_int(i) ==
  <<(((i \div 256) \div 256) \div 256) % 256, ((i \div 256) \div 256) % 256,
    (i \div 256) % 256, i % 256>>

\* The sign is in the first byte.  b is indexed from 1, startIdx from 0.
int_value(b, startIdx) ==
  LET high == b[startIdx + 1] IN
  (((IF high >= 128 THEN high - 256 ELSE high) * 256 + b[startIdx + 2]) * 256
     + b[startIdx + 3]) * 256 + b[startIdx + 4]

\* The string at startIdx, and the index behind it: a size below one reads nothing.
string_value(b, startIdx) ==
  LET size == int_value(b, startIdx)
      end == startIdx + 4 + (IF size > 0 THEN size ELSE 0) IN
  [value |-> SubSeq(b, startIdx + 5, end), next |-> end]

-----------------------------------------------------------------------------
Str(s) == set_int(Len(s)) \o s

Header(m) ==
  <<1, 9, 0>> \o Str(m.replay) \o Str(m.address) \o set_int(m.port) \o Str(m.host) \o set_int(4)

\* An empty body where there is no reply.
ContentMut(m) == Header(m) \o (IF m.reply = None THEN Str(<<>>) ELSE Str(m.reply))

\* Everything behind the size: the body is there only if _reply is a string.
Content(m) == Header(m) \o (IF m.reply = None THEN <<>> ELSE Str(m.reply))

\* The size includes its own four bytes.
to_cstringMut(m) == set_int(Len(Content(m)) + 4) \o Content(m)

\* The size is written last, over the first four bytes.
to_cstring(m) == set_int(Len(Content(m))) \o Content(m)

\* The fields in the order of the braces: size, version, codec and send, then the
\* two addresses, port, host, headers and body.
to_message(b) ==
  LET address == string_value(b, 7)
      replay == string_value(b, address.next)
      host == string_value(b, replay.next + 4)
      body == string_value(b, host.next + 4) IN
  [size |-> int_value(b, 0), address |-> address.value, replay |-> replay.value,
   port |-> int_value(b, replay.next), host |-> host.value,
   headers |-> int_value(b, host.next), body |-> body.value, next |-> body.next]

\* What is read has been written by a to_string.
ASSUME SecondsAssumption ==
  None \notin Seconds
    /\ \A m \in Seconds : Content(m) \in Seq(Byte) /\ Len(Content(m)) \in Int32

-----------------------------------------------------------------------------
Init ==
  /\ msg \in Message
  /\ second \in Seconds \cup {None}
  /\ old \in Tails
  /\ frame = <<>> /\ got = None /\ stage = "built"

\* Writing past the 2048 bytes of the string is undefined.
to_string ==
  /\ stage = "built"
  /\ IF Len(to_cstring(msg)) <= Buffer
     THEN frame' = to_cstring(msg) /\ stage' = "sent"
     ELSE frame' = frame /\ stage' = "overrun"
  /\ UNCHANGED <<msg, second, old, got>>

\* What lies in memory where the frame was read.
Memory == frame \o (IF second = None THEN <<>> ELSE to_cstring(second)) \o old

\* onMessage takes all that was read for one message.
OnMessage ==
  /\ stage = "sent"
  /\ got' = to_message(Memory)
  /\ stage' = "parsed"
  /\ UNCHANGED <<msg, second, old, frame>>

Next == to_string \/ OnMessage

Spec == Init /\ [][Next]_vars

-----------------------------------------------------------------------------
\* What is parsed is what was sent, the two addresses exchanged (to_cstring
\* writes replay first, to_message reads address first): every field comes back
\* whatever its bytes, its length or its sign, and whatever follows the frame.
RoundTrip ==
  stage = "parsed" =>
    /\ got.address = msg.replay /\ got.replay = msg.address
    /\ got.port = msg.port /\ got.host = msg.host /\ got.headers = 4
    /\ msg.reply # None => got.body = msg.reply

\* The size field, patched in last, delimits the frame, and a frame with a body
\* is read to its end and no further: a reader could split coalesced frames by
\* it, though onMessage never looks at it.
SizeDelimits ==
  stage = "parsed" =>
    /\ got.size = Len(frame) - 4
    /\ msg.reply # None => got.next = Len(frame)

\* A message without a reply (every one the bus sends) has no body on the wire,
\* and to_message takes what lies behind the frame for one: the second frame of
\* a read, size and all, becomes the body of the first.
BodyFromBehind ==
  stage = "parsed" /\ msg.reply = None =>
    /\ got.next >= Len(frame) + 4
    /\ second # None => got.body = Content(second)

=============================================================================
