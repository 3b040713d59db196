---------------------------- MODULE DiscoveryProofs ----------------------------
(***************************************************************************)
(* One address for a node, however the cluster learns of it: theorems      *)
(* about Discovery for any hosts, ports and setters, on top of those about *)
(* the codec.                                                              *)
(***************************************************************************)
EXTENDS Discovery, SequenceTheorems, TLAPS

-----------------------------------------------------------------------------
(* Four bytes and an int.                                                  *)

LEMMA SetIntBytes ==
  \A i \in Int : set_int(i) \in Seq(Byte) /\ Len(set_int(i)) = 4
BY DEF set_int, Byte

LEMMA SmallerInt == \A n \in Nat \cap Int32 : \A k \in 0 .. n : k \in Int32
BY DEF Int32

\* The four bytes make up the number again.
LEMMA Digits ==
  ASSUME NEW i \in Int32, NEW h, NEW x, NEW y, NEW z,
         h = (((i \div 256) \div 256) \div 256) % 256, x = ((i \div 256) \div 256) % 256,
         y = (i \div 256) % 256, z = i % 256
  PROVE  (((IF h >= 128 THEN h - 256 ELSE h) * 256 + x) * 256 + y) * 256 + z = i
<1>1. i \in Int
  BY DEF Int32
<1>2. PICK a \in Int : a = i \div 256 /\ i = a * 256 + z /\ z \in Byte
  BY <1>1 DEF Byte
<1>3. PICK b \in Int : b = a \div 256 /\ a = b * 256 + y /\ y \in Byte
  BY <1>2 DEF Byte
<1>4. PICK c \in Int : c = b \div 256 /\ b = c * 256 + x /\ x \in Byte
  BY <1>2, <1>3 DEF Byte
<1>5. c \in -128 .. 127
  BY <1>2, <1>3, <1>4 DEF Int32
<1>6. h = c % 256
  BY <1>2, <1>3, <1>4
<1>7. PICK d : d = IF h >= 128 THEN h - 256 ELSE h
  OBVIOUS
<1>8. d = c
  BY <1>5, <1>6, <1>7
<1>9. ((d * 256 + x) * 256 + y) * 256 + z = i
  BY <1>2, <1>3, <1>4, <1>8
<1> QED  BY <1>7, <1>9

-----------------------------------------------------------------------------
(* Where a piece of a frame lies in memory.                                *)

\* The bytes of s lie at the index k of b, counted from 0.
Placed(b, k, s) == \A j \in 1 .. Len(s) : b[k + j] = s[j]

LEMMA PlacedFirst ==
  ASSUME NEW s \in Seq(Byte), NEW t \in Seq(Byte)
  PROVE  Placed(s \o t, 0, s)
<1>1. \A j \in 1 .. Len(s) : (s \o t)[j] = s[j]
  BY ConcatProperties
<1> QED  BY <1>1 DEF Placed

LEMMA PlacedSecond ==
  ASSUME NEW s \in Seq(Byte), NEW t \in Seq(Byte)
  PROVE  Placed(s \o t, Len(s), t)
<1>1. \A j \in 1 .. Len(t) : (s \o t)[Len(s) + j] = t[j]
  <2> SUFFICES ASSUME NEW j \in 1 .. Len(t)  PROVE (s \o t)[Len(s) + j] = t[j]
    OBVIOUS
  <2>1. PICK m \in Nat, n \in Nat, i \in Nat : m = Len(s) /\ n = Len(t) /\ i = m + j
    OBVIOUS
  <2>2. i \in 1 .. m + n /\ i > m /\ i - m = j
    BY <2>1
  <2>3. (s \o t)[i] = IF i <= m THEN s[i] ELSE t[i - m]
    BY <2>1, <2>2, ConcatProperties
  <2> QED  BY <2>1, <2>2, <2>3
<1> QED  BY <1>1 DEF Placed

\* The pieces of a piece.
LEMMA PlacedPieces ==
  ASSUME NEW b, NEW k \in Nat, NEW s \in Seq(Byte), NEW t \in Seq(Byte), Placed(b, k, s \o t)
  PROVE  /\ s \o t \in Seq(Byte) /\ Len(s \o t) = Len(s) + Len(t)
         /\ Placed(b, k, s) /\ Placed(b, k + Len(s), t)
<1>1. PICK m \in Nat, n \in Nat : m = Len(s) /\ n = Len(t)
  OBVIOUS
<1>2. s \o t \in Seq(Byte) /\ Len(s \o t) = m + n
  BY <1>1, ConcatProperties
<1>3. ASSUME NEW j \in 1 .. m  PROVE b[k + j] = s[j]
  <2>1. j \in 1 .. m + n
    BY <1>1
  <2> QED  BY <1>1, <1>2, <2>1, PlacedFirst DEF Placed
<1>4. ASSUME NEW j \in 1 .. n  PROVE b[(k + m) + j] = t[j]
  <2>1. PICK i \in 1 .. m + n : i = m + j
    BY <1>1
  <2>2. b[k + i] = (s \o t)[i]
    BY <1>2, <2>1 DEF Placed
  <2>3. (s \o t)[i] = t[j]
    BY <1>1, <2>1, PlacedSecond DEF Placed
  <2>4. k + i = (k + m) + j
    BY <2>1
  <2> QED  BY <2>2, <2>3, <2>4
<1> QED  BY <1>1, <1>2, <1>3, <1>4 DEF Placed

\* A piece stays where it is when something lies behind.
LEMMA PlacedBefore ==
  ASSUME NEW s \in Seq(Byte), NEW t \in Seq(Byte), NEW k \in Nat, NEW x \in Seq(Byte),
         Placed(s, k, x), k + Len(x) <= Len(s)
  PROVE  Placed(s \o t, k, x)
<1> SUFFICES ASSUME NEW j \in 1 .. Len(x)  PROVE (s \o t)[k + j] = x[j]
  BY DEF Placed
<1>1. PICK n \in Nat : n = Len(x)
  OBVIOUS
<1>2. PICK m \in Nat : m = Len(s)
  OBVIOUS
<1>3. PICK i \in 1 .. m : i = k + j
  BY <1>1, <1>2
<1>4. (s \o t)[i] = s[i]
  BY <1>2, <1>3, PlacedFirst DEF Placed
<1> QED  BY <1>3, <1>4 DEF Placed

-----------------------------------------------------------------------------
(* Reading what was written.                                               *)

\* int_value takes back what set_int put there.
LEMMA IntRead ==
  ASSUME NEW b, NEW k \in Nat, NEW i \in Int32, Placed(b, k, set_int(i))
  PROVE  int_value(b, k) = i
<1>1. PICK q : q = set_int(i)
  OBVIOUS
<1>2. Len(q) = 4
  BY <1>1, SetIntBytes DEF Int32
<1>3. b[k + 1] = q[1] /\ b[k + 2] = q[2] /\ b[k + 3] = q[3] /\ b[k + 4] = q[4]
  BY <1>1, <1>2 DEF Placed
<1>4. /\ q[1] = (((i \div 256) \div 256) \div 256) % 256 /\ q[2] = ((i \div 256) \div 256) % 256
      /\ q[3] = (i \div 256) % 256 /\ q[4] = i % 256
  BY <1>1 DEF set_int
<1>5. int_value(b, k) =
        (((IF q[1] >= 128 THEN q[1] - 256 ELSE q[1]) * 256 + q[2]) * 256 + q[3]) * 256 + q[4]
  BY <1>3 DEF int_value
<1>6. (((IF q[1] >= 128 THEN q[1] - 256 ELSE q[1]) * 256 + q[2]) * 256 + q[3]) * 256 + q[4] = i
  BY <1>4, Digits
<1> QED  BY <1>5, <1>6

LEMMA StrBytes ==
  \A s \in Seq(Byte) : Str(s) \in Seq(Byte) /\ Len(Str(s)) = Len(s) + 4
<1> SUFFICES ASSUME NEW s \in Seq(Byte)
             PROVE  Str(s) \in Seq(Byte) /\ Len(Str(s)) = Len(s) + 4
  OBVIOUS
<1>1. PICK q \in Seq(Byte), n \in Nat : q = set_int(Len(s)) /\ n = Len(s) /\ Len(q) = 4
  BY SetIntBytes
<1>2. \A u \in Seq(Byte) : u \o s \in Seq(Byte) /\ Len(u \o s) = Len(u) + Len(s)
  BY ConcatProperties
<1>3. q \o s \in Seq(Byte) /\ Len(q \o s) = Len(q) + Len(s)
  BY <1>1, <1>2
<1>4. 4 + n = n + 4
  BY <1>1
<1> QED  BY <1>1, <1>3, <1>4 DEF Str

\* string_value takes back the string whose length and bytes lie there, whatever
\* lies behind.
LEMMA StringRead ==
  ASSUME NEW b, NEW k \in Nat, NEW s \in Seq(Byte), Len(s) \in Int32, Placed(b, k, Str(s))
  PROVE  string_value(b, k) = [value |-> s, next |-> (k + 4) + Len(s)]
<1>1. PICK n \in Nat : n = Len(s)
  OBVIOUS
<1>2. PICK q \in Seq(Byte) : q = set_int(n) /\ Len(q) = 4
  BY SetIntBytes
<1>3. Placed(b, k, q) /\ Placed(b, k + 4, s)
  BY <1>1, <1>2, PlacedPieces DEF Str
<1>4. int_value(b, k) = n
  BY <1>1, <1>2, <1>3, IntRead
<1>5. PICK e \in Nat : e = (k + 4) + n
  OBVIOUS
<1>6. string_value(b, k) = [value |-> SubSeq(b, k + 5, e), next |-> e]
  <2>1. n = IF n > 0 THEN n ELSE 0
    BY <1>1
  <2>2. PICK c : c = IF int_value(b, k) > 0 THEN int_value(b, k) ELSE 0
    OBVIOUS
  <2>3. c = n
    BY <1>4, <2>1, <2>2
  <2>4. string_value(b, k) = [value |-> SubSeq(b, k + 5, (k + 4) + c), next |-> (k + 4) + c]
    BY <2>2 DEF string_value
  <2> QED  BY <1>5, <2>3, <2>4
<1>7. SubSeq(b, k + 5, e) = s
  <2>1. SubSeq(b, k + 5, e) = [j \in 1 .. (1 + e) - (k + 5) |-> b[(k + 5 + j) - 1]]
    BY DEF SubSeq
  <2>2. 1 .. (1 + e) - (k + 5) = 1 .. n
    BY <1>5
  <2>3. \A j \in 1 .. n : b[(k + 5 + j) - 1] = s[j]
    <3> SUFFICES ASSUME NEW j \in 1 .. n  PROVE b[(k + 5 + j) - 1] = s[j]
      OBVIOUS
    <3>1. (k + 5 + j) - 1 = (k + 4) + j
      OBVIOUS
    <3> QED  BY <1>1, <1>3, <3>1 DEF Placed
  <2>4. s = [j \in 1 .. n |-> s[j]]
    BY <1>1
  <2> QED  BY <2>1, <2>2, <2>3, <2>4
<1> QED  BY <1>1, <1>5, <1>6, <1>7

-----------------------------------------------------------------------------
(* A frame and its fields.                                                 *)

\* Messages whose strings are bytes and whose port is an int.
Sendable == [address : Seq(Byte), replay : Seq(Byte), port : Int32, host : Seq(Byte),
             reply : Seq(Byte) \cup {None}]

\* One concatenation, wherever it lies.
LEMMA ConcatBytes ==
  \A s, t \in Seq(Byte) : s \o t \in Seq(Byte) /\ Len(s \o t) = Len(s) + Len(t)
BY ConcatProperties

\* Version, codec and send.
LEMMA PrefixBytes == <<1, 9, 0>> \in Seq(Byte) /\ Len(<<1, 9, 0>>) = 3
BY DEF Byte

LEMMA FourBytes == 4 \in Int32 /\ set_int(4) \in Seq(Byte) /\ Len(set_int(4)) = 4
BY SetIntBytes DEF Int32

\* Where to_cstring puts each field of a Header, and the end of it.
AddressAt(m) == 7 + Len(Str(m.replay))
PortAt(m) == AddressAt(m) + Len(Str(m.address))
HostAt(m) == PortAt(m) + 4
HeadersAt(m) == HostAt(m) + Len(Str(m.host))
BodyAt(m) == HeadersAt(m) + 4

LEMMA FieldsAt ==
  ASSUME NEW m \in Sendable
  PROVE  /\ AddressAt(m) \in Nat /\ PortAt(m) \in Nat /\ HostAt(m) \in Nat
         /\ HeadersAt(m) \in Nat /\ BodyAt(m) \in Nat
         /\ AddressAt(m) = (7 + 4) + Len(m.replay)
         /\ PortAt(m) = (AddressAt(m) + 4) + Len(m.address)
         /\ HeadersAt(m) = (HostAt(m) + 4) + Len(m.host)
<1>1. m.address \in Seq(Byte) /\ m.replay \in Seq(Byte) /\ m.host \in Seq(Byte)
  BY DEF Sendable
<1>2. PICK a \in Nat, r \in Nat, h \in Nat :
        a = Len(m.address) /\ r = Len(m.replay) /\ h = Len(m.host)
  BY <1>1
<1>3. Len(Str(m.address)) = a + 4 /\ Len(Str(m.replay)) = r + 4 /\ Len(Str(m.host)) = h + 4
  BY <1>1, <1>2, StrBytes
<1>4. AddressAt(m) = (7 + 4) + r /\ AddressAt(m) \in Nat
  BY <1>3 DEF AddressAt
<1>5. PortAt(m) = (AddressAt(m) + 4) + a /\ PortAt(m) \in Nat
  BY <1>3, <1>4 DEF PortAt
<1>6. HostAt(m) \in Nat
  BY <1>5 DEF HostAt
<1>7. HeadersAt(m) = (HostAt(m) + 4) + h /\ HeadersAt(m) \in Nat
  BY <1>3, <1>6 DEF HeadersAt
<1>8. BodyAt(m) \in Nat
  BY <1>7 DEF BodyAt
<1> QED  BY <1>2, <1>4, <1>5, <1>6, <1>7, <1>8

\* Where a piece ends that begins at 4.
EndOf(s) == 4 + Len(s)

\* Two pieces, the first of which begins at 4, and where the second begins.
LEMMA PieceBehind ==
  ASSUME NEW s \in Seq(Byte), NEW t \in Seq(Byte), NEW k \in Nat, EndOf(s) = k
  PROVE  /\ s \o t \in Seq(Byte) /\ EndOf(s \o t) = k + Len(t)
         /\ \A b : Placed(b, 4, s \o t) => Placed(b, 4, s) /\ Placed(b, k, t)
<1>1. PICK m \in Nat, n \in Nat : m = Len(s) /\ n = Len(t)
  OBVIOUS
<1>2. s \o t \in Seq(Byte) /\ Len(s \o t) = m + n
  BY <1>1, ConcatBytes
<1>3. 4 + m = k /\ 4 + (m + n) = k + n
  BY <1>1 DEF EndOf
<1>4. ASSUME NEW b, Placed(b, 4, s \o t)  PROVE Placed(b, 4, s) /\ Placed(b, k, t)
  BY <1>1, <1>3, <1>4, PlacedPieces
<1> QED  BY <1>1, <1>2, <1>3, <1>4 DEF EndOf

\* The pieces of a Header.
LEMMA HeaderPieces ==
  ASSUME NEW m \in Sendable
  PROVE  /\ Header(m) \in Seq(Byte) /\ EndOf(Header(m)) = BodyAt(m)
         /\ \A b : Placed(b, 4, Header(m)) =>
              /\ Placed(b, 7, Str(m.replay)) /\ Placed(b, AddressAt(m), Str(m.address))
              /\ Placed(b, PortAt(m), set_int(m.port)) /\ Placed(b, HostAt(m), Str(m.host))
              /\ Placed(b, HeadersAt(m), set_int(4))
<1>1. /\ m.address \in Seq(Byte) /\ m.replay \in Seq(Byte) /\ m.host \in Seq(Byte)
      /\ m.port \in Int
  BY DEF Sendable, Int32
<1>2. PICK p0 \in Seq(Byte), k \in Nat : p0 = <<1, 9, 0>> /\ k = 7 /\ EndOf(p0) = k
  <2>1. EndOf(<<1, 9, 0>>) = 7
    BY PrefixBytes DEF EndOf
  <2> QED  BY <2>1, PrefixBytes
<1>3. PICK s1 \in Seq(Byte), s2 \in Seq(Byte), s3 \in Seq(Byte) :
        s1 = Str(m.replay) /\ s2 = Str(m.address) /\ s3 = Str(m.host)
  BY <1>1, StrBytes
<1>4. PICK i1 \in Seq(Byte), i2 \in Seq(Byte) :
        i1 = set_int(m.port) /\ Len(i1) = 4 /\ i2 = set_int(4) /\ Len(i2) = 4
  BY <1>1, SetIntBytes, FourBytes
<1>5. PICK p1 \in Seq(Byte) : p1 = p0 \o s1 /\ EndOf(p1) = AddressAt(m)
  <2>1. AddressAt(m) = k + Len(s1)
    BY <1>2, <1>3 DEF AddressAt
  <2>2. EndOf(p0) = k
    BY <1>2
  <2>3. p0 \o s1 \in Seq(Byte) /\ EndOf(p0 \o s1) = k + Len(s1)
    BY <2>2, PieceBehind
  <2> QED  BY <2>1, <2>3, Zenon
<1>6. PICK p2 \in Seq(Byte) : p2 = p1 \o s2 /\ EndOf(p2) = PortAt(m)
  <2>1. PortAt(m) = AddressAt(m) + Len(s2)
    BY <1>3 DEF PortAt
  <2>2. p1 \o s2 \in Seq(Byte) /\ EndOf(p1 \o s2) = AddressAt(m) + Len(s2)
    BY <1>5, FieldsAt, PieceBehind
  <2> QED  BY <2>1, <2>2, Zenon
<1>7. PICK p3 \in Seq(Byte) : p3 = p2 \o i1 /\ EndOf(p3) = HostAt(m)
  <2>1. HostAt(m) = PortAt(m) + Len(i1)
    BY <1>4 DEF HostAt
  <2>2. p2 \o i1 \in Seq(Byte) /\ EndOf(p2 \o i1) = PortAt(m) + Len(i1)
    BY <1>6, FieldsAt, PieceBehind
  <2> QED  BY <2>1, <2>2, Zenon
<1>8. PICK p4 \in Seq(Byte) : p4 = p3 \o s3 /\ EndOf(p4) = HeadersAt(m)
  <2>1. HeadersAt(m) = HostAt(m) + Len(s3)
    BY <1>3 DEF HeadersAt
  <2>2. p3 \o s3 \in Seq(Byte) /\ EndOf(p3 \o s3) = HostAt(m) + Len(s3)
    BY <1>7, FieldsAt, PieceBehind
  <2> QED  BY <2>1, <2>2, Zenon
<1>9. PICK p5 \in Seq(Byte) : p5 = p4 \o i2 /\ EndOf(p5) = BodyAt(m)
  <2>1. BodyAt(m) = HeadersAt(m) + Len(i2)
    BY <1>4 DEF BodyAt
  <2>2. p4 \o i2 \in Seq(Byte) /\ EndOf(p4 \o i2) = HeadersAt(m) + Len(i2)
    BY <1>8, FieldsAt, PieceBehind
  <2> QED  BY <2>1, <2>2, Zenon
<1>10. Header(m) = p5
  BY <1>2, <1>3, <1>4, <1>5, <1>6, <1>7, <1>8, <1>9 DEF Header
<1>11. ASSUME NEW b, Placed(b, 4, p5)
       PROVE  /\ Placed(b, 7, s1) /\ Placed(b, AddressAt(m), s2) /\ Placed(b, PortAt(m), i1)
              /\ Placed(b, HostAt(m), s3) /\ Placed(b, HeadersAt(m), i2)
  <2>1. Placed(b, 4, p4) /\ Placed(b, HeadersAt(m), i2)
    BY <1>8, <1>9, <1>11, FieldsAt, PieceBehind
  <2>2. Placed(b, 4, p3) /\ Placed(b, HostAt(m), s3)
    BY <1>7, <1>8, <2>1, FieldsAt, PieceBehind
  <2>3. Placed(b, 4, p2) /\ Placed(b, PortAt(m), i1)
    BY <1>6, <1>7, <2>2, FieldsAt, PieceBehind
  <2>4. Placed(b, 4, p1) /\ Placed(b, AddressAt(m), s2)
    BY <1>5, <1>6, <2>3, FieldsAt, PieceBehind
  <2>5. Placed(b, k, s1)
    BY <1>2, <1>5, <2>4, PieceBehind
  <2> QED  BY <1>2, <2>1, <2>2, <2>3, <2>4, <2>5
<1> QED  BY <1>3, <1>4, <1>9, <1>10, <1>11

\* The size, and the fields; what is read for the body begins at body.next.
LEMMA FrameRead ==
  ASSUME NEW m \in Sendable, NEW n \in Nat, n = Len(to_cstring(m)), n \in Int32,
         NEW b, Placed(b, 0, to_cstring(m)), NEW g, g = to_message(b)
  PROVE  /\ to_cstring(m) \in Seq(Byte) /\ g.size = n - 4
         /\ g.address = m.replay /\ g.replay = m.address
         /\ g.port = m.port /\ g.host = m.host /\ g.headers = 4
         /\ m.reply # None => g.body = m.reply /\ g.next = n
         /\ m.reply = None =>
              g.body = string_value(b, n).value /\ g.next = string_value(b, n).next
<1>1. /\ m.address \in Seq(Byte) /\ m.replay \in Seq(Byte) /\ m.host \in Seq(Byte)
      /\ m.port \in Int32 /\ (m.reply # None => m.reply \in Seq(Byte))
  BY DEF Sendable
<1>2. PICK header \in Seq(Byte) : header = Header(m) /\ EndOf(header) = BodyAt(m)
  BY HeaderPieces
<1>3. PICK body \in Seq(Byte) : body = IF m.reply = None THEN <<>> ELSE Str(m.reply)
  <2>1. <<>> \in Seq(Byte)
    OBVIOUS
  <2> QED  BY <1>1, <2>1, StrBytes
<1>4. PICK c \in Seq(Byte) : c = Content(m) /\ c = header \o body
  BY <1>2, <1>3, ConcatBytes DEF Content
<1>5. PICK l \in Nat : l = Len(c)
  OBVIOUS
<1>6. PICK q \in Seq(Byte) : q = set_int(l) /\ Len(q) = 4
  BY SetIntBytes
<1>7. to_cstring(m) = q \o c
  BY <1>4, <1>5, <1>6 DEF to_cstring
<1>8. to_cstring(m) \in Seq(Byte) /\ Placed(b, 0, q) /\ Placed(b, 4, c) /\ n = 4 + l
  <2>1. 0 + Len(q) = 4
    BY <1>6
  <2>2. Placed(b, 0, q) /\ Placed(b, 0 + Len(q), c)
    BY <1>7, PlacedPieces
  <2>3. q \o c \in Seq(Byte) /\ Len(q \o c) = 4 + l
    BY <1>5, <1>6, ConcatBytes
  <2> QED  BY <1>7, <2>1, <2>2, <2>3
<1>9. Placed(b, 4, header) /\ Placed(b, BodyAt(m), body)
  BY <1>2, <1>4, <1>8, FieldsAt, PieceBehind
<1>10. n = BodyAt(m) + Len(body)
  BY <1>2, <1>4, <1>5, <1>8, FieldsAt, PieceBehind DEF EndOf
<1>11. /\ l \in Int32 /\ Len(m.replay) \in Int32 /\ Len(m.address) \in Int32
       /\ Len(m.host) \in Int32
  <2>1. PICK a \in Nat, r \in Nat, h \in Nat, e \in Nat :
          a = Len(m.address) /\ r = Len(m.replay) /\ h = Len(m.host) /\ e = Len(body)
    BY <1>1
  <2>2. PICK x1 \in Nat, x2 \in Nat, x3 \in Nat, x4 \in Nat, x5 \in Nat :
          /\ x1 = AddressAt(m) /\ x2 = PortAt(m) /\ x3 = HostAt(m) /\ x4 = HeadersAt(m)
          /\ x5 = BodyAt(m)
    BY FieldsAt
  <2>3. /\ x1 = (7 + 4) + r /\ x2 = (x1 + 4) + a /\ x3 = x2 + 4 /\ x4 = (x3 + 4) + h
        /\ x5 = x4 + 4 /\ n = x5 + e
    BY <1>10, <2>1, <2>2, FieldsAt, Zenon DEF HostAt, BodyAt
  <2>4. r \in 0 .. n /\ a \in 0 .. n /\ h \in 0 .. n /\ l \in 0 .. n
    BY <1>8, <2>3
  <2> QED  BY <2>1, <2>4, SmallerInt
<1>12. int_value(b, 0) = n - 4
  <2>1. int_value(b, 0) = l
    BY <1>6, <1>8, <1>11, IntRead
  <2> QED  BY <1>8, <2>1
<1>13. /\ Placed(b, 7, Str(m.replay)) /\ Placed(b, AddressAt(m), Str(m.address))
       /\ Placed(b, PortAt(m), set_int(m.port)) /\ Placed(b, HostAt(m), Str(m.host))
       /\ Placed(b, HeadersAt(m), set_int(4))
  BY <1>2, <1>9, HeaderPieces
<1>14. string_value(b, 7) = [value |-> m.replay, next |-> AddressAt(m)]
  <2>1. string_value(b, 7) = [value |-> m.replay, next |-> (7 + 4) + Len(m.replay)]
    BY <1>1, <1>11, <1>13, StringRead
  <2> QED  BY <2>1, FieldsAt, Zenon
<1>15. string_value(b, AddressAt(m)) = [value |-> m.address, next |-> PortAt(m)]
  <2>1. string_value(b, AddressAt(m)) =
          [value |-> m.address, next |-> (AddressAt(m) + 4) + Len(m.address)]
    BY <1>1, <1>11, <1>13, FieldsAt, StringRead, Zenon
  <2> QED  BY <2>1, FieldsAt, Zenon
<1>16. int_value(b, PortAt(m)) = m.port
  BY <1>1, <1>13, FieldsAt, IntRead, Zenon
<1>17. string_value(b, HostAt(m)) = [value |-> m.host, next |-> HeadersAt(m)]
  <2>1. string_value(b, HostAt(m)) =
          [value |-> m.host, next |-> (HostAt(m) + 4) + Len(m.host)]
    BY <1>1, <1>11, <1>13, FieldsAt, StringRead, Zenon
  <2> QED  BY <2>1, FieldsAt, Zenon
<1>18. int_value(b, HeadersAt(m)) = 4
  BY <1>13, FieldsAt, FourBytes, IntRead, Zenon
<1>19. PICK last : last = string_value(b, BodyAt(m))
  OBVIOUS
<1>20. g = [size |-> n - 4, address |-> m.replay, replay |-> m.address, port |-> m.port,
            host |-> m.host, headers |-> 4, body |-> last.value, next |-> last.next]
  BY <1>12, <1>14, <1>15, <1>16, <1>17, <1>18, <1>19 DEF to_message, HostAt, BodyAt
<1>21. ASSUME m.reply # None  PROVE g.body = m.reply /\ g.next = n
  <2>1. PICK s \in Seq(Byte), e \in Nat : s = m.reply /\ e = Len(s) /\ body = Str(s)
    BY <1>1, <1>3, <1>21
  <2>2. Len(body) = e + 4
    BY <2>1, StrBytes
  <2>3. PICK x \in Nat : x = BodyAt(m)
    BY FieldsAt
  <2>4. n = x + (e + 4)
    BY <1>10, <2>2, <2>3
  <2>5. e \in Int32
    <3>1. e \in 0 .. n
      BY <2>4
    <3> QED  BY <3>1, SmallerInt
  <2>6. last = [value |-> s, next |-> (x + 4) + e]
    BY <1>9, <1>19, <2>1, <2>3, <2>5, StringRead
  <2>7. (x + 4) + e = n
    BY <2>4
  <2>8. g.body = last.value /\ g.next = last.next
    BY <1>20
  <2>9. last.value = s /\ last.next = (x + 4) + e
    BY <2>6
  <2> QED  BY <2>1, <2>7, <2>8, <2>9, Zenon
<1>22. ASSUME m.reply = None
       PROVE  g.body = string_value(b, n).value /\ g.next = string_value(b, n).next
  <2>1. Len(body) = 0
    BY <1>3, <1>22
  <2>2. n = BodyAt(m)
    <3>1. PICK x \in Nat : x = BodyAt(m)
      BY FieldsAt
    <3>2. n = x + 0
      BY <1>10, <2>1, <3>1
    <3> QED  BY <3>1, <3>2
  <2> QED  BY <1>19, <1>20, <2>2
<1> QED  BY <1>8, <1>20, <1>21, <1>22

-----------------------------------------------------------------------------
(* What lies in memory behind a frame.                                     *)

LEMMA FrameBytes ==
  ASSUME NEW m \in Sendable
  PROVE  to_cstring(m) \in Seq(Byte)
<1>1. m.reply # None => m.reply \in Seq(Byte)
  BY DEF Sendable
<1>2. PICK body \in Seq(Byte) : body = IF m.reply = None THEN <<>> ELSE Str(m.reply)
  <2>1. <<>> \in Seq(Byte)
    OBVIOUS
  <2> QED  BY <1>1, <2>1, StrBytes
<1>3. Content(m) \in Seq(Byte)
  BY <1>2, HeaderPieces, ConcatBytes DEF Content
<1>4. to_cstring(m) = Str(Content(m))
  BY DEF to_cstring, Str
<1> QED  BY <1>3, <1>4, StrBytes

\* Four bytes make an int, and what is read for a string has a size of its own.
LEMMA BehindFour ==
  ASSUME NEW b, NEW k \in Nat, NEW t \in Seq(Byte), Placed(b, k, t), Len(t) >= 4
  PROVE  string_value(b, k).next >= k + 4
<1>1. PICK l \in Nat : l = Len(t) /\ l >= 4
  OBVIOUS
<1>2. PICK t1 \in Byte, t2 \in Byte, t3 \in Byte, t4 \in Byte :
        b[k + 1] = t1 /\ b[k + 2] = t2 /\ b[k + 3] = t3 /\ b[k + 4] = t4
  <2>1. 1 \in 1 .. l /\ 2 \in 1 .. l /\ 3 \in 1 .. l /\ 4 \in 1 .. l
    BY <1>1
  <2>2. t[1] \in Byte /\ t[2] \in Byte /\ t[3] \in Byte /\ t[4] \in Byte
    BY <1>1, <2>1
  <2>3. b[k + 1] = t[1] /\ b[k + 2] = t[2] /\ b[k + 3] = t[3] /\ b[k + 4] = t[4]
    BY <1>1, <2>1 DEF Placed
  <2> QED  BY <2>2, <2>3
<1>3. int_value(b, k) \in Int
  <2>1. int_value(b, k) = (((IF t1 >= 128 THEN t1 - 256 ELSE t1) * 256 + t2) * 256 + t3) * 256 + t4
    BY <1>2 DEF int_value
  <2>2. (((IF t1 >= 128 THEN t1 - 256 ELSE t1) * 256 + t2) * 256 + t3) * 256 + t4 \in Int
    BY DEF Byte
  <2> QED  BY <2>1, <2>2
<1>4. PICK i \in Int : i = int_value(b, k)
  BY <1>3
<1>5. string_value(b, k).next = (k + 4) + (IF i > 0 THEN i ELSE 0)
  BY <1>4 DEF string_value
<1>6. (k + 4) + (IF i > 0 THEN i ELSE 0) >= k + 4
  BY <1>4
<1> QED  BY <1>5, <1>6

\* A frame, what was read with it, and old bytes.
LEMMA InMemory ==
  ASSUME NEW f \in Seq(Byte), NEW x \in Seq(Byte), NEW t \in Seq(Byte), NEW n \in Nat,
         n = Len(f)
  PROVE  /\ Placed((f \o x) \o t, 0, f) /\ Placed((f \o x) \o t, n, x)
         /\ x = <<>> => Placed((f \o x) \o t, n, t)
<1>1. PICK w \in Seq(Byte), l \in Nat : w = f \o x /\ l = Len(x) /\ Len(w) = n + l
  <2>1. PICK l \in Nat : l = Len(x)
    OBVIOUS
  <2>2. f \o x \in Seq(Byte) /\ Len(f \o x) = n + l
    BY <2>1, ConcatBytes
  <2> QED  BY <2>1, <2>2
<1>2. Placed(w, 0, f) /\ Placed(w, n, x)
  BY <1>1, PlacedFirst, PlacedSecond
<1>3. 0 + n <= n + l /\ n + l <= n + l
  BY <1>1
<1>4. Placed(w \o t, 0, f) /\ Placed(w \o t, n, x)
  BY <1>1, <1>2, <1>3, PlacedBefore
<1>5. ASSUME x = <<>>  PROVE Placed(w \o t, n, t)
  <2>1. l = 0
    BY <1>1, <1>5
  <2>2. Len(w) = n
    BY <1>1, <2>1
  <2> QED  BY <2>2, PlacedSecond
<1> QED  BY <1>1, <1>4, <1>5

-----------------------------------------------------------------------------
(* The behaviours of the codec.                                            *)

\* What can be written: bytes, an int, and in memory what a to_string left there.
Writable ==
  /\ msg \in Sendable /\ second \in Seconds \cup {None} /\ old \in Tails

\* A frame that was sent is the one of the message, and fits into the buffer.
Sent ==
  stage \in {"sent", "parsed"} => frame = to_cstring(msg) /\ Len(frame) <= Buffer

Parsed == stage = "parsed" => got = to_message(Memory)

CodecInv == Writable /\ Sent /\ Parsed

LEMMA MessageSendable == Message \subseteq Sendable
BY CodecAssumption DEF Message, Sendable

LEMMA CodecInitInv ==
  ASSUME Init  PROVE CodecInv
BY MessageSendable DEF Init, CodecInv, Writable, Sent, Parsed

LEMMA CodecNextInv ==
  ASSUME CodecInv, [Next]_vars
  PROVE  CodecInv'
<1>1. CASE to_string
  BY <1>1 DEF to_string, CodecInv, Writable, Sent, Parsed
<1>2. CASE OnMessage
  BY <1>2 DEF OnMessage, CodecInv, Writable, Sent, Parsed, Memory
<1>3. CASE UNCHANGED vars
  BY <1>3 DEF vars, CodecInv, Writable, Sent, Parsed, Memory
<1> QED  BY <1>1, <1>2, <1>3 DEF Next

\* All that is known of a frame once it was parsed: what to_message found in it,
\* and behind it.
LEMMA ParsedFrame ==
  ASSUME CodecInv, stage = "parsed"
  PROVE  /\ got.address = msg.replay /\ got.replay = msg.address
         /\ got.port = msg.port /\ got.host = msg.host /\ got.headers = 4
         /\ got.size = Len(frame) - 4
         /\ msg.reply # None => got.body = msg.reply /\ got.next = Len(frame)
         /\ msg.reply = None =>
              /\ got.next >= Len(frame) + 4
              /\ second # None => got.body = Content(second)
<1>1. /\ msg \in Sendable /\ second \in Seconds \cup {None} /\ old \in Tails
      /\ frame = to_cstring(msg) /\ Len(frame) <= Buffer /\ got = to_message(Memory)
  BY DEF CodecInv, Writable, Sent, Parsed
<1>2. PICK f \in Seq(Byte), n \in Nat : f = frame /\ n = Len(f)
  BY <1>1, FrameBytes
<1>3. n \in Int32
  BY <1>1, <1>2, CodecAssumption, SmallerInt
<1>4. second # None => Content(second) \in Seq(Byte) /\ Len(Content(second)) \in Int32
  BY <1>1, SecondsAssumption
<1>5. PICK x \in Seq(Byte) :
        /\ x = IF second = None THEN <<>> ELSE to_cstring(second)
        /\ second # None => x = Str(Content(second)) /\ Len(x) >= 4
  <2>1. CASE second = None
    <3>1. <<>> \in Seq(Byte)
      OBVIOUS
    <3> QED  BY <2>1, <3>1
  <2>2. CASE second # None
    <3>1. PICK c \in Seq(Byte), l \in Nat : c = Content(second) /\ l = Len(c)
      BY <1>4, <2>2
    <3>2. Str(c) \in Seq(Byte) /\ Len(Str(c)) = l + 4
      BY <3>1, StrBytes
    <3>3. to_cstring(second) = Str(c)
      BY <3>1 DEF to_cstring, Str
    <3> QED  BY <2>2, <3>1, <3>2, <3>3
  <2> QED  BY <2>1, <2>2
<1>6. PICK t \in Seq(Byte) : t = old /\ Len(t) >= 4
  BY <1>1, CodecAssumption
<1>7. PICK b : b = Memory /\ b = (f \o x) \o t
  BY <1>2, <1>5, <1>6 DEF Memory
<1>8. Placed(b, 0, f) /\ Placed(b, n, x) /\ (second = None => Placed(b, n, t))
  BY <1>2, <1>5, <1>7, InMemory
<1>9. /\ got.address = msg.replay /\ got.replay = msg.address
      /\ got.port = msg.port /\ got.host = msg.host /\ got.headers = 4
      /\ got.size = n - 4
      /\ msg.reply # None => got.body = msg.reply /\ got.next = n
      /\ msg.reply = None =>
           got.body = string_value(b, n).value /\ got.next = string_value(b, n).next
  BY <1>1, <1>2, <1>3, <1>7, <1>8, FrameRead
<1>10. string_value(b, n).next >= n + 4
  <2>1. CASE second = None
    BY <1>6, <1>8, <2>1, BehindFour
  <2>2. CASE second # None
    BY <1>5, <1>8, <2>2, BehindFour
  <2> QED  BY <2>1, <2>2
<1>11. second # None => string_value(b, n).value = Content(second)
  BY <1>4, <1>5, <1>8, StringRead
<1> QED  BY <1>2, <1>9, <1>10, <1>11

LEMMA CodecInvProperties ==
  ASSUME CodecInv  PROVE RoundTrip /\ SizeDelimits /\ BodyFromBehind
BY ParsedFrame DEF RoundTrip, SizeDelimits, BodyFromBehind

LEMMA CodecInvariance == Spec => []CodecInv
<1>1. Init => CodecInv
  BY CodecInitInv
<1>2. CodecInv /\ [Next]_vars => CodecInv'
  BY CodecNextInv
<1> QED  BY <1>1, <1>2, PTL DEF Spec

\* For any addresses, hosts, bodies and ports, of any length that fits into the
\* buffer, and whatever lies behind the frame: to_message takes back every field
\* that to_cstring wrote, with the two addresses exchanged.
THEOREM FieldsComeBack == Spec => []RoundTrip
<1>1. CodecInv => RoundTrip
  BY CodecInvProperties
<1> QED  BY <1>1, CodecInvariance, PTL

\* The size written last is that of the frame, and a body is read to its end.
THEOREM FramesDelimited == Spec => []SizeDelimits
<1>1. CodecInv => SizeDelimits
  BY CodecInvProperties
<1> QED  BY <1>1, CodecInvariance, PTL

\* Of a frame without a body to_message reads past the end, always, and makes a
\* body of the whole second frame if there is one.
THEOREM BodyTakenFromBehind == Spec => []BodyFromBehind
<1>1. CodecInv => BodyFromBehind
  BY CodecInvProperties
<1> QED  BY <1>1, CodecInvariance, PTL

-----------------------------------------------------------------------------
(* ClusterNodeInfo read as it was written.                                 *)

\* Servers whose host has a length that is an int.
Server == [host : {s \in Seq(Byte) : Len(s) \in Int32}, port : Int32]

LEMMA NodeInfoRead ==
  ASSUME NEW id \in Seq(Byte), Len(id) \in Int32, NEW s \in Server, NEW b, b = cpp_writeData(id, s)
  PROVE  /\ cpp_readData(b) = [nodeId |-> id, server |-> s]
         /\ java_readData(b) = [nodeId |-> id, server |-> s]
<1>1. PICK host \in Seq(Byte), port \in Int32 :
        host = s.host /\ port = s.port /\ Len(host) \in Int32 /\ s = [host |-> host, port |-> port]
  BY DEF Server
<1>2. PICK p \in Seq(Byte), l \in Nat : p = Str(id) /\ l = Len(id) /\ Len(p) = l + 4
  BY StrBytes
<1>3. PICK q \in Seq(Byte) : q = set_int(port) /\ Len(q) = 4
  BY SetIntBytes DEF Int32
<1>4. PICK r \in Seq(Byte) : r = Str(host)
  BY <1>1, StrBytes
<1>5. PICK w \in Seq(Byte), k \in Nat : w = p \o q /\ k = l + 4 /\ Len(w) = k + 4
  <2>1. p \o q \in Seq(Byte) /\ Len(p \o q) = (l + 4) + 4
    <3>1. p \o q \in Seq(Byte) /\ Len(p \o q) = Len(p) + Len(q)
      BY ConcatBytes
    <3> QED  BY <1>2, <1>3, <3>1, Zenon
  <2>2. PICK k \in Nat : k = l + 4
    OBVIOUS
  <2> QED  BY <2>1, <2>2
<1>6. b = w \o r
  BY <1>1, <1>2, <1>3, <1>4, <1>5 DEF cpp_writeData
<1>7. Placed(b, 0, w) /\ Placed(b, k + 4, r)
  BY <1>5, <1>6, PlacedFirst, PlacedSecond
<1>8. Placed(b, 0, p) /\ Placed(b, k, q)
  <2>1. Placed(b, 0, p) /\ Placed(b, 0 + Len(p), q)
    BY <1>5, <1>7, PlacedPieces
  <2>2. 0 + Len(p) = k
    BY <1>2, <1>5
  <2> QED  BY <2>1, <2>2
<1>9. string_value(b, 0) = [value |-> id, next |-> k]
  <2>1. string_value(b, 0) = [value |-> id, next |-> (0 + 4) + l]
    BY <1>2, <1>8, StringRead
  <2>2. (0 + 4) + l = k
    BY <1>5
  <2> QED  BY <2>1, <2>2
<1>10. int_value(b, k) = port
  BY <1>3, <1>8, IntRead
<1>11. string_value(b, k + 4).value = host
  <2>1. PICK i \in Nat : i = k + 4
    OBVIOUS
  <2> QED  BY <1>1, <1>4, <1>7, <2>1, StringRead
<1>12. cpp_readData(b) = [nodeId |-> id, server |-> [host |-> host, port |-> port]]
  BY <1>9, <1>10, <1>11 DEF cpp_readData
<1>13. java_readData(b) = [nodeId |-> id, server |-> [host |-> host, port |-> port]]
  BY <1>9, <1>10, <1>11 DEF java_readData
<1> QED  BY <1>1, <1>12, <1>13

-----------------------------------------------------------------------------
(* What the node has published.                                            *)

Stages == {"none", "joined", "advertised", "running", "sending"}

OptionsTyped ==
  /\ options \in [server : [host : Seq(Byte), port : Int], bus : Server]
  /\ tunes \in Nat /\ vertx \in Stages

\* Once published, nothing moves any more: the setters run before clusteredVertx.
Published ==
  /\ vertx # "none" => haInfo = options.server
  /\ vertx \in {"advertised", "running", "sending"} => entry = cpp_writeData(NodeId, options.bus)
  /\ vertx \in {"running", "sending"} => bound = options.server

\* Without setters the two addresses are one.
OneAddress == tunes = 0 => options.server = options.bus

\* A frame is written only when the return address is in the message.
Addressed ==
  /\ vertx = "sending" => msg.host = options.bus.host /\ msg.port = options.bus.port
  /\ vertx # "sending" => stage = "built"

DiscoveryInv == CodecInv /\ OptionsTyped /\ Published /\ OneAddress /\ Addressed

\* Sixteen bits.
Word == 0 .. 65535

LEMMA DrawnPorts == Draws \subseteq 30000 .. 49999
BY DiscoveryAssumption, SMT

LEMMA DrawnWords == Draws \subseteq Word
BY DrawnPorts, SMT DEF Word

LEMMA WordsAreInts ==
  ASSUME NEW p \in Word  PROVE p \in Int32
<1>1. p \in Int /\ p >= 0 /\ p < 65536
  BY DEF Word
<1>2. PICK a \in Int : a = p \div 256 /\ a \in 0 .. 255
  <2>1. p \div 256 \in 0 .. 255
    BY <1>1, SMT
  <2> QED  BY <2>1, SMT
<1>3. PICK c \in Int : c = a \div 256 /\ c = 0
  BY <1>2, SMT
<1>4. c \div 256 \in -128 .. 127
  BY <1>3, SMT
<1> QED  BY <1>1, <1>2, <1>3, <1>4, SMT DEF Int32

LEMMA DrawsAreInts == Draws \subseteq Int32
BY DrawnWords, WordsAreInts, Zenon

\* The strings a server may have, and the ports.
LEMMA Names ==
  /\ \A h \in Strings \cup Hosts : h \in Seq(Byte) /\ Len(h) \in Int32
  /\ TunedHosts \subseteq Seq(Byte) /\ NodeId \in Seq(Byte) /\ Len(NodeId) \in Int32
  /\ Draws \subseteq Int32 /\ Ports \subseteq Int32 /\ TunedPorts \subseteq Int32
<1>1. Hosts \cup TunedHosts \cup {NodeId} \subseteq Seq(Byte)
  BY DiscoveryAssumption, SMT
<1>2. \A s \in Strings \cup Hosts \cup {NodeId} : Len(s) \in Int32
  BY DiscoveryAssumption, SMT
<1>3. TunedPorts \subseteq Int32
  BY DiscoveryAssumption, SMT
<1>4. Draws \subseteq Int32
  BY DrawsAreInts
<1>5. Strings \subseteq Seq(Byte) /\ Ports \subseteq Int32
  BY CodecAssumption
<1> QED  BY <1>1, <1>2, <1>3, <1>4, <1>5, Zenon

LEMMA DiscoveryInitInv ==
  ASSUME DiscoveryInit  PROVE DiscoveryInv
<1>1. CodecInv
  BY CodecInitInv DEF DiscoveryInit
<1>2. PICK h \in Hosts, p \in Draws :
        options = [server |-> [host |-> h, port |-> p], bus |-> [host |-> h, port |-> p]]
  BY DEF DiscoveryInit, VertxOptions
<1>3. h \in Seq(Byte) /\ Len(h) \in Int32 /\ p \in Int32 /\ p \in Int
  BY Names DEF Int32
<1>4. OptionsTyped
  BY <1>2, <1>3 DEF DiscoveryInit, OptionsTyped, Server, Stages
<1>5. Published /\ OneAddress /\ Addressed
  BY <1>2 DEF DiscoveryInit, Init, Published, OneAddress, Addressed
<1> QED  BY <1>1, <1>4, <1>5 DEF DiscoveryInv

LEMMA DiscoveryNextInv ==
  ASSUME DiscoveryInv, [DiscoveryNext]_allVars
  PROVE  DiscoveryInv'
<1>1. /\ CodecInv /\ OptionsTyped /\ Published /\ OneAddress /\ Addressed
  BY DEF DiscoveryInv
<1>2. ASSUME UNCHANGED vars  PROVE CodecInv'
  BY <1>1, <1>2, CodecNextInv
<1>3. ASSUME vertx = "none", vertx' = "none", UNCHANGED <<vars, haInfo, entry, bound>>,
             tunes' = tunes + 1, OptionsTyped'
      PROVE  DiscoveryInv'
  <2>1. tunes' # 0
    BY <1>1, <1>3 DEF OptionsTyped
  <2> QED  BY <1>1, <1>2, <1>3, <2>1 DEF DiscoveryInv, Published, OneAddress, Addressed, vars
<1>4. CASE setHost
  <2>1. PICK h \in TunedHosts : Tune("server", "host", h)
    BY <1>4 DEF setHost
  <2>2. h \in Seq(Byte)
    BY Names
  <2>3. OptionsTyped'
    BY <1>1, <2>1, <2>2 DEF Tune, OptionsTyped
  <2> QED  BY <1>3, <2>1, <2>3 DEF Tune
<1>5. CASE setPort
  <2>1. PICK p \in TunedPorts : Tune("server", "port", p)
    BY <1>5 DEF setPort
  <2>2. p \in Int
    BY Names DEF Int32
  <2>3. OptionsTyped'
    BY <1>1, <2>1, <2>2 DEF Tune, OptionsTyped
  <2> QED  BY <1>3, <2>1, <2>3 DEF Tune
<1>6. CASE busSetHost
  <2>1. PICK h \in Strings : Tune("bus", "host", h)
    BY <1>6 DEF busSetHost
  <2>2. h \in Seq(Byte) /\ Len(h) \in Int32
    BY Names
  <2>3. PICK bus \in Server : bus = [options.bus EXCEPT !.host = h]
    BY <1>1, <2>2 DEF OptionsTyped, Server
  <2>4. options' = [options EXCEPT !.bus = bus]
    BY <2>1, <2>3 DEF Tune
  <2>5. OptionsTyped'
    BY <1>1, <2>1, <2>4 DEF Tune, OptionsTyped
  <2> QED  BY <1>3, <2>1, <2>5 DEF Tune
<1>7. CASE busSetPort
  <2>1. PICK p \in Ports : Tune("bus", "port", p)
    BY <1>7 DEF busSetPort
  <2>2. p \in Int32
    BY Names
  <2>3. PICK bus \in Server : bus = [options.bus EXCEPT !.port = p]
    BY <1>1, <2>2 DEF OptionsTyped, Server
  <2>4. options' = [options EXCEPT !.bus = bus]
    BY <2>1, <2>3 DEF Tune
  <2>5. OptionsTyped'
    BY <1>1, <2>1, <2>4 DEF Tune, OptionsTyped
  <2> QED  BY <1>3, <2>1, <2>5 DEF Tune
<1>8. CASE clusteredVertx
  BY <1>1, <1>2, <1>8
  DEF clusteredVertx, DiscoveryInv, OptionsTyped, Stages, Published, OneAddress, Addressed, vars
<1>9. CASE consumer
  BY <1>1, <1>2, <1>9
  DEF consumer, DiscoveryInv, OptionsTyped, Stages, Published, OneAddress, Addressed, vars
<1>10. CASE run
  BY <1>1, <1>2, <1>10
  DEF run, DiscoveryInv, OptionsTyped, Stages, Published, OneAddress, Addressed, vars
<1>11. CASE Address
  <2>1. stage = "built"
    BY <1>1, <1>11 DEF Address, Addressed
  <2>2. options.bus.host \in Seq(Byte) /\ options.bus.port \in Int32
    BY <1>1 DEF OptionsTyped, Server
  <2>3. msg' \in Sendable /\ msg'.host = options.bus.host /\ msg'.port = options.bus.port
    BY <1>1, <1>11, <2>2 DEF Address, CodecInv, Writable, Sendable
  <2>4. CodecInv'
    BY <1>1, <1>11, <2>1, <2>3 DEF Address, CodecInv, Writable, Sent, Parsed
  <2>5. OptionsTyped' /\ Published' /\ OneAddress'
    BY <1>1, <1>11 DEF Address, OptionsTyped, Stages, Published, OneAddress
  <2>6. Addressed'
    BY <1>11, <2>3 DEF Address, Addressed
  <2> QED  BY <2>4, <2>5, <2>6 DEF DiscoveryInv
<1>12. CASE Transmit
  <2>1. CodecInv'
    BY <1>1, <1>12, CodecNextInv DEF Transmit
  <2>2. msg' = msg
    BY <1>12 DEF Transmit, Next, to_string, OnMessage
  <2>3. OptionsTyped' /\ Published' /\ OneAddress' /\ Addressed'
    BY <1>1, <1>12, <2>2
    DEF Transmit, discoveryVars, OptionsTyped, Published, OneAddress, Addressed
  <2> QED  BY <2>1, <2>3 DEF DiscoveryInv
<1>13. CASE UNCHANGED allVars
  BY <1>1, <1>2, <1>13
  DEF allVars, discoveryVars, DiscoveryInv, OptionsTyped, Published, OneAddress, Addressed, vars
<1> QED
  BY <1>4, <1>5, <1>6, <1>7, <1>8, <1>9, <1>10, <1>11, <1>12, <1>13 DEF DiscoveryNext

LEMMA DiscoveryInvariance == DiscoverySpec => []DiscoveryInv
<1>1. DiscoveryInit => DiscoveryInv
  BY DiscoveryInitInv
<1>2. DiscoveryInv /\ [DiscoveryNext]_allVars => DiscoveryInv'
  BY DiscoveryNextInv
<1> QED  BY <1>1, <1>2, PTL DEF DiscoverySpec

-----------------------------------------------------------------------------
(* The properties.                                                         *)

LEMMA ReturnAddress ==
  ASSUME DiscoveryInv, stage = "parsed"
  PROVE  got.host = options.bus.host /\ got.port = options.bus.port
<1>1. got.host = msg.host /\ got.port = msg.port
  BY ParsedFrame DEF DiscoveryInv
<1> QED  BY <1>1 DEF DiscoveryInv, Addressed

LEMMA PeersAgreeInv ==
  ASSUME DiscoveryInv  PROVE PeersAgree
<1>1. options.bus \in Server /\ NodeId \in Seq(Byte) /\ Len(NodeId) \in Int32
  BY Names DEF DiscoveryInv, OptionsTyped
<1>2. PICK b : b = cpp_writeData(NodeId, options.bus)
  OBVIOUS
<1>3. KnownAs(b) = {[nodeId |-> NodeId, server |-> options.bus]}
  <2>1. /\ cpp_readData(b) = [nodeId |-> NodeId, server |-> options.bus]
        /\ java_readData(b) = [nodeId |-> NodeId, server |-> options.bus]
    BY <1>1, <1>2, NodeInfoRead
  <2> QED  BY <2>1 DEF KnownAs
<1>4. java_writeData(NodeId, options.bus) = b
  BY <1>2 DEF java_writeData, cpp_writeData
<1>5. vertx \in {"advertised", "running", "sending"} => entry = b
  BY <1>2 DEF DiscoveryInv, Published
<1>6. stage = "parsed" => [host |-> got.host, port |-> got.port] = options.bus
  <2>1. options.bus = [host |-> options.bus.host, port |-> options.bus.port]
    BY <1>1 DEF Server
  <2> QED  BY <2>1, ReturnAddress
<1> QED  BY <1>3, <1>4, <1>5, <1>6 DEF PeersAgree

LEMMA ReachedWhereBoundInv ==
  ASSUME DiscoveryInv  PROVE ReachedWhereBound
<1>1. SUFFICES ASSUME vertx \in {"running", "sending"}
               PROVE  /\ haInfo = bound
                      /\ tunes = 0 =>
                           /\ cpp_readData(entry).server = bound
                           /\ stage = "parsed" => got.host = bound.host /\ got.port = bound.port
  BY DEF ReachedWhereBound
<1>2. haInfo = options.server /\ bound = options.server /\ entry = cpp_writeData(NodeId, options.bus)
  BY <1>1 DEF DiscoveryInv, Published
<1>3. cpp_readData(entry).server = options.bus
  <2>1. options.bus \in Server /\ NodeId \in Seq(Byte) /\ Len(NodeId) \in Int32
    BY Names DEF DiscoveryInv, OptionsTyped
  <2>2. cpp_readData(entry) = [nodeId |-> NodeId, server |-> options.bus]
    BY <1>2, <2>1, NodeInfoRead
  <2> QED  BY <2>2
<1>4. tunes = 0 => options.server = options.bus
  BY DEF DiscoveryInv, OneAddress
<1> QED  BY <1>2, <1>3, <1>4, ReturnAddress

\* Whatever the setters did, members in C++ and in Java read the same node and
\* the same server from the subscription, and the return address of the node's
\* frames is that server.
THEOREM OneAnswer == DiscoverySpec => []PeersAgree
<1>1. DiscoveryInv => PeersAgree
  BY PeersAgreeInv
<1> QED  BY <1>1, DiscoveryInvariance, PTL

\* haInfo is always where run() listens; the subscription and the frames say so
\* too if no setter was called.
THEOREM KnownWhereBound == DiscoverySpec => []ReachedWhereBound
<1>1. DiscoveryInv => ReachedWhereBound
  BY ReachedWhereBoundInv
<1> QED  BY <1>1, DiscoveryInvariance, PTL

\* The frames of a node with its own address in them: they are read as they were
\* written, delimited by their size, and a body that is not there comes from behind.
THEOREM FramesOfNode == DiscoverySpec => [](RoundTrip /\ SizeDelimits /\ BodyFromBehind)
<1>1. DiscoveryInv => RoundTrip /\ SizeDelimits /\ BodyFromBehind
  BY CodecInvProperties DEF DiscoveryInv
<1> QED  BY <1>1, DiscoveryInvariance, PTL
=============================================================================
