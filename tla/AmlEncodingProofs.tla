------------------------- MODULE AmlEncodingProofs -------------------------
(***************************************************************************)
(* Proofs about PkgLength: for every length that fits in 28 bits the Rust  *)
(* encoder and the reference implementation produce the same bytes, and a  *)
(* reader gets the length back.                                            *)
(* And about AmlDescriptors: every descriptor but the two that misstate    *)
(* their length is as long as it says, whatever it lists, so that a reader *)
(* of a template of any length stays in step.                              *)
(***************************************************************************)
EXTENDS PkgLength, AmlDescriptors, Recursion, SequenceTheorems, TLAPS

(* The digits of a value, in the mixed base of the encoding.               *)
LEMMA Digits ==
  ASSUME NEW v \in Nat
  PROVE  /\ v % 16 \in 0 .. 15
         /\ (v \div 16) % 256 \in Byte
         /\ (v \div 4096) % 256 \in Byte
         /\ (v \div Bits20) % 256 \in Byte
         /\ v < 4096 => v = (v % 16) + 16 * ((v \div 16) % 256)
         /\ v < Bits20 => v = (v % 16) + 16 * ((v \div 16) % 256)
                                 + 4096 * ((v \div 4096) % 256)
         /\ v < Bits28 => v = (v % 16) + 16 * ((v \div 16) % 256)
                                   + 4096 * ((v \div 4096) % 256)
                                   + Bits20 * ((v \div Bits20) % 256)
  BY SMTT(30) DEF Byte, Bits20, Bits28

(* Taking a value apart from its high end finds the same digits.           *)
LEMMA HighDigits ==
  ASSUME NEW v \in Nat
  PROVE  /\ (v % Bits20) % 4096 = v % 4096
         /\ (v % 4096) % 16 = v % 16
         /\ ((v % Bits20) \div 4096) % 256 = (v \div 4096) % 256
         /\ ((v % 4096) \div 16) % 256 = (v \div 16) % 256
  BY SMTT(30) DEF Bits20

(* The widths that the two encoders choose, and the values they encode.    *)
LEMMA Widths ==
  ASSUME NEW len \in Nat
  PROVE  /\ PkgWidth(len) \in 1 .. 4
         /\ CWidth(len) = PkgWidth(len)
         /\ PkgWidth(len) = 1 => len < 63
         /\ PkgWidth(len) = 2 => len < 4094
         /\ PkgWidth(len) = 3 => len < Bits20 - 3
  BY SMT DEF PkgWidth, PkgLengthLen, CWidth, Bits20

LEMMA Values ==
  ASSUME NEW len \in Nat, len < Bits28 - 4, NEW self \in BOOLEAN
  PROVE  /\ PkgValue(len, self) \in Nat /\ PkgValue(len, self) < Bits28
         /\ PkgWidth(len) = 1 => PkgValue(len, self) < 64
         /\ PkgWidth(len) = 2 => PkgValue(len, self) < 4096
         /\ PkgWidth(len) = 3 => PkgValue(len, self) < Bits20
<1> DEFINE w == PkgWidth(len)
           v == PkgValue(len, self)
<1>1. /\ w \in 1 .. 4
      /\ w = 1 => len < 63
      /\ w = 2 => len < 4094
      /\ w = 3 => len < Bits20 - 3
  BY Widths
<1>2. v = len \/ v = len + w
  BY DEF PkgValue
<1> HIDE DEF w, v
<1>3. v \in Nat
  BY <1>1, <1>2
<1>4. v < Bits28
  BY <1>1, <1>2, SMT DEF Bits28
<1>5. w = 3 => v < Bits20
  BY <1>1, <1>2, SMT DEF Bits20
<1>6. (w = 1 => v < 64) /\ (w = 2 => v < 4096)
  BY <1>1, <1>2
<1> QED
  BY <1>3, <1>4, <1>5, <1>6 DEF w, v

(* A field of w bytes has room for v.                                      *)
Fits(w, v) ==
  /\ w \in 1 .. 4
  /\ v \in Nat /\ v < Bits28
  /\ w = 1 => v < 64
  /\ w = 2 => v < 4096
  /\ w = 3 => v < Bits20

(* The bytes of a value that fits in a width decode to the value.          *)
LEMMA DecodeBytes ==
  ASSUME NEW w, NEW v, Fits(w, v)
  PROVE  /\ FollowingBytes(PkgBytes(w, v)) = w - 1
         /\ DecodePkgLength(PkgBytes(w, v)) = v
         /\ Len(PkgBytes(w, v)) = w
<1> DEFINE bytes == PkgBytes(w, v)
           d0 == v % 16
           d1 == (v \div 16) % 256
           d2 == (v \div 4096) % 256
           d3 == (v \div Bits20) % 256
<1>0. /\ w \in 1 .. 4 /\ v \in Nat /\ v < Bits28
      /\ w = 1 => v < 64
      /\ w = 2 => v < 4096
      /\ w = 3 => v < Bits20
  BY DEF Fits
<1>1. /\ d0 \in 0 .. 15 /\ d1 \in Byte /\ d2 \in Byte /\ d3 \in Byte
      /\ v < 4096 => v = d0 + 16 * d1
      /\ v < Bits20 => v = d0 + 16 * d1 + 4096 * d2
      /\ v = d0 + 16 * d1 + 4096 * d2 + Bits20 * d3
  BY <1>0, Digits
<1> HIDE DEF d0, d1, d2, d3
<1>2. d0 \in 0 .. 15
  BY <1>1
<1>3. ASSUME NEW k \in {1, 2, 3}
      PROVE  (64 * k + d0) \div 64 = k /\ (64 * k + d0) % 16 = d0
  BY <1>2
<1>4. CASE w = 1
  <2>1. bytes = <<v>>
    BY <1>0, <1>4 DEF PkgBytes
  <2>2. v \div 64 = 0 /\ v % 64 = v
    BY <1>0, <1>4
  <2> QED
    BY <1>4, <2>1, <2>2 DEF FollowingBytes, DecodePkgLength
<1>5. CASE w = 2
  <2>1. v = d0 + 16 * d1
    BY <1>0, <1>1, <1>5
  <2>2. bytes = <<64 * 1 + d0, d1>>
    BY <1>5 DEF PkgBytes, d0, d1
  <2>3. FollowingBytes(bytes) = 1 /\ bytes[1] % 16 = d0
        /\ bytes[2] = d1 /\ Len(bytes) = 2
    BY <1>3, <2>2 DEF FollowingBytes
  <2> HIDE DEF bytes
  <2>4. DecodePkgLength(bytes) = d0 + 16 * d1
    BY <2>3 DEF DecodePkgLength
  <2> QED
    BY <1>5, <2>1, <2>3, <2>4 DEF bytes
<1>6. CASE w = 3
  <2>1. v = d0 + 16 * d1 + 4096 * d2
    BY <1>0, <1>1, <1>6
  <2>2. bytes = <<64 * 2 + d0, d1, d2>>
    BY <1>6 DEF PkgBytes, d0, d1, d2
  <2>3. FollowingBytes(bytes) = 2 /\ bytes[1] % 16 = d0
        /\ bytes[2] = d1 /\ bytes[3] = d2 /\ Len(bytes) = 3
    BY <1>3, <2>2 DEF FollowingBytes
  <2> HIDE DEF bytes
  <2>4. DecodePkgLength(bytes) = d0 + 16 * d1 + 4096 * d2
    BY <2>3 DEF DecodePkgLength
  <2> QED
    BY <1>6, <2>1, <2>3, <2>4 DEF bytes
<1>7. CASE w = 4
  <2>1. v = d0 + 16 * d1 + 4096 * d2 + Bits20 * d3
    BY <1>0, <1>1, <1>7
  <2>2. bytes = <<64 * 3 + d0, d1, d2, d3>>
    BY <1>7 DEF PkgBytes, d0, d1, d2, d3
  <2>3. FollowingBytes(bytes) = 3 /\ bytes[1] % 16 = d0
        /\ bytes[2] = d1 /\ bytes[3] = d2 /\ bytes[4] = d3 /\ Len(bytes) = 4
    BY <1>3, <2>2 DEF FollowingBytes
  <2> HIDE DEF bytes
  <2>4. DecodePkgLength(bytes) = d0 + 16 * d1 + 4096 * d2 + Bits20 * d3
    BY <2>3 DEF DecodePkgLength
  <2> QED
    BY <1>7, <2>1, <2>3, <2>4 DEF bytes
<1> QED
  BY <1>0, <1>4, <1>5, <1>6, <1>7
(* The value and the width that create_pkg_length puts together.           *)
LEMMA DecodeEncode ==
  ASSUME NEW len \in Nat, len < Bits28 - 4, NEW self \in BOOLEAN
  PROVE  LET bytes == CreatePkgLength(len, self)
         IN  /\ FollowingBytes(bytes) = Len(bytes) - 1
             /\ DecodePkgLength(bytes) = PkgValue(len, self)
             /\ Len(bytes) = PkgWidth(len)
<1> DEFINE w == PkgWidth(len)
           v == PkgValue(len, self)
<1>1. w \in 1 .. 4
  BY Widths
<1>2. /\ v \in Nat /\ v < Bits28
      /\ w = 1 => v < 64
      /\ w = 2 => v < 4096
      /\ w = 3 => v < Bits20
  BY Values
<1>3. CreatePkgLength(len, self) = PkgBytes(w, v)
  BY DEF CreatePkgLength
<1> HIDE DEF w, v
<1>4. /\ FollowingBytes(PkgBytes(w, v)) = w - 1
      /\ DecodePkgLength(PkgBytes(w, v)) = v
      /\ Len(PkgBytes(w, v)) = w
  <2>1. Fits(w, v)
    BY <1>1, <1>2 DEF Fits
  <2> QED
    BY <2>1, DecodeBytes
<1> QED
  BY <1>3, <1>4 DEF w, v

-----------------------------------------------------------------------------
(***************************************************************************)
(* The arguments never change, so the round trip is a matter of the data.  *)
(***************************************************************************)
ArgsOK == input \in Lens /\ inclSelf \in BOOLEAN

LEMMA ArgsAlways == Spec => []ArgsOK
<1>1. Init => ArgsOK
  BY DEF Init, ArgsOK
<1>2. ArgsOK /\ [Next]_vars => ArgsOK'
  BY DEF ArgsOK, Next, vars, Measure, IncludeSelf, PrependSingle, PrependCase4,
         PrependCase3, PrependCase2, PrependHigh, PrependLead, Done
<1> QED
  BY <1>1, <1>2, PTL DEF Spec

(* A reader of create_pkg_length's bytes gets the length back, for every   *)
(* length that fits in 28 bits, with the field included or not.            *)
THEOREM RoundTripCorrect == Spec => []RoundTrip
<1>1. ASSUME ArgsOK
      PROVE  RoundTrip
  <2>1. input \in Nat /\ input < Bits28 - 4 /\ inclSelf \in BOOLEAN
    BY <1>1, LensAssumption DEF ArgsOK
  <2> DEFINE bytes == CreatePkgLength(input, inclSelf)
  <2>2. /\ FollowingBytes(bytes) = Len(bytes) - 1
        /\ DecodePkgLength(bytes) = PkgValue(input, inclSelf)
        /\ Len(bytes) = PkgWidth(input)
    BY <2>1, DecodeEncode
  <2>3. PkgWidth(input) \in 1 .. 4
    BY <2>1, Widths
  <2>4. PkgValue(input, inclSelf)
          = input + (IF inclSelf THEN Len(bytes) ELSE 0)
    BY <2>2 DEF PkgValue
  <2> QED
    BY <2>2, <2>4 DEF RoundTrip
<1> QED
  BY <1>1, ArgsAlways, PTL

-----------------------------------------------------------------------------
(***************************************************************************)
(* The reference implementation, byte by byte.  What is left in `length'   *)
(* at a case of the switch is the value without the digits that have been  *)
(* prepended, also when the switch was entered at that case.               *)
(***************************************************************************)
v == PkgValue(input, inclSelf)
w == PkgWidth(input)
d1 == (v \div 16) % 256
d2 == (v \div 4096) % 256
d3 == (v \div Bits20) % 256

(* The bytes behind byte k of the field.                                   *)
Behind(k) ==
  CASE w = k          -> <<>>
    [] w = 4 /\ k = 3 -> <<d3>>
    [] w = 3 /\ k = 2 -> <<d2>>
    [] w = 4 /\ k = 2 -> <<d2, d3>>
    [] w = 2 /\ k = 1 -> <<d1>>
    [] w = 3 /\ k = 1 -> <<d1, d2>>
    [] w = 4 /\ k = 1 -> <<d1, d2, d3>>

CInv ==
  /\ ArgsOK
  /\ pc \in {"measure", "include", "single", "case4", "case3", "case2", "lead",
             "done"}
  /\ pc = "measure" => length = input /\ lengthBytes = 0 /\ package = <<>>
  /\ pc = "include" => length = input /\ lengthBytes = w /\ package = <<>>
  /\ pc = "single" => w = 1 /\ length = v /\ lengthBytes = w /\ package = <<>>
  /\ pc = "case4" => w = 4 /\ length = v /\ lengthBytes = w /\ package = <<>>
  /\ pc = "case3" => /\ w \in {3, 4}
                     /\ length = v % Bits20 /\ lengthBytes = w
                     /\ package = Behind(3)
  /\ pc = "case2" => /\ w \in {2, 3, 4}
                     /\ length = v % 4096 /\ lengthBytes = w
                     /\ package = Behind(2)
  /\ pc = "lead" => /\ w \in {2, 3, 4}
                    /\ length = v % 16 /\ lengthBytes = w
                    /\ package = Behind(1)
  /\ pc = "done" => /\ length \in Nat /\ length < Bits28 /\ lengthBytes = w
                    /\ package = PkgBytes(w, v)

LEMMA ArgsFit ==
  ASSUME ArgsOK
  PROVE  /\ Fits(w, v)
         /\ CWidth(input) = w
         /\ v = input + (IF inclSelf THEN w ELSE 0)
<1>1. input \in Nat /\ input < Bits28 - 4 /\ inclSelf \in BOOLEAN
  BY LensAssumption DEF ArgsOK
<1>2. w \in 1 .. 4 /\ CWidth(input) = w
  BY <1>1, Widths DEF w
<1>3. /\ v \in Nat /\ v < Bits28
      /\ w = 1 => v < 64
      /\ w = 2 => v < 4096
      /\ w = 3 => v < Bits20
  BY <1>1, Values DEF v, w
<1> QED
  BY <1>2, <1>3 DEF Fits, v, w, PkgValue

LEMMA PrependOne ==
  ASSUME NEW a \in Byte, NEW q \in Seq(Byte)
  PROVE  /\ <<a>> \o q \in Seq(Byte)
         /\ Len(<<a>> \o q) = Len(q) + 1
         /\ (<<a>> \o q)[1] = a
         /\ \A i \in 2 .. Len(q) + 1 : (<<a>> \o q)[i] = q[i - 1]
<1> DEFINE p == <<a>>
<1>1. p \in Seq(Byte) /\ Len(p) = 1 /\ p[1] = a
  OBVIOUS
<1> HIDE DEF p
<1>2. /\ p \o q \in Seq(Byte)
      /\ Len(p \o q) = Len(p) + Len(q)
      /\ \A i \in 1 .. Len(p) + Len(q) :
           (p \o q)[i] = IF i <= Len(p) THEN p[i] ELSE q[i - Len(p)]
  BY <1>1, ConcatProperties
<1>3. Len(q) \in Nat
  OBVIOUS
<1>4. (p \o q)[1] = a
  BY <1>1, <1>2, <1>3
<1>5. \A i \in 2 .. Len(q) + 1 : (p \o q)[i] = q[i - 1]
  BY <1>1, <1>2, <1>3
<1> QED
  BY <1>1, <1>2, <1>3, <1>4, <1>5 DEF p

LEMMA Prepend0 ==
  ASSUME NEW a \in Byte
  PROVE  <<a>> \o <<>> = <<a>>
<1> DEFINE q == <<>>
           s == <<a>> \o q
           t == <<a>>
<1>1. /\ q \in Seq(Byte) /\ t \in Seq(Byte)
      /\ Len(q) = 0
  OBVIOUS
<1> HIDE DEF q
<1>2. /\ s \in Seq(Byte) /\ Len(s) = Len(q) + 1 /\ s[1] = a
      /\ \A i \in 2 .. Len(q) + 1 : s[i] = q[i - 1]
  BY <1>1, PrependOne
<1> HIDE DEF s
<1>3. s = t
  BY <1>1, <1>2, SeqEqual
<1> QED
  BY <1>3 DEF q, s

LEMMA Prepend1 ==
  ASSUME NEW a \in Byte, NEW b \in Byte
  PROVE  <<a>> \o <<b>> = <<a, b>>
<1> DEFINE q == <<b>>
           s == <<a>> \o q
           t == <<a, b>>
<1>1. /\ q \in Seq(Byte) /\ t \in Seq(Byte)
      /\ Len(q) = 1 /\ q[1] = b
  OBVIOUS
<1> HIDE DEF q
<1>2. /\ s \in Seq(Byte) /\ Len(s) = Len(q) + 1 /\ s[1] = a
      /\ \A i \in 2 .. Len(q) + 1 : s[i] = q[i - 1]
  BY <1>1, PrependOne
<1> HIDE DEF s
<1>3. s[2] = b
  BY <1>1, <1>2
<1>4. s = t
  BY <1>1, <1>2, <1>3, SeqEqual
<1> QED
  BY <1>4 DEF q, s

LEMMA Prepend2 ==
  ASSUME NEW a \in Byte, NEW b \in Byte, NEW c \in Byte
  PROVE  <<a>> \o <<b, c>> = <<a, b, c>>
<1> DEFINE q == <<b, c>>
           s == <<a>> \o q
           t == <<a, b, c>>
<1>1. /\ q \in Seq(Byte) /\ t \in Seq(Byte)
      /\ Len(q) = 2 /\ q[1] = b /\ q[2] = c
  OBVIOUS
<1> HIDE DEF q
<1>2. /\ s \in Seq(Byte) /\ Len(s) = Len(q) + 1 /\ s[1] = a
      /\ \A i \in 2 .. Len(q) + 1 : s[i] = q[i - 1]
  BY <1>1, PrependOne
<1> HIDE DEF s
<1>3. s[2] = b
  BY <1>1, <1>2
<1>4. s[3] = c
  BY <1>1, <1>2
<1>5. s = t
  BY <1>1, <1>2, <1>3, <1>4, SeqEqual
<1> QED
  BY <1>5 DEF q, s

LEMMA Prepend3 ==
  ASSUME NEW a \in Byte, NEW b \in Byte, NEW c \in Byte, NEW d \in Byte
  PROVE  <<a>> \o <<b, c, d>> = <<a, b, c, d>>
<1> DEFINE q == <<b, c, d>>
           s == <<a>> \o q
           t == <<a, b, c, d>>
<1>1. /\ q \in Seq(Byte) /\ t \in Seq(Byte)
      /\ Len(q) = 3 /\ q[1] = b /\ q[2] = c /\ q[3] = d
  OBVIOUS
<1> HIDE DEF q
<1>2. /\ s \in Seq(Byte) /\ Len(s) = Len(q) + 1 /\ s[1] = a
      /\ \A i \in 2 .. Len(q) + 1 : s[i] = q[i - 1]
  BY <1>1, PrependOne
<1> HIDE DEF s
<1>3. s[2] = b
  BY <1>1, <1>2
<1>4. s[3] = c
  BY <1>1, <1>2
<1>5. s[4] = d
  BY <1>1, <1>2
<1>6. s = t
  BY <1>1, <1>2, <1>3, <1>4, <1>5, SeqEqual
<1> QED
  BY <1>6 DEF q, s

LEMMA ShortSeq ==
  ASSUME NEW a \in Byte, NEW b \in Byte, NEW c \in Byte, NEW d \in Byte
  PROVE  /\ <<a>> \in Seq(Byte) /\ Len(<<a>>) <= 4
         /\ <<a, b>> \in Seq(Byte) /\ Len(<<a, b>>) <= 4
         /\ <<a, b, c>> \in Seq(Byte) /\ Len(<<a, b, c>>) <= 4
         /\ <<a, b, c, d>> \in Seq(Byte) /\ Len(<<a, b, c, d>>) <= 4
  OBVIOUS

LEMMA CInvInit == Init => CInv
  BY DEF Init, CInv, ArgsOK

LEMMA CInvStep ==
  ASSUME CInv, Next
  PROVE  CInv'
<1>1. /\ ArgsOK /\ ArgsOK'
      /\ UNCHANGED <<input, inclSelf>>
  BY DEF CInv, ArgsOK, Next, vars, Measure, IncludeSelf, PrependSingle,
         PrependCase4, PrependCase3, PrependCase2, PrependHigh, PrependLead, Done
<1>2. /\ Fits(w, v) /\ CWidth(input) = w
      /\ v = input + (IF inclSelf THEN w ELSE 0)
  BY <1>1, ArgsFit
<1>3. /\ w \in 1 .. 4 /\ v \in Nat /\ v < Bits28
      /\ w = 1 => v < 64
      /\ w = 2 => v < 4096
      /\ w = 3 => v < Bits20
  BY <1>2 DEF Fits
<1>4. UNCHANGED <<w, v, d1, d2, d3>>
  BY <1>1 DEF w, v, d1, d2, d3
<1>5. \A k : UNCHANGED Behind(k)
  BY <1>4 DEF Behind
<1>6. /\ v < Bits20 => v = v % Bits20
      /\ v < 4096 => v = v % 4096
      /\ (v % Bits20) % 4096 = v % 4096
      /\ (v % 4096) % 16 = v % 16
      /\ ((v % Bits20) \div 4096) % 256 = d2
      /\ ((v % 4096) \div 16) % 256 = d1
      /\ d1 \in Byte /\ d2 \in Byte /\ d3 \in Byte
  <2>1. (v < Bits20 => v = v % Bits20) /\ (v < 4096 => v = v % 4096)
    BY <1>3, SMT DEF Bits20
  <2> QED
    BY <1>3, <2>1, Digits, HighDigits DEF d1, d2, d3
<1>16. d1 \in Byte /\ d2 \in Byte /\ d3 \in Byte
  BY <1>6
<1>15. /\ <<d2>> \o <<>> = <<d2>> /\ <<d2>> \o <<d3>> = <<d2, d3>>
       /\ <<d1>> \o <<>> = <<d1>> /\ <<d1>> \o <<d2>> = <<d1, d2>>
       /\ <<d1>> \o <<d2, d3>> = <<d1, d2, d3>>
       /\ \A a \in Byte : /\ <<a>> \o <<d1>> = <<a, d1>>
                           /\ <<a>> \o <<d1, d2>> = <<a, d1, d2>>
                           /\ <<a>> \o <<d1, d2, d3>> = <<a, d1, d2, d3>>
  <2>1. \A a \in Byte : <<a>> \o <<>> = <<a>>
    BY Prepend0
  <2>2. \A a \in Byte : <<a>> \o <<d1>> = <<a, d1>>
    BY <1>16, Prepend1
  <2>3. <<d2>> \o <<d3>> = <<d2, d3>> /\ <<d1>> \o <<d2>> = <<d1, d2>>
    BY <1>16, Prepend1
  <2>4. \A a \in Byte : <<a>> \o <<d1, d2>> = <<a, d1, d2>>
    BY <1>16, Prepend2
  <2>5. <<d1>> \o <<d2, d3>> = <<d1, d2, d3>>
    BY <1>16, Prepend2
  <2>6. \A a \in Byte : <<a>> \o <<d1, d2, d3>> = <<a, d1, d2, d3>>
    BY <1>16, Prepend3
  <2> QED
    BY <1>16, <2>1, <2>2, <2>3, <2>4, <2>5, <2>6
<1>7. CASE Measure
  BY <1>1, <1>2, <1>4, <1>7 DEF CInv, Measure
<1>8. CASE IncludeSelf
  <2>1. length' = v /\ lengthBytes' = w /\ package' = <<>> /\ pc' = Entry(w)
    BY <1>2, <1>3, <1>8 DEF CInv, IncludeSelf
  <2>2. /\ w = 1 => pc' = "single"
        /\ w = 2 => pc' = "case2"
        /\ w = 3 => pc' = "case3"
        /\ w = 4 => pc' = "case4"
    BY <1>3, <2>1 DEF Entry
  <2>3. /\ w = 2 => v = v % 4096 /\ Behind(2) = <<>>
        /\ w = 3 => v = v % Bits20 /\ Behind(3) = <<>>
    BY <1>3, <1>6 DEF Behind
  <2> QED
    BY <1>1, <1>3, <1>4, <1>5, <2>1, <2>2, <2>3 DEF CInv
<1>9. CASE PrependSingle
  <2>1. /\ w = 1 /\ length = v /\ lengthBytes = w
        /\ package' = <<length % 256>> /\ pc' = "done"
        /\ UNCHANGED <<length, lengthBytes>>
    BY <1>9 DEF CInv, PrependSingle
  <2>2. package' = PkgBytes(w, v)
    BY <1>3, <2>1 DEF PkgBytes
  <2> QED
    BY <1>1, <1>3, <1>4, <2>1, <2>2 DEF CInv
<1>10. CASE PrependCase4
  <2>1. /\ w = 4 /\ length = v /\ lengthBytes = w /\ package = <<>>
        /\ package' = <<(length \div Bits20) % 256>> \o package
        /\ length' = length % Bits20 /\ pc' = "case3"
        /\ lengthBytes' = lengthBytes
    BY <1>10 DEF CInv, PrependCase4, PrependHigh
  <2>2. package' = <<d3>> \o <<>>
    BY <2>1 DEF d3
  <2>3. package' = Behind(3)
    BY <2>1, <2>2 DEF Behind
  <2> QED
    BY <1>1, <1>4, <1>5, <2>1, <2>3 DEF CInv
<1>11. CASE PrependCase3
  <2>1. /\ w \in {3, 4} /\ length = v % Bits20 /\ lengthBytes = w
        /\ package = Behind(3)
        /\ package' = <<(length \div 4096) % 256>> \o package
        /\ length' = length % 4096 /\ pc' = "case2"
        /\ lengthBytes' = lengthBytes
    BY <1>11 DEF CInv, PrependCase3, PrependHigh
  <2>2. (length \div 4096) % 256 = d2 /\ length % 4096 = v % 4096
    BY <1>6, <2>1
  <2>3. package' = <<d2>> \o Behind(3) /\ length' = v % 4096
    BY <2>1, <2>2
  <2>4. /\ w = 3 => Behind(3) = <<>> /\ Behind(2) = <<d2>>
        /\ w = 4 => Behind(3) = <<d3>> /\ Behind(2) = <<d2, d3>>
    BY DEF Behind
  <2>6. w = 3 => package' = Behind(2)
    BY <1>15, <2>3, <2>4
  <2>7. w = 4 => package' = Behind(2)
    BY <1>15, <2>3, <2>4
  <2>5. package' = Behind(2)
    BY <2>1, <2>6, <2>7
  <2> QED
    BY <1>1, <1>4, <1>5, <2>1, <2>3, <2>5 DEF CInv
<1>12. CASE PrependCase2
  <2>1. /\ w \in {2, 3, 4} /\ length = v % 4096 /\ lengthBytes = w
        /\ package = Behind(2)
        /\ package' = <<(length \div 16) % 256>> \o package
        /\ length' = length % 16 /\ pc' = "lead"
        /\ lengthBytes' = lengthBytes
    BY <1>12 DEF CInv, PrependCase2, PrependHigh
  <2>2. (length \div 16) % 256 = d1 /\ length % 16 = v % 16
    BY <1>6, <2>1
  <2>3. package' = <<d1>> \o Behind(2) /\ length' = v % 16
    BY <2>1, <2>2
  <2>4. /\ w = 2 => Behind(2) = <<>> /\ Behind(1) = <<d1>>
        /\ w = 3 => Behind(2) = <<d2>> /\ Behind(1) = <<d1, d2>>
        /\ w = 4 => Behind(2) = <<d2, d3>> /\ Behind(1) = <<d1, d2, d3>>
    BY DEF Behind
  <2>6. w = 2 => package' = Behind(1)
    BY <1>15, <2>3, <2>4
  <2>7. w = 3 => package' = Behind(1)
    BY <1>15, <2>3, <2>4
  <2>8. w = 4 => package' = Behind(1)
    BY <1>15, <2>3, <2>4
  <2>5. package' = Behind(1)
    BY <2>1, <2>6, <2>7, <2>8
  <2> QED
    BY <1>1, <1>4, <1>5, <2>1, <2>3, <2>5 DEF CInv
<1>13. CASE PrependLead
  <2>1. /\ w \in {2, 3, 4} /\ length = v % 16 /\ lengthBytes = w
        /\ package = Behind(1)
        /\ package' = <<((lengthBytes - 1) * 64 + length) % 256>> \o package
        /\ pc' = "done"
        /\ UNCHANGED <<length, lengthBytes>>
    BY <1>13 DEF CInv, PrependLead
  <2>2. v % 16 \in Nat /\ v % 16 < 16
    BY <1>3
  <2>3. length \in Nat /\ length < Bits28
    <3>1. 16 < Bits28
      BY SMT DEF Bits28
    <3>2. Bits28 \in Nat
      BY SMT DEF Bits28
    <3> QED
      BY <2>1, <2>2, <3>1, <3>2
  <2> DEFINE low == v % 16
  <2>4. ((lengthBytes - 1) * 64 + length) % 256 = (w - 1) * 64 + low
    <3> HIDE DEF low
    <3>1. \A k \in {2, 3, 4} : ((k - 1) * 64 + low) % 256 = (k - 1) * 64 + low
      <4>1. low \in Nat /\ low < 16
        BY <2>2 DEF low
      <4> QED
        BY <4>1
    <3> QED
      BY <2>1, <3>1 DEF low
  <2>5. package' = <<(w - 1) * 64 + (v % 16)>> \o Behind(1)
    BY <2>1, <2>4
  <2>6. ASSUME w = 2
        PROVE  package' = PkgBytes(w, v)
    <3>1. package' = <<64 + (v % 16)>> \o <<d1>>
      BY <2>5, <2>6 DEF Behind
    <3>2. 64 + (v % 16) \in Byte
      BY <2>2 DEF Byte
    <3>3. package' = <<64 + (v % 16), d1>>
      BY <1>15, <3>1, <3>2
    <3> QED
      BY <2>6, <3>3 DEF PkgBytes, d1
  <2>7. ASSUME w = 3
        PROVE  package' = PkgBytes(w, v)
    <3>1. package' = <<128 + (v % 16)>> \o <<d1, d2>>
      BY <2>5, <2>7 DEF Behind
    <3>2. 128 + (v % 16) \in Byte
      BY <2>2 DEF Byte
    <3>3. package' = <<128 + (v % 16), d1, d2>>
      BY <1>15, <3>1, <3>2
    <3> QED
      BY <2>7, <3>3 DEF PkgBytes, d1, d2
  <2>8. ASSUME w = 4
        PROVE  package' = PkgBytes(w, v)
    <3>1. package' = <<192 + (v % 16)>> \o <<d1, d2, d3>>
      BY <2>5, <2>8 DEF Behind
    <3>2. 192 + (v % 16) \in Byte
      BY <2>2 DEF Byte
    <3>3. package' = <<192 + (v % 16), d1, d2, d3>>
      BY <1>15, <3>1, <3>2
    <3> QED
      BY <2>8, <3>3 DEF PkgBytes, d1, d2, d3
  <2>9. package' = PkgBytes(w, v)
    BY <2>1, <2>6, <2>7, <2>8
  <2> QED
    BY <1>1, <1>4, <2>1, <2>3, <2>9 DEF CInv
<1>14. CASE Done
  BY <1>1, <1>4, <1>5, <1>14 DEF CInv, Done, vars
<1> QED
  BY <1>7, <1>8, <1>9, <1>10, <1>11, <1>12, <1>13, <1>14 DEF Next

LEMMA CInvAlways == Spec => []CInv
<1>1. ASSUME CInv, UNCHANGED vars
      PROVE  CInv'
  BY <1>1 DEF CInv, ArgsOK, vars, v, w, d1, d2, d3, Behind
<1> QED
  BY CInvInit, CInvStep, <1>1, PTL DEF Spec

(* The byte-by-byte reference implementation ends with the bytes that      *)
(* create_pkg_length computes, for every length and with the field         *)
(* included or not.                                                        *)
THEOREM SameBytesCorrect == Spec => []SameBytes
<1>1. CInv => SameBytes
  BY DEF CInv, SameBytes, CreatePkgLength, w, v
<1> QED
  BY <1>1, CInvAlways, PTL

(* The variables of the C function stay in their types: what is left of    *)
(* the length is never negative and never beyond 28 bits, and at most four *)
(* bytes are prepended.                                                    *)
THEOREM TypeCorrect == Spec => []TypeOK
<1>1. ASSUME CInv
      PROVE  TypeOK
  <2>1. ArgsOK
    BY <1>1 DEF CInv
  <2>2. /\ w \in 1 .. 4 /\ v \in Nat /\ v < Bits28
        /\ w = 1 => v < 64
    BY <2>1, ArgsFit DEF Fits
  <2>3. input \in Nat /\ input < Bits28
    <3>1. input \in Nat /\ input < Bits28 - 4
      BY <2>1, LensAssumption DEF ArgsOK
    <3>2. Bits28 \in Nat
      BY SMT DEF Bits28
    <3> QED
      BY <3>1, <3>2
  <2>4. /\ v % Bits20 \in Nat /\ v % Bits20 < Bits28
        /\ v % 4096 \in Nat /\ v % 4096 < Bits28
        /\ v % 16 \in Nat /\ v % 16 < Bits28
    BY <2>2, SMT DEF Bits20, Bits28
  <2>5. length \in Nat /\ length < Bits28 /\ lengthBytes \in 0 .. 4
    BY <1>1, <2>2, <2>3, <2>4 DEF CInv
  <2>6. v % 16 \in Nat /\ v % 16 < 16
    BY <2>2
  <2>7. d1 \in Byte /\ d2 \in Byte /\ d3 \in Byte
    BY <2>2, Digits DEF d1, d2, d3
  <2>8. package \in Seq(Byte) /\ Len(package) <= 4
    <3>1. ASSUME NEW k \in 1 .. 3, k <= w
          PROVE  Behind(k) \in Seq(Byte) /\ Len(Behind(k)) <= 4
      BY <2>2, <2>7, <3>1 DEF Behind
    <3>2. PkgBytes(w, v) \in Seq(Byte) /\ Len(PkgBytes(w, v)) <= 4
      <4>1. w = 1 => PkgBytes(w, v) = <<v % 256>> /\ v % 256 \in Byte
        BY <2>2 DEF PkgBytes, Byte
      <4>2. w = 2 => PkgBytes(w, v) = <<64 + (v % 16), d1>>
        BY DEF PkgBytes, d1
      <4>3. w = 3 => PkgBytes(w, v) = <<128 + (v % 16), d1, d2>>
        BY DEF PkgBytes, d1, d2
      <4>4. w = 4 => PkgBytes(w, v) = <<192 + (v % 16), d1, d2, d3>>
        BY DEF PkgBytes, d1, d2, d3
      <4>5. /\ 64 + (v % 16) \in Byte /\ 128 + (v % 16) \in Byte
            /\ 192 + (v % 16) \in Byte
        BY <2>6 DEF Byte
      <4> DEFINE bytes == PkgBytes(w, v)
                 OK == bytes \in Seq(Byte) /\ Len(bytes) <= 4
      <4>6. w = 1 => OK
        <5> SUFFICES ASSUME w = 1
                     PROVE  OK
          OBVIOUS
        <5> DEFINE y == v % 256
        <5>1. bytes = <<y>> /\ y \in Byte
          BY <4>1
        <5> HIDE DEF y, bytes
        <5>2. <<y>> \in Seq(Byte) /\ Len(<<y>>) <= 4
          BY <5>1
        <5> QED
          BY <5>1, <5>2 DEF bytes
      <4> DEFINE x == v % 16
                 t2 == <<64 + x, d1>>
                 t3 == <<128 + x, d1, d2>>
                 t4 == <<192 + x, d1, d2, d3>>
      <4>10. /\ t2 \in Seq(Byte) /\ Len(t2) <= 4
             /\ t3 \in Seq(Byte) /\ Len(t3) <= 4
             /\ t4 \in Seq(Byte) /\ Len(t4) <= 4
        BY <2>7, <4>5, ShortSeq
      <4> HIDE DEF t2, t3, t4
      <4>7. w = 2 => OK
        BY <4>2, <4>10 DEF t2
      <4>8. w = 3 => OK
        BY <4>3, <4>10 DEF t3
      <4>9. w = 4 => OK
        BY <4>4, <4>10 DEF t4
      <4> QED
        BY <2>2, <4>6, <4>7, <4>8, <4>9
    <3>3. /\ w \in {3, 4} => Behind(3) \in Seq(Byte) /\ Len(Behind(3)) <= 4
          /\ w \in {2, 3, 4} => Behind(2) \in Seq(Byte) /\ Len(Behind(2)) <= 4
          /\ w \in {2, 3, 4} => Behind(1) \in Seq(Byte) /\ Len(Behind(1)) <= 4
      BY <3>1
    <3>4. <<>> \in Seq(Byte) /\ Len(<<>>) <= 4
      OBVIOUS
    <3>5. \/ package = <<>>
          \/ w \in {3, 4} /\ package = Behind(3)
          \/ w \in {2, 3, 4} /\ package = Behind(2)
          \/ w \in {2, 3, 4} /\ package = Behind(1)
          \/ package = PkgBytes(w, v)
      BY <1>1 DEF CInv
    <3> QED
      BY <3>2, <3>3, <3>4, <3>5
  <2> QED
    BY <1>1, <2>5, <2>8 DEF CInv, ArgsOK, TypeOK
<1> QED
  BY <1>1, CInvAlways, PTL

-----------------------------------------------------------------------------
(* Where a row of fields ends: the recursion has its solution.             *)
LEMMA EndsSteps ==
  ASSUME NEW f \in Seq(Nat)
  PROVE  /\ Ends(f) \in [0 .. Len(f) -> Nat] /\ Ends(f)[0] = 0
         /\ \A k \in 1 .. Len(f) : Ends(f)[k] = Ends(f)[k - 1] + f[k]
<1>1. Len(f) \in Nat /\ \A k \in 1 .. Len(f) : f[k] \in Nat
  OBVIOUS
<1>2. Ends(f) = SumsUpTo(Len(f), f)
  BY DEF Ends, SumsUpTo
<1> QED BY <1>1, <1>2, PartialSums

(* The ends of up to twelve fields, one by one.                            *)
LEMMA EndsShort ==
  ASSUME NEW f \in Seq(Nat), NEW e, e = Ends(f)
  PROVE  /\ Len(f) >= 1 => e[1] = f[1]
         /\ \A k \in 2 .. 12 : Len(f) >= k => e[k] = e[k - 1] + f[k]
<1>1. /\ e[0] = 0 /\ Len(f) \in Nat
      /\ \A k \in 1 .. Len(f) : e[k] = e[k - 1] + f[k] /\ f[k] \in Nat
  BY EndsSteps
<1>2. ASSUME Len(f) >= 1 PROVE e[1] = f[1]
  <2>1. 1 \in 1 .. Len(f) /\ 1 - 1 = 0
    BY <1>1, <1>2
  <2>2. e[1] = e[0] + f[1] /\ f[1] \in Nat
    BY <1>1, <2>1
  <2> QED BY <1>1, <2>2
<1>3. ASSUME NEW k \in 2 .. 12, Len(f) >= k PROVE e[k] = e[k - 1] + f[k]
  BY <1>1, <1>3
<1> QED BY <1>2, <1>3

(* Fields behind fields: the ends of the first ones stay, those of the     *)
(* others are counted from there.                                          *)
LEMMA EndsConcat ==
  ASSUME NEW f \in Seq(Nat), NEW g \in Seq(Nat)
  PROVE  /\ \A k \in 0 .. Len(f) : Ends(f \o g)[k] = Ends(f)[k]
         /\ \A k \in 0 .. Len(g) : Ends(f \o g)[Len(f) + k] = Total(f) + Ends(g)[k]
<1> DEFINE e == Ends(f \o g)  a == Ends(f)  b == Ends(g)
           m == Len(f)  n == Len(g)
<1>1. /\ m \in Nat /\ n \in Nat /\ f \o g \in Seq(Nat) /\ Len(f \o g) = m + n
      /\ \A k \in 1 .. m : (f \o g)[k] = f[k] /\ f[k] \in Nat
      /\ \A k \in 1 .. n : (f \o g)[m + k] = g[k] /\ g[k] \in Nat
  OBVIOUS
<1>2. /\ e[0] = 0 /\ a[0] = 0 /\ b[0] = 0
      /\ \A k \in 0 .. m : a[k] \in Nat
      /\ \A k \in 0 .. n : b[k] \in Nat
      /\ \A k \in 1 .. m + n : e[k] = e[k - 1] + (f \o g)[k]
      /\ \A k \in 1 .. m : a[k] = a[k - 1] + f[k]
      /\ \A k \in 1 .. n : b[k] = b[k - 1] + g[k]
  BY <1>1, EndsSteps
<1>3. Total(f) = a[m]
  BY DEF Total
<1> DEFINE T == {k \in Nat : e[k] = a[k]}
           U == {k \in Nat : e[m + k] = a[m] + b[k]}
<1> HIDE DEF e, a, b, m, n
<1>4. ASSUME NEW k \in 0 .. m - 1, k \in T PROVE k + 1 \in T
  <2>1. k + 1 \in 1 .. m /\ k + 1 \in 1 .. m + n /\ (k + 1) - 1 = k
    BY <1>1
  <2>2. e[k + 1] = e[k] + f[k + 1] /\ a[k + 1] = a[k] + f[k + 1]
    BY <1>1, <1>2, <2>1
  <2> QED BY <1>4, <2>1, <2>2
<1>5. \A k \in 0 .. m : k \in T
  <2>1. 0 \in T
    BY <1>2
  <2> HIDE DEF T
  <2> QED BY <1>1, <1>4, <2>1, BoundedInduction
<1>6. ASSUME NEW k \in 0 .. n - 1, k \in U PROVE k + 1 \in U
  <2>1. /\ k + 1 \in 1 .. n /\ m + (k + 1) \in 1 .. m + n /\ (k + 1) - 1 = k
        /\ (m + (k + 1)) - 1 = m + k /\ k + 1 \in Nat
    BY <1>1
  <2>2. e[m + (k + 1)] = e[m + k] + g[k + 1] /\ b[k + 1] = b[k] + g[k + 1]
    BY <1>1, <1>2, <2>1
  <2>3. a[m] \in Nat /\ b[k] \in Nat /\ g[k + 1] \in Nat
    BY <1>1, <1>2, <2>1
  <2> QED BY <1>6, <2>1, <2>2, <2>3
<1>7. \A k \in 0 .. n : k \in U
  <2>1. 0 \in U
    <3>1. m \in 0 .. m /\ m + 0 = m
      BY <1>1
    <3>2. e[m] = a[m] /\ a[m] \in Nat
      BY <1>2, <1>5, <3>1
    <3> QED BY <1>2, <3>1, <3>2
  <2> HIDE DEF U
  <2> QED BY <1>1, <1>6, <2>1, BoundedInduction
<1> QED BY <1>3, <1>5, <1>7 DEF e, a, b, m, n

(* A row of equal fields.                                                  *)
LEMMA EndsEqual ==
  ASSUME NEW n \in Nat, NEW c \in {2, 4, 8}
  PROVE  /\ [k \in 1 .. n |-> c] \in Seq(Nat) /\ Len([k \in 1 .. n |-> c]) = n
         /\ \A k \in 0 .. n : Ends([j \in 1 .. n |-> c])[k] = c * k
<1> DEFINE f == [k \in 1 .. n |-> c]  e == Ends(f)
           T == {k \in Nat : e[k] = c * k}
<1>1. f \in Seq(Nat) /\ Len(f) = n /\ \A k \in 1 .. n : f[k] = c
  OBVIOUS
<1>2. e[0] = 0 /\ \A k \in 1 .. n : e[k] = e[k - 1] + c
  <2> HIDE DEF f
  <2> QED BY <1>1, EndsSteps
<1> HIDE DEF f, e
<1>3. 0 \in T
  BY <1>2
<1>4. ASSUME NEW k \in 0 .. n - 1, k \in T PROVE k + 1 \in T
  <2>1. k + 1 \in 1 .. n /\ (k + 1) - 1 = k /\ k + 1 \in Nat /\ k \in Nat
    OBVIOUS
  <2>2. e[k + 1] = c * k + c
    BY <1>2, <1>4, <2>1
  <2>3. c * k + c = c * (k + 1)
    BY <2>1
  <2> QED BY <2>1, <2>2, <2>3
<1>5. \A k \in 0 .. n : k \in T
  <2> HIDE DEF T
  <2> QED BY <1>3, <1>4, BoundedInduction
<1> QED BY <1>1, <1>5 DEF f, e

(* The bytes of fields behind fields.                                      *)
LEMMA TotalConcat ==
  ASSUME NEW f \in Seq(Nat), NEW g \in Seq(Nat)
  PROVE  /\ f \o g \in Seq(Nat) /\ Len(f \o g) = Len(f) + Len(g)
         /\ Total(f \o g) = Total(f) + Total(g)
         /\ Total(f) \in Nat
<1>1. /\ f \o g \in Seq(Nat) /\ Len(f \o g) = Len(f) + Len(g)
      /\ Len(g) \in 0 .. Len(g) /\ Len(f) \in 0 .. Len(f)
  OBVIOUS
<1>2. Ends(f \o g)[Len(f) + Len(g)] = Total(f) + Ends(g)[Len(g)]
  BY <1>1, EndsConcat
<1>3. Ends(f)[Len(f)] \in Nat
  BY <1>1, EndsSteps
<1> QED BY <1>1, <1>2, <1>3 DEF Total

(* The totals of short rows.                                               *)
LEMMA TotalShort ==
  ASSUME NEW f \in Seq(Nat)
  PROVE  /\ Len(f) = 1 => Total(f) = f[1]
         /\ Len(f) = 2 => Total(f) = f[1] + f[2]
         /\ Len(f) = 3 => Total(f) = f[1] + f[2] + f[3]
         /\ Len(f) = 4 => Total(f) = f[1] + f[2] + f[3] + f[4]
         /\ Len(f) = 5 => Total(f) = f[1] + f[2] + f[3] + f[4] + f[5]
<1> DEFINE e == Ends(f)  n == Len(f)
<1>1. Total(f) = e[n]
  BY DEF Total
<1>2. /\ n >= 1 => e[1] = f[1]
      /\ \A k \in 2 .. 12 : n >= k => e[k] = e[k - 1] + f[k]
  BY EndsShort
<1> HIDE DEF e, n
<1>3. /\ n >= 2 => e[2] = e[1] + f[2]
      /\ n >= 3 => e[3] = e[2] + f[3]
      /\ n >= 4 => e[4] = e[3] + f[4]
      /\ n >= 5 => e[5] = e[4] + f[5]
  <2>1. /\ 2 - 1 = 1 /\ 3 - 1 = 2 /\ 4 - 1 = 3 /\ 5 - 1 = 4
        /\ 2 \in 2 .. 12 /\ 3 \in 2 .. 12 /\ 4 \in 2 .. 12 /\ 5 \in 2 .. 12
    OBVIOUS
  <2> QED BY <1>2, <2>1
<1>4. /\ n = 1 => e[n] = f[1]
      /\ n = 2 => e[n] = f[1] + f[2]
      /\ n = 3 => e[n] = f[1] + f[2] + f[3]
      /\ n = 4 => e[n] = f[1] + f[2] + f[3] + f[4]
      /\ n = 5 => e[n] = f[1] + f[2] + f[3] + f[4] + f[5]
  BY <1>2, <1>3
<1> QED BY <1>1, <1>4 DEF n

(* A row of n fields with t bytes.                                         *)
Row(f, n, t) == f \in Seq(Nat) /\ Len(f) = n /\ Total(f) = t

(* Rows that are given by their members.                                   *)
LEMMA Row1 == ASSUME NEW a \in Nat PROVE Row(<<a>>, 1, a)
<1> DEFINE f == <<a>>
<1>1. f \in Seq(Nat) /\ Len(f) = 1 /\ f[1] = a
  OBVIOUS
<1> HIDE DEF f
<1>2. Total(f) = f[1]
  BY <1>1, TotalShort
<1> QED BY <1>1, <1>2 DEF Row, f

LEMMA Row2 == ASSUME NEW a \in Nat, NEW b \in Nat PROVE Row(<<a, b>>, 2, a + b)
<1> DEFINE f == <<a, b>>
<1>1. f \in Seq(Nat) /\ Len(f) = 2 /\ f[1] = a /\ f[2] = b
  OBVIOUS
<1> HIDE DEF f
<1>2. Total(f) = f[1] + f[2]
  BY <1>1, TotalShort
<1> QED BY <1>1, <1>2 DEF Row, f

LEMMA Row3 ==
  ASSUME NEW a \in Nat, NEW b \in Nat, NEW c \in Nat
  PROVE  Row(<<a, b, c>>, 3, a + b + c)
<1> DEFINE f == <<a, b, c>>
<1>1. /\ f \in Seq(Nat) /\ Len(f) = 3
      /\ f[1] = a /\ f[2] = b /\ f[3] = c
  OBVIOUS
<1> HIDE DEF f
<1>2. Total(f) = f[1] + f[2] + f[3]
  BY <1>1, TotalShort
<1> QED BY <1>1, <1>2 DEF Row, f

LEMMA Row4 ==
  ASSUME NEW a \in Nat, NEW b \in Nat, NEW c \in Nat, NEW d \in Nat
  PROVE  Row(<<a, b, c, d>>, 4, a + b + c + d)
<1> DEFINE f == <<a, b, c, d>>
<1>1. /\ f \in Seq(Nat) /\ Len(f) = 4
      /\ f[1] = a /\ f[2] = b /\ f[3] = c /\ f[4] = d
  OBVIOUS
<1> HIDE DEF f
<1>2. Total(f) = f[1] + f[2] + f[3] + f[4]
  BY <1>1, TotalShort
<1> QED BY <1>1, <1>2 DEF Row, f

LEMMA Row5 ==
  ASSUME NEW a \in Nat, NEW b \in Nat, NEW c \in Nat, NEW d \in Nat, NEW e \in Nat
  PROVE  Row(<<a, b, c, d, e>>, 5, a + b + c + d + e)
<1> DEFINE f == <<a, b, c, d, e>>
<1>1. /\ f \in Seq(Nat) /\ Len(f) = 5
      /\ f[1] = a /\ f[2] = b /\ f[3] = c /\ f[4] = d /\ f[5] = e
  OBVIOUS
<1> HIDE DEF f
<1>2. Total(f) = f[1] + f[2] + f[3] + f[4] + f[5]
  BY <1>1, TotalShort
<1> QED BY <1>1, <1>2 DEF Row, f

LEMMA RowOfEqual ==
  ASSUME NEW n \in Nat, NEW c \in {2, 4, 8}
  PROVE  Row([k \in 1 .. n |-> c], n, c * n)
<1> DEFINE f == [k \in 1 .. n |-> c]
<1>1. f \in Seq(Nat) /\ Len(f) = n /\ \A k \in 0 .. n : Ends(f)[k] = c * k
  BY EndsEqual
<1> HIDE DEF f
<1>2. Ends(f)[n] = c * n
  BY <1>1
<1> QED BY <1>1, <1>2 DEF Row, Total, f

(* Two rows, one behind the other.                                         *)
LEMMA RowConcat ==
  ASSUME NEW f, NEW g, NEW m, NEW n, NEW s, NEW t,
         Row(f, m, s), Row(g, n, t)
  PROVE  Row(f \o g, m + n, s + t)
BY TotalConcat DEF Row

-----------------------------------------------------------------------------
(* What a reader needs of a descriptor.                                    *)
Legible(d) ==
  /\ d.tag \in Nat /\ d.stated \in Nat /\ Written(d) \in Nat /\ Written(d) > 0
  /\ Misstated(d) \/ Written(d) = Advance(d)
  /\ d.parts # << >> =>
       d.parts = <<3 + Ends(d.fields)[12], 3 + Ends(d.fields)[12 + Pins(d)],
                   3 + Ends(d.fields)[14 + Pins(d)]>>

(* A descriptor whose fields have the bytes it states; for a small one the *)
(* length is in its tag.                                                   *)
LEMMA LargeLegible ==
  ASSUME NEW tag \in 128 .. 255, NEW n \in Nat, NEW f, NEW k, Row(f, k, n)
  PROVE  Legible(Large(tag, n, f))
<1> DEFINE d == Large(tag, n, f)
<1>1. d.tag = tag /\ d.stated = n /\ d.fields = f /\ d.parts = << >>
  BY DEF Large
<1> HIDE DEF d
<1>2. Total(f) = n /\ tag >= 128 /\ tag \in Nat
  BY DEF Row
<1>3. Written(d) = 3 + n
  BY <1>1, <1>2 DEF Written
<1>4. Advance(d) = 3 + n
  BY <1>1, <1>2 DEF Advance
<1>5. 3 + n \in Nat /\ 3 + n > 0
  OBVIOUS
<1>6. Legible(d)
  BY <1>1, <1>2, <1>3, <1>4, <1>5 DEF Legible
<1> QED BY <1>6 DEF d

LEMMA SmallLegible ==
  ASSUME NEW tag \in 0 .. 127, NEW f, NEW k, Row(f, k, tag % 8)
  PROVE  Legible(Small(tag, f))
<1> DEFINE d == Small(tag, f)
           n == tag % 8
<1>1. d.tag = tag /\ d.stated = 0 /\ d.fields = f /\ d.parts = << >>
  BY DEF Small
<1>2. Total(f) = n /\ ~(tag >= 128) /\ tag \in Nat /\ n \in Nat
  BY DEF Row
<1> HIDE DEF d
<1>3. Written(d) = 1 + n
  BY <1>1, <1>2 DEF Written
<1>4. Advance(d) = 1 + n
  BY <1>1, <1>2 DEF Advance
<1> HIDE DEF n
<1>5. 1 + n \in Nat /\ 1 + n > 0 /\ 0 \in Nat
  BY <1>2
<1>6. Legible(d)
  BY <1>1, <1>2, <1>3, <1>4, <1>5 DEF Legible
<1> QED BY <1>6 DEF d

(* The descriptors one by one.                                             *)
LEMMA SpacesLegible ==
  \A d \in {WordSpace, DwordSpace, QwordSpace} : Legible(d)
<1>1. Row(<<1, 1, 1>>, 3, 1 + 1 + 1)
  BY Row3
<1>2. /\ Row(<<2, 2, 2, 2, 2>>, 5, 2 + 2 + 2 + 2 + 2)
      /\ Row(<<4, 4, 4, 4, 4>>, 5, 4 + 4 + 4 + 4 + 4)
      /\ Row(<<8, 8, 8, 8, 8>>, 5, 8 + 8 + 8 + 8 + 8)
  BY Row5
<1>3. /\ Row(<<1, 1, 1>>, 3, 3)
      /\ Row(<<2, 2, 2, 2, 2>>, 5, 10)
      /\ Row(<<4, 4, 4, 4, 4>>, 5, 20)
      /\ Row(<<8, 8, 8, 8, 8>>, 5, 40)
  BY <1>1, <1>2
<1>4. /\ Row(<<1, 1, 1>> \o <<2, 2, 2, 2, 2>>, 3 + 5, 3 + 10)
      /\ Row(<<1, 1, 1>> \o <<4, 4, 4, 4, 4>>, 3 + 5, 3 + 20)
      /\ Row(<<1, 1, 1>> \o <<8, 8, 8, 8, 8>>, 3 + 5, 3 + 40)
  BY <1>3, RowConcat, Zenon
<1>5. /\ Row(Header \o <<2, 2, 2, 2, 2>>, 8, 13)
      /\ Row(Header \o <<4, 4, 4, 4, 4>>, 8, 23)
      /\ Row(Header \o <<8, 8, 8, 8, 8>>, 8, 43)
  BY <1>4 DEF Header
<1> QED BY <1>5, LargeLegible DEF WordSpace, DwordSpace, QwordSpace

LEMMA FixedLegible ==
  \A d \in {Memory32, IoPort, IrqNoFlags, Dma, EndTag} : Legible(d)
<1>1. /\ Row(<<1>>, 1, 1)
      /\ Row(<<1, 1>>, 2, 1 + 1)
      /\ Row(<<1, 1, 1, 1>>, 4, 1 + 1 + 1 + 1)
      /\ Row(<<1, 1, 1, 1, 1>>, 5, 1 + 1 + 1 + 1 + 1)
  BY Row1, Row2, Row4, Row5
<1>2. Row(<<1>>, 1, 1) /\ Row(<<1, 1>>, 2, 2) /\ Row(<<1, 1, 1, 1>>, 4, 4)
      /\ Row(<<1, 1, 1, 1, 1>>, 5, 5)
  BY <1>1
<1>3. Row(<<1>> \o <<1, 1, 1, 1>> \o <<1, 1, 1, 1>>, 1 + 4 + 4, 1 + 4 + 4)
  <2>1. Row(<<1>> \o <<1, 1, 1, 1>>, 1 + 4, 1 + 4)
    BY <1>2, RowConcat, Zenon
  <2> QED BY <1>2, <2>1, RowConcat, Zenon
<1>4. Row(<<1>> \o <<1, 1>> \o <<1, 1>> \o <<1, 1>>, 1 + 2 + 2 + 2, 1 + 2 + 2 + 2)
  <2>1. Row(<<1>> \o <<1, 1>>, 1 + 2, 1 + 2)
    BY <1>2, RowConcat, Zenon
  <2>2. Row(<<1>> \o <<1, 1>> \o <<1, 1>>, 1 + 2 + 2, 1 + 2 + 2)
    BY <1>2, <2>1, RowConcat, Zenon
  <2> QED BY <1>2, <2>2, RowConcat, Zenon
<1>6. Legible(Memory32)
  <2>1. Row(<<1>> \o <<1, 1, 1, 1>> \o <<1, 1, 1, 1>>, 9, 9)
    BY <1>3
  <2> QED BY <2>1, LargeLegible DEF Memory32
<1>7. Legible(IoPort)
  <2>1. Row(<<1>> \o <<1, 1>> \o <<1, 1>> \o <<1, 1>>, 7, 71 % 8)
    <3> DEFINE io == <<1>> \o <<1, 1>> \o <<1, 1>> \o <<1, 1>>
    <3> HIDE DEF io
    <3>1. Row(io, 1 + 2 + 2 + 2, 1 + 2 + 2 + 2)
      BY <1>4 DEF io
    <3>2. Row(io, 7, 71 % 8)
      BY <3>1
    <3> QED BY <3>2 DEF io
  <2> QED BY <2>1, SmallLegible DEF IoPort
<1>8. Legible(IrqNoFlags) /\ Legible(Dma) /\ Legible(EndTag)
  <2>1. Row(<<1, 1>>, 2, 34 % 8) /\ Row(<<1, 1>>, 2, 42 % 8) /\ Row(<<1>>, 1, 121 % 8)
    BY <1>2
  <2> QED BY <2>1, SmallLegible DEF IrqNoFlags, Dma, EndTag
<1> QED BY <1>6, <1>7, <1>8

LEMMA InterruptLegible == \A n \in Counts : Legible(Interrupt(n))
<1> SUFFICES ASSUME NEW n \in Counts PROVE Legible(Interrupt(n))
  OBVIOUS
<1> DEFINE list == [k \in 1 .. n |-> 4]
<1>1. n \in Nat
  BY CountsAssumption
<1>2. Row(list, n, 4 * n)
  BY <1>1, RowOfEqual
<1>3. Row(<<1, 1>>, 2, 1 + 1)
  BY Row2
<1> HIDE DEF list
<1>4. Row(<<1, 1>> \o list, 2 + n, (1 + 1) + 4 * n)
  BY <1>2, <1>3, RowConcat, Zenon
<1>5. (1 + 1) + 4 * n = 2 + n * 4 /\ 2 + n * 4 \in Nat
  BY <1>1
<1>6. Row(<<1, 1>> \o list, 2 + n, 2 + n * 4)
  BY <1>4, <1>5, Zenon
<1> QED BY <1>5, <1>6, LargeLegible DEF Interrupt, list

LEMMA I2cLegible == Legible(I2c)
<1> DEFINE a == <<1, 1, 1, 1>>  b == <<2, 1, 2>>  c == <<4, 2>>  d == <<SourceLen + 1>>
<1>1. /\ Row(a, 4, 1 + 1 + 1 + 1) /\ Row(b, 3, 2 + 1 + 2)
      /\ Row(c, 2, 4 + 2) /\ Row(d, 1, SourceLen + 1)
  BY Row1, Row2, Row3, Row4 DEF SourceLen
<1> HIDE DEF a, b, c, d
<1>2. Row(a, 4, 4) /\ Row(b, 3, 5) /\ Row(c, 2, 6) /\ Row(d, 1, 5)
  BY <1>1 DEF SourceLen
<1>3. Row(a \o b, 4 + 3, 4 + 5)
  BY <1>2, RowConcat, Zenon
<1>4. Row(a \o b \o c, 4 + 3 + 2, 4 + 5 + 6)
  BY <1>2, <1>3, RowConcat, Zenon
<1>5. Row(a \o b \o c \o d, 4 + 3 + 2 + 1, 4 + 5 + 6 + 5)
  BY <1>2, <1>4, RowConcat, Zenon
<1> DEFINE f == a \o b \o c \o d
<1> HIDE DEF f
<1>6. Row(f, 10, 6 + (SourceLen + 1) + 9) /\ 6 + (SourceLen + 1) + 9 \in Nat
  BY <1>5 DEF SourceLen, f
<1> QED BY <1>6, LargeLegible DEF I2c, a, b, c, d, f

LEMMA RustLegible ==
  /\ \A c \in {2, 4, 8} : Legible(RustSpace(c))
  /\ Legible(RustMemory32) /\ Legible(RustIo) /\ Legible(RustInterrupt)
  /\ Legible(RustRegister)
<1>1. ASSUME NEW c \in {2, 4, 8} PROVE Legible(RustSpace(c))
  <2> DEFINE list == [k \in 1 .. 5 |-> c]
             tag == CASE c = 2 -> 136 [] c = 4 -> 135 [] c = 8 -> 138
  <2>1. Row(list, 5, c * 5)
    BY RowOfEqual
  <2>2. Row(<<1, 1, 1>>, 3, 1 + 1 + 1)
    BY Row3
  <2>3. tag \in 128 .. 255
    OBVIOUS
  <2> HIDE DEF list, tag
  <2>4. Row(<<1, 1, 1>> \o list, 3 + 5, (1 + 1 + 1) + c * 5)
    BY <2>1, <2>2, RowConcat, Zenon
  <2>5. (1 + 1 + 1) + c * 5 = 3 + 5 * c /\ 3 + 5 * c \in Nat
    OBVIOUS
  <2>6. Row(<<1, 1, 1>> \o list, 3 + 5, 3 + 5 * c)
    BY <2>4, <2>5, Zenon
  <2>7. Legible(Large(tag, 3 + 5 * c, <<1, 1, 1>> \o list))
    BY <2>3, <2>5, <2>6, LargeLegible, Zenon
  <2> QED BY <2>7 DEF RustSpace, tag, list
<1>2. /\ Row(<<1, 4, 4>>, 3, 1 + 4 + 4) /\ Row(<<1, 1, 4>>, 3, 1 + 1 + 4)
      /\ Row(<<1, 2, 2, 1, 1>>, 5, 1 + 2 + 2 + 1 + 1)
      /\ Row(<<1, 1, 1, 1, 8>>, 5, 1 + 1 + 1 + 1 + 8)
  BY Row3, Row5
<1>3. /\ Row(<<1, 4, 4>>, 3, 9) /\ Row(<<1, 1, 4>>, 3, 6)
      /\ Row(<<1, 2, 2, 1, 1>>, 5, 71 % 8)
      /\ Row(<<1, 1, 1, 1, 8>>, 5, 12)
  BY <1>2
<1>4. Legible(RustMemory32) /\ Legible(RustInterrupt)
  BY <1>3, LargeLegible DEF RustMemory32, RustInterrupt
<1>5. Legible(RustIo)
  BY <1>3, SmallLegible DEF RustIo
<1>6. Legible(RustRegister)
  <2> DEFINE d == RustRegister
  <2>1. d.tag = 130 /\ d.stated = 18 /\ d.fields = <<1, 1, 1, 1, 8>> /\ d.parts = << >>
    BY DEF RustRegister, Large
  <2>2. Misstated(d)
    BY DEF Misstated
  <2>3. Total(d.fields) = 12
    BY <1>3, <2>1 DEF Row
  <2> HIDE DEF d
  <2>4. Written(d) = 15
    BY <2>1, <2>3 DEF Written
  <2>5. Legible(d)
    BY <2>1, <2>2, <2>4 DEF Legible
  <2> QED BY <2>5 DEF d
<1> QED BY <1>1, <1>4, <1>5, <1>6

(* A GPIO connection: its twelve fields have 20 bytes, two follow for each *)
(* pin, then the source's name, its terminator and the vendor data.        *)
LEMMA GpioLegible == \A n \in Counts, vendor \in {0, 2} : Legible(Gpio(n, vendor))
<1> SUFFICES ASSUME NEW n \in Counts, NEW vendor \in {0, 2} PROVE Legible(Gpio(n, vendor))
  OBVIOUS
<1> DEFINE p == <<1, 1, 2, 2>>  q == <<1, 2, 2>>  r == <<2, 1, 2, 2, 2>>
           a == GpioFields
           b == [k \in 1 .. n |-> 2]
           c == <<SourceLen, 1, vendor>>
           d == Gpio(n, vendor)
<1>1. n \in Nat
  BY CountsAssumption
<1>2. /\ Row(p, 4, 1 + 1 + 2 + 2) /\ Row(q, 3, 1 + 2 + 2)
      /\ Row(r, 5, 2 + 1 + 2 + 2 + 2) /\ Row(c, 3, SourceLen + 1 + vendor)
  BY Row3, Row4, Row5 DEF SourceLen
<1>3. a = p \o q \o r
  BY DEF GpioFields
<1>4. Row(b, n, 2 * n)
  BY <1>1, RowOfEqual
<1>5. c[1] = 4 /\ c[2] = 1
  BY DEF SourceLen
<1>6. /\ d.tag = 140 /\ d.stated = 22 + SourceLen + 1 + vendor /\ d.fields = a \o b \o c
      /\ d.parts = <<22 + 1, 22 + 1 + n * 2, 22 + 1 + n * 2 + SourceLen + 1>>
  BY DEF Gpio
<1> HIDE DEF a, b, c, d, p, q, r
<1>7. /\ d.stated = 27 + vendor /\ d.parts = <<23, 23 + n * 2, 28 + n * 2>>
      /\ d.parts # << >>
  <2>1. /\ 22 + 1 = 23 /\ 22 + 1 + n * 2 = 23 + n * 2
        /\ 22 + 1 + n * 2 + SourceLen + 1 = 28 + n * 2 /\ 22 + SourceLen + 1 + vendor = 27 + vendor
    BY <1>1 DEF SourceLen
  <2> QED BY <1>6, <2>1
<1>8. Row(p, 4, 6) /\ Row(q, 3, 5) /\ Row(r, 5, 9) /\ Row(c, 3, 5 + vendor)
  BY <1>2 DEF SourceLen
<1>9. Row(a, 12, 20)
  <2>1. Row(p \o q, 4 + 3, 6 + 5)
    BY <1>8, RowConcat, Zenon
  <2>2. Row(p \o q \o r, 4 + 3 + 5, 6 + 5 + 9)
    BY <1>8, <2>1, RowConcat, Zenon
  <2> QED BY <1>3, <2>2
<1> DEFINE ab == a \o b
           f == ab \o c
<1>10. Row(ab, 12 + n, 20 + 2 * n)
  BY <1>4, <1>9, RowConcat, Zenon
<1>11. d.fields = f
  BY <1>6
<1>12. /\ a \in Seq(Nat) /\ b \in Seq(Nat) /\ c \in Seq(Nat) /\ ab \in Seq(Nat)
       /\ Len(a) = 12 /\ Len(b) = n /\ Len(c) = 3 /\ Len(ab) = 12 + n
       /\ Ends(a)[12] = 20 /\ Ends(ab)[12 + n] = 20 + 2 * n /\ Total(ab) = 20 + 2 * n
  <2> HIDE DEF ab
  <2> QED BY <1>4, <1>8, <1>9, <1>10 DEF Row, Total
<1>13. Ends(ab)[12] = 20
  <2>1. 12 \in 0 .. Len(a)
    BY <1>12
  <2>2. Ends(a \o b)[12] = Ends(a)[12]
    BY <1>12, <2>1, EndsConcat, Zenon
  <2> QED BY <1>12, <2>2
<1> HIDE DEF ab
<1>14. Row(f, 12 + n + 3, 20 + 2 * n + (5 + vendor))
  BY <1>8, <1>10, RowConcat, Zenon
<1>15. Ends(f)[12] = 20 /\ Ends(f)[12 + n] = 20 + 2 * n
  <2>1. 12 \in 0 .. Len(ab) /\ 12 + n \in 0 .. Len(ab)
    BY <1>1, <1>12
  <2>2. Ends(ab \o c)[12] = Ends(ab)[12] /\ Ends(ab \o c)[12 + n] = Ends(ab)[12 + n]
    BY <1>12, <2>1, EndsConcat, Zenon
  <2> QED BY <1>12, <1>13, <2>2
<1>16. Ends(f)[14 + n] = 25 + 2 * n
  <2>1. 2 \in 0 .. Len(c) /\ Len(c) >= 1 /\ Len(c) >= 2 /\ 2 \in 2 .. 12
    BY <1>12
  <2>2. Ends(c)[1] = c[1] /\ Ends(c)[2] = Ends(c)[2 - 1] + c[2]
    BY <1>12, <2>1, EndsShort, Zenon
  <2>3. Ends(c)[2] = 5
    BY <1>5, <2>2
  <2>4. Ends(ab \o c)[Len(ab) + 2] = Total(ab) + Ends(c)[2]
    BY <1>12, <2>1, EndsConcat, Zenon
  <2>5. Len(ab) + 2 = 14 + n /\ Total(ab) + Ends(c)[2] = 25 + 2 * n
    BY <1>1, <1>12, <2>3
  <2> QED BY <2>4, <2>5
<1> HIDE DEF f
<1>17. Len(f) = 15 + n /\ Total(f) = 25 + 2 * n + vendor
  BY <1>1, <1>14 DEF Row
<1>18. Pins(d) = n
  BY <1>1, <1>11, <1>17 DEF Pins
<1>19. Written(d) = 28 + 2 * n + vendor
  BY <1>1, <1>6, <1>11, <1>17 DEF Written
<1>20. Advance(d) = 30 + vendor
  BY <1>6, <1>7 DEF Advance
<1>21. Misstated(d) \/ Written(d) = Advance(d)
  <2>1. Misstated(d) \/ n = 1
    BY <1>7, <1>18 DEF Misstated
  <2> QED BY <2>1, <1>19, <1>20
<1>22. d.parts = <<3 + Ends(f)[12], 3 + Ends(f)[12 + n], 3 + Ends(f)[14 + n]>>
  <2>1. /\ 3 + Ends(f)[12] = 23 /\ 3 + Ends(f)[12 + n] = 23 + n * 2
        /\ 3 + Ends(f)[14 + n] = 28 + n * 2
    BY <1>1, <1>15, <1>16
  <2> QED BY <1>7, <2>1
<1>23. Written(d) \in Nat /\ Written(d) > 0 /\ d.tag \in Nat /\ d.stated \in Nat
  BY <1>1, <1>6, <1>7, <1>19
<1>24. Legible(d)
  BY <1>11, <1>18, <1>21, <1>22, <1>23, Zenon DEF Legible
<1> QED BY <1>24 DEF d

(* Every descriptor the encoders write, and the end tag.                   *)
Items == (UNION {Descriptors(k) : k \in Kinds}) \cup {EndTag}

LEMMA ItemsLegible == \A d \in Items : Legible(d)
<1> SUFFICES ASSUME NEW d \in Items PROVE Legible(d)
  OBVIOUS
<1>1. CASE d = EndTag
  BY <1>1, FixedLegible
<1>2. CASE \E k \in Kinds : d \in Descriptors(k)
  <2>1. PICK k \in {"space", "fixed", "interrupt", "gpio", "i2c", "rust", "register"} :
          d \in Descriptors(k)
    BY <1>2, KindsAssumption
  <2>2. CASE k = "space"
    BY <2>1, <2>2, SpacesLegible DEF Descriptors
  <2>3. CASE k = "fixed"
    BY <2>1, <2>3, FixedLegible DEF Descriptors
  <2>4. CASE k = "interrupt"
    BY <2>1, <2>4, InterruptLegible DEF Descriptors
  <2>5. CASE k = "gpio"
    <3>1. PICK n \in Counts, vendor \in {0, 2} : d = Gpio(n, vendor)
      BY <2>1, <2>5 DEF Descriptors
    <3> QED BY <3>1, GpioLegible
  <2>6. CASE k = "i2c"
    BY <2>1, <2>6, I2cLegible DEF Descriptors
  <2>7. CASE k = "rust"
    BY <2>1, <2>7, RustLegible DEF Descriptors
  <2>8. CASE k = "register"
    BY <2>1, <2>8, RustLegible DEF Descriptors
  <2> QED BY <2>1, <2>2, <2>3, <2>4, <2>5, <2>6, <2>7, <2>8
<1>3. ASSUME d # EndTag PROVE \E k \in Kinds : d \in Descriptors(k)
  <2>1. d \in UNION {Descriptors(k) : k \in Kinds}
    BY <1>3, Zenon DEF Items
  <2>2. PICK S \in {Descriptors(k) : k \in Kinds} : d \in S
    BY <2>1, Zenon
  <2> QED BY <2>2, Zenon
<1> QED BY <1>1, <1>2, <1>3

-----------------------------------------------------------------------------
(* Where the descriptors of a template end.                              *)
At(t) == Ends(Lengths(t))

(* They are apart, since each has at least its tag.                        *)
LEMMA AtGrows ==
  ASSUME NEW t \in Seq(Items)
  PROVE  /\ At(t)[0] = 0 /\ \A k \in 0 .. Len(t) : At(t)[k] \in Nat
         /\ \A k \in 1 .. Len(t) :
              At(t)[k] = At(t)[k - 1] + Written(t[k]) /\ Legible(t[k])
         /\ \A j, k \in 0 .. Len(t) : j < k => At(t)[j] < At(t)[k]
<1> DEFINE f == Lengths(t)  m == Len(t)
<1>1. m \in Nat /\ DOMAIN t = 1 .. m /\ \A k \in 1 .. m : t[k] \in Items
  OBVIOUS
<1>2. \A k \in 1 .. m : Legible(t[k])
  <2> HIDE DEF m
  <2> QED BY <1>1, ItemsLegible
<1>3. \A k \in 1 .. m : Written(t[k]) \in Nat /\ Written(t[k]) > 0
  BY <1>2 DEF Legible
<1>4. f \in Seq(Nat) /\ Len(f) = m /\ \A k \in 1 .. m : f[k] = Written(t[k])
  <2>1. f = [k \in 1 .. m |-> Written(t[k])]
    BY <1>1 DEF Lengths
  <2> HIDE DEF f, m
  <2> QED BY <1>1, <1>3, <2>1
<1> HIDE DEF f
<1>5. /\ At(t) \in [0 .. m -> Nat] /\ At(t)[0] = 0
      /\ \A k \in 1 .. m : At(t)[k] = At(t)[k - 1] + f[k]
  BY <1>4, EndsSteps DEF At, f
<1> HIDE DEF m
<1>6. \A k \in 0 .. m : At(t)[k] \in Nat
  BY <1>5
<1>7. \A k \in 1 .. m : At(t)[k] = At(t)[k - 1] + Written(t[k])
  BY <1>4, <1>5
<1>8. ASSUME NEW j \in 0 .. m
      PROVE  \A k \in 0 .. m : j < k => At(t)[j] < At(t)[k]
  <2> DEFINE T == {k \in Nat : j < k => At(t)[j] < At(t)[k]}
  <2>1. 0 \in T
    BY <1>1
  <2>2. ASSUME NEW k \in 0 .. m - 1, k \in T PROVE k + 1 \in T
    <3>1. k + 1 \in 1 .. m /\ (k + 1) - 1 = k /\ k + 1 \in Nat /\ k \in 0 .. m
      BY <1>1
    <3>2. /\ At(t)[k + 1] = At(t)[k] + Written(t[k + 1])
          /\ Written(t[k + 1]) \in Nat /\ Written(t[k + 1]) > 0
      BY <1>3, <1>7, <3>1
    <3>3. At(t)[j] \in Nat /\ At(t)[k] \in Nat
      BY <1>6, <3>1
    <3>4. j <= k => At(t)[j] <= At(t)[k]
      <4>1. j = k \/ j < k \/ ~(j <= k)
        BY <1>1
      <4> QED BY <2>2, <3>3, <4>1
    <3>5. j < k + 1 => j <= k
      BY <1>1
    <3> QED BY <3>1, <3>2, <3>3, <3>4, <3>5
  <2>3. \A k \in 0 .. m : k \in T
    <3> HIDE DEF T
    <3> QED BY <1>1, <2>1, <2>2, BoundedInduction
  <2> QED BY <2>3
<1>9. \A j, k \in 0 .. m : j < k => At(t)[j] < At(t)[k]
  BY <1>8
<1> QED BY <1>2, <1>5, <1>6, <1>7, <1>9 DEF m

(* No descriptor that the reader has left behind misstates its length.     *)
Trusted == \A k \in 1 .. Len(template) : At(template)[k - 1] < at => ~Misstated(template[k])

(* The reader has not met more tags than there are descriptors before the  *)
(* place where it is; and has met just those, if it could trust them.      *)
TemplateInv ==
  /\ rust \in BOOLEAN /\ template \in Seq(Items) /\ Len(template) <= MaxItems + 1
  /\ size \in Nat /\ at \in Nat /\ seen \in Seq(Nat)
  /\ size = 0 => at = 0 /\ seen = << >> /\ Len(template) <= MaxItems
  /\ size > 0 =>
       /\ Len(template) > 0 /\ template[Len(template)] = EndTag
       /\ size = At(template)[Len(template)]
  /\ Len(seen) <= Len(template)
  /\ \A k \in 1 .. Len(template) : at <= At(template)[k - 1] => Len(seen) < k
  /\ size > 0 /\ Trusted =>
       /\ at = At(template)[Len(seen)]
       /\ \A j \in 1 .. Len(seen) : seen[j] = template[j].tag

LEMMA AppendItem ==
  ASSUME template \in Seq(Items), NEW d \in Items, template' = Append(template, d)
  PROVE  /\ template' \in Seq(Items) /\ Len(template') = Len(template) + 1
         /\ template'[Len(template')] = d
  OBVIOUS

(* The steps: appending an item, packing, and reading on.                  *)
LEMMA TemplateAppend ==
  ASSUME TemplateInv, AppendDescriptor
  PROVE  TemplateInv'
<1>1. PICK d \in Items : template' = Append(template, d)
  <2>1. PICK kind \in Kinds :
          \E d \in Descriptors(kind) : template' = Append(template, d)
    BY DEF AppendDescriptor
  <2>2. PICK d \in Descriptors(kind) : template' = Append(template, d)
    BY <2>1
  <2>3. d \in Items
    <3>1. Descriptors(kind) \in {Descriptors(k) : k \in Kinds}
      BY <2>1, Zenon
    <3>2. d \in UNION {Descriptors(k) : k \in Kinds}
      BY <2>2, <3>1, Zenon
    <3> QED BY <3>2, Zenon DEF Items
  <2> QED BY <2>2, <2>3
<1>2. /\ template' \in Seq(Items) /\ Len(template') = Len(template) + 1
      /\ Len(template) \in Nat
  BY <1>1, AppendItem DEF TemplateInv
<1>3. /\ size = 0 /\ size' = 0 /\ at' = 0 /\ seen' = << >> /\ rust' = rust
      /\ Len(template) < MaxItems
  BY DEF AppendDescriptor, TemplateInv
<1>4. Len(template') <= MaxItems
  BY <1>2, <1>3, KindsAssumption
<1>5. Len(seen') = 0
  BY <1>3
<1> QED BY <1>2, <1>3, <1>4, <1>5, KindsAssumption DEF TemplateInv

LEMMA TemplatePack ==
  ASSUME TemplateInv, Pack
  PROVE  TemplateInv'
<1>1. EndTag \in Items
  BY Zenon DEF Items
<1>2. /\ template' \in Seq(Items) /\ Len(template') = Len(template) + 1
      /\ template'[Len(template')] = EndTag /\ Len(template) \in Nat
  BY <1>1, AppendItem DEF TemplateInv, Pack
<1>3. /\ at' = 0 /\ seen' = << >> /\ rust' = rust /\ size = 0
      /\ size' = Total(Lengths(template')) /\ Len(template) <= MaxItems
  BY DEF Pack, TemplateInv
<1>4. Len(Lengths(template')) = Len(template')
  BY <1>2 DEF Lengths
<1>5. size' = At(template')[Len(template')]
  BY <1>3, <1>4 DEF Total, At
<1>6. At(template')[0] = 0 /\ At(template')[Len(template')] > 0
      /\ At(template')[Len(template')] \in Nat
  <2>1. 0 \in 0 .. Len(template') /\ Len(template') \in 0 .. Len(template') /\ 0 < Len(template')
    BY <1>2
  <2> QED BY <1>2, <2>1, AtGrows
<1>7. Len(seen') = 0 /\ seen' \in Seq(Nat)
  BY <1>3
<1>8. Len(template') <= MaxItems + 1 /\ Len(template') > 0
  BY <1>2, <1>3, KindsAssumption
<1>9. rust' \in BOOLEAN
  BY <1>3 DEF TemplateInv
<1> QED BY <1>2, <1>3, <1>5, <1>6, <1>7, <1>8, <1>9 DEF TemplateInv

LEMMA TemplateRead ==
  ASSUME TemplateInv, Read
  PROVE  TemplateInv'
<1> DEFINE m == Len(template)  r == Len(seen)
<1>1. PICK k \in 1 .. m :
        /\ At(template)[k - 1] = at
        /\ seen' = Append(seen, template[k].tag)
        /\ at' = at + Advance(template[k])
  <2>1. DOMAIN template = 1 .. m
    BY DEF TemplateInv
  <2> QED BY <2>1 DEF Read, Start, At
<1>2. UNCHANGED <<rust, template, size>> /\ size > 0
  BY DEF Read
<1>3. /\ template \in Seq(Items) /\ m \in Nat /\ m <= MaxItems + 1
      /\ size \in Nat /\ at \in Nat /\ seen \in Seq(Nat) /\ r \in Nat
      /\ m > 0 /\ template[m] = EndTag /\ size = At(template)[m] /\ r <= m
      /\ \A j \in 1 .. m : at <= At(template)[j - 1] => r < j
  BY <1>2 DEF TemplateInv
<1>4. /\ \A j \in 0 .. m : At(template)[j] \in Nat
      /\ \A j \in 1 .. m :
           /\ At(template)[j] = At(template)[j - 1] + Written(template[j])
           /\ Legible(template[j])
      /\ \A i, j \in 0 .. m : i < j => At(template)[i] < At(template)[j]
  BY <1>3, AtGrows
<1>5. template[k].tag \in Nat /\ Advance(template[k]) \in Nat /\ Advance(template[k]) > 0
  <2>1. Legible(template[k])
    BY <1>4
  <2> DEFINE d == template[k]
  <2>2. d.tag \in Nat /\ d.stated \in Nat
    BY <2>1 DEF Legible
  <2> HIDE DEF d
  <2>3. Advance(d) \in Nat /\ Advance(d) > 0
    <3> DEFINE x == d.tag % 8
    <3>1. x \in Nat
      BY <2>2
    <3> HIDE DEF x
    <3>2. Advance(d) = 3 + d.stated \/ Advance(d) = 1 + x
      BY DEF Advance, x
    <3> QED BY <2>2, <3>1, <3>2
  <2> QED BY <2>2, <2>3 DEF d
<1>6. at' \in Nat /\ at < at'
  BY <1>1, <1>3, <1>5
<1>7. /\ seen' \in Seq(Nat) /\ Len(seen') = r + 1 /\ seen'[r + 1] = template[k].tag
      /\ \A j \in 1 .. r : seen'[j] = seen[j]
  BY <1>1, <1>3, <1>5
<1>8. r < k /\ r + 1 <= k /\ k <= m
  <2>1. at <= At(template)[k - 1]
    BY <1>1, <1>3
  <2>2. r < k
    BY <1>3, <2>1
  <2> QED BY <2>2, <1>3
<1>9. ASSUME NEW j \in 1 .. m, at' <= At(template)[j - 1]
      PROVE  r + 1 < j
  <2>1. k - 1 \in 0 .. m /\ j - 1 \in 0 .. m /\ j \in Nat /\ k \in Nat
    BY <1>3
  <2>2. At(template)[k - 1] < At(template)[j - 1]
    BY <1>1, <1>4, <1>6, <1>9, <2>1
  <2>3. ~(j - 1 < k - 1) /\ j - 1 # k - 1
    <3>1. j - 1 < k - 1 => At(template)[j - 1] < At(template)[k - 1]
      BY <1>4, <2>1
    <3>2. At(template)[j - 1] \in Nat /\ At(template)[k - 1] \in Nat
      BY <1>4, <2>1
    <3> QED BY <2>2, <3>1, <3>2
  <2> QED BY <1>3, <1>8, <2>1, <2>3
<1>10. ASSUME Trusted'
       PROVE  /\ at' = At(template)[r + 1]
              /\ \A j \in 1 .. r + 1 : seen'[j] = template[j].tag
  <2>1. \A j \in 1 .. m : At(template)[j - 1] < at' => ~Misstated(template[j])
    BY <1>2, <1>10 DEF Trusted
  <2>2. Trusted
    <3> SUFFICES ASSUME NEW j \in 1 .. m, At(template)[j - 1] < at
                 PROVE  ~Misstated(template[j])
      BY DEF Trusted
    <3>1. j - 1 \in 0 .. m
      BY <1>3
    <3>2. At(template)[j - 1] \in Nat
      BY <1>4, <3>1
    <3>3. At(template)[j - 1] < at'
      BY <1>3, <1>6, <3>2
    <3> QED BY <2>1, <3>3
  <2>3. at = At(template)[r] /\ \A j \in 1 .. r : seen[j] = template[j].tag
    BY <1>2, <2>2 DEF TemplateInv
  <2>4. k = r + 1
    <3>1. k - 1 \in 0 .. m /\ r \in 0 .. m /\ k \in Nat
      BY <1>3
    <3>2. ~(r < k - 1)
      <4>1. r < k - 1 => At(template)[r] < At(template)[k - 1]
        BY <1>4, <3>1
      <4> QED BY <1>1, <1>3, <2>3, <4>1
    <3> QED BY <1>3, <1>8, <3>1, <3>2
  <2>5. Advance(template[k]) = Written(template[k])
    <3>1. ~Misstated(template[k])
      BY <1>1, <1>3, <1>6, <2>1
    <3> QED BY <1>4, <3>1 DEF Legible
  <2>6. at' = At(template)[k]
    BY <1>1, <1>4, <2>5
  <2>7. ASSUME NEW j \in 1 .. r + 1 PROVE seen'[j] = template[j].tag
    <3>1. j \in 1 .. r \/ j = r + 1
      BY <1>3
    <3> QED BY <1>7, <2>3, <2>4, <3>1
  <2> QED BY <2>4, <2>6, <2>7
<1> HIDE DEF m, r
<1>11. /\ rust' \in BOOLEAN /\ size' \in Nat /\ size' > 0 /\ template' \in Seq(Items)
       /\ Len(template') <= MaxItems + 1 /\ Len(template') > 0
       /\ template'[Len(template')] = EndTag /\ size' = At(template')[Len(template')]
  BY <1>2, <1>3 DEF TemplateInv, m
<1>12. Len(seen') <= Len(template')
  BY <1>2, <1>3, <1>7, <1>8 DEF m
<1>13. \A j \in 1 .. Len(template') : at' <= At(template')[j - 1] => Len(seen') < j
  BY <1>2, <1>7, <1>9 DEF m
<1>14. Trusted' => /\ at' = At(template')[Len(seen')]
                   /\ \A j \in 1 .. Len(seen') : seen'[j] = template'[j].tag
  BY <1>2, <1>7, <1>10 DEF m
<1> QED BY <1>6, <1>7, <1>11, <1>12, <1>13, <1>14 DEF TemplateInv

LEMMA TemplateAlways == TemplateSpec => []TemplateInv
<1>1. TemplateInit => TemplateInv
  <2> SUFFICES ASSUME TemplateInit PROVE TemplateInv
    OBVIOUS
  <2>1. /\ rust \in BOOLEAN /\ template = << >> /\ size = 0 /\ at = 0 /\ seen = << >>
    BY DEF TemplateInit
  <2>2. Len(template) = 0 /\ template \in Seq(Items) /\ seen \in Seq(Nat) /\ Len(seen) = 0
    BY <2>1
  <2>3. 0 <= MaxItems /\ 0 <= MaxItems + 1
    BY KindsAssumption
  <2> QED BY <2>1, <2>2, <2>3 DEF TemplateInv
<1>2. ASSUME TemplateInv, [TemplateNext]_templateVars
      PROVE  TemplateInv'
  <2>1. CASE AppendDescriptor
    BY <1>2, <2>1, TemplateAppend
  <2>2. CASE Pack
    BY <1>2, <2>2, TemplatePack
  <2>3. CASE Read
    BY <1>2, <2>3, TemplateRead
  <2>4. CASE UNCHANGED templateVars
    BY <1>2, <2>4 DEF TemplateInv, templateVars, Trusted
  <2> QED BY <1>2, <2>1, <2>2, <2>3, <2>4 DEF TemplateNext
<1> QED BY <1>1, <1>2, PTL DEF TemplateSpec

(* A guest reads every resource template, whatever descriptors it has and  *)
(* however many pins and interrupts they list, in step with the encoders,  *)
(* unless it has passed one of the two descriptors that misstate their     *)
(* length; and the offsets in GPIO connections are where the parts are.    *)
THEOREM TemplatesReadable == TemplateSpec => []Readable
<1>1. ASSUME TemplateInv PROVE Readable
  <2>1. /\ template \in Seq(Items) /\ Len(template) \in Nat /\ Len(seen) \in Nat
        /\ DOMAIN template = 1 .. Len(template)
    BY <1>1 DEF TemplateInv
  <2>2. /\ \A k \in 0 .. Len(template) : At(template)[k] \in Nat
        /\ \A k \in 1 .. Len(template) : Legible(template[k])
        /\ \A j, k \in 0 .. Len(template) : j < k => At(template)[j] < At(template)[k]
    BY <2>1, AtGrows
  <2>3. TemplateTypeOK
    BY <1>1 DEF TemplateInv, TemplateTypeOK
  <2>4. ReaderInStep
    <3> SUFFICES ASSUME size > 0,
                        \A k \in DOMAIN template : Start(k) < at => ~Misstated(template[k])
                 PROVE  /\ at = size \/ \E k \in DOMAIN template : Start(k) = at
                        /\ at = size => seen = [k \in DOMAIN template |-> template[k].tag]
      BY DEF ReaderInStep
    <3>1. Trusted
      BY <2>1 DEF Trusted, Start, At
    <3>2. /\ at = At(template)[Len(seen)] /\ Len(seen) <= Len(template)
          /\ \A j \in 1 .. Len(seen) : seen[j] = template[j].tag
          /\ size = At(template)[Len(template)] /\ seen \in Seq(Nat)
      BY <1>1, <3>1 DEF TemplateInv
    <3>3. CASE Len(seen) = Len(template)
      <4>1. seen = [k \in 1 .. Len(template) |-> template[k].tag]
        BY <2>1, <3>2, <3>3
      <4> QED BY <2>1, <3>2, <3>3, <4>1
    <3>4. CASE Len(seen) # Len(template)
      <4> DEFINE k == Len(seen) + 1
      <4>1. /\ k \in 1 .. Len(template) /\ k - 1 = Len(seen)
            /\ Len(seen) \in 0 .. Len(template) /\ Len(template) \in 0 .. Len(template)
            /\ Len(seen) < Len(template)
        BY <2>1, <3>2, <3>4
      <4>2. Start(k) = at
        BY <3>2, <4>1 DEF Start, At
      <4>3. at # size
        <5>1. At(template)[Len(seen)] < At(template)[Len(template)]
          BY <2>2, <4>1
        <5> QED BY <2>2, <3>2, <4>1, <5>1
      <4> HIDE DEF k
      <4> QED BY <2>1, <4>1, <4>2, <4>3
    <3> QED BY <3>3, <3>4
  <2>5. PartsFound
    <3> SUFFICES ASSUME NEW k \in DOMAIN template, template[k].parts # << >>
                 PROVE  template[k].parts =
                          <<3 + Ends(template[k].fields)[12],
                            3 + Ends(template[k].fields)[12 + Pins(template[k])],
                            3 + Ends(template[k].fields)[14 + Pins(template[k])]>>
      BY Zenon DEF PartsFound
    <3>1. Legible(template[k])
      BY <2>1, <2>2
    <3> QED BY <3>1, Zenon DEF Legible
  <2> QED BY <2>3, <2>4, <2>5 DEF Readable
<1> QED BY <1>1, TemplateAlways, PTL
=============================================================================
