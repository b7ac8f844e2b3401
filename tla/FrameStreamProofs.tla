-------------------------- MODULE FrameStreamProofs --------------------------
(***************************************************************************)
(* Proved for every width of the fields and any OWIDs and signatures: the  *)
(* stream from creator to reader implements the queue, the status of what  *)
(* is read is valid exactly where the bytes received were signed, and the  *)
(* reads of EnvelopeReads keep their properties while the walk takes what  *)
(* it reads off the buffer.                                                *)
(***************************************************************************)
EXTENDS FrameStream, EnvelopeProofs

-----------------------------------------------------------------------------
(* The bytes of an OWID *)

LEMMA WidthIsNumber ==
  ASSUME NEW number \in Nat, NEW width \in Nat
  PROVE  /\ LittleEndian(number, width) \in Seq(Byte)
         /\ Len(LittleEndian(number, width)) = width
         /\ Fits(number, width) => Number(LittleEndian(number, width)) = number
<1>1. ByteValues \in Nat \ {0} /\ Byte = 0 .. ByteValues - 1
  BY WidthsAssumption DEF Byte
<1>2. /\ DigitsOf(number, ByteValues, width) \in Seq(0 .. ByteValues - 1)
      /\ Len(DigitsOf(number, ByteValues, width)) = width
  BY <1>1, DigitsAre
<1>3. ASSUME Fits(number, width)
      PROVE  Number(LittleEndian(number, width)) = number
  BY <1>1, <1>3, NumberOfDigits DEF Fits, Number, LittleEndian
<1> QED
  BY <1>1, <1>2, <1>3 DEF LittleEndian

LEMMA DateIsBytes ==
  ASSUME NEW version, NEW date \in Nat
  PROVE  /\ DateBytes(version, date) \in Seq(Byte)
         /\ Len(DateBytes(version, date)) = DateWidth(version)
         /\ /\ Fits(date \div DateTicks(version), DateWidth(version))
            /\ date % DateTicks(version) = 0
            => DateOf(version, DateBytes(version, date)) = date
<1>1. PICK t \in Nat \ {0}, w \in Nat : t = DateTicks(version) /\ w = DateWidth(version)
  BY FieldWidths
<1>2. PICK q \in Nat, r \in 0 .. t - 1 :
        q = date \div t /\ r = date % t /\ date = t * q + r
  BY Division
<1>3. PICK digits : digits = LittleEndian(q, w)
  OBVIOUS
<1>4. /\ digits \in Seq(Byte) /\ Len(digits) = w
      /\ Fits(q, w) => Number(digits) = q
  BY <1>3, WidthIsNumber
<1>5. DateBytes(version, date) = IF version = Version1 THEN Backwards(digits) ELSE digits
  BY <1>1, <1>2, <1>3 DEF DateBytes
<1>6. /\ Backwards(digits) \in Seq(Byte) /\ Len(Backwards(digits)) = w
      /\ Backwards(Backwards(digits)) = digits
  BY <1>4, BackwardsIs
<1>7. ASSUME Fits(q, w), r = 0
      PROVE  DateOf(version, DateBytes(version, date)) = date
  <2>1. DateOf(version, DateBytes(version, date)) = Number(digits) * t
    BY <1>1, <1>5, <1>6 DEF DateOf
  <2>2. date = q * t
    BY <1>2, <1>7
  <2> QED
    BY <1>4, <1>7, <2>1, <2>2
<1> QED
  BY <1>1, <1>2, <1>4, <1>5, <1>6, <1>7

LEMMA BytesOfOwid ==
  ASSUME NEW owid \in Owid
  PROVE  /\ SignedBytes(owid) \in Seq(Byte)
         /\ Written(owid) \in Seq(Byte)
<1>1. /\ owid.version \in Versions /\ owid.domain \in Seq(Character) /\ owid.date \in Nat
      /\ owid.payload \in Seq(Byte) /\ owid.signature \in Seq(Byte)
  BY DEF Owid
<1>2. <<owid.version>> \in Seq(Byte) /\ <<0>> \in Seq(Byte)
  BY <1>1, WidthsAssumption DEF Versions, Byte
<1>3. Encoded(owid.domain) \in Seq(Byte)
  BY <1>1, EncodedBytes
<1>4. DateBytes(owid.version, owid.date) \in Seq(Byte)
  BY <1>1, DateIsBytes
<1>5. LittleEndian(Len(owid.payload), LengthWidth) \in Seq(Byte)
  <2>1. Len(owid.payload) \in Nat /\ LengthWidth \in Nat
    BY <1>1, LenProperties, WidthsAssumption
  <2> QED
    BY <2>1, WidthIsNumber
<1>6. SignedBytes(owid) \in Seq(Byte)
  BY <1>1, <1>2, <1>3, <1>4, <1>5 DEF SignedBytes
<1> QED
  BY <1>1, <1>6 DEF Written

\* A field is cut out of the bytes that hold it.
LEMMA FieldIsCut ==
  ASSUME NEW s \in Seq(Byte), NEW f \in Seq(Byte), NEW m \in Nat,
         m + Len(f) <= Len(s), \A i \in 1 .. Len(f) : s[m + i] = f[i]
  PROVE  SubSeq(s, m + 1, m + Len(f)) = f
<1>1. PICK d \in Nat : d = Len(f)
  BY LenProperties
<1>2. /\ SubSeq(s, m + 1, m + d) \in Seq(Byte)
      /\ Len(SubSeq(s, m + 1, m + d)) = d
      /\ \A i \in 1 .. d : SubSeq(s, m + 1, m + d)[i] = s[m + i]
  BY <1>1, Cut
<1>3. \A i \in 1 .. d : SubSeq(s, m + 1, m + d)[i] = f[i]
  BY <1>1, <1>2
<1>4. SubSeq(s, m + 1, m + d) = f
  BY <1>1, <1>2, <1>3, SeqEqual
<1> QED
  BY <1>1, <1>4

\* Bytes, and those that follow them.
Joined(c, s, f) ==
  /\ c \in Seq(Byte) /\ Len(c) = Len(s) + Len(f)
  /\ \A i \in 1 .. Len(s) : c[i] = s[i]
  /\ \A i \in 1 .. Len(f) : c[Len(s) + i] = f[i]

LEMMA JoinedIs ==
  ASSUME NEW s \in Seq(Byte), NEW f \in Seq(Byte)
  PROVE  Joined(s \o f, s, f)
<1>1. Len(s) \in Nat /\ Len(f) \in Nat
  BY LenProperties
<1>2. /\ s \o f \in Seq(Byte) /\ Len(s \o f) = Len(s) + Len(f)
      /\ \A i \in 1 .. Len(s) + Len(f) :
           (s \o f)[i] = IF i <= Len(s) THEN s[i] ELSE f[i - Len(s)]
  BY ConcatProperties
<1>3. ASSUME NEW i \in 1 .. Len(f)
      PROVE  (s \o f)[Len(s) + i] = f[i]
  <2>1. /\ Len(s) + i \in 1 .. Len(s) + Len(f) /\ ~(Len(s) + i <= Len(s))
        /\ (Len(s) + i) - Len(s) = i
    BY <1>1
  <2> QED
    BY <1>2, <2>1
<1>4. ASSUME NEW i \in 1 .. Len(s)
      PROVE  (s \o f)[i] = s[i]
  <2>1. i \in 1 .. Len(s) + Len(f) /\ i <= Len(s)
    BY <1>1
  <2> QED
    BY <1>2, <2>1
<1> QED
  BY <1>2, <1>3, <1>4 DEF Joined

-----------------------------------------------------------------------------
(* What is written is read *)

\* Six fields in the bytes they make, with a zero after the second.
Laid(w, a, x, y, z, p, s) ==
  LET t == 1 + Len(x) + 1
      de == t + Len(y)
      le == de + Len(z)
      end == le + Len(p)
  IN  /\ w \in Seq(Byte) /\ Len(w) = end + Len(s)
      /\ w[1] = a[1] /\ w[t] = 0
      /\ \A i \in 1 .. Len(x) : w[1 + i] = x[i]
      /\ SubSeq(w, 2, t - 1) = x
      /\ SubSeq(w, t + 1, de) = y
      /\ SubSeq(w, de + 1, le) = z
      /\ SubSeq(w, le + 1, end) = p
      /\ SubSeq(w, end + 1, end + Len(s)) = s

LEMMA FieldsAreLaid ==
  ASSUME NEW a \in Seq(Byte), NEW x \in Seq(Byte), NEW y \in Seq(Byte),
         NEW z \in Seq(Byte), NEW p \in Seq(Byte), NEW s \in Seq(Byte),
         Len(a) = 1
  PROVE  Laid(a \o x \o <<0>> \o y \o z \o p \o s, a, x, y, z, p, s)
<1>1. <<0>> \in Seq(Byte) /\ Len(<<0>>) = 1 /\ <<0>>[1] = 0
  BY WidthsAssumption DEF Byte
<1>2. /\ Len(x) \in Nat /\ Len(y) \in Nat /\ Len(z) \in Nat /\ Len(p) \in Nat
      /\ Len(s) \in Nat
  BY LenProperties
<1> DEFINE t == 1 + Len(x) + 1
           de == t + Len(y)
           le == de + Len(z)
           end == le + Len(p)
<1>3. /\ t \in Nat /\ de \in Nat /\ le \in Nat /\ end \in Nat
      /\ t = 1 + Len(x) + 1 /\ de = t + Len(y) /\ le = de + Len(z) /\ end = le + Len(p)
  BY <1>2
<1> HIDE DEF t, de, le, end
<1>4. PICK c1 : c1 = a \o x
  OBVIOUS
<1>5. PICK c2 : c2 = c1 \o <<0>>
  OBVIOUS
<1>6. PICK c3 : c3 = c2 \o y
  OBVIOUS
<1>7. PICK c4 : c4 = c3 \o z
  OBVIOUS
<1>8. PICK c5 : c5 = c4 \o p
  OBVIOUS
<1>9. PICK w : w = c5 \o s
  OBVIOUS
<1>10. w = a \o x \o <<0>> \o y \o z \o p \o s
  BY <1>4, <1>5, <1>6, <1>7, <1>8, <1>9
<1>11. /\ c1 \in Seq(Byte) /\ Len(c1) = 1 + Len(x) /\ c1[1] = a[1]
      /\ \A i \in 1 .. Len(x) : c1[1 + i] = x[i]
  <2>1. Joined(c1, a, x)
    BY <1>4, JoinedIs
  <2> QED
    BY <2>1 DEF Joined
<1>12. /\ c2 \in Seq(Byte) /\ Len(c2) = t /\ c2[t] = 0
       /\ \A i \in 1 .. Len(c1) : c2[i] = c1[i]
  <2>1. PICK zero : zero = <<0>>
    OBVIOUS
  <2>2. Joined(c2, c1, zero)
    BY <1>1, <1>5, <1>11, <2>1, JoinedIs
  <2>3. Len(zero) = 1 /\ zero[1] = 0 /\ Len(c1) + 1 = t
    BY <1>1, <1>2, <1>3, <1>11, <2>1
  <2> QED
    BY <2>2, <2>3 DEF Joined
<1>13. /\ c3 \in Seq(Byte) /\ Len(c3) = de
       /\ \A i \in 1 .. t : c3[i] = c2[i]
       /\ \A i \in 1 .. Len(y) : c3[t + i] = y[i]
  <2>1. Joined(c3, c2, y)
    BY <1>6, <1>12, JoinedIs
  <2> QED
    BY <1>3, <1>12, <2>1 DEF Joined
<1>14. /\ c4 \in Seq(Byte) /\ Len(c4) = le
       /\ \A i \in 1 .. de : c4[i] = c3[i]
       /\ \A i \in 1 .. Len(z) : c4[de + i] = z[i]
  <2>1. Joined(c4, c3, z)
    BY <1>7, <1>13, JoinedIs
  <2> QED
    BY <1>3, <1>13, <2>1 DEF Joined
<1>15. /\ c5 \in Seq(Byte) /\ Len(c5) = end
       /\ \A i \in 1 .. le : c5[i] = c4[i]
       /\ \A i \in 1 .. Len(p) : c5[le + i] = p[i]
  <2>1. Joined(c5, c4, p)
    BY <1>8, <1>14, JoinedIs
  <2> QED
    BY <1>3, <1>14, <2>1 DEF Joined
<1>16. /\ w \in Seq(Byte) /\ Len(w) = end + Len(s)
       /\ \A i \in 1 .. end : w[i] = c5[i]
       /\ \A i \in 1 .. Len(s) : w[end + i] = s[i]
  <2>1. Joined(w, c5, s)
    BY <1>9, <1>15, JoinedIs
  <2> QED
    BY <1>3, <1>15, <2>1 DEF Joined
<1>17. t <= de /\ de <= le /\ le <= end /\ end <= Len(w) /\ 1 + Len(x) < t /\ 1 < t
  BY <1>2, <1>3, <1>16
<1>18. \A i \in 1 .. Len(p) : w[le + i] = p[i]
  <2>1. \A i \in 1 .. Len(p) : le + i \in 1 .. end
    BY <1>2, <1>3
  <2> QED
    BY <1>15, <1>16, <2>1
<1>19. \A i \in 1 .. le : w[i] = c4[i]
  <2>1. \A i \in 1 .. le : i \in 1 .. end
    BY <1>3, <1>17
  <2> QED
    BY <1>15, <1>16, <2>1
<1>20. \A i \in 1 .. Len(z) : w[de + i] = z[i]
  <2>1. \A i \in 1 .. Len(z) : de + i \in 1 .. le
    BY <1>2, <1>3
  <2> QED
    BY <1>14, <1>19, <2>1
<1>21. \A i \in 1 .. de : w[i] = c3[i]
  <2>1. \A i \in 1 .. de : i \in 1 .. le
    BY <1>3, <1>17
  <2> QED
    BY <1>14, <1>19, <2>1
<1>22. \A i \in 1 .. Len(y) : w[t + i] = y[i]
  <2>1. \A i \in 1 .. Len(y) : t + i \in 1 .. de
    BY <1>2, <1>3
  <2> QED
    BY <1>13, <1>21, <2>1
<1>23. \A i \in 1 .. t : w[i] = c2[i]
  <2>1. \A i \in 1 .. t : i \in 1 .. de
    BY <1>3, <1>17
  <2> QED
    BY <1>13, <1>21, <2>1
<1>24. w[t] = 0
  <2>1. t \in 1 .. t
    BY <1>3, <1>17
  <2> QED
    BY <1>12, <1>23, <2>1
<1>25. \A i \in 1 .. 1 + Len(x) : w[i] = c1[i]
  <2>1. \A i \in 1 .. 1 + Len(x) : i \in 1 .. t /\ i \in 1 .. Len(c1)
    BY <1>2, <1>3, <1>11, <1>17
  <2> QED
    BY <1>12, <1>23, <2>1
<1>26. w[1] = a[1]
  <2>1. 1 \in 1 .. 1 + Len(x)
    BY <1>2, <1>3
  <2> QED
    BY <1>11, <1>25, <2>1
<1>27. \A i \in 1 .. Len(x) : w[1 + i] = x[i]
  <2>1. \A i \in 1 .. Len(x) : 1 + i \in 1 .. 1 + Len(x)
    BY <1>2, <1>3
  <2> QED
    BY <1>11, <1>25, <2>1
<1>28. SubSeq(w, 2, t - 1) = x
  <2>1. PICK m \in Nat : m = 1
    OBVIOUS
  <2>2. m + Len(x) <= Len(w) /\ m + 1 = 2 /\ m + Len(x) = t - 1
    BY <1>2, <1>3, <1>17, <2>1
  <2>3. \A i \in 1 .. Len(x) : w[m + i] = x[i]
    BY <1>27, <2>1
  <2>4. SubSeq(w, m + 1, m + Len(x)) = x
    BY <1>16, <2>2, <2>3, FieldIsCut
  <2> QED
    BY <2>2, <2>4
<1>29. SubSeq(w, t + 1, de) = y
  <2>1. t + Len(y) <= Len(w)
    BY <1>3, <1>17
  <2> QED
    BY <1>3, <1>16, <1>22, <2>1, FieldIsCut
<1>30. SubSeq(w, de + 1, le) = z
  <2>1. de + Len(z) <= Len(w)
    BY <1>3, <1>17
  <2> QED
    BY <1>3, <1>16, <1>20, <2>1, FieldIsCut
<1>31. SubSeq(w, le + 1, end) = p
  <2>1. le + Len(p) <= Len(w)
    BY <1>3, <1>17
  <2> QED
    BY <1>3, <1>16, <1>18, <2>1, FieldIsCut
<1>32. SubSeq(w, end + 1, end + Len(s)) = s
  <2>1. end + Len(s) <= Len(w)
    BY <1>2, <1>3, <1>16
  <2> QED
    BY <1>3, <1>16, <2>1, FieldIsCut
<1> QED
  BY <1>10, <1>16, <1>24, <1>26, <1>27, <1>28, <1>29, <1>30, <1>31, <1>32
     DEF Laid, t, de, le, end

LEMMA WrittenIsRead ==
  ASSUME NEW owid \in Owid, Writable(owid), Legible(owid)
  PROVE  Parse(Written(owid), FALSE) = Parsed(owid, Len(Written(owid)))
<1>1. PICK v, x, y, z, p, s :
        /\ v = owid.version /\ x = owid.domain /\ y = DateBytes(v, owid.date)
        /\ p = owid.payload /\ s = owid.signature
        /\ z = LittleEndian(Len(p), LengthWidth)
  OBVIOUS
<1>2. /\ v \in 1 .. 3 /\ x \in Seq(Character) /\ owid.date \in Nat
      /\ p \in Seq(Byte) /\ s \in Seq(Byte)
  BY <1>1 DEF Owid, Versions, Writable, EmptyVersion
<1>3. /\ LengthWidth \in Nat /\ Len(p) \in Nat /\ SignatureLength \in Nat
      /\ MaximumDomainLength \in Nat /\ Len(s) = SignatureLength
  BY <1>1, <1>2, LenProperties, WidthsAssumption DEF Writable
<1>4. Encoded(x) = x /\ x \in Seq(Byte)
  <2>1. DOMAIN x = 1 .. Len(x)
    BY <1>2, LenProperties
  <2>2. \A i \in 1 .. Len(x) : x[i] < FirstHigh
    BY <1>1, <2>1 DEF Legible, Ascii
  <2> QED
    BY <1>2, <2>2, EncodedAscii, EncodedBytes
<1>5. Len(x) \in Nat /\ Len(x) <= MaximumDomainLength /\ \A i \in 1 .. Len(x) : x[i] # 0
  BY <1>1, <1>4, LenProperties DEF Writable
<1>6. /\ y \in Seq(Byte) /\ Len(y) = DateWidth(v)
      /\ DateOf(v, y) = owid.date
  BY <1>1, <1>2, DateIsBytes DEF Writable, Legible
<1>7. z \in Seq(Byte) /\ Len(z) = LengthWidth /\ Number(z) = Len(p)
  BY <1>1, <1>3, WidthIsNumber DEF Writable
<1>8. PICK w : w = Written(owid)
  OBVIOUS
<1>9. PICK a : a = <<v>> /\ a \in Seq(Byte) /\ Len(a) = 1 /\ a[1] = v
  <2>1. v \in Byte
    BY <1>2, WidthsAssumption DEF Byte
  <2>2. <<v>> \in Seq(Byte) /\ Len(<<v>>) = 1 /\ <<v>>[1] = v
    BY <2>1
  <2> QED
    BY <2>2, Zenon
<1>10. w = a \o x \o <<0>> \o y \o z \o p \o s
  BY <1>1, <1>4, <1>8, <1>9 DEF Written, SignedBytes
<1> DEFINE t == 1 + Len(x) + 1
           de == t + Len(y)
           le == de + Len(z)
           end == le + Len(p)
<1>11. /\ t \in Nat /\ de \in Nat /\ le \in Nat /\ end \in Nat
       /\ t = 1 + Len(x) + 1 /\ de = t + Len(y) /\ le = de + Len(z) /\ end = le + Len(p)
       /\ Len(y) \in Nat /\ Len(z) \in Nat
  <2>1. Len(y) \in Nat /\ Len(z) \in Nat
    BY <1>6, <1>7, LenProperties
  <2> QED
    BY <1>3, <1>5, <2>1
<1> HIDE DEF t, de, le, end
<1>12. /\ w \in Seq(Byte) /\ Len(w) = end + Len(s)
       /\ w[1] = v /\ w[t] = 0
       /\ \A i \in 1 .. Len(x) : w[1 + i] = x[i]
       /\ SubSeq(w, 2, t - 1) = x
       /\ SubSeq(w, t + 1, de) = y
       /\ SubSeq(w, de + 1, le) = z
       /\ SubSeq(w, le + 1, end) = p
       /\ SubSeq(w, end + 1, end + Len(s)) = s
  <2>1. Laid(a \o x \o <<0>> \o y \o z \o p \o s, a, x, y, z, p, s)
    BY <1>2, <1>4, <1>6, <1>7, <1>9, FieldsAreLaid
  <2>2. Laid(w, a, x, y, z, p, s)
    BY <1>10, <2>1
  <2> QED
    BY <1>9, <2>2 DEF Laid, t, de, le, end
<1>13. PICK lx \in Nat, lp \in Nat, ls \in Nat, lw \in Nat, lm \in Nat, ll \in Nat :
         /\ lx = Len(x) /\ lp = Len(p) /\ ls = SignatureLength /\ lw = Len(w)
         /\ lm = MaximumDomainLength /\ ll = LengthWidth
         /\ t = 1 + lx + 1 /\ t <= de /\ de <= le /\ le = de + ll /\ end = le + lp
         /\ lw = end + ls /\ lx <= lm
  <2>1. PICK lx \in Nat, ly \in Nat, lz \in Nat, lp \in Nat, ls \in Nat :
          /\ lx = Len(x) /\ ly = Len(y) /\ lz = Len(z) /\ lp = Len(p)
          /\ ls = SignatureLength /\ ls = Len(s)
    BY <1>3, <1>5, <1>11
  <2>2. t = 1 + lx + 1 /\ de = t + ly /\ le = de + lz /\ end = le + lp
    BY <1>11, <2>1
  <2>3. t <= de /\ de <= le /\ end + ls \in Nat
    BY <2>2
  <2>4. Len(w) = end + ls /\ lz = LengthWidth /\ lx <= MaximumDomainLength
    BY <1>5, <1>7, <1>12, <2>1
  <2> QED
    BY <1>3, <2>1, <2>2, <2>3, <2>4
<1>14. t \in Terminators(w)
  <2>1. t \in 2 .. lw /\ t <= lm + 2
    BY <1>11, <1>13, SMTT(30)
  <2> QED
    BY <1>12, <1>13, <2>1 DEF Terminators
<1>15. Terminator(w) = t
  <2>1. PICK first \in 2 .. lw : first = Terminator(w) /\ w[first] = 0 /\ first <= t
    BY <1>12, <1>13, <1>14, TerminatorIs
  <2>2. SUFFICES ASSUME first < t
                 PROVE  FALSE
    BY <1>11, <1>13, <2>1, SMTT(30)
  <2>3. PICK i \in 1 .. lx : first = 1 + i
    <3>1. first - 1 \in 1 .. lx /\ first = 1 + (first - 1)
      BY <1>13, <2>1, <2>2, SMTT(30)
    <3> QED
      BY <3>1
  <2> QED
    BY <1>5, <1>12, <1>13, <2>1, <2>3
<1>16. DateEnd(w) = de /\ LengthEnd(w) = le
  BY <1>6, <1>7, <1>11, <1>12, <1>15 DEF DateEnd, LengthEnd
<1>17. DateIn(w) = owid.date /\ Declared(w) = Len(p)
  BY <1>6, <1>7, <1>12, <1>15, <1>16 DEF DateIn, Declared
<1>18. OwidIn(w) = owid
  <2>1. Decoded(x) = x
    <3>1. DOMAIN x = 1 .. Len(x) /\ x = [i \in 1 .. Len(x) |-> x[i]]
      BY <1>2, LenProperties
    <3>2. \A i \in 1 .. Len(x) : x[i] < FirstHigh
      BY <1>1, <3>1 DEF Legible, Ascii
    <3> QED
      BY <3>1, <3>2 DEF Decoded
  <2>2. OwidIn(w) = [version |-> v, domain |-> x, date |-> owid.date,
                     payload |-> p, signature |-> s]
    BY <1>3, <1>11, <1>12, <1>15, <1>16, <1>17, <2>1 DEF OwidIn
  <2>3. owid = [version |-> owid.version, domain |-> owid.domain, date |-> owid.date,
                payload |-> owid.payload, signature |-> owid.signature]
    BY DEF Owid
  <2> QED
    BY <1>1, <2>2, <2>3
<1>19. Complete(w)
  <2>1. w # <<>>
    <3>1. Len(w) # 0
      <4>1. lw # 0
        BY <1>11, <1>13, SMTT(30)
      <4> QED
        BY <1>13, <4>1
    <3> QED
      BY <1>12, <3>1, EmptySeq
  <2>2. w[1] \in Versions /\ w[1] # EmptyVersion
    BY <1>2, <1>12 DEF Versions, EmptyVersion
  <2>3. w[1] # Version1 => DateIn(w) <= MaximumMinutes * MinuteTicks
    BY <1>1, <1>12, <1>17 DEF Legible
  <2>4. Declared(w) <= Present(w)
    <3>1. lp <= lw - le - ls
      BY <1>11, <1>13
    <3> QED
      BY <1>13, <1>16, <1>17, <3>1 DEF Present
  <2>5. LengthEnd(w) <= Len(w)
    <3>1. le <= lw
      BY <1>11, <1>13, SMTT(30)
    <3> QED
      BY <1>13, <1>16, <3>1
  <2> QED
    BY <1>14, <2>1, <2>2, <2>3, <2>4, <2>5 DEF Complete
<1>20. LengthEnd(w) + Declared(w) + SignatureLength = Len(w)
  <2>1. le + lp + ls = lw
    BY <1>11, <1>13
  <2> QED
    BY <1>13, <1>16, <1>17, <2>1
<1> QED
  BY <1>8, <1>12, <1>18, <1>19, <1>20, ParseIs

\* The bytes of a frame.
BytesOf(frame) ==
  IF frame.version = EmptyVersion THEN <<EmptyVersion>> ELSE Written(frame)

LegibleOwid == {owid \in Owid : Writable(owid) /\ Legible(owid)}

\* What a framed read makes of a frame and of whatever follows it.
LEMMA FrameIsRead ==
  ASSUME NEW frame \in LegibleOwid \cup {AbsentNode}, NEW rest \in Seq(Byte),
         NEW result, result = Parse(BytesOf(frame) \o rest, FALSE)
  PROVE  /\ BytesOf(frame) \in Seq(Byte)
         /\ Len(BytesOf(frame)) \in Nat \ {0}
         /\ result.consumed = Len(BytesOf(frame))
         /\ result.owids \cup (IF result.status = "ABSENT_NODE" THEN {AbsentNode} ELSE {})
              = {frame}
<1>1. CASE frame = AbsentNode
  <2>1. frame.version = EmptyVersion
    BY <1>1 DEF AbsentNode
  <2>2. BytesOf(frame) = <<0>> /\ <<0>> \in Seq(Byte) /\ Len(<<0>>) = 1 /\ <<0>>[1] = 0
    BY <2>1, WidthsAssumption DEF BytesOf, EmptyVersion, Byte
  <2>3. PICK b : b = <<0>> \o rest
    OBVIOUS
  <2>4. b # <<>> /\ b[1] = 0
    BY <2>2, <2>3
  <2>5. Parse(b, FALSE) = [Failed("ABSENT_NODE") EXCEPT !.consumed = 1]
    BY <2>4 DEF Parse, Versions, EmptyVersion
  <2>6. result = [Failed("ABSENT_NODE") EXCEPT !.consumed = 1]
    BY <2>2, <2>3, <2>5
  <2>7. result.consumed = 1 /\ result.owids = {} /\ result.status = "ABSENT_NODE"
    BY <2>6 DEF Failed
  <2>8. result.owids \cup (IF result.status = "ABSENT_NODE" THEN {AbsentNode} ELSE {})
          = {frame}
    <3>1. (IF result.status = "ABSENT_NODE" THEN {AbsentNode} ELSE {}) = {frame}
      BY <1>1, <2>7, Zenon
    <3> QED
      BY <2>7, <3>1
  <2>9. result.consumed = Len(BytesOf(frame)) /\ Len(BytesOf(frame)) = 1
    BY <2>2, <2>7
  <2>10. BytesOf(frame) \in Seq(Byte)
    BY <2>2
  <2>11. Len(BytesOf(frame)) \in Nat \ {0}
    BY <2>9
  <2> QED
    BY <2>8, <2>9, <2>10, <2>11, Zenon
<1>2. CASE frame \in LegibleOwid
  <2>1. frame \in Owid /\ Writable(frame) /\ Legible(frame)
    BY <1>2 DEF LegibleOwid
  <2>2. BytesOf(frame) = Written(frame)
    BY <2>1 DEF BytesOf, Writable
  <2>3. PICK w : w = Written(frame) /\ w \in Seq(Byte)
    BY <2>1, BytesOfOwid
  <2>4. Parse(w, FALSE) = Parsed(frame, Len(w))
    BY <2>1, <2>3, WrittenIsRead
  <2>12. /\ Parsed(frame, Len(w)).status = "PARSED"
        /\ Parsed(frame, Len(w)).owids = {frame}
        /\ Parsed(frame, Len(w)).consumed = Len(w)
    BY DEF Parsed
  <2>5. Parse(w, FALSE).status = "PARSED"
    BY <2>4, <2>12, Zenon
  <2>6. Parse(w, FALSE).status \notin Undecided
    BY <2>5 DEF Undecided
  <2>7. Parse(w \o rest, FALSE) = Parsed(frame, Len(w))
    BY <2>3, <2>4, <2>6, DecisionIsFinal
  <2>8. result = Parsed(frame, Len(w))
    BY <2>2, <2>3, <2>7
  <2>9. result.consumed = Len(w) /\ result.owids = {frame} /\ result.status = "PARSED"
    BY <2>8, <2>12, Zenon
  <2>10. Len(w) \in Nat /\ Len(w) # 0
    <3>1. w # <<>>
      <4>1. Parse(<<>>, FALSE).status = "MISSING_INPUT"
        BY DEF Parse, Failed
      <4> QED
        BY <2>5, <4>1
    <3> QED
      BY <2>3, <3>1, LenProperties, EmptySeq
  <2> QED
    BY <2>2, <2>3, <2>9, <2>10
<1> QED
  BY <1>1, <1>2

-----------------------------------------------------------------------------
(* Types *)

StreamTypes ==
  /\ buffer \in Seq(Byte) /\ wire \in Seq(Byte)
  /\ clock \in 0 .. MaxClock
  /\ domain \in Domains /\ Acceptable(domain)
  /\ created \subseteq LegibleOwid \cap Frame

LEMMA ConsumedIsThere ==
  ASSUME NEW b \in Seq(Byte)
  PROVE  Parse(b, FALSE).consumed \in 0 .. Len(b)
<1>1. Len(b) \in Nat
  BY LenProperties
<1>2. CASE Complete(b)
  <2>1. Parse(b, FALSE) = Parsed(OwidIn(b), LengthEnd(b) + Declared(b) + SignatureLength)
    BY <1>2, ParseIs
  <2>2. LengthEnd(b) + Declared(b) + SignatureLength \in 0 .. Len(b)
    BY <1>2, ConsumedIsLength
  <2>3. PICK c : c = LengthEnd(b) + Declared(b) + SignatureLength
    OBVIOUS
  <2>4. Parsed(OwidIn(b), c).consumed = c
    BY DEF Parsed
  <2> QED
    BY <2>1, <2>2, <2>3, <2>4, Zenon
<1>3. CASE ~Complete(b)
  <2>1. Parse(b, FALSE).consumed \in {0, 1} /\ (b = <<>> => Parse(b, FALSE).consumed = 0)
    <3>1. CASE Terminators(b) # {}
      <4>1. /\ DateEnd(b) \in Nat /\ LengthEnd(b) \in Nat /\ LengthEnd(b) > DateEnd(b)
            /\ DateEnd(b) <= Len(b) => DateIn(b) \in Nat
            /\ LengthEnd(b) <= Len(b) => Declared(b) \in Nat
            /\ Present(b) \in Int
        BY <3>1, Layout
      <4>2. MaximumMinutes * MinuteTicks \in Nat
        BY WidthsAssumption
      <4> QED
        BY <1>1, <1>3, <3>1, <4>1, <4>2 DEF Complete, Parse, Parsed, Failed, DomainFault
    <3>2. CASE Terminators(b) = {}
      BY <1>1, <3>2 DEF Parse, Failed, DomainFault
    <3> QED
      BY <3>1, <3>2
  <2>2. b # <<>> => Len(b) # 0
    BY EmptySeq
  <2>3. PICK c : c = Parse(b, FALSE).consumed
    OBVIOUS
  <2>4. c \in {0, 1} /\ (b = <<>> => c = 0)
    BY <2>1, <2>3, Zenon
  <2>5. c \in 0 .. Len(b)
    BY <1>1, <2>2, <2>4
  <2> QED
    BY <2>3, <2>5
<1> QED
  BY <1>2, <1>3

\* What a creator creates its bytes are read back as.
LEMMA CreatedIsLegible ==
  ASSUME StreamTypes, NEW payload \in Payloads, NEW signature \in Signatures,
         Writable(NewOwid(domain, clock, payload, signature))
  PROVE  NewOwid(domain, clock, payload, signature) \in LegibleOwid \cap Frame
<1>1. PICK owid : owid = NewOwid(domain, clock, payload, signature)
  OBVIOUS
<1>2. /\ domain \in Seq(Character) /\ payload \in Seq(Byte) /\ signature \in Seq(Byte)
      /\ clock \in Nat /\ clock <= MaxClock
  BY FramesAssumption DEF StreamTypes
<1>3. PICK t \in Nat \ {0} : t = MinuteTicks
  BY WidthsAssumption
<1>4. PICK q \in Nat, r \in 0 .. t - 1 :
        q = clock \div t /\ r = clock % t /\ clock = t * q + r
  BY <1>2, Division
<1>5. PICK m \in Nat : m = t * q
  OBVIOUS
<1>6. m <= clock /\ WholeMinute(clock) = m
  <2>1. clock = m + r
    BY <1>4, <1>5
  <2>2. m <= clock
    BY <2>1
  <2>3. WholeMinute(clock) = q * t
    BY <1>3, <1>4 DEF WholeMinute
  <2> QED
    BY <1>5, <2>2, <2>3
<1>7. m % t = 0
  <2>1. 0 \in 0 .. t - 1 /\ m = 0 + t * q
    BY <1>5
  <2> QED
    BY <2>1, DivisionIs
<1>8. m <= MaximumMinutes * MinuteTicks
  <2>1. PICK n \in Nat : n = MaximumMinutes * MinuteTicks /\ MaxClock <= n
    BY WidthsAssumption, LegibleAssumption
  <2> QED
    BY <1>2, <1>6, <2>1, FramesAssumption
<1>9. /\ owid.version = 3 /\ owid.domain = domain /\ owid.date = m
      /\ owid.payload = payload /\ owid.signature = signature
  BY <1>1, <1>6 DEF NewOwid, CurrentVersion
<1>10. owid \in Owid
  BY <1>1, <1>2, <1>6 DEF Owid, NewOwid, CurrentVersion, Versions
<1>11. Legible(owid)
  <2>1. DateTicks(owid.version) = t
    BY <1>3, <1>9 DEF DateTicks, Version1
  <2>2. Ascii(owid)
    BY <1>9, LegibleAssumption DEF Ascii, StreamTypes
  <2> QED
    BY <1>7, <1>8, <1>9, <2>1, <2>2 DEF Legible
<1>12. owid \in Frame
  BY <1>1 DEF Frame, StreamTypes
<1> QED
  BY <1>1, <1>10, <1>11, <1>12 DEF LegibleOwid

LEMMA TypesStep == StreamTypes /\ [StreamNext]_vars => StreamTypes'
<1> SUFFICES ASSUME StreamTypes, [StreamNext]_vars
             PROVE  StreamTypes'
  OBVIOUS
<1> USE DEF StreamTypes
<1>1. CASE Tick
  BY <1>1, FramesAssumption DEF Tick, sender
<1>2. ASSUME NEW payload \in Payloads, NEW signature \in Signatures,
             Create(payload, signature)
      PROVE  StreamTypes'
  <2>1. PICK owid : owid = NewOwid(domain, clock, payload, signature)
    OBVIOUS
  <2>2. owid \in LegibleOwid \cap Frame
    BY <1>2, <2>1, CreatedIsLegible DEF Create
  <2>3. created' = created \cup {owid}
    BY <1>2, <2>1 DEF Create
  <2> QED
    BY <1>2, <2>2, <2>3 DEF Create
<1>3. ASSUME NEW frame, NEW bytes \in Seq(Byte), Send(frame, bytes)
      PROVE  StreamTypes'
  <2>1. wire' \in Seq(Byte)
    BY <1>3 DEF Send
  <2> QED
    BY <1>3, <2>1 DEF Send, sender
<1>4. CASE \E owid \in created \cup Others : SendOwid(owid)
  <2>1. PICK owid \in created \cup Others : SendOwid(owid)
    BY <1>4
  <2>2. owid \in Owid
    BY FramesAssumption DEF LegibleOwid
  <2> QED
    BY <1>3, <2>1, <2>2, BytesOfOwid DEF SendOwid
<1>5. CASE SendAbsent
  <2>1. <<EmptyVersion>> \in Seq(Byte)
    BY WidthsAssumption DEF EmptyVersion, Byte
  <2> QED
    BY <1>3, <1>5, <2>1 DEF SendAbsent
<1>6. CASE Deliver
  <2>1. Head(wire) \in Byte /\ Tail(wire) \in Seq(Byte)
    BY <1>6, HeadTailProperties DEF Deliver
  <2>2. Append(buffer, Head(wire)) \in Seq(Byte)
    BY <2>1
  <2> QED
    BY <1>6, <2>1, <2>2 DEF Deliver, sender
<1>7. CASE Walk
  <2>1. PICK c : c = Framed.consumed /\ c \in 0 .. Len(buffer)
    BY ConsumedIsThere DEF Framed
  <2>2. c + 1 \in 1 .. Len(buffer) + 1 /\ Len(buffer) \in (c + 1) - 1 .. Len(buffer)
    BY <2>1, LenProperties
  <2>3. SubSeq(buffer, c + 1, Len(buffer)) \in Seq(Byte)
    BY <2>2, Piece
  <2>4. buffer' = SubSeq(buffer, c + 1, Len(buffer))
    BY <1>7, <2>1 DEF Walk, Rest
  <2> QED
    BY <1>7, <2>3, <2>4 DEF Walk, sender
<1>8. ASSUME NEW byte \in Incoming, ArriveFromAnyone(byte)
      PROVE  StreamTypes'
  <2>1. Append(buffer, byte) \in Seq(Byte)
    BY IncomingAssumption
  <2> QED
    BY <1>8, <2>1 DEF ArriveFromAnyone, Arrive, sender
<1>9. CASE UNCHANGED vars
  BY <1>9 DEF vars
<1> QED
  BY <1>1, <1>2, <1>4, <1>5, <1>6, <1>7, <1>8, <1>9 DEF StreamNext

LEMMA TypesHold == StreamSpec => []StreamTypes
<1>1. StreamInit => StreamTypes
  BY FramesAssumption DEF StreamInit, Init, StreamTypes
<1> QED
  BY <1>1, TypesStep, PTL DEF StreamSpec

-----------------------------------------------------------------------------
(* Reads of the stream *)

\* Whatever is walked off the buffer, its reads keep what EnvelopeReads says
\* of the reads of every buffer.
THEOREM StreamReadsAreSound ==
  StreamSpec => [](/\ ReadsWhatWasSigned /\ ContractsAgree /\ WaitingHelps
                   /\ ReadersAgree /\ TextReadsAsBytes)
<1>1. StreamTypes => /\ ReadsWhatWasSigned /\ ContractsAgree /\ WaitingHelps
                     /\ ReadersAgree /\ TextReadsAsBytes
  BY WhatIsReadWasSigned, WholeAndFramed, WaitingIsWorthIt, ReaderAndWhole, TextIsRead
     DEF StreamTypes
<1> QED
  BY <1>1, TypesHold, PTL

LEMMA ValidIsWhatWasSigned ==
  ASSUME buffer \in Seq(Byte)
  PROVE  ValidIsSigned
<1>1. SUFFICES ASSUME NEW owid \in Framed.owids, Ascii(owid)
               PROVE  SignatureStatus(owid) =
                        IF <<SubSeq(buffer, 1, Framed.consumed - SignatureLength),
                             owid.signature>> \in signed
                          THEN "SIGNATURE_VALID" ELSE "SIGNATURE_INVALID"
  BY DEF ValidIsSigned
<1>2. Complete(buffer)
  BY <1>1, ParseIs DEF Framed
<1>3. PICK end \in Nat : end = LengthEnd(buffer) + Declared(buffer)
  BY <1>2, ConsumedIsLength
<1>4. Framed = Parsed(OwidIn(buffer), end + SignatureLength)
  BY <1>2, <1>3, ParseIs DEF Framed
<1>5. owid = OwidIn(buffer) /\ Framed.consumed = end + SignatureLength
  BY <1>1, <1>4 DEF Parsed
<1>6. Framed.consumed - SignatureLength = end
  BY <1>5, WidthsAssumption
<1>7. /\ Writable(owid) /\ Len(owid.signature) = SignatureLength
      /\ SignedBytes(owid) = SubSeq(buffer, 1, end)
  BY <1>1, <1>2, <1>3, <1>5, ReadIsWritten
<1> QED
  BY <1>6, <1>7 DEF SignatureStatus, Matches

\* signature_status of an OWID read from any bytes is valid exactly where the
\* bytes received were signed as they are, and is about the signature alone.
THEOREM ValidMeansSigned == StreamSpec => []ValidIsSigned
<1>1. StreamTypes => ValidIsSigned
  BY ValidIsWhatWasSigned DEF StreamTypes
<1> QED
  BY <1>1, TypesHold, PTL

\* Bytes delivered after a framed read has decided change nothing of what it
\* decided, although the walk takes bytes off the same buffer.
THEOREM StreamDecisionsStand == StreamSpec => DecisionsStand
<1>1. StreamTypes /\ [StreamNext]_vars => [Stands]_buffer
  <2> SUFFICES ASSUME StreamTypes, [StreamNext]_vars, buffer' # buffer,
                      Framed.status \notin Undecided, Len(buffer') > Len(buffer)
               PROVE  Parse(buffer', FALSE) = Framed
    BY DEF Stands
  <2>1. Parse(buffer, FALSE).status \notin Undecided
    BY DEF Framed
  <2>2. ASSUME NEW byte \in Byte, buffer' = Append(buffer, byte)
        PROVE  Parse(buffer', FALSE) = Framed
    <3>1. buffer' = buffer \o <<byte>> /\ <<byte>> \in Seq(Byte) /\ buffer \in Seq(Byte)
      BY <2>2 DEF StreamTypes
    <3>2. Parse(buffer \o <<byte>>, FALSE) = Parse(buffer, FALSE)
      BY <2>1, <3>1, DecisionIsFinal
    <3> QED
      BY <3>1, <3>2 DEF Framed
  <2>3. CASE Deliver
    <3>1. Head(wire) \in Byte
      BY <2>3, HeadTailProperties DEF Deliver, StreamTypes
    <3> QED
      BY <2>2, <2>3, <3>1 DEF Deliver
  <2>4. CASE Walk
    <3>1. PICK c : c = Framed.consumed /\ c \in 0 .. Len(buffer)
      BY ConsumedIsThere DEF Framed, StreamTypes
    <3>2. /\ buffer \in Seq(Byte) /\ Len(buffer) \in Nat
          /\ c + 1 \in 1 .. Len(buffer) + 1 /\ Len(buffer) \in (c + 1) - 1 .. Len(buffer)
      BY <3>1, LenProperties DEF StreamTypes
    <3>3. Len(SubSeq(buffer, c + 1, Len(buffer))) = Len(buffer) - (c + 1) + 1
      BY <3>2, Piece
    <3>4. buffer' = SubSeq(buffer, c + 1, Len(buffer))
      BY <2>4, <3>1 DEF Walk, Rest
    <3>5. Len(buffer') = Len(buffer) - (c + 1) + 1
      BY <3>3, <3>4
    <3> QED
      BY <3>1, <3>2, <3>5
  <2>5. CASE \E byte \in Incoming : ArriveFromAnyone(byte)
    BY <2>2, <2>5, IncomingAssumption DEF ArriveFromAnyone, Arrive
  <2>6. CASE ~Deliver /\ ~Walk /\ ~(\E byte \in Incoming : ArriveFromAnyone(byte))
    BY <2>6 DEF StreamNext, vars, Tick, Create, SendOwid, SendAbsent, Send
  <2> QED
    BY <2>3, <2>4, <2>5, <2>6
<1> QED
  BY <1>1, TypesHold, PTL DEF StreamSpec, DecisionsStand, Stands

-----------------------------------------------------------------------------
(* The queue *)

Sendable == LegibleOwid \cup {AbsentNode}

\* Bytes p hold what is left to read of the frames f, of which r were read: cut
\* says how many bytes the frames before and with each one have.
Holds(p, f, r, cut) ==
  /\ p \in Seq(Byte) /\ f \in Seq(Sendable) /\ r \in 0 .. Len(f)
  /\ cut \in [0 .. Len(f) -> Nat]
  /\ cut[Len(f)] = cut[r] + Len(p)
  /\ \A i, j \in 0 .. Len(f) : i <= j => cut[i] <= cut[j]
  /\ \A i \in r + 1 .. Len(f) : cut[i] = cut[i - 1] + Len(BytesOf(f[i]))
  /\ \A i \in r + 1 .. Len(f) : \A j \in 1 .. Len(BytesOf(f[i])) :
       p[(cut[i - 1] - cut[r]) + j] = BytesOf(f[i])[j]

LEMMA FrameBytes ==
  ASSUME NEW frame \in Sendable
  PROVE  BytesOf(frame) \in Seq(Byte) /\ Len(BytesOf(frame)) \in Nat \ {0}
<1>1. <<>> \in Seq(Byte)
  OBVIOUS
<1> QED
  BY <1>1, FrameIsRead DEF Sendable

\* A frame sent is held after those that were.
LEMMA HoldsOneMore ==
  ASSUME NEW p, NEW f, NEW r, NEW cut, Holds(p, f, r, cut), NEW frame \in Sendable
  PROVE  \E more : Holds(p \o BytesOf(frame), Append(f, frame), r, more)
<1>1. PICK bytes : bytes = BytesOf(frame) /\ bytes \in Seq(Byte) /\ Len(bytes) \in Nat
  BY FrameBytes
<1>2. PICK n \in Nat, l \in Nat : n = Len(f) /\ l = Len(p)
  BY LenProperties DEF Holds
<1>3. PICK q : q = p \o bytes
  OBVIOUS
<1>4. /\ q \in Seq(Byte) /\ Len(q) = l + Len(bytes)
      /\ \A i \in 1 .. l : q[i] = p[i]
      /\ \A i \in 1 .. Len(bytes) : q[l + i] = bytes[i]
  <2>1. Joined(q, p, bytes)
    BY <1>1, <1>3, JoinedIs DEF Holds
  <2> QED
    BY <1>2, <2>1 DEF Joined
<1>5. PICK g : g = Append(f, frame)
  OBVIOUS
<1>6. /\ g \in Seq(Sendable) /\ Len(g) = n + 1
      /\ \A i \in 1 .. n : g[i] = f[i]
      /\ g[n + 1] = frame
  BY <1>2, <1>5 DEF Holds
<1>7. /\ r \in 0 .. n /\ cut \in [0 .. n -> Nat]
      /\ cut[n] = cut[r] + l
      /\ \A i, j \in 0 .. n : i <= j => cut[i] <= cut[j]
      /\ \A i \in r + 1 .. n : cut[i] = cut[i - 1] + Len(BytesOf(f[i]))
      /\ \A i \in r + 1 .. n : \A j \in 1 .. Len(BytesOf(f[i])) :
           p[(cut[i - 1] - cut[r]) + j] = BytesOf(f[i])[j]
  BY <1>2 DEF Holds
<1> DEFINE more == [i \in 0 .. n + 1 |-> IF i <= n THEN cut[i] ELSE cut[n] + Len(bytes)]
<1>8. /\ more \in [0 .. n + 1 -> Nat]
      /\ \A i \in 0 .. n : more[i] = cut[i]
      /\ more[n + 1] = cut[n] + Len(bytes)
  <2>1. cut[n] \in Nat /\ cut[n] + Len(bytes) \in Nat
    BY <1>1, <1>7
  <2> QED
    BY <1>7, <2>1
<1> HIDE DEF more
<1>9. r \in 0 .. n + 1 /\ more[r] = cut[r] /\ more[n + 1] = more[r] + (l + Len(bytes))
  BY <1>1, <1>7, <1>8
<1>10. ASSUME NEW i \in 0 .. n + 1, NEW j \in 0 .. n + 1, i <= j
       PROVE  more[i] <= more[j]
  <2>1. CASE j \in 0 .. n
    <3>1. i \in 0 .. n
      BY <1>10, <2>1
    <3>2. cut[i] <= cut[j] /\ more[i] = cut[i] /\ more[j] = cut[j]
      BY <1>7, <1>8, <1>10, <2>1, <3>1
    <3> QED
      BY <3>2
  <2>2. CASE j = n + 1 /\ i \in 0 .. n
    <3>1. cut[i] <= cut[n] /\ cut[i] \in Nat /\ cut[n] \in Nat
      BY <1>7, <2>2
    <3> QED
      BY <1>1, <1>8, <2>2, <3>1
  <2>3. CASE i = n + 1 /\ j = n + 1
    BY <1>8, <2>3
  <2> QED
    BY <1>10, <2>1, <2>2, <2>3
<1>11. ASSUME NEW i \in r + 1 .. n + 1
       PROVE  /\ more[i] = more[i - 1] + Len(BytesOf(g[i]))
              /\ \A j \in 1 .. Len(BytesOf(g[i])) :
                   q[(more[i - 1] - more[r]) + j] = BytesOf(g[i])[j]
  <2>1. CASE i \in r + 1 .. n
    <3>1. /\ i \in 1 .. n /\ i - 1 \in 0 .. n /\ i \in 0 .. n /\ r \in 0 .. n
          /\ n \in 0 .. n
      BY <1>7, <2>1
    <3>2. g[i] = f[i] /\ more[i] = cut[i] /\ more[i - 1] = cut[i - 1]
      BY <1>6, <1>8, <3>1
    <3>3. cut[i] = cut[i - 1] + Len(BytesOf(f[i]))
      BY <1>7, <2>1
    <3>4. /\ cut[r] <= cut[i - 1] /\ cut[i] <= cut[n]
          /\ cut[r] \in Nat /\ cut[i - 1] \in Nat /\ cut[i] \in Nat
      BY <1>7, <2>1, <3>1
    <3>5. ASSUME NEW j \in 1 .. Len(BytesOf(f[i]))
          PROVE  q[(more[i - 1] - more[r]) + j] = BytesOf(g[i])[j]
      <4>1. PICK k : k = (cut[i - 1] - cut[r]) + j
        OBVIOUS
      <4>2. f[i] \in Sendable
        BY <1>2, <3>1, ElementOfSeq DEF Holds
      <4>3. Len(BytesOf(f[i])) \in Nat
        BY <4>2, FrameBytes
      <4>4. k \in 1 .. l
        <5>1. PICK c0 \in Nat, c1 \in Nat, c2 \in Nat, d \in Nat :
                /\ c0 = cut[r] /\ c1 = cut[i - 1] /\ c2 = cut[i]
                /\ d = Len(BytesOf(f[i]))
          BY <3>4, <4>3
        <5>2. c2 = c1 + d /\ c0 <= c1 /\ c2 <= c0 + l
          BY <1>7, <3>3, <3>4, <5>1
        <5>3. k = (c1 - c0) + j /\ j \in 1 .. d
          BY <4>1, <5>1
        <5> QED
          BY <5>2, <5>3
      <4>5. p[k] = BytesOf(f[i])[j]
        BY <1>7, <2>1, <4>1
      <4> QED
        BY <1>4, <1>9, <3>2, <4>1, <4>4, <4>5
    <3> QED
      BY <3>2, <3>3, <3>5
  <2>2. CASE i = n + 1
    <3>1. g[i] = frame /\ i - 1 = n /\ more[i - 1] = cut[n] /\ n \in 0 .. n
      BY <1>6, <1>8, <2>2
    <3>2. more[i - 1] - more[r] = l
      BY <1>7, <1>9, <3>1
    <3> QED
      BY <1>1, <1>4, <1>8, <2>2, <3>1, <3>2
  <2> QED
    BY <1>7, <2>1, <2>2
<1>12. Holds(q, g, r, more)
  BY <1>4, <1>6, <1>8, <1>9, <1>10, <1>11 DEF Holds
<1> QED
  BY <1>1, <1>3, <1>5, <1>12

StartsWith(p, bytes) == \E rest \in Seq(Byte) : p = bytes \o rest

\* Bytes that are held start with the first frame not read, and hold the others
\* once its bytes are taken off.
LEMMA HoldsFirst ==
  ASSUME NEW p, NEW f, NEW r, NEW cut, Holds(p, f, r, cut), p # <<>>
  PROVE  /\ r < Len(f) /\ f[r + 1] \in Sendable
         /\ StartsWith(p, BytesOf(f[r + 1]))
<1>1. PICK n \in Nat, l \in Nat : n = Len(f) /\ l = Len(p)
  BY LenProperties DEF Holds
<1>2. /\ p \in Seq(Byte) /\ r \in 0 .. n /\ cut \in [0 .. n -> Nat]
      /\ cut[n] = cut[r] + l
      /\ \A i, j \in 0 .. n : i <= j => cut[i] <= cut[j]
  BY <1>1 DEF Holds
<1>3. l # 0
  BY <1>1, <1>2, EmptySeq
<1>4. r < n
  BY <1>2, <1>3
<1>5. r + 1 \in 1 .. n /\ r + 1 \in r + 1 .. n /\ (r + 1) - 1 = r
  BY <1>2, <1>4
<1>6. PICK frame : frame = f[r + 1] /\ frame \in Sendable
  BY <1>1, <1>5, ElementOfSeq DEF Holds
<1>7. PICK bytes : bytes = BytesOf(frame) /\ bytes \in Seq(Byte) /\ Len(bytes) \in Nat
  BY <1>6, FrameBytes
<1>8. cut[r + 1] = cut[r] + Len(bytes)
  BY <1>1, <1>5, <1>6, <1>7 DEF Holds
<1>9. Len(bytes) <= l
  <2>1. /\ cut[r + 1] <= cut[n] /\ cut[r] \in Nat /\ cut[r + 1] \in Nat /\ cut[n] \in Nat
    BY <1>2, <1>5
  <2>2. PICK c0 \in Nat, c1 \in Nat, c2 \in Nat : c0 = cut[r] /\ c1 = cut[r + 1] /\ c2 = cut[n]
    BY <2>1
  <2>3. c1 <= c2 /\ c1 = c0 + Len(bytes) /\ c2 = c0 + l
    BY <1>2, <1>8, <2>1, <2>2
  <2> QED
    BY <1>7, <2>3
<1>10. \A j \in 1 .. Len(bytes) : p[0 + j] = bytes[j]
  <2>1. \A j \in 1 .. Len(bytes) : p[(cut[r] - cut[r]) + j] = bytes[j]
    BY <1>1, <1>5, <1>6, <1>7 DEF Holds
  <2>2. cut[r] - cut[r] = 0
    BY <1>2
  <2> QED
    BY <2>1, <2>2
<1>11. SubSeq(p, 1, Len(bytes)) = bytes
  <2>1. PICK zero \in Nat : zero = 0
    OBVIOUS
  <2>2. zero + Len(bytes) <= Len(p)
    BY <1>1, <1>7, <1>9, <2>1
  <2>3. SubSeq(p, zero + 1, zero + Len(bytes)) = bytes
    BY <1>2, <1>7, <1>10, <2>1, <2>2, FieldIsCut
  <2>4. zero + 1 = 1 /\ zero + Len(bytes) = Len(bytes)
    BY <1>7, <2>1
  <2> QED
    BY <2>3, <2>4
<1>12. PICK rest : rest = SubSeq(p, Len(bytes) + 1, l) /\ rest \in Seq(Byte)
  <2>1. Len(bytes) + 1 \in 1 .. Len(p) + 1 /\ l \in (Len(bytes) + 1) - 1 .. Len(p)
    BY <1>1, <1>7, <1>9, SMTT(30)
  <2> QED
    BY <1>2, <2>1, Piece
<1>13. p = bytes \o rest
  <2>1. 1 \in 1 .. Len(p) + 1 /\ Len(bytes) \in 1 - 1 .. Len(p) /\ l \in Len(bytes) .. Len(p)
    BY <1>1, <1>7, <1>9
  <2>2. SubSeq(p, 1, Len(bytes)) \o SubSeq(p, Len(bytes) + 1, l) = SubSeq(p, 1, l)
    BY <1>2, <2>1, ConcatAdjacentSubSeq
  <2>3. SubSeq(p, 1, l) = p
    BY <1>1, <1>2, SubSeqFull
  <2> QED
    BY <1>11, <1>12, <2>2, <2>3
<1> QED
  BY <1>1, <1>4, <1>6, <1>7, <1>12, <1>13 DEF StartsWith

LEMMA HoldsOneLess ==
  ASSUME NEW p, NEW f, NEW r, NEW cut, Holds(p, f, r, cut), r < Len(f),
         NEW rest \in Seq(Byte), p = BytesOf(f[r + 1]) \o rest
  PROVE  Holds(rest, f, r + 1, cut)
<1>1. PICK n \in Nat, m \in Nat : n = Len(f) /\ m = Len(rest)
  BY LenProperties DEF Holds
<1>2. /\ p \in Seq(Byte) /\ r \in 0 .. n /\ cut \in [0 .. n -> Nat]
      /\ cut[n] = cut[r] + Len(p)
      /\ \A i, j \in 0 .. n : i <= j => cut[i] <= cut[j]
      /\ \A i \in r + 1 .. n : cut[i] = cut[i - 1] + Len(BytesOf(f[i]))
      /\ \A i \in r + 1 .. n : \A j \in 1 .. Len(BytesOf(f[i])) :
           p[(cut[i - 1] - cut[r]) + j] = BytesOf(f[i])[j]
  BY <1>1 DEF Holds
<1>3. r + 1 \in 1 .. n /\ r + 1 \in r + 1 .. n /\ (r + 1) - 1 = r /\ r + 1 \in 0 .. n
  <2>1. r \in Nat /\ r < n
    BY <1>1, <1>2
  <2> QED
    BY <2>1
<1>4. f[r + 1] \in Sendable
  BY <1>1, <1>3, ElementOfSeq DEF Holds
<1>5. PICK bytes, d : bytes = BytesOf(f[r + 1]) /\ bytes \in Seq(Byte) /\ d = Len(bytes) /\ d \in Nat
  <2>1. BytesOf(f[r + 1]) \in Seq(Byte) /\ Len(BytesOf(f[r + 1])) \in Nat
    BY <1>4, FrameBytes
  <2> QED
    BY <2>1, Zenon
<1>6. Len(p) = d + m /\ \A i \in 1 .. m : p[d + i] = rest[i]
  <2>1. Joined(p, bytes, rest)
    BY <1>5, JoinedIs
  <2> QED
    BY <1>1, <1>5, <2>1 DEF Joined
<1>7. PICK c0 \in Nat, c1 \in Nat, cn \in Nat :
        c0 = cut[r] /\ c1 = cut[r + 1] /\ cn = cut[n] /\ c1 = c0 + d
  <2>1. cut[r + 1] = cut[r] + d
    BY <1>2, <1>3, <1>5
  <2>2. cut[r] \in Nat /\ cut[r + 1] \in Nat /\ cut[n] \in Nat
    BY <1>2, <1>3
  <2> QED
    BY <2>1, <2>2
<1>8. cn = c1 + m
  <2>1. cn = c0 + (d + m)
    BY <1>2, <1>6, <1>7, SMTT(30)
  <2> QED
    BY <1>5, <1>7, <2>1
<1>9. ASSUME NEW i \in (r + 1) + 1 .. n
      PROVE  /\ cut[i] = cut[i - 1] + Len(BytesOf(f[i]))
             /\ \A j \in 1 .. Len(BytesOf(f[i])) :
                  rest[(cut[i - 1] - cut[r + 1]) + j] = BytesOf(f[i])[j]
  <2>1. i \in r + 1 .. n /\ i \in 1 .. n /\ i \in 0 .. n /\ i - 1 \in 0 .. n /\ r + 1 <= i - 1
        /\ i <= n /\ n \in 0 .. n
    <3>1. r \in Nat
      BY <1>2
    <3> QED
      BY <3>1
  <2>2. f[i] \in Sendable
    BY <1>1, <2>1, ElementOfSeq DEF Holds
  <2>3. PICK b, e : b = BytesOf(f[i]) /\ e = Len(b) /\ e \in Nat
    <3>1. Len(BytesOf(f[i])) \in Nat
      BY <2>2, FrameBytes
    <3> QED
      BY <3>1, Zenon
  <2>4. PICK x \in Nat, y \in Nat : x = cut[i - 1] /\ y = cut[i] /\ c1 <= x /\ y <= cn /\ y = x + e
    <3>1. cut[i] = cut[i - 1] + e
      BY <1>2, <2>1, <2>3
    <3>2. cut[r + 1] <= cut[i - 1] /\ cut[i] <= cut[n] /\ cut[i - 1] \in Nat /\ cut[i] \in Nat
      BY <1>2, <1>3, <2>1
    <3> QED
      BY <1>7, <3>1, <3>2
  <2>5. ASSUME NEW j \in 1 .. e
        PROVE  rest[(x - c1) + j] = b[j]
    <3>1. e \in Nat /\ d \in Nat /\ c1 <= x /\ x + e <= c1 + m /\ c1 = c0 + d
      BY <1>5, <1>7, <1>8, <2>3, <2>4
    <3>2. PICK k \in 1 .. m : k = (x - c1) + j /\ (x - c0) + j = d + k
      <4>1. (x - c1) + j \in 1 .. m /\ (x - c0) + j = d + ((x - c1) + j)
        BY <3>1
      <4> QED
        BY <4>1
    <3>3. p[(x - c0) + j] = b[j]
      BY <1>2, <1>7, <2>1, <2>3, <2>4
    <3> QED
      BY <1>6, <3>2, <3>3
  <2>6. cut[i] = cut[i - 1] + Len(BytesOf(f[i]))
    BY <1>2, <2>1
  <2> QED
    BY <1>7, <2>3, <2>4, <2>5, <2>6
<1>10. r + 1 \in 0 .. Len(f) /\ cut[Len(f)] = cut[r + 1] + Len(rest)
  BY <1>1, <1>3, <1>7, <1>8
<1> QED
  BY <1>1, <1>2, <1>9, <1>10 DEF Holds

\* The bytes in the buffer and on the wire hold what the reader has not met.
InOrder ==
  source = "creator" =>
    /\ read \in Seq(Sendable)
    /\ \E cut : Holds(buffer \o wire, sent, Len(read), cut)

LEMMA BytesAssociate ==
  ASSUME NEW a \in Seq(Byte), NEW b \in Seq(Byte), NEW c \in Seq(Byte)
  PROVE  (a \o b) \o c = a \o (b \o c)
  BY ConcatAssociative

LEMMA SendKeepsOrder ==
  ASSUME StreamTypes, InOrder, NEW frame \in Sendable, Send(frame, BytesOf(frame))
  PROVE  InOrder'
<1>1. PICK bytes : bytes = BytesOf(frame) /\ bytes \in Seq(Byte)
  BY FrameBytes
<1>2. PICK cut : Holds(buffer \o wire, sent, Len(read), cut)
  BY DEF InOrder, Send
<1>3. PICK more : Holds((buffer \o wire) \o bytes, Append(sent, frame), Len(read), more)
  BY <1>1, <1>2, HoldsOneMore
<1>4. (buffer \o wire) \o bytes = buffer \o (wire \o bytes)
  BY <1>1, BytesAssociate DEF StreamTypes
<1>5. buffer' = buffer /\ wire' = wire \o bytes /\ sent' = Append(sent, frame) /\ read' = read
  BY <1>1 DEF Send
<1>6. Holds(buffer' \o wire', sent', Len(read'), more)
  BY <1>3, <1>4, <1>5
<1> QED
  BY <1>5, <1>6 DEF InOrder, Send

LEMMA DeliverKeepsOrder ==
  ASSUME StreamTypes, InOrder, Deliver
  PROVE  InOrder'
<1>1. PICK h, t : /\ h = Head(wire) /\ t = Tail(wire) /\ h \in Byte /\ t \in Seq(Byte)
                  /\ wire = <<h>> \o t
  <2>1. wire \in Seq(Byte) /\ wire # <<>>
    BY DEF StreamTypes, Deliver
  <2>2. Head(wire) \in Byte /\ Tail(wire) \in Seq(Byte)
    BY <2>1, HeadTailProperties
  <2>3. wire = <<Head(wire)>> \o Tail(wire)
    BY <2>1
  <2> QED
    BY <2>2, <2>3, Zenon
<1>2. <<h>> \in Seq(Byte) /\ buffer \in Seq(Byte) /\ Append(buffer, h) = buffer \o <<h>>
  BY <1>1 DEF StreamTypes
<1>3. (buffer \o <<h>>) \o t = buffer \o (<<h>> \o t)
  BY <1>1, <1>2, BytesAssociate
<1>4. buffer' = buffer \o <<h>> /\ wire' = t
  BY <1>1, <1>2 DEF Deliver
<1>5. buffer' \o wire' = buffer \o wire
  BY <1>1, <1>3, <1>4
<1> QED
  BY <1>5 DEF InOrder, Deliver

\* A read that consumes bytes has decided.
LEMMA ConsumedIsDecided ==
  ASSUME NEW b \in Seq(Byte), Parse(b, FALSE).consumed > 0
  PROVE  Parse(b, FALSE).status \notin Undecided
<1>1. CASE Complete(b)
  <2>1. PICK c : Parse(b, FALSE) = Parsed(OwidIn(b), c)
    BY <1>1, ParseIs
  <2>2. Parsed(OwidIn(b), c).status = "PARSED"
    BY DEF Parsed
  <2>3. Parse(b, FALSE).status = "PARSED"
    BY <2>1, <2>2, Zenon
  <2> QED
    BY <2>3 DEF Undecided
<1>2. CASE ~Complete(b)
  <2>1. Len(b) \in Nat
    BY LenProperties
  <2>2. CASE Terminators(b) # {}
    <3>1. /\ DateEnd(b) \in Nat /\ LengthEnd(b) \in Nat /\ LengthEnd(b) > DateEnd(b)
          /\ DateEnd(b) <= Len(b) => DateIn(b) \in Nat
          /\ LengthEnd(b) <= Len(b) => Declared(b) \in Nat
          /\ Present(b) \in Int
      BY <2>2, Layout
    <3>2. MaximumMinutes * MinuteTicks \in Nat
      BY WidthsAssumption
    <3> QED
      BY <1>2, <2>1, <2>2, <3>1, <3>2 DEF Complete, Parse, Parsed, Failed, Undecided
  <2>3. CASE Terminators(b) = {}
    BY <2>1, <2>3 DEF Parse, Failed, DomainFault, Undecided
  <2> QED
    BY <2>2, <2>3
<1> QED
  BY <1>1, <1>2

\* The walk takes the first frame sent and not yet read, and all its bytes.
LEMMA WalkTakesFirst ==
  ASSUME StreamTypes, InOrder, Walk
  PROVE  /\ Len(read) < Len(sent)
         /\ read' = Append(read, sent[Len(read) + 1])
         /\ InOrder'
<1>1. source = "creator" /\ Framed.consumed > 0
  BY DEF Walk
<1>2. /\ buffer \in Seq(Byte) /\ wire \in Seq(Byte) /\ read \in Seq(Sendable)
  BY <1>1 DEF StreamTypes, InOrder
<1>3. PICK p : p = buffer \o wire /\ p \in Seq(Byte)
  <2>1. buffer \o wire \in Seq(Byte)
    BY <1>2
  <2> QED
    BY <2>1, Zenon
<1>4. PICK r \in Nat : r = Len(read)
  BY <1>2, LenProperties
<1>5. PICK cut : Holds(p, sent, r, cut)
  BY <1>1, <1>3, <1>4 DEF InOrder
<1>6. PICK c \in 1 .. Len(buffer) : c = Framed.consumed
  <2>1. Framed.consumed \in 0 .. Len(buffer)
    BY <1>2, ConsumedIsThere DEF Framed
  <2> QED
    BY <1>1, <2>1, LenProperties
<1>7. Joined(p, buffer, wire)
  BY <1>2, <1>3, JoinedIs
<1>8. p # <<>>
  <2>1. Len(p) = Len(buffer) + Len(wire) /\ Len(buffer) \in Nat /\ Len(wire) \in Nat
    BY <1>2, <1>7, LenProperties DEF Joined
  <2>2. Len(p) # 0
    BY <1>6, <2>1
  <2> QED
    BY <1>3, <2>2, EmptySeq
<1>9. r < Len(sent) /\ sent[r + 1] \in Sendable
  BY <1>5, <1>8, HoldsFirst
<1>10. PICK frame : frame = sent[r + 1] /\ frame \in Sendable
  BY <1>9
<1>11. PICK rest \in Seq(Byte) : p = BytesOf(frame) \o rest
  <2>1. StartsWith(p, BytesOf(sent[r + 1]))
    BY <1>5, <1>8, HoldsFirst
  <2> QED
    BY <1>10, <2>1 DEF StartsWith
<1>12. Parse(p, FALSE) = Framed
  <2>1. Parse(buffer, FALSE).status \notin Undecided
    BY <1>1, <1>2, ConsumedIsDecided DEF Framed
  <2> QED
    BY <1>2, <1>3, <2>1, DecisionIsFinal DEF Framed
<1>13. PICK bytes : bytes = BytesOf(frame) /\ bytes \in Seq(Byte)
  BY <1>10, FrameBytes
<1>14. /\ c = Len(bytes)
       /\ Framed.owids \cup (IF Framed.status = "ABSENT_NODE" THEN {AbsentNode} ELSE {})
            = {frame}
  BY <1>6, <1>10, <1>11, <1>12, <1>13, FrameIsRead DEF Sendable
<1>15. read' = Append(read, frame)
  BY <1>14 DEF Walk
<1>16. SubSeq(buffer, 1, c) = bytes
  <2>1. Joined(p, bytes, rest)
    BY <1>11, <1>13, JoinedIs
  <2>2. \A i \in 1 .. c : buffer[i] = bytes[i]
    BY <1>6, <1>7, <1>14, <2>1, LenProperties DEF Joined
  <2>3. PICK zero \in Nat : zero = 0
    OBVIOUS
  <2>4. zero + Len(bytes) <= Len(buffer) /\ \A i \in 1 .. Len(bytes) : buffer[zero + i] = bytes[i]
    BY <1>6, <1>14, <2>2, <2>3
  <2>5. SubSeq(buffer, zero + 1, zero + Len(bytes)) = bytes
    BY <1>2, <1>13, <2>4, FieldIsCut
  <2>6. zero + 1 = 1 /\ zero + Len(bytes) = c
    BY <1>6, <1>14, <2>3
  <2> QED
    BY <2>5, <2>6
<1>17. buffer' = SubSeq(buffer, c + 1, Len(buffer)) /\ wire' = wire /\ sent' = sent
       /\ source' = source
  BY <1>6 DEF Walk, Rest
<1>18. buffer' \in Seq(Byte) /\ buffer = bytes \o buffer'
  <2>1. PICK l \in Nat : l = Len(buffer)
    BY <1>2, LenProperties
  <2>2. /\ 1 \in 1 .. Len(buffer) + 1 /\ c \in 1 - 1 .. Len(buffer) /\ l \in c .. Len(buffer)
        /\ c + 1 \in 1 .. Len(buffer) + 1 /\ l \in (c + 1) - 1 .. Len(buffer)
    BY <1>6, <2>1
  <2>3. SubSeq(buffer, 1, c) \o SubSeq(buffer, c + 1, l) = SubSeq(buffer, 1, l)
    BY <1>2, <2>2, ConcatAdjacentSubSeq
  <2>4. SubSeq(buffer, 1, l) = buffer
    BY <1>2, <2>1, SubSeqFull
  <2>5. SubSeq(buffer, c + 1, l) \in Seq(Byte)
    BY <1>2, <2>2, Piece
  <2> QED
    BY <1>16, <1>17, <2>1, <2>3, <2>4, <2>5
<1>19. p = bytes \o (buffer' \o wire') /\ buffer' \o wire' \in Seq(Byte)
  <2>1. (bytes \o buffer') \o wire = bytes \o (buffer' \o wire)
    <3>1. PICK left \in Seq(Byte), right \in Seq(Byte) : left = buffer' /\ right = wire
      BY <1>2, <1>18
    <3>2. (bytes \o left) \o right = bytes \o (left \o right)
      BY <1>13, BytesAssociate
    <3> QED
      BY <3>1, <3>2
  <2>2. p = (bytes \o buffer') \o wire
    BY <1>3, <1>18
  <2>3. buffer' \o wire' \in Seq(Byte)
    BY <1>2, <1>17, <1>18
  <2> QED
    BY <1>17, <2>1, <2>2, <2>3
<1>20. Holds(buffer' \o wire', sent, r + 1, cut)
  BY <1>5, <1>9, <1>10, <1>13, <1>19, HoldsOneLess
<1>21. read' \in Seq(Sendable) /\ Len(read') = r + 1
  BY <1>2, <1>4, <1>10, <1>15
<1>22. InOrder'
  BY <1>17, <1>20, <1>21 DEF InOrder
<1> QED
  BY <1>4, <1>9, <1>10, <1>15, <1>22

LEMMA OrderStep == StreamTypes /\ InOrder /\ [StreamNext]_vars => InOrder'
<1> SUFFICES ASSUME StreamTypes, InOrder, [StreamNext]_vars
             PROVE  InOrder'
  OBVIOUS
<1>1. ASSUME UNCHANGED <<buffer, source, wire, sent, read>>
      PROVE  InOrder'
  BY <1>1 DEF InOrder
<1>2. CASE Tick
  BY <1>1, <1>2 DEF Tick
<1>3. CASE \E payload \in Payloads, signature \in Signatures : Create(payload, signature)
  BY <1>1, <1>3 DEF Create
<1>4. CASE \E owid \in created \cup Others : SendOwid(owid)
  <2>1. PICK owid \in created \cup Others : SendOwid(owid)
    BY <1>4
  <2>2. owid \in LegibleOwid
    BY FramesAssumption, LegibleAssumption DEF LegibleOwid, StreamTypes
  <2>3. BytesOf(owid) = Written(owid)
    BY <2>2 DEF BytesOf, LegibleOwid, Writable
  <2> QED
    BY <2>1, <2>2, <2>3, SendKeepsOrder DEF SendOwid, Sendable
<1>5. CASE SendAbsent
  <2>1. BytesOf(AbsentNode) = <<EmptyVersion>>
    BY DEF BytesOf, AbsentNode
  <2> QED
    BY <1>5, <2>1, SendKeepsOrder DEF SendAbsent, Sendable
<1>6. CASE Deliver
  BY <1>6, DeliverKeepsOrder
<1>7. CASE Walk
  BY <1>7, WalkTakesFirst
<1>8. CASE \E byte \in Incoming : ArriveFromAnyone(byte)
  BY <1>8 DEF ArriveFromAnyone, InOrder
<1>9. CASE UNCHANGED vars
  BY <1>1, <1>9 DEF vars
<1> QED
  BY <1>2, <1>3, <1>4, <1>5, <1>6, <1>7, <1>8, <1>9 DEF StreamNext

LEMMA OrderHolds == StreamSpec => []InOrder
<1>1. StreamInit => InOrder
  <2> SUFFICES ASSUME StreamInit
               PROVE  InOrder
    OBVIOUS
  <2>1. buffer \o wire = <<>> /\ sent = <<>> /\ read = <<>>
    BY DEF StreamInit, Init
  <2> DEFINE cut == [i \in 0 .. 0 |-> 0]
  <2>2. Holds(<<>>, <<>>, 0, cut)
    BY DEF Holds
  <2>3. Holds(buffer \o wire, sent, Len(read), cut)
    BY <2>1, <2>2
  <2> HIDE DEF cut
  <2> QED
    BY <2>1, <2>3 DEF InOrder
<1> QED
  BY <1>1, TypesHold, OrderStep, PTL DEF StreamSpec

\* The stream implements the queue: what the walk over parse_prefix reads is
\* what to_buffer and empty_to_buffer wrote, whole, in order and once, wherever
\* the bytes are cut.
THEOREM StreamIsQueue == StreamSpec => QueueSpec
<1>1. StreamInit => Queue!Init
  BY DEF StreamInit, Queue!Init
<1>2. StreamTypes /\ InOrder /\ [StreamNext]_vars => [Queue!Next]_<<sent, read>>
  <2> SUFFICES ASSUME StreamTypes, InOrder, [StreamNext]_vars
               PROVE  [Queue!Next]_<<sent, read>>
    OBVIOUS
  <2>1. CASE \E owid \in created \cup Others : SendOwid(owid)
    <3>1. PICK owid \in created \cup Others : SendOwid(owid)
      BY <2>1
    <3>2. owid \in Frame
      BY DEF StreamTypes, Frame
    <3> QED
      BY <3>1, <3>2 DEF SendOwid, Send, Queue!Next, Queue!Send
  <2>2. CASE SendAbsent
    BY <2>2 DEF SendAbsent, Send, Frame, Queue!Next, Queue!Send
  <2>3. CASE Walk
    BY <2>3, WalkTakesFirst DEF Walk, Queue!Next, Queue!Take
  <2>4. CASE UNCHANGED <<sent, read>>
    BY <2>4
  <2> QED
    BY <2>1, <2>2, <2>3, <2>4
       DEF StreamNext, vars, Tick, Create, Deliver, ArriveFromAnyone
<1> QED
  BY <1>1, <1>2, TypesHold, OrderHolds, PTL DEF StreamSpec, QueueSpec, Queue!Spec
=============================================================================
