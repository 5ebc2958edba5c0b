--------------------------- MODULE TagTextProofs ---------------------------
(***************************************************************************)
(* read_ndef_text returns the text that was written, for every tag: any    *)
(* capability, any message and any place of it in the memory.              *)
(***************************************************************************)
EXTENDS TagText, NdefProofs

(* Concatenation, index by index.                                          *)
Joins(S, z, s, r) ==
    /\ z \in Seq(S) /\ Len(z) = Len(s) + Len(r)
    /\ \A i \in 1..Len(s) : z[i] = s[i]
    /\ \A i \in 1..Len(r) : z[Len(s) + i] = r[i]

(* Concatenation joins its two arguments.                                  *)
LEMMA Joined ==
    ASSUME NEW S, NEW s \in Seq(S), NEW r \in Seq(S)
    PROVE  Joins(S, s \o r, s, r)
<1> DEFINE m == Len(s)
           k == Len(r)
           z == s \o r
<1>1. m \in Nat /\ k \in Nat
  OBVIOUS
<1>2. /\ z \in Seq(S) /\ Len(z) = m + k
      /\ \A i \in 1..(m + k) : z[i] = IF i <= m THEN s[i] ELSE r[i - m]
  BY ConcatProperties
<1> HIDE DEF m, k, z
<1>3. ASSUME NEW i \in 1..m PROVE z[i] = s[i]
  <2>1. i \in 1..(m + k) /\ i <= m
    BY <1>1
  <2> QED BY <1>2, <2>1
<1>4. ASSUME NEW i \in 1..k PROVE z[m + i] = r[i]
  <2> DEFINE j == m + i
  <2>1. j \in 1..(m + k) /\ ~(j <= m) /\ j - m = i
    BY <1>1
  <2> HIDE DEF j
  <2>2. z[j] = r[i]
    BY <1>2, <2>1
  <2> QED BY <2>2 DEF j
<1> QED BY <1>1, <1>2, <1>3, <1>4 DEF Joins, z, m, k

(* Where the bytes of a tag lie: b bytes before the message, its tag, its  *)
(* length in l bytes, its n bytes.                                         *)
Sizes(t, memory, b, n, l) ==
    /\ memory \in Seq(Byte) /\ b \in Nat /\ n \in Nat
    /\ t.before \in Seq(Byte) /\ Len(t.before) = b
    /\ t.message \in Seq(Byte) /\ Len(t.message) = n
    /\ l = IF n < 255 THEN 1 ELSE 3
    /\ Len(Stream(t)) = b + 1 + l + n /\ Len(Stream(t)) <= Len(memory)
    /\ 8 * t.capability <= Len(memory)

Header(memory, b, n) ==
    /\ memory[b + 1] = 3
    /\ n < 255 => memory[b + 2] = n
    /\ n >= 255 => /\ memory[b + 2] = 255
                   /\ memory[b + 3] = n \div 256
                   /\ memory[b + 4] = n % 256

LaidOut(t, memory, b, n, l) ==
    /\ Sizes(t, memory, b, n, l)
    /\ \A i \in 1..b : memory[i] = t.before[i]
    /\ Header(memory, b, n)
    /\ \A i \in 1..n : memory[b + 1 + l + i] = t.message[i]

(* The memory of every tag is laid out in this way.                        *)
LEMMA Layout ==
    ASSUME NEW t \in Tags
    PROVE  LaidOut(t, Memory(t), Len(t.before), Len(t.message),
                   Len(LengthField(Len(t.message))))
<1> DEFINE before == t.before
           message == t.message
           b == Len(before)
           n == Len(message)
           l == IF n < 255 THEN 1 ELSE 3
           size == LengthField(n)
           s1 == before \o <<3>>
           s2 == s1 \o size
           stream == s2 \o message
           c == 8 * t.capability
           rest == [i \in 1..(c - Len(stream)) |-> IF i = 1 THEN 254 ELSE 0]
           memory == stream \o rest
<1>0. n < 65536
  BY TagAssumption
<1>1. /\ before \in Seq(Byte) /\ message \in Seq(Byte)
      /\ b \in Nat /\ n \in Nat /\ c \in Nat
  BY TagAssumption, Bytes
<1>2. Stream(t) = stream /\ Memory(t) = memory
  BY DEF Stream, Memory
<1>3. /\ size \in Seq(Byte) /\ Len(size) = l /\ l \in {1, 3}
      /\ n < 255 => l = 1 /\ size[1] = n
      /\ n >= 255 => /\ l = 3 /\ size[1] = 255
                     /\ size[2] = n \div 256 /\ size[3] = n % 256
  <2> HIDE DEF n
  <2>1. CASE n < 255
    <3>1. size = <<n>> /\ l = 1 /\ n \in Byte /\ ~(n >= 255)
      BY <1>1, <2>1 DEF LengthField, Byte
    <3> HIDE DEF size, l
    <3>2. /\ size \in Seq(Byte) /\ Len(size) = 1 /\ size[1] = n
      BY <3>1
    <3> QED BY <2>1, <3>1, <3>2
  <2>2. CASE n >= 255
    <3> DEFINE high == n \div 256
               low == n % 256
    <3>1. high \in Byte /\ low \in Byte /\ 255 \in Byte /\ ~(n < 255)
      BY <1>0, <1>1, <2>2 DEF Byte
    <3>2. size = <<255, high, low>> /\ l = 3
      BY <3>1 DEF LengthField
    <3> HIDE DEF high, low, l, size
    <3>3. /\ size \in Seq(Byte) /\ Len(size) = 3
          /\ size[1] = 255 /\ size[2] = high /\ size[3] = low
      BY <3>1, <3>2
    <3> QED BY <2>2, <3>1, <3>2, <3>3 DEF high, low
  <2>3. n < 255 \/ n >= 255
    BY <1>1
  <2> QED BY <2>1, <2>2, <2>3
<1>4. <<3>> \in Seq(Byte) /\ Len(<<3>>) = 1 /\ <<3>>[1] = 3
  BY DEF Byte
<1> HIDE DEF before, message, size, l, n, b
<1>5. /\ s1 \in Seq(Byte) /\ Len(s1) = b + 1
      /\ \A i \in 1..b : s1[i] = before[i]
      /\ s1[b + 1] = 3
  <2> DEFINE three == <<3>>
  <2>1. three \in Seq(Byte) /\ Len(three) = 1 /\ three[1] = 3
    BY <1>4
  <2> HIDE DEF three
  <2>2. Joins(Byte, before \o three, before, three)
    BY <1>1, <2>1, Joined, Zenon
  <2>3. Joins(Byte, s1, before, three)
    BY <2>2, Zenon DEF three
  <2> HIDE DEF s1
  <2>4. /\ s1 \in Seq(Byte) /\ Len(s1) = b + 1
        /\ \A i \in 1..b : s1[i] = before[i]
        /\ \A i \in 1..1 : s1[b + i] = three[i]
    BY <2>1, <2>3, Zenon DEF Joins, b
  <2>5. 1 \in 1..1
    OBVIOUS
  <2> QED BY <2>1, <2>4, <2>5, Zenon
<1> HIDE DEF s1
<1>6. /\ s2 \in Seq(Byte) /\ Len(s2) = (b + 1) + l
      /\ \A i \in 1..(b + 1) : s2[i] = s1[i]
      /\ \A i \in 1..l : s2[(b + 1) + i] = size[i]
  <2>1. size \in Seq(Byte) /\ Len(size) = l
    BY <1>3
  <2>2. s1 \in Seq(Byte) /\ Len(s1) = b + 1
    BY <1>5
  <2>3. Joins(Byte, s2, s1, size)
    BY <2>1, <2>2, Joined, Zenon
  <2> HIDE DEF s2
  <2> QED BY <2>1, <2>2, <2>3, Zenon DEF Joins
<1> HIDE DEF s2
<1>7. /\ stream \in Seq(Byte) /\ Len(stream) = ((b + 1) + l) + n
      /\ \A i \in 1..((b + 1) + l) : stream[i] = s2[i]
      /\ \A i \in 1..n : stream[((b + 1) + l) + i] = message[i]
  <2>1. Joins(Byte, stream, s2, message)
    BY <1>1, <1>6, Joined, Zenon
  <2> HIDE DEF stream
  <2> QED BY <1>6, <2>1, Zenon DEF Joins, n
<1> HIDE DEF stream, c
<1>8. rest \in Seq(Byte) /\ Len(rest) \in Nat /\ c <= Len(stream) + Len(rest)
  <2>1. Len(stream) \in Nat /\ 254 \in Byte /\ 0 \in Byte
    BY <1>7 DEF Byte
  <2> DEFINE k == c - Len(stream)
  <2>2. k \in Int /\ c = Len(stream) + k
    BY <1>1, <2>1
  <2>3. rest = [i \in 1..k |-> IF i = 1 THEN 254 ELSE 0]
    OBVIOUS
  <2> HIDE DEF k, rest
  <2>4. CASE k \in Nat
    <3>1. rest \in Seq(Byte) /\ Len(rest) = k
      BY <2>1, <2>3, <2>4
    <3> QED BY <2>1, <2>2, <2>4, <3>1
  <2>5. CASE k \notin Nat
    <3>1. 1..k = {} /\ k <= 0
      BY <2>2, <2>5
    <3>2. rest = <<>>
      BY <2>3, <3>1
    <3> QED BY <2>1, <2>2, <3>1, <3>2
  <2> QED BY <2>4, <2>5
<1> HIDE DEF rest
<1>9. /\ memory \in Seq(Byte) /\ Len(memory) = Len(stream) + Len(rest)
      /\ \A i \in 1..Len(stream) : memory[i] = stream[i]
  <2>1. Joins(Byte, memory, stream, rest)
    BY <1>7, <1>8, Joined, Zenon
  <2> HIDE DEF memory
  <2> QED BY <2>1, Zenon DEF Joins
<1> HIDE DEF memory
<1>10. /\ l \in Nat /\ 1 <= l /\ Len(stream) \in Nat
       /\ b + 1 + l + n = ((b + 1) + l) + n /\ Len(stream) <= Len(memory)
       /\ c <= Len(memory)
  BY <1>1, <1>3, <1>7, <1>8, <1>9
<1>11. ASSUME NEW i \in 1..b PROVE memory[i] = before[i]
  <2>1. i \in 1..(b + 1) /\ i \in 1..((b + 1) + l) /\ i \in 1..Len(stream)
    BY <1>1, <1>7, <1>10
  <2> QED BY <1>5, <1>6, <1>7, <1>9, <2>1
<1>12. memory[b + 1] = 3
  <2>1. b + 1 \in 1..(b + 1) /\ b + 1 \in 1..((b + 1) + l) /\ b + 1 \in 1..Len(stream)
    BY <1>1, <1>7, <1>10
  <2> QED BY <1>5, <1>6, <1>7, <1>9, <2>1
<1>13. ASSUME NEW i \in 1..l PROVE memory[b + 1 + i] = size[i]
  <2>1. b + 1 + i \in 1..((b + 1) + l) /\ b + 1 + i \in 1..Len(stream)
    BY <1>1, <1>7, <1>10
  <2> QED BY <1>6, <1>7, <1>9, <2>1
<1>14. ASSUME NEW i \in 1..n PROVE memory[b + 1 + l + i] = message[i]
  <2>1. b + 1 + l + i \in 1..Len(stream) /\ b + 1 + l + i = ((b + 1) + l) + i
    BY <1>1, <1>7, <1>10
  <2> QED BY <1>7, <1>9, <2>1
<1>15. /\ n < 255 => memory[b + 2] = n
       /\ n >= 255 => /\ memory[b + 2] = 255 /\ memory[b + 3] = n \div 256
                      /\ memory[b + 4] = n % 256
  <2>1. b + 1 + 1 = b + 2 /\ b + 1 + 2 = b + 3 /\ b + 1 + 3 = b + 4
    BY <1>1
  <2>2. 1 \in 1..l /\ (l = 3 => 2 \in 1..l /\ 3 \in 1..l)
    BY <1>10
  <2>3. memory[b + 2] = size[1]
    BY <1>13, <2>1, <2>2, Zenon
  <2>4. l = 3 => memory[b + 3] = size[2] /\ memory[b + 4] = size[3]
    BY <1>13, <2>1, <2>2, Zenon
  <2> QED BY <1>3, <2>3, <2>4
<1>16. l = Len(LengthField(n)) /\ l = IF n < 255 THEN 1 ELSE 3
  BY <1>3 DEF l, size
<1>17. Len(stream) = b + 1 + l + n
  BY <1>7, <1>10
<1>18. Sizes(t, memory, b, n, l)
  BY <1>1, <1>2, <1>9, <1>10, <1>16, <1>17 DEF Sizes, before, message, b, n, c
<1>19. Header(memory, b, n)
  BY <1>12, <1>15 DEF Header
<1>20. LaidOut(t, memory, b, n, l)
  BY <1>11, <1>14, <1>18, <1>19 DEF LaidOut, before, message
<1> QED BY <1>2, <1>16, <1>20 DEF before, message, b, n

-----------------------------------------------------------------------------
(* The parser on a tag *)

Parsed(state, length, data) == [state |-> state, length |-> length, data |-> data]

Going(parser) == [parser |-> parser, returned |-> FALSE]
Returned(parser) == [parser |-> parser, returned |-> TRUE]

(* A byte of the value is collected, and the parser returns if it was the  *)
(* last one.                                                               *)
Collects(byte) ==
    \A n \in Nat, data \in Seq(Byte) :
        TakeByte(Going(Parsed("Value", n, data)), byte)
            = IF Len(Append(data, byte)) = n
              THEN Returned(Parsed("Value", n, Append(data, byte)))
              ELSE Going(Parsed("Value", n, Append(data, byte)))

-----------------------------------------------------------------------------
(* The text records *)

(* The bytes before the ID of a text record, one by one.                   *)
SizeLength(f) == IF f.short THEN 1 ELSE 4
IdSize(f) == IF f.hasId THEN 1 ELSE 0

SizeAt(m, f) ==
    IF f.short THEN m[3] = f.payload
    ELSE /\ m[3] = 0 /\ m[4] = 0
         /\ m[5] = f.payload \div 256 /\ m[6] = f.payload % 256

LeadIs(m, f, s, k) ==
    /\ 3 + s + k <= Len(m) /\ m[2] = 1 /\ m[3 + s + k] = 84
    /\ SizeAt(m, f)
    /\ f.hasId => m[3 + s] = f.id

(* A message starts with the bytes that the format asks of a text record   *)
(* with these fields if they are there one by one.                         *)
LEMMA LeadBytes ==
    ASSUME NEW m \in Seq(Byte), m # <<>>, NEW f \in Fields(m)
    PROVE  /\ Len(Lead(m, f)) = 3 + SizeLength(f) + IdSize(f)
           /\ StartsWith(m, Lead(m, f)) <=> LeadIs(m, f, SizeLength(f), IdSize(f))
<1> DEFINE x == <<m[1], 1>>
           size == SizeField(f)
           id == IF f.hasId THEN <<f.id>> ELSE <<>>
           end == <<84>>
           y == x \o size
           z == y \o id
           lead == z \o end
           p == f.payload
           s == Len(size)
           k == Len(id)
<1>1. /\ Len(m) \in Nat \ {0} /\ m[1] \in Int /\ m \in Seq(Int)
      /\ f.short \in BOOLEAN /\ f.hasId \in BOOLEAN /\ p \in Nat /\ f.id \in Int
  <2>1. Len(m) \in Nat \ {0}
    BY EmptySeq
  <2>2. \A i \in 1..Len(m) : m[i] \in Int
    BY Bytes
  <2>3. m[1] \in Int /\ m \in Seq(Int)
    BY <2>1, <2>2
  <2>4. /\ f.short \in BOOLEAN /\ f.hasId \in BOOLEAN /\ p \in 0..Len(m)
        /\ f.id \in {0} \union Range(m)
    BY DEF Fields
  <2>5. f.id \in Int
    BY <2>2, <2>4 DEF Range
  <2> QED BY <2>1, <2>3, <2>4, <2>5
<1>2. /\ x \in Seq(Int) /\ Len(x) = 2 /\ x[1] = m[1] /\ x[2] = 1
      /\ end \in Seq(Int) /\ Len(end) = 1 /\ end[1] = 84
  BY <1>1
<1>3. /\ size \in Seq(Int) /\ s \in Nat
      /\ f.short => s = 1 /\ size[1] = p
      /\ ~f.short => /\ s = 4 /\ size[1] = 0 /\ size[2] = 0
                     /\ size[3] = p \div 256 /\ size[4] = p % 256
  <2>1. CASE f.short
    <3>1. size = <<p>>
      BY <2>1 DEF SizeField
    <3> HIDE DEF size, p
    <3> QED BY <1>1, <2>1, <3>1
  <2>2. CASE ~f.short
    <3> DEFINE high == p \div 256
               low == p % 256
    <3>1. size = <<0, 0, high, low>> /\ high \in Int /\ low \in Int
      BY <1>1, <2>2 DEF SizeField
    <3> HIDE DEF size, high, low
    <3>2. /\ size \in Seq(Int) /\ s = 4 /\ size[1] = 0 /\ size[2] = 0
          /\ size[3] = high /\ size[4] = low
      BY <3>1
    <3> QED BY <2>2, <3>2 DEF high, low
  <2> QED BY <2>1, <2>2
<1>4. /\ id \in Seq(Int) /\ k \in Nat
      /\ f.hasId => k = 1 /\ id[1] = f.id
      /\ ~f.hasId => k = 0
  <2>1. CASE f.hasId
    <3>1. id = <<f.id>>
      BY <2>1
    <3> HIDE DEF id
    <3> QED BY <1>1, <2>1, <3>1
  <2>2. CASE ~f.hasId
    <3>1. id = <<>>
      BY <2>2
    <3> HIDE DEF id
    <3> QED BY <2>2, <3>1
  <2> QED BY <2>1, <2>2
<1> HIDE DEF x, size, id, end
<1>5. Lead(m, f) = lead
  BY DEF Lead, x, size, id, end
<1>6. Joins(Int, y, x, size)
  BY <1>2, <1>3, Joined, Zenon
<1> HIDE DEF y
<1>7. Joins(Int, z, y, id)
  <2>1. y \in Seq(Int)
    BY <1>6 DEF Joins
  <2> QED BY <1>4, <2>1, Joined, Zenon
<1> HIDE DEF z
<1>8. Joins(Int, lead, z, end)
  <2>1. z \in Seq(Int)
    BY <1>7 DEF Joins
  <2> QED BY <1>2, <2>1, Joined, Zenon
<1> HIDE DEF lead
<1>9. /\ lead \in Seq(Int) /\ Len(lead) = 3 + s + k /\ Len(z) = 2 + s + k
      /\ Len(y) = 2 + s
  <2>1. /\ Len(y) = Len(x) + s /\ Len(z) = Len(y) + k
        /\ Len(lead) = Len(z) + Len(end) /\ lead \in Seq(Int)
    BY <1>6, <1>7, <1>8, Zenon DEF Joins
  <2> QED BY <1>2, <1>3, <1>4, <2>1
<1> HIDE DEF s, k, p
<1>10. /\ \A i \in 1..(2 + s + k) : lead[i] = z[i]
       /\ \A i \in 1..1 : lead[(2 + s + k) + i] = end[i]
  BY <1>2, <1>8, <1>9, Zenon DEF Joins
<1>11. /\ \A i \in 1..(2 + s) : z[i] = y[i]
       /\ \A i \in 1..k : z[(2 + s) + i] = id[i]
  BY <1>7, <1>9, Zenon DEF Joins, k
<1>12. /\ \A i \in 1..2 : y[i] = x[i]
       /\ \A i \in 1..s : y[2 + i] = size[i]
  BY <1>2, <1>6, Zenon DEF Joins, s
<1>13. lead[1] = m[1] /\ lead[2] = 1 /\ lead[3 + s + k] = 84
  <2>1. /\ 1 \in 1..(2 + s + k) /\ 1 \in 1..(2 + s) /\ 1 \in 1..2
        /\ 2 \in 1..(2 + s + k) /\ 2 \in 1..(2 + s) /\ 2 \in 1..2
        /\ 1 \in 1..1 /\ (2 + s + k) + 1 = 3 + s + k
    BY <1>3, <1>4
  <2> QED BY <1>2, <1>10, <1>11, <1>12, <2>1
<1>14. ASSUME NEW i \in 1..s PROVE lead[2 + i] = size[i]
  <2>1. 2 + i \in 1..(2 + s + k) /\ 2 + i \in 1..(2 + s)
    BY <1>3, <1>4
  <2> QED BY <1>10, <1>11, <1>12, <2>1
<1>15. ASSUME NEW i \in 1..k PROVE lead[(2 + s) + i] = id[i]
  <2>1. (2 + s) + i \in 1..(2 + s + k)
    BY <1>3, <1>4
  <2> QED BY <1>10, <1>11, <2>1
<1>16. StartsWith(m, lead) <=>
          /\ 3 + s + k <= Len(m) /\ m[2] = 1 /\ m[3 + s + k] = 84
          /\ \A i \in 1..s : m[2 + i] = size[i]
          /\ \A i \in 1..k : m[(2 + s) + i] = id[i]
  <2>1. StartsWith(m, lead) <=> /\ 3 + s + k <= Len(m)
                                /\ \A i \in 1..(3 + s + k) : m[i] = lead[i]
    <3>1. StartsWith(m, lead) <=> /\ Len(lead) <= Len(m)
                                  /\ \A i \in 1..Len(lead) : m[i] = lead[i]
      BY DEF StartsWith
    <3> QED BY <1>9, <3>1, Zenon
  <2>2. ASSUME \A i \in 1..(3 + s + k) : m[i] = lead[i]
        PROVE  /\ m[2] = 1 /\ m[3 + s + k] = 84
               /\ \A i \in 1..s : m[2 + i] = size[i]
               /\ \A i \in 1..k : m[(2 + s) + i] = id[i]
    <3>1. s \in Nat /\ k \in Nat
      BY <1>3, <1>4
    <3>2. m[2] = 1 /\ m[3 + s + k] = 84
      BY <1>13, <2>2, <3>1
    <3>3. \A i \in 1..s : m[2 + i] = size[i]
      BY <1>14, <2>2, <3>1
    <3>4. \A i \in 1..k : m[(2 + s) + i] = id[i]
      BY <1>15, <2>2, <3>1
    <3> QED BY <3>2, <3>3, <3>4
  <2>3. ASSUME m[2] = 1, m[3 + s + k] = 84,
               \A i \in 1..s : m[2 + i] = size[i],
               \A i \in 1..k : m[(2 + s) + i] = id[i],
               NEW i \in 1..(3 + s + k)
        PROVE  m[i] = lead[i]
    <3>1. CASE i \in 1..2 \/ i = 3 + s + k
      BY <1>13, <2>3, <3>1
    <3>2. CASE i \in 3..(2 + s)
      <4>1. i - 2 \in 1..s /\ 2 + (i - 2) = i
        BY <1>3, <3>2
      <4> QED BY <1>14, <2>3, <4>1
    <3>3. CASE i \in (3 + s)..(2 + s + k)
      <4>1. i - (2 + s) \in 1..k /\ (2 + s) + (i - (2 + s)) = i
        BY <1>3, <1>4, <3>3
      <4> QED BY <1>15, <2>3, <4>1
    <3>4. \/ i \in 1..2 \/ i = 3 + s + k \/ i \in 3..(2 + s)
          \/ i \in (3 + s)..(2 + s + k)
      <4>1. s \in Nat /\ k \in Nat
        BY <1>3, <1>4
      <4> HIDE DEF s, k
      <4> QED BY <4>1
    <3> QED BY <3>1, <3>2, <3>3, <3>4
  <2> QED BY <2>1, <2>2, <2>3
<1>17. s = SizeLength(f) /\ k = IdSize(f)
  BY <1>1, <1>3, <1>4 DEF SizeLength, IdSize
<1>18. (\A i \in 1..s : m[2 + i] = size[i]) <=> SizeAt(m, f)
  <2>1. CASE f.short
    <3>1. s = 1 /\ size[1] = f.payload
      BY <1>3, <2>1 DEF p
    <3>2. (\A i \in 1..s : m[2 + i] = size[i]) <=> m[3] = size[1]
      BY <3>1
    <3> QED BY <2>1, <3>1, <3>2 DEF SizeAt
  <2>2. CASE ~f.short
    <3>1. /\ s = 4 /\ size[1] = 0 /\ size[2] = 0
          /\ size[3] = f.payload \div 256 /\ size[4] = f.payload % 256
      BY <1>3, <2>2 DEF p
    <3>2. \A i : i \in 1..4 <=> i \in {1, 2, 3, 4}
      OBVIOUS
    <3>3. (\A i \in 1..4 : m[2 + i] = size[i]) <=>
             m[3] = size[1] /\ m[4] = size[2] /\ m[5] = size[3] /\ m[6] = size[4]
      BY <3>2
    <3> QED BY <2>2, <3>1, <3>3 DEF SizeAt
  <2> QED BY <2>1, <2>2
<1>19. (\A i \in 1..k : m[(2 + s) + i] = id[i]) <=> (f.hasId => m[3 + s] = f.id)
  <2>1. CASE f.hasId
    <3>1. s \in Nat /\ k = 1 /\ id[1] = f.id /\ (2 + s) + 1 = 3 + s
      BY <1>3, <1>4, <2>1
    <3>2. (\A i \in 1..k : m[(2 + s) + i] = id[i]) <=> m[(2 + s) + 1] = id[1]
      BY <3>1
    <3> QED BY <2>1, <3>1, <3>2, Zenon
  <2>2. CASE ~f.hasId
    <3>1. 1..k = {}
      BY <1>4, <2>2
    <3> QED BY <2>2, <3>1
  <2> QED BY <2>1, <2>2
<1>20. Len(lead) = 3 + s + k /\ (StartsWith(m, lead) <=> LeadIs(m, f, s, k))
  BY <1>9, <1>16, <1>18, <1>19 DEF LeadIs
<1> QED BY <1>5, <1>17, <1>20, Zenon

SizeIn16Bits(m) == Len(m) < 65536

(* parse_ndef_text_record takes a message for a text record exactly if its *)
(* fields can be laid out as one, in one way, and finds its payload.       *)
LEMMA Records ==
    ASSUME NEW m \in Seq(Byte), SizeIn16Bits(m)
    PROVE  /\ \A f \in Fields(m) : m # <<>> /\ Fits(m, f) =>
                 ParseTextRecord(m) = Ok(Payload(m, f)) /\ Payload(m, f) \in Seq(Byte)
           /\ IsOk(ParseTextRecord(m)) =>
                 m # <<>> /\ \E f \in Fields(m) : Fits(m, f)
(* A length in four bytes that is below 2^16 is in the last two of them.   *)
<1>FourBytes.
      \A b : (/\ b[1] \in Nat /\ b[2] \in Nat /\ b[3] \in Nat
              /\ b[4] \in Nat /\ b[4] <= 255)
                => /\ BigEndian(b) \in Nat
                   /\ BigEndian(b) < 65536 =>
                         /\ b[1] = 0 /\ b[2] = 0
                         /\ b[3] = BigEndian(b) \div 256 /\ b[4] = BigEndian(b) % 256
  <2>1. ASSUME NEW b, b[1] \in Nat, b[2] \in Nat, b[3] \in Nat, b[4] \in Nat, b[4] <= 255
        PROVE  /\ BigEndian(b) \in Nat
               /\ BigEndian(b) < 65536 =>
                     /\ b[1] = 0 /\ b[2] = 0
                     /\ b[3] = BigEndian(b) \div 256 /\ b[4] = BigEndian(b) % 256
    <3> DEFINE w == b[1]
               x == b[2]
               y == b[3]
               z == b[4]
               n == BigEndian(b)
               big == 2^24
    <3>1. w \in Nat /\ x \in Nat /\ y \in Nat /\ z \in Nat /\ z <= 255
      BY <2>1
    <3>2. /\ big \in Nat /\ big >= 65536
          /\ n = IF w > 0 THEN big ELSE 65536 * x + 256 * y + z
      BY DEF BigEndian
    <3> HIDE DEF w, x, y, z, n, big
    <3>3. n \in Nat
      BY <3>1, <3>2
    <3>4. ASSUME n < 65536 PROVE w = 0 /\ x = 0 /\ y = n \div 256 /\ z = n % 256
      <4>1. w = 0
        BY <3>1, <3>2, <3>4
      <4>2. n = 65536 * x + 256 * y + z
        BY <3>2, <4>1
      <4>3. x = 0
        BY <3>1, <3>4, <4>2
      <4>4. n = 256 * y + z
        BY <3>1, <4>2, <4>3
      <4> QED BY <3>1, <4>1, <4>3, <4>4
    <3> QED BY <3>3, <3>4 DEF w, x, y, z, n
  <2> QED BY <2>1

<1>1. ASSUME m = <<>> PROVE ~IsOk(ParseTextRecord(m))
  BY <1>1, Results DEF ParseTextRecord
<1> SUFFICES ASSUME m # <<>>
             PROVE  /\ \A f \in Fields(m) : Fits(m, f) =>
                          /\ ParseTextRecord(m) = Ok(Payload(m, f))
                          /\ Payload(m, f) \in Seq(Byte)
                    /\ IsOk(ParseTextRecord(m)) => \E f \in Fields(m) : Fits(m, f)
  BY <1>1
<1> DEFINE flags == m[1]
           short == HasBit(flags, 16)
           hasId == HasBit(flags, 8)
           chunked == HasBit(flags, 32)
           wellKnown == flags % 8 = 1
           s == IF short THEN 1 ELSE 4
           k == IF hasId THEN 1 ELSE 0
           hl == 2 + s + k
           tl == m[2]
           b == SubSeq(m, 3, 6)
           pl == IF short THEN m[3] ELSE BigEndian(b)
           il == IF hasId THEN m[3 + s] ELSE 0
           ix == hl + tl + il
           typ == SubSeq(m, hl + 1, hl + tl)
           r == ParseTextRecord(m)
<1>2. r = IF chunked THEN Err("Chunked")
          ELSE IF Len(m) < hl \/ Len(m) < ix + pl THEN Err("Truncated")
          ELSE IF ~wellKnown THEN Err("NotWellKnown")
          ELSE IF typ # <<84>> THEN Err("NotTextRecord")
          ELSE Ok(SubSeq(m, ix + 1, ix + pl))
  BY DEF ParseTextRecord
<1>3. /\ s \in {1, 4} /\ k \in {0, 1} /\ s \in Nat /\ k \in Nat /\ hl = 2 + s + k
      /\ (short => s = 1) /\ (~short => s = 4) /\ (hasId => k = 1) /\ (~hasId => k = 0)
  OBVIOUS
<1>4. Len(m) \in Nat /\ \A i \in 1..Len(m) : m[i] \in Int /\ 0 <= m[i] /\ m[i] <= 255
  BY Bytes
<1>5. ASSUME 6 <= Len(m)
      PROVE  /\ b[1] = m[3] /\ b[2] = m[4] /\ b[3] = m[5] /\ b[4] = m[6]
  BY <1>4, <1>5
<1>6. ASSUME NEW i \in Nat, i + 1 <= Len(m)
      PROVE  SubSeq(m, i + 1, i + 1) = <<m[i + 1]>>
  <2> DEFINE u == SubSeq(m, i + 1, i + 1)
  <2>1. u \in Seq(Byte) /\ Len(u) = 1 /\ u[1] = m[i + 1]
    BY <1>4, <1>6
  <2> HIDE DEF u
  <2>2. u = <<m[i + 1]>>
    BY <2>1
  <2> QED BY <2>2 DEF u
<1> HIDE DEF short, hasId, chunked, wellKnown, s, k, hl, tl, b, r, typ, ix, il, pl
<1>7. ASSUME NEW f \in Fields(m), Fits(m, f)
      PROVE  r = Ok(Payload(m, f)) /\ Payload(m, f) \in Seq(Byte)
  <2>1. /\ f.short \in BOOLEAN /\ f.hasId \in BOOLEAN /\ f.payload \in Nat
        /\ f.short = short /\ f.hasId = hasId /\ (f.hasId \/ f.id = 0)
        /\ ~chunked /\ wellKnown
    BY <1>7 DEF Fields, Fits, short, hasId, chunked, wellKnown
  <2>2. SizeLength(f) = s /\ IdSize(f) = k
    BY <2>1 DEF SizeLength, IdSize, s, k
  <2>3. /\ Len(Lead(m, f)) = 3 + s + k /\ StartsWith(m, Lead(m, f))
        /\ StartsWith(m, Lead(m, f)) <=> LeadIs(m, f, s, k)
    BY <1>7, <2>2, LeadBytes DEF Fits
  <2>4. /\ Len(m) >= 3 + s + k + f.id + f.payload
        /\ Payload(m, f) = SubSeq(m, 3 + s + k + f.id + 1, 3 + s + k + f.id + f.payload)
    BY <1>7, <2>3 DEF Fits, Payload
  <2>5. /\ 3 + s + k <= Len(m) /\ tl = 1 /\ m[3 + s + k] = 84
        /\ SizeAt(m, f) /\ (f.hasId => m[3 + s] = f.id)
    BY <2>3 DEF LeadIs, tl
  <2>6. pl = f.payload
    <3>1. CASE f.short
      BY <2>1, <2>5, <3>1 DEF SizeAt, pl
    <3>2. CASE ~f.short
      <4>1. /\ m[3] = 0 /\ m[4] = 0 /\ m[5] = f.payload \div 256
            /\ m[6] = f.payload % 256 /\ 6 <= Len(m) /\ ~short
        BY <1>3, <1>4, <2>1, <2>5, <3>2 DEF SizeAt
      <4>2. BigEndian(b) = f.payload
        <5> DEFINE p == f.payload
        <5>1. BigEndian(b) = 65536 * 0 + 256 * (p \div 256) + (p % 256)
          BY <1>5, <4>1 DEF BigEndian
        <5>2. p \in Nat
          BY <2>1
        <5> HIDE DEF p
        <5>3. 65536 * 0 + 256 * (p \div 256) + (p % 256) = p
          BY <5>2
        <5> QED BY <5>1, <5>3 DEF p
      <4> QED BY <4>1, <4>2 DEF pl
    <3> QED BY <2>1, <3>1, <3>2
  <2>7. il = f.id
    BY <2>1, <2>5 DEF il
  <2>8. f.id \in Nat
    <3>1. CASE f.hasId
      <4>1. 3 + s \in 1..Len(m)
        BY <1>3, <1>4, <2>5
      <4> QED BY <1>4, <2>5, <3>1, <4>1
    <3> QED BY <2>1, <3>1
  <2>9. ix = 3 + s + k + f.id /\ hl + 1 = 3 + s + k /\ hl \in Nat
    BY <1>3, <2>5, <2>7, <2>8 DEF ix
  <2>10. typ = <<84>>
    <3>1. hl + 1 <= Len(m) /\ m[hl + 1] = 84 /\ tl = 1
      BY <2>5, <2>9, Zenon
    <3>2. SubSeq(m, hl + 1, hl + 1) = <<m[hl + 1]>>
      BY <1>6, <2>9, <3>1, Zenon
    <3> QED BY <3>1, <3>2, Zenon DEF typ
  <2>11. ~(Len(m) < hl) /\ ~(Len(m) < ix + pl) /\ ix \in Nat /\ pl \in Nat
    <3> DEFINE n == Len(m)
               id == f.id
               p == f.payload
               head == 3 + s + k
    <3>1. /\ n \in Nat /\ id \in Nat /\ p \in Nat /\ hl \in Nat /\ head \in Nat
          /\ pl = p /\ ix = head + id /\ hl + 1 = head
          /\ n >= head + id + p
      BY <1>3, <1>4, <2>1, <2>4, <2>6, <2>8, <2>9
    <3> HIDE DEF n, id, p, head
    <3>2. ~(n < hl) /\ ~(n < ix + pl) /\ ix \in Nat /\ pl \in Nat
      BY <3>1
    <3> QED BY <3>2 DEF n
  <2>12. Payload(m, f) = SubSeq(m, ix + 1, ix + pl)
    BY <2>4, <2>6, <2>9, Zenon
  <2>13. SubSeq(m, ix + 1, ix + pl) \in Seq(Byte)
    <3>1. /\ ix + 1 \in Int /\ ix + pl \in Int
          /\ \A i \in (ix + 1)..(ix + pl) : i \in 1..Len(m)
      BY <1>4, <2>11
    <3>2. \A i \in (ix + 1)..(ix + pl) : m[i] \in Byte
      BY <3>1
    <3> QED BY <3>1, <3>2, SubSeqProperties
  <2> QED BY <1>2, <2>1, <2>10, <2>11, <2>12, <2>13
<1>8. ASSUME IsOk(r) PROVE \E f \in Fields(m) : Fits(m, f)
  <2>1. ~chunked /\ ~(Len(m) < hl) /\ ~(Len(m) < ix + pl) /\ wellKnown /\ typ = <<84>>
    BY <1>2, <1>8, Results
  <2> DEFINE f == [short |-> short, hasId |-> hasId, id |-> il, payload |-> pl]
  <2>2. hl \in Nat /\ 3 <= hl /\ hl <= Len(m) /\ (~short => 6 <= Len(m))
    BY <1>3, <1>4, <2>1
  <2>3. pl \in Nat
    <3>1. CASE short
      <4>1. 3 \in 1..Len(m)
        BY <1>4, <2>2
      <4> QED BY <1>4, <3>1, <4>1 DEF pl
    <3>2. CASE ~short
      <4>1. 3 \in 1..Len(m) /\ 4 \in 1..Len(m) /\ 5 \in 1..Len(m) /\ 6 \in 1..Len(m)
        BY <1>4, <2>2, <3>2
      <4>2. b[1] \in Nat /\ b[2] \in Nat /\ b[3] \in Nat /\ b[4] \in Nat /\ b[4] <= 255
        BY <1>4, <1>5, <2>2, <3>2, <4>1
      <4>3. BigEndian(b) \in Nat
        BY <4>2, <1>FourBytes
      <4> QED BY <3>2, <4>3 DEF pl
    <3> QED BY <3>1, <3>2
  <2>4. il \in Nat /\ il \in {0} \union Range(m)
    <3>1. CASE hasId
      <4>1. 3 + s \in 1..Len(m) /\ il = m[3 + s] /\ DOMAIN m = 1..Len(m)
        BY <1>3, <1>4, <2>2, <3>1 DEF il
      <4> QED BY <1>4, <4>1 DEF Range
    <3>2. CASE ~hasId
      BY <3>2 DEF il
    <3> QED BY <3>1, <3>2
  <2>5. tl = 1 /\ hl + 1 <= Len(m) /\ m[hl + 1] = 84
    <3>1. 2 \in 1..Len(m)
      BY <1>4, <2>2
    <3>2. tl \in Nat
      BY <1>4, <3>1 DEF tl
    <3>3. hl + tl <= Len(m)
      BY <1>4, <2>1, <2>2, <2>3, <2>4, <3>2 DEF ix
    <3>4. Len(typ) = 1 /\ typ[1] = 84
      BY <2>1
    <3>5. tl # 0 => Len(typ) = tl
      BY <1>4, <2>2, <3>2, <3>3 DEF typ
    <3>6. tl = 0 => Len(typ) = 0
      BY <1>4, <2>2 DEF typ
    <3>7. tl = 1
      BY <3>4, <3>5, <3>6
    <3>8. typ = <<m[hl + 1]>>
      BY <1>6, <2>2, <3>3, <3>7 DEF typ
    <3> QED BY <3>3, <3>4, <3>7, <3>8
  <2>6. short \in BOOLEAN /\ hasId \in BOOLEAN
    BY DEF short, hasId, HasBit
  <2>7. pl <= Len(m) /\ hl + 1 + il + pl <= Len(m)
    BY <1>4, <2>1, <2>2, <2>3, <2>4, <2>5 DEF ix
  <2>8. f \in Fields(m)
    BY <1>4, <2>3, <2>4, <2>6, <2>7 DEF Fields
  <2>9. f.short = short /\ f.hasId = hasId /\ f.id = il /\ f.payload = pl
    OBVIOUS
  <2> HIDE DEF f
  <2>10. SizeLength(f) = s /\ IdSize(f) = k
    BY <2>6, <2>9 DEF SizeLength, IdSize, s, k
  <2>11. SizeAt(m, f)
    <3>1. CASE short
      BY <2>9, <3>1 DEF SizeAt, pl
    <3>2. CASE ~short
      <4>1. 3 \in 1..Len(m) /\ 4 \in 1..Len(m) /\ 5 \in 1..Len(m) /\ 6 \in 1..Len(m)
        BY <1>4, <2>2, <3>2
      <4>2. b[1] \in Nat /\ b[2] \in Nat /\ b[3] \in Nat /\ b[4] \in Nat /\ b[4] <= 255
        BY <1>4, <1>5, <2>2, <3>2, <4>1
      <4>3. b[1] = m[3] /\ b[2] = m[4] /\ b[3] = m[5] /\ b[4] = m[6]
        BY <1>5, <2>2, <3>2
      <4>4. pl < 65536
        BY <1>4, <2>3, <2>7 DEF SizeIn16Bits
      <4>5. pl = BigEndian(b)
        BY <3>2 DEF pl
      <4>6. /\ b[1] = 0 /\ b[2] = 0
            /\ b[3] = BigEndian(b) \div 256 /\ b[4] = BigEndian(b) % 256
        BY <4>2, <4>4, <4>5, <1>FourBytes
      <4> QED BY <2>9, <3>2, <4>3, <4>5, <4>6 DEF SizeAt
    <3> QED BY <3>1, <3>2
  <2>12. LeadIs(m, f, s, k)
    <3>1. 3 + s + k = hl + 1
      BY <1>3
    <3>2. f.hasId => m[3 + s] = f.id
      BY <2>9 DEF il
    <3> QED BY <2>5, <2>11, <3>1, <3>2 DEF LeadIs, tl
  <2>13. StartsWith(m, Lead(m, f)) /\ Len(Lead(m, f)) = 3 + s + k
    BY <2>8, <2>10, <2>12, LeadBytes
  <2>14. Fits(m, f)
    <3>1. Len(m) >= Len(Lead(m, f)) + f.id + f.payload
      BY <1>3, <1>4, <2>3, <2>4, <2>7, <2>9, <2>13
    <3>2. f.hasId \/ f.id = 0
      BY <2>9 DEF il
    <3> QED BY <2>1, <2>9, <2>13, <3>1, <3>2
            DEF Fits, short, hasId, chunked, wellKnown
  <2> QED BY <2>8, <2>14
<1> QED BY <1>7, <1>8 DEF r

(* The text that the end of read_ndef_text finds in a complete message is  *)
(* one to read in it, and if the message has one it finds it.              *)
LEMMA TheText ==
    ASSUME NEW m \in Seq(Byte), SizeIn16Bits(m), NEW parser, parser.data = m
    PROVE  /\ IsOk(TextOf(parser)) => TextOf(parser).ok \in Readable(m)
           /\ IsOk(TextOf(parser)) <=> Readable(m) # {}
<1> DEFINE ReadableOf(p) == TextsOf(p) \union TakenForText(p)
<1>1. ASSUME NEW p \in Seq(Byte)
      PROVE  /\ IsOk(Text(p)) => Text(p).ok \in ReadableOf(p)
             /\ ReadableOf(p) # {} => IsOk(Text(p))
  <2>1. CASE p = <<>>
    <3>1. Text(p) = Ok(<<>>) /\ TakenForText(p) = {<<>>}
      BY <2>1 DEF Text, TakenForText
    <3> QED BY <3>1, Results
  <2>2. CASE p # <<>>
    <3> DEFINE n == Len(p)
               c == p[1] % 64
               From(i) == SubSeq(p, i, Len(p))
    <3>1. n \in Nat \ {0} /\ c \in Nat
      <4>1. n \in Nat \ {0}
        BY <2>2, EmptySeq
      <4>2. p[1] \in Int
        BY <4>1, Bytes
      <4> QED BY <4>1, <4>2
    <3>2. ASSUME NEW i \in 2..(n + 1) PROVE Len(From(i)) = n + 1 - i
      <4>1. i \in Int /\ n \in Int /\ \A j \in i..n : p[j] \in Byte
        BY <3>1
      <4>2. Len(From(i)) = IF i <= n THEN n - i + 1 ELSE 0
        BY <4>1, SubSeqProperties
      <4> QED BY <3>1, <4>2
    <3>3. Text(p) = IF n < c + 1 THEN Err("Truncated")
                    ELSE IF ~IsUtf8(From(c + 2)) THEN Err("InvalidUtf8")
                    ELSE Ok(From(c + 2))
      BY <2>2 DEF Text
    <3>4. ReadableOf(p) = {t \in {From(i) : i \in 2..(n + 1)} :
                              IsUtf8(t) /\ n = 1 + c + Len(t)}
      <4>1. p[1] \in Int
        BY <3>1, Bytes
      <4>2. p[1] < 128 \/ p[1] >= 128
        BY <4>1
      <4>3. Contents(p) = {t \in {From(i) : i \in 2..(n + 1)} : n = 1 + c + Len(t)}
        BY DEF Contents
      <4>4. ReadableOf(p) = {t \in Contents(p) : IsUtf8(t)}
        BY <2>2, <4>2 DEF TextsOf, TakenForText
      <4> HIDE DEF n, c, From, ReadableOf
      <4> QED BY <4>3, <4>4
    <3> HIDE DEF n, c, From, ReadableOf
    <3>5. ASSUME IsOk(Text(p)) PROVE Text(p).ok \in ReadableOf(p)
      <4>1. ~(n < c + 1) /\ IsUtf8(From(c + 2)) /\ Text(p) = Ok(From(c + 2))
        BY <3>3, <3>5, Results
      <4>2. c + 2 \in 2..(n + 1)
        BY <3>1, <4>1
      <4>3. Len(From(c + 2)) = n + 1 - (c + 2)
        BY <3>2, <4>2
      <4>4. n = 1 + c + Len(From(c + 2))
        BY <3>1, <4>3
      <4>5. Text(p).ok = From(c + 2)
        BY <4>1, Results
      <4> QED BY <3>4, <4>1, <4>2, <4>4, <4>5
    <3>6. ASSUME NEW t \in ReadableOf(p) PROVE IsOk(Text(p))
      <4>1. PICK i \in 2..(n + 1) : t = From(i)
        BY <3>4
      <4>2. IsUtf8(From(i)) /\ n = 1 + c + Len(From(i))
        BY <3>4, <4>1
      <4>3. i = c + 2 /\ ~(n < c + 1)
        BY <3>1, <3>2, <4>2
      <4> QED BY <3>3, <4>2, <4>3, Results
    <3> QED BY <3>5, <3>6
  <2> QED BY <2>1, <2>2
<1> DEFINE r == ParseTextRecord(m)
<1>2. ASSUME NEW p \in Payloads(m) PROVE r = Ok(p) /\ p \in Seq(Byte)
  <2>1. PICK f \in Fields(m) : m # <<>> /\ Fits(m, f) /\ p = Payload(m, f)
    BY DEF Payloads
  <2> QED BY <2>1, Records
<1>3. ASSUME IsOk(r) PROVE \E p \in Payloads(m) : TRUE
  <2>1. PICK f \in Fields(m) : m # <<>> /\ Fits(m, f)
    BY <1>3, Records
  <2> QED BY <2>1 DEF Payloads
<1>4. TextOf(parser) = IF IsOk(r) THEN Text(r.ok) ELSE r
  BY DEF TextOf
<1> HIDE DEF r, ReadableOf
<1>5. ASSUME NEW p \in Payloads(m)
      PROVE  TextOf(parser) = Text(p) /\ p \in Seq(Byte) /\ ReadableOf(p) \in SUBSET Readable(m)
  <2>1. IsOk(r) /\ r.ok = p /\ p \in Seq(Byte)
    BY <1>2, Results
  <2>2. TextOf(parser) = Text(p)
    BY <1>4, <2>1
  <2>3. TextsOf(p) \in SUBSET Readable(m) /\ TakenForText(p) \in SUBSET Readable(m)
    BY DEF Readable, Texts
  <2> QED BY <2>1, <2>2, <2>3 DEF ReadableOf
<1>6. ASSUME IsOk(TextOf(parser)) PROVE TextOf(parser).ok \in Readable(m)
  <2>1. IsOk(r)
    BY <1>4, <1>6
  <2>2. PICK p \in Payloads(m) : TRUE
    BY <1>3, <2>1
  <2> QED BY <1>1, <1>5, <1>6, <2>2
<1>7. ASSUME NEW t \in Readable(m) PROVE IsOk(TextOf(parser))
  <2>1. PICK p \in Payloads(m) : t \in ReadableOf(p)
    BY DEF Readable, Texts, ReadableOf
  <2> QED BY <1>1, <1>5, <2>1
<1> QED BY <1>6, <1>7

-----------------------------------------------------------------------------
(* Reading a tag *)

(* The parser on a tag with null bytes before its message: it has started  *)
(* from the tag byte on, it returns with the message at its end and never  *)
(* returns if the message is empty, and before that is_done is right       *)
(* except behind the first half of a length of 255.                        *)
Found(M, b, n, size, message) ==
    /\ \A k \in 0..Len(M) : HasStarted(Fed(M, k).parser) <=> k > b
    /\ \A k \in 0..Len(M) : k < size =>
          /\ ~Fed(M, k).returned
          /\ IsDone(Fed(M, k).parser) => n = 255 /\ k = b + 3
    /\ n = 255 => IsDone(Fed(M, b + 3).parser)
    /\ n > 0 => \A k \in size..Len(M) : Fed(M, k) = Returned(Parsed("Value", n, message))
    /\ n = 0 => \A k \in 0..Len(M) : ~Fed(M, k).returned

(* NdefMessageParser finds the message of every such tag.                  *)
LEMMA MessageFound ==
    ASSUME NEW t, NEW M, NEW b, NEW n, NEW l, LaidOut(t, M, b, n, l), OnlyNulls(t)
    PROVE  Found(M, b, n, Len(Stream(t)), t.message)
(* What one byte does, by the state of the parser.                         *)
<1>Taken.
      ASSUME NEW byte \in Int
      PROVE  /\ byte # 3 => TakeByte(Going(Parsed("Init", -1, <<>>)), byte)
                                = Going(Parsed("Init", -1, <<>>))
             /\ byte = 3 => TakeByte(Going(Parsed("Init", -1, <<>>)), byte)
                                = Going(Parsed("Length", -1, <<>>))
             /\ byte # 255 => TakeByte(Going(Parsed("Length", -1, <<>>)), byte)
                                  = Going(Parsed("Value", byte, <<>>))
             /\ byte = 255 => TakeByte(Going(Parsed("Length", -1, <<>>)), byte)
                                  = Going(Parsed("Length", -2, <<>>))
             /\ TakeByte(Going(Parsed("Length", -2, <<>>)), byte)
                   = Going(Parsed("Length", byte, <<>>))
             /\ \A high \in Nat : TakeByte(Going(Parsed("Length", high, <<>>)), byte)
                                   = Going(Parsed("Value", 256 * high + byte, <<>>))
             /\ Collects(byte)
  <2>1. ASSUME NEW parser, parser.state # "Value"
        PROVE  TakeByte(Going(parser), byte) = Going(AddByte(parser, byte))
    BY <2>1 DEF TakeByte, Going
  <2>4. ASSUME NEW p, p = Parsed("Init", -1, <<>>)
        PROVE  AddByte(p, byte) = IF byte = 3 THEN Parsed("Length", -1, <<>>) ELSE p
    <3>1. p.state = "Init"
      BY <2>4 DEF Parsed
    <3>2. byte = 3 => AddByte(p, byte) = [p EXCEPT !.state = "Length"]
      BY <3>1 DEF AddByte
    <3>3. byte # 3 => AddByte(p, byte) = [p EXCEPT !.state = "Init"]
      BY <3>1 DEF AddByte
    <3>4. [p EXCEPT !.state = "Length"] = Parsed("Length", -1, <<>>)
      BY <2>4 DEF Parsed
    <3>5. [p EXCEPT !.state = "Init"] = p
      BY <2>4 DEF Parsed
    <3> QED BY <3>2, <3>3, <3>4, <3>5, Zenon
  <2>5. ASSUME NEW p, p = Parsed("Length", -1, <<>>)
        PROVE  AddByte(p, byte) = IF byte = 255 THEN Parsed("Length", -2, <<>>)
                                  ELSE Parsed("Value", byte, <<>>)
    <3>1. p.state = "Length" /\ p.length = -1
      BY <2>5 DEF Parsed
    <3>2. byte = 255 => AddByte(p, byte) = [p EXCEPT !.length = -2]
      BY <3>1 DEF AddByte
    <3>3. byte # 255 => AddByte(p, byte) = [p EXCEPT !.length = byte, !.state = "Value"]
      BY <3>1 DEF AddByte
    <3>4. [p EXCEPT !.length = byte, !.state = "Value"] = Parsed("Value", byte, <<>>)
      <4> DEFINE q == [p EXCEPT !.length = byte]
      <4>1. q = Parsed("Length", byte, <<>>)
        BY <2>5 DEF Parsed
      <4> HIDE DEF q
      <4>2. [q EXCEPT !.state = "Value"] = Parsed("Value", byte, <<>>)
        BY <4>1 DEF Parsed
      <4> QED BY <4>2 DEF q
    <3>5. [p EXCEPT !.length = -2] = Parsed("Length", -2, <<>>)
      BY <2>5 DEF Parsed
    <3> DEFINE next == AddByte(p, byte)
    <3>6. byte # 255 => next = Parsed("Value", byte, <<>>)
      BY <3>3, <3>4
    <3>7. byte = 255 => next = Parsed("Length", -2, <<>>)
      BY <3>2, <3>5
    <3> QED BY <3>6, <3>7
  <2>6. ASSUME NEW p, p = Parsed("Length", -2, <<>>)
        PROVE  AddByte(p, byte) = Parsed("Length", byte, <<>>)
    <3>1. p.state = "Length" /\ p.length = -2
      BY <2>6 DEF Parsed
    <3>2. AddByte(p, byte) = [p EXCEPT !.length = byte]
      BY <3>1 DEF AddByte
    <3> QED BY <2>6, <3>2 DEF Parsed
  <2>7. ASSUME NEW high \in Nat, NEW p, p = Parsed("Length", high, <<>>)
        PROVE  AddByte(p, byte) = Parsed("Value", 256 * high + byte, <<>>)
    <3>1. p.state = "Length" /\ p.length = high
      BY <2>7 DEF Parsed
    <3> DEFINE x == 256 * high + byte
    <3>2. AddByte(p, byte) = [p EXCEPT !.length = x, !.state = "Value"]
      BY <3>1 DEF AddByte
    <3> HIDE DEF x
    <3>3. [p EXCEPT !.length = x, !.state = "Value"] = Parsed("Value", x, <<>>)
      <4> DEFINE q == [p EXCEPT !.length = x]
      <4>1. q = Parsed("Length", x, <<>>)
        BY <2>7 DEF Parsed
      <4> HIDE DEF q
      <4>2. [q EXCEPT !.state = "Value"] = Parsed("Value", x, <<>>)
        BY <4>1 DEF Parsed
      <4> QED BY <4>2 DEF q
    <3> QED BY <3>2, <3>3 DEF x
  <2>8. ASSUME NEW size \in Nat, NEW data \in Seq(Byte)
        PROVE  TakeByte(Going(Parsed("Value", size, data)), byte)
                  = IF Len(Append(data, byte)) = size
                    THEN Returned(Parsed("Value", size, Append(data, byte)))
                    ELSE Going(Parsed("Value", size, Append(data, byte)))
    <3> DEFINE longer == Append(data, byte)
               p == Parsed("Value", size, data)
               next == Parsed("Value", size, longer)
               acc == Going(p)
    <3>1. p.state = "Value" /\ p.data = data
      BY DEF Parsed
    <3>2. next.length = size /\ next.data = longer
      BY DEF Parsed
    <3>3. ASSUME NEW x PROVE [p EXCEPT !.data = x] = Parsed("Value", size, x)
      BY DEF Parsed
    <3>4. acc.parser = p /\ acc.returned = FALSE
      BY DEF Going
    <3> HIDE DEF p, acc
    <3>5. AddByte(p, byte) = [p EXCEPT !.data = longer]
      BY <3>1 DEF AddByte
    <3>6. AddByte(p, byte) = next
      BY <3>3, <3>5, Zenon
    <3> HIDE DEF longer, next
    <3>7. TakeByte(acc, byte) = [parser |-> next, returned |-> Len(longer) = size]
      <4>1. IsDone(next) <=> Len(longer) = size
        BY <3>2 DEF IsDone
      <4> QED BY <3>1, <3>4, <3>6, <4>1 DEF TakeByte
    <3>8. CASE Len(longer) = size
      BY <3>7, <3>8 DEF Returned, longer, next, acc, p
    <3>9. CASE Len(longer) # size
      BY <3>7, <3>9 DEF Going, longer, next, acc, p
    <3> QED BY <3>8, <3>9
  <2>9. ASSUME NEW state \in {"Init", "Length"}, NEW length
        PROVE  Parsed(state, length, <<>>).state # "Value"
    BY DEF Parsed
  <2> QED
    <3>1. /\ byte # 3 => TakeByte(Going(Parsed("Init", -1, <<>>)), byte)
                                = Going(Parsed("Init", -1, <<>>))
          /\ byte = 3 => TakeByte(Going(Parsed("Init", -1, <<>>)), byte)
                                = Going(Parsed("Length", -1, <<>>))
      BY <2>1, <2>4, <2>9, Zenon
    <3>2. /\ byte # 255 => TakeByte(Going(Parsed("Length", -1, <<>>)), byte)
                                  = Going(Parsed("Value", byte, <<>>))
          /\ byte = 255 => TakeByte(Going(Parsed("Length", -1, <<>>)), byte)
                                  = Going(Parsed("Length", -2, <<>>))
      <4>1. TakeByte(Going(Parsed("Length", -1, <<>>)), byte)
               = Going(AddByte(Parsed("Length", -1, <<>>), byte))
        BY <2>1, <2>9, Zenon
      <4> QED BY <2>5, <4>1
    <3>3. TakeByte(Going(Parsed("Length", -2, <<>>)), byte)
             = Going(Parsed("Length", byte, <<>>))
      BY <2>1, <2>6, <2>9, Zenon
    <3>4. ASSUME NEW high \in Nat
          PROVE  TakeByte(Going(Parsed("Length", high, <<>>)), byte)
                    = Going(Parsed("Value", 256 * high + byte, <<>>))
      <4> DEFINE p == Parsed("Length", high, <<>>)
                 x == 256 * high + byte
      <4>1. AddByte(p, byte) = Parsed("Value", x, <<>>)
        BY <2>7
      <4>2. TakeByte(Going(p), byte) = Going(AddByte(p, byte))
        BY <2>1, <2>9, Zenon
      <4> HIDE DEF p, x
      <4>3. TakeByte(Going(p), byte) = Going(Parsed("Value", x, <<>>))
        BY <4>1, <4>2
      <4> QED BY <4>3 DEF p, x
    <3>5. Collects(byte)
      BY <2>8, Zenon DEF Collects
    <3> QED BY <3>1, <3>2, <3>3, <3>4, <3>5

(* The parser on a tag with null bytes before its message, byte by byte.   *)
<1>MessageFed.
      /\ \A k \in 0..b : Fed(M, k) = Going(Parsed("Init", -1, <<>>))
      /\ Fed(M, b + 1) = Going(Parsed("Length", -1, <<>>))
      /\ n >= 255 => /\ Fed(M, b + 2) = Going(Parsed("Length", -2, <<>>))
                     /\ Fed(M, b + 3) = Going(Parsed("Length", n \div 256, <<>>))
      /\ n > 0 => \A j \in 0..(n - 1) :
            Fed(M, b + 1 + l + j)
               = Going(Parsed("Value", n, SubSeq(t.message, 1, j)))
      /\ n > 0 => Fed(M, b + 1 + l + n) = Returned(Parsed("Value", n, t.message))
      /\ n = 0 => \A j \in 0..(Len(M) - (b + 1 + l)) :
            \E data \in Seq(Byte) :
               Fed(M, b + 1 + l + j) = Going(Parsed("Value", 0, data))
  <2> DEFINE message == t.message
             h == b + 1 + l
  <2>0. /\ M \in Seq(Byte) /\ b \in Nat /\ n \in Nat
        /\ message \in Seq(Byte) /\ Len(message) = n
        /\ l = IF n < 255 THEN 1 ELSE 3
        /\ h + n = Len(Stream(t)) /\ Len(Stream(t)) <= Len(M)
    BY DEF LaidOut, Sizes
  <2> HIDE DEF message, h
  <2>1. /\ M \in Seq(Byte) /\ b \in Nat /\ n \in Nat /\ l \in {1, 3} /\ l \in Nat
        /\ h \in Nat /\ h + n <= Len(M) /\ Len(M) \in Nat
        /\ message \in Seq(Byte) /\ Len(message) = n
    BY <2>0 DEF h
  <2>2. /\ M[b + 1] = 3
        /\ n < 255 => l = 1 /\ M[b + 2] = n
        /\ n >= 255 => /\ l = 3 /\ M[b + 2] = 255
                       /\ M[b + 3] = n \div 256 /\ M[b + 4] = n % 256
        /\ \A i \in 1..n : M[h + i] = message[i]
    <3>1. Header(M, b, n) /\ \A i \in 1..n : M[h + i] = message[i]
      BY DEF LaidOut, h, message
    <3> QED BY <2>0, <3>1 DEF Header
  <2>3. \A k \in Nat : k + 1 <= Len(M) =>
           /\ Fed(M, k + 1) = TakeByte(Fed(M, k), M[k + 1])
           /\ M[k + 1] \in Int /\ M[k + 1] \in Byte
    <3> SUFFICES ASSUME NEW k \in Nat, k + 1 <= Len(M)
                 PROVE  /\ Fed(M, k + 1) = TakeByte(Fed(M, k), M[k + 1])
                        /\ M[k + 1] \in Int /\ M[k + 1] \in Byte
      OBVIOUS
    <3>1. k + 1 \in 1..Len(M) /\ (k + 1) - 1 = k
      BY <2>1
    <3>2. Fed(M, k + 1) = TakeByte(Fed(M, (k + 1) - 1), M[k + 1])
      BY <2>1, <3>1, FeedSteps DEF Fed
    <3>3. M[k + 1] \in Byte
      BY <2>1, <3>1
    <3> QED BY <3>1, <3>2, <3>3, Bytes
  <2>4. \A k \in 0..b : Fed(M, k) = Going(Parsed("Init", -1, <<>>))
    <3> DEFINE T == {k \in 0..b : Fed(M, k) = Going(Parsed("Init", -1, <<>>))}
    <3>0. \A i \in 1..b : M[i] = 0
      <4>1. t.before \in Seq(Byte) /\ Len(t.before) = b /\ \A i \in 1..b : M[i] = t.before[i]
        BY DEF LaidOut, Sizes
      <4>2. DOMAIN t.before = 1..b
        BY <4>1
      <4> QED BY <4>1, <4>2 DEF OnlyNulls
    <3>1. 0 \in T
      <4>1. Fed(M, 0) = Going(Parsed("Init", -1, <<>>))
        BY <2>1, FeedSteps DEF Fed, Going, Parsed, NewParser
      <4> QED BY <2>1, <4>1
    <3>2. ASSUME NEW k \in 1..b, k - 1 \in T PROVE k \in T
      <4>1. /\ k - 1 \in Nat /\ (k - 1) + 1 = k /\ k \in 0..b
            /\ k <= Len(M)
        BY <2>1 DEF h
      <4>2. /\ Fed(M, k) = TakeByte(Fed(M, k - 1), M[k])
            /\ M[k] \in Int /\ M[k] = 0 /\ M[k] # 3
        BY <2>3, <3>0, <4>1
      <4>3. Fed(M, k - 1) = Going(Parsed("Init", -1, <<>>))
        BY <3>2
      <4> HIDE DEF T
      <4>4. Fed(M, k) = Going(Parsed("Init", -1, <<>>))
        BY <4>2, <4>3, <1>Taken
      <4> QED BY <4>1, <4>4 DEF T
    <3>3. \A k \in 0..b : k \in T
      <4> HIDE DEF T
      <4> QED BY <2>1, <3>1, <3>2, UpTo
    <3> QED BY <3>3
  <2>5. Fed(M, b + 1) = Going(Parsed("Length", -1, <<>>))
    <3>1. b \in 0..b /\ b + 1 <= Len(M)
      BY <2>1 DEF h
    <3>2. /\ Fed(M, b + 1) = TakeByte(Fed(M, b), M[b + 1])
          /\ M[b + 1] \in Int
      BY <2>1, <2>3, <3>1
    <3>3. Fed(M, b) = Going(Parsed("Init", -1, <<>>))
      BY <2>4, <3>1
    <3> QED BY <2>2, <3>2, <3>3, <1>Taken
  <2>6. ASSUME n < 255 PROVE Fed(M, h) = Going(Parsed("Value", n, <<>>))
    <3>1. /\ (b + 1) + 1 = b + 2 /\ b + 2 = h /\ b + 2 <= Len(M) /\ b + 1 \in Nat
          /\ M[b + 2] = n /\ n # 255
      BY <2>1, <2>2, <2>6 DEF h
    <3>2. Fed(M, b + 2) = TakeByte(Fed(M, b + 1), M[b + 2]) /\ M[b + 2] \in Int
      BY <2>3, <3>1
    <3>3. Fed(M, b + 2) = Going(Parsed("Value", n, <<>>))
      BY <2>5, <3>1, <3>2, <1>Taken
    <3> QED BY <3>1, <3>3
  <2>7. ASSUME n >= 255
        PROVE  /\ Fed(M, b + 2) = Going(Parsed("Length", -2, <<>>))
               /\ Fed(M, b + 3) = Going(Parsed("Length", n \div 256, <<>>))
               /\ Fed(M, h) = Going(Parsed("Value", n, <<>>))
    <3> DEFINE high == n \div 256
               low == n % 256
    <3>1. /\ high \in Nat /\ 256 * high + low = n
          /\ M[b + 2] = 255 /\ M[b + 3] = high /\ M[b + 4] = low /\ l = 3
      BY <2>1, <2>2, <2>7
    <3> HIDE DEF high, low
    <3>2. /\ (b + 1) + 1 = b + 2 /\ b + 2 <= Len(M) /\ b + 1 \in Nat
          /\ (b + 2) + 1 = b + 3 /\ b + 3 <= Len(M) /\ b + 2 \in Nat
          /\ (b + 3) + 1 = b + 4 /\ b + 4 <= Len(M) /\ b + 3 \in Nat
          /\ b + 4 = h
      BY <2>1, <3>1 DEF h
    <3>3. Fed(M, b + 2) = Going(Parsed("Length", -2, <<>>))
      <4>1. Fed(M, b + 2) = TakeByte(Fed(M, b + 1), M[b + 2]) /\ M[b + 2] \in Int
        BY <2>3, <3>2
      <4> QED BY <2>5, <3>1, <4>1, <1>Taken
    <3>4. Fed(M, b + 3) = Going(Parsed("Length", high, <<>>))
      <4>1. Fed(M, b + 3) = TakeByte(Fed(M, b + 2), M[b + 3]) /\ M[b + 3] \in Int
        BY <2>3, <3>2
      <4> QED BY <3>1, <3>3, <4>1, <1>Taken
    <3>5. Fed(M, b + 4) = Going(Parsed("Value", n, <<>>))
      <4>1. Fed(M, b + 4) = TakeByte(Fed(M, b + 3), M[b + 4]) /\ M[b + 4] \in Int
        BY <2>3, <3>2
      <4>2. Fed(M, b + 4) = Going(Parsed("Value", 256 * high + low, <<>>))
        BY <3>1, <3>4, <4>1, <1>Taken
      <4> QED BY <3>1, <4>2
    <3> QED BY <3>2, <3>3, <3>4, <3>5 DEF high
  <2>8. Fed(M, h) = Going(Parsed("Value", n, <<>>))
    BY <2>1, <2>6, <2>7
  <2>9. ASSUME NEW byte \in Int, NEW data \in Seq(Byte)
         PROVE  TakeByte(Going(Parsed("Value", n, data)), byte)
                   = IF Len(Append(data, byte)) = n
                     THEN Returned(Parsed("Value", n, Append(data, byte)))
                     ELSE Going(Parsed("Value", n, Append(data, byte)))
    <3>1. Collects(byte)
      BY <1>Taken
    <3>2. n \in Nat
      BY <2>1
    <3> QED BY <3>1, <3>2, Zenon DEF Collects
  <2>10. ASSUME n > 0
        PROVE  /\ \A j \in 0..(n - 1) :
                     Fed(M, h + j) = Going(Parsed("Value", n, SubSeq(message, 1, j)))
               /\ Fed(M, h + n) = Returned(Parsed("Value", n, message))
    <3> DEFINE Upto(j) == SubSeq(message, 1, j)
               T == {j \in 0..(n - 1) : Fed(M, h + j) = Going(Parsed("Value", n, Upto(j)))}
    <3>1. ASSUME NEW j \in 1..n
          PROVE  /\ Upto(j) = Append(Upto(j - 1), message[j])
                 /\ Upto(j - 1) \in Seq(Byte) /\ Len(Upto(j)) = j
      <4>1. \A i \in 1..n : message[i] \in Byte
        BY <2>1
      <4>2. \A m \in Int : 0 <= m /\ m <= n => Upto(m) \in Seq(Byte) /\ Len(Upto(m)) = m
        BY <2>1, <4>1, SubSeqProperties
      <4>3. /\ j \in Int /\ 0 <= j /\ j <= n
            /\ j - 1 \in Int /\ 0 <= j - 1 /\ j - 1 <= n
        BY <2>1
      <4>4. Upto(j) = Append(Upto(j - 1), message[j])
        BY <2>1
      <4> QED BY <4>2, <4>3, <4>4
    <3>2. 0 \in T
      <4>1. Upto(0) = <<>>
        BY <2>1
      <4>2. h + 0 = h /\ 0 \in 0..(n - 1)
        BY <2>1, <2>10
      <4> HIDE DEF Upto
      <4> QED BY <2>8, <4>1, <4>2
    <3> HIDE DEF Upto
    <3>3. ASSUME NEW j \in 1..n, j - 1 \in T
          PROVE  Fed(M, h + j) = IF j = n THEN Returned(Parsed("Value", n, Upto(j)))
                                 ELSE Going(Parsed("Value", n, Upto(j)))
      <4>1. /\ h + (j - 1) \in Nat /\ (h + (j - 1)) + 1 = h + j /\ h + j <= Len(M)
        BY <2>1
      <4>2. /\ Fed(M, h + j) = TakeByte(Fed(M, h + (j - 1)), M[h + j])
            /\ M[h + j] \in Int /\ M[h + j] = message[j]
        BY <2>2, <2>3, <4>1
      <4>3. Fed(M, h + (j - 1)) = Going(Parsed("Value", n, Upto(j - 1)))
        BY <3>3
      <4> HIDE DEF T
      <4>4. Fed(M, h + j) = IF Len(Append(Upto(j - 1), message[j])) = n
                            THEN Returned(Parsed("Value", n, Append(Upto(j - 1), message[j])))
                            ELSE Going(Parsed("Value", n, Append(Upto(j - 1), message[j])))
        <5> DEFINE byte == M[h + j]
                   data == Upto(j - 1)
        <5>1. byte \in Int /\ byte = message[j] /\ data \in Seq(Byte)
          BY <3>1, <4>2
        <5>2. Fed(M, h + j) = TakeByte(Going(Parsed("Value", n, data)), byte)
          BY <4>2, <4>3
        <5> HIDE DEF byte, data
        <5>3. Fed(M, h + j) = IF Len(Append(data, byte)) = n
                              THEN Returned(Parsed("Value", n, Append(data, byte)))
                              ELSE Going(Parsed("Value", n, Append(data, byte)))
          BY <2>9, <5>1, <5>2, Zenon
        <5> QED BY <5>1, <5>3, Zenon DEF data
      <4> QED BY <3>1, <4>4
    <3>4. \A j \in 0..(n - 1) : j \in T
      <4>1. n - 1 \in Nat
        BY <2>1, <2>10
      <4>2. ASSUME NEW j \in 1..(n - 1), j - 1 \in T PROVE j \in T
        <5>1. j \in 1..n /\ j # n /\ j \in 0..(n - 1)
          BY <2>1
        <5> QED BY <3>3, <4>2, <5>1
      <4> HIDE DEF T
      <4> QED BY <3>2, <4>1, <4>2, UpTo
    <3>5. Fed(M, h + n) = Returned(Parsed("Value", n, message))
      <4>1. n \in 1..n /\ n - 1 \in 0..(n - 1)
        BY <2>1, <2>10
      <4>2. Upto(n) = message
        BY <2>1 DEF Upto
      <4> QED BY <3>3, <3>4, <4>1, <4>2
    <3> QED BY <3>4, <3>5 DEF Upto
  <2>11. ASSUME n = 0
         PROVE  \A j \in 0..(Len(M) - h) : \E data \in Seq(Byte) :
                   Fed(M, h + j) = Going(Parsed("Value", 0, data))
    <3> DEFINE rest == Len(M) - h
               T == {j \in 0..rest : \E data \in Seq(Byte) :
                        Fed(M, h + j) = Going(Parsed("Value", 0, data))}
    <3>1. rest \in Nat /\ 0 \in T
      <4>1. h + 0 = h /\ rest \in Nat /\ 0 \in 0..rest /\ <<>> \in Seq(Byte)
        BY <2>1
      <4>2. Fed(M, h + 0) = Going(Parsed("Value", 0, <<>>))
        BY <2>8, <2>11, <4>1, Zenon
      <4> HIDE DEF rest
      <4> QED BY <4>1, <4>2, Zenon
    <3>2. ASSUME NEW j \in 1..rest, j - 1 \in T PROVE j \in T
      <4>1. /\ h + (j - 1) \in Nat /\ (h + (j - 1)) + 1 = h + j /\ h + j <= Len(M)
        BY <2>1
      <4>2. /\ Fed(M, h + j) = TakeByte(Fed(M, h + (j - 1)), M[h + j])
            /\ M[h + j] \in Int /\ M[h + j] \in Byte
        BY <2>3, <4>1
      <4>3. PICK data \in Seq(Byte) : Fed(M, h + (j - 1)) = Going(Parsed("Value", 0, data))
        BY <3>2
      <4> DEFINE longer == Append(data, M[h + j])
      <4>4. longer \in Seq(Byte) /\ Len(longer) # 0
        BY <4>2, AppendProperties
      <4> HIDE DEF T
      <4>5. Fed(M, h + j) = TakeByte(Going(Parsed("Value", n, data)), M[h + j])
        BY <2>11, <4>2, <4>3
      <4>6. Fed(M, h + j) = IF Len(longer) = n
                            THEN Returned(Parsed("Value", n, longer))
                            ELSE Going(Parsed("Value", n, longer))
        BY <2>9, <4>2, <4>5, Zenon
      <4> HIDE DEF longer
      <4>7. Fed(M, h + j) = Going(Parsed("Value", 0, longer))
        BY <2>11, <4>4, <4>6, Zenon
      <4> QED BY <4>4, <4>7 DEF T
    <3>3. \A j \in 0..rest : j \in T
      <4> HIDE DEF T, rest
      <4> QED BY <3>1, <3>2, UpTo
    <3> QED BY <3>3
  <2> QED BY <2>4, <2>5, <2>7, <2>10, <2>11 DEF h, message

<1> DEFINE message == t.message
           size == Len(Stream(t))
           h == b + 1 + l
<1>1. /\ M \in Seq(Byte) /\ b \in Nat /\ n \in Nat
      /\ message \in Seq(Byte) /\ Len(message) = n
      /\ l = IF n < 255 THEN 1 ELSE 3
      /\ size = h + n /\ size <= Len(M)
  BY DEF LaidOut, Sizes
<1>2. /\ \A k \in 0..b : Fed(M, k) = Going(Parsed("Init", -1, <<>>))
      /\ Fed(M, b + 1) = Going(Parsed("Length", -1, <<>>))
  BY <1>MessageFed
<1>3. n >= 255 => /\ Fed(M, b + 2) = Going(Parsed("Length", -2, <<>>))
                  /\ Fed(M, b + 3) = Going(Parsed("Length", n \div 256, <<>>))
  BY <1>MessageFed
<1>4. n > 0 => /\ \A j \in 0..(n - 1) :
                     Fed(M, h + j) = Going(Parsed("Value", n, SubSeq(message, 1, j)))
               /\ Fed(M, h + n) = Returned(Parsed("Value", n, message))
  BY <1>MessageFed
<1>5. n = 0 => \A j \in 0..(Len(M) - h) : \E data \in Seq(Byte) :
                  Fed(M, h + j) = Going(Parsed("Value", 0, data))
  BY <1>MessageFed
<1> HIDE DEF message, size, h
<1>6. ASSUME NEW state, NEW length, NEW data, NEW acc,
             acc = Going(Parsed(state, length, data))
      PROVE  /\ ~acc.returned /\ (HasStarted(acc.parser) <=> state # "Init")
             /\ IsDone(acc.parser) <=> Len(data) = length
  <2>1. acc.parser = Parsed(state, length, data) /\ acc.returned = FALSE
    BY <1>6 DEF Going
  <2>2. /\ Parsed(state, length, data).state = state
        /\ Parsed(state, length, data).length = length
        /\ Parsed(state, length, data).data = data
    BY DEF Parsed
  <2> QED BY <2>1, <2>2 DEF HasStarted, IsDone
<1>7. /\ l \in {1, 3} /\ l \in Nat /\ h = b + 1 + l /\ h \in Nat /\ size \in Nat
      /\ Len(M) \in Nat /\ (n < 255 => l = 1) /\ (n >= 255 => l = 3) /\ Len(<<>>) = 0
  BY <1>1 DEF h
<1>8. ASSUME n > 0, NEW k \in size..Len(M)
      PROVE  Fed(M, k) = Returned(Parsed("Value", n, message))
  <2>1. Fed(M, size) = Returned(Parsed("Value", n, message))
    BY <1>1, <1>4, <1>8
  <2>2. Fed(M, size).returned
    BY <2>1 DEF Returned
  <2>3. Fed(M, k) = Fed(M, size)
    BY <1>1, <1>7, <2>2, FeedStops DEF Fed
  <2> QED BY <2>1, <2>3
<1>9. ASSUME NEW k \in 0..Len(M), k < size
      PROVE  /\ ~Fed(M, k).returned
             /\ HasStarted(Fed(M, k).parser) <=> k > b
             /\ IsDone(Fed(M, k).parser) => n = 255 /\ k = b + 3
  <2>1. CASE k <= b
    <3>1. Fed(M, k) = Going(Parsed("Init", -1, <<>>))
      BY <1>1, <1>2, <2>1
    <3>2. ~Fed(M, k).returned /\ ~HasStarted(Fed(M, k).parser) /\ ~IsDone(Fed(M, k).parser)
      BY <1>6, <1>7, <3>1
    <3> QED BY <1>1, <2>1, <3>2
  <2>2. CASE k = b + 1
    <3>1. Fed(M, k) = Going(Parsed("Length", -1, <<>>))
      BY <1>2, <2>2
    <3>2. ~Fed(M, k).returned /\ HasStarted(Fed(M, k).parser) /\ ~IsDone(Fed(M, k).parser)
      BY <1>6, <1>7, <3>1
    <3> QED BY <1>1, <2>2, <3>2
  <2>3. CASE n >= 255 /\ k = b + 2
    <3>1. Fed(M, k) = Going(Parsed("Length", -2, <<>>))
      BY <1>3, <2>3
    <3>2. ~Fed(M, k).returned /\ HasStarted(Fed(M, k).parser) /\ ~IsDone(Fed(M, k).parser)
      BY <1>6, <1>7, <3>1
    <3> QED BY <1>1, <2>3, <3>2
  <2>4. CASE n >= 255 /\ k = b + 3
    <3>1. Fed(M, k) = Going(Parsed("Length", n \div 256, <<>>))
      BY <1>3, <2>4
    <3>2. /\ ~Fed(M, k).returned /\ HasStarted(Fed(M, k).parser)
          /\ IsDone(Fed(M, k).parser) => n \div 256 = 0
      BY <1>6, <1>7, <3>1
    <3>3. n \div 256 = 0 => n = 255
      BY <1>1, <2>4
    <3> QED BY <1>1, <2>4, <3>2, <3>3
  <2>5. CASE k >= h
    <3> DEFINE j == k - h
    <3>1. n > 0 /\ j \in 0..(n - 1) /\ k = h + j /\ j \in Nat /\ j < n
      BY <1>1, <1>7, <1>9, <2>5
    <3> HIDE DEF j
    <3>2. Fed(M, k) = Going(Parsed("Value", n, SubSeq(message, 1, j)))
      BY <1>4, <3>1
    <3> DEFINE part == SubSeq(message, 1, j)
    <3>3. Len(part) # n
      <4>1. Len(part) = j
        BY <1>1, <3>1
      <4> QED BY <1>1, <3>1, <4>1
    <3> HIDE DEF part
    <3>4. ~Fed(M, k).returned /\ HasStarted(Fed(M, k).parser) /\ ~IsDone(Fed(M, k).parser)
      <4>1. Fed(M, k) = Going(Parsed("Value", n, part))
        BY <3>2 DEF part
      <4> QED BY <1>6, <3>3, <4>1
    <3>5. k > b
      BY <1>1, <1>7, <2>5
    <3> QED BY <3>4, <3>5
  <2> QED BY <1>1, <1>7, <2>1, <2>2, <2>3, <2>4, <2>5
<1>10. ASSUME n = 0, NEW k \in 0..Len(M)
       PROVE  ~Fed(M, k).returned /\ (k >= size => HasStarted(Fed(M, k).parser))
  <2>1. CASE k < size
    BY <1>7, <1>9, <2>1
  <2>2. CASE k >= size
    <3> DEFINE j == k - h
    <3>1. j \in 0..(Len(M) - h) /\ k = h + j
      BY <1>1, <1>7, <1>10, <2>2
    <3> HIDE DEF j
    <3>2. PICK data \in Seq(Byte) : Fed(M, k) = Going(Parsed("Value", 0, data))
      BY <1>5, <1>10, <3>1
    <3> QED BY <1>6, <3>2
  <2> QED BY <1>7, <2>1, <2>2
<1>11. ASSUME NEW k \in 0..Len(M) PROVE HasStarted(Fed(M, k).parser) <=> k > b
  <2>1. CASE k < size
    BY <1>9, <2>1
  <2>2. CASE k >= size
    <3>1. k > b
      BY <1>1, <1>7, <2>2
    <3>2. CASE n > 0
      <4>1. Fed(M, k) = Returned(Parsed("Value", n, message))
        BY <1>7, <1>8, <2>2, <3>2
      <4> QED BY <3>1, <4>1 DEF Returned, Parsed, HasStarted
    <3>3. CASE n = 0
      BY <1>10, <2>2, <3>1, <3>3
    <3> QED BY <1>1, <3>2, <3>3
  <2> QED BY <1>7, <2>1, <2>2
<1>12. n = 255 => IsDone(Fed(M, b + 3).parser)
  <2> SUFFICES ASSUME n = 255 PROVE IsDone(Fed(M, b + 3).parser)
    OBVIOUS
  <2>1. n >= 255 /\ n \div 256 = 0
    OBVIOUS
  <2>2. Fed(M, b + 3) = Going(Parsed("Length", 0, <<>>))
    BY <1>3, <2>1
  <2> QED BY <1>6, <1>7, <2>2
<1> QED BY <1>8, <1>9, <1>10, <1>11, <1>12 DEF Found, message, size

(* What the loop has seen when it reads block `quad`: no complete message, *)
(* and the start of one in the first two blocks.                           *)
SoFar(M, quad) ==
    /\ \A r \in 1..(quad - 1) : ~IsDone(Fed(M, 16 * r).parser)
    /\ quad > 2 => HasStarted(Fed(M, 32).parser)

(* How the loop can end there.                                             *)
EndsWith(parser, quad, total, result) ==
    \/ IsDone(parser) /\ result = TextOf(parser)
    \/ ~IsDone(parser) /\ quad = 2 /\ ~HasStarted(parser) /\ ~IsOk(result)
    \/ ~IsDone(parser) /\ quad = total /\ ~IsOk(result)

Right(t, result) ==
    /\ IsOk(result) => result.ok \in Readable(t.message)
    /\ IsOk(result) <=> /\ Readable(t.message) # {} /\ InReach(t)
                        /\ ~LengthSplitAtZero(t)

(* The inductive invariant of reading a tag.                               *)
ReadInv ==
    /\ tag \in Tags /\ reading.at \in {"capability", "blocks", "finished"}
    /\ Reads(Memory(tag), tag.capability)
    /\ reading.at = "blocks" => SoFar(Memory(tag), reading.quad)
    /\ reading.at = "finished" /\ OnlyNulls(tag) => Right(tag, reading.result)

(* ReadInv is an invariant.                                                *)
LEMMA ReadAlways == Spec => []ReadInv
(* Whatever way the loop ends, its result is right.                        *)
<1>RightResult.
      ASSUME NEW t \in Tags, OnlyNulls(t), NEW M, M = Memory(t),
             NEW quad \in 1..TotalQuads(t.capability), SoFar(M, quad), NEW result,
             EndsWith(Fed(M, 16 * quad).parser, quad, TotalQuads(t.capability), result)
      PROVE  Right(t, result)
  <2> USE <1>RightResult
  <2> DEFINE message == t.message
             b == Len(t.before)
             n == Len(message)
             l == Len(LengthField(n))
             size == Len(Stream(t))
             total == TotalQuads(t.capability)
             acc == Fed(M, 16 * quad)
  <2>1. LaidOut(t, M, b, n, l)
    BY Layout
  <2>2. /\ M \in Seq(Byte) /\ b \in Nat /\ n \in Nat
        /\ message \in Seq(Byte) /\ l = IF n < 255 THEN 1 ELSE 3
        /\ size = b + 1 + l + n /\ size <= Len(M) /\ 8 * t.capability <= Len(M)
    BY <2>1 DEF LaidOut, Sizes
  <2>3. SizeIn16Bits(message)
    BY TagAssumption DEF SizeIn16Bits
  <2>4. /\ total \in Nat /\ quad \in 1..total /\ 16 * total <= 8 * t.capability
        /\ t.capability \in Int
    <3>1. t.capability \in Byte
      BY TagAssumption
    <3> QED BY <3>1, Quads, Bytes
  <2>5. Found(M, b, n, size, message)
    BY <2>1, MessageFound
  <2>6. /\ InReach(t) <=> b < 32 /\ size <= 16 * total
        /\ LengthSplitAtZero(t) <=> n = 255 /\ (b + 3) % 16 = 0
    BY BlockAssumption DEF InReach, LengthSplitAtZero
  <2> HIDE DEF message, b, n, l, size, total
  <2>7. /\ 16 * quad \in 0..Len(M) /\ Len(M) \in Nat /\ size \in Nat /\ size > b + 1
        /\ quad \in Nat /\ 1 <= quad /\ quad <= total
    BY <2>2, <2>4
  <2>8. \A k \in 0..Len(M) : Shape(Fed(M, k))
    <3>1. Shape([parser |-> NewParser, returned |-> FALSE])
      BY DEF Shape, NewParser, Parser, IsDone
    <3> QED BY <2>2, <3>1, FeedShape DEF Fed
  <2>9. n = 0 => Readable(message) = {}
    <3> SUFFICES ASSUME n = 0 PROVE Readable(message) = {}
      OBVIOUS
    <3>1. message = <<>>
      BY <2>2, EmptySeq DEF n
    <3>2. Payloads(message) = {}
      BY <3>1 DEF Payloads
    <3> QED BY <3>2 DEF Readable, Texts
  <2>10. ASSUME InReach(t), Readable(message) # {}, ~IsDone(acc.parser) PROVE size > 16 * quad
    <3>1. n > 0
      BY <2>2, <2>9, <2>10
    <3>2. ASSUME size <= 16 * quad PROVE FALSE
      <4>1. 16 * quad \in size..Len(M)
        BY <2>7, <3>2
      <4>2. acc = Returned(Parsed("Value", n, message))
        BY <2>5, <3>1, <4>1, Zenon DEF Found
      <4> HIDE DEF acc
      <4>3. IsDone(acc.parser)
        BY <4>2 DEF Returned, Parsed, IsDone, n
      <4> QED BY <2>10, <4>3
    <3> QED BY <2>7, <3>2
  <2> HIDE DEF acc
  <2>11. CASE IsDone(acc.parser) /\ result = TextOf(acc.parser)
    <3>1. CASE n > 0 /\ size <= 16 * quad
      <4>1. 16 * quad \in size..Len(M)
        BY <2>7, <3>1
      <4>2. acc = Returned(Parsed("Value", n, message))
        BY <2>5, <3>1, <4>1 DEF Found, acc
      <4>3. acc.parser.data = message
        BY <4>2 DEF Returned, Parsed
      <4>4. /\ IsOk(result) => result.ok \in Readable(message)
            /\ IsOk(result) <=> Readable(message) # {}
        BY <2>2, <2>3, <2>11, <4>3, TheText
      <4>5. b < 32
        <5> SUFFICES ASSUME b >= 32 PROVE FALSE
          BY <2>2
        <5>1. quad > 2 /\ 32 \in 0..Len(M) /\ ~(32 > b)
          BY <2>2, <2>7, <3>1
        <5>2. HasStarted(Fed(M, 32).parser)
          BY <5>1 DEF SoFar
        <5> QED BY <2>5, <5>1, <5>2 DEF Found
      <4>6. ~(n = 255 /\ (b + 3) % 16 = 0)
        <5> SUFFICES ASSUME n = 255, (b + 3) % 16 = 0 PROVE FALSE
          OBVIOUS
        <5> DEFINE r == (b + 3) \div 16
        <5>1. r \in Nat /\ 16 * r = b + 3
          BY <2>2
        <5> HIDE DEF r
        <5>2. b + 3 < size
          BY <2>2
        <5>3. r \in 1..(quad - 1)
          BY <2>2, <2>7, <3>1, <5>1, <5>2
        <5>4. ~IsDone(Fed(M, b + 3).parser)
          BY <5>1, <5>3 DEF SoFar
        <5> QED BY <2>5, <5>4 DEF Found
      <4>7. size <= 16 * total
        BY <2>2, <2>4, <2>7, <3>1
      <4> QED BY <2>6, <4>4, <4>5, <4>6, <4>7 DEF Right, message
    <3>2. CASE size > 16 * quad
      <4>1. ~acc.returned /\ n = 255 /\ 16 * quad = b + 3
        BY <2>5, <2>7, <2>11, <3>2 DEF Found, acc
      <4>2. ~IsOk(result)
        BY <2>7, <2>8, <2>11, <4>1, Results DEF acc
      <4>3. (b + 3) % 16 = 0
        BY <2>2, <2>7, <4>1
      <4> QED BY <2>6, <4>1, <4>2, <4>3 DEF Right
    <3>3. CASE n = 0
      <4>1. ~acc.returned
        BY <2>5, <2>7, <3>3 DEF Found, acc
      <4>2. ~IsOk(result)
        BY <2>7, <2>8, <2>11, <4>1, Results DEF acc
      <4> QED BY <2>9, <3>3, <4>2 DEF Right, message
    <3> QED BY <2>2, <2>7, <3>1, <3>2, <3>3
  <2>12. CASE quad = 2 /\ ~HasStarted(acc.parser) /\ ~IsOk(result)
    <3>1. ~(b < 32)
      <4>1. 16 * quad = 32 /\ 32 \in 0..Len(M)
        BY <2>7, <2>12
      <4>2. ~HasStarted(Fed(M, 32).parser)
        BY <2>12, <4>1 DEF acc
      <4> QED BY <2>2, <2>5, <4>1, <4>2 DEF Found
    <3> QED BY <2>6, <2>12, <3>1 DEF Right
  <2>13. CASE ~IsDone(acc.parser) /\ quad = total /\ ~IsOk(result)
    <3>1. ~(InReach(t) /\ Readable(message) # {})
      <4> SUFFICES ASSUME InReach(t), Readable(message) # {} PROVE FALSE
        OBVIOUS
      <4>1. size > 16 * quad
        BY <2>10, <2>13
      <4>2. size <= 16 * total
        BY <2>6
      <4> QED BY <2>4, <2>7, <2>13, <4>1, <4>2
    <3> QED BY <2>13, <3>1 DEF Right, message
  <2> QED BY <2>11, <2>12, <2>13 DEF EndsWith, acc, total

<1>1. Init => ReadInv
  BY DEF Init, ReadInv, Reads
<1>2. ASSUME ReadInv, [Next]_textVars PROVE ReadInv'
  <2>1. PICK t : t = tag
    OBVIOUS
  <2>2. PICK M : M = Memory(t)
    OBVIOUS
  <2>3. PICK c : c = t.capability
    OBVIOUS
  <2>4. /\ t \in Tags /\ Reads(M, c)
        /\ reading.at = "blocks" => SoFar(M, reading.quad)
    BY <1>2, <2>1, <2>2, <2>3 DEF ReadInv
  <2>5. /\ M \in Seq(Byte) /\ 8 * c <= Len(M) /\ Len(Stream(t)) > 0 /\ c \in Byte
    <3>1. PICK b, n, l : LaidOut(t, M, b, n, l)
      BY <2>2, <2>4, Layout
    <3>2. /\ M \in Seq(Byte) /\ 8 * c <= Len(M) /\ b \in Nat /\ n \in Nat
          /\ l = IF n < 255 THEN 1 ELSE 3
          /\ Len(Stream(t)) = b + 1 + l + n
      BY <2>3, <3>1 DEF LaidOut, Sizes
    <3>3. c \in Byte
      BY <2>3, <2>4, TagAssumption
    <3> QED BY <3>2, <3>3
  <2>6. /\ ReadCapability(c) => Reads(M, c)'
        /\ reading.at = "blocks" =>
              /\ 16 * reading.quad <= Len(M) /\ reading.quad \in Nat \ {0}
              /\ AddData(reading.parser, BlockOf(M, reading.quad))
                    = Fed(M, 16 * reading.quad).parser
              /\ ReadBlock(BlockOf(M, reading.quad)) => Reads(M, c)'
    BY <2>4, <2>5, ReadSteps
  <2>7. ASSUME tag' = t, Reads(M, c)', reading'.at \in {"capability", "blocks", "finished"},
               reading'.at = "blocks" => SoFar(M, reading'.quad),
               reading'.at = "finished" /\ OnlyNulls(t) => Right(t, reading'.result)
        PROVE  ReadInv'
    BY <2>2, <2>3, <2>4, <2>7 DEF ReadInv, Reads
  <2>8. CASE ReadCapability(tag.capability) /\ UNCHANGED tag
    <3>1. ReadCapability(c) /\ tag' = t /\ Reads(M, c)'
      BY <2>1, <2>3, <2>6, <2>8
    <3>2. CASE TotalQuads(c) = 0
      <4>1. reading' = [at |-> "finished", result |-> Err("Incomplete")]
        BY <3>1, <3>2 DEF ReadCapability, Finished
      <4>2. ~InReach(t)
        BY <2>3, <2>5, <3>2, BlockAssumption DEF InReach
      <4>3. Right(t, Err("Incomplete"))
        BY <4>2, Results DEF Right
      <4> QED BY <2>7, <3>1, <4>1, <4>3
    <3>3. CASE TotalQuads(c) # 0
      <4>1. reading'.at = "blocks" /\ reading'.quad = 1
        BY <3>1, <3>3 DEF ReadCapability
      <4>2. SoFar(M, 1)
        BY DEF SoFar
      <4> QED BY <2>7, <3>1, <4>1, <4>2
    <3> QED BY <3>2, <3>3
  <2>9. CASE /\ reading.at = "blocks" /\ ReadBlock(BlockOf(Memory(tag), reading.quad))
             /\ UNCHANGED tag
    <3> DEFINE q == reading.quad
               total == TotalQuads(c)
               p == Fed(M, 16 * q).parser
    <3>1. /\ ReadBlock(BlockOf(M, q)) /\ tag' = t /\ Reads(M, c)'
          /\ AddData(reading.parser, BlockOf(M, q)) = p /\ SoFar(M, q)
      BY <2>1, <2>2, <2>4, <2>6, <2>9
    <3>2. q \in 1..total /\ reading.total = total
      BY <2>4, <2>9 DEF Reads
    <3>3. reading' = IF IsDone(p) THEN Finished(TextOf(p))
                     ELSE IF q = 2 /\ ~HasStarted(p) THEN Finished(Err("NoMessage"))
                     ELSE IF q = total THEN Finished(Err("Incomplete"))
                     ELSE [reading EXCEPT !.quad = q + 1, !.parser = p]
      BY <3>1, <3>2 DEF ReadBlock
    <3> HIDE DEF p
    <3>4. CASE \E result : reading' = Finished(result) /\ EndsWith(p, q, total, result)
      <4>1. PICK result : reading' = Finished(result) /\ EndsWith(p, q, total, result)
        BY <3>4
      <4>2. PICK k : k = q
        OBVIOUS
      <4>3. OnlyNulls(t) => Right(t, result)
        BY <2>2, <2>3, <2>4, <3>1, <3>2, <4>1, <1>RightResult DEF p
      <4>4. reading'.at = "finished" /\ reading'.result = result
        BY <4>1 DEF Finished
      <4> QED BY <2>7, <3>1, <4>3, <4>4
    <3>5. CASE /\ ~IsDone(p) /\ ~(q = 2 /\ ~HasStarted(p)) /\ q # total
      <4>1. reading' = [reading EXCEPT !.quad = q + 1, !.parser = p]
        BY <3>3, <3>5
      <4>2. reading'.at = "blocks" /\ reading'.quad = q + 1
        BY <2>4, <2>9, <4>1 DEF Reads
      <4> HIDE DEF q
      <4>3. q \in Nat /\ q >= 1
        BY <2>6, <2>9 DEF q
      <4>4. ASSUME NEW r \in 1..((q + 1) - 1) PROVE ~IsDone(Fed(M, 16 * r).parser)
        <5>1. r \in 1..(q - 1) \/ r = q
          BY <4>3
        <5> QED BY <3>1, <3>5, <5>1 DEF SoFar, p
      <4>5. q + 1 > 2 => HasStarted(Fed(M, 32).parser)
        <5>1. q + 1 > 2 => q = 2 \/ q > 2
          BY <4>3
        <5>2. q = 2 => HasStarted(Fed(M, 32).parser)
          BY <3>5 DEF p
        <5> QED BY <3>1, <5>1, <5>2 DEF SoFar
      <4>6. SoFar(M, q + 1)
        BY <4>4, <4>5 DEF SoFar
      <4> QED BY <2>7, <3>1, <4>2, <4>6
    <3>6. \/ \E result : reading' = Finished(result) /\ EndsWith(p, q, total, result)
          \/ ~IsDone(p) /\ ~(q = 2 /\ ~HasStarted(p)) /\ q # total
      BY <3>3, Results, Zenon DEF EndsWith
    <3> QED BY <3>4, <3>5, <3>6
  <2>10. CASE UNCHANGED textVars
    BY <1>2, <2>10 DEF textVars, ReadInv, Reads
  <2> QED BY <1>2, <2>8, <2>9, <2>10 DEF Next
<1> QED BY <1>1, <1>2, PTL DEF Spec

(* Whatever is on the tag, the parser keeps to the states that its code    *)
(* expects: its length is one of the two marks or fits 16 bits, and it     *)
(* never collects past the length it has read.                             *)
THEOREM TagTypeCorrect == Spec => []TypeOK
<1>1. ReadInv => TypeOK
  <2> SUFFICES ASSUME ReadInv, reading.at = "blocks"
               PROVE  /\ reading.quad \in 1..reading.total /\ reading.total \in Byte
                      /\ reading.parser.state \in {"Init", "Length", "Value"}
                      /\ reading.parser.length \in Int
                      /\ -2 <= reading.parser.length /\ reading.parser.length <= 65535
                      /\ reading.parser.length > 0 =>
                            Len(reading.parser.data) < reading.parser.length
    BY DEF TypeOK
  <2> DEFINE M == Memory(tag)
             total == TotalQuads(tag.capability)
             k == 16 * (reading.quad - 1)
             acc == Fed(M, k)
             p == reading.parser
  <2>1. /\ tag \in Tags /\ reading.total = total /\ reading.quad \in 1..total
        /\ acc = [parser |-> p, returned |-> FALSE]
    BY DEF ReadInv, Reads
  <2>2. /\ M \in Seq(Byte) /\ 8 * tag.capability <= Len(M) /\ tag.capability \in Byte
    <3>1. PICK b, n, l : LaidOut(tag, M, b, n, l)
      BY <2>1, Layout
    <3>2. tag.capability \in Byte
      BY <2>1, TagAssumption
    <3> QED BY <3>1, <3>2 DEF LaidOut, Sizes
  <2>3. total \in Nat /\ total <= 63 /\ 16 * total <= Len(M) /\ Len(M) \in Nat
    BY <2>2, Quads, Bytes
  <2> HIDE DEF M, total
  <2>4. k \in 0..Len(M)
    BY <2>1, <2>3
  <2> HIDE DEF k
  <2>5. Shape(acc)
    <3>1. Shape([parser |-> NewParser, returned |-> FALSE])
      BY DEF Shape, NewParser, Parser, IsDone
    <3> QED BY <2>2, <2>4, <3>1, FeedShape DEF Fed
  <2> HIDE DEF acc
  <2>6. acc.parser = p /\ ~acc.returned
    BY <2>1
  <2>7. /\ p \in Parser
        /\ p.state = "Init" => p.length = -1
        /\ p.state = "Length" => -2 <= p.length /\ p.length <= 255
        /\ p.state = "Value" => 0 <= p.length /\ p.length <= 65535
        /\ p.length > 0 => Len(p.data) < p.length
    BY <2>5, <2>6 DEF Shape
  <2> DEFINE n == p.length
  <2>8. n \in Int /\ p.state \in {"Init", "Length", "Value"}
    BY <2>7 DEF Parser
  <2>9. -2 <= n /\ n <= 65535 /\ n \in Int
    BY <2>7, <2>8
  <2>10. total \in Byte
    BY <2>3 DEF Byte
  <2> QED BY <2>1, <2>7, <2>8, <2>9, <2>10
<1> QED BY <1>1, ReadAlways, PTL

(* The clamp in read_ndef_text does what its comment says: no block        *)
(* address leaves the u8 that mf_read takes, and no block lies behind the  *)
(* memory that the capability container announces.                         *)
THEOREM AddressesInRange == Spec => []AddressInRange
<1>1. ReadInv => AddressInRange
  <2> SUFFICES ASSUME ReadInv, reading.at = "blocks" PROVE AddressInRange
    BY DEF AddressInRange
  <2> DEFINE total == TotalQuads(tag.capability)
             quad == reading.quad
             room == 8 * tag.capability
  <2>1. tag.capability \in Byte /\ quad \in 1..total
    BY TagAssumption DEF ReadInv, Reads
  <2>2. total \in Nat /\ total <= 63 /\ 16 * total <= room /\ room \in Int
    BY <2>1, Quads, Bytes
  <2> HIDE DEF total, quad, room
  <2>3. 4 * quad \in Byte /\ 16 * quad <= room
    BY <2>1, <2>2 DEF Byte
  <2> QED BY <2>3, BlockAssumption DEF AddressInRange, quad, room
<1> QED BY <1>1, ReadAlways, PTL

(* On every tag with nothing but null bytes before its message, of any     *)
(* size and with any message, read_ndef_text returns the text of the       *)
(* message if and only if the message is a text record in reach whose      *)
(* length is not split at its zero byte.                                   *)
THEOREM ReadsTheText == Spec => []ReadsExactlyTheText
<1>1. ReadInv => ReadsExactlyTheText
  BY DEF ReadInv, ReadsExactlyTheText, Right
<1> QED BY <1>1, ReadAlways, PTL
=============================================================================
