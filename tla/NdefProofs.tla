----------------------------- MODULE NdefProofs -----------------------------
(***************************************************************************)
(* What the parser of NDEF messages does with any sequence of bytes, and   *)
(* how reading a tag block by block adds up.                               *)
(***************************************************************************)
EXTENDS TagRead, SequenceTheorems, WellFoundedInduction, TLAPS

(* Induction up to n, on sets: the provers cannot instantiate a theorem    *)
(* that has a predicate for a parameter.                                   *)
LEMMA UpTo ==
    ASSUME NEW n \in Nat, NEW T, 0 \in T,
           \A i \in 1..n : i - 1 \in T => i \in T
    PROVE  \A i \in 0..n : i \in T
<1> DEFINE Less == {pair \in Nat \X Nat : pair[1] < pair[2]}
           Out == {i \in 0..n : i \notin T}
<1>1. IsWellFoundedOn(Less, Nat)
  BY NatLessThanWellFounded DEF OpToRel
<1>2. ASSUME Out # {} PROVE FALSE
  <2> HIDE DEF Less
  <2>1. Out \in SUBSET Nat
    OBVIOUS
  <2> HIDE DEF Out
  <2>2. PICK i \in Out : \A j \in Out : <<j, i>> \notin Less
    BY <1>1, <1>2, <2>1, WFMin
  <2>3. i \in 1..n /\ i - 1 \in 0..n /\ i - 1 \notin T
    BY <2>2 DEF Out
  <2>4. i - 1 \in Out /\ <<i - 1, i>> \in Less
    BY <2>3 DEF Out, Less
  <2> QED BY <2>2, <2>4
<1> QED BY <1>2

(* A byte is a number up to 255.                                           *)
LEMMA Bytes == \A byte \in Byte : byte \in Int /\ 0 <= byte /\ byte <= 255
BY DEF Byte

(* Feed is the function that its recursive definition says.                *)
LEMMA FeedSteps ==
    ASSUME NEW parser, NEW chunk \in Seq(Byte)
    PROVE  /\ Feed(parser, chunk)[0] = [parser |-> parser, returned |-> FALSE]
           /\ \A i \in 1..Len(chunk) :
                 Feed(parser, chunk)[i]
                     = TakeByte(Feed(parser, chunk)[i - 1], chunk[i])
<1> DEFINE start == [parser |-> parser, returned |-> FALSE]
           Fits(f, n) == f = [i \in 0..n |-> IF i = 0 THEN start
                                             ELSE TakeByte(f[i - 1], chunk[i])]
           T == {n \in Nat : \E f : Fits(f, n)}
<1>1. 0 \in T
  <2>1. Fits([i \in 0..0 |-> start], 0)
    OBVIOUS
  <2> QED BY <2>1, Zenon
<1>2. ASSUME NEW n \in Nat \ {0}, n - 1 \in T PROVE n \in T
  <2>1. PICK f : Fits(f, n - 1)
    BY <1>2
  <2> DEFINE g == [i \in 0..n |-> IF i = n THEN TakeByte(f[n - 1], chunk[n])
                                  ELSE f[i]]
  <2> HIDE DEF start
  <2>2. ASSUME NEW i \in 0..n
        PROVE  g[i] = IF i = 0 THEN start ELSE TakeByte(g[i - 1], chunk[i])
    <3>1. CASE i = n
      BY <2>1, <3>1
    <3>2. CASE i # n
      BY <2>1, <3>2
    <3> QED BY <3>1, <3>2
  <2>3. Fits(g, n)
    BY <2>2
  <2> QED BY <2>3
<1> HIDE DEF Fits
<1>3. Len(chunk) \in Nat
  OBVIOUS
<1>4. \E f : Fits(f, Len(chunk))
  <2> HIDE DEF T
  <2>1. Len(chunk) \in T
    BY <1>1, <1>2, <1>3, UpTo
  <2> QED BY <2>1 DEF T
<1>5. Fits(Feed(parser, chunk), Len(chunk))
  BY <1>4, Zenon DEF Feed, Fits
<1> HIDE DEF start
<1>6. /\ Feed(parser, chunk)[0] = start
      /\ \A i \in 1..Len(chunk) : Feed(parser, chunk)[i]
                                   = TakeByte(Feed(parser, chunk)[i - 1], chunk[i])
  BY <1>3, <1>5 DEF Fits
<1> QED BY <1>6 DEF start

(* The states of the parser: before the value there is no data, and until  *)
(* the parser returns there is less data than a length above 0 announces.  *)
Parser == [state : {"Init", "Length", "Value"}, length : Int, data : Seq(Byte)]

Shape(acc) ==
    LET p == acc.parser
    IN  /\ p \in Parser /\ acc = [parser |-> p, returned |-> acc.returned]
        /\ acc.returned \in BOOLEAN
        /\ p.state = "Init" => p.length = -1
        /\ p.state = "Length" => -2 <= p.length /\ p.length <= 255
        /\ p.state = "Value" => 0 <= p.length /\ p.length <= 65535
        /\ p.state # "Value" => p.data = <<>>
        /\ acc.returned => p.state = "Value" /\ p.data # <<>> /\ IsDone(p)
        /\ ~acc.returned /\ p.length > 0 => Len(p.data) < p.length

(* The parser keeps to these states, whatever bytes it is given.           *)
LEMMA FeedShape ==
    ASSUME NEW chunk \in Seq(Byte), NEW parser,
           Shape([parser |-> parser, returned |-> FALSE])
    PROVE  \A i \in 0..Len(chunk) : Shape(Feed(parser, chunk)[i])
<1>1. ASSUME NEW acc, Shape(acc), NEW byte \in Byte
      PROVE  Shape(TakeByte(acc, byte))
  <2>1. CASE acc.returned
    BY <1>1, <2>1 DEF TakeByte
  <2>2. CASE ~acc.returned
    <3> DEFINE p == acc.parser
               next == AddByte(p, byte)
               after == [parser |-> next,
                         returned |-> p.state = "Value" /\ IsDone(next)]
    <3>1. TakeByte(acc, byte) = after
      BY <2>2 DEF TakeByte
    <3>2. /\ p \in Parser /\ byte \in Int /\ 0 <= byte /\ byte <= 255
          /\ p.state = "Init" => p.length = -1
          /\ p.state = "Length" => -2 <= p.length /\ p.length <= 255
          /\ p.state = "Value" => 0 <= p.length /\ p.length <= 65535
          /\ p.state # "Value" => p.data = <<>>
          /\ p.length > 0 => Len(p.data) < p.length
      BY <1>1, <2>2, Bytes DEF Shape
    <3> DEFINE Rec(state, length, data) ==
                   [state |-> state, length |-> length, data |-> data]
               wide == 256 * p.length + byte
    <3>3. \/ p.state = "Init" /\ next = Rec("Init", -1, <<>>)
          \/ p.state = "Init" /\ next = Rec("Length", -1, <<>>)
          \/ p.state = "Length" /\ next = Rec("Length", -2, <<>>)
          \/ p.state = "Length" /\ next = Rec("Length", byte, <<>>)
          \/ p.state = "Length" /\ next = Rec("Value", byte, <<>>)
          \/ /\ p.state = "Length" /\ 0 <= p.length
             /\ next = Rec("Value", wide, <<>>)
          \/ /\ p.state = "Value"
             /\ next = Rec("Value", p.length, Append(p.data, byte))
      <4> HIDE DEF p
      <4>1. p = Rec(p.state, p.length, p.data)
        BY <3>2 DEF Parser
      <4>2. CASE p.state = "Init" /\ byte = 3
        <5>1. next = [p EXCEPT !.state = "Length"]
          BY <4>2 DEF AddByte
        <5>2. next = Rec("Length", p.length, p.data)
          BY <4>1, <5>1
        <5> HIDE DEF next, Rec
        <5> QED BY <3>2, <4>2, <5>2
      <4>3. CASE p.state = "Init" /\ byte # 3
        <5>1. next = [p EXCEPT !.state = @]
          BY <4>3 DEF AddByte
        <5>2. next = Rec(p.state, p.length, p.data)
          BY <4>1, <5>1
        <5> HIDE DEF next, Rec
        <5> QED BY <3>2, <4>3, <5>2
      <4>4. CASE p.state = "Length" /\ p.length = -1 /\ byte = 255
        <5>1. next = [p EXCEPT !.length = -2]
          BY <4>4 DEF AddByte
        <5>2. next = Rec(p.state, -2, p.data)
          BY <4>1, <5>1
        <5> HIDE DEF next, Rec
        <5> QED BY <3>2, <4>4, <5>2
      <4>5. CASE p.state = "Length" /\ p.length = -1 /\ byte # 255
        <5>1. next = [p EXCEPT !.length = byte, !.state = "Value"]
          BY <4>5 DEF AddByte
        <5>2. next = Rec("Value", byte, p.data)
          BY <4>1, <5>1
        <5> HIDE DEF next, Rec
        <5> QED BY <3>2, <4>5, <5>2
      <4>6. CASE p.state = "Length" /\ p.length = -2
        <5>1. next = [p EXCEPT !.length = byte]
          BY <4>6 DEF AddByte
        <5>2. next = Rec(p.state, byte, p.data)
          BY <4>1, <5>1
        <5> HIDE DEF next, Rec
        <5> QED BY <3>2, <4>6, <5>2
      <4>7. CASE p.state = "Length" /\ p.length >= 0
        <5>1. next = [p EXCEPT !.length = wide, !.state = "Value"]
          BY <4>7 DEF AddByte
        <5> HIDE DEF wide
        <5>2. next = Rec("Value", wide, p.data)
          BY <4>1, <5>1
        <5> HIDE DEF next, Rec
        <5> QED BY <3>2, <4>7, <5>2
      <4>8. CASE p.state = "Value"
        <5>1. next = [p EXCEPT !.data = Append(@, byte)]
          BY <4>8 DEF AddByte
        <5>2. next = Rec(p.state, p.length, Append(p.data, byte))
          BY <4>1, <5>1
        <5> HIDE DEF next, Rec
        <5> QED BY <3>2, <4>8, <5>2
      <4>9. p.length \in Int /\ p.state \in {"Init", "Length", "Value"}
        BY <3>2 DEF Parser
      <4> HIDE DEF next, Rec, wide
      <4> QED BY <3>2, <4>2, <4>3, <4>4, <4>5, <4>6, <4>7, <4>8, <4>9
    <3>4. ASSUME NEW state \in {"Init", "Length", "Value"}, NEW length \in Int,
                 NEW data \in Seq(Byte)
          PROVE  LET r == Rec(state, length, data)
                 IN  /\ r \in Parser
                     /\ r.state = state /\ r.length = length /\ r.data = data
      BY DEF Parser
    <3>5. /\ after.parser = next /\ after = [parser |-> next, returned |-> after.returned]
          /\ after.returned = (p.state = "Value" /\ IsDone(next))
          /\ after.returned \in BOOLEAN
      OBVIOUS
    <3> DEFINE ps == p.state
               pl == p.length
               pd == p.data
    <3>6. p.length \in Int /\ p.data \in Seq(Byte) /\ <<>> \in Seq(Byte)
      BY <3>2 DEF Parser
    <3>14. wide \in Int
      BY <3>2, <3>6
    <3>15. pl <= 255 /\ 0 <= pl => 0 <= wide /\ wide <= 65535
      BY <3>2, <3>6
    <3> HIDE DEF next, p, after, Rec, wide
    <3>7. /\ Append(p.data, byte) \in Seq(Byte) /\ Append(p.data, byte) # <<>>
          /\ Len(Append(p.data, byte)) = Len(p.data) + 1 /\ Len(p.data) \in Nat
      BY <3>6, AppendProperties
    <3> DEFINE ns == next.state
               nl == next.length
               nd == next.data
    <3>8. /\ \/ ps = "Init" /\ ns \in {"Init", "Length"} /\ nl = -1 /\ nd = <<>>
             \/ ps = "Length" /\ ns = "Length" /\ nl \in {-2, byte} /\ nd = <<>>
             \/ ps = "Length" /\ ns = "Value" /\ nl = byte /\ nd = <<>>
             \/ /\ ps = "Length" /\ 0 <= pl
                /\ ns = "Value" /\ nl = wide /\ nd = <<>>
             \/ ps = "Value" /\ ns = "Value" /\ nl = pl /\ nd = Append(pd, byte)
          /\ next \in Parser
      <4> DEFINE Made(state, length, data) ==
                     /\ next \in Parser
                     /\ ns = state /\ nl = length /\ nd = data
      <4>1. ASSUME NEW state \in {"Init", "Length", "Value"}, NEW length \in Int,
                   NEW data \in Seq(Byte), next = Rec(state, length, data)
            PROVE  Made(state, length, data)
        BY <3>4, <4>1
      <4>2. byte \in Int /\ -1 \in Int /\ -2 \in Int
        BY <3>2
      <4> DEFINE Makes(state, length, data) ==
                     next = Rec(state, length, data) => Made(state, length, data)
      <4> HIDE DEF Made
      <4>3. Makes("Init", -1, <<>>) /\ Makes("Length", -1, <<>>)
        BY Zenon, <3>6, <4>1, <4>2
      <4>6. Makes("Length", -2, <<>>)
        BY Zenon, <3>6, <4>1, <4>2
      <4>7. Makes("Length", byte, <<>>) /\ Makes("Value", byte, <<>>)
        BY Zenon, <3>6, <4>1, <4>2
      <4>8. Makes("Value", wide, <<>>)
        BY Zenon, <3>6, <3>14, <4>1
      <4>4. Makes("Value", pl, Append(pd, byte))
        BY Zenon, <3>6, <3>7, <4>1
      <4>5. \/ ps = "Init" /\ Made("Init", -1, <<>>)
            \/ ps = "Init" /\ Made("Length", -1, <<>>)
            \/ ps = "Length" /\ Made("Length", -2, <<>>)
            \/ ps = "Length" /\ Made("Length", byte, <<>>)
            \/ ps = "Length" /\ Made("Value", byte, <<>>)
            \/ ps = "Length" /\ 0 <= pl /\ Made("Value", wide, <<>>)
            \/ ps = "Value" /\ Made("Value", pl, Append(pd, byte))
        BY <3>3, <4>3, <4>4, <4>6, <4>7, <4>8
      <4> HIDE DEF ps, pl, pd, ns, nl, nd
      <4> QED BY <4>5, Zenon DEF Made
    <3>9. /\ byte \in Int /\ 0 <= byte /\ byte <= 255 /\ pl \in Int
          /\ ps = "Length" => pl <= 255
          /\ ps = "Value" => 0 <= pl /\ pl <= 65535
          /\ pl > 0 => Len(pd) < pl
      BY <3>2, <3>6
    <3>10. after.returned <=> ps = "Value" /\ Len(nd) = nl
      BY <3>5 DEF IsDone
    <3> HIDE DEF ps, pl, pd, ns, nl, nd
    <3>11. /\ ns = "Init" => nl = -1
           /\ ns = "Length" => -2 <= nl /\ nl <= 255
           /\ ns = "Value" => 0 <= nl /\ nl <= 65535
           /\ ns # "Value" => nd = <<>>
      BY <3>8, <3>9, <3>14, <3>15
    <3>12. CASE ps = "Value"
      <4>1. ns = "Value" /\ nl = pl /\ nd = Append(pd, byte)
        BY <3>8, <3>12
      <4>2. /\ nd # <<>> /\ Len(pd) \in Nat /\ pl \in Int
            /\ Len(nd) = Len(pd) + 1
        BY <3>7, <3>9, <4>1 DEF pd
      <4>3. ~after.returned /\ nl > 0 => Len(nd) < nl
        BY <3>9, <3>10, <3>12, <4>1, <4>2
      <4>4. /\ next \in Parser /\ ns = "Value" /\ nd # <<>>
            /\ after.returned => Len(nd) = nl
        BY <3>8, <3>10, <4>1, <4>2
      <4> QED BY <3>1, <3>5, <3>11, <4>3, <4>4 DEF Shape, IsDone, ns, nl, nd
    <3>13. CASE ps # "Value"
      <4>1. nd = <<>> /\ ~after.returned
        BY <3>8, <3>10, <3>13
      <4>2. nl > 0 => Len(nd) < nl
        BY <4>1
      <4>3. next \in Parser
        BY <3>8
      <4> QED BY <3>1, <3>5, <3>11, <4>1, <4>2, <4>3
              DEF Shape, IsDone, ns, nl, nd
    <3> QED BY <3>12, <3>13
  <2> QED BY <1>1, <2>1, <2>2 DEF Shape
<1> DEFINE T == {i \in 0..Len(chunk) : Shape(Feed(parser, chunk)[i])}
<1>2. Len(chunk) \in Nat /\ 0 \in T
  BY FeedSteps
<1>3. ASSUME NEW i \in 1..Len(chunk), i - 1 \in T PROVE i \in T
  <2>1. chunk[i] \in Byte /\ Shape(Feed(parser, chunk)[i - 1])
    BY <1>3
  <2> QED BY <1>1, <2>1, FeedSteps
<1> HIDE DEF T
<1>4. \A i \in 0..Len(chunk) : i \in T
  BY <1>2, <1>3, UpTo
<1> QED BY <1>4 DEF T

(* A parser that has returned has looked at its last byte; and one that    *)
(* has not goes on with the rest of the bytes as if they came in the same  *)
(* chunk.                                                                  *)
LEMMA FeedSplit ==
    ASSUME NEW memory \in Seq(Byte), NEW first, NEW parser, NEW k \in Nat,
           NEW l \in Nat, k + l <= Len(memory),
           Feed(first, memory)[k] = [parser |-> parser, returned |-> FALSE]
    PROVE  /\ SubSeq(memory, k + 1, k + l) \in Seq(Byte)
           /\ Len(SubSeq(memory, k + 1, k + l)) = l
           /\ Feed(parser, SubSeq(memory, k + 1, k + l))[l]
                 = Feed(first, memory)[k + l]
<1> DEFINE chunk == SubSeq(memory, k + 1, k + l)
           T == {i \in 0..l : Feed(parser, chunk)[i] = Feed(first, memory)[k + i]}
<1>1. /\ chunk \in Seq(Byte) /\ Len(chunk) = l /\ Len(memory) \in Nat
      /\ \A i \in 1..l : chunk[i] = memory[k + i]
  <2>1. \A i \in (k + 1)..(k + l) : memory[i] \in Byte
    OBVIOUS
  <2>2. k + 1 \in Int /\ k + l \in Int
    OBVIOUS
  <2>5. \A a \in Int, e \in Int : (\A i \in a..e : memory[i] \in Byte) =>
           /\ SubSeq(memory, a, e) \in Seq(Byte)
           /\ Len(SubSeq(memory, a, e)) = IF a <= e THEN e - a + 1 ELSE 0
           /\ \A i \in 1..(e - a + 1) :
                 SubSeq(memory, a, e)[i] = memory[a + i - 1]
    BY SubSeqProperties
  <2>3. /\ chunk \in Seq(Byte)
        /\ Len(chunk) = IF k + 1 <= k + l THEN (k + l) - (k + 1) + 1 ELSE 0
        /\ \A i \in 1..((k + l) - (k + 1) + 1) :
              chunk[i] = memory[k + 1 + i - 1]
    BY <2>1, <2>2, <2>5
  <2> HIDE DEF chunk
  <2>4. \A i \in 1..l : chunk[i] = memory[k + i]
    <3> TAKE i \in 1..l
    <3>1. i \in 1..((k + l) - (k + 1) + 1) /\ k + 1 + i - 1 = k + i
      OBVIOUS
    <3> QED BY <2>3, <3>1
  <2> QED BY <2>3, <2>4
<1> HIDE DEF chunk
<1>2. 0 \in T
  BY <1>1, FeedSteps
<1>3. ASSUME NEW i \in 1..l, i - 1 \in T PROVE i \in T
  <2>1. Feed(parser, chunk)[i] = TakeByte(Feed(parser, chunk)[i - 1], chunk[i])
    BY <1>1, FeedSteps
  <2>2. /\ k + i \in 1..Len(memory) /\ (k + i) - 1 = k + (i - 1)
    BY <1>1
  <2>3. Feed(first, memory)[k + i]
           = TakeByte(Feed(first, memory)[k + (i - 1)], memory[k + i])
    BY <2>2, FeedSteps
  <2> QED BY <1>1, <1>3, <2>1, <2>3
<1>4. \A i \in 0..l : i \in T
  <2> HIDE DEF T
  <2> QED BY <1>2, <1>3, UpTo
<1> QED BY <1>1, <1>4 DEF chunk

(* A parser that has returned ignores the rest of its chunk (the return in *)
(* add_data).                                                              *)
LEMMA FeedStops ==
    ASSUME NEW memory \in Seq(Byte), NEW first, NEW k \in Nat, k <= Len(memory),
           Feed(first, memory)[k].returned
    PROVE  \A j \in k..Len(memory) : Feed(first, memory)[j] = Feed(first, memory)[k]
<1> DEFINE f == Feed(first, memory)
           n == Len(memory) - k
           T == {i \in 0..n : f[k + i] = f[k]}
<1>1. n \in Nat /\ Len(memory) \in Nat /\ 0 \in T
  OBVIOUS
<1>2. ASSUME NEW i \in 1..n, i - 1 \in T PROVE i \in T
  <2>1. k + i \in 1..Len(memory) /\ (k + i) - 1 = k + (i - 1)
    BY <1>1
  <2>2. f[k + i] = TakeByte(f[k + (i - 1)], memory[k + i])
    BY <2>1, FeedSteps
  <2> QED BY <1>2, <2>2 DEF TakeByte
<1>3. \A i \in 0..n : i \in T
  <2> HIDE DEF T, n
  <2> QED BY <1>1, <1>2, UpTo
<1>4. ASSUME NEW j \in k..Len(memory) PROVE f[j] = f[k]
  <2>1. j - k \in 0..n /\ k + (j - k) = j
    BY <1>1
  <2>2. j - k \in T
    BY <1>3, <2>1
  <2> QED BY <2>1, <2>2
<1> QED BY <1>4

(* The blocks that the loop asks for are there.                            *)
LEMMA Quads ==
    ASSUME NEW capability \in Byte
    PROVE  /\ TotalQuads(capability) \in Nat /\ TotalQuads(capability) <= 63
           /\ 16 * TotalQuads(capability) <= 8 * capability
<1> DEFINE q == ((capability * 8) \div 4) \div 4
<1>1. capability \in Int /\ 0 <= capability
  BY Bytes
<1>2. q \in Nat /\ 16 * q <= 8 * capability
  BY <1>1
<1> HIDE DEF q
<1>3. TotalQuads(capability) = IF q < 63 THEN q ELSE 63
  BY DEF TotalQuads, q
<1> QED BY <1>1, <1>2, <1>3

(* The progress of read_ndef_text on a tag with this memory: the parser is *)
(* where one chunk with all the blocks so far would have brought it.       *)
Fed(memory, n) == Feed(NewParser, memory)[n]

Reads(memory, capability) ==
    reading.at = "blocks" =>
        /\ reading = [at |-> "blocks", quad |-> reading.quad,
                      parser |-> reading.parser, total |-> TotalQuads(capability)]
        /\ reading.quad \in 1..TotalQuads(capability)
        /\ Fed(memory, 16 * (reading.quad - 1))
              = [parser |-> reading.parser, returned |-> FALSE]

(* The loop keeps to it, and every state of the parser has its shape.      *)
LEMMA ReadSteps ==
    ASSUME NEW memory \in Seq(Byte), NEW capability \in Byte,
           8 * capability <= Len(memory), Reads(memory, capability)
    PROVE  /\ \A n \in 0..Len(memory) : Shape(Fed(memory, n))
           /\ ReadCapability(capability) => Reads(memory, capability)'
           /\ reading.at = "blocks" =>
                 /\ 16 * reading.quad <= Len(memory) /\ reading.quad \in Nat \ {0}
                 /\ AddData(reading.parser, BlockOf(memory, reading.quad))
                       = Fed(memory, 16 * reading.quad).parser
                 /\ ReadBlock(BlockOf(memory, reading.quad))
                       => Reads(memory, capability)'
<1> DEFINE quads == TotalQuads(capability)
<1>1. /\ quads \in Nat /\ quads <= 63 /\ 16 * quads <= Len(memory)
      /\ Len(memory) \in Nat /\ capability \in Int /\ 0 <= capability
  BY Quads, Bytes
<1> HIDE DEF quads
<1>2. \A n \in 0..Len(memory) : Shape(Fed(memory, n))
  <2>1. Shape([parser |-> NewParser, returned |-> FALSE])
    BY DEF Shape, NewParser, Parser, IsDone
  <2> QED BY <2>1, FeedShape DEF Fed
<1>3. ASSUME ReadCapability(capability) PROVE Reads(memory, capability)'
  <2>1. CASE quads = 0
    BY <1>3, <2>1 DEF ReadCapability, Finished, Reads, quads
  <2>2. CASE quads # 0
    <3>1. reading' = [at |-> "blocks", quad |-> 1, parser |-> NewParser,
                      total |-> quads]
      BY <1>3, <2>2 DEF ReadCapability, quads
    <3>2. Fed(memory, 0) = [parser |-> NewParser, returned |-> FALSE]
      BY FeedSteps DEF Fed
    <3>3. 1 \in 1..quads /\ 16 * (1 - 1) = 0
      BY <1>1, <2>2
    <3> QED BY <3>1, <3>2, <3>3 DEF Reads, quads
  <2> QED BY <2>1, <2>2
<1>4. ASSUME reading.at = "blocks"
      PROVE  /\ 16 * reading.quad <= Len(memory) /\ reading.quad \in Nat \ {0}
             /\ AddData(reading.parser, BlockOf(memory, reading.quad))
                   = Fed(memory, 16 * reading.quad).parser
             /\ ReadBlock(BlockOf(memory, reading.quad))
                   => Reads(memory, capability)'
  <2> DEFINE quad == reading.quad
             parser == reading.parser
             acc == Fed(memory, 16 * quad)
  <2>1. /\ quad \in 1..quads
        /\ reading = [at |-> "blocks", quad |-> quad, parser |-> parser,
                      total |-> quads]
        /\ Fed(memory, 16 * (quad - 1)) = [parser |-> parser, returned |-> FALSE]
    BY <1>4 DEF Reads, quads
  <2> HIDE DEF quad, parser
  <2>2. /\ 16 * (quad - 1) \in Nat /\ 16 * (quad - 1) + 16 = 16 * quad
        /\ 16 * quad \in Nat /\ 16 * quad <= Len(memory) /\ quad \in Nat \ {0}
        /\ BlockLength * quad = 16 * (quad - 1) + 16
        /\ BlockLength * (quad - 1) + 1 = 16 * (quad - 1) + 1
    BY <1>1, <2>1, BlockAssumption
  <2>3. AddData(parser, BlockOf(memory, quad)) = acc.parser
    <3> DEFINE k == 16 * (quad - 1)
               block == SubSeq(memory, k + 1, k + 16)
    <3>1. BlockOf(memory, quad) = block
      BY <2>2 DEF BlockOf
    <3>2. k \in Nat /\ k + 16 <= Len(memory)
      BY <2>2
    <3>3. Feed(NewParser, memory)[k] = [parser |-> parser, returned |-> FALSE]
      BY <2>1 DEF Fed
    <3> HIDE DEF k
    <3>4. Len(block) = 16 /\ Feed(parser, block)[16] = Feed(NewParser, memory)[k + 16]
      BY <3>2, <3>3, FeedSplit
    <3> HIDE DEF block
    <3> QED BY <2>2, <3>1, <3>4 DEF AddData, Fed, k
  <2>4. ASSUME ReadBlock(BlockOf(memory, quad)), reading'.at = "blocks"
        PROVE  Reads(memory, capability)'
    <3> HIDE DEF acc
    <3>1. \A r : Finished(r).at # "blocks"
      BY DEF Finished
    <3>2. /\ ~IsDone(acc.parser) /\ quad # quads
          /\ reading' = [reading EXCEPT !.quad = @ + 1, !.parser = acc.parser]
      BY <2>1, <2>3, <2>4, <3>1 DEF ReadBlock, quad, parser
    <3>3. reading' = [at |-> "blocks", quad |-> quad + 1, parser |-> acc.parser,
                      total |-> quads]
      BY <2>1, <3>2
    <3>4. Shape(acc)
      BY <1>1, <1>2, <2>2 DEF acc
    <3>5. acc = [parser |-> acc.parser, returned |-> FALSE]
      BY <3>2, <3>4 DEF Shape
    <3>6. quad + 1 \in 1..quads /\ 16 * ((quad + 1) - 1) = 16 * quad
      BY <1>1, <2>1, <3>2
    <3> QED BY <3>3, <3>5, <3>6 DEF Reads, quads, acc
  <2> QED BY <2>2, <2>3, <2>4 DEF Reads, quad, parser
<1> QED BY <1>2, <1>3, <1>4

(* A result is a value or an error, and there is no text in no data: only  *)
(* a message that the parser has returned with can be a text.              *)
LEMMA Results ==
    /\ \A v : IsOk(Ok(v)) /\ Ok(v).ok = v
    /\ \A kind : ~IsOk(Err(kind))
    /\ \A acc : Shape(acc) /\ IsDone(acc.parser) /\ IsOk(TextOf(acc.parser))
                  => acc.returned
<1>1. \A v : IsOk(Ok(v)) /\ Ok(v).ok = v
  BY DEF IsOk, Ok
<1>2. \A kind : ~IsOk(Err(kind))
  BY DEF IsOk, Err
<1>3. ASSUME NEW acc, Shape(acc), IsDone(acc.parser), ~acc.returned
      PROVE  ~IsOk(TextOf(acc.parser))
  <2>1. /\ acc.parser.length \in Int /\ acc.parser.data \in Seq(Byte)
        /\ acc.parser.length > 0 => Len(acc.parser.data) < acc.parser.length
    BY <1>3 DEF Shape, Parser
  <2>2. Len(acc.parser.data) = acc.parser.length
    BY <1>3 DEF IsDone
  <2> DEFINE data == acc.parser.data
             length == acc.parser.length
  <2> HIDE DEF data, length
  <2>3. data = <<>>
    <3>1. Len(data) \in Nat /\ ~(length > 0) /\ Len(data) = length
      BY <2>1, <2>2 DEF data, length
    <3> QED BY <2>1, <3>1, EmptySeq DEF data
  <2>4. ParseTextRecord(data) = Err("Truncated")
    BY <2>3 DEF ParseTextRecord
  <2> QED BY <1>2, <2>4 DEF TextOf, data
<1> QED BY <1>1, <1>2, <1>3
=============================================================================
