--------------------------- MODULE RoundTripProofs ---------------------------
(***************************************************************************)
(* That dump -e gives raw back of every vector whose class says so and of   *)
(* no other, whatever its bytes are: the packet is put together again from  *)
(* the fields that cut it, by the places where they meet.                   *)
(***************************************************************************)
EXTENDS CorpusProofs

-----------------------------------------------------------------------------
(* Bytes put together one after the other, by the places where they meet.   *)
Laid(pieces, stops, h) ==
  /\ Len(pieces) \in Nat \ {0}
  /\ stops[1] = 0 /\ stops[Len(pieces) + 1] = h.payload_len
  /\ \A i \in 1..Len(pieces) :
       /\ stops[i] \in Nat /\ stops[i + 1] \in Nat /\ stops[i] <= stops[i + 1]
       /\ pieces[i] = Payload(h, stops[i], stops[i + 1] - stops[i])

Fronted(parts, front, pieces) ==
  /\ Len(parts) = Len(pieces) + 1 /\ parts[1] = front
  /\ \A i \in 1..Len(pieces) : parts[i + 1] = pieces[i]

LEMMA LaidOut ==
  ASSUME NEW h, h.at \in Nat, NEW pieces, NEW stops, Laid(pieces, stops, h),
         NEW front, EndsBeside(front, Line(h.line)), NEW parts, Fronted(parts, front, pieces)
  PROVE  Cat(parts) = Onto(front, Line(h.line), h.at, h.payload_len)
  <1> USE DEF Fronted
  <1> DEFINE n == Len(pieces)
             of == Line(h.line)
             onto(i) == Onto(front, of, h.at, stops[i])
  <1>1. /\ n \in Nat /\ n # 0 /\ stops[1] = 0 /\ stops[n + 1] = h.payload_len
        /\ \A i \in 1..n : /\ stops[i] \in Nat /\ stops[i + 1] \in Nat /\ stops[i] <= stops[i + 1]
                           /\ pieces[i] = Payload(h, stops[i], stops[i + 1] - stops[i])
    BY DEF Laid
  <1>2. PICK f : /\ f[0] = << >> /\ f[Len(parts)] = Cat(parts)
                 /\ \A i \in 1..Len(parts) : f[i] = Join(f[i - 1], parts[i])
    BY <1>1, CatByPrefixes
  <1>3. f[1] = front
    <2>1. f[1] = Join(f[0], front)
      BY <1>1, <1>2
    <2>2. << >> \o front = front
      BY EmptyEcho DEF EndsBeside
    <2>3. QED
      BY <1>2, <2>1, <2>2 DEF Join
  <1>4. onto(1) = front
    <2>1. onto(1) = Onto(front, of, h.at, 0)
      BY <1>1
    <2>2. PICK S : front \in Seq(S)
      BY DEF EndsBeside, IsSeq
    <2>3. front \o << >> = front
      BY <2>2
    <2>4. QED
      BY <2>1, <2>3 DEF Onto, Mem
  <1> DEFINE wrong == {i \in 1..(n + 1) : f[i] # onto(i)}
  <1>5. ASSUME wrong # {} PROVE FALSE
    <2>1. wrong \subseteq Nat
      BY <1>1
    <2>2. PICK k \in wrong : \A i \in wrong : k <= i
      BY <1>5, <2>1, LeastOf
    <2>3. k # 1
      BY <1>3, <1>4, <2>2
    <2>4. PICK j \in 1..n : k = j + 1
      <3>1. k - 1 \in 1..n /\ k = (k - 1) + 1
        BY <1>1, <2>2, <2>3
      <3>2. QED
        BY <3>1
    <2>5. f[j] = onto(j)
      <3>1. j \in 1..(n + 1) /\ ~(k <= j)
        BY <1>1, <2>4
      <3>2. QED
        BY <2>2, <3>1
    <2>6. f[j + 1] = Join(f[j], pieces[j])
      <3>1. j + 1 \in 1..Len(parts) /\ (j + 1) - 1 = j /\ parts[j + 1] = pieces[j]
        BY <1>1, <2>4
      <3>2. QED
        BY <1>2, <3>1
    <2>7. PICK a \in Nat, m \in Nat : stops[j] = a /\ stops[j + 1] = a + m
      <3>1. stops[j] \in Nat /\ stops[j + 1] - stops[j] \in Nat
            /\ stops[j + 1] = stops[j] + (stops[j + 1] - stops[j])
        BY <1>1
      <3>2. QED
        BY <3>1
    <2>8. pieces[j] = Mem(of, h.at + a, m)
      <3>1. stops[j + 1] - stops[j] = m
        BY <2>7
      <3>2. QED
        BY <1>1, <2>7, <3>1 DEF Payload
    <2>9. Join(Onto(front, of, h.at, a), Mem(of, h.at + a, m)) = Onto(front, of, h.at, a + m)
      <3> HIDE DEF of
      <3>1. EndsBeside(front, of)
        BY DEF of
      <3>2. \A x, y, z \in Nat : Join(Onto(front, of, x, y), Mem(of, x + y, z)) = Onto(front, of, x, y + z)
        BY <3>1, RunsOn
      <3>3. QED
        BY <3>2
    <2>10. f[j + 1] = onto(j + 1)
      BY <2>5, <2>6, <2>7, <2>8, <2>9
    <2>11. QED
      BY <2>2, <2>4, <2>10
  <1>6. f[n + 1] = onto(n + 1)
    <2>1. n + 1 \in 1..(n + 1)
      BY <1>1
    <2>2. QED
      BY <1>5, <2>1
  <1>7. QED
    BY <1>1, <1>2, <1>6

(* How many bytes a few pieces are. *)
SizeUpTo(f, bytes, n) ==
  f = [i \in 0..n |-> IF i = 0 THEN 0 ELSE f[i - 1] + bytes[i].to - bytes[i].from]

LEMMA SizesExist ==
  ASSUME NEW bytes, NEW n \in Nat
  PROVE  \E f : SizeUpTo(f, bytes, n)
  <1> DEFINE S == {k \in Nat : ~(\E f : SizeUpTo(f, bytes, k))}
  <1>1. ASSUME S # {} PROVE FALSE
    <2>1. PICK k \in S : \A j \in S : k <= j
      BY <1>1, LeastOf
    <2>2. k # 0
      <3>1. SizeUpTo([i \in 0..0 |-> 0], bytes, 0)
        BY DEF SizeUpTo
      <3>2. QED
        BY <2>1, <3>1
    <2>3. PICK f : SizeUpTo(f, bytes, k - 1)
      BY <2>1, <2>2
    <2> DEFINE more(x) == x + bytes[k].to - bytes[k].from
               g == [i \in 0..k |-> IF i = k THEN more(f[k - 1]) ELSE f[i]]
    <2>4. f = [i \in 0..(k - 1) |-> IF i = 0 THEN 0 ELSE f[i - 1] + bytes[i].to - bytes[i].from]
      BY <2>3 DEF SizeUpTo
    <2>5. ASSUME NEW i \in 0..k
          PROVE  g[i] = IF i = 0 THEN 0 ELSE g[i - 1] + bytes[i].to - bytes[i].from
      <3>1. CASE i = k
        <4>1. k - 1 \in 0..k /\ k - 1 # k /\ k \in 0..k
          BY <2>1, <2>2
        <4>2. g[k] = more(f[k - 1]) /\ g[k - 1] = f[k - 1]
          BY <4>1
        <4>3. g[k] = g[k - 1] + bytes[k].to - bytes[k].from
          BY <4>2
        <4>4. QED
          BY <2>2, <3>1, <4>3
      <3>2. CASE i # k
        <4>1. i \in 0..(k - 1) /\ g[i] = f[i] /\ (i # 0 => g[i - 1] = f[i - 1])
          BY <2>1, <3>2
        <4>2. f[i] = IF i = 0 THEN 0 ELSE f[i - 1] + bytes[i].to - bytes[i].from
          BY <2>4, <4>1
        <4> HIDE DEF g
        <4>3. QED
          BY <4>1, <4>2
      <3>3. QED
        BY <3>1, <3>2
    <2>6. SizeUpTo(g, bytes, k)
      <3> HIDE DEF more
      <3>1. g = [i \in 0..k |-> g[i]]
        OBVIOUS
      <3> HIDE DEF g
      <3>2. QED
        BY <2>5, <3>1 DEF SizeUpTo
    <2>7. QED
      BY <2>1, <2>6
  <1>2. QED
    BY <1>1

LEMMA SizeOf ==
  ASSUME NEW bytes, Len(bytes) \in Nat
  PROVE  \E f : /\ f[0] = 0 /\ f[Len(bytes)] = Size(bytes)
                /\ \A i \in 1..Len(bytes) : f[i] = f[i - 1] + bytes[i].to - bytes[i].from
  <1> DEFINE n == Len(bytes)
             to[i \in 0..n] == IF i = 0 THEN 0 ELSE to[i - 1] + bytes[i].to - bytes[i].from
  <1>1. Size(bytes) = to[n]
    BY DEF Size
  <1>2. \E f : f = [i \in 0..n |-> IF i = 0 THEN 0 ELSE f[i - 1] + bytes[i].to - bytes[i].from]
    BY SizesExist DEF SizeUpTo
  <1>3. to = [i \in 0..n |-> IF i = 0 THEN 0 ELSE to[i - 1] + bytes[i].to - bytes[i].from]
    BY <1>2
  <1> HIDE DEF to
  <1>4. \A i \in 0..n : to[i] = IF i = 0 THEN 0 ELSE to[i - 1] + bytes[i].to - bytes[i].from
    BY <1>3
  <1>5. 0 \in 0..n /\ \A i \in 1..n : i \in 0..n /\ i # 0
    OBVIOUS
  <1>6. to[0] = 0 /\ \A i \in 1..n : to[i] = to[i - 1] + bytes[i].to - bytes[i].from
    BY <1>4, <1>5
  <1>7. QED
    BY <1>1, <1>6

(* The header, put together again and as it stands in the packet.           *)
HeaderBytes(h) == <<Piece(<<"byte", h.flags>>, 0, 1), Piece(<<"byte", h.hops>>, 0, 1),
                    Piece(Line(h.line), 2, h.at - 1), Piece(<<"byte", h.context>>, 0, 1)>>

LEMMA HeaderEnds ==
  ASSUME NEW h
  PROVE  EndsBeside(HeaderBytes(h), Line(h.line)) /\ HeaderBytes(h) # << >>
  <1> DEFINE s == HeaderBytes(h)
             last == Piece(<<"byte", h.context>>, 0, 1)
  <1>1. IsSeq(s) /\ Len(s) = 4 /\ s[4] = last
    BY TuplesAreSeqs DEF HeaderBytes
  <1>2. last.of = <<"byte", h.context>>
    BY DEF Piece
  <1>3. <<"byte", h.context>> # <<"line", h.line>>
    OBVIOUS
  <1> HIDE DEF s, last
  <1>4. Last(s).of = <<"byte", h.context>>
    BY <1>1, <1>2 DEF Last
  <1>5. s # << >>
    BY <1>1
  <1>6. QED
    BY <1>1, <1>3, <1>4, <1>5 DEF EndsBeside, Line, s

LEMMA LiteralPiece ==
  ASSUME NEW v
  PROVE  Literal(v) = <<Piece(<<"byte", v>>, 0, 1)>>
  BY DEF Literal, Mem

(* pieces of other objects stand side by side *)
LEMMA JoinBeside ==
  ASSUME NEW front, IsSeq(front), front # << >>, NEW p, \/ Last(front).of # p.of
                                                       \/ Last(front).to # p.from
  PROVE  Join(front, <<p>>) = front \o <<p>>
  <1>1. Head(<<p>>) = p /\ <<p>> # << >>
    OBVIOUS
  <1>2. QED
    BY <1>1 DEF Join

Longer(s, d, u) ==
  /\ IsSeq(s) /\ IsSeq(u) /\ Len(u) = Len(s) + 1
  /\ u[Len(s) + 1] = d /\ \A i \in 1..Len(s) : u[i] = s[i]

LEMMA OneMore ==
  ASSUME NEW s, NEW d, NEW u, Longer(s, d, u)
  PROVE  s \o <<d>> = u
  <1> USE DEF Longer
  <1> DEFINE t == <<d>>
  <1>1. Len(t) = 1 /\ t[1] = d /\ IsSeq(t)
    BY TuplesAreSeqs
  <1> HIDE DEF t
  <1>2. IsSeq(t)
    BY <1>1
  <1>3. /\ IsSeq(s \o t) /\ Len(s) \in Nat /\ Len(s \o t) = Len(s) + Len(t)
        /\ \A i \in 1..Len(s) : (s \o t)[i] = s[i]
        /\ \A i \in 1..Len(t) : (s \o t)[Len(s) + i] = t[i]
    BY <1>2, SeqsJoin
  <1>4. (s \o t)[Len(s) + 1] = d
    BY <1>1, <1>3
  <1>5. \A i \in 1..(Len(s) + 1) : i \in 1..Len(s) \/ i = Len(s) + 1
    BY <1>3
  <1>6. \A i \in 1..Len(s \o t) : (s \o t)[i] = u[i]
    BY <1>1, <1>3, <1>4, <1>5
  <1>7. Len(s \o t) = Len(u)
    BY <1>1, <1>3
  <1>8. s \o t = u
    BY <1>3, <1>6, <1>7, SeqsAgree
  <1>9. QED
    BY <1>8 DEF t

LEMMA LastPiece ==
  /\ \A a : IsSeq(<<a>>) /\ Last(<<a>>) = a
  /\ \A a, b, c : IsSeq(<<a, b, c>>) /\ Last(<<a, b, c>>) = c
  BY TuplesAreSeqs DEF Last

LEMMA FourPieces ==
  ASSUME NEW a, NEW b, NEW c, NEW d
  PROVE  /\ <<a>> \o <<b>> = <<a, b>>
         /\ <<a, b>> \o <<c>> = <<a, b, c>>
         /\ <<a, b, c>> \o <<d>> = <<a, b, c, d>>
  <1> DEFINE one == <<a>>
             two == <<a, b>>
             three == <<a, b, c>>
             four == <<a, b, c, d>>
  <1>1. /\ IsSeq(one) /\ IsSeq(two) /\ IsSeq(three) /\ IsSeq(four)
        /\ Len(one) = 1 /\ Len(two) = 2 /\ Len(three) = 3 /\ Len(four) = 4
        /\ one[1] = a /\ two[1] = a /\ two[2] = b /\ three[1] = a /\ three[2] = b /\ three[3] = c
        /\ four[1] = a /\ four[2] = b /\ four[3] = c /\ four[4] = d
    BY TuplesAreSeqs
  <1> HIDE DEF one, two, three, four
  <1>2. Longer(one, b, two) /\ Longer(two, c, three) /\ Longer(three, d, four)
    BY <1>1 DEF Longer
  <1>3. one \o <<b>> = two /\ two \o <<c>> = three
    BY ONLY <1>2, OneMore, Zenon
  <1>4. three \o <<d>> = four
    BY ONLY <1>2, OneMore, Zenon
  <1>5. QED
    BY <1>3, <1>4 DEF one, two, three, four

(* the literals of a header, before its middle and behind it *)
LEMMA HeaderLiterals ==
  ASSUME NEW h
  PROVE  LET two == <<Piece(<<"byte", h.flags>>, 0, 1), Piece(<<"byte", h.hops>>, 0, 1)>>
             three == <<Piece(<<"byte", h.flags>>, 0, 1), Piece(<<"byte", h.hops>>, 0, 1),
                        Piece(Line(h.line), 2, h.at - 1)>>
         IN  /\ Join(Literal(h.flags), Literal(h.hops)) = two
             /\ Join(three, Literal(h.context)) = HeaderBytes(h)
  <1> DEFINE a == Piece(<<"byte", h.flags>>, 0, 1)
             b == Piece(<<"byte", h.hops>>, 0, 1)
             c == Piece(Line(h.line), 2, h.at - 1)
             d == Piece(<<"byte", h.context>>, 0, 1)
  <1>1. /\ a.to = 1 /\ b.from = 0 /\ c.of = <<"line", h.line>> /\ d.of = <<"byte", h.context>>
        /\ Literal(h.flags) = <<a>> /\ Literal(h.hops) = <<b>> /\ Literal(h.context) = <<d>>
        /\ HeaderBytes(h) = <<a, b, c, d>>
    BY LiteralPiece DEF Piece, Line, HeaderBytes
  <1>2. c.of # d.of
    BY <1>1
  <1> HIDE DEF a, b, c, d
  <1>4. Join(<<a>>, <<b>>) = <<a, b>>
    <2>1. IsSeq(<<a>>) /\ <<a>> # << >> /\ Last(<<a>>).to # b.from
      <3>1. Last(<<a>>) = a /\ IsSeq(<<a>>)
        BY ONLY LastPiece, Zenon
      <3>2. QED
        BY <1>1, <3>1
    <2>2. Join(<<a>>, <<b>>) = <<a>> \o <<b>>
      BY <2>1, JoinBeside
    <2>3. QED
      BY <2>2, FourPieces
  <1>5. Join(<<a, b, c>>, <<d>>) = <<a, b, c, d>>
    <2>1. IsSeq(<<a, b, c>>) /\ <<a, b, c>> # << >> /\ Last(<<a, b, c>>).of # d.of
      <3>1. Last(<<a, b, c>>) = c /\ IsSeq(<<a, b, c>>)
        BY ONLY LastPiece, Zenon
      <3>2. QED
        BY <1>2, <3>1
    <2>2. Join(<<a, b, c>>, <<d>>) = <<a, b, c>> \o <<d>>
      BY <2>1, JoinBeside
    <2>3. QED
      BY <2>2, FourPieces
  <1>6. QED
    BY <1>1, <1>4, <1>5 DEF a, b, c

(* ContextName names no two contexts alike *)
LEMMA NamedOnce ==
  ASSUME NEW c \in DOMAIN ContextName
  PROVE  ByteNamed(ContextName[c]) = c
  <1> DEFINE D == DOMAIN ContextName
  <1>1. D = {0, 1, 2, 3, 4, 5, 6, 7, 9, 10, 11, 14, 250, 251, 252, 253, 254, 255}
    BY DEF ContextName
  <1>2. /\ ContextName[0] = "none" /\ ContextName[1] = "resource"
        /\ ContextName[2] = "resource_adv" /\ ContextName[3] = "resource_req"
        /\ ContextName[4] = "resource_hmu" /\ ContextName[5] = "resource_prf"
        /\ ContextName[6] = "resource_icl" /\ ContextName[7] = "resource_rcl"
        /\ ContextName[9] = "request"
    BY DEF ContextName
  <1>3. /\ ContextName[10] = "response" /\ ContextName[11] = "path_response"
        /\ ContextName[14] = "channel" /\ ContextName[250] = "keepalive"
        /\ ContextName[251] = "link_identify" /\ ContextName[252] = "link_close"
        /\ ContextName[253] = "link_proof" /\ ContextName[254] = "link_rtt"
        /\ ContextName[255] = "link_request_proof"
    BY DEF ContextName
  <1>4. \A d \in D : ContextName[d] = ContextName[c] => d = c
    BY <1>1, <1>2, <1>3
  <1>5. QED
    BY <1>4 DEF ByteNamed

(* what a file says of the header of a packet *)
GivesHeader(f, h) ==
  /\ Gives(f, "flags", Hex(Literal(h.flags))) /\ Gives(f, "hops", Decimal(h.hops))
  /\ Gives(f, "transport_id", Hex(h.transport_id))
  /\ Gives(f, "destination_hash", Hex(h.destination_hash))
  /\ Gives(f, "context", IF h.context \in DOMAIN ContextName
                         THEN Word(ContextName[h.context]) ELSE Hex(Literal(h.context)))

LEMMA ContextPut ==
  ASSUME NEW f, NEW h, GivesHeader(f, h)
  PROVE  PutContext(f) = Literal(h.context)
  <1> DEFINE v == Lookup(f, "context")
  <1>1. CASE h.context \in DOMAIN ContextName
    <2>1. v = Word(ContextName[h.context])
      BY <1>1 DEF GivesHeader, Gives
    <2>2. v[1] = "word" /\ v[2] = ContextName[h.context]
      BY <2>1 DEF Word
    <2>3. QED
      BY <1>1, <2>2, NamedOnce DEF PutContext
  <1>2. CASE h.context \notin DOMAIN ContextName
    <2>1. v = Hex(Literal(h.context))
      BY <1>2 DEF GivesHeader, Gives
    <2>2. v[1] # "word" /\ v[2] = Literal(h.context)
      BY <2>1 DEF Hex
    <2>3. QED
      BY <2>2 DEF PutContext
  <1>3. QED
    BY <1>1, <1>2

LEMMA CatOfFive ==
  ASSUME NEW a, NEW b, NEW c, NEW d, NEW e, IsSeq(a)
  PROVE  Cat(<<a, b, c, d, e>>) = Join(Join(Join(Join(a, b), c), d), e)
  <1> DEFINE parts == <<a, b, c, d, e>>
  <1>1. /\ Len(parts) = 5 /\ parts[1] = a /\ parts[2] = b /\ parts[3] = c /\ parts[4] = d
        /\ parts[5] = e
    OBVIOUS
  <1> HIDE DEF parts
  <1>2. PICK f : /\ f[0] = << >> /\ f[Len(parts)] = Cat(parts)
                 /\ \A i \in 1..Len(parts) : f[i] = Join(f[i - 1], parts[i])
    <2>1. Len(parts) \in Nat
      BY <1>1
    <2>2. QED
      BY <2>1, CatByPrefixes
  <1>3. /\ f[1] = Join(f[0], a) /\ f[2] = Join(f[1], b) /\ f[3] = Join(f[2], c)
        /\ f[4] = Join(f[3], d) /\ f[5] = Join(f[4], e)
    BY <1>1, <1>2
  <1>4. Join(<< >>, a) = a
    BY EmptyEcho DEF Join
  <1>5. QED
    BY <1>1, <1>2, <1>3, <1>4 DEF parts

(* the middle of a header, in one piece or in two *)
LEMMA HeaderMiddle ==
  ASSUME NEW b, IsLine(b), Header(b).ok
  PROVE  LET h == Header(b)
             two == <<Piece(<<"byte", h.flags>>, 0, 1), Piece(<<"byte", h.hops>>, 0, 1)>>
             three == <<Piece(<<"byte", h.flags>>, 0, 1), Piece(<<"byte", h.hops>>, 0, 1),
                        Piece(Line(h.line), 2, h.at - 1)>>
         IN  /\ Join(Join(two, h.transport_id), h.destination_hash) = three
             /\ Join(two, At(b, 2, HeaderLen(b) - 3)) = three
  <1> DEFINE h == Header(b)
             x == Piece(<<"byte", h.flags>>, 0, 1)
             y == Piece(<<"byte", h.hops>>, 0, 1)
             z == Piece(Line(h.line), 2, h.at - 1)
             two == <<x, y>>
             of == Line(h.line)
  <1>1. /\ h.at = HeaderLen(b) /\ h.line = b.line /\ h.type = Bits(b.flags, 6, 1)
        /\ h.transport_id = IF h.type = 1 THEN At(b, 2, ADDRLEN) ELSE << >>
        /\ h.destination_hash = At(b, IF h.type = 1 THEN 2 + ADDRLEN ELSE 2, ADDRLEN)
    BY DEF Header, Fault
  <1>2. /\ h.type \in {0, 1} /\ h.at = 19 + 16 * h.type
    BY <1>1, HeaderTaken
  <1>3. \A from, n : At(b, from, n) = Mem(of, from, n)
    BY <1>1 DEF At
  <1>4. EndsBeside(two, of)
    <2>1. Last(two) = y /\ IsSeq(two)
      BY TuplesAreSeqs DEF Last
    <2>2. y.of = <<"byte", h.hops>> /\ of = <<"line", h.line>>
      BY DEF Piece, Line
    <2>3. <<"byte", h.hops>> # <<"line", h.line>>
      OBVIOUS
    <2> HIDE DEF y, of, two
    <2>4. QED
      BY <2>1, <2>2, <2>3 DEF EndsBeside
  <1>5. \A n \in Nat : Mem(of, 2, n) = IF n = 0 THEN << >> ELSE <<Piece(of, 2, 2 + n)>>
    BY DEF Mem
  <1> HIDE DEF h, x, y, two, of
  <1>6. \A j, k \in Nat : Join(Onto(two, of, 2, j), Mem(of, 2 + j, k)) = Onto(two, of, 2, j + k)
    BY <1>4, RunsOn
  <1>7. Onto(two, of, 2, 0) = two
    <2>1. IsSeq(two)
      BY <1>4 DEF EndsBeside
    <2>2. two \o << >> = two
      BY <2>1 DEF IsSeq
    <2>3. QED
      BY <1>5, <2>2 DEF Onto
  <1>8. \A n \in Nat : Join(two, Mem(of, 2, n)) = Onto(two, of, 2, n)
    <2>1. TAKE n \in Nat
    <2>2. Join(Onto(two, of, 2, 0), Mem(of, 2 + 0, n)) = Onto(two, of, 2, 0 + n)
      BY <1>6
    <2>3. 2 + 0 = 2 /\ 0 + n = n
      OBVIOUS
    <2>4. QED
      BY <1>7, <2>2, <2>3
  <1>9. Onto(two, of, 2, h.at - 3) = <<x, y, z>>
    <2>1. h.at - 3 \in Nat /\ h.at - 3 # 0 /\ 2 + (h.at - 3) = h.at - 1
      BY <1>2
    <2>2. Mem(of, 2, h.at - 3) = <<z>>
      <3>1. Mem(of, 2, h.at - 3) = <<Piece(of, 2, 2 + (h.at - 3))>>
        BY <1>5, <2>1
      <3>2. QED
        BY <2>1, <3>1 DEF of
    <2> HIDE DEF z
    <2>3. <<x, y>> \o <<z>> = <<x, y, z>>
      BY FourPieces
    <2>4. QED
      BY <2>2, <2>3 DEF Onto, two
  <1>10. Join(two, At(b, 2, HeaderLen(b) - 3)) = <<x, y, z>>
    <2>1. h.at - 3 \in Nat /\ HeaderLen(b) - 3 = h.at - 3
      BY <1>1, <1>2
    <2>2. QED
      BY <1>3, <1>8, <1>9, <2>1
  <1>11. Join(Join(two, h.transport_id), h.destination_hash) = <<x, y, z>>
    <2>1. CASE h.type = 0
      <3>1. h.transport_id = << >> /\ h.destination_hash = Mem(of, 2, 16) /\ h.at - 3 = 16
        BY <1>1, <1>2, <1>3, <2>1 DEF ADDRLEN
      <3>2. Join(two, << >>) = two
        <4>1. two \o << >> = two
          BY <1>4 DEF EndsBeside, IsSeq
        <4>2. QED
          BY <4>1 DEF Join
      <3>3. QED
        BY <1>8, <1>9, <3>1, <3>2
    <2>2. CASE h.type = 1
      <3>1. h.transport_id = Mem(of, 2, 16) /\ h.destination_hash = Mem(of, 2 + 16, 16)
            /\ h.at - 3 = 16 + 16
        BY <1>1, <1>2, <1>3, <2>2 DEF ADDRLEN
      <3>2. Join(two, h.transport_id) = Onto(two, of, 2, 16)
        BY <1>8, <3>1
      <3>3. Join(Onto(two, of, 2, 16), Mem(of, 2 + 16, 16)) = Onto(two, of, 2, 16 + 16)
        BY <1>6
      <3>4. QED
        BY <1>9, <3>1, <3>2, <3>3
    <2>3. QED
      BY <1>2, <2>1, <2>2
  <1>12. QED
    BY <1>10, <1>11 DEF two, x, y, z, h

(* what is put together from a file is the bytes of the packet, and as many *)
LEMMA HeaderPut ==
  ASSUME NEW b, IsLine(b), Header(b).ok, NEW f, GivesHeader(f, Header(b))
  PROVE  PutHeader(f) = HeaderBytes(Header(b))
  <1> DEFINE h == Header(b)
             x == Literal(h.flags)
             y == Literal(h.hops)
             z == Literal(h.context)
  <1>1. /\ Put(f, "flags") = x /\ PutHops(f) = y /\ PutContext(f) = z
        /\ Put(f, "transport_id") = h.transport_id
        /\ Put(f, "destination_hash") = h.destination_hash
    <2>1. \A v, w : Hex(v)[2] = v /\ Decimal(w)[2] = w
      BY DEF Hex, Decimal
    <2>2. PutContext(f) = z
      BY ContextPut
    <2> HIDE DEF h, x, y, z
    <2>3. /\ Lookup(f, "flags") = Hex(x) /\ Lookup(f, "hops") = Decimal(h.hops)
          /\ Lookup(f, "transport_id") = Hex(h.transport_id)
          /\ Lookup(f, "destination_hash") = Hex(h.destination_hash)
      BY DEF GivesHeader, Gives, h, x
    <2>4. QED
      BY <2>1, <2>2, <2>3 DEF Put, PutHops, y
  <1>2. IsSeq(x)
    BY LiteralPiece, TuplesAreSeqs
  <1>3. PutHeader(f) = Cat(<<x, y, h.transport_id, h.destination_hash, z>>)
    BY <1>1 DEF PutHeader
  <1>4. PutHeader(f) = Join(Join(Join(Join(x, y), h.transport_id), h.destination_hash), z)
    BY <1>2, <1>3, CatOfFive
  <1> DEFINE two == <<Piece(<<"byte", h.flags>>, 0, 1), Piece(<<"byte", h.hops>>, 0, 1)>>
             three == <<Piece(<<"byte", h.flags>>, 0, 1), Piece(<<"byte", h.hops>>, 0, 1),
                        Piece(Line(h.line), 2, h.at - 1)>>
             four == HeaderBytes(h)
  <1>5. Join(Join(two, h.transport_id), h.destination_hash) = three
    BY HeaderMiddle
  <1>6. Join(x, y) = two /\ Join(three, z) = four
    BY HeaderLiterals
  <1> HIDE DEF h, x, y, z, two, three, four
  <1>7. PutHeader(f) = four
    BY <1>4, <1>5, <1>6
  <1>8. QED
    BY <1>7 DEF four, h

(* the packet of raw, and how long it is *)
LEMMA PacketOfHeader ==
  ASSUME NEW b, IsLine(b), Header(b).ok
  PROVE  PacketBytes(b) = Onto(HeaderBytes(Header(b)), Line(Header(b).line),
                               Header(b).at, Header(b).payload_len)
  <1> DEFINE h == Header(b)
             x == Literal(h.flags)
             y == Literal(h.hops)
             z == Literal(h.context)
             middle == At(b, 2, HeaderLen(b) - 3)
             of == Line(h.line)
             two == <<Piece(<<"byte", h.flags>>, 0, 1), Piece(<<"byte", h.hops>>, 0, 1)>>
             three == <<Piece(<<"byte", h.flags>>, 0, 1), Piece(<<"byte", h.hops>>, 0, 1),
                        Piece(Line(h.line), 2, h.at - 1)>>
             four == HeaderBytes(h)
  <1>1. /\ h.flags = b.flags /\ h.hops = b.hops /\ h.context = b.context /\ h.line = b.line
        /\ h.at = HeaderLen(b) /\ h.payload_len = b.len - HeaderLen(b)
    BY DEF Header, Fault
  <1>2. h.at \in Nat /\ h.payload_len \in Nat
    BY <1>1, HeaderTaken
  <1>3. IsSeq(x)
    BY LiteralPiece, TuplesAreSeqs
  <1>4. At(b, HeaderLen(b), b.len - HeaderLen(b)) = Mem(of, h.at, h.payload_len)
    BY <1>1 DEF At
  <1>5. PacketBytes(b) = Cat(<<x, y, middle, z, Mem(of, h.at, h.payload_len)>>)
    BY <1>1, <1>4 DEF PacketBytes
  <1>6. Join(x, y) = two /\ Join(three, z) = four
    BY HeaderLiterals
  <1>7. Join(two, middle) = three
    BY HeaderMiddle
  <1>8. EndsBeside(four, of)
    BY HeaderEnds
  <1> HIDE DEF h, x, y, z, middle, of, two, three, four
  <1>9. PacketBytes(b) = Join(four, Mem(of, h.at, h.payload_len))
    BY <1>3, <1>5, <1>6, <1>7, CatOfFive
  <1>10. Onto(four, of, h.at, 0) = four
    <2>1. IsSeq(four)
      BY <1>8 DEF EndsBeside
    <2>2. four \o << >> = four
      BY <2>1 DEF IsSeq
    <2>3. QED
      BY <2>2 DEF Onto, Mem
  <1>11. Join(Onto(four, of, h.at, 0), Mem(of, h.at + 0, h.payload_len))
           = Onto(four, of, h.at, 0 + h.payload_len)
    <2>1. \A i, j \in Nat : Join(Onto(four, of, i, 0), Mem(of, i + 0, j)) = Onto(four, of, i, 0 + j)
      BY <1>8, RunsOn
    <2>2. QED
      BY <1>2, <2>1
  <1>12. h.at + 0 = h.at /\ 0 + h.payload_len = h.payload_len
    BY <1>2
  <1>13. PacketBytes(b) = Onto(four, of, h.at, h.payload_len)
    BY <1>9, <1>10, <1>11, <1>12
  <1>14. QED
    BY <1>13 DEF four, of, h

LEMMA PacketSize ==
  ASSUME NEW b, IsLine(b), Header(b).ok
  PROVE  Size(PacketBytes(b)) = b.len
  <1> DEFINE h == Header(b)
             of == Line(h.line)
             four == HeaderBytes(h)
             rest == Mem(of, h.at, h.payload_len)
             s == PacketBytes(b)
             n == h.payload_len
  <1>1. /\ h.at = HeaderLen(b) /\ n = b.len - HeaderLen(b)
        /\ h.at \in Nat /\ n \in Nat /\ b.len = h.at + n /\ h.at >= 19
    <2>1. h.at = HeaderLen(b)
      BY DEF Header, Fault
    <2>2. QED
      BY <2>1, HeaderTaken
  <1>2. s = four \o rest
    BY PacketOfHeader DEF Onto
  <1>3. /\ IsSeq(four) /\ Len(four) = 4
        /\ four[1].from = 0 /\ four[1].to = 1 /\ four[2].from = 0 /\ four[2].to = 1
        /\ four[3].from = 2 /\ four[3].to = h.at - 1 /\ four[4].from = 0 /\ four[4].to = 1
    BY TuplesAreSeqs DEF HeaderBytes, Piece
  <1>4. CASE n = 0
    <2>1. s = four
      <3>1. rest = << >>
        BY <1>4 DEF Mem
      <3> HIDE DEF s, four, rest
      <3>2. four \o << >> = four
        BY <1>3 DEF IsSeq
      <3>3. QED
        BY <1>2, <3>1, <3>2
    <2> HIDE DEF s, four, rest, h
    <2>2. /\ Len(s) = 4 /\ s[1] = four[1] /\ s[2] = four[2] /\ s[3] = four[3] /\ s[4] = four[4]
      BY <1>3, <2>1
    <2>3. PICK f : /\ f[0] = 0 /\ f[Len(s)] = Size(s)
                   /\ \A i \in 1..Len(s) : f[i] = f[i - 1] + s[i].to - s[i].from
      <3>1. Len(s) \in Nat
        BY <2>2
      <3>2. QED
        BY <3>1, SizeOf
    <2>4. f[1] = 1
      BY <1>3, <2>2, <2>3
    <2>5. f[2] = 2
      BY <1>3, <2>2, <2>3, <2>4
    <2>6. f[3] = h.at - 1
      BY <1>1, <1>3, <2>2, <2>3, <2>5
    <2>7. f[4] = h.at
      BY <1>1, <1>3, <2>2, <2>3, <2>6
    <2>8. QED
      BY <1>1, <1>4, <2>2, <2>3, <2>7 DEF s
  <1>5. CASE n # 0
    <2>1. IsSeq(rest) /\ Len(rest) = 1 /\ rest[1].from = h.at /\ rest[1].to = h.at + n
      BY <1>5, TuplesAreSeqs DEF Mem, Piece
    <2> HIDE DEF s, four, rest, h
    <2>2. /\ Len(s) = 5 /\ s[1] = four[1] /\ s[2] = four[2] /\ s[3] = four[3] /\ s[4] = four[4]
          /\ s[5] = rest[1]
      <3>1. /\ Len(s) = Len(four) + Len(rest) /\ \A i \in 1..Len(four) : s[i] = four[i]
            /\ \A i \in 1..Len(rest) : s[Len(four) + i] = rest[i]
        <4>1. IsSeq(four) /\ IsSeq(rest)
          BY <1>3, <2>1
        <4>2. QED
          BY ONLY <1>2, <4>1, SeqsJoin
      <3>2. QED
        BY <1>3, <2>1, <3>1
    <2>3. PICK f : /\ f[0] = 0 /\ f[Len(s)] = Size(s)
                   /\ \A i \in 1..Len(s) : f[i] = f[i - 1] + s[i].to - s[i].from
      <3>1. Len(s) \in Nat
        BY <2>2
      <3>2. QED
        BY <3>1, SizeOf
    <2>4. f[1] = 1
      BY <1>3, <2>2, <2>3
    <2>5. f[2] = 2
      BY <1>3, <2>2, <2>3, <2>4
    <2>6. f[3] = h.at - 1
      BY <1>1, <1>3, <2>2, <2>3, <2>5
    <2>7. f[4] = h.at
      BY <1>1, <1>3, <2>2, <2>3, <2>6
    <2>8. f[5] = h.at + n
      BY <1>1, <2>1, <2>2, <2>3, <2>7
    <2>9. QED
      BY <1>1, <2>2, <2>3, <2>8 DEF s
  <1>6. QED
    BY <1>4, <1>5

-----------------------------------------------------------------------------
(* A file that says of every part of a payload what stands between its two  *)
(* stops, the first at 0 and the last at the end.                           *)
Cuts(stops, h, n) ==
  /\ stops[1] = 0 /\ stops[n + 1] = h.payload_len
  /\ \A i \in 1..n : stops[i] \in Nat /\ stops[i + 1] \in Nat /\ stops[i] <= stops[i + 1]

PartBetween(h, stops, i) == Payload(h, stops[i], stops[i + 1] - stops[i])

SaysPayload(f, packed, h) ==
  /\ IsSeq(packed) /\ Len(packed) # 0
  /\ \E stops : /\ Cuts(stops, h, Len(packed))
                /\ \A i \in 1..Len(packed) : Gives(f, packed[i], Hex(PartBetween(h, stops, i)))

(* the packet comes back *)
LEMMA PacketPut ==
  ASSUME NEW b, IsLine(b), Header(b).ok, NEW f, GivesHeader(f, Header(b)),
         NEW packed, SaysPayload(f, packed, Header(b))
  PROVE  Cat(<<PutHeader(f)>> \o [i \in 1..Len(packed) |-> Put(f, packed[i])]) = PacketBytes(b)
  <1> DEFINE h == Header(b)
             n == Len(packed)
             four == HeaderBytes(h)
             values == [i \in 1..n |-> Put(f, packed[i])]
             one == <<PutHeader(f)>>
             parts == one \o values
  <1>1. PICK stops : /\ Cuts(stops, h, n)
                     /\ \A i \in 1..n : Gives(f, packed[i], Hex(PartBetween(h, stops, i)))
    BY DEF SaysPayload
  <1> DEFINE pieces == [i \in 1..n |-> PartBetween(h, stops, i)]
  <1>2. n \in Nat /\ n # 0
    <2>1. IsSeq(packed) /\ Len(packed) # 0
      BY DEF SaysPayload
    <2>2. QED
      BY <2>1, SeqsJoin
  <1>3. Len(pieces) = n /\ \A i \in 1..n : pieces[i] = Payload(h, stops[i], stops[i + 1] - stops[i])
    BY <1>2 DEF PartBetween
  <1>4. \A i \in 1..n : values[i] = pieces[i]
    <2>1. \A v : Hex(v)[2] = v
      BY DEF Hex
    <2>2. \A i \in 1..n : Put(f, packed[i]) = PartBetween(h, stops, i)
      BY <1>1, <2>1 DEF Gives, Put
    <2>3. QED
      BY <2>2
  <1>5. /\ IsSeq(one) /\ Len(one) = 1 /\ one[1] = PutHeader(f)
    BY TuplesAreSeqs
  <1>6. IsSeq(values) /\ Len(values) = n
    <2> DEFINE S == {values[i] : i \in 1..n}
    <2>1. values \in Seq(S) /\ Len(values) = n
      BY <1>2
    <2> HIDE DEF values, S
    <2>2. QED
      BY <2>1 DEF IsSeq
  <1>7. PutHeader(f) = four
    BY HeaderPut
  <1>8. EndsBeside(four, Line(h.line))
    BY HeaderEnds
  <1>9. h.at \in Nat
    <2>1. h.at = HeaderLen(b)
      BY DEF Header, Fault
    <2>2. QED
      BY <2>1, HeaderTaken
  <1>10. PacketBytes(b) = Onto(four, Line(h.line), h.at, h.payload_len)
    BY PacketOfHeader
  <1> HIDE DEF h, four, values, one, pieces
  <1>11. Laid(pieces, stops, h)
    BY <1>1, <1>2, <1>3 DEF Cuts, Laid
  <1>12. /\ Len(parts) = Len(one) + Len(values)
         /\ \A i \in 1..Len(one) : parts[i] = one[i]
         /\ \A i \in 1..Len(values) : parts[Len(one) + i] = values[i]
    <2>1. IsSeq(one) /\ IsSeq(values)
      BY <1>5, <1>6
    <2>2. QED
      BY ONLY <2>1, SeqsJoin
  <1> HIDE DEF parts
  <1>13. Len(parts) = Len(pieces) + 1 /\ parts[1] = four
    BY <1>2, <1>3, <1>5, <1>6, <1>7, <1>12
  <1>14. \A i \in 1..Len(pieces) : parts[i + 1] = pieces[i]
    <2>1. ASSUME NEW i \in 1..n PROVE parts[i + 1] = pieces[i]
      <3>1. parts[1 + i] = values[i] /\ 1 + i = i + 1
        BY <1>2, <1>5, <1>6, <1>12
      <3>2. QED
        BY <1>4, <3>1
    <2>2. QED
      BY <1>3, <2>1
  <1>15. Fronted(parts, four, pieces)
    BY <1>13, <1>14 DEF Fronted
  <1>16. Cat(parts) = Onto(four, Line(h.line), h.at, h.payload_len)
    BY ONLY <1>8, <1>9, <1>11, <1>15, LaidOut, Zenon
  <1>17. QED
    BY <1>10, <1>16 DEF parts, one, values, h

(* raw of n lines, the last a packet *)
Remade(b, n) == [i \in 1..n |-> IF i = n THEN PacketBytes(b[n]) ELSE Whole(b[i])]

GivesEchoed(f, echoed, b) == \A i \in 1..Len(echoed) : Gives(f, echoed[i], Hex(Whole(b[i])))

LEMMA LayoutPut ==
  ASSUME NEW b, NEW n \in Nat, n # 0, IsLine(b[n]), Header(b[n]).ok, b[n].len <= MAXBLOB,
         NEW f, GivesHeader(f, Header(b[n])),
         NEW packed, SaysPayload(f, packed, Header(b[n])),
         NEW echoed, Len(echoed) = n - 1, GivesEchoed(f, echoed, b)
  PROVE  EncodeLayout(echoed, packed, f) = Printed(Remade(b, n))
  <1> DEFINE h == Header(b[n])
             lines == [i \in 1..Len(echoed) |-> Put(f, echoed[i])]
             missing == SelectInSeq(echoed, LAMBDA name : ~Holds(f, name))
             bytes == Cat(<<PutHeader(f)>> \o [i \in 1..Len(packed) |-> Put(f, packed[i])])
             all == HeaderFields \o packed
  <1>1. missing = 0
    <2>1. \A i \in 1..Len(echoed) : Holds(f, echoed[i])
      BY DEF GivesEchoed, Gives, Holds
    <2> DEFINE I == {i \in 1..Len(echoed) : ~Holds(f, echoed[i])}
    <2>2. I = {}
      BY <2>1
    <2>3. missing = IF I # {} THEN Min(I) ELSE 0
      BY DEF SelectInSeq
    <2> HIDE DEF I, missing
    <2>4. QED
      BY <2>2, <2>3
  <1>2. packed # << >>
    BY DEF SaysPayload
  <1>3. bytes = PacketBytes(b[n])
    BY PacketPut
  <1>4. ~(Size(bytes) > MAXBLOB)
    <2>1. Size(bytes) = b[n].len
      BY <1>3, PacketSize
    <2>2. b[n].len \in Nat
      BY DEF IsLine
    <2>3. QED
      BY <2>1, <2>2 DEF MAXBLOB
  <1>5. \A name \in Range(all) : Holds(f, name)
    <2>1. /\ IsSeq(HeaderFields) /\ Len(HeaderFields) = 5
          /\ \A i \in 1..5 : HeaderFields[i] \in {"flags", "hops", "transport_id",
                                                  "destination_hash", "context"}
      <3>1. HeaderFields \in Seq({"flags", "hops", "transport_id", "destination_hash", "context"})
        BY DEF HeaderFields
      <3>2. Len(HeaderFields) = 5
        BY DEF HeaderFields
      <3>3. IsSeq(HeaderFields)
        BY ONLY <3>1, Zenon DEF IsSeq
      <3>4. QED
        BY <3>2, <3>3 DEF HeaderFields
    <2>2. IsSeq(packed) /\ \A i \in 1..Len(packed) : Holds(f, packed[i])
      BY DEF SaysPayload, Gives, Holds
    <2>3. \A i \in 1..5 : Holds(f, HeaderFields[i])
      BY <2>1 DEF GivesHeader, Gives, Holds
    <2>4. /\ IsSeq(all) /\ Len(packed) \in Nat /\ Len(all) = 5 + Len(packed)
          /\ \A i \in 1..5 : all[i] = HeaderFields[i]
          /\ \A i \in 1..Len(packed) : all[5 + i] = packed[i]
      <3>1. /\ IsSeq(all) /\ Len(packed) \in Nat /\ Len(all) = Len(HeaderFields) + Len(packed)
            /\ \A i \in 1..Len(HeaderFields) : all[i] = HeaderFields[i]
            /\ \A i \in 1..Len(packed) : all[Len(HeaderFields) + i] = packed[i]
        <4>1. IsSeq(HeaderFields) /\ IsSeq(packed)
          BY <2>1, <2>2
        <4>2. QED
          BY ONLY <4>1, SeqsJoin
      <3> HIDE DEF all
      <3>2. QED
        BY <2>1, <3>1
    <2> HIDE DEF all
    <2>5. ASSUME NEW i \in 1..Len(all) PROVE Holds(f, all[i])
      <3>1. CASE i \in 1..5
        BY <2>3, <2>4, <3>1
      <3>2. CASE i \notin 1..5
        <4>1. i - 5 \in 1..Len(packed) /\ i = 5 + (i - 5)
          BY <2>4, <3>2
        <4>2. all[i] = packed[i - 5]
          BY <2>4, <4>1
        <4>3. QED
          BY <2>2, <4>1, <4>2
      <3>3. QED
        BY <3>1, <3>2
    <2>6. DOMAIN all = 1..Len(all)
      BY <2>4 DEF IsSeq
    <2>7. QED
      BY <2>5, <2>6 DEF Range
  <1>6. EncodeLayout(echoed, packed, f) = Printed(Append(lines, bytes))
    <2> HIDE DEF lines, missing, bytes, all
    <2>1. EncodeLayout(echoed, packed, f) =
            IF missing # 0
            THEN Stopped([i \in 1..(missing - 1) |-> Put(f, echoed[i])])
            ELSE IF packed = << >> THEN Printed(lines)
            ELSE IF \E name \in Range(all) : ~Holds(f, name)
            THEN Stopped(lines)
            ELSE IF Size(bytes) > MAXBLOB THEN Stopped(lines)
            ELSE Printed(Append(lines, bytes))
      BY DEF EncodeLayout, lines, missing, bytes, all
    <2>2. QED
      BY <1>1, <1>2, <1>4, <1>5, <2>1
  <1>7. \A i \in 1..(n - 1) : lines[i] = Whole(b[i])
    <2>1. \A v : Hex(v)[2] = v
      BY DEF Hex
    <2>2. QED
      BY <2>1 DEF GivesEchoed, Gives, Put
  <1>8. Append(lines, bytes) = Remade(b, n)
    <2>1. lines = [i \in 1..(n - 1) |-> lines[i]]
      OBVIOUS
    <2> HIDE DEF lines, bytes
    <2> DEFINE S == {lines[i] : i \in 1..(n - 1)} \union {bytes}
    <2>2. lines \in Seq(S) /\ Len(lines) = n - 1 /\ bytes \in S
      BY <2>1
    <2> HIDE DEF S
    <2>3. /\ Len(Append(lines, bytes)) = n
          /\ Append(lines, bytes) = [i \in 1..n |-> Append(lines, bytes)[i]]
          /\ Append(lines, bytes)[n] = bytes
          /\ \A i \in 1..(n - 1) : Append(lines, bytes)[i] = lines[i]
      <3>1. /\ Append(lines, bytes) \in Seq(S) /\ Len(Append(lines, bytes)) = Len(lines) + 1
            /\ \A i \in 1..Len(lines) : Append(lines, bytes)[i] = lines[i]
            /\ Append(lines, bytes)[Len(lines) + 1] = bytes
        BY ONLY <2>2, AppendProperties
      <3>2. (n - 1) + 1 = n
        OBVIOUS
      <3> DEFINE t == Append(lines, bytes)
      <3> HIDE DEF t
      <3>3. t \in Seq(S) /\ Len(t) = n
        BY <2>2, <3>1, <3>2 DEF t
      <3>4. t = [i \in 1..n |-> t[i]]
        BY <3>3
      <3>5. QED
        BY <2>2, <3>1, <3>2, <3>3, <3>4 DEF t
    <2>4. \A i \in 1..n : Append(lines, bytes)[i] = IF i = n THEN PacketBytes(b[n]) ELSE Whole(b[i])
      BY <1>3, <1>7, <2>3
    <2>5. QED
      BY <2>3, <2>4 DEF Remade
  <1>9. QED
    BY <1>6, <1>8

(* a name that is not there ends the program *)
LEMMA LayoutStops ==
  ASSUME NEW f, NEW echoed, NEW packed, IsSeq(packed), packed # << >>, NEW name,
         name \in Range(HeaderFields) \union Range(packed), name \notin Names(f)
  PROVE  EncodeLayout(echoed, packed, f).status = 1
  <1> DEFINE lines == [i \in 1..Len(echoed) |-> Put(f, echoed[i])]
             missing == SelectInSeq(echoed, LAMBDA x : ~Holds(f, x))
             bytes == Cat(<<PutHeader(f)>> \o [i \in 1..Len(packed) |-> Put(f, packed[i])])
             all == HeaderFields \o packed
  <1>1. name \in Range(all)
    <2>1. IsSeq(HeaderFields) /\ DOMAIN HeaderFields = 1..Len(HeaderFields)
      <3>1. HeaderFields \in Seq({"flags", "hops", "transport_id", "destination_hash", "context"})
        BY DEF HeaderFields
      <3>2. QED
        BY <3>1 DEF IsSeq
    <2>2. DOMAIN packed = 1..Len(packed)
      BY DEF IsSeq
    <2>3. /\ IsSeq(all) /\ Len(all) = Len(HeaderFields) + Len(packed)
          /\ Len(packed) \in Nat /\ Len(HeaderFields) \in Nat
          /\ \A i \in 1..Len(HeaderFields) : all[i] = HeaderFields[i]
          /\ \A i \in 1..Len(packed) : all[Len(HeaderFields) + i] = packed[i]
      BY <2>1, SeqsJoin
    <2> HIDE DEF all
    <2>4. DOMAIN all = 1..Len(all)
      BY <2>3 DEF IsSeq
    <2>5. CASE name \in Range(HeaderFields)
      <3>1. PICK i \in 1..Len(HeaderFields) : HeaderFields[i] = name
        BY <2>1, <2>5 DEF Range
      <3>2. i \in DOMAIN all /\ all[i] = name
        BY <2>3, <2>4, <3>1
      <3>3. QED
        BY <3>2 DEF Range
    <2>6. CASE name \in Range(packed)
      <3>1. PICK i \in 1..Len(packed) : packed[i] = name
        BY <2>2, <2>6 DEF Range
      <3>2. Len(HeaderFields) + i \in DOMAIN all /\ all[Len(HeaderFields) + i] = name
        BY <2>3, <2>4, <3>1
      <3>3. QED
        BY <3>2 DEF Range
    <2>7. QED
      BY <2>5, <2>6
  <1> HIDE DEF lines, missing, bytes, all
  <1>2. EncodeLayout(echoed, packed, f) =
            IF missing # 0
            THEN Stopped([i \in 1..(missing - 1) |-> Put(f, echoed[i])])
            ELSE IF packed = << >> THEN Printed(lines)
            ELSE IF \E x \in Range(all) : ~Holds(f, x)
            THEN Stopped(lines)
            ELSE IF Size(bytes) > MAXBLOB THEN Stopped(lines)
            ELSE Printed(Append(lines, bytes))
    BY DEF EncodeLayout, lines, missing, bytes, all
  <1>3. \E x \in Range(all) : ~Holds(f, x)
    BY <1>1 DEF Holds
  <1>4. \E x : EncodeLayout(echoed, packed, f) = Stopped(x)
    BY <1>2, <1>3
  <1>5. \A x : Stopped(x).status = 1
    BY DEF Stopped
  <1>6. QED
    BY <1>4, <1>5

-----------------------------------------------------------------------------
(* The class of a file, and what is rebuilt from it. *)
LEMMA ClassOf ==
  ASSUME NEW kind \in ENCODABLE, NEW f
  PROVE  /\ Accepts(f) => Determinism(kind, f) = "encode"
         /\ \A rule : Refuses(f, rule) =>
              Determinism(kind, f) = IF rule \in AFTER_PLAINTEXT THEN "encode" ELSE "decode"
  <1> DEFINE I == {i \in 1..Len(f) : f[i].name = "invalid"}
             invalid == SelectInSeq(f, LAMBDA l : l.name = "invalid")
  <1>1. invalid = IF I # {} THEN Min(I) ELSE 0
    BY DEF SelectInSeq
  <1>2. Determinism(kind, f) = IF invalid = 0 \/ f[invalid].value[2] \in AFTER_PLAINTEXT
                               THEN "encode" ELSE "decode"
    BY DEF Determinism
  <1>3. ASSUME Accepts(f) PROVE Determinism(kind, f) = "encode"
    <2>1. I = {}
      BY <1>3 DEF Accepts, Names
    <2> HIDE DEF I, invalid
    <2>2. QED
      BY <1>1, <1>2, <2>1
  <1>4. ASSUME NEW rule, Refuses(f, rule)
        PROVE  Determinism(kind, f) = IF rule \in AFTER_PLAINTEXT THEN "encode" ELSE "decode"
    <2>1. IsSeq(f) /\ "invalid" \in Names(f) /\ Lookup(f, "invalid") = Word(rule)
      BY <1>4 DEF Refuses
    <2>2. PICK k \in 1..Len(f) : f[k].name = "invalid" /\ \A i \in 1..(k - 1) : f[i].name # "invalid"
      <3>1. Len(f) \in Nat
        BY <2>1, SeqsJoin
      <3>2. QED
        BY <2>1, <3>1, FirstOfName
    <2>3. k \in I /\ \A i \in I : k <= i
      BY <2>2
    <2>4. \A x \in I : (\A y \in I : x <= y) => x = k
      BY <2>3
    <2>5. Min(I) = k
      BY <2>3, <2>4 DEF Min
    <2>6. Lookup(f, "invalid") = f[invalid].value
      BY DEF Lookup
    <2> HIDE DEF I, invalid
    <2>7. invalid = k /\ k # 0
      BY <1>1, <2>2, <2>3, <2>5
    <2>8. f[invalid].value = Word(rule)
      BY <2>1, <2>6
    <2>9. \A x : Word(x)[2] = x
      BY DEF Word
    <2>10. QED
      BY <1>2, <2>7, <2>8, <2>9
  <1>5. QED
    BY <1>3, <1>4

RoundTrip(v, f) ==
  (Encoded(v.kind, f).status = 0 /\ Encoded(v.kind, f).lines = Raw(v))
    <=> Determinism(v.kind, f) = "encode"

LaysOut(kind, f, echoed, packed) ==
  Encoded(kind, f) = IF Len(f) > MAXFIELDS THEN Stopped(<< >>)
                     ELSE EncodeLayout(echoed, packed, f)

Token4 == <<"ephemeral_public", "iv", "ciphertext", "hmac">>
AnnounceParts == <<"public_key", "name_hash", "random_hash", "ratchet", "signature", "app_data">>

LEMMA KindsLaidOut ==
  ASSUME NEW f
  PROVE  /\ LaysOut("identity", f, <<"public_key">>, << >>)
         /\ LaysOut("keyset", f, <<"private_key">>, << >>)
         /\ LaysOut("destination", f, <<"name", "identity_hash">>, << >>)
         /\ LaysOut("announce", f, << >>, AnnounceParts)
         /\ LaysOut("plain", f, << >>, <<"plaintext">>)
         /\ LaysOut("pathrequest", f, << >>, <<"wanted_hash", "requester_id", "tag">>)
         /\ LaysOut("encrypted", f, <<"recipient_private", "ratchet_private">>, Token4)
         /\ LaysOut("group", f, <<"group_key">>, Token3)
         /\ LaysOut("linkrequest", f, << >>, <<"x25519_public", "ed25519_public", "signalling">>)
         /\ LaysOut("linkproof", f, <<"link_request", "signer_public">>,
                    <<"signature", "x25519_public", "signalling">>)
         /\ LaysOut("proof", f, <<"proved_packet", "signer_public">>, <<"proof_hash", "signature">>)
         /\ LaysOut("resourceproof", f, <<"advertised_hash">>, <<"resource_hash", "resource_proof">>)
  <1> DEFINE K == {"identity", "keyset", "destination", "announce", "plain", "pathrequest",
             "encrypted", "group", "linkrequest", "linkproof", "proof", "resourceproof"}
  <1>1. DOMAIN Layout = K
    BY DEF Layout
  <1>2. /\ Layout["identity"] = <<<<"public_key">>, << >>>>
        /\ Layout["keyset"] = <<<<"private_key">>, << >>>>
        /\ Layout["destination"] = <<<<"name", "identity_hash">>, << >>>>
    BY DEF Layout
  <1>3. /\ Layout["announce"] = <<<< >>, AnnounceParts>>
        /\ Layout["plain"] = <<<< >>, <<"plaintext">>>>
        /\ Layout["pathrequest"] = <<<< >>, <<"wanted_hash", "requester_id", "tag">>>>
    BY DEF Layout, AnnounceParts
  <1>4. /\ Layout["encrypted"] = <<<<"recipient_private", "ratchet_private">>, Token4>>
        /\ Layout["group"] = <<<<"group_key">>, Token3>>
        /\ Layout["linkrequest"] = <<<< >>, <<"x25519_public", "ed25519_public", "signalling">>>>
    <2>1. <<"ephemeral_public">> \o Token3 = Token4
      <3> DEFINE one == <<"ephemeral_public">>
      <3>1. IsSeq(one) /\ IsSeq(Token3) /\ IsSeq(Token4)
        BY TuplesAreSeqs DEF Token3, Token4
      <3>2. /\ Len(one) = 1 /\ Len(Token3) = 3 /\ Len(Token4) = 4
            /\ one[1] = Token4[1] /\ Token3[1] = Token4[2] /\ Token3[2] = Token4[3]
            /\ Token3[3] = Token4[4]
        BY DEF Token3, Token4
      <3> HIDE DEF one
      <3>3. /\ IsSeq(one \o Token3) /\ Len(one \o Token3) = Len(one) + Len(Token3)
            /\ \A i \in 1..Len(one) : (one \o Token3)[i] = one[i]
            /\ \A i \in 1..Len(Token3) : (one \o Token3)[Len(one) + i] = Token3[i]
        BY ONLY <3>1, SeqsJoin
      <3>4. one \o Token3 = Token4
        <4> DEFINE s == one \o Token3
        <4> HIDE DEF s
        <4>1. Len(s) = 4 /\ s[1] = one[1]
          BY <3>2, <3>3 DEF s
        <4>2. s[1 + 1] = Token3[1] /\ s[1 + 2] = Token3[2] /\ s[1 + 3] = Token3[3]
          BY <3>2, <3>3 DEF s
        <4>3. \A i \in 1..Len(s) : s[i] = Token4[i]
          BY <3>2, <4>1, <4>2
        <4>4. IsSeq(s)
          BY <3>3 DEF s
        <4>5. s = Token4
          BY <3>1, <3>2, <4>1, <4>3, <4>4, SeqsAgree
        <4>6. QED
          BY <4>5 DEF s
      <3>5. QED
        BY <3>4 DEF one
    <2>2. QED
      BY <2>1 DEF Layout
  <1>5. /\ Layout["linkproof"] = <<<<"link_request", "signer_public">>,
                                   <<"signature", "x25519_public", "signalling">>>>
        /\ Layout["proof"] = <<<<"proved_packet", "signer_public">>, <<"proof_hash", "signature">>>>
        /\ Layout["resourceproof"] = <<<<"advertised_hash">>, <<"resource_hash", "resource_proof">>>>
    BY DEF Layout
  <1>6. ASSUME NEW kind \in K, NEW echoed, NEW packed, Layout[kind] = <<echoed, packed>>
        PROVE  LaysOut(kind, f, echoed, packed)
    <2>1. kind \in DOMAIN Layout \union {"linkdata"} /\ kind # "linkdata"
      BY <1>1
    <2>2. Layout[kind][1] = echoed /\ Layout[kind][2] = packed
      BY <1>6
    <2>3. QED
      BY <2>1, <2>2 DEF LaysOut, Encoded
  <1>7. QED
    BY <1>2, <1>3, <1>4, <1>5, <1>6

(* a packet that was read *)
LEMMA ReadPacket ==
  ASSUME NEW v, NEW n \in Nat, n # 0, Len(v.b) = n, v.kind \in PacketKinds,
         IsLine(v.b[n]), Header(v.b[n]).ok, v.b[n].len <= MAXBLOB,
         NEW f, Len(f) \in Nat, Len(f) <= MAXFIELDS, NEW echoed, NEW packed,
         LaysOut(v.kind, f, echoed, packed),
         GivesHeader(f, Header(v.b[n])), SaysPayload(f, packed, Header(v.b[n])),
         Len(echoed) = n - 1, GivesEchoed(f, echoed, v.b),
         Determinism(v.kind, f) = "encode"
  PROVE  RoundTrip(v, f)
  <1>1. Encoded(v.kind, f) = EncodeLayout(echoed, packed, f)
    BY DEF LaysOut, MAXFIELDS
  <1>2. EncodeLayout(echoed, packed, f) = Printed(Remade(v.b, n))
    BY LayoutPut
  <1>3. Raw(v) = Remade(v.b, n)
    <2>1. v.b[n].len >= HeaderLen(v.b[n])
      BY HeaderTaken
    <2>2. QED
      BY <2>1 DEF Raw, Remade
  <1>4. \A x : Printed(x).status = 0 /\ Printed(x).lines = x
    BY DEF Printed
  <1>5. QED
    BY <1>1, <1>2, <1>3, <1>4 DEF RoundTrip

(* and one that was not *)
LEMMA UnreadPacket ==
  ASSUME NEW v, v.kind \in ENCODABLE, NEW f, NEW echoed, NEW packed,
         LaysOut(v.kind, f, echoed, packed),
         IsSeq(packed), packed # << >>, NEW name,
         name \in Range(HeaderFields) \union Range(packed), name \notin Names(f),
         NEW rule, Refuses(f, rule), rule \notin AFTER_PLAINTEXT
  PROVE  RoundTrip(v, f)
  <1>1. EncodeLayout(echoed, packed, f).status = 1
    BY LayoutStops
  <1>2. \A x : Stopped(x).status = 1
    BY DEF Stopped
  <1>3. Encoded(v.kind, f).status # 0
    BY <1>1, <1>2 DEF LaysOut
  <1>4. Determinism(v.kind, f) # "encode"
    BY ClassOf
  <1>5. QED
    BY <1>3, <1>4 DEF RoundTrip

-----------------------------------------------------------------------------
(* Lines that give none of some names, and how many they are. *)
Free(s, names, n) == IsSeq(s) /\ Len(s) <= n /\ Names(s) \intersect names = {}

LEMMA FreeOn ==
  ASSUME NEW names, NEW m \in Nat, NEW n \in Nat, NEW k \in Nat, m + n <= k,
         NEW s, NEW t, Free(s, names, m), Free(t, names, n)
  PROVE  Free(s \o t, names, k)
  <1>1. IsSeq(s) /\ IsSeq(t)
    BY DEF Free
  <1>2. /\ IsSeq(s \o t) /\ Len(s) \in Nat /\ Len(t) \in Nat /\ Len(s \o t) = Len(s) + Len(t)
        /\ Names(s \o t) = Names(s) \union Names(t)
    BY ONLY <1>1, SeqsJoin, NamesJoin
  <1>3. Names(s) \intersect names = {} /\ Names(t) \intersect names = {}
    BY DEF Free
  <1>4. Names(s \o t) \intersect names = {}
    BY <1>2, <1>3
  <1>5. Len(s) <= m /\ Len(t) <= n
    BY DEF Free
  <1>6. Len(s \o t) <= k
    BY <1>2, <1>5
  <1>7. QED
    BY <1>2, <1>4, <1>6 DEF Free

LEMMA FreeParts ==
  ASSUME NEW names
  PROVE  /\ Free(<< >>, names, 0)
         /\ \A x, l : x \notin names => Free(<<Field(x, l)>>, names, 1)
         /\ \A x, l, y, m : x \notin names /\ y \notin names
                            => Free(<<Field(x, l), Field(y, m)>>, names, 2)
         /\ \A x, l, y, m, z, n : x \notin names /\ y \notin names /\ z \notin names
                            => Free(<<Field(x, l), Field(y, m), Field(z, n)>>, names, 3)
         /\ \A x, l, y, m, z, n, w, o :
              x \notin names /\ y \notin names /\ z \notin names /\ w \notin names
                => Free(<<Field(x, l), Field(y, m), Field(z, n), Field(w, o)>>, names, 4)
  <1>1. \A s : Lacks(s, names) /\ Len(s) <= 4 => Free(s, names, Len(s))
    <2>1. \A s : IsSeq(s) => Len(s) \in Nat
      BY SeqsJoin
    <2>2. QED
      BY <2>1 DEF Lacks, Free
  <1>2. /\ Len(<< >>) = 0
        /\ (\A a : Len(<<a>>) = 1)
        /\ (\A a, b : Len(<<a, b>>) = 2)
        /\ (\A a, b, c : Len(<<a, b, c>>) = 3)
        /\ (\A a, b, c, d : Len(<<a, b, c, d>>) = 4)
    OBVIOUS
  <1>3. Free(<< >>, names, 0)
    <2>1. Lacks(<< >>, names)
      BY FewLack
    <2>2. QED
      BY <1>2, <2>1 DEF Lacks, Free
  <1>4. \A x, l : x \notin names => Free(<<Field(x, l)>>, names, 1)
    <2>1. \A x, l : x \notin names => Lacks(<<Field(x, l)>>, names)
      BY FewLack
    <2>2. QED
      BY <1>2, <2>1 DEF Lacks, Free
  <1>5. \A x, l, y, m : x \notin names /\ y \notin names
                            => Free(<<Field(x, l), Field(y, m)>>, names, 2)
    <2>1. \A x, l, y, m : x \notin names /\ y \notin names
                            => Lacks(<<Field(x, l), Field(y, m)>>, names)
      BY FewLack
    <2>2. QED
      BY <1>2, <2>1 DEF Lacks, Free
  <1>6. \A x, l, y, m, z, n : x \notin names /\ y \notin names /\ z \notin names
                            => Free(<<Field(x, l), Field(y, m), Field(z, n)>>, names, 3)
    <2>1. \A x, l, y, m, z, n : x \notin names /\ y \notin names /\ z \notin names
                            => Lacks(<<Field(x, l), Field(y, m), Field(z, n)>>, names)
      BY FewLack
    <2>2. QED
      BY <1>2, <2>1 DEF Lacks, Free
  <1>7. \A x, l, y, m, z, n, w, o :
              x \notin names /\ y \notin names /\ z \notin names /\ w \notin names
                => Free(<<Field(x, l), Field(y, m), Field(z, n), Field(w, o)>>, names, 4)
    <2>1. \A x, l, y, m, z, n, w, o :
              x \notin names /\ y \notin names /\ z \notin names /\ w \notin names
                => Lacks(<<Field(x, l), Field(y, m), Field(z, n), Field(w, o)>>, names)
      BY FewLack
    <2>2. QED
      BY <1>2, <2>1 DEF Lacks, Free
  <1>8. QED
    BY <1>3, <1>4, <1>5, <1>6, <1>7

LEMMA FreeHeader ==
  ASSUME NEW h, NEW names, names \intersect HeaderNames = {}
  PROVE  Free(PrintHeader(h), names, 11)
  <1>1. IsSeq(PrintHeader(h)) /\ Len(PrintHeader(h)) = 11 /\ Names(PrintHeader(h)) = HeaderNames
    BY HeaderLines
  <1>2. QED
    BY <1>1 DEF Free

(* what lines give they give as well with others before and behind them *)
LEMMA GivesAfter ==
  ASSUME NEW s, NEW names, NEW n, Free(s, names, n), NEW t, NEW name \in names, NEW value,
         Gives(t, name, value)
  PROVE  Gives(s \o t, name, value)
  <1>1. Lacks(s, names)
    BY DEF Free, Lacks
  <1>2. QED
    BY <1>1, GivesBehind

LEMMA HeaderGives ==
  ASSUME NEW h
  PROVE  GivesHeader(PrintHeader(h), h)
  <1> DEFINE p == PrintHeader(h)
  <1>1. IsSeq(p) /\ Len(p) = 11
    BY HeaderLines
  <1>2. /\ p[1].name = "flags" /\ p[2].name = "header_type" /\ p[3].name = "context_flag"
        /\ p[4].name = "transport_type" /\ p[5].name = "destination_type"
        /\ p[6].name = "packet_type" /\ p[7].name = "hops" /\ p[8].name = "transport_id"
        /\ p[9].name = "destination_hash" /\ p[10].name = "context"
    BY DEF PrintHeader, Field
  <1>3. /\ p[1].value = Hex(Literal(h.flags)) /\ p[7].value = Decimal(h.hops)
        /\ p[8].value = Hex(h.transport_id) /\ p[9].value = Hex(h.destination_hash)
        /\ p[10].value = IF h.context \in DOMAIN ContextName
                         THEN Word(ContextName[h.context]) ELSE Hex(Literal(h.context))
    BY DEF PrintHeader, Field
  <1> HIDE DEF p
  <1>4. /\ \A i \in 1..(1 - 1) : FALSE
        /\ \A i \in 1..(7 - 1) : i \in {1, 2, 3, 4, 5, 6}
        /\ \A i \in 1..(8 - 1) : i \in {1, 2, 3, 4, 5, 6, 7}
        /\ \A i \in 1..(9 - 1) : i \in {1, 2, 3, 4, 5, 6, 7, 8}
        /\ \A i \in 1..(10 - 1) : i \in {1, 2, 3, 4, 5, 6, 7, 8, 9}
    OBVIOUS
  <1>5. 1 \in 1..Len(p) /\ 7 \in 1..Len(p) /\ 8 \in 1..Len(p) /\ 9 \in 1..Len(p) /\ 10 \in 1..Len(p)
    BY <1>1
  <1>6. Gives(p, "flags", Hex(Literal(h.flags)))
    BY <1>1, <1>2, <1>3, <1>4, <1>5, GivesAt
  <1>7. Gives(p, "hops", Decimal(h.hops))
    <2>1. \A i \in 1..(7 - 1) : p[i].name # "hops"
      BY <1>2, <1>4
    <2>2. QED
      BY <1>1, <1>2, <1>3, <1>5, <2>1, GivesAt
  <1>8. Gives(p, "transport_id", Hex(h.transport_id))
    <2>1. \A i \in 1..(8 - 1) : p[i].name # "transport_id"
      BY <1>2, <1>4
    <2>2. QED
      BY <1>1, <1>2, <1>3, <1>5, <2>1, GivesAt
  <1>9. Gives(p, "destination_hash", Hex(h.destination_hash))
    <2>1. \A i \in 1..(9 - 1) : p[i].name # "destination_hash"
      BY <1>2, <1>4
    <2>2. QED
      BY <1>1, <1>2, <1>3, <1>5, <2>1, GivesAt
  <1>10. Gives(p, "context", IF h.context \in DOMAIN ContextName
                             THEN Word(ContextName[h.context]) ELSE Hex(Literal(h.context)))
    <2>1. \A i \in 1..(10 - 1) : p[i].name # "context"
      BY <1>2, <1>4
    <2>2. QED
      BY <1>1, <1>2, <1>3, <1>5, <2>1, GivesAt
  <1>11. QED
    BY <1>6, <1>7, <1>8, <1>9, <1>10 DEF GivesHeader, p

LEMMA HeaderGivenOn ==
  ASSUME NEW h, NEW s, NEW t, IsSeq(t), GivesHeader(s, h)
  PROVE  GivesHeader(s \o t, h)
  BY GivesOn DEF GivesHeader

LEMMA HeaderGivenBehind ==
  ASSUME NEW h, NEW s, NEW names, NEW n, Free(s, names, n), HeaderNames \subseteq names
  PROVE  GivesHeader(s \o PrintHeader(h), h)
  <1>1. {"flags", "hops", "transport_id", "destination_hash", "context"} \subseteq names
    BY DEF HeaderNames
  <1>2. GivesHeader(PrintHeader(h), h)
    BY HeaderGives
  <1>3. QED
    BY <1>1, <1>2, GivesAfter DEF GivesHeader

-----------------------------------------------------------------------------
(* Payloads of one to six parts. *)
LEMMA SaysInOne ==
  ASSUME NEW f, NEW h, h.payload_len \in Nat,
         NEW x,
         Gives(f, x, Hex(Payload(h, 0, h.payload_len)))
  PROVE  SaysPayload(f, <<x>>, h)
  <1> DEFINE packed == <<x>>
             stops == <<0, h.payload_len>>
             P(i) == PartBetween(h, stops, i)
  <1>1. IsSeq(packed) /\ Len(packed) = 1 /\ packed[1] = x
    BY TuplesAreSeqs
  <1>2. stops[1] = 0 /\ stops[2] = h.payload_len
    OBVIOUS
  <1> HIDE DEF stops, packed
  <1>3. /\ P(1) = Payload(h, 0, h.payload_len)
    BY <1>2 DEF PartBetween
  <1>4. \A i \in 1..1 : i \in {1}
    OBVIOUS
  <1>5. Cuts(stops, h, 1)
    BY <1>2, <1>4 DEF Cuts
  <1> HIDE DEF P
  <1>6. \A i \in 1..1 : Gives(f, packed[i], Hex(P(i)))
    BY <1>1, <1>3, <1>4
  <1>7. QED
    BY <1>1, <1>5, <1>6 DEF SaysPayload, P, packed

LEMMA SaysInTwo ==
  ASSUME NEW f, NEW h, h.payload_len \in Nat, NEW a \in Nat,
         a <= h.payload_len,
         NEW x, NEW y,
         Gives(f, x, Hex(Payload(h, 0, a))),
         Gives(f, y, Hex(Payload(h, a, h.payload_len - a)))
  PROVE  SaysPayload(f, <<x, y>>, h)
  <1> DEFINE packed == <<x, y>>
             stops == <<0, a, h.payload_len>>
             P(i) == PartBetween(h, stops, i)
  <1>1. IsSeq(packed) /\ Len(packed) = 2 /\ packed[1] = x /\ packed[2] = y
    BY TuplesAreSeqs
  <1>2. stops[1] = 0 /\ stops[2] = a /\ stops[3] = h.payload_len
    OBVIOUS
  <1> HIDE DEF stops, packed
  <1>3. /\ P(1) = Payload(h, 0, a)
        /\ P(2) = Payload(h, a, h.payload_len - a)
    BY <1>2 DEF PartBetween
  <1>4. \A i \in 1..2 : i \in {1, 2}
    OBVIOUS
  <1>5. Cuts(stops, h, 2)
    BY <1>2, <1>4 DEF Cuts
  <1> HIDE DEF P
  <1>6. \A i \in 1..2 : Gives(f, packed[i], Hex(P(i)))
    BY <1>1, <1>3, <1>4
  <1>7. QED
    BY <1>1, <1>5, <1>6 DEF SaysPayload, P, packed

LEMMA SaysInThree ==
  ASSUME NEW f, NEW h, h.payload_len \in Nat, NEW a \in Nat, NEW b \in Nat,
         a <= b, b <= h.payload_len,
         NEW x, NEW y, NEW z,
         Gives(f, x, Hex(Payload(h, 0, a))),
         Gives(f, y, Hex(Payload(h, a, b - a))),
         Gives(f, z, Hex(Payload(h, b, h.payload_len - b)))
  PROVE  SaysPayload(f, <<x, y, z>>, h)
  <1> DEFINE packed == <<x, y, z>>
             stops == <<0, a, b, h.payload_len>>
             P(i) == PartBetween(h, stops, i)
  <1>1. IsSeq(packed) /\ Len(packed) = 3 /\ packed[1] = x /\ packed[2] = y /\ packed[3] = z
    BY TuplesAreSeqs
  <1>2. stops[1] = 0 /\ stops[2] = a /\ stops[3] = b /\ stops[4] = h.payload_len
    OBVIOUS
  <1> HIDE DEF stops, packed
  <1>3. /\ P(1) = Payload(h, 0, a)
        /\ P(2) = Payload(h, a, b - a)
        /\ P(3) = Payload(h, b, h.payload_len - b)
    BY <1>2 DEF PartBetween
  <1>4. \A i \in 1..3 : i \in {1, 2, 3}
    OBVIOUS
  <1>5. Cuts(stops, h, 3)
    BY <1>2, <1>4 DEF Cuts
  <1> HIDE DEF P
  <1>6. \A i \in 1..3 : Gives(f, packed[i], Hex(P(i)))
    BY <1>1, <1>3, <1>4
  <1>7. QED
    BY <1>1, <1>5, <1>6 DEF SaysPayload, P, packed

LEMMA SaysInFour ==
  ASSUME NEW f, NEW h, h.payload_len \in Nat, NEW a \in Nat, NEW b \in Nat, NEW c \in Nat,
         a <= b, b <= c, c <= h.payload_len,
         NEW x, NEW y, NEW z, NEW w,
         Gives(f, x, Hex(Payload(h, 0, a))),
         Gives(f, y, Hex(Payload(h, a, b - a))),
         Gives(f, z, Hex(Payload(h, b, c - b))),
         Gives(f, w, Hex(Payload(h, c, h.payload_len - c)))
  PROVE  SaysPayload(f, <<x, y, z, w>>, h)
  <1> DEFINE packed == <<x, y, z, w>>
             stops == <<0, a, b, c, h.payload_len>>
             P(i) == PartBetween(h, stops, i)
  <1>1. /\ IsSeq(packed) /\ Len(packed) = 4
        /\ packed[1] = x /\ packed[2] = y /\ packed[3] = z /\ packed[4] = w
    BY TuplesAreSeqs
  <1>2. stops[1] = 0 /\ stops[2] = a /\ stops[3] = b /\ stops[4] = c /\ stops[5] = h.payload_len
    OBVIOUS
  <1> HIDE DEF stops, packed
  <1>3. /\ P(1) = Payload(h, 0, a)
        /\ P(2) = Payload(h, a, b - a)
        /\ P(3) = Payload(h, b, c - b)
        /\ P(4) = Payload(h, c, h.payload_len - c)
    BY <1>2 DEF PartBetween
  <1>4. \A i \in 1..4 : i \in {1, 2, 3, 4}
    OBVIOUS
  <1>5. Cuts(stops, h, 4)
    BY <1>2, <1>4 DEF Cuts
  <1> HIDE DEF P
  <1>6. \A i \in 1..4 : Gives(f, packed[i], Hex(P(i)))
    BY <1>1, <1>3, <1>4
  <1>7. QED
    BY <1>1, <1>5, <1>6 DEF SaysPayload, P, packed

SixSaid(f, h, a, b, c, d, e, x, y, z, w, u, v) ==
  /\ h.payload_len \in Nat /\ a \in Nat /\ b \in Nat /\ c \in Nat /\ d \in Nat /\ e \in Nat
  /\ a <= b /\ b <= c /\ c <= d /\ d <= e /\ e <= h.payload_len
  /\ Gives(f, x, Hex(Payload(h, 0, a)))
  /\ Gives(f, y, Hex(Payload(h, a, b - a)))
  /\ Gives(f, z, Hex(Payload(h, b, c - b)))
  /\ Gives(f, w, Hex(Payload(h, c, d - c)))
  /\ Gives(f, u, Hex(Payload(h, d, e - d)))
  /\ Gives(f, v, Hex(Payload(h, e, h.payload_len - e)))

LEMMA SaysInSix ==
  ASSUME NEW f, NEW h, NEW a, NEW b, NEW c, NEW d, NEW e,
         NEW x, NEW y, NEW z, NEW w, NEW u, NEW v,
         SixSaid(f, h, a, b, c, d, e, x, y, z, w, u, v)
  PROVE  SaysPayload(f, <<x, y, z, w, u, v>>, h)
  <1> DEFINE packed == <<x, y, z, w, u, v>>
             stops == <<0, a, b, c, d, e, h.payload_len>>
             P(i) == PartBetween(h, stops, i)
  <1>1. /\ IsSeq(packed) /\ Len(packed) = 6
        /\ packed[1] = x /\ packed[2] = y /\ packed[3] = z
        /\ packed[4] = w /\ packed[5] = u /\ packed[6] = v
    <2>1. packed \in Seq({x, y, z, w, u, v})
      OBVIOUS
    <2>2. /\ Len(packed) = 6 /\ packed[1] = x /\ packed[2] = y /\ packed[3] = z
          /\ packed[4] = w /\ packed[5] = u /\ packed[6] = v
      OBVIOUS
    <2> HIDE DEF packed
    <2>3. IsSeq(packed)
      BY ONLY <2>1, Zenon DEF IsSeq
    <2>4. QED
      BY <2>2, <2>3
  <1>2. /\ stops[1] = 0 /\ stops[2] = a /\ stops[3] = b /\ stops[4] = c
        /\ stops[5] = d /\ stops[6] = e /\ stops[7] = h.payload_len
    OBVIOUS
  <1> HIDE DEF stops, packed
  <1>3. /\ P(1) = Payload(h, 0, a)
        /\ P(2) = Payload(h, a, b - a)
        /\ P(3) = Payload(h, b, c - b)
        /\ P(4) = Payload(h, c, d - c)
        /\ P(5) = Payload(h, d, e - d)
        /\ P(6) = Payload(h, e, h.payload_len - e)
    <2>1. 1 + 1 = 2 /\ 2 + 1 = 3 /\ 3 + 1 = 4 /\ 4 + 1 = 5 /\ 5 + 1 = 6 /\ 6 + 1 = 7
      OBVIOUS
    <2>2. \A i : P(i) = Payload(h, stops[i], stops[i + 1] - stops[i])
      BY DEF PartBetween
    <2> HIDE DEF P
    <2>3. P(1) = Payload(h, 0, a) /\ P(2) = Payload(h, a, b - a) /\ P(3) = Payload(h, b, c - b)
      <3>1. a - 0 = a
        BY DEF SixSaid
      <3>2. QED
        BY ONLY <1>2, <2>1, <2>2, <3>1
    <2>4. /\ P(4) = Payload(h, c, d - c) /\ P(5) = Payload(h, d, e - d)
          /\ P(6) = Payload(h, e, h.payload_len - e)
      BY ONLY <1>2, <2>1, <2>2
    <2>5. QED
      BY <2>3, <2>4
  <1>4. \A i \in 1..6 : i \in {1, 2, 3, 4, 5, 6}
    OBVIOUS
  <1>5. Cuts(stops, h, 6)
    BY <1>2, <1>4 DEF Cuts, SixSaid
  <1> HIDE DEF P
  <1>6. \A i \in 1..6 : Gives(f, packed[i], Hex(P(i)))
    BY <1>1, <1>3, <1>4 DEF SixSaid
  <1>7. QED
    BY <1>1, <1>5, <1>6 DEF SaysPayload, P, packed

-----------------------------------------------------------------------------
(* A packet that is refused, and one that is taken. *)

LEMMA FaultUnread ==
  ASSUME NEW v, v.kind \in ENCODABLE, NEW echoed, NEW packed, IsSeq(packed), packed # << >>,
         NEW name, name \in Range(HeaderFields) \union Range(packed),
         NEW echo, NEW n, Free(echo, {"invalid", name}, n),
         NEW lines, name \notin Names(lines), NEW rule, Refuses(lines, rule), rule \notin AFTER_PLAINTEXT,
         LaysOut(v.kind, echo \o lines, echoed, packed)
  PROVE  RoundTrip(v, echo \o lines)
  <1> DEFINE f == echo \o lines
  <1>1. Accepts(echo) /\ name \notin Names(echo) /\ IsSeq(echo) /\ IsSeq(lines)
    BY DEF Free, Accepts, Refuses
  <1>2. Refuses(f, rule)
    BY <1>1, RefusesBehind
  <1>3. name \notin Names(f)
    BY <1>1, NamesJoin
  <1> HIDE DEF f
  <1>4. LaysOut(v.kind, f, echoed, packed)
    BY DEF f
  <1>5. RoundTrip(v, f)
    BY <1>2, <1>3, <1>4, UnreadPacket
  <1>6. QED
    BY <1>5 DEF f

LEMMA FlagsLead ==
  "flags" \in Range(HeaderFields)
  <1>1. HeaderFields[1] = "flags" /\ 1 \in DOMAIN HeaderFields
    BY DEF HeaderFields
  <1>2. QED
    BY <1>1 DEF Range

(* no packet is rebuilt of one whose header or length is refused *)
LEMMA HeaderUnread ==
  ASSUME NEW v, v.kind \in ENCODABLE, NEW echoed, NEW packed, IsSeq(packed), packed # << >>,
         NEW echo, NEW n, Free(echo, {"invalid", "flags"}, n), NEW b, IsLine(b), ~Header(b).ok,
         LaysOut(v.kind, echo \o Header(b).lines, echoed, packed)
  PROVE  RoundTrip(v, echo \o Header(b).lines)
  <1> DEFINE lines == Header(b).lines
  <1>1. "flags" \notin Names(lines)
    <2>1. Names(lines) \subseteq {"invalid", "length", "minimum_length", "hops", "hop_limit"}
      BY HeaderFaults
    <2>2. QED
      BY <2>1
  <1>2. Refuses(lines, "hop-limit") \/ Refuses(lines, "short-header")
    BY HeaderRefuses
  <1>3. "hop-limit" \notin AFTER_PLAINTEXT /\ "short-header" \notin AFTER_PLAINTEXT
    BY DEF AFTER_PLAINTEXT
  <1> HIDE DEF lines
  <1>4. LaysOut(v.kind, echo \o lines, echoed, packed)
    BY DEF lines
  <1>5. RoundTrip(v, echo \o lines)
    BY <1>1, <1>2, <1>3, <1>4, FlagsLead, FaultUnread
  <1>6. QED
    BY <1>5 DEF lines

WrongLength(lines) ==
  \/ \E h, need : lines = ShortPayload(h, need)
  \/ \E h, x, m, y, k : /\ lines = NeitherLength(h, x, m, y, k)
                        /\ x \notin {"invalid", "flags"} /\ y \notin {"invalid", "flags"}

LEMMA LengthUnread ==
  ASSUME NEW v, v.kind \in ENCODABLE, NEW echoed, NEW packed, IsSeq(packed), packed # << >>,
         NEW echo, NEW n, Free(echo, {"invalid", "flags"}, n), NEW lines,
         WrongLength(lines),
         LaysOut(v.kind, echo \o lines, echoed, packed)
  PROVE  RoundTrip(v, echo \o lines)
  <1>1. "flags" \notin Names(lines)
    BY PayloadFaults, LengthFaults DEF WrongLength
  <1>2. Refuses(lines, "short-payload") \/ Refuses(lines, "invalid-length")
    BY FaultsRefuse DEF WrongLength
  <1>3. "short-payload" \notin AFTER_PLAINTEXT /\ "invalid-length" \notin AFTER_PLAINTEXT
    BY DEF AFTER_PLAINTEXT
  <1>4. QED
    BY <1>1, <1>2, <1>3, FlagsLead, FaultUnread

LEMMA HeaderAt ==
  ASSUME NEW b, IsLine(b), Header(b).ok
  PROVE  Header(b).at \in Nat /\ Header(b).payload_len \in Nat
  <1>1. Header(b).at = HeaderLen(b)
    BY DEF Header, Fault
  <1>2. QED
    BY <1>1, HeaderTaken

LEMMA KindsOfPackets ==
  /\ PacketKinds = {"announce", "plain", "pathrequest", "encrypted", "group", "linkrequest",
                    "linkproof", "proof", "resourceproof", "linkdata"}
  /\ PacketKinds \subseteq ENCODABLE
  <1>1. DOMAIN Layout = {"identity", "keyset", "destination", "announce", "plain", "pathrequest",
             "encrypted", "group", "linkrequest", "linkproof", "proof", "resourceproof"}
    BY DEF Layout
  <1>2. PacketKinds = {"announce", "plain", "pathrequest", "encrypted", "group", "linkrequest",
                    "linkproof", "proof", "resourceproof", "linkdata"}
    BY <1>1 DEF PacketKinds
  <1>3. QED
    BY <1>2 DEF ENCODABLE

(* and what is taken comes back *)
PacketVector(v, n, h) ==
  /\ n \in Nat /\ n # 0 /\ Len(v.b) = n /\ v.kind \in PacketKinds
  /\ IsLine(v.b[n]) /\ v.b[n].len <= MAXBLOB /\ h = Header(v.b[n])

TakenUp(f, h, echoed, packed, b) ==
  /\ Free(f, {"invalid"}, 40) /\ GivesHeader(f, h) /\ SaysPayload(f, packed, h)
  /\ GivesEchoed(f, echoed, b)

LEMMA AcceptedRound ==
  ASSUME NEW v, NEW n, NEW h, PacketVector(v, n, h), h.ok,
         NEW f, NEW echoed, NEW packed, LaysOut(v.kind, f, echoed, packed),
         TakenUp(f, h, echoed, packed, v.b), Len(echoed) = n - 1
  PROVE  RoundTrip(v, f)
  <1> USE DEF PacketVector, TakenUp
  <1>1. IsSeq(f) /\ Len(f) <= MAXFIELDS /\ Accepts(f)
    BY DEF Free, Accepts, MAXFIELDS
  <1>2. Len(f) \in Nat
    BY <1>1, SeqsJoin
  <1>3. v.kind \in ENCODABLE
    BY KindsOfPackets
  <1>4. Determinism(v.kind, f) = "encode"
    BY <1>1, <1>3, ClassOf
  <1>5. QED
    BY <1>1, <1>2, <1>4, ReadPacket

LEMMA HeaderRound ==
  ASSUME NEW v, NEW n, NEW h, PacketVector(v, n, h), ~h.ok, NEW echoed, NEW packed,
         IsSeq(packed), packed # << >>, NEW echo, NEW m, Free(echo, {"invalid", "flags"}, m),
         NEW f, f = echo \o h.lines, LaysOut(v.kind, f, echoed, packed)
  PROVE  RoundTrip(v, f)
  BY HeaderUnread, KindsOfPackets DEF PacketVector

LEMMA LengthRound ==
  ASSUME NEW v, v.kind \in PacketKinds, NEW echoed, NEW packed, IsSeq(packed), packed # << >>,
         NEW echo, NEW m, Free(echo, {"invalid", "flags"}, m), NEW lines, WrongLength(lines),
         NEW f, f = echo \o lines, LaysOut(v.kind, f, echoed, packed)
  PROVE  RoundTrip(v, f)
  BY LengthUnread, KindsOfPackets

LEMMA EchoesGiven ==
  ASSUME NEW f, NEW b
  PROVE  /\ GivesEchoed(f, << >>, b) /\ Len(<< >>) = 0
         /\ \A x : /\ Len(<<x>>) = 1
                  /\ Gives(f, x, Hex(Whole(b[1]))) => GivesEchoed(f, <<x>>, b)
         /\ \A x, y : /\ Len(<<x, y>>) = 2
                     /\ /\ Gives(f, x, Hex(Whole(b[1]))) /\ Gives(f, y, Hex(Whole(b[2])))
                        => GivesEchoed(f, <<x, y>>, b)
  <1>1. 1..0 = {} /\ 1..1 = {1} /\ 1..2 = {1, 2}
    OBVIOUS
  <1>2. QED
    BY <1>1 DEF GivesEchoed

LEMMA PlainRound ==
  ASSUME NEW v, WellMade(v), Fits(v), v.kind = "plain",
         NEW f, f = DumpPlain(v.b).lines
  PROVE  RoundTrip(v, f)
  <1> DEFINE b == v.b
             h == Header(b[1])
             header == PrintHeader(h)
             two == <<Field("plaintext_length", Decimal(h.payload_len)),
                      Field("plaintext", Hex(Payload(h, 0, h.payload_len)))>>
             packed == <<"plaintext">>
             new == {"invalid", "plaintext"}
             bad == {"invalid"}
             none == << >>
  <1>1. PacketVector(v, 1, h)
    BY KindsOfPackets, SMTT(30) DEF WellMade, Blobs, Fits, PacketVector
  <1>2. f = IF h.ok THEN header \o two ELSE h.lines
    BY DEF DumpPlain, Exits
  <1>3. LaysOut(v.kind, f, none, packed)
    BY KindsLaidOut
  <1>4. IsSeq(packed) /\ packed # << >> /\ Len(none) = 1 - 1
    BY TuplesAreSeqs
  <1>5. CASE ~h.ok
    <2>1. f = none \o h.lines
      BY <1>1, <1>2, <1>5, HeaderFaults, EmptyEcho DEF PacketVector
    <2>2. Free(none, {"invalid", "flags"}, 0)
      BY FreeParts
    <2> HIDE DEF packed, h, none
    <2>3. QED
      BY ONLY <1>1, <1>3, <1>4, <1>5, <2>1, <2>2, HeaderRound, Zenon
  <1>6. CASE h.ok
    <2>1. h.payload_len \in Nat
      BY <1>1, <1>6, HeaderAt DEF PacketVector
    <2>2. Free(header, new, 11) /\ Free(header, bad, 11)
      BY FreeHeader DEF HeaderNames
    <2>3. Free(two, bad, 2) /\ Gives(two, "plaintext", Hex(Payload(h, 0, h.payload_len)))
      BY FreeParts, FewGive
    <2>4. f = header \o two
      BY <1>2, <1>6
    <2>5. GivesHeader(header, h)
      BY HeaderGives
    <2>6. GivesEchoed(f, none, b)
      BY EchoesGiven
    <2> HIDE DEF h, header, two, packed, bad, none
    <2>7. Free(f, bad, 40)
      BY <2>2, <2>3, <2>4, FreeOn
    <2>8. IsSeq(two)
      BY <2>3 DEF Free
    <2>9. GivesHeader(f, h)
      BY <2>4, <2>5, <2>8, HeaderGivenOn
    <2>10. Gives(f, "plaintext", Hex(Payload(h, 0, h.payload_len)))
      BY <2>2, <2>3, <2>4, GivesAfter
    <2>11. SaysPayload(f, packed, h)
      BY <2>1, <2>10, SaysInOne DEF packed
    <2>12. TakenUp(f, h, none, packed, b)
      BY <2>6, <2>7, <2>9, <2>11 DEF TakenUp, bad
    <2>13. QED
      BY ONLY <1>1, <1>3, <1>4, <1>6, <2>12, AcceptedRound, Zenon DEF b
  <1>7. QED
    BY <1>5, <1>6

(* what the printing functions print, none of it a rejection *)
LEMMA FreePrinted ==
  /\ \A t : Free(PrintToken(t), {"invalid"}, 3) /\ Free(PrintPlaintext(t), {"invalid"}, 3)
  /\ \A k : Free(PrintKeys(k), {"invalid"}, 3)
  /\ \A p : Free(PrintSignalling(p), {"invalid"}, 3)
  BY FreeParts DEF PrintToken, PrintPlaintext, PrintKeys, PrintSignalling

LEMMA TokenStops ==
  ASSUME NEW h, h.payload_len \in Nat, NEW from \in Nat, from + TOKEN_OVERHEAD <= h.payload_len,
         NEW key, NEW sees, NEW t, t = TokenOpen(h, from, h.payload_len - from, key, sees)
  PROVE  /\ t.iv = Payload(h, from, (from + 16) - from)
         /\ t.ciphertext = Payload(h, from + 16, (h.payload_len - 32) - (from + 16))
         /\ t.mac = Payload(h, h.payload_len - 32, h.payload_len - (h.payload_len - 32))
         /\ from + 16 <= h.payload_len - 32 /\ h.payload_len - 32 \in Nat
  <1> DEFINE len == h.payload_len - from
  <1>1. /\ t.iv = Payload(h, from, IVLEN)
        /\ t.ciphertext = Payload(h, from + IVLEN, len - TOKEN_OVERHEAD)
        /\ t.mac = Payload(h, from + len - MACLEN, MACLEN)
    BY DEF TokenOpen
  <1>2. TOKEN_OVERHEAD = 48 /\ IVLEN = 16 /\ MACLEN = 32
    BY DEF TOKEN_OVERHEAD, IVLEN, MACLEN
  <1>3. /\ (from + 16) - from = 16 /\ (h.payload_len - 32) - (from + 16) = len - 48
        /\ from + len - 32 = h.payload_len - 32 /\ h.payload_len - (h.payload_len - 32) = 32
        /\ from + 16 <= h.payload_len - 32 /\ h.payload_len - 32 \in Nat
    BY <1>2
  <1>4. QED
    BY <1>1, <1>2, <1>3

(* a token printed behind lines that have none of its names *)
LEMMA TokenSays ==
  ASSUME NEW s, NEW n, Free(s, TokenNames, n), NEW t
  PROVE  TokenIn(s \o PrintToken(t), t)
  <1>1. TokenIn(PrintToken(t), t)
    BY TokenGives
  <1>2. QED
    BY <1>1, GivesAfter DEF TokenIn, TokenNames

LEMMA TokenStays ==
  ASSUME NEW s, NEW t, TokenIn(s, t), NEW more, IsSeq(more)
  PROVE  TokenIn(s \o more, t)
  BY GivesOn DEF TokenIn

LEMMA TokenFills ==
  ASSUME NEW h, h.payload_len \in Nat, TOKEN_OVERHEAD <= h.payload_len, NEW key, NEW sees,
         NEW f, TokenIn(f, TokenOpen(h, 0, h.payload_len, key, sees))
  PROVE  SaysPayload(f, Token3, h)
  <1> DEFINE t == TokenOpen(h, 0, h.payload_len, key, sees)
             end == h.payload_len - 32
  <1>1. 0 + TOKEN_OVERHEAD <= h.payload_len /\ h.payload_len - 0 = h.payload_len
    BY DEF TOKEN_OVERHEAD, IVLEN, MACLEN
  <1> HIDE DEF t
  <1>2. t = TokenOpen(h, 0, h.payload_len - 0, key, sees)
    BY <1>1 DEF t
  <1>3. /\ t.iv = Payload(h, 0, (0 + 16) - 0)
        /\ t.ciphertext = Payload(h, 0 + 16, end - (0 + 16))
        /\ t.mac = Payload(h, end, h.payload_len - end)
        /\ 0 + 16 <= end /\ end \in Nat
    BY <1>1, <1>2, TokenStops
  <1>4. 0 + 16 = 16 /\ (0 + 16) - 0 = 16 /\ end <= h.payload_len /\ 16 \in Nat
    OBVIOUS
  <1>5. /\ Gives(f, "iv", Hex(t.iv)) /\ Gives(f, "ciphertext", Hex(t.ciphertext))
        /\ Gives(f, "hmac", Hex(t.mac))
    BY DEF TokenIn, t
  <1> HIDE DEF end
  <1>6. /\ Gives(f, "iv", Hex(Payload(h, 0, 16)))
        /\ Gives(f, "ciphertext", Hex(Payload(h, 16, end - 16)))
        /\ Gives(f, "hmac", Hex(Payload(h, end, h.payload_len - end)))
    BY <1>3, <1>4, <1>5
  <1>7. 16 <= end /\ end \in Nat
    BY <1>3, <1>4
  <1>8. SaysPayload(f, <<"iv", "ciphertext", "hmac">>, h)
    BY ONLY <1>4, <1>6, <1>7, h.payload_len \in Nat, SaysInThree
  <1>9. QED
    BY <1>8 DEF Token3

LEMMA GroupRound ==
  ASSUME NEW v, WellMade(v), Fits(v), v.kind = "group", NEW sees,
         NEW f, f = DumpGroup(v.b, sees).lines
  PROVE  RoundTrip(v, f)
  <1> DEFINE b == v.b
             half == b[1].len \div 2
             key  == <<At(b[1], 0, half), At(b[1], half, half)>>
             h    == Header(b[2])
             t    == TokenOpen(h, 0, h.payload_len, key, sees)
             echo == <<Field("group_key", Hex(Whole(b[1])))>>
             header == PrintHeader(h)
             keys == <<Field("signing_key", Hex(key[1])), Field("encryption_key", Hex(key[2]))>>
             short == ShortPayload(h, TOKEN_OVERHEAD)
             echoed == <<"group_key">>
             packed == Token3
             bad == {"invalid"}
             s1 == echo \o header
             s2 == s1 \o PrintToken(t)
             s3 == s2 \o keys
             s4 == s3 \o PrintPlaintext(t)
  <1>1. PacketVector(v, 2, h)
    BY KindsOfPackets, SMTT(30) DEF WellMade, Blobs, Fits, PacketVector
  <1>2. f = IF ~h.ok THEN echo \o h.lines
            ELSE IF h.payload_len < TOKEN_OVERHEAD THEN echo \o short
            ELSE s4
    <2>1. b[1].len \in {DERIVEDLEN, DERIVEDLEN \div 2}
      BY DEF WellMade, Lengths
    <2>2. QED
      BY ONLY <2>1, f = DumpGroup(v.b, sees).lines DEF DumpGroup, Exits, Rejected
  <1>3. LaysOut(v.kind, f, echoed, packed)
    BY KindsLaidOut
  <1>4. IsSeq(packed) /\ packed # << >> /\ Len(echoed) = 2 - 1
    BY TuplesAreSeqs DEF Token3
  <1>5. /\ Free(echo, {"invalid", "flags"}, 1) /\ Free(echo, bad, 1)
        /\ Free(echo, HeaderNames \union TokenNames, 1)
        /\ Gives(echo, "group_key", Hex(Whole(b[1])))
    BY FreeParts, FewGive DEF HeaderNames, TokenNames
  <1>6. WrongLength(short) /\ v.kind \in PacketKinds
    BY KindsOfPackets DEF WrongLength
  <1> HIDE DEF packed, echoed, h, header, keys, short, echo, bad, t
  <1>7. CASE ~h.ok
    <2>1. f = echo \o h.lines
      BY <1>2, <1>7
    <2>2. QED
      BY ONLY <1>1, <1>3, <1>4, <1>5, <1>7, <2>1, HeaderRound, Zenon
  <1>8. CASE h.ok /\ h.payload_len < TOKEN_OVERHEAD
    <2>1. f = echo \o short
      BY <1>2, <1>8
    <2>2. QED
      BY ONLY <1>3, <1>4, <1>5, <1>6, <2>1, LengthRound, Zenon
  <1>9. CASE h.ok /\ ~(h.payload_len < TOKEN_OVERHEAD)
    <2>1. h.payload_len \in Nat
      BY <1>1, <1>9, HeaderAt DEF PacketVector
    <2>2. Free(header, TokenNames, 11) /\ Free(header, bad, 11)
      BY FreeHeader DEF HeaderNames, TokenNames, header, bad
    <2>3. Free(s1, TokenNames, 12) /\ Free(s1, bad, 12) /\ IsSeq(header)
      <3>1. Free(echo, TokenNames, 1)
        BY <1>5 DEF Free
      <3>2. 1 + 11 <= 12 /\ 1 \in Nat /\ 11 \in Nat /\ 12 \in Nat
        OBVIOUS
      <3>3. Free(s1, TokenNames, 12) /\ Free(s1, bad, 12)
        BY <1>5, <2>2, <3>1, <3>2, FreeOn
      <3>4. QED
        BY <2>2, <3>3 DEF Free
    <2>4. GivesHeader(s1, h)
      BY <1>5, HeaderGivenBehind DEF header
    <2>5. Gives(s1, "group_key", Hex(Whole(b[1])))
      BY <1>5, <2>3, GivesOn
    <2>6. TokenIn(s2, t)
      BY <2>3, TokenSays
    <2>7. /\ Free(PrintToken(t), bad, 3) /\ Free(keys, bad, 2) /\ Free(PrintPlaintext(t), bad, 3)
      BY FreePrinted, FreeParts DEF keys, bad
    <2> DEFINE token == PrintToken(t)
               plain == PrintPlaintext(t)
    <2>8. IsSeq(token) /\ IsSeq(keys) /\ IsSeq(plain)
      BY <2>7 DEF Free
    <2> HIDE DEF token, plain
    <2>9. Free(s4, bad, 40)
      <3>1. Free(s2, bad, 15)
        BY <2>3, <2>7, FreeOn DEF token
      <3>2. Free(s3, bad, 17)
        BY <2>7, <3>1, FreeOn
      <3>3. QED
        BY <2>7, <3>2, FreeOn DEF plain
    <2> USE DEF token, plain
    <2>10. GivesHeader(s4, h) /\ TokenIn(s4, t) /\ Gives(s4, "group_key", Hex(Whole(b[1])))
      BY <2>4, <2>5, <2>6, <2>8, HeaderGivenOn, TokenStays, GivesOn
    <2>11. f = s4
      BY <1>2, <1>9
    <2> HIDE DEF token, plain, s1, s2, s3, s4
    <2>12. SaysPayload(f, packed, h)
      <3>1. TOKEN_OVERHEAD <= h.payload_len
        BY <1>9, <2>1 DEF TOKEN_OVERHEAD, IVLEN, MACLEN
      <3>2. QED
        BY <2>1, <2>10, <2>11, <3>1, TokenFills DEF packed, t
    <2>13. GivesEchoed(f, echoed, v.b)
      BY <2>10, <2>11, EchoesGiven DEF echoed
    <2>14. TakenUp(f, h, echoed, packed, v.b)
      BY <2>9, <2>10, <2>11, <2>12, <2>13 DEF TakenUp, bad
    <2>15. QED
      BY ONLY <1>1, <1>3, <1>4, <1>9, <2>14, AcceptedRound, Zenon
  <1>10. QED
    BY <1>7, <1>8, <1>9

LEMMA TokenFillsBehind ==
  ASSUME NEW h, h.payload_len \in Nat, KEYHALF + TOKEN_OVERHEAD <= h.payload_len,
         NEW key, NEW sees, NEW f,
         TokenIn(f, TokenOpen(h, KEYHALF, h.payload_len - KEYHALF, key, sees)),
         Gives(f, "ephemeral_public", Hex(Payload(h, 0, KEYHALF)))
  PROVE  SaysPayload(f, Token4, h)
  <1> DEFINE t == TokenOpen(h, KEYHALF, h.payload_len - KEYHALF, key, sees)
             end == h.payload_len - 32
  <1>1. 32 + TOKEN_OVERHEAD <= h.payload_len /\ KEYHALF = 32
    BY DEF KEYHALF
  <1>2. t = TokenOpen(h, 32, h.payload_len - 32, key, sees)
    BY <1>1
  <1> HIDE DEF t
  <1>3. /\ t.iv = Payload(h, 32, (32 + 16) - 32)
        /\ t.ciphertext = Payload(h, 32 + 16, end - (32 + 16))
        /\ t.mac = Payload(h, end, h.payload_len - end)
        /\ 32 + 16 <= end /\ end \in Nat
    <2>1. PICK from \in Nat : from = 32
      OBVIOUS
    <2>2. from + TOKEN_OVERHEAD <= h.payload_len
          /\ t = TokenOpen(h, from, h.payload_len - from, key, sees)
      BY <1>1, <1>2, <2>1
    <2>3. /\ t.iv = Payload(h, from, (from + 16) - from)
          /\ t.ciphertext = Payload(h, from + 16, (h.payload_len - 32) - (from + 16))
          /\ t.mac = Payload(h, h.payload_len - 32, h.payload_len - (h.payload_len - 32))
          /\ from + 16 <= h.payload_len - 32 /\ h.payload_len - 32 \in Nat
      BY ONLY <2>2, from \in Nat, h.payload_len \in Nat, TokenStops
    <2>4. QED
      BY <2>1, <2>3
  <1>4. /\ 32 + 16 = 48 /\ (32 + 16) - 32 = 48 - 32
        /\ end <= h.payload_len /\ 48 \in Nat /\ 32 <= 48 /\ 32 \in Nat
    OBVIOUS
  <1>5. /\ Gives(f, "iv", Hex(t.iv)) /\ Gives(f, "ciphertext", Hex(t.ciphertext))
        /\ Gives(f, "hmac", Hex(t.mac))
    BY DEF TokenIn, t
  <1> HIDE DEF end
  <1>6. /\ Gives(f, "ephemeral_public", Hex(Payload(h, 0, 32)))
        /\ Gives(f, "iv", Hex(Payload(h, 32, 48 - 32)))
        /\ Gives(f, "ciphertext", Hex(Payload(h, 48, end - 48)))
        /\ Gives(f, "hmac", Hex(Payload(h, end, h.payload_len - end)))
    BY <1>1, <1>3, <1>4, <1>5
  <1>7. 48 <= end /\ end \in Nat
    BY <1>3, <1>4
  <1>8. SaysPayload(f, <<"ephemeral_public", "iv", "ciphertext", "hmac">>, h)
    BY ONLY <1>4, <1>6, <1>7, h.payload_len \in Nat, SaysInFour
  <1>9. QED
    BY <1>8 DEF Token4

LEMMA EncryptedRound ==
  ASSUME NEW v, WellMade(v), Fits(v), v.kind = "encrypted", NEW sees,
         NEW f, f = DumpEncrypted(v.b, sees).lines
  PROVE  RoundTrip(v, f)
  <1> DEFINE b == v.b
             h    == Header(b[3])
             ephemeral     == Payload(h, 0, KEYHALF)
             identity_hash == Sha256(Cat(PublicPair(b[1])), ADDRLEN)
             agree == IF b[2].absent THEN At(b[1], 0, KEYHALF) ELSE Whole(b[2])
             k     == Agreed(agree, ephemeral, identity_hash, sees)
             t     == TokenOpen(h, KEYHALF, h.payload_len - KEYHALF, k.key, sees)
             echo == <<Field("recipient_private", Hex(Whole(b[1]))),
                       Field("ratchet_private", Hex(Whole(b[2])))>>
             header == PrintHeader(h)
             one == <<Field("ephemeral_public", Hex(ephemeral))>>
             token == PrintToken(t)
             two == <<Field("identity_hash", Hex(identity_hash)),
                      Field("ratchet_public", IF b[2].absent THEN Dash
                                              ELSE Hex(PublicOf(Whole(b[2]), KEYHALF)))>>
             keys == PrintKeys(k)
             plain == PrintPlaintext(t)
             short == ShortPayload(h, KEYHALF + TOKEN_OVERHEAD)
             echoed == <<"recipient_private", "ratchet_private">>
             packed == Token4
             bad == {"invalid"}
             new == {"invalid", "ephemeral_public"} \union TokenNames
             s1 == echo \o header
             s2 == s1 \o one
             s3 == s2 \o token
             s4 == s3 \o two
             s5 == s4 \o keys
             s6 == s5 \o plain
  <1>1. PacketVector(v, 3, h)
    BY KindsOfPackets, SMTT(30) DEF WellMade, Blobs, Fits, PacketVector
  <1>2. f = IF ~h.ok THEN echo \o h.lines
            ELSE IF h.payload_len < KEYHALF + TOKEN_OVERHEAD THEN echo \o short
            ELSE s6
    <2>1. ~(b[1].len # KEYSIZE \/ (~b[2].absent /\ b[2].len # KEYHALF))
      <3>1. b[1].len = KEYSIZE /\ b[2].len \in {0, RATCHETLEN}
        BY DEF WellMade, Lengths
      <3>2. IsLine(b[2])
        BY DEF WellMade, Blobs
      <3>3. QED
        BY <3>1, <3>2 DEF IsLine, RATCHETLEN, KEYHALF
    <2>2. QED
      BY ONLY <2>1, f = DumpEncrypted(v.b, sees).lines, Zenon DEF DumpEncrypted, Exits, Rejected
  <1>3. LaysOut(v.kind, f, echoed, packed)
    BY KindsLaidOut
  <1>4. IsSeq(packed) /\ packed # << >> /\ Len(echoed) = 3 - 1
    BY TuplesAreSeqs DEF Token4
  <1>5. /\ Free(echo, {"invalid", "flags"}, 2) /\ Free(echo, new, 2)
        /\ Free(echo, HeaderNames \union TokenNames, 2)
        /\ Gives(echo, "recipient_private", Hex(Whole(b[1])))
        /\ Gives(echo, "ratchet_private", Hex(Whole(b[2])))
    BY FreeParts, FewGive DEF HeaderNames, TokenNames
  <1>6. WrongLength(short) /\ v.kind \in PacketKinds
    BY KindsOfPackets DEF WrongLength
  <1>7. /\ Free(header, new, 11)
        /\ Free(one, TokenNames \union bad, 1) /\ Gives(one, "ephemeral_public", Hex(ephemeral))
        /\ Free(token, bad, 3) /\ Free(two, bad, 2) /\ Free(keys, bad, 3) /\ Free(plain, bad, 3)
    <2>1. Free(header, new, 11)
      BY FreeHeader DEF HeaderNames, TokenNames
    <2>2. Free(one, TokenNames \union bad, 1) /\ Gives(one, "ephemeral_public", Hex(ephemeral))
      BY FreeParts, FewGive DEF TokenNames
    <2>3. Free(two, bad, 2)
      BY FreeParts
    <2>4. Free(token, bad, 3) /\ Free(keys, bad, 3) /\ Free(plain, bad, 3)
      BY FreePrinted
    <2>5. QED
      BY <2>1, <2>2, <2>3, <2>4
  <1> DEFINE ephemeral_value == Hex(ephemeral)
  <1> HIDE DEF packed, echoed, h, header, keys, short, echo, t, one, token, two, plain
  <1>8. CASE ~h.ok
    <2>1. f = echo \o h.lines
      BY <1>2, <1>8
    <2>2. QED
      BY ONLY <1>1, <1>3, <1>4, <1>5, <1>8, <2>1, HeaderRound, Zenon
  <1>9. CASE h.ok /\ h.payload_len < KEYHALF + TOKEN_OVERHEAD
    <2>1. f = echo \o short
      BY <1>2, <1>9
    <2>2. QED
      BY ONLY <1>3, <1>4, <1>5, <1>6, <2>1, LengthRound, Zenon
  <1>10. CASE h.ok /\ ~(h.payload_len < KEYHALF + TOKEN_OVERHEAD)
    <2>1. h.payload_len \in Nat
      BY <1>1, <1>10, HeaderAt DEF PacketVector
    <2>2. IsSeq(header) /\ IsSeq(one) /\ IsSeq(token) /\ IsSeq(two) /\ IsSeq(keys) /\ IsSeq(plain)
      BY <1>7 DEF Free
    <2> HIDE DEF new, bad
    <2>3. Free(s1, new, 13)
      BY <1>5, <1>7, FreeOn
    <2> HIDE DEF s1
    <2>4. Free(s1, TokenNames \union bad, 13)
      BY <2>3 DEF Free, new, bad
    <2>5. Free(s2, TokenNames \union bad, 14)
      BY <1>7, <2>4, FreeOn
    <2> HIDE DEF s2
    <2>6. Free(s2, TokenNames, 14) /\ Free(s2, bad, 14)
      BY <2>5 DEF Free
    <2>7. Free(s3, bad, 17)
      BY <1>7, <2>6, FreeOn
    <2> HIDE DEF s3
    <2>8. Free(s4, bad, 19)
      BY <1>7, <2>7, FreeOn
    <2> HIDE DEF s4
    <2>9. Free(s5, bad, 22)
      BY <1>7, <2>8, FreeOn
    <2> HIDE DEF s5
    <2>10. Free(s6, bad, 40)
      BY <1>7, <2>9, FreeOn
    <2> USE DEF s1, s2, s3, s4, s5
    <2>11. GivesHeader(s1, h)
      BY <1>5, HeaderGivenBehind DEF header
    <2>12. /\ Gives(s1, "recipient_private", Hex(Whole(b[1])))
           /\ Gives(s1, "ratchet_private", Hex(Whole(b[2])))
      BY <1>5, <2>2, GivesOn
    <2>13. Gives(s2, "ephemeral_public", Hex(ephemeral))
      <3>1. "ephemeral_public" \in new
        BY DEF new
      <3>2. QED
        BY <1>7, <2>3, <3>1, GivesAfter
    <2>14. TokenIn(s3, t)
      BY <2>6, TokenSays DEF token
    <2>15. GivesHeader(s6, h)
      BY <2>2, <2>11, HeaderGivenOn
    <2>16. /\ Gives(s6, "recipient_private", Hex(Whole(b[1])))
           /\ Gives(s6, "ratchet_private", Hex(Whole(b[2])))
           /\ Gives(s6, "ephemeral_public", Hex(ephemeral))
      BY <2>2, <2>12, <2>13, GivesOn
    <2>17. TokenIn(s6, t)
      BY <2>2, <2>14, TokenStays
    <2>18. f = s6
      BY <1>2, <1>10
    <2> HIDE DEF s1, s2, s3, s4, s5, s6
    <2>19. SaysPayload(f, packed, h)
      <3>1. KEYHALF + TOKEN_OVERHEAD <= h.payload_len
        BY <1>10, <2>1 DEF TOKEN_OVERHEAD, IVLEN, MACLEN, KEYHALF
      <3>2. QED
        BY <2>1, <2>16, <2>17, <2>18, <3>1, TokenFillsBehind DEF packed, t
    <2>20. GivesEchoed(f, echoed, v.b)
      BY <2>16, <2>18, EchoesGiven DEF echoed
    <2>21. TakenUp(f, h, echoed, packed, v.b)
      BY <2>10, <2>15, <2>18, <2>19, <2>20 DEF TakenUp, bad
    <2>22. QED
      BY ONLY <1>1, <1>3, <1>4, <1>10, <2>21, AcceptedRound, Zenon
  <1>11. QED
    BY <1>8, <1>9, <1>10

LEMMA PathRequestRound ==
  ASSUME NEW v, WellMade(v), Fits(v), v.kind = "pathrequest",
         NEW f, f = DumpPathRequest(v.b).lines
  PROVE  RoundTrip(v, f)
  <1> DEFINE b == v.b
             h == Header(b[1])
             relayed == h.payload_len > 2 * ADDRLEN
             from   == IF relayed THEN 2 * ADDRLEN ELSE ADDRLEN
             taglen == h.payload_len - from
             wanted == Payload(h, 0, ADDRLEN)
             unique == Payload(h, from, IF taglen < ADDRLEN THEN taglen ELSE ADDRLEN)
             requester == IF relayed THEN Hex(Payload(h, ADDRLEN, ADDRLEN)) ELSE Dash
             tag == Hex(Payload(h, from, taglen))
             header == PrintHeader(h)
             five == <<Field("wanted_hash", Hex(wanted)),
                       Field("requester_id", requester),
                       Field("tag", tag),
                       Field("unique_tag", IF taglen > 0 THEN Hex(Cat(<<wanted, unique>>)) ELSE Dash),
                       Field("accepted", Word(IF taglen > 0 THEN "yes" ELSE "no"))>>
             short == ShortPayload(h, ADDRLEN)
             packed == <<"wanted_hash", "requester_id", "tag">>
             bad == {"invalid"}
             new == {"invalid", "wanted_hash", "requester_id", "tag"}
             none == << >>
  <1>1. PacketVector(v, 1, h)
    BY KindsOfPackets, SMTT(30) DEF WellMade, Blobs, Fits, PacketVector
  <1>2. f = IF ~h.ok THEN h.lines ELSE IF h.payload_len < ADDRLEN THEN short ELSE header \o five
    BY ONLY f = DumpPathRequest(v.b).lines DEF DumpPathRequest, Exits
  <1>3. LaysOut(v.kind, f, none, packed)
    BY KindsLaidOut
  <1>4. IsSeq(packed) /\ packed # << >> /\ Len(none) = 1 - 1
    BY TuplesAreSeqs
  <1>5. Free(none, {"invalid", "flags"}, 0)
    BY FreeParts
  <1>6. WrongLength(short) /\ v.kind \in PacketKinds
    BY KindsOfPackets DEF WrongLength
  <1>7. CASE ~h.ok
    <2>1. f = none \o h.lines
      BY <1>1, <1>2, <1>7, HeaderFaults, EmptyEcho DEF PacketVector
    <2> HIDE DEF packed, h, none
    <2>2. QED
      BY ONLY <1>1, <1>3, <1>4, <1>5, <1>7, <2>1, HeaderRound, Zenon
  <1>8. CASE h.ok /\ h.payload_len < ADDRLEN
    <2>1. f = none \o short
      BY <1>2, <1>8, PayloadFaults, EmptyEcho
    <2> HIDE DEF packed, h, none, short
    <2>2. QED
      BY ONLY <1>3, <1>4, <1>5, <1>6, <2>1, LengthRound, Zenon
  <1>9. CASE h.ok /\ ~(h.payload_len < ADDRLEN)
    <2>1. h.payload_len \in Nat
      BY <1>1, <1>9, HeaderAt DEF PacketVector
    <2>2. Free(header, new, 11) /\ Free(header, bad, 11)
      BY FreeHeader DEF HeaderNames
    <2>3. /\ Len(five) = 5 /\ five = [i \in 1..5 |-> five[i]]
          /\ five[1].name = "wanted_hash" /\ five[2].name = "requester_id" /\ five[3].name = "tag"
          /\ five[4].name = "unique_tag" /\ five[5].name = "accepted"
          /\ five[1].value = Hex(wanted) /\ five[2].value = requester /\ five[3].value = tag
      <3> HIDE DEF wanted, requester, tag, taglen, unique
      <3>1. QED
        BY DEF Field
    <2>4. f = header \o five
      BY <1>2, <1>9
    <2>5. GivesHeader(header, h)
      BY HeaderGives
    <2>6. GivesEchoed(f, none, b)
      BY EchoesGiven
    <2>7. /\ Hex(wanted) = Hex(Payload(h, 0, 16))
          /\ requester = Hex(Payload(h, 16, from - 16))
          /\ tag = Hex(Payload(h, from, h.payload_len - from))
          /\ from \in Nat /\ 16 <= from /\ from <= h.payload_len
      <3>1. ADDRLEN = 16
        BY DEF ADDRLEN
      <3>2. CASE relayed
        BY <2>1, <3>1, <3>2
      <3>3. CASE ~relayed
        <4>1. from = 16 /\ from - 16 = 0 /\ requester = Hex(<< >>)
          BY <3>1, <3>3 DEF Dash
        <4>2. Payload(h, 16, 0) = << >>
          BY DEF Payload, Mem
        <4>3. QED
          BY <1>9, <2>1, <3>1, <4>1, <4>2
      <3>4. QED
        BY <3>2, <3>3
    <2> HIDE DEF h, header, five, packed, bad, none, wanted, requester, tag, from
    <2>8. Free(five, bad, 5)
      <3>1. \A i \in 1..5 : i \in {1, 2, 3, 4, 5}
        OBVIOUS
      <3>2. IsSeq(five) /\ Names(five) = {five[i].name : i \in 1..5}
        BY <2>3, FieldsOf
      <3>3. QED
        BY <2>3, <3>1, <3>2 DEF Free, bad
    <2>9. IsSeq(five)
      BY <2>8 DEF Free
    <2>10. /\ Gives(five, "wanted_hash", Hex(wanted)) /\ Gives(five, "requester_id", requester)
           /\ Gives(five, "tag", tag)
      <3>1. /\ 1 \in 1..Len(five) /\ 2 \in 1..Len(five) /\ 3 \in 1..Len(five)
            /\ (\A i \in 1..(1 - 1) : FALSE) /\ (\A i \in 1..(2 - 1) : i = 1)
            /\ (\A i \in 1..(3 - 1) : i = 1 \/ i = 2)
        BY <2>3
      <3>2. Gives(five, "wanted_hash", Hex(wanted))
        BY <2>3, <2>9, <3>1, GivesAt
      <3>3. Gives(five, "requester_id", requester)
        BY <2>3, <2>9, <3>1, GivesAt
      <3>4. Gives(five, "tag", tag)
        BY <2>3, <2>9, <3>1, GivesAt
      <3>5. QED
        BY <3>2, <3>3, <3>4
    <2>11. Free(f, bad, 40)
      BY <2>2, <2>4, <2>8, FreeOn
    <2>12. GivesHeader(f, h)
      BY <2>4, <2>5, <2>9, HeaderGivenOn
    <2>13. /\ Gives(f, "wanted_hash", Hex(Payload(h, 0, 16)))
           /\ Gives(f, "requester_id", Hex(Payload(h, 16, from - 16)))
           /\ Gives(f, "tag", Hex(Payload(h, from, h.payload_len - from)))
      BY <2>2, <2>4, <2>7, <2>10, GivesAfter
    <2>14. SaysPayload(f, packed, h)
      <3>1. 16 \in Nat
        OBVIOUS
      <3>2. QED
        BY ONLY <2>1, <2>7, <2>13, <3>1, SaysInThree DEF packed
    <2>15. TakenUp(f, h, none, packed, b)
      BY <2>6, <2>11, <2>12, <2>14 DEF TakenUp, bad
    <2>16. QED
      BY ONLY <1>1, <1>3, <1>4, <1>9, <2>15, AcceptedRound, Zenon DEF b
  <1>10. QED
    BY <1>7, <1>8, <1>9

LEMMA AnnounceRound ==
  ASSUME NEW v, WellMade(v), Fits(v), v.kind = "announce",
         NEW f, f = DumpAnnounce(v.b).lines
  PROVE  RoundTrip(v, f)
  <1> DEFINE b == v.b
             h == Header(b[1])
             a == Announce(h)
             r == RatchetLen(h)
             rat == 84 + r
             app == 148 + r
             end == h.payload_len
             header == PrintHeader(h)
             identity_hash == Sha256(a.public_key, ADDRLEN)
             expected_hash == Sha256(Cat(<<a.name_hash, identity_hash>>), ADDRLEN)
             signed_data   == Cat(<<h.destination_hash, a.public_key, a.name_hash,
                                    a.random_hash, a.ratchet, a.app_data>>)
             all == <<
               Field("public_key", Hex(a.public_key)),
               Field("name_hash", Hex(a.name_hash)),
               Field("random_hash", Hex(a.random_hash)),
               Field("ratchet", Hex(a.ratchet)),
               Field("signature", Hex(a.signature)),
               Field("app_data", Hex(a.app_data)),
               Field("identity_hash", Hex(identity_hash)),
               Field("expected_hash", Hex(expected_hash)),
               Field("destination_match", Equal(h.destination_hash, expected_hash)),
               Field("signed_data", Hex(signed_data)),
               Field("signature_valid", Verifies(a.signer, a.signature, signed_data))>>
             short == ShortPayload(h, 148 + r)
             packed == AnnounceParts
             bad == {"invalid"}
             new == {"invalid", "public_key", "name_hash", "random_hash", "ratchet", "signature",
                     "app_data"}
             none == << >>
  <1>1. PacketVector(v, 1, h)
    BY KindsOfPackets, SMTT(30) DEF WellMade, Blobs, Fits, PacketVector
  <1>2. r \in {0, 32}
    BY DEF RatchetLen, RATCHETLEN
  <1>3. /\ h.payload_len < app => ~a.ok /\ a.lines = short
        /\ ~(h.payload_len < app) =>
             /\ a.ok
             /\ a.public_key = Payload(h, 0, 64) /\ a.name_hash = Payload(h, 64, 10)
             /\ a.random_hash = Payload(h, 74, 10) /\ a.ratchet = Payload(h, 84, r)
             /\ a.signature = Payload(h, rat, 64) /\ a.app_data = Payload(h, app, h.payload_len - app)
    <2> DEFINE at1 == KEYSIZE
               at2 == at1 + NAMEHASHLEN
               at3 == at2 + RANDHASHLEN
               at4 == at3 + r
               at5 == at4 + SIGLEN
    <2>1. a = IF h.payload_len < at5
              THEN [ok |-> FALSE, lines |-> ShortPayload(h, at5)]
              ELSE [ok |-> TRUE,
                    public_key  |-> Payload(h, 0, KEYSIZE),
                    name_hash   |-> Payload(h, at1, NAMEHASHLEN),
                    random_hash |-> Payload(h, at2, RANDHASHLEN),
                    ratchet     |-> Payload(h, at3, r),
                    signature   |-> Payload(h, at4, SIGLEN),
                    app_data    |-> Payload(h, at5, h.payload_len - at5),
                    signer      |-> Payload(h, KEYHALF, KEYHALF)]
      BY ONLY DEF Announce
    <2>2. /\ KEYSIZE = 64 /\ at1 = 64 /\ at2 = 74 /\ at3 = 84 /\ at4 = rat /\ at5 = app
          /\ NAMEHASHLEN = 10 /\ RANDHASHLEN = 10 /\ SIGLEN = 64
      BY <1>2 DEF KEYSIZE, NAMEHASHLEN, RANDHASHLEN, SIGLEN
    <2> HIDE DEF h, r, at1, at2, at3, at4, at5, a, rat, app
    <2>3. short = ShortPayload(h, app)
      BY DEF app
    <2> HIDE DEF short
    <2>4. QED
      BY <2>1, <2>2, <2>3
  <1>4. f = IF ~h.ok THEN h.lines ELSE IF ~a.ok THEN a.lines ELSE header \o all
    BY ONLY f = DumpAnnounce(v.b).lines DEF DumpAnnounce, PrintAnnounce, Exits
  <1>5. LaysOut(v.kind, f, none, packed)
    BY KindsLaidOut
  <1>6. IsSeq(packed) /\ packed # << >> /\ Len(none) = 1 - 1
    <2>1. packed \in Seq({"public_key", "name_hash", "random_hash", "ratchet", "signature", "app_data"})
          /\ packed # << >>
      BY DEF AnnounceParts
    <2> HIDE DEF packed
    <2>2. IsSeq(packed)
      BY <2>1 DEF IsSeq
    <2>3. QED
      BY <2>1, <2>2
  <1>7. Free(none, {"invalid", "flags"}, 0)
    BY FreeParts
  <1>8. WrongLength(short) /\ v.kind \in PacketKinds
    BY KindsOfPackets DEF WrongLength
  <1>9. CASE ~h.ok
    <2>1. f = none \o h.lines
      BY <1>1, <1>4, <1>9, HeaderFaults, EmptyEcho DEF PacketVector
    <2> HIDE DEF packed, h, none
    <2>2. QED
      BY ONLY <1>1, <1>5, <1>6, <1>7, <1>9, <2>1, HeaderRound, Zenon
  <1>10. CASE h.ok /\ h.payload_len < app
    <2>1. f = none \o short
      <3>1. IsSeq(short)
        BY PayloadFaults
      <3> HIDE DEF short, a, h, app
      <3>2. f = short
        BY <1>3, <1>4, <1>10
      <3>3. QED
        BY <3>1, <3>2, EmptyEcho
    <2> HIDE DEF packed, h, none, short
    <2>2. QED
      BY ONLY <1>5, <1>6, <1>7, <1>8, <2>1, LengthRound, Zenon
  <1>11. CASE h.ok /\ ~(h.payload_len < app)
    <2>1. h.payload_len \in Nat
      BY <1>1, <1>11, HeaderAt DEF PacketVector
    <2>2. Free(header, new, 11) /\ Free(header, bad, 11)
      BY FreeHeader DEF HeaderNames
    <2> HIDE DEF a, h, identity_hash, expected_hash, signed_data
    <2>3. /\ Len(all) = 11 /\ all = [i \in 1..11 |-> all[i]]
          /\ all[1].name = "public_key" /\ all[2].name = "name_hash" /\ all[3].name = "random_hash"
          /\ all[4].name = "ratchet" /\ all[5].name = "signature" /\ all[6].name = "app_data"
          /\ all[7].name = "identity_hash" /\ all[8].name = "expected_hash"
          /\ all[9].name = "destination_match" /\ all[10].name = "signed_data"
          /\ all[11].name = "signature_valid"
      BY DEF Field
    <2>4. /\ all[1].value = Hex(a.public_key) /\ all[2].value = Hex(a.name_hash)
          /\ all[3].value = Hex(a.random_hash) /\ all[4].value = Hex(a.ratchet)
          /\ all[5].value = Hex(a.signature) /\ all[6].value = Hex(a.app_data)
      BY DEF Field
    <2> HIDE DEF all
    <2>5. f = header \o all
      BY <1>3, <1>4, <1>11
    <2>6. GivesHeader(header, h)
      BY HeaderGives
    <2>7. GivesEchoed(f, none, b)
      BY EchoesGiven
    <2> HIDE DEF header, packed, bad, none
    <2>8. /\ a.public_key = Payload(h, 0, 64) /\ a.name_hash = Payload(h, 64, 74 - 64)
          /\ a.random_hash = Payload(h, 74, 84 - 74) /\ a.ratchet = Payload(h, 84, rat - 84)
          /\ a.signature = Payload(h, rat, app - rat)
          /\ a.app_data = Payload(h, app, h.payload_len - app)
      <3>1. 74 - 64 = 10 /\ 84 - 74 = 10 /\ rat - 84 = r /\ app - rat = 64
        BY <1>2
      <3> HIDE DEF rat, app, r
      <3>2. QED
        BY <1>3, <1>11, <3>1
    <2>9. Free(all, bad, 11)
      <3>1. \A i \in 1..11 : i \in {1, 2, 3, 4, 5, 6, 7, 8, 9, 10, 11}
        OBVIOUS
      <3>2. IsSeq(all) /\ Names(all) = {all[i].name : i \in 1..11}
        BY <2>3, FieldsOf, ZenonT(30)
      <3>3. QED
        BY <2>3, <3>1, <3>2 DEF Free, bad
    <2>10. IsSeq(all)
      BY <2>9 DEF Free
    <2>11. /\ Gives(all, "public_key", Hex(a.public_key)) /\ Gives(all, "name_hash", Hex(a.name_hash))
           /\ Gives(all, "random_hash", Hex(a.random_hash)) /\ Gives(all, "ratchet", Hex(a.ratchet))
           /\ Gives(all, "signature", Hex(a.signature)) /\ Gives(all, "app_data", Hex(a.app_data))
      <3>1. /\ 1 \in 1..Len(all) /\ 2 \in 1..Len(all) /\ 3 \in 1..Len(all) /\ 4 \in 1..Len(all)
            /\ 5 \in 1..Len(all) /\ 6 \in 1..Len(all)
        BY <2>3
      <3>2. /\ \A i \in 1..(1 - 1) : all[i].name # "public_key"
            /\ \A i \in 1..(2 - 1) : all[i].name # "name_hash"
            /\ \A i \in 1..(3 - 1) : all[i].name # "random_hash"
            /\ \A i \in 1..(4 - 1) : all[i].name # "ratchet"
            /\ \A i \in 1..(5 - 1) : all[i].name # "signature"
            /\ \A i \in 1..(6 - 1) : all[i].name # "app_data"
        <4>1. \A i \in 1..5 : i \in {1, 2, 3, 4, 5}
          OBVIOUS
        <4>2. \A k \in {1, 2, 3, 4, 5, 6} : \A i \in 1..(k - 1) : i \in 1..5 /\ i < k
          OBVIOUS
        <4>3. QED
          BY <2>3, <4>1, <4>2
      <3>3. Gives(all, "public_key", Hex(a.public_key))
        BY <2>3, <2>4, <2>10, <3>1, <3>2, GivesAt
      <3>4. Gives(all, "name_hash", Hex(a.name_hash))
        BY <2>3, <2>4, <2>10, <3>1, <3>2, GivesAt
      <3>5. Gives(all, "random_hash", Hex(a.random_hash))
        BY <2>3, <2>4, <2>10, <3>1, <3>2, GivesAt
      <3>6. Gives(all, "ratchet", Hex(a.ratchet))
        BY <2>3, <2>4, <2>10, <3>1, <3>2, GivesAt
      <3>7. Gives(all, "signature", Hex(a.signature))
        BY <2>3, <2>4, <2>10, <3>1, <3>2, GivesAt
      <3>8. Gives(all, "app_data", Hex(a.app_data))
        BY <2>3, <2>4, <2>10, <3>1, <3>2, GivesAt
      <3>9. QED
        BY <3>3, <3>4, <3>5, <3>6, <3>7, <3>8
    <2>12. Free(f, bad, 40)
      BY <2>2, <2>5, <2>9, FreeOn
    <2>13. GivesHeader(f, h)
      BY <2>5, <2>6, <2>10, HeaderGivenOn
    <2>14. /\ Gives(f, "public_key", Hex(Payload(h, 0, 64)))
           /\ Gives(f, "name_hash", Hex(Payload(h, 64, 74 - 64)))
           /\ Gives(f, "random_hash", Hex(Payload(h, 74, 84 - 74)))
           /\ Gives(f, "ratchet", Hex(Payload(h, 84, rat - 84)))
           /\ Gives(f, "signature", Hex(Payload(h, rat, app - rat)))
           /\ Gives(f, "app_data", Hex(Payload(h, app, h.payload_len - app)))
      <3> HIDE DEF rat, app
      <3>1. \A name \in new : \A value : Gives(all, name, value) => Gives(f, name, value)
        BY <2>2, <2>5, GivesAfter
      <3>2. {"public_key", "name_hash", "random_hash", "ratchet", "signature", "app_data"} \subseteq new
        OBVIOUS
      <3>3. QED
        BY <2>8, <2>11, <3>1, <3>2
    <2>15. SaysPayload(f, packed, h)
      <3>1. /\ 64 \in Nat /\ 74 \in Nat /\ 84 \in Nat /\ rat \in Nat /\ app \in Nat
            /\ 64 <= 74 /\ 74 <= 84 /\ 84 <= rat /\ rat <= app /\ app <= h.payload_len
        BY <1>2, <1>11, <2>1
      <3> HIDE DEF rat, app
      <3>2. PICK i, j, k \in Nat : i = 64 /\ j = 74 /\ k = 84
        BY <3>1
      <3>3. i <= j /\ j <= k /\ k <= rat
        BY <3>1, <3>2
      <3>4. /\ Gives(f, "public_key", Hex(Payload(h, 0, i)))
            /\ Gives(f, "name_hash", Hex(Payload(h, i, j - i)))
            /\ Gives(f, "random_hash", Hex(Payload(h, j, k - j)))
            /\ Gives(f, "ratchet", Hex(Payload(h, k, rat - k)))
        BY <2>14, <3>2
      <3>5. SaysPayload(f, <<"public_key", "name_hash", "random_hash", "ratchet", "signature",
                             "app_data">>, h)
        <4>1. SixSaid(f, h, i, j, k, rat, app, "public_key", "name_hash", "random_hash", "ratchet",
                      "signature", "app_data")
          BY <2>1, <2>14, <3>1, <3>3, <3>4 DEF SixSaid
        <4>2. QED
          BY ONLY <4>1, SaysInSix, Zenon
      <3>6. QED
        BY <3>5 DEF packed, AnnounceParts
    <2>16. TakenUp(f, h, none, packed, b)
      BY <2>7, <2>12, <2>13, <2>15 DEF TakenUp, bad
    <2>17. QED
      BY ONLY <1>1, <1>5, <1>6, <1>11, <2>16, AcceptedRound, Zenon DEF b
  <1>12. QED
    BY <1>9, <1>10, <1>11

(* signalling is a field whether it was there or not *)
LEMMA SignallingSays ==
  ASSUME NEW p
  PROVE  Gives(PrintSignalling(p), "signalling", Hex(p)) /\ Free(PrintSignalling(p), {"invalid"}, 3)
  <1>1. Free(PrintSignalling(p), {"invalid"}, 3)
    BY FreePrinted
  <1>2. CASE p = << >>
    <2>1. PrintSignalling(p) = <<Field("signalling", Dash), Field("mode", Word("aes256_cbc")),
                                 Field("mtu", Dash)>>
      BY <1>2 DEF PrintSignalling
    <2>2. Gives(PrintSignalling(p), "signalling", Dash)
      BY <2>1, FewGive
    <2>3. QED
      BY <1>1, <1>2, <2>2 DEF Dash
  <1>3. CASE p # << >>
    <2>1. PrintSignalling(p) = <<Field("signalling", Hex(p)), Field("mode", <<"mode of", p>>),
                                 Field("mtu", <<"mtu of", p>>)>>
      BY <1>3 DEF PrintSignalling
    <2>2. Gives(PrintSignalling(p), "signalling", Hex(p))
      BY <2>1, FewGive
    <2>3. QED
      BY <1>1, <2>2
  <1>4. QED
    BY <1>2, <1>3

LEMMA LinkRequestRound ==
  ASSUME NEW v, WellMade(v), Fits(v), v.kind = "linkrequest",
         NEW f, f = DumpLinkRequest(v.b).lines
  PROVE  RoundTrip(v, f)
  <1> DEFINE b == v.b
             h == Header(b[1])
             signalled == h.payload_len = ECPUBSIZE + SIGNALLEN
             signalling == IF signalled THEN Payload(h, ECPUBSIZE, SIGNALLEN) ELSE << >>
             header == PrintHeader(h)
             two == <<Field("x25519_public", Hex(Payload(h, 0, KEYHALF))),
                      Field("ed25519_public", Hex(Payload(h, KEYHALF, KEYHALF)))>>
             three == PrintSignalling(signalling)
             one == <<Field("link_id", Hex(LinkId(b[1], h)))>>
             wrong == NeitherLength(h, "accepted_length", ECPUBSIZE,
                                    "signalled_length", ECPUBSIZE + SIGNALLEN)
             packed == <<"x25519_public", "ed25519_public", "signalling">>
             bad == {"invalid"}
             keys == {"x25519_public", "ed25519_public"}
             sig == {"signalling", "invalid"}
             none == << >>
             s2 == header \o two
             s3 == s2 \o three
             s4 == s3 \o one
  <1>1. PacketVector(v, 1, h)
    BY KindsOfPackets, SMTT(30) DEF WellMade, Blobs, Fits, PacketVector
  <1>2. f = IF ~h.ok THEN h.lines
            ELSE IF ~signalled /\ h.payload_len # ECPUBSIZE THEN wrong ELSE s4
    BY ONLY f = DumpLinkRequest(v.b).lines DEF DumpLinkRequest, Exits
  <1>3. LaysOut(v.kind, f, none, packed)
    BY KindsLaidOut
  <1>4. IsSeq(packed) /\ packed # << >> /\ Len(none) = 1 - 1
    BY TuplesAreSeqs
  <1>5. Free(none, {"invalid", "flags"}, 0)
    BY FreeParts
  <1>6. WrongLength(wrong) /\ v.kind \in PacketKinds
    BY KindsOfPackets DEF WrongLength
  <1>7. CASE ~h.ok
    <2>1. f = none \o h.lines
      BY <1>1, <1>2, <1>7, HeaderFaults, EmptyEcho DEF PacketVector
    <2> HIDE DEF packed, h, none
    <2>2. QED
      BY ONLY <1>1, <1>3, <1>4, <1>5, <1>7, <2>1, HeaderRound, Zenon
  <1>8. CASE h.ok /\ ~signalled /\ h.payload_len # ECPUBSIZE
    <2>1. f = none \o wrong
      BY <1>2, <1>8, LengthFaults, EmptyEcho
    <2> HIDE DEF packed, h, none, wrong
    <2>2. QED
      BY ONLY <1>3, <1>4, <1>5, <1>6, <2>1, LengthRound, Zenon
  <1>9. CASE h.ok /\ ~(~signalled /\ h.payload_len # ECPUBSIZE)
    <2>1. h.payload_len \in Nat
      BY <1>1, <1>9, HeaderAt DEF PacketVector
    <2>2. Free(header, keys, 11) /\ Free(header, sig, 11)
      BY FreeHeader DEF HeaderNames
    <2>3. /\ Free(two, sig, 2)
          /\ Gives(two, "x25519_public", Hex(Payload(h, 0, KEYHALF)))
          /\ Gives(two, "ed25519_public", Hex(Payload(h, KEYHALF, KEYHALF)))
      BY FreeParts, FewGive
    <2>4. Gives(three, "signalling", Hex(signalling)) /\ Free(three, bad, 3)
      BY SignallingSays
    <2>5. Free(one, bad, 1)
      BY FreeParts
    <2>6. f = s4
      BY <1>2, <1>9
    <2>7. GivesHeader(header, h)
      BY HeaderGives
    <2>8. GivesEchoed(f, none, b)
      BY EchoesGiven
    <2>9. /\ Hex(Payload(h, 0, KEYHALF)) = Hex(Payload(h, 0, 32))
          /\ Hex(Payload(h, KEYHALF, KEYHALF)) = Hex(Payload(h, 32, 64 - 32))
          /\ Hex(signalling) = Hex(Payload(h, 64, h.payload_len - 64))
          /\ 64 <= h.payload_len
      <3>1. KEYHALF = 32 /\ ECPUBSIZE = 64 /\ SIGNALLEN = 3 /\ 64 - 32 = 32
        BY DEF KEYHALF, ECPUBSIZE, SIGNALLEN
      <3>2. Payload(h, 64, 0) = << >>
        BY DEF Payload, Mem
      <3>3. CASE signalled
        <4>1. h.payload_len = 67 /\ h.payload_len - 64 = 3 /\ signalling = Payload(h, 64, 3)
          BY <3>1, <3>3
        <4>2. QED
          BY <3>1, <4>1
      <3>4. CASE ~signalled
        <4>1. h.payload_len = 64 /\ h.payload_len - 64 = 0 /\ signalling = << >>
          BY <1>9, <3>1, <3>4
        <4>2. QED
          BY <3>1, <3>2, <4>1
      <3>5. QED
        BY <3>3, <3>4
    <2> HIDE DEF h, header, two, three, one, packed, bad, none, signalling
    <2>10. Free(s2, sig, 13)
      BY <2>2, <2>3, FreeOn
    <2> HIDE DEF s2
    <2>11. Free(s2, bad, 13) /\ Free(s2, {"signalling"}, 13)
      BY <2>10 DEF Free, bad
    <2>12. Free(s3, bad, 16)
      BY <2>4, <2>11, FreeOn
    <2> HIDE DEF s3
    <2>13. Free(s4, bad, 40)
      BY <2>5, <2>12, FreeOn
    <2>14. IsSeq(two) /\ IsSeq(three) /\ IsSeq(one)
      BY <2>3, <2>4, <2>5 DEF Free
    <2> USE DEF s2, s3
    <2>15. /\ Gives(s2, "x25519_public", Hex(Payload(h, 0, KEYHALF)))
           /\ Gives(s2, "ed25519_public", Hex(Payload(h, KEYHALF, KEYHALF)))
      BY <2>2, <2>3, GivesAfter
    <2>16. Gives(s3, "signalling", Hex(signalling))
      BY <2>4, <2>11, GivesAfter
    <2>17. /\ Gives(s4, "x25519_public", Hex(Payload(h, 0, KEYHALF)))
           /\ Gives(s4, "ed25519_public", Hex(Payload(h, KEYHALF, KEYHALF)))
           /\ Gives(s4, "signalling", Hex(signalling))
      BY <2>14, <2>15, <2>16, GivesOn
    <2>18. GivesHeader(s4, h)
      BY <2>7, <2>14, HeaderGivenOn
    <2> HIDE DEF s2, s3, s4
    <2>19. /\ Gives(f, "x25519_public", Hex(Payload(h, 0, 32)))
           /\ Gives(f, "ed25519_public", Hex(Payload(h, 32, 64 - 32)))
           /\ Gives(f, "signalling", Hex(Payload(h, 64, h.payload_len - 64)))
      BY <2>6, <2>9, <2>17
    <2>20. SaysPayload(f, packed, h)
      <3>1. 32 \in Nat /\ 64 \in Nat /\ 32 <= 64
        OBVIOUS
      <3>2. QED
        BY ONLY <2>1, <2>9, <2>19, <3>1, SaysInThree DEF packed
    <2>21. TakenUp(f, h, none, packed, b)
      BY <2>6, <2>8, <2>13, <2>18, <2>20 DEF TakenUp, bad
    <2>22. QED
      BY ONLY <1>1, <1>3, <1>4, <1>9, <2>21, AcceptedRound, Zenon DEF b
  <1>10. QED
    BY <1>7, <1>8, <1>9

LEMMA ResourceProofRound ==
  ASSUME NEW v, WellMade(v), Fits(v), v.kind = "resourceproof",
         NEW f, f = DumpResourceProof(v.b).lines
  PROVE  RoundTrip(v, f)
  <1> DEFINE b == v.b
             h == Header(b[2])
             hash == Payload(h, 0, HASHLEN)
             echo == <<Field("advertised_hash", Hex(Whole(b[1])))>>
             header == PrintHeader(h)
             three == <<Field("resource_hash", Hex(hash)),
                        Field("resource_proof", Hex(Payload(h, HASHLEN, HASHLEN))),
                        Field("hash_match", Equal(hash, Whole(b[1])))>>
             numbers == <<Field("payload_length", Decimal(h.payload_len)),
                          Field("accepted_length", Decimal(2 * HASHLEN))>>
             wrong == Rejection("invalid-length", numbers)
             echoed == <<"advertised_hash">>
             packed == <<"resource_hash", "resource_proof">>
             bad == {"invalid"}
             new == {"invalid", "resource_hash", "resource_proof"}
             s1 == echo \o header
             s2 == s1 \o three
  <1>1. PacketVector(v, 2, h)
    BY KindsOfPackets, SMTT(30) DEF WellMade, Blobs, Fits, PacketVector
  <1>2. f = IF ~h.ok THEN echo \o h.lines
            ELSE IF h.payload_len # 2 * HASHLEN THEN s1 \o wrong ELSE s2
    <2>1. b[1].len = HASHLEN
      BY DEF WellMade, Lengths
    <2>2. QED
      BY ONLY <2>1, f = DumpResourceProof(v.b).lines DEF DumpResourceProof, Exits, Rejected
  <1>3. LaysOut(v.kind, f, echoed, packed)
    BY KindsLaidOut
  <1>4. IsSeq(packed) /\ packed # << >> /\ Len(echoed) = 2 - 1
    BY TuplesAreSeqs
  <1>5. /\ Free(echo, {"invalid", "flags"}, 1) /\ Free(echo, new, 1) /\ Free(echo, HeaderNames, 1)
        /\ Gives(echo, "advertised_hash", Hex(Whole(b[1])))
    BY FreeParts, FewGive DEF HeaderNames
  <1>6. v.kind \in PacketKinds /\ v.kind \in ENCODABLE
    BY KindsOfPackets
  <1>7. /\ Free(header, new, 11) /\ IsSeq(header)
    BY FreeHeader DEF HeaderNames, Free
  <1>8. Free(s1, new, 12)
    <2> HIDE DEF echo, header, new
    <2>1. QED
      BY <1>5, <1>7, FreeOn
  <1>9. CASE ~h.ok
    <2>1. f = echo \o h.lines
      BY <1>2, <1>9
    <2> HIDE DEF packed, echoed, h, echo
    <2>2. QED
      BY ONLY <1>1, <1>3, <1>4, <1>5, <1>9, <2>1, HeaderRound, Zenon
  <1>10. CASE h.ok /\ h.payload_len # 2 * HASHLEN
    <2>1. f = s1 \o wrong
      BY <1>2, <1>10
    <2>2. Refuses(wrong, "invalid-length") /\ Names(wrong) = {"invalid", "payload_length", "accepted_length"}
      <3>1. IsSeq(numbers) /\ Names(numbers) = {"payload_length", "accepted_length"}
        BY NumbersOf
      <3> HIDE DEF numbers
      <3>2. QED
        BY <3>1, RejectionLines DEF Refuses
    <2>3. "resource_hash" \in Range(HeaderFields) \union Range(packed)
      <3>1. packed[1] = "resource_hash" /\ 1 \in DOMAIN packed
        OBVIOUS
      <3>2. QED
        BY <3>1 DEF Range
    <2>4. "resource_hash" \notin Names(wrong) /\ "invalid-length" \notin AFTER_PLAINTEXT
      BY <2>2 DEF AFTER_PLAINTEXT
    <2>5. Free(s1, {"invalid", "resource_hash"}, 12)
      BY <1>8 DEF Free
    <2> HIDE DEF packed, echoed, h, s1, wrong
    <2>6. LaysOut(v.kind, s1 \o wrong, echoed, packed)
      BY <1>3, <2>1
    <2>7. RoundTrip(v, s1 \o wrong)
      BY ONLY <1>4, <1>6, <2>2, <2>3, <2>4, <2>5, <2>6, FaultUnread
    <2>8. QED
      BY <2>1, <2>7
  <1>11. CASE h.ok /\ h.payload_len = 2 * HASHLEN
    <2>1. h.payload_len \in Nat
      BY <1>1, <1>11, HeaderAt DEF PacketVector
    <2>2. f = s2
      BY <1>2, <1>11
    <2>3. /\ Free(three, bad, 3) /\ Gives(three, "resource_hash", Hex(hash))
          /\ Gives(three, "resource_proof", Hex(Payload(h, HASHLEN, HASHLEN)))
      BY FreeParts, FewGive
    <2>4. /\ Hex(hash) = Hex(Payload(h, 0, 32)) /\ 32 <= h.payload_len
          /\ Hex(Payload(h, HASHLEN, HASHLEN)) = Hex(Payload(h, 32, h.payload_len - 32))
      BY <1>11 DEF HASHLEN
    <2> HIDE DEF h, header, three, echo, hash
    <2>5. GivesHeader(s1, h)
      BY <1>5, HeaderGivenBehind DEF header
    <2>6. Gives(s1, "advertised_hash", Hex(Whole(b[1])))
      BY <1>5, <1>7, GivesOn
    <2> HIDE DEF s1
    <2>7. Free(s1, bad, 12)
      BY <1>8 DEF Free
    <2> HIDE DEF bad
    <2>8. Free(s2, bad, 40)
      BY <2>3, <2>7, FreeOn
    <2>9. IsSeq(three)
      BY <2>3 DEF Free
    <2>10. GivesHeader(s2, h) /\ Gives(s2, "advertised_hash", Hex(Whole(b[1])))
      BY <2>5, <2>6, <2>9, HeaderGivenOn, GivesOn
    <2>11. /\ Gives(s2, "resource_hash", Hex(hash))
           /\ Gives(s2, "resource_proof", Hex(Payload(h, HASHLEN, HASHLEN)))
      BY <1>8, <2>3, GivesAfter
    <2> HIDE DEF s2
    <2>12. /\ Gives(f, "resource_hash", Hex(Payload(h, 0, 32)))
           /\ Gives(f, "resource_proof", Hex(Payload(h, 32, h.payload_len - 32)))
      BY <2>2, <2>4, <2>11
    <2>13. SaysPayload(f, packed, h)
      <3>1. 32 \in Nat
        OBVIOUS
      <3>2. QED
        BY ONLY <2>1, <2>4, <2>12, <3>1, SaysInTwo DEF packed
    <2>14. GivesEchoed(f, echoed, v.b)
      BY <2>2, <2>10, EchoesGiven DEF echoed
    <2> HIDE DEF packed, echoed
    <2>15. TakenUp(f, h, echoed, packed, v.b)
      BY <2>2, <2>8, <2>10, <2>13, <2>14 DEF TakenUp, bad
    <2>16. QED
      BY ONLY <1>1, <1>3, <1>4, <1>11, <2>15, AcceptedRound, Zenon
  <1>12. QED
    BY <1>9, <1>10, <1>11

LEMMA LinkProofRound ==
  ASSUME NEW v, WellMade(v), Fits(v), v.kind = "linkproof", DumpLinkProof(v.b).status = 0,
         NEW f, f = DumpLinkProof(v.b).lines
  PROVE  RoundTrip(v, f)
  <1> DEFINE b == v.b
             rh == Header(b[1])
             h  == Header(b[3])
             short      == SIGLEN + KEYHALF
             signalled  == h.payload_len = short + SIGNALLEN
             signature  == Payload(h, 0, SIGLEN)
             x25519     == Payload(h, SIGLEN, KEYHALF)
             signalling == IF signalled THEN Payload(h, short, SIGNALLEN) ELSE << >>
             signer     == At(b[2], KEYHALF, KEYHALF)
             link_id    == LinkId(b[1], rh)
             signed_data == Cat(<<link_id, x25519, signer, signalling>>)
             echo == <<Field("link_request", Hex(Whole(b[1]))),
                       Field("signer_public", Hex(Whole(b[2])))>>
             header == PrintHeader(h)
             four == <<Field("link_id", Hex(link_id)),
                       Field("link_id_match", Equal(h.destination_hash, link_id)),
                       Field("signature", Hex(signature)),
                       Field("x25519_public", Hex(x25519))>>
             three == PrintSignalling(signalling)
             last == <<Field("signer_ed25519", Hex(signer)),
                       Field("signed_data", Hex(signed_data)),
                       Field("signature_valid", Verifies(signer, signature, signed_data))>>
             wrong == NeitherLength(h, "accepted_length", short,
                                    "signalled_length", short + SIGNALLEN)
             echoed == <<"link_request", "signer_public">>
             packed == <<"signature", "x25519_public", "signalling">>
             bad == {"invalid"}
             new == {"invalid", "signature", "x25519_public", "signalling"}
             sig == {"signalling", "invalid"}
             s1 == echo \o header
             s2 == s1 \o four
             s3 == s2 \o three
             s4 == s3 \o last
  <1>1. PacketVector(v, 3, h)
    BY KindsOfPackets, SMTT(30) DEF WellMade, Blobs, Fits, PacketVector
  <1>2. f = IF ~h.ok THEN echo \o h.lines
            ELSE IF ~signalled /\ h.payload_len # short THEN echo \o wrong ELSE s4
    <2>1. b[2].len = KEYSIZE
      BY DEF WellMade, Lengths
    <2>2. \A x : Fatal(x).status # 0
      BY DEF Fatal
    <2>3. rh.ok
      <3>1. ~rh.ok => DumpLinkProof(v.b) = Fatal(echo)
        BY ONLY <2>1 DEF DumpLinkProof
      <3>2. QED
        BY ONLY <2>2, <3>1, DumpLinkProof(v.b).status = 0
    <2>4. QED
      BY ONLY <2>1, <2>3, f = DumpLinkProof(v.b).lines DEF DumpLinkProof, Exits, Rejected
  <1>3. LaysOut(v.kind, f, echoed, packed)
    BY KindsLaidOut
  <1>4. IsSeq(packed) /\ packed # << >> /\ Len(echoed) = 3 - 1
    BY TuplesAreSeqs
  <1>5. /\ Free(echo, {"invalid", "flags"}, 2) /\ Free(echo, new, 2) /\ Free(echo, HeaderNames, 2)
        /\ Gives(echo, "link_request", Hex(Whole(b[1])))
        /\ Gives(echo, "signer_public", Hex(Whole(b[2])))
    BY FreeParts, FewGive DEF HeaderNames
  <1>6. WrongLength(wrong) /\ v.kind \in PacketKinds
    BY KindsOfPackets DEF WrongLength
  <1>7. CASE ~h.ok
    <2>1. f = echo \o h.lines
      BY <1>2, <1>7
    <2> HIDE DEF packed, echoed, h, echo
    <2>2. QED
      BY ONLY <1>1, <1>3, <1>4, <1>5, <1>7, <2>1, HeaderRound, Zenon
  <1>8. CASE h.ok /\ ~signalled /\ h.payload_len # short
    <2>1. f = echo \o wrong
      BY <1>2, <1>8
    <2> HIDE DEF packed, echoed, h, echo, wrong
    <2>2. QED
      BY ONLY <1>3, <1>4, <1>5, <1>6, <2>1, LengthRound, Zenon
  <1>9. CASE h.ok /\ ~(~signalled /\ h.payload_len # short)
    <2>1. h.payload_len \in Nat
      BY <1>1, <1>9, HeaderAt DEF PacketVector
    <2>2. Free(header, new, 11) /\ IsSeq(header)
      BY FreeHeader DEF HeaderNames, Free
    <2>3. /\ Gives(four, "signature", Hex(signature)) /\ Gives(four, "x25519_public", Hex(x25519))
          /\ Free(four, sig, 4)
      <3> HIDE DEF link_id, signature, x25519
      <3>1. Free(four, sig, 4)
        BY FreeParts
      <3>2. /\ Len(four) = 4 /\ four[1].name = "link_id" /\ four[2].name = "link_id_match"
            /\ four[3].name = "signature" /\ four[4].name = "x25519_public"
            /\ four[3].value = Hex(signature) /\ four[4].value = Hex(x25519)
        BY DEF Field
      <3> HIDE DEF four
      <3>3. IsSeq(four)
        BY <3>1 DEF Free
      <3>4. /\ 3 \in 1..Len(four) /\ 4 \in 1..Len(four)
            /\ (\A i \in 1..(3 - 1) : i = 1 \/ i = 2) /\ (\A i \in 1..(4 - 1) : i = 1 \/ i = 2 \/ i = 3)
        BY <3>2
      <3>5. Gives(four, "signature", Hex(signature))
        BY <3>2, <3>3, <3>4, GivesAt
      <3>6. Gives(four, "x25519_public", Hex(x25519))
        BY <3>2, <3>3, <3>4, GivesAt
      <3>7. QED
        BY <3>1, <3>5, <3>6
    <2>4. Gives(three, "signalling", Hex(signalling)) /\ Free(three, bad, 3)
      BY SignallingSays
    <2>5. Free(last, bad, 3)
      <3> HIDE DEF signer, signature, signed_data
      <3>1. Free(last, bad, 3)
        BY FreeParts, Zenon
      <3>2. QED
        BY <3>1
    <2>6. f = s4
      BY <1>2, <1>9, Zenon
    <2>7. /\ Hex(signature) = Hex(Payload(h, 0, 64))
          /\ Hex(x25519) = Hex(Payload(h, 64, 96 - 64))
          /\ Hex(signalling) = Hex(Payload(h, 96, h.payload_len - 96))
          /\ 96 <= h.payload_len
      <3>1. KEYHALF = 32 /\ SIGLEN = 64 /\ SIGNALLEN = 3 /\ 96 - 64 = 32 /\ short = 96
        BY DEF KEYHALF, SIGLEN, SIGNALLEN
      <3>2. Payload(h, 96, 0) = << >>
        BY DEF Payload, Mem
      <3>3. CASE signalled
        <4>1. h.payload_len = 99 /\ h.payload_len - 96 = 3 /\ signalling = Payload(h, 96, 3)
          BY <3>1, <3>3
        <4>2. QED
          BY <3>1, <4>1
      <3>4. CASE ~signalled
        <4>1. h.payload_len = 96 /\ h.payload_len - 96 = 0 /\ signalling = << >>
          BY <1>9, <3>1, <3>4
        <4>2. QED
          BY <3>1, <3>2, <4>1
      <3>5. QED
        BY <3>3, <3>4
    <2> HIDE DEF h, header, echo, four, three, last, signature, x25519, signalling
    <2>8. IsSeq(four) /\ IsSeq(three) /\ IsSeq(last)
      BY <2>3, <2>4, <2>5 DEF Free
    <2>9. Free(s1, new, 13)
      BY <1>5, <2>2, FreeOn
    <2>10. Free(s1, sig, 13)
      BY <2>9 DEF Free
    <2> HIDE DEF s1
    <2>11. Free(s2, sig, 17)
      BY <2>3, <2>10, FreeOn
    <2> HIDE DEF s2
    <2>12. Free(s2, bad, 17) /\ Free(s2, {"signalling"}, 17)
      BY <2>11 DEF Free
    <2> HIDE DEF bad
    <2>13. Free(s3, bad, 20)
      BY <2>4, <2>12, FreeOn
    <2> HIDE DEF s3
    <2>14. Free(s4, bad, 40)
      BY <2>5, <2>13, FreeOn
    <2> USE DEF s1, s2, s3
    <2>15. GivesHeader(s1, h)
      BY <1>5, HeaderGivenBehind DEF header
    <2>16. /\ Gives(s1, "link_request", Hex(Whole(b[1])))
           /\ Gives(s1, "signer_public", Hex(Whole(b[2])))
      BY <1>5, <2>2, GivesOn
    <2>17. /\ Gives(s2, "signature", Hex(signature)) /\ Gives(s2, "x25519_public", Hex(x25519))
      <3> HIDE DEF s1
      <3>1. QED
        BY <2>3, <2>9, GivesAfter
    <2>18. Gives(s3, "signalling", Hex(signalling))
      <3> HIDE DEF s2
      <3>1. QED
        BY <2>4, <2>12, GivesAfter
    <2>19. /\ GivesHeader(s4, h)
      BY <2>8, <2>15, HeaderGivenOn
    <2>20. /\ Gives(s4, "link_request", Hex(Whole(b[1])))
           /\ Gives(s4, "signer_public", Hex(Whole(b[2])))
           /\ Gives(s4, "signature", Hex(signature)) /\ Gives(s4, "x25519_public", Hex(x25519))
           /\ Gives(s4, "signalling", Hex(signalling))
      BY <2>8, <2>16, <2>17, <2>18, GivesOn
    <2> HIDE DEF s1, s2, s3, s4
    <2>21. /\ Gives(f, "signature", Hex(Payload(h, 0, 64)))
           /\ Gives(f, "x25519_public", Hex(Payload(h, 64, 96 - 64)))
           /\ Gives(f, "signalling", Hex(Payload(h, 96, h.payload_len - 96)))
      BY <2>6, <2>7, <2>20
    <2>22. SaysPayload(f, packed, h)
      <3>1. 64 \in Nat /\ 96 \in Nat /\ 64 <= 96
        OBVIOUS
      <3>2. QED
        BY ONLY <2>1, <2>7, <2>21, <3>1, SaysInThree DEF packed
    <2>23. GivesEchoed(f, echoed, v.b)
      BY <2>6, <2>20, EchoesGiven DEF echoed
    <2> HIDE DEF packed, echoed
    <2>24. TakenUp(f, h, echoed, packed, v.b)
      BY <2>6, <2>14, <2>19, <2>22, <2>23 DEF TakenUp, bad
    <2>25. QED
      BY ONLY <1>1, <1>3, <1>4, <1>9, <2>24, AcceptedRound, Zenon
  <1>10. QED
    BY <1>7, <1>8, <1>9

LEMMA ProofRound ==
  ASSUME NEW v, WellMade(v), Fits(v), v.kind = "proof", DumpProof(v.b).status = 0,
         NEW f, f = DumpProof(v.b).lines
  PROVE  RoundTrip(v, f)
  <1> DEFINE b == v.b
             ph == Header(b[1])
             h  == Header(b[3])
             explicit == h.payload_len = HASHLEN + SIGLEN
             on_link  == h.destination_type = 3
             packet_hash == PacketHash(b[1], ph)
             proof_hash  == Payload(h, 0, HASHLEN)
             signature == IF explicit THEN Payload(h, HASHLEN, SIGLEN) ELSE Payload(h, 0, SIGLEN)
             signer    == IF on_link THEN Whole(b[2]) ELSE At(b[2], KEYHALF, KEYHALF)
             addressed == IF on_link THEN ph.destination_hash ELSE PacketHashOf(b[1], ph, ADDRLEN)
             hash_value == IF explicit THEN Hex(proof_hash) ELSE Dash
             echo == <<Field("proved_packet", Hex(Whole(b[1]))),
                       Field("signer_public", Hex(Whole(b[2])))>>
             header == PrintHeader(h)
             four == <<Field("form", Word(IF explicit THEN "explicit" ELSE "implicit")),
                       Field("packet_hash", Hex(packet_hash)),
                       Field("proof_hash", hash_value),
                       Field("hash_match", IF explicit THEN Equal(proof_hash, packet_hash)
                                           ELSE Word("yes"))>>
             two == <<Field(IF on_link THEN "link_id" ELSE "proof_destination", Hex(addressed)),
                      Field(IF on_link THEN "link_id_match" ELSE "destination_match",
                            Equal(h.destination_hash, addressed))>>
             three == <<Field("signature", Hex(signature)),
                        Field("signer_ed25519", Hex(signer)),
                        Field("signature_valid", Verifies(signer, signature, packet_hash))>>
             wrong == NeitherLength(h, "implicit_length", SIGLEN,
                                    "explicit_length", HASHLEN + SIGLEN)
             echoed == <<"proved_packet", "signer_public">>
             packed == <<"proof_hash", "signature">>
             bad == {"invalid"}
             new == {"invalid", "proof_hash", "signature"}
             sig == {"signature", "invalid"}
             s1 == echo \o header
             s2 == s1 \o four
             s3 == s2 \o two
             s4 == s3 \o three
  <1>1. PacketVector(v, 3, h)
    BY KindsOfPackets, SMTT(30) DEF WellMade, Blobs, Fits, PacketVector
  <1>2. f = IF ~h.ok THEN echo \o h.lines
            ELSE IF ~explicit /\ h.payload_len # SIGLEN THEN echo \o wrong ELSE s4
    <2>1. \A x : Fatal(x).status # 0
      BY DEF Fatal
    <2>2. b[2].len \in {KEYSIZE, KEYHALF}
      BY DEF WellMade, Lengths
    <2>3. ph.ok
      <3>1. ~ph.ok => DumpProof(v.b) = Fatal(echo)
        BY ONLY <2>2 DEF DumpProof
      <3>2. QED
        BY ONLY <2>1, <3>1, DumpProof(v.b).status = 0
    <2>4. h.ok /\ ~(~explicit /\ h.payload_len # SIGLEN)
            => b[2].len = (IF on_link THEN KEYHALF ELSE KEYSIZE)
      <3>1. h.ok /\ ~(~explicit /\ h.payload_len # SIGLEN)
            /\ b[2].len # (IF on_link THEN KEYHALF ELSE KEYSIZE)
              => DumpProof(v.b) = Fatal(echo)
        BY ONLY <2>2, <2>3 DEF DumpProof
      <3>2. QED
        BY ONLY <2>1, <3>1, DumpProof(v.b).status = 0
    <2>5. QED
      BY ONLY <2>2, <2>3, <2>4, f = DumpProof(v.b).lines DEF DumpProof, Exits, Rejected
  <1>3. LaysOut(v.kind, f, echoed, packed)
    BY KindsLaidOut
  <1>4. IsSeq(packed) /\ packed # << >> /\ Len(echoed) = 3 - 1
    BY TuplesAreSeqs
  <1>5. /\ Free(echo, {"invalid", "flags"}, 2) /\ Free(echo, new, 2) /\ Free(echo, HeaderNames, 2)
        /\ Gives(echo, "proved_packet", Hex(Whole(b[1])))
        /\ Gives(echo, "signer_public", Hex(Whole(b[2])))
    BY FreeParts, FewGive DEF HeaderNames
  <1>6. WrongLength(wrong) /\ v.kind \in PacketKinds
    BY KindsOfPackets DEF WrongLength
  <1>7. CASE ~h.ok
    <2>1. f = echo \o h.lines
      BY <1>2, <1>7
    <2> HIDE DEF packed, echoed, h, echo
    <2>2. QED
      BY ONLY <1>1, <1>3, <1>4, <1>5, <1>7, <2>1, HeaderRound, Zenon
  <1>8. CASE h.ok /\ ~explicit /\ h.payload_len # SIGLEN
    <2>1. f = echo \o wrong
      BY <1>2, <1>8
    <2> HIDE DEF packed, echoed, h, echo, wrong
    <2>2. QED
      BY ONLY <1>3, <1>4, <1>5, <1>6, <2>1, LengthRound, Zenon
  <1>9. CASE h.ok /\ ~(~explicit /\ h.payload_len # SIGLEN)
    <2> DEFINE a == IF explicit THEN 32 ELSE 0
    <2>1. h.payload_len \in Nat
      BY <1>1, <1>9, HeaderAt DEF PacketVector
    <2>2. Free(header, new, 11) /\ IsSeq(header)
      BY FreeHeader DEF HeaderNames, Free
    <2>3. Gives(four, "proof_hash", hash_value) /\ Free(four, sig, 4)
      <3> HIDE DEF packet_hash, proof_hash, hash_value
      <3>1. Free(four, sig, 4)
        BY FreeParts
      <3>2. /\ Len(four) = 4 /\ four[1].name = "form" /\ four[2].name = "packet_hash"
            /\ four[3].name = "proof_hash" /\ four[3].value = hash_value
        BY DEF Field
      <3> HIDE DEF four
      <3>3. IsSeq(four)
        BY <3>1 DEF Free
      <3>4. 3 \in 1..Len(four) /\ (\A i \in 1..(3 - 1) : i = 1 \/ i = 2)
        BY <3>2
      <3>5. Gives(four, "proof_hash", hash_value)
        BY <3>2, <3>3, <3>4, GivesAt
      <3>6. QED
        BY <3>1, <3>5
    <2>4. Free(two, sig, 2)
      <3> DEFINE x == IF on_link THEN "link_id" ELSE "proof_destination"
                 y == IF on_link THEN "link_id_match" ELSE "destination_match"
      <3>1. x \notin sig /\ y \notin sig
        OBVIOUS
      <3> HIDE DEF x, y, addressed
      <3>2. \A m, n : Free(<<Field(x, m), Field(y, n)>>, sig, 2)
        BY <3>1, FreeParts
      <3>3. QED
        BY <3>2 DEF x, y
    <2>5. Free(three, bad, 3) /\ Gives(three, "signature", Hex(signature))
      <3> HIDE DEF signer, signature, packet_hash
      <3>1. Free(three, bad, 3) /\ Gives(three, "signature", Hex(signature))
        BY FreeParts, FewGive, Zenon
      <3>2. QED
        BY <3>1
    <2>6. f = s4
      BY <1>2, <1>9, Zenon
    <2>7. /\ hash_value = Hex(Payload(h, 0, a)) /\ Hex(signature) = Hex(Payload(h, a, h.payload_len - a))
          /\ a \in Nat /\ a <= h.payload_len
      <3>1. HASHLEN = 32 /\ SIGLEN = 64
        BY DEF HASHLEN, SIGLEN
      <3>2. Payload(h, 0, 0) = << >>
        BY DEF Payload, Mem
      <3>3. CASE explicit
        <4>1. h.payload_len = 96 /\ h.payload_len - 32 = 64 /\ a = 32
          BY <3>1, <3>3
        <4>2. QED
          BY <3>1, <3>3, <4>1
      <3>4. CASE ~explicit
        <4>1. h.payload_len = 64 /\ h.payload_len - 0 = 64 /\ a = 0
          BY <1>9, <3>1, <3>4
        <4>2. QED
          BY <3>1, <3>2, <3>4, <4>1 DEF Dash
      <3>5. QED
        BY <3>3, <3>4
    <2> HIDE DEF h, header, echo, four, two, three, signature, hash_value, a
    <2>8. IsSeq(four) /\ IsSeq(two) /\ IsSeq(three)
      BY <2>3, <2>4, <2>5 DEF Free
    <2>9. Free(s1, new, 13)
      BY <1>5, <2>2, FreeOn
    <2>10. Free(s1, sig, 13)
      BY <2>9 DEF Free
    <2> HIDE DEF s1
    <2>11. Free(s2, sig, 17)
      BY <2>3, <2>10, FreeOn
    <2> HIDE DEF s2
    <2>12. Free(s3, sig, 19)
      BY <2>4, <2>11, FreeOn
    <2> HIDE DEF s3
    <2>13. Free(s3, bad, 19)
      BY <2>12 DEF Free
    <2>14. Free(s4, bad, 40)
      BY <2>5, <2>13, FreeOn
    <2> USE DEF s1, s2
    <2>15. GivesHeader(s1, h)
      BY <1>5, HeaderGivenBehind DEF header
    <2>16. /\ Gives(s1, "proved_packet", Hex(Whole(b[1])))
           /\ Gives(s1, "signer_public", Hex(Whole(b[2])))
      BY <1>5, <2>2, GivesOn
    <2>17. Gives(s2, "proof_hash", hash_value)
      <3> HIDE DEF s1
      <3>1. QED
        BY <2>3, <2>9, GivesAfter
    <2>18. Gives(s4, "signature", Hex(signature))
      BY <2>5, <2>12, GivesAfter
    <2> USE DEF s3
    <2>19. GivesHeader(s4, h)
      BY <2>8, <2>15, HeaderGivenOn
    <2>20. /\ Gives(s4, "proved_packet", Hex(Whole(b[1])))
           /\ Gives(s4, "signer_public", Hex(Whole(b[2])))
           /\ Gives(s4, "proof_hash", hash_value)
      BY <2>8, <2>16, <2>17, GivesOn
    <2> HIDE DEF s1, s2, s3, s4
    <2>21. /\ Gives(f, "proof_hash", Hex(Payload(h, 0, a)))
           /\ Gives(f, "signature", Hex(Payload(h, a, h.payload_len - a)))
      BY <2>6, <2>7, <2>18, <2>20
    <2>22. SaysPayload(f, packed, h)
      BY ONLY <2>1, <2>7, <2>21, SaysInTwo DEF packed
    <2>23. GivesEchoed(f, echoed, v.b)
      BY <2>6, <2>20, EchoesGiven DEF echoed
    <2> HIDE DEF packed, echoed
    <2>24. TakenUp(f, h, echoed, packed, v.b)
      BY <2>6, <2>14, <2>19, <2>22, <2>23 DEF TakenUp
    <2>25. QED
      BY ONLY <1>1, <1>3, <1>4, <1>9, <2>24, AcceptedRound, Zenon
  <1>10. QED
    BY <1>7, <1>8, <1>9

(* how long what stands behind a plaintext is, and what it says of it *)
Ending(e) ==
  /\ IsSeq(e) /\ Len(e) <= 4
  /\ Accepts(e) \/ \E rule \in AFTER_PLAINTEXT : Refuses(e, rule)

LEMMA PlaintextTail ==
  ASSUME NEW context, NEW t, NEW link_id, NEW sees
  PROVE  Ending(AfterPlaintext(context, t, link_id, sees))
  <1> DEFINE lines == AfterPlaintext(context, t, link_id, sees)
             need == IF context = "resource_req" THEN PartRequestNeeds(t, sees) ELSE Least(context)
             key  == PlainAt(t, 0, KEYSIZE)
             sig  == PlainAt(t, KEYSIZE, SIGLEN)
             signed == Cat(<<link_id, key>>)
             channel == <<Field("msgtype", Hex(PlainAt(t, 0, 2))),
                          Field("sequence", <<"number", PlainAt(t, 2, 2)>>),
                          Field("declared_length", <<"number", PlainAt(t, 4, 2)>>),
                          Field("message", Hex(PlainAt(t, ENVELOPELEN, t.ptlen - ENVELOPELEN)))>>
             identity == <<Field("identity_public", Hex(key)),
                           Field("identity_hash", Hex(Sha256(key, ADDRLEN))),
                           Field("identity_signed", Hex(signed)),
                           Field("identity_valid", Verifies(PlainAt(t, KEYHALF, KEYHALF), sig, signed))>>
             long == <<Field("required_length", Decimal(KEYSIZE + SIGLEN))>>
             least == <<Field("minimum_length", Decimal(need))>>
  <1>1. lines = CASE t.ptlen < need -> Short(need)
                  [] t.ptlen >= need /\ context \in {"request", "response", "resource_adv",
                         "resource_req", "resource_hmu", "resource_icl", "resource_rcl"}
                       -> Body(context, t)
                  [] t.ptlen >= need /\ context = "channel" -> channel
                  [] context = "link_identify" ->
                       IF t.ptlen # KEYSIZE + SIGLEN THEN Rejection("identify-length", long)
                       ELSE identity
                  [] OTHER -> << >>
    BY DEF AfterPlaintext
  <1>2. Ending(<< >>) /\ Ending(Body(context, t))
    <2>1. Accepts(<< >>) /\ Accepts(Body(context, t))
      BY AcceptedParts DEF Body
    <2>2. Len(<< >>) <= 4 /\ Len(Body(context, t)) <= 4
      BY DEF Body
    <2>3. QED
      BY <2>1, <2>2 DEF Ending, Accepts
  <1>3. Ending(channel)
    <2>1. Accepts(channel)
      BY AcceptedFour
    <2>2. Len(channel) <= 4
      OBVIOUS
    <2> HIDE DEF channel
    <2>3. QED
      BY <2>1, <2>2 DEF Ending, Accepts
  <1>4. Ending(identity)
    <2> HIDE DEF key, sig, signed
    <2>1. Accepts(identity)
      BY AcceptedFour
    <2>2. Len(identity) <= 4
      OBVIOUS
    <2> HIDE DEF identity
    <2>3. QED
      BY <2>1, <2>2 DEF Ending, Accepts
  <1>5. ASSUME NEW rule \in AFTER_PLAINTEXT, NEW x, x # "invalid", NEW n
        PROVE  Ending(Rejection(rule, <<Field(x, Decimal(n))>>))
    <2> DEFINE one == <<Field(x, Decimal(n))>>
               first == <<Field("invalid", Word(rule))>>
    <2>1. IsSeq(one) /\ Len(one) = 1 /\ IsSeq(first) /\ Len(first) = 1
      BY TuplesAreSeqs
    <2> HIDE DEF one, first
    <2>2. IsSeq(first \o one) /\ Len(first \o one) = Len(first) + Len(one)
      BY ONLY <2>1, SeqsJoin
    <2>3. Len(first \o one) <= 4
      BY <2>1, <2>2
    <2>4. Rejection(rule, one) = first \o one
      BY DEF Rejection, first
    <2>5. Refuses(Rejection(rule, one), rule)
      BY <2>1, RejectionLines DEF Refuses
    <2>6. Ending(Rejection(rule, one))
      BY <1>5, <2>2, <2>3, <2>4, <2>5 DEF Ending
    <2>7. QED
      BY <2>6 DEF one
  <1>6. Ending(Short(need)) /\ Ending(Rejection("identify-length", long))
    <2>1. "short-plaintext" \in AFTER_PLAINTEXT /\ "identify-length" \in AFTER_PLAINTEXT
      BY DEF AFTER_PLAINTEXT
    <2> HIDE DEF need
    <2>2. QED
      BY <1>5, <2>1 DEF Short
  <1> HIDE DEF lines, need, channel, identity, long
  <1>7. lines \in {Short(need), Body(context, t), channel, identity, << >>,
                   Rejection("identify-length", long)}
    BY <1>1
  <1>8. Ending(lines)
    BY <1>2, <1>3, <1>4, <1>6, <1>7
  <1>9. QED
    BY <1>8 DEF lines

(* what a packet breaks behind its plaintext does not keep it from coming back *)
TakenWith(f, e, h, echoed, packed, b) ==
  /\ GivesHeader(f \o e, h) /\ SaysPayload(f \o e, packed, h) /\ GivesEchoed(f \o e, echoed, b)
  /\ Free(f, {"invalid"}, 36) /\ Ending(e)

LEMMA TailRound ==
  ASSUME NEW v, NEW n, NEW h, PacketVector(v, n, h), h.ok,
         NEW f, NEW e, NEW echoed, NEW packed, LaysOut(v.kind, f \o e, echoed, packed),
         TakenWith(f, e, h, echoed, packed, v.b), Len(echoed) = n - 1
  PROVE  RoundTrip(v, f \o e)
  <1> USE DEF PacketVector
  <1> DEFINE g == f \o e
  <1>1. IsSeq(f) /\ Len(f) <= 36 /\ Accepts(f) /\ IsSeq(e) /\ Len(e) <= 4
    BY DEF TakenWith, Free, Accepts, Ending
  <1>2. Len(f) \in Nat /\ Len(e) \in Nat /\ Len(g) = Len(f) + Len(e)
    BY ONLY <1>1, SeqsJoin
  <1>3. Len(g) \in Nat /\ Len(g) <= MAXFIELDS
    BY <1>1, <1>2 DEF MAXFIELDS
  <1>4. v.kind \in ENCODABLE
    BY KindsOfPackets
  <1>5. Accepts(g) \/ \E rule \in AFTER_PLAINTEXT : Refuses(g, rule)
    BY <1>1, RefusesBehind DEF TakenWith, Ending
  <1>6. GivesHeader(g, h) /\ SaysPayload(g, packed, h) /\ GivesEchoed(g, echoed, v.b)
    BY DEF TakenWith
  <1> HIDE DEF g
  <1>7. Determinism(v.kind, g) = "encode"
    BY <1>4, <1>5, ClassOf
  <1>8. LaysOut(v.kind, g, echoed, packed)
    BY DEF g
  <1>9. RoundTrip(v, g)
    BY <1>3, <1>6, <1>7, <1>8, ReadPacket
  <1>10. QED
    BY <1>9 DEF g

LEMMA LinkDataLaidOut ==
  ASSUME NEW f
  PROVE  LET echoed == <<"link_request", "responder_private">>
         IN  /\ "encrypted" \notin Names(f) => LaysOut("linkdata", f, echoed, <<"encrypted">>)
             /\ Gives(f, "encrypted", Word("no")) => LaysOut("linkdata", f, echoed, <<"plaintext">>)
             /\ Gives(f, "encrypted", Word("yes")) => LaysOut("linkdata", f, echoed, Token3)
  <1> DEFINE echoed == <<"link_request", "responder_private">>
  <1>1. Encoded("linkdata", f) = IF Len(f) > MAXFIELDS THEN Stopped(<< >>) ELSE EncodeLinkData(f)
    BY DEF Encoded
  <1>2. EncodeLinkData(f) = IF Holds(f, "encrypted") THEN EncodeLayout(echoed, Carried(f), f)
                            ELSE EncodeLayout(echoed, <<"encrypted">>, f)
    BY DEF EncodeLinkData
  <1>3. Word("yes") # Word("no")
    BY DEF Word
  <1>4. Gives(f, "encrypted", Word("no")) => Holds(f, "encrypted") /\ Carried(f) = <<"plaintext">>
    BY DEF Gives, Holds, Carried
  <1>5. Gives(f, "encrypted", Word("yes")) => Holds(f, "encrypted") /\ Carried(f) = Token3
    BY <1>3 DEF Gives, Holds, Carried
  <1> HIDE DEF echoed
  <1>6. /\ "encrypted" \notin Names(f) => LaysOut("linkdata", f, echoed, <<"encrypted">>)
        /\ Gives(f, "encrypted", Word("no")) => LaysOut("linkdata", f, echoed, <<"plaintext">>)
        /\ Gives(f, "encrypted", Word("yes")) => LaysOut("linkdata", f, echoed, Token3)
    BY <1>1, <1>2, <1>4, <1>5 DEF LaysOut, Holds
  <1>7. QED
    BY <1>6 DEF echoed

LEMMA LinkDataRound ==
  ASSUME NEW v, WellMade(v), Fits(v), v.kind = "linkdata", NEW sees,
         DumpLinkData(v.b, sees).status = 0, NEW f, f = DumpLinkData(v.b, sees).lines
  PROVE  RoundTrip(v, f)
  <1> DEFINE b == v.b
             rh == Header(b[1])
             h  == Header(b[3])
             id == LinkId(b[1], rh)
             context == IF h.context \in DOMAIN ContextName THEN ContextName[h.context] ELSE "unnamed"
             k == Agreed(Whole(b[2]), Payload(rh, 0, KEYHALF), id, sees)
             t == TokenOpen(h, 0, h.payload_len, k.key, sees)
             echo == <<Field("link_request", Hex(Whole(b[1]))),
                       Field("responder_private", Hex(Whole(b[2])))>>
             header == PrintHeader(h)
             two == <<Field("link_id", Hex(id)),
                      Field("link_id_match", Equal(h.destination_hash, id))>>
             linked == (echo \o header) \o two
             open == <<Field("encrypted", Word("no")),
                       Field("plaintext_length", Decimal(h.payload_len)),
                       Field("plaintext", Hex(Payload(h, 0, h.payload_len)))>>
             yes == <<Field("encrypted", Word("yes"))>>
             rest == IF t.opened THEN AfterPlaintext(context, t, id, sees) ELSE << >>
             fault == ShortPayload(h, TOKEN_OVERHEAD)
             token == PrintToken(t)
             keys == PrintKeys(k)
             plain == PrintPlaintext(t)
             echoed == <<"link_request", "responder_private">>
             bad == {"invalid"}
             new == {"invalid", "encrypted", "plaintext"} \union TokenNames
             s2 == linked \o yes
             s3 == s2 \o token
             s4 == s3 \o keys
             s5 == s4 \o plain
  <1>1. PacketVector(v, 3, h)
    BY KindsOfPackets, SMTT(30) DEF WellMade, Blobs, Fits, PacketVector
  <1>2. f = IF ~h.ok THEN echo \o h.lines
            ELSE IF context \in Unencrypted THEN linked \o open
            ELSE IF h.payload_len < TOKEN_OVERHEAD THEN s2 \o fault
            ELSE s5 \o rest
    <2>1. \A x : Fatal(x).status # 0
      BY DEF Fatal
    <2>2. b[2].len = KEYHALF
      BY DEF WellMade, Lengths
    <2>3. rh.ok
      <3>1. ~rh.ok => DumpLinkData(v.b, sees) = Fatal(echo)
        BY ONLY <2>2 DEF DumpLinkData
      <3>2. QED
        BY ONLY <2>1, <3>1, DumpLinkData(v.b, sees).status = 0
    <2>4. QED
      BY ONLY <2>2, <2>3, f = DumpLinkData(v.b, sees).lines, Zenon DEF DumpLinkData, Exits, Rejected
  <1>3. v.kind \in ENCODABLE /\ Len(echoed) = 3 - 1
    BY KindsOfPackets
  <1>4. /\ Free(echo, new, 2) /\ Free(echo, {"invalid", "flags"}, 2)
        /\ Free(echo, HeaderNames, 2)
        /\ Gives(echo, "link_request", Hex(Whole(b[1])))
        /\ Gives(echo, "responder_private", Hex(Whole(b[2])))
    BY FreeParts, FewGive DEF HeaderNames, TokenNames
  <1>5. Free(header, new, 11) /\ IsSeq(header)
    BY FreeHeader DEF HeaderNames, TokenNames, Free
  <1>6. Free(two, new, 2) /\ IsSeq(two)
    <2> HIDE DEF id, h
    <2>1. Free(two, new, 2)
      BY FreeParts DEF TokenNames
    <2>2. QED
      BY <2>1 DEF Free
  <1>7. Free(yes, TokenNames \union bad, 1) /\ IsSeq(yes) /\ Gives(yes, "encrypted", Word("yes"))
    BY FreeParts, FewGive DEF TokenNames, Free
  <1>8. /\ Free(open, bad, 3) /\ IsSeq(open) /\ Gives(open, "encrypted", Word("no"))
        /\ Gives(open, "plaintext", Hex(Payload(h, 0, h.payload_len)))
    <2> HIDE DEF h
    <2>1. /\ Free(open, bad, 3) /\ Gives(open, "encrypted", Word("no"))
          /\ Gives(open, "plaintext", Hex(Payload(h, 0, h.payload_len)))
      BY FreeParts, FewGive
    <2>2. QED
      BY <2>1 DEF Free
  <1>9. /\ Free(token, bad, 3) /\ Free(keys, bad, 3) /\ Free(plain, bad, 3)
        /\ IsSeq(token) /\ IsSeq(keys) /\ IsSeq(plain)
    <2> HIDE DEF t, k
    <2>1. Free(token, bad, 3) /\ Free(keys, bad, 3) /\ Free(plain, bad, 3)
      BY FreePrinted
    <2>2. QED
      BY <2>1 DEF Free
  <1>10. Ending(rest)
    <2> HIDE DEF t, id, context
    <2>1. Ending(<< >>)
      BY AcceptedParts DEF Ending, Accepts
    <2>2. QED
      BY <2>1, PlaintextTail
  <1>11. h.ok => h.payload_len \in Nat
    BY <1>1, HeaderAt DEF PacketVector
  <1>12. CASE ~h.ok
    <2>1. f = echo \o h.lines
      BY <1>2, <1>12
    <2>2. /\ "encrypted" \notin Names(h.lines) /\ IsSeq(h.lines)
      BY <1>1, <1>12, HeaderFaults DEF PacketVector
    <2>3. "encrypted" \notin Names(echo) /\ IsSeq(echo)
      BY <1>4 DEF Free
    <2> HIDE DEF echo, h
    <2>4. "encrypted" \notin Names(f)
      BY <2>1, <2>2, <2>3, NamesJoin
    <2>5. LaysOut(v.kind, f, echoed, <<"encrypted">>)
      BY <2>4, LinkDataLaidOut
    <2>6. IsSeq(<<"encrypted">>) /\ <<"encrypted">> # << >>
      BY TuplesAreSeqs
    <2> HIDE DEF echoed
    <2>7. QED
      BY ONLY <1>1, <1>4, <1>12, <2>1, <2>5, <2>6, HeaderRound, Zenon
  <1> HIDE DEF h, header, echo, two, open, yes, rest, fault, token, keys, plain, t, k, id, context
  <1>13. Free(linked, new, 15) /\ IsSeq(linked) /\ GivesHeader(linked, h)
         /\ Gives(linked, "link_request", Hex(Whole(b[1])))
         /\ Gives(linked, "responder_private", Hex(Whole(b[2])))
    <2> DEFINE s1 == echo \o header
    <2> HIDE DEF new
    <2>1. Free(s1, new, 13)
      BY <1>4, <1>5, FreeOn
    <2>2. GivesHeader(s1, h)
      BY <1>4, HeaderGivenBehind DEF header
    <2>3. /\ Gives(s1, "link_request", Hex(Whole(b[1])))
          /\ Gives(s1, "responder_private", Hex(Whole(b[2])))
      BY <1>4, <1>5, GivesOn
    <2> HIDE DEF s1
    <2>4. Free(s1 \o two, new, 15) /\ GivesHeader(s1 \o two, h)
      BY <1>6, <2>1, <2>2, FreeOn, HeaderGivenOn
    <2>5. /\ Gives(s1 \o two, "link_request", Hex(Whole(b[1])))
          /\ Gives(s1 \o two, "responder_private", Hex(Whole(b[2])))
      BY <1>6, <2>3, GivesOn
    <2>6. linked = s1 \o two
      BY DEF s1
    <2> HIDE DEF linked
    <2>7. QED
      BY <2>4, <2>5, <2>6 DEF Free
  <1> HIDE DEF linked
  <1>14. CASE h.ok /\ context \in Unencrypted
    <2> DEFINE packed == <<"plaintext">>
    <2>1. f = linked \o open
      BY <1>2, <1>14
    <2>2. Free(linked, {"encrypted", "plaintext"}, 15) /\ Free(linked, bad, 15)
      BY <1>13 DEF Free
    <2> HIDE DEF new
    <2>3. /\ Gives(f, "encrypted", Word("no"))
          /\ Gives(f, "plaintext", Hex(Payload(h, 0, h.payload_len)))
      <3>1. Gives(linked \o open, "encrypted", Word("no"))
        BY <1>8, <2>2, GivesAfter
      <3>2. Gives(linked \o open, "plaintext", Hex(Payload(h, 0, h.payload_len)))
        BY <1>8, <2>2, GivesAfter
      <3>3. QED
        BY ONLY <2>1, <3>1, <3>2
    <2>4. Free(f, bad, 40)
      BY <1>8, <2>1, <2>2, FreeOn
    <2>5. GivesHeader(f, h)
      BY <1>8, <1>13, <2>1, HeaderGivenOn
    <2>6. /\ Gives(f, "link_request", Hex(Whole(b[1])))
          /\ Gives(f, "responder_private", Hex(Whole(b[2])))
      BY <1>8, <1>13, <2>1, GivesOn
    <2>7. GivesEchoed(f, echoed, v.b)
      BY <2>6, EchoesGiven
    <2>8. SaysPayload(f, packed, h)
      BY <1>11, <1>14, <2>3, SaysInOne
    <2>9. LaysOut(v.kind, f, echoed, packed)
      BY <2>3, LinkDataLaidOut
    <2> HIDE DEF packed, echoed
    <2>10. TakenUp(f, h, echoed, packed, v.b)
      BY <2>4, <2>5, <2>7, <2>8 DEF TakenUp
    <2>11. QED
      BY ONLY <1>1, <1>3, <1>14, <2>9, <2>10, AcceptedRound, Zenon
  <1>15. /\ Free(s2, TokenNames, 16) /\ Free(s2, bad, 16) /\ Free(s2, {"invalid", "iv"}, 16)
         /\ IsSeq(s2) /\ GivesHeader(s2, h) /\ Gives(s2, "encrypted", Word("yes"))
         /\ Gives(s2, "link_request", Hex(Whole(b[1])))
         /\ Gives(s2, "responder_private", Hex(Whole(b[2])))
    <2> DEFINE names == TokenNames \union bad
    <2>1. Free(linked, names, 15) /\ Free(linked, {"encrypted"}, 15)
      BY <1>13 DEF Free
    <2> HIDE DEF new, names
    <2>2. Free(yes, names, 1)
      BY <1>7 DEF names
    <2>3. Free(s2, names, 16)
      BY <2>1, <2>2, FreeOn
    <2>4. Gives(s2, "encrypted", Word("yes"))
      BY <1>7, <2>1, GivesAfter
    <2>5. GivesHeader(s2, h)
      BY <1>7, <1>13, HeaderGivenOn
    <2>6. /\ Gives(s2, "link_request", Hex(Whole(b[1])))
          /\ Gives(s2, "responder_private", Hex(Whole(b[2])))
      BY <1>7, <1>13, GivesOn
    <2> HIDE DEF s2
    <2>7. QED
      BY <2>3, <2>4, <2>5, <2>6 DEF Free, names, TokenNames
  <1> HIDE DEF s2
  <1>16. IsSeq(Token3) /\ Token3 # << >> /\ "iv" \in Range(Token3)
    <2>1. IsSeq(Token3) /\ Token3 # << >>
      BY TuplesAreSeqs DEF Token3
    <2>2. Token3[1] = "iv" /\ 1 \in DOMAIN Token3
      BY DEF Token3
    <2>3. QED
      BY <2>1, <2>2 DEF Range
  <1>17. CASE h.ok /\ context \notin Unencrypted /\ h.payload_len < TOKEN_OVERHEAD
    <2> DEFINE name == "iv"
    <2>1. f = s2 \o fault
      BY <1>2, <1>17
    <2>2. IsSeq(fault) /\ name \notin Names(fault) /\ Refuses(fault, "short-payload")
      BY PayloadFaults, FaultsRefuse DEF fault
    <2>3. Gives(f, "encrypted", Word("yes"))
      BY <1>15, <2>1, <2>2, GivesOn
    <2>4. LaysOut(v.kind, f, echoed, Token3)
      BY <2>3, LinkDataLaidOut
    <2>5. LaysOut(v.kind, s2 \o fault, echoed, Token3)
      BY <2>1, <2>4
    <2>6. "short-payload" \notin AFTER_PLAINTEXT
      BY DEF AFTER_PLAINTEXT
    <2>7. Free(s2, {"invalid", name}, 16) /\ name \in Range(HeaderFields) \union Range(Token3)
      BY <1>15, <1>16
    <2> HIDE DEF echoed, name
    <2>8. RoundTrip(v, s2 \o fault)
      BY ONLY <1>3, <1>16, <2>2, <2>5, <2>6, <2>7, FaultUnread
    <2>9. QED
      BY <2>1, <2>8
  <1>18. CASE h.ok /\ context \notin Unencrypted /\ ~(h.payload_len < TOKEN_OVERHEAD)
    <2>1. f = s5 \o rest
      BY <1>2, <1>18
    <2>2. IsSeq(rest)
      BY <1>10 DEF Ending
    <2>3. TokenIn(s3, t)
      BY <1>15, TokenSays DEF token
    <2>4. Free(s5, bad, 36)
      <3>1. Free(s3, bad, 19)
        BY <1>9, <1>15, FreeOn
      <3> HIDE DEF s3
      <3>2. Free(s4, bad, 22)
        BY <1>9, <3>1, FreeOn
      <3> HIDE DEF s4
      <3>3. QED
        BY <1>9, <3>2, FreeOn
    <2> DEFINE g == s5 \o rest
    <2>5. GivesHeader(g, h)
      BY <1>9, <1>15, <2>2, HeaderGivenOn
    <2>6. TokenIn(g, t)
      BY <1>9, <2>2, <2>3, TokenStays
    <2>7. /\ Gives(g, "encrypted", Word("yes"))
          /\ Gives(g, "link_request", Hex(Whole(b[1])))
          /\ Gives(g, "responder_private", Hex(Whole(b[2])))
      BY <1>9, <1>15, <2>2, GivesOn
    <2> HIDE DEF g, s3, s4, s5
    <2>8. SaysPayload(g, Token3, h)
      <3>1. h.payload_len \in Nat /\ TOKEN_OVERHEAD <= h.payload_len
        BY <1>11, <1>18 DEF TOKEN_OVERHEAD, IVLEN, MACLEN
      <3>2. QED
        BY <2>6, <3>1, TokenFills DEF t
    <2>9. GivesEchoed(g, echoed, v.b)
      BY <2>7, EchoesGiven
    <2>10. LaysOut(v.kind, g, echoed, Token3)
      BY <2>7, LinkDataLaidOut
    <2> HIDE DEF echoed
    <2>11. TakenWith(s5, rest, h, echoed, Token3, v.b) /\ LaysOut(v.kind, s5 \o rest, echoed, Token3)
      BY <1>10, <2>4, <2>5, <2>8, <2>9, <2>10 DEF TakenWith, g
    <2>12. RoundTrip(v, s5 \o rest)
      BY ONLY <1>1, <1>3, <1>18, <2>11, TailRound, Zenon
    <2>13. QED
      BY <2>1, <2>12
  <1>19. QED
    BY <1>12, <1>14, <1>17, <1>18

(* a kind without a packet is its lines and nothing else *)
LEMMA EchoedRound ==
  ASSUME NEW v, v.kind \in ENCODABLE, v.kind \notin PacketKinds,
         NEW f, Accepts(f), Len(f) <= MAXFIELDS,
         NEW echoed, LaysOut(v.kind, f, echoed, << >>),
         Len(echoed) = Len(v.b), GivesEchoed(f, echoed, v.b)
  PROVE  RoundTrip(v, f)
  <1> DEFINE n == Len(v.b)
             lines == [i \in 1..Len(echoed) |-> Put(f, echoed[i])]
             missing == SelectInSeq(echoed, LAMBDA name : ~Holds(f, name))
  <1>1. missing = 0
    <2>1. \A i \in 1..Len(echoed) : Holds(f, echoed[i])
      BY DEF GivesEchoed, Gives, Holds
    <2> DEFINE I == {i \in 1..Len(echoed) : ~Holds(f, echoed[i])}
    <2>2. I = {}
      BY <2>1
    <2>3. missing = IF I # {} THEN Min(I) ELSE 0
      BY DEF SelectInSeq
    <2> HIDE DEF I, missing
    <2>4. QED
      BY <2>2, <2>3
  <1>2. Len(f) \in Nat
    BY SeqsJoin DEF Accepts
  <1>3. EncodeLayout(echoed, << >>, f) =
          IF missing # 0 THEN Stopped([i \in 1..(missing - 1) |-> Put(f, echoed[i])])
          ELSE Printed(lines)
    BY DEF EncodeLayout
  <1>4. Encoded(v.kind, f) = Printed(lines)
    <2> HIDE DEF lines, missing
    <2>1. ~(Len(f) > MAXFIELDS)
      BY <1>2 DEF MAXFIELDS
    <2>2. QED
      BY <1>1, <1>3, <2>1 DEF LaysOut
  <1>5. lines = [i \in 1..n |-> Whole(v.b[i])]
    <2>1. \A x : Hex(x)[2] = x
      BY DEF Hex
    <2>2. \A i \in 1..n : Put(f, echoed[i]) = Whole(v.b[i])
      BY <2>1 DEF GivesEchoed, Gives, Put
    <2>3. QED
      BY <2>2
  <1>6. Raw(v) = [i \in 1..n |-> Whole(v.b[i])]
    BY DEF Raw
  <1>7. Encoded(v.kind, f).status = 0 /\ Encoded(v.kind, f).lines = Raw(v)
    <2> HIDE DEF lines
    <2>1. QED
      BY <1>4, <1>5, <1>6 DEF Printed
  <1>8. Determinism(v.kind, f) = "encode"
    BY ClassOf
  <1>9. QED
    BY <1>7, <1>8 DEF RoundTrip

LEMMA KindsOfLines ==
  /\ {"identity", "keyset", "destination"} \subseteq ENCODABLE
  /\ {"identity", "keyset", "destination", "signature", "sign"} \intersect PacketKinds = {}
  /\ {"signature", "sign"} \intersect ENCODABLE = {}
  /\ {"signature", "sign"} \intersect (DOMAIN Layout \union {"linkdata"}) = {}
  <1>1. DOMAIN Layout = {"identity", "keyset", "destination", "announce", "plain", "pathrequest",
             "encrypted", "group", "linkrequest", "linkproof", "proof", "resourceproof"}
    BY DEF Layout
  <1>2. QED
    BY <1>1, KindsOfPackets DEF ENCODABLE

LEMMA IdentityRound ==
  ASSUME NEW v, WellMade(v), v.kind = "identity", NEW f, f = DumpIdentity(v.b).lines
  PROVE  RoundTrip(v, f)
  <1> DEFINE b == v.b
             four == <<Field("public_key", Hex(Whole(b[1]))),
                       Field("x25519_public", Hex(At(b[1], 0, KEYHALF))),
                       Field("ed25519_public", Hex(At(b[1], KEYHALF, KEYHALF))),
                       Field("identity_hash", Hex(Sha256(Whole(b[1]), ADDRLEN)))>>
             echoed == <<"public_key">>
  <1>1. b[1].len = KEYSIZE /\ Len(b) = 1
    BY DEF WellMade, Lengths, Blobs
  <1>2. f = four
    BY ONLY <1>1, f = DumpIdentity(v.b).lines DEF DumpIdentity, Exits
  <1>3. Free(four, {"invalid"}, 4)
    BY FreeParts
  <1>4. Len(four) = 4 /\ four[1].name = "public_key" /\ four[1].value = Hex(Whole(b[1]))
    BY DEF Field
  <1> HIDE DEF four
  <1>5. Accepts(f) /\ Len(f) <= MAXFIELDS /\ IsSeq(four)
    BY <1>2, <1>3, <1>4 DEF Free, Accepts, MAXFIELDS
  <1>6. Gives(f, "public_key", Hex(Whole(b[1])))
    <2>1. 1 \in 1..Len(four) /\ \A i \in 1..(1 - 1) : FALSE
      BY <1>4
    <2>2. QED
      BY <1>2, <1>4, <1>5, <2>1, GivesAt
  <1>7. GivesEchoed(f, echoed, v.b) /\ Len(echoed) = Len(v.b)
    BY <1>1, <1>6, EchoesGiven
  <1>8. LaysOut(v.kind, f, echoed, << >>)
    BY KindsLaidOut
  <1> HIDE DEF echoed
  <1>9. v.kind \in ENCODABLE /\ v.kind \notin PacketKinds
    BY KindsOfLines
  <1>10. QED
    BY <1>5, <1>7, <1>8, <1>9, EchoedRound

LEMMA KeysetRound ==
  ASSUME NEW v, WellMade(v), v.kind = "keyset", NEW f, f = DumpKeyset(v.b).lines
  PROVE  RoundTrip(v, f)
  <1> DEFINE b == v.b
             pub == PublicPair(b[1])
             seven == <<Field("private_key", Hex(Whole(b[1]))),
                        Field("x25519_private", Hex(At(b[1], 0, KEYHALF))),
                        Field("ed25519_private", Hex(At(b[1], KEYHALF, KEYHALF))),
                        Field("public_key", Hex(Cat(pub))),
                        Field("x25519_public", Hex(pub[1])),
                        Field("ed25519_public", Hex(pub[2])),
                        Field("identity_hash", Hex(Sha256(Cat(pub), ADDRLEN)))>>
             echoed == <<"private_key">>
  <1>1. b[1].len = KEYSIZE /\ Len(b) = 1
    BY DEF WellMade, Lengths, Blobs
  <1>2. f = seven
    BY ONLY <1>1, f = DumpKeyset(v.b).lines DEF DumpKeyset, Exits
  <1>3. Len(seven) = 7 /\ seven = [i \in 1..7 |-> seven[i]]
    OBVIOUS
  <1>4. seven[1].value = Hex(Whole(b[1])) /\ seven[1].name = "private_key"
    BY DEF Field
  <1>5. /\ seven[2].name = "x25519_private" /\ seven[3].name = "ed25519_private"
        /\ seven[4].name = "public_key" /\ seven[5].name = "x25519_public"
        /\ seven[6].name = "ed25519_public" /\ seven[7].name = "identity_hash"
    BY DEF Field
  <1> HIDE DEF seven
  <1>6. IsSeq(seven) /\ Names(seven) = {seven[i].name : i \in 1..7}
    BY <1>3, FieldsOf
  <1>7. "invalid" \notin Names(seven)
    <2>1. \A i \in 1..7 : i \in {1, 2, 3, 4, 5, 6, 7}
      OBVIOUS
    <2>2. \A i \in 1..7 : seven[i].name # "invalid"
      BY <1>4, <1>5, <2>1
    <2>3. QED
      BY <1>6, <2>2
  <1>8. Accepts(f) /\ Len(f) <= MAXFIELDS
    BY <1>2, <1>3, <1>6, <1>7 DEF Accepts, MAXFIELDS
  <1>9. Gives(f, "private_key", Hex(Whole(b[1])))
    <2>1. 1 \in 1..Len(seven) /\ \A i \in 1..(1 - 1) : FALSE
      BY <1>3
    <2>2. QED
      BY <1>2, <1>4, <1>6, <2>1, GivesAt
  <1>10. GivesEchoed(f, echoed, v.b) /\ Len(echoed) = Len(v.b)
    BY <1>1, <1>9, EchoesGiven
  <1>11. LaysOut(v.kind, f, echoed, << >>)
    BY KindsLaidOut
  <1> HIDE DEF echoed
  <1>12. v.kind \in ENCODABLE /\ v.kind \notin PacketKinds
    BY KindsOfLines
  <1>13. QED
    BY <1>8, <1>10, <1>11, <1>12, EchoedRound

LEMMA DestinationRound ==
  ASSUME NEW v, WellMade(v), Fits(v), v.kind = "destination", NEW f, f = DumpDestination(v.b).lines
  PROVE  RoundTrip(v, f)
  <1> DEFINE b == v.b
             n == Len(v.names)
             name_hash == Sha256(Whole(b[1]), NAMEHASHLEN)
             dest_hash == Sha256(Cat(<<name_hash, Whole(b[2])>>), ADDRLEN)
             one == <<Field("name", Hex(Whole(b[1])))>>
             parts == Components(b[1])
             three == <<Field("name_hash", Hex(name_hash)), Field("identity_hash", Hex(Whole(b[2]))),
                        Field("destination_hash", Hex(dest_hash))>>
             echoed == <<"name", "identity_hash">>
             bad == {"invalid"}
             new == {"invalid", "identity_hash"}
             s1 == one \o parts
  <1>1. /\ Len(b) = 2 /\ IsLine(b[1]) /\ IsLine(b[2]) /\ b[2].len \in {0, ADDRLEN}
        /\ Joined(b[1], v.names)
    BY DEF WellMade, Lengths, Blobs
  <1>2. f = s1 \o three
    <2>1. ~(~b[2].absent /\ b[2].len # ADDRLEN)
      BY <1>1 DEF IsLine
    <2>2. QED
      BY ONLY <2>1, f = DumpDestination(v.b).lines DEF DumpDestination, Exits
  <1>3. n \in Nat /\ n + 4 <= MAXFIELDS
    BY <1>1, JoinedParts DEF Fits
  <1>4. Free(parts, new, n)
    <2>1. parts = [i \in 1..n |-> Field(IF i = 1 THEN "app_name" ELSE "aspect",
                                        Hex(Py(b[1], v.names[i][1], v.names[i][2])))]
      BY <1>1, ComponentsAgree
    <2> HIDE DEF parts
    <2>2. \A i \in 1..n : parts[i].name \in {"app_name", "aspect"}
      BY <2>1 DEF Field
    <2>3. parts = [i \in 1..n |-> parts[i]]
      BY <2>1
    <2>4. Len(parts) = n
      BY <1>3, <2>3
    <2> HIDE DEF n
    <2>5. IsSeq(parts) /\ Names(parts) = {parts[i].name : i \in 1..n}
      BY ONLY <1>3, <2>3, <2>4, FieldsOf
    <2>6. Names(parts) \intersect new = {}
      BY <2>2, <2>5
    <2>7. Len(parts) <= n
      BY <1>3, <2>4
    <2>8. QED
      BY <2>5, <2>6, <2>7 DEF Free
  <1>5. /\ Free(one, new, 1) /\ Gives(one, "name", Hex(Whole(b[1])))
        /\ Free(three, bad, 3) /\ Gives(three, "identity_hash", Hex(Whole(b[2])))
    <2> HIDE DEF name_hash, dest_hash
    <2>1. QED
      BY FreeParts, FewGive
  <1>6. IsSeq(parts) /\ IsSeq(three)
    BY <1>4, <1>5 DEF Free
  <1> HIDE DEF one, parts, three, n
  <1>7. Gives(s1, "name", Hex(Whole(b[1])))
    BY <1>5, <1>6, GivesOn
  <1>8. Free(s1, new, 1 + n)
    <2> DEFINE m == 1 + n
    <2>1. m \in Nat /\ 1 + n <= m
      BY <1>3
    <2> HIDE DEF new, s1, m
    <2>2. Free(one \o parts, new, m)
      BY <1>3, <1>4, <1>5, <2>1, FreeOn
    <2>3. QED
      BY <2>2 DEF m, s1
  <1> HIDE DEF s1
  <1>9. Gives(f, "name", Hex(Whole(b[1])))
    BY <1>2, <1>6, <1>7, GivesOn
  <1>10. Gives(f, "identity_hash", Hex(Whole(b[2])))
    <2>1. Gives(s1 \o three, "identity_hash", Hex(Whole(b[2])))
      BY <1>5, <1>8, GivesAfter
    <2>2. QED
      BY <1>2, <2>1
  <1>11. Accepts(f) /\ Len(f) <= MAXFIELDS
    <2> DEFINE m == 1 + n
    <2>1. Free(s1, bad, m)
      BY <1>8 DEF Free
    <2>2. m \in Nat /\ m + 3 <= MAXFIELDS /\ MAXFIELDS \in Nat
      BY <1>3 DEF MAXFIELDS
    <2> HIDE DEF m, bad
    <2>3. Free(s1 \o three, bad, MAXFIELDS)
      BY <1>5, <2>1, <2>2, FreeOn
    <2>4. QED
      BY <1>2, <2>3 DEF Free, Accepts, bad
  <1>12. GivesEchoed(f, echoed, v.b) /\ Len(echoed) = Len(v.b)
    BY <1>1, <1>9, <1>10, EchoesGiven
  <1>13. LaysOut(v.kind, f, echoed, << >>)
    BY KindsLaidOut
  <1> HIDE DEF echoed
  <1>14. v.kind \in ENCODABLE /\ v.kind \notin PacketKinds
    BY KindsOfLines
  <1>15. QED
    BY <1>11, <1>12, <1>13, <1>14, EchoedRound

(* and a kind that is not rebuilt is not said to be *)
LEMMA UnencodedRound ==
  ASSUME NEW v, v.kind \in {"signature", "sign"}, NEW f
  PROVE  RoundTrip(v, f)
  <1>1. Encoded(v.kind, f).status = 1
    BY KindsOfLines DEF Encoded, Stopped
  <1>2. Determinism(v.kind, f) = "decode"
    BY KindsOfLines DEF Determinism
  <1>3. QED
    BY <1>1, <1>2 DEF RoundTrip

-----------------------------------------------------------------------------
(* All of the kinds: what dump prints of a vector rebuilds its raw file if  *)
(* and only if the class says so.                                           *)
LEMMA DumpedRound ==
  ASSUME NEW v, WellMade(v), Fits(v), Dumped(v).status = 0, NEW f, f = Dumped(v).lines
  PROVE  RoundTrip(v, f)
  <1>1. v.kind \in Kinds /\ Len(v.b) = Blobs(v.kind)
    BY DEF WellMade
  <1>2. CASE v.kind = "identity"
    <2>1. Dumped(v) = DumpIdentity(v.b)
      BY <1>1, <1>2 DEF Dumped
    <2>2. QED
      BY <1>2, <2>1, IdentityRound
  <1>3. CASE v.kind = "keyset"
    <2>1. Dumped(v) = DumpKeyset(v.b)
      BY <1>1, <1>3 DEF Dumped
    <2>2. QED
      BY <1>3, <2>1, KeysetRound
  <1>4. CASE v.kind = "destination"
    <2>1. Dumped(v) = DumpDestination(v.b)
      BY <1>1, <1>4 DEF Dumped
    <2>2. QED
      BY <1>4, <2>1, DestinationRound
  <1>5. CASE v.kind \in {"signature", "sign"}
    BY <1>5, UnencodedRound
  <1>6. CASE v.kind = "announce"
    <2>1. Dumped(v) = DumpAnnounce(v.b)
      BY <1>1, <1>6 DEF Dumped
    <2>2. QED
      BY <1>6, <2>1, AnnounceRound
  <1>7. CASE v.kind = "plain"
    <2>1. Dumped(v) = DumpPlain(v.b)
      BY <1>1, <1>7 DEF Dumped
    <2>2. QED
      BY <1>7, <2>1, PlainRound
  <1>8. CASE v.kind = "pathrequest"
    <2>1. Dumped(v) = DumpPathRequest(v.b)
      BY <1>1, <1>8 DEF Dumped
    <2>2. QED
      BY <1>8, <2>1, PathRequestRound
  <1>9. CASE v.kind = "encrypted"
    <2>1. Dumped(v) = DumpEncrypted(v.b, v.sees)
      BY <1>1, <1>9 DEF Dumped
    <2>2. QED
      BY <1>9, <2>1, EncryptedRound
  <1>10. CASE v.kind = "group"
    <2>1. Dumped(v) = DumpGroup(v.b, v.sees)
      BY <1>1, <1>10 DEF Dumped
    <2>2. QED
      BY <1>10, <2>1, GroupRound
  <1>11. CASE v.kind = "linkrequest"
    <2>1. Dumped(v) = DumpLinkRequest(v.b)
      BY <1>1, <1>11 DEF Dumped
    <2>2. QED
      BY <1>11, <2>1, LinkRequestRound
  <1>12. CASE v.kind = "linkproof"
    <2>1. Dumped(v) = DumpLinkProof(v.b)
      BY <1>1, <1>12 DEF Dumped
    <2>2. QED
      BY <1>12, <2>1, LinkProofRound
  <1>13. CASE v.kind = "linkdata"
    <2>1. Dumped(v) = DumpLinkData(v.b, v.sees)
      BY <1>1, <1>13 DEF Dumped
    <2>2. QED
      BY <1>13, <2>1, LinkDataRound
  <1>14. CASE v.kind = "proof"
    <2>1. Dumped(v) = DumpProof(v.b)
      BY <1>1, <1>14 DEF Dumped
    <2>2. QED
      BY <1>14, <2>1, ProofRound
  <1>15. CASE v.kind = "resourceproof"
    <2>1. Dumped(v) = DumpResourceProof(v.b)
      BY <1>1, <1>15 DEF Dumped
    <2>2. QED
      BY <1>15, <2>1, ResourceProofRound
  <1>16. QED
    BY <1>1, <1>2, <1>3, <1>4, <1>5, <1>6, <1>7, <1>8, <1>9, <1>10, <1>11, <1>12, <1>13,
       <1>14, <1>15 DEF Kinds

(* The class and what was rebuilt are both of the file, and the file is not *)
(* written again: ClassIsTheRoundTrip alone is not inductive, for it says   *)
(* nothing before raw is rebuilt.                                           *)
RoundTripped ==
  /\ OneVector
  /\ stage \in {"filed", "decoded", "rebuilt", "answered"} =>
       class = Determinism(vector.kind, expect)
  /\ stage = "rebuilt" => back = Encoded(vector.kind, expect)

LEMMA RoundTrippedAlways == HarnessSpec => []RoundTripped
  <1>1. HarnessInit => RoundTripped
    BY OneVectorInit DEF HarnessInit, Init, RoundTripped
  <1>2. RoundTripped /\ [HarnessNext]_harness_vars => RoundTripped'
    <2> SUFFICES ASSUME RoundTripped, [HarnessNext]_harness_vars PROVE RoundTripped'
      OBVIOUS
    <2>1. OneVector'
      BY OneVectorAnswered DEF RoundTripped
    <2>2. CASE Generate
      <3>1. vector' = vector
        BY <2>2 DEF Generate
      <3>2. CASE stage' = "raised"
        BY <2>1, <3>2 DEF RoundTripped
      <3>3. CASE stage' # "raised"
        <4>1. stage' = "filed" /\ class' = Determinism(vector.kind, expect')
          BY <2>2, <3>3 DEF Generate
        <4>2. QED
          BY <2>1, <3>1, <4>1 DEF RoundTripped
      <3>4. QED
        BY <3>2, <3>3
    <2>3. CASE Decode
      BY <2>1, <2>3 DEF Decode, RoundTripped
    <2>4. CASE Rebuild
      BY <2>1, <2>4 DEF Rebuild, RoundTripped
    <2>5. CASE Answer
      BY <2>1, <2>5 DEF Answer, RoundTripped
    <2>6. CASE UNCHANGED vars
      BY <2>1, <2>6 DEF vars, RoundTripped
    <2>7. CASE UNCHANGED harness_vars
      BY <2>1, <2>7 DEF harness_vars, vars, RoundTripped
    <2>8. QED
      BY <2>2, <2>3, <2>4, <2>5, <2>6, <2>7 DEF HarnessNext, Next
  <1>3. QED
    BY <1>1, <1>2, PTL DEF HarnessSpec

(* A vector is filed as one that can be rebuilt exactly when its expect     *)
(* file gives raw back, byte for byte: a packet cut short or refused before *)
(* its last byte was printed never does, and one that is refused behind its *)
(* plaintext always does.  It holds of the vectors that fit the arrays of   *)
(* dump.c; the class does not ask for that.                                 *)
THEOREM ClassTellsTheRoundTrip ==
  ASSUME \A v \in Vectors : Fits(v)
  PROVE  HarnessSpec => []ClassIsTheRoundTrip
  <1>1. RoundTripped => ClassIsTheRoundTrip
    <2> SUFFICES ASSUME RoundTripped, stage = "rebuilt"
                 PROVE  Reproduced <=> class = "encode"
      BY DEF ClassIsTheRoundTrip
    <2>1. /\ vector \in Vectors /\ expect = Described(vector) /\ expect # Raises
          /\ class = Determinism(vector.kind, expect) /\ back = Encoded(vector.kind, expect)
      BY DEF RoundTripped, OneVector
    <2>2. WellMade(vector) /\ Fits(vector)
      BY <2>1, VectorsAssumption
    <2>3. Dumped(vector) = Exits(expect)
      BY <2>1, <2>2, DumpedAgrees
    <2>4. Dumped(vector).status = 0 /\ expect = Dumped(vector).lines
      BY <2>3 DEF Exits
    <2>5. RoundTrip(vector, expect)
      BY <2>2, <2>4, DumpedRound
    <2>6. QED
      BY <2>1, <2>5 DEF RoundTrip, Reproduced
  <1>2. QED
    BY <1>1, RoundTrippedAlways, PTL
=============================================================================
