-------------------------- MODULE EchoSystem_proofs --------------------------
(***************************************************************************)
(* Proofs about EchoSystem, for every input, every size of the line and    *)
(* echo buffers and every capacity of the connection.                      *)
(***************************************************************************)
EXTENDS EchoSystem, SequenceTheorems, WellFoundedInduction, TLAPS

\* What each program counter says about the buffers, and about the two FINs.
ControlInv ==
    /\ wpc = "write" <=> sendline # <<>>
    /\ spc = "send" <=> buf # <<>>
    /\ c2sFin <=> wpc = "returned"
    /\ wpc = "returned" => stdin = <<>>
    /\ s2cFin <=> spc \in {"ended", "failed"}
    /\ spc = "ended" => c2s = <<>> /\ c2sFin
    /\ rpc = "read" => Len(recvline) < MAXLINE - 1
    /\ rpc = "exit" => recvline = <<>> /\ s2c = <<>> /\ s2cFin

\* Concatenation under a name of its own, which the proofs expand only where
\* they look at single bytes.
Text      == Seq(Chars)
Cat(x, y) == x \o y

\* StreamConserved in these terms.
Shown == Cat(Cat(out, recvline), s2c)
Flow  ==
    /\ IsPrefix(Shown, typed)
    /\ spc # "failed" => typed = Cat(Cat(Cat(Cat(Shown, buf), c2s), sendline), stdin)

IInv == TypeOK /\ ControlInv /\ Flow
-----------------------------------------------------------------------------
(***************************************************************************)
(* Sequences.                                                              *)
(***************************************************************************)
\* A nonempty set of naturals has a least element.
LEMMA LeastNat ==
    ASSUME NEW T, T \subseteq Nat, T # {}
    PROVE  \E n \in T : \A m \in T : n <= m
  <1>1. PICK n \in T : \A m \in T : ~(<<m, n>> \in OpToRel(<, Nat))
    BY NatLessThanWellFounded, WFMin, Zenon
  <1>2. \A m \in T : ~(m < n)
    BY <1>1, Zenon DEF OpToRel
  <1> QED BY <1>2

\* fgets always finds where its line ends, within the line buffer.
LEMMA LineLenType ==
    ASSUME NEW s \in Text, s # <<>>
    PROVE  LineLen(s) \in 1 .. Len(s) /\ LineLen(s) < MAXLINE
  <1> DEFINE Stop == {n \in 1 .. Len(s) : s[n] = NL \/ n = MAXLINE - 1 \/ n = Len(s)}
  <1>1. Len(s) \in Nat /\ Len(s) # 0
    BY DEF Text
  <1>2. Len(s) \in Stop /\ Stop \subseteq Nat
    BY <1>1
  <1>3. PICK n \in Stop : \A m \in Stop : n <= m
    BY <1>2, LeastNat, Zenon
  <1>4. n \in 1 .. Len(s) /\ (s[n] = NL \/ n = MAXLINE - 1 \/ n = Len(s))
    OBVIOUS
  <1>5. n < MAXLINE
    <2>1. ASSUME n >= MAXLINE PROVE FALSE
      <3>1. MAXLINE - 1 \in 1 .. Len(s) /\ MAXLINE - 1 < n
        BY <1>4, <2>1, EchoAssumption
      <3> QED BY <1>3, <1>4, <3>1, EchoAssumption
    <2> QED BY <1>4, <2>1, EchoAssumption
  <1>6. \A k \in 1 .. n - 1 : s[k] # NL
    BY <1>1, <1>3, <1>4
  <1> HIDE DEF Stop
  <1> QED BY <1>4, <1>5, <1>6 DEF LineLen

LEMMA EmptyLen == \A s \in Text : Len(s) \in Nat /\ (s = <<>> <=> Len(s) = 0)
  BY DEF Text

LEMMA CatType == \A x, y \in Text : Cat(x, y) \in Text
  BY DEF Cat, Text

LEMMA CatEmpty == <<>> \in Text /\ \A x \in Text : Cat(x, <<>>) = x
  BY ConcatEmptySeq DEF Cat, Text

LEMMA CatAssoc == \A x, y, z \in Text : Cat(Cat(x, y), z) = Cat(x, Cat(y, z))
  BY ConcatAssociative DEF Cat, Text

\* A byte, or a run of bytes, passes from the front of b to the end of a.
Moved(a, b, p, q)  == b # <<>> /\ p = Append(a, Head(b)) /\ q = Tail(b)
CutAt(b, n, p, q)  == n \in 1 .. Len(b) /\ p = SubSeq(b, 1, n) /\ q = SubSeq(b, n + 1, Len(b))

LEMMA MoveHead ==
    ASSUME NEW y \in Text, NEW a \in Text, NEW b \in Text, NEW p, NEW q, Moved(a, b, p, q)
    PROVE  /\ Cat(Cat(y, p), q) = Cat(Cat(y, a), b)
           /\ p \in Text /\ q \in Text
           /\ Len(p) = Len(a) + 1 /\ Len(q) = Len(b) - 1
  <1>1. p \in Text /\ q \in Text /\ Len(p) = Len(a) + 1 /\ Len(q) = Len(b) - 1
    BY DEF Text, Moved
  <1>2. Cat(p, q) = Cat(a, b)
    <2>1. Append(a, Head(b)) \o Tail(b) = a \o b
      <3>1. Len(Append(a, Head(b))) = Len(a) + 1 /\ Len(Tail(b)) = Len(b) - 1
        BY DEF Text, Moved
      <3> QED BY DEF Text, Moved
    <2> QED BY <2>1 DEF Cat, Moved
  <1>3. Cat(Cat(y, p), q) = Cat(Cat(y, a), b)
    <2>1. p \in Text /\ q \in Text
      BY <1>1
    <2>2. Cat(Cat(y, p), q) = Cat(y, Cat(p, q)) /\ Cat(Cat(y, a), b) = Cat(y, Cat(a, b))
      BY <2>1, CatAssoc
    <2> QED BY <1>2, <2>2, Zenon
  <1> QED BY <1>1, <1>3

LEMMA Cut ==
    ASSUME NEW y \in Text, NEW b \in Text, NEW n, NEW p, NEW q, CutAt(b, n, p, q)
    PROVE  /\ Cat(Cat(y, p), q) = Cat(Cat(y, <<>>), b)
           /\ p \in Text /\ q \in Text
           /\ Len(p) = n /\ Len(q) = Len(b) - n
  <1>1. p \in Text /\ q \in Text /\ Len(p) = n /\ Len(q) = Len(b) - n
    BY DEF Text, CutAt
  <1>2. Cat(p, q) = b
    <2>1. p \o q = SubSeq(b, 1, Len(b))
      BY ConcatAdjacentSubSeq DEF Text, CutAt
    <2> QED BY <2>1, SubSeqFull DEF Cat, Text
  <1>3. Cat(Cat(y, p), q) = Cat(y, Cat(p, q)) 
    <2>1. p \in Text /\ q \in Text
      BY <1>1
    <2> QED BY <2>1, CatAssoc
  <1> QED BY <1>1, <1>2, <1>3, CatEmpty

\* Prefixes by their elements.
LEMMA PrefixElements ==
    ASSUME NEW s \in Text, NEW t \in Text
    PROVE  IsPrefix(s, t) <=> Len(s) <= Len(t) /\ \A i \in 1 .. Len(s) : s[i] = t[i]
  BY DEF IsPrefix, Text

LEMMA PrefixCat == ASSUME NEW s \in Text, NEW u \in Text PROVE IsPrefix(s, Cat(s, u))
  <1>1. /\ Cat(s, u) \in Text /\ Len(s) <= Len(Cat(s, u))
        /\ \A i \in 1 .. Len(s) : s[i] = Cat(s, u)[i]
    BY DEF Cat, Text
  <1> QED BY <1>1, PrefixElements

LEMMA PrefixShorter ==
    ASSUME NEW s \in Text, NEW u \in Text, NEW t \in Text, IsPrefix(Cat(s, u), t)
    PROVE  IsPrefix(s, t)
  <1>1. /\ Cat(s, u) \in Text /\ Len(s) <= Len(Cat(s, u))
        /\ \A i \in 1 .. Len(s) : s[i] = Cat(s, u)[i] /\ i \in 1 .. Len(Cat(s, u))
    BY DEF Cat, Text
  <1>2. Len(Cat(s, u)) <= Len(t) /\ \A i \in 1 .. Len(Cat(s, u)) : Cat(s, u)[i] = t[i]
    BY <1>1, PrefixElements
  <1>3. Len(s) \in Nat /\ Len(t) \in Nat /\ Len(Cat(s, u)) \in Nat
    BY <1>1, EmptyLen
  <1> QED BY <1>1, <1>2, <1>3, PrefixElements
-----------------------------------------------------------------------------
\* The types as the steps below use them.
LEMMA Types ==
    TypeOK => /\ typed \in Text /\ stdin \in Text /\ sendline \in Text /\ c2s \in Text
              /\ buf \in Text /\ s2c \in Text /\ recvline \in Text /\ out \in Text
              /\ Shown \in Text /\ Cat(out, recvline) \in Text
              /\ Cat(Shown, buf) \in Text /\ Cat(Cat(Shown, buf), c2s) \in Text
  <1> SUFFICES ASSUME TypeOK
               PROVE  /\ typed \in Text /\ stdin \in Text /\ sendline \in Text /\ c2s \in Text
                      /\ buf \in Text /\ s2c \in Text /\ recvline \in Text /\ out \in Text
                      /\ Shown \in Text /\ Cat(out, recvline) \in Text
                      /\ Cat(Shown, buf) \in Text /\ Cat(Cat(Shown, buf), c2s) \in Text
    OBVIOUS
  <1>1. /\ typed \in Text /\ stdin \in Text /\ sendline \in Text /\ c2s \in Text
        /\ buf \in Text /\ s2c \in Text /\ recvline \in Text /\ out \in Text
    BY EchoAssumption DEF TypeOK, Text
  <1>2. Cat(out, recvline) \in Text
    BY <1>1, CatType
  <1>3. Shown \in Text
    BY <1>1, <1>2, CatType DEF Shown
  <1>4. Cat(Shown, buf) \in Text
    BY <1>1, <1>3, CatType
  <1> QED BY <1>1, <1>2, <1>3, <1>4, CatType

LEMMA InitInv == Init => IInv
  <1> SUFFICES ASSUME Init PROVE IInv
    OBVIOUS
  <1>1. typed \in Text /\ stdin = typed
    BY EchoAssumption DEF Init, Text
  <1>2. TypeOK
    <2>1. /\ <<>> \in Seq(Chars)
          /\ Len(<<>>) < MAXLINE /\ Len(<<>>) <= BUFSIZE /\ Len(<<>>) <= CAP
      BY EchoAssumption
    <2> QED BY <1>1, <2>1, Zenon DEF Init, TypeOK, Text
  <1>3. ControlInv
    BY EchoAssumption DEF Init, ControlInv
  <1>4. Cat(<<>>, typed) = typed
    BY <1>1, ConcatEmptySeq DEF Cat, Text
  <1>5. Shown = <<>>
    BY CatEmpty DEF Init, Shown
  <1>6. IsPrefix(<<>>, typed)
    BY <1>1, <1>4, CatEmpty, PrefixCat
  <1> QED BY <1>1, <1>2, <1>3, <1>4, <1>5, <1>6, CatEmpty DEF Init, IInv, Flow

\* fgets moves one line from stdin into the empty sendline.
LEMMA GetsStep == ASSUME IInv, CopytoGets PROVE IInv'
  <1>1. /\ sendline' = SubSeq(stdin, 1, LineLen(stdin))
        /\ stdin' = SubSeq(stdin, LineLen(stdin) + 1, Len(stdin))
        /\ stdin # <<>> /\ sendline = <<>> /\ wpc = "gets" /\ wpc' = "write"
        /\ UNCHANGED <<typed, c2s, c2sFin, buf, spc, s2c, s2cFin, reset, recvline, rpc, out>>
    BY DEF CopytoGets, IInv, ControlInv
  <1>2. PICK n \in 1 .. Len(stdin) : n = LineLen(stdin) /\ n < MAXLINE
    BY <1>1, LineLenType, Types DEF IInv
  <1>3. PICK y \in Text : y = Cat(Cat(Shown, buf), c2s)
    BY Types DEF IInv
  <1>4. /\ Cat(Cat(y, sendline'), stdin') = Cat(Cat(y, <<>>), stdin)
        /\ sendline' \in Text /\ stdin' \in Text /\ Len(sendline') = n
    <2>1. stdin \in Text /\ CutAt(stdin, n, sendline', stdin')
      BY <1>1, <1>2, Types DEF IInv, CutAt
    <2> QED BY <2>1, Cut
  <1>5. TypeOK'
    BY <1>1, <1>2, <1>4, Zenon DEF IInv, TypeOK, Text
  <1>6. ControlInv'
    <2>1. sendline' # <<>>
      BY <1>2, <1>4, EmptyLen
    <2> QED BY <1>1, <2>1 DEF IInv, ControlInv
  <1>7. Flow'
    BY <1>1, <1>3, <1>4 DEF IInv, Flow, Shown
  <1> QED BY <1>5, <1>6, <1>7 DEF IInv

\* Writen moves one byte of the line into the connection.
LEMMA WriteStep == ASSUME IInv, CopytoWrites PROVE IInv'
  <1>1. /\ c2s' = Append(c2s, Head(sendline)) /\ sendline' = Tail(sendline)
        /\ wpc' = IF Len(sendline) = 1 THEN "gets" ELSE "write"
        /\ sendline # <<>> /\ wpc = "write" /\ Len(c2s) < CAP /\ spc # "ended"
        /\ UNCHANGED <<typed, stdin, c2sFin, buf, spc, s2c, s2cFin, reset, recvline, rpc, out>>
    BY DEF CopytoWrites, IInv, ControlInv
  <1>2. PICK y \in Text : y = Cat(Shown, buf)
    BY Types DEF IInv
  <1>3. /\ Cat(Cat(y, c2s'), sendline') = Cat(Cat(y, c2s), sendline)
        /\ c2s' \in Text /\ sendline' \in Text
        /\ Len(c2s') = Len(c2s) + 1 /\ Len(sendline') = Len(sendline) - 1
    <2>1. c2s \in Text /\ sendline \in Text /\ Moved(c2s, sendline, c2s', sendline')
      BY <1>1, Types DEF IInv, Moved
    <2> QED BY <2>1, MoveHead
  <1>4. Len(sendline) \in Nat /\ Len(c2s) \in Nat
    BY EmptyLen, Types DEF IInv
  <1>5. TypeOK'
    BY <1>1, <1>3, <1>4, EchoAssumption DEF IInv, TypeOK, Text
  <1>6. ControlInv'
    <2>1. Len(sendline) = 1 <=> sendline' = <<>>
      <3>1. Len(sendline) = 1 <=> Len(sendline') = 0
        BY <1>3, <1>4
      <3>2. sendline' = <<>> <=> Len(sendline') = 0
        BY <1>3, EmptyLen, Zenon
      <3> QED BY <3>1, <3>2
    <2> QED BY <1>1, <2>1 DEF IInv, ControlInv
  <1>7. Flow'
    BY <1>1, <1>2, <1>3 DEF IInv, Flow, Shown
  <1> QED BY <1>5, <1>6, <1>7 DEF IInv

\* Readline takes one byte from the connection into recvline.
LEMMA ReadStep == ASSUME IInv, ReadByte PROVE IInv'
  <1>1. /\ recvline' = Append(recvline, Head(s2c)) /\ s2c' = Tail(s2c)
        /\ rpc' = IF LineEnds(recvline') THEN "puts" ELSE "read"
        /\ s2c # <<>> /\ Len(recvline) < MAXLINE - 1
        /\ UNCHANGED <<typed, stdin, sendline, wpc, c2s, c2sFin, buf, spc, s2cFin, reset, out>>
    BY DEF ReadByte, IInv, ControlInv
  <1>2. /\ Cat(Cat(out, recvline'), s2c') = Cat(Cat(out, recvline), s2c)
        /\ recvline' \in Text /\ s2c' \in Text
        /\ Len(recvline') = Len(recvline) + 1 /\ Len(s2c') = Len(s2c) - 1
    <2>1. /\ out \in Text /\ recvline \in Text /\ s2c \in Text
          /\ Moved(recvline, s2c, recvline', s2c')
      BY <1>1, Types DEF IInv, Moved
    <2> QED BY <2>1, MoveHead
  <1>3. Len(recvline) \in Nat /\ Len(s2c) \in Nat
    BY EmptyLen, Types DEF IInv
  <1>4. TypeOK'
    BY <1>1, <1>2, <1>3, EchoAssumption DEF IInv, TypeOK, Text
  <1>5. ControlInv'
    <2>1. rpc' = "read" => Len(recvline') < MAXLINE - 1
      BY <1>1, <1>2, <1>3, EchoAssumption DEF LineEnds
    <2> QED BY <1>1, <2>1 DEF IInv, ControlInv
  <1>6. Flow'
    BY <1>1, <1>2 DEF IInv, Flow, Shown
  <1> QED BY <1>4, <1>5, <1>6 DEF IInv

\* A line, or the last part of one, goes to stdout.
LEMMA PutStep == ASSUME IInv, PutLine \/ ReadEof PROVE IInv'
  <1>1. out' = Cat(out, recvline) /\ recvline' = <<>>
    BY DEF PutLine, ReadEof, Cat
  <1>2. out' \in Text /\ Cat(out', recvline') = Cat(out, recvline)
    BY <1>1, Types, CatEmpty DEF IInv
  <1>3. TypeOK'
    <2>1. <<>> \in Seq(Chars) /\ Len(<<>>) < MAXLINE
      BY EchoAssumption
    <2> QED BY <1>1, <1>2, <2>1, Zenon DEF PutLine, ReadEof, IInv, TypeOK, Text
  <1>4. ControlInv'
    BY <1>1, EchoAssumption DEF PutLine, ReadEof, IInv, ControlInv
  <1>5. Flow'
    BY <1>2 DEF PutLine, ReadEof, IInv, Flow, Shown
  <1> QED BY <1>3, <1>4, <1>5 DEF IInv

\* recv moves a run of bytes into the empty buf.
LEMMA RecvStep == ASSUME IInv, ServerRecv PROVE IInv'
  <1>1. PICK n \in 1 .. BUFSIZE : /\ n <= Len(c2s)
                                 /\ buf' = SubSeq(c2s, 1, n)
                                 /\ c2s' = SubSeq(c2s, n + 1, Len(c2s))
    BY DEF ServerRecv
  <1>2. /\ spc = "recv" /\ spc' = "send" /\ buf = <<>>
        /\ UNCHANGED <<typed, stdin, sendline, wpc, c2sFin, s2c, s2cFin, reset, recvline, rpc, out>>
    BY DEF ServerRecv, IInv, ControlInv
  <1>3. /\ Cat(Cat(Shown, buf'), c2s') = Cat(Cat(Shown, <<>>), c2s)
        /\ buf' \in Text /\ c2s' \in Text /\ Len(buf') = n /\ Len(c2s') = Len(c2s) - n
    <2>1. Shown \in Text /\ c2s \in Text /\ Len(c2s) \in Nat
      BY Types, EmptyLen DEF IInv
    <2>2. CutAt(c2s, n, buf', c2s')
      BY <1>1, <2>1, EchoAssumption DEF CutAt
    <2> QED BY <2>1, <2>2, Cut
  <1>4. TypeOK'
    <2>1. Len(c2s) \in Nat /\ n \in Nat /\ n <= BUFSIZE
      BY <1>1, Types, EmptyLen, EchoAssumption DEF IInv
    <2>2. Len(buf') <= BUFSIZE /\ Len(c2s') <= CAP
      BY <1>3, <2>1, EchoAssumption DEF IInv, TypeOK
    <2> QED BY <1>2, <1>3, <2>2 DEF IInv, TypeOK, Text
  <1>5. ControlInv'
    <2>1. buf' # <<>>
      BY <1>1, <1>3, EmptyLen, EchoAssumption
    <2> QED BY <1>2, <2>1 DEF IInv, ControlInv
  <1>6. Flow'
    BY <1>2, <1>3 DEF IInv, Flow, Shown
  <1> QED BY <1>4, <1>5, <1>6 DEF IInv

\* Send moves one byte of buf into the connection: what is printed or on its
\* way back grows, within what was typed.
LEMMA SendStep == ASSUME IInv, ServerSend PROVE IInv'
  <1>1. /\ s2c' = Append(s2c, Head(buf)) /\ buf' = Tail(buf)
        /\ spc' = IF Len(buf) = 1 THEN "recv" ELSE "send"
        /\ spc = "send" /\ buf # <<>> /\ Len(s2c) < CAP /\ rpc # "exit"
        /\ UNCHANGED <<typed, stdin, sendline, wpc, c2s, c2sFin, s2cFin, reset, recvline, rpc, out>>
    BY DEF ServerSend, IInv, ControlInv
  <1>2. PICK y \in Text : y = Cat(out, recvline)
    BY Types DEF IInv
  <1>3. /\ Cat(Cat(y, s2c'), buf') = Cat(Cat(y, s2c), buf)
        /\ s2c' \in Text /\ buf' \in Text
        /\ Len(s2c') = Len(s2c) + 1 /\ Len(buf') = Len(buf) - 1
    <2>1. s2c \in Text /\ buf \in Text /\ Moved(s2c, buf, s2c', buf')
      BY <1>1, Types DEF IInv, Moved
    <2> QED BY <2>1, MoveHead
  <1>4. Len(buf) \in Nat /\ Len(s2c) \in Nat
    BY EmptyLen, Types DEF IInv
  <1>5. TypeOK'
    BY <1>1, <1>3, <1>4, EchoAssumption DEF IInv, TypeOK, Text
  <1>6. ControlInv'
    <2>1. Len(buf) = 1 <=> Len(buf') = 0
      BY <1>3, <1>4
    <2>2. buf' = <<>> <=> Len(buf') = 0
      BY <1>3, EmptyLen, Zenon
    <2> QED BY <1>1, <2>1, <2>2 DEF IInv, ControlInv
  <1>7. Shown' = Cat(y, s2c') /\ Shown' \in Text
    BY <1>1, <1>2, <1>3, CatType DEF Shown
  <1>8. typed = Cat(Cat(Cat(Cat(Shown', buf'), c2s), sendline), stdin)
    BY <1>1, <1>2, <1>3, <1>7 DEF IInv, Flow, Shown
  <1>9. IsPrefix(Shown', typed)
    <2>1. c2s \in Text /\ sendline \in Text /\ stdin \in Text /\ typed \in Text
      BY Types DEF IInv
    <2>2. /\ Cat(Shown', buf') \in Text /\ Cat(Cat(Shown', buf'), c2s) \in Text
          /\ Cat(Cat(Cat(Shown', buf'), c2s), sendline) \in Text
      BY <1>3, <1>7, <2>1, CatType
    <2>3. IsPrefix(Cat(Cat(Cat(Shown', buf'), c2s), sendline), typed)
      BY <1>8, <2>1, <2>2, PrefixCat
    <2>4. IsPrefix(Cat(Cat(Shown', buf'), c2s), typed)
      BY <2>1, <2>2, <2>3, PrefixShorter
    <2>5. IsPrefix(Cat(Shown', buf'), typed)
      BY <2>1, <2>2, <2>4, PrefixShorter
    <2> QED BY <1>3, <1>7, <2>1, <2>5, PrefixShorter
  <1>10. Flow'
    BY <1>1, <1>8, <1>9 DEF Flow
  <1> QED BY <1>5, <1>6, <1>10 DEF IInv

\* A failure of the server drops what it had, never what is printed.
LEMMA FailStep == ASSUME IInv, ServerFails PROVE IInv'
  <1>1. /\ buf' = <<>> /\ (s2c' = s2c \/ s2c' = <<>>) /\ s2cFin' = TRUE
        /\ spc # "ended" /\ spc' = "failed" /\ reset' \in BOOLEAN /\ rpc # "exit"
        /\ UNCHANGED <<typed, stdin, sendline, wpc, c2s, c2sFin, recvline, rpc, out>>
    BY DEF ServerFails, IInv, ControlInv
  <1>2. TypeOK'
    <2>1. <<>> \in Seq(Chars) /\ Len(<<>>) <= BUFSIZE /\ Len(<<>>) <= CAP
      BY EchoAssumption
    <2> QED BY <1>1, <2>1, Zenon DEF IInv, TypeOK
  <1>3. ControlInv'
    BY <1>1 DEF IInv, ControlInv
  <1>4. IsPrefix(Shown', typed')
    <2>1. CASE s2c' = s2c
      BY <1>1, <2>1 DEF IInv, Flow, Shown
    <2>2. CASE s2c' = <<>>
      <3>1. Cat(out, recvline) \in Text /\ s2c \in Text /\ typed \in Text
        BY Types DEF IInv
      <3>2. IsPrefix(Cat(out, recvline), typed)
        BY <3>1, PrefixShorter DEF IInv, Flow, Shown
      <3>3. Shown' = Cat(out, recvline)
        BY <1>1, <2>2, <3>1, CatEmpty DEF Shown
      <3> QED BY <1>1, <3>2, <3>3
    <2> QED BY <1>1, <2>1, <2>2
  <1> QED BY <1>1, <1>2, <1>3, <1>4 DEF IInv, Flow

LEMMA InvStep == IInv /\ [Next]_vars => IInv'
  <1> SUFFICES ASSUME IInv, [Next]_vars PROVE IInv'
    OBVIOUS
  <1>1. CASE CopytoFails \/ CopytoShutdown
    <2>1. TypeOK'
      BY <1>1, Zenon DEF CopytoFails, CopytoShutdown, IInv, TypeOK
    <2>2. ControlInv'
      BY <1>1 DEF CopytoFails, CopytoShutdown, IInv, ControlInv
    <2>3. Flow'
      BY <1>1 DEF CopytoFails, CopytoShutdown, IInv, Flow, Shown
    <2> QED BY <2>1, <2>2, <2>3 DEF IInv
  <1>2. CASE ReadFails \/ ServerEof
    <2>1. TypeOK'
      BY <1>2, Zenon DEF ReadFails, ServerEof, IInv, TypeOK
    <2>2. ControlInv'
      BY <1>2 DEF ReadFails, ServerEof, IInv, ControlInv
    <2>3. Flow'
      BY <1>2 DEF ReadFails, ServerEof, IInv, Flow, Shown
    <2> QED BY <2>1, <2>2, <2>3 DEF IInv
  <1>3. CASE UNCHANGED vars
    BY <1>3 DEF vars, IInv, TypeOK, ControlInv, Flow, Shown
  <1> QED
    BY <1>1, <1>2, <1>3, GetsStep, WriteStep, ReadStep, PutStep, RecvStep, SendStep, FailStep
       DEF Next, copyto, str_cli, str_echo

\* The inductive invariant: where copyto, str_cli and str_echo are, and the bytes
\* each of them and the connection hold, through every cut of the stream.
THEOREM InvHolds == Spec => []IInv
  BY InitInv, InvStep, PTL DEF Spec

\* No buffer of the client, of the server or of the connection overflows.
THEOREM TypeCorrect == Spec => []TypeOK
  <1>1. IInv => TypeOK
    BY DEF IInv
  <1> QED BY <1>1, InvHolds, PTL

\* No byte is lost, doubled or reordered, wherever the stream is cut; after a
\* failure of the server what is printed is still a prefix of what was typed.
THEOREM StreamConservedHolds == Spec => []StreamConserved
  <1>1. IInv => StreamConserved
    BY DEF IInv, Flow, Shown, Cat, StreamConserved
  <1> QED BY <1>1, InvHolds, PTL

\* The client leaves by exit(0) only when everything typed is printed, unless
\* the server failed.
THEOREM ExitLosesNothingHolds == Spec => []ExitLosesNothing
  <1>1. IInv => ExitLosesNothing
    <2> SUFFICES ASSUME IInv, rpc = "exit", spc # "failed" PROVE out = typed
      BY DEF ExitLosesNothing
    <2>1. /\ recvline = <<>> /\ s2c = <<>> /\ buf = <<>> /\ c2s = <<>> /\ sendline = <<>>
          /\ stdin = <<>>
      BY DEF IInv, ControlInv, TypeOK
    <2>2. out \in Text
      BY Types DEF IInv
    <2> QED BY <2>1, <2>2, CatEmpty DEF IInv, Flow, Shown
  <1> QED BY <1>1, InvHolds, PTL
=============================================================================
