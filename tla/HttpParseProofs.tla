--------------------------- MODULE HttpParseProofs ---------------------------
(***************************************************************************)
(* Theorems about HttpParse for every set of requests, well-formed or not, *)
(* every way recv cuts them, and every size of the buffer.                 *)
(***************************************************************************)
EXTENDS HttpParse, SequenceTheorems, WellFoundedInduction, TLAPS

\* The parser's indices do not leave what was received: a line that is parsed has
\* at least its terminator, and an accepted body is all there, so that the NUL which
\* ends it falls at most on the cell behind the last one received.  Only a negative
\* length, or one that overflows, takes the NUL elsewhere.
InBuffer ==
  /\ m_read_idx <= BufferSize
  /\ pc = "parse" => /\ m_start_line = m_checked_idx /\ text <= m_start_line
                     /\ m_check_state # "CONTENT" => text < m_start_line
  /\ pc = "answer" /\ result = "GET_REQUEST" /\ ~ Overflows => text + m_content_length <= m_read_idx
  /\ pc = "faulted" => m_content_length < 0 \/ Overflows

\* The NUL that parse_content has written.
Ended(k) == /\ pc \notin {"recv", "loop", "parse"} /\ result = "GET_REQUEST" /\ m_check_state = "CONTENT"
            /\ k = text + m_content_length + 1 /\ m_read_buf[k] = NUL

\* Buffer and wire together are what the client has sent, but for the terminators of
\* lines, only where parse_line has looked, the page put behind a lone slash, and
\* the NUL at the end of an accepted body.
Received ==
  /\ sent \in Requests
  /\ Len(sent) = m_read_idx + Len(wire)
  /\ \A k \in 1 .. Len(wire) : wire[k] = sent[m_read_idx + k]
  /\ \A k \in 1 .. m_read_idx :
       \/ m_read_buf[k] = sent[k]
       \/ /\ sent[k] \in {CR, LF} /\ k <= m_checked_idx
          /\ m_read_buf[k] = NUL \/ (m_read_buf[k] = "other" /\ k = 2 /\ sent[1] \in Slash)
       \/ Ended(k)

\* The first line starts at the first cell, however often it was looked for.
FirstLine ==
  m_check_state = "REQUESTLINE" => /\ pc \in {"recv", "loop"} => m_start_line = 0
                                   /\ pc = "parse" => text = 0 /\ 2 <= m_start_line /\ m_read_buf[m_start_line - 1] = NUL

\* What was parsed was in the request.
MethodSent  == m_check_state # "REQUESTLINE" => m_method = MethodOf(sent[1])
LingerSent  == m_linger => \E k \in 1 .. Len(sent) : sent[k] = "keep"
LengthSent  == m_content_length # 0 =>
  \E k \in 1 .. Len(sent) : sent[k] \in DOMAIN Lengths /\ Lengths[sent[k]] = m_content_length

\* The inductive invariant.
IInv == TypeOK /\ InBuffer /\ Received /\ FirstLine /\ MethodSent /\ LingerSent /\ LengthSent
-----------------------------------------------------------------------------
\* A set of natural numbers has a smallest element, which Min chooses.
LEMMA MinOfNats ==
  ASSUME NEW S, S \subseteq Nat, S # {}
  PROVE  Min(S) \in S /\ \A y \in S : Min(S) <= y
<1> DEFINE less == {ss \in Nat \X Nat : ss[1] < ss[2]}
<1>1. IsWellFoundedOn(less, Nat)
  BY NatLessThanWellFounded DEF OpToRel
<1>2. \E x \in S : \A y \in S : ~ (<<y, x>> \in less)
  <2> HIDE DEF less
  <2> QED
    BY <1>1, WFMin
<1>3. \E x \in S : \A y \in S : x <= y
  <2>1. PICK x \in S : \A y \in S : ~ (<<y, x>> \in less)
    BY <1>2
  <2>2. \A y \in S : ~ (y < x)
    BY <2>1
  <2> QED
    BY <2>2
<1> QED
  BY <1>3 DEF Min

\* What parse_line does to the buffer when it ends a line at cell i.
LEMMA LineFoundEffect ==
  ASSUME TypeOK, NEW i \in 0 .. m_read_idx - 2, LineFound(i)
  PROVE  /\ m_read_buf' \in Seq(Cells) /\ Len(m_read_buf') = Len(m_read_buf)
         /\ \A k \in 1 .. Len(m_read_buf) :
              m_read_buf'[k] = IF k \in {i + 1, i + 2} THEN NUL ELSE m_read_buf[k]
<1>1. m_read_buf \in Seq(Cells) /\ NUL \in Cells
  BY DEF TypeOK, Cells, Plain
<1>2. i + 1 \in 1 .. Len(m_read_buf) /\ i + 2 \in 1 .. Len(m_read_buf)
  BY <1>1 DEF m_read_idx
<1> DEFINE once == [m_read_buf EXCEPT ![i + 1] = NUL]
<1>3. /\ once \in Seq(Cells) /\ Len(once) = Len(m_read_buf)
      /\ \A k \in 1 .. Len(m_read_buf) : once[k] = IF k = i + 1 THEN NUL ELSE m_read_buf[k]
  BY <1>1, <1>2, ExceptSeq
<1> DEFINE twice == [once EXCEPT ![i + 2] = NUL]
<1>4. /\ twice \in Seq(Cells) /\ Len(twice) = Len(m_read_buf)
      /\ \A k \in 1 .. Len(m_read_buf) : twice[k] = IF k = i + 2 THEN NUL ELSE once[k]
  <2> HIDE DEF once
  <2> QED
    BY <1>1, <1>2, <1>3, ExceptSeq
<1>5. m_read_buf' = twice
  BY DEF LineFound
<1> HIDE DEF once, twice
<1> QED
  BY <1>3, <1>4, <1>5

\* What the request line with a lone slash does to the buffer.
LEMMA JudgeEffect ==
  ASSUME TypeOK, InBuffer, FirstLine, ParseRequestLine
  PROVE  /\ m_read_buf' \in Seq(Cells) /\ Len(m_read_buf') = Len(m_read_buf)
         /\ text = 0 /\ 2 \in 1 .. Len(m_read_buf) /\ 2 <= m_checked_idx
         /\ \A k \in 1 .. Len(m_read_buf) :
              \/ m_read_buf'[k] = m_read_buf[k]
              \/ k = 2 /\ m_read_buf'[2] = "other" /\ m_read_buf[2] = NUL /\ Cell(0) \in Slash
<1>1. m_read_buf \in Seq(Cells) /\ "other" \in Cells /\ Len(m_read_buf) \in Nat
  BY DEF TypeOK, Cells, Plain
<1>2. text = 0 /\ 2 <= m_checked_idx /\ 2 \in 1 .. Len(m_read_buf)
  <2>1. text = 0 /\ 2 <= m_start_line /\ m_start_line = m_checked_idx
    BY DEF ParseRequestLine, FirstLine, InBuffer
  <2>2. m_checked_idx \in Nat /\ m_checked_idx <= Len(m_read_buf)
    BY <1>1 DEF TypeOK
  <2> QED
    BY <1>1, <2>1, <2>2
<1>3. CASE m_read_buf' = m_read_buf
  BY <1>1, <1>2, <1>3
<1>4. CASE m_read_buf' # m_read_buf
  <2>1. Cell(text) \in Slash /\ Cell(text + 1) = NUL /\ m_read_buf' = [m_read_buf EXCEPT ![text + 2] = "other"]
    BY <1>4 DEF ParseRequestLine, JudgePage
  <2>2. 0 + 2 = 2 /\ (0 + 1) + 1 = 2
    OBVIOUS
  <2>3. Cell(0) \in Slash /\ m_read_buf[2] = NUL /\ m_read_buf' = [m_read_buf EXCEPT ![2] = "other"]
    BY <1>2, <2>1, <2>2 DEF Cell
  <2>4. /\ m_read_buf' \in Seq(Cells) /\ Len(m_read_buf') = Len(m_read_buf)
        /\ \A k \in 1 .. Len(m_read_buf) : m_read_buf'[k] = IF k = 2 THEN "other" ELSE m_read_buf[k]
    BY <1>1, <1>2, <2>3, ExceptSeq
  <2> QED
    BY <1>2, <2>3, <2>4
<1> QED
  BY <1>3, <1>4

\* What parse_content does to the buffer when it accepts a body.
LEMMA TerminateEffect ==
  ASSUME TypeOK, Terminate
  PROVE  /\ m_read_buf' \in Seq(Cells) /\ Len(m_read_buf') = Len(m_read_buf)
         /\ \A k \in 1 .. Len(m_read_buf) :
              \/ m_read_buf'[k] = m_read_buf[k]
              \/ k = text + m_content_length + 1 /\ m_read_buf'[k] = NUL
         /\ text + m_content_length = Len(m_read_buf) => m_read_buf' = m_read_buf
<1>1. m_read_buf \in Seq(Cells) /\ NUL \in Cells /\ Len(m_read_buf) \in Nat /\ text \in Nat /\ m_content_length \in Int
  BY DEF TypeOK, Cells, Plain
<1>2. PICK k \in Int : k = text + m_content_length
  BY <1>1
<1>3. m_read_buf' = IF k \in 0 .. Len(m_read_buf) - 1 THEN [m_read_buf EXCEPT ![k + 1] = NUL] ELSE m_read_buf
  BY <1>2, Zenon DEF Terminate, m_read_idx
<1>4. CASE k \in 0 .. Len(m_read_buf) - 1
  <2>1. k + 1 \in 1 .. Len(m_read_buf) /\ k # Len(m_read_buf)
    BY <1>1, <1>2, <1>4
  <2>2. /\ m_read_buf' \in Seq(Cells) /\ Len(m_read_buf') = Len(m_read_buf)
        /\ \A j \in 1 .. Len(m_read_buf) : m_read_buf'[j] = IF j = k + 1 THEN NUL ELSE m_read_buf[j]
    BY <1>1, <1>3, <1>4, <2>1, ExceptSeq
  <2> QED
    BY <1>2, <2>1, <2>2
<1>5. CASE k \notin 0 .. Len(m_read_buf) - 1
  BY <1>1, <1>3, <1>5
<1> QED
  BY <1>4, <1>5

\* parse_line stops in front of a cell and writes nothing, or ends a line that is
\* in the buffer with its CR and LF.
LEMMA ParseLineCases ==
  ASSUME TypeOK, ParseLine
  PROVE  \/ \E i \in m_checked_idx .. m_read_idx, s \in {"LINE_OPEN", "LINE_BAD"} : Scanned(i, s)
         \/ \E i \in 0 .. m_read_idx - 2 :
              LineFound(i) /\ Cell(i) = CR /\ Cell(i + 1) = LF /\ m_checked_idx <= i + 1
<1>1. m_read_idx \in Nat /\ m_checked_idx \in 0 .. m_read_idx
  BY DEF TypeOK, m_read_idx
<1>2. CASE LineEnds = {}
  BY <1>1, <1>2 DEF ParseLine
<1>3. CASE LineEnds # {}
  <2>1. PICK i \in LineEnds : i = Min(LineEnds)
    <3>1. LineEnds \subseteq Nat
      BY <1>1 DEF LineEnds
    <3> QED
      BY <1>3, <3>1, MinOfNats
  <2>2. i \in m_checked_idx .. m_read_idx - 1 /\ Cell(i) \in {CR, LF}
    BY <2>1 DEF LineEnds
  <2>3. IF Cell(i) = CR
          THEN IF i + 1 = m_read_idx THEN Scanned(i, "LINE_OPEN")
               ELSE IF Cell(i + 1) = LF THEN LineFound(i)
               ELSE Scanned(i, "LINE_BAD")
          ELSE IF i > 1 /\ Cell(i - 1) = CR THEN LineFound(i - 1)
               ELSE Scanned(i, "LINE_BAD")
    BY <1>3, <2>1 DEF ParseLine
  <2>4. CASE Cell(i) = CR /\ i + 1 # m_read_idx /\ Cell(i + 1) = LF
    <3>1. i \in 0 .. m_read_idx - 2 /\ LineFound(i) /\ m_checked_idx <= i + 1
      BY <1>1, <2>2, <2>3, <2>4
    <3> QED
      BY <2>4, <3>1
  <2>5. CASE Cell(i) # CR /\ i > 1 /\ Cell(i - 1) = CR
    <3>1. i - 1 \in 0 .. m_read_idx - 2 /\ LineFound(i - 1) /\ m_checked_idx <= (i - 1) + 1 /\ (i - 1) + 1 = i
      BY <1>1, <2>2, <2>3, <2>5
    <3>2. Cell(i - 1) = CR /\ Cell((i - 1) + 1) = LF
      BY <2>2, <2>5, <3>1
    <3> QED
      BY <3>1, <3>2
  <2>6. CASE ~ (Cell(i) = CR /\ i + 1 # m_read_idx /\ Cell(i + 1) = LF) /\ ~ (Cell(i) # CR /\ i > 1 /\ Cell(i - 1) = CR)
    <3>1. i \in m_checked_idx .. m_read_idx
      BY <1>1, <2>2
    <3>2. Scanned(i, "LINE_OPEN") \/ Scanned(i, "LINE_BAD")
      BY <2>3, <2>6
    <3> QED
      BY <3>1, <3>2
  <2> QED
    BY <2>4, <2>5, <2>6
<1> QED
  BY <1>2, <1>3

\* What recv returns follows what is in the buffer, and fits into it.
LEMMA ReadEffect ==
  ASSUME TypeOK, InBuffer, NEW n \in 1 .. Len(wire), ReadOnce(n)
  PROVE  /\ m_read_buf' \in Seq(Cells) /\ wire' \in Seq(Cells)
         /\ Len(m_read_buf') = Len(m_read_buf) + n /\ Len(m_read_buf') <= BufferSize
         /\ Len(wire') = Len(wire) - n
         /\ \A k \in 1 .. Len(m_read_buf) : m_read_buf'[k] = m_read_buf[k]
         /\ \A k \in 1 .. n : m_read_buf'[Len(m_read_buf) + k] = wire[k]
         /\ \A k \in 1 .. Len(wire') : wire'[k] = wire[n + k]
<1>1. m_read_buf \in Seq(Cells) /\ wire \in Seq(Cells) /\ BufferSize \in Nat
  BY HttpParseAssumption DEF TypeOK
<1>2. n <= BufferSize - m_read_idx
  <2>1. Len(wire) \in Nat /\ BufferSize - m_read_idx \in Nat
    BY <1>1 DEF ReadOnce, m_read_idx
  <2>2. Min({Len(wire), BufferSize - m_read_idx}) <= BufferSize - m_read_idx
    BY <2>1, MinOfNats
  <2>3. Min({Len(wire), BufferSize - m_read_idx}) \in Nat
    BY <2>1, MinOfNats
  <2> QED
    BY <2>1, <2>2, <2>3 DEF ReadOnce
<1> DEFINE piece == SubSeq(wire, 1, n)
<1>3. piece \in Seq(Cells) /\ Len(piece) = n /\ \A k \in 1 .. n : piece[k] = wire[k]
  BY <1>1
<1>4. m_read_buf' = m_read_buf \o piece
  BY DEF ReadOnce
<1>5. wire' = SubSeq(wire, n + 1, Len(wire))
  BY DEF ReadOnce
<1>6. wire' \in Seq(Cells) /\ Len(wire') = Len(wire) - n /\ \A k \in 1 .. Len(wire') : wire'[k] = wire[n + k]
  BY <1>1, <1>5
<1> HIDE DEF piece
<1>7. /\ m_read_buf' \in Seq(Cells) /\ Len(m_read_buf') = Len(m_read_buf) + n
      /\ \A k \in 1 .. Len(m_read_buf) : m_read_buf'[k] = m_read_buf[k]
      /\ \A k \in 1 .. n : m_read_buf'[Len(m_read_buf) + k] = piece[k]
  <2>1. /\ m_read_buf' \in Seq(Cells) /\ Len(m_read_buf') = Len(m_read_buf) + n
        /\ \A k \in 1 .. Len(m_read_buf) + n :
             m_read_buf'[k] = IF k <= Len(m_read_buf) THEN m_read_buf[k] ELSE piece[k - Len(m_read_buf)]
    <3>1. /\ m_read_buf \o piece \in Seq(Cells)
          /\ Len(m_read_buf \o piece) = Len(m_read_buf) + Len(piece)
          /\ \A k \in 1 .. Len(m_read_buf) + Len(piece) :
               (m_read_buf \o piece)[k] = IF k <= Len(m_read_buf) THEN m_read_buf[k] ELSE piece[k - Len(m_read_buf)]
      BY <1>1, <1>3, ConcatProperties, Zenon
    <3> QED
      BY <1>3, <1>4, <3>1, Zenon
  <2>2. Len(m_read_buf) \in Nat /\ n \in Nat
    BY <1>1
  <2>3. ASSUME NEW k \in 1 .. Len(m_read_buf) PROVE m_read_buf'[k] = m_read_buf[k]
    BY <2>1, <2>2
  <2>4. ASSUME NEW k \in 1 .. n PROVE m_read_buf'[Len(m_read_buf) + k] = piece[k]
    <3>1. /\ Len(m_read_buf) + k \in 1 .. Len(m_read_buf) + n
          /\ ~ (Len(m_read_buf) + k <= Len(m_read_buf)) /\ (Len(m_read_buf) + k) - Len(m_read_buf) = k
      BY <2>2
    <3> QED
      BY <2>1, <3>1
  <2> QED
    BY <2>1, <2>3, <2>4
<1> QED
  BY <1>1, <1>2, <1>3, <1>6, <1>7 DEF m_read_idx
-----------------------------------------------------------------------------
\* While a request is read, a cell that nothing was written to is as the client sent it.
LEMMA CellSent ==
  ASSUME TypeOK, Received, pc = "parse", NEW i \in 0 .. m_read_idx - 1, Cell(i) \notin {NUL, "other"}
  PROVE  i + 1 \in 1 .. Len(sent) /\ sent[i + 1] = Cell(i)
<1>1. i + 1 \in 1 .. m_read_idx /\ m_read_idx \in Nat /\ Len(wire) \in Nat
  BY DEF TypeOK, m_read_idx
<1> QED
  BY <1>1 DEF Received, Ended, Cell

\* Types are kept, and indices and body stay inside what was received.
LEMMA TypeStep ==
  ASSUME TypeOK, InBuffer, FirstLine, [Next]_vars
  PROVE  TypeOK' /\ InBuffer'
<1>0. /\ m_read_buf \in Seq(Cells) /\ Len(m_read_buf) \in Nat /\ BufferSize \in Nat
      /\ m_checked_idx \in Nat /\ m_start_line \in Nat /\ text \in Nat
      /\ m_start_line <= m_checked_idx /\ m_checked_idx <= Len(m_read_buf) /\ text <= Len(m_read_buf)
  BY HttpParseAssumption DEF TypeOK
<1>1. ASSUME NEW n \in 1 .. Len(wire), ReadOnce(n) PROVE TypeOK' /\ InBuffer'
  <2>1. /\ m_read_buf' \in Seq(Cells) /\ wire' \in Seq(Cells)
        /\ Len(m_read_buf') = Len(m_read_buf) + n /\ Len(m_read_buf') <= BufferSize
    BY <1>1, ReadEffect
  <2>2. n \in Nat /\ pc' = "loop" /\ line_status' = "LINE_OK" /\ split' \in BOOLEAN
    BY <1>1 DEF ReadOnce
  <2>3. /\ sent' = sent /\ m_checked_idx' = m_checked_idx /\ m_start_line' = m_start_line
        /\ m_check_state' = m_check_state /\ m_content_length' = m_content_length
        /\ m_method' = m_method /\ m_linger' = m_linger /\ text' = text /\ result' = result
    BY <1>1, Zenon DEF ReadOnce, parsed
  <2>4. m_checked_idx' \in 0 .. Len(m_read_buf') /\ m_start_line' \in 0 .. m_checked_idx' /\ text' \in 0 .. Len(m_read_buf')
    BY <1>0, <2>1, <2>2, <2>3
  <2> QED
    BY <2>1, <2>2, <2>3, <2>4 DEF TypeOK, InBuffer, m_read_idx
<1>2. CASE ReadOnceFull
  BY <1>2 DEF TypeOK, InBuffer, ReadOnceFull, place, parsed, m_read_idx
<1>3. CASE TakeContent
  <2>1. /\ sent' = sent /\ wire' = wire /\ m_read_buf' = m_read_buf /\ m_checked_idx' = m_checked_idx
        /\ m_check_state' = m_check_state /\ m_content_length' = m_content_length
        /\ m_method' = m_method /\ m_linger' = m_linger /\ line_status' = line_status /\ split' = split
    BY <1>3, Zenon DEF TakeContent, parsed
  <2>2. pc' = "parse" /\ text' = m_start_line /\ m_start_line' = m_checked_idx /\ result' = result
    BY <1>3, <2>1 DEF TakeContent, EnterBody
  <2>3. m_check_state = "CONTENT"
    BY <1>3 DEF TakeContent
  <2> QED
    BY <1>0, <2>1, <2>2, <2>3 DEF TypeOK, InBuffer, m_read_idx
<1>4. CASE TakeLine
  <2>1. /\ sent' = sent /\ wire' = wire /\ split' = split
        /\ m_check_state' = m_check_state /\ m_content_length' = m_content_length
        /\ m_method' = m_method /\ m_linger' = m_linger
    BY <1>4, Zenon DEF TakeLine, parsed
  <2>2. ASSUME NEW i \in m_checked_idx .. m_read_idx, NEW s \in {"LINE_OPEN", "LINE_BAD"}, Scanned(i, s)
        PROVE  TypeOK' /\ InBuffer'
    <3>1. m_read_buf' = m_read_buf /\ m_checked_idx' = i /\ line_status' = s
      BY <2>2 DEF Scanned
    <3>2. pc' = "recv" /\ result' = "NO_REQUEST" /\ m_start_line' = m_start_line /\ text' = text
      BY <1>4, <3>1 DEF TakeLine, Leave
    <3> QED
      BY <1>0, <2>1, <3>1, <3>2 DEF TypeOK, InBuffer, m_read_idx
  <2>3. ASSUME NEW i \in 0 .. m_read_idx - 2, LineFound(i), m_checked_idx <= i + 1
        PROVE  TypeOK' /\ InBuffer'
    <3>1. m_read_buf' \in Seq(Cells) /\ Len(m_read_buf') = Len(m_read_buf)
      BY <2>3, LineFoundEffect
    <3>2. m_checked_idx' = i + 2 /\ line_status' = "LINE_OK"
      BY <2>3 DEF LineFound
    <3>3. pc' = "parse" /\ text' = m_start_line /\ m_start_line' = i + 2 /\ result' = result
      BY <1>4, <3>2 DEF TakeLine, EnterBody
    <3>4. i \in Nat /\ i + 2 <= Len(m_read_buf) /\ m_start_line < i + 2
      BY <1>0, <2>3 DEF m_read_idx
    <3> QED
      BY <1>0, <2>1, <3>1, <3>2, <3>3, <3>4 DEF TypeOK, InBuffer, m_read_idx
  <2>4. ParseLine
    BY <1>4 DEF TakeLine
  <2> QED
    BY <2>2, <2>3, <2>4, ParseLineCases
<1>5. CASE ParseRequestLine
  <2>1. m_read_buf' \in Seq(Cells) /\ Len(m_read_buf') = Len(m_read_buf)
    BY <1>5, JudgeEffect
  <2>2. /\ pc' \in {"loop", "answer"} /\ (pc' = "answer" => result' = "BAD_REQUEST")
        /\ result' \in {"NO_REQUEST", "GET_REQUEST", "BAD_REQUEST"}
        /\ m_method' \in {"get", "post"} /\ m_check_state' \in {"REQUESTLINE", "HEADER", "CONTENT"}
    BY <1>5 DEF TypeOK, ParseRequestLine, Leave, Continue, MethodOf
  <2>3. /\ sent' = sent /\ wire' = wire /\ m_checked_idx' = m_checked_idx /\ m_start_line' = m_start_line
        /\ m_content_length' = m_content_length /\ m_linger' = m_linger /\ line_status' = line_status
        /\ text' = text /\ split' = split
    BY <1>5, Zenon DEF ParseRequestLine
  <2> QED
    BY <1>0, <2>1, <2>2, <2>3 DEF TypeOK, InBuffer, m_read_idx
<1>6. CASE ParseHeaders
  <2>1. \A c \in DOMAIN Lengths : Lengths[c] \in Int
    <3>1. MaxInt \in Nat /\ Lengths \in [DOMAIN Lengths -> (- MaxInt - 1) .. MaxInt]
      BY HttpParseAssumption
    <3> QED
      BY <3>1
  <2>2. m_content_length' \in Int
    BY <1>6, <2>1 DEF ParseHeaders, TypeOK
  <2>3. NUL \notin DOMAIN Lengths
    BY HttpParseAssumption DEF NUL, Plain
  <2>4. Cell(text) = NUL /\ m_content_length = 0 => m_content_length' = 0
    BY <1>6, <2>3 DEF ParseHeaders
  <2>5. m_read_buf' = m_read_buf /\ m_checked_idx' = m_checked_idx /\ m_start_line' = m_start_line /\ text' = text
    BY <1>6, Zenon DEF ParseHeaders, place
  <2>6. /\ pc' \in {"recv", "loop", "answer"} /\ result' \in {"NO_REQUEST", "GET_REQUEST", "BAD_REQUEST"}
        /\ m_check_state' \in {"REQUESTLINE", "HEADER", "CONTENT"}
        /\ pc' = "answer" => Cell(text) = NUL /\ m_content_length = 0
    BY <1>6 DEF ParseHeaders, Leave, Continue, TypeOK
  <2>7. /\ sent' = sent /\ wire' = wire /\ m_method' = m_method /\ line_status' = line_status /\ split' = split
        /\ m_linger' \in BOOLEAN
    BY <1>6, Zenon DEF ParseHeaders
  <2> QED
    BY <1>0, <2>2, <2>4, <2>5, <2>6, <2>7 DEF TypeOK, InBuffer, m_read_idx
<1>7. CASE ParseContent
  <2>1. /\ sent' = sent /\ wire' = wire /\ m_checked_idx' = m_checked_idx
        /\ m_start_line' = m_start_line /\ text' = text /\ split' = split
        /\ m_check_state' = m_check_state /\ m_content_length' = m_content_length
        /\ m_method' = m_method /\ m_linger' = m_linger
    BY <1>7, Zenon DEF ParseContent, parsed
  <2>2. text <= m_checked_idx /\ m_content_length \in Int /\ m_read_idx \in Nat /\ m_read_idx <= BufferSize
    BY <1>0, <1>7 DEF ParseContent, InBuffer, TypeOK, m_read_idx
  <2>3. CASE m_read_idx >= m_content_length + m_checked_idx \/ Overflows
    <3>1. Terminate /\ line_status' = line_status
      BY <1>7, <2>3 DEF ParseContent
    <3>2. m_read_buf' \in Seq(Cells) /\ Len(m_read_buf') = Len(m_read_buf)
      BY <3>1, TerminateEffect
    <3>3. /\ result' = "GET_REQUEST" /\ pc' \in {"answer", "faulted"}
          /\ pc' = "faulted" => text + m_content_length \notin 0 .. BufferSize
      BY <3>1, Zenon DEF Terminate
    <3>4. ~ Overflows => text + m_content_length <= m_read_idx
      BY <1>0, <2>2, <2>3
    <3>5. pc' = "faulted" => m_content_length < 0 \/ Overflows
      BY <1>0, <2>2, <3>3, <3>4
    <3>6. Overflows' <=> Overflows
      BY <2>1 DEF Overflows
    <3>7. m_read_idx' = m_read_idx
      BY <3>2 DEF m_read_idx
    <3>8. TypeOK'
      BY <1>0, <2>1, <3>1, <3>2, <3>3 DEF TypeOK
    <3>9. InBuffer'
      BY <2>1, <2>2, <3>3, <3>4, <3>5, <3>6, <3>7 DEF InBuffer
    <3> QED
      BY <3>8, <3>9
  <2>4. CASE ~ (m_read_idx >= m_content_length + m_checked_idx \/ Overflows)
    <3>1. pc' = "loop" /\ result' = result /\ line_status' = "LINE_OPEN" /\ m_read_buf' = m_read_buf
      BY <1>7, <2>4 DEF ParseContent, Continue
    <3> QED
      BY <1>0, <2>1, <3>1 DEF TypeOK, InBuffer, m_read_idx
  <2> QED
    BY <2>3, <2>4
<1>8. CASE Answered
  <2>1. CASE m_linger
    <3>1. sent' \in Seq(Cells) /\ wire' \in Seq(Cells) /\ pc' = "recv" /\ Renewed
      BY <1>8, <2>1, HttpParseAssumption DEF Answered
    <3>2. m_read_buf' = <<>> /\ m_checked_idx' = 0 /\ m_start_line' = 0 /\ text' = 0 /\ m_content_length' = 0
      BY <3>1, Zenon DEF Renewed
    <3>3. m_read_buf' \in Seq(Cells) /\ Len(m_read_buf') = 0
      BY <3>2
    <3>4. /\ m_check_state' = "REQUESTLINE" /\ m_method' = "get" /\ m_linger' = FALSE
          /\ line_status' = "LINE_OK" /\ result' = "NO_REQUEST" /\ split' = FALSE
      BY <3>1, Zenon DEF Renewed
    <3>5. m_checked_idx' \in 0 .. Len(m_read_buf') /\ m_start_line' \in 0 .. m_checked_idx' /\ text' \in 0 .. Len(m_read_buf')
      BY <3>2, <3>3
    <3>6. m_content_length' \in Int
      BY <3>2
    <3>7. TypeOK'
      BY <3>1, <3>3, <3>4, <3>5, <3>6, Zenon DEF TypeOK
    <3>8. InBuffer'
      BY <1>0, <3>1, <3>3 DEF InBuffer, m_read_idx
    <3> QED
      BY <3>7, <3>8
  <2>2. CASE ~ m_linger
    BY <1>8, <2>2 DEF Answered, TypeOK, InBuffer, place, parsed, m_read_idx
  <2> QED
    BY <2>1, <2>2
<1>9. CASE UNCHANGED vars
  BY <1>9 DEF vars, place, parsed, TypeOK, InBuffer, Overflows, m_read_idx
<1> QED
  BY <1>1, <1>2, <1>3, <1>4, <1>5, <1>6, <1>7, <1>8, <1>9 DEF Next

\* What a cell of the buffer may hold before a request has been accepted.
AsSent(k) ==
  \/ m_read_buf[k] = sent[k]
  \/ /\ sent[k] \in {CR, LF} /\ k <= m_checked_idx
     /\ m_read_buf[k] = NUL \/ (m_read_buf[k] = "other" /\ k = 2 /\ sent[1] \in Slash)

LEMMA ReceivedParts ==
  Received <=> /\ sent \in Requests
               /\ Len(sent) = m_read_idx + Len(wire)
               /\ \A k \in 1 .. Len(wire) : wire[k] = sent[m_read_idx + k]
               /\ \A k \in 1 .. m_read_idx : AsSent(k) \/ Ended(k)
BY Zenon DEF Received, AsSent

\* recv, parse_line, the page behind a lone slash and the end of the body change the
\* buffer; all of them keep it what was sent.
LEMMA ReceivedStep ==
  ASSUME TypeOK, InBuffer, FirstLine, Received, [Next]_vars
  PROVE  Received'
<1>0. /\ m_read_buf \in Seq(Cells) /\ Len(m_read_buf) \in Nat /\ Len(wire) \in Nat /\ m_checked_idx \in Nat
      /\ wire \in Seq(Cells) /\ m_checked_idx <= Len(m_read_buf)
  BY DEF TypeOK
<1>1. ASSUME NEW n \in 1 .. Len(wire), ReadOnce(n) PROVE Received'
  <2>1. /\ Len(m_read_buf') = Len(m_read_buf) + n /\ Len(wire') = Len(wire) - n
        /\ \A k \in 1 .. Len(m_read_buf) : m_read_buf'[k] = m_read_buf[k]
        /\ \A k \in 1 .. n : m_read_buf'[Len(m_read_buf) + k] = wire[k]
        /\ \A k \in 1 .. Len(wire') : wire'[k] = wire[n + k]
    BY <1>1, ReadEffect
  <2>2. sent' = sent /\ m_checked_idx' = m_checked_idx /\ n \in Nat
    BY <1>1 DEF ReadOnce
  <2>3. sent' \in Requests /\ Len(sent') = m_read_idx' + Len(wire')
    <3>1. sent \in Requests /\ Len(sent) = Len(m_read_buf) + Len(wire)
      BY DEF Received, m_read_idx
    <3> QED
      BY <1>0, <2>1, <2>2, <3>1 DEF m_read_idx
  <2>4. ASSUME NEW k \in 1 .. Len(wire') PROVE wire'[k] = sent'[m_read_idx' + k]
    <3>1. n + k \in 1 .. Len(wire) /\ m_read_idx' + k = m_read_idx + (n + k)
      BY <1>0, <2>1, <2>2 DEF m_read_idx
    <3> QED
      BY <2>1, <2>2, <3>1 DEF Received
  <2>5. ASSUME NEW k \in 1 .. m_read_idx' PROVE AsSent(k)'
    <3>1. CASE k <= Len(m_read_buf)
      <4>1. k \in 1 .. Len(m_read_buf)
        BY <1>0, <2>1, <3>1 DEF m_read_idx
      <4>2. AsSent(k)
        BY <1>1, <4>1, ReceivedParts DEF Ended, ReadOnce, m_read_idx
      <4> QED
        BY <2>1, <2>2, <4>1, <4>2 DEF AsSent
    <3>2. CASE k > Len(m_read_buf)
      <4>1. PICK j \in 1 .. n : k = Len(m_read_buf) + j
        <5>1. k - Len(m_read_buf) \in 1 .. n /\ k = Len(m_read_buf) + (k - Len(m_read_buf))
          BY <1>0, <2>1, <2>2, <3>2 DEF m_read_idx
        <5> QED
          BY <5>1
      <4>2. m_read_buf'[k] = wire[j] /\ j \in 1 .. Len(wire)
        BY <1>0, <2>1, <2>2, <4>1
      <4>3. wire[j] = sent[k]
        BY <4>1, <4>2 DEF Received, m_read_idx
      <4> QED
        BY <2>2, <4>2, <4>3 DEF AsSent
    <3> QED
      BY <1>0, <2>1, <2>2, <3>1, <3>2 DEF m_read_idx
  <2> QED
    BY <2>3, <2>4, <2>5 DEF Received, AsSent
<1>2. CASE TakeLine
  <2>1. sent' = sent /\ wire' = wire /\ pc = "loop"
    BY <1>2 DEF TakeLine
  <2>2. \A k \in 1 .. m_read_idx : AsSent(k)
    BY <2>1, ReceivedParts DEF Ended
  <2>3. ASSUME NEW i \in m_checked_idx .. m_read_idx, NEW s \in {"LINE_OPEN", "LINE_BAD"}, Scanned(i, s)
        PROVE  Received'
    <3>1. m_read_buf' = m_read_buf /\ m_checked_idx' = i /\ i \in Nat /\ m_checked_idx <= i
      BY <1>0, <2>3 DEF Scanned
    <3>2. \A k \in Nat : k <= m_checked_idx => k <= i
      BY <1>0, <3>1
    <3>3. \A k \in 1 .. m_read_idx : k \in Nat
      BY <1>0 DEF m_read_idx
    <3>4. \A k \in 1 .. m_read_idx : AsSent(k)'
      BY <2>1, <2>2, <3>1, <3>2, <3>3, Zenon DEF AsSent
    <3> QED
      BY <2>1, <3>1, <3>4 DEF Received, AsSent, m_read_idx
  <2>4. ASSUME NEW i \in 0 .. m_read_idx - 2, LineFound(i), Cell(i) = CR, Cell(i + 1) = LF, m_checked_idx <= i + 1
        PROVE  Received'
    <3>1. /\ Len(m_read_buf') = Len(m_read_buf) /\ m_checked_idx' = i + 2
          /\ \A k \in 1 .. Len(m_read_buf) :
               m_read_buf'[k] = IF k \in {i + 1, i + 2} THEN NUL ELSE m_read_buf[k]
      BY <2>4, LineFoundEffect DEF LineFound
    <3>2. i \in Nat /\ i + 1 \in 1 .. m_read_idx /\ i + 2 \in 1 .. m_read_idx /\ (i + 1) + 1 = i + 2
      BY <1>0 DEF m_read_idx
    <3>3. sent[i + 1] = CR /\ sent[i + 2] = LF
      <4>1. m_read_buf[i + 1] = CR /\ m_read_buf[i + 2] = LF
        BY <2>4, <3>2 DEF Cell
      <4> QED
        BY <2>2, <3>2, <4>1 DEF AsSent, CR, LF, NUL
    <3>4. ASSUME NEW k \in 1 .. m_read_idx PROVE AsSent(k)'
      <4>1. CASE k \in {i + 1, i + 2}
        <5>1. m_read_buf'[k] = NUL /\ sent[k] \in {CR, LF} /\ k <= m_checked_idx'
          BY <3>1, <3>2, <3>3, <4>1 DEF m_read_idx
        <5> QED
          BY <2>1, <5>1 DEF AsSent
      <4>2. CASE k \notin {i + 1, i + 2}
        <5>1. m_read_buf'[k] = m_read_buf[k]
          BY <3>1, <4>2 DEF m_read_idx
        <5>2. k <= m_checked_idx => k <= m_checked_idx'
          BY <1>0, <2>4, <3>1, <3>2
        <5>3. AsSent(k)
          BY <2>2
        <5> QED
          BY <2>1, <5>1, <5>2, <5>3, Zenon DEF AsSent
      <4> QED
        BY <4>1, <4>2
    <3> QED
      BY <2>1, <3>1, <3>4 DEF Received, AsSent, m_read_idx
  <2> QED
    BY <1>2, <2>3, <2>4, ParseLineCases DEF TakeLine
<1>3. CASE ParseRequestLine
  <2>1. sent' = sent /\ wire' = wire /\ m_checked_idx' = m_checked_idx /\ pc = "parse"
    BY <1>3 DEF ParseRequestLine
  <2>2. \A k \in 1 .. m_read_idx : AsSent(k)
    BY <2>1, ReceivedParts DEF Ended
  <2>3. /\ Len(m_read_buf') = Len(m_read_buf) /\ 2 \in 1 .. Len(m_read_buf) /\ 2 <= m_checked_idx
        /\ \A k \in 1 .. Len(m_read_buf) :
             \/ m_read_buf'[k] = m_read_buf[k]
             \/ k = 2 /\ m_read_buf'[2] = "other" /\ m_read_buf[2] = NUL /\ Cell(0) \in Slash
    BY <1>3, JudgeEffect
  <2>4. ASSUME NEW k \in 1 .. m_read_idx PROVE AsSent(k)'
    <3>1. CASE m_read_buf'[k] = m_read_buf[k]
      BY <2>1, <2>2, <3>1, Zenon DEF AsSent
    <3>2. CASE m_read_buf'[k] # m_read_buf[k]
      <4>1. k = 2 /\ m_read_buf'[2] = "other" /\ m_read_buf[2] = NUL /\ Cell(0) \in Slash
        BY <2>3, <3>2 DEF m_read_idx
      <4>2. sent[2] # NUL
        <5>1. sent \in Seq(Cells \ {NUL}) /\ Len(sent) = m_read_idx + Len(wire)
          BY HttpParseAssumption DEF Received
        <5>2. 2 \in 1 .. Len(sent)
          BY <1>0, <2>3, <5>1 DEF m_read_idx
        <5> QED
          BY <5>1, <5>2
      <4>3. sent[2] \in {CR, LF}
        BY <2>2, <2>3, <4>1, <4>2 DEF AsSent, m_read_idx
      <4>4. sent[1] \in Slash
        <5>1. 0 \in 0 .. m_read_idx - 1 /\ 0 + 1 = 1
          BY <1>0, <2>3 DEF m_read_idx
        <5>2. Cell(0) \notin {NUL, "other"}
          BY <4>1 DEF Slash, NUL
        <5> QED
          BY <2>1, <4>1, <5>1, <5>2, CellSent
      <4> QED
        BY <2>1, <2>3, <4>1, <4>3, <4>4, Zenon DEF AsSent
    <3> QED
      BY <3>1, <3>2
  <2> QED
    BY <2>1, <2>3, <2>4 DEF Received, AsSent, m_read_idx
<1>4. CASE ParseContent /\ Terminate
  <2>1. sent' = sent /\ wire' = wire /\ m_checked_idx' = m_checked_idx /\ pc = "parse"
    BY <1>4 DEF ParseContent
  <2>2. \A k \in 1 .. m_read_idx : AsSent(k)
    BY <2>1, ReceivedParts DEF Ended
  <2>3. /\ Len(m_read_buf') = Len(m_read_buf)
        /\ \A k \in 1 .. Len(m_read_buf) :
             \/ m_read_buf'[k] = m_read_buf[k]
             \/ k = text + m_content_length + 1 /\ m_read_buf'[k] = NUL
    BY <1>4, TerminateEffect
  <2>4. /\ pc' \in {"answer", "faulted"} /\ result' = "GET_REQUEST" /\ m_check_state' = "CONTENT"
        /\ text' = text /\ m_content_length' = m_content_length
    BY <1>4, Zenon DEF ParseContent, Terminate, parsed
  <2>5. ASSUME NEW k \in 1 .. m_read_idx PROVE AsSent(k)' \/ Ended(k)'
    <3>1. CASE m_read_buf'[k] = m_read_buf[k]
      BY <2>1, <2>2, <3>1, Zenon DEF AsSent
    <3>2. CASE m_read_buf'[k] # m_read_buf[k]
      <4>1. k = text + m_content_length + 1 /\ m_read_buf'[k] = NUL
        BY <2>3, <3>2 DEF m_read_idx
      <4> QED
        BY <2>4, <4>1 DEF Ended
    <3> QED
      BY <3>1, <3>2
  <2> QED
    BY <2>1, <2>3, <2>5, Zenon DEF Received, AsSent, m_read_idx
<1>5. CASE Answered /\ m_linger
  <2>1. sent' \in Requests /\ wire' = sent' /\ m_read_buf' = <<>>
    BY <1>5 DEF Answered, Renewed
  <2>2. Len(sent') \in Nat /\ Len(m_read_buf') = 0
    BY <2>1, HttpParseAssumption
  <2> QED
    BY <2>1, <2>2 DEF Received, m_read_idx
<1>6. CASE (Answered /\ ~ m_linger) \/ UNCHANGED vars
  <2>1. /\ sent' = sent /\ wire' = wire /\ m_read_buf' = m_read_buf /\ m_checked_idx' = m_checked_idx
        /\ text' = text /\ m_content_length' = m_content_length /\ result' = result /\ m_check_state' = m_check_state
    BY <1>6, Zenon DEF Answered, vars, place, parsed
  <2>2. pc \notin {"recv", "loop", "parse"} => pc' \notin {"recv", "loop", "parse"}
    BY <1>6 DEF Answered, vars
  <2>3. m_read_idx' = m_read_idx
    BY <2>1 DEF m_read_idx
  <2>4. ASSUME NEW k \in 1 .. m_read_idx PROVE AsSent(k)' \/ Ended(k)'
    <3>1. AsSent(k) \/ Ended(k)
      BY ReceivedParts
    <3>2. AsSent(k) => AsSent(k)'
      BY <2>1, Zenon DEF AsSent
    <3>3. Ended(k) => Ended(k)'
      BY <2>1, <2>2, Zenon DEF Ended
    <3> QED
      BY <3>1, <3>2, <3>3
  <2> QED
    BY <2>1, <2>3, <2>4, Zenon DEF Received, AsSent
<1>7. CASE ReadOnceFull \/ TakeContent \/ ParseHeaders \/ (ParseContent /\ ~ Terminate)
  <2>1. sent' = sent /\ wire' = wire /\ m_read_buf' = m_read_buf /\ m_checked_idx' = m_checked_idx
    BY <1>7, Zenon DEF ReadOnceFull, TakeContent, ParseHeaders, ParseContent, place
  <2>2. pc \in {"recv", "loop", "parse"}
    BY <1>7 DEF ReadOnceFull, TakeContent, ParseHeaders, ParseContent
  <2>3. m_read_idx' = m_read_idx
    BY <2>1 DEF m_read_idx
  <2>4. \A k \in 1 .. m_read_idx : AsSent(k)
    BY <2>2, ReceivedParts DEF Ended
  <2>5. \A k \in 1 .. m_read_idx : AsSent(k)'
    BY <2>1, <2>4, Zenon DEF AsSent
  <2> QED
    BY <2>1, <2>3, <2>5, Zenon DEF Received, AsSent
<1> QED
  BY <1>1, <1>2, <1>3, <1>4, <1>5, <1>6, <1>7 DEF Next

\* The request line is the first one, so the method is the first cell of the request.
LEMMA MethodStep ==
  ASSUME TypeOK, InBuffer, Received, FirstLine, MethodSent, [Next]_vars
  PROVE  FirstLine' /\ MethodSent'
<1>1. ASSUME NEW n \in 1 .. Len(wire), ReadOnce(n) PROVE FirstLine' /\ MethodSent'
  BY <1>1 DEF ReadOnce, parsed, FirstLine, MethodSent
<1>2. CASE ReadOnceFull \/ ParseContent \/ TakeContent \/ UNCHANGED vars
  <2>1. sent' = sent /\ m_check_state' = m_check_state /\ m_method' = m_method
    BY <1>2, Zenon DEF ReadOnceFull, ParseContent, TakeContent, vars, parsed
  <2>2. FirstLine'
    <3>1. CASE ReadOnceFull \/ UNCHANGED vars
      BY <2>1, <3>1 DEF ReadOnceFull, vars, place, FirstLine
    <3>2. CASE ParseContent \/ TakeContent
      BY <2>1, <3>2 DEF ParseContent, TakeContent, FirstLine
    <3> QED
      BY <1>2, <3>1, <3>2
  <2> QED
    BY <2>1, <2>2 DEF MethodSent
<1>3. CASE TakeLine
  <2>1. sent' = sent /\ m_check_state' = m_check_state /\ m_method' = m_method
    BY <1>3, Zenon DEF TakeLine, parsed
  <2>2. pc = "loop"
    BY <1>3 DEF TakeLine
  <2>3. ASSUME NEW i \in m_checked_idx .. m_read_idx, NEW s \in {"LINE_OPEN", "LINE_BAD"}, Scanned(i, s)
        PROVE  FirstLine'
    <3>1. pc' = "recv" /\ m_start_line' = m_start_line
      BY <1>3, <2>3 DEF TakeLine, Leave, Scanned
    <3> QED
      BY <2>1, <2>2, <3>1 DEF FirstLine
  <2>4. ASSUME NEW i \in 0 .. m_read_idx - 2, LineFound(i)
        PROVE  FirstLine'
    <3>1. pc' = "parse" /\ text' = m_start_line /\ m_start_line' = i + 2
      BY <1>3, <2>4 DEF TakeLine, EnterBody, LineFound
    <3>2. m_read_idx \in Nat /\ m_read_idx = Len(m_read_buf)
      BY DEF TypeOK, m_read_idx
    <3>3. i + 1 \in 1 .. Len(m_read_buf) /\ (i + 2) - 1 = i + 1 /\ 2 <= i + 2
      BY <3>2
    <3>4. m_read_buf'[i + 1] = NUL
      BY <2>4, <3>3, LineFoundEffect
    <3> QED
      BY <2>1, <2>2, <3>1, <3>3, <3>4 DEF FirstLine
  <2>5. FirstLine'
    BY <1>3, <2>3, <2>4, ParseLineCases DEF TakeLine
  <2> QED
    BY <2>1, <2>5 DEF MethodSent
<1>4. CASE ParseRequestLine
  <2>1. text = 0 /\ 0 \in 0 .. m_read_idx - 1 /\ pc = "parse"
    BY <1>4 DEF ParseRequestLine, FirstLine, InBuffer, TypeOK, m_read_idx
  <2>2. CASE Cell(text) \in {"get", "post"} \cup Slash /\ Cell(text + 1) = NUL
    <3>1. Cell(0) \notin {NUL, "other"} /\ 0 + 1 = 1
      BY <2>1, <2>2 DEF NUL, Slash
    <3>2. sent[1] = Cell(0)
      BY <2>1, <3>1, CellSent
    <3>3. sent' = sent /\ m_method' = MethodOf(Cell(text)) /\ m_check_state' = "HEADER"
      BY <1>4, <2>2 DEF ParseRequestLine
    <3> QED
      BY <2>1, <3>2, <3>3 DEF FirstLine, MethodSent
  <2>3. CASE ~ (Cell(text) \in {"get", "post"} \cup Slash /\ Cell(text + 1) = NUL)
    BY <1>4, <2>3 DEF ParseRequestLine, Leave, FirstLine, MethodSent
  <2> QED
    BY <2>2, <2>3
<1>5. CASE ParseHeaders
  <2>1. sent' = sent /\ m_method' = m_method /\ m_check_state = "HEADER" /\ m_check_state' # "REQUESTLINE"
    BY <1>5 DEF ParseHeaders
  <2> QED
    BY <2>1 DEF FirstLine, MethodSent
<1>6. CASE Answered
  <2>1. CASE m_linger
    BY <1>6, <2>1 DEF Answered, Renewed, FirstLine, MethodSent
  <2>2. CASE ~ m_linger
    BY <1>6, <2>2 DEF Answered, parsed, FirstLine, MethodSent
  <2> QED
    BY <2>1, <2>2
<1> QED
  BY <1>1, <1>2, <1>3, <1>4, <1>5, <1>6 DEF Next

\* The connection and the length come from lines of the request.
LEMMA HeadersStep ==
  ASSUME TypeOK, InBuffer, Received, LingerSent, LengthSent, [Next]_vars
  PROVE  LingerSent' /\ LengthSent'
<1>1. CASE ParseHeaders
  <2>1. sent' = sent /\ text \in 0 .. m_read_idx - 1 /\ pc = "parse"
    BY <1>1 DEF ParseHeaders, InBuffer, TypeOK, m_read_idx
  <2>2. Cell(text) \notin {NUL, "other"} => text + 1 \in 1 .. Len(sent) /\ sent[text + 1] = Cell(text)
    BY <2>1, CellSent
  <2>3. NUL # "keep" /\ {NUL, "other"} \cap DOMAIN Lengths = {}
    BY HttpParseAssumption DEF NUL, Plain
  <2>4. LingerSent'
    <3>1. CASE Cell(text) = "keep"
      BY <2>1, <2>2, <2>3, <3>1 DEF LingerSent
    <3>2. CASE Cell(text) # "keep"
      <4>1. m_linger' => m_linger
        BY <1>1, <3>2 DEF ParseHeaders
      <4> QED
        BY <2>1, <4>1 DEF LingerSent
    <3> QED
      BY <3>1, <3>2
  <2>5. LengthSent'
    <3>1. CASE Cell(text) \in DOMAIN Lengths
      <4>1. m_content_length' = Lengths[Cell(text)]
        BY <1>1, <3>1 DEF ParseHeaders
      <4> QED
        BY <2>1, <2>2, <2>3, <3>1, <4>1 DEF LengthSent
    <3>2. CASE Cell(text) \notin DOMAIN Lengths
      <4>1. m_content_length' = m_content_length
        BY <1>1, <3>2 DEF ParseHeaders
      <4> QED
        BY <2>1, <4>1 DEF LengthSent
    <3> QED
      BY <3>1, <3>2
  <2> QED
    BY <2>4, <2>5
<1>2. CASE Answered /\ m_linger
  <2>1. m_linger' = FALSE /\ m_content_length' = 0
    BY <1>2, Zenon DEF Answered, Renewed
  <2> QED
    BY <2>1 DEF LingerSent, LengthSent
<1>3. CASE \/ \E n \in 1 .. Len(wire) : ReadOnce(n)
           \/ ReadOnceFull \/ TakeContent \/ TakeLine \/ ParseRequestLine \/ ParseContent
           \/ (Answered /\ ~ m_linger) \/ UNCHANGED vars
  <2>1. sent' = sent /\ m_linger' = m_linger /\ m_content_length' = m_content_length
    BY <1>3, Zenon DEF ReadOnce, ReadOnceFull, TakeContent, TakeLine, ParseRequestLine, ParseContent, Answered, vars, parsed
  <2> QED
    BY <2>1 DEF LingerSent, LengthSent
<1> QED
  BY <1>1, <1>2, <1>3 DEF Next

LEMMA InitIInv == Init => IInv
<1> SUFFICES ASSUME Init PROVE IInv
  OBVIOUS
<1>1. sent \in Requests /\ wire = sent /\ pc = "recv" /\ m_read_buf = <<>>
  BY Zenon DEF Init, Fresh
<1>2. sent \in Seq(Cells) /\ wire \in Seq(Cells) /\ m_read_buf \in Seq(Cells) /\ Len(m_read_buf) = 0 /\ Len(sent) \in Nat
  BY <1>1, HttpParseAssumption
<1>3. m_checked_idx = 0 /\ m_start_line = 0 /\ text = 0 /\ m_content_length = 0
  BY Zenon DEF Init, Fresh
<1>4. /\ m_check_state = "REQUESTLINE" /\ m_method = "get" /\ m_linger = FALSE
      /\ line_status = "LINE_OK" /\ result = "NO_REQUEST" /\ split = FALSE
  BY Zenon DEF Init, Fresh
<1>5. /\ m_checked_idx \in 0 .. Len(m_read_buf) /\ m_start_line \in 0 .. m_checked_idx /\ text \in 0 .. Len(m_read_buf)
      /\ m_content_length \in Int
  BY <1>2, <1>3
<1>6. TypeOK
  BY <1>1, <1>2, <1>4, <1>5, Zenon DEF TypeOK
<1>7. InBuffer /\ Received
  BY <1>1, <1>2, HttpParseAssumption DEF InBuffer, Received, m_read_idx
<1>8. FirstLine /\ MethodSent /\ LingerSent /\ LengthSent
  BY <1>1, <1>3, <1>4 DEF FirstLine, MethodSent, LingerSent, LengthSent
<1> QED
  BY <1>6, <1>7, <1>8 DEF IInv

\* The invariant holds in every reachable state.
LEMMA Invariance == Spec => []IInv
<1>1. IInv /\ [Next]_vars => IInv'
  BY TypeStep, ReceivedStep, MethodStep, HeadersStep DEF IInv
<1> QED
  BY <1>1, InitIInv, PTL DEF Spec
-----------------------------------------------------------------------------
\* The members of http_conn keep their types; m_start_line <= m_checked_idx <=
\* m_read_idx, and text points into the buffer (parse_line, get_line,
\* http_conn.cpp), whatever was sent and however recv cut it.
THEOREM TypeCorrect == Spec => []TypeOK
<1>1. IInv => TypeOK
  BY DEF IInv
<1> QED
  BY <1>1, Invariance, PTL

\* Whatever is sent, recv never writes behind the end of m_read_buf, and a line
\* handed to parse_request_line or parse_headers has a cell.  The body that
\* parse_content accepts, text to text + m_content_length, has all been received,
\* so that the NUL of http_conn.cpp:377 falls on the cell behind it, at most the one
\* behind a full m_read_buf, unless its length is negative or the sum of line 375
\* overflows; the write can only fault in these two cases.
THEOREM StaysInBuffer == Spec => []InBuffer
<1>1. IInv => InBuffer
  BY DEF IInv
<1> QED
  BY <1>1, Invariance, PTL

\* Whatever recv returns and wherever the scan is taken up again, m_read_buf holds
\* the request as sent, but for what the parser writes into it: NULs over the CR and
\* LF of lines it has ended, the page that replaces one of them behind a lone slash
\* (line 316), and the one NUL of an accepted body (line 377).  No other cell is lost,
\* doubled or moved between calls.
THEOREM NothingLost == Spec => []Received
<1>1. IInv => Received
  BY DEF IInv
<1> QED
  BY <1>1, Invariance, PTL

\* The method, the connection header and the length that process_read has found are
\* those of lines of the request it is reading, never of an earlier one on the same
\* connection: init() forgets all of them.
THEOREM ParsedFromRequest == Spec => [](MethodSent /\ LingerSent /\ LengthSent)
<1>1. IInv => MethodSent /\ LingerSent /\ LengthSent
  BY DEF IInv
<1> QED
  BY <1>1, Invariance, PTL
-----------------------------------------------------------------------------
(* Well-formed requests *)

HeadEnd == HeadLen(sent)

\* Where a line of the head starts, and where its CR is, as indices of the buffer.
LineStart(s) == s \in 0 .. HeadEnd - 1 /\ (s = 0 \/ sent[s] = LF)
CRof(s)      == IF sent[s + 1] = CR THEN s ELSE s + 1

\* What the first m cells of the request say.
Keeps(m) == \E k \in 1 .. m : sent[k] = "keep"
Sized(m) == \E k \in 1 .. m : sent[k] \in DOMAIN Lengths

\* The line that is looked for or parsed.
Line == IF pc = "parse" THEN text ELSE m_start_line

InHead == m_check_state # "CONTENT" /\ pc \in {"recv", "loop", "parse"}

\* In the head the scan stays between the start of the line and its CR, and waits
\* for more only when CR or LF have not arrived.
HeadPlace == InHead =>
  /\ LineStart(Line)
  /\ m_check_state = "HEADER" <=> Line > 0
  /\ pc # "parse" => m_checked_idx <= CRof(m_start_line)
  /\ pc = "recv" => m_read_idx <= CRof(m_start_line) + 1
  /\ pc = "parse" => /\ m_start_line = CRof(text) + 2 /\ line_status = "LINE_OK"
                     /\ Cell(text) = IF sent[text + 1] = CR THEN NUL ELSE sent[text + 1]

\* The lines in front of it have been taken into account, and no others.
HeadRead == InHead =>
  /\ m_linger <=> Keeps(Line)
  /\ Sized(Line) => m_content_length = Len(sent) - HeadEnd
  /\ ~ Sized(Line) => m_content_length = 0

\* Behind the head, all of it has.  Unless the body came in pieces, the scan has
\* not gone on into it, and waits only when none of it is there.
BodyPlace == m_check_state = "CONTENT" /\ pc # "closed" =>
  /\ HeadEnd < Len(sent)
  /\ m_linger <=> Keeps(HeadEnd)
  /\ m_content_length = Len(sent) - HeadEnd
  /\ m_start_line >= HeadEnd
  /\ pc = "parse" => text >= HeadEnd
  /\ ~ split => m_checked_idx = HeadEnd
  /\ ~ split /\ pc = "loop" /\ line_status # "LINE_OK" => m_read_idx < Len(sent)
  /\ ~ split /\ pc = "recv" => m_read_idx = HeadEnd

InOnePiece == ~ split => m_read_idx <= HeadEnd \/ m_read_idx = Len(sent)

\* No well-formed request is refused.
Accepted == pc = "answer" => result = "GET_REQUEST"

\* The inductive invariant for well-formed requests.
Follows == HeadPlace /\ HeadRead /\ BodyPlace /\ InOnePiece /\ Accepted /\ ParsedAsSent
WInv == WellFormed(sent) => Follows

\* Four cells in a row, one by one.
LEMMA FourCells ==
  ASSUME NEW r \in Seq(Cells), NEW j \in 4 .. Len(r)
  PROVE  SubSeq(r, j - 3, j) = <<CR, LF, CR, LF>>
           <=> r[j - 3] = CR /\ r[j - 2] = LF /\ r[j - 1] = CR /\ r[j] = LF
<1> DEFINE s == SubSeq(r, j - 3, j)
<1>1. s \in Seq(Cells) /\ Len(s) = 4
  OBVIOUS
<1>2. s[1] = r[j - 3] /\ s[2] = r[j - 2] /\ s[3] = r[j - 1] /\ s[4] = r[j]
  OBVIOUS
<1>3. <<CR, LF, CR, LF>> \in Seq(Cells) /\ Len(<<CR, LF, CR, LF>>) = 4
  BY DEF Cells, Plain
<1> HIDE DEF s
<1>4. s = <<CR, LF, CR, LF>> <=> s[1] = CR /\ s[2] = LF /\ s[3] = CR /\ s[4] = LF
  <2>1. ASSUME s[1] = CR, s[2] = LF, s[3] = CR, s[4] = LF PROVE s = <<CR, LF, CR, LF>>
    <3>1. \A i \in 1 .. 4 : s[i] = <<CR, LF, CR, LF>>[i]
      BY <2>1
    <3> QED
      BY <1>1, <1>3, <3>1, SeqEqual
  <2> QED
    BY <2>1
<1> QED
  BY <1>2, <1>4 DEF s

\* The head ends with the first empty line.
LEMMA HeadIsFirst ==
  ASSUME NEW r \in Seq(Cells), NEW j \in 4 .. Len(r),
         r[j - 3] = CR, r[j - 2] = LF, r[j - 1] = CR, r[j] = LF
  PROVE  HeadLen(r) <= j
<1> DEFINE ends == {i \in 5 .. Len(r) + 1 : SubSeq(r, i - 4, i - 1) = <<CR, LF, CR, LF>>} \cup {Len(r) + 1}
<1>1. Len(r) \in Nat /\ j \in Nat
  OBVIOUS
<1>2. SubSeq(r, j - 3, j) = <<CR, LF, CR, LF>>
  BY FourCells
<1>3. j + 1 \in 5 .. Len(r) + 1 /\ (j + 1) - 4 = j - 3 /\ (j + 1) - 1 = j
  BY <1>1
<1>4. j + 1 \in ends
  BY <1>2, <1>3
<1>5. ends \subseteq Nat
  BY <1>1
<1>6. BodyStart(r) = Min(ends)
  BY DEF BodyStart
<1> HIDE DEF ends
<1>7. Min(ends) \in Nat /\ Min(ends) <= j + 1
  BY <1>4, <1>5, MinOfNats
<1> QED
  BY <1>1, <1>6, <1>7 DEF HeadLen

LEMMA BodyStartIsNat ==
  ASSUME NEW r \in Seq(Cells)
  PROVE  BodyStart(r) \in Nat
<1> DEFINE ends == {i \in 5 .. Len(r) + 1 : SubSeq(r, i - 4, i - 1) = <<CR, LF, CR, LF>>} \cup {Len(r) + 1}
<1>1. ends \subseteq Nat /\ ends # {}
  OBVIOUS
<1>2. BodyStart(r) = Min(ends)
  BY DEF BodyStart
<1> HIDE DEF ends
<1> QED
  BY <1>1, <1>2, MinOfNats

\* What is known of a well-formed request.
LEMMA HeadFacts ==
  ASSUME TypeOK, WellFormed(sent)
  PROVE  /\ sent \in Seq(Cells) /\ Len(sent) \in Nat /\ HeadEnd \in Nat /\ 5 <= HeadEnd /\ HeadEnd <= Len(sent)
         /\ sent[1] \in {"get", "post"} \cup Slash
         /\ sent[HeadEnd - 2] = LF /\ sent[HeadEnd] = LF
         /\ \A k \in 1 .. HeadEnd - 1 : sent[k] = CR <=> sent[k + 1] = LF
         /\ \A k \in 1 .. HeadEnd - 1 : sent[k] \notin {CR, LF} => sent[k + 1] = CR
BY DEF TypeOK, WellFormed, HeadEnd

\* What WellFormed says of the request as a whole.
LEMMA EndsWithEmptyLine ==
  ASSUME TypeOK, WellFormed(sent)
  PROVE  HasEmptyLine(sent)
<1>1. sent \in Seq(Cells) /\ Len(sent) \in Nat /\ HeadEnd \in Nat /\ 5 <= HeadEnd /\ HeadEnd <= Len(sent)
  BY HeadFacts
<1>2. sent[HeadEnd - 3] = CR /\ sent[HeadEnd - 2] = LF /\ sent[HeadEnd - 1] = CR /\ sent[HeadEnd] = LF
  BY DEF WellFormed, HeadEnd
<1>3. BodyStart(sent) - 1 = HeadEnd /\ BodyStart(sent) \in Nat
  BY <1>1, BodyStartIsNat DEF HeadEnd, HeadLen
<1>4. CASE HeadEnd < Len(sent)
  BY <1>1, <1>3, <1>4 DEF HasEmptyLine
<1>5. CASE HeadEnd = Len(sent)
  <2>1. Len(sent) \in 4 .. Len(sent)
    BY <1>1, <1>5
  <2> QED
    BY <1>1, <1>2, <1>5, <2>1, FourCells DEF HasEmptyLine
<1> QED
  BY <1>1, <1>4, <1>5

\* What SubSeq gives for the cells after the first h.
LEMMA RestOf ==
  ASSUME NEW S, NEW q \in Seq(S), NEW h \in Nat, NEW l \in Nat, Len(q) = h + l
  PROVE  /\ SubSeq(q, h + 1, h + l) \in Seq(S) /\ Len(SubSeq(q, h + 1, h + l)) = l
         /\ \A k \in 1 .. l : SubSeq(q, h + 1, h + l)[k] = q[h + k]
<1>1. \A i \in h + 1 .. h + l : i \in 1 .. Len(q)
  OBVIOUS
<1>2. Len(SubSeq(q, h + 1, h + l)) = l
  OBVIOUS
<1>3. \A k \in 1 .. l : SubSeq(q, h + 1, h + l)[k] = q[h + k]
  OBVIOUS
<1>4. SubSeq(q, h + 1, h + l) \in Seq(S)
  BY <1>1
<1> QED
  BY <1>2, <1>3, <1>4

LEMMA BodyIsRest ==
  ASSUME TypeOK, WellFormed(sent)
  PROVE  /\ BodyOf(sent) \in Seq(Cells) /\ Len(BodyOf(sent)) = Len(sent) - HeadEnd
         /\ \A k \in 1 .. Len(sent) - HeadEnd : BodyOf(sent)[k] = sent[HeadEnd + k]
<1>1. sent \in Seq(Cells) /\ Len(sent) \in Nat /\ HeadEnd \in Nat /\ 5 <= HeadEnd /\ HeadEnd <= Len(sent)
  BY HeadFacts
<1>2. BodyStart(sent) = HeadEnd + 1
  BY <1>1, BodyStartIsNat DEF HeadEnd, HeadLen
<1>3. BodyOf(sent) = SubSeq(sent, HeadEnd + 1, Len(sent))
  BY <1>2 DEF BodyOf
<1>4. PICK h \in Nat : h = HeadEnd
  BY <1>1
<1>5. /\ SubSeq(sent, h + 1, Len(sent)) \in Seq(Cells) /\ Len(SubSeq(sent, h + 1, Len(sent))) = Len(sent) - h
      /\ \A k \in 1 .. Len(sent) - h : SubSeq(sent, h + 1, Len(sent))[k] = sent[h + k]
  BY <1>1, <1>4
<1> QED
  BY <1>3, <1>4, <1>5

\* A line of the head is its CR and LF, or a text, its CR and LF.
LEMMA LineShape ==
  ASSUME TypeOK, WellFormed(sent), NEW s, LineStart(s)
  PROVE  /\ s \in Nat /\ CRof(s) \in Nat /\ s <= CRof(s) /\ CRof(s) <= s + 1 /\ CRof(s) + 2 <= HeadEnd
         /\ sent[CRof(s) + 1] = CR /\ sent[CRof(s) + 2] = LF
         /\ sent[s + 1] # CR => CRof(s) = s + 1 /\ sent[s + 1] # LF
         /\ sent[s + 1] = CR => CRof(s) = s
<1>0. CR # LF /\ CR \notin {"get", "post"} \cup Slash /\ LF \notin {"get", "post"} \cup Slash
  BY DEF CR, LF, Slash
<1>1. /\ HeadEnd \in Nat /\ sent[HeadEnd] = LF /\ sent[1] \in {"get", "post"} \cup Slash
      /\ \A k \in 1 .. HeadEnd - 1 : sent[k] = CR <=> sent[k + 1] = LF
      /\ \A k \in 1 .. HeadEnd - 1 : sent[k] \notin {CR, LF} => sent[k + 1] = CR
  BY HeadFacts
<1>2. s \in Nat /\ s + 1 <= HeadEnd
  BY <1>1 DEF LineStart
<1>3. sent[s + 1] # LF
  <2>1. CASE s = 0
    BY <1>0, <1>1, <2>1
  <2>2. CASE s # 0
    <3>1. s \in 1 .. HeadEnd - 1 /\ sent[s] = LF
      BY <1>1, <1>2, <2>2 DEF LineStart
    <3> QED
      BY <1>0, <1>1, <3>1
  <2> QED
    BY <2>1, <2>2
<1>4. s + 1 \in 1 .. HeadEnd - 1
  <2>1. s + 1 # HeadEnd
    BY <1>1, <1>3
  <2> QED
    BY <1>1, <1>2, <2>1
<1>5. CASE sent[s + 1] = CR
  <2>1. CRof(s) = s /\ sent[(s + 1) + 1] = LF /\ (s + 1) + 1 = s + 2
    BY <1>1, <1>2, <1>4, <1>5 DEF CRof
  <2> QED
    BY <1>1, <1>2, <1>4, <1>5, <2>1
<1>6. CASE sent[s + 1] # CR
  <2>1. CRof(s) = s + 1 /\ sent[(s + 1) + 1] = CR /\ (s + 1) + 1 = s + 2
    BY <1>1, <1>2, <1>3, <1>4, <1>6 DEF CRof
  <2>2. s + 2 \in 1 .. HeadEnd - 1
    <3>1. s + 2 # HeadEnd
      BY <1>0, <1>1, <2>1
    <3> QED
      BY <1>1, <1>2, <1>4, <3>1
  <2>3. sent[(s + 2) + 1] = LF /\ (s + 2) + 1 = s + 3 /\ (s + 1) + 2 = s + 3
    BY <1>1, <1>2, <2>1, <2>2
  <2> QED
    BY <1>1, <1>2, <1>3, <1>6, <2>1, <2>2, <2>3
<1> QED
  BY <1>5, <1>6

\* Behind a line with a text there is another one.
LEMMA TextNotLast ==
  ASSUME TypeOK, WellFormed(sent), NEW s, LineStart(s), sent[s + 1] # CR
  PROVE  LineStart(CRof(s) + 2)
<1>1. /\ s \in Nat /\ CRof(s) = s + 1 /\ CRof(s) + 2 <= HeadEnd /\ sent[CRof(s) + 2] = LF /\ sent[s + 1] # LF
  BY LineShape
<1>2. HeadEnd \in Nat /\ sent[HeadEnd - 2] = LF
  BY HeadFacts
<1>3. CRof(s) + 2 # HeadEnd
  <2> SUFFICES ASSUME CRof(s) + 2 = HeadEnd PROVE FALSE
    OBVIOUS
  <2>1. HeadEnd - 2 = s + 1
    BY <1>1, <1>2
  <2> QED
    BY <1>1, <1>2, <2>1
<1>4. CRof(s) + 2 \in 0 .. HeadEnd - 1
  BY <1>1, <1>2, <1>3
<1> QED
  BY <1>1, <1>4 DEF LineStart

\* The empty line is the last one.
LEMMA EmptyIsLast ==
  ASSUME TypeOK, WellFormed(sent), NEW s, LineStart(s), s # 0, sent[s + 1] = CR
  PROVE  s + 2 = HeadEnd
<1>1. s \in Nat /\ CRof(s) = s /\ s + 2 <= HeadEnd /\ sent[s + 2] = LF
  BY LineShape
<1>2. /\ sent \in Seq(Cells) /\ Len(sent) \in Nat /\ HeadEnd \in Nat /\ HeadEnd <= Len(sent) /\ sent[1] \in {"get", "post"} \cup Slash
      /\ \A k \in 1 .. HeadEnd - 1 : sent[k] = CR <=> sent[k + 1] = LF
  BY HeadFacts
<1>3. sent[s] = LF
  BY DEF LineStart
<1>4. s # 1
  BY <1>2, <1>3 DEF LF, Slash
<1>5. sent[s - 1] = CR
  <2>1. s - 1 \in 1 .. HeadEnd - 1 /\ (s - 1) + 1 = s
    BY <1>1, <1>2, <1>4
  <2> QED
    BY <1>2, <1>3, <2>1
<1>6. s + 2 \in 4 .. Len(sent) /\ (s + 2) - 3 = s - 1 /\ (s + 2) - 2 = s /\ (s + 2) - 1 = s + 1
  BY <1>1, <1>2, <1>4
<1>7. HeadLen(sent) <= s + 2
  BY <1>1, <1>2, <1>3, <1>5, <1>6, HeadIsFirst
<1> QED
  BY <1>1, <1>2, <1>7 DEF HeadEnd

\* A line adds what its text says.
LEMMA LineSays ==
  ASSUME TypeOK, WellFormed(sent), NEW s, LineStart(s)
  PROVE  /\ Keeps(CRof(s) + 2) <=> Keeps(s) \/ sent[s + 1] = "keep"
         /\ Sized(CRof(s) + 2) <=> Sized(s) \/ sent[s + 1] \in DOMAIN Lengths
<1>1. /\ s \in Nat /\ CRof(s) \in Nat /\ s <= CRof(s) /\ CRof(s) <= s + 1
      /\ sent[CRof(s) + 1] = CR /\ sent[CRof(s) + 2] = LF
  BY LineShape
<1>2. {CR, LF} \cap ({"keep"} \cup DOMAIN Lengths) = {}
  BY HttpParseAssumption DEF CR, LF, Plain
<1>3. ASSUME NEW k \in 1 .. CRof(s) + 2 PROVE k \in 1 .. s \/ k = s + 1 \/ sent[k] \in {CR, LF}
  <2>1. k \in 1 .. s \/ k = s + 1 \/ k = CRof(s) + 1 \/ k = CRof(s) + 2
    BY <1>1
  <2> QED
    BY <1>1, <2>1
<1>4. s + 1 \in 1 .. CRof(s) + 2 /\ 1 .. s \subseteq 1 .. CRof(s) + 2
  BY <1>1
<1>5. Keeps(CRof(s) + 2) <=> Keeps(s) \/ sent[s + 1] = "keep"
  BY <1>2, <1>3, <1>4 DEF Keeps
<1>6. Sized(CRof(s) + 2) <=> Sized(s) \/ sent[s + 1] \in DOMAIN Lengths
  BY <1>2, <1>3, <1>4 DEF Sized
<1> QED
  BY <1>5, <1>6

\* In the head parse_line ends the line it is in, or has not got all of it.
LEMMA ScanHead ==
  ASSUME TypeOK, Received, WellFormed(sent), pc = "loop",
         LineStart(m_start_line), m_checked_idx <= CRof(m_start_line), ParseLine
  PROVE  \/ /\ \E i \in m_checked_idx .. m_read_idx : i <= CRof(m_start_line) /\ Scanned(i, "LINE_OPEN")
            /\ m_read_idx <= CRof(m_start_line) + 1
         \/ CRof(m_start_line) \in 0 .. m_read_idx - 2 /\ LineFound(CRof(m_start_line))
<1>1. PICK s, c : s = m_start_line /\ c = CRof(m_start_line)
  OBVIOUS
<1>2. /\ s \in Nat /\ c \in Nat /\ s <= c /\ c <= s + 1
      /\ sent[c + 1] = CR /\ sent[c + 2] = LF
      /\ c # s => sent[s + 1] \notin {CR, LF}
  BY <1>1, LineShape
<1>3. /\ m_read_idx \in Nat /\ m_checked_idx \in Nat /\ m_checked_idx <= m_read_idx
      /\ s <= m_checked_idx /\ m_checked_idx <= c
  BY <1>1 DEF TypeOK, m_read_idx
<1>4. \A i \in m_checked_idx .. m_read_idx - 1 : Cell(i) = sent[i + 1]
  <2> SUFFICES ASSUME NEW i \in m_checked_idx .. m_read_idx - 1 PROVE Cell(i) = sent[i + 1]
    OBVIOUS
  <2>1. i + 1 \in 1 .. m_read_idx /\ ~ (i + 1 <= m_checked_idx)
    BY <1>3
  <2> QED
    BY <2>1 DEF Received, Ended, Cell
<1>5. \A i \in LineEnds : c <= i
  <2> SUFFICES ASSUME NEW i \in LineEnds, ~ (c <= i) PROVE FALSE
    OBVIOUS
  <2>1. i \in m_checked_idx .. m_read_idx - 1 /\ sent[i + 1] \in {CR, LF}
    BY <1>4 DEF LineEnds
  <2>2. i = s /\ c # s
    BY <1>2, <1>3, <2>1
  <2> QED
    BY <1>2, <2>1, <2>2
<1>6. CASE m_read_idx <= c
  <2>1. LineEnds = {}
    <3> SUFFICES ASSUME NEW i \in LineEnds PROVE FALSE
      OBVIOUS
    <3>1. i \in m_checked_idx .. m_read_idx - 1 /\ c <= i
      BY <1>5 DEF LineEnds
    <3> QED
      BY <1>2, <1>3, <1>6, <3>1
  <2>2. Scanned(m_read_idx, "LINE_OPEN") /\ m_read_idx \in m_checked_idx .. m_read_idx /\ m_read_idx <= c + 1
    BY <1>2, <1>3, <1>6, <2>1 DEF ParseLine
  <2> QED
    BY <1>1, <1>6, <2>2
<1>7. CASE c < m_read_idx
  <2>1. c \in m_checked_idx .. m_read_idx - 1
    BY <1>2, <1>3, <1>7
  <2>2. Cell(c) = CR /\ c \in LineEnds
    BY <1>2, <1>4, <2>1 DEF LineEnds
  <2>3. LineEnds \subseteq Nat
    BY <1>3 DEF LineEnds
  <2>4. Min(LineEnds) = c
    <3>1. PICK m \in LineEnds : m = Min(LineEnds)
      BY <2>2, <2>3, MinOfNats
    <3>2. m <= c /\ c <= m /\ m \in Nat
      BY <1>5, <2>2, <2>3, <3>1, MinOfNats
    <3> QED
      BY <1>2, <3>1, <3>2
  <2>5. CASE c + 1 = m_read_idx
    <3>1. Scanned(c, "LINE_OPEN")
      BY <2>2, <2>4, <2>5 DEF ParseLine
    <3>2. c \in m_checked_idx .. m_read_idx /\ c <= c /\ m_read_idx <= c + 1
      BY <1>2, <1>3, <2>1, <2>5
    <3> QED
      BY <1>1, <3>1, <3>2
  <2>6. CASE c + 1 # m_read_idx
    <3>1. c + 1 \in m_checked_idx .. m_read_idx - 1 /\ (c + 1) + 1 = c + 2 /\ c \in 0 .. m_read_idx - 2
      BY <1>2, <1>3, <2>1, <2>6
    <3>2. Cell(c + 1) = LF
      BY <1>2, <1>4, <3>1
    <3>3. LineFound(c)
      BY <2>2, <2>4, <2>6, <3>2 DEF ParseLine
    <3> QED
      BY <1>1, <3>1, <3>3
  <2> QED
    BY <2>5, <2>6
<1> QED
  BY <1>2, <1>3, <1>6, <1>7

\* What is said about the request stays the same while it is read.
LEMMA SameRequest ==
  ASSUME sent' = sent
  PROVE  /\ HeadEnd' = HeadEnd
         /\ \A s : CRof(s)' = CRof(s) /\ (LineStart(s)' <=> LineStart(s))
         /\ \A m : (Keeps(m)' <=> Keeps(m)) /\ (Sized(m)' <=> Sized(m))
<1>1. HeadEnd' = HeadEnd
  BY DEF HeadEnd
<1> QED
  BY <1>1 DEF CRof, LineStart, Keeps, Sized

\* The invariant after a step that stays in the head.
LEMMA HeadNext ==
  ASSUME sent' = sent, pc' \in {"recv", "loop", "parse"}, m_check_state' # "CONTENT", NEW line,
         line = IF pc' = "parse" THEN text' ELSE m_start_line',
         LineStart(line), m_check_state' = "HEADER" <=> line > 0,
         pc' # "parse" => m_checked_idx' <= CRof(line),
         pc' = "recv" => m_read_idx' <= CRof(line) + 1,
         pc' = "parse" => /\ m_start_line' = CRof(line) + 2 /\ line_status' = "LINE_OK"
                          /\ m_read_buf'[line + 1] = IF sent[line + 1] = CR THEN NUL ELSE sent[line + 1],
         m_linger' <=> Keeps(line),
         Sized(line) => m_content_length' = Len(sent) - HeadEnd,
         ~ Sized(line) => m_content_length' = 0,
         InOnePiece'
  PROVE  Follows'
<1>1. HeadPlace'
  BY SameRequest DEF HeadPlace, Line, Cell
<1>2. HeadRead'
  BY SameRequest DEF HeadRead, Line
<1>3. BodyPlace' /\ Accepted' /\ ParsedAsSent'
  BY DEF BodyPlace, Accepted, ParsedAsSent
<1> QED
  BY <1>1, <1>2, <1>3 DEF Follows

\* The invariant after a step that stays behind the head.
LEMMA BodyNext ==
  ASSUME sent' = sent, pc' \in {"recv", "loop", "parse"}, m_check_state' = "CONTENT",
         HeadEnd < Len(sent), m_linger' <=> Keeps(HeadEnd), m_content_length' = Len(sent) - HeadEnd,
         m_start_line' >= HeadEnd, pc' = "parse" => text' >= HeadEnd,
         ~ split' => m_checked_idx' = HeadEnd,
         ~ split' /\ pc' = "loop" /\ line_status' # "LINE_OK" => m_read_idx' < Len(sent),
         ~ split' /\ pc' = "recv" => m_read_idx' = HeadEnd,
         InOnePiece'
  PROVE  Follows'
<1>1. HeadEnd' = HeadEnd /\ (Keeps(HeadEnd)' <=> Keeps(HeadEnd))
  BY DEF HeadEnd, Keeps
<1>2. BodyPlace'
  BY <1>1 DEF BodyPlace
<1>3. HeadPlace' /\ HeadRead'
  BY DEF HeadPlace, HeadRead, InHead
<1>4. Accepted' /\ ParsedAsSent'
  BY DEF Accepted, ParsedAsSent
<1> QED
  BY <1>2, <1>3, <1>4 DEF Follows

\* recv: a new piece leaves the place in the request as it is.
LEMMA ReadFollows ==
  ASSUME IInv, WellFormed(sent), Follows, NEW n \in 1 .. Len(wire), ReadOnce(n)
  PROVE  Follows'
<1>1. /\ pc = "recv" /\ pc' = "loop" /\ line_status' = "LINE_OK" /\ split' = (split \/ Splits(n))
      /\ sent' = sent /\ m_checked_idx' = m_checked_idx /\ m_start_line' = m_start_line
  BY DEF ReadOnce
<1>2. /\ m_check_state' = m_check_state /\ m_content_length' = m_content_length
      /\ m_linger' = m_linger
  BY Zenon DEF ReadOnce, parsed
<1>3. m_read_idx' = m_read_idx + n
  BY ReadEffect DEF IInv, m_read_idx
<1>4. /\ m_read_idx \in Nat /\ Len(wire) \in Nat /\ n \in Nat /\ Len(sent) \in Nat /\ HeadEnd \in Nat
      /\ Len(sent) = m_read_idx + Len(wire) /\ n <= Len(wire)
  BY HeadFacts DEF IInv, TypeOK, Received, m_read_idx
<1>5. InOnePiece'
  <2> SUFFICES ASSUME ~ split' PROVE m_read_idx' <= HeadEnd \/ m_read_idx' = Len(sent)
    BY <1>1 DEF InOnePiece, HeadEnd
  <2>1. ~ Splits(n)
    BY <1>1
  <2>2. BodyStart(sent) - 1 = HeadEnd
    BY DEF HeadEnd, HeadLen
  <2>3. BodyStart(sent) \in Nat
    BY BodyStartIsNat DEF IInv, TypeOK
  <2>4. Len(sent) - Len(wire) + n = m_read_idx'
    BY <1>3, <1>4
  <2>5. ~ (m_read_idx' >= BodyStart(sent) /\ m_read_idx' < Len(sent))
    BY <2>1, <2>4 DEF Splits
  <2> QED
    BY <1>3, <1>4, <2>2, <2>3, <2>5
<1>6. CASE m_check_state # "CONTENT"
  <2>1. InHead /\ Line = m_start_line
    BY <1>1, <1>6 DEF InHead, Line
  <2>2. /\ LineStart(m_start_line) /\ (m_check_state = "HEADER" <=> m_start_line > 0)
        /\ m_checked_idx <= CRof(m_start_line)
        /\ m_linger <=> Keeps(m_start_line)
        /\ Sized(m_start_line) => m_content_length = Len(sent) - HeadEnd
        /\ ~ Sized(m_start_line) => m_content_length = 0
    BY <1>1, <2>1 DEF Follows, HeadPlace, HeadRead
  <2> QED
    BY <1>1, <1>2, <1>5, <1>6, <2>2, HeadNext
<1>7. CASE m_check_state = "CONTENT"
  <2>1. /\ HeadEnd < Len(sent) /\ (m_linger <=> Keeps(HeadEnd)) /\ m_content_length = Len(sent) - HeadEnd
        /\ m_start_line >= HeadEnd /\ (~ split => m_checked_idx = HeadEnd)
    BY <1>1, <1>7 DEF Follows, BodyPlace
  <2> QED
    BY <1>1, <1>2, <1>5, <1>7, <2>1, BodyNext
<1> QED
  BY <1>6, <1>7

\* The head, line by line: found or not yet complete.
LEMMA HeadLineFollows ==
  ASSUME IInv, WellFormed(sent), Follows, TakeLine, m_check_state # "CONTENT"
  PROVE  Follows'
<1>1. /\ sent' = sent /\ wire' = wire /\ split' = split /\ m_check_state' = m_check_state
      /\ m_content_length' = m_content_length /\ m_linger' = m_linger /\ pc = "loop"
  BY Zenon DEF TakeLine, parsed
<1>2. PICK s, c : s = m_start_line /\ c = CRof(m_start_line)
  OBVIOUS
<1>3. /\ LineStart(s) /\ (m_check_state = "HEADER" <=> s > 0)
      /\ m_checked_idx <= c
      /\ m_linger <=> Keeps(s)
      /\ Sized(s) => m_content_length = Len(sent) - HeadEnd
      /\ ~ Sized(s) => m_content_length = 0
  <2>1. InHead /\ Line = m_start_line
    BY <1>1 DEF InHead, Line
  <2> QED
    BY <1>1, <1>2, <2>1 DEF Follows, HeadPlace, HeadRead
<1>4. c = CRof(s) /\ s \in Nat /\ c \in Nat /\ (sent[s + 1] = CR => c = s) /\ (sent[s + 1] # CR => c = s + 1 /\ sent[s + 1] # LF)
  BY <1>2, <1>3, LineShape DEF IInv
<1>5. ASSUME NEW i \in m_checked_idx .. m_read_idx, i <= c, Scanned(i, "LINE_OPEN"), m_read_idx <= c + 1
      PROVE  Follows'
  <2>1. m_read_buf' = m_read_buf /\ m_checked_idx' = i /\ line_status' = "LINE_OPEN"
    BY <1>5 DEF Scanned
  <2>2. pc' = "recv" /\ m_start_line' = s
    BY <1>2, <2>1 DEF TakeLine, Leave
  <2>3. InOnePiece' /\ m_read_idx' = m_read_idx
    BY <1>1, <2>1 DEF Follows, InOnePiece, HeadEnd, m_read_idx
  <2> QED
    BY <1>1, <1>3, <1>4, <1>5, <2>1, <2>2, <2>3, HeadNext
<1>6. ASSUME c \in 0 .. m_read_idx - 2, LineFound(c)
      PROVE  Follows'
  <2>1. /\ Len(m_read_buf') = Len(m_read_buf)
        /\ \A k \in 1 .. Len(m_read_buf) :
             m_read_buf'[k] = IF k \in {c + 1, c + 2} THEN NUL ELSE m_read_buf[k]
    BY <1>6, LineFoundEffect DEF IInv
  <2>2. m_checked_idx' = c + 2 /\ line_status' = "LINE_OK"
    BY <1>6 DEF LineFound
  <2>3. pc' = "parse" /\ text' = s /\ m_start_line' = c + 2
    BY <1>2, <2>2 DEF TakeLine, EnterBody
  <2>4. s + 1 \in 1 .. m_read_idx /\ m_read_idx = Len(m_read_buf)
    BY <1>4, <1>6 DEF IInv, TypeOK, m_read_idx
  <2>5. m_read_buf'[s + 1] = IF sent[s + 1] = CR THEN NUL ELSE sent[s + 1]
    <3>1. CASE sent[s + 1] = CR
      BY <1>4, <2>1, <2>4, <3>1
    <3>2. CASE sent[s + 1] # CR
      <4>1. m_read_buf[s + 1] = sent[s + 1]
        BY <1>1, <1>4, <2>4, <3>2 DEF IInv, Received, Ended
      <4>2. s + 1 \notin {c + 1, c + 2}
        BY <1>4, <3>2
      <4> QED
        BY <2>1, <2>4, <3>2, <4>1, <4>2
    <3> QED
      BY <3>1, <3>2
  <2>6. InOnePiece'
    BY <1>1, <2>1 DEF Follows, InOnePiece, HeadEnd, m_read_idx
  <2> QED
    BY <1>1, <1>3, <1>4, <2>2, <2>3, <2>5, <2>6, HeadNext
<1>7. \/ /\ \E i \in m_checked_idx .. m_read_idx : i <= c /\ Scanned(i, "LINE_OPEN")
         /\ m_read_idx <= c + 1
      \/ c \in 0 .. m_read_idx - 2 /\ LineFound(c)
  BY <1>1, <1>2, <1>3, ScanHead DEF IInv, TakeLine
<1> QED
  BY <1>5, <1>6, <1>7

\* Behind the head parse_line only runs into a body that came in pieces.
LEMMA BodyLineFollows ==
  ASSUME IInv, WellFormed(sent), Follows, TakeLine, m_check_state = "CONTENT"
  PROVE  Follows'
<1>1. /\ sent' = sent /\ wire' = wire /\ split' = split /\ m_check_state' = m_check_state
      /\ m_content_length' = m_content_length /\ m_linger' = m_linger /\ pc = "loop"
  BY Zenon DEF TakeLine, parsed
<1>2. line_status # "LINE_OK"
  BY DEF TakeLine
<1>3. /\ HeadEnd < Len(sent) /\ (m_linger <=> Keeps(HeadEnd)) /\ m_content_length = Len(sent) - HeadEnd
      /\ m_start_line >= HeadEnd /\ (~ split => m_checked_idx = HeadEnd /\ m_read_idx < Len(sent))
  BY <1>1, <1>2 DEF Follows, BodyPlace
<1>4. /\ m_read_idx \in Nat /\ m_checked_idx \in Nat /\ m_checked_idx <= m_read_idx
      /\ m_start_line \in Nat /\ m_start_line <= m_checked_idx /\ HeadEnd \in Nat /\ Len(sent) \in Nat
  BY HeadFacts DEF IInv, TypeOK, m_read_idx
<1>5. ~ split => m_read_idx = HeadEnd
  BY <1>3, <1>4 DEF Follows, InOnePiece
<1>6. ASSUME NEW i \in m_checked_idx .. m_read_idx, NEW s \in {"LINE_OPEN", "LINE_BAD"}, Scanned(i, s)
      PROVE  Follows'
  <2>1. m_read_buf' = m_read_buf /\ m_checked_idx' = i /\ line_status' = s
    BY <1>6 DEF Scanned
  <2>2. pc' = "recv" /\ m_start_line' = m_start_line
    BY <2>1 DEF TakeLine, Leave
  <2>3. InOnePiece' /\ m_read_idx' = m_read_idx
    BY <1>1, <2>1 DEF Follows, InOnePiece, HeadEnd, m_read_idx
  <2>4. ~ split => i = HeadEnd
    BY <1>3, <1>4, <1>5
  <2> QED
    BY <1>1, <1>3, <1>5, <2>1, <2>2, <2>3, <2>4, BodyNext
<1>7. ASSUME NEW i \in 0 .. m_read_idx - 2, LineFound(i), m_checked_idx <= i + 1
      PROVE  Follows'
  <2>1. Len(m_read_buf') = Len(m_read_buf)
    BY <1>7, LineFoundEffect DEF IInv
  <2>2. m_checked_idx' = i + 2 /\ line_status' = "LINE_OK"
    BY <1>7 DEF LineFound
  <2>3. pc' = "parse" /\ text' = m_start_line /\ m_start_line' = i + 2
    BY <2>2 DEF TakeLine, EnterBody
  <2>4. split /\ i + 2 >= HeadEnd
    BY <1>3, <1>4, <1>5, <1>7
  <2>5. InOnePiece'
    BY <1>1, <2>1 DEF Follows, InOnePiece, HeadEnd, m_read_idx
  <2> QED
    BY <1>1, <1>3, <2>2, <2>3, <2>4, <2>5, BodyNext
<1> QED
  BY <1>6, <1>7, ParseLineCases DEF IInv, TakeLine

LEMMA ContentFollows ==
  ASSUME IInv, WellFormed(sent), Follows, TakeContent
  PROVE  Follows'
<1>1. /\ sent' = sent /\ m_read_buf' = m_read_buf /\ m_checked_idx' = m_checked_idx /\ split' = split
      /\ m_check_state' = m_check_state /\ m_content_length' = m_content_length /\ m_linger' = m_linger
      /\ pc = "loop" /\ m_check_state = "CONTENT"
  BY Zenon DEF TakeContent, parsed
<1>2. pc' = "parse" /\ text' = m_start_line /\ m_start_line' = m_checked_idx
  BY <1>1 DEF TakeContent, EnterBody
<1>3. /\ HeadEnd < Len(sent) /\ (m_linger <=> Keeps(HeadEnd)) /\ m_content_length = Len(sent) - HeadEnd
      /\ m_start_line >= HeadEnd /\ (~ split => m_checked_idx = HeadEnd)
  BY <1>1 DEF Follows, BodyPlace
<1>4. m_checked_idx >= HeadEnd
  <2>1. m_checked_idx \in Nat /\ m_start_line \in Nat /\ m_start_line <= m_checked_idx /\ HeadEnd \in Nat
    BY HeadFacts DEF IInv, TypeOK
  <2> QED
    BY <1>3, <2>1
<1>5. InOnePiece'
  BY <1>1 DEF Follows, InOnePiece, HeadEnd, m_read_idx
<1> QED
  BY <1>1, <1>2, <1>3, <1>4, <1>5, BodyNext

\* What is known when a line of the head is parsed.
LEMMA AtLine ==
  ASSUME IInv, WellFormed(sent), Follows, pc = "parse", m_check_state # "CONTENT"
  PROVE  /\ LineStart(text) /\ (m_check_state = "HEADER" <=> text > 0)
         /\ m_start_line = CRof(text) + 2 /\ m_checked_idx = m_start_line /\ line_status = "LINE_OK"
         /\ Cell(text) = IF sent[text + 1] = CR THEN NUL ELSE sent[text + 1]
         /\ sent[text + 1] # NUL
         /\ m_linger <=> Keeps(text)
         /\ Sized(text) => m_content_length = Len(sent) - HeadEnd
         /\ ~ Sized(text) => m_content_length = 0
<1>1. InHead /\ Line = text
  BY DEF InHead, Line
<1>2. m_checked_idx = m_start_line
  BY DEF IInv, InBuffer
<1>3. LineStart(text)
  BY <1>1 DEF Follows, HeadPlace
<1>4. sent[text + 1] # NUL
  <2>1. sent \in Seq(Cells \ {NUL})
    BY HttpParseAssumption DEF IInv, Received
  <2>2. text + 1 \in 1 .. Len(sent)
    BY <1>3, HeadFacts DEF IInv, LineStart
  <2> QED
    BY <2>1, <2>2
<1> QED
  BY <1>1, <1>2, <1>3, <1>4 DEF Follows, HeadPlace, HeadRead

\* Behind a line with a text the next one is looked for.
LEMMA NextLine ==
  ASSUME IInv, WellFormed(sent), Follows, pc = "parse", m_check_state # "CONTENT", sent[text + 1] # CR
  PROVE  /\ LineStart(m_start_line) /\ m_start_line > 0 /\ m_checked_idx <= CRof(m_start_line)
         /\ Keeps(m_start_line) <=> m_linger \/ sent[text + 1] = "keep"
         /\ Sized(m_start_line) <=> Sized(text) \/ sent[text + 1] \in DOMAIN Lengths
<1>1. /\ LineStart(text) /\ m_start_line = CRof(text) + 2 /\ m_checked_idx = m_start_line
      /\ m_linger <=> Keeps(text)
  BY AtLine
<1>2. LineStart(m_start_line)
  BY <1>1, TextNotLast DEF IInv
<1>3. CRof(text) \in Nat
  BY <1>1, LineShape DEF IInv
<1>4. m_start_line \in Nat /\ m_start_line <= CRof(m_start_line)
  BY <1>2, LineShape DEF IInv
<1>5. /\ Keeps(m_start_line) <=> Keeps(text) \/ sent[text + 1] = "keep"
      /\ Sized(m_start_line) <=> Sized(text) \/ sent[text + 1] \in DOMAIN Lengths
  BY <1>1, LineSays DEF IInv
<1> QED
  BY <1>1, <1>2, <1>3, <1>4, <1>5

LEMMA RequestLineFollows ==
  ASSUME IInv, WellFormed(sent), Follows, ParseRequestLine
  PROVE  Follows'
<1>1. pc = "parse" /\ m_check_state = "REQUESTLINE"
  BY DEF ParseRequestLine
<1>2. text = 0
  BY <1>1 DEF IInv, FirstLine
<1>3. sent[text + 1] \in {"get", "post"} \cup Slash /\ 0 + 1 = 1
  BY <1>2, HeadFacts DEF IInv
<1>4. sent[text + 1] # CR /\ Cell(text) = sent[text + 1] /\ Cell(text + 1) = NUL
  <2>1. sent[text + 1] # CR
    BY <1>3 DEF CR, Slash
  <2>2. m_start_line = CRof(text) + 2 /\ Cell(text) = sent[text + 1]
    BY <1>1, <2>1, AtLine
  <2>3. m_start_line = 3 /\ 3 - 1 = (0 + 1) + 1
    BY <1>2, <2>1, <2>2 DEF CRof
  <2>4. m_read_buf[m_start_line - 1] = NUL
    BY <1>1 DEF IInv, FirstLine
  <2> QED
    BY <1>2, <2>1, <2>2, <2>3, <2>4 DEF Cell
<1>5. /\ sent' = sent /\ m_check_state' = "HEADER" /\ pc' = "loop"
      /\ m_content_length' = m_content_length /\ m_linger' = m_linger /\ split' = split
  BY <1>3, <1>4 DEF ParseRequestLine, Continue
<1>6. Len(m_read_buf') = Len(m_read_buf) /\ m_checked_idx' = m_checked_idx /\ m_start_line' = m_start_line
  BY JudgeEffect DEF IInv, ParseRequestLine
<1>7. /\ LineStart(m_start_line) /\ m_start_line > 0 /\ m_checked_idx <= CRof(m_start_line)
      /\ Keeps(m_start_line) <=> m_linger
      /\ Sized(m_start_line) <=> Sized(text)
  <2>1. sent[text + 1] # "keep" /\ sent[text + 1] \notin DOMAIN Lengths
    BY <1>3, HttpParseAssumption DEF Plain, Slash
  <2> QED
    BY <1>1, <1>4, <2>1, NextLine
<1>8. /\ Sized(text) => m_content_length = Len(sent) - HeadEnd
      /\ ~ Sized(text) => m_content_length = 0
  BY <1>1, AtLine
<1>9. InOnePiece'
  BY <1>5, <1>6 DEF Follows, InOnePiece, HeadEnd, m_read_idx
<1> QED
  BY <1>5, <1>6, <1>7, <1>8, <1>9, HeadNext

\* What the head of a well-formed request says of its body is true.
LEMMA WellFormedIsHonest ==
  ASSUME TypeOK, WellFormed(sent)
  PROVE  Honest(sent) /\ Len(BodyOf(sent)) \in {0} \cup LengthsOf(sent)
<1>1. /\ sent \in Seq(Cells) /\ Len(sent) \in Nat /\ HeadEnd \in Nat /\ HeadEnd <= Len(sent)
      /\ BodyOf(sent) \in Seq(Cells) /\ Len(BodyOf(sent)) = Len(sent) - HeadEnd
  BY HeadFacts, BodyIsRest
<1>2. \A k \in 1 .. HeadEnd : sent[k] \in DOMAIN Lengths => Lengths[sent[k]] = Len(BodyOf(sent))
  BY <1>1 DEF WellFormed, HeadEnd
<1>3. LinesOf(sent) = {sent[k] : k \in 1 .. HeadEnd}
  BY DEF LinesOf, HeadEnd, HeadLen
<1>4. LengthsOf(sent) \subseteq {Len(BodyOf(sent))}
  BY <1>2, <1>3 DEF LengthsOf
<1>5. CASE LengthsOf(sent) # {}
  BY <1>4, <1>5 DEF Honest
<1>6. CASE LengthsOf(sent) = {}
  <2>1. ~ (HeadEnd < Len(sent))
    <3> SUFFICES ASSUME HeadEnd < Len(sent) PROVE FALSE
      OBVIOUS
    <3>1. PICK k \in 1 .. HeadEnd : sent[k] \in DOMAIN Lengths
      BY DEF WellFormed, HeadEnd
    <3>2. Lengths[sent[k]] \in LengthsOf(sent)
      BY <1>3, <3>1 DEF LengthsOf
    <3> QED
      BY <1>6, <3>2
  <2>2. Len(BodyOf(sent)) = 0
    BY <1>1, <2>1
  <2>3. BodyOf(sent) = <<>>
    BY <1>1, <2>2
  <2> QED
    BY <1>6, <2>2, <2>3 DEF Honest
<1> QED
  BY <1>5, <1>6

LEMMA ParsedNext ==
  ASSUME TypeOK, WellFormed(sent), sent' = sent, HasEmptyLine(sent), m_method' = MethodOf(sent[1]),
         m_linger' \in BOOLEAN, m_linger' <=> "keep" \in LinesOf(sent),
         m_content_length' = Len(BodyOf(sent)),
         wire' = <<>> \/ Overflows',
         m_content_length' > 0 /\ ~ Overflows' =>
           SubSeq(m_read_buf', text' + 1, text' + m_content_length') = BodyOf(sent)
  PROVE  ParsedAsSent'
<1>1. m_linger' = ("keep" \in LinesOf(sent))
  OBVIOUS
<1>2. m_content_length' \in {0} \cup LengthsOf(sent)
  BY WellFormedIsHonest
<1>3. SubSeq(BodyOf(sent), 1, m_content_length') = BodyOf(sent)
  <2>1. BodyOf(sent) \in Seq(Cells)
    BY BodyIsRest
  <2>2. SubSeq(BodyOf(sent), 1, Len(BodyOf(sent))) = BodyOf(sent)
    BY <2>1
  <2> QED
    BY <2>2
<1> QED
  BY <1>1, <1>2, <1>3 DEF ParsedAsSent

\* The empty line: the request is complete, or its body comes next.
LEMMA EmptyLineFollows ==
  ASSUME IInv, WellFormed(sent), Follows, ParseHeaders, sent[text + 1] = CR
  PROVE  Follows'
<1>1. pc = "parse" /\ m_check_state = "HEADER"
  BY DEF ParseHeaders
<1>2. /\ LineStart(text) /\ text > 0 /\ m_start_line = CRof(text) + 2 /\ m_checked_idx = m_start_line /\ line_status = "LINE_OK"
      /\ Cell(text) = NUL /\ (m_linger <=> Keeps(text))
      /\ (Sized(text) => m_content_length = Len(sent) - HeadEnd) /\ (~ Sized(text) => m_content_length = 0)
  BY <1>1, AtLine
<1>3. text + 2 = HeadEnd
  <2>1. text \in Nat
    BY DEF IInv, TypeOK
  <2> QED
    BY <1>2, <2>1, EmptyIsLast DEF IInv
<1>4. m_start_line = HeadEnd
  BY <1>2, <1>3, LineShape DEF IInv
<1>5. (Keeps(HeadEnd) <=> m_linger) /\ (Sized(HeadEnd) <=> Sized(text))
  <2>1. CR # "keep" /\ CR \notin DOMAIN Lengths
    BY HttpParseAssumption DEF CR, Plain
  <2> QED
    BY <1>2, <1>4, <2>1, LineSays DEF IInv
<1>6. NUL # "keep" /\ NUL \notin DOMAIN Lengths
  BY HttpParseAssumption DEF NUL, Plain
<1>7. /\ sent' = sent /\ wire' = wire /\ m_read_buf' = m_read_buf /\ m_checked_idx' = m_checked_idx
      /\ m_start_line' = m_start_line /\ text' = text /\ m_method' = m_method /\ line_status' = line_status /\ split' = split
  BY Zenon DEF ParseHeaders, place
<1>8. m_content_length' = m_content_length
  BY <1>2, <1>6 DEF ParseHeaders
<1>9. m_linger' = m_linger
  <2>1. m_linger \in BOOLEAN
    BY DEF IInv, TypeOK
  <2> QED
    BY <1>2, <1>6, <2>1 DEF ParseHeaders
<1>10. InOnePiece'
  BY <1>7 DEF Follows, InOnePiece, HeadEnd, m_read_idx
<1>11. /\ HeadEnd \in Nat /\ Len(sent) \in Nat /\ HeadEnd <= Len(sent) /\ m_read_idx \in Nat /\ Len(wire) \in Nat
       /\ Len(sent) = m_read_idx + Len(wire) /\ HeadEnd <= m_read_idx /\ sent \in Seq(Cells) /\ wire \in Seq(Cells)
  <2>1. HeadEnd \in Nat /\ Len(sent) \in Nat /\ HeadEnd <= Len(sent) /\ sent \in Seq(Cells)
    BY HeadFacts DEF IInv
  <2>2. m_read_idx \in Nat /\ Len(wire) \in Nat /\ Len(sent) = m_read_idx + Len(wire) /\ wire \in Seq(Cells)
    BY DEF IInv, TypeOK, Received, m_read_idx
  <2>3. m_checked_idx <= m_read_idx
    BY DEF IInv, TypeOK, m_read_idx
  <2> QED
    BY <1>2, <1>4, <2>1, <2>2, <2>3
<1>12. HeadEnd < Len(sent) => Sized(HeadEnd)
  BY DEF WellFormed, HeadEnd, Sized
<1>13. CASE m_content_length # 0
  <2>1. pc' = "loop" /\ m_check_state' = "CONTENT"
    BY <1>2, <1>13 DEF ParseHeaders, Continue
  <2>2. m_content_length = Len(sent) - HeadEnd /\ HeadEnd < Len(sent)
    BY <1>2, <1>11, <1>13
  <2>3. m_start_line >= HeadEnd
    BY <1>4, <1>11
  <2> QED
    BY <1>2, <1>4, <1>5, <1>7, <1>8, <1>9, <1>10, <2>1, <2>2, <2>3, BodyNext
<1>14. CASE m_content_length = 0
  <2>1. pc' = "answer" /\ result' = "GET_REQUEST" /\ m_check_state' = "HEADER"
    BY <1>1, <1>2, <1>14 DEF ParseHeaders, Leave
  <2>2. Len(sent) = HeadEnd
    BY <1>2, <1>5, <1>11, <1>12, <1>14
  <2>3. Len(wire) = 0
    BY <1>11, <2>2
  <2>4. wire = <<>>
    BY <1>11, <2>3
  <2>5. BodyStart(sent) - 1 = HeadEnd
    BY DEF HeadEnd, HeadLen
  <2>6. ParsedAsSent'
    <3>1. m_method = MethodOf(sent[1])
      BY <1>1 DEF IInv, MethodSent
    <3>2. m_linger <=> "keep" \in LinesOf(sent)
      BY <1>5, <2>5 DEF LinesOf, Keeps
    <3>3. m_content_length = Len(BodyOf(sent))
      BY <1>11, <1>14, <2>2, <2>5, BodyIsRest DEF IInv
    <3>4. HasEmptyLine(sent)
      BY EndsWithEmptyLine DEF IInv
    <3>5. m_linger \in BOOLEAN /\ ~ (0 > 0)
      BY DEF IInv, TypeOK
    <3> QED
      BY <1>7, <1>8, <1>9, <1>14, <2>4, <3>1, <3>2, <3>3, <3>4, <3>5, ParsedNext DEF IInv
  <2>7. HeadPlace' /\ HeadRead' /\ BodyPlace' /\ Accepted'
    BY <2>1 DEF HeadPlace, HeadRead, BodyPlace, InHead, Accepted
  <2> QED
    BY <1>10, <2>6, <2>7 DEF Follows
<1> QED
  BY <1>13, <1>14

LEMMA HeaderFollows ==
  ASSUME IInv, WellFormed(sent), Follows, ParseHeaders, sent[text + 1] # CR
  PROVE  Follows'
<1>1. pc = "parse" /\ m_check_state = "HEADER"
  BY DEF ParseHeaders
<1>2. /\ Cell(text) = sent[text + 1] /\ Cell(text) # NUL /\ LineStart(text)
      /\ (Sized(text) => m_content_length = Len(sent) - HeadEnd) /\ (~ Sized(text) => m_content_length = 0)
  BY <1>1, AtLine
<1>3. /\ sent' = sent /\ m_check_state' = "HEADER" /\ pc' = "loop" /\ split' = split
      /\ m_linger' = (m_linger \/ Cell(text) = "keep")
      /\ m_content_length' = IF Cell(text) \in DOMAIN Lengths THEN Lengths[Cell(text)] ELSE m_content_length
  BY <1>2 DEF ParseHeaders, Continue
<1>4. m_read_buf' = m_read_buf /\ m_checked_idx' = m_checked_idx /\ m_start_line' = m_start_line
  BY Zenon DEF ParseHeaders, place
<1>5. /\ LineStart(m_start_line) /\ m_start_line > 0 /\ m_checked_idx <= CRof(m_start_line)
      /\ Keeps(m_start_line) <=> m_linger \/ sent[text + 1] = "keep"
      /\ Sized(m_start_line) <=> Sized(text) \/ sent[text + 1] \in DOMAIN Lengths
  BY <1>1, NextLine
<1>6. sent[text + 1] \in DOMAIN Lengths => Lengths[sent[text + 1]] = Len(sent) - HeadEnd
  <2>1. text + 1 \in 1 .. HeadEnd
    BY <1>2, HeadFacts DEF IInv, LineStart
  <2> QED
    BY <2>1 DEF WellFormed, HeadEnd
<1>7. InOnePiece'
  BY <1>3, <1>4 DEF Follows, InOnePiece, HeadEnd, m_read_idx
<1>8. (m_linger' <=> Keeps(m_start_line)) /\ (Sized(m_start_line) => m_content_length' = Len(sent) - HeadEnd)
      /\ (~ Sized(m_start_line) => m_content_length' = 0)
  BY <1>2, <1>3, <1>5, <1>6
<1> QED
  BY <1>3, <1>4, <1>5, <1>7, <1>8, HeadNext

\* The body: taken when all of it is there and the scan has not gone into it.
LEMMA ParseContentFollows ==
  ASSUME IInv, WellFormed(sent), Follows, ParseContent
  PROVE  Follows'
<1>1. /\ sent' = sent /\ wire' = wire /\ m_checked_idx' = m_checked_idx
      /\ m_start_line' = m_start_line /\ text' = text /\ split' = split
      /\ m_check_state' = m_check_state /\ m_content_length' = m_content_length
      /\ m_method' = m_method /\ m_linger' = m_linger
      /\ pc = "parse" /\ m_check_state = "CONTENT"
  BY Zenon DEF ParseContent, parsed
<1>2. /\ HeadEnd < Len(sent) /\ (m_linger <=> Keeps(HeadEnd)) /\ m_content_length = Len(sent) - HeadEnd
      /\ m_start_line >= HeadEnd /\ text >= HeadEnd /\ (~ split => m_checked_idx = HeadEnd)
  BY <1>1 DEF Follows, BodyPlace
<1>3. /\ m_start_line = m_checked_idx /\ text <= m_start_line
      /\ m_checked_idx \in Nat /\ text \in Nat /\ m_read_idx \in Nat /\ m_checked_idx <= m_read_idx
      /\ HeadEnd \in Nat /\ Len(sent) \in Nat /\ Len(wire) \in Nat /\ Len(sent) = m_read_idx + Len(wire)
  BY <1>1, HeadFacts DEF IInv, InBuffer, TypeOK, Received, m_read_idx
<1>4. InOnePiece' /\ m_read_idx' = m_read_idx
  <2>1. Len(m_read_buf') = Len(m_read_buf)
    BY TerminateEffect DEF IInv, ParseContent
  <2> QED
    BY <1>1, <2>1 DEF Follows, InOnePiece, HeadEnd, m_read_idx
<1>5. CASE ~ (m_read_idx >= m_content_length + m_checked_idx \/ Overflows)
  <2>1. pc' = "loop" /\ line_status' = "LINE_OPEN"
    BY <1>5 DEF ParseContent, Continue
  <2>2. ~ split => m_read_idx < Len(sent)
    BY <1>2, <1>3, <1>5
  <2> QED
    BY <1>1, <1>2, <1>4, <2>1, <2>2, BodyNext
<1>6. CASE m_read_idx >= m_content_length + m_checked_idx \/ Overflows
  <2>1. Terminate /\ pc' \in {"answer", "faulted"} /\ result' = "GET_REQUEST"
    BY <1>6 DEF ParseContent, Terminate
  <2>2. m_linger <=> "keep" \in LinesOf(sent)
    <3>1. BodyStart(sent) - 1 = HeadEnd
      BY DEF HeadEnd, HeadLen
    <3> QED
      BY <1>2, <3>1 DEF LinesOf, Keeps
  <2>3. m_method = MethodOf(sent[1]) /\ HasEmptyLine(sent) /\ m_linger \in BOOLEAN
    BY <1>1, EndsWithEmptyLine DEF IInv, MethodSent, TypeOK
  <2>4. m_content_length = Len(BodyOf(sent))
    BY <1>2, BodyIsRest DEF IInv
  <2>5. Overflows' <=> Overflows
    BY <1>1 DEF Overflows
  <2>6. ParsedAsSent'
    <3>1. CASE Overflows
      BY <1>1, <2>2, <2>3, <2>4, <2>5, <3>1, ParsedNext DEF IInv
    <3>2. CASE ~ Overflows
      <4>1. text = HeadEnd /\ m_checked_idx = HeadEnd /\ m_read_idx = Len(sent) /\ Len(wire) = 0
        BY <1>2, <1>3, <1>6, <3>2
      <4>2. wire \in Seq(Cells) /\ m_read_buf \in Seq(Cells)
        BY DEF IInv, TypeOK
      <4>3. wire = <<>>
        BY <4>1, <4>2
      <4>4. PICK h, l : h = HeadEnd /\ l = Len(sent) - HeadEnd
        OBVIOUS
      <4>5. h \in Nat /\ l \in Nat /\ h + l = Len(sent)
        BY <1>2, <1>3, <4>4
      <4>6. m_read_buf' = m_read_buf
        <5>1. text + m_content_length = Len(m_read_buf)
          BY <1>2, <4>1, <4>4, <4>5 DEF m_read_idx
        <5> QED
          BY <2>1, <5>1, TerminateEffect DEF IInv
      <4>7. SubSeq(m_read_buf, h + 1, h + l) = BodyOf(sent)
        <5> DEFINE a == SubSeq(m_read_buf, h + 1, h + l)
                   b == BodyOf(sent)
        <5>1. Len(m_read_buf) = h + l
          BY <4>1, <4>5 DEF m_read_idx
        <5>2. a \in Seq(Cells) /\ Len(a) = l /\ \A k \in 1 .. l : a[k] = m_read_buf[h + k]
          BY <4>2, <4>5, <5>1, RestOf
        <5>3. b \in Seq(Cells) /\ Len(b) = l /\ \A k \in 1 .. l : b[k] = sent[h + k]
          BY <4>4, BodyIsRest DEF IInv
        <5>4. \A k \in 1 .. l : m_read_buf[h + k] = sent[h + k]
          <6> SUFFICES ASSUME NEW k \in 1 .. l PROVE m_read_buf[h + k] = sent[h + k]
            OBVIOUS
          <6>1. h + k \in 1 .. m_read_idx /\ ~ (h + k <= m_checked_idx)
            BY <4>1, <4>4, <4>5 DEF m_read_idx
          <6> QED
            BY <1>1, <6>1 DEF IInv, Received, Ended
        <5> HIDE DEF a, b
        <5>5. \A k \in 1 .. Len(a) : a[k] = b[k]
          BY <5>2, <5>3, <5>4
        <5>6. a = b
          BY <5>2, <5>3, <5>5, SeqEqual
        <5> QED
          BY <5>6 DEF a, b
      <4>8. m_content_length = l /\ text = h
        BY <1>2, <4>1, <4>4
      <4> QED
        BY <1>1, <2>2, <2>3, <2>4, <4>3, <4>6, <4>7, <4>8, ParsedNext DEF IInv
    <3> QED
      BY <3>1, <3>2
  <2>7. HeadPlace' /\ HeadRead' /\ Accepted'
    BY <2>1 DEF HeadPlace, HeadRead, InHead, Accepted
  <2>8. BodyPlace'
    <3>1. HeadEnd' = HeadEnd /\ (Keeps(HeadEnd)' <=> Keeps(HeadEnd))
      BY <1>1 DEF HeadEnd, Keeps
    <3> QED
      BY <1>1, <1>2, <2>1, <3>1 DEF BodyPlace
  <2> QED
    BY <1>4, <2>6, <2>7, <2>8 DEF Follows
<1> QED
  BY <1>5, <1>6

\* The next request is read from a buffer that is as good as new.
LEMMA RenewedFollows ==
  ASSUME TypeOK', Received', WellFormed(sent)', pc' = "recv", Renewed
  PROVE  Follows'
<1>1. /\ m_read_buf' = <<>> /\ m_checked_idx' = 0 /\ m_start_line' = 0 /\ m_check_state' = "REQUESTLINE"
      /\ m_content_length' = 0 /\ m_linger' = FALSE /\ split' = FALSE
  BY Zenon DEF Renewed
<1>2. sent' \in Seq(Cells) /\ HeadEnd' \in Nat /\ 5 <= HeadEnd'
  BY DEF TypeOK, WellFormed, HeadEnd
<1>3. m_read_idx' = 0
  BY <1>1 DEF m_read_idx
<1>4. HeadPlace'
  <2>1. Line' = 0
    BY <1>1 DEF Line
  <2>2. LineStart(Line)'
    <3>1. PICK e \in Nat : HeadEnd' = e /\ 5 <= e
      BY <1>2
    <3>2. 0 \in 0 .. e - 1
      BY <3>1
    <3>3. Line' \in 0 .. HeadEnd' - 1
      BY <2>1, <3>1, <3>2
    <3> QED
      BY <2>1, <3>3, Zenon DEF LineStart
  <2>3. CRof(m_start_line)' \in {0, 1}
    BY <1>1 DEF CRof
  <2>4. m_checked_idx' <= CRof(m_start_line)' /\ m_read_idx' <= CRof(m_start_line)' + 1
    BY <1>1, <1>3, <2>3
  <2> QED
    BY <1>1, <2>1, <2>2, <2>4 DEF HeadPlace
<1>5. HeadRead'
  BY <1>1 DEF HeadRead, Line, Keeps, Sized
<1>6. BodyPlace' /\ Accepted' /\ ParsedAsSent'
  BY <1>1 DEF BodyPlace, Accepted, ParsedAsSent
<1>7. InOnePiece'
  BY <1>2, <1>3 DEF InOnePiece
<1> QED
  BY <1>4, <1>5, <1>6, <1>7 DEF Follows

LEMMA InitFollows ==
  ASSUME Init, WellFormed(sent)
  PROVE  Follows
<1>1. /\ m_read_buf = <<>> /\ m_checked_idx = 0 /\ m_start_line = 0 /\ m_check_state = "REQUESTLINE"
      /\ m_content_length = 0 /\ m_linger = FALSE /\ split = FALSE /\ pc = "recv"
  BY Zenon DEF Init, Fresh
<1>2. HeadEnd \in Nat /\ 5 <= HeadEnd
  BY InitIInv, HeadFacts DEF IInv
<1>3. m_read_idx = 0
  BY <1>1 DEF m_read_idx
<1>4. HeadPlace
  BY <1>1, <1>2, <1>3 DEF HeadPlace, Line, LineStart, CRof
<1>5. HeadRead
  BY <1>1 DEF HeadRead, Line, Keeps, Sized
<1>6. BodyPlace /\ Accepted /\ ParsedAsSent
  BY <1>1 DEF BodyPlace, Accepted, ParsedAsSent
<1>7. InOnePiece
  BY <1>2, <1>3 DEF InOnePiece
<1> QED
  BY <1>4, <1>5, <1>6, <1>7 DEF Follows

\* A connection that is closed follows nothing any more.
LEMMA ClosedFollows ==
  ASSUME Follows, sent' = sent, m_read_buf' = m_read_buf, split' = split, pc' = "closed"
  PROVE  Follows'
<1>1. InOnePiece'
  BY DEF Follows, InOnePiece, HeadEnd, m_read_idx
<1> QED
  BY <1>1 DEF Follows, HeadPlace, HeadRead, BodyPlace, InHead, Accepted, ParsedAsSent

LEMMA StutterFollows ==
  ASSUME Follows, UNCHANGED vars
  PROVE  Follows'
<1>1. /\ pc' = pc /\ sent' = sent /\ wire' = wire /\ m_read_buf' = m_read_buf /\ m_checked_idx' = m_checked_idx
      /\ m_start_line' = m_start_line /\ m_check_state' = m_check_state /\ m_content_length' = m_content_length
      /\ m_method' = m_method /\ m_linger' = m_linger /\ line_status' = line_status /\ text' = text
      /\ result' = result /\ split' = split
  BY Zenon DEF vars, place, parsed
<1>2. HeadPlace'
  BY <1>1, Zenon DEF Follows, HeadPlace, InHead, Line, LineStart, CRof, HeadEnd, Cell, m_read_idx
<1>3. HeadRead'
  BY <1>1, Zenon DEF Follows, HeadRead, InHead, Line, HeadEnd, Keeps, Sized
<1>4. BodyPlace'
  BY <1>1, Zenon DEF Follows, BodyPlace, HeadEnd, Keeps, m_read_idx
<1>5. InOnePiece' /\ Accepted' /\ ParsedAsSent'
  BY <1>1, Zenon DEF Follows, InOnePiece, HeadEnd, m_read_idx, Accepted, ParsedAsSent, Overflows
<1> QED
  BY <1>2, <1>3, <1>4, <1>5 DEF Follows

LEMMA FollowsStep ==
  ASSUME IInv, WInv, [Next]_vars
  PROVE  WInv'
<1> SUFFICES ASSUME WellFormed(sent)' PROVE Follows'
  BY DEF WInv
<1>1. CASE Answered
  <2>1. CASE m_linger
    <3>1. TypeOK' /\ Received'
      BY TypeStep, ReceivedStep DEF IInv
    <3>2. pc' = "recv" /\ Renewed
      BY <1>1, <2>1 DEF Answered
    <3> QED
      BY <3>1, <3>2, RenewedFollows
  <2>2. CASE ~ m_linger
    <3>1. sent' = sent /\ m_read_buf' = m_read_buf /\ split' = split /\ pc' = "closed"
      BY <1>1, <2>2 DEF Answered, place
    <3> QED
      BY <3>1, ClosedFollows DEF WInv
  <2> QED
    BY <2>1, <2>2
<1>2. CASE ~ Answered
  <2>1. sent' = sent
    BY <1>2 DEF Next, ReadOnce, ReadOnceFull, TakeContent, TakeLine, ParseRequestLine, ParseHeaders, ParseContent, vars
  <2>2. WellFormed(sent) /\ Follows
    BY <2>1 DEF WInv
  <2>3. CASE ReadOnceFull
    <3>1. m_read_buf' = m_read_buf /\ split' = split /\ pc' = "closed"
      BY <2>3 DEF ReadOnceFull, place
    <3> QED
      BY <2>1, <2>2, <3>1, ClosedFollows
  <2>4. CASE TakeLine
    BY <2>2, <2>4, HeadLineFollows, BodyLineFollows
  <2>5. CASE ParseHeaders
    BY <2>2, <2>5, EmptyLineFollows, HeaderFollows
  <2> QED
    BY <1>2, <2>2, <2>3, <2>4, <2>5, ReadFollows, ContentFollows, RequestLineFollows, ParseContentFollows, StutterFollows DEF Next
<1> QED
  BY <1>1, <1>2

LEMMA WInvariance == Spec => []WInv
<1>1. Init => WInv
  BY InitFollows DEF WInv
<1>2. IInv /\ WInv /\ [Next]_vars => WInv'
  BY FollowsStep
<1> QED
  BY <1>1, <1>2, Invariance, PTL DEF Spec

\* parse_line and process_read understand every well-formed request, of any number
\* of lines and any length that an int can take, however recv cuts it: what they
\* accept is what was sent, all of it, with its method, its connection header, its
\* length and its body.
THEOREM RequestsUnderstood == Spec => [](WellFormed(sent) => Honest(sent) /\ ParsedAsSent)
<1>1. IInv /\ WInv => (WellFormed(sent) => Honest(sent) /\ ParsedAsSent)
  BY WellFormedIsHonest DEF IInv, WInv, Follows
<1> QED
  BY <1>1, Invariance, WInvariance, PTL

\* No well-formed request is answered with BAD_REQUEST.
THEOREM NoneRefused == Spec => [](WellFormed(sent) => Accepted)
<1>1. WInv => (WellFormed(sent) => Accepted)
  BY DEF WInv, Follows
<1> QED
  BY <1>1, WInvariance, PTL

\* process_read never waits for more of a well-formed request that is all in the
\* buffer, unless its body came in pieces.
THEOREM NotLeftWaiting == Spec => [](WellFormed(sent) => NeverStuck)
<1>1. IInv /\ WInv => (WellFormed(sent) => NeverStuck)
  <2> SUFFICES ASSUME IInv, WInv, WellFormed(sent), pc = "recv", wire = <<>>, ~ split PROVE FALSE
    BY DEF NeverStuck
  <2>1. /\ m_read_idx = Len(sent) /\ Len(sent) \in Nat /\ HeadEnd \in Nat /\ HeadEnd <= Len(sent)
    <3>1. Len(wire) = 0
      OBVIOUS
    <3>2. m_read_idx \in Nat /\ Len(sent) = m_read_idx + Len(wire)
      BY DEF IInv, TypeOK, Received, m_read_idx
    <3> QED
      BY <3>1, <3>2, HeadFacts DEF IInv
  <2>2. CASE m_check_state # "CONTENT"
    <3>1. LineStart(m_start_line) /\ m_read_idx <= CRof(m_start_line) + 1
      BY <2>2 DEF WInv, Follows, HeadPlace, InHead, Line
    <3>2. CRof(m_start_line) \in Nat /\ CRof(m_start_line) + 2 <= HeadEnd
      BY <3>1, LineShape DEF IInv
    <3> QED
      BY <2>1, <3>1, <3>2
  <2>3. CASE m_check_state = "CONTENT"
    <3>1. HeadEnd < Len(sent) /\ m_read_idx = HeadEnd
      BY <2>3 DEF WInv, Follows, BodyPlace
    <3> QED
      BY <2>1, <3>1
  <2> QED
    BY <2>2, <2>3
<1> QED
  BY <1>1, Invariance, WInvariance, PTL
=============================================================================
